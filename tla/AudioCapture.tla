---------------------------- MODULE AudioCapture ----------------------------
(***************************************************************************)
(* The path of the microphone's samples (voice/audio.py): PortAudio's        *)
(* callback puts frames into a bounded queue and gives up the oldest one     *)
(* for a new one, the voice thread reads them, resamples a stream whose      *)
(* driver knows another rate without a seam between frames, and keeps the    *)
(* last samples as the pre-roll of a wake word.  Ron's own speech mutes      *)
(* the callback and empties the queue.                                       *)
(*                                                                           *)
(* A sample is its number on the microphone's clock.  A resampled sample     *)
(* is the pair of samples it lies between and its distance from the left     *)
(* one, in steps of 1/TargetRate; positions are counted in these steps.      *)
(***************************************************************************)
EXTENDS Naturals, Integers, Sequences, SequencesExt

CONSTANTS NativeRates,     \* rates a driver offers, in units of a common divisor
          TargetRate,
          FrameSizes,      \* samples of a callback
          QueueFrames,     \* _queue.maxsize
          MaximumSamples,  \* SampleRingBuffer.maximum_samples
          MaxSamples,      \* bound: the microphone's clock
          MaxMutes         \* bound: changes of the mute and discards

ASSUME AudioAssumption ==
    /\ NativeRates \subseteq Nat \ {0} /\ TargetRate \in Nat \ {0}
    /\ FrameSizes \subseteq Nat \ {0} /\ QueueFrames \in Nat \ {0}
    /\ MaximumSamples \in Nat \ {0} /\ MaxSamples \in Nat /\ MaxMutes \in Nat

VARIABLES
    clock,         \* samples the microphone produced
    nativeRate,    \* _native_sample_rate, 0 while the stream is closed
    captureMuted,  \* _capture_muted
    inCallback,    \* the frame the callback holds after its look at the flag
    frames,        \* _queue
    resampler,     \* _processed, _next_position, _previous
    ring,          \* SampleRingBuffer._chunks
    consumed,      \* history: the samples read since the stream was opened
    heard,         \* history: the resampled samples passed on since then
    kept,          \* history: those given to the ring since it was last cleared
    mutes

audioVars == <<clock, nativeRate, captureMuted, inCallback, frames, resampler, ring,
               consumed, heard, kept, mutes>>

Closed == 0
NoSample == -1
FreshResampler == [processed |-> 0, next |-> 0, previous |-> NoSample]

AudioTypeOK ==
    /\ clock \in 0..MaxSamples
    /\ nativeRate \in NativeRates \cup {Closed}
    /\ captureMuted \in BOOLEAN
    /\ Len(frames) <= QueueFrames
    /\ resampler.processed \in Nat /\ resampler.next \in Nat
    /\ \A i \in DOMAIN ring : ring[i] # <<>>
    /\ mutes \in 0..MaxMutes

AudioInit ==
    /\ clock = 0
    /\ nativeRate = Closed
    /\ captureMuted = FALSE
    /\ inCallback = <<>> /\ frames = <<>>
    /\ resampler = FreshResampler
    /\ ring = <<>>
    /\ consumed = <<>> /\ heard = <<>>
    /\ kept = <<>> /\ mutes = 0

(***************************************************************************)
(* Opening and closing the stream, at the wanted rate or at the driver's.    *)
(***************************************************************************)
StartStream ==
    /\ nativeRate = Closed /\ clock < MaxSamples
    /\ nativeRate' \in NativeRates
    /\ resampler' = FreshResampler
    /\ ring' = <<>>
    /\ consumed' = <<>> /\ heard' = <<>> /\ kept' = <<>>
    /\ UNCHANGED <<clock, captureMuted, inCallback, frames, mutes>>

(* stop waits for the callback, and empties the queue.                       *)
StopStream ==
    /\ nativeRate # Closed /\ inCallback = <<>>
    /\ nativeRate' = Closed
    /\ frames' = <<>>
    /\ resampler' = FreshResampler
    /\ UNCHANGED <<clock, captureMuted, inCallback, ring, consumed, heard, kept, mutes>>

(***************************************************************************)
(* The real-time callback: it looks at the flag, copies the samples and      *)
(* puts the frame, dropping the oldest for it when the queue is full.        *)
(***************************************************************************)
Samples(first, size) == [i \in 1..size |-> first + i]

Captured ==
    /\ nativeRate # Closed /\ inCallback = <<>>
    /\ \E size \in FrameSizes :
         /\ clock + size <= MaxSamples
         /\ clock' = clock + size
         /\ inCallback' = IF captureMuted THEN <<>> ELSE Samples(clock, size)
    /\ UNCHANGED <<nativeRate, captureMuted, frames, resampler, ring, consumed, heard,
                   kept, mutes>>

(* Fault: a queue that does not know its limit.                             *)
EnqueuedAnyway(queue, frame) == Append(queue, frame)

Enqueued(queue, frame) ==
    IF Len(queue) < QueueFrames THEN Append(queue, frame) ELSE Append(Tail(queue), frame)

PutFrame ==
    /\ inCallback # <<>>
    /\ frames' = Enqueued(frames, inCallback)
    /\ inCallback' = <<>>
    /\ UNCHANGED <<clock, nativeRate, captureMuted, resampler, ring, consumed, heard,
                   kept, mutes>>

(***************************************************************************)
(* Ron speaks: the flag is set and the queue emptied; when he is done the    *)
(* queue is emptied once more before the flag is cleared.  A reset of the    *)
(* detectors and a handled command empty the queue and the ring.             *)
(***************************************************************************)
SetCaptureMuted ==
    /\ mutes < MaxMutes
    /\ mutes' = mutes + 1
    /\ captureMuted' = ~captureMuted
    /\ frames' = <<>>
    /\ UNCHANGED <<clock, nativeRate, inCallback, resampler, ring, consumed, heard, kept>>

DiscardPending ==
    /\ nativeRate # Closed /\ mutes < MaxMutes
    /\ mutes' = mutes + 1
    /\ frames' = <<>> /\ ring' = <<>> /\ kept' = <<>>
    /\ UNCHANGED <<clock, nativeRate, captureMuted, inCallback, resampler, consumed, heard>>

(***************************************************************************)
(* StreamingLinearResampler.process over one frame.                          *)
(***************************************************************************)
Floor(position) == position \div TargetRate
Ceiling(position) == (position + TargetRate - 1) \div TargetRate

SampleAt(state, frame, index) ==
    IF index < state.processed THEN state.previous
                               ELSE frame[index - state.processed + 1]

Interpolated(state, frame, position) ==
    [left  |-> SampleAt(state, frame, Floor(position)),
     right |-> SampleAt(state, frame, Ceiling(position)),
     part  |-> position % TargetRate]

(* The positions from the next one on whose right neighbour is known.        *)
Reached(state, frame) ==
    LET end == state.processed + Len(frame) - 1
    IN CHOOSE n \in 0..(Len(frame) * TargetRate) :
         /\ \A k \in 0..(n - 1) : Ceiling(state.next + k * nativeRate) <= end
         /\ Ceiling(state.next + n * nativeRate) > end

Output(state, frame) ==
    [k \in 1..Reached(state, frame) |->
       Interpolated(state, frame, state.next + (k - 1) * nativeRate)]

(* Fault: the resampler that takes every frame for a clip of its own.       *)
ProcessedAlone(state, frame) ==
    [processed |-> 0, next |-> 0, previous |-> frame[Len(frame)]]

Processed(state, frame) ==
    [processed |-> state.processed + Len(frame),
     next      |-> state.next + Reached(state, frame) * nativeRate,
     previous  |-> frame[Len(frame)]]

(***************************************************************************)
(* SampleRingBuffer.append: chunks leave at the front, the last of them      *)
(* only in part.                                                             *)
(***************************************************************************)
Length(chunks) == Len(FlattenSeq(chunks))

DropExcess(chunks) ==
    LET excess == Length(chunks) - MaximumSamples
        Leading(n) == Length(SubSeq(chunks, 1, n))
        gone == CHOOSE n \in 0..(Len(chunks) - 1) :
                  Leading(n) <= excess /\ Leading(n + 1) > excess
        first == chunks[gone + 1]
    IN IF excess <= 0 THEN chunks
       ELSE <<SubSeq(first, excess - Leading(gone) + 1, Len(first))>>
              \o SubSeq(chunks, gone + 2, Len(chunks))

AppendToRing(chunk) ==
    IF chunk = <<>> THEN ring
    ELSE IF Len(chunk) >= MaximumSamples
    THEN <<SubSeq(chunk, Len(chunk) - MaximumSamples + 1, Len(chunk))>>
    ELSE DropExcess(Append(ring, chunk))

(* Samples read while the service ignores audio do not reach the ring.       *)
ReadFrame ==
    /\ nativeRate # Closed /\ frames # <<>>
    /\ LET frame == Head(frames)
           output == Output(resampler, frame)
       IN /\ resampler' = Processed(resampler, frame)
          /\ consumed' = consumed \o frame
          /\ heard' = heard \o output
          /\ \/ ring' = AppendToRing(output) /\ kept' = kept \o output
             \/ UNCHANGED <<ring, kept>>
    /\ frames' = Tail(frames)
    /\ UNCHANGED <<clock, nativeRate, captureMuted, inCallback, mutes>>

AudioNext ==
    \/ StartStream \/ StopStream
    \/ Captured \/ PutFrame \/ ReadFrame
    \/ SetCaptureMuted \/ DiscardPending

AudioSpec == AudioInit /\ [][AudioNext]_audioVars

(***************************************************************************)
(* Whatever the frames, the overflows and the rates, what recognition        *)
(* hears is one timeline (audio.py StreamingLinearResampler: "one global     *)
(* sample timeline"): the samples read are in the order of the clock, each   *)
(* output sample is the one that interpolating all of them at once gives,    *)
(* and the pre-roll is the newest part of the output given to it.            *)
(***************************************************************************)
Reference(samples, k) ==
    [left  |-> samples[Floor(k * nativeRate) + 1],
     right |-> samples[Ceiling(k * nativeRate) + 1],
     part  |-> (k * nativeRate) % TargetRate]

OneTimeline ==
    nativeRate # Closed =>
      /\ \A i \in 1..(Len(consumed) - 1) : consumed[i] < consumed[i + 1]
      /\ \A k \in 1..Len(heard) : heard[k] = Reference(consumed, k - 1)
      /\ consumed # <<>> => Ceiling(Len(heard) * nativeRate) >= Len(consumed)
      /\ FlattenSeq(ring) =
           SubSeq(kept, IF Len(kept) > MaximumSamples THEN Len(kept) - MaximumSamples + 1
                                                      ELSE 1, Len(kept))
=============================================================================
