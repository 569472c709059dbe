-------------------------- MODULE InterfaceProofs --------------------------
(***************************************************************************)
(* Theorems about the two ends of Ron that the user meets: the face on the *)
(* tablet (TabletLink), for any events, any number of publishers and any   *)
(* queue, link and snapshot bounds; and the path of the microphone's       *)
(* samples (AudioCapture), for any rates, frame sizes and buffer sizes.    *)
(***************************************************************************)
EXTENDS TabletLink, AudioCapture, SequenceTheorems, FiniteSetTheorems,
        WellFoundedInduction, TLAPS

(***************************************************************************)
(* TabletLink: the face of a connected tablet.                             *)
(***************************************************************************)

\* What a message is drawn as.
SpeakingFace == [expression |-> "speaking", active |-> TRUE]

LEMMA NumberedFields ==
  ASSUME NEW m \in Numbered
  PROVE  /\ m.number \in Nat /\ m.type \in {"snapshot"} \cup Events
         /\ m.type = "snapshot" => m.face \in FaceStates
  BY DEF Numbered, Events

LEMMA FaceFields ==
  /\ \A f \in FaceStates : f.expression \in Expressions /\ f.active \in BOOLEAN
                             /\ f = [expression |-> f.expression, active |-> f.active]
  /\ \A e \in Expressions, b \in BOOLEAN : [expression |-> e, active |-> b] \in FaceStates
  /\ Awake \in FaceStates /\ SpeakingFace \in FaceStates
  BY DEF FaceStates, Expressions, Awake, SpeakingFace

\* A state of the face is known by its two fields.
LEMMA SameFace ==
  ASSUME NEW f \in FaceStates, NEW g \in FaceStates,
         f.expression = g.expression, f.active = g.active
  PROVE  f = g
  BY DEF FaceStates

\* What is drawn for a message, by its type.
LEMMA DrawnCases ==
  ASSUME NEW state \in FaceStates, NEW m, m.type \in {"snapshot"} \cup Events,
         m.type = "snapshot" => m.face \in FaceStates
  PROVE  /\ Drawn(state, m) \in FaceStates
         /\ m.type = "snapshot" =>
              /\ \A other : Drawn(other, m) = Drawn(state, m)
              /\ (m.face.active <=> m.face.expression = "speaking") => Drawn(state, m) = m.face
         /\ m.type = "speech_started" => Drawn(state, m) = SpeakingFace
         /\ m.type = "speech_ended" =>
              Drawn(state, m) = IF state.expression = "speaking" THEN Awake
                                ELSE [expression |-> state.expression, active |-> FALSE]
         /\ m.type \in Expressions =>
              Drawn(state, m) = [expression |-> m.type, active |-> state.active]
<1>1. m.type = "snapshot" =>
           /\ Drawn(state, m) \in FaceStates
           /\ \A other : Drawn(other, m) = Drawn(state, m)
           /\ (m.face.active <=> m.face.expression = "speaking") => Drawn(state, m) = m.face
  <2> SUFFICES ASSUME m.type = "snapshot"
               PROVE  /\ Drawn(state, m) \in FaceStates
                      /\ \A other : Drawn(other, m) = Drawn(state, m)
                      /\ (m.face.active <=> m.face.expression = "speaking") => Drawn(state, m) = m.face
    OBVIOUS
  <2>1. \A other : Drawn(other, m) = IF m.face.active THEN SpeakingFace
                     ELSE IF m.face.expression = "speaking" THEN Awake ELSE m.face
    BY DEF Drawn, SpeakingFace
  <2>2. m.face.active \in BOOLEAN /\ m.face = [expression |-> m.face.expression, active |-> m.face.active]
    BY FaceFields
  <2>3. Drawn(state, m) = IF m.face.active THEN SpeakingFace
                          ELSE IF m.face.expression = "speaking" THEN Awake ELSE m.face
    BY <2>1
  <2>4. Drawn(state, m) \in FaceStates
    BY <2>3, FaceFields
  <2>5. ASSUME m.face.active <=> m.face.expression = "speaking" PROVE Drawn(state, m) = m.face
    <3>1. CASE m.face.active
      <4>1. m.face.expression = "speaking" /\ m.face.active = TRUE
        BY <2>2, <2>5, <3>1
      <4> QED BY <2>2, <2>3, <3>1, <4>1 DEF SpeakingFace
    <3>2. CASE ~m.face.active
      BY <2>3, <2>5, <3>2
    <3> QED BY <3>1, <3>2
  <2> QED BY <2>1, <2>3, <2>4, <2>5
<1>2. m.type = "speech_started" => Drawn(state, m) = SpeakingFace
  BY DEF Drawn, SpeakingFace
<1>3. ASSUME m.type = "speech_ended"
      PROVE  Drawn(state, m) = IF state.expression = "speaking" THEN Awake
                                ELSE [expression |-> state.expression, active |-> FALSE]
  BY <1>3 DEF Drawn
<1>4. ASSUME m.type \in Expressions
      PROVE  Drawn(state, m) = [expression |-> m.type, active |-> state.active]
  <2>1. [state EXCEPT !.expression = m.type] = [expression |-> m.type, active |-> state.active]
    BY DEF FaceStates
  <2> QED BY <1>4, <2>1 DEF Drawn, Expressions, Events
<1>5. m.type \in {"snapshot", "speech_started", "speech_ended"} \cup Expressions
  BY DEF Events, Expressions
<1>6. Drawn(state, m) \in FaceStates
  BY <1>1, <1>2, <1>3, <1>4, <1>5, FaceFields
<1> QED BY <1>1, <1>2, <1>3, <1>4, <1>6

-----------------------------------------------------------------------------
\* The faces that the tablet goes through when it reads q.

\* A number above the last one taken and above those that come before it.
Above(q, last, number) ==
  last < number /\ \A i \in DOMAIN q : q[i].number < number
Fresh(q, last, j) == last < q[j].number /\ \A i \in 1..j-1 : q[i].number < q[j].number

\* f[j] is the face after the j-th message, from the present state on or from
\* the snapshot s, which makes the earlier ones irrelevant.
Pictures(q, last, state, s, f) ==
  /\ IF s = 0 THEN f[0] = state
     ELSE Fresh(q, last, s) /\ q[s].type = "snapshot" /\ f[s] = Drawn(Awake, q[s])
  /\ \A j \in (s + 1)..Len(q) :
       f[j] = IF Fresh(q, last, j) THEN Drawn(f[j - 1], q[j]) ELSE f[j - 1]

EndsAs(q, last, state, g) ==
  \E s \in 0..Len(q) : \E f \in [s..Len(q) -> FaceStates] :
    Pictures(q, last, state, s, f) /\ g = f[Len(q)]

LEMMA EndsWithNothing ==
  ASSUME NEW last, NEW state \in FaceStates, NEW g
  PROVE  EndsAs(<<>>, last, state, g) <=> g = state
<1>1. ASSUME EndsAs(<<>>, last, state, g) PROVE g = state
  BY <1>1 DEF EndsAs, Pictures
<1>2. ASSUME g = state PROVE EndsAs(<<>>, last, state, g)
  <2> DEFINE f == [j \in 0..0 |-> state]
  <2>1. f \in [0..Len(<<>>) -> FaceStates] /\ Pictures(<<>>, last, state, 0, f) /\ g = f[Len(<<>>)]
    BY <1>2 DEF Pictures
  <2> QED BY <2>1 DEF EndsAs
<1> QED BY <1>1, <1>2

\* The tablet takes the first message, or drops it.
Newer(last, number) == IF last < number THEN number ELSE last

LEMMA AboveRest ==
  ASSUME NEW q \in Seq(Numbered), q # <<>>, NEW last \in Int, NEW number \in Int
  PROVE  /\ Above(q, last, number) <=> Above(Tail(q), Newer(last, Head(q).number), number)
         /\ \A j \in 1..Len(q) - 1 :
              Fresh(q, last, j + 1) <=> Fresh(Tail(q), Newer(last, Head(q).number), j)
<1>1. /\ Len(q) > 0 /\ Head(q) = q[1] /\ DOMAIN q = 1..Len(q) /\ Len(q) \in Nat
      /\ Tail(q) \in Seq(Numbered) /\ Len(Tail(q)) = Len(q) - 1 /\ DOMAIN Tail(q) = 1..Len(q) - 1
      /\ \A i \in 1..Len(q) - 1 : Tail(q)[i] = q[i + 1]
  OBVIOUS
<1>2. \A i \in 1..Len(q) : q[i].number \in Nat
  BY <1>1, NumberedFields
<1>3. ASSUME NEW n \in Int, NEW k \in 0..Len(q) - 1
      PROVE  (last < n /\ \A i \in 1..k + 1 : q[i].number < n)
               <=> (Newer(last, Head(q).number) < n /\ \A i \in 1..k : Tail(q)[i].number < n)
  <2>1. (\A i \in 1..k + 1 : q[i].number < n)
          <=> (q[1].number < n /\ \A i \in 1..k : q[i + 1].number < n)
    <3>1. ASSUME q[1].number < n, \A i \in 1..k : q[i + 1].number < n, NEW i \in 1..k + 1
          PROVE  q[i].number < n
      <4>1. CASE i = 1
        BY <4>1, <3>1
      <4>2. CASE i # 1
        <5>1. i - 1 \in 1..k /\ (i - 1) + 1 = i
          BY <4>2
        <5> QED BY <3>1, <5>1
      <4> QED BY <4>1, <4>2
    <3>2. 1 \in 1..k + 1 /\ \A i \in 1..k : i + 1 \in 1..k + 1
      OBVIOUS
    <3> QED BY <3>1, <3>2
  <2>2. (\A i \in 1..k : Tail(q)[i].number < n) <=> (\A i \in 1..k : q[i + 1].number < n)
    BY <1>1
  <2>3. (last < n /\ q[1].number < n) <=> Newer(last, Head(q).number) < n
    BY <1>1, <1>2 DEF Newer
  <2> QED BY <2>1, <2>2, <2>3
<1>4. Above(q, last, number) <=> Above(Tail(q), Newer(last, Head(q).number), number)
  <2>1. Len(q) - 1 \in 0..Len(q) - 1 /\ (Len(q) - 1) + 1 = Len(q)
    BY <1>1
  <2> QED BY <1>1, <2>1, <1>3 DEF Above
<1>5. ASSUME NEW j \in 1..Len(q) - 1
      PROVE  Fresh(q, last, j + 1) <=> Fresh(Tail(q), Newer(last, Head(q).number), j)
  <2>1. /\ j - 1 \in 0..Len(q) - 1 /\ (j - 1) + 1 = j /\ (j + 1) - 1 = j
        /\ Tail(q)[j] = q[j + 1] /\ q[j + 1].number \in Int
    BY <1>1, <1>2
  <2> QED BY <2>1, <1>3 DEF Fresh
<1> QED BY <1>4, <1>5

LEMMA EndsRest ==
  ASSUME NEW q \in Seq(Numbered), q # <<>>, NEW last \in Int, NEW state \in FaceStates,
         NEW g, EndsAs(q, last, state, g)
  PROVE  EndsAs(Tail(q), Newer(last, Head(q).number),
                IF last < Head(q).number THEN Drawn(state, Head(q)) ELSE state, g)
<1> DEFINE later == IF last < Head(q).number THEN Drawn(state, Head(q)) ELSE state
           newer == Newer(last, Head(q).number)
<1>1. /\ Len(q) > 0 /\ Head(q) = q[1] /\ DOMAIN q = 1..Len(q) /\ Len(q) \in Nat
      /\ Tail(q) \in Seq(Numbered) /\ Len(Tail(q)) = Len(q) - 1
      /\ \A i \in 1..Len(q) - 1 : Tail(q)[i] = q[i + 1]
  OBVIOUS
<1>0. PICK s \in 0..Len(q) : \E f \in [s..Len(q) -> FaceStates] :
         Pictures(q, last, state, s, f) /\ g = f[Len(q)]
  BY DEF EndsAs
<1>2. PICK f \in [s..Len(q) -> FaceStates] :
        Pictures(q, last, state, s, f) /\ g = f[Len(q)]
  BY <1>0
<1>3. PICK t \in 0..Len(q) - 1 : t = IF s = 0 THEN 0 ELSE s - 1
  BY <1>1
<1> DEFINE h == [j \in t..Len(q) - 1 |-> f[j + 1]]
<1>4. h \in [t..Len(Tail(q)) -> FaceStates] /\ h[Len(Tail(q))] = g
  BY <1>1, <1>2, <1>3
<1>5. \A j \in 1..Len(q) - 1 : Fresh(q, last, j + 1) <=> Fresh(Tail(q), newer, j)
  BY AboveRest, 0 \in Int
<1>6. Pictures(Tail(q), newer, later, t, h)
  <2>1. ASSUME NEW j \in (t + 1)..Len(Tail(q))
        PROVE  h[j] = IF Fresh(Tail(q), newer, j) THEN Drawn(h[j - 1], Tail(q)[j]) ELSE h[j - 1]
    <3>1. /\ j + 1 \in (s + 1)..Len(q) /\ (j + 1) - 1 = j /\ j \in 1..Len(q) - 1
          /\ j \in t..Len(q) - 1 /\ j - 1 \in t..Len(q) - 1 /\ (j - 1) + 1 = j
      BY <1>1, <1>3
    <3>2. f[j + 1] = IF Fresh(q, last, j + 1) THEN Drawn(f[j], q[j + 1]) ELSE f[j]
      BY <1>2, <3>1 DEF Pictures
    <3>3. h[j] = f[j + 1] /\ h[j - 1] = f[j] /\ Tail(q)[j] = q[j + 1]
      BY <3>1, <1>1
    <3> QED BY <3>1, <3>2, <3>3, <1>5
  <2>2. CASE s = 0
    <3>1. f[0] = state /\ t = 0 /\ 1 \in (s + 1)..Len(q) /\ 1 - 1 = 0
      BY <1>2, <1>3, <1>1, <2>2 DEF Pictures
    <3>2. f[1] = IF Fresh(q, last, 1) THEN Drawn(f[0], q[1]) ELSE f[0]
      BY <1>2, <3>1 DEF Pictures
    <3>3. Fresh(q, last, 1) <=> last < Head(q).number
      BY <1>1 DEF Fresh
    <3>4. h[0] = f[1]
      BY <3>1, <1>1
    <3>5. h[0] = later
      BY <3>1, <3>2, <3>3, <3>4, <1>1
    <3> QED BY <2>1, <3>1, <3>5 DEF Pictures
  <2>3. CASE s = 1
    <3>1. /\ t = 0 /\ Fresh(q, last, 1) /\ q[1].type = "snapshot" /\ f[1] = Drawn(Awake, q[1])
      BY <1>2, <1>3, <2>3 DEF Pictures
    <3>2. h[0] = f[1] /\ q[1] \in Numbered
      BY <3>1, <1>1
    <3>3. Drawn(Awake, q[1]) = Drawn(state, q[1])
      BY <3>1, <3>2, DrawnCases, NumberedFields
    <3>4. h[0] = later
      BY <3>1, <3>2, <3>3, <1>1 DEF Fresh
    <3> QED BY <2>1, <3>1, <3>4 DEF Pictures
  <2>4. CASE s > 1
    <3>1. /\ t = s - 1 /\ t # 0 /\ t \in 1..Len(q) - 1 /\ t + 1 = s
          /\ Fresh(q, last, s) /\ q[s].type = "snapshot" /\ f[s] = Drawn(Awake, q[s])
      BY <1>2, <1>3, <2>4 DEF Pictures
    <3>2. h[t] = f[s] /\ Tail(q)[t] = q[s] /\ Fresh(Tail(q), newer, t)
      BY <3>1, <1>1, <1>5
    <3> HIDE DEF h, newer, later
    <3> QED BY <2>1, <3>1, <3>2 DEF Pictures
  <2> QED BY <2>2, <2>3, <2>4
<1> HIDE DEF h, newer, later
<1>7. EndsAs(Tail(q), newer, later, g)
  <2>1. t \in 0..Len(Tail(q))
    BY <1>1
  <2> QED BY <1>4, <1>6, <2>1 DEF EndsAs
<1> QED BY <1>7 DEF newer, later

\* A message joins the end of the queue.
LEMMA AboveAppended ==
  ASSUME NEW q \in Seq(Numbered), NEW m \in Numbered, NEW last \in Int, NEW number \in Int
  PROVE  /\ Above(Append(q, m), last, number) <=> Above(q, last, number) /\ m.number < number
         /\ \A j \in 1..Len(q) : Fresh(Append(q, m), last, j) <=> Fresh(q, last, j)
         /\ Fresh(Append(q, m), last, Len(q) + 1) <=> Above(q, last, m.number)
<1>1. /\ Append(q, m) \in Seq(Numbered) /\ Len(Append(q, m)) = Len(q) + 1 /\ Len(q) \in Nat
      /\ DOMAIN q = 1..Len(q) /\ DOMAIN Append(q, m) = 1..Len(q) + 1
      /\ \A i \in 1..Len(q) : Append(q, m)[i] = q[i]
      /\ Append(q, m)[Len(q) + 1] = m
  OBVIOUS
<1>2. Above(Append(q, m), last, number) <=> Above(q, last, number) /\ m.number < number
  <2>1. 1..Len(q) + 1 = 1..Len(q) \cup {Len(q) + 1}
    BY <1>1
  <2> QED BY <1>1, <2>1 DEF Above
<1>3. ASSUME NEW j \in 1..Len(q) PROVE Fresh(Append(q, m), last, j) <=> Fresh(q, last, j)
  <2>1. \A i \in 1..j - 1 : i \in 1..Len(q)
    BY <1>1
  <2> QED BY <1>1, <2>1 DEF Fresh
<1>4. Fresh(Append(q, m), last, Len(q) + 1) <=> Above(q, last, m.number)
  <2>1. (Len(q) + 1) - 1 = Len(q)
    BY <1>1
  <2> QED BY <1>1, <2>1 DEF Fresh, Above
<1> QED BY <1>2, <1>3, <1>4

LEMMA EndsAppended ==
  ASSUME NEW q \in Seq(Numbered), NEW m \in Numbered, NEW last \in Int,
         NEW state \in FaceStates, NEW g, EndsAs(q, last, state, g)
  PROVE  EndsAs(Append(q, m), last, state,
                IF Above(q, last, m.number) THEN Drawn(g, m) ELSE g)
<1> DEFINE last_ == IF Above(q, last, m.number) THEN Drawn(g, m) ELSE g
           n == Len(q)
           r == Append(q, m)
<1>1. /\ r \in Seq(Numbered) /\ Len(r) = n + 1 /\ n \in Nat
      /\ \A i \in 1..n : r[i] = q[i]
      /\ r[n + 1] = m
  OBVIOUS
<1>0. PICK s \in 0..n : \E f \in [s..n -> FaceStates] :
         Pictures(q, last, state, s, f) /\ g = f[n]
  BY DEF EndsAs
<1>2. PICK f \in [s..n -> FaceStates] :
        Pictures(q, last, state, s, f) /\ g = f[n]
  BY <1>0
<1>3. /\ \A j \in 1..n : Fresh(r, last, j) <=> Fresh(q, last, j)
      /\ Fresh(r, last, n + 1) <=> Above(q, last, m.number)
  BY AboveAppended, 0 \in Int
<1>4. g \in FaceStates /\ last_ \in FaceStates
  BY <1>1, <1>2, DrawnCases, NumberedFields, SMTT(30)
<1> DEFINE h == [j \in s..n + 1 |-> IF j = n + 1 THEN last_ ELSE f[j]]
<1>5. /\ h \in [s..n + 1 -> FaceStates] /\ h[n + 1] = last_
      /\ \A j \in s..n : h[j] = f[j]
  <2> HIDE DEF last_, r
  <2>1. n + 1 \in s..n + 1
    BY <1>1
  <2>2. \A j \in s..n : j \in s..n + 1 /\ j # n + 1
    BY <1>1
  <2>3. \A j \in s..n + 1 : j = n + 1 \/ j \in s..n
    BY <1>1
  <2> HIDE DEF n
  <2>4. \A j \in s..n : f[j] \in FaceStates
    BY <1>2
  <2> QED BY <1>4, <2>1, <2>2, <2>3, <2>4
<1>6. Pictures(r, last, state, s, h)
  <2> HIDE DEF h, last_, r, n
  <2>1. ASSUME NEW j \in (s + 1)..n
        PROVE  h[j] = IF Fresh(r, last, j) THEN Drawn(h[j - 1], r[j]) ELSE h[j - 1]
    <3>1. j \in 1..n /\ j \in s..n /\ j - 1 \in s..n
      BY <1>1
    <3>2. f[j] = IF Fresh(q, last, j) THEN Drawn(f[j - 1], q[j]) ELSE f[j - 1]
      BY <1>2 DEF Pictures, n
    <3> QED BY <1>1, <1>3, <1>5, <3>1, <3>2
  <2>2. h[n + 1] = IF Fresh(r, last, n + 1) THEN Drawn(h[n], r[n + 1]) ELSE h[n]
    <3>1. h[n] = g
      BY <1>1, <1>2, <1>5
    <3> QED BY <1>1, <1>3, <1>5, <3>1 DEF last_
  <2>3. IF s = 0 THEN h[0] = state
        ELSE Fresh(r, last, s) /\ r[s].type = "snapshot" /\ h[s] = Drawn(Awake, r[s])
    <3>1. s \in s..n
      BY <1>1
    <3>2. s # 0 => s \in 1..n
      BY <1>1
    <3> QED BY <1>1, <1>2, <1>3, <1>5, <3>1, <3>2 DEF Pictures
  <2>4. \A j \in (s + 1)..n + 1 : j \in (s + 1)..n \/ (j = n + 1 /\ j - 1 = n)
    BY <1>1
  <2> QED BY <1>1, <2>1, <2>2, <2>3, <2>4 DEF Pictures
<1> HIDE DEF h, last_, r
<1>7. s \in 0..Len(r)
  BY <1>1
<1>8. EndsAs(r, last, state, last_)
  BY <1>1, <1>5, <1>6, <1>7 DEF EndsAs
<1> QED BY <1>8 DEF r, last_

\* A snapshot whose number is above all others decides the face alone.
LEMMA EndsAsSnapshot ==
  ASSUME NEW before \in Seq(Numbered), NEW m \in Numbered, NEW after \in Seq(Numbered),
         NEW last \in Int, NEW state,
         m.type = "snapshot", Above(before, last, m.number),
         \A i \in DOMAIN after : after[i].number < m.number
  PROVE  EndsAs(Append(before, m) \o after, last, state, Drawn(Awake, m))
<1> DEFINE q == Append(before, m) \o after
           s == Len(before) + 1
           g == Drawn(Awake, m)
<1>1. /\ Append(before, m) \in Seq(Numbered) /\ Len(Append(before, m)) = s /\ s \in Nat \ {0}
      /\ \A i \in 1..s - 1 : Append(before, m)[i] = before[i]
      /\ Append(before, m)[s] = m
      /\ DOMAIN before = 1..s - 1 /\ DOMAIN after = 1..Len(after) /\ Len(after) \in Nat
  OBVIOUS
<1>2. /\ q \in Seq(Numbered) /\ Len(q) = s + Len(after)
      /\ \A i \in 1..s : q[i] = Append(before, m)[i]
      /\ \A i \in s + 1..Len(q) : q[i] = after[i - s]
  BY <1>1, ConcatProperties
<1>3. Fresh(q, last, s) /\ q[s] = m
  BY <1>1, <1>2 DEF Fresh, Above
<1>4. ASSUME NEW j \in s + 1..Len(q) PROVE ~Fresh(q, last, j)
  <2>1. j - s \in 1..Len(after) /\ q[j] = after[j - s] /\ s \in 1..j - 1
    BY <1>1, <1>2
  <2>2. q[j] \in Numbered /\ q[j].number < m.number
    BY <1>1, <2>1
  <2>3. q[j].number < q[s].number /\ q[s].number \in Nat /\ q[j].number \in Nat
    BY <1>3, <2>2, NumberedFields
  <2> QED BY <2>1, <2>3 DEF Fresh
<1>5. g \in FaceStates
  BY DrawnCases, FaceFields, NumberedFields
<1> DEFINE f == [j \in s..Len(q) |-> g]
<1>6. f \in [s..Len(q) -> FaceStates] /\ f[Len(q)] = g /\ s \in 0..Len(q)
  BY <1>1, <1>2, <1>5
<1>7. Pictures(q, last, state, s, f)
  <2>1. \A j \in s + 1..Len(q) : f[j] = g /\ f[j - 1] = g
    BY <1>1, <1>2
  <2>2. f[s] = g /\ s # 0
    BY <1>1, <1>2
  <2> HIDE DEF f, q, s
  <2> QED BY <1>3, <1>4, <2>1, <2>2 DEF Pictures
<1> HIDE DEF f, q, s, g
<1>8. EndsAs(q, last, state, g)
  BY <1>6, <1>7 DEF EndsAs
<1> QED BY <1>8 DEF q, g


-----------------------------------------------------------------------------
\* Types.

PublisherStates == {Resting} \cup [at : {"wrote"}, event : Events]
                     \cup [at : {"numbered"}, message : Numbered]
                     \cup [at : {"overflow"}, face : FaceStates]
WorkerStates == [at : {"down", "handshake", "ready", "loop"}]
                  \cup [at : {"snapshot"}, face : FaceStates]
Answers == {"ready", "request_snapshot", "face_wake"}

LEMMA PublisherFields ==
  ASSUME TabletTypeOK, NEW p \in Publishers
  PROVE  /\ publisher[p].at \in {"rest", "wrote", "numbered", "overflow"}
         /\ At(p, "rest") <=> publisher[p] = Resting
         /\ At(p, "wrote") => publisher[p].event \in Events
         /\ At(p, "numbered") => publisher[p].message \in Numbered
         /\ At(p, "overflow") => publisher[p].face \in FaceStates
<1>1. publisher[p] \in PublisherStates
  BY DEF TabletTypeOK, PublisherStates
<1>2. /\ publisher[p].at \in {"rest", "wrote", "numbered", "overflow"}
      /\ publisher[p].at = "rest" <=> publisher[p] = Resting
      /\ publisher[p].at = "wrote" => publisher[p].event \in Events
      /\ publisher[p].at = "numbered" => publisher[p].message \in Numbered
      /\ publisher[p].at = "overflow" => publisher[p].face \in FaceStates
  BY <1>1 DEF PublisherStates, Resting
<1> QED BY <1>2 DEF At

LEMMA PublisherMoved ==
  ASSUME TabletTypeOK, NEW p \in Publishers, NEW to, Step(p, to)
  PROVE  /\ to \in PublisherStates => publisher' \in [Publishers -> PublisherStates]
         /\ publisher'[p] = to
         /\ \A q \in Publishers \ {p} : publisher'[q] = publisher[q]
  BY DEF TabletTypeOK, PublisherStates, Step

LEMMA AppliedIsAFace ==
  ASSUME NEW state \in FaceStates, NEW event \in Events
  PROVE  /\ Applied(state, event) \in FaceStates
         /\ event = "speech_started" => Applied(state, event) = SpeakingFace
         /\ event = "speech_ended" => Applied(state, event) = Awake
         /\ event \in Expressions =>
              Applied(state, event) = [expression |-> event, active |-> state.active]
<1>1. event \in Expressions => [state EXCEPT !.expression = event] =
                                 [expression |-> event, active |-> state.active]
  BY DEF FaceStates
<1>2. event \in {"speech_started", "speech_ended"} \cup Expressions
  BY DEF Events, Expressions
<1>3. /\ event = "speech_started" => Applied(state, event) = SpeakingFace
      /\ event = "speech_ended" => Applied(state, event) = Awake
  BY DEF Applied, SpeakingFace
<1>4. event \in Expressions => Applied(state, event) = [state EXCEPT !.expression = event]
  BY DEF Applied, Expressions
<1> QED BY <1>1, <1>2, <1>3, <1>4, FaceFields

LEMMA SnapshotIsNumbered ==
  ASSUME sequence \in Nat, NEW state \in FaceStates
  PROVE  /\ Snapshot(state) \in Numbered /\ Snapshot(state).number = sequence + 1
         /\ Snapshot(state).type = "snapshot" /\ Snapshot(state).face = state
  BY DEF Snapshot, Numbered

LEMMA TabletInitiallyTyped == TabletInit => TabletTypeOK
<1> SUFFICES ASSUME TabletInit PROVE TabletTypeOK
  OBVIOUS
<1>1. publisher \in [Publishers -> PublisherStates]
  BY DEF TabletInit, PublisherStates
<1>2. pending \in Seq(Numbered) /\ Len(pending) <= PendingSize
  BY TabletAssumption DEF TabletInit
<1>3. worker \in WorkerStates
  BY DEF TabletInit, WorkerStates
<1>4. wire \in Seq(Numbered \cup Marks) /\ uplink \in Seq(Answers)
  BY DEF TabletInit
<1>5. fallback \subseteq {"idle", "sleeping"} /\ face \in FaceStates /\ shown \in FaceStates
  BY FaceFields DEF TabletInit
<1>6. /\ sequence \in Nat /\ lastReliable \in Nat \cup {-1}
      /\ published \in 0..MaxPublications /\ linkFailures \in 0..MaxLinkFailures
      /\ tabletEvents \in 0..MaxTabletEvents
  BY TabletAssumption DEF TabletInit
<1>7. /\ computerConnected \in BOOLEAN /\ protective \in BOOLEAN
      /\ offlineSaid \in BOOLEAN /\ muddled \in BOOLEAN
  BY DEF TabletInit
<1> QED BY <1>1, <1>2, <1>3, <1>4, <1>5, <1>6, <1>7
        DEF TabletTypeOK, PublisherStates, WorkerStates, Answers

\* The steps of a publisher.
LEMMA PublisherKeepsTypes ==
  ASSUME TabletTypeOK, NEW p \in Publishers,
         Write(p) \/ TakeNumber(p) \/ Enqueue(p) \/ OverflowSnapshot(p)
  PROVE  TabletTypeOK'
<1>0. /\ face \in FaceStates /\ sequence \in Nat /\ publisher \in [Publishers -> PublisherStates]
      /\ pending \in Seq(Numbered) /\ Len(pending) <= PendingSize /\ published \in 0..MaxPublications
      /\ PendingSize \in Nat \ {0} /\ MaxPublications \in Nat /\ Published \subseteq Events
      /\ muddled \in BOOLEAN
  BY TabletAssumption DEF TabletTypeOK, PublisherStates
<1>1. CASE Write(p)
  <2>1. PICK event \in Published :
          /\ face' = Applied(face, event) /\ Step(p, [at |-> "wrote", event |-> event])
          /\ muddled' = (muddled \/ Overlap(event))
    BY <1>1 DEF Write
  <2>2. face' \in FaceStates /\ [at |-> "wrote", event |-> event] \in PublisherStates
    BY <1>0, <2>1, AppliedIsAFace DEF PublisherStates
  <2>3. publisher' \in [Publishers -> PublisherStates]
    BY <2>1, <2>2, PublisherMoved
  <2>4. muddled' \in BOOLEAN
    BY <2>1
  <2>5. published' \in 0..MaxPublications
    BY <1>0, <1>1 DEF Write
  <2> QED BY <1>1, <2>2, <2>3, <2>4, <2>5 DEF Write, TabletTypeOK, PublisherStates, tabletSide
<1>2. CASE TakeNumber(p)
  <2>1. [at |-> "numbered", message |-> [type |-> publisher[p].event, number |-> sequence + 1]]
           \in PublisherStates
    BY <1>0, <1>2, PublisherFields DEF TakeNumber, PublisherStates, Numbered
  <2>2. publisher' \in [Publishers -> PublisherStates]
    BY <1>2, <2>1, PublisherMoved DEF TakeNumber
  <2> QED BY <1>0, <1>2, <2>2 DEF TakeNumber, TabletTypeOK, PublisherStates, tabletSide, bounds
<1>3. CASE Enqueue(p)
  <2>1. /\ publisher[p].message \in Numbered
        /\ \/ pending' = Append(pending, publisher[p].message) /\ Len(pending) < PendingSize
           \/ pending' = <<>>
    BY <1>3, PublisherFields DEF Enqueue
  <2>2. pending' \in Seq(Numbered) /\ Len(pending') <= PendingSize
    <3>1. CASE pending' = Append(pending, publisher[p].message) /\ Len(pending) < PendingSize
      <4>1. /\ Append(pending, publisher[p].message) \in Seq(Numbered)
            /\ Len(Append(pending, publisher[p].message)) = Len(pending) + 1 /\ Len(pending) \in Nat
        BY <1>0, <2>1
      <4> QED BY <1>0, <3>1, <4>1
    <3>2. CASE pending' = <<>>
      BY <1>0, <3>2
    <3> QED BY <2>1, <3>1, <3>2
  <2>3. Resting \in PublisherStates /\ [at |-> "overflow", face |-> face] \in PublisherStates
    BY <1>0 DEF PublisherStates
  <2>4. publisher' \in [Publishers -> PublisherStates]
    BY <1>3, <2>3, PublisherMoved DEF Enqueue
  <2> QED BY <1>3, <2>2, <2>4 DEF Enqueue, TabletTypeOK, PublisherStates, tabletSide, bounds
<1>4. CASE OverflowSnapshot(p)
  <2>1. Resting \in PublisherStates /\ publisher[p].face \in FaceStates
    BY <1>4, PublisherFields DEF PublisherStates, OverflowSnapshot
  <2>2. publisher' \in [Publishers -> PublisherStates]
    BY <1>4, <2>1, PublisherMoved DEF OverflowSnapshot
  <2>3. pending' = <<Snapshot(publisher[p].face)>> /\ Snapshot(publisher[p].face) \in Numbered
    BY <1>0, <1>4, <2>1, SnapshotIsNumbered DEF OverflowSnapshot
  <2>4. pending' \in Seq(Numbered) /\ Len(pending') <= PendingSize
    BY <1>0, <2>3
  <2> QED BY <1>0, <1>4, <2>2, <2>4 DEF OverflowSnapshot, TabletTypeOK, PublisherStates, tabletSide, bounds
<1> QED BY <1>1, <1>2, <1>3, <1>4

\* The steps of the connection worker.
LEMMA WorkerKeepsTypes ==
  ASSUME TabletTypeOK,
         \/ Connect \/ HandshakeDone \/ FirstSnapshot \/ SendSnapshot \/ FlushReliable
         \/ RequestedSnapshot \/ HandleFaceWake
  PROVE  TabletTypeOK'
<1>0. /\ face \in FaceStates /\ sequence \in Nat /\ pending \in Seq(Numbered)
      /\ Len(pending) <= PendingSize /\ PendingSize \in Nat \ {0}
      /\ wire \in Seq(Numbered \cup Marks) /\ uplink \in Seq(Answers)
      /\ worker \in WorkerStates /\ muddled \in BOOLEAN /\ offlineSaid \in BOOLEAN
  BY TabletAssumption DEF TabletTypeOK, WorkerStates, Answers
<1>1. uplink # <<>> => Tail(uplink) \in Seq(Answers)
  BY <1>0
<1>2. \A to \in {"down", "handshake", "ready", "loop"} : [at |-> to] \in WorkerStates
  BY DEF WorkerStates
<1>3. ASSUME ReadState PROVE worker' \in WorkerStates /\ muddled' \in BOOLEAN
  <2>1. worker' = [at |-> "snapshot", face |-> face] /\ muddled' \in BOOLEAN
    BY <1>3 DEF ReadState
  <2>2. [at |-> "snapshot", face |-> face] \in WorkerStates
    BY <1>0 DEF WorkerStates
  <2> QED BY <2>1, <2>2
<1>4. CASE Connect
  <2>1. wire' \in Seq(Numbered \cup Marks) /\ worker' \in WorkerStates
    BY <1>0, <1>2, <1>4 DEF Connect, Worker, Marks
  <2> QED BY <1>4, <2>1 DEF Connect, TabletTypeOK, WorkerStates, tabletSide, bounds
<1>5. CASE HandshakeDone
  <2>1. /\ uplink' \in Seq(Answers) /\ worker' \in WorkerStates
        /\ pending' \in Seq(Numbered) /\ Len(pending') <= PendingSize
    BY <1>0, <1>1, <1>2, <1>5 DEF HandshakeDone, Worker
  <2> QED BY <1>5, <2>1 DEF HandshakeDone, TabletTypeOK, WorkerStates, Answers, tabletSide, bounds
<1>6. CASE FirstSnapshot
  <2>1. worker' \in WorkerStates /\ muddled' \in BOOLEAN
    BY <1>3, <1>6 DEF FirstSnapshot
  <2> QED BY <1>6, <2>1 DEF FirstSnapshot, TabletTypeOK, WorkerStates, tabletSide, bounds
<1>7. CASE SendSnapshot
  <2>1. worker.face \in FaceStates
    BY <1>0, <1>7 DEF SendSnapshot, WorkerStates
  <2>2. Snapshot(worker.face) \in Numbered
    BY <1>0, <2>1, SnapshotIsNumbered
  <2>3. wire' \in Seq(Numbered \cup Marks) /\ worker' \in WorkerStates
    BY <1>0, <1>2, <1>7, <2>2 DEF SendSnapshot, Worker
  <2>4. sequence' \in Nat
    BY <1>0, <1>7 DEF SendSnapshot
  <2>5. offlineSaid' \in BOOLEAN
    BY <1>7 DEF SendSnapshot
  <2> QED BY <1>7, <2>3, <2>4, <2>5 DEF SendSnapshot, TabletTypeOK, WorkerStates, tabletSide, bounds
<1>8. CASE FlushReliable
  <2>1. /\ Head(pending) \in Numbered /\ Tail(pending) \in Seq(Numbered)
        /\ Len(Tail(pending)) = Len(pending) - 1 /\ Len(pending) \in Nat
    BY <1>0, <1>8 DEF FlushReliable
  <2>2. wire' \in Seq(Numbered \cup Marks) /\ pending' \in Seq(Numbered) /\ Len(pending') <= PendingSize
    BY <1>0, <1>8, <2>1 DEF FlushReliable
  <2> QED BY <1>8, <2>2 DEF FlushReliable, TabletTypeOK, tabletSide, bounds
<1>9. CASE RequestedSnapshot
  <2>1. worker' \in WorkerStates /\ muddled' \in BOOLEAN /\ uplink' \in Seq(Answers)
    BY <1>1, <1>3, <1>9 DEF RequestedSnapshot
  <2> QED BY <1>9, <2>1 DEF RequestedSnapshot, TabletTypeOK, WorkerStates, Answers, tabletSide, bounds
<1>10. CASE HandleFaceWake
  <2>1. uplink' \in Seq(Answers) /\ face' \in FaceStates
    BY <1>0, <1>1, <1>10, FaceFields DEF HandleFaceWake
  <2> QED BY <1>10, <2>1 DEF HandleFaceWake, TabletTypeOK, Answers, tabletSide, bounds
<1> QED BY <1>4, <1>5, <1>6, <1>7, <1>8, <1>9, <1>10

\* Lost connections and restarts of Ron.
LEMMA BrokenKeepsTypes ==
  ASSUME TabletTypeOK, Broken
  PROVE  wire' \in Seq(Numbered \cup Marks) /\ uplink' \in Seq(Answers)
<1>1. PICK n \in 0..Len(wire) : wire' = Append(SubSeq(wire, 1, n), [type |-> "eof"])
  BY DEF Broken
<1>2. wire \in Seq(Numbered \cup Marks) /\ [type |-> "eof"] \in Numbered \cup Marks
  BY DEF TabletTypeOK, Marks
<1>3. SubSeq(wire, 1, n) \in Seq(Numbered \cup Marks)
  BY <1>2, SubSeqProperties
<1> QED BY <1>1, <1>2, <1>3 DEF Broken

LEMMA FailureKeepsTypes ==
  ASSUME TabletTypeOK, LinkFails \/ RonRestarts
  PROVE  TabletTypeOK'
<1>1. /\ [at |-> "down"] \in WorkerStates
      /\ linkFailures < MaxLinkFailures /\ linkFailures \in 0..MaxLinkFailures
      /\ MaxLinkFailures \in Nat => linkFailures + 1 \in 0..MaxLinkFailures
  BY DEF TabletTypeOK, WorkerStates, LinkFails, RonRestarts
<1>2. CASE LinkFails
  <2>1. /\ wire' \in Seq(Numbered \cup Marks) /\ uplink' \in Seq(Answers)
        /\ worker' \in WorkerStates /\ linkFailures' \in 0..MaxLinkFailures /\ offlineSaid' \in BOOLEAN
    BY <1>1, <1>2, BrokenKeepsTypes, TabletAssumption DEF LinkFails, Worker
  <2> QED BY <1>2, <2>1 DEF LinkFails, TabletTypeOK, WorkerStates, Answers, tabletSide
<1>3. CASE RonRestarts
  <2>1. wire' \in Seq(Numbered \cup Marks) /\ uplink' \in Seq(Answers)
    BY <1>3, BrokenKeepsTypes DEF RonRestarts, TabletTypeOK, Answers
  <2>2. worker' \in WorkerStates /\ linkFailures' \in 0..MaxLinkFailures /\ face' \in FaceStates
    BY <1>1, <1>3, FaceFields, TabletAssumption DEF RonRestarts, Worker
  <2>3. publisher' \in [Publishers -> PublisherStates]
    BY <1>3 DEF RonRestarts, PublisherStates
  <2>4. pending' = <<>> /\ sequence' = 0 /\ offlineSaid' = FALSE /\ muddled' = FALSE
    BY <1>3 DEF RonRestarts
  <2>5. pending' \in Seq(Numbered) /\ Len(pending') <= PendingSize /\ sequence' \in Nat
    BY <2>4, TabletAssumption
  <2>6. offlineSaid' \in BOOLEAN /\ muddled' \in BOOLEAN
    BY <2>4
  <2> QED BY <1>3, <2>1, <2>2, <2>3, <2>5, <2>6
          DEF RonRestarts, TabletTypeOK, WorkerStates, PublisherStates, Answers, tabletSide
<1> QED BY <1>2, <1>3

\* The steps of the tablet.
LEMMA ReplyKeepsTypes ==
  ASSUME TabletTypeOK, NEW message \in Answers, Reply(message)
  PROVE  uplink' \in Seq(Answers)
  BY DEF TabletTypeOK, Answers, Reply

LEMMA TabletKeepsTypes ==
  ASSUME TabletTypeOK, Receive \/ Authenticate \/ ClientGone \/ FallBack \/ Tap \/ OnBatteryHealth
  PROVE  TabletTypeOK'
<1>0. /\ shown \in FaceStates /\ wire \in Seq(Numbered \cup Marks) /\ uplink \in Seq(Answers)
      /\ lastReliable \in Nat \cup {-1} /\ fallback \subseteq {"idle", "sleeping"}
      /\ tabletEvents \in 0..MaxTabletEvents
      /\ computerConnected \in BOOLEAN /\ protective \in BOOLEAN /\ muddled \in BOOLEAN
  BY DEF TabletTypeOK, Answers
<1>1. wire # <<>> => Tail(wire) \in Seq(Numbered \cup Marks) /\ Head(wire) \in Numbered \cup Marks
  BY <1>0
<1>2. \A e \in Expressions : [shown EXCEPT !.expression = e] \in FaceStates
  BY <1>0 DEF FaceStates
<1>3. "ready" \in Answers /\ "request_snapshot" \in Answers /\ "face_wake" \in Answers
  BY DEF Answers
<1>4. "idle" \in Expressions /\ "sleeping" \in Expressions
  BY DEF Expressions
<1>5. CASE Receive
  <2>1. Head(wire) \in Numbered
    BY <1>1, <1>5 DEF Receive, Marks
  <2>2. Drawn(shown, Head(wire)) \in FaceStates
    BY <1>0, <2>1, DrawnCases, NumberedFields
  <2>3. Protected(Drawn(shown, Head(wire))) \in FaceStates
    <3>1. \A f \in FaceStates : [f EXCEPT !.expression = "sleeping"] \in FaceStates
      BY <1>4 DEF FaceStates
    <3> QED BY <2>2, <3>1 DEF Protected
  <2>4. lastReliable' \in Nat \cup {-1} /\ shown' \in FaceStates
    BY <1>0, <1>5, <2>1, <2>3, NumberedFields DEF Receive
  <2> QED BY <1>1, <1>5, <2>4 DEF Receive, TabletTypeOK, ronSide, bounds
<1>6. CASE Authenticate
  <2>1. uplink' \in Seq(Answers)
    BY <1>0, <1>3, <1>6 DEF Authenticate
  <2>2. lastReliable' \in Nat \cup {-1} /\ computerConnected' \in BOOLEAN /\ fallback' = {}
    BY <1>6 DEF Authenticate
  <2> QED BY <1>1, <1>6, <2>1, <2>2 DEF Authenticate, TabletTypeOK, Answers, ronSide, bounds
<1>7. CASE ClientGone
  <2>1. /\ shown' \in FaceStates /\ computerConnected' \in BOOLEAN
        /\ fallback' \subseteq {"idle", "sleeping"}
    BY <1>0, <1>4, <1>7, FaceFields DEF ClientGone
  <2> QED BY <1>1, <1>7, <2>1 DEF ClientGone, TabletTypeOK, ronSide, bounds
<1>8. CASE FallBack
  <2>1. shown' \in FaceStates /\ fallback' \subseteq {"idle", "sleeping"}
    BY <1>0, <1>2, <1>4, <1>8 DEF FallBack
  <2> QED BY <1>8, <2>1 DEF FallBack, TabletTypeOK, ronSide, bounds
<1>9. CASE Tap
  <2>1. shown' \in FaceStates /\ uplink' \in Seq(Answers) /\ tabletEvents' \in 0..MaxTabletEvents
    BY <1>0, <1>2, <1>3, <1>4, <1>9, ReplyKeepsTypes, TabletAssumption DEF Tap
  <2>2. muddled' \in BOOLEAN
    BY <1>9 DEF Tap
  <2> QED BY <1>9, <2>1, <2>2 DEF Tap, TabletTypeOK, Answers, ronSide
<1>10. CASE OnBatteryHealth
  <2>1. /\ shown' \in FaceStates /\ tabletEvents' \in 0..MaxTabletEvents /\ protective' \in BOOLEAN
    BY <1>0, <1>2, <1>4, <1>10, TabletAssumption DEF OnBatteryHealth
  <2>2. uplink' \in Seq(Answers)
    BY <1>0, <1>3, <1>10, ReplyKeepsTypes DEF OnBatteryHealth
  <2> QED BY <1>10, <2>1, <2>2 DEF OnBatteryHealth, TabletTypeOK, Answers, ronSide
<1> QED BY <1>5, <1>6, <1>7, <1>8, <1>9, <1>10

LEMMA TabletStepKeepsTypes ==
  ASSUME TabletTypeOK, [TabletNext]_tabletVars
  PROVE  TabletTypeOK'
<1>1. CASE TabletNext
  BY <1>1, PublisherKeepsTypes, WorkerKeepsTypes, FailureKeepsTypes, TabletKeepsTypes DEF TabletNext
<1>2. CASE UNCHANGED tabletVars
  BY <1>2 DEF tabletVars, ronSide, tabletSide, bounds, TabletTypeOK
<1> QED BY <1>1, <1>2

-----------------------------------------------------------------------------
\* The two ends agree on whether there is a connection.

\* A connection is up for Ron when the tablet has answered the greeting of this
\* attempt.
Up == worker.at \in {"ready", "snapshot", "loop"} \/ (worker.at = "handshake" /\ uplink # <<>>)
IsMark(m) == m.type \in {"hello", "eof"}

\* Nothing of an older connection is left on the wire of one that is up, and
\* every number on it is one that Ron has taken since he started.
UpInv ==
  Up => /\ \A i \in 1..Len(wire) : ~IsMark(wire[i]) /\ wire[i].number <= sequence
        /\ computerConnected /\ fallback = {} /\ lastReliable <= sequence

\* Every greeting on the wire is followed by the end of its connection, unless
\* it is the one that the worker waits for.
Waiting == worker.at = "handshake" /\ uplink = <<>>
MarksInv ==
  /\ worker.at = "down" => uplink = <<>>
  /\ computerConnected => Up \/ \E i \in 1..Len(wire) : wire[i].type = "eof"
  /\ \A i \in 1..Len(wire) : wire[i].type = "hello" =>
       (Waiting /\ i = Len(wire)) \/ \E j \in i + 1..Len(wire) : wire[j].type = "eof"

\* Every number in Ron's hands is one that he has taken.
NumInv ==
  /\ \A i \in 1..Len(pending) : pending[i].number <= sequence
  /\ \A p \in Publishers : At(p, "numbered") =>
       publisher[p].message.number <= sequence /\ publisher[p].message.type \in Events

LEMMA NumStep ==
  ASSUME TabletTypeOK, TabletTypeOK', NumInv, [TabletNext]_tabletVars
  PROVE  NumInv'
<1>0. /\ sequence \in Nat /\ sequence' \in Nat /\ pending \in Seq(Numbered) /\ pending' \in Seq(Numbered)
      /\ \A i \in 1..Len(pending) : pending[i].number \in Nat
      /\ \A p \in Publishers : At(p, "numbered") => publisher[p].message.number \in Nat
  <2>1. /\ sequence \in Nat /\ sequence' \in Nat
        /\ pending \in Seq(Numbered) /\ pending' \in Seq(Numbered)
    BY DEF TabletTypeOK
  <2>2. ASSUME NEW i \in 1..Len(pending) PROVE pending[i].number \in Nat
    <3>1. pending[i] \in Numbered
      BY <2>1
    <3> QED BY <3>1, NumberedFields
  <2>3. ASSUME NEW p \in Publishers, At(p, "numbered")
        PROVE publisher[p].message.number \in Nat
    BY <2>3, NumberedFields, PublisherFields
  <2> QED BY <2>1, <2>2, <2>3
<1>1. ASSUME NEW p \in Publishers, Write(p) PROVE NumInv'
  <2>1. PICK event \in Published : Step(p, [at |-> "wrote", event |-> event])
    BY <1>1 DEF Write
  <2>2. publisher'[p].at = "wrote" /\ \A q \in Publishers \ {p} : publisher'[q] = publisher[q]
    BY <2>1, PublisherMoved
  <2>3. UNCHANGED <<pending, sequence>>
    BY <1>1 DEF Write
  <2> QED BY <2>2, <2>3 DEF NumInv, At
<1>2. ASSUME NEW p \in Publishers, TakeNumber(p) PROVE NumInv'
  <2>1. /\ publisher'[p].message.number = sequence + 1 /\ publisher'[p].message.type \in Events
        /\ \A q \in Publishers \ {p} : publisher'[q] = publisher[q]
        /\ pending' = pending /\ sequence' = sequence + 1
    BY <1>2, PublisherMoved, PublisherFields DEF TakeNumber
  <2>2. \A i \in 1..Len(pending) : pending[i].number <= sequence'
    BY <1>0, <2>1 DEF NumInv
  <2>3. \A q \in Publishers \ {p} : At(q, "numbered") => publisher[q].message.number <= sequence'
    BY <1>0, <2>1 DEF NumInv
  <2> QED BY <1>0, <2>1, <2>2, <2>3 DEF NumInv, At
<1>3. ASSUME NEW p \in Publishers, Enqueue(p) PROVE NumInv'
  <2>1. /\ publisher'[p].at \in {"rest", "overflow"}
        /\ \A q \in Publishers \ {p} : publisher'[q] = publisher[q]
        /\ sequence' = sequence
    BY <1>3, PublisherMoved DEF Enqueue, Resting
  <2>2. \A i \in 1..Len(pending') : pending'[i].number <= sequence
    <3>1. CASE pending' = <<>>
      BY <3>1
    <3>2. CASE pending' = Append(pending, publisher[p].message)
      <4>1. publisher[p].message.number <= sequence
        BY <1>3 DEF NumInv, Enqueue
      <4>2. \A i \in 1..Len(pending') : IF i <= Len(pending) THEN pending'[i] = pending[i]
                                         ELSE pending'[i] = publisher[p].message
        BY <1>0, <3>2
      <4>3. \A i \in 1..Len(pending') : i <= Len(pending) => i \in 1..Len(pending)
        OBVIOUS
      <4> QED BY <4>1, <4>2, <4>3 DEF NumInv
    <3> QED BY <1>3, <3>1, <3>2 DEF Enqueue
  <2> QED BY <2>1, <2>2 DEF NumInv, At
<1>4. ASSUME NEW p \in Publishers, OverflowSnapshot(p) PROVE NumInv'
  <2>1. /\ publisher'[p].at = "rest"
        /\ \A q \in Publishers \ {p} : publisher'[q] = publisher[q]
        /\ sequence' = sequence + 1 /\ pending' = <<Snapshot(publisher[p].face)>>
    BY <1>4, PublisherMoved DEF OverflowSnapshot, Resting
  <2>2. publisher[p].face \in FaceStates
    BY <1>4, PublisherFields DEF OverflowSnapshot
  <2>3. \A i \in 1..Len(pending') : pending'[i].number <= sequence'
    BY <1>0, <2>1, <2>2, SnapshotIsNumbered
  <2>4. \A q \in Publishers \ {p} : At(q, "numbered") => publisher[q].message.number <= sequence'
    BY <1>0, <2>1 DEF NumInv
  <2> QED BY <2>1, <2>3, <2>4 DEF NumInv, At
<1>5. ASSUME publisher' = publisher, pending' \in {pending, <<>>}, sequence <= sequence' PROVE NumInv'
  <2>1. \A i \in 1..Len(pending') : pending'[i].number <= sequence'
    BY <1>0, <1>5 DEF NumInv
  <2>2. \A p \in Publishers : At(p, "numbered") => publisher[p].message.number <= sequence'
    BY <1>0, <1>5 DEF NumInv
  <2> QED BY <1>5, <2>1, <2>2 DEF NumInv, At
<1>6. CASE FlushReliable
  <2>1. \A i \in 1..Len(Tail(pending)) : Tail(pending)[i] = pending[i + 1] /\ i + 1 \in 1..Len(pending)
    BY <1>0, <1>6 DEF FlushReliable
  <2> QED BY <1>6, <2>1 DEF FlushReliable, NumInv, At
<1>7. CASE RonRestarts
  BY <1>7 DEF RonRestarts, NumInv, At, Resting
<1>8. CASE Connect \/ HandshakeDone \/ FirstSnapshot \/ SendSnapshot \/ RequestedSnapshot \/ HandleFaceWake
            \/ LinkFails
  <2>1. publisher' = publisher /\ pending' \in {pending, <<>>} /\ sequence <= sequence'
    BY <1>0, <1>8 DEF Connect, HandshakeDone, FirstSnapshot, SendSnapshot, RequestedSnapshot,
                      HandleFaceWake, LinkFails
  <2> QED BY <1>5, <2>1
<1>9. CASE Receive \/ Authenticate \/ ClientGone \/ FallBack \/ Tap \/ OnBatteryHealth \/ UNCHANGED tabletVars
  <2>1. publisher' = publisher /\ pending' \in {pending, <<>>} /\ sequence <= sequence'
    BY <1>0, <1>9 DEF Receive, Authenticate, ClientGone, FallBack, Tap, OnBatteryHealth, ronSide, tabletVars
  <2> QED BY <1>5, <2>1
<1> QED BY <1>1, <1>2, <1>3, <1>4, <1>6, <1>7, <1>8, <1>9 DEF TabletNext

LEMMA WireFields ==
  ASSUME TabletTypeOK
  PROVE  /\ wire \in Seq(Numbered \cup Marks) /\ Len(wire) \in Nat /\ DOMAIN wire = 1..Len(wire)
         /\ \A i \in 1..Len(wire) : wire[i] \in Numbered \cup Marks
         /\ \A i \in 1..Len(wire) : ~IsMark(wire[i]) <=> wire[i] \in Numbered
         /\ \A i \in 1..Len(wire) : ~IsMark(wire[i]) => wire[i].number \in Nat
         /\ wire # <<>> =>
              /\ Tail(wire) \in Seq(Numbered \cup Marks) /\ Len(Tail(wire)) = Len(wire) - 1
              /\ 1 \in 1..Len(wire) /\ Head(wire) = wire[1]
              /\ \A i \in 1..Len(wire) - 1 : Tail(wire)[i] = wire[i + 1] /\ i + 1 \in 1..Len(wire)
<1>1. wire \in Seq(Numbered \cup Marks)
  BY DEF TabletTypeOK
<1>2. \A m \in Numbered \cup Marks : ~IsMark(m) <=> m \in Numbered
  BY DEF Numbered, Marks, IsMark, Events
<1>3. \A i \in 1..Len(wire) : wire[i] \in Numbered \cup Marks
  BY <1>1
<1> QED BY <1>1, <1>2, <1>3, NumberedFields

\* A message of Ron's joins the wire.
LEMMA LinkAfterMessage ==
  ASSUME TabletTypeOK, UpInv, MarksInv, NEW m \in Numbered, m.number <= sequence',
         wire' = Append(wire, m), sequence' \in Nat, sequence <= sequence',
         worker.at \in {"snapshot", "loop"}, worker'.at = "loop",
         UNCHANGED <<uplink, computerConnected, fallback, lastReliable>>
  PROVE  UpInv' /\ MarksInv'
<1>1. Up /\ Up'
  BY DEF Up
<1>2. /\ Len(wire') = Len(wire) + 1 /\ wire'[Len(wire) + 1] = m
      /\ \A i \in 1..Len(wire) : wire'[i] = wire[i]
  BY WireFields
<1>3. sequence \in Nat /\ lastReliable \in Int /\ ~IsMark(m)
  BY DEF TabletTypeOK, Numbered, IsMark, Events
<1>4. \A i \in 1..Len(wire') : i \in 1..Len(wire) \/ i = Len(wire) + 1
  BY <1>2, WireFields
<1>5. ASSUME NEW i \in 1..Len(wire') PROVE ~IsMark(wire'[i]) /\ wire'[i].number <= sequence'
  <2>1. CASE i \in 1..Len(wire)
    BY <1>1, <1>2, <1>3, <2>1, WireFields DEF UpInv
  <2>2. CASE i = Len(wire) + 1
    BY <1>2, <1>3, <2>2
  <2> QED BY <1>4, <2>1, <2>2
<1>6. UpInv'
  BY <1>1, <1>3, <1>5 DEF UpInv, IsMark
<1>7. MarksInv'
  BY <1>1, <1>5 DEF MarksInv, IsMark
<1> QED BY <1>6, <1>7

\* Nothing happens on the wire.
LEMMA LinkAtRest ==
  ASSUME TabletTypeOK, UpInv, MarksInv, sequence' \in Nat, sequence <= sequence',
         UNCHANGED <<wire, computerConnected, lastReliable>>, fallback' \subseteq fallback,
         Up <=> Up', worker'.at = "down" => uplink' = <<>>,
         Waiting => Waiting'
  PROVE  UpInv' /\ MarksInv'
<1>1. sequence \in Nat /\ lastReliable \in Int
  BY DEF TabletTypeOK
<1>2. \A i \in 1..Len(wire) : ~IsMark(wire[i]) /\ wire[i].number <= sequence => wire[i].number <= sequence'
  BY <1>1, WireFields
<1>3. UpInv'
  BY <1>1, <1>2 DEF UpInv, IsMark
<1>4. MarksInv'
  BY DEF MarksInv
<1> QED BY <1>3, <1>4

\* The connection ends.
LEMMA LinkAfterEnd ==
  ASSUME TabletTypeOK, UpInv, MarksInv, Broken, worker'.at = "down",
         UNCHANGED <<computerConnected, lastReliable, fallback>>
  PROVE  UpInv' /\ MarksInv'
<1>1. PICK n \in 0..Len(wire) : wire' = Append(SubSeq(wire, 1, n), [type |-> "eof"])
  BY DEF Broken
<1>2. /\ SubSeq(wire, 1, n) \in Seq(Numbered \cup Marks) /\ Len(SubSeq(wire, 1, n)) = n
      /\ \A i \in 1..n : SubSeq(wire, 1, n)[i] = wire[i]
  BY WireFields, SubSeqProperties
<1>3. Len(wire') = n + 1 /\ wire'[n + 1] = [type |-> "eof"] /\ n \in Nat
  BY <1>1, <1>2
<1>4. \A i \in 1..n : wire'[i] = wire[i]
  BY <1>1, <1>2
<1>5. ~Up' /\ uplink' = <<>>
  BY DEF Up, Broken
<1>6. UpInv'
  BY <1>5 DEF UpInv
<1>7. wire'[n + 1].type = "eof" /\ n + 1 \in 1..Len(wire')
  BY <1>3
<1>8. \A i \in 1..Len(wire') : wire'[i].type = "hello" => n + 1 \in i + 1..Len(wire')
  BY <1>3, <1>7
<1>9. MarksInv'
  BY <1>5, <1>7, <1>8 DEF MarksInv
<1> QED BY <1>6, <1>9

LEMMA LinkStep ==
  ASSUME TabletTypeOK, TabletTypeOK', NumInv, UpInv, MarksInv, [TabletNext]_tabletVars
  PROVE  UpInv' /\ MarksInv'
<1>0. /\ sequence \in Nat /\ sequence' \in Nat /\ Len(wire) \in Nat /\ lastReliable \in Int
      /\ uplink \in Seq(Answers) /\ fallback' \subseteq fallback' /\ fallback \subseteq fallback
  BY WireFields DEF TabletTypeOK, Answers
<1>1. ASSUME NEW p \in Publishers, Write(p) \/ TakeNumber(p) \/ Enqueue(p) \/ OverflowSnapshot(p)
      PROVE  UpInv' /\ MarksInv'
  <2>1. UNCHANGED <<worker, wire, uplink, tabletSide>> /\ sequence <= sequence'
    BY <1>0, <1>1 DEF Write, TakeNumber, Enqueue, OverflowSnapshot
  <2>2. worker'.at = "down" => uplink' = <<>>
    BY <2>1 DEF MarksInv
  <2> QED BY <1>0, <2>1, <2>2, LinkAtRest DEF tabletSide, Up, Waiting
<1>2. CASE Connect
  <2>1. /\ wire' = Append(wire, [type |-> "hello"]) /\ worker'.at = "handshake" /\ worker.at = "down"
        /\ UNCHANGED <<sequence, uplink, tabletSide>>
    BY <1>2 DEF Connect, Worker
  <2>2. /\ Len(wire') = Len(wire) + 1 /\ \A i \in 1..Len(wire) : wire'[i] = wire[i]
        /\ wire'[Len(wire) + 1] = [type |-> "hello"]
    BY <2>1, WireFields
  <2>3. uplink' = <<>> /\ ~Up /\ ~Up'
    BY <2>1 DEF MarksInv, Up
  <2>4. Waiting'
    BY <2>1, <2>2, <2>3 DEF Waiting
  <2>5. \A i \in 1..Len(wire) : wire[i].type = "hello" => \E j \in i + 1..Len(wire) : wire[j].type = "eof"
    BY <2>1 DEF MarksInv, Waiting
  <2>6. \A i \in 1..Len(wire') : i \in 1..Len(wire) \/ i = Len(wire) + 1
    BY <1>0, <2>2
  <2>7. \A i \in 1..Len(wire) : \A j \in i + 1..Len(wire) : j \in 1..Len(wire) /\ j \in i + 1..Len(wire')
    BY <1>0, <2>2
  <2>8. \A i \in 1..Len(wire) : wire'[i].type = "hello" => \E j \in i + 1..Len(wire') : wire'[j].type = "eof"
    BY <2>2, <2>5, <2>7
  <2>9. \A i \in 1..Len(wire') : wire'[i].type = "hello" =>
           (Waiting' /\ i = Len(wire')) \/ \E j \in i + 1..Len(wire') : wire'[j].type = "eof"
    BY <2>4, <2>6, <2>8
  <2>10. computerConnected' => \E i \in 1..Len(wire') : wire'[i].type = "eof"
    <3>1. computerConnected => \E i \in 1..Len(wire) : wire[i].type = "eof"
      BY <2>3 DEF MarksInv
    <3>2. \A i \in 1..Len(wire) : i \in 1..Len(wire') /\ wire'[i] = wire[i]
      BY <1>0, <2>2
    <3> QED BY <2>1, <3>1, <3>2 DEF tabletSide
  <2> QED BY <2>1, <2>3, <2>9, <2>10 DEF UpInv, MarksInv
<1>3. CASE HandshakeDone
  <2>1. /\ worker.at = "handshake" /\ uplink # <<>> /\ worker'.at = "ready"
        /\ UNCHANGED <<sequence, wire, tabletSide>>
    BY <1>3 DEF HandshakeDone, Worker
  <2>2. Up /\ Up' /\ worker'.at # "down" /\ ~Waiting
    BY <2>1 DEF Up, Waiting
  <2> QED BY <1>0, <2>1, <2>2, LinkAtRest DEF tabletSide
<1>4. CASE FirstSnapshot \/ RequestedSnapshot
  <2>1. /\ worker.at \in {"ready", "loop"} /\ worker'.at = "snapshot"
        /\ UNCHANGED <<sequence, wire, tabletSide>>
    <3>1. ReadState => worker'.at = "snapshot"
      BY DEF ReadState
    <3> QED BY <1>4, <3>1 DEF FirstSnapshot, RequestedSnapshot
  <2>2. Up /\ Up' /\ worker'.at # "down" /\ ~Waiting
    BY <2>1 DEF Up, Waiting
  <2> QED BY <1>0, <2>1, <2>2, LinkAtRest DEF tabletSide
<1>5. CASE SendSnapshot
  <2>1. /\ worker.at = "snapshot" /\ worker'.at = "loop" /\ sequence' = sequence + 1
        /\ wire' = Append(wire, Snapshot(worker.face)) /\ UNCHANGED <<uplink, tabletSide>>
    BY <1>5 DEF SendSnapshot, Worker
  <2>2. worker.face \in FaceStates
    BY <2>1 DEF TabletTypeOK
  <2>3. Snapshot(worker.face) \in Numbered /\ Snapshot(worker.face).number <= sequence'
    BY <1>0, <2>1, <2>2, SnapshotIsNumbered
  <2> QED BY <1>0, <2>1, <2>3, LinkAfterMessage DEF tabletSide
<1>6. CASE FlushReliable
  <2>1. /\ worker.at = "loop" /\ worker'.at = "loop" /\ sequence' = sequence /\ pending # <<>>
        /\ wire' = Append(wire, Head(pending)) /\ UNCHANGED <<uplink, tabletSide>>
    BY <1>6 DEF FlushReliable
  <2>2. Head(pending) \in Numbered /\ Head(pending) = pending[1] /\ 1 \in 1..Len(pending)
    BY <2>1 DEF TabletTypeOK
  <2>3. Head(pending).number <= sequence'
    BY <2>1, <2>2 DEF NumInv
  <2> QED BY <1>0, <2>1, <2>2, <2>3, LinkAfterMessage DEF tabletSide
<1>7. CASE HandleFaceWake
  <2>1. worker.at = "loop" /\ UNCHANGED <<worker, sequence, wire, tabletSide>>
    BY <1>7 DEF HandleFaceWake
  <2>2. Up /\ Up' /\ worker'.at # "down" /\ ~Waiting
    BY <2>1 DEF Up, Waiting
  <2> QED BY <1>0, <2>1, <2>2, LinkAtRest DEF tabletSide
<1>8. CASE LinkFails
  BY <1>8, LinkAfterEnd DEF LinkFails, Worker, tabletSide
<1>9. CASE RonRestarts
  <2>1. worker'.at = "down" /\ UNCHANGED tabletSide
    BY <1>9 DEF RonRestarts, Worker
  <2>2. CASE Current
    BY <1>9, <2>1, <2>2, LinkAfterEnd DEF RonRestarts, tabletSide
  <2>3. CASE ~Current
    <3>1. worker.at = "down" /\ UNCHANGED <<wire, uplink>>
      BY <1>9, <2>3 DEF RonRestarts, Current
    <3>2. ~Up /\ ~Up' /\ uplink' = <<>> /\ ~Waiting
      BY <2>1, <3>1 DEF Up, Waiting, MarksInv
    <3>3. UpInv'
      BY <3>2 DEF UpInv
    <3>4. MarksInv'
      BY <2>1, <3>1, <3>2 DEF MarksInv, tabletSide
    <3> QED BY <3>3, <3>4
  <2> QED BY <2>2, <2>3
<1>10. CASE Receive \/ Authenticate \/ ClientGone
  <2> DEFINE n == Len(wire)
  <2>0. wire # <<>> /\ wire' = Tail(wire) /\ UNCHANGED <<worker, sequence>>
    BY <1>10 DEF Receive, Authenticate, ClientGone, ronSide
  <2>1. /\ Len(wire') = n - 1 /\ n \in Nat /\ 1 \in 1..n /\ Head(wire) = wire[1]
        /\ \A i \in 1..n - 1 : wire'[i] = wire[i + 1] /\ i + 1 \in 1..n
    BY <2>0, WireFields
  <2> HIDE DEF n
  <2>2. ASSUME NEW i \in 1..n - 1, \E j \in (i + 1) + 1..n : wire[j].type = "eof"
        PROVE  \E j \in i + 1..n - 1 : wire'[j].type = "eof"
    <3>1. PICK j \in (i + 1) + 1..n : wire[j].type = "eof"
      BY <2>2
    <3>2. j - 1 \in i + 1..n - 1 /\ j - 1 \in 1..n - 1 /\ (j - 1) + 1 = j
      BY <2>1
    <3>3. wire'[j - 1].type = "eof"
      BY <2>1, <3>1, <3>2
    <3> QED BY <3>2, <3>3
  <2>3. ASSUME NEW j \in 2..n, wire[j].type = "eof" PROVE \E i \in 1..n - 1 : wire'[i].type = "eof"
    <3>1. j - 1 \in 1..n - 1 /\ (j - 1) + 1 = j
      BY <2>1
    <3>2. wire'[j - 1].type = "eof"
      BY <2>1, <2>3, <3>1
    <3> QED BY <3>1, <3>2
  <2>9. \A i \in 1..n - 1 : i + 1 = Len(wire) => i = Len(wire')
    BY <2>1 DEF n
  <2>4. ASSUME Waiting => Waiting'
        PROVE  \A i \in 1..Len(wire') : wire'[i].type = "hello" =>
                 (Waiting' /\ i = Len(wire')) \/ \E j \in i + 1..Len(wire') : wire'[j].type = "eof"
    BY <2>1, <2>2, <2>4, <2>9 DEF MarksInv, n
  <2>5. CASE Receive
    <3>1. /\ wire[1].type \notin {"hello", "eof"} /\ wire[1] \in Numbered
          /\ UNCHANGED <<uplink, computerConnected, fallback>>
          /\ lastReliable' \in {lastReliable, wire[1].number}
      BY <2>1, <2>5, WireFields DEF Receive, IsMark, n
    <3>2. Up <=> Up'
      BY <2>0, <3>1 DEF Up
    <3>3. UpInv'
      <4> SUFFICES ASSUME Up PROVE UpInv'
        BY <3>2 DEF UpInv
      <4>1. /\ \A i \in 1..n : ~IsMark(wire[i]) /\ wire[i].number <= sequence
            /\ computerConnected /\ fallback = {} /\ lastReliable <= sequence
        BY DEF UpInv, n
      <4>2. \A i \in 1..Len(wire') : ~IsMark(wire'[i]) /\ wire'[i].number <= sequence
        BY <2>1, <4>1
      <4> QED BY <2>0, <2>1, <3>1, <4>1, <4>2 DEF UpInv, IsMark
    <3>4. Waiting => Waiting'
      BY <2>0, <3>1 DEF Waiting
    <3>5. (\E i \in 1..n : wire[i].type = "eof") => \E i \in 1..n - 1 : wire'[i].type = "eof"
      <4>1. \A i \in 1..n : wire[i].type = "eof" => i \in 2..n
        BY <2>1, <3>1
      <4> QED BY <2>3, <4>1
    <3>6. MarksInv'
      BY <2>0, <2>1, <2>4, <3>1, <3>2, <3>4, <3>5 DEF MarksInv, n
    <3> QED BY <3>3, <3>6
  <2>6. CASE Authenticate
    <3>1. /\ wire[1].type = "hello" /\ lastReliable' = -1 /\ computerConnected' = TRUE /\ fallback' = {}
          /\ uplink' = IF Breaks(wire) = {} THEN Append(uplink, "ready") ELSE uplink
      BY <2>1, <2>6 DEF Authenticate
    <3>2. ~Up
      BY <2>1, <3>1 DEF UpInv, IsMark, n
    <3>3. CASE Breaks(wire) = {}
      <4>1. \A i \in 1..n : wire[i].type # "eof"
        BY <3>3, WireFields DEF Breaks, n
      <4>2. (Waiting /\ 1 = Len(wire))
        BY <2>1, <3>1, <4>1 DEF MarksInv, n
      <4>3. n = 1 /\ Len(wire') = 0 /\ worker'.at = "handshake" /\ uplink' # <<>>
        BY <2>0, <2>1, <3>1, <3>3, <4>2 DEF Waiting, n
      <4>4. Up' /\ -1 <= sequence'
        BY <1>0, <4>3 DEF Up
      <4>5. UpInv'
        BY <3>1, <4>3, <4>4 DEF UpInv
      <4>6. MarksInv'
        BY <4>3, <4>4 DEF MarksInv
      <4> QED BY <4>5, <4>6
    <3>4. CASE Breaks(wire) # {}
      <4>1. PICK j \in 1..n : wire[j].type = "eof"
        BY <3>4, WireFields DEF Breaks, n
      <4>2. j \in 2..n
        BY <2>1, <3>1, <4>1
      <4>3. uplink' = uplink /\ ~Up'
        BY <2>0, <3>1, <3>2, <3>4 DEF Up
      <4>4. UpInv'
        BY <4>3 DEF UpInv
      <4>5. Waiting => Waiting'
        BY <2>0, <4>3 DEF Waiting
      <4>6. \E i \in 1..Len(wire') : wire'[i].type = "eof"
        BY <2>1, <2>3, <4>1, <4>2
      <4>7. MarksInv'
        BY <2>0, <2>4, <4>3, <4>5, <4>6 DEF MarksInv
      <4> QED BY <4>4, <4>7
    <3> QED BY <3>3, <3>4
  <2>7. CASE ClientGone
    <3>1. wire[1].type = "eof" /\ computerConnected' = FALSE /\ uplink' = uplink
      BY <2>1, <2>7 DEF ClientGone
    <3>2. ~Up /\ ~Up'
      BY <2>0, <2>1, <3>1 DEF UpInv, Up, IsMark, n
    <3>3. UpInv'
      BY <3>2 DEF UpInv
    <3>4. Waiting => Waiting'
      BY <2>0, <3>1 DEF Waiting
    <3>5. MarksInv'
      BY <2>0, <2>4, <3>1, <3>4 DEF MarksInv
    <3> QED BY <3>3, <3>5
  <2> QED BY <1>10, <2>5, <2>6, <2>7
<1>11. CASE FallBack
  <2>1. UNCHANGED <<worker, sequence, wire, uplink, lastReliable, computerConnected>> /\ fallback' \subseteq fallback
    BY <1>11 DEF FallBack, ronSide
  <2> QED BY <1>0, <2>1, LinkAtRest DEF Up, Waiting, MarksInv
<1>12. CASE Tap \/ OnBatteryHealth
  <2>1. /\ UNCHANGED <<worker, sequence, wire, lastReliable, computerConnected, fallback>>
        /\ uplink' = uplink \/ \E a \in Answers :
                                  uplink' = Append(uplink, a) /\ computerConnected /\ Breaks(wire) = {}
    BY <1>12 DEF Tap, OnBatteryHealth, Reply, ronSide, Answers
  <2>2. CASE uplink' = uplink
    BY <1>0, <2>1, <2>2, LinkAtRest DEF Up, Waiting, MarksInv
  <2>3. CASE uplink' # uplink
    <3>1. uplink' # <<>> /\ computerConnected /\ \A i \in 1..Len(wire) : wire[i].type # "eof"
      BY <1>0, <2>1, <2>3, WireFields DEF Breaks
    <3>2. Up /\ Up' /\ worker'.at # "down" /\ ~Waiting
      BY <2>1, <3>1 DEF MarksInv, Up, Waiting
    <3> QED BY <1>0, <2>1, <3>2, LinkAtRest
  <2> QED BY <2>2, <2>3
<1>13. CASE UNCHANGED tabletVars
  <2>1. UNCHANGED <<worker, sequence, wire, uplink, lastReliable, computerConnected, fallback>>
    BY <1>13 DEF tabletVars, ronSide, tabletSide
  <2> QED BY <1>0, <2>1, LinkAtRest DEF Up, Waiting, MarksInv
<1> QED BY <1>1, <1>2, <1>3, <1>4, <1>5, <1>6, <1>7, <1>8, <1>9, <1>10, <1>11, <1>12, <1>13 DEF TabletNext

-----------------------------------------------------------------------------
\* While publications do not overlap.

\* What a publication is drawn as.
DrawnAs(state, event) == Drawn(state, [type |-> event])

LEMMA DrawnAsCases ==
  ASSUME NEW state \in FaceStates, NEW event \in Events
  PROVE  /\ DrawnAs(state, event) \in FaceStates
         /\ event = "speech_started" => DrawnAs(state, event) = SpeakingFace
         /\ event = "speech_ended" =>
              DrawnAs(state, event) = IF state.expression = "speaking" THEN Awake
                                      ELSE [expression |-> state.expression, active |-> FALSE]
         /\ event \in Expressions =>
              DrawnAs(state, event) = [expression |-> event, active |-> state.active]
         /\ \A m : m.type = event => Drawn(state, m) = DrawnAs(state, event)
<1>1. [type |-> event].type = event /\ event # "snapshot"
  BY DEF Events
<1>2. /\ DrawnAs(state, event) \in FaceStates
      /\ event = "speech_started" => DrawnAs(state, event) = SpeakingFace
      /\ event = "speech_ended" =>
           DrawnAs(state, event) = IF state.expression = "speaking" THEN Awake
                                   ELSE [expression |-> state.expression, active |-> FALSE]
      /\ event \in Expressions =>
           DrawnAs(state, event) = [expression |-> event, active |-> state.active]
  BY <1>1, DrawnCases DEF DrawnAs
<1>3. ASSUME NEW m, m.type = event PROVE Drawn(state, m) = DrawnAs(state, event)
  <2>1. event \in {"speech_started", "speech_ended"} \cup Expressions
    BY DEF Events, Expressions
  <2>2. m.type \in {"snapshot"} \cup Events /\ m.type # "snapshot"
    BY <1>1, <1>3
  <2>3. /\ event = "speech_started" => Drawn(state, m) = SpeakingFace
        /\ event = "speech_ended" =>
             Drawn(state, m) = IF state.expression = "speaking" THEN Awake
                               ELSE [expression |-> state.expression, active |-> FALSE]
        /\ event \in Expressions => Drawn(state, m) = [expression |-> event, active |-> state.active]
    BY <1>3, <2>2, DrawnCases
  <2>4. CASE event = "speech_started"
    BY <1>2, <2>3, <2>4
  <2>5. CASE event = "speech_ended"
    BY <1>2, <2>3, <2>5
  <2>6. CASE event \in Expressions
    BY <1>2, <2>3, <2>6
  <2> QED BY <2>1, <2>4, <2>5, <2>6
<1> QED BY <1>2, <1>3

\* Ron speaks with an active mouth and only then.
InStep(state) == state.active <=> state.expression = "speaking"

LEMMA AppliedInStep ==
  ASSUME NEW state \in FaceStates, InStep(state), NEW event \in Events,
         ~(state.active /\ event \in Expressions), event # "speaking"
  PROVE  InStep(Applied(state, event)) /\ DrawnAs(Applied(state, event), event) = Applied(state, event)
<1>1. event \in {"speech_started", "speech_ended"} \cup Expressions
  BY DEF Events, Expressions
<1>2. Applied(state, event) \in FaceStates
  BY AppliedIsAFace
<1>3. CASE event = "speech_started"
  <2>1. Applied(state, event) = SpeakingFace /\ InStep(SpeakingFace)
    BY <1>3, AppliedIsAFace DEF InStep, SpeakingFace
  <2>2. DrawnAs(SpeakingFace, event) = SpeakingFace
    BY <1>3, FaceFields, DrawnAsCases
  <2> QED BY <2>1, <2>2
<1>4. CASE event = "speech_ended"
  <2>1. Applied(state, event) = Awake /\ InStep(Awake)
    BY <1>4, AppliedIsAFace DEF InStep, Awake
  <2>2. DrawnAs(Awake, event) = Awake
    <3>1. Awake.expression = "idle" /\ Awake = [expression |-> Awake.expression, active |-> FALSE]
      BY DEF Awake
    <3> QED BY <1>4, <3>1, FaceFields, DrawnAsCases
  <2> QED BY <2>1, <2>2
<1>5. CASE event \in Expressions
  <2>1. state.active = FALSE
    BY <1>5, FaceFields
  <2>2. Applied(state, event) = [expression |-> event, active |-> FALSE]
    BY <1>5, <2>1, AppliedIsAFace
  <2>3. DrawnAs(Applied(state, event), event) = [expression |-> event, active |-> FALSE]
    BY <1>2, <1>5, <2>2, DrawnAsCases
  <2> QED BY <2>2, <2>3 DEF InStep
<1> QED BY <1>1, <1>3, <1>4, <1>5

\* Without an overlap, at most one publication is written and not numbered, and
\* a snapshot that is being made, or a tap that is on its way, has the state
\* to itself.
ClearInv ==
  ~muddled =>
    /\ InStep(face)
    /\ \A p, q \in Publishers : At(p, "wrote") /\ At(q, "wrote") => p = q
    /\ \A p \in Publishers : At(p, "wrote") => DrawnAs(face, publisher[p].event) = face
    /\ WakeOnItsWay => ~InFlight
    /\ worker.at = "snapshot" => worker.face = face
    /\ \A p \in Publishers : At(p, "overflow") => publisher[p].face = face

LEMMA AnswersOnTheirWay ==
  ASSUME NEW u \in Seq(Answers), NEW a
  PROVE  /\ \A b \in Answers : (\E i \in DOMAIN Append(u, b) : Append(u, b)[i] = a)
                                 <=> (\E i \in DOMAIN u : u[i] = a) \/ b = a
         /\ u # <<>> => ((\E i \in DOMAIN u : u[i] = a)
                           <=> Head(u) = a \/ \E i \in DOMAIN Tail(u) : Tail(u)[i] = a)
<1>1. ASSUME NEW b \in Answers
      PROVE  (\E i \in DOMAIN Append(u, b) : Append(u, b)[i] = a)
               <=> (\E i \in DOMAIN u : u[i] = a) \/ b = a
  <2>1. /\ DOMAIN Append(u, b) = 1..Len(u) + 1 /\ DOMAIN u = 1..Len(u) /\ Len(u) \in Nat
        /\ \A i \in 1..Len(u) : Append(u, b)[i] = u[i]
        /\ Append(u, b)[Len(u) + 1] = b
    OBVIOUS
  <2>2. 1..Len(u) + 1 = 1..Len(u) \cup {Len(u) + 1}
    BY <2>1
  <2> QED BY <2>1, <2>2
<1>2. ASSUME u # <<>>
      PROVE  (\E i \in DOMAIN u : u[i] = a) <=> Head(u) = a \/ \E i \in DOMAIN Tail(u) : Tail(u)[i] = a
  <2>1. /\ DOMAIN Tail(u) = 1..Len(u) - 1 /\ DOMAIN u = 1..Len(u) /\ Len(u) \in Nat /\ Len(u) > 0
        /\ \A i \in 1..Len(u) - 1 : Tail(u)[i] = u[i + 1]
        /\ Head(u) = u[1]
    BY <1>2
  <2>2. \A i \in 1..Len(u) : i = 1 \/ (i - 1 \in 1..Len(u) - 1 /\ (i - 1) + 1 = i)
    BY <2>1
  <2>3. 1 \in 1..Len(u) /\ \A i \in 1..Len(u) - 1 : i + 1 \in 1..Len(u)
    BY <2>1
  <2>4. ASSUME NEW i \in 1..Len(u), u[i] = a
        PROVE  Head(u) = a \/ \E j \in 1..Len(u) - 1 : Tail(u)[j] = a
    <3>1. CASE i = 1
      BY <2>1, <2>4, <3>1
    <3>2. CASE i - 1 \in 1..Len(u) - 1 /\ (i - 1) + 1 = i
      <4>1. Tail(u)[i - 1] = a
        BY <2>1, <2>4, <3>2
      <4> QED BY <3>2, <4>1
    <3> QED BY <2>2, <3>1, <3>2
  <2> QED BY <2>1, <2>3, <2>4
<1> QED BY <1>1, <1>2

LEMMA ClearKept ==
  ASSUME TabletTypeOK, TabletTypeOK', MarksInv, ClearInv, [TabletNext]_tabletVars
  PROVE  ClearInv'
<1>0. /\ face \in FaceStates /\ uplink \in Seq(Answers)
      /\ muddled \in BOOLEAN /\ muddled' \in BOOLEAN
  BY DEF TabletTypeOK, Answers
<1>1. ASSUME UNCHANGED uplink, ~WakeOnItsWay PROVE ~WakeOnItsWay'
  BY <1>1 DEF WakeOnItsWay
<1>2. ASSUME NEW p \in Publishers, Write(p) PROVE ClearInv'
  <2>1. PICK event \in Published :
          /\ face' = Applied(face, event) /\ Step(p, [at |-> "wrote", event |-> event])
          /\ muddled' = (muddled \/ Overlap(event))
    BY <1>2 DEF Write
  <2>2. SUFFICES ASSUME ~muddled' PROVE ClearInv'
    BY DEF ClearInv
  <2>3. ~muddled /\ ~Publishing /\ ~Reading /\ ~WakeOnItsWay /\ ~(face.active /\ event \in Expressions)
    BY <2>1, <2>2 DEF Overlap
  <2>4. publisher'[p] = [at |-> "wrote", event |-> event]
        /\ \A q \in Publishers \ {p} : publisher'[q] = publisher[q]
    BY <2>1, PublisherMoved
  <2>5. event \in Events /\ event # "speaking"
    BY TabletAssumption DEF Events
  <2>6. InStep(face') /\ DrawnAs(face', event) = face'
    BY <1>0, <2>1, <2>3, <2>5, AppliedInStep DEF ClearInv
  <2>7. \A q \in Publishers \ {p} : ~At(q, "wrote") /\ ~At(q, "overflow")
    BY <2>3 DEF Publishing, Reading, PendingLocked
  <2>8. worker' = worker /\ worker.at # "snapshot" /\ ~WakeOnItsWay'
    BY <1>1, <1>2, <2>3 DEF Write, Reading
  <2> QED BY <2>4, <2>6, <2>7, <2>8 DEF ClearInv, At
<1>3. ASSUME NEW p \in Publishers, TakeNumber(p) \/ Enqueue(p) \/ OverflowSnapshot(p) PROVE ClearInv'
  <2>1. SUFFICES ASSUME ~muddled' PROVE ClearInv'
    BY DEF ClearInv
  <2>2. ~At(p, "rest") /\ UNCHANGED <<face, worker, uplink, muddled>>
    BY <1>3 DEF TakeNumber, Enqueue, OverflowSnapshot, At
  <2>3. InFlight
    BY <2>2, PublisherFields DEF InFlight
  <2>4. ~muddled /\ ~WakeOnItsWay /\ ~WakeOnItsWay'
    BY <1>1, <2>1, <2>2, <2>3 DEF ClearInv
  <2>5. /\ publisher'[p].at # "wrote" /\ (publisher'[p].at = "overflow" => publisher'[p].face = face)
        /\ \A q \in Publishers \ {p} : publisher'[q] = publisher[q]
    BY <1>3, PublisherMoved DEF TakeNumber, Enqueue, OverflowSnapshot, Resting
  <2> QED BY <2>2, <2>4, <2>5 DEF ClearInv, At
<1>4. ASSUME UNCHANGED <<publisher, face>>, ~muddled => ~muddled',
             ~muddled' => ~muddled,
             worker'.at = "snapshot" => worker' = worker,
             ~muddled /\ WakeOnItsWay' => ~InFlight'
      PROVE  ClearInv'
  BY <1>4 DEF ClearInv, At
<1>5. CASE Connect \/ HandshakeDone \/ SendSnapshot \/ FlushReliable \/ LinkFails
  <2>1. /\ UNCHANGED <<publisher, face, muddled>>
        /\ worker'.at = "snapshot" => worker' = worker
    BY <1>5 DEF Connect, HandshakeDone, SendSnapshot, FlushReliable, LinkFails, Worker
  <2>2. ASSUME ~muddled, WakeOnItsWay' PROVE ~InFlight'
    <3>1. CASE Connect
      BY <2>2, <3>1 DEF Connect, MarksInv, WakeOnItsWay
    <3>2. CASE HandshakeDone
      <4>1. WakeOnItsWay
        BY <1>0, <2>2, <3>2, AnswersOnTheirWay DEF HandshakeDone, WakeOnItsWay
      <4>2. ~InFlight
        BY <2>2, <4>1 DEF ClearInv
      <4> QED BY <3>2, <4>2 DEF HandshakeDone, InFlight, Reading, PendingLocked, Worker, At
    <3>3. CASE SendSnapshot \/ FlushReliable
      <4>1. InFlight /\ UNCHANGED uplink
        BY <3>3 DEF SendSnapshot, FlushReliable, InFlight, Reading
      <4> QED BY <1>1, <2>2, <4>1 DEF ClearInv
    <3>4. CASE LinkFails
      BY <2>2, <3>4 DEF LinkFails, Broken, WakeOnItsWay
    <3> QED BY <1>5, <3>1, <3>2, <3>3, <3>4
  <2> QED BY <1>4, <2>1, <2>2
<1>6. CASE FirstSnapshot \/ RequestedSnapshot
  <2>1. SUFFICES ASSUME ~muddled' PROVE ClearInv'
    BY DEF ClearInv
  <2>2. ReadState /\ UNCHANGED <<publisher, face>>
    BY <1>6 DEF FirstSnapshot, RequestedSnapshot
  <2>3. /\ muddled => ~Publishing /\ ~PendingLocked
        /\ ~WakeOnItsWay /\ InStep(face)
        /\ worker' = [at |-> "snapshot", face |-> face]
    BY <1>0, <2>1, <2>2, FaceFields DEF ReadState, InStep
  <2>4. ~WakeOnItsWay'
    <3>1. CASE FirstSnapshot
      BY <1>1, <2>3, <3>1 DEF FirstSnapshot
    <3>2. CASE RequestedSnapshot
      BY <1>0, <2>3, <3>2, AnswersOnTheirWay DEF RequestedSnapshot, WakeOnItsWay
    <3> QED BY <1>6, <3>1, <3>2
  <2>5. /\ \A p, q \in Publishers : At(p, "wrote") /\ At(q, "wrote") => p = q
        /\ \A p \in Publishers : At(p, "wrote") => DrawnAs(face, publisher[p].event) = face
        /\ \A p \in Publishers : At(p, "overflow") => publisher[p].face = face
    BY <2>3 DEF ClearInv, Publishing, PendingLocked
  <2>6. worker'.face = face
    BY <2>3
  <2> QED BY <2>2, <2>3, <2>4, <2>5, <2>6 DEF ClearInv, At
<1>7. CASE HandleFaceWake
  <2>1. SUFFICES ASSUME ~muddled' PROVE ClearInv'
    BY DEF ClearInv
  <2>2. /\ UNCHANGED <<publisher, worker, muddled, pending, wire>> /\ worker.at = "loop"
        /\ uplink # <<>> /\ Head(uplink) = "face_wake"
        /\ face' = IF face.expression = "sleeping" THEN Awake ELSE face
    BY <1>7 DEF HandleFaceWake
  <2>3. WakeOnItsWay
    BY <1>0, <2>2, AnswersOnTheirWay DEF WakeOnItsWay
  <2>4. ~InFlight /\ InStep(face)
    BY <2>1, <2>2, <2>3 DEF ClearInv
  <2>5. ~InFlight' /\ InStep(face')
    BY <2>2, <2>4 DEF InFlight, Reading, PendingLocked, At, InStep, Awake
  <2>6. \A p \in Publishers : ~At(p, "wrote") /\ ~At(p, "overflow")
    BY <2>4 DEF InFlight, Resting, At
  <2> QED BY <2>2, <2>5, <2>6 DEF ClearInv, At
<1>8. CASE RonRestarts
  <2>1. /\ publisher' = [p \in Publishers |-> Resting] /\ face' = Awake /\ worker'.at = "down"
    BY <1>8 DEF RonRestarts, Worker
  <2>2. ~WakeOnItsWay'
    BY <1>8 DEF RonRestarts, Broken, Current, MarksInv, WakeOnItsWay
  <2>3. \A p \in Publishers : publisher'[p].at = "rest"
    BY <2>1 DEF Resting
  <2> QED BY <2>1, <2>2, <2>3 DEF ClearInv, At, InStep, Awake
<1>9. CASE Receive \/ Authenticate \/ ClientGone
  <2>1. UNCHANGED <<publisher, face, muddled, worker>> /\ InFlight
    BY <1>9 DEF Receive, Authenticate, ClientGone, ronSide, InFlight
  <2>2. ASSUME ~muddled, WakeOnItsWay' PROVE FALSE
    <3>1. ~WakeOnItsWay
      BY <2>1, <2>2 DEF ClearInv
    <3>2. uplink' = uplink \/ uplink' = Append(uplink, "ready")
      BY <1>9 DEF Receive, Authenticate, ClientGone
    <3>3. "ready" \in Answers
      BY DEF Answers
    <3> QED BY <1>0, <1>1, <2>2, <3>1, <3>2, <3>3, AnswersOnTheirWay DEF WakeOnItsWay
  <2> QED BY <1>4, <2>1, <2>2
<1>10. CASE FallBack \/ OnBatteryHealth \/ UNCHANGED tabletVars
  <2>1. UNCHANGED <<publisher, face, muddled, worker, wire, pending>>
    BY <1>10 DEF FallBack, OnBatteryHealth, ronSide, tabletVars
  <2>2. InFlight' => InFlight
    BY <2>1 DEF InFlight, Reading, PendingLocked, At
  <2>3. WakeOnItsWay' => WakeOnItsWay
    <3>1. uplink' = uplink \/ uplink' = Append(uplink, "request_snapshot")
      BY <1>10 DEF FallBack, OnBatteryHealth, Reply, tabletVars
    <3>2. "request_snapshot" \in Answers
      BY DEF Answers
    <3> QED BY <1>0, <1>1, <3>1, <3>2, AnswersOnTheirWay DEF WakeOnItsWay
  <2> QED BY <1>4, <2>1, <2>2, <2>3 DEF ClearInv
<1>11. CASE Tap
  <2>1. SUFFICES ASSUME ~muddled' PROVE ClearInv'
    BY DEF ClearInv
  <2>2. UNCHANGED <<publisher, face, worker, wire, pending>> /\ ~muddled /\ ~InFlight
    BY <1>11, <2>1 DEF Tap, ronSide
  <2>3. ~InFlight'
    BY <2>2 DEF InFlight, Reading, PendingLocked, At
  <2> QED BY <2>2, <2>3 DEF ClearInv, At
<1> QED BY <1>2, <1>3, <1>5, <1>6, <1>7, <1>8, <1>9, <1>10, <1>11 DEF TabletNext

-----------------------------------------------------------------------------
\* What is on its way makes the tablet show the face.

\* What the tablet has not read yet of this connection.
Coming == wire \o pending
\* A publication that the tablet will still take.
Live(p) == At(p, "numbered") /\ Above(Coming, lastReliable, publisher[p].message.number)
Unsent(p) == At(p, "wrote") \/ Live(p)
SaidBy(p) == IF At(p, "wrote") THEN publisher[p].event ELSE publisher[p].message.type
LastOne(p) ==
  \/ At(p, "wrote")
  \/ /\ Live(p) /\ ~Publishing
     /\ \A q \in Publishers : Live(q) => publisher[q].message.number <= publisher[p].message.number

\* The tablet shows g when it has read everything on the wire and in the queue.
\* What the publishers still hold turns g into the face: the last of them does
\* so alone, the others being expressions, which the last one overrules.
Settles(g) ==
  /\ (\A p \in Publishers : ~Unsent(p)) => g = face
  /\ (\A p \in Publishers : Unsent(p) => SaidBy(p) \in Expressions) => g.active = face.active
  /\ \A p \in Publishers : LastOne(p) => DrawnAs(g, SaidBy(p)) = face
  /\ \A p, q \in Publishers : p # q /\ Unsent(p) /\ SaidBy(p) \notin Expressions /\ Unsent(q) =>
       /\ SaidBy(p) # "speech_ended" /\ SaidBy(q) \in Expressions /\ At(q, "numbered")
       /\ At(p, "numbered") => publisher[q].message.number < publisher[p].message.number

\* A connection on which nothing will be sent anew by itself.
Requested == \E i \in DOMAIN uplink : uplink[i] = "request_snapshot"
Believed == worker.at = "loop" /\ ~muddled /\ ~protective /\ ~Requested /\ ~PendingLocked
Woken == [expression |-> "sleeping", active |-> FALSE]
ClaimInv ==
  Believed =>
    IF WakeOnItsWay THEN shown = Awake /\ face \in {Awake, Woken}
    ELSE \E g \in FaceStates : EndsAs(Coming, lastReliable, shown, g) /\ Settles(g)

LEMMA AboveGrows ==
  ASSUME NEW q \in Seq(Numbered), NEW last \in Int, NEW a \in Int, NEW b \in Int,
         Above(q, last, a), a <= b
  PROVE  Above(q, last, b)
<1>1. \A i \in DOMAIN q : q[i].number \in Int
  BY NumberedFields
<1> QED BY <1>1 DEF Above

LEMMA ComingIsNumbered ==
  ASSUME TabletTypeOK, UpInv, Up
  PROVE  wire \in Seq(Numbered) /\ pending \in Seq(Numbered) /\ Coming \in Seq(Numbered)
<1>1. \A i \in 1..Len(wire) : wire[i] \in Numbered
  BY WireFields DEF UpInv
<1>2. wire \in Seq(Numbered)
  BY <1>1, WireFields, IsASeq
<1>3. pending \in Seq(Numbered)
  BY DEF TabletTypeOK
<1> QED BY <1>2, <1>3, ConcatProperties DEF Coming

LEMMA PublisherTexts ==
  ASSUME TabletTypeOK, NumInv, NEW p \in Publishers
  PROVE  /\ Unsent(p) => SaidBy(p) \in Events
         /\ At(p, "numbered") =>
              /\ publisher[p].message \in Numbered /\ publisher[p].message.number \in Nat
              /\ publisher[p].message.type \in Events
              /\ ~At(p, "wrote") /\ SaidBy(p) = publisher[p].message.type
  BY PublisherFields, NumberedFields DEF NumInv, Unsent, Live, SaidBy, At

\* A publication that does not overlap with another is the last one.
LEMMA SettlesWritten ==
  ASSUME TabletTypeOK, NumInv, NEW p \in Publishers, NEW event \in Events,
         At(p, "rest"), Step(p, [at |-> "wrote", event |-> event]),
         face' = Applied(face, event), InStep(face), ~Overlap(event),
         UNCHANGED <<wire, pending, lastReliable>>, NEW g \in FaceStates, Settles(g)
  PROVE  Settles(g)'
<1>0. face \in FaceStates
  BY DEF TabletTypeOK
<1>1. /\ publisher'[p] = [at |-> "wrote", event |-> event]
      /\ \A q \in Publishers \ {p} : publisher'[q] = publisher[q]
  BY PublisherMoved
<1>2. \A q \in Publishers :
        /\ ~At(q, "wrote")
        /\ At(q, "numbered") => publisher[q].message.type \in Expressions /\ event # "speech_ended"
  BY DEF Overlap, Publishing
<1>3. At(p, "wrote")' /\ Unsent(p)' /\ SaidBy(p)' = event /\ ~At(p, "numbered")' /\ ~Live(p)' /\ Publishing'
      /\ ~Unsent(p)
  BY <1>1 DEF At, Unsent, SaidBy, Live, Publishing
<1>4. \A q \in Publishers \ {p} :
        /\ Live(q)' <=> Live(q)
        /\ Unsent(q)' <=> Live(q)
        /\ Unsent(q) <=> Live(q)
        /\ ~At(q, "wrote")' /\ (At(q, "numbered")' <=> At(q, "numbered"))
        /\ publisher'[q] = publisher[q]
        /\ Live(q) => /\ SaidBy(q)' = publisher[q].message.type /\ SaidBy(q) \in Expressions
                      /\ SaidBy(q)' \in Expressions /\ At(q, "numbered") /\ event # "speech_ended"
  BY <1>1, <1>2 DEF At, Unsent, SaidBy, Live, Coming
<1>5. (\A q \in Publishers : Unsent(q) => SaidBy(q) \in Expressions) 
  BY <1>3, <1>4
<1>6. g.active = face.active
  BY <1>5 DEF Settles
<1>7. event = "speech_ended" => g = face
  BY <1>3, <1>4 DEF Settles
<1>8. event \in {"speech_started", "speech_ended"} \cup Expressions
  BY DEF Events, Expressions
<1>9. event \in Expressions => face'.active = face.active
  BY <1>0, AppliedIsAFace
<1>10. DrawnAs(g, event) = face'
  <2>1. CASE event = "speech_started"
    BY <1>0, <2>1, AppliedIsAFace, DrawnAsCases
  <2>2. CASE event = "speech_ended"
    <3>1. face.active \/ face = Awake
      BY <2>2 DEF Overlap
    <3>2. DrawnAs(face, event) = Awake
      <4>1. CASE face.active
        BY <1>0, <2>2, <4>1, DrawnAsCases DEF InStep
      <4>2. CASE face = Awake
        BY <1>0, <2>2, <4>2, DrawnAsCases DEF Awake
      <4> QED BY <3>1, <4>1, <4>2
    <3> QED BY <1>0, <1>7, <2>2, <3>2, AppliedIsAFace
  <2>3. CASE event \in Expressions
    BY <1>0, <1>6, <2>3, AppliedIsAFace, DrawnAsCases
  <2> QED BY <1>8, <2>1, <2>2, <2>3
<1>11. \A q \in Publishers : LastOne(q)' => q = p
  BY <1>3, <1>4 DEF LastOne
<1>12. (\A q \in Publishers : Unsent(q)' => SaidBy(q)' \in Expressions) => g.active = face'.active
  BY <1>3, <1>6, <1>9
<1>13. \A a, b \in Publishers : a # b /\ Unsent(a)' /\ SaidBy(a)' \notin Expressions /\ Unsent(b)' =>
       /\ SaidBy(a)' # "speech_ended" /\ SaidBy(b)' \in Expressions /\ At(b, "numbered")'
       /\ At(a, "numbered")' => publisher'[b].message.number < publisher'[a].message.number
  <2>1. \A a \in Publishers : Unsent(a)' /\ SaidBy(a)' \notin Expressions => a = p
    BY <1>4
  <2> QED BY <1>3, <1>4, <2>1
<1> QED BY <1>3, <1>10, <1>11, <1>12, <1>13 DEF Settles

\* The last one stays the last when it takes its number.
LEMMA SettlesTaken ==
  ASSUME TabletTypeOK, NumInv, NEW p \in Publishers, At(p, "wrote"),
         Step(p, [at |-> "numbered",
                  message |-> [type |-> publisher[p].event, number |-> sequence + 1]]),
         \A q \in Publishers : At(q, "wrote") => q = p,
         Above(Coming, lastReliable, sequence + 1),
         UNCHANGED <<face, wire, pending, lastReliable>>, NEW g, Settles(g)
  PROVE  Settles(g)'
<1>0. sequence \in Nat
  BY DEF TabletTypeOK
<1>1. /\ publisher'[p] = [at |-> "numbered",
                          message |-> [type |-> publisher[p].event, number |-> sequence + 1]]
      /\ \A q \in Publishers \ {p} : publisher'[q] = publisher[q]
  BY PublisherMoved
<1>2. /\ At(p, "numbered")' /\ ~At(p, "wrote")' /\ publisher'[p].message.number = sequence + 1
      /\ Live(p)' /\ Unsent(p)' /\ Unsent(p) /\ SaidBy(p)' = SaidBy(p) /\ LastOne(p) /\ ~At(p, "numbered")
  BY <1>1 DEF At, Live, Coming, Unsent, SaidBy, LastOne
<1>3. \A q \in Publishers \ {p} :
        /\ Live(q)' <=> Live(q)
        /\ Unsent(q)' <=> Unsent(q)
        /\ SaidBy(q)' = SaidBy(q) /\ ~At(q, "wrote")' /\ ~At(q, "wrote")
        /\ At(q, "numbered")' <=> At(q, "numbered")
        /\ publisher'[q] = publisher[q]
        /\ At(q, "numbered") => publisher[q].message.number <= sequence
                                /\ publisher[q].message.number \in Nat
  BY <1>1, PublisherTexts DEF At, Live, Coming, Unsent, SaidBy, NumInv
<1>4. \A q \in Publishers : LastOne(q)' => q = p
  <2>1. ASSUME NEW q \in Publishers \ {p}, LastOne(q)' PROVE FALSE
    <3>1. At(q, "numbered") /\ publisher'[p].message.number <= publisher'[q].message.number
      BY <1>2, <1>3, <2>1 DEF LastOne, Live
    <3> QED BY <1>0, <1>2, <1>3, <3>1
  <2> QED BY <2>1
<1>5. DrawnAs(g, SaidBy(p)') = face'
  BY <1>2 DEF Settles
<1>6. /\ (\A q \in Publishers : ~Unsent(q)') => g = face'
      /\ (\A q \in Publishers : Unsent(q)' => SaidBy(q)' \in Expressions) => g.active = face'.active
  BY <1>2, <1>3 DEF Settles
<1>7. ASSUME NEW a \in Publishers, NEW b \in Publishers,
             a # b, Unsent(a)', SaidBy(a)' \notin Expressions, Unsent(b)'
      PROVE  /\ SaidBy(a)' # "speech_ended" /\ SaidBy(b)' \in Expressions /\ At(b, "numbered")'
             /\ At(a, "numbered")' => publisher'[b].message.number < publisher'[a].message.number
  <2>1. /\ SaidBy(a) # "speech_ended" /\ SaidBy(b) \in Expressions /\ At(b, "numbered")
        /\ At(a, "numbered") => publisher[b].message.number < publisher[a].message.number
        /\ SaidBy(a)' = SaidBy(a) /\ SaidBy(b)' = SaidBy(b)
    BY <1>2, <1>3, <1>7 DEF Settles
  <2>2. b # p
    BY <1>2, <2>1
  <2>3. CASE a = p
    BY <1>0, <1>2, <1>3, <2>1, <2>2, <2>3
  <2>4. CASE a # p
    BY <1>3, <2>1, <2>2, <2>4
  <2> QED BY <2>3, <2>4
<1> QED BY <1>4, <1>5, <1>6, <1>7 DEF Settles

\* A publication joins the queue, perhaps behind a later one.
LEMMA SettlesEnqueued ==
  ASSUME TabletTypeOK, NumInv, UpInv, Up, NEW p \in Publishers, At(p, "numbered"),
         Step(p, Resting), pending' = Append(pending, publisher[p].message),
         UNCHANGED <<face, wire, lastReliable>>,
         NEW g \in FaceStates, Settles(g), EndsAs(Coming, lastReliable, shown, g)
  PROVE  \E h \in FaceStates : EndsAs(Coming', lastReliable, shown, h) /\ Settles(h)'
<1> DEFINE m == publisher[p].message
<1>1. /\ publisher'[p] = Resting
      /\ \A q \in Publishers \ {p} : publisher'[q] = publisher[q]
  BY PublisherMoved
<1>2. /\ wire \in Seq(Numbered) /\ pending \in Seq(Numbered) /\ Coming \in Seq(Numbered)
      /\ m \in Numbered /\ m.number \in Nat /\ m.type \in Events /\ SaidBy(p) = m.type /\ ~At(p, "wrote")
      /\ lastReliable \in Int /\ shown \in FaceStates /\ face \in FaceStates
  BY ComingIsNumbered, PublisherTexts DEF TabletTypeOK
<1>3. Coming' = Append(Coming, m)
  <2>1. wire \o Append(pending, m) = Append(wire \o pending, m)
    BY <1>2, AppendIsConcat, ConcatAssociative, ConcatProperties
  <2> QED BY <2>1 DEF Coming
<1>4. Drawn(g, m) = DrawnAs(g, m.type) /\ Drawn(g, m) \in FaceStates
  BY <1>2, DrawnAsCases
<1>12. PICK h \in FaceStates : h = IF Above(Coming, lastReliable, m.number) THEN Drawn(g, m) ELSE g
  BY <1>4
<1>5. \A n \in Int : Above(Coming', lastReliable, n) <=> Above(Coming, lastReliable, n) /\ m.number < n
  BY <1>2, <1>3, AboveAppended
<1>6. EndsAs(Coming', lastReliable, shown, h)
  <2>1. EndsAs(Append(Coming, m), lastReliable, shown, h)
    BY <1>2, <1>12, EndsAppended
  <2> QED BY <1>3, <2>1
<1>7. /\ ~At(p, "wrote")' /\ ~At(p, "numbered")' /\ ~Live(p)' /\ ~Unsent(p)' /\ ~LastOne(p)'
      /\ Live(p) <=> Above(Coming, lastReliable, m.number)
      /\ Unsent(p) <=> Live(p)
  BY <1>1, <1>2 DEF At, Resting, Live, Unsent, LastOne
<1>8. \A q \in Publishers \ {p} :
        /\ Live(q)' <=> Live(q) /\ m.number < publisher[q].message.number
        /\ At(q, "wrote")' <=> At(q, "wrote")
        /\ At(q, "numbered")' <=> At(q, "numbered")
        /\ SaidBy(q)' = SaidBy(q) /\ publisher'[q] = publisher[q]
        /\ At(q, "numbered") => publisher[q].message.number \in Nat /\ ~At(q, "wrote")
  <2>1. \A q \in Publishers \ {p} : At(q, "numbered") => publisher[q].message.number \in Nat /\ ~At(q, "wrote")
    BY PublisherTexts
  <2> QED BY <1>1, <1>5, <2>1 DEF At, Live, SaidBy
<1>9. Publishing' <=> Publishing
  BY <1>7, <1>8, <1>2 DEF Publishing
<1>10. CASE ~Live(p)
  <2>1. h = g
    BY <1>7, <1>10, <1>12
  <2>2. ASSUME NEW q \in Publishers \ {p}, Live(q) PROVE m.number < publisher[q].message.number
    <3>1. publisher[q].message.number \in Nat /\ Above(Coming, lastReliable, publisher[q].message.number)
      BY <1>8, <2>2 DEF Live
    <3> QED BY <1>2, <1>7, <1>10, <3>1, AboveGrows
  <2>3. \A q \in Publishers : /\ Live(q)' <=> Live(q)
                              /\ Unsent(q)' <=> Unsent(q)
                              /\ Unsent(q) => q # p
    BY <1>7, <1>8, <1>10, <2>2 DEF Unsent
  <2>4. \A q \in Publishers : LastOne(q)' => LastOne(q) /\ q # p
    BY <1>7, <1>8, <1>9, <2>3 DEF LastOne
  <2>5. /\ (\A q \in Publishers : ~Unsent(q)') => g = face'
        /\ (\A q \in Publishers : Unsent(q)' => SaidBy(q)' \in Expressions) => g.active = face'.active
    BY <1>8, <2>3 DEF Settles
  <2>6. \A q \in Publishers : LastOne(q)' => DrawnAs(g, SaidBy(q)') = face'
    BY <1>8, <2>4 DEF Settles
  <2>7. \A a, b \in Publishers : a # b /\ Unsent(a)' /\ SaidBy(a)' \notin Expressions /\ Unsent(b)' =>
          /\ SaidBy(a)' # "speech_ended" /\ SaidBy(b)' \in Expressions /\ At(b, "numbered")'
          /\ At(a, "numbered")' => publisher'[b].message.number < publisher'[a].message.number
    BY <1>8, <2>3 DEF Settles
  <2>8. Settles(g)'
    BY <2>5, <2>6, <2>7 DEF Settles
  <2> QED BY <1>6, <2>1, <2>8
<1>11. CASE Live(p)
  <2>1. h = DrawnAs(g, m.type) /\ Unsent(p)
    BY <1>4, <1>7, <1>11, <1>12
  <2>2. \A q \in Publishers : Unsent(q)' => Unsent(q) /\ q # p
    BY <1>7, <1>8 DEF Unsent
  <2>3. ASSUME ~Publishing, \A q \in Publishers \ {p} : Live(q) => publisher[q].message.number <= m.number
        PROVE  h = face
    <3>1. LastOne(p)
      BY <1>2, <1>11, <2>3 DEF LastOne
    <3> QED BY <1>2, <2>1, <3>1 DEF Settles
  <2>4. ASSUME \A q \in Publishers : ~Unsent(q)' PROVE h = face'
    <3>1. ~Publishing
      BY <1>9, <2>4 DEF Unsent, Publishing
    <3>2. \A q \in Publishers \ {p} : Live(q) => publisher[q].message.number <= m.number
      BY <1>2, <1>8, <2>4 DEF Unsent, Live
    <3> QED BY <2>3, <3>1, <3>2
  <2>5. ASSUME \A q \in Publishers : Unsent(q)' => SaidBy(q)' \in Expressions
        PROVE  h.active = face'.active
    <3>1. CASE m.type \in Expressions
      <4>1. ASSUME NEW q \in Publishers, Unsent(q) PROVE SaidBy(q) \in Expressions
        <5>1. CASE q = p
          BY <1>2, <3>1, <5>1
        <5>2. CASE q # p /\ Unsent(q)'
          BY <1>8, <2>5, <5>2
        <5>3. CASE q # p /\ ~Unsent(q)'
          <6>1. At(q, "numbered") /\ publisher[q].message.number <= m.number
            BY <1>2, <1>8, <4>1, <5>3 DEF Unsent, Live
          <6>2. SaidBy(q) \notin Expressions => m.number < publisher[q].message.number
            BY <2>1, <4>1, <5>3, <6>1 DEF Settles
          <6> QED BY <1>2, <1>8, <5>3, <6>1, <6>2
        <5> QED BY <5>1, <5>2, <5>3
      <4>2. g.active = face.active
        BY <4>1 DEF Settles
      <4>3. h = [expression |-> m.type, active |-> g.active]
        BY <1>2, <2>1, <3>1, DrawnAsCases
      <4> QED BY <4>2, <4>3
    <3>2. CASE m.type \notin Expressions
      <4>1. \A q \in Publishers \ {p} : Unsent(q) =>
               At(q, "numbered") /\ publisher[q].message.number < m.number
        BY <1>2, <2>1, <3>2 DEF Settles
      <4>2. ~Publishing
        BY <1>2, <1>8, <4>1 DEF Publishing, Unsent
      <4>3. \A q \in Publishers \ {p} : Live(q) => publisher[q].message.number <= m.number
        BY <1>2, <1>8, <4>1 DEF Unsent, Live
      <4> QED BY <2>3, <4>2, <4>3
    <3> QED BY <3>1, <3>2
  <2>6. ASSUME NEW q \in Publishers, LastOne(q)' PROVE DrawnAs(h, SaidBy(q)') = face'
    <3>1. q # p /\ SaidBy(q)' = SaidBy(q) /\ Unsent(q)' /\ Unsent(q) /\ SaidBy(q) \in Events
      BY <1>7, <1>8, <2>2, <2>6, PublisherTexts DEF LastOne, Unsent
    <3>2. At(q, "wrote") \/ m.number < publisher[q].message.number
      BY <1>8, <2>6, <3>1 DEF LastOne
    <3>3. LastOne(q)
      <4>1. CASE At(q, "wrote")
        BY <4>1 DEF LastOne
      <4>2. CASE ~At(q, "wrote")
        <5>1. Live(q)' /\ ~Publishing /\ Live(q) /\ publisher[q].message.number \in Nat
          BY <1>8, <1>9, <2>6, <3>1, <4>2 DEF LastOne, Live
        <5>2. ASSUME NEW r \in Publishers, Live(r)
              PROVE  publisher[r].message.number <= publisher[q].message.number
          <6>1. CASE r = p
            BY <1>2, <3>2, <4>2, <5>1, <6>1
          <6>2. CASE r # p /\ Live(r)'
            BY <1>8, <2>6, <3>1, <4>2, <6>2 DEF LastOne
          <6>3. CASE r # p /\ ~Live(r)'
            <7>1. publisher[r].message.number \in Nat /\ publisher[r].message.number <= m.number
              BY <1>2, <1>8, <5>2, <6>3 DEF Live
            <7> QED BY <1>2, <3>2, <4>2, <5>1, <7>1
          <6> QED BY <6>1, <6>2, <6>3
        <5> QED BY <5>1, <5>2 DEF LastOne
      <4> QED BY <4>1, <4>2
    <3>4. DrawnAs(g, SaidBy(q)) = face
      BY <3>3 DEF Settles
    <3>5. CASE SaidBy(q) \in Expressions
      <4>1. m.type \in Expressions
        <5>1. m.type \notin Expressions =>
                 At(q, "numbered") /\ publisher[q].message.number < m.number
          BY <1>2, <2>1, <3>1 DEF Settles
        <5> QED BY <1>2, <1>8, <3>1, <3>2, <5>1
      <4>2. h = [expression |-> m.type, active |-> g.active]
        BY <1>2, <2>1, <4>1, DrawnAsCases
      <4>3. DrawnAs(h, SaidBy(q)) = [expression |-> SaidBy(q), active |-> g.active]
        BY <1>4, <3>1, <3>5, <4>2, DrawnAsCases
      <4>4. DrawnAs(g, SaidBy(q)) = [expression |-> SaidBy(q), active |-> g.active]
        BY <3>1, <3>5, DrawnAsCases
      <4> QED BY <3>1, <3>4, <4>3, <4>4
    <3>6. CASE SaidBy(q) = "speech_started"
      <4>1. DrawnAs(h, SaidBy(q)) = SpeakingFace /\ DrawnAs(g, SaidBy(q)) = SpeakingFace
        BY <1>4, <3>1, <3>6, DrawnAsCases
      <4> QED BY <3>1, <3>4, <4>1
    <3>7. SaidBy(q) # "speech_ended"
      <4>1. "speech_ended" \notin Expressions
        BY DEF Expressions
      <4> QED BY <2>1, <3>1, <4>1 DEF Settles
    <3>8. SaidBy(q) \in {"speech_started", "speech_ended"} \cup Expressions
      BY <3>1 DEF Events, Expressions
    <3> QED BY <3>5, <3>6, <3>7, <3>8
  <2>7. ASSUME NEW a \in Publishers, NEW b \in Publishers,
               a # b, Unsent(a)', SaidBy(a)' \notin Expressions, Unsent(b)'
        PROVE  /\ SaidBy(a)' # "speech_ended" /\ SaidBy(b)' \in Expressions /\ At(b, "numbered")'
               /\ At(a, "numbered")' => publisher'[b].message.number < publisher'[a].message.number
    BY <1>8, <2>2, <2>7 DEF Settles
  <2>8. Settles(h)'
    BY <2>4, <2>5, <2>6, <2>7 DEF Settles
  <2> QED BY <1>4, <1>6, <2>8
<1> QED BY <1>10, <1>11

\* A snapshot of the face, with a number above all others, settles it.
LEMMA SettlesWithSnapshot ==
  ASSUME TabletTypeOK', ClearInv', ~muddled', NEW before \in Seq(Numbered), NEW after \in Seq(Numbered),
         NEW m \in Numbered, m.type = "snapshot", m.face = face',
         Coming' = Append(before, m) \o after, Above(before, lastReliable', m.number),
         \A i \in DOMAIN after : after[i].number < m.number,
         \A p \in Publishers : At(p, "numbered")' =>
            publisher'[p].message.number \in Int /\ publisher'[p].message.number <= m.number
  PROVE  \E g \in FaceStates : EndsAs(Coming', lastReliable', shown', g) /\ Settles(g)'
<1>0. face' \in FaceStates /\ lastReliable' \in Int /\ m.number \in Nat
  BY NumberedFields DEF TabletTypeOK
<1>1. PICK g \in FaceStates : g = face'
  BY <1>0
<1>2. Drawn(Awake, m) = g
  BY <1>1, DrawnCases, FaceFields DEF ClearInv, InStep
<1>3. EndsAs(Coming', lastReliable', shown', g)
  BY <1>0, <1>2, EndsAsSnapshot
<1>4. Len(before) + 1 \in DOMAIN Coming' /\ Coming'[Len(before) + 1] = m
  <2>1. /\ Append(before, m) \in Seq(Numbered) /\ Len(Append(before, m)) = Len(before) + 1
        /\ Append(before, m)[Len(before) + 1] = m /\ Len(before) \in Nat /\ Len(after) \in Nat
    OBVIOUS
  <2> QED BY <2>1, ConcatProperties
<1>5. ASSUME NEW p \in Publishers PROVE ~Live(p)'
  <2>1. Live(p)' => At(p, "numbered")' /\ m.number < publisher'[p].message.number
    BY <1>4 DEF Live, Above
  <2> QED BY <1>0, <2>1
<1>6. \A p \in Publishers : /\ Unsent(p)' => At(p, "wrote")'
                            /\ LastOne(p)' => At(p, "wrote")'
                            /\ At(p, "wrote")' => SaidBy(p)' = publisher'[p].event
  BY <1>5 DEF Unsent, LastOne, SaidBy
<1>7. \A p \in Publishers : At(p, "wrote")' => DrawnAs(g, publisher'[p].event) = face'
  BY <1>1 DEF ClearInv
<1>8. \A p, q \in Publishers : At(p, "wrote")' /\ At(q, "wrote")' => p = q
  BY DEF ClearInv
<1>9. Settles(g)'
  BY <1>1, <1>6, <1>7, <1>8 DEF Settles
<1> QED BY <1>3, <1>9

\* The same is on its way and in the publishers' hands.
LEMMA SettlesUnchanged ==
  ASSUME NEW g, Settles(g), UNCHANGED <<face, publisher>>,
         \A p \in Publishers : At(p, "numbered") =>
            (Above(Coming', lastReliable', publisher[p].message.number)
               <=> Above(Coming, lastReliable, publisher[p].message.number))
  PROVE  Settles(g)'
<1>1. \A p \in Publishers : /\ Live(p)' <=> Live(p)
                            /\ \A place \in {"wrote", "numbered"} : At(p, place)' <=> At(p, place)
                            /\ publisher'[p] = publisher[p]
  BY DEF Live, At
<1>2. Publishing' <=> Publishing
  BY <1>1 DEF Publishing
<1>3. \A p \in Publishers : /\ Unsent(p)' <=> Unsent(p)
                            /\ LastOne(p)' <=> LastOne(p)
                            /\ SaidBy(p)' = SaidBy(p)
  BY <1>1, <1>2 DEF Unsent, LastOne, SaidBy
<1> QED BY <1>1, <1>3 DEF Settles

LEMMA ClaimKept ==
  ASSUME TabletTypeOK, TabletTypeOK', NumInv, UpInv, MarksInv, UpInv', ClearInv, ClearInv', ClaimInv,
         [TabletNext]_tabletVars
  PROVE  ClaimInv'
<1> SUFFICES ASSUME Believed' PROVE ClaimInv'
  BY DEF ClaimInv
<1>0. /\ sequence \in Nat /\ lastReliable \in Int /\ face \in FaceStates /\ shown \in FaceStates
      /\ uplink \in Seq(Answers) /\ pending \in Seq(Numbered)
      /\ muddled \in BOOLEAN /\ muddled' \in BOOLEAN /\ protective \in BOOLEAN
      /\ worker'.at = "loop" /\ ~muddled' /\ ~protective' /\ ~Requested' /\ ~PendingLocked'
  BY DEF TabletTypeOK, Answers, Believed
<1>1. ASSUME ~WakeOnItsWay', \E g \in FaceStates : EndsAs(Coming', lastReliable', shown', g) /\ Settles(g)'
      PROVE  ClaimInv'
  <2>1. PICK g \in FaceStates : EndsAs(Coming', lastReliable', shown', g) /\ Settles(g)'
    BY <1>1
  <2>2. (\E k \in FaceStates : EndsAs(Coming, lastReliable, shown, k) /\ Settles(k))'
    BY <2>1
  <2> QED BY <1>1, <2>2 DEF ClaimInv
<1>2. ASSUME Believed, ~WakeOnItsWay
      PROVE  \E g \in FaceStates : EndsAs(Coming, lastReliable, shown, g) /\ Settles(g)
  BY <1>2 DEF ClaimInv
<1>3. ASSUME UNCHANGED uplink
      PROVE  (WakeOnItsWay' <=> WakeOnItsWay) /\ (Requested' <=> Requested)
  BY <1>3 DEF WakeOnItsWay, Requested
<1>4. \A p \in Publishers : At(p, "numbered") =>
        /\ publisher[p].message.number \in Nat /\ publisher[p].message.number <= sequence
  BY PublisherTexts DEF NumInv
<1>5. ASSUME worker.at = "loop"
      PROVE  /\ Up /\ wire \in Seq(Numbered) /\ Coming \in Seq(Numbered)
             /\ Above(wire, lastReliable, sequence + 1) /\ Above(Coming, lastReliable, sequence + 1)
  <2>1. Up
    BY <1>5 DEF Up
  <2>2. wire \in Seq(Numbered) /\ Coming \in Seq(Numbered)
    BY <2>1, ComingIsNumbered
  <2>3. /\ \A i \in 1..Len(wire) : wire[i].number <= sequence /\ wire[i].number \in Nat
        /\ \A i \in 1..Len(pending) : pending[i].number <= sequence /\ pending[i].number \in Nat
        /\ lastReliable <= sequence
    BY <1>0, <2>1, <2>2, NumberedFields DEF UpInv, NumInv
  <2>4. Above(wire, lastReliable, sequence + 1)
    BY <1>0, <2>2, <2>3 DEF Above
  <2>5. /\ DOMAIN Coming = 1..Len(wire) + Len(pending) /\ Len(wire) \in Nat /\ Len(pending) \in Nat
        /\ \A i \in 1..Len(wire) + Len(pending) :
             Coming[i] = IF i <= Len(wire) THEN wire[i] ELSE pending[i - Len(wire)]
    BY <1>0, <2>2, ConcatProperties DEF Coming
  <2>6. ASSUME NEW i \in 1..Len(wire) + Len(pending) PROVE Coming[i].number < sequence + 1
    <3>1. CASE i <= Len(wire)
      <4>1. i \in 1..Len(wire) /\ Coming[i] = wire[i]
        BY <2>5, <3>1
      <4> QED BY <1>0, <2>3, <4>1
    <3>2. CASE i > Len(wire)
      <4>1. i - Len(wire) \in 1..Len(pending) /\ Coming[i] = pending[i - Len(wire)]
        BY <2>5, <3>2
      <4> QED BY <1>0, <2>3, <4>1
    <3> QED BY <2>5, <3>1, <3>2
  <2>7. Above(Coming, lastReliable, sequence + 1)
    BY <1>0, <2>3, <2>5, <2>6 DEF Above
  <2> QED BY <2>1, <2>2, <2>4, <2>7
<1>6. ASSUME NEW p \in Publishers, Write(p) PROVE ClaimInv'
  <2>1. PICK event \in Published :
          /\ face' = Applied(face, event) /\ Step(p, [at |-> "wrote", event |-> event])
          /\ muddled' = (muddled \/ Overlap(event))
    BY <1>6 DEF Write
  <2>2. /\ UNCHANGED <<worker, protective, uplink, wire, pending, lastReliable, shown>> /\ At(p, "rest")
        /\ event \in Events
    BY <1>6, TabletAssumption DEF Write, tabletSide
  <2>3. ~muddled /\ ~Overlap(event) /\ InStep(face)
    BY <1>0, <2>1 DEF ClearInv
  <2>4. ~PendingLocked /\ ~WakeOnItsWay
    BY <2>3 DEF Overlap, Reading
  <2>5. Believed
    BY <1>0, <1>3, <2>2, <2>3, <2>4 DEF Believed
  <2>6. PICK g \in FaceStates : EndsAs(Coming, lastReliable, shown, g) /\ Settles(g)
    BY <1>2, <2>4, <2>5
  <2>7. Settles(g)'
    BY <2>1, <2>2, <2>3, <2>6, SettlesWritten
  <2>8. EndsAs(Coming', lastReliable', shown', g) /\ ~WakeOnItsWay'
    BY <1>3, <2>2, <2>4, <2>6 DEF Coming
  <2> QED BY <1>1, <2>7, <2>8
<1>7. ASSUME NEW p \in Publishers, TakeNumber(p) PROVE ClaimInv'
  <2>1. /\ UNCHANGED <<face, worker, muddled, protective, uplink, wire, pending, lastReliable, shown>>
        /\ At(p, "wrote")
        /\ Step(p, [at |-> "numbered",
                    message |-> [type |-> publisher[p].event, number |-> sequence + 1]])
    BY <1>7 DEF TakeNumber, tabletSide
  <2>2. publisher[p] # Resting
    BY <2>1 DEF At, Resting
  <2>3. ~WakeOnItsWay /\ \A q \in Publishers : At(q, "wrote") => q = p
    BY <1>0, <2>1, <2>2 DEF ClearInv, InFlight
  <2>4. ~PendingLocked
    <3>1. publisher'[p].at = "numbered" /\ \A q \in Publishers \ {p} : publisher'[q] = publisher[q]
      BY <2>1, PublisherMoved
    <3> QED BY <1>0, <2>1, <3>1 DEF PendingLocked, At
  <2>5. Believed
    BY <1>0, <1>3, <2>1, <2>4 DEF Believed
  <2>6. PICK g \in FaceStates : EndsAs(Coming, lastReliable, shown, g) /\ Settles(g)
    BY <1>2, <2>3, <2>5
  <2>7. Above(Coming, lastReliable, sequence + 1)
    BY <1>5, <2>5 DEF Believed
  <2>8. Settles(g)'
    BY <2>1, <2>3, <2>6, <2>7, SettlesTaken
  <2>9. EndsAs(Coming', lastReliable', shown', g) /\ ~WakeOnItsWay'
    BY <1>3, <2>1, <2>3, <2>6 DEF Coming
  <2> QED BY <1>1, <2>8, <2>9
<1>8. ASSUME NEW p \in Publishers, Enqueue(p) PROVE ClaimInv'
  <2>1. /\ UNCHANGED <<face, worker, muddled, protective, uplink, wire, lastReliable, shown>>
        /\ At(p, "numbered") /\ ~PendingLocked
    BY <1>8 DEF Enqueue, tabletSide
  <2>2. pending' = Append(pending, publisher[p].message) /\ Step(p, Resting)
    <3>1. ASSUME Step(p, [at |-> "overflow", face |-> face]) PROVE FALSE
      <4>1. publisher'[p].at = "overflow"
        BY <3>1, PublisherMoved
      <4> QED BY <1>0, <4>1 DEF PendingLocked, At
    <3> QED BY <1>8, <3>1 DEF Enqueue
  <2>3. publisher[p] # Resting
    BY <2>1 DEF At, Resting
  <2>4. ~WakeOnItsWay
    BY <1>0, <2>1, <2>3 DEF ClearInv, InFlight
  <2>5. Believed
    BY <1>0, <1>3, <2>1 DEF Believed
  <2>6. PICK g \in FaceStates : EndsAs(Coming, lastReliable, shown, g) /\ Settles(g)
    BY <1>2, <2>4, <2>5
  <2>7. Up
    BY <1>5, <2>5 DEF Believed
  <2>8. \E h \in FaceStates : EndsAs(Coming', lastReliable, shown, h) /\ Settles(h)'
    BY <2>1, <2>2, <2>6, <2>7, SettlesEnqueued
  <2> QED BY <1>1, <1>3, <2>1, <2>4, <2>8
<1>9. ASSUME NEW p \in Publishers, OverflowSnapshot(p) PROVE ClaimInv'
  <2> DEFINE m == Snapshot(publisher[p].face)
  <2>1. /\ UNCHANGED <<face, worker, muddled, protective, uplink, wire, lastReliable, shown>>
        /\ At(p, "overflow") /\ pending' = <<m>> /\ Step(p, Resting)
    BY <1>9 DEF OverflowSnapshot, tabletSide
  <2>2. publisher[p] # Resting
    BY <2>1 DEF At, Resting
  <2>3. ~WakeOnItsWay /\ publisher[p].face = face
    BY <1>0, <2>1, <2>2 DEF ClearInv, InFlight
  <2>4. m \in Numbered /\ m.number = sequence + 1 /\ m.type = "snapshot" /\ m.face = face'
    BY <1>0, <2>1, <2>3, SnapshotIsNumbered
  <2> HIDE DEF m
  <2>5. wire \in Seq(Numbered) /\ Above(wire, lastReliable, m.number)
    BY <1>0, <1>5, <2>1, <2>4
  <2>6. Coming' = Append(wire, m) \o <<>> /\ <<>> \in Seq(Numbered)
    <3>1. wire \o <<m>> = Append(wire, m) /\ Append(wire, m) \in Seq(Numbered)
      BY <2>4, <2>5
    <3>2. Append(wire, m) \o <<>> = Append(wire, m)
      BY <3>1, ConcatEmptySeq
    <3> QED BY <2>1, <3>1, <3>2 DEF Coming
  <2>7. \A q \in Publishers : At(q, "numbered")' =>
           publisher'[q].message.number \in Int /\ publisher'[q].message.number <= m.number
    <3>1. publisher'[p].at = "rest" /\ \A q \in Publishers \ {p} : publisher'[q] = publisher[q]
      BY <2>1, PublisherMoved DEF Resting
    <3> QED BY <1>0, <1>4, <2>4, <3>1 DEF At
  <2>8. \A i \in DOMAIN <<>> : <<>>[i].number < m.number
    OBVIOUS
  <2>9. \E g \in FaceStates : EndsAs(Coming', lastReliable', shown', g) /\ Settles(g)'
    BY <1>0, <2>1, <2>4, <2>5, <2>6, <2>7, <2>8, SettlesWithSnapshot
  <2> QED BY <1>1, <1>3, <2>1, <2>3, <2>9
<1>10. CASE Connect \/ HandshakeDone \/ FirstSnapshot \/ RequestedSnapshot \/ LinkFails \/ RonRestarts
  <2>1. worker'.at # "loop"
    <3>1. ReadState => worker'.at = "snapshot"
      BY DEF ReadState
    <3> QED BY <1>10, <3>1 DEF Connect, HandshakeDone, FirstSnapshot, RequestedSnapshot, LinkFails, RonRestarts, Worker
  <2> QED BY <1>0, <2>1
<1>11. CASE SendSnapshot
  <2> DEFINE m == Snapshot(worker.face)
  <2>1. /\ UNCHANGED <<face, publisher, pending, muddled, protective, uplink, lastReliable, shown>>
        /\ worker.at = "snapshot" /\ wire' = Append(wire, m)
    BY <1>11 DEF SendSnapshot, tabletSide
  <2>2. ~WakeOnItsWay /\ worker.face = face
    BY <1>0, <2>1 DEF ClearInv, InFlight, Reading
  <2>3. m \in Numbered /\ m.number = sequence + 1 /\ m.type = "snapshot" /\ m.face = face'
    BY <1>0, <2>1, <2>2, SnapshotIsNumbered
  <2> HIDE DEF m
  <2>4. Up /\ wire \in Seq(Numbered)
    BY <2>1, ComingIsNumbered DEF Up
  <2>5. /\ \A i \in 1..Len(wire) : wire[i].number <= sequence /\ wire[i].number \in Nat
        /\ \A i \in 1..Len(pending) : pending[i].number <= sequence /\ pending[i].number \in Nat
        /\ lastReliable <= sequence
    BY <1>0, <2>4, NumberedFields DEF UpInv, NumInv
  <2>6. Above(wire, lastReliable', m.number) /\ \A i \in DOMAIN pending : pending[i].number < m.number
    <3>1. DOMAIN wire = 1..Len(wire) /\ DOMAIN pending = 1..Len(pending)
      BY <1>0, <2>4
    <3>2. \A i \in DOMAIN wire : wire[i].number < m.number
      BY <1>0, <2>3, <2>5, <3>1
    <3>3. \A i \in DOMAIN pending : pending[i].number < m.number
      BY <1>0, <2>3, <2>5, <3>1
    <3>4. lastReliable' < m.number
      BY <1>0, <2>1, <2>3, <2>5
    <3> QED BY <3>2, <3>3, <3>4 DEF Above
  <2>7. Coming' = Append(wire, m) \o pending
    BY <2>1 DEF Coming
  <2>8. \A q \in Publishers : At(q, "numbered")' =>
           publisher'[q].message.number \in Int /\ publisher'[q].message.number <= m.number
    BY <1>0, <1>4, <2>1, <2>3 DEF At
  <2>9. \E g \in FaceStates : EndsAs(Coming', lastReliable', shown', g) /\ Settles(g)'
    BY <1>0, <2>3, <2>4, <2>6, <2>7, <2>8, SettlesWithSnapshot
  <2> QED BY <1>1, <1>3, <2>1, <2>2, <2>9
<1>12. CASE FlushReliable
  <2>1. /\ UNCHANGED <<face, publisher, worker, muddled, protective, uplink, lastReliable, shown>>
        /\ pending # <<>> /\ wire' = Append(wire, Head(pending)) /\ pending' = Tail(pending)
    BY <1>12 DEF FlushReliable, tabletSide
  <2>2. ~WakeOnItsWay
    BY <1>0, <2>1 DEF ClearInv, InFlight
  <2>3. Believed
    BY <1>0, <1>3, <2>1 DEF Believed, PendingLocked, At
  <2>4. PICK g \in FaceStates : EndsAs(Coming, lastReliable, shown, g) /\ Settles(g)
    BY <1>2, <2>2, <2>3
  <2>5. Coming' = Coming
    <3>1. wire \in Seq(Numbered)
      BY <1>5, <2>3 DEF Believed
    <3>2. /\ <<Head(pending)>> \in Seq(Numbered) /\ Tail(pending) \in Seq(Numbered)
          /\ Append(wire, Head(pending)) = wire \o <<Head(pending)>>
          /\ pending = <<Head(pending)>> \o Tail(pending)
      BY <1>0, <2>1, <3>1, HeadTailProperties
    <3>3. (wire \o <<Head(pending)>>) \o Tail(pending) = wire \o (<<Head(pending)>> \o Tail(pending))
      BY <3>1, <3>2, ConcatAssociative
    <3> QED BY <2>1, <3>2, <3>3 DEF Coming
  <2>6. Settles(g)'
    BY <2>1, <2>4, <2>5, SettlesUnchanged
  <2> QED BY <1>1, <1>3, <2>1, <2>2, <2>4, <2>5, <2>6
<1>13. CASE HandleFaceWake
  <2>1. /\ UNCHANGED <<publisher, worker, muddled, protective, wire, pending, lastReliable, shown>>
        /\ worker.at = "loop" /\ uplink # <<>> /\ Head(uplink) = "face_wake" /\ uplink' = Tail(uplink)
        /\ face' = IF face.expression = "sleeping" THEN Awake ELSE face
    BY <1>13 DEF HandleFaceWake, tabletSide
  <2>2. WakeOnItsWay /\ ~Requested
    BY <1>0, <2>1, AnswersOnTheirWay DEF WakeOnItsWay, Requested
  <2>3. ~InFlight /\ Believed
    BY <1>0, <2>1, <2>2 DEF ClearInv, Believed, PendingLocked, At
  <2>4. shown = Awake /\ face \in {Awake, Woken}
    BY <2>2, <2>3 DEF ClaimInv
  <2>5. face' = Awake
    <3>1. Awake.expression = "idle" /\ Woken.expression = "sleeping"
      BY DEF Awake, Woken
    <3> QED BY <2>1, <2>4, <3>1
  <2>6. CASE WakeOnItsWay'
    BY <2>1, <2>4, <2>5, <2>6 DEF ClaimInv
  <2>7. CASE ~WakeOnItsWay'
    <3>1. wire = <<>> /\ pending = <<>> /\ \A p \in Publishers : publisher[p] = Resting
      BY <2>3 DEF InFlight
    <3>2. Coming' = <<>>
      BY <2>1, <3>1 DEF Coming
    <3>3. Awake \in FaceStates /\ EndsAs(Coming', lastReliable', shown', Awake)
      BY <2>1, <2>4, <3>2, EndsWithNothing, FaceFields
    <3>4. \A p \in Publishers : ~At(p, "wrote")' /\ ~At(p, "numbered")'
      BY <2>1, <3>1 DEF At, Resting
    <3>5. \A p \in Publishers : ~Unsent(p)' /\ ~LastOne(p)'
      BY <3>4 DEF Unsent, Live, LastOne
    <3>6. PICK g \in FaceStates : g = Awake
      BY <3>3
    <3>7. Settles(g)'
      BY <2>5, <3>5, <3>6 DEF Settles
    <3> QED BY <1>1, <2>7, <3>3, <3>6, <3>7
  <2> QED BY <2>6, <2>7
<1>14. CASE Receive
  <2>1. /\ UNCHANGED <<face, publisher, worker, muddled, protective, uplink, pending>>
        /\ wire # <<>> /\ wire' = Tail(wire)
        /\ IF AcceptReliable(Head(wire))
           THEN lastReliable' = Head(wire).number /\ shown' = Protected(Drawn(shown, Head(wire)))
           ELSE UNCHANGED <<lastReliable, shown>>
    BY <1>14 DEF Receive, ronSide
  <2>2. ~WakeOnItsWay
    BY <1>0, <2>1 DEF ClearInv, InFlight
  <2>3. Believed
    BY <1>0, <1>3, <2>1 DEF Believed, PendingLocked, At
  <2>4. PICK g \in FaceStates : EndsAs(Coming, lastReliable, shown, g) /\ Settles(g)
    BY <1>2, <2>2, <2>3
  <2>5. wire \in Seq(Numbered) /\ Coming \in Seq(Numbered) /\ ~protective
    BY <1>5, <2>3 DEF Believed
  <2>6. Coming # <<>> /\ Head(Coming) = Head(wire) /\ Tail(Coming) = Coming'
    <3>1. /\ <<Head(wire)>> \in Seq(Numbered) /\ Tail(wire) \in Seq(Numbered)
          /\ wire = <<Head(wire)>> \o Tail(wire)
      BY <2>1, <2>5, HeadTailProperties
    <3>2. Coming = <<Head(wire)>> \o Coming'
      BY <1>0, <2>1, <3>1, ConcatAssociative DEF Coming
    <3>3. Coming' \in Seq(Numbered)
      BY <1>0, <2>1, <3>1, ConcatProperties DEF Coming
    <3> HIDE DEF Coming
    <3> QED BY <3>1, <3>2, <3>3, ConcatSimplifications, HeadTailProperties
  <2>7. lastReliable' = Newer(lastReliable, Head(Coming).number)
    BY <2>1, <2>6 DEF Newer, AcceptReliable
  <2>8. shown' = IF lastReliable < Head(Coming).number THEN Drawn(shown, Head(Coming)) ELSE shown
    BY <2>1, <2>5, <2>6 DEF AcceptReliable, Protected
  <2>9. EndsAs(Coming', lastReliable', shown', g)
    BY <1>0, <2>4, <2>5, <2>6, <2>7, <2>8, EndsRest
  <2>10. ASSUME NEW p \in Publishers, At(p, "numbered")
         PROVE  Above(Coming', lastReliable', publisher[p].message.number)
                  <=> Above(Coming, lastReliable, publisher[p].message.number)
    <3>1. publisher[p].message.number \in Int
      BY <1>4, <2>10
    <3>2. Above(Coming, lastReliable, publisher[p].message.number)
            <=> Above(Tail(Coming), Newer(lastReliable, Head(Coming).number), publisher[p].message.number)
      BY <1>0, <2>5, <2>6, <3>1, AboveRest
    <3> QED BY <2>6, <2>7, <3>2
  <2>11. Settles(g)'
    BY <2>1, <2>4, <2>10, SettlesUnchanged
  <2> QED BY <1>1, <1>3, <2>1, <2>2, <2>9, <2>11
<1>15. CASE Authenticate \/ ClientGone
  <2>1. worker' = worker /\ wire # <<>> /\ Head(wire).type \in {"hello", "eof"}
    BY <1>15 DEF Authenticate, ClientGone, ronSide
  <2>2. Up /\ 1 \in 1..Len(wire) /\ Head(wire) = wire[1]
    BY <1>0, <2>1, WireFields DEF Up
  <2> QED BY <2>1, <2>2 DEF UpInv, IsMark
<1>16. CASE FallBack
  <2>1. worker' = worker /\ \E expression \in fallback : TRUE
    BY <1>16 DEF FallBack, ronSide
  <2>2. Up
    BY <1>0, <2>1 DEF Up
  <2> QED BY <2>1, <2>2 DEF UpInv
<1>17. CASE Tap
  <2>1. /\ UNCHANGED <<face, publisher, worker, wire, pending, protective>>
        /\ shown.expression = "sleeping" /\ Reply("face_wake")
        /\ shown' = [shown EXCEPT !.expression = "idle"] /\ ~muddled /\ ~InFlight
    BY <1>0, <1>17 DEF Tap, ronSide
  <2>2. Up /\ worker.at = "loop"
    BY <1>0, <2>1 DEF Up
  <2>3. uplink' = Append(uplink, "face_wake")
    <3>1. computerConnected /\ Current /\ Breaks(wire) = {}
      BY <2>1, <2>2 DEF UpInv, Current, Breaks, InFlight
    <3> QED BY <2>1, <3>1 DEF Reply
  <2>4. "face_wake" \in Answers
    BY DEF Answers
  <2>5. WakeOnItsWay' /\ ~Requested
    BY <1>0, <2>3, <2>4, AnswersOnTheirWay DEF WakeOnItsWay, Requested
  <2>6. Believed
    BY <1>0, <2>1, <2>2, <2>5 DEF Believed, PendingLocked, At
  <2>7. ~WakeOnItsWay
    BY <2>1, <2>6 DEF ClaimInv, Awake
  <2>8. PICK g \in FaceStates : EndsAs(Coming, lastReliable, shown, g) /\ Settles(g)
    BY <1>2, <2>6, <2>7
  <2>9. Coming = <<>> /\ \A p \in Publishers : ~Unsent(p)
    BY <2>1 DEF Coming, InFlight, Unsent, Live, At, Resting
  <2>10. shown = face
    BY <1>0, <2>8, <2>9, EndsWithNothing DEF Settles
  <2>11. InStep(face)
    BY <2>1 DEF ClearInv
  <2>12. face = Woken
    <3>1. face.active = FALSE /\ face.expression = "sleeping"
      BY <1>0, <2>1, <2>10, <2>11, FaceFields DEF InStep
    <3> QED BY <1>0, <3>1, FaceFields DEF Woken
  <2>13. shown' = Awake
    BY <2>1, <2>10, <2>12 DEF Woken, Awake
  <2> QED BY <2>1, <2>5, <2>12, <2>13 DEF ClaimInv
<1>18. CASE OnBatteryHealth
  <2>1. /\ UNCHANGED <<worker, wire>> /\ protective /\ Reply("request_snapshot")
    BY <1>0, <1>18 DEF OnBatteryHealth, ronSide
  <2>2. Up /\ worker.at = "loop"
    BY <1>0, <2>1 DEF Up
  <2>3. uplink' = Append(uplink, "request_snapshot")
    <3>1. computerConnected /\ Current /\ Breaks(wire) = {}
      BY <2>1, <2>2, WireFields DEF UpInv, Current, Breaks, IsMark
    <3> QED BY <2>1, <3>1 DEF Reply
  <2>4. "request_snapshot" \in Answers
    BY DEF Answers
  <2> QED BY <1>0, <2>3, <2>4, AnswersOnTheirWay DEF Requested
<1>19. CASE UNCHANGED tabletVars
  <2>1. UNCHANGED <<face, publisher, worker, muddled, protective, uplink, wire, pending, lastReliable, shown>>
    BY <1>19 DEF tabletVars, ronSide, tabletSide
  <2>2. Believed /\ (WakeOnItsWay' <=> WakeOnItsWay)
    BY <1>0, <1>3, <2>1 DEF Believed, PendingLocked, At
  <2>3. CASE WakeOnItsWay
    BY <2>1, <2>2, <2>3 DEF ClaimInv
  <2>4. CASE ~WakeOnItsWay
    <3>1. PICK g \in FaceStates : EndsAs(Coming, lastReliable, shown, g) /\ Settles(g)
      BY <1>2, <2>2, <2>4
    <3>2. Coming' = Coming
      BY <2>1 DEF Coming
    <3>3. Settles(g)'
      BY <2>1, <3>1, <3>2, SettlesUnchanged
    <3> QED BY <1>1, <2>1, <2>2, <2>4, <3>1, <3>2, <3>3
  <2> QED BY <2>3, <2>4
<1> QED BY <1>6, <1>7, <1>8, <1>9, <1>10, <1>11, <1>12, <1>13, <1>14, <1>15, <1>16, <1>17, <1>18, <1>19
        DEF TabletNext

TabletInv == TabletTypeOK /\ UpInv /\ MarksInv /\ NumInv /\ ClearInv /\ ClaimInv

LEMMA TabletInitially == TabletInit => TabletInv
<1> SUFFICES ASSUME TabletInit PROVE TabletInv
  OBVIOUS
<1>1. TabletTypeOK
  BY TabletInitiallyTyped
<1>2. /\ worker.at = "down" /\ wire = <<>> /\ uplink = <<>> /\ pending = <<>> /\ ~computerConnected
      /\ face = Awake /\ \A p \in Publishers : publisher[p] = Resting
  BY DEF TabletInit
<1>3. UpInv /\ MarksInv
  BY <1>2 DEF UpInv, MarksInv, Up
<1>4. NumInv
  BY <1>2 DEF NumInv, At, Resting
<1>5. ClearInv
  BY <1>2 DEF ClearInv, At, Resting, InStep, Awake, WakeOnItsWay
<1>6. ClaimInv
  BY <1>2 DEF ClaimInv, Believed
<1> QED BY <1>1, <1>3, <1>4, <1>5, <1>6 DEF TabletInv

LEMMA TabletPreserved == TabletInv /\ [TabletNext]_tabletVars => TabletInv'
<1> SUFFICES ASSUME TabletInv, [TabletNext]_tabletVars PROVE TabletInv'
  OBVIOUS
<1>1. TabletTypeOK'
  BY TabletStepKeepsTypes DEF TabletInv
<1>2. NumInv' /\ UpInv' /\ MarksInv'
  BY <1>1, NumStep, LinkStep DEF TabletInv
<1>3. ClearInv'
  BY <1>1, ClearKept DEF TabletInv
<1>4. ClaimInv'
  BY <1>1, <1>2, <1>3, ClaimKept DEF TabletInv
<1> QED BY <1>1, <1>2, <1>3, <1>4 DEF TabletInv

LEMMA TabletInvariant == TabletSpec => []TabletInv
BY TabletInitially, TabletPreserved, PTL DEF TabletSpec

\* Types: the bridge's queue never holds more than its capacity, and both ends of
\* the link stay in the states the code gives them (display/tablet_server.py,
\* display/tablet_client.py).
THEOREM TabletTypeCorrect == TabletSpec => []TabletTypeOK
<1>1. TabletInv => TabletTypeOK
  BY DEF TabletInv
<1> QED BY <1>1, TabletInvariant, PTL

\* Resynchronisation: however publications, drops from the full queue, lost links,
\* restarts, snapshots and taps followed each other, once nothing is on its way
\* in either direction and the worker waits for work, the tablet shows the face
\* Ron wants, unless publications overlapped in one of the ways Overlap names or
\* the tablet protects itself (display/tablet_client.py, SignalServer.java).
THEOREM FaceIsResynchronised == TabletSpec => []ResynchronisedFace
<1>1. ASSUME TabletInv PROVE ResynchronisedFace
  <2> SUFFICES ASSUME Settled, ~muddled, ~protective PROVE shown = face
    BY DEF ResynchronisedFace
  <2>1. worker.at = "loop" /\ uplink = <<>> /\ wire = <<>> /\ pending = <<>> /\ ~PendingLocked
        /\ \A p \in Publishers : publisher[p] = Resting
    BY DEF Settled, InFlight, Reading
  <2>2. Believed /\ ~WakeOnItsWay /\ Coming = <<>>
    BY <2>1 DEF Believed, Requested, WakeOnItsWay, Coming
  <2>3. PICK g \in FaceStates : EndsAs(Coming, lastReliable, shown, g) /\ Settles(g)
    BY <1>1, <2>2 DEF TabletInv, ClaimInv
  <2>4. shown \in FaceStates
    BY <1>1 DEF TabletInv, TabletTypeOK
  <2>5. g = shown
    BY <2>2, <2>3, <2>4, EndsWithNothing
  <2>6. ASSUME NEW p \in Publishers PROVE ~Unsent(p)
    <3>1. publisher[p].at = "rest"
      BY <2>1 DEF Resting
    <3> QED BY <3>1 DEF Unsent, Live, At
  <2> QED BY <2>3, <2>5, <2>6 DEF Settles
<1> QED BY <1>1, TabletInvariant, PTL


(***************************************************************************)
(* AudioCapture: one timeline.                                             *)
(***************************************************************************)

\* A set of numbers between bounds that is not empty has a least one: the one
\* with the smallest set of members below it.
LEMMA LeastExists ==
  ASSUME NEW m \in Int, NEW n \in Int, NEW T, T \subseteq m..n, T # {}
  PROVE  \E t \in T : \A u \in T : t <= u
<1> DEFINE Lower(t) == {u \in T : u < t}
           family == {Lower(t) : t \in T}
<1>0. IsFiniteSet(T)
  BY FS_Interval, FS_Subset
<1>1. family \subseteq FiniteSubsetsOf(T) /\ family # {}
  <2>1. ASSUME NEW t \in T PROVE Lower(t) \in SUBSET T /\ IsFiniteSet(Lower(t))
    <3>1. Lower(t) \in SUBSET T
      OBVIOUS
    <3> HIDE DEF Lower
    <3> QED BY <1>0, <3>1, FS_Subset
  <2>2. family # {}
    OBVIOUS
  <2> QED BY <2>1, <2>2 DEF FiniteSubsetsOf
<1>2. PICK A \in family : \A B \in family : ~(<<B, A>> \in StrictSubsetOrdering(T))
  <2> HIDE DEF family
  <2> QED BY <1>0, <1>1, FS_StrictSubsetOrderingWellFounded, WFMin
<1>3. PICK t \in T : A = Lower(t)
  OBVIOUS
<1>4. ASSUME NEW u \in T, u < t PROVE FALSE
  <2>1. ASSUME NEW v \in Lower(u) PROVE v \in Lower(t)
    BY <1>4, v < u, v \in Int, u \in Int, t \in Int
  <2>2. u \in Lower(t) /\ u \notin Lower(u)
    BY <1>4, u \in Int
  <2>3. <<Lower(u), A>> \in StrictSubsetOrdering(T)
    BY <2>1, <2>2, <1>3 DEF StrictSubsetOrdering
  <2> QED BY <1>2, <2>3
<1> QED BY <1>4, t \in Int, \A u \in T : u \in Int

\* A set that has the first number and with each number the next one has all.
LEMMA AllOfThem ==
  ASSUME NEW m \in Int, NEW n \in Int, NEW B,
         m <= n => m \in B, \A i \in m..n - 1 : i \in B => i + 1 \in B
  PROVE  m..n \subseteq B
<1> SUFFICES ASSUME (m..n) \ B # {} PROVE FALSE
  OBVIOUS
<1>1. PICK t \in (m..n) \ B : \A u \in (m..n) \ B : t <= u
  BY LeastExists
<1>2. t # m /\ t - 1 \in m..n - 1
  BY <1>1
<1>3. t - 1 \in B
  BY <1>1, <1>2
<1> QED BY <1>1, <1>2, <1>3

-----------------------------------------------------------------------------
\* Where each chunk of the ring ends in the sequence the chunks make up.
Tiling(chunks, whole, o) ==
  /\ o \in [0..Len(chunks) -> Nat]
  /\ o[0] = 0 /\ o[Len(chunks)] = Len(whole)
  /\ \A i, j \in 0..Len(chunks) : i <= j => o[i] <= o[j]
  /\ \A i \in 1..Len(chunks) :
       /\ o[i] = o[i - 1] + Len(chunks[i])
       /\ \A j \in 1..Len(chunks[i]) : chunks[i][j] = whole[o[i - 1] + j]

Tiles(chunks, whole) == \E o : Tiling(chunks, whole, o)

\* The first n of a sequence.
LEMMA LeadingPart ==
  ASSUME NEW X, NEW s \in Seq(X), NEW n \in Nat, n <= Len(s)
  PROVE  /\ SubSeq(s, 1, n) \in Seq(X) /\ Len(SubSeq(s, 1, n)) = n
         /\ \A k \in 1..n : SubSeq(s, 1, n)[k] = s[k]
  OBVIOUS

LEMMA TilingPart ==
  ASSUME NEW X, NEW chunks \in Seq(Seq(X)), NEW whole \in Seq(X), NEW o,
         Tiling(chunks, whole, o), NEW i \in 1..Len(chunks)
  PROVE  /\ o[i] \in 0..Len(whole) /\ o[i - 1] \in 0..o[i]
         /\ SubSeq(whole, 1, o[i]) = SubSeq(whole, 1, o[i - 1]) \o chunks[i]
<1>1. /\ Len(chunks) \in Nat /\ i \in 0..Len(chunks) /\ i - 1 \in 0..Len(chunks)
      /\ Len(chunks) \in 0..Len(chunks)
      /\ chunks[i] \in Seq(X) /\ Len(whole) \in Nat
      /\ \A k \in 1..Len(whole) : whole[k] \in X
  OBVIOUS
<1>2. /\ o[i] \in Nat /\ o[i - 1] \in Nat /\ o[i] <= Len(whole) /\ o[i - 1] <= o[i]
      /\ o[i] = o[i - 1] + Len(chunks[i])
      /\ \A j \in 1..Len(chunks[i]) : chunks[i][j] = whole[o[i - 1] + j]
  <2>1. /\ o \in [0..Len(chunks) -> Nat] /\ o[Len(chunks)] = Len(whole)
        /\ \A k, l \in 0..Len(chunks) : k <= l => o[k] <= o[l]
    BY DEF Tiling
  <2>2. /\ o[i] = o[i - 1] + Len(chunks[i])
        /\ \A j \in 1..Len(chunks[i]) : chunks[i][j] = whole[o[i - 1] + j]
    BY DEF Tiling
  <2>3. i <= Len(chunks) /\ i - 1 <= i
    BY <1>1
  <2>4. o[i] <= o[Len(chunks)] /\ o[i - 1] <= o[i]
    BY <1>1, <2>1, <2>3
  <2> QED BY <1>1, <2>1, <2>2, <2>4
<1> DEFINE a == o[i - 1]
           b == o[i]
           c == chunks[i]
<1>3. /\ a \in Nat /\ b \in Nat /\ a <= b /\ b <= Len(whole) /\ b = a + Len(c) /\ c \in Seq(X)
      /\ Len(c) \in Nat
      /\ \A j \in 1..Len(c) : c[j] = whole[a + j]
  BY <1>1, <1>2
<1> HIDE DEF a, b, c
<1>4. /\ SubSeq(whole, 1, b) \in Seq(X) /\ Len(SubSeq(whole, 1, b)) = b
      /\ \A k \in 1..b : SubSeq(whole, 1, b)[k] = whole[k]
      /\ SubSeq(whole, 1, a) \in Seq(X) /\ Len(SubSeq(whole, 1, a)) = a
      /\ \A k \in 1..a : SubSeq(whole, 1, a)[k] = whole[k]
  <2>1. whole \in Seq(X) /\ a \in Nat /\ b \in Nat /\ a <= Len(whole) /\ b <= Len(whole)
    BY <1>1, <1>3
  <2>2. /\ SubSeq(whole, 1, b) \in Seq(X) /\ Len(SubSeq(whole, 1, b)) = b
        /\ \A k \in 1..b : SubSeq(whole, 1, b)[k] = whole[k]
    BY <2>1, LeadingPart, Zenon
  <2>3. /\ SubSeq(whole, 1, a) \in Seq(X) /\ Len(SubSeq(whole, 1, a)) = a
        /\ \A k \in 1..a : SubSeq(whole, 1, a)[k] = whole[k]
    BY <2>1, LeadingPart, Zenon
  <2> QED BY <2>2, <2>3
<1>5. /\ SubSeq(whole, 1, a) \o c \in Seq(X) /\ Len(SubSeq(whole, 1, a) \o c) = b
      /\ \A k \in 1..b : (SubSeq(whole, 1, a) \o c)[k] =
                           IF k <= a THEN SubSeq(whole, 1, a)[k] ELSE c[k - a]
  <2> DEFINE first == SubSeq(whole, 1, a)
  <2>1. first \in Seq(X) /\ Len(first) = a /\ c \in Seq(X) /\ b = a + Len(c)
    BY <1>3, <1>4
  <2> HIDE DEF first
  <2>2. /\ first \o c \in Seq(X) /\ Len(first \o c) = Len(first) + Len(c)
        /\ \A k \in 1..Len(first) + Len(c) :
             (first \o c)[k] = IF k <= Len(first) THEN first[k] ELSE c[k - Len(first)]
    BY <2>1, ConcatProperties
  <2> QED BY <2>1, <2>2 DEF first
<1>6. ASSUME NEW k \in 1..b
      PROVE  SubSeq(whole, 1, b)[k] = (SubSeq(whole, 1, a) \o c)[k]
  <2>1. CASE k <= a
    BY <1>3, <1>4, <1>5, <2>1
  <2>2. CASE k > a
    <3>1. k - a \in 1..Len(c) /\ a + (k - a) = k
      BY <1>3, <2>2
    <3> QED BY <1>3, <1>4, <1>5, <2>2, <3>1
  <2> QED BY <1>3, <2>1, <2>2
<1>7. SubSeq(whole, 1, b) = SubSeq(whole, 1, a) \o c
  BY <1>4, <1>5, <1>6, SeqEqual
<1>8. b \in 0..Len(whole) /\ a \in 0..b
  BY <1>1, <1>3
<1> QED BY <1>7, <1>8 DEF a, b, c

\* The chunks of a tiling, put together, are the sequence.
LEMMA FlattenIs ==
  ASSUME NEW X, NEW chunks \in Seq(Seq(X)), NEW whole \in Seq(X),
         Tiles(chunks, whole)
  PROVE  FlattenSeq(chunks) = whole
<1> DEFINE n == Len(chunks)
<1>0. PICK o : Tiling(chunks, whole, o)
  BY DEF Tiles
<1>1. n \in Nat /\ Len(whole) \in Nat
  OBVIOUS
<1>2. CASE n = 0
  <2>1. Len(whole) = 0
    BY <1>0, <1>2 DEF Tiling
  <2> QED BY <1>2, <2>1 DEF FlattenSeq
<1>3. CASE n # 0
  <2> DEFINE F(f) == f = [i \in 1..n |-> IF i = 1 THEN chunks[i] ELSE f[i - 1] \o chunks[i]]
             g == [i \in 1..n |-> SubSeq(whole, 1, o[i])]
             f == CHOOSE f : F(f)
  <2>1. \A i \in 1..n : SubSeq(whole, 1, o[i]) = IF i = 1 THEN chunks[i] ELSE SubSeq(whole, 1, o[i - 1]) \o chunks[i]
    <3>1. ASSUME NEW i \in 1..n
          PROVE  SubSeq(whole, 1, o[i]) = IF i = 1 THEN chunks[i] ELSE SubSeq(whole, 1, o[i - 1]) \o chunks[i]
      <4>1. SubSeq(whole, 1, o[i]) = SubSeq(whole, 1, o[i - 1]) \o chunks[i]
        BY <1>0, TilingPart
      <4>2. CASE i = 1
        <5>1. o[i - 1] = 0
          BY <1>0, <4>2 DEF Tiling
        <5>2. SubSeq(whole, 1, o[i - 1]) = <<>>
          BY <5>1, SubSeqEmpty
        <5>3. chunks[i] \in Seq(X)
          OBVIOUS
        <5> QED BY <4>1, <4>2, <5>2, <5>3, ConcatEmptySeq
      <4> QED BY <4>1, <4>2
    <3> QED BY <3>1
  <2>2. F(g)
    <3>1. ASSUME NEW i \in 1..n, i # 1 PROVE g[i - 1] = SubSeq(whole, 1, o[i - 1])
      <4>1. i - 1 \in 1..n
        BY <1>1, <3>1
      <4> QED BY <4>1
    <3>2. \A i \in 1..n : SubSeq(whole, 1, o[i]) = IF i = 1 THEN chunks[i] ELSE g[i - 1] \o chunks[i]
      <4> HIDE DEF g
      <4> QED BY <2>1, <3>1
    <3> QED BY <3>2
  <2>3. F(f)
    <3> HIDE DEF F, g
    <3> QED BY <2>2
  <2>4. FlattenSeq(chunks) = f[n]
    BY <1>3 DEF FlattenSeq
  <2>5. /\ f[1] = chunks[1]
        /\ \A i \in 1..n : i # 1 => f[i] = f[i - 1] \o chunks[i]
    <3>1. f = [i \in 1..n |-> IF i = 1 THEN chunks[i] ELSE f[i - 1] \o chunks[i]]
      <4> HIDE DEF f
      <4> QED BY <2>3 DEF F
    <3>2. 1 \in 1..n
      BY <1>1, <1>3
    <3> HIDE DEF f, n, F, g
    <3> QED BY <3>1, <3>2
  <2>6. 1..n \subseteq {i \in 1..n : f[i] = SubSeq(whole, 1, o[i])}
    <3> HIDE DEF f, g
    <3> DEFINE B == {i \in 1..n : f[i] = SubSeq(whole, 1, o[i])}
    <3>1. 1 \in B
      BY <1>1, <1>3, <2>1, <2>5
    <3>2. ASSUME NEW i \in 1..n - 1, i \in B PROVE i + 1 \in B
      <4>1. i + 1 \in 1..n /\ i + 1 # 1 /\ (i + 1) - 1 = i
        BY <1>1
      <4>2. f[i + 1] = f[i] \o chunks[i + 1]
        BY <2>5, <4>1
      <4>3. SubSeq(whole, 1, o[i + 1]) = SubSeq(whole, 1, o[i]) \o chunks[i + 1]
        BY <2>1, <4>1
      <4> QED BY <3>2, <4>1, <4>2, <4>3
    <3> HIDE DEF B, n
    <3>3. 1..n \subseteq B
      <4>1. n \in Int /\ 1 \in Int
        BY <1>1
      <4>2. \A i \in 1..n - 1 : i \in B => i + 1 \in B
        BY <3>2
      <4>3. 1 <= n => 1 \in B
        BY <3>1
      <4> QED BY <4>1, <4>2, <4>3, AllOfThem
    <3> QED BY <3>3 DEF B
  <2>7. f[n] = SubSeq(whole, 1, o[n])
    <3>1. n \in 1..n
      BY <1>1, <1>3
    <3> HIDE DEF f, n
    <3> QED BY <2>6, <3>1
  <2>8. o[n] = Len(whole)
    BY <1>0 DEF Tiling
  <2> QED BY <2>4, <2>7, <2>8, SubSeqFull
<1> QED BY <1>2, <1>3

\* The first chunks are a tiling of the sequence up to where they end.
LEMMA TilingLeading ==
  ASSUME NEW X, NEW chunks \in Seq(Seq(X)), NEW whole \in Seq(X), NEW o,
         Tiling(chunks, whole, o), NEW n \in 0..Len(chunks)
  PROVE  Length(SubSeq(chunks, 1, n)) = o[n]
<1> DEFINE leading == SubSeq(chunks, 1, n)
           part == SubSeq(whole, 1, o[n])
           p == [i \in 0..n |-> o[i]]
<1>1. /\ Len(chunks) \in Nat /\ Len(whole) \in Nat /\ n \in Nat /\ n <= Len(chunks)
      /\ 0 \in 0..Len(chunks) /\ Len(chunks) \in 0..Len(chunks)
      /\ \A k \in 1..Len(whole) : whole[k] \in X
      /\ \A k \in 1..Len(chunks) : chunks[k] \in Seq(X)
  OBVIOUS
<1>2. /\ o \in [0..Len(chunks) -> Nat] /\ o[0] = 0 /\ o[Len(chunks)] = Len(whole)
      /\ \A k, l \in 0..Len(chunks) : k <= l => o[k] <= o[l]
      /\ \A i \in 1..Len(chunks) :
           /\ o[i] = o[i - 1] + Len(chunks[i])
           /\ \A j \in 1..Len(chunks[i]) : chunks[i][j] = whole[o[i - 1] + j]
  BY DEF Tiling
<1>3. o[n] \in Nat /\ o[n] <= Len(whole)
  <2>1. n \in 0..Len(chunks) /\ n <= Len(chunks) /\ Len(chunks) \in 0..Len(chunks)
    BY <1>1
  <2>2. o[n] <= o[Len(chunks)]
    BY <1>2, <2>1
  <2> QED BY <1>2, <2>1, <2>2
<1>4. /\ part \in Seq(X) /\ Len(part) = o[n]
      /\ \A k \in 1..o[n] : part[k] = whole[k]
  BY <1>1, <1>3
<1>5. /\ leading \in Seq(Seq(X)) /\ Len(leading) = n
      /\ \A k \in 1..n : leading[k] = chunks[k]
  BY <1>1
<1>6. /\ p \in [0..n -> Nat]
      /\ \A i \in 0..n : p[i] = o[i]
  <2>1. \A i \in 0..n : i \in 0..Len(chunks)
    BY <1>1
  <2>2. \A i \in 0..n : o[i] \in Nat
    BY <1>2, <2>1
  <2> QED BY <2>2
<1> HIDE DEF leading, part, p
<1>7. ASSUME NEW i \in 1..n
      PROVE  /\ p[i] = p[i - 1] + Len(leading[i])
             /\ \A j \in 1..Len(leading[i]) : leading[i][j] = part[p[i - 1] + j]
  <2>1. i \in 1..Len(chunks) /\ i - 1 \in 0..n /\ i \in 0..n /\ i \in 0..Len(chunks)
        /\ i - 1 \in 0..Len(chunks) /\ n \in 0..Len(chunks) /\ i <= n
    BY <1>1
  <2>2. /\ o[i] = o[i - 1] + Len(chunks[i]) /\ o[i] <= o[n]
        /\ o[i - 1] \in Nat /\ Len(chunks[i]) \in Nat /\ o[i] \in Nat
        /\ \A j \in 1..Len(chunks[i]) : chunks[i][j] = whole[o[i - 1] + j]
    <3>1. chunks[i] \in Seq(X)
      BY <1>1, <2>1
    <3>2. o[i] <= o[n] /\ o[i] \in Nat /\ o[i - 1] \in Nat
      BY <1>2, <2>1
    <3> QED BY <1>2, <2>1, <3>1, <3>2
  <2>3. leading[i] = chunks[i] /\ p[i] = o[i] /\ p[i - 1] = o[i - 1]
    BY <1>5, <1>6, <2>1
  <2>4. ASSUME NEW j \in 1..Len(chunks[i]) PROVE chunks[i][j] = part[o[i - 1] + j]
    <3>1. o[i - 1] + j \in 1..o[n]
      <4> DEFINE a == o[i - 1]
                 b == o[i]
                 c == o[n]
                 l == Len(chunks[i])
      <4>1. a \in Nat /\ b \in Nat /\ c \in Nat /\ l \in Nat /\ b = a + l /\ b <= c /\ j \in 1..l
        BY <1>3, <2>2
      <4> HIDE DEF a, b, c, l
      <4>2. a + j \in 1..c
        BY <4>1
      <4> QED BY <4>2 DEF a, c
    <3> QED BY <1>4, <2>2, <3>1
  <2> QED BY <2>2, <2>3, <2>4
<1>8. \A k, l \in 0..n : k <= l => p[k] <= p[l]
  <2>1. \A k \in 0..n : k \in 0..Len(chunks)
    BY <1>1
  <2> QED BY <1>2, <1>6, <2>1
<1>9. p[0] = 0 /\ p[n] = Len(part)
  BY <1>1, <1>2, <1>4, <1>6
<1>10. Tiling(leading, part, p)
  BY <1>5, <1>6, <1>7, <1>8, <1>9 DEF Tiling
<1>11. FlattenSeq(leading) = part
  BY <1>4, <1>5, <1>10, FlattenIs DEF Tiles
<1> QED BY <1>4, <1>11 DEF Length, leading

LEMMA TilingEmpty == Tiles(<<>>, <<>>)
<1> DEFINE o == [i \in 0..0 |-> 0]
<1>1. Tiling(<<>>, <<>>, o)
  BY DEF Tiling
<1> QED BY <1>1 DEF Tiles

LEMMA TilesOne ==
  ASSUME NEW X, NEW chunk \in Seq(X)
  PROVE  Tiles(<<chunk>>, chunk)
<1> DEFINE o == [i \in 0..1 |-> IF i = 0 THEN 0 ELSE Len(chunk)]
<1>1. /\ Len(<<chunk>>) = 1 /\ <<chunk>>[1] = chunk /\ Len(chunk) \in Nat
  OBVIOUS
<1>2. o \in [0..1 -> Nat] /\ o[0] = 0 /\ o[1] = Len(chunk)
  BY <1>1
<1> HIDE DEF o
<1>3. \A i, j \in 0..1 : i <= j => o[i] <= o[j]
  BY <1>1, <1>2
<1>4. ASSUME NEW i \in 1..1
      PROVE  /\ o[i] = o[i - 1] + Len(<<chunk>>[i])
             /\ \A j \in 1..Len(<<chunk>>[i]) : <<chunk>>[i][j] = chunk[o[i - 1] + j]
  <2>1. i = 1 /\ i - 1 = 0
    OBVIOUS
  <2>2. \A j \in 1..Len(chunk) : 0 + j = j
    BY <1>1
  <2> QED BY <1>1, <1>2, <2>1, <2>2
<1>5. Tiling(<<chunk>>, chunk, o)
  BY <1>1, <1>2, <1>3, <1>4 DEF Tiling
<1> QED BY <1>5 DEF Tiles

\* A chunk more.
LEMMA TilesAppended ==
  ASSUME NEW X, NEW chunks \in Seq(Seq(X)), NEW whole \in Seq(X), NEW chunk \in Seq(X),
         Tiles(chunks, whole)
  PROVE  Tiles(Append(chunks, chunk), whole \o chunk)
<1>0. PICK o : Tiling(chunks, whole, o)
  BY DEF Tiles
<1> DEFINE n == Len(chunks)
           more == Append(chunks, chunk)
           longer == whole \o chunk
           p == [i \in 0..n + 1 |-> IF i = n + 1 THEN Len(longer) ELSE o[i]]
<1>1. /\ n \in Nat /\ Len(whole) \in Nat /\ Len(chunk) \in Nat
      /\ more \in Seq(Seq(X)) /\ Len(more) = n + 1
      /\ \A i \in 1..n : more[i] = chunks[i] /\ chunks[i] \in Seq(X)
      /\ more[n + 1] = chunk
  OBVIOUS
<1>2. /\ longer \in Seq(X) /\ Len(longer) = Len(whole) + Len(chunk)
      /\ \A i \in 1..Len(whole) + Len(chunk) :
           longer[i] = IF i <= Len(whole) THEN whole[i] ELSE chunk[i - Len(whole)]
  BY ConcatProperties
<1>3. /\ o \in [0..n -> Nat] /\ o[0] = 0 /\ o[n] = Len(whole)
      /\ \A k, l \in 0..n : k <= l => o[k] <= o[l]
      /\ \A i \in 1..n :
           /\ o[i] = o[i - 1] + Len(chunks[i])
           /\ \A j \in 1..Len(chunks[i]) : chunks[i][j] = whole[o[i - 1] + j]
  BY <1>0 DEF Tiling
<1> HIDE DEF longer, more, n
<1>4. /\ p \in [0..n + 1 -> Nat] /\ p[n + 1] = Len(longer)
      /\ \A i \in 0..n : p[i] = o[i] /\ o[i] <= Len(whole) /\ o[i] \in Nat
  <2>1. \A i \in 0..n : i \in 0..n + 1 /\ i # n + 1 /\ i <= n /\ n \in 0..n
    BY <1>1
  <2>2. n + 1 \in 0..n + 1 /\ \A i \in 0..n + 1 : i = n + 1 \/ i \in 0..n
    BY <1>1
  <2>3. Len(longer) \in Nat
    BY <1>1, <1>2
  <2> QED BY <1>3, <2>1, <2>2, <2>3
<1> HIDE DEF p
<1>5. ASSUME NEW k \in 0..n + 1, NEW l \in 0..n + 1, k <= l PROVE p[k] <= p[l]
  <2>1. CASE l = n + 1
    <3>1. k = n + 1 \/ k \in 0..n
      BY <1>1
    <3>2. Len(longer) \in Nat /\ Len(whole) <= Len(longer)
      BY <1>1, <1>2
    <3>3. CASE k = n + 1
      BY <2>1, <3>2, <3>3, <1>4
    <3>4. CASE k \in 0..n
      <4>1. p[k] = o[k] /\ o[k] <= Len(whole) /\ o[k] \in Nat /\ p[l] = Len(longer)
        BY <1>4, <2>1, <3>4
      <4> QED BY <1>1, <3>2, <4>1
    <3> QED BY <3>1, <3>3, <3>4
  <2>2. CASE l # n + 1
    <3>1. k \in 0..n /\ l \in 0..n
      BY <1>1, <1>5, <2>2
    <3> QED BY <1>3, <1>4, <1>5, <3>1
  <2> QED BY <2>1, <2>2
<1>6. ASSUME NEW i \in 1..n + 1
      PROVE  /\ p[i] = p[i - 1] + Len(more[i])
             /\ \A j \in 1..Len(more[i]) : more[i][j] = longer[p[i - 1] + j]
  <2>1. CASE i = n + 1
    <3>1. more[i] = chunk /\ i - 1 = n /\ n \in 0..n
      BY <1>1, <2>1
    <3>2. p[i - 1] = Len(whole) /\ p[i] = Len(whole) + Len(chunk)
      BY <1>2, <1>3, <1>4, <2>1, <3>1
    <3>3. ASSUME NEW j \in 1..Len(chunk) PROVE chunk[j] = longer[Len(whole) + j]
      <4>1. /\ Len(whole) + j \in 1..Len(whole) + Len(chunk) /\ ~(Len(whole) + j <= Len(whole))
            /\ (Len(whole) + j) - Len(whole) = j
        BY <1>1
      <4> QED BY <1>2, <4>1
    <3> QED BY <3>1, <3>2, <3>3
  <2>2. CASE i # n + 1
    <3>1. i \in 1..n /\ i \in 0..n /\ i - 1 \in 0..n
      BY <1>1, <2>2
    <3>2. more[i] = chunks[i] /\ p[i] = o[i] /\ p[i - 1] = o[i - 1] /\ chunks[i] \in Seq(X)
      BY <1>1, <1>4, <3>1
    <3>3. /\ o[i] = o[i - 1] + Len(chunks[i]) /\ o[i] <= Len(whole) /\ o[i - 1] \in Nat
          /\ Len(chunks[i]) \in Nat
          /\ \A j \in 1..Len(chunks[i]) : chunks[i][j] = whole[o[i - 1] + j]
      BY <1>3, <1>4, <3>1, <3>2, SMTT(30)
    <3>4. ASSUME NEW j \in 1..Len(chunks[i]) PROVE chunks[i][j] = longer[o[i - 1] + j]
      <4>1. o[i - 1] + j \in 1..Len(whole) + Len(chunk) /\ o[i - 1] + j <= Len(whole)
        BY <1>1, <3>3, SMTT(30)
      <4> QED BY <1>2, <3>3, <4>1
    <3> QED BY <3>2, <3>3, <3>4
  <2> QED BY <2>1, <2>2
<1>7. p[0] = 0
  BY <1>1, <1>3, <1>4
<1>8. Tiling(more, longer, p)
  BY <1>1, <1>4, <1>5, <1>6, <1>7 DEF Tiling
<1> QED BY <1>8 DEF Tiles, more, longer

\* The loop gives up as much at the front as there is too much.
LEMMA TilesDropped ==
  ASSUME NEW X, NEW chunks \in Seq(Seq(X)), NEW whole \in Seq(X),
         Tiles(chunks, whole), MaximumSamples \in Nat \ {0},
         NEW e, e = Len(whole) - MaximumSamples, e > 0
  PROVE  /\ DropExcess(chunks) \in Seq(Seq(X))
         /\ Tiles(DropExcess(chunks), SubSeq(whole, e + 1, Len(whole)))
         /\ (\A i \in DOMAIN chunks : chunks[i] # <<>>)
              => \A i \in DOMAIN DropExcess(chunks) : DropExcess(chunks)[i] # <<>>
<1>0. PICK o : Tiling(chunks, whole, o)
  BY DEF Tiles
<1> DEFINE n == Len(chunks)
           Leading(k) == Length(SubSeq(chunks, 1, k))
           g == CHOOSE k \in 0..(n - 1) : Leading(k) <= e /\ Leading(k + 1) > e
<1>1. /\ n \in Nat /\ Len(whole) \in Nat /\ DOMAIN chunks = 1..n
      /\ \A i \in 1..n : chunks[i] \in Seq(X)
      /\ \A k \in 1..Len(whole) : whole[k] \in X
  OBVIOUS
<1>2. /\ o \in [0..n -> Nat] /\ o[0] = 0 /\ o[n] = Len(whole)
      /\ \A k, l \in 0..n : k <= l => o[k] <= o[l]
      /\ \A i \in 1..n :
           /\ o[i] = o[i - 1] + Len(chunks[i])
           /\ \A j \in 1..Len(chunks[i]) : chunks[i][j] = whole[o[i - 1] + j]
  BY <1>0 DEF Tiling
<1>3. \A k \in 0..n : Leading(k) = o[k]
  BY <1>0, TilingLeading
<1>4. Length(chunks) = Len(whole)
  BY FlattenIs DEF Length
<1>5. e \in Nat /\ e < Len(whole)
  BY <1>1
<1> HIDE DEF n, Leading
<1>6. \E k \in 0..(n - 1) : Leading(k) <= e /\ Leading(k + 1) > e
  <2> DEFINE T == {k \in 0..n : o[k] > e}
  <2>1. n \in T /\ T \subseteq 0..n
    BY <1>1, <1>2, <1>5
  <2> HIDE DEF T
  <2>2. PICK k \in T : \A l \in T : k <= l
    <3>1. 0 \in Int /\ n \in Int /\ T # {}
      BY <1>1, <2>1
    <3> QED BY <2>1, <3>1, LeastExists
  <2>3. k \in 0..n /\ o[k] > e
    BY <2>2 DEF T
  <2>4. k # 0
    BY <1>2, <1>5, <2>3
  <2>5. k - 1 \in 0..(n - 1) /\ k - 1 \in 0..n /\ (k - 1) + 1 = k /\ ~(k <= k - 1)
    BY <1>1, <2>3, <2>4
  <2>6. k - 1 \notin T
    BY <2>2, <2>5
  <2>7. o[k - 1] <= e
    <3>1. o[k - 1] \in Nat
      BY <1>2, <2>5
    <3> QED BY <1>5, <2>5, <2>6, <3>1 DEF T
  <2> QED BY <1>3, <2>3, <2>5, <2>7
<1>7. g \in 0..(n - 1) /\ Leading(g) <= e /\ Leading(g + 1) > e
  BY <1>6
<1> HIDE DEF g
<1>8. /\ g \in Nat /\ g \in 0..n /\ g + 1 \in 0..n /\ g + 1 \in 1..n /\ (g + 1) - 1 = g
  BY <1>1, <1>7
<1>9. o[g] \in Nat /\ o[g + 1] \in Nat /\ o[g] <= e /\ e < o[g + 1]
  BY <1>2, <1>3, <1>7, <1>8
<1> DEFINE first == chunks[g + 1]
           d == e - o[g]
           part == SubSeq(first, d + 1, Len(first))
           rest == SubSeq(chunks, g + 2, n)
           left == <<part>> \o rest
           tail == SubSeq(whole, e + 1, Len(whole))
           m == n - g
           p == [i \in 0..m |-> IF i = 0 THEN 0 ELSE o[g + i] - e]
<1>10. DropExcess(chunks) = left
  <2>1. Length(chunks) - MaximumSamples = e
    BY <1>4
  <2>2. ~(e <= 0)
    BY <1>5
  <2>3. Leading(g) = o[g]
    BY <1>3, <1>8
  <2>4. e - o[g] + 1 = d + 1
    OBVIOUS
  <2> QED BY <2>1, <2>2, <2>3, <2>4 DEF DropExcess, g, n, Leading
<1>11. /\ first \in Seq(X) /\ Len(first) \in Nat /\ d \in Nat /\ d < Len(first)
       /\ o[g + 1] = o[g] + Len(first)
       /\ \A j \in 1..Len(first) : first[j] = whole[o[g] + j] /\ first[j] \in X
  <2>1. first \in Seq(X) /\ Len(first) \in Nat /\ \A j \in 1..Len(first) : first[j] \in X
    BY <1>1, <1>8
  <2>2. o[g + 1] = o[g] + Len(first) /\ \A j \in 1..Len(first) : first[j] = whole[o[g] + j]
    BY <1>2, <1>8
  <2> QED BY <1>5, <1>9, <2>1, <2>2, SMTT(30)
<1> HIDE DEF first
<1>12. /\ part \in Seq(X) /\ Len(part) = Len(first) - d
       /\ \A j \in 1..Len(first) - d : part[j] = first[d + j]
  <2>1. \A i \in d + 1..Len(first) : first[i] \in X
    BY <1>11
  <2>2. /\ d + 1 \in Int /\ Len(first) \in Int /\ d + 1 <= Len(first)
        /\ Len(first) - (d + 1) + 1 = Len(first) - d
    BY <1>11
  <2>3. /\ part \in Seq(X) /\ Len(part) = Len(first) - d
        /\ \A j \in 1..Len(first) - d : part[j] = first[(d + 1) + j - 1]
    BY <2>1, <2>2, SubSeqProperties
  <2>4. \A j \in 1..Len(first) - d : (d + 1) + j - 1 = d + j
    BY <1>11
  <2> QED BY <2>3, <2>4
<1>13. /\ rest \in Seq(Seq(X)) /\ Len(rest) = m - 1
       /\ \A i \in 1..m - 1 : rest[i] = chunks[g + 1 + i]
  <2>1. \A i \in g + 2..n : chunks[i] \in Seq(X)
    BY <1>1, <1>8
  <2>2. /\ g + 2 \in Int /\ n \in Int /\ n - (g + 2) + 1 = m - 1
        /\ m - 1 = IF g + 2 <= n THEN n - (g + 2) + 1 ELSE 0
    BY <1>1, <1>7, <1>8
  <2>3. /\ rest \in Seq(Seq(X)) /\ Len(rest) = m - 1
        /\ \A i \in 1..m - 1 : rest[i] = chunks[(g + 2) + i - 1]
    BY <2>1, <2>2, SubSeqProperties, SMTT(30)
  <2>4. \A i \in 1..m - 1 : (g + 2) + i - 1 = g + 1 + i
    BY <1>1, <1>8
  <2> QED BY <2>3, <2>4
<1>14. m \in Nat /\ m >= 1 /\ g + m = n
  BY <1>1, <1>7
<1> HIDE DEF part, rest, m, d
<1>15. /\ left \in Seq(Seq(X)) /\ Len(left) = m
       /\ left[1] = part
       /\ \A i \in 2..m : left[i] = chunks[g + i]
  <2>1. <<part>> \in Seq(Seq(X)) /\ Len(<<part>>) = 1 /\ <<part>>[1] = part
    BY <1>12
  <2>2. /\ left \in Seq(Seq(X)) /\ Len(left) = 1 + (m - 1)
        /\ \A i \in 1..1 + (m - 1) : left[i] = IF i <= 1 THEN <<part>>[i] ELSE rest[i - 1]
    BY <1>13, <2>1, ConcatProperties
  <2>3. 1 + (m - 1) = m
    BY <1>14
  <2>4. ASSUME NEW i \in 2..m PROVE left[i] = chunks[g + i]
    <3>1. i \in 1..m /\ ~(i <= 1) /\ i - 1 \in 1..m - 1 /\ g + 1 + (i - 1) = g + i
      BY <1>8, <1>14
    <3> QED BY <1>13, <2>2, <2>3, <3>1
  <2>5. left[1] = part
    <3>1. 1 \in 1..m /\ 1 <= 1
      BY <1>14
    <3> QED BY <2>1, <2>2, <2>3, <3>1
  <2> QED BY <2>2, <2>3, <2>4, <2>5
<1>16. /\ tail \in Seq(X) /\ Len(tail) = Len(whole) - e
       /\ \A k \in 1..Len(whole) - e : tail[k] = whole[e + k]
  <2>1. \A i \in e + 1..Len(whole) : whole[i] \in X
    BY <1>1, <1>5
  <2>2. /\ e + 1 \in Int /\ Len(whole) \in Int /\ e + 1 <= Len(whole)
        /\ Len(whole) - (e + 1) + 1 = Len(whole) - e
    BY <1>1, <1>5
  <2>3. /\ tail \in Seq(X) /\ Len(tail) = Len(whole) - e
        /\ \A j \in 1..Len(whole) - e : tail[j] = whole[(e + 1) + j - 1]
    BY <2>1, <2>2, SubSeqProperties
  <2>4. \A j \in 1..Len(whole) - e : (e + 1) + j - 1 = e + j
    BY <1>1, <1>5
  <2> QED BY <2>3, <2>4
<1>17. /\ \A i \in 1..m : /\ g + i \in 1..n /\ g + i \in 0..n /\ o[g + i] \in Nat
                          /\ o[g + i] > e /\ o[g + i] <= Len(whole)
  <2> SUFFICES ASSUME NEW i \in 1..m
               PROVE /\ g + i \in 1..n /\ g + i \in 0..n /\ o[g + i] \in Nat
                     /\ o[g + i] > e /\ o[g + i] <= Len(whole)
    OBVIOUS
  <2>1. g + i \in 1..n /\ g + i \in 0..n /\ g + 1 <= g + i /\ g + i <= n /\ n \in 0..n
    BY <1>1, <1>8, <1>14
  <2>2. o[g + i] \in Nat /\ o[g + 1] <= o[g + i] /\ o[g + i] <= o[n]
    BY <1>2, <1>8, <2>1
  <2> QED BY <1>2, <1>5, <1>9, <2>1, <2>2
<1>18. /\ p \in [0..m -> Nat] /\ p[0] = 0
       /\ \A i \in 1..m : p[i] = o[g + i] - e
  <2>1. \A i \in 1..m : o[g + i] - e \in Nat /\ i # 0 /\ i \in 0..m
    BY <1>5, <1>14, <1>17
  <2>2. \A i \in 0..m : i = 0 \/ i \in 1..m
    BY <1>14
  <2>3. 0 \in 0..m
    BY <1>14
  <2> QED BY <2>1, <2>2, <2>3
<1> HIDE DEF left, tail, p
<1>19. p[m] = Len(tail)
  <2>1. m \in 1..m
    BY <1>14
  <2> QED BY <1>2, <1>14, <1>16, <1>18, <2>1
<1>20. ASSUME NEW k \in 0..m, NEW l \in 0..m, k <= l PROVE p[k] <= p[l]
  <2>1. CASE k = 0
    BY <1>18, <2>1
  <2>2. CASE k # 0
    <3>1. k \in 1..m /\ l \in 1..m /\ g + k <= g + l
      BY <1>8, <1>14, <1>20, <2>2
    <3>2. o[g + k] <= o[g + l] /\ o[g + k] \in Nat /\ o[g + l] \in Nat
      BY <1>2, <1>17, <3>1
    <3> QED BY <1>5, <1>18, <3>1, <3>2
  <2> QED BY <2>1, <2>2
<1>21. ASSUME NEW i \in 1..m
       PROVE  /\ p[i] = p[i - 1] + Len(left[i])
              /\ \A j \in 1..Len(left[i]) : left[i][j] = tail[p[i - 1] + j]
  <2>1. CASE i = 1
    <3>1. left[i] = part /\ p[i - 1] = 0 /\ p[i] = o[g + 1] - e
      BY <1>15, <1>18, <2>1
    <3>2. Len(part) = o[g + 1] - e
      BY <1>5, <1>9, <1>11, <1>12, SMTT(30) DEF d
    <3>3. ASSUME NEW j \in 1..Len(part) PROVE part[j] = tail[0 + j]
      <4>1. j \in 1..Len(first) - d /\ d + j \in 1..Len(first) /\ o[g] + (d + j) = e + j
        <5>1. j \in Nat /\ j >= 1 /\ j <= Len(first) - d /\ d = e - o[g]
          BY <1>5, <1>9, <1>11, <1>12 DEF d
        <5> DEFINE b == o[g]
                   l == Len(first)
        <5>2. /\ b \in Int /\ l \in Int /\ d = e - b /\ d \in Nat /\ j <= l - d
              /\ j \in Int /\ j >= 1 /\ e \in Int
          BY <1>5, <1>9, <1>11, <5>1
        <5> HIDE DEF b, l
        <5>3. j \in 1..l - d
          BY <5>2
        <5>4. d + j \in 1..l
          BY <5>2
        <5>5. b + (d + j) = e + j
          BY <5>2
        <5> QED BY <5>3, <5>4, <5>5 DEF b, l
      <4>2. part[j] = whole[e + j]
        BY <1>11, <1>12, <4>1
      <4>3. j \in 1..Len(whole) - e /\ 0 + j = j
        <5>1. o[g + 1] <= Len(whole)
          BY <1>14, <1>17
        <5> QED BY <1>1, <1>5, <1>9, <3>2, <5>1
      <4> QED BY <1>16, <4>2, <4>3
    <3> QED BY <1>5, <1>9, <3>1, <3>2, <3>3
  <2>2. CASE i # 1
    <3>1. /\ i \in 2..m /\ i - 1 \in 1..m /\ g + i \in 1..n /\ (g + i) - 1 = g + (i - 1)
      BY <1>8, <1>14, <1>17, <2>2
    <3>2. /\ left[i] = chunks[g + i] /\ p[i] = o[g + i] - e /\ p[i - 1] = o[g + (i - 1)] - e
      BY <1>15, <1>18, <3>1
    <3>3. /\ o[g + i] = o[g + (i - 1)] + Len(chunks[g + i]) /\ Len(chunks[g + i]) \in Nat
          /\ \A j \in 1..Len(chunks[g + i]) : chunks[g + i][j] = whole[o[g + (i - 1)] + j]
      <4>1. chunks[g + i] \in Seq(X)
        BY <1>1, <3>1
      <4>2. Len(chunks[g + i]) \in Nat
        BY <4>1
      <4> HIDE DEF Tiling
      <4>3. /\ o[g + i] = o[(g + i) - 1] + Len(chunks[g + i])
            /\ \A j \in 1..Len(chunks[g + i]) : chunks[g + i][j] = whole[o[(g + i) - 1] + j]
        BY <1>2, <3>1
      <4> QED BY <3>1, <4>2, <4>3
    <3>4. /\ o[g + i] \in Nat /\ o[g + (i - 1)] \in Nat /\ o[g + (i - 1)] > e
          /\ o[g + i] <= Len(whole)
      BY <1>17, <3>1
    <3>5. ASSUME NEW j \in 1..Len(chunks[g + i])
          PROVE  chunks[g + i][j] = tail[o[g + (i - 1)] - e + j]
      <4>1. /\ o[g + (i - 1)] - e + j \in 1..Len(whole) - e
            /\ e + (o[g + (i - 1)] - e + j) = o[g + (i - 1)] + j
        <5> DEFINE b == o[g + (i - 1)]
                   c == o[g + i]
                   w == Len(whole)
                   l == Len(chunks[g + i])
        <5>1. b \in Nat /\ c \in Nat /\ w \in Nat /\ l \in Nat /\ c = b + l /\ b > e /\ c <= w
              /\ j \in 1..l
          BY <1>1, <3>3, <3>4
        <5> HIDE DEF b, c, w, l
        <5>2. b - e + j \in 1..w - e /\ e + (b - e + j) = b + j
          BY <1>5, <5>1
        <5> QED BY <5>2 DEF b, w
      <4> DEFINE k == o[g + (i - 1)] - e + j
      <4>2. k \in 1..Len(whole) - e /\ e + k = o[g + (i - 1)] + j
        BY <4>1
      <4> HIDE DEF k
      <4>3. tail[k] = whole[o[g + (i - 1)] + j]
        BY <1>16, <4>2
      <4>4. chunks[g + i][j] = tail[k]
        BY <3>3, <4>3
      <4> QED BY <4>4 DEF k
    <3>6. p[i] = p[i - 1] + Len(chunks[g + i])
      <4> DEFINE b == o[g + (i - 1)]
                 c == o[g + i]
                 l == Len(chunks[g + i])
      <4>1. /\ b \in Nat /\ c \in Nat /\ l \in Nat /\ c = b + l /\ p[i] = c - e
            /\ p[i - 1] = b - e
        BY <3>2, <3>3, <3>4
      <4> HIDE DEF b, c, l
      <4>2. p[i] = p[i - 1] + l
        BY <1>5, <4>1
      <4> QED BY <4>2 DEF l
    <3> QED BY <3>2, <3>5, <3>6
  <2> QED BY <2>1, <2>2
<1>22. Tiling(left, tail, p)
  BY <1>15, <1>18, <1>19, <1>20, <1>21 DEF Tiling
<1>23. (\A i \in DOMAIN chunks : chunks[i] # <<>>) => \A i \in DOMAIN left : left[i] # <<>>
  <2>1. DOMAIN left = 1..m /\ part # <<>>
    <3>1. Len(part) > 0
      BY <1>11, <1>12
    <3> QED BY <1>15, <3>1
  <2>2. \A i \in 1..m : i = 1 \/ (i \in 2..m /\ g + i \in 1..n)
    BY <1>14, <1>17
  <2> QED BY <1>1, <1>15, <2>1, <2>2
<1> QED BY <1>10, <1>15, <1>22, <1>23 DEF Tiles, tail

\* The newest samples, as many as the ring may hold.
NewestPart(s) ==
  SubSeq(s, IF Len(s) > MaximumSamples THEN Len(s) - MaximumSamples + 1 ELSE 1, Len(s))

LEMMA NewestPartIs ==
  ASSUME NEW X, NEW s \in Seq(X), MaximumSamples \in Nat \ {0}
  PROVE  /\ NewestPart(s) \in Seq(X)
         /\ Len(s) <= MaximumSamples => NewestPart(s) = s
         /\ Len(s) > MaximumSamples =>
              /\ Len(NewestPart(s)) = MaximumSamples
              /\ \A i \in 1..MaximumSamples : NewestPart(s)[i] = s[Len(s) - MaximumSamples + i]
<1>1. Len(s) \in Nat /\ \A i \in 1..Len(s) : s[i] \in X
  OBVIOUS
<1>2. CASE Len(s) <= MaximumSamples
  <2>1. NewestPart(s) = SubSeq(s, 1, Len(s))
    <3>1. ~(Len(s) > MaximumSamples)
      BY <1>1, <1>2
    <3> QED BY <3>1 DEF NewestPart
  <2> QED BY <1>1, <1>2, <2>1, SubSeqFull
<1>3. CASE Len(s) > MaximumSamples
  <2> DEFINE f == Len(s) - MaximumSamples + 1
  <2>1. NewestPart(s) = SubSeq(s, f, Len(s))
    BY <1>3 DEF NewestPart
  <2>2. /\ f \in Int /\ Len(s) \in Int /\ f <= Len(s) /\ f >= 1
        /\ Len(s) - f + 1 = MaximumSamples
    BY <1>1, <1>3
  <2>3. \A i \in 1..MaximumSamples : f + i - 1 = Len(s) - MaximumSamples + i
    BY <1>1
  <2>4. \A i \in f..Len(s) : s[i] \in X
    BY <1>1, <2>2
  <2> HIDE DEF f
  <2>5. /\ SubSeq(s, f, Len(s)) \in Seq(X)
        /\ Len(SubSeq(s, f, Len(s))) = MaximumSamples
        /\ \A i \in 1..MaximumSamples : SubSeq(s, f, Len(s))[i] = s[f + i - 1]
    BY <2>2, <2>4, SubSeqProperties
  <2>6. ~(Len(s) <= MaximumSamples)
    BY <1>1, <1>3
  <2> QED BY <2>1, <2>3, <2>5, <2>6
<1> QED BY <1>1, <1>2, <1>3

\* The newest of a sequence only depend on the newest of what went before.
LEMMA NewestOfMore ==
  ASSUME NEW X, NEW s \in Seq(X), NEW chunk \in Seq(X), MaximumSamples \in Nat \ {0}
  PROVE  NewestPart(NewestPart(s) \o chunk) = NewestPart(s \o chunk)
<1> DEFINE M == MaximumSamples
           w == NewestPart(s) \o chunk
           v == s \o chunk
           a == Len(s)
           c == Len(chunk)
<1>1. /\ a \in Nat /\ c \in Nat /\ M \in Nat
      /\ v \in Seq(X) /\ Len(v) = a + c
      /\ \A i \in 1..a + c : v[i] = IF i <= a THEN s[i] ELSE chunk[i - a]
  BY ConcatProperties
<1>2. CASE a <= M
  BY <1>2, NewestPartIs
<1>3. CASE a > M
  <2>1. /\ NewestPart(s) \in Seq(X) /\ Len(NewestPart(s)) = M
        /\ \A i \in 1..M : NewestPart(s)[i] = s[a - M + i]
    BY <1>1, <1>3, NewestPartIs
  <2>2. /\ w \in Seq(X) /\ Len(w) = M + c
        /\ \A i \in 1..M + c : w[i] = IF i <= M THEN NewestPart(s)[i] ELSE chunk[i - M]
    <3> DEFINE u == NewestPart(s)
    <3>1. u \in Seq(X) /\ Len(u) = M
      BY <2>1
    <3> HIDE DEF u, M
    <3>2. /\ u \o chunk \in Seq(X) /\ Len(u \o chunk) = M + c
          /\ \A i \in 1..M + c : (u \o chunk)[i] = IF i <= M THEN u[i] ELSE chunk[i - M]
      BY <3>1, ConcatProperties
    <3> QED BY <3>2 DEF u
  <2> HIDE DEF a, c, w, v
  <2>3. ASSUME NEW i \in 1..M + c PROVE w[i] = v[a - M + i]
    <3>1. a - M + i \in 1..a + c
      BY <1>1, <1>3
    <3>2. CASE i <= M
      <4>1. i \in 1..M /\ a - M + i <= a
        BY <1>1, <3>2
      <4> QED BY <1>1, <2>1, <2>2, <3>1, <3>2, <4>1
    <3>3. CASE ~(i <= M)
      <4>1. ~(a - M + i <= a) /\ (a - M + i) - a = i - M
        BY <1>1, <3>3
      <4> QED BY <1>1, <2>2, <3>1, <3>3, <4>1
    <3> QED BY <3>2, <3>3
  <2>4. /\ NewestPart(v) \in Seq(X) /\ Len(NewestPart(v)) = M
        /\ \A i \in 1..M : NewestPart(v)[i] = v[(a + c) - M + i]
    <3>1. Len(v) > M /\ \A i \in 1..M : Len(v) - M + i = (a + c) - M + i
      BY <1>1, <1>3
    <3>2. /\ NewestPart(v) \in Seq(X) /\ Len(NewestPart(v)) = M
          /\ \A i \in 1..M : NewestPart(v)[i] = v[Len(v) - M + i]
      BY <1>1, <3>1, NewestPartIs
    <3> QED BY <3>1, <3>2
  <2>5. /\ NewestPart(w) \in Seq(X) /\ Len(NewestPart(w)) = M
        /\ \A i \in 1..M : NewestPart(w)[i] = w[c + i]
    <3>1. CASE c = 0
      <4>1. NewestPart(w) = w /\ \A i \in 1..M : c + i = i
        BY <1>1, <2>2, <3>1, NewestPartIs
      <4> QED BY <1>1, <2>2, <3>1, <4>1
    <3>2. CASE c # 0
      <4>1. Len(w) > M /\ \A i \in 1..M : Len(w) - M + i = c + i
        BY <1>1, <2>2, <3>2
      <4> QED BY <2>2, <4>1, NewestPartIs
    <3> QED BY <3>1, <3>2
  <2>6. ASSUME NEW i \in 1..M PROVE NewestPart(w)[i] = NewestPart(v)[i]
    <3>1. c + i \in 1..M + c /\ a - M + (c + i) = (a + c) - M + i
      BY <1>1
    <3> QED BY <2>3, <2>4, <2>5, <3>1
  <2> HIDE DEF M
  <2>7. NewestPart(w) = NewestPart(v)
    BY <2>4, <2>5, <2>6, SeqEqual
  <2> QED BY <2>7 DEF w, v
<1> QED BY <1>1, <1>2, <1>3

\* What the ring holds after an append.
LEMMA RingAppended ==
  ASSUME NEW X, NEW s \in Seq(X), NEW chunk \in Seq(X), MaximumSamples \in Nat \ {0},
         ring \in Seq(Seq(X)), \A i \in DOMAIN ring : ring[i] # <<>>, Tiles(ring, NewestPart(s))
  PROVE  /\ AppendToRing(chunk) \in Seq(Seq(X))
         /\ \A i \in DOMAIN AppendToRing(chunk) : AppendToRing(chunk)[i] # <<>>
         /\ Tiles(AppendToRing(chunk), NewestPart(s \o chunk))
<1>1. /\ Len(chunk) \in Nat /\ Len(s) \in Nat /\ NewestPart(s) \in Seq(X)
      /\ s \o chunk \in Seq(X) /\ Len(s \o chunk) = Len(s) + Len(chunk)
      /\ \A i \in 1..Len(s) + Len(chunk) :
           (s \o chunk)[i] = IF i <= Len(s) THEN s[i] ELSE chunk[i - Len(s)]
  BY NewestPartIs, ConcatProperties
<1>2. CASE chunk = <<>>
  <2>1. AppendToRing(chunk) = ring
    BY <1>2 DEF AppendToRing
  <2>2. s \o chunk = s
    BY <1>2, ConcatEmptySeq
  <2> QED BY <2>1, <2>2
<1>3. CASE chunk # <<>> /\ Len(chunk) >= MaximumSamples
  <2> DEFINE cut == SubSeq(chunk, Len(chunk) - MaximumSamples + 1, Len(chunk))
             f == Len(chunk) - MaximumSamples + 1
  <2>1. AppendToRing(chunk) = <<cut>>
    BY <1>3 DEF AppendToRing
  <2>2. /\ f \in Int /\ Len(chunk) \in Int /\ f <= Len(chunk) /\ f >= 1
        /\ Len(chunk) - f + 1 = MaximumSamples
    BY <1>1, <1>3
  <2>3. \A i \in f..Len(chunk) : chunk[i] \in X
    BY <1>1, <2>2
  <2>4. /\ cut \in Seq(X) /\ Len(cut) = MaximumSamples
        /\ \A i \in 1..MaximumSamples : cut[i] = chunk[f + i - 1]
    <3> HIDE DEF f
    <3>1. /\ SubSeq(chunk, f, Len(chunk)) \in Seq(X)
          /\ Len(SubSeq(chunk, f, Len(chunk))) = MaximumSamples
          /\ \A i \in 1..MaximumSamples : SubSeq(chunk, f, Len(chunk))[i] = chunk[f + i - 1]
      BY <2>2, <2>3, SubSeqProperties
    <3> QED BY <3>1 DEF f
  <2>5. \A i \in 1..MaximumSamples : f + i - 1 = Len(chunk) - MaximumSamples + i
    BY <1>1
  <2>6. ASSUME Len(s) + Len(chunk) > MaximumSamples PROVE NewestPart(s \o chunk) = cut
    <3>1. /\ NewestPart(s \o chunk) \in Seq(X) /\ Len(NewestPart(s \o chunk)) = MaximumSamples
          /\ \A i \in 1..MaximumSamples :
               NewestPart(s \o chunk)[i] = (s \o chunk)[Len(s \o chunk) - MaximumSamples + i]
      BY <1>1, <2>6, NewestPartIs
    <3>2. ASSUME NEW i \in 1..MaximumSamples PROVE NewestPart(s \o chunk)[i] = cut[i]
      <4> DEFINE j == Len(s) + Len(chunk) - MaximumSamples + i
      <4>1. /\ j \in 1..Len(s) + Len(chunk) /\ ~(j <= Len(s))
            /\ j - Len(s) = Len(chunk) - MaximumSamples + i
        BY <1>1, <1>3
      <4> HIDE DEF j
      <4>2. (s \o chunk)[j] = chunk[j - Len(s)]
        BY <1>1, <4>1
      <4>3. NewestPart(s \o chunk)[i] = (s \o chunk)[j]
        <5>1. Len(s \o chunk) - MaximumSamples + i = j
          BY <1>1 DEF j
        <5> QED BY <3>1, <5>1
      <4>4. cut[i] = chunk[Len(chunk) - MaximumSamples + i]
        <5> HIDE DEF cut, f
        <5> QED BY <2>4, <2>5
      <4> QED BY <4>1, <4>2, <4>3, <4>4
    <3>3. /\ cut \in Seq(X) /\ Len(cut) = Len(NewestPart(s \o chunk))
          /\ \A i \in 1..Len(NewestPart(s \o chunk)) : NewestPart(s \o chunk)[i] = cut[i]
      <4> HIDE DEF cut
      <4> QED BY <2>4, <3>1, <3>2
    <3> HIDE DEF cut
    <3> QED BY <3>1, <3>3, SeqEqual
  <2>7. ASSUME ~(Len(s) + Len(chunk) > MaximumSamples) PROVE NewestPart(s \o chunk) = cut
    <3>1. Len(s) = 0 /\ Len(chunk) = MaximumSamples
      BY <1>1, <1>3, <2>7
    <3>2. s = <<>>
      BY <3>1, EmptySeq
    <3>3. s \o chunk = chunk
      BY <3>2, ConcatEmptySeq
    <3>4. cut = chunk
      <4>1. f = 1
        BY <1>1, <3>1
      <4>2. cut = SubSeq(chunk, 1, Len(chunk))
        BY <4>1
      <4> QED BY <4>2, SubSeqFull
    <3>5. NewestPart(chunk) = chunk
      BY <1>1, <3>1, NewestPartIs
    <3> HIDE DEF cut
    <3> QED BY <3>3, <3>4, <3>5
  <2>8. NewestPart(s \o chunk) = cut
    <3> HIDE DEF cut
    <3> QED BY <2>6, <2>7
  <2>9. Tiles(<<cut>>, cut) /\ <<cut>> \in Seq(Seq(X)) /\ cut # <<>>
    <3> HIDE DEF cut
    <3>1. cut # <<>>
      BY <2>4
    <3> QED BY <2>4, <3>1, TilesOne
  <2>10. \A i \in DOMAIN <<cut>> : <<cut>>[i] # <<>>
    <3> HIDE DEF cut
    <3> QED BY <2>9
  <2> HIDE DEF cut
  <2> QED BY <2>1, <2>8, <2>9, <2>10
<1>4. CASE chunk # <<>> /\ ~(Len(chunk) >= MaximumSamples)
  <2> DEFINE w == NewestPart(s) \o chunk
             longer == Append(ring, chunk)
             e == Len(w) - MaximumSamples
  <2>1. AppendToRing(chunk) = DropExcess(longer)
    BY <1>4 DEF AppendToRing
  <2>2. /\ longer \in Seq(Seq(X)) /\ Tiles(longer, w) /\ w \in Seq(X)
        /\ Len(w) = Len(NewestPart(s)) + Len(chunk)
    BY <1>1, TilesAppended, ConcatProperties
  <2>3. \A i \in DOMAIN longer : longer[i] # <<>>
    <3>1. /\ Len(ring) \in Nat /\ DOMAIN ring = 1..Len(ring)
          /\ DOMAIN longer = 1..Len(ring) + 1
          /\ \A i \in 1..Len(ring) : longer[i] = ring[i]
          /\ longer[Len(ring) + 1] = chunk
      OBVIOUS
    <3>2. \A i \in 1..Len(ring) + 1 : i \in 1..Len(ring) \/ i = Len(ring) + 1
      BY <3>1
    <3> QED BY <1>4, <3>1, <3>2
  <2> HIDE DEF w, longer
  <2>4. NewestPart(w) = NewestPart(s \o chunk)
    BY NewestOfMore DEF w
  <2>5. Len(w) \in Nat
    BY <2>2
  <2>6. CASE e > 0
    <3>1. NewestPart(w) = SubSeq(w, e + 1, Len(w))
        <4>1. Len(w) > MaximumSamples /\ Len(w) - MaximumSamples + 1 = e + 1
        BY <2>5, <2>6
      <4> HIDE DEF e
      <4> QED BY <4>1 DEF NewestPart
    <3> HIDE DEF e
    <3>2. /\ DropExcess(longer) \in Seq(Seq(X))
          /\ Tiles(DropExcess(longer), SubSeq(w, e + 1, Len(w)))
          /\ \A i \in DOMAIN DropExcess(longer) : DropExcess(longer)[i] # <<>>
      <4>1. e = Len(w) - MaximumSamples
        BY DEF e
      <4> QED BY <2>2, <2>3, <2>6, <4>1, TilesDropped
    <3> QED BY <2>1, <2>4, <3>1, <3>2
  <2>7. CASE ~(e > 0)
    <3>1. Length(longer) = Len(w)
      BY <2>2, FlattenIs DEF Length
    <3>2. Len(w) - MaximumSamples <= 0 /\ Len(w) <= MaximumSamples
      BY <2>5, <2>7
    <3>3. DropExcess(longer) = longer
      BY <3>1, <3>2 DEF DropExcess
    <3>4. NewestPart(w) = w
      BY <2>2, <3>2, NewestPartIs
    <3> QED BY <2>1, <2>2, <2>3, <2>4, <3>3, <3>4
  <2> QED BY <2>6, <2>7
<1> QED BY <1>2, <1>3, <1>4

-----------------------------------------------------------------------------
\* Division, rounded down and up.
LEMMA Quotient ==
  ASSUME NEW a \in Nat, NEW t \in Nat \ {0}
  PROVE  /\ a \div t \in Nat
         /\ a % t \in Nat
<1>1. a \div t \in Int /\ a % t \in 0..(t - 1) /\ a = t * (a \div t) + (a % t)
  OBVIOUS
<1> QED BY <1>1

LEMMA QuotientMonotone ==
  ASSUME NEW a \in Nat, NEW b \in Nat, NEW t \in Nat \ {0}, a <= b
  PROVE  a \div t <= b \div t
OBVIOUS

LEMMA QuotientOfSum ==
  ASSUME NEW a \in Nat, NEW q \in Nat, NEW t \in Nat \ {0}
  PROVE  (a + q * t) \div t = (a \div t) + q
OBVIOUS

LEMMA Rounded ==
  ASSUME NEW a \in Nat, TargetRate \in Nat \ {0}
  PROVE  /\ Floor(a) \in Nat /\ Ceiling(a) \in Nat /\ a % TargetRate \in Nat
         /\ Floor(a) <= Ceiling(a) /\ Ceiling(a) <= Floor(a) + 1
<1> DEFINE t == TargetRate
<1>1. t \in Nat \ {0} /\ a + t - 1 \in Nat /\ a <= a + t - 1 /\ a + t - 1 <= a + 1 * t /\ a + 1 * t \in Nat
  OBVIOUS
<1> HIDE DEF t
<1>2. (a + 1 * t) \div t = (a \div t) + 1
  BY <1>1, QuotientOfSum
<1>3. a \div t \in Nat /\ (a + t - 1) \div t \in Nat /\ a % t \in Nat
  BY <1>1, Quotient
<1>4. a \div t <= (a + t - 1) \div t /\ (a + t - 1) \div t <= (a + 1 * t) \div t
  BY <1>1, QuotientMonotone
<1> QED BY <1>2, <1>3, <1>4 DEF Floor, Ceiling, t

LEMMA CeilingMonotone ==
  ASSUME NEW a \in Nat, NEW b \in Nat, a <= b, TargetRate \in Nat \ {0}
  PROVE  Ceiling(a) <= Ceiling(b)
<1>1. /\ a + TargetRate - 1 \in Nat /\ b + TargetRate - 1 \in Nat
      /\ a + TargetRate - 1 <= b + TargetRate - 1
  OBVIOUS
<1> QED BY <1>1, QuotientMonotone DEF Ceiling

\* Far enough, a position is beyond any sample.
LEMMA CeilingFar ==
  ASSUME NEW a \in Nat, NEW l \in Nat, NEW rate \in Nat \ {0}, TargetRate \in Nat \ {0}
  PROVE  Ceiling(a + (l * TargetRate) * rate) >= Ceiling(a) + l
<1> DEFINE t == TargetRate
           b == a + t - 1
<1>1. t \in Nat \ {0} /\ b \in Nat /\ a + l * t \in Nat /\ a + (l * t) * rate \in Nat
  OBVIOUS
<1>2. a + l * t <= a + (l * t) * rate
  <2>1. l * t \in Nat
    BY <1>1
  <2>2. \A x \in Nat, r \in Nat \ {0} : x <= x * r
    OBVIOUS
  <2> QED BY <2>1, <2>2
<1>3. Ceiling(a + l * t) <= Ceiling(a + (l * t) * rate)
  BY <1>1, <1>2, CeilingMonotone
<1>4. (a + l * t) + t - 1 = b + l * t
  OBVIOUS
<1> HIDE DEF t, b
<1>5. (b + l * t) \div t = (b \div t) + l
  BY <1>1, QuotientOfSum
<1>6. Ceiling(a + l * t) = Ceiling(a) + l
  BY <1>4, <1>5 DEF Ceiling, t, b
<1>7. /\ Ceiling(a) \in Nat /\ Ceiling(a + (l * t) * rate) \in Nat
  BY <1>1, Rounded DEF t
<1>8. Ceiling(a + (l * t) * rate) >= Ceiling(a) + l
  BY <1>3, <1>6, <1>7
<1> QED BY <1>8 DEF t

-----------------------------------------------------------------------------
ResamplerStates == [processed : Nat, next : Nat, previous : Int]
Moments == [left : Nat, right : Nat, part : Nat]

\* The resampler stopped where the next position needs a sample it does not
\* have yet, and holds the last one it had.
Holds(state, samples, count) ==
  /\ state.processed = Len(samples)
  /\ state.next = count * nativeRate
  /\ samples # <<>> => state.previous = samples[Len(samples)]
  /\ Ceiling(count * nativeRate) >= Len(samples)

LEMMA ReachedIs ==
  ASSUME TargetRate \in Nat \ {0}, nativeRate \in Nat \ {0},
         NEW state \in ResamplerStates, NEW frame \in Seq(Nat), frame # <<>>,
         Ceiling(state.next) >= state.processed
  PROVE  LET r == Reached(state, frame)
             end == state.processed + Len(frame) - 1
         IN /\ r \in Nat
            /\ \A k \in 0..(r - 1) : Ceiling(state.next + k * nativeRate) <= end
            /\ Ceiling(state.next + r * nativeRate) > end
<1> DEFINE far == Len(frame) * TargetRate
           end == state.processed + Len(frame) - 1
           Beyond(n) == Ceiling(state.next + n * nativeRate) > end
           T == {n \in 0..far : Beyond(n)}
<1>1. /\ Len(frame) \in Nat /\ state.next \in Nat /\ state.processed \in Nat
      /\ end \in Int
  BY DEF ResamplerStates
<1>2. far \in Nat
  BY <1>1
<1>3. Beyond(far)
  <2>1. Ceiling(state.next + far * nativeRate) >= Ceiling(state.next) + Len(frame)
    BY <1>1, CeilingFar
  <2>2. state.next + far * nativeRate \in Nat
    BY <1>1, <1>2, SMTT(30)
  <2>3. Ceiling(state.next + far * nativeRate) \in Nat /\ Ceiling(state.next) \in Nat
    <3> HIDE DEF far
    <3> QED BY <1>1, <2>2, Rounded
  <2> HIDE DEF far
  <2> QED BY <1>1, <2>1, <2>3
<1> HIDE DEF far, Beyond, end
<1>4. PICK r \in T : \A n \in T : r <= n
  <2>1. T \subseteq 0..far /\ T # {} /\ 0 \in Int /\ far \in Int
    BY <1>2, <1>3
  <2> HIDE DEF T
  <2> QED BY <2>1, LeastExists
<1>5. \A n \in 0..far : Ceiling(state.next + n * nativeRate) \in Nat
  <2>1. ASSUME NEW n \in 0..far PROVE state.next + n * nativeRate \in Nat
    BY <1>1, <1>2
  <2> QED BY <2>1, Rounded
<1>6. \A k \in 0..(r - 1) : Ceiling(state.next + k * nativeRate) <= end
  <2> SUFFICES ASSUME NEW k \in 0..(r - 1)
               PROVE  Ceiling(state.next + k * nativeRate) <= end
    OBVIOUS
  <2> DEFINE c == Ceiling(state.next + k * nativeRate)
  <2>1. ~Beyond(k) /\ k \in 0..far
    BY <1>2, <1>4
  <2>2. c \in Nat /\ ~(c > end)
    BY <1>5, <2>1 DEF Beyond
  <2> HIDE DEF c
  <2>3. c <= end
    BY <1>1, <2>2
  <2> QED BY <2>3 DEF c
<1>7. \E n \in 0..far :
        /\ \A k \in 0..(n - 1) : Ceiling(state.next + k * nativeRate) <= end
        /\ Ceiling(state.next + n * nativeRate) > end
  BY <1>4, <1>6 DEF Beyond
<1> DEFINE q == CHOOSE n \in 0..far :
                  /\ \A k \in 0..(n - 1) : Ceiling(state.next + k * nativeRate) <= end
                  /\ Ceiling(state.next + n * nativeRate) > end
<1>8. /\ q \in 0..far
      /\ \A k \in 0..(q - 1) : Ceiling(state.next + k * nativeRate) <= end
      /\ Ceiling(state.next + q * nativeRate) > end
  BY <1>7
<1>9. Reached(state, frame) = q
  BY DEF Reached, far, end
<1> HIDE DEF q
<1> QED BY <1>2, <1>8, <1>9 DEF end

\* What comes out of a frame is what all samples at once would give there.
LEMMA FrameResampled ==
  ASSUME TargetRate \in Nat \ {0}, nativeRate \in Nat \ {0},
         NEW state \in ResamplerStates, NEW before \in Seq(Nat), NEW n \in Nat,
         Holds(state, before, n), NEW frame \in Seq(Nat), frame # <<>>
  PROVE  LET r == Reached(state, frame)
             whole == before \o frame
         IN /\ r \in Nat
            /\ Processed(state, frame) \in ResamplerStates
            /\ Holds(Processed(state, frame), whole, n + r)
            /\ \A k \in 1..r :
                 /\ Ceiling((n + k - 1) * nativeRate) < Len(whole)
                 /\ Output(state, frame)[k] = Reference(whole, n + k - 1)
                 /\ Output(state, frame)[k] \in Moments
<1> DEFINE r == Reached(state, frame)
           whole == before \o frame
           b == Len(before)
           f == Len(frame)
           rate == nativeRate
<1>1. /\ b \in Nat /\ f \in Nat /\ f >= 1 /\ rate \in Nat
      /\ whole \in Seq(Nat) /\ Len(whole) = b + f
      /\ \A i \in 1..b + f : whole[i] = IF i <= b THEN before[i] ELSE frame[i - b]
  BY ConcatProperties
<1>2. /\ state.processed = b /\ state.next = n * rate /\ n * rate \in Nat
      /\ before # <<>> => state.previous = before[b]
      /\ Ceiling(n * rate) >= b
  BY DEF Holds
<1>3. /\ r \in Nat
      /\ \A k \in 0..(r - 1) : Ceiling(n * rate + k * rate) <= b + f - 1
      /\ Ceiling(n * rate + r * rate) > b + f - 1
  BY <1>1, <1>2, ReachedIs
<1>4. \A k \in Nat : /\ (n + k) * rate = n * rate + k * rate
                     /\ n * rate + k * rate \in Nat /\ n * rate <= n * rate + k * rate
  BY <1>1, <1>2
<1> HIDE DEF r, whole, b, f, rate
<1>5. \A k \in Nat : /\ Ceiling((n + k) * rate) \in Nat /\ Floor((n + k) * rate) \in Nat
                     /\ ((n + k) * rate) % TargetRate \in Nat
                     /\ Floor((n + k) * rate) <= Ceiling((n + k) * rate)
                     /\ Ceiling((n + k) * rate) <= Floor((n + k) * rate) + 1
                     /\ Ceiling((n + k) * rate) >= b
  <2> SUFFICES ASSUME NEW k \in Nat
               PROVE /\ Ceiling((n + k) * rate) \in Nat /\ Floor((n + k) * rate) \in Nat
                     /\ ((n + k) * rate) % TargetRate \in Nat
                     /\ Floor((n + k) * rate) <= Ceiling((n + k) * rate)
                     /\ Ceiling((n + k) * rate) <= Floor((n + k) * rate) + 1
                     /\ Ceiling((n + k) * rate) >= b
    OBVIOUS
  <2> DEFINE x == (n + k) * rate
             y == n * rate
  <2>1. x \in Nat /\ y \in Nat /\ y <= x
    BY <1>2, <1>4
  <2> HIDE DEF x, y
  <2>2. /\ Ceiling(x) \in Nat /\ Floor(x) \in Nat /\ x % TargetRate \in Nat
        /\ Floor(x) <= Ceiling(x) /\ Ceiling(x) <= Floor(x) + 1
        /\ Ceiling(y) \in Nat /\ Ceiling(y) <= Ceiling(x)
    BY <2>1, Rounded, CeilingMonotone
  <2>3. Ceiling(y) >= b
    BY <1>2 DEF y
  <2>4. Ceiling(x) >= b
    BY <1>1, <2>2, <2>3
  <2> QED BY <2>2, <2>4 DEF x
<1>6. ASSUME NEW i \in Nat, i >= b - 1, i < b + f
      PROVE  SampleAt(state, frame, i) = whole[i + 1] /\ whole[i + 1] \in Nat
  <2>1. i + 1 \in 1..b + f
    BY <1>1, <1>6
  <2>2. whole[i + 1] \in Nat
    BY <1>1, <2>1, SMTT(30)
  <2>3. CASE i < b
    <3>1. i = b - 1 /\ b # 0 /\ i + 1 = b
      BY <1>1, <1>6, <2>3
    <3>2. before # <<>>
      BY <3>1 DEF b
    <3>3. SampleAt(state, frame, i) = before[b]
      BY <1>2, <2>3, <3>2 DEF SampleAt
    <3>4. i + 1 <= b
      BY <1>1, <3>1
    <3> QED BY <1>1, <2>1, <2>2, <3>1, <3>3, <3>4
  <2>4. CASE ~(i < b)
    <3>1. SampleAt(state, frame, i) = frame[i - b + 1]
      BY <1>2, <2>4 DEF SampleAt
    <3>2. ~(i + 1 <= b) /\ i + 1 - b = i - b + 1
      BY <1>1, <2>4
    <3> QED BY <1>1, <2>1, <2>2, <3>1, <3>2, SMTT(30)
  <2> QED BY <2>3, <2>4
<1>7. ASSUME NEW k \in 1..r
      PROVE  /\ Ceiling((n + k - 1) * rate) < Len(whole)
             /\ Output(state, frame)[k] = Reference(whole, n + k - 1)
             /\ Output(state, frame)[k] \in Moments
  <2> DEFINE x == (n + (k - 1)) * rate
  <2>1. k - 1 \in Nat /\ k - 1 \in 0..(r - 1) /\ n + k - 1 = n + (k - 1)
    BY <1>3
  <2>2. x = n * rate + (k - 1) * rate
    BY <1>4, <2>1
  <2>3. /\ Ceiling(x) \in Nat /\ Floor(x) \in Nat /\ x % TargetRate \in Nat
        /\ Floor(x) <= Ceiling(x) /\ Ceiling(x) <= Floor(x) + 1 /\ Ceiling(x) >= b
    BY <1>5, <2>1
  <2>4. Ceiling(x) <= b + f - 1
    BY <1>3, <2>1, <2>2
  <2> HIDE DEF x
  <2>5. /\ SampleAt(state, frame, Floor(x)) = whole[Floor(x) + 1] /\ whole[Floor(x) + 1] \in Nat
        /\ SampleAt(state, frame, Ceiling(x)) = whole[Ceiling(x) + 1]
        /\ whole[Ceiling(x) + 1] \in Nat
    <3>1. /\ Floor(x) >= b - 1 /\ Floor(x) < b + f
          /\ Ceiling(x) >= b - 1 /\ Ceiling(x) < b + f
      <4> DEFINE l == Floor(x)
                 c == Ceiling(x)
      <4>1. l \in Nat /\ c \in Nat /\ l <= c /\ c <= l + 1 /\ c >= b /\ c <= b + f - 1
        BY <2>3, <2>4
      <4> HIDE DEF l, c
      <4>2. l >= b - 1 /\ l < b + f /\ c >= b - 1 /\ c < b + f
        BY <1>1, <4>1
      <4> QED BY <4>2 DEF l, c
    <3> QED BY <1>6, <2>3, <3>1
  <2>6. Output(state, frame)[k] = Interpolated(state, frame, x)
    BY <1>2, <2>2 DEF Output, r, rate
  <2>7. Reference(whole, n + k - 1) =
          [left |-> whole[Floor(x) + 1], right |-> whole[Ceiling(x) + 1], part |-> x % TargetRate]
    BY <2>1 DEF Reference, x, rate
  <2>8. Interpolated(state, frame, x) = Reference(whole, n + k - 1)
    BY <2>5, <2>7 DEF Interpolated
  <2>9. Interpolated(state, frame, x) \in Moments
    BY <2>3, <2>5, <2>7, <2>8 DEF Moments
  <2>10. Ceiling(x) < Len(whole)
    <3> DEFINE c == Ceiling(x)
    <3>1. c \in Nat /\ c <= b + f - 1 /\ Len(whole) = b + f
      BY <1>1, <2>3, <2>4
    <3> HIDE DEF c
    <3>2. c < b + f
      BY <1>1, <3>1
    <3> QED BY <3>1, <3>2 DEF c
  <2> QED BY <2>1, <2>6, <2>8, <2>9, <2>10 DEF x
<1>8. /\ Processed(state, frame) =
           [processed |-> b + f, next |-> n * rate + r * rate, previous |-> frame[f]]
  BY <1>2 DEF Processed, r, rate, f
<1>9. whole[b + f] = frame[f] /\ frame[f] \in Nat
  <2>1. b + f \in 1..b + f /\ ~(b + f <= b) /\ (b + f) - b = f /\ f \in 1..f
    BY <1>1
  <2>2. frame[f] \in Nat
    BY <2>1 DEF f
  <2> QED BY <1>1, <2>1, <2>2
<1>10. Processed(state, frame) \in ResamplerStates
  <2>1. n * rate + r * rate \in Nat
    BY <1>3, <1>4
  <2>2. b + f \in Nat /\ frame[f] \in Int
    <3>1. b \in Nat /\ f \in Nat
      BY <1>1
    <3>2. frame[f] \in Nat
      BY <1>9
    <3> QED BY <3>1, <3>2
  <2> QED BY <1>8, <2>1, <2>2 DEF ResamplerStates
<1>11. Holds(Processed(state, frame), whole, n + r)
  <2>1. Ceiling((n + r) * rate) >= b + f
    <3>1. Ceiling((n + r) * rate) > b + f - 1
      BY <1>3, <1>4
    <3>2. Ceiling((n + r) * rate) \in Nat
      BY <1>3, <1>5
    <3> QED BY <1>1, <3>1, <3>2
  <2>2. n * rate + r * rate = (n + r) * rate
    BY <1>3, <1>4
  <2> QED BY <1>1, <1>8, <1>9, <2>1, <2>2 DEF Holds, rate
<1> QED BY <1>3, <1>7, <1>10, <1>11 DEF r, whole, rate

-----------------------------------------------------------------------------
Frames == {f \in Seq(Nat) : f # <<>>}

AudioTypes ==
  /\ clock \in 0..MaxSamples /\ mutes \in 0..MaxMutes
  /\ nativeRate \in NativeRates \cup {Closed} /\ captureMuted \in BOOLEAN
  /\ inCallback \in Seq(Nat) /\ consumed \in Seq(Nat)
  /\ frames \in Seq(Frames) /\ Len(frames) <= QueueFrames
  /\ resampler \in ResamplerStates
  /\ heard \in Seq(Moments)

\* The samples on their way, from the ones read to the one the callback holds,
\* are in the order of the clock.
Rises(s) == \A i, j \in 1..Len(s) : i < j => s[i] < s[j]
Precedes(s, t) == \A i \in 1..Len(s), j \in 1..Len(t) : s[i] < t[j]
Until(s, now) == \A i \in 1..Len(s) : s[i] <= now

OnTheirWay(samples, queue, held, now) ==
  /\ Rises(samples) /\ Rises(held) /\ Precedes(samples, held)
  /\ Until(samples, now) /\ Until(held, now)
  /\ \A f \in 1..Len(queue) :
       /\ Rises(queue[f]) /\ Until(queue[f], now)
       /\ Precedes(samples, queue[f]) /\ Precedes(queue[f], held)
  /\ \A f, g \in 1..Len(queue) : f < g => Precedes(queue[f], queue[g])

ClockInv ==
  /\ OnTheirWay(consumed, frames, inCallback, clock)
  /\ nativeRate = Closed => frames = <<>> /\ inCallback = <<>>

\* Every output sample needed only samples that were there, and is their
\* interpolation.
ResampleInv ==
  nativeRate # Closed =>
    /\ Holds(resampler, consumed, Len(heard))
    /\ \A k \in 1..Len(heard) : /\ Ceiling((k - 1) * nativeRate) < Len(consumed)
                                /\ heard[k] = Reference(consumed, k - 1)

PrerollInv ==
  /\ kept \in Seq(Moments) /\ ring \in Seq(Seq(Moments))
  /\ \A i \in DOMAIN ring : ring[i] # <<>>
  /\ Tiles(ring, NewestPart(kept))

AudioInv == AudioTypes /\ ClockInv /\ ResampleInv /\ PrerollInv

-----------------------------------------------------------------------------
LEMMA NothingOnItsWay ==
  ASSUME NEW s, NEW q, NEW h, NEW now, OnTheirWay(s, q, h, now)
  PROVE  /\ OnTheirWay(<<>>, q, h, now)
         /\ OnTheirWay(s, <<>>, h, now)
<1>1. Len(<<>>) = 0 /\ 1..0 = {}
  OBVIOUS
<1>2. OnTheirWay(s, <<>>, h, now)
  BY <1>1 DEF OnTheirWay
<1>3. Rises(<<>>) /\ Until(<<>>, now) /\ \A t : Precedes(<<>>, t)
  BY <1>1 DEF Rises, Until, Precedes
<1>4. OnTheirWay(<<>>, q, h, now)
  <2> HIDE DEF Rises, Until, Precedes
  <2> QED BY <1>3 DEF OnTheirWay
<1> QED BY <1>2, <1>4

\* The oldest frame is given up.
LEMMA OldestGivenUp ==
  ASSUME NEW s, NEW q \in Seq(Frames), NEW h, NEW now, OnTheirWay(s, q, h, now), q # <<>>
  PROVE  OnTheirWay(s, Tail(q), h, now)
<1>1. /\ Len(q) \in Nat /\ Len(Tail(q)) = Len(q) - 1
      /\ \A i \in 1..Len(q) - 1 : Tail(q)[i] = q[i + 1] /\ i + 1 \in 1..Len(q)
  OBVIOUS
<1>2. \A f, g \in 1..Len(q) - 1 : f < g => f + 1 < g + 1
  BY <1>1
<1> QED BY <1>1, <1>2 DEF OnTheirWay

\* The frame the callback holds joins the queue.
LEMMA FramePut ==
  ASSUME NEW s, NEW q \in Seq(Frames), NEW h \in Frames, NEW now,
         OnTheirWay(s, q, h, now)
  PROVE  OnTheirWay(s, Append(q, h), <<>>, now)
<1> DEFINE n == Len(q)
           r == Append(q, h)
<1>1. /\ n \in Nat /\ Len(r) = n + 1
      /\ \A i \in 1..n : r[i] = q[i]
      /\ r[n + 1] = h
      /\ \A i \in 1..n + 1 : i \in 1..n \/ i = n + 1
  OBVIOUS
<1>2. /\ Rises(s) /\ Rises(h) /\ Precedes(s, h) /\ Until(s, now) /\ Until(h, now)
      /\ \A f \in 1..n : /\ Rises(q[f]) /\ Until(q[f], now)
                         /\ Precedes(s, q[f]) /\ Precedes(q[f], h)
      /\ \A f, g \in 1..n : f < g => Precedes(q[f], q[g])
  BY DEF OnTheirWay
<1> HIDE DEF n, r
<1>3. /\ Rises(<<>>) /\ Until(<<>>, now)
      /\ \A t : Precedes(t, <<>>)
  BY DEF Rises, Until, Precedes
<1>4. ASSUME NEW f \in 1..n + 1
      PROVE  Rises(r[f]) /\ Until(r[f], now) /\ Precedes(s, r[f])
  BY <1>1, <1>2
<1>5. ASSUME NEW f \in 1..n + 1, NEW g \in 1..n + 1, f < g PROVE Precedes(r[f], r[g])
  <2>1. f \in 1..n
    BY <1>1, <1>5
  <2>2. CASE g = n + 1
    BY <1>1, <1>2, <2>1, <2>2
  <2>3. CASE g \in 1..n
    BY <1>1, <1>2, <1>5, <2>1, <2>3
  <2> QED BY <1>1, <2>2, <2>3
<1>6. OnTheirWay(s, r, <<>>, now)
  BY <1>1, <1>2, <1>3, <1>4, <1>5 DEF OnTheirWay
<1> QED BY <1>6 DEF r

\* The first frame joins the samples read.
LEMMA FrameRead ==
  ASSUME NEW s \in Seq(Nat), NEW q \in Seq(Frames), NEW h \in Seq(Nat), NEW now,
         OnTheirWay(s, q, h, now), q # <<>>
  PROVE  OnTheirWay(s \o Head(q), Tail(q), h, now)
<1> DEFINE t == Head(q)
           w == s \o t
           a == Len(s)
           b == Len(t)
<1>1. OnTheirWay(s, Tail(q), h, now)
  BY OldestGivenUp
<1>2. /\ Len(q) \in Nat /\ 1 \in 1..Len(q) /\ t = q[1] /\ q[1] \in Frames
      /\ Len(Tail(q)) = Len(q) - 1
      /\ \A i \in 1..Len(q) - 1 : Tail(q)[i] = q[i + 1] /\ i + 1 \in 1..Len(q) /\ 1 < i + 1
  OBVIOUS
<1>3. /\ Rises(t) /\ Until(t, now) /\ Precedes(s, t) /\ Precedes(t, h)
      /\ \A f \in 1..Len(q) - 1 : Precedes(t, Tail(q)[f])
  BY <1>2 DEF OnTheirWay
<1>4. /\ t \in Seq(Nat) /\ a \in Nat /\ b \in Nat /\ Len(w) = a + b
      /\ \A i \in 1..a + b : w[i] = IF i <= a THEN s[i] ELSE t[i - a]
      /\ \A i \in 1..a : s[i] \in Nat /\ \A j \in 1..b : t[j] \in Nat
  <2>1. t \in Seq(Nat)
    BY <1>2 DEF Frames
  <2> QED BY <2>1, ConcatProperties, SMTT(30)
<1>5. Rises(s) /\ Until(s, now) /\ Precedes(s, h)
  BY DEF OnTheirWay
<1> HIDE DEF t, w, a, b
<1>6. \A i \in 1..a + b : (i <= a /\ i \in 1..a) \/ (~(i <= a) /\ i - a \in 1..b)
  BY <1>4
<1>7. Rises(w)
  <2> SUFFICES ASSUME NEW i \in 1..a + b, NEW j \in 1..a + b, i < j PROVE w[i] < w[j]
    BY <1>4 DEF Rises
  <2>1. CASE j <= a
    <3>1. i <= a /\ i \in 1..a /\ j \in 1..a
      BY <1>4, <2>1
    <3> QED BY <1>4, <1>5, <2>1, <3>1 DEF Rises, a
  <2>2. CASE i <= a /\ ~(j <= a)
    <3>1. i \in 1..a /\ j - a \in 1..b
      BY <1>6, <2>2
    <3> QED BY <1>3, <1>4, <2>2, <3>1 DEF Precedes, a, b
  <2>3. CASE ~(i <= a)
    <3>1. ~(j <= a) /\ i - a \in 1..b /\ j - a \in 1..b /\ i - a < j - a
      BY <1>4, <1>6, <2>3
    <3> QED BY <1>3, <1>4, <2>3, <3>1 DEF Rises, b
  <2> QED BY <2>1, <2>2, <2>3
<1>8. Until(w, now)
  BY <1>3, <1>4, <1>5, <1>6 DEF Until, a, b
<1>9. ASSUME NEW u, Precedes(s, u), Precedes(t, u) PROVE Precedes(w, u)
  <2> SUFFICES ASSUME NEW i \in 1..a + b, NEW j \in 1..Len(u) PROVE w[i] < u[j]
    BY <1>4 DEF Precedes
  <2>1. CASE i <= a
    <3>1. i \in 1..a
      BY <1>6, <2>1
    <3> QED BY <1>4, <1>9, <2>1, <3>1 DEF Precedes, a
  <2>2. CASE ~(i <= a)
    <3>1. i - a \in 1..b
      BY <1>6, <2>2
    <3> QED BY <1>4, <1>9, <2>2, <3>1 DEF Precedes, b
  <2> QED BY <2>1, <2>2
<1>10. OnTheirWay(w, Tail(q), h, now)
  <2>1. ASSUME NEW f \in 1..Len(q) - 1 PROVE Precedes(w, Tail(q)[f])
    <3>1. Precedes(s, Tail(q)[f])
      BY <1>1, <1>2 DEF OnTheirWay
    <3> QED BY <1>3, <1>9, <3>1
  <2>2. Precedes(w, h)
    BY <1>3, <1>5, <1>9
  <2> HIDE DEF Rises, Until, Precedes
  <2> QED BY <1>1, <1>2, <1>7, <1>8, <2>1, <2>2 DEF OnTheirWay
<1> QED BY <1>10 DEF w, t

\* The callback copies the samples that come next.
LEMMA FrameCaptured ==
  ASSUME NEW s \in Seq(Nat), NEW q \in Seq(Frames), NEW now \in Nat, NEW size \in Nat \ {0},
         OnTheirWay(s, q, <<>>, now), NEW h, h = <<>> \/ h = Samples(now, size)
  PROVE  h \in Seq(Nat) /\ OnTheirWay(s, q, h, now + size)
<1>1. /\ Rises(s) /\ Until(s, now)
      /\ \A f \in 1..Len(q) : Rises(q[f]) /\ Until(q[f], now) /\ Precedes(s, q[f])
      /\ \A f, g \in 1..Len(q) : f < g => Precedes(q[f], q[g])
  BY DEF OnTheirWay
<1>2. \A f \in 1..Len(q) : q[f] \in Seq(Nat)
  BY DEF Frames
<1>3. /\ h \in Seq(Nat) /\ Len(h) \in {0, size}
      /\ \A i \in 1..Len(h) : h[i] = now + i
  <2>1. CASE h = <<>>
    BY <2>1
  <2>2. CASE h = Samples(now, size)
    <3>1. h \in [1..size -> Nat]
      BY <2>2 DEF Samples
    <3>2. h \in Seq(Nat) /\ Len(h) = size
      BY <3>1, SeqDef
    <3> QED BY <2>2, <3>2 DEF Samples
  <2> QED BY <2>1, <2>2
<1>4. Rises(h) /\ Until(h, now + size)
  <2>1. \A i \in 1..Len(h) : i \in Nat /\ i <= size
    BY <1>3
  <2> QED BY <1>3, <2>1 DEF Rises, Until
<1>5. ASSUME NEW t \in Seq(Nat), Until(t, now)
      PROVE  Precedes(t, h) /\ Until(t, now + size)
  <2>1. \A i \in 1..Len(t) : t[i] \in Nat /\ t[i] <= now
    BY <1>5 DEF Until
  <2>2. \A j \in 1..Len(h) : j \in Nat /\ j >= 1 /\ h[j] = now + j
    BY <1>3
  <2> QED BY <2>1, <2>2, SMTT(30) DEF Precedes, Until
<1>6. \A f \in 1..Len(q) : Precedes(q[f], h) /\ Until(q[f], now + size)
  BY <1>1, <1>2, <1>5
<1>7. Precedes(s, h) /\ Until(s, now + size)
  BY <1>1, <1>5
<1> HIDE DEF Rises, Until, Precedes
<1> QED BY <1>1, <1>3, <1>4, <1>6, <1>7 DEF OnTheirWay

-----------------------------------------------------------------------------
LEMMA NewestOfNothing == NewestPart(<<>>) = <<>>
<1>1. Len(<<>>) = 0 /\ ~(0 > MaximumSamples)
  BY AudioAssumption
<1>2. NewestPart(<<>>) = SubSeq(<<>>, 1, 0)
  BY <1>1 DEF NewestPart
<1>3. SubSeq(<<>>, 1, 0) = <<>>
  BY SubSeqEmpty
<1> QED BY <1>2, <1>3

LEMMA AudioInitially == AudioInit => AudioInv
<1> SUFFICES ASSUME AudioInit PROVE AudioInv
  OBVIOUS
<1>1. AudioTypes
  <2>1. /\ <<>> \in Seq(Nat) /\ <<>> \in Seq(Frames) /\ <<>> \in Seq(Moments)
        /\ Len(<<>>) = 0 /\ FreshResampler \in ResamplerStates
    BY DEF FreshResampler, NoSample, ResamplerStates
  <2>2. /\ 0 \in 0..MaxSamples /\ 0 \in 0..MaxMutes /\ 0 <= QueueFrames
    BY AudioAssumption
  <2> QED BY <2>1, <2>2 DEF AudioInit, AudioTypes, Closed
<1>2. ClockInv
  BY DEF AudioInit, ClockInv, OnTheirWay, Rises, Precedes, Until
<1>3. PrerollInv
  BY NewestOfNothing, TilingEmpty DEF AudioInit, PrerollInv
<1> QED BY <1>1, <1>2, <1>3 DEF AudioInit, AudioInv, ResampleInv

\* What a read does, from the invariant.
LEMMA FrameReadKeeps ==
  ASSUME AudioInv, ReadFrame
  PROVE  AudioInv'
<1> DEFINE frame == Head(frames)
           output == Output(resampler, frame)
           n == Len(heard)
           r == Reached(resampler, frame)
           whole == consumed \o frame
<1>1. /\ AudioTypes /\ ClockInv /\ ResampleInv /\ PrerollInv
  BY DEF AudioInv
<1>2. /\ nativeRate # Closed /\ frames # <<>>
      /\ resampler' = Processed(resampler, frame)
      /\ consumed' = whole /\ heard' = heard \o output
      /\ \/ ring' = AppendToRing(output) /\ kept' = kept \o output
         \/ UNCHANGED <<ring, kept>>
      /\ frames' = Tail(frames)
      /\ UNCHANGED <<clock, nativeRate, captureMuted, inCallback, mutes>>
  BY DEF ReadFrame
<1>3. /\ TargetRate \in Nat \ {0} /\ nativeRate \in Nat \ {0} /\ MaximumSamples \in Nat \ {0}
      /\ QueueFrames \in Nat
  BY <1>1, <1>2, AudioAssumption DEF AudioTypes, Closed
<1>4. /\ consumed \in Seq(Nat) /\ heard \in Seq(Moments) /\ frames \in Seq(Frames)
      /\ inCallback \in Seq(Nat) /\ resampler \in ResamplerStates /\ Len(frames) <= QueueFrames
      /\ n \in Nat
  BY <1>1 DEF AudioTypes
<1>5. /\ frame \in Seq(Nat) /\ frame # <<>>
      /\ Tail(frames) \in Seq(Frames) /\ Len(Tail(frames)) <= QueueFrames
  <2>1. /\ Len(frames) \in Nat /\ frame \in Frames /\ Len(Tail(frames)) = Len(frames) - 1
        /\ Tail(frames) \in Seq(Frames)
    BY <1>2, <1>4
  <2>2. Len(Tail(frames)) <= QueueFrames
    BY <1>3, <1>4, <2>1
  <2> QED BY <2>1, <2>2 DEF Frames
<1>6. Holds(resampler, consumed, n)
  BY <1>1, <1>2 DEF ResampleInv
<1>7. /\ r \in Nat
      /\ Processed(resampler, frame) \in ResamplerStates
      /\ Holds(Processed(resampler, frame), whole, n + r)
      /\ \A k \in 1..r : /\ Ceiling((n + k - 1) * nativeRate) < Len(whole)
                         /\ output[k] = Reference(whole, n + k - 1)
                         /\ output[k] \in Moments
  <2> HIDE DEF frame, n
  <2> QED BY <1>3, <1>4, <1>5, <1>6, FrameResampled
<1>8. output \in Seq(Moments) /\ Len(output) = r
  <2>1. output = [k \in 1..r |-> Interpolated(resampler, frame, resampler.next + (k - 1) * nativeRate)]
    BY DEF Output
  <2> HIDE DEF r, output
  <2>2. output \in [1..r -> Moments]
    BY <1>7, <2>1
  <2> QED BY <1>7, <2>2, SeqDef
<1>9. /\ whole \in Seq(Nat) /\ Len(consumed) \in Nat /\ Len(whole) >= Len(consumed)
      /\ Len(whole) \in Nat
      /\ \A i \in 1..Len(consumed) : whole[i] = consumed[i]
  <2> HIDE DEF frame
  <2>1. /\ whole \in Seq(Nat) /\ Len(whole) = Len(consumed) + Len(frame)
        /\ \A i \in 1..Len(consumed) + Len(frame) :
             whole[i] = IF i <= Len(consumed) THEN consumed[i] ELSE frame[i - Len(consumed)]
    BY <1>4, <1>5, ConcatProperties
  <2>2. Len(consumed) \in Nat /\ Len(frame) \in Nat
    BY <1>4, <1>5
  <2> HIDE DEF whole
  <2> QED BY <2>1, <2>2
<1> HIDE DEF frame, output, r, whole
<1>10. /\ heard \o output \in Seq(Moments) /\ Len(heard \o output) = n + r
       /\ \A k \in 1..n + r : (heard \o output)[k] = IF k <= n THEN heard[k] ELSE output[k - n]
  BY <1>4, <1>8, ConcatProperties
<1>11. AudioTypes'
  BY <1>1, <1>2, <1>5, <1>7, <1>9, <1>10 DEF AudioTypes
<1>12. ClockInv'
  <2>1. OnTheirWay(whole, Tail(frames), inCallback, clock)
    BY <1>1, <1>2, <1>4, FrameRead DEF ClockInv, whole, frame
  <2> QED BY <1>2, <2>1 DEF ClockInv
<1>13. ASSUME NEW k \in 1..n + r
       PROVE  /\ Ceiling((k - 1) * nativeRate) < Len(whole)
              /\ (heard \o output)[k] = Reference(whole, k - 1)
  <2>1. CASE k <= n
    <3>1. k \in 1..n /\ k - 1 \in Nat
      BY <1>4, <2>1
    <3>2. /\ Ceiling((k - 1) * nativeRate) < Len(consumed)
          /\ heard[k] = Reference(consumed, k - 1)
      BY <1>1, <1>2, <3>1 DEF ResampleInv
    <3> DEFINE x == (k - 1) * nativeRate
    <3>3. x \in Nat
      BY <1>3, <3>1
    <3> HIDE DEF x
    <3>4. Ceiling(x) \in Nat /\ Floor(x) \in Nat /\ Floor(x) <= Ceiling(x)
      BY <1>3, <3>3, Rounded
    <3>5. Ceiling(x) < Len(consumed)
      BY <3>2 DEF x
    <3>6. Ceiling(x) + 1 \in 1..Len(consumed) /\ Floor(x) + 1 \in 1..Len(consumed)
      BY <1>9, <3>4, <3>5
    <3>7. whole[Floor(x) + 1] = consumed[Floor(x) + 1] /\ whole[Ceiling(x) + 1] = consumed[Ceiling(x) + 1]
      BY <1>9, <3>6
    <3>8. Reference(consumed, k - 1) = Reference(whole, k - 1)
      BY <3>7 DEF Reference, x
    <3>9. Ceiling(x) < Len(whole)
      BY <1>9, <3>4, <3>5
    <3> QED BY <1>10, <2>1, <3>2, <3>8, <3>9 DEF x
  <2>2. CASE ~(k <= n)
    <3>1. k - n \in 1..r /\ n + (k - n) - 1 = k - 1
      BY <1>4, <1>7, <2>2
    <3> QED BY <1>7, <1>10, <2>2, <3>1
  <2> QED BY <2>1, <2>2
<1>14. ResampleInv'
  <2>1. nativeRate' = nativeRate /\ Len(heard') = n + r
    BY <1>2, <1>10
  <2>2. Holds(resampler, consumed, Len(heard))'
    BY <1>2, <1>7, <2>1 DEF Holds
  <2>3. ASSUME NEW k \in 1..Len(heard')
        PROVE  (/\ Ceiling((k - 1) * nativeRate) < Len(consumed)
                /\ heard[k] = Reference(consumed, k - 1))'
    BY <1>2, <1>13, <2>1, <2>3 DEF Reference
  <2> QED BY <2>1, <2>2, <2>3 DEF ResampleInv
<1>15. PrerollInv'
  <2>1. CASE UNCHANGED <<ring, kept>>
    BY <1>1, <2>1 DEF PrerollInv
  <2>2. CASE ring' = AppendToRing(output) /\ kept' = kept \o output
    <3>1. /\ kept \in Seq(Moments) /\ ring \in Seq(Seq(Moments))
          /\ \A i \in DOMAIN ring : ring[i] # <<>>
          /\ Tiles(ring, NewestPart(kept))
      BY <1>1 DEF PrerollInv
    <3>2. /\ AppendToRing(output) \in Seq(Seq(Moments))
          /\ \A i \in DOMAIN AppendToRing(output) : AppendToRing(output)[i] # <<>>
          /\ Tiles(AppendToRing(output), NewestPart(kept \o output))
      BY <1>3, <1>8, <3>1, RingAppended
    <3>3. kept \o output \in Seq(Moments)
      BY <1>8, <3>1, ConcatProperties
    <3> QED BY <2>2, <3>2, <3>3 DEF PrerollInv
  <2> QED BY <1>2, <2>1, <2>2
<1> QED BY <1>11, <1>12, <1>14, <1>15 DEF AudioInv

\* Where the resampler and what it read stay as they are.
LEMMA ResampleUnchanged ==
  ASSUME ResampleInv, UNCHANGED <<nativeRate, resampler, consumed, heard>>
  PROVE  ResampleInv'
BY DEF ResampleInv, Holds, Ceiling, Reference, Floor

LEMMA PrerollUnchanged ==
  ASSUME PrerollInv, UNCHANGED <<ring, kept>>
  PROVE  PrerollInv'
BY DEF PrerollInv

LEMMA PrerollCleared ==
  ASSUME ring' = <<>>, kept' = <<>>
  PROVE  PrerollInv'
BY NewestOfNothing, TilingEmpty DEF PrerollInv

LEMMA AudioPreserved == AudioInv /\ [AudioNext]_audioVars => AudioInv'
<1> SUFFICES ASSUME AudioInv, [AudioNext]_audioVars PROVE AudioInv'
  OBVIOUS
<1>1. AudioTypes /\ ClockInv /\ ResampleInv /\ PrerollInv
  BY DEF AudioInv
<1>2. OnTheirWay(consumed, frames, inCallback, clock)
  BY <1>1 DEF ClockInv
<1>3. /\ consumed \in Seq(Nat) /\ frames \in Seq(Frames) /\ inCallback \in Seq(Nat)
      /\ Len(frames) <= QueueFrames /\ clock \in Nat /\ Len(frames) \in Nat
  BY <1>1, AudioAssumption DEF AudioTypes
<1>4. <<>> \in Seq(Nat) /\ <<>> \in Seq(Frames) /\ Len(<<>>) = 0 /\ <<>> \in Seq(Moments)
      /\ QueueFrames \in Nat /\ QueueFrames >= 1
  BY AudioAssumption
<1>5. CASE StartStream
  <2>1. FreshResampler \in ResamplerStates
    BY DEF FreshResampler, NoSample, ResamplerStates
  <2>2. AudioTypes'
    BY <1>1, <1>4, <1>5, <2>1 DEF AudioTypes, StartStream
  <2>3. ClockInv'
    <3>1. nativeRate' # Closed
      BY <1>5, AudioAssumption DEF StartStream, Closed
    <3> QED BY <1>2, <1>5, <3>1, NothingOnItsWay DEF ClockInv, StartStream
  <2>4. ResampleInv'
    <3>1. nativeRate' \in Nat /\ TargetRate \in Nat \ {0}
      BY <1>5, AudioAssumption DEF StartStream
    <3>2. 0 * nativeRate' = 0 /\ Ceiling(0) \in Nat
      <4>1. Ceiling(0) \in Nat
        BY <3>1, Rounded, 0 \in Nat
      <4>2. \A rate \in Nat : 0 * rate = 0
        OBVIOUS
      <4> QED BY <3>1, <4>1, <4>2
    <3>3. /\ resampler' = FreshResampler /\ consumed' = <<>> /\ heard' = <<>>
      BY <1>5 DEF StartStream
    <3>4. Holds(resampler, consumed, Len(heard))'
      <4>1. Len(heard') = 0 /\ Len(consumed') = 0
        BY <3>3
      <4>2. Ceiling(0) >= 0
        BY <3>2
      <4> QED BY <3>2, <3>3, <4>1, <4>2 DEF Holds, FreshResampler, Ceiling
    <3> QED BY <3>3, <3>4 DEF ResampleInv
  <2>5. PrerollInv'
    BY <1>5, PrerollCleared DEF StartStream
  <2> QED BY <2>2, <2>3, <2>4, <2>5 DEF AudioInv
<1>6. CASE StopStream
  <2>1. FreshResampler \in ResamplerStates
    BY DEF FreshResampler, NoSample, ResamplerStates
  <2>2. AudioTypes'
    BY <1>1, <1>4, <1>6, <2>1 DEF AudioTypes, StopStream
  <2>3. ClockInv'
    BY <1>2, <1>6, NothingOnItsWay DEF ClockInv, StopStream
  <2>4. ResampleInv'
    BY <1>6 DEF ResampleInv, StopStream
  <2>5. PrerollInv'
    BY <1>1, <1>6, PrerollUnchanged DEF StopStream
  <2> QED BY <2>2, <2>3, <2>4, <2>5 DEF AudioInv
<1>7. CASE Captured
  <2>1. PICK size \in FrameSizes :
          /\ clock + size <= MaxSamples /\ clock' = clock + size
          /\ inCallback' = IF captureMuted THEN <<>> ELSE Samples(clock, size)
    BY <1>7 DEF Captured
  <2>2. /\ nativeRate # Closed /\ inCallback = <<>>
        /\ UNCHANGED <<nativeRate, captureMuted, frames, resampler, ring, consumed, heard,
                       kept, mutes>>
    BY <1>7 DEF Captured
  <2>3. size \in Nat \ {0}
    BY AudioAssumption
  <2>4. inCallback' \in Seq(Nat) /\ OnTheirWay(consumed, frames, inCallback', clock + size)
    BY <1>2, <1>3, <2>1, <2>2, <2>3, FrameCaptured
  <2>5. AudioTypes'
    <3>1. clock' \in 0..MaxSamples
      BY <1>3, <2>1, <2>3, AudioAssumption
    <3> QED BY <1>1, <2>2, <2>4, <3>1 DEF AudioTypes
  <2>6. ClockInv'
    BY <2>1, <2>2, <2>4 DEF ClockInv
  <2> QED BY <1>1, <2>2, <2>5, <2>6, ResampleUnchanged, PrerollUnchanged DEF AudioInv
<1>8. CASE PutFrame
  <2>1. /\ inCallback \in Frames
        /\ frames' = Enqueued(frames, inCallback) /\ inCallback' = <<>>
        /\ UNCHANGED <<clock, nativeRate, captureMuted, resampler, ring, consumed, heard,
                       kept, mutes>>
    BY <1>3, <1>8 DEF PutFrame, Frames
  <2>2. nativeRate # Closed
    BY <1>1, <1>8 DEF ClockInv, PutFrame
  <2>3. /\ frames' \in Seq(Frames) /\ Len(frames') <= QueueFrames
        /\ OnTheirWay(consumed, frames', <<>>, clock)
    <3>1. CASE Len(frames) < QueueFrames
      <4>1. frames' = Append(frames, inCallback)
        BY <2>1, <3>1 DEF Enqueued
      <4>2. OnTheirWay(consumed, Append(frames, inCallback), <<>>, clock)
        BY <1>2, <1>3, <2>1, FramePut
      <4>3. Append(frames, inCallback) \in Seq(Frames)
            /\ Len(Append(frames, inCallback)) = Len(frames) + 1
        BY <1>3, <2>1
      <4>4. Len(Append(frames, inCallback)) <= QueueFrames
        BY <1>3, <1>4, <3>1, <4>3
      <4> QED BY <4>1, <4>2, <4>3, <4>4
    <3>2. CASE ~(Len(frames) < QueueFrames)
      <4>1. frames' = Append(Tail(frames), inCallback)
        BY <2>1, <3>2 DEF Enqueued
      <4>2. frames # <<>>
        BY <1>3, <1>4, <3>2
      <4>3. Tail(frames) \in Seq(Frames) /\ Len(Tail(frames)) = Len(frames) - 1
        BY <1>3, <4>2
      <4>4. OnTheirWay(consumed, Append(Tail(frames), inCallback), <<>>, clock)
        BY <1>2, <1>3, <2>1, <4>2, <4>3, OldestGivenUp, FramePut
      <4>5. /\ Append(Tail(frames), inCallback) \in Seq(Frames)
            /\ Len(Append(Tail(frames), inCallback)) = Len(Tail(frames)) + 1
        BY <2>1, <4>3
      <4>6. Len(Append(Tail(frames), inCallback)) <= QueueFrames
        BY <1>3, <1>4, <4>3, <4>5
      <4> QED BY <4>1, <4>4, <4>5, <4>6
    <3> QED BY <3>1, <3>2
  <2>4. AudioTypes'
    BY <1>1, <1>4, <2>1, <2>3 DEF AudioTypes
  <2>5. ClockInv'
    BY <2>1, <2>2, <2>3 DEF ClockInv
  <2> QED BY <1>1, <2>1, <2>4, <2>5, ResampleUnchanged, PrerollUnchanged DEF AudioInv
<1>9. CASE ReadFrame
  BY <1>9, FrameReadKeeps
<1>10. CASE SetCaptureMuted
  <2>1. /\ mutes < MaxMutes /\ mutes' = mutes + 1 /\ captureMuted' = ~captureMuted
        /\ frames' = <<>>
        /\ UNCHANGED <<clock, nativeRate, inCallback, resampler, ring, consumed, heard, kept>>
    BY <1>10 DEF SetCaptureMuted
  <2>2. AudioTypes'
    <3>1. mutes' \in 0..MaxMutes /\ captureMuted' \in BOOLEAN
      BY <1>1, <2>1, AudioAssumption DEF AudioTypes
    <3> QED BY <1>1, <1>4, <2>1, <3>1 DEF AudioTypes
  <2>3. ClockInv'
    BY <1>1, <1>2, <2>1, NothingOnItsWay DEF ClockInv
  <2> QED BY <1>1, <2>1, <2>2, <2>3, ResampleUnchanged, PrerollUnchanged DEF AudioInv
<1>11. CASE DiscardPending
  <2>1. /\ nativeRate # Closed /\ mutes < MaxMutes /\ mutes' = mutes + 1
        /\ frames' = <<>> /\ ring' = <<>> /\ kept' = <<>>
        /\ UNCHANGED <<clock, nativeRate, captureMuted, inCallback, resampler, consumed, heard>>
    BY <1>11 DEF DiscardPending
  <2>2. AudioTypes'
    <3>1. mutes' \in 0..MaxMutes
      BY <1>1, <2>1, AudioAssumption DEF AudioTypes
    <3> QED BY <1>1, <1>4, <2>1, <3>1 DEF AudioTypes
  <2>3. ClockInv'
    BY <1>2, <2>1, NothingOnItsWay DEF ClockInv
  <2> QED BY <1>1, <2>1, <2>2, <2>3, ResampleUnchanged, PrerollCleared DEF AudioInv
<1>12. CASE UNCHANGED audioVars
  <2>1. AudioTypes'
    BY <1>1, <1>12 DEF AudioTypes, audioVars
  <2>2. ClockInv'
    BY <1>1, <1>12 DEF ClockInv, audioVars
  <2>3. UNCHANGED <<nativeRate, resampler, consumed, heard>> /\ UNCHANGED <<ring, kept>>
    BY <1>12 DEF audioVars
  <2> QED BY <1>1, <2>1, <2>2, <2>3, ResampleUnchanged, PrerollUnchanged DEF AudioInv
<1> QED BY <1>5, <1>6, <1>7, <1>8, <1>9, <1>10, <1>11, <1>12 DEF AudioNext

LEMMA AudioIsTyped == AudioInv => AudioTypeOK
BY DEF AudioInv, AudioTypes, PrerollInv, AudioTypeOK, ResamplerStates

\* Types: the microphone's queue never holds more frames than it has room for, the
\* resampler's counters never go below zero, and no empty chunk stays in the
\* pre-roll (voice/audio.py).
THEOREM AudioTypeCorrect == AudioSpec => []AudioTypeOK
BY AudioIsTyped, AudioInitially, AudioPreserved, PTL DEF AudioSpec

\* One timeline: whatever rates, frame sizes, overflows, mutes and restarts of the
\* stream, the samples recognition reads are in the order of the clock, each
\* sample the resampler passed on is the one that interpolating the whole stream
\* at once gives there, none is left out, and the pre-roll is the newest part
\* of what it was given (voice/audio.py StreamingLinearResampler,
\* SampleRingBuffer).
THEOREM TimelineIsOne == AudioSpec => []OneTimeline
<1>1. AudioInv => OneTimeline
  <2> SUFFICES ASSUME AudioInv, nativeRate # Closed
               PROVE  /\ \A i \in 1..(Len(consumed) - 1) : consumed[i] < consumed[i + 1]
                      /\ \A k \in 1..Len(heard) : heard[k] = Reference(consumed, k - 1)
                      /\ consumed # <<>> => Ceiling(Len(heard) * nativeRate) >= Len(consumed)
                      /\ FlattenSeq(ring) = NewestPart(kept)
    BY DEF OneTimeline, NewestPart
  <2>1. AudioTypes /\ ClockInv /\ ResampleInv /\ PrerollInv
    BY DEF AudioInv
  <2>2. ASSUME NEW i \in 1..(Len(consumed) - 1) PROVE consumed[i] < consumed[i + 1]
    <3>1. Rises(consumed) /\ Len(consumed) \in Nat
      BY <2>1 DEF ClockInv, OnTheirWay, AudioTypes
    <3>2. i \in 1..Len(consumed) /\ i + 1 \in 1..Len(consumed) /\ i < i + 1
      BY <3>1
    <3> QED BY <3>1, <3>2 DEF Rises
  <2>3. /\ \A k \in 1..Len(heard) : heard[k] = Reference(consumed, k - 1)
        /\ Ceiling(Len(heard) * nativeRate) >= Len(consumed)
    BY <2>1 DEF ResampleInv, Holds
  <2>4. FlattenSeq(ring) = NewestPart(kept)
    <3>1. /\ kept \in Seq(Moments) /\ ring \in Seq(Seq(Moments)) /\ Tiles(ring, NewestPart(kept))
      BY <2>1 DEF PrerollInv
    <3>2. NewestPart(kept) \in Seq(Moments)
      BY <3>1, AudioAssumption, NewestPartIs
    <3> QED BY <3>1, <3>2, FlattenIs
  <2> QED BY <2>2, <2>3, <2>4
<1> QED BY <1>1, AudioInitially, AudioPreserved, PTL DEF AudioSpec
=============================================================================
