-------------------------- MODULE ComponentProofs --------------------------
(***************************************************************************)
(* Theorems about the components of the run "components" that have no      *)
(* module of proofs to themselves, for any values of their constants.      *)
(***************************************************************************)
EXTENDS SpotifyClient, MemoryService, NetworkService, DeviceControl, ChatService, Lifecycle,
        FaceAnimator, VoiceService, SpeechOutput, FiniteSetTheorems, TLAPS

-----------------------------------------------------------------------------
\* SpotifyClient.

\* A call that has not ended has changed nothing that plays.
OnceInv ==
  \A t \in Tools :
    /\ call[t].at # "free" => executed[t] = 0 /\ call[t].ended = "none"
    /\ call[t].ended = "success" => executed[t] = 1
    /\ executed[t] <= 1

\* A service that never replaces the refresh token has issued the one, and an
\* empty file is being written or was lost.  One that does has the answer of its
\* last exchange on the way to the file, known to nobody else and written by
\* nobody else, or nobody has an answer to save.
SignedInInv ==
  /\ service.refresh <= service.issued /\ tokenFile.refresh <= service.issued
  /\ \A t \in Tools : call[t].token.refresh <= service.issued
  /\ ~service.rotates =>
       /\ service.refresh = 1 /\ \A t \in Tools : call[t].token.refresh = 1
       /\ tokenFile # Blank => tokenFile.refresh = 1
       /\ tokenFile = Blank /\ losses = {} => \E t \in Tools : call[t].at = "write"
  /\ service.rotates => \A t \in Tools : SavesToken(t) =>
       /\ call[t].token.refresh = service.refresh /\ service.refresh > 1
       /\ tokenFile.refresh # service.refresh
       /\ call[t].at = "write" => tokenFile = Blank
       /\ \A u \in Tools \ {t} : call[u].token.refresh # service.refresh

SpotifyInv == SpotifyTypeOK /\ OnceInv /\ SignedInInv /\ OnceAndStillSignedIn

LEMMA SpotifyInitially == SpotifyInit => SpotifyInv
  <1> SUFFICES ASSUME SpotifyInit PROVE SpotifyInv
    OBVIOUS
  <1>1. NoCall.token \in TokenPair /\ 1 \in TokenNumbers
    BY SpotifyAssumption, SMT DEF NoCall, TokenPair, TokenNumbers
  <1>2. service \in [refresh : TokenNumbers, rotates : BOOLEAN, issued : TokenNumbers,
                     expired : 0..MaxIssues]
    BY <1>1, SpotifyAssumption, SMT DEF SpotifyInit
  <1>3. NoCall \in CallRecord
    BY <1>1, SpotifyAssumption, SMT DEF NoCall, CallRecord, Changes
  <1>4. call \in [Tools -> CallRecord] /\ tokenFile \in TokenPair
    BY <1>1, <1>3 DEF SpotifyInit
  <1>5. /\ executed \in [Tools -> Nat] /\ losses \subseteq {"answer", "save", "mixed"}
        /\ expiries \in 0..MaxExpiries
    <2>1. 0 \in Nat /\ 0 \in 0..MaxExpiries
      BY SpotifyAssumption
    <2> QED  BY <2>1 DEF SpotifyInit
  <1>6. OnceInv /\ SignedInInv /\ OnceAndStillSignedIn
    BY SMT DEF SpotifyInit, OnceInv, SignedInInv, OnceAndStillSignedIn, SignedIn, SavesToken, NoCall,
      Tools, Blank
  <1> QED  BY <1>2, <1>4, <1>5, <1>6 DEF SpotifyInv, SpotifyTypeOK

\* The calls after a step of one tool, whose call has become c.
Becomes(t, c) ==
  /\ call' \in [Tools -> CallRecord]
  /\ call'[t] = c
  /\ \A u \in Tools \ {t} : call'[u] = call[u]

LEMMA CallBecomes ==
  ASSUME call \in [Tools -> CallRecord], NEW t \in Tools, NEW c \in CallRecord,
         call' = [call EXCEPT ![t] = c]
  PROVE  Becomes(t, c)
  BY DEF Becomes

\* What a call is after it ended, went on with a token, asked for a new one, or
\* asked again.
Ended(c, how) == [c EXCEPT !.at = "free", !.ended = how]
Carrying(c, at, token) == [c EXCEPT !.at = at, !.token = token]

LEMMA CallSteps ==
  ASSUME call \in [Tools -> CallRecord], NEW t \in Tools
  PROVE  /\ \A how \in {"success", "failed"} : Ends(t, how) =>
              Becomes(t, Ended(call[t], how))
         /\ \A at \in {"send", "exchange", "save"}, token \in TokenPair :
              Carries(t, at, token) => Becomes(t, Carrying(call[t], at, token))
  <1>1. ASSUME NEW how \in {"success", "failed"}, Ends(t, how)
        PROVE  Becomes(t, Ended(call[t], how))
    <2>1. Ended(call[t], how) \in CallRecord
      BY <1>1, ZenonT(40) DEF Ended, CallRecord
    <2> QED  BY <1>1, <2>1, CallBecomes DEF Ends, Ended
  <1>2. ASSUME NEW at \in {"send", "exchange", "save"}, NEW token \in TokenPair,
               Carries(t, at, token)
        PROVE  Becomes(t, Carrying(call[t], at, token))
    <2>1. Carrying(call[t], at, token) \in CallRecord
      BY <1>2, ZenonT(40) DEF Carrying, CallRecord
    <2> QED  BY <1>2, <2>1, CallBecomes DEF Carries, Carrying
  <1> QED  BY <1>1, <1>2

\* A call ended, or went on to its next place with one of the known tokens.
Fails(t) == call'[t].at = "free" /\ call'[t].ended = "failed" /\ call'[t].token = call[t].token
Proceeds(t, places) ==
  /\ call'[t].at \in places /\ call'[t].ended = call[t].ended
  /\ call'[t].token = call[t].token \/ (call'[t].token = tokenFile /\ tokenFile # Blank)

Stepped(t) == call' \in [Tools -> CallRecord] /\ \A u \in Tools \ {t} : call'[u] = call[u]

LEMMA EndedCall ==
  ASSUME call \in [Tools -> CallRecord], NEW t \in Tools, NEW how \in {"success", "failed"},
         Ends(t, how)
  PROVE  /\ Stepped(t) /\ call'[t].at = "free" /\ call'[t].ended = how
         /\ call'[t].token = call[t].token
  <1>1. Becomes(t, Ended(call[t], how))
    BY CallSteps
  <1>2. call[t] \in CallRecord
    OBVIOUS
  <1> QED  BY <1>1, <1>2 DEF Becomes, Ended, Stepped, CallRecord

LEMMA CarryingCall ==
  ASSUME call \in [Tools -> CallRecord], NEW t \in Tools,
         NEW at \in {"send", "exchange", "save"}, NEW token \in TokenPair, Carries(t, at, token)
  PROVE  /\ Stepped(t) /\ call'[t].at = at /\ call'[t].ended = call[t].ended
         /\ call'[t].token = token
  <1>1. Becomes(t, Carrying(call[t], at, token))
    BY CallSteps
  <1>2. call[t] \in CallRecord
    OBVIOUS
  <1> QED  BY <1>1, <1>2 DEF Becomes, Carrying, Stepped, CallRecord

\* A call that goes on with its own token.
LEMMA RetriedCall ==
  ASSUME call \in [Tools -> CallRecord], NEW t \in Tools, NEW c \in CallRecord,
         call' = [call EXCEPT ![t] = c], c.ended = call[t].ended, c.token = call[t].token
  PROVE  Stepped(t) /\ Proceeds(t, {c.at})
  BY CallBecomes DEF Becomes, Stepped, Proceeds

\* Who neither reads an answer nor saves a token leaves the sign-in as it is.
LEMMA OnceAndStillStays ==
  ASSUME SpotifyInv, OnceInv', UNCHANGED <<tokenFile, losses>>,
         service'.refresh = service.refresh, service'.rotates = service.rotates,
         \A u \in Tools : SavesToken(u) => call'[u] = call[u]
  PROVE  OnceAndStillSignedIn'
  <1>1. SignedIn => SignedIn'
    BY DEF SignedIn, SavesToken
  <1> QED  BY <1>1 DEF SpotifyInv, OnceAndStillSignedIn, OnceInv

\* A step of a call before its request: a failure, or a place on the way to it.
LEMMA SpotifyBefore ==
  ASSUME SpotifyInv, NEW t \in Tools,
         Checkpoint(t) \/ LoadToken(t) \/ ReadRefreshToken(t) \/ AnswerUnauthorised(t)
           \/ AnswerTooMany(t)
  PROVE  SpotifyInv'
  <1>1. /\ call \in [Tools -> CallRecord] /\ call[t] \in CallRecord
        /\ tokenFile # Blank => tokenFile \in TokenPair
    BY DEF SpotifyInv, SpotifyTypeOK
  <1>2. /\ Stepped(t) /\ call[t].at \notin {"free", "save", "write"}
        /\ Fails(t) \/ Proceeds(t, {"load", "send", "renew", "exchange"})
    <2>1. CASE Ends(t, "failed") /\ call[t].at \notin {"free", "save", "write"}
      BY <1>1, <2>1, EndedCall DEF Fails
    <2>2. CASE LoadToken(t) /\ tokenFile # Blank /\ Carries(t, "send", tokenFile)
      BY <1>1, <2>2, CarryingCall DEF LoadToken, Proceeds
    <2>3. CASE LoadToken(t) /\ Renews(t, "send")
      <3> DEFINE c == [call[t] EXCEPT !.at = "renew", !.resume = "send"]
      <3>1. /\ c \in CallRecord /\ c.ended = call[t].ended /\ c.token = call[t].token
            /\ c.at = "renew"
        BY <1>1 DEF CallRecord
      <3>2. Stepped(t) /\ Proceeds(t, {"renew"})
        BY <1>1, <2>3, <3>1, RetriedCall DEF Renews
      <3> QED  BY <2>3, <3>2 DEF LoadToken, Proceeds
    <2>4. CASE ReadRefreshToken(t) /\ tokenFile # Blank /\ Carries(t, "exchange", tokenFile)
      BY <1>1, <2>4, CarryingCall DEF ReadRefreshToken, Proceeds
    <2>5. CASE AnswerUnauthorised(t) /\ ~Ends(t, "failed")
      <3> DEFINE c == [call[t] EXCEPT !.at = "renew", !.resume = "load", !.retryAuth = FALSE]
      <3>1. /\ c \in CallRecord /\ c.ended = call[t].ended /\ c.token = call[t].token
            /\ c.at = "renew"
        BY <1>1 DEF CallRecord
      <3>2. Stepped(t) /\ Proceeds(t, {"renew"})
        BY <1>1, <2>5, <3>1, RetriedCall DEF AnswerUnauthorised
      <3> QED  BY <2>5, <3>2 DEF AnswerUnauthorised, Proceeds
    <2>6. CASE AnswerTooMany(t) /\ ~Ends(t, "failed")
      <3> DEFINE c == [call[t] EXCEPT !.at = "load", !.retryRate = FALSE]
      <3>1. /\ c \in CallRecord /\ c.ended = call[t].ended /\ c.token = call[t].token
            /\ c.at = "load"
        BY <1>1 DEF CallRecord
      <3>2. Stepped(t) /\ Proceeds(t, {"load"})
        BY <1>1, <2>6, <3>1, RetriedCall DEF AnswerTooMany
      <3> QED  BY <2>6, <3>2 DEF AnswerTooMany, Proceeds
    <2>7. /\ LoadToken(t) => /\ call[t].at = "load"
                            /\ \/ tokenFile # Blank /\ Carries(t, "send", tokenFile)
                               \/ Renews(t, "send")
                               \/ Ends(t, "failed")
          /\ ReadRefreshToken(t) => /\ call[t].at = "renew"
                                   /\ \/ tokenFile # Blank /\ Carries(t, "exchange", tokenFile)
                                      \/ Ends(t, "failed")
          /\ Checkpoint(t) => Ends(t, "failed") /\ call[t].at = "load"
          /\ AnswerUnauthorised(t) \/ AnswerTooMany(t) => call[t].at = "send"
      BY DEF LoadToken, ReadRefreshToken, Checkpoint, AnswerUnauthorised, AnswerTooMany
    <2> QED  BY <2>1, <2>2, <2>3, <2>4, <2>5, <2>6, <2>7
  <1>3. UNCHANGED <<tokenFile, service, executed, losses, expiries>>
    BY DEF Checkpoint, LoadToken, ReadRefreshToken, AnswerUnauthorised, AnswerTooMany
  <1>4. SpotifyTypeOK'
    BY <1>2, <1>3 DEF SpotifyInv, SpotifyTypeOK, Stepped
  <1>5. OnceInv'
    BY <1>2, <1>3, SMT DEF SpotifyInv, OnceInv, Stepped, Fails, Proceeds
  <1>6. SignedInInv'
    BY <1>2, <1>3, SMT DEF SpotifyInv, SignedInInv, SavesToken, Stepped, Fails, Proceeds
  <1>7. OnceAndStillSignedIn'
    <2>1. \A u \in Tools : SavesToken(u) => call'[u] = call[u]
      BY <1>2 DEF Stepped, SavesToken
    <2> QED  BY <1>3, <1>5, <2>1, OnceAndStillStays
  <1> QED  BY <1>4, <1>5, <1>6, <1>7 DEF SpotifyInv

\* The request was answered, or nobody knows.
LEMMA SpotifyAnswered ==
  ASSUME SpotifyInv, NEW t \in Tools, AnswerOK(t) \/ AnswerLost(t)
  PROVE  SpotifyInv'
  <1>1. /\ call \in [Tools -> CallRecord] /\ call[t] \in CallRecord
        /\ executed \in [Tools -> Nat] /\ call[t].at = "send" /\ executed[t] = 0
        /\ call[t].ended = "none"
    BY DEF SpotifyInv, SpotifyTypeOK, OnceInv, AnswerOK, AnswerLost
  <1>2. UNCHANGED <<tokenFile, service, losses, expiries>>
    BY DEF AnswerOK, AnswerLost
  <1>3. /\ executed' \in [Tools -> Nat] /\ \A u \in Tools \ {t} : executed'[u] = executed[u]
        /\ executed'[t] \in {0, 1}
        /\ AnswerOK(t) => executed'[t] = IF call[t].request \in Changes THEN 1 ELSE 0
    BY <1>1, SMT DEF AnswerOK, AnswerLost, Executes
  <1>4. /\ Stepped(t) /\ call'[t].token = call[t].token
        /\ \/ call'[t].at = "free" /\ call'[t].ended = "failed"
           \/ call'[t].at = "free" /\ call'[t].ended = "success" /\ executed'[t] = 1
           \/ call'[t].at = "load" /\ call'[t].ended = "none" /\ executed'[t] = 0
    <2>1. CASE Ends(t, "failed")
      BY <1>1, <2>1, EndedCall
    <2>2. CASE AnswerOK(t) /\ ~Ends(t, "failed")
      <3>1. CASE call[t].request \in Changes
        <4>1. Ends(t, "success")
          BY <2>2, <3>1 DEF AnswerOK, Continue, Changes
        <4> QED  BY <1>1, <1>3, <2>2, <3>1, <4>1, EndedCall
      <3>2. CASE call[t].request \notin Changes
        <4>1. PICK c \in {[call[t] EXCEPT !.at = "load", !.request = "devices",
                                          !.retryAuth = TRUE, !.retryRate = TRUE],
                          [call[t] EXCEPT !.at = "load", !.request = "play",
                                          !.retryAuth = TRUE, !.retryRate = TRUE],
                          [call[t] EXCEPT !.at = "load", !.retryAuth = TRUE, !.retryRate = TRUE,
                                          !.polls = call[t].polls + 1]} :
                 /\ call' = [call EXCEPT ![t] = c]
                 /\ c.polls \in 0..DevicePolls
          <5>1. call[t].polls \in 0..DevicePolls /\ call[t].request \in {"search", "devices"}
            BY <1>1, <3>2 DEF CallRecord
          <5>2. CASE Asks(t, "devices") \/ Asks(t, "play")
            BY <1>1, <5>1, <5>2 DEF Asks, CallRecord
          <5>3. CASE /\ call[t].polls < DevicePolls
                     /\ call' = [call EXCEPT ![t] = [@ EXCEPT !.at = "load", !.retryAuth = TRUE,
                                                     !.retryRate = TRUE, !.polls = call[t].polls + 1]]
            <6>1. call[t].polls + 1 \in 0..DevicePolls
              BY <5>1, <5>3, SpotifyAssumption, SMT
            <6> DEFINE d == [call[t] EXCEPT !.at = "load", !.retryAuth = TRUE,
                                            !.retryRate = TRUE, !.polls = call[t].polls + 1]
            <6>2. d.polls = call[t].polls + 1
              BY <1>1 DEF CallRecord
            <6>3. call' = [call EXCEPT ![t] = d]
              BY <5>3
            <6>4. d.polls \in 0..DevicePolls
              BY <6>1, <6>2
            <6> HIDE DEF d
            <6>5. d = [call[t] EXCEPT !.at = "load", !.retryAuth = TRUE, !.retryRate = TRUE,
                                      !.polls = call[t].polls + 1]
              BY DEF d
            <6> QED  BY <6>3, <6>4, <6>5
          <5> QED  BY <2>2, <5>1, <5>2, <5>3 DEF AnswerOK, Continue
        <4>2. /\ c \in CallRecord /\ c.at = "load" /\ c.token = call[t].token
              /\ c.ended = call[t].ended
          BY <1>1, <4>1, ZenonT(40) DEF CallRecord, Changes
        <4>3. Becomes(t, c)
          BY <1>1, <4>1, <4>2, CallBecomes
        <4> QED  BY <1>1, <1>3, <2>2, <3>2, <4>2, <4>3 DEF Becomes, Stepped
      <3> QED  BY <3>1, <3>2
    <2> QED  BY <2>1, <2>2 DEF AnswerLost
  <1>5. SpotifyTypeOK'
    BY <1>2, <1>3, <1>4 DEF SpotifyInv, SpotifyTypeOK, Stepped
  <1>6. OnceInv'
    BY <1>1, <1>3, <1>4, SMT DEF SpotifyInv, OnceInv, Stepped
  <1>7. SignedInInv'
    BY <1>1, <1>2, <1>4, SMT DEF SpotifyInv, SignedInInv, SavesToken, Stepped
  <1>8. OnceAndStillSignedIn'
    <2>1. \A u \in Tools : SavesToken(u) => call'[u] = call[u]
      BY <1>1, <1>4 DEF Stepped, SavesToken
    <2> QED  BY <1>2, <1>6, <2>1, OnceAndStillStays
  <1> QED  BY <1>5, <1>6, <1>7, <1>8 DEF SpotifyInv

LEMMA SpotifyExchanged ==
  ASSUME SpotifyInv, NEW t \in Tools, ExchangeToken(t)
  PROVE  SpotifyInv'
  <1>1. /\ call \in [Tools -> CallRecord] /\ call[t] \in CallRecord
        /\ call[t].at = "exchange" /\ executed[t] = 0 /\ call[t].ended = "none"
        /\ losses \subseteq {"answer", "save", "mixed"}
        /\ UNCHANGED <<tokenFile, executed, expiries>>
    BY DEF SpotifyInv, SpotifyTypeOK, OnceInv, ExchangeToken
  <1>2. /\ service \in [refresh : TokenNumbers, rotates : BOOLEAN, issued : TokenNumbers,
                        expired : 0..MaxIssues]
        /\ service.issued \in 1..MaxIssues /\ service.refresh \in 1..MaxIssues
        /\ tokenFile.refresh \in 0..MaxIssues
        /\ \A u \in Tools : call[u].token.refresh \in 1..MaxIssues
    BY SpotifyAssumption, SMT
      DEF SpotifyInv, SpotifyTypeOK, CallRecord, TokenPair, TokenNumbers, Blank
  <1>3. SignedInInv /\ OnceInv /\ OnceAndStillSignedIn
    BY DEF SpotifyInv
  <1>4. CASE service' = service /\ losses' = losses /\ Ends(t, "failed")
    <2>1. Stepped(t) /\ Fails(t)
      BY <1>1, <1>4, EndedCall DEF Fails
    <2>2. SpotifyTypeOK'
      BY <1>1, <1>4, <2>1 DEF SpotifyInv, SpotifyTypeOK, Stepped
    <2>3. OnceInv'
      BY <1>1, <1>3, <2>1, SMT DEF OnceInv, Stepped, Fails
    <2>4. SignedInInv'
      BY <1>1, <1>3, <1>4, <2>1, SMT DEF SignedInInv, SavesToken, Stepped, Fails
    <2>5. OnceAndStillSignedIn'
      <3>1. \A u \in Tools : SavesToken(u) => call'[u] = call[u]
        BY <1>1, <2>1 DEF Stepped, SavesToken
      <3> QED  BY <1>1, <1>4, <2>3, <3>1, OnceAndStillStays
    <2> QED  BY <2>2, <2>3, <2>4, <2>5 DEF SpotifyInv
  <1> DEFINE answer == Issued(call[t].token)
  <1>5. CASE /\ call[t].token.refresh = service.refresh /\ service.issued < MaxIssues
             /\ service' = [service EXCEPT !.issued = @ + 1, !.refresh = answer.refresh]
             /\ \/ Carries(t, "save", answer) /\ losses' = losses
                \/ Ends(t, "failed") /\ Costs("answer", service.rotates)
    <2>1. /\ answer \in TokenPair
          /\ service.rotates => answer.refresh = service.issued + 1
          /\ ~service.rotates => answer.refresh = 1
      BY <1>2, <1>3, <1>5, SpotifyAssumption, SMT DEF Issued, TokenPair, TokenNumbers, SignedInInv
    <2>2. /\ service' \in [refresh : TokenNumbers, rotates : BOOLEAN, issued : TokenNumbers,
                           expired : 0..MaxIssues]
          /\ service'.issued = service.issued + 1 /\ service'.refresh = answer.refresh
          /\ service'.rotates = service.rotates
      <3>1. service.issued + 1 \in TokenNumbers /\ answer.refresh \in TokenNumbers
        BY <1>2, <1>5, <2>1, SpotifyAssumption, SMT DEF TokenPair, TokenNumbers
      <3> QED  BY <1>2, <1>5, <3>1
    <2>3. /\ Stepped(t)
          /\ \/ /\ call'[t].at = "save" /\ call'[t].ended = "none"
                /\ call'[t].token = answer /\ losses' = losses
             \/ Fails(t) /\ losses' = IF service.rotates THEN losses \cup {"answer"} ELSE losses
      BY <1>1, <1>5, <2>1, EndedCall, CarryingCall DEF Fails, Costs
    <2>4. SpotifyTypeOK'
      <3>1. losses' \subseteq {"answer", "save", "mixed"}
        BY <1>1, <2>3
      <3> QED  BY <1>1, <2>2, <2>3, <3>1 DEF SpotifyInv, SpotifyTypeOK, Stepped
    <2>5. OnceInv'
      BY <1>1, <1>3, <2>3, SMT DEF OnceInv, Stepped, Fails
    \* Nobody else has an answer to save: it would hold the token just used.
    <2>6. service.rotates => \A u \in Tools : ~SavesToken(u)
      BY <1>1, <1>3, <1>5 DEF SignedInInv, SavesToken
    <2> HIDE DEF answer
    <2>7. SignedInInv'
      <3>1. CASE service.rotates
        BY <1>1, <1>2, <1>3, <1>5, <2>1, <2>2, <2>3, <2>6, <3>1, SMT
          DEF SignedInInv, SavesToken, Stepped, Fails
      <3>2. CASE ~service.rotates
        BY <1>1, <1>2, <1>3, <1>5, <2>1, <2>2, <2>3, <3>2, SMT
          DEF SignedInInv, SavesToken, Stepped, Fails
      <3> QED  BY <3>1, <3>2
    <2>8. OnceAndStillSignedIn'
      <3>1. SignedIn' \/ losses' # {}
        <4>1. CASE service.rotates
          BY <2>2, <2>3, <4>1 DEF SignedIn, SavesToken
        <4>2. CASE ~service.rotates
          <5>1. \A u \in Tools : SavesToken(u) => call'[u] = call[u]
            BY <1>1, <2>3 DEF Stepped, SavesToken
          <5>2. service'.refresh = service.refresh
            BY <1>3, <2>1, <2>2, <4>2 DEF SignedInInv
          <5> QED
            BY <1>1, <1>3, <2>3, <4>2, <5>1, <5>2 DEF OnceAndStillSignedIn, SignedIn, SavesToken
        <4> QED  BY <4>1, <4>2
      <3>2. service'.rotates => "mixed" \notin losses'
        BY <1>3, <2>2, <2>3 DEF OnceAndStillSignedIn
      <3> QED  BY <2>5, <3>1, <3>2 DEF OnceAndStillSignedIn, OnceInv
    <2> QED  BY <2>4, <2>5, <2>7, <2>8 DEF SpotifyInv
  <1>6. \/ service' = service /\ losses' = losses /\ Ends(t, "failed")
        \/ /\ call[t].token.refresh = service.refresh /\ service.issued < MaxIssues
           /\ service' = [service EXCEPT !.issued = @ + 1, !.refresh = answer.refresh]
           /\ \/ Carries(t, "save", answer) /\ losses' = losses
              \/ Ends(t, "failed") /\ Costs("answer", service.rotates)
    BY DEF ExchangeToken
  <1> QED  BY <1>4, <1>5, <1>6

\* The file is emptied, or the save failed before that.
LEMMA SpotifyEmptied ==
  ASSUME SpotifyInv, NEW t \in Tools, EmptyFile(t)
  PROVE  SpotifyInv'
  <1>1. /\ call \in [Tools -> CallRecord] /\ call[t] \in CallRecord /\ call[t].at = "save"
        /\ executed[t] = 0 /\ call[t].ended = "none"
        /\ losses \subseteq {"answer", "save", "mixed"}
        /\ UNCHANGED <<service, executed, expiries>>
    BY DEF SpotifyInv, SpotifyTypeOK, OnceInv, EmptyFile
  <1>2. /\ Stepped(t) /\ call'[t].token = call[t].token
        /\ \/ /\ tokenFile' = Blank /\ losses' = losses
              /\ call'[t].at = "write" /\ call'[t].ended = "none"
           \/ /\ tokenFile' = tokenFile /\ Fails(t)
              /\ losses' = IF service.rotates THEN losses \cup {"save"} ELSE losses
    <2>1. CASE Ends(t, "failed") /\ Costs("save", service.rotates) /\ tokenFile' = tokenFile
      BY <1>1, <2>1, EndedCall DEF Fails, Costs
    <2> DEFINE c == [call[t] EXCEPT !.at = "write"]
    <2>2. CASE tokenFile' = Blank /\ losses' = losses /\ call' = [call EXCEPT ![t] = c]
      <3>1. c \in CallRecord /\ c.at = "write" /\ c.token = call[t].token /\ c.ended = call[t].ended
        BY <1>1 DEF CallRecord
      <3>2. Becomes(t, c)
        BY <1>1, <2>2, <3>1, CallBecomes
      <3> QED  BY <1>1, <2>2, <3>1, <3>2 DEF Becomes, Stepped
    <2> QED  BY <2>1, <2>2 DEF EmptyFile
  <1>3. SpotifyTypeOK'
    <2>1. losses' \subseteq {"answer", "save", "mixed"}
      BY <1>1, <1>2
    <2> QED  BY <1>1, <1>2, <2>1 DEF SpotifyInv, SpotifyTypeOK, Stepped
  <1>4. OnceInv'
    BY <1>1, <1>2, SMT DEF SpotifyInv, OnceInv, Stepped, Fails
  <1>5. SignedInInv'
    <2>1. service.issued \in 1..MaxIssues
      BY DEF SpotifyInv, SpotifyTypeOK, TokenNumbers
    <2> QED
      BY <1>1, <1>2, <2>1, SMT
        DEF SpotifyInv, SignedInInv, SavesToken, Stepped, Fails, Blank
  <1>6. OnceAndStillSignedIn'
    <2>1. SignedIn' \/ losses' # {}
      BY <1>1, <1>2, Zenon
        DEF SpotifyInv, OnceAndStillSignedIn, SignedInInv, SignedIn, SavesToken, Stepped, Fails
    <2>2. service'.rotates => "mixed" \notin losses'
      BY <1>1, <1>2 DEF SpotifyInv, OnceAndStillSignedIn
    <2> QED  BY <1>4, <2>1, <2>2 DEF OnceAndStillSignedIn, OnceInv
  <1> QED  BY <1>3, <1>4, <1>5, <1>6 DEF SpotifyInv

\* The token is written, on an empty file or over another's, or the write failed.
LEMMA SpotifySaved ==
  ASSUME SpotifyInv, NEW t \in Tools, SaveToken(t)
  PROVE  SpotifyInv'
  <1>1. /\ call \in [Tools -> CallRecord] /\ call[t] \in CallRecord /\ call[t].at = "write"
        /\ executed[t] = 0 /\ call[t].ended = "none" /\ call[t].token \in TokenPair
        /\ losses \subseteq {"answer", "save", "mixed"}
        /\ UNCHANGED <<service, executed, expiries>>
    BY DEF SpotifyInv, SpotifyTypeOK, OnceInv, SaveToken, CallRecord
  <1>2. /\ Stepped(t) /\ call'[t].token = call[t].token
        /\ \/ call'[t].at \in {"send", "load"} /\ call'[t].ended = "none"
           \/ Fails(t)
        /\ \/ tokenFile' = call[t].token /\ losses' = losses
           \/ tokenFile # Blank /\ tokenFile' = Blank /\ losses' = losses \cup {"mixed"}
           \/ tokenFile' \in {tokenFile, Blank} /\ losses' = losses \cup {"save"}
    <2>1. CASE /\ Ends(t, "failed") /\ tokenFile' \in {tokenFile, Blank}
               /\ losses' = losses \cup {"save"}
      BY <1>1, <2>1, EndedCall DEF Fails
    <2> DEFINE c == [call[t] EXCEPT !.at = call[t].resume]
    <2>2. CASE /\ call' = [call EXCEPT ![t] = c]
               /\ \/ tokenFile' = call[t].token /\ losses' = losses
                  \/ tokenFile # Blank /\ tokenFile' = Blank /\ losses' = losses \cup {"mixed"}
      <3>1. /\ c \in CallRecord /\ c.at \in {"send", "load"} /\ c.token = call[t].token
            /\ c.ended = call[t].ended
        BY <1>1 DEF CallRecord
      <3>2. Becomes(t, c)
        BY <1>1, <2>2, <3>1, CallBecomes
      <3> QED  BY <1>1, <2>2, <3>1, <3>2 DEF Becomes, Stepped
    <2> QED  BY <2>1, <2>2 DEF SaveToken, Costs
  \* With a service that replaces its token nobody else writes.
  <1>3. service.rotates => tokenFile = Blank /\ call[t].token.refresh = service.refresh
    BY <1>1 DEF SpotifyInv, SignedInInv, SavesToken
  <1>4. SpotifyTypeOK'
    <2>1. losses' \subseteq {"answer", "save", "mixed"}
      BY <1>1, <1>2
    <2>2. tokenFile' \in TokenPair \cup {Blank}
      BY <1>1, <1>2 DEF SpotifyInv, SpotifyTypeOK
    <2> QED  BY <1>1, <1>2, <2>1, <2>2 DEF SpotifyInv, SpotifyTypeOK, Stepped
  <1>5. OnceInv'
    BY <1>1, <1>2, SMT DEF SpotifyInv, OnceInv, Stepped, Fails
  <1>6. SignedInInv'
    <2>1. service.issued \in 1..MaxIssues /\ Blank.refresh = 0 /\ call[t].token # Blank
      BY <1>1, SMT DEF SpotifyInv, SpotifyTypeOK, TokenPair, TokenNumbers, Blank
    <2>2. tokenFile'.refresh <= service'.issued
      BY <1>1, <1>2, <2>1, SMT DEF SpotifyInv, SignedInInv
    <2>3. CASE service.rotates
      <3>1. \A u \in Tools : ~SavesToken(u)'
        BY <1>1, <1>2, <1>3, <2>3 DEF SpotifyInv, SignedInInv, SavesToken, Stepped, Fails
      <3> QED  BY <1>1, <1>2, <2>2, <2>3, <3>1 DEF SpotifyInv, SignedInInv, Stepped
    <2>4. CASE ~service.rotates
      <3>1. /\ tokenFile' # Blank => tokenFile'.refresh = 1
            /\ tokenFile' = Blank => losses' # {}
        BY <1>1, <1>2, <2>1, <2>4 DEF SpotifyInv, SignedInInv
      <3> QED  BY <1>1, <1>2, <2>2, <2>4, <3>1 DEF SpotifyInv, SignedInInv, Stepped
    <2> QED  BY <2>3, <2>4
  <1>7. OnceAndStillSignedIn'
    <2>1. SignedIn' \/ losses' # {}
      <3>1. call[t].token.refresh = service.refresh
        BY <1>1, <1>3 DEF SpotifyInv, SignedInInv
      <3> QED  BY <1>1, <1>2, <3>1 DEF SignedIn
    <2>2. service'.rotates => "mixed" \notin losses'
      BY <1>1, <1>2, <1>3 DEF SpotifyInv, OnceAndStillSignedIn
    <2> QED  BY <1>5, <2>1, <2>2 DEF OnceAndStillSignedIn, OnceInv
  <1> QED  BY <1>4, <1>5, <1>6, <1>7 DEF SpotifyInv

LEMMA SpotifyPreserved == SpotifyInv /\ [SpotifyNext]_spotifyVars => SpotifyInv'
  <1> SUFFICES ASSUME SpotifyInv, [SpotifyNext]_spotifyVars PROVE SpotifyInv'
    OBVIOUS
  <1>1. CASE AccessExpires
    <2>1. /\ UNCHANGED <<tokenFile, call, executed, losses>>
          /\ service' = [service EXCEPT !.expired = service.issued]
          /\ expiries' = expiries + 1 /\ expiries < MaxExpiries
      BY <1>1 DEF AccessExpires
    <2>2. /\ service \in [refresh : TokenNumbers, rotates : BOOLEAN, issued : TokenNumbers,
                          expired : 0..MaxIssues]
          /\ expiries \in 0..MaxExpiries /\ service.issued \in 0..MaxIssues
      BY DEF SpotifyInv, SpotifyTypeOK, TokenNumbers
    <2>3. /\ service' \in [refresh : TokenNumbers, rotates : BOOLEAN, issued : TokenNumbers,
                           expired : 0..MaxIssues]
          /\ service'.refresh = service.refresh /\ service'.issued = service.issued
          /\ service'.rotates = service.rotates
      BY <2>1, <2>2
    <2>4. expiries' \in 0..MaxExpiries
      BY <2>1, <2>2, SpotifyAssumption, SMT
    <2>5. SpotifyTypeOK'
      BY <2>1, <2>3, <2>4 DEF SpotifyInv, SpotifyTypeOK
    <2>6. OnceInv' /\ SignedInInv' /\ OnceAndStillSignedIn'
      BY <2>1, <2>3
        DEF SpotifyInv, OnceInv, SignedInInv, OnceAndStillSignedIn, SignedIn, SavesToken
    <2> QED  BY <2>5, <2>6 DEF SpotifyInv
  <1>2. ASSUME NEW t \in Tools, CallTool(t) PROVE SpotifyInv'
    <2>1. /\ call \in [Tools -> CallRecord] /\ call[t] \in CallRecord /\ call[t].at = "free"
          /\ executed \in [Tools -> Nat]
          /\ UNCHANGED <<tokenFile, service, losses, expiries>>
      BY <1>2 DEF SpotifyInv, SpotifyTypeOK, CallTool
    <2> DEFINE c == [NoCall EXCEPT !.at = "load", !.calls = call[t].calls + 1,
                                   !.request = IF t = "player" THEN "search" ELSE "command"]
    <2>2. /\ c \in CallRecord /\ c.at = "load" /\ c.ended = "none" /\ c.token.refresh = 1
      <3>1. call[t].calls + 1 \in 0..MaxCommands /\ 0 \in 0..DevicePolls
        BY <1>2, <2>1, SpotifyAssumption, SMT DEF CallTool, CallRecord
      <3>2. [access |-> 1, refresh |-> 1] \in TokenPair
        BY SpotifyAssumption, SMT DEF TokenPair, TokenNumbers
      <3> QED  BY <3>1, <3>2 DEF CallRecord, NoCall, Changes
    <2>3. Becomes(t, c)
      BY <1>2, <2>1, <2>2, CallBecomes DEF CallTool
    <2>4. /\ Stepped(t) /\ call'[t].at = "load" /\ call'[t].ended = "none"
          /\ call'[t].token.refresh = 1
      BY <2>2, <2>3 DEF Becomes, Stepped
    <2>5. /\ executed' \in [Tools -> Nat] /\ executed'[t] = 0
          /\ \A u \in Tools \ {t} : executed'[u] = executed[u]
      BY <1>2, <2>1, SMT DEF CallTool
    <2>6. SpotifyTypeOK'
      BY <2>1, <2>4, <2>5 DEF SpotifyInv, SpotifyTypeOK, Stepped
    <2>7. OnceInv'
      BY <2>1, <2>4, <2>5, SMT DEF SpotifyInv, OnceInv, Stepped
    <2>8. SignedInInv'
      BY <2>1, <2>4, SpotifyAssumption, SMT
        DEF SpotifyInv, SpotifyTypeOK, SignedInInv, SavesToken, Stepped, TokenNumbers
    <2>9. OnceAndStillSignedIn'
      <3>1. \A u \in Tools : SavesToken(u) => call'[u] = call[u]
        BY <2>1, <2>4 DEF Stepped, SavesToken
      <3> QED  BY <2>1, <2>7, <3>1, OnceAndStillStays
    <2> QED  BY <2>6, <2>7, <2>8, <2>9 DEF SpotifyInv
  <1>3. CASE UNCHANGED spotifyVars
    BY <1>3 DEF spotifyVars, SpotifyInv, SpotifyTypeOK, OnceInv, SignedInInv,
      OnceAndStillSignedIn, SignedIn, SavesToken
  <1> QED  BY <1>1, <1>2, <1>3, SpotifyBefore, SpotifyAnswered, SpotifyExchanged,
             SpotifyEmptied, SpotifySaved
             DEF SpotifyNext

\* For any number of commands, refreshes and expiries, one call changes what
\* plays at most once, exactly once when it reports success; and Ron is signed
\* out by nothing but a failure of an answer or a save that carried his refresh
\* token, and, only if the service never replaces it, by two saves that mix
\* (client.py _api_json, _refresh_access_token, storage.py save).
THEOREM StillSignedIn == SpotifySpec => []OnceAndStillSignedIn
  <1>1. SpotifyInv => OnceAndStillSignedIn
    BY DEF SpotifyInv
  <1> QED  BY <1>1, SpotifyInitially, SpotifyPreserved, PTL DEF SpotifySpec

-----------------------------------------------------------------------------
\* MemoryService.

\* A memory not created yet has left no trace, and whoever saves one has a file
\* to himself that has no row yet and that nobody can have asked to forget.
Saving(i) == \E t \in Learners : learner[t].at = "saved" /\ learner[t].id = i

CreatedInv ==
  /\ \A i \in Ids : i > created => file[i] = "none" /\ row[i] = "none"
  /\ \A i \in confirmed \cup forgotten \cup forgetting.candidates : i <= created /\ ~Saving(i)
  /\ \A t \in Learners : learner[t].at = "saved" =>
       /\ learner[t].id \in 1..created
       /\ row[learner[t].id] = "none" /\ file[learner[t].id] \in {"queued", "drive"}
       /\ \A u \in Learners \ {t} : learner[u].at = "saved" => learner[u].id # learner[t].id

\* The memory selected is the one the last reply asked about, and the turn
\* deletes only a memory that was confirmed.
AskedInv ==
  /\ forgetting.selected # NoId => asked = forgetting.selected
  /\ forgetting.selected # NoId => forgetting.selected \in forgetting.candidates
  /\ learner["turn"].at \in {"confirmed", "deleted"} => learner["turn"].id \in confirmed
  /\ learner["turn"].at = "deleted" => Erasing(learner["turn"].id)

MemoryInv == MemoryTypeOK /\ CreatedInv /\ AskedInv /\ OnlyTheConfirmedIsForgotten

LearnerRecord == [at : {"free", "new", "saved", "confirmed", "deleted"}, fact : Facts,
                  id : {NoId} \cup Ids]

LEMMA MemoryValues ==
  /\ Free \in LearnerRecord /\ Free.at = "free" /\ Free.fact \in Facts
  /\ NoForget \in [candidates : SUBSET Ids, selected : {NoId} \cup Ids]
  /\ NoForget.candidates = {} /\ NoForget.selected = NoId
  /\ NoId \notin Ids /\ Learners = {"turn", "task"}
  BY MemoryAssumption, SMT DEF Free, LearnerRecord, NoForget, NoId, Ids, Learners

LEMMA MemoryInitially == MemoryInit => MemoryInv
  <1> SUFFICES ASSUME MemoryInit PROVE MemoryInv
    OBVIOUS
  <1>1. MemoryTypeOK
    BY MemoryValues, MemoryAssumption DEF MemoryInit, MemoryTypeOK, LearnerRecord
  <1>2. CreatedInv /\ AskedInv /\ OnlyTheConfirmedIsForgotten
    BY MemoryValues DEF MemoryInit, CreatedInv, AskedInv, OnlyTheConfirmedIsForgotten
  <1> QED  BY <1>1, <1>2 DEF MemoryInv

StorageStates == {"away", "syncing", "online"}

\* A step that touches no memory and no thread that saves or deletes one.
LEMMA MemoryTalked ==
  ASSUME MemoryInv, UNCHANGED <<archive, promises>>,
         outages' \in [drive : 0..MaxDriveChanges, stops : 0..MaxStops],
         drive' \in BOOLEAN, storage' \in StorageStates,
         learner' \in [Learners -> LearnerRecord],
         \A t \in Learners : learner'[t] = learner[t] \/ learner'[t].at \in {"free", "new"},
         forgetting' \in [candidates : SUBSET Ids, selected : {NoId} \cup Ids],
         asked' \in {NoId} \cup Ids,
         forgetting'.selected # NoId =>
           asked' = forgetting'.selected /\ forgetting'.selected \in forgetting'.candidates,
         \A i \in forgetting'.candidates : i <= created /\ ~Saving(i)
  PROVE  MemoryInv'
  <1> USE DEF MemoryInv, archive, promises
  <1>1. MemoryTypeOK'
    BY DEF MemoryTypeOK, LearnerRecord, StorageStates
  <1>2. CreatedInv'
    BY DEF CreatedInv, Saving
  <1>3. AskedInv'
    BY DEF AskedInv, Learners, Erasing
  <1>4. OnlyTheConfirmedIsForgotten'
    BY DEF OnlyTheConfirmedIsForgotten, Erasing
  <1> QED  BY <1>1, <1>2, <1>3, <1>4

\* What a step of the turn that is only talk leaves.
LEMMA MemoryConversation ==
  ASSUME MemoryInv,
         \/ \E t \in Learners, f \in Facts : Learn(t, f)
         \/ OtherPrompt \/ ChooseNumber \/ KeepMemory \/ MemoryRestarts
         \/ \E query \in SUBSET Facts : BeginForget(query)
  PROVE  MemoryInv'
  <1>1. /\ learner \in [Learners -> LearnerRecord]
        /\ forgetting \in [candidates : SUBSET Ids, selected : {NoId} \cup Ids]
        /\ asked \in {NoId} \cup Ids /\ created \in 0..MaxMemories
        /\ outages \in [drive : 0..MaxDriveChanges, stops : 0..MaxStops]
        /\ row \in [Ids -> {"none", "kept"}]
        /\ drive \in BOOLEAN /\ storage \in StorageStates
    BY DEF MemoryInv, MemoryTypeOK, LearnerRecord, StorageStates
  <1>2. /\ \A i \in Ids : row[i] # "none" => i <= created /\ ~Saving(i)
        /\ \A i \in forgetting.candidates : i <= created /\ ~Saving(i)
        /\ forgetting.selected # NoId =>
             asked = forgetting.selected /\ forgetting.selected \in forgetting.candidates
    BY <1>1, SMT DEF MemoryInv, CreatedInv, AskedInv, Ids, Saving
  <1>3. ASSUME NEW t \in Learners, NEW f \in Facts, Learn(t, f) PROVE MemoryInv'
    <2>1. /\ learner' \in [Learners -> LearnerRecord]
          /\ \A u \in Learners : learner'[u] = learner[u] \/ learner'[u].at \in {"free", "new"}
      BY <1>1, <1>3 DEF Learn, Become, LearnerRecord
    <2>2. /\ UNCHANGED <<archive, outside, promises, outages>>
          /\ \/ forgetting' = NoForget /\ asked' = NoId
             \/ UNCHANGED <<forgetting, asked>>
      BY <1>3 DEF Learn, DropForget, SayOther, memoryBounds
    <2> QED  BY <1>1, <1>2, <2>1, <2>2, MemoryTalked, MemoryValues DEF archive, outside
  <1>4. CASE OtherPrompt \/ KeepMemory
    <2>1. /\ UNCHANGED <<archive, outside, promises, outages, learner>>
          /\ forgetting' = NoForget /\ asked' = NoId
      BY <1>4 DEF OtherPrompt, KeepMemory, DropForget, SayOther, memoryBounds
    <2> QED  BY <1>1, <1>2, <2>1, MemoryTalked, MemoryValues DEF archive, outside
  <1>5. CASE ChooseNumber
    <2>1. CASE ~UNCHANGED forgetting
      <3>1. PICK i \in forgetting.candidates :
              forgetting' = [forgetting EXCEPT !.selected = i] /\ asked' = i
        BY <1>5, <2>1 DEF ChooseNumber, KeepForget
      <3>2. /\ forgetting' \in [candidates : SUBSET Ids, selected : {NoId} \cup Ids]
            /\ forgetting'.candidates = forgetting.candidates /\ forgetting'.selected = i
            /\ i \in Ids
        BY <1>1, <3>1
      <3>3. UNCHANGED <<archive, outside, promises, outages, learner>>
        BY <1>5 DEF ChooseNumber, memoryBounds
      <3> QED  BY <1>1, <1>2, <3>1, <3>2, <3>3, MemoryTalked DEF archive, outside
    <2>2. CASE UNCHANGED forgetting
      <3>1. UNCHANGED <<archive, outside, promises, outages, learner>>
        BY <1>5 DEF ChooseNumber, memoryBounds
      <3>2. asked' \in {NoId} \cup Ids /\ forgetting.selected = NoId
        BY <1>1, <1>5 DEF ChooseNumber, SayOther
      <3> QED  BY <1>1, <1>2, <2>2, <3>1, <3>2, MemoryTalked DEF archive, outside
    <2> QED  BY <2>1, <2>2
  <1>6. CASE MemoryRestarts
    <2>1. outages' \in [drive : 0..MaxDriveChanges, stops : 0..MaxStops]
      <3>1. outages.stops + 1 \in 0..MaxStops
        BY <1>1, <1>6, MemoryAssumption, SMT DEF MemoryRestarts
      <3> QED  BY <1>1, <1>6, <3>1 DEF MemoryRestarts
    <2>2. /\ UNCHANGED <<archive, drive, promises>> /\ storage' \in StorageStates
          /\ learner' = [t \in Learners |-> Free] /\ forgetting' = NoForget /\ asked' = NoId
      BY <1>6 DEF MemoryRestarts, DropForget, SayOther, StorageStates
    <2> QED  BY <1>1, <2>1, <2>2, MemoryTalked, MemoryValues DEF archive, outside
  <1>7. ASSUME NEW query \in SUBSET Facts, BeginForget(query) PROVE MemoryInv'
    <2>1. PICK candidates \in {Matching(query)} \cup {{i} : i \in Rows} :
            /\ forgetting' =
                 IF candidates = {} THEN NoForget
                 ELSE [candidates |-> candidates,
                       selected |-> IF Cardinality(candidates) = 1
                                    THEN CHOOSE i \in candidates : TRUE ELSE NoId]
            /\ asked' = forgetting'.selected
      BY <1>7 DEF BeginForget
    <2>2. candidates \subseteq Rows /\ Rows \subseteq Ids
      BY DEF Matching, Rows
    <2>3. /\ forgetting' \in [candidates : SUBSET Ids, selected : {NoId} \cup Ids]
          /\ forgetting'.candidates = candidates
          /\ forgetting'.selected # NoId => forgetting'.selected \in candidates
      BY <2>1, <2>2, MemoryValues
    <2>4. \A i \in candidates : i <= created /\ ~Saving(i)
      BY <1>2, <2>2 DEF Rows
    <2>5. UNCHANGED <<archive, outside, promises, outages, learner>>
      BY <1>7 DEF BeginForget, memoryBounds
    <2> QED  BY <1>1, <2>1, <2>3, <2>4, <2>5, MemoryTalked DEF archive, outside
  <1> QED  BY <1>3, <1>4, <1>5, <1>6, <1>7

LEMMA MemorySaved ==
  ASSUME MemoryInv, NEW t \in Learners, SaveMemory(t)
  PROVE  MemoryInv'
  <1>1. /\ learner \in [Learners -> LearnerRecord] /\ learner[t] \in LearnerRecord
        /\ created \in 0..MaxMemories /\ content \in [Ids -> Facts]
        /\ file \in [Ids -> {"none", "queued", "drive", "doomed"}]
        /\ row \in [Ids -> {"none", "kept"}]
        /\ drive' \in BOOLEAN /\ storage' \in StorageStates
        /\ UNCHANGED <<row, stranded, forgetting, asked, promises, outages>>
    BY DEF MemoryInv, MemoryTypeOK, LearnerRecord, SaveMemory, memoryBounds, StorageStates
  <1>2. CASE /\ learner' = [learner EXCEPT ![t] = Free]
             /\ UNCHANGED <<created, content, file>>
    <2>1. /\ learner' \in [Learners -> LearnerRecord]
          /\ \A u \in Learners : learner'[u] = learner[u] \/ learner'[u].at \in {"free", "new"}
      BY <1>1, <1>2, MemoryValues
    <2>2. UNCHANGED archive
      BY <1>1, <1>2 DEF archive
    <2> QED
      BY <1>1, <2>1, <2>2, MemoryTalked DEF MemoryInv, MemoryTypeOK, CreatedInv, AskedInv, archive
  <1>3. CASE created < MaxMemories /\ ~UNCHANGED created
    <2> DEFINE i == created + 1
    <2>1. i \in Ids /\ i \notin 1..created /\ i # NoId /\ file[i] = "none" /\ row[i] = "none"
      BY <1>1, <1>3, MemoryAssumption, SMT DEF Ids, NoId, MemoryInv, CreatedInv
    <2>2. /\ created' = i
          /\ content' = [content EXCEPT ![i] = learner[t].fact]
          /\ learner' = [learner EXCEPT ![t] = [at |-> "saved", fact |-> learner[t].fact, id |-> i]]
      BY <1>1, <1>3 DEF SaveMemory, Become
    <2>3. PICK kept \in {"queued", "drive"} : file' = [file EXCEPT ![i] = kept]
      BY <1>3 DEF SaveMemory
    <2>4. /\ learner' \in [Learners -> LearnerRecord]
          /\ learner'[t].at = "saved" /\ learner'[t].id = i
          /\ \A u \in Learners \ {t} : learner'[u] = learner[u]
      BY <1>1, <2>1, <2>2 DEF LearnerRecord
    <2>5. /\ file' \in [Ids -> {"none", "queued", "drive", "doomed"}] /\ file'[i] = kept
          /\ \A j \in Ids \ {i} : file'[j] = file[j]
      BY <1>1, <2>1, <2>3
    <2>6. content' \in [Ids -> Facts] /\ created' \in 0..MaxMemories
      <3>1. content' \in [Ids -> Facts]
        BY <1>1, <2>2 DEF LearnerRecord
      <3> QED  BY <1>1, <1>3, <2>2, <3>1, MemoryAssumption, SMT
    <2>7. MemoryTypeOK'
      BY <1>1, <2>4, <2>5, <2>6 DEF MemoryInv, MemoryTypeOK, LearnerRecord, StorageStates, promises
    <2>8. /\ \A j \in Ids : j > i => j > created /\ j # i
          /\ \A j \in Nat : j <= created => j <= i /\ j # i
          /\ \A j \in 1..created : j \in 1..i /\ j # i
          /\ i \in 1..i /\ Ids \subseteq Nat
      BY <1>1, SMT DEF Ids
    <2> HIDE DEF i
    <2>9. CreatedInv'
      <3>1. confirmed \subseteq Ids /\ forgotten \subseteq Ids /\ forgetting.candidates \subseteq Ids
        BY DEF MemoryInv, MemoryTypeOK
      <3>2. \A j \in Ids : j > created' => file'[j] = "none" /\ row'[j] = "none"
        BY <1>1, <2>2, <2>5, <2>8 DEF MemoryInv, CreatedInv
      <3>3. \A j \in (confirmed \cup forgotten \cup forgetting.candidates)' :
              j <= created' /\ ~Saving(j)'
        <4>1. \A j \in confirmed \cup forgotten \cup forgetting.candidates :
                j \in Nat /\ j <= created /\ ~Saving(j)
          BY <2>8, <3>1 DEF MemoryInv, CreatedInv
        <4>2. \A j \in Ids : Saving(j)' => Saving(j) \/ j = i
          BY <2>4 DEF Saving
        <4> QED  BY <1>1, <2>2, <2>8, <3>1, <4>1, <4>2 DEF promises
      <3>4. ASSUME NEW u \in Learners, learner'[u].at = "saved"
            PROVE  /\ learner'[u].id \in 1..created'
                   /\ row'[learner'[u].id] = "none" /\ file'[learner'[u].id] \in {"queued", "drive"}
                   /\ \A v \in Learners \ {u} : learner'[v].at = "saved" =>
                        learner'[v].id # learner'[u].id
        <4>1. ASSUME NEW v \in Learners \ {t}, learner[v].at = "saved"
              PROVE  learner[v].id \in 1..created /\ learner[v].id \in Ids /\ learner[v].id # i
          <5>1. learner[v].id \in 1..created
            BY <4>1 DEF MemoryInv, CreatedInv
          <5> QED  BY <1>1, <2>1, <5>1, MemoryAssumption, SMT DEF Ids
        <4>2. CASE u = t
          BY <1>1, <2>1, <2>2, <2>4, <2>5, <2>8, <4>1, <4>2
        <4>3. CASE u # t
          BY <1>1, <2>2, <2>4, <2>5, <2>8, <3>4, <4>1, <4>3 DEF MemoryInv, CreatedInv
        <4> QED  BY <4>2, <4>3
      <3> QED  BY <3>2, <3>3, <3>4 DEF CreatedInv
    <2>10. confirmed \subseteq Ids \ {i} /\ forgotten \subseteq Ids \ {i}
      BY <2>8 DEF MemoryInv, MemoryTypeOK, CreatedInv
    <2>11. AskedInv'
      <3>1. learner'["turn"].at \in {"confirmed", "deleted"} => learner'["turn"] = learner["turn"]
        BY <2>4, MemoryValues
      <3> QED  BY <1>1, <2>5, <2>10, <3>1 DEF MemoryInv, AskedInv, Erasing, promises
    <2>12. OnlyTheConfirmedIsForgotten'
      BY <1>1, <2>1, <2>5, <2>10
        DEF MemoryInv, MemoryTypeOK, OnlyTheConfirmedIsForgotten, Erasing, promises
    <2> QED  BY <2>7, <2>9, <2>11, <2>12 DEF MemoryInv
  <1> QED  BY <1>1, <1>2, <1>3, SMT DEF SaveMemory, BecomeFree

LEMMA MemoryIndexed ==
  ASSUME MemoryInv, NEW t \in Learners, IndexMemory(t)
  PROVE  MemoryInv'
  <1> DEFINE i == learner[t].id
  <1>1. /\ learner \in [Learners -> LearnerRecord] /\ learner[t].at = "saved"
        /\ row \in [Ids -> {"none", "kept"}]
        /\ UNCHANGED <<created, content, file, stranded, drive, storage, forgetting, asked,
                       confirmed, forgotten, outages>>
        /\ promised' = promised \cup {i} /\ learner' = [learner EXCEPT ![t] = Free]
        /\ row' = [row EXCEPT ![i] = "kept"]
    BY DEF MemoryInv, MemoryTypeOK, LearnerRecord, IndexMemory, memoryBounds, outside, BecomeFree
  <1>2. /\ i \in Ids /\ i \in 1..created /\ row[i] = "none" /\ file[i] \in {"queued", "drive"}
        /\ i \notin confirmed \cup forgotten
        /\ \A u \in Learners \ {t} : learner[u].at = "saved" => learner[u].id # i
    BY <1>1, MemoryAssumption, SMT DEF MemoryInv, CreatedInv, MemoryTypeOK, Ids, Saving
  <1> HIDE DEF i
  <1>3. /\ row' \in [Ids -> {"none", "kept"}] /\ row'[i] # "none"
        /\ \A j \in Ids \ {i} : row'[j] = row[j]
    BY <1>1, <1>2
  <1>4. /\ learner' \in [Learners -> LearnerRecord] /\ learner'[t].at = "free"
        /\ \A u \in Learners \ {t} : learner'[u] = learner[u]
    BY <1>1, MemoryValues
  <1>5. MemoryTypeOK'
    BY <1>1, <1>2, <1>3, <1>4 DEF MemoryInv, MemoryTypeOK, LearnerRecord
  <1>6. CreatedInv'
    <2>1. \A j \in Ids : j > created => j # i
      BY <1>2, SMT DEF MemoryInv, MemoryTypeOK, Ids
    <2>2. \A u \in Learners \ {t} : learner[u].at = "saved" => learner[u].id \in Ids \ {i}
      BY <1>1, <1>2, MemoryAssumption, SMT DEF MemoryInv, MemoryTypeOK, CreatedInv, Ids
    <2> QED  BY <1>1, <1>3, <1>4, <2>1, <2>2 DEF MemoryInv, CreatedInv, Saving
  <1>7. AskedInv'
    BY <1>1, <1>4 DEF MemoryInv, AskedInv, Erasing, Learners
  <1>8. OnlyTheConfirmedIsForgotten'
    BY <1>1, <1>2, <1>3 DEF MemoryInv, MemoryTypeOK, OnlyTheConfirmedIsForgotten, Erasing
  <1> QED  BY <1>5, <1>6, <1>7, <1>8 DEF MemoryInv

LEMMA MemoryConfirmed ==
  ASSUME MemoryInv, ConfirmForget
  PROVE  MemoryInv'
  <1> DEFINE i == forgetting.selected
  <1>1. /\ learner \in [Learners -> LearnerRecord] /\ i # NoId
        /\ forgetting \in [candidates : SUBSET Ids, selected : {NoId} \cup Ids]
        /\ UNCHANGED <<archive, outside, promised, forgotten, outages>>
        /\ learner' = [learner EXCEPT !["turn"] =
                         [at |-> "confirmed", fact |-> Free.fact, id |-> i]]
        /\ confirmed' = confirmed \cup ({asked} \ {NoId})
        /\ forgetting' = NoForget /\ asked' = NoId
    BY DEF MemoryInv, MemoryTypeOK, LearnerRecord, ConfirmForget, Become, DropForget, SayOther,
      memoryBounds
  <1>2. i \in Ids /\ i <= created /\ asked = i /\ i = forgetting.selected
    BY <1>1 DEF MemoryInv, AskedInv, CreatedInv
  <1>3. confirmed' = confirmed \cup {i}
    BY <1>1, <1>2
  <1> HIDE DEF i
  <1>4. /\ learner' \in [Learners -> LearnerRecord]
        /\ learner'["turn"].at = "confirmed" /\ learner'["turn"].id = i
        /\ \A u \in Learners \ {"turn"} : learner'[u] = learner[u]
    <2>1. [at |-> "confirmed", fact |-> Free.fact, id |-> i] \in LearnerRecord
      BY <1>2, MemoryValues DEF LearnerRecord
    <2> QED  BY <1>1, <2>1, MemoryValues
  <1>5. MemoryTypeOK'
    BY <1>1, <1>2, <1>3, <1>4, MemoryValues DEF MemoryInv, MemoryTypeOK, LearnerRecord, archive, outside
  <1>6. CreatedInv'
    <2>1. i \in forgetting.candidates /\ forgetting'.candidates = {}
      BY <1>1, <1>2, MemoryValues DEF MemoryInv, AskedInv
    <2>2. \A j \in Ids : Saving(j)' => Saving(j)
      BY <1>4 DEF Saving
    <2>3. confirmed \subseteq Ids /\ forgotten \subseteq Ids
      BY DEF MemoryInv, MemoryTypeOK
    <2> QED  BY <1>1, <1>2, <1>3, <1>4, <2>1, <2>2, <2>3 DEF MemoryInv, CreatedInv, archive
  <1>7. AskedInv'
    BY <1>1, <1>3, <1>4, MemoryValues DEF AskedInv
  <1>8. OnlyTheConfirmedIsForgotten'
    BY <1>1, <1>3 DEF MemoryInv, OnlyTheConfirmedIsForgotten, Erasing, archive
  <1> QED  BY <1>5, <1>6, <1>7, <1>8 DEF MemoryInv

\* The file of a memory that was confirmed: unlinked, doomed, or left behind.
LEMMA MemoryErased ==
  ASSUME MemoryInv, NEW i \in Ids
  PROVE  /\ Unlinked(i) \subseteq (IF drive THEN {"none"} ELSE {"none", "drive"})
         /\ Erased(i) \subseteq {"none", "drive", "doomed"}
         /\ HalfErased(i) \subseteq {"none", "queued", "drive", "doomed"}
         /\ storage = "online" /\ drive => Erased(i) \subseteq {"none"}
         /\ storage # "online" => Erased(i) = {"doomed"}
  <1>1. file[i] \in {"none", "queued", "drive", "doomed"}
    BY DEF MemoryInv, MemoryTypeOK
  <1>2. Unlinked(i) \subseteq (IF drive THEN {"none"} ELSE {"none", "drive"})
    BY <1>1 DEF Unlinked
  <1>3. HalfErased(i) \subseteq {"none", "queued", "drive", "doomed"}
    <2>1. HalfErased(i) \subseteq {file[i], "none"} \cup Unlinked(i)
      BY Zenon DEF HalfErased
    <2> QED  BY <1>1, <1>2, <2>1
  <1>4. storage = "online" => Erased(i) = Unlinked(i)
    BY DEF Erased
  <1>5. storage # "online" => Erased(i) = {"doomed"}
    BY DEF Erased
  <1> QED  BY <1>2, <1>3, <1>4, <1>5

LEMMA MemoryFileDeleted ==
  ASSUME MemoryInv, DeleteFile
  PROVE  MemoryInv'
  <1> DEFINE i == learner["turn"].id
  <1>1. /\ learner \in [Learners -> LearnerRecord] /\ learner["turn"].at = "confirmed"
        /\ file \in [Ids -> {"none", "queued", "drive", "doomed"}] /\ stranded \subseteq Ids
        /\ drive' \in BOOLEAN /\ storage' \in StorageStates
        /\ UNCHANGED <<created, content, row, forgetting, asked, promises, outages>>
    BY DEF MemoryInv, MemoryTypeOK, LearnerRecord, DeleteFile, memoryBounds, StorageStates
  <1>2. CASE learner' = [learner EXCEPT !["turn"] = Free] /\ UNCHANGED <<file, stranded>>
    <2>1. /\ learner' \in [Learners -> LearnerRecord]
          /\ \A u \in Learners : learner'[u] = learner[u] \/ learner'[u].at \in {"free", "new"}
      BY <1>1, <1>2, MemoryValues
    <2>2. UNCHANGED archive
      BY <1>1, <1>2 DEF archive
    <2> QED
      BY <1>1, <2>1, <2>2, MemoryTalked DEF MemoryInv, MemoryTypeOK, CreatedInv, AskedInv, archive
  <1>3. ASSUME NEW left \in {"none", "queued", "drive", "doomed"}, row[i] # "none",
               file' = [file EXCEPT ![i] = left],
               stranded \subseteq stranded', stranded' \subseteq Ids,
               \/ /\ left \in {"none", "doomed"} \/ i \in stranded'
                  /\ learner' = [learner EXCEPT !["turn"] =
                                   [at |-> "deleted", fact |-> Free.fact, id |-> i]]
               \/ learner' = [learner EXCEPT !["turn"] = Free]
        PROVE  MemoryInv'
    <2>1. i \in confirmed /\ i \in Ids /\ i <= created
      BY <1>1 DEF MemoryInv, MemoryTypeOK, AskedInv, CreatedInv
    <2>2. i \notin forgotten
      BY <1>3 DEF MemoryInv, OnlyTheConfirmedIsForgotten
    <2>3. \A u \in Learners : learner[u].at = "saved" => learner[u].id \in Ids \ {i}
      <3>1. \A u \in Learners : learner[u].at = "saved" => learner[u].id # i
        BY <1>3 DEF MemoryInv, CreatedInv
      <3> QED  BY <3>1, MemoryAssumption, SMT DEF MemoryInv, MemoryTypeOK, CreatedInv, Ids
    <2>4. \A j \in Ids : j > created => j # i
      BY <1>1, <2>1, SMT DEF MemoryInv, MemoryTypeOK, Ids
    <2> HIDE DEF i
    <2>5. /\ file' \in [Ids -> {"none", "queued", "drive", "doomed"}] /\ file'[i] = left
          /\ \A j \in Ids \ {i} : file'[j] = file[j]
      BY <1>1, <1>3, <2>1
    <2>6. /\ learner' \in [Learners -> LearnerRecord]
          /\ \/ /\ learner'["turn"].at = "deleted" /\ learner'["turn"].id = i
                /\ left \in {"none", "doomed"} \/ i \in stranded'
             \/ learner'["turn"].at = "free"
          /\ \A u \in Learners \ {"turn"} : learner'[u] = learner[u]
      <3>1. [at |-> "deleted", fact |-> Free.fact, id |-> i] \in LearnerRecord
        BY <2>1, MemoryValues DEF LearnerRecord
      <3> QED  BY <1>1, <1>3, <3>1, MemoryValues
    <2>7. MemoryTypeOK'
      BY <1>1, <1>3, <2>5, <2>6 DEF MemoryInv, MemoryTypeOK, LearnerRecord, StorageStates, promises
    <2>8. CreatedInv'
      BY <1>1, <2>3, <2>4, <2>5, <2>6 DEF MemoryInv, CreatedInv, Saving, promises
    <2>9. AskedInv'
      BY <1>1, <2>1, <2>5, <2>6 DEF MemoryInv, AskedInv, Erasing, promises
    <2>10. OnlyTheConfirmedIsForgotten'
      BY <1>1, <1>3, <2>1, <2>2, <2>5
        DEF MemoryInv, MemoryTypeOK, OnlyTheConfirmedIsForgotten, Erasing, promises
    <2> QED  BY <2>7, <2>8, <2>9, <2>10 DEF MemoryInv
  <1>4. i \in Ids
    BY <1>1 DEF MemoryInv, MemoryTypeOK, AskedInv
  <1>5. CASE /\ row[i] # "none"
             /\ \E left \in Erased(i) : file' = [file EXCEPT ![i] = left]
             /\ IF storage = "online" THEN Strands(i) ELSE UNCHANGED stranded
             /\ Become("turn", "deleted", Free.fact, i)
    <2>1. PICK left \in Erased(i) : file' = [file EXCEPT ![i] = left]
      BY <1>5
    <2>2. /\ stranded \subseteq stranded' /\ stranded' \subseteq Ids
          /\ storage = "online" /\ ~drive => i \in stranded'
      BY <1>1, <1>4, <1>5 DEF Strands
    <2>3. /\ left \in {"none", "queued", "drive", "doomed"}
          /\ left \in {"none", "doomed"} \/ i \in stranded'
      BY <1>4, <2>1, <2>2, MemoryErased
    <2> QED  BY <1>3, <1>5, <2>1, <2>2, <2>3 DEF Become
  <1>6. CASE /\ row[i] # "none" /\ UNCHANGED stranded
             /\ \/ /\ file' = [file EXCEPT ![i] = "doomed"]
                   /\ Become("turn", "deleted", Free.fact, i)
                \/ /\ \E left \in HalfErased(i) : file' = [file EXCEPT ![i] = left]
                   /\ BecomeFree("turn")
    <2>1. PICK left \in HalfErased(i) \cup {"doomed"} :
            /\ file' = [file EXCEPT ![i] = left]
            /\ \/ left = "doomed" /\ Become("turn", "deleted", Free.fact, i)
               \/ BecomeFree("turn")
      BY <1>6
    <2>2. left \in {"none", "queued", "drive", "doomed"}
      BY <1>4, <2>1, MemoryErased
    <2> QED  BY <1>1, <1>3, <1>6, <2>1, <2>2 DEF Become, BecomeFree
  <1> QED  BY <1>2, <1>5, <1>6 DEF DeleteFile, BecomeFree

LEMMA MemoryRowDeleted ==
  ASSUME MemoryInv, DeleteRow
  PROVE  MemoryInv'
  <1> DEFINE i == learner["turn"].id
  <1>1. /\ learner \in [Learners -> LearnerRecord] /\ learner["turn"].at = "deleted"
        /\ row \in [Ids -> {"none", "kept"}]
        /\ UNCHANGED <<created, content, file, stranded, drive, storage, forgetting, asked,
                       confirmed, promised, outages>>
        /\ forgotten' = forgotten \cup {i} /\ learner' = [learner EXCEPT !["turn"] = Free]
        /\ row' = [row EXCEPT ![i] = "none"]
    BY DEF MemoryInv, MemoryTypeOK, LearnerRecord, DeleteRow, memoryBounds, outside, BecomeFree
  <1>2. i \in confirmed /\ i \in Ids /\ Erasing(i) /\ i <= created
    BY <1>1 DEF MemoryInv, MemoryTypeOK, AskedInv, CreatedInv
  <1> HIDE DEF i
  <1>3. /\ row' \in [Ids -> {"none", "kept"}] /\ row'[i] = "none"
        /\ \A j \in Ids \ {i} : row'[j] = row[j]
    BY <1>1, <1>2
  <1>4. /\ learner' \in [Learners -> LearnerRecord] /\ learner'["turn"].at = "free"
        /\ \A u \in Learners \ {"turn"} : learner'[u] = learner[u]
    BY <1>1, MemoryValues
  <1>5. MemoryTypeOK'
    BY <1>1, <1>2, <1>3, <1>4 DEF MemoryInv, MemoryTypeOK, LearnerRecord
  <1>6. CreatedInv'
    <2>1. \A j \in Ids : row[j] = "none" => row'[j] = "none"
      BY <1>3
    <2>2. \A u \in Learners : learner[u].at = "saved" => learner[u].id \in Ids
      BY MemoryAssumption, SMT DEF MemoryInv, MemoryTypeOK, CreatedInv, Ids
    <2> QED  BY <1>1, <1>2, <1>4, <2>1, <2>2 DEF MemoryInv, CreatedInv, Saving
  <1>7. AskedInv'
    BY <1>1, <1>4 DEF MemoryInv, AskedInv
  <1>8. OnlyTheConfirmedIsForgotten'
    BY <1>1, <1>2, <1>3 DEF MemoryInv, MemoryTypeOK, OnlyTheConfirmedIsForgotten, Erasing
  <1> QED  BY <1>5, <1>6, <1>7, <1>8 DEF MemoryInv

\* The drive goes or comes, the monitor looks, and a synchronisation moves or
\* deletes files, on a drive that may have gone meanwhile.
LEMMA MemoryDrive ==
  ASSUME MemoryInv, DriveChanges \/ MonitorLooks \/ SyncEnds \/ \E i \in Ids : SyncFile(i)
  PROVE  MemoryInv'
  <1>1. /\ file \in [Ids -> {"none", "queued", "drive", "doomed"}] /\ stranded \subseteq Ids
        /\ outages \in [drive : 0..MaxDriveChanges, stops : 0..MaxStops]
        /\ drive \in BOOLEAN /\ storage \in StorageStates
        /\ UNCHANGED <<created, content, row, learner, forgetting, asked, promises>>
    BY DEF MemoryInv, MemoryTypeOK, DriveChanges, MonitorLooks, SyncEnds, SyncFile, archive,
      StorageStates
  <1>2. /\ file' \in [Ids -> {"none", "queued", "drive", "doomed"}]
        /\ stranded \subseteq stranded' /\ stranded' \subseteq Ids
        /\ \A j \in Ids : /\ file[j] = "none" => file'[j] = "none"
                          /\ file[j] = "doomed" =>
                               file'[j] \in {"none", "doomed"} \/ j \in stranded'
                          /\ file[j] \in {"queued", "drive"} => file'[j] \in {"queued", "drive"}
    <2>1. CASE DriveChanges \/ MonitorLooks \/ SyncEnds
      BY <1>1, <2>1 DEF DriveChanges, MonitorLooks, SyncEnds, archive
    <2>2. ASSUME NEW i \in Ids, SyncFile(i)
          PROVE  /\ file' \in [Ids -> {"none", "queued", "drive", "doomed"}]
                 /\ stranded \subseteq stranded' /\ stranded' \subseteq Ids
                 /\ \A j \in Ids \ {i} : file'[j] = file[j]
                 /\ \/ file[i] = "queued" /\ file'[i] = "drive"
                    \/ file[i] = "doomed" /\ (file'[i] = "none" \/ i \in stranded')
      <3>1. CASE file[i] = "queued" /\ file' = [file EXCEPT ![i] = "drive"] /\ UNCHANGED stranded
        BY <1>1, <3>1
      <3>2. CASE /\ file[i] = "doomed" /\ Strands(i)
                 /\ \E left \in Unlinked(i) : file' = [file EXCEPT ![i] = left]
        <4>1. PICK left \in Unlinked(i) : file' = [file EXCEPT ![i] = left]
          BY <3>2
        <4>2. /\ stranded \subseteq stranded' /\ stranded' \subseteq Ids
              /\ ~drive => i \in stranded'
          BY <1>1, <3>2 DEF Strands
        <4>3. left \in {"none", "drive"} /\ (left = "none" \/ ~drive)
          BY <4>1, MemoryErased
        <4> QED  BY <1>1, <3>2, <4>1, <4>2, <4>3
      <3> QED  BY <2>2, <3>1, <3>2 DEF SyncFile
    <2> QED  BY <1>1, <2>1, <2>2
  <1>3. /\ drive' \in BOOLEAN /\ storage' \in StorageStates
        /\ outages' \in [drive : 0..MaxDriveChanges, stops : 0..MaxStops]
    <2>1. CASE DriveChanges
      <3>1. outages.drive + 1 \in 0..MaxDriveChanges
        BY <1>1, <2>1, MemoryAssumption, SMT DEF DriveChanges
      <3> QED  BY <1>1, <2>1, <3>1 DEF DriveChanges
    <2>2. CASE MonitorLooks \/ SyncEnds \/ \E i \in Ids : SyncFile(i)
      BY <1>1, <2>2, Zenon
        DEF MonitorLooks, SyncEnds, SyncFile, memoryBounds, outside, StorageStates
    <2> QED  BY <2>1, <2>2
  <1>4. MemoryTypeOK'
    BY <1>1, <1>2, <1>3 DEF MemoryInv, MemoryTypeOK, StorageStates, promises
  <1>5. \A u \in Learners : learner[u].at = "saved" => learner[u].id \in Ids
    BY MemoryAssumption, SMT DEF MemoryInv, MemoryTypeOK, CreatedInv, Ids
  <1>6. CreatedInv'
    BY <1>1, <1>2, <1>5 DEF MemoryInv, CreatedInv, Saving, promises
  <1>7. \A j \in Ids : Erasing(j) => Erasing(j)'
    BY <1>1, <1>2 DEF Erasing
  <1>8. AskedInv'
    BY <1>1, <1>7 DEF MemoryInv, MemoryTypeOK, AskedInv, promises
  <1>9. OnlyTheConfirmedIsForgotten'
    BY <1>1, <1>2, <1>7 DEF MemoryInv, MemoryTypeOK, OnlyTheConfirmedIsForgotten, promises
  <1> QED  BY <1>4, <1>6, <1>8, <1>9 DEF MemoryInv

LEMMA MemoryPreserved == MemoryInv /\ [MemoryNext]_memoryVars => MemoryInv'
  <1> SUFFICES ASSUME MemoryInv, [MemoryNext]_memoryVars PROVE MemoryInv'
    OBVIOUS
  <1>1. CASE UNCHANGED memoryVars
    BY <1>1 DEF memoryVars, archive, outside, promises, memoryBounds, MemoryInv, MemoryTypeOK,
      CreatedInv, Saving, AskedInv, OnlyTheConfirmedIsForgotten, Erasing
  <1>2. \A t \in Learners : Learnable(t) \subseteq Facts
    BY DEF Learnable
  <1> QED
    BY <1>1, <1>2, MemoryConversation, MemorySaved, MemoryIndexed, MemoryConfirmed,
      MemoryFileDeleted, MemoryRowDeleted, MemoryDrive DEF MemoryNext

\* For any facts, and any number of memories, drive changes and deaths, what the
\* user was told about a memory stays true: one he was told is remembered keeps
\* its row and its content until he confirmed the deletion of exactly that one,
\* and one reported forgotten has neither, except that the file of one whose
\* deletion was carried out on a pulled drive returns with the drive
\* (intelligence.py _handle_pending_forget, service.py forget).
THEOREM MemoriesAreKept == MemorySpec => []OnlyTheConfirmedIsForgotten
  <1>1. MemoryInv => OnlyTheConfirmedIsForgotten
    BY DEF MemoryInv
  <1> QED  BY <1>1, MemoryInitially, MemoryPreserved, PTL DEF MemorySpec

-----------------------------------------------------------------------------
\* NetworkService.

\* Unless the threads met: one of them at most has something to publish, which
\* is the state of the device, and what is not to be published has been told;
\* and the worker's copy of the device lacks only the time that passed since.
ToldInv ==
  /\ link.at = "registered" => linkUp
  /\ ~contended =>
       /\ link.at = "publish" => link.state = device.state
       /\ scan.at = "publish" => scan.state = device.state
       /\ link.at # "publish" /\ scan.at # "publish" => told = device.state
       /\ scan.at \in {"ageing", "found", "registered"} =>
            device.state = scan.copy.state /\ device.responsive = scan.copy.responsive
       /\ scan.at = "ageing" =>
            /\ scan.copy.age \in {"late", "gone"}
            /\ scan.copy.age = "gone" => device.age = "gone"
       /\ scan.at \in {"found", "registered"} => device.trusted = scan.copy.trusted

\* Unless the threads met, also in the middle of a report.
OnlineInv ==
  ~contended =>
     /\ device.state = "online" => linkUp /\ device.responsive
     /\ device.responsive => linkUp
     /\ device.state = "offline" => device.age = "gone"
     /\ linkUp => device.trusted

NetworkInv == NetworkTypeOK /\ ToldInv /\ OnlineInv

Reports == {AtRest} \cup [at : {"registered"}] \cup [at : {"publish"}, state : Presence]
Scans == {AtRest} \cup [at : {"ageing", "found", "registered"}, copy : Entry]
           \cup [at : {"publish"}, state : Presence]

LEMMA NetworkTypes ==
  NetworkTypeOK <=>
    /\ device \in Entry /\ told \in Presence /\ link \in Reports /\ scan \in Scans
    /\ linkUp \in BOOLEAN /\ available \in BOOLEAN /\ networkStarted \in BOOLEAN
    /\ contended \in BOOLEAN
    /\ linkReports \in 0..MaxReports /\ ticks \in 0..MaxTicks
  BY DEF NetworkTypeOK, Reports, Scans

LEMMA NetworkInitially == NetworkInit => NetworkInv
  <1> SUFFICES ASSUME NetworkInit PROVE NetworkInv
    OBVIOUS
  <1>1. 0 \in 0..MaxReports /\ 0 \in 0..MaxTicks
    BY NetworkAssumption
  <1>2. NetworkTypeOK
    BY <1>1 DEF NetworkInit, NetworkTypeOK, Entry, Presence, Ages, AtRest
  <1>3. ToldInv /\ OnlineInv
    BY DEF NetworkInit, ToldInv, OnlineInv, AtRest
  <1> QED  BY <1>2, <1>3 DEF NetworkInv

\* What an update leaves to publish.
LEMMA Reporting ==
  ASSUME NEW entry \in Entry
  PROVE  /\ ToPublish(entry) \in Reports \cap Scans
         /\ \/ entry.state = device.state /\ ToPublish(entry) = AtRest
            \/ /\ entry.state # device.state
               /\ ToPublish(entry).at = "publish" /\ ToPublish(entry).state = entry.state
         /\ AtRest.at = "rest"
  BY DEF ToPublish, Reports, Scans, Entry, AtRest

\* A report of the link that ends with an update.
LEMMA LinkUpdated ==
  ASSUME NetworkInv, NEW entry \in Entry, Update(entry, scan), link' = ToPublish(entry),
         link.at # "publish", scan' = scan, told' = told, linkUp' \in BOOLEAN,
         entry.state = "online" => linkUp' /\ entry.responsive,
         entry.responsive => linkUp',
         entry.state = "offline" => (~contended => entry.age = "gone"),
         linkUp' /\ ~contended => entry.trusted
  PROVE  /\ device' \in Entry /\ link' \in Reports /\ contended' \in BOOLEAN
         /\ ToldInv' /\ OnlineInv'
  <1>1. device' = entry /\ contended' = (contended \/ scan # AtRest)
    BY DEF Update
  <1>2. /\ contended \in BOOLEAN
        /\ link' \in Reports
        /\ \/ entry.state = device.state /\ link'.at = "rest"
           \/ link'.at = "publish" /\ link'.state = entry.state
    BY Reporting DEF NetworkInv, NetworkTypeOK
  <1>3. ~contended' => ~contended /\ scan.at = "rest"
    <2>1. AtRest.at = "rest"
      BY DEF AtRest
    <2> QED  BY <1>1, <1>2, <2>1
  <1>4. ToldInv'
    BY <1>1, <1>2, <1>3 DEF ToldInv, NetworkInv
  <1>5. OnlineInv'
    BY <1>1, <1>3 DEF OnlineInv
  <1> QED  BY <1>1, <1>2, <1>4, <1>5

\* An update of the worker.
LEMMA ScanUpdated ==
  ASSUME NetworkInv, NEW entry \in Entry, Update(entry, link), scan' = ToPublish(entry),
         scan.at # "publish", link' = link, told' = told, linkUp' = linkUp,
         ~contended => /\ entry.state = "online" => linkUp /\ entry.responsive
                       /\ entry.responsive => linkUp
                       /\ entry.state = "offline" => entry.age = "gone"
                       /\ linkUp => entry.trusted
  PROVE  /\ device' \in Entry /\ scan' \in Scans /\ contended' \in BOOLEAN
         /\ ToldInv' /\ OnlineInv'
  <1>1. device' = entry /\ contended' = (contended \/ link # AtRest)
    BY DEF Update
  <1>2. /\ contended \in BOOLEAN
        /\ scan' \in Scans
        /\ \/ entry.state = device.state /\ scan'.at = "rest"
           \/ scan'.at = "publish" /\ scan'.state = entry.state
    BY Reporting DEF NetworkInv, NetworkTypeOK
  <1>3. ~contended' => ~contended /\ link.at = "rest"
    <2>1. AtRest.at = "rest"
      BY DEF AtRest
    <2> QED  BY <1>1, <1>2, <2>1
  <1>4. ToldInv'
    BY <1>1, <1>2, <1>3 DEF ToldInv, NetworkInv
  <1>5. OnlineInv'
    BY <1>1, <1>3 DEF OnlineInv
  <1> QED  BY <1>1, <1>2, <1>4, <1>5

LEMMA NetworkLink ==
  ASSUME NetworkInv,
         NoteConnected \/ ConnectedPresence \/ NoteHeartbeat \/ NoteDisconnected \/ PublishReport
  PROVE  NetworkInv'
  <1>1. /\ device \in Entry /\ told \in Presence /\ link \in Reports /\ scan \in Scans
        /\ linkUp \in BOOLEAN /\ contended \in BOOLEAN /\ linkReports \in 0..MaxReports
    BY NetworkTypes DEF NetworkInv
  <1>2. linkReports < MaxReports => linkReports + 1 \in 0..MaxReports
    BY <1>1, NetworkAssumption, SMT
  <1>3. AtRest.at = "rest"
    BY DEF AtRest
  <1>4. CASE NoteConnected
    <2> DEFINE entry == [device EXCEPT !.trusted = TRUE]
    <2>1. /\ entry \in Entry /\ entry.trusted /\ entry.state = device.state
          /\ entry.responsive = device.responsive /\ entry.age = device.age
      BY <1>1 DEF Entry
    <2>2. /\ device' = entry /\ contended' = (contended \/ scan # AtRest)
          /\ link = AtRest /\ link' = [at |-> "registered"] /\ linkUp' = TRUE
          /\ available' = TRUE /\ linkReports' \in 0..MaxReports
          /\ UNCHANGED <<scan, networkStarted, told, ticks>>
      BY <1>2, <1>4 DEF NoteConnected, Report, Update
    <2> HIDE DEF entry
    <2>3. NetworkTypeOK'
      BY <1>1, <2>1, <2>2 DEF NetworkInv, NetworkTypeOK
    <2>4. ~contended' => ~contended /\ scan.at = "rest"
      BY <1>1, <1>3, <2>2
    <2>5. ToldInv'
      BY <1>3, <2>1, <2>2, <2>4 DEF NetworkInv, ToldInv
    <2>6. OnlineInv'
      BY <2>1, <2>2, <2>4 DEF NetworkInv, OnlineInv
    <2> QED  BY <2>3, <2>5, <2>6 DEF NetworkInv
  <1>5. CASE ConnectedPresence
    <2>1. /\ Online \in Entry /\ Online.state = "online" /\ Online.responsive
          /\ Online.trusted
      BY DEF Online, Entry, Presence, Ages
    <2>2. /\ Update(Online, scan) /\ link' = ToPublish(Online) /\ link.at = "registered"
          /\ UNCHANGED <<scan, linkUp, available, networkStarted, told, linkReports, ticks>>
      BY <1>5 DEF ConnectedPresence
    <2>3. linkUp
      BY <2>2 DEF NetworkInv, ToldInv
    <2>4. /\ device' \in Entry /\ link' \in Reports /\ contended' \in BOOLEAN
          /\ ToldInv' /\ OnlineInv'
      BY <1>1, <2>1, <2>2, <2>3, LinkUpdated
    <2>5. NetworkTypeOK'
      BY <2>2, <2>4, NetworkTypes DEF NetworkInv, NetworkTypeOK, Reports
    <2> QED  BY <2>4, <2>5 DEF NetworkInv
  <1>6. CASE NoteHeartbeat
    <2> DEFINE entry == [Online EXCEPT !.trusted = device.trusted]
    <2>1. /\ entry \in Entry /\ entry.state = "online" /\ entry.responsive
          /\ entry.trusted = device.trusted
      BY <1>1 DEF Online, Entry, Presence, Ages
    <2>2. /\ Update(entry, scan) /\ link' = ToPublish(entry) /\ link = AtRest /\ linkUp
          /\ linkReports' \in 0..MaxReports
          /\ UNCHANGED <<scan, linkUp, available, networkStarted, told, ticks>>
      BY <1>2, <1>6 DEF NoteHeartbeat, Report
    <2>3. ~contended => entry.trusted
      BY <2>1, <2>2 DEF NetworkInv, OnlineInv
    <2> HIDE DEF entry
    <2>4. /\ device' \in Entry /\ link' \in Reports /\ contended' \in BOOLEAN
          /\ ToldInv' /\ OnlineInv'
      BY <1>1, <1>3, <2>1, <2>2, <2>3, LinkUpdated
    <2>5. NetworkTypeOK'
      BY <2>2, <2>4 DEF NetworkInv, NetworkTypeOK, Reports
    <2> QED  BY <2>4, <2>5 DEF NetworkInv
  <1>7. CASE NoteDisconnected
    <2> DEFINE entry == [device EXCEPT !.state = "degraded", !.responsive = FALSE]
    <2>1. entry \in Entry /\ entry.state = "degraded" /\ ~entry.responsive
      BY <1>1 DEF Entry, Presence
    <2>2. /\ Update(entry, scan) /\ link' = ToPublish(entry) /\ link = AtRest
          /\ linkUp' = FALSE /\ linkReports' \in 0..MaxReports
          /\ UNCHANGED <<scan, available, networkStarted, told, ticks>>
      BY <1>2, <1>7 DEF NoteDisconnected, Report
    <2> HIDE DEF entry
    <2>3. /\ device' \in Entry /\ link' \in Reports /\ contended' \in BOOLEAN
          /\ ToldInv' /\ OnlineInv'
      BY <1>1, <1>3, <2>1, <2>2, LinkUpdated
    <2>4. NetworkTypeOK'
      BY <2>2, <2>3 DEF NetworkInv, NetworkTypeOK, Reports
    <2> QED  BY <2>3, <2>4 DEF NetworkInv
  <1>8. CASE PublishReport
    <2>1. /\ link.at = "publish" /\ told' = link.state /\ link' = AtRest
          /\ UNCHANGED <<device, scan, linkUp, available, networkStarted, contended,
                         linkReports, ticks>>
      BY <1>8 DEF PublishReport
    <2>2. link.state \in Presence
      BY <1>1, <1>3, <2>1 DEF Reports
    <2>3. NetworkTypeOK'
      BY <2>1, <2>2 DEF NetworkInv, NetworkTypeOK
    <2>4. ToldInv' /\ OnlineInv'
      BY <1>3, <2>1 DEF NetworkInv, ToldInv, OnlineInv
    <2> QED  BY <2>3, <2>4 DEF NetworkInv
  <1> QED  BY <1>4, <1>5, <1>6, <1>7, <1>8

LEMMA NetworkWorker ==
  ASSUME NetworkInv,
         \/ ReadAges \/ AgeDevice \/ Discovered \/ RegisterFound \/ NoteDiscovery \/ PublishScan
  PROVE  NetworkInv'
  <1>1. /\ device \in Entry /\ told \in Presence /\ link \in Reports /\ scan \in Scans
        /\ linkUp \in BOOLEAN /\ contended \in BOOLEAN
    BY NetworkTypes DEF NetworkInv
  <1>2. AtRest.at = "rest"
    BY DEF AtRest
  <1>3. scan.at \in {"ageing", "found", "registered"} =>
          scan.copy \in Entry /\ scan \in [at : {"ageing", "found", "registered"}, copy : Entry]
    BY <1>1, <1>2 DEF Scans
  <1>4. CASE ReadAges
    <2> DEFINE c == [at |-> "ageing", copy |-> device]
    <2>1. /\ scan = AtRest /\ scan' = c /\ device.age \in {"late", "gone"}
          /\ UNCHANGED <<device, link, linkUp, available, networkStarted, told, contended,
                         linkReports, ticks>>
      BY <1>4 DEF ReadAges, Aged
    <2>2. c \in Scans /\ c.at = "ageing" /\ c.copy = device
      BY <1>1 DEF Scans
    <2> HIDE DEF c
    <2>3. NetworkTypeOK'
      BY <1>1, <2>1, <2>2 DEF NetworkInv, NetworkTypeOK, Scans
    <2>4. ToldInv' /\ OnlineInv'
      BY <1>2, <2>1, <2>2 DEF NetworkInv, ToldInv, OnlineInv
    <2> QED  BY <2>3, <2>4 DEF NetworkInv
  <1>5. CASE AgeDevice
    <2> DEFINE answered == Aged(scan.copy)
               entry == [device EXCEPT !.state = answered.state, !.reachable = answered.reachable,
                                       !.responsive = FALSE,
                                       !.age = IF answered.reachable THEN "fresh" ELSE @]
    <2>1. /\ Update(entry, link) /\ scan' = ToPublish(entry) /\ scan.at = "ageing"
          /\ UNCHANGED <<link, linkUp, available, networkStarted, told, linkReports, ticks>>
      BY <1>5 DEF AgeDevice
    <2>2. /\ answered \in Entry
          /\ scan.copy.age = "gone" => answered.state = "offline" /\ ~answered.reachable
          /\ scan.copy.age = "late" => answered.state = "degraded"
      BY <1>3, <2>1 DEF Aged, Entry, Presence
    <2> HIDE DEF answered
    <2>3. /\ entry \in Entry /\ entry.state = answered.state /\ ~entry.responsive
          /\ entry.trusted = device.trusted
          /\ ~answered.reachable => entry.age = device.age
      BY <1>1, <2>2 DEF Entry, Ages
    <2> HIDE DEF entry
    <2>4. ~contended => /\ entry.state # "online"
                        /\ entry.state = "offline" => entry.age = "gone"
                        /\ linkUp => entry.trusted
      BY <2>1, <2>2, <2>3 DEF NetworkInv, ToldInv, OnlineInv
    <2>5. /\ device' \in Entry /\ scan' \in Scans /\ contended' \in BOOLEAN
          /\ ToldInv' /\ OnlineInv'
      BY <2>1, <2>3, <2>4, ScanUpdated
    <2>6. NetworkTypeOK'
      BY <2>1, <2>5 DEF NetworkInv, NetworkTypeOK, Scans
    <2> QED  BY <2>5, <2>6 DEF NetworkInv
  <1>6. CASE Discovered
    <2>1. /\ scan = AtRest /\ available' \in BOOLEAN
          /\ scan' = [at |-> "found", copy |-> device] \/ UNCHANGED scan
          /\ UNCHANGED <<device, link, linkUp, networkStarted, told, contended, linkReports, ticks>>
      BY <1>6 DEF Discovered
    <2> DEFINE c == [at |-> "found", copy |-> device]
    <2>2. c \in Scans /\ c.at = "found" /\ c.copy = device
      BY <1>1 DEF Scans
    <2>3. scan' = c \/ UNCHANGED scan
      BY <2>1
    <2> HIDE DEF c
    <2>4. NetworkTypeOK'
      BY <1>1, <2>1, <2>2, <2>3 DEF NetworkInv, NetworkTypeOK, Scans
    <2>5. ToldInv' /\ OnlineInv'
      BY <1>2, <2>1, <2>2, <2>3 DEF NetworkInv, ToldInv, OnlineInv
    <2> QED  BY <2>4, <2>5 DEF NetworkInv
  <1>7. CASE RegisterFound
    <2> DEFINE entry == [device EXCEPT !.trusted = device.trusted \/ scan.copy.trusted]
               c == [scan EXCEPT !.at = "registered"]
    <2>1. /\ scan.at = "found" /\ device' = entry /\ contended' = (contended \/ link # AtRest)
          /\ scan' = c
          /\ UNCHANGED <<link, linkUp, available, networkStarted, told, linkReports, ticks>>
      BY <1>7 DEF RegisterFound, Update
    <2>2. /\ entry \in Entry /\ entry.state = device.state /\ entry.age = device.age
          /\ entry.responsive = device.responsive
          /\ entry.trusted = (device.trusted \/ scan.copy.trusted)
          /\ scan.copy.trusted \in BOOLEAN /\ device.trusted \in BOOLEAN
      BY <1>1, <1>3, <2>1 DEF Entry
    <2>3. c \in Scans /\ c.at = "registered" /\ c.copy = scan.copy
      BY <1>3, <2>1 DEF Scans
    <2> HIDE DEF entry, c
    <2>4. NetworkTypeOK'
      BY <1>1, <2>1, <2>2, <2>3 DEF NetworkInv, NetworkTypeOK, Scans
    <2>5. ~contended' => ~contended /\ link.at = "rest"
      BY <1>1, <1>2, <2>1
    <2>6. ~contended => device.trusted = scan.copy.trusted
      BY <2>1 DEF NetworkInv, ToldInv
    <2>7. ~contended => entry.trusted = device.trusted
      BY <2>2, <2>6
    <2>8. ToldInv'
      BY <2>1, <2>2, <2>3, <2>5, <2>6, <2>7 DEF NetworkInv, ToldInv
    <2>9. OnlineInv'
      BY <2>1, <2>2, <2>5, <2>7 DEF NetworkInv, OnlineInv
    <2> QED  BY <2>4, <2>8, <2>9 DEF NetworkInv
  <1>8. CASE NoteDiscovery
    <2> DEFINE entry == Found(scan.copy)
    <2>1. /\ Update(entry, link) /\ scan' = ToPublish(entry) /\ scan.at = "registered"
          /\ UNCHANGED <<link, linkUp, available, networkStarted, told, linkReports, ticks>>
      BY <1>8 DEF NoteDiscovery
    <2>2. /\ entry \in Entry /\ entry.state # "offline"
          /\ entry.state = "online" => scan.copy.state = "online"
          /\ entry.responsive = scan.copy.responsive /\ entry.trusted = scan.copy.trusted
      BY <1>3, <2>1 DEF Found, Entry, Presence, Ages
    <2> HIDE DEF entry
    <2>3. ~contended => /\ entry.state = "online" => linkUp /\ entry.responsive
                        /\ entry.responsive => linkUp
                        /\ linkUp => entry.trusted
      BY <2>1, <2>2 DEF NetworkInv, ToldInv, OnlineInv
    <2>4. /\ device' \in Entry /\ scan' \in Scans /\ contended' \in BOOLEAN
          /\ ToldInv' /\ OnlineInv'
      BY <2>1, <2>2, <2>3, ScanUpdated
    <2>5. NetworkTypeOK'
      BY <2>1, <2>4 DEF NetworkInv, NetworkTypeOK, Scans
    <2> QED  BY <2>4, <2>5 DEF NetworkInv
  <1>9. CASE PublishScan
    <2>1. /\ scan.at = "publish" /\ told' = scan.state /\ scan' = AtRest
          /\ UNCHANGED <<device, link, linkUp, available, networkStarted, contended,
                         linkReports, ticks>>
      BY <1>9 DEF PublishScan
    <2>2. scan.state \in Presence
      BY <1>1, <1>2, <2>1 DEF Scans
    <2>3. NetworkTypeOK'
      BY <2>1, <2>2 DEF NetworkInv, NetworkTypeOK
    <2>4. ToldInv' /\ OnlineInv'
      BY <1>2, <2>1 DEF NetworkInv, ToldInv, OnlineInv
    <2> QED  BY <2>3, <2>4 DEF NetworkInv
  <1> QED  BY <1>4, <1>5, <1>6, <1>7, <1>8, <1>9

LEMMA NetworkPreserved == NetworkInv /\ [NetworkNext]_networkVars => NetworkInv'
  <1> SUFFICES ASSUME NetworkInv, [NetworkNext]_networkVars PROVE NetworkInv'
    OBVIOUS
  <1>1. CASE StartNetwork \/ StopNetwork
    <2>1. /\ networkStarted' \in BOOLEAN /\ available' \in BOOLEAN
          /\ UNCHANGED <<device, link, scan, linkUp, told, contended, linkReports, ticks>>
      BY <1>1 DEF StartNetwork, StopNetwork
    <2>2. NetworkTypeOK'
      BY <2>1 DEF NetworkInv, NetworkTypeOK
    <2>3. ToldInv' /\ OnlineInv'
      BY <2>1 DEF NetworkInv, ToldInv, OnlineInv
    <2> QED  BY <2>2, <2>3 DEF NetworkInv
  <1>2. CASE TimePasses
    <2> DEFINE entry == [device EXCEPT !.age = IF device.age = "fresh" THEN "late" ELSE "gone"]
    <2>1. /\ device' = entry /\ device.age \in {"fresh", "late"}
          /\ UNCHANGED <<link, scan, linkUp, available, networkStarted, told, contended,
                         linkReports>>
      BY <1>2 DEF TimePasses
    <2>2. ticks' \in 0..MaxTicks
      BY <1>2, NetworkAssumption, SMT DEF TimePasses, NetworkInv, NetworkTypeOK
    <2>3. /\ entry \in Entry /\ entry.state = device.state /\ entry.trusted = device.trusted
          /\ entry.responsive = device.responsive
      BY NetworkTypes DEF NetworkInv, Entry, Ages
    <2> HIDE DEF entry
    <2>4. NetworkTypeOK'
      BY <2>1, <2>2, <2>3 DEF NetworkInv, NetworkTypeOK
    <2>5. ToldInv' /\ OnlineInv'
      BY <2>1, <2>3 DEF NetworkInv, ToldInv, OnlineInv
    <2> QED  BY <2>4, <2>5 DEF NetworkInv
  <1>3. CASE UNCHANGED networkVars
    BY <1>3 DEF networkVars, NetworkInv, NetworkTypeOK, ToldInv, OnlineInv
  <1> QED  BY <1>1, <1>2, <1>3, NetworkLink, NetworkWorker DEF NetworkNext

\* For any number of reports and any time, unless reports of the two threads
\* met: a device is online only while its link is up, offline only after
\* silence, trusted as long as it is connected, and the last event told everyone
\* the state it is in (network/service.py note_device_*, _age_devices).
THEOREM PresenceIsKept == NetworkSpec => []PresenceIsTrue
  <1>1. NetworkInv => PresenceIsTrue
    <2>1. AtRest.at = "rest"
      BY DEF AtRest
    <2> QED  BY <2>1 DEF NetworkInv, ToldInv, OnlineInv, PresenceIsTrue
  <1> QED  BY <1>1, NetworkInitially, NetworkPreserved, PTL DEF NetworkSpec

-----------------------------------------------------------------------------
\* DeviceControl.

Knowledge == [level : 0..MaxLevel, muted : BOOLEAN]
Kept == [tool : {Volume, Brightness}, found : Knowledge, changed : BOOLEAN]
StartOf(tool) == [level |-> atStart[tool], muted |-> tool = Volume /\ atStart.muted]
Untouched == rollbackOK /\ ~unanswered /\ touches = 0

\* The i-th result is the first that changed its device.
IsFirst(i) ==
  /\ results[i].changed
  /\ \A j \in 1..(i - 1) : results[j].changed => results[j].tool # results[i].tool

Changed(tool) == \E i \in 1..Len(results) : results[i].changed /\ results[i].tool = tool

StageInv ==
  /\ step \in [at : {"none", "get", "change", "mute"}, call : DeviceCalls, found : Knowledge]
  /\ results \in Seq(Kept)
  /\ step.at \in {"get", "change"} => taskAt = "running" /\ Len(results) < MaxSteps
  /\ step.at = "get" => step.call.action # "get"
  /\ step.at = "mute" =>
       taskAt = "rollback" /\ results # <<>> /\ Newest.changed /\ Newest.tool = Volume
  /\ taskAt = "failed" => results = <<>>

\* What the first change of a device found is what the device was at the start,
\* and a device that no result has changed still is: results kept in reverse
\* order end with it, whatever the later ones found.
RestoreInv ==
  Untouched =>
    /\ \A i \in 1..Len(results) : IsFirst(i) => results[i].found = StartOf(results[i].tool)
    /\ \A tool \in {Volume, Brightness} : ~Changed(tool) => StateOf(tool) = StartOf(tool)
    /\ step.at = "change" /\ step.call.action # "get" => step.found = StateOf(step.call.tool)
    /\ step.at = "mute" => hardware.volume = Newest.found.level

DeviceInv == DeviceTypeOK /\ StageInv /\ RestoreInv

Knobs == {Volume, Brightness}

\* The two parts of RestoreInv about the results.
FirstFound == \A i \in 1..Len(results) : IsFirst(i) => results[i].found = StartOf(results[i].tool)
RestUnchanged == \A tool \in Knobs : ~Changed(tool) => StateOf(tool) = StartOf(tool)

LEMMA RestoreParts ==
  RestoreInv <=>
    (Untouched =>
       /\ FirstFound /\ RestUnchanged
       /\ step.at = "change" /\ step.call.action # "get" => step.found = StateOf(step.call.tool)
       /\ step.at = "mute" => hardware.volume = Newest.found.level)
  BY DEF RestoreInv, FirstFound, RestUnchanged, Knobs

LEMMA LevelIsSet ==
  ASSUME hardware \in Hardware, NEW tool \in Knobs, NEW level \in 0..MaxLevel,
         SetLevel(tool, level)
  PROVE  /\ hardware' \in Hardware /\ hardware'[tool] = level
         /\ hardware'.muted = hardware.muted
         /\ \A other \in Knobs \ {tool} : StateOf(other)' = StateOf(other)
  <1>1. CASE tool = Volume
    <2>1. /\ hardware' \in Hardware /\ hardware'.volume = level
          /\ hardware'.brightness = hardware.brightness /\ hardware'.muted = hardware.muted
      BY <1>1 DEF SetLevel, Hardware, Volume
    <2> QED  BY <1>1, <2>1 DEF Knobs, StateOf, Volume, Brightness
  <1>2. CASE tool = Brightness
    <2>1. /\ hardware' \in Hardware /\ hardware'.brightness = level
          /\ hardware'.volume = hardware.volume /\ hardware'.muted = hardware.muted
      BY <1>2 DEF SetLevel, Hardware, Brightness
    <2> QED  BY <1>2, <2>1 DEF Knobs, StateOf, Volume, Brightness
  <1> QED  BY <1>1, <1>2 DEF Knobs

LEMMA MutedIsSet ==
  ASSUME hardware \in Hardware, NEW muted \in BOOLEAN, SetMuted(muted)
  PROVE  /\ hardware' \in Hardware /\ hardware'.muted = muted
         /\ hardware'.volume = hardware.volume
         /\ \A other \in Knobs \ {Volume} : StateOf(other)' = StateOf(other)
  <1>1. /\ hardware' \in Hardware /\ hardware'.muted = muted
        /\ hardware'.volume = hardware.volume /\ hardware'.brightness = hardware.brightness
    BY DEF SetMuted, Hardware
  <1> QED  BY <1>1 DEF Knobs, StateOf, Volume, Brightness

\* A call leaves the other device, and one that only reads leaves both.
LEMMA DeviceChanged ==
  ASSUME hardware \in Hardware, NEW callee \in DeviceCalls, NEW found \in Knowledge,
         Change(callee, found)
  PROVE  /\ hardware' \in Hardware
         /\ callee.tool \in Knobs
         /\ \A other \in Knobs \ {callee.tool} : StateOf(other)' = StateOf(other)
         /\ callee.action = "get" => hardware' = hardware
  <1>1. /\ callee.tool \in Knobs
        /\ callee.action = "set" => callee.amount \in Levels
        /\ callee.action = "adjust" => callee.amount \in Deltas
        /\ callee.action \in {"mute", "unmute", "toggle"} => callee.tool = Volume
        /\ callee.action \in {"set", "adjust", "mute", "unmute", "toggle", "get"}
    BY DEF DeviceCalls, Knobs, Plain, Volume, Brightness
  <1>2. CASE callee.action = "set"
    <2>1. callee.amount \in 0..MaxLevel /\ SetLevel(callee.tool, callee.amount)
      BY <1>1, <1>2, DeviceAssumption DEF Change
    <2> QED  BY <1>1, <1>2, <2>1, LevelIsSet
  <1>3. CASE callee.action = "adjust"
    <2> DEFINE level == Clamp(found.level + callee.amount)
    <2>1. level \in 0..MaxLevel
      <3>1. callee.amount \in Int /\ found.level \in 0..MaxLevel
        BY <1>1, <1>3, DeviceAssumption DEF Knowledge
      <3>2. found.level + callee.amount \in Int
        BY <3>1, DeviceAssumption, SMT
      <3> QED  BY <3>2, DeviceAssumption, SMT DEF Clamp
    <2>2. SetLevel(callee.tool, level)
      BY <1>3 DEF Change
    <2> HIDE DEF level
    <2> QED  BY <1>1, <1>3, <2>1, <2>2, LevelIsSet
  <1>4. CASE callee.action \in {"mute", "unmute", "toggle"}
    <2>1. hardware.muted \in BOOLEAN
      BY DEF Hardware
    <2>2. PICK muted \in BOOLEAN : SetMuted(muted)
      <3>1. SetMuted(TRUE) \/ SetMuted(FALSE) \/ SetMuted(~hardware.muted)
        BY <1>4 DEF Change
      <3> QED  BY <2>1, <3>1
    <2> QED  BY <1>1, <1>4, <2>2, MutedIsSet
  <1>5. CASE callee.action = "get"
    <2>1. hardware' = hardware
      BY <1>5 DEF Change
    <2> QED  BY <1>1, <2>1 DEF StateOf
  <1> QED  BY <1>1, <1>2, <1>3, <1>4, <1>5

\* Results can be appended to and dropped from the end.
LEMMA ResultDropped ==
  ASSUME results \in Seq(Kept), results # <<>>, FirstFound, RestUnchanged,
         results' = SubSeq(results, 1, Len(results) - 1), atStart' = atStart,
         \A tool \in Knobs : ~(Newest.changed /\ Newest.tool = tool) =>
                               StateOf(tool)' = StateOf(tool),
         \A tool \in Knobs :
           Newest.changed /\ Newest.tool = tool /\ Newest.found = StartOf(tool) =>
             StateOf(tool)' = StartOf(tool)
  PROVE  FirstFound' /\ RestUnchanged'
  <1>0. PICK n : n = Len(results)
    OBVIOUS
  <1>1. /\ n \in Nat \ {0} /\ results' \in Seq(Kept) /\ Len(results') = n - 1
        /\ \A i \in 1..(n - 1) : results'[i] = results[i] /\ i \in 1..n
        /\ n \in 1..n /\ Newest = results[n] /\ Newest \in Kept
        /\ \A i \in 1..n : i # n => i \in 1..(n - 1)
    <2>1. n \in Nat \ {0} /\ Newest = results[n]
      BY <1>0, SMT DEF Newest
    <2>2. /\ n \in 1..n /\ n - 1 \in Nat /\ n - 1 <= n
          /\ \A i \in 1..(n - 1) : i \in 1..n
          /\ \A i \in 1..n : i # n => i \in 1..(n - 1)
      BY <2>1, SMT
    <2>3. Newest \in Kept
      BY <1>0, <2>1, <2>2
    <2>4. /\ results' \in Seq(Kept) /\ Len(results') = n - 1
          /\ \A i \in 1..(n - 1) : results'[i] = results[i]
      <3> DEFINE shorter == SubSeq(results, 1, Len(results) - 1)
      <3>1. shorter \in Seq(Kept)
        BY SMT
      <3>2. Len(shorter) = n - 1
        BY <1>0, <2>1, SMT
      <3>3. \A i \in 1..(n - 1) : shorter[i] = results[i]
        BY <1>0, <2>1, <2>2, SMT
      <3> QED  BY <3>1, <3>2, <3>3
    <2> QED  BY <2>1, <2>2, <2>3, <2>4
  <1>2. \A i \in 1..(n - 1) : \A j \in 1..(i - 1) : j \in 1..(n - 1)
    BY <1>1, SMT
  <1>3. \A tool : StartOf(tool)' = StartOf(tool)
    BY DEF StartOf
  <1>4. \A i \in 1..(n - 1) : IsFirst(i)' <=> IsFirst(i)
    BY <1>1, <1>2 DEF IsFirst
  <1>5. FirstFound'
    BY <1>0, <1>1, <1>3, <1>4 DEF FirstFound
  <1>6. ASSUME NEW tool \in Knobs, ~Changed(tool)' PROVE StateOf(tool)' = StartOf(tool)'
    <2>1. \A i \in 1..(n - 1) : ~(results[i].changed /\ results[i].tool = tool)
      BY <1>0, <1>1, <1>6 DEF Changed
    <2>2. CASE Newest.changed /\ Newest.tool = tool
      <3>1. IsFirst(n)
        BY <1>1, <2>1, <2>2 DEF IsFirst
      <3> QED  BY <1>1, <1>3, <2>2, <3>1, <1>0 DEF FirstFound
    <2>3. CASE ~(Newest.changed /\ Newest.tool = tool)
      <3>1. ~Changed(tool)
        BY <1>0, <1>1, <2>1, <2>3 DEF Changed
      <3> QED  BY <1>3, <2>3, <3>1 DEF RestUnchanged
    <2> QED  BY <2>2, <2>3
  <1> QED  BY <1>5, <1>6 DEF RestUnchanged

LEMMA ResultAppended ==
  ASSUME results \in Seq(Kept), NEW kept \in Kept, FirstFound, RestUnchanged,
         results' = Append(results, kept), atStart' = atStart,
         kept.changed => kept.found = StateOf(kept.tool),
         \A tool \in Knobs : ~(kept.changed /\ kept.tool = tool) =>
                               StateOf(tool)' = StateOf(tool)
  PROVE  FirstFound' /\ RestUnchanged'
  <1>0. PICK n : n = Len(results)
    OBVIOUS
  <1>1. /\ n \in Nat /\ results' \in Seq(Kept) /\ Len(results') = n + 1
        /\ \A i \in 1..n : results'[i] = results[i] /\ i \in 1..(n + 1)
        /\ results'[n + 1] = kept /\ n + 1 \in 1..(n + 1)
        /\ \A i \in 1..(n + 1) : i = n + 1 \/ i \in 1..n
        /\ (n + 1) - 1 = n
    BY <1>0, SMT
  <1>2. \A i \in 1..n : \A j \in 1..(i - 1) : j \in 1..n
    BY <1>1, SMT
  <1>3. \A tool : StartOf(tool)' = StartOf(tool)
    BY DEF StartOf
  <1>4. \A i \in 1..n : IsFirst(i)' <=> IsFirst(i)
    BY <1>1, <1>2 DEF IsFirst
  <1>5. kept.tool \in Knobs
    BY DEF Kept, Knobs
  <1>6. IsFirst(n + 1)' => kept.changed /\ ~Changed(kept.tool)
    BY <1>0, <1>1 DEF IsFirst, Changed
  <1>7. ASSUME NEW i \in 1..Len(results'), IsFirst(i)'
        PROVE  (results[i].found = StartOf(results[i].tool))'
    <2>1. CASE i \in 1..n
      BY <1>1, <1>3, <1>4, <1>0, <1>7, <2>1 DEF FirstFound
    <2>2. CASE i = n + 1
      BY <1>1, <1>3, <1>5, <1>6, <1>7, <2>2 DEF RestUnchanged
    <2> QED  BY <1>1, <2>1, <2>2
  <1>8. FirstFound'
    BY <1>7 DEF FirstFound
  <1>9. ASSUME NEW tool \in Knobs, ~Changed(tool)' PROVE StateOf(tool)' = StartOf(tool)'
    <2>1. ~(kept.changed /\ kept.tool = tool)
      BY <1>1, <1>9 DEF Changed
    <2>2. ~Changed(tool)
      BY <1>0, <1>1, <1>9 DEF Changed
    <2> QED  BY <1>3, <2>1, <2>2 DEF RestUnchanged
  <1> QED  BY <1>8, <1>9 DEF RestUnchanged

StepRecord == [at : {"none", "get", "change", "mute"}, call : DeviceCalls, found : Knowledge]

LEMMA DeviceValues ==
  /\ NoStep \in StepRecord /\ NoStep.at = "none"
  /\ Volume \in Knobs /\ Brightness \in Knobs /\ Volume # Brightness
  /\ 0 \in 0..MaxSteps /\ 0 \in 0..MaxTouches /\ 0 \in 0..MaxLevel
  <1>1. 0 \in 0..MaxSteps /\ 0 \in 0..MaxTouches /\ 0 \in 0..MaxLevel
    BY DeviceAssumption
  <1>2. Plain(Volume, "get") \in DeviceCalls
    BY DEF DeviceCalls
  <1> QED  BY <1>1, <1>2 DEF NoStep, StepRecord, Knowledge, Knobs, Volume, Brightness

LEMMA DeviceTypes ==
  DeviceTypeOK /\ StageInv <=>
    /\ hardware \in Hardware /\ atStart \in Hardware
    /\ step \in StepRecord /\ results \in Seq(Kept) /\ Len(results) <= MaxSteps
    /\ taskAt \in {"running", "rollback", "done", "failed"}
    /\ rollbackOK \in BOOLEAN /\ unanswered \in BOOLEAN /\ touches \in 0..MaxTouches
    /\ step.at \in {"get", "change"} => taskAt = "running" /\ Len(results) < MaxSteps
    /\ step.at = "get" => step.call.action # "get"
    /\ step.at = "mute" =>
         taskAt = "rollback" /\ results # <<>> /\ Newest.changed /\ Newest.tool = Volume
    /\ taskAt = "failed" => results = <<>>
  BY DEF DeviceTypeOK, StageInv, StepRecord

LEMMA DeviceInitially == DeviceInit => DeviceInv
  <1> SUFFICES ASSUME DeviceInit PROVE DeviceInv
    OBVIOUS
  <1>1. /\ hardware \in Hardware /\ atStart = hardware /\ step = NoStep /\ results = <<>>
        /\ taskAt = "running" /\ rollbackOK = TRUE /\ unanswered = FALSE /\ touches = 0
    BY DEF DeviceInit
  <1>2. results \in Seq(Kept) /\ Len(results) = 0 /\ 1..Len(results) = {}
    BY <1>1, SMT
  <1>3. DeviceTypeOK /\ StageInv
    <2>1. Len(results) <= MaxSteps
      <3>1. MaxSteps \in Nat
        BY DeviceAssumption
      <3> QED  BY <1>2, <3>1, SMTT(30)
    <2> QED  BY <1>1, <1>2, <2>1, DeviceValues, DeviceTypes
  <1>4. RestoreInv
    BY <1>1, <1>2, DeviceValues DEF RestoreInv, StateOf, StartOf
  <1> QED  BY <1>3, <1>4 DEF DeviceInv

LEMMA DeviceRuns ==
  ASSUME DeviceInv,
         \/ \E callee \in DeviceCalls : BeginCall(callee)
         \/ ReadPrevious \/ ChangeDevice \/ CallFails \/ TaskEnds
  PROVE  DeviceInv'
  <1>1. /\ hardware \in Hardware /\ atStart \in Hardware
        /\ step \in StepRecord /\ results \in Seq(Kept) /\ Len(results) <= MaxSteps
        /\ rollbackOK \in BOOLEAN /\ unanswered \in BOOLEAN /\ touches \in 0..MaxTouches
        /\ step.at = "get" => step.call.action # "get"
        /\ step.at = "change" => Len(results) < MaxSteps
        /\ step.call \in DeviceCalls /\ step.found \in Knowledge /\ Len(results) \in Nat
    BY DeviceTypes DEF DeviceInv, StepRecord
  <1>2. RestoreInv
    BY DEF DeviceInv
  <1>3. ASSUME NEW callee \in DeviceCalls, BeginCall(callee) PROVE DeviceInv'
    <2> DEFINE s == [NoStep EXCEPT !.call = callee,
                                   !.at = IF callee.action = "get" THEN "change" ELSE "get"]
    <2>1. /\ step' = s /\ taskAt = "running" /\ Len(results) < MaxSteps
          /\ UNCHANGED <<hardware, results, taskAt, rollbackOK, atStart, unanswered, touches>>
      BY <1>3 DEF BeginCall
    <2>2. /\ s \in StepRecord /\ s.call = callee /\ s.at \in {"change", "get"}
          /\ s.at = "change" => callee.action = "get"
          /\ s.at = "get" => callee.action # "get"
      BY <1>3, DeviceValues DEF StepRecord
    <2> HIDE DEF s
    <2>3. (DeviceTypeOK /\ StageInv)'
      BY <1>1, <2>1, <2>2 DEF DeviceTypeOK, StageInv, StepRecord
    <2>4. RestoreInv'
      BY <1>2, <2>1, <2>2
        DEF RestoreInv, Untouched, IsFirst, Changed, StartOf, StateOf, Newest
    <2> QED  BY <2>3, <2>4 DEF DeviceInv
  <1>4. CASE ReadPrevious
    <2> DEFINE s == [step EXCEPT !.at = "change", !.found = StateOf(step.call.tool)]
    <2>1. /\ step' = s /\ taskAt = "running" /\ step.at = "get"
          /\ UNCHANGED <<hardware, results, taskAt, rollbackOK, atStart, unanswered, touches>>
      BY <1>4 DEF ReadPrevious
    <2>2. step.call.tool \in Knobs
      BY <1>1 DEF DeviceCalls, Plain, Knobs, Volume, Brightness
    <2>3. StateOf(step.call.tool) \in Knowledge
      BY <1>1, <2>2 DEF StateOf, Knowledge, Hardware, Knobs, Volume, Brightness
    <2>4. /\ s \in StepRecord /\ s.call = step.call /\ s.at = "change"
          /\ s.found = StateOf(step.call.tool)
      BY <1>1, <2>3 DEF StepRecord
    <2> HIDE DEF s
    <2>5. Len(results) < MaxSteps
      BY <2>1 DEF DeviceInv, StageInv
    <2>6. (DeviceTypeOK /\ StageInv)'
      BY <1>1, <2>1, <2>4, <2>5 DEF DeviceTypeOK, StageInv, StepRecord
    <2>7. RestoreInv'
      BY <1>2, <2>1, <2>4
        DEF RestoreInv, Untouched, IsFirst, Changed, StartOf, StateOf, Newest
    <2> QED  BY <2>6, <2>7 DEF DeviceInv
  <1>5. CASE ChangeDevice
    <2> DEFINE kept == [tool |-> step.call.tool, found |-> step.found,
                        changed |-> step.call.action # "get"]
    <2>1. /\ step.at = "change" /\ taskAt = "running" /\ Change(step.call, step.found)
          /\ results' = Append(results, kept) /\ step' = NoStep
          /\ UNCHANGED <<taskAt, rollbackOK, atStart, unanswered, touches>>
      BY <1>5 DEF ChangeDevice
    <2>2. /\ hardware' \in Hardware /\ step.call.tool \in Knobs
          /\ \A other \in Knobs \ {step.call.tool} : StateOf(other)' = StateOf(other)
          /\ step.call.action = "get" => hardware' = hardware
      BY <1>1, <2>1, DeviceChanged
    <2>3. kept \in Kept
      BY <1>1, <2>2 DEF Kept, Knobs
    <2>4. results' \in Seq(Kept) /\ Len(results') = Len(results) + 1
      BY <1>1, <2>1, <2>3
    <2>5. Len(results') <= MaxSteps
      BY <1>1, <2>1, <2>4, DeviceAssumption, SMT
    <2>6. (DeviceTypeOK /\ StageInv)'
      BY <1>1, <2>1, <2>2, <2>4, <2>5, DeviceValues DEF DeviceTypeOK, StageInv, StepRecord
    <2>7. RestoreInv'
      <3>1. ASSUME Untouched PROVE FirstFound' /\ RestUnchanged'
        <4>1. /\ FirstFound /\ RestUnchanged
              /\ step.call.action # "get" => step.found = StateOf(step.call.tool)
          BY <1>2, <2>1, <3>1, RestoreParts
        <4>2. /\ kept.tool = step.call.tool /\ kept.found = step.found
              /\ kept.changed = (step.call.action # "get")
          OBVIOUS
        <4> HIDE DEF kept
        <4>3. \A tool \in Knobs : ~(kept.changed /\ kept.tool = tool) =>
                                    StateOf(tool)' = StateOf(tool)
          BY <2>2, <4>2 DEF StateOf
        <4> QED  BY <1>1, <2>1, <2>3, <4>1, <4>2, <4>3, ResultAppended
      <3>2. Untouched' => Untouched
        BY <2>1 DEF Untouched
      <3> QED
        BY <2>1, <3>1, <3>2, DeviceValues DEF RestoreInv, FirstFound, RestUnchanged, Knobs
    <2> QED  BY <2>6, <2>7 DEF DeviceInv
  <1>6. CASE CallFails
    <2>1. /\ step' = NoStep /\ taskAt' = "rollback"
          /\ UNCHANGED <<results, rollbackOK, atStart, touches>>
          /\ \/ UNCHANGED <<hardware, unanswered>>
             \/ Change(step.call, step.found) /\ unanswered' = TRUE
      BY <1>6 DEF CallFails
    <2>2. hardware' \in Hardware /\ unanswered' \in BOOLEAN
      BY <1>1, <2>1, DeviceChanged
    <2>3. (DeviceTypeOK /\ StageInv)'
      BY <1>1, <2>1, <2>2, DeviceValues DEF DeviceTypeOK, StageInv, StepRecord
    <2>4. RestoreInv'
      BY <1>2, <2>1, DeviceValues
        DEF RestoreInv, Untouched, IsFirst, Changed, StartOf, StateOf, Newest
    <2> QED  BY <2>3, <2>4 DEF DeviceInv
  <1>7. CASE TaskEnds
    <2>1. /\ taskAt = "running" /\ step.at = "none" /\ taskAt' \in {"done", "rollback"}
          /\ UNCHANGED <<hardware, step, results, rollbackOK, atStart, unanswered, touches>>
      BY <1>7 DEF TaskEnds
    <2>2. (DeviceTypeOK /\ StageInv)'
      BY <1>1, <2>1 DEF DeviceTypeOK, StageInv, StepRecord
    <2>3. RestoreInv'
      BY <1>2, <2>1 DEF RestoreInv, Untouched, IsFirst, Changed, StartOf, StateOf, Newest
    <2> QED  BY <2>2, <2>3 DEF DeviceInv
  <1> QED  BY <1>3, <1>4, <1>5, <1>6, <1>7

LEMMA DeviceRollsBack ==
  ASSUME DeviceInv, RestoreLevel \/ RestoreMute \/ RestoreFails \/ RollbackEnds
  PROVE  DeviceInv'
  <1>1. /\ hardware \in Hardware /\ atStart \in Hardware
        /\ step \in StepRecord /\ results \in Seq(Kept) /\ Len(results) <= MaxSteps
        /\ rollbackOK \in BOOLEAN /\ unanswered \in BOOLEAN /\ touches \in 0..MaxTouches
        /\ step.at = "mute" => results # <<>> /\ Newest.changed /\ Newest.tool = Volume
    BY DeviceTypes DEF DeviceInv
  <1>2. RestoreInv
    BY DEF DeviceInv
  <1>3. results # <<>> =>
          /\ Newest \in Kept /\ Newest.tool \in Knobs /\ Newest.found.level \in 0..MaxLevel
          /\ Newest.found.muted \in BOOLEAN /\ Newest.changed \in BOOLEAN
          /\ SubSeq(results, 1, Len(results) - 1) \in Seq(Kept)
          /\ Len(SubSeq(results, 1, Len(results) - 1)) <= MaxSteps
          /\ Len(results) \in 1..Len(results)
    <2>1. ASSUME results # <<>>
          PROVE  /\ Newest \in Kept
                 /\ SubSeq(results, 1, Len(results) - 1) \in Seq(Kept)
                 /\ Len(SubSeq(results, 1, Len(results) - 1)) <= MaxSteps
                 /\ Len(results) \in 1..Len(results)
      BY <1>1, <2>1, DeviceAssumption, SMT DEF Newest
    <2> QED  BY <2>1 DEF Kept, Knowledge, Knobs
  <1>4. ASSUME taskAt = "rollback", results # <<>>, DropNewest, hardware' \in Hardware,
               UNCHANGED <<taskAt, atStart, unanswered, touches>>, rollbackOK' \in BOOLEAN
        PROVE  (DeviceTypeOK /\ StageInv)'
    BY <1>1, <1>3, <1>4, DeviceValues DEF DropNewest, DeviceTypeOK, StageInv, StepRecord
  <1>5. CASE RestoreLevel /\ ~Newest.changed
    <2>1. /\ taskAt = "rollback" /\ results # <<>> /\ DropNewest /\ UNCHANGED hardware
          /\ UNCHANGED <<taskAt, rollbackOK, atStart, unanswered, touches>>
      BY <1>5 DEF RestoreLevel
    <2>2. (DeviceTypeOK /\ StageInv)'
      BY <1>1, <1>4, <2>1
    <2>3. Untouched => FirstFound' /\ RestUnchanged'
      BY <1>1, <1>2, <1>5, <2>1, RestoreParts, ResultDropped DEF DropNewest, StateOf
    <2>4. RestoreInv'
      BY <2>1, <2>3, DeviceValues
        DEF RestoreInv, FirstFound, RestUnchanged, Knobs, Untouched, DropNewest
    <2> QED  BY <2>2, <2>4 DEF DeviceInv
  <1>6. CASE RestoreLevel /\ Newest.changed
    <2> DEFINE level == Newest.found.level
    <2>1. /\ taskAt = "rollback" /\ results # <<>> /\ SetLevel(Newest.tool, level)
          /\ UNCHANGED <<taskAt, rollbackOK, atStart, unanswered, touches>>
          /\ \/ Newest.tool = Volume /\ step' = [step EXCEPT !.at = "mute"] /\ UNCHANGED results
             \/ Newest.tool # Volume /\ DropNewest
      BY <1>6 DEF RestoreLevel
    <2>2. level \in 0..MaxLevel /\ Newest.tool \in Knobs
      BY <1>3, <2>1
    <2>3. /\ hardware' \in Hardware /\ hardware'[Newest.tool] = level
          /\ \A other \in Knobs \ {Newest.tool} : StateOf(other)' = StateOf(other)
      BY <1>1, <2>1, <2>2, LevelIsSet
    <2>4. CASE Newest.tool = Volume
      <3>1. step' \in StepRecord /\ step'.at = "mute" /\ Newest' = Newest /\ UNCHANGED results
        BY <1>1, <2>1, <2>4 DEF StepRecord, Newest
      <3>2. (DeviceTypeOK /\ StageInv)'
        BY <1>1, <1>6, <2>1, <2>3, <2>4, <3>1 DEF DeviceTypeOK, StageInv, StepRecord
      <3>3. Changed(Volume)
        BY <1>3, <1>6, <2>1, <2>4 DEF Changed, Newest
      <3>4. ASSUME Untouched PROVE FirstFound' /\ RestUnchanged'
        <4>1. FirstFound /\ RestUnchanged
          BY <1>2, <3>4, RestoreParts
        <4>2. FirstFound'
          BY <2>1, <3>1, <4>1 DEF FirstFound, IsFirst, StartOf
        <4>3. \A tool \in Knobs : /\ Changed(tool)' <=> Changed(tool)
                                  /\ StartOf(tool)' = StartOf(tool)
          BY <2>1, <3>1 DEF Changed, StartOf
        <4> QED  BY <2>3, <2>4, <3>3, <4>1, <4>2, <4>3 DEF RestUnchanged
      <3>5. hardware'.volume = Newest'.found.level
        BY <2>3, <2>4, <3>1 DEF Volume
      <3>6. RestoreInv'
        BY <2>1, <3>1, <3>4, <3>5
          DEF RestoreInv, FirstFound, RestUnchanged, Knobs, Untouched
      <3> QED  BY <3>2, <3>6 DEF DeviceInv
    <2>5. CASE Newest.tool # Volume
      <3>1. Newest.tool = Brightness /\ DropNewest
        BY <2>1, <2>2, <2>5 DEF Knobs
      <3>2. (DeviceTypeOK /\ StageInv)'
        BY <1>1, <1>4, <2>1, <2>3, <3>1
      <3>3. StateOf(Brightness)' = [level |-> level, muted |-> FALSE]
        BY <2>3, <3>1 DEF StateOf, Volume, Brightness
      <3>4. /\ StartOf(Brightness).muted = FALSE
            /\ StartOf(Brightness) = [level |-> StartOf(Brightness).level, muted |-> FALSE]
        BY DEF StartOf, Volume, Brightness
      <3>5. \A tool \in Knobs :
              Newest.changed /\ Newest.tool = tool /\ Newest.found = StartOf(tool) =>
                StateOf(tool)' = StartOf(tool)
        BY <3>1, <3>3, <3>4
      <3>6. \A tool \in Knobs : ~(Newest.changed /\ Newest.tool = tool) =>
                                  StateOf(tool)' = StateOf(tool)
        BY <1>6, <2>3
      <3>7. Untouched => FirstFound' /\ RestUnchanged'
        BY <1>1, <1>2, <2>1, <3>1, <3>5, <3>6, RestoreParts, ResultDropped DEF DropNewest
      <3>8. RestoreInv'
        BY <2>1, <3>1, <3>7, DeviceValues
          DEF RestoreInv, FirstFound, RestUnchanged, Knobs, Untouched, DropNewest
      <3> QED  BY <3>2, <3>8 DEF DeviceInv
    <2> QED  BY <2>4, <2>5
  <1>7. CASE RestoreMute
    <2>1. /\ taskAt = "rollback" /\ step.at = "mute" /\ SetMuted(Newest.found.muted)
          /\ DropNewest /\ UNCHANGED <<taskAt, rollbackOK, atStart, unanswered, touches>>
      BY <1>7 DEF RestoreMute
    <2>2. results # <<>> /\ Newest.changed /\ Newest.tool = Volume
      BY <1>1, <2>1
    <2>3. /\ hardware' \in Hardware /\ hardware'.muted = Newest.found.muted
          /\ hardware'.volume = hardware.volume
          /\ \A other \in Knobs \ {Volume} : StateOf(other)' = StateOf(other)
      BY <1>1, <1>3, <2>1, <2>2, MutedIsSet
    <2>4. (DeviceTypeOK /\ StageInv)'
      BY <1>1, <1>4, <2>1, <2>2, <2>3
    <2>5. ASSUME Untouched PROVE FirstFound' /\ RestUnchanged'
      <3>1. FirstFound /\ RestUnchanged /\ hardware.volume = Newest.found.level
        BY <1>2, <2>1, <2>5, RestoreParts
      <3>2. \A tool \in Knobs :
              Newest.changed /\ Newest.tool = tool /\ Newest.found = StartOf(tool) =>
                StateOf(tool)' = StartOf(tool)
        <4>1. ASSUME Newest.found = StartOf(Volume) PROVE StateOf(Volume)' = StartOf(Volume)
          <5>1. /\ StateOf(Volume)' = [level |-> hardware'.volume, muted |-> hardware'.muted]
                /\ StartOf(Volume) = [level |-> atStart.volume, muted |-> atStart.muted]
            <6>1. hardware'.muted \in BOOLEAN /\ atStart.muted \in BOOLEAN
              BY <1>1, <2>3 DEF Hardware
            <6> QED  BY <6>1 DEF StateOf, StartOf, Volume
          <5>2. Newest.found.level = atStart.volume /\ Newest.found.muted = atStart.muted
            BY <4>1, <5>1
          <5> QED  BY <2>3, <3>1, <5>1, <5>2
        <4> QED  BY <2>2, <4>1
      <3>3. \A tool \in Knobs : ~(Newest.changed /\ Newest.tool = tool) =>
                                  StateOf(tool)' = StateOf(tool)
        BY <2>2, <2>3
      <3> QED  BY <1>1, <2>1, <2>2, <3>1, <3>2, <3>3, ResultDropped DEF DropNewest
    <2>6. RestoreInv'
      BY <2>1, <2>5, DeviceValues
        DEF RestoreInv, FirstFound, RestUnchanged, Knobs, Untouched, DropNewest
    <2> QED  BY <2>4, <2>6 DEF DeviceInv
  <1>8. CASE RestoreFails
    <2>1. /\ taskAt = "rollback" /\ results # <<>> /\ DropNewest /\ rollbackOK' = FALSE
          /\ UNCHANGED <<hardware, taskAt, atStart, unanswered, touches>>
      BY <1>8 DEF RestoreFails
    <2>2. (DeviceTypeOK /\ StageInv)'
      BY <1>1, <1>4, <2>1
    <2>3. RestoreInv'
      BY <2>1 DEF RestoreInv, Untouched
    <2> QED  BY <2>2, <2>3 DEF DeviceInv
  <1>9. CASE RollbackEnds
    <2>1. /\ taskAt = "rollback" /\ results = <<>> /\ taskAt' = "failed"
          /\ UNCHANGED <<hardware, step, results, rollbackOK, atStart, unanswered, touches>>
      BY <1>9 DEF RollbackEnds
    <2>2. step.at = "none"
      BY <1>1, <2>1 DEF DeviceInv, StageInv, StepRecord
    <2>3. (DeviceTypeOK /\ StageInv)'
      BY <1>1, <2>1, <2>2 DEF DeviceTypeOK, StageInv, StepRecord
    <2>4. RestoreInv'
      BY <1>2, <2>1 DEF RestoreInv, Untouched, IsFirst, Changed, StartOf, StateOf, Newest
    <2> QED  BY <2>3, <2>4 DEF DeviceInv
  <1> QED  BY <1>5, <1>6, <1>7, <1>8, <1>9

LEMMA DevicePreserved == DeviceInv /\ [DeviceNext]_deviceVars => DeviceInv'
  <1> SUFFICES ASSUME DeviceInv, [DeviceNext]_deviceVars PROVE DeviceInv'
    OBVIOUS
  <1>1. CASE UserTouches
    <2>1. /\ touches < MaxTouches /\ touches' = touches + 1
          /\ UNCHANGED <<step, results, taskAt, rollbackOK, atStart, unanswered>>
      BY <1>1 DEF UserTouches
    <2>2. touches' \in 0..MaxTouches /\ touches' # 0
      BY <2>1, DeviceAssumption, SMT DEF DeviceInv, DeviceTypeOK
    <2>3. hardware' \in Hardware
      <3>1. hardware \in Hardware /\ Levels \subseteq 0..MaxLevel
        BY DeviceAssumption DEF DeviceInv, DeviceTypeOK
      <3>2. CASE \E l \in Levels : hardware' = [hardware EXCEPT !.volume = l]
        BY <3>1, <3>2 DEF Hardware
      <3>3. CASE hardware' = [hardware EXCEPT !.muted = ~hardware.muted]
        BY <3>1, <3>3 DEF Hardware
      <3> QED  BY <1>1, <3>1, <3>2, <3>3 DEF UserTouches
    <2>4. (DeviceTypeOK /\ StageInv)'
      BY <2>1, <2>2, <2>3 DEF DeviceInv, DeviceTypeOK, StageInv, Newest
    <2>5. RestoreInv'
      BY <2>2 DEF RestoreInv, Untouched
    <2> QED  BY <2>4, <2>5 DEF DeviceInv
  <1>2. CASE UNCHANGED deviceVars
    BY <1>2 DEF deviceVars, DeviceInv, DeviceTypeOK, StageInv, RestoreInv, Untouched, IsFirst,
      Changed, StartOf, StateOf, Newest
  <1> QED  BY <1>1, <1>2, DeviceRuns, DeviceRollsBack DEF DeviceNext

\* For every mixture of absolute, relative and toggling steps and any levels, a
\* task that failed and reports its steps rolled back has left volume,
\* brightness and mute as they were before its first step, unless somebody else
\* changed them or a helper acted without an answer (volume.py restore_volume,
\* brightness.py).
THEOREM DevicesAreRestored == DeviceSpec => []RestoredAsBefore
  <1>1. DeviceInv => RestoredAsBefore
    <2> SUFFICES ASSUME DeviceInv, taskAt = "failed", Untouched PROVE hardware = atStart
      BY DEF RestoredAsBefore, Untouched
    <2>1. results = <<>> /\ hardware \in Hardware /\ atStart \in Hardware
      BY DEF DeviceInv, StageInv, DeviceTypeOK
    <2>2. ~Changed(Volume) /\ ~Changed(Brightness)
      BY <2>1, SMT DEF Changed
    <2>3. StateOf(Volume) = StartOf(Volume) /\ StateOf(Brightness) = StartOf(Brightness)
      BY <2>2 DEF DeviceInv, RestoreInv
    <2>4. /\ StateOf(Volume).level = hardware.volume /\ StartOf(Volume).level = atStart.volume
          /\ StateOf(Volume).muted = hardware.muted /\ StartOf(Volume).muted = atStart.muted
          /\ StateOf(Brightness).level = hardware.brightness
          /\ StartOf(Brightness).level = atStart.brightness
      <3>1. hardware.muted \in BOOLEAN /\ atStart.muted \in BOOLEAN
        BY <2>1 DEF Hardware
      <3> QED  BY <3>1 DEF StateOf, StartOf, Volume, Brightness
    <2> QED  BY <2>1, <2>3, <2>4 DEF Hardware
  <1> QED  BY <1>1, DeviceInitially, DevicePreserved, PTL DEF DeviceSpec

\* A finite, nonempty set of integers has a largest member: the one with the
\* smallest set of members above it.
LEMMA LargestMember ==
  ASSUME NEW T, T \subseteq Int, IsFiniteSet(T), T # {}
  PROVE  \E t \in T : \A u \in T : u <= t
<1> DEFINE Above(t) == {u \in T : u > t}
           family == {Above(t) : t \in T}
<1>1. family \subseteq FiniteSubsetsOf(T) /\ family # {}
  <2>1. ASSUME NEW t \in T PROVE Above(t) \in SUBSET T /\ IsFiniteSet(Above(t))
    <3>1. Above(t) \in SUBSET T
      OBVIOUS
    <3> HIDE DEF Above
    <3> QED BY <3>1, FS_Subset
  <2>2. family # {}
    OBVIOUS
  <2> QED BY <2>1, <2>2 DEF FiniteSubsetsOf
<1>2. PICK A \in family : \A B \in family : ~(<<B, A>> \in StrictSubsetOrdering(T))
  <2> HIDE DEF family
  <2> QED BY <1>1, FS_StrictSubsetOrderingWellFounded, WFMin
<1>3. PICK t \in T : A = Above(t)
  OBVIOUS
<1>4. ASSUME NEW u \in T, u > t PROVE FALSE
  <2>1. ASSUME NEW v \in Above(u) PROVE v \in Above(t)
    BY <1>4, v > u, v \in Int, u \in Int, t \in Int
  <2>2. u \in Above(t) /\ u \notin Above(u)
    BY <1>4, u \in Int
  <2>3. <<Above(u), A>> \in StrictSubsetOrdering(T)
    BY <2>1, <2>2, <1>3 DEF StrictSubsetOrdering
  <2> QED BY <1>2, <2>3
<1> QED BY <1>4

-----------------------------------------------------------------------------
\* ChatService.

KeptTurns == [turn : {Note} \cup ChatTurns, text : Seq(Providers), size : Nat]

ChatTypes ==
  /\ asking \in 0..MaxPrompts
  /\ streaming \in Providers \cup {"none", "over"}
  /\ received \in Seq(Providers)
  /\ visible \in BOOLEAN /\ continuous \in BOOLEAN
  /\ seen \in [ChatTurns -> Seq(Providers)]
  /\ ended \in [ChatTurns -> {"open", "answered", "replaced", "failed"}]
  /\ turnsKept \in Seq(KeptTurns)

\* What the provider streamed is what the user saw of the turn: the stream of
\* another one is opened only while nothing was seen.
StreamInv ==
  /\ \A t \in ChatTurns : t > asking => seen[t] = <<>>
  /\ streaming # "none" => asking \in ChatTurns /\ received = seen[asking]
  /\ streaming = "cloud" /\ ~visible => received = <<>>
  /\ streaming = "over" => Len(received) = ReplyLength

\* An entry of the history that the turn in progress cannot change.
Said(entry) ==
  entry.turn # Note =>
    /\ entry.turn <= asking /\ (entry.turn = asking => streaming = "none")
    /\ ended[entry.turn] = "answered"
    /\ entry.text = seen[entry.turn] /\ Len(entry.text) = ReplyLength

InOrder(turns) ==
  \A i, j \in DOMAIN turns :
    turns[i].turn # Note /\ turns[j].turn # Note /\ i < j => turns[i].turn < turns[j].turn

KeptInv == (\A i \in DOMAIN turnsKept : Said(turnsKept[i])) /\ InOrder(turnsKept)

LimitInv ==
  Len(turnsKept) <= TurnLimit(continuous) /\ Characters(turnsKept) <= CharacterLimit

ChatInv == ChatTypes /\ StreamInv /\ KeptInv /\ LimitInv

LEMMA NothingFits ==
  /\ Characters(<<>>) = 0
  /\ \A mode \in BOOLEAN : TurnLimit(mode) \in Nat
  <1>1. Characters(<<>>) = 0
    BY DOMAIN (<<>>) = {} DEF Characters, FoldLeft, MapThenFoldSet
  <1> QED  BY <1>1, ChatAssumption DEF TurnLimit

\* The newest n entries.
LEMMA LatestEntries ==
  ASSUME NEW S, NEW turns \in Seq(S), NEW n \in 0..Len(turns)
  PROVE  /\ Latest(turns, n) \in Seq(S) /\ Len(Latest(turns, n)) = n
         /\ \A i \in 1..n : Latest(turns, n)[i] = turns[Len(turns) - n + i]
  BY DEF Latest

\* Trimming leaves the newest entries that fit.
LEMMA TrimmedFits ==
  ASSUME NEW S, NEW turns \in Seq(S), NEW mode \in BOOLEAN
  PROVE  \E n \in 0..Len(turns) :
           Trimmed(turns, mode) = Latest(turns, n) /\ Fits(turns, mode, n)
<1> DEFINE fitting == {n \in 0..Len(turns) : Fits(turns, mode, n)}
           Largest(n) == Fits(turns, mode, n) /\ \A k \in (n + 1)..Len(turns) : ~Fits(turns, mode, k)
<1>1. Fits(turns, mode, 0)
  <2>1. Latest(turns, 0) = <<>>
    BY LatestEntries DEF Latest
  <2> QED  BY <2>1, NothingFits, ChatAssumption DEF Fits
<1>2. \E n \in fitting : \A k \in fitting : k <= n
  <2>1. fitting \subseteq 0..Len(turns) /\ fitting # {} /\ fitting \subseteq Int
    BY <1>1
  <2> HIDE DEF fitting
  <2>2. IsFiniteSet(fitting)
    <3>1. IsFiniteSet(0..Len(turns))
      BY FS_Interval, Len(turns) \in Int, 0 \in Int
    <3> QED  BY <2>1, <3>1, FS_Subset
  <2> QED  BY <2>1, <2>2, LargestMember
<1>3. \E n \in 0..Len(turns) : Largest(n)
  BY <1>2
<1>4. Largest(CHOOSE n \in 0..Len(turns) : Largest(n))
        /\ (CHOOSE n \in 0..Len(turns) : Largest(n)) \in 0..Len(turns)
  BY <1>3
<1> QED  BY <1>4 DEF Trimmed

\* The history after an entry joined it, or its limit changed: entries that were
\* kept before, in order, within the limits.
LEMMA HistoryTrimmed ==
  ASSUME NEW turns \in Seq(KeptTurns), InOrder(turns), NEW mode \in BOOLEAN
  PROVE  LET kept == Trimmed(turns, mode)
         IN /\ kept \in Seq(KeptTurns) /\ InOrder(kept)
            /\ \A i \in DOMAIN kept : \E j \in DOMAIN turns : kept[i] = turns[j]
            /\ Len(kept) <= TurnLimit(mode) /\ Characters(kept) <= CharacterLimit
  <1>1. PICK n \in 0..Len(turns) :
          Trimmed(turns, mode) = Latest(turns, n) /\ Fits(turns, mode, n)
    BY TrimmedFits
  <1> DEFINE kept == Trimmed(turns, mode)
  <1>2. /\ kept \in Seq(KeptTurns) /\ Len(kept) = n /\ DOMAIN kept = 1..n
        /\ \A i \in 1..n : kept[i] = turns[Len(turns) - n + i]
                           /\ Len(turns) - n + i \in DOMAIN turns
    BY <1>1, LatestEntries
  <1> HIDE DEF kept
  <1>3. InOrder(kept)
    BY <1>2, SMTT(30) DEF InOrder
  <1>4. Len(kept) <= TurnLimit(mode) /\ Characters(kept) <= CharacterLimit
    BY <1>1, <1>2 DEF Fits, kept
  <1> QED  BY <1>2, <1>3, <1>4 DEF kept

\* An entry joins the history behind those it had.
LEMMA EntryJoins ==
  ASSUME ChatTypes, KeptInv, NEW entry \in KeptTurns, Said(entry),
         entry.turn # Note =>
           \A i \in DOMAIN turnsKept : turnsKept[i].turn # Note => turnsKept[i].turn < entry.turn
  PROVE  LET turns == Append(turnsKept, entry)
         IN /\ turns \in Seq(KeptTurns) /\ InOrder(turns)
            /\ \A i \in DOMAIN turns : Said(turns[i])
  <1> DEFINE turns == Append(turnsKept, entry)
  <1>1. /\ turns \in Seq(KeptTurns) /\ DOMAIN turns = 1..(Len(turnsKept) + 1)
        /\ DOMAIN turnsKept = 1..Len(turnsKept)
        /\ \A i \in DOMAIN turnsKept : turns[i] = turnsKept[i]
        /\ turns[Len(turnsKept) + 1] = entry
    BY DEF ChatTypes
  <1> HIDE DEF turns
  <1>2. InOrder(turns)
    BY <1>1 DEF InOrder, KeptInv
  <1>3. \A i \in DOMAIN turns : Said(turns[i])
    BY <1>1 DEF KeptInv
  <1> QED  BY <1>1, <1>2, <1>3 DEF turns

LEMMA ChatInitially == ChatInit => ChatInv
  <1> SUFFICES ASSUME ChatInit PROVE ChatInv
    OBVIOUS
  <1>1. ChatTypes
    <2>1. <<>> \in Seq(Providers) /\ <<>> \in Seq(KeptTurns) /\ 0 \in 0..MaxPrompts
      BY ChatAssumption
    <2>2. seen \in [ChatTurns -> Seq(Providers)] /\ received \in Seq(Providers)
      BY <2>1 DEF ChatInit
    <2> QED  BY <2>1, <2>2 DEF ChatInit, ChatTypes
  <1>2. StreamInv /\ KeptInv
    BY ChatAssumption DEF ChatInit, StreamInv, KeptInv, InOrder, ChatTurns
  <1>3. LimitInv
    <2>1. turnsKept = <<>> /\ continuous \in BOOLEAN
      BY DEF ChatInit
    <2>2. TurnLimit(continuous) \in Nat /\ Characters(turnsKept) = 0 /\ Len(turnsKept) = 0
      BY <2>1, NothingFits
    <2> QED  BY <2>2, ChatAssumption DEF LimitInv
  <1> QED  BY <1>1, <1>2, <1>3 DEF ChatInv

\* An entry that was kept is kept in the same words, and of a turn that is over.
LEMMA StaysSaid ==
  ASSUME ChatTypes, ChatTypes', NEW entry \in KeptTurns, Said(entry), asking' \in {asking, asking + 1},
         asking' = asking /\ streaming = "none" => streaming' = "none",
         \A t \in ChatTurns : t # asking \/ streaming = "none" =>
           seen'[t] = seen[t] /\ ended'[t] = ended[t]
  PROVE  Said(entry)'
  BY DEF Said, ChatTypes, KeptTurns, Note, ChatTurns

\* SetContinuous, ClearHistory, RecordReport: the history alone changes.
LEMMA ChatHistory ==
  ASSUME ChatInv, SetContinuous \/ ClearHistory \/ RecordReport
  PROVE  ChatInv'
  <1>1. /\ UNCHANGED <<stream, seen, ended>> /\ continuous' \in BOOLEAN
    BY DEF ChatInv, ChatTypes, SetContinuous, ClearHistory, RecordReport
  <1>2. /\ turnsKept' \in Seq(KeptTurns) /\ InOrder(turnsKept')
        /\ \A i \in DOMAIN turnsKept' : Said(turnsKept'[i])
        /\ Len(turnsKept') <= TurnLimit(continuous')
        /\ Characters(turnsKept') <= CharacterLimit
    <2>1. CASE SetContinuous
      <3>1. turnsKept' = Trimmed(turnsKept, continuous')
        BY <2>1 DEF SetContinuous
      <3> QED  BY <1>1, <3>1, HistoryTrimmed DEF ChatInv, ChatTypes, KeptInv
    <2>2. CASE ClearHistory
      <3>1. turnsKept' = <<>> /\ continuous' = continuous
        BY <2>2 DEF ClearHistory
      <3>2. Characters(turnsKept') = 0 /\ Len(turnsKept') = 0
        BY <3>1, NothingFits
      <3> QED  BY <1>1, <3>1, <3>2, NothingFits, ChatAssumption DEF InOrder
    <2>3. CASE RecordReport
      <3>1. PICK size \in NoteSizes :
              RecordTurn([turn |-> Note, text |-> <<>>, size |-> size])
        BY <2>3 DEF RecordReport
      <3> DEFINE entry == [turn |-> Note, text |-> <<>>, size |-> size]
                 turns == Append(turnsKept, entry)
      <3>2. entry \in KeptTurns /\ Said(entry) /\ entry.turn = Note
        BY ChatAssumption DEF KeptTurns, Said
      <3>3. turnsKept' = Trimmed(turns, continuous) /\ continuous' = continuous
        BY <3>1, <2>3 DEF RecordTurn, RecordReport
      <3> HIDE DEF entry
      <3>4. /\ turns \in Seq(KeptTurns) /\ InOrder(turns)
            /\ \A i \in DOMAIN turns : Said(turns[i])
        BY <3>2, EntryJoins DEF ChatInv
      <3> HIDE DEF turns
      <3> QED  BY <1>1, <3>3, <3>4, HistoryTrimmed DEF ChatInv, ChatTypes
    <2> QED  BY <2>1, <2>2, <2>3
  <1>3. ChatTypes' /\ StreamInv'
    BY <1>1, <1>2 DEF ChatInv, ChatTypes, StreamInv, stream
  <1>4. KeptInv'
    BY <1>1, <1>2 DEF KeptInv, InOrder, Said, stream
  <1> QED  BY <1>2, <1>3, <1>4 DEF ChatInv, LimitInv

\* A step of the turn in progress that leaves the history alone.
LEMMA ChatTurnGoesOn ==
  ASSUME ChatInv, ChatTypes', UNCHANGED historyState, asking' \in {asking, asking + 1},
         asking' = asking /\ streaming = "none" => streaming' = "none",
         \A t \in ChatTurns : t # asking \/ streaming = "none" =>
           seen'[t] = seen[t] /\ ended'[t] = ended[t]
  PROVE  KeptInv' /\ LimitInv'
  <1>1. \A i \in DOMAIN turnsKept : turnsKept[i] \in KeptTurns
    BY DEF ChatInv, ChatTypes
  <1>2. \A i \in DOMAIN turnsKept : Said(turnsKept[i])'
    BY <1>1, StaysSaid DEF ChatInv, KeptInv, historyState, Said
  <1> QED  BY <1>2 DEF KeptInv, LimitInv, ChatInv, historyState, InOrder, Said

LEMMA TurnEnds ==
  ASSUME ChatInv, streaming # "none", NEW how \in {"answered", "replaced", "failed"}, EndTurn(how)
  PROVE  ChatInv'
  <1>1. ChatTypes' /\ StreamInv'
    BY DEF ChatInv, ChatTypes, StreamInv, EndTurn, historyState
  <1>2. KeptInv' /\ LimitInv'
    BY <1>1, ChatTurnGoesOn DEF ChatInv, ChatTypes, EndTurn, historyState
  <1> QED  BY <1>1, <1>2 DEF ChatInv

LEMMA ChatTurn ==
  ASSUME ChatInv,
         AskChat \/ ReplaceTurn \/ ReceiveToken \/ StreamCancelled \/ ConnectionLost
           \/ ProtocolFails \/ StreamEnds
  PROVE  ChatInv'
  <1>1. CASE AskChat
    <2>1. ChatTypes'
      <3>1. asking' \in 0..MaxPrompts /\ received' \in Seq(Providers)
        BY <1>1, ChatAssumption DEF AskChat, OpenProvider, ChatInv, ChatTypes
      <3>2. /\ streaming' \in Providers /\ visible' \in BOOLEAN
            /\ UNCHANGED <<seen, ended, turnsKept, continuous>>
        BY <1>1 DEF AskChat, OpenProvider, Providers, historyState
      <3> QED  BY <3>1, <3>2 DEF ChatInv, ChatTypes
    <2>2. StreamInv'
      <3>1. /\ asking' = asking + 1 /\ asking' \in ChatTurns /\ streaming' = "cloud"
            /\ received' = <<>> /\ seen' = seen
        BY <1>1, ChatAssumption DEF AskChat, OpenProvider, ChatInv, ChatTypes, ChatTurns
      <3>2. \A t \in ChatTurns : t > asking => seen[t] = <<>>
        BY DEF ChatInv, StreamInv
      <3>3. seen[asking'] = <<>> /\ \A t \in ChatTurns : t > asking' => t > asking
        BY <3>1, <3>2, asking \in Nat DEF ChatInv, ChatTypes, ChatTurns
      <3> QED  BY <3>1, <3>2, <3>3 DEF StreamInv
    <2>3. KeptInv' /\ LimitInv'
      BY <1>1, <2>1, ChatTurnGoesOn DEF AskChat
    <2> QED  BY <2>1, <2>2, <2>3 DEF ChatInv
  <1>2. CASE ReplaceTurn \/ StreamEnds
    <2>1. ChatTypes' /\ StreamInv'
      BY <1>2 DEF ReplaceTurn, StreamEnds, Providers, ChatInv, ChatTypes, StreamInv, historyState,
                 stream
    <2>2. KeptInv' /\ LimitInv'
      <3>1. /\ asking' = asking /\ streaming # "none" /\ UNCHANGED <<seen, ended, historyState>>
        BY <1>2 DEF ReplaceTurn, StreamEnds, stream, Providers
      <3> QED  BY <2>1, <3>1, ChatTurnGoesOn DEF ChatInv, ChatTypes
    <2> QED  BY <2>1, <2>2 DEF ChatInv
  <1>3. CASE ReceiveToken
    <2>1. asking \in ChatTurns /\ seen[asking] \in Seq(Providers) /\ seen[asking] = received
      BY <1>3 DEF ReceiveToken, ChatInv, ChatTypes, StreamInv, Providers
    <2>2. ChatTypes'
      BY <1>3, <2>1 DEF ReceiveToken, ChatInv, ChatTypes, historyState, Providers
    <2>3. StreamInv'
      <3>1. /\ asking' = asking /\ streaming' = streaming /\ streaming \in Providers
            /\ received' = Append(received, streaming)
            /\ seen' = [seen EXCEPT ![asking] = Append(seen[asking], streaming)]
            /\ visible' = (visible \/ streaming = "cloud")
        BY <1>3 DEF ReceiveToken
      <3>2. seen'[asking] = received'
        BY <2>1, <3>1 DEF ChatInv, ChatTypes
      <3>3. \A t \in ChatTurns : t > asking => seen'[t] = seen[t]
        BY <2>1, <3>1 DEF ChatInv, ChatTypes, ChatTurns
      <3>4. \A t \in ChatTurns : t > asking => seen'[t] = <<>>
        BY <3>3 DEF ChatInv, StreamInv
      <3> QED  BY <2>1, <3>1, <3>2, <3>4 DEF StreamInv, Providers
    <2>4. KeptInv' /\ LimitInv'
      BY <1>3, <2>2, ChatTurnGoesOn DEF ReceiveToken, ChatInv, ChatTypes, Providers
    <2> QED  BY <2>2, <2>3, <2>4 DEF ChatInv
  <1>4. CASE ConnectionLost /\ OpenProvider("local")
    <2>0. /\ streaming = "cloud" /\ ~visible
          /\ UNCHANGED <<asking, visible, replaced, seen, ended, historyState, chatSteps>>
      BY <1>4 DEF ConnectionLost, OpenProvider, EndTurn
    <2>1. ChatTypes' /\ StreamInv'
      BY <1>4, <2>0 DEF OpenProvider, Providers, ChatInv, ChatTypes, StreamInv, historyState
    <2>2. KeptInv' /\ LimitInv'
      BY <2>0, <2>1, ChatTurnGoesOn DEF historyState
    <2> QED  BY <2>1, <2>2 DEF ChatInv
  <1>5. CASE streaming # "none" /\ (EndTurn("replaced") \/ EndTurn("failed"))
    BY <1>5, TurnEnds
  <1> QED  BY <1>1, <1>2, <1>3, <1>4, <1>5 DEF ConnectionLost, ProtocolFails, StreamCancelled, Providers

\* The reply joins behind the turns before it.
LEMMA ChatReply == ASSUME ChatInv, RecordReply PROVE ChatInv'
  <1>1. PICK reply : reply = [turn |-> asking, text |-> received, size |-> ReplyLength]
    OBVIOUS
  <1>2. /\ asking \in ChatTurns /\ received = seen[asking] /\ Len(received) = ReplyLength
        /\ streaming = "over" /\ asking # Note /\ asking \in Nat
    BY DEF RecordReply, ChatInv, StreamInv, ChatTurns, Note
  <1>3. /\ turnsKept' = Trimmed(Append(turnsKept, reply), continuous) /\ streaming' = "none"
        /\ ended' = [ended EXCEPT ![asking] = "answered"]
        /\ UNCHANGED <<asking, received, visible, seen, continuous>>
    BY <1>1 DEF RecordReply, RecordTurn
  <1>4. reply \in KeptTurns /\ reply.turn = asking /\ reply.text = received
    <2>1. received \in Seq(Providers) /\ ReplyLength \in Nat
      BY ChatAssumption DEF ChatInv, ChatTypes
    <2> QED  BY <1>1, <1>2, <2>1 DEF KeptTurns
  <1>5. \A i \in DOMAIN turnsKept :
          /\ turnsKept[i] \in KeptTurns /\ Said(turnsKept[i])
          /\ turnsKept[i].turn # Note => turnsKept[i].turn < asking
    <2> TAKE i \in DOMAIN turnsKept
    <2>1. turnsKept[i] \in KeptTurns /\ Said(turnsKept[i])
      BY DEF ChatInv, ChatTypes, KeptInv
    <2>2. turnsKept[i].turn \in Nat
      BY <2>1 DEF KeptTurns, ChatTurns, Note
    <2> QED  BY <1>2, <2>1, <2>2 DEF Said
  <1> DEFINE turns == Append(turnsKept, reply)
  <1>6. /\ turns \in Seq(KeptTurns) /\ DOMAIN turns = 1..(Len(turnsKept) + 1)
        /\ DOMAIN turnsKept = 1..Len(turnsKept) /\ Len(turnsKept) \in Nat
        /\ \A i \in DOMAIN turnsKept : turns[i] = turnsKept[i]
        /\ turns[Len(turnsKept) + 1] = reply
    BY <1>4 DEF ChatInv, ChatTypes
  <1> HIDE DEF turns
  <1>7. InOrder(turns)
    BY <1>4, <1>5, <1>6 DEF InOrder, ChatInv, KeptInv
  <1>8. /\ turnsKept' \in Seq(KeptTurns) /\ InOrder(turnsKept')
        /\ \A i \in DOMAIN turnsKept' : \E j \in DOMAIN turns : turnsKept'[i] = turns[j]
        /\ Len(turnsKept') <= TurnLimit(continuous') /\ Characters(turnsKept') <= CharacterLimit
    BY <1>3, <1>6, <1>7, HistoryTrimmed DEF ChatInv, ChatTypes, turns
  <1>9. ChatTypes' /\ StreamInv'
    BY <1>2, <1>3, <1>8 DEF ChatInv, ChatTypes, StreamInv
  <1>10. \A entry \in KeptTurns :
           (\/ entry = reply
            \/ Said(entry) /\ (entry.turn # Note => entry.turn < asking)) => Said(entry)'
    <2> TAKE entry \in KeptTurns
    <2>1. CASE entry = reply
      BY <1>2, <1>3, <1>4, <2>1 DEF Said, ChatInv, ChatTypes
    <2>2. CASE Said(entry) /\ (entry.turn # Note => entry.turn < asking)
      BY <1>2, <1>3, <2>2 DEF Said, ChatInv, ChatTypes, KeptTurns, ChatTurns, Note
    <2> QED  BY <2>1, <2>2
  <1>11. \A i \in DOMAIN turnsKept' : \E entry \in KeptTurns : turnsKept'[i] = entry /\ Said(entry)'
    <2>1. ASSUME NEW j \in DOMAIN turns
          PROVE  \E entry \in KeptTurns : turns[j] = entry /\ Said(entry)'
      <3>1. turns[j] = reply \/ \E i \in DOMAIN turnsKept : turns[j] = turnsKept[i]
        BY <1>6
      <3>2. PICK entry \in KeptTurns :
              /\ turns[j] = entry
              /\ \/ entry = reply
                 \/ Said(entry) /\ (entry.turn # Note => entry.turn < asking)
        <4>1. CASE turns[j] = reply
          BY <1>4, <4>1
        <4>2. ASSUME NEW i \in DOMAIN turnsKept, turns[j] = turnsKept[i]
              PROVE  /\ turns[j] \in KeptTurns /\ Said(turns[j])
                     /\ turns[j].turn # Note => turns[j].turn < asking
          BY <1>5, <4>2
        <4> QED  BY <3>1, <4>1, <4>2
      <3> QED  BY <1>10, <3>2
    <2> QED  BY <1>8, <2>1
  <1>12. KeptInv'
    BY <1>8, <1>11 DEF KeptInv, InOrder, Said
  <1> QED  BY <1>8, <1>9, <1>12 DEF ChatInv, LimitInv

LEMMA ChatPreserved == ChatInv /\ [ChatNext]_chatVars => ChatInv'
  <1> SUFFICES ASSUME ChatInv, [ChatNext]_chatVars PROVE ChatInv'
    OBVIOUS
  <1>1. CASE UNCHANGED chatVars
    BY <1>1 DEF chatVars, stream, historyState, ChatInv, ChatTypes, StreamInv, KeptInv, InOrder,
                LimitInv, Said
  <1>2. CASE ChatNext
    BY <1>2, ChatHistory, ChatTurn, ChatReply DEF ChatNext
  <1> QED  BY <1>1, <1>2

\* HistoryIsWhatWasSaid: an entry of the history is an answered turn, whole and in
\* the words the user saw, in the order of the prompts and within the limits of
\* the mode (hybrid_client.py, chat.py, history.py).
THEOREM HistoryIsTrue == ChatSpec => []HistoryIsWhatWasSaid
  <1>1. ChatInv => HistoryIsWhatWasSaid
    BY DEF ChatInv, ChatTypes, KeptInv, LimitInv, Said, InOrder, HistoryIsWhatWasSaid
  <1> QED  BY <1>1, ChatInitially, ChatPreserved, PTL DEF ChatSpec

\* What the invariants of the history do not say: the length of what streams, and
\* the counts of what other threads did.
ChatBounds ==
  /\ Len(received) <= ReplyLength /\ replaced \in BOOLEAN
  /\ chatSteps \in [notes : 0..MaxNotes, modes : 0..MaxModeChanges]

LEMMA ChatTyped == ChatTypes => (ChatTypeOK <=> ChatBounds)
  <1> SUFFICES ASSUME ChatTypes PROVE ChatTypeOK <=> ChatBounds
    OBVIOUS
  <1>1. ASSUME NEW i \in DOMAIN turnsKept
        PROVE  turnsKept[i].turn \in {Note} \cup ChatTurns /\ turnsKept[i].size \in Nat
    <2>1. turnsKept[i] \in KeptTurns
      BY DEF ChatTypes
    <2> QED  BY <2>1 DEF KeptTurns
  <1> QED  BY <1>1 DEF ChatTypeOK, ChatTypes, ChatBounds

LEMMA ChatBoundsKept ==
  ASSUME ChatTypes, ChatBounds, [ChatNext]_chatVars
  PROVE  ChatBounds'
  <1> USE ChatAssumption DEF ChatBounds, ChatAssumption
  <1>0. received \in Seq(Providers) /\ Len(received) \in Nat
    BY DEF ChatTypes
  <1>1. CASE UNCHANGED chatVars
    BY <1>1 DEF chatVars, stream
  <1>2. CASE SetContinuous \/ ClearHistory \/ RecordReport
    BY <1>2 DEF SetContinuous, ClearHistory, RecordReport, stream
  <1>3. CASE AskChat
    <2>1. received' = <<>> /\ replaced' = FALSE /\ chatSteps' = chatSteps
      BY <1>3 DEF AskChat, OpenProvider
    <2>2. replaced' \in BOOLEAN
      BY <2>1, Zenon
    <2>3. Len(received') = 0
      BY <2>1
    <2> QED  BY <2>1, <2>2, <2>3
  <1>4. CASE ReplaceTurn
    BY <1>4 DEF ReplaceTurn, stream
  <1>5. CASE ReceiveToken
    <2>1. Len(received') = Len(received) + 1 /\ Len(received) < ReplyLength
      BY <1>0, <1>5 DEF ReceiveToken, Providers
    <2> QED  BY <1>0, <1>5, <2>1 DEF ReceiveToken
  <1>6. CASE StreamCancelled \/ ConnectionLost \/ ProtocolFails
    BY <1>6 DEF StreamCancelled, ConnectionLost, ProtocolFails, EndTurn, OpenProvider
  <1>7. CASE StreamEnds \/ RecordReply
    BY <1>7 DEF StreamEnds, RecordReply
  <1> QED  BY <1>1, <1>2, <1>3, <1>4, <1>5, <1>6, <1>7 DEF ChatNext

LEMMA ChatTypesKept ==
  ASSUME ChatInv, ChatTypeOK, [ChatNext]_chatVars
  PROVE  ChatTypeOK'
  <1>1. ChatTypes' /\ ChatBounds'
    BY ChatPreserved, ChatTyped, ChatBoundsKept DEF ChatInv
  <1>2. ChatTypes' => (ChatTypeOK' <=> ChatBounds')
    BY ChatTyped, PTL
  <1> QED  BY <1>1, <1>2

LEMMA ChatInitiallyTyped == ChatInit => ChatTypeOK
  <1> SUFFICES ASSUME ChatInit PROVE ChatTypeOK
    OBVIOUS
  <1>1. ChatTypes
    BY ChatInitially DEF ChatInv
  <1>2. ChatBounds
    <2>1. received = <<>> /\ replaced = FALSE /\ chatSteps = [notes |-> 0, modes |-> 0]
      BY DEF ChatInit
    <2>2. replaced \in BOOLEAN
      BY <2>1, Zenon
    <2>3. Len(received) = 0
      BY <2>1
    <2> QED  BY <2>1, <2>2, <2>3, ChatAssumption DEF ChatBounds
  <1> QED  BY <1>1, <1>2, ChatTyped

-----------------------------------------------------------------------------
\* Lifecycle.

LifeTypes ==
  /\ lifecycle \in {"built", "starting", "running", "stopping", "stopped", "exited"}
  /\ position \in Nat
  /\ rushed \in BOOLEAN
  /\ archiveQueue \in Seq(Nat) /\ handled \in Seq(Nat)
  /\ archiveWorker \in [state : {"none", "waiting", "writing", "ended"}, record : Nat]
  /\ archiveStop \in {"no", "told", "made_room", "joining"}
  /\ accepted \in Nat /\ owed \in Nat /\ displaced \subseteq Nat

\* The services around the archive: the storage is up while the worker may write.
ServiceInv ==
  /\ lifecycle \in {"built", "starting"} => archiveStop = "no"
  /\ lifecycle = "built" => position = 1 /\ archiveWorker.state = "none"
  /\ lifecycle = "starting" => /\ position \in 1..9
                               /\ position > 1 => "storage" \in up
                               /\ position <= 2 => archiveWorker.state = "none"
  /\ lifecycle = "running" => position = 1 /\ "storage" \in up /\ archiveStop = "no"
  /\ lifecycle = "stopping" => /\ position \in 1..8 /\ "storage" \in up
                               /\ position < 7 => archiveStop = "no"
  /\ (lifecycle = "stopping" /\ position = 8) \/ lifecycle = "stopped" =>
       rushed \/ (archiveStop = "joining" /\ archiveWorker.state = "ended")
  /\ archiveWorker.state \in {"waiting", "writing"} => "storage" \in up \/ rushed

\* How many records have left the queue: written, being written, or given up.
Gone == Len(handled) + (IF archiveWorker.state = "writing" THEN 1 ELSE 0)
                     + (IF displaced = {} THEN 0 ELSE 1)

\* They are the first ones, in order.
WrittenInv ==
  /\ \A d \in displaced : d \in 1..Gone
  /\ \A d, e \in displaced : d = e
  /\ displaced # {} => archiveStop \in {"made_room", "joining"}
  /\ \A i \in DOMAIN handled : handled[i] = InLine(i)
  /\ archiveWorker.state = "writing" => archiveWorker.record = InLine(Len(handled) + 1)

\* The records after them are in the queue, and from the put to the take of the
\* sentinel the sentinel is, behind the records accepted before it.
Joining == archiveStop = "joining"
Over == archiveWorker.state = "ended"

SentinelAt(s) ==
  /\ owed + 1 = Gone + s
  /\ \A j \in DOMAIN archiveQueue :
       archiveQueue[j] = IF j < s THEN Gone + j ELSE IF j = s THEN Sentinel ELSE Gone + j - 1

QueuedInv ==
  /\ Over => Joining /\ owed = Gone
  /\ ~Joining \/ Over =>
       /\ accepted = Gone + Len(archiveQueue)
       /\ \A j \in DOMAIN archiveQueue : archiveQueue[j] = Gone + j
  /\ Joining /\ ~Over =>
       /\ accepted + 1 = Gone + Len(archiveQueue)
       /\ \E s \in DOMAIN archiveQueue : SentinelAt(s)

LifeInv == LifeTypes /\ ServiceInv /\ WrittenInv /\ QueuedInv

LEMMA ServiceOrders ==
  /\ Len(StartOrder) = 8 /\ StartOrder[1] = "storage" /\ StartOrder[2] = "archive"
  /\ \A p \in 3..8 : StartOrder[p] # "archive"
  /\ Len(StopOrder) = 8 /\ StopOrder[7] = "archive" /\ StopOrder[8] = "storage"
  /\ \A p \in 1..6 : StopOrder[p] \notin {"archive", "storage"}
  BY DEF StartOrder, StopOrder

LEMMA GoneCounts ==
  ASSUME LifeTypes
  PROVE  /\ Gone \in Nat /\ Len(handled) \in Nat
         /\ displaced = {} =>
              Gone = Len(handled) + (IF archiveWorker.state = "writing" THEN 1 ELSE 0)
         /\ displaced # {} =>
              Gone = Len(handled) + (IF archiveWorker.state = "writing" THEN 1 ELSE 0) + 1
         /\ Gone >= Len(handled) /\ (displaced # {} => Gone >= Len(handled) + 1)
         /\ archiveWorker.state # "writing" =>
              Gone = IF displaced = {} THEN Len(handled) ELSE Len(handled) + 1
  <1>1. Len(handled) \in Nat
    BY DEF LifeTypes
  <1>2. CASE displaced = {}
    BY <1>1, <1>2 DEF Gone
  <1>3. CASE displaced # {}
    <2>1. (IF displaced = {} THEN 0 ELSE 1) = 1
      BY <1>3
    <2>2. Gone = Len(handled) + (IF archiveWorker.state = "writing" THEN 1 ELSE 0) + 1
      BY <2>1 DEF Gone
    <2> QED  BY <1>1, <1>3, <2>2
  <1> QED  BY <1>1, <1>2, <1>3

LEMMA LifeInitially == LifecycleInit => LifeInv
  <1> SUFFICES ASSUME LifecycleInit PROVE LifeInv
    OBVIOUS
  <1>1. LifeTypes
    <2>1. archiveWorker \in [state : {"none", "waiting", "writing", "ended"}, record : Nat]
      BY DEF LifecycleInit, WaitingWorker, Sentinel
    <2>2. archiveQueue \in Seq(Nat) /\ handled \in Seq(Nat)
      BY DEF LifecycleInit
    <2>3. rushed \in BOOLEAN /\ position \in Nat /\ accepted \in Nat /\ owed \in Nat
      BY DEF LifecycleInit
    <2> QED  BY <2>1, <2>2, <2>3 DEF LifecycleInit, LifeTypes
  <1>2. ServiceInv
    BY DEF LifecycleInit, ServiceInv, WaitingWorker
  <1>3. WrittenInv /\ QueuedInv
    BY DEF LifecycleInit, WrittenInv, QueuedInv, WaitingWorker, Gone, Joining, Over
  <1> QED  BY <1>1, <1>2, <1>3 DEF LifeInv

\* A step that leaves the archive alone keeps what was written and what is queued.
LEMMA ArchiveUntouched ==
  ASSUME LifeInv, UNCHANGED archiveVars
  PROVE  WrittenInv' /\ QueuedInv'
  <1>1. UNCHANGED <<archiveQueue, archiveWorker, archiveStop, accepted, handled, displaced, owed>>
    BY DEF archiveVars
  <1>2. Gone' = Gone /\ Over' = Over /\ Joining' = Joining
    BY <1>1 DEF Gone, Over, Joining
  <1>3. WrittenInv'
    <2>1. \A i \in Nat : InLine(i)' = InLine(i)
      BY <1>1 DEF InLine
    <2>2. /\ \A i \in DOMAIN handled : handled[i] = InLine(i)' 
          /\ archiveWorker.state = "writing" => archiveWorker.record = InLine(Len(handled) + 1)'
      BY <1>1, <2>1 DEF LifeInv, LifeTypes, WrittenInv, InLine
    <2> QED  BY <1>1, <1>2, <2>2 DEF LifeInv, WrittenInv
  <1>4. \A s \in DOMAIN archiveQueue : SentinelAt(s) => SentinelAt(s)'
    BY <1>1, <1>2 DEF SentinelAt
  <1> QED  BY <1>1, <1>2, <1>3, <1>4 DEF LifeInv, QueuedInv

LEMMA LifeMain ==
  ASSUME LifeInv,
         \/ BeginStart \/ StartFails \/ FinishStart \/ LookAtShutdown \/ ReadLine \/ Responded
         \/ ShutdownEvent \/ Signal \/ StopService \/ ProcessEnds \/ TurnBegins
  PROVE  LifeInv'
  <1>1. UNCHANGED archiveVars
    BY DEF BeginStart, StartFails, FinishStart, LookAtShutdown, ReadLine, Responded, ShutdownEvent,
           Signal, StopService, ProcessEnds, TurnBegins
  <1>2. /\ archiveStop' = archiveStop /\ archiveWorker' = archiveWorker /\ rushed' = rushed
        /\ UNCHANGED <<archiveQueue, handled, accepted, owed, displaced>>
    BY <1>1 DEF archiveVars
  <1>3. LifeTypes /\ ServiceInv
    BY DEF LifeInv
  <1>4. CASE \/ /\ lifecycle = "built" /\ lifecycle' = "starting" /\ UNCHANGED <<position, up>>
             \/ /\ lifecycle = "starting" /\ position = 9 /\ lifecycle' = "running"
                /\ position' = 1 /\ up' = up
             \/ /\ lifecycle = "running" /\ lifecycle' \in {"running", "stopping"}
                /\ UNCHANGED <<position, up>>
             \/ /\ lifecycle' = "exited" /\ UNCHANGED <<position, up>>
             \/ UNCHANGED <<lifecycle, position, up>>
    <2>1. LifeTypes'
      BY <1>2, <1>3, <1>4 DEF LifeTypes
    <2>2. ServiceInv'
      BY <1>2, <1>3, <1>4 DEF LifeTypes, ServiceInv
    <2> QED  BY <1>1, <2>1, <2>2, ArchiveUntouched DEF LifeInv
  <1>5. CASE StopService
    <2>1. /\ position \in (1..6) \cup {8} /\ lifecycle = "stopping"
          /\ up' = up \ {StopOrder[position]}
          /\ IF position < 8 THEN position' = position + 1 /\ lifecycle' = lifecycle
                             ELSE lifecycle' = "stopped" /\ position' = position
      BY <1>3, <1>5, ServiceOrders DEF StopService, ServiceStopped, ServiceInv
    <2>2. position < 8 => "storage" \in up'
      BY <1>3, <2>1, ServiceOrders DEF ServiceInv
    <2>3. LifeTypes'
      BY <1>2, <1>3, <2>1 DEF LifeTypes
    <2>4. CASE position < 8
      <3>1. /\ lifecycle' = "stopping" /\ position' \in 1..8 /\ "storage" \in up'
            /\ position' < 7 => archiveStop' = "no"
            /\ position' = 8 => rushed' \/ (archiveStop' = "joining" /\ archiveWorker'.state = "ended")
        BY <1>2, <1>3, <2>1, <2>2, <2>4 DEF ServiceInv
      <3>2. ServiceInv'
        BY <3>1 DEF ServiceInv
      <3> QED  BY <1>1, <2>3, <3>2, ArchiveUntouched DEF LifeInv
    <2>5. CASE ~(position < 8)
      <3>1. /\ lifecycle' = "stopped"
            /\ rushed' \/ (archiveStop' = "joining" /\ archiveWorker'.state = "ended")
        BY <1>2, <1>3, <2>1, <2>5 DEF ServiceInv
      <3>2. ServiceInv'
        BY <3>1 DEF ServiceInv
      <3> QED  BY <1>1, <2>3, <3>2, ArchiveUntouched DEF LifeInv
    <2> QED  BY <2>4, <2>5
  <1> QED
    <2>1. CASE BeginStart \/ StartFails \/ Responded \/ ShutdownEvent \/ ProcessEnds
      BY <1>4, <2>1 DEF BeginStart, StartFails, Responded, ShutdownEvent, ProcessEnds
    <2>2. CASE FinishStart
      <3>1. position = 9
        BY <1>3, <2>2, ServiceOrders DEF FinishStart, ServiceInv
      <3> QED  BY <1>4, <2>2, <3>1 DEF FinishStart
    <2>3. CASE LookAtShutdown \/ ReadLine \/ Signal
      BY <1>4, <2>3 DEF LookAtShutdown, ReadLine, Signal
    <2>4. CASE TurnBegins
      BY <1>4, <2>4 DEF TurnBegins, mainVars
    <2> QED  BY <1>5, <2>1, <2>2, <2>3, <2>4

LEMMA LifeServiceStarts == ASSUME LifeInv, StartService PROVE LifeInv'
  <1>1. /\ lifecycle = "starting" /\ lifecycle' = "starting" /\ position \in 1..8
        /\ position' = position + 1
        /\ UNCHANGED <<archiveQueue, archiveStop, accepted, handled, displaced, owed, rushed>>
        /\ archiveStop = "no"
    BY ServiceOrders DEF StartService, LifeInv, ServiceInv
  <1>2. /\ up \subseteq up' /\ (position = 1 => "storage" \in up')
        /\ archiveWorker' = IF position = 2 THEN WaitingWorker ELSE archiveWorker
    <2>1. position = 2 <=> StartOrder[position] = "archive"
      BY <1>1, ServiceOrders
    <2>2. position = 1 => StartOrder[position] = "storage"
      BY ServiceOrders
    <2> QED  BY <2>1, <2>2 DEF StartService
  <1>3. LifeTypes'
    BY <1>1, <1>2 DEF LifeInv, LifeTypes, WaitingWorker, Sentinel
  <1>4. ServiceInv'
    BY <1>1, <1>2 DEF LifeInv, LifeTypes, ServiceInv, WaitingWorker
  <1>5. archiveWorker.state = "writing" <=> archiveWorker'.state = "writing"
    BY <1>1, <1>2 DEF LifeInv, ServiceInv, WaitingWorker
  <1>6. archiveWorker'.state = "writing" => archiveWorker' = archiveWorker
    BY <1>2 DEF WaitingWorker
  <1>7. Gone' = Gone /\ (Over' <=> Over) /\ ~Joining' /\ ~Joining
    <2>1. Gone' = Gone /\ ~Joining' /\ ~Joining
      BY <1>1, <1>5 DEF Gone, Joining
    <2>2. CASE position = 2
      BY <1>1, <1>2, <2>1, <2>2 DEF Over, WaitingWorker, LifeInv, ServiceInv
    <2>3. CASE position # 2
      BY <1>2, <2>1, <2>3 DEF Over
    <2> QED  BY <2>2, <2>3
  <1>8. WrittenInv' /\ QueuedInv'
    BY <1>1, <1>5, <1>6, <1>7 DEF LifeInv, WrittenInv, QueuedInv, InLine
  <1> QED  BY <1>3, <1>4, <1>8 DEF LifeInv

\* TellArchive, TellArchiveAgain: the sentinel is put behind the records accepted.
LEMMA LifeTold ==
  ASSUME LifeInv, PutSentinel, archiveStop # "joining",
         UNCHANGED <<archiveWorker, accepted, handled, displaced>>
  PROVE  WrittenInv' /\ QueuedInv'
  <1>1. /\ archiveQueue \in Seq(Nat) /\ Len(archiveQueue) \in Nat
        /\ archiveQueue' = Append(archiveQueue, Sentinel) /\ owed' = accepted /\ Joining' /\ ~Joining
    BY DEF PutSentinel, LifeInv, LifeTypes, Joining
  <1>2. /\ Len(archiveQueue') = Len(archiveQueue) + 1
        /\ DOMAIN archiveQueue = 1..Len(archiveQueue)
        /\ DOMAIN archiveQueue' = 1..(Len(archiveQueue) + 1)
        /\ \A j \in DOMAIN archiveQueue : archiveQueue'[j] = archiveQueue[j]
        /\ archiveQueue'[Len(archiveQueue) + 1] = Sentinel
    BY <1>1 DEF Sentinel
  <1>3. Gone' = Gone /\ (Over' <=> Over) /\ ~Over /\ Gone \in Nat
    <2>1. Gone' = Gone /\ Gone \in Nat
      BY GoneCounts DEF Gone, LifeInv
    <2> QED  BY <1>1, <2>1 DEF Over, LifeInv, QueuedInv
  <1>4. WrittenInv'
    BY <1>1, <1>3 DEF LifeInv, WrittenInv, InLine, Joining
  <1>5. accepted = Gone + Len(archiveQueue)
        /\ \A j \in DOMAIN archiveQueue : archiveQueue[j] = Gone + j
    BY <1>1, <1>3 DEF LifeInv, QueuedInv
  <1>6. ASSUME NEW s, s = Len(archiveQueue) + 1 PROVE SentinelAt(s)'
    BY <1>1, <1>2, <1>3, <1>5, <1>6 DEF SentinelAt
  <1>7. \E s \in DOMAIN archiveQueue' : SentinelAt(s)'
    BY <1>1, <1>2, <1>6
  <1> QED  BY <1>1, <1>2, <1>3, <1>4, <1>5, <1>7 DEF QueuedInv

LEMMA LifeArchiveStops ==
  ASSUME LifeInv, TellArchive \/ MakeRoom \/ TellArchiveAgain \/ JoinArchive
  PROVE  LifeInv'
  <1> USE DEF LifeInv
  <1>1. StoppingArchive /\ position = 7 /\ lifecycle = "stopping"
    BY ServiceOrders DEF TellArchive, MakeRoom, TellArchiveAgain, JoinArchive, StoppingArchive,
                         ServiceInv
  <1>2. archiveWorker' = archiveWorker /\ accepted' = accepted /\ handled' = handled
    BY DEF TellArchive, MakeRoom, TellArchiveAgain, JoinArchive
  <1>3. CASE (TellArchive \/ TellArchiveAgain) /\ PutSentinel /\ lifecycle' = lifecycle
    <2>1. /\ UNCHANGED <<position, up, displaced, rushed>> /\ archiveStop # "joining"
      BY <1>3 DEF TellArchive, TellArchiveAgain, mainVars
    <2>2. archiveQueue' \in Seq(Nat) /\ owed' = accepted /\ archiveStop' = "joining"
      BY <1>3 DEF PutSentinel, LifeTypes, Sentinel
    <2>3. LifeTypes' /\ ServiceInv'
      BY <1>1, <1>2, <1>3, <2>1, <2>2 DEF LifeTypes, ServiceInv
    <2> QED  BY <1>2, <1>3, <2>1, <2>3, LifeTold
  <1>4. CASE (TellArchive \/ TellArchiveAgain) /\ archiveQueue' = archiveQueue
    <2>1. /\ UNCHANGED <<position, up, displaced, rushed, owed>>
          /\ archiveStop \in {"no", "made_room"} /\ archiveStop' \in {"told", archiveStop}
          /\ lifecycle' \in {lifecycle, "exited"} /\ (archiveStop' # archiveStop => archiveStop = "no")
      <3>1. ~PutSentinel
        BY <1>4 DEF PutSentinel, LifeTypes, Sentinel
      <3> QED  BY <1>4, <3>1 DEF TellArchive, TellArchiveAgain, mainVars
    <2>2. LifeTypes' /\ ServiceInv'
      BY <1>1, <1>2, <1>4, <2>1 DEF LifeTypes, ServiceInv
    <2>3. Gone' = Gone /\ (Over' <=> Over) /\ ~Joining' /\ ~Joining
      BY <1>2, <2>1 DEF Gone, Over, Joining
    <2>4. WrittenInv' /\ QueuedInv'
      BY <1>2, <1>4, <2>1, <2>3 DEF WrittenInv, QueuedInv, InLine
    <2> QED  BY <2>2, <2>4
  <1>5. CASE MakeRoom
    <2>1. /\ UNCHANGED <<lifecycle, position, up, rushed, owed>>
          /\ archiveStop = "told" /\ archiveStop' = "made_room" /\ displaced = {}
          /\ ~Joining /\ ~Joining' /\ ~Over /\ ~Over'
      BY <1>2, <1>5 DEF MakeRoom, mainVars, WrittenInv, QueuedInv, Joining, Over
    <2>2. CASE archiveQueue = <<>>
      <3>1. archiveQueue' = archiveQueue /\ displaced' = displaced
        BY <1>5, <2>2 DEF MakeRoom
      <3>2. LifeTypes' /\ ServiceInv'
        BY <1>1, <1>2, <2>1, <3>1 DEF LifeTypes, ServiceInv
      <3>3. Gone' = Gone
        BY <1>2, <3>1 DEF Gone
      <3>4. WrittenInv' /\ QueuedInv'
        BY <1>2, <2>1, <3>1, <3>3 DEF WrittenInv, QueuedInv, InLine
      <3> QED  BY <3>2, <3>4
    <2>3. CASE archiveQueue # <<>>
      <3>1. displaced' = {Head(archiveQueue)} /\ archiveQueue' = Tail(archiveQueue)
        BY <1>5, <2>1, <2>3 DEF MakeRoom
      <3>2. /\ archiveQueue \in Seq(Nat) /\ Len(archiveQueue) \in Nat \ {0}
            /\ DOMAIN archiveQueue = 1..Len(archiveQueue)
            /\ archiveQueue' \in Seq(Nat) /\ Len(archiveQueue') = Len(archiveQueue) - 1
            /\ \A j \in DOMAIN archiveQueue' : archiveQueue'[j] = archiveQueue[j + 1]
                                               /\ j + 1 \in DOMAIN archiveQueue
            /\ Head(archiveQueue) = archiveQueue[1] /\ 1 \in DOMAIN archiveQueue
        BY <2>3, <3>1 DEF LifeTypes
      <3>3. Gone \in Nat /\ Gone' = Gone + 1 /\ displaced' = {Gone + 1} /\ Len(handled) \in Nat
            /\ Gone >= Len(handled)
            /\ (archiveWorker.state = "writing" => Gone = Len(handled) + 1)
        <4>1. accepted = Gone + Len(archiveQueue) /\ Head(archiveQueue) = Gone + 1
          BY <2>1, <3>2 DEF QueuedInv
        <4>2. /\ Gone \in Nat /\ Len(handled) \in Nat
              /\ Gone = Len(handled) + (IF archiveWorker.state = "writing" THEN 1 ELSE 0)
          BY <2>1, GoneCounts
        <4>3. Gone' = Len(handled) + (IF archiveWorker.state = "writing" THEN 1 ELSE 0) + 1
          BY <1>2, <3>1, <4>2 DEF Gone
        <4> QED  BY <3>1, <4>1, <4>2, <4>3
      <3>4. LifeTypes' /\ ServiceInv'
        BY <1>1, <1>2, <2>1, <3>2, <3>3 DEF LifeTypes, ServiceInv
      <3>5. \A i \in 1..Gone : InLine(i)' = i /\ InLine(i) = i
        BY <2>1, <3>3 DEF InLine
      <3>6. WrittenInv'
        <4>1. \A i \in DOMAIN handled : i \in 1..Gone
          BY <3>3 DEF LifeTypes
        <4>2. \A i \in DOMAIN handled : handled'[i] = InLine(i)'
          BY <1>2, <3>5, <4>1 DEF WrittenInv
        <4>3. archiveWorker'.state = "writing" => archiveWorker'.record = InLine(Len(handled) + 1)'
          BY <1>2, <2>1, <3>3 DEF WrittenInv, InLine
        <4>4. \A d \in displaced' : d = Gone + 1 /\ d \in 1..Gone'
          BY <3>3
        <4> QED  BY <1>2, <2>1, <3>3, <4>2, <4>3, <4>4 DEF WrittenInv
      <3>7. QueuedInv'
        <4>1. accepted = Gone + Len(archiveQueue)
              /\ \A j \in DOMAIN archiveQueue : archiveQueue[j] = Gone + j
          BY <2>1 DEF QueuedInv
        <4>2. accepted' = Gone' + Len(archiveQueue')
          BY <1>2, <3>2, <3>3, <4>1
        <4>3. \A j \in DOMAIN archiveQueue' : archiveQueue'[j] = Gone' + j
          <5> TAKE j \in DOMAIN archiveQueue'
          <5>1. j \in Nat /\ j + 1 \in DOMAIN archiveQueue /\ archiveQueue'[j] = archiveQueue[j + 1]
            BY <3>2
          <5> QED  BY <3>3, <4>1, <5>1
        <4> QED  BY <2>1, <4>2, <4>3 DEF QueuedInv
      <3> QED  BY <3>4, <3>6, <3>7
    <2> QED  BY <2>2, <2>3
  <1>6. CASE JoinArchive
    <2>1. /\ UNCHANGED <<archiveQueue, archiveStop, displaced, owed>>
          /\ rushed' = (archiveWorker.state # "ended") /\ archiveStop = "joining"
          /\ up' = up \ {"archive"} /\ position' = 8 /\ lifecycle' = lifecycle
      BY <1>1, <1>6, ServiceOrders DEF JoinArchive, ServiceStopped
    <2>2. /\ rushed' \in BOOLEAN /\ (rushed' \/ archiveWorker'.state = "ended")
          /\ "storage" \in up'
      BY <1>1, <1>2, <2>1 DEF ServiceInv
    <2>a. LifeTypes' /\ ServiceInv'
      BY <1>1, <1>2, <2>1, <2>2 DEF LifeTypes, ServiceInv
    <2>3. Gone' = Gone /\ (Over' <=> Over) /\ (Joining' <=> Joining)
      BY <1>2, <2>1 DEF Gone, Over, Joining
    <2>4. WrittenInv'
      BY <1>2, <2>1, <2>3 DEF WrittenInv, InLine
    <2>5. \A s \in DOMAIN archiveQueue : SentinelAt(s) => SentinelAt(s)'
      BY <2>1, <2>3 DEF SentinelAt
    <2>6. QueuedInv'
      BY <1>2, <2>1, <2>3, <2>5 DEF QueuedInv
    <2> QED  BY <2>a, <2>4, <2>6
  <1> QED
    <2>1. CASE TellArchive
      BY <1>3, <1>4, <2>1 DEF TellArchive, mainVars
    <2>2. CASE TellArchiveAgain
      BY <1>3, <1>4, <2>2 DEF TellArchiveAgain
    <2> QED  BY <1>5, <1>6, <2>1, <2>2

\* A voice turn leaves its record at the end of the queue, unless it is full.
LEMMA LifeRecorded == ASSUME LifeInv, ArchiveRecord PROVE LifeInv'
  <1> USE DEF LifeInv
  <1>1. /\ UNCHANGED <<lifecycle, position, up, archiveWorker, archiveStop, handled, displaced,
                       owed, rushed>>
    BY DEF ArchiveRecord, mainVars
  <1>2. Gone' = Gone /\ (Over' <=> Over) /\ (Joining' <=> Joining) /\ Gone \in Nat
    BY <1>1, GoneCounts DEF Gone, Over, Joining
  <1>3. ServiceInv' /\ WrittenInv'
    BY <1>1, <1>2 DEF ServiceInv, WrittenInv, InLine
  <1>4. CASE UNCHANGED <<accepted, archiveQueue>>
    <2>1. \A s \in DOMAIN archiveQueue : SentinelAt(s) => SentinelAt(s)'
      BY <1>1, <1>2, <1>4 DEF SentinelAt
    <2>2. QueuedInv'
      BY <1>1, <1>2, <1>4, <2>1 DEF QueuedInv
    <2> QED  BY <1>1, <1>3, <1>4, <2>2 DEF LifeTypes
  <1>5. CASE accepted' = accepted + 1 /\ archiveQueue' = Append(archiveQueue, accepted + 1)
    <2>1. /\ archiveQueue \in Seq(Nat) /\ Len(archiveQueue) \in Nat /\ accepted \in Nat
          /\ archiveQueue' \in Seq(Nat) /\ Len(archiveQueue') = Len(archiveQueue) + 1
          /\ DOMAIN archiveQueue = 1..Len(archiveQueue)
          /\ DOMAIN archiveQueue' = 1..(Len(archiveQueue) + 1)
          /\ \A j \in DOMAIN archiveQueue : archiveQueue'[j] = archiveQueue[j]
          /\ archiveQueue'[Len(archiveQueue) + 1] = accepted + 1
      BY <1>5 DEF LifeTypes
    <2>2. ASSUME NEW s \in DOMAIN archiveQueue, SentinelAt(s), accepted + 1 = Gone + Len(archiveQueue)
          PROVE  SentinelAt(s)' /\ s \in DOMAIN archiveQueue'
      <3>1. s \in Nat /\ s >= 1 /\ s <= Len(archiveQueue) /\ owed + 1 = Gone + s
        BY <2>1, <2>2 DEF SentinelAt
      <3>2. \A j \in DOMAIN archiveQueue :
              archiveQueue'[j] = IF j < s THEN Gone' + j
                                 ELSE IF j = s THEN Sentinel ELSE Gone' + j - 1
        BY <1>2, <2>1, <2>2 DEF SentinelAt
      <3>3. archiveQueue'[Len(archiveQueue) + 1] = Gone' + (Len(archiveQueue) + 1) - 1
        BY <1>2, <2>1, <2>2
      <3>4. \A j \in DOMAIN archiveQueue' : j \in DOMAIN archiveQueue \/ j = Len(archiveQueue) + 1
        BY <2>1
      <3>5. ~(Len(archiveQueue) + 1 < s) /\ Len(archiveQueue) + 1 # s
        BY <2>1, <3>1
      <3>6. s \in DOMAIN archiveQueue'
        BY <2>1, <3>1
      <3> QED  BY <1>1, <1>2, <3>1, <3>2, <3>3, <3>4, <3>5, <3>6 DEF SentinelAt
    <2>3. QueuedInv'
      <3>1. CASE Joining /\ ~Over
        <4>1. PICK s \in DOMAIN archiveQueue : SentinelAt(s)
          BY <3>1 DEF QueuedInv
        <4>2. accepted + 1 = Gone + Len(archiveQueue)
          BY <3>1 DEF QueuedInv
        <4>3. s \in DOMAIN archiveQueue' /\ SentinelAt(s)'
          BY <2>2, <4>1, <4>2
        <4>4. accepted' + 1 = Gone' + Len(archiveQueue')
          BY <1>2, <1>5, <2>1, <4>2
        <4> QED  BY <1>2, <3>1, <4>3, <4>4 DEF QueuedInv
      <3>2. CASE ~Joining \/ Over
        <4>1. /\ accepted = Gone + Len(archiveQueue)
              /\ \A j \in DOMAIN archiveQueue : archiveQueue[j] = Gone + j
          BY <3>2 DEF QueuedInv
        <4>2. /\ accepted' = Gone' + Len(archiveQueue')
              /\ \A j \in DOMAIN archiveQueue' : archiveQueue'[j] = Gone' + j
          BY <1>2, <1>5, <2>1, <4>1
        <4>3. Over' => Joining' /\ owed' = Gone'
          BY <1>1, <1>2 DEF QueuedInv
        <4> QED  BY <1>2, <3>2, <4>2, <4>3 DEF QueuedInv
      <3> QED  BY <3>1, <3>2
    <2>4. LifeTypes'
      BY <1>1, <1>5, <2>1 DEF LifeTypes
    <2> QED  BY <1>3, <2>3, <2>4
  <1> QED  BY <1>4, <1>5 DEF ArchiveRecord

\* The first entry of the queue: the sentinel, or the next record in line.
LEMMA LifeTaken == ASSUME LifeInv, Take PROVE LifeInv'
  <1> USE DEF LifeInv
  <1>1. /\ UNCHANGED <<lifecycle, position, up, archiveStop, accepted, handled, displaced, owed, rushed>>
        /\ archiveWorker.state = "waiting" /\ ~Over
        /\ archiveWorker' = NextState(Head(archiveQueue)) /\ archiveQueue' = Tail(archiveQueue)
    BY DEF Take, mainVars, Over
  <1>2. /\ archiveQueue \in Seq(Nat) /\ Len(archiveQueue) \in Nat \ {0}
        /\ DOMAIN archiveQueue = 1..Len(archiveQueue)
        /\ archiveQueue' \in Seq(Nat) /\ Len(archiveQueue') = Len(archiveQueue) - 1
        /\ DOMAIN archiveQueue' = 1..(Len(archiveQueue) - 1)
        /\ \A j \in DOMAIN archiveQueue' : j \in Nat /\ archiveQueue'[j] = archiveQueue[j + 1]
                                           /\ j + 1 \in DOMAIN archiveQueue
        /\ Head(archiveQueue) = archiveQueue[1] /\ 1 \in DOMAIN archiveQueue
        /\ Head(archiveQueue) \in Nat
    BY <1>1 DEF LifeTypes, Take
  <1>3. (Joining' <=> Joining) /\ Gone \in Nat /\ Len(handled) \in Nat /\ accepted \in Nat
    BY <1>1, GoneCounts DEF Joining, LifeTypes
  <1>4. /\ archiveWorker' \in [state : {"none", "waiting", "writing", "ended"}, record : Nat]
        /\ Head(archiveQueue) = Sentinel => archiveWorker'.state = "ended"
        /\ Head(archiveQueue) # Sentinel =>
             archiveWorker'.state = "writing" /\ archiveWorker'.record = Head(archiveQueue)
    BY <1>1, <1>2 DEF NextState, Sentinel
  <1>5. LifeTypes'
    BY <1>1, <1>2, <1>4 DEF LifeTypes
  <1>6. CASE Joining /\ archiveQueue[1] = Sentinel
    <2>1. PICK s \in DOMAIN archiveQueue : SentinelAt(s)
      BY <1>1, <1>6 DEF QueuedInv
    <2>2. s = 1 /\ owed = Gone /\ accepted + 1 = Gone + Len(archiveQueue)
      <3>1. s # 1 => archiveQueue[1] = Gone + 1
        BY <1>2, <2>1, s \in Nat, SMTT(30) DEF SentinelAt
      <3>2. s = 1
        BY <1>3, <1>6, <3>1 DEF Sentinel
      <3>3. accepted + 1 = Gone + Len(archiveQueue)
        BY <1>1, <1>6 DEF QueuedInv
      <3> QED  BY <1>1, <1>3, <2>1, <3>2, <3>3 DEF SentinelAt, LifeTypes
    <2>3. archiveWorker'.state = "ended" /\ Over'
      BY <1>2, <1>4, <1>6 DEF Over
    <2>4. Gone' = Gone
      BY <1>1, <2>3 DEF Gone
    <2>5. ServiceInv' /\ WrittenInv'
      BY <1>1, <1>6, <2>3, <2>4 DEF ServiceInv, WrittenInv, InLine, Joining
    <2>6. \A j \in DOMAIN archiveQueue' : archiveQueue'[j] = Gone' + j
      <3> TAKE j \in DOMAIN archiveQueue'
      <3>1. archiveQueue'[j] = archiveQueue[j + 1] /\ j + 1 \in DOMAIN archiveQueue /\ j \in Nat /\ j > 0
        BY <1>2
      <3>2. archiveQueue[j + 1] = Gone + (j + 1) - 1
        BY <2>1, <2>2, <3>1 DEF SentinelAt
      <3> QED  BY <1>3, <2>4, <3>1, <3>2
    <2>7. accepted' = Gone' + Len(archiveQueue')
      BY <1>1, <1>2, <1>3, <2>2, <2>4
    <2> QED  BY <1>1, <1>3, <1>5, <1>6, <2>2, <2>3, <2>4, <2>5, <2>6, <2>7 DEF QueuedInv
  <1>7. CASE archiveQueue[1] # Sentinel \/ ~Joining
    <2>1. Head(archiveQueue) = Gone + 1
      <3>1. CASE ~Joining
        BY <1>2, <1>3, <3>1 DEF QueuedInv
      <3>2. CASE Joining
        <4>1. PICK s \in DOMAIN archiveQueue : SentinelAt(s)
          BY <1>1, <3>2 DEF QueuedInv
        <4>2. s # 1
          BY <1>7, <3>2, <4>1 DEF SentinelAt
        <4> QED  BY <1>2, <4>1, <4>2, s \in Nat, SMTT(30) DEF SentinelAt
      <3> QED  BY <3>1, <3>2
    <2>2. archiveWorker'.state = "writing" /\ archiveWorker'.record = Gone + 1 /\ ~Over'
      BY <1>3, <1>4, <2>1 DEF Over, Sentinel
    <2>3. Gone' = Gone + 1
      <3>1. CASE displaced = {}
        BY <1>1, <1>3, <2>2, <3>1 DEF Gone
      <3>2. CASE displaced # {}
        <4>1. (IF displaced = {} THEN 0 ELSE 1) = 1 /\ (IF displaced' = {} THEN 0 ELSE 1) = 1
          BY <1>1, <3>2
        <4>2. Gone = Len(handled) + 0 + 1 /\ Gone' = Len(handled) + 1 + 1
          BY <1>1, <2>2, <4>1 DEF Gone
        <4> QED  BY <1>3, <4>2
      <3> QED  BY <3>1, <3>2
    <2>4. ServiceInv'
      BY <1>1, <2>2 DEF ServiceInv
    <2>5. WrittenInv'
      <3>1. archiveWorker'.record = InLine(Len(handled) + 1)'
        <4>1. CASE displaced = {}
          <5>1. Gone = Len(handled)
            BY <1>1, <1>3, <4>1, GoneCounts
          <5> QED  BY <1>1, <2>2, <4>1, <5>1 DEF InLine
        <4>2. CASE displaced # {}
          <5>1. Gone = Len(handled) + 1
            BY <1>1, <1>3, <4>2, GoneCounts
          <5>2. \A d \in displaced : d <= Len(handled) + 1
            BY <1>3, <5>1 DEF WrittenInv
          <5> QED  BY <1>1, <1>3, <2>2, <4>2, <5>1, <5>2 DEF InLine
        <4> QED  BY <4>1, <4>2
      <3>2. \A d \in displaced : d \in 1..Gone'
        BY <1>3, <2>3 DEF WrittenInv
      <3>3. \A i \in DOMAIN handled : handled[i] = InLine(i)'
        BY <1>1 DEF WrittenInv, InLine
      <3> QED  BY <1>1, <3>1, <3>2, <3>3 DEF WrittenInv
    <2>6. QueuedInv'
      <3>1. CASE ~Joining
        <4>1. /\ accepted = Gone + Len(archiveQueue)
              /\ \A j \in DOMAIN archiveQueue : archiveQueue[j] = Gone + j
          BY <3>1 DEF QueuedInv
        <4>2. accepted' = Gone' + Len(archiveQueue')
          BY <1>1, <1>2, <1>3, <2>3, <4>1
        <4>3. \A j \in DOMAIN archiveQueue' : archiveQueue'[j] = Gone' + j
          BY <1>2, <1>3, <2>3, <4>1
        <4> QED  BY <1>3, <2>2, <3>1, <4>2, <4>3 DEF QueuedInv
      <3>2. CASE Joining
        <4>1. PICK s \in DOMAIN archiveQueue : SentinelAt(s)
          BY <1>1, <3>2 DEF QueuedInv
        <4>2. s # 1 /\ s \in Nat /\ s >= 1 /\ s <= Len(archiveQueue)
          BY <1>2, <1>7, <3>2, <4>1 DEF SentinelAt
        <4>3. ASSUME NEW r, r = s - 1 PROVE r \in DOMAIN archiveQueue' /\ SentinelAt(r)'
          <5>1. r \in Nat /\ s = r + 1 /\ r \in DOMAIN archiveQueue'
            BY <1>2, <4>2, <4>3, SMTT(30)
          <5>2. owed + 1 = Gone' + r
            BY <1>1, <1>3, <2>3, <4>1, <5>1 DEF SentinelAt, LifeTypes
          <5>3. \A j \in DOMAIN archiveQueue' :
                  archiveQueue'[j] = IF j < r THEN Gone' + j
                                     ELSE IF j = r THEN Sentinel ELSE Gone' + j - 1
            <6> TAKE j \in DOMAIN archiveQueue'
            <6>1. archiveQueue'[j] = archiveQueue[j + 1] /\ j + 1 \in DOMAIN archiveQueue /\ j \in Nat
              BY <1>2
            <6>2. archiveQueue[j + 1] = IF j + 1 < s THEN Gone + (j + 1)
                                        ELSE IF j + 1 = s THEN Sentinel ELSE Gone + (j + 1) - 1
              BY <4>1, <6>1 DEF SentinelAt
            <6> QED  BY <1>3, <2>3, <5>1, <6>1, <6>2 DEF Sentinel
          <5> QED  BY <1>1, <5>1, <5>2, <5>3 DEF SentinelAt
        <4>4. \E r \in DOMAIN archiveQueue' : SentinelAt(r)'
          BY <4>3
        <4>5. accepted' + 1 = Gone' + Len(archiveQueue')
          <5>1. accepted + 1 = Gone + Len(archiveQueue)
            BY <1>1, <3>2 DEF QueuedInv
          <5> QED  BY <1>1, <1>2, <1>3, <2>3, <5>1, SMTT(30)
        <4> QED  BY <1>3, <2>2, <3>2, <4>4, <4>5 DEF QueuedInv
      <3> QED  BY <3>1, <3>2
    <2> QED  BY <1>5, <2>4, <2>5, <2>6
  <1> QED  BY <1>6, <1>7

\* The write has ended: its record is the next in line.
LEMMA LifeWritten == ASSUME LifeInv, WriteRecord PROVE LifeInv'
  <1> USE DEF LifeInv
  <1>1. /\ UNCHANGED <<lifecycle, position, up, archiveStop, accepted, displaced, owed, rushed,
                       archiveQueue>>
        /\ archiveWorker.state = "writing" /\ archiveWorker' = WaitingWorker
        /\ handled' = Append(handled, archiveWorker.record)
    BY DEF WriteRecord, mainVars
  <1>2. archiveWorker'.state = "waiting"
        /\ archiveWorker' \in [state : {"none", "waiting", "writing", "ended"}, record : Nat]
    BY <1>1 DEF WaitingWorker, Sentinel
  <1>3. /\ handled \in Seq(Nat) /\ Len(handled) \in Nat /\ archiveWorker.record \in Nat
        /\ handled' \in Seq(Nat) /\ Len(handled') = Len(handled) + 1
        /\ DOMAIN handled = 1..Len(handled) /\ DOMAIN handled' = 1..(Len(handled) + 1)
        /\ \A i \in DOMAIN handled : handled'[i] = handled[i]
        /\ handled'[Len(handled) + 1] = archiveWorker.record
    BY <1>1 DEF LifeTypes
  <1>4. Gone' = Gone
    <2>1. /\ (IF archiveWorker.state = "writing" THEN 1 ELSE 0) = 1
          /\ (IF archiveWorker'.state = "writing" THEN 1 ELSE 0) = 0
          /\ (IF displaced' = {} THEN 0 ELSE 1) = (IF displaced = {} THEN 0 ELSE 1)
      BY <1>1, <1>2
    <2>2. PICK n \in {0, 1} : n = IF displaced = {} THEN 0 ELSE 1
      OBVIOUS
    <2>3. Gone = Len(handled) + 1 + n /\ Gone' = Len(handled') + 0 + n
      BY <2>1, <2>2 DEF Gone
    <2> QED  BY <1>3, <2>2, <2>3
  <1>5. (Joining' <=> Joining) /\ ~Over /\ ~Over'
    BY <1>1, <1>2 DEF Joining, Over
  <1>6. LifeTypes' /\ ServiceInv'
    BY <1>1, <1>2, <1>3 DEF LifeTypes, ServiceInv
  <1>7. WrittenInv'
    <2>1. \A i \in DOMAIN handled' : handled'[i] = InLine(i)
      <3>1. \A i \in DOMAIN handled : handled'[i] = InLine(i)
        BY <1>3 DEF WrittenInv
      <3>2. handled'[Len(handled) + 1] = InLine(Len(handled) + 1)
        BY <1>1, <1>3 DEF WrittenInv
      <3> QED  BY <1>3, <3>1, <3>2
    <2>2. \A i \in DOMAIN handled' : handled'[i] = InLine(i)'
      BY <1>1, <2>1 DEF InLine
    <2> QED  BY <1>1, <1>2, <1>4, <2>2 DEF WrittenInv
  <1>8. \A s \in DOMAIN archiveQueue : SentinelAt(s) => SentinelAt(s)'
    BY <1>1, <1>4 DEF SentinelAt
  <1>9. QueuedInv'
    BY <1>1, <1>4, <1>5, <1>8 DEF QueuedInv
  <1> QED  BY <1>6, <1>7, <1>9

LEMMA LifePreserved == LifeInv /\ [LifecycleNext]_lifecycleVars => LifeInv'
  <1> SUFFICES ASSUME LifeInv, [LifecycleNext]_lifecycleVars PROVE LifeInv'
    OBVIOUS
  <1>1. CASE UNCHANGED lifecycleVars
    <2>1. UNCHANGED archiveVars /\ UNCHANGED <<lifecycle, position, up>>
      BY <1>1 DEF lifecycleVars, archiveVars
    <2>2. LifeTypes' /\ ServiceInv'
      BY <2>1 DEF LifeInv, LifeTypes, ServiceInv, archiveVars
    <2> QED  BY <2>1, <2>2, ArchiveUntouched DEF LifeInv
  <1>2. CASE LifecycleNext
    BY <1>2, LifeMain, LifeServiceStarts, LifeArchiveStops, LifeRecorded, LifeTaken, LifeWritten
    DEF LifecycleNext
  <1> QED  BY <1>1, <1>2

\* RecordsAreKept: the archive writes what it accepted, in order, but for the one
\* record a full queue gave up, while the storage is up, and at the end of stop
\* nothing accepted before the sentinel is left (health.py, app.py).
THEOREM RecordsReachTheArchive == LifecycleSpec => []RecordsAreKept
  <1>1. ASSUME LifeInv PROVE RecordsAreKept
    <2>0. LifeTypes /\ ServiceInv /\ WrittenInv /\ QueuedInv
      BY <1>1 DEF LifeInv
    <2> USE <2>0
    <2>1. Gone \in Nat /\ Len(handled) \in Nat /\ DOMAIN handled = 1..Len(handled) /\ accepted \in Nat
      BY GoneCounts DEF LifeTypes
    <2>2. Gone <= accepted
      <3>1. Len(archiveQueue) \in Nat /\ (Joining /\ ~Over => Len(archiveQueue) >= 1)
        BY DEF LifeTypes, QueuedInv
      <3> QED  BY <2>1, <3>1 DEF QueuedInv
    <2>3. ASSUME NEW i \in DOMAIN handled PROVE handled[i] = InLine(i) /\ handled[i] <= accepted
      <3>1. handled[i] = InLine(i)
        BY DEF WrittenInv
      <3>2. CASE displaced = {}
        <4>1. Gone >= Len(handled)
          BY <2>1, <3>2, GoneCounts
        <4> QED  BY <2>1, <2>2, <3>1, <3>2, <4>1 DEF InLine
      <3>3. CASE displaced # {}
        <4>1. Gone >= Len(handled) + 1
          BY <2>1, <3>3, GoneCounts
        <4> QED  BY <2>1, <2>2, <3>1, <4>1 DEF InLine
      <3> QED  BY <3>2, <3>3
    <2>4. ~rushed /\ archiveWorker.state = "writing" => "storage" \in up
      BY DEF ServiceInv
    <2>5. ASSUME ~rushed, lifecycle = "stopped", NEW n \in 1..owed
          PROVE  n \in ToSet(handled) \cup displaced
      <3>1. Over /\ owed = Gone /\ archiveWorker.state # "writing"
        BY <2>5 DEF ServiceInv, QueuedInv, Over
      <3>2. n \in 1..Gone
        BY <3>1
      <3>3. CASE displaced = {}
        <4>1. Gone = Len(handled)
          BY <2>1, <3>1, <3>3, GoneCounts
        <4>2. n \in DOMAIN handled /\ handled[n] = n
          BY <2>1, <3>2, <3>3, <4>1 DEF WrittenInv, InLine
        <4> QED  BY <4>2 DEF ToSet
      <3>4. CASE displaced # {}
        <4>1. PICK d \in displaced : displaced = {d}
          BY <3>4 DEF WrittenInv
        <4>2. Gone = Len(handled) + 1 /\ d \in 1..Gone
          <5>1. Gone = Len(handled) + 1
            BY <3>1, <3>4, GoneCounts
          <5>2. d \in 1..Gone
            BY <4>1 DEF WrittenInv
          <5> QED  BY <5>1, <5>2
        <4>3. CASE n < d
          <5>1. n \in DOMAIN handled /\ handled[n] = n
            BY <2>1, <3>2, <4>1, <4>2, <4>3 DEF WrittenInv, InLine
          <5> QED  BY <5>1 DEF ToSet
        <4>4. CASE n > d
          <5>1. n - 1 \in DOMAIN handled /\ d <= n - 1 /\ n - 1 + 1 = n
            BY <2>1, <3>2, <4>2, <4>4
          <5>2. handled[n - 1] = n
            BY <4>1, <5>1 DEF WrittenInv, InLine
          <5> QED  BY <5>1, <5>2 DEF ToSet
        <4> QED  BY <3>2, <4>1, <4>2, <4>3, <4>4
      <3> QED  BY <3>3, <3>4
    <2> QED  BY <2>3, <2>4, <2>5 DEF WrittenInv, RecordsAreKept
  <1> QED  BY <1>1, LifeInitially, LifePreserved, PTL DEF LifecycleSpec

\* What the invariants of the archive do not say: the services and the main
\* thread, and that each record is of a turn that began.
MainTyped ==
  /\ position \in 1..9 /\ up \subseteq ToSet(StartOrder)
  /\ shutdown \in BOOLEAN /\ prompt \in {"check", "reading", "responding"}

TurnsCounted ==
  /\ openTurns \in Nat /\ turnsBegun \in Nat
  /\ accepted + openTurns <= turnsBegun /\ turnsBegun <= MaxRecords

ArchiveBounded ==
  /\ Len(archiveQueue) <= MaximumPending
  /\ archiveWorker.record \in 0..MaxRecords /\ owed \in 0..MaxRecords

LifeBounds == MainTyped /\ TurnsCounted /\ ArchiveBounded

\* The records that left the queue and those in it have been accepted.
LEMMA QueuedWereAccepted ==
  ASSUME LifeInv, NEW limit \in Nat, accepted <= limit
  PROVE  displaced \subseteq 1..limit /\ archiveQueue \in Seq(0..limit)
  <1>1. Gone \in Nat /\ accepted \in Nat /\ archiveQueue \in Seq(Nat) /\ owed \in Nat
    BY GoneCounts DEF LifeInv, LifeTypes
  <1>2. Len(archiveQueue) \in Nat /\ DOMAIN archiveQueue = 1..Len(archiveQueue)
    BY <1>1
  <1>3. CASE ~Joining \/ Over
    <2>1. /\ accepted = Gone + Len(archiveQueue)
          /\ \A j \in DOMAIN archiveQueue : archiveQueue[j] = Gone + j
      BY <1>3 DEF LifeInv, QueuedInv
    <2>2. \A j \in 1..Len(archiveQueue) : archiveQueue[j] \in 0..limit
      BY <1>1, <1>2, <2>1
    <2>3. Gone <= accepted
      BY <1>1, <1>2, <2>1
    <2> QED  BY <1>1, <1>2, <2>2, <2>3 DEF LifeInv, WrittenInv
  <1>4. CASE Joining /\ ~Over
    <2>1. /\ accepted + 1 = Gone + Len(archiveQueue)
          /\ \E s \in DOMAIN archiveQueue : SentinelAt(s)
      BY <1>4 DEF LifeInv, QueuedInv
    <2>2. PICK s \in DOMAIN archiveQueue : SentinelAt(s)
      BY <2>1
    <2>3. s \in 1..Len(archiveQueue)
      BY <1>2, <2>2
    <2>4. ASSUME NEW j \in 1..Len(archiveQueue) PROVE archiveQueue[j] \in 0..limit
      <3>1. archiveQueue[j] = IF j < s THEN Gone + j ELSE IF j = s THEN 0 ELSE Gone + j - 1
        BY <1>2, <2>2 DEF SentinelAt, Sentinel
      <3> QED  BY <1>1, <1>2, <2>1, <2>3, <3>1
    <2>5. Gone <= accepted
      BY <1>1, <1>2, <2>1, <2>3
    <2> QED  BY <1>1, <1>2, <2>4, <2>5 DEF LifeInv, WrittenInv
  <1> QED  BY <1>3, <1>4

LEMMA LifeTyped == LifeInv /\ LifeBounds => LifecycleTypeOK
  <1> SUFFICES ASSUME LifeInv, LifeBounds PROVE LifecycleTypeOK
    OBVIOUS
  <1>1. accepted \in 0..MaxRecords /\ openTurns \in 0..MaxRecords /\ owed \in 0..MaxRecords
    BY LifecycleAssumption DEF LifeInv, LifeTypes, LifeBounds, TurnsCounted, ArchiveBounded
  <1>2. displaced \subseteq 1..MaxRecords
    BY <1>1, QueuedWereAccepted, LifecycleAssumption
  <1>3. archiveQueue \in Seq(0..MaxRecords) /\ Len(archiveQueue) <= MaximumPending
    <2>1. archiveQueue \in Seq(0..MaxRecords)
      BY <1>1, QueuedWereAccepted, LifecycleAssumption
    <2> QED  BY <2>1 DEF LifeBounds, ArchiveBounded
  <1>4. archiveWorker \in [state : {"none", "waiting", "writing", "ended"}, record : 0..MaxRecords]
    BY DEF LifeInv, LifeTypes, LifeBounds, ArchiveBounded
  <1>5. position \in 1..(Len(StartOrder) + 1) /\ up \subseteq ToSet(StartOrder)
    BY ServiceOrders DEF LifeBounds, MainTyped
  <1> QED  BY <1>1, <1>2, <1>3, <1>4, <1>5 DEF LifeInv, LifeTypes, LifeBounds, MainTyped, LifecycleTypeOK

LEMMA MainKept ==
  ASSUME LifeInv, MainTyped, [LifecycleNext]_lifecycleVars
  PROVE  MainTyped'
  <1> USE ServiceOrders DEF MainTyped
  <1>1. CASE BeginStart \/ StartFails \/ FinishStart \/ ProcessEnds
    BY <1>1 DEF BeginStart, StartFails, FinishStart, ProcessEnds
  <1>2. CASE StartService
    <2>1. position \in 1..8 /\ position' = position + 1 /\ UNCHANGED <<shutdown, prompt>>
      BY <1>2 DEF StartService
    <2>2. StartOrder[position] \in ToSet(StartOrder)
      <3>1. DOMAIN StartOrder = 1..8
        BY DEF StartOrder
      <3> QED  BY <2>1, <3>1 DEF ToSet
    <2>3. up' \subseteq up \cup {StartOrder[position]}
      BY <1>2 DEF StartService
    <2> QED  BY <2>1, <2>2, <2>3
  <1>3. CASE LookAtShutdown \/ ReadLine \/ Responded \/ ShutdownEvent
    BY <1>3 DEF LookAtShutdown, ReadLine, Responded, ShutdownEvent
  <1>4. CASE Signal
    <2>1. UNCHANGED <<position, up>> /\ shutdown' = TRUE /\ prompt' \in {"check", prompt}
      BY <1>4 DEF Signal
    <2> QED  BY <2>1
  <1>5. CASE StopService \/ JoinArchive
    <2>1. lifecycle = "stopping" /\ ServiceStopped
      BY <1>5 DEF StopService, JoinArchive, StoppingArchive
    <2>2. position \in 1..8
      BY <2>1 DEF LifeInv, ServiceInv
    <2> QED  BY <2>1, <2>2 DEF ServiceStopped
  <1>6. CASE TellArchive \/ MakeRoom \/ TellArchiveAgain \/ TurnBegins \/ ArchiveRecord \/ Take \/ WriteRecord
    BY <1>6 DEF TellArchive, MakeRoom, TellArchiveAgain, TurnBegins, ArchiveRecord, Take, WriteRecord, mainVars
  <1>7. CASE UNCHANGED lifecycleVars
    BY <1>7 DEF lifecycleVars
  <1> QED  BY <1>1, <1>2, <1>3, <1>4, <1>5, <1>6, <1>7 DEF LifecycleNext

LEMMA TurnsKept ==
  ASSUME LifeTypes, TurnsCounted, [LifecycleNext]_lifecycleVars
  PROVE  TurnsCounted'
  <1> USE LifecycleAssumption DEF TurnsCounted
  <1>0. accepted \in Nat
    BY DEF LifeTypes
  <1>1. CASE TurnBegins
    BY <1>0, <1>1 DEF TurnBegins, archiveVars
  <1>2. CASE ArchiveRecord
    BY <1>0, <1>2 DEF ArchiveRecord
  <1>3. CASE \/ BeginStart \/ StartService \/ StartFails \/ FinishStart \/ LookAtShutdown \/ ReadLine
             \/ Responded \/ ShutdownEvent \/ Signal \/ StopService \/ ProcessEnds
    BY <1>3 DEF BeginStart, StartService, StartFails, FinishStart, LookAtShutdown, ReadLine,
                Responded, ShutdownEvent, Signal, StopService, ProcessEnds, archiveVars, outsideVars
  <1>4. CASE TellArchive \/ MakeRoom \/ TellArchiveAgain \/ JoinArchive \/ Take \/ WriteRecord
    BY <1>4 DEF TellArchive, MakeRoom, TellArchiveAgain, JoinArchive, Take, WriteRecord, outsideVars
  <1>5. CASE UNCHANGED lifecycleVars
    BY <1>5 DEF lifecycleVars
  <1> QED  BY <1>1, <1>2, <1>3, <1>4, <1>5 DEF LifecycleNext

LEMMA ArchiveKept ==
  ASSUME LifeInv, TurnsCounted, ArchiveBounded, [LifecycleNext]_lifecycleVars
  PROVE  ArchiveBounded'
  <1> USE LifecycleAssumption DEF ArchiveBounded
  <1>0. /\ archiveQueue \in Seq(Nat) /\ Len(archiveQueue) \in Nat /\ accepted \in 0..MaxRecords
        /\ \A j \in DOMAIN archiveQueue : archiveQueue[j] \in 0..MaxRecords
        /\ archiveQueue # <<>> => Len(archiveQueue) > 0 /\ Head(archiveQueue) = archiveQueue[1]
    <2>1. accepted \in 0..MaxRecords
      BY DEF LifeInv, LifeTypes, TurnsCounted
    <2>2. archiveQueue \in Seq(0..MaxRecords)
      BY <2>1, QueuedWereAccepted
    <2> QED  BY <2>1, <2>2
  <1>1. CASE PutSentinel /\ UNCHANGED archiveWorker
    BY <1>0, <1>1 DEF PutSentinel, Sentinel
  <1>2. CASE TellArchive \/ TellArchiveAgain
    <2>1. \/ PutSentinel /\ UNCHANGED archiveWorker
          \/ UNCHANGED <<archiveQueue, archiveWorker, owed>>
      BY <1>2 DEF TellArchive, TellArchiveAgain
    <2> QED  BY <1>1, <2>1
  <1>3. CASE MakeRoom
    BY <1>0, <1>3 DEF MakeRoom
  <1>4. CASE ArchiveRecord
    BY <1>0, <1>4 DEF ArchiveRecord, LifeInv, LifeTypes
  <1>5. CASE Take
    <2>1. archiveWorker'.record \in {Sentinel, Head(archiveQueue)}
      BY <1>5 DEF Take, NextState
    <2> QED  BY <1>0, <1>5, <2>1 DEF Take, Sentinel
  <1>6. CASE WriteRecord \/ StartService
    BY <1>6 DEF WriteRecord, StartService, WaitingWorker, Sentinel
  <1>7. CASE JoinArchive
    BY <1>7 DEF JoinArchive
  <1>8. CASE \/ BeginStart \/ StartFails \/ FinishStart \/ LookAtShutdown \/ ReadLine
             \/ Responded \/ ShutdownEvent \/ Signal \/ StopService \/ ProcessEnds \/ TurnBegins
    BY <1>8 DEF BeginStart, StartFails, FinishStart, LookAtShutdown, ReadLine,
                Responded, ShutdownEvent, Signal, StopService, ProcessEnds, TurnBegins, archiveVars
  <1>9. CASE UNCHANGED lifecycleVars
    BY <1>9 DEF lifecycleVars
  <1> QED  BY <1>2, <1>3, <1>4, <1>5, <1>6, <1>7, <1>8, <1>9 DEF LifecycleNext

LEMMA LifeBoundsKept ==
  ASSUME LifeInv, LifeBounds, [LifecycleNext]_lifecycleVars
  PROVE  LifeBounds'
  BY MainKept, TurnsKept, ArchiveKept DEF LifeInv, LifeBounds

LEMMA LifeInitiallyBounded == LifecycleInit => LifeBounds
  <1> SUFFICES ASSUME LifecycleInit PROVE LifeBounds
    OBVIOUS
  <1>1. MainTyped
    <2>1. position \in 1..9
      BY DEF LifecycleInit
    <2> QED  BY <2>1, Zenon DEF LifecycleInit, MainTyped
  <1>2. TurnsCounted
    BY LifecycleAssumption DEF LifecycleInit, TurnsCounted
  <1>3. ArchiveBounded
    <2>1. archiveQueue = <<>> /\ archiveWorker.record = 0 /\ owed = 0
      BY DEF LifecycleInit, WaitingWorker, Sentinel
    <2> QED  BY <2>1, Len(<<>>) = 0, LifecycleAssumption DEF ArchiveBounded
  <1> QED  BY <1>1, <1>2, <1>3 DEF LifeBounds

-----------------------------------------------------------------------------
\* FaceAnimator.

\* A sleeping face is on its way to closed eyes, or has them, and nothing else
\* moves its eyes; only a sleeping one closes them for good.
AsleepInv ==
  /\ look = "sleeping" =>
       /\ pose \in {"closing", "none"} /\ (pose = "none" => eyes = "closed") /\ ~blinking
  /\ pose = "closing" => look = "sleeping"
  /\ "acknowledge" \in callbacks => look = "listening"

AnimatorInv == AnimatorTypeOK /\ AsleepInv /\ FaceComesToRest

LEMMA AnimatorInitially == AnimatorInit => AnimatorInv
  BY FaceAssumption DEF AnimatorInit, AnimatorInv, AnimatorTypeOK, AsleepInv, FaceComesToRest, Callbacks

\* An expression is shown with callbacks that move no silent mouth.
LEMMA FaceShown ==
  ASSUME AnimatorInv,
         NEW expression \in FaceExpressions,
         NEW kept \in SUBSET Callbacks, ShowFrom(expression, kept), eyes' = eyes,
         speaking' \in BOOLEAN, receivingLevels' \in BOOLEAN,
         ~speaking' => expression # "speaking" \/ (~speaking /\ kept \subseteq callbacks)
  PROVE  AnimatorInv'
  <1>1. AnimatorTypeOK'
    <2>1. blinking' \in BOOLEAN /\ pendingAcknowledgement' \in BOOLEAN /\ look' = expression
      BY DEF ShowFrom
    <2>2. callbacks' \subseteq Callbacks
      BY DEF ShowFrom, Callbacks
    <2>3. pose' \in {"closing", "opening", "plain"} /\ mouth' \in {mouth, "rest"}
      BY DEF ShowFrom
    <2> QED  BY <2>1, <2>2, <2>3 DEF AnimatorInv, AnimatorTypeOK
  <1>2. AsleepInv'
    BY DEF ShowFrom, AnimatorInv, AnimatorTypeOK, AsleepInv
  <1>3. look' # "sleeping" => "blink" \in callbacks'
    BY DEF ShowFrom
  <1>4. ~speaking' => mouth' = "rest" /\ callbacks' \cap {"syllable", "watchdog"} = {}
    <2>1. CASE expression # "speaking"
      BY <2>1 DEF ShowFrom
    <2>2. CASE expression = "speaking" /\ ~speaking /\ kept \subseteq callbacks
      BY <2>2 DEF ShowFrom, AnimatorInv, FaceComesToRest
    <2> QED  BY <2>1, <2>2
  <1> QED  BY <1>1, <1>2, <1>3, <1>4 DEF AnimatorInv, AsleepInv, FaceComesToRest

\* The steps that show an expression.
LEMMA FaceExpressionChanges ==
  ASSUME AnimatorInv,
         SetExpression \/ OnSpeechStarted \/ OnSpeechEnded \/ OnDisconnected \/ SafeState
           \/ OnFaceTapped
  PROVE  AnimatorInv'
  <1>1. callbacks \subseteq Callbacks /\ speaking \in BOOLEAN /\ receivingLevels \in BOOLEAN
    BY DEF AnimatorInv, AnimatorTypeOK
  <1>2. CASE SetExpression
    BY <1>1, <1>2, FaceAssumption, FaceShown DEF SetExpression, Show
  <1>3. CASE OnSpeechStarted
    <2>1. callbacks \cup {"syllable", "watchdog"} \in SUBSET Callbacks
      BY <1>1 DEF Callbacks
    <2> QED  BY <1>3, <2>1, FaceAssumption, FaceShown DEF OnSpeechStarted
  <1>4. CASE OnSpeechEnded /\ Show("idle")
    BY <1>1, <1>4, FaceAssumption, FaceShown DEF OnSpeechEnded, Show
  <1>5. CASE OnSpeechEnded /\ StopSpeechMotion
    BY <1>5 DEF OnSpeechEnded, StopSpeechMotion, AnimatorInv, AnimatorTypeOK, AsleepInv,
                FaceComesToRest
  <1>6. CASE OnDisconnected /\ ShowFrom("sleeping", callbacks \ {"safeIdle", "safeSleep"})
    <2>1. callbacks \ {"safeIdle", "safeSleep"} \in SUBSET Callbacks
      BY <1>1
    <2> QED  BY <1>6, <2>1, FaceAssumption, FaceShown DEF OnDisconnected
  <1>7. CASE OnDisconnected /\ mouth' = "rest"
             /\ callbacks' = (callbacks \ {"syllable", "watchdog"}) \cup {"safeIdle", "safeSleep"}
             /\ UNCHANGED <<look, pose, blinking, pendingAcknowledgement>>
    BY <1>7 DEF OnDisconnected, AnimatorInv, AnimatorTypeOK, AsleepInv, FaceComesToRest, Callbacks
  <1>8. CASE SafeState
    <2>1. /\ callbacks \ {"safeIdle"} \in SUBSET Callbacks
          /\ callbacks \ {"safeSleep"} \in SUBSET Callbacks
      BY <1>1
    <2> QED  BY <1>1, <1>8, <2>1, FaceAssumption, FaceShown DEF SafeState
  <1>9. CASE OnFaceTapped
    BY <1>1, <1>9, FaceAssumption, FaceShown DEF OnFaceTapped, Show
  <1> QED  BY <1>2, <1>3, <1>4, <1>5, <1>6, <1>7, <1>8, <1>9 DEF OnSpeechEnded, OnDisconnected

\* A blink begins, or only callbacks are gone.
LEMMA FaceBlinks ==
  ASSUME AnimatorInv, NEW acknowledgement \in BOOLEAN, NEW posted \in SUBSET callbacks,
         Blink(acknowledgement, posted),
         UNCHANGED <<look, eyes, pose, mouth, speaking, receivingLevels>>
  PROVE  AnimatorInv'
  <1>1. /\ callbacks' \subseteq callbacks /\ blinking' \in BOOLEAN /\ pendingAcknowledgement' \in BOOLEAN
        /\ look = "sleeping" \/ blinking'
        /\ look = "sleeping" => blinking' = blinking
    <2>1. blinking \in BOOLEAN /\ pendingAcknowledgement \in BOOLEAN
      BY DEF AnimatorInv, AnimatorTypeOK
    <2>2. CASE look = "sleeping"
      BY <2>1, <2>2 DEF Blink
    <2>3. CASE look # "sleeping" /\ blinking
      BY <2>1, <2>3 DEF Blink
    <2>4. CASE look # "sleeping" /\ ~blinking
      BY <2>1, <2>4 DEF Blink
    <2> QED  BY <2>1, <2>2, <2>3, <2>4
  <1> QED  BY <1>1 DEF AnimatorInv, AnimatorTypeOK, AsleepInv, FaceComesToRest

LEMMA FaceMoves ==
  ASSUME AnimatorInv,
         \/ PoseMoves \/ PoseEnds \/ BlinkNaturally \/ AcknowledgementBlink \/ MicroExpression
         \/ EntryAccent \/ BlinkMoves \/ BlinkEnds
  PROVE  AnimatorInv'
  <1>1. CASE PoseMoves \/ PoseEnds \/ BlinkMoves
    BY <1>1
    DEF PoseMoves, PoseEnds, BlinkMoves, AnimatorInv, AnimatorTypeOK, AsleepInv, FaceComesToRest
  <1>2. CASE \E c \in {"blink", "acknowledge", "accent", "none"}, acknowledgement \in BOOLEAN :
               /\ Blink(acknowledgement, callbacks \ {c})
               /\ UNCHANGED <<look, eyes, pose, mouth, speaking, receivingLevels>>
    BY <1>2, FaceBlinks
  <1>3. CASE \E c \in {"acknowledge", "accent", "none"} :
               /\ c = "acknowledge" => look # "listening"
               /\ callbacks' = callbacks \ {c}
               /\ UNCHANGED <<look, eyes, pose, mouth, speaking, receivingLevels, blinking,
                              pendingAcknowledgement>>
    BY <1>3 DEF AnimatorInv, AnimatorTypeOK, AsleepInv, FaceComesToRest
  <1>4. CASE BlinkNaturally \/ AcknowledgementBlink \/ EntryAccent
    <2>1. BlinkNaturally => \/ Blink(FALSE, callbacks \ {"blink"})
                            \/ callbacks' = callbacks \ {"none"}
                               /\ UNCHANGED <<blinking, pendingAcknowledgement>>
      BY DEF BlinkNaturally, AnimatorInv, AnimatorTypeOK, Callbacks
    <2>2. UNCHANGED <<look, eyes, pose, mouth, speaking, receivingLevels>>
      BY <1>4 DEF BlinkNaturally, AcknowledgementBlink, EntryAccent
    <2> QED  BY <1>2, <1>3, <1>4, <2>1, <2>2 DEF AcknowledgementBlink, EntryAccent
  <1>5. CASE MicroExpression
    <2>1. callbacks \ {"none"} = callbacks
      BY DEF AnimatorInv, AnimatorTypeOK, Callbacks
    <2> QED  BY <1>2, <1>3, <1>5, <2>1 DEF MicroExpression
  <1>6. CASE BlinkEnds
    BY <1>6 DEF BlinkEnds, Callbacks, AnimatorInv, AnimatorTypeOK, AsleepInv, FaceComesToRest
  <1> QED  BY <1>1, <1>4, <1>5, <1>6

LEMMA FaceSpeaks ==
  ASSUME AnimatorInv, OnSpeechLevel \/ CheckSpeechSamples \/ SimulatedSyllable \/ OnConnected
  PROVE  AnimatorInv'
  <1> USE DEF AnimatorInv, AnimatorTypeOK, AsleepInv, FaceComesToRest, Callbacks
  <1>1. CASE OnSpeechLevel
    <2>1. /\ speaking' /\ speaking' \in BOOLEAN /\ receivingLevels' \in BOOLEAN /\ mouth' = "moving"
          /\ UNCHANGED <<eyes, blinking, pendingAcknowledgement>>
      BY <1>1 DEF OnSpeechLevel
    <2>2. CASE speaking
      <3>1. /\ callbacks' = (callbacks \ {"syllable"}) \cup {"watchdog"}
            /\ UNCHANGED <<look, pose>>
        BY <1>1, <2>2 DEF OnSpeechLevel
      <3> QED  BY <2>1, <3>1
    <2>3. CASE ~speaking
      <3>1. /\ look' = "speaking" /\ pose' \in {"opening", "plain"}
            /\ callbacks' = (callbacks \ {"acknowledge", "syllable"})
                              \cup {"blink", "micro", "watchdog"}
        BY <1>1, <2>3 DEF OnSpeechLevel
      <3> QED  BY <2>1, <3>1, FaceAssumption
    <2> QED  BY <2>2, <2>3
  <1>2. CASE CheckSpeechSamples
    <2>1. UNCHANGED <<look, eyes, pose, blinking, mouth, speaking, pendingAcknowledgement>>
      BY <1>2 DEF CheckSpeechSamples
    <2>2. receivingLevels' \in BOOLEAN
      BY <1>2 DEF CheckSpeechSamples
    <2>3. \/ ~speaking /\ callbacks' = callbacks \ {"watchdog"}
          \/ speaking /\ callbacks' \in {callbacks, callbacks \cup {"syllable"}}
      BY <1>2 DEF CheckSpeechSamples
    <2> QED  BY <2>1, <2>2, <2>3
  <1>4. CASE SimulatedSyllable
    BY <1>4 DEF SimulatedSyllable
  <1>3. CASE OnConnected
    BY <1>3 DEF OnConnected
  <1> QED  BY <1>1, <1>2, <1>3, <1>4

LEMMA AnimatorPreserved == AnimatorInv /\ [AnimatorNext]_animatorVars => AnimatorInv'
  <1>1. ASSUME AnimatorInv, UNCHANGED animatorVars PROVE AnimatorInv'
    BY <1>1 DEF animatorVars, AnimatorInv, AnimatorTypeOK, AsleepInv, FaceComesToRest
  <1> QED  BY <1>1, FaceExpressionChanges, FaceMoves, FaceSpeaks DEF AnimatorNext

\* FaceComesToRest: a sleeping face ends with closed eyes, an awake one always
\* blinks again, and a silent one moves no mouth (FaceAnimator.java).
THEOREM FaceRests == AnimatorSpec => []FaceComesToRest
  BY AnimatorInitially, AnimatorPreserved, PTL DEF AnimatorSpec, AnimatorInv

-----------------------------------------------------------------------------
\* VoiceService.

Answering == {"handling", "thinking", "leaving", "returning"}
Sounding == {"speaking", "settling"}
RequestPlaces == {"unheard", "heard", "dropped", "pending", "replaced", "handling", "thinking",
           "leaving", "returning", "speaking", "settling", "picking", "inviting", "done"}

Ears == [at : {"off", "start", "top", "read", "segment", "recognise", "command", "offer",
               "silence", "cancel", "outcome"},
         request : Requests \cup {Nobody}, wake : BOOLEAN, switching : BOOLEAN,
         outcome : Outcomes]

VoiceTypes ==
  /\ ear \in Ears /\ wakePending \in BOOLEAN
  /\ place \in [Requests -> RequestPlaces]
  /\ responseActive \in BOOLEAN /\ readying \in BOOLEAN
  /\ completion \in Requests \cup {Nobody} /\ pendingPrompt \in Requests \cup {Nobody}

\* The flags say where the turn in progress is.
TurnInv ==
  /\ \A r \in Requests : place[r] \in Answering => responseActive
  /\ responseActive => \E r \in Requests : place[r] \in Answering
  /\ \A r \in Requests : place[r] \in Sounding => readying /\ completion = r
  /\ \A r \in Requests : place[r] = "picking" => readying /\ completion = Nobody
  /\ completion # Nobody => place[completion] \in Sounding
  /\ readying => \E r \in Requests : place[r] \in Sounding \cup {"picking"}
  /\ \A q, r \in Requests : InTurn(q) /\ InTurn(r) => q = r

\* A request in the hand of the listening thread is nowhere else, and one that
\* waits has a turn to take it over.
WaitingInv ==
  /\ ear.at \in {"command", "offer"} => ear.request \in Requests /\ place[ear.request] = "heard"
  /\ \A r \in Requests : place[r] = "pending" <=> pendingPrompt = r
  /\ pendingPrompt # Nobody => \E r \in Requests : InTurn(r)

VoiceInv == VoiceTypes /\ TurnInv /\ WaitingInv

turnVars == <<place, responseActive, readying, completion, pendingPrompt>>

LEMMA NobodyAsks == Nobody \notin Requests
  BY DEF Nobody, Requests

LEMMA VoiceInitially == VoiceInit => VoiceInv
  <1> SUFFICES ASSUME VoiceInit PROVE VoiceInv
    OBVIOUS
  <1>1. ear \in Ears /\ ear.at = "off"
    BY DEF VoiceInit, Deaf, Ears, Outcomes
  <1>2. VoiceTypes
    BY <1>1 DEF VoiceInit, VoiceTypes, RequestPlaces
  <1>3. TurnInv
    BY DEF VoiceInit, TurnInv, Answering, Sounding, InTurn
  <1>4. WaitingInv
    BY <1>1, NobodyAsks DEF VoiceInit, WaitingInv
  <1> QED  BY <1>2, <1>3, <1>4 DEF VoiceInv

\* TurnIsActive is true exactly while a request is worked on.
LEMMA TurnIsSomeones ==
  ASSUME VoiceInv
  PROVE  TurnIsActive <=> \E r \in Requests : InTurn(r)
  <1>1. completion # Nobody => readying
    BY DEF VoiceInv, VoiceTypes, TurnInv
  <1>2. TurnIsActive <=> responseActive \/ readying
    BY <1>1 DEF TurnIsActive
  <1>3. responseActive \/ readying => \E r \in Requests : InTurn(r)
    BY DEF VoiceInv, TurnInv, Answering, Sounding, InTurn
  <1>4. (\E r \in Requests : InTurn(r)) => responseActive \/ readying
    BY DEF VoiceInv, TurnInv, Answering, Sounding, InTurn
  <1> QED  BY <1>2, <1>3, <1>4

\* A step that touches no request and no flag of a turn.
LEMMA OnlyTheEar ==
  ASSUME VoiceInv, UNCHANGED turnVars, ear' \in Ears, wakePending' \in BOOLEAN,
         ear'.at \in {"command", "offer"} =>
           ear.at \in {"command", "offer"} /\ ear'.request = ear.request
  PROVE  VoiceInv'
  <1>1. UNCHANGED <<place, responseActive, readying, completion, pendingPrompt>>
    BY DEF turnVars
  <1>2. VoiceTypes'
    BY <1>1 DEF VoiceInv, VoiceTypes
  <1>3. TurnInv'
    BY <1>1 DEF VoiceInv, TurnInv, InTurn
  <1>4. WaitingInv'
    BY <1>1 DEF VoiceInv, WaitingInv, InTurn
  <1> QED  BY <1>2, <1>3, <1>4 DEF VoiceInv

\* Where the listening thread goes when it only changes its place.
LEMMA EarMoves ==
  ASSUME ear \in Ears
  PROVE  /\ \A at \in {"off", "start", "top", "read", "segment", "recognise", "command", "offer",
                       "silence", "cancel", "outcome"} :
              Ear(at) => ear' \in Ears /\ ear'.at = at /\ ear'.request = ear.request
         /\ \A outcome \in Outcomes :
              Conclude(outcome) => ear' \in Ears /\ ear'.at = "outcome"
         /\ Deaf \in Ears /\ Deaf.at = "off"
         /\ \A at \in {"start", "top"} :
              [Deaf EXCEPT !.at = at] \in Ears /\ [Deaf EXCEPT !.at = at].at = at
         /\ \A wake \in BOOLEAN :
              LET e == [ear EXCEPT !.at = "recognise", !.wake = wake]
              IN e \in Ears /\ e.at = "recognise"
  <1>1. \A at \in {"off", "start", "top", "read", "segment", "recognise", "command", "offer",
                   "silence", "cancel", "outcome"} :
          Ear(at) => ear' \in Ears /\ ear'.at = at /\ ear'.request = ear.request
    BY DEF Ears, Ear
  <1>2. \A outcome \in Outcomes : Conclude(outcome) => ear' \in Ears /\ ear'.at = "outcome"
    BY DEF Ears, Conclude
  <1>3. Deaf \in Ears /\ Deaf.at = "off"
    BY DEF Ears, Deaf, Outcomes
  <1>4. \A at \in {"start", "top"} :
          [Deaf EXCEPT !.at = at] \in Ears /\ [Deaf EXCEPT !.at = at].at = at
    BY <1>3 DEF Ears
  <1>5. \A wake \in BOOLEAN :
          LET e == [ear EXCEPT !.at = "recognise", !.wake = wake]
          IN e \in Ears /\ e.at = "recognise"
    BY DEF Ears
  <1> QED  BY <1>1, <1>2, <1>3, <1>4, <1>5

\* A request in progress goes to its next place with the flags as they are.
LEMMA TurnMoves ==
  ASSUME VoiceInv, NEW r \in Requests, NEW from, NEW to \in RequestPlaces, Move(r, from, to),
         \/ from \in Answering /\ to \in Answering
         \/ from \in Sounding /\ to \in Sounding
         \/ from = "inviting" /\ to = "done",
         UNCHANGED <<ear, wakePending, responseActive, readying, completion, pendingPrompt>>
  PROVE  VoiceInv'
  <1>1. place'[r] = to /\ place[r] = from /\ \A q \in Requests \ {r} : place'[q] = place[q]
    BY DEF Move, VoiceInv, VoiceTypes
  <1>2. VoiceTypes'
    BY DEF Move, VoiceInv, VoiceTypes
  <1>3. \A q \in Requests : /\ place'[q] \in Answering <=> place[q] \in Answering
                            /\ place'[q] \in Sounding <=> place[q] \in Sounding
                            /\ place'[q] = "picking" <=> place[q] = "picking"
                            /\ place'[q] = "pending" <=> place[q] = "pending"
                            /\ place'[q] = "heard" <=> place[q] = "heard"
                            /\ InTurn(q)' <=> InTurn(q)
    BY <1>1 DEF Answering, Sounding, InTurn
  <1>4. TurnInv'
    BY <1>3, NobodyAsks DEF VoiceInv, VoiceTypes, TurnInv
  <1>5. WaitingInv'
    BY <1>3 DEF VoiceInv, WaitingInv
  <1> QED  BY <1>2, <1>4, <1>5 DEF VoiceInv

LEMMA VoiceListens ==
  ASSUME VoiceInv,
         \/ StartListening \/ OpenMicrophone \/ MicrophoneFails \/ StopVoice \/ LoopTop \/ ReadAudio
         \/ Segment \/ SilenceSpeech \/ CancelTurn \/ Outcome
  PROVE  VoiceInv'
  <1>1. ear \in Ears
    BY DEF VoiceInv, VoiceTypes
  <1>2. UNCHANGED turnVars
    BY DEF StartListening, OpenMicrophone, MicrophoneFails, StopVoice, LoopTop, ReadAudio, Segment,
           SilenceSpeech, CancelTurn, Outcome, turnVars, flags, shared
  <1>3. ear' \in Ears /\ (ear' = ear \/ ear'.at \notin {"command", "offer"})
    <2>1. CASE StartListening \/ OpenMicrophone \/ Outcome
      BY <1>1, <2>1, EarMoves DEF StartListening, OpenMicrophone, Outcome
    <2>2. CASE MicrophoneFails \/ SilenceSpeech
      BY <1>1, <2>2, EarMoves DEF MicrophoneFails, SilenceSpeech
    <2>3. CASE StopVoice
      BY <1>1, <2>3 DEF StopVoice
    <2>4. CASE LoopTop \/ ReadAudio
      <3>1. ear' = Deaf \/ Ear("read") \/ Ear("top") \/ Ear("segment")
        BY <2>4 DEF LoopTop, ReadAudio
      <3> QED  BY <1>1, <3>1, EarMoves
    <2>5. CASE Segment
      <3>1. \/ Ear("top")
            \/ /\ wakePending
               /\ ear' = [ear EXCEPT !.at = "recognise", !.wake = wakePending]
            \/ /\ ~wakePending
               /\ ear' = [ear EXCEPT !.at = "recognise", !.wake = wakePending]
        BY <2>5 DEF Segment
      <3>2. wakePending \in BOOLEAN
        BY DEF VoiceInv, VoiceTypes
      <3> QED  BY <1>1, <3>1, <3>2, EarMoves
    <2>6. CASE CancelTurn
      <3>1. Conclude("queued") \/ Conclude("handled")
        BY <2>6 DEF CancelTurn
      <3> QED  BY <1>1, <3>1, EarMoves DEF Outcomes
    <2> QED  BY <2>1, <2>2, <2>3, <2>4, <2>5, <2>6
  <1>4. wakePending' \in BOOLEAN
    BY DEF VoiceInv, VoiceTypes, StartListening, OpenMicrophone, MicrophoneFails, StopVoice, LoopTop,
           ReadAudio, Segment, SilenceSpeech, CancelTurn, Outcome, windows
  <1> QED  BY <1>2, <1>3, <1>4, OnlyTheEar

\* The utterance becomes the request in hand.
LEMMA VoiceRecognises == ASSUME VoiceInv, Recognise PROVE VoiceInv'
  <1>1. /\ ear \in Ears /\ wakePending \in BOOLEAN
        /\ UNCHANGED <<wakePending, responseActive, readying, completion, pendingPrompt>>
    BY DEF VoiceInv, VoiceTypes, Recognise, flags, windows
  <1>2. CASE UNCHANGED place /\ (Misheard \/ WakeOnly)
    <2>1. \E outcome \in Outcomes : Conclude(outcome)
      BY <1>2 DEF Misheard, WakeOnly, Outcomes
    <2> QED  BY <1>1, <1>2, <2>1, EarMoves, OnlyTheEar DEF turnVars
  <1>3. CASE \E r \in Requests : Understood(r)
    <2>1. PICK r \in Requests : Understood(r)
      BY <1>3
    <2>2. /\ place[r] = "unheard" /\ place' = [place EXCEPT ![r] = "heard"]
          /\ ear' = [ear EXCEPT !.at = "command", !.request = r]
      BY <2>1 DEF Understood
    <2>3. ear' \in Ears /\ ear'.request = r
      BY <1>1, <2>2 DEF Ears
    <2>4. place'[r] = "heard" /\ \A q \in Requests \ {r} : place'[q] = place[q]
      BY <2>2 DEF VoiceInv, VoiceTypes
    <2>5. VoiceTypes'
      BY <1>1, <2>2, <2>3 DEF VoiceInv, VoiceTypes, RequestPlaces
    <2>6. \A q \in Requests : /\ place'[q] \in Answering <=> place[q] \in Answering
                              /\ place'[q] \in Sounding <=> place[q] \in Sounding
                              /\ place'[q] = "picking" <=> place[q] = "picking"
                              /\ place'[q] = "pending" <=> place[q] = "pending"
                              /\ InTurn(q)' <=> InTurn(q)
      BY <2>2, <2>4 DEF Answering, Sounding, InTurn
    <2>7. TurnInv'
      BY <1>1, <2>6, NobodyAsks DEF VoiceInv, VoiceTypes, TurnInv
    <2>8. WaitingInv'
      BY <1>1, <2>3, <2>4, <2>6 DEF VoiceInv, WaitingInv
    <2> QED  BY <2>5, <2>7, <2>8 DEF VoiceInv
  <1> QED  BY <1>2, <1>3 DEF Recognise

\* A request in hand gets a turn of its own when no other is in one.
LEMMA VoiceDispatches ==
  ASSUME VoiceInv, ~TurnIsActive, ear.at \in {"command", "offer"}, Dispatch(ear.request),
         Conclude("dispatched"), UNCHANGED <<wakePending, readying, completion, pendingPrompt>>
  PROVE  VoiceInv'
  <1>1. PICK r \in Requests : r = ear.request /\ place[r] = "heard"
    BY DEF VoiceInv, WaitingInv
  <1>2. ear' \in Ears /\ ear'.at = "outcome"
    BY EarMoves DEF VoiceInv, VoiceTypes, Outcomes
  <1>3. /\ place' = [place EXCEPT ![r] = "handling"] /\ responseActive'
        /\ place'[r] = "handling" /\ \A q \in Requests \ {r} : place'[q] = place[q]
    BY <1>1 DEF Dispatch, VoiceInv, VoiceTypes
  <1>4. \A q \in Requests : ~InTurn(q)
    BY TurnIsSomeones
  <1>5. ~readying /\ completion = Nobody /\ ~responseActive
    BY <1>4 DEF VoiceInv, VoiceTypes, TurnInv, InTurn, Answering, Sounding
  <1>6. VoiceTypes'
    BY <1>1, <1>2, <1>3 DEF Dispatch, VoiceInv, VoiceTypes, RequestPlaces
  <1>7. \A q \in Requests : InTurn(q)' <=> q = r
    BY <1>3, <1>4 DEF InTurn
  <1>8. TurnInv'
    <2>1. \A q \in Requests \ {r} : place'[q] \notin Answering \cup Sounding \cup {"picking"}
      BY <1>3, <1>4 DEF InTurn, Answering, Sounding
    <2> QED  BY <1>3, <1>5, <1>7, <2>1 DEF TurnInv, Answering, Sounding
  <1>9. WaitingInv'
    BY <1>1, <1>2, <1>3, <1>7 DEF VoiceInv, WaitingInv
  <1> QED  BY <1>6, <1>8, <1>9 DEF VoiceInv

\* A request in hand is dropped.
LEMMA VoiceDrops ==
  ASSUME VoiceInv, ear.at = "command", Move(ear.request, "heard", "dropped"),
         ear' \in Ears, ear'.at \notin {"command", "offer"},
         UNCHANGED <<wakePending, responseActive, readying, completion, pendingPrompt>>
  PROVE  VoiceInv'
  <1>1. PICK r \in Requests : r = ear.request /\ place[r] = "heard"
    BY DEF VoiceInv, WaitingInv
  <1>2. /\ place' = [place EXCEPT ![r] = "dropped"]
        /\ place'[r] = "dropped" /\ \A q \in Requests \ {r} : place'[q] = place[q]
    BY <1>1 DEF Move, VoiceInv, VoiceTypes
  <1>3. \A q \in Requests : /\ place'[q] \in Answering <=> place[q] \in Answering
                            /\ place'[q] \in Sounding <=> place[q] \in Sounding
                            /\ place'[q] = "picking" <=> place[q] = "picking"
                            /\ place'[q] = "pending" <=> place[q] = "pending"
                            /\ InTurn(q)' <=> InTurn(q)
    BY <1>1, <1>2 DEF Answering, Sounding, InTurn
  <1>4. VoiceTypes'
    BY <1>2 DEF VoiceInv, VoiceTypes, RequestPlaces
  <1>5. TurnInv'
    BY <1>3, NobodyAsks DEF VoiceInv, VoiceTypes, TurnInv
  <1>6. WaitingInv'
    BY <1>3 DEF VoiceInv, WaitingInv
  <1> QED  BY <1>4, <1>5, <1>6 DEF VoiceInv

LEMMA VoiceCommands == ASSUME VoiceInv, Command PROVE VoiceInv'
  <1>1. /\ ear \in Ears /\ wakePending \in BOOLEAN /\ ear.at = "command"
        /\ UNCHANGED <<wakePending, readying, completion, pendingPrompt>>
    BY DEF VoiceInv, VoiceTypes, Command, shared, windows
  <1>2. CASE ~TurnIsActive /\ Dispatch(ear.request) /\ Conclude("dispatched")
    BY <1>1, <1>2, VoiceDispatches
  <1>3. CASE Move(ear.request, "heard", "dropped") /\ (Ear("silence") \/ Conclude("handled"))
             /\ UNCHANGED responseActive
    <2>1. ear' \in Ears /\ ear'.at \in {"silence", "outcome"}
      BY <1>1, <1>3, EarMoves DEF Outcomes
    <2> QED  BY <1>1, <1>3, <2>1, VoiceDrops
  <1>4. CASE Ear("offer") /\ UNCHANGED <<place, responseActive>>
    BY <1>1, <1>4, EarMoves, OnlyTheEar DEF turnVars
  <1> QED  BY <1>2, <1>3, <1>4 DEF Command

\* The request in hand waits for the turn in progress, or gets its own.
LEMMA VoiceOffers == ASSUME VoiceInv, Offer PROVE VoiceInv'
  <1>1. ear \in Ears /\ ear.at = "offer" /\ UNCHANGED <<wakePending, readying, completion>>
    BY DEF VoiceInv, VoiceTypes, Offer, windows
  <1>2. CASE ~TurnIsActive
    BY <1>1, <1>2, VoiceDispatches DEF Offer
  <1>3. CASE TurnIsActive
    <2>1. PICK r \in Requests : r = ear.request /\ place[r] = "heard"
      BY <1>1 DEF VoiceInv, WaitingInv
    <2>2. /\ pendingPrompt' = r /\ UNCHANGED responseActive
          /\ place' = [[q \in Requests |-> IF place[q] = "pending" THEN "replaced" ELSE place[q]]
                         EXCEPT ![r] = "pending"]
          /\ ear' = [ear EXCEPT !.at = "silence", !.switching = TRUE]
      BY <1>3, <2>1 DEF Offer
    <2>3. ear' \in Ears /\ ear'.at = "silence"
      BY <1>1, <2>2 DEF Ears
    <2>4. /\ place'[r] = "pending"
          /\ \A q \in Requests \ {r} :
               place'[q] = IF place[q] = "pending" THEN "replaced" ELSE place[q]
      BY <2>2
    <2>5. VoiceTypes'
      BY <1>1, <2>2, <2>3 DEF VoiceInv, VoiceTypes, RequestPlaces
    <2>6. \A q \in Requests : /\ place'[q] \in Answering <=> place[q] \in Answering
                              /\ place'[q] \in Sounding <=> place[q] \in Sounding
                              /\ place'[q] = "picking" <=> place[q] = "picking"
                              /\ InTurn(q)' <=> InTurn(q)
      BY <2>1, <2>4 DEF Answering, Sounding, InTurn
    <2>7. TurnInv'
      BY <1>1, <2>2, <2>6, NobodyAsks DEF VoiceInv, VoiceTypes, TurnInv
    <2>8. \A q \in Requests : place'[q] = "pending" <=> q = r
      BY <2>4
    <2>9. \E q \in Requests : InTurn(q)'
      BY <1>3, <2>6, TurnIsSomeones
    <2>10. WaitingInv'
      BY <2>2, <2>3, <2>8, <2>9 DEF WaitingInv
    <2> QED  BY <2>5, <2>7, <2>10 DEF VoiceInv
  <1> QED  BY <1>2, <1>3

\* The steps of a response thread.
LEMMA VoiceAnswers == ASSUME VoiceInv, NEW r \in Requests, CompletePrompt(r) PROVE VoiceInv'
  <1>1. UNCHANGED <<ear, wakePending>> /\ ear \in Ears /\ wakePending \in BOOLEAN
    BY DEF CompletePrompt, OpenSpeech, BeginTurn, EndThinking, LeaveTurn, ReturnReply, SpeechEnds,
           AwaitSpeech, Settle, PickPending, Invite, windows, VoiceInv, VoiceTypes
  <1>2. CASE OpenSpeech(r) \/ SpeechEnds(r)
    BY <1>1, <1>2, OnlyTheEar DEF OpenSpeech, SpeechEnds, turnVars, flags, shared
  <1>3. CASE \/ BeginTurn(r) \/ EndThinking(r) \/ LeaveTurn(r) \/ AwaitSpeech(r) \/ Invite(r)
    <2>1. UNCHANGED <<responseActive, readying, completion, pendingPrompt>>
      BY <1>3 DEF BeginTurn, EndThinking, LeaveTurn, AwaitSpeech, Invite, flags, shared
    <2>2. \/ Move(r, "handling", "thinking") \/ Move(r, "thinking", "leaving")
          \/ Move(r, "leaving", "returning") \/ Move(r, "speaking", "settling")
          \/ Move(r, "inviting", "done")
      BY <1>3 DEF BeginTurn, EndThinking, LeaveTurn, AwaitSpeech, Invite
    <2> QED  BY <1>1, <2>1, <2>2, TurnMoves DEF Answering, Sounding, RequestPlaces
  <1>4. CASE ReturnReply(r) \/ Settle(r)
    <2>1. /\ InTurn(r) /\ place[r] \notin {"pending", "heard"} /\ UNCHANGED pendingPrompt
          /\ r # Nobody
      BY <1>4, NobodyAsks DEF ReturnReply, Settle, Move, InTurn, shared
    <2>2. PICK to \in {"speaking", "picking"} :
            /\ place' = [place EXCEPT ![r] = to]
            /\ to = "speaking" => readying' /\ completion' = r /\ ~responseActive'
            /\ to = "picking" => /\ completion' = Nobody /\ UNCHANGED <<responseActive, readying>>
                                 /\ place[r] = "settling"
            /\ responseActive' \in BOOLEAN /\ readying' \in BOOLEAN
      BY <1>4 DEF ReturnReply, Settle, Move, VoiceInv, VoiceTypes
    <2>3. place'[r] = to /\ \A q \in Requests \ {r} : place'[q] = place[q]
      BY <2>2 DEF VoiceInv, VoiceTypes
    <2>4. \A q \in Requests \ {r} :
            ~InTurn(q) /\ ~InTurn(q)' /\ place'[q] \notin Answering \cup Sounding \cup {"picking"}
                       /\ place[q] \notin Answering \cup Sounding \cup {"picking"}
      BY <2>1, <2>3 DEF VoiceInv, TurnInv, InTurn, Answering, Sounding
    <2>5. InTurn(r)'
      BY <2>3 DEF InTurn
    <2>6. VoiceTypes'
      BY <1>1, <2>1, <2>2 DEF VoiceInv, VoiceTypes, RequestPlaces
    <2>7. TurnInv'
      <3>1. CASE to = "speaking"
        BY <2>1, <2>2, <2>3, <2>4, <3>1 DEF TurnInv, Answering, Sounding
      <3>2. CASE to = "picking"
        <4>1. readying /\ ~responseActive
          BY <2>2, <2>4, <3>2 DEF VoiceInv, TurnInv, Answering, Sounding
        <4> QED  BY <2>2, <2>3, <2>4, <3>2, <4>1 DEF TurnInv, Answering, Sounding
      <3> QED  BY <3>1, <3>2
    <2>8. WaitingInv'
      <3>1. \A q \in Requests : /\ place'[q] = "pending" <=> place[q] = "pending"
                                /\ place'[q] = "heard" <=> place[q] = "heard"
        BY <2>1, <2>3
      <3> QED  BY <1>1, <2>1, <2>5, <3>1 DEF VoiceInv, WaitingInv
    <2> QED  BY <2>6, <2>7, <2>8 DEF VoiceInv
  <1>5. CASE PickPending(r)
    <2>1. /\ place[r] = "picking" /\ pendingPrompt' = Nobody /\ ~readying' /\ readying' \in BOOLEAN
          /\ UNCHANGED completion
      BY <1>5 DEF PickPending
    <2>2. /\ completion = Nobody /\ ~responseActive /\ InTurn(r)
          /\ \A q \in Requests \ {r} :
               ~InTurn(q) /\ place[q] \notin Answering \cup Sounding \cup {"picking"}
      <3>1. InTurn(r) /\ completion = Nobody
        BY <2>1 DEF InTurn, VoiceInv, TurnInv
      <3>2. \A q \in Requests \ {r} :
              ~InTurn(q) /\ place[q] \notin Answering \cup Sounding \cup {"picking"}
        BY <3>1 DEF VoiceInv, TurnInv, InTurn, Answering, Sounding
      <3>3. \A q \in Requests : place[q] \notin Answering
        BY <2>1, <3>2 DEF Answering
      <3> QED  BY <3>1, <3>2, <3>3 DEF VoiceInv, TurnInv
    <2>3. CASE pendingPrompt # Nobody /\ ~stopping
      <3>1. PICK p \in Requests : p = pendingPrompt /\ place[p] = "pending" /\ p # r
        BY <2>1, <2>3 DEF VoiceInv, VoiceTypes, WaitingInv
      <3>2. /\ place' = [place EXCEPT ![r] = "done", ![p] = "handling"] /\ responseActive'
            /\ responseActive' \in BOOLEAN
        BY <1>5, <2>3, <3>1 DEF PickPending
      <3>3. /\ place'[r] = "done" /\ place'[p] = "handling"
            /\ \A q \in Requests \ {r, p} : place'[q] = place[q]
        BY <3>1, <3>2 DEF VoiceInv, VoiceTypes
      <3>4. VoiceTypes'
        BY <1>1, <2>1, <3>2 DEF VoiceInv, VoiceTypes, RequestPlaces
      <3>5. \A q \in Requests \ {p} :
              ~InTurn(q)' /\ place'[q] \notin Answering \cup Sounding \cup {"picking"}
        BY <2>2, <3>3 DEF InTurn, Answering, Sounding
      <3>6. TurnInv'
        BY <2>1, <2>2, <3>2, <3>3, <3>5 DEF TurnInv, Answering, Sounding
      <3>7. \A q \in Requests : place'[q] # "pending" /\ (place'[q] = "heard" <=> place[q] = "heard")
        BY <2>1, <3>1, <3>3 DEF VoiceInv, WaitingInv
      <3>8. WaitingInv'
        BY <1>1, <2>1, <3>7, NobodyAsks DEF VoiceInv, WaitingInv
      <3> QED  BY <3>4, <3>6, <3>8 DEF VoiceInv
    <2>4. CASE ~(pendingPrompt # Nobody /\ ~stopping)
      <3>1. /\ place' = [q \in Requests |-> CASE q = r -> "inviting"
                                              [] q = pendingPrompt -> "dropped"
                                              [] OTHER -> place[q]]
            /\ UNCHANGED responseActive
        BY <1>5, <2>4 DEF PickPending
      <3>2. /\ place'[r] = "inviting"
            /\ \A q \in Requests \ {r} : \/ place'[q] = place[q] /\ place[q] # "pending"
                                         \/ place'[q] = "dropped" /\ place[q] = "pending"
        <4>0. r # pendingPrompt
          BY <1>1, <2>1 DEF VoiceInv, WaitingInv, InTurn
        <4>1. \A q \in Requests \ {r} : q = pendingPrompt => place'[q] = "dropped"
          BY <3>1
        <4>2. \A q \in Requests \ {r} : q # pendingPrompt => place'[q] = place[q]
          BY <3>1
        <4>3. place'[r] = "inviting"
          <5>1. place'[r] = CASE r = r -> "inviting" [] r = pendingPrompt -> "dropped"
                              [] OTHER -> place[r]
            BY <1>1, <3>1
          <5> QED  BY <5>1, <4>0
        <4>4. \A q \in Requests : place[q] = "pending" <=> pendingPrompt = q
          BY DEF VoiceInv, WaitingInv
        <4> QED  BY <4>1, <4>2, <4>3, <4>4
      <3>3. VoiceTypes'
        <4>1. \A q \in Requests : place'[q] \in RequestPlaces
          BY <3>2 DEF VoiceInv, VoiceTypes, RequestPlaces
        <4>2. place' \in [Requests -> RequestPlaces]
          BY <3>1, <4>1
        <4> QED  BY <1>1, <2>1, <3>1, <4>2 DEF VoiceInv, VoiceTypes
      <3>4. \A q \in Requests :
              ~InTurn(q)' /\ place'[q] \notin Answering \cup Sounding \cup {"picking"}
        BY <2>2, <3>2 DEF InTurn, Answering, Sounding
      <3>5. TurnInv'
        BY <2>1, <2>2, <3>1, <3>4 DEF TurnInv
      <3>6. \A q \in Requests : place'[q] # "pending" /\ (place'[q] = "heard" <=> place[q] = "heard")
        BY <2>1, <3>2
      <3>7. WaitingInv'
        BY <1>1, <2>1, <3>6, NobodyAsks DEF VoiceInv, WaitingInv
      <3> QED  BY <3>3, <3>5, <3>7 DEF VoiceInv
    <2> QED  BY <2>3, <2>4
  <1> QED  BY <1>2, <1>3, <1>4, <1>5 DEF CompletePrompt

LEMMA VoicePreserved == VoiceInv /\ [VoiceNext]_voiceVars => VoiceInv'
  <1>1. ASSUME VoiceInv, UNCHANGED voiceVars PROVE VoiceInv'
    <2>1. UNCHANGED turnVars /\ UNCHANGED <<ear, wakePending>>
      BY <1>1 DEF voiceVars, turnVars, windows, flags, shared
    <2> QED  BY <1>1, <2>1, OnlyTheEar DEF VoiceInv, VoiceTypes
  <1> QED  BY <1>1, VoiceListens, VoiceRecognises, VoiceCommands, VoiceOffers, VoiceAnswers
           DEF VoiceNext

\* RequestsTakeTurns: the listening thread and the turn that ends may both start
\* the next turn, and never two at once; a request that waits has a turn that will
\* take it over (voice/service.py).
THEOREM TurnsAreTaken == VoiceSpec => []RequestsTakeTurns
  <1>1. VoiceInv => RequestsTakeTurns
    BY DEF VoiceInv, TurnInv, WaitingInv, RequestsTakeTurns
  <1> QED  BY <1>1, VoiceInitially, VoicePreserved, PTL DEF VoiceSpec

\* What the invariants of the turns do not say: the windows, the switches of the
\* handlers, and who speaks.
VoiceSwitches ==
  /\ awaiting \in BOOLEAN /\ cooling \in BOOLEAN /\ chatOpen \in BOOLEAN /\ detecting \in BOOLEAN
  /\ followup \in BOOLEAN /\ ignoring \in BOOLEAN /\ resetDetectors \in BOOLEAN
  /\ allowsFollowup \in BOOLEAN /\ chatting \in BOOLEAN /\ stopping \in BOOLEAN

VoiceHistory ==
  /\ spoken \subseteq Requests /\ cancelled \subseteq Requests
  /\ currentTurn \in Requests \cup {Nobody} /\ currentSpeech \in Requests \cup {Nobody}
  /\ failures \in 0..MaxFailures

LEMMA VoiceTyped == VoiceTypeOK <=> VoiceTypes /\ VoiceSwitches /\ VoiceHistory
  BY DEF VoiceTypeOK, VoiceTypes, VoiceSwitches, VoiceHistory, Ears, RequestPlaces

switchVars == <<awaiting, cooling, chatOpen, detecting, followup, ignoring, resetDetectors,
                allowsFollowup, chatting, stopping>>

LEMMA SwitchesKept ==
  ASSUME VoiceTypes, VoiceSwitches, [VoiceNext]_voiceVars
  PROVE  VoiceSwitches'
  <1>0. ASSUME UNCHANGED switchVars PROVE VoiceSwitches'
    BY <1>0, Zenon DEF VoiceSwitches, switchVars
  <1>1. CASE \/ UNCHANGED voiceVars
             \/ MicrophoneFails \/ Command \/ Offer \/ SilenceSpeech \/ CancelTurn
    <2>1. UNCHANGED switchVars
      BY <1>1 DEF voiceVars, MicrophoneFails, Command, Offer, SilenceSpeech, CancelTurn, switchVars,
                  windows, shared
    <2> QED  BY <1>0, <2>1
  <1>2. CASE StartListening
    BY <1>2, Zenon DEF StartListening, windows, shared, VoiceSwitches
  <1>3. CASE OpenMicrophone
    BY <1>3, Zenon DEF OpenMicrophone, windows, shared, VoiceSwitches
  <1>4. CASE StopVoice
    BY <1>4, Zenon DEF StopVoice, windows, shared, VoiceSwitches
  <1>5. CASE LoopTop
    BY <1>5, Zenon DEF LoopTop, windows, shared, VoiceSwitches
  <1>6. CASE ReadAudio
    BY <1>6, Zenon DEF ReadAudio, windows, shared, VoiceSwitches
  <1>7. CASE Segment
    <2>1. UNCHANGED switchVars
      BY <1>7 DEF Segment, switchVars, shared
    <2> QED  BY <1>0, <2>1
  <1>8. CASE Recognise
    BY <1>8, Zenon DEF Recognise, windows, VoiceSwitches
  <1>9. CASE Outcome
    BY <1>9, Zenon DEF Outcome, shared, VoiceSwitches
  <1>10. ASSUME NEW r \in Requests, CompletePrompt(r) PROVE VoiceSwitches'
    <2>1. CASE OpenSpeech(r) \/ BeginTurn(r) \/ LeaveTurn(r) \/ SpeechEnds(r) \/ AwaitSpeech(r)
      <3>1. UNCHANGED switchVars
        BY <2>1 DEF OpenSpeech, BeginTurn, LeaveTurn, SpeechEnds, AwaitSpeech, switchVars, windows,
                    shared
      <3> QED  BY <1>0, <3>1
    <2>2. CASE EndThinking(r)
      BY <2>2, Zenon DEF EndThinking, windows, shared, VoiceSwitches
    <2>3. CASE Settle(r)
      BY <2>3, Zenon DEF Settle, windows, VoiceSwitches
    <2>4. CASE ReturnReply(r)
      <3>1. allowsFollowup' \in BOOLEAN
        BY <2>4 DEF ReturnReply
      <3> QED  BY <2>4, <3>1, Zenon DEF ReturnReply, windows, VoiceSwitches
    <2>5. CASE PickPending(r)
      BY <2>5, Zenon DEF PickPending, windows, VoiceSwitches
    <2>6. CASE Invite(r)
      <3>1. followup' \in {TRUE, followup}
        BY <2>6 DEF Invite
      <3> QED  BY <2>6, <3>1, Zenon DEF Invite, windows, VoiceSwitches
    <2> QED  BY <1>10, <2>1, <2>2, <2>3, <2>4, <2>5, <2>6 DEF CompletePrompt
  <1> QED  BY <1>1, <1>2, <1>3, <1>4, <1>5, <1>6, <1>7, <1>8, <1>9, <1>10 DEF VoiceNext

LEMMA VoiceHistoryKept ==
  ASSUME VoiceHistory, [VoiceNext]_voiceVars
  PROVE  VoiceHistory'
  <1> USE DEF VoiceHistory
  <1>1. CASE UNCHANGED voiceVars
    BY <1>1 DEF voiceVars, glue
  <1>2. CASE StartListening \/ OpenMicrophone \/ MicrophoneFails \/ StopVoice
    BY <1>2, VoiceAssumption DEF StartListening, OpenMicrophone, MicrophoneFails, StopVoice, glue
  <1>3. CASE \/ LoopTop \/ ReadAudio \/ Segment \/ Recognise \/ Command \/ Offer
             \/ SilenceSpeech \/ CancelTurn \/ Outcome
    BY <1>3 DEF LoopTop, ReadAudio, Segment, Recognise, Command, Offer, SilenceSpeech, CancelTurn, Outcome, glue
  <1>4. ASSUME NEW r \in Requests, CompletePrompt(r) PROVE VoiceHistory'
    BY <1>4 DEF CompletePrompt, OpenSpeech, BeginTurn, EndThinking, LeaveTurn, ReturnReply, SpeechEnds,
           AwaitSpeech, Settle, PickPending, Invite, glue
  <1> QED  BY <1>1, <1>2, <1>3, <1>4 DEF VoiceNext

LEMMA VoiceTypesKept ==
  ASSUME VoiceInv, VoiceTypeOK, [VoiceNext]_voiceVars
  PROVE  VoiceTypeOK'
  <1>1. VoiceTypes'
    BY VoicePreserved DEF VoiceInv
  <1>2. VoiceSwitches' /\ VoiceHistory'
    BY VoiceTyped, SwitchesKept, VoiceHistoryKept
  <1>3. VoiceTypeOK' <=> VoiceTypes' /\ VoiceSwitches' /\ VoiceHistory'
    BY VoiceTyped, PTL
  <1> QED  BY <1>1, <1>2, <1>3

LEMMA VoiceInitiallyTyped == VoiceInit => VoiceTypeOK
  <1> SUFFICES ASSUME VoiceInit PROVE VoiceTypeOK
    OBVIOUS
  <1>1. VoiceTypes
    BY VoiceInitially DEF VoiceInv
  <1>2. VoiceSwitches
    BY Zenon DEF VoiceInit, VoiceSwitches
  <1>3. VoiceHistory
    BY VoiceAssumption DEF VoiceInit, VoiceHistory
  <1> QED  BY <1>1, <1>2, <1>3, VoiceTyped

-----------------------------------------------------------------------------
\* SpeechOutput.

Speaking == {"synthesise", "play", "next", "release"}
Spent == {"release", "finish", "over"}
Stages == {"off", "first", "wait", "finish", "over"} \cup Speaking
Feeding == {"none", "open", "putting", "flushing", "closing", "over"}

SpeechTypes ==
  /\ feeder \in [Sessions -> Feeding] /\ emitted \in [Sessions -> Nat]
  /\ chunks \in [Sessions -> Seq(Nat)]
  /\ player \in [Voices -> Stages]
  /\ inHand \in [Sessions -> Nat] /\ ahead \in [Sessions -> Nat \cup {Nothing}]
  /\ played \in [Sessions -> Nat]
  /\ session \in Sessions \cup {Silence} /\ quiet \in BOOLEAN

\* One voice holds the lock, and the stop event in force is its own.
LockInv ==
  /\ speechLock \in Voices \cup {Silence} /\ activeStop = speechLock
  /\ \A v \in Voices : player[v] \in Speaking <=> speechLock = v

\* cancel_current closes only what it has cancelled.
Interruptions == [at : {"idle", "flag", "close", "stop"}, session : Sessions \cup {Silence},
                  voice : Voices \cup {Silence}]

CancellerInv ==
  /\ canceller \in Interruptions
  /\ canceller.at = "close" => canceller.session \in Sessions /\ canceller.session \in cancel

\* The queue holds the sentences after the first "from" of "upto", and the end of
\* the stream once it has been put.
NumberedFrom(q, from, upto, ends) ==
  /\ from <= upto
  /\ Len(q) = (upto - from) + ends
  /\ \A i \in 1..Len(q) : q[i] = IF i <= upto - from THEN from + i ELSE EndOfStream

Fetched(s) == IF ahead[s] = Nothing THEN inHand[s] ELSE ahead[s]
Given(s) == IF feeder[s] \in {"putting", "flushing"} THEN emitted[s] - 1 ELSE emitted[s]
EndPut(s) == IF feeder[s] = "over" THEN 1 ELSE 0

FeederInv(s) ==
  /\ feeder[s] = "none" => player[s] = "off"
  /\ feeder[s] \in {"putting", "flushing"} => emitted[s] > 0
  /\ s \in closed => s \in cancel \/ feeder[s] = "over"

\* What is in hand is the sentence after the last one played.
PaceInv(s) ==
  /\ player[s] \in {"off", "first"} => inHand[s] = 0 /\ played[s] = 0
  /\ player[s] \in {"wait", "synthesise", "play"} => inHand[s] = played[s] + 1
  /\ player[s] = "next" => inHand[s] = played[s]
  /\ player[s] \in {"off", "first", "wait", "synthesise"} => ahead[s] = Nothing
  /\ player[s] \in {"play", "next"} => ahead[s] \in {Nothing, EndOfStream, inHand[s] + 1}

SentenceInv(s) ==
  s \notin cancel /\ ~quiet /\ player[s] \notin Spent =>
    IF ahead[s] = EndOfStream
      THEN feeder[s] = "over" /\ inHand[s] = emitted[s]
      ELSE NumberedFrom(chunks[s], Fetched(s), Given(s), EndPut(s))

EndInv(s) ==
  /\ s \in done => player[s] \in {"finish", "over"}
  /\ s \notin cancel /\ s \notin failed /\ ~quiet /\ player[s] \in Spent =>
       feeder[s] = "over" /\ played[s] = emitted[s]

ReplyInv(s) ==
  /\ FeederInv(s) /\ PaceInv(s) /\ SentenceInv(s) /\ EndInv(s)
  /\ player[s] \in {"first", "wait"} => session = s \/ s \in cancel

SpeechInv ==
  SpeechTypes /\ LockInv /\ CancellerInv /\ \A s \in Sessions : ReplyInv(s)

LEMMA VoicesAreApart ==
  /\ Sessions \subseteq Voices /\ Cues \subseteq Voices /\ Sessions \cap Cues = {}
  /\ Silence \notin Voices /\ Sessions \subseteq Nat
  BY SpeechAssumption DEF Sessions, Cues, Voices, Silence

LEMMA NumberedHead ==
  ASSUME NEW q \in Seq(Nat), NEW from \in Nat, NEW upto \in Nat, NEW ends \in {0, 1},
         NumberedFrom(q, from, upto, ends), q # <<>>
  PROVE  \/ Head(q) = from + 1 /\ NumberedFrom(Tail(q), from + 1, upto, ends)
         \/ Head(q) = EndOfStream /\ from = upto /\ ends = 1
  <1>1. Len(q) > 0 /\ Head(q) = q[1] /\ Tail(q) \in Seq(Nat) /\ Len(Tail(q)) = Len(q) - 1
        /\ \A i \in 1..Len(q) - 1 : Tail(q)[i] = q[i + 1]
    OBVIOUS
  <1>2. CASE from = upto
    BY <1>1, <1>2 DEF NumberedFrom
  <1>3. CASE from < upto
    <2>1. Head(q) = from + 1
      BY <1>1, <1>3 DEF NumberedFrom
    <2>2. \A i \in 1..Len(Tail(q)) :
            Tail(q)[i] = IF i <= upto - (from + 1) THEN (from + 1) + i ELSE EndOfStream
      BY <1>1, <1>3 DEF NumberedFrom
    <2>3. from + 1 <= upto /\ Len(Tail(q)) = (upto - (from + 1)) + ends
      BY <1>1, <1>3 DEF NumberedFrom
    <2> QED  BY <2>1, <2>2, <2>3 DEF NumberedFrom
  <1> QED  BY <1>2, <1>3 DEF NumberedFrom

LEMMA NumberedPut ==
  ASSUME NEW q \in Seq(Nat), NEW from \in Nat, NEW upto \in Nat, NumberedFrom(q, from, upto, 0)
  PROVE  /\ NumberedFrom(Append(q, upto + 1), from, upto + 1, 0)
         /\ NumberedFrom(Append(q, EndOfStream), from, upto, 1)
  <1>1. ASSUME NEW x \in Nat
        PROVE  /\ Len(Append(q, x)) = Len(q) + 1 /\ Append(q, x)[Len(q) + 1] = x
               /\ \A i \in 1..Len(q) : Append(q, x)[i] = q[i]
    OBVIOUS
  <1>2. upto + 1 \in Nat /\ EndOfStream \in Nat
    BY DEF EndOfStream
  <1>3. NumberedFrom(Append(q, upto + 1), from, upto + 1, 0)
    BY <1>1, <1>2 DEF NumberedFrom
  <1>4. NumberedFrom(Append(q, EndOfStream), from, upto, 1)
    BY <1>1, <1>2 DEF NumberedFrom
  <1> QED  BY <1>3, <1>4

LEMMA SpeechInitially == SpeechInit => SpeechInv
  <1> SUFFICES ASSUME SpeechInit PROVE SpeechInv
    OBVIOUS
  <1>1. SpeechTypes
    <2>1. /\ feeder \in [Sessions -> Feeding] /\ emitted \in [Sessions -> Nat]
          /\ player \in [Voices -> Stages] /\ inHand \in [Sessions -> Nat]
          /\ ahead \in [Sessions -> Nat \cup {Nothing}] /\ played \in [Sessions -> Nat]
      BY DEF SpeechInit, Feeding, Stages
    <2>2. chunks \in [Sessions -> Seq(Nat)]
      BY DEF SpeechInit
    <2>3. session \in Sessions \cup {Silence} /\ quiet \in BOOLEAN
      BY DEF SpeechInit
    <2> QED  BY <2>1, <2>2, <2>3 DEF SpeechTypes
  <1>2. LockInv /\ CancellerInv
    BY VoicesAreApart DEF SpeechInit, LockInv, CancellerInv, Interruptions, Idle, Speaking
  <1>3. ASSUME NEW s \in Sessions PROVE ReplyInv(s)
    <2>1. /\ feeder[s] = "none" /\ emitted[s] = 0 /\ chunks[s] = <<>> /\ player[s] = "off"
          /\ inHand[s] = 0 /\ ahead[s] = Nothing /\ played[s] = 0 /\ closed = {} /\ done = {}
      BY <1>3, VoicesAreApart DEF SpeechInit
    <2>2. NumberedFrom(chunks[s], 0, 0, 0)
      BY <2>1 DEF NumberedFrom
    <2>3. SentenceInv(s)
      BY <2>1, <2>2 DEF SentenceInv, Fetched, Given, EndPut, Nothing, EndOfStream
    <2> QED  BY <2>1, <2>3 DEF ReplyInv, FeederInv, PaceInv, EndInv, Spent
  <1> QED  BY <1>1, <1>2, <1>3 DEF SpeechInv

-----------------------------------------------------------------------------
\* A reply that a step leaves alone keeps its invariant: the sets may only grow,
\* and a session that is closed for another reason than its end is cancelled.
Spared(s) ==
  /\ feeder'[s] = feeder[s] /\ emitted'[s] = emitted[s] /\ player'[s] = player[s]
  /\ inHand'[s] = inHand[s] /\ ahead'[s] = ahead[s] /\ played'[s] = played[s]
  /\ chunks'[s] = chunks[s] \/ s \in cancel'
  /\ cancel \subseteq cancel' /\ (quiet => quiet') /\ failed \subseteq failed'
  /\ s \in closed' => s \in closed \/ s \in cancel'
  /\ s \in done' => s \in done
  /\ session' = session \/ session # s \/ s \in cancel'

LEMMA ReplyUntouched ==
  ASSUME NEW s \in Sessions, ReplyInv(s), Spared(s)
  PROVE  ReplyInv(s)'
  <1>1. FeederInv(s)' /\ PaceInv(s)'
    BY DEF ReplyInv, Spared, FeederInv, PaceInv
  <1>2. SentenceInv(s)'
    BY DEF ReplyInv, Spared, SentenceInv, Fetched, Given, EndPut
  <1>3. EndInv(s)'
    BY DEF ReplyInv, Spared, EndInv
  <1> QED  BY <1>1, <1>2, <1>3 DEF ReplyInv, Spared

LEMMA OneReply ==
  ASSUME SpeechInv, NEW s \in Sessions, SpeechTypes', LockInv', CancellerInv', ReplyInv(s)',
         \A q \in Sessions \ {s} : Spared(q)
  PROVE  SpeechInv'
  <1>1. ASSUME NEW q \in Sessions, q # s PROVE ReplyInv(q)'
    BY <1>1, ReplyUntouched DEF SpeechInv
  <1>2. \A q \in Sessions : ReplyInv(q)'
    BY <1>1
  <1> QED  BY <1>2 DEF SpeechInv

LEMMA PlayMoves ==
  ASSUME SpeechTypes, NEW v \in Voices, NEW spot \in Stages, Play(v, spot)
  PROVE  /\ player' \in [Voices -> Stages] /\ player'[v] = spot
         /\ \A u \in Voices \ {v} : player'[u] = player[u]
  BY DEF SpeechTypes, Play

LEMMA FetchedIsNatural ==
  ASSUME SpeechTypes, NEW s \in Sessions
  PROVE  Fetched(s) \in Nat
  BY DEF SpeechTypes, Fetched, Nothing

\* The model thread touches its own end of its own session.
FedOnly(s) ==
  /\ feeder' = [feeder EXCEPT ![s] = feeder'[s]] /\ feeder'[s] \in Feeding
  /\ emitted' = [emitted EXCEPT ![s] = emitted'[s]] /\ emitted'[s] \in Nat
  /\ chunks' = [chunks EXCEPT ![s] = chunks'[s]] /\ chunks'[s] \in Seq(Nat)
  /\ closed' \subseteq closed \cup {s} /\ cancel \subseteq cancel' /\ cancel' \subseteq cancel \cup {s}
  /\ UNCHANGED <<playing, owners, canceller, quiet>>

LEMMA FeedsOne ==
  ASSUME SpeechInv, NEW s \in Sessions, FedOnly(s), FeederInv(s)', SentenceInv(s)', EndInv(s)'
  PROVE  SpeechInv'
  <1>1. /\ player' = player /\ inHand' = inHand /\ ahead' = ahead /\ played' = played
        /\ failed' = failed /\ done' = done /\ session' = session /\ speechLock' = speechLock
        /\ activeStop' = activeStop /\ canceller' = canceller /\ quiet' = quiet
    BY DEF FedOnly, playing, owners
  <1>2. SpeechTypes'
    BY <1>1 DEF SpeechInv, SpeechTypes, FedOnly
  <1>3. LockInv' /\ CancellerInv'
    BY <1>1 DEF SpeechInv, LockInv, CancellerInv, FedOnly
  <1>4. ReplyInv(s)'
    BY <1>1 DEF SpeechInv, ReplyInv, PaceInv, FedOnly
  <1>5. ASSUME NEW q \in Sessions \ {s} PROVE Spared(q)
    <2>1. feeder'[q] = feeder[q] /\ emitted'[q] = emitted[q] /\ chunks'[q] = chunks[q]
      BY <1>5 DEF SpeechInv, SpeechTypes, FedOnly
    <2> QED  BY <1>1, <1>5, <2>1 DEF Spared, FedOnly
  <1> QED  BY <1>2, <1>3, <1>4, <1>5, OneReply

LEMMA FeedKeeps ==
  ASSUME SpeechInv, NEW s \in Sessions, Feed(s)
  PROVE  SpeechInv'
  <1>1. /\ feeder[s] = "open" /\ feeder' = [feeder EXCEPT ![s] = "putting"]
        /\ emitted' = [emitted EXCEPT ![s] = emitted[s] + 1] /\ s \notin cancel /\ s \notin closed
        /\ UNCHANGED <<closed, chunks, cancel, playing, owners, canceller, quiet>>
    BY DEF Feed, Emit
  <1>2. /\ feeder'[s] = "putting" /\ emitted'[s] = emitted[s] + 1 /\ emitted[s] \in Nat
        /\ chunks' = chunks /\ closed' = closed /\ cancel' = cancel /\ ahead' = ahead
        /\ inHand' = inHand /\ player' = player /\ failed' = failed /\ done' = done
        /\ quiet' = quiet /\ played' = played
    BY <1>1 DEF SpeechInv, SpeechTypes, playing
  <1>3. FedOnly(s)
    BY <1>1, <1>2 DEF SpeechInv, SpeechTypes, FedOnly, Feeding
  <1>4. ReplyInv(s)
    BY DEF SpeechInv
  <1>5. FeederInv(s)'
    BY <1>1, <1>2, <1>4 DEF ReplyInv, FeederInv
  <1>6. Given(s)' = Given(s) /\ EndPut(s)' = EndPut(s) /\ Fetched(s)' = Fetched(s)
    BY <1>1, <1>2 DEF Given, EndPut, Fetched
  <1>7. SentenceInv(s)'
    BY <1>1, <1>2, <1>4, <1>6 DEF ReplyInv, SentenceInv
  <1>8. EndInv(s)'
    BY <1>1, <1>2, <1>4 DEF ReplyInv, EndInv
  <1> QED  BY <1>3, <1>5, <1>7, <1>8, FeedsOne

LEMMA FinishKeeps ==
  ASSUME SpeechInv, NEW s \in Sessions, Finish(s)
  PROVE  SpeechInv'
  <1>1. /\ feeder[s] = "open"
        /\ UNCHANGED <<closed, chunks, cancel, playing, owners, canceller, quiet>>
    BY DEF Finish
  <1>2. /\ chunks' = chunks /\ closed' = closed /\ cancel' = cancel /\ ahead' = ahead
        /\ inHand' = inHand /\ player' = player /\ failed' = failed /\ done' = done
        /\ quiet' = quiet /\ played' = played /\ emitted[s] \in Nat
    BY <1>1 DEF SpeechInv, SpeechTypes, playing
  <1>3. ReplyInv(s)
    BY DEF SpeechInv
  <1>4. \/ s \in closed /\ feeder' = [feeder EXCEPT ![s] = "over"] /\ emitted' = emitted
        \/ s \notin closed /\ feeder' = [feeder EXCEPT ![s] = "closing"] /\ emitted' = emitted
        \/ /\ s \notin closed /\ feeder' = [feeder EXCEPT ![s] = "flushing"]
           /\ emitted' = [emitted EXCEPT ![s] = emitted[s] + 1]
    BY DEF Finish, Emit
  <1>5. \/ feeder'[s] = "over" /\ s \in cancel /\ emitted'[s] = emitted[s]
        \/ feeder'[s] = "closing" /\ s \notin closed /\ emitted'[s] = emitted[s]
        \/ feeder'[s] = "flushing" /\ s \notin closed /\ emitted'[s] = emitted[s] + 1
    BY <1>1, <1>3, <1>4 DEF SpeechInv, SpeechTypes, ReplyInv, FeederInv
  <1>6. FedOnly(s)
    BY <1>1, <1>2, <1>4 DEF SpeechInv, SpeechTypes, FedOnly, Feeding
  <1>7. FeederInv(s)'
    BY <1>1, <1>2, <1>3, <1>5 DEF ReplyInv, FeederInv
  <1>8. s \in cancel \/ (Given(s)' = Given(s) /\ EndPut(s)' = EndPut(s) /\ Fetched(s)' = Fetched(s))
    BY <1>1, <1>2, <1>5 DEF Given, EndPut, Fetched
  <1>9. SentenceInv(s)'
    BY <1>1, <1>2, <1>3, <1>8 DEF ReplyInv, SentenceInv
  <1>10. EndInv(s)'
    BY <1>1, <1>2, <1>3 DEF ReplyInv, EndInv
  <1> QED  BY <1>6, <1>7, <1>9, <1>10, FeedsOne

LEMMA AbandonKeeps ==
  ASSUME SpeechInv, NEW s \in Sessions, Abandon(s)
  PROVE  SpeechInv'
  <1>1. /\ feeder' = [feeder EXCEPT ![s] = "over"] /\ cancel' = cancel \cup {s}
        /\ closed' = closed \cup {s} /\ emitted' = emitted
        /\ UNCHANGED <<playing, owners, canceller, quiet>>
        /\ chunks' = [chunks EXCEPT ![s] = IF s \notin closed /\ Len(@) < QueueSize
                                             THEN Append(@, EndOfStream) ELSE @]
    BY DEF Abandon
  <1>2. chunks'[s] \in Seq(Nat) /\ chunks' = [chunks EXCEPT ![s] = chunks'[s]]
    BY <1>1 DEF SpeechInv, SpeechTypes, EndOfStream
  <1>3. FedOnly(s)
    BY <1>1, <1>2 DEF SpeechInv, SpeechTypes, FedOnly, Feeding
  <1>4. feeder'[s] = "over" /\ s \in cancel' /\ player' = player /\ done' = done
    BY <1>1 DEF SpeechInv, SpeechTypes, playing
  <1>5. FeederInv(s)' /\ SentenceInv(s)' /\ EndInv(s)'
    BY <1>4 DEF SpeechInv, ReplyInv, FeederInv, SentenceInv, EndInv
  <1> QED  BY <1>3, <1>5, FeedsOne

LEMMA PutNextKeeps ==
  ASSUME SpeechInv, NEW s \in Sessions, PutNext(s)
  PROVE  SpeechInv'
  <1>1. PICK item \in {emitted[s], EndOfStream} :
          /\ Put(s, item)
          /\ \/ /\ feeder[s] = "putting" /\ feeder' = [feeder EXCEPT ![s] = "open"]
                /\ closed' = closed /\ item = emitted[s]
             \/ /\ feeder[s] = "flushing" /\ feeder' = [feeder EXCEPT ![s] = "closing"]
                /\ closed' = closed /\ item = emitted[s]
             \/ /\ feeder[s] = "closing" /\ feeder' = [feeder EXCEPT ![s] = "over"]
                /\ closed' = closed \cup {s} /\ item = EndOfStream
    BY DEF PutNext
  <1>2. UNCHANGED <<emitted, cancel, playing, owners, canceller, quiet>>
    BY DEF PutNext
  <1>3. /\ emitted' = emitted /\ cancel' = cancel /\ ahead' = ahead
        /\ inHand' = inHand /\ player' = player /\ failed' = failed /\ done' = done
        /\ quiet' = quiet /\ played' = played /\ emitted[s] \in Nat /\ chunks[s] \in Seq(Nat)
    BY <1>2 DEF SpeechInv, SpeechTypes, playing
  <1>4. ReplyInv(s)
    BY DEF SpeechInv
  <1>5. \/ feeder[s] = "putting" /\ feeder'[s] = "open" /\ item = emitted[s]
        \/ feeder[s] = "flushing" /\ feeder'[s] = "closing" /\ item = emitted[s]
        \/ feeder[s] = "closing" /\ feeder'[s] = "over" /\ item = EndOfStream
    BY <1>1 DEF SpeechInv, SpeechTypes
  <1>6. \/ /\ chunks' = [chunks EXCEPT ![s] = Append(chunks[s], item)]
           /\ chunks'[s] = Append(chunks[s], item)
        \/ chunks' = chunks /\ (s \in cancel \/ quiet)
    BY <1>1 DEF SpeechInv, SpeechTypes, Put
  <1>7. item \in Nat
    BY <1>1, <1>3 DEF EndOfStream
  <1>8. chunks' = [chunks EXCEPT ![s] = chunks'[s]] /\ chunks'[s] \in Seq(Nat)
    <2>1. Append(chunks[s], item) \in Seq(Nat)
      BY <1>3, <1>7
    <2>2. chunks = [chunks EXCEPT ![s] = chunks[s]]
      BY DEF SpeechInv, SpeechTypes
    <2> QED  BY <1>3, <1>6, <2>1, <2>2
  <1>9. feeder' = [feeder EXCEPT ![s] = feeder'[s]] /\ feeder'[s] \in Feeding
    BY <1>1, <1>5 DEF SpeechInv, SpeechTypes, Feeding
  <1>10. FedOnly(s)
    BY <1>1, <1>2, <1>3, <1>8, <1>9 DEF SpeechInv, SpeechTypes, FedOnly
  <1>11. FeederInv(s)'
    BY <1>1, <1>3, <1>4, <1>5 DEF ReplyInv, FeederInv
  <1>12. EndInv(s)'
    BY <1>3, <1>4, <1>5 DEF ReplyInv, EndInv
  <1>13. SentenceInv(s)'
    <2> SUFFICES ASSUME s \notin cancel, ~quiet, player[s] \notin Spent
                 PROVE  /\ ahead[s] # EndOfStream
                        /\ NumberedFrom(chunks'[s], Fetched(s)', Given(s)', EndPut(s)')
      BY <1>3 DEF SentenceInv
    <2>1. ahead[s] # EndOfStream /\ NumberedFrom(chunks[s], Fetched(s), Given(s), EndPut(s))
      BY <1>4, <1>5 DEF ReplyInv, SentenceInv
    <2>2. Fetched(s)' = Fetched(s) /\ Fetched(s) \in Nat
      BY <1>3, FetchedIsNatural DEF SpeechInv, Fetched
    <2>3. chunks'[s] = Append(chunks[s], item)
      BY <1>6
    <2>4. CASE feeder[s] = "closing"
      <3>1. Given(s) = emitted[s] /\ Given(s)' = emitted[s] /\ EndPut(s) = 0 /\ EndPut(s)' = 1
            /\ item = EndOfStream
        BY <1>3, <1>5, <2>4 DEF Given, EndPut
      <3> QED  BY <1>3, <2>1, <2>2, <2>3, <3>1, NumberedPut
    <2>5. CASE feeder[s] \in {"putting", "flushing"}
      <3>1. PICK given \in Nat : given = emitted[s] - 1
        BY <1>3, <1>4, <2>5 DEF ReplyInv, FeederInv
      <3>2. Given(s) = given /\ Given(s)' = given + 1 /\ EndPut(s) = 0 /\ EndPut(s)' = 0
            /\ item = given + 1
        BY <1>3, <1>5, <2>5, <3>1 DEF Given, EndPut
      <3> QED  BY <1>3, <2>1, <2>2, <2>3, <3>2, NumberedPut
    <2> QED  BY <1>5, <2>1, <2>4, <2>5
  <1> QED  BY <1>10, <1>11, <1>12, <1>13, FeedsOne

LEMMA OpenStreamKeeps ==
  ASSUME SpeechInv, NEW s \in Sessions, OpenStream(s)
  PROVE  SpeechInv'
  <1>1. /\ feeder[s] = "none" /\ feeder' = [feeder EXCEPT ![s] = "open"]
        /\ cancel' = cancel \cup ({session} \ {Silence})
        /\ closed' = closed \cup ({session} \ {Silence})
        /\ chunks' = [q \in Sessions |->
                        IF q = session /\ q \notin closed /\ Len(chunks[q]) < QueueSize
                          THEN Append(chunks[q], EndOfStream) ELSE chunks[q]]
        /\ session' = s /\ Play(s, "first")
        /\ UNCHANGED <<emitted, inHand, ahead, played, failed, done, speechLock, activeStop,
                       canceller, quiet>>
    BY DEF OpenStream
  <1>2. /\ player' \in [Voices -> Stages] /\ player'[s] = "first" /\ player[s] = "off"
        /\ \A u \in Voices \ {s} : player'[u] = player[u]
    BY <1>1, VoicesAreApart, PlayMoves DEF SpeechInv, Stages, ReplyInv, FeederInv
  <1>3. \A q \in Sessions : chunks'[q] \in Seq(Nat) /\ (chunks'[q] = chunks[q] \/ q \in cancel')
    <2> TAKE q \in Sessions
    <2> chunks[q] \in Seq(Nat) /\ Append(chunks[q], EndOfStream) \in Seq(Nat)
      BY DEF SpeechInv, SpeechTypes, EndOfStream
    <2>1. CASE q = session /\ q \notin closed /\ Len(chunks[q]) < QueueSize
      <3>1. chunks'[q] = Append(chunks[q], EndOfStream)
        BY <1>1, <2>1
      <3>2. q \in cancel'
        BY <1>1, <2>1, VoicesAreApart
      <3> QED  BY <3>1, <3>2
    <2>2. CASE ~(q = session /\ q \notin closed /\ Len(chunks[q]) < QueueSize)
      BY <1>1, <2>2
    <2> QED  BY <2>1, <2>2
  <1>4. SpeechTypes'
    <2>1. chunks' \in [Sessions -> Seq(Nat)]
      BY <1>1, <1>3
    <2> QED  BY <1>1, <1>2, <2>1 DEF SpeechInv, SpeechTypes, Feeding
  <1>5. LockInv' /\ CancellerInv'
    BY <1>1, <1>2, VoicesAreApart DEF SpeechInv, LockInv, CancellerInv, Speaking
  <1>6. ReplyInv(s)'
    <2>1. ReplyInv(s)
      BY DEF SpeechInv
    <2>2. /\ feeder'[s] = "open" /\ emitted'[s] = emitted[s] /\ inHand'[s] = inHand[s]
          /\ ahead'[s] = ahead[s] /\ played'[s] = played[s] /\ done' = done
          /\ s \in closed' => s \in closed \/ s \in cancel'
          /\ cancel \subseteq cancel' /\ quiet' = quiet /\ session' = s
      BY <1>1 DEF SpeechInv, SpeechTypes
    <2>3. s \in closed => s \in cancel
      BY <1>1, <2>1 DEF ReplyInv, FeederInv
    <2>4. FeederInv(s)' /\ PaceInv(s)'
      BY <1>2, <2>1, <2>2, <2>3 DEF ReplyInv, FeederInv, PaceInv
    <2>5. Fetched(s)' = Fetched(s) /\ Given(s)' = Given(s) /\ EndPut(s)' = EndPut(s)
      BY <1>1, <2>2 DEF Fetched, Given, EndPut
    <2>6. SentenceInv(s)'
      BY <1>1, <1>2, <1>3, <2>1, <2>2, <2>5 DEF ReplyInv, SentenceInv, Spent
    <2>7. EndInv(s)'
      BY <1>2, <2>1, <2>2 DEF ReplyInv, EndInv, Spent
    <2> QED  BY <2>2, <2>4, <2>6, <2>7 DEF ReplyInv
  <1>7. ASSUME NEW q \in Sessions \ {s} PROVE Spared(q)
    <2>1. feeder'[q] = feeder[q] /\ player'[q] = player[q]
      BY <1>1, <1>2, <1>7, VoicesAreApart DEF SpeechInv, SpeechTypes
    <2>2. q \in cancel' \/ session # q
      BY <1>1, <1>7, VoicesAreApart
    <2> QED  BY <1>1, <1>3, <1>7, <2>1, <2>2 DEF Spared
  <1> QED  BY <1>4, <1>5, <1>6, <1>7, OneReply

\* The thread of a session touches its own end of its own session.
PlayedOnly(s, spot) ==
  /\ Play(s, spot) /\ spot \in Stages
  /\ chunks' = [chunks EXCEPT ![s] = chunks'[s]] /\ chunks'[s] \in Seq(Nat)
  /\ inHand' = [inHand EXCEPT ![s] = inHand'[s]] /\ inHand'[s] \in Nat
  /\ ahead' = [ahead EXCEPT ![s] = ahead'[s]] /\ ahead'[s] \in Nat \cup {Nothing}
  /\ played' = [played EXCEPT ![s] = played'[s]] /\ played'[s] \in Nat
  /\ failed \subseteq failed' /\ failed' \subseteq failed \cup {s}
  /\ UNCHANGED <<feed, cancel, done, owners, canceller, quiet>>

LEMMA SameAt ==
  ASSUME SpeechTypes, NEW s \in Sessions
  PROVE  /\ chunks = [chunks EXCEPT ![s] = chunks[s]] /\ chunks[s] \in Seq(Nat)
         /\ inHand = [inHand EXCEPT ![s] = inHand[s]] /\ inHand[s] \in Nat
         /\ ahead = [ahead EXCEPT ![s] = ahead[s]] /\ ahead[s] \in Nat \cup {Nothing}
         /\ played = [played EXCEPT ![s] = played[s]] /\ played[s] \in Nat
         /\ player = [player EXCEPT ![s] = player[s]] /\ player[s] \in Stages
  BY VoicesAreApart DEF SpeechTypes

LEMMA PlaysOne ==
  ASSUME SpeechInv, NEW s \in Sessions, NEW spot, PlayedOnly(s, spot),
         player[s] \in Speaking <=> spot \in Speaking, feeder[s] # "none",
         spot \in {"first", "wait"} => player[s] = "first",
         PaceInv(s)', SentenceInv(s)', EndInv(s)'
  PROVE  SpeechInv'
  <1>1. /\ feeder' = feeder /\ emitted' = emitted /\ closed' = closed /\ cancel' = cancel
        /\ done' = done /\ session' = session /\ speechLock' = speechLock
        /\ activeStop' = activeStop /\ canceller' = canceller /\ quiet' = quiet
    BY DEF PlayedOnly, feed, owners
  <1>2. /\ player' \in [Voices -> Stages] /\ player'[s] = spot
        /\ \A u \in Voices \ {s} : player'[u] = player[u]
    BY PlayMoves, VoicesAreApart DEF SpeechInv, PlayedOnly
  <1>3. SpeechTypes'
    BY <1>1, <1>2 DEF SpeechInv, SpeechTypes, PlayedOnly
  <1>4. LockInv' /\ CancellerInv'
    BY <1>1, <1>2, VoicesAreApart DEF SpeechInv, LockInv, CancellerInv
  <1>5. ReplyInv(s)'
    BY <1>1, <1>2 DEF SpeechInv, ReplyInv, FeederInv
  <1>6. ASSUME NEW q \in Sessions \ {s} PROVE Spared(q)
    <2>1. /\ player'[q] = player[q] /\ inHand'[q] = inHand[q] /\ ahead'[q] = ahead[q]
          /\ played'[q] = played[q] /\ chunks'[q] = chunks[q]
      BY <1>2, <1>6, VoicesAreApart DEF SpeechInv, SpeechTypes, PlayedOnly
    <2> QED  BY <1>1, <1>6, <2>1 DEF Spared, PlayedOnly
  <1> QED  BY <1>3, <1>4, <1>5, <1>6, OneReply

LEMMA QueueHead ==
  ASSUME SpeechInv, NEW s \in Sessions, s \notin cancel, ~quiet, player[s] \notin Spent,
         ahead[s] = Nothing, chunks[s] # <<>>
  PROVE  /\ Head(chunks[s]) \in Nat /\ Tail(chunks[s]) \in Seq(Nat)
         /\ \/ /\ Head(chunks[s]) = inHand[s] + 1
               /\ NumberedFrom(Tail(chunks[s]), inHand[s] + 1, Given(s), EndPut(s))
            \/ /\ Head(chunks[s]) = EndOfStream
               /\ feeder[s] = "over" /\ inHand[s] = emitted[s]
  <1>1. ReplyInv(s) /\ chunks[s] \in Seq(Nat) /\ inHand[s] \in Nat
    BY DEF SpeechInv, SpeechTypes
  <1>2. Given(s) \in Nat /\ EndPut(s) \in {0, 1}
    BY <1>1 DEF SpeechInv, SpeechTypes, ReplyInv, FeederInv, Given, EndPut
  <1>3. NumberedFrom(chunks[s], inHand[s], Given(s), EndPut(s))
    BY <1>1 DEF ReplyInv, SentenceInv, Fetched, Nothing, EndOfStream
  <1>4. Head(chunks[s]) \in Nat /\ Tail(chunks[s]) \in Seq(Nat)
    BY <1>1
  <1>5. \/ /\ Head(chunks[s]) = inHand[s] + 1
           /\ NumberedFrom(Tail(chunks[s]), inHand[s] + 1, Given(s), EndPut(s))
        \/ Head(chunks[s]) = EndOfStream /\ inHand[s] = Given(s) /\ EndPut(s) = 1
    BY <1>1, <1>2, <1>3, NumberedHead
  <1> QED  BY <1>4, <1>5 DEF Given, EndPut

LEMMA FirstTextKeeps ==
  ASSUME SpeechInv, NEW s \in Sessions, FirstText(s)
  PROVE  SpeechInv'
  <1>1. /\ player[s] = "first" /\ ReplyInv(s) /\ SpeechTypes
        /\ UNCHANGED <<feed, cancel, ahead, played, failed, done, owners, canceller, quiet>>
    BY DEF SpeechInv, FirstText
  <1>2. /\ feeder[s] # "none" /\ inHand[s] = 0 /\ played[s] = 0 /\ ahead[s] = Nothing
        /\ s \notin done
    BY <1>1 DEF ReplyInv, FeederInv, PaceInv, EndInv
  <1>3. /\ ahead' = ahead /\ played' = played /\ failed' = failed /\ done' = done
        /\ cancel' = cancel /\ quiet' = quiet /\ feeder' = feeder /\ emitted' = emitted
    BY <1>1 DEF feed
  <1>4. CASE Halted(s) /\ Play(s, "finish") /\ UNCHANGED <<chunks, inHand>>
    <2>1. player'[s] = "finish"
      BY <1>1, <1>4, PlayMoves, VoicesAreApart DEF Stages
    <2>2. PlayedOnly(s, "finish")
      BY <1>1, <1>3, <1>4, SameAt DEF PlayedOnly, Stages
    <2>3. PaceInv(s)' /\ SentenceInv(s)' /\ EndInv(s)'
      BY <1>3, <1>4, <2>1 DEF PaceInv, SentenceInv, EndInv, Spent, Halted
    <2> QED  BY <1>1, <1>2, <2>2, <2>3, PlaysOne DEF Speaking
  <1>5. CASE /\ ~Halted(s) /\ chunks[s] # <<>>
             /\ chunks' = [chunks EXCEPT ![s] = Tail(chunks[s])]
             /\ inHand' = [inHand EXCEPT ![s] = Head(chunks[s])]
             /\ Play(s, IF Head(chunks[s]) = EndOfStream THEN "finish" ELSE "wait")
    <2>1. /\ Head(chunks[s]) \in Nat /\ Tail(chunks[s]) \in Seq(Nat)
          /\ \/ /\ Head(chunks[s]) = inHand[s] + 1
                /\ NumberedFrom(Tail(chunks[s]), inHand[s] + 1, Given(s), EndPut(s))
             \/ /\ Head(chunks[s]) = EndOfStream
                /\ feeder[s] = "over" /\ inHand[s] = emitted[s]
      BY <1>1, <1>2, <1>5, QueueHead DEF Halted, Spent
    <2>2. chunks'[s] = Tail(chunks[s]) /\ inHand'[s] = Head(chunks[s])
      BY <1>1, <1>5 DEF SpeechTypes
    <2>3. PICK spot \in {"finish", "wait"} :
            /\ Play(s, spot)
            /\ spot = IF Head(chunks[s]) = EndOfStream THEN "finish" ELSE "wait"
      BY <1>5
    <2>4. player'[s] = spot
      BY <1>1, <2>3, PlayMoves, VoicesAreApart DEF Stages
    <2>5. PlayedOnly(s, spot)
      BY <1>1, <1>3, <1>5, <2>1, <2>2, <2>3, SameAt DEF PlayedOnly, Stages
    <2>6. /\ Head(chunks[s]) = 1 => spot = "wait"
          /\ Head(chunks[s]) = EndOfStream => spot = "finish"
          /\ Head(chunks[s]) \in {1, EndOfStream}
      BY <1>2, <2>1, <2>3 DEF EndOfStream
    <2>7. PaceInv(s)'
      BY <1>2, <1>3, <2>2, <2>4, <2>6 DEF PaceInv
    <2>8. SentenceInv(s)'
      <3>1. CASE Head(chunks[s]) = 1
        <4>1. NumberedFrom(chunks'[s], 1, Given(s), EndPut(s))
          BY <1>2, <2>1, <2>2, <3>1 DEF EndOfStream
        <4>2. Given(s)' = Given(s) /\ EndPut(s)' = EndPut(s) /\ Fetched(s)' = 1
          BY <1>2, <1>3, <2>2, <3>1 DEF Given, EndPut, Fetched
        <4> QED  BY <1>2, <1>3, <4>1, <4>2 DEF SentenceInv, Nothing, EndOfStream
      <3>2. CASE Head(chunks[s]) = EndOfStream
        BY <2>4, <2>6, <3>2 DEF SentenceInv, Spent
      <3> QED  BY <2>6, <3>1, <3>2
    <2>9. EndInv(s)'
      BY <1>2, <1>3, <2>1, <2>4, <2>6 DEF EndInv, Spent, EndOfStream
    <2> QED  BY <1>1, <1>2, <2>3, <2>5, <2>7, <2>8, <2>9, PlaysOne DEF Speaking
  <1> QED  BY <1>4, <1>5 DEF FirstText

LEMMA FirstAudioKeeps ==
  ASSUME SpeechInv, NEW s \in Sessions, FirstAudio(s)
  PROVE  SpeechInv'
  <1>1. /\ player[s] = "synthesise" /\ ReplyInv(s) /\ SpeechTypes
        /\ UNCHANGED <<feed, chunks, cancel, inHand, ahead, played, done, owners, canceller, quiet>>
    BY DEF SpeechInv, FirstAudio
  <1>2. PICK spot \in {"release", "play"} :
          /\ Play(s, spot)
          /\ \/ failed' = failed /\ (spot = "play" \/ Halted(s))
             \/ failed' = failed \cup {s} /\ spot = "release"
    BY DEF FirstAudio, Fail
  <1>3. PlayedOnly(s, spot)
    BY <1>1, <1>2, SameAt DEF PlayedOnly, Stages, Speaking
  <1>4. /\ player'[s] = spot /\ feeder' = feeder /\ emitted' = emitted
        /\ chunks' = chunks /\ cancel' = cancel /\ inHand' = inHand /\ ahead' = ahead
        /\ played' = played /\ done' = done /\ quiet' = quiet
    BY <1>1, <1>2, PlayMoves, VoicesAreApart DEF Stages, Speaking, feed
  <1>5. PaceInv(s)'
    BY <1>1, <1>4 DEF ReplyInv, PaceInv
  <1>6. Fetched(s)' = Fetched(s) /\ Given(s)' = Given(s) /\ EndPut(s)' = EndPut(s)
    BY <1>4 DEF Fetched, Given, EndPut
  <1>7. SentenceInv(s)'
    BY <1>1, <1>4, <1>6 DEF ReplyInv, SentenceInv, Spent
  <1>8. EndInv(s)'
    BY <1>1, <1>2, <1>4 DEF ReplyInv, EndInv, Spent, Halted
  <1> QED  BY <1>1, <1>2, <1>3, <1>5, <1>7, <1>8, PlaysOne DEF Speaking, ReplyInv, FeederInv

LEMMA FetchAheadKeeps ==
  ASSUME SpeechInv, NEW s \in Sessions, FetchAhead(s)
  PROVE  SpeechInv'
  <1>1. /\ player[s] \in {"play", "next"} /\ ahead[s] = Nothing /\ chunks[s] # <<>>
        /\ ~Halted(s) /\ ReplyInv(s) /\ SpeechTypes
        /\ ahead' = [ahead EXCEPT ![s] = Head(chunks[s])]
        /\ chunks' = [chunks EXCEPT ![s] = Tail(chunks[s])]
        /\ UNCHANGED <<feed, cancel, player, inHand, played, failed, done, owners, canceller, quiet>>
    BY DEF SpeechInv, FetchAhead
  <1>2. /\ Head(chunks[s]) \in Nat /\ Tail(chunks[s]) \in Seq(Nat)
        /\ \/ /\ Head(chunks[s]) = inHand[s] + 1
              /\ NumberedFrom(Tail(chunks[s]), inHand[s] + 1, Given(s), EndPut(s))
           \/ /\ Head(chunks[s]) = EndOfStream
              /\ feeder[s] = "over" /\ inHand[s] = emitted[s]
    BY <1>1, QueueHead DEF Halted, Spent
  <1>3. /\ chunks'[s] = Tail(chunks[s]) /\ ahead'[s] = Head(chunks[s])
        /\ feeder' = feeder /\ emitted' = emitted /\ player' = player /\ cancel' = cancel
        /\ inHand' = inHand /\ played' = played /\ done' = done /\ quiet' = quiet
        /\ inHand[s] \in Nat
    BY <1>1 DEF SpeechTypes, feed
  <1>4. PlayedOnly(s, player[s])
    <2>1. Play(s, player[s]) /\ player[s] \in Stages
      BY <1>1, <1>3, SameAt DEF Play
    <2> QED  BY <1>1, <1>2, <1>3, <2>1, SameAt DEF PlayedOnly
  <1>5. PaceInv(s)'
    BY <1>1, <1>2, <1>3 DEF ReplyInv, PaceInv
  <1>6. SentenceInv(s)'
    <2>1. CASE Head(chunks[s]) = inHand[s] + 1
      <3>1. /\ NumberedFrom(chunks'[s], inHand[s] + 1, Given(s), EndPut(s))
            /\ inHand[s] + 1 # EndOfStream /\ inHand[s] + 1 # Nothing
        BY <1>2, <1>3, <2>1 DEF EndOfStream, Nothing
      <3>2. Given(s)' = Given(s) /\ EndPut(s)' = EndPut(s) /\ Fetched(s)' = inHand[s] + 1
        BY <1>3, <2>1, <3>1 DEF Given, EndPut, Fetched
      <3> QED  BY <1>3, <2>1, <3>1, <3>2 DEF SentenceInv
    <2>2. CASE Head(chunks[s]) = EndOfStream
      BY <1>2, <1>3, <2>2 DEF SentenceInv, EndOfStream
    <2> QED  BY <1>2, <2>1, <2>2
  <1>7. EndInv(s)'
    BY <1>1, <1>3 DEF ReplyInv, EndInv, Spent
  <1> QED  BY <1>1, <1>4, <1>5, <1>6, <1>7, PlaysOne DEF ReplyInv, FeederInv

LEMMA PlayOneKeeps ==
  ASSUME SpeechInv, NEW s \in Sessions, PlayOne(s)
  PROVE  SpeechInv'
  <1>1. /\ player[s] = "play" /\ ReplyInv(s) /\ SpeechTypes
        /\ UNCHANGED <<feed, chunks, cancel, inHand, ahead, done, owners, canceller, quiet>>
    BY DEF SpeechInv, PlayOne
  <1>2. PICK spot \in {"release", "next"} :
          /\ Play(s, spot)
          /\ \/ /\ failed' = failed /\ spot = "next"
                /\ played' = [played EXCEPT ![s] = played[s] + 1]
             \/ failed' = failed /\ spot = "release" /\ Halted(s) /\ played' = played
             \/ failed' = failed \cup {s} /\ spot = "release" /\ played' = played
    BY DEF PlayOne, Fail
  <1>3. /\ player'[s] = spot /\ feeder' = feeder /\ emitted' = emitted
        /\ chunks' = chunks /\ cancel' = cancel /\ inHand' = inHand /\ ahead' = ahead
        /\ done' = done /\ quiet' = quiet /\ played[s] \in Nat
        /\ spot = "next" => played'[s] = played[s] + 1
    <2>1. s \in Voices /\ spot \in Stages
      BY VoicesAreApart DEF Stages, Speaking
    <2>2. player'[s] = spot
      BY <1>1, <1>2, <2>1, PlayMoves
    <2>3. played[s] \in Nat /\ (spot = "next" => played'[s] = played[s] + 1)
      BY <1>1, <1>2 DEF SpeechTypes
    <2> QED  BY <1>1, <2>2, <2>3 DEF feed
  <1>4. played' = [played EXCEPT ![s] = played'[s]] /\ played'[s] \in Nat
    BY <1>2, <1>3, SameAt DEF SpeechInv, SpeechTypes
  <1>5. PlayedOnly(s, spot)
    BY <1>1, <1>2, <1>3, <1>4, SameAt DEF PlayedOnly, Stages, Speaking
  <1>6. PaceInv(s)'
    BY <1>1, <1>3 DEF ReplyInv, PaceInv
  <1>7. Fetched(s)' = Fetched(s) /\ Given(s)' = Given(s) /\ EndPut(s)' = EndPut(s)
    BY <1>3 DEF Fetched, Given, EndPut
  <1>8. SentenceInv(s)'
    BY <1>1, <1>3, <1>7 DEF ReplyInv, SentenceInv, Spent
  <1>9. EndInv(s)'
    BY <1>1, <1>2, <1>3 DEF ReplyInv, EndInv, Spent, Halted
  <1> QED  BY <1>1, <1>2, <1>5, <1>6, <1>8, <1>9, PlaysOne DEF Speaking, ReplyInv, FeederInv

LEMMA NextAudioKeeps ==
  ASSUME SpeechInv, NEW s \in Sessions, NextAudio(s)
  PROVE  SpeechInv'
  <1>1. /\ player[s] = "next" /\ ReplyInv(s) /\ SpeechTypes
        /\ UNCHANGED <<feed, chunks, cancel, played, done, owners, canceller, quiet>>
    BY DEF SpeechInv, NextAudio
  <1>2. /\ feeder' = feeder /\ emitted' = emitted /\ chunks' = chunks /\ cancel' = cancel
        /\ done' = done /\ quiet' = quiet /\ played' = played
        /\ inHand[s] = played[s] /\ played[s] \in Nat /\ feeder[s] # "none" /\ s \notin done
        /\ ahead[s] \in {Nothing, EndOfStream, inHand[s] + 1}
    BY <1>1, SameAt DEF feed, ReplyInv, PaceInv, FeederInv, EndInv
  <1>3. CASE /\ Play(s, "release") /\ UNCHANGED <<inHand, ahead>>
             /\ \/ Halted(s) /\ failed' = failed
                \/ ahead[s] = EndOfStream /\ failed' = failed
                \/ failed' = failed \cup {s}
    <2>1. PlayedOnly(s, "release") /\ player'[s] = "release"
      BY <1>1, <1>2, <1>3, SameAt, PlayMoves, VoicesAreApart DEF PlayedOnly, Stages, Speaking
    <2>2. PaceInv(s)' /\ SentenceInv(s)'
      BY <1>1, <2>1 DEF PaceInv, SentenceInv, Spent
    <2>3. s \notin cancel /\ ~quiet /\ ahead[s] = EndOfStream
            => feeder[s] = "over" /\ played[s] = emitted[s]
      BY <1>1, <1>2 DEF ReplyInv, SentenceInv, Spent
    <2>4. EndInv(s)'
      BY <1>2, <1>3, <2>1, <2>3 DEF EndInv, Halted
    <2> QED  BY <1>1, <1>2, <2>1, <2>2, <2>4, PlaysOne DEF Speaking
  <1>4. CASE /\ ahead[s] > EndOfStream /\ Play(s, "play") /\ failed' = failed
             /\ inHand' = [inHand EXCEPT ![s] = ahead[s]]
             /\ ahead' = [ahead EXCEPT ![s] = Nothing]
    <2>1. ahead[s] = inHand[s] + 1
      BY <1>2, <1>4 DEF Nothing, EndOfStream
    <2>2. inHand'[s] = inHand[s] + 1 /\ ahead'[s] = Nothing /\ player'[s] = "play"
      BY <1>1, <1>4, <2>1, PlayMoves, VoicesAreApart DEF SpeechTypes, Stages, Speaking
    <2>3. PlayedOnly(s, "play")
      <3>1. inHand[s] + 1 \in Nat /\ Nothing \in Nat \cup {Nothing} /\ "play" \in Stages
        BY <1>1, SameAt DEF Stages, Speaking
      <3>2. chunks' = [chunks EXCEPT ![s] = chunks'[s]] /\ chunks'[s] \in Seq(Nat)
        BY <1>1, <1>2, SameAt
      <3>3. played' = [played EXCEPT ![s] = played'[s]] /\ played'[s] \in Nat
        BY <1>1, <1>2, SameAt
      <3>4. /\ inHand' = [inHand EXCEPT ![s] = inHand'[s]]
            /\ ahead' = [ahead EXCEPT ![s] = ahead'[s]]
        BY <1>4, <2>1, <2>2
      <3> QED  BY <1>1, <1>4, <2>2, <3>1, <3>2, <3>3, <3>4 DEF PlayedOnly
    <2>4. PaceInv(s)'
      BY <1>2, <2>2 DEF PaceInv
    <2>5. Fetched(s)' = Fetched(s) /\ Given(s)' = Given(s) /\ EndPut(s)' = EndPut(s)
      BY <1>2, <2>1, <2>2 DEF Fetched, Given, EndPut, Nothing
    <2>6. SentenceInv(s)'
      BY <1>1, <1>2, <2>1, <2>2, <2>5 DEF ReplyInv, SentenceInv, Spent, Nothing, EndOfStream
    <2>7. EndInv(s)'
      BY <1>2, <2>2 DEF EndInv, Spent
    <2> QED  BY <1>1, <1>2, <2>3, <2>4, <2>6, <2>7, PlaysOne DEF Speaking
  <1> QED  BY <1>3, <1>4 DEF NextAudio, Fail

LEMMA StreamFinishedKeeps ==
  ASSUME SpeechInv, NEW s \in Sessions, StreamFinished(s)
  PROVE  SpeechInv'
  <1>1. /\ player[s] = "finish" /\ ReplyInv(s) /\ SpeechTypes
        /\ inHand' = [inHand EXCEPT ![s] = 0] /\ ahead' = [ahead EXCEPT ![s] = Nothing]
        /\ UNCHANGED <<feed, chunks, cancel, played, failed, speechLock, activeStop, canceller, quiet>>
    BY DEF SpeechInv, StreamFinished
  <1>2. PICK spot \in {"finish", "over"} :
          /\ Play(s, spot) /\ done' \subseteq done \cup {s}
          /\ session' = session \/ (session = s /\ session' = Silence)
    BY <1>1, SameAt DEF StreamFinished, Play
  <1>3. /\ feeder' = feeder /\ emitted' = emitted /\ chunks' = chunks /\ cancel' = cancel
        /\ closed' = closed /\ quiet' = quiet /\ played' = played /\ failed' = failed
        /\ speechLock' = speechLock /\ activeStop' = activeStop /\ canceller' = canceller
    BY <1>1 DEF feed
  <1>4. /\ player' \in [Voices -> Stages] /\ player'[s] = spot
        /\ \A u \in Voices \ {s} : player'[u] = player[u]
    BY <1>1, <1>2, PlayMoves, VoicesAreApart DEF Stages
  <1>5. SpeechTypes'
    BY <1>1, <1>2, <1>3, <1>4 DEF SpeechTypes
  <1>6. LockInv' /\ CancellerInv'
    BY <1>1, <1>3, <1>4 DEF SpeechInv, LockInv, CancellerInv, Speaking
  <1>7. ReplyInv(s)'
    <2>1. FeederInv(s)' /\ PaceInv(s)' /\ SentenceInv(s)'
      BY <1>1, <1>3, <1>4 DEF ReplyInv, FeederInv, PaceInv, SentenceInv, Spent
    <2>2. EndInv(s)'
      BY <1>1, <1>3, <1>4 DEF ReplyInv, EndInv, Spent
    <2> QED  BY <1>4, <2>1, <2>2 DEF ReplyInv
  <1>8. ASSUME NEW q \in Sessions \ {s} PROVE Spared(q)
    <2>1. player'[q] = player[q] /\ inHand'[q] = inHand[q] /\ ahead'[q] = ahead[q]
      BY <1>1, <1>4, <1>8, VoicesAreApart DEF SpeechTypes
    <2> QED  BY <1>2, <1>3, <1>8, <2>1 DEF Spared
  <1> QED  BY <1>5, <1>6, <1>7, <1>8, OneReply

-----------------------------------------------------------------------------
\* Steps that take or leave the lock, and those of the short phrases.
VoiceOnly(v, spot) ==
  /\ Play(v, spot) /\ spot \in Stages
  /\ UNCHANGED <<feed, chunks, cancel, inHand, ahead, played, failed, done, session, canceller,
                 quiet>>

LEMMA MovesOneVoice ==
  ASSUME SpeechInv, NEW v \in Voices, NEW spot, VoiceOnly(v, spot), LockInv',
         v \in Sessions => \/ player[v] = "wait" /\ spot = "synthesise"
                           \/ player[v] = "release" /\ spot = "finish"
  PROVE  SpeechInv'
  <1>1. /\ feeder' = feeder /\ emitted' = emitted /\ closed' = closed /\ chunks' = chunks
        /\ cancel' = cancel /\ inHand' = inHand /\ ahead' = ahead /\ played' = played
        /\ failed' = failed /\ done' = done /\ session' = session /\ canceller' = canceller
        /\ quiet' = quiet
    BY DEF VoiceOnly, feed
  <1>2. /\ player' \in [Voices -> Stages] /\ player'[v] = spot
        /\ \A u \in Voices \ {v} : player'[u] = player[u]
    BY PlayMoves DEF SpeechInv, VoiceOnly
  <1>3. SpeechTypes' /\ CancellerInv'
    BY <1>1, <1>2 DEF SpeechInv, SpeechTypes, CancellerInv
  <1>4. ASSUME NEW s \in Sessions PROVE ReplyInv(s)'
    <2>1. CASE s = v
      <3>1. ReplyInv(s) /\ player'[s] = spot
        BY <1>2, <2>1 DEF SpeechInv
      <3>2. FeederInv(s)' /\ PaceInv(s)'
        BY <1>1, <2>1, <3>1 DEF ReplyInv, FeederInv, PaceInv
      <3>3. Fetched(s)' = Fetched(s) /\ Given(s)' = Given(s) /\ EndPut(s)' = EndPut(s)
        BY <1>1 DEF Fetched, Given, EndPut
      <3>4. SentenceInv(s)'
        BY <1>1, <2>1, <3>1, <3>3 DEF ReplyInv, SentenceInv, Spent
      <3>5. EndInv(s)'
        BY <1>1, <2>1, <3>1 DEF ReplyInv, EndInv, Spent
      <3> QED  BY <2>1, <3>1, <3>2, <3>4, <3>5 DEF ReplyInv
    <2>2. CASE s # v
      <3>1. Spared(s)
        BY <1>1, <1>2, <2>2, VoicesAreApart DEF Spared
      <3> QED  BY <3>1, ReplyUntouched DEF SpeechInv
    <2> QED  BY <2>1, <2>2
  <1> QED  BY <1>3, <1>4 DEF SpeechInv

LEMMA TakeVoiceKeeps ==
  ASSUME SpeechInv, NEW v \in Voices, TakeVoice(v)
  PROVE  SpeechInv'
  <1>1. /\ player[v] = "wait" /\ speechLock = Silence /\ speechLock' = v /\ activeStop' = v
        /\ UNCHANGED <<feed, chunks, cancel, inHand, ahead, played, failed, done, session,
                       canceller, quiet>>
    BY DEF TakeVoice
  <1>2. PICK spot \in {"play", "synthesise"} :
          Play(v, spot) /\ (v \in Sessions => spot = "synthesise")
    BY VoicesAreApart DEF TakeVoice
  <1>3. /\ player'[v] = spot
        /\ \A u \in Voices \ {v} : player'[u] = player[u]
    BY <1>2, PlayMoves DEF SpeechInv, Stages, Speaking
  <1>4. LockInv'
    BY <1>1, <1>3, VoicesAreApart DEF SpeechInv, LockInv, Speaking
  <1>5. VoiceOnly(v, spot)
    BY <1>1, <1>2 DEF VoiceOnly, Stages, Speaking
  <1> QED  BY <1>1, <1>2, <1>4, <1>5, MovesOneVoice

LEMMA ReleaseKeeps ==
  ASSUME SpeechInv, NEW v \in Voices, Release(v)
  PROVE  SpeechInv'
  <1>1. /\ player[v] = "release" /\ speechLock' = Silence
        /\ activeStop' = IF activeStop = v THEN Silence ELSE activeStop
        /\ UNCHANGED <<feed, chunks, cancel, inHand, ahead, played, failed, done, session,
                       canceller, quiet>>
    BY DEF Release
  <1>2. PICK spot \in {"over", "finish"} :
          Play(v, spot) /\ (v \in Sessions => spot = "finish")
    BY VoicesAreApart DEF Release
  <1>3. /\ player'[v] = spot
        /\ \A u \in Voices \ {v} : player'[u] = player[u]
    BY <1>2, PlayMoves DEF SpeechInv, Stages
  <1>4. LockInv'
    <2>1. speechLock = v /\ activeStop = v
      BY <1>1 DEF SpeechInv, LockInv, Speaking
    <2>2. speechLock' = Silence /\ activeStop' = Silence
      BY <1>1, <2>1
    <2> QED  BY <1>3, <2>1, <2>2, VoicesAreApart DEF SpeechInv, LockInv, Speaking
  <1>5. VoiceOnly(v, spot)
    BY <1>1, <1>2 DEF VoiceOnly, Stages
  <1> QED  BY <1>1, <1>2, <1>4, <1>5, MovesOneVoice

LEMMA PhraseKeeps ==
  ASSUME SpeechInv, NEW c \in Cues, Speak(c) \/ SpeakEnds(c)
  PROVE  SpeechInv'
  <1>1. PICK spot \in {"wait", "release"} :
          /\ Play(c, spot)
          /\ \/ player[c] = "off" /\ spot = "wait"
             \/ player[c] = "play" /\ spot = "release"
    BY DEF Speak, SpeakEnds
  <1>2. UNCHANGED <<feed, chunks, cancel, inHand, ahead, played, failed, done, owners,
                    canceller, quiet>>
    BY DEF Speak, SpeakEnds
  <1>3. c \in Voices /\ c \notin Sessions /\ speechLock' = speechLock /\ activeStop' = activeStop
        /\ session' = session
    BY <1>2, VoicesAreApart DEF owners
  <1>4. /\ player'[c] = spot
        /\ \A u \in Voices \ {c} : player'[u] = player[u]
    BY <1>1, <1>3, PlayMoves DEF SpeechInv, Stages, Speaking
  <1>5. LockInv'
    BY <1>1, <1>3, <1>4 DEF SpeechInv, LockInv, Speaking
  <1>6. VoiceOnly(c, spot)
    BY <1>1, <1>2, <1>3 DEF VoiceOnly, Stages, Speaking
  <1> QED  BY <1>3, <1>5, <1>6, MovesOneVoice

-----------------------------------------------------------------------------
\* Steps of cancel_current and stop: they cancel, close what is cancelled, and
\* touch nothing else of a reply.
LEMMA InterruptsOnly ==
  ASSUME SpeechInv, CancellerInv', chunks' \in [Sessions -> Seq(Nat)], quiet' \in BOOLEAN,
         UNCHANGED <<feeder, emitted, playing, owners>>, cancel \subseteq cancel', quiet => quiet',
         \A q \in Sessions : /\ chunks'[q] = chunks[q] \/ q \in cancel'
                             /\ q \in closed' => q \in closed \/ q \in cancel'
  PROVE  SpeechInv'
  <1>1. /\ feeder' = feeder /\ emitted' = emitted /\ player' = player /\ inHand' = inHand
        /\ ahead' = ahead /\ played' = played /\ failed' = failed /\ done' = done
        /\ session' = session /\ speechLock' = speechLock /\ activeStop' = activeStop
    BY DEF playing, owners
  <1>2. SpeechTypes' /\ LockInv'
    BY <1>1 DEF SpeechInv, SpeechTypes, LockInv
  <1>3. ASSUME NEW s \in Sessions PROVE ReplyInv(s)'
    <2>1. Spared(s)
      BY <1>1 DEF Spared
    <2> QED  BY <2>1, ReplyUntouched DEF SpeechInv
  <1> QED  BY <1>2, <1>3 DEF SpeechInv

LEMMA CancelKeeps ==
  ASSUME SpeechInv, NEW stopped \in BOOLEAN, CancelCurrent(stopped)
  PROVE  SpeechInv'
  <1>1. /\ canceller' = [at |-> "flag", session |-> session, voice |-> activeStop]
        /\ quiet' = (quiet \/ stopped)
        /\ UNCHANGED <<feed, chunks, cancel, playing, owners>>
    BY DEF CancelCurrent
  <1>2. /\ feeder' = feeder /\ emitted' = emitted /\ closed' = closed /\ cancel' = cancel
        /\ chunks' = chunks /\ UNCHANGED <<playing, owners>>
    BY <1>1 DEF feed
  <1>3. quiet' \in BOOLEAN /\ (quiet => quiet')
    BY <1>1 DEF SpeechInv, SpeechTypes
  <1>4. CancellerInv'
    BY <1>1 DEF SpeechInv, SpeechTypes, LockInv, CancellerInv, Interruptions
  <1> QED  BY <1>2, <1>3, <1>4, InterruptsOnly DEF SpeechInv, SpeechTypes

LEMMA FlagKeeps ==
  ASSUME SpeechInv, FlagSession
  PROVE  SpeechInv'
  <1>1. canceller \in Interruptions /\ UNCHANGED <<feed, chunks, playing, owners, quiet>>
    BY DEF SpeechInv, CancellerInv, FlagSession
  <1>2. /\ feeder' = feeder /\ emitted' = emitted /\ closed' = closed
        /\ chunks' = chunks /\ UNCHANGED <<playing, owners>> /\ quiet' = quiet
    BY <1>1 DEF feed
  <1>3. /\ cancel \subseteq cancel'
        /\ \/ canceller' = [canceller EXCEPT !.at = "stop"]
           \/ /\ canceller' = [canceller EXCEPT !.at = "close"]
              /\ cancel' = cancel \cup {canceller.session} /\ canceller.session # Silence
    BY DEF FlagSession
  <1>4. CancellerInv'
    BY <1>1, <1>3 DEF CancellerInv, Interruptions
  <1> QED  BY <1>2, <1>3, <1>4, InterruptsOnly DEF SpeechInv, SpeechTypes

LEMMA CloseKeeps ==
  ASSUME SpeechInv, CloseSession
  PROVE  SpeechInv'
  <1>1. PICK s \in Sessions : s = canceller.session /\ s \in cancel
    BY DEF CloseSession, SpeechInv, CancellerInv
  <1>2. /\ canceller' = [canceller EXCEPT !.at = "stop"]
        /\ UNCHANGED <<feeder, emitted, cancel, playing, owners, quiet>>
        /\ closed' \subseteq closed \cup {s}
    BY <1>1 DEF CloseSession
  <1>3. \/ chunks' = chunks
        \/ chunks' = [chunks EXCEPT ![s] = Append(chunks[s], EndOfStream)]
    BY <1>1 DEF CloseSession, Put
  <1>4. /\ chunks' \in [Sessions -> Seq(Nat)]
        /\ \A q \in Sessions \ {s} : chunks'[q] = chunks[q]
    <2>1. Append(chunks[s], EndOfStream) \in Seq(Nat) /\ chunks \in [Sessions -> Seq(Nat)]
      BY DEF SpeechInv, SpeechTypes, EndOfStream
    <2> QED  BY <1>3, <2>1
  <1>5. CancellerInv'
    BY <1>2 DEF SpeechInv, CancellerInv, Interruptions
  <1> QED  BY <1>1, <1>2, <1>4, <1>5, InterruptsOnly DEF SpeechInv, SpeechTypes

LEMMA StopEventKeeps ==
  ASSUME SpeechInv, StopVoiceEvent
  PROVE  SpeechInv'
  <1>1. /\ canceller' = Idle /\ cancel \subseteq cancel'
        /\ UNCHANGED <<feed, chunks, playing, owners, quiet>>
    BY DEF StopVoiceEvent
  <1>2. /\ feeder' = feeder /\ emitted' = emitted /\ closed' = closed
        /\ chunks' = chunks /\ UNCHANGED <<playing, owners>> /\ quiet' = quiet
    BY <1>1 DEF feed
  <1>3. CancellerInv'
    BY <1>1 DEF CancellerInv, Interruptions, Idle
  <1>4. SpeechTypes
    BY DEF SpeechInv
  <1>5. chunks' \in [Sessions -> Seq(Nat)] /\ quiet' \in BOOLEAN /\ (quiet => quiet')
    BY <1>2, <1>4 DEF SpeechTypes
  <1>6. \A q \in Sessions : /\ chunks'[q] = chunks[q] \/ q \in cancel'
                            /\ q \in closed' => q \in closed \/ q \in cancel'
    BY <1>2
  <1>7. UNCHANGED <<feeder, emitted, playing, owners>>
    BY <1>2
  <1> QED  BY <1>1, <1>3, <1>5, <1>6, <1>7, InterruptsOnly

LEMMA SpeechPreserved == SpeechInv /\ [SpeechNext]_speechVars => SpeechInv'
  <1> SUFFICES ASSUME SpeechInv, [SpeechNext]_speechVars PROVE SpeechInv'
    OBVIOUS
  <1>1. ASSUME NEW s \in Sessions,
               \/ OpenStream(s) \/ Feed(s) \/ Finish(s) \/ Abandon(s) \/ PutNext(s)
        PROVE  SpeechInv'
    BY <1>1, OpenStreamKeeps, FeedKeeps, FinishKeeps, AbandonKeeps, PutNextKeeps
  <1>2. ASSUME NEW s \in Sessions,
               \/ FirstText(s) \/ FirstAudio(s) \/ FetchAhead(s) \/ PlayOne(s) \/ NextAudio(s)
               \/ StreamFinished(s)
        PROVE  SpeechInv'
    BY <1>2, FirstTextKeeps, FirstAudioKeeps, FetchAheadKeeps, PlayOneKeeps, NextAudioKeeps,
       StreamFinishedKeeps
  <1>3. ASSUME NEW v \in Voices, TakeVoice(v) \/ Release(v) PROVE SpeechInv'
    BY <1>3, TakeVoiceKeeps, ReleaseKeeps
  <1>4. ASSUME NEW c \in Cues, Speak(c) \/ SpeakEnds(c) PROVE SpeechInv'
    BY <1>4, PhraseKeeps
  <1>5. ASSUME CancelCurrent(FALSE) \/ CancelCurrent(TRUE) PROVE SpeechInv'
    BY <1>5, CancelKeeps
  <1>6. ASSUME FlagSession \/ CloseSession \/ StopVoiceEvent PROVE SpeechInv'
    BY <1>6, FlagKeeps, CloseKeeps, StopEventKeeps
  <1>7. ASSUME UNCHANGED speechVars PROVE SpeechInv'
    <2>1. /\ UNCHANGED <<feed, chunks, cancel, playing, owners, canceller, quiet>>
          /\ feeder' = feeder /\ emitted' = emitted /\ closed' = closed
      BY <1>7 DEF speechVars, feed
    <2>2. CancellerInv'
      BY <2>1 DEF SpeechInv, CancellerInv
    <2> QED  BY <2>1, <2>2, InterruptsOnly DEF SpeechInv, SpeechTypes
  <1> QED  BY <1>1, <1>2, <1>3, <1>4, <1>5, <1>6, <1>7 DEF SpeechNext

\* InterruptionReaches: whoever speaks holds the lock and its stop event is the one
\* cancel_current finds; a reply that has not come to it yet is the current session
\* (voice/speech.py).
THEOREM InterruptionsArrive == SpeechSpec => []InterruptionReaches
  <1>1. SpeechInv => InterruptionReaches
    <2> SUFFICES ASSUME SpeechInv PROVE InterruptionReaches
      OBVIOUS
    <2>1. \A v \in Voices : player[v] \in {"synthesise", "play", "next"} => activeStop = v
      BY DEF SpeechInv, LockInv, Speaking
    <2>2. \A s \in Sessions : player[s] \in {"first", "wait"} => session = s \/ s \in cancel
      BY DEF SpeechInv, ReplyInv
    <2> QED  BY <2>1, <2>2 DEF InterruptionReaches
  <1> QED  BY <1>1, SpeechInitially, SpeechPreserved, PTL DEF SpeechSpec

\* NothingIsLeftUnsaid: a reply that ended by itself was spoken to its last sentence,
\* in order, for replies and queues of any size (voice/speech.py).
THEOREM RepliesAreSpoken == SpeechSpec => []NothingIsLeftUnsaid
  <1>1. SpeechInv => NothingIsLeftUnsaid
    <2> SUFFICES ASSUME SpeechInv PROVE NothingIsLeftUnsaid
      OBVIOUS
    <2>1. ASSUME NEW s \in Sessions
          PROVE  /\ player[s] = "play" => inHand[s] = played[s] + 1
                 /\ s \in done /\ s \notin cancel \cup failed /\ ~quiet => played[s] = emitted[s]
      <3>1. PaceInv(s) /\ EndInv(s)
        BY DEF SpeechInv, ReplyInv
      <3> QED  BY <3>1 DEF PaceInv, EndInv, Spent
    <2> QED  BY <2>1 DEF NothingIsLeftUnsaid
  <1> QED  BY <1>1, SpeechInitially, SpeechPreserved, PTL DEF SpeechSpec

\* What the invariants of the replies do not say: no reply exceeds its budget, no
\* queue its size, and the sets hold only replies and voices.
Budgeted == \A s \in Sessions : emitted[s] <= ChunkBudget[s]
Bounded == \A s \in Sessions : Len(chunks[s]) <= QueueSize
SpeechSets ==
  /\ closed \subseteq Sessions /\ cancel \subseteq Voices
  /\ failed \subseteq Sessions /\ done \subseteq Sessions
  /\ silenced \in 0..MaxInterruptions

LEMMA SpeechTyped == SpeechInv => (SpeechTypeOK <=> Budgeted /\ Bounded /\ SpeechSets)
  BY DEF SpeechInv, SpeechTypeOK, Budgeted, Bounded, SpeechSets, SpeechTypes, LockInv, CancellerInv,
         Interruptions, Feeding, Stages, Speaking

LEMMA BudgetKept ==
  ASSUME SpeechTypes, Budgeted, [SpeechNext]_speechVars
  PROVE  Budgeted'
  <1> USE SpeechAssumption DEF Budgeted
  <1>1. CASE UNCHANGED emitted
    BY <1>1
  <1>2. ASSUME NEW s \in Sessions, Emit(s) PROVE Budgeted'
    <2>1. emitted'[s] = emitted[s] + 1 /\ \A q \in Sessions \ {s} : emitted'[q] = emitted[q]
      BY <1>2 DEF Emit, SpeechTypes
    <2> QED  BY <1>2, <2>1 DEF Emit, SpeechTypes
  <1>3. ASSUME NEW s \in Sessions, Feed(s) \/ Finish(s) PROVE Budgeted'
    <2>1. Emit(s) \/ UNCHANGED emitted
      BY <1>3 DEF Feed, Finish
    <2> QED  BY <1>1, <1>2, <2>1
  <1>4. ASSUME NEW s \in Sessions, OpenStream(s) \/ Abandon(s) \/ PutNext(s) PROVE Budgeted'
    BY <1>1, <1>4 DEF OpenStream, Abandon, PutNext
  <1>5. ASSUME NEW s \in Sessions,
               \/ FirstText(s) \/ FirstAudio(s) \/ FetchAhead(s) \/ PlayOne(s) \/ NextAudio(s)
               \/ StreamFinished(s)
        PROVE Budgeted'
    BY <1>1, <1>5 DEF FirstText, FirstAudio, FetchAhead, PlayOne, NextAudio, StreamFinished, feed
  <1>6. ASSUME NEW v \in Voices, TakeVoice(v) \/ Release(v) \/ Speak(v) \/ SpeakEnds(v) PROVE Budgeted'
    BY <1>1, <1>6 DEF TakeVoice, Release, Speak, SpeakEnds, feed
  <1>7. CASE \/ CancelCurrent(FALSE) \/ CancelCurrent(TRUE) \/ FlagSession \/ CloseSession
             \/ StopVoiceEvent
    BY <1>1, <1>7 DEF CancelCurrent, FlagSession, CloseSession, StopVoiceEvent, feed
  <1>8. CASE UNCHANGED speechVars
    BY <1>1, <1>8 DEF speechVars, feed
  <1> QED  BY <1>3, <1>4, <1>5, <1>6, <1>7, <1>8, VoicesAreApart DEF SpeechNext

\* A step gives a queue no item that it has no room for.
Room(s) ==
  \/ chunks'[s] = chunks[s]
  \/ Len(chunks[s]) < QueueSize /\ \E item \in Nat : chunks'[s] = Append(chunks[s], item)
  \/ chunks[s] # <<>> /\ chunks'[s] = Tail(chunks[s])

LEMMA RoomKept ==
  ASSUME SpeechTypes, Bounded, \A s \in Sessions : Room(s)
  PROVE  Bounded'
  <1> SUFFICES ASSUME NEW s \in Sessions PROVE Len(chunks'[s]) <= QueueSize
    BY DEF Bounded
  <1>1. chunks[s] \in Seq(Nat) /\ Len(chunks[s]) <= QueueSize /\ QueueSize \in Nat
    BY SpeechAssumption DEF SpeechTypes, Bounded
  <1>2. CASE Len(chunks[s]) < QueueSize /\ \E item \in Nat : chunks'[s] = Append(chunks[s], item)
    <2>1. PICK item \in Nat : chunks'[s] = Append(chunks[s], item)
      BY <1>2
    <2>2. Len(Append(chunks[s], item)) = Len(chunks[s]) + 1
      BY <1>1
    <2> QED  BY <1>1, <1>2, <2>1, <2>2
  <1>3. CASE chunks[s] # <<>> /\ chunks'[s] = Tail(chunks[s])
    BY <1>1, <1>3
  <1> QED  BY <1>1, <1>2, <1>3 DEF Room

LEMMA PutHasRoom ==
  ASSUME SpeechTypes, Bounded, NEW s \in Sessions, NEW item \in Nat, Put(s, item)
  PROVE  \A q \in Sessions : Room(q)
  <1>1. CASE UNCHANGED chunks
    BY <1>1 DEF Room
  <1>2. CASE Len(chunks[s]) < QueueSize /\ chunks' = [chunks EXCEPT ![s] = Append(@, item)]
    <2>1. chunks'[s] = Append(chunks[s], item) /\ \A q \in Sessions \ {s} : chunks'[q] = chunks[q]
      BY <1>2 DEF SpeechTypes
    <2> QED  BY <1>2, <2>1 DEF Room
  <1> QED  BY <1>1, <1>2 DEF Put

LEMMA QueuesKept ==
  ASSUME SpeechInv, Bounded, [SpeechNext]_speechVars
  PROVE  Bounded'
  <1> SUFFICES \A q \in Sessions : Room(q)
    BY RoomKept DEF SpeechInv
  <1> USE VoicesAreApart
  <1>0. /\ chunks \in [Sessions -> Seq(Nat)] /\ emitted \in [Sessions -> Nat] /\ EndOfStream \in Nat
        /\ SpeechTypes
    BY DEF SpeechInv, SpeechTypes, EndOfStream
  <1>1. CASE UNCHANGED chunks
    BY <1>1 DEF Room
  <1>2. ASSUME NEW s \in Sessions, OpenStream(s) PROVE \A q \in Sessions : Room(q)
    <2>1. ASSUME NEW q \in Sessions PROVE Room(q)
      <3>1. \/ chunks'[q] = chunks[q]
            \/ Len(chunks[q]) < QueueSize /\ chunks'[q] = Append(chunks[q], EndOfStream)
        BY <1>2 DEF OpenStream
      <3> QED  BY <1>0, <3>1 DEF Room
    <2> QED  BY <2>1
  <1>3. ASSUME NEW s \in Sessions, Abandon(s) PROVE \A q \in Sessions : Room(q)
    <2>1. /\ \A q \in Sessions \ {s} : chunks'[q] = chunks[q]
          /\ \/ chunks'[s] = chunks[s]
             \/ Len(chunks[s]) < QueueSize /\ chunks'[s] = Append(chunks[s], EndOfStream)
      BY <1>0, <1>3 DEF Abandon
    <2> QED  BY <1>0, <2>1 DEF Room
  <1>4. ASSUME NEW s \in Sessions, PutNext(s) PROVE \A q \in Sessions : Room(q)
    <2>1. Put(s, emitted[s]) \/ Put(s, EndOfStream)
      BY <1>4 DEF PutNext
    <2>2. emitted[s] \in Nat
      BY <1>0
    <2> QED  BY <1>0, <2>1, <2>2, PutHasRoom
  <1>5. ASSUME NEW s \in Sessions, FirstText(s) \/ FetchAhead(s) PROVE \A q \in Sessions : Room(q)
    <2>1. /\ \A q \in Sessions \ {s} : chunks'[q] = chunks[q]
          /\ \/ chunks'[s] = chunks[s]
             \/ chunks[s] # <<>> /\ chunks'[s] = Tail(chunks[s])
      BY <1>0, <1>5 DEF FirstText, FetchAhead
    <2> QED  BY <2>1 DEF Room
  <1>6. ASSUME NEW s \in Sessions,
               Feed(s) \/ Finish(s) \/ FirstAudio(s) \/ PlayOne(s) \/ NextAudio(s) \/ StreamFinished(s)
        PROVE  UNCHANGED chunks
    BY <1>6 DEF Feed, Finish, FirstAudio, PlayOne, NextAudio, StreamFinished
  <1>7. ASSUME NEW v \in Voices, TakeVoice(v) \/ Release(v) \/ Speak(v) \/ SpeakEnds(v)
        PROVE  UNCHANGED chunks
    BY <1>7 DEF TakeVoice, Release, Speak, SpeakEnds
  <1>8. CASE CancelCurrent(FALSE) \/ CancelCurrent(TRUE) \/ FlagSession \/ StopVoiceEvent
    BY <1>1, <1>8 DEF CancelCurrent, FlagSession, StopVoiceEvent
  <1>9. CASE CloseSession
    <2>1. UNCHANGED chunks \/ Put(canceller.session, EndOfStream)
      BY <1>9 DEF CloseSession
    <2>2. canceller.session \in Sessions
      BY <1>9 DEF CloseSession, SpeechInv, CancellerInv
    <2> QED  BY <1>0, <1>1, <2>1, <2>2, PutHasRoom
  <1>10. CASE UNCHANGED speechVars
    BY <1>1, <1>10 DEF speechVars
  <1> QED  BY <1>1, <1>2, <1>3, <1>4, <1>5, <1>6, <1>7, <1>8, <1>9, <1>10 DEF SpeechNext

LEMMA SpeechSetsKept ==
  ASSUME SpeechInv, SpeechSets, [SpeechNext]_speechVars
  PROVE  SpeechSets'
  <1> USE VoicesAreApart DEF SpeechSets
  <1>0. session \in Sessions \cup {Silence} /\ MaxInterruptions \in Nat
    BY SpeechAssumption DEF SpeechInv, SpeechTypes
  <1>1. ASSUME NEW s \in Sessions, OpenStream(s) \/ Abandon(s) PROVE SpeechSets'
    BY <1>0, <1>1 DEF OpenStream, Abandon, playing
  <1>2. ASSUME NEW s \in Sessions, Feed(s) \/ Finish(s) \/ PutNext(s) PROVE SpeechSets'
    BY <1>2 DEF Feed, Finish, PutNext, playing
  <1>3. ASSUME NEW s \in Sessions, FirstText(s) \/ FetchAhead(s) \/ StreamFinished(s) PROVE SpeechSets'
    BY <1>3 DEF FirstText, FetchAhead, StreamFinished, feed
  <1>4. ASSUME NEW s \in Sessions, FirstAudio(s) \/ PlayOne(s) \/ NextAudio(s) PROVE SpeechSets'
    BY <1>4 DEF FirstAudio, PlayOne, NextAudio, Fail, feed
  <1>5. ASSUME NEW v \in Voices, TakeVoice(v) \/ Release(v) \/ Speak(v) \/ SpeakEnds(v)
        PROVE  SpeechSets'
    BY <1>5 DEF TakeVoice, Release, Speak, SpeakEnds, feed
  <1>6. CASE CancelCurrent(FALSE) \/ CancelCurrent(TRUE)
    <2>1. /\ silenced < MaxInterruptions /\ silenced' = silenced + 1
          /\ UNCHANGED <<closed, cancel, failed, done>>
      BY <1>6, Zenon DEF CancelCurrent, feed, playing
    <2> QED  BY <1>0, <2>1
  <1>7. CASE FlagSession \/ CloseSession \/ StopVoiceEvent
    <2>1. /\ canceller.session \in Sessions \cup {Silence} /\ canceller.voice \in Voices \cup {Silence}
          /\ canceller.at = "close" => canceller.session \in Sessions
      BY DEF SpeechInv, CancellerInv, Interruptions
    <2> QED  BY <1>7, <2>1 DEF FlagSession, CloseSession, StopVoiceEvent, feed, playing
  <1>8. CASE UNCHANGED speechVars
    BY <1>8 DEF speechVars, feed, playing
  <1> QED  BY <1>1, <1>2, <1>3, <1>4, <1>5, <1>6, <1>7, <1>8 DEF SpeechNext

LEMMA SpeechTypesKept ==
  ASSUME SpeechInv, SpeechTypeOK, [SpeechNext]_speechVars
  PROVE  SpeechTypeOK'
  <1>1. Budgeted /\ Bounded /\ SpeechSets /\ SpeechTypes
    BY SpeechTyped DEF SpeechInv
  <1>2. Budgeted' /\ Bounded' /\ SpeechSets'
    BY <1>1, BudgetKept, QueuesKept, SpeechSetsKept
  <1>3. SpeechInv'
    BY SpeechPreserved
  <1>4. SpeechInv' => (SpeechTypeOK' <=> Budgeted' /\ Bounded' /\ SpeechSets')
    BY SpeechTyped, PTL
  <1> QED  BY <1>2, <1>3, <1>4

LEMMA SpeechInitiallyTyped == SpeechInit => SpeechTypeOK
  <1> SUFFICES ASSUME SpeechInit PROVE SpeechTypeOK
    OBVIOUS
  <1>1. Budgeted /\ Bounded /\ SpeechSets
    BY SpeechAssumption DEF SpeechInit, Budgeted, Bounded, SpeechSets
  <1> QED  BY <1>1, SpeechInitially, SpeechTyped

=============================================================================
