---------------------------- MODULE SpotifyClient ----------------------------
(***************************************************************************)
(* The Spotify client (integrations/spotify/client.py) as two tools use it   *)
(* at once: playback control in the conversation turn, and playing a track   *)
(* in the background worker (agent/tools/spotify.py).  Both read and         *)
(* refresh the one token file (storage.py) without a lock; a save empties    *)
(* the file and then writes it.  A request is retried once after a 401 with  *)
(* a fresh token and once after a 429; every other failure ends the call.    *)
(* A process that dies in a save leaves the file as a failing write does.    *)
(*                                                                           *)
(* The service is external.  It accepts its newest refresh token only,       *)
(* replaces it at every refresh or never, numbers the tokens it issues,      *)
(* and carries out a command whose answer may then get lost.                 *)
(***************************************************************************)
EXTENDS Naturals

CONSTANTS MaxIssues,       \* bound: tokens the service issues
          MaxExpiries,     \* bound: access tokens expire or are revoked
          MaxCommands,     \* bound: calls of each tool
          DevicePolls      \* looks for a playback device after opening Spotify

ASSUME SpotifyAssumption ==
    MaxIssues \in Nat \ {0} /\ MaxExpiries \in Nat /\ MaxCommands \in Nat /\ DevicePolls \in Nat

Tools == {"control", "player"}
TokenNumbers == 1..MaxIssues
TokenPair == [access : TokenNumbers, refresh : TokenNumbers]
Changes == {"play", "command"}       \* the requests that change what plays

VARIABLES
    tokenFile,     \* the stored tokens, or Blank: nothing that load accepts
    service,       \* external: the refresh token it accepts, whether it rotates,
                   \*   the tokens issued, and how many of them have expired
    call,          \* tool -> the call in progress
    executed,      \* tool -> how often the service carried out its command
    losses,        \* history: what cost the file its refresh token: an answer that
                   \*   was lost, a save that failed, or two saves that got mixed
    expiries

spotifyVars == <<tokenFile, service, call, executed, losses, expiries>>

Blank == [access |-> 0, refresh |-> 0]

NoCall == [at |-> "free", request |-> "command", token |-> [access |-> 1, refresh |-> 1],
           retryAuth |-> TRUE, retryRate |-> TRUE, resume |-> "send",
           polls |-> 0, calls |-> 0, ended |-> "none"]

CallRecord == [at : {"free", "load", "send", "renew", "exchange", "save", "write"},
               request : {"search", "devices"} \cup Changes,
               token : TokenPair, retryAuth : BOOLEAN, retryRate : BOOLEAN,
               resume : {"send", "load"}, polls : 0..DevicePolls, calls : 0..MaxCommands,
               ended : {"none", "success", "failed"}]

SpotifyTypeOK ==
    /\ tokenFile \in TokenPair \cup {Blank}
    /\ service \in [refresh : TokenNumbers, rotates : BOOLEAN, issued : TokenNumbers,
                    expired : 0..MaxIssues]
    /\ call \in [Tools -> CallRecord]
    /\ executed \in [Tools -> Nat]
    /\ losses \subseteq {"answer", "save", "mixed"}
    /\ expiries \in 0..MaxExpiries

SpotifyInit ==
    /\ tokenFile = NoCall.token
    /\ service \in [refresh : {1}, rotates : BOOLEAN, issued : {1}, expired : {0}]
    /\ call = [t \in Tools |-> NoCall]
    /\ executed = [t \in Tools |-> 0]
    /\ losses = {}
    /\ expiries = 0

Carries(t, at, token) == call' = [call EXCEPT ![t] = [@ EXCEPT !.at = at, !.token = token]]
Renews(t, resume) == call' = [call EXCEPT ![t] = [@ EXCEPT !.at = "renew", !.resume = resume]]
Ends(t, how) == call' = [call EXCEPT ![t] = [@ EXCEPT !.at = "free", !.ended = how]]

(* _api_json for the next request of the call, both retries ahead of it.     *)
Asks(t, request) ==
    call' = [call EXCEPT ![t] = [@ EXCEPT !.at = "load", !.request = request,
                                          !.retryAuth = TRUE, !.retryRate = TRUE]]

(* Time passes, or Spotify revokes the access tokens issued so far.          *)
AccessExpires ==
    /\ expiries < MaxExpiries
    /\ expiries' = expiries + 1
    /\ service' = [service EXCEPT !.expired = service.issued]
    /\ UNCHANGED <<tokenFile, call, executed, losses>>

CallTool(t) ==
    /\ call[t].at = "free" /\ call[t].calls < MaxCommands
    /\ call' = [call EXCEPT ![t] =
                 [NoCall EXCEPT !.at = "load", !.calls = call[t].calls + 1,
                                !.request = IF t = "player" THEN "search" ELSE "command"]]
    /\ executed' = [executed EXCEPT ![t] = 0]
    /\ UNCHANGED <<tokenFile, service, losses, expiries>>

(* A checkpoint of a cancelled or overdue call.                              *)
Checkpoint(t) ==
    /\ call[t].at = "load"
    /\ Ends(t, "failed")
    /\ UNCHANGED <<tokenFile, service, executed, losses, expiries>>

(* _access_token: the clock sees an expiry, not a revocation.                *)
LoadToken(t) ==
    /\ call[t].at = "load"
    /\ \/ tokenFile # Blank /\ Carries(t, "send", tokenFile)
       \/ /\ tokenFile # Blank /\ tokenFile.access <= service.expired
          /\ Renews(t, "send")
       \/ tokenFile = Blank /\ Ends(t, "failed")
    /\ UNCHANGED <<tokenFile, service, executed, losses, expiries>>

(***************************************************************************)
(* _refresh_access_token: read the file, exchange its refresh token, save    *)
(* the answer, which keeps the old refresh token when it names no other.     *)
(***************************************************************************)
ReadRefreshToken(t) ==
    /\ call[t].at = "renew"
    /\ \/ tokenFile # Blank /\ Carries(t, "exchange", tokenFile)
       \/ tokenFile = Blank /\ Ends(t, "failed")
    /\ UNCHANGED <<tokenFile, service, executed, losses, expiries>>

Issued(old) ==
    LET number == service.issued + 1
    IN [access |-> number, refresh |-> IF service.rotates THEN number ELSE old.refresh]

Costs(what, theToken) == losses' = IF theToken THEN losses \cup {what} ELSE losses

ExchangeToken(t) ==
    /\ call[t].at = "exchange"
    /\ LET old == call[t].token
           answer == Issued(old)
           accepted == old.refresh = service.refresh /\ service.issued < MaxIssues
       IN \/ /\ accepted
             /\ service' = [service EXCEPT !.issued = @ + 1, !.refresh = answer.refresh]
             /\ Carries(t, "save", answer)
             /\ UNCHANGED losses
          \/ /\ accepted                       \* the answer does not arrive
             /\ service' = [service EXCEPT !.issued = @ + 1, !.refresh = answer.refresh]
             /\ Ends(t, "failed")
             /\ Costs("answer", service.rotates)
          \/ /\ Ends(t, "failed")              \* rejected, or never reached
             /\ UNCHANGED <<service, losses>>
    /\ UNCHANGED <<tokenFile, executed, expiries>>

(* save: to open the file for writing empties it; it may fail before that.   *)
EmptyFile(t) ==
    /\ call[t].at = "save"
    /\ \/ /\ tokenFile' = Blank
          /\ call' = [call EXCEPT ![t] = [@ EXCEPT !.at = "write"]]
          /\ UNCHANGED losses
       \/ /\ Ends(t, "failed")
          /\ Costs("save", service.rotates)
          /\ UNCHANGED tokenFile
    /\ UNCHANGED <<service, executed, expiries>>

(* Over what another save has written meanwhile, the token leaves a rest of  *)
(* it if it is the shorter.  A write that fails leaves a part, or nothing.    *)
(* A call that found its token expired goes on; one answered 401 is sent     *)
(* again from the start.                                                     *)
SaveToken(t) ==
    /\ call[t].at = "write"
    /\ \/ /\ tokenFile' = call[t].token
          /\ call' = [call EXCEPT ![t] = [@ EXCEPT !.at = call[t].resume]]
          /\ UNCHANGED losses
       \/ /\ tokenFile # Blank
          /\ tokenFile' = Blank
          /\ call' = [call EXCEPT ![t] = [@ EXCEPT !.at = call[t].resume]]
          /\ Costs("mixed", TRUE)
       \/ /\ tokenFile' \in {tokenFile, Blank}
          /\ Ends(t, "failed")
          /\ Costs("save", TRUE)
    /\ UNCHANGED <<service, executed, expiries>>

(***************************************************************************)
(* The request and what its answer leads to.                                 *)
(***************************************************************************)
Accepted(t) == call[t].token.access > service.expired

Executes(t) ==
    executed' = IF call[t].request \in Changes
                THEN [executed EXCEPT ![t] = @ + 1] ELSE executed

(* search_tracks, play_track and its look for a device, control_playback.    *)
Continue(t) ==
    CASE call[t].request = "search"  -> Asks(t, "devices") \/ Ends(t, "failed")
      [] call[t].request = "devices" ->
           \/ Asks(t, "play")
           \/ /\ call[t].polls < DevicePolls
              /\ call' = [call EXCEPT ![t] = [@ EXCEPT !.at = "load", !.retryAuth = TRUE,
                                                       !.retryRate = TRUE,
                                                       !.polls = call[t].polls + 1]]
           \/ call[t].polls = DevicePolls /\ Ends(t, "failed")
      [] OTHER -> Ends(t, "success")

AnswerOK(t) ==
    /\ call[t].at = "send" /\ Accepted(t)
    /\ Executes(t)
    /\ Continue(t)
    /\ UNCHANGED <<tokenFile, service, losses, expiries>>

(* 401: once more with a fresh token.                                        *)
AnswerUnauthorised(t) ==
    /\ call[t].at = "send" /\ ~Accepted(t)
    /\ \/ /\ call[t].retryAuth
          /\ call' = [call EXCEPT ![t] = [@ EXCEPT !.at = "renew", !.resume = "load",
                                                     !.retryAuth = FALSE]]
       \/ ~call[t].retryAuth /\ Ends(t, "failed")
    /\ UNCHANGED <<tokenFile, service, executed, losses, expiries>>

(* 429: once more after the delay Spotify asks for.                          *)
AnswerTooMany(t) ==
    /\ call[t].at = "send" /\ Accepted(t)
    /\ \/ /\ call[t].retryRate
          /\ call' = [call EXCEPT ![t] = [@ EXCEPT !.at = "load", !.retryRate = FALSE]]
       \/ ~call[t].retryRate /\ Ends(t, "failed")
    /\ UNCHANGED <<tokenFile, service, executed, losses, expiries>>

(* Fault: a lost answer that is taken for a busy service.                   *)
AnswerLostRetried(t) ==
    /\ call[t].at = "send" /\ Accepted(t)
    /\ Executes(t)
    /\ \/ /\ call[t].retryRate
          /\ call' = [call EXCEPT ![t] = [@ EXCEPT !.at = "load", !.retryRate = FALSE]]
       \/ ~call[t].retryRate /\ Ends(t, "failed")
    /\ UNCHANGED <<tokenFile, service, losses, expiries>>

(* Offline, timed out or an unreadable answer, before or after the service   *)
(* acted; or another rejection.                                              *)
AnswerLost(t) ==
    /\ call[t].at = "send"
    /\ \/ Accepted(t) /\ Executes(t)
       \/ UNCHANGED executed
    /\ Ends(t, "failed")
    /\ UNCHANGED <<tokenFile, service, losses, expiries>>

SpotifyNext ==
    \/ AccessExpires
    \/ \E t \in Tools :
         \/ CallTool(t) \/ Checkpoint(t) \/ LoadToken(t)
         \/ ReadRefreshToken(t) \/ ExchangeToken(t) \/ EmptyFile(t) \/ SaveToken(t)
         \/ AnswerOK(t) \/ AnswerUnauthorised(t) \/ AnswerTooMany(t) \/ AnswerLost(t)

SpotifySpec == SpotifyInit /\ [][SpotifyNext]_spotifyVars

SavesToken(t) == call[t].at \in {"save", "write"}

SignedIn ==
    \/ tokenFile.refresh = service.refresh
    \/ \E t \in Tools : SavesToken(t) /\ call[t].token.refresh = service.refresh

(***************************************************************************)
(* However requests are retried, one call changes what plays at most once,   *)
(* and exactly once when it reports success (client.py _api_json).  And the  *)
(* refresh token the service accepts is in the file or in a save, unless an  *)
(* answer or a save failed that carried it: if the service replaces its      *)
(* refresh token, two calls that refresh at once cost Ron nothing, since the *)
(* second is refused.  If it never does, both are answered, and their saves  *)
(* can mix: there is no lock, and storage.py replaces the file in place      *)
(* (client.py _refresh_access_token).                                        *)
(***************************************************************************)
OnceAndStillSignedIn ==
    /\ \A t \in Tools :
         /\ executed[t] <= 1
         /\ call[t].ended = "success" => executed[t] = 1
    /\ SignedIn \/ losses # {}
    /\ service.rotates => "mixed" \notin losses
=============================================================================
