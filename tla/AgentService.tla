---------------------------- MODULE AgentService ----------------------------
(***************************************************************************)
(* ron/agent/service.py under ron/assistant.py: one turn at a time (the      *)
(* turn lock of the assistant) decides what a prompt means, asks for a       *)
(* confirmation, takes the answer to a question that a background task       *)
(* asked, repeats what succeeded last, and runs or queues a plan.  The       *)
(* task worker reports results from its own thread at any point of a turn,   *)
(* time passes at any point, a turn can be replaced at the points where it   *)
(* reports progress, and the process can restart between two turns.          *)
(***************************************************************************)
EXTENDS Integers

CONSTANTS MaxPlans, MaxTasks, MaxTurns, AgentHorizon, MaxRestarts,  \* bounds
          ConfirmWindow,   \* 90 seconds in the code
          ChoiceWindow     \* 120 seconds in the code

None == 0
Plans == 1..MaxPlans
Tasks == 1..MaxTasks

(* What a plan is for: a tool that runs at once, one whose specification     *)
(* asks for a confirmation, and spotify_play_track, which runs in the        *)
(* background and may have to ask which track is meant.                      *)
PlanKinds == {"direct", "guarded", "song"}
Prompts == PlanKinds \cup {"yes", "no", "choose", "again", "cancel task"}

ASSUME AgentAssumption ==
  /\ MaxPlans \in Nat /\ MaxTasks \in Nat /\ MaxTurns \in Nat /\ AgentHorizon \in Nat
  /\ MaxRestarts \in Nat /\ ConfirmWindow \in Nat /\ ChoiceWindow \in Nat

VARIABLES
  turn,            \* where the turn is, what was said, the slots it read, its plan
  confirmation,    \* _pending_confirmation: the plan and when it expires
  clarification,   \* _pending_clarification: the task and when it expires
  lastSuccessful,  \* _last_successful_plans
  submitted,       \* _submitted_plans
  kindOf,          \* the plans made so far
  taskPlan, taskStatus,
  reports,         \* results of tasks whose listener has not run yet
  said,            \* turns so far
  agentNow,
  restarts,
  offer, consents, guardedRuns, succeeded
                   \* history: the question the user has not answered yet, how often a
                   \* plan was agreed to and has run, and the plans that succeeded

slots == <<confirmation, clarification>>
tasks == <<taskPlan, taskStatus>>
history == <<offer, consents, guardedRuns, succeeded>>
agentVars == <<turn, slots, lastSuccessful, submitted, kindOf, tasks, reports, said,
               agentNow, restarts, history>>

Empty == [of |-> None, until |-> 0]
Quiet == [at |-> "idle", prompt |-> "no", ask |-> Empty, question |-> Empty,
          plan |-> None, confirmed |-> FALSE, answers |-> None]

Slots == [of : 0..(MaxPlans + MaxTasks),
          until : 0..(AgentHorizon + ConfirmWindow + ChoiceWindow)]
Turns == [at : {"idle", "claim", "decide", "respond", "read", "clear", "close", "execute",
                "submit", "remember", "run", "record"},
          prompt : Prompts, ask : Slots, question : Slots, plan : Plans \cup {None},
          confirmed : BOOLEAN, answers : Tasks \cup {None}]
Results == {"waiting", "completed", "failed", "cancelled", "resolved"}

AgentTypeOK ==
  /\ turn \in Turns
  /\ confirmation \in Slots /\ clarification \in Slots /\ offer \in Slots
  /\ lastSuccessful \in Plans \cup {None}
  /\ submitted \in [Tasks -> Plans \cup {None}]
  /\ kindOf \in [Plans -> PlanKinds \cup {"none"}]
  /\ taskPlan \in [Tasks -> Plans \cup {None}]
  /\ taskStatus \in [Tasks -> {"none", "queued"} \cup Results]
  /\ reports \subseteq Tasks \X Results
  /\ said \in 0..MaxTurns /\ agentNow \in 0..AgentHorizon /\ restarts \in 0..MaxRestarts
  /\ succeeded \subseteq Plans

AgentInit ==
  /\ turn = Quiet
  /\ confirmation = Empty /\ clarification = Empty
  /\ lastSuccessful = None
  /\ submitted = [t \in Tasks |-> None]
  /\ kindOf = [p \in Plans |-> "none"]
  /\ taskPlan = [t \in Tasks |-> None] /\ taskStatus = [t \in Tasks |-> "none"]
  /\ reports = {}
  /\ said = 0 /\ agentNow = 0 /\ restarts = 0
  /\ offer = Empty
  /\ consents = [p \in Plans |-> 0] /\ guardedRuns = [p \in Plans |-> 0]
  /\ succeeded = {}

Go(place) == turn' = [turn EXCEPT !.at = place]
EndOfTurn == turn' = Quiet

-----------------------------------------------------------------------------
\* Which part of Ron takes the prompt.

(* The user speaks or types.  To the user a "yes" means the question asked   *)
(* last, as long as its window lasts.                                        *)
Utter(p) ==
  /\ turn.at = "idle" /\ said < MaxTurns
  /\ turn' = [Quiet EXCEPT !.at = "claim", !.prompt = p]
  /\ said' = said + 1
  /\ consents' = IF p = "yes" /\ offer.of # None /\ agentNow < offer.until
                   THEN [consents EXCEPT ![offer.of] = @ + 1] ELSE consents
  /\ offer' = IF p \in {"yes", "no"} THEN Empty ELSE offer
  /\ UNCHANGED <<slots, lastSuccessful, submitted, kindOf, tasks, reports, agentNow,
                 restarts, guardedRuns, succeeded>>

\* Fault: the last moment of the window counts twice.
ExpiredLate(slot) == slot.of # None /\ slot.until < agentNow

Expired(slot) == slot.of # None /\ slot.until <= agentNow
ExpirePending ==
  /\ confirmation' = IF Expired(confirmation) THEN Empty ELSE confirmation
  /\ clarification' = IF Expired(clarification) THEN Empty ELSE clarification

Claim ==
  /\ turn.at = "claim"
  /\ ExpirePending
  /\ Go("decide")
  /\ UNCHANGED <<lastSuccessful, submitted, kindOf, tasks, reports, said, agentNow,
                 restarts, history>>

Claims == \/ confirmation.of # None /\ turn.prompt \in {"yes", "no"}
          \/ /\ confirmation.of = None /\ clarification.of # None
             /\ turn.prompt \in {"choose", "no"}

(* The router takes what the agent does not claim, to the chat or here.      *)
Decide ==
  /\ turn.at = "decide"
  /\ Go("respond") \/ (~Claims /\ EndOfTurn)
  /\ UNCHANGED <<slots, lastSuccessful, submitted, kindOf, tasks, reports, said,
                 agentNow, restarts, history>>

(* A newer request replaces the turn: progress reports raise.                *)
Replaced ==
  /\ turn.at \in {"execute", "submit", "run"}
  /\ EndOfTurn
  /\ UNCHANGED <<slots, lastSuccessful, submitted, kindOf, tasks, reports, said,
                 agentNow, restarts, history>>

-----------------------------------------------------------------------------
\* AgentService.respond

CloseTask(t, status) ==
  /\ taskStatus' = [taskStatus EXCEPT ![t] = status]
  /\ reports' = reports \cup {<<t, status>>}

Respond ==
  /\ turn.at = "respond"
  /\ ExpirePending
  /\ IF turn.prompt = "cancel task"
       THEN /\ EndOfTurn
            /\ \E t \in Tasks :
                 IF taskStatus[t] \in {"queued", "waiting"} THEN CloseTask(t, "cancelled")
                 ELSE UNCHANGED <<taskStatus, reports>>
       ELSE Go("read") /\ UNCHANGED <<taskStatus, reports>>
  /\ UNCHANGED <<lastSuccessful, submitted, kindOf, taskPlan, said, agentNow, restarts,
                 history>>

Use(p, confirmed) == turn' = [turn EXCEPT !.at = "execute", !.plan = p, !.confirmed = confirmed]

MakePlan(kind) ==
  \E p \in Plans :
    /\ kindOf[p] = "none" /\ \A q \in 1..(p - 1) : kindOf[q] # "none"
    /\ kindOf' = [kindOf EXCEPT ![p] = kind]
    /\ turn' = [turn EXCEPT !.at = "execute", !.plan = p, !.confirmed = FALSE]

(* The two slots are read under the lock and acted on after it.              *)
ReadPending ==
  /\ turn.at = "read"
  /\ LET answered == \/ confirmation.of # None /\ turn.prompt \in {"yes", "no"}
                     \/ clarification.of # None /\ turn.prompt \in {"no", "choose"}
     IN IF answered
          THEN /\ turn' = [turn EXCEPT !.at = "clear", !.ask = confirmation,
                                       !.question = clarification]
               /\ UNCHANGED kindOf
          ELSE CASE turn.prompt = "again" ->
                      /\ IF lastSuccessful = None THEN EndOfTurn ELSE Use(lastSuccessful, FALSE)
                      /\ UNCHANGED kindOf
                 [] turn.prompt \in PlanKinds -> MakePlan(turn.prompt)
                 [] OTHER -> EndOfTurn /\ UNCHANGED kindOf
  /\ UNCHANGED <<slots, lastSuccessful, submitted, tasks, reports, said, agentNow,
                 restarts, history>>

Clear ==
  /\ turn.at = "clear"
  /\ IF turn.ask.of # None /\ turn.prompt \in {"yes", "no"}
       THEN /\ confirmation' = Empty
            /\ IF turn.prompt = "no" THEN EndOfTurn ELSE Use(turn.ask.of, TRUE)
            /\ UNCHANGED <<clarification, kindOf>>
       ELSE /\ clarification' = Empty
            /\ UNCHANGED confirmation
            /\ \/ /\ turn.prompt = "no"
                  /\ turn' = [turn EXCEPT !.at = "close", !.answers = turn.question.of]
                  /\ UNCHANGED kindOf
               \/ /\ turn.prompt = "choose"
                  /\ \E p \in Plans :
                       /\ kindOf[p] = "none" /\ \A q \in 1..(p - 1) : kindOf[q] # "none"
                       /\ kindOf' = [kindOf EXCEPT ![p] = "song"]
                       /\ turn' = [turn EXCEPT !.at = "execute", !.plan = p,
                                               !.answers = turn.question.of]
  /\ UNCHANGED <<lastSuccessful, submitted, tasks, reports, said, agentNow, restarts,
                 history>>

Close ==
  /\ turn.at = "close"
  /\ IF taskStatus[turn.answers] = "waiting"
       THEN CloseTask(turn.answers, IF turn.prompt = "no" THEN "cancelled" ELSE "resolved")
       ELSE UNCHANGED <<taskStatus, reports>>
  /\ EndOfTurn
  /\ UNCHANGED <<slots, lastSuccessful, submitted, kindOf, taskPlan, said, agentNow,
                 restarts, history>>

-----------------------------------------------------------------------------
\* AgentService._execute_plans

(* The turn is over, except that an answered question is closed.             *)
Done == IF turn.answers # None THEN Go("close") ELSE EndOfTurn

NeedsConfirmation == kindOf[turn.plan] = "guarded" /\ ~turn.confirmed

Preflight ==
  /\ turn.at = "execute"
  /\ IF NeedsConfirmation
       THEN /\ confirmation' = [of |-> turn.plan, until |-> agentNow + ConfirmWindow]
            /\ offer' = confirmation'
            /\ Done
       ELSE /\ UNCHANGED <<confirmation, offer>>
            /\ \/ Go(IF kindOf[turn.plan] = "song" THEN "submit" ELSE "run")
               \/ Done        \* an unavailable tool or invalid arguments
  /\ UNCHANGED <<clarification, lastSuccessful, submitted, kindOf, tasks, reports, said,
                 agentNow, restarts, consents, guardedRuns, succeeded>>

Submit ==
  /\ turn.at = "submit"
  /\ \/ /\ Done           \* the queue is full
        /\ UNCHANGED tasks
     \/ \E t \in Tasks :
          /\ taskStatus[t] = "none" /\ \A u \in 1..(t - 1) : taskStatus[u] # "none"
          /\ taskStatus' = [taskStatus EXCEPT ![t] = "queued"]
          /\ taskPlan' = [taskPlan EXCEPT ![t] = turn.plan]
          /\ Go("remember")
  /\ UNCHANGED <<slots, lastSuccessful, submitted, kindOf, reports, said, agentNow,
                 restarts, history>>

(* The worker may have finished the task before its plan is remembered.      *)
Remember ==
  /\ turn.at = "remember"
  /\ LET t == CHOOSE u \in Tasks : taskPlan[u] = turn.plan /\ \A w \in Tasks :
                                     taskPlan[w] = turn.plan => w <= u
     IN submitted' = [submitted EXCEPT ![t] = turn.plan]
  /\ \/ Done
     \/ EndOfTurn         \* the report "Task t is queued" finds the turn replaced
  /\ UNCHANGED <<slots, lastSuccessful, kindOf, tasks, reports, said, agentNow, restarts,
                 history>>

Run ==
  /\ turn.at = "run"
  /\ guardedRuns' = IF kindOf[turn.plan] = "guarded"
                      THEN [guardedRuns EXCEPT ![turn.plan] = @ + 1] ELSE guardedRuns
  /\ \/ Go("record") /\ succeeded' = succeeded \cup {turn.plan}
     \/ Done /\ UNCHANGED succeeded
  /\ UNCHANGED <<slots, lastSuccessful, submitted, kindOf, tasks, reports, said, agentNow,
                 restarts, offer, consents>>

Record ==
  /\ turn.at = "record"
  /\ lastSuccessful' = turn.plan
  /\ Done
  /\ UNCHANGED <<slots, submitted, kindOf, tasks, reports, said, agentNow, restarts,
                 history>>

-----------------------------------------------------------------------------
\* The task worker, time, and a restart.

(* The worker runs the oldest queued task to its end, or until it asks.      *)
FinishTask(t, status) ==
  /\ taskStatus[t] = "queued" /\ \A u \in 1..(t - 1) : taskStatus[u] # "queued"
  /\ CloseTask(t, status)
  /\ succeeded' = IF status = "completed" THEN succeeded \cup {taskPlan[t]} ELSE succeeded
  /\ UNCHANGED <<turn, slots, lastSuccessful, submitted, kindOf, taskPlan, said, agentNow,
                 restarts, offer, consents, guardedRuns>>

Ask(t) == clarification' = [of |-> t, until |-> agentNow + ChoiceWindow]

\* Fault: any result of a task counts as a success.
SuccessOfAny(t, status) == IF submitted[t] # None THEN submitted[t] ELSE lastSuccessful

SuccessOf(t, status) ==
  IF status = "completed" /\ submitted[t] # None THEN submitted[t] ELSE lastSuccessful

CaptureTaskResult(t, status) ==
  /\ <<t, status>> \in reports
  /\ reports' = reports \ {<<t, status>>}
  /\ submitted' = [submitted EXCEPT ![t] = None]
  /\ lastSuccessful' = SuccessOf(t, status)
  /\ IF status = "waiting" THEN Ask(t) ELSE UNCHANGED clarification
  /\ UNCHANGED <<turn, confirmation, kindOf, tasks, said, agentNow, restarts, history>>

AgentTick ==
  /\ agentNow < AgentHorizon
  /\ agentNow' = agentNow + 1
  /\ UNCHANGED <<turn, slots, lastSuccessful, submitted, kindOf, tasks, reports, said,
                 restarts, history>>

(* A restart keeps the journal: what was queued is interrupted, and the      *)
(* newest task that waits for an answer can be answered again.               *)
Restart ==
  /\ restarts < MaxRestarts
  /\ restarts' = restarts + 1
  /\ LET waiting == {t \in Tasks : taskStatus[t] = "waiting"}
     IN IF waiting = {} THEN clarification' = Empty
        ELSE Ask(CHOOSE t \in waiting : \A u \in waiting : u <= t)
  /\ turn' = Quiet
  /\ confirmation' = Empty /\ offer' = Empty /\ lastSuccessful' = None
  /\ submitted' = [t \in Tasks |-> None] /\ reports' = {}
  /\ taskStatus' = [t \in Tasks |-> IF taskStatus[t] = "queued" THEN "failed" ELSE taskStatus[t]]
  /\ UNCHANGED <<kindOf, taskPlan, said, agentNow, consents, guardedRuns,
                 succeeded>>

AgentNext ==
  \/ \E p \in Prompts : Utter(p)
  \/ Claim \/ Decide \/ Respond \/ ReadPending \/ Clear \/ Close \/ Replaced
  \/ Preflight \/ Submit \/ Remember \/ Run \/ Record
  \/ \E t \in Tasks :
       \/ \E status \in {"completed", "failed", "waiting"} : FinishTask(t, status)
       \/ \E status \in Results :
            CaptureTaskResult(t, status)
  \/ AgentTick \/ Restart

AgentSpec == AgentInit /\ [][AgentNext]_agentVars

-----------------------------------------------------------------------------
(* However turns, expiry and the worker interleave, a plan that needs a      *)
(* confirmation runs at most once for each "yes" the user gave while that    *)
(* very plan was on offer and its 90 seconds lasted.                         *)
OneRunPerConsent == \A p \in Plans : guardedRuns[p] <= consents[p]

(* What "do that again" repeats is a plan that has succeeded, also when      *)
(* the result of a task arrives before its plan is remembered.               *)
RepeatsASuccess == lastSuccessful # None => lastSuccessful \in succeeded
=============================================================================
