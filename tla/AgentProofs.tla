---------------------------- MODULE AgentProofs ----------------------------
(***************************************************************************)
(* Theorems about the two parts of the agent that turn a prompt into a     *)
(* task: AgentService, for any number of plans, tasks, turns and restarts  *)
(* and any two windows; and PromptPlanning, for any set of prompts and of  *)
(* deeds, any size and age limit of the context and any number of prepared *)
(* plans.                                                                  *)
(***************************************************************************)
EXTENDS AgentService, PromptPlanning, FiniteSetTheorems, SequenceTheorems, TLAPS

(***************************************************************************)
(* AgentService: confirmations, clarifications and repeated requests.      *)
(***************************************************************************)

\* A slot holds what belongs into it, and a turn in its later places has what
\* it needs there.
PlacesInv ==
  /\ confirmation.of \in Plans \cup {None} /\ offer.of \in Plans \cup {None}
  /\ turn.ask.of \in Plans \cup {None}
  /\ clarification.of \in Tasks \cup {None} /\ turn.question.of \in Tasks \cup {None}
  /\ consents \in [Plans -> Nat] /\ guardedRuns \in [Plans -> Nat]
  /\ turn.at \in {"execute", "submit", "remember", "run", "record"} => turn.plan \in Plans
  /\ turn.at = "clear" =>
       /\ turn.ask = confirmation
       /\ \/ turn.prompt \in {"yes", "no"} /\ turn.ask.of # None
          \/ turn.prompt \in {"no", "choose"} /\ turn.question.of # None
  /\ turn.at = "close" => turn.answers \in Tasks

\* A "yes" that has not been used yet.
Left(p) == p \in Plans /\ guardedRuns[p] < consents[p]

Early == {"claim", "decide", "respond", "read", "clear"}

\* The plan that waits for a confirmation is the one the user was asked about,
\* until the turn of a "yes" or "no" has taken it out; and from the moment of a
\* "yes" in time to the run of that plan, that "yes" has not been used.
ConsentInv ==
  /\ \A p \in Plans : guardedRuns[p] <= consents[p]
  /\ confirmation.of # None =>
       confirmation = offer \/ (turn.prompt \in {"yes", "no"} /\ turn.at \in Early)
  /\ turn.prompt = "yes" =>
       /\ turn.at = "claim" /\ confirmation.of # None /\ agentNow < confirmation.until =>
            Left(confirmation.of)
       /\ turn.at \in Early \ {"claim"} /\ confirmation.of # None => Left(confirmation.of)
  /\ turn.at \in Early => ~turn.confirmed
  /\ turn.at \in {"execute", "run"} /\ turn.confirmed => Left(turn.plan)
  /\ turn.at = "run" /\ kindOf[turn.plan] = "guarded" => turn.confirmed

\* Tasks are used in their order; the plan remembered for a task is its plan;
\* and a report of a completed task is about a plan that has succeeded.
RepeatInv ==
  /\ RepeatsASuccess
  /\ turn.at = "record" => turn.plan \in succeeded
  /\ \A t \in Tasks :
       /\ submitted[t] # None => submitted[t] = taskPlan[t]
       /\ taskStatus[t] = "none" <=> taskPlan[t] = None
       /\ taskStatus[t] = "none" => \A u \in (t + 1)..MaxTasks : taskStatus[u] = "none"
       /\ <<t, "completed">> \in reports => taskPlan[t] \in succeeded
  /\ \A r \in reports : taskStatus[r[1]] # "none"
  /\ turn.at = "remember" =>
       \E t \in Tasks : taskPlan[t] = turn.plan /\
                        \A u \in Tasks : taskPlan[u] = turn.plan => u <= t

AgentInv == AgentTypeOK /\ PlacesInv /\ ConsentInv /\ RepeatInv

-----------------------------------------------------------------------------
\* What a step to another place leaves of the turn.
Moved(place) ==
  /\ turn' \in Turns /\ turn'.at = place
  /\ turn'.prompt = turn.prompt /\ turn'.ask = turn.ask /\ turn'.question = turn.question
  /\ turn'.plan = turn.plan /\ turn'.confirmed = turn.confirmed /\ turn'.answers = turn.answers

LEMMA GoFields ==
  ASSUME AgentTypeOK,
         NEW place \in Early \cup {"idle", "close", "execute", "submit", "remember", "run",
                                   "record"},
         Go(place)
  PROVE  Moved(place)
BY DEF AgentTypeOK, Turns, Go, Early, Moved

\* The fields of a turn that is over.
LEMMA QuietFields ==
  /\ AgentAssumption => Quiet \in Turns /\ Empty \in Slots
  /\ Empty.of = None /\ Empty.until = 0
  /\ Quiet.at = "idle" /\ Quiet.prompt = "no" /\ ~Quiet.confirmed
  /\ Quiet.ask = Empty /\ Quiet.question = Empty
BY AgentAssumption DEF AgentAssumption, Quiet, Turns, Slots, Empty, None, Prompts

\* The two pending slots keep what they hold or lose what has expired.
LEMMA SlotsExpire ==
  ASSUME AgentTypeOK, ExpirePending
  PROVE  /\ confirmation' \in Slots /\ clarification' \in Slots
         /\ confirmation' \in {confirmation, Empty} /\ clarification' \in {clarification, Empty}
         /\ confirmation'.of # None => agentNow < confirmation'.until
BY AgentAssumption, QuietFields DEF AgentTypeOK, AgentAssumption, ExpirePending, Expired, Slots, None

\* A turn that moves to a place where it holds nothing more, or that is over.
Leaves == \/ turn' = Quiet
          \/ Moved("close") /\ turn.answers # None

LEMMA DoneLeaves == ASSUME AgentTypeOK, Done PROVE Leaves
<1>1. CASE turn.answers # None
  <2>1. Go("close")
    BY <1>1 DEF Done
  <2>2. Moved("close")
    BY <2>1, GoFields
  <2> QED BY <1>1, <2>2 DEF Leaves
<1>2. CASE turn.answers = None
  BY <1>2 DEF Done, EndOfTurn, Leaves
<1> QED BY <1>1, <1>2

LEMMA LeavesFields ==
  ASSUME AgentTypeOK, Leaves
  PROVE  /\ turn' \in Turns /\ turn'.at \in {"idle", "close"}
         /\ turn'.ask \in {turn.ask, Empty} /\ turn'.question \in {turn.question, Empty}
         /\ turn'.at = "close" => turn'.answers \in Tasks
BY AgentAssumption, QuietFields DEF Leaves, Moved, AgentTypeOK, Turns

LEMMA UtterStep == ASSUME AgentInv, NEW p \in Prompts, Utter(p) PROVE AgentInv'
<1> USE DEF AgentInv
<1>1. /\ turn.at = "idle" /\ said' = said + 1 /\ said < MaxTurns
      /\ consents' = IF p = "yes" /\ offer.of # None /\ agentNow < offer.until
                       THEN [consents EXCEPT ![offer.of] = @ + 1] ELSE consents
      /\ offer' = IF p \in {"yes", "no"} THEN Empty ELSE offer
      /\ UNCHANGED <<slots, lastSuccessful, submitted, kindOf, tasks, reports, agentNow,
                     restarts, guardedRuns, succeeded>>
  BY DEF Utter
<1> USE <1>1 DEF slots, tasks
<1>2. /\ turn' \in Turns /\ turn'.at = "claim" /\ turn'.prompt = p
      /\ turn'.ask = Empty /\ turn'.question = Empty /\ ~turn'.confirmed
  BY AgentAssumption, QuietFields DEF Utter, Quiet, Turns, AgentAssumption
<1>3. AgentTypeOK'
  BY <1>2, QuietFields, AgentAssumption DEF AgentTypeOK, AgentAssumption
<1>4. PlacesInv'
  <2>1. consents' \in [Plans -> Nat]
    BY DEF PlacesInv
  <2> QED BY <1>2, <2>1, QuietFields DEF PlacesInv
<1>5. ConsentInv'
  <2>1. \A q \in Plans : consents'[q] >= consents[q] /\ guardedRuns[q] <= consents'[q]
    BY DEF PlacesInv, ConsentInv
  <2>2. confirmation.of # None => confirmation = offer
    BY DEF ConsentInv, Early
  <2>3. p = "yes" /\ confirmation.of # None /\ agentNow < confirmation.until =>
          confirmation.of \in Plans /\ guardedRuns[confirmation.of] < consents'[confirmation.of]
    BY <2>2 DEF PlacesInv, ConsentInv
  <2> QED BY <1>2, <2>1, <2>2, <2>3 DEF ConsentInv, Left, Early
<1>6. RepeatInv'
  BY <1>2 DEF RepeatInv, RepeatsASuccess
<1> QED BY <1>3, <1>4, <1>5, <1>6

LEMMA ClaimStep == ASSUME AgentInv, Claim PROVE AgentInv'
<1> USE DEF AgentInv
<1>1. /\ Go("decide") /\ ExpirePending /\ turn.at = "claim"
      /\ UNCHANGED <<lastSuccessful, submitted, kindOf, tasks, reports, said, agentNow,
                     restarts, history>>
  BY DEF Claim
<1> USE <1>1 DEF tasks, history
<1>2. Moved("decide")
  BY GoFields DEF Early
<1>3. /\ confirmation' \in Slots /\ clarification' \in Slots
      /\ confirmation' \in {confirmation, Empty} /\ clarification' \in {clarification, Empty}
      /\ confirmation'.of # None => agentNow < confirmation'.until
  BY SlotsExpire
<1>4. AgentTypeOK'
  BY <1>2, <1>3 DEF AgentTypeOK, Moved
<1>5. PlacesInv'
  BY <1>2, <1>3, QuietFields DEF PlacesInv, Moved
<1>6. ConsentInv'
  BY <1>2, <1>3, QuietFields DEF ConsentInv, Left, Early, Moved
<1>7. RepeatInv'
  BY <1>2 DEF RepeatInv, RepeatsASuccess, Moved
<1> QED BY <1>4, <1>5, <1>6, <1>7

LEMMA DecideStep == ASSUME AgentInv, Decide PROVE AgentInv'
<1> USE DEF AgentInv
<1>1. /\ turn.at = "decide"
      /\ UNCHANGED <<slots, lastSuccessful, submitted, kindOf, tasks, reports, said, agentNow,
                     restarts, history>>
  BY DEF Decide
<1> USE <1>1 DEF slots, tasks, history
<1>2. Moved("respond") \/ (turn' = Quiet /\ ~Claims)
  BY GoFields DEF Early, Decide, EndOfTurn
<1>3. AgentTypeOK'
  BY <1>2, QuietFields, AgentAssumption DEF AgentTypeOK, Moved
<1>4. PlacesInv'
  BY <1>2, QuietFields DEF PlacesInv, Moved
<1>5. ConsentInv'
  BY <1>2, QuietFields DEF ConsentInv, Left, Early, Moved, Claims
<1>6. RepeatInv'
  BY <1>2, QuietFields DEF RepeatInv, RepeatsASuccess, Moved
<1> QED BY <1>3, <1>4, <1>5, <1>6

LEMMA ReplacedStep == ASSUME AgentInv, Replaced PROVE AgentInv'
<1> USE DEF AgentInv
<1>1. /\ turn.at \in {"execute", "submit", "run"} /\ turn' = Quiet
      /\ UNCHANGED <<slots, lastSuccessful, submitted, kindOf, tasks, reports, said, agentNow,
                     restarts, history>>
  BY DEF Replaced, EndOfTurn
<1> USE <1>1, QuietFields, AgentAssumption DEF slots, tasks, history
<1>2. AgentTypeOK'
  BY DEF AgentTypeOK
<1>3. PlacesInv'
  BY DEF PlacesInv
<1>4. ConsentInv'
  BY DEF ConsentInv, Left, Early
<1>5. RepeatInv'
  BY DEF RepeatInv, RepeatsASuccess
<1> QED BY <1>2, <1>3, <1>4, <1>5

\* A task that is closed, with its report.
LEMMA CloseTaskInv ==
  ASSUME AgentTypeOK, RepeatInv, NEW t \in Tasks, NEW s \in Results, CloseTask(t, s),
         taskStatus[t] # "none", s = "completed" => taskPlan[t] \in succeeded',
         succeeded \subseteq succeeded', UNCHANGED <<taskPlan, submitted>>
  PROVE  /\ taskStatus' \in [Tasks -> {"none", "queued"} \cup Results]
         /\ reports' \subseteq Tasks \X Results
         /\ \A u \in Tasks :
              /\ submitted'[u] # None => submitted'[u] = taskPlan'[u]
              /\ taskStatus'[u] = "none" <=> taskPlan'[u] = None
              /\ taskStatus'[u] = "none" => \A w \in (u + 1)..MaxTasks : taskStatus'[w] = "none"
              /\ <<u, "completed">> \in reports' => taskPlan'[u] \in succeeded'
         /\ \A r \in reports' : taskStatus'[r[1]] # "none"
<1>1. taskStatus' = [taskStatus EXCEPT ![t] = s] /\ reports' = reports \cup {<<t, s>>}
  BY DEF CloseTask
<1>2. taskStatus' \in [Tasks -> {"none", "queued"} \cup Results]
  BY <1>1 DEF AgentTypeOK
<1>3. reports' \subseteq Tasks \X Results
  BY <1>1 DEF AgentTypeOK
<1>4. \A u \in Tasks : taskStatus'[u] = "none" <=> taskStatus[u] = "none"
  BY <1>1 DEF AgentTypeOK, Results
<1>5. \A r \in reports' : taskStatus'[r[1]] # "none"
  BY <1>1, <1>3, <1>4 DEF AgentTypeOK, RepeatInv
<1>6. ASSUME NEW u \in Tasks, <<u, "completed">> \in reports' PROVE taskPlan'[u] \in succeeded'
  BY <1>1, <1>6 DEF RepeatInv
<1>7. ASSUME NEW u \in Tasks, taskStatus'[u] = "none", NEW w \in (u + 1)..MaxTasks
      PROVE  taskStatus'[w] = "none"
  <2>1. w \in Tasks
    BY AgentAssumption DEF AgentAssumption, Tasks
  <2> QED BY <1>4, <1>7, <2>1 DEF RepeatInv
<1> QED BY <1>2, <1>3, <1>4, <1>5, <1>6, <1>7 DEF RepeatInv

LEMMA RespondStep == ASSUME AgentInv, Respond PROVE AgentInv'
<1> USE DEF AgentInv
<1>1. /\ turn.at = "respond" /\ ExpirePending
      /\ UNCHANGED <<lastSuccessful, submitted, kindOf, taskPlan, said, agentNow, restarts,
                     history>>
  BY DEF Respond
<1> USE <1>1 DEF history
<1>2. (turn' = Quiet /\ turn.prompt = "cancel task") \/ Moved("read")
  BY GoFields DEF Early, Respond, EndOfTurn
<1>3. /\ confirmation' \in Slots /\ clarification' \in Slots
      /\ confirmation' \in {confirmation, Empty} /\ clarification' \in {clarification, Empty}
  BY SlotsExpire
<1>4. \/ UNCHANGED <<taskStatus, reports>>
      \/ \E t \in Tasks : taskStatus[t] # "none" /\ CloseTask(t, "cancelled")
  BY DEF Respond
<1>5. AgentTypeOK' /\ RepeatInv'
  <2>1. CASE UNCHANGED <<taskStatus, reports>>
    <3>1. AgentTypeOK'
      BY <2>1, <1>2, <1>3, QuietFields, AgentAssumption DEF AgentTypeOK, Moved
    <3>2. RepeatInv'
      BY <2>1, <1>2, QuietFields DEF RepeatInv, RepeatsASuccess, Moved
    <3> QED BY <3>1, <3>2
  <2>2. ASSUME NEW t \in Tasks, taskStatus[t] # "none", CloseTask(t, "cancelled")
        PROVE  AgentTypeOK' /\ RepeatInv'
    <3>1. /\ taskStatus' \in [Tasks -> {"none", "queued"} \cup Results]
          /\ reports' \subseteq Tasks \X Results
          /\ \A u \in Tasks :
               /\ submitted'[u] # None => submitted'[u] = taskPlan'[u]
               /\ taskStatus'[u] = "none" <=> taskPlan'[u] = None
               /\ taskStatus'[u] = "none" =>
                    \A w \in (u + 1)..MaxTasks : taskStatus'[w] = "none"
               /\ <<u, "completed">> \in reports' => taskPlan'[u] \in succeeded'
          /\ \A r \in reports' : taskStatus'[r[1]] # "none"
      <4>1. "cancelled" \in Results
        BY DEF Results
      <4> QED BY <2>2, <4>1, CloseTaskInv
    <3>2. AgentTypeOK'
      BY <3>1, <1>2, <1>3, QuietFields, AgentAssumption DEF AgentTypeOK, Moved
    <3>3. RepeatInv'
      BY <3>1, <1>2, QuietFields DEF RepeatInv, RepeatsASuccess, Moved
    <3> QED BY <3>2, <3>3
  <2> QED BY <1>4, <2>1, <2>2
<1>6. PlacesInv'
  BY <1>2, <1>3, QuietFields DEF PlacesInv, Moved
<1>7. ConsentInv'
  BY <1>2, <1>3, QuietFields DEF ConsentInv, Left, Early, Moved
<1> QED BY <1>5, <1>6, <1>7

LEMMA UseFields ==
  ASSUME AgentTypeOK, NEW p \in Plans, NEW b \in BOOLEAN, Use(p, b)
  PROVE  /\ turn' \in Turns /\ turn'.at = "execute" /\ turn'.plan = p /\ turn'.confirmed = b
         /\ turn'.prompt = turn.prompt /\ turn'.ask = turn.ask
         /\ turn'.question = turn.question /\ turn'.answers = turn.answers
BY DEF AgentTypeOK, Turns, Use

LEMMA ReadPendingStep == ASSUME AgentInv, ReadPending PROVE AgentInv'
<1> USE DEF AgentInv
<1>1. /\ turn.at = "read"
      /\ UNCHANGED <<slots, lastSuccessful, submitted, tasks, reports, said, agentNow,
                     restarts, history>>
  BY DEF ReadPending
<1> USE <1>1 DEF slots, tasks, history
<1> DEFINE answered == \/ confirmation.of # None /\ turn.prompt \in {"yes", "no"}
                       \/ clarification.of # None /\ turn.prompt \in {"no", "choose"}
<1>2. CASE answered
  <2>1. UNCHANGED kindOf
    BY <1>2 DEF ReadPending
  <2>2. /\ turn' \in Turns /\ turn'.at = "clear" /\ turn'.ask = confirmation
        /\ turn'.question = clarification /\ turn'.prompt = turn.prompt
        /\ turn'.confirmed = turn.confirmed
    BY <1>2, ZenonT(40) DEF ReadPending, AgentTypeOK, Turns
  <2> QED BY <1>2, <2>1, <2>2 DEF AgentTypeOK, PlacesInv, ConsentInv, RepeatInv, RepeatsASuccess,
             Left, Early
<1>3. CASE ~answered
  <2>1. /\ kindOf' \in [Plans -> PlanKinds \cup {"none"}]
        /\ \/ turn' = Quiet
           \/ /\ turn' \in Turns /\ turn'.at = "execute" /\ turn'.plan \in Plans
              /\ ~turn'.confirmed /\ turn'.prompt \notin {"yes", "no"}
              /\ turn'.ask = turn.ask /\ turn'.question = turn.question
    <3>1. CASE turn.prompt = "again"
      BY <1>3, <3>1, UseFields DEF ReadPending, EndOfTurn, AgentTypeOK, PlanKinds
    <3>2. CASE turn.prompt \in PlanKinds
      <4>1. PICK p \in Plans : /\ kindOf' = [kindOf EXCEPT ![p] = turn.prompt]
                               /\ turn' = [turn EXCEPT !.at = "execute", !.plan = p,
                                                       !.confirmed = FALSE]
        BY <1>3, <3>2 DEF ReadPending, MakePlan, PlanKinds
      <4> QED BY <3>2, <4>1 DEF AgentTypeOK, Turns, PlanKinds
    <3>3. CASE turn.prompt \notin PlanKinds \cup {"again"}
      BY <1>3, <3>3 DEF ReadPending, EndOfTurn, AgentTypeOK
    <3> QED BY <3>1, <3>2, <3>3
  <2>2. confirmation.of # None => confirmation = offer \/ turn.prompt \in {"yes", "no"}
    BY DEF ConsentInv
  <2>3. AgentTypeOK'
    BY <2>1, QuietFields, AgentAssumption DEF AgentTypeOK
  <2>4. PlacesInv'
    BY <2>1, QuietFields DEF PlacesInv
  <2>5. ConsentInv'
    BY <1>3, <2>1, <2>2, QuietFields DEF ConsentInv, Left, Early
  <2>6. RepeatInv'
    BY <2>1, QuietFields DEF RepeatInv, RepeatsASuccess
  <2> QED BY <2>3, <2>4, <2>5, <2>6
<1> QED BY <1>2, <1>3

LEMMA ClearStep == ASSUME AgentInv, Clear PROVE AgentInv'
<1> USE DEF AgentInv
<1>1. /\ turn.at = "clear"
      /\ UNCHANGED <<lastSuccessful, submitted, tasks, reports, said, agentNow, restarts,
                     history>>
  BY DEF Clear
<1> USE <1>1 DEF tasks, history
<1>2. CASE turn.ask.of # None /\ turn.prompt \in {"yes", "no"}
  <2>1. confirmation' = Empty /\ UNCHANGED <<clarification, kindOf>>
    BY <1>2 DEF Clear
  <2>2. \/ turn' = Quiet
        \/ /\ turn.prompt = "yes"
           /\ turn' \in Turns /\ turn'.at = "execute" /\ turn'.plan = turn.ask.of
           /\ turn'.ask = turn.ask /\ turn'.question = turn.question
    BY <1>2, UseFields DEF Clear, EndOfTurn, PlacesInv
  <2>3. AgentTypeOK'
    BY <2>1, <2>2, QuietFields, AgentAssumption DEF AgentTypeOK
  <2>4. PlacesInv'
    BY <1>2, <2>1, <2>2, QuietFields DEF PlacesInv
  <2>5. ConsentInv'
    BY <1>2, <2>1, <2>2, QuietFields DEF ConsentInv, Left, Early, PlacesInv
  <2>6. RepeatInv'
    BY <2>2, QuietFields DEF RepeatInv, RepeatsASuccess
  <2> QED BY <2>3, <2>4, <2>5, <2>6
<1>3. CASE ~(turn.ask.of # None /\ turn.prompt \in {"yes", "no"})
  <2>1. clarification' = Empty /\ UNCHANGED confirmation
    BY <1>3 DEF Clear
  <2>2. turn.question.of \in Tasks
    BY <1>3 DEF PlacesInv
  <2>3. /\ turn' \in Turns /\ turn'.ask = turn.ask /\ turn'.question = turn.question
        /\ ~turn'.confirmed /\ turn'.prompt = turn.prompt
        /\ kindOf' \in [Plans -> PlanKinds \cup {"none"}]
        /\ \/ turn'.at = "close" /\ turn'.answers \in Tasks
           \/ turn'.at = "execute" /\ turn'.plan \in Plans
    <3>1. CASE turn.prompt = "no" /\ UNCHANGED kindOf
               /\ turn' = [turn EXCEPT !.at = "close", !.answers = turn.question.of]
      BY <2>2, <3>1 DEF AgentTypeOK, Turns, ConsentInv, Early
    <3>2. ASSUME NEW p \in Plans,
                 kindOf' = [kindOf EXCEPT ![p] = "song"],
                 turn' = [turn EXCEPT !.at = "execute", !.plan = p, !.answers = turn.question.of]
          PROVE  <2>3!:
      BY <2>2, <3>2 DEF AgentTypeOK, Turns, PlanKinds, ConsentInv, Early
    <3> QED BY <1>3, <3>1, <3>2 DEF Clear
  <2>4. AgentTypeOK'
    BY <2>1, <2>3, QuietFields, AgentAssumption DEF AgentTypeOK
  <2>5. PlacesInv'
    BY <2>1, <2>3, QuietFields DEF PlacesInv
  <2>6. ConsentInv'
    BY <1>3, <2>1, <2>3 DEF ConsentInv, Left, Early, PlacesInv
  <2>7. RepeatInv'
    BY <2>3 DEF RepeatInv, RepeatsASuccess
  <2> QED BY <2>4, <2>5, <2>6, <2>7
<1> QED BY <1>2, <1>3

LEMMA CloseStep == ASSUME AgentInv, Close PROVE AgentInv'
<1> USE DEF AgentInv
<1>1. /\ turn.at = "close" /\ turn' = Quiet
      /\ UNCHANGED <<slots, lastSuccessful, submitted, kindOf, taskPlan, said, agentNow,
                     restarts, history>>
  BY DEF Close, EndOfTurn
<1> USE <1>1, QuietFields, AgentAssumption DEF slots, history
<1>2. \/ UNCHANGED <<taskStatus, reports>>
      \/ \E t \in Tasks, s \in Results :
           taskStatus[t] # "none" /\ s # "completed" /\ CloseTask(t, s)
  BY DEF Close, PlacesInv, Results
<1>3. PlacesInv' /\ ConsentInv'
  BY DEF PlacesInv, ConsentInv, Early
<1>4. CASE UNCHANGED <<taskStatus, reports>>
  BY <1>3, <1>4 DEF AgentTypeOK, RepeatInv, RepeatsASuccess
<1>5. ASSUME NEW t \in Tasks, NEW s \in Results, taskStatus[t] # "none", s # "completed",
             CloseTask(t, s)
      PROVE  AgentInv'
  <2>1. /\ taskStatus' \in [Tasks -> {"none", "queued"} \cup Results]
        /\ reports' \subseteq Tasks \X Results
        /\ \A u \in Tasks :
             /\ submitted'[u] # None => submitted'[u] = taskPlan'[u]
             /\ taskStatus'[u] = "none" <=> taskPlan'[u] = None
             /\ taskStatus'[u] = "none" =>
                  \A w \in (u + 1)..MaxTasks : taskStatus'[w] = "none"
             /\ <<u, "completed">> \in reports' => taskPlan'[u] \in succeeded'
        /\ \A r \in reports' : taskStatus'[r[1]] # "none"
    BY <1>5, CloseTaskInv
  <2>2. AgentTypeOK'
    BY <2>1 DEF AgentTypeOK
  <2>3. RepeatInv'
    BY <2>1 DEF RepeatInv, RepeatsASuccess
  <2> QED BY <1>3, <2>2, <2>3
<1> QED BY <1>2, <1>4, <1>5

LEMMA PreflightStep == ASSUME AgentInv, Preflight PROVE AgentInv'
<1> USE DEF AgentInv
<1>1. /\ turn.at = "execute" /\ turn.plan \in Plans
      /\ UNCHANGED <<clarification, lastSuccessful, submitted, kindOf, tasks, reports, said,
                     agentNow, restarts, consents, guardedRuns, succeeded>>
  BY DEF Preflight, PlacesInv
<1> USE <1>1 DEF tasks
<1>2. CASE NeedsConfirmation
  <2>1. /\ confirmation' = [of |-> turn.plan, until |-> agentNow + ConfirmWindow]
        /\ offer' = confirmation'
    BY <1>2 DEF Preflight
  <2>2. Leaves
    BY <1>2, DoneLeaves DEF Preflight
  <2>3. /\ turn' \in Turns /\ turn'.at \in {"idle", "close"}
        /\ turn'.ask \in {turn.ask, Empty} /\ turn'.question \in {turn.question, Empty}
        /\ turn'.at = "close" => turn'.answers \in Tasks
    BY <2>2, LeavesFields
  <2>4. confirmation' \in Slots /\ confirmation'.of = turn.plan
    <3>1. turn.plan \in 1..MaxPlans /\ agentNow \in 0..AgentHorizon
      BY DEF AgentTypeOK, Plans
    <3>2. /\ turn.plan \in 0..(MaxPlans + MaxTasks)
          /\ agentNow + ConfirmWindow \in 0..(AgentHorizon + ConfirmWindow + ChoiceWindow)
      BY <3>1, AgentAssumption
    <3> QED BY <2>1, <3>2 DEF Slots
  <2>5. AgentTypeOK'
    BY <2>1, <2>3, <2>4 DEF AgentTypeOK
  <2>6. PlacesInv'
    BY <2>1, <2>3, <2>4, QuietFields DEF PlacesInv
  <2>7. ConsentInv'
    BY <2>1, <2>3 DEF ConsentInv, Early, Left
  <2>8. RepeatInv'
    BY <2>3 DEF RepeatInv, RepeatsASuccess
  <2> QED BY <2>5, <2>6, <2>7, <2>8
<1>3. CASE ~NeedsConfirmation
  <2>1. UNCHANGED <<confirmation, offer>>
    BY <1>3 DEF Preflight
  <2>2. Moved("submit") \/ Moved("run") \/ Leaves
    BY <1>3, DoneLeaves, GoFields DEF Preflight
  <2>3. /\ turn' \in Turns /\ turn'.at \in {"submit", "run", "idle", "close"}
        /\ turn'.ask \in {turn.ask, Empty} /\ turn'.question \in {turn.question, Empty}
        /\ turn'.at = "close" => turn'.answers \in Tasks
        /\ turn'.at \in {"submit", "run"} =>
             turn'.plan = turn.plan /\ turn'.confirmed = turn.confirmed
    BY <2>2, LeavesFields DEF Moved
  <2>4. AgentTypeOK'
    BY <2>1, <2>3 DEF AgentTypeOK
  <2>5. PlacesInv'
    BY <2>1, <2>3, QuietFields DEF PlacesInv
  <2>6. ConsentInv'
    BY <1>3, <2>1, <2>3 DEF ConsentInv, Early, Left, NeedsConfirmation
  <2>7. RepeatInv'
    BY <2>3 DEF RepeatInv, RepeatsASuccess
  <2> QED BY <2>4, <2>5, <2>6, <2>7
<1> QED BY <1>2, <1>3

LEMMA SubmitStep == ASSUME AgentInv, Submit PROVE AgentInv'
<1> USE DEF AgentInv
<1>1. /\ turn.at = "submit" /\ turn.plan \in Plans
      /\ UNCHANGED <<slots, lastSuccessful, submitted, kindOf, reports, said, agentNow,
                     restarts, history>>
  BY DEF Submit, PlacesInv
<1> USE <1>1 DEF slots, history
<1>2. CASE Done /\ UNCHANGED tasks
  <2>1. /\ turn' \in Turns /\ turn'.at \in {"idle", "close"}
        /\ turn'.ask \in {turn.ask, Empty} /\ turn'.question \in {turn.question, Empty}
        /\ turn'.at = "close" => turn'.answers \in Tasks
    BY <1>2, DoneLeaves, LeavesFields
  <2>2. AgentTypeOK'
    BY <1>2, <2>1 DEF AgentTypeOK, tasks
  <2>3. PlacesInv' /\ ConsentInv'
    BY <2>1, QuietFields DEF PlacesInv, ConsentInv, Early
  <2>4. RepeatInv'
    BY <1>2, <2>1 DEF RepeatInv, RepeatsASuccess, tasks
  <2> QED BY <2>2, <2>3, <2>4
<1>3. ASSUME NEW t \in Tasks, taskStatus[t] = "none", \A u \in 1..(t - 1) : taskStatus[u] # "none",
             taskStatus' = [taskStatus EXCEPT ![t] = "queued"],
             taskPlan' = [taskPlan EXCEPT ![t] = turn.plan],
             Go("remember")
      PROVE  AgentInv'
  <2>1. Moved("remember")
    BY <1>3, GoFields
  <2>2. AgentTypeOK'
    BY <1>3, <2>1 DEF AgentTypeOK, Moved
  <2>3. PlacesInv'
    BY <2>1, QuietFields DEF PlacesInv, Moved
  <2>4. ConsentInv'
    BY <2>1 DEF ConsentInv, Early, Moved
  <2>5. \A u \in Tasks : /\ taskPlan'[u] = IF u = t THEN turn.plan ELSE taskPlan[u]
                         /\ taskStatus'[u] = IF u = t THEN "queued" ELSE taskStatus[u]
    BY <1>3 DEF AgentTypeOK
  <2>6. turn.plan # None
    BY DEF Plans, None
  <2>7. /\ submitted[t] = None /\ \A s \in Results : <<t, s>> \notin reports
        /\ \A u \in (t + 1)..MaxTasks : taskStatus[u] = "none"
    BY <1>3 DEF RepeatInv
  <2>8. \A u \in Tasks : taskPlan'[u] = turn.plan => u <= t
    <3> SUFFICES ASSUME NEW u \in Tasks, taskPlan'[u] = turn.plan, u > t PROVE FALSE
      BY AgentAssumption DEF Tasks, AgentAssumption
    <3>1. u \in (t + 1)..MaxTasks
      BY AgentAssumption DEF Tasks, AgentAssumption
    <3>2. taskPlan[u] = None
      BY <3>1, <2>7 DEF RepeatInv
    <3> QED BY <3>2, <2>5, <2>6, AgentAssumption DEF Tasks, AgentAssumption
  <2>9. \A u \in Tasks : taskStatus'[u] = "none" =>
          t < u /\ \A w \in (u + 1)..MaxTasks : taskStatus'[w] = "none"
    <3> SUFFICES ASSUME NEW u \in Tasks, taskStatus'[u] = "none"
                 PROVE  t < u /\ \A w \in (u + 1)..MaxTasks : taskStatus'[w] = "none"
      OBVIOUS
    <3>1. u # t /\ taskStatus[u] = "none" /\ t < u
      BY <1>3, <2>5 DEF Tasks
    <3>2. ASSUME NEW w \in (u + 1)..MaxTasks PROVE taskStatus'[w] = "none"
      <4>1. w \in Tasks /\ w # t
        BY <3>1, AgentAssumption DEF Tasks, AgentAssumption
      <4>2. taskStatus[w] = "none"
        BY <3>1 DEF RepeatInv
      <4> QED BY <4>1, <4>2, <2>5
    <3> QED BY <3>1, <3>2
  <2>10. \A r \in reports' : taskStatus'[r[1]] # "none"
    BY <2>5 DEF RepeatInv, AgentTypeOK
  <2>11. \A u \in Tasks : <<u, "completed">> \in reports => taskPlan'[u] \in succeeded
    BY <2>5, <2>7 DEF RepeatInv, Results
  <2>12. \A u \in Tasks : submitted'[u] # None => submitted'[u] = taskPlan'[u]
    BY <2>5, <2>7 DEF RepeatInv
  <2>13. \A u \in Tasks : taskStatus'[u] = "none" <=> taskPlan'[u] = None
    BY <2>5, <2>6 DEF RepeatInv
  <2>14. taskPlan'[t] = turn'.plan
    BY <2>1, <2>5 DEF Moved
  <2>15. RepeatInv'
    BY <2>1, <2>8, <2>9, <2>10, <2>11, <2>12, <2>13, <2>14
       DEF RepeatInv, RepeatsASuccess, Moved
  <2> QED BY <2>2, <2>3, <2>4, <2>15
<1> QED BY <1>2, <1>3 DEF Submit

LEMMA RememberStep == ASSUME AgentInv, Remember PROVE AgentInv'
<1> USE DEF AgentInv
<1>1. /\ turn.at = "remember" /\ turn.plan \in Plans
      /\ UNCHANGED <<slots, lastSuccessful, kindOf, tasks, reports, said, agentNow, restarts,
                     history>>
  BY DEF Remember, PlacesInv
<1> USE <1>1 DEF slots, tasks, history
<1>2. turn' = Quiet \/ Leaves
  BY DoneLeaves DEF Remember, EndOfTurn
<1>3. /\ turn' \in Turns /\ turn'.at \in {"idle", "close"}
      /\ turn'.ask \in {turn.ask, Empty} /\ turn'.question \in {turn.question, Empty}
      /\ turn'.at = "close" => turn'.answers \in Tasks
  BY <1>2, LeavesFields DEF Leaves
<1>4. PICK t \in Tasks : taskPlan[t] = turn.plan /\ submitted' = [submitted EXCEPT ![t] = turn.plan]
  BY DEF Remember, RepeatInv
<1>5. AgentTypeOK'
  BY <1>3, <1>4 DEF AgentTypeOK
<1>6. PlacesInv' /\ ConsentInv'
  BY <1>3, QuietFields DEF PlacesInv, ConsentInv, Early
<1>7. RepeatInv'
  BY <1>3, <1>4 DEF RepeatInv, RepeatsASuccess, AgentTypeOK
<1> QED BY <1>5, <1>6, <1>7

LEMMA RunStep == ASSUME AgentInv, Run PROVE AgentInv'
<1> USE DEF AgentInv
<1>1. /\ turn.at = "run" /\ turn.plan \in Plans
      /\ guardedRuns' = IF kindOf[turn.plan] = "guarded"
                          THEN [guardedRuns EXCEPT ![turn.plan] = @ + 1] ELSE guardedRuns
      /\ UNCHANGED <<slots, lastSuccessful, submitted, kindOf, tasks, reports, said, agentNow,
                     restarts, offer, consents>>
  BY DEF Run, PlacesInv
<1> USE <1>1 DEF slots, tasks
<1>2. \/ Moved("record") /\ succeeded' = succeeded \cup {turn.plan}
      \/ Leaves /\ UNCHANGED succeeded
  BY GoFields, DoneLeaves DEF Run
<1>3. /\ turn' \in Turns /\ turn'.at \in {"record", "idle", "close"}
      /\ turn'.ask \in {turn.ask, Empty} /\ turn'.question \in {turn.question, Empty}
      /\ turn'.at = "close" => turn'.answers \in Tasks
      /\ turn'.at = "record" => turn'.plan = turn.plan /\ turn.plan \in succeeded'
  BY <1>2, LeavesFields DEF Moved
<1>4. succeeded \subseteq succeeded' /\ succeeded' \subseteq Plans
  BY <1>2 DEF AgentTypeOK
<1>5. guardedRuns' \in [Plans -> Nat] /\ \A p \in Plans : guardedRuns'[p] <= consents[p]
  BY DEF PlacesInv, ConsentInv, Left
<1>6. AgentTypeOK'
  BY <1>3, <1>4 DEF AgentTypeOK
<1>7. PlacesInv'
  BY <1>3, <1>5, QuietFields DEF PlacesInv
<1>8. ConsentInv'
  BY <1>3, <1>5 DEF ConsentInv, Early
<1>9. RepeatInv'
  BY <1>3, <1>4 DEF RepeatInv, RepeatsASuccess
<1> QED BY <1>6, <1>7, <1>8, <1>9

LEMMA RecordStep == ASSUME AgentInv, Record PROVE AgentInv'
<1> USE DEF AgentInv
<1>1. /\ turn.at = "record" /\ turn.plan \in Plans /\ lastSuccessful' = turn.plan
      /\ UNCHANGED <<slots, submitted, kindOf, tasks, reports, said, agentNow, restarts,
                     history>>
  BY DEF Record, PlacesInv
<1> USE <1>1 DEF slots, tasks, history
<1>2. /\ turn' \in Turns /\ turn'.at \in {"idle", "close"}
      /\ turn'.ask \in {turn.ask, Empty} /\ turn'.question \in {turn.question, Empty}
      /\ turn'.at = "close" => turn'.answers \in Tasks
  BY DoneLeaves, LeavesFields DEF Record
<1>3. AgentTypeOK'
  BY <1>2 DEF AgentTypeOK
<1>4. PlacesInv' /\ ConsentInv'
  BY <1>2, QuietFields DEF PlacesInv, ConsentInv, Early
<1>5. RepeatInv'
  BY <1>2 DEF RepeatInv, RepeatsASuccess
<1> QED BY <1>3, <1>4, <1>5

LEMMA FinishTaskStep ==
  ASSUME AgentInv, NEW t \in Tasks, NEW status \in {"completed", "failed", "waiting"},
         FinishTask(t, status)
  PROVE  AgentInv'
<1> USE DEF AgentInv
<1>1. /\ taskStatus[t] = "queued" /\ CloseTask(t, status)
      /\ succeeded' = IF status = "completed" THEN succeeded \cup {taskPlan[t]} ELSE succeeded
      /\ UNCHANGED <<turn, slots, lastSuccessful, submitted, kindOf, taskPlan, said, agentNow,
                     restarts, offer, consents, guardedRuns>>
  BY DEF FinishTask
<1> USE <1>1 DEF slots
<1>2. taskPlan[t] \in Plans
  BY DEF RepeatInv, AgentTypeOK
<1>3. succeeded \subseteq succeeded' /\ succeeded' \subseteq Plans
  BY <1>2 DEF AgentTypeOK
<1>4. /\ taskStatus' \in [Tasks -> {"none", "queued"} \cup Results]
      /\ reports' \subseteq Tasks \X Results
      /\ \A u \in Tasks :
           /\ submitted'[u] # None => submitted'[u] = taskPlan'[u]
           /\ taskStatus'[u] = "none" <=> taskPlan'[u] = None
           /\ taskStatus'[u] = "none" =>
                \A w \in (u + 1)..MaxTasks : taskStatus'[w] = "none"
           /\ <<u, "completed">> \in reports' => taskPlan'[u] \in succeeded'
      /\ \A r \in reports' : taskStatus'[r[1]] # "none"
  <2>1. status \in Results
    BY DEF Results
  <2> QED BY <2>1, <1>3, CloseTaskInv
<1>5. AgentTypeOK'
  BY <1>3, <1>4 DEF AgentTypeOK
<1>6. PlacesInv' /\ ConsentInv'
  BY DEF PlacesInv, ConsentInv, Left
<1>7. RepeatInv'
  BY <1>3, <1>4 DEF RepeatInv, RepeatsASuccess
<1> QED BY <1>5, <1>6, <1>7

LEMMA AskSlot ==
  ASSUME AgentTypeOK, NEW t \in Tasks, Ask(t)
  PROVE  clarification' \in Slots /\ clarification'.of = t
BY AgentAssumption, SMTT(30) DEF AgentAssumption, Ask, AgentTypeOK, Slots, Tasks

LEMMA CaptureTaskResultStep ==
  ASSUME AgentInv, NEW t \in Tasks, NEW status \in Results, CaptureTaskResult(t, status)
  PROVE  AgentInv'
<1> USE DEF AgentInv
<1>1. /\ <<t, status>> \in reports /\ reports' = reports \ {<<t, status>>}
      /\ submitted' = [submitted EXCEPT ![t] = None]
      /\ lastSuccessful' = SuccessOf(t, status)
      /\ UNCHANGED <<turn, confirmation, kindOf, tasks, said, agentNow, restarts, history>>
  BY DEF CaptureTaskResult
<1> USE <1>1 DEF tasks, history
<1>2. clarification' \in Slots /\ clarification'.of \in Tasks \cup {None}
  BY AskSlot DEF CaptureTaskResult, AgentTypeOK, PlacesInv
<1>3. lastSuccessful' \in Plans \cup {None}
  BY DEF AgentTypeOK, SuccessOf
<1>4. AgentTypeOK'
  BY <1>2, <1>3 DEF AgentTypeOK
<1>5. PlacesInv' /\ ConsentInv'
  BY <1>2 DEF PlacesInv, ConsentInv, Left
<1>6. lastSuccessful' # None => lastSuccessful' \in succeeded
  BY DEF SuccessOf, RepeatInv, RepeatsASuccess
<1>7. \A u \in Tasks : submitted'[u] # None => submitted'[u] = taskPlan[u]
  BY DEF RepeatInv, AgentTypeOK
<1>8. RepeatInv'
  BY <1>6, <1>7 DEF RepeatInv, RepeatsASuccess
<1> QED BY <1>4, <1>5, <1>8

LEMMA AgentTickStep == ASSUME AgentInv, AgentTick PROVE AgentInv'
<1> USE DEF AgentInv
<1>1. /\ agentNow < AgentHorizon /\ agentNow' = agentNow + 1
      /\ UNCHANGED <<turn, slots, lastSuccessful, submitted, kindOf, tasks, reports, said,
                     restarts, history>>
  BY DEF AgentTick
<1> USE <1>1 DEF slots, tasks, history
<1>2. AgentTypeOK'
  BY AgentAssumption DEF AgentTypeOK, AgentAssumption
<1>3. PlacesInv'
  BY DEF PlacesInv
<1>4. ConsentInv'
  BY DEF ConsentInv, Left, Early, AgentTypeOK, Slots
<1>5. RepeatInv'
  BY DEF RepeatInv, RepeatsASuccess
<1> QED BY <1>2, <1>3, <1>4, <1>5

\* A finite, nonempty set of integers has a largest member: the one with the
\* smallest set of members above it.
LEMMA LargestExists ==
  ASSUME NEW T, T \subseteq Int, IsFiniteSet(T), T # {}
  PROVE  \E t \in T : \A u \in T : u <= t
<1> DEFINE Above(t) == {u \in T : u > t}
           family == {Above(t) : t \in T}
<1>1. family \subseteq FiniteSubsetsOf(T) /\ family # {}
  <2>1. ASSUME NEW t \in T PROVE Above(t) \in SUBSET T /\ IsFiniteSet(Above(t))
    <3>1. Above(t) \in SUBSET T
      OBVIOUS
    <3> HIDE DEF Above
    <3> QED BY <3>1, FS_Subset
  <2>2. family # {}
    OBVIOUS
  <2> QED BY <2>1, <2>2 DEF FiniteSubsetsOf
<1>2. PICK A \in family : \A B \in family : ~(<<B, A>> \in StrictSubsetOrdering(T))
  <2> HIDE DEF family
  <2> QED BY <1>1, FS_StrictSubsetOrderingWellFounded, WFMin
<1>3. PICK t \in T : A = Above(t)
  OBVIOUS
<1>4. ASSUME NEW u \in T, u > t PROVE FALSE
  <2>1. ASSUME NEW v \in Above(u) PROVE v \in Above(t)
    BY <1>4, v > u, v \in Int, u \in Int, t \in Int
  <2>2. u \in Above(t) /\ u \notin Above(u)
    BY <1>4, u \in Int
  <2>3. <<Above(u), A>> \in StrictSubsetOrdering(T)
    BY <2>1, <2>2, <1>3 DEF StrictSubsetOrdering
  <2> QED BY <1>2, <2>3
<1> QED BY <1>4

LEMMA NewestTask ==
  ASSUME NEW T, T \subseteq Tasks, T # {}
  PROVE  \E t \in T : \A u \in T : u <= t
<1>1. IsFiniteSet(T) /\ T \subseteq Int
  <2>1. MaxTasks \in Int /\ Tasks \subseteq Int
    BY AgentAssumption DEF AgentAssumption, Tasks
  <2>2. IsFiniteSet(Tasks)
    BY <2>1, 1 \in Int, FS_Interval DEF Tasks
  <2>3. T \in SUBSET Tasks
    OBVIOUS
  <2> QED BY <2>1, <2>2, <2>3, FS_Subset
<1> QED BY <1>1, LargestExists

\* Of the tasks that wait, the newest one is found.
LEMMA RestartStep == ASSUME AgentInv, Restart PROVE AgentInv'
<1> USE DEF AgentInv
<1>1. /\ restarts < MaxRestarts /\ restarts' = restarts + 1 /\ turn' = Quiet
      /\ confirmation' = Empty /\ offer' = Empty /\ lastSuccessful' = None
      /\ submitted' = [t \in Tasks |-> None] /\ reports' = {}
      /\ taskStatus' = [t \in Tasks |-> IF taskStatus[t] = "queued" THEN "failed"
                                        ELSE taskStatus[t]]
      /\ UNCHANGED <<kindOf, taskPlan, said, agentNow, consents, guardedRuns, succeeded>>
  BY DEF Restart
<1> USE <1>1, QuietFields, AgentAssumption
<1>2. clarification' \in Slots /\ clarification'.of \in Tasks \cup {None}
  <2> DEFINE waiting == {t \in Tasks : taskStatus[t] = "waiting"}
  <2>1. CASE waiting = {}
    BY <2>1 DEF Restart
  <2>2. CASE waiting # {}
    <3>1. \E t \in waiting : \A u \in waiting : u <= t
      BY <2>2, NewestTask
    <3>2. PICK t \in waiting : Ask(t)
      BY <2>2, <3>1 DEF Restart
    <3> QED BY <3>2, AskSlot
  <2> QED BY <2>1, <2>2
<1>3. AgentTypeOK'
  BY <1>2 DEF AgentTypeOK, AgentAssumption, Results
<1>4. PlacesInv' /\ ConsentInv'
  BY <1>2 DEF PlacesInv, ConsentInv, Left, Early
<1>5. \A t \in Tasks : taskStatus'[t] = "none" <=> taskStatus[t] = "none"
  OBVIOUS
<1>6. \A t \in Tasks : taskStatus'[t] = "none" =>
        \A u \in (t + 1)..MaxTasks : taskStatus'[u] = "none"
  <2> SUFFICES ASSUME NEW t \in Tasks, taskStatus[t] = "none", NEW u \in (t + 1)..MaxTasks
               PROVE  taskStatus'[u] = "none"
    BY <1>5
  <2>1. u \in Tasks
    BY DEF Tasks, AgentAssumption
  <2>2. taskStatus[u] = "none"
    BY DEF RepeatInv
  <2> QED BY <1>5, <2>1, <2>2
<1>7. RepeatInv'
  BY <1>5, <1>6 DEF RepeatInv, RepeatsASuccess
<1> QED BY <1>3, <1>4, <1>7

-----------------------------------------------------------------------------
LEMMA AgentInitially == AgentInit => AgentInv
<1> SUFFICES ASSUME AgentInit PROVE AgentInv
  OBVIOUS
<1> USE QuietFields, AgentAssumption DEF AgentInit
<1>1. AgentTypeOK
  BY DEF AgentTypeOK, AgentAssumption
<1>2. PlacesInv /\ ConsentInv
  BY DEF PlacesInv, ConsentInv, Early
<1>3. RepeatInv
  BY DEF RepeatInv, RepeatsASuccess, Tasks, AgentAssumption
<1> QED BY <1>1, <1>2, <1>3 DEF AgentInv

LEMMA AgentPreserved == AgentInv /\ [AgentNext]_agentVars => AgentInv'
<1>1. ASSUME AgentInv, AgentNext PROVE AgentInv'
  BY <1>1, UtterStep, ClaimStep, DecideStep, RespondStep, ReadPendingStep, ClearStep, CloseStep,
     ReplacedStep, PreflightStep, SubmitStep, RememberStep, RunStep, RecordStep, FinishTaskStep,
     CaptureTaskResultStep, AgentTickStep, RestartStep
     DEF AgentNext
<1>2. ASSUME AgentInv, UNCHANGED agentVars PROVE AgentInv'
  BY <1>2 DEF agentVars, slots, tasks, history, AgentInv, AgentTypeOK, PlacesInv, ConsentInv, Left,
     RepeatInv, RepeatsASuccess
<1> QED BY <1>1, <1>2

LEMMA AgentInvariance == AgentSpec => []AgentInv
BY AgentInitially, AgentPreserved, PTL DEF AgentSpec

(* Every variable of the agent service keeps its type: no pending slot is    *)
(* left with a task where a plan belongs, and no turn reaches a place        *)
(* without what it needs there.                                              *)
THEOREM AgentTypeCorrect == AgentSpec => []AgentTypeOK
<1>1. AgentInv => AgentTypeOK
  BY DEF AgentInv
<1> QED BY <1>1, AgentInvariance, PTL

(* A plan that needs a confirmation never runs more often than the user has  *)
(* said "yes" to that very plan within its window, however turns, expiry,    *)
(* task results and restarts interleave.                                     *)
THEOREM OneRunForOneYes == AgentSpec => []OneRunPerConsent
<1>1. AgentInv => OneRunPerConsent
  BY DEF AgentInv, ConsentInv, OneRunPerConsent
<1> QED BY <1>1, AgentInvariance, PTL

(* What "do that again" would repeat has always succeeded, whether the       *)
(* result of a task comes before or after its plan was remembered.           *)
THEOREM OnlySuccessIsRepeated == AgentSpec => []RepeatsASuccess
<1>1. AgentInv => RepeatsASuccess
  BY DEF AgentInv, RepeatInv
<1> QED BY <1>1, AgentInvariance, PTL

(***************************************************************************)
(* PromptPlanning: the router's and the planner's plans.                   *)
(***************************************************************************)

Known == Len(achieved)     \* the number of successes so far

PromptTurns == [at : Places, saying : Sayings, routing : BOOLEAN, key : 0..MaxAchieved,
          plan : Seq(Steps), calls : 0..2, begun : 0..MaxAchieved, sure : 0..MaxAchieved]

\* The types, without the sizes of the context and of the cache.
TypesInv ==
  /\ planning \in PromptTurns
  /\ turnsHeard \in 0..MaxHeard /\ started \in 0..turnsHeard
  /\ version = Known /\ plannerNow \in 0..PlannerHorizon
  /\ achieved \in Seq(Deeds) /\ Known <= MaxAchieved /\ Known <= started
  /\ context \subseteq [number : 1..MaxAchieved, deed : Deeds, at : 0..PlannerHorizon]
  /\ prepared \subseteq [version : 0..MaxAchieved, saying : Sayings, plan : Seq(Steps),
                         turn : 1..MaxHeard]

Short(plan, saying) == Len(plan) <= MaxPlanSteps /\ Len(plan) <= Len(saying.parts)

\* A turn counts its questions to a model: the router asks once, and so does
\* the agent; what the turn knew when is in order.
PromptInv ==
  /\ Short(planning.plan, planning.saying)
  /\ planning.at = "build" => Len(planning.plan) < Len(planning.saying.parts)
  /\ planning.at # "idle" => started < turnsHeard
  /\ planning.at \in {"route", "classify", "respond", "key", "look", "ask", "model"} =>
       planning.plan = <<>>
  /\ planning.routing => planning.calls <= 1
  /\ planning.at \in {"route", "classify", "respond"} => planning.routing
  /\ planning.at = "classify" => planning.saying.shape # "command"
  /\ planning.routing /\ planning.at \in {"route", "classify", "key", "look", "build", "ask"} =>
       planning.calls = 0
  /\ planning.at \in {"key", "look", "build", "ask"} => planning.calls <= 1
  /\ planning.begun <= Known
  /\ planning.at \in {"look", "build", "ask", "model", "built", "taken"} =>
       planning.key = planning.sure /\ planning.begun <= planning.sure /\ planning.sure <= Known

\* The context is the newest successes: one entry for each of the last few,
\* none left out, in the order of their times.
ContextInv ==
  /\ \A e \in context :
       /\ e.number <= Known /\ e.number > Known - ContextSize
       /\ e.deed = achieved[e.number] /\ e.at <= plannerNow
       /\ \A k \in e.number..Known : \E f \in context : f.number = k
  /\ \A e, f \in context : /\ e.number = f.number => e = f
                           /\ e.number < f.number => e.at <= f.at

References == Providing \cup Opened

(* NewestOf for any sequence of successes.                                   *)
NewestIn(s, kind, n) ==
  LET relevant == {k \in 1..n : s[k][kind] # "none"}
  IN IF relevant = {} THEN "none"
     ELSE s[CHOOSE k \in relevant : \A j \in relevant : j <= k][kind]

\* A plan whose references mean the newest action as of n successes or more.
Faithful(s, plan, saying, n) ==
  \A i \in DOMAIN plan :
    plan[i] \in References => \E k \in n..Len(s) : plan[i] = NewestIn(s, KindOf(saying.parts[i]), k)

\* A prepared plan that can still be found means the newest actions; a lookup
\* that is under way finds a plan of its own version or nothing.
CacheInv ==
  /\ IsFiniteSet(prepared)
  /\ \A e \in prepared :
       /\ Short(e.plan, e.saying) /\ e.version <= Known /\ e.turn <= turnsHeard
       /\ e.version = Known => Faithful(achieved, e.plan, e.saying, Known)
       /\ planning.routing /\ planning.at \notin {"idle", "respond"} => e.turn < turnsHeard
  /\ \A e, f \in prepared : e.turn = f.turn => e = f
  /\ Cardinality(prepared) <= PreparedLimit
  /\ planning.at = "look" => planning.key = Known \/ prepared = {}
  /\ planning.at \in {"build", "built", "taken"} =>
       Faithful(achieved, planning.plan, planning.saying, planning.sure)

Ready == \E e \in prepared : e.version = Known /\ e.saying = planning.saying

\* When the router has asked the model about a command, the agent finds the
\* plan, or an action succeeded since the turn began.
ReuseInv ==
  planning.saying.shape = "command" /\ planning.calls > 0 /\ planning.begun = Known =>
    /\ planning.at = "respond" => Ready
    /\ ~planning.routing /\ planning.at = "key" => Ready
    /\ ~planning.routing /\ planning.at = "look" => planning.key = Known /\ Ready
    /\ planning.at \in {"build", "ask"} => FALSE
    /\ planning.calls = 1

PlanningInv == TypesInv /\ PromptInv /\ ContextInv /\ CacheInv /\ ReuseInv

-----------------------------------------------------------------------------
Kinds == {"media", "open"}

LEMMA DeedTypes ==
  ASSUME NEW d \in Deeds
  PROVE  /\ d["media"] \in Providing \cup {"none"}
         /\ d["open"] \in Opened \cup {"none"}
<1>1. d \in [media : Providing \cup {"none"}, open : Opened \cup {"none"}]
  BY PlanningAssumption DEF PlanningAssumption
<1> QED BY <1>1

\* What the newest deed of the first n means does not depend on later deeds.
LEMMA NewestStable ==
  ASSUME NEW s \in Seq(Deeds), NEW deed \in Deeds, NEW kind, NEW n \in 0..Len(s)
  PROVE  NewestIn(Append(s, deed), kind, n) = NewestIn(s, kind, n)
<1> DEFINE r == Append(s, deed)
           relevant == {k \in 1..n : s[k][kind] # "none"}
           newest == CHOOSE k \in relevant : \A j \in relevant : j <= k
<1>1. \A k \in 1..n : r[k] = s[k]
  OBVIOUS
<1>2. {k \in 1..n : r[k][kind] # "none"} = relevant
  BY <1>1
<1>3. CASE relevant = {}
  BY <1>2, <1>3 DEF NewestIn
<1>4. CASE relevant # {}
  <2>1. IsFiniteSet(relevant) /\ relevant \subseteq Int
    <3>1. relevant \in SUBSET (1..n) /\ IsFiniteSet(1..n)
      BY FS_Interval
    <3> QED BY <3>1, FS_Subset
  <2>2. newest \in relevant
    <3> HIDE DEF relevant
    <3> QED BY <1>4, <2>1, LargestExists
  <2>3. r[newest] = s[newest]
    BY <1>1, <2>2
  <2>4. NewestIn(s, kind, n) = s[newest][kind]
    BY <1>4 DEF NewestIn
  <2>5. NewestIn(r, kind, n) = r[newest][kind]
    BY <1>2, <1>4 DEF NewestIn
  <2> QED BY <2>3, <2>4, <2>5
<1> QED BY <1>3, <1>4

\* A plan that meant the newest action when it was made still does so.
LEMMA FaithfulStays ==
  ASSUME NEW s \in Seq(Deeds), NEW deed \in Deeds, NEW plan, NEW saying, NEW n \in 0..Len(s),
         Faithful(s, plan, saying, n)
  PROVE  Faithful(Append(s, deed), plan, saying, n)
<1> SUFFICES ASSUME NEW i \in DOMAIN plan, plan[i] \in References
             PROVE  \E k \in n..Len(Append(s, deed)) :
                      plan[i] = NewestIn(Append(s, deed), KindOf(saying.parts[i]), k)
  BY DEF Faithful
<1>1. PICK k \in n..Len(s) : plan[i] = NewestIn(s, KindOf(saying.parts[i]), k)
  BY DEF Faithful
<1>2. k \in 0..Len(s) /\ k \in n..Len(Append(s, deed))
  OBVIOUS
<1> QED BY <1>1, <1>2, NewestStable

\* A reference means the newest relevant success, if the context has one.
LEMMA MeantIsNewest ==
  ASSUME TypesInv, ContextInv, NEW kind, NEW D, D \subseteq context,
         \A e \in D : \A k \in e.number..Known : \E f \in D : f.number = k
  PROVE  /\ Meant(kind, D) \in {"none", NewestIn(achieved, kind, Known)}
         /\ Meant(kind, D) # "none" => \E d \in Deeds : Meant(kind, D) = d[kind]
<1> DEFINE R == Relevant(kind, D)
           numbers == {e.number : e \in R}
           relevant == {k \in 1..Known : achieved[k][kind] # "none"}
<1>1. CASE R = {}
  BY <1>1 DEF Meant
<1>2. CASE R # {}
  <2>1. \A e \in R : e \in D /\ e \in context /\ e.deed[kind] # "none"
    BY DEF Relevant
  <2>2. \A e \in context : e.number \in 1..Known /\ e.deed = achieved[e.number] /\ e.deed \in Deeds
    BY DEF TypesInv, ContextInv, Known
  <2>3. IsFiniteSet(numbers) /\ numbers \subseteq Int /\ numbers # {}
    <3>1. numbers \in SUBSET (1..Known)
      BY <2>1, <2>2
    <3>2. IsFiniteSet(1..Known)
      BY FS_Interval DEF TypesInv, Known
    <3>3. numbers # {}
      BY <1>2
    <3>4. numbers \subseteq Int
      BY <3>1
    <3> HIDE DEF numbers
    <3> QED BY <3>1, <3>2, <3>3, <3>4, FS_Subset
  <2>4. \E e \in R : \A f \in R : f.number <= e.number
    <3> HIDE DEF numbers
    <3>1. PICK k \in numbers : \A j \in numbers : j <= k
      BY <2>3, LargestExists
    <3> QED BY <3>1 DEF numbers
  <2> DEFINE e == CHOOSE x \in R : \A f \in R : f.number <= x.number
  <2>5. e \in R /\ \A f \in R : f.number <= e.number
    <3> HIDE DEF R
    <3> QED BY <2>4
  <2>6. Meant(kind, D) = e.deed[kind]
    BY <1>2 DEF Meant
  <2> HIDE DEF e
  <2>7. e.number \in relevant
    BY <2>1, <2>2, <2>5
  <2>8. ASSUME NEW j \in relevant PROVE j <= e.number
    <3> SUFFICES ASSUME j > e.number PROVE FALSE
      BY <2>7
    <3>1. PICK f \in D : f.number = j
      BY <2>1, <2>5, <2>7
    <3>2. f \in R
      BY <2>2, <3>1 DEF Relevant
    <3> QED BY <2>5, <3>1, <3>2, <2>7
  <2>9. NewestIn(achieved, kind, Known) = achieved[e.number][kind]
    <3>1. (CHOOSE k \in relevant : \A j \in relevant : j <= k) = e.number
      BY <2>7, <2>8
    <3> QED BY <2>7, <3>1 DEF NewestIn
  <2> QED BY <2>1, <2>2, <2>5, <2>6, <2>9
<1> QED BY <1>1, <1>2

\* The plan gets a step that means what the newest action means now.
LEMMA StepIsNewest ==
  ASSUME TypesInv, ContextInv, NEW part \in Parts, NEW D, D \subseteq context,
         \A e \in D : \A k \in e.number..Known : \E f \in D : f.number = k,
         NEW step, step = StepFor(part, D), step # "none"
  PROVE  /\ step \in Steps
         /\ step \in References => step = NewestIn(achieved, KindOf(part), Known)
<1>1. /\ Meant("media", D) \in {"none", NewestIn(achieved, "media", Known)}
      /\ Meant("media", D) \in Providing \cup {"none"}
  BY MeantIsNewest, DeedTypes
<1>2. /\ Meant("open", D) \in {"none", NewestIn(achieved, "open", Known)}
      /\ Meant("open", D) \in Opened \cup {"none"}
  BY MeantIsNewest, DeedTypes
<1>3. "fixed" \notin References
  BY DEF References, Providing, Opened
<1>4. CASE part = "open"
  BY <1>2, <1>4 DEF StepFor, KindOf, Steps
<1>5. CASE part = "media"
  BY <1>1, <1>5 DEF StepFor, KindOf, Steps
<1>6. CASE part = "pause"
  BY <1>1, <1>3, <1>6 DEF StepFor, KindOf, Steps
<1>7. CASE part \in {"fixed", "refused", "free"}
  BY <1>3, <1>7 DEF StepFor, Steps
<1> QED BY <1>4, <1>5, <1>6, <1>7 DEF Parts

\* What is left of the context after the old actions were dropped has no gaps.
LEMMA PurgedIsSuffix ==
  ASSUME TypesInv, ContextInv
  PROVE  /\ Purged \subseteq context
         /\ \A e \in Purged : \A k \in e.number..Known : \E f \in Purged : f.number = k
<1>1. Purged \subseteq context
  BY DEF Purged
<1>2. ASSUME NEW e \in Purged, NEW k \in e.number..Known PROVE \E f \in Purged : f.number = k
  <2>1. e \in context /\ e.at >= plannerNow - ContextTtl
    BY DEF Purged
  <2>2. PICK f \in context : f.number = k
    BY <2>1 DEF ContextInv
  <2>3. e.at <= f.at
    BY <2>1, <2>2 DEF ContextInv, TypesInv
  <2>4. f.at >= plannerNow - ContextTtl
    BY <2>1, <2>2, <2>3, PlanningAssumption DEF TypesInv, PlanningAssumption
  <2> QED BY <2>2, <2>4 DEF Purged
<1> QED BY <1>1, <1>2

LEMMA PurgedContext ==
  ASSUME TypesInv, ContextInv, context' = Purged, UNCHANGED <<achieved, plannerNow>>
  PROVE  ContextInv' /\ context' \subseteq context
BY PurgedIsSuffix DEF ContextInv, Known

-----------------------------------------------------------------------------
\* The turn goes to another place and keeps the rest.
MovedOn(place) ==
  /\ planning' \in PromptTurns /\ planning'.at = place
  /\ planning'.saying = planning.saying /\ planning'.routing = planning.routing
  /\ planning'.key = planning.key /\ planning'.plan = planning.plan
  /\ planning'.calls = planning.calls /\ planning'.begun = planning.begun
  /\ planning'.sure = planning.sure

LEMMA GoToFields == ASSUME TypesInv, NEW place \in Places, GoTo(place) PROVE MovedOn(place)
BY DEF TypesInv, PromptTurns, GoTo, MovedOn

LEMMA PartsOfSaying ==
  ASSUME NEW saying \in Sayings
  PROVE  saying.parts \in Seq(Parts) /\ Len(saying.parts) \in Nat \ {0}
BY PlanningAssumption DEF PlanningAssumption

LEMMA HearStep == ASSUME PlanningInv, NEW s \in Sayings, Hear(s) PROVE PlanningInv'
<1> USE PlanningAssumption DEF PlanningInv, PlanningAssumption
<1>1. /\ planning.at = "idle" /\ turnsHeard < MaxHeard /\ turnsHeard' = turnsHeard + 1
      /\ UNCHANGED <<context, version, prepared, plannerNow, started, achieved>>
  BY DEF Hear
<1>2. /\ planning' \in PromptTurns /\ planning'.at = "route" /\ planning'.saying = s
      /\ planning'.routing /\ planning'.plan = <<>> /\ planning'.calls = 0
      /\ planning'.begun = Known
  <2>1. Unspoken(s) \in PromptTurns
    BY DEF Unspoken, PromptTurns, Places
  <2>2. Known \in 0..MaxAchieved /\ "route" \in Places
    BY DEF TypesInv, Known, Places
  <2>3. planning' = [Unspoken(s) EXCEPT !.at = "route", !.begun = Known]
    BY DEF Hear, Known
  <2>4. planning' \in PromptTurns /\ planning'.at = "route" /\ planning'.begun = Known
    BY <2>1, <2>2, <2>3 DEF PromptTurns
  <2>5. /\ planning'.saying = s /\ planning'.routing /\ planning'.plan = <<>>
        /\ planning'.calls = 0
    BY <2>3 DEF Unspoken
  <2> QED BY <2>4, <2>5
<1>3. TypesInv'
  BY <1>1, <1>2 DEF TypesInv, Known
<1>4. PromptInv'
  BY <1>1, <1>2, PartsOfSaying DEF TypesInv, PromptInv, Short, Known
<1>5. ContextInv'
  BY <1>1 DEF ContextInv, Known
<1>6. CacheInv'
  BY <1>1, <1>2 DEF TypesInv, CacheInv, Known
<1>7. ReuseInv'
  BY <1>2 DEF ReuseInv
<1> QED BY <1>3, <1>4, <1>5, <1>6, <1>7

LEMMA ClaimedStep == ASSUME PlanningInv, Claimed PROVE PlanningInv'
<1> USE DEF PlanningInv
<1>1. /\ planning.at = "route"
      /\ UNCHANGED <<turnsHeard, context, version, prepared, plannerNow, started, achieved>>
  BY DEF Claimed
<1>2. MovedOn("idle") \/ MovedOn("respond")
  BY GoToFields DEF Claimed, Places
<1>3. TypesInv'
  BY <1>1, <1>2 DEF TypesInv, Known, MovedOn
<1>4. PromptInv'
  BY <1>1, <1>2 DEF PromptInv, Known, MovedOn
<1>5. ContextInv'
  BY <1>1 DEF ContextInv, Known
<1>6. CacheInv'
  BY <1>1, <1>2 DEF CacheInv, Known, MovedOn
<1>7. ReuseInv'
  BY <1>1, <1>2 DEF ReuseInv, Known, MovedOn, PromptInv
<1> QED BY <1>3, <1>4, <1>5, <1>6, <1>7

LEMMA RouteStep == ASSUME PlanningInv, Route PROVE PlanningInv'
<1> USE DEF PlanningInv
<1>1. /\ planning.at = "route"
      /\ UNCHANGED <<turnsHeard, context, version, prepared, plannerNow, started, achieved>>
  BY DEF Route
<1>2. \/ MovedOn("idle") \/ MovedOn("respond") \/ MovedOn("key")
      \/ MovedOn("classify") /\ planning.saying.shape # "command"
  <2> DEFINE next == [talk |-> "idle", order |-> "respond", command |-> "key",
                      request |-> "classify", remark |-> "idle"]
  <2>1. planning.saying.shape \in {"talk", "order", "command", "request", "remark"}
    BY PlanningAssumption DEF PlanningAssumption, TypesInv, PromptTurns, Shapes, Ruled
  <2>2. GoTo(next[planning.saying.shape])
    BY DEF Route
  <2>3. /\ next["talk"] = "idle" /\ next["order"] = "respond" /\ next["command"] = "key"
        /\ next["request"] = "classify" /\ next["remark"] = "idle"
    OBVIOUS
  <2> HIDE DEF next
  <2> QED BY <2>1, <2>2, <2>3, GoToFields DEF Places
<1>3. TypesInv'
  BY <1>1, <1>2 DEF TypesInv, Known, MovedOn
<1>4. PromptInv'
  BY <1>1, <1>2 DEF PromptInv, Known, MovedOn
<1>5. ContextInv'
  BY <1>1 DEF ContextInv, Known
<1>6. CacheInv'
  BY <1>1, <1>2 DEF CacheInv, Known, MovedOn
<1>7. ReuseInv'
  BY <1>1, <1>2 DEF ReuseInv, Known, MovedOn, PromptInv
<1> QED BY <1>3, <1>4, <1>5, <1>6, <1>7

LEMMA ClassifyStep == ASSUME PlanningInv, Classify PROVE PlanningInv'
<1> USE DEF PlanningInv
<1>1. /\ planning.at = "classify" /\ planning.calls = 0 /\ planning.routing
      /\ UNCHANGED <<turnsHeard, context, version, prepared, plannerNow, started, achieved>>
  BY DEF Classify, PromptInv
<1>2. PICK place \in {"idle", "respond"} :
        planning' = [planning EXCEPT !.at = place, !.calls = @ + 1]
  BY DEF Classify
<1>3. /\ planning' \in PromptTurns /\ planning'.at = place /\ planning'.calls = 1
      /\ planning'.saying = planning.saying /\ planning'.routing = planning.routing
      /\ planning'.plan = planning.plan /\ planning'.begun = planning.begun
  <2>1. planning' = [planning EXCEPT !.at = place, !.calls = 1]
    BY <1>1, <1>2
  <2>2. place \in Places /\ planning \in PromptTurns
    BY DEF Places, TypesInv
  <2> HIDE DEF PlanningInv
  <2>3. planning' \in PromptTurns
    BY <2>1, <2>2, 1 \in 0..2 DEF PromptTurns
  <2>4. planning'.at = place /\ planning'.calls = 1
    BY <2>1, <2>2 DEF PromptTurns
  <2>5. /\ planning'.saying = planning.saying /\ planning'.routing = planning.routing
        /\ planning'.plan = planning.plan /\ planning'.begun = planning.begun
    BY <2>1, <2>2 DEF PromptTurns
  <2> QED BY <2>3, <2>4, <2>5
<1>4. TypesInv'
  BY <1>1, <1>3 DEF TypesInv, Known
<1>5. PromptInv'
  BY <1>1, <1>3 DEF PromptInv, Known
<1>6. ContextInv'
  BY <1>1 DEF ContextInv, Known
<1>7. CacheInv'
  BY <1>1, <1>3 DEF CacheInv, Known
<1>8. ReuseInv'
  BY <1>1, <1>3 DEF ReuseInv, PromptInv
<1> QED BY <1>4, <1>5, <1>6, <1>7, <1>8

LEMMA RespondOrPlanStep == ASSUME PlanningInv, RespondOrPlan PROVE PlanningInv'
<1> USE DEF PlanningInv
<1>1. /\ planning.at = "respond" /\ planning.routing
      /\ UNCHANGED <<turnsHeard, context, version, prepared, plannerNow, achieved>>
  BY DEF RespondOrPlan, PromptInv
<1>2. /\ planning' \in PromptTurns
      /\ planning'.saying = planning.saying /\ planning'.calls = planning.calls
      /\ planning'.begun = planning.begun
      /\ \/ /\ planning'.at = "idle" /\ started' \in {started, started + 1}
            /\ planning'.plan = planning.plan /\ planning'.routing = planning.routing
         \/ /\ planning'.at = "key" /\ ~planning'.routing /\ UNCHANGED started
            /\ planning'.plan = planning.plan
  <2>1. CASE GoTo("idle") /\ started' \in {started, started + 1}
    BY <2>1, GoToFields DEF Places, MovedOn
  <2>2. CASE /\ planning' = [planning EXCEPT !.at = "key", !.routing = FALSE]
             /\ UNCHANGED started
    BY <2>2 DEF TypesInv, PromptTurns, Places
  <2> QED BY <2>1, <2>2 DEF RespondOrPlan
<1>3. TypesInv'
  <2>1. turnsHeard \in Nat /\ started \in Nat /\ Known \in Nat
    BY PlanningAssumption DEF TypesInv, Known, PlanningAssumption
  <2>2. started < turnsHeard /\ Known <= started
    BY <1>1 DEF PromptInv, TypesInv
  <2>3. started' \in 0..turnsHeard /\ Known <= started'
    BY <1>2, <2>1, <2>2
  <2> QED BY <1>1, <1>2, <2>3 DEF TypesInv, Known
<1>4. PromptInv'
  BY <1>1, <1>2 DEF PromptInv, Known
<1>5. ContextInv'
  BY <1>1 DEF ContextInv, Known
<1>6. CacheInv'
  BY <1>1, <1>2 DEF CacheInv, Known
<1>7. ReuseInv'
  BY <1>1, <1>2 DEF ReuseInv, Ready, Known
<1> QED BY <1>3, <1>4, <1>5, <1>6, <1>7

LEMMA ReadKeyStep == ASSUME PlanningInv, ReadKey PROVE PlanningInv'
<1> USE DEF PlanningInv
<1>1. /\ planning.at = "key"
      /\ UNCHANGED <<turnsHeard, context, version, prepared, plannerNow, started, achieved>>
  BY DEF ReadKey
<1>2. /\ planning' \in PromptTurns /\ planning'.at = "look"
      /\ planning'.key = Known /\ planning'.sure = Known
      /\ planning'.saying = planning.saying /\ planning'.routing = planning.routing
      /\ planning'.plan = planning.plan /\ planning'.begun = planning.begun
      /\ planning'.calls = planning.calls
  <2>1. version = Known /\ Len(achieved) = Known /\ Known \in 0..MaxAchieved
    BY DEF TypesInv, Known
  <2>2. planning' = [planning EXCEPT !.at = "look", !.key = Known, !.sure = Known]
    BY <2>1 DEF ReadKey
  <2>3. "look" \in Places /\ planning \in PromptTurns
    BY DEF Places, TypesInv
  <2> HIDE DEF PlanningInv
  <2> QED BY <2>1, <2>2, <2>3 DEF PromptTurns
<1>3. TypesInv'
  BY <1>1, <1>2 DEF TypesInv, Known
<1>4. PromptInv'
  BY <1>1, <1>2 DEF PromptInv, TypesInv, Known
<1>5. ContextInv'
  BY <1>1 DEF ContextInv, Known
<1>6. CacheInv'
  BY <1>1, <1>2 DEF CacheInv, Known
<1>7. ReuseInv'
  BY <1>1, <1>2 DEF ReuseInv, Ready, Known, PromptInv
<1> QED BY <1>3, <1>4, <1>5, <1>6, <1>7

\* An empty plan refers to nothing.
LEMMA EmptyIsFaithful ==
  ASSUME NEW s, NEW saying, NEW n
  PROVE  Faithful(s, <<>>, saying, n)
BY DEF Faithful

LEMMA EmptyIsShort ==
  ASSUME NEW saying \in Sayings
  PROVE  Short(<<>>, saying) /\ Short(<<"asked">>, saying)
BY PartsOfSaying, PlanningAssumption DEF PlanningAssumption, Short

LEMMA ResolvedFields ==
  ASSUME TypesInv, NEW plan, Resolved(plan)
  PROVE  /\ planning' \in PromptTurns /\ planning'.plan = <<>>
         /\ planning'.at = IF plan = <<>> THEN "idle" ELSE "respond"
         /\ planning'.saying = planning.saying /\ planning'.routing = planning.routing
         /\ planning'.calls = planning.calls /\ planning'.begun = planning.begun
<1>1. (IF plan = <<>> THEN "idle" ELSE "respond") \in Places
  BY DEF Places
<1>2. <<>> \in Seq(Steps)
  OBVIOUS
<1>3. planning' \in PromptTurns
  BY <1>1, <1>2 DEF TypesInv, PromptTurns, Resolved
<1> QED BY <1>1, <1>2, <1>3 DEF TypesInv, PromptTurns, Resolved

LEMMA LookStep == ASSUME PlanningInv, Look PROVE PlanningInv'
<1> USE DEF PlanningInv
<1>1. /\ planning.at = "look" /\ planning.plan = <<>>
      /\ UNCHANGED <<turnsHeard, context, version, plannerNow, started, achieved>>
  BY DEF Look, PromptInv
<1>2. ContextInv'
  BY <1>1 DEF ContextInv, Known
<1>3. CASE Stored = {}
  <2>1. MovedOn("build") /\ UNCHANGED prepared
    BY <1>3, GoToFields DEF Look, Places
  <2>2. TypesInv'
    BY <1>1, <2>1 DEF TypesInv, Known, MovedOn
  <2>3. PromptInv'
    <3>1. Len(planning.plan) < Len(planning.saying.parts)
      BY <1>1, PartsOfSaying DEF TypesInv, PromptTurns
    <3> QED BY <1>1, <2>1, <3>1 DEF PromptInv, Known, MovedOn
  <2>4. CacheInv'
    BY <1>1, <2>1, EmptyIsFaithful DEF CacheInv, Known, MovedOn
  <2>5. ReuseInv'
    <3>1. ~planning.routing /\ planning.key = Known => ~Ready
      BY <1>3 DEF Ready, Stored
    <3>2. planning.routing => planning.calls = 0
      BY <1>1 DEF PromptInv
    <3> QED BY <1>1, <2>1, <3>1, <3>2 DEF ReuseInv, Known, MovedOn, TypesInv, PromptTurns
  <2> QED BY <1>2, <2>2, <2>3, <2>4, <2>5
<1>4. ASSUME NEW e \in Stored, planning.routing, Resolved(e.plan), UNCHANGED prepared
      PROVE  PlanningInv'
  <2>1. /\ planning' \in PromptTurns /\ planning'.plan = <<>>
        /\ planning'.at \in {"idle", "respond"}
        /\ planning'.saying = planning.saying /\ planning'.routing = planning.routing
        /\ planning'.calls = planning.calls /\ planning'.begun = planning.begun
    BY <1>4, ResolvedFields
  <2>2. planning.calls = 0
    BY <1>1, <1>4 DEF PromptInv
  <2>3. TypesInv'
    BY <1>1, <1>4, <2>1 DEF TypesInv, Known
  <2>4. PromptInv'
    BY <1>1, <1>4, <2>1, PartsOfSaying DEF PromptInv, Known, Short
  <2>5. CacheInv'
    BY <1>1, <1>4, <2>1 DEF CacheInv, Known
  <2>6. ReuseInv'
    BY <2>1, <2>2 DEF ReuseInv
  <2> QED BY <1>2, <2>3, <2>4, <2>5, <2>6
<1>5. ASSUME NEW e \in Stored, ~planning.routing,
             planning' = [planning EXCEPT !.at = "taken", !.plan = e.plan],
             prepared' = prepared \ {e}
      PROVE  PlanningInv'
  <2>1. e \in prepared /\ e.version = planning.key /\ e.saying = planning.saying
    BY DEF Stored
  <2>2. e.plan \in Seq(Steps) /\ "taken" \in Places
    BY <2>1 DEF TypesInv, Places
  <2>3. /\ planning' \in PromptTurns /\ planning'.at = "taken" /\ planning'.plan = e.plan
        /\ planning'.saying = planning.saying /\ planning'.routing = planning.routing
        /\ planning'.calls = planning.calls /\ planning'.begun = planning.begun
        /\ planning'.key = planning.key /\ planning'.sure = planning.sure
    BY <1>5, <2>2 DEF TypesInv, PromptTurns
  <2>4. TypesInv'
    BY <1>1, <1>5, <2>3 DEF TypesInv, Known
  <2>5. PromptInv'
    BY <1>1, <1>5, <2>1, <2>3 DEF PromptInv, Known, CacheInv
  <2>6. Faithful(achieved, e.plan, planning.saying, planning.sure)
    BY <1>1, <2>1 DEF CacheInv, PromptInv
  <2>7. IsFiniteSet(prepared') /\ Cardinality(prepared') <= PreparedLimit
    <3>1. prepared' \in SUBSET prepared
      BY <1>5
    <3>2. /\ IsFiniteSet(prepared') /\ Cardinality(prepared') <= Cardinality(prepared)
          /\ Cardinality(prepared) <= PreparedLimit
      BY <3>1, FS_Subset DEF CacheInv
    <3>3. Cardinality(prepared') \in Nat /\ Cardinality(prepared) \in Nat
      BY <3>2, FS_CardinalityType DEF CacheInv
    <3> QED BY <3>2, <3>3, PlanningAssumption DEF PlanningAssumption
  <2>8. CacheInv'
    BY <1>1, <1>5, <2>3, <2>6, <2>7 DEF CacheInv, Known
  <2>9. ReuseInv'
    BY <1>1, <1>5, <2>3 DEF ReuseInv, PromptInv, TypesInv, PromptTurns
  <2> QED BY <1>2, <2>4, <2>5, <2>8, <2>9
<1>6. planning.routing \in BOOLEAN
  BY DEF TypesInv, PromptTurns
<1> QED BY <1>3, <1>4, <1>5, <1>6 DEF Look

\* The cache keeps the newest plans, no more than its limit.
LEMMA TrimSize ==
  ASSUME NEW E, IsFiniteSet(E), \A e \in E : e.turn \in Nat,
         \A e, f \in E : e.turn = f.turn => e = f
  PROVE  /\ Trim(E) \subseteq E /\ IsFiniteSet(Trim(E))
         /\ Cardinality(Trim(E)) <= PreparedLimit
<1> DEFINE T == Trim(E)
           Newer(e) == {f \in E : f.turn > e.turn}
<1>1. T \in SUBSET E
  BY DEF Trim
<1>2. IsFiniteSet(T)
  <2> HIDE DEF T
  <2> QED BY <1>1, FS_Subset
<1>3. CASE T = {}
  BY <1>1, <1>2, <1>3, FS_EmptySet, PlanningAssumption DEF PlanningAssumption
<1>4. CASE T # {}
  <2> DEFINE ages == {0 - e.turn : e \in T}
  <2>1. PICK m \in T : \A f \in T : m.turn <= f.turn
    <3>1. IsFiniteSet(ages)
      <4> DEFINE age == [e \in T |-> 0 - e.turn]
      <4>1. age \in Surjection(T, ages)
        BY DEF Surjection
      <4> HIDE DEF T, ages, age
      <4> QED BY <4>1, <1>2, FS_Surjection
    <3>2. ages \subseteq Int /\ ages # {}
      BY <1>1, <1>4
    <3>3. PICK a \in ages : \A b \in ages : b <= a
      <4> HIDE DEF ages
      <4> QED BY <3>1, <3>2, LargestExists
    <3>4. PICK m \in T : a = 0 - m.turn
      OBVIOUS
    <3>5. ASSUME NEW f \in T PROVE m.turn <= f.turn
      <4>1. 0 - f.turn <= a /\ f.turn \in Nat /\ m.turn \in Nat
        BY <3>3, <1>1
      <4> QED BY <3>4, <4>1
    <3> QED BY <3>5
  <2>2. Cardinality(Newer(m)) < PreparedLimit
    BY DEF Trim
  <2>3. T \ {m} \in SUBSET Newer(m)
    <3>1. ASSUME NEW f \in T, f # m PROVE f \in E /\ f.turn > m.turn
      <4>1. f \in E /\ m \in E /\ m.turn <= f.turn
        BY <1>1, <2>1
      <4>2. f.turn \in Nat /\ m.turn \in Nat /\ f.turn # m.turn
        BY <3>1, <4>1
      <4> QED BY <4>1, <4>2
    <3> QED BY <3>1
  <2>4. IsFiniteSet(Newer(m))
    <3>1. Newer(m) \in SUBSET E
      OBVIOUS
    <3> HIDE DEF Newer
    <3> QED BY <3>1, FS_Subset
  <2> HIDE DEF T, Newer
  <2>5. IsFiniteSet(T \ {m}) /\ Cardinality(T \ {m}) <= Cardinality(Newer(m))
    BY <2>3, <2>4, FS_Subset
  <2>6. Cardinality(T \ {m}) = Cardinality(T) - 1
    BY <1>2, FS_RemoveElement
  <2>7. Cardinality(T) \in Nat /\ Cardinality(Newer(m)) \in Nat
    BY <1>2, <2>4, FS_CardinalityType
  <2>8. Cardinality(T) <= PreparedLimit
    BY <2>2, <2>5, <2>6, <2>7, PlanningAssumption DEF PlanningAssumption
  <2> QED BY <1>1, <1>2, <2>8 DEF T
<1> QED BY <1>3, <1>4

LEMMA KeepStep == ASSUME PlanningInv, Keep PROVE PlanningInv'
<1> USE DEF PlanningInv
<1>1. /\ planning.at = "built"
      /\ UNCHANGED <<turnsHeard, context, version, plannerNow, started, achieved>>
  BY DEF Keep
<1>2. ContextInv'
  BY <1>1 DEF ContextInv, Known
<1>3. CASE ~planning.routing
  <2>1. MovedOn("taken") /\ UNCHANGED prepared
    BY <1>3, GoToFields DEF Keep, Places
  <2>2. TypesInv'
    BY <1>1, <2>1 DEF TypesInv, Known, MovedOn
  <2>3. PromptInv'
    BY <1>1, <2>1 DEF PromptInv, Known, MovedOn
  <2>4. CacheInv'
    BY <1>1, <2>1, <1>3 DEF CacheInv, Known, MovedOn
  <2>5. ReuseInv'
    BY <1>1, <2>1 DEF ReuseInv, Known, MovedOn
  <2> QED BY <1>2, <2>2, <2>3, <2>4, <2>5
<1>4. CASE planning.routing
  <2> DEFINE E == (prepared \ Stored) \cup {NewEntry}
  <2>1. Resolved(planning.plan) /\ prepared' = Trim(E)
    BY <1>4 DEF Keep
  <2>2. /\ planning' \in PromptTurns /\ planning'.plan = <<>>
        /\ planning'.at = IF planning.plan = <<>> THEN "idle" ELSE "respond"
        /\ planning'.saying = planning.saying /\ planning'.routing = planning.routing
        /\ planning'.calls = planning.calls /\ planning'.begun = planning.begun
    BY <2>1, ResolvedFields
  <2>3. /\ NewEntry.version = planning.key /\ NewEntry.saying = planning.saying
        /\ NewEntry.plan = planning.plan /\ NewEntry.turn = turnsHeard
        /\ NewEntry \in [version : 0..MaxAchieved, saying : Sayings, plan : Seq(Steps),
                         turn : 1..MaxHeard]
    <3>1. turnsHeard \in 1..MaxHeard
      BY <1>1, PlanningAssumption DEF PlanningAssumption, TypesInv, PromptInv
    <3> QED BY <3>1 DEF NewEntry, TypesInv, PromptTurns
  <2>4. /\ planning.key = planning.sure /\ planning.sure <= Known
        /\ planning.begun <= planning.sure
    BY <1>1 DEF PromptInv
  <2>5. \A e \in prepared : e.turn < turnsHeard
    BY <1>1, <1>4 DEF CacheInv
  <2>6. \A e, f \in E : e.turn = f.turn => e = f
    BY <2>3, <2>5 DEF CacheInv, TypesInv
  <2>7. IsFiniteSet(E) /\ \A e \in E : e.turn \in Nat
    <3>1. IsFiniteSet(prepared \ Stored)
      <4>1. prepared \ Stored \in SUBSET prepared
        OBVIOUS
      <4> QED BY <4>1, FS_Subset DEF CacheInv
    <3>2. \A e \in E : e.turn \in Nat
      BY <2>3 DEF TypesInv
    <3> QED BY <3>1, <3>2, FS_AddElement
  <2>8. /\ prepared' \subseteq E /\ IsFiniteSet(prepared')
        /\ Cardinality(prepared') <= PreparedLimit
    <3> HIDE DEF E
    <3> QED BY <2>1, <2>6, <2>7, TrimSize
  <2>9. TypesInv'
    BY <1>1, <2>2, <2>3, <2>8 DEF TypesInv, Known
  <2>10. PromptInv'
    <3>1. Short(<<>>, planning.saying)
      BY EmptyIsShort DEF TypesInv, PromptTurns
    <3> QED BY <1>1, <1>4, <2>2, <3>1 DEF PromptInv, Known
  <2>11. ASSUME NEW e \in prepared'
         PROVE  /\ Short(e.plan, e.saying) /\ e.version <= Known /\ e.turn <= turnsHeard
                /\ e.version = Known => Faithful(achieved, e.plan, e.saying, Known)
    <3>1. CASE e \in prepared
      BY <3>1 DEF CacheInv
    <3>2. CASE e = NewEntry
      <4>1. Faithful(achieved, planning.plan, planning.saying, planning.sure)
        BY <1>1 DEF CacheInv
      <4>2. Short(planning.plan, planning.saying)
        BY DEF PromptInv
      <4>3. turnsHeard <= turnsHeard
        BY <2>3
      <4> QED BY <2>3, <2>4, <3>2, <4>1, <4>2, <4>3
    <3> QED BY <2>8, <3>1, <3>2
  <2>12. CacheInv'
    BY <1>1, <2>2, <2>6, <2>8, <2>11 DEF CacheInv, Known
  <2>13. planning.key = Known => Ready'
    <3>1. NewEntry \in E
      OBVIOUS
    <3>2. {f \in E : f.turn > NewEntry.turn} = {}
      BY <2>3, <2>5 DEF TypesInv
    <3>3. Cardinality({f \in E : f.turn > NewEntry.turn}) < PreparedLimit
      BY <3>2, FS_EmptySet, PlanningAssumption DEF PlanningAssumption
    <3>4. NewEntry \in prepared'
      BY <2>1, <3>1, <3>3 DEF Trim
    <3> QED BY <1>1, <2>2, <2>3, <3>4 DEF Ready, Known
  <2>14. planning.begun = Known => planning.key = Known
    BY <2>4 DEF TypesInv, PromptTurns, Known
  <2>15. ReuseInv'
    BY <1>1, <2>2, <2>13, <2>14 DEF ReuseInv, Known
  <2> QED BY <1>2, <2>9, <2>10, <2>12, <2>15
<1>5. planning.routing \in BOOLEAN
  BY DEF TypesInv, PromptTurns
<1> QED BY <1>3, <1>4, <1>5

LEMMA PlannedFields ==
  ASSUME TypesInv, NEW plan \in Seq(Steps), Planned(plan)
  PROVE  /\ planning' \in PromptTurns /\ planning'.at = "built" /\ planning'.plan = plan
         /\ planning'.saying = planning.saying /\ planning'.routing = planning.routing
         /\ planning'.key = planning.key /\ planning'.calls = planning.calls
         /\ planning'.begun = planning.begun /\ planning'.sure = planning.sure
BY DEF TypesInv, PromptTurns, Planned, Places

\* A turn that has its plan, short and faithful, keeps the invariant.
LEMMA PlannedInv ==
  ASSUME PlanningInv, planning.at \in {"build", "model"}, NEW plan \in Seq(Steps), Planned(plan),
         Short(plan, planning.saying), Faithful(achieved, plan, planning.saying, planning.sure),
         UNCHANGED <<turnsHeard, version, prepared, plannerNow, started, achieved>>,
         ContextInv', context' \subseteq context
  PROVE  PlanningInv'
<1> USE DEF PlanningInv
<1>1. /\ planning' \in PromptTurns /\ planning'.at = "built" /\ planning'.plan = plan
      /\ planning'.saying = planning.saying /\ planning'.routing = planning.routing
      /\ planning'.key = planning.key /\ planning'.calls = planning.calls
      /\ planning'.begun = planning.begun /\ planning'.sure = planning.sure
  BY PlannedFields
<1>2. TypesInv'
  BY <1>1 DEF TypesInv, Known
<1>3. PromptInv'
  BY <1>1 DEF PromptInv, Known
<1>4. CacheInv'
  BY <1>1 DEF CacheInv, Known
<1>5. ReuseInv'
  BY <1>1 DEF ReuseInv, Known
<1> QED BY <1>2, <1>3, <1>4, <1>5

LEMMA ModelAnswersStep == ASSUME PlanningInv, ModelAnswers PROVE PlanningInv'
<1> USE DEF PlanningInv
<1>1. /\ planning.at = "model"
      /\ UNCHANGED <<turnsHeard, context, version, prepared, plannerNow, started, achieved>>
  BY DEF ModelAnswers
<1>2. ContextInv'
  BY <1>1 DEF ContextInv, Known
<1>3. planning.saying \in Sayings
  BY DEF TypesInv, PromptTurns
<1>4. ASSUME NEW plan \in {<<"asked">>, <<>>}, Planned(plan) PROVE PlanningInv'
  <2>1. plan \in Seq(Steps)
    <3>1. "asked" \in Steps
      BY DEF Steps
    <3>2. <<"asked">> \in Seq(Steps) /\ <<>> \in Seq(Steps)
      BY <3>1
    <3> QED BY <3>2
  <2>2. Faithful(achieved, plan, planning.saying, planning.sure)
    BY DEF Faithful, References, Providing, Opened
  <2> QED BY <1>1, <1>2, <1>3, <1>4, <2>1, <2>2, EmptyIsShort, PlannedInv
<1>5. CASE GoTo("idle")
  <2>1. MovedOn("idle")
    BY <1>5, GoToFields DEF Places
  <2>2. TypesInv'
    BY <1>1, <2>1 DEF TypesInv, Known, MovedOn
  <2>3. PromptInv'
    BY <1>1, <2>1 DEF PromptInv, Known, MovedOn
  <2>4. CacheInv'
    BY <1>1, <2>1 DEF CacheInv, Known, MovedOn
  <2>5. ReuseInv'
    BY <1>1, <2>1 DEF ReuseInv, Known, MovedOn
  <2> QED BY <1>2, <2>2, <2>3, <2>4, <2>5
<1> QED BY <1>4, <1>5 DEF ModelAnswers

LEMMA BuildStep == ASSUME PlanningInv, Build PROVE PlanningInv'
<1> USE DEF PlanningInv
<1> DEFINE parts == planning.saying.parts
           next == Len(planning.plan) + 1
           step == StepFor(parts[next], Purged)
<1>1. /\ planning.at = "build"
      /\ UNCHANGED <<turnsHeard, version, prepared, plannerNow, started, achieved>>
  BY DEF Build
<1>2. /\ parts \in Seq(Parts) /\ Len(parts) \in Nat \ {0}
      /\ planning.saying \in Sayings /\ planning.plan \in Seq(Steps)
      /\ next \in 1..Len(parts) /\ Len(planning.plan) \in Nat
  BY <1>1, PartsOfSaying DEF TypesInv, PromptTurns, PromptInv
<1>3. parts[next] \in Parts
  BY <1>2
<1>4. planning.sure \in Nat /\ Known \in Nat /\ planning.sure <= Known
  BY <1>1 DEF TypesInv, PromptTurns, PromptInv, Known
<1>5. CASE Len(parts) > MaxPlanSteps
  <2>1. Planned(<<>>) /\ UNCHANGED context
    BY <1>5 DEF Build
  <2>2. ContextInv' /\ context' \subseteq context
    BY <1>1, <2>1 DEF ContextInv, Known
  <2>3. <<>> \in Seq(Steps)
    OBVIOUS
  <2> QED BY <1>1, <1>2, <2>1, <2>2, <2>3, EmptyIsShort, EmptyIsFaithful, PlannedInv
<1>6. CASE Len(parts) <= MaxPlanSteps
  <2>1. /\ context' = Purged
        /\ IF step # "none"
             THEN planning' = [planning EXCEPT !.plan = Append(@, step),
                                 !.at = IF next = Len(parts) THEN "built" ELSE "build"]
             ELSE IF Len(parts) > 1 \/ parts[next] = "refused"
                    THEN Planned(<<>>) ELSE GoTo("ask")
    BY <1>2, <1>6, PlanningAssumption DEF Build, PlanningAssumption
  <2>2. ContextInv' /\ context' \subseteq context
    BY <1>1, <2>1, PurgedContext
  <2>3. CASE step # "none"
    <3> DEFINE longer == Append(planning.plan, step)
               place == IF next = Len(parts) THEN "built" ELSE "build"
    <3>1. /\ step \in Steps
          /\ step \in References => step = NewestIn(achieved, KindOf(parts[next]), Known)
      <4> HIDE DEF step
      <4>1. step = StepFor(parts[next], Purged)
        BY DEF step
      <4> QED BY <1>3, <2>3, <4>1, PurgedIsSuffix, StepIsNewest
    <3>2. planning' = [planning EXCEPT !.plan = longer, !.at = place]
      BY <2>1, <2>3
    <3> HIDE DEF step
    <3>3. /\ longer \in Seq(Steps) /\ Len(longer) = next /\ place \in Places
          /\ \A i \in DOMAIN longer : i \in DOMAIN planning.plan \/ i = next
          /\ \A i \in DOMAIN planning.plan : longer[i] = planning.plan[i]
          /\ longer[next] = step
      BY <1>2, <3>1 DEF Places
    <3>4. Short(longer, planning.saying)
      BY <1>2, <1>6, <3>3, PlanningAssumption DEF Short, PlanningAssumption
    <3>5. Faithful(achieved, longer, planning.saying, planning.sure)
      <4>1. Faithful(achieved, planning.plan, planning.saying, planning.sure)
        BY <1>1 DEF CacheInv
      <4>2. ASSUME NEW i \in DOMAIN longer, longer[i] \in References
            PROVE  \E k \in planning.sure..Len(achieved) :
                     longer[i] = NewestIn(achieved, KindOf(parts[i]), k)
        <5>1. CASE i \in DOMAIN planning.plan
          BY <3>3, <4>1, <4>2, <5>1 DEF Faithful
        <5>2. CASE i = next
          <6>1. longer[i] = NewestIn(achieved, KindOf(parts[i]), Known)
            BY <3>1, <3>3, <4>2, <5>2
          <6>2. Known \in planning.sure..Len(achieved)
            BY <1>4 DEF Known
          <6> QED BY <6>1, <6>2
        <5> QED BY <3>3, <5>1, <5>2
      <4> HIDE DEF longer
      <4> QED BY <4>2 DEF Faithful
    <3> HIDE DEF longer
    <3>6. CASE next = Len(parts)
      <4>1. Planned(longer)
        BY <3>2, <3>6 DEF Planned
      <4> QED BY <1>1, <2>2, <3>3, <3>4, <3>5, <4>1, PlannedInv
    <3>7. CASE next # Len(parts)
      <4>1. /\ planning' \in PromptTurns /\ planning'.at = "build" /\ planning'.plan = longer
            /\ planning'.saying = planning.saying /\ planning'.routing = planning.routing
            /\ planning'.key = planning.key /\ planning'.calls = planning.calls
            /\ planning'.begun = planning.begun /\ planning'.sure = planning.sure
        BY <3>2, <3>3, <3>7 DEF TypesInv, PromptTurns
      <4>2. TypesInv'
        BY <1>1, <2>2, <4>1 DEF TypesInv, Known
      <4>3. PromptInv'
        BY <1>1, <1>2, <3>3, <3>4, <3>7, <4>1 DEF PromptInv, Known
      <4>4. CacheInv'
        BY <1>1, <3>5, <4>1 DEF CacheInv, Known
      <4>5. ReuseInv'
        BY <1>1, <4>1 DEF ReuseInv, Known
      <4> QED BY <2>2, <4>2, <4>3, <4>4, <4>5
    <3> QED BY <3>6, <3>7
  <2>4. CASE step = "none" /\ Planned(<<>>)
    <3>1. <<>> \in Seq(Steps)
      OBVIOUS
    <3> QED BY <1>1, <1>2, <2>2, <2>4, <3>1, EmptyIsShort, EmptyIsFaithful, PlannedInv
  <2>5. CASE step = "none" /\ Len(parts) <= 1 /\ GoTo("ask")
    <3>1. MovedOn("ask")
      BY <2>5, GoToFields DEF Places
    <3>2. planning.plan = <<>>
      BY <1>2, <2>5
    <3>3. TypesInv'
      BY <1>1, <2>2, <3>1 DEF TypesInv, Known, MovedOn
    <3>4. PromptInv'
      BY <1>1, <3>1, <3>2 DEF PromptInv, Known, MovedOn
    <3>5. CacheInv'
      BY <1>1, <3>1 DEF CacheInv, Known, MovedOn
    <3>6. ReuseInv'
      BY <1>1, <3>1 DEF ReuseInv, Known, MovedOn
    <3> QED BY <2>2, <3>3, <3>4, <3>5, <3>6
  <2> HIDE DEF step
  <2> QED BY <1>2, <2>1, <2>3, <2>4, <2>5
<1> QED BY <1>2, <1>5, <1>6, PlanningAssumption DEF PlanningAssumption

LEMMA AskModelStep == ASSUME PlanningInv, AskModel PROVE PlanningInv'
<1> USE DEF PlanningInv
<1>1. /\ planning.at = "ask" /\ planning.calls <= 1 /\ context' = Purged
      /\ UNCHANGED <<turnsHeard, version, prepared, plannerNow, started, achieved>>
  BY DEF AskModel, PromptInv
<1>2. ContextInv' /\ context' \subseteq context
  BY <1>1, PurgedContext
<1>3. /\ planning' \in PromptTurns /\ planning'.at = "model" /\ planning'.calls = planning.calls + 1
      /\ planning'.saying = planning.saying /\ planning'.routing = planning.routing
      /\ planning'.key = planning.key /\ planning'.plan = planning.plan
      /\ planning'.begun = planning.begun /\ planning'.sure = planning.sure
  <2>1. planning' = [planning EXCEPT !.at = "model", !.calls = planning.calls + 1]
    BY DEF AskModel
  <2>2. "model" \in Places /\ planning \in PromptTurns /\ planning.calls + 1 \in 0..2
    BY <1>1 DEF Places, TypesInv, PromptTurns
  <2> HIDE DEF PlanningInv
  <2>3. planning' \in PromptTurns
    BY <2>1, <2>2 DEF PromptTurns
  <2> QED BY <2>1, <2>2, <2>3 DEF PromptTurns
<1>4. TypesInv'
  BY <1>1, <1>2, <1>3 DEF TypesInv, Known
<1>5. PromptInv'
  BY <1>1, <1>3 DEF PromptInv, Known
<1>6. CacheInv'
  BY <1>1, <1>3 DEF CacheInv, Known
<1>7. ReuseInv'
  BY <1>1, <1>3 DEF ReuseInv, Known, TypesInv, PromptTurns
<1> QED BY <1>2, <1>4, <1>5, <1>6, <1>7

LEMMA ExecuteStep == ASSUME PlanningInv, Execute PROVE PlanningInv'
<1> USE DEF PlanningInv
<1>1. /\ planning.at = "taken" /\ started' \in {started, started + 1}
      /\ UNCHANGED <<turnsHeard, context, version, prepared, plannerNow, achieved>>
  BY DEF Execute
<1>2. MovedOn("idle")
  BY GoToFields DEF Execute, Places
<1>3. TypesInv'
  <2>1. turnsHeard \in Nat /\ started \in Nat /\ Known \in Nat
    BY PlanningAssumption DEF TypesInv, Known, PlanningAssumption
  <2>2. started < turnsHeard /\ Known <= started
    BY <1>1 DEF PromptInv, TypesInv
  <2>3. started' \in 0..turnsHeard /\ Known <= started'
    BY <1>1, <2>1, <2>2
  <2> QED BY <1>1, <1>2, <2>3 DEF TypesInv, Known, MovedOn
<1>4. PromptInv'
  BY <1>1, <1>2 DEF PromptInv, Known, MovedOn
<1>5. ContextInv'
  BY <1>1 DEF ContextInv, Known
<1>6. CacheInv'
  BY <1>1, <1>2 DEF CacheInv, Known, MovedOn
<1>7. ReuseInv'
  BY <1>1, <1>2 DEF ReuseInv, Known, MovedOn
<1> QED BY <1>3, <1>4, <1>5, <1>6, <1>7

LEMMA RecordSuccessStep == ASSUME PlanningInv, NEW deed \in Deeds, RecordSuccess(deed) PROVE PlanningInv'
<1> USE DEF PlanningInv
<1> DEFINE new == [number |-> Known + 1, deed |-> deed, at |-> plannerNow]
<1>1. /\ Known < started /\ Known < MaxAchieved /\ achieved' = Append(achieved, deed)
      /\ version' = version + 1 /\ prepared' = {}
      /\ UNCHANGED <<planning, turnsHeard, plannerNow, started>>
  BY DEF RecordSuccess, NextVersion, Known
<1>2. /\ achieved \in Seq(Deeds) /\ achieved' \in Seq(Deeds) /\ Known \in Nat
      /\ Known' = Known + 1
      /\ achieved'[Known + 1] = deed /\ \A k \in 1..Known : achieved'[k] = achieved[k]
  BY <1>1 DEF TypesInv, Known
<1>3. \A e : e \in context' <=>
               (e \in Purged \/ e = new) /\ e.number > Known + 1 - ContextSize
  <2>1. Len(achieved') = Known + 1
    BY <1>2 DEF Known
  <2>2. context' = {e \in Purged \cup {[number |-> Len(achieved'), deed |-> deed,
                                         at |-> plannerNow]} :
                      e.number > Len(achieved') - ContextSize}
    BY DEF RecordSuccess
  <2> HIDE DEF PlanningInv
  <2> QED BY <2>1, <2>2, <1>2, PlanningAssumption DEF PlanningAssumption
<1>4. new.number = Known + 1 /\ new.deed = deed /\ new.at = plannerNow
  OBVIOUS
<1>5. new \in [number : 1..MaxAchieved, deed : Deeds, at : 0..PlannerHorizon]
  BY <1>1, <1>2, PlanningAssumption DEF TypesInv, PlanningAssumption
<1> HIDE DEF new
<1>6. TypesInv'
  <2>1. context' \subseteq [number : 1..MaxAchieved, deed : Deeds, at : 0..PlannerHorizon]
    BY <1>3, <1>5, PurgedIsSuffix DEF TypesInv
  <2>2. started \in Nat /\ turnsHeard \in Nat /\ MaxAchieved \in Nat
    BY PlanningAssumption DEF PlanningAssumption, TypesInv
  <2>3. version' = Known' /\ Known' <= MaxAchieved /\ Known' <= started
    BY <1>1, <1>2, <2>2 DEF TypesInv
  <2> QED BY <1>1, <1>2, <2>1, <2>3 DEF TypesInv
<1>7. PromptInv'
  BY <1>1, <1>2 DEF PromptInv, TypesInv, PromptTurns
<1>8. ContextInv'
  <2>1. \A e \in Purged :
          /\ e \in context /\ e.number \in 1..Known /\ e.deed = achieved[e.number]
          /\ e.at <= plannerNow /\ e.at \in Nat
    BY <1>2, PurgedIsSuffix DEF ContextInv, TypesInv
  <2>2. plannerNow \in Nat /\ ContextSize \in Nat /\ ContextSize > 0
    BY PlanningAssumption DEF TypesInv, PlanningAssumption
  <2>3. new \in context'
    BY <1>2, <1>3, <1>4, <2>2
  <2>4. ASSUME NEW e \in context'
        PROVE  /\ e.number <= Known' /\ e.number > Known' - ContextSize
               /\ e.deed = achieved'[e.number] /\ e.at <= plannerNow'
    <3> HIDE DEF PlanningInv
    <3>1. e.number > Known' - ContextSize /\ (e \in Purged \/ e = new)
      BY <1>2, <1>3, <2>2
    <3>2. /\ Known \in Nat /\ Known' = Known + 1 /\ plannerNow' = plannerNow
          /\ achieved'[Known + 1] = deed
          /\ \A k \in 1..Known : achieved'[k] = achieved[k]
      BY <1>1, <1>2
    <3>3. CASE e = new
      <4>1. e.number = Known + 1 /\ e.deed = deed /\ e.at = plannerNow
        BY <1>4, <3>3
      <4> QED BY <2>2, <3>1, <3>2, <4>1
    <3>4. CASE e \in Purged
      <4>1. /\ e.number \in 1..Known /\ e.deed = achieved[e.number] /\ e.at <= plannerNow
        BY <2>1, <3>4
      <4>2. e.deed = achieved'[e.number]
        BY <3>2, <4>1
      <4> QED BY <3>1, <3>2, <4>1, <4>2
    <3> QED BY <3>1, <3>3, <3>4
  <2>5. ASSUME NEW e \in context', NEW k \in e.number..Known'
        PROVE  \E f \in context' : f.number = k
    <3>1. CASE k = Known + 1
      BY <1>4, <2>3, <3>1
    <3>2. CASE k # Known + 1
      <4>1. e.number \in Int /\ e.number > Known + 1 - ContextSize /\ e \in Purged
        BY <1>2, <1>3, <1>4, <2>1, <3>2
      <4>2. k \in e.number..Known
        BY <1>2, <3>2, <4>1
      <4>3. PICK f \in Purged : f.number = k
        BY <4>1, <4>2, PurgedIsSuffix
      <4>4. f.number > Known + 1 - ContextSize
        BY <1>2, <2>2, <4>1, <4>2, <4>3
      <4> QED BY <1>3, <4>3, <4>4
    <3> QED BY <3>1, <3>2
  <2>6. ASSUME NEW e \in context', NEW f \in context'
        PROVE  /\ e.number = f.number => e = f
               /\ e.number < f.number => e.at <= f.at
    <3>1. CASE e \in Purged /\ f \in Purged
      BY <2>1, <3>1 DEF ContextInv
    <3>2. CASE e = new
      BY <1>2, <1>3, <1>4, <2>1, <2>2, <3>2
    <3>3. CASE f = new
      BY <1>2, <1>3, <1>4, <2>1, <2>2, <3>3
    <3> QED BY <1>3, <3>1, <3>2, <3>3
  <2> QED BY <2>4, <2>5, <2>6 DEF ContextInv
<1>9. CacheInv'
  <2>1. planning.at \in {"build", "built", "taken"} =>
          Faithful(achieved', planning.plan, planning.saying, planning.sure)
    <3>1. planning.at \in {"build", "built", "taken"} =>
            planning.sure \in 0..Len(achieved)
      BY DEF PromptInv, TypesInv, PromptTurns, Known
    <3> QED BY <1>1, <1>2, <3>1, FaithfulStays DEF CacheInv
  <2>2. IsFiniteSet({}) /\ Cardinality({}) <= PreparedLimit
    BY FS_EmptySet, PlanningAssumption DEF PlanningAssumption
  <2> QED BY <1>1, <2>1, <2>2 DEF CacheInv
<1>10. ReuseInv'
  BY <1>1, <1>2 DEF ReuseInv, PromptInv, TypesInv, PromptTurns
<1> QED BY <1>6, <1>7, <1>8, <1>9, <1>10

LEMMA PlannerTickStep == ASSUME PlanningInv, PlannerTick PROVE PlanningInv'
<1> USE DEF PlanningInv
<1>1. /\ plannerNow < PlannerHorizon /\ plannerNow' = plannerNow + 1
      /\ UNCHANGED <<planning, turnsHeard, context, version, prepared, started, achieved>>
  BY DEF PlannerTick
<1>2. TypesInv'
  BY <1>1, PlanningAssumption DEF TypesInv, Known, PlanningAssumption
<1>3. PromptInv'
  BY <1>1 DEF PromptInv, Known
<1>4. ContextInv'
  BY <1>1 DEF ContextInv, Known, TypesInv
<1>5. CacheInv'
  BY <1>1 DEF CacheInv, Known
<1>6. ReuseInv'
  BY <1>1 DEF ReuseInv, Known, Ready
<1> QED BY <1>2, <1>3, <1>4, <1>5, <1>6

-----------------------------------------------------------------------------
LEMMA PlanningInitially == PlanningInit => PlanningInv
<1> SUFFICES ASSUME PlanningInit PROVE PlanningInv
  OBVIOUS
<1>1. PICK s \in Sayings : planning = Unspoken(s)
  BY DEF PlanningInit
<1>2. /\ turnsHeard = 0 /\ started = 0 /\ version = 0 /\ plannerNow = 0
      /\ context = {} /\ prepared = {} /\ achieved = <<>>
  BY DEF PlanningInit
<1>3. Known = 0
  BY <1>2 DEF Known
<1>4. /\ planning \in PromptTurns /\ planning.at = "idle" /\ planning.saying = s
      /\ planning.routing /\ planning.plan = <<>> /\ planning.calls = 0
      /\ planning.begun = 0 /\ planning.sure = 0
  BY <1>1, PlanningAssumption DEF Unspoken, PromptTurns, Places, PlanningAssumption
<1>5. TypesInv
  BY <1>2, <1>3, <1>4, PlanningAssumption DEF TypesInv, PlanningAssumption
<1>6. PromptInv
  BY <1>3, <1>4, EmptyIsShort DEF PromptInv
<1>7. ContextInv
  BY <1>2 DEF ContextInv
<1>8. CacheInv
  BY <1>2, <1>4, FS_EmptySet, PlanningAssumption DEF CacheInv, PlanningAssumption
<1>9. ReuseInv
  BY <1>4 DEF ReuseInv
<1> QED BY <1>5, <1>6, <1>7, <1>8, <1>9 DEF PlanningInv

LEMMA PlanningPreserved == PlanningInv /\ [PlanningNext]_planningVars => PlanningInv'
<1>1. ASSUME PlanningInv, PlanningNext PROVE PlanningInv'
  BY <1>1, HearStep, ClaimedStep, RouteStep, ClassifyStep, RespondOrPlanStep, ReadKeyStep,
     LookStep, KeepStep, BuildStep, AskModelStep, ModelAnswersStep, ExecuteStep,
     RecordSuccessStep, PlannerTickStep
     DEF PlanningNext
<1>2. ASSUME PlanningInv, UNCHANGED planningVars PROVE PlanningInv'
  BY <1>2 DEF planningVars, PlanningInv, TypesInv, PromptInv, ContextInv, CacheInv, ReuseInv, Known, Ready
<1> QED BY <1>1, <1>2

LEMMA PlanningInvariance == PlanningSpec => []PlanningInv
BY PlanningInitially, PlanningPreserved, PTL DEF PlanningSpec

\* The context holds no more than its limit: the numbers of its actions are
\* different and lie in a window of that size.
LEMMA ContextIsBounded ==
  ASSUME PlanningInv
  PROVE  Cardinality(context) <= ContextSize
<1> USE DEF PlanningInv
<1> DEFINE window == (Known - ContextSize + 1)..Known
           number == [e \in context |-> e.number]
<1>1. Known \in Nat /\ ContextSize \in Nat
  BY PlanningAssumption DEF TypesInv, Known, PlanningAssumption
<1>2. IsFiniteSet(window) /\ Cardinality(window) = ContextSize
  BY <1>1, Known - ContextSize + 1 \in Int, FS_Interval
<1>3. \A e \in context : e.number \in window
  BY <1>1 DEF ContextInv, TypesInv
<1>4. number \in Injection(context, window)
  BY <1>3 DEF Injection, IsInjective, ContextInv
<1> HIDE DEF window, number
<1> QED BY <1>2, <1>4, FS_Injection

LEMMA PlanningIsTyped == PlanningInv => PlanningTypeOK
<1> SUFFICES ASSUME PlanningInv PROVE PlanningTypeOK
  OBVIOUS
<1>1. version \in 0..MaxAchieved
  BY PlanningAssumption DEF PlanningInv, TypesInv, Known, PlanningAssumption
<1> QED BY <1>1, ContextIsBounded
        DEF PlanningInv, TypesInv, PromptInv, CacheInv, PromptTurns, Short, Known, PlanningTypeOK

(* Every variable of router and planner keeps its type, the context never    *)
(* holds more than MAX_CONTEXT_ACTIONS and the cache never more than its     *)
(* limit, and no plan is longer than MAX_PLAN_STEPS.                         *)
THEOREM PlanningTypeCorrect == PlanningSpec => []PlanningTypeOK
BY PlanningIsTyped, PlanningInvariance, PTL

(* A plan about to run, prepared by the router or just made, refers to the   *)
(* action that was the newest of its kind at some moment after the agent     *)
(* asked for the plan, wherever the task worker reported its successes.      *)
THEOREM ReferencesAreFresh == PlanningSpec => []NewestIsMeant
<1>1. ASSUME NEW kind, NEW n PROVE NewestIn(achieved, kind, n) = NewestOf(kind, n)
  BY DEF NewestIn, NewestOf
<1>2. PlanningInv => NewestIsMeant
  BY <1>1 DEF PlanningInv, CacheInv, Faithful, NewestIsMeant, References
<1> QED BY <1>2, PlanningInvariance, PTL

(* A short command is put to the model twice in a turn only if an action     *)
(* succeeded since the turn began: the plan of the router is not lost        *)
(* between the router and the agent.                                         *)
THEOREM RouterPlanIsUsed == PlanningSpec => []PlanIsReused
<1>1. PlanningInv => PlanIsReused
  BY DEF PlanningInv, ReuseInv, PromptInv, TypesInv, PromptTurns, Known, PlanIsReused
<1> QED BY <1>1, PlanningInvariance, PTL

=============================================================================
