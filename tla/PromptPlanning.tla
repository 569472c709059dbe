---------------------------- MODULE PromptPlanning ----------------------------
(***************************************************************************)
(* ron/routing.py and ron/agent/planner.py, as assistant.py and            *)
(* agent/service.py use them.  The router takes a prompt for conversation  *)
(* or for an action and asks the planner when no rule decides; the plan    *)
(* made for that question is prepared for the agent, which takes it or     *)
(* makes one.  A reference such as "the next one" means the newest action  *)
(* that succeeded, and the task worker reports successes from its own      *)
(* thread at any point of a turn.  Turns run one at a time.                *)
(***************************************************************************)
EXTENDS Integers, Sequences, FiniteSets

CONSTANTS Sayings,        \* prompts: what the patterns of router and planner make of them
          Deeds,          \* successful actions, by what a reference to them means
          ContextSize,    \* MAX_CONTEXT_ACTIONS
          ContextTtl,     \* context_ttl_seconds
          PreparedLimit,  \* _prepared_limit
          MaxPlanSteps,   \* MAX_PLAN_STEPS
          MaxHeard, MaxAchieved, PlannerHorizon   \* bounds

(* A rule for conversation matches, or one for live state or for actions;    *)
(* else the prompt looks like a short command, it asks for something in more *)
(* than 24 words, or none of it.                                             *)
Ruled == {"talk", "order"}
Shapes == Ruled \cup {"command", "request", "remark"}

(* A part of a prompt has a fixed plan, is refused, refers to the media or   *)
(* to what was opened ("pause" to the media, with a plan of its own when     *)
(* there is none), or says nothing to the patterns.                          *)
Parts == {"fixed", "refused", "media", "pause", "open", "free"}

(* What a reference means: the provider of the media, the thing opened.      *)
Providing == {"spotify", "windows"}
Opened == {"notepad", "downloads"}
Steps == {"fixed", "asked"} \cup Providing \cup Opened

ASSUME PlanningAssumption ==
  /\ Sayings \subseteq [shape : Shapes, parts : Seq(Parts) \ {<<>>}]
  /\ Deeds \subseteq [media : Providing \cup {"none"}, open : Opened \cup {"none"}]
  /\ ContextSize \in Nat \ {0} /\ ContextTtl \in Nat \ {0} /\ PreparedLimit \in Nat \ {0}
  /\ MaxPlanSteps \in Nat \ {0}
  /\ MaxHeard \in Nat /\ MaxAchieved \in Nat /\ PlannerHorizon \in Nat

VARIABLES
  planning,     \* the turn: its place, prompt, cache key and plan; whether the router asks
  turnsHeard,   \* turns so far
  context,      \* _recent_successes, each with its number and its time
  version,      \* _context_version
  prepared,     \* _prepared: the key of an entry, its plan, and the turn that stored it
  plannerNow,
  started,      \* plans given to execution
  achieved      \* history: every deed that succeeded, in order

planningVars == <<planning, turnsHeard, context, version, prepared, plannerNow, started,
                  achieved>>

Places == {"idle", "route", "classify", "key", "look", "build", "ask", "model", "built",
           "respond", "taken"}

\* begun and sure are histories: the successes known as the turn began, and
\* as the agent read its key; calls counts the questions to a model.
Unspoken(s) == [at |-> "idle", saying |-> s, routing |-> TRUE, key |-> 0, plan |-> <<>>,
                calls |-> 0, begun |-> 0, sure |-> 0]

PlanningTypeOK ==
  /\ planning \in [at : Places, saying : Sayings, routing : BOOLEAN, key : 0..MaxAchieved,
                   plan : Seq(Steps), calls : 0..2, begun : 0..MaxAchieved,
                   sure : 0..MaxAchieved]
  /\ Len(planning.plan) <= MaxPlanSteps /\ Len(planning.plan) <= Len(planning.saying.parts)
  /\ turnsHeard \in 0..MaxHeard /\ started \in 0..turnsHeard
  /\ version \in 0..MaxAchieved /\ plannerNow \in 0..PlannerHorizon
  /\ achieved \in Seq(Deeds) /\ Len(achieved) <= MaxAchieved /\ Len(achieved) <= started
  /\ context \subseteq [number : 1..MaxAchieved, deed : Deeds, at : 0..PlannerHorizon]
  /\ Cardinality(context) <= ContextSize
  /\ prepared \subseteq [version : 0..MaxAchieved, saying : Sayings, plan : Seq(Steps),
                         turn : 1..MaxHeard]
  /\ Cardinality(prepared) <= PreparedLimit

PlanningInit ==
  /\ \E s \in Sayings : planning = Unspoken(s)
  /\ turnsHeard = 0 /\ started = 0 /\ version = 0 /\ plannerNow = 0
  /\ context = {} /\ prepared = {} /\ achieved = <<>>

GoTo(place) == planning' = [planning EXCEPT !.at = place]
Planned(plan) == planning' = [planning EXCEPT !.at = "built", !.plan = plan]

-----------------------------------------------------------------------------
\* PromptRouter.route, and what becomes of its decision.

Hear(s) ==
  /\ planning.at = "idle" /\ turnsHeard < MaxHeard
  /\ planning' = [Unspoken(s) EXCEPT !.at = "route", !.begun = Len(achieved)]
  /\ turnsHeard' = turnsHeard + 1
  /\ UNCHANGED <<context, version, prepared, plannerNow, started, achieved>>

(* The memory or a pending question of the agent may claim the prompt.       *)
Claimed ==
  /\ planning.at = "route"
  /\ GoTo("idle") \/ GoTo("respond")
  /\ UNCHANGED <<turnsHeard, context, version, prepared, plannerNow, started, achieved>>

Route ==
  /\ planning.at = "route"
  /\ GoTo([talk |-> "idle", order |-> "respond", command |-> "key", request |-> "classify",
           remark |-> "idle"][planning.saying.shape])
  /\ UNCHANGED <<turnsHeard, context, version, prepared, plannerNow, started, achieved>>

Classify ==
  /\ planning.at = "classify"
  /\ \E place \in {"idle", "respond"} :
       planning' = [planning EXCEPT !.at = place, !.calls = @ + 1]
  /\ UNCHANGED <<turnsHeard, context, version, prepared, plannerNow, started, achieved>>

(* can_handle has its answer: an action when the plan has steps.             *)
Resolved(plan) == planning' = [planning EXCEPT !.plan = <<>>,
                                               !.at = IF plan = <<>> THEN "idle" ELSE "respond"]

(* The agent may take the prompt for a control of its tasks or reminders, an *)
(* answer or a repetition, or find the turn replaced; else it needs a plan.  *)
RespondOrPlan ==
  /\ planning.at = "respond"
  /\ \/ /\ GoTo("idle") /\ started' \in {started, started + 1}
     \/ /\ planning' = [planning EXCEPT !.at = "key", !.routing = FALSE]
        /\ UNCHANGED started
  /\ UNCHANGED <<turnsHeard, context, version, prepared, plannerNow, achieved>>

-----------------------------------------------------------------------------
\* The cache of can_handle and plan_steps.

ReadKey ==
  /\ planning.at = "key"
  /\ planning' = [planning EXCEPT !.at = "look", !.key = version, !.sure = Len(achieved)]
  /\ UNCHANGED <<turnsHeard, context, version, prepared, plannerNow, started, achieved>>

Stored == {e \in prepared : e.version = planning.key /\ e.saying = planning.saying}

(* The router reads an entry, the agent takes it out.                        *)
Look ==
  /\ planning.at = "look"
  /\ IF Stored = {}
       THEN GoTo("build") /\ UNCHANGED prepared
       ELSE \E e \in Stored :
              IF planning.routing
                THEN Resolved(e.plan) /\ UNCHANGED prepared
                ELSE /\ planning' = [planning EXCEPT !.at = "taken", !.plan = e.plan]
                     /\ prepared' = prepared \ {e}
  /\ UNCHANGED <<turnsHeard, context, version, plannerNow, started, achieved>>

NewEntry == [version |-> planning.key, saying |-> planning.saying, plan |-> planning.plan,
          turn |-> turnsHeard]
Trim(entries) == {e \in entries : Cardinality({f \in entries : f.turn > e.turn}) < PreparedLimit}

(* The router stores the plan under the key it read before it was made.      *)
Keep ==
  /\ planning.at = "built"
  /\ IF planning.routing
       THEN Resolved(planning.plan) /\ prepared' = Trim((prepared \ Stored) \cup {NewEntry})
       ELSE GoTo("taken") /\ UNCHANGED prepared
  /\ UNCHANGED <<turnsHeard, context, version, plannerNow, started, achieved>>

-----------------------------------------------------------------------------
\* AgentPlanner._build_plan_steps

Purged == {e \in context : e.at >= plannerNow - ContextTtl}

(* The newest relevant action of the context, for a reference of the kind.   *)
Relevant(kind, deeds) == {e \in deeds : e.deed[kind] # "none"}
Meant(kind, deeds) ==
  IF Relevant(kind, deeds) = {} THEN "none"
  ELSE (CHOOSE e \in Relevant(kind, deeds) :
          \A f \in Relevant(kind, deeds) : f.number <= e.number).deed[kind]
KindOf(part) == IF part = "open" THEN "open" ELSE "media"

(* The step of a part, "none" when the patterns give it none.                *)
StepFor(part, deeds) ==
  CASE part = "fixed" -> "fixed"
    [] part \in {"media", "open"} -> Meant(KindOf(part), deeds)
    [] part = "pause" -> IF Meant("media", deeds) = "none" THEN "fixed" ELSE Meant("media", deeds)
    [] OTHER -> "none"

Build ==
  /\ planning.at = "build"
  /\ LET parts == planning.saying.parts
         next == Len(planning.plan) + 1
         step == StepFor(parts[next], Purged)
     IN IF Len(parts) > MaxPlanSteps
          THEN Planned(<<>>) /\ UNCHANGED context
          ELSE /\ context' = Purged
               /\ IF step # "none"
                    THEN planning' = [planning EXCEPT !.plan = Append(@, step),
                                        !.at = IF next = Len(parts) THEN "built" ELSE "build"]
                    ELSE IF Len(parts) > 1 \/ parts[next] = "refused"
                           THEN Planned(<<>>) ELSE GoTo("ask")
  /\ UNCHANGED <<turnsHeard, version, prepared, plannerNow, started, achieved>>

(* The summary of the context goes to the model, which names a tool or none. *)
AskModel ==
  /\ planning.at = "ask"
  /\ context' = Purged
  /\ planning' = [planning EXCEPT !.at = "model", !.calls = @ + 1]
  /\ UNCHANGED <<turnsHeard, version, prepared, plannerNow, started, achieved>>

(* Or the call fails: without a plan, or by interrupting the turn.           *)
ModelAnswers ==
  /\ planning.at = "model"
  /\ Planned(<<"asked">>) \/ Planned(<<>>) \/ GoTo("idle")
  /\ UNCHANGED <<turnsHeard, context, version, prepared, plannerNow, started, achieved>>

-----------------------------------------------------------------------------
\* Execution, and the report of a success by the turn or by the task worker.

Execute ==
  /\ planning.at = "taken"
  /\ GoTo("idle")
  /\ \/ planning.plan # <<>> /\ started' = started + 1
     \/ UNCHANGED started
  /\ UNCHANGED <<turnsHeard, context, version, prepared, plannerNow, achieved>>

\* Fault: a success leaves the version of the context as it is.
VersionStays == version

NextVersion == version + 1

RecordSuccess(deed) ==
  /\ Len(achieved) < started /\ Len(achieved) < MaxAchieved
  /\ achieved' = Append(achieved, deed)
  /\ context' = {e \in Purged \cup {[number |-> Len(achieved'), deed |-> deed, at |-> plannerNow]} :
                   e.number > Len(achieved') - ContextSize}
  /\ version' = NextVersion
  /\ prepared' = {}
  /\ UNCHANGED <<planning, turnsHeard, plannerNow, started>>

PlannerTick ==
  /\ plannerNow < PlannerHorizon
  /\ plannerNow' = plannerNow + 1
  /\ UNCHANGED <<planning, turnsHeard, context, version, prepared, started, achieved>>

PlanningNext ==
  \/ \E s \in Sayings : Hear(s)
  \/ Claimed \/ Route \/ Classify \/ RespondOrPlan \/ ReadKey \/ Look \/ Keep
  \/ Build \/ AskModel \/ ModelAnswers \/ Execute
  \/ \E deed \in Deeds : RecordSuccess(deed)
  \/ PlannerTick

PlanningSpec == PlanningInit /\ [][PlanningNext]_planningVars

-----------------------------------------------------------------------------
(* The newest relevant deed of the first n, by definition.                   *)
NewestOf(kind, n) ==
  LET relevant == {k \in 1..n : achieved[k][kind] # "none"}
  IN IF relevant = {} THEN "none"
     ELSE achieved[CHOOSE k \in relevant : \A j \in relevant : j <= k][kind]

(* A plan the agent is about to run, prepared or just made, refers to the    *)
(* action that was the newest of its kind at some moment after the agent     *)
(* asked for it: an action that succeeded while the router was at work       *)
(* never leaves a plan that pauses or opens what the user meant before.      *)
NewestIsMeant ==
  planning.at = "taken" =>
    \A i \in DOMAIN planning.plan :
      planning.plan[i] \in Providing \cup Opened =>
        \E n \in planning.sure..Len(achieved) :
          planning.plan[i] = NewestOf(KindOf(planning.saying.parts[i]), n)

(* A short command is not planned by the model twice: when the agent asks    *)
(* the model after the router did, an action succeeded in between.           *)
PlanIsReused ==
  planning.saying.shape = "command" /\ planning.calls > 1 => planning.begun < Len(achieved)
=============================================================================
