------------------------------ MODULE GoalMode ------------------------------
(***************************************************************************)
(* product/plan-goal.ts and goal-state.ts: a goal that is planned by the   *)
(* model, executed over many runs of the session, and stopped by its       *)
(* budget, by an audit of blockers, by the user or by completion.          *)
(*                                                                         *)
(* The session is its runs: turns, tool calls between them, and the        *)
(* settlement, in which goal mode may ask for another run.  Children of    *)
(* the session and their results are one flag, `deps`.                     *)
(*                                                                         *)
(* A plan is counted, not listed: how many items, how many of them are     *)
(* checked, whether all have evidence once they are, and the blocker of    *)
(* the open ones (the blockerFingerprint of validateStructuredGoalPlan).   *)
(* The state is saved at every change, so what is stored is `goal`.        *)
(***************************************************************************)
EXTENDS Integers

CONSTANTS
    MaxItems,       \* bound: items of a plan
    TurnsPerItem,   \* of an adaptive budget
    NoProgressTurns,\* turns without a checked item that end an adaptive grant
    FixedTurns,     \* the fixed budget that the user asks for
    Blockers,       \* fingerprints: the blockers of the open items, joined
    Oversized,      \* those of more than 50,000 characters
    PlanAttempts,   \* settlements that planning survives without a plan
    AuditRuns,      \* settlements with one blocker that block a goal
    Strikes,        \* attempts on the protected plan that block it
    MaxRejections,  \* refusals of one kind in a row that pause it
    Overlaps        \* bound: an objective is entered while a planning runs or is asked for

ASSUME GoalAssumption ==
    /\ {MaxItems, TurnsPerItem, NoProgressTurns, FixedTurns, PlanAttempts, AuditRuns, Strikes,
        MaxRejections} \subseteq Nat \ {0}
    /\ "none" \notin Blockers /\ Oversized \subseteq Blockers /\ Overlaps \in BOOLEAN

VARIABLES
    workflow,       \* "idle", "planning" or "goal"
    autoStart,      \* of a planning: execution follows
    planEnds,       \* settlements of a planning
    unfit,          \* a text of the goal is not read back: the objective for good,
                    \* supplemental instructions until others take their place
    goal, plan,     \* the goal and its plan, when there is one
    rejected,       \* the refusals in a row, of which kind
    request,        \* create_goal was accepted
    corrupt,        \* what was stored could not be read
    tools, before,  \* the active tools, and those from before planning
    dialog,         \* a command waits for the user to enter an objective
    run,            \* "idle" or "running"
    turned,         \* the run has completed a turn
    stopping,       \* the run was aborted
    deps            \* children at work, or results not yet consumed

planningVars == <<autoStart, planEnds, unfit, tools, before>>
runVars == <<run, turned, stopping>>
vars == <<workflow, planningVars, goal, plan, rejected, request, corrupt, dialog, runVars,
          deps>>

Statuses == {"active", "paused", "blocked", "usage-limited", "complete", "aborted"}
Modes == {"unbounded", "adaptive", "fixed"}
NewPlan(items) == [total |-> items, checked |-> 0, proven |-> FALSE, blocker |-> "none"]
NoPlan == NewPlan(0)
Remaining(p) == p.total - p.checked
Plans == {p \in [total : 1..MaxItems, checked : 0..MaxItems, proven : BOOLEAN,
                 blocker : Blockers \cup {"none"}] :
            /\ p.checked <= p.total
            /\ p.proven => Remaining(p) = 0
            /\ Remaining(p) = 0 => p.blocker = "none"}

(* goalTurnBudget and budgetFields; 0 stands for none.                     *)
Budget(mode, items) ==
    CASE mode = "unbounded" -> 0
      [] mode = "adaptive" -> items * TurnsPerItem
      [] mode = "fixed" -> FixedTurns

(* A grant: what createActiveGoalState and resumeGoal set up.              *)
Grant(mode, p) ==
    [status |-> "active", why |-> "none", mode |-> mode, budget |-> Budget(mode, p.total),
     turns |-> 0, grantStart |-> IF mode = "adaptive" THEN p.checked ELSE 0,
     last |-> p.checked, fingerprint |-> "none", blockedRuns |-> 0, strikes |-> 0]

NoGoal == [Grant("unbounded", NoPlan) EXCEPT !.status = "aborted"]
NoRejection == [code |-> "none", count |-> 0]

Active == workflow = "goal" /\ goal.status = "active"
Finished == workflow = "goal" /\ goal.status \in {"complete", "aborted"}
Unfinished == workflow = "goal" /\ ~Finished

(* Bound: turns that nothing looks at are not counted further.             *)
Turned(g) == IF g.mode = "unbounded" \/ g.turns > g.budget THEN g.turns ELSE g.turns + 1

Init ==
    /\ workflow = "idle" /\ autoStart = FALSE /\ planEnds = 0 /\ unfit = "none"
    /\ goal = NoGoal /\ plan = NoPlan /\ rejected = NoRejection
    /\ request = FALSE /\ corrupt = FALSE
    /\ tools = "full" /\ before = "full" /\ dialog = FALSE
    /\ run = "idle" /\ turned = FALSE /\ stopping = FALSE /\ deps = FALSE

-----------------------------------------------------------------------------
(* Runs.                                                                   *)
NextRun(starts) ==
    run' = (IF starts THEN "running" ELSE "idle") /\ turned' = FALSE /\ stopping' = FALSE

StartRun == IF run = "running" THEN UNCHANGED runVars ELSE NextRun(TRUE)

(* Stops of a goal keep everything but the status.                         *)
Stopped(status, why) == [goal EXCEPT !.status = status, !.why = why]

(* pauseActiveGoal                                                         *)
Pause(why) == goal' = IF Active THEN Stopped("paused", why) ELSE goal

-----------------------------------------------------------------------------
(* Planning.                                                               *)
ToIdle ==
    /\ workflow' = "idle" /\ goal' = NoGoal /\ plan' = NoPlan
    /\ autoStart' = FALSE /\ planEnds' = 0 /\ unfit' = "none" /\ before' = "full"

(* beginGoalPlanning, which refuses beside an unfinished goal, and only    *)
(* then; it sends a user message, which starts a run.  Nothing looks at    *)
(* how long the objective is, or whether it has a NUL in it.               *)
Begins(auto) ==
    /\ ~corrupt /\ ~Unfinished
    /\ workflow' = "planning" /\ autoStart' = auto /\ planEnds' = 0
    /\ unfit' \in {"none", "objective"}
    /\ goal' = NoGoal /\ plan' = NoPlan
    /\ before' = tools /\ tools' = "planning"

(* set_goal_plan while planning: the tools come back, and the plan is      *)
(* executed, or kept for /goal when it was made by /plan.                  *)
Installs(p, mode) ==
    /\ workflow' = "goal" /\ plan' = p
    /\ goal' = IF autoStart THEN Grant(mode, p)
               ELSE [Grant(mode, p) EXCEPT !.status = "paused", !.why = "plan-ready"]
    /\ rejected' = NoRejection /\ autoStart' = FALSE /\ planEnds' = 0 /\ before' = "full"
    /\ tools' = before /\ UNCHANGED unfit

(* protectedViolation, in whatever state the goal is.                      *)
Violates ==
    LET strikes == goal.strikes + 1
    IN  /\ strikes <= Strikes + 1  \* bound: one more than the code expects
        /\ goal' = [goal EXCEPT !.strikes = strikes,
                                !.status = IF strikes >= Strikes THEN "blocked" ELSE @,
                                !.why = IF strikes >= Strikes THEN "plan-invalidated" ELSE @]
        /\ stopping' = (stopping \/ strikes >= Strikes)

-----------------------------------------------------------------------------
(* Tools, in a run that was not stopped.                                   *)
Calling == run = "running" /\ ~stopping

CreateGoal ==
    /\ Calling /\ ~request /\ ~corrupt /\ workflow # "planning" /\ ~Unfinished
    /\ request' = TRUE
    /\ UNCHANGED <<workflow, planningVars, goal, plan, rejected, corrupt, dialog, runVars,
                   deps>>

SetPlan(items, mode) ==
    /\ Calling /\ workflow = "planning"
    /\ autoStart \/ mode = "unbounded"
    /\ Installs(NewPlan(items), mode)
    /\ UNCHANGED <<request, corrupt, dialog, runVars, deps>>

(* Another plan, or the weakening of an item of this one.                  *)
ViolatePlan ==
    /\ Calling /\ workflow = "goal"
    /\ Violates
    /\ UNCHANGED <<workflow, planningVars, plan, rejected, request, corrupt, dialog, run,
                   turned, deps>>

(* update_goal_plan with a change: last follows the plan.                  *)
UpdatePlan(p) ==
    /\ Calling /\ Active
    /\ p # plan /\ p.total >= plan.total
    /\ p.total = plan.total /\ plan.proven => p.proven \/ Remaining(p) > 0
    /\ plan' = p /\ goal' = [goal EXCEPT !.last = p.checked]
    /\ rejected' = NoRejection
    /\ UNCHANGED <<workflow, planningVars, request, corrupt, dialog, runVars, deps>>

(* rejectGoalTool: the same refusal again and again, of the same goal with *)
(* the same plan and the same audit, stops it.                             *)
Reject(code) ==
    LET count == IF rejected.code = code THEN rejected.count + 1 ELSE 1
    IN  IF count < MaxRejections
        THEN rejected' = [code |-> code, count |-> count] /\ UNCHANGED <<goal, stopping>>
        ELSE stopping' = TRUE /\ Pause("tool-loop") /\ rejected' = NoRejection

RejectUpdate ==
    /\ Calling /\ Active
    /\ Reject("no-change")
    /\ UNCHANGED <<workflow, planningVars, plan, request, corrupt, dialog, run, turned, deps>>

(* Mutant: evidence is not asked for.                                      *)
CompletableUnproven == Remaining(plan) = 0 /\ ~deps

(* completionError                                                         *)
Completable == Remaining(plan) = 0 /\ plan.proven /\ ~deps

Complete == goal' = Stopped("complete", "none")

AskComplete ==
    /\ Calling /\ Active
    /\ IF Completable
       THEN Complete /\ rejected' = NoRejection /\ UNCHANGED stopping
       ELSE Reject("unproven")
    /\ UNCHANGED <<workflow, planningVars, plan, request, corrupt, dialog, run, turned, deps>>

AskBlocked ==
    /\ Calling /\ Active
    /\ IF goal.fingerprint = "none" \/ goal.blockedRuns < AuditRuns
       THEN Reject("audit")
       ELSE goal' = Stopped("blocked", "audit") /\ rejected' = NoRejection /\ UNCHANGED stopping
    /\ UNCHANGED <<workflow, planningVars, plan, request, corrupt, dialog, run, turned, deps>>

-----------------------------------------------------------------------------
(* Turns and settlements.                                                  *)

(* turn_end counts the turn.  A grant whose items are all checked has no   *)
(* budget any more.                                                        *)
NoProgress(g) ==
    g.mode = "adaptive" /\ g.turns >= NoProgressTurns /\ plan.checked <= g.grantStart

(* Mutant: only the cutoff without progress is looked at.                  *)
SpentWithoutProgress(g) == Remaining(plan) > 0 /\ g.mode # "unbounded" /\ NoProgress(g)

Spent(g) ==
    Remaining(plan) > 0 /\ g.mode # "unbounded" /\ (NoProgress(g) \/ g.turns >= g.budget)

TurnEnd ==
    LET counted == [goal EXCEPT !.turns = Turned(goal), !.last = plan.checked]
    IN  /\ run = "running"
        /\ turned' = TRUE
        /\ IF ~Active THEN UNCHANGED <<goal, stopping>>
           ELSE IF Spent(counted)
           THEN /\ goal' = [counted EXCEPT !.status = "paused", !.why = "budget"]
                /\ stopping' = TRUE
           ELSE goal' = counted /\ UNCHANGED stopping
        /\ UNCHANGED <<workflow, planningVars, plan, rejected, request, corrupt, dialog, run,
                       deps>>

(* auditSettledBlockers                                                    *)
Audited ==
    LET same == plan.blocker = goal.fingerprint
    IN  IF plan.checked > goal.last \/ plan.blocker = "none"
        THEN [goal EXCEPT !.last = plan.checked, !.fingerprint = "none", !.blockedRuns = 0]
        ELSE [goal EXCEPT !.last = plan.checked, !.fingerprint = plan.blocker,
                          !.blockedRuns = IF same THEN @ + 1 ELSE 1]

(* A run that did not succeed.  "limit": the provider has answered with a  *)
(* limit in it, however it ended.                                          *)
Interrupted(outcome) ==
    CASE outcome = "limit" -> Stopped("usage-limited", "limit")
      [] outcome = "aborted" -> Stopped("paused", "user")
      [] outcome = "error" -> Stopped("blocked", "error")

(* The settlement of an executing goal: whether it asks for another run.   *)
SettleGoal(outcome, pending) ==
    CASE Remaining(plan) = 0 /\ deps -> UNCHANGED goal /\ NextRun(pending)
      [] Remaining(plan) = 0 /\ ~deps ->
            goal' = (IF Completable THEN Stopped("complete", "none")
                     ELSE Stopped("paused", "evidence")) /\ NextRun(pending)
      [] Remaining(plan) > 0 /\ outcome # "success" ->
            goal' = Interrupted(outcome) /\ NextRun(pending)
      [] Remaining(plan) > 0 /\ outcome = "success" /\ deps /\ ~pending ->
            UNCHANGED goal /\ NextRun(FALSE)
      [] Remaining(plan) > 0 /\ outcome = "success" /\ (deps => pending) ->
            IF Audited.fingerprint # "none" /\ Audited.blockedRuns >= AuditRuns
            THEN goal' = [Audited EXCEPT !.status = "blocked", !.why = "audit"] /\ NextRun(pending)
            ELSE goal' = Audited /\ NextRun(TRUE)

(* ... and of a planning that has no plan.                                 *)
SettlePlanning(pending) ==
    IF deps /\ ~pending
    THEN /\ NextRun(FALSE)
         /\ UNCHANGED <<workflow, planningVars, goal, plan>>
    ELSE IF planEnds + 1 >= PlanAttempts
    THEN ToIdle /\ tools' = before /\ NextRun(pending)
    ELSE /\ planEnds' = planEnds + 1 /\ NextRun(TRUE)
         /\ UNCHANGED <<workflow, autoStart, unfit, tools, before, goal, plan>>

(* Refusals are counted anew after an audit that has changed something,    *)
(* and in the next grant.                                                  *)
Settled ==
    /\ rejected' = IF workflow' = "goal" /\ goal'.status = "active"
                      /\ goal'.blockedRuns = goal.blockedRuns
                      /\ goal'.fingerprint = goal.fingerprint
                   THEN rejected ELSE NoRejection

(* agent_settled; pending: something else continues the session.  A start  *)
(* that was asked for may have a blank objective, and is refused then.     *)
Settle(outcome, pending) ==
    /\ run = "running" /\ turned
    /\ stopping => outcome \in {"aborted", "limit"}
    /\ request' = FALSE
    /\ \/ request /\ Begins(TRUE) /\ NextRun(TRUE)
       \/ /\ request
          /\ NextRun(pending)
          /\ UNCHANGED <<workflow, planningVars, goal, plan>>
       \/ ~request /\ workflow = "planning" /\ SettlePlanning(pending)
       \/ /\ ~request /\ Active
          /\ SettleGoal(outcome, pending)
          /\ UNCHANGED <<workflow, planningVars, plan>>
       \/ /\ ~request /\ workflow # "planning" /\ ~Active
          /\ NextRun(pending)
          /\ UNCHANGED <<workflow, planningVars, goal, plan>>
    /\ Settled
    /\ UNCHANGED <<corrupt, dialog, deps>>

-----------------------------------------------------------------------------
(* The user.                                                               *)
Prompt ==
    /\ run = "idle"
    /\ NextRun(TRUE)
    /\ UNCHANGED <<workflow, planningVars, goal, plan, rejected, request, corrupt, dialog, deps>>

AbortRun ==
    /\ Calling
    /\ stopping' = TRUE
    /\ UNCHANGED <<workflow, planningVars, goal, plan, rejected, request, corrupt, dialog,
                   run, turned, deps>>

(* /plan or /goal with an objective, or in answer to the question for one, *)
(* which nothing is checked again after.                                   *)
Plan(auto) ==
    /\ run = "idle" /\ workflow # "planning"
    /\ Begins(auto) /\ StartRun
    /\ UNCHANGED <<rejected, request, corrupt, dialog, deps>>

Ask ==
    /\ run = "idle" /\ workflow # "planning" /\ ~Unfinished /\ ~dialog
    /\ dialog' = TRUE
    /\ UNCHANGED <<workflow, planningVars, goal, plan, rejected, request, corrupt, runVars,
                   deps>>

Answer(auto) ==
    /\ dialog
    /\ Overlaps \/ (workflow # "planning" /\ ~request)
    /\ dialog' = FALSE
    /\ \/ Begins(auto) /\ StartRun
       \/ /\ corrupt \/ Unfinished
          /\ UNCHANGED <<workflow, planningVars, goal, plan, runVars>>
    /\ UNCHANGED <<rejected, request, corrupt, deps>>

(* The instructions of a command take the place of the former ones, and    *)
(* nothing looks at them either.                                           *)
Instructed ==
    unfit' \in IF unfit = "objective" THEN {"objective"} ELSE {"none", "supplemental"}

(* /goal or /goal --continue while planning.                               *)
ResumePlanning ==
    /\ run = "idle" /\ workflow = "planning"
    /\ autoStart' = TRUE /\ tools' = "planning" /\ Instructed
    /\ StartRun
    /\ UNCHANGED <<workflow, planEnds, before, goal, plan, rejected, request, corrupt, dialog, deps>>

(* beginGoalExecution: /goal --continue, or /goal on a prepared plan.      *)
Continue(mode) ==
    /\ run = "idle" /\ workflow = "goal" /\ goal.status \in {"paused", "blocked", "usage-limited"}
    /\ goal' = Grant(mode, plan) /\ rejected' = NoRejection /\ Instructed
    /\ StartRun
    /\ UNCHANGED <<workflow, autoStart, planEnds, tools, before, plan, request, corrupt, dialog, deps>>

PauseGoal ==
    /\ Active
    /\ Pause("user") /\ stopping' = (run = "running")
    /\ UNCHANGED <<workflow, planningVars, plan, rejected, request, corrupt, dialog, run,
                   turned, deps>>

AbortGoal ==
    /\ \/ /\ corrupt
          /\ corrupt' = FALSE /\ ToIdle
          /\ UNCHANGED <<tools, stopping>>
       \/ /\ ~corrupt /\ workflow = "planning"
          /\ ToIdle /\ tools' = before /\ stopping' = (run = "running")
          /\ UNCHANGED corrupt
       \/ /\ ~corrupt /\ Unfinished
          /\ goal' = Stopped("aborted", "none") /\ stopping' = (run = "running")
          /\ UNCHANGED <<workflow, planningVars, plan, corrupt>>
    /\ UNCHANGED <<rejected, request, dialog, run, turned, deps>>

(* What isValidStoredGoalState says of a goal, but for its texts.          *)
Valid(g, p) ==
    /\ g.strikes <= Strikes
    /\ g.fingerprint \notin Oversized
    /\ g.last <= p.total /\ g.grantStart <= p.total
    /\ g.mode # "unbounded" => g.turns <= g.budget
    /\ (g.status = "active") = (g.why = "none") \/ g.status \in {"complete", "aborted"}
    /\ g.status \in {"complete", "aborted"} => g.why = "none"
    /\ g.status = "complete" => Remaining(p) = 0 /\ p.proven

(* ... and of what is stored, a planning included.                         *)
Loads == unfit = "none" /\ (workflow = "goal" => Valid(goal, plan))

(* The process ends, or dies, and the session is opened again: session_start *)
(* reads what was stored, and an active goal waits for the user.  A process *)
(* that ends has stored its state: idle, when it could not read the goal.  *)
Restart ==
    /\ run' = "idle" /\ turned' = FALSE /\ stopping' = FALSE
    /\ dialog' = FALSE /\ request' = FALSE /\ deps' = FALSE
    /\ rejected' = NoRejection
    /\ tools' = IF workflow = "planning" /\ Loads THEN "planning" ELSE "full"
    /\ IF ~Loads
       THEN corrupt' = TRUE /\ ToIdle
       ELSE /\ Pause("reload") /\ corrupt' \in {corrupt, FALSE}
            /\ UNCHANGED <<workflow, autoStart, planEnds, unfit, before, plan>>

-----------------------------------------------------------------------------
(* Children of the session (Subagents).                                    *)
Spawn ==
    /\ Calling /\ ~deps
    /\ deps' = TRUE
    /\ UNCHANGED <<workflow, planningVars, goal, plan, rejected, request, corrupt, dialog,
                   runVars>>

(* The model has consumed the results in a run.                            *)
Consume ==
    /\ run = "running" /\ deps
    /\ deps' = FALSE
    /\ UNCHANGED <<workflow, planningVars, goal, plan, rejected, request, corrupt, dialog,
                   runVars>>

(* Mutant: the results of a goal start a run only when nobody waits.       *)
WakesOthers == workflow # "goal"

(* goalAllowsAutomaticResultWake                                           *)
Wakes == workflow # "goal" \/ goal.status = "active"

Deliver ==
    /\ run = "idle" /\ deps
    /\ deps' = FALSE
    /\ NextRun(Wakes)
    /\ UNCHANGED <<workflow, planningVars, goal, plan, rejected, request, corrupt, dialog>>

-----------------------------------------------------------------------------
Tools ==
    \/ CreateGoal \/ ViolatePlan \/ RejectUpdate \/ AskComplete \/ AskBlocked
    \/ \E items \in 1..MaxItems, mode \in Modes : SetPlan(items, mode)
    \/ \E p \in Plans : UpdatePlan(p)

User ==
    \/ Prompt \/ AbortRun \/ Ask \/ ResumePlanning \/ PauseGoal \/ AbortGoal
    \/ \E auto \in BOOLEAN : Plan(auto) \/ Answer(auto)
    \/ \E mode \in Modes : Continue(mode)

Settles ==
    \E outcome \in {"success", "error", "aborted", "limit"}, pending \in BOOLEAN :
        Settle(outcome, pending)

Next ==
    \/ Tools \/ User \/ TurnEnd \/ Settles
    \/ Spawn \/ Consume \/ Deliver \/ Restart

Spec == Init /\ [][Next]_vars

(* Turns end and runs settle; children end and their results arrive.       *)
FairSpec == Spec /\ WF_vars(TurnEnd) /\ WF_vars(Settles) /\ WF_vars(Deliver)

-----------------------------------------------------------------------------
(* Properties.                                                             *)

TypeOK ==
    /\ workflow \in {"idle", "planning", "goal"} /\ autoStart \in BOOLEAN
    /\ planEnds \in 0..PlanAttempts /\ unfit \in {"none", "objective", "supplemental"}
    /\ {tools, before} \subseteq {"full", "planning"}
    /\ goal.status \in Statuses /\ goal.mode \in Modes
    /\ plan \in Plans \cup {NoPlan} /\ (plan = NoPlan) = (workflow # "goal")
    /\ run \in {"idle", "running"}
    /\ {request, corrupt, dialog, turned, stopping, deps} \subseteq BOOLEAN
    /\ rejected.count \in 0..MaxRejections

(* What is stored of a goal, or of a planning, is read again after a       *)
(* restart (isValidStoredGoalState).  Four sequences of legal calls leave  *)
(* a state that is not: an objective or instructions longer than what is   *)
(* read, blockers that are too long once joined, turns after the last item *)
(* was checked, which the budget does not stop, and one strike more on a   *)
(* goal that strikes have blocked.                                         *)
Overrun == goal.mode # "unbounded" /\ goal.turns > goal.budget
Readable ==
    \/ Loads
    \/ unfit # "none"
    \/ workflow = "goal" /\ (Overrun \/ goal.strikes > Strikes \/ goal.fingerprint \in Oversized)

(* The tools that planning takes away come back when it ends, however it   *)
(* ends: with a plan, without one, aborted, or after a restart.  (Not with *)
(* Overlaps: the second planning takes the tools of the first for those    *)
(* from before.)                                                           *)
ToolsComeBack == workflow # "planning" => tools = "full"

(* A restart or the end of planning finds things as they should be.        *)
Recoverable == TypeOK /\ Readable /\ ToolsComeBack

(* A goal that is complete or was aborted is not worked on again, unless   *)
(* strikes on its plan have turned it into a blocked one.                  *)
FinishedStays ==
    [][Finished /\ workflow' = "goal" /\ goal'.status # goal.status
           => goal'.strikes >= Strikes]_vars

(* A grant with a budget ends, whatever the model does with its turns: the *)
(* goal stops, all its items get checked, or it waits for its children.    *)
GrantEnds ==
    Active /\ goal.mode # "unbounded" /\ Remaining(plan) > 0
        ~> ~Active \/ goal.mode = "unbounded" \/ Remaining(plan) = 0 \/ deps

(* What is over is over: grants end, and finished goals stay finished.     *)
EndsForGood == GrantEnds /\ FinishedStays

(* An active goal is never left alone: whatever a settlement waits for     *)
(* starts a run.  (Not with Overlaps: the settlement that finds a start    *)
(* asked for does nothing else, though it is refused.)                     *)
GoalMovesOn == Active /\ run = "idle" ~> ~Active \/ run = "running"
=============================================================================
