---------------------------- MODULE ProductProofs ----------------------------
(***************************************************************************)
(* Proofs about what the product adds to a session.  About GoalMode, for   *)
(* every size of a plan, every budget and every limit: what is stored of a *)
(* goal can be read again, the tools that planning takes away come back,   *)
(* and a finished goal stays finished.  About Subagents, for any number of *)
(* grants, jobs, strikes and restarts: a writer works alone, and what a    *)
(* child reports is told once.                                             *)
(***************************************************************************)
EXTENDS GoalMode, Subagents, TLAPS

Whys == {"none", "plan-ready", "plan-invalidated", "tool-loop", "budget", "audit", "evidence",
         "limit", "user", "error", "reload"}

Goals ==
    [status : Statuses, why : Whys, mode : Modes, budget : Nat, turns : Nat,
     grantStart : Nat, last : Nat, fingerprint : Blockers \cup {"none"}, blockedRuns : Nat,
     strikes : Nat]

Rejections == [code : {"none", "no-change", "unproven", "audit"}, count : 0..MaxRejections]

(* The type invariant, in parts, with all fields of the records.           *)
FlagType ==
    /\ workflow \in {"idle", "planning", "goal"} /\ autoStart \in BOOLEAN
    /\ planEnds \in 0..PlanAttempts /\ unfit \in {"none", "objective", "supplemental"}
    /\ {tools, before} \subseteq {"full", "planning"}
    /\ run \in {"idle", "running"}
    /\ {request, corrupt, dialog, turned, stopping, deps} \subseteq BOOLEAN

PlanType == plan \in Plans \cup {NoPlan} /\ (plan = NoPlan) = (workflow # "goal")
GoalType == goal \in Goals /\ rejected \in Rejections

(* What isValidStoredGoalState asks of every goal, but for the counters    *)
(* that can be beyond their limits.                                        *)
StoredInv ==
    workflow = "goal" =>
        /\ goal.last <= plan.total /\ goal.grantStart <= plan.total
        /\ goal.status \notin {"complete", "aborted"} =>
             ((goal.status = "active") <=> (goal.why = "none"))
        /\ goal.status \in {"complete", "aborted"} => goal.why = "none"
        /\ goal.status = "complete" => Remaining(plan) = 0 /\ plan.proven

(* Nothing is planned beside a goal that could not be read, and none is    *)
(* asked for beside a planning, so that `before` is always the full set.   *)
ToolsInv ==
    /\ corrupt => workflow = "idle"
    /\ request => run = "running" /\ workflow # "planning"
    /\ before = "full"
    /\ tools = IF workflow = "planning" THEN "planning" ELSE "full"

GoalInv == FlagType /\ PlanType /\ GoalType /\ StoredInv

-----------------------------------------------------------------------------
(* Plans and grants.                                                       *)

LEMMA ConstantFacts ==
    /\ MaxItems \in Nat \ {0} /\ TurnsPerItem \in Nat \ {0} /\ FixedTurns \in Nat \ {0}
    /\ PlanAttempts \in Nat \ {0} /\ Strikes \in Nat \ {0} /\ MaxRejections \in Nat \ {0}
BY GoalAssumption

LEMMA PlanFacts ==
    ASSUME NEW p \in Plans \cup {NoPlan}
    PROVE  /\ p.total \in Nat /\ p.checked \in Nat /\ p.checked <= p.total
           /\ p.proven \in BOOLEAN /\ p.blocker \in Blockers \cup {"none"}
           /\ Remaining(p) \in Nat
<1>1. CASE p = NoPlan
    BY <1>1 DEF NoPlan, NewPlan, Remaining
<1>2. CASE p \in Plans
    <2>1. p \in [total : 1..MaxItems, checked : 0..MaxItems, proven : BOOLEAN,
                 blocker : Blockers \cup {"none"}] /\ p.checked <= p.total
        BY <1>2 DEF Plans
    <2> QED BY <2>1, ConstantFacts DEF Remaining
<1> QED BY <1>1, <1>2

LEMMA PlanMade ==
    ASSUME NEW items \in 1..MaxItems
    PROVE  NewPlan(items) \in Plans
BY ConstantFacts DEF NewPlan, Plans, Remaining

LEMMA PlansDiffer == NoPlan \notin Plans
BY ConstantFacts DEF Plans, NoPlan, NewPlan

LEMMA BudgetType ==
    ASSUME NEW mode \in Modes, NEW items \in Nat
    PROVE  Budget(mode, items) \in Nat
<1>1. TurnsPerItem \in Nat /\ FixedTurns \in Nat
    BY ConstantFacts
<1>2. items * TurnsPerItem \in Nat
    BY <1>1
<1> QED BY <1>1, <1>2 DEF Budget, Modes

(* A grant is an active goal that is no further than its plan.             *)
LEMMA GrantFacts ==
    ASSUME NEW mode \in Modes, NEW p \in Plans \cup {NoPlan}
    PROVE  /\ Grant(mode, p) \in Goals
           /\ Grant(mode, p).status = "active" /\ Grant(mode, p).why = "none"
           /\ Grant(mode, p).last <= p.total /\ Grant(mode, p).grantStart <= p.total
           /\ Grant(mode, p).strikes = 0
<1> DEFINE budget == Budget(mode, p.total)
<1>1. budget \in Nat /\ p.total \in Nat /\ p.checked \in Nat /\ p.checked <= p.total
    BY PlanFacts, BudgetType
<1> HIDE DEF budget
<1>2. Grant(mode, p) =
        [status |-> "active", why |-> "none", mode |-> mode, budget |-> budget,
         turns |-> 0, grantStart |-> IF mode = "adaptive" THEN p.checked ELSE 0,
         last |-> p.checked, fingerprint |-> "none", blockedRuns |-> 0, strikes |-> 0]
    BY DEF Grant, budget
<1> QED BY <1>1, <1>2 DEF Goals, Statuses, Whys

LEMMA NoGoalFacts == NoGoal \in Goals
<1>1. Grant("unbounded", NoPlan) \in Goals
    BY GrantFacts DEF Modes
<1> QED BY <1>1 DEF NoGoal, Goals, Statuses

(* Stopping a goal changes its status and nothing else.                    *)
LEMMA StoppedFacts ==
    ASSUME goal \in Goals, NEW status \in Statuses, NEW why \in Whys
    PROVE  /\ Stopped(status, why) \in Goals
           /\ Stopped(status, why).status = status /\ Stopped(status, why).why = why
           /\ Stopped(status, why).last = goal.last
           /\ Stopped(status, why).grantStart = goal.grantStart
           /\ Stopped(status, why).strikes = goal.strikes
BY DEF Stopped, Goals

-----------------------------------------------------------------------------
LEMMA GoalInit == Init => GoalInv /\ ToolsInv
<1> SUFFICES ASSUME Init PROVE GoalInv /\ ToolsInv
    OBVIOUS
<1>1. FlagType
    <2>1. planEnds \in 0..PlanAttempts
        BY ConstantFacts DEF Init
    <2> QED BY <2>1 DEF Init, FlagType
<1>2. PlanType
    BY DEF Init, PlanType
<1>3. GoalType
    BY ConstantFacts, NoGoalFacts DEF Init, GoalType, Rejections, NoRejection
<1>4. StoredInv /\ ToolsInv
    BY DEF Init, StoredInv, ToolsInv
<1> QED BY <1>1, <1>2, <1>3, <1>4 DEF GoalInv

-----------------------------------------------------------------------------
(* Parts of actions.                                                       *)

(* The records of a planning that is over, or that has begun.              *)
LEMMA NoGoalStored ==
    ASSUME goal' = NoGoal, plan' = NoPlan, workflow' \in {"idle", "planning"}
    PROVE  /\ goal' \in Goals /\ PlanType' /\ StoredInv'
BY NoGoalFacts DEF Goals, StoredInv, PlanType

(* A goal that is given another status by pause or stop.                   *)
LEMMA StatusStored ==
    ASSUME GoalInv, workflow = "goal", workflow' = workflow, plan' = plan,
           NEW status \in Statuses, NEW why \in Whys,
           (status = "active") = (why = "none") \/ status \in {"complete", "aborted"},
           status \in {"complete", "aborted"} => why = "none",
           status = "complete" => Remaining(plan) = 0 /\ plan.proven,
           goal' = Stopped(status, why)
    PROVE  goal' \in Goals /\ StoredInv'
<1>1. goal \in Goals /\ goal.last <= plan.total /\ goal.grantStart <= plan.total
    BY DEF GoalInv, GoalType, StoredInv
<1>2. /\ goal' \in Goals /\ goal'.status = status /\ goal'.why = why
      /\ goal'.last = goal.last /\ goal'.grantStart = goal.grantStart
    BY <1>1, StoppedFacts
<1> QED BY <1>1, <1>2 DEF StoredInv, Remaining

LEMMA PauseStored ==
    ASSUME GoalInv, workflow' = workflow, plan' = plan, NEW why \in Whys \ {"none"}, Pause(why)
    PROVE  goal' \in Goals /\ StoredInv'
<1>1. CASE Active
    <2>1. workflow = "goal" /\ goal' = Stopped("paused", why)
        BY <1>1 DEF Active, Pause
    <2>2. "paused" \in Statuses /\ why \in Whys /\ why # "none"
        BY DEF Statuses
    <2> QED BY <2>1, <2>2, StatusStored
<1>2. CASE ~Active
    BY <1>2 DEF Pause, GoalInv, GoalType, StoredInv, Remaining
<1> QED BY <1>1, <1>2

LEMMA RejectStored ==
    ASSUME GoalInv, workflow' = workflow, plan' = plan,
           NEW code \in {"no-change", "unproven", "audit"}, Reject(code)
    PROVE  goal' \in Goals /\ StoredInv' /\ rejected' \in Rejections
<1>1. rejected.count \in 0..MaxRejections
    BY DEF GoalInv, GoalType, Rejections
<1> DEFINE count == IF rejected.code = code THEN rejected.count + 1 ELSE 1
<1>2. CASE count < MaxRejections
    <2>1. rejected' = [code |-> code, count |-> count] /\ goal' = goal
        BY <1>2 DEF Reject
    <2>2. count \in 0..MaxRejections
        BY <1>1, <1>2, ConstantFacts
    <2> QED BY <2>1, <2>2 DEF Rejections, GoalInv, GoalType, StoredInv, Remaining
<1>3. CASE ~(count < MaxRejections)
    <2>1. Pause("tool-loop") /\ rejected' = NoRejection
        BY <1>3 DEF Reject
    <2>2. "tool-loop" \in Whys \ {"none"}
        BY DEF Whys
    <2> QED BY <2>1, <2>2, PauseStored, ConstantFacts DEF Rejections, NoRejection
<1> QED BY <1>2, <1>3

(* A new grant of the goal.                                                *)
LEMMA GrantStored ==
    ASSUME NEW mode \in Modes, plan' \in Plans, goal' = Grant(mode, plan')
    PROVE  goal' \in Goals /\ StoredInv'
BY GrantFacts DEF StoredInv

LEMMA GoalTypes == GoalInv => TypeOK
BY DEF GoalInv, FlagType, PlanType, GoalType, TypeOK, Goals, Rejections

(* Actions that change nothing that is stored.                             *)
LEMMA QuietStep ==
    ASSUME GoalInv, UNCHANGED <<workflow, goal, plan, rejected>>, FlagType'
    PROVE  GoalInv'
BY DEF GoalInv, PlanType, GoalType, StoredInv, Remaining

LEMMA GoalStep ==
    ASSUME GoalInv, [Next]_vars
    PROVE  GoalInv'
<1> USE DEF runVars, planningVars
<1>0. FlagType
    BY DEF GoalInv
<1>1. CASE UNCHANGED vars
    BY <1>1, <1>0, QuietStep DEF vars, FlagType
<1>2. CASE CreateGoal
    BY <1>2, <1>0, QuietStep DEF CreateGoal, FlagType
<1>3. CASE ViolatePlan
    <2>1. FlagType'
        BY <1>3, <1>0 DEF ViolatePlan, Violates, FlagType
    <2>2. goal' \in Goals /\ StoredInv'
        <3>1. /\ goal \in Goals /\ Statuses = {"active", "paused", "blocked", "usage-limited",
                                               "complete", "aborted"}
              /\ "plan-invalidated" \in Whys
            BY DEF GoalInv, GoalType, Statuses, Whys
        <3>2. /\ goal' \in Goals /\ goal'.last = goal.last /\ goal'.grantStart = goal.grantStart
              /\ \/ goal'.status = goal.status /\ goal'.why = goal.why
                 \/ goal'.status = "blocked" /\ goal'.why = "plan-invalidated"
            <4> DEFINE hits == goal.strikes + 1
            <4>1. hits \in Nat
                BY <3>1 DEF Goals
            <4>2. goal' = [goal EXCEPT !.strikes = hits,
                               !.status = IF hits >= Strikes THEN "blocked" ELSE @,
                               !.why = IF hits >= Strikes THEN "plan-invalidated" ELSE @]
                BY <1>3 DEF ViolatePlan, Violates
            <4> HIDE DEF hits
            <4>3. CASE hits >= Strikes
                <5>1. goal' = [goal EXCEPT !.strikes = hits, !.status = "blocked",
                                           !.why = "plan-invalidated"]
                    BY <4>2, <4>3
                <5> QED BY <3>1, <4>1, <5>1 DEF Goals
            <4>4. CASE ~(hits >= Strikes)
                <5>1. goal' = [goal EXCEPT !.strikes = hits, !.status = goal.status,
                                           !.why = goal.why]
                    BY <3>1, <4>2, <4>4
                <5> QED BY <3>1, <4>1, <5>1 DEF Goals
            <4> QED BY <4>3, <4>4
        <3> QED BY <1>3, <3>1, <3>2 DEF ViolatePlan, GoalInv, StoredInv, Remaining
    <2> QED BY <1>3, <2>1, <2>2 DEF ViolatePlan, GoalInv, PlanType, GoalType
<1>4. CASE RejectUpdate
    <2>1. FlagType'
        BY <1>4, <1>0 DEF RejectUpdate, Reject, FlagType
    <2>2. goal' \in Goals /\ StoredInv' /\ rejected' \in Rejections
        BY <1>4, RejectStored DEF RejectUpdate
    <2> QED BY <1>4, <2>1, <2>2 DEF RejectUpdate, GoalInv, PlanType, GoalType
<1>5. CASE AskComplete
    <2>1. FlagType'
        BY <1>5, <1>0 DEF AskComplete, Reject, FlagType
    <2>2. goal' \in Goals /\ StoredInv' /\ rejected' \in Rejections
        <3>1. CASE Completable
            <4>1. /\ workflow = "goal" /\ workflow' = workflow /\ plan' = plan
                  /\ goal' = Stopped("complete", "none") /\ rejected' = NoRejection
                  /\ Remaining(plan) = 0 /\ plan.proven
                BY <1>5, <3>1 DEF AskComplete, Active, Complete, Completable
            <4>2. "complete" \in Statuses /\ "none" \in Whys
                BY DEF Statuses, Whys
            <4>3. rejected' \in Rejections
                BY <4>1, ConstantFacts DEF Rejections, NoRejection
            <4> QED BY <4>1, <4>2, <4>3, StatusStored
        <3>2. CASE ~Completable
            BY <1>5, <3>2, RejectStored DEF AskComplete
        <3> QED BY <3>1, <3>2
    <2> QED BY <1>5, <2>1, <2>2 DEF AskComplete, GoalInv, PlanType, GoalType
<1>6. CASE AskBlocked
    <2>1. FlagType'
        BY <1>6, <1>0 DEF AskBlocked, Reject, FlagType
    <2>2. goal' \in Goals /\ StoredInv' /\ rejected' \in Rejections
        <3>1. CASE goal.fingerprint = "none" \/ goal.blockedRuns < AuditRuns
            BY <1>6, <3>1, RejectStored DEF AskBlocked
        <3>2. CASE ~(goal.fingerprint = "none" \/ goal.blockedRuns < AuditRuns)
            <4>1. /\ workflow = "goal" /\ workflow' = workflow /\ plan' = plan
                  /\ goal' = Stopped("blocked", "audit") /\ rejected' = NoRejection
                BY <1>6, <3>2 DEF AskBlocked, Active
            <4>2. "blocked" \in Statuses /\ "audit" \in Whys
                BY DEF Statuses, Whys
            <4>3. rejected' \in Rejections
                BY <4>1, ConstantFacts DEF Rejections, NoRejection
            <4> QED BY <4>1, <4>2, <4>3, StatusStored
        <3> QED BY <3>1, <3>2
    <2> QED BY <1>6, <2>1, <2>2 DEF AskBlocked, GoalInv, PlanType, GoalType
<1>7. ASSUME NEW items \in 1..MaxItems, NEW mode \in Modes, SetPlan(items, mode)
      PROVE  GoalInv'
    <2>0. planEnds' \in 0..PlanAttempts
        BY <1>7, ConstantFacts DEF SetPlan, Installs
    <2>1. FlagType'
        BY <1>7, <1>0, <2>0 DEF SetPlan, Installs, FlagType
    <2>2. NewPlan(items) \in Plans /\ plan' = NewPlan(items) /\ workflow' = "goal"
        BY <1>7, PlanMade DEF SetPlan, Installs
    <2>3. goal' \in Goals /\ StoredInv'
        <3>1. CASE autoStart
            BY <1>7, <2>2, <3>1, GrantStored DEF SetPlan, Installs
        <3>2. CASE ~autoStart
            <4> DEFINE g == Grant(mode, plan')
            <4>1. goal' = [g EXCEPT !.status = "paused", !.why = "plan-ready"]
                BY <1>7, <3>2 DEF SetPlan, Installs
            <4>2. g \in Goals /\ g.last <= plan'.total /\ g.grantStart <= plan'.total
                BY <2>2, GrantFacts
            <4> HIDE DEF g
            <4>3. /\ goal' \in Goals /\ goal'.status = "paused" /\ goal'.why = "plan-ready"
                  /\ goal'.last = g.last /\ goal'.grantStart = g.grantStart
                BY <4>1, <4>2 DEF Goals, Statuses, Whys
            <4> QED BY <4>2, <4>3 DEF StoredInv
        <3> QED BY <3>1, <3>2 DEF FlagType
    <2>4. rejected' \in Rejections
        BY <1>7, ConstantFacts DEF SetPlan, Installs, Rejections, NoRejection
    <2> QED BY <2>1, <2>2, <2>3, <2>4, PlansDiffer DEF GoalInv, PlanType, GoalType
<1>8. ASSUME NEW p \in Plans, UpdatePlan(p) PROVE GoalInv'
    <2>1. FlagType'
        BY <1>8, <1>0 DEF UpdatePlan, FlagType
    <2>2. /\ workflow = "goal" /\ workflow' = "goal" /\ goal.status = "active"
          /\ plan' = p /\ goal' = [goal EXCEPT !.last = p.checked]
          /\ p.total >= plan.total /\ rejected' = NoRejection
        BY <1>8 DEF UpdatePlan, Active
    <2>3. p.checked \in Nat /\ p.checked <= p.total /\ p.total \in Nat /\ plan.total \in Nat
        BY PlanFacts DEF GoalInv, PlanType
    <2>4. /\ goal' \in Goals /\ goal'.status = "active" /\ goal'.why = goal.why
          /\ goal'.last = p.checked /\ goal'.grantStart = goal.grantStart
        BY <2>2, <2>3 DEF GoalInv, GoalType, Goals
    <2>5. StoredInv'
        BY <2>2, <2>3, <2>4 DEF GoalInv, GoalType, Goals, StoredInv
    <2>6. rejected' \in Rejections
        BY <2>2, ConstantFacts DEF Rejections, NoRejection
    <2> QED BY <1>8, <2>1, <2>2, <2>4, <2>5, <2>6, PlansDiffer DEF GoalInv, PlanType, GoalType
<1>9. CASE TurnEnd
    <2> DEFINE counted == [goal EXCEPT !.turns = Turned(goal), !.last = plan.checked]
    <2>1. FlagType'
        BY <1>9, <1>0 DEF TurnEnd, FlagType
    <2>2. CASE ~Active
        BY <1>9, <2>1, <2>2 DEF TurnEnd, GoalInv, PlanType, GoalType, StoredInv, Remaining
    <2>3. CASE Active
        <3>1. /\ goal \in Goals /\ goal.last <= plan.total /\ goal.grantStart <= plan.total
              /\ goal.status = "active" /\ goal.why = "none" /\ workflow = "goal"
            BY <2>3 DEF GoalInv, GoalType, StoredInv, Active
        <3>2. plan.checked \in Nat /\ plan.checked <= plan.total
            BY PlanFacts DEF GoalInv, PlanType
        <3>3. Turned(goal) \in Nat
            BY <3>1 DEF Turned, Goals
        <3>4. /\ counted \in Goals /\ counted.last = plan.checked
              /\ counted.grantStart = goal.grantStart
              /\ counted.status = "active" /\ counted.why = "none"
            BY <3>1, <3>2, <3>3 DEF Goals
        <3> HIDE DEF counted
        <3>5. \/ goal' = [counted EXCEPT !.status = "paused", !.why = "budget"]
              \/ goal' = counted
            BY <1>9, <2>3 DEF TurnEnd, counted
        <3>6. /\ goal' \in Goals /\ goal'.last = plan.checked
              /\ goal'.grantStart = goal.grantStart
              /\ \/ goal'.status = "paused" /\ goal'.why = "budget"
                 \/ goal'.status = "active" /\ goal'.why = "none"
            BY <3>4, <3>5 DEF Goals, Statuses, Whys
        <3>7. StoredInv' /\ goal' \in Goals
            BY <1>9, <3>1, <3>2, <3>6 DEF TurnEnd, StoredInv
        <3> QED BY <1>9, <2>1, <3>7 DEF TurnEnd, GoalInv, PlanType, GoalType
    <2> QED BY <2>2, <2>3
<1>10. ASSUME NEW outcome \in {"success", "error", "aborted", "limit"}, NEW pending \in BOOLEAN,
              Settle(outcome, pending)
       PROVE  GoalInv'
    <2>1. rejected' \in Rejections
        BY <1>10, ConstantFacts DEF Settle, Settled, GoalInv, GoalType, NoRejection, Rejections
    <2>2. CASE request /\ Begins(TRUE) /\ NextRun(TRUE)
        <3>0. planEnds' \in 0..PlanAttempts
            BY <2>2, ConstantFacts DEF Begins
        <3>1. FlagType'
            BY <1>10, <1>0, <2>2, <3>0 DEF Settle, Begins, NextRun, FlagType
        <3> QED BY <2>1, <2>2, <3>1, NoGoalStored DEF Begins, GoalInv, GoalType
    <2>3. CASE UNCHANGED <<workflow, planningVars, goal, plan>> /\ NextRun(pending)
        <3>1. FlagType'
            BY <1>10, <1>0, <2>3 DEF Settle, NextRun, FlagType
        <3> QED BY <2>1, <2>3, <3>1 DEF GoalInv, PlanType, GoalType, StoredInv, Remaining
    <2>4. CASE workflow = "planning" /\ SettlePlanning(pending)
        <3>1. CASE workflow' = "planning" /\ UNCHANGED <<goal, plan>>
            <4>0. planEnds' \in 0..PlanAttempts
                <5>1. planEnds' = planEnds \/ (planEnds + 1 < PlanAttempts /\ planEnds' = planEnds + 1)
                    <6>1. planEnds \in Nat /\ PlanAttempts \in Nat
                        BY <1>0, ConstantFacts DEF FlagType
                    <6>2. CASE deps /\ ~pending
                        BY <2>4, <6>2 DEF SettlePlanning
                    <6>3. CASE ~(deps /\ ~pending) /\ planEnds + 1 >= PlanAttempts
                        BY <2>4, <3>1, <6>3 DEF SettlePlanning, ToIdle
                    <6>4. CASE ~(deps /\ ~pending) /\ ~(planEnds + 1 >= PlanAttempts)
                        <7>1. planEnds' = planEnds + 1
                            BY <2>4, <6>4 DEF SettlePlanning
                        <7>2. planEnds + 1 < PlanAttempts
                            BY <6>1, <6>4
                        <7> QED BY <7>1, <7>2
                    <6> QED BY <6>2, <6>3, <6>4
                <5> QED BY <1>0, <5>1, ConstantFacts DEF FlagType
            <4>1. FlagType'
                BY <1>10, <1>0, <2>4, <3>1, <4>0
                   DEF Settle, SettlePlanning, ToIdle, NextRun, FlagType
            <4> QED BY <2>1, <2>4, <3>1, <4>1 DEF GoalInv, PlanType, GoalType, StoredInv
        <3>2. CASE ToIdle /\ tools' = before /\ NextRun(pending)
            <4>0. planEnds' \in 0..PlanAttempts
                BY <3>2, ConstantFacts DEF ToIdle
            <4>1. FlagType'
                BY <1>10, <1>0, <3>2, <4>0 DEF Settle, ToIdle, NextRun, FlagType
            <4> QED BY <2>1, <3>2, <4>1, NoGoalStored DEF ToIdle, GoalInv, GoalType
        <3> QED BY <2>4, <3>1, <3>2 DEF SettlePlanning
    <2>5. CASE Active /\ SettleGoal(outcome, pending) /\ UNCHANGED <<workflow, planningVars, plan>>
        <3>0. Remaining(plan) \in Nat
            BY PlanFacts DEF GoalInv, PlanType
        <3>g. \/ Remaining(plan) = 0
              \/ Remaining(plan) > 0 /\ outcome # "success"
              \/ Remaining(plan) > 0 /\ outcome = "success" /\ deps /\ ~pending
              \/ Remaining(plan) > 0 /\ outcome = "success" /\ (deps => pending)
            BY <3>0
        <3>1. FlagType'
            <4>1. \E starts \in BOOLEAN : NextRun(starts)
                BY <1>10, <2>5, <3>g DEF SettleGoal
            <4> QED BY <1>10, <1>0, <2>5, <4>1 DEF Settle, NextRun, FlagType
        <3> SUFFICES goal' \in Goals /\ StoredInv'
            BY <2>1, <2>5, <3>1 DEF GoalInv, PlanType, GoalType
        <3>2. /\ workflow = "goal" /\ workflow' = "goal" /\ plan' = plan /\ goal \in Goals
              /\ "complete" \in Statuses /\ "paused" \in Statuses /\ "blocked" \in Statuses
              /\ "usage-limited" \in Statuses /\ "none" \in Whys /\ "evidence" \in Whys
              /\ "limit" \in Whys /\ "user" \in Whys /\ "error" \in Whys /\ "audit" \in Whys
            BY <2>5 DEF Active, GoalInv, GoalType, Statuses, Whys
        <3>3. CASE UNCHANGED goal
            BY <3>2, <3>3 DEF GoalInv, StoredInv, Remaining
        <3>4. CASE goal' = Stopped("complete", "none") /\ Completable
            BY <3>2, <3>4, StatusStored DEF Completable
        <3>5. CASE goal' = Stopped("paused", "evidence")
            BY <3>2, <3>5, StatusStored
        <3>6. CASE goal' = Interrupted(outcome) /\ outcome # "success"
            <4>1. \/ goal' = Stopped("usage-limited", "limit")
                  \/ goal' = Stopped("paused", "user")
                  \/ goal' = Stopped("blocked", "error")
                BY <3>6 DEF Interrupted
            <4> QED BY <3>2, <4>1, StatusStored
        <3>7. CASE \/ goal' = [Audited EXCEPT !.status = "blocked", !.why = "audit"]
                   \/ goal' = Audited
            <4>1. /\ goal.last <= plan.total /\ goal.grantStart <= plan.total
                  /\ goal.status = "active" /\ goal.why = "none"
                BY <2>5 DEF Active, GoalInv, StoredInv
            <4>2. /\ plan.checked \in Nat /\ plan.checked <= plan.total
                  /\ plan.blocker \in Blockers \cup {"none"}
                BY PlanFacts DEF GoalInv, PlanType
            <4>3. /\ Audited \in Goals /\ Audited.last = plan.checked
                  /\ Audited.grantStart = goal.grantStart
                  /\ Audited.status = "active" /\ Audited.why = "none"
                <5>1. CASE plan.checked > goal.last \/ plan.blocker = "none"
                    BY <3>2, <4>1, <4>2, <5>1 DEF Audited, Goals
                <5>2. CASE ~(plan.checked > goal.last \/ plan.blocker = "none")
                    <6>1. \E n \in Nat :
                            Audited = [goal EXCEPT !.last = plan.checked,
                                                   !.fingerprint = plan.blocker,
                                                   !.blockedRuns = n]
                        <7> DEFINE n == IF plan.blocker = goal.fingerprint
                                        THEN goal.blockedRuns + 1 ELSE 1
                        <7>1. n \in Nat
                            BY <3>2 DEF Goals
                        <7>2. Audited = [goal EXCEPT !.last = plan.checked,
                                                     !.fingerprint = plan.blocker,
                                                     !.blockedRuns = n]
                            BY <3>2, <5>2 DEF Audited, Goals
                        <7> QED BY <7>1, <7>2
                    <6> QED BY <3>2, <4>1, <4>2, <6>1 DEF Goals
                <5> QED BY <5>1, <5>2
            <4>4. /\ goal' \in Goals /\ goal'.last = plan.checked
                  /\ goal'.grantStart = goal.grantStart
                  /\ \/ goal'.status = "blocked" /\ goal'.why = "audit"
                     \/ goal'.status = "active" /\ goal'.why = "none"
                BY <3>2, <3>7, <4>3 DEF Goals
            <4> QED BY <3>2, <4>1, <4>2, <4>4 DEF StoredInv
        <3>8. \/ UNCHANGED goal
              \/ goal' = Stopped("complete", "none") /\ Completable
              \/ goal' = Stopped("paused", "evidence")
              \/ goal' = Interrupted(outcome) /\ outcome # "success"
              \/ goal' = [Audited EXCEPT !.status = "blocked", !.why = "audit"]
              \/ goal' = Audited
            BY <2>5, <3>g DEF SettleGoal
        <3> QED BY <3>3, <3>4, <3>5, <3>6, <3>7, <3>8
    <2>6. \/ request /\ Begins(TRUE) /\ NextRun(TRUE)
          \/ UNCHANGED <<workflow, planningVars, goal, plan>> /\ NextRun(pending)
          \/ workflow = "planning" /\ SettlePlanning(pending)
          \/ Active /\ SettleGoal(outcome, pending) /\ UNCHANGED <<workflow, planningVars, plan>>
        BY <1>10 DEF Settle
    <2> QED BY <2>2, <2>3, <2>4, <2>5, <2>6
<1>11. CASE Prompt
    BY <1>11, <1>0, QuietStep DEF Prompt, NextRun, FlagType
<1>12. CASE AbortRun
    BY <1>12, <1>0, QuietStep DEF AbortRun, FlagType
<1>13. ASSUME NEW auto \in BOOLEAN, Begins(auto), StartRun,
              UNCHANGED <<rejected, request, corrupt, deps>>, dialog' \in BOOLEAN
       PROVE  GoalInv'
    <2>1. planEnds' \in 0..PlanAttempts
        BY <1>13, ConstantFacts DEF Begins
    <2>2. FlagType'
        BY <1>13, <1>0, <2>1 DEF Begins, StartRun, NextRun, FlagType
    <2> QED BY <1>13, <2>2, NoGoalStored DEF Begins, GoalInv, GoalType
<1>14. ASSUME NEW auto \in BOOLEAN, Plan(auto) PROVE GoalInv'
    BY <1>14, <1>13, <1>0 DEF Plan, FlagType
<1>15. CASE Ask
    BY <1>15, <1>0, QuietStep DEF Ask, FlagType
<1>16. ASSUME NEW auto \in BOOLEAN, Answer(auto) PROVE GoalInv'
    <2>1. CASE Begins(auto) /\ StartRun
        BY <1>16, <1>13, <2>1 DEF Answer
    <2>2. CASE UNCHANGED <<workflow, planningVars, goal, plan, runVars>>
        BY <1>16, <2>2, <1>0, QuietStep DEF Answer, FlagType
    <2> QED BY <1>16, <2>1, <2>2 DEF Answer
<1>17. CASE ResumePlanning
    BY <1>17, <1>0, QuietStep DEF ResumePlanning, Instructed, StartRun, NextRun, FlagType
<1>18. ASSUME NEW mode \in Modes, Continue(mode) PROVE GoalInv'
    <2>1. FlagType'
        BY <1>18, <1>0 DEF Continue, Instructed, StartRun, NextRun, FlagType
    <2>2. rejected' \in Rejections
        BY <1>18, ConstantFacts DEF Continue, NoRejection, Rejections
    <2>3. plan' \in Plans /\ plan' = plan /\ workflow' = workflow /\ goal' = Grant(mode, plan')
        BY <1>18 DEF Continue, GoalInv, PlanType
    <2> QED BY <2>1, <2>2, <2>3, GrantStored DEF GoalInv, PlanType, GoalType
<1>19. CASE PauseGoal
    <2>1. FlagType'
        BY <1>19, <1>0 DEF PauseGoal, FlagType
    <2>2. "user" \in Whys \ {"none"}
        BY DEF Whys
    <2>3. goal' \in Goals /\ StoredInv'
        BY <1>19, <2>2, PauseStored DEF PauseGoal
    <2> QED BY <1>19, <2>1, <2>3 DEF PauseGoal, GoalInv, PlanType, GoalType
<1>20. CASE AbortGoal
    <2>0. ToIdle => planEnds' \in 0..PlanAttempts
        BY ConstantFacts DEF ToIdle
    <2>1. CASE ToIdle /\ tools' \in {tools, before} /\ stopping' \in BOOLEAN /\ corrupt' \in BOOLEAN
        <3>1. FlagType'
            BY <1>20, <1>0, <2>0, <2>1 DEF AbortGoal, ToIdle, FlagType
        <3> QED BY <1>20, <2>1, <3>1, NoGoalStored DEF AbortGoal, ToIdle, GoalInv, GoalType
    <2>2. CASE /\ Unfinished /\ goal' = Stopped("aborted", "none")
               /\ stopping' = (run = "running")
               /\ UNCHANGED <<workflow, planningVars, plan, corrupt>>
        <3>1. FlagType'
            BY <1>20, <1>0, <2>2 DEF AbortGoal, FlagType
        <3>2. "aborted" \in Statuses /\ "none" \in Whys
            BY DEF Statuses, Whys
        <3>3. goal' \in Goals /\ StoredInv'
            BY <2>2, <3>2, StatusStored DEF Unfinished
        <3> QED BY <1>20, <2>2, <3>1, <3>3 DEF AbortGoal, GoalInv, PlanType, GoalType
    <2>3. corrupt \in BOOLEAN /\ stopping \in BOOLEAN
        BY <1>0 DEF FlagType
    <2> QED BY <1>20, <2>1, <2>2, <2>3 DEF AbortGoal
<1>21. CASE Restart
    <2>0. rejected' \in Rejections
        BY <1>21, ConstantFacts DEF Restart, NoRejection, Rejections
    <2>1. CASE ~Loads
        <3>1. ToIdle /\ corrupt' = TRUE
            BY <1>21, <2>1 DEF Restart
        <3>2. planEnds' \in 0..PlanAttempts
            BY <3>1, ConstantFacts DEF ToIdle
        <3>3. FlagType'
            BY <1>21, <1>0, <2>1, <3>1, <3>2 DEF Restart, ToIdle, FlagType
        <3> QED BY <2>0, <3>1, <3>3, NoGoalStored DEF ToIdle, GoalInv, GoalType
    <2>2. CASE Loads
        <3>1. /\ Pause("reload") /\ corrupt' \in {corrupt, FALSE}
              /\ UNCHANGED <<workflow, autoStart, planEnds, unfit, before, plan>>
            BY <1>21, <2>2 DEF Restart
        <3>2. FlagType'
            BY <1>21, <1>0, <3>1 DEF Restart, FlagType
        <3>3. "reload" \in Whys \ {"none"}
            BY DEF Whys
        <3>4. goal' \in Goals /\ StoredInv'
            BY <3>1, <3>3, PauseStored
        <3> QED BY <2>0, <3>1, <3>2, <3>4 DEF GoalInv, PlanType, GoalType
    <2> QED BY <2>1, <2>2
<1>22. CASE Spawn
    BY <1>22, <1>0, QuietStep DEF Spawn, FlagType
<1>23. CASE Consume
    BY <1>23, <1>0, QuietStep DEF Consume, FlagType
<1>24. CASE Deliver
    BY <1>24, <1>0, QuietStep DEF Deliver, NextRun, Wakes, FlagType
<1> QED
    BY <1>1, <1>2, <1>3, <1>4, <1>5, <1>6, <1>7, <1>8, <1>9, <1>10, <1>11, <1>12, <1>14, <1>15,
       <1>16, <1>17, <1>18, <1>19, <1>20, <1>21, <1>22, <1>23, <1>24 DEF Next, Tools, User, Settles

-----------------------------------------------------------------------------
(* The tools.                                                              *)

LEMMA BeginsTools ==
    ASSUME FlagType, ToolsInv, NEW auto \in BOOLEAN, Begins(auto), workflow # "planning",
           corrupt' = corrupt, request' = FALSE
    PROVE  ToolsInv'
BY DEF Begins, ToolsInv

LEMMA IdleTools ==
    ASSUME FlagType, ToolsInv, ToIdle, tools' = "full", request' => request,
           request' => run' = "running"
    PROVE  ToolsInv'
BY DEF ToIdle, ToolsInv

LEMMA ToolsStep ==
    ASSUME ~Overlaps, FlagType, ToolsInv, [Next]_vars
    PROVE  ToolsInv'
<1> USE DEF runVars, planningVars
<1>1. CASE UNCHANGED <<workflow, tools, before, corrupt>> /\ (request' => request /\ run' = run)
    BY <1>1 DEF ToolsInv
<1>2. CASE CreateGoal
    BY <1>2 DEF CreateGoal, Calling, ToolsInv
<1>3. ASSUME NEW items \in 1..MaxItems, NEW mode \in Modes, SetPlan(items, mode)
      PROVE  ToolsInv'
    BY <1>3 DEF SetPlan, Installs, Calling, ToolsInv
<1>4. ASSUME NEW outcome \in {"success", "error", "aborted", "limit"}, NEW pending \in BOOLEAN,
             Settle(outcome, pending)
      PROVE  ToolsInv'
    <2>1. request' = FALSE /\ corrupt' = corrupt
        BY <1>4 DEF Settle
    <2>2. CASE request /\ Begins(TRUE)
        BY <2>1, <2>2, BeginsTools DEF ToolsInv
    <2>3. CASE workflow = "planning" /\ ToIdle /\ tools' = before
        BY <2>1, <2>3, IdleTools DEF ToolsInv
    <2>4. CASE UNCHANGED <<workflow, tools, before>>
        BY <2>1, <2>4, <1>1
    <2> QED BY <1>4, <2>2, <2>3, <2>4 DEF Settle, SettlePlanning
<1>5. ASSUME NEW auto \in BOOLEAN, Plan(auto)
      PROVE  ToolsInv'
    <2>1. ~request
        BY <1>5 DEF Plan, ToolsInv
    <2> QED BY <1>5, <2>1, BeginsTools DEF Plan, FlagType
<1>6. ASSUME NEW auto \in BOOLEAN, Answer(auto)
      PROVE  ToolsInv'
    <2>1. ~request /\ request' = request /\ workflow # "planning" /\ corrupt' = corrupt
        BY <1>6 DEF Answer
    <2>2. CASE Begins(auto)
        BY <2>1, <2>2, BeginsTools DEF FlagType
    <2>3. CASE UNCHANGED <<workflow, planningVars, goal, plan, runVars>>
        BY <2>1, <2>3, <1>1
    <2> QED BY <1>6, <2>2, <2>3 DEF Answer
<1>7. CASE ResumePlanning
    BY <1>7 DEF ResumePlanning, ToolsInv
<1>8. CASE AbortGoal
    <2>1. request' = request /\ run' = run
        BY <1>8 DEF AbortGoal
    <2>2. CASE corrupt /\ corrupt' = FALSE /\ ToIdle /\ UNCHANGED tools
        BY <2>1, <2>2, IdleTools DEF ToolsInv
    <2>3. CASE ~corrupt /\ ToIdle /\ tools' = before
        BY <2>1, <2>3, IdleTools DEF ToolsInv
    <2>4. CASE UNCHANGED <<workflow, planningVars, plan, corrupt>>
        BY <2>1, <2>4, <1>1
    <2> QED BY <1>8, <2>2, <2>3, <2>4 DEF AbortGoal
<1>9. CASE Restart
    <2>1. /\ request' = FALSE
          /\ tools' = IF workflow = "planning" /\ Loads THEN "planning" ELSE "full"
        BY <1>9 DEF Restart
    <2>2. CASE ~Loads /\ ToIdle
        BY <2>1, <2>2 DEF ToIdle, ToolsInv
    <2>3. CASE Loads /\ corrupt' \in {corrupt, FALSE} /\ UNCHANGED <<workflow, before>>
        <3>1. corrupt' => corrupt
            BY <2>3
        <3>2. (corrupt' => workflow' = "idle") /\ before' = "full"
            BY <2>3, <3>1 DEF ToolsInv
        <3>3. tools' = IF workflow' = "planning" THEN "planning" ELSE "full"
            BY <2>1, <2>3
        <3> QED BY <2>1, <3>2, <3>3 DEF ToolsInv
    <2> QED BY <1>9, <2>2, <2>3 DEF Restart
<1>10. CASE Prompt \/ Deliver
    BY <1>10, <1>1 DEF Prompt, Deliver, NextRun, ToolsInv
<1>11. ASSUME NEW mode \in Modes, Continue(mode)
       PROVE  ToolsInv'
    BY <1>11 DEF Continue, ToolsInv
<1>12. CASE ViolatePlan \/ RejectUpdate \/ AskComplete \/ AskBlocked
    BY <1>12, <1>1 DEF ViolatePlan, RejectUpdate, AskComplete, AskBlocked
<1>13. ASSUME NEW p \in Plans, UpdatePlan(p)
       PROVE  ToolsInv'
    BY <1>13, <1>1 DEF UpdatePlan
<1>14. CASE AbortRun \/ Ask \/ PauseGoal \/ TurnEnd
    BY <1>14, <1>1 DEF AbortRun, Ask, PauseGoal, TurnEnd
<1>15. CASE Spawn \/ Consume \/ UNCHANGED vars
    BY <1>15, <1>1 DEF Spawn, Consume, vars
<1> QED
    BY <1>2, <1>3, <1>4, <1>5, <1>6, <1>7, <1>8, <1>9, <1>10, <1>11, <1>12, <1>13, <1>14, <1>15
       DEF Next, Tools, User, Settles

-----------------------------------------------------------------------------
(* The invariant of every reachable state.                                 *)
THEOREM GoalInvariant == Spec => []GoalInv
<1>1. Init => GoalInv
    BY GoalInit
<1>2. GoalInv /\ [Next]_vars => GoalInv'
    BY GoalStep
<1> QED BY <1>1, <1>2, PTL DEF Spec

LEMMA StoredReadable == GoalInv => Readable
<1> SUFFICES ASSUME GoalInv, workflow = "goal", ~Overrun, ~(goal.strikes > Strikes),
                    goal.fingerprint \notin Oversized
             PROVE  Valid(goal, plan)
    BY DEF Readable, Loads
<1>1. /\ goal.strikes \in Nat /\ goal.turns \in Nat /\ goal.budget \in Nat
      /\ goal.status \in Statuses
    BY DEF GoalInv, GoalType, Goals
<1>2. goal.strikes <= Strikes
    BY <1>1, ConstantFacts
<1>3. goal.mode # "unbounded" => goal.turns <= goal.budget
    BY <1>1 DEF Overrun
<1> QED BY <1>2, <1>3 DEF GoalInv, StoredInv, Valid

(* Whatever the model, the user and the process do, in whatever order, and *)
(* also when plannings overlap: what is stored of a goal or of a planning  *)
(* is read again after a restart (isValidStoredGoalState), but for texts   *)
(* and blockers beyond the limits that only the reader has, for a grant    *)
(* that has overrun its budget and for a plan with a strike too many.      *)
THEOREM GoalIsReadable == Spec => [](TypeOK /\ Readable)
BY GoalInvariant, GoalTypes, StoredReadable, PTL

(* Without an objective entered beside a planning, the tools that planning *)
(* takes away also come back, however it ends.                             *)
THEOREM RecoverableAlways ==
    ASSUME ~Overlaps
    PROVE  Spec => []Recoverable
<1>1. Init => GoalInv /\ ToolsInv
    BY GoalInit
<1>2. GoalInv /\ ToolsInv /\ [Next]_vars => (GoalInv /\ ToolsInv)'
    <2>1. GoalInv => FlagType
        BY DEF GoalInv
    <2> QED BY <2>1, GoalStep, ToolsStep
<1>3. GoalInv /\ ToolsInv => Recoverable
    BY GoalTypes, StoredReadable DEF Recoverable, ToolsComeBack, ToolsInv
<1> QED BY <1>1, <1>2, <1>3, PTL DEF Spec

(* What is complete or was aborted is not worked on again: no prompt, tool *)
(* call, settlement, command or restart gives it another status, unless    *)
(* the strikes on its plan have reached their limit (protectedViolation    *)
(* blocks a goal in whatever state it is).                                 *)
THEOREM FinishedGoalStays == Spec => FinishedStays
<1> DEFINE Stays == Finished /\ workflow' = "goal" /\ goal'.status # goal.status
                    => goal'.strikes >= Strikes
<1>1. ASSUME GoalInv, Next PROVE Stays
    <2> SUFFICES ASSUME Finished, workflow' = "goal", goal'.status # goal.status
                 PROVE  ViolatePlan /\ goal'.strikes >= Strikes
        OBVIOUS
    <2>1. ~Active /\ ~Unfinished /\ workflow = "goal" /\ goal' # goal /\ goal \in Goals
        BY <1>1 DEF Active, Finished, Unfinished, GoalInv, GoalType
    <2>2. ASSUME NEW outcome, NEW pending, Settle(outcome, pending) PROVE FALSE
        BY <2>1, <2>2 DEF Settle, Begins, SettlePlanning, ToIdle, planningVars
    <2>3. ASSUME NEW auto, Plan(auto) \/ Answer(auto) PROVE FALSE
        BY <2>1, <2>3 DEF Plan, Answer, Begins
    <2>4. ASSUME NEW items, NEW mode, SetPlan(items, mode) PROVE FALSE
        BY <2>1, <2>4 DEF SetPlan
    <2>5. ASSUME NEW x, Continue(x) \/ UpdatePlan(x) PROVE FALSE
        BY <2>1, <2>5 DEF Continue, UpdatePlan, Finished
    <2>6. ~(RejectUpdate \/ AskComplete \/ AskBlocked \/ PauseGoal \/ TurnEnd)
        BY <2>1 DEF RejectUpdate, AskComplete, AskBlocked, PauseGoal, TurnEnd
    <2>7. ~(AbortGoal \/ Restart)
        BY <2>1 DEF AbortGoal, Restart, ToIdle, Pause
    <2>8. ~(CreateGoal \/ Prompt \/ AbortRun \/ Ask \/ ResumePlanning)
        BY <2>1 DEF CreateGoal, Prompt, AbortRun, Ask, ResumePlanning
    <2>9. ~(Spawn \/ Consume \/ Deliver)
        BY <2>1 DEF Spawn, Consume, Deliver
    <2>10. ViolatePlan
        BY <1>1, <2>2, <2>3, <2>4, <2>5, <2>6, <2>7, <2>8, <2>9 DEF Next, Tools, User, Settles
    <2>11. goal'.strikes >= Strikes
        BY <2>1, <2>10, ConstantFacts DEF ViolatePlan, Violates, Goals
    <2> QED BY <2>10, <2>11
<1>2. GoalInv /\ [Next]_vars => [Stays]_vars
    BY <1>1
<1> QED BY <1>2, GoalInvariant, PTL DEF Spec, FinishedStays

-----------------------------------------------------------------------------
(* Subagents.  The states a run can be in, the queues as schedule() finds  *)
(* them, and that a writer at work has no other at work beside it.         *)
Runs == Occupied \cup {"none", "queued", "over"}

QueuesOf(runs, roles, readQ, workQ) ==
    /\ readQ \subseteq {g \in Grants : runs[g] = "queued" /\ roles[g] = "read"}
    /\ workQ \subseteq {g \in Grants : runs[g] = "queued" /\ roles[g] = "work"}

AloneIn(runs, roles) ==
    \A g, h \in Grants :
        roles[g] = "work" /\ runs[g] \in Occupied /\ runs[h] \in Occupied => g = h

(* The grants, and where each of them is.                                  *)
AdmissionInv ==
    /\ admitting \in [role : Roles, left : 0..MaxJobs] /\ admitted \in 0..MaxGrants
    /\ admitting.left > 0 => admitted + admitting.left <= MaxGrants
    /\ role \in [Grants -> Roles] /\ batch \in [Grants -> 0..MaxGrants]
    /\ \A g \in Grants : g > admitted => childRun[g] = "none"

ChildInv ==
    /\ active \subseteq Grants /\ cancelled \subseteq Grants /\ landing \subseteq cancelled
    /\ childRun \in [Grants -> Runs]
    /\ QueuesOf(childRun, role, readQueue, workQueue) /\ AloneIn(childRun, role)

(* A grant leaves a result when its run is over, and one more when it was  *)
(* cancelled before it had a process: twice at most.                       *)
Over(g) == childRun[g] = "over"
Landed(g) == g \in cancelled /\ g \notin landing

MadeInv ==
    /\ made \in [Grants -> 0..2]
    /\ crashes = 0 =>
           \A g \in Grants :
               /\ made[g] > 0 => Over(g) \/ Landed(g)
               /\ made[g] > 1 => Over(g) /\ Landed(g)

(* After a restart no grant is at work, and none will be.                  *)
QuietInv ==
    /\ crashes \in 0..MaxCrashes
    /\ crashes > 0 =>
           /\ admitting.left = 0 /\ active = {} /\ landing = {}
           /\ \A g \in Grants : childRun[g] \in {"none", "over"}

(* Every result that was made is in one place, and a restart makes one of  *)
(* those it finds, whatever became of the others.                          *)
Copies(g) == deliveryQueue[g] + inFlight[g] + confirmed[g] + given[g]

CopiesInv ==
    /\ deliveryQueue \in [Grants -> Nat] /\ inFlight \in [Grants -> Nat]
    /\ confirmed \in [Grants -> Nat] /\ given \in [Grants -> Nat]
    /\ \A g \in Grants : Copies(g) <= made[g] \/ (crashes > 0 /\ Copies(g) <= 1)

OtherTypes ==
    /\ projected \subseteq Grants /\ marking \subseteq Grants /\ lost \subseteq Grants
    /\ strikes \in 0..MaxStrikes /\ wake \in BOOLEAN
    /\ timer \in BOOLEAN /\ parent \in {"idle", "bringing", "running"}
    /\ saved \in [Grants -> {"none", "active", "pending", "delivered"}]

SubagentsInv == AdmissionInv /\ ChildInv /\ MadeInv /\ QuietInv /\ CopiesInv /\ OtherTypes

-----------------------------------------------------------------------------
LEMMA ApartFromInv == SubagentsInv => GrantsApart
<1> SUFFICES ASSUME SubagentsInv PROVE GrantsApart
    OBVIOUS
<1>1. \A g \in Grants : Copies(g) <= 2
    <2> SUFFICES ASSUME NEW g \in Grants PROVE Copies(g) <= 2
        OBVIOUS
    <2>1. made[g] \in 0..2 /\ Copies(g) \in Nat
        BY DEF SubagentsInv, MadeInv, CopiesInv, Copies
    <2> QED BY <2>1 DEF SubagentsInv, CopiesInv
<1>2. /\ deliveryQueue \in [Grants -> 0..2] /\ inFlight \in [Grants -> 0..2]
      /\ confirmed \in [Grants -> 0..2] /\ given \in [Grants -> 0..2]
    <2>1. \A g \in Grants : /\ deliveryQueue[g] \in 0..2 /\ inFlight[g] \in 0..2
                            /\ confirmed[g] \in 0..2 /\ given[g] \in 0..2
        <3> SUFFICES ASSUME NEW g \in Grants
                     PROVE  /\ deliveryQueue[g] \in 0..2 /\ inFlight[g] \in 0..2
                            /\ confirmed[g] \in 0..2 /\ given[g] \in 0..2
            OBVIOUS
        <3>1. /\ deliveryQueue[g] \in Nat /\ inFlight[g] \in Nat
              /\ confirmed[g] \in Nat /\ given[g] \in Nat
            BY DEF SubagentsInv, CopiesInv
        <3>2. \A a, b, c, d \in Nat :
                  a + b + c + d <= 2 => a \in 0..2 /\ b \in 0..2 /\ c \in 0..2 /\ d \in 0..2
            OBVIOUS
        <3>3. deliveryQueue[g] + inFlight[g] + confirmed[g] + given[g] <= 2
            BY <1>1 DEF Copies
        <3> QED BY <3>1, <3>2, <3>3
    <2> QED BY <2>1 DEF SubagentsInv, CopiesInv
<1>3. readQueue \cup workQueue \subseteq {g \in Grants : childRun[g] = "queued"}
    BY DEF SubagentsInv, ChildInv, QueuesOf
<1>4. SubagentsTypeOK
    BY <1>2, <1>3 DEF SubagentsInv, SubagentsTypeOK, AdmissionInv, ChildInv, MadeInv, QuietInv,
           OtherTypes, Runs
<1>5. WorkAlone
    BY DEF SubagentsInv, ChildInv, AloneIn, WorkAlone, Working
<1>6. GivenOnce
    <2> SUFFICES ASSUME NEW g \in Grants, given[g] > 1 PROVE made[g] > 1
        BY DEF GivenOnce
    <2>1. /\ deliveryQueue[g] \in Nat /\ inFlight[g] \in Nat /\ confirmed[g] \in Nat
          /\ given[g] \in Nat /\ made[g] \in 0..2
        BY DEF SubagentsInv, CopiesInv, MadeInv
    <2>2. Copies(g) > 1 /\ Copies(g) \in Nat
        BY <2>1 DEF Copies
    <2> QED BY <2>1, <2>2 DEF SubagentsInv, CopiesInv
<1> QED BY <1>4, <1>5, <1>6 DEF GrantsApart

LEMMA SubagentsBegin == SubagentsInit => SubagentsInv
<1> SUFFICES ASSUME SubagentsInit PROVE SubagentsInv
    OBVIOUS
<1> USE DEF SubagentsInit
<1>1. AdmissionInv
    BY GrantsAssumption DEF AdmissionInv, Idle, Roles
<1>2. ChildInv
    BY DEF ChildInv, Runs, QueuesOf, AloneIn, Occupied
<1>3. MadeInv /\ QuietInv
    BY GrantsAssumption DEF MadeInv, QuietInv, Nothing
<1>4. CopiesInv
    BY DEF CopiesInv, Copies, Nothing
<1>5. OtherTypes
    <2>1. strikes \in 0..MaxStrikes
        BY StrikesAssumption
    <2> QED BY <2>1 DEF OtherTypes
<1> QED BY <1>1, <1>2, <1>3, <1>4, <1>5 DEF SubagentsInv

-----------------------------------------------------------------------------
(* schedule(), with the roles the grants have when it is done: it may give *)
(* a role to one that is queued.  A writer is started alone, and a grant   *)
(* that is over stays so.                                                  *)
LEMMA FirstIsOne ==
    ASSUME NEW queue \in SUBSET Grants, NEW g \in First(queue), NEW h \in First(queue)
    PROVE  g = h
<1>1. g \in queue /\ h \in queue /\ g <= h /\ h <= g /\ g \in Int /\ h \in Int
    BY GrantsAssumption DEF First, Grants
<1> QED BY <1>1

LEMMA Scheduled ==
    ASSUME NEW runs \in [Grants -> Runs], NEW roles \in [Grants -> Roles],
           NEW readQ, NEW workQ, QueuesOf(runs, roles, readQ, workQ), AloneIn(runs, roles),
           role \in [Grants -> Roles],
           \A g \in Grants : runs[g] \in Occupied => roles[g] = role[g],
           Schedule(runs, readQ, workQ)
    PROVE  /\ childRun' \in [Grants -> Runs]
           /\ QueuesOf(childRun', roles, readQueue', workQueue') /\ AloneIn(childRun', roles)
           /\ \A g \in Grants : runs[g] \in {"none", "over"} => childRun'[g] = runs[g]
<1>1. CASE childRun' = runs /\ readQueue' = readQ /\ workQueue' = workQ
    BY <1>1
<1> DEFINE starting == Starting(runs, readQ, workQ)
<1>2. CASE /\ ~\E g \in Grants :
                    runs[g] \in Occupied /\ (role[g] = "work" \/ (role[g] = "read" /\ workQ # {}))
           /\ Starts(runs, starting, readQ, workQ)
    <2>1. starting \subseteq (IF Waiting(workQ) = {} THEN readQ ELSE workQ)
        BY DEF Starting, Readers, First, Waiting
    <2>2. starting \subseteq {g \in Grants : runs[g] = "queued"}
        BY <2>1 DEF QueuesOf
    <2>3. Waiting(workQ) # {} => \A g, h \in starting : g = h
        <3>1. Waiting(workQ) \in SUBSET Grants
            BY DEF Waiting, QueuesOf
        <3> QED BY <3>1, FirstIsOne DEF Starting
    <2> HIDE DEF starting
    <2>4. /\ childRun' = [g \in Grants |->
                              IF g \in starting THEN "starting"
                              ELSE IF runs[g] = "queued" /\ g \in cancelled THEN "over"
                              ELSE runs[g]]
          /\ workQueue' = (workQ \ cancelled) \ starting
          /\ readQueue' = (readQ \ cancelled) \ starting
        BY <1>2 DEF Starts, Started, Waiting
    <2>5. childRun' \in [Grants -> Runs]
        BY <2>4 DEF Runs, Occupied
    <2>6. QueuesOf(childRun', roles, readQueue', workQueue')
        BY <2>4 DEF QueuesOf
    <2>7. \A g \in Grants : runs[g] \in {"none", "over"} => childRun'[g] = runs[g]
        BY <2>2, <2>4
    <2>8. \A g \in Grants : childRun'[g] \in Occupied => g \in starting \/ runs[g] \in Occupied
        BY <2>4 DEF Occupied
    <2>9. AloneIn(childRun', roles)
        <3>1. CASE Waiting(workQ) = {}
            <4>1. \A g \in starting : roles[g] = "read"
                BY <2>1, <3>1 DEF QueuesOf
            <4>2. \A g \in Grants : runs[g] \in Occupied => roles[g] # "work"
                BY <1>2
            <4> QED BY <2>8, <4>1, <4>2 DEF AloneIn
        <3>2. CASE Waiting(workQ) # {}
            <4>1. workQ # {}
                BY <3>2 DEF Waiting
            <4>2. \A g \in Grants : runs[g] \notin Occupied
                BY <1>2, <4>1 DEF Roles
            <4> QED BY <2>3, <2>8, <3>2, <4>2 DEF AloneIn
        <3> QED BY <3>1, <3>2
    <2> QED BY <2>5, <2>6, <2>7, <2>9
<1> QED BY <1>1, <1>2 DEF Schedule

-----------------------------------------------------------------------------
(* Results that move, and results that are made.                           *)
LEMMA PartsOfResults ==
    ASSUME NEW results \in [Grants -> Nat], NEW gs \in SUBSET Grants
    PROVE  /\ OfGrants(results, gs) \in [Grants -> Nat]
           /\ OfGrants(results, Grants \ gs) \in [Grants -> Nat]
           /\ \A g \in Grants :
                  OfGrants(results, gs)[g] + OfGrants(results, Grants \ gs)[g] = results[g]
BY DEF OfGrants

LEMMA PlusAdds ==
    ASSUME NEW results \in [Grants -> Nat], NEW more \in [Grants -> Nat]
    PROVE  /\ Plus(results, more) \in [Grants -> Nat]
           /\ \A g \in Grants : Plus(results, more)[g] = results[g] + more[g]
BY DEF Plus

LEMMA NothingIsNone == Nothing \in [Grants -> Nat] /\ \A g \in Grants : Nothing[g] = 0
BY DEF Nothing

LEMMA ReadyOrNot ==
    ASSUME NEW queue \in [Grants -> Nat]
    PROVE  /\ Ready(queue) \in [Grants -> Nat] /\ Unready(queue) \in [Grants -> Nat]
           /\ \A g \in Grants : Ready(queue)[g] + Unready(queue)[g] = queue[g]
<1>1. Answered \in SUBSET Grants
    BY DEF Answered
<1> QED BY <1>1, PartsOfResults DEF Ready, Unready

(* A flush loses nothing of what is queued, is flying or was given.        *)
LEMMA FlushMoves ==
    ASSUME NEW queue \in [Grants -> Nat], NEW flying \in [Grants -> Nat],
           NEW goalOn \in BOOLEAN, given \in [Grants -> Nat], Flush(queue, flying, goalOn)
    PROVE  /\ deliveryQueue' \in [Grants -> Nat] /\ inFlight' \in [Grants -> Nat]
           /\ given' \in [Grants -> Nat]
           /\ \A g \in Grants : deliveryQueue'[g] + inFlight'[g] + given'[g]
                                 = queue[g] + flying[g] + given[g]
           /\ marking' \subseteq marking \cup Grants
           /\ parent' \in {parent, "bringing"}
<1>1. CASE Ready(queue) = Nothing
    BY <1>1 DEF Flush
<1> DEFINE ready == Ready(queue)
           unready == Unready(queue)
<1>2. /\ ready \in [Grants -> Nat] /\ unready \in [Grants -> Nat]
      /\ \A g \in Grants : ready[g] + unready[g] = queue[g]
    BY ReadyOrNot
<1>3. CASE Ready(queue) # Nothing /\ goalOn
    <2>1. /\ deliveryQueue' = unready /\ inFlight' = Plus(flying, ready)
          /\ parent' = "bringing" /\ given' = given /\ marking' = marking
        BY <1>3 DEF Flush
    <2> HIDE DEF ready, unready
    <2>2. /\ inFlight' \in [Grants -> Nat]
          /\ \A g \in Grants : inFlight'[g] = flying[g] + ready[g]
        BY <1>2, <2>1, PlusAdds
    <2>3. ASSUME NEW g \in Grants
          PROVE  deliveryQueue'[g] + inFlight'[g] + given'[g]
                     = queue[g] + flying[g] + given[g]
        <3>1. /\ ready[g] \in Nat /\ unready[g] \in Nat /\ flying[g] \in Nat
              /\ given[g] \in Nat /\ queue[g] = ready[g] + unready[g]
            BY <1>2
        <3> QED BY <2>1, <2>2, <3>1
    <2> QED BY <1>2, <2>1, <2>2, <2>3
<1>4. CASE Ready(queue) # Nothing /\ ~goalOn
    <2>1. /\ deliveryQueue' = unready /\ inFlight' = flying /\ given' = Plus(given, ready)
          /\ parent' = parent /\ marking' = marking \cup Held(ready)
        BY <1>4 DEF Flush, GivenWith
    <2> HIDE DEF ready, unready
    <2>2. /\ given' \in [Grants -> Nat]
          /\ \A g \in Grants : given'[g] = given[g] + ready[g]
        BY <1>2, <2>1, PlusAdds
    <2>3. ASSUME NEW g \in Grants
          PROVE  deliveryQueue'[g] + inFlight'[g] + given'[g]
                     = queue[g] + flying[g] + given[g]
        <3>1. /\ ready[g] \in Nat /\ unready[g] \in Nat /\ flying[g] \in Nat
              /\ given[g] \in Nat /\ queue[g] = ready[g] + unready[g]
            BY <1>2
        <3> QED BY <2>1, <2>2, <3>1
    <2>4. Held(ready) \subseteq Grants
        BY DEF Held
    <2> QED BY <1>2, <2>1, <2>2, <2>3, <2>4
<1> QED BY <1>1, <1>3, <1>4

LEMMA Moved ==
    ASSUME CopiesInv, made' = made, crashes' = crashes,
           deliveryQueue' \in [Grants -> Nat], inFlight' \in [Grants -> Nat],
           confirmed' \in [Grants -> Nat], given' \in [Grants -> Nat],
           made \in [Grants -> 0..2],
           \A g \in Grants : deliveryQueue'[g] + inFlight'[g] + confirmed'[g] + given'[g]
                                 <= Copies(g)
    PROVE  CopiesInv'
<1>1. ASSUME NEW g \in Grants
      PROVE  Copies(g)' <= made'[g] \/ (crashes' > 0 /\ Copies(g)' <= 1)
    <2>1. Copies(g)' \in Nat /\ Copies(g) \in Nat /\ made[g] \in Nat /\ Copies(g)' <= Copies(g)
        BY DEF CopiesInv, Copies
    <2>2. \A x, y, z \in Nat : (x <= y /\ y <= z) => x <= z
        OBVIOUS
    <2>3. CASE Copies(g) <= made[g]
        BY <2>1, <2>2, <2>3
    <2>4. CASE crashes > 0 /\ Copies(g) <= 1
        BY <2>1, <2>2, <2>4
    <2> QED BY <2>3, <2>4 DEF CopiesInv
<1> QED BY <1>1 DEF CopiesInv

LEMMA MadeAndQueued ==
    ASSUME CopiesInv, made \in [Grants -> 0..2], crashes = 0, NEW g \in Grants, Leaves(g)
    PROVE  CopiesInv'
<1>1. /\ made' = [made EXCEPT ![g] = made[g] + 1]
      /\ deliveryQueue' = [deliveryQueue EXCEPT ![g] = deliveryQueue[g] + 1]
      /\ inFlight' = inFlight /\ confirmed' = confirmed /\ given' = given /\ crashes' = crashes
    BY DEF Leaves
<1>2. deliveryQueue' \in [Grants -> Nat]
    BY <1>1 DEF CopiesInv
<1>3. ASSUME NEW h \in Grants
      PROVE  Copies(h)' <= made'[h]
    <2>1. /\ deliveryQueue[h] \in Nat /\ inFlight[h] \in Nat /\ confirmed[h] \in Nat
          /\ given[h] \in Nat /\ made[h] \in Nat
          /\ deliveryQueue[h] + inFlight[h] + confirmed[h] + given[h] <= made[h]
        BY DEF CopiesInv, Copies
    <2>2. CASE h = g
        <3>1. made'[h] = made[h] + 1 /\ deliveryQueue'[h] = deliveryQueue[h] + 1
            BY <1>1, <2>2 DEF CopiesInv
        <3> QED BY <1>1, <2>1, <3>1 DEF Copies
    <2>3. CASE h # g
        <3>1. made'[h] = made[h] /\ deliveryQueue'[h] = deliveryQueue[h]
            BY <1>1, <2>3 DEF CopiesInv
        <3> QED BY <1>1, <2>1, <3>1 DEF Copies
    <2> QED BY <2>2, <2>3
<1> QED BY <1>1, <1>2, <1>3 DEF CopiesInv

-----------------------------------------------------------------------------
(* One lemma for the steps that only move results, and one for each way    *)
(* grants move.                                                            *)
LEMMA ResultsOnly ==
    ASSUME SubagentsInv, UNCHANGED <<grantVars, childVars, made, crashes>>,
           CopiesInv', OtherTypes'
    PROVE  SubagentsInv'
<1> USE DEF SubagentsInv, grantVars, childVars
<1>1. AdmissionInv'
    BY DEF AdmissionInv
<1>2. ChildInv'
    BY DEF ChildInv
<1>3. MadeInv' /\ QuietInv'
    BY DEF MadeInv, QuietInv, Over, Landed
<1> QED BY <1>1, <1>2, <1>3

LEMMA ResultsMove ==
    ASSUME SubagentsInv, NEW goalOn \in BOOLEAN, NEW continued \in BOOLEAN, NEW user \in BOOLEAN,
           \/ TimerFires(goalOn) \/ Confirm \/ Write \/ Mark \/ Project \/ ReplyEnds
           \/ ParentStarts(user) \/ ParentSettles(goalOn, continued)
    PROVE  SubagentsInv'
<1>c. /\ CopiesInv /\ made \in [Grants -> 0..2]
      /\ deliveryQueue \in [Grants -> Nat] /\ inFlight \in [Grants -> Nat]
      /\ confirmed \in [Grants -> Nat] /\ given \in [Grants -> Nat]
    BY DEF SubagentsInv, MadeInv, CopiesInv
<1>t. /\ projected \subseteq Grants /\ marking \subseteq Grants /\ lost \subseteq Grants
      /\ strikes \in 0..MaxStrikes /\ wake \in BOOLEAN
      /\ timer \in BOOLEAN /\ parent \in {"idle", "bringing", "running"}
      /\ saved \in [Grants -> {"none", "active", "pending", "delivered"}]
    BY DEF SubagentsInv, OtherTypes
<1>z. 0 \in 0..MaxStrikes /\ \A n \in 0..MaxStrikes : n < MaxStrikes => n + 1 \in 0..MaxStrikes
    BY StrikesAssumption
<1>h. \A results : Held(results) \subseteq Grants
    BY DEF Held
<1>s. ASSUME UNCHANGED deliveryVars, given' = given, made' = made, crashes' = crashes
      PROVE  CopiesInv'
    BY <1>c, <1>s DEF deliveryVars, CopiesInv, Copies
<1>1. CASE TimerFires(goalOn)
    <2>1. UNCHANGED <<grantVars, childVars, made, crashes, projected, confirmed, saved, lost,
                      strikes, wake>>
        BY <1>1 DEF TimerFires, flagVars
    <2>2. CASE wake /\ parent = "idle"
        <3>1. Flush(deliveryQueue, inFlight, goalOn) /\ timer' = FALSE
            BY <1>1, <2>2 DEF TimerFires
        <3>2. /\ deliveryQueue' \in [Grants -> Nat] /\ inFlight' \in [Grants -> Nat]
              /\ given' \in [Grants -> Nat]
              /\ \A g \in Grants : deliveryQueue'[g] + inFlight'[g] + given'[g]
                                    = deliveryQueue[g] + inFlight[g] + given[g]
              /\ marking' \subseteq marking \cup Grants
              /\ parent' \in {parent, "bringing"}
            BY <1>c, <3>1, FlushMoves
        <3>3. ASSUME NEW g \in Grants
              PROVE  deliveryQueue'[g] + inFlight'[g] + confirmed'[g] + given'[g] <= Copies(g)
            <4>1. /\ deliveryQueue[g] \in Nat /\ inFlight[g] \in Nat /\ confirmed[g] \in Nat
                  /\ given[g] \in Nat /\ deliveryQueue'[g] \in Nat /\ inFlight'[g] \in Nat
                  /\ given'[g] \in Nat /\ confirmed'[g] = confirmed[g]
                BY <1>c, <2>1, <3>2
            <4> QED BY <3>2, <4>1 DEF Copies
        <3>4. CopiesInv'
            BY <1>c, <2>1, <3>2, <3>3, Moved
        <3>5. OtherTypes'
            BY <1>t, <2>1, <3>1, <3>2 DEF OtherTypes
        <3> QED BY <2>1, <3>4, <3>5, ResultsOnly
    <2>3. CASE ~(wake /\ parent = "idle")
        <3>1. UNCHANGED <<deliveryVars, given, marking, parent>> /\ timer' = FALSE
            BY <1>1, <2>1, <2>3 DEF TimerFires, deliveryVars
        <3>2. OtherTypes'
            BY <1>t, <2>1, <3>1 DEF OtherTypes, deliveryVars
        <3> QED BY <1>s, <2>1, <3>1, <3>2, ResultsOnly
    <2> QED BY <2>2, <2>3
<1>2. CASE Confirm
    <2>1. /\ UNCHANGED <<grantVars, childVars, made, crashes, deliveryQueue, given, wake, timer,
                         saved, lost>>
          /\ confirmed' = inFlight /\ inFlight' = Nothing /\ strikes' = 0
          /\ projected' \subseteq projected /\ marking' = marking \cup Held(inFlight)
          /\ parent' = "running"
        BY <1>2 DEF Confirm
    <2>2. ASSUME NEW g \in Grants
          PROVE  deliveryQueue'[g] + inFlight'[g] + confirmed'[g] + given'[g] <= Copies(g)
        <3>1. /\ deliveryQueue[g] \in Nat /\ inFlight[g] \in Nat /\ confirmed[g] \in Nat
              /\ given[g] \in Nat
              /\ inFlight'[g] = 0 /\ confirmed'[g] = inFlight[g]
              /\ deliveryQueue'[g] = deliveryQueue[g] /\ given'[g] = given[g]
            BY <1>c, <2>1, NothingIsNone
        <3> QED BY <3>1 DEF Copies
    <2>3. CopiesInv'
        BY <1>c, <2>1, <2>2, Moved, NothingIsNone
    <2>4. OtherTypes'
        BY <1>t, <1>z, <1>h, <2>1 DEF OtherTypes
    <2> QED BY <2>1, <2>3, <2>4, ResultsOnly
<1>3. CASE Write
    <2>1. /\ UNCHANGED <<grantVars, childVars, made, crashes, deliveryQueue, inFlight, projected,
                         marking, saved, lost, strikes, wake, timer, parent>>
          /\ confirmed' = Nothing /\ given' = Plus(given, confirmed)
        BY <1>3 DEF Write, GivenWith, flagVars
    <2>2. /\ given' \in [Grants -> Nat]
          /\ \A g \in Grants : given'[g] = given[g] + confirmed[g]
        BY <1>c, <2>1, PlusAdds
    <2>3. ASSUME NEW g \in Grants
          PROVE  deliveryQueue'[g] + inFlight'[g] + confirmed'[g] + given'[g] <= Copies(g)
        <3>1. /\ deliveryQueue[g] \in Nat /\ inFlight[g] \in Nat /\ confirmed[g] \in Nat
              /\ given[g] \in Nat
              /\ inFlight'[g] = inFlight[g] /\ confirmed'[g] = 0
              /\ deliveryQueue'[g] = deliveryQueue[g] /\ given'[g] = given[g] + confirmed[g]
            BY <1>c, <2>1, <2>2, NothingIsNone
        <3> QED BY <3>1 DEF Copies
    <2>4. CopiesInv'
        BY <1>c, <2>1, <2>2, <2>3, Moved, NothingIsNone
    <2>5. OtherTypes'
        BY <1>t, <2>1 DEF OtherTypes
    <2> QED BY <2>1, <2>4, <2>5, ResultsOnly
<1>4. CASE Mark
    <2>1. /\ UNCHANGED <<grantVars, childVars, deliveryVars, given, made, lost, crashes, strikes,
                         wake, timer, parent>>
          /\ marking' = {}
          /\ saved' \in [Grants -> {"none", "active", "pending", "delivered"}]
        BY <1>4, <1>t DEF Mark, flagVars
    <2>2. OtherTypes'
        BY <1>t, <2>1 DEF OtherTypes, deliveryVars
    <2> QED BY <1>s, <2>1, <2>2, ResultsOnly
<1>5. CASE Project
    <2>1. /\ UNCHANGED <<grantVars, childVars, deliveryQueue, inFlight, confirmed, marking, saved,
                         given, made, lost, crashes, strikes, wake, timer, parent>>
          /\ projected' = projected \cup Held(Ready(deliveryQueue))
        BY <1>5 DEF Project, flagVars
    <2>2. CopiesInv'
        BY <1>c, <2>1 DEF CopiesInv, Copies
    <2>3. OtherTypes'
        BY <1>t, <1>h, <2>1 DEF OtherTypes
    <2> QED BY <2>1, <2>2, <2>3, ResultsOnly
<1>6. CASE ReplyEnds
    <2> DEFINE consumed == OfGrants(deliveryQueue, projected)
    <2>1. /\ UNCHANGED <<grantVars, childVars, inFlight, confirmed, saved, made, lost, crashes, wake,
                         timer, parent>>
          /\ deliveryQueue' = OfGrants(deliveryQueue, Grants \ projected)
          /\ given' = Plus(given, consumed) /\ projected' = {}
          /\ marking' = marking \cup Held(consumed) /\ strikes' \in {strikes, 0}
        BY <1>6 DEF ReplyEnds, GivenWith
    <2>2. /\ consumed \in [Grants -> Nat] /\ deliveryQueue' \in [Grants -> Nat]
          /\ \A g \in Grants : consumed[g] + deliveryQueue'[g] = deliveryQueue[g]
        BY <1>c, <1>t, <2>1, PartsOfResults
    <2> HIDE DEF consumed
    <2>3. /\ given' \in [Grants -> Nat]
          /\ \A g \in Grants : given'[g] = given[g] + consumed[g]
        BY <1>c, <2>1, <2>2, PlusAdds
    <2>4. ASSUME NEW g \in Grants
          PROVE  deliveryQueue'[g] + inFlight'[g] + confirmed'[g] + given'[g] <= Copies(g)
        <3>1. /\ deliveryQueue[g] \in Nat /\ inFlight[g] \in Nat /\ confirmed[g] \in Nat
              /\ given[g] \in Nat /\ consumed[g] \in Nat /\ deliveryQueue'[g] \in Nat
              /\ inFlight'[g] = inFlight[g] /\ confirmed'[g] = confirmed[g]
              /\ consumed[g] + deliveryQueue'[g] = deliveryQueue[g]
              /\ given'[g] = given[g] + consumed[g]
            BY <1>c, <2>1, <2>2, <2>3
        <3> QED BY <3>1 DEF Copies
    <2>5. CopiesInv'
        BY <1>c, <2>1, <2>2, <2>3, <2>4, Moved
    <2>6. OtherTypes'
        BY <1>t, <1>z, <1>h, <2>1 DEF OtherTypes
    <2> QED BY <2>1, <2>5, <2>6, ResultsOnly
<1>7. CASE ParentStarts(user)
    <2>1. UNCHANGED <<grantVars, childVars, deliveryVars, given, made, crashes, marking, saved, lost>>
        BY <1>7 DEF ParentStarts, resultVars
    <2>2. strikes' \in {strikes, 0} /\ parent' = "running"
        BY <1>7 DEF ParentStarts, flagVars
    <2>3. wake' \in BOOLEAN /\ timer' \in BOOLEAN
        BY <1>7, <1>t DEF ParentStarts, flagVars
    <2>4. OtherTypes'
        BY <1>t, <1>z, <2>1, <2>2, <2>3 DEF OtherTypes, deliveryVars
    <2> QED BY <1>s, <2>1, <2>4, ResultsOnly
<1>8. CASE ParentSettles(goalOn, continued)
    <2> DEFINE queue == Plus(inFlight, deliveryQueue)
    <2>1. /\ UNCHANGED <<grantVars, childVars, projected, confirmed, saved, made, lost, crashes,
                         wake, timer>>
          /\ strikes' \in 0..MaxStrikes
        <3>1. /\ UNCHANGED <<grantVars, childVars, projected, confirmed, saved, made, lost, crashes,
                             wake, timer>>
              /\ strikes' = IF inFlight # Nothing /\ strikes < MaxStrikes
                            THEN strikes + 1 ELSE strikes
            BY <1>8 DEF ParentSettles
        <3> QED BY <1>t, <1>z, <3>1
    <2>2. \/ Flush(queue, Nothing, TRUE)
          \/ /\ parent' \in {"running", "idle"} /\ inFlight' = Nothing
             /\ deliveryQueue' = Unready(queue) /\ given' = Plus(given, Ready(queue))
             /\ marking' = marking \cup Held(Ready(queue))
          \/ /\ parent' \in {"running", "idle"} /\ inFlight' = Nothing
             /\ deliveryQueue' = queue /\ given' = given /\ marking' = marking
        BY <1>8 DEF ParentSettles, GivenWith
    <2>3. /\ queue \in [Grants -> Nat]
          /\ \A g \in Grants : queue[g] = inFlight[g] + deliveryQueue[g]
        BY <1>c, PlusAdds
    <2> HIDE DEF queue
    <2>4. /\ deliveryQueue' \in [Grants -> Nat] /\ inFlight' \in [Grants -> Nat]
          /\ given' \in [Grants -> Nat]
          /\ \A g \in Grants : deliveryQueue'[g] + inFlight'[g] + given'[g]
                                = queue[g] + given[g]
          /\ marking' \subseteq marking \cup Grants
          /\ parent' \in {parent, "bringing", "running", "idle"}
        <3>1. CASE Flush(queue, Nothing, TRUE)
            <4>1. /\ deliveryQueue' \in [Grants -> Nat] /\ inFlight' \in [Grants -> Nat]
                  /\ given' \in [Grants -> Nat]
                  /\ \A g \in Grants : deliveryQueue'[g] + inFlight'[g] + given'[g]
                                        = queue[g] + Nothing[g] + given[g]
                  /\ marking' \subseteq marking \cup Grants
                  /\ parent' \in {parent, "bringing"}
                BY <1>c, <2>3, <3>1, FlushMoves, NothingIsNone
            <4>2. \A g \in Grants : queue[g] + Nothing[g] + given[g] = queue[g] + given[g]
                BY <1>c, <2>3, NothingIsNone
            <4> QED BY <4>1, <4>2
        <3>2. CASE /\ parent' \in {"running", "idle"} /\ inFlight' = Nothing
                   /\ deliveryQueue' = Unready(queue) /\ given' = Plus(given, Ready(queue))
                   /\ marking' = marking \cup Held(Ready(queue))
            <4>1. /\ Ready(queue) \in [Grants -> Nat] /\ Unready(queue) \in [Grants -> Nat]
                  /\ \A g \in Grants : Ready(queue)[g] + Unready(queue)[g] = queue[g]
                BY <2>3, ReadyOrNot
            <4>2. /\ given' \in [Grants -> Nat]
                  /\ \A g \in Grants : given'[g] = given[g] + Ready(queue)[g]
                BY <1>c, <3>2, <4>1, PlusAdds
            <4>3. ASSUME NEW g \in Grants
                  PROVE  deliveryQueue'[g] + inFlight'[g] + given'[g] = queue[g] + given[g]
                <5>1. /\ Ready(queue)[g] \in Nat /\ Unready(queue)[g] \in Nat
                      /\ given[g] \in Nat /\ queue[g] \in Nat
                      /\ Ready(queue)[g] + Unready(queue)[g] = queue[g]
                      /\ deliveryQueue'[g] = Unready(queue)[g] /\ inFlight'[g] = 0
                      /\ given'[g] = given[g] + Ready(queue)[g]
                    BY <1>c, <2>3, <3>2, <4>1, <4>2, NothingIsNone
                <5> QED BY <5>1
            <4> QED BY <1>h, <3>2, <4>1, <4>2, <4>3, NothingIsNone
        <3>3. CASE /\ parent' \in {"running", "idle"} /\ inFlight' = Nothing
                   /\ deliveryQueue' = queue /\ given' = given /\ marking' = marking
            BY <1>c, <2>3, <3>3, NothingIsNone
        <3> QED BY <2>2, <3>1, <3>2, <3>3
    <2>5. ASSUME NEW g \in Grants
          PROVE  deliveryQueue'[g] + inFlight'[g] + confirmed'[g] + given'[g] <= Copies(g)
        <3>1. /\ deliveryQueue[g] \in Nat /\ inFlight[g] \in Nat /\ confirmed[g] \in Nat
              /\ given[g] \in Nat /\ deliveryQueue'[g] \in Nat /\ inFlight'[g] \in Nat
              /\ given'[g] \in Nat /\ confirmed'[g] = confirmed[g]
              /\ deliveryQueue'[g] + inFlight'[g] + given'[g]
                     = (inFlight[g] + deliveryQueue[g]) + given[g]
            BY <1>c, <2>1, <2>3, <2>4
        <3> QED BY <3>1 DEF Copies
    <2>6. CopiesInv'
        BY <1>c, <2>1, <2>4, <2>5, Moved
    <2>7. OtherTypes'
        BY <1>t, <2>1, <2>4 DEF OtherTypes
    <2> QED BY <2>1, <2>6, <2>7, ResultsOnly
<1> QED BY <1>1, <1>2, <1>3, <1>4, <1>5, <1>6, <1>7, <1>8

-----------------------------------------------------------------------------
LEMMA CallHolds ==
    ASSUME SubagentsInv, NEW r \in Roles, NEW n \in 1..MaxJobs, Call(r, n)
    PROVE  SubagentsInv'
<1>1. /\ admitting' = [role |-> r, left |-> n] /\ admitted + n <= MaxGrants /\ crashes = 0
      /\ UNCHANGED <<admitted, role, batch, childVars, resultVars, flagVars, timer, parent>>
    BY DEF Call
<1>2. AdmissionInv'
    <2>1. n \in 0..MaxJobs
        BY GrantsAssumption
    <2> QED BY <1>1, <2>1 DEF SubagentsInv, AdmissionInv, childVars
<1>3. ChildInv'
    BY <1>1 DEF SubagentsInv, ChildInv, childVars
<1>4. MadeInv' /\ QuietInv'
    BY <1>1 DEF SubagentsInv, MadeInv, QuietInv, Over, Landed, childVars, resultVars
<1>5. CopiesInv' /\ OtherTypes'
    BY <1>1 DEF SubagentsInv, CopiesInv, Copies, OtherTypes, resultVars, deliveryVars, flagVars
<1> QED BY <1>2, <1>3, <1>4, <1>5 DEF SubagentsInv

(* A job becomes a grant of its role, and waits behind the others.         *)
LEMMA AdmitHolds ==
    ASSUME SubagentsInv, AdmitJob
    PROVE  SubagentsInv'
<1> DEFINE g == admitted + 1
           queued == [childRun EXCEPT ![g] = "queued"]
           readQ == IF admitting.role = "read" THEN readQueue \cup {g} ELSE readQueue
           workQ == IF admitting.role = "work" THEN workQueue \cup {g} ELSE workQueue
<1>1. /\ admitting.left > 0
      /\ admitted' = g /\ admitting' = [admitting EXCEPT !.left = admitting.left - 1]
      /\ role' = [role EXCEPT ![g] = admitting.role]
      /\ batch' = [batch EXCEPT ![g] = g + admitting.left - 1]
      /\ active' = active \cup {g} /\ saved' = [saved EXCEPT ![g] = "active"]
      /\ \/ Schedule(queued, readQ, workQ)
         \/ childRun' = queued /\ readQueue' = readQ /\ workQueue' = workQ
      /\ UNCHANGED <<cancelled, landing, deliveryVars, marking, given, made, lost, crashes,
                     flagVars, timer, parent>>
    BY DEF AdmitJob
<1>2. /\ admitting.left \in 0..MaxJobs /\ admitted \in 0..MaxGrants
      /\ admitting.role \in Roles /\ admitting = [role |-> admitting.role, left |-> admitting.left]
      /\ admitted + admitting.left <= MaxGrants /\ crashes = 0
      /\ role \in [Grants -> Roles] /\ batch \in [Grants -> 0..MaxGrants]
      /\ \A h \in Grants : h > admitted => childRun[h] = "none"
    BY <1>1 DEF SubagentsInv, AdmissionInv, QuietInv
<1>3. /\ g \in Grants /\ g \in 0..MaxGrants /\ g > admitted
      /\ g + admitting.left - 1 \in 0..MaxGrants
      /\ admitting.left - 1 \in 0..MaxJobs /\ g + (admitting.left - 1) <= MaxGrants
      /\ \A h \in Grants : h > g => h > admitted /\ h # g
    BY <1>1, <1>2, GrantsAssumption DEF Grants
<1> HIDE DEF g
<1>4. /\ childRun \in [Grants -> Runs] /\ QueuesOf(childRun, role, readQueue, workQueue)
      /\ AloneIn(childRun, role) /\ childRun[g] = "none"
    BY <1>2, <1>3 DEF SubagentsInv, ChildInv
<1>5. /\ queued \in [Grants -> Runs] /\ role' \in [Grants -> Roles]
      /\ \A h \in Grants : h # g => queued[h] = childRun[h] /\ role'[h] = role[h]
      /\ queued[g] = "queued" /\ role'[g] = admitting.role
    BY <1>1, <1>2, <1>3, <1>4 DEF Runs
<1> HIDE DEF queued
<1>6. QueuesOf(queued, role', readQ, workQ)
    <2>1. readQueue \subseteq {h \in Grants : queued[h] = "queued" /\ role'[h] = "read"}
        BY <1>4, <1>5 DEF QueuesOf
    <2>2. workQueue \subseteq {h \in Grants : queued[h] = "queued" /\ role'[h] = "work"}
        BY <1>4, <1>5 DEF QueuesOf
    <2> QED BY <1>3, <1>5, <2>1, <2>2 DEF QueuesOf
<1>7. /\ AloneIn(queued, role')
      /\ \A h \in Grants : queued[h] \in Occupied => role'[h] = role[h]
    BY <1>4, <1>5 DEF AloneIn, Occupied
<1>8. /\ childRun' \in [Grants -> Runs] /\ QueuesOf(childRun', role', readQueue', workQueue')
      /\ AloneIn(childRun', role')
      /\ \A h \in Grants : queued[h] \in {"none", "over"} => childRun'[h] = queued[h]
    <2> HIDE DEF readQ, workQ
    <2>1. CASE Schedule(queued, readQ, workQ)
        BY <1>2, <1>5, <1>6, <1>7, <2>1, Scheduled
    <2>2. CASE childRun' = queued /\ readQueue' = readQ /\ workQueue' = workQ
        BY <1>5, <1>6, <1>7, <2>2
    <2> QED BY <1>1, <2>1, <2>2
<1>9. AdmissionInv'
    <2>1. /\ admitting' \in [role : Roles, left : 0..MaxJobs]
          /\ admitting'.left = admitting.left - 1
        BY <1>1, <1>2, <1>3
    <2>2. batch' \in [Grants -> 0..MaxGrants]
        BY <1>1, <1>2, <1>3
    <2>3. \A h \in Grants : h > admitted' => childRun'[h] = "none"
        BY <1>1, <1>2, <1>3, <1>5, <1>8
    <2> QED BY <1>1, <1>3, <1>5, <2>1, <2>2, <2>3 DEF AdmissionInv
<1>10. ChildInv'
    BY <1>1, <1>3, <1>8 DEF SubagentsInv, ChildInv
<1>11. MadeInv'
    <2>1. \A h \in Grants : Over(h) => childRun'[h] = "over"
        BY <1>4, <1>5, <1>8 DEF Over
    <2> QED BY <1>1, <2>1 DEF SubagentsInv, MadeInv, Over, Landed
<1>12. QuietInv'
    BY <1>1, <1>2 DEF SubagentsInv, QuietInv
<1>13. CopiesInv'
    BY <1>1 DEF SubagentsInv, CopiesInv, Copies, deliveryVars
<1>14. OtherTypes'
    <2>1. saved' \in [Grants -> {"none", "active", "pending", "delivered"}]
        BY <1>1 DEF SubagentsInv, OtherTypes
    <2> QED BY <1>1, <2>1 DEF SubagentsInv, OtherTypes, deliveryVars, flagVars
<1> QED BY <1>9, <1>10, <1>11, <1>12, <1>13, <1>14 DEF SubagentsInv

-----------------------------------------------------------------------------
(* A run that ends frees its slot.                                         *)
LEMMA EndsFreesSlot ==
    ASSUME SubagentsInv, NEW g \in Grants, childRun[g] \in Occupied, Ends(g),
           UNCHANGED grantVars
    PROVE  /\ childRun' \in [Grants -> Runs]
           /\ QueuesOf(childRun', role', readQueue', workQueue') /\ AloneIn(childRun', role')
           /\ AdmissionInv' /\ childRun'[g] = "over"
           /\ \A h \in Grants : Over(h) => childRun'[h] = "over"
<1> DEFINE ended == [childRun EXCEPT ![g] = "over"]
<1>1. /\ childRun \in [Grants -> Runs] /\ role \in [Grants -> Roles] /\ role' = role
      /\ QueuesOf(childRun, role, readQueue, workQueue) /\ AloneIn(childRun, role)
    BY DEF SubagentsInv, ChildInv, AdmissionInv, grantVars
<1>2. /\ ended \in [Grants -> Runs] /\ ended[g] = "over"
      /\ \A h \in Grants : h # g => ended[h] = childRun[h]
    BY <1>1 DEF Runs
<1>3. Schedule(ended, readQueue, workQueue)
    BY DEF Ends
<1> HIDE DEF ended
<1>4. QueuesOf(ended, role, readQueue, workQueue)
    BY <1>1, <1>2 DEF QueuesOf, Occupied
<1>5. AloneIn(ended, role)
    BY <1>1, <1>2 DEF AloneIn, Occupied
<1>6. /\ childRun' \in [Grants -> Runs]
      /\ QueuesOf(childRun', role, readQueue', workQueue') /\ AloneIn(childRun', role)
      /\ \A h \in Grants : ended[h] \in {"none", "over"} => childRun'[h] = ended[h]
    BY <1>1, <1>2, <1>3, <1>4, <1>5, Scheduled
<1>7. \A h \in Grants : childRun[h] \in {"none", "over"} => childRun'[h] = childRun[h]
    BY <1>2, <1>6 DEF Occupied
<1>8. AdmissionInv'
    BY <1>7 DEF SubagentsInv, AdmissionInv, grantVars
<1> QED BY <1>1, <1>2, <1>6, <1>7, <1>8 DEF Over

LEMMA AtWorkBeforeCrash ==
    ASSUME SubagentsInv, NEW g \in Grants,
           childRun[g] \in Occupied \/ g \in landing \/ g \in active
    PROVE  crashes = 0
BY DEF SubagentsInv, QuietInv, Occupied

LEMMA PreparedHolds ==
    ASSUME SubagentsInv, NEW g \in Grants, Prepared(g)
    PROVE  SubagentsInv'
<1>1. /\ childRun[g] = "starting" /\ childRun[g] \in Occupied
      /\ UNCHANGED <<grantVars, active, cancelled, landing, resultVars, flagVars, timer, parent>>
    BY DEF Prepared, Occupied
<1>2. crashes = 0 /\ crashes' = crashes
    BY <1>1, AtWorkBeforeCrash DEF resultVars
<1>3. /\ childRun' \in [Grants -> Runs]
      /\ QueuesOf(childRun', role', readQueue', workQueue') /\ AloneIn(childRun', role')
      /\ AdmissionInv' /\ \A h \in Grants : Over(h) => childRun'[h] = "over"
    <2>1. CASE g \in cancelled
        <3>1. Ends(g) /\ UNCHANGED grantVars
            BY <1>1, <2>1 DEF Prepared
        <3> QED BY <1>1, <3>1, EndsFreesSlot
    <2>2. CASE g \notin cancelled
        <3>1. /\ childRun' = [childRun EXCEPT ![g] = "live"]
              /\ readQueue' = readQueue /\ workQueue' = workQueue /\ role' = role
            BY <1>1, <2>2 DEF Prepared, grantVars
        <3>2. /\ childRun \in [Grants -> Runs]
              /\ QueuesOf(childRun, role, readQueue, workQueue) /\ AloneIn(childRun, role)
            BY DEF SubagentsInv, ChildInv
        <3>3. /\ childRun' \in [Grants -> Runs] /\ childRun'[g] = "live"
              /\ \A h \in Grants : h # g => childRun'[h] = childRun[h]
            BY <3>1, <3>2 DEF Runs, Occupied
        <3>4. QueuesOf(childRun', role', readQueue', workQueue') /\ AloneIn(childRun', role')
            BY <1>1, <3>1, <3>2, <3>3 DEF QueuesOf, AloneIn, Occupied
        <3>5. \A h \in Grants : childRun[h] \in {"none", "over"} => childRun'[h] = childRun[h]
            BY <1>1, <3>3
        <3>6. AdmissionInv'
            BY <1>1, <3>5 DEF SubagentsInv, AdmissionInv, grantVars
        <3> QED BY <3>3, <3>4, <3>5, <3>6 DEF Over
    <2> QED BY <2>1, <2>2
<1>4. ChildInv'
    BY <1>1, <1>3 DEF SubagentsInv, ChildInv
<1>5. MadeInv'
    BY <1>1, <1>3 DEF SubagentsInv, MadeInv, Over, Landed, resultVars
<1>6. QuietInv'
    BY <1>2 DEF SubagentsInv, QuietInv
<1>7. CopiesInv' /\ OtherTypes'
    BY <1>1 DEF SubagentsInv, CopiesInv, Copies, OtherTypes, resultVars, deliveryVars, flagVars
<1> QED BY <1>3, <1>4, <1>5, <1>6, <1>7 DEF SubagentsInv

(* What is left behind: one more result, where there is room for one.      *)
LEMMA LeavesTypes ==
    ASSUME SubagentsInv, NEW g \in Grants, Leaves(g), UNCHANGED <<flagVars, parent>>
    PROVE  OtherTypes' /\ active' = active \ {g}
<1>1. /\ saved' \in [Grants -> {"none", "active", "pending", "delivered"}]
      /\ projected' = projected /\ marking' = marking /\ lost' = lost
      /\ strikes' = strikes /\ wake' = wake /\ parent' = parent
    BY DEF SubagentsInv, OtherTypes, Leaves, flagVars
<1>2. timer' \in BOOLEAN
    BY DEF SubagentsInv, OtherTypes, Leaves
<1> QED BY <1>1, <1>2 DEF SubagentsInv, OtherTypes, Leaves

LEMMA FinishHolds ==
    ASSUME SubagentsInv, NEW g \in Grants, Finish(g)
    PROVE  SubagentsInv'
<1>1. /\ childRun[g] \in Occupied /\ Leaves(g) /\ Ends(g)
      /\ UNCHANGED <<grantVars, cancelled, landing, flagVars, parent>>
    BY DEF Finish
<1>2. crashes = 0 /\ crashes' = crashes
    BY <1>1, AtWorkBeforeCrash DEF Leaves
<1>3. /\ childRun' \in [Grants -> Runs]
      /\ QueuesOf(childRun', role', readQueue', workQueue') /\ AloneIn(childRun', role')
      /\ AdmissionInv' /\ childRun'[g] = "over"
      /\ \A h \in Grants : Over(h) => childRun'[h] = "over"
    BY <1>1, EndsFreesSlot
<1>4. OtherTypes' /\ active' = active \ {g}
    BY <1>1, LeavesTypes
<1>5. ChildInv'
    BY <1>1, <1>3, <1>4 DEF SubagentsInv, ChildInv
<1>6. MadeInv'
    <2>1. /\ made \in [Grants -> 0..2] /\ made' = [made EXCEPT ![g] = made[g] + 1]
          /\ ~Over(g)
          /\ \A h \in Grants : (made[h] > 0 => Over(h) \/ Landed(h))
          /\ \A h \in Grants : (made[h] > 1 => Over(h) /\ Landed(h))
        BY <1>1, <1>2 DEF SubagentsInv, MadeInv, Leaves, Over, Occupied
    <2>2. made[g] \in 0..1 /\ (made[g] = 1 => Landed(g))
        <3>1. made[g] \in 0..2 /\ ~(made[g] > 1) /\ (made[g] > 0 => Landed(g))
            BY <2>1 DEF Over, Landed
        <3>2. \A k \in 0..2 : ~(k > 1) => k \in 0..1 /\ (k = 1 => k > 0)
            OBVIOUS
        <3> QED BY <3>1, <3>2
    <2>3. /\ made' \in [Grants -> 0..2] /\ made'[g] = made[g] + 1
          /\ \A h \in Grants : h # g => made'[h] = made[h]
        BY <2>1, <2>2
    <2>4. \A h \in Grants : Over(h)' \/ ~Over(h)
        BY <1>3 DEF Over
    <2>5. Over(g)' /\ \A h \in Grants : Landed(h)' <=> Landed(h)
        BY <1>1, <1>3 DEF Over, Landed
    <2>6. made'[g] > 1 => made[g] = 1
        BY <2>2, <2>3
    <2>7. ASSUME NEW h \in Grants
          PROVE  /\ made'[h] > 0 => Over(h)' \/ Landed(h)'
                 /\ made'[h] > 1 => Over(h)' /\ Landed(h)'
        <3>1. CASE h = g
            BY <2>2, <2>5, <2>6, <3>1 DEF Over, Landed
        <3>2. CASE h # g
            BY <2>1, <2>3, <2>4, <2>5, <3>2 DEF Over, Landed
        <3> QED BY <3>1, <3>2
    <2> QED BY <2>3, <2>7 DEF MadeInv
<1>7. QuietInv'
    BY <1>2 DEF SubagentsInv, QuietInv
<1>8. CopiesInv'
    BY <1>1, <1>2, MadeAndQueued DEF SubagentsInv, MadeInv
<1> QED BY <1>3, <1>4, <1>5, <1>6, <1>7, <1>8 DEF SubagentsInv

LEMMA LandsHolds ==
    ASSUME SubagentsInv, NEW g \in Grants, CancelLands(g)
    PROVE  SubagentsInv'
<1>1. /\ g \in landing /\ landing' = landing \ {g} /\ Leaves(g)
      /\ UNCHANGED <<grantVars, childRun, cancelled, readQueue, workQueue, flagVars, parent>>
    BY DEF CancelLands
<1>2. crashes = 0 /\ crashes' = crashes
    BY <1>1, AtWorkBeforeCrash DEF Leaves
<1>3. AdmissionInv'
    BY <1>1 DEF SubagentsInv, AdmissionInv, grantVars
<1>4. OtherTypes' /\ active' = active \ {g}
    BY <1>1, LeavesTypes
<1>5. ChildInv'
    BY <1>1, <1>4 DEF SubagentsInv, ChildInv, grantVars
<1>6. MadeInv'
    <2>1. /\ made \in [Grants -> 0..2] /\ made' = [made EXCEPT ![g] = made[g] + 1]
          /\ ~Landed(g)
          /\ \A h \in Grants : (made[h] > 0 => Over(h) \/ Landed(h))
          /\ \A h \in Grants : (made[h] > 1 => Over(h) /\ Landed(h))
        BY <1>1, <1>2 DEF SubagentsInv, MadeInv, Leaves, Landed
    <2>2. made[g] \in 0..1 /\ (made[g] = 1 => Over(g))
        <3>1. made[g] \in 0..2 /\ ~(made[g] > 1) /\ (made[g] > 0 => Over(g))
            BY <2>1 DEF Over, Landed
        <3>2. \A k \in 0..2 : ~(k > 1) => k \in 0..1 /\ (k = 1 => k > 0)
            OBVIOUS
        <3> QED BY <3>1, <3>2
    <2>3. /\ made' \in [Grants -> 0..2] /\ made'[g] = made[g] + 1
          /\ \A h \in Grants : h # g => made'[h] = made[h]
        BY <2>1, <2>2
    <2>4. /\ Landed(g)' /\ \A h \in Grants : Over(h)' <=> Over(h)
          /\ \A h \in Grants : h # g => (Landed(h)' <=> Landed(h))
        BY <1>1 DEF SubagentsInv, ChildInv, Over, Landed
    <2>5. made'[g] > 1 => made[g] = 1
        BY <2>2, <2>3
    <2>6. ASSUME NEW h \in Grants
          PROVE  /\ made'[h] > 0 => Over(h)' \/ Landed(h)'
                 /\ made'[h] > 1 => Over(h)' /\ Landed(h)'
        <3>1. CASE h = g
            BY <2>2, <2>4, <2>5, <3>1 DEF Over, Landed
        <3>2. CASE h # g
            BY <2>1, <2>3, <2>4, <3>2 DEF Over, Landed
        <3> QED BY <3>1, <3>2
    <2> QED BY <2>3, <2>6 DEF MadeInv
<1>7. QuietInv'
    BY <1>2 DEF SubagentsInv, QuietInv
<1>8. CopiesInv'
    BY <1>1, <1>2, MadeAndQueued DEF SubagentsInv, MadeInv
<1> QED BY <1>3, <1>4, <1>5, <1>6, <1>7, <1>8 DEF SubagentsInv

-----------------------------------------------------------------------------
LEMMA CancelHolds ==
    ASSUME SubagentsInv, NEW gs \in SUBSET active, Cancels(gs),
           UNCHANGED <<grantVars, active, childRun, readQueue, workQueue, resultVars>>,
           OtherTypes'
    PROVE  SubagentsInv'
<1>1. /\ cancelled' = cancelled \cup gs
      /\ landing' = landing \cup {g \in gs \ cancelled : childRun[g] \in NoProcess}
    BY DEF Cancels
<1>2. AdmissionInv'
    BY DEF SubagentsInv, AdmissionInv, grantVars
<1>3. ChildInv'
    BY <1>1 DEF SubagentsInv, ChildInv, grantVars
<1>4. MadeInv'
    <2>1. \A g \in Grants : Landed(g) => Landed(g)'
        BY <1>1 DEF Landed
    <2> QED BY <2>1 DEF SubagentsInv, MadeInv, Over, resultVars
<1>5. QuietInv'
    BY <1>1 DEF SubagentsInv, QuietInv, grantVars, resultVars
<1>6. CopiesInv'
    BY DEF SubagentsInv, CopiesInv, Copies, resultVars, deliveryVars
<1> QED BY <1>2, <1>3, <1>4, <1>5, <1>6 DEF SubagentsInv

(* A restart finds one result of every grant it recovers, and no run.      *)
LEMMA CrashHolds ==
    ASSUME SubagentsInv, Crash
    PROVE  SubagentsInv'
<1>1. /\ crashes < MaxCrashes /\ crashes' = crashes + 1
      /\ saved' \in [Grants -> {"none", "active", "pending", "delivered"}]
      /\ deliveryQueue' = [g \in Grants |-> IF g \in Recovered THEN 1 ELSE 0]
      /\ inFlight' = Nothing /\ confirmed' = Nothing /\ given' = given /\ made' = made
    BY DEF Crash, SubagentsInv, OtherTypes
<1>2. /\ admitting' = Idle /\ active' = {} /\ cancelled' = {} /\ landing' = {}
      /\ childRun' = [g \in Grants |-> IF childRun[g] = "none" THEN "none" ELSE "over"]
      /\ readQueue' = {} /\ workQueue' = {}
      /\ admitted' = admitted /\ role' = role /\ batch' = batch
    BY DEF Crash
<1>3. crashes \in 0..MaxCrashes /\ crashes' \in 0..MaxCrashes /\ crashes' > 0
    BY <1>1, GrantsAssumption DEF SubagentsInv, QuietInv
<1>4. AdmissionInv'
    BY <1>2, GrantsAssumption DEF SubagentsInv, AdmissionInv, Idle, Roles
<1>5. ChildInv'
    BY <1>2 DEF ChildInv, QueuesOf, AloneIn, Runs, Occupied
<1>6. MadeInv' /\ QuietInv'
    BY <1>1, <1>2, <1>3 DEF SubagentsInv, MadeInv, QuietInv, Idle
<1>7. CopiesInv'
    <2>1. /\ deliveryQueue \in [Grants -> Nat] /\ inFlight \in [Grants -> Nat]
          /\ confirmed \in [Grants -> Nat] /\ given \in [Grants -> Nat]
          /\ made \in [Grants -> 0..2]
        BY DEF SubagentsInv, CopiesInv, MadeInv
    <2>2. /\ deliveryQueue' \in [Grants -> Nat] /\ inFlight' \in [Grants -> Nat]
          /\ confirmed' \in [Grants -> Nat] /\ given' \in [Grants -> Nat]
        BY <1>1, <2>1, NothingIsNone
    <2>3. ASSUME NEW g \in Grants
          PROVE  Copies(g)' <= made'[g] \/ (crashes' > 0 /\ Copies(g)' <= 1)
        <3>1. CASE g \in Recovered
            <4>1. deliveryQueue'[g] = 1 /\ inFlight'[g] = 0 /\ confirmed'[g] = 0 /\ given'[g] = 0
                BY <1>1, <3>1, NothingIsNone DEF Recovered
            <4> QED BY <1>3, <4>1 DEF Copies
        <3>2. CASE g \notin Recovered
            <4>1. /\ deliveryQueue'[g] = 0 /\ inFlight'[g] = 0 /\ confirmed'[g] = 0
                  /\ given'[g] = given[g] /\ made'[g] = made[g]
                BY <1>1, <3>2, NothingIsNone
            <4>2. /\ deliveryQueue[g] \in Nat /\ inFlight[g] \in Nat /\ confirmed[g] \in Nat
                  /\ given[g] \in Nat /\ made[g] \in Nat
                BY <2>1
            <4>3. \/ deliveryQueue[g] + inFlight[g] + confirmed[g] + given[g] <= made[g]
                  \/ deliveryQueue[g] + inFlight[g] + confirmed[g] + given[g] <= 1
                BY DEF SubagentsInv, CopiesInv, Copies
            <4>4. given[g] <= made[g] \/ given[g] <= 1
                BY <4>2, <4>3
            <4> QED BY <1>3, <4>1, <4>2, <4>4 DEF Copies
        <3> QED BY <3>1, <3>2
    <2> QED BY <2>2, <2>3 DEF CopiesInv
<1>8. OtherTypes'
    <2>1. lost' \subseteq Grants
        BY DEF Crash, SubagentsInv, OtherTypes
    <2>2. /\ projected' = {} /\ marking' = {} /\ strikes' \in 0..MaxStrikes /\ parent' = "idle"
        BY StrikesAssumption DEF Crash
    <2>3. wake' \in BOOLEAN /\ timer' \in BOOLEAN
        BY DEF Crash
    <2> QED BY <1>1, <2>1, <2>2, <2>3 DEF OtherTypes
<1> QED BY <1>4, <1>5, <1>6, <1>7, <1>8 DEF SubagentsInv

LEMMA SubagentsGoOn == SubagentsInv /\ [SubagentsNext]_subagentsVars => SubagentsInv'
<1> SUFFICES ASSUME SubagentsInv, [SubagentsNext]_subagentsVars PROVE SubagentsInv'
    OBVIOUS
<1>1. CASE UNCHANGED subagentsVars
    <2>1. UNCHANGED <<grantVars, childVars, made, crashes, deliveryVars, given, marking, saved, lost,
                      strikes, wake, timer, parent>>
        BY <1>1 DEF subagentsVars, resultVars, flagVars
    <2>2. CopiesInv' /\ OtherTypes'
        BY <2>1 DEF SubagentsInv, CopiesInv, Copies, OtherTypes, deliveryVars
    <2> QED BY <2>1, <2>2, ResultsOnly
<1>2. ASSUME NEW r \in Roles, NEW n \in 1..MaxJobs, Call(r, n) PROVE SubagentsInv'
    BY <1>2, CallHolds
<1>3. CASE AdmitJob
    BY <1>3, AdmitHolds
<1>4. ASSUME NEW g \in Grants, Child(g) \/ CancelLands(g) PROVE SubagentsInv'
    BY <1>4, PreparedHolds, FinishHolds, LandsHolds DEF Child
<1>5. ASSUME NEW g \in Grants, Cancel(g) PROVE SubagentsInv'
    <2>1. /\ {g} \in SUBSET active /\ Cancels({g})
          /\ UNCHANGED <<grantVars, active, childRun, readQueue, workQueue, resultVars, flagVars,
                         timer, parent>>
        BY <1>5 DEF Cancel
    <2>2. OtherTypes'
        BY <2>1 DEF SubagentsInv, OtherTypes, resultVars, deliveryVars, flagVars
    <2> QED BY <2>1, <2>2, CancelHolds
<1>6. CASE Interrupt \/ ParentAborted
    <2>1. /\ Cancels(active) /\ wake' = FALSE /\ parent' \in {parent, "idle"}
          /\ UNCHANGED <<grantVars, active, childRun, readQueue, workQueue, resultVars, strikes,
                         timer>>
        BY <1>6 DEF Interrupt, ParentAborted, CancelsAll
    <2>2. OtherTypes'
        BY <2>1 DEF SubagentsInv, OtherTypes, resultVars, deliveryVars
    <2> QED BY <2>1, <2>2, CancelHolds
<1>7. CASE Crash
    BY <1>7, CrashHolds
<1>8. ASSUME NEW goalOn \in BOOLEAN, NEW continued \in BOOLEAN, NEW user \in BOOLEAN,
             \/ TimerFires(goalOn) \/ Confirm \/ Write \/ Mark \/ Project \/ ReplyEnds
             \/ ParentStarts(user) \/ ParentSettles(goalOn, continued)
      PROVE  SubagentsInv'
    BY <1>8, ResultsMove
<1>9. CASE \/ Fires \/ Confirm \/ Write \/ Mark \/ Project \/ ReplyEnds
           \/ \E user \in BOOLEAN : ParentStarts(user)
           \/ AnySettlement
    BY <1>8, <1>9 DEF Fires, AnySettlement
<1> QED BY <1>1, <1>2, <1>3, <1>4, <1>5, <1>6, <1>7, <1>9 DEF SubagentsNext

(* Whatever is queued, cancelled, fails or ends, and whenever the process  *)
(* restarts: a writer has the workspace for itself, and no result is given *)
(* to the model twice unless it was made twice (schedule(), flushDelivery, *)
(* confirmDelivery, recover()).                                            *)
THEOREM GrantsStayApart == SubagentsSpec => []GrantsApart
<1>1. SubagentsSpec => []SubagentsInv
    BY SubagentsBegin, SubagentsGoOn, PTL DEF SubagentsSpec
<1> QED BY <1>1, ApartFromInv, PTL

=============================================================================
