----------------------------- MODULE Subagents -----------------------------
(***************************************************************************)
(* product/subagents.ts: children that a session starts, runs in           *)
(* processes of their own, cancels, and whose results reach its model.     *)
(*                                                                         *)
(* A grant is one piece of work of one child.  Grants are admitted in      *)
(* batches of one role and wait in two queues: readers run side by side, a *)
(* writer runs alone.  A grant that ends leaves a result, and results      *)
(* reach the parent session in one of three ways: in a message that starts *)
(* a run, in the context of a run that is going on, or, when the goal they *)
(* were made for has stopped, in a message that starts nothing.            *)
(*                                                                         *)
(* The parent session is its runs only: one is started by the user, by a   *)
(* delivery, or by something else that continues the session.              *)
(*                                                                         *)
(* Grants are queued in the order of their numbers, so that a queue of     *)
(* them is a set; results are told apart by their grant only, so that a    *)
(* queue of results says how many there are of each.                       *)
(***************************************************************************)
EXTENDS Integers, FiniteSets

CONSTANTS
    ReadConcurrency, \* readers that run at a time
    MaxGrants,       \* bound: grants, numbered as they are admitted
    MaxJobs,         \* bound: jobs in a batch
    MaxStrikes,      \* deliveries that may fail before the user is waited for
    MaxCrashes       \* bound: restarts of the process; nothing is admitted after one

ASSUME ReadConcurrencyAssumption == ReadConcurrency \in Nat \ {0}
ASSUME StrikesAssumption == MaxStrikes \in Nat \ {0}
ASSUME GrantsAssumption == MaxGrants \in Nat /\ MaxJobs \in Nat \ {0} /\ MaxCrashes \in Nat

Grants == 1..MaxGrants
Roles == {"read", "work"}

VARIABLES
    admitting,       \* the jobs of a call that are still to be admitted
    admitted,        \* how many grants were admitted
    role, batch,     \* of each grant
    active,          \* the map `active`
    childRun,        \* where the run of each grant is
    cancelled,       \* the grants with a reason for their cancellation
    landing,         \* cancelled before they had a process; not yet saved
    readQueue, workQueue,
    deliveryQueue,   \* how many results of each grant are queued
    inFlight,        \* and are in the message that starts a run
    projected,       \* the grants whose results were put into a context
    strikes,
    wake,            \* the owner is attached and results may start runs
    timer,
    parent,          \* what the session does
    confirmed,       \* and are in a confirmed message, not yet written
    marking,         \* the grants that will be saved as delivered
    saved,           \* the store: where each result is
    given,           \* how often the transcript has the result of a grant
    made,            \* history: how often a grant left a result
    lost,            \* history: results a crash has lost
    crashes

grantVars == <<admitting, admitted, role, batch>>
childVars == <<active, childRun, cancelled, landing, readQueue, workQueue>>
deliveryVars == <<deliveryQueue, inFlight, projected, confirmed>>
resultVars == <<deliveryVars, marking, saved, given, made, lost, crashes>>
flagVars == <<strikes, wake>>
subagentsVars == <<grantVars, childVars, resultVars, flagVars, timer,
                   parent>>

(* childRun: "starting" is before there is a process, "live" from then on. *)
Occupied == {"starting", "live"}
Reading == {g \in Grants : role[g] = "read" /\ childRun[g] \in Occupied}
Working == {g \in Grants : role[g] = "work" /\ childRun[g] \in Occupied}
NoProcess == {"queued", "starting"}
Idle == [role |-> "read", left |-> 0]

(* Results, by grant.                                                      *)
Nothing == [g \in Grants |-> 0]
Plus(results, more) == [g \in Grants |-> results[g] + more[g]]
OfGrants(results, gs) == [g \in Grants |-> IF g \in gs THEN results[g] ELSE 0]
Held(results) == {g \in Grants : results[g] > 0}

SubagentsTypeOK ==
    /\ admitting \in [role : Roles, left : 0..MaxJobs] /\ admitted \in 0..MaxGrants
    /\ role \in [Grants -> Roles] /\ batch \in [Grants -> 0..MaxGrants]
    /\ active \subseteq Grants /\ cancelled \subseteq Grants /\ landing \subseteq cancelled
    /\ childRun \in [Grants -> Occupied \cup {"none", "queued", "over"}]
    /\ readQueue \cup workQueue \subseteq {g \in Grants : childRun[g] = "queued"}
    /\ {deliveryQueue, inFlight, confirmed} \subseteq [Grants -> 0..2]
    /\ projected \cup marking \cup lost \subseteq Grants
    /\ strikes \in 0..MaxStrikes /\ wake \in BOOLEAN
    /\ timer \in BOOLEAN /\ parent \in {"idle", "bringing", "running"}
    /\ saved \in [Grants -> {"none", "active", "pending", "delivered"}]
    /\ given \in [Grants -> 0..2] /\ made \in [Grants -> 0..2] /\ crashes \in 0..MaxCrashes

SubagentsInit ==
    /\ admitting = Idle /\ admitted = 0
    /\ role = [g \in Grants |-> "read"] /\ batch = [g \in Grants |-> 0]
    /\ active = {} /\ childRun = [g \in Grants |-> "none"] /\ cancelled = {} /\ landing = {}
    /\ readQueue = {} /\ workQueue = {}
    /\ deliveryQueue = Nothing /\ inFlight = Nothing /\ projected = {}
    /\ strikes = 0 /\ wake = TRUE /\ timer = FALSE
    /\ parent = "idle" /\ confirmed = Nothing /\ marking = {}
    /\ saved = [g \in Grants |-> "none"] /\ given = Nothing /\ made = Nothing
    /\ lost = {} /\ crashes = 0

-----------------------------------------------------------------------------
(* schedule(), on the queues and the runs it finds.  Grants cancelled in   *)
(* the queue are dropped when their turn comes.                            *)
Waiting(queue) == queue \ cancelled
First(queue) == {g \in queue : \A h \in queue : g <= h}

Started(runs, starting) ==
    [g \in Grants |-> IF g \in starting THEN "starting"
                      ELSE IF runs[g] = "queued" /\ g \in cancelled THEN "over" ELSE runs[g]]

(* The readers that may start, and what may when no writer has to wait.    *)
Readers(runs, readers) ==
    LET busy == {g \in Grants : role[g] = "read" /\ runs[g] \in Occupied}
    IN  {g \in readers :
            Cardinality({h \in readers : h < g}) < ReadConcurrency - Cardinality(busy)}

Starting(runs, readQ, workQ) ==
    IF Waiting(workQ) = {} THEN Readers(runs, Waiting(readQ)) ELSE First(Waiting(workQ))

Starts(runs, starting, readQ, workQ) ==
    /\ childRun' = Started(runs, starting)
    /\ workQueue' = Waiting(workQ) \ starting /\ readQueue' = Waiting(readQ) \ starting

(* Mutant: a writer does not wait for the readers.                         *)
ScheduleAnyWriter(runs, readQ, workQ) ==
    IF \E g \in Grants : role[g] = "work" /\ runs[g] \in Occupied
    THEN childRun' = runs /\ readQueue' = readQ /\ workQueue' = workQ
    ELSE Starts(runs, Starting(runs, readQ, workQ), readQ, workQ)

(* A writer starts only when nothing runs, and while one runs or waits     *)
(* behind readers nothing else starts.                                     *)
Schedule(runs, readQ, workQ) ==
    IF \E g \in Grants :
           runs[g] \in Occupied /\ (role[g] = "work" \/ (role[g] = "read" /\ workQ # {}))
    THEN childRun' = runs /\ readQueue' = readQ /\ workQueue' = workQ
    ELSE Starts(runs, Starting(runs, readQ, workQ), readQ, workQ)

(* Mutant: the slot of an ended run is freed, and nobody takes it.         *)
EndsUnscheduled(g) ==
    childRun' = [childRun EXCEPT ![g] = "over"] /\ UNCHANGED <<readQueue, workQueue>>

(* The run of g returns: its slot is free.                                 *)
Ends(g) == Schedule([childRun EXCEPT ![g] = "over"], readQueue, workQueue)

-----------------------------------------------------------------------------
(* startJobs: one record is written after the other, then the queues move. *)
Call(r, n) ==
    /\ parent = "running" /\ admitting.left = 0
    /\ crashes = 0
    /\ admitted + n <= MaxGrants
    /\ admitting' = [role |-> r, left |-> n]
    /\ UNCHANGED <<admitted, role, batch, childVars, resultVars, flagVars, timer,
                   parent>>

AdmitJob ==
    LET g == admitted + 1
        queued == [childRun EXCEPT ![g] = "queued"]
        readQ == IF admitting.role = "read" THEN readQueue \cup {g} ELSE readQueue
        workQ == IF admitting.role = "work" THEN workQueue \cup {g} ELSE workQueue
    IN  /\ admitting.left > 0
        /\ admitted' = g /\ admitting' = [admitting EXCEPT !.left = @ - 1]
        /\ role' = [role EXCEPT ![g] = admitting.role]
        /\ batch' = [batch EXCEPT ![g] = g + admitting.left - 1]
        /\ active' = active \cup {g} /\ saved' = [saved EXCEPT ![g] = "active"]
        /\ IF admitting.left = 1
           THEN Schedule(queued, readQ, workQ)
           ELSE childRun' = queued /\ readQueue' = readQ /\ workQueue' = workQ
        /\ UNCHANGED <<cancelled, landing, deliveryVars, marking, given, made, lost, crashes,
                       flagVars, timer, parent>>

(* The preparation succeeds; a run cancelled meanwhile returns, another    *)
(* gets its process.                                                       *)
Prepared(g) ==
    /\ childRun[g] = "starting"
    /\ IF g \in cancelled
       THEN Ends(g)
       ELSE childRun' = [childRun EXCEPT ![g] = "live"] /\ UNCHANGED <<readQueue, workQueue>>
    /\ UNCHANGED <<grantVars, active, cancelled, landing, resultVars, flagVars, timer,
                   parent>>

(* Mutant: nobody is told of the result.                                   *)
LeavesQuietly(g) ==
    /\ saved' = [saved EXCEPT ![g] = "pending"]
    /\ made' = [made EXCEPT ![g] = @ + 1]
    /\ deliveryQueue' = [deliveryQueue EXCEPT ![g] = @ + 1]
    /\ active' = active \ {g}
    /\ UNCHANGED <<timer, inFlight, projected, confirmed, marking, given, lost, crashes>>

(* A result is recorded and queued.  scheduleDelivery arms the timer only  *)
(* while the parent may be woken.                                          *)
Leaves(g) ==
    /\ saved' = [saved EXCEPT ![g] = "pending"]
    /\ made' = [made EXCEPT ![g] = @ + 1]
    /\ deliveryQueue' = [deliveryQueue EXCEPT ![g] = @ + 1]
    /\ active' = active \ {g}
    /\ timer' = (timer \/ (wake /\ parent = "idle"))
    /\ UNCHANGED <<inFlight, projected, confirmed, marking, given, lost, crashes>>

(* The child settles, exits, times out or is stopped: the end of run().    *)
(* Or its preparation has failed, for instance because the cancellation    *)
(* aborted the briefing: finishBeforeStart, whatever the cancellation did. *)
Finish(g) ==
    /\ childRun[g] \in Occupied
    /\ Leaves(g) /\ Ends(g)
    /\ UNCHANGED <<grantVars, cancelled, landing, flagVars, parent>>

(* cancelRunning marks every grant of gs; one that has a process yet is    *)
(* aborted and will end, one that has none is done with here.              *)
Cancels(gs) ==
    /\ cancelled' = cancelled \cup gs
    /\ landing' = landing \cup {g \in gs \ cancelled : childRun[g] \in NoProcess}

Cancel(g) ==
    /\ g \in active \ cancelled
    /\ Cancels({g})
    /\ UNCHANGED <<grantVars, active, childRun, readQueue, workQueue, resultVars, flagVars, timer,
                   parent>>

(* ... and is saved, without its run.                                      *)
CancelLands(g) ==
    /\ g \in landing
    /\ landing' = landing \ {g}
    /\ Leaves(g)
    /\ UNCHANGED <<grantVars, childRun, cancelled, readQueue, workQueue, flagVars, parent>>

-----------------------------------------------------------------------------
(* The delivery.  The results of a batch wait for the last of them.        *)
Answered == {g \in Grants : ~\E h \in active : batch[h] = batch[g]}
Ready(queue) == OfGrants(queue, Answered)
Unready(queue) == OfGrants(queue, Grants \ Answered)

(* What the transcript has of each grant after it takes these results.     *)
GivenWith(results) == Plus(given, results)

(* flushDelivery of a queue.  What is ready starts a run, or, when its     *)
(* goal has stopped, is only written down.                                 *)
Flush(queue, flying, goalOn) ==
    IF Ready(queue) = Nothing
    THEN /\ deliveryQueue' = queue /\ inFlight' = flying
         /\ UNCHANGED <<parent, given, marking>>
    ELSE /\ deliveryQueue' = Unready(queue)
         /\ IF goalOn
            THEN /\ inFlight' = Plus(flying, Ready(queue)) /\ parent' = "bringing"
                 /\ UNCHANGED <<given, marking>>
            ELSE /\ inFlight' = flying /\ given' = GivenWith(Ready(queue))
                 /\ marking' = marking \cup Held(Ready(queue))
                 /\ UNCHANGED parent

TimerFires(goalOn) ==
    /\ timer
    /\ timer' = FALSE
    /\ IF wake /\ parent = "idle"
       THEN Flush(deliveryQueue, inFlight, goalOn)
       ELSE UNCHANGED <<deliveryQueue, inFlight, parent, given, marking>>
    /\ UNCHANGED <<grantVars, childVars, projected, confirmed, saved, made, lost, crashes, flagVars>>

(* The message that starts the run ends: confirmDelivery, before the       *)
(* session writes the message down.                                        *)
Confirm ==
    /\ parent = "bringing"
    /\ parent' = "running"
    /\ confirmed' = inFlight /\ inFlight' = Nothing
    /\ projected' = projected \ Held(inFlight)
    /\ marking' = marking \cup Held(inFlight)
    /\ strikes' = 0
    /\ UNCHANGED <<grantVars, childVars, deliveryQueue, wake, timer, saved, given, made,
                   lost, crashes>>

Write ==
    /\ confirmed # Nothing
    /\ confirmed' = Nothing /\ given' = GivenWith(confirmed)
    /\ UNCHANGED <<grantVars, childVars, deliveryQueue, inFlight, projected, marking, saved, made,
                   lost, crashes, flagVars, timer, parent>>

(* markResultsDelivered, from a timer of its own.                          *)
Mark ==
    /\ marking # {}
    /\ marking' = {}
    /\ saved' = [g \in Grants |->
                   IF g \in marking /\ saved[g] = "pending" THEN "delivered" ELSE saved[g]]
    /\ UNCHANGED <<grantVars, childVars, deliveryVars, given, made, lost, crashes, flagVars, timer,
                   parent>>

(* pendingResultMessage: what is ready goes into the context of a request. *)
Project ==
    /\ parent = "running" /\ inFlight = Nothing
    /\ projected' = projected \cup Held(Ready(deliveryQueue))
    /\ UNCHANGED <<grantVars, childVars, deliveryQueue, inFlight, confirmed, marking, saved, given,
                   made, lost, crashes, flagVars, timer, parent>>

(* confirmContextProjection: the model has answered to that context, and   *)
(* the results are written down and leave the queue.                       *)
ReplyEnds ==
    LET consumed == OfGrants(deliveryQueue, projected)
    IN  /\ parent = "running" /\ projected # {}
        /\ projected' = {}
        /\ deliveryQueue' = OfGrants(deliveryQueue, Grants \ projected)
        /\ given' = GivenWith(consumed)
        /\ marking' = marking \cup Held(consumed)
        /\ strikes' = IF consumed = Nothing THEN strikes ELSE 0
        /\ UNCHANGED <<grantVars, childVars, inFlight, confirmed, saved, made, lost, crashes,
                       wake, timer, parent>>

-----------------------------------------------------------------------------
(* The parent session.                                                     *)

(* A run starts; markAttached when it is the user's.                       *)
ParentStarts(user) ==
    /\ parent = "idle"
    /\ parent' = "running"
    /\ IF user
       THEN /\ wake' = TRUE /\ strikes' = 0
            /\ timer' = (timer \/ deliveryQueue # Nothing)
       ELSE UNCHANGED <<flagVars, timer>>
    /\ UNCHANGED <<grantVars, childVars, resultVars>>

(* notifyParentSettled: a message that did not get through is taken back,  *)
(* which counts as a strike, and what is ready is tried again.  Something  *)
(* else may continue the session.                                          *)
ParentSettles(goalOn, continued) ==
    LET queue == Plus(inFlight, deliveryQueue)
        hits == IF inFlight # Nothing /\ strikes < MaxStrikes THEN strikes + 1 ELSE strikes
        flushes == wake /\ hits < MaxStrikes
    IN  /\ parent # "idle" /\ confirmed = Nothing /\ admitting.left = 0
        /\ strikes' = hits
        /\ IF flushes /\ goalOn /\ Ready(queue) # Nothing
           THEN Flush(queue, Nothing, TRUE)
           ELSE /\ parent' = IF continued THEN "running" ELSE "idle"
                /\ inFlight' = Nothing
                /\ IF flushes /\ Ready(queue) # Nothing
                   THEN /\ deliveryQueue' = Unready(queue)
                        /\ given' = GivenWith(Ready(queue))
                        /\ marking' = marking \cup Held(Ready(queue))
                   ELSE deliveryQueue' = queue /\ UNCHANGED <<given, marking>>
        /\ UNCHANGED <<grantVars, childVars, projected, confirmed, saved, made, lost, crashes,
                       wake, timer>>

(* interrupt(), on an abort of the session and on an aborted settlement,   *)
(* and detach(), when the surface that owns the session has gone.          *)
CancelsAll == wake' = FALSE /\ Cancels(active)

Interrupt ==
    /\ CancelsAll
    /\ UNCHANGED <<grantVars, active, childRun, readQueue, workQueue, resultVars, strikes, timer,
                   parent>>

ParentAborted ==
    /\ parent # "idle" /\ confirmed = Nothing /\ admitting.left = 0
    /\ parent' = "idle"
    /\ CancelsAll
    /\ UNCHANGED <<grantVars, active, childRun, readQueue, workQueue, resultVars, strikes, timer>>

(* What a restart queues again: what is unsettled in the store.            *)
Unsettled == {g \in Grants : saved[g] \in {"active", "pending"}}

(* ... unless the transcript has it (deliveredSubagentGrantIds).           *)
Recovered == {g \in Unsettled : given[g] = 0}

(* The process dies and is started again: initialize().  A grant that was  *)
(* not over is recorded as cancelled, and results the transcript has are   *)
(* recorded as delivered.                                                  *)
Crash ==
    /\ crashes < MaxCrashes
    /\ crashes' = crashes + 1
    /\ saved' = [g \in Grants |-> IF g \in Recovered THEN "pending"
                                  ELSE IF g \in Unsettled THEN "delivered" ELSE saved[g]]
    /\ deliveryQueue' = [g \in Grants |-> IF g \in Recovered THEN 1 ELSE 0]
    /\ lost' = lost \cup {g \in Grants : saved[g] = "delivered" /\ given[g] = 0}
    /\ admitting' = Idle /\ active' = {} /\ cancelled' = {} /\ landing' = {}
    /\ childRun' = [g \in Grants |-> IF childRun[g] = "none" THEN "none" ELSE "over"]
    /\ readQueue' = {} /\ workQueue' = {} /\ inFlight' = Nothing /\ projected' = {}
    /\ strikes' = 0 /\ wake' = TRUE /\ timer' = (Recovered # {})
    /\ parent' = "idle" /\ confirmed' = Nothing /\ marking' = {}
    /\ UNCHANGED <<admitted, role, batch, given, made>>

-----------------------------------------------------------------------------
Child(g) == Prepared(g) \/ Finish(g)
AnySettlement == \E goalOn, continued \in BOOLEAN : ParentSettles(goalOn, continued)
Fires == \E goalOn \in BOOLEAN : TimerFires(goalOn)

SubagentsNext ==
    \/ \E r \in Roles, n \in 1..MaxJobs : Call(r, n)
    \/ AdmitJob
    \/ \E g \in Grants : Child(g) \/ Cancel(g) \/ CancelLands(g)
    \/ Fires \/ Confirm \/ Write \/ Mark \/ Project \/ ReplyEnds
    \/ \E user \in BOOLEAN : ParentStarts(user)
    \/ AnySettlement \/ Interrupt \/ ParentAborted \/ Crash

SubagentsSpec == SubagentsInit /\ [][SubagentsNext]_subagentsVars

(* Files are written, children settle, are stopped or time out, timers     *)
(* fire and runs of the parent come to an end.                             *)
SubagentsFairSpec ==
    /\ SubagentsSpec
    /\ WF_subagentsVars(AdmitJob) /\ WF_subagentsVars(Fires) /\ WF_subagentsVars(Write)
    /\ WF_subagentsVars(Mark) /\ WF_subagentsVars(AnySettlement)
    /\ \A g \in Grants : WF_subagentsVars(Child(g)) /\ WF_subagentsVars(CancelLands(g))

-----------------------------------------------------------------------------
(* Properties.                                                             *)

(* A writer has the workspace for itself: no other child runs beside it,   *)
(* whatever is cancelled, fails or ends around it (schedule()).            *)
WorkAlone ==
    \A g \in Working : \A h \in Grants : h # g => childRun[h] \notin Occupied

(* The result of a grant is given to the model once, by whichever of the   *)
(* three ways, across retries and a restart; only a grant cancelled while  *)
(* its preparation failed leaves two results.                              *)
GivenOnce == \A g \in Grants : given[g] > 1 => made[g] > 1

(* Children do not disturb each other, and the parent hears of each once.  *)
GrantsApart == SubagentsTypeOK /\ WorkAlone /\ GivenOnce

(* Every grant comes to an end, none waits for ever behind the others.     *)
GrantsEnd == \A g \in Grants : g \in active ~> g \notin active

(* A result in the queue reaches the model, unless the user has            *)
(* interrupted or left, or three deliveries have failed; or a crash hits   *)
(* between the record that it was delivered and its delivery.              *)
Muted == ~wake \/ strikes = MaxStrikes
ResultsReach ==
    \A g \in Grants :
        g \in Held(deliveryQueue) \cup Held(inFlight) ~> given[g] > 0 \/ Muted \/ g \in lost

=============================================================================
