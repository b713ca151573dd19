------------------------------ MODULE AgentHooks ------------------------------
(***************************************************************************)
(* product/hooks.ts: the wakeup and the file watches an agent sets for     *)
(* itself, and how what they fire reaches the session.  A firing starts a  *)
(* run when the session is idle; during a run it is held, and what was     *)
(* held goes out in one message when the run has settled.                  *)
(*                                                                         *)
(* The session is what hooks see of it (AgentSession has the whole): its   *)
(* calls of _runAgentPrompt, one flag for a run that is active and one for *)
(* a settlement that is emitted, each cleared by whichever call comes      *)
(* first.  A listener that throws ends a run in AgentLoop, and not here.   *)
(***************************************************************************)
EXTENDS Integers, FiniteSets, SequencesExt

CONSTANTS
    MaxWatches,   \* watch_files
    MaxHooks,     \* bound: wakeups and watches, numbered by nextId
    MaxRuns,      \* bound: runs that are not started by a hook
    MaxDrivers    \* bound: calls of _runAgentPrompt at a time

ASSUME HooksAssumption ==
    MaxWatches \in Nat /\ MaxHooks \in Nat /\ MaxRuns \in Nat /\ MaxDrivers \in Nat

VARIABLES
    nextId, wakeup,   \* 0: none
    watching, armed,  \* watches; the ones whose debounce runs
    pendingFirings,
    disposed,
    active,           \* the session's _isAgentRunActive
    emitting,         \* the session's _isEmittingAgentSettled
    stage,            \* each call of _runAgentPrompt: the run, then its settlement
    outcome,          \* of the settlement
    continuations,    \* _pendingSessionContinuations: what hooks have in it
    followUps,        \* the agent's follow-up queue, hooks only
    context,          \* the firings in the transcript
    runs,
    fired,            \* history: every firing
    dropped,          \* history: those in a refused message or a cleared queue
    late              \* history: others have left this settlement a continuation

hookVars == <<nextId, wakeup, watching, armed>>
sessionVars ==
    <<active, emitting, stage, outcome, continuations, followUps, context, dropped, late>>
vars == <<hookVars, pendingFirings, disposed, sessionVars, runs, fired>>

Hooks == 1..MaxHooks
Drivers == 1..MaxDrivers
Settling(d) == stage[d] \in {"before", "after"}

TypeOK ==
    /\ nextId \in 1..(MaxHooks + 1) /\ wakeup \in 0..MaxHooks
    /\ armed \subseteq watching /\ watching \subseteq Hooks
    /\ Cardinality(watching) <= MaxWatches
    /\ {disposed, active, emitting} \subseteq BOOLEAN /\ runs \in 0..MaxRuns
    /\ stage \in [Drivers -> {"none", "running", "before", "after"}]
    /\ outcome \in [Drivers -> {"success", "stopped"}] /\ late \in [Drivers -> BOOLEAN]
    /\ fired \cup dropped \subseteq Hooks

Init ==
    /\ nextId = 1 /\ wakeup = 0 /\ watching = {} /\ armed = {}
    /\ pendingFirings = <<>> /\ disposed = FALSE
    /\ active = FALSE /\ emitting = FALSE /\ stage = [d \in Drivers |-> "none"]
    /\ outcome = [d \in Drivers |-> "success"] /\ late = [d \in Drivers |-> FALSE]
    /\ continuations = <<>> /\ followUps = <<>> /\ context = <<>> /\ runs = 0
    /\ fired = {} /\ dropped = {}

-----------------------------------------------------------------------------
(* _emitAgentSettled begins: the flags say idle and emitting, whatever     *)
(* other calls do.                                                         *)
Settles(d, kind, stages) ==
    /\ active' = FALSE /\ emitting' = TRUE
    /\ stage' = [stages EXCEPT ![d] = "before"]
    /\ outcome' = [outcome EXCEPT ![d] = kind]
    /\ late' = [late EXCEPT ![d] = continuations' # <<>>]

(* _runAgentPrompt: the agent takes the message, or has a run and refuses; *)
(* then the call settles at once, with an error, and the message is gone.  *)
(* Between the runs of another call the agent takes it too.                *)
Dispatch(batch, stages, settling) ==
    \E d \in Drivers :
        /\ stages[d] = "none" /\ \A e \in Drivers : stages[e] = "none" => d <= e
        /\ \/ /\ active' = TRUE /\ emitting' = settling
              /\ stage' = [stages EXCEPT ![d] = "running"]
              /\ context' = context \o batch
              /\ UNCHANGED <<outcome, dropped, late>>
           \/ /\ \E e \in Drivers : stages[e] = "running"
              /\ Settles(d, "stopped", stages)
              /\ dropped' = dropped \cup Range(batch)
              /\ UNCHANGED context

(* sendMessage with deliverAs "followUp": collected while a settlement is  *)
(* emitted, queued during a run, else a run of its own or only context.    *)
Send(batch, triggerTurn, stages, own) ==
    \/ /\ emitting /\ triggerTurn
       /\ continuations' = continuations \o batch
       /\ late' = [d \in Drivers |-> late[d] \/ (Settling(d) /\ d # own)]
       /\ stage' = stages
       /\ UNCHANGED <<active, emitting, outcome, followUps, context, dropped>>
    \/ /\ ~(emitting /\ triggerTurn) /\ active
       /\ followUps' = followUps \o batch /\ stage' = stages
       /\ UNCHANGED <<active, emitting, outcome, continuations, context, dropped, late>>
    \/ /\ ~emitting /\ triggerTurn /\ ~active
       /\ UNCHANGED <<continuations, followUps>>
       /\ Dispatch(batch, stages, FALSE)
    \/ /\ ~triggerTurn /\ ~active
       /\ context' = context \o batch /\ stage' = stages
       /\ UNCHANGED <<active, emitting, outcome, continuations, followUps, dropped, late>>

(* Mutant: what is sent stays in the list.                                 *)
FlushKeeps(batch, triggerTurn, stages, own) ==
    /\ pendingFirings' = batch
    /\ IF batch = <<>>
       THEN /\ stage' = stages
            /\ UNCHANGED <<active, emitting, outcome, continuations, followUps, context,
                           dropped, late>>
       ELSE Send(batch, triggerTurn, stages, own)

(* flushPendingFirings takes everything there is.                          *)
Flush(batch, triggerTurn, stages, own) ==
    /\ pendingFirings' = <<>>
    /\ IF batch = <<>>
       THEN /\ stage' = stages
            /\ UNCHANGED <<active, emitting, outcome, continuations, followUps, context,
                           dropped, late>>
       ELSE Send(batch, triggerTurn, stages, own)

(* deliverFiring: only a session that is idle is told at once.             *)
DeliverFiring(hook) ==
    /\ fired' = fired \cup {hook}
    /\ IF active
       THEN pendingFirings' = Append(pendingFirings, hook) /\ UNCHANGED sessionVars
       ELSE Flush(Append(pendingFirings, hook), TRUE, stage, 0)
    /\ UNCHANGED <<disposed, runs>>

-----------------------------------------------------------------------------
(* The tools, called in a run.                                             *)

Calls ==
    /\ (\E d \in Drivers : stage[d] = "running") /\ ~disposed
    /\ UNCHANGED <<pendingFirings, disposed, sessionVars, runs, fired>>

(* schedule_wakeup replaces the wakeup that is pending.                    *)
ScheduleWakeup ==
    /\ Calls /\ nextId <= MaxHooks
    /\ wakeup' = nextId /\ nextId' = nextId + 1
    /\ UNCHANGED <<watching, armed>>

CancelWakeup == Calls /\ wakeup # 0 /\ wakeup' = 0 /\ UNCHANGED <<nextId, watching, armed>>

WatchFile ==
    /\ Calls /\ nextId <= MaxHooks /\ Cardinality(watching) < MaxWatches
    /\ watching' = watching \cup {nextId} /\ nextId' = nextId + 1
    /\ UNCHANGED <<wakeup, armed>>

Forget(w) ==
    /\ watching' = watching \ {w} /\ armed' = armed \ {w}
    /\ UNCHANGED <<nextId, wakeup>>

CancelWatch(w) == Calls /\ w \in watching /\ Forget(w)

-----------------------------------------------------------------------------
(* Timers and watchers.                                                    *)

WakeupFires ==
    /\ wakeup # 0 /\ wakeup' = 0
    /\ UNCHANGED <<nextId, watching, armed>> /\ DeliverFiring(wakeup)

(* The first change of a file starts the debounce.                         *)
FileChanges(w) ==
    /\ w \in watching \ armed
    /\ armed' = armed \cup {w}
    /\ UNCHANGED <<nextId, wakeup, watching, pendingFirings, disposed, sessionVars, runs, fired>>

WatchFires(w) == w \in armed /\ Forget(w) /\ DeliverFiring(w)

WatchFails(w) ==
    /\ w \in watching /\ Forget(w)
    /\ UNCHANGED <<pendingFirings, disposed, sessionVars, runs, fired>>

(* session_shutdown disposes of everything.                                *)
Shutdown ==
    /\ ~disposed /\ disposed' = TRUE
    /\ wakeup' = 0 /\ watching' = {} /\ armed' = {} /\ pendingFirings' = <<>>
    /\ UNCHANGED <<nextId, sessionVars, runs, fired>>

-----------------------------------------------------------------------------
(* The session.                                                            *)

(* A prompt looks at the flag and awaits before it starts its run: another *)
(* may have started, or a settlement may still be emitted.                 *)
RunStarts ==
    /\ ~disposed /\ runs < MaxRuns /\ runs' = runs + 1
    /\ UNCHANGED <<hookVars, pendingFirings, disposed, continuations, followUps, fired>>
    /\ Dispatch(<<>>, stage, emitting)

TakeFollowUps ==
    /\ \E d \in Drivers : stage[d] = "running"
    /\ followUps # <<>> /\ followUps' = <<>> /\ context' = context \o followUps
    /\ UNCHANGED <<hookVars, pendingFirings, disposed, active, emitting, stage, outcome,
                   continuations, runs, fired, dropped, late>>

(* clearQueue, by the user: what hooks have queued goes with the rest.     *)
ClearQueue ==
    /\ followUps # <<>> /\ followUps' = <<>> /\ dropped' = dropped \cup Range(followUps)
    /\ UNCHANGED <<hookVars, pendingFirings, disposed, active, emitting, stage, outcome,
                   continuations, context, runs, fired, late>>

RunEnds(d, kind) ==
    /\ stage[d] = "running"
    /\ UNCHANGED <<hookVars, pendingFirings, disposed, continuations, followUps, context,
                   dropped, runs, fired>>
    /\ Settles(d, kind, stage)

(* Mutant: after a run that was stopped nothing is sent.                   *)
AgentSettledUnlessStopped(d) ==
    /\ stage[d] = "before"
    /\ LET stages == [stage EXCEPT ![d] = "after"] IN
       IF disposed \/ outcome[d] = "stopped"
       THEN /\ stage' = stages
            /\ UNCHANGED <<pendingFirings, active, emitting, outcome, continuations, followUps,
                           context, dropped, late>>
       ELSE Flush(pendingFirings, TRUE, stages, d)
    /\ UNCHANGED <<hookVars, disposed, runs, fired>>

(* Mutant: the outcome is not looked at.                                   *)
AgentSettledAlways(d) ==
    /\ stage[d] = "before"
    /\ Flush(IF disposed THEN <<>> ELSE pendingFirings, TRUE, [stage EXCEPT ![d] = "after"], d)
    /\ UNCHANGED <<hookVars, disposed, runs, fired>>

(* The hooks' handler of agent_settled, one of several that are awaited.   *)
AgentSettled(d) ==
    /\ stage[d] = "before"
    /\ Flush(pendingFirings, outcome[d] = "success", [stage EXCEPT ![d] = "after"], d)
    /\ UNCHANGED <<hookVars, disposed, runs, fired>>

(* _emitAgentSettled ends: all continuations start one run, or are refused *)
(* with one more settlement.                                               *)
SettlementEmitted(d) ==
    /\ stage[d] = "after" /\ continuations' = <<>>
    /\ LET stages == [stage EXCEPT ![d] = "none"] IN
       IF continuations = <<>>
       THEN /\ emitting' = FALSE /\ stage' = stages
            /\ UNCHANGED <<active, outcome, context, dropped, late>>
       ELSE Dispatch(continuations, stages, FALSE)
    /\ UNCHANGED <<hookVars, pendingFirings, disposed, followUps, runs, fired>>

-----------------------------------------------------------------------------
Next ==
    \/ ScheduleWakeup \/ CancelWakeup \/ WatchFile \/ WakeupFires \/ Shutdown
    \/ \E w \in Hooks : CancelWatch(w) \/ FileChanges(w) \/ WatchFires(w) \/ WatchFails(w)
    \/ RunStarts \/ TakeFollowUps \/ ClearQueue
    \/ \E d \in Drivers :
          (\E kind \in {"success", "stopped"} : RunEnds(d, kind)) \/ AgentSettled(d)
              \/ SettlementEmitted(d)

Spec == Init /\ [][Next]_vars
(* Runs end (AgentSession shows that they settle), and settlements are     *)
(* emitted to the end.                                                     *)
FairSpec ==
    /\ Spec
    /\ \A d \in Drivers :
          /\ WF_vars(AgentSettled(d)) /\ WF_vars(SettlementEmitted(d))
          /\ WF_vars(\E kind \in {"success", "stopped"} : RunEnds(d, kind))

-----------------------------------------------------------------------------
(* A firing is at one place and nowhere twice: held, waiting for a run, in *)
(* the transcript, or gone with a message the agent refused or a queue the *)
(* user cleared; only a shutdown forgets what is held.                     *)
Places == pendingFirings \o continuations \o followUps \o context
FiredOnce ==
    /\ TypeOK
    /\ IsInjective(Places) /\ Range(Places) \cap dropped = {}
    /\ Range(Places) \cup dropped \subseteq fired
    /\ ~disposed => fired \subseteq Range(Places) \cup dropped

(* What is held goes out, whatever the outcome of the run it waits for.    *)
HeldIsSent == pendingFirings # <<>> ~> pendingFirings = <<>>

(* "A hook must never resurrect a stopped run" (hooks.ts): the settlement  *)
(* of a stopped run, or of a refused message, starts no run for hooks,     *)
(* unless others have left it a continuation: a hook that fired meanwhile, *)
(* taking along what was held, or the settlement of another run.           *)
StoppedStaysStopped ==
    [][\A d \in Drivers :
          (SettlementEmitted(d) /\ outcome[d] = "stopped" /\ ~late[d]) => continuations = <<>>]_vars
=============================================================================
