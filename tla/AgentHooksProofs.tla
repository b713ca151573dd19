--------------------------- MODULE AgentHooksProofs ---------------------------
(***************************************************************************)
(* Proofs about AgentHooks, for any number of hooks, watches and runs: a   *)
(* firing is in one place and nowhere twice, and the settlement of a       *)
(* stopped run starts no run for what was held.                            *)
(***************************************************************************)
EXTENDS AgentHooks, SequenceTheorems, FiniteSetTheorems, TLAPS

HookType ==
    /\ nextId \in 1..(MaxHooks + 1) /\ wakeup \in 0..MaxHooks
    /\ armed \subseteq watching /\ watching \subseteq Hooks
    /\ runs \in 0..MaxRuns
Stages == [Drivers -> {"none", "running", "before", "after"}]
StateType ==
    /\ disposed \in BOOLEAN /\ active \in BOOLEAN /\ emitting \in BOOLEAN
    /\ stage \in Stages
    /\ outcome \in [Drivers -> {"success", "stopped"}] /\ late \in [Drivers -> BOOLEAN]
WatchInv == IsFiniteSet(watching) /\ Cardinality(watching) <= MaxWatches

(* What can still fire has not fired, and has been numbered.               *)
FreshInv ==
    /\ \A h \in fired \cup watching \cup {wakeup} : h < nextId
    /\ watching \cap fired = {} /\ wakeup \notin fired \cup watching
    /\ fired \subseteq Hooks

(* A list in which no firing is twice.                                     *)
Once(s) == s \in Seq(Hooks) /\ IsInjective(s)
OnceInv == Once(pendingFirings) /\ Once(continuations) /\ Once(followUps) /\ Once(context)

(* No firing is in two of the places.                                      *)
ApartInv ==
    /\ Range(pendingFirings) \cap
         (Range(continuations) \cup Range(followUps) \cup Range(context) \cup dropped) = {}
    /\ Range(continuations) \cap (Range(followUps) \cup Range(context) \cup dropped) = {}
    /\ Range(followUps) \cap (Range(context) \cup dropped) = {}
    /\ Range(context) \cap dropped = {}

Told == Range(continuations) \cup Range(followUps) \cup Range(context) \cup dropped
FiredInv ==
    /\ Range(pendingFirings) \cup Told \subseteq fired
    /\ ~disposed => fired \subseteq Range(pendingFirings) \cup Told

HooksInv ==
    HookType /\ StateType /\ WatchInv /\ FreshInv /\ OnceInv /\ ApartInv /\ FiredInv

(* A settlement that finds a continuation is of a successful run, and its  *)
(* handler has left it, or others have.                                    *)
StoppedInv ==
    continuations # <<>> =>
        \A d \in Drivers :
            Settling(d) => late[d] \/ (stage[d] = "after" /\ outcome[d] = "success")

-----------------------------------------------------------------------------
(* Lists without repetition.                                               *)

LEMMA OnceEmpty == Once(<<>>) /\ Range(<<>>) = {}
BY DEF Once, IsInjective, Range

LEMMA OnceConcat ==
    ASSUME NEW s, NEW t, Once(s), Once(t), Range(s) \cap Range(t) = {}
    PROVE  Once(s \o t) /\ Range(s \o t) = Range(s) \cup Range(t)
<1>. DEFINE u == s \o t
<1>1. /\ u \in Seq(Hooks) /\ DOMAIN s = 1..Len(s) /\ DOMAIN t = 1..Len(t)
      /\ Len(s) \in Nat /\ Len(t) \in Nat /\ DOMAIN u = 1..(Len(s) + Len(t))
      /\ \A i \in 1..(Len(s) + Len(t)) : u[i] = IF i <= Len(s) THEN s[i] ELSE t[i - Len(s)]
    BY ConcatProperties, LenProperties DEF Once
<1>. HIDE DEF u
<1>2. \A i \in DOMAIN u : \/ i \in DOMAIN s /\ u[i] = s[i]
                          \/ i - Len(s) \in DOMAIN t /\ u[i] = t[i - Len(s)] /\ i \notin DOMAIN s
    BY <1>1
<1>3. \A j \in DOMAIN t : j + Len(s) \in DOMAIN u /\ u[j + Len(s)] = t[j]
    BY <1>1
<1>4. \A i \in DOMAIN s : i \in DOMAIN u /\ u[i] = s[i]
    BY <1>1
<1>5. Range(u) = Range(s) \cup Range(t)
    BY <1>2, <1>3, <1>4 DEF Range
<1>6. IsInjective(u)
    <2> SUFFICES ASSUME NEW i \in DOMAIN u, NEW j \in DOMAIN u, u[i] = u[j] PROVE i = j
        BY DEF IsInjective
    <2>1. CASE i \in DOMAIN s /\ u[i] = s[i] /\ j \in DOMAIN s /\ u[j] = s[j]
        BY <2>1 DEF Once, IsInjective
    <2>2. CASE /\ i - Len(s) \in DOMAIN t /\ u[i] = t[i - Len(s)]
               /\ j - Len(s) \in DOMAIN t /\ u[j] = t[j - Len(s)]
        <3>1. i - Len(s) = j - Len(s)
            BY <2>2 DEF Once, IsInjective
        <3> QED BY <1>1, <3>1
    <2>3. \A k \in DOMAIN s, l \in DOMAIN t : s[k] # t[l]
        BY DEF Range
    <2> QED BY <1>2, <2>1, <2>2, <2>3
<1> QED BY <1>1, <1>5, <1>6 DEF u, Once

LEMMA OnceAppend ==
    ASSUME NEW s, Once(s), NEW h \in Hooks, h \notin Range(s)
    PROVE  Once(Append(s, h)) /\ Range(Append(s, h)) = Range(s) \cup {h}
<1>1. Once(<<h>>) /\ Range(<<h>>) = {h}
    BY DEF Once, IsInjective, Range
<1>2. Append(s, h) = s \o <<h>>
    BY AppendIsConcat DEF Once
<1> QED BY <1>1, <1>2, OnceConcat

-----------------------------------------------------------------------------
LEMMA HooksInit == Init => HooksInv /\ StoppedInv
<1> SUFFICES ASSUME Init PROVE HooksInv /\ StoppedInv
    OBVIOUS
<1>1. MaxWatches \in Nat /\ MaxHooks \in Nat /\ MaxRuns \in Nat
    BY HooksAssumption
<1>2. WatchInv
    BY <1>1, FS_EmptySet DEF Init, WatchInv
<1>3. OnceInv /\ ApartInv /\ FiredInv
    BY OnceEmpty DEF Init, OnceInv, ApartInv, FiredInv, Told
<1>4. HookType /\ FreshInv
    BY <1>1 DEF Init, HookType, FreshInv, Hooks
<1>5. StateType
    BY DEF Init, StateType, Stages
<1> QED BY <1>2, <1>3, <1>4, <1>5 DEF Init, HooksInv, StoppedInv

(* What a message does to the flags and to the calls.                      *)
LEMMA DispatchType ==
    ASSUME StateType, disposed' \in BOOLEAN, NEW batch, NEW stages \in Stages,
           NEW settling \in BOOLEAN, Dispatch(batch, stages, settling)
    PROVE  StateType'
<1>1. PICK d \in Drivers :
        \/ /\ active' = TRUE /\ emitting' = settling /\ stage' = [stages EXCEPT ![d] = "running"]
           /\ UNCHANGED <<outcome, late>>
        \/ Settles(d, "stopped", stages)
    BY DEF Dispatch
<1> QED BY <1>1 DEF Settles, StateType, Stages

LEMMA SendType ==
    ASSUME StateType, disposed' \in BOOLEAN, NEW batch, NEW triggerTurn \in BOOLEAN,
           NEW stages \in Stages, NEW own, Send(batch, triggerTurn, stages, own)
    PROVE  StateType'
<1>1. CASE /\ stage' = stages /\ UNCHANGED <<active, emitting, outcome>>
           /\ \/ late' = late
              \/ late' = [d \in Drivers |-> late[d] \/ (Settling(d) /\ d # own)]
    <2>1. late' \in [Drivers -> BOOLEAN]
        BY <1>1 DEF StateType, Settling
    <2> QED BY <1>1, <2>1 DEF StateType
<1>2. CASE Dispatch(batch, stages, FALSE)
    BY <1>2, DispatchType
<1> QED BY <1>1, <1>2 DEF Send

LEMMA FlushType ==
    ASSUME StateType, disposed' \in BOOLEAN, NEW batch, NEW triggerTurn \in BOOLEAN,
           NEW stages \in Stages, NEW own, Flush(batch, triggerTurn, stages, own)
    PROVE  StateType'
<1>1. CASE Send(batch, triggerTurn, stages, own)
    BY <1>1, SendType
<1>2. CASE stage' = stages /\ UNCHANGED <<active, emitting, outcome, late>>
    BY <1>2 DEF StateType
<1> QED BY <1>1, <1>2 DEF Flush

(* The types of what a step changes, action by action.                     *)
LEMMA TypeStep ==
    ASSUME HooksInv, Next
    PROVE  HookType' /\ StateType' /\ WatchInv'
<1>. USE DEF hookVars, sessionVars
<1>1. /\ MaxWatches \in Nat /\ MaxHooks \in Nat /\ MaxRuns \in Nat
      /\ HookType /\ StateType /\ WatchInv
    BY HooksAssumption DEF HooksInv
<1>2. ASSUME NEW hook, DeliverFiring(hook)
      PROVE  runs' = runs /\ StateType'
    <2>1. runs' = runs /\ disposed' = disposed
        BY <1>2 DEF DeliverFiring
    <2>2. CASE active
        BY <1>1, <1>2, <2>1, <2>2 DEF DeliverFiring, StateType
    <2>3. CASE ~active
        <3>1. Flush(Append(pendingFirings, hook), TRUE, stage, 0)
            BY <1>2, <2>3 DEF DeliverFiring
        <3>2. stage \in Stages /\ disposed' \in BOOLEAN
            BY <1>1, <2>1 DEF StateType
        <3> QED BY <1>1, <2>1, <3>1, <3>2, FlushType
    <2> QED BY <2>2, <2>3
<1>3. ASSUME NEW w, Forget(w)
      PROVE  HookType' \/ runs' # runs
    BY <1>1, <1>3 DEF Forget, HookType
<1>4. ASSUME NEW w, Forget(w)
      PROVE  WatchInv'
    <2>1. watching' \subseteq watching
        BY <1>4 DEF Forget
    <2>2. IsFiniteSet(watching') /\ Cardinality(watching') <= Cardinality(watching)
        BY <1>1, <2>1, FS_Subset DEF WatchInv
    <2>3. Cardinality(watching) \in Nat /\ Cardinality(watching') \in Nat
        BY <1>1, <2>2, FS_CardinalityType DEF WatchInv
    <2> QED BY <1>1, <2>2, <2>3 DEF WatchInv
<1>5. ASSUME UNCHANGED watching PROVE WatchInv'
    BY <1>1, <1>5 DEF WatchInv
<1>6. CASE ScheduleWakeup
    <2>1. HookType'
        BY <1>1, <1>6 DEF ScheduleWakeup, Calls, HookType
    <2>2. StateType'
        BY <1>1, <1>6 DEF ScheduleWakeup, Calls, StateType
    <2> QED BY <1>5, <1>6, <2>1, <2>2 DEF ScheduleWakeup
<1>7. CASE CancelWakeup
    <2>1. HookType'
        BY <1>1, <1>7 DEF CancelWakeup, Calls, HookType
    <2>2. StateType'
        BY <1>1, <1>7 DEF CancelWakeup, Calls, StateType
    <2> QED BY <1>5, <1>7, <2>1, <2>2 DEF CancelWakeup
<1>8. CASE WatchFile
    <2>1. HookType'
        BY <1>1, <1>8 DEF WatchFile, Calls, HookType, Hooks
    <2>2. StateType'
        BY <1>1, <1>8 DEF WatchFile, Calls, StateType
    <2>3. WatchInv'
        <3>1. watching' = watching \cup {nextId} /\ Cardinality(watching) < MaxWatches
            BY <1>8 DEF WatchFile
        <3>2. /\ IsFiniteSet(watching')
              /\ \/ Cardinality(watching') = Cardinality(watching)
                 \/ Cardinality(watching') = Cardinality(watching) + 1
            BY <1>1, <3>1, FS_AddElement DEF WatchInv
        <3>3. Cardinality(watching) \in Nat
            BY <1>1, FS_CardinalityType DEF WatchInv
        <3> QED BY <1>1, <3>1, <3>2, <3>3 DEF WatchInv
    <2> QED BY <2>1, <2>2, <2>3
<1>9. ASSUME NEW w \in Hooks, CancelWatch(w) \/ WatchFails(w)
      PROVE  HookType' /\ StateType' /\ WatchInv'
    <2>1. Forget(w) /\ runs' = runs
        BY <1>9 DEF CancelWatch, WatchFails, Calls
    <2>2. StateType'
        BY <1>1, <1>9 DEF CancelWatch, WatchFails, Calls, StateType
    <2> QED BY <1>3, <1>4, <2>1, <2>2
<1>10. ASSUME NEW w \in Hooks, FileChanges(w)
       PROVE  HookType' /\ StateType' /\ WatchInv'
    <2>1. HookType' /\ UNCHANGED watching
        BY <1>1, <1>10 DEF FileChanges, HookType
    <2>2. StateType'
        BY <1>1, <1>10 DEF FileChanges, StateType
    <2> QED BY <1>5, <2>1, <2>2
<1>11. ASSUME NEW w \in Hooks, WatchFires(w)
       PROVE  HookType' /\ StateType' /\ WatchInv'
    <2>1. Forget(w) /\ DeliverFiring(w)
        BY <1>11 DEF WatchFires
    <2>2. StateType'
        BY <1>2, <2>1
    <2> QED BY <1>2, <1>3, <1>4, <2>1, <2>2
<1>12. CASE WakeupFires
    <2>1. DeliverFiring(wakeup) /\ wakeup' = 0 /\ UNCHANGED <<nextId, watching, armed>>
        BY <1>12 DEF WakeupFires
    <2>2. StateType'
        BY <1>2, <2>1
    <2>3. HookType'
        BY <1>1, <1>2, <2>1 DEF HookType
    <2> QED BY <1>5, <2>1, <2>2, <2>3
<1>13. CASE Shutdown
    <2>1. HookType'
        BY <1>1, <1>13 DEF Shutdown, HookType
    <2>2. StateType'
        BY <1>1, <1>13 DEF Shutdown, StateType
    <2>3. WatchInv'
        BY <1>1, <1>13, FS_EmptySet DEF Shutdown, WatchInv
    <2> QED BY <2>1, <2>2, <2>3
<1>14. CASE RunStarts
    <2>1. HookType' /\ UNCHANGED watching
        BY <1>1, <1>14 DEF RunStarts, HookType
    <2>2. disposed' = disposed /\ Dispatch(<<>>, stage, emitting)
        BY <1>14 DEF RunStarts
    <2>3. StateType'
        BY <1>1, <2>2, DispatchType DEF StateType
    <2> QED BY <1>5, <2>1, <2>3
<1>15. ASSUME NEW d \in Drivers, NEW kind \in {"success", "stopped"}, RunEnds(d, kind)
       PROVE  HookType' /\ StateType' /\ WatchInv'
    <2>1. HookType' /\ UNCHANGED watching
        BY <1>1, <1>15 DEF RunEnds, HookType
    <2>2. StateType'
        BY <1>1, <1>15 DEF RunEnds, Settles, StateType, Stages
    <2> QED BY <1>5, <2>1, <2>2
<1>16. ASSUME NEW d \in Drivers, AgentSettled(d)
       PROVE  HookType' /\ StateType' /\ WatchInv'
    <2>. DEFINE stages == [stage EXCEPT ![d] = "after"]
    <2>1. HookType' /\ UNCHANGED watching
        BY <1>1, <1>16 DEF AgentSettled, HookType
    <2>2. disposed' = disposed /\ Flush(pendingFirings, outcome[d] = "success", stages, d)
        BY <1>16 DEF AgentSettled
    <2>3. stages \in Stages /\ disposed \in BOOLEAN
        BY <1>1 DEF StateType, Stages
    <2>. HIDE DEF stages
    <2>4. (outcome[d] = "success") \in BOOLEAN
        OBVIOUS
    <2>5. StateType'
        BY <1>1, <2>2, <2>3, <2>4, FlushType
    <2> QED BY <1>5, <2>1, <2>5
<1>17. ASSUME NEW d \in Drivers, SettlementEmitted(d)
       PROVE  HookType' /\ StateType' /\ WatchInv'
    <2>. DEFINE stages == [stage EXCEPT ![d] = "none"]
    <2>1. HookType' /\ UNCHANGED watching
        BY <1>1, <1>17 DEF SettlementEmitted, HookType
    <2>2. /\ disposed' = disposed
          /\ \/ emitting' = FALSE /\ stage' = stages /\ UNCHANGED <<active, outcome, late>>
             \/ Dispatch(continuations, stages, FALSE)
        BY <1>17 DEF SettlementEmitted
    <2>3. stages \in Stages /\ disposed \in BOOLEAN
        BY <1>1 DEF StateType, Stages
    <2>. HIDE DEF stages
    <2>4. CASE emitting' = FALSE /\ stage' = stages /\ UNCHANGED <<active, outcome, late>>
        BY <1>1, <1>5, <2>1, <2>2, <2>3, <2>4 DEF StateType
    <2>5. CASE Dispatch(continuations, stages, FALSE)
        BY <1>1, <1>5, <2>1, <2>2, <2>3, <2>5, DispatchType
    <2> QED BY <2>2, <2>4, <2>5
<1>18. CASE TakeFollowUps \/ ClearQueue
    <2>1. HookType' /\ UNCHANGED watching
        BY <1>1, <1>18 DEF TakeFollowUps, ClearQueue, HookType
    <2>2. StateType'
        BY <1>1, <1>18 DEF TakeFollowUps, ClearQueue, StateType
    <2> QED BY <1>5, <2>1, <2>2
<1> QED BY <1>6, <1>7, <1>8, <1>9, <1>10, <1>11, <1>12, <1>13, <1>14, <1>15, <1>16, <1>17, <1>18
        DEF Next

(* A hook that fires, fires once, and its number is not used again.        *)
LEMMA FreshStep ==
    ASSUME HooksInv, Next
    PROVE  FreshInv'
<1>. USE DEF hookVars
<1>1. /\ MaxHooks \in Nat /\ FreshInv /\ HookType
      /\ wakeup \in Int /\ nextId \in Int /\ Hooks = 1..MaxHooks
    BY HooksAssumption DEF HooksInv, HookType, Hooks
<1>2. ASSUME fired' = fired, nextId' = nextId, watching' \subseteq watching, wakeup' \in {0, wakeup}
      PROVE  FreshInv'
    <2>1. 0 < nextId /\ \A h \in Hooks : h # 0
        BY <1>1 DEF HookType
    <2> QED BY <1>1, <1>2, <2>1 DEF FreshInv, HookType
<1>3. ASSUME NEW hook \in Hooks, DeliverFiring(hook), hook \in watching \cup {wakeup},
             nextId' = nextId, watching' \subseteq watching, wakeup' \in {0, wakeup},
             hook \notin watching' \cup {wakeup'}
      PROVE  FreshInv'
    <2>1. 0 < nextId /\ \A h \in Hooks : h # 0
        BY <1>1 DEF HookType
    <2>2. fired' = fired \cup {hook}
        BY <1>3 DEF DeliverFiring
    <2> QED BY <1>1, <1>3, <2>1, <2>2 DEF FreshInv, HookType
<1>4. CASE ScheduleWakeup
    <2>1. /\ nextId <= MaxHooks /\ wakeup' = nextId /\ nextId' = nextId + 1
          /\ watching' = watching /\ fired' = fired
        BY <1>4 DEF ScheduleWakeup, Calls
    <2>2. \A h \in fired \cup watching : h < nextId /\ h \in Int
        BY <1>1 DEF FreshInv, HookType
    <2>3. nextId \notin fired \cup watching
        BY <1>1, <2>2
    <2>4. \A h \in fired \cup watching \cup {nextId} : h < nextId + 1
        BY <1>1, <2>2
    <2> QED BY <1>1, <2>1, <2>3, <2>4 DEF FreshInv
<1>5. CASE WatchFile
    <2>1. /\ watching' = watching \cup {nextId} /\ nextId' = nextId + 1
          /\ wakeup' = wakeup /\ fired' = fired
        BY <1>5 DEF WatchFile, Calls
    <2>2. \A h \in fired \cup watching \cup {wakeup} : h < nextId /\ h \in Int
        BY <1>1 DEF FreshInv, HookType
    <2>3. nextId \notin fired \cup watching \cup {wakeup}
        BY <1>1, <2>2
    <2>4. \A h \in fired \cup watching \cup {wakeup} \cup {nextId} : h < nextId + 1
        BY <1>1, <2>2
    <2> QED BY <1>1, <2>1, <2>3, <2>4 DEF FreshInv
<1>6. CASE CancelWakeup
    BY <1>2, <1>6 DEF CancelWakeup, Calls
<1>7. ASSUME NEW w \in Hooks, CancelWatch(w) \/ WatchFails(w) \/ FileChanges(w)
      PROVE  FreshInv'
    BY <1>2, <1>7 DEF CancelWatch, WatchFails, FileChanges, Forget, Calls
<1>8. ASSUME NEW w \in Hooks, WatchFires(w)
      PROVE  FreshInv'
    <2>1. /\ w \in watching /\ watching' = watching \ {w} /\ nextId' = nextId /\ wakeup' = wakeup
          /\ DeliverFiring(w)
        BY <1>1, <1>8 DEF WatchFires, Forget, HookType
    <2>2. w # wakeup
        BY <1>1, <2>1 DEF FreshInv
    <2> QED BY <1>3, <2>1, <2>2
<1>9. CASE WakeupFires
    <2>1. /\ wakeup # 0 /\ wakeup' = 0 /\ nextId' = nextId /\ watching' = watching
          /\ DeliverFiring(wakeup)
        BY <1>9 DEF WakeupFires
    <2>2. wakeup \in Hooks /\ wakeup \notin watching
        BY <1>1, <2>1 DEF HookType, FreshInv
    <2> QED BY <1>3, <2>1, <2>2
<1>10. CASE Shutdown
    BY <1>2, <1>10 DEF Shutdown
<1>11. CASE RunStarts \/ TakeFollowUps \/ ClearQueue
    BY <1>2, <1>11 DEF RunStarts, TakeFollowUps, ClearQueue
<1>12. ASSUME NEW d, (\E kind \in {"success", "stopped"} : RunEnds(d, kind)) \/ AgentSettled(d)
                         \/ SettlementEmitted(d)
       PROVE FreshInv'
    BY <1>2, <1>12 DEF RunEnds, AgentSettled, SettlementEmitted
<1> QED BY <1>4, <1>5, <1>6, <1>7, <1>8, <1>9, <1>10, <1>11, <1>12 DEF Next

-----------------------------------------------------------------------------
(* Where a firing goes.                                                    *)

Placed == OnceInv /\ ApartInv /\ FiredInv

LEMMA NothingMoves ==
    ASSUME HooksInv, disposed' = disposed, fired' = fired, dropped' = dropped,
           pendingFirings' = pendingFirings, continuations' = continuations,
           followUps' = followUps, context' = context
    PROVE  Placed'
BY DEF HooksInv, Placed, OnceInv, ApartInv, FiredInv, Told

LEMMA Dispatched ==
    ASSUME NEW batch, NEW stages, NEW settling, Dispatch(batch, stages, settling)
    PROVE  \/ context' = context \o batch /\ dropped' = dropped
           \/ context' = context /\ dropped' = dropped \cup Range(batch)
BY DEF Dispatch

(* A batch that is sent leaves the held ones and gets to one other place.  *)
LEMMA Sending ==
    ASSUME HooksInv, NEW batch, NEW triggerTurn, NEW stages, NEW own,
           Send(batch, triggerTurn, stages, own), Once(batch),
           Range(batch) \cap Told = {}, pendingFirings' = <<>>,
           disposed' = disposed, Range(pendingFirings) \subseteq Range(batch),
           fired' = fired \cup Range(batch)
    PROVE  Placed'
<1>1. OnceInv /\ ApartInv /\ FiredInv
    BY DEF HooksInv
<1>2. \/ continuations' = continuations \o batch /\ UNCHANGED <<followUps, context, dropped>>
      \/ followUps' = followUps \o batch /\ UNCHANGED <<continuations, context, dropped>>
      \/ context' = context \o batch /\ UNCHANGED <<continuations, followUps, dropped>>
      \/ dropped' = dropped \cup Range(batch) /\ UNCHANGED <<continuations, followUps, context>>
    BY Dispatched DEF Send
<1>3. /\ Once(continuations \o batch)
      /\ Range(continuations \o batch) = Range(continuations) \cup Range(batch)
    BY <1>1, OnceConcat DEF OnceInv, Told
<1>4. Once(followUps \o batch) /\ Range(followUps \o batch) = Range(followUps) \cup Range(batch)
    BY <1>1, OnceConcat DEF OnceInv, Told
<1>5. Once(context \o batch) /\ Range(context \o batch) = Range(context) \cup Range(batch)
    BY <1>1, OnceConcat DEF OnceInv, Told
<1>6. Once(pendingFirings') /\ Range(pendingFirings') = {}
    BY OnceEmpty
<1>7. CASE continuations' = continuations \o batch /\ UNCHANGED <<followUps, context, dropped>>
    <2>1. Once(continuations') /\ Range(continuations') = Range(continuations) \cup Range(batch)
        BY <1>3, <1>7
    <2>2. UNCHANGED <<followUps, context, dropped>>
        BY <1>7
    <2> QED BY <1>1, <1>6, <2>1, <2>2 DEF Placed, OnceInv, ApartInv, FiredInv, Told
<1>8. CASE followUps' = followUps \o batch /\ UNCHANGED <<continuations, context, dropped>>
    <2>1. Once(followUps') /\ Range(followUps') = Range(followUps) \cup Range(batch)
        BY <1>4, <1>8
    <2>2. UNCHANGED <<continuations, context, dropped>>
        BY <1>8
    <2> QED BY <1>1, <1>6, <2>1, <2>2 DEF Placed, OnceInv, ApartInv, FiredInv, Told
<1>9. CASE context' = context \o batch /\ UNCHANGED <<continuations, followUps, dropped>>
    <2>1. Once(context') /\ Range(context') = Range(context) \cup Range(batch)
        BY <1>5, <1>9
    <2>2. UNCHANGED <<continuations, followUps, dropped>>
        BY <1>9
    <2> QED BY <1>1, <1>6, <2>1, <2>2 DEF Placed, OnceInv, ApartInv, FiredInv, Told
<1>10. CASE dropped' = dropped \cup Range(batch) /\ UNCHANGED <<continuations, followUps, context>>
    <2>1. UNCHANGED <<continuations, followUps, context>>
        BY <1>10
    <2> QED BY <1>1, <1>6, <1>10, <2>1 DEF Placed, OnceInv, ApartInv, FiredInv, Told
<1> QED BY <1>2, <1>7, <1>8, <1>9, <1>10

LEMMA Delivering ==
    ASSUME HooksInv, NEW hook \in Hooks, hook \notin fired, DeliverFiring(hook)
    PROVE  Placed'
<1>1. OnceInv /\ ApartInv /\ FiredInv
    BY DEF HooksInv
<1>2. fired' = fired \cup {hook} /\ disposed' = disposed
    BY DEF DeliverFiring
<1>3. hook \notin Range(pendingFirings) \cup Told
    BY <1>1 DEF FiredInv
<1>4. /\ Once(Append(pendingFirings, hook))
      /\ Range(Append(pendingFirings, hook)) = Range(pendingFirings) \cup {hook}
    BY <1>1, <1>3, OnceAppend DEF OnceInv
<1>5. CASE active
    <2>1. /\ pendingFirings' = Append(pendingFirings, hook) /\ dropped' = dropped
          /\ UNCHANGED <<continuations, followUps, context>>
        BY <1>5 DEF DeliverFiring, sessionVars
    <2>2. Once(pendingFirings') /\ Range(pendingFirings') = Range(pendingFirings) \cup {hook}
        BY <1>4, <2>1
    <2>3. UNCHANGED <<continuations, followUps, context, dropped>>
        BY <2>1
    <2> QED BY <1>1, <1>2, <1>3, <2>2, <2>3 DEF Placed, OnceInv, ApartInv, FiredInv, Told
<1>6. CASE ~active
    <2>. DEFINE batch == Append(pendingFirings, hook)
    <2>1. Flush(batch, TRUE, stage, 0)
        BY <1>6 DEF DeliverFiring
    <2>2. batch # <<>>
        BY <1>4, OnceEmpty
    <2>3. pendingFirings' = <<>> /\ Send(batch, TRUE, stage, 0)
        BY <2>1, <2>2 DEF Flush
    <2>4. /\ Range(batch) \cap Told = {} /\ Range(pendingFirings) \subseteq Range(batch)
          /\ fired' = fired \cup Range(batch)
        BY <1>1, <1>2, <1>3, <1>4 DEF ApartInv, FiredInv, Told
    <2>. HIDE DEF batch
    <2>5. Once(batch)
        BY <1>4 DEF batch
    <2> QED BY <1>2, <2>3, <2>4, <2>5, Sending
<1> QED BY <1>5, <1>6

LEMMA PlaceStep ==
    ASSUME HooksInv, Next
    PROVE  Placed'
<1>. USE DEF hookVars, sessionVars
<1>1. OnceInv /\ ApartInv /\ FiredInv /\ FreshInv /\ StateType /\ HookType
    BY DEF HooksInv
<1>2. CASE ScheduleWakeup \/ CancelWakeup \/ WatchFile
    BY <1>2, NothingMoves DEF ScheduleWakeup, CancelWakeup, WatchFile, Calls
<1>3. ASSUME NEW w \in Hooks, CancelWatch(w) \/ FileChanges(w) \/ WatchFails(w)
      PROVE  Placed'
    BY <1>3, NothingMoves DEF CancelWatch, FileChanges, WatchFails, Calls
<1>4. ASSUME NEW w \in Hooks, WatchFires(w)
      PROVE  Placed'
    <2>1. w \notin fired /\ DeliverFiring(w)
        BY <1>1, <1>4 DEF WatchFires, FreshInv, HookType
    <2> QED BY <2>1, Delivering
<1>5. CASE WakeupFires
    <2>1. wakeup \notin fired /\ wakeup \in Hooks /\ DeliverFiring(wakeup)
        BY <1>1, <1>5, HooksAssumption DEF WakeupFires, FreshInv, HookType, Hooks
    <2> QED BY <2>1, Delivering
<1>6. CASE Shutdown
    <2>1. /\ disposed' /\ fired' = fired /\ dropped' = dropped /\ pendingFirings' = <<>>
          /\ continuations' = continuations /\ followUps' = followUps /\ context' = context
        BY <1>6 DEF Shutdown
    <2>2. Once(pendingFirings') /\ Range(pendingFirings') = {}
        BY <2>1, OnceEmpty
    <2>3. /\ disposed' /\ fired' = fired /\ dropped' = dropped
          /\ continuations' = continuations /\ followUps' = followUps /\ context' = context
        BY <2>1
    <2> QED BY <1>1, <2>2, <2>3 DEF Placed, OnceInv, ApartInv, FiredInv, Told
<1>7. ASSUME NEW d, NEW kind, RunEnds(d, kind)
      PROVE  Placed'
    BY <1>7, NothingMoves DEF RunEnds
<1>8. ASSUME NEW d \in Drivers, AgentSettled(d)
      PROVE  Placed'
    <2>. DEFINE stages == [stage EXCEPT ![d] = "after"]
                trigger == outcome[d] = "success"
    <2>1. /\ disposed' = disposed /\ fired' = fired
          /\ Flush(pendingFirings, trigger, stages, d)
        BY <1>8 DEF AgentSettled
    <2>. HIDE DEF stages, trigger
    <2>2. CASE pendingFirings = <<>>
        BY <2>1, <2>2, NothingMoves DEF Flush
    <2>3. CASE pendingFirings # <<>>
        <3>1. Range(pendingFirings) \cap Told = {} /\ fired' = fired \cup Range(pendingFirings)
            BY <1>1, <2>1 DEF ApartInv, FiredInv, Told
        <3>2. Once(pendingFirings)
            BY <1>1 DEF OnceInv
        <3>3. pendingFirings' = <<>> /\ Send(pendingFirings, trigger, stages, d)
            BY <2>1, <2>3 DEF Flush
        <3> QED BY <2>1, <3>1, <3>2, <3>3, Sending
    <2> QED BY <2>2, <2>3
<1>9. ASSUME NEW d \in Drivers, SettlementEmitted(d)
      PROVE  Placed'
    <2>. DEFINE stages == [stage EXCEPT ![d] = "none"]
    <2>1. /\ UNCHANGED <<pendingFirings, disposed, followUps, fired>> /\ continuations' = <<>>
          /\ \/ continuations = <<>> /\ UNCHANGED <<context, dropped>>
             \/ Dispatch(continuations, stages, FALSE)
        BY <1>9 DEF SettlementEmitted
    <2>. HIDE DEF stages
    <2>2. Once(continuations') /\ Range(continuations') = {}
        BY <2>1, OnceEmpty
    <2>3. /\ Once(context \o continuations)
          /\ Range(context \o continuations) = Range(context) \cup Range(continuations)
        BY <1>1, OnceConcat DEF OnceInv, ApartInv
    <2>4. CASE continuations = <<>> /\ UNCHANGED <<context, dropped>>
        BY <2>1, <2>4, NothingMoves
    <2>5. CASE Dispatch(continuations, stages, FALSE)
        <3>1. \/ dropped' = dropped \cup Range(continuations) /\ context' = context
              \/ /\ dropped' = dropped /\ Once(context')
                 /\ Range(context') = Range(context) \cup Range(continuations)
            BY <2>3, <2>5, Dispatched
        <3>2. UNCHANGED <<pendingFirings, disposed, followUps, fired>>
            BY <2>1
        <3> QED BY <1>1, <2>2, <3>1, <3>2 DEF Placed, OnceInv, ApartInv, FiredInv, Told
    <2> QED BY <2>1, <2>4, <2>5
<1>10. CASE RunStarts
    <2>1. /\ UNCHANGED <<pendingFirings, disposed, continuations, followUps, fired>>
          /\ Dispatch(<<>>, stage, emitting)
        BY <1>10 DEF RunStarts
    <2>2. context \in Seq(Hooks) /\ Range(<<>>) = {}
        BY <1>1, OnceEmpty DEF OnceInv, Once
    <2>3. context \o <<>> = context
        BY <2>2, ConcatEmptySeq
    <2>4. context' = context /\ dropped' = dropped
        BY <2>1, <2>2, <2>3, Dispatched
    <2> QED BY <2>1, <2>4, NothingMoves
<1>11. CASE TakeFollowUps \/ ClearQueue
    <2>1. UNCHANGED <<pendingFirings, disposed, continuations, fired>>
        BY <1>11 DEF TakeFollowUps, ClearQueue
    <2>2. Once(followUps') /\ Range(followUps') = {}
        BY <1>11, OnceEmpty DEF TakeFollowUps, ClearQueue
    <2>3. /\ Once(context \o followUps)
          /\ Range(context \o followUps) = Range(context) \cup Range(followUps)
        BY <1>1, OnceConcat DEF OnceInv, ApartInv
    <2>4. \/ dropped' = dropped \cup Range(followUps) /\ context' = context
          \/ /\ dropped' = dropped /\ Once(context')
             /\ Range(context') = Range(context) \cup Range(followUps)
        BY <1>11, <2>3 DEF TakeFollowUps, ClearQueue
    <2> QED BY <1>1, <2>1, <2>2, <2>4 DEF Placed, OnceInv, ApartInv, FiredInv, Told
<1> QED BY <1>2, <1>3, <1>4, <1>5, <1>6, <1>7, <1>8, <1>9, <1>10, <1>11 DEF Next

LEMMA HooksStep == HooksInv /\ [Next]_vars => HooksInv'
<1>1. CASE UNCHANGED vars
    BY <1>1 DEF vars, hookVars, sessionVars, HooksInv, HookType, StateType, Stages, WatchInv,
                FreshInv, OnceInv, ApartInv, FiredInv, Told
<1>2. CASE Next
    BY <1>2, TypeStep, FreshStep, PlaceStep DEF HooksInv, Placed
<1> QED BY <1>1, <1>2

(* FiredOnce of the hooks: deliverFiring, flushPendingFirings and the      *)
(* settlement move a firing from place to place, and lose none and double  *)
(* none before a shutdown.                                                 *)
THEOREM EachFiredOnce == Spec => []FiredOnce
<1>1. HooksInv => FiredOnce
    <2> SUFFICES ASSUME HooksInv PROVE FiredOnce
        OBVIOUS
    <2>1. OnceInv /\ ApartInv /\ FiredInv /\ FreshInv /\ StateType /\ HookType /\ WatchInv
        BY DEF HooksInv
    <2>2. TypeOK
        BY <2>1 DEF TypeOK, FiredInv, Told, FreshInv, StateType, Stages, HookType, WatchInv
    <2>. DEFINE heldOn == pendingFirings \o continuations
                queued == heldOn \o followUps
    <2>3. Once(heldOn) /\ Range(heldOn) = Range(pendingFirings) \cup Range(continuations)
        BY <2>1, OnceConcat DEF OnceInv, ApartInv
    <2>. HIDE DEF heldOn
    <2>4. Once(queued) /\ Range(queued) = Range(heldOn) \cup Range(followUps)
        BY <2>1, <2>3, OnceConcat DEF OnceInv, ApartInv
    <2>. HIDE DEF queued
    <2>5. Once(queued \o context) /\ Range(queued \o context) = Range(queued) \cup Range(context)
        BY <2>1, <2>3, <2>4, OnceConcat DEF OnceInv, ApartInv
    <2>6. Places = queued \o context
        BY DEF Places, queued, heldOn
    <2>7. /\ IsInjective(Places)
          /\ Range(Places) \cup dropped = Range(pendingFirings) \cup Told
          /\ Range(Places) \cap dropped = {}
        BY <2>1, <2>3, <2>4, <2>5, <2>6 DEF Once, Told, ApartInv
    <2> QED BY <2>1, <2>2, <2>7 DEF FiredOnce, FiredInv
<1> QED BY <1>1, HooksInit, HooksStep, PTL DEF Spec

LEMMA StoppedSend ==
    ASSUME StateType, StoppedInv, NEW batch, NEW triggerTurn, NEW own \in Drivers \cup {0},
           NEW stages \in Stages,
           \A d \in Drivers : stages[d] = (IF d = own THEN "after" ELSE stage[d]),
           own \in Drivers => (stage[own] = "before" /\ triggerTurn = (outcome[own] = "success")),
           Send(batch, triggerTurn, stages, own)
    PROVE  StoppedInv'
<1>1. CASE continuations' = continuations /\ stage' = stages /\ UNCHANGED <<outcome, late>>
    BY <1>1 DEF StoppedInv, Settling
<1>2. CASE ~emitting /\ triggerTurn /\ ~active /\ Dispatch(batch, stages, FALSE) /\
           continuations' = continuations
    <2>1. PICK d \in Drivers :
            \/ stage' = [stages EXCEPT ![d] = "running"] /\ UNCHANGED <<outcome, late>>
            \/ /\ stage' = [stages EXCEPT ![d] = "before"]
               /\ outcome' = [outcome EXCEPT ![d] = "stopped"]
               /\ late' = [late EXCEPT ![d] = continuations' # <<>>]
        BY <1>2 DEF Dispatch, Settles
    <2> SUFFICES ASSUME continuations # <<>>, NEW e \in Drivers, Settling(e)'
                 PROVE  late'[e] \/ (stage'[e] = "after" /\ outcome'[e] = "success")
        BY <1>2 DEF StoppedInv
    <2>2. CASE e = d
        BY <1>2, <2>1, <2>2 DEF Settling, StateType, Stages
    <2>3. CASE e # d
        <3>1. /\ stage'[e] = stages[e] /\ outcome'[e] = outcome[e] /\ late'[e] = late[e]
            BY <2>1, <2>3 DEF StateType, Stages
        <3>2. (stages[e] = "after" /\ e = own) \/ (stages[e] = stage[e] /\ e # own)
            OBVIOUS
        <3> QED BY <1>2, <3>1, <3>2 DEF StoppedInv, Settling
    <2> QED BY <2>2, <2>3
<1>3. CASE /\ stage' = stages /\ outcome' = outcome /\ triggerTurn
           /\ late' = [d \in Drivers |-> late[d] \/ (Settling(d) /\ d # own)]
    <2> SUFFICES ASSUME NEW d \in Drivers, Settling(d)'
                 PROVE  late'[d] \/ (stage'[d] = "after" /\ outcome'[d] = "success")
        BY DEF StoppedInv
    <2>1. CASE d = own
        BY <1>3, <2>1 DEF Settling
    <2>2. CASE d # own
        BY <1>3, <2>2 DEF Settling
    <2> QED BY <2>1, <2>2
<1> QED BY <1>1, <1>2, <1>3 DEF Send

LEMMA StoppedFlush ==
    ASSUME StateType, StoppedInv, NEW batch, NEW triggerTurn, NEW own \in Drivers \cup {0},
           NEW stages \in Stages,
           \A d \in Drivers : stages[d] = (IF d = own THEN "after" ELSE stage[d]),
           own \in Drivers => (stage[own] = "before" /\ triggerTurn = (outcome[own] = "success")),
           Flush(batch, triggerTurn, stages, own)
    PROVE  StoppedInv'
<1>1. CASE stage' = stages /\ UNCHANGED <<continuations, outcome, late>>
    BY <1>1 DEF StoppedInv, Settling
<1>2. CASE Send(batch, triggerTurn, stages, own)
    BY <1>2, StoppedSend
<1> QED BY <1>1, <1>2 DEF Flush

LEMMA StoppedStep == StateType /\ StoppedInv /\ [Next]_vars => StoppedInv'
<1> SUFFICES ASSUME StateType, StoppedInv, [Next]_vars PROVE StoppedInv'
    OBVIOUS
<1>. USE DEF hookVars, sessionVars
<1>1. ASSUME UNCHANGED <<stage, outcome, continuations, late>>
      PROVE  StoppedInv'
    BY <1>1 DEF StoppedInv, Settling
<1>2. CASE UNCHANGED vars
    BY <1>1, <1>2 DEF vars
<1>3. CASE ScheduleWakeup \/ CancelWakeup \/ WatchFile \/ Shutdown \/ TakeFollowUps \/ ClearQueue
    BY <1>1, <1>3 DEF ScheduleWakeup, CancelWakeup, WatchFile, Shutdown, TakeFollowUps, ClearQueue,
                      Calls
<1>4. ASSUME NEW w, CancelWatch(w) \/ FileChanges(w) \/ WatchFails(w)
      PROVE  StoppedInv'
    BY <1>1, <1>4 DEF CancelWatch, FileChanges, WatchFails, Calls
<1>5. ASSUME NEW hook, DeliverFiring(hook)
      PROVE  StoppedInv'
    <2>1. CASE active
        BY <1>1, <1>5, <2>1 DEF DeliverFiring
    <2>2. CASE ~active
        <3>1. Flush(Append(pendingFirings, hook), TRUE, stage, 0)
            BY <1>5, <2>2 DEF DeliverFiring
        <3>2. stage \in Stages /\ 0 \notin Drivers
            BY HooksAssumption DEF StateType, Drivers
        <3> QED BY <3>1, <3>2, StoppedFlush
    <2> QED BY <2>1, <2>2
<1>6. CASE WakeupFires
    BY <1>5, <1>6 DEF WakeupFires
<1>7. ASSUME NEW w, WatchFires(w) PROVE StoppedInv'
    BY <1>5, <1>7 DEF WatchFires
<1>8. ASSUME NEW d \in Drivers, NEW kind, RunEnds(d, kind) PROVE StoppedInv'
    <2>1. /\ stage' = [stage EXCEPT ![d] = "before"] /\ outcome' = [outcome EXCEPT ![d] = kind]
          /\ late' = [late EXCEPT ![d] = continuations' # <<>>] /\ continuations' = continuations
        BY <1>8 DEF RunEnds, Settles
    <2> QED BY <2>1 DEF StoppedInv, Settling, StateType, Stages
<1>9. ASSUME NEW d \in Drivers, AgentSettled(d) PROVE StoppedInv'
    <2>. DEFINE stages == [stage EXCEPT ![d] = "after"]
    <2>1. stage[d] = "before" /\ Flush(pendingFirings, outcome[d] = "success", stages, d)
        BY <1>9 DEF AgentSettled
    <2>2. /\ stages \in Stages
          /\ \A e \in Drivers : stages[e] = (IF e = d THEN "after" ELSE stage[e])
        BY DEF StateType, Stages
    <2>. HIDE DEF stages
    <2> QED BY <2>1, <2>2, StoppedFlush
<1>10. ASSUME NEW d, SettlementEmitted(d) PROVE StoppedInv'
    BY <1>10 DEF SettlementEmitted, StoppedInv
<1>11. CASE RunStarts
    <2>1. PICK d \in Drivers :
            \/ stage' = [stage EXCEPT ![d] = "running"] /\ UNCHANGED <<outcome, late>>
            \/ /\ stage' = [stage EXCEPT ![d] = "before"]
               /\ outcome' = [outcome EXCEPT ![d] = "stopped"]
               /\ late' = [late EXCEPT ![d] = continuations' # <<>>]
        BY <1>11 DEF RunStarts, Dispatch, Settles
    <2>2. continuations' = continuations
        BY <1>11 DEF RunStarts
    <2> QED BY <2>1, <2>2 DEF StoppedInv, Settling, StateType, Stages
<1> QED BY <1>2, <1>3, <1>4, <1>6, <1>7, <1>8, <1>9, <1>10, <1>11 DEF Next

(* "A hook must never resurrect a stopped run": what the settlement of a   *)
(* stopped run finds to continue with, others have left it.                *)
THEOREM StoppedRunsStayStopped == Spec => StoppedStaysStopped
<1>1. StoppedInv =>
        \A d \in Drivers :
            (SettlementEmitted(d) /\ outcome[d] = "stopped" /\ ~late[d]) => continuations = <<>>
    BY DEF StoppedInv, SettlementEmitted, Settling
<1>2. Spec => []StoppedInv
    <2>1. HooksInv => StateType
        BY DEF HooksInv
    <2> QED BY <2>1, HooksInit, HooksStep, StoppedStep, PTL DEF Spec
<1> QED BY <1>1, <1>2, PTL DEF StoppedStaysStopped
=============================================================================
