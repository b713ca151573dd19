---------------------------- MODULE SessionProofs ----------------------------
(***************************************************************************)
(* Proofs about the two sides of a session that is kept in a file, for any *)
(* processes, faults and bounds.                                           *)
(*                                                                         *)
(* SessionLease: one process writes a session, and what the daemon says of *)
(* the owner it negotiates with is so.  SessionFile: what is in the file   *)
(* is the session, and what was acknowledged is read back.                 *)
(***************************************************************************)
EXTENDS SessionLease, SessionFile, FiniteSetTheorems, SequenceTheorems, TLAPS

(* A process that has looked may still start, one that writes has started, *)
(* and one that is suspended is an owner.                                  *)
ProcessInv ==
    /\ \A w \in Writers : Writes(w) => starts[w] > 0
    /\ \A w \in Writers : pc[w] \in {"looked", "locked"} => starts[w] < MaxStarts
    /\ \A w \in suspended : pc[w] = "owning"

(* Whom the lock names: a process that is about to claim the session, or   *)
(* the ownership the lease names, whose process has not given it up.       *)
LockInv ==
    /\ lock # None => \E w \in Writers : lock \in {Mine(w), Fresh(w)}
    /\ \A w \in Writers : pc[w] = "locked" => lock = Fresh(w) /\ ~stale
    /\ \A w \in Writers : lock = Mine(w) => lease = lock /\ pc[w] # "released"

WriterInv == \A w \in Writers : Writes(w) => lease = Mine(w)

(* Ownerships the files and the daemon know of have begun.                 *)
Begun(o) == o # None => o.id <= starts[o.by]
BegunInv == Begun(lease) /\ Begun(record) /\ Begun(request.of)

(* The daemon's negotiation, and its authorization to kill, are about an   *)
(* ownership that has got a SIGTERM.                                       *)
RequestInv ==
    /\ request.stage # "none" => request.of \in Owners
    /\ request.stage # "none" /\ request.same => record = request.of
    /\ request.stage # "none" /\ request.hard => request.of \in termed
    /\ request.stage = "signalled" => request.of \in termed
    /\ token => record \in termed

LeaseInv == TypeOK /\ ProcessInv /\ LockInv /\ WriterInv /\ BegunInv /\ RequestInv

-----------------------------------------------------------------------------
LEMMA OwnerFacts ==
    ASSUME TypeOK, NEW w \in Writers
    PROVE  /\ Mine(w).by = w /\ Mine(w).id = starts[w]
           /\ Fresh(w).by = w /\ Fresh(w).id = starts[w] + 1
           /\ starts[w] \in Nat
           /\ Mine(w) # Fresh(w) /\ Mine(w) # None /\ Fresh(w) # None
           /\ starts[w] < MaxStarts => Fresh(w) \in Owners
BY LeaseAssumption DEF TypeOK, Mine, Fresh, Owners

LEMMA LeaseInit == Init => LeaseInv
<1> SUFFICES ASSUME Init PROVE LeaseInv
    OBVIOUS
<1>1. TypeOK
    <2>1. starts \in [Writers -> 0..MaxStarts] /\ suspends \in 0..MaxSuspends
          /\ requests \in 0..MaxRequests
        BY LeaseAssumption DEF Init
    <2>2. request \in [stage : Stages, of : Owners \cup {None}, same : BOOLEAN,
                       force : BOOLEAN, hard : BOOLEAN]
        BY DEF Init, Quiet, Stages
    <2> QED BY <2>1, <2>2 DEF Init, TypeOK
<1>2. ProcessInv /\ WriterInv
    BY DEF Init, ProcessInv, WriterInv, Writes
<1>3. LockInv
    BY DEF Init, LockInv
<1>4. BegunInv /\ RequestInv
    BY DEF Init, BegunInv, RequestInv, Begun, Quiet
<1> QED BY <1>1, <1>2, <1>3, <1>4 DEF LeaseInv

(* What a refused start does to the record keeps what the daemon knows.    *)
LEMMA RefusedStep ==
    ASSUME LeaseInv, NEW w \in Writers, pc[w] \in {"out", "looked", "locked"}, Refused(w),
           \/ UNCHANGED <<lock, stale>>
           \/ pc[w] = "locked" /\ lock' = None /\ stale' = FALSE,
           pc[w] # "locked" \/ lock' = None
    PROVE  LeaseInv'
<1> USE DEF LeaseInv
<1>1. /\ pc' = [pc EXCEPT ![w] = "out"] /\ record' \in {lease, None} /\ token' = FALSE
      /\ request' = [request EXCEPT !.same = FALSE]
      /\ UNCHANGED <<starts, suspended, suspends, closing, lease, requests, termed>>
    BY DEF Refused
<1>2. TypeOK'
    BY <1>1 DEF TypeOK
<1>3. \A v \in Writers : pc'[v] = IF v = w THEN "out" ELSE pc[v]
    BY <1>1 DEF TypeOK
<1>4. w \notin suspended
    BY DEF ProcessInv
<1>5. ProcessInv' /\ WriterInv'
    BY <1>1, <1>3, <1>4 DEF ProcessInv, WriterInv, Writes, Mine, TypeOK
<1>6. LockInv'
    <2>1. \A v \in Writers : Mine(v)' = Mine(v) /\ Fresh(v)' = Fresh(v)
        BY <1>1 DEF Mine, Fresh
    <2>2. lock' # None => lock' = lock /\ stale' = stale /\ lock.by \in Writers
        BY DEF TypeOK, Owners
    <2>3. CASE lock' = None /\ pc[w] = "locked"
        <3>1. \A v \in Writers : v # w => pc[v] # "locked"
            BY <2>3, OwnerFacts DEF LockInv
        <3> QED BY <1>1, <1>3, <2>1, <2>3, <3>1, OwnerFacts DEF LockInv
    <2>4. CASE UNCHANGED <<lock, stale>>
        BY <1>1, <1>3, <2>1, <2>2, <2>4 DEF LockInv
    <2> QED BY <2>3, <2>4
<1>7. BegunInv' /\ RequestInv'
    BY <1>1 DEF BegunInv, RequestInv, Begun, TypeOK
<1> QED BY <1>2, <1>5, <1>6, <1>7

(* Every step keeps the files, the processes and the daemon in agreement.  *)
LEMMA LeaseStep == LeaseInv /\ [Next]_vars => LeaseInv'
<1> SUFFICES ASSUME LeaseInv, [Next]_vars PROVE LeaseInv'
    OBVIOUS
<1> USE DEF LeaseInv
<1>1. CASE UNCHANGED vars
    BY <1>1 DEF vars, processVars, fileVars, daemonVars, TypeOK, ProcessInv, LockInv, WriterInv,
                BegunInv, RequestInv, Begun, Writes, Mine, Fresh
<1>2. ASSUME NEW w \in Writers, Look(w) PROVE LeaseInv'
    <2>1. CASE Refused(w) /\ UNCHANGED <<lock, stale>>
        <3>1. LeaseInv /\ pc[w] = "out"
            BY <1>2 DEF Look
        <3> HIDE DEF LeaseInv
        <3> QED BY <2>1, <3>1, RefusedStep
    <2>2. CASE ~(Refused(w) /\ UNCHANGED <<lock, stale>>)
        <3>1. /\ pc[w] = "out" /\ starts[w] < MaxStarts /\ pc' = [pc EXCEPT ![w] = "looked"]
              /\ UNCHANGED <<starts, suspended, suspends, closing, fileVars, daemonVars>>
            BY <1>2, <2>2 DEF Look
        <3> QED BY <3>1 DEF fileVars, daemonVars, TypeOK, ProcessInv, LockInv, WriterInv, BegunInv,
                            RequestInv, Begun, Writes, Mine, Fresh
    <2> QED BY <2>1, <2>2
<1>3. ASSUME NEW w \in Writers, Lock(w) PROVE LeaseInv'
    <2>1. CASE Refused(w) /\ UNCHANGED <<lock, stale>>
        <3>1. LeaseInv /\ pc[w] = "looked"
            BY <1>3 DEF Lock
        <3> HIDE DEF LeaseInv
        <3> QED BY <2>1, <3>1, RefusedStep
    <2>2. CASE ~(Refused(w) /\ UNCHANGED <<lock, stale>>)
        <3>1. /\ pc[w] = "looked" /\ (lock = None \/ stale)
              /\ lock' = Fresh(w) /\ stale' = FALSE /\ pc' = [pc EXCEPT ![w] = "locked"]
              /\ UNCHANGED <<starts, suspended, suspends, closing, lease, daemonVars>>
            BY <1>3, <2>2 DEF Lock, TypeOK
        <3>2. starts[w] < MaxStarts /\ Fresh(w) \in Owners /\ Fresh(w) # None
            BY <3>1, OwnerFacts DEF ProcessInv
        <3>3. TypeOK'
            BY <3>1, <3>2 DEF daemonVars, TypeOK
        <3>4. \A v \in Writers : pc'[v] = IF v = w THEN "locked" ELSE pc[v]
            BY <3>1 DEF TypeOK
        <3>5. \A v \in Writers : Mine(v)' = Mine(v) /\ Fresh(v)' = Fresh(v) /\ Fresh(w) # Mine(v)
            BY <3>1, OwnerFacts DEF Mine, Fresh
        <3>6. \A v \in Writers : v # w => pc[v] # "locked"
            BY <3>1, OwnerFacts DEF LockInv
        <3>7. LockInv'
            <4>1. lock' = Fresh(w) /\ lock'.by = w /\ Fresh(w)' = Fresh(w)
                BY <3>1, <3>5, OwnerFacts
            <4>2. \A v \in Writers : lock' # Mine(v)'
                BY <3>5, <4>1, OwnerFacts
            <4>3. \A v \in Writers : pc'[v] = "locked" => v = w
                BY <3>4, <3>6
            <4> QED BY <3>1, <4>1, <4>2, <4>3 DEF LockInv
        <3>8. ProcessInv' /\ WriterInv'
            BY <3>1, <3>2, <3>4, <3>5 DEF ProcessInv, WriterInv, Writes, TypeOK
        <3>9. BegunInv' /\ RequestInv'
            BY <3>1 DEF daemonVars, BegunInv, RequestInv, Begun
        <3> QED BY <3>3, <3>7, <3>8, <3>9
    <2> QED BY <2>1, <2>2
<1>4. ASSUME NEW w \in Writers, Claim(w) PROVE LeaseInv'
    <2>1. CASE Foreign(w) /\ Alive(lease.by)
        <3>1. /\ LeaseInv /\ pc[w] = "locked" /\ Refused(w) /\ lock' = None /\ stale' = FALSE
            BY <1>4, <2>1 DEF Claim
        <3> HIDE DEF LeaseInv
        <3> QED BY <3>1, RefusedStep
    <2>2. CASE ~(Foreign(w) /\ Alive(lease.by))
        <3>1. /\ pc[w] = "locked" /\ lease' = Fresh(w)
              /\ starts' = [starts EXCEPT ![w] = @ + 1] /\ pc' = [pc EXCEPT ![w] = "owning"]
              /\ UNCHANGED <<suspended, suspends, closing, lock, stale, daemonVars>>
            BY <1>4, <2>2 DEF Claim, Owns
        <3>2. starts[w] < MaxStarts /\ Fresh(w) \in Owners /\ lock = Fresh(w) /\ Fresh(w) # None
            BY <3>1, OwnerFacts DEF ProcessInv, LockInv
        <3>3. TypeOK'
            BY <3>1, <3>2, LeaseAssumption DEF daemonVars, TypeOK
        <3>4. \A v \in Writers :
                 /\ pc'[v] = IF v = w THEN "owning" ELSE pc[v]
                 /\ starts'[v] = IF v = w THEN starts[v] + 1 ELSE starts[v]
                 /\ starts[v] <= starts'[v]
            BY <3>1 DEF TypeOK
        <3>5. \A v \in Writers :
                 /\ Mine(v)' = IF v = w THEN Fresh(v) ELSE Mine(v)
                 /\ v # w => Fresh(v)' = Fresh(v) /\ Mine(v) # Fresh(w)
            BY <3>4, OwnerFacts DEF Mine, Fresh
        <3>6. LockInv'
            BY <3>1, <3>2, <3>4, <3>5, OwnerFacts DEF LockInv
        <3>7. \A v \in Writers : v # w => ~Writes(v)
            <4> SUFFICES ASSUME NEW v \in Writers, v # w, Writes(v) PROVE FALSE
                OBVIOUS
            <4>1. lease = Mine(v) /\ lease.by = v /\ Alive(v)
                BY OwnerFacts DEF WriterInv, Writes, Alive
            <4>2. lease # None
                BY <4>1, LeaseAssumption DEF ProcessInv, Mine, TypeOK
            <4> QED BY <2>2, <4>1, <4>2 DEF Foreign
        <3>8. WriterInv' /\ ProcessInv'
            BY <3>1, <3>2, <3>4, <3>5, <3>7 DEF WriterInv, Writes, ProcessInv, TypeOK
        <3>9. Begun(record)' /\ Begun(request.of)' /\ RequestInv'
            BY <3>1, <3>4 DEF daemonVars, BegunInv, RequestInv, Begun, TypeOK, Owners
        <3>10. Begun(lease)'
            BY <3>1, <3>4, OwnerFacts DEF Begun
        <3> QED BY <3>3, <3>6, <3>8, <3>9, <3>10 DEF BegunInv
    <2> QED BY <2>1, <2>2
<1>5. ASSUME NEW w \in Writers, Refresh(w) PROVE LeaseInv'
    <2>1. /\ pc[w] = "owning" /\ UNCHANGED <<starts, suspended, suspends, lock, lease, daemonVars>>
          /\ w \notin suspended /\ closing' \in {closing, closing \cup {w}}
          /\ \/ lock = Mine(w) /\ stale' = FALSE /\ pc' = pc
             \/ stale' = stale /\ pc' = [pc EXCEPT ![w] = "compromised"]
        BY <1>5 DEF Refresh, Runs
    <2>2. \A v \in Writers : Mine(v)' = Mine(v) /\ Fresh(v)' = Fresh(v)
        BY <2>1 DEF Mine, Fresh
    <2>3. TypeOK'
        BY <2>1 DEF daemonVars, TypeOK
    <2>4. \A v \in Writers : /\ v # w => pc'[v] = pc[v]
                             /\ pc'[w] \in {"owning", "compromised"}
        BY <2>1 DEF TypeOK
    <2>5. LockInv'
        BY <2>1, <2>2, <2>4 DEF LockInv
    <2>6. ProcessInv' /\ WriterInv' /\ BegunInv' /\ RequestInv'
        BY <2>1, <2>2, <2>4 DEF ProcessInv, WriterInv, Writes, BegunInv, Begun, RequestInv,
                daemonVars, TypeOK
    <2> QED BY <2>3, <2>5, <2>6
<1>6. ASSUME NEW w \in Writers, Release(w) PROVE LeaseInv'
    <2>1. /\ pc[w] \in {"owning", "compromised"} /\ w \notin suspended
          /\ pc' = [pc EXCEPT ![w] = "released"]
          /\ lock' = (IF lock = Mine(w) THEN None ELSE lock)
          /\ stale' = (stale /\ lock # Mine(w))
          /\ UNCHANGED <<starts, suspended, suspends, closing, lease, daemonVars>>
        BY <1>6 DEF Release, Runs
    <2>2. \A v \in Writers : Mine(v)' = Mine(v) /\ Fresh(v)' = Fresh(v)
        BY <2>1 DEF Mine, Fresh
    <2>3. TypeOK'
        BY <2>1 DEF daemonVars, TypeOK
    <2>4. \A v \in Writers : pc'[v] = IF v = w THEN "released" ELSE pc[v]
        BY <2>1 DEF TypeOK
    <2>5. \A v \in Writers : lock = Mine(w) => lock # Fresh(v)
        BY OwnerFacts
    <2>6. LockInv'
        <3>1. CASE lock = Mine(w)
            <4>1. lock' = None /\ \A v \in Writers : None # Mine(v)'
                BY <2>1, <2>2, <3>1, OwnerFacts
            <4>2. \A v \in Writers : pc'[v] # "locked"
                BY <2>4, <2>5, <3>1 DEF LockInv
            <4> QED BY <4>1, <4>2 DEF LockInv
        <3>2. CASE lock # Mine(w)
            <4>1. lock' = lock /\ (~stale => ~stale') /\ lease' = lease
                BY <2>1, <3>2
            <4> QED BY <2>2, <2>4, <3>2, <4>1 DEF LockInv
        <3> QED BY <3>1, <3>2
    <2>7. ProcessInv' /\ WriterInv' /\ BegunInv' /\ RequestInv'
        BY <2>1, <2>2, <2>4 DEF ProcessInv, WriterInv, Writes, BegunInv, Begun, RequestInv,
                daemonVars, TypeOK
    <2> QED BY <2>3, <2>6, <2>7
<1>7. ASSUME NEW w \in Writers, RemoveLease(w) PROVE LeaseInv'
    <2>1. /\ pc[w] = "released" /\ w \notin suspended
          /\ pc' = [pc EXCEPT ![w] = IF w \in closing THEN "dead" ELSE "out"]
          /\ lease' = (IF lease = Mine(w) THEN None ELSE lease)
          /\ UNCHANGED <<starts, suspended, suspends, closing, lock, stale, daemonVars>>
        BY <1>7 DEF RemoveLease, Runs
    <2>2. \A v \in Writers : Mine(v)' = Mine(v) /\ Fresh(v)' = Fresh(v)
        BY <2>1 DEF Mine, Fresh
    <2>3. TypeOK'
        BY <2>1 DEF daemonVars, TypeOK
    <2>4. \A v \in Writers : /\ v # w => pc'[v] = pc[v]
                             /\ pc'[w] \in {"dead", "out"}
        BY <2>1 DEF TypeOK
    <2>5. \A v \in Writers : v # w => Mine(v) # Mine(w)
        BY OwnerFacts
    <2>6. LockInv'
        BY <2>1, <2>2, <2>4, <2>5 DEF LockInv
    <2>7. ProcessInv' /\ WriterInv' /\ BegunInv' /\ RequestInv'
        BY <2>1, <2>2, <2>4, <2>5 DEF ProcessInv, WriterInv, Writes, BegunInv, Begun, RequestInv,
                daemonVars, TypeOK
    <2> QED BY <2>3, <2>6, <2>7
<1>8. ASSUME NEW w \in Writers, Crash(w) \/ Suspend(w) \/ Resume(w) PROVE LeaseInv'
    <2>1. /\ UNCHANGED <<starts, closing, fileVars, daemonVars>>
          /\ \/ pc' = [pc EXCEPT ![w] = "dead"] /\ suspended' = suspended \ {w}
             \/ pc' = pc /\ suspended' \subseteq suspended
             \/ pc' = pc /\ suspended' = suspended \cup {w} /\ pc[w] = "owning"
          /\ suspends' = suspends \/ (suspends' = suspends + 1 /\ suspends < MaxSuspends)
        BY <1>8 DEF Crash, Suspend, Resume
    <2>2. \A v \in Writers : Mine(v)' = Mine(v) /\ Fresh(v)' = Fresh(v)
        BY <2>1 DEF Mine, Fresh
    <2>3. TypeOK'
        BY <2>1, LeaseAssumption DEF daemonVars, fileVars, TypeOK
    <2>4. \A v \in Writers : pc'[v] \in {pc[v], "dead"} /\ (pc'[v] # pc[v] => v = w)
        BY <2>1 DEF TypeOK
    <2>5. LockInv' /\ WriterInv'
        BY <2>1, <2>2, <2>4 DEF LockInv, WriterInv, Writes, fileVars
    <2>6. ProcessInv'
        BY <2>1, <2>4 DEF ProcessInv, Writes, TypeOK
    <2>7. BegunInv' /\ RequestInv'
        BY <2>1 DEF BegunInv, Begun, RequestInv, daemonVars, fileVars
    <2> QED BY <2>3, <2>5, <2>6, <2>7
<1>9. CASE GoesStale
    <2>1. \A w \in Writers : pc[w] = "locked" => w \notin suspended /\ lock # Fresh(w)
        BY <1>9, OwnerFacts DEF GoesStale, Runs, Alive, ProcessInv
    <2> QED BY <1>9, <2>1 DEF GoesStale, processVars, daemonVars, TypeOK, ProcessInv, LockInv,
                WriterInv, BegunInv, RequestInv, Begun, Writes, Mine, Fresh
<1>10. ASSUME NEW force \in BOOLEAN, NEW hard \in BOOLEAN, Ask(force, hard) PROVE LeaseInv'
    <2>0. /\ request' = [stage |-> "asking", of |-> record, same |-> TRUE,
                         force |-> force, hard |-> hard]
          /\ requests' \in 0..MaxRequests /\ token' \in BOOLEAN
          /\ UNCHANGED <<processVars, fileVars, record, termed>>
        BY <1>10, LeaseAssumption DEF Ask, TypeOK
    <2>1. TypeOK'
        BY <2>0 DEF processVars, fileVars, TypeOK, Stages
    <2>2. BegunInv' /\ RequestInv'
        BY <1>10 DEF Ask, processVars, fileVars, BegunInv, RequestInv, Begun, TypeOK
    <2> QED BY <1>10, <2>1, <2>2 DEF Ask, processVars, fileVars, ProcessInv, LockInv,
            WriterInv, Writes, Mine, Fresh
<1>11. ASSUME request.stage # "none",
              \/ request' = Quiet /\ record' \in {record, None}
              \/ \E stage \in Stages \ {"none"} :
                    /\ request' = [request EXCEPT !.stage = stage] /\ UNCHANGED record
                    /\ stage = "signalled" => request.of \in termed',
              token' \in BOOLEAN, token' => record' \in termed', termed \subseteq termed',
              termed' \in SUBSET Owners,
              closing' \subseteq Writers,
              \/ UNCHANGED <<pc, suspended>>
              \/ \E w \in Writers :
                    pc' = [pc EXCEPT ![w] = "dead"] /\ suspended' = suspended \ {w},
              UNCHANGED <<starts, suspends, fileVars, requests>>
      PROVE  LeaseInv'
    <2>1. TypeOK'
        <3>1. request' \in [stage : Stages, of : Owners \cup {None}, same : BOOLEAN,
                            force : BOOLEAN, hard : BOOLEAN]
            <4>1. CASE request' = Quiet
                BY <4>1 DEF Quiet, Stages
            <4>2. CASE \E stage \in Stages : request' = [request EXCEPT !.stage = stage]
                BY <4>2 DEF TypeOK
            <4> QED BY <1>11, <4>1, <4>2
        <3>2. /\ pc' \in [Writers -> {"out", "looked", "locked", "owning", "compromised",
                                      "released", "dead"}]
              /\ suspended' \subseteq Writers
            BY <1>11 DEF TypeOK
        <3>3. /\ {lock, lease, record}' \subseteq Owners \cup {None}
              /\ {stale, token}' \subseteq BOOLEAN
            BY <1>11 DEF TypeOK, fileVars
        <3> QED BY <1>11, <3>1, <3>2, <3>3 DEF TypeOK
    <2>2. \A v \in Writers : Mine(v)' = Mine(v) /\ Fresh(v)' = Fresh(v)
        BY <1>11 DEF Mine, Fresh
    <2>3. \A v \in Writers : /\ pc'[v] \in {pc[v], "dead"}
                             /\ v \in suspended' => v \in suspended /\ pc'[v] = pc[v]
        BY <1>11 DEF TypeOK
    <2>4. LockInv' /\ WriterInv'
        <3>1. UNCHANGED <<lock, stale, lease>>
            BY <1>11 DEF fileVars
        <3>2. LockInv'
            BY <2>2, <2>3, <3>1 DEF LockInv
        <3>3. WriterInv'
            BY <2>2, <2>3, <3>1 DEF WriterInv, Writes
        <3> QED BY <3>2, <3>3
    <2>5. ProcessInv'
        BY <1>11, <2>1, <2>3 DEF ProcessInv, Writes, TypeOK
    <2>6. BegunInv' /\ RequestInv'
        BY <1>11 DEF BegunInv, Begun, RequestInv, fileVars, Quiet, TypeOK
    <2> QED BY <2>1, <2>4, <2>5, <2>6
<1>12. CASE OwnerAccepts \/ OwnerRefuses \/ OwnerChanged \/ ReadLeaseAgain
    <2>1. request.of \in Owners /\ request.of.by \in Writers /\ request.stage # "none"
        BY <1>12 DEF OwnerAccepts, OwnerRefuses, OwnerChanged, ReadLeaseAgain, Waits, AtStage,
                     RequestInv, Owners
    <2> QED BY <1>11, <1>12, <2>1 DEF OwnerAccepts, OwnerRefuses, OwnerChanged, ReadLeaseAgain,
                     Goes, Ends, processVars, fileVars, Stages, TypeOK, RequestInv
<1>13. CASE Released
    BY <1>11, <1>13 DEF Released, Waits, AtStage, Ends, processVars, fileVars, TypeOK
<1>14. CASE TimesOut
    <2>1. request.stage # "none"
        BY <1>14 DEF TimesOut, Waits, AtStage
    <2>2. CASE AtStage("waiting") /\ request.force
        BY <1>11, <1>14, <2>1, <2>2 DEF TimesOut, Goes, processVars, fileVars, Stages, TypeOK,
                RequestInv
    <2>3. CASE ~(AtStage("waiting") /\ request.force)
        <3>1. /\ request' = Quiet /\ UNCHANGED <<record, fileVars, requests, processVars, termed>>
              /\ token' \in BOOLEAN
              /\ token' => token \/ (request.same /\ request.stage = "signalled")
            BY <1>14, <2>3 DEF TimesOut, Ends, AtStage, TypeOK
        <3>2. token' => record' \in termed'
            BY <3>1 DEF RequestInv
        <3> QED BY <1>11, <2>1, <3>1, <3>2 DEF processVars, fileVars, TypeOK
    <2> QED BY <2>2, <2>3
<1>15. CASE Signal
    <2>1. request.of \in Owners /\ request.of.by \in Writers /\ request.stage # "none"
        BY <1>15 DEF Signal, AtStage, RequestInv, Owners
    <2>2. CASE ~Alive(request.of.by)
        BY <1>11, <1>15, <2>1, <2>2 DEF Signal, Ends, processVars, fileVars, TypeOK, RequestInv
    <2>3. CASE Alive(request.of.by)
        <3>1. /\ request' = [request EXCEPT !.stage = "signalled"] /\ UNCHANGED <<record, token>>
              /\ UNCHANGED <<starts, suspends, fileVars, requests>>
              /\ closing' \subseteq Writers
              /\ termed' = termed \cup (IF request.hard THEN {} ELSE {request.of})
            BY <1>15, <2>1, <2>3 DEF Signal, Goes, TypeOK
        <3>2. \/ UNCHANGED <<pc, suspended>>
              \/ \E w \in Writers :
                    pc' = [pc EXCEPT ![w] = "dead"] /\ suspended' = suspended \ {w}
            BY <1>15, <2>1, <2>3 DEF Signal
        <3>3. request.of \in termed' /\ (token' => record' \in termed')
            BY <2>1, <3>1 DEF RequestInv
        <3>4. "signalled" \in Stages \ {"none"}
            BY DEF Stages
        <3> QED BY <1>11, <2>1, <3>1, <3>2, <3>3, <3>4 DEF TypeOK
    <2> QED BY <2>2, <2>3
<1> QED BY <1>1, <1>2, <1>3, <1>4, <1>5, <1>6, <1>7, <1>8, <1>9, <1>10, <1>12, <1>13, <1>14, <1>15
        DEF Next, Negotiates

LEMMA LeaseAlways == Spec => []LeaseInv
BY LeaseInit, LeaseStep, PTL DEF Spec

-----------------------------------------------------------------------------
(* startSessionOwnership gives a session to one process at a time, and the *)
(* lease names it.                                                         *)
THEOREM OneWriterAlways == Spec => []OneWriter
<1>1. LeaseInv => OneWriter
    BY DEF LeaseInv, WriterInv, OneWriter
<1> QED BY <1>1, LeaseAlways, PTL

(* negotiateExternalOwnership reports a release only of a session that can *)
(* be had, and kills only what a SIGTERM did not stop.                     *)
THEOREM HandoffsAreHonest == Spec => HandoffHonest
<1>1. ASSUME LeaseInv, Released
      PROVE  /\ ~Writes(request.of.by) \/ Mine(request.of.by) # request.of
             /\ lock = request.of => stale
    <2>1. request.of \in Owners /\ request.of.by \in Writers /\ request.of # None
        BY <1>1, LeaseAssumption DEF LeaseInv, Released, Waits, AtStage, RequestInv, Owners
    <2>2. CASE lease = None
        <3>1. ~Writes(request.of.by)
            BY <1>1, <2>1, <2>2, OwnerFacts DEF LeaseInv, WriterInv
        <3>2. lock # request.of
            <4> SUFFICES ASSUME lock = request.of PROVE FALSE
                OBVIOUS
            <4>1. PICK w \in Writers : lock \in {Mine(w), Fresh(w)}
                BY <1>1, <2>1 DEF LeaseInv, LockInv
            <4>2. lock = Fresh(w)
                BY <1>1, <2>1, <2>2, <4>1 DEF LeaseInv, LockInv
            <4>3. request.of.by = w /\ request.of.id = starts[w] + 1 /\ starts[w] \in Nat
                BY <1>1, <4>2, OwnerFacts DEF LeaseInv
            <4> QED BY <1>1, <2>1, <4>3 DEF LeaseInv, BegunInv, Begun
        <3> QED BY <3>1, <3>2
    <2>3. CASE lease = request.of /\ ~Alive(request.of.by) /\ (lock = None \/ stale)
        BY <2>1, <2>3 DEF Alive, Writes
    <2> QED BY <1>1, <2>2, <2>3 DEF Released, Free
<1>2. ASSUME LeaseInv, Signal, request.hard
      PROVE  request.of \in termed
    BY <1>2 DEF LeaseInv, RequestInv, Signal, AtStage
<1>3. LeaseInv /\ [Next]_vars =>
        [/\ Released => /\ ~Writes(request.of.by) \/ Mine(request.of.by) # request.of
                        /\ lock = request.of => stale
         /\ Signal /\ request.hard => request.of \in termed]_vars
    BY <1>1, <1>2
<1> QED BY <1>3, LeaseAlways, PTL DEF Spec, HandoffHonest

-----------------------------------------------------------------------------
(* Positions in a sequence, and their ranks.                               *)
LEMMA RankType ==
    ASSUME NEW top \in Nat, NEW places \in SUBSET (1..top)
    PROVE  /\ IsFiniteSet(places) /\ Cardinality(places) \in Nat
           /\ \A i \in places : Rank(places, i) \in 1..Cardinality(places)
<1>1. IsFiniteSet(places)
    <2>1. IsFiniteSet(1..top)
        BY FS_Interval
    <2> QED
        BY <2>1, FS_Subset
<1>2. Cardinality(places) \in Nat
    BY <1>1, FS_CardinalityType
<1>3. ASSUME NEW i \in places
      PROVE  Rank(places, i) \in 1..Cardinality(places)
    <2> DEFINE below == {k \in places : k <= i}
    <2>1. below \in SUBSET places /\ i \in below
        OBVIOUS
    <2>2. IsFiniteSet(below) /\ Cardinality(below) <= Cardinality(places)
        BY <1>1, <2>1, FS_Subset
    <2>3. Cardinality(below) \in Nat
        BY <2>2, FS_CardinalityType
    <2>4. Cardinality(below) # 0
        BY <2>1, <2>2, FS_EmptySet
    <2> QED
        BY <1>2, <2>2, <2>3, <2>4 DEF Rank
<1> QED
    BY <1>1, <1>2, <1>3

LEMMA RankGrows ==
    ASSUME NEW top \in Nat, NEW places \in SUBSET (1..top),
           NEW i \in places, NEW j \in places, i < j
    PROVE  Rank(places, i) < Rank(places, j)
<1> DEFINE upto(l) == {k \in places : k <= l}
<1>1. IsFiniteSet(upto(j)) /\ Cardinality(upto(j)) \in Nat
    BY RankType, FS_Subset, FS_CardinalityType
<1>2. upto(i) \in SUBSET upto(j) /\ j \in upto(j) /\ j \notin upto(i)
    <2>1. i \in Int /\ j \in Int /\ \A k \in places : k \in Int
        OBVIOUS
    <2>2. \A k \in places : k <= i => k <= j
        BY <2>1
    <2>3. j <= j /\ ~(j <= i)
        BY <2>1
    <2> QED
        BY <2>2, <2>3
<1>3. Cardinality(upto(i)) <= Cardinality(upto(j)) /\ Cardinality(upto(i)) # Cardinality(upto(j))
    BY <1>1, <1>2, FS_Subset
<1>4. Cardinality(upto(i)) \in Nat
    BY <1>1, <1>2, FS_Subset, FS_CardinalityType
<1> HIDE DEF upto
<1>5. Cardinality(upto(i)) < Cardinality(upto(j))
    BY <1>1, <1>3, <1>4
<1> QED
    BY <1>5 DEF upto, Rank

LEMMA RankOnto ==
    ASSUME NEW top \in Nat, NEW places \in SUBSET (1..top), NEW n \in 1..Cardinality(places)
    PROVE  \E i \in places : Rank(places, i) = n
<1> DEFINE size == Cardinality(places)
           rank == [i \in places |-> Rank(places, i)]
<1>1. IsFiniteSet(places) /\ size \in Nat
    BY RankType
<1>2. rank \in [places -> 1..size]
    BY RankType
<1>3. ASSUME NEW i \in places, NEW j \in places, rank[i] = rank[j]
      PROVE  i = j
    <2>1. i \in Int /\ j \in Int
        OBVIOUS
    <2>2. Rank(places, i) = Rank(places, j)
        BY <1>3
    <2>3. Rank(places, i) \in Int /\ Rank(places, j) \in Int
        BY <1>1, <1>2
    <2>4. i < j => Rank(places, i) < Rank(places, j)
        BY RankGrows
    <2>5. j < i => Rank(places, j) < Rank(places, i)
        BY RankGrows
    <2> QED
        BY <2>1, <2>2, <2>3, <2>4, <2>5
<1>4. rank \in Injection(places, 1..size)
    BY <1>2, <1>3 DEF Injection, IsInjective
<1>5. IsFiniteSet(1..size) /\ Cardinality(1..size) = size
    BY <1>1, FS_Interval
<1>6. rank \in Surjection(places, 1..size)
    BY <1>4, <1>5, FS_Injection
<1> QED
    BY <1>6 DEF Surjection

(* What is picked at these positions.                                      *)
LEMMA PickedAt ==
    ASSUME NEW s, NEW top \in Nat, NEW places \in SUBSET (1..top), NEW i \in places
    PROVE  Picked(s, places)[Rank(places, i)] = s[i]
<1> DEFINE r == Rank(places, i)
           at == CHOOSE j \in places : Rank(places, j) = r
<1>1. r \in 1..Cardinality(places)
    BY RankType
<1>2. at \in places /\ Rank(places, at) = r
    OBVIOUS
<1> HIDE DEF at
<1>3. at < i => Rank(places, at) < r
    BY <1>2, RankGrows
<1>4. i < at => r < Rank(places, at)
    BY <1>2, RankGrows
<1>5. at = i
    <2>1. at \in Int /\ i \in Int
        BY <1>2
    <2> QED
        BY <2>1, <1>1, <1>2, <1>3, <1>4
<1> QED
    BY <1>1, <1>5 DEF Picked, at

LEMMA PickedFrom ==
    ASSUME NEW s, NEW top \in Nat, NEW places \in SUBSET (1..top), NEW n \in 1..Cardinality(places)
    PROVE  \E i \in places : Rank(places, i) = n /\ Picked(s, places)[n] = s[i]
<1>1. PICK i \in places : Rank(places, i) = n
    BY RankOnto
<1>2. Picked(s, places)[Rank(places, i)] = s[i]
    BY PickedAt
<1> QED
    BY <1>1, <1>2

LEMMA PickedIsSeq ==
    ASSUME NEW S, NEW s, NEW top \in Nat, NEW places \in SUBSET (1..top), \A i \in places : s[i] \in S
    PROVE  /\ Picked(s, places) \in Seq(S)
           /\ Len(Picked(s, places)) = Cardinality(places)
<1>1. Cardinality(places) \in Nat
    BY RankType
<1>2. ASSUME NEW n \in 1..Cardinality(places)
      PROVE  Picked(s, places)[n] \in S
    <2>1. \E i \in places : Rank(places, i) = n /\ Picked(s, places)[n] = s[i]
        BY PickedFrom
    <2> QED
        BY <2>1
<1>3. Picked(s, places) \in [1..Cardinality(places) -> S]
    BY <1>2 DEF Picked
<1> QED
    BY <1>1, <1>3

LEMMA PickedInOrder ==
    ASSUME NEW s, NEW top \in Nat, NEW places \in SUBSET (1..top),
           \A i, j \in places : i < j => s[i].id < s[j].id
    PROVE  \A n, l \in 1..Cardinality(places) :
               n < l => Picked(s, places)[n].id < Picked(s, places)[l].id
<1> SUFFICES ASSUME NEW n \in 1..Cardinality(places), NEW l \in 1..Cardinality(places), n < l
             PROVE  Picked(s, places)[n].id < Picked(s, places)[l].id
    OBVIOUS
<1>1. PICK i \in places : Rank(places, i) = n /\ Picked(s, places)[n] = s[i]
    BY PickedFrom
<1>2. PICK j \in places : Rank(places, j) = l /\ Picked(s, places)[l] = s[j]
    BY PickedFrom
<1>3. n \in Int /\ l \in Int /\ i \in Int /\ j \in Int
    BY RankType
<1>4. i # j
    BY <1>1, <1>2, <1>3
<1>5. ~(j < i)
    <2>1. j < i => Rank(places, j) < Rank(places, i)
        BY RankGrows
    <2> QED
        BY <2>1, <1>1, <1>2, <1>3
<1>6. i < j
    BY <1>3, <1>4, <1>5
<1>7. s[i].id < s[j].id
    BY <1>6
<1> QED
    BY <1>1, <1>2, <1>7

(* A stretch of a sequence is picked as it is.                             *)
LEMMA PickedStretch ==
    ASSUME NEW S, NEW es \in Seq(S), NEW s, \A i \in 1..Len(es) : s[i + 1] = es[i]
    PROVE  Picked(s, 2..Len(es) + 1) = es
<1> DEFINE places == 2..Len(es) + 1
<1> Len(es) \in Nat
    OBVIOUS
<1>1. Cardinality(places) = Len(es)
    <2>1. Cardinality(places) = IF 2 > Len(es) + 1 THEN 0 ELSE (Len(es) + 1) - 2 + 1
        BY FS_Interval
    <2> QED
        BY <2>1
<1>2. ASSUME NEW n \in 1..Len(es)
      PROVE  Rank(places, n + 1) = n
    <2>1. {k \in places : k <= n + 1} = 2..n + 1
        OBVIOUS
    <2>2. Cardinality(2..n + 1) = n
        BY FS_Interval
    <2> QED
        BY <2>1, <2>2 DEF Rank
<1>3. places \in SUBSET (1..Len(es) + 1) /\ Len(es) + 1 \in Nat
    OBVIOUS
<1>4. ASSUME NEW n \in 1..Len(es)
      PROVE  Picked(s, places)[n] = es[n]
    <2>1. n + 1 \in places
        OBVIOUS
    <2> HIDE DEF places
    <2>2. Picked(s, places)[Rank(places, n + 1)] = s[n + 1]
        BY <1>3, <2>1, PickedAt
    <2> QED
        BY <2>2, <1>2
<1>5. \A i \in places : s[i] \in S
    <2> SUFFICES ASSUME NEW i \in places PROVE s[i] \in S
        OBVIOUS
    <2>1. i - 1 \in 1..Len(es) /\ (i - 1) + 1 = i
        OBVIOUS
    <2>2. s[(i - 1) + 1] = es[i - 1]
        BY <2>1
    <2> QED
        BY <2>1, <2>2
<1> HIDE DEF places
<1>6. Picked(s, places) \in Seq(S) /\ Len(Picked(s, places)) = Len(es)
    <2> DEFINE top == Len(es) + 1
    <2>1. top \in Nat /\ places \in SUBSET (1..top)
        BY <1>3
    <2> HIDE DEF top
    <2>2. Picked(s, places) \in Seq(S) /\ Len(Picked(s, places)) = Cardinality(places)
        BY <2>1, <1>5, PickedIsSeq
    <2> QED
        BY <1>1, <2>2
<1>7. Picked(s, places) = es
    BY <1>4, <1>6, SeqEqual
<1> QED
    BY <1>7 DEF places

-----------------------------------------------------------------------------
(* Entries in the order they were made in, up to a number.                 *)
Ordered(es, most) ==
    /\ es \in Seq(Entries)
    /\ \A i, j \in 1..Len(es) : i < j => es[i].id < es[j].id
    /\ \A i \in 1..Len(es) : es[i].id <= most

(* Lines of a file: a header is first, and the entries are in order.       *)
LinesOk(ls, most) ==
    /\ ls \in Seq(Lines)
    /\ \A i \in 1..Len(ls) : ls[i] = Header => i = 1
    /\ \A i, j \in 1..Len(ls) :
           i < j /\ ls[i] \in Entries /\ ls[j] \in Entries => ls[i].id < ls[j].id
    /\ \A i \in 1..Len(ls) : ls[i] \in Entries => ls[i].id <= most

(* The entries of these lines.                                             *)
LineIds(ls) == {l.id : l \in Range(ls) \cap Entries}

HeaderFirst(ls) == ls # <<>> /\ ls[1] = Header

(* Every parent is there, before its children.                             *)
ParentFirst(es) ==
    \A i \in 1..Len(es) : es[i].parent = 0 \/ \E j \in 1..i - 1 : es[j].id = es[i].parent

(* The lines are these entries, and perhaps a part of a line.              *)
Holds(ls, half, es) ==
    /\ Len(ls) = Len(es) + 1 \/ (half /\ Len(ls) = Len(es) + 2 /\ ls[Len(es) + 2] = Junk)
    /\ ls[1] = Header
    /\ \A i \in 1..Len(es) : ls[i + 1] = es[i]

LEMMA LineKinds ==
    /\ Header \notin Entries /\ Junk \notin Entries /\ Header # Junk
    /\ Header.id = 0 /\ Junk.id = -1
    /\ Lines = Entries \cup {Header, Junk}
    /\ \A e \in Entries : e.id \in 1..MaxEntries /\ e.parent \in 0..MaxEntries /\ e.kind \in Kinds
BY DEF Header, Junk, Entries, Kinds, Lines

LEMMA IdsAre ==
    ASSUME NEW S, NEW es \in Seq(S)
    PROVE  Ids(es) = {es[i].id : i \in 1..Len(es)}
BY DEF Ids, Range

LEMMA LineIdsAre ==
    ASSUME NEW ls \in Seq(Lines)
    PROVE  \A n : n \in LineIds(ls) <=> \E i \in 1..Len(ls) : ls[i] \in Entries /\ ls[i].id = n
BY DEF LineIds, Range

LEMMA MoreMade ==
    ASSUME NEW most \in Int, NEW more \in Int, most <= more
    PROVE  /\ \A es : Ordered(es, most) => Ordered(es, more)
           /\ \A ls : LinesOk(ls, most) => LinesOk(ls, more)
<1>1. \A e \in Entries : e.id \in Int
    BY LineKinds
<1>2. ASSUME NEW es, Ordered(es, most)
      PROVE  Ordered(es, more)
    <2>1. \A i \in 1..Len(es) : es[i] \in Entries
        BY <1>2 DEF Ordered
    <2> QED
        BY <1>1, <1>2, <2>1 DEF Ordered
<1>3. ASSUME NEW ls, LinesOk(ls, most)
      PROVE  LinesOk(ls, more)
    BY <1>1, <1>3 DEF LinesOk
<1> QED
    BY <1>2, <1>3

LEMMA EmptyOk ==
    ASSUME NEW most \in Int
    PROVE  Ordered(<<>>, most) /\ LinesOk(<<>>, most) /\ LinesOk(<<Header>>, most)
<1>1. Ordered(<<>>, most) /\ LinesOk(<<>>, most)
    BY DEF Ordered, LinesOk
<1>2. <<Header>> \in Seq(Lines) /\ Len(<<Header>>) = 1 /\ <<Header>>[1] = Header
    BY LineKinds
<1> QED
    BY <1>1, <1>2, LineKinds DEF LinesOk

(* A line at the end.                                                      *)
LEMMA LinesAndJunk ==
    ASSUME NEW most \in Int, NEW ls, LinesOk(ls, most)
    PROVE  LinesOk(Append(ls, Junk), most) /\ LineIds(ls) \subseteq LineIds(Append(ls, Junk))
<1> DEFINE new == Append(ls, Junk)
<1>1. ls \in Seq(Lines) /\ Len(ls) \in Nat /\ Junk \in Lines
    BY LineKinds DEF LinesOk
<1>2. new \in Seq(Lines) /\ Len(new) = Len(ls) + 1 /\ new[Len(ls) + 1] = Junk
    BY <1>1
<1>3. \A i \in 1..Len(ls) : new[i] = ls[i]
    BY <1>1
<1> HIDE DEF new
<1>4. \A i \in 1..Len(new) : i \in 1..Len(ls) \/ i = Len(ls) + 1
    BY <1>1, <1>2
<1>5. \A i \in 1..Len(ls) : i \in 1..Len(new)
    BY <1>1, <1>2
<1>6. LinesOk(new, most)
    BY <1>2, <1>3, <1>4, LineKinds DEF LinesOk
<1>7. LineIds(ls) \subseteq LineIds(new)
    BY <1>1, <1>2, <1>3, <1>5, LineIdsAre
<1> QED
    BY <1>6, <1>7 DEF new

LEMMA LinesAndEntry ==
    ASSUME NEW most \in Nat, NEW ls, LinesOk(ls, most), NEW e \in Entries, e.id = most + 1
    PROVE  LinesOk(Append(ls, e), most + 1) /\ LineIds(ls) \cup {e.id} \subseteq LineIds(Append(ls, e))
<1> DEFINE new == Append(ls, e)
<1>1. ls \in Seq(Lines) /\ Len(ls) \in Nat /\ e \in Lines
    BY LineKinds DEF LinesOk
<1>2. new \in Seq(Lines) /\ Len(new) = Len(ls) + 1 /\ new[Len(ls) + 1] = e
    BY <1>1
<1>3. \A i \in 1..Len(ls) : new[i] = ls[i]
    BY <1>1
<1> HIDE DEF new
<1>4. \A i \in 1..Len(new) : i \in 1..Len(ls) \/ i = Len(ls) + 1
    BY <1>1, <1>2
<1>5. \A i \in 1..Len(ls) : i \in 1..Len(new)
    BY <1>1, <1>2
<1>6. \A i \in 1..Len(new) : new[i] = Header => i = 1
    BY <1>2, <1>3, <1>4, LineKinds DEF LinesOk
<1>7. \A i \in 1..Len(ls) : ls[i] \in Entries => ls[i].id <= most /\ ls[i].id \in Int
    BY LineKinds DEF LinesOk
<1>8. \A i \in 1..Len(new) : new[i] \in Entries => new[i].id <= most + 1
    BY <1>3, <1>4, <1>2, <1>7
<1>9. ASSUME NEW i \in 1..Len(new), NEW j \in 1..Len(new), i < j, new[i] \in Entries, new[j] \in Entries
      PROVE  new[i].id < new[j].id
    <2>1. i \in 1..Len(ls)
        BY <1>1, <1>2, <1>9
    <2>2. CASE j \in 1..Len(ls)
        BY <1>3, <1>9, <2>1, <2>2 DEF LinesOk
    <2>3. CASE j = Len(ls) + 1
        BY <1>2, <1>3, <1>7, <1>9, <2>1, <2>3
    <2> QED
        BY <1>4, <2>2, <2>3
<1>10. LinesOk(new, most + 1)
    BY <1>2, <1>6, <1>8, <1>9 DEF LinesOk
<1>11. Len(new) \in 1..Len(new)
    BY <1>1, <1>2
<1>12. LineIds(ls) \cup {e.id} \subseteq LineIds(new)
    <2>1. LineIds(ls) \subseteq LineIds(new)
        BY <1>1, <1>2, <1>3, <1>5, LineIdsAre
    <2>2. e.id \in LineIds(new)
        BY <1>2, <1>11, LineIdsAre
    <2> QED
        BY <2>1, <2>2
<1> QED
    BY <1>10, <1>12 DEF new

LEMMA FrontIsSeq ==
    ASSUME NEW most \in Int, NEW ls, LinesOk(ls, most), ls # <<>>
    PROVE  /\ Front(ls) \in Seq(Lines) /\ Len(Front(ls)) = Len(ls) - 1
           /\ \A i \in 1..Len(ls) - 1 : Front(ls)[i] = ls[i]
<1> DEFINE k == Len(ls) - 1
<1>1. k \in Nat /\ \A i \in 1..k : ls[i] \in Lines
    BY DEF LinesOk
<1>2. Front(ls) = SubSeq(ls, 1, k)
    BY DEF Front
<1> HIDE DEF k
<1>3. /\ SubSeq(ls, 1, k) \in Seq(Lines)
      /\ Len(SubSeq(ls, 1, k)) = k
      /\ \A i \in 1..k : SubSeq(ls, 1, k)[i] = ls[i]
    BY <1>1
<1> QED
    BY <1>2, <1>3 DEF k

(* The last line, made part of one that is not JSON.                       *)
LEMMA LinesTorn ==
    ASSUME NEW most \in Int, NEW ls, LinesOk(ls, most), ls # <<>>
    PROVE  /\ LinesOk(Front(ls) \o <<Junk>>, most)
           /\ LineIds(ls) \subseteq LineIds(Front(ls) \o <<Junk>>) \cup ({Last(ls).id} \ {0, -1})
           /\ HeaderFirst(ls) /\ ls # <<Header>> => HeaderFirst(Front(ls) \o <<Junk>>)
<1> DEFINE new == Front(ls) \o <<Junk>>
<1>1. ls \in Seq(Lines) /\ Len(ls) \in Nat /\ Junk \in Lines /\ Len(ls) >= 1
    BY LineKinds DEF LinesOk
<1>2. Front(ls) \in Seq(Lines) /\ Len(Front(ls)) = Len(ls) - 1 /\ \A i \in 1..Len(ls) - 1 : Front(ls)[i] = ls[i]
    BY FrontIsSeq
<1>3. new \in Seq(Lines) /\ Len(new) = Len(ls) /\ new[Len(ls)] = Junk
    BY <1>1, <1>2
<1>4. \A i \in 1..Len(ls) : i # Len(ls) => new[i] = ls[i]
    BY <1>1, <1>2
<1>5. Last(ls) = ls[Len(ls)]
    BY DEF Last
<1> HIDE DEF new
<1>6. LinesOk(new, most)
    BY <1>3, <1>4, LineKinds DEF LinesOk
<1>7. LineIds(ls) \subseteq LineIds(new) \cup ({Last(ls).id} \ {0, -1})
    <2> SUFFICES ASSUME NEW n \in LineIds(ls), n \notin LineIds(new)
                 PROVE  n \in {Last(ls).id} \ {0, -1}
        OBVIOUS
    <2>1. PICK i \in 1..Len(ls) : ls[i] \in Entries /\ ls[i].id = n
        BY <1>1, LineIdsAre
    <2>2. i = Len(ls)
        BY <1>3, <1>4, <2>1, LineIdsAre
    <2>3. n \in 1..MaxEntries
        BY <2>1, LineKinds
    <2>4. n # 0 /\ n # -1
        BY <2>3
    <2> QED
        BY <1>5, <2>1, <2>2, <2>4
<1>8. ASSUME HeaderFirst(ls), ls # <<Header>>
      PROVE  HeaderFirst(new)
    <2>1. Len(ls) # 1
        <3> SUFFICES ASSUME Len(ls) = 1 PROVE FALSE
            OBVIOUS
        <3>1. <<Header>> \in Seq(Lines) /\ Len(<<Header>>) = 1 /\ <<Header>>[1] = Header
            BY LineKinds
        <3>2. ls = <<Header>>
            BY <1>1, <1>8, <3>1, SeqEqual DEF HeaderFirst
        <3> QED
            BY <1>8, <3>2
    <2>2. new[1] = ls[1]
        <3>1. 1 \in 1..Len(ls) /\ 1 # Len(ls)
            BY <1>1, <2>1
        <3> QED
            BY <1>4, <3>1
    <2>3. new # <<>>
        BY <1>1, <1>3
    <2> QED
        BY <1>8, <2>2, <2>3 DEF HeaderFirst
<1> QED
    BY <1>6, <1>7, <1>8 DEF new

(* The first lines of some.                                                *)
LEMMA LinesFirst ==
    ASSUME NEW most \in Int, NEW ls, LinesOk(ls, most), NEW n \in 0..Len(ls)
    PROVE  /\ LinesOk(SubSeq(ls, 1, n), most)
           /\ Len(SubSeq(ls, 1, n)) = n /\ \A i \in 1..n : SubSeq(ls, 1, n)[i] = ls[i]
<1> DEFINE new == SubSeq(ls, 1, n)
<1>1. ls \in Seq(Lines) /\ Len(ls) \in Nat
    BY DEF LinesOk
<1>2. new \in Seq(Lines) /\ Len(new) = n /\ \A i \in 1..n : new[i] = ls[i]
    BY <1>1
<1> HIDE DEF new
<1>3. \A i \in 1..n : i \in 1..Len(ls)
    BY <1>1
<1>4. LinesOk(new, most)
    BY <1>2, <1>3 DEF LinesOk
<1> QED
    BY <1>2, <1>4 DEF new

(* A file that is written as a whole.                                      *)
LEMMA LinesWhole ==
    ASSUME NEW most \in Int, NEW es, Ordered(es, most)
    PROVE  /\ LinesOk(<<Header>> \o es, most)
           /\ LineIds(<<Header>> \o es) = Ids(es)
           /\ HeaderFirst(<<Header>> \o es)
           /\ \A half : Holds(<<Header>> \o es, half, es)
           /\ Len(<<Header>> \o es) = Len(es) + 1
<1> DEFINE new == <<Header>> \o es
<1>1. es \in Seq(Entries) /\ es \in Seq(Lines) /\ Len(es) \in Nat /\ <<Header>> \in Seq(Lines)
    BY LineKinds DEF Ordered
<1>2. new \in Seq(Lines) /\ Len(new) = Len(es) + 1 /\ new[1] = Header /\ \A i \in 1..Len(es) : new[i + 1] = es[i]
    BY <1>1
<1>3. \A i \in 1..Len(new) : i = 1 \/ (i - 1 \in 1..Len(es) /\ new[i] = es[i - 1])
    BY <1>1
<1>4. \A i \in 1..Len(es) : es[i] \in Entries /\ es[i].id \in Int
    BY <1>1, LineKinds
<1> HIDE DEF new
<1>5. \A i \in 1..Len(new) : new[i] = Header => i = 1
    BY <1>3, <1>4, LineKinds
<1>6. ASSUME NEW i \in 1..Len(new), NEW j \in 1..Len(new), i < j, new[i] \in Entries, new[j] \in Entries
      PROVE  new[i].id < new[j].id
    <2>1. i # 1 /\ j # 1
        BY <1>2, <1>6, LineKinds
    <2>2. i - 1 \in 1..Len(es) /\ new[i] = es[i - 1] /\ j - 1 \in 1..Len(es) /\ new[j] = es[j - 1]
        BY <1>3, <2>1
    <2>3. i - 1 < j - 1
        BY <1>6
    <2> QED
        BY <2>2, <2>3 DEF Ordered
<1>7. \A i \in 1..Len(new) : new[i] \in Entries => new[i].id <= most
    BY <1>2, <1>3, LineKinds DEF Ordered
<1>8. LinesOk(new, most)
    BY <1>2, <1>5, <1>6, <1>7 DEF LinesOk
<1>9. LineIds(new) = Ids(es)
    <2>1. \A i \in 1..Len(es) : i + 1 \in 1..Len(new)
        BY <1>1, <1>2
    <2>2. \A n : n \in LineIds(new) <=> \E i \in 1..Len(new) : new[i] \in Entries /\ new[i].id = n
        BY <1>2, LineIdsAre
    <2>3. Ids(es) = {es[i].id : i \in 1..Len(es)}
        BY <1>1, IdsAre
    <2>4. ASSUME NEW n \in LineIds(new)
          PROVE  n \in Ids(es)
        <3>1. PICK i \in 1..Len(new) : new[i] \in Entries /\ new[i].id = n
            BY <2>2
        <3>2. i # 1
            BY <1>2, <3>1, LineKinds
        <3>3. i - 1 \in 1..Len(es) /\ new[i] = es[i - 1]
            BY <1>3, <3>2
        <3> QED
            BY <2>3, <3>1, <3>3
    <2>5. Ids(es) \subseteq LineIds(new)
        BY <1>2, <1>4, <2>1, <2>2, <2>3
    <2> QED
        BY <2>4, <2>5
<1>10. HeaderFirst(new) /\ \A half : Holds(new, half, es)
    BY <1>1, <1>2 DEF HeaderFirst, Holds
<1> QED
    BY <1>2, <1>8, <1>9, <1>10 DEF new

LEMMA FirstEntries ==
    ASSUME NEW most \in Int, NEW es, Ordered(es, most), ParentFirst(es), NEW k \in 0..Len(es)
    PROVE  /\ Ordered(SubSeq(es, 1, k), most) /\ ParentFirst(SubSeq(es, 1, k))
           /\ Len(SubSeq(es, 1, k)) = k /\ \A i \in 1..k : SubSeq(es, 1, k)[i] = es[i]
<1> DEFINE new == SubSeq(es, 1, k)
<1>1. es \in Seq(Entries) /\ Len(es) \in Nat
    BY DEF Ordered
<1>2. new \in Seq(Entries) /\ Len(new) = k /\ \A i \in 1..k : new[i] = es[i]
    BY <1>1
<1> HIDE DEF new
<1>3. \A i \in 1..k : i \in 1..Len(es) /\ \A j \in 1..i - 1 : j \in 1..k
    BY <1>1
<1>4. Ordered(new, most)
    BY <1>2, <1>3 DEF Ordered
<1>5. ParentFirst(new)
    BY <1>2, <1>3 DEF ParentFirst
<1> QED
    BY <1>2, <1>4, <1>5 DEF new

(* A write of lines that broke off.                                        *)
LEMMA LinesBroken ==
    ASSUME NEW most \in Int, NEW text, LinesOk(text, most), NEW n \in 0..Len(text) - 1, NEW part \in Parts
    PROVE  LinesOk(Broken(text, n, part), most)
<1> DEFINE whole == SubSeq(text, 1, n)
<1>1. text \in Seq(Lines) /\ Len(text) \in Nat /\ n \in 0..Len(text) /\ n + 1 \in 0..Len(text) /\ n \in Nat
    BY DEF LinesOk
<1>2. LinesOk(whole, most) /\ Len(whole) = n /\ \A i \in 1..n : whole[i] = text[i]
    BY <1>1, LinesFirst
<1>3. CASE part = "none"
    BY <1>2, <1>3 DEF Broken
<1>4. CASE part = "half"
    <2>1. LinesOk(Append(whole, Junk), most)
        BY <1>2, LinesAndJunk
    <2> QED
        BY <2>1, <1>4 DEF Broken
<1>5. CASE part = "line"
    <2> DEFINE more == SubSeq(text, 1, n + 1)
    <2>1. LinesOk(more, most) /\ Len(more) = n + 1 /\ \A i \in 1..n + 1 : more[i] = text[i]
        BY <1>1, LinesFirst
    <2>2. Append(whole, text[n + 1]) \in Seq(Lines)
        <3>1. text[n + 1] \in Lines
            BY <1>1
        <3>2. whole \in Seq(Lines)
            BY <1>2 DEF LinesOk
        <3> QED
            BY <3>1, <3>2
    <2>3. more \in Seq(Lines) /\ whole \in Seq(Lines)
        BY <1>2, <2>1 DEF LinesOk
    <2> HIDE DEF whole, more
    <2>4. Append(whole, text[n + 1]) = more
        <3>1. Len(Append(whole, text[n + 1])) = n + 1
            BY <1>2, <2>3
        <3>2. \A i \in 1..n + 1 : Append(whole, text[n + 1])[i] = text[i]
            <4> SUFFICES ASSUME NEW i \in 1..n + 1
                         PROVE  Append(whole, text[n + 1])[i] = text[i]
                OBVIOUS
            <4>1. CASE i = n + 1
                BY <1>1, <1>2, <2>3, <4>1
            <4>2. CASE i \in 1..n
                BY <1>1, <1>2, <2>3, <4>2
            <4>3. i = n + 1 \/ i \in 1..n
                BY <1>1
            <4> QED
                BY <4>1, <4>2, <4>3
        <3> QED
            BY <2>1, <2>2, <2>3, <3>1, <3>2, SeqEqual
    <2> QED
        BY <2>1, <2>4, <1>5 DEF Broken, whole
<1> QED
    BY <1>3, <1>4, <1>5 DEF Parts

LEMMA BrokenSome ==
    ASSUME NEW most \in Int, NEW text, LinesOk(text, most), NEW n \in 0..Len(text) - 1, NEW part \in Parts
    PROVE  part # "none" => Broken(text, n, part) # <<>>
<1> DEFINE whole == SubSeq(text, 1, n)
<1>1. text \in Seq(Lines) /\ Len(text) \in Nat /\ n \in 0..Len(text) /\ n + 1 \in 1..Len(text)
    BY DEF LinesOk
<1>2. whole \in Seq(Lines) /\ text[n + 1] \in Lines /\ Junk \in Lines
    BY <1>1, LinesFirst, LineKinds DEF LinesOk
<1>3. \A l \in Lines : Append(whole, l) # <<>>
    BY <1>2
<1>4. part = "half" => Broken(text, n, part) = Append(whole, Junk)
    BY DEF Broken
<1>5. part = "line" => Broken(text, n, part) = Append(whole, text[n + 1])
    BY DEF Broken
<1> QED
    BY <1>2, <1>3, <1>4, <1>5 DEF Parts

LEMMA WholeBroken ==
    ASSUME NEW most \in Int, NEW es, Ordered(es, most),
           NEW n \in 0..Len(es), NEW part \in Parts
    PROVE  \/ Broken(<<Header>> \o es, n, part) \in {<<>>, <<Junk>>}
           \/ \E k \in 0..Len(es) : Holds(Broken(<<Header>> \o es, n, part), part # "none", SubSeq(es, 1, k))
<1> DEFINE text == <<Header>> \o es
           whole == SubSeq(text, 1, n)
           first(k) == SubSeq(es, 1, k)
<1>1. es \in Seq(Entries) /\ es \in Seq(Lines) /\ Len(es) \in Nat /\ n \in Nat /\ <<Header>> \in Seq(Lines)
    BY LineKinds DEF Ordered
<1>2. /\ text \in Seq(Lines) /\ Len(text) = Len(es) + 1 /\ text[1] = Header
      /\ \A i \in 1..Len(es) : text[i + 1] = es[i]
    BY <1>1
<1>3. ASSUME NEW k \in 0..Len(es)
      PROVE  Len(first(k)) = k /\ \A i \in 1..k : first(k)[i] = es[i]
    BY <1>1
<1> HIDE DEF text
<1>4. whole \in Seq(Lines) /\ Len(whole) = n /\ \A i \in 1..n : whole[i] = text[i]
    BY <1>1, <1>2
<1> HIDE DEF whole, first
<1>5. CASE n = 0
    <2>1. whole = <<>>
        BY <1>4, <1>5
    <2> \A x : Append(<<>>, x) = <<x>>
        OBVIOUS
    <2>2. part = "none" => Broken(text, n, part) = <<>>
        BY <2>1 DEF Broken, whole
    <2>3. part = "half" => Broken(text, n, part) = <<Junk>>
        BY <2>1 DEF Broken, whole
    <2>4. part = "line" => Broken(text, n, part) = <<Header>>
        <3>1. part = "line" => Broken(text, n, part) = Append(whole, text[n + 1])
            BY DEF Broken, whole
        <3>2. n + 1 = 1
            BY <1>5
        <3> QED
            BY <1>2, <2>1, <3>1, <3>2
    <2>5. 0 \in 0..Len(es) /\ Holds(<<Header>>, part # "none", first(0))
        BY <1>1, <1>3 DEF Holds
    <2> QED
        BY <2>2, <2>3, <2>4, <2>5 DEF Parts, text, first
<1>6. CASE n >= 1
    <2> DEFINE got == Broken(text, n, part)
    <2>1. n - 1 \in 0..Len(es) /\ n \in 0..Len(es)
        BY <1>1, <1>6
    <2>2. /\ whole[1] = Header
          /\ \A i \in 1..n - 1 : whole[i + 1] = es[i]
        <3>1. \A i \in 1..n - 1 : i + 1 \in 1..n /\ i \in 1..Len(es)
            BY <1>1
        <3>2. 1 \in 1..n
            BY <1>6
        <3> QED
            BY <1>2, <1>4, <3>1, <3>2
    <2>3. CASE part = "none"
        <3>1. got = whole
            BY <2>3 DEF Broken, whole
        <3>2. Holds(whole, FALSE, first(n - 1))
            BY <1>1, <1>3, <1>4, <2>1, <2>2 DEF Holds
        <3> QED
            BY <2>1, <2>3, <3>1, <3>2 DEF text, first
    <2>4. CASE part = "half"
        <3>1. got = Append(whole, Junk)
            BY <2>4 DEF Broken, whole
        <3>2. /\ Len(Append(whole, Junk)) = n + 1 /\ Append(whole, Junk)[n + 1] = Junk
              /\ \A i \in 1..n : Append(whole, Junk)[i] = whole[i]
            BY <1>1, <1>4
        <3>3. \A i \in 1..n - 1 : i + 1 \in 1..n /\ 1 \in 1..n
            BY <1>1, <1>6
        <3>4. 1 \in 1..n
            BY <1>6
        <3>5. Len(first(n - 1)) = n - 1 /\ \A i \in 1..n - 1 : first(n - 1)[i] = es[i]
            BY <1>3, <2>1
        <3>6. Holds(Append(whole, Junk), TRUE, first(n - 1))
            BY <1>1, <2>2, <3>2, <3>3, <3>4, <3>5 DEF Holds
        <3> QED
            BY <2>1, <2>4, <3>1, <3>6 DEF text, first
    <2>5. CASE part = "line"
        <3>1. got = Append(whole, text[n + 1]) /\ n \in 1..Len(es)
            BY <2>5, <1>6 DEF Broken, whole
        <3>2. text[n + 1] = es[n]
            BY <1>2, <3>1
        <3>3. /\ Len(got) = n + 1 /\ got[n + 1] = es[n]
              /\ \A i \in 1..n : got[i] = whole[i]
            BY <1>1, <1>4, <3>1, <3>2
        <3> HIDE DEF got
        <3>4. \A i \in 1..n - 1 : i + 1 \in 1..n
            BY <1>1, <1>6
        <3>5. 1 \in 1..n
            BY <1>6
        <3>6. Len(first(n)) = n /\ \A i \in 1..n : first(n)[i] = es[i]
            BY <1>3, <2>1
        <3>7. \A i \in 1..n : got[i + 1] = es[i]
            <4> SUFFICES ASSUME NEW i \in 1..n PROVE got[i + 1] = es[i]
                OBVIOUS
            <4>1. CASE i = n
                BY <3>3, <4>1
            <4>2. CASE i \in 1..n - 1
                BY <2>2, <3>3, <3>4, <4>2
            <4> QED
                BY <1>1, <4>1, <4>2
        <3>8. Holds(got, part # "none", first(n))
            BY <2>2, <3>3, <3>5, <3>6, <3>7 DEF Holds
        <3> QED
            BY <2>1, <3>8 DEF got, text, first
    <2> QED
        BY <2>3, <2>4, <2>5 DEF Parts
<1> QED
    BY <1>1, <1>5, <1>6

-----------------------------------------------------------------------------
(* What is read of a file.                                                 *)

LEMMA SessionHasHeader ==
    ASSUME NEW most \in Int, NEW ls, LinesOk(ls, most)
    PROVE  /\ IsSession(ls) => HeaderFirst(ls)
           /\ HeaderFirst(ls) => IsSession(ls)
<1>1. ls \in Seq(Lines) /\ Len(ls) \in Nat /\ DOMAIN ls = 1..Len(ls)
    BY DEF LinesOk
<1>2. ASSUME IsSession(ls) PROVE HeaderFirst(ls)
    <2>1. PICK i \in 1..Len(ls) : ls[i] = Header
        BY <1>1, <1>2 DEF IsSession
    <2>2. i = 1
        BY <2>1 DEF LinesOk
    <2> QED
        BY <1>1, <2>1, <2>2 DEF HeaderFirst
<1>3. ASSUME HeaderFirst(ls) PROVE IsSession(ls)
    <2>1. 1 \in 1..Len(ls) /\ ls[1] = Header
        BY <1>1, <1>3 DEF HeaderFirst
    <2>2. \A j \in 1..1 - 1 : ls[j] = Junk
        OBVIOUS
    <2> QED
        BY <1>1, <2>1, <2>2 DEF IsSession
<1> QED
    BY <1>2, <1>3

LEMMA ParsedAre ==
    ASSUME NEW ls \in Seq(Lines)
    PROVE  /\ Parsed(ls) \in SUBSET (1..Len(ls)) /\ Len(ls) \in Nat
           /\ Parsed(ls) = {i \in 1..Len(ls) : ls[i] \in Entries}
<1>1. Len(ls) \in Nat /\ DOMAIN ls = 1..Len(ls) /\ \A i \in 1..Len(ls) : ls[i] \in Lines
    OBVIOUS
<1>2. \A l \in Lines : l \notin {Header, Junk} <=> l \in Entries
    BY LineKinds
<1> QED
    BY <1>1, <1>2 DEF Parsed

LEMMA LoadedOrdered ==
    ASSUME NEW most \in Int, NEW ls, LinesOk(ls, most)
    PROVE  Ordered(Loaded(ls), most)
<1> DEFINE places == Parsed(ls)
           es == Picked(ls, places)
<1>1. ls \in Seq(Lines) /\ Len(ls) \in Nat
    BY DEF LinesOk
<1>2. places \in SUBSET (1..Len(ls)) /\ \A i \in places : i \in 1..Len(ls) /\ ls[i] \in Entries
    BY <1>1, ParsedAre
<1> HIDE DEF places
<1>3. es \in Seq(Entries) /\ Len(es) = Cardinality(places)
    BY <1>1, <1>2, PickedIsSeq
<1>4. \A n, l \in 1..Len(es) : n < l => es[n].id < es[l].id
    <2>1. \A i, j \in places : i < j => ls[i].id < ls[j].id
        BY <1>2 DEF LinesOk
    <2>2. \A n, l \in 1..Cardinality(places) : n < l => es[n].id < es[l].id
        BY <1>1, <1>2, <2>1, PickedInOrder
    <2> QED
        BY <1>3, <2>2
<1>5. ASSUME NEW n \in 1..Len(es)
      PROVE  es[n].id <= most
    <2>1. \E i \in places : Rank(places, i) = n /\ es[n] = ls[i]
        <3>1. n \in 1..Cardinality(places)
            BY <1>3
        <3> QED
            BY <1>1, <1>2, <3>1, PickedFrom
    <2> QED
        BY <1>2, <2>1 DEF LinesOk
<1> HIDE DEF es
<1>6. Ordered(es, most)
    BY <1>3, <1>4, <1>5 DEF Ordered
<1> QED
    BY <1>6, EmptyOk DEF Loaded, es, places

LEMMA LoadedIds ==
    ASSUME NEW most \in Int, NEW ls, LinesOk(ls, most), HeaderFirst(ls)
    PROVE  LineIds(ls) \subseteq Ids(Loaded(ls))
<1> DEFINE places == Parsed(ls)
           es == Picked(ls, places)
<1>1. ls \in Seq(Lines) /\ Len(ls) \in Nat
    BY DEF LinesOk
<1>2. places \in SUBSET (1..Len(ls)) /\ places = {i \in 1..Len(ls) : ls[i] \in Entries}
    BY <1>1, ParsedAre
<1>3. Loaded(ls) = es
    BY SessionHasHeader DEF Loaded
<1> HIDE DEF places
<1>4. es \in Seq(Entries) /\ Len(es) = Cardinality(places)
    <2>1. \A i \in places : ls[i] \in Entries
        BY <1>2
    <2>2. places \in SUBSET (1..Len(ls)) /\ Len(ls) \in Nat
        BY <1>1, <1>2
    <2> QED
        BY <2>1, <2>2, PickedIsSeq
<1>5. ASSUME NEW n \in LineIds(ls)
      PROVE  n \in Ids(es)
    <2>1. PICK i \in places : ls[i].id = n
        BY <1>1, <1>2, <1>5, LineIdsAre
    <2>2. es[Rank(places, i)] = ls[i]
        BY <1>1, <1>2, PickedAt
    <2>3. Rank(places, i) \in 1..Len(es)
        BY <1>1, <1>2, <1>4, RankType
    <2>4. Ids(es) = {es[k].id : k \in 1..Len(es)}
        BY <1>4, IdsAre
    <2> QED
        BY <2>1, <2>2, <2>3, <2>4
<1> QED
    BY <1>3, <1>5

LEMMA LoadedHeld ==
    ASSUME NEW most \in Int, NEW ls, LinesOk(ls, most), NEW es, Ordered(es, most), NEW half, Holds(ls, half, es)
    PROVE  Loaded(ls) = es /\ HeaderFirst(ls)
<1>1. ls \in Seq(Lines) /\ Len(ls) \in Nat /\ es \in Seq(Entries) /\ Len(es) \in Nat
    BY DEF LinesOk, Ordered
<1>2. HeaderFirst(ls)
    BY <1>1 DEF HeaderFirst, Holds
<1>3. Parsed(ls) = 2..Len(es) + 1
    <2>1. Parsed(ls) = {i \in 1..Len(ls) : ls[i] \in Entries}
        BY <1>1, ParsedAre
    <2>2. ASSUME NEW i \in Parsed(ls)
          PROVE  i \in 2..Len(es) + 1
        <3>1. i \in 1..Len(ls) /\ i # 1 /\ ls[i] # Junk
            BY <2>1, LineKinds DEF Holds
        <3>2. i # Len(es) + 2
            <4>1. CASE Len(ls) = Len(es) + 1
                BY <1>1, <3>1, <4>1
            <4>2. CASE ls[Len(es) + 2] = Junk
                BY <3>1, <4>2
            <4> QED
                BY <4>1, <4>2 DEF Holds
        <3>3. Len(ls) \in {Len(es) + 1, Len(es) + 2}
            BY DEF Holds
        <3> QED
            BY <1>1, <3>1, <3>2, <3>3
    <2>3. ASSUME NEW i \in 2..Len(es) + 1
          PROVE  i \in Parsed(ls)
        <3>1. i - 1 \in 1..Len(es) /\ (i - 1) + 1 = i /\ i \in Int
            BY <1>1
        <3>2. ls[i] = es[i - 1]
            <4>1. ls[(i - 1) + 1] = es[i - 1]
                BY <3>1 DEF Holds
            <4> QED
                BY <3>1, <4>1
        <3>3. Len(ls) \in {Len(es) + 1, Len(es) + 2}
            BY DEF Holds
        <3>4. i \in 1..Len(ls)
            BY <1>1, <3>3
        <3>5. es[i - 1] \in Entries
            BY <1>1, <3>1
        <3> QED
            BY <2>1, <3>2, <3>4, <3>5
    <2> QED
        BY <2>2, <2>3
<1>4. Picked(ls, 2..Len(es) + 1) = es
    BY <1>1, PickedStretch DEF Holds
<1> QED
    BY <1>2, <1>3, <1>4, SessionHasHeader DEF Loaded

LEMMA NothingLoaded == Loaded(<<>>) = <<>> /\ ~IsSession(<<>>) /\ ~IsSession(<<Junk>>)
<1>1. ~IsSession(<<>>)
    BY DEF IsSession
<1>2. ~IsSession(<<Junk>>)
    BY LineKinds DEF IsSession
<1> QED
    BY <1>1, <1>2 DEF Loaded

-----------------------------------------------------------------------------
(* What becomes of the entries of a session.                               *)

LEMMA PathOrdered ==
    ASSUME NEW most \in Int, NEW es, Ordered(es, most), NEW id \in Ids(es)
    PROVE  Ordered(Path(es, id), most) /\ id \in Ids(Path(es, id))
<1> DEFINE places == {i \in DOMAIN es : es[i].id \in Ancestry(es, id)}
           path == Picked(es, places)
<1>1. es \in Seq(Entries) /\ Len(es) \in Nat /\ DOMAIN es = 1..Len(es)
    BY DEF Ordered
<1>2. places \in SUBSET (1..Len(es)) /\ \A i \in places : i \in 1..Len(es) /\ es[i] \in Entries
    BY <1>1
<1>3. \E i \in places : es[i].id = id
    <2>1. id \in Ancestry(es, id)
        BY DEF Ancestry
    <2>2. PICK i \in 1..Len(es) : es[i].id = id
        BY <1>1, IdsAre
    <2> QED
        BY <1>1, <2>1, <2>2
<1> HIDE DEF places
<1>4. path \in Seq(Entries) /\ Len(path) = Cardinality(places)
    <2>1. \A i \in places : es[i] \in Entries
        BY <1>2
    <2>2. places \in SUBSET (1..Len(es)) /\ Len(es) \in Nat
        BY <1>1, <1>2
    <2> QED
        BY <2>1, <2>2, PickedIsSeq
<1>5. \A n, l \in 1..Len(path) : n < l => path[n].id < path[l].id
    <2>1. \A i, j \in places : i < j => es[i].id < es[j].id
        BY <1>2 DEF Ordered
    <2>2. \A n, l \in 1..Cardinality(places) : n < l => path[n].id < path[l].id
        BY <1>1, <1>2, <2>1, PickedInOrder
    <2> QED
        BY <1>4, <2>2
<1>6. ASSUME NEW n \in 1..Len(path)
      PROVE  path[n].id <= most
    <2>1. n \in 1..Cardinality(places)
        BY <1>4
    <2>2. \E i \in places : Rank(places, i) = n /\ path[n] = es[i]
        BY <1>1, <1>2, <2>1, PickedFrom
    <2> QED
        BY <1>2, <2>2 DEF Ordered
<1>7. id \in Ids(path)
    <2>1. PICK i \in places : es[i].id = id
        BY <1>3
    <2>2. path[Rank(places, i)] = es[i]
        BY <1>1, <1>2, PickedAt
    <2>3. Rank(places, i) \in 1..Len(path)
        BY <1>1, <1>2, <1>4, RankType
    <2>4. Ids(path) = {path[k].id : k \in 1..Len(path)}
        BY <1>4, IdsAre
    <2> QED
        BY <2>1, <2>2, <2>3, <2>4
<1> HIDE DEF path
<1>8. Ordered(path, most)
    BY <1>4, <1>5, <1>6 DEF Ordered
<1> QED
    BY <1>7, <1>8 DEF Path, path, places

LEMMA RootedInOrder ==
    ASSUME NEW most \in Int, NEW es, Ordered(es, most)
    PROVE  Ordered(Rooted(es), most) /\ ParentFirst(Rooted(es)) /\ Ids(Rooted(es)) = Ids(es)
<1> DEFINE new == Rooted(es)
           parent(i) == IF i = 1 THEN 0 ELSE es[i - 1].id
<1>1. es \in Seq(Entries) /\ Len(es) \in Nat /\ DOMAIN es = 1..Len(es)
    BY DEF Ordered
<1>2. ASSUME NEW i \in 1..Len(es)
      PROVE  parent(i) \in 0..MaxEntries
    <2>1. CASE i = 1
        BY <2>1, SessionAssumption
    <2>2. CASE i # 1
        <3>1. i - 1 \in 1..Len(es)
            BY <2>2
        <3>2. es[i - 1].id \in 1..MaxEntries
            BY <1>1, <3>1, LineKinds
        <3> QED
            BY <2>2, <3>2
    <2> QED
        BY <2>1, <2>2
<1>3. DOMAIN new = 1..Len(es) /\ \A i \in 1..Len(es) : new[i] = [es[i] EXCEPT !.parent = parent(i)]
    BY <1>1 DEF Rooted
<1>4. \A i \in 1..Len(es) : new[i] \in Entries /\ new[i].id = es[i].id /\ new[i].parent = parent(i)
    <2>1. \A r \in Entries, p \in 0..MaxEntries :
              /\ [r EXCEPT !.parent = p] \in Entries
              /\ [r EXCEPT !.parent = p].id = r.id /\ [r EXCEPT !.parent = p].parent = p
        BY DEF Entries
    <2>2. \A i \in 1..Len(es) : es[i] \in Entries
        BY <1>1
    <2> HIDE DEF new, parent
    <2> SUFFICES ASSUME NEW i \in 1..Len(es)
                 PROVE  new[i] \in Entries /\ new[i].id = es[i].id /\ new[i].parent = parent(i)
        OBVIOUS
    <2>3. new[i] = [es[i] EXCEPT !.parent = parent(i)] /\ parent(i) \in 0..MaxEntries
        BY <1>2, <1>3
    <2> QED
        BY <2>1, <2>2, <2>3
<1>5. new = [i \in 1..Len(es) |-> [es[i] EXCEPT !.parent = parent(i)]]
    BY <1>1 DEF Rooted
<1>6. new \in [1..Len(es) -> Entries]
    BY <1>4, <1>5
<1> HIDE DEF new
<1>7. new \in Seq(Entries) /\ Len(new) = Len(es)
    BY <1>1, <1>6
<1>8. Ordered(new, most)
    BY <1>4, <1>7 DEF Ordered
<1>9. ParentFirst(new)
    <2> SUFFICES ASSUME NEW i \in 1..Len(new), i # 1
                 PROVE  \E j \in 1..i - 1 : new[j].id = new[i].parent
        BY <1>4, <1>7 DEF ParentFirst
    <2>1. i - 1 \in 1..i - 1 /\ i - 1 \in 1..Len(es)
        BY <1>7
    <2>2. new[i - 1].id = es[i - 1].id /\ new[i].parent = es[i - 1].id
        BY <1>4, <1>7, <2>1
    <2> QED
        BY <2>1, <2>2
<1>10. Ids(new) = Ids(es)
    <2>1. Ids(new) = {new[i].id : i \in 1..Len(es)}
        BY <1>7, IdsAre
    <2>2. Ids(es) = {es[i].id : i \in 1..Len(es)}
        BY <1>1, IdsAre
    <2> QED
        BY <1>4, <2>1, <2>2
<1> QED
    BY <1>8, <1>9, <1>10 DEF new

(* A new child of an entry.                                                *)
LEMMA EntryAdded ==
    ASSUME NEW most \in Nat, most < MaxEntries, NEW es, Ordered(es, most),
           NEW parent \in Ids(es) \cup {0}, NEW kind \in Kinds,
           NEW e, e = [id |-> most + 1, parent |-> parent, kind |-> kind]
    PROVE  /\ e \in Entries /\ e.id = most + 1
           /\ Ordered(Append(es, e), most + 1)
           /\ Ids(Append(es, e)) = Ids(es) \cup {e.id}
           /\ ParentFirst(es) => ParentFirst(Append(es, e))
<1> DEFINE new == Append(es, e)
<1>1. es \in Seq(Entries) /\ Len(es) \in Nat
    BY DEF Ordered
<1>2. Ids(es) = {es[i].id : i \in 1..Len(es)}
    BY <1>1, IdsAre
<1>3. Ids(es) \subseteq 0..MaxEntries /\ MaxEntries \in Nat
    BY <1>1, <1>2, LineKinds, SessionAssumption
<1>4. e \in Entries /\ e.id = most + 1 /\ e.parent = parent
    <2>1. most + 1 \in 1..MaxEntries /\ parent \in 0..MaxEntries
        BY <1>3
    <2> QED
        BY <2>1 DEF Entries
<1>5. new \in Seq(Entries) /\ Len(new) = Len(es) + 1 /\ new[Len(es) + 1] = e
    BY <1>1, <1>4
<1>6. \A i \in 1..Len(es) : new[i] = es[i]
    BY <1>1
<1> HIDE DEF new
<1>7. \A i \in 1..Len(new) : i \in 1..Len(es) \/ i = Len(es) + 1
    BY <1>1, <1>5
<1>8. \A i \in 1..Len(es) : es[i].id \in Int /\ es[i].id <= most /\ es[i] \in Entries
    BY <1>1, LineKinds DEF Ordered
<1>9. \A i \in 1..Len(new) : new[i].id <= most + 1
    BY <1>4, <1>5, <1>6, <1>7, <1>8
<1>10. ASSUME NEW i \in 1..Len(new), NEW j \in 1..Len(new), i < j
      PROVE  new[i].id < new[j].id
    <2>1. i \in 1..Len(es)
        BY <1>1, <1>5, <1>10
    <2>2. CASE j \in 1..Len(es)
        BY <1>6, <1>10, <2>1, <2>2 DEF Ordered
    <2>3. CASE j = Len(es) + 1
        BY <1>4, <1>5, <1>6, <1>8, <2>1, <2>3
    <2> QED
        BY <1>7, <2>2, <2>3
<1>11. Ordered(new, most + 1)
    BY <1>5, <1>9, <1>10 DEF Ordered
<1>12. Ids(new) = Ids(es) \cup {e.id}
    <2>1. Ids(new) = {new[i].id : i \in 1..Len(new)}
        BY <1>5, IdsAre
    <2>2. Len(es) + 1 \in 1..Len(new) /\ \A i \in 1..Len(es) : i \in 1..Len(new)
        BY <1>1, <1>5
    <2> QED
        BY <1>2, <1>5, <1>6, <1>7, <2>1, <2>2
<1>13. ASSUME ParentFirst(es)
       PROVE  ParentFirst(new)
    <2> SUFFICES ASSUME NEW i \in 1..Len(new), new[i].parent # 0
                 PROVE  \E j \in 1..i - 1 : new[j].id = new[i].parent
        BY DEF ParentFirst
    <2>1. CASE i \in 1..Len(es)
        <3>1. PICK j \in 1..i - 1 : es[j].id = es[i].parent
            BY <1>6, <1>13, <2>1 DEF ParentFirst
        <3>2. j \in 1..Len(es)
            BY <1>1, <2>1
        <3> QED
            BY <1>6, <2>1, <3>1, <3>2
    <2>2. CASE i = Len(es) + 1
        <3>1. new[i].parent = parent /\ parent # 0
            BY <1>4, <1>5, <2>2
        <3>2. PICK j \in 1..Len(es) : es[j].id = parent
            BY <1>2, <3>1
        <3>3. j \in 1..i - 1
            BY <1>1, <2>2
        <3> QED
            BY <1>6, <3>1, <3>2, <3>3
    <2> QED
        BY <1>7, <2>1, <2>2
<1> QED
    BY <1>4, <1>11, <1>12, <1>13 DEF new

-----------------------------------------------------------------------------
(* The inductive invariant.                                                *)

FlagInv ==
    /\ made \in 0..MaxEntries /\ leaf \in Ids(entries) \cup {0}
    /\ acked \subseteq 1..MaxEntries /\ eaten \subseteq 1..MaxEntries
    /\ up \in BOOLEAN /\ flushed \in BOOLEAN /\ exists \in BOOLEAN
    /\ torn \in BOOLEAN /\ spoiled \in BOOLEAN /\ behind \in BOOLEAN
    /\ failures \in 0..MaxFailures /\ crashes \in 0..MaxCrashes
    /\ ~exists => lines = <<>> /\ ~torn
    /\ torn => lines # <<>>
    /\ flushed => exists

OrderInv == Ordered(entries, made) /\ LinesOk(lines, made)

(* What was acknowledged is in the file and, with an open session, in      *)
(* memory, or was in a torn line.                                          *)
AckInv ==
    ~spoiled =>
        /\ flushed => HeaderFirst(lines)
        /\ ~flushed => acked = {}
        /\ acked \subseteq LineIds(lines) \cup eaten
        /\ up => acked \subseteq Ids(entries) \cup eaten

(* The file holds what the session has, and later what it had.             *)
Faultless == eaten = {} /\ ~spoiled /\ ~behind
FileKept(ls, half) ==
    \/ ls \in {<<>>, <<Junk>>}
    \/ ParentFirst(Loaded(ls)) /\ Holds(ls, half, Loaded(ls))
MemoryInv ==
    Faultless =>
        /\ up => ParentFirst(entries)
        /\ up /\ flushed => Holds(lines, torn, entries)
        /\ up /\ ~flushed => ~exists
        /\ ~up => FileKept(lines, torn)

FileInv == FlagInv /\ OrderInv /\ AckInv /\ MemoryInv

LEMMA KeptIfHeld ==
    ASSUME NEW most \in Int, NEW ls, LinesOk(ls, most), NEW es, Ordered(es, most), NEW half,
           ParentFirst(es), Holds(ls, half, es)
    PROVE  FileKept(ls, half)
BY LoadedHeld DEF FileKept

LEMMA FileStart == FileInit => FileInv
<1> SUFFICES ASSUME FileInit PROVE FileInv
    OBVIOUS
<1> USE DEF FileInit
<1>1. FlagInv
    <2>1. 0 \in 0..MaxEntries /\ 0 \in 0..MaxFailures /\ 0 \in 0..MaxCrashes
        BY SessionAssumption
    <2> QED
        BY <2>1 DEF FlagInv
<1>2. OrderInv
    BY EmptyOk DEF OrderInv
<1>3. AckInv
    BY DEF AckInv
<1>4. ParentFirst(<<>>)
    BY DEF ParentFirst
<1>5. MemoryInv
    BY <1>4 DEF MemoryInv
<1> QED
    BY <1>1, <1>2, <1>3, <1>5 DEF FileInv

LEMMA FileStutter == FileInv /\ UNCHANGED sessionVars => FileInv'
<1> SUFFICES ASSUME FileInv, UNCHANGED sessionVars PROVE FileInv'
    OBVIOUS
<1> USE DEF sessionVars, memory, file, history, faults
<1>1. FlagInv'
    BY DEF FileInv, FlagInv
<1>2. OrderInv'
    BY DEF FileInv, OrderInv
<1>3. AckInv'
    BY DEF FileInv, AckInv
<1>4. MemoryInv'
    BY DEF FileInv, MemoryInv, Faultless
<1> QED
    BY <1>1, <1>2, <1>3, <1>4 DEF FileInv

LEMMA StopStep == FileInv /\ Stop => FileInv'
<1> SUFFICES ASSUME FileInv, Stop PROVE FileInv'
    OBVIOUS
<1> USE DEF Stop, memory, file, history, faults
<1>1. FlagInv'
    BY DEF FileInv, FlagInv
<1>2. OrderInv'
    BY DEF FileInv, OrderInv
<1>3. AckInv'
    BY DEF FileInv, AckInv
<1>4. ASSUME Faultless'
      PROVE  FileKept(lines, torn)
    <2>1. Faultless
        BY <1>4 DEF Faultless
    <2>2. CASE flushed
        BY <2>1, <2>2, KeptIfHeld DEF FileInv, FlagInv, OrderInv, MemoryInv
    <2>3. CASE ~flushed
        BY <2>1, <2>3 DEF FileInv, FlagInv, MemoryInv, FileKept
    <2> QED
        BY <2>2, <2>3
<1>5. MemoryInv'
    BY <1>4 DEF MemoryInv
<1> QED
    BY <1>1, <1>2, <1>3, <1>5 DEF FileInv

LEMMA BranchStep == \A id : FileInv /\ Branch(id) => FileInv'
<1> SUFFICES ASSUME NEW id, FileInv, Branch(id) PROVE FileInv'
    OBVIOUS
<1> USE DEF Branch, file, history, faults
<1>1. FlagInv'
    BY DEF FileInv, FlagInv
<1>2. OrderInv'
    BY DEF FileInv, OrderInv
<1>3. AckInv'
    BY DEF FileInv, AckInv
<1>4. MemoryInv'
    BY DEF FileInv, MemoryInv, Faultless
<1> QED
    BY <1>1, <1>2, <1>3, <1>4 DEF FileInv

LEMMA OpenStep == FileInv /\ Open => FileInv'
<1> SUFFICES ASSUME FileInv, Open PROVE FileInv'
    OBVIOUS
<1> DEFINE es == Loaded(lines)
<1>1. /\ ~up /\ up' = TRUE /\ entries' = es
      /\ leaf' = IF es = <<>> THEN 0 ELSE Last(es).id
      /\ made' = made /\ acked' = acked /\ eaten' = eaten /\ spoiled' = spoiled /\ behind' = behind
      /\ failures' = failures /\ crashes' = crashes
    BY DEF Open, history, faults
<1>2. made \in Int /\ LinesOk(lines, made) /\ Ordered(es, made)
    BY LoadedOrdered DEF FileInv, FlagInv, OrderInv
<1>3. leaf' \in Ids(es) \cup {0}
    <2>1. es \in Seq(Entries)
        BY <1>2 DEF Ordered
    <2>2. Ids(es) = {es[i].id : i \in 1..Len(es)}
        BY <2>1, IdsAre
    <2>3. es # <<>> => Len(es) \in 1..Len(es)
        BY <2>1
    <2>4. Last(es) = es[Len(es)]
        BY DEF Last
    <2> HIDE DEF es
    <2> QED
        BY <1>1, <2>2, <2>3, <2>4
<1> HIDE DEF es
<1>4. CASE ~exists /\ flushed' = FALSE /\ UNCHANGED file
    <2>1. lines = <<>> /\ es = <<>> /\ ~flushed
        BY <1>4, NothingLoaded DEF FileInv, FlagInv, es
    <2>2. exists' = exists /\ lines' = lines /\ torn' = torn
        BY <1>4 DEF file
    <2>3. FlagInv'
        BY <1>1, <1>3, <1>4, <2>2 DEF FileInv, FlagInv
    <2>4. OrderInv'
        BY <1>1, <1>2, <2>2 DEF OrderInv
    <2>5. AckInv'
        BY <1>1, <1>4, <2>1, <2>2 DEF FileInv, AckInv
    <2>6. ParentFirst(<<>>)
        BY DEF ParentFirst
    <2>7. MemoryInv'
        BY <1>1, <1>4, <2>1, <2>2, <2>6 DEF MemoryInv
    <2> QED
        BY <2>3, <2>4, <2>5, <2>7 DEF FileInv
<1>5. CASE exists /\ IsSession(lines) /\ flushed' = TRUE /\ UNCHANGED file
    <2>1. exists' = exists /\ lines' = lines /\ torn' = torn
        BY <1>5 DEF file
    <2>2. HeaderFirst(lines)
        BY <1>2, <1>5, SessionHasHeader
    <2>3. FlagInv'
        BY <1>1, <1>3, <1>5, <2>1 DEF FileInv, FlagInv
    <2>4. OrderInv'
        BY <1>1, <1>2, <2>1 DEF OrderInv
    <2>5. LineIds(lines) \subseteq Ids(es)
        BY <1>2, <2>2, LoadedIds DEF es
    <2>6. AckInv'
        BY <1>1, <1>5, <2>1, <2>2, <2>5 DEF FileInv, AckInv
    <2>7. lines \notin {<<>>, <<Junk>>}
        BY <1>5, NothingLoaded
    <2>8. ASSUME Faultless'
          PROVE  ParentFirst(es) /\ Holds(lines, torn, es)
        <3>1. Faultless
            BY <1>1, <2>8 DEF Faultless
        <3>2. FileKept(lines, torn)
            BY <1>1, <3>1 DEF FileInv, MemoryInv
        <3> QED
            BY <2>7, <3>2 DEF FileKept, es
    <2>9. MemoryInv'
        BY <1>1, <1>5, <2>1, <2>8 DEF MemoryInv
    <2> QED
        BY <2>3, <2>4, <2>6, <2>9 DEF FileInv
<1>6. CASE /\ exists /\ Overwrites
           /\ flushed' = TRUE /\ lines' = <<Header>> /\ torn' = FALSE /\ UNCHANGED exists
    <2>1. lines = <<>> /\ es = <<>>
        BY <1>6, NothingLoaded DEF Overwrites, es
    <2>2. FlagInv'
        BY <1>1, <1>3, <1>6 DEF FileInv, FlagInv
    <2>3. OrderInv'
        BY <1>1, <1>2, <1>6, EmptyOk DEF OrderInv
    <2>4. HeaderFirst(<<Header>>) /\ ~HeaderFirst(<<>>)
        BY DEF HeaderFirst
    <2>5. LineIds(<<>>) = {}
        BY DEF LineIds, Range
    <2>6. ~spoiled => ~flushed /\ acked = {}
        BY <2>1, <2>4 DEF FileInv, FlagInv, AckInv
    <2>7. AckInv'
        BY <1>1, <1>6, <2>4, <2>6 DEF AckInv
    <2>8. ParentFirst(<<>>) /\ Holds(<<Header>>, FALSE, <<>>)
        BY DEF ParentFirst, Holds
    <2>9. MemoryInv'
        BY <1>1, <1>6, <2>1, <2>8 DEF MemoryInv
    <2> QED
        BY <2>2, <2>3, <2>7, <2>9 DEF FileInv
<1> QED
    BY <1>4, <1>5, <1>6 DEF Open

(* A break of a write: the process goes on, or it dies.                    *)
LEMMA BreakOutcomes ==
    BreaksOff /\ FlagInv =>
        /\ failures' \in 0..MaxFailures /\ crashes' \in 0..MaxCrashes
        /\ up' \in BOOLEAN /\ behind' \in BOOLEAN
        /\ \/ behind' = TRUE /\ up' = up
           \/ behind' = behind /\ up' = FALSE
<1> SUFFICES ASSUME BreaksOff, FlagInv
             PROVE  /\ failures' \in 0..MaxFailures /\ crashes' \in 0..MaxCrashes
                    /\ up' \in BOOLEAN /\ behind' \in BOOLEAN
                    /\ \/ behind' = TRUE /\ up' = up
                       \/ behind' = behind /\ up' = FALSE
    OBVIOUS
<1>1. CASE failures < MaxFailures /\ failures' = failures + 1 /\ behind' = TRUE /\ UNCHANGED <<up, crashes>>
    <2>1. failures' \in 0..MaxFailures
        BY <1>1, SessionAssumption DEF FlagInv
    <2> QED
        BY <1>1, <2>1 DEF FlagInv
<1>2. CASE crashes < MaxCrashes /\ crashes' = crashes + 1 /\ up' = FALSE /\ UNCHANGED <<behind, failures>>
    <2>1. crashes' \in 0..MaxCrashes
        BY <1>2, SessionAssumption DEF FlagInv
    <2> QED
        BY <1>2, <2>1 DEF FlagInv
<1> QED
    BY <1>1, <1>2 DEF BreaksOff

(* A rewrite of the file.                                                  *)
LEMMA RewriteStep ==
    ASSUME FileInv, up, NEW es, Ordered(es, made), ParentFirst(es) \/ ~Faultless,
           NEW acks, acks \subseteq 1..MaxEntries, ~spoiled => acks \subseteq Ids(es) \cup eaten,
           Rewrite(es, acks),
           made' = made, entries' = es, leaf' \in Ids(es) \cup {0}
    PROVE  FileInv'
<1> DEFINE text == <<Header>> \o es
<1>1. made \in Nat /\ made \in 0..MaxEntries
    BY SessionAssumption DEF FileInv, FlagInv
<1>2. /\ LinesOk(text, made) /\ LineIds(text) = Ids(es) /\ HeaderFirst(text)
      /\ Holds(text, FALSE, es) /\ Len(text) = Len(es) + 1
    <2>1. made \in Int
        BY <1>1
    <2>2. \A half : Holds(text, half, es)
        BY <2>1, LinesWhole
    <2> QED
        BY <2>1, <2>2, LinesWhole
<1>3. exists' = TRUE
    BY DEF Rewrite
<1>4. Ids(es) \subseteq 1..MaxEntries
    <2>1. es \in Seq(Entries) /\ \A i \in 1..Len(es) : es[i] \in Entries
        BY DEF Ordered
    <2> QED
        BY <2>1, IdsAre, LineKinds
<1>5. CASE /\ lines' = text /\ flushed' = TRUE /\ acked' = acks \cup Ids(es)
           /\ UNCHANGED <<spoiled, eaten>> /\ Written
    <2>1. /\ torn' = FALSE /\ up' = up /\ behind' = behind
          /\ failures' = failures /\ crashes' = crashes /\ spoiled' = spoiled /\ eaten' = eaten
        BY <1>5 DEF Written, faults
    <2> HIDE DEF text
    <2>2. FlagInv'
        BY <1>1, <1>3, <1>4, <1>5, <2>1 DEF FileInv, FlagInv
    <2>3. OrderInv'
        BY <1>2, <1>5 DEF OrderInv
    <2>4. AckInv'
        <3>1. ~spoiled' => acked' \subseteq Ids(entries') \cup eaten'
            <4>1. Ids(entries') = Ids(es)
                OBVIOUS
            <4>2. ~spoiled' => acks \subseteq Ids(es) \cup eaten'
                BY <2>1
            <4>3. acked' = acks \cup Ids(es)
                BY <1>5
            <4> QED
                BY <4>1, <4>2, <4>3
        <3>2. Ids(entries') = LineIds(lines') /\ HeaderFirst(lines')
            BY <1>2, <1>5
        <3> QED
            BY <1>5, <3>1, <3>2 DEF AckInv
    <2>5. MemoryInv'
        <3>1. Faultless' => ParentFirst(es)
            BY <2>1 DEF Faultless
        <3>2. Holds(lines', torn', entries')
            BY <1>2, <1>5, <2>1
        <3> QED
            BY <1>5, <2>1, <3>1, <3>2 DEF MemoryInv
    <2> QED
        BY <2>2, <2>3, <2>4, <2>5 DEF FileInv
<1>6. ASSUME NEW n \in 0..Len(text) - 1, NEW part \in Parts,
             lines' = Broken(text, n, part), torn' = (part # "none"), spoiled' = TRUE,
             UNCHANGED <<flushed, acked, eaten>>, BreaksOff
      PROVE  FileInv'
    <2> HIDE DEF text
    <2>1. made \in Int /\ LinesOk(text, made)
        BY <1>1, <1>2
    <2>7. LinesOk(Broken(text, n, part), made)
        BY <2>1, LinesBroken
    <2>2. /\ failures' \in 0..MaxFailures /\ crashes' \in 0..MaxCrashes
          /\ up' \in BOOLEAN /\ behind' \in BOOLEAN
        BY <1>6, BreakOutcomes DEF FileInv
    <2>3. torn' => lines' # <<>>
        <3>1. part # "none" => Broken(text, n, part) # <<>>
            BY <2>1, BrokenSome
        <3> QED
            BY <1>6, <3>1
    <2>4. FlagInv'
        BY <1>1, <1>3, <1>6, <2>2, <2>3 DEF FileInv, FlagInv
    <2>5. OrderInv'
        BY <1>1, <1>6, <2>7 DEF OrderInv
    <2>6. AckInv' /\ MemoryInv'
        BY <1>6 DEF AckInv, MemoryInv, Faultless
    <2> QED
        BY <2>4, <2>5, <2>6 DEF FileInv
<1> QED
    BY <1>5, <1>6 DEF Rewrite

LEMMA MaterializeStep == FileInv /\ Materialize => FileInv'
<1> SUFFICES ASSUME FileInv, Materialize PROVE FileInv'
    OBVIOUS
<1>1. up /\ Rewrite(entries, acked) /\ made' = made /\ entries' = entries /\ leaf' = leaf
    BY DEF Materialize
<1>2. /\ Ordered(entries, made) /\ leaf \in Ids(entries) \cup {0} /\ acked \subseteq 1..MaxEntries
    BY DEF FileInv, OrderInv, FlagInv
<1>3. ParentFirst(entries) \/ ~Faultless
    BY <1>1 DEF FileInv, MemoryInv
<1>4. ~spoiled => acked \subseteq Ids(entries) \cup eaten
    BY <1>1 DEF FileInv, AckInv
<1> QED
    BY <1>1, <1>2, <1>3, <1>4, RewriteStep

LEMMA ForkStep == \A id : FileInv /\ Fork(id) => FileInv'
<1> SUFFICES ASSUME NEW id, FileInv, Fork(id) PROVE FileInv'
    OBVIOUS
<1> DEFINE path == Rooted(Path(entries, id))
<1>1. up /\ id \in Ids(entries) /\ entries' = path /\ leaf' = id /\ made' = made
    BY DEF Fork
<1>2. made \in Int /\ Ordered(entries, made)
    BY DEF FileInv, OrderInv, FlagInv
<1>3. Ordered(path, made) /\ ParentFirst(path) /\ id \in Ids(path)
    <2>1. Ordered(Path(entries, id), made) /\ id \in Ids(Path(entries, id))
        BY <1>1, <1>2, PathOrdered
    <2> QED
        BY <1>2, <2>1, RootedInOrder
<1>4. CASE HasAssistant(path)
    <2>1. Rewrite(path, {})
        BY <1>4 DEF Fork
    <2> HIDE DEF path
    <2> QED
        BY <1>1, <1>3, <2>1, RewriteStep
<1>5. CASE ~HasAssistant(path)
    <2>1. /\ exists' = FALSE /\ lines' = <<>> /\ torn' = FALSE /\ flushed' = FALSE /\ acked' = {}
          /\ UNCHANGED <<up, eaten, spoiled, behind, faults>>
        BY <1>5 DEF Fork
    <2> HIDE DEF path
    <2>2. FlagInv'
        BY <1>1, <1>3, <2>1 DEF FileInv, FlagInv, faults
    <2>3. OrderInv'
        BY <1>1, <1>2, <1>3, <2>1, EmptyOk DEF OrderInv
    <2>4. AckInv'
        BY <2>1 DEF AckInv
    <2>5. MemoryInv'
        BY <1>1, <1>3, <2>1 DEF MemoryInv
    <2> QED
        BY <2>2, <2>3, <2>4, <2>5 DEF FileInv
<1> QED
    BY <1>4, <1>5

-----------------------------------------------------------------------------
(* One line more.                                                          *)

LEMMA HeldAndLine ==
    ASSUME NEW ls \in Seq(Lines), NEW es \in Seq(Entries), Holds(ls, FALSE, es), NEW e \in Entries
    PROVE  /\ \A half : Holds(Append(ls, e), half, Append(es, e))
           /\ Holds(Append(ls, Junk), TRUE, es)
<1>1. Len(ls) = Len(es) + 1 /\ Len(es) \in Nat /\ ls[1] = Header /\ \A i \in 1..Len(es) : ls[i + 1] = es[i]
    BY DEF Holds
<1>2. e \in Lines /\ Junk \in Lines
    BY LineKinds
<1>3. ASSUME NEW l \in Lines
      PROVE  /\ Len(Append(ls, l)) = Len(es) + 2 /\ Append(ls, l)[Len(es) + 2] = l
             /\ Append(ls, l)[1] = Header /\ \A i \in 1..Len(es) : Append(ls, l)[i + 1] = es[i]
    <2>1. /\ Len(Append(ls, l)) = Len(ls) + 1 /\ Append(ls, l)[Len(ls) + 1] = l
          /\ \A i \in 1..Len(ls) : Append(ls, l)[i] = ls[i]
        OBVIOUS
    <2>2. 1 \in 1..Len(ls) /\ \A i \in 1..Len(es) : i + 1 \in 1..Len(ls)
        BY <1>1
    <2>3. Len(ls) + 1 = Len(es) + 2
        BY <1>1
    <2> QED
        BY <1>1, <2>1, <2>2, <2>3
<1>4. Holds(Append(ls, Junk), TRUE, es)
    BY <1>2, <1>3 DEF Holds
<1>5. ASSUME NEW half
      PROVE  Holds(Append(ls, e), half, Append(es, e))
    <2>1. /\ Len(Append(es, e)) = Len(es) + 1 /\ Append(es, e)[Len(es) + 1] = e
          /\ \A i \in 1..Len(es) : Append(es, e)[i] = es[i]
        OBVIOUS
    <2>2. /\ Len(Append(ls, e)) = Len(es) + 2 /\ Append(ls, e)[Len(es) + 2] = e
          /\ Append(ls, e)[1] = Header /\ \A i \in 1..Len(es) : Append(ls, e)[i + 1] = es[i]
        BY <1>2, <1>3
    <2> DEFINE ls2 == Append(ls, e)
               es2 == Append(es, e)
    <2> HIDE DEF ls2, es2
    <2>3. ASSUME NEW i \in 1..Len(es2)
          PROVE  ls2[i + 1] = es2[i]
        <3>1. CASE i \in 1..Len(es)
            BY <2>1, <2>2, <3>1 DEF ls2, es2
        <3>2. CASE i = Len(es) + 1
            <4>1. i + 1 = Len(es) + 2
                BY <1>1, <3>2
            <4> QED
                BY <2>1, <2>2, <3>2, <4>1 DEF ls2, es2
        <3>3. i \in 1..Len(es) \/ i = Len(es) + 1
            BY <1>1, <2>1 DEF es2
        <3> QED
            BY <3>1, <3>2, <3>3
    <2>4. Len(ls2) = Len(es2) + 1 /\ ls2[1] = Header
        BY <1>1, <2>1, <2>2 DEF ls2, es2
    <2> QED
        BY <2>3, <2>4 DEF Holds, ls2, es2
<1> QED
    BY <1>4, <1>5

LEMMA JunkStays ==
    ASSUME NEW most \in Int, NEW ls, LinesOk(ls, most), ls # <<>>, Last(ls) = Junk
    PROVE  Front(ls) \o <<Junk>> = ls
<1> DEFINE front == Front(ls)
           k == Len(ls) - 1
<1>1. ls \in Seq(Lines) /\ Len(ls) \in Nat /\ Len(ls) >= 1 /\ <<Junk>> \in Seq(Lines) /\ ls[Len(ls)] = Junk
    BY LineKinds DEF LinesOk, Last
<1>2. k \in Nat /\ Len(ls) = k + 1
    BY <1>1
<1>3. front \in Seq(Lines) /\ Len(front) = k /\ \A i \in 1..k : front[i] = ls[i]
    BY FrontIsSeq
<1> HIDE DEF k, front
<1>4. /\ front \o <<Junk>> \in Seq(Lines) /\ Len(front \o <<Junk>>) = k + 1
      /\ (front \o <<Junk>>)[k + 1] = Junk /\ \A i \in 1..k : (front \o <<Junk>>)[i] = front[i]
    BY <1>1, <1>2, <1>3
<1>5. \A i \in 1..k + 1 : (front \o <<Junk>>)[i] = ls[i]
    <2> SUFFICES ASSUME NEW i \in 1..k + 1 PROVE (front \o <<Junk>>)[i] = ls[i]
        OBVIOUS
    <2>1. CASE i = k + 1
        BY <1>1, <1>2, <1>4, <2>1
    <2>2. CASE i \in 1..k
        BY <1>3, <1>4, <2>2
    <2>3. i = k + 1 \/ i \in 1..k
        BY <1>2
    <2> QED
        BY <2>1, <2>2, <2>3
<1>6. front \o <<Junk>> = ls
    BY <1>1, <1>2, <1>4, <1>5, SeqEqual
<1> QED
    BY <1>6 DEF front

LEMMA BehindIs ==
    ASSUME NEW most \in Int, LinesOk(lines, most), torn \in BOOLEAN, torn => lines # <<>>
    PROVE  /\ Behind(<<>>) = lines
           /\ Eats(<<>>) => eaten' = eaten /\ spoiled' = spoiled
           /\ \A x \in Lines :
                  /\ torn => Behind(<<x>>) = Front(lines) \o <<Junk>>
                  /\ torn /\ Eats(<<x>>) =>
                         /\ eaten' = eaten \cup ({Last(lines).id, x.id} \ {0, -1})
                         /\ spoiled' = (spoiled \/ lines = <<Header>>)
                  /\ ~torn => Behind(<<x>>) = Append(lines, x)
                  /\ ~torn /\ Eats(<<x>>) => eaten' = eaten /\ spoiled' = spoiled
<1>1. lines \in Seq(Lines) /\ Junk \in Lines
    BY LineKinds DEF LinesOk
<1>2. Behind(<<>>) = lines
    BY <1>1 DEF Behind
<1>3. Eats(<<>>) => eaten' = eaten /\ spoiled' = spoiled
    BY DEF Eats
<1>4. ASSUME NEW x \in Lines
      PROVE  /\ torn => Behind(<<x>>) = Front(lines) \o <<Junk>>
             /\ torn /\ Eats(<<x>>) =>
                    /\ eaten' = eaten \cup ({Last(lines).id, x.id} \ {0, -1})
                    /\ spoiled' = (spoiled \/ lines = <<Header>>)
             /\ ~torn => Behind(<<x>>) = Append(lines, x)
             /\ ~torn /\ Eats(<<x>>) => eaten' = eaten /\ spoiled' = spoiled
    <2>1. <<x>> # <<>> /\ Head(<<x>>) = x /\ Tail(<<x>>) = <<>>
        OBVIOUS
    <2>2. ASSUME torn PROVE Behind(<<x>>) = Front(lines) \o <<Junk>>
        <3>1. Front(lines) \o <<Junk>> \in Seq(Lines)
            BY <2>2, LinesTorn DEF LinesOk
        <3>2. (Front(lines) \o <<Junk>>) \o <<>> = Front(lines) \o <<Junk>>
            BY <3>1
        <3> QED
            BY <2>1, <2>2, <3>2 DEF Behind
    <2>3. lines \o <<x>> = Append(lines, x)
        BY <1>1
    <2>4. ~torn => Behind(<<x>>) = Append(lines, x)
        BY <2>3 DEF Behind
    <2>5. ASSUME torn, Eats(<<x>>)
          PROVE  /\ eaten' = eaten \cup ({Last(lines).id, x.id} \ {0, -1})
                 /\ spoiled' = (spoiled \/ lines = <<Header>>)
        BY <2>1, <2>5 DEF Eats
    <2>6. ~torn /\ Eats(<<x>>) => eaten' = eaten /\ spoiled' = spoiled
        BY DEF Eats
    <2> QED
        BY <2>2, <2>4, <2>5, <2>6
<1> QED
    BY <1>2, <1>3, <1>4

(* An entry, or a part of it, behind what is in the file.                  *)
LEMMA LineAdded ==
    ASSUME FileInv, flushed, NEW e \in Entries, e.id = made + 1,
           NEW x \in {e, Junk}, lines' = Behind(<<x>>), Eats(<<x>>)
    PROVE  /\ LinesOk(lines', made + 1) /\ lines' # <<>>
           /\ eaten \subseteq eaten' /\ eaten' \subseteq 1..MaxEntries
           /\ spoiled' \in BOOLEAN /\ (spoiled => spoiled')
           /\ ~spoiled' => HeaderFirst(lines')
           /\ LineIds(lines) \subseteq LineIds(lines') \cup eaten'
           /\ x = e => e.id \in LineIds(lines') \cup eaten'
<1>1. /\ made \in Nat /\ made \in Int /\ LinesOk(lines, made) /\ torn \in BOOLEAN /\ (torn => lines # <<>>)
      /\ spoiled \in BOOLEAN /\ eaten \subseteq 1..MaxEntries
    BY SessionAssumption DEF FileInv, FlagInv, OrderInv
<1>2. x \in Lines /\ e \in Lines /\ e.id \in 1..MaxEntries /\ x.id \in 1..MaxEntries \cup {0, -1}
    BY LineKinds
<1>3. ~spoiled => HeaderFirst(lines)
    BY DEF FileInv, AckInv
<1>4. CASE torn
    <2>1. /\ lines' = Front(lines) \o <<Junk>>
          /\ eaten' = eaten \cup ({Last(lines).id, x.id} \ {0, -1})
          /\ spoiled' = (spoiled \/ lines = <<Header>>)
        BY <1>1, <1>2, <1>4, BehindIs
    <2>2. /\ LinesOk(lines', made)
          /\ LineIds(lines) \subseteq LineIds(lines') \cup ({Last(lines).id} \ {0, -1})
          /\ HeaderFirst(lines) /\ lines # <<Header>> => HeaderFirst(lines')
        BY <1>1, <1>4, <2>1, LinesTorn
    <2>3. LinesOk(lines', made + 1)
        BY <1>1, <2>2, MoreMade
    <2>4. Last(lines).id \in 1..MaxEntries \cup {0, -1}
        <3>1. lines \in Seq(Lines) /\ Len(lines) \in 1..Len(lines)
            BY <1>1, <1>4 DEF LinesOk
        <3>2. lines[Len(lines)] \in Lines
            BY <3>1
        <3> QED
            BY <3>2, LineKinds DEF Last
    <2>5. eaten \subseteq eaten' /\ eaten' \subseteq 1..MaxEntries
        BY <1>1, <1>2, <2>1, <2>4
    <2>6. x = e => e.id \in eaten'
        <3>1. e.id # 0 /\ e.id # -1
            BY <1>2
        <3> QED
            BY <2>1, <3>1
    <2>7. LineIds(lines) \subseteq LineIds(lines') \cup eaten'
        BY <2>1, <2>2
    <2>8. lines' # <<>>
        <3>1. Front(lines) \in Seq(Lines)
            BY <1>1, <1>4, FrontIsSeq
        <3> QED
            BY <2>1, <3>1
    <2>9. spoiled' \in BOOLEAN /\ (spoiled => spoiled') /\ (~spoiled' => ~spoiled /\ lines # <<Header>>)
        BY <1>1, <2>1
    <2> QED
        BY <1>3, <2>2, <2>3, <2>5, <2>6, <2>7, <2>8, <2>9
<1>5. CASE ~torn
    <2>1. lines' = Append(lines, x) /\ eaten' = eaten /\ spoiled' = spoiled
        BY <1>1, <1>2, <1>5, BehindIs
    <2>2. lines \in Seq(Lines) /\ Len(lines) \in Nat
        BY <1>1 DEF LinesOk
    <2>3. lines' # <<>> /\ (lines # <<>> => lines'[1] = lines[1])
        BY <1>2, <2>1, <2>2
    <2>4. HeaderFirst(lines) => HeaderFirst(lines')
        BY <2>3 DEF HeaderFirst
    <2>5. LinesOk(lines', made + 1) /\ LineIds(lines) \subseteq LineIds(lines')
          /\ (x = e => e.id \in LineIds(lines'))
        <3>1. CASE x = e
            BY <1>1, <2>1, <3>1, LinesAndEntry
        <3>2. CASE x = Junk
            <4>1. LinesOk(lines', made) /\ LineIds(lines) \subseteq LineIds(lines')
                BY <1>1, <2>1, <3>2, LinesAndJunk
            <4>2. x # e
                BY <3>2, LineKinds
            <4> QED
                BY <1>1, <4>1, <4>2, MoreMade
        <3> QED
            BY <3>1, <3>2
    <2> QED
        BY <1>1, <1>3, <2>1, <2>3, <2>4, <2>5
<1> QED
    BY <1>1, <1>4, <1>5

(* What memory and the file have of a new entry.                           *)
Adds(e, all) ==
    /\ e \in Entries /\ e.id = made + 1 /\ made < MaxEntries
    /\ Ordered(all, made + 1) /\ Ids(all) = Ids(entries) \cup {e.id}
    /\ ParentFirst(entries) => ParentFirst(all)
    /\ all = Append(entries, e)
    /\ made' = made + 1 /\ entries' = all /\ leaf' = e.id

(* The entry is in memory only.                                            *)
LEMMA InMemoryOnly ==
    ASSUME FileInv, up, NEW e, NEW all, Adds(e, all),
           UNCHANGED <<file, flushed, acked, eaten, spoiled, failures, crashes, up>>,
           behind' = TRUE \/ (behind' = behind /\ ~flushed)
    PROVE  FileInv'
<1>1. made \in Nat /\ made \in Int /\ made + 1 \in Int /\ made + 1 \in 0..MaxEntries
    BY SessionAssumption DEF FileInv, FlagInv, Adds
<1>2. leaf' \in Ids(entries') /\ Ids(entries) \subseteq Ids(entries')
    BY DEF Adds
<1>3. FlagInv'
    BY <1>1, <1>2 DEF FileInv, FlagInv, Adds, file
<1>4. OrderInv'
    <2>1. LinesOk(lines, made + 1)
        <3>1. made <= made + 1
            BY <1>1
        <3> QED
            BY <1>1, <3>1, MoreMade DEF FileInv, OrderInv
    <2> QED
        BY <2>1 DEF OrderInv, Adds, file
<1>5. AckInv'
    BY <1>2 DEF FileInv, AckInv, file
<1>6. MemoryInv'
    <2> SUFFICES ASSUME Faultless' PROVE ParentFirst(entries') /\ ~flushed /\ ~exists
        BY DEF MemoryInv, file
    <2>1. Faultless /\ ~flushed
        BY DEF Faultless
    <2> QED
        BY <2>1 DEF FileInv, MemoryInv, Adds
<1> QED
    BY <1>3, <1>4, <1>5, <1>6 DEF FileInv

(* A write behind the lines that are there.                                *)
LEMMA FlushedAppend ==
    ASSUME FileInv, up, flushed, NEW e, NEW all, Adds(e, all), exists' = TRUE, flushed' = TRUE,
           failures' \in 0..MaxFailures, crashes' \in 0..MaxCrashes, up' \in BOOLEAN, behind' \in BOOLEAN,
           torn' \in BOOLEAN,
           \/ lines' = lines /\ eaten' = eaten /\ spoiled' = spoiled /\ torn' = torn /\ acked' = acked
           \/ lines' = Behind(<<Junk>>) /\ Eats(<<Junk>>) /\ acked' = acked
           \/ lines' = Behind(<<e>>) /\ Eats(<<e>>) /\ acked' \in {acked, acked \cup {e.id}}
    PROVE  FlagInv' /\ OrderInv' /\ AckInv'
<1>1. made \in Nat /\ made \in Int /\ made + 1 \in Int /\ made + 1 \in 0..MaxEntries
    BY SessionAssumption DEF FileInv, FlagInv, Adds
<1>2. leaf' \in Ids(entries') /\ Ids(entries') = Ids(entries) \cup {e.id} /\ e.id \in 1..MaxEntries
    BY LineKinds DEF Adds
<1>3. /\ LinesOk(lines', made + 1) /\ (torn' => lines' # <<>>)
      /\ eaten \subseteq eaten' /\ eaten' \subseteq 1..MaxEntries
      /\ spoiled' \in BOOLEAN /\ (spoiled => spoiled')
      /\ ~spoiled' => HeaderFirst(lines')
      /\ LineIds(lines) \subseteq LineIds(lines') \cup eaten'
      /\ acked' = acked \/ (acked' = acked \cup {e.id} /\ e.id \in LineIds(lines') \cup eaten')
    <2>1. CASE lines' = lines /\ eaten' = eaten /\ spoiled' = spoiled /\ torn' = torn /\ acked' = acked
        <3>1. LinesOk(lines, made + 1)
            <4>1. made <= made + 1
                BY <1>1
            <4> QED
                BY <1>1, <4>1, MoreMade DEF FileInv, OrderInv
        <3> QED
            BY <2>1, <3>1 DEF FileInv, FlagInv, AckInv
    <2>2. CASE lines' = Behind(<<Junk>>) /\ Eats(<<Junk>>) /\ acked' = acked
        BY <2>2, LineAdded DEF Adds
    <2>3. CASE lines' = Behind(<<e>>) /\ Eats(<<e>>) /\ acked' \in {acked, acked \cup {e.id}}
        BY <2>3, LineAdded DEF Adds
    <2> QED
        BY <2>1, <2>2, <2>3
<1>4. FlagInv'
    BY <1>1, <1>2, <1>3 DEF FileInv, FlagInv, Adds
<1>5. OrderInv'
    BY <1>3 DEF OrderInv, Adds
<1>6. AckInv'
    <2> SUFFICES ASSUME ~spoiled'
                 PROVE  acked' \subseteq LineIds(lines') \cup eaten' /\ acked' \subseteq Ids(entries') \cup eaten'
        BY <1>3 DEF AckInv
    <2>1. acked \subseteq LineIds(lines) \cup eaten /\ acked \subseteq Ids(entries) \cup eaten
        BY <1>3 DEF FileInv, AckInv
    <2> QED
        BY <1>2, <1>3, <2>1
<1> QED
    BY <1>4, <1>5, <1>6

(* Without a fault the lines are not torn when one is added.               *)
LEMMA FlushedHeld ==
    ASSUME FileInv, up, flushed, NEW e, NEW all, Adds(e, all), Faultless',
           behind' = behind, eaten \subseteq eaten', spoiled => spoiled'
    PROVE  /\ Holds(lines, torn, entries) /\ ParentFirst(entries) /\ ParentFirst(all)
           /\ lines' = Behind(<<e>>) /\ Eats(<<e>>) => ~torn /\ \A half : Holds(lines', half, all)
           /\ lines' = Behind(<<Junk>>) /\ Eats(<<Junk>>) => Holds(lines', TRUE, entries)
<1>1. Faultless
    BY DEF Faultless, FileInv, FlagInv
<1>2. Holds(lines, torn, entries) /\ ParentFirst(entries) /\ ParentFirst(all)
    BY <1>1 DEF FileInv, MemoryInv, Adds
<1>3. /\ made \in Int /\ LinesOk(lines, made) /\ torn \in BOOLEAN /\ (torn => lines # <<>>)
      /\ lines \in Seq(Lines) /\ entries \in Seq(Entries)
    BY DEF FileInv, FlagInv, OrderInv, LinesOk, Ordered
<1>4. e \in Lines /\ Junk \in Lines /\ e \in Entries /\ e.id \in 1..MaxEntries
    BY LineKinds DEF Adds
<1>5. ~torn => Holds(lines, FALSE, entries)
    BY <1>2, <1>3
<1>6. ASSUME lines' = Behind(<<e>>), Eats(<<e>>)
      PROVE  ~torn /\ \A half : Holds(lines', half, all)
    <2>1. ASSUME torn PROVE FALSE
        <3>1. eaten' = eaten \cup ({Last(lines).id, e.id} \ {0, -1})
            BY <1>3, <1>4, <1>6, <2>1, BehindIs
        <3>2. e.id \in eaten'
            <4>1. e.id # 0 /\ e.id # -1
                BY <1>4
            <4> QED
                BY <3>1, <4>1
        <3> QED
            BY <3>2 DEF Faultless
    <2>2. lines' = Append(lines, e)
        BY <1>3, <1>4, <1>6, <2>1, BehindIs
    <2>3. \A half : Holds(Append(lines, e), half, Append(entries, e))
        BY <1>3, <1>4, <1>5, <2>1, HeldAndLine
    <2> QED
        BY <2>1, <2>2, <2>3 DEF Adds
<1>7. ASSUME lines' = Behind(<<Junk>>), Eats(<<Junk>>)
      PROVE  Holds(lines', TRUE, entries)
    <2>1. CASE torn
        <3>1. /\ lines' = Front(lines) \o <<Junk>>
              /\ eaten' = eaten \cup ({Last(lines).id, Junk.id} \ {0, -1})
              /\ spoiled' = (spoiled \/ lines = <<Header>>)
            BY <1>3, <1>4, <1>7, <2>1, BehindIs
        <3>2. lines # <<Header>> /\ Last(lines).id \in {0, -1}
            BY <3>1 DEF Faultless
        <3>3. Last(lines) \in Lines /\ Last(lines) = lines[Len(lines)] /\ Len(lines) \in 1..Len(lines)
            <4>1. Len(lines) \in 1..Len(lines)
                BY <1>3, <2>1
            <4> QED
                BY <1>3, <4>1 DEF Last
        <3>4. Last(lines) \notin Entries
            <4>1. \A l \in Entries : l.id # 0 /\ l.id # -1
                BY LineKinds
            <4> QED
                BY <3>2, <4>1
        <3>5. Last(lines) # Header
            <4> SUFFICES ASSUME Last(lines) = Header PROVE FALSE
                OBVIOUS
            <4>1. Len(lines) = 1
                BY <1>3, <3>3 DEF LinesOk
            <4>2. <<Header>> \in Seq(Lines) /\ Len(<<Header>>) = 1 /\ <<Header>>[1] = Header
                BY LineKinds
            <4>3. lines = <<Header>>
                BY <1>3, <3>3, <4>1, <4>2, SeqEqual
            <4> QED
                BY <3>2, <4>3
        <3>6. Last(lines) = Junk
            BY <3>3, <3>4, <3>5, LineKinds
        <3>7. lines' = lines
            BY <1>3, <2>1, <3>1, <3>6, JunkStays
        <3> QED
            BY <1>2, <2>1, <3>7
    <2>2. CASE ~torn
        <3>1. lines' = Append(lines, Junk)
            BY <1>3, <1>4, <1>7, <2>2, BehindIs
        <3> QED
            BY <1>3, <1>4, <1>5, <2>2, <3>1, HeldAndLine
    <2> QED
        BY <2>1, <2>2
<1> QED
    BY <1>2, <1>6, <1>7

LEMMA FlushedStep ==
    ASSUME FileInv, up, flushed, NEW e, NEW all, Adds(e, all), exists' = TRUE,
           \/ /\ lines' = Behind(<<e>>) /\ Eats(<<e>>) /\ flushed' = TRUE
              /\ acked' = acked \cup (Ids(<<e>>) \ {0}) /\ Written
           \/ \E n \in 0..Len(<<e>>) - 1, part \in Parts :
                  LET got == Broken(<<e>>, n, part)
                  IN  /\ lines' = Behind(got) /\ Eats(got)
                      /\ torn' = (part # "none" \/ (torn /\ got = <<>>))
                      /\ UNCHANGED <<flushed, acked>>
                      /\ BreaksOff
    PROVE  FileInv'
<1>1. /\ made \in Nat /\ made \in Int /\ LinesOk(lines, made) /\ torn \in BOOLEAN /\ (torn => lines # <<>>)
      /\ failures \in 0..MaxFailures /\ crashes \in 0..MaxCrashes /\ behind \in BOOLEAN /\ Ordered(entries, made)
    BY SessionAssumption DEF FileInv, FlagInv, OrderInv
<1>2. e \in Lines /\ Junk \in Lines /\ e.id \in 1..MaxEntries /\ Ids(<<e>>) = {e.id}
    <2>1. <<e>> \in Seq(Entries) /\ Len(<<e>>) = 1 /\ <<e>>[1] = e
        BY DEF Adds
    <2>2. Ids(<<e>>) = {<<e>>[i].id : i \in 1..Len(<<e>>)}
        BY <2>1, IdsAre
    <2>3. Ids(<<e>>) = {e.id}
        BY <2>1, <2>2
    <2> QED
        BY <2>3, LineKinds DEF Adds
<1>3. CASE /\ lines' = Behind(<<e>>) /\ Eats(<<e>>) /\ flushed' = TRUE
           /\ acked' = acked \cup (Ids(<<e>>) \ {0}) /\ Written
    <2>1. /\ torn' = FALSE /\ up' = up /\ behind' = behind /\ failures' = failures /\ crashes' = crashes
        BY <1>3 DEF Written, faults
    <2>2. acked' = acked \cup {e.id}
        <3>1. {e.id} \ {0} = {e.id}
            BY <1>2
        <3> QED
            BY <1>2, <1>3, <3>1
    <2>3. FlagInv' /\ OrderInv' /\ AckInv'
        BY <1>1, <1>3, <2>1, <2>2, FlushedAppend
    <2>4. MemoryInv'
        <3> SUFFICES ASSUME Faultless' PROVE ParentFirst(all) /\ Holds(lines', torn', all)
            BY <1>3, <2>1 DEF MemoryInv, Adds
        <3>1. eaten \subseteq eaten' /\ (spoiled => spoiled')
            BY <1>3, LineAdded DEF Adds
        <3> QED
            BY <1>3, <2>1, <3>1, FlushedHeld
    <2> QED
        BY <2>3, <2>4 DEF FileInv
<1>4. ASSUME NEW n \in 0..Len(<<e>>) - 1, NEW part \in Parts, NEW got, got = Broken(<<e>>, n, part),
             lines' = Behind(got), Eats(got), torn' = (part # "none" \/ (torn /\ got = <<>>)),
             flushed' = flushed, acked' = acked, BreaksOff
      PROVE  FileInv'
    <2>1. n = 0 /\ Len(<<e>>) = 1
        <3>1. Len(<<e>>) = 1
            OBVIOUS
        <3> QED
            BY <3>1
    <2>2. /\ failures' \in 0..MaxFailures /\ crashes' \in 0..MaxCrashes
          /\ up' \in BOOLEAN /\ behind' \in BOOLEAN
          /\ (behind' = TRUE /\ up' = up) \/ (behind' = behind /\ up' = FALSE)
        BY <1>4, BreakOutcomes DEF FileInv
    <2>3. /\ part = "none" => got = <<>>
          /\ part = "half" => got = <<Junk>>
          /\ part = "line" => got = <<e>>
        <3>1. SubSeq(<<e>>, 1, 0) = <<>> /\ <<e>>[0 + 1] = e /\ \A x : Append(<<>>, x) = <<x>>
            OBVIOUS
        <3>2. got = Broken(<<e>>, 0, part)
            BY <1>4, <2>1
        <3>3. part = "none" => Broken(<<e>>, 0, part) = SubSeq(<<e>>, 1, 0)
            BY DEF Broken
        <3>4. part = "half" => Broken(<<e>>, 0, part) = Append(SubSeq(<<e>>, 1, 0), Junk)
            BY DEF Broken
        <3>5. part = "line" => Broken(<<e>>, 0, part) = Append(SubSeq(<<e>>, 1, 0), <<e>>[0 + 1])
            BY DEF Broken
        <3> QED
            BY <3>1, <3>2, <3>3, <3>4, <3>5
    <2>4. \/ part = "none" /\ lines' = lines /\ eaten' = eaten /\ spoiled' = spoiled /\ torn' = torn
          \/ part = "half" /\ lines' = Behind(<<Junk>>) /\ Eats(<<Junk>>) /\ torn' = TRUE
          \/ part = "line" /\ lines' = Behind(<<e>>) /\ Eats(<<e>>) /\ torn' = TRUE
        BY <1>1, <1>4, <2>3, BehindIs DEF Parts
    <2>5. torn' \in BOOLEAN
        BY <1>1, <2>4
    <2>6. FlagInv' /\ OrderInv' /\ AckInv'
        BY <1>4, <2>2, <2>4, <2>5, FlushedAppend
    <2>7. MemoryInv'
        <3> SUFFICES ASSUME Faultless', ~up', behind' = behind PROVE FileKept(lines', torn')
            BY <2>2 DEF MemoryInv, Faultless
        <3>1. eaten \subseteq eaten' /\ (spoiled => spoiled')
            <4>1. CASE lines' = lines /\ eaten' = eaten /\ spoiled' = spoiled
                BY <4>1
            <4>2. CASE lines' = Behind(<<Junk>>) /\ Eats(<<Junk>>)
                BY <4>2, LineAdded DEF Adds
            <4>3. CASE lines' = Behind(<<e>>) /\ Eats(<<e>>)
                BY <4>3, LineAdded DEF Adds
            <4> QED
                BY <2>4, <4>1, <4>2, <4>3
        <3>2. /\ Holds(lines, torn, entries) /\ ParentFirst(entries) /\ ParentFirst(all)
              /\ lines' = Behind(<<e>>) /\ Eats(<<e>>) => ~torn /\ \A half : Holds(lines', half, all)
              /\ lines' = Behind(<<Junk>>) /\ Eats(<<Junk>>) => Holds(lines', TRUE, entries)
            BY <3>1, FlushedHeld
        <3>3. /\ made + 1 \in Int /\ LinesOk(lines', made + 1)
              /\ Ordered(all, made + 1) /\ Ordered(entries, made + 1)
            <4>1. made + 1 \in Int /\ made <= made + 1
                BY <1>1
            <4> QED
                BY <1>1, <2>6, <4>1, MoreMade DEF OrderInv, Adds
        <3>4. Holds(lines', torn', entries) \/ Holds(lines', torn', all)
            BY <2>4, <3>2
        <3> QED
            BY <3>2, <3>3, <3>4, KeptIfHeld
    <2> QED
        BY <2>6, <2>7 DEF FileInv
<1> QED
    BY <1>3, <1>4

(* The first write, of everything.                                         *)
LEMMA FirstWrite ==
    ASSUME FileInv, up, ~flushed, ~exists, NEW e, NEW all, Adds(e, all), exists' = TRUE,
           NEW text, text = <<Header>> \o all,
           \/ /\ lines' = Behind(text) /\ Eats(text) /\ flushed' = TRUE
              /\ acked' = acked \cup (Ids(text) \ {0}) /\ Written
           \/ \E n \in 0..Len(text) - 1, part \in Parts :
                  LET got == Broken(text, n, part)
                  IN  /\ lines' = Behind(got) /\ Eats(got)
                      /\ torn' = (part # "none" \/ (torn /\ got = <<>>))
                      /\ UNCHANGED <<flushed, acked>>
                      /\ BreaksOff
    PROVE  FileInv'
<1>1. /\ made \in Nat /\ made + 1 \in Int /\ made + 1 \in 0..MaxEntries /\ MaxEntries \in Nat
      /\ lines = <<>> /\ ~torn /\ failures \in 0..MaxFailures /\ crashes \in 0..MaxCrashes
      /\ behind \in BOOLEAN /\ spoiled \in BOOLEAN /\ eaten \subseteq 1..MaxEntries /\ acked \subseteq 1..MaxEntries
    BY SessionAssumption DEF FileInv, FlagInv, Adds
<1>2. Ordered(all, made + 1) /\ leaf' \in Ids(entries') /\ entries' = all /\ made' = made + 1
    BY DEF Adds
<1>3. ~spoiled => acked = {}
    BY DEF FileInv, AckInv
<1>4. /\ LinesOk(text, made + 1) /\ LineIds(text) = Ids(all) /\ HeaderFirst(text)
      /\ Holds(text, FALSE, all) /\ Len(text) = Len(all) + 1
    <2>1. \A half : Holds(text, half, all)
        BY <1>1, <1>2, LinesWhole
    <2> QED
        BY <1>1, <1>2, <2>1, LinesWhole
<1>5. /\ \A got : Eats(got) => eaten' = eaten /\ spoiled' = spoiled
      /\ \A got \in Seq(Lines) : Behind(got) = got
    <2>1. \A got \in Seq(Lines) : <<>> \o got = got
        OBVIOUS
    <2> QED
        BY <1>1, <2>1 DEF Eats, Behind
<1>6. text \in Seq(Lines) /\ Len(all) \in Nat /\ all \in Seq(Entries)
    BY <1>2, <1>4 DEF LinesOk, Ordered
<1>7. Ids(all) \subseteq 1..MaxEntries /\ Ids(text) \ {0} \subseteq Ids(all)
    <2>1. Ids(all) = {all[i].id : i \in 1..Len(all)} /\ \A i \in 1..Len(all) : all[i] \in Entries
        BY <1>6, IdsAre
    <2>2. Ids(all) \subseteq 1..MaxEntries
        BY <2>1, LineKinds
    <2>3. <<Header>> \in Seq(Lines) /\ all \in Seq(Lines)
        BY <1>6, LineKinds
    <2>4. \A i \in 1..Len(text) : text[i] = Header \/ \E j \in 1..Len(all) : text[i] = all[j]
        <3> SUFFICES ASSUME NEW i \in 1..Len(text)
                     PROVE  text[i] = Header \/ \E j \in 1..Len(all) : text[i] = all[j]
            OBVIOUS
        <3>1. CASE i = 1
            BY <1>4, <3>1 DEF HeaderFirst
        <3>2. CASE i # 1
            <4>1. i - 1 \in 1..Len(all) /\ (i - 1) + 1 = i
                BY <1>4, <1>6, <3>2
            <4>2. text[(i - 1) + 1] = all[i - 1]
                BY <1>4, <4>1 DEF Holds
            <4> QED
                BY <4>1, <4>2
        <3> QED
            BY <3>1, <3>2
    <2>5. Ids(text) = {text[i].id : i \in 1..Len(text)}
        <3>1. \A ls \in Seq(Lines) : Ids(ls) = {ls[i].id : i \in 1..Len(ls)}
            BY IdsAre
        <3> QED
            BY <1>6, <3>1
    <2>6. Ids(text) \ {0} \subseteq Ids(all)
        BY <2>1, <2>4, <2>5, LineKinds
    <2> QED
        BY <2>2, <2>6
<1>8. CASE /\ lines' = Behind(text) /\ Eats(text) /\ flushed' = TRUE
           /\ acked' = acked \cup (Ids(text) \ {0}) /\ Written
    <2>1. /\ torn' = FALSE /\ up' = up /\ behind' = behind /\ failures' = failures /\ crashes' = crashes
          /\ lines' = text /\ eaten' = eaten /\ spoiled' = spoiled
        BY <1>5, <1>6, <1>8 DEF Written, faults
    <2>2. acked' \subseteq 1..MaxEntries /\ (~spoiled => acked' \subseteq Ids(all))
        BY <1>1, <1>3, <1>7, <1>8
    <2>3. FlagInv'
        BY <1>1, <1>2, <1>8, <2>1, <2>2 DEF FlagInv
    <2>4. OrderInv'
        BY <1>2, <1>4, <2>1 DEF OrderInv
    <2>5. AckInv'
        <3>1. ~spoiled' => acked' \subseteq LineIds(lines') /\ acked' \subseteq Ids(entries')
            BY <1>2, <1>4, <2>1, <2>2
        <3> QED
            BY <1>4, <1>8, <2>1, <3>1 DEF AckInv
    <2>6. MemoryInv'
        <3>1. Faultless' => ParentFirst(all)
            BY <2>1 DEF FileInv, MemoryInv, Faultless, Adds
        <3>2. Holds(lines', torn', entries')
            BY <1>2, <1>4, <2>1
        <3> QED
            BY <1>2, <1>8, <2>1, <3>1, <3>2 DEF MemoryInv
    <2> QED
        BY <2>3, <2>4, <2>5, <2>6 DEF FileInv
<1>9. ASSUME NEW n \in 0..Len(text) - 1, NEW part \in Parts, NEW got, got = Broken(text, n, part),
             lines' = Behind(got), Eats(got), torn' = (part # "none" \/ (torn /\ got = <<>>)),
             flushed' = flushed, acked' = acked, BreaksOff
      PROVE  FileInv'
    <2>1. LinesOk(got, made + 1) /\ (part # "none" => got # <<>>)
        BY <1>1, <1>4, <1>9, LinesBroken, BrokenSome
    <2>2. lines' = got /\ eaten' = eaten /\ spoiled' = spoiled /\ torn' = (part # "none")
        <3>1. got \in Seq(Lines)
            BY <2>1 DEF LinesOk
        <3> QED
            BY <1>1, <1>5, <1>9, <3>1
    <2>3. /\ failures' \in 0..MaxFailures /\ crashes' \in 0..MaxCrashes
          /\ up' \in BOOLEAN /\ behind' \in BOOLEAN
          /\ (behind' = TRUE /\ up' = up) \/ (behind' = behind /\ up' = FALSE)
        BY <1>9, BreakOutcomes DEF FileInv
    <2>4. torn' \in BOOLEAN /\ (torn' => lines' # <<>>) /\ flushed' = FALSE
        BY <1>9, <2>1, <2>2 DEF FileInv, FlagInv
    <2>5. FlagInv'
        BY <1>1, <1>2, <1>9, <2>2, <2>3, <2>4 DEF FlagInv
    <2>6. OrderInv'
        BY <1>2, <2>1, <2>2 DEF OrderInv
    <2>7. AckInv'
        BY <1>3, <1>9, <2>2, <2>4 DEF AckInv
    <2>8. MemoryInv'
        <3> SUFFICES ASSUME Faultless', ~up', behind' = behind PROVE FileKept(lines', torn')
            BY <2>3 DEF MemoryInv, Faultless
        <3>1. ParentFirst(all)
            BY <2>2 DEF FileInv, MemoryInv, Faultless, Adds
        <3>2. n \in 0..Len(all)
            BY <1>4, <1>6
        <3>3. CASE got \in {<<>>, <<Junk>>}
            BY <2>2, <3>3 DEF FileKept
        <3>4. CASE \E k \in 0..Len(all) : Holds(got, part # "none", SubSeq(all, 1, k))
            <4>1. PICK k \in 0..Len(all) : Holds(got, part # "none", SubSeq(all, 1, k))
                BY <3>4
            <4>2. Ordered(SubSeq(all, 1, k), made + 1) /\ ParentFirst(SubSeq(all, 1, k))
                BY <1>1, <1>2, <3>1, FirstEntries
            <4> DEFINE some == SubSeq(all, 1, k)
            <4> HIDE DEF some
            <4>3. Ordered(some, made + 1) /\ ParentFirst(some) /\ Holds(lines', torn', some)
                BY <2>2, <4>1, <4>2 DEF some
            <4>4. LinesOk(lines', made + 1)
                BY <2>1, <2>2
            <4> QED
                BY <1>1, <4>3, <4>4, KeptIfHeld
        <3>5. \/ got \in {<<>>, <<Junk>>}
              \/ \E k \in 0..Len(all) : Holds(got, part # "none", SubSeq(all, 1, k))
            BY <1>1, <1>2, <1>9, <3>2, WholeBroken
        <3> QED
            BY <3>3, <3>4, <3>5
    <2> QED
        BY <2>5, <2>6, <2>7, <2>8 DEF FileInv
<1> QED
    BY <1>8, <1>9

(* A new entry.                                                            *)
LEMMA AppendStep ==
    ASSUME FileInv, NEW parent \in Ids(entries) \cup {0}, NEW kind \in Kinds, AppendTo(parent, kind)
    PROVE  FileInv'
<1> DEFINE e == [id |-> made + 1, parent |-> parent, kind |-> kind]
           all == Append(entries, e)
           text == Text(e, all)
           whole == \/ lines' = Behind(text) /\ Eats(text) /\ flushed' = TRUE
                       /\ acked' = acked \cup (Ids(text) \ {0}) /\ Written
                    \/ \E n \in 0..Len(text) - 1, part \in Parts :
                           LET got == Broken(text, n, part)
                           IN  /\ lines' = Behind(got) /\ Eats(got)
                               /\ torn' = (part # "none" \/ (torn /\ got = <<>>))
                               /\ UNCHANGED <<flushed, acked>>
                               /\ BreaksOff
<1>1. up /\ made < MaxEntries /\ made' = made + 1 /\ entries' = all /\ leaf' = e.id
    BY DEF AppendTo
<1>2. made \in Nat /\ Ordered(entries, made)
    BY SessionAssumption DEF FileInv, FlagInv, OrderInv
<1>3. Adds(e, all)
    <2>1. /\ e \in Entries /\ e.id = made + 1
          /\ Ordered(all, made + 1)
          /\ Ids(all) = Ids(entries) \cup {e.id}
          /\ ParentFirst(entries) => ParentFirst(all)
        BY <1>1, <1>2, EntryAdded
    <2> HIDE DEF e
    <2> QED
        BY <1>1, <2>1 DEF Adds
<1>4. \/ text = <<>> /\ NothingWritten /\ UNCHANGED flushed
      \/ text # <<>> /\ ~flushed /\ CreateRefused
         /\ behind' = TRUE
         /\ UNCHANGED <<up, file, flushed, acked, eaten, spoiled, faults>>
      \/ text # <<>> /\ (flushed \/ ~CreateRefused) /\ exists' = TRUE /\ whole
    BY DEF AppendTo
<1>5. /\ flushed => text = <<e>>
      /\ ~flushed /\ text # <<>> => text = <<Header>> \o all
    BY DEF Text
<1>6. <<e>> # <<>>
    OBVIOUS
<1> HIDE DEF e, all, text
<1>7. CASE text = <<>> /\ NothingWritten /\ UNCHANGED flushed
    <2>1. ~flushed
        BY <1>5, <1>6, <1>7
    <2>2. UNCHANGED <<file, flushed, acked, eaten, spoiled, failures, crashes, up>> /\ behind' = behind
        BY <1>7 DEF NothingWritten, file, history, faults
    <2> QED
        BY <1>1, <1>3, <2>1, <2>2, InMemoryOnly
<1>8. CASE text # <<>> /\ ~flushed /\ CreateRefused
           /\ behind' = TRUE
           /\ UNCHANGED <<up, file, flushed, acked, eaten, spoiled, faults>>
    <2>1. UNCHANGED <<file, flushed, acked, eaten, spoiled, failures, crashes, up>>
        BY <1>8 DEF file, faults
    <2> QED
        BY <1>1, <1>3, <1>8, <2>1, InMemoryOnly
<1>9. CASE text # <<>> /\ (flushed \/ ~CreateRefused) /\ exists' = TRUE /\ whole
    <2>1. CASE flushed
        <3>1. text = <<e>>
            BY <1>5, <2>1
        <3> QED
            BY <1>1, <1>3, <1>9, <2>1, <3>1, FlushedStep
    <2>2. CASE ~flushed
        <3>1. text = <<Header>> \o all /\ ~exists
            BY <1>5, <1>9, <2>2 DEF CreateRefused
        <3> QED
            BY <1>1, <1>3, <1>9, <2>2, <3>1, FirstWrite
    <2> QED
        BY <2>1, <2>2
<1> QED
    BY <1>4, <1>7, <1>8, <1>9

LEMMA FileStep == FileInv /\ [FileNext]_sessionVars => FileInv'
<1> SUFFICES ASSUME FileInv, [FileNext]_sessionVars PROVE FileInv'
    OBVIOUS
<1>1. leaf \in Ids(entries) \cup {0}
    BY DEF FileInv, FlagInv
<1>2. ASSUME NEW kind \in Kinds, Add(kind) PROVE FileInv'
    BY <1>1, <1>2, AppendStep DEF Add
<1>3. ASSUME NEW id \in 0..MaxEntries, Branch(id) PROVE FileInv'
    BY <1>3, BranchStep
<1>4. ASSUME NEW id \in 0..MaxEntries, BranchWithSummary(id) PROVE FileInv'
    <2>1. id \in Ids(entries) \cup {0} /\ AppendTo(id, "other") /\ "other" \in Kinds
        BY <1>4 DEF BranchWithSummary, Kinds
    <2> QED
        BY <2>1, AppendStep
<1>5. ASSUME NEW id \in 0..MaxEntries, Fork(id) PROVE FileInv'
    BY <1>5, ForkStep
<1>6. CASE Materialize
    BY <1>6, MaterializeStep
<1>7. CASE Stop
    BY <1>7, StopStep
<1>8. CASE Open
    BY <1>8, OpenStep
<1>9. CASE UNCHANGED sessionVars
    BY <1>9, FileStutter
<1> QED
    BY <1>2, <1>3, <1>4, <1>5, <1>6, <1>7, <1>8, <1>9 DEF FileNext

(* The invariant implies what it is for.                                   *)
LEMMA OneCopyHolds == FileInv => OneCopy
<1> SUFFICES ASSUME FileInv PROVE OneCopy
    OBVIOUS
<1>1. /\ LinesOk(lines, made) /\ made \in Int /\ lines \in Seq(Lines) /\ DOMAIN lines = 1..Len(lines)
      /\ \A i \in 1..Len(lines) : lines[i] \in Lines
    BY DEF FileInv, FlagInv, OrderInv, LinesOk
<1>2. ASSUME NEW i \in 1..Len(lines), NEW j \in 1..Len(lines), lines[i] # Junk, lines[i].id = lines[j].id
      PROVE  i = j
    <2>1. CASE lines[i] = Header
        <3>1. lines[j].id = 0
            BY <1>2, <2>1, LineKinds
        <3>2. lines[j] = Header
            <4>1. lines[j] \notin Entries
                BY <3>1, LineKinds
            <4>2. lines[j] # Junk
                BY <3>1, LineKinds
            <4> QED
                BY <1>1, <4>1, <4>2, LineKinds
        <3> QED
            BY <1>1, <2>1, <3>2 DEF LinesOk
    <2>2. CASE lines[i] \in Entries
        <3>1. lines[i].id \in 1..MaxEntries
            BY <2>2, LineKinds
        <3>2. lines[j] \in Entries
            <4>1. lines[j].id # 0 /\ lines[j].id # -1
                BY <1>2, <3>1
            <4> QED
                BY <1>1, <4>1, LineKinds
        <3>3. i < j => lines[i].id < lines[j].id
            BY <1>1, <2>2, <3>2 DEF LinesOk
        <3>4. j < i => lines[j].id < lines[i].id
            BY <1>1, <2>2, <3>2 DEF LinesOk
        <3> QED
            BY <1>2, <3>1, <3>3, <3>4
    <2> QED
        BY <1>1, <1>2, <2>1, <2>2, LineKinds
<1>3. ASSUME Header \in Range(lines) PROVE IsSession(lines)
    <2>1. PICK i \in 1..Len(lines) : lines[i] = Header
        BY <1>1, <1>3 DEF Range
    <2>2. i = 1
        BY <1>1, <2>1 DEF LinesOk
    <2>3. HeaderFirst(lines)
        BY <1>1, <2>1, <2>2 DEF HeaderFirst
    <2> QED
        BY <1>1, <2>3, SessionHasHeader
<1> QED
    BY <1>1, <1>2, <1>3 DEF OneCopy

LEMMA MemoryHolds == FileInv => FileIsMemory
<1> SUFFICES ASSUME FileInv, up, flushed, Faultless
             PROVE  /\ Loaded(lines) = entries
                    /\ \A e \in Range(entries) : e.parent \in Ids(entries) \cup {0}
    BY DEF FileIsMemory, Faultless
<1>1. Holds(lines, torn, entries) /\ ParentFirst(entries)
    BY DEF FileInv, MemoryInv
<1>2. LinesOk(lines, made) /\ Ordered(entries, made) /\ made \in Int
    BY DEF FileInv, OrderInv, FlagInv
<1>3. Loaded(lines) = entries
    BY <1>1, <1>2, LoadedHeld
<1>4. entries \in Seq(Entries) /\ DOMAIN entries = 1..Len(entries) /\ Len(entries) \in Nat
    BY <1>2 DEF Ordered
<1>5. Ids(entries) = {entries[i].id : i \in 1..Len(entries)}
    BY <1>4, IdsAre
<1>6. ASSUME NEW e \in Range(entries)
      PROVE  e.parent \in Ids(entries) \cup {0}
    <2>1. PICK i \in 1..Len(entries) : e = entries[i]
        BY <1>4 DEF Range
    <2>2. CASE entries[i].parent = 0
        BY <2>1, <2>2
    <2>3. CASE entries[i].parent # 0
        <3>1. PICK j \in 1..i - 1 : entries[j].id = entries[i].parent
            BY <1>1, <2>3 DEF ParentFirst
        <3>2. j \in 1..Len(entries)
            BY <1>4
        <3> QED
            BY <1>5, <2>1, <3>1, <3>2
    <2> QED
        BY <2>2, <2>3
<1> QED
    BY <1>3, <1>6

LEMMA FileTypeHolds == FileInv => FileTypeOK
<1> SUFFICES ASSUME FileInv PROVE FileTypeOK
    OBVIOUS
<1>1. Range(entries) \subseteq Entries
    BY DEF FileInv, OrderInv, Ordered, Range
<1>2. Range(lines) \subseteq Lines
    BY DEF FileInv, OrderInv, LinesOk, Range
<1> QED
    BY <1>1, <1>2 DEF FileInv, FlagInv, FileTypeOK

LEMMA AckedHolds == FileInv => AckedKept
<1> SUFFICES ASSUME FileInv, ~spoiled PROVE acked \subseteq Ids(Loaded(lines)) \cup eaten
    BY DEF AckedKept
<1>1. LinesOk(lines, made) /\ made \in Int
    BY DEF FileInv, OrderInv, FlagInv
<1>2. CASE flushed
    <2>1. HeaderFirst(lines) /\ acked \subseteq LineIds(lines) \cup eaten
        BY <1>2 DEF FileInv, AckInv
    <2>2. LineIds(lines) \subseteq Ids(Loaded(lines))
        BY <1>1, <2>1, LoadedIds
    <2> QED
        BY <2>1, <2>2
<1>3. CASE ~flushed
    BY <1>3 DEF FileInv, AckInv
<1> QED
    BY <1>2, <1>3 DEF FileInv, FlagInv

LEMMA FileAlways == FileSpec => []FileInv
<1>1. FileInit => FileInv
    BY FileStart
<1>2. FileInv /\ [FileNext]_sessionVars => FileInv'
    BY FileStep
<1> QED
    BY <1>1, <1>2, PTL DEF FileSpec

(* The session file can be read, has one header and no entry twice, and    *)
(* what is read of it is the session: whatever is appended, branched,      *)
(* forked and rewritten, and whichever writes fail or are cut short by the *)
(* death of the process, for any number of them.                           *)
THEOREM FileStaysSound == FileSpec => []FileSound
<1>1. FileInv => FileSound
    BY FileTypeHolds, MemoryHolds, OneCopyHolds DEF FileSound
<1> QED
    BY <1>1, FileAlways, PTL

(* An entry whose append has returned is read back, after any failures,    *)
(* deaths and restarts: _persist and loadEntriesFromFile lose only what    *)
(* was in a torn line.                                                     *)
THEOREM AcknowledgedStay == FileSpec => []AckedKept
<1>1. FileInv => AckedKept
    BY AckedHolds
<1> QED
    BY <1>1, FileAlways, PTL
=============================================================================
