---------------------- MODULE FileMutationQueueProofs ----------------------
(***************************************************************************)
(* Proofs about FileMutationQueue, for any number of calls and any paths:  *)
(* type correctness, the order in which mutations of one key take effect,  *)
(* and the exactness of the map.                                           *)
(***************************************************************************)
EXTENDS FileMutationQueue, TLAPS

(* Registrations settle in the order of the calls.                         *)
RegistrationInv ==
    /\ \A c \in Calls : c > calls => pc[c] = "idle"
    /\ \A a, b \in Calls : a < b /\ pc[b] \notin {"idle", "called"} => Settled(a)

(* pred[b] is the last mutation of the key registered before b, and there  *)
(* is none only when those are all done.                                   *)
PredInv ==
    \A b \in Calls : Registered(b) =>
        /\ pred[b] # None =>
              /\ pred[b] \in Calls /\ pred[b] < b
              /\ Registered(pred[b]) /\ key[pred[b]] = key[b]
        /\ \A e \in Calls :
              /\ Registered(e) /\ key[e] = key[b] /\ e < b
              => IF pred[b] = None THEN pc[e] = "done" ELSE e <= pred[b]

(* The map names the last mutation registered for a key while it, or one   *)
(* before it, is not done.                                                 *)
TailInv ==
    \A p \in Paths :
        IF tail[p] = None
        THEN \A c \in Calls : key[c] = p => ~Holding(c)
        ELSE /\ tail[p] \in Calls /\ Holding(tail[p]) /\ key[tail[p]] = p
             /\ \A c \in Calls : Registered(c) /\ key[c] = p => c <= tail[p]

QueueInv == TypeOK /\ RegistrationInv /\ PredInv /\ TailInv /\ ServedInOrder

-----------------------------------------------------------------------------
LEMMA KeyOfType ==
    ASSUME TypeOK, NEW p \in Paths PROVE KeyOf(p) \in Paths
BY PathsAssumption DEF KeyOf

LEMMA TailWithoutType ==
    ASSUME TypeOK, NEW c \in Calls
    PROVE  TailWithout(c) \in [Paths -> Calls \cup {None}]
BY DEF TailWithout, TypeOK

LEMMA NextOperationType ==
    ASSUME NEW c
    PROVE  NextOperation(c) \in {"none", "read", "write"}
BY DEF NextOperation

LEMMA TypeInit == Init => TypeOK
<1>1. (CHOOSE p \in Paths : TRUE) \in Paths
    BY PathsAssumption
<1>2. SUFFICES ASSUME Init PROVE TypeOK
    OBVIOUS
<1>3. path \in [Calls -> Paths] /\ key \in [Calls -> Paths]
    BY <1>1, <1>2 DEF Init
<1>4. calls \in 0..MaxCalls
    BY <1>2, CallsAssumption DEF Init
<1>5. content \in [Files -> Calls \cup {Missing, Original}]
    BY <1>2 DEF Init
<1> QED BY <1>2, <1>3, <1>4, <1>5 DEF Init, TypeOK, Kinds

LEMMA TypeStep == TypeOK /\ RegistrationInv /\ [Next]_vars => TypeOK'
<1> SUFFICES ASSUME TypeOK, RegistrationInv, [Next]_vars PROVE TypeOK'
    OBVIOUS
<1>1. CASE UNCHANGED vars
    BY <1>1 DEF TypeOK, vars, callVars, chainVars, fileVars
<1>2. ASSUME NEW c \in Calls, NEW k \in Kinds, NEW p \in Paths, Call(c, k, p) PROVE TypeOK'
    <2>1. calls' \in 0..MaxCalls /\ pc[c] = "idle"
        BY <1>2, CallsAssumption DEF TypeOK, RegistrationInv, Call, Calls
    <2> QED BY <1>2, <2>1 DEF TypeOK, Call, chainVars, fileVars
<1>3. ASSUME NEW c \in Calls, LookUp(c) PROVE TypeOK'
    <2>1. KeyOf(path[c]) \in Paths
        BY KeyOfType DEF TypeOK
    <2> QED BY <1>3, <2>1 DEF TypeOK, LookUp, callVars, fileVars
<1>4. ASSUME NEW c \in Calls, LookUpFails(c) PROVE TypeOK'
    BY <1>4 DEF TypeOK, LookUpFails, callVars, chainVars, fileVars
<1>5. ASSUME NEW c \in Calls, Register(c) PROVE TypeOK'
    BY <1>5 DEF TypeOK, Register, callVars, fileVars
<1>6. ASSUME NEW c \in Calls, Start(c) PROVE TypeOK'
    <2>1. TailWithout(c) \in [Paths -> Calls \cup {None}]
        BY TailWithoutType
    <2> QED BY <1>6, <2>1 DEF TypeOK, Start, Finish, FirstOperation, callVars
<1>7. ASSUME NEW c \in Calls, NEW ok \in BOOLEAN, Operate(c, ok) PROVE TypeOK'
    <2>1. TailWithout(c) \in [Paths -> Calls \cup {None}]
        BY TailWithoutType
    <2>2. File(c) \in Files
        BY DEF File, Files, TypeOK
    <2>3. NextOperation(c) \in {"none", "read", "write"}
        BY NextOperationType
    <2>4. seen' \in [Calls -> Calls \cup {Missing, Original}]
        BY <1>7, <2>2 DEF TypeOK, Operate
    <2>5. content' \in [Files -> Calls \cup {Missing, Original}]
        BY <1>7, <2>2 DEF TypeOK, Operate
    <2>6. pc[c] = "running"
        BY <1>7 DEF TypeOK, Operate
    <2> QED BY <1>7, <2>1, <2>3, <2>4, <2>5, <2>6 DEF TypeOK, Operate, Finish, callVars
<1>8. ASSUME NEW c \in Calls, Abort(c) PROVE TypeOK'
    BY <1>8 DEF TypeOK, Abort, callVars, chainVars, fileVars
<1> QED BY <1>1, <1>2, <1>3, <1>4, <1>5, <1>6, <1>7, <1>8 DEF Next, Queue, Work

-----------------------------------------------------------------------------
LEMMA QueueInit == Init => QueueInv
<1> SUFFICES ASSUME Init PROVE QueueInv
    OBVIOUS
<1>1. TypeOK
    BY TypeInit
<1> QED BY <1>1 DEF Init, QueueInv, RegistrationInv, PredInv, TailInv, ServedInOrder,
                    Registered, Holding, Calls, None

(* What the mutations look like when c has just been served: the earlier   *)
(* ones of its key are done.                                               *)
LEMMA EarlierDone ==
    ASSUME QueueInv, NEW c \in Calls, Registered(c),
           pc[c] # "waiting" \/ Released(c),
           NEW e \in Calls, Registered(e), key[e] = key[c], e < c
    PROVE  pc[e] = "done"
<1>1. CASE pc[c] # "waiting"
    BY <1>1 DEF QueueInv, ServedInOrder
<1>2. CASE pc[c] = "waiting" /\ pred[c] = None
    BY <1>2 DEF QueueInv, PredInv
<1>3. CASE pc[c] = "waiting" /\ pred[c] # None
    <2>1. /\ pred[c] \in Calls /\ Registered(pred[c]) /\ key[pred[c]] = key[c]
          /\ e <= pred[c]
        BY <1>3 DEF QueueInv, PredInv
    <2>2. pc[pred[c]] = "done"
        BY <1>3 DEF Released
    <2>3. CASE e = pred[c]
        BY <2>2, <2>3
    <2>4. CASE e < pred[c]
        BY <2>1, <2>2, <2>4 DEF QueueInv, ServedInOrder
    <2> QED BY <2>1, <2>3, <2>4 DEF Calls
<1> QED BY <1>1, <1>2, <1>3

(* Every step of a call keeps the chains in order.                         *)
LEMMA QueueStep == QueueInv /\ [Next]_vars => QueueInv'
<1> SUFFICES ASSUME QueueInv, [Next]_vars PROVE QueueInv'
    OBVIOUS
<1> USE DEF QueueInv
<1>0. TypeOK /\ TypeOK'
    BY TypeStep
<1>1. CASE UNCHANGED vars
    BY <1>0, <1>1 DEF vars, callVars, chainVars, RegistrationInv, PredInv, TailInv, ServedInOrder,
                      Registered, Holding, Settled
<1>2. ASSUME NEW c \in Calls, NEW k \in Kinds, NEW p \in Paths, Call(c, k, p) PROVE QueueInv'
    <2>1. /\ pc' = [pc EXCEPT ![c] = "called"] /\ pc[c] = "idle" /\ calls' = c
          /\ UNCHANGED <<key, pred, tail>>
        BY <1>2 DEF Call, chainVars, RegistrationInv, TypeOK, Calls
    <2>2. RegistrationInv'
        BY <1>0, <1>2, <2>1 DEF Call, RegistrationInv, Settled, TypeOK, Calls
    <2>3. PredInv' /\ TailInv' /\ ServedInOrder'
        BY <1>0, <2>1 DEF PredInv, TailInv, ServedInOrder, Registered, Holding, TypeOK
    <2> QED BY <1>0, <2>2, <2>3
<1>3. ASSUME NEW c \in Calls, LookUp(c) \/ LookUpFails(c) PROVE QueueInv'
    <2>1. /\ pc[c] = "called" /\ MyTurn(c) /\ UNCHANGED <<calls, pred, tail>>
          /\ pc' = [pc EXCEPT ![c] = pc'[c]] /\ pc'[c] \in {"resolving", "failed"}
          /\ \A d \in Calls : d # c => key'[d] = key[d]
        BY <1>0, <1>3 DEF LookUp, LookUpFails, callVars, chainVars, TypeOK
    <2>2. \A a \in Calls : a < c => Settled(a)
        <3> SUFFICES ASSUME NEW a \in Calls, a < c PROVE Settled(a)
            OBVIOUS
        <3>1. c - 1 \in Calls /\ Settled(c - 1) /\ a <= c - 1
            BY <2>1, CallsAssumption DEF MyTurn, Calls
        <3>2. CASE a < c - 1
            BY <3>1, <3>2 DEF RegistrationInv, Settled
        <3> QED BY <3>1, <3>2 DEF Calls
    <2>3. RegistrationInv'
        BY <1>0, <2>1, <2>2 DEF RegistrationInv, Settled, TypeOK
    <2>4. PredInv' /\ TailInv' /\ ServedInOrder'
        BY <1>0, <2>1 DEF PredInv, TailInv, ServedInOrder, Registered, Holding, TypeOK
    <2> QED BY <1>0, <2>3, <2>4
<1>4. ASSUME NEW c \in Calls, Register(c) PROVE QueueInv'
    <2>1. /\ pc[c] = "resolving" /\ pc' = [pc EXCEPT ![c] = "waiting"]
          /\ UNCHANGED <<calls, key>> /\ key[c] \in Paths
          /\ pred' = [pred EXCEPT ![c] = tail[key[c]]]
          /\ tail' = [tail EXCEPT ![key[c]] = c]
        BY <1>0, <1>4 DEF Register, callVars, TypeOK
    <2>2. \A a \in Calls : Registered(a) => a < c
        BY <2>1 DEF RegistrationInv, Registered, Settled, Calls
    <2>3. RegistrationInv'
        BY <1>0, <2>1 DEF RegistrationInv, Settled, TypeOK
    <2>4. PredInv'
        <3> SUFFICES ASSUME NEW b \in Calls, Registered(b)'
                     PROVE  /\ pred'[b] # None =>
                                  /\ pred'[b] \in Calls /\ pred'[b] < b
                                  /\ Registered(pred[b])' /\ key'[pred'[b]] = key'[b]
                            /\ \A e \in Calls :
                                  /\ Registered(e)' /\ key'[e] = key'[b] /\ e < b
                                  => IF pred'[b] = None THEN pc'[e] = "done" ELSE e <= pred'[b]
            BY DEF PredInv
        <3>1. CASE b = c
            BY <1>0, <2>1, <2>2, <3>1 DEF TailInv, Registered, Holding, TypeOK, None, Calls
        <3>2. CASE b # c
            <4>1. Registered(b) /\ pred'[b] = pred[b] /\ b < c
                BY <1>0, <2>1, <2>2, <3>2 DEF Registered, TypeOK
            <4> QED BY <1>0, <2>1, <4>1 DEF PredInv, Registered, TypeOK, None, Calls
        <3> QED BY <3>1, <3>2
    <2>5. TailInv'
        BY <1>0, <2>1, <2>2 DEF TailInv, Registered, Holding, TypeOK, None, Calls
    <2>6. ServedInOrder'
        BY <1>0, <2>1, <2>2 DEF ServedInOrder, Registered, TypeOK, Calls
    <2> QED BY <1>0, <2>3, <2>4, <2>5, <2>6
<1>5. ASSUME NEW c \in Calls,
             \/ pc[c] = "waiting" /\ Released(c)
             \/ pc[c] = "running",
             UNCHANGED <<calls, key, pred>>,
             \/ pc' = [pc EXCEPT ![c] = "running"] /\ tail' = tail
             \/ Finish(c)
      PROVE  QueueInv'
    <2>0. Registered(c)
        BY <1>5 DEF Registered
    <2>1. \A e \in Calls : Registered(e) /\ key[e] = key[c] /\ e < c => pc[e] = "done"
        <3>1. pc[c] # "waiting" \/ Released(c)
            BY <1>5
        <3>2. QueueInv
            BY DEF QueueInv
        <3> SUFFICES ASSUME NEW e \in Calls, Registered(e), key[e] = key[c], e < c
                     PROVE  pc[e] = "done"
            OBVIOUS
        <3> HIDE DEF QueueInv
        <3> QED BY <2>0, <3>1, <3>2, EarlierDone
    <2>2. RegistrationInv'
        <3>1. pc' = [pc EXCEPT ![c] = "running"] \/ pc' = [pc EXCEPT ![c] = "done"]
            BY <1>5 DEF Finish
        <3>2. /\ pc'[c] \in {"running", "done"} /\ pc[c] # "idle"
              /\ \A d \in Calls : d # c => pc'[d] = pc[d]
            BY <1>0, <1>5, <3>1 DEF TypeOK
        <3>3. \A d \in Calls :
                 /\ Settled(d) => Settled(d)'
                 /\ pc'[d] = "idle" <=> pc[d] = "idle"
                 /\ pc'[d] \notin {"idle", "called"} => pc[d] \notin {"idle", "called"}
            BY <1>5, <3>2 DEF Settled
        <3>4. calls' = calls
            BY <1>5
        <3>5. (\A d \in Calls : d > calls => pc[d] = "idle")'
            BY <1>0, <3>3, <3>4 DEF RegistrationInv
        <3>6. \A a, b \in Calls : a < b /\ pc'[b] \notin {"idle", "called"} => Settled(a)'
            BY <1>0, <3>3 DEF RegistrationInv
        <3> QED BY <3>5, <3>6 DEF RegistrationInv
    <2>3. \A d \in Calls : Registered(d)' <=> Registered(d)
        BY <1>0, <1>5 DEF Registered, TypeOK, Finish
    <2>4. \A d \in Calls : pc[d] = "done" => pc'[d] = "done"
        BY <1>0, <1>5 DEF TypeOK, Finish
    <2>5. PredInv'
        BY <1>5, <2>3, <2>4 DEF PredInv
    <2>6. TailInv'
        <3>1. CASE pc' = [pc EXCEPT ![c] = "running"] /\ tail' = tail
            BY <1>0, <1>5, <2>3, <3>1 DEF TailInv, Holding, TypeOK
        <3>2. CASE Finish(c) /\ tail[key[c]] # c
            BY <1>0, <1>5, <2>3, <3>2 DEF Finish, TailWithout, TailInv, Holding, TypeOK
        <3>3. CASE Finish(c) /\ tail[key[c]] = c
            <4>1. \A d \in Calls : Registered(d) /\ key[d] = key[c] => d = c \/ pc[d] = "done"
                BY <1>0, <2>1, <3>3 DEF TailInv, TypeOK, None, Calls
            <4>2. \A d \in Calls : key'[d] = key[c] => ~Holding(d)'
                BY <1>0, <1>5, <3>3, <4>1 DEF Finish, Holding, Registered, TypeOK
            <4>3. tail' = [tail EXCEPT ![key[c]] = None] /\ pc' = [pc EXCEPT ![c] = "done"]
                BY <3>3 DEF Finish, TailWithout
            <4> QED BY <1>0, <1>5, <2>3, <4>2, <4>3 DEF TailInv, Holding, TypeOK
        <3> QED BY <1>5, <3>1, <3>2, <3>3
    <2>7. ServedInOrder'
        <3> SUFFICES ASSUME NEW a \in Calls, NEW b \in Calls, Registered(a)', Registered(b)',
                            key'[a] = key'[b], a < b, pc'[b] # "waiting"
                     PROVE  pc'[a] = "done"
            BY DEF ServedInOrder
        <3>1. CASE b = c
            BY <1>5, <2>1, <2>3, <2>4, <3>1
        <3>2. CASE b # c
            BY <1>0, <1>5, <2>3, <2>4, <3>2 DEF ServedInOrder, TypeOK, Finish
        <3> QED BY <3>1, <3>2
    <2> QED BY <1>0, <2>2, <2>5, <2>6, <2>7
<1>6. ASSUME NEW c \in Calls, Start(c) PROVE QueueInv'
    BY <1>5, <1>6 DEF Start, callVars
<1>7. ASSUME NEW c \in Calls, NEW ok \in BOOLEAN, Operate(c, ok) PROVE QueueInv'
    <2>0. pc[c] = "running"
        BY <1>0, <1>7 DEF Operate, TypeOK
    <2>1. UNCHANGED <<calls, key, pred>>
        BY <1>7 DEF Operate, callVars
    <2>2. Finish(c) \/ (pc' = [pc EXCEPT ![c] = "running"] /\ tail' = tail)
        BY <1>0, <1>7, <2>0 DEF Operate, TypeOK
    <2> QED BY <1>5, <2>0, <2>1, <2>2
<1>8. ASSUME NEW c \in Calls, Abort(c) PROVE QueueInv'
    BY <1>0, <1>8 DEF Abort, callVars, chainVars, RegistrationInv, PredInv, TailInv, ServedInOrder,
                      Registered, Holding, Settled
<1> QED BY <1>1, <1>2, <1>3, <1>4, <1>6, <1>7, <1>8 DEF Next, Queue, Work

LEMMA QueueAlways == Spec => []QueueInv
BY QueueInit, QueueStep, PTL DEF Spec

-----------------------------------------------------------------------------
(* What the file operations rely on: the key found on an existing path is  *)
(* the file itself, and an edit that writes has read what is still there,  *)
(* unless a call of the file has another key.                              *)
KeyInv == \A c \in Calls : found[c] => key[c] = File(c) /\ pc[c] \notin {"idle", "called"}

Disturbed(c) == \E d \in Calls : File(d) = File(c) /\ CalledEarly(d)

SeenInv ==
    \A c \in Calls :
        /\ busy[c] = "mkdir" => kind[c] = "write"
        /\ kind[c] = "edit" /\ busy[c] = "write" =>
              content[File(c)] = seen[c] \/ Disturbed(c)

FileInv == QueueInv /\ KeyInv /\ SeenInv

(* Calls of one file that were not called early share its key.             *)
LEMMA Exclusive == QueueInv /\ KeyInv => FileExclusive
<1> SUFFICES ASSUME QueueInv, KeyInv, NEW a \in Calls, NEW b \in Calls, a # b,
                    pc[a] = "running", pc[b] = "running", File(a) = File(b),
                    ~CalledEarly(a), ~CalledEarly(b)
             PROVE  FALSE
    BY DEF FileExclusive
<1>1. Registered(a) /\ Registered(b)
    BY DEF Registered
<1>2. key[a] = key[b]
    BY <1>1 DEF KeyInv, CalledEarly
<1>3. a < b \/ b < a
    BY DEF Calls
<1> QED BY <1>1, <1>2, <1>3 DEF QueueInv, ServedInOrder

LEMMA KeyStep == TypeOK /\ RegistrationInv /\ KeyInv /\ [Next]_vars => KeyInv'
<1> SUFFICES ASSUME TypeOK, RegistrationInv, KeyInv, [Next]_vars PROVE KeyInv'
    OBVIOUS
<1>1. CASE UNCHANGED vars
    BY <1>1 DEF vars, callVars, chainVars, KeyInv, File
<1>2. ASSUME NEW c \in Calls, NEW k \in Kinds, NEW p \in Paths, Call(c, k, p) PROVE KeyInv'
    <2>1. pc[c] = "idle"
        BY <1>2 DEF Call, RegistrationInv, TypeOK, Calls
    <2> QED BY <1>2, <2>1 DEF Call, chainVars, KeyInv, File, TypeOK
<1>3. ASSUME NEW c \in Calls, LookUp(c) PROVE KeyInv'
    <2>1. content[File(c)] # Missing => KeyOf(path[c]) = File(c)
        BY DEF KeyOf, File
    <2> QED BY <1>3, <2>1 DEF LookUp, callVars, KeyInv, File, TypeOK
<1>4. ASSUME NEW c \in Calls, LookUpFails(c) PROVE KeyInv'
    BY <1>4 DEF LookUpFails, callVars, chainVars, KeyInv, File, TypeOK
<1>5. ASSUME NEW c \in Calls, Register(c) PROVE KeyInv'
    BY <1>5 DEF Register, callVars, KeyInv, File, TypeOK
<1>6. ASSUME NEW c \in Calls, Start(c) PROVE KeyInv'
    BY <1>6 DEF Start, Finish, callVars, KeyInv, File, TypeOK
<1>7. ASSUME NEW c \in Calls, NEW ok \in BOOLEAN, Operate(c, ok) PROVE KeyInv'
    BY <1>7 DEF Operate, Finish, callVars, KeyInv, File, TypeOK
<1>8. ASSUME NEW c \in Calls, Abort(c) PROVE KeyInv'
    BY <1>8 DEF Abort, callVars, chainVars, KeyInv, File
<1> QED BY <1>1, <1>2, <1>3, <1>4, <1>5, <1>6, <1>7, <1>8 DEF Next, Queue, Work

(* Once a call has come early to its file, it stays so.                    *)
LEMMA EarlyStays ==
    ASSUME TypeOK, RegistrationInv, [Next]_vars, NEW d \in Calls, CalledEarly(d)
    PROVE  CalledEarly(d)' /\ File(d)' = File(d)
<1> USE DEF CalledEarly, File, Registered
<1>1. CASE UNCHANGED vars
    BY <1>1 DEF vars, callVars, chainVars
<1>2. ASSUME NEW c \in Calls, NEW k \in Kinds, NEW p \in Paths, Call(c, k, p)
      PROVE CalledEarly(d)' /\ File(d)' = File(d)
    <2>1. pc[c] = "idle"
        BY <1>2 DEF Call, RegistrationInv, TypeOK, Calls
    <2> QED BY <1>2, <2>1 DEF Call, chainVars, TypeOK
<1>3. ASSUME NEW c \in Calls, LookUp(c) \/ LookUpFails(c)
      PROVE CalledEarly(d)' /\ File(d)' = File(d)
    BY <1>3 DEF LookUp, LookUpFails, callVars, chainVars, TypeOK
<1>5. ASSUME NEW c \in Calls, Register(c) PROVE CalledEarly(d)' /\ File(d)' = File(d)
    BY <1>5 DEF Register, callVars, TypeOK
<1>6. ASSUME NEW c \in Calls, Start(c) PROVE CalledEarly(d)' /\ File(d)' = File(d)
    BY <1>6 DEF Start, Finish, callVars, TypeOK
<1>7. ASSUME NEW c \in Calls, NEW ok \in BOOLEAN, Operate(c, ok)
      PROVE CalledEarly(d)' /\ File(d)' = File(d)
    BY <1>7 DEF Operate, Finish, callVars, TypeOK
<1>8. ASSUME NEW c \in Calls, Abort(c) PROVE CalledEarly(d)' /\ File(d)' = File(d)
    BY <1>8 DEF Abort, callVars, chainVars
<1> QED BY <1>1, <1>2, <1>3, <1>5, <1>6, <1>7, <1>8 DEF Next, Queue, Work

(* Who operates on a file has called, and its name for it stays.           *)
LEMMA SeenStep == FileInv /\ [Next]_vars => SeenInv'
<1> SUFFICES ASSUME FileInv, [Next]_vars PROVE SeenInv'
    OBVIOUS
<1>0. TypeOK /\ RegistrationInv /\ SeenInv /\ FileExclusive
    BY Exclusive DEF FileInv, QueueInv
<1>9. \A c \in Calls : Disturbed(c) /\ File(c)' = File(c) => Disturbed(c)'
    BY <1>0, EarlyStays DEF Disturbed
<1>1. CASE UNCHANGED vars
    BY <1>0, <1>1 DEF vars, callVars, chainVars, fileVars, SeenInv, Disturbed,
                      CalledEarly, File, Registered
<1>2. ASSUME NEW c \in Calls, NEW k \in Kinds, NEW p \in Paths, Call(c, k, p) PROVE SeenInv'
    <2>1. pc[c] = "idle" /\ busy[c] = "none"
        BY <1>0, <1>2 DEF Call, RegistrationInv, TypeOK, Calls
    <2>2. \A d \in Calls : d # c => kind'[d] = kind[d] /\ File(d)' = File(d)
        BY <1>0, <1>2 DEF Call, File, TypeOK
    <2> QED BY <1>0, <1>2, <1>9, <2>1, <2>2 DEF Call, fileVars, SeenInv
<1>3. ASSUME UNCHANGED callVars, UNCHANGED <<seen, content>>,
             \A c \in Calls : busy'[c] = busy[c] \/ busy'[c] = "none"
      PROVE SeenInv'
    BY <1>0, <1>3, <1>9 DEF callVars, SeenInv, File
<1>4. ASSUME NEW c \in Calls, LookUp(c) \/ LookUpFails(c) \/ Register(c) \/ Abort(c)
      PROVE SeenInv'
    BY <1>3, <1>4 DEF LookUp, LookUpFails, Register, Abort, fileVars
<1>6. ASSUME NEW c \in Calls, Start(c) PROVE SeenInv'
    <2>1. busy' = busy \/ busy' = [busy EXCEPT ![c] = FirstOperation(c)]
        BY <1>6 DEF Start
    <2>2. UNCHANGED callVars /\ UNCHANGED <<seen, content>>
        BY <1>6 DEF Start
    <2> QED BY <1>0, <1>9, <2>1, <2>2 DEF FirstOperation, callVars, SeenInv, File, TypeOK
<1>7. ASSUME NEW c \in Calls, NEW ok \in BOOLEAN, Operate(c, ok) PROVE SeenInv'
    <2>1. UNCHANGED callVars /\ pc[c] = "running" /\ busy[c] # "none"
        BY <1>0, <1>7 DEF Operate, TypeOK
    <2>2. \A d \in Calls : d # c => busy'[d] = busy[d] /\ seen'[d] = seen[d]
        BY <1>0, <1>7 DEF Operate, TypeOK
    <2>3. \A d \in Calls : File(d)' = File(d) /\ kind'[d] = kind[d] /\ File(d) \in Files
        BY <1>0, <2>1 DEF callVars, File, Files, TypeOK
    <2>4. busy'[c] # "mkdir"
        BY <1>0, <1>7, NextOperationType DEF Operate, TypeOK
    <2>5. kind[c] = "edit" /\ busy'[c] = "write" => content'[File(c)] = seen'[c]
        BY <1>0, <1>7, <2>3 DEF Operate, NextOperation, SeenInv, TypeOK
    <2>6. ASSUME NEW d \in Calls, d # c, kind[d] = "edit", busy[d] = "write"
          PROVE  content'[File(d)] = seen'[d] \/ Disturbed(d)'
        <3>1. CASE content'[File(d)] = content[File(d)]
            BY <1>0, <1>9, <2>2, <2>3, <2>6, <3>1 DEF SeenInv
        <3>2. CASE content'[File(d)] # content[File(d)]
            <4>1. File(d) = File(c) /\ pc[d] = "running"
                BY <1>0, <1>7, <2>3, <2>6, <3>2 DEF Operate, TypeOK
            <4>2. CalledEarly(c) \/ CalledEarly(d)
                BY <1>0, <2>1, <2>6, <4>1 DEF FileExclusive
            <4>3. Disturbed(d)
                BY <4>1, <4>2 DEF Disturbed
            <4> QED BY <1>9, <2>3, <4>3
        <3> QED BY <3>1, <3>2
    <2> QED BY <1>0, <2>2, <2>3, <2>4, <2>5, <2>6 DEF SeenInv
<1> QED BY <1>1, <1>2, <1>4, <1>6, <1>7 DEF Next, Queue, Work

LEMMA FileAlways == Spec => []FileInv
<1>1. Init => FileInv
    <2> SUFFICES ASSUME Init PROVE FileInv
        OBVIOUS
    <2>1. QueueInv
        BY QueueInit
    <2> QED BY <2>1 DEF Init, FileInv, KeyInv, SeenInv
<1>2. FileInv /\ [Next]_vars => FileInv'
    BY QueueStep, KeyStep, SeenStep DEF FileInv, QueueInv
<1> QED BY <1>1, <1>2, PTL DEF Spec

-----------------------------------------------------------------------------
(* Every variable of the queue keeps its type.                             *)
THEOREM TypeCorrect == Spec => []TypeOK
<1>1. QueueInv => TypeOK
    BY DEF QueueInv
<1> QED BY <1>1, QueueAlways, PTL

(* withFileMutationQueue serves the mutations of a key in the order of the *)
(* calls, and those of a file one at a time, whatever it is called.        *)
THEOREM Served == Spec => []OneAtATime
<1>1. FileInv => OneAtATime
    BY Exclusive DEF FileInv, QueueInv, OneAtATime
<1> QED BY <1>1, FileAlways, PTL

(* The edit tool replaces what it has read: no write of another call comes *)
(* between, but for calls made before the file existed.                    *)
THEOREM NoUpdateLost == Spec => NoLostUpdate
<1>1. FileInv /\ [Next]_vars =>
        [\A c \in Calls :
           /\ kind[c] = "edit" /\ busy[c] = "write" /\ busy'[c] = "none"
           /\ content'[File(c)] = c
           => \/ content[File(c)] = seen[c]
              \/ \E d \in Calls : File(d) = File(c) /\ CalledEarly(d)]_vars
    BY DEF FileInv, SeenInv, Disturbed
<1> QED BY <1>1, FileAlways, PTL DEF Spec, NoLostUpdate

(* The map fileMutationQueues names the last holder of each key, and has   *)
(* no entry for a key that nobody holds.                                   *)
THEOREM MapCorrect == Spec => []MapExact
<1>1. QueueInv => MapExact
    <2> SUFFICES ASSUME QueueInv, NEW p \in Paths,
                        NEW holders, holders = {c \in Calls : Holding(c) /\ key[c] = p}
                 PROVE  IF holders = {} THEN tail[p] = None
                        ELSE tail[p] \in holders /\ \A c \in holders : c <= tail[p]
        BY DEF MapExact
    <2>1. TailInv
        BY DEF QueueInv
    <2> QED BY <2>1 DEF TailInv, Registered, Holding
<1> QED BY <1>1, QueueAlways, PTL
=============================================================================
