------------------------- MODULE FileMutationQueue -------------------------
(***************************************************************************)
(* core/tools/file-mutation-queue.ts, and the tools `write` and `edit`     *)
(* that go through it.  Tool calls run in parallel; withFileMutationQueue  *)
(* is to run those on one file one after the other, in the order called.   *)
(*                                                                         *)
(* The queue is two kinds of promise chain.  The registrations form one,   *)
(* since finding the key of a path takes an await.  Per key there is a     *)
(* chain of mutations; pred[c] is the mutation before c, and tail is the   *)
(* map fileMutationQueues.  Calls are numbered in the order in which they  *)
(* are made.                                                               *)
(***************************************************************************)
EXTENDS Integers

CONSTANTS
    Paths,           \* absolute paths
    RealPath,        \* what realpath gives for a path whose file exists
    MaxCalls         \* bound: calls of withFileMutationQueue

ASSUME PathsAssumption ==
    /\ Paths # {} /\ RealPath \in [Paths -> Paths]
    /\ \A p \in Paths : RealPath[RealPath[p]] = RealPath[p]
ASSUME CallsAssumption == MaxCalls \in Nat

Calls == 1..MaxCalls
None == 0            \* no call
Missing == 0         \* the content of a file that does not exist,
Original == -1       \* and of one that no call has written

Files == {RealPath[p] : p \in Paths}
Kinds == {"write", "edit"}

VARIABLES
    pc,              \* where each call is
    kind, path,      \* which tool, and its path
    calls,           \* how many calls there were
    found,           \* history: the path existed when its key was looked up
    key, pred, tail, \* the chains of mutations
    busy,            \* the file operation of a call that is under way
    seen,            \* what an edit has read
    content,         \* each file: Missing, Original, or the call that wrote it
    aborted          \* the calls whose signal is aborted

callVars == <<kind, path, calls>>
chainVars == <<found, key, pred, tail>>
fileVars == <<busy, seen, content>>
vars == <<pc, callVars, chainVars, fileVars, aborted>>

File(c) == RealPath[path[c]]
Registered(c) == pc[c] \in {"waiting", "running", "done"}
Holding(c) == pc[c] \in {"waiting", "running"}
Settled(c) == pc[c] \in {"waiting", "running", "done", "failed"}

TypeOK ==
    /\ pc \in [Calls -> {"idle", "called", "resolving", "waiting", "running", "done", "failed"}]
    /\ kind \in [Calls -> Kinds] /\ path \in [Calls -> Paths] /\ calls \in 0..MaxCalls
    /\ found \in [Calls -> BOOLEAN] /\ key \in [Calls -> Paths]
    /\ pred \in [Calls -> Calls \cup {None}]
    /\ tail \in [Paths -> Calls \cup {None}]
    /\ busy \in [Calls -> {"none", "mkdir", "access", "read", "write"}]
    /\ seen \in [Calls -> Calls \cup {Missing, Original}]
    /\ content \in [Files -> Calls \cup {Missing, Original}]
    /\ aborted \subseteq Calls
    /\ \A c \in Calls : busy[c] # "none" <=> pc[c] = "running"

Init ==
    /\ pc = [c \in Calls |-> "idle"]
    /\ kind = [c \in Calls |-> "write"] /\ path = [c \in Calls |-> CHOOSE p \in Paths : TRUE]
    /\ calls = 0
    /\ found = [c \in Calls |-> FALSE] /\ key = path
    /\ pred = [c \in Calls |-> None] /\ tail = [p \in Paths |-> None]
    /\ busy = [c \in Calls |-> "none"] /\ seen = [c \in Calls |-> Missing]
    /\ content \in [Files -> {Missing, Original}]
    /\ aborted = {}

-----------------------------------------------------------------------------
(* withFileMutationQueue up to its first await: the registration joins the *)
(* chain of registrations.                                                 *)
Call(c, k, p) ==
    /\ c = calls + 1
    /\ calls' = c
    /\ kind' = [kind EXCEPT ![c] = k] /\ path' = [path EXCEPT ![c] = p]
    /\ pc' = [pc EXCEPT ![c] = "called"]
    /\ UNCHANGED <<chainVars, fileVars, aborted>>

(* Mutant: the lookups of keys are not chained.                            *)
MyTurnAtOnce(c) == TRUE

(* The registration before c has settled, one way or the other.            *)
MyTurn(c) == c > 1 => Settled(c - 1)

(* getMutationQueueKey: a path that does not exist yet is its own key.     *)
KeyOf(p) == IF content[RealPath[p]] = Missing THEN p ELSE RealPath[p]

LookUp(c) ==
    /\ pc[c] = "called" /\ MyTurn(c)
    /\ pc' = [pc EXCEPT ![c] = "resolving"]
    /\ key' = [key EXCEPT ![c] = KeyOf(path[c])]
    /\ found' = [found EXCEPT ![c] = content[File(c)] # Missing]
    /\ UNCHANGED <<callVars, pred, tail, fileVars, aborted>>

(* realpath fails for another reason than a missing path: the call rejects *)
(* and the next registration proceeds.                                     *)
LookUpFails(c) ==
    /\ pc[c] = "called" /\ MyTurn(c)
    /\ pc' = [pc EXCEPT ![c] = "failed"]
    /\ UNCHANGED <<callVars, chainVars, fileVars, aborted>>

(* The rest of the registration, without an await: c goes behind the last  *)
(* mutation of its key.                                                    *)
Register(c) ==
    /\ pc[c] = "resolving"
    /\ pc' = [pc EXCEPT ![c] = "waiting"]
    /\ pred' = [pred EXCEPT ![c] = tail[key[c]]]
    /\ tail' = [tail EXCEPT ![key[c]] = c]
    /\ UNCHANGED <<callVars, found, key, fileVars, aborted>>

(* currentQueue resolves when the mutation before has been released.       *)
Released(c) == pred[c] # None => pc[pred[c]] = "done"

(* The finally clause: the map entry goes when no mutation has followed.   *)
TailWithout(c) == IF tail[key[c]] = c THEN [tail EXCEPT ![key[c]] = None] ELSE tail

(* Mutant: the entry stays for ever.                                       *)
FinishKeepsTail(c) == pc' = [pc EXCEPT ![c] = "done"] /\ tail' = tail

(* releaseNext and the clean-up of the map.                                *)
Finish(c) == pc' = [pc EXCEPT ![c] = "done"] /\ tail' = TailWithout(c)

FirstOperation(c) == IF kind[c] = "write" THEN "mkdir" ELSE "access"

(* Mutant: a mutation aborted before its turn never releases the next.     *)
StartUnreleased(c) ==
    /\ pc[c] = "waiting" /\ Released(c)
    /\ IF c \in aborted
       THEN pc' = [pc EXCEPT ![c] = "failed"] /\ busy' = busy
       ELSE /\ pc' = [pc EXCEPT ![c] = "running"]
            /\ busy' = [busy EXCEPT ![c] = FirstOperation(c)]
    /\ UNCHANGED <<tail, callVars, found, key, pred, seen, content, aborted>>

(* The mutation gets its turn: an aborted one throws at once.              *)
Start(c) ==
    /\ pc[c] = "waiting" /\ Released(c)
    /\ IF c \in aborted
       THEN Finish(c) /\ busy' = busy
       ELSE /\ pc' = [pc EXCEPT ![c] = "running"]
            /\ busy' = [busy EXCEPT ![c] = FirstOperation(c)]
            /\ tail' = tail
    /\ UNCHANGED <<callVars, found, key, pred, seen, content, aborted>>

(* Mutant: the abort rejects the tool call at once, and so releases the    *)
(* queue under an operation that goes on.                                  *)
AbortReleases(c) ==
    /\ pc[c] \in {"called", "resolving", "waiting", "running"} /\ c \notin aborted
    /\ aborted' = aborted \cup {c}
    /\ IF pc[c] = "running" THEN Finish(c) ELSE UNCHANGED <<pc, tail>>
    /\ UNCHANGED <<callVars, found, key, pred, fileVars>>

(* The signal is looked at only after an operation has settled.            *)
Abort(c) ==
    /\ pc[c] \in {"called", "resolving", "waiting", "running"} /\ c \notin aborted
    /\ aborted' = aborted \cup {c}
    /\ UNCHANGED <<pc, callVars, chainVars, fileVars>>

NextOperation(c) ==
    CASE busy[c] = "mkdir"  -> "write"
      [] busy[c] = "access" -> "read"
      [] busy[c] = "read"   -> "write"
      [] OTHER              -> "none"

(* A file operation ends and has had its effect.  It may fail: the tool    *)
(* throws, and after an abort it throws in any case.                       *)
Operate(c, ok) ==
    /\ busy[c] # "none"
    /\ busy[c] \in {"access", "read"} => (ok => content[File(c)] # Missing)
    /\ seen' = IF busy[c] = "read" /\ ok THEN [seen EXCEPT ![c] = content[File(c)]] ELSE seen
    /\ content' = IF busy[c] = "write" /\ ok THEN [content EXCEPT ![File(c)] = c] ELSE content
    /\ IF ok /\ c \notin aborted /\ NextOperation(c) # "none"
       THEN busy' = [busy EXCEPT ![c] = NextOperation(c)] /\ UNCHANGED <<pc, tail>>
       ELSE busy' = [busy EXCEPT ![c] = "none"] /\ Finish(c)
    /\ UNCHANGED <<callVars, found, key, pred, aborted>>

Queue(c) == LookUp(c) \/ LookUpFails(c) \/ Register(c) \/ Start(c)
Work(c) == \E ok \in BOOLEAN : Operate(c, ok)

Next ==
    \E c \in Calls :
        \/ \E k \in Kinds, p \in Paths : Call(c, k, p)
        \/ Queue(c) \/ Work(c) \/ Abort(c)

Spec == Init /\ [][Next]_vars

(* realpath and the file operations come to an end.                        *)
FairSpec == Spec /\ \A c \in Calls : WF_vars(Queue(c) \/ Work(c))

-----------------------------------------------------------------------------
(* Properties.                                                             *)

(* Mutations with one key take effect one after the other, in the order in *)
(* which they were called, whatever the time their lookups take and        *)
(* whichever of them fail.                                                 *)
ServedInOrder ==
    \A a, b \in Calls :
        /\ Registered(a) /\ Registered(b) /\ key[a] = key[b] /\ a < b
        /\ pc[b] # "waiting"
        => pc[a] = "done"

(* The paths of one file lead to different keys only while the file is     *)
(* missing: this call was called by another path before the file existed.  *)
CalledEarly(c) == Registered(c) /\ ~found[c] /\ key[c] # File(c)

(* Two calls that mutate one file never overlap, by whatever paths they    *)
(* name it, unless one was called before the file existed.                 *)
FileExclusive ==
    \A a, b \in Calls :
        a # b /\ pc[a] = "running" /\ pc[b] = "running" /\ File(a) = File(b)
        => CalledEarly(a) \/ CalledEarly(b)

(* One operation at a time on a file, in the order called.                 *)
OneAtATime == ServedInOrder /\ FileExclusive

(* An edit replaces exactly what it has read: no write of another call is  *)
(* lost in between, also when calls are aborted while they operate.        *)
NoLostUpdate ==
    [][\A c \in Calls :
         /\ kind[c] = "edit" /\ busy[c] = "write" /\ busy'[c] = "none"
         /\ content'[File(c)] = c
         => \/ content[File(c)] = seen[c]
            \/ \E d \in Calls : File(d) = File(c) /\ CalledEarly(d)]_vars

(* The map names the last holder of each key and nothing else: a newcomer  *)
(* is never let past a holder, and an unused key leaves nothing behind.    *)
MapExact ==
    \A p \in Paths :
        LET holders == {c \in Calls : Holding(c) /\ key[c] = p}
        IN  IF holders = {} THEN tail[p] = None
            ELSE /\ tail[p] \in holders
                 /\ \A c \in holders : c <= tail[p]

(* Every call comes to its turn and ends.                                  *)
EveryCallEnds == \A c \in Calls : pc[c] = "called" ~> pc[c] \in {"done", "failed"}
=============================================================================
