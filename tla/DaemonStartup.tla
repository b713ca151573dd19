---------------------------- MODULE DaemonStartup ----------------------------
(***************************************************************************)
(* How the one daemon of a profile is found, started and replaced          *)
(* (scripts/mypi-daemon-discovery.mjs, and the start and end of            *)
(* scripts/mypi-daemon.mjs).  Several processes act on three files: the    *)
(* startup lock, the sidecar that names the daemon, and its socket.  Each  *)
(* action is one operation on a file; between two of them any other        *)
(* process may act, and a worker may be killed.                            *)
(***************************************************************************)
EXTENDS Naturals, FiniteSets

CONSTANTS
    Workers,    \* launches of `mypi __daemon`: a starter and the worker it spawns
    Readers,    \* surfaces that look for the daemon (attach, proxy, control)
    NoFile,     \* no file
    Blank       \* a sidecar opened for writing and not yet written

ASSUME StartupAssumption ==
    /\ Workers \cap Readers = {} /\ NoFile # Blank /\ {NoFile, Blank} \cap Workers = {}

Processes == Workers \cup Readers

LookPoints == {"look", "judge", "reach", "pruneSidecar", "pruneSocket"}
BindPoints == {"unlink", "listen", "announce", "announcing", "release"}
ClosePoints == {"closing", "closeSidecar", "closeSocket"}
LockPoints == {"lock", "stamp", "inspect", "reclaim"}
Dead == {"new", "exited", "killed"}

VARIABLES
    pc,        \* what each process does next
    back,      \* where a worker goes on that finds no live daemon
    seen,      \* the pid a process has read from the sidecar
    acquired,  \* workers whose acquireStartupLock succeeded
    lock,      \* NoFile, or who created the lock file and whether its pid is in it
    sidecar,   \* NoFile, Blank, or the worker it names
    socket     \* NoFile, or the worker bound to it

files == <<lock, sidecar, socket>>
startupVars == <<pc, back, seen, acquired, files>>

Alive(w) == pc[w] \notin Dead
Starting(w) == pc[w] \in BindPoints

Goto(x, point) == pc' = [pc EXCEPT ![x] = point]

StartupInit ==
    /\ pc = [x \in Processes |-> IF x \in Workers THEN "new" ELSE "idle"]
    /\ back = [w \in Workers |-> "lock"]
    /\ seen = [x \in Processes |-> NoFile]
    /\ acquired = {} /\ lock = NoFile /\ sidecar = NoFile /\ socket = NoFile

-----------------------------------------------------------------------------
(* readLiveDaemon.  A starter that finds no daemon spawns its worker; a    *)
(* worker that finds none after it lost the lock binds nevertheless.       *)
NotFound(x) == IF x \in Workers THEN back[x] ELSE "idle"
Found(x) == IF x \in Workers THEN "exited" ELSE "idle"

Launch(w) ==
    /\ pc[w] = "new" /\ Goto(w, "look")
    /\ UNCHANGED <<back, seen, acquired, files>>

Ask(r) ==
    /\ pc[r] = "idle" /\ Goto(r, "look")
    /\ UNCHANGED <<back, seen, acquired, files>>

Look(x) ==
    /\ pc[x] = "look"
    /\ seen' = [seen EXCEPT ![x] = sidecar]
    /\ Goto(x, IF sidecar \in Workers THEN "judge" ELSE NotFound(x))
    /\ UNCHANGED <<back, acquired, files>>

Judge(x) ==
    /\ pc[x] = "judge"
    /\ Goto(x, IF Alive(seen[x]) THEN "reach" ELSE "pruneSidecar")
    /\ UNCHANGED <<back, seen, acquired, files>>

Reach(x) ==
    /\ pc[x] = "reach"
    /\ Goto(x, IF socket # NoFile THEN Found(x) ELSE NotFound(x))
    /\ UNCHANGED <<back, seen, acquired, files>>

PruneSidecar(x) ==
    /\ pc[x] = "pruneSidecar"
    /\ sidecar' = NoFile /\ Goto(x, "pruneSocket")
    /\ UNCHANGED <<back, seen, acquired, lock, socket>>

PruneSocket(x) ==
    /\ pc[x] = "pruneSocket"
    /\ socket' = NoFile /\ Goto(x, NotFound(x))
    /\ UNCHANGED <<back, seen, acquired, lock, sidecar>>

-----------------------------------------------------------------------------
(* acquireStartupLock: the file is created, and then its pid is written.   *)
CreateLock(w) ==
    /\ pc[w] = "lock"
    /\ IF lock = NoFile
       THEN lock' = [owner |-> w, stamped |-> FALSE] /\ Goto(w, "stamp")
       ELSE Goto(w, "inspect") /\ UNCHANGED lock
    /\ UNCHANGED <<back, seen, acquired, sidecar, socket>>

StampLock(w) ==
    /\ pc[w] = "stamp"
    /\ lock' = IF lock # NoFile /\ lock.owner = w THEN [lock EXCEPT !.stamped = TRUE] ELSE lock
    /\ acquired' = acquired \cup {w}
    /\ Goto(w, "unlink")
    /\ UNCHANGED <<back, seen, sidecar, socket>>

(* A lock is respected while it names a live process; one that cannot be   *)
(* read, or is still empty, is taken for stale.                            *)
InspectLock(w) ==
    /\ pc[w] = "inspect"
    /\ IF lock # NoFile /\ lock.stamped /\ Alive(lock.owner)
       THEN Goto(w, "look") /\ back' = [back EXCEPT ![w] = "unlink"]
       ELSE Goto(w, "reclaim") /\ UNCHANGED back
    /\ UNCHANGED <<seen, acquired, files>>

(* Mutant: a stale lock is found and not removed.                          *)
ReclaimLockKeeps(w) ==
    /\ pc[w] = "reclaim"
    /\ Goto(w, "lock")
    /\ UNCHANGED <<back, seen, acquired, files>>

ReclaimLock(w) ==
    /\ pc[w] = "reclaim"
    /\ lock' = NoFile /\ Goto(w, "lock")
    /\ UNCHANGED <<back, seen, acquired, sidecar, socket>>

-----------------------------------------------------------------------------
(* The worker binds the socket, writes the sidecar and releases the lock.  *)

(* Mutant: the socket left by an earlier daemon is not removed.            *)
UnlinkSocketKeeps(w) ==
    /\ pc[w] = "unlink"
    /\ Goto(w, "listen")
    /\ UNCHANGED <<back, seen, acquired, files>>

UnlinkSocket(w) ==
    /\ pc[w] = "unlink"
    /\ socket' = NoFile /\ Goto(w, "listen")
    /\ UNCHANGED <<back, seen, acquired, lock, sidecar>>

Released(w) == IF w \in acquired THEN NoFile ELSE lock

Listen(w) ==
    /\ pc[w] = "listen"
    /\ IF socket = NoFile
       THEN socket' = w /\ Goto(w, "announce") /\ UNCHANGED lock
       ELSE lock' = Released(w) /\ Goto(w, "exited") /\ UNCHANGED socket
    /\ UNCHANGED <<back, seen, acquired, sidecar>>

OpenSidecar(w) ==
    /\ pc[w] = "announce"
    /\ sidecar' = Blank /\ Goto(w, "announcing")
    /\ UNCHANGED <<back, seen, acquired, lock, socket>>

WriteSidecar(w) ==
    /\ pc[w] = "announcing"
    /\ sidecar' = w /\ Goto(w, "release")
    /\ UNCHANGED <<back, seen, acquired, lock, socket>>

(* Mutant: the lock is kept by the daemon that runs.                       *)
ReleaseLockNever(w) ==
    /\ pc[w] = "release"
    /\ Goto(w, "serving")
    /\ UNCHANGED <<back, seen, acquired, files>>

ReleaseLock(w) ==
    /\ pc[w] = "release"
    /\ lock' = Released(w) /\ Goto(w, "serving")
    /\ UNCHANGED <<back, seen, acquired, sidecar, socket>>

(* shutdown, at a signal or when a drain is done: removeOwnFiles removes a *)
(* sidecar only if it names this daemon, and whatever socket is there.     *)
Shutdown(w) ==
    /\ pc[w] \in {"announce", "serving"} /\ Goto(w, "closing")
    /\ UNCHANGED <<back, seen, acquired, files>>

ReadOwnSidecar(w) ==
    /\ pc[w] = "closing"
    /\ Goto(w, IF sidecar = w THEN "closeSidecar" ELSE "closeSocket")
    /\ UNCHANGED <<back, seen, acquired, files>>

RemoveSidecar(w) ==
    /\ pc[w] = "closeSidecar"
    /\ sidecar' = NoFile /\ Goto(w, "closeSocket")
    /\ UNCHANGED <<back, seen, acquired, lock, socket>>

RemoveSocket(w) ==
    /\ pc[w] = "closeSocket"
    /\ socket' = NoFile /\ Goto(w, "exited")
    /\ UNCHANGED <<back, seen, acquired, lock, sidecar>>

(* A crash or SIGKILL leaves every file as it is.                          *)
Kill(w) ==
    /\ Alive(w) /\ Goto(w, "killed")
    /\ UNCHANGED <<back, seen, acquired, files>>

-----------------------------------------------------------------------------
Looks(x) == Look(x) \/ Judge(x) \/ Reach(x) \/ PruneSidecar(x) \/ PruneSocket(x)
Locks(w) == CreateLock(w) \/ StampLock(w) \/ InspectLock(w) \/ ReclaimLock(w)
Binds(w) ==
    UnlinkSocket(w) \/ Listen(w) \/ OpenSidecar(w) \/ WriteSidecar(w) \/ ReleaseLock(w)
Closes(w) == ReadOwnSidecar(w) \/ RemoveSidecar(w) \/ RemoveSocket(w)

StartupNext ==
    \/ \E x \in Processes : Looks(x)
    \/ \E r \in Readers : Ask(r)
    \/ \E w \in Workers : Launch(w) \/ Locks(w) \/ Binds(w) \/ Shutdown(w) \/ Closes(w) \/ Kill(w)

StartupSpec == StartupInit /\ [][StartupNext]_startupVars

(* A process that has begun goes on, unless it is killed.                  *)
StartupFairSpec ==
    /\ StartupSpec
    /\ \A x \in Processes : WF_startupVars(Looks(x))
    /\ \A w \in Workers : WF_startupVars(Locks(w) \/ Binds(w) \/ Closes(w))

-----------------------------------------------------------------------------
(* Every variable stays within its type.                                   *)
StartupTypeOK ==
    /\ pc \in [Processes ->
           LookPoints \cup LockPoints \cup BindPoints \cup ClosePoints \cup Dead
             \cup {"idle", "serving"}]
    /\ back \in [Workers -> {"lock", "unlink"}]
    /\ seen \in [Processes -> Workers \cup {NoFile, Blank}]
    /\ acquired \subseteq Workers
    /\ lock \in {NoFile} \cup [owner : Workers, stamped : BOOLEAN]
    /\ sidecar \in Workers \cup {NoFile, Blank} /\ socket \in Workers \cup {NoFile}

(* A lock never stands in the way of later launches: whoever it names is   *)
(* still starting, or dead and so taken for stale, through every race of   *)
(* reclaims and releases.                                                  *)
LockNotLeaked ==
    /\ StartupTypeOK
    /\ lock # NoFile => pc[lock.owner] \in {"stamp"} \cup BindPoints \cup ClosePoints \cup Dead

(* Every launch comes to an end: it serves, or finds a daemon, or fails.   *)
(* No order of creating, inspecting and reclaiming locks goes on for ever. *)
LaunchEnds == \A w \in Workers : pc[w] = "look" ~> pc[w] \in Dead \cup {"serving"}

(* Whatever files earlier daemons left where they were killed, a launch    *)
(* that nobody interferes with ends with this daemon bound and named.      *)
Alone(w) == \A x \in Processes \ {w} : pc[x] \in Dead \cup {"idle"}

NextLaunchRecovers ==
    \A w \in Workers :
        pc[w] = "look" /\ Alone(w)
            ~> \/ pc[w] = "serving" /\ sidecar = w /\ socket = w
               \/ ~Alone(w)
               \/ pc[w] \in ClosePoints \cup {"killed"}

=============================================================================
