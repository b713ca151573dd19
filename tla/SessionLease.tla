----------------------------- MODULE SessionLease -----------------------------
(***************************************************************************)
(* product/gui-control/ownership.ts and the handoff of scripts/            *)
(* mypi-daemon.mjs: who may write a session file.                          *)
(*                                                                         *)
(* A writer holds two files: <session>.lock, which the lock library keeps  *)
(* fresh and others may take once it is stale, and <session>.lease, which  *)
(* says who that writer is.  They are taken and given up one after the     *)
(* other, by processes that crash and that may be suspended for longer     *)
(* than the lock stays fresh.  A surface that was refused asks the daemon  *)
(* to negotiate: first with the owner, then, if forced, with signals.      *)
(*                                                                         *)
(* The lock library is not in the repository: taking a free or a stale     *)
(* lock is one step here.  All processes are on one host.                  *)
(***************************************************************************)
EXTENDS Integers, FiniteSets

CONSTANTS
    Writers,      \* processes that want the session; a pid is not used twice
    None,
    MaxStarts,    \* bound: ownerships of a process
    MaxSuspends,  \* bound: times a process is suspended
    MaxRequests   \* bound: handoff requests

ASSUME LeaseAssumption ==
    /\ None \notin [by : Writers, id : Nat]
    /\ MaxStarts \in Nat /\ MaxSuspends \in Nat /\ MaxRequests \in Nat

VARIABLES
    pc,          \* what each process does
    starts,      \* how often it has become the owner
    suspended, suspends,
    closing,     \* processes on their way to shut down
    lock, stale, \* <session>.lock: the ownership that holds it, and its age
    lease,       \* <session>.lease: an ownership
    record,      \* externalOwners: the owner a refused start has reported
    token,       \* sigkillAuthorizations of that record
    request,     \* the negotiation that goes on, of the record it began with
    requests,
    termed       \* history: ownerships that have got a SIGTERM

processVars == <<pc, starts, suspended, suspends, closing>>
fileVars == <<lock, stale, lease>>
daemonVars == <<record, token, request, requests, termed>>
vars == <<processVars, fileVars, daemonVars>>

(* An ownership is a process and its ownerId.                              *)
Owners == [by : Writers, id : 1..MaxStarts]
Mine(w) == [by |-> w, id |-> starts[w]]
Fresh(w) == [by |-> w, id |-> starts[w] + 1]
Alive(w) == pc[w] # "dead"
Runs(w) == Alive(w) /\ w \notin suspended
Foreign(w) == lease # None /\ lease.by # w

Quiet == [stage |-> "none", of |-> None, same |-> FALSE, force |-> FALSE, hard |-> FALSE]
Stages == {"none", "asking", "waiting", "verifying", "signalling", "signalled"}

TypeOK ==
    /\ pc \in [Writers -> {"out", "looked", "locked", "owning", "compromised", "released", "dead"}]
    /\ starts \in [Writers -> 0..MaxStarts] /\ suspends \in 0..MaxSuspends
    /\ suspended \cup closing \subseteq Writers
    /\ {lock, lease, record} \subseteq Owners \cup {None} /\ {stale, token} \subseteq BOOLEAN
    /\ request \in [stage : Stages, of : Owners \cup {None}, same : BOOLEAN,
                    force : BOOLEAN, hard : BOOLEAN]
    /\ requests \in 0..MaxRequests /\ termed \subseteq Owners

Init ==
    /\ pc = [w \in Writers |-> "out"] /\ starts = [w \in Writers |-> 0]
    /\ suspended = {} /\ suspends = 0 /\ closing = {}
    /\ lock = None /\ stale = FALSE /\ lease = None
    /\ record = None /\ token = FALSE /\ request = Quiet /\ requests = 0 /\ termed = {}

-----------------------------------------------------------------------------
(* A process becomes the owner.                                            *)

(* refuseAndShutdown of a start reports the holder, unless it is unknown;  *)
(* a new record knows of no authorization.                                 *)
Refused(w) ==
    /\ pc' = [pc EXCEPT ![w] = "out"]
    /\ record' = IF Foreign(w) THEN lease ELSE None
    /\ token' = FALSE /\ request' = [request EXCEPT !.same = FALSE]
    /\ UNCHANGED <<starts, suspended, suspends, closing, lease, requests, termed>>

(* readLiveForeignLease: a fresh lock counts, and without one the lease of *)
(* a process that is alive.                                                *)
Look(w) ==
    /\ pc[w] = "out" /\ Runs(w) /\ starts[w] < MaxStarts
    /\ IF \/ lock # None /\ ~stale /\ lease = None
          \/ Foreign(w) /\ ((lock # None /\ ~stale) \/ Alive(lease.by))
       THEN Refused(w) /\ UNCHANGED <<lock, stale>>
       ELSE /\ pc' = [pc EXCEPT ![w] = "looked"]
            /\ UNCHANGED <<starts, suspended, suspends, closing, fileVars, daemonVars>>

(* lockSync.                                                               *)
Lock(w) ==
    /\ pc[w] = "looked" /\ Runs(w)
    /\ IF lock # None /\ ~stale
       THEN Refused(w) /\ UNCHANGED <<lock, stale>>
       ELSE /\ lock' = Fresh(w) /\ stale' = FALSE
            /\ pc' = [pc EXCEPT ![w] = "locked"]
            /\ UNCHANGED <<starts, suspended, suspends, closing, lease, daemonVars>>

Owns(w) ==
    /\ lease' = Fresh(w) /\ starts' = [starts EXCEPT ![w] = @ + 1]
    /\ pc' = [pc EXCEPT ![w] = "owning"]
    /\ UNCHANGED <<suspended, suspends, closing, lock, stale, daemonVars>>

(* Mutant: who has the lock is the owner, whoever wrote the lease.         *)
ClaimAnyway(w) == pc[w] = "locked" /\ Runs(w) /\ Owns(w)

(* Mutant: a lease is honoured whether its writer is alive or not.         *)
ClaimUnlessLeased(w) ==
    /\ pc[w] = "locked" /\ Runs(w)
    /\ IF Foreign(w)
       THEN Refused(w) /\ lock' = None /\ stale' = FALSE
       ELSE Owns(w)

(* The lease of another process that is alive is honoured, and the lock    *)
(* given back; any other lease is replaced.                                *)
Claim(w) ==
    /\ pc[w] = "locked" /\ Runs(w)
    /\ IF Foreign(w) /\ Alive(lease.by)
       THEN Refused(w) /\ lock' = None /\ stale' = FALSE
       ELSE Owns(w)

(* The library's update: a lock that is another's, or gone, is compromised,*)
(* and the process shuts down.                                             *)
Refresh(w) ==
    /\ pc[w] = "owning" /\ Runs(w)
    /\ IF lock = Mine(w)
       THEN stale /\ stale' = FALSE /\ UNCHANGED <<pc, closing>>
       ELSE /\ pc' = [pc EXCEPT ![w] = "compromised"] /\ closing' = closing \cup {w}
            /\ UNCHANGED stale
    /\ UNCHANGED <<starts, suspended, suspends, lock, lease, daemonVars>>

-----------------------------------------------------------------------------
(* A process gives the session up.                                         *)

(* stop: the lock is released first; one that was compromised is not held. *)
Release(w) ==
    /\ pc[w] \in {"owning", "compromised"} /\ Runs(w)
    /\ pc' = [pc EXCEPT ![w] = "released"]
    /\ lock' = IF lock = Mine(w) THEN None ELSE lock
    /\ stale' = (stale /\ lock # Mine(w))
    /\ UNCHANGED <<starts, suspended, suspends, closing, lease, daemonVars>>

(* removeLeaseIfOwned.  A process that shuts down ends then, one that only *)
(* leaves the session stays.                                               *)
RemoveLease(w) ==
    /\ pc[w] = "released" /\ Runs(w)
    /\ lease' = IF lease = Mine(w) THEN None ELSE lease
    /\ pc' = [pc EXCEPT ![w] = IF w \in closing THEN "dead" ELSE "out"]
    /\ UNCHANGED <<starts, suspended, suspends, closing, lock, stale, daemonVars>>

Crash(w) ==
    /\ Alive(w)
    /\ pc' = [pc EXCEPT ![w] = "dead"] /\ suspended' = suspended \ {w}
    /\ UNCHANGED <<starts, suspends, closing, fileVars, daemonVars>>

(* A laptop that sleeps, a process that is stopped or blocked.             *)
Suspend(w) ==
    /\ pc[w] = "owning" /\ Runs(w) /\ suspends < MaxSuspends
    /\ suspended' = suspended \cup {w} /\ suspends' = suspends + 1
    /\ UNCHANGED <<pc, starts, closing, fileVars, daemonVars>>

Resume(w) ==
    /\ w \in suspended
    /\ suspended' = suspended \ {w}
    /\ UNCHANGED <<pc, starts, suspends, closing, fileVars, daemonVars>>

(* SESSION_LOCK_STALE_MS without an update.                                *)
GoesStale ==
    /\ lock # None /\ ~stale /\ ~Runs(lock.by)
    /\ stale' = TRUE
    /\ UNCHANGED <<processVars, lock, lease, daemonVars>>

-----------------------------------------------------------------------------
(* The daemon negotiates for a surface that was refused.                   *)

AtStage(stage) == request.stage = stage
Goes(stage) ==
    /\ request' = [request EXCEPT !.stage = stage]
    /\ UNCHANGED <<fileVars, record, requests>>
Ends == request' = Quiet /\ UNCHANGED <<fileVars, requests>>

(* Mutant: one authorization is enough for every later SIGKILL.            *)
AskReusing(force, hard) ==
    /\ AtStage("none") /\ requests < MaxRequests /\ record # None /\ lease = record
    /\ hard => force /\ (token \/ termed # {})
    /\ token' = (token /\ ~hard)
    /\ request' = [stage |-> "asking", of |-> record, same |-> TRUE,
                   force |-> force, hard |-> hard]
    /\ requests' = requests + 1
    /\ UNCHANGED <<processVars, fileVars, record, termed>>

(* negotiateExternalOwnership: the record must name the owner of now, and  *)
(* a SIGKILL needs the authorization of a SIGTERM that was not enough,     *)
(* which it uses up.                                                       *)
Ask(force, hard) ==
    /\ AtStage("none") /\ requests < MaxRequests /\ record # None /\ lease = record
    /\ hard => force /\ token
    /\ token' = (token /\ ~hard)
    /\ request' = [stage |-> "asking", of |-> record, same |-> TRUE,
                   force |-> force, hard |-> hard]
    /\ requests' = requests + 1
    /\ UNCHANGED <<processVars, fileVars, record, termed>>

(* The owner's control socket: it accepts, and shuts down after its answer.*)
OwnerAccepts ==
    /\ AtStage("asking") /\ Runs(request.of.by)
    /\ pc[request.of.by] = "owning" /\ Mine(request.of.by) = request.of
    /\ closing' = closing \cup {request.of.by} /\ Goes("waiting")
    /\ UNCHANGED <<pc, starts, suspended, suspends, token, termed>>

(* It is busy, declines, is gone, or does not answer in time: a forced     *)
(* request goes on without it.                                             *)
OwnerRefuses ==
    /\ AtStage("asking")
    /\ IF request.force THEN Goes("verifying") ELSE Ends /\ UNCHANGED record
    /\ UNCHANGED <<processVars, token, termed>>

(* waitForOwnershipRelease.                                                *)
Waits == AtStage("waiting") \/ AtStage("signalled")
Free == lease = None \/ (lease = request.of /\ ~Alive(request.of.by) /\ (lock = None \/ stale))
Changed == lease \notin {None, request.of}

Released ==
    /\ Waits /\ Free
    /\ Ends /\ record' = None /\ token' = FALSE
    /\ UNCHANGED <<processVars, termed>>

OwnerChanged ==
    /\ Waits /\ Changed
    /\ Ends /\ UNCHANGED <<processVars, record, token, termed>>

(* The wait ends without a release; a SIGTERM that left the process alive  *)
(* authorizes a SIGKILL.                                                   *)
TimesOut ==
    /\ Waits /\ ~Free /\ ~Changed
    /\ IF AtStage("waiting") /\ request.force
       THEN Goes("verifying") /\ UNCHANGED token
       ELSE /\ Ends /\ UNCHANGED record
            /\ token' = (token \/ (/\ request.same /\ AtStage("signalled") /\ ~request.hard
                                   /\ Alive(request.of.by)))
    /\ UNCHANGED <<processVars, termed>>

(* verifySignalTarget: the lease is read, then ps is awaited.              *)
ReadLeaseAgain ==
    /\ AtStage("verifying")
    /\ IF lease = request.of THEN Goes("signalling") ELSE Ends /\ UNCHANGED record
    /\ UNCHANGED <<processVars, token, termed>>

Signal ==
    LET w == request.of.by
    IN  /\ AtStage("signalling")
        /\ IF ~Alive(w)
           THEN Ends /\ UNCHANGED <<record, processVars, termed>>
           ELSE /\ Goes("signalled")
                /\ pc' = IF request.hard THEN [pc EXCEPT ![w] = "dead"] ELSE pc
                /\ suspended' = IF request.hard THEN suspended \ {w} ELSE suspended
                /\ closing' = IF request.hard THEN closing ELSE closing \cup {w}
                /\ termed' = IF request.hard THEN termed ELSE termed \cup {request.of}
                /\ UNCHANGED <<starts, suspends>>
        /\ UNCHANGED token

-----------------------------------------------------------------------------
Negotiates ==
    \/ OwnerAccepts \/ OwnerRefuses \/ Released \/ OwnerChanged \/ TimesOut
    \/ ReadLeaseAgain \/ Signal

Next ==
    \/ \E w \in Writers :
         \/ Look(w) \/ Lock(w) \/ Claim(w) \/ Refresh(w)
         \/ Release(w) \/ RemoveLease(w)
         \/ Crash(w) \/ Suspend(w) \/ Resume(w)
    \/ GoesStale
    \/ \E force, hard \in BOOLEAN : Ask(force, hard)
    \/ Negotiates

Spec == Init /\ [][Next]_vars

(* A surface that was refused tries again, what a process has begun it     *)
(* goes on with, and an abandoned lock grows old.  Nothing is assumed of   *)
(* owners, who may keep a session for ever.                                *)
FairSpec ==
    /\ Spec /\ WF_vars(GoesStale)
    /\ \A w \in Writers : WF_vars(Look(w) \/ Lock(w) \/ Claim(w)) /\ WF_vars(RemoveLease(w))

-----------------------------------------------------------------------------
(* One process writes the session, and the lease names it: no order of     *)
(* starting, stopping, crashing and being suspended gives a second process *)
(* the session, not even when the lock of a suspended owner is taken.      *)
Writes(w) == pc[w] \in {"owning", "compromised"}
OneWriter ==
    /\ TypeOK
    /\ \A w \in Writers : Writes(w) => lease = Mine(w)

(* What the daemon says of the owner it negotiates with is so.  "Released" *)
(* is only said when the session can be had: the lock of the owner that    *)
(* was asked is gone or stale, and it does not write any more.  And only   *)
(* an owner that a SIGTERM did not stop is killed.                         *)
HandoffHonest ==
    [][/\ Released => /\ ~Writes(request.of.by) \/ Mine(request.of.by) # request.of
                      /\ lock = request.of => stale
       /\ Signal /\ request.hard => request.of \in termed]_vars

(* A session whose writers have crashed is not lost: the next process that *)
(* asks for it gets it, whatever files were left behind.                   *)
NextGetsIn ==
    \A w \in Writers :
        (pc[w] = "out" /\ starts[w] < MaxStarts /\ \A v \in Writers \ {w} : ~Alive(v))
            ~> (pc[w] = "owning" \/ ~Alive(w))
=============================================================================
