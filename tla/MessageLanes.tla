---------------------------- MODULE MessageLanes ----------------------------
(***************************************************************************)
(* What the agent promises about the messages it is handed, whatever its   *)
(* loop does: each lane (prompt, steer, followUp) is a line in which       *)
(* messages wait in order of arrival, which their ids number; the first of *)
(* a line may be delivered to the transcript; messages may leave the lines *)
(* undelivered (withdrawn by the caller, or lost with a run that threw),   *)
(* but never come back, and never change places.  AgentLoop implements     *)
(* this (MCAgentLoop).                                                     *)
(***************************************************************************)
EXTENDS Integers, Sequences

CONSTANTS
    Lanes,
    MaxMessages   \* bound: messages ever accepted

VARIABLES
    waiting,      \* the messages accepted and not yet delivered
    delivered,    \* the messages of the transcript, in order
    issued        \* how many messages were ever accepted

laneVars == <<waiting, delivered, issued>>

Init == waiting = {} /\ delivered = <<>> /\ issued = 0

Accept(lane) ==
    \E n \in 1..(MaxMessages - issued) :
        /\ issued' = issued + n
        /\ waiting' = waiting \cup {[id |-> issued + i, lane |-> lane] : i \in 1..n}
        /\ UNCHANGED delivered

FirstInLine(m) == \A other \in waiting : other.lane = m.lane => m.id <= other.id

Deliver(m) ==
    /\ FirstInLine(m)
    /\ delivered' = Append(delivered, m) /\ waiting' = waiting \ {m}
    /\ UNCHANGED issued

Leave(gone) == waiting' = waiting \ gone /\ UNCHANGED <<delivered, issued>>

Next ==
    \/ \E lane \in Lanes : Accept(lane)
    \/ \E m \in waiting : Deliver(m)
    \/ \E gone \in SUBSET waiting : Leave(gone)

Spec == Init /\ [][Next]_laneVars
=============================================================================
