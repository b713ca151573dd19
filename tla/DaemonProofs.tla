---------------------------- MODULE DaemonProofs ----------------------------
(***************************************************************************)
(* Proofs about the daemon.  About DaemonSession, for any sessions,        *)
(* clients, faults and number of commands: what the daemon believes of its *)
(* engines is so, or is about to be read.  About DaemonStartup, for any    *)
(* number of launches and of readers: the startup lock is never left with  *)
(* a process that has got further.                                         *)
(***************************************************************************)
EXTENDS DaemonSession, DaemonStartup, SequenceTheorems, FiniteSetTheorems, TLAPS


Children == {"none", "open", "closed"}
Engines == {"idle", "running"}

(* One preparation at a time, counted for as long as it is unanswered.     *)
RecordSound(r) ==
    /\ r \in Record
    /\ r.preparing <=> \E p \in r.pending : p.kind = "prepare"
    /\ \A p, q \in r.pending : p.kind = "prepare" /\ q.kind = "prepare" => p = q

Unsettled(out) == \A i \in DOMAIN out : out[i].kind # "settled"
StartsLast(out) ==
    \E i \in DOMAIN out :
        /\ out[i].kind = "start"
        /\ \A j \in DOMAIN out : j > i => out[j].kind # "settled"

(* A turn that runs is known, and no settlement to be read is its own; or  *)
(* its start is to be read after every settlement.                         *)
TurnKnown(r, e, out) == e = "running" => (r.turnActive /\ Unsettled(out)) \/ StartsLast(out)

(* What is known of one session, its engine and its pipes.                 *)
Sound(ch, r, e, in, out) ==
    /\ ch \in Children /\ e \in Engines /\ RecordSound(r)
    /\ in \in Seq(Command) /\ out \in Seq(Frame)
    /\ TurnKnown(r, e, out)
    /\ ch = "none" => r = Fresh /\ e = "idle" /\ in = <<>> /\ out = <<>>

SessionsInv ==
    /\ child \in [Sessions -> Children] /\ session \in [Sessions -> Record]
    /\ engine \in [Sessions -> Engines]
    /\ inbox \in [Sessions -> Seq(Command)] /\ outbox \in [Sessions -> Seq(Frame)]
    /\ \A s \in Sessions : Sound(child[s], session[s], engine[s], inbox[s], outbox[s])

CountInv ==
    /\ draining \in BOOLEAN /\ down \in BOOLEAN /\ cutShort \in BOOLEAN
    /\ rechecks \in Nat /\ sent \in 0..MaxCommands

PeopleInv ==
    /\ gone \subseteq Clients /\ joining \subseteq Clients \X Sessions
    /\ late \subseteq Clients /\ waiting \subseteq Clients

DaemonInv == SessionsInv /\ CountInv /\ PeopleInv

-----------------------------------------------------------------------------
LEMMA Same ==
    ASSUME NEW T, NEW f \in [Sessions -> T], NEW s \in Sessions
    PROVE  f = [f EXCEPT ![s] = f[s]]
OBVIOUS

(* A step that has to do with one session.                                 *)
Becomes(s, ch, r, e, in, out) ==
    /\ child' = [child EXCEPT ![s] = ch] /\ session' = [session EXCEPT ![s] = r]
    /\ engine' = [engine EXCEPT ![s] = e]
    /\ inbox' = [inbox EXCEPT ![s] = in] /\ outbox' = [outbox EXCEPT ![s] = out]

LEMMA OneMoves ==
    ASSUME SessionsInv, NEW s \in Sessions, NEW ch, NEW r, NEW e, NEW in, NEW out,
           Becomes(s, ch, r, e, in, out), Sound(ch, r, e, in, out)
    PROVE  SessionsInv'
<1>1. /\ ch \in Children /\ r \in Record /\ e \in Engines
      /\ in \in Seq(Command) /\ out \in Seq(Frame)
    BY DEF Sound, RecordSound
<1>2. /\ child' \in [Sessions -> Children] /\ session' \in [Sessions -> Record]
      /\ engine' \in [Sessions -> Engines]
      /\ inbox' \in [Sessions -> Seq(Command)] /\ outbox' \in [Sessions -> Seq(Frame)]
    BY <1>1 DEF SessionsInv, Becomes
<1>3. ASSUME NEW t \in Sessions
      PROVE  Sound(child'[t], session'[t], engine'[t], inbox'[t], outbox'[t])
    <2>1. CASE t = s
        <3>1. /\ child'[t] = ch /\ session'[t] = r /\ engine'[t] = e
              /\ inbox'[t] = in /\ outbox'[t] = out
            BY <2>1 DEF SessionsInv, Becomes
        <3> QED BY <3>1
    <2>2. CASE t # s
        <3>1. /\ child'[t] = child[t] /\ session'[t] = session[t] /\ engine'[t] = engine[t]
              /\ inbox'[t] = inbox[t] /\ outbox'[t] = outbox[t]
            BY <2>2 DEF SessionsInv, Becomes
        <3>2. Sound(child[t], session[t], engine[t], inbox[t], outbox[t])
            BY DEF SessionsInv
        <3> QED BY <3>1, <3>2
    <2> QED BY <2>1, <2>2
<1> QED BY <1>2, <1>3 DEF SessionsInv

(* A step that changes the record of a session, and perhaps its child.     *)
LEMMA RecordMoves ==
    ASSUME SessionsInv, NEW s \in Sessions, NEW r, NEW ch,
           child' = [child EXCEPT ![s] = ch], session' = [session EXCEPT ![s] = r],
           ch \in Children \ {"none"}, RecordSound(r),
           session[s].turnActive => r.turnActive,
           UNCHANGED <<engine, inbox, outbox>>
    PROVE  SessionsInv'
<1>1. Becomes(s, ch, r, engine[s], inbox[s], outbox[s])
    <2>1. /\ engine' = [engine EXCEPT ![s] = engine[s]] /\ inbox' = [inbox EXCEPT ![s] = inbox[s]]
          /\ outbox' = [outbox EXCEPT ![s] = outbox[s]]
        BY Same DEF SessionsInv
    <2> QED BY <2>1 DEF Becomes
<1>2. Sound(child[s], session[s], engine[s], inbox[s], outbox[s])
    BY DEF SessionsInv
<1>3. Sound(ch, r, engine[s], inbox[s], outbox[s])
    BY <1>2 DEF Sound, TurnKnown
<1> QED BY <1>1, <1>3, OneMoves

(* What goes through the pipes of a session, with what else it changes.    *)
LEMMA ClosedType ==
    ASSUME SessionsInv, NEW s \in Sessions, child[s] # "none"
    PROVE  \E ch \in Children \ {"none"} : Closed(s) = [child EXCEPT ![s] = ch]
<1>1. child \in [Sessions -> Children]
    BY DEF SessionsInv
<1>2. CASE child[s] = "open"
    BY <1>2 DEF Closed, Children
<1>3. CASE child[s] # "open"
    BY <1>1, <1>3, Same DEF Closed
<1> QED BY <1>2, <1>3

-----------------------------------------------------------------------------
(* Records.                                                                *)

LEMMA WithoutSound ==
    ASSUME NEW r, NEW c, RecordSound(r)
    PROVE  RecordSound(Without(r, c)) /\ Without(r, c).turnActive = r.turnActive
<1>. DEFINE mine == {p \in r.pending : p.client = c}
            w == Without(r, c)
<1>1. r \in Record
    BY DEF RecordSound
<1>2. w = [r EXCEPT !.clients = r.clients \ {c},
                    !.pending = r.pending \ mine,
                    !.preparing = r.preparing /\ \A p \in mine : p.kind # "prepare",
                    !.grace = r.grace \/ r.clients \ {c} = {}]
    BY DEF Without
<1>3. /\ w.turnActive = r.turnActive /\ w.pending = r.pending \ mine
      /\ w.preparing = (r.preparing /\ \A p \in mine : p.kind # "prepare")
    BY <1>1, <1>2 DEF Record
<1>4. w \in Record
    BY <1>1, <1>2 DEF Record
<1>. HIDE DEF w
<1>5. w.preparing <=> \E p \in w.pending : p.kind = "prepare"
    BY <1>3 DEF RecordSound
<1>6. \A p, q \in w.pending : p.kind = "prepare" /\ q.kind = "prepare" => p = q
    BY <1>3 DEF RecordSound
<1>7. RecordSound(w)
    BY <1>4, <1>5, <1>6 DEF RecordSound
<1> QED BY <1>3, <1>7 DEF w

(* A change of a record that leaves its commands alone.                    *)
LEMMA RecordKept ==
    ASSUME NEW r, NEW w \in Record, RecordSound(r),
           w.pending = r.pending, w.preparing = r.preparing
    PROVE  RecordSound(w)
BY DEF RecordSound

(* A command is added to those a session waits for.                        *)
LEMMA CommandAdded ==
    ASSUME NEW r, NEW w \in Record, NEW p, RecordSound(r), w.pending = r.pending \cup {p},
           \/ p.kind # "prepare" /\ w.preparing = r.preparing
           \/ p.kind = "prepare" /\ w.preparing /\ ~r.preparing
    PROVE  RecordSound(w)
BY DEF RecordSound

(* Commands are answered, or forgotten.                                    *)
LEMMA CommandsGone ==
    ASSUME NEW r, NEW w \in Record, NEW answered, RecordSound(r), w.pending = r.pending \ answered,
           answered \subseteq r.pending,
           w.preparing <=> (r.preparing /\ \A p \in answered : p.kind # "prepare")
    PROVE  RecordSound(w)
BY DEF RecordSound

WithTurn(r, b, n) == [r EXCEPT !.turnActive = b, !.finalizing = n]
WithSettlement(r, b, n) == [r EXCEPT !.finalizing = n, !.release = None, !.grace = b]

LEMMA EventRecorded ==
    ASSUME NEW r \in Record, NEW b \in BOOLEAN, NEW n \in Nat, NEW w, w = WithTurn(r, b, n)
    PROVE  /\ w \in Record /\ w.pending = r.pending /\ w.preparing = r.preparing
           /\ w.turnActive = b
BY DEF Record, WithTurn

LEMMA SettlementRecorded ==
    ASSUME NEW r \in Record, NEW b \in BOOLEAN, NEW n \in Nat, NEW w,
           w = WithSettlement(r, b, n)
    PROVE  /\ w \in Record /\ w.pending = r.pending /\ w.preparing = r.preparing
           /\ w.turnActive = r.turnActive
BY DEF Record, WithSettlement

-----------------------------------------------------------------------------
(* Frames.                                                                 *)

LEMMA TailOfFrames ==
    ASSUME NEW out \in Seq(Frame), out # <<>>
    PROVE  /\ Tail(out) \in Seq(Frame) /\ Head(out) \in Frame
           /\ Unsettled(out) => Unsettled(Tail(out)) /\ Head(out).kind # "settled"
           /\ StartsLast(out) =>
                StartsLast(Tail(out)) \/ (Head(out).kind = "start" /\ Unsettled(Tail(out)))
<1>. DEFINE t == Tail(out)
<1>1. /\ t \in Seq(Frame) /\ Head(out) \in Frame /\ Head(out) = out[1]
      /\ Len(out) \in Nat /\ Len(out) >= 1 /\ DOMAIN out = 1..Len(out)
      /\ DOMAIN t = 1..(Len(out) - 1) /\ \A i \in 1..(Len(out) - 1) : t[i] = out[i + 1]
    BY HeadTailProperties, LenProperties, EmptySeq
<1>. HIDE DEF t
<1>2. Unsettled(out) => Unsettled(t) /\ Head(out).kind # "settled"
    BY <1>1 DEF Unsettled
<1>3. ASSUME NEW i \in DOMAIN out, out[i].kind = "start",
             \A j \in DOMAIN out : j > i => out[j].kind # "settled"
      PROVE  StartsLast(t) \/ (Head(out).kind = "start" /\ Unsettled(t))
    <2>1. CASE i = 1
        BY <1>1, <1>3, <2>1 DEF Unsettled
    <2>2. CASE i # 1
        <3>1. i - 1 \in DOMAIN t /\ t[i - 1].kind = "start"
            BY <1>1, <1>3, <2>2
        <3>2. \A j \in DOMAIN t : j > i - 1 => t[j].kind # "settled"
            BY <1>1, <1>3
        <3> QED BY <3>1, <3>2 DEF StartsLast
    <2> QED BY <2>1, <2>2
<1> QED BY <1>1, <1>2, <1>3 DEF t, StartsLast

LEMMA MoreFrames ==
    ASSUME NEW out \in Seq(Frame), NEW frames \in Seq(Frame)
    PROVE  /\ out \o frames \in Seq(Frame)
           /\ Unsettled(out) /\ Unsettled(frames) => Unsettled(out \o frames)
           /\ StartsLast(out) /\ Unsettled(frames) => StartsLast(out \o frames)
           /\ StartsLast(frames) => StartsLast(out \o frames)
<1>. DEFINE u == out \o frames
<1>1. /\ u \in Seq(Frame) /\ Len(out) \in Nat /\ Len(frames) \in Nat
      /\ DOMAIN out = 1..Len(out) /\ DOMAIN frames = 1..Len(frames)
      /\ DOMAIN u = 1..(Len(out) + Len(frames))
      /\ \A i \in 1..(Len(out) + Len(frames)) :
             u[i] = IF i <= Len(out) THEN out[i] ELSE frames[i - Len(out)]
    BY ConcatProperties, LenProperties
<1>. HIDE DEF u
<1>5. \A i \in DOMAIN u : \/ i \in DOMAIN out /\ u[i] = out[i]
                          \/ i - Len(out) \in DOMAIN frames /\ u[i] = frames[i - Len(out)]
    BY <1>1
<1>6. \A i \in DOMAIN frames : i + Len(out) \in DOMAIN u /\ u[i + Len(out)] = frames[i]
    <2> SUFFICES ASSUME NEW i \in DOMAIN frames
                 PROVE  i + Len(out) \in DOMAIN u /\ u[i + Len(out)] = frames[i]
        OBVIOUS
    <2>1. i \in Nat /\ i >= 1 /\ i <= Len(frames)
        BY <1>1
    <2>2. i + Len(out) \in 1..(Len(out) + Len(frames)) /\ ~(i + Len(out) <= Len(out))
          /\ (i + Len(out)) - Len(out) = i
        BY <1>1, <2>1
    <2> QED BY <1>1, <2>2
<1>2. Unsettled(out) /\ Unsettled(frames) => Unsettled(u)
    BY <1>5 DEF Unsettled
<1>3. ASSUME NEW i \in DOMAIN out, out[i].kind = "start", Unsettled(frames),
             \A j \in DOMAIN out : j > i => out[j].kind # "settled"
      PROVE  StartsLast(u)
    <2>1. i \in DOMAIN u /\ u[i].kind = "start"
        BY <1>1, <1>3
    <2>2. ASSUME NEW j \in DOMAIN u, j > i
          PROVE  u[j].kind # "settled"
        <3>1. CASE j \in DOMAIN out /\ u[j] = out[j]
            BY <1>3, <2>2, <3>1
        <3>2. CASE j - Len(out) \in DOMAIN frames /\ u[j] = frames[j - Len(out)]
            BY <1>3, <3>2 DEF Unsettled
        <3> QED BY <1>5, <3>1, <3>2
    <2> QED BY <2>1, <2>2 DEF StartsLast
<1>4. ASSUME NEW i \in DOMAIN frames, frames[i].kind = "start",
             \A j \in DOMAIN frames : j > i => frames[j].kind # "settled"
      PROVE  StartsLast(u)
    <2>1. i + Len(out) \in DOMAIN u /\ u[i + Len(out)].kind = "start"
        BY <1>4, <1>6
    <2>2. \A j \in DOMAIN u : j > i + Len(out) => u[j].kind # "settled"
        <3> SUFFICES ASSUME NEW j \in DOMAIN u, j > i + Len(out) PROVE u[j].kind # "settled"
            OBVIOUS
        <3>1. j - Len(out) \in DOMAIN frames /\ j - Len(out) > i /\ u[j] = frames[j - Len(out)]
            BY <1>1, <1>4
        <3> QED BY <1>4, <3>1
    <2> QED BY <2>1, <2>2 DEF StartsLast
<1> QED BY <1>1, <1>2, <1>3, <1>4 DEF u, StartsLast

-----------------------------------------------------------------------------
(* What clients do.                                                        *)

LEMMA LiveRecord ==
    ASSUME SessionsInv, NEW s \in Sessions
    PROVE  /\ RecordSound(session[s]) /\ session[s] \in Record /\ session \in [Sessions -> Record]
           /\ child[s] \in Children /\ child \in [Sessions -> Children]
           /\ Sound(child[s], session[s], engine[s], inbox[s], outbox[s])
BY DEF SessionsInv, Sound, RecordSound

LEMMA JoinsStep ==
    ASSUME SessionsInv, NEW c \in Clients, NEW s \in Sessions, Joins(c, s),
           UNCHANGED <<engine, pipeVars>>
    PROVE  SessionsInv'
<1>. DEFINE r == [session[s] EXCEPT !.clients = @ \cup {c}, !.grace = FALSE]
            ch == IF child[s] = "none" THEN "open" ELSE child[s]
<1>1. /\ RecordSound(session[s]) /\ session[s] \in Record /\ session \in [Sessions -> Record]
      /\ child[s] \in Children /\ child \in [Sessions -> Children]
    BY LiveRecord
<1>2. /\ session' = [session EXCEPT ![s] = r] /\ child' = [child EXCEPT ![s] = ch]
      /\ UNCHANGED <<engine, inbox, outbox>>
    BY <1>1 DEF Joins, pipeVars
<1>3. /\ r \in Record /\ r.pending = session[s].pending /\ r.preparing = session[s].preparing
      /\ r.turnActive = session[s].turnActive
    BY <1>1 DEF Record
<1>4. ch \in Children \ {"none"}
    BY <1>1 DEF Children
<1>. HIDE DEF r, ch
<1>5. RecordSound(r)
    BY <1>1, <1>3, RecordKept
<1> QED BY <1>2, <1>3, <1>4, <1>5, RecordMoves

LEMMA AttachStep ==
    ASSUME SessionsInv, NEW c \in Clients, NEW s \in Sessions,
           Attach(c, s) \/ AttachChat(c, s) \/ JoinChat(c, s)
    PROVE  SessionsInv'
<1>1. UNCHANGED <<engine, pipeVars>>
    BY DEF Attach, AttachChat, JoinChat
<1>2. Joins(c, s) \/ UNCHANGED <<child, session>>
    BY DEF Attach, AttachChat, JoinChat
<1>3. CASE UNCHANGED <<child, session>>
    BY <1>1, <1>3 DEF SessionsInv, pipeVars
<1> QED BY <1>1, <1>2, <1>3, JoinsStep

(* The end of a connection is that of all it had joined.                   *)
LEMMA DropStep ==
    ASSUME SessionsInv, NEW c \in Clients, Drop(c)
    PROVE  SessionsInv'
<1>1. /\ session' = [s \in Sessions |-> IF c \in session[s].clients
                                        THEN Without(session[s], c) ELSE session[s]]
      /\ UNCHANGED <<child, engine, inbox, outbox>>
    BY DEF Drop, pipeVars
<1>2. ASSUME NEW s \in Sessions
      PROVE  /\ session'[s] \in Record
             /\ Sound(child[s], session'[s], engine[s], inbox[s], outbox[s])
    <2>1. /\ RecordSound(session[s]) /\ session[s] \in Record
          /\ Sound(child[s], session[s], engine[s], inbox[s], outbox[s])
        BY LiveRecord
    <2>2. CASE c \in session[s].clients
        <3>1. session'[s] = Without(session[s], c)
            BY <1>1, <2>2
        <3>2. /\ RecordSound(Without(session[s], c))
              /\ Without(session[s], c).turnActive = session[s].turnActive
            BY <2>1, WithoutSound
        <3>3. child[s] # "none"
            BY <2>1, <2>2 DEF Sound, Fresh
        <3> QED BY <2>1, <3>1, <3>2, <3>3 DEF Sound, TurnKnown, RecordSound
    <2>3. CASE c \notin session[s].clients
        BY <1>1, <2>1, <2>3
    <2> QED BY <2>2, <2>3
<1>3. session' \in [Sessions -> Record]
    BY <1>1, <1>2
<1> QED BY <1>1, <1>2, <1>3 DEF SessionsInv

LEMMA DetachStep ==
    ASSUME SessionsInv, NEW c \in Clients, NEW s \in Sessions, Detach(c, s)
    PROVE  SessionsInv'
<1>1. /\ RecordSound(session[s]) /\ child[s] \in Children /\ child \in [Sessions -> Children]
    BY LiveRecord
<1>2. /\ session' = [session EXCEPT ![s] = Without(session[s], c)]
      /\ child[s] # "none" /\ child' = child /\ UNCHANGED <<engine, inbox, outbox>>
    BY DEF Detach, Leaves, Live, pipeVars
<1>3. child' = [child EXCEPT ![s] = child[s]] /\ child[s] \in Children \ {"none"}
    BY <1>1, <1>2, Same
<1>4. RecordSound(Without(session[s], c)) /\ Without(session[s], c).turnActive = session[s].turnActive
    BY <1>1, WithoutSound
<1> QED BY <1>2, <1>3, <1>4, RecordMoves

LEMMA Unmoved ==
    ASSUME SessionsInv, NEW s \in Sessions
    PROVE  /\ child' = child => child' = [child EXCEPT ![s] = child[s]]
           /\ session' = session => session' = [session EXCEPT ![s] = session[s]]
           /\ engine' = engine => engine' = [engine EXCEPT ![s] = engine[s]]
           /\ inbox' = inbox => inbox' = [inbox EXCEPT ![s] = inbox[s]]
           /\ outbox' = outbox => outbox' = [outbox EXCEPT ![s] = outbox[s]]
BY Same DEF SessionsInv

LEMMA SendType ==
    ASSUME SessionsInv, CountInv, NEW s \in Sessions, NEW kind \in CommandKinds,
           sent < MaxCommands, Send(s, kind)
    PROVE  \E in \in Seq(Command) : inbox' = [inbox EXCEPT ![s] = in]
<1>. DEFINE m == [kind |-> kind, id |-> sent + 1]
<1>1. inbox \in [Sessions -> Seq(Command)] /\ inbox[s] \in Seq(Command)
    BY DEF SessionsInv
<1>2. m \in Command
    BY ConstantsAssumption DEF CountInv, Command
<1>3. Append(inbox[s], m) \in Seq(Command)
    BY <1>1, <1>2, AppendProperties
<1>4. inbox' = IF child[s] = "open" THEN [inbox EXCEPT ![s] = Append(inbox[s], m)] ELSE inbox
    BY DEF Send
<1>5. CASE child[s] = "open"
    BY <1>3, <1>4, <1>5
<1>6. CASE child[s] # "open"
    BY <1>1, <1>4, <1>6, Unmoved
<1> QED BY <1>5, <1>6

(* A command is sent to the engine, and recorded.                          *)
LEMMA CommandSent ==
    ASSUME SessionsInv, CountInv, NEW s \in Sessions, NEW kind \in CommandKinds, NEW r,
           sent < MaxCommands, Send(s, kind), child[s] # "none",
           RecordSound(r), session[s].turnActive => r.turnActive,
           session' = [session EXCEPT ![s] = r], UNCHANGED <<child, engine, outbox>>
    PROVE  SessionsInv'
<1>1. PICK in \in Seq(Command) : inbox' = [inbox EXCEPT ![s] = in]
    BY SendType
<1>2. Becomes(s, child[s], r, engine[s], in, outbox[s])
    BY <1>1, Unmoved DEF Becomes
<1>3. Sound(child[s], session[s], engine[s], inbox[s], outbox[s])
    BY LiveRecord
<1>4. TurnKnown(r, engine[s], outbox[s])
    BY <1>3 DEF Sound, TurnKnown
<1>5. Sound(child[s], r, engine[s], in, outbox[s])
    BY <1>1, <1>3, <1>4 DEF Sound
<1> QED BY <1>2, <1>5, OneMoves

LEMMA RouteStep ==
    ASSUME SessionsInv, CountInv, NEW c \in Clients, NEW s \in Sessions,
           NEW kind \in CommandKinds, Route(c, s, kind)
    PROVE  SessionsInv'
<1>. DEFINE p == [kind |-> kind, id |-> sent + 1, client |-> c]
            r == [session[s] EXCEPT !.turnActive = TRUE, !.pending = @ \cup {p}]
<1>1. RecordSound(session[s]) /\ session[s] \in Record /\ session \in [Sessions -> Record]
    BY LiveRecord
<1>2. /\ child[s] # "none" /\ kind # "prepare" /\ sent < MaxCommands /\ Send(s, kind)
      /\ session' = [session EXCEPT ![s] = r] /\ UNCHANGED <<child, engine, outbox>>
    BY <1>1 DEF Route, Live
<1>3. p \in Pending /\ p.kind = kind
    BY <1>2, ConstantsAssumption DEF CountInv, Pending
<1>4. /\ r \in Record /\ r.pending = session[s].pending \cup {p} /\ r.turnActive
      /\ r.preparing = session[s].preparing
    BY <1>1, <1>3 DEF Record
<1>. HIDE DEF r, p
<1>5. RecordSound(r)
    BY <1>1, <1>2, <1>3, <1>4, CommandAdded
<1> QED BY <1>2, <1>4, <1>5, CommandSent

LEMMA PrepareStep ==
    ASSUME SessionsInv, CountInv, NEW c \in Clients, NEW s \in Sessions, Prepare(c, s)
    PROVE  SessionsInv'
<1>. DEFINE p == [kind |-> "prepare", id |-> sent + 1, client |-> c]
            r == [session[s] EXCEPT !.preparing = TRUE, !.pending = @ \cup {p}]
<1>1. RecordSound(session[s]) /\ session[s] \in Record /\ session \in [Sessions -> Record]
    BY LiveRecord
<1>2. /\ child[s] # "none" /\ sent < MaxCommands /\ Send(s, "prepare")
      /\ ~session[s].preparing
      /\ session' = [session EXCEPT ![s] = r] /\ UNCHANGED <<child, engine, outbox>>
    BY <1>1 DEF Prepare, Live
<1>3. p \in Pending /\ p.kind = "prepare" /\ "prepare" \in CommandKinds
    BY <1>2, ConstantsAssumption DEF CountInv, Pending, CommandKinds
<1>4. /\ r \in Record /\ r.pending = session[s].pending \cup {p}
      /\ r.turnActive = session[s].turnActive /\ r.preparing
    BY <1>1, <1>3 DEF Record
<1>. HIDE DEF r, p
<1>5. RecordSound(r)
    BY <1>1, <1>2, <1>3, <1>4, CommandAdded
<1> QED BY <1>2, <1>3, <1>4, <1>5, CommandSent

(* A session is closed, whatever else its record undergoes.                *)
LEMMA ClosingStep ==
    ASSUME SessionsInv, NEW s \in Sessions, NEW r, child[s] # "none", RecordSound(r),
           session[s].turnActive => r.turnActive,
           child' = child \/ child' = Closed(s),
           session' = [session EXCEPT ![s] = r], UNCHANGED <<engine, inbox, outbox>>
    PROVE  SessionsInv'
<1>1. \E ch \in Children \ {"none"} : child' = [child EXCEPT ![s] = ch]
    <2>1. CASE child' = child
        <3>1. child[s] \in Children /\ child' = [child EXCEPT ![s] = child[s]]
            BY <2>1, LiveRecord, Unmoved
        <3> QED BY <3>1
    <2>2. CASE child' = Closed(s)
        BY <2>2, ClosedType
    <2> QED BY <2>1, <2>2
<1>2. PICK ch \in Children \ {"none"} : child' = [child EXCEPT ![s] = ch]
    BY <1>1
<1> QED BY <1>2, RecordMoves

LEMMA ReleaseStep ==
    ASSUME SessionsInv, NEW c \in Clients, NEW s \in Sessions, NEW force, Release(c, s, force)
    PROVE  SessionsInv'
<1>1. RecordSound(session[s]) /\ session[s] \in Record /\ session \in [Sessions -> Record]
    BY LiveRecord
<1>2. child[s] # "none" /\ UNCHANGED <<engine, inbox, outbox>>
    BY DEF Release, Live, pipeVars
<1>3. CASE session[s].turnActive
    <2>. DEFINE r == [session[s] EXCEPT !.release = c, !.timer = TRUE]
    <2>1. session' = [session EXCEPT ![s] = r] /\ child' = child
        BY <1>1, <1>3 DEF Release
    <2>2. /\ r \in Record /\ r.pending = session[s].pending
          /\ r.preparing = session[s].preparing /\ r.turnActive = session[s].turnActive
        BY <1>1 DEF Record
    <2>. HIDE DEF r
    <2>3. RecordSound(r)
        BY <1>1, <2>2, RecordKept
    <2> QED BY <1>2, <2>1, <2>2, <2>3, ClosingStep
<1>4. CASE ~session[s].turnActive
    <2>1. session' = [session EXCEPT ![s] = session[s]] /\ child' = Closed(s)
        BY <1>4, Unmoved DEF Release
    <2> QED BY <1>1, <1>2, <2>1, ClosingStep
<1> QED BY <1>3, <1>4

LEMMA CloseAndWaitStep ==
    ASSUME SessionsInv, NEW s \in Sessions, child[s] # "none", NEW w, RecordSound(w),
           w.turnActive = session[s].turnActive, CloseAndWait(s, w)
    PROVE  SessionsInv'
<1>. DEFINE r == [w EXCEPT !.grace = FALSE]
<1>1. /\ session' = [session EXCEPT ![s] = r] /\ child' = Closed(s)
      /\ UNCHANGED <<engine, inbox, outbox>>
    BY DEF CloseAndWait, pipeVars
<1>2. w \in Record
    BY DEF RecordSound
<1>3. /\ r \in Record /\ r.pending = w.pending /\ r.preparing = w.preparing
      /\ r.turnActive = w.turnActive
    BY <1>2 DEF Record
<1>. HIDE DEF r
<1>4. RecordSound(r)
    BY <1>3, RecordKept
<1> QED BY <1>1, <1>3, <1>4, ClosingStep

LEMMA DeleteStep ==
    ASSUME SessionsInv, NEW s \in Sessions, Delete(s)
    PROVE  SessionsInv'
<1>. DEFINE kept == {p \in session[s].pending : p.client \notin session[s].clients}
            w == [session[s] EXCEPT !.clients = {}, !.pending = kept,
                                    !.preparing = \E p \in kept : p.kind = "prepare"]
<1>1. RecordSound(session[s]) /\ session[s] \in Record
    BY LiveRecord
<1>2. child[s] # "none" /\ CloseAndWait(s, w)
    BY DEF Delete, Live
<1>3. /\ w \in Record /\ w.pending = kept /\ w.turnActive = session[s].turnActive
      /\ w.preparing <=> \E p \in kept : p.kind = "prepare"
    BY <1>1 DEF Record
<1>. HIDE DEF w
<1>4. RecordSound(w)
    BY <1>1, <1>3 DEF RecordSound
<1> QED BY <1>2, <1>3, <1>4, CloseAndWaitStep

LEMMA ArchiveStep ==
    ASSUME SessionsInv, NEW c \in Clients, NEW s \in Sessions, Archive(c, s)
    PROVE  SessionsInv'
<1>. DEFINE w == IF c \in session[s].clients THEN Without(session[s], c) ELSE session[s]
<1>1. RecordSound(session[s])
    BY LiveRecord
<1>2. child[s] # "none" /\ CloseAndWait(s, w)
    BY DEF Archive, Live
<1>3. RecordSound(w) /\ w.turnActive = session[s].turnActive
    BY <1>1, WithoutSound
<1>. HIDE DEF w
<1> QED BY <1>2, <1>3, CloseAndWaitStep

-----------------------------------------------------------------------------
(* What the daemon does.                                                   *)

(* It reads a frame, and its record says no less of the turn than before,  *)
(* unless the frame is a settlement.                                       *)
LEMMA FrameRead ==
    ASSUME SessionsInv, NEW s \in Sessions, NEW r, ReadsFrame(s), RecordSound(r),
           session' = [session EXCEPT ![s] = r], UNCHANGED <<child, engine, inbox>>,
           \/ r.turnActive = session[s].turnActive /\ Head(outbox[s]).kind # "start"
           \/ r.turnActive
           \/ ~r.turnActive /\ Head(outbox[s]).kind = "settled"
    PROVE  SessionsInv'
<1>. DEFINE out == outbox[s]
<1>1. Sound(child[s], session[s], engine[s], inbox[s], out) /\ out \in Seq(Frame)
    BY LiveRecord DEF Sound
<1>2. child[s] # "none" /\ out # <<>> /\ outbox' = [outbox EXCEPT ![s] = Tail(out)]
    BY DEF ReadsFrame, Live
<1>. HIDE DEF out
<1>3. /\ Tail(out) \in Seq(Frame)
      /\ Unsettled(out) => Unsettled(Tail(out)) /\ Head(out).kind # "settled"
      /\ StartsLast(out) => StartsLast(Tail(out)) \/ (Head(out).kind = "start" /\ Unsettled(Tail(out)))
    BY <1>1, <1>2, TailOfFrames
<1>4. TurnKnown(r, engine[s], Tail(out))
    <2> SUFFICES ASSUME engine[s] = "running"
                 PROVE  (r.turnActive /\ Unsettled(Tail(out))) \/ StartsLast(Tail(out))
        BY DEF TurnKnown
    <2>1. (session[s].turnActive /\ Unsettled(out)) \/ StartsLast(out)
        BY <1>1 DEF Sound, TurnKnown
    <2> QED BY <1>3, <2>1 DEF out
<1>5. Sound(child[s], r, engine[s], inbox[s], Tail(out))
    BY <1>1, <1>2, <1>3, <1>4 DEF Sound
<1>6. Becomes(s, child[s], r, engine[s], inbox[s], Tail(out))
    BY <1>2, Unmoved DEF Becomes
<1> QED BY <1>5, <1>6, OneMoves

LEMMA ReadResponseStep ==
    ASSUME SessionsInv, NEW s \in Sessions, ReadResponse(s)
    PROVE  SessionsInv'
<1>. DEFINE answered == {p \in session[s].pending : p.id = Head(outbox[s]).id}
            r == [session[s] EXCEPT
                     !.pending = @ \ answered,
                     !.preparing = @ /\ \A p \in answered : p.kind # "prepare"]
<1>1. RecordSound(session[s]) /\ session[s] \in Record /\ session \in [Sessions -> Record]
    BY LiveRecord
<1>2. /\ ReadsFrame(s) /\ Head(outbox[s]).kind \in {"ok", "refused", "prepared"}
      /\ UNCHANGED <<child, engine, inbox>>
    BY DEF ReadResponse
<1>3. session' = [session EXCEPT ![s] = r]
    BY <1>1 DEF ReadResponse
<1>4. /\ r \in Record /\ r.pending = session[s].pending \ answered
      /\ r.turnActive = session[s].turnActive
      /\ r.preparing <=> (session[s].preparing /\ \A p \in answered : p.kind # "prepare")
    BY <1>1 DEF Record
<1>5. answered \subseteq session[s].pending
    OBVIOUS
<1>. HIDE DEF r, answered
<1>6. RecordSound(r)
    BY <1>1, <1>4, <1>5, CommandsGone
<1> QED BY <1>2, <1>3, <1>4, <1>6, FrameRead

LEMMA ReadEventStep ==
    ASSUME SessionsInv, NEW s \in Sessions, ReadEvent(s)
    PROVE  SessionsInv'
<1>. DEFINE kind == Head(outbox[s]).kind
            r == [session[s] EXCEPT
                     !.turnActive = kind # "settled",
                     !.finalizing = IF kind = "settled" THEN @ + 1 ELSE @]
<1>1. RecordSound(session[s]) /\ session[s] \in Record /\ session \in [Sessions -> Record]
    BY LiveRecord
<1>2. ReadsFrame(s) /\ UNCHANGED <<child, engine, inbox>>
    BY DEF ReadEvent
<1>3. session' = [session EXCEPT ![s] = r]
    BY <1>1 DEF ReadEvent
<1>4. session[s].finalizing \in Nat
    BY <1>1 DEF Record
<1>7. \E n \in Nat : r = [session[s] EXCEPT !.turnActive = kind # "settled", !.finalizing = n]
    <2>. DEFINE n == IF kind = "settled" THEN session[s].finalizing + 1 ELSE session[s].finalizing
    <2>1. n \in Nat
        BY <1>4
    <2>2. r = [session[s] EXCEPT !.turnActive = kind # "settled", !.finalizing = n]
        OBVIOUS
    <2>. HIDE DEF n, r
    <2> QED BY <2>1, <2>2
<1>. HIDE DEF r
<1>5. /\ r \in Record /\ r.pending = session[s].pending /\ r.preparing = session[s].preparing
      /\ r.turnActive <=> kind # "settled"
    <2>1. PICK n \in Nat, b \in BOOLEAN :
              (b <=> kind # "settled") /\ r = WithTurn(session[s], b, n)
        BY <1>7 DEF WithTurn
    <2>2. /\ r \in Record /\ r.pending = session[s].pending
          /\ r.preparing = session[s].preparing /\ r.turnActive = b
        BY <1>1, <2>1, EventRecorded
    <2> QED BY <2>1, <2>2
<1>. HIDE DEF r
<1>6. RecordSound(r)
    BY <1>1, <1>5, RecordKept
<1> QED BY <1>2, <1>3, <1>5, <1>6, FrameRead

LEMMA FinalizeStep ==
    ASSUME SessionsInv, NEW s \in Sessions, Finalize(s)
    PROVE  SessionsInv'
<1>. DEFINE r == [session[s] EXCEPT
                     !.finalizing = @ - 1, !.release = None,
                     !.grace = @ \/ (session[s].release = None /\ session[s].clients = {})]
<1>1. RecordSound(session[s]) /\ session[s] \in Record /\ session \in [Sessions -> Record]
    BY LiveRecord
<1>2. /\ child[s] # "none" /\ UNCHANGED <<engine, inbox, outbox>>
      /\ child' = child \/ child' = Closed(s)
    BY DEF Finalize, Live, pipeVars
<1>3. session' = [session EXCEPT ![s] = r]
    BY <1>1 DEF Finalize
<1>4. session[s].finalizing \in Nat /\ session[s].finalizing > 0
    BY <1>1 DEF Record, Finalize
<1>7. \E n \in Nat, b \in BOOLEAN :
          r = [session[s] EXCEPT !.finalizing = n, !.release = None, !.grace = b]
    <2>. DEFINE n == session[s].finalizing - 1
                b == session[s].grace \/ (session[s].release = None /\ session[s].clients = {})
    <2>1. n \in Nat
        BY <1>4
    <2>2. b \in BOOLEAN
        BY <1>1 DEF Record
    <2>3. r = [session[s] EXCEPT !.finalizing = n, !.release = None, !.grace = b]
        OBVIOUS
    <2>. HIDE DEF n, b, r
    <2> QED BY <2>1, <2>2, <2>3
<1>. HIDE DEF r
<1>5. /\ r \in Record /\ r.pending = session[s].pending /\ r.preparing = session[s].preparing
      /\ r.turnActive = session[s].turnActive
    <2>1. PICK n \in Nat, b \in BOOLEAN :
              r = WithSettlement(session[s], b, n)
        BY <1>7 DEF WithSettlement
    <2> QED BY <1>1, <2>1, SettlementRecorded
<1>. HIDE DEF r
<1>6. RecordSound(r)
    BY <1>1, <1>5, RecordKept
<1> QED BY <1>2, <1>3, <1>5, <1>6, ClosingStep

LEMMA TimerStep ==
    ASSUME SessionsInv, NEW s \in Sessions, ReleaseTimesOut(s) \/ GraceEnds(s)
    PROVE  SessionsInv'
<1>1. RecordSound(session[s]) /\ session[s] \in Record /\ session \in [Sessions -> Record]
    BY LiveRecord
<1>2. /\ child[s] # "none" /\ UNCHANGED <<engine, inbox, outbox>>
      /\ child' = child \/ child' = Closed(s)
    BY DEF ReleaseTimesOut, GraceEnds, Live, pipeVars
<1>3. \E r \in {[session[s] EXCEPT !.timer = FALSE, !.release = None],
                [session[s] EXCEPT !.grace = FALSE]} : session' = [session EXCEPT ![s] = r]
    BY <1>1 DEF ReleaseTimesOut, GraceEnds
<1>4. PICK r \in {[session[s] EXCEPT !.timer = FALSE, !.release = None],
                  [session[s] EXCEPT !.grace = FALSE]} : session' = [session EXCEPT ![s] = r]
    BY <1>3
<1>5. /\ r \in Record /\ r.pending = session[s].pending /\ r.preparing = session[s].preparing
      /\ r.turnActive = session[s].turnActive
    BY <1>1, <1>4 DEF Record
<1>6. RecordSound(r)
    BY <1>1, <1>5, RecordKept
<1> QED BY <1>2, <1>4, <1>5, <1>6, ClosingStep

LEMMA FreshSound == RecordSound(Fresh)
BY DEF RecordSound, Fresh, Record

LEMMA EngineExitsStep ==
    ASSUME SessionsInv, NEW s \in Sessions, EngineExits(s)
    PROVE  SessionsInv'
<1>1. Becomes(s, "none", Fresh, "idle", <<>>, <<>>)
    BY DEF EngineExits, Becomes
<1>2. <<>> \in Seq(Command) /\ <<>> \in Seq(Frame)
    BY EmptySeq
<1>3. Sound("none", Fresh, "idle", <<>>, <<>>)
    BY <1>2, FreshSound DEF Sound, TurnKnown, Children, Engines
<1> QED BY <1>1, <1>3, OneMoves

-----------------------------------------------------------------------------
(* What engines do.                                                        *)

(* An engine says something, and starts and ends turns as it says.         *)
LEMMA EngineSays ==
    ASSUME SessionsInv, NEW s \in Sessions, child[s] # "none",
           NEW in \in Seq(Command), NEW e \in Engines, NEW frames \in Seq(Frame),
           inbox' = [inbox EXCEPT ![s] = in], engine' = [engine EXCEPT ![s] = e],
           Says(s, frames), UNCHANGED <<child, session>>,
           \/ e = "idle"
           \/ e = engine[s] /\ Unsettled(frames)
           \/ StartsLast(frames)
    PROVE  SessionsInv'
<1>1. Sound(child[s], session[s], engine[s], inbox[s], outbox[s]) /\ outbox[s] \in Seq(Frame)
    BY LiveRecord DEF Sound
<1>2. outbox' = [outbox EXCEPT ![s] = outbox[s] \o frames]
    BY DEF Says
<1>. DEFINE out == outbox[s] \o frames
<1>3. /\ out \in Seq(Frame)
      /\ Unsettled(outbox[s]) /\ Unsettled(frames) => Unsettled(out)
      /\ StartsLast(outbox[s]) /\ Unsettled(frames) => StartsLast(out)
      /\ StartsLast(frames) => StartsLast(out)
    BY <1>1, MoreFrames
<1>4. Becomes(s, child[s], session[s], e, in, out)
    BY <1>2, Unmoved DEF Becomes
<1>. HIDE DEF out
<1>5. TurnKnown(session[s], e, out)
    BY <1>1, <1>3 DEF Sound, TurnKnown
<1>6. Sound(child[s], session[s], e, in, out)
    BY <1>1, <1>3, <1>5 DEF Sound
<1> QED BY <1>4, <1>6, OneMoves

(* The frames there are.                                                   *)
LEMMA OneEvent ==
    ASSUME NEW kind \in {"start", "settled", "continuing"}
    PROVE  /\ <<Event(kind)>> \in Seq(Frame)
           /\ kind # "settled" => Unsettled(<<Event(kind)>>)
           /\ kind = "start" => StartsLast(<<Event(kind)>>)
<1>1. Event(kind) \in Frame /\ Event(kind).kind = kind
    BY DEF Event, Frame
<1>2. <<Event(kind)>> \in Seq(Frame)
    BY <1>1
<1>3. kind # "settled" => Unsettled(<<Event(kind)>>)
    BY <1>1 DEF Unsettled
<1>4. kind = "start" => StartsLast(<<Event(kind)>>)
    BY <1>1 DEF StartsLast
<1> QED BY <1>2, <1>3, <1>4

LEMMA OneReply ==
    ASSUME SessionsInv, NEW s \in Sessions, inbox[s] # <<>>,
           NEW kind \in {"ok", "refused", "prepared"}
    PROVE  /\ Reply(s, kind) \in Frame /\ Reply(s, kind).kind = kind
           /\ <<Reply(s, kind)>> \in Seq(Frame) /\ Unsettled(<<Reply(s, kind)>>)
<1>1. inbox[s] \in Seq(Command)
    BY DEF SessionsInv
<1>2. Head(inbox[s]) \in Command
    BY <1>1, HeadTailProperties
<1>3. Reply(s, kind) \in Frame /\ Reply(s, kind).kind = kind
    BY <1>2 DEF Reply, Frame, Command
<1>4. Unsettled(<<Reply(s, kind)>>)
    BY <1>3 DEF Unsettled
<1> QED BY <1>3, <1>4

LEMMA TwoFrames ==
    ASSUME NEW f \in Frame, NEW kind \in {"start", "settled"}
    PROVE  /\ <<f, Event(kind)>> \in Seq(Frame)
           /\ kind = "start" => StartsLast(<<f, Event(kind)>>)
<1>1. Event(kind) \in Frame /\ Event(kind).kind = kind
    BY DEF Event, Frame
<1>2. <<f, Event(kind)>> \in Seq(Frame)
    BY <1>1
<1>3. kind = "start" => StartsLast(<<f, Event(kind)>>)
    <2>. DEFINE two == <<f, Event(kind)>>
    <2>1. DOMAIN two = 1..2 /\ two[2] = Event(kind)
        OBVIOUS
    <2>. HIDE DEF two
    <2>2. kind = "start" => StartsLast(two)
        BY <1>1, <2>1 DEF StartsLast
    <2> QED BY <2>2 DEF two
<1> QED BY <1>2, <1>3

LEMMA EngineStep ==
    ASSUME SessionsInv, NEW s \in Sessions, EngineSteps(s) \/ EngineWakes(s)
    PROVE  SessionsInv'
<1>1. /\ engine \in [Sessions -> Engines] /\ engine[s] \in Engines
      /\ inbox[s] \in Seq(Command)
    BY DEF SessionsInv
<1>2. engine' = engine => engine' = [engine EXCEPT ![s] = engine[s]]
    BY Unmoved
<1>3. ASSUME NEW kind, TakesCommand(s, kind)
      PROVE  /\ child[s] # "none" /\ inbox[s] # <<>> /\ UNCHANGED <<child, session>>
             /\ Tail(inbox[s]) \in Seq(Command) /\ inbox' = [inbox EXCEPT ![s] = Tail(inbox[s])]
    <2>1. /\ child[s] # "none" /\ inbox[s] # <<>> /\ UNCHANGED <<child, session>>
          /\ inbox' = [inbox EXCEPT ![s] = Tail(inbox[s])]
        BY <1>3 DEF TakesCommand, Live
    <2> QED BY <1>1, <2>1, HeadTailProperties
<1>4. CASE EngineTakesPrompt(s)
    <2>1. /\ child[s] # "none" /\ inbox[s] # <<>> /\ UNCHANGED <<child, session>>
          /\ Tail(inbox[s]) \in Seq(Command) /\ inbox' = [inbox EXCEPT ![s] = Tail(inbox[s])]
        BY <1>3, <1>4 DEF EngineTakesPrompt
    <2>2. CASE engine' = [engine EXCEPT ![s] = "running"]
               /\ Says(s, <<Reply(s, "ok"), Event("start")>>)
        BY <2>1, <2>2, OneReply, TwoFrames, EngineSays DEF Engines
    <2>3. CASE engine[s] = "idle" /\ engine' = engine
               /\ Says(s, <<Reply(s, "ok"), Event("settled")>>)
        BY <1>1, <1>2, <2>1, <2>3, OneReply, TwoFrames, EngineSays
    <2>4. ASSUME NEW kind \in {"ok", "refused"}, engine' = engine, Says(s, <<Reply(s, kind)>>)
          PROVE  SessionsInv'
        BY <1>1, <1>2, <2>1, <2>4, OneReply, EngineSays
    <2> QED BY <1>4, <2>2, <2>3, <2>4 DEF EngineTakesPrompt
<1>5. CASE EngineTakesSteer(s)
    <2>1. /\ child[s] # "none" /\ inbox[s] # <<>> /\ UNCHANGED <<child, session>>
          /\ Tail(inbox[s]) \in Seq(Command) /\ inbox' = [inbox EXCEPT ![s] = Tail(inbox[s])]
        BY <1>3, <1>5 DEF EngineTakesSteer
    <2> QED BY <1>1, <1>2, <1>5, <2>1, OneReply, EngineSays DEF EngineTakesSteer
<1>6. CASE EngineTakesPrepare(s)
    <2>1. /\ child[s] # "none" /\ inbox[s] # <<>> /\ UNCHANGED <<child, session>>
          /\ Tail(inbox[s]) \in Seq(Command) /\ inbox' = [inbox EXCEPT ![s] = Tail(inbox[s])]
        BY <1>3, <1>6 DEF EngineTakesPrepare
    <2> QED BY <1>1, <1>2, <1>6, <2>1, OneReply, EngineSays DEF EngineTakesPrepare
<1>7. CASE EngineSettles(s)
    <2>1. /\ child[s] # "none" /\ UNCHANGED <<child, session>>
          /\ inbox' = [inbox EXCEPT ![s] = inbox[s]]
        BY <1>7, Unmoved DEF EngineSettles, Live
    <2>2. CASE Says(s, <<Event("settled")>>) /\ engine' = [engine EXCEPT ![s] = "idle"]
        BY <1>1, <2>1, <2>2, OneEvent, EngineSays DEF Engines
    <2>3. CASE Says(s, <<Event("continuing"), Event("start")>>) /\ engine' = engine
        <3>1. Event("continuing") \in Frame
            BY DEF Event, Frame
        <3> QED BY <1>1, <1>2, <2>1, <2>3, <3>1, TwoFrames, EngineSays
    <2>4. CASE Says(s, <<Event("continuing")>>) /\ engine' = [engine EXCEPT ![s] = "idle"]
        BY <1>1, <2>1, <2>4, OneEvent, EngineSays DEF Engines
    <2> QED BY <1>7, <2>2, <2>3, <2>4 DEF EngineSettles
<1>8. CASE EngineWakes(s)
    <2>1. /\ child[s] # "none" /\ UNCHANGED <<child, session>>
          /\ inbox' = [inbox EXCEPT ![s] = inbox[s]]
          /\ Says(s, <<Event("start")>>) /\ engine' = [engine EXCEPT ![s] = "running"]
        BY <1>8, Unmoved DEF EngineWakes, Live
    <2> QED BY <1>1, <2>1, OneEvent, EngineSays DEF Engines
<1> QED BY <1>4, <1>5, <1>6, <1>7, <1>8 DEF EngineSteps

-----------------------------------------------------------------------------
(* What the daemon counts.                                                 *)

(* The frames an exit leaves unread are finitely many.                     *)
LEMMA LateIsCounted ==
    ASSUME SessionsInv, NEW s \in Sessions
    PROVE  LateRechecks(s) \in Nat
<1>. DEFINE frames == {i \in DOMAIN outbox[s] :
                       \/ outbox[s][i].kind = "settled"
                       \/ \E p \in session[s].pending :
                             /\ p.kind = "prepare" /\ outbox[s][i].kind \in {"prepared", "refused"}
                             /\ outbox[s][i].id = p.id}
<1>1. outbox[s] \in Seq(Frame)
    BY DEF SessionsInv
<1>2. DOMAIN outbox[s] = 1..Len(outbox[s]) /\ Len(outbox[s]) \in Nat
    BY <1>1, LenProperties
<1>3. IsFiniteSet(1..Len(outbox[s]))
    BY <1>2, FS_Interval
<1>4. frames \subseteq 1..Len(outbox[s])
    BY <1>2
<1>5. LateRechecks(s) = Cardinality(frames)
    BY DEF LateRechecks
<1>. HIDE DEF frames
<1>6. IsFiniteSet(frames)
    BY <1>3, <1>4, FS_Subset
<1> QED BY <1>5, <1>6, FS_CardinalityType

LEMMA Drains ==
    ASSUME CountInv, NEW records, (MaybeFinishDrain(records) \/ UNCHANGED down)
    PROVE  down' \in BOOLEAN
BY DEF MaybeFinishDrain, CountInv

LEMMA ClientCounts ==
    ASSUME SessionsInv, CountInv, ClientSteps
    PROVE  CountInv'
<1>1. ASSUME NEW c \in Clients, NEW s \in Sessions, Prepare(c, s)
      PROVE  CountInv'
    BY <1>1, ConstantsAssumption DEF Prepare, CountInv, daemonVars
<1>2. ASSUME NEW c \in Clients, NEW s \in Sessions, NEW kind \in CommandKinds, Route(c, s, kind)
      PROVE  CountInv'
    BY <1>2, ConstantsAssumption DEF Route, CountInv, daemonVars
<1>3. ASSUME UNCHANGED <<draining, cutShort, rechecks, sent>>, down' \in BOOLEAN
      PROVE  CountInv'
    BY <1>3 DEF CountInv
<1>4. ASSUME NEW c \in Clients, NEW s \in Sessions, Detach(c, s)
      PROVE  CountInv'
    <2>1. down' \in BOOLEAN
        BY <1>4, Drains DEF Detach, Leaves
    <2> QED BY <1>3, <1>4, <2>1 DEF Detach, Leaves
<1>5. ASSUME NEW s \in Sessions, NEW w, CloseAndWait(s, w)
      PROVE  CountInv'
    <2>1. down' \in BOOLEAN
        BY <1>5, Drains DEF CloseAndWait
    <2> QED BY <1>3, <1>5, <2>1 DEF CloseAndWait
<1>6. ASSUME NEW force \in BOOLEAN, BeginDrain(force)
      PROVE  CountInv'
    BY <1>6 DEF BeginDrain, CountInv
<1>7. ASSUME NEW c \in Clients, NEW s \in Sessions,
             \/ Attach(c, s) \/ AttachChat(c, s)
             \/ \E force \in BOOLEAN : Release(c, s, force)
      PROVE  CountInv'
    BY <1>7 DEF Attach, AttachChat, Release, CountInv, daemonVars
<1>8. ASSUME NEW s \in Sessions, Delete(s)
      PROVE  CountInv'
    BY <1>5, <1>8 DEF Delete
<1>9. ASSUME NEW c \in Clients, NEW s \in Sessions, Archive(c, s)
      PROVE  CountInv'
    BY <1>5, <1>9 DEF Archive
<1>10. ASSUME NEW c \in Clients, Drop(c)
       PROVE  CountInv'
    <2>1. down' \in BOOLEAN
        BY <1>10, Drains DEF Drop
    <2> QED BY <1>3, <1>10, <2>1 DEF Drop
<1> QED BY <1>1, <1>2, <1>4, <1>6, <1>7, <1>8, <1>9, <1>10 DEF ClientSteps

LEMMA DaemonCounts ==
    ASSUME SessionsInv, CountInv, NEW s \in Sessions, DaemonSteps(s)
    PROVE  CountInv'
<1>1. CASE ReadResponse(s)
    <2>1. down' \in BOOLEAN
        BY <1>1, Drains DEF ReadResponse
    <2> QED BY <1>1, <2>1 DEF ReadResponse, CountInv
<1>2. CASE Finalize(s)
    <2>1. down' \in BOOLEAN
        BY <1>2, Drains DEF Finalize
    <2> QED BY <1>2, <2>1 DEF Finalize, CountInv
<1>3. CASE ReadEvent(s)
    BY <1>3 DEF ReadEvent, CountInv, daemonVars
<1>4. CASE ReleaseTimesOut(s) \/ GraceEnds(s)
    BY <1>4 DEF ReleaseTimesOut, GraceEnds, CountInv, daemonVars
<1> QED BY <1>1, <1>2, <1>3, <1>4 DEF DaemonSteps

LEMMA EngineCounts ==
    ASSUME SessionsInv, CountInv, NEW s \in Sessions,
           EngineSteps(s) \/ EngineWakes(s) \/ EngineExits(s)
    PROVE  CountInv'
<1>1. ASSUME UNCHANGED <<daemonVars, rechecks>>,
             sent' = sent \/ (sent < MaxCommands /\ sent' = sent + 1)
      PROVE  CountInv'
    BY <1>1, ConstantsAssumption DEF CountInv, daemonVars
<1>2. CASE EngineTakesPrompt(s) \/ EngineTakesSteer(s) \/ EngineTakesPrepare(s)
    BY <1>1, <1>2 DEF EngineTakesPrompt, EngineTakesSteer, EngineTakesPrepare, TakesCommand
<1>3. CASE EngineSettles(s) \/ EngineWakes(s)
    BY <1>1, <1>3 DEF EngineSettles, EngineWakes
<1>4. CASE EngineExits(s)
    <2>1. session[s].finalizing \in Nat
        BY LiveRecord DEF Record
    <2>2. rechecks' \in Nat
        BY <1>4, <2>1, LateIsCounted DEF EngineExits, CountInv
    <2>3. cutShort' \in BOOLEAN
        BY <1>4 DEF EngineExits, CountInv
    <2> QED BY <1>4, <2>2, <2>3 DEF EngineExits, CountInv
<1> QED BY <1>2, <1>3, <1>4 DEF EngineSteps

-----------------------------------------------------------------------------
LEMMA DaemonInit == Init => DaemonInv
<1> SUFFICES ASSUME Init PROVE DaemonInv
    OBVIOUS
<1>1. <<>> \in Seq(Command) /\ <<>> \in Seq(Frame)
    BY EmptySeq
<1>2. Sound("none", Fresh, "idle", <<>>, <<>>)
    BY <1>1, FreshSound DEF Sound, TurnKnown, Children, Engines
<1>3. Fresh \in Record
    BY FreshSound DEF RecordSound
<1>4. SessionsInv
    BY <1>1, <1>2, <1>3 DEF Init, SessionsInv, Children, Engines
<1>5. CountInv
    <2>1. 0 \in 0..MaxCommands /\ 0 \in Nat
        BY ConstantsAssumption
    <2> QED BY <2>1 DEF Init, CountInv
<1>6. PeopleInv
    BY DEF Init, PeopleInv
<1> QED BY <1>4, <1>5, <1>6 DEF DaemonInv

LEMMA SessionsStep ==
    ASSUME SessionsInv, CountInv, Next
    PROVE  SessionsInv'
<1>1. ASSUME UNCHANGED <<child, session, engine, pipeVars>>
      PROVE  SessionsInv'
    BY <1>1 DEF SessionsInv, pipeVars
<1>2. CASE ClientSteps
    <2>1. ASSUME NEW force \in BOOLEAN, BeginDrain(force)
          PROVE  SessionsInv'
        BY <1>1, <2>1 DEF BeginDrain
    <2> QED BY <1>2, <2>1, AttachStep, DropStep, DetachStep, PrepareStep, RouteStep, ReleaseStep,
               ArchiveStep, DeleteStep DEF ClientSteps
<1>3. CASE FinalizeExited
    BY <1>1, <1>3 DEF FinalizeExited
<1>4. ASSUME NEW s \in Sessions, DaemonSteps(s)
      PROVE  SessionsInv'
    BY <1>4, ReadResponseStep, ReadEventStep, FinalizeStep, TimerStep DEF DaemonSteps
<1>5. ASSUME NEW s \in Sessions, EngineSteps(s) \/ EngineWakes(s) \/ EngineExits(s)
      PROVE  SessionsInv'
    BY <1>5, EngineStep, EngineExitsStep
<1>6. ASSUME NEW c \in Clients, LateRelease(c)
      PROVE  SessionsInv'
    BY <1>1, <1>6 DEF LateRelease
<1> QED BY <1>2, <1>3, <1>4, <1>5, <1>6, AttachStep DEF Next

LEMMA CountsStep ==
    ASSUME SessionsInv, CountInv, Next
    PROVE  CountInv'
<1>1. CASE FinalizeExited
    <2>1. down' \in BOOLEAN
        BY <1>1, Drains DEF FinalizeExited
    <2>2. rechecks' \in Nat
        BY <1>1 DEF FinalizeExited, CountInv
    <2> QED BY <1>1, <2>1, <2>2 DEF FinalizeExited, CountInv
<1>2. ASSUME NEW c \in Clients, NEW s \in Sessions, LateRelease(c) \/ JoinChat(c, s)
      PROVE  CountInv'
    BY <1>2 DEF LateRelease, JoinChat, CountInv, daemonVars
<1>3. ASSUME NEW c \in Clients, LateRelease(c)
      PROVE  CountInv'
    BY <1>3 DEF LateRelease, CountInv, daemonVars
<1> QED BY <1>1, <1>2, <1>3, ClientCounts, DaemonCounts, EngineCounts DEF Next

LEMMA PeopleStep ==
    ASSUME SessionsInv, PeopleInv, Next
    PROVE  PeopleInv'
<1>1. CASE UNCHANGED <<clientVars, releaseVars>>
    BY <1>1 DEF PeopleInv, clientVars, releaseVars
<1>2. ASSUME NEW c \in Clients, NEW s \in Sessions,
             \/ AttachChat(c, s) \/ JoinChat(c, s) \/ LateRelease(c) \/ Drop(c)
             \/ \E force \in BOOLEAN : Release(c, s, force)
             \/ Finalize(s) \/ ReleaseTimesOut(s)
      PROVE  PeopleInv'
    BY <1>2 DEF AttachChat, JoinChat, LateRelease, Drop, Release, Finalize, ReleaseTimesOut,
                PeopleInv, clientVars, releaseVars
<1>3. ASSUME NEW c \in Clients, Drop(c) \/ LateRelease(c)
      PROVE  PeopleInv'
    BY <1>3 DEF LateRelease, Drop, PeopleInv, clientVars, releaseVars
<1>4. ASSUME NEW s \in Sessions, Finalize(s) \/ ReleaseTimesOut(s)
      PROVE  PeopleInv'
    BY <1>4 DEF Finalize, ReleaseTimesOut, PeopleInv, clientVars
<1>5. ASSUME NEW s \in Sessions, EngineExits(s)
      PROVE  PeopleInv'
    <2>1. session[s].release \in Clients \cup {None}
        BY LiveRecord DEF Record
    <2> QED BY <1>5, <2>1 DEF EngineExits, PeopleInv, clientVars
<1>6. CASE ClientSteps
    <2>1. ASSUME NEW c \in Clients, NEW s \in Sessions,
                 Attach(c, s) \/ Detach(c, s) \/ Prepare(c, s) \/ Archive(c, s)
          PROVE  UNCHANGED <<clientVars, releaseVars>>
        BY <2>1 DEF Attach, Detach, Leaves, Prepare, Archive, CloseAndWait, clientVars
    <2>2. ASSUME NEW c \in Clients, NEW s \in Sessions, NEW kind, Route(c, s, kind)
          PROVE  UNCHANGED <<clientVars, releaseVars>>
        BY <2>2 DEF Route
    <2>3. ASSUME NEW s \in Sessions, Delete(s)
          PROVE  UNCHANGED <<clientVars, releaseVars>>
        BY <2>3 DEF Delete, CloseAndWait
    <2>4. ASSUME NEW force, BeginDrain(force)
          PROVE  UNCHANGED <<clientVars, releaseVars>>
        BY <2>4 DEF BeginDrain
    <2> QED BY <1>1, <1>2, <1>3, <1>6, <2>1, <2>2, <2>3, <2>4 DEF ClientSteps
<1>7. ASSUME NEW s \in Sessions, ReadResponse(s) \/ ReadEvent(s) \/ GraceEnds(s)
      PROVE  UNCHANGED <<clientVars, releaseVars>>
    BY <1>7 DEF ReadResponse, ReadEvent, GraceEnds
<1>8. ASSUME NEW s \in Sessions, EngineSteps(s) \/ EngineWakes(s)
      PROVE  UNCHANGED <<clientVars, releaseVars>>
    BY <1>8 DEF EngineSteps, EngineWakes, EngineTakesPrompt, EngineTakesSteer,
                EngineTakesPrepare, EngineSettles, TakesCommand
<1>9. FinalizeExited => UNCHANGED <<clientVars, releaseVars>>
    BY DEF FinalizeExited
<1> QED BY <1>1, <1>2, <1>3, <1>4, <1>5, <1>6, <1>7, <1>8, <1>9 DEF Next, DaemonSteps

LEMMA DaemonStep == DaemonInv /\ [Next]_vars => DaemonInv'
<1> SUFFICES ASSUME DaemonInv, [Next]_vars PROVE DaemonInv'
    OBVIOUS
<1>1. CASE Next
    BY <1>1, SessionsStep, CountsStep, PeopleStep DEF DaemonInv
<1>2. CASE UNCHANGED vars
    BY <1>2 DEF DaemonInv, SessionsInv, CountInv, PeopleInv, vars, daemonVars, pipeVars,
                clientVars, releaseVars
<1> QED BY <1>1, <1>2

LEMMA DaemonKnows == DaemonInv => EnginesKnown
<1> SUFFICES ASSUME DaemonInv PROVE EnginesKnown
    OBVIOUS
<1>1. TypeOK
    <2>1. ASSUME NEW s \in Sessions
          PROVE  /\ inbox[s] \in Seq(Command) /\ outbox[s] \in Seq(Frame)
                 /\ child[s] = "none" => session[s] = Fresh /\ inbox[s] = <<>> /\ outbox[s] = <<>>
        BY DEF DaemonInv, SessionsInv, Sound
    <2> QED BY <2>1 DEF DaemonInv, SessionsInv, CountInv, PeopleInv, TypeOK, Children, Engines
<1>2. TurnsAreSeen
    <2> SUFFICES ASSUME NEW s \in Sessions, engine[s] = "running", ~session[s].turnActive
                 PROVE  "start" \in FramesToRead(s)
        BY DEF TurnsAreSeen
    <2>1. StartsLast(outbox[s])
        BY DEF DaemonInv, SessionsInv, Sound, TurnKnown
    <2> QED BY <2>1 DEF StartsLast, FramesToRead
<1>3. PreparingExact
    BY DEF PreparingExact, DaemonInv, SessionsInv, Sound, RecordSound
<1> QED BY <1>1, <1>2, <1>3 DEF EnginesKnown

(* EnginesKnown holds for any sessions, clients and commands: however the  *)
(* commands of clients, the frames of engines, drains, deletions, timers   *)
(* and exits of engines interleave, a turn that runs is known to the       *)
(* daemon or its start is among the frames it has yet to read, and a       *)
(* session counts as preparing exactly while one preparation is            *)
(* unanswered.                                                             *)
THEOREM EnginesAreKnown == Spec => []EnginesKnown
<1>1. Spec => []DaemonInv
    BY DaemonInit, DaemonStep, PTL DEF Spec
<1> QED BY <1>1, DaemonKnows, PTL

-----------------------------------------------------------------------------
(* The start of the daemon, which shares no state with the sessions of the *)
(* daemon that has started.                                                *)
Points ==
    LookPoints \cup LockPoints \cup BindPoints
        \cup ClosePoints \cup Dead
            \cup {"idle", "serving"}

(* Whoever the lock names has just created it, or has acquired it and      *)
(* starts, or closes without having released it, or is dead.  A worker     *)
(* that lost the race for the lock starts all the same, and releases       *)
(* nothing, so it must not be named: what `acquired` is in it for.         *)
LockInv ==
    lock # NoFile =>
        \/ pc[lock.owner] \in {"stamp", "exited", "killed"}
        \/ lock.owner \in acquired /\ pc[lock.owner] \in BindPoints \cup ClosePoints

StartupInv == StartupTypeOK /\ LockInv

-----------------------------------------------------------------------------
LEMMA StartupBegins == StartupInit => StartupInv
BY DEF StartupInit, StartupInv, StartupTypeOK, LockInv, Processes, LookPoints,
       LockPoints, BindPoints,
       ClosePoints, Dead

(* A process that moves on while the lock is that of another.              *)
LEMMA OthersMove ==
    ASSUME StartupInv, NEW x \in Processes, NEW point \in Points, Goto(x, point),
           lock' = lock, acquired' = acquired,
           lock # NoFile /\ lock.owner = x =>
               point \in {"stamp", "exited", "killed"}
               \/ (x \in acquired /\ point \in BindPoints \cup ClosePoints)
    PROVE  pc' \in [Processes -> Points] /\ LockInv'
<1>1. pc \in [Processes -> Points] /\ pc' = [pc EXCEPT ![x] = point]
    BY DEF StartupInv, StartupTypeOK, Points, Goto
<1>2. lock # NoFile => lock.owner \in Processes
    BY DEF StartupInv, StartupTypeOK, Processes
<1>3. \A y \in Processes : pc'[y] = IF y = x THEN point ELSE pc[y]
    BY <1>1
<1> QED BY <1>1, <1>2, <1>3 DEF StartupInv, LockInv

(* The lock is not held by anyone who is looking, or about to create it.   *)
LEMMA NotHeld ==
    ASSUME StartupInv, NEW x \in Processes,
           pc[x] \in LookPoints \cup {"lock", "inspect", "reclaim", "new", "idle", "serving"}
    PROVE  lock # NoFile => lock.owner # x
BY DEF StartupInv, LockInv, LookPoints, BindPoints, ClosePoints

LEMMA StartupGoesOn ==
    ASSUME StartupInv, [StartupNext]_startupVars
    PROVE  StartupInv'
<1> USE DEF files
<1>t. /\ pc \in [Processes -> Points] /\ back \in [Workers -> {"lock", "unlink"}]
      /\ seen \in [Processes -> Workers \cup {NoFile, Blank}] /\ acquired \subseteq Workers
      /\ lock \in {NoFile} \cup [owner : Workers, stamped : BOOLEAN]
      /\ sidecar \in Workers \cup {NoFile, Blank} /\ socket \in Workers \cup {NoFile}
    BY DEF StartupInv, StartupTypeOK, Points
<1>1. CASE UNCHANGED startupVars
    BY <1>1 DEF startupVars, StartupInv, StartupTypeOK, LockInv
<1>2. ASSUME NEW x \in Processes, Looks(x)
      PROVE  StartupInv'
    <2>1. /\ back' = back /\ acquired' = acquired /\ lock' = lock
          /\ pc[x] \in LookPoints
        BY <1>2 DEF Looks, Look, Judge, Reach,
               PruneSidecar, PruneSocket, LookPoints
    <2>2. NotFound(x) \in Points /\ Found(x) \in Points
        BY <1>t DEF NotFound, Found, Points, LockPoints,
               BindPoints, Dead
    <2>3. \E point \in Points : Goto(x, point)
        <3>1. {"judge", "reach", "pruneSidecar", "pruneSocket"} \subseteq Points
            BY DEF Points, LookPoints
        <3> QED
            BY <1>2, <2>2, <3>1 DEF Looks, Look, Judge, Reach,
                   PruneSidecar, PruneSocket
    <2>4. pc' \in [Processes -> Points] /\ LockInv'
        BY <2>1, <2>3, NotHeld, OthersMove
    <2>5. /\ seen' \in [Processes -> Workers \cup {NoFile, Blank}]
          /\ sidecar' \in Workers \cup {NoFile, Blank} /\ socket' \in Workers \cup {NoFile}
        BY <1>2, <1>t DEF Looks, Look, Judge, Reach,
               PruneSidecar, PruneSocket
    <2> QED BY <1>t, <2>1, <2>4, <2>5 DEF StartupInv, StartupTypeOK, Points
<1>3. ASSUME NEW r \in Readers, Ask(r)
      PROVE  StartupInv'
    <2>1. "look" \in Points /\ r \in Processes
        BY DEF Points, LookPoints, Processes
    <2>2. pc' \in [Processes -> Points] /\ LockInv'
        BY <1>3, <2>1, NotHeld, OthersMove DEF Ask
    <2> QED BY <1>t, <1>3, <2>2 DEF Ask, StartupInv, StartupTypeOK, Points
<1> SUFFICES ASSUME NEW w \in Workers,
                    \/ Launch(w) \/ Locks(w) \/ Binds(w)
                    \/ Shutdown(w) \/ Closes(w) \/ Kill(w)
             PROVE  StartupInv'
    BY <1>1, <1>2, <1>3 DEF StartupNext
<1>p. w \in Processes
    BY DEF Processes
<1>s. /\ {"look", "lock", "stamp", "inspect", "reclaim", "unlink", "listen", "announce",
          "announcing", "release", "closing", "closeSidecar", "closeSocket", "exited", "killed",
          "serving"} \subseteq Points
      /\ {"unlink", "listen", "announce", "announcing", "release", "closing", "closeSidecar",
          "closeSocket"} \subseteq BindPoints \cup ClosePoints
    BY DEF Points, LookPoints, LockPoints, BindPoints,
           ClosePoints, Dead
<1>4. CASE Launch(w)
    <2>1. pc' \in [Processes -> Points] /\ LockInv'
        BY <1>4, <1>p, <1>s, NotHeld, OthersMove DEF Launch
    <2> QED BY <1>t, <1>4, <2>1 DEF Launch, StartupInv, StartupTypeOK, Points
<1>5. CASE CreateLock(w)
    <2>1. CASE lock = NoFile
        <3>1. lock' = [owner |-> w, stamped |-> FALSE] /\ pc' = [pc EXCEPT ![w] = "stamp"]
            BY <1>5, <2>1 DEF CreateLock, Goto
        <3>2. pc' \in [Processes -> Points] /\ pc'[w] = "stamp" /\ lock'.owner = w
            BY <1>t, <1>p, <1>s, <3>1
        <3> QED BY <1>t, <1>5, <3>1, <3>2 DEF CreateLock, StartupInv, StartupTypeOK,
               LockInv, Points
    <2>2. CASE lock # NoFile
        <3>1. pc' \in [Processes -> Points] /\ LockInv'
            BY <1>5, <2>2, <1>p, <1>s, NotHeld, OthersMove DEF CreateLock
        <3> QED BY <1>t, <1>5, <2>2, <3>1 DEF CreateLock, StartupInv, StartupTypeOK,
               Points
    <2> QED BY <2>1, <2>2
<1>6. CASE StampLock(w)
    <2>1. /\ acquired' = acquired \cup {w} /\ pc' = [pc EXCEPT ![w] = "unlink"]
          /\ back' = back /\ seen' = seen /\ sidecar' = sidecar /\ socket' = socket
        BY <1>6 DEF StampLock, Goto
    <2>2. /\ lock' \in {NoFile} \cup [owner : Workers, stamped : BOOLEAN]
          /\ lock' # NoFile => lock # NoFile /\ lock'.owner = lock.owner
        BY <1>6, <1>t DEF StampLock
    <2>3. /\ pc' \in [Processes -> Points]
          /\ \A y \in Processes : pc'[y] = IF y = w THEN "unlink" ELSE pc[y]
        BY <1>t, <1>s, <2>1
    <2>4. LockInv'
        <3> SUFFICES ASSUME lock' # NoFile
                     PROVE  \/ pc'[lock'.owner] \in {"stamp", "exited", "killed"}
                            \/ /\ lock'.owner \in acquired'
                               /\ pc'[lock'.owner] \in BindPoints \cup ClosePoints
            BY DEF LockInv
        <3>1. lock # NoFile /\ lock'.owner = lock.owner /\ lock.owner \in Processes
            BY <1>t, <2>2 DEF Processes
        <3>2. CASE lock.owner = w
            BY <1>s, <2>1, <2>3, <3>1, <3>2
        <3>3. CASE lock.owner # w
            BY <2>1, <2>3, <3>1, <3>3 DEF StartupInv, LockInv
        <3> QED BY <3>2, <3>3
    <2> QED BY <1>t, <2>1, <2>2, <2>3, <2>4 DEF StartupInv, StartupTypeOK, Points
<1>7. CASE InspectLock(w)
    <2>1. /\ \E point \in {"look", "reclaim"} : Goto(w, point)
          /\ back' \in [Workers -> {"lock", "unlink"}]
        BY <1>7, <1>t DEF InspectLock
    <2>2. pc' \in [Processes -> Points] /\ LockInv'
        BY <1>7, <2>1, <1>p, <1>s, NotHeld, OthersMove DEF InspectLock
    <2> QED BY <1>t, <1>7, <2>1, <2>2 DEF InspectLock, StartupInv, StartupTypeOK, Points
<1>8. ASSUME NEW point \in Points, Goto(w, point), lock' = NoFile, acquired' = acquired,
             back' = back, seen' = seen, sidecar' \in Workers \cup {NoFile, Blank},
             socket' \in Workers \cup {NoFile}
      PROVE  StartupInv'
    <2>1. pc' \in [Processes -> Points]
        BY <1>8, <1>t, <1>p DEF Goto
    <2> QED BY <1>8, <1>t, <2>1 DEF StartupInv, StartupTypeOK, LockInv, Points
<1>9. ASSUME NEW point \in Points, Goto(w, point), lock' = lock, acquired' = acquired,
             back' = back, seen' = seen, sidecar' \in Workers \cup {NoFile, Blank},
             socket' \in Workers \cup {NoFile},
             lock # NoFile /\ lock.owner = w =>
                 point \in {"stamp", "exited", "killed"}
                 \/ (w \in acquired /\ point \in BindPoints \cup ClosePoints)
      PROVE  StartupInv'
    <2>1. pc' \in [Processes -> Points] /\ LockInv'
        BY <1>9, <1>p, OthersMove
    <2> QED BY <1>9, <1>t, <2>1 DEF StartupInv, StartupTypeOK, Points
<1>e. ASSUME NEW point \in {"exited", "killed"}, Goto(w, point),
             UNCHANGED <<lock, acquired, back, seen>>,
             sidecar' \in Workers \cup {NoFile, Blank}, socket' \in Workers \cup {NoFile}
      PROVE  StartupInv'
    <2>1. point \in Points
        BY <1>e, <1>s
    <2>2. pc' \in [Processes -> Points] /\ LockInv'
        BY <1>e, <1>p, <2>1, OthersMove
    <2> QED BY <1>e, <1>t, <2>2 DEF StartupInv, StartupTypeOK, Points
<1>10. CASE ReclaimLock(w)
    BY <1>10, <1>8, <1>s, <1>t DEF ReclaimLock
<1>b. lock # NoFile /\ lock.owner = w /\ pc[w] \in BindPoints \cup ClosePoints
          => w \in acquired
    BY DEF StartupInv, LockInv, BindPoints, ClosePoints
<1>11. CASE UnlinkSocket(w) \/ OpenSidecar(w) \/ WriteSidecar(w)
    <2>1. pc[w] \in BindPoints \cup ClosePoints
        BY <1>11 DEF UnlinkSocket, OpenSidecar, WriteSidecar,
               BindPoints
    <2> QED
        BY <1>11, <1>9, <1>b, <1>s, <1>t, <2>1 DEF UnlinkSocket, OpenSidecar,
               WriteSidecar
<1>12. CASE Listen(w)
    <2>1. CASE socket = NoFile
        <3>1. pc[w] \in BindPoints \cup ClosePoints
            BY <1>12 DEF Listen, BindPoints
        <3> QED BY <1>12, <1>9, <1>b, <1>s, <1>t, <2>1, <3>1 DEF Listen
    <2>2. CASE socket # NoFile
        <3>1. lock' = NoFile \/ lock' = lock
            BY <1>12, <2>2 DEF Listen, Released
        <3>2. /\ Goto(w, "exited") /\ "exited" \in Points
              /\ UNCHANGED <<back, seen, acquired, sidecar, socket>>
            BY <1>12, <1>s, <2>2 DEF Listen
        <3>3. CASE lock' = NoFile
            BY <1>8, <1>t, <3>2, <3>3
        <3>4. CASE lock' = lock
            BY <1>e, <1>t, <3>2, <3>4
        <3> QED BY <3>1, <3>3, <3>4
    <2> QED BY <2>1, <2>2
<1>13. CASE ReleaseLock(w)
    <2>1. CASE w \in acquired
        BY <1>13, <1>8, <1>s, <1>t, <2>1 DEF ReleaseLock, Released
    <2>2. CASE w \notin acquired
        <3>1. pc[w] \in BindPoints \cup ClosePoints
            BY <1>13 DEF ReleaseLock, BindPoints
        <3> QED BY <1>13, <1>9, <1>b, <1>s, <1>t, <2>2, <3>1 DEF ReleaseLock,
               Released
    <2> QED BY <2>1, <2>2
<1>14. CASE Shutdown(w)
    <2>1. CASE pc[w] = "announce"
        <3>1. pc[w] \in BindPoints \cup ClosePoints
            BY <2>1 DEF BindPoints
        <3> QED BY <1>14, <1>9, <1>b, <1>s, <1>t, <3>1 DEF Shutdown
    <2>2. CASE pc[w] = "serving"
        BY <1>14, <1>9, <1>p, <1>s, <1>t, <2>2, NotHeld DEF Shutdown
    <2> QED BY <1>14, <2>1, <2>2 DEF Shutdown
<1>15. CASE Closes(w)
    <2>1. pc[w] \in BindPoints \cup ClosePoints
        BY <1>15 DEF Closes, ReadOwnSidecar, RemoveSidecar,
               RemoveSocket, ClosePoints
    <2>2. CASE ReadOwnSidecar(w)
        BY <2>2, <1>9, <1>b, <1>s, <1>t, <2>1 DEF ReadOwnSidecar
    <2>3. CASE RemoveSidecar(w) \/ RemoveSocket(w)
        <3>1. /\ UNCHANGED <<back, seen, acquired, lock>>
              /\ sidecar' \in Workers \cup {NoFile, Blank} /\ socket' \in Workers \cup {NoFile}
            BY <2>3, <1>t DEF RemoveSidecar, RemoveSocket
        <3>2. CASE Goto(w, "closeSocket")
            BY <1>9, <1>b, <1>s, <2>1, <3>1, <3>2
        <3>3. CASE Goto(w, "exited")
            BY <1>e, <3>1, <3>3
        <3> QED BY <2>3, <3>2, <3>3 DEF RemoveSidecar, RemoveSocket
    <2> QED BY <1>15, <2>2, <2>3 DEF Closes
<1>16. CASE Kill(w)
    BY <1>16, <1>e, <1>t DEF Kill
<1> QED
    BY <1>4, <1>5, <1>6, <1>7, <1>10, <1>11, <1>12, <1>13, <1>14, <1>15, <1>16 DEF Locks,
           Binds

-----------------------------------------------------------------------------
(* Through every race of creating, stamping, inspecting, reclaiming and    *)
(* releasing locks, and wherever a process is killed: a lock names a       *)
(* process that is still starting or closing, or a dead one that a later   *)
(* launch takes for stale, and never a daemon that serves or a launch that *)
(* is still looking (acquireStartupLock).                                  *)
THEOREM LockIsNotLeaked == StartupSpec => []LockNotLeaked
<1>1. StartupInit => StartupInv
    BY StartupBegins
<1>2. StartupInv /\ [StartupNext]_startupVars => StartupInv'
    BY StartupGoesOn
<1>3. StartupInv => LockNotLeaked
    BY DEF StartupInv, LockInv, LockNotLeaked, Dead
<1> QED BY <1>1, <1>2, <1>3, PTL DEF StartupSpec

=============================================================================
