---------------------------- MODULE DaemonSession ----------------------------
(***************************************************************************)
(* The session daemon of scripts/mypi-daemon.mjs: it starts one engine     *)
(* (`mypi --mode rpc`) per session, routes the commands of its clients to  *)
(* it and its frames to them, and decides from the frames when a session   *)
(* may be closed and when a drain may end.                                 *)
(*                                                                         *)
(* Commands and frames travel through two pipes per engine.  The daemon's  *)
(* picture of an engine, session[s], is what it has sent and read; what    *)
(* the engine does is in engine[s].                                        *)
(***************************************************************************)
EXTENDS Integers, Sequences, FiniteSets, SequencesExt

CONSTANTS
    Sessions, Clients,
    None,            \* no client
    Kinds,           \* the commands clients send, among CommandKinds
    Faults,          \* what may go wrong, among FaultKinds
    Chats, Drops,    \* bounds: the clients that attach to chats, and those whose
                     \* connection may close
    MaxCommands      \* bound: commands, and runs an engine starts by itself

CommandKinds == {"prompt", "steer", "prepare"}
FaultKinds ==
    {"refuse",       \* a prompt is refused before a run begins
     "crash",        \* an engine exits on its own
     "strand"}       \* a settlement announces a continuation that does not come

ASSUME ConstantsAssumption ==
    /\ None \notin Clients /\ Chats \subseteq Clients /\ Drops \subseteq Clients
    /\ Kinds \subseteq CommandKinds /\ Faults \subseteq FaultKinds
    /\ MaxCommands \in Nat

Command == [kind : CommandKinds, id : 1..MaxCommands]
Frame ==
    [kind : {"ok", "refused", "prepared"}, id : 1..MaxCommands]
      \cup [kind : {"start", "settled", "continuing"}]

VARIABLES
    draining, down,  \* a drain has begun; the daemon has exited
    child,           \* "none", "open", or "closed": its stdin has ended
    session,         \* the daemon's record of each session
    engine,          \* "idle" or "running" a turn
    inbox, outbox,   \* the pipes to and from the engine
    rechecks,        \* settlements of engines that exited, not yet finalised
    sent,            \* counts commands and spontaneous runs
    cutShort,        \* history: during a drain, an engine exited with its turn active
    gone,            \* the clients whose connection has closed
    joining,         \* chat attaches whose launch is being prepared
    late,            \* the releases that engines left behind when they exited
    waiting          \* history: the clients not yet told of the release they asked for

daemonVars == <<draining, down, cutShort>>
pipeVars == <<inbox, outbox>>
clientVars == <<gone, joining>>
releaseVars == <<late, waiting>>
vars == <<daemonVars, child, session, engine, pipeVars, rechecks, sent, clientVars,
          releaseVars>>

Pending == [kind : CommandKinds, id : 1..MaxCommands, client : Clients]
Record ==
    [clients : SUBSET Clients, turnActive : BOOLEAN, preparing : BOOLEAN,
     pending : SUBSET Pending, grace : BOOLEAN, release : Clients \cup {None},
     timer : BOOLEAN, finalizing : Nat]

Fresh ==
    [clients |-> {}, turnActive |-> FALSE, preparing |-> FALSE, pending |-> {}, grace |-> FALSE,
     release |-> None, timer |-> FALSE, finalizing |-> 0]

Init ==
    /\ draining = FALSE /\ down = FALSE /\ cutShort = FALSE
    /\ child = [s \in Sessions |-> "none"]
    /\ session = [s \in Sessions |-> Fresh]
    /\ engine = [s \in Sessions |-> "idle"]
    /\ inbox = [s \in Sessions |-> <<>>] /\ outbox = [s \in Sessions |-> <<>>]
    /\ rechecks = 0 /\ sent = 0
    /\ gone = {} /\ joining = {} /\ late = {} /\ waiting = {}

-----------------------------------------------------------------------------
(* Parts of handlers.                                                      *)
Live(s) == child[s] # "none" /\ ~down

(* activeTurnCount: the sessions a drain waits for.                        *)
Active(records) == {s \in Sessions : records[s].turnActive \/ records[s].preparing}

(* maybeFinishDrain, on the records a handler leaves.                      *)
MaybeFinishDrain(records) == down' = (draining /\ Active(records) = {})

(* closeSession ends the engine's stdin.                                   *)
Closed(s) == IF child[s] = "open" THEN [child EXCEPT ![s] = "closed"] ELSE child

(* sendToEngine: what is sent after that is dropped.                       *)
Send(s, kind) ==
    inbox' = IF child[s] = "open"
             THEN [inbox EXCEPT ![s] = Append(@, [kind |-> kind, id |-> sent + 1])]
             ELSE inbox

(* Mutant: the last client leaves and no timer starts.                     *)
WithoutGrace(r, c) ==
    LET mine == {p \in r.pending : p.client = c}
    IN  [r EXCEPT !.clients = @ \ {c},
                  !.pending = @ \ mine,
                  !.preparing = @ /\ \A p \in mine : p.kind # "prepare"]

(* detachClientFromSession: the client's commands are forgotten, and the   *)
(* target it was preparing; the last client starts the grace timer.        *)
Without(r, c) ==
    LET mine == {p \in r.pending : p.client = c}
        left == r.clients \ {c}
    IN  [r EXCEPT !.clients = left,
                  !.pending = @ \ mine,
                  !.preparing = @ /\ \A p \in mine : p.kind # "prepare",
                  !.grace = @ \/ left = {}]

-----------------------------------------------------------------------------
(* Clients.                                                                *)

Connected(c) == c \notin gone

(* startSession, if there is no engine, and joinSessionAsClient.           *)
Joins(c, s) ==
    /\ child' = [child EXCEPT ![s] = IF @ = "none" THEN "open" ELSE @]
    /\ session' = [session EXCEPT ![s].clients = @ \cup {c}, ![s].grace = FALSE]

(* attach starts an engine, or joins one, also one that is being closed.   *)
Attach(c, s) ==
    /\ ~down /\ ~draining /\ Connected(c) /\ c \notin session[s].clients
    /\ c \in Chats => child[s] # "none"
    /\ Joins(c, s)
    /\ UNCHANGED <<daemonVars, engine, pipeVars, rechecks, sent, clientVars, releaseVars>>

(* A chat without an engine waits for its launch to be prepared.           *)
AttachChat(c, s) ==
    /\ ~down /\ ~draining /\ c \in Chats /\ Connected(c) /\ child[s] = "none"
    /\ joining' = joining \cup {<<c, s>>}
    /\ UNCHANGED <<daemonVars, child, session, engine, pipeVars, rechecks, sent, gone,
                   releaseVars>>

(* It joins after that, whether or not its connection is still there; not  *)
(* in a drain, and not when the launch could not be prepared.              *)
JoinChat(c, s) ==
    /\ ~down /\ <<c, s>> \in joining
    /\ joining' = joining \ {<<c, s>>}
    /\ \/ ~draining /\ Joins(c, s)
       \/ UNCHANGED <<child, session>>
    /\ UNCHANGED <<daemonVars, engine, pipeVars, rechecks, sent, gone, releaseVars>>

(* Leaving may end a preparation, and with it a drain.                     *)
Leaves(s, records) ==
    /\ session' = records
    /\ IF session[s].preparing /\ ~records[s].preparing
       THEN MaybeFinishDrain(records)
       ELSE UNCHANGED down
    /\ UNCHANGED <<draining, cutShort, child, engine, pipeVars, rechecks, sent, joining,
                   releaseVars>>

Detach(c, s) ==
    /\ Live(s) /\ Connected(c) /\ c \in session[s].clients
    /\ Leaves(s, [session EXCEPT ![s] = Without(@, c)])
    /\ UNCHANGED gone

(* The close of a connection detaches its client from every session it has *)
(* joined so far.                                                          *)
Drop(c) ==
    /\ ~down /\ c \in Drops /\ Connected(c)
    /\ gone' = gone \cup {c}
    /\ session' = [s \in Sessions |-> IF c \in session[s].clients THEN Without(session[s], c)
                                      ELSE session[s]]
    /\ IF \E s \in Sessions : session[s].preparing /\ ~session'[s].preparing
       THEN MaybeFinishDrain(session')
       ELSE UNCHANGED down
    /\ UNCHANGED <<draining, cutShort, child, engine, pipeVars, rechecks, sent, joining,
                   releaseVars>>

(* A routed command.  The turn counts as active from here on.              *)
Route(c, s, kind) ==
    /\ Live(s) /\ Connected(c) /\ kind \in Kinds \ {"prepare"} /\ sent < MaxCommands
    /\ Send(s, kind)
    /\ session' = [session EXCEPT
           ![s].turnActive = TRUE,
           ![s].pending = @ \cup {[kind |-> kind, id |-> sent + 1, client |-> c]}]
    /\ sent' = sent + 1
    /\ UNCHANGED <<daemonVars, child, engine, outbox, rechecks, clientVars, releaseVars>>

(* prepare_surface_session.                                                *)
Prepare(c, s) ==
    /\ Live(s) /\ Connected(c) /\ "prepare" \in Kinds /\ sent < MaxCommands
    /\ ~draining /\ c \in session[s].clients
    /\ ~session[s].turnActive /\ ~session[s].preparing
    /\ Send(s, "prepare")
    /\ session' = [session EXCEPT
           ![s].preparing = TRUE,
           ![s].pending = @ \cup {[kind |-> "prepare", id |-> sent + 1, client |-> c]}]
    /\ sent' = sent + 1
    /\ UNCHANGED <<daemonVars, child, engine, outbox, rechecks, clientVars, releaseVars>>

(* Mutant: a forced release has no fallback timer.                         *)
ReleaseUntimed(c, s, force) ==
    /\ Live(s) /\ Connected(c) /\ session[s].release = None
    /\ session[s].turnActive => force
    /\ IF session[s].turnActive
       THEN /\ session' = [session EXCEPT ![s].release = c]
            /\ waiting' = waiting \cup {c} /\ UNCHANGED child
       ELSE child' = Closed(s) /\ UNCHANGED <<session, waiting>>
    /\ UNCHANGED <<daemonVars, engine, pipeVars, rechecks, sent, clientVars, late>>

(* release: at once when idle; by force it aborts the turn and waits for   *)
(* its settlement, or for a timer.                                         *)
Release(c, s, force) ==
    /\ Live(s) /\ Connected(c) /\ session[s].release = None
    /\ session[s].turnActive => force
    /\ IF session[s].turnActive
       THEN /\ session' = [session EXCEPT ![s].release = c, ![s].timer = TRUE]
            /\ waiting' = waiting \cup {c} /\ UNCHANGED child
       ELSE child' = Closed(s) /\ UNCHANGED <<session, waiting>>
    /\ UNCHANGED <<daemonVars, engine, pipeVars, rechecks, sent, clientVars, late>>

(* The deletion of a stored session, and its archival when idle.           *)
CloseAndWait(s, records) ==
    /\ session' = [session EXCEPT ![s] = [records EXCEPT !.grace = FALSE]]
    /\ child' = Closed(s)
    /\ IF session[s].preparing /\ ~records.preparing
       THEN MaybeFinishDrain(session')
       ELSE UNCHANGED down
    /\ UNCHANGED <<draining, cutShort, engine, pipeVars, rechecks, sent, clientVars,
                   releaseVars>>

Delete(s) ==
    /\ Live(s)
    /\ LET kept == {p \in session[s].pending : p.client \notin session[s].clients}
       IN  CloseAndWait(s, [session[s] EXCEPT
               !.clients = {}, !.pending = kept,
               !.preparing = \E p \in kept : p.kind = "prepare"])

Archive(c, s) ==
    /\ Live(s) /\ Connected(c) /\ ~session[s].turnActive
    /\ session[s].clients \subseteq {c}
    /\ CloseAndWait(s, IF c \in session[s].clients THEN Without(session[s], c) ELSE session[s])

(* restart: beginDrain; a signal shuts down as a forced restart does.      *)
BeginDrain(force) ==
    /\ ~down
    /\ draining' = TRUE
    /\ down' = (force \/ Active(session) = {})
    /\ UNCHANGED <<cutShort, child, session, engine, pipeVars, rechecks, sent, clientVars,
                   releaseVars>>

-----------------------------------------------------------------------------
(* The daemon reads a frame (handleEngineFrame).                           *)
ReadsFrame(s) == Live(s) /\ outbox[s] # <<>> /\ outbox' = [outbox EXCEPT ![s] = Tail(@)]

ReadResponse(s) ==
    LET frame == Head(outbox[s])
        answered == {p \in session[s].pending : p.id = frame.id}
    IN  /\ ReadsFrame(s) /\ frame.kind \in {"ok", "refused", "prepared"}
        /\ session' = [session EXCEPT
               ![s].pending = @ \ answered,
               ![s].preparing = @ /\ \A p \in answered : p.kind # "prepare"]
        /\ IF \E p \in answered : p.kind = "prepare"
           THEN MaybeFinishDrain(session')
           ELSE UNCHANGED down
        /\ UNCHANGED <<draining, cutShort, child, engine, inbox, rechecks, sent, clientVars,
                       releaseVars>>

(* Mutant: only prompts make a turn active.                                *)
ReadEventIgnoringStarts(s) ==
    LET kind == Head(outbox[s]).kind
    IN  /\ ReadsFrame(s) /\ kind \in {"start", "settled", "continuing"}
        /\ session' = [session EXCEPT
               ![s].turnActive = IF kind = "start" THEN @ ELSE kind # "settled",
               ![s].finalizing = IF kind = "settled" THEN @ + 1 ELSE @]
        /\ UNCHANGED <<daemonVars, child, engine, inbox, rechecks, sent, clientVars,
                       releaseVars>>

(* agent_settled closes the turn, unless another run is announced; what    *)
(* follows it awaits the tracker.                                          *)
ReadEvent(s) ==
    LET kind == Head(outbox[s]).kind
    IN  /\ ReadsFrame(s) /\ kind \in {"start", "settled", "continuing"}
        /\ session' = [session EXCEPT
               ![s].turnActive = kind # "settled",
               ![s].finalizing = IF kind = "settled" THEN @ + 1 ELSE @]
        /\ UNCHANGED <<daemonVars, child, engine, inbox, rechecks, sent, clientVars,
                       releaseVars>>

(* Mutant: a settlement does not look at the drain.                        *)
FinalizeForgetsDrain(s) ==
    /\ Live(s) /\ session[s].finalizing > 0
    /\ LET r == session[s]
       IN  /\ session' = [session EXCEPT
                  ![s].finalizing = @ - 1,
                  ![s].release = None,
                  ![s].grace = @ \/ (r.release = None /\ r.clients = {})]
           /\ child' = IF r.release = None THEN child ELSE Closed(s)
           /\ waiting' = waiting \ {r.release}
    /\ UNCHANGED <<daemonVars, engine, pipeVars, rechecks, sent, clientVars, late>>

(* completeRelease and scheduleSessionGrace, once the tracker is done.     *)
Finalize(s) ==
    /\ Live(s) /\ session[s].finalizing > 0
    /\ LET r == session[s]
       IN  /\ session' = [session EXCEPT
                  ![s].finalizing = @ - 1,
                  ![s].release = None,
                  ![s].grace = @ \/ (r.release = None /\ r.clients = {})]
           /\ child' = IF r.release = None THEN child ELSE Closed(s)
           /\ waiting' = waiting \ {r.release}
    /\ MaybeFinishDrain(session)
    /\ UNCHANGED <<draining, cutShort, engine, pipeVars, rechecks, sent, clientVars, late>>

(* The same for a session whose engine has exited meanwhile.               *)
FinalizeExited ==
    /\ ~down /\ rechecks > 0
    /\ rechecks' = rechecks - 1
    /\ MaybeFinishDrain(session)
    /\ UNCHANGED <<draining, cutShort, child, session, engine, pipeVars, sent, clientVars,
                   releaseVars>>

ReleaseTimesOut(s) ==
    /\ Live(s) /\ session[s].timer
    /\ session' = [session EXCEPT ![s].timer = FALSE, ![s].release = None]
    /\ child' = IF session[s].release = None THEN child ELSE Closed(s)
    /\ waiting' = waiting \ {session[s].release}
    /\ UNCHANGED <<daemonVars, engine, pipeVars, rechecks, sent, clientVars, late>>

(* The same for an engine that has exited: the timer of its release, or a  *)
(* settlement that was being finalised, tells the client all the same.     *)
LateRelease(c) ==
    /\ ~down /\ c \in late
    /\ late' = late \ {c} /\ waiting' = waiting \ {c}
    /\ UNCHANGED <<daemonVars, child, session, engine, pipeVars, rechecks, sent, clientVars>>

(* The grace timer closes a session nobody watches, unless it has a turn.  *)
GraceEnds(s) ==
    /\ Live(s) /\ session[s].grace
    /\ ~session[s].turnActive \/ session[s].clients # {}
    /\ session' = [session EXCEPT ![s].grace = FALSE]
    /\ child' = IF session[s].clients = {} THEN Closed(s) ELSE child
    /\ UNCHANGED <<daemonVars, engine, pipeVars, rechecks, sent, clientVars, releaseVars>>

(* The frames an engine leaves unread that make the daemon look at its     *)
(* drain again: settlements, and answers to preparations.                  *)
LateRechecks(s) ==
    Cardinality({i \in DOMAIN outbox[s] :
        \/ outbox[s][i].kind = "settled"
        \/ \E p \in session[s].pending :
               /\ p.kind = "prepare" /\ outbox[s][i].kind \in {"prepared", "refused"}
               /\ outbox[s][i].id = p.id})

(* An engine exits when its stdin has ended or it is killed.  Its record   *)
(* goes, with the requests in it; nothing looks at the drain until a late  *)
(* frame is read, and only its timer knows of a release.                   *)
EngineExits(s) ==
    /\ Live(s) /\ (child[s] = "closed" \/ "crash" \in Faults)
    /\ child' = [child EXCEPT ![s] = "none"]
    /\ session' = [session EXCEPT ![s] = Fresh]
    /\ engine' = [engine EXCEPT ![s] = "idle"]
    /\ inbox' = [inbox EXCEPT ![s] = <<>>] /\ outbox' = [outbox EXCEPT ![s] = <<>>]
    /\ rechecks' = rechecks + session[s].finalizing + LateRechecks(s)
    /\ cutShort' = (cutShort \/ (draining /\ s \in Active(session)))
    /\ late' = late \cup (IF session[s].timer THEN {session[s].release} \ {None} ELSE {})
    /\ UNCHANGED <<draining, down, sent, clientVars, waiting>>

-----------------------------------------------------------------------------
(* The engine (modes/rpc/rpc-mode.ts over AgentSession).                   *)
Event(kind) == [kind |-> kind]

Says(s, frames) == outbox' = [outbox EXCEPT ![s] = @ \o frames]

TakesCommand(s, kind) ==
    /\ Live(s) /\ inbox[s] # <<>> /\ Head(inbox[s]).kind = kind
    /\ inbox' = [inbox EXCEPT ![s] = Tail(@)]
    /\ UNCHANGED <<daemonVars, child, session, rechecks, sent, clientVars, releaseVars>>

Reply(s, kind) == [kind |-> kind, id |-> Head(inbox[s]).id]

(* A prompt begins a run, is handled without one, is queued in the run     *)
(* that is active, or is refused.                                          *)
EngineTakesPrompt(s) ==
    /\ TakesCommand(s, "prompt")
    /\ \/ /\ engine[s] = "idle" /\ engine' = [engine EXCEPT ![s] = "running"]
          /\ Says(s, <<Reply(s, "ok"), Event("start")>>)
       \/ /\ engine[s] = "idle" /\ UNCHANGED engine
          /\ Says(s, <<Reply(s, "ok"), Event("settled")>>)
       \/ /\ engine[s] = "running" /\ UNCHANGED engine
          /\ \E kind \in {"ok", "refused"} : Says(s, <<Reply(s, kind)>>)
       \/ /\ "refuse" \in Faults /\ UNCHANGED engine
          /\ Says(s, <<Reply(s, "refused")>>)

(* steer and follow_up queue a message, and start nothing.                 *)
EngineTakesSteer(s) ==
    /\ TakesCommand(s, "steer")
    /\ Says(s, <<Reply(s, "ok")>>) /\ UNCHANGED engine

EngineTakesPrepare(s) ==
    /\ TakesCommand(s, "prepare")
    /\ Says(s, <<Reply(s, "prepared")>>) /\ UNCHANGED engine

(* A run of its own: a background child reports, an extension sends.       *)
EngineWakes(s) ==
    /\ Live(s) /\ child[s] = "open" /\ engine[s] = "idle" /\ sent < MaxCommands
    /\ engine' = [engine EXCEPT ![s] = "running"]
    /\ Says(s, <<Event("start")>>)
    /\ sent' = sent + 1
    /\ UNCHANGED <<daemonVars, child, session, inbox, rechecks, clientVars, releaseVars>>

EngineSettles(s) ==
    /\ Live(s) /\ engine[s] = "running"
    /\ \/ Says(s, <<Event("settled")>>) /\ engine' = [engine EXCEPT ![s] = "idle"] /\ UNCHANGED sent
       \/ /\ sent < MaxCommands /\ sent' = sent + 1
          /\ Says(s, <<Event("continuing"), Event("start")>>) /\ UNCHANGED engine
       \/ /\ "strand" \in Faults /\ UNCHANGED sent
          /\ Says(s, <<Event("continuing")>>) /\ engine' = [engine EXCEPT ![s] = "idle"]
    /\ UNCHANGED <<daemonVars, child, session, inbox, rechecks, clientVars, releaseVars>>

-----------------------------------------------------------------------------
ClientSteps ==
    \/ \E c \in Clients, s \in Sessions :
          \/ Attach(c, s) \/ AttachChat(c, s) \/ Detach(c, s) \/ Prepare(c, s) \/ Archive(c, s)
          \/ \E kind \in CommandKinds : Route(c, s, kind)
          \/ \E force \in BOOLEAN : Release(c, s, force)
    \/ \E c \in Clients : Drop(c)
    \/ \E s \in Sessions : Delete(s)
    \/ \E force \in BOOLEAN : BeginDrain(force)

DaemonSteps(s) ==
    ReadResponse(s) \/ ReadEvent(s) \/ Finalize(s) \/ ReleaseTimesOut(s) \/ GraceEnds(s)

EngineSteps(s) ==
    EngineTakesPrompt(s) \/ EngineTakesSteer(s) \/ EngineTakesPrepare(s) \/ EngineSettles(s)

Next ==
    \/ ClientSteps \/ FinalizeExited
    \/ \E c \in Clients : LateRelease(c) \/ \E s \in Sessions : JoinChat(c, s)
    \/ \E s \in Sessions : DaemonSteps(s) \/ EngineSteps(s) \/ EngineWakes(s) \/ EngineExits(s)

Spec == Init /\ [][Next]_vars

(* Pipes are read, timers fire, turns settle, and an engine whose stdin    *)
(* has ended exits, by itself or by the kill timer.                        *)
FairSpec ==
    /\ Spec /\ WF_vars(FinalizeExited) /\ WF_vars(\E c \in Clients : LateRelease(c))
    /\ \A s \in Sessions :
          /\ WF_vars(ReadResponse(s) \/ ReadEvent(s) \/ Finalize(s) \/ ReleaseTimesOut(s))
          /\ WF_vars(GraceEnds(s)) /\ WF_vars(EngineSteps(s))
          /\ WF_vars(child[s] = "closed" /\ EngineExits(s))

-----------------------------------------------------------------------------
(* Every variable stays within its type, and what belongs to an engine     *)
(* goes with it.                                                           *)
TypeOK ==
    /\ {draining, down, cutShort} \subseteq BOOLEAN
    /\ child \in [Sessions -> {"none", "open", "closed"}]
    /\ session \in [Sessions -> Record]
    /\ engine \in [Sessions -> {"idle", "running"}]
    /\ \A s \in Sessions :
          /\ inbox[s] \in Seq(Command) /\ outbox[s] \in Seq(Frame)
          /\ child[s] = "none" => session[s] = Fresh /\ inbox[s] = <<>> /\ outbox[s] = <<>>
    /\ rechecks \in Nat /\ sent \in 0..MaxCommands
    /\ gone \subseteq Clients /\ joining \subseteq Clients \X Sessions
    /\ late \subseteq Clients /\ waiting \subseteq Clients

FramesToRead(s) == {outbox[s][i].kind : i \in DOMAIN outbox[s]}

(* The daemon never takes a working engine for an idle one for longer than *)
(* a frame takes: whatever prompts, settlements and responses cross in the *)
(* pipes, a turn that runs is known, or its start is still to be read.     *)
TurnsAreSeen ==
    \A s \in Sessions :
        engine[s] = "running" => session[s].turnActive \/ "start" \in FramesToRead(s)

(* A session counts as preparing a target exactly while the client that    *)
(* asked for one is attached and unanswered, through detaches, deletions   *)
(* and late answers.                                                       *)
PreparingExact ==
    \A s \in Sessions :
        session[s].preparing <=> \E p \in session[s].pending : p.kind = "prepare"

(* What the daemon believes of its engines is so, or about to be read.     *)
EnginesKnown == TypeOK /\ TurnsAreSeen /\ PreparingExact

(* A turn the daemon waits for and that nothing in the pipes will settle:  *)
(* a prompt was refused, or an announced continuation did not come.        *)
PhantomTurn(s) ==
    /\ session[s].turnActive /\ engine[s] = "idle"
    /\ \A i \in DOMAIN inbox[s] : inbox[s][i].kind # "prompt"
    /\ FramesToRead(s) \cap {"start", "settled", "continuing"} = {}

(* A drain ends (mypi-daemon.mjs:296-298), unless an engine exits with its *)
(* turn unfinished, or a turn is waited for that does not exist.           *)
DrainEnds == []<>(draining => down \/ cutShort \/ \E s \in Sessions : PhantomTurn(s))

(* A client that joined after its connection had closed is never taken out *)
(* of the session again.                                                   *)
Haunted(s) == session[s].clients \cap gone # {}

(* A session that no connected client is attached to is closed, once its   *)
(* turn has settled (scheduleSessionGrace): unless a client joined it too  *)
(* late, and is thought to be there still.                                 *)
UnwatchedCloses ==
    \A s \in Sessions :
        []<>(child[s] # "none" /\ session[s].clients \subseteq gone
                => down \/ PhantomTurn(s) \/ Haunted(s))

(* A client that asked for a release is told of it, whether or not the     *)
(* turn that is aborted for it settles, and also when the engine exits     *)
(* meanwhile and another is started (completeRelease, and the fallback     *)
(* timer of handleRelease).                                                *)
ReleaseEnds == \A c \in Clients : []<>(c \in waiting => down)

=============================================================================
