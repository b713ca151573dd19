---------------------------- MODULE HostedSession ----------------------------
(***************************************************************************)
(* core/hosted: a terminal surface that shows a session another process    *)
(* runs.  It attaches through the daemon, seeds a mirror of the engine's   *)
(* state, keeps it by the event stream, asks for the state again after     *)
(* every settlement, and shows the questions the engine puts to whichever  *)
(* surface answers first.                                                  *)
(*                                                                         *)
(* Frames reach the surface in the order the daemon sent them, but a       *)
(* response only resolves a promise: what awaits it runs after the rest of *)
(* the frames of the same chunk, so Read and Continue interleave.  The     *)
(* pipes between the engine and the daemon are not modelled (they keep     *)
(* their order); the daemon's delay of a settlement is.                    *)
(***************************************************************************)
EXTENDS Integers, FiniteSets, SequencesExt

CONSTANTS
    MaxTurns,    \* bound: runs of the engine
    Questions,   \* bound: dialogs it opens, each once
    MaxSeeds     \* bound: /tree or /reload on the surface

ASSUME HostedAssumption == MaxTurns \in Nat /\ MaxSeeds \in Nat /\ IsFiniteSet(Questions)

VARIABLES
    alive, streaming, turns,   \* the engine
    asked,         \* the questions it has put so far
    editors,       \* the ones a surface does not close by itself
    outstanding,   \* session.outstandingUi of the daemon
    elsewhere,     \* history: questions another surface answered
    finalizing,    \* settlements the daemon holds until the tracker is done
    phase,         \* the surface, from "away" to "bound"
    up, link,      \* frames to the daemon, and from it
    landed,        \* what responses resolved and has not run yet
    mirror,        \* mirror.isStreaming
    waiting,       \* some call of waitForIdle is pending
    seeds,
    pendingUi,     \* the questions in pendingUiFrames, whose order is left out
    open, told     \* dialogs, externallyResolved

engineVars == <<alive, streaming, turns, asked, editors>>
daemonVars == <<outstanding, elsewhere, finalizing>>
stateVars == <<mirror, waiting>>
uiVars == <<pendingUi, open, told>>
vars == <<engineVars, daemonVars, phase, up, link, landed, stateVars, seeds, uiVars>>

(* The engine is followed for as long as the surface is.                   *)
Followed == alive /\ phase # "gone"

Attached == {"attaching", "seeding", "seeded", "binding", "bound"}
Phases == Attached \cup {"away", "gone"}

(* Frames and continuations, and the requests they answer.                 *)
Event(kind) == [kind |-> kind]
About(kind, q) == [kind |-> kind, of |-> q]
State(value) == [kind |-> "state", value |-> value]
Frames == [kind : {"start", "settled", "commands", "exit", "attached"}]
    \cup [kind : {"ask", "dismiss", "resolved"}, of : Questions]
    \cup [kind : {"state"}, value : BOOLEAN]
Requests == [kind : {"get_state", "get_commands"}] \cup [kind : {"answer"}, of : Questions]

TypeOK ==
    /\ {alive, streaming, mirror, waiting} \subseteq BOOLEAN
    /\ turns \in 0..MaxTurns /\ finalizing \in 0..MaxTurns /\ seeds \in 0..MaxSeeds
    /\ outstanding \cup elsewhere \cup editors \subseteq asked /\ asked \subseteq Questions
    /\ phase \in Phases
    /\ Range(up) \subseteq Requests /\ Range(link) \cup Range(landed) \subseteq Frames
    /\ told \subseteq open /\ open \cup pendingUi \subseteq asked

Init ==
    /\ alive = TRUE /\ streaming = FALSE /\ turns = 0 /\ asked = {}
    /\ editors = {}
    /\ outstanding = {} /\ elsewhere = {} /\ finalizing = 0
    /\ phase = "away" /\ up = <<>> /\ link = <<>> /\ landed = <<>>
    /\ mirror = FALSE /\ waiting = FALSE /\ seeds = 0
    /\ pendingUi = {} /\ open = {} /\ told = {}

(* broadcast: nothing is sent to a surface that has not joined.            *)
Sent(frame) == IF phase \in Attached THEN Append(link, frame) ELSE link

-----------------------------------------------------------------------------
(* The engine, as the daemon hears it.                                     *)

Starts ==
    /\ Followed /\ ~streaming /\ turns < MaxTurns
    /\ streaming' = TRUE /\ turns' = turns + 1 /\ link' = Sent(Event("start"))
    /\ UNCHANGED <<alive, asked, editors, daemonVars, phase, up, landed,
                   stateVars, seeds, uiVars>>

Settles ==
    /\ Followed /\ streaming
    /\ streaming' = FALSE /\ finalizing' = finalizing + 1
    /\ UNCHANGED <<alive, turns, asked, editors, outstanding, elsewhere, phase, up, link,
                   landed, stateVars, seeds, uiVars>>

(* The settlement is forwarded when the tracker is done: other frames may  *)
(* have overtaken it, and the engine may have exited.                      *)
Finalized ==
    /\ finalizing > 0
    /\ finalizing' = finalizing - 1 /\ link' = Sent(Event("settled"))
    /\ UNCHANGED <<engineVars, outstanding, elsewhere, phase, up, landed,
                   stateVars, seeds, uiVars>>

Asks(q) ==
    /\ Followed /\ streaming /\ q \notin asked
    /\ asked' = asked \cup {q} /\ editors' \in {editors, editors \cup {q}}
    /\ outstanding' = outstanding \cup {q}
    /\ link' = Sent(About("ask", q))
    /\ UNCHANGED <<alive, streaming, turns, elsewhere, finalizing, phase, up, landed, stateVars,
                   seeds, uiVars>>

(* The dialog's timeout, or the abort of the call that opened it.          *)
GivesUp(q) ==
    /\ Followed /\ q \in outstanding
    /\ outstanding' = outstanding \ {q} /\ link' = Sent(About("dismiss", q))
    /\ UNCHANGED <<engineVars, elsewhere, finalizing, phase, up, landed,
                   stateVars, seeds, uiVars>>

AnsweredElsewhere(q) ==
    /\ Followed /\ q \in outstanding
    /\ outstanding' = outstanding \ {q} /\ elsewhere' = elsewhere \cup {q}
    /\ link' = Sent(About("resolved", q))
    /\ UNCHANGED <<engineVars, finalizing, phase, up, landed,
                   stateVars, seeds, uiVars>>

Exits ==
    /\ Followed
    /\ alive' = FALSE /\ streaming' = FALSE /\ outstanding' = {}
    /\ link' = Sent(Event("exit"))
    /\ UNCHANGED <<turns, asked, editors, elsewhere, finalizing, phase, up, landed,
                   stateVars, seeds, uiVars>>

(* The daemon takes a request of the surface; the first answer to a        *)
(* question wins.  A request for an engine that has exited is refused.     *)
TakeRequest ==
    LET request == Head(up)
    IN  /\ up # <<>> /\ up' = Tail(up)
        /\ \/ /\ request.kind = "get_state"
              /\ link' = IF alive THEN Sent(State(streaming)) ELSE link
              /\ UNCHANGED outstanding
           \/ /\ request.kind = "get_commands"
              /\ link' = Sent(Event("commands")) /\ UNCHANGED outstanding
           \/ /\ request.kind = "answer"
              /\ outstanding' = outstanding \ {request.of} /\ UNCHANGED link
        /\ UNCHANGED <<engineVars, elsewhere, finalizing, phase, landed, stateVars, seeds, uiVars>>

-----------------------------------------------------------------------------
(* The surface: attach, seed, and bind its dialogs.                        *)

(* joinSessionAsClient replays the questions that are outstanding, if the  *)
(* engine is ready: one that has asked a question is.                      *)
Replayed == [i \in 1..Cardinality(outstanding) |-> About("ask", SetToSeq(outstanding)[i])]

(* Mutant: a surface is only sent what is asked after it has joined.       *)
JoinUntold ==
    /\ phase = "away" /\ alive
    /\ phase' = "attaching" /\ link' = <<Event("attached")>>
    /\ UNCHANGED <<engineVars, daemonVars, up, landed, stateVars, seeds, uiVars>>

Join ==
    /\ phase = "away" /\ alive
    /\ phase' = "attaching" /\ link' = <<Event("attached")>> \o Replayed
    /\ UNCHANGED <<engineVars, daemonVars, up, landed, stateVars, seeds, uiVars>>

(* seed: the mirror waits for the state, and takes it when it comes.       *)
Reseed ==
    /\ phase = "bound" /\ seeds < MaxSeeds
    /\ seeds' = seeds + 1 /\ up' = Append(up, Event("get_state"))
    /\ UNCHANGED <<engineVars, daemonVars, phase, link, landed, stateVars, uiVars>>

(* bindExtensions sets uiContext, then awaits refreshCommands.             *)
Bind ==
    /\ phase = "seeded"
    /\ phase' = "binding" /\ up' = Append(up, Event("get_commands"))
    /\ UNCHANGED <<engineVars, daemonVars, link, landed, stateVars, seeds, uiVars>>

WaitForIdle ==
    /\ phase \in {"binding", "bound"} /\ mirror
    /\ waiting' = TRUE
    /\ UNCHANGED <<engineVars, daemonVars, phase, up, link, landed, mirror, seeds, uiVars>>

(* The user answers a dialog; one that is resolved is closed silently.     *)
UserAnswers(q) ==
    /\ q \in open
    /\ open' = open \ {q} /\ told' = told \ {q}
    /\ up' = IF q \in told \/ phase = "gone" THEN up ELSE Append(up, About("answer", q))
    /\ UNCHANGED <<engineVars, daemonVars, phase, link, landed, stateVars, seeds, pendingUi>>

-----------------------------------------------------------------------------
(* The surface: one frame.                                                 *)

Unbound == phase \in {"attaching", "seeding", "seeded"}

(* Reads one frame of a kind; `up` and `landed` grow by what it asks for   *)
(* and by the continuations it releases.                                   *)
Reads(kind, sends, releases) ==
    /\ link # <<>> /\ Head(link).kind = kind /\ phase \in Attached
    /\ link' = Tail(link) /\ up' = up \o sends /\ landed' = landed \o releases
    /\ UNCHANGED <<engineVars, daemonVars, seeds>>

(* Before the session object exists nobody listens to events.              *)
ReadStart ==
    /\ Reads("start", <<>>, <<>>)
    /\ mirror' = (mirror \/ phase # "attaching")
    /\ UNCHANGED <<phase, waiting, uiVars>>

(* Mutant: a settlement is taken as it is, without asking for the state.   *)
ReadSettledOnly ==
    /\ Reads("settled", <<>>, <<>>)
    /\ IF phase = "attaching" THEN UNCHANGED stateVars ELSE mirror' = FALSE /\ waiting' = FALSE
    /\ UNCHANGED <<phase, uiVars>>

(* agent_settled wakes the waiters and asks for the state again.           *)
ReadSettled ==
    /\ Reads("settled", IF phase = "attaching" THEN <<>> ELSE <<Event("get_state")>>, <<>>)
    /\ IF phase = "attaching" THEN UNCHANGED stateVars ELSE mirror' = FALSE /\ waiting' = FALSE
    /\ UNCHANGED <<phase, uiVars>>

(* A response resolves its promise.                                        *)
ReadResponse ==
    /\ \E kind \in {"state", "commands", "attached"} : Reads(kind, <<>>, <<Head(link)>>)
    /\ UNCHANGED <<phase, stateVars, uiVars>>

(* Without a dialog context questions are kept.                            *)
ReadAsk ==
    /\ Reads("ask", <<>>, <<>>)
    /\ IF Unbound
       THEN pendingUi' = pendingUi \cup {Head(link).of} /\ UNCHANGED open
       ELSE open' = open \cup {Head(link).of} /\ UNCHANGED pendingUi
    /\ UNCHANGED <<phase, stateVars, told>>

(* The dialog's controller aborts: it closes, unless it is an editor.      *)
Closes(q) ==
    /\ open' = IF q \in editors THEN open ELSE open \ {q}
    /\ told' = IF q \in editors /\ q \in open THEN told \cup {q} ELSE told \ {q}

(* A dismissal is a request itself: while the commands are awaited it no   *)
(* longer reaches the questions that are kept.                             *)
ReadDismiss ==
    LET q == Head(link).of
    IN  /\ Reads("dismiss", <<>>, <<>>)
        /\ IF Unbound
           THEN pendingUi' = pendingUi \ {q} /\ UNCHANGED <<open, told>>
           ELSE Closes(q) /\ UNCHANGED pendingUi
        /\ UNCHANGED <<phase, stateVars>>

ReadResolved ==
    LET q == Head(link).of
    IN  /\ Reads("resolved", <<>>, <<>>)
        /\ pendingUi' = pendingUi \ {q} /\ Closes(q)
        /\ UNCHANGED <<phase, stateVars>>

(* session_exit: waiters wake, requests fail.  A seed that fails ends the  *)
(* attempt to attach; the binding goes on without commands.                *)
ReadExit ==
    /\ Reads("exit", <<>>, IF phase = "binding" THEN <<Event("commands")>> ELSE <<>>)
    /\ phase' = IF phase \in {"attaching", "seeding"} THEN "gone" ELSE phase
    /\ mirror' = FALSE /\ waiting' = FALSE
    /\ UNCHANGED uiVars

(* The socket closes, which is an event of its own: no continuation is     *)
(* left.  The mirror is idle, but its waiters are not woken.               *)
LosesConnection ==
    /\ phase \in Attached /\ landed = <<>>
    /\ phase' = "gone" /\ mirror' = FALSE /\ up' = <<>> /\ link' = <<>>
    /\ pendingUi' = {}
    /\ open' = open \cup IF phase = "binding" THEN pendingUi ELSE {}
    /\ UNCHANGED <<engineVars, daemonVars, landed, waiting, seeds, told>>

-----------------------------------------------------------------------------
(* The surface: one continuation.                                          *)

Runs(kind) ==
    /\ landed # <<>> /\ Head(landed).kind = kind
    /\ landed' = Tail(landed)
    /\ UNCHANGED <<engineVars, daemonVars, link, seeds, told>>

(* attach is answered: the session object is made, and seeded.             *)
ContinueAttach ==
    /\ Runs("attached")
    /\ IF phase = "gone"
       THEN UNCHANGED <<phase, up>>
       ELSE phase' = "seeding" /\ up' = Append(up, Event("get_state"))
    /\ UNCHANGED <<stateVars, pendingUi, open>>

(* applyState takes the response as the truth, however old it is.          *)
ContinueState ==
    LET value == Head(landed).value
    IN  /\ Runs("state")
        /\ mirror' = value /\ waiting' = (waiting /\ value)
        /\ phase' = IF phase = "seeding" THEN "seeded" ELSE phase
        /\ UNCHANGED <<up, pendingUi, open>>

(* Mutant: the questions that were kept are shown with the next binding.   *)
ContinueBindUnshown ==
    /\ Runs("commands")
    /\ phase' = IF phase = "binding" THEN "bound" ELSE phase
    /\ UNCHANGED <<up, stateVars, pendingUi, open>>

(* The rest of bindExtensions shows the questions that were kept.          *)
ContinueBind ==
    /\ Runs("commands")
    /\ phase' = IF phase = "binding" THEN "bound" ELSE phase
    /\ open' = open \cup pendingUi /\ pendingUi' = {}
    /\ UNCHANGED <<up, stateVars>>

-----------------------------------------------------------------------------
Read ==
    \/ ReadStart \/ ReadSettled \/ ReadResponse
    \/ ReadAsk \/ ReadDismiss \/ ReadResolved \/ ReadExit
Continue == ContinueAttach \/ ContinueState \/ ContinueBind

Next ==
    \/ Starts \/ Settles \/ Finalized \/ Exits
    \/ \E q \in Questions : Asks(q) \/ GivesUp(q) \/ AnsweredElsewhere(q) \/ UserAnswers(q)
    \/ TakeRequest \/ Join \/ Reseed \/ Bind \/ WaitForIdle \/ LosesConnection
    \/ Read \/ Continue

Spec == Init /\ [][Next]_vars
(* The daemon and the surface do what is theirs to do.  Nothing is assumed *)
(* of the engine, of the user, of other surfaces or of failures.           *)
FairSpec ==
    /\ Spec
    /\ WF_vars(Finalized) /\ WF_vars(TakeRequest) /\ WF_vars(Read) /\ WF_vars(Continue)
    /\ WF_vars(Bind)

-----------------------------------------------------------------------------
(* While the engine waits on a question, every attached surface has it: on *)
(* its way, kept until dialogs can be shown, or open and not marked as     *)
(* resolved, unless the user has answered it.  No interleaving of joining, *)
(* binding and other surfaces' answers swallows one.                       *)
QuestionsKept ==
    /\ TypeOK
    /\ \A q \in outstanding : phase \in Attached =>
           \/ {About("ask", q), About("answer", q)} \cap (Range(link) \cup Range(up)) # {}
           \/ q \in pendingUi \cup (open \ told)

(* The reconciliation after a settlement: once the engine stays idle, an   *)
(* attached surface stays idle too and nobody waits any longer, whatever   *)
(* old responses and late settlements came in between (hosted-session.ts   *)
(* 691-697).                                                               *)
Settled ==
    <>[](alive /\ ~streaming /\ phase = "bound") => <>[](~mirror /\ ~waiting)

(* A question the engine keeps waiting on is shown by every surface that   *)
(* is attached, when it was asked before it joined or while it was binding *)
(* as well (joinSessionAsClient, pendingUiFrames).                         *)
QuestionsShown ==
    \A q \in Questions :
        (q \in outstanding /\ phase \in Attached)
            ~> (q \notin outstanding \/ phase = "gone" \/ q \in open
                \/ About("answer", q) \in Range(up))

(* A question another surface has answered does not stay open (an editor   *)
(* does: it is given no signal), whenever the answer and the question come *)
(* (extension_ui_resolved).                                                *)
AnsweredCloses ==
    \A q \in Questions :
        (q \in elsewhere \ editors /\ phase # "gone") ~> (phase = "gone" \/ q \notin open)

(* A question is on the screen for as long as it waits for an answer.      *)
QuestionsSettle == QuestionsShown /\ AnsweredCloses
=============================================================================
