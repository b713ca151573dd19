---------------------------- MODULE AgentSession ----------------------------
(***************************************************************************)
(* The session of packages/runtime/src/core/agent-session.ts: it feeds     *)
(* prompts to the agent, and after each agent run retries, compacts and    *)
(* continues until the run settles.                                        *)
(*                                                                         *)
(* A driver is one call of _runAgentPrompt with the prompt() or            *)
(* sendCustomMessage() before it.  Nothing but the flag _isAgentRunActive  *)
(* keeps drivers apart, and prompt() looks at it several awaits before     *)
(* _runAgentPrompt sets it.                                                *)
(*                                                                         *)
(* The agent is abstracted from AgentLoop to what the session sees of it:  *)
(* one active run, two queues, the messages its loop holds, and the        *)
(* assistant messages that end its transcript.  Each action is the code    *)
(* between two awaits.                                                     *)
(***************************************************************************)
EXTENDS Integers, Sequences, FiniteSets, SequencesExt

CONSTANTS
    Drivers,       \* concurrent callers of prompt and sendCustomMessage
    None,          \* no driver
    MaxInputs,     \* bound: prompts, queued messages and requests of handlers
    MaxTail,       \* bound: the newest assistant messages kept of those that end a transcript
    MaxRetries     \* settings.retry.maxRetries

ASSUME ConstantsAssumption ==
    /\ None \notin Drivers
    /\ {MaxInputs, MaxTail, MaxRetries} \subseteq Nat

Lanes == {"steer", "followUp"}

(* A message: prompts, and the continuation of a compacted run, have the   *)
(* id 0; those a user queued are on the session's own list as well, those  *)
(* of extensions are not.                                                  *)
Item == [id : 0..MaxInputs, lane : Lanes, user : BOOLEAN]

(* How a run's last assistant message looks to _handlePostAgentRun.        *)
Replies == {"success", "retryable", "fatal", "overflow", "overflowLength", "aborted"}
Overflows == {"overflow", "overflowLength"}
ErrorReplies == {"retryable", "fatal", "overflow"}      \* stopReason "error"
Outcomes == {"success", "error", "aborted", "compaction-error"}

(* Where a driver waits: "post" and "refused" are left in the same turn of *)
(* the event loop, "recovering" is a compaction that is to be followed by  *)
(* a retry.                                                                *)
DriverPoints ==
    {"free", "preflight", "agent", "post", "retrying", "compacting", "recovering", "refused",
     "settling"}
Working == {"agent", "post", "retrying", "compacting", "recovering"}

VARIABLES
    active,        \* _isAgentRunActive
    settling,      \* _isEmittingAgentSettled
    wanted,        \* _pendingSessionContinuations is not empty
    outcome,       \* _mypiSettledOutcome.kind
    driver,        \* where each driver waits
    owner,         \* the driver whose agent run is active, or None
    phase,         \* of that run: "off", "running", "ending" (agent_end listeners),
                   \* or "failing" (the listeners of handleRunFailure)
    agentAborted,  \* the run's abort signal
    queue,         \* the agent's steering and follow-up queues
    hand,          \* a message its loop took and has not emitted
    mirror,        \* ids in _steeringMessages and _followUpMessages
    tail,          \* how many assistant messages end agent.state.messages
    fileTail,      \* those that end the session file
    last,          \* _lastAssistantMessage
    attempt,       \* _retryAttempt
    sleeper,       \* the driver whose sleep _retryAbortController aborts, or None
    retryAborted,  \* drivers whose sleep was aborted
    recovered,     \* _overflowRecoveryAttempted
    budget,        \* _mypiProactiveContinuationBudget
    compactor,     \* manual compact(): "none", "waiting" for idle, "compacting"
    waiter,        \* _idleWaitPromise is set
    issued,
    unseen,        \* history: ids that left the agent without the session noticing
    mistaken,      \* history: ids taken off the list for a prompt with the same text
    ended          \* history: how the agent's last run ended, or what has disturbed that:
                   \* two drivers at once ("overlap"), a reply the session did not hear
                   \* ("deaf"), or a continue() that threw on the transcript ("illegal")

agentVars == <<owner, phase, agentAborted, hand>>
logVars == <<tail, fileTail, last, recovered>>
settleVars == <<active, settling, wanted, outcome>>
historyVars == <<unseen, mistaken, ended>>
vars == <<settleVars, driver, agentVars, queue, mirror, logVars, attempt, sleeper, retryAborted,
          budget, compactor, waiter, issued, historyVars>>

retryVars == <<attempt, sleeper, retryAborted>>
waitVars == <<compactor, waiter>>

connected == compactor = "none"
Busy == {d \in Drivers : driver[d] \notin {"free", "preflight"}}
Undisturbed == ended \in {"success", "error", "aborted"}
HasQueuedMessages == \E l \in Lanes : queue[l] # <<>>

Init ==
    /\ active = FALSE /\ settling = FALSE /\ wanted = FALSE /\ outcome = "success"
    /\ driver = [d \in Drivers |-> "free"]
    /\ owner = None /\ phase = "off" /\ agentAborted = FALSE /\ hand = <<>>
    /\ queue = [l \in Lanes |-> <<>>] /\ mirror = [l \in Lanes |-> <<>>]
    /\ tail = 0 /\ fileTail = <<>> /\ last = "none" /\ recovered = FALSE
    /\ attempt = 0 /\ sleeper = None /\ retryAborted = {} /\ budget = 0
    /\ compactor = "none" /\ waiter = FALSE
    /\ issued = 0
    /\ unseen = {} /\ mistaken = {} /\ ended = "success"

-----------------------------------------------------------------------------
(* Parts of steps.                                                         *)

(* Events from outside wait until the promises settled in this turn of the *)
(* event loop have run their continuations.                                *)
Quiet == \A d \in Drivers : driver[d] \notin {"post", "refused"}

(* _emitAgentSettled up to its await.                                      *)
Settle(d, kind) ==
    /\ driver' = [driver EXCEPT ![d] = "settling"]
    /\ active' = FALSE /\ settling' = TRUE /\ outcome' = kind

AgentStarts(d) ==
    /\ driver' = [driver EXCEPT ![d] = "agent"]
    /\ owner' = d /\ phase' = "running" /\ agentAborted' = FALSE

(* _runAgentPrompt up to its await: agent.prompt refuses while a run is    *)
(* active.  The run begins by emitting the messages of the prompt.         *)
StartRun(d, fromUser) ==
    /\ active' = TRUE /\ outcome' = "success" /\ budget' = 1
    /\ ended' = IF Busy \ {d} # {} THEN "overlap" ELSE ended
    /\ IF owner = None
       THEN /\ AgentStarts(d)
            /\ hand' = <<[id |-> 0, lane |-> "steer", user |-> fromUser]>>
       ELSE /\ driver' = [driver EXCEPT ![d] = "refused"]
            /\ UNCHANGED agentVars

(* agent.continue() on transcript end t and queues q.  It throws while     *)
(* another run is active, and when the transcript ends with an assistant   *)
(* message and nothing is queued; otherwise the transcript is continued as *)
(* it is, or queued messages become the prompt of the run.                 *)
Continue(d, kind, t, q) ==
    LET lane == IF q["steer"] # <<>> THEN "steer" ELSE "followUp"
        legal == owner = None /\ (t = 0 \/ q[lane] # <<>>)
    IN  /\ tail' = t
        /\ \/ /\ legal
              /\ AgentStarts(d)
              /\ outcome' = kind
              /\ UNCHANGED <<active, settling, ended>>
              /\ IF t = 0
                 THEN queue' = q /\ hand' = <<>>
                 ELSE queue' = [q EXCEPT ![lane] = Tail(@)] /\ hand' = <<Head(q[lane])>>
           \/ /\ ~legal
              /\ Settle(d, "error")
              /\ queue' = q
              /\ ended' = IF owner # None \/ ~Undisturbed THEN ended ELSE "illegal"
              /\ UNCHANGED agentVars

(* The end of _handlePostAgentRun: continue for messages still queued.     *)
Conclude(d, kind, t) ==
    IF HasQueuedMessages
    THEN Continue(d, kind, t, queue)
    ELSE /\ Settle(d, kind)
         /\ tail' = t
         /\ UNCHANGED <<agentVars, queue, ended>>

(* The transcript without an assistant message at its end.                 *)
Sliced(n) == IF n = 0 THEN 0 ELSE n - 1
Reread == Len(fileTail)
WithoutError == IF fileTail # <<>> /\ Last(fileTail) = "error" THEN Reread - 1 ELSE Reread

-----------------------------------------------------------------------------
(* The agent's run.                                                        *)
Running == phase = "running" /\ hand = <<>> /\ Quiet

(* How a run that ends with a reply has ended.                             *)
KindOf(reply) == IF reply \in ErrorReplies THEN "error" ELSE "success"
Ending(reply) == IF reply = "aborted" THEN "aborted" ELSE KindOf(reply)

(* What the session learns from an assistant message (_handleAgentEvent).  *)
Hear(reply) ==
    IF connected
    THEN /\ last' = reply
         /\ recovered' = (recovered /\ reply \in ErrorReplies)
         /\ attempt' = IF reply \in ErrorReplies THEN attempt ELSE 0
    ELSE UNCHANGED <<last, recovered, attempt>>

LogReply(reply) ==
    LET kind == IF reply \in ErrorReplies THEN "error" ELSE "answer"
        longer == Append(fileTail, kind)
    IN  /\ tail' = IF tail = MaxTail THEN tail ELSE tail + 1
        /\ fileTail' = IF ~connected THEN fileTail
                       ELSE IF Len(fileTail) = MaxTail THEN Tail(longer) ELSE longer
        /\ ended' = IF ~Undisturbed THEN ended ELSE IF connected THEN Ending(reply) ELSE "deaf"

(* An assistant message with tool calls, and their results.  It resets the *)
(* count of the retries, so a run may go on for as long as the model calls *)
(* tools.                                                                  *)
AgentTurn ==
    /\ Running /\ ~agentAborted
    /\ Hear("success")
    /\ tail' = 0
    /\ fileTail' = IF connected THEN <<>> ELSE fileTail
    /\ UNCHANGED <<settleVars, driver, agentVars, queue, mirror, sleeper, retryAborted, budget,
                   waitVars, issued, historyVars>>

(* The loop polls its queues, steering first ...                           *)
AgentTakes(lane) ==
    /\ Running /\ queue[lane] # <<>>
    /\ lane = "followUp" => queue["steer"] = <<>>
    /\ hand' = <<Head(queue[lane])>>
    /\ queue' = [queue EXCEPT ![lane] = Tail(@)]
    /\ UNCHANGED <<settleVars, driver, owner, phase, agentAborted, mirror, logVars, retryVars,
                   budget, waitVars, issued, historyVars>>

(* Spliced out of the list, where it is there.                             *)
TakesOff(lane, id) ==
    \E j \in DOMAIN mirror[lane] :
        /\ mirror[lane][j] = id
        /\ mirror' = [mirror EXCEPT ![lane] = RemoveAt(@, j)]

(* A message of the user that was not queued has no id: the first one with *)
(* the same text is spliced out, whichever that is.                        *)
TakesOffByText ==
    \E lane \in Lanes : \E j \in DOMAIN mirror[lane] :
        /\ mirror' = [mirror EXCEPT ![lane] = RemoveAt(@, j)]
        /\ mistaken' = mistaken \cup {mirror[lane][j]}

(* Mutant: the first queued message is taken off the list.                 *)
AgentEmitsFirst ==
    /\ phase = "running" /\ hand # <<>> /\ Quiet /\ connected
    /\ mirror' = [mirror EXCEPT ![Head(hand).lane] = IF @ = <<>> THEN @ ELSE Tail(@)]
    /\ hand' = <<>> /\ tail' = 0 /\ fileTail' = <<>>
    /\ UNCHANGED <<settleVars, driver, owner, phase, agentAborted, queue, last, recovered,
                   retryVars, budget, waitVars, issued, historyVars>>

(* The queued messages the loop holds.                                     *)
InHand == {hand[i].id : i \in DOMAIN hand} \ {0}

(* ... and emits what it took; the session takes it off its own list.      *)
AgentEmits ==
    /\ phase = "running" /\ hand # <<>> /\ Quiet
    /\ LET m == Head(hand)
           listed == \E j \in DOMAIN mirror[m.lane] : mirror[m.lane][j] = m.id
       IN  IF connected
           THEN /\ \/ listed /\ TakesOff(m.lane, m.id) /\ UNCHANGED mistaken
                   \/ m.user /\ m.id = 0 /\ TakesOffByText
                   \/ ~listed /\ UNCHANGED <<mirror, mistaken>>
                /\ recovered' = (recovered /\ ~m.user)
                /\ fileTail' = <<>>
                /\ UNCHANGED unseen
           ELSE /\ unseen' = unseen \cup InHand
                /\ UNCHANGED <<mirror, mistaken, recovered, fileTail>>
    /\ hand' = <<>> /\ tail' = 0
    /\ UNCHANGED <<settleVars, driver, owner, phase, agentAborted, queue, last, retryVars, budget,
                   waitVars, issued, ended>>

(* The run's last assistant message.  A run that ends well has polled both *)
(* queues empty; one that fails or is aborted leaves them as they are.     *)
AgentReply(reply) ==
    /\ Running
    /\ Ending(reply) = "success" => ~HasQueuedMessages
    /\ reply = "aborted" => agentAborted
    /\ phase' = "ending"
    /\ Hear(reply) /\ LogReply(reply)
    /\ UNCHANGED <<settleVars, driver, owner, agentAborted, hand, queue, mirror, sleeper,
                   retryAborted, budget, waitVars, issued, unseen, mistaken>>

(* A listener throws: what the loop held is lost, and the agent closes the *)
(* run with an assistant message of its own ...                            *)
AgentThrows(reply) ==
    /\ phase \in {"running", "ending"} /\ Quiet
    /\ reply = IF agentAborted THEN "aborted" ELSE "fatal"
    /\ unseen' = unseen \cup InHand
    /\ hand' = <<>>
    /\ phase' = "failing"
    /\ Hear(reply) /\ LogReply(reply)
    /\ UNCHANGED <<settleVars, driver, owner, agentAborted, queue, mirror, sleeper, retryAborted,
                   budget, waitVars, issued, mistaken>>

(* ... which throws again: the run is over and prompt or continue rejects. *)
AgentRejects ==
    /\ phase # "off" /\ Quiet
    /\ unseen' = unseen \cup InHand
    /\ hand' = <<>>
    /\ owner' = None /\ phase' = "off" /\ agentAborted' = FALSE
    /\ ended' = IF Undisturbed THEN "error" ELSE ended
    /\ driver' = [driver EXCEPT ![owner] = "refused"]
    /\ UNCHANGED <<settleVars, queue, mirror, logVars, retryVars, budget, waitVars, issued,
                   mistaken>>

(* The listeners of agent_end are done: activeRun is cleared.              *)
AgentFinishes(d) ==
    /\ owner = d /\ phase \in {"ending", "failing"} /\ Quiet
    /\ owner' = None /\ phase' = "off" /\ agentAborted' = FALSE
    /\ driver' = [driver EXCEPT ![d] = "post"]
    /\ UNCHANGED <<settleVars, hand, queue, mirror, logVars, retryVars, budget, waitVars,
                   issued, historyVars>>

-----------------------------------------------------------------------------
(* _handlePostAgentRun and what _runAgentPrompt does with its answer.      *)
(* Mutant: an abort leaves the outcome of the run before it.               *)
PostSettlesAsBefore(d) ==
    /\ driver[d] = "post" /\ last \in {"none", "aborted"}
    /\ last' = "none"
    /\ Settle(d, outcome)
    /\ UNCHANGED <<wanted, agentVars, queue, mirror, tail, fileTail, recovered, retryVars, budget,
                   waitVars, issued, unseen, mistaken, ended>>

PostSettles(d) ==
    /\ driver[d] = "post" /\ last \in {"none", "aborted"}
    /\ last' = "none"
    /\ Settle(d, IF last = "aborted" THEN "aborted" ELSE outcome)
    /\ UNCHANGED <<wanted, agentVars, queue, mirror, tail, fileTail, recovered, retryVars, budget,
                   waitVars, issued, unseen, mistaken, ended>>

(* Mutant: a retry is not counted.                                         *)
PostRetriesUncounted(d) ==
    /\ driver[d] = "post" /\ last = "retryable" /\ attempt < MaxRetries
    /\ last' = "none" /\ outcome' = "error"
    /\ tail' = Sliced(tail)
    /\ driver' = [driver EXCEPT ![d] = "retrying"]
    /\ sleeper' = d
    /\ UNCHANGED <<active, settling, wanted, agentVars, queue, mirror, fileTail, recovered,
                   attempt, retryAborted, budget, waitVars, issued, historyVars>>

(* _prepareRetry up to its sleep.                                          *)
PostRetries(d) ==
    /\ driver[d] = "post" /\ last = "retryable" /\ attempt < MaxRetries
    /\ last' = "none" /\ outcome' = "error"
    /\ attempt' = attempt + 1
    /\ tail' = Sliced(tail)
    /\ driver' = [driver EXCEPT ![d] = "retrying"]
    /\ sleeper' = d
    /\ UNCHANGED <<active, settling, wanted, agentVars, queue, mirror, fileTail, recovered,
                   retryAborted, budget, waitVars, issued, historyVars>>

(* The final failure of a series of retries resets the count.              *)
AttemptAfter(reply) == IF reply \in ErrorReplies THEN 0 ELSE attempt

PastRetry(d) ==
    /\ driver[d] = "post"
    /\ last \in {"success", "retryable", "fatal"} \cup Overflows
    /\ last = "retryable" => attempt = MaxRetries

(* _checkCompaction: an overflow is compacted away and retried, once.      *)
PostRecovers(d) ==
    /\ PastRetry(d) /\ last \in Overflows /\ ~recovered
    /\ last' = "none" /\ outcome' = KindOf(last) /\ attempt' = AttemptAfter(last)
    /\ recovered' = TRUE
    /\ tail' = Sliced(tail)
    /\ driver' = [driver EXCEPT ![d] = "recovering"]
    /\ UNCHANGED <<active, settling, wanted, agentVars, queue, mirror, fileTail, sleeper,
                   retryAborted, budget, waitVars, issued, historyVars>>

(* ... or the context has grown over its threshold.                        *)
PostCompacts(d) ==
    /\ PastRetry(d) /\ last \notin Overflows
    /\ last' = "none" /\ outcome' = KindOf(last) /\ attempt' = AttemptAfter(last)
    /\ driver' = [driver EXCEPT ![d] = "compacting"]
    /\ UNCHANGED <<active, settling, wanted, agentVars, queue, mirror, tail, fileTail, recovered,
                   sleeper, retryAborted, budget, waitVars, issued, historyVars>>

PostConcludes(d) ==
    /\ PastRetry(d)
    /\ last \in Overflows => recovered
    /\ last' = "none" /\ attempt' = AttemptAfter(last)
    /\ Conclude(d, KindOf(last), tail)
    /\ UNCHANGED <<wanted, mirror, fileTail, recovered, sleeper, retryAborted, budget, waitVars,
                   issued, unseen, mistaken>>

RetryWakes(d) ==
    /\ driver[d] = "retrying" /\ d \notin retryAborted /\ Quiet
    /\ sleeper' = None
    /\ Continue(d, outcome, tail, queue)
    /\ UNCHANGED <<wanted, mirror, fileTail, last, recovered, attempt, retryAborted, budget,
                   waitVars, issued, unseen, mistaken>>

(* An aborted sleep: the run goes on to compaction and to queued messages. *)
RetryCancelled(d) ==
    /\ driver[d] = "retrying" /\ d \in retryAborted
    /\ sleeper' = None /\ retryAborted' = retryAborted \ {d} /\ attempt' = 0
    /\ \/ /\ driver' = [driver EXCEPT ![d] = "compacting"]
          /\ UNCHANGED <<active, settling, outcome, agentVars, queue, tail,
                         ended>>
       \/ Conclude(d, outcome, tail)
    /\ UNCHANGED <<wanted, mirror, fileTail, last, recovered, budget, waitVars, issued, unseen,
                   mistaken>>

(* _runAutoCompaction succeeds: the transcript is read back from the file. *)
CompactionRetries(d) ==
    /\ driver[d] = "recovering" /\ Quiet
    /\ Continue(d, outcome, WithoutError, queue)
    /\ UNCHANGED <<wanted, mirror, fileTail, last, recovered, retryVars, budget, waitVars,
                   issued, unseen, mistaken>>

(* A compacted run with unfinished work queues its own continuation, once  *)
(* per run and only when nothing else is queued.                           *)
Queued(lane, id, user) ==
    [queue EXCEPT ![lane] = Append(@, [id |-> id, lane |-> lane, user |-> user])]

SpendBudget == ~HasQueuedMessages /\ budget > 0 /\ budget' = budget - 1

CompactionContinues(d) ==
    /\ driver[d] = "compacting" /\ Quiet
    /\ SpendBudget
    /\ Continue(d, outcome, Reread, Queued("followUp", 0, FALSE))
    /\ UNCHANGED <<wanted, mirror, fileTail, last, recovered, retryVars, waitVars, issued,
                   unseen, mistaken>>

CompactionConcludes(d) ==
    /\ driver[d] = "compacting" /\ Quiet
    /\ Conclude(d, outcome, Reread)
    /\ UNCHANGED <<wanted, mirror, fileTail, last, recovered, retryVars, budget, waitVars,
                   issued, unseen, mistaken>>

(* ... or it fails, is cancelled, or finds nothing to compact.             *)
CompactionStops(d) ==
    /\ driver[d] \in {"compacting", "recovering"} /\ Quiet
    /\ \E kind \in {outcome, "compaction-error"} : Conclude(d, kind, tail)
    /\ UNCHANGED <<wanted, mirror, fileTail, last, recovered, retryVars, budget, waitVars,
                   issued, unseen, mistaken>>

(* agent.prompt or agent.continue has thrown: the run is settled as failed. *)
RefusedSettles(d) ==
    /\ driver[d] = "refused"
    /\ Settle(d, "error")
    /\ UNCHANGED <<wanted, agentVars, queue, mirror, logVars, retryVars, budget, waitVars,
                   issued, unseen, mistaken, ended>>

(* Mutant: queued messages keep waiters asleep.                            *)
WakeWaitersUnlessQueued ==
    /\ waiter' = (waiter /\ (active \/ HasQueuedMessages))
    /\ compactor' = IF compactor = "waiting" /\ ~active THEN "compacting" ELSE compactor

(* _resolveIdleWaitIfIdle: a waiting compact() goes on.                    *)
WakeWaiters ==
    /\ waiter' = (waiter /\ active)
    /\ compactor' = IF compactor = "waiting" /\ ~active THEN "compacting" ELSE compactor

(* _emitAgentSettled once the handlers of agent_settled are done: the      *)
(* event is sent, continuations requested by the handlers are dispatched,  *)
(* and those who wait for the session to be idle are told.                 *)
FinishSettle(d) ==
    /\ driver[d] = "settling" /\ Quiet
    /\ settling' = FALSE /\ wanted' = FALSE
    /\ IF wanted
       THEN StartRun(d, FALSE) /\ UNCHANGED <<waitVars>>
       ELSE /\ driver' = [driver EXCEPT ![d] = "free"]
            /\ WakeWaiters
            /\ UNCHANGED <<active, outcome, budget, ended, agentVars>>
    /\ UNCHANGED <<queue, mirror, logVars, retryVars, issued, unseen, mistaken>>

-----------------------------------------------------------------------------
(* Callers.                                                                *)

(* Which of the free drivers stands for a new call does not matter.        *)
NewCall == CHOOSE d \in Drivers : driver[d] = "free"

(* prompt() has found the session idle and awaits authentication,          *)
(* compaction and the handlers of before_agent_start.                      *)
Prompt(d) ==
    /\ driver[d] = "free" /\ d = NewCall /\ ~active /\ Quiet /\ issued < MaxInputs
    /\ issued' = issued + 1
    /\ driver' = [driver EXCEPT ![d] = "preflight"]
    /\ UNCHANGED <<settleVars, agentVars, queue, mirror, logVars, retryVars, budget, waitVars,
                   historyVars>>

PreflightFails(d) ==
    /\ driver[d] = "preflight" /\ Quiet
    /\ driver' = [driver EXCEPT ![d] = "free"]
    /\ UNCHANGED <<settleVars, agentVars, queue, mirror, logVars, retryVars, budget, waitVars,
                   issued, historyVars>>

(* The compaction before a prompt.  Its answer is ignored, but a message   *)
(* it queued to continue the compacted work stays queued.                  *)
PreflightCompacts(d) ==
    /\ driver[d] = "preflight" /\ Quiet
    /\ \/ /\ ~recovered /\ recovered' = TRUE
          /\ tail' \in {Sliced(tail), WithoutError}
          /\ UNCHANGED <<outcome, queue, budget>>
       \/ /\ outcome' = "compaction-error"
          /\ UNCHANGED <<recovered, tail, queue, budget>>
       \/ /\ tail' = Reread
          /\ UNCHANGED <<outcome, recovered>>
          /\ \/ SpendBudget /\ queue' = Queued("followUp", 0, FALSE)
             \/ UNCHANGED <<queue, budget>>
    /\ UNCHANGED <<active, settling, wanted, driver, agentVars, mirror, fileTail, last, retryVars,
                   waitVars, issued, historyVars>>

StartPrompt(d) ==
    /\ driver[d] = "preflight" /\ Quiet
    /\ StartRun(d, TRUE)
    /\ UNCHANGED <<settling, wanted, queue, mirror, logVars, retryVars, waitVars, issued,
                   unseen, mistaken>>

(* sendCustomMessage with triggerTurn, on an idle session.                 *)
SendCustomMessage(d) ==
    /\ driver[d] = "free" /\ d = NewCall /\ ~active /\ ~settling /\ Quiet /\ issued < MaxInputs
    /\ issued' = issued + 1
    /\ StartRun(d, FALSE)
    /\ UNCHANGED <<settling, wanted, queue, mirror, logVars, retryVars, waitVars,
                   unseen, mistaken>>

(* sendCustomMessage without triggerTurn, on an idle session.              *)
NoteCustomMessage ==
    /\ ~active /\ Quiet
    /\ tail' = 0 /\ fileTail' = <<>>
    /\ UNCHANGED <<settleVars, driver, agentVars, queue, mirror, last, recovered, retryVars, budget,
                   waitVars, issued, historyVars>>

(* steer and followUp at any time, prompt while active; custom messages    *)
(* are queued while active, and are not on the session's own list.         *)
Enqueue(lane, user) ==
    /\ Quiet /\ issued < MaxInputs
    /\ ~user => active
    /\ issued' = issued + 1
    /\ queue' = Queued(lane, issued + 1, user)
    /\ mirror' = IF user THEN [mirror EXCEPT ![lane] = Append(@, issued + 1)] ELSE mirror
    /\ UNCHANGED <<settleVars, driver, agentVars, logVars, retryVars, budget, waitVars,
                   historyVars>>

(* A handler of agent_settled asks for another run.                        *)
RequestContinuation ==
    /\ settling /\ ~wanted /\ Quiet /\ issued < MaxInputs
    /\ wanted' = TRUE /\ issued' = issued + 1
    /\ UNCHANGED <<active, settling, outcome, driver, agentVars, queue, mirror, logVars, retryVars,
                   budget, waitVars, historyVars>>

(* removeQueuedMessage: both lists, or neither.                            *)
RemoveQueuedMessage(lane, i) ==
    /\ Quiet /\ i \in DOMAIN queue[lane]
    /\ TakesOff(lane, queue[lane][i].id)
    /\ queue' = [queue EXCEPT ![lane] = RemoveAt(@, i)]
    /\ UNCHANGED <<settleVars, driver, agentVars, logVars, retryVars, budget, waitVars, issued,
                   historyVars>>

(* clearQueue clears both lanes, clearSteeringMessages the one.            *)
ClearQueue(lanes) ==
    /\ Quiet
    /\ queue' = [l \in Lanes |-> IF l \in lanes THEN <<>> ELSE queue[l]]
    /\ mirror' = [l \in Lanes |-> IF l \in lanes THEN <<>> ELSE mirror[l]]
    /\ UNCHANGED <<settleVars, driver, agentVars, logVars, retryVars, budget, waitVars, issued,
                   historyVars>>

(* abort() reaches a retry's sleep and the agent's run, not a compaction.  *)
Interrupt ==
    /\ retryAborted' = retryAborted \cup ({sleeper} \ {None})
    /\ agentAborted' = (agentAborted \/ owner # None)

Abort ==
    /\ Quiet /\ (active \/ owner # None)
    /\ Interrupt
    /\ waiter' = (waiter \/ active)
    /\ UNCHANGED <<settleVars, driver, owner, phase, hand, queue, mirror, logVars, attempt,
                   sleeper, budget, compactor, issued, unseen, mistaken, ended>>

(* compact(): the session stops listening to the agent, aborts, waits to   *)
(* be idle, compacts, and listens again.                                   *)
CompactManually ==
    /\ Quiet /\ compactor = "none"
    /\ Interrupt
    /\ waiter' = (waiter \/ active)
    /\ compactor' = IF active THEN "waiting" ELSE "compacting"
    /\ UNCHANGED <<settleVars, driver, owner, phase, hand, queue, mirror, logVars, attempt,
                   sleeper, budget, issued, unseen, mistaken, ended>>

ManualCompactionEnds ==
    /\ Quiet /\ compactor = "compacting"
    /\ compactor' = "none"
    /\ tail' \in {tail, Reread}
    /\ UNCHANGED <<settleVars, driver, agentVars, queue, mirror, fileTail, last, recovered,
                   retryVars, budget, waiter, issued, historyVars>>

-----------------------------------------------------------------------------
AgentSteps ==
    \/ AgentTurn \/ AgentEmits \/ AgentRejects
    \/ \E lane \in Lanes : AgentTakes(lane)
    \/ \E reply \in Replies : AgentReply(reply) \/ AgentThrows(reply)
    \/ \E d \in Drivers : AgentFinishes(d)

DriverSteps(d) ==
    \/ PostSettles(d) \/ PostRetries(d) \/ PostRecovers(d) \/ PostCompacts(d) \/ PostConcludes(d)
    \/ RetryWakes(d) \/ RetryCancelled(d)
    \/ CompactionRetries(d) \/ CompactionContinues(d) \/ CompactionConcludes(d)
    \/ CompactionStops(d)
    \/ RefusedSettles(d) \/ FinishSettle(d)
    \/ PreflightFails(d) \/ StartPrompt(d)

Callers ==
    \/ \E d \in Drivers : Prompt(d) \/ PreflightCompacts(d) \/ SendCustomMessage(d)
    \/ \E lane \in Lanes, user \in BOOLEAN : Enqueue(lane, user)
    \/ \E lane \in Lanes : \E i \in DOMAIN queue[lane] : RemoveQueuedMessage(lane, i)
    \/ \E lanes \in {Lanes, {"steer"}} : ClearQueue(lanes)
    \/ NoteCustomMessage \/ RequestContinuation \/ Abort \/ CompactManually \/ ManualCompactionEnds

Next == AgentSteps \/ (\E d \in Drivers : DriverSteps(d)) \/ Callers

Spec == Init /\ [][Next]_vars

(* The provider and the agent's loop answer (AgentLoop's RunEnds), and     *)
(* sleeps, compactions and settlement handlers end.                        *)
AgentProgress ==
    \/ AgentEmits
    \/ \E lane \in Lanes : AgentTakes(lane)
    \/ \E reply \in Replies : AgentReply(reply)
    \/ \E d \in Drivers : AgentFinishes(d)

FairSpec == Spec /\ WF_vars(AgentProgress) /\ \A d \in Drivers : WF_vars(DriverSteps(d))

-----------------------------------------------------------------------------
(* Every variable stays within its type.                                   *)
TypeOK ==
    /\ {active, settling, wanted, agentAborted, recovered, waiter} \subseteq BOOLEAN
    /\ outcome \in Outcomes
    /\ driver \in [Drivers -> DriverPoints]
    /\ owner \in Drivers \cup {None} /\ phase \in {"off", "running", "ending", "failing"}
    /\ owner = None <=> phase = "off"
    /\ \A l \in Lanes : queue[l] \in Seq(Item) /\ mirror[l] \in Seq(1..MaxInputs)
    /\ hand \in Seq(Item) /\ Len(hand) <= 1
    /\ tail \in 0..MaxTail /\ fileTail \in Seq({"answer", "error"}) /\ Len(fileTail) <= MaxTail
    /\ last \in Replies \cup {"none"}
    /\ ended \in {"success", "error", "aborted", "overlap", "deaf", "illegal"}
    /\ attempt \in 0..MaxRetries /\ budget \in 0..1
    /\ sleeper \in Drivers \cup {None} /\ retryAborted \subseteq Drivers
    /\ compactor \in {"none", "waiting", "compacting"}
    /\ issued \in 0..MaxInputs
    /\ unseen \cup mistaken \subseteq 1..MaxInputs

(* The session's own list of queued messages, which clients display and    *)
(* edit, is the agent's queue: every queued user message is listed once,   *)
(* both lists are in the order the messages were queued in, and what is    *)
(* listed beyond that is in the loop's hands, or left the agent while the  *)
(* session was not listening or by a throw.  Only a message whose text was *)
(* also sent as a prompt may be queued and not listed.                     *)
Increasing(ids) == \A i, j \in DOMAIN ids : i < j => ids[i] < ids[j]
IdsOf(messages) == [i \in DOMAIN messages |-> messages[i].id]

MirrorMatchesQueue ==
    \A l \in Lanes :
        LET queued == {i \in DOMAIN queue[l] : queue[l][i].user}
        IN  /\ {mirror[l][j] : j \in DOMAIN mirror[l]} \ (unseen \cup InHand)
                   = {queue[l][i].id : i \in queued} \ mistaken
            /\ Increasing(mirror[l]) /\ Increasing(IdsOf(queue[l]))

(* While no two drivers overlap, isStreaming is exact: it is true from the *)
(* start of a run to its settlement, through retries and compactions.      *)
ActiveIsExact ==
    ended # "overlap" =>
        /\ active <=> \E d \in Drivers : driver[d] \in Working \cup {"refused"}
        /\ owner # None => driver[owner] = "agent"

(* What a client is shown of a session is so.                              *)
ShownIsTrue == TypeOK /\ MirrorMatchesQueue /\ ActiveIsExact

(* A settlement tells how the last of the agent runs it settles ended, or  *)
(* that the compaction after it failed.                                    *)
SettlesHonestly(d) ==
    driver[d] # "settling" /\ driver'[d] = "settling" /\ Undisturbed' =>
        IF ended = "aborted"
        THEN outcome' = "aborted"
        ELSE outcome' \in {ended, "compaction-error"}

OutcomeIsHonest == [][\A d \in Drivers : SettlesHonestly(d)]_vars

(* The model does not call tools for ever, users do not abort or compact   *)
(* for ever, and no notes are appended for ever.  A turn with tool calls   *)
(* resets the count of the retries.  A run that fails is continued when a  *)
(* message is queued, also when the user aborts its retry, and leaves the  *)
(* message where it is when a note has followed its answer or the answer   *)
(* was dropped for the retry.                                              *)
InterruptionsEnd == <>[][~(AgentTurn \/ Abort \/ CompactManually \/ NoteCustomMessage)]_vars

(* Whoever waits for the session to be idle is told.                       *)
WaitersWake == InterruptionsEnd => waiter ~> ~waiter

(* Every run is settled: retries, compactions and queued messages end.     *)
RunsSettle == InterruptionsEnd => \A d \in Drivers : driver[d] # "free" ~> driver[d] = "free"

=============================================================================
