----------------------------- MODULE AgentLoop -----------------------------
(***************************************************************************)
(* The agent of packages/agent/src: class Agent (agent.ts), which owns the *)
(* transcript, the two message queues and the single active run, and the   *)
(* loop it drives (agent-loop.ts), which alternates model responses and    *)
(* tool batches until nothing is left to do.                               *)
(*                                                                         *)
(* The program is one JavaScript thread: code between two awaits is        *)
(* atomic, and everything a caller may do (steer, abort, reset, ...) can   *)
(* happen at every await.  pc names the await the loop is suspended at, so *)
(* each action below is the code between two awaits.  While pc is not      *)
(* "idle" Agent.activeRun is set.                                          *)
(*                                                                         *)
(* A listener, a hook or the provider may throw at an await: RunThrows.    *)
(***************************************************************************)
EXTENDS Integers, Sequences, FiniteSets, SequencesExt

CONSTANTS
    MaxMessages,     \* bound: messages handed to prompt, steer and followUp
    MaxRuns,         \* bound: runs started by prompt and continue
    MaxToolTurns,    \* bound: the model asks for tools in its first MaxToolTurns turns only
    MaxCalls,        \* bound: tool calls in one assistant message
    SteeringMode,    \* Agent.steeringMode
    FollowUpMode,    \* Agent.followUpMode
    ToolExecution    \* Agent.toolExecution

QueueModes == {"all", "one-at-a-time"}

ASSUME ConstantsAssumption ==
    /\ MaxMessages \in Nat /\ MaxRuns \in Nat /\ MaxToolTurns \in Nat
    /\ MaxCalls \in Nat \ {0}
    /\ SteeringMode \in QueueModes /\ FollowUpMode \in QueueModes
    /\ ToolExecution \in {"sequential", "parallel"}

(* A message carries its serial number and the call it arrived by.         *)
Lanes == {"prompt", "steer", "followUp"}
Message == [id : Nat \ {0}, lane : Lanes]
Call == Nat \X Nat                       \* <<turn, position in the message>>
StopReasons == {"stop", "toolUse", "length", "error", "aborted"}

(* Transcript entries, as far as the loop tells them apart.                *)
UserEntry(m) == [role |-> "user", message |-> m]
AssistantEntry(turn, stop, calls) ==
    [role |-> "assistant", turn |-> turn, stop |-> stop, calls |-> calls]
ResultEntry(turn, call) == [role |-> "toolResult", turn |-> turn, call |-> call]

Entry ==
    [role : {"user"}, message : Message]
      \cup [role : {"assistant"}, turn : Nat, stop : StopReasons, calls : Nat]
      \cup [role : {"toolResult"}, turn : Nat, call : Nat]

CallStatus == {"none", "preparing", "prepared", "running", "failed", "done", "terminate"}
Executed == {"done", "terminate"}

SequentialPoints == {"seqStart", "seqPrepare", "seqExecute", "seqNext"}
ParallelPoints == {"parStart", "parPrepare", "parNext", "parRun", "parResult"}
BatchPoints == SequentialPoints \cup ParallelPoints \cup {"truncated"}
ControlPoints ==
    {"idle", "prompts", "poll", "turn", "inject", "stream", "turnEnd", "followUps",
     "agentEnd", "failing", "settling"} \cup BatchPoints

VARIABLES
    pc,               \* where the loop waits
    aborted,          \* activeRun.abortController.signal.aborted
    steeringQueue, followUpQueue,
    prompts,          \* runAgentLoop: prompts not yet emitted
    pending,          \* runLoop: pendingMessages not yet injected
    skipPoll,         \* createLoopConfig: skipInitialSteeringPoll
    hasMore,          \* runLoop: hasMoreToolCalls
    context,          \* runLoop: currentContext.messages
    messages,         \* Agent.state.messages
    reply,            \* the assistant message of this turn
    batch, at,        \* its tool calls: status by position, and the loop index
    pendingToolCalls, \* Agent.state.pendingToolCalls
    orphans,          \* tool executions that outlived the run that started them
    issued, runs,     \* counters: messages accepted, runs started
    delivered,        \* history: messages in the order of their message_end
    removed,          \* history: ids withdrawn by remove, clear or reset
    disturbances      \* history: "abort", "throw", and "reset" during a run

queueVars == <<steeringQueue, followUpQueue>>
handVars == <<prompts, pending, skipPoll>>
logVars == <<context, messages>>
batchVars == <<reply, batch, at, pendingToolCalls, orphans>>
historyVars == <<delivered, removed, disturbances>>
vars == <<pc, aborted, queueVars, handVars, hasMore, logVars, batchVars, issued, runs, historyVars>>

NoCalls == [i \in 1..MaxCalls |-> "none"]
Running == {i \in 1..MaxCalls : batch[i] = "running"}

Init ==
    /\ pc = "idle" /\ aborted = FALSE
    /\ steeringQueue = <<>> /\ followUpQueue = <<>>
    /\ prompts = <<>> /\ pending = <<>> /\ skipPoll = FALSE /\ hasMore = FALSE
    /\ context = <<>> /\ messages = <<>>
    /\ reply = [turn |-> 0, stop |-> "stop", calls |-> 0]
    /\ batch = NoCalls /\ at = 1
    /\ pendingToolCalls = {} /\ orphans = {}
    /\ issued = 0 /\ runs = 0
    /\ delivered = <<>> /\ removed = {} /\ disturbances = {}

-----------------------------------------------------------------------------
(* Mutant: the drained message is read but not taken out of the queue.     *)
UndrainedPeeks(queue, mode) == IF mode = "all" THEN <<>> ELSE queue

(* PendingMessageQueue.drain: what is taken, and what stays.               *)
Drained(queue, mode) ==
    IF mode = "all" \/ queue = <<>> THEN queue ELSE <<Head(queue)>>
Undrained(queue, mode) ==
    IF mode = "all" \/ queue = <<>> THEN <<>> ELSE Tail(queue)

DrainSteering == steeringQueue' = Undrained(steeringQueue, SteeringMode)
DrainFollowUps == followUpQueue' = Undrained(followUpQueue, FollowUpMode)

(* runPromptMessages and runContinuation up to the first await: the run    *)
(* is registered, and the loop starts from a snapshot of the transcript.   *)
StartRun(taken, skip) ==
    /\ runs < MaxRuns
    /\ runs' = runs + 1
    /\ pc' = "prompts" /\ aborted' = FALSE
    /\ prompts' = taken /\ pending' = <<>> /\ skipPoll' = skip
    /\ context' = messages \o [i \in DOMAIN taken |-> UserEntry(taken[i])]
    /\ UNCHANGED <<hasMore, messages, batchVars, historyVars>>

(* prompt() with a batch of n messages; it throws while a run is active.   *)
Prompt(n) ==
    /\ pc = "idle"
    /\ issued + n <= MaxMessages
    /\ issued' = issued + n
    /\ StartRun([i \in 1..n |-> [id |-> issued + i, lane |-> "prompt"]], FALSE)
    /\ UNCHANGED queueVars

(* continue() after a user message or a tool result.                       *)
ContinueTranscript ==
    /\ pc = "idle"
    /\ messages # <<>> /\ Last(messages).role # "assistant"
    /\ StartRun(<<>>, FALSE)
    /\ UNCHANGED <<queueVars, issued>>

(* continue() after an assistant message: queued steering messages become  *)
(* the prompt of the new run, whose first steering poll is then skipped.   *)
ContinueWithSteering ==
    /\ pc = "idle"
    /\ messages # <<>> /\ Last(messages).role = "assistant"
    /\ steeringQueue # <<>>
    /\ DrainSteering
    /\ StartRun(Drained(steeringQueue, SteeringMode), TRUE)
    /\ UNCHANGED <<followUpQueue, issued>>

(* ... and queued follow-ups when no steering message is queued.           *)
ContinueWithFollowUps ==
    /\ pc = "idle"
    /\ messages # <<>> /\ Last(messages).role = "assistant"
    /\ steeringQueue = <<>> /\ followUpQueue # <<>>
    /\ DrainFollowUps
    /\ StartRun(Drained(followUpQueue, FollowUpMode), FALSE)
    /\ UNCHANGED <<steeringQueue, issued>>

-----------------------------------------------------------------------------
(* The loop.  Emitting message_end runs Agent.processEvents, which pushes  *)
(* the message to the transcript before it awaits the listeners.           *)
EmitPrompt ==
    /\ pc = "prompts" /\ prompts # <<>>
    /\ prompts' = Tail(prompts)
    /\ messages' = Append(messages, UserEntry(Head(prompts)))
    /\ delivered' = Append(delivered, Head(prompts))
    /\ UNCHANGED <<pc, aborted, queueVars, pending, skipPoll, hasMore, context, batchVars,
                   issued, runs, removed, disturbances>>

EnterLoop ==
    /\ pc = "prompts" /\ prompts = <<>>
    /\ pc' = "poll"
    /\ UNCHANGED <<aborted, queueVars, handVars, hasMore, logVars, batchVars, issued, runs,
                   historyVars>>

(* getSteeringMessages before the first turn.                              *)
InitialPoll ==
    /\ pc = "poll"
    /\ pc' = "turn" /\ hasMore' = TRUE /\ skipPoll' = FALSE
    /\ IF skipPoll
       THEN pending' = <<>> /\ UNCHANGED steeringQueue
       ELSE pending' = Drained(steeringQueue, SteeringMode) /\ DrainSteering
    /\ UNCHANGED <<aborted, followUpQueue, prompts, logVars, batchVars, issued, runs,
                   historyVars>>

(* The inner while condition: another turn, or the end of the turns.       *)
BeginTurn ==
    /\ pc = "turn"
    /\ pc' = IF hasMore \/ pending # <<>> THEN "inject" ELSE "followUps"
    /\ UNCHANGED <<aborted, queueVars, handVars, hasMore, logVars, batchVars, issued, runs,
                   historyVars>>

InjectPending ==
    /\ pc = "inject" /\ pending # <<>>
    /\ pending' = Tail(pending)
    /\ messages' = Append(messages, UserEntry(Head(pending)))
    /\ context' = Append(context, UserEntry(Head(pending)))
    /\ delivered' = Append(delivered, Head(pending))
    /\ UNCHANGED <<pc, aborted, queueVars, prompts, skipPoll, hasMore, batchVars, issued, runs,
                   removed, disturbances>>

(* The context is handed to the provider.                                  *)
CallModel ==
    /\ pc = "inject" /\ pending = <<>>
    /\ pc' = "stream"
    /\ UNCHANGED <<aborted, queueVars, handVars, hasMore, logVars, batchVars, issued, runs,
                   historyVars>>

(* What a provider may answer: "aborted" only to an aborted signal, and    *)
(* tool calls only in the first MaxToolTurns turns.  The loop executes     *)
(* calls whatever the stop reason says, unless it is one of failure: "stop" *)
(* and "toolUse" stand for such a message without and with calls.          *)
Replies ==
    {r \in [stop : StopReasons, calls : 0..MaxCalls] :
        /\ r.stop = "stop" => r.calls = 0
        /\ r.stop = "toolUse" => r.calls > 0
        /\ r.stop = "aborted" => aborted
        /\ reply.turn >= MaxToolTurns => r.calls = 0}

AfterReply(r) ==
    CASE r.stop \in {"error", "aborted"} -> {"agentEnd"}
      [] r.stop = "length" /\ r.calls > 0 -> {"truncated"}
      [] r.stop \in {"stop", "length", "toolUse"} /\ r.calls = 0 -> {"turnEnd"}
      [] r.stop = "toolUse" /\ r.calls > 0 ->
           \* a tool of executionMode "sequential" makes its whole batch sequential
           {"seqStart"} \cup (IF ToolExecution = "parallel" THEN {"parStart"} ELSE {})

Respond ==
    /\ pc = "stream"
    /\ \E r \in Replies :
         /\ reply' = [turn |-> reply.turn + 1, stop |-> r.stop, calls |-> r.calls]
         /\ context' = Append(context, AssistantEntry(reply.turn + 1, r.stop, r.calls))
         /\ messages' = Append(messages, AssistantEntry(reply.turn + 1, r.stop, r.calls))
         /\ pc' \in AfterReply(r)
    /\ batch' = NoCalls /\ at' = 1 /\ hasMore' = FALSE
    /\ UNCHANGED <<aborted, queueVars, handVars, pendingToolCalls, orphans, issued, runs,
                   historyVars>>

-----------------------------------------------------------------------------
(* Tool batches.                                                           *)
ThisCall == <<reply.turn, at>>
EmitResult == messages' = Append(messages, ResultEntry(reply.turn, at))

(* The results of the first n calls enter the context, and the turn ends.  *)
CloseBatch(n) ==
    /\ pc' = "turnEnd"
    /\ context' = context \o [i \in 1..n |-> ResultEntry(reply.turn, i)]
    /\ hasMore' = \E i \in 1..n : batch[i] # "terminate"

(* failToolCallsFromTruncatedMessage: each call is reported as failed.     *)
FailTruncated ==
    /\ pc = "truncated" /\ at <= reply.calls
    /\ batch' = [batch EXCEPT ![at] = "failed"]
    /\ EmitResult
    /\ at' = at + 1
    /\ UNCHANGED <<pc, aborted, queueVars, handVars, hasMore, context, reply, pendingToolCalls,
                   orphans, issued, runs, historyVars>>

CloseTruncated ==
    /\ pc = "truncated" /\ at > reply.calls
    /\ CloseBatch(reply.calls)
    /\ UNCHANGED <<aborted, queueVars, handVars, messages, batchVars, issued, runs, historyVars>>

(* Emit tool_execution_start for the next call of a batch.                 *)
StartCall(from, to) ==
    /\ pc = from
    /\ pc' = to
    /\ batch' = [batch EXCEPT ![at] = "preparing"]
    /\ pendingToolCalls' = pendingToolCalls \cup {ThisCall}
    /\ UNCHANGED <<aborted, queueVars, handVars, hasMore, logVars, reply, at, orphans, issued,
                   runs, historyVars>>

(* Mutant: the abort is not looked at again after the hook.                *)
PrepareSequentialBlind ==
    /\ pc = "seqPrepare"
    /\ batch' = [batch EXCEPT ![at] = "running"]
    /\ pc' = "seqExecute"
    /\ UNCHANGED <<aborted, queueVars, handVars, hasMore, logVars, reply, at, pendingToolCalls,
                   orphans, issued, runs, historyVars>>

(* prepareToolCall: unknown tool, invalid arguments, blocked or throwing   *)
(* hook end the call at once; an aborted run lets no call through.         *)
PrepareSequential ==
    /\ pc = "seqPrepare"
    /\ \/ /\ batch' = [batch EXCEPT ![at] = "failed"]
          /\ pc' = "seqNext"
          /\ pendingToolCalls' = pendingToolCalls \ {ThisCall}
          /\ EmitResult
       \/ /\ ~aborted
          /\ batch' = [batch EXCEPT ![at] = "running"]
          /\ pc' = "seqExecute"
          /\ UNCHANGED <<pendingToolCalls, messages>>
    /\ UNCHANGED <<aborted, queueVars, handVars, hasMore, context, reply, at, orphans, issued,
                   runs, historyVars>>

(* The tool returns or throws, afterToolCall has its say, the call ends.   *)
FinishSequential ==
    /\ pc = "seqExecute"
    /\ \E status \in Executed : batch' = [batch EXCEPT ![at] = status]
    /\ pc' = "seqNext"
    /\ pendingToolCalls' = pendingToolCalls \ {ThisCall}
    /\ EmitResult
    /\ UNCHANGED <<aborted, queueVars, handVars, hasMore, context, reply, at, orphans, issued,
                   runs, historyVars>>

(* An aborted run leaves the rest of the batch unstarted and unanswered.   *)
NextSequential ==
    /\ pc = "seqNext"
    /\ IF aborted \/ at = reply.calls
       THEN CloseBatch(at) /\ UNCHANGED at
       ELSE pc' = "seqStart" /\ at' = at + 1 /\ UNCHANGED <<context, hasMore>>
    /\ UNCHANGED <<aborted, queueVars, handVars, messages, reply, batch, pendingToolCalls,
                   orphans, issued, runs, historyVars>>

PrepareParallel ==
    /\ pc = "parPrepare"
    /\ \/ /\ batch' = [batch EXCEPT ![at] = "failed"]
          /\ pendingToolCalls' = pendingToolCalls \ {ThisCall}
       \/ /\ ~aborted
          /\ batch' = [batch EXCEPT ![at] = "prepared"]
          /\ UNCHANGED pendingToolCalls
    /\ pc' = "parNext"
    /\ UNCHANGED <<aborted, queueVars, handVars, hasMore, logVars, reply, at, orphans, issued,
                   runs, historyVars>>

(* Promise.all starts every prepared call, an aborted run's ones included. *)
NextParallel ==
    /\ pc = "parNext"
    /\ IF aborted \/ at = reply.calls
       THEN /\ pc' = "parRun"
            /\ batch' = [i \in 1..MaxCalls |->
                            IF batch[i] = "prepared" THEN "running" ELSE batch[i]]
            /\ UNCHANGED at
       ELSE pc' = "parStart" /\ at' = at + 1 /\ UNCHANGED batch
    /\ UNCHANGED <<aborted, queueVars, handVars, hasMore, logVars, reply, pendingToolCalls,
                   orphans, issued, runs, historyVars>>

(* Mutant: results enter the transcript in completion order.               *)
FinishParallelEmits(i) ==
    /\ pc = "parRun" /\ batch[i] = "running"
    /\ \E status \in Executed : batch' = [batch EXCEPT ![i] = status]
    /\ pendingToolCalls' = pendingToolCalls \ {<<reply.turn, i>>}
    /\ messages' = Append(messages, ResultEntry(reply.turn, i))
    /\ UNCHANGED <<pc, aborted, queueVars, handVars, hasMore, context, reply, at, orphans,
                   issued, runs, historyVars>>
FinishParallel(i) ==
    /\ pc = "parRun" /\ batch[i] = "running"
    /\ \E status \in Executed : batch' = [batch EXCEPT ![i] = status]
    /\ pendingToolCalls' = pendingToolCalls \ {<<reply.turn, i>>}
    /\ UNCHANGED <<pc, aborted, queueVars, handVars, hasMore, logVars, reply, at, orphans,
                   issued, runs, historyVars>>

(* Mutants: the batch goes on when its first tool has ended; or it waits   *)
(* for the execution of calls that failed before they were executed.       *)
CollectParallelRaces ==
    /\ pc = "parRun" /\ \E i \in 1..MaxCalls : batch[i] \in Executed
    /\ pc' = "parResult" /\ at' = 1
    /\ UNCHANGED <<aborted, queueVars, handVars, hasMore, logVars, reply, batch,
                   pendingToolCalls, orphans, issued, runs, historyVars>>

CollectParallelWaitsForAll ==
    /\ pc = "parRun" /\ \A i \in 1..reply.calls : batch[i] \in Executed
    /\ pc' = "parResult" /\ at' = 1
    /\ UNCHANGED <<aborted, queueVars, handVars, hasMore, logVars, reply, batch,
                   pendingToolCalls, orphans, issued, runs, historyVars>>

CollectParallel ==
    /\ pc = "parRun" /\ Running = {}
    /\ pc' = "parResult" /\ at' = 1
    /\ UNCHANGED <<aborted, queueVars, handVars, hasMore, logVars, reply, batch,
                   pendingToolCalls, orphans, issued, runs, historyVars>>

(* Results are emitted in the order of the calls, not of their completion. *)
Answerable == at <= reply.calls /\ batch[at] # "none"

EmitParallelResult ==
    /\ pc = "parResult" /\ Answerable
    /\ EmitResult
    /\ at' = at + 1
    /\ UNCHANGED <<pc, aborted, queueVars, handVars, hasMore, context, reply, batch,
                   pendingToolCalls, orphans, issued, runs, historyVars>>

CloseParallel ==
    /\ pc = "parResult" /\ ~Answerable
    /\ CloseBatch(at - 1)
    /\ UNCHANGED <<aborted, queueVars, handVars, messages, batchVars, issued, runs, historyVars>>

-----------------------------------------------------------------------------
(* After turn_end and prepareNextTurn the loop polls for steering.         *)
PollSteering ==
    /\ pc = "turnEnd"
    /\ pc' = "turn"
    /\ pending' = Drained(steeringQueue, SteeringMode)
    /\ DrainSteering
    /\ UNCHANGED <<aborted, followUpQueue, prompts, skipPoll, hasMore, logVars, batchVars,
                   issued, runs, historyVars>>

PollFollowUps ==
    /\ pc = "followUps"
    /\ pending' = Drained(followUpQueue, FollowUpMode)
    /\ DrainFollowUps
    /\ IF followUpQueue # <<>>
       THEN pc' = "turn" /\ hasMore' = TRUE
       ELSE pc' = "agentEnd" /\ UNCHANGED hasMore
    /\ UNCHANGED <<aborted, steeringQueue, prompts, skipPoll, logVars, batchVars, issued, runs,
                   historyVars>>

(* finishRun, once the listeners of agent_end have settled.                *)
FinishRun ==
    /\ pc \in {"agentEnd", "settling"}
    /\ pc' = "idle" /\ aborted' = FALSE
    /\ context' = <<>> /\ hasMore' = FALSE
    /\ pendingToolCalls' = {}
    /\ UNCHANGED <<queueVars, handVars, messages, reply, batch, at, orphans, issued, runs,
                   historyVars>>

(* A listener, the provider or prepareNextTurn throws out of the loop.     *)
(* What the loop holds in its local variables is gone; a parallel batch is *)
(* left by the first call that rejects, and the others keep executing.     *)
CanThrow ==
    \/ pc \in ControlPoints \
         {"idle", "poll", "turn", "followUps", "failing", "settling", "parRun"}
    \/ pc = "parRun" /\ \E i \in 1..MaxCalls : batch[i] \in Executed

RunThrows ==
    /\ CanThrow
    /\ pc' = "failing"
    /\ prompts' = <<>> /\ pending' = <<>> /\ skipPoll' = FALSE
    /\ orphans' = orphans \cup
         (IF pc = "parRun" THEN {<<reply.turn, i>> : i \in Running} ELSE {})
    /\ batch' = NoCalls
    /\ disturbances' = disturbances \cup {"throw"}
    /\ UNCHANGED <<aborted, queueVars, hasMore, logVars, reply, at, pendingToolCalls, issued,
                   runs, delivered, removed>>

(* handleRunFailure: a synthetic assistant message closes the run, unless  *)
(* a listener throws again before it is pushed.                            *)
HandleRunFailure ==
    /\ pc = "failing"
    /\ pc' = "settling"
    /\ \/ messages' = Append(messages,
              AssistantEntry(0, IF aborted THEN "aborted" ELSE "error", 0))
       \/ UNCHANGED messages
    /\ UNCHANGED <<aborted, queueVars, handVars, hasMore, context, batchVars, issued, runs,
                   historyVars>>

(* A tool that outlived its run ends: processEvents still takes it off     *)
(* pendingToolCalls before it finds no active run and throws.              *)
OrphanEnds(call) ==
    /\ call \in orphans
    /\ orphans' = orphans \ {call}
    /\ pendingToolCalls' = pendingToolCalls \ {call}
    /\ UNCHANGED <<pc, aborted, queueVars, handVars, hasMore, logVars, reply, batch, at, issued,
                   runs, historyVars>>

-----------------------------------------------------------------------------
(* Callers, at any await of the loop or while it is idle.                  *)
Steer ==
    /\ issued < MaxMessages
    /\ issued' = issued + 1
    /\ steeringQueue' = Append(steeringQueue, [id |-> issued + 1, lane |-> "steer"])
    /\ UNCHANGED <<pc, aborted, followUpQueue, handVars, hasMore, logVars, batchVars, runs,
                   historyVars>>

FollowUp ==
    /\ issued < MaxMessages
    /\ issued' = issued + 1
    /\ followUpQueue' = Append(followUpQueue, [id |-> issued + 1, lane |-> "followUp"])
    /\ UNCHANGED <<pc, aborted, steeringQueue, handVars, hasMore, logVars, batchVars, runs,
                   historyVars>>

Ids(queue) == {queue[i].id : i \in DOMAIN queue}

(* clearSteeringQueue, clearFollowUpQueue; clearAllQueues is both.         *)
ClearSteering ==
    /\ steeringQueue # <<>>
    /\ steeringQueue' = <<>>
    /\ removed' = removed \cup Ids(steeringQueue)
    /\ UNCHANGED <<pc, aborted, followUpQueue, handVars, hasMore, logVars, batchVars, issued,
                   runs, delivered, disturbances>>

ClearFollowUps ==
    /\ followUpQueue # <<>>
    /\ followUpQueue' = <<>>
    /\ removed' = removed \cup Ids(followUpQueue)
    /\ UNCHANGED <<pc, aborted, steeringQueue, handVars, hasMore, logVars, batchVars, issued,
                   runs, delivered, disturbances>>

(* Mutant: the neighbour of the message to remove leaves the queue.        *)
RemoveSteeringNext(i) ==
    /\ i \in DOMAIN steeringQueue
    /\ steeringQueue' = RemoveAt(steeringQueue, IF i < Len(steeringQueue) THEN i + 1 ELSE 1)
    /\ removed' = removed \cup {steeringQueue[i].id}
    /\ UNCHANGED <<pc, aborted, followUpQueue, handVars, hasMore, logVars, batchVars, issued,
                   runs, delivered, disturbances>>

(* removeQueuedMessage: one message leaves the queue it waits in.          *)
RemoveSteering(i) ==
    /\ i \in DOMAIN steeringQueue
    /\ steeringQueue' = RemoveAt(steeringQueue, i)
    /\ removed' = removed \cup {steeringQueue[i].id}
    /\ UNCHANGED <<pc, aborted, followUpQueue, handVars, hasMore, logVars, batchVars, issued,
                   runs, delivered, disturbances>>

RemoveFollowUp(i) ==
    /\ i \in DOMAIN followUpQueue
    /\ followUpQueue' = RemoveAt(followUpQueue, i)
    /\ removed' = removed \cup {followUpQueue[i].id}
    /\ UNCHANGED <<pc, aborted, steeringQueue, handVars, hasMore, logVars, batchVars, issued,
                   runs, delivered, disturbances>>

Abort ==
    /\ pc # "idle" /\ ~aborted
    /\ aborted' = TRUE
    /\ disturbances' = disturbances \cup {"abort"}
    /\ UNCHANGED <<pc, queueVars, handVars, hasMore, logVars, batchVars, issued, runs, delivered,
                   removed>>

(* reset() clears the agent's state, and leaves an active run running.     *)
Reset ==
    /\ messages # <<>> \/ steeringQueue # <<>> \/ followUpQueue # <<>> \/ pendingToolCalls # {}
    /\ messages' = <<>> /\ pendingToolCalls' = {}
    /\ steeringQueue' = <<>> /\ followUpQueue' = <<>>
    /\ removed' = removed \cup Ids(steeringQueue) \cup Ids(followUpQueue)
    /\ disturbances' = disturbances \cup (IF pc = "idle" THEN {} ELSE {"reset"})
    /\ UNCHANGED <<pc, aborted, handVars, hasMore, context, reply, batch, at, orphans, issued,
                   runs, delivered>>

-----------------------------------------------------------------------------
Start ==
    \/ \E n \in 1..MaxMessages : Prompt(n)
    \/ ContinueTranscript \/ ContinueWithSteering \/ ContinueWithFollowUps

Loop ==
    \/ EmitPrompt \/ EnterLoop \/ InitialPoll \/ BeginTurn \/ InjectPending \/ CallModel
    \/ PollSteering \/ PollFollowUps \/ FinishRun \/ HandleRunFailure

Tools ==
    \/ FailTruncated \/ CloseTruncated
    \/ StartCall("seqStart", "seqPrepare") \/ PrepareSequential \/ FinishSequential
    \/ NextSequential
    \/ StartCall("parStart", "parPrepare") \/ PrepareParallel \/ NextParallel
    \/ (\E i \in 1..MaxCalls : FinishParallel(i))
    \/ CollectParallel \/ EmitParallelResult \/ CloseParallel

Orphan == \E call \in orphans : OrphanEnds(call)

Callers ==
    \/ Steer \/ FollowUp \/ ClearSteering \/ ClearFollowUps
    \/ (\E i \in DOMAIN steeringQueue : RemoveSteering(i))
    \/ (\E i \in DOMAIN followUpQueue : RemoveFollowUp(i))
    \/ Abort \/ Reset

Next == Start \/ Loop \/ Respond \/ Tools \/ RunThrows \/ Orphan \/ Callers

Spec == Init /\ [][Next]_vars

(* The loop, the provider and the tools all come to an answer; callers and *)
(* throwing listeners owe nothing.                                         *)
FairSpec == Spec /\ WF_vars(Loop \/ Respond \/ Tools)

-----------------------------------------------------------------------------
(* Every variable stays within its type.                                   *)
PointType == pc \in ControlPoints
FlagType == aborted \in BOOLEAN /\ skipPoll \in BOOLEAN /\ hasMore \in BOOLEAN
MessageType ==
    /\ steeringQueue \in Seq(Message) /\ followUpQueue \in Seq(Message)
    /\ prompts \in Seq(Message) /\ pending \in Seq(Message)
    /\ delivered \in Seq(Message)
LogType == context \in Seq(Entry) /\ messages \in Seq(Entry)
BatchType ==
    /\ reply \in [turn : Nat, stop : StopReasons, calls : 0..MaxCalls]
    /\ batch \in [1..MaxCalls -> CallStatus]
    /\ at \in 1..(MaxCalls + 1)
    /\ pendingToolCalls \in SUBSET Call /\ orphans \in SUBSET Call
CountType ==
    /\ issued \in 0..MaxMessages /\ runs \in 0..MaxRuns
    /\ removed \in SUBSET (Nat \ {0})
    /\ disturbances \in SUBSET {"abort", "throw", "reset"}

TypeOK == PointType /\ FlagType /\ MessageType /\ LogType /\ BatchType /\ CountType

(* The cursor of a batch stays on one of its calls (inductive, for TypeOK). *)
CursorInv ==
    pc \in {"seqStart", "seqPrepare", "seqExecute", "seqNext", "parStart", "parPrepare", "parNext"}
        => at <= reply.calls

InOrder(s) ==
    \A i, j \in DOMAIN s : i < j /\ s[i].lane = s[j].lane => s[i].id < s[j].id

(* Messages of one lane reach the transcript in the order they were handed *)
(* over, each at most once: queues are drained one by one or at once, at   *)
(* three points of the loop and by continue(), while messages are added,   *)
(* removed and lost to throwing listeners (PendingMessageQueue, runLoop).  *)
DeliveredInOrder == InOrder(delivered)

(* A message the caller took back (removeQueuedMessage, clear, reset) is   *)
(* never sent as well: it is not delivered, queued or in the loop's hands. *)
InFlight == Ids(prompts) \cup Ids(pending)
Queued == Ids(steeringQueue) \cup Ids(followUpQueue)
WithdrawnStaysOut == removed \cap (Ids(delivered) \cup InFlight \cup Queued) = {}

(* While no run has thrown, every message is delivered, withdrawn, queued  *)
(* or in the loop's hands: no path through the polls forgets one.          *)
NothingForgotten ==
    "throw" \notin disturbances =>
        1..issued = Ids(delivered) \cup removed \cup InFlight \cup Queued

(* The user's messages: delivered in order and once, never after they were *)
(* withdrawn, and none forgotten.                                          *)
MessagesKept == DeliveredInOrder /\ WithdrawnStaysOut /\ NothingForgotten

-----------------------------------------------------------------------------
(* The inductive invariant behind DeliveredInOrder, WithdrawnStaysOut and  *)
(* NothingForgotten.  A message is in one place at a time; within a lane,  *)
(* what was delivered came before what the loop holds, and that before     *)
(* what is queued; and the loop holds messages only at the points where it *)
(* is about to emit them.                                                  *)
Elems(s) == {s[i] : i \in DOMAIN s}
Increasing(s) == \A i, j \in DOMAIN s : i < j => s[i].id < s[j].id
Before(s, t) == \A a \in Elems(s), b \in Elems(t) : a.lane = b.lane => a.id < b.id

LineInv ==
    /\ Increasing(prompts) /\ Increasing(pending)
    /\ Increasing(steeringQueue) /\ Increasing(followUpQueue)
    /\ \A m \in Elems(steeringQueue) : m.lane = "steer"
    /\ \A m \in Elems(followUpQueue) : m.lane = "followUp"
    /\ prompts # <<>> => pc = "prompts"
    /\ pending # <<>> => pc \in {"turn", "inject"}

OrderInv ==
    /\ InOrder(delivered)
    /\ Before(delivered, prompts) /\ Before(delivered, pending)
    /\ Before(delivered, steeringQueue) /\ Before(delivered, followUpQueue)
    /\ Before(prompts, steeringQueue) /\ Before(prompts, followUpQueue)
    /\ Before(pending, steeringQueue) /\ Before(pending, followUpQueue)

PlaceInv ==
    /\ removed \cup Ids(delivered) \cup InFlight \cup Queued \subseteq 1..issued
    /\ Ids(delivered) \cap (InFlight \cup Queued) = {}
    /\ InFlight \cap Queued = {}
    /\ Ids(steeringQueue) \cap Ids(followUpQueue) = {}
    /\ WithdrawnStaysOut

MessageInv == LineInv /\ OrderInv /\ PlaceInv /\ NothingForgotten

-----------------------------------------------------------------------------
(* The loop keeps its own copy of the conversation.  Whenever it calls the *)
(* model, that copy is the transcript, unless reset() cut the transcript   *)
(* away from under the run.                                                *)
ContextIsTranscript ==
    pc = "stream" /\ "reset" \notin disturbances => context = messages

(* In the transcript a tool result directly follows the call before it in  *)
(* its message, or the message itself: completion order, injected messages *)
(* and failures never come between.                                        *)
AnswersFollowCalls ==
    "reset" \notin disturbances =>
        \A p \in DOMAIN messages :
            messages[p].role = "toolResult" =>
                /\ p > 1
                /\ IF messages[p].call = 1
                   THEN /\ messages[p - 1].role = "assistant"
                        /\ messages[p - 1].turn = messages[p].turn
                   ELSE messages[p - 1] = ResultEntry(messages[p].turn, messages[p].call - 1)

(* The model is never called with an unanswered tool call in its context,  *)
(* unless some run was aborted, threw or was reset.                        *)
CallsAnsweredBeforeModel ==
    pc = "stream" /\ disturbances = {} =>
        \A p \in DOMAIN context :
            context[p].role = "assistant" /\ context[p].stop \in {"toolUse", "length"} =>
                \A c \in 1..context[p].calls :
                    /\ p + c \in DOMAIN context
                    /\ context[p + c] = ResultEntry(context[p].turn, c)

(* No tool executes outside the batch that started it; one that does was   *)
(* left behind by a throw (executeToolCallsParallel, Promise.all).         *)
NoToolOutlivesItsBatch ==
    /\ pc \notin {"seqExecute", "parRun"} => Running = {}
    /\ orphans # {} => "throw" \in disturbances

(* pendingToolCalls, which clients display, is the set of calls that have  *)
(* started and not ended; it is empty whenever the agent is idle.          *)
PendingCallsExact ==
    pc \notin {"failing", "settling"} /\ "reset" \notin disturbances =>
        pendingToolCalls = {<<reply.turn, i>> :
            i \in {j \in 1..MaxCalls : batch[j] \in {"preparing", "prepared", "running"}}}

(* The calls of a truncated, failed or aborted message are never executed. *)
UnsafeCallsNotExecuted ==
    reply.stop \in {"length", "error", "aborted"} =>
        \A i \in 1..MaxCalls : batch[i] \notin Executed \cup {"running"}

(* What the model is shown and what is kept of it (createLoopEmit,         *)
(* executeToolCalls): one transcript, every call in it answered, and every *)
(* answer in its place.                                                    *)
TranscriptSound ==
    TypeOK /\ ContextIsTranscript /\ AnswersFollowCalls /\ CallsAnsweredBeforeModel

(* What is executed: nothing outside a batch, nothing unknown to clients,  *)
(* and nothing of a message that was cut short.                            *)
BatchesSound == NoToolOutlivesItsBatch /\ PendingCallsExact /\ UnsafeCallsNotExecuted

(* An aborted run starts no tool but those a parallel batch had prepared.  *)
NoLaunchAfterAbort ==
    [][aborted => \A i \in 1..MaxCalls :
           batch'[i] = "running" => batch[i] \in {"prepared", "running"}]_vars

(* A run that starts ends: tools, polls and follow-ups cannot keep it.     *)
RunEnds == pc # "idle" ~> pc = "idle"
=============================================================================
