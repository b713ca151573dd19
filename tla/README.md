# TLA+ models of mypi-cli

This directory models the parts of mypi-cli whose correctness depends on the
order in which things happen: the agent loop, the session that drives it, the
hooks, goals and child agents that start runs of that session, the tree and the file it is
kept in, what is left of it when it is compacted, the files that say who may write it, the queue its tools change
files through, the daemon that hosts sessions for several clients, the way that
daemon is found, and the surface that shows a session it does not run. TLC
checks each model on small instances; for the agent loop, the session, hooks, goals, the file
mutation queue, the ownership of sessions, the daemon, its startup and the questions of
hosted sessions TLAPS proves the central invariants for all values of the parameters.

Paths such as `agent-loop.ts` are short for:

| short | path |
| --- | --- |
| `agent.ts`, `agent-loop.ts` | `packages/agent/src/` |
| `agent-session.ts`, `session-manager.ts` | `packages/runtime/src/core/` |
| `compaction.ts` | `packages/runtime/src/core/compaction/` |
| `file-mutation-queue.ts`, `write.ts`, `edit.ts` | `packages/runtime/src/core/tools/` |
| `hosted-session.ts`, `daemon-client.ts`, `hosted-runtime-host.ts` | `packages/runtime/src/core/hosted/` |
| `hooks.ts`, `subagents.ts`, `plan-goal.ts`, `goal-state.ts` | `packages/runtime/src/product/` |
| `ownership.ts` | `packages/runtime/src/product/gui-control/` |
| `rpc-mode.ts` | `packages/runtime/src/modes/rpc/` |
| `mypi-daemon.mjs`, `mypi-daemon-discovery.mjs` | `scripts/` |

To check a run: `tlc -config AgentLoop.cfg MCAgentLoop` (section 3 names the module
of each run; it is the one the `.cfg` is named after unless said otherwise). To
check the proofs: `tlapm` on each module whose name ends in `Proofs`. `PROJECT.json` maps
every definition to the lines it models, and lists what is hard to test in this
code with the properties that cover it.

## 1. The system

A user types into a surface (terminal UI, GUI, RPC client). The surface sends
commands to a daemon, which runs one engine process per session (`mypi --mode
rpc`). In the engine an `AgentSession` owns an `Agent`; the agent calls the
model, runs the tools the model asks for, and loops. Hooks, goal mode and
subagents are extensions of the session: they add tools to its runs, listen to
its settlements, and start further runs.

```
 surfaces --frames--> daemon --stdin/stdout--> engine: rpc-mode
 (hosted session)        |                       AgentSession <-- hooks, goal mode, subagents
   discovery, startup ---+                         |    |              |
   handoff of ownership -+--> lock, lease <--------+    |              +--> child processes
                                                        Agent / runLoop --> model, tools
                                     session file <-- session manager         |
                                     workspace files <-- file mutation queue -+
```

| component | state it keeps | operations | what is hard |
| --- | --- | --- | --- |
| Agent and its loop (`agent.ts`, `agent-loop.ts`) | transcript, steering and follow-up queues, the active run and its abort signal, pending tool calls | prompt, continue, steer, followUp, clear, remove, abort, reset; turns, tool batches, polls | callers act at every await; parallel tools; listeners that throw; two copies of the transcript |
| AgentSession (`agent-session.ts`) | `_isAgentRunActive`, outcome, retry attempt, compaction flags, its own list of queued messages, pending continuations, idle promise | prompt, sendCustomMessage, queueing, abort, compact; after each run: retry, overflow recovery, compaction, continuation, settlement | flags read several awaits before they are set; a settlement that starts the next run; abort during a step that is not a run |
| hooks (`hooks.ts`) | wakeup, watches, held firings | schedule, cancel, fire, flush at settlement | firing while the session changes between idle and running |
| plan and goal mode (`plan-goal.ts`, `goal-state.ts`) | workflow, goal with its budget and counters, plan, refusals, tools taken away | planning, plan tools, grants, audit at settlements, user commands, restart | many counters over many runs; a settlement that must either stop the goal or start the next run |
| subagents (`subagents.ts`) | active grants, two queues, delivery queue, projections, strikes, the store | admit, schedule, cancel, settle, deliver, project, confirm, interrupt, recover | a result in memory, in the store, in a message and in the transcript; readers beside writers |
| session manager (`session-manager.ts`) | tree of entries, leaf, file | append, branch, fork, materialize, open | failed and broken writes; recovery from a file cut short |
| compaction (`compaction.ts`, callers in `agent-session.ts`) | a compaction entry: what it keeps from, the user's messages it carries on, its summary | prepare, await the summary, append; build the context | the tree changes under the summary; each compaction builds on the one before |
| session ownership (`ownership.ts`, handoff in `mypi-daemon.mjs`) | lock, lease, the daemon's record of a foreign owner | acquire, refresh, release, reclaim, negotiate, signal | crashes and suspensions between two files |
| file mutation queue (`file-mutation-queue.ts`) | a promise chain for registrations and one per path | withFileMutationQueue | registration across awaits; aborts |
| daemon (`mypi-daemon.mjs`) | per session: clients, pending requests, turnActive, preparing, release, timers; draining | attach, detach, routed commands, prepare, release, delete, archive, restart; frames and exits of engines | its picture of an engine is a pipe behind; engines crash; timers race answers |
| discovery and startup (`mypi-daemon-discovery.mjs`, ends of `mypi-daemon.mjs`) | lock, sidecar and socket files | readLiveDaemon, acquireStartupLock, bind, announce, release, shutdown | several processes, each file operation separate, any of them killed |
| hosted session (`core/hosted/`) | client-side mirror of an engine, open dialogs | attach, seed, bind, reseed, frames, answers | responses resolved behind later frames; questions asked before anyone can show them |
| rpc mode (`rpc-mode.ts`) | subscription to one session | command to answer and events | an answer and a settlement are different frames |

Not modelled, with the reason for each: the text of summaries (data, and a
prompt), extensions in general (arbitrary code; the models let them do at each
await what their API allows), code mode (an isolate from a library), MCP
(connections to external servers), safety and sandboxing (decisions on command
text, operating-system facilities), the tracker (snapshots and diffs of files),
the terminal UI, print mode and the command line, model providers and their
catalogs, the agent harness (an alternative to AgentSession that the program does
not use), the proxy and the installer. `PROJECT.json` lists them all.

What is modelled is the part of the program in which several actors share
state. By far the larger part of the repository is of the other kind: rendering
and input handling, provider adapters and generated catalogs, package and
settings management, exports. It has no states to interleave, and a model of it
would restate it.

## 2. Modules

| module | role |
| --- | --- |
| `AgentLoop` | the agent and its loop, one action per piece of code between two awaits |
| `MessageLanes` | abstract: what the agent promises about messages |
| `MCAgentLoop` | the refinement mapping, and the instance TLC checks |
| `AgentLoopProofs` | theorems about `AgentLoop`: types; messages and the refinement of `MessageLanes`; tool calls and the transcript |
| `AgentSession` | the session over an abstraction of the agent |
| `AgentHooks`, `AgentHooksProofs` | hooks over an abstraction of the session; theorems about them |
| `GoalMode` | goal mode over runs of the session |
| `Subagents` | children and their results, over runs of the parent |
| `ProductProofs` | theorems about `GoalMode` and about `Subagents`, whose specification has names of its own (`SubagentsSpec`) so that one module can extend both |
| `SessionFile` | the session tree and its file |
| `SessionLease` | lock, lease and handoff |
| `SessionProofs` | theorems about `SessionLease` and about `SessionFile`, whose specification has names of its own (`FileSpec`) so that one module can extend both |
| `Compaction` | the session tree and what the model is given of it |
| `AgentSessionProofs` | theorems about `AgentSession` and about `Compaction`, whose specification has names of its own (`CompactionSpec`) so that one module can extend both |
| `FileMutationQueue`, `MCFileMutationQueue`, `FileMutationQueueProofs` | the queue with the tools that go through it; its instance; theorems about it |
| `DaemonSession` | daemon, clients and engines, with the pipes between them |
| `DaemonStartup` | lock, sidecar and socket |
| `DaemonProofs` | theorems about `DaemonSession` and about `DaemonStartup`, whose specification has names of its own (`StartupSpec`) so that one module can extend both |
| `HostedSession`, `HostedSessionProofs` | daemon and surface, with the frames between them; theorems about them |

Each module that sits on another part of the system has an abstraction of that
part in it, which allows at least what the part does: `AgentSession` has the agent
as one active run and two queues, `AgentHooks`, `GoalMode` and `Subagents` have the
session as runs that start and settle, `DaemonSession` and `HostedSession` have the
engine as turns. The fairness they assume of it (a run ends, a run settles) is
what `RunEnds` and `RunsSettle` show of the detailed models.

Some definitions are followed or preceded by a variant marked `Mutant:`. Each is
a mistake one could make in that code; nothing refers to it, and substituting it
for the definition makes the property it is listed with in `PROJECT.json` fail.
They show that the properties depend on the code.

### AgentLoop

JavaScript runs one thread, so the code between two awaits is atomic. `pc` names
the await at which `runLoop` is suspended; every action takes it from one await
to the next. Callers (`Steer`, `Abort`, `Reset`, ...) may act at each of them,
and a listener, hook or provider may throw (`RunThrows`), after which
`HandleRunFailure` appends the failure message.

| code | definitions |
| --- | --- |
| `PendingMessageQueue` | `Drained`, `Undrained`, `RemoveSteering`, `ClearSteering`, ... |
| `prompt`, `continue`, `runWithLifecycle` | `Prompt`, `ContinueTranscript`, `ContinueWithSteering`, `ContinueWithFollowUps`, `StartRun` |
| `runLoop` | `InitialPoll`, `BeginTurn`, `InjectPending`, `CallModel`, `Respond`, `CloseBatch`, `PollSteering`, `PollFollowUps` |
| `executeToolCallsSequential` | `StartCall`, `PrepareSequential`, `FinishSequential`, `NextSequential` |
| `executeToolCallsParallel` | `StartCall`, `PrepareParallel`, `NextParallel`, `FinishParallel`, `CollectParallel`, `EmitParallelResult`, `CloseParallel` |
| `failToolCallsFromTruncatedMessage` | `FailTruncated`, `CloseTruncated` |
| tools still running after a throw | `orphans`, `OrphanEnds` |

Text, models and usage are left out; a message is its serial number and the call
it came by, a reply is its stop reason and number of tool calls ("toolUse" is any reply with
calls that neither failed nor was cut short, as the loop asks for the calls and not for that
reason). Also left out:
`streamingMessage`, `errorMessage`, partial tool results, `updateQueuedMessage`,
`shouldStopAfterTurn`, replacement of the context by `prepareNextTurn`, and
`executeSingleToolCall`. `delivered`, `removed` and `disturbances` are history.

`MessageLanes` says what is promised about messages without any loop: a
message is accepted, may be withdrawn while it waits, and is delivered in the
order of its lane or lost. What waits is a set there: the order is that of the ids,
which count acceptances. `MCAgentLoop` maps the queues and the messages in the
loop's hands onto that set, so that moving a message from a queue into the loop is a
stutter, and a message that a poll drops, doubles or overtakes is not.

### AgentSession

A *driver* is one call of `_runAgentPrompt` together with the `prompt()` or
`sendCustomMessage()` before it. Nothing but `_isAgentRunActive` keeps drivers
apart, so there may be several. The agent is reduced to one active run
(`owner`, `phase`), its queues, at most one message taken from them, and the
assistant messages at the end of its transcript, which decide whether
`agent.continue()` is legal. `_handlePostAgentRun` becomes `PostSettles`,
`PostRetries`, `PostRecovers`, `PostCompacts`, `PostConcludes`; `_prepareRetry`'s
sleep `RetryWakes`, `RetryCancelled`; `_runAutoCompaction`'s ends
`CompactionRetries`, `CompactionContinues`, `CompactionConcludes`,
`CompactionStops`; `_emitAgentSettled` is `Settle` and `FinishSettle`.

Points "post" and "refused" are left in the same turn of the event loop in which
they are reached; `Quiet` keeps callers out until then. A queued message is taken off the
session's list by its id when it starts (`TakesOff`); a prompt has none, and takes off any one of
the list, whose text it may share (`TakesOffByText`; `mistaken` is the history of these). Replies
may fail and tools may be called without end; of the assistant messages that end the
transcript, which grow with every failure, `fileTail` keeps the newest `MaxTail`, and of `tail`
only the number is needed, up to `MaxTail`. `ended` says how the agent's last run ended until
something disturbs it ("overlap", "deaf" and "illegal" of section 4), and stays then as it is.
Assumed: the loop takes one message at a time; one manual
compaction at a time. Left out: structured output, bash messages, messages for
the next turn, arbitration among several continuations (`wanted` is whether one
is pending), dispose.

### AgentHooks

| code | definitions |
| --- | --- |
| the tools `schedule_wakeup` and `watch_files`, with their cancellations | `ScheduleWakeup`, `CancelWakeup`, `WatchFile`, `CancelWatch` |
| timer, `fs.watch` listener, debounce, watcher error | `WakeupFires`, `FileChanges`, `WatchFires`, `WatchFails` |
| `deliverFiring`, `flushPendingFirings`, the `agent_settled` handler | `DeliverFiring`, `Flush`, `AgentSettled` |
| `sendMessage`, `_runAgentPrompt`, `_emitAgentSettled` and `clearQueue` of the session, as hooks meet them | `Send`, `Dispatch`, `Settles`, `RunStarts`, `RunEnds`, `SettlementEmitted`, `ClearQueue` |

The session has one flag for a run that is active and one for a settlement that is
emitted, and each call of `_runAgentPrompt` (a member of `Drivers`) sets and clears both,
whatever the other calls do. `stage` is where a call is: its run, or its settlement before or after
the hooks' own handler. While a settlement is emitted the session counts as idle, but messages that start
runs are collected as continuations. Each message from a hook is a continuation with an arbitration group of its own
(`extension:<order>`), so all of them win and keep their order: `continuations` is a list, and
`_takeSessionContinuations` takes the whole of it. A prompt may start a run in that window, and then the agent refuses the collected
continuations: they are gone (`dropped`), and their call settles at once with an error, which calls
the hooks' handler again and clears the flags of the run that goes on. What that handler and the
next timers send meets a session that seems idle, is refused too, and settles once more. The text of a
firing, the limits on delays and the user's hook commands (`mypi-hooks.ts`) are left
out.

### GoalMode

| code | definitions |
| --- | --- |
| `create_goal`, `set_goal_plan`, `update_goal_plan`, `update_goal` | `CreateGoal`, `SetPlan`, `UpdatePlan`, `AskComplete`, `AskBlocked`; their refusals `Reject`, `RejectUpdate` |
| guard of the plan file | `ViolatePlan`, `Violates` |
| `createActiveGoalState`, `resumeGoal`, `goalTurnBudget` | `Grant`, `Budget` |
| `turn_end` | `TurnEnd` |
| `agent_settled`, `auditSettledBlockers` | `Settle`, `SettleGoal`, `SettlePlanning`, `Audited` |
| the `/plan` and `/goal` commands | `Plan`, `Ask`, `Answer`, `Continue`, `PauseGoal`, `ResumePlanning`, `AbortGoal` |
| `session_start`, `isValidStoredGoalState` | `Restart`, `Valid` |

A plan is counted and not listed: how many items it has, how many are checked,
whether they have evidence and which blocker the open ones name. Children and
their results are one flag, `deps`. What is stored is the goal itself, since every
change is saved. A text (the objective, supplemental
instructions, the joined blockers) is its fate in `isValidStoredGoalState`: `unfit` says that the
objective or the instructions are beyond what is read back, and `Oversized` which blockers
are. `Overlaps` is FALSE in the run: with it an objective can be
entered while another planning runs, whose effects on the tools are listed in
section 4 and which the properties exclude. Left out: reports, prompts, clock and
token counts, states of older versions, the switch of branches in the
session tree, and the texts a provider sends (the `retry-after` header, which is stored too, is taken
to be neither blank nor longer than the 512 characters that are read).

### Subagents

| code | definitions |
| --- | --- |
| `startJobs`, `schedule` | `Call`, `AdmitJob`, `Schedule` |
| `run`, `finishBeforeStart`, the end of a child | `Prepared`, `Finish`, `Ends`, `Leaves` |
| `cancelRunning` | `Cancel`, `CancelLands`, `Cancels` |
| `scheduleDelivery`, `flushDelivery` | `TimerFires`, `Flush`, `Ready`, `Unready` |
| `confirmDelivery`, `markResultsDelivered` | `Confirm`, `Write`, `Mark` |
| `pendingResultMessage`, `confirmContextProjection` | `Project`, `ReplyEnds` |
| `notifyParentSettled`, `markAttached`, `interrupt`, `detach` | `ParentSettles`, `ParentStarts`, `Interrupt`, `ParentAborted` |
| `initialize`, `deliveredSubagentGrantIds` | `Crash`, `Unsettled`, `Recovered` |

A grant is one piece of work of one child. Grants enter a queue in the order of their
numbers, so `readQueue` and `workQueue` are sets and whose turn it is follows from the numbers
(`First`, `Readers`); a cancelled grant leaves its queue with the next start, where the code drops it
when it comes to it. Results are told apart by their grant alone, so each place a result
can be in is a function that counts the results of each grant there. `saved` is the store, `given` the
transcript; `lost` are results a crash has lost because they had been recorded as
delivered and not yet written. After a crash nothing new is admitted (a bound).
Left out: what a child does, briefings, the requirements of advisors and reviewers,
usage, and the text of results.

### SessionFile

| code | definitions |
| --- | --- |
| `loadEntriesFromFile`, `_setSessionFile` | `Parsed`, `IsSession`, `Loaded`, `Open` |
| `_appendEntry`, `_persist` | `AppendTo`, `Add`, `Text`, `CreateRefused` |
| `branch`, `resetLeaf`, `branchWithSummary`, `getBranch` | `Branch`, `BranchWithSummary`, `Ancestry`, `Path` |
| `_rewriteFile`, `materialize`, `createBranchedSession` | `Rewrite`, `Materialize`, `Fork` |

An entry has a kind (assistant or other) and a parent. A write succeeds, fails, or
is the end of the process, and the last two leave any part of the text in the file:
some lines, and perhaps a piece of the next (`torn`). What is appended to a torn line
makes one line with it, which is not JSON (`Junk`). What is read of a file, and the
path to an entry, are the members of a sequence at certain positions (`Picked`): the lines
that are entries, and the entries that every set with the entry in it and closed under
parents has (`Ancestry`), which is the walk of `getBranch` without its steps. Left out: the migration of
old versions, listing and deletion of sessions; labels and the context of the model,
which are in `Compaction`.

### Compaction

| code | definitions |
| --- | --- |
| `buildSessionPath`, `getBranch`, `buildContextEntries`, `sessionEntryToContextMessages` | `PathIn`, `Path`, `Latest`, `ContextEntries`, `Given`, `Visible` |
| `findCutPoint`, `isCutPointMessage`, `capCutPointAtRecentRawUsers` | `FindCutPoint`, `IsCutPoint`, `Capped` |
| `prepareCompaction`, `collectRetainedRawUserMessages` | `BoundaryStart`, `SelectedUsers`, `Prepared` |
| `compact`, `_runAutoCompaction` up to the summary; after it; their failures | `Begin`; `Apply`; `Fail` |
| the appends of the session manager, `navigateTree`, `createBranchedSession` | `Say`, `Mark`, `Navigate`, `Fork` |

The session is a tree of entries whose kinds tell apart what compaction tells apart:
messages of the user, replies with and without a call, results, messages of extensions,
summaries of branches, compactions, labels and other entries that say nothing. An entry
is made after the one it is added to, so the numbers ascend along a path, and a path is
the set of its entries (`Latest` is its last compaction). `covers` is history: the
messages a summary was made from, including those of the summary it continues. A message
counts for one token and the number to keep is chosen anew each time, which lets the cut
fall wherever it can. That a turn is split changes which of two prompts its messages go
to and not what is summarized. Left out: the text of summaries, their verification and
the yield gate (`Fail` stands for their refusals), backups, boundaries and summaries
that extensions provide, clearing a label, prompts sent while a compaction runs, and forks of
sessions without a file. The leaf may be moved at any time, also while tools run; a fork and a manual
compaction end the run, whose results are not recorded.

### SessionLease

| code | definitions |
| --- | --- |
| `readLiveForeignLease`, the acquisition of lock and lease, `refuseAndShutdown` | `Look`, `Lock`, `Claim`, `Refused` |
| the update and `onCompromised` of the lock | `Refresh` |
| `stop`, `removeLeaseIfOwned` | `Release`, `RemoveLease` |
| `negotiateExternalOwnership`, the owner's control socket | `Ask`, `OwnerAccepts`, `OwnerRefuses` |
| `waitForOwnershipRelease` | `Released`, `OwnerChanged`, `TimesOut` |
| `verifySignalTarget`, the signals | `ReadLeaseAgain`, `Signal` |

A process that looked, locked and claimed owns the session; each step may be the
last before it is suspended for longer than the lock stays fresh, or dies. `token`
is the authorization to send a SIGKILL that a SIGTERM without effect leaves. The lock
library is not in the repository: taking a free or stale lock is one step.
Simplified: one host, and a pid is not used twice. Left out: the path of a process
that exits of itself, which removes the lease before the lock, and the lengths of timeouts.

### FileMutationQueue

| code | definitions |
| --- | --- |
| `withFileMutationQueue` | `Call`, `LookUp`, `LookUpFails`, `Register`, `Start`, `Finish` |
| `getMutationQueueKey` | `KeyOf` |
| the `fileMutationQueues` map and its clean-up | `tail`, `TailWithout` |
| the operations of `write.ts` and `edit.ts` | `FirstOperation`, `NextOperation`, `Operate` |
| an abort of the tool call | `Abort` |

A call passes two chains: the registrations, chained because finding the key of a
path takes an await, and the mutations of its key. `pred[c]` is the promise it waits
for. Every file operation may fail, and an abort is noticed after the operation that
is under way. What an edit computes from what it reads is left out: `content` is who
wrote the file last.

### DaemonSession

`session[s]` is the daemon's record of a session, `engine[s]` what the engine is
really doing; between them are two pipes, `inbox` and `outbox`. `Route` sets
`turnActive` when a prompt is sent; `ReadEvent` sets and clears it from the
frames read. `Finalize` is what follows `agent_settled` after the tracker has
been awaited: the drain is looked at, and a release completed or the grace timer
started. `EngineExits` is the exit handler, with the frames an exited engine
leaves unread counted in `rechecks`, and the release it leaves to a timer in `late`. The attach of
a chat that has no engine is two steps, `AttachChat` and `JoinChat`, between which its launch is
prepared and its connection may close (`Drop`, `gone`). `Faults` selects what may go wrong:
`refuse` (a prompt fails preflight), `crash`, and `strand` (a settlement
announces a continuation that does not come).
A prompt's preflight in the engine is one step. `Delete` kills the child, which
is modelled like the end of its stdin: no more input, then an exit. Left out:
requests that do not concern an engine, other routed commands and `abort` (they
do not touch the state kept), dialogs, ownership negotiation, tracking and
rewind, the re-keying of a session, the start timeout (it kills the engine, as
`EngineExits` may).

### DaemonStartup

Each action is one operation on one file. A worker `w` stands for a starter and
the worker it spawns. `back` is where a worker continues when `readLiveDaemon`
finds nothing: at the lock the first time, and at the bind after it lost the lock.
`Kill` may come at any point and leaves the files. Pids are not reused. Left out:
the age limit of 30 s on the lock, EPERM from the pid probe, and the timeouts of
starters, which only give up waiting.

### HostedSession

| code | definitions |
| --- | --- |
| `joinSessionAsClient`, `broadcast`, the ends of dialogs in the daemon | `Join`, `Sent`, `Replayed`, `TakeRequest`, `AnsweredElsewhere` |
| `attach`, `seed`, `bindExtensions`, `refreshCommands` | `Join`, `ContinueAttach`, `Reseed`, `Bind`, `ContinueBind` |
| `applyEvent`, `applyState` | `ReadStart`, `ReadSettled`, `ContinueState` |
| questions and their ends | `ReadAsk`, `ReadDismiss`, `ReadResolved`, `UserAnswers` |
| `session_exit`, `__connection_lost` | `ReadExit`, `LosesConnection` |

A response only resolves a promise; what awaits it runs after the other frames of
its chunk. So a frame is one action (`Read`) and a continuation another (`Continue`),
with `landed` between them. A settlement reaches the surface when the daemon's
tracker is done, which may be after other frames (`finalizing`). Left out: the pipes
between engine and daemon (they keep their order), the other fields of the mirror, the
messages, commands other than those that read the state again, and the order of
`pendingUiFrames`, which is only the order in which the kept questions are shown.

## 3. Runs

All bounds are constants in the `.cfg` files. `CHECK_DEADLOCK FALSE` is set
everywhere because every model may stop: the counters of inputs are bounded, an
idle agent may never be prompted again, a daemon exits, a session is closed. No
symmetry is used: most runs check liveness.

| run (module) | properties | instance, and why it is enough |
| --- | --- | --- |
| `AgentLoop` (`MCAgentLoop`) | `TranscriptSound`, `BatchesSound`, `MessagesKept`, `NoLaunchAfterAbort`, `RunEnds`, `KeepsPromise` | two calls to a batch run in parallel, so that they finish in either order, one is refused or the batch is cut between them; two messages and two runs, so that what one run leaves meets the next |
| `AgentSession` | `ShownIsTrue`, `OutcomeIsHonest`, `WaitersWake`, `RunsSettle` | two drivers, so that a prompt is in preflight while another run begins; two inputs, one retry, so that a second failure exhausts it, and failing replies, thrown errors and tool turns without bound; the two newest messages of the transcript's end, so that one is left when an error is taken off |
| `AgentHooks` | `FiredOnce`, `HeldIsSent`, `StoppedStaysStopped` | two watches, four hooks, two runs beside those that hooks start, three calls at a time: firings before, in and after a settlement, and a call that is refused beside a run and a settlement |
| `GoalMode` | `Recoverable`, `EndsForGood`, `GoalMovesOn` | two items, two blockers, one of them longer than what is read back, every limit small enough to be reached and, where two runs are needed to reach it, two |
| `Subagents` | `GrantsApart`, `GrantsEnd`, `ResultsReach` | two grants, in one batch or two, of either role; one reader at a time, one strike, one crash |
| `SessionFile` | `FileSound`, `AckedKept` | three entries (a branch and a leaf elsewhere), one failed write and one crash in a write |
| `Compaction` | `ContextSound`, `Accounted` | six entries: two compactions with a message between them, or a compaction that a fork, a branch or a late navigation puts elsewhere; two recent messages of the user to carry on beside the first; one entry that says nothing, so that it can be the one kept from |
| `SessionLease` | `OneWriter`, `HandoffHonest`, `NextGetsIn` | two processes, two ownerships each (so that an ownership outlives the daemon's record of it), one suspension, three requests (a SIGTERM, the SIGKILL it authorizes, and one more) |
| `FileMutationQueue` (`MCFileMutationQueue`) | `OneAtATime`, `MapExact`, `NoLostUpdate`, `EveryCallEnds` | three calls on one file that has two paths, so that a call waits behind one that waits, and that keys differ while the file is missing |
| `Daemon` (`DaemonSession`) | `EnginesKnown`, `DrainEnds`, `UnwatchedCloses`, `ReleaseEnds` | one session (sessions share only the drain), two clients, one of which may attach to a chat and lose its connection, two commands of every kind, all faults |
| `DaemonStartup` | `LockNotLeaked`, `LaunchEnds`, `NextLaunchRecovers` | two launches and a reader: one leaves files behind or races, the other must cope |
| `HostedSession` | `QuestionsKept`, `Settled`, `QuestionsSettle` | two runs of the engine (a response of one arrives in the next), one question, one reseed |

What the properties say:

- *Agent loop.* The model is shown the transcript, with every call answered and
  every answer in its place; nothing is executed outside a batch, unknown to
  clients, from a message that was cut short, or newly after an abort; messages
  are delivered once, in the order of their lane, never after they were
  withdrawn; every run ends. `KeepsPromise` is the refinement of `MessageLanes`.
- *Session.* The list of queued messages clients edit is the agent's queue, but for messages
  whose text was also sent as a prompt, and
  `isStreaming` is exact while drivers do not overlap; a settlement reports how its
  run ended; every run settles and every waiter is woken, however often replies fail: the
  count of retries ends them.
- *Hooks.* A firing is at one place, or went with a message that was refused or cleared, and
  what is held goes out; a stopped run is not revived.
- *Goals.* What is stored can be read again, with four exceptions (section 4), and the tools
  taken away come back; a
  finished goal stays finished; a grant with a budget ends whatever the model does; an
  active goal is never left without a run that works on it.
- *Subagents.* A writer runs alone; a result is given to the model once, through
  retries and a restart, and does reach it; every grant ends.
- *Session file.* What is read back is what the session had, and an entry whose
  append returned is not lost later on.
- *Compaction.* Every message on the way to the leaf is given to the model or has gone
  into the summary it is given, through repeated compactions, branches and forks; a
  result is never given without its call, unless a compaction was appended to a branch
  that does not have the entry it was made at, or the leaf was moved while tools ran; the
  user's first and last messages are
  given as written. The first exception needs two moves of the leaf, and the run has one; an
  instance with two (and one recent message: 5.35 million states) was checked beside it,
  and section 5 has the properties for any number.
- *Ownership.* One process writes, and the lease names it, also when the lock of a
  suspended owner is taken; the daemon's answers about a handoff are so; a
  session whose writers have crashed can be had again.
- *Mutations.* Those of one key take effect in the order called, those of one file do
  not overlap, an edit replaces what it has read, the map holds what is
  in use, and every call ends.
- *Daemon.* A turn that runs is known or its start is about to be read; a drain ends; a
  session without connected clients is closed, unless one joined it after its connection had
  closed; whoever asked for a release is told of it, also when the engine exits before. These are
  stated as what is true again and again (`[]<>`) rather than once, so that an exit and a new
  engine do not satisfy them for good. Launches end, and one that runs alone recovers
  from what killed ones left.
- *Surface.* A question is neither swallowed nor stuck, shown to every
  attached surface and closed when another has answered; after the last
  settlement the mirror is at rest with the engine.

### Fairness

- `AgentLoop`: weak fairness of the loop, the provider and the tools taken
  together. Once a run is started nothing but their promises holds it up; that
  those resolve is the assumption. Callers and throwing listeners owe nothing.
  `MaxToolTurns` bounds the turns in which the model asks for tools, since a
  model may do so for ever.
- `AgentSession`: weak fairness of the agent's run (what `RunEnds` shows) and of
  each driver: sleeps, compactions and handlers of settlement end. Callers owe
  nothing. `WaitersWake` and `RunsSettle` have the hypothesis `InterruptionsEnd`: from some
  point on there is no turn with tool calls (each resets the count of retries), no abort, no
  manual compaction and no note. With any of them repeated for ever a run need not settle.
  Failing replies are not limited; what ends them is `MaxRetries`, and without the count
  `RunsSettle` is false.
- `AgentHooks`: runs end and settlements are emitted to the end. Timers, files and
  tools owe nothing.
- `GoalMode`: a turn ends, a run settles, and a result of a child that is there is
  delivered. What the model does in a turn, and whether children end, is open.
- `Subagents`: files are written, children settle or are timed out, timers fire and runs
  of the parent settle. Nobody has to start a run of the parent, and the confirmation
  of a message in a run is not assumed.
- `SessionLease`: a process that was refused tries again (a surface does), a release
  goes on to remove the lease, and a lock nobody refreshes grows old. Owners may
  keep a session for ever, so nothing is assumed of them.
- `FileMutationQueue`: `realpath` and file operations end.
- `DaemonSession`: pipes are read, timers fire, a turn settles, and an engine
  whose stdin has ended exits (`rpc-mode.ts` shuts down at the end of input; the
  daemon sends SIGTERM after a delay). Crashes and clients owe nothing.
- `DaemonStartup`: a process that has begun goes on unless it is killed.
- `HostedSession`: the daemon forwards and answers, the surface reads its frames and runs
  what they release. Nothing is assumed of the engine, the user, other surfaces or
  failures.

`SessionFile` and `Compaction` have safety properties only.

## 4. Where the code departs from its documentation

Departures met while modelling are branches of the models, and history variables or
named operators mark them. The properties hold up to these exceptions, most of which were
met as counterexamples of a property stated without them.

Session and agent:
- A prompt the agent refuses, because another run began while the prompt was in
  preflight, settles and clears `_isAgentRunActive` of that other run
  (`agent-session.ts:886`; "Whether the session has no active agent run, retry, ..."
  at 1291). `overlap` in `ended`.
- A prompt takes a queued message with the same text off the session's list, although it is
  not that message (`agent-session.ts:999`): the message is still delivered, but clients are not
  shown it, and `removeQueuedMessage` does not find it any more (`mistaken`).
- An abort during the compaction that follows a run aborts nothing, and the run
  goes on ("A user abort must settle the run.", `agent-session.ts:1890`). An abort during the
  sleep before a retry does not settle the run either when a message is queued: the run goes on
  with it (`RetryCancelled`; 1918).
- A reply that comes while a manual compaction has disconnected the session is not heard, and
  the settlement does not tell of it. `deaf`.
- `agent.continue()` can throw on the transcript: an overflow reported with stop reason
  `length` is compacted for a retry, but only a message with stop reason `error` is
  taken off the rebuilt transcript (`agent-session.ts:3317`). `illegal`.
- A settlement can announce a continuation, because messages are queued, after an
  abort that leaves nothing to continue with them (`agent-session.ts:896`). The fault
  `strand` of `DaemonSession`.

Hooks, goals, subagents:
- "a hook must never resurrect a stopped run" (`hooks.ts:281`): one that fires while the
  settlement of a stopped run is emitted finds the session idle, and takes along what
  was held (`late`). Firings collected for a continuation are lost when a prompt has
  started a run meanwhile: the agent refuses them (`agent-session.ts:965`), and their call
  settles a second time, with an error, which clears `_isAgentRunActive` of the run that goes on
  (886); what the hooks' handler sends at that settlement is refused in turn. `clearQueue` (2486)
  drops the firings that wait in the follow-up queue with the messages of the user (`dropped`).
- `/goal` takes an objective, and instructions, of any length (`plan-goal.ts:419`, 439), and
  what is longer than 20,000 characters, or has a NUL in it, is stored and not read again
  (`goal-state.ts:375`, 382; `unfit`). So are blockers longer than 50,000 characters
  once joined (392; `Oversized`). A goal that could not be read is reported as "corrupt and
  blocked. Run /goal --abort to abandon it" (`plan-goal.ts:487`), but a process that shuts down
  stores the idle state over it (905), and the next one starts without a goal (`Restart`).
- Turns that follow the check of the last item are not stopped by the budget, and a state
  with more turns than its budget is not read again (`Overrun`). Strikes on the plan
  count in any status, so they turn a finished goal into a blocked one, and one
  strike more makes the stored state unreadable (`Readable`, `FinishedStays`).
- A planning that begins while another runs takes the tools of the first for the ones to
  bring back, and a settlement that finds a start requested does nothing else, though
  the start is refused (`Overlaps`).
- "blocking requires the same non-empty blocker across three consecutive settled runs
  without progress" (`plan-goal.ts:745`, and `goal-prompts/continuation.md:34`).
  `auditSettledBlockers` (`goal-state.ts:330`) takes progress to be more checked items
  than `lastCompleteItems`, but `update_goal_plan` (`plan-goal.ts:720`) and `turn_end`
  (`plan-goal.ts:806`) have set that field to the present count before the run settles.
  So a goal that checks an item in each of three runs, naming the same blocker, ends
  blocked (`Audited`).
- A grant cancelled while its preparation fails leaves two results, whose usage is
  counted twice (`subagents.ts:385`; `made` in `GivenOnce`). A crash between the record
  that a result was delivered and its entry in the transcript loses it (`lost`).

Files:
- What is appended to a line cut short becomes part of that line (`eaten`); a header cut
  short costs the session (`spoiled`). An append that fails leaves memory ahead of the
  file, and the next entries are written behind the gap (`behind`). A first write
  that fails leaves a file that makes every further one fail with EEXIST
  (`CreateRefused`). A fork whose rewrite fails counts as written; `materialize` truncates the
  file before it writes.
- The entry a compaction keeps from can be a label, since the cut moves back over entries
  that say nothing (`compaction.ts:477`), and a fork writes labels anew
  (`session-manager.ts:1484`): in the fork the kept messages are neither given to the
  model nor summarized. The same happens when the leaf is moved to another branch
  while the summary is written, which `navigateTree` does not refuse (`unanchored`,
  `strayed`). A result can then even be given without its call: a mark is made between the
  two, the user goes back to the mark and says something, a compaction there keeps from
  the mark, and before its summary comes the leaf is moved to the result.
- Nothing stops `navigateTree` while tools run either (`agent-session.ts:4172`; neither
  `rpc-mode.ts:809` nor the routing of the daemon, `mypi-daemon.mjs:2551`; of the surfaces only
  `gui-control/index.ts:518` asks): their results are appended to another branch, and the model
  is given results without calls (`severed`).
- "no more than five raw user messages survive" (`docs/compaction.md:41`): when the second
  compaction keeps from before the first, the first is part of what is kept, with its
  summary and the messages it carries on, so that more are given, some of them twice
  (`ContextEntries`; "Older summarized entries are omitted", `session-manager.ts:440`).
- A call of the mutation queue that looks up its key before the file exists is kept
  apart from calls that reach the file by another path (`CalledEarly`).
- The holder of a lock is identified by its pid; a SIGTERM may reach a process that has
  just released the session; and a start that is refused releases the lock it took from
  a suspended owner.

Daemon and surface:
- The last active engine of a drain crashes: the exit handler does not look at the drain
  (`mypi-daemon.mjs:534`; "so the daemon can reach zero active turns and exit" at
  1183). `cutShort`.
- A refused prompt was counted as a turn and never settles ("Any in-flight turn keeps
  the daemon alive; its agent_settled re-checks.", `mypi-daemon.mjs:1209`).
  `PhantomTurn`.
- The attach of a chat joins its client when the launch has been prepared, without asking
  whether it is still connected (`mypi-daemon.mjs:2489`). A client whose connection closed in
  between has been detached from all it had joined (2617), and nothing detaches it from this
  session, which is never without clients and not closed (`Haunted`).
- The daemon does not answer the requests an engine has left when it exits (534): clients that
  are attached are sent `session_exit`, others nothing.
- "whoever creates the lock file starts the daemon, everyone else waits for the sidecar"
  (`mypi-daemon-discovery.mjs:71`): the loser looks once and binds as well. And
  `PruneSocket` of a reader removes whatever is bound to the path by then (63).
- A response with the state of before can land behind a settlement
  (`hosted-session.ts:703`): the mirror takes it as the truth until the next one. A lost
  connection does not wake those who wait for the session to be idle (663). A
  dismissal while the surface is binding does not reach the questions that are kept.
  Dialogs stay open when the engine exits.

## 5. Proofs

Eight modules hold proofs, of one model each but for `AgentSessionProofs`, `DaemonProofs`,
`ProductProofs` and `SessionProofs`, which have two. Every safety property that a run checks
is stated by a theorem. A theorem holds for all values of the constants, from the named
assumptions of its model alone; `RecoverableAlways` has one more hypothesis, named below.
Each invariant that a proof rests on was also held against TLC on an instance of the model
before it was proved.

### The agent loop (`ConstantsAssumption`)

**Type correctness** (`TypeCorrect`: `Spec => []TypeOK`).
`TypeOK` alone is not inductive: `NextSequential` and its kin advance the cursor
`at`, which stays in range only because a batch is left when it reaches
`reply.calls`. `CursorInv` says so, and `TypeOK /\ CursorInv` is inductive. The
proof has a lemma for each part of `TypeOK` and a step for each action that
disturbs it.

**Messages** (`MessagesInvariant` and `MessagesAreKept`:
`Spec => []MessagesKept`). `DeliveredInOrder`, `WithdrawnStaysOut` and `NothingForgotten`
follow from one invariant, `MessageInv`:

- `LineInv`: each queue and each hand is increasing, queues hold messages of their
  own lane, and the loop holds messages only where it is about to emit them;
- `OrderInv`: within a lane, delivered before in hand before queued;
- `PlaceInv`: a message is in one place only, and what was withdrawn is nowhere;
- `NothingForgotten`: while nothing has thrown, every message is somewhere.

`OrderInv` needs `LineInv`: a queue is drained onto `pending` when the loop holds
nothing, or the message drained now would overtake the one in hand. The
argument is `Init => MessageInv`, `TypeOK /\ MessageInv /\ [Next]_vars =>
MessageInv'` by lemmas for each kind of step (accept, take, deliver, withdraw,
throw), and PTL. Lemmas about `Elems`, `Ids`, `Increasing` and `Before` under
`Append`, `Tail`, `SubSeq` and concatenation are stated once.

**Refinement of `MessageLanes`** (`AgentKeepsPromise`: `Spec => KeepsPromise`). The same
lemmas conclude, for each kind of step, which step of the abstract specification it is:
accepting, withdrawing, delivering and losing a message are its actions, and draining, polling
and the work of the loop are stutters because they leave the set of waiting messages
alone. `MessageInv` is what makes the mapped step legal: that a delivered message is older than
all that wait in its lane is `OrderInv`, and that a withdrawn or lost one was waiting is
`PlaceInv`.

**Tool calls and the transcript** (`BatchesAreSound`, `NoLaunchesAfterAbort`,
`TranscriptIsSound`). What is executed rests on `BatchInv`:

- `StageInv`: each stage of a call is possible at a few points of the loop only, and a call that
  gets to a stage belongs to a message that ended in `toolUse`. This is why nothing of a
  truncated or failed message is executed;
- `OrphanInv`: what a throw has left running is of an earlier turn than the batch that goes
  on beside it, so `pendingToolCalls` never confuses the two;
- `PendingCallsExact`, which is inductive with these.

What the model is shown rests on `CallsInv` and `LogInv`. The transcript is kept twice, as
`context` by the loop and as `messages` by the agent, and between two points of the loop the two
differ: `CopyInv` says by what at each point (the prompts not emitted yet; the results
of the batch that are emitted before the context is extended). `OwnerInv` ties a batch to
the message that ends the context. `CallsInv` says that without an abort every call has
been prepared when the batch is closed, from which `AnsweredInv` follows: every call in
the transcript is followed by its results, in the order of the calls.

### The session (`ConstantsAssumption`)

`ShownAlways` (`Spec => []ShownIsTrue`) and `OutcomeAlwaysHonest` (`Spec => OutcomeIsHonest`), for
any number of drivers, inputs and retries, and failures without end. `SessionInv` has three parts, each with a
lemma per group of actions:

- `MirrorInv`, for the list of queued messages. Where a message is, is stated by sets of ids
  (`Ids`, `Users`, `Listed`) and by the order of the lists, so that no proof looks
  into a sequence twice: each way a message moves (`Taken`, `Emitted`, `Lost`, `Prompted`,
  `Asked`, `Withdrawn`, `Cleared`) is one lemma about sets. That the list matches
  the queue is not inductive: `Placed` adds that the lanes share no id and that nothing gone is
  queued, and `HandSound` that what the loop holds is on no other lane's list. Without these a
  message could be taken off one list and stay on the other. What a prompt takes off by its
  text is on no list from then on and may still be queued (`mistaken`);
- `OneDriver`: until two drivers overlap, one at most is past its preflight, the flag says
  whether it works, and an active run is its own. `ActiveIsExact` does not say
  that there is one, and a second driver that finishes would falsify the flag of the first;
- `EndIsHeard`: what a driver is about to do follows from how its agent run ended. After the
  run `_lastAssistantMessage` is the reply it ended with (`last`); through retry, recovery and
  compaction the outcome stays that of this run, and an aborted run gets to none of them.
  `compaction-error` is allowed at each of these points, because the compaction before another
  prompt writes the same field. `DriverSettles` then is the only lemma that has to
  look at what a settlement tells.

### Compaction (`CompactionAssumption`)

`GivenIsSound` (`CompactionSpec => []ContextSound`) and `NothingIsLost` (`CompactionSpec =>
[]Accounted`), for any bounds, any budgets and any number of recent messages. Both follow
from one invariant, `CompactionInv`, which adds to the types:

- `CallsInv`: until the leaf is moved while tools run (`Whole`), on the path to a result there
  is a call, and behind that only results and marks. While tools run the path to the leaf is such a path, and no compaction waits. It is
  what makes a cut before a message that is no result safe;
- `MadeInv`: each compaction is sound with regard to its own path (`Sound`). The messages
  before the entry it keeps from are in what its summary covers, those of the user among them
  that have to survive are carried on (`SelectedBefore`), and what it keeps begins with a
  message that is no result (`CutAt`). The properties speak of the leaf only; the leaf
  can be moved under any compaction, so all have to be sound, each as far as `mislaid` says
  that nothing has happened to one;
- `JobInv`: the compaction that waits is sound with regard to the path it was made from,
  whatever has been added to the tree since.

A step that adds an entry leaves every path as it was (`ExtendedPaths`), so these carry over, and
only the new entry has to be looked at. `PreparedSound` follows a cut through
`FindCutPoint` and `Capped`: the next compaction builds on the one before, whose soundness
is what the new one inherits. `AppliedSound` compares the path of the job with that of the
leaf it is appended to, and is where `mislaid` comes in. A fork is a tree again (`ForkedTree`), and a
path without its labels keeps its users, its calls and its cuts (`ThinnedSound`).

A path is defined by recursion, about which nothing can be proved by induction over data.
Instead, the entries that are in every set with the entry and the parents of what it has
(`Closure`) satisfy the equation of the recursive function, so that a function as defined exists
(`ClosureStep`, `PathStep`); that a set of numbers has a least one follows from finite sets being
well-founded (`LeastExists`), and with it, the path of an entry is the part of any such set up
to that entry (`PathOfNearest`).

`CallsKept` was first stated without its exception, and held in the run. Its proof did not go
through where a compaction is appended elsewhere than it was made; a search with two
moves of the leaf then found the behaviour that section 4 describes.

### Hooks (`HooksAssumption`)

`EachFiredOnce` (`Spec => []FiredOnce`) and `StoppedRunsStayStopped` (`Spec =>
StoppedStaysStopped`), for any number of hooks, watches and runs. `HooksInv` has `FiredOnce` in
parts that a step disturbs one at a time:

- `FreshInv`: what may still fire (the wakeup, the watches) has not fired, and has a number
  below `nextId`. Without it a second firing of one hook could not be excluded;
- `OnceInv` and `ApartInv`: no list repeats a firing, no two lists share one, and what was
  dropped is on none. They
  give that the concatenation `Places` is injective, which is not said of it directly because
  most steps move a whole list to the end of another;
- `FiredInv`: what is anywhere has fired, and before a shutdown what has fired is somewhere.

`StoppedInv` says where continuations come from, for every settlement that is emitted while
there are any: from this one, of a successful run, after the hooks' handler has run, or from
elsewhere, a firing during the settlement or the settlement of another call (`late`).

### The file mutation queue (`PathsAssumption`, `CallsAssumption`)

`TypeCorrect`, `Served` (`Spec => []OneAtATime`), `MapCorrect` (`Spec => []MapExact`) and
`NoUpdateLost` (`Spec => NoLostUpdate`), for any paths, any links between them and any
number of calls. That mutations of one key take effect in the order called is not
inductive: a mutation waits for its predecessor only, so one has to know that nothing
registered for the key lies between them.

- `RegistrationInv`: registrations settle in the order of the calls, so a call that
  registers is later than all that are registered;
- `PredInv`: the predecessor of a call is the last of its key registered before it,
  and a call has none only if those are all done;
- `TailInv`: the map names the last call registered for a key while it holds the key, and has
  no entry for a key nobody holds: this is what `PredInv` rests on when the next
  call registers, and what the conditional clean-up in the finally clause is for.

`QueueInv` is their conjunction with `TypeOK` and `ServedInOrder`. `FileInv` adds `KeyInv`
(a key other than the file's own path was looked up before the file existed) and
`SeenInv` (between its read and its write, an edit has seen what is in the file), from
which exclusion on a file and the action property `NoLostUpdate` follow.

### Ownership of a session (`LeaseAssumption`)

`OneWriterAlways` (`Spec => []OneWriter`) and `HandoffsAreHonest` (`Spec => HandoffHonest`),
for any processes, starts, suspensions and requests. `OneWriter` says that whoever
writes is named by the lease, of which there is one. It is kept because a process
that claims the session gives way to the lease of a live process, whatever became of
the lock. Its inductive form `LeaseInv` adds:

- `ProcessInv`: who may still start, and that only owners are suspended;
- `LockInv`: the lock names a process about to claim the session, or the ownership the
  lease names, and a process between lock and claim holds a fresh lock;
- `BegunInv`: the lease, the record and the request name ownerships that have
  begun, so a new ownership is none of them;
- `RequestInv`: a SIGKILL, its authorization, and the stage that leads to it are about an
  ownership that has got a SIGTERM.

### The session file (`SessionAssumption`)

`FileStaysSound` (`FileSpec => []FileSound`) and `AcknowledgedStay` (`FileSpec =>
[]AckedKept`), for any number of entries, failed writes and deaths in a write. The lemmas
come first: `Rank` numbers a set of positions from one without gaps (a strictly growing
map into as many numbers, so onto them: `FS_Injection`), hence what is `Picked` keeps its
order and loses nothing; what is read of a file with a header is what was written, also
behind a part of a line (`LoadedHeld`); each way lines change (one more, one torn, a whole
file, a broken write of it) is one lemma about `LinesOk` and `LineIds`. `FileInv` has four
parts:

- `OrderInv`: the entries in memory, and those in the file, are in the order they
  were made in, and a header is the first line. It is what `OneCopy` follows from, and it makes
  the path of a fork increasing, so that its new parents come before their children;
- `FlagInv`: without a file there are no lines, and a flushed session has a file. A torn
  line implies a file, which is why the first write never meets one: it is refused;
- `AckInv`: what was acknowledged is among the lines, and in memory while the session is
  open. The second half is not in `AckedKept`, and without it `materialize` could drop from
  the file what memory had lost;
- `MemoryInv`: without a fault the lines are exactly the session's entries, and perhaps a
  part of a line behind them; after a stop or a death they are those that will be
  read (`FileKept`), or nothing that can be.

`FlushedHeld` is where the exceptions come from: a line added to a torn one puts
an id in `eaten`, or makes the file `spoiled`, or changes nothing.

### Goals (`GoalAssumption`)

`GoalIsReadable` (`Spec => [](TypeOK /\ Readable)`) and `FinishedGoalStays` (`Spec =>
FinishedStays`, the safety part of `EndsForGood`) need no hypothesis; `RecoverableAlways` proves
`Spec => []Recoverable` from `~Overlaps`, since with overlapping plannings the property is false
(section 4). `Readable` says that what is stored passes `isValidStoredGoalState`, which
checks relations among ten fields that are written by a dozen actions, and the sizes of the
texts. Its four exceptions are sequences of legal calls, and it says that there are no others. `GoalInv` keeps the part
of them that is inductive: `PlanType` (there is a plan exactly while there is a goal) and
`StoredInv` (marks within the plan, a reason exactly when the goal is stopped, nothing left to do
and evidence when it is complete). The budget, the strikes and the sizes are not in it, because
sequences of legal calls do exceed them. `ToolsInv` adds that nothing is planned beside a goal that
could not be read, and nothing is asked for beside a planning, so that `before` is always
the full set of tools.

### Subagents (`GrantsAssumption`, `StrikesAssumption`)

`GrantsStayApart` (`SubagentsSpec => []GrantsApart`), for any number of grants, jobs to a batch, readers,
strikes and restarts. That a writer works alone needs the queues (`QueuesOf`: a queue
holds grants of its role that have not started), because a step of `Schedule` gives
several grants a process at once: `Scheduled` proves it of any runs and queues the
callers of `schedule` pass. That a result is given once is not inductive, for a copy of it may
be queued, in flight or confirmed while another is in the transcript. `CopiesInv` counts the
copies of all four places, which no step but `Leaves` and `Crash` adds to:

- `MadeInv`: a grant leaves one result when its run is over and one when it was cancelled before
  it had a process, so two at most, and two only when both happened;
- `QuietInv`: after a restart nothing is at work or can be cancelled, so that the one copy
  a restart makes of what it recovers stays the only one.

### The daemon (`ConstantsAssumption`)

`EnginesAreKnown` (`Spec => []EnginesKnown`), for any sessions, clients, kinds of commands, faults
and number of commands. The invariant speaks of one session at a time (`Sound`, a relation of
its record, its engine and its two pipes), and a step concerns one session, so that each
action needs one proof about records and pipes and a frame lemma (`OneMoves`). Neither
`TurnsAreSeen` nor `PreparingExact` is inductive:

- `TurnKnown`: it is not enough that the start of a running turn is still to be read, for a
  settlement read after it would clear `turnActive` again. So either the turn is known and no
  settlement is in the pipe, or a start is in it with no settlement behind it
  (`StartsLast`);
- `RecordSound`: one preparation at a time. If two could be pending, the answer to one would
  clear `preparing` under the other. `prepare_surface_session` refuses a second, which is why
  the counting is exact;
- what belongs to an engine goes with it, so that a new engine of the session meets empty
  pipes and a fresh record, also when a chat attach joins it late.

The exit handler of `EngineExits` adds to `rechecks`; `LateIsCounted` shows that what an
engine leaves unread is finite.

### Startup of the daemon (no assumption)

`LockIsNotLeaked` (`StartupSpec => []LockNotLeaked`), for any number of launches and readers, with
kills at any point. `LockInv` is stronger than the property in one respect: a worker that
closes, or binds its socket, and is named by the lock has acquired it. A worker that lost
the race for the lock binds all the same and releases nothing, so it must not be the
one the lock names; `acquired` is the variable that says so.

### Questions of a hosted session (`HostedAssumption`)

`QuestionsAreKept` (`Spec => []QuestionsKept`), for any finite set of questions and any number of
runs and reseeds. `HostedInv` adds to it:

- `FramesInv`: a dismissal or a resolution on its way is of no question the engine still waits
  on. It is what keeps a late frame from closing a dialog that is needed;
- `ToldInv`: no dialog the user was told is resolved belongs to such a question;
- `AwayInv`: a surface that has not joined was sent nothing, so that the replay at the join
  is complete;
- `CountInv`: a settlement the daemon holds back is of a run that has ended, which
  bounds `finalizing` for the type invariant.

### Model-checked only

Liveness everywhere, and the fairness it needs, because the prover has no rule for ENABLED:
`RunEnds`, `WaitersWake`, `RunsSettle`, `HeldIsSent`, `GoalMovesOn`, `GrantsEnd`, `ResultsReach`,
`NextGetsIn`, `EveryCallEnds`, `DrainEnds`, `UnwatchedCloses`, `ReleaseEnds`, `LaunchEnds`,
`NextLaunchRecovers`, `Settled`, `QuestionsSettle`, and what `EndsForGood` says beyond
`FinishedStays`.

## 6. Plan

Done: `AgentLoop` and `MessageLanes`, `AgentSession`, `DaemonSession`, `DaemonStartup`,
`FileMutationQueue`, `SessionLease`, `HostedSession`, `AgentHooks`, `SessionFile`,
`Compaction`, `Subagents`, `GoalMode`; the proofs of section 5.

Models worth adding: an abstract specification of a run's life as clients see it
(start, settlement, continuation), implemented by `AgentSession`; goal mode with
overlapping planning and with branches of the session tree; the connections of MCP
servers; replacement of one session by another in the runtime host.
