-------------------------- MODULE AgentLoopProofs --------------------------
(***************************************************************************)
(* Proofs about AgentLoop, for every number of messages, runs, turns and   *)
(* tool calls, both queue modes and both ways of executing tools:          *)
(*                                                                         *)
(*   1. types, and what holds of the queues and lanes;                     *)
(*   2. messages are delivered in order, at most once, not after they were *)
(*      withdrawn, and not forgotten, and so the loop implements           *)
(*      MessageLanes.  The inductive invariant is MessageInv; the lemmas   *)
(*      that open that part say what each operation on a queue does to the *)
(*      set of its messages and to their order, and the proof that a step  *)
(*      preserves MessageInv uses only them;                               *)
(*   3. what is executed, and what the model is shown of it.               *)
(***************************************************************************)
EXTENDS MCAgentLoop, SequenceTheorems, TLAPS

-----------------------------------------------------------------------------
(***************************************************************************)
(* 1. Types, queues and lanes.                                             *)
(***************************************************************************)

(* Sequences of messages.                                                  *)

(* A function on 1..n is a sequence.                                       *)
LEMMA FunctionIsSeq ==
    ASSUME NEW S, NEW n \in Nat, NEW f \in [1..n -> S]
    PROVE  f \in Seq(S) /\ Len(f) = n
<1>1. f \in Seq(S)
  BY SeqDef
<1>. QED
  BY <1>1, LenProperties

(* What draining takes and leaves are sequences of the same messages.      *)
LEMMA DrainType ==
    ASSUME NEW q \in Seq(Message), NEW mode
    PROVE  Drained(q, mode) \in Seq(Message) /\ Undrained(q, mode) \in Seq(Message)
  BY DEF Drained, Undrained

(* The transcript entries of a sequence of messages.                       *)
LEMMA UserEntries ==
    ASSUME NEW taken \in Seq(Message)
    PROVE  [i \in DOMAIN taken |-> UserEntry(taken[i])] \in Seq(Entry)
<1>1. DOMAIN taken = 1..Len(taken) /\ Len(taken) \in Nat
  OBVIOUS
<1>2. \A i \in 1..Len(taken) : UserEntry(taken[i]) \in Entry
  BY DEF UserEntry, Entry
<1>. QED
  BY <1>1, <1>2, FunctionIsSeq

(* The results of the first n calls of a turn.                             *)
LEMMA ResultEntries ==
    ASSUME NEW turn \in Nat, NEW n \in Nat
    PROVE  [i \in 1..n |-> ResultEntry(turn, i)] \in Seq(Entry)
<1>1. \A i \in 1..n : ResultEntry(turn, i) \in Entry
  BY DEF ResultEntry, Entry
<1>. QED
  BY <1>1, FunctionIsSeq

(* The messages of a prompt.                                               *)
LEMMA PromptMessages ==
    ASSUME NEW k \in Nat, NEW n \in Nat
    PROVE  [i \in 1..n |-> [id |-> k + i, lane |-> "prompt"]] \in Seq(Message)
<1>1. \A i \in 1..n : [id |-> k + i, lane |-> "prompt"] \in Message
  BY DEF Message, Lanes
<1>. QED
  BY <1>1, FunctionIsSeq

(* Taking one message out of a queue leaves a queue.                       *)
LEMMA RemoveAtType ==
    ASSUME NEW S, NEW q \in Seq(S), NEW i \in DOMAIN q
    PROVE  /\ RemoveAt(q, i) \in Seq(S)
           /\ Len(RemoveAt(q, i)) = Len(q) - 1
           /\ \A j \in 1..(Len(q) - 1) :
                 RemoveAt(q, i)[j] = IF j < i THEN q[j] ELSE q[j + 1]
<1>. DEFINE front == SubSeq(q, 1, i - 1)
            back == SubSeq(q, i + 1, Len(q))
<1>1. Len(q) \in Nat /\ i \in 1..Len(q) /\ \A j \in 1..Len(q) : q[j] \in S
  BY LenProperties, ElementOfSeq
<1>2. /\ front \in Seq(S) /\ Len(front) = i - 1
      /\ \A j \in 1..(i - 1) : front[j] = q[j]
  <2>1. 1 \in Int /\ i - 1 \in Int /\ \A j \in 1..(i - 1) : q[j] \in S
    BY <1>1
  <2>. QED
    BY <2>1, <1>1, SubSeqProperties
<1>3. /\ back \in Seq(S) /\ Len(back) = Len(q) - i
      /\ \A j \in 1..(Len(q) - i) : back[j] = q[i + j]
  <2>1. i + 1 \in Int /\ Len(q) \in Int /\ \A j \in (i + 1)..Len(q) : q[j] \in S
    BY <1>1
  <2>2. /\ back \in Seq(S)
        /\ Len(back) = IF i + 1 <= Len(q) THEN Len(q) - (i + 1) + 1 ELSE 0
        /\ \A j \in 1..(Len(q) - (i + 1) + 1) : back[j] = q[(i + 1) + j - 1]
    BY <2>1, SubSeqProperties
  <2>. QED
    BY <2>2, <1>1
<1>. DEFINE all == front \o back
<1>4. /\ all \in Seq(S)
      /\ Len(all) = Len(front) + Len(back)
      /\ \A j \in 1..(Len(front) + Len(back)) :
            all[j] = IF j <= Len(front) THEN front[j] ELSE back[j - Len(front)]
  <2>. HIDE DEF front, back
  <2>. QED
    BY <1>2, <1>3, ConcatProperties
<1>5. RemoveAt(q, i) = all
  BY DEF RemoveAt
<1>. HIDE DEF front, back, all
<1>6. ASSUME NEW j \in 1..(Len(q) - 1)
      PROVE  all[j] = IF j < i THEN q[j] ELSE q[j + 1]
  <2>0. Len(front) + Len(back) = Len(q) - 1 /\ Len(front) = i - 1
    BY <1>1, <1>2, <1>3
  <2>1. all[j] = IF j <= i - 1 THEN front[j] ELSE back[j - (i - 1)]
    BY <2>0, <1>4
  <2>2. CASE j < i
    BY <2>1, <2>2, <1>1, <1>2
  <2>3. CASE ~(j < i)
    <3>1. j - (i - 1) \in 1..(Len(q) - i) /\ i + (j - (i - 1)) = j + 1
      BY <2>3, <1>1
    <3>. QED
      BY <3>1, <2>1, <2>3, <1>1, <1>3
  <2>. QED
    BY <2>2, <2>3
<1>7. Len(all) = Len(q) - 1
  BY <1>1, <1>2, <1>3, <1>4
<1>. QED
  BY <1>4, <1>5, <1>6, <1>7

(* The entries the loop writes.                                            *)
LEMMA EntryType ==
    /\ \A m \in Message : UserEntry(m) \in Entry
    /\ \A turn, calls \in Nat, stop \in StopReasons : AssistantEntry(turn, stop, calls) \in Entry
    /\ \A turn, call \in Nat : ResultEntry(turn, call) \in Entry
  BY DEF UserEntry, AssistantEntry, ResultEntry, Entry

LEMMA IdsType ==
    ASSUME NEW q \in Seq(Message)
    PROVE  Ids(q) \in SUBSET (Nat \ {0})
<1>1. \A i \in DOMAIN q : q[i] \in Message
  OBVIOUS
<1>. QED
  BY <1>1 DEF Ids, Message

(* Where a reply leads: to a batch only when it has calls.                 *)
LEMMA AfterReplyPoint ==
    ASSUME NEW r \in Replies, NEW p \in AfterReply(r)
    PROVE  /\ p \in {"agentEnd", "truncated", "turnEnd", "seqStart", "parStart"}
           /\ p \in {"seqStart", "parStart"} => 1 <= r.calls
<1>1. r.stop \in StopReasons /\ r.calls \in 0..MaxCalls
  BY DEF Replies
<1>2. CASE r.stop \in {"error", "aborted"}
  BY <1>2, <1>1 DEF AfterReply
<1>3. CASE r.stop \notin {"error", "aborted"} /\ r.calls = 0
  BY <1>3, <1>1, ConstantsAssumption DEF AfterReply, Replies, StopReasons
<1>4. CASE r.stop = "length" /\ r.calls > 0
  BY <1>4, <1>1, ConstantsAssumption DEF AfterReply
<1>5. CASE r.stop = "toolUse" /\ r.calls > 0
  BY <1>5, <1>1, ConstantsAssumption DEF AfterReply
<1>. QED
  BY <1>1, <1>2, <1>3, <1>4, <1>5, ConstantsAssumption DEF Replies, StopReasons

-----------------------------------------------------------------------------
TypeInv == TypeOK /\ CursorInv

LEMMA TypeInit == Init => TypeInv
<1>. SUFFICES ASSUME Init PROVE TypeInv
  OBVIOUS
<1>1. PointType /\ CursorInv
  BY DEF Init, PointType, ControlPoints, CursorInv
<1>2. FlagType
  BY DEF Init, FlagType
<1>3. MessageType /\ LogType
  BY EmptySeq DEF Init, MessageType, LogType
<1>4. BatchType
  BY ConstantsAssumption DEF Init, BatchType, NoCalls, CallStatus, StopReasons
<1>5. CountType
  BY ConstantsAssumption DEF Init, CountType
<1>. QED
  BY <1>1, <1>2, <1>3, <1>4, <1>5 DEF TypeInv, TypeOK


LEMMA TypeStep ==
    ASSUME TypeInv, [Next]_vars
    PROVE  TypeInv'
<1>. USE ConstantsAssumption DEF TypeInv, TypeOK
<1>1. CASE UNCHANGED vars
  BY <1>1 DEF vars, queueVars, handVars, logVars, batchVars, historyVars, PointType, CursorInv,
     FlagType, MessageType, LogType, BatchType, CountType
<1>2. ASSUME NEW n \in 1..MaxMessages, Prompt(n) PROVE TypeInv'
  <2>. DEFINE taken == [i \in 1..n |-> [id |-> issued + i, lane |-> "prompt"]]
  <2>0. taken \in Seq(Message)
    BY PromptMessages DEF CountType
  <2>1. PointType' /\ CursorInv'
    BY <1>2 DEF Prompt, StartRun, PointType, CursorInv, ControlPoints, batchVars
  <2>2. FlagType'
    BY <1>2 DEF Prompt, StartRun, FlagType
  <2>3. MessageType'
    BY <1>2, <2>0, EmptySeq DEF Prompt, StartRun, MessageType, queueVars, historyVars
  <2>4. LogType'
    <3>. HIDE DEF taken
    <3>1. context' = messages \o [i \in DOMAIN taken |-> UserEntry(taken[i])]
      BY <1>2 DEF taken, Prompt, StartRun
    <3>2. messages \in Seq(Entry) /\ messages' = messages
      BY <1>2 DEF Prompt, StartRun, LogType
    <3>. QED
      BY <2>0, <3>1, <3>2, UserEntries, ConcatProperties DEF LogType
  <2>5. BatchType' /\ CountType'
    BY <1>2 DEF Prompt, StartRun, BatchType, batchVars, CountType, historyVars
  <2>. QED
    BY <2>1, <2>2, <2>3, <2>4, <2>5
<1>3. CASE ContinueTranscript
  <2>. DEFINE taken == <<>>
  <2>0. taken \in Seq(Message)
    BY EmptySeq
  <2>1. PointType' /\ CursorInv'
    BY <1>3 DEF ContinueTranscript, StartRun, PointType, CursorInv, ControlPoints, batchVars
  <2>2. FlagType'
    BY <1>3 DEF ContinueTranscript, StartRun, FlagType
  <2>3. MessageType'
    BY <1>3, <2>0, EmptySeq, DrainType
       DEF ContinueTranscript, StartRun, MessageType, queueVars, historyVars, DrainSteering, DrainFollowUps
  <2>4. LogType'
    <3>. HIDE DEF taken
    <3>1. context' = messages \o [i \in DOMAIN taken |-> UserEntry(taken[i])]
      BY <1>3 DEF taken, ContinueTranscript, StartRun
    <3>2. messages \in Seq(Entry) /\ messages' = messages
      BY <1>3 DEF ContinueTranscript, StartRun, LogType
    <3>. QED
      BY <2>0, <3>1, <3>2, UserEntries, ConcatProperties DEF LogType
  <2>5. BatchType' /\ CountType'
    BY <1>3 DEF ContinueTranscript, StartRun, BatchType, batchVars, CountType, historyVars
  <2>. QED
    BY <2>1, <2>2, <2>3, <2>4, <2>5
<1>4. CASE ContinueWithSteering
  <2>. DEFINE taken == Drained(steeringQueue, SteeringMode)
  <2>0. taken \in Seq(Message)
    BY DrainType DEF MessageType
  <2>1. PointType' /\ CursorInv'
    BY <1>4 DEF ContinueWithSteering, StartRun, PointType, CursorInv, ControlPoints, batchVars
  <2>2. FlagType'
    BY <1>4 DEF ContinueWithSteering, StartRun, FlagType
  <2>3. MessageType'
    BY <1>4, <2>0, EmptySeq, DrainType
       DEF ContinueWithSteering, StartRun, MessageType, queueVars, historyVars, DrainSteering, DrainFollowUps
  <2>4. LogType'
    <3>. HIDE DEF taken
    <3>1. context' = messages \o [i \in DOMAIN taken |-> UserEntry(taken[i])]
      BY <1>4 DEF taken, ContinueWithSteering, StartRun
    <3>2. messages \in Seq(Entry) /\ messages' = messages
      BY <1>4 DEF ContinueWithSteering, StartRun, LogType
    <3>. QED
      BY <2>0, <3>1, <3>2, UserEntries, ConcatProperties DEF LogType
  <2>5. BatchType' /\ CountType'
    BY <1>4 DEF ContinueWithSteering, StartRun, BatchType, batchVars, CountType, historyVars
  <2>. QED
    BY <2>1, <2>2, <2>3, <2>4, <2>5
<1>5. CASE ContinueWithFollowUps
  <2>. DEFINE taken == Drained(followUpQueue, FollowUpMode)
  <2>0. taken \in Seq(Message)
    BY DrainType DEF MessageType
  <2>1. PointType' /\ CursorInv'
    BY <1>5 DEF ContinueWithFollowUps, StartRun, PointType, CursorInv, ControlPoints, batchVars
  <2>2. FlagType'
    BY <1>5 DEF ContinueWithFollowUps, StartRun, FlagType
  <2>3. MessageType'
    BY <1>5, <2>0, EmptySeq, DrainType
       DEF ContinueWithFollowUps, StartRun, MessageType, queueVars, historyVars, DrainSteering, DrainFollowUps
  <2>4. LogType'
    <3>. HIDE DEF taken
    <3>1. context' = messages \o [i \in DOMAIN taken |-> UserEntry(taken[i])]
      BY <1>5 DEF taken, ContinueWithFollowUps, StartRun
    <3>2. messages \in Seq(Entry) /\ messages' = messages
      BY <1>5 DEF ContinueWithFollowUps, StartRun, LogType
    <3>. QED
      BY <2>0, <3>1, <3>2, UserEntries, ConcatProperties DEF LogType
  <2>5. BatchType' /\ CountType'
    BY <1>5 DEF ContinueWithFollowUps, StartRun, BatchType, batchVars, CountType, historyVars
  <2>. QED
    BY <2>1, <2>2, <2>3, <2>4, <2>5
<1>6. CASE EmitPrompt
  <2>1. PointType' /\ CursorInv'
    BY <1>6 DEF EmitPrompt, PointType, CursorInv, ControlPoints, BatchPoints, SequentialPoints,
       ParallelPoints, BatchType, queueVars, handVars, logVars, batchVars, historyVars
  <2>2. FlagType'
    BY <1>6 DEF EmitPrompt, FlagType, handVars
  <2>3. MessageType'
    BY <1>6 DEF EmitPrompt, MessageType, queueVars, handVars, historyVars
  <2>4. LogType'
    BY <1>6, EntryType DEF EmitPrompt, LogType, MessageType, BatchType, logVars
  <2>5. BatchType'
    BY <1>6 DEF EmitPrompt, BatchType, batchVars, CursorInv, CallStatus, Executed, Call,
       ThisCall
  <2>6. CountType'
    BY <1>6 DEF EmitPrompt, CountType, MessageType, historyVars
  <2>. QED
    BY <2>1, <2>2, <2>3, <2>4, <2>5, <2>6
<1>7. CASE EnterLoop
  BY <1>7 DEF EnterLoop, PointType, CursorInv, FlagType, MessageType, LogType, BatchType,
     CountType, ControlPoints, BatchPoints, SequentialPoints, ParallelPoints, queueVars,
     handVars, logVars, batchVars, historyVars, CallStatus, ThisCall, Call
<1>8. CASE BeginTurn
  BY <1>8 DEF BeginTurn, PointType, CursorInv, FlagType, MessageType, LogType, BatchType,
     CountType, ControlPoints, BatchPoints, SequentialPoints, ParallelPoints, queueVars,
     handVars, logVars, batchVars, historyVars, CallStatus, ThisCall, Call
<1>9. CASE CallModel
  BY <1>9 DEF CallModel, PointType, CursorInv, FlagType, MessageType, LogType, BatchType,
     CountType, ControlPoints, BatchPoints, SequentialPoints, ParallelPoints, queueVars,
     handVars, logVars, batchVars, historyVars, CallStatus, ThisCall, Call
<1>10. CASE InitialPoll
  <2>1. PointType' /\ CursorInv'
    BY <1>10 DEF InitialPoll, PointType, CursorInv, ControlPoints, BatchPoints,
       SequentialPoints, ParallelPoints, BatchType, queueVars, handVars, logVars, batchVars,
       historyVars
  <2>2. FlagType'
    BY <1>10 DEF InitialPoll, FlagType, handVars
  <2>3. MessageType'
    BY <1>10, DrainType, EmptySeq DEF InitialPoll, MessageType, queueVars, handVars,
       historyVars, DrainSteering, DrainFollowUps
  <2>4. LogType'
    BY <1>10 DEF InitialPoll, LogType, MessageType, BatchType, logVars
  <2>5. BatchType'
    BY <1>10 DEF InitialPoll, BatchType, batchVars, CursorInv, CallStatus, Executed, Call,
       ThisCall
  <2>6. CountType'
    BY <1>10 DEF InitialPoll, CountType, MessageType, historyVars
  <2>. QED
    BY <2>1, <2>2, <2>3, <2>4, <2>5, <2>6
<1>11. CASE InjectPending
  <2>1. PointType' /\ CursorInv'
    BY <1>11 DEF InjectPending, PointType, CursorInv, ControlPoints, BatchPoints,
       SequentialPoints, ParallelPoints, BatchType, queueVars, handVars, logVars, batchVars,
       historyVars
  <2>2. FlagType'
    BY <1>11 DEF InjectPending, FlagType, handVars
  <2>3. MessageType'
    BY <1>11 DEF InjectPending, MessageType, queueVars, handVars, historyVars
  <2>4. LogType'
    BY <1>11, EntryType DEF InjectPending, LogType, MessageType, BatchType, logVars
  <2>5. BatchType'
    BY <1>11 DEF InjectPending, BatchType, batchVars, CursorInv, CallStatus, Executed, Call,
       ThisCall
  <2>6. CountType'
    BY <1>11 DEF InjectPending, CountType, MessageType, historyVars
  <2>. QED
    BY <2>1, <2>2, <2>3, <2>4, <2>5, <2>6
<1>12. CASE Respond
  <2>1. PICK r \in Replies :
            /\ reply' = [turn |-> reply.turn + 1, stop |-> r.stop, calls |-> r.calls]
            /\ context' = Append(context, AssistantEntry(reply.turn + 1, r.stop, r.calls))
            /\ messages' = Append(messages, AssistantEntry(reply.turn + 1, r.stop, r.calls))
            /\ pc' \in AfterReply(r)
    BY <1>12 DEF Respond
  <2>2. r.stop \in StopReasons /\ r.calls \in 0..MaxCalls /\ r.calls \in Nat
    BY DEF Replies
  <2>3. reply.turn + 1 \in Nat
    BY DEF BatchType
  <2>4. PointType' /\ CursorInv'
    <3>1. at' = 1 /\ reply'.calls = r.calls
      BY <1>12, <2>1 DEF Respond
    <3>2. /\ pc' \in {"agentEnd", "truncated", "turnEnd", "seqStart", "parStart"}
          /\ pc' \in {"seqStart", "parStart"} => 1 <= r.calls
      BY <2>1, AfterReplyPoint
    <3>. QED
      BY <3>1, <3>2 DEF PointType, CursorInv, ControlPoints, BatchPoints, SequentialPoints,
         ParallelPoints
  <2>5. FlagType'
    BY <1>12 DEF Respond, FlagType, handVars
  <2>6. MessageType'
    BY <1>12 DEF Respond, MessageType, queueVars, handVars, historyVars
  <2>7. LogType'
    BY <2>1, <2>2, <2>3, EntryType, AppendProperties DEF LogType
  <2>8. BatchType'
    <3>1. reply' \in [turn : Nat, stop : StopReasons, calls : 0..MaxCalls]
      BY <2>1, <2>2, <2>3
    <3>2. batch' \in [1..MaxCalls -> CallStatus]
      BY <1>12 DEF Respond, NoCalls, CallStatus
    <3>. QED
      BY <1>12, <3>1, <3>2 DEF Respond, BatchType
  <2>9. CountType'
    BY <1>12 DEF Respond, CountType, historyVars
  <2>. QED
    BY <2>4, <2>5, <2>6, <2>7, <2>8, <2>9
<1>13. CASE FailTruncated
  <2>1. PointType' /\ CursorInv'
    BY <1>13 DEF FailTruncated, PointType, CursorInv, ControlPoints, BatchPoints,
       SequentialPoints, ParallelPoints, BatchType, queueVars, handVars, logVars, batchVars,
       historyVars
  <2>2. FlagType'
    BY <1>13 DEF FailTruncated, FlagType, handVars
  <2>3. MessageType'
    BY <1>13 DEF FailTruncated, MessageType, queueVars, handVars, historyVars
  <2>4. LogType'
    BY <1>13, EntryType, AppendProperties DEF FailTruncated, LogType, MessageType, BatchType,
       logVars, EmitResult
  <2>5. BatchType'
    BY <1>13 DEF FailTruncated, BatchType, batchVars, CursorInv, CallStatus, Executed, Call,
       ThisCall
  <2>6. CountType'
    BY <1>13 DEF FailTruncated, CountType, MessageType, historyVars
  <2>. QED
    BY <2>1, <2>2, <2>3, <2>4, <2>5, <2>6
<1>14. CASE CloseTruncated
  <2>1. PointType' /\ CursorInv'
    BY <1>14 DEF CloseTruncated, CloseBatch, PointType, CursorInv, ControlPoints, batchVars
  <2>2. FlagType'
    BY <1>14 DEF CloseTruncated, CloseBatch, FlagType, handVars
  <2>3. MessageType'
    BY <1>14 DEF CloseTruncated, MessageType, queueVars, handVars, historyVars
  <2>4. LogType'
    <3>1. reply.turn \in Nat /\ reply.calls \in Nat /\ context \in Seq(Entry)
      BY DEF BatchType, LogType
    <3>2. context' = context \o [i \in 1..reply.calls |-> ResultEntry(reply.turn, i)]
      BY <1>14 DEF CloseTruncated, CloseBatch
    <3>. QED
      BY <1>14, <3>1, <3>2, ResultEntries, ConcatProperties DEF CloseTruncated, LogType
  <2>5. BatchType' /\ CountType'
    BY <1>14 DEF CloseTruncated, BatchType, batchVars, CountType, historyVars
  <2>. QED
    BY <2>1, <2>2, <2>3, <2>4, <2>5
<1>15. CASE StartCall("seqStart", "seqPrepare")
  <2>1. PointType' /\ CursorInv'
    BY <1>15 DEF StartCall, PointType, CursorInv, ControlPoints, BatchPoints, SequentialPoints,
       ParallelPoints, BatchType, queueVars, handVars, logVars, batchVars, historyVars
  <2>2. FlagType'
    BY <1>15 DEF StartCall, FlagType, handVars
  <2>3. MessageType'
    BY <1>15 DEF StartCall, MessageType, queueVars, handVars, historyVars
  <2>4. LogType'
    BY <1>15 DEF StartCall, LogType, MessageType, BatchType, logVars
  <2>5. BatchType'
    BY <1>15 DEF StartCall, BatchType, batchVars, CursorInv, CallStatus, Executed, Call,
       ThisCall
  <2>6. CountType'
    BY <1>15 DEF StartCall, CountType, MessageType, historyVars
  <2>. QED
    BY <2>1, <2>2, <2>3, <2>4, <2>5, <2>6
<1>16. CASE StartCall("parStart", "parPrepare")
  <2>1. PointType' /\ CursorInv'
    BY <1>16 DEF StartCall, PointType, CursorInv, ControlPoints, BatchPoints, SequentialPoints,
       ParallelPoints, BatchType, queueVars, handVars, logVars, batchVars, historyVars
  <2>2. FlagType'
    BY <1>16 DEF StartCall, FlagType, handVars
  <2>3. MessageType'
    BY <1>16 DEF StartCall, MessageType, queueVars, handVars, historyVars
  <2>4. LogType'
    BY <1>16 DEF StartCall, LogType, MessageType, BatchType, logVars
  <2>5. BatchType'
    BY <1>16 DEF StartCall, BatchType, batchVars, CursorInv, CallStatus, Executed, Call,
       ThisCall
  <2>6. CountType'
    BY <1>16 DEF StartCall, CountType, MessageType, historyVars
  <2>. QED
    BY <2>1, <2>2, <2>3, <2>4, <2>5, <2>6
<1>17. CASE PrepareSequential
  <2>1. PointType' /\ CursorInv'
    BY <1>17 DEF PrepareSequential, PointType, CursorInv, ControlPoints, BatchPoints,
       SequentialPoints, ParallelPoints, BatchType, queueVars, handVars, logVars, batchVars,
       historyVars
  <2>2. FlagType'
    BY <1>17 DEF PrepareSequential, FlagType, handVars
  <2>3. MessageType'
    BY <1>17 DEF PrepareSequential, MessageType, queueVars, handVars, historyVars
  <2>4. LogType'
    <3>1. reply.turn \in Nat /\ at \in Nat
      BY DEF BatchType
    <3>2. context' = context /\ (messages' = messages \/ EmitResult)
      BY <1>17 DEF PrepareSequential
    <3>. QED
      BY <3>1, <3>2, EntryType, AppendProperties DEF EmitResult, LogType
  <2>5. BatchType'
    BY <1>17 DEF PrepareSequential, BatchType, batchVars, CursorInv, CallStatus, Executed,
       Call, ThisCall
  <2>6. CountType'
    BY <1>17 DEF PrepareSequential, CountType, MessageType, historyVars
  <2>. QED
    BY <2>1, <2>2, <2>3, <2>4, <2>5, <2>6
<1>18. CASE FinishSequential
  <2>1. PointType' /\ CursorInv'
    BY <1>18 DEF FinishSequential, PointType, CursorInv, ControlPoints, BatchPoints,
       SequentialPoints, ParallelPoints, BatchType, queueVars, handVars, logVars, batchVars,
       historyVars
  <2>2. FlagType'
    BY <1>18 DEF FinishSequential, FlagType, handVars
  <2>3. MessageType'
    BY <1>18 DEF FinishSequential, MessageType, queueVars, handVars, historyVars
  <2>4. LogType'
    BY <1>18, EntryType, AppendProperties DEF FinishSequential, LogType, MessageType,
       BatchType, logVars, EmitResult
  <2>5. BatchType'
    BY <1>18 DEF FinishSequential, BatchType, batchVars, CursorInv, CallStatus, Executed, Call,
       ThisCall
  <2>6. CountType'
    BY <1>18 DEF FinishSequential, CountType, MessageType, historyVars
  <2>. QED
    BY <2>1, <2>2, <2>3, <2>4, <2>5, <2>6
<1>19. CASE NextSequential
  <2>2. CASE aborted \/ at = reply.calls
    <3>1. PointType' /\ CursorInv'
      BY <1>19, <2>2 DEF NextSequential, CloseBatch, PointType, CursorInv, ControlPoints
    <3>2. FlagType'
      BY <1>19, <2>2 DEF NextSequential, CloseBatch, FlagType, handVars
    <3>3. LogType'
      <4>1. reply.turn \in Nat /\ at \in Nat /\ context \in Seq(Entry)
        BY DEF BatchType, LogType
      <4>2. context' = context \o [i \in 1..at |-> ResultEntry(reply.turn, i)]
        BY <1>19, <2>2 DEF NextSequential, CloseBatch
      <4>. QED
        BY <1>19, <4>1, <4>2, ResultEntries, ConcatProperties DEF NextSequential, LogType
    <3>4. BatchType'
      BY <1>19, <2>2 DEF NextSequential, BatchType
    <3>. QED
      BY <1>19, <3>1, <3>2, <3>3, <3>4
         DEF NextSequential, MessageType, CountType, queueVars, handVars, historyVars
  <2>3. CASE ~(aborted \/ at = reply.calls)
    <3>1. pc' = "seqStart" /\ at' = at + 1 /\ UNCHANGED <<context, hasMore>>
      BY <1>19, <2>3 DEF NextSequential
    <3>2. at \in 1..(MaxCalls + 1) /\ reply.calls \in 0..MaxCalls /\ at <= reply.calls
      BY <1>19 DEF NextSequential, BatchType, CursorInv
    <3>3. at' \in 1..(MaxCalls + 1) /\ at' <= reply.calls
      BY <2>3, <3>1, <3>2
    <3>4. PointType' /\ CursorInv'
      BY <1>19, <3>1, <3>3 DEF NextSequential, PointType, CursorInv, ControlPoints, BatchPoints,
         SequentialPoints
    <3>5. FlagType'
      BY <1>19, <3>1 DEF NextSequential, FlagType, handVars
    <3>6. BatchType' /\ LogType'
      BY <1>19, <3>1, <3>3 DEF NextSequential, BatchType, LogType
    <3>. QED
      BY <1>19, <3>4, <3>5, <3>6
         DEF NextSequential, MessageType, CountType, queueVars, handVars, historyVars
  <2>. QED
    BY <2>2, <2>3
<1>20. CASE PrepareParallel
  BY <1>20 DEF PrepareParallel, PointType, CursorInv, FlagType, MessageType, LogType,
     BatchType, CountType, ControlPoints, BatchPoints, SequentialPoints, ParallelPoints,
     queueVars, handVars, logVars, batchVars, historyVars, CallStatus, ThisCall, Call
<1>21. CASE NextParallel
  <2>1. at \in 1..(MaxCalls + 1) /\ reply.calls \in 0..MaxCalls /\ at <= reply.calls
    BY <1>21 DEF NextParallel, BatchType, CursorInv
  <2>2. CASE aborted \/ at = reply.calls
    <3>1. /\ pc' = "parRun" /\ at' = at
          /\ batch' = [i \in 1..MaxCalls |->
                          IF batch[i] = "prepared" THEN "running" ELSE batch[i]]
      BY <1>21, <2>2 DEF NextParallel
    <3>2. batch' \in [1..MaxCalls -> CallStatus]
      BY <3>1 DEF BatchType, CallStatus
    <3>. QED
      BY <1>21, <3>1, <3>2 DEF NextParallel, PointType, CursorInv, ControlPoints, BatchPoints,
         ParallelPoints, FlagType, MessageType, LogType, BatchType, CountType, queueVars,
         handVars, logVars, historyVars
  <2>3. CASE ~(aborted \/ at = reply.calls)
    <3>1. pc' = "parStart" /\ at' = at + 1 /\ batch' = batch
      BY <1>21, <2>3 DEF NextParallel
    <3>2. at' \in 1..(MaxCalls + 1) /\ at' <= reply.calls
      BY <2>1, <2>3, <3>1
    <3>. QED
      BY <1>21, <3>1, <3>2 DEF NextParallel, PointType, CursorInv, ControlPoints, BatchPoints,
         ParallelPoints, FlagType, MessageType, LogType, BatchType, CountType, queueVars,
         handVars, logVars, historyVars
  <2>. QED
    BY <2>2, <2>3
<1>22. ASSUME NEW i \in 1..MaxCalls, FinishParallel(i) PROVE TypeInv'
  BY <1>22 DEF FinishParallel, Executed, PointType, CursorInv, FlagType, MessageType, LogType,
     BatchType, CountType, ControlPoints, BatchPoints, SequentialPoints, ParallelPoints,
     queueVars, handVars, logVars, batchVars, historyVars, CallStatus, ThisCall, Call
<1>23. CASE CollectParallel
  BY <1>23 DEF CollectParallel, PointType, CursorInv, FlagType, MessageType, LogType,
     BatchType, CountType, ControlPoints, BatchPoints, SequentialPoints, ParallelPoints,
     queueVars, handVars, logVars, batchVars, historyVars, CallStatus, ThisCall, Call
<1>24. CASE EmitParallelResult
  <2>1. at \in 1..(MaxCalls + 1) /\ reply.calls \in 0..MaxCalls /\ at <= reply.calls
    BY <1>24 DEF EmitParallelResult, Answerable, BatchType
  <2>2. at' \in 1..(MaxCalls + 1)
    BY <1>24, <2>1 DEF EmitParallelResult
  <2>3. LogType'
    BY <1>24, <2>1, EntryType, AppendProperties DEF EmitParallelResult, EmitResult, LogType, BatchType
  <2>4. PointType' /\ CursorInv'
    BY <1>24 DEF EmitParallelResult, PointType, CursorInv
  <2>. QED
    BY <1>24, <2>2, <2>3, <2>4 DEF EmitParallelResult, FlagType, MessageType, BatchType, CountType,
       queueVars, handVars, historyVars
<1>25. CASE CloseParallel
  <2>1. PointType' /\ CursorInv'
    BY <1>25 DEF CloseParallel, CloseBatch, PointType, CursorInv, ControlPoints, batchVars
  <2>2. FlagType'
    BY <1>25 DEF CloseParallel, CloseBatch, FlagType, handVars
  <2>3. MessageType'
    BY <1>25 DEF CloseParallel, MessageType, queueVars, handVars, historyVars
  <2>4. LogType'
    <3>1. reply.turn \in Nat /\ at - 1 \in Nat /\ context \in Seq(Entry)
      BY DEF BatchType, LogType
    <3>2. context' = context \o [i \in 1..(at - 1) |-> ResultEntry(reply.turn, i)]
      BY <1>25 DEF CloseParallel, CloseBatch
    <3>. QED
      BY <1>25, <3>1, <3>2, ResultEntries, ConcatProperties DEF CloseParallel, LogType
  <2>5. BatchType' /\ CountType'
    BY <1>25 DEF CloseParallel, BatchType, batchVars, CountType, historyVars
  <2>. QED
    BY <2>1, <2>2, <2>3, <2>4, <2>5
<1>26. CASE PollSteering
  <2>1. PointType' /\ CursorInv'
    BY <1>26 DEF PollSteering, PointType, CursorInv, ControlPoints, BatchPoints,
       SequentialPoints, ParallelPoints, BatchType, queueVars, handVars, logVars, batchVars,
       historyVars
  <2>2. FlagType'
    BY <1>26 DEF PollSteering, FlagType, handVars
  <2>3. MessageType'
    BY <1>26, DrainType DEF PollSteering, MessageType, queueVars, handVars, historyVars,
       DrainSteering, DrainFollowUps
  <2>4. LogType'
    BY <1>26 DEF PollSteering, LogType, MessageType, BatchType, logVars
  <2>5. BatchType'
    BY <1>26 DEF PollSteering, BatchType, batchVars, CursorInv, CallStatus, Executed, Call,
       ThisCall
  <2>6. CountType'
    BY <1>26 DEF PollSteering, CountType, MessageType, historyVars
  <2>. QED
    BY <2>1, <2>2, <2>3, <2>4, <2>5, <2>6
<1>27. CASE PollFollowUps
  <2>1. PointType' /\ CursorInv'
    BY <1>27 DEF PollFollowUps, PointType, CursorInv, ControlPoints, BatchPoints,
       SequentialPoints, ParallelPoints, BatchType, queueVars, handVars, logVars, batchVars,
       historyVars
  <2>2. FlagType'
    BY <1>27 DEF PollFollowUps, FlagType, handVars
  <2>3. MessageType'
    BY <1>27, DrainType DEF PollFollowUps, MessageType, queueVars, handVars, historyVars,
       DrainSteering, DrainFollowUps
  <2>4. LogType'
    BY <1>27 DEF PollFollowUps, LogType, MessageType, BatchType, logVars
  <2>5. BatchType'
    BY <1>27 DEF PollFollowUps, BatchType, batchVars, CursorInv, CallStatus, Executed, Call,
       ThisCall
  <2>6. CountType'
    BY <1>27 DEF PollFollowUps, CountType, MessageType, historyVars
  <2>. QED
    BY <2>1, <2>2, <2>3, <2>4, <2>5, <2>6
<1>28. CASE FinishRun
  <2>1. PointType' /\ CursorInv'
    BY <1>28 DEF FinishRun, PointType, CursorInv, ControlPoints, BatchPoints, SequentialPoints,
       ParallelPoints, BatchType, queueVars, handVars, logVars, batchVars, historyVars
  <2>2. FlagType'
    BY <1>28 DEF FinishRun, FlagType, handVars
  <2>3. MessageType'
    BY <1>28 DEF FinishRun, MessageType, queueVars, handVars, historyVars
  <2>4. LogType'
    BY <1>28, EmptySeq DEF FinishRun, LogType, MessageType, BatchType, logVars
  <2>5. BatchType'
    BY <1>28 DEF FinishRun, BatchType, batchVars, CursorInv, CallStatus, Executed, Call,
       ThisCall
  <2>6. CountType'
    BY <1>28 DEF FinishRun, CountType, MessageType, historyVars
  <2>. QED
    BY <2>1, <2>2, <2>3, <2>4, <2>5, <2>6
<1>29. CASE RunThrows
  <2>1. PointType' /\ CursorInv'
    BY <1>29 DEF RunThrows, PointType, CursorInv, ControlPoints, BatchPoints, SequentialPoints,
       ParallelPoints, BatchType, queueVars, handVars, logVars, batchVars, historyVars
  <2>2. FlagType'
    BY <1>29 DEF RunThrows, FlagType, handVars
  <2>3. MessageType'
    BY <1>29, EmptySeq DEF RunThrows, MessageType, queueVars, handVars, historyVars
  <2>4. LogType'
    BY <1>29 DEF RunThrows, LogType, MessageType, BatchType, logVars
  <2>5. BatchType'
    BY <1>29 DEF RunThrows, BatchType, batchVars, CursorInv, CallStatus, Executed, Call,
       ThisCall, NoCalls, Running
  <2>6. CountType'
    BY <1>29 DEF RunThrows, CountType, MessageType, historyVars
  <2>. QED
    BY <2>1, <2>2, <2>3, <2>4, <2>5, <2>6
<1>30. CASE HandleRunFailure
  <2>1. LogType'
    <3>1. CASE UNCHANGED messages
      BY <1>30, <3>1 DEF HandleRunFailure, LogType
    <3>2. CASE messages' = Append(messages,
                   AssistantEntry(0, IF aborted THEN "aborted" ELSE "error", 0))
      <4>1. (IF aborted THEN "aborted" ELSE "error") \in StopReasons
        BY DEF StopReasons
      <4>. QED
        BY <1>30, <3>2, <4>1, EntryType, AppendProperties DEF HandleRunFailure, LogType
    <3>. QED
      BY <1>30, <3>1, <3>2 DEF HandleRunFailure
  <2>2. PointType' /\ CursorInv'
    BY <1>30 DEF HandleRunFailure, PointType, CursorInv, ControlPoints, batchVars
  <2>. QED
    BY <1>30, <2>1, <2>2 DEF HandleRunFailure, FlagType, MessageType, BatchType, CountType,
       queueVars, handVars, batchVars, historyVars
<1>31. ASSUME NEW call \in orphans, OrphanEnds(call) PROVE TypeInv'
  BY <1>31 DEF OrphanEnds, PointType, CursorInv, FlagType, MessageType, LogType, BatchType,
     CountType, ControlPoints, BatchPoints, SequentialPoints, ParallelPoints, queueVars,
     handVars, logVars, batchVars, historyVars, CallStatus, ThisCall, Call
<1>32. CASE Steer
  <2>1. PointType' /\ CursorInv'
    BY <1>32 DEF Steer, PointType, CursorInv, ControlPoints, BatchPoints, SequentialPoints,
       ParallelPoints, BatchType, queueVars, handVars, logVars, batchVars, historyVars
  <2>2. FlagType'
    BY <1>32 DEF Steer, FlagType, handVars
  <2>3. MessageType'
    BY <1>32 DEF Steer, MessageType, queueVars, handVars, historyVars, CountType, Message,
       Lanes
  <2>4. LogType'
    BY <1>32 DEF Steer, LogType, MessageType, BatchType, logVars
  <2>5. BatchType'
    BY <1>32 DEF Steer, BatchType, batchVars, CursorInv, CallStatus, Executed, Call, ThisCall
  <2>6. CountType'
    BY <1>32 DEF Steer, CountType, MessageType, historyVars
  <2>. QED
    BY <2>1, <2>2, <2>3, <2>4, <2>5, <2>6
<1>33. CASE FollowUp
  <2>1. PointType' /\ CursorInv'
    BY <1>33 DEF FollowUp, PointType, CursorInv, ControlPoints, BatchPoints, SequentialPoints,
       ParallelPoints, BatchType, queueVars, handVars, logVars, batchVars, historyVars
  <2>2. FlagType'
    BY <1>33 DEF FollowUp, FlagType, handVars
  <2>3. MessageType'
    BY <1>33 DEF FollowUp, MessageType, queueVars, handVars, historyVars, CountType, Message,
       Lanes
  <2>4. LogType'
    BY <1>33 DEF FollowUp, LogType, MessageType, BatchType, logVars
  <2>5. BatchType'
    BY <1>33 DEF FollowUp, BatchType, batchVars, CursorInv, CallStatus, Executed, Call,
       ThisCall
  <2>6. CountType'
    BY <1>33 DEF FollowUp, CountType, MessageType, historyVars
  <2>. QED
    BY <2>1, <2>2, <2>3, <2>4, <2>5, <2>6
<1>34. CASE ClearSteering
  <2>1. PointType' /\ CursorInv'
    BY <1>34 DEF ClearSteering, PointType, CursorInv, ControlPoints, BatchPoints,
       SequentialPoints, ParallelPoints, BatchType, queueVars, handVars, logVars, batchVars,
       historyVars
  <2>2. FlagType'
    BY <1>34 DEF ClearSteering, FlagType, handVars
  <2>3. MessageType'
    BY <1>34, EmptySeq DEF ClearSteering, MessageType, queueVars, handVars, historyVars
  <2>4. LogType'
    BY <1>34 DEF ClearSteering, LogType, MessageType, BatchType, logVars
  <2>5. BatchType'
    BY <1>34 DEF ClearSteering, BatchType, batchVars, CursorInv, CallStatus, Executed, Call,
       ThisCall
  <2>6. CountType'
    BY <1>34, IdsType DEF ClearSteering, CountType, MessageType, historyVars
  <2>. QED
    BY <2>1, <2>2, <2>3, <2>4, <2>5, <2>6
<1>35. CASE ClearFollowUps
  <2>1. PointType' /\ CursorInv'
    BY <1>35 DEF ClearFollowUps, PointType, CursorInv, ControlPoints, BatchPoints,
       SequentialPoints, ParallelPoints, BatchType, queueVars, handVars, logVars, batchVars,
       historyVars
  <2>2. FlagType'
    BY <1>35 DEF ClearFollowUps, FlagType, handVars
  <2>3. MessageType'
    BY <1>35, EmptySeq DEF ClearFollowUps, MessageType, queueVars, handVars, historyVars
  <2>4. LogType'
    BY <1>35 DEF ClearFollowUps, LogType, MessageType, BatchType, logVars
  <2>5. BatchType'
    BY <1>35 DEF ClearFollowUps, BatchType, batchVars, CursorInv, CallStatus, Executed, Call,
       ThisCall
  <2>6. CountType'
    BY <1>35, IdsType DEF ClearFollowUps, CountType, MessageType, historyVars
  <2>. QED
    BY <2>1, <2>2, <2>3, <2>4, <2>5, <2>6
<1>36. ASSUME NEW i \in DOMAIN steeringQueue, RemoveSteering(i) PROVE TypeInv'
  <2>1. steeringQueue \in Seq(Message) /\ steeringQueue[i] \in Message
    BY DEF MessageType
  <2>2. steeringQueue' \in Seq(Message)
    BY <1>36, <2>1, RemoveAtType DEF RemoveSteering
  <2>3. CountType'
    BY <1>36, <2>1 DEF RemoveSteering, CountType, Message
  <2>4. PointType' /\ CursorInv'
    BY <1>36 DEF RemoveSteering, PointType, CursorInv, batchVars
  <2>. QED
    BY <1>36, <2>2, <2>3, <2>4 DEF RemoveSteering, FlagType, MessageType, LogType, BatchType, handVars,
       logVars, batchVars
<1>37. ASSUME NEW i \in DOMAIN followUpQueue, RemoveFollowUp(i) PROVE TypeInv'
  <2>1. followUpQueue \in Seq(Message) /\ followUpQueue[i] \in Message
    BY DEF MessageType
  <2>2. followUpQueue' \in Seq(Message)
    BY <1>37, <2>1, RemoveAtType DEF RemoveFollowUp
  <2>3. CountType'
    BY <1>37, <2>1 DEF RemoveFollowUp, CountType, Message
  <2>4. PointType' /\ CursorInv'
    BY <1>37 DEF RemoveFollowUp, PointType, CursorInv, batchVars
  <2>. QED
    BY <1>37, <2>2, <2>3, <2>4 DEF RemoveFollowUp, FlagType, MessageType, LogType, BatchType, handVars,
       logVars, batchVars
<1>38. CASE Abort
  BY <1>38 DEF Abort, PointType, CursorInv, FlagType, MessageType, LogType, BatchType,
     CountType, ControlPoints, BatchPoints, SequentialPoints, ParallelPoints, queueVars,
     handVars, logVars, batchVars, historyVars, CallStatus, ThisCall, Call
<1>39. CASE Reset
  <2>1. PointType' /\ CursorInv'
    BY <1>39 DEF Reset, PointType, CursorInv, ControlPoints, BatchPoints, SequentialPoints,
       ParallelPoints, BatchType, queueVars, handVars, logVars, batchVars, historyVars
  <2>2. FlagType'
    BY <1>39 DEF Reset, FlagType, handVars
  <2>3. MessageType'
    BY <1>39, EmptySeq DEF Reset, MessageType, queueVars, handVars, historyVars
  <2>4. LogType'
    BY <1>39, EmptySeq DEF Reset, LogType, MessageType, BatchType, logVars
  <2>5. BatchType'
    BY <1>39 DEF Reset, BatchType, batchVars, CursorInv, CallStatus, Executed, Call, ThisCall
  <2>6. CountType'
    BY <1>39, IdsType DEF Reset, CountType, MessageType, historyVars
  <2>. QED
    BY <2>1, <2>2, <2>3, <2>4, <2>5, <2>6
<1>. QED
  BY <1>1, <1>2, <1>3, <1>4, <1>5, <1>6, <1>7, <1>8, <1>9, <1>10, <1>11, <1>12, <1>13, <1>14,
     <1>15, <1>16, <1>17, <1>18, <1>19, <1>20, <1>21, <1>22, <1>23, <1>24, <1>25, <1>26, <1>27,
     <1>28, <1>29, <1>30, <1>31, <1>32, <1>33, <1>34, <1>35, <1>36, <1>37, <1>38, <1>39 DEF
     Next, Start, Loop, Tools, Orphan, Callers

(* In every reachable state, every variable has its type.                  *)
THEOREM TypeCorrect == Spec => []TypeOK
<1>1. Spec => []TypeInv
  BY TypeInit, TypeStep, PTL DEF Spec
<1>2. TypeInv => TypeOK
  BY DEF TypeInv
<1>. QED
  BY <1>1, <1>2, PTL

-----------------------------------------------------------------------------
(***************************************************************************)
(* 2. Messages.                                                            *)
(***************************************************************************)

(* The ids of a sequence are those of its messages.                        *)
LEMMA IdsOfElems ==
    ASSUME NEW s
    PROVE  Ids(s) = {m.id : m \in Elems(s)}
  BY DEF Ids, Elems

LEMMA ElemsType ==
    ASSUME NEW s \in Seq(Message)
    PROVE  /\ Elems(s) \subseteq Message
           /\ \A m \in Elems(s) : m.id \in Nat \ {0} /\ m.lane \in Lanes
           /\ s # <<>> => Head(s) \in Elems(s)
           /\ s = <<>> <=> Elems(s) = {}
<1>1. Elems(s) \subseteq Message
  BY ElementOfSeq, LenProperties DEF Elems
<1>2. \A m \in Elems(s) : m.id \in Nat \ {0} /\ m.lane \in Lanes
  BY <1>1 DEF Message
<1>3. ASSUME s # <<>> PROVE Head(s) \in Elems(s)
  <2>1. 1 \in DOMAIN s /\ Head(s) = s[1]
    BY <1>3, LenProperties, EmptySeq
  <2>. QED
    BY <2>1 DEF Elems
<1>4. s = <<>> => Elems(s) = {}
  BY DEF Elems
<1>. QED
  BY <1>1, <1>2, <1>3, <1>4

LEMMA ElemsEmpty ==
    /\ Elems(<<>>) = {} /\ Ids(<<>>) = {} /\ Increasing(<<>>) /\ InOrder(<<>>)
  BY DEF Elems, Ids, Increasing, InOrder

(* A message appended to a line.                                           *)
LEMMA AppendElems ==
    ASSUME NEW s \in Seq(Message), NEW m \in Message
    PROVE  /\ Append(s, m) \in Seq(Message)
           /\ Elems(Append(s, m)) = Elems(s) \cup {m}
           /\ Ids(Append(s, m)) = Ids(s) \cup {m.id}
<1>1. /\ Append(s, m) \in Seq(Message)
      /\ DOMAIN Append(s, m) = 1..(Len(s) + 1) /\ DOMAIN s = 1..Len(s) /\ Len(s) \in Nat
      /\ \A i \in 1..Len(s) : Append(s, m)[i] = s[i]
      /\ Append(s, m)[Len(s) + 1] = m
  BY AppendProperties, LenProperties
<1>2. Elems(Append(s, m)) = Elems(s) \cup {m}
  BY <1>1 DEF Elems
<1>. QED
  BY <1>1, <1>2, IdsOfElems

LEMMA AppendIncreasing ==
    ASSUME NEW s \in Seq(Message), NEW m \in Message, Increasing(s),
           \A a \in Elems(s) : a.id < m.id
    PROVE  Increasing(Append(s, m))
<1>1. /\ DOMAIN Append(s, m) = 1..(Len(s) + 1) /\ DOMAIN s = 1..Len(s) /\ Len(s) \in Nat
      /\ \A i \in 1..Len(s) : Append(s, m)[i] = s[i]
      /\ Append(s, m)[Len(s) + 1] = m
  BY AppendProperties, LenProperties
<1>2. \A i \in 1..Len(s) : s[i].id < m.id
  BY <1>1 DEF Elems
<1>. QED
  BY <1>1, <1>2 DEF Increasing

LEMMA AppendInOrder ==
    ASSUME NEW s \in Seq(Message), NEW m \in Message, InOrder(s),
           \A a \in Elems(s) : a.lane = m.lane => a.id < m.id
    PROVE  InOrder(Append(s, m))
<1>1. /\ DOMAIN Append(s, m) = 1..(Len(s) + 1) /\ DOMAIN s = 1..Len(s) /\ Len(s) \in Nat
      /\ \A i \in 1..Len(s) : Append(s, m)[i] = s[i]
      /\ Append(s, m)[Len(s) + 1] = m
  BY AppendProperties, LenProperties
<1>2. \A i \in 1..Len(s) : s[i].lane = m.lane => s[i].id < m.id
  BY <1>1 DEF Elems
<1>. QED
  BY <1>1, <1>2 DEF InOrder

(* The head taken from a line.                                             *)
LEMMA TailElems ==
    ASSUME NEW s \in Seq(Message), s # <<>>, Increasing(s)
    PROVE  /\ Head(s) \in Message /\ Tail(s) \in Seq(Message)
           /\ Elems(s) = {Head(s)} \cup Elems(Tail(s))
           /\ Ids(s) = {Head(s).id} \cup Ids(Tail(s))
           /\ \A b \in Elems(Tail(s)) : Head(s).id < b.id
           /\ Head(s).id \notin Ids(Tail(s))
           /\ Increasing(Tail(s))
<1>1. /\ Len(s) \in Nat /\ DOMAIN s = 1..Len(s) /\ Len(s) >= 1
      /\ Head(s) \in Message /\ Head(s) = s[1]
      /\ Tail(s) \in Seq(Message) /\ DOMAIN Tail(s) = 1..(Len(s) - 1)
      /\ \A i \in 1..(Len(s) - 1) : Tail(s)[i] = s[i + 1]
  BY HeadTailProperties, LenProperties, EmptySeq
<1>2. Elems(s) = {Head(s)} \cup Elems(Tail(s))
  <2>1. \A i \in 1..Len(s) : i = 1 \/ (i - 1 \in 1..(Len(s) - 1) /\ s[i] = Tail(s)[i - 1])
    BY <1>1
  <2>2. Elems(s) \subseteq {Head(s)} \cup Elems(Tail(s))
    <3>. SUFFICES ASSUME NEW m \in Elems(s), m # Head(s) PROVE m \in Elems(Tail(s))
      OBVIOUS
    <3>1. PICK i \in 1..Len(s) : m = s[i]
      BY <1>1 DEF Elems
    <3>2. i - 1 \in 1..(Len(s) - 1) /\ m = Tail(s)[i - 1]
      BY <2>1, <3>1, <1>1
    <3>. QED
      BY <3>2, <1>1 DEF Elems
  <2>3. {Head(s)} \cup Elems(Tail(s)) \subseteq Elems(s)
    BY <1>1 DEF Elems
  <2>. QED
    BY <2>2, <2>3
<1>3. \A b \in Elems(Tail(s)) : Head(s).id < b.id
  BY <1>1 DEF Elems, Increasing
<1>4. Increasing(Tail(s))
  BY <1>1 DEF Increasing
<1>5. Ids(s) = {Head(s).id} \cup Ids(Tail(s))
  BY <1>2, IdsOfElems
<1>6. Head(s).id \notin Ids(Tail(s))
  <2>1. Head(s).id \in Nat
    BY <1>1 DEF Message
  <2>. QED
    BY <2>1, <1>3, IdsOfElems
<1>. QED
  BY <1>1, <1>2, <1>3, <1>4, <1>5, <1>6

(* Draining splits a line: what is taken precedes what stays.              *)
LEMMA DrainElems ==
    ASSUME NEW q \in Seq(Message), NEW mode, Increasing(q)
    PROVE  /\ Drained(q, mode) \in Seq(Message) /\ Undrained(q, mode) \in Seq(Message)
           /\ Elems(q) = Elems(Drained(q, mode)) \cup Elems(Undrained(q, mode))
           /\ Ids(q) = Ids(Drained(q, mode)) \cup Ids(Undrained(q, mode))
           /\ Ids(Drained(q, mode)) \cap Ids(Undrained(q, mode)) = {}
           /\ \A a \in Elems(Drained(q, mode)), b \in Elems(Undrained(q, mode)) : a.id < b.id
           /\ Increasing(Drained(q, mode)) /\ Increasing(Undrained(q, mode))
<1>1. CASE mode = "all" \/ q = <<>>
  <2>1. Drained(q, mode) = q /\ Undrained(q, mode) = <<>>
    BY <1>1 DEF Drained, Undrained
  <2>. QED
    BY <2>1, ElemsEmpty, EmptySeq
<1>2. CASE ~(mode = "all" \/ q = <<>>)
  <2>1. Drained(q, mode) = <<Head(q)>> /\ Undrained(q, mode) = Tail(q)
    BY <1>2 DEF Drained, Undrained
  <2>2. /\ <<Head(q)>> \in Seq(Message)
        /\ Elems(<<Head(q)>>) = {Head(q)} /\ Ids(<<Head(q)>>) = {Head(q).id}
        /\ Increasing(<<Head(q)>>)
    <3>1. Head(q) \in Message
      BY <1>2, TailElems
    <3>2. \A i \in DOMAIN <<Head(q)>> : i = 1 /\ <<Head(q)>>[1] = Head(q)
      OBVIOUS
    <3>. QED
      BY <3>1, <3>2 DEF Elems, Ids, Increasing
  <2>. QED
    BY <2>1, <2>2, <1>2, TailElems
<1>. QED
  BY <1>1, <1>2

(* One message taken out of the middle of a line.                          *)
LEMMA RemoveElems ==
    ASSUME NEW q \in Seq(Message), NEW i \in DOMAIN q, Increasing(q)
    PROVE  /\ q[i] \in Elems(q)
           /\ RemoveAt(q, i) \in Seq(Message)
           /\ Elems(RemoveAt(q, i)) \subseteq Elems(q)
           /\ Ids(q) = {q[i].id} \cup Ids(RemoveAt(q, i))
           /\ q[i].id \notin Ids(RemoveAt(q, i))
           /\ Increasing(RemoveAt(q, i))
<1>. DEFINE r == RemoveAt(q, i)
<1>1. /\ Len(q) \in Nat /\ DOMAIN q = 1..Len(q) /\ i \in 1..Len(q)
      /\ r \in Seq(Message) /\ DOMAIN r = 1..(Len(q) - 1)
      /\ \A j \in 1..(Len(q) - 1) : r[j] = IF j < i THEN q[j] ELSE q[j + 1]
  <2>1. r \in Seq(Message) /\ Len(r) = Len(q) - 1
    BY RemoveAtType
  <2>. QED
    BY <2>1, RemoveAtType, LenProperties
<1>. HIDE DEF r
<1>2. Elems(r) \subseteq Elems(q)
  BY <1>1 DEF Elems
<1>3. \A j \in 1..Len(q) : j # i => \E k \in 1..(Len(q) - 1) : r[k] = q[j]
  <2>. SUFFICES ASSUME NEW j \in 1..Len(q), j # i
                PROVE  \E k \in 1..(Len(q) - 1) : r[k] = q[j]
    OBVIOUS
  <2>1. CASE j < i
    BY <2>1, <1>1
  <2>2. CASE j > i
    <3>1. j - 1 \in 1..(Len(q) - 1) /\ ~(j - 1 < i) /\ (j - 1) + 1 = j
      BY <2>2, <1>1
    <3>. QED
      BY <3>1, <1>1
  <2>. QED
    BY <2>1, <2>2, <1>1
<1>4. Elems(q) \subseteq {q[i]} \cup Elems(r)
  <2>. SUFFICES ASSUME NEW m \in Elems(q), m # q[i] PROVE m \in Elems(r)
    OBVIOUS
  <2>1. PICK j \in 1..Len(q) : m = q[j]
    BY <1>1 DEF Elems
  <2>2. \E k \in 1..(Len(q) - 1) : r[k] = m
    BY <2>1, <1>3
  <2>. QED
    BY <2>2, <1>1 DEF Elems
<1>5. q[i] \in Elems(q)
  BY DEF Elems
<1>6. Ids(q) = {q[i].id} \cup Ids(r)
  <2>1. Elems(q) = {q[i]} \cup Elems(r)
    BY <1>2, <1>4, <1>5
  <2>. QED
    BY <2>1, IdsOfElems
<1>7. Increasing(r)
  <2>. SUFFICES ASSUME NEW j \in 1..(Len(q) - 1), NEW k \in 1..(Len(q) - 1), j < k
                PROVE  r[j].id < r[k].id
    BY <1>1 DEF Increasing
  <2>. DEFINE J == IF j < i THEN j ELSE j + 1
              K == IF k < i THEN k ELSE k + 1
  <2>1. r[j] = q[J] /\ r[k] = q[K]
    BY <1>1
  <2>2. J \in 1..Len(q) /\ K \in 1..Len(q) /\ J < K
    BY <1>1
  <2>. HIDE DEF J, K
  <2>. QED
    BY <2>1, <2>2, <1>1 DEF Increasing
<1>8. q[i].id \notin Ids(r)
  <2>1. q[i].id \in Nat /\ \A j \in 1..Len(q) : q[j].id \in Nat
    <3>1. \A j \in 1..Len(q) : q[j] \in Message
      BY ElementOfSeq
    <3>2. \A m \in Message : m.id \in Nat
      BY DEF Message
    <3>. QED
      BY <3>1, <3>2, <1>1
  <2>2. \A j \in 1..Len(q) : j # i => q[j].id # q[i].id
    <3>1. \A j \in 1..Len(q) : (j < i => q[j].id < q[i].id) /\ (i < j => q[i].id < q[j].id)
      BY <1>1 DEF Increasing
    <3>. QED
      BY <3>1, <2>1, <1>1
  <2>3. \A j \in 1..(Len(q) - 1) : r[j].id # q[i].id
    BY <2>2, <1>1
  <2>. QED
    BY <2>3, <1>1 DEF Ids
<1>. QED
  BY <1>1, <1>2, <1>5, <1>6, <1>7, <1>8 DEF r

(* The messages of a prompt: n new ones, all after the k accepted before.  *)
LEMMA PromptElems ==
    ASSUME NEW k \in Nat, NEW n \in Nat
    PROVE  LET taken == [i \in 1..n |-> [id |-> k + i, lane |-> "prompt"]]
           IN  /\ taken \in Seq(Message)
               /\ Ids(taken) = (k + 1)..(k + n)
               /\ \A m \in Elems(taken) : m.lane = "prompt" /\ m.id > k
               /\ Increasing(taken)
<1>. DEFINE taken == [i \in 1..n |-> [id |-> k + i, lane |-> "prompt"]]
<1>1. taken \in Seq(Message)
  BY PromptMessages
<1>2. Ids(taken) = (k + 1)..(k + n)
  <2>1. Ids(taken) = {k + i : i \in 1..n}
    BY DEF Ids
  <2>2. \A x \in (k + 1)..(k + n) : x - k \in 1..n /\ x = k + (x - k)
    OBVIOUS
  <2>3. (k + 1)..(k + n) \subseteq {k + i : i \in 1..n}
    BY <2>2
  <2>4. {k + i : i \in 1..n} \subseteq (k + 1)..(k + n)
    <3>1. \A i \in 1..n : k + i \in (k + 1)..(k + n)
      OBVIOUS
    <3>. QED
      BY <3>1
  <2>. QED
    BY <2>1, <2>3, <2>4
<1>3. \A m \in Elems(taken) : m.lane = "prompt" /\ m.id > k
  BY DEF Elems
<1>4. Increasing(taken)
  BY DEF Increasing
<1>. QED
  BY <1>1, <1>2, <1>3, <1>4

-----------------------------------------------------------------------------
(* The messages of every line have positive ids and a lane.                *)
LEMMA MessageFacts ==
    ASSUME NEW s \in Seq(Message), NEW m \in Elems(s)
    PROVE  m \in Message /\ m.id \in Nat \ {0} /\ m.lane \in Lanes /\ m.id \in Ids(s)
  BY ElemsType, IdsOfElems

MessageVars == <<delivered, prompts, pending, steeringQueue, followUpQueue, removed, issued>>

(* What a step is to MessageLanes: it accepts, delivers or drops messages, *)
(* or none of these.                                                       *)
AsPromised == Promise!Next \/ UNCHANGED Promise!laneVars

(* A step that touches no message.                                         *)
LEMMA QuietStep ==
    ASSUME MessageInv, UNCHANGED MessageVars,
           "throw" \in disturbances => "throw" \in disturbances',
           prompts # <<>> => pc' = "prompts",
           pending # <<>> => pc' \in {"turn", "inject"}
    PROVE  MessageInv' /\ AsPromised
<1>. USE DEF MessageVars
<1>1. LineInv'
  BY DEF MessageInv, LineInv, Increasing, Elems
<1>2. OrderInv'
  BY DEF MessageInv, OrderInv, InOrder, Before, Elems
<1>3. Ids(delivered)' = Ids(delivered) /\ InFlight' = InFlight /\ Queued' = Queued
  BY DEF Ids, InFlight, Queued
<1>4. Ids(steeringQueue)' = Ids(steeringQueue) /\ Ids(followUpQueue)' = Ids(followUpQueue)
  BY DEF Ids
<1>5. PlaceInv'
  BY <1>3, <1>4 DEF MessageInv, PlaceInv, WithdrawnStaysOut
<1>6. NothingForgotten'
  BY <1>3 DEF MessageInv, NothingForgotten
<1>7. AsPromised
  BY DEF AsPromised, Promise!laneVars, InLine, Elems
<1>. QED
  BY <1>1, <1>2, <1>5, <1>6, <1>7 DEF MessageInv

LEMMA MessageInit == Init => MessageInv
<1>. SUFFICES ASSUME Init PROVE MessageInv
  OBVIOUS
<1>1. LineInv
  BY ElemsEmpty DEF Init, LineInv
<1>2. OrderInv
  BY ElemsEmpty DEF Init, OrderInv, Before
<1>3. InFlight = {} /\ Queued = {} /\ Ids(delivered) = {} /\ issued = 0 /\ removed = {}
  BY ElemsEmpty DEF Init, InFlight, Queued
<1>4. PlaceInv
  BY <1>3, ElemsEmpty DEF Init, PlaceInv, WithdrawnStaysOut
<1>5. NothingForgotten
  BY <1>3 DEF NothingForgotten
<1>. QED
  BY <1>1, <1>2, <1>4, <1>5 DEF MessageInv

(* The first message of the prompts is delivered.                          *)
LEMMA EmitPromptStep ==
    ASSUME MessageType, MessageInv, EmitPrompt
    PROVE  MessageInv' /\ AsPromised
<1>. DEFINE h == Head(prompts)
<1>1. /\ delivered \in Seq(Message) /\ prompts \in Seq(Message) /\ prompts # <<>>
      /\ pc = "prompts" /\ pc' = pc
      /\ prompts' = Tail(prompts) /\ delivered' = Append(delivered, h)
      /\ UNCHANGED <<pending, steeringQueue, followUpQueue, removed, issued, disturbances>>
  BY DEF EmitPrompt, MessageType, queueVars
<1>2. Increasing(prompts) /\ pending = <<>>
  BY <1>1 DEF MessageInv, LineInv
<1>3. /\ h \in Message /\ prompts' \in Seq(Message)
      /\ Elems(prompts) = {h} \cup Elems(prompts')
      /\ Ids(prompts) = {h.id} \cup Ids(prompts')
      /\ \A b \in Elems(prompts') : h.id < b.id
      /\ h.id \notin Ids(prompts')
      /\ Increasing(prompts')
  BY <1>1, <1>2, TailElems
<1>4. /\ Elems(delivered') = Elems(delivered) \cup {h}
      /\ Ids(delivered') = Ids(delivered) \cup {h.id}
  BY <1>1, <1>3, AppendElems
<1>. HIDE DEF h
<1>5. LineInv'
  BY <1>1, <1>3 DEF MessageInv, LineInv, Increasing, Elems
<1>6. OrderInv'
  <2>1. \A a \in Elems(delivered) : a.lane = h.lane => a.id < h.id
    BY <1>3 DEF MessageInv, OrderInv, Before
  <2>2. InOrder(delivered')
    BY <1>1, <1>3, <2>1, AppendInOrder DEF MessageInv, OrderInv
  <2>3. Before(delivered', prompts')
    BY <1>3, <1>4 DEF MessageInv, OrderInv, Before
  <2>4. Before(delivered', pending')
    BY <1>1, <1>2, ElemsEmpty DEF Before
  <2>5. Before(delivered', steeringQueue') /\ Before(delivered', followUpQueue')
    BY <1>1, <1>3, <1>4 DEF MessageInv, OrderInv, Before
  <2>6. /\ Before(prompts', steeringQueue') /\ Before(prompts', followUpQueue')
        /\ Before(pending', steeringQueue') /\ Before(pending', followUpQueue')
    BY <1>1, <1>3 DEF MessageInv, OrderInv, Before
  <2>. QED
    BY <2>2, <2>3, <2>4, <2>5, <2>6 DEF OrderInv
<1>7. PlaceInv'
  <2>1. InFlight = {h.id} \cup InFlight' /\ h.id \notin InFlight'
    BY <1>1, <1>2, <1>3, ElemsEmpty DEF InFlight
  <2>2. /\ Queued' = Queued
        /\ Ids(steeringQueue') = Ids(steeringQueue) /\ Ids(followUpQueue') = Ids(followUpQueue)
    BY <1>1 DEF Queued
  <2>3. /\ removed \cup Ids(delivered) \cup InFlight \cup Queued \subseteq 1..issued
        /\ Ids(delivered) \cap (InFlight \cup Queued) = {}
        /\ InFlight \cap Queued = {}
        /\ Ids(steeringQueue) \cap Ids(followUpQueue) = {}
        /\ removed \cap (Ids(delivered) \cup InFlight \cup Queued) = {}
    BY DEF MessageInv, PlaceInv, WithdrawnStaysOut
  <2>4. /\ removed' \cup Ids(delivered') \cup InFlight' \cup Queued' \subseteq 1..issued'
        /\ Ids(delivered') \cap (InFlight' \cup Queued') = {}
        /\ InFlight' \cap Queued' = {}
        /\ removed' \cap (Ids(delivered') \cup InFlight' \cup Queued') = {}
    BY <1>1, <1>4, <2>1, <2>2, <2>3
  <2>. QED
    BY <2>2, <2>3, <2>4 DEF PlaceInv, WithdrawnStaysOut
<1>8. NothingForgotten'
  BY <1>1, <1>3, <1>4 DEF MessageInv, NothingForgotten, InFlight, Queued
<1>9. AsPromised
  <2>1. InLine' = InLine \ {h} /\ h \in InLine
    <3>1. pending' = <<>> /\ UNCHANGED <<steeringQueue, followUpQueue>>
      BY <1>1, <1>2
    <3>2. h \notin Elems(prompts') /\ h \notin Elems(steeringQueue) \cup Elems(followUpQueue)
      <4>1. h.id \in InFlight
        BY <1>3 DEF InFlight
      <4>2. h.id \notin Ids(steeringQueue) \cup Ids(followUpQueue)
        BY <4>1 DEF MessageInv, PlaceInv, Queued
      <4>. QED
        BY <1>3, <4>2, IdsOfElems
    <3>3. InLine = {h} \cup Elems(prompts') \cup Elems(steeringQueue) \cup Elems(followUpQueue)
      BY <1>2, <1>3, ElemsEmpty DEF InLine
    <3>4. InLine' = Elems(prompts') \cup Elems(steeringQueue) \cup Elems(followUpQueue)
      BY <3>1, ElemsEmpty DEF InLine
    <3>. QED
      BY <3>2, <3>3, <3>4
  <2>2. \A m \in InLine : m.lane = h.lane => h.id <= m.id
    <3>1. \A m \in Elems(prompts') : h.id < m.id /\ m.id \in Nat
      BY <1>3, MessageFacts
    <3>2. \A m \in Elems(steeringQueue) \cup Elems(followUpQueue) :
              m.lane = h.lane => h.id < m.id /\ m.id \in Nat
      BY <1>3, MessageFacts DEF MessageInv, OrderInv, Before, MessageType
    <3>3. h.id \in Nat
      BY <1>3 DEF Message
    <3>. QED
      BY <1>2, <1>3, <3>1, <3>2, <3>3, ElemsEmpty DEF InLine
  <2>3. Promise!Deliver(h)
    BY <1>1, <2>1, <2>2 DEF Promise!Deliver, Promise!FirstInLine, h
  <2>. QED
    BY <2>1, <2>3 DEF AsPromised, Promise!Next
<1>. QED
  BY <1>5, <1>6, <1>7, <1>8, <1>9 DEF MessageInv

(* The first pending message is delivered.                                 *)
LEMMA InjectPendingStep ==
    ASSUME MessageType, MessageInv, InjectPending
    PROVE  MessageInv' /\ AsPromised
<1>. DEFINE h == Head(pending)
<1>1. /\ delivered \in Seq(Message) /\ pending \in Seq(Message) /\ pending # <<>>
      /\ pc = "inject" /\ pc' = pc
      /\ pending' = Tail(pending) /\ delivered' = Append(delivered, h)
      /\ UNCHANGED <<prompts, steeringQueue, followUpQueue, removed, issued, disturbances>>
  BY DEF InjectPending, MessageType, queueVars
<1>2. Increasing(pending) /\ prompts = <<>>
  BY <1>1 DEF MessageInv, LineInv
<1>3. /\ h \in Message /\ pending' \in Seq(Message)
      /\ Elems(pending) = {h} \cup Elems(pending')
      /\ Ids(pending) = {h.id} \cup Ids(pending')
      /\ \A b \in Elems(pending') : h.id < b.id
      /\ h.id \notin Ids(pending')
      /\ Increasing(pending')
  BY <1>1, <1>2, TailElems
<1>4. /\ Elems(delivered') = Elems(delivered) \cup {h}
      /\ Ids(delivered') = Ids(delivered) \cup {h.id}
  BY <1>1, <1>3, AppendElems
<1>. HIDE DEF h
<1>5. LineInv'
  BY <1>1, <1>3 DEF MessageInv, LineInv, Increasing, Elems
<1>6. OrderInv'
  <2>1. \A a \in Elems(delivered) : a.lane = h.lane => a.id < h.id
    BY <1>3 DEF MessageInv, OrderInv, Before
  <2>2. InOrder(delivered')
    BY <1>1, <1>3, <2>1, AppendInOrder DEF MessageInv, OrderInv
  <2>3. Before(delivered', pending')
    BY <1>3, <1>4 DEF MessageInv, OrderInv, Before
  <2>4. Before(delivered', prompts')
    BY <1>1, <1>2, ElemsEmpty DEF Before
  <2>5. Before(delivered', steeringQueue') /\ Before(delivered', followUpQueue')
    BY <1>1, <1>3, <1>4 DEF MessageInv, OrderInv, Before
  <2>6. /\ Before(prompts', steeringQueue') /\ Before(prompts', followUpQueue')
        /\ Before(pending', steeringQueue') /\ Before(pending', followUpQueue')
    BY <1>1, <1>3 DEF MessageInv, OrderInv, Before
  <2>. QED
    BY <2>2, <2>3, <2>4, <2>5, <2>6 DEF OrderInv
<1>7. PlaceInv'
  <2>1. InFlight = {h.id} \cup InFlight' /\ h.id \notin InFlight'
    BY <1>1, <1>2, <1>3, ElemsEmpty DEF InFlight
  <2>2. /\ Queued' = Queued
        /\ Ids(steeringQueue') = Ids(steeringQueue) /\ Ids(followUpQueue') = Ids(followUpQueue)
    BY <1>1 DEF Queued
  <2>3. /\ removed \cup Ids(delivered) \cup InFlight \cup Queued \subseteq 1..issued
        /\ Ids(delivered) \cap (InFlight \cup Queued) = {}
        /\ InFlight \cap Queued = {}
        /\ Ids(steeringQueue) \cap Ids(followUpQueue) = {}
        /\ removed \cap (Ids(delivered) \cup InFlight \cup Queued) = {}
    BY DEF MessageInv, PlaceInv, WithdrawnStaysOut
  <2>4. /\ removed' \cup Ids(delivered') \cup InFlight' \cup Queued' \subseteq 1..issued'
        /\ Ids(delivered') \cap (InFlight' \cup Queued') = {}
        /\ InFlight' \cap Queued' = {}
        /\ removed' \cap (Ids(delivered') \cup InFlight' \cup Queued') = {}
    BY <1>1, <1>4, <2>1, <2>2, <2>3
  <2>. QED
    BY <2>2, <2>3, <2>4 DEF PlaceInv, WithdrawnStaysOut
<1>8. NothingForgotten'
  BY <1>1, <1>3, <1>4 DEF MessageInv, NothingForgotten, InFlight, Queued
<1>9. AsPromised
  <2>1. InLine' = InLine \ {h} /\ h \in InLine
    <3>1. prompts' = <<>> /\ UNCHANGED <<steeringQueue, followUpQueue>>
      BY <1>1, <1>2
    <3>2. h \notin Elems(pending') /\ h \notin Elems(steeringQueue) \cup Elems(followUpQueue)
      <4>1. h.id \in InFlight
        BY <1>3 DEF InFlight
      <4>2. h.id \notin Ids(steeringQueue) \cup Ids(followUpQueue)
        BY <4>1 DEF MessageInv, PlaceInv, Queued
      <4>. QED
        BY <1>3, <4>2, IdsOfElems
    <3>3. InLine = {h} \cup Elems(pending') \cup Elems(steeringQueue) \cup Elems(followUpQueue)
      BY <1>2, <1>3, ElemsEmpty DEF InLine
    <3>4. InLine' = Elems(pending') \cup Elems(steeringQueue) \cup Elems(followUpQueue)
      BY <3>1, ElemsEmpty DEF InLine
    <3>. QED
      BY <3>2, <3>3, <3>4
  <2>2. \A m \in InLine : m.lane = h.lane => h.id <= m.id
    <3>1. \A m \in Elems(pending') : h.id < m.id /\ m.id \in Nat
      BY <1>3, MessageFacts
    <3>2. \A m \in Elems(steeringQueue) \cup Elems(followUpQueue) :
              m.lane = h.lane => h.id < m.id /\ m.id \in Nat
      BY <1>3, MessageFacts DEF MessageInv, OrderInv, Before, MessageType
    <3>3. h.id \in Nat
      BY <1>3 DEF Message
    <3>. QED
      BY <1>2, <1>3, <3>1, <3>2, <3>3, ElemsEmpty DEF InLine
  <2>3. Promise!Deliver(h)
    BY <1>1, <2>1, <2>2 DEF Promise!Deliver, Promise!FirstInLine, h
  <2>. QED
    BY <2>1, <2>3 DEF AsPromised, Promise!Next
<1>. QED
  BY <1>5, <1>6, <1>7, <1>8, <1>9 DEF MessageInv

(* The loop takes messages from the steering queue, into its prompts or    *)
(* into its pending messages, while it holds none.                         *)
LEMMA TakeSteeringStep ==
    ASSUME MessageType, MessageInv, DrainSteering, prompts = <<>>, pending = <<>>,
           NEW taken, taken = Drained(steeringQueue, SteeringMode),
           \/ prompts' = taken /\ pending' = <<>> /\ pc' = "prompts"
           \/ pending' = taken /\ prompts' = <<>> /\ pc' \in {"turn", "inject"},
           UNCHANGED <<delivered, followUpQueue, removed, issued, disturbances>>
    PROVE  MessageInv' /\ AsPromised
<1>1. steeringQueue \in Seq(Message) /\ Increasing(steeringQueue)
  BY DEF MessageType, MessageInv, LineInv
<1>2. steeringQueue' = Undrained(steeringQueue, SteeringMode)
  BY DEF DrainSteering
<1>3. /\ taken \in Seq(Message) /\ steeringQueue' \in Seq(Message)
      /\ Elems(steeringQueue) = Elems(taken) \cup Elems(steeringQueue')
      /\ Ids(steeringQueue) = Ids(taken) \cup Ids(steeringQueue')
      /\ Ids(taken) \cap Ids(steeringQueue') = {}
      /\ \A a \in Elems(taken), b \in Elems(steeringQueue') : a.id < b.id
      /\ Increasing(taken) /\ Increasing(steeringQueue')
  BY <1>1, <1>2, DrainElems
<1>4. \A m \in Elems(taken) : m.lane = "steer"
  BY <1>3 DEF MessageInv, LineInv
<1>5. LineInv'
  BY <1>3, <1>4, ElemsEmpty DEF MessageInv, LineInv
<1>6. Before(delivered, taken) /\ Before(delivered, steeringQueue')
  BY <1>3 DEF MessageInv, OrderInv, Before
<1>7. Before(taken, steeringQueue') /\ Before(taken, followUpQueue)
  <2>1. \A m \in Elems(followUpQueue) : m.lane = "followUp"
    BY DEF MessageInv, LineInv
  <2>. QED
    BY <1>3, <1>4, <2>1 DEF Before
<1>8. OrderInv'
  BY <1>6, <1>7, ElemsEmpty DEF MessageInv, OrderInv, Before
<1>9. InFlight' = Ids(taken) /\ InFlight = {}
  BY ElemsEmpty DEF InFlight
<1>10. PlaceInv'
  BY <1>3, <1>9 DEF MessageInv, PlaceInv, WithdrawnStaysOut, Queued
<1>11. NothingForgotten'
  BY <1>3, <1>9 DEF MessageInv, NothingForgotten, Queued
<1>12. AsPromised
  <2>1. InLine' = InLine
    BY <1>3, ElemsEmpty DEF InLine
  <2>. QED
    BY <2>1 DEF AsPromised, Promise!laneVars
<1>. QED
  BY <1>5, <1>8, <1>10, <1>11, <1>12 DEF MessageInv

(* The same for follow-ups.  The loop may stop when there are none.        *)
LEMMA TakeFollowUpsStep ==
    ASSUME MessageType, MessageInv, DrainFollowUps, prompts = <<>>, pending = <<>>,
           NEW taken, taken = Drained(followUpQueue, FollowUpMode),
           \/ prompts' = taken /\ pending' = <<>> /\ pc' = "prompts"
           \/ pending' = taken /\ prompts' = <<>> /\ (taken # <<>> => pc' \in {"turn", "inject"}),
           UNCHANGED <<delivered, steeringQueue, removed, issued, disturbances>>
    PROVE  MessageInv' /\ AsPromised
<1>1. followUpQueue \in Seq(Message) /\ Increasing(followUpQueue)
  BY DEF MessageType, MessageInv, LineInv
<1>2. followUpQueue' = Undrained(followUpQueue, FollowUpMode)
  BY DEF DrainFollowUps
<1>3. /\ taken \in Seq(Message) /\ followUpQueue' \in Seq(Message)
      /\ Elems(followUpQueue) = Elems(taken) \cup Elems(followUpQueue')
      /\ Ids(followUpQueue) = Ids(taken) \cup Ids(followUpQueue')
      /\ Ids(taken) \cap Ids(followUpQueue') = {}
      /\ \A a \in Elems(taken), b \in Elems(followUpQueue') : a.id < b.id
      /\ Increasing(taken) /\ Increasing(followUpQueue')
  BY <1>1, <1>2, DrainElems
<1>4. \A m \in Elems(taken) : m.lane = "followUp"
  BY <1>3 DEF MessageInv, LineInv
<1>5. LineInv'
  BY <1>3, <1>4, ElemsEmpty DEF MessageInv, LineInv
<1>6. Before(delivered, taken) /\ Before(delivered, followUpQueue')
  BY <1>3 DEF MessageInv, OrderInv, Before
<1>7. Before(taken, followUpQueue') /\ Before(taken, steeringQueue)
  <2>1. \A m \in Elems(steeringQueue) : m.lane = "steer"
    BY DEF MessageInv, LineInv
  <2>. QED
    BY <1>3, <1>4, <2>1 DEF Before
<1>8. OrderInv'
  BY <1>6, <1>7, ElemsEmpty DEF MessageInv, OrderInv, Before
<1>9. InFlight' = Ids(taken) /\ InFlight = {}
  BY ElemsEmpty DEF InFlight
<1>10. PlaceInv'
  BY <1>3, <1>9 DEF MessageInv, PlaceInv, WithdrawnStaysOut, Queued
<1>11. NothingForgotten'
  BY <1>3, <1>9 DEF MessageInv, NothingForgotten, Queued
<1>12. AsPromised
  <2>1. InLine' = InLine
    BY <1>3, ElemsEmpty DEF InLine
  <2>. QED
    BY <2>1 DEF AsPromised, Promise!laneVars
<1>. QED
  BY <1>5, <1>8, <1>10, <1>11, <1>12 DEF MessageInv

(* A prompt: its messages come after everything accepted before.           *)
LEMMA PromptStep ==
    ASSUME MessageType, MessageInv, CountType, NEW n \in 1..MaxMessages, Prompt(n)
    PROVE  MessageInv' /\ AsPromised
<1>. DEFINE taken == [i \in 1..n |-> [id |-> issued + i, lane |-> "prompt"]]
<1>0. issued \in Nat /\ n \in Nat
  BY ConstantsAssumption DEF CountType
<1>1. /\ pc = "idle" /\ pc' = "prompts" /\ issued' = issued + n
      /\ prompts' = taken /\ pending' = <<>>
      /\ UNCHANGED <<delivered, steeringQueue, followUpQueue, removed, disturbances>>
  BY DEF Prompt, StartRun, queueVars, historyVars
<1>2. prompts = <<>> /\ pending = <<>>
  BY <1>1 DEF MessageInv, LineInv
<1>3. /\ taken \in Seq(Message) /\ Ids(taken) = (issued + 1)..(issued + n)
      /\ \A m \in Elems(taken) : m.lane = "prompt" /\ m.id > issued
      /\ Increasing(taken)
  BY <1>0, PromptElems
<1>. HIDE DEF taken
<1>4. LineInv'
  BY <1>1, <1>3, ElemsEmpty DEF MessageInv, LineInv, Increasing, Elems
<1>5. \A a \in Elems(delivered) : a.id \in Nat /\ a.id <= issued
  <2>1. Ids(delivered) \subseteq 1..issued
    BY DEF MessageInv, PlaceInv
  <2>2. delivered \in Seq(Message)
    BY DEF MessageType
  <2>. QED
    BY <2>1, <2>2, <1>0, MessageFacts
<1>6. OrderInv'
  <2>1. Before(delivered, taken)
    BY <1>0, <1>3, <1>5, MessageFacts DEF Before
  <2>2. Before(taken, steeringQueue) /\ Before(taken, followUpQueue)
    <3>1. /\ \A m \in Elems(steeringQueue) : m.lane = "steer"
          /\ \A m \in Elems(followUpQueue) : m.lane = "followUp"
      BY DEF MessageInv, LineInv
    <3>. QED
      BY <1>3, <3>1 DEF Before
  <2>. QED
    BY <1>1, <2>1, <2>2, ElemsEmpty DEF MessageInv, OrderInv, Before
<1>7. InFlight' = (issued + 1)..(issued + n) /\ InFlight = {} /\ Queued' = Queued
  BY <1>1, <1>2, <1>3, ElemsEmpty DEF InFlight, Queued
<1>8. /\ 1..issued' = 1..issued \cup (issued + 1)..(issued + n)
      /\ 1..issued \cap (issued + 1)..(issued + n) = {}
  BY <1>0, <1>1
<1>9. PlaceInv'
  BY <1>1, <1>7, <1>8 DEF MessageInv, PlaceInv, WithdrawnStaysOut, Queued
<1>10. NothingForgotten'
  BY <1>1, <1>7, <1>8 DEF MessageInv, NothingForgotten
<1>11. AsPromised
  <2>1. Elems(taken) = {[id |-> issued + i, lane |-> "prompt"] : i \in 1..n}
    BY DEF Elems, taken
  <2>2. InLine' = InLine \cup Elems(taken)
    BY <1>1, <1>2, ElemsEmpty DEF InLine
  <2>3. n \in 1..(MaxMessages - issued)
    BY <1>0, ConstantsAssumption DEF Prompt
  <2>4. Promise!Accept("prompt")
    BY <1>1, <2>1, <2>2, <2>3 DEF Promise!Accept
  <2>. QED
    BY <2>4 DEF AsPromised, Promise!Next, Lanes
<1>. QED
  BY <1>4, <1>6, <1>9, <1>10, <1>11 DEF MessageInv

(* A message queued: it comes after everything accepted before.            *)
LEMMA QueuedAfter ==
    ASSUME MessageType, PlaceInv, issued \in Nat, NEW s,
           s \in {delivered, prompts, pending, steeringQueue, followUpQueue}
    PROVE  \A a \in Elems(s) : a.id < issued + 1
<1>1. Ids(s) \subseteq 1..issued
  BY DEF PlaceInv, InFlight, Queued
<1>2. s \in Seq(Message)
  BY DEF MessageType
<1>. QED
  BY <1>1, <1>2, MessageFacts

LEMMA SteerStep ==
    ASSUME MessageType, MessageInv, CountType, Steer
    PROVE  MessageInv' /\ AsPromised
<1>. DEFINE m == [id |-> issued + 1, lane |-> "steer"]
<1>0. issued \in Nat /\ m \in Message /\ m.id = issued + 1 /\ m.lane = "steer"
  BY ConstantsAssumption DEF CountType, Message, Lanes
<1>1. /\ steeringQueue' = Append(steeringQueue, m) /\ issued' = issued + 1 /\ pc' = pc
      /\ UNCHANGED <<delivered, prompts, pending, followUpQueue, removed, disturbances>>
  BY DEF Steer, handVars, historyVars
<1>. HIDE DEF m
<1>2. steeringQueue \in Seq(Message) /\ Increasing(steeringQueue)
  BY DEF MessageType, MessageInv, LineInv
<1>3. /\ Elems(steeringQueue') = Elems(steeringQueue) \cup {m}
      /\ Ids(steeringQueue') = Ids(steeringQueue) \cup {issued + 1}
  BY <1>0, <1>1, <1>2, AppendElems
<1>4. \A s \in {delivered, prompts, pending, steeringQueue, followUpQueue} :
          \A a \in Elems(s) : a.id < m.id
  BY <1>0, QueuedAfter DEF MessageInv
<1>5. LineInv'
  <2>1. Increasing(steeringQueue')
    BY <1>0, <1>1, <1>2, <1>4, AppendIncreasing
  <2>. QED
    BY <1>0, <1>1, <1>3, <2>1 DEF MessageInv, LineInv, Increasing, Elems
<1>6. OrderInv'
  BY <1>1, <1>3, <1>4 DEF MessageInv, OrderInv, Before
<1>7. /\ 1..issued' = 1..issued \cup {issued + 1} /\ issued + 1 \notin 1..issued
      /\ InFlight' = InFlight /\ Queued' = Queued \cup {issued + 1}
  BY <1>0, <1>1, <1>3 DEF InFlight, Queued
<1>8. PlaceInv'
  BY <1>1, <1>3, <1>7 DEF MessageInv, PlaceInv, WithdrawnStaysOut, Queued
<1>9. NothingForgotten'
  BY <1>1, <1>7 DEF MessageInv, NothingForgotten
<1>10. AsPromised
  <2>1. {[id |-> issued + i, lane |-> "steer"] : i \in 1..1} = {m}
    BY DEF m
  <2>2. InLine' = InLine \cup {m}
    BY <1>1, <1>3 DEF InLine
  <2>3. 1 \in 1..(MaxMessages - issued)
    BY <1>0, ConstantsAssumption DEF Steer
  <2>4. Promise!Accept("steer")
    BY <1>1, <2>1, <2>2, <2>3 DEF Promise!Accept
  <2>. QED
    BY <2>4 DEF AsPromised, Promise!Next, Lanes
<1>. QED
  BY <1>5, <1>6, <1>8, <1>9, <1>10 DEF MessageInv

LEMMA FollowUpStep ==
    ASSUME MessageType, MessageInv, CountType, FollowUp
    PROVE  MessageInv' /\ AsPromised
<1>. DEFINE m == [id |-> issued + 1, lane |-> "followUp"]
<1>0. issued \in Nat /\ m \in Message /\ m.id = issued + 1 /\ m.lane = "followUp"
  BY ConstantsAssumption DEF CountType, Message, Lanes
<1>1. /\ followUpQueue' = Append(followUpQueue, m) /\ issued' = issued + 1 /\ pc' = pc
      /\ UNCHANGED <<delivered, prompts, pending, steeringQueue, removed, disturbances>>
  BY DEF FollowUp, handVars, historyVars
<1>. HIDE DEF m
<1>2. followUpQueue \in Seq(Message) /\ Increasing(followUpQueue)
  BY DEF MessageType, MessageInv, LineInv
<1>3. /\ Elems(followUpQueue') = Elems(followUpQueue) \cup {m}
      /\ Ids(followUpQueue') = Ids(followUpQueue) \cup {issued + 1}
  BY <1>0, <1>1, <1>2, AppendElems
<1>4. \A s \in {delivered, prompts, pending, steeringQueue, followUpQueue} :
          \A a \in Elems(s) : a.id < m.id
  BY <1>0, QueuedAfter DEF MessageInv
<1>5. LineInv'
  <2>1. Increasing(followUpQueue')
    BY <1>0, <1>1, <1>2, <1>4, AppendIncreasing
  <2>. QED
    BY <1>0, <1>1, <1>3, <2>1 DEF MessageInv, LineInv, Increasing, Elems
<1>6. OrderInv'
  BY <1>1, <1>3, <1>4 DEF MessageInv, OrderInv, Before
<1>7. /\ 1..issued' = 1..issued \cup {issued + 1} /\ issued + 1 \notin 1..issued
      /\ InFlight' = InFlight /\ Queued' = Queued \cup {issued + 1}
  BY <1>0, <1>1, <1>3 DEF InFlight, Queued
<1>8. PlaceInv'
  BY <1>1, <1>3, <1>7 DEF MessageInv, PlaceInv, WithdrawnStaysOut, Queued
<1>9. NothingForgotten'
  BY <1>1, <1>7 DEF MessageInv, NothingForgotten
<1>10. AsPromised
  <2>1. {[id |-> issued + i, lane |-> "followUp"] : i \in 1..1} = {m}
    BY DEF m
  <2>2. InLine' = InLine \cup {m}
    BY <1>1, <1>3 DEF InLine
  <2>3. 1 \in 1..(MaxMessages - issued)
    BY <1>0, ConstantsAssumption DEF FollowUp
  <2>4. Promise!Accept("followUp")
    BY <1>1, <2>1, <2>2, <2>3 DEF Promise!Accept
  <2>. QED
    BY <2>4 DEF AsPromised, Promise!Next, Lanes
<1>. QED
  BY <1>5, <1>6, <1>8, <1>9, <1>10 DEF MessageInv

(* Messages are withdrawn from the queues: clear, remove, reset.           *)
LEMMA WithdrawStep ==
    ASSUME MessageInv, NEW gone,
           Increasing(steeringQueue'), Increasing(followUpQueue'),
           Elems(steeringQueue') \subseteq Elems(steeringQueue),
           Elems(followUpQueue') \subseteq Elems(followUpQueue),
           Queued = gone \cup Queued', gone \cap Queued' = {},
           removed' = removed \cup gone,
           "throw" \in disturbances => "throw" \in disturbances',
           UNCHANGED <<pc, delivered, prompts, pending, issued>>
    PROVE  MessageInv' /\ AsPromised
<1>1. LineInv'
  BY DEF MessageInv, LineInv, Increasing
<1>2. OrderInv'
  BY DEF MessageInv, OrderInv, Before
<1>3. InFlight' = InFlight
  BY DEF InFlight
<1>4. /\ Ids(steeringQueue') \subseteq Ids(steeringQueue)
      /\ Ids(followUpQueue') \subseteq Ids(followUpQueue)
  BY IdsOfElems
<1>5. PlaceInv'
  BY <1>3, <1>4 DEF MessageInv, PlaceInv, WithdrawnStaysOut
<1>6. NothingForgotten'
  BY <1>3 DEF MessageInv, NothingForgotten
<1>7. AsPromised
  <2>1. InLine' \subseteq InLine
    BY DEF InLine
  <2>2. Promise!Leave(InLine \ InLine')
    BY <2>1 DEF Promise!Leave
  <2>. QED
    BY <2>2 DEF AsPromised, Promise!Next
<1>. QED
  BY <1>1, <1>2, <1>5, <1>6, <1>7 DEF MessageInv

(* A run that throws loses what the loop held.                             *)
LEMMA ThrowStep ==
    ASSUME MessageInv, RunThrows
    PROVE  MessageInv' /\ AsPromised
<1>1. /\ prompts' = <<>> /\ pending' = <<>> /\ "throw" \in disturbances'
      /\ UNCHANGED <<steeringQueue, followUpQueue, delivered, removed, issued>>
  BY DEF RunThrows, queueVars
<1>2. LineInv'
  BY <1>1, ElemsEmpty DEF MessageInv, LineInv, Increasing, Elems
<1>3. OrderInv'
  BY <1>1, ElemsEmpty DEF MessageInv, OrderInv, Before
<1>4. InFlight' = {} /\ Queued' = Queued
  BY <1>1, ElemsEmpty DEF InFlight, Queued
<1>5. PlaceInv'
  BY <1>1, <1>4 DEF MessageInv, PlaceInv, WithdrawnStaysOut
<1>6. NothingForgotten'
  BY <1>1 DEF NothingForgotten
<1>7. AsPromised
  <2>1. InLine' \subseteq InLine
    BY <1>1, ElemsEmpty DEF InLine
  <2>2. Promise!Leave(InLine \ InLine')
    BY <1>1, <2>1 DEF Promise!Leave
  <2>. QED
    BY <2>2 DEF AsPromised, Promise!Next
<1>. QED
  BY <1>2, <1>3, <1>5, <1>6, <1>7 DEF MessageInv

(* Every step of the agent keeps MessageInv, and is a step of MessageLanes *)
(* or none.                                                                *)
LEMMA MessageStep ==
    ASSUME TypeInv, MessageInv, [Next]_vars
    PROVE  MessageInv' /\ AsPromised
<1>0. MessageType /\ CountType
  BY DEF TypeInv, TypeOK
<1>00. /\ prompts # <<>> => pc = "prompts"
       /\ pending # <<>> => pc \in {"turn", "inject"}
  BY DEF MessageInv, LineInv
<1>1. CASE UNCHANGED vars
  BY <1>1, <1>00, QuietStep DEF vars, queueVars, handVars, historyVars, MessageVars
<1>2. ASSUME NEW n \in 1..MaxMessages, Prompt(n) PROVE MessageInv' /\ AsPromised
  BY <1>0, <1>2, PromptStep
<1>3. CASE ContinueTranscript
  <2>1. prompts = <<>> /\ pending = <<>>
    BY <1>3, <1>00 DEF ContinueTranscript
  <2>2. UNCHANGED MessageVars /\ disturbances' = disturbances
    BY <1>3, <2>1 DEF ContinueTranscript, StartRun, queueVars, historyVars, MessageVars
  <2>. QED
    BY <2>1, <2>2, QuietStep
<1>4. CASE ContinueWithSteering
  <2>. DEFINE taken == Drained(steeringQueue, SteeringMode)
  <2>1. prompts = <<>> /\ pending = <<>>
    BY <1>4, <1>00 DEF ContinueWithSteering
  <2>2. /\ DrainSteering /\ prompts' = taken /\ pending' = <<>> /\ pc' = "prompts"
        /\ UNCHANGED <<delivered, followUpQueue, removed, issued, disturbances>>
    BY <1>4 DEF ContinueWithSteering, StartRun, historyVars
  <2>. QED
    BY <1>0, <2>1, <2>2, TakeSteeringStep
<1>5. CASE ContinueWithFollowUps
  <2>. DEFINE taken == Drained(followUpQueue, FollowUpMode)
  <2>1. prompts = <<>> /\ pending = <<>>
    BY <1>5, <1>00 DEF ContinueWithFollowUps
  <2>2. /\ DrainFollowUps /\ prompts' = taken /\ pending' = <<>> /\ pc' = "prompts"
        /\ UNCHANGED <<delivered, steeringQueue, removed, issued, disturbances>>
    BY <1>5 DEF ContinueWithFollowUps, StartRun, historyVars
  <2>. QED
    BY <1>0, <2>1, <2>2, TakeFollowUpsStep
<1>6. CASE EmitPrompt
  BY <1>0, <1>6, EmitPromptStep
<1>7. CASE InjectPending
  BY <1>0, <1>7, InjectPendingStep
<1>8. CASE InitialPoll
  <2>. DEFINE taken == Drained(steeringQueue, SteeringMode)
  <2>1. prompts = <<>> /\ pending = <<>>
    BY <1>8, <1>00 DEF InitialPoll
  <2>2. CASE skipPoll
    <3>1. UNCHANGED MessageVars /\ disturbances' = disturbances
      BY <1>8, <2>1, <2>2 DEF InitialPoll, historyVars, MessageVars
    <3>. QED
      BY <2>1, <3>1, QuietStep
  <2>3. CASE ~skipPoll
    <3>1. /\ DrainSteering /\ pending' = taken /\ prompts' = <<>> /\ pc' = "turn"
          /\ UNCHANGED <<delivered, followUpQueue, removed, issued, disturbances>>
      BY <1>8, <2>1, <2>3 DEF InitialPoll, historyVars
    <3>. QED
      BY <1>0, <2>1, <3>1, TakeSteeringStep
  <2>. QED
    BY <2>2, <2>3
<1>9. CASE PollSteering
  <2>. DEFINE taken == Drained(steeringQueue, SteeringMode)
  <2>1. prompts = <<>> /\ pending = <<>>
    BY <1>9, <1>00 DEF PollSteering
  <2>2. /\ DrainSteering /\ pending' = taken /\ prompts' = <<>> /\ pc' = "turn"
        /\ UNCHANGED <<delivered, followUpQueue, removed, issued, disturbances>>
    BY <1>9, <2>1 DEF PollSteering, historyVars
  <2>. QED
    BY <1>0, <2>1, <2>2, TakeSteeringStep
<1>10. CASE PollFollowUps
  <2>. DEFINE taken == Drained(followUpQueue, FollowUpMode)
  <2>1. prompts = <<>> /\ pending = <<>>
    BY <1>10, <1>00 DEF PollFollowUps
  <2>2. taken # <<>> => followUpQueue # <<>>
    BY DEF Drained
  <2>3. /\ DrainFollowUps /\ pending' = taken /\ prompts' = <<>>
        /\ followUpQueue # <<>> => pc' = "turn"
        /\ UNCHANGED <<delivered, steeringQueue, removed, issued, disturbances>>
    BY <1>10, <2>1 DEF PollFollowUps, historyVars
  <2>. QED
    BY <1>0, <2>1, <2>2, <2>3, TakeFollowUpsStep
<1>11. CASE RunThrows
  BY <1>11, ThrowStep
<1>12. CASE Steer
  BY <1>0, <1>12, SteerStep
<1>13. CASE FollowUp
  BY <1>0, <1>13, FollowUpStep
<1>14. Increasing(steeringQueue) /\ Increasing(followUpQueue)
  BY DEF MessageInv, LineInv
<1>15. steeringQueue \in Seq(Message) /\ followUpQueue \in Seq(Message)
  BY <1>0 DEF MessageType
<1>16. Ids(steeringQueue) \cap Ids(followUpQueue) = {}
  BY DEF MessageInv, PlaceInv
<1>17. CASE ClearSteering
  <2>1. /\ steeringQueue' = <<>> /\ removed' = removed \cup Ids(steeringQueue)
        /\ UNCHANGED <<pc, delivered, prompts, pending, issued, followUpQueue, disturbances>>
    BY <1>17 DEF ClearSteering, handVars
  <2>2. Queued = Ids(steeringQueue) \cup Queued' /\ Ids(steeringQueue) \cap Queued' = {}
    BY <2>1, <1>16, ElemsEmpty DEF Queued
  <2>. QED
    BY <2>1, <2>2, <1>14, ElemsEmpty, WithdrawStep
<1>18. CASE ClearFollowUps
  <2>1. /\ followUpQueue' = <<>> /\ removed' = removed \cup Ids(followUpQueue)
        /\ UNCHANGED <<pc, delivered, prompts, pending, issued, steeringQueue, disturbances>>
    BY <1>18 DEF ClearFollowUps, handVars
  <2>2. Queued = Ids(followUpQueue) \cup Queued' /\ Ids(followUpQueue) \cap Queued' = {}
    BY <2>1, <1>16, ElemsEmpty DEF Queued
  <2>. QED
    BY <2>1, <2>2, <1>14, ElemsEmpty, WithdrawStep
<1>19. CASE Reset
  <2>1. /\ steeringQueue' = <<>> /\ followUpQueue' = <<>>
        /\ removed' = removed \cup Queued
        /\ "throw" \in disturbances => "throw" \in disturbances'
        /\ UNCHANGED <<pc, delivered, prompts, pending, issued>>
    BY <1>19 DEF Reset, handVars, Queued
  <2>2. Queued' = {}
    BY <2>1, ElemsEmpty DEF Queued
  <2>. QED
    BY <2>1, <2>2, ElemsEmpty, WithdrawStep
<1>20. ASSUME NEW i \in DOMAIN steeringQueue, RemoveSteering(i) PROVE MessageInv' /\ AsPromised
  <2>. DEFINE gone == {steeringQueue[i].id}
  <2>1. /\ steeringQueue' = RemoveAt(steeringQueue, i) /\ removed' = removed \cup gone
        /\ UNCHANGED <<pc, delivered, prompts, pending, issued, followUpQueue, disturbances>>
    BY <1>20 DEF RemoveSteering, handVars
  <2>2. /\ Elems(steeringQueue') \subseteq Elems(steeringQueue)
        /\ Ids(steeringQueue) = gone \cup Ids(steeringQueue')
        /\ gone \cap Ids(steeringQueue') = {}
        /\ Increasing(steeringQueue')
    BY <1>14, <1>15, <2>1, RemoveElems
  <2>3. Queued = gone \cup Queued' /\ gone \cap Queued' = {}
    BY <1>16, <2>1, <2>2 DEF Queued
  <2>. QED
    BY <1>14, <2>1, <2>2, <2>3, WithdrawStep
<1>21. ASSUME NEW i \in DOMAIN followUpQueue, RemoveFollowUp(i) PROVE MessageInv' /\ AsPromised
  <2>. DEFINE gone == {followUpQueue[i].id}
  <2>1. /\ followUpQueue' = RemoveAt(followUpQueue, i) /\ removed' = removed \cup gone
        /\ UNCHANGED <<pc, delivered, prompts, pending, issued, steeringQueue, disturbances>>
    BY <1>21 DEF RemoveFollowUp, handVars
  <2>2. /\ Elems(followUpQueue') \subseteq Elems(followUpQueue)
        /\ Ids(followUpQueue) = gone \cup Ids(followUpQueue')
        /\ gone \cap Ids(followUpQueue') = {}
        /\ Increasing(followUpQueue')
    BY <1>14, <1>15, <2>1, RemoveElems
  <2>3. Queued = gone \cup Queued' /\ gone \cap Queued' = {}
    BY <1>16, <2>1, <2>2 DEF Queued
  <2>. QED
    BY <1>14, <2>1, <2>2, <2>3, WithdrawStep
<1>22. ASSUME NEW call \in orphans, OrphanEnds(call) PROVE MessageInv' /\ AsPromised
  BY <1>22, <1>00, QuietStep DEF OrphanEnds, queueVars, handVars, historyVars, MessageVars
<1>23. CASE StartCall("seqStart", "seqPrepare") \/ StartCall("parStart", "parPrepare")
  BY <1>23, <1>00, QuietStep DEF StartCall, queueVars, handVars, historyVars, MessageVars
<1>24. ASSUME NEW i \in 1..MaxCalls, FinishParallel(i) PROVE MessageInv' /\ AsPromised
  BY <1>24, <1>00, QuietStep DEF FinishParallel, queueVars, handVars, historyVars, MessageVars
<1>25. CASE EnterLoop
  BY <1>25, <1>00, QuietStep DEF EnterLoop, queueVars, handVars, historyVars, MessageVars
<1>26. CASE BeginTurn
  BY <1>26, <1>00, QuietStep DEF BeginTurn, queueVars, handVars, historyVars, MessageVars
<1>27. CASE CallModel
  BY <1>27, <1>00, QuietStep DEF CallModel, queueVars, handVars, historyVars, MessageVars
<1>28. CASE FinishRun
  BY <1>28, <1>00, QuietStep DEF FinishRun, queueVars, handVars, historyVars, MessageVars
<1>29. CASE HandleRunFailure
  BY <1>29, <1>00, QuietStep DEF HandleRunFailure, queueVars, handVars, historyVars, MessageVars
<1>30. CASE Respond
  BY <1>30, <1>00, QuietStep DEF Respond, queueVars, handVars, historyVars, MessageVars
<1>31. CASE FailTruncated
  BY <1>31, <1>00, QuietStep DEF FailTruncated, queueVars, handVars, historyVars, MessageVars
<1>32. CASE CloseTruncated
  BY <1>32, <1>00, QuietStep DEF CloseTruncated, CloseBatch, queueVars, handVars, historyVars, MessageVars
<1>33. CASE PrepareSequential
  BY <1>33, <1>00, QuietStep DEF PrepareSequential, queueVars, handVars, historyVars, MessageVars
<1>34. CASE FinishSequential
  BY <1>34, <1>00, QuietStep DEF FinishSequential, queueVars, handVars, historyVars, MessageVars
<1>35. CASE NextSequential
  BY <1>35, <1>00, QuietStep DEF NextSequential, CloseBatch, queueVars, handVars, historyVars, MessageVars
<1>36. CASE PrepareParallel
  BY <1>36, <1>00, QuietStep DEF PrepareParallel, queueVars, handVars, historyVars, MessageVars
<1>37. CASE NextParallel
  BY <1>37, <1>00, QuietStep DEF NextParallel, queueVars, handVars, historyVars, MessageVars
<1>38. CASE CollectParallel
  BY <1>38, <1>00, QuietStep DEF CollectParallel, queueVars, handVars, historyVars, MessageVars
<1>39. CASE EmitParallelResult
  BY <1>39, <1>00, QuietStep DEF EmitParallelResult, queueVars, handVars, historyVars, MessageVars
<1>40. CASE CloseParallel
  BY <1>40, <1>00, QuietStep DEF CloseParallel, CloseBatch, queueVars, handVars, historyVars, MessageVars
<1>41. CASE Abort
  BY <1>41, <1>00, QuietStep DEF Abort, queueVars, handVars, historyVars, MessageVars
<1>. QED
  BY <1>1, <1>2, <1>3, <1>4, <1>5, <1>6, <1>7, <1>8, <1>9, <1>10, <1>11, <1>12, <1>13,
     <1>17, <1>18, <1>19, <1>20, <1>21, <1>22, <1>23, <1>24, <1>25, <1>26, <1>27, <1>28,
     <1>29, <1>30, <1>31, <1>32, <1>33, <1>34, <1>35, <1>36, <1>37, <1>38, <1>39, <1>40,
     <1>41 DEF
     Next, Start, Loop, Tools, Orphan, Callers

(* In every reachable state each message is in one place, in its lane's    *)
(* order (the queues, runLoop's pendingMessages and the transcript).       *)
THEOREM MessagesInvariant == Spec => []MessageInv
<1>1. Init => TypeInv /\ MessageInv
  BY TypeInit, MessageInit
<1>2. TypeInv /\ MessageInv /\ [Next]_vars => TypeInv' /\ MessageInv'
  BY TypeStep, MessageStep
<1>3. TypeInv /\ MessageInv => MessageInv
  OBVIOUS
<1>. QED
  BY <1>1, <1>2, <1>3, PTL DEF Spec

(* The user's messages are delivered in order, stay withdrawn, and none is *)
(* forgotten (PendingMessageQueue, runLoop, removeQueuedMessage).          *)
THEOREM MessagesAreKept == Spec => []MessagesKept
<1>1. MessageInv => MessagesKept
  BY DEF MessageInv, OrderInv, PlaceInv, MessagesKept, DeliveredInOrder
<1>. QED
  BY <1>1, MessagesInvariant, PTL

(* The agent implements MessageLanes: seen from outside, the polls, the    *)
(* runs and what cuts them short are arrivals, deliveries in order, and    *)
(* departures.                                                             *)
THEOREM AgentKeepsPromise == Spec => KeepsPromise
<1>1. Init => Promise!Init
  BY ElemsEmpty DEF Init, Promise!Init, InLine
<1>2. TypeInv /\ MessageInv /\ [Next]_vars => [Promise!Next]_Promise!laneVars
  BY MessageStep DEF AsPromised
<1>3. Spec => [](TypeInv /\ MessageInv)
  BY TypeInit, TypeStep, MessageInit, MessageStep, PTL DEF Spec
<1>. QED
  BY <1>1, <1>2, <1>3, PTL DEF Spec, KeepsPromise, Promise!Spec

-----------------------------------------------------------------------------
(***************************************************************************)
(* 3. Tool calls and the transcript.                                       *)
(***************************************************************************)

Busy == {"preparing", "prepared", "running"}
BusyCalls == {<<reply.turn, i>> : i \in {j \in 1..MaxCalls : batch[j] \in Busy}}

(* A call is at a stage of its batch only while the loop is there, and     *)
(* only calls of a message that ends in "toolUse" get to a stage at all.   *)
StageInv ==
    /\ \A i \in 1..MaxCalls :
         /\ batch[i] = "preparing" => pc \in {"seqPrepare", "parPrepare"} /\ i = at
         /\ batch[i] = "prepared" => pc \in {"parStart", "parPrepare", "parNext"}
         /\ batch[i] = "running" => (pc = "seqExecute" /\ i = at) \/ pc = "parRun"
         /\ batch[i] \in Executed \cup {"running"} => reply.stop = "toolUse"
    /\ pc \in {"seqPrepare", "parPrepare", "seqExecute"} => batch[at] \in Busy
    /\ pc \in SequentialPoints \cup ParallelPoints => reply.stop = "toolUse"

(* An orphan is of an earlier turn than the batch that goes on beside it.  *)
OrphanInv ==
    /\ orphans # {} => "throw" \in disturbances
    /\ \A call \in orphans :
         call[1] <= reply.turn /\ (pc \in BatchPoints => call[1] < reply.turn)

BatchInv == StageInv /\ OrphanInv /\ PendingCallsExact

-----------------------------------------------------------------------------
(* Calls at work.                                                          *)

LEMMA BusyMoves ==
    ASSUME batch \in [1..MaxCalls -> CallStatus], reply' = reply,
           NEW i \in 1..MaxCalls, NEW status \in CallStatus,
           batch' = [batch EXCEPT ![i] = status]
    PROVE  /\ BusyCalls' = IF status \in Busy THEN BusyCalls \cup {<<reply.turn, i>>}
                           ELSE BusyCalls \ {<<reply.turn, i>>}
           /\ batch'[i] = status /\ \A j \in 1..MaxCalls : j # i => batch'[j] = batch[j]
<1>1. batch'[i] = status /\ \A j \in 1..MaxCalls : j # i => batch'[j] = batch[j]
  OBVIOUS
<1>2. BusyCalls' = {<<reply.turn, j>> : j \in {k \in 1..MaxCalls : batch'[k] \in Busy}}
  BY DEF BusyCalls
<1>. QED
  BY <1>1, <1>2 DEF BusyCalls

LEMMA PendingFromBusy ==
    ASSUME pc' \notin {"failing", "settling"} /\ "reset" \notin disturbances'
             => pendingToolCalls' = BusyCalls'
    PROVE  PendingCallsExact'
BY DEF PendingCallsExact, BusyCalls, Busy

LEMMA BusyFromPending ==
    ASSUME PendingCallsExact, pc \notin {"failing", "settling"}, "reset" \notin disturbances
    PROVE  pendingToolCalls = BusyCalls
BY DEF PendingCallsExact, BusyCalls, Busy

(* Outside a batch no call is at work.                                     *)
LEMMA NoneBusy ==
    ASSUME BatchInv, TypeInv,
           pc \notin {"seqPrepare", "seqExecute", "parStart", "parPrepare", "parNext", "parRun"}
    PROVE  BusyCalls = {} /\ \A i \in 1..MaxCalls : batch[i] \notin Busy
BY DEF BatchInv, StageInv, BusyCalls, Busy

(* A step that has nothing to do with a batch.                             *)
LEMMA BatchQuiet ==
    ASSUME BatchInv, TypeInv, UNCHANGED <<reply, batch, at, pendingToolCalls, orphans>>,
           disturbances \subseteq disturbances',
           pc' = pc \/ {pc, pc'} \cap BatchPoints = {},
           pc \in {"failing", "settling"} => pc' \in {"failing", "settling"}
    PROVE  BatchInv'
<1>2. PendingCallsExact'
  BY DEF BatchInv, PendingCallsExact
<1>3. StageInv'
  <2>1. CASE pc' = pc
    BY <2>1 DEF BatchInv, StageInv
  <2>2. CASE {pc, pc'} \cap BatchPoints = {}
    BY <2>2, NoneBusy
       DEF BatchInv, StageInv, Busy, BatchPoints, SequentialPoints, ParallelPoints
  <2>. QED
    BY <2>1, <2>2
<1>4. OrphanInv'
  BY DEF BatchInv, OrphanInv
<1>. QED
  BY <1>2, <1>3, <1>4 DEF BatchInv

LEMMA BatchInit == Init => BatchInv
<1>. SUFFICES ASSUME Init PROVE BatchInv
  OBVIOUS
<1>1. \A i \in 1..MaxCalls : batch[i] = "none"
  BY DEF Init, NoCalls
<1>. QED
  BY <1>1 DEF Init, BatchInv, StageInv, OrphanInv, PendingCallsExact, Executed, BatchPoints,
     SequentialPoints, ParallelPoints

(* One call of the batch gets another status.                              *)
LEMMA CallMoves ==
    ASSUME BatchInv, TypeInv, NEW i \in 1..MaxCalls, NEW status \in CallStatus,
           batch' = [batch EXCEPT ![i] = status],
           pc \in BatchPoints, pc' \in BatchPoints,
           UNCHANGED <<reply, orphans, disturbances>>,
           pendingToolCalls' = IF status \in Busy THEN pendingToolCalls \cup {<<reply.turn, i>>}
                               ELSE pendingToolCalls \ {<<reply.turn, i>>}
    PROVE  /\ OrphanInv' /\ PendingCallsExact'
           /\ batch'[i] = status /\ \A j \in 1..MaxCalls : j # i => batch'[j] = batch[j]
<1>1. batch \in [1..MaxCalls -> CallStatus] /\ reply' = reply
  BY DEF TypeInv, TypeOK, BatchType
<1>2. pc \notin {"failing", "settling"}
  BY DEF BatchPoints, SequentialPoints, ParallelPoints
<1>3. /\ BusyCalls' = IF status \in Busy THEN BusyCalls \cup {<<reply.turn, i>>}
                      ELSE BusyCalls \ {<<reply.turn, i>>}
      /\ batch'[i] = status /\ \A j \in 1..MaxCalls : j # i => batch'[j] = batch[j]
  BY <1>1, BusyMoves
<1>4. "reset" \notin disturbances => pendingToolCalls = BusyCalls
  BY <1>2, BusyFromPending DEF BatchInv
<1>5. PendingCallsExact'
  BY <1>3, <1>4, PendingFromBusy
<1>6. OrphanInv'
  BY DEF BatchInv, OrphanInv
<1>. QED
  BY <1>3, <1>5, <1>6

LEMMA BatchStep ==
    ASSUME BatchInv, TypeInv, [Next]_vars
    PROVE  BatchInv'
<1>. USE DEF queueVars, handVars, logVars, batchVars, historyVars
<1>0. /\ reply \in [turn : Nat, stop : StopReasons, calls : 0..MaxCalls]
      /\ batch \in [1..MaxCalls -> CallStatus] /\ at \in 1..(MaxCalls + 1) /\ MaxCalls \in Nat
      /\ orphans \subseteq Call /\ pendingToolCalls \subseteq Call
  BY ConstantsAssumption DEF TypeInv, TypeOK, BatchType
<1>c. pc \in {"seqStart", "seqPrepare", "seqExecute", "seqNext", "parStart", "parPrepare", "parNext"}
        => at \in 1..MaxCalls
  BY <1>0 DEF TypeInv, CursorInv
<1>p. /\ BatchPoints = {"seqStart", "seqPrepare", "seqExecute", "seqNext", "parStart", "parPrepare",
                        "parNext", "parRun", "parResult", "truncated"}
      /\ SequentialPoints \cup ParallelPoints = BatchPoints \ {"truncated"}
  BY DEF BatchPoints, SequentialPoints, ParallelPoints
<1>1. CASE UNCHANGED vars
  BY <1>1, BatchQuiet DEF vars
<1>2. ASSUME NEW taken, NEW skip, pc = "idle", StartRun(taken, skip)
      PROVE  BatchInv'
  BY <1>2, <1>p, BatchQuiet DEF StartRun
<1>3. CASE Start
  BY <1>2, <1>3 DEF Start, Prompt, ContinueTranscript, ContinueWithSteering, ContinueWithFollowUps
<1>4. CASE EmitPrompt \/ EnterLoop \/ InitialPoll
  BY <1>4, <1>p, BatchQuiet DEF EmitPrompt, EnterLoop, InitialPoll
<1>5. CASE BeginTurn \/ InjectPending \/ CallModel
  BY <1>5, <1>p, BatchQuiet DEF BeginTurn, InjectPending, CallModel
<1>6. CASE PollSteering \/ PollFollowUps
  BY <1>6, <1>p, BatchQuiet DEF PollSteering, PollFollowUps
<1>7. CASE HandleRunFailure
  BY <1>7, <1>p, BatchQuiet DEF HandleRunFailure
<1>8. CASE Steer \/ FollowUp \/ ClearSteering \/ ClearFollowUps \/ Abort
  BY <1>8, BatchQuiet DEF Steer, FollowUp, ClearSteering, ClearFollowUps, Abort
<1>9. ASSUME NEW i, RemoveSteering(i) \/ RemoveFollowUp(i) PROVE BatchInv'
  BY <1>9, BatchQuiet DEF RemoveSteering, RemoveFollowUp
<1>10. CASE FinishRun
  <2>1. /\ UNCHANGED <<reply, batch, at, orphans, disturbances>> /\ pendingToolCalls' = {}
        /\ pc' = "idle" /\ pc \notin BatchPoints
    BY <1>10, <1>p DEF FinishRun
  <2>2. \A i \in 1..MaxCalls : batch[i] \notin Busy
    BY <1>10, NoneBusy DEF FinishRun
  <2>3. StageInv'
    BY <2>1, <2>2, <1>p DEF BatchInv, StageInv, Busy
  <2>4. PendingCallsExact'
    BY <2>1, <2>2, PendingFromBusy DEF BusyCalls
  <2>. QED
    BY <2>1, <2>3, <2>4, <1>p DEF BatchInv, OrphanInv
<1>11. CASE Respond
  <2>1. PICK r \in Replies :
          /\ reply' = [turn |-> reply.turn + 1, stop |-> r.stop, calls |-> r.calls]
          /\ pc' \in AfterReply(r)
    BY <1>11 DEF Respond
  <2>2. /\ pc = "stream" /\ batch' = NoCalls /\ UNCHANGED <<orphans, pendingToolCalls, disturbances>>
    BY <1>11 DEF Respond
  <2>3. \A i \in 1..MaxCalls : batch'[i] = "none"
    BY <2>2 DEF NoCalls
  <2>4. /\ pc' \in {"agentEnd", "truncated", "turnEnd", "seqStart", "parStart"}
        /\ pc' \in {"seqStart", "parStart"} => r.stop = "toolUse"
    <3>1. pc' \in {"agentEnd", "truncated", "turnEnd", "seqStart", "parStart"}
      BY <2>1, AfterReplyPoint
    <3>2. r.stop \in StopReasons /\ r.calls \in 0..MaxCalls /\ (r.stop = "stop" => r.calls = 0)
      BY DEF Replies
    <3>3. CASE r.stop \in {"error", "aborted"}
      BY <2>1, <3>3 DEF AfterReply
    <3>4. CASE r.stop \in {"stop", "length"}
      BY <1>0, <2>1, <3>2, <3>4 DEF AfterReply
    <3>. QED
      BY <3>1, <3>2, <3>3, <3>4 DEF StopReasons
  <2>5. StageInv'
    BY <2>1, <2>3, <2>4, <1>p DEF StageInv, Executed
  <2>6. PendingCallsExact'
    <3>1. "reset" \notin disturbances => pendingToolCalls = {}
      BY <2>2, NoneBusy, BusyFromPending DEF BatchInv
    <3>2. BusyCalls' = {}
      BY <2>3 DEF BusyCalls, Busy
    <3>. QED
      BY <2>2, <3>1, <3>2, PendingFromBusy
  <2>7. OrphanInv'
    <3>1. \A call \in orphans : call[1] \in Nat /\ call[1] <= reply.turn
      BY <1>0 DEF BatchInv, OrphanInv, Call
    <3>2. reply.turn \in Nat /\ reply'.turn = reply.turn + 1
      BY <1>0, <2>1
    <3>. QED
      BY <2>2, <3>1, <3>2 DEF BatchInv, OrphanInv
  <2>. QED
    BY <2>5, <2>6, <2>7 DEF BatchInv
<1>s. \A i \in 1..MaxCalls :
        /\ batch[i] = "preparing" => pc \in {"seqPrepare", "parPrepare"} /\ i = at
        /\ batch[i] = "prepared" => pc \in {"parStart", "parPrepare", "parNext"}
        /\ batch[i] = "running" => (pc = "seqExecute" /\ i = at) \/ pc = "parRun"
        /\ batch[i] \in Executed \cup {"running"} => reply.stop = "toolUse"
  BY DEF BatchInv, StageInv
<1>r. pc \in SequentialPoints \cup ParallelPoints => reply.stop = "toolUse"
  BY DEF BatchInv, StageInv
<1>d. Executed = {"done", "terminate"} /\ Busy = {"preparing", "prepared", "running"}
      /\ CallStatus = {"none", "preparing", "prepared", "running", "failed", "done", "terminate"}
  BY DEF Executed, Busy, CallStatus
<1>12. CASE FailTruncated
  <2>1. /\ at \in 1..MaxCalls /\ pc = "truncated" /\ pc' = pc /\ "failed" \in CallStatus \ Busy
        /\ batch' = [batch EXCEPT ![at] = "failed"]
        /\ UNCHANGED <<reply, orphans, disturbances, pendingToolCalls>>
    BY <1>0, <1>12, <1>d DEF FailTruncated
  <2>2. \A j \in 1..MaxCalls : batch'[j] = batch[j] \/ batch'[j] = "failed"
    BY <1>0, <2>1
  <2>3. StageInv'
    BY <2>1, <2>2, <1>s, <1>d, <1>p DEF StageInv
  <2>4. "reset" \notin disturbances => pendingToolCalls = {}
    BY <2>1, NoneBusy, BusyFromPending
       DEF BatchInv
  <2>5. BusyCalls' = {}
    BY <2>1, <2>2, <1>s, <1>d DEF BusyCalls
  <2>6. PendingCallsExact'
    BY <2>1, <2>4, <2>5, PendingFromBusy
  <2>7. OrphanInv'
    BY <2>1 DEF BatchInv, OrphanInv
  <2>. QED
    BY <2>3, <2>6, <2>7 DEF BatchInv
<1>13. CASE CloseTruncated \/ CloseParallel
  <2>1. /\ UNCHANGED <<reply, batch, at, pendingToolCalls, orphans, disturbances>>
        /\ pc' = "turnEnd" /\ pc \in {"truncated", "parResult"}
    BY <1>13 DEF CloseTruncated, CloseParallel, CloseBatch
  <2>2. \A i \in 1..MaxCalls : batch[i] \notin Busy
    BY <2>1, <1>s, <1>d
  <2>3. StageInv'
    BY <2>1, <2>2, <1>s, <1>p DEF StageInv, Busy
  <2>4. PendingCallsExact'
    BY <2>1 DEF BatchInv, PendingCallsExact
  <2>5. OrphanInv'
    BY <2>1, <1>p DEF BatchInv, OrphanInv
  <2>. QED
    BY <2>3, <2>4, <2>5 DEF BatchInv
<1>14. ASSUME NEW from \in {"seqStart", "parStart"}, NEW to \in {"seqPrepare", "parPrepare"},
              from = "seqStart" <=> to = "seqPrepare", StartCall(from, to)
       PROVE  BatchInv'
  <2>1. /\ at \in 1..MaxCalls /\ "preparing" \in CallStatus \cap Busy
        /\ batch' = [batch EXCEPT ![at] = "preparing"] /\ at' = at
        /\ pendingToolCalls' = pendingToolCalls \cup {<<reply.turn, at>>}
        /\ pc = from /\ pc' = to
        /\ UNCHANGED <<reply, orphans, disturbances>>
    BY <1>14, <1>c, <1>d DEF StartCall, ThisCall
  <2>2. pc \in BatchPoints /\ pc' \in BatchPoints
    BY <2>1, <1>p
  <2>3. /\ OrphanInv' /\ PendingCallsExact'
        /\ batch'[at] = "preparing" /\ \A j \in 1..MaxCalls : j # at => batch'[j] = batch[j]
    BY <2>1, <2>2, CallMoves
  <2>4. StageInv'
    BY <1>14, <2>1, <2>2, <2>3, <1>s, <1>r, <1>d, <1>p DEF StageInv
  <2>. QED
    BY <2>3, <2>4 DEF BatchInv
<1>15. ASSUME pc \in {"seqPrepare", "parPrepare", "seqExecute"}, at' = at,
              NEW status \in CallStatus \ {"none", "preparing"},
              status = "running" <=> pc' = "seqExecute",
              status = "prepared" => pc = "parPrepare",
              batch' = [batch EXCEPT ![at] = status],
              pc = "parPrepare" => pc' = "parNext",
              pc # "parPrepare" => pc' \in {"seqExecute", "seqNext"},
              pendingToolCalls' = IF status \in Busy THEN pendingToolCalls
                                  ELSE pendingToolCalls \ {<<reply.turn, at>>},
              UNCHANGED <<reply, orphans, disturbances>>
       PROVE  BatchInv'
  <2>1. pc \in BatchPoints /\ pc' \in BatchPoints \ {"truncated"} /\ at \in 1..MaxCalls
        /\ reply.stop = "toolUse"
    BY <1>15, <1>c, <1>p, <1>r
  <2>2. BusyCalls' = IF status \in Busy THEN BusyCalls \cup {<<reply.turn, at>>}
                     ELSE BusyCalls \ {<<reply.turn, at>>}
    BY <1>0, <1>15, <2>1, BusyMoves
  <2>3. <<reply.turn, at>> \in BusyCalls
    BY <1>15, <2>1 DEF BatchInv, StageInv, BusyCalls
  <2>4. "reset" \notin disturbances => pendingToolCalls = BusyCalls
    BY <1>15, BusyFromPending DEF BatchInv
  <2>5. PendingCallsExact'
    BY <1>15, <2>2, <2>3, <2>4, PendingFromBusy
  <2>6. batch'[at] = status /\ \A j \in 1..MaxCalls : j # at => batch'[j] = batch[j]
    BY <1>0, <1>15, <2>1
  <2>7. StageInv'
    BY <1>15, <2>1, <2>6, <1>s, <1>d, <1>p DEF StageInv
  <2>8. OrphanInv'
    BY <1>15, <2>1 DEF BatchInv, OrphanInv
  <2>. QED
    BY <2>5, <2>7, <2>8 DEF BatchInv
<1>16. CASE PrepareSequential \/ FinishSequential \/ PrepareParallel
  <2>1. at' = at /\ UNCHANGED <<reply, orphans, disturbances>>
    BY <1>16 DEF PrepareSequential, FinishSequential, PrepareParallel
  <2>2. \E status \in CallStatus \ {"none", "preparing"} :
          /\ batch' = [batch EXCEPT ![at] = status]
          /\ status = "running" <=> pc' = "seqExecute"
          /\ status = "prepared" => pc = "parPrepare"
          /\ pc = "parPrepare" => pc' = "parNext"
          /\ pc # "parPrepare" => pc' \in {"seqExecute", "seqNext"}
          /\ pc \in {"seqPrepare", "parPrepare", "seqExecute"}
          /\ pendingToolCalls' = IF status \in Busy THEN pendingToolCalls
                                 ELSE pendingToolCalls \ {<<reply.turn, at>>}
    <3>1. CASE PrepareSequential
      <4>1. {"failed", "running"} \subseteq CallStatus \ {"none", "preparing"}
            /\ "failed" \notin Busy /\ "running" \in Busy
        BY <1>d
      <4>. QED
        BY <3>1, <4>1 DEF PrepareSequential, ThisCall
    <3>2. CASE FinishSequential
      <4>1. Executed \subseteq CallStatus \ {"none", "preparing", "running", "prepared"}
            /\ Executed \cap Busy = {}
        BY <1>d
      <4>. QED
        BY <3>2, <4>1 DEF FinishSequential, ThisCall
    <3>3. CASE PrepareParallel
      <4>1. {"failed", "prepared"} \subseteq CallStatus \ {"none", "preparing"}
            /\ "failed" \notin Busy /\ "prepared" \in Busy
        BY <1>d
      <4>. QED
        BY <3>3, <4>1 DEF PrepareParallel, ThisCall
    <3>. QED
      BY <1>16, <3>1, <3>2, <3>3
  <2>. QED
    BY <1>15, <2>1, <2>2
<1>17. CASE NextSequential
  <2>1. /\ UNCHANGED <<reply, batch, pendingToolCalls, orphans, disturbances>>
        /\ pc = "seqNext" /\ pc' \in {"turnEnd", "seqStart"}
    BY <1>17 DEF NextSequential, CloseBatch
  <2>2. \A i \in 1..MaxCalls : batch[i] \notin Busy
    BY <2>1, <1>s, <1>d
  <2>3. StageInv'
    BY <2>1, <2>2, <1>s, <1>r, <1>p DEF StageInv, Busy
  <2>4. PendingCallsExact'
    BY <2>1 DEF BatchInv, PendingCallsExact
  <2>5. OrphanInv'
    BY <2>1, <1>p DEF BatchInv, OrphanInv
  <2>. QED
    BY <2>3, <2>4, <2>5 DEF BatchInv
<1>18. CASE NextParallel
  <2>1. /\ UNCHANGED <<reply, pendingToolCalls, orphans, disturbances>>
        /\ pc = "parNext" /\ pc' \in {"parRun", "parStart"}
    BY <1>18 DEF NextParallel
  <2>2. \/ pc' = "parRun" /\ batch' = [i \in 1..MaxCalls |->
                            IF batch[i] = "prepared" THEN "running" ELSE batch[i]]
        \/ pc' = "parStart" /\ batch' = batch
    BY <1>18 DEF NextParallel
  <2>3. \A i \in 1..MaxCalls : batch'[i] \in Busy <=> batch[i] \in Busy
    BY <2>2, <1>d
  <2>4. StageInv'
    BY <2>1, <2>2, <1>s, <1>r, <1>d, <1>p DEF StageInv
  <2>5. PendingCallsExact'
    <3>1. BusyCalls' = BusyCalls
      BY <2>1, <2>3 DEF BusyCalls
    <3>. QED
      BY <2>1, <3>1, BusyFromPending, PendingFromBusy DEF BatchInv
  <2>6. OrphanInv'
    BY <2>1, <1>p DEF BatchInv, OrphanInv
  <2>. QED
    BY <2>4, <2>5, <2>6 DEF BatchInv
<1>19. ASSUME NEW i \in 1..MaxCalls, FinishParallel(i) PROVE BatchInv'
  <2>1. PICK status \in Executed : batch' = [batch EXCEPT ![i] = status]
    BY <1>19 DEF FinishParallel
  <2>2. /\ UNCHANGED <<reply, orphans, disturbances, at>> /\ pc = "parRun" /\ pc' = pc
        /\ pendingToolCalls' = pendingToolCalls \ {<<reply.turn, i>>}
    BY <1>19 DEF FinishParallel
  <2>3. /\ status \in CallStatus /\ status \notin Busy
        /\ pc \in BatchPoints /\ pc' \in BatchPoints
    BY <2>2, <1>d, <1>p
  <2>4. /\ OrphanInv' /\ PendingCallsExact'
        /\ batch'[i] = status /\ \A j \in 1..MaxCalls : j # i => batch'[j] = batch[j]
    BY <2>1, <2>2, <2>3, CallMoves
  <2>5. StageInv'
    BY <2>2, <2>3, <2>4, <1>s, <1>r, <1>d, <1>p DEF StageInv
  <2>. QED
    BY <2>4, <2>5 DEF BatchInv
<1>20. CASE CollectParallel \/ EmitParallelResult
  <2>1. /\ UNCHANGED <<reply, batch, pendingToolCalls, orphans, disturbances>>
        /\ pc \in {"parRun", "parResult"} /\ pc' = "parResult"
    BY <1>20 DEF CollectParallel, EmitParallelResult
  <2>2. \A i \in 1..MaxCalls : batch[i] \notin Busy
    BY <1>20, <1>s, <1>d DEF CollectParallel, EmitParallelResult, Running
  <2>3. StageInv'
    BY <2>1, <2>2, <1>s, <1>r, <1>p DEF StageInv, Busy
  <2>4. PendingCallsExact'
    BY <2>1 DEF BatchInv, PendingCallsExact
  <2>5. OrphanInv'
    BY <2>1, <1>p DEF BatchInv, OrphanInv
  <2>. QED
    BY <2>3, <2>4, <2>5 DEF BatchInv
<1>21. CASE RunThrows
  <2>1. /\ UNCHANGED <<reply, at>> /\ pc' = "failing" /\ batch' = NoCalls
        /\ "throw" \in disturbances'
        /\ orphans' \subseteq orphans \cup {<<reply.turn, i>> : i \in Running}
    BY <1>21 DEF RunThrows
  <2>2. \A i \in 1..MaxCalls : batch'[i] = "none"
    BY <2>1 DEF NoCalls
  <2>3. StageInv'
    BY <2>1, <2>2, <1>p DEF StageInv, Executed
  <2>4. PendingCallsExact'
    BY <2>1 DEF PendingCallsExact
  <2>5. OrphanInv'
    <3>1. \A call \in orphans' : call[1] <= reply.turn
      <4>1. \A i : <<reply.turn, i>>[1] = reply.turn /\ reply.turn <= reply.turn
        BY <1>0
      <4>. QED
        BY <2>1, <4>1 DEF BatchInv, OrphanInv
    <3>. QED
      BY <2>1, <3>1, <1>p DEF OrphanInv
  <2>. QED
    BY <2>3, <2>4, <2>5 DEF BatchInv
<1>22. ASSUME NEW call \in orphans, OrphanEnds(call) PROVE BatchInv'
  <2>1. /\ UNCHANGED <<pc, reply, batch, at, disturbances>>
        /\ orphans' = orphans \ {call} /\ pendingToolCalls' = pendingToolCalls \ {call}
    BY <1>22 DEF OrphanEnds
  <2>2. StageInv' /\ OrphanInv'
    BY <2>1 DEF BatchInv, StageInv, OrphanInv
  <2>3. call \notin BusyCalls
    <3>1. CASE pc \in BatchPoints
      <4>1. call[1] < reply.turn /\ reply.turn \in Nat
        BY <1>0, <3>1 DEF BatchInv, OrphanInv
      <4>2. \A i : <<reply.turn, i>>[1] = reply.turn
        OBVIOUS
      <4>. QED
        BY <4>1, <4>2 DEF BusyCalls
    <3>2. CASE pc \notin BatchPoints
      BY <3>2, <1>p, NoneBusy
    <3>. QED
      BY <3>1, <3>2
  <2>4. PendingCallsExact'
    <3>1. BusyCalls' = BusyCalls
      BY <2>1 DEF BusyCalls
    <3>. QED
      BY <2>1, <2>3, <3>1, BusyFromPending, PendingFromBusy DEF BatchInv
  <2>. QED
    BY <2>2, <2>4 DEF BatchInv
<1>23. CASE Reset
  <2>1. /\ UNCHANGED <<pc, reply, batch, at, orphans>> /\ pendingToolCalls' = {}
        /\ disturbances' = disturbances \cup (IF pc = "idle" THEN {} ELSE {"reset"})
    BY <1>23 DEF Reset
  <2>2. StageInv' /\ OrphanInv'
    BY <2>1 DEF BatchInv, StageInv, OrphanInv
  <2>3. PendingCallsExact'
    <3>1. CASE pc = "idle"
      <4>1. BusyCalls' = {}
        BY <2>1, <3>1, NoneBusy DEF BusyCalls
      <4>. QED
        BY <2>1, <4>1, PendingFromBusy
    <3>2. CASE pc # "idle"
      BY <2>1, <3>2 DEF PendingCallsExact
    <3>. QED
      BY <3>1, <3>2
  <2>. QED
    BY <2>2, <2>3 DEF BatchInv
<1>. QED
  BY <1>1, <1>3, <1>4, <1>5, <1>6, <1>7, <1>8, <1>9, <1>10, <1>11, <1>12, <1>13, <1>14, <1>16,
     <1>17, <1>18, <1>19, <1>20, <1>21, <1>22, <1>23
     DEF Next, Loop, Tools, Orphan, Callers

(* Whatever aborts, throws, ends late or is reset: no tool executes        *)
(* outside its batch unless a throw left it behind, pendingToolCalls is    *)
(* exact, and no call of a truncated or failed message is executed         *)
(* (executeToolCalls, processEvents).                                      *)
THEOREM BatchesAreSound == Spec => []BatchesSound
<1>1. Init => TypeInv /\ BatchInv
  BY TypeInit, BatchInit
<1>2. TypeInv /\ BatchInv /\ [Next]_vars => (TypeInv /\ BatchInv)'
  BY TypeStep, BatchStep
<1>3. TypeInv /\ BatchInv => BatchesSound
  <2>. SUFFICES ASSUME TypeInv, BatchInv PROVE BatchesSound
    OBVIOUS
  <2>1. NoToolOutlivesItsBatch
    BY DEF BatchInv, StageInv, OrphanInv, NoToolOutlivesItsBatch, Running
  <2>2. UnsafeCallsNotExecuted
    BY DEF BatchInv, StageInv, UnsafeCallsNotExecuted
  <2>. QED
    BY <2>1, <2>2 DEF BatchInv, BatchesSound
<1>. QED
  BY <1>1, <1>2, <1>3, PTL DEF Spec

(* After an abort no tool is started, but for those that a parallel batch  *)
(* had prepared before it (prepareToolCall).                               *)
THEOREM NoLaunchesAfterAbort == Spec => NoLaunchAfterAbort
<1>. DEFINE Quiet == aborted => \A i \in 1..MaxCalls :
                        batch'[i] = "running" => batch[i] \in {"prepared", "running"}
<1>1. ASSUME TypeInv, Next PROVE Quiet
  <2>. SUFFICES ASSUME aborted, NEW i \in 1..MaxCalls, batch'[i] = "running",
                       batch[i] \notin {"prepared", "running"}
                PROVE  FALSE
    OBVIOUS
  <2>. USE DEF batchVars
  <2>0. batch \in [1..MaxCalls -> CallStatus]
    BY <1>1 DEF TypeInv, TypeOK, BatchType
  <2>1. ASSUME NEW j, NEW status, status # "running", batch' = [batch EXCEPT ![j] = status]
        PROVE  FALSE
    BY <2>0, <2>1
  <2>2. batch' # batch
    OBVIOUS
  <2>3. ~Start /\ ~Orphan
    BY <2>2 DEF Start, Prompt, ContinueTranscript, ContinueWithSteering, ContinueWithFollowUps,
       StartRun, Orphan, OrphanEnds
  <2>4. ~Loop
    BY <2>2 DEF Loop, EmitPrompt, EnterLoop, InitialPoll, BeginTurn, InjectPending, CallModel,
       PollSteering, PollFollowUps, FinishRun, HandleRunFailure
  <2>5. ~Callers
    BY <2>2 DEF Callers, Steer, FollowUp, ClearSteering, ClearFollowUps, RemoveSteering,
       RemoveFollowUp, Abort, Reset
  <2>6. ~Respond /\ ~RunThrows
    BY DEF Respond, RunThrows, NoCalls
  <2>7. ~FailTruncated /\ ~StartCall("seqStart", "seqPrepare") /\ ~StartCall("parStart", "parPrepare")
    BY <2>1 DEF FailTruncated, StartCall
  <2>8. ~PrepareSequential /\ ~PrepareParallel
    BY <2>1 DEF PrepareSequential, PrepareParallel
  <2>9. ~FinishSequential /\ \A j \in 1..MaxCalls : ~FinishParallel(j)
    BY <2>1 DEF FinishSequential, FinishParallel, Executed
  <2>10. ~NextParallel
    BY <2>2 DEF NextParallel
  <2>11. ~CloseTruncated /\ ~NextSequential /\ ~CollectParallel /\ ~EmitParallelResult
         /\ ~CloseParallel
    BY <2>2 DEF CloseTruncated, NextSequential, CollectParallel, EmitParallelResult, CloseParallel
  <2>. QED
    BY <1>1, <2>3, <2>4, <2>5, <2>6, <2>7, <2>8, <2>9, <2>10, <2>11 DEF Next, Tools
<1>2. TypeInv /\ [Next]_vars => [Quiet]_vars
  BY <1>1
<1>3. Spec => []TypeInv
  BY TypeInit, TypeStep, PTL DEF Spec
<1>. QED
  BY <1>2, <1>3, PTL DEF Spec, NoLaunchAfterAbort

-----------------------------------------------------------------------------
Answers(turn, n) == [i \in 1..n |-> ResultEntry(turn, i)]
WithAnswers(s, turn, n) == s \o Answers(turn, n)
UserEntriesOf(s) == [i \in DOMAIN s |-> UserEntry(s[i])]

(* Every call gets a result before the batch is closed, unless an abort    *)
(* cuts it short.                                                          *)
CallsInv ==
    /\ aborted => "abort" \in disturbances
    /\ pc \in {"truncated", "parResult"} => at <= reply.calls + 1
    /\ pc = "parRun" => at <= reply.calls
    /\ pc = "parStart" => \A i \in 1..(at - 1) : batch[i] # "none"
    /\ pc \in {"parPrepare", "parNext"} => \A i \in 1..at : batch[i] # "none"
    /\ pc \in {"parRun", "parResult"} /\ "abort" \notin disturbances =>
         \A i \in 1..reply.calls : batch[i] # "none"

(* How many results of the batch are in the transcript, and not yet in the *)
(* context of the loop.                                                    *)
Emitted ==
    IF pc \in {"truncated", "seqStart", "seqPrepare", "seqExecute", "parResult"} THEN at - 1
    ELSE IF pc = "seqNext" THEN at ELSE 0

(* The two copies of the conversation, at every point of the loop.         *)
CopyInv ==
    "reset" \notin disturbances =>
        /\ pc = "prompts" => context = messages \o UserEntriesOf(prompts)
        /\ pc \in {"poll", "turn", "inject", "stream", "turnEnd", "followUps"} =>
             context = messages
        /\ pc \in BatchPoints => messages = WithAnswers(context, reply.turn, Emitted)

(* A batch belongs to the message that ends the context.                   *)
OwnerInv ==
    pc \in BatchPoints =>
        /\ context # <<>>
        /\ context[Len(context)] = AssistantEntry(reply.turn, reply.stop, reply.calls)

Follows(s) ==
    \A p \in DOMAIN s :
        s[p].role = "toolResult" =>
            /\ p > 1
            /\ IF s[p].call = 1
               THEN s[p - 1].role = "assistant" /\ s[p - 1].turn = s[p].turn
               ELSE s[p - 1] = ResultEntry(s[p].turn, s[p].call - 1)

(* The calls of the first n entries are answered.                          *)
Answered(s, n) ==
    \A p \in 1..n :
        s[p].role = "assistant" /\ s[p].stop \in {"toolUse", "length"} =>
            \A c \in 1..s[p].calls :
                p + c \in DOMAIN s /\ s[p + c] = ResultEntry(s[p].turn, c)

AnsweredInv ==
    disturbances = {} =>
        IF pc \in BatchPoints THEN Answered(context, Len(context) - 1)
        ELSE Answered(messages, Len(messages))

LogInv == CopyInv /\ OwnerInv /\ AnswersFollowCalls /\ AnsweredInv

-----------------------------------------------------------------------------
(* The stages of the calls.                                                *)

LEMMA CallsQuiet ==
    ASSUME CallsInv, UNCHANGED <<reply, batch, at>>, disturbances \subseteq disturbances',
           aborted' => aborted \/ "abort" \in disturbances',
           pc' = pc \/ pc' \notin BatchPoints
    PROVE  CallsInv'
<1>1. CASE pc' = pc
  BY <1>1 DEF CallsInv
<1>2. CASE pc' \notin BatchPoints
  BY <1>2 DEF CallsInv, BatchPoints, SequentialPoints, ParallelPoints
<1>. QED
  BY <1>1, <1>2

LEMMA CallsInit == Init => CallsInv
  BY DEF Init, CallsInv

LEMMA CallsStep ==
    ASSUME CallsInv, TypeInv, [Next]_vars
    PROVE  CallsInv'
<1>. USE DEF queueVars, handVars, logVars, batchVars, historyVars
<1>0. /\ reply \in [turn : Nat, stop : StopReasons, calls : 0..MaxCalls]
      /\ batch \in [1..MaxCalls -> CallStatus] /\ at \in 1..(MaxCalls + 1) /\ MaxCalls \in Nat
  BY ConstantsAssumption DEF TypeInv, TypeOK, BatchType
<1>c. pc \in {"seqStart", "seqPrepare", "seqExecute", "seqNext", "parStart", "parPrepare", "parNext"}
        => at <= reply.calls /\ at \in 1..MaxCalls
  BY <1>0 DEF TypeInv, CursorInv
<1>p. /\ BatchPoints = {"seqStart", "seqPrepare", "seqExecute", "seqNext", "parStart", "parPrepare",
                        "parNext", "parRun", "parResult", "truncated"}
  BY DEF BatchPoints, SequentialPoints, ParallelPoints
<1>1. CASE UNCHANGED vars
  BY <1>1, CallsQuiet DEF vars
<1>2. ASSUME NEW taken, NEW skip, StartRun(taken, skip)
      PROVE  CallsInv'
  BY <1>2, <1>p, CallsQuiet DEF StartRun
<1>3. CASE Start
  BY <1>2, <1>3 DEF Start, Prompt, ContinueTranscript, ContinueWithSteering, ContinueWithFollowUps
<1>4. CASE EmitPrompt \/ EnterLoop \/ InitialPoll \/ BeginTurn
  BY <1>4, <1>p, CallsQuiet DEF EmitPrompt, EnterLoop, InitialPoll, BeginTurn
<1>5. CASE InjectPending \/ CallModel \/ PollSteering \/ PollFollowUps
  BY <1>5, <1>p, CallsQuiet DEF InjectPending, CallModel, PollSteering, PollFollowUps
<1>6. CASE HandleRunFailure \/ FinishRun
  BY <1>6, <1>p, CallsQuiet DEF HandleRunFailure, FinishRun
<1>7. CASE Steer \/ FollowUp \/ ClearSteering \/ ClearFollowUps \/ Abort \/ Reset
  BY <1>7, CallsQuiet DEF Steer, FollowUp, ClearSteering, ClearFollowUps, Abort, Reset
<1>8. ASSUME NEW i, RemoveSteering(i) \/ RemoveFollowUp(i) \/ OrphanEnds(i) PROVE CallsInv'
  BY <1>8, CallsQuiet DEF RemoveSteering, RemoveFollowUp, OrphanEnds
<1>9. CASE Respond
  <2>1. /\ aborted' = aborted /\ disturbances' = disturbances /\ at' = 1
        /\ \E r \in Replies : reply'.calls = r.calls /\ pc' \in AfterReply(r)
    BY <1>9 DEF Respond
  <2>2. reply'.calls \in Nat
    BY <2>1, ConstantsAssumption DEF Replies
  <2>3. pc' \in {"agentEnd", "truncated", "turnEnd", "seqStart", "parStart"}
    BY <2>1, AfterReplyPoint
  <2>. QED
    BY <2>1, <2>2, <2>3 DEF CallsInv
<1>10. CASE FailTruncated
  BY <1>0, <1>10 DEF FailTruncated, CallsInv
<1>11. CASE CloseTruncated \/ CloseParallel \/ NextSequential
  <2>1. pc' \in {"turnEnd", "seqStart"} /\ UNCHANGED <<aborted, disturbances>>
    BY <1>11 DEF CloseTruncated, CloseParallel, NextSequential, CloseBatch
  <2>. QED
    BY <2>1 DEF CallsInv
<1>12. CASE PrepareSequential \/ FinishSequential
  BY <1>12 DEF PrepareSequential, FinishSequential, CallsInv
<1>13. CASE StartCall("seqStart", "seqPrepare")
  BY <1>13 DEF StartCall, CallsInv
<1>14. CASE StartCall("parStart", "parPrepare")
  <2>1. /\ at \in 1..MaxCalls /\ batch' = [batch EXCEPT ![at] = "preparing"]
        /\ \A i \in 1..(at - 1) : batch[i] # "none"
        /\ UNCHANGED <<aborted, disturbances, reply, at>> /\ pc' = "parPrepare"
    BY <1>14, <1>c DEF StartCall, CallsInv
  <2>2. \A i \in 1..at : batch'[i] # "none"
    BY <1>0, <2>1
  <2>. QED
    BY <2>1, <2>2 DEF CallsInv
<1>15. CASE PrepareParallel
  <2>1. /\ at \in 1..MaxCalls /\ \E status \in {"failed", "prepared"} : batch' = [batch EXCEPT ![at] = status]
        /\ \A i \in 1..at : batch[i] # "none"
        /\ UNCHANGED <<aborted, disturbances, reply, at>> /\ pc' = "parNext"
    BY <1>15, <1>c DEF PrepareParallel, CallsInv
  <2>2. \A i \in 1..at : batch'[i] # "none"
    BY <1>0, <2>1
  <2>. QED
    BY <2>1, <2>2 DEF CallsInv
<1>16. CASE NextParallel
  <2>1. /\ pc = "parNext" /\ UNCHANGED <<aborted, disturbances, reply>>
        /\ \A i \in 1..at : batch[i] # "none"
    BY <1>16 DEF NextParallel, CallsInv
  <2>2. CASE aborted \/ at = reply.calls
    <3>1. /\ pc' = "parRun" /\ at' = at
          /\ \A i \in 1..MaxCalls : batch[i] # "none" => batch'[i] # "none"
      BY <1>16, <2>2 DEF NextParallel
    <3>2. "abort" \notin disturbances => at = reply.calls
      BY <2>2 DEF CallsInv
    <3>. QED
      BY <1>0, <1>c, <2>1, <3>1, <3>2 DEF CallsInv
  <2>3. CASE ~(aborted \/ at = reply.calls)
    <3>1. pc' = "parStart" /\ at' = at + 1 /\ batch' = batch
      BY <1>16, <2>3 DEF NextParallel
    <3>2. \A i \in 1..(at' - 1) : batch'[i] # "none"
      BY <1>0, <2>1, <3>1
    <3>. QED
      BY <2>1, <3>1, <3>2 DEF CallsInv
  <2>. QED
    BY <2>2, <2>3
<1>17. ASSUME NEW i \in 1..MaxCalls, FinishParallel(i) PROVE CallsInv'
  <2>1. /\ pc = "parRun" /\ UNCHANGED <<pc, aborted, disturbances, reply, at>>
        /\ \E status \in Executed : batch' = [batch EXCEPT ![i] = status]
    BY <1>17 DEF FinishParallel
  <2>2. \A j \in 1..MaxCalls : batch[j] # "none" => batch'[j] # "none"
    BY <1>0, <2>1 DEF Executed
  <2>3. reply.calls <= MaxCalls /\ reply.calls \in Nat
    BY <1>0
  <2>. QED
    BY <2>1, <2>2, <2>3, <1>0 DEF CallsInv
<1>18. CASE CollectParallel
  <2>1. UNCHANGED <<aborted, disturbances, reply, batch>> /\ pc = "parRun" /\ pc' = "parResult" /\ at' = 1
    BY <1>18 DEF CollectParallel
  <2>2. at' <= reply.calls + 1
    BY <1>0, <2>1
  <2>. QED
    BY <2>1, <2>2 DEF CallsInv
<1>19. CASE EmitParallelResult
  <2>1. /\ UNCHANGED <<pc, aborted, disturbances, reply, batch>> /\ pc = "parResult" /\ at' = at + 1
        /\ at <= reply.calls
    BY <1>19 DEF EmitParallelResult, Answerable
  <2>2. at' <= reply.calls + 1
    BY <1>0, <2>1
  <2>. QED
    BY <2>1, <2>2 DEF CallsInv
<1>20. CASE RunThrows
  BY <1>20 DEF RunThrows, CallsInv
<1>. QED
  BY <1>1, <1>3, <1>4, <1>5, <1>6, <1>7, <1>8, <1>9, <1>10, <1>11, <1>12, <1>13, <1>14, <1>15,
     <1>16, <1>17, <1>18, <1>19, <1>20 DEF Next, Loop, Tools, Orphan, Callers

-----------------------------------------------------------------------------
(* Conversations.                                                          *)

LEMMA AnswersFacts ==
    ASSUME NEW turn \in Nat, NEW n \in Nat
    PROVE  /\ Answers(turn, n) \in Seq(Entry) /\ Len(Answers(turn, n)) = n
           /\ \A i \in 1..n : Answers(turn, n)[i] = ResultEntry(turn, i)
<1>1. Answers(turn, n) \in Seq(Entry)
  BY ResultEntries DEF Answers
<1>2. Answers(turn, n) \in [1..n -> Entry]
  BY EntryType DEF Answers
<1>. QED
  BY <1>1, <1>2, FunctionIsSeq DEF Answers

LEMMA NoAnswers ==
    ASSUME NEW s \in Seq(Entry), NEW turn \in Nat
    PROVE  WithAnswers(s, turn, 0) = s
<1>1. Answers(turn, 0) = <<>>
  BY AnswersFacts, EmptySeq
<1>. QED
  BY <1>1, ConcatEmptySeq DEF WithAnswers

LEMMA OneMoreAnswer ==
    ASSUME NEW s \in Seq(Entry), NEW turn \in Nat, NEW n \in Nat
    PROVE  Append(WithAnswers(s, turn, n), ResultEntry(turn, n + 1)) = WithAnswers(s, turn, n + 1)
<1>. DEFINE a == Answers(turn, n)
            b == Answers(turn, n + 1)
            e == ResultEntry(turn, n + 1)
            base == s \o a
            left == Append(base, e)
            right == s \o b
<1>1. /\ a \in Seq(Entry) /\ Len(a) = n /\ \A i \in 1..n : a[i] = ResultEntry(turn, i)
      /\ b \in Seq(Entry) /\ Len(b) = n + 1 /\ \A i \in 1..(n + 1) : b[i] = ResultEntry(turn, i)
      /\ e \in Entry /\ Len(s) \in Nat
  BY AnswersFacts, EntryType
<1>. HIDE DEF a, b, e
<1>2. /\ base \in Seq(Entry) /\ Len(base) = Len(s) + n
      /\ \A i \in 1..(Len(s) + n) : base[i] = IF i <= Len(s) THEN s[i] ELSE a[i - Len(s)]
  BY <1>1, ConcatProperties
<1>3. /\ right \in Seq(Entry) /\ Len(right) = Len(s) + Len(b)
      /\ \A i \in 1..(Len(s) + Len(b)) : right[i] = IF i <= Len(s) THEN s[i] ELSE b[i - Len(s)]
  BY <1>1, ConcatProperties
<1>. HIDE DEF base
<1>4. /\ left \in Seq(Entry) /\ Len(left) = Len(base) + 1
      /\ \A i \in 1..Len(base) : left[i] = base[i]
      /\ left[Len(base) + 1] = e
  <2>1. base \in Seq(Entry) /\ e \in Entry
    BY <1>1, <1>2
  <2>. QED
    BY <2>1, AppendProperties
<1>. HIDE DEF left, right
<1>l. Len(left) = Len(s) + n + 1 /\ Len(right) = Len(left) /\ Len(base) = Len(s) + n
  BY <1>1, <1>2, <1>3, <1>4
<1>5. ASSUME NEW i \in 1..Len(left) PROVE left[i] = right[i]
  <2>1. CASE i <= Len(s)
    <3>1. i \in 1..(Len(s) + n) /\ i \in 1..(Len(s) + (n + 1))
      BY <1>1, <2>1
    <3>. QED
      BY <1>1, <1>2, <1>3, <1>4, <2>1, <3>1
  <2>2. CASE ~(i <= Len(s)) /\ i # Len(s) + n + 1
    <3>1. i - Len(s) \in 1..n /\ i - Len(s) \in 1..(n + 1) /\ i \in 1..(Len(s) + n)
      BY <1>1, <1>l, <2>2
    <3>. QED
      BY <1>1, <1>2, <1>3, <1>4, <2>2, <3>1
  <2>3. CASE i = Len(s) + n + 1
    <3>1. i - Len(s) = n + 1 /\ n + 1 \in 1..(n + 1) /\ ~(i <= Len(s)) /\ i \in 1..(Len(s) + (n + 1))
      BY <1>1, <2>3
    <3>. QED
      BY <1>1, <1>2, <1>3, <1>4, <2>3, <3>1 DEF e
  <2>. QED
    BY <2>1, <2>2, <2>3
<1>6. left = right
  BY <1>3, <1>4, <1>l, <1>5, SeqEqual
<1>. QED
  BY <1>6 DEF left, right, base, a, b, e, WithAnswers

(* Emitting the first of the prompts leaves the same conversation.         *)
LEMMA PromptMoves ==
    ASSUME NEW s \in Seq(Entry), NEW q \in Seq(Message), q # <<>>
    PROVE  Append(s, UserEntry(Head(q))) \o UserEntriesOf(Tail(q)) = s \o UserEntriesOf(q)
<1>. DEFINE h == UserEntry(Head(q))
            u == UserEntriesOf(q)
            v == UserEntriesOf(Tail(q))
<1>1. /\ Len(q) \in Nat \ {0} /\ Head(q) = q[1] /\ Head(q) \in Message
      /\ Tail(q) \in Seq(Message) /\ Len(Tail(q)) = Len(q) - 1
      /\ \A i \in 1..(Len(q) - 1) : Tail(q)[i] = q[i + 1]
  BY EmptySeq, HeadTailProperties, ElementOfSeq
<1>2. /\ u \in Seq(Entry) /\ v \in Seq(Entry) /\ h \in Entry /\ s \in Seq(Entry)
  BY <1>1, UserEntries, EntryType DEF UserEntriesOf
<1>3. /\ DOMAIN q = 1..Len(q) /\ DOMAIN Tail(q) = 1..(Len(q) - 1)
  BY <1>1, LenProperties
<1>4. /\ Len(u) = Len(q) /\ \A i \in 1..Len(q) : u[i] = UserEntry(q[i])
      /\ Len(v) = Len(q) - 1 /\ \A i \in 1..(Len(q) - 1) : v[i] = UserEntry(q[i + 1])
  BY <1>1, <1>2, <1>3, LenProperties DEF UserEntriesOf
<1>5. h = u[1]
  BY <1>1, <1>4
<1>. HIDE DEF h, u, v
<1>. DEFINE sh == Append(s, h)
            left == sh \o v
            right == s \o u
<1>6. /\ sh \in Seq(Entry) /\ Len(sh) = Len(s) + 1 /\ sh[Len(s) + 1] = h
      /\ \A i \in 1..Len(s) : sh[i] = s[i]
  BY <1>2, AppendProperties
<1>7. Len(s) \in Nat
  OBVIOUS
<1>. HIDE DEF sh
<1>8. /\ left \in Seq(Entry) /\ Len(left) = Len(s) + Len(q)
      /\ \A i \in 1..(Len(s) + Len(q)) :
           left[i] = IF i <= Len(s) + 1 THEN sh[i] ELSE v[i - (Len(s) + 1)]
  <2>1. /\ left \in Seq(Entry) /\ Len(left) = Len(sh) + Len(v)
        /\ \A i \in 1..(Len(sh) + Len(v)) : left[i] = IF i <= Len(sh) THEN sh[i] ELSE v[i - Len(sh)]
    BY <1>2, <1>6, ConcatProperties
  <2>2. Len(sh) + Len(v) = Len(s) + Len(q)
    BY <1>1, <1>4, <1>6, <1>7
  <2>. QED
    BY <1>6, <2>1, <2>2
<1>9. /\ right \in Seq(Entry) /\ Len(right) = Len(s) + Len(q)
      /\ \A i \in 1..(Len(s) + Len(q)) : right[i] = IF i <= Len(s) THEN s[i] ELSE u[i - Len(s)]
  <2>1. /\ right \in Seq(Entry) /\ Len(right) = Len(s) + Len(u)
        /\ \A i \in 1..(Len(s) + Len(u)) : right[i] = IF i <= Len(s) THEN s[i] ELSE u[i - Len(s)]
    BY <1>2, ConcatProperties
  <2>. QED
    BY <1>4, <2>1
<1>. HIDE DEF left, right
<1>10. ASSUME NEW i \in 1..(Len(s) + Len(q)) PROVE left[i] = right[i]
  <2>1. CASE i <= Len(s)
    <3>1. i \in 1..Len(s) /\ i <= Len(s) + 1
      BY <1>7, <2>1
    <3>. QED
      BY <1>6, <1>8, <1>9, <2>1, <3>1
  <2>2. CASE i = Len(s) + 1
    <3>1. i - Len(s) = 1 /\ ~(i <= Len(s)) /\ i <= Len(s) + 1
      BY <1>7, <2>2
    <3>. QED
      BY <1>5, <1>6, <1>8, <1>9, <2>2, <3>1
  <2>3. CASE i > Len(s) + 1
    <3>1. /\ i - (Len(s) + 1) \in 1..(Len(q) - 1) /\ i - Len(s) \in 1..Len(q)
          /\ (i - (Len(s) + 1)) + 1 = i - Len(s) /\ ~(i <= Len(s)) /\ ~(i <= Len(s) + 1)
      BY <1>1, <1>7, <2>3
    <3>2. left[i] = v[i - (Len(s) + 1)] /\ right[i] = u[i - Len(s)]
      BY <1>8, <1>9, <3>1
    <3>. QED
      BY <1>4, <3>1, <3>2
  <2>. QED
    BY <1>1, <1>7, <2>1, <2>2, <2>3
<1>11. left = right
  BY <1>8, <1>9, <1>10, SeqEqual
<1>. QED
  BY <1>11 DEF left, right, sh, h, u, v

LEMMA FollowsAppend ==
    ASSUME NEW s \in Seq(Entry), NEW e \in Entry, Follows(s), e.role # "toolResult"
    PROVE  Follows(Append(s, e))
<1>. DEFINE t == Append(s, e)
<1>1. /\ Len(s) \in Nat /\ DOMAIN s = 1..Len(s) /\ DOMAIN t = 1..(Len(s) + 1)
      /\ \A i \in 1..Len(s) : t[i] = s[i]
      /\ t[Len(s) + 1] = e
  BY AppendProperties, LenProperties
<1>. HIDE DEF t
<1>. SUFFICES ASSUME NEW p \in DOMAIN t, t[p].role = "toolResult"
              PROVE  /\ p > 1
                     /\ IF t[p].call = 1
                        THEN t[p - 1].role = "assistant" /\ t[p - 1].turn = t[p].turn
                        ELSE t[p - 1] = ResultEntry(t[p].turn, t[p].call - 1)
  BY DEF Follows, t
<1>2. p \in 1..Len(s)
  BY <1>1
<1>3. p > 1 /\ t[p] = s[p]
  BY <1>1, <1>2 DEF Follows
<1>4. t[p - 1] = s[p - 1]
  BY <1>1, <1>2, <1>3
<1>. QED
  BY <1>1, <1>2, <1>3, <1>4 DEF Follows

LEMMA FollowsResult ==
    ASSUME NEW s \in Seq(Entry), Follows(s), NEW turn \in Nat, NEW n \in Nat \ {0}, s # <<>>,
           IF n = 1 THEN s[Len(s)].role = "assistant" /\ s[Len(s)].turn = turn
           ELSE s[Len(s)] = ResultEntry(turn, n - 1)
    PROVE  Follows(Append(s, ResultEntry(turn, n)))
<1>. DEFINE e == ResultEntry(turn, n)
            t == Append(s, e)
<1>0. e \in Entry /\ e.role = "toolResult" /\ e.turn = turn /\ e.call = n
  BY EntryType DEF ResultEntry
<1>1. /\ Len(s) \in Nat \ {0} /\ DOMAIN s = 1..Len(s) /\ DOMAIN t = 1..(Len(s) + 1)
      /\ \A i \in 1..Len(s) : t[i] = s[i]
      /\ t[Len(s) + 1] = e
  BY <1>0, EmptySeq, AppendProperties, LenProperties
<1>. HIDE DEF e, t
<1>. SUFFICES ASSUME NEW p \in DOMAIN t, t[p].role = "toolResult"
              PROVE  /\ p > 1
                     /\ IF t[p].call = 1
                        THEN t[p - 1].role = "assistant" /\ t[p - 1].turn = t[p].turn
                        ELSE t[p - 1] = ResultEntry(t[p].turn, t[p].call - 1)
  BY DEF Follows, e, t
<1>2. CASE p \in 1..Len(s)
  <2>1. p > 1 /\ t[p] = s[p]
    BY <1>1, <1>2 DEF Follows
  <2>2. t[p - 1] = s[p - 1]
    BY <1>1, <1>2, <2>1
  <2>. QED
    BY <1>1, <1>2, <2>1, <2>2 DEF Follows
<1>3. CASE p = Len(s) + 1
  <2>1. p - 1 = Len(s) /\ p > 1 /\ t[p - 1] = s[Len(s)] /\ t[p] = e
    BY <1>1, <1>3
  <2>. QED
    BY <1>0, <2>1
<1>. QED
  BY <1>1, <1>2, <1>3

LEMMA AnsweredAppend ==
    ASSUME NEW s \in Seq(Entry), NEW e \in Entry, NEW n \in 0..Len(s), Answered(s, n)
    PROVE  Answered(Append(s, e), n)
<1>. DEFINE t == Append(s, e)
<1>1. /\ Len(s) \in Nat /\ DOMAIN s = 1..Len(s) /\ DOMAIN t = 1..(Len(s) + 1)
      /\ \A i \in 1..Len(s) : t[i] = s[i]
  BY AppendProperties, LenProperties
<1>. HIDE DEF t
<1>2. \A p \in 1..n : p \in 1..Len(s)
  BY <1>1
<1>3. Answered(t, n)
  BY <1>1, <1>2 DEF Answered
<1>. QED
  BY <1>3 DEF t

LEMMA AnsweredPlain ==
    ASSUME NEW s \in Seq(Entry), NEW e \in Entry, Answered(s, Len(s)),
           e.role = "assistant" => e.stop \notin {"toolUse", "length"} \/ e.calls = 0
    PROVE  Answered(Append(s, e), Len(Append(s, e)))
<1>. DEFINE t == Append(s, e)
<1>1. Len(s) \in Nat /\ Len(t) = Len(s) + 1 /\ t[Len(s) + 1] = e
  BY AppendProperties
<1>2. Answered(t, Len(s))
  BY <1>1, AnsweredAppend
<1>. HIDE DEF t
<1>3. \A c : c \notin 1..0
  OBVIOUS
<1>4. Answered(t, Len(t))
  BY <1>1, <1>2, <1>3 DEF Answered
<1>. QED
  BY <1>4 DEF t

(* The conversation t is s, and then the results of the first n calls.     *)
Extension(t, s, turn, n) ==
    /\ t \in Seq(Entry) /\ Len(t) = Len(s) + n /\ DOMAIN t = 1..(Len(s) + n)
    /\ \A i \in 1..Len(s) : t[i] = s[i]
    /\ \A c \in 1..n : t[Len(s) + c] = ResultEntry(turn, c)

LEMMA BatchAppended ==
    ASSUME NEW s \in Seq(Entry), NEW turn \in Nat, NEW n \in Nat,
           NEW t, t = WithAnswers(s, turn, n)
    PROVE  Extension(t, s, turn, n)
<1>. DEFINE a == Answers(turn, n)
<1>1. /\ a \in Seq(Entry) /\ Len(a) = n /\ \A i \in 1..n : a[i] = ResultEntry(turn, i)
      /\ Len(s) \in Nat
  BY AnswersFacts
<1>. HIDE DEF a
<1>2. /\ t \in Seq(Entry) /\ Len(t) = Len(s) + Len(a) /\ DOMAIN t = 1..Len(t)
      /\ \A i \in 1..(Len(s) + Len(a)) : t[i] = IF i <= Len(s) THEN s[i] ELSE a[i - Len(s)]
  <2>. DEFINE u == s \o a
  <2>1. /\ u \in Seq(Entry) /\ Len(u) = Len(s) + Len(a)
        /\ \A i \in 1..(Len(s) + Len(a)) : u[i] = IF i <= Len(s) THEN s[i] ELSE a[i - Len(s)]
    BY <1>1, ConcatProperties
  <2>2. t = u
    BY DEF a, WithAnswers
  <2>. HIDE DEF u
  <2>. QED
    BY <2>1, <2>2, LenProperties
<1>3. \A i \in 1..Len(s) : t[i] = s[i]
  BY <1>1, <1>2
<1>4. ASSUME NEW c \in 1..n PROVE t[Len(s) + c] = ResultEntry(turn, c)
  <2>1. Len(s) + c \in 1..(Len(s) + Len(a)) /\ ~(Len(s) + c <= Len(s)) /\ (Len(s) + c) - Len(s) = c
    BY <1>1
  <2>. QED
    BY <1>1, <1>2, <2>1
<1>. QED
  BY <1>1, <1>2, <1>3, <1>4 DEF Extension

(* When every call of its last message is answered, a conversation is.     *)
LEMMA AnsweredBatch ==
    ASSUME NEW s \in Seq(Entry), s # <<>>, NEW turn \in Nat, NEW n \in Nat,
           s[Len(s)].turn = turn, s[Len(s)].calls = n, Answered(s, Len(s) - 1),
           NEW t, t = WithAnswers(s, turn, n)
    PROVE  Answered(t, Len(t))
<1>1. Len(s) \in Nat \ {0} /\ DOMAIN s = 1..Len(s)
  BY EmptySeq, LenProperties
<1>2. /\ Len(t) = Len(s) + n /\ DOMAIN t = 1..(Len(s) + n)
      /\ \A i \in 1..Len(s) : t[i] = s[i]
      /\ \A c \in 1..n : t[Len(s) + c] = ResultEntry(turn, c)
  <2>1. Extension(t, s, turn, n)
    BY BatchAppended
  <2>. QED
    BY <2>1 DEF Extension
<1>. SUFFICES ASSUME NEW p \in 1..Len(t), t[p].role = "assistant",
                     t[p].stop \in {"toolUse", "length"}, NEW c \in 1..t[p].calls
              PROVE  p + c \in DOMAIN t /\ t[p + c] = ResultEntry(t[p].turn, c)
  BY DEF Answered
<1>3. CASE p < Len(s)
  <2>1. p \in 1..(Len(s) - 1) /\ t[p] = s[p]
    BY <1>1, <1>2, <1>3
  <2>2. p + c \in 1..Len(s) /\ s[p + c] = ResultEntry(s[p].turn, c)
    BY <1>1, <2>1 DEF Answered
  <2>. QED
    BY <1>1, <1>2, <2>1, <2>2
<1>4. CASE p = Len(s)
  <2>1. t[p] = s[Len(s)]
    BY <1>1, <1>2, <1>4
  <2>2. c \in 1..n
    BY <2>1
  <2>. QED
    BY <1>1, <1>2, <1>4, <2>1, <2>2
<1>5. CASE p > Len(s)
  <2>1. p - Len(s) \in 1..n /\ p = Len(s) + (p - Len(s))
    BY <1>1, <1>2, <1>5
  <2>2. t[p] = ResultEntry(turn, p - Len(s))
    BY <1>2, <2>1
  <2>. QED
    BY <2>2 DEF ResultEntry
<1>6. p < Len(s) \/ p = Len(s) \/ p > Len(s)
  <2>1. p \in Int /\ Len(s) \in Int
    BY <1>1, <1>2
  <2>. QED
    BY <2>1
<1>. QED
  BY <1>3, <1>4, <1>5, <1>6

-----------------------------------------------------------------------------
(* The two copies, step by step.                                           *)

LEMMA FollowsIsProperty == AnswersFollowCalls <=> ("reset" \notin disturbances => Follows(messages))
BY DEF AnswersFollowCalls, Follows

LEMMA FollowsIsNextProperty ==
    ("reset" \notin disturbances' => Follows(messages')) => AnswersFollowCalls'
BY DEF AnswersFollowCalls, Follows

LEMMA LogFacts ==
    ASSUME LogInv, TypeInv
    PROVE  /\ context \in Seq(Entry) /\ messages \in Seq(Entry) /\ reply.turn \in Nat
           /\ reply.calls \in Nat /\ reply.stop \in StopReasons /\ at \in Nat \ {0}
           /\ "reset" \notin disturbances => Follows(messages)
BY FollowsIsProperty DEF LogInv, TypeInv, TypeOK, LogType, BatchType

LEMMA LogInit == Init => LogInv
<1>. SUFFICES ASSUME Init PROVE LogInv
  OBVIOUS
<1>1. pc = "idle" /\ messages = <<>>
  BY DEF Init
<1>2. CopyInv /\ OwnerInv
  BY <1>1 DEF CopyInv, OwnerInv, BatchPoints, SequentialPoints, ParallelPoints
<1>3. AnswersFollowCalls
  BY <1>1 DEF AnswersFollowCalls
<1>4. AnsweredInv
  BY <1>1 DEF AnsweredInv, Answered, BatchPoints, SequentialPoints, ParallelPoints
<1>. QED
  BY <1>2, <1>3, <1>4 DEF LogInv

(* Neither copy changes within a batch.                                    *)
LEMMA BatchLogQuiet ==
    ASSUME LogInv, UNCHANGED <<context, messages, reply>>, disturbances \subseteq disturbances',
           pc \in BatchPoints, pc' \in BatchPoints, Emitted' = Emitted
    PROVE  LogInv'
<1>1. CopyInv' /\ OwnerInv'
  BY DEF LogInv, CopyInv, OwnerInv, BatchPoints, SequentialPoints, ParallelPoints
<1>2. AnswersFollowCalls' /\ AnsweredInv'
  BY DEF LogInv, AnswersFollowCalls, AnsweredInv
<1>. QED
  BY <1>1, <1>2 DEF LogInv

(* ... or outside of one, or when one is given up.                         *)
LEMMA LogQuiet ==
    ASSUME LogInv, UNCHANGED <<messages, reply>>, disturbances \subseteq disturbances',
           pc' \notin BatchPoints, pc \in BatchPoints => disturbances' # {}, CopyInv'
    PROVE  LogInv'
<1>1. OwnerInv'
  BY DEF OwnerInv
<1>2. AnswersFollowCalls' /\ AnsweredInv'
  BY DEF LogInv, AnswersFollowCalls, AnsweredInv
<1>. QED
  BY <1>1, <1>2 DEF LogInv

(* A result of the batch enters the transcript.                            *)
LEMMA ResultStep ==
    ASSUME LogInv, TypeInv, pc \in BatchPoints, pc' \in BatchPoints,
           UNCHANGED <<context, reply, disturbances>>, EmitResult,
           Emitted = at - 1, Emitted' = at
    PROVE  LogInv'
<1>. DEFINE turn == reply.turn
<1>0. /\ context \in Seq(Entry) /\ messages \in Seq(Entry) /\ turn \in Nat
      /\ at \in Nat \ {0} /\ at - 1 \in Nat /\ (at - 1) + 1 = at
      /\ "reset" \notin disturbances => Follows(messages)
  BY LogFacts
<1>1. messages' = Append(messages, ResultEntry(turn, at))
  BY DEF EmitResult
<1>2. /\ context # <<>> /\ context[Len(context)].role = "assistant"
      /\ context[Len(context)].turn = turn /\ Len(context) \in Nat \ {0}
  BY <1>0, EmptySeq DEF LogInv, OwnerInv, AssistantEntry
<1>3. CASE "reset" \in disturbances
  <2>1. CopyInv' /\ AnswersFollowCalls'
    BY <1>3 DEF CopyInv, AnswersFollowCalls
  <2>2. OwnerInv' /\ AnsweredInv'
    BY <1>3 DEF LogInv, OwnerInv, AnsweredInv
  <2>. QED
    BY <2>1, <2>2 DEF LogInv
<1>4. CASE "reset" \notin disturbances
  <2>1. messages = WithAnswers(context, turn, at - 1)
    BY <1>4 DEF LogInv, CopyInv
  <2>2. messages' = WithAnswers(context, turn, at)
    <3>1. Append(WithAnswers(context, turn, at - 1), ResultEntry(turn, (at - 1) + 1))
            = WithAnswers(context, turn, (at - 1) + 1)
      BY <1>0, OneMoreAnswer
    <3>. QED
      BY <1>0, <1>1, <2>1, <3>1
  <2>3. CopyInv'
    BY <2>2 DEF CopyInv, BatchPoints, SequentialPoints, ParallelPoints
  <2>4. Extension(messages, context, turn, at - 1)
    BY <1>0, <2>1, BatchAppended
  <2>5. /\ messages # <<>>
        /\ IF at = 1 THEN messages[Len(messages)].role = "assistant" /\ messages[Len(messages)].turn = turn
           ELSE messages[Len(messages)] = ResultEntry(turn, at - 1)
    <3>1. Len(messages) = Len(context) + (at - 1) /\ messages # <<>>
      BY <1>0, <1>2, <2>4, EmptySeq DEF Extension
    <3>2. CASE at = 1
      <4>1. Len(messages) = Len(context) /\ Len(context) \in 1..Len(context)
        BY <1>2, <3>1, <3>2
      <4>2. messages[Len(context)] = context[Len(context)]
        BY <2>4, <4>1 DEF Extension
      <4>. QED
        BY <1>2, <3>1, <3>2, <4>1, <4>2
    <3>3. CASE at # 1
      <4>1. at - 1 \in 1..(at - 1)
        BY <1>0, <3>3
      <4>2. messages[Len(context) + (at - 1)] = ResultEntry(turn, at - 1)
        BY <2>4, <4>1 DEF Extension
      <4>. QED
        BY <3>1, <3>3, <4>2
    <3>. QED
      BY <3>2, <3>3
  <2>6. Follows(messages')
    BY <1>0, <1>1, <1>4, <2>5, FollowsResult
  <2>7. AnswersFollowCalls'
    BY <2>6, FollowsIsNextProperty
  <2>8. OwnerInv' /\ AnsweredInv'
    BY DEF LogInv, OwnerInv, AnsweredInv
  <2>. QED
    BY <2>3, <2>7, <2>8 DEF LogInv
<1>. QED
  BY <1>3, <1>4

(* The results of the batch enter the context.                             *)
LEMMA CloseStep ==
    ASSUME LogInv, TypeInv, pc \in BatchPoints, NEW n \in Nat, CloseBatch(n),
           UNCHANGED <<messages, reply, disturbances>>,
           Emitted = n, disturbances = {} => n = reply.calls
    PROVE  LogInv'
<1>. DEFINE turn == reply.turn
<1>0. /\ context \in Seq(Entry) /\ turn \in Nat /\ pc' = "turnEnd"
      /\ pc' \notin BatchPoints
  BY LogFacts DEF CloseBatch, BatchPoints, SequentialPoints, ParallelPoints
<1>1. context' = WithAnswers(context, turn, n)
  BY DEF CloseBatch, WithAnswers, Answers
<1>2. "reset" \notin disturbances => messages = context'
  BY <1>1 DEF LogInv, CopyInv
<1>3. CopyInv'
  BY <1>0, <1>2 DEF CopyInv
<1>4. OwnerInv' /\ AnswersFollowCalls'
  BY <1>0 DEF LogInv, OwnerInv, AnswersFollowCalls
<1>5. AnsweredInv'
  <2>. SUFFICES ASSUME disturbances = {} PROVE Answered(messages, Len(messages))
    BY <1>0 DEF AnsweredInv
  <2>1. /\ context # <<>> /\ context[Len(context)].turn = turn
        /\ context[Len(context)].calls = n /\ Answered(context, Len(context) - 1)
    BY DEF LogInv, OwnerInv, AnsweredInv, AssistantEntry
  <2>2. messages = WithAnswers(context, turn, n)
    BY <1>1, <1>2
  <2>. QED
    BY <1>0, <2>1, <2>2, AnsweredBatch
<1>. QED
  BY <1>3, <1>4, <1>5 DEF LogInv

(* A message that is no result enters the transcript outside of a batch.   *)
LEMMA MessageBatchStep ==
    ASSUME LogInv, TypeInv, NEW e \in Entry, e.role # "toolResult",
           e.role = "assistant" => e.stop \notin {"toolUse", "length"} \/ e.calls = 0,
           messages' = Append(messages, e), UNCHANGED <<reply, disturbances>>,
           pc \notin BatchPoints, pc' \notin BatchPoints, CopyInv'
    PROVE  LogInv'
<1>0. messages \in Seq(Entry) /\ ("reset" \notin disturbances => Follows(messages))
  BY LogFacts
<1>1. OwnerInv'
  BY DEF OwnerInv
<1>2. AnswersFollowCalls'
  <2>1. "reset" \notin disturbances => Follows(messages')
    BY <1>0, FollowsAppend
  <2>. QED
    BY <2>1, FollowsIsNextProperty
<1>3. AnsweredInv'
  <2>. SUFFICES ASSUME disturbances = {} PROVE Answered(messages', Len(messages'))
    BY DEF AnsweredInv
  <2>1. Answered(messages, Len(messages))
    BY DEF LogInv, AnsweredInv
  <2>. QED
    BY <1>0, <2>1, AnsweredPlain
<1>. QED
  BY <1>1, <1>2, <1>3 DEF LogInv

(* The model's answer: the end of a turn, or the start of a batch.         *)
LEMMA RespondStep ==
    ASSUME LogInv, TypeInv, Respond
    PROVE  LogInv'
<1>. DEFINE turn == reply.turn + 1
<1>1. PICK r \in Replies :
        /\ reply' = [turn |-> turn, stop |-> r.stop, calls |-> r.calls]
        /\ context' = Append(context, AssistantEntry(turn, r.stop, r.calls))
        /\ messages' = Append(messages, AssistantEntry(turn, r.stop, r.calls))
        /\ pc' \in AfterReply(r)
  BY DEF Respond
<1>2. /\ pc = "stream" /\ at' = 1 /\ disturbances' = disturbances /\ pc \notin BatchPoints
      /\ pc' \in {"agentEnd", "truncated", "turnEnd", "seqStart", "parStart"}
  <2>1. pc' \in {"agentEnd", "truncated", "turnEnd", "seqStart", "parStart"}
    BY <1>1, AfterReplyPoint
  <2>2. pc = "stream" /\ at' = 1 /\ disturbances' = disturbances
    BY DEF Respond, historyVars
  <2>. QED
    BY <2>1, <2>2 DEF BatchPoints, SequentialPoints, ParallelPoints
<1>3. /\ r.stop \in StopReasons /\ r.calls \in Nat /\ (r.stop = "stop" => r.calls = 0)
      /\ r.calls # 0 => r.calls > 0
  BY ConstantsAssumption DEF Replies
<1>4. pc' \notin BatchPoints => r.stop \notin {"toolUse", "length"} \/ r.calls = 0
  <2>. SUFFICES ASSUME r.stop \in {"toolUse", "length"}, r.calls > 0 PROVE pc' \in BatchPoints
    BY <1>3
  <2>1. AfterReply(r) \subseteq {"truncated", "seqStart", "parStart"}
    BY <1>3 DEF AfterReply
  <2>. QED
    BY <1>1, <2>1 DEF BatchPoints, SequentialPoints, ParallelPoints
<1>. DEFINE e == AssistantEntry(turn, r.stop, r.calls)
<1>5. /\ context \in Seq(Entry) /\ messages \in Seq(Entry) /\ turn \in Nat
      /\ "reset" \notin disturbances => Follows(messages)
  BY LogFacts
<1>6. e \in Entry /\ e.role = "assistant" /\ e.stop = r.stop /\ e.calls = r.calls
  BY <1>3, <1>5, EntryType DEF AssistantEntry
<1>7. "reset" \notin disturbances => context = messages /\ context' = messages'
  BY <1>1, <1>2 DEF LogInv, CopyInv
<1>8. context' = Append(context, e) /\ messages' = Append(messages, e)
  BY <1>1
<1>9. reply'.turn = turn /\ reply'.stop = r.stop /\ reply'.calls = r.calls
  BY <1>1
<1>. HIDE DEF turn
<1>10. OwnerInv'
  <2>1. e = AssistantEntry(reply'.turn, reply'.stop, reply'.calls)
    BY <1>9
  <2>. HIDE DEF e
  <2>2. context' # <<>> /\ context'[Len(context')] = e
    <3>1. Len(context') = Len(context) + 1 /\ context'[Len(context) + 1] = e
      BY <1>5, <1>6, <1>8, AppendProperties
    <3>2. context' # <<>>
      BY <1>5, <1>6, <1>8, AppendProperties
    <3>. QED
      BY <3>1, <3>2
  <2>. QED
    BY <2>1, <2>2 DEF OwnerInv
<1>. HIDE DEF e
<1>11. CopyInv'
  <2>1. context' \in Seq(Entry)
    BY <1>5, <1>6, <1>8, AppendProperties
  <2>2. WithAnswers(context', turn, 0) = context'
    BY <1>5, <2>1, NoAnswers
  <2>3. Emitted' = 0
    BY <1>2 DEF Emitted
  <2>. QED
    BY <1>2, <1>7, <1>9, <2>2, <2>3 DEF CopyInv
<1>12. AnswersFollowCalls'
  <2>1. "reset" \notin disturbances => Follows(messages')
    BY <1>5, <1>6, <1>8, FollowsAppend
  <2>. QED
    BY <1>2, <2>1, FollowsIsNextProperty
<1>13. AnsweredInv'
  <2>. SUFFICES ASSUME disturbances = {}
                PROVE  IF pc' \in BatchPoints THEN Answered(context', Len(context') - 1)
                       ELSE Answered(messages', Len(messages'))
    BY <1>2 DEF AnsweredInv
  <2>1. Answered(messages, Len(messages)) /\ context = messages
    BY <1>2, <1>7 DEF LogInv, AnsweredInv
  <2>2. Answered(context', Len(context') - 1)
    <3>1. Len(context) \in 0..Len(context)
      BY <1>5
    <3>2. Answered(Append(context, e), Len(context))
      BY <1>5, <1>6, <2>1, <3>1, AnsweredAppend
    <3>3. Len(context') - 1 = Len(context)
      BY <1>5, <1>6, <1>8, AppendProperties
    <3>. QED
      BY <1>8, <3>2, <3>3
  <2>3. pc' \notin BatchPoints => Answered(messages', Len(messages'))
    BY <1>4, <1>5, <1>6, <1>8, <2>1, AnsweredPlain
  <2>. QED
    BY <2>2, <2>3
<1>. QED
  BY <1>10, <1>11, <1>12, <1>13 DEF LogInv

LEMMA LogStep ==
    ASSUME LogInv, CallsInv, TypeInv, [Next]_vars
    PROVE  LogInv'
<1>. USE DEF queueVars, handVars, logVars, batchVars, historyVars
<1>0. /\ context \in Seq(Entry) /\ messages \in Seq(Entry) /\ reply.turn \in Nat
      /\ reply.calls \in Nat /\ at \in Nat \ {0} /\ at - 1 \in Nat /\ (at + 1) - 1 = at
      /\ prompts \in Seq(Message) /\ pending \in Seq(Message)
  BY LogFacts DEF TypeInv, TypeOK, MessageType
<1>c. pc = "seqNext" => at <= reply.calls
  BY DEF TypeInv, CursorInv
<1>p. BatchPoints = {"seqStart", "seqPrepare", "seqExecute", "seqNext", "parStart", "parPrepare",
                     "parNext", "parRun", "parResult", "truncated"}
  BY DEF BatchPoints, SequentialPoints, ParallelPoints
<1>a. aborted => "abort" \in disturbances
  BY DEF CallsInv
<1>1. ASSUME UNCHANGED <<pc, at, context, messages, reply, prompts>>,
             disturbances \subseteq disturbances'
      PROVE  LogInv'
  <2>1. CopyInv'
    BY <1>1 DEF LogInv, CopyInv, Emitted
  <2>2. OwnerInv' /\ AnswersFollowCalls' /\ AnsweredInv'
    BY <1>1 DEF LogInv, OwnerInv, AnswersFollowCalls, AnsweredInv
  <2>. QED
    BY <2>1, <2>2 DEF LogInv
<1>2. CASE UNCHANGED vars
  BY <1>1, <1>2 DEF vars
<1>3. CASE Steer \/ FollowUp \/ ClearSteering \/ ClearFollowUps \/ Abort
  BY <1>1, <1>3 DEF Steer, FollowUp, ClearSteering, ClearFollowUps, Abort
<1>4. ASSUME NEW i, RemoveSteering(i) \/ RemoveFollowUp(i) \/ OrphanEnds(i) PROVE LogInv'
  BY <1>1, <1>4 DEF RemoveSteering, RemoveFollowUp, OrphanEnds
<1>5. CASE Reset
  <2>1. /\ UNCHANGED <<pc, at, context, reply, prompts>> /\ messages' = <<>>
        /\ disturbances' = disturbances \cup (IF pc = "idle" THEN {} ELSE {"reset"})
    BY <1>5 DEF Reset
  <2>2. CASE pc = "idle"
    <3>1. CopyInv' /\ OwnerInv'
      BY <1>p, <2>1, <2>2 DEF CopyInv, OwnerInv
    <3>2. AnswersFollowCalls'
      BY <2>1 DEF AnswersFollowCalls
    <3>3. AnsweredInv'
      <4>1. Answered(messages', Len(messages'))
        BY <2>1 DEF Answered
      <4>. QED
        BY <1>p, <2>1, <2>2, <4>1 DEF AnsweredInv
    <3>. QED
      BY <3>1, <3>2, <3>3 DEF LogInv
  <2>3. CASE pc # "idle"
    <3>1. "reset" \in disturbances'
      BY <2>1, <2>3
    <3>2. CopyInv' /\ AnswersFollowCalls' /\ AnsweredInv'
      BY <3>1 DEF CopyInv, AnswersFollowCalls, AnsweredInv
    <3>3. OwnerInv'
      BY <2>1 DEF LogInv, OwnerInv
    <3>. QED
      BY <3>2, <3>3 DEF LogInv
  <2>. QED
    BY <2>2, <2>3
<1>6. ASSUME NEW taken, NEW skip, pc = "idle", StartRun(taken, skip) PROVE LogInv'
  <2>1. /\ UNCHANGED <<messages, reply, disturbances>> /\ pc' = "prompts" /\ prompts' = taken
        /\ context' = messages \o UserEntriesOf(taken)
    BY <1>6 DEF StartRun, UserEntriesOf
  <2>2. CopyInv'
    BY <2>1, <1>p DEF CopyInv
  <2>. QED
    BY <1>6, <1>p, <2>1, <2>2, LogQuiet
<1>7. CASE Start
  BY <1>6, <1>7 DEF Start, Prompt, ContinueTranscript, ContinueWithSteering, ContinueWithFollowUps
<1>8. CASE EmitPrompt
  <2>. DEFINE e == UserEntry(Head(prompts))
  <2>1. /\ pc = "prompts" /\ prompts # <<>> /\ prompts' = Tail(prompts)
        /\ messages' = Append(messages, e) /\ UNCHANGED <<pc, context, reply, disturbances>>
    BY <1>8 DEF EmitPrompt
  <2>2. e \in Entry /\ e.role = "user"
    <3>1. Head(prompts) \in Message
      BY <1>0, <2>1, HeadTailProperties
    <3>. QED
      BY <3>1, EntryType DEF UserEntry
  <2>3. Append(messages, e) \o UserEntriesOf(Tail(prompts)) = messages \o UserEntriesOf(prompts)
    BY <1>0, <2>1, PromptMoves
  <2>4. CopyInv'
    <3>. DEFINE joined == messages \o UserEntriesOf(prompts)
                rejoined == Append(messages, e) \o UserEntriesOf(Tail(prompts))
    <3>1. "reset" \notin disturbances => context = joined
      BY <2>1 DEF LogInv, CopyInv
    <3>2. rejoined = joined
      BY <2>3
    <3>3. rejoined = (messages \o UserEntriesOf(prompts))'
      BY <2>1
    <3>. HIDE DEF joined, rejoined
    <3>. QED
      BY <2>1, <3>1, <3>2, <3>3, <1>p DEF CopyInv
  <2>. HIDE DEF e
  <2>. QED
    BY <2>1, <2>2, <2>4, <1>p, MessageBatchStep
<1>9. CASE EnterLoop
  <2>1. /\ pc = "prompts" /\ prompts = <<>> /\ pc' = "poll"
        /\ UNCHANGED <<context, messages, reply, disturbances>>
    BY <1>9 DEF EnterLoop
  <2>2. messages \o UserEntriesOf(prompts) = messages
    <3>1. UserEntriesOf(prompts) = <<>>
      BY <2>1 DEF UserEntriesOf
    <3>. QED
      BY <1>0, <3>1, ConcatEmptySeq
  <2>3. CopyInv'
    BY <2>1, <2>2, <1>p DEF LogInv, CopyInv
  <2>. QED
    BY <2>1, <2>3, <1>p, LogQuiet
<1>10. CASE InitialPoll \/ BeginTurn \/ CallModel \/ PollSteering \/ PollFollowUps
  <2>1. /\ pc \in {"poll", "turn", "inject", "turnEnd", "followUps"}
        /\ pc' \in {"turn", "inject", "stream", "followUps", "agentEnd"}
        /\ UNCHANGED <<context, messages, reply, disturbances>>
    BY <1>10 DEF InitialPoll, BeginTurn, CallModel, PollSteering, PollFollowUps
  <2>2. CopyInv'
    BY <2>1, <1>p DEF LogInv, CopyInv
  <2>. QED
    BY <2>1, <2>2, <1>p, LogQuiet
<1>11. CASE InjectPending
  <2>. DEFINE e == UserEntry(Head(pending))
  <2>1. /\ pc = "inject" /\ pc' = "inject" /\ pending # <<>> /\ UNCHANGED <<reply, disturbances>>
        /\ messages' = Append(messages, e) /\ context' = Append(context, e)
    BY <1>11 DEF InjectPending
  <2>2. e \in Entry /\ e.role = "user"
    <3>1. Head(pending) \in Message
      BY <1>0, <2>1, HeadTailProperties
    <3>. QED
      BY <3>1, EntryType DEF UserEntry
  <2>. HIDE DEF e
  <2>3. CopyInv'
    BY <2>1, <1>p DEF LogInv, CopyInv
  <2>. QED
    BY <2>1, <2>2, <2>3, <1>p, MessageBatchStep
<1>12. CASE FinishRun
  <2>1. /\ pc \notin BatchPoints /\ pc' = "idle" /\ UNCHANGED <<messages, reply, disturbances>>
    BY <1>12, <1>p DEF FinishRun
  <2>2. CopyInv'
    BY <2>1, <1>p DEF CopyInv
  <2>. QED
    BY <2>1, <2>2, <1>p, LogQuiet
<1>13. CASE RunThrows
  <2>1. /\ pc' = "failing" /\ UNCHANGED <<messages, reply>> /\ disturbances \subseteq disturbances'
        /\ disturbances' # {}
    BY <1>13 DEF RunThrows
  <2>2. CopyInv'
    BY <2>1, <1>p DEF CopyInv
  <2>. QED
    BY <2>1, <2>2, <1>p, LogQuiet
<1>14. CASE HandleRunFailure
  <2>1. /\ pc \notin BatchPoints /\ pc' = "settling" /\ UNCHANGED <<reply, disturbances>>
    BY <1>14, <1>p DEF HandleRunFailure
  <2>2. CopyInv'
    BY <2>1, <1>p DEF CopyInv
  <2>3. CASE UNCHANGED messages
    BY <2>1, <2>2, <2>3, <1>p, LogQuiet
  <2>4. ASSUME NEW stop \in {"aborted", "error"},
               messages' = Append(messages, AssistantEntry(0, stop, 0))
        PROVE  LogInv'
    <3>. DEFINE e == AssistantEntry(0, stop, 0)
    <3>1. e \in Entry /\ e.role = "assistant" /\ e.calls = 0
      BY <2>4, EntryType DEF AssistantEntry, StopReasons
    <3>2. messages' = Append(messages, e)
      BY <2>4
    <3>. HIDE DEF e
    <3>. QED
      BY <2>1, <2>2, <3>1, <3>2, <1>p, MessageBatchStep
  <2>. QED
    BY <1>14, <2>3, <2>4 DEF HandleRunFailure
<1>15. CASE Respond
  BY <1>15, RespondStep
<1>16. CASE FailTruncated
  <2>1. /\ pc = "truncated" /\ pc' = pc /\ at' = at + 1 /\ EmitResult
        /\ UNCHANGED <<context, reply, disturbances>>
    BY <1>16 DEF FailTruncated
  <2>2. Emitted = at - 1 /\ Emitted' = at
    BY <2>1, <1>0 DEF Emitted
  <2>. QED
    BY <2>1, <2>2, <1>p, ResultStep
<1>17. CASE EmitParallelResult
  <2>1. /\ pc = "parResult" /\ pc' = pc /\ at' = at + 1 /\ EmitResult
        /\ UNCHANGED <<context, reply, disturbances>>
    BY <1>17 DEF EmitParallelResult
  <2>2. Emitted = at - 1 /\ Emitted' = at
    BY <2>1, <1>0 DEF Emitted
  <2>. QED
    BY <2>1, <2>2, <1>p, ResultStep
<1>18. ASSUME pc \in {"seqPrepare", "seqExecute"}, pc' = "seqNext", EmitResult,
              UNCHANGED <<at, context, reply, disturbances>>
       PROVE  LogInv'
  <2>1. Emitted = at - 1 /\ Emitted' = at
    BY <1>18 DEF Emitted
  <2>. QED
    BY <1>18, <2>1, <1>p, ResultStep
<1>19. CASE PrepareSequential
  <2>1. CASE pc' = "seqNext"
    BY <1>18, <1>19, <2>1 DEF PrepareSequential
  <2>2. CASE pc' = "seqExecute"
    <3>1. /\ pc = "seqPrepare" /\ UNCHANGED <<at, context, messages, reply, disturbances>>
      BY <1>19, <2>2 DEF PrepareSequential
    <3>2. Emitted' = Emitted
      BY <2>2, <3>1 DEF Emitted
    <3>. QED
      BY <2>2, <3>1, <3>2, <1>p, BatchLogQuiet
  <2>. QED
    BY <1>19, <2>1, <2>2 DEF PrepareSequential
<1>20. CASE FinishSequential
  BY <1>18, <1>20 DEF FinishSequential
<1>21. CASE StartCall("seqStart", "seqPrepare")
  <2>1. /\ pc = "seqStart" /\ pc' = "seqPrepare"
        /\ UNCHANGED <<at, context, messages, reply, disturbances>>
    BY <1>21 DEF StartCall
  <2>2. Emitted' = Emitted
    BY <2>1 DEF Emitted
  <2>. QED
    BY <2>1, <2>2, <1>p, BatchLogQuiet
<1>22. ASSUME pc \in {"parStart", "parPrepare", "parNext", "parRun"},
              pc' \in {"parStart", "parPrepare", "parNext", "parRun"} \/ (pc' = "parResult" /\ at' = 1),
              UNCHANGED <<context, messages, reply, disturbances>>
       PROVE  LogInv'
  <2>1. Emitted' = Emitted
    BY <1>22 DEF Emitted
  <2>. QED
    BY <1>22, <2>1, <1>p, BatchLogQuiet
<1>23. CASE StartCall("parStart", "parPrepare") \/ PrepareParallel \/ CollectParallel
  BY <1>22, <1>23 DEF StartCall, PrepareParallel, CollectParallel
<1>24. CASE NextParallel \/ \E i \in 1..MaxCalls : FinishParallel(i)
  BY <1>22, <1>24 DEF NextParallel, FinishParallel
<1>25. CASE NextSequential
  <2>1. pc = "seqNext" /\ UNCHANGED <<messages, reply, disturbances>> /\ Emitted = at
    BY <1>25 DEF NextSequential, Emitted
  <2>2. CASE aborted \/ at = reply.calls
    <3>1. CloseBatch(at)
      BY <1>25, <2>2 DEF NextSequential
    <3>2. disturbances = {} => at = reply.calls
      BY <1>a, <2>2
    <3>. QED
      BY <1>0, <2>1, <3>1, <3>2, <1>p, CloseStep
  <2>3. CASE ~(aborted \/ at = reply.calls)
    <3>1. pc' = "seqStart" /\ at' = at + 1 /\ UNCHANGED context
      BY <1>25, <2>3 DEF NextSequential
    <3>2. Emitted' = Emitted
      BY <1>0, <2>1, <3>1 DEF Emitted
    <3>. QED
      BY <2>1, <3>1, <3>2, <1>p, BatchLogQuiet
  <2>. QED
    BY <2>2, <2>3
<1>26. CASE CloseTruncated
  <2>1. /\ pc = "truncated" /\ at > reply.calls /\ CloseBatch(reply.calls)
        /\ UNCHANGED <<messages, reply, disturbances>> /\ Emitted = at - 1
    BY <1>26 DEF CloseTruncated, Emitted
  <2>2. at <= reply.calls + 1
    BY <2>1 DEF CallsInv
  <2>3. Emitted = reply.calls
    BY <1>0, <2>1, <2>2
  <2>. QED
    BY <1>0, <2>1, <2>3, <1>p, CloseStep
<1>27. CASE CloseParallel
  <2>1. /\ pc = "parResult" /\ CloseBatch(at - 1) /\ ~(at <= reply.calls /\ batch[at] # "none")
        /\ UNCHANGED <<messages, reply, disturbances>> /\ Emitted = at - 1
    BY <1>27 DEF CloseParallel, Answerable, Emitted
  <2>2. disturbances = {} => at - 1 = reply.calls
    <3>1. at <= reply.calls + 1
      BY <2>1 DEF CallsInv
    <3>2. disturbances = {} => \A i \in 1..reply.calls : batch[i] # "none"
      BY <2>1 DEF CallsInv
    <3>3. at <= reply.calls => at \in 1..reply.calls
      BY <1>0
    <3>4. disturbances = {} => ~(at <= reply.calls)
      BY <2>1, <3>2, <3>3
    <3>. QED
      BY <1>0, <3>1, <3>4
  <2>. QED
    BY <1>0, <2>1, <2>2, <1>p, CloseStep
<1>. QED
  BY <1>2, <1>3, <1>4, <1>5, <1>7, <1>8, <1>9, <1>10, <1>11, <1>12, <1>13, <1>14, <1>15, <1>16,
     <1>17, <1>19, <1>20, <1>21, <1>23, <1>24, <1>25, <1>26, <1>27
     DEF Next, Start, Loop, Tools, Orphan, Callers

(* TranscriptSound holds of every run of the agent, for every batch size,  *)
(* queue mode and number of turns: the model is shown the transcript, in   *)
(* which every result follows its call and, unless a run was aborted,      *)
(* threw or was reset, every call has its result (createLoopEmit,          *)
(* executeToolCalls).                                                      *)
THEOREM TranscriptIsSound == Spec => []TranscriptSound
<1>1. Init => TypeInv /\ CallsInv /\ LogInv
  BY TypeInit, CallsInit, LogInit
<1>2. TypeInv /\ CallsInv /\ LogInv /\ [Next]_vars => (TypeInv /\ CallsInv /\ LogInv)'
  BY TypeStep, CallsStep, LogStep
<1>3. TypeInv /\ CallsInv /\ LogInv => TranscriptSound
  <2>. SUFFICES ASSUME TypeInv, LogInv PROVE TranscriptSound
    OBVIOUS
  <2>1. TypeOK /\ AnswersFollowCalls
    BY DEF TypeInv, LogInv
  <2>2. ContextIsTranscript
    BY DEF LogInv, CopyInv, ContextIsTranscript
  <2>3. CallsAnsweredBeforeModel
    <3>. SUFFICES ASSUME pc = "stream", disturbances = {} PROVE Answered(context, Len(context))
      <4>1. DOMAIN context = 1..Len(context)
        BY DEF TypeInv, TypeOK, LogType
      <4>. QED
        BY <4>1 DEF CallsAnsweredBeforeModel, Answered
    <3>1. context = messages
      BY DEF LogInv, CopyInv
    <3>2. Answered(messages, Len(messages))
      BY DEF LogInv, AnsweredInv, BatchPoints, SequentialPoints, ParallelPoints
    <3>. QED
      BY <3>1, <3>2
  <2>. QED
    BY <2>1, <2>2, <2>3 DEF TranscriptSound
<1>. QED
  BY <1>1, <1>2, <1>3, PTL DEF Spec
=============================================================================
