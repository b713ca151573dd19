------------------------ MODULE HostedSessionProofs ------------------------
(***************************************************************************)
(* Proofs about HostedSession, for any number of runs, questions and       *)
(* reseeds: no interleaving of joining, binding and answers swallows a     *)
(* question the engine waits on.                                           *)
(***************************************************************************)
EXTENDS HostedSession, SequenceTheorems, FiniteSetTheorems, TLAPS

StateType ==
    /\ alive \in BOOLEAN /\ streaming \in BOOLEAN /\ mirror \in BOOLEAN /\ waiting \in BOOLEAN
    /\ turns \in 0..MaxTurns /\ finalizing \in Nat /\ seeds \in 0..MaxSeeds
    /\ outstanding \subseteq asked /\ elsewhere \subseteq asked /\ editors \subseteq asked
    /\ asked \subseteq Questions /\ phase \in Phases
    /\ told \subseteq open /\ open \subseteq asked /\ pendingUi \subseteq asked
SeqType == up \in Seq(Requests) /\ link \in Seq(Frames) /\ landed \in Seq(Frames)

(* A settlement the daemon holds is of a run that has begun and ended.     *)
CountInv == finalizing + (IF streaming THEN 1 ELSE 0) <= turns

(* A surface that has not joined was told nothing.                         *)
AwayInv == phase = "away" => landed = <<>>

(* What is on its way is about questions that were asked, and a question   *)
(* is not declared dismissed or resolved while the engine waits on it.     *)
FramesInv ==
    \A frame \in Range(link) :
        /\ frame.kind \in {"ask", "dismiss", "resolved"} => frame.of \in asked
        /\ frame.kind \in {"dismiss", "resolved"} => frame.of \notin outstanding

(* A dialog marked as resolved is of no question the engine waits on.      *)
ToldInv == told \cap outstanding = {}

(* Where an attached surface may have a question.                          *)
Has(q) ==
    \/ About("ask", q) \in Range(link) \/ About("answer", q) \in Range(up)
    \/ q \in pendingUi \cup (open \ told)

KeptInv == \A q \in outstanding : phase \in Attached => Has(q)

HostedType == StateType /\ SeqType /\ CountInv
HostedInv == HostedType /\ AwayInv /\ FramesInv /\ ToldInv /\ KeptInv

-----------------------------------------------------------------------------
(* Sequences by what is in them.                                           *)

LEMMA RangeOfAppend ==
    ASSUME NEW S, NEW s \in Seq(S), NEW e \in S
    PROVE  Append(s, e) \in Seq(S) /\ Range(Append(s, e)) = Range(s) \cup {e}
<1>. DEFINE t == Append(s, e)
<1>1. /\ t \in Seq(S) /\ DOMAIN s = 1..Len(s) /\ DOMAIN t = 1..(Len(s) + 1) /\ Len(s) \in Nat
      /\ \A i \in 1..Len(s) : t[i] = s[i]
      /\ t[Len(s) + 1] = e
    BY AppendProperties, LenProperties
<1>. HIDE DEF t
<1>2. 1..(Len(s) + 1) = 1..Len(s) \cup {Len(s) + 1}
    BY <1>1
<1>3. Range(t) = Range(s) \cup {e}
    BY <1>1, <1>2 DEF Range
<1> QED BY <1>1, <1>3 DEF t

LEMMA RangeOfHead ==
    ASSUME NEW S, NEW s \in Seq(S), s # <<>>
    PROVE  /\ Head(s) \in S /\ Tail(s) \in Seq(S)
           /\ Range(s) = {Head(s)} \cup Range(Tail(s))
<1>. DEFINE t == Tail(s)
<1>1. /\ Len(s) \in Nat \ {0} /\ DOMAIN s = 1..Len(s) /\ DOMAIN t = 1..(Len(s) - 1)
      /\ Head(s) = s[1] /\ Head(s) \in S /\ t \in Seq(S)
      /\ \A i \in 1..(Len(s) - 1) : t[i] = s[i + 1]
    BY EmptySeq, HeadTailProperties, LenProperties
<1>. HIDE DEF t
<1>2. ASSUME NEW x \in Range(s) PROVE x \in {Head(s)} \cup Range(t)
    <2>1. PICK i \in 1..Len(s) : x = s[i]
        BY <1>1, <1>2 DEF Range
    <2>2. CASE i = 1
        BY <1>1, <2>1, <2>2
    <2>3. CASE i # 1
        <3>1. i - 1 \in 1..(Len(s) - 1) /\ (i - 1) + 1 = i
            BY <1>1, <2>3
        <3>2. x = t[i - 1]
            BY <1>1, <2>1, <3>1
        <3> QED BY <1>1, <3>1, <3>2 DEF Range
    <2> QED BY <2>2, <2>3
<1>3. ASSUME NEW x \in Range(t) PROVE x \in Range(s)
    <2>1. PICK i \in 1..(Len(s) - 1) : x = t[i]
        BY <1>1, <1>3 DEF Range
    <2>2. i + 1 \in 1..Len(s) /\ x = s[i + 1]
        BY <1>1, <2>1
    <2> QED BY <1>1, <2>2 DEF Range
<1>4. Head(s) \in Range(s)
    <2>1. 1 \in DOMAIN s
        BY <1>1
    <2> QED BY <1>1, <2>1 DEF Range
<1>5. Range(s) = {Head(s)} \cup Range(t)
    BY <1>2, <1>3, <1>4
<1> QED BY <1>1, <1>5 DEF t

LEMMA RangeOfConcat ==
    ASSUME NEW S, NEW s \in Seq(S), NEW t \in Seq(S)
    PROVE  s \o t \in Seq(S) /\ Range(s \o t) = Range(s) \cup Range(t)
BY ConcatProperties, RangeConcatenation

LEMMA RangeOfNone == Range(<<>>) = {}
BY DEF Range

LEMMA RangeOfOne ==
    ASSUME NEW S, NEW e \in S
    PROVE  <<e>> \in Seq(S) /\ Range(<<e>>) = {e}
<1>1. <<e>> \in Seq(S) /\ DOMAIN <<e>> = {1} /\ <<e>>[1] = e
    OBVIOUS
<1> QED BY <1>1 DEF Range

(* SetToSeq lists a finite set.                                            *)
LEMMA ListOfSet ==
    ASSUME NEW S, IsFiniteSet(S)
    PROVE  /\ Cardinality(S) \in Nat /\ SetToSeq(S) \in [1..Cardinality(S) -> S]
           /\ \A x \in S : \E i \in 1..Cardinality(S) : SetToSeq(S)[i] = x
<1>. DEFINE n == Cardinality(S)
            f == SetToSeq(S)
<1>1. n \in Nat /\ \E g : g \in Bijection(1..n, S)
    BY FS_CardinalityType DEF ExistsBijection
<1>2. \E g \in [1..n -> S] : IsInjective(g)
    BY <1>1 DEF Bijection, Injection, IsInjective
<1>3. f \in [1..n -> S] /\ IsInjective(f)
    BY <1>2 DEF SetToSeq
<1>4. IsFiniteSet(1..n) /\ Cardinality(1..n) = n
    BY <1>1, FS_Interval
<1>. HIDE DEF f
<1>5. f \in Injection(1..n, S)
    BY <1>3 DEF Injection
<1>6. f \in Surjection(1..n, S)
    BY <1>4, <1>5, FS_Injection
<1>7. \A x \in S : \E i \in 1..n : f[i] = x
    BY <1>6 DEF Surjection
<1> QED BY <1>1, <1>3, <1>7 DEF f

-----------------------------------------------------------------------------
(* Frames.                                                                 *)

LEMMA FrameFacts ==
    ASSUME NEW frame \in Frames
    PROVE  /\ frame.kind \in {"start", "settled", "commands", "exit", "attached", "ask", "dismiss",
                              "resolved", "state"}
           /\ frame.kind \in {"ask", "dismiss", "resolved"} => frame.of \in Questions
           /\ frame.kind = "state" => frame.value \in BOOLEAN
BY DEF Frames

LEMMA FramesMade ==
    /\ \A kind \in {"start", "settled", "commands", "exit", "attached"} :
         Event(kind) \in Frames /\ Event(kind).kind = kind
    /\ \A kind \in {"ask", "dismiss", "resolved"}, q \in Questions :
         About(kind, q) \in Frames /\ About(kind, q).kind = kind /\ About(kind, q).of = q
    /\ \A value \in BOOLEAN : State(value) \in Frames /\ State(value).kind = "state"
BY DEF Frames, Event, About, State

LEMMA RequestsMade ==
    /\ \A kind \in {"get_state", "get_commands"} :
         Event(kind) \in Requests /\ Event(kind).kind = kind
    /\ \A q \in Questions :
         About("answer", q) \in Requests /\ About("answer", q).kind = "answer"
         /\ About("answer", q).of = q
BY DEF Requests, Event, About

(* The questions that are replayed to a surface that joins.                *)
LEMMA ReplayedFacts ==
    ASSUME StateType
    PROVE  Replayed \in Seq(Frames) /\ Range(Replayed) = {About("ask", q) : q \in outstanding}
<1>1. IsFiniteSet(outstanding)
    BY HostedAssumption, FS_Subset DEF StateType
<1>. DEFINE n == Cardinality(outstanding)
            list == SetToSeq(outstanding)
<1>2. n \in Nat /\ list \in [1..n -> outstanding] /\ \A q \in outstanding : \E i \in 1..n : list[i] = q
    BY <1>1, ListOfSet
<1>3. outstanding \subseteq Questions
    BY DEF StateType
<1>4. Replayed = [i \in 1..n |-> About("ask", list[i])]
    BY DEF Replayed
<1>. HIDE DEF n, list
<1>5. \A i \in 1..n : About("ask", list[i]) \in Frames
    BY <1>2, <1>3, FramesMade
<1>6. Replayed \in [1..n -> Frames]
    BY <1>4, <1>5
<1>7. Replayed \in Seq(Frames)
    BY <1>2, <1>6, SeqDef
<1>8. Range(Replayed) = {About("ask", list[i]) : i \in 1..n}
    BY <1>4 DEF Range
<1>9. Range(Replayed) = {About("ask", q) : q \in outstanding}
    BY <1>2, <1>8
<1> QED BY <1>7, <1>9

LEMMA JoinFacts ==
    ASSUME StateType, Join
    PROVE  /\ link' \in Seq(Frames)
           /\ Range(link') = {Event("attached")} \cup {About("ask", q) : q \in outstanding}
<1>. DEFINE greeting == <<Event("attached")>>
<1>1. link' = greeting \o Replayed
    BY DEF Join
<1>2. greeting \in Seq(Frames) /\ Range(greeting) = {Event("attached")}
    BY FramesMade, RangeOfOne
<1>3. Replayed \in Seq(Frames) /\ Range(Replayed) = {About("ask", q) : q \in outstanding}
    BY ReplayedFacts
<1>. HIDE DEF greeting
<1>4. /\ greeting \o Replayed \in Seq(Frames)
      /\ Range(greeting \o Replayed) = Range(greeting) \cup Range(Replayed)
    BY <1>2, <1>3, RangeOfConcat
<1> QED BY <1>1, <1>2, <1>3, <1>4

-----------------------------------------------------------------------------
(* Types.                                                                  *)

LEMMA TypesAreRight == HostedType => TypeOK
<1> SUFFICES ASSUME HostedType PROVE TypeOK
    OBVIOUS
<1>1. Range(up) \subseteq Requests /\ Range(link) \subseteq Frames /\ Range(landed) \subseteq Frames
    BY RangeOfSeq DEF HostedType, SeqType
<1>2. finalizing \in 0..MaxTurns
    BY HostedAssumption DEF HostedType, StateType, CountInv
<1> QED BY <1>1, <1>2 DEF HostedType, StateType, TypeOK

LEMMA HostedInit == Init => HostedInv
<1> SUFFICES ASSUME Init PROVE HostedInv
    OBVIOUS
<1>1. StateType
    <2>1. MaxTurns \in Nat /\ MaxSeeds \in Nat
        BY HostedAssumption
    <2>2. turns \in 0..MaxTurns /\ finalizing \in Nat /\ seeds \in 0..MaxSeeds
        BY <2>1 DEF Init
    <2>3. alive \in BOOLEAN /\ streaming \in BOOLEAN /\ mirror \in BOOLEAN /\ waiting \in BOOLEAN
        BY DEF Init
    <2> QED BY <2>2, <2>3 DEF Init, StateType, Phases
<1>3. SeqType
    BY EmptySeq DEF Init, SeqType
<1>4. CountInv
    BY DEF Init, CountInv
<1>2. AwayInv /\ FramesInv /\ ToldInv /\ KeptInv
    BY RangeOfNone DEF Init, AwayInv, FramesInv, ToldInv, KeptInv
<1> QED BY <1>1, <1>2, <1>3, <1>4 DEF HostedInv, HostedType

LEMMA SentFacts ==
    ASSUME SeqType, NEW frame \in Frames
    PROVE  /\ Sent(frame) \in Seq(Frames)
           /\ Range(link) \subseteq Range(Sent(frame)) /\ Range(Sent(frame)) \subseteq Range(link) \cup {frame}
           /\ phase \in Attached => frame \in Range(Sent(frame))
<1>1. link \in Seq(Frames)
    BY DEF SeqType
<1>2. Append(link, frame) \in Seq(Frames) /\ Range(Append(link, frame)) = Range(link) \cup {frame}
    BY <1>1, RangeOfAppend
<1> QED BY <1>1, <1>2 DEF Sent

LEMMA TypeStep ==
    ASSUME HostedType, FramesInv, [Next]_vars
    PROVE  HostedType'
<1>. USE DEF engineVars, daemonVars, stateVars, uiVars
<1>0. StateType /\ SeqType /\ CountInv
    BY DEF HostedType
<1>m. MaxTurns \in Nat /\ MaxSeeds \in Nat
    BY HostedAssumption
<1>1. CASE UNCHANGED vars
    BY <1>0, <1>1 DEF vars, HostedType, StateType, SeqType, CountInv
<1>2. ASSUME UNCHANGED <<up, landed, mirror, waiting, seeds, phase, open, told, pendingUi>>,
             NEW frame \in Frames, link' = Sent(frame) \/ link' = link,
             (StateType /\ CountInv)'
      PROVE  HostedType'
    BY <1>0, <1>2, SentFacts DEF HostedType, SeqType
<1>3. CASE Starts
    <2>1. (StateType /\ CountInv)'
        BY <1>0, <1>3, <1>m DEF Starts, StateType, CountInv
    <2> QED BY <1>2, <1>3, <2>1, FramesMade DEF Starts
<1>4. CASE Settles
    <2>1. StateType'
        <3>1. finalizing' \in Nat /\ turns' \in 0..MaxTurns
            BY <1>0, <1>4 DEF Settles, StateType
        <3>2. alive' \in BOOLEAN /\ streaming' \in BOOLEAN /\ mirror' \in BOOLEAN /\ waiting' \in BOOLEAN
            BY <1>0, <1>4 DEF Settles, StateType
        <3> QED BY <1>0, <1>4, <3>1, <3>2 DEF Settles, StateType
    <2>2. CountInv'
        <3>1. streaming = TRUE /\ streaming' = FALSE /\ finalizing' = finalizing + 1 /\ turns' = turns
            BY <1>0, <1>4 DEF Settles, StateType
        <3>2. finalizing \in Nat /\ turns \in Nat
            BY <1>0, <1>m DEF StateType
        <3> QED BY <1>0, <3>1, <3>2 DEF CountInv
    <2> QED BY <1>2, <1>4, <2>1, <2>2, FramesMade DEF Settles
<1>5. CASE Finalized
    <2>1. (StateType /\ CountInv)'
        BY <1>0, <1>5, <1>m DEF Finalized, StateType, CountInv
    <2> QED BY <1>2, <1>5, <2>1, FramesMade DEF Finalized
<1>6. CASE Exits
    <2>1. StateType'
        BY <1>0, <1>6 DEF Exits, StateType
    <2>2. CountInv'
        <3>1. streaming' = FALSE /\ finalizing' = finalizing /\ turns' = turns
            BY <1>6 DEF Exits
        <3>2. finalizing \in Nat /\ turns \in Nat
            BY <1>0, <1>m DEF StateType
        <3> QED BY <1>0, <3>1, <3>2 DEF CountInv
    <2> QED BY <1>2, <1>6, <2>1, <2>2, FramesMade DEF Exits
<1>7. ASSUME NEW q \in Questions, Asks(q) PROVE HostedType'
    <2>1. (StateType /\ CountInv)'
        BY <1>0, <1>7, <1>m DEF Asks, StateType, CountInv
    <2> QED BY <1>2, <1>7, <2>1, FramesMade DEF Asks
<1>8. ASSUME NEW q \in Questions, GivesUp(q) \/ AnsweredElsewhere(q) PROVE HostedType'
    <2>1. (StateType /\ CountInv)'
        BY <1>0, <1>8, <1>m DEF GivesUp, AnsweredElsewhere, StateType, CountInv
    <2> QED BY <1>2, <1>8, <2>1, FramesMade DEF GivesUp, AnsweredElsewhere
<1>9. ASSUME NEW q \in Questions, UserAnswers(q) PROVE HostedType'
    <2>1. (StateType /\ CountInv)'
        BY <1>0, <1>9, <1>m DEF UserAnswers, StateType, CountInv
    <2>2. up' \in Seq(Requests)
        BY <1>0, <1>9, RequestsMade, RangeOfAppend DEF UserAnswers, SeqType
    <2> QED BY <1>0, <1>9, <2>1, <2>2 DEF UserAnswers, HostedType, SeqType
<1>10. CASE TakeRequest
    <2>1. (StateType /\ CountInv)'
        BY <1>0, <1>10, <1>m DEF TakeRequest, StateType, CountInv
    <2>2. up' \in Seq(Requests)
        BY <1>0, <1>10, RangeOfHead DEF TakeRequest, SeqType
    <2>3. streaming \in BOOLEAN
        BY <1>0 DEF StateType
    <2>4. State(streaming) \in Frames /\ Event("commands") \in Frames
        BY <2>3, FramesMade
    <2>5. link' \in Seq(Frames)
        BY <1>0, <1>10, <2>4, SentFacts DEF TakeRequest, SeqType
    <2> QED BY <1>0, <1>10, <2>1, <2>2, <2>5 DEF TakeRequest, HostedType, SeqType
<1>11. CASE Join
    <2>1. (StateType /\ CountInv)'
        BY <1>0, <1>11, <1>m DEF Join, StateType, CountInv, Phases, Attached
    <2>2. link' \in Seq(Frames)
        BY <1>0, <1>11, JoinFacts
    <2> QED BY <1>0, <1>11, <2>1, <2>2 DEF Join, HostedType, SeqType
<1>12. CASE Reseed \/ Bind
    <2>1. (StateType /\ CountInv)'
        BY <1>0, <1>12, <1>m DEF Reseed, Bind, StateType, CountInv, Phases, Attached
    <2>2. up' \in Seq(Requests)
        BY <1>0, <1>12, RequestsMade, RangeOfAppend DEF Reseed, Bind, SeqType
    <2> QED BY <1>0, <1>12, <2>1, <2>2 DEF Reseed, Bind, HostedType, SeqType
<1>13. CASE WaitForIdle
    BY <1>0, <1>13 DEF WaitForIdle, HostedType, SeqType, StateType, CountInv
<1>14. CASE LosesConnection
    <2>1. (StateType /\ CountInv)'
        BY <1>0, <1>14, <1>m DEF LosesConnection, StateType, CountInv, Phases
    <2> QED BY <1>0, <1>14, <2>1 DEF LosesConnection, HostedType, SeqType
<1>15. CASE Read
    <2>1. /\ link # <<>> /\ link' = Tail(link) /\ Head(link) \in Frames /\ Tail(link) \in Seq(Frames)
          /\ UNCHANGED <<engineVars, daemonVars, seeds>>
        BY <1>0, <1>15, RangeOfHead
           DEF Read, ReadStart, ReadSettled, ReadResponse, ReadAsk, ReadDismiss, ReadResolved,
               ReadExit, Reads, SeqType
    <2>2. ASSUME NEW sends \in Seq(Requests), NEW releases \in Seq(Frames), NEW kind,
                 Reads(kind, sends, releases)
          PROVE  SeqType'
        BY <1>0, <2>1, <2>2, RangeOfConcat DEF Reads, SeqType
    <2>3. SeqType'
        <3>1. /\ <<>> \in Seq(Requests) /\ <<>> \in Seq(Frames) /\ <<Event("get_state")>> \in Seq(Requests)
              /\ <<Event("commands")>> \in Seq(Frames) /\ <<Head(link)>> \in Seq(Frames)
            BY <2>1, RequestsMade, FramesMade, RangeOfOne
        <3>2. CASE ReadStart \/ ReadAsk \/ ReadDismiss \/ ReadResolved
            BY <2>2, <3>1, <3>2 DEF ReadStart, ReadAsk, ReadDismiss, ReadResolved
        <3>3. CASE ReadSettled
            BY <2>2, <3>1, <3>3 DEF ReadSettled
        <3>4. CASE ReadResponse
            BY <2>2, <3>1, <3>4 DEF ReadResponse
        <3>5. CASE ReadExit
            BY <2>2, <3>1, <3>5 DEF ReadExit
        <3> QED BY <1>15, <3>2, <3>3, <3>4, <3>5 DEF Read
    <2>4. CountInv'
        BY <1>0, <2>1 DEF CountInv
    <2>5. Head(link).kind = "ask" => Head(link).of \in asked
        BY <1>0, <2>1, RangeOfHead DEF FramesInv, SeqType
    <2>6. StateType'
        <3>1. CASE ReadStart
            BY <1>0, <2>1, <3>1 DEF ReadStart, Reads, StateType
        <3>2. CASE ReadSettled \/ ReadResponse
            BY <1>0, <2>1, <3>2 DEF ReadSettled, ReadResponse, Reads, StateType
        <3>3. CASE ReadExit
            BY <1>0, <2>1, <3>3 DEF ReadExit, Reads, StateType, Phases
        <3>4. CASE ReadDismiss \/ ReadResolved
            BY <1>0, <2>1, <3>4 DEF ReadDismiss, ReadResolved, Closes, Reads, StateType
        <3>5. CASE ReadAsk
            BY <1>0, <2>1, <2>5, <3>5 DEF ReadAsk, Reads, StateType
        <3> QED BY <1>15, <3>1, <3>2, <3>3, <3>4, <3>5 DEF Read
    <2> QED BY <2>3, <2>4, <2>6 DEF HostedType
<1>16. CASE Continue
    <2>1. /\ landed # <<>> /\ landed' = Tail(landed) /\ Head(landed) \in Frames
          /\ Tail(landed) \in Seq(Frames) /\ UNCHANGED <<engineVars, daemonVars, link, seeds, told>>
        BY <1>0, <1>16, RangeOfHead
           DEF Continue, ContinueAttach, ContinueState, ContinueBind, Runs, SeqType
    <2>2. up' \in Seq(Requests)
        BY <1>0, <1>16, RequestsMade, RangeOfAppend
           DEF Continue, ContinueAttach, ContinueState, ContinueBind, SeqType
    <2>3. StateType'
        <3>1. CASE ContinueAttach
            BY <1>0, <2>1, <3>1 DEF ContinueAttach, StateType, Phases, Attached
        <3>2. CASE ContinueState
            <4>1. Head(landed).value \in BOOLEAN
                BY <2>1, <3>2, FrameFacts DEF ContinueState, Runs
            <4>2. mirror' \in BOOLEAN /\ waiting' \in BOOLEAN
                BY <3>2, <4>1 DEF ContinueState
            <4> QED BY <1>0, <2>1, <3>2, <4>2 DEF ContinueState, StateType, Phases, Attached
        <3>3. CASE ContinueBind
            BY <1>0, <2>1, <3>3 DEF ContinueBind, StateType, Phases, Attached
        <3> QED BY <1>16, <3>1, <3>2, <3>3 DEF Continue
    <2>4. SeqType' /\ CountInv'
        BY <1>0, <2>1, <2>2 DEF SeqType, CountInv
    <2> QED BY <2>3, <2>4 DEF HostedType
<1> QED
    BY <1>1, <1>3, <1>4, <1>5, <1>6, <1>7, <1>8, <1>9, <1>10, <1>11, <1>12, <1>13, <1>14, <1>15,
       <1>16 DEF Next

LEMMA AwayStep ==
    ASSUME AwayInv, [Next]_vars
    PROVE  AwayInv'
<1>1. ASSUME landed' = landed, phase' = "away" => phase = "away" PROVE AwayInv'
    BY <1>1 DEF AwayInv
<1>2. CASE UNCHANGED vars
    BY <1>1, <1>2 DEF vars
<1>3. CASE Starts \/ Settles \/ Finalized \/ Exits \/ TakeRequest
    BY <1>1, <1>3 DEF Starts, Settles, Finalized, Exits, TakeRequest
<1>4. ASSUME NEW q \in Questions, Asks(q) \/ GivesUp(q) \/ AnsweredElsewhere(q) \/ UserAnswers(q)
      PROVE  AwayInv'
    BY <1>1, <1>4 DEF Asks, GivesUp, AnsweredElsewhere, UserAnswers
<1>5. CASE Join \/ Reseed \/ Bind \/ WaitForIdle \/ LosesConnection
    BY <1>1, <1>5 DEF Join, Reseed, Bind, WaitForIdle, LosesConnection
<1>6. CASE Read
    BY <1>6
       DEF Read, ReadStart, ReadSettled, ReadResponse, ReadAsk, ReadDismiss, ReadResolved,
           ReadExit, Reads, Attached, AwayInv
<1>7. CASE Continue
    BY <1>7 DEF Continue, ContinueAttach, ContinueState, ContinueBind, Runs, AwayInv
<1> QED BY <1>2, <1>3, <1>4, <1>5, <1>6, <1>7 DEF Next

-----------------------------------------------------------------------------
(* What is on its way.                                                     *)

LEMMA FramesStay ==
    ASSUME FramesInv, asked \subseteq asked', outstanding' \subseteq outstanding, NEW frame,
           Range(link') \subseteq Range(link) \cup {frame},
           frame.kind \in {"ask", "dismiss", "resolved"} => frame.of \in asked',
           frame.kind \in {"dismiss", "resolved"} => frame.of \notin outstanding'
    PROVE  FramesInv'
BY DEF FramesInv

LEMMA FramesStep ==
    ASSUME HostedInv, [Next]_vars
    PROVE  FramesInv' /\ ToldInv'
<1>. USE DEF engineVars, daemonVars, stateVars, uiVars
<1>0. /\ StateType /\ SeqType /\ FramesInv /\ ToldInv
      /\ outstanding \subseteq asked /\ asked \subseteq Questions /\ told \subseteq asked
    BY DEF HostedInv, HostedType, StateType
<1>1. ASSUME UNCHANGED <<asked, outstanding, told, link>> PROVE FramesInv' /\ ToldInv'
    BY <1>0, <1>1 DEF FramesInv, ToldInv
<1>2. CASE UNCHANGED vars \/ Settles \/ Reseed \/ Bind \/ WaitForIdle \/ Continue
    BY <1>1, <1>2
       DEF vars, Settles, Reseed, Bind, WaitForIdle, Continue, ContinueAttach, ContinueState,
           ContinueBind, Runs
<1>3. ASSUME NEW frame \in Frames, link' = Sent(frame), told' = told, asked' = asked,
             outstanding' \subseteq outstanding,
             frame.kind \in {"ask", "dismiss", "resolved"} =>
                 frame.of \in asked /\ frame.of \notin outstanding'
      PROVE  FramesInv' /\ ToldInv'
    BY <1>0, <1>3, SentFacts, FramesStay DEF ToldInv
<1>4. CASE Starts \/ Finalized \/ Exits
    BY <1>3, <1>4, FramesMade DEF Starts, Finalized, Exits
<1>5. ASSUME NEW q \in Questions, GivesUp(q) \/ AnsweredElsewhere(q) PROVE FramesInv' /\ ToldInv'
    BY <1>0, <1>3, <1>5, FramesMade DEF GivesUp, AnsweredElsewhere
<1>6. ASSUME NEW q \in Questions, Asks(q) PROVE FramesInv' /\ ToldInv'
    <2>1. /\ q \notin asked /\ asked' = asked \cup {q} /\ outstanding' = outstanding \cup {q}
          /\ told' = told
        BY <1>6 DEF Asks
    <2>2. /\ About("ask", q).kind = "ask" /\ About("ask", q).of = q
          /\ Range(link') \subseteq Range(link) \cup {About("ask", q)}
        BY <1>0, <1>6, FramesMade, SentFacts DEF Asks
    <2> QED BY <1>0, <2>1, <2>2 DEF FramesInv, ToldInv
<1>7. ASSUME NEW q \in Questions, UserAnswers(q) PROVE FramesInv' /\ ToldInv'
    BY <1>0, <1>7 DEF UserAnswers, FramesInv, ToldInv
<1>8. CASE TakeRequest
    <2>1. /\ outstanding' \subseteq outstanding /\ asked' = asked /\ told' = told
          /\ \/ link' = link \/ link' = Sent(State(streaming)) \/ link' = Sent(Event("commands"))
        BY <1>8 DEF TakeRequest
    <2>2. /\ State(streaming) \in Frames /\ State(streaming).kind = "state"
          /\ Event("commands") \in Frames /\ Event("commands").kind = "commands"
        BY <1>0, FramesMade DEF StateType
    <2>3. CASE link' = link
        BY <1>0, <2>1, <2>3 DEF FramesInv, ToldInv
    <2> QED BY <1>3, <2>1, <2>2, <2>3
<1>9. CASE Join
    <2>1. UNCHANGED <<asked, outstanding, told>>
        BY <1>9 DEF Join
    <2>2. Range(link') = {Event("attached")} \cup {About("ask", q) : q \in outstanding}
        BY <1>0, <1>9, JoinFacts
    <2>3. \A frame \in Range(link') :
            frame.kind = "attached" \/ (frame.kind = "ask" /\ frame.of \in outstanding)
        BY <1>0, <2>2, FramesMade
    <2> QED BY <1>0, <2>1, <2>3 DEF FramesInv, ToldInv
<1>10. CASE LosesConnection
    BY <1>0, <1>10, RangeOfNone DEF LosesConnection, FramesInv, ToldInv
<1>11. CASE Read
    <2>1. /\ link # <<>> /\ link' = Tail(link) /\ UNCHANGED <<asked, outstanding, editors>>
        BY <1>11
           DEF Read, ReadStart, ReadSettled, ReadResponse, ReadAsk, ReadDismiss, ReadResolved,
               ReadExit, Reads
    <2>2. Range(link) = {Head(link)} \cup Range(link')
        BY <1>0, <2>1, RangeOfHead DEF SeqType
    <2>3. FramesInv'
        BY <1>0, <2>1, <2>2 DEF FramesInv
    <2>4. CASE ReadStart \/ ReadSettled \/ ReadResponse \/ ReadAsk \/ ReadExit
        BY <1>0, <2>1, <2>3, <2>4
           DEF ReadStart, ReadSettled, ReadResponse, ReadAsk, ReadExit, ToldInv
    <2>5. CASE ReadDismiss \/ ReadResolved
        <3>1. Head(link).of \notin outstanding
            BY <1>0, <2>2, <2>5 DEF ReadDismiss, ReadResolved, Reads, FramesInv
        <3>2. told' \subseteq told \cup {Head(link).of}
            BY <2>5 DEF ReadDismiss, ReadResolved, Closes
        <3> QED BY <1>0, <2>1, <2>3, <3>1, <3>2 DEF ToldInv
    <2> QED BY <1>11, <2>4, <2>5 DEF Read
<1> QED
    BY <1>2, <1>4, <1>5, <1>6, <1>7, <1>8, <1>9, <1>10, <1>11 DEF Next

-----------------------------------------------------------------------------
(* Where the questions are.                                                *)

LEMMA KeptStays ==
    ASSUME KeptInv, outstanding' \subseteq outstanding, phase' \in Attached => phase \in Attached,
           \A q \in outstanding' : phase' \in Attached /\ Has(q) => Has(q)'
    PROVE  KeptInv'
BY DEF KeptInv

LEMMA HasStays ==
    ASSUME NEW q, Has(q), Range(link) \subseteq Range(link'), Range(up) \subseteq Range(up'),
           UNCHANGED uiVars
    PROVE  Has(q)'
BY DEF Has, uiVars

LEMMA KeptStep ==
    ASSUME HostedInv, [Next]_vars
    PROVE  KeptInv'
<1>. USE DEF engineVars, daemonVars, stateVars
<1>0. /\ StateType /\ SeqType /\ FramesInv /\ ToldInv /\ KeptInv
      /\ outstanding \subseteq asked /\ asked \subseteq Questions /\ told \subseteq asked
      /\ link \in Seq(Frames) /\ up \in Seq(Requests) /\ AwayInv
    BY DEF HostedInv, HostedType, StateType, SeqType
<1>1. ASSUME Range(link) \subseteq Range(link'), Range(up) \subseteq Range(up'),
             UNCHANGED uiVars, outstanding' \subseteq outstanding,
             phase' \in Attached => phase \in Attached
      PROVE  KeptInv'
    BY <1>0, <1>1, HasStays, KeptStays
<1>2. CASE UNCHANGED vars
    BY <1>1, <1>2 DEF vars
<1>3. CASE Settles \/ WaitForIdle
    BY <1>1, <1>3 DEF Settles, WaitForIdle
<1>4. CASE Starts \/ Finalized \/ Exits
    BY <1>0, <1>1, <1>4, FramesMade, SentFacts DEF Starts, Finalized, Exits
<1>5. ASSUME NEW q \in Questions, GivesUp(q) \/ AnsweredElsewhere(q) PROVE KeptInv'
    BY <1>0, <1>1, <1>5, FramesMade, SentFacts DEF GivesUp, AnsweredElsewhere
<1>6. CASE Reseed \/ Bind
    <2>1. UNCHANGED <<link, outstanding, uiVars>> /\ phase \in Attached
        BY <1>6 DEF Reseed, Bind, Attached
    <2>2. \E kind \in {"get_state", "get_commands"} : up' = Append(up, Event(kind))
        BY <1>6 DEF Reseed, Bind
    <2>3. Range(up) \subseteq Range(up')
        BY <1>0, <2>2, RequestsMade, RangeOfAppend
    <2> QED BY <1>1, <2>1, <2>3
<1>7. ASSUME NEW q \in Questions, Asks(q) PROVE KeptInv'
    <2>1. /\ outstanding' = outstanding \cup {q} /\ UNCHANGED <<phase, up, uiVars>>
          /\ link' = Sent(About("ask", q)) /\ About("ask", q) \in Frames
        BY <1>7, FramesMade DEF Asks
    <2>2. Range(link) \subseteq Range(link') /\ (phase \in Attached => About("ask", q) \in Range(link'))
        BY <1>0, <2>1, SentFacts
    <2>3. phase \in Attached => Has(q)'
        BY <2>2 DEF Has
    <2>4. \A p \in outstanding : phase \in Attached => Has(p)'
        BY <1>0, <2>1, <2>2, HasStays DEF KeptInv
    <2> QED BY <2>1, <2>3, <2>4 DEF KeptInv
<1>8. ASSUME NEW q \in Questions, UserAnswers(q) PROVE KeptInv'
    <2>1. /\ q \in open /\ open' = open \ {q} /\ told' = told \ {q}
          /\ UNCHANGED <<outstanding, phase, link, pendingUi>>
          /\ up' = IF q \in told \/ phase = "gone" THEN up ELSE Append(up, About("answer", q))
        BY <1>8 DEF UserAnswers
    <2>2. Range(up) \subseteq Range(up')
          /\ (q \notin told /\ phase # "gone" => About("answer", q) \in Range(up'))
        BY <1>0, <2>1, RequestsMade, RangeOfAppend
    <2>3. q \in outstanding => q \notin told
        BY <1>0 DEF ToldInv
    <2>4. phase \in Attached => phase # "gone"
        BY DEF Attached
    <2>5. ASSUME NEW p \in outstanding, phase \in Attached, Has(p) PROVE Has(p)'
        BY <2>1, <2>2, <2>3, <2>4, <2>5 DEF Has
    <2> QED BY <1>0, <2>1, <2>5, KeptStays
<1>9. CASE TakeRequest
    <2>1. /\ up # <<>> /\ up' = Tail(up) /\ outstanding' \subseteq outstanding
          /\ UNCHANGED <<phase, uiVars>>
          /\ \/ link' = link \/ link' = Sent(State(streaming)) \/ link' = Sent(Event("commands"))
          /\ Head(up).kind = "answer" => outstanding' = outstanding \ {Head(up).of}
        BY <1>9 DEF TakeRequest
    <2>2. Range(link) \subseteq Range(link')
        BY <1>0, <2>1, FramesMade, SentFacts DEF StateType
    <2>3. Range(up) = {Head(up)} \cup Range(up')
        BY <1>0, <2>1, RangeOfHead
    <2>4. ASSUME NEW q \in outstanding', Has(q) PROVE Has(q)'
        <3>1. About("answer", q) # Head(up)
            BY <1>0, <2>1, <2>4, RequestsMade
        <3> QED BY <2>1, <2>2, <2>3, <2>4, <3>1 DEF Has, uiVars
    <2> QED BY <1>0, <2>1, <2>4, KeptStays
<1>10. CASE Join
    <2>1. outstanding' = outstanding
        BY <1>10 DEF Join
    <2>2. Range(link') = {Event("attached")} \cup {About("ask", q) : q \in outstanding}
        BY <1>0, <1>10, JoinFacts
    <2> QED BY <2>1, <2>2 DEF KeptInv, Has
<1>11. CASE LosesConnection
    BY <1>11 DEF LosesConnection, KeptInv, Attached
<1>12. CASE Read
    <2>1. /\ link # <<>> /\ link' = Tail(link) /\ outstanding' = outstanding
          /\ phase \in Attached
        BY <1>12
           DEF Read, ReadStart, ReadSettled, ReadResponse, ReadAsk, ReadDismiss, ReadResolved,
               ReadExit, Reads
    <2>2. Range(link) = {Head(link)} \cup Range(link') /\ Head(link) \in Range(link)
        BY <1>0, <2>1, RangeOfHead
    <2>3. Range(up) \subseteq Range(up')
        <3>1. \E sends \in Seq(Requests) : up' = up \o sends
            <4>1. <<>> \in Seq(Requests) /\ <<Event("get_state")>> \in Seq(Requests)
                BY RequestsMade, RangeOfOne
            <4> QED BY <1>12, <4>1
                  DEF Read, ReadStart, ReadSettled, ReadResponse, ReadAsk, ReadDismiss,
                      ReadResolved, ReadExit, Reads
        <3> QED BY <1>0, <3>1, RangeOfConcat
    <2>4. CASE ReadStart \/ ReadSettled \/ ReadResponse \/ ReadExit
        <3>1. UNCHANGED uiVars /\ Head(link).kind \notin {"ask", "dismiss", "resolved"}
            BY <2>4 DEF ReadStart, ReadSettled, ReadResponse, ReadExit, Reads
        <3>2. ASSUME NEW q \in outstanding, Has(q) PROVE Has(q)'
            <4>1. About("ask", q) # Head(link)
                BY <1>0, <3>1, FramesMade
            <4> QED BY <2>2, <2>3, <3>1, <3>2, <4>1 DEF Has, uiVars
        <3> QED BY <1>0, <2>1, <3>2, KeptStays
    <2>5. CASE ReadAsk
        <3>1. /\ told' = told /\ phase' = phase
              /\ \/ pendingUi' = pendingUi \cup {Head(link).of} /\ open' = open
                 \/ open' = open \cup {Head(link).of} /\ pendingUi' = pendingUi
            BY <2>5 DEF ReadAsk
        <3>2. ASSUME NEW q \in outstanding, Has(q) PROVE Has(q)'
            <4>1. q \notin told
                BY <1>0 DEF ToldInv
            <4>2. About("ask", q) = Head(link) => Head(link).of = q
                BY <1>0, FramesMade
            <4> QED BY <2>2, <2>3, <3>1, <3>2, <4>1, <4>2 DEF Has
        <3> QED BY <1>0, <2>1, <3>1, <3>2, KeptStays
    <2>6. CASE ReadDismiss \/ ReadResolved
        <3>1. /\ phase' = phase /\ Head(link).kind \in {"dismiss", "resolved"}
              /\ Head(link).of \notin outstanding
            BY <1>0, <2>2, <2>6 DEF ReadDismiss, ReadResolved, Reads, FramesInv
        <3>2. /\ pendingUi \ {Head(link).of} \subseteq pendingUi'
              /\ (open \ told) \ {Head(link).of} \subseteq open' \ told'
            BY <2>6 DEF ReadDismiss, ReadResolved, Closes
        <3>3. ASSUME NEW q \in outstanding, Has(q) PROVE Has(q)'
            <4>1. q # Head(link).of /\ About("ask", q) # Head(link)
                BY <1>0, <3>1, FramesMade
            <4>2. /\ q \in pendingUi => q \in pendingUi'
                  /\ q \in open \ told => q \in open' \ told'
                BY <3>2, <4>1
            <4> QED BY <2>2, <2>3, <3>3, <4>1, <4>2 DEF Has
        <3> QED BY <1>0, <2>1, <3>1, <3>3, KeptStays
    <2> QED BY <1>12, <2>4, <2>5, <2>6 DEF Read
<1>13. CASE Continue
    <2>1. /\ UNCHANGED <<outstanding, link, told>> /\ Range(up) \subseteq Range(up')
          /\ phase' \in Attached => phase \in Attached
          /\ pendingUi \cup open \subseteq pendingUi' \cup open' /\ open \subseteq open'
        <3>1. CASE ContinueAttach
            <4>1. /\ UNCHANGED <<outstanding, link, told, pendingUi, open>>
                  /\ phase = "gone" => phase' = "gone" /\ up' = up
                  /\ phase # "gone" => phase' = "seeding" /\ up' = Append(up, Event("get_state"))
                BY <3>1 DEF ContinueAttach, Runs
            <4>2. Range(up) \subseteq Range(up')
                <5>1. Range(up) \subseteq Range(Append(up, Event("get_state")))
                    BY <1>0, RequestsMade, RangeOfAppend
                <5> QED BY <4>1, <5>1
            <4>3. phase' \in Attached => phase \in Attached
                <5>1. phase # "away"
                    BY <1>0, <3>1 DEF ContinueAttach, Runs, AwayInv
                <5> QED BY <1>0, <4>1, <5>1 DEF StateType, Phases, Attached
            <4> QED BY <4>1, <4>2, <4>3
        <3>2. CASE ContinueState \/ ContinueBind
            BY <3>2 DEF ContinueState, ContinueBind, Runs, Attached
        <3> QED BY <1>13, <3>1, <3>2 DEF Continue
    <2>2. ASSUME NEW q \in outstanding, Has(q) PROVE Has(q)'
        <3>1. q \notin told
            BY <1>0 DEF ToldInv
        <3> QED BY <2>1, <2>2, <3>1 DEF Has
    <2> QED BY <1>0, <2>1, <2>2, KeptStays
<1> QED
    BY <1>2, <1>3, <1>4, <1>5, <1>6, <1>7, <1>8, <1>9, <1>10, <1>11, <1>12, <1>13 DEF Next

(* QuestionsKept holds of every run, for any number of questions, surfaces *)
(* that answer, runs and reseeds: a question the engine waits on is on its *)
(* way to the surface, kept, open or answered (joinSessionAsClient,        *)
(* bindExtensions, handleFrame).                                           *)
THEOREM QuestionsAreKept == Spec => []QuestionsKept
<1>1. Init => HostedInv
    BY HostedInit
<1>2. HostedInv /\ [Next]_vars => HostedInv'
    BY TypeStep, AwayStep, FramesStep, KeptStep DEF HostedInv
<1>3. HostedInv => QuestionsKept
    <2> SUFFICES ASSUME HostedInv PROVE QuestionsKept
        OBVIOUS
    <2>1. TypeOK
        BY TypesAreRight DEF HostedInv
    <2>2. ASSUME NEW q \in outstanding, phase \in Attached
          PROVE  \/ {About("ask", q), About("answer", q)} \cap (Range(link) \cup Range(up)) # {}
                 \/ q \in pendingUi \cup (open \ told)
        <3>1. Has(q)
            BY <2>2 DEF HostedInv, KeptInv
        <3> QED BY <3>1 DEF Has
    <2> QED BY <2>1, <2>2 DEF QuestionsKept
<1> QED BY <1>1, <1>2, <1>3, PTL DEF Spec
=============================================================================
