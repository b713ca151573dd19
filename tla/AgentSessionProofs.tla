------------------------- MODULE AgentSessionProofs -------------------------
(***************************************************************************)
(* Proofs about AgentSession, for any number of drivers, inputs, retries,  *)
(* and answers kept: what a client is shown of the session is so, and a    *)
(* settlement tells how the run it settles ended.  Proofs about            *)
(* Compaction, for any bounds: what the model is given of the session is   *)
(* fit to be sent, and nothing that was said is lost.                      *)
(***************************************************************************)
EXTENDS AgentSession, Compaction, SequenceTheorems, FiniteSetTheorems, TLAPS

(* A queue, or the session's list, by what is on it.  Prompts and          *)
(* continuations of compacted runs, whose id is 0, are not counted.        *)
Ids(messages) == {messages[i].id : i \in DOMAIN messages} \ {0}
Users(messages) == {messages[i].id : i \in {j \in DOMAIN messages : messages[j].user}}
Listed(ids) == {ids[i] : i \in DOMAIN ids}

(* Ids are dealt in order, so a queue of lane l after n of them is in that *)
(* order, and so is the list.                                              *)
QueueSound(q, l, n) ==
    /\ q \in Seq(Item)
    /\ \A i, j \in DOMAIN q : i < j => q[i].id < q[j].id
    /\ \A i \in DOMAIN q : q[i].id \in 0..n /\ q[i].lane = l /\ (q[i].user => q[i].id # 0)

ListSound(m, n) ==
    /\ m \in Seq(1..MaxInputs)
    /\ \A i, j \in DOMAIN m : i < j => m[i] < m[j]
    /\ \A i \in DOMAIN m : m[i] \in 1..n

(* Messages have one place: a lane, the hands of the loop, or none.        *)
(* `gone` are the ids in no lane, of which the list may be late to know,   *)
(* `off` those that were taken off the list for a prompt of the same text. *)
Placed(q, m, gone, off) ==
    /\ \A l \in Lanes : Listed(m[l]) \ gone = Users(q[l]) \ off /\ Ids(q[l]) \cap gone = {}
    /\ \A l, k \in Lanes :
          l # k => (Ids(q[l]) \cup Listed(m[l])) \cap (Ids(q[k]) \cup Listed(m[k])) = {}

HandSound(h, m) ==
    /\ h \in Seq(Item) /\ Len(h) <= 1
    /\ \A i \in DOMAIN h : \A l \in Lanes : l # h[i].lane => h[i].id \notin Listed(m[l])

MirrorSound(q, m, h, u, off, n) ==
    /\ n \in 0..MaxInputs /\ u \cup Ids(h) \cup off \subseteq 1..n
    /\ q \in [Lanes -> Seq(Item)] /\ m \in [Lanes -> Seq(1..MaxInputs)]
    /\ \A l \in Lanes : QueueSound(q[l], l, n) /\ ListSound(m[l], n)
    /\ Placed(q, m, u \cup Ids(h), off)
    /\ HandSound(h, m)

MirrorInv == MirrorSound(queue, mirror, hand, unseen, mistaken, issued)

(* The types of what drivers and the agent's run share ...                 *)
Endings == {"success", "error", "aborted", "overlap", "deaf", "illegal"}
RunTypes ==
    /\ active \in BOOLEAN /\ settling \in BOOLEAN /\ agentAborted \in BOOLEAN
    /\ outcome \in Outcomes /\ driver \in [Drivers -> DriverPoints]
    /\ owner \in Drivers \cup {None} /\ phase \in {"off", "running", "ending", "failing"}
    /\ owner = None <=> phase = "off"
    /\ last \in Replies \cup {"none"} /\ ended \in Endings

(* ... and of the rest.                                                    *)
OtherTypes ==
    /\ wanted \in BOOLEAN /\ recovered \in BOOLEAN /\ waiter \in BOOLEAN
    /\ tail \in 0..MaxTail
    /\ fileTail \in Seq({"answer", "error"}) /\ Len(fileTail) <= MaxTail
    /\ attempt \in 0..MaxRetries /\ budget \in 0..1
    /\ sleeper \in Drivers \cup {None} /\ retryAborted \subseteq Drivers
    /\ compactor \in {"none", "waiting", "compacting"}

(* Until two drivers overlap, one of them at most is past its preflight,   *)
(* the flag says whether it works, and the agent's run is its own.         *)
AtWork == \E d \in Drivers : driver[d] \in Working \cup {"refused"}
OneDriver ==
    ended # "overlap" =>
        /\ \A d, e \in Busy : d = e
        /\ active <=> AtWork
        /\ owner # None => driver[owner] = "agent"

(* What a driver is about to do follows from how its agent run ended.      *)
Follows(d) ==
    /\ driver[d] = "post" => last \in Replies /\ Ending(last) = ended
    /\ driver[d] \in {"retrying", "compacting", "recovering"} =>
          ended # "aborted" /\ outcome \in {ended, "compaction-error"}
    /\ driver[d] = "refused" => ended = "error"
EndIsHeard ==
    Undisturbed =>
        /\ phase \in {"ending", "failing"} => last \in Replies /\ Ending(last) = ended
        /\ \A d \in Drivers : Follows(d)

AllHonest == \A d \in Drivers : SettlesHonestly(d)

RunInv == RunTypes /\ OneDriver /\ EndIsHeard /\ (hand # <<>> => phase = "running")
SessionInv == RunInv /\ OtherTypes /\ MirrorInv

-----------------------------------------------------------------------------
(* Queues and lists.                                                       *)

(* Taking one message out of a queue leaves a queue.                       *)
LEMMA RemoveAtType ==
    ASSUME NEW S, NEW q \in Seq(S), NEW i \in DOMAIN q
    PROVE  /\ RemoveAt(q, i) \in Seq(S)
           /\ Len(RemoveAt(q, i)) = Len(q) - 1
           /\ \A j \in 1..(Len(q) - 1) :
                 RemoveAt(q, i)[j] = IF j < i THEN q[j] ELSE q[j + 1]
<1>. DEFINE front == SubSeq(q, 1, i - 1)
            back == SubSeq(q, i + 1, Len(q))
<1>1. Len(q) \in Nat /\ i \in 1..Len(q) /\ \A j \in 1..Len(q) : q[j] \in S
  BY LenProperties, ElementOfSeq
<1>2. /\ front \in Seq(S) /\ Len(front) = i - 1
      /\ \A j \in 1..(i - 1) : front[j] = q[j]
  <2>1. 1 \in Int /\ i - 1 \in Int /\ \A j \in 1..(i - 1) : q[j] \in S
    BY <1>1
  <2>. QED
    BY <2>1, <1>1, SubSeqProperties
<1>3. /\ back \in Seq(S) /\ Len(back) = Len(q) - i
      /\ \A j \in 1..(Len(q) - i) : back[j] = q[i + j]
  <2>1. i + 1 \in Int /\ Len(q) \in Int /\ \A j \in (i + 1)..Len(q) : q[j] \in S
    BY <1>1
  <2>2. /\ back \in Seq(S)
        /\ Len(back) = IF i + 1 <= Len(q) THEN Len(q) - (i + 1) + 1 ELSE 0
        /\ \A j \in 1..(Len(q) - (i + 1) + 1) : back[j] = q[(i + 1) + j - 1]
    BY <2>1, SubSeqProperties
  <2>. QED
    BY <2>2, <1>1
<1>. DEFINE all == front \o back
<1>4. /\ all \in Seq(S)
      /\ Len(all) = Len(front) + Len(back)
      /\ \A j \in 1..(Len(front) + Len(back)) :
            all[j] = IF j <= Len(front) THEN front[j] ELSE back[j - Len(front)]
  <2>. HIDE DEF front, back
  <2>. QED
    BY <1>2, <1>3, ConcatProperties
<1>5. RemoveAt(q, i) = all
  BY DEF RemoveAt
<1>. HIDE DEF front, back, all
<1>6. ASSUME NEW j \in 1..(Len(q) - 1)
      PROVE  all[j] = IF j < i THEN q[j] ELSE q[j + 1]
  <2>0. Len(front) + Len(back) = Len(q) - 1 /\ Len(front) = i - 1
    BY <1>1, <1>2, <1>3
  <2>1. all[j] = IF j <= i - 1 THEN front[j] ELSE back[j - (i - 1)]
    BY <2>0, <1>4
  <2>2. CASE j < i
    BY <2>1, <2>2, <1>1, <1>2
  <2>3. CASE ~(j < i)
    <3>1. j - (i - 1) \in 1..(Len(q) - i) /\ i + (j - (i - 1)) = j + 1
      BY <2>3, <1>1
    <3>. QED
      BY <3>1, <2>1, <2>3, <1>1, <1>3
  <2>. QED
    BY <2>2, <2>3
<1>7. Len(all) = Len(q) - 1
  BY <1>1, <1>2, <1>3, <1>4
<1>. QED
  BY <1>4, <1>5, <1>6, <1>7

(* What is left keeps its order, and everything but the one is left.       *)
LEMMA RemoveAtOrder ==
    ASSUME NEW S, NEW q \in Seq(S), NEW i \in DOMAIN q
    PROVE  LET r == RemoveAt(q, i)
           IN  /\ DOMAIN q = 1..Len(q) /\ DOMAIN r = 1..(Len(q) - 1)
               /\ \A j \in DOMAIN r : \E k \in DOMAIN q : k # i /\ r[j] = q[k]
               /\ \A j \in DOMAIN q : j # i => \E k \in DOMAIN r : r[k] = q[j]
               /\ \A j, k \in DOMAIN r : j < k =>
                     \E J, K \in DOMAIN q : J < K /\ r[j] = q[J] /\ r[k] = q[K]
<1>. DEFINE r == RemoveAt(q, i)
<1>1. /\ Len(q) \in Nat /\ DOMAIN q = 1..Len(q) /\ i \in 1..Len(q)
      /\ r \in Seq(S) /\ DOMAIN r = 1..(Len(q) - 1)
      /\ \A j \in 1..(Len(q) - 1) : r[j] = IF j < i THEN q[j] ELSE q[j + 1]
  <2>1. r \in Seq(S) /\ Len(r) = Len(q) - 1
    BY RemoveAtType
  <2>. QED
    BY <2>1, RemoveAtType, LenProperties
<1>. HIDE DEF r
<1>2. ASSUME NEW j \in DOMAIN q, j # i
      PROVE  \E k \in DOMAIN r : r[k] = q[j]
  <2>1. CASE j < i
    BY <2>1, <1>1
  <2>2. CASE j > i
    <3>1. j - 1 \in 1..(Len(q) - 1) /\ ~(j - 1 < i) /\ (j - 1) + 1 = j
      BY <2>2, <1>1
    <3>. QED
      BY <3>1, <1>1
  <2>. QED
    BY <2>1, <2>2, <1>1, <1>2
<1>3. ASSUME NEW j \in DOMAIN r, NEW k \in DOMAIN r, j < k
      PROVE  \E J, K \in DOMAIN q : J < K /\ r[j] = q[J] /\ r[k] = q[K]
  <2>. DEFINE J == IF j < i THEN j ELSE j + 1
              K == IF k < i THEN k ELSE k + 1
  <2>1. r[j] = q[J] /\ r[k] = q[K]
    BY <1>1
  <2>2. J \in DOMAIN q /\ K \in DOMAIN q /\ J < K
    BY <1>1, <1>3
  <2>. QED
    BY <2>1, <2>2
<1>4. ASSUME NEW j \in DOMAIN r
      PROVE  \E k \in DOMAIN q : k # i /\ r[j] = q[k]
  <2>. DEFINE J == IF j < i THEN j ELSE j + 1
  <2>1. r[j] = q[J] /\ J \in DOMAIN q /\ J # i
    BY <1>1
  <2>. QED
    BY <2>1
<1>. QED
  BY <1>1, <1>2, <1>3, <1>4 DEF r

(* A message leaves a queue.                                               *)
LEMMA QueueLoses ==
    ASSUME NEW q, NEW l, NEW n \in Nat, QueueSound(q, l, n), NEW i \in DOMAIN q
    PROVE  /\ QueueSound(RemoveAt(q, i), l, n)
           /\ Ids(RemoveAt(q, i)) = Ids(q) \ {q[i].id}
           /\ Users(RemoveAt(q, i)) = Users(q) \ {q[i].id}
           /\ q[i].id \in Ids(q) \cup {0} /\ (q[i].id \in Users(q) <=> q[i].user)
<1>. DEFINE r == RemoveAt(q, i)
<1>1. q \in Seq(Item)
  BY DEF QueueSound
<1>2. r \in Seq(Item)
  BY <1>1, RemoveAtType
<1>3. /\ DOMAIN q = 1..Len(q)
      /\ \A j \in DOMAIN r : \E k \in DOMAIN q : k # i /\ r[j] = q[k]
      /\ \A j \in DOMAIN q : j # i => \E k \in DOMAIN r : r[k] = q[j]
      /\ \A j, k \in DOMAIN r : j < k =>
            \E J, K \in DOMAIN q : J < K /\ r[j] = q[J] /\ r[k] = q[K]
  BY <1>1, RemoveAtOrder
<1>. HIDE DEF r
<1>4. \A j, k \in DOMAIN q : q[j].id = q[k].id => j = k
  <2>1. Len(q) \in Nat /\ \A j \in DOMAIN q : q[j].id \in Nat
    BY <1>1, LenProperties DEF QueueSound
  <2>. QED
    BY <2>1, <1>3 DEF QueueSound
<1>5. QueueSound(r, l, n)
  <2>1. \A j, k \in DOMAIN r : j < k => r[j].id < r[k].id
    BY <1>3 DEF QueueSound
  <2>2. \A j \in DOMAIN r : /\ r[j].id \in 0..n /\ r[j].lane = l
                            /\ r[j].user => r[j].id # 0
    BY <1>3 DEF QueueSound
  <2>. QED
    BY <2>1, <2>2, <1>2 DEF QueueSound
<1>6. Ids(r) = Ids(q) \ {q[i].id}
  BY <1>3, <1>4 DEF Ids
<1>7. Users(r) = Users(q) \ {q[i].id}
  BY <1>3, <1>4 DEF Users
<1>8. q[i].id \in Ids(q) \cup {0} /\ (q[i].id \in Users(q) <=> q[i].user)
  BY <1>4 DEF Ids, Users
<1>. QED
  BY <1>5, <1>6, <1>7, <1>8 DEF r

(* The head of a queue is its first message.                               *)
LEMMA TailRemovesFirst ==
    ASSUME NEW S, NEW q \in Seq(S), q # <<>>
    PROVE  1 \in DOMAIN q /\ Head(q) = q[1] /\ Tail(q) = RemoveAt(q, 1)
<1>1. Len(q) \in Nat \ {0} /\ DOMAIN q = 1..Len(q)
  BY EmptySeq, LenProperties
<1>2. Tail(q) \in Seq(S) /\ Tail(q) = SubSeq(q, 2, Len(q))
  BY HeadTailProperties, TailIsSubSeq
<1>3. SubSeq(q, 1, 1 - 1) = <<>>
  BY SubSeqEmpty
<1>4. <<>> \o Tail(q) = Tail(q)
  BY <1>2, ConcatEmptySeq
<1>5. Tail(q) = RemoveAt(q, 1)
  BY <1>2, <1>3, <1>4 DEF RemoveAt
<1>. QED
  BY <1>1, <1>5

(* An id leaves a list.                                                    *)
LEMMA ListLoses ==
    ASSUME NEW m, NEW n \in Nat, ListSound(m, n), NEW i \in DOMAIN m
    PROVE  /\ ListSound(RemoveAt(m, i), n)
           /\ Listed(RemoveAt(m, i)) = Listed(m) \ {m[i]}
<1>. DEFINE r == RemoveAt(m, i)
<1>1. m \in Seq(1..MaxInputs)
  BY DEF ListSound
<1>2. r \in Seq(1..MaxInputs)
  BY <1>1, RemoveAtType
<1>3. /\ DOMAIN m = 1..Len(m)
      /\ \A j \in DOMAIN r : \E k \in DOMAIN m : k # i /\ r[j] = m[k]
      /\ \A j \in DOMAIN m : j # i => \E k \in DOMAIN r : r[k] = m[j]
      /\ \A j, k \in DOMAIN r : j < k =>
            \E J, K \in DOMAIN m : J < K /\ r[j] = m[J] /\ r[k] = m[K]
  BY <1>1, RemoveAtOrder
<1>. HIDE DEF r
<1>o. /\ \A j, k \in DOMAIN m : j < k => m[j] < m[k]
      /\ \A j \in DOMAIN m : m[j] \in 1..n
  BY DEF ListSound
<1>4. \A j, k \in DOMAIN m : m[j] = m[k] => j = k
  <2>1. Len(m) \in Nat /\ \A j \in DOMAIN m : m[j] \in Nat
    BY <1>1, <1>o, LenProperties
  <2>. QED
    BY <2>1, <1>3, <1>o
<1>5. ListSound(r, n)
  <2>1. \A j, k \in DOMAIN r : j < k => r[j] < r[k]
    BY <1>3, <1>o
  <2>2. \A j \in DOMAIN r : r[j] \in 1..n
    BY <1>3, <1>o
  <2>. QED
    BY <2>1, <2>2, <1>2 DEF ListSound
<1>6. Listed(r) = Listed(m) \ {m[i]}
  BY <1>3, <1>4 DEF Listed
<1>. QED
  BY <1>5, <1>6 DEF r

(* The next message joins a queue.                                         *)
LEMMA QueueGains ==
    ASSUME NEW q, NEW l, NEW n \in Nat, QueueSound(q, l, n), NEW m \in Item,
           m.id = n + 1, m.lane = l
    PROVE  /\ QueueSound(Append(q, m), l, n + 1)
           /\ Ids(Append(q, m)) = Ids(q) \cup {n + 1}
           /\ Users(Append(q, m)) = IF m.user THEN Users(q) \cup {n + 1} ELSE Users(q)
<1>. DEFINE r == Append(q, m)
<1>1. /\ q \in Seq(Item) /\ r \in Seq(Item) /\ Len(q) \in Nat
      /\ DOMAIN q = 1..Len(q) /\ DOMAIN r = 1..(Len(q) + 1)
      /\ r[Len(q) + 1] = m /\ \A i \in DOMAIN q : r[i] = q[i]
  <2>1. q \in Seq(Item)
    BY DEF QueueSound
  <2>2. r \in Seq(Item) /\ Len(r) = Len(q) + 1
    BY <2>1, AppendProperties
  <2>. QED
    BY <2>1, <2>2, AppendProperties, LenProperties
<1>. HIDE DEF r
<1>2. DOMAIN r = DOMAIN q \cup {Len(q) + 1}
  BY <1>1
<1>3. \A i \in DOMAIN q : /\ q[i].id \in 0..n /\ q[i].lane = l
                          /\ q[i].user => q[i].id # 0
  BY DEF QueueSound
<1>4. \A i \in DOMAIN r : /\ r[i].id \in 0..(n + 1) /\ r[i].lane = l
                          /\ r[i].user => r[i].id # 0
  BY <1>1, <1>2, <1>3
<1>5. \A i, j \in DOMAIN r : i < j => r[i].id < r[j].id
  <2>. SUFFICES ASSUME NEW i \in DOMAIN r, NEW j \in DOMAIN r, i < j
                PROVE  r[i].id < r[j].id
    OBVIOUS
  <2>1. i \in DOMAIN q
    BY <1>1
  <2>2. CASE j \in DOMAIN q
    BY <2>1, <2>2, <1>1 DEF QueueSound
  <2>3. CASE j = Len(q) + 1
    BY <2>1, <2>3, <1>1, <1>3
  <2>. QED
    BY <2>2, <2>3, <1>2
<1>6. QueueSound(r, l, n + 1)
  BY <1>1, <1>4, <1>5 DEF QueueSound
<1>7. Ids(r) = Ids(q) \cup {n + 1}
  <2>1. n + 1 # 0
    OBVIOUS
  <2>. QED
    BY <1>1, <1>2, <2>1 DEF Ids
<1>8. Users(r) = IF m.user THEN Users(q) \cup {n + 1} ELSE Users(q)
  BY <1>1, <1>2 DEF Users
<1>. QED
  BY <1>6, <1>7, <1>8 DEF r

(* Its id joins a list.                                                    *)
LEMMA ListGains ==
    ASSUME NEW m, NEW n \in Nat, n < MaxInputs, MaxInputs \in Nat, ListSound(m, n)
    PROVE  /\ ListSound(Append(m, n + 1), n + 1)
           /\ Listed(Append(m, n + 1)) = Listed(m) \cup {n + 1}
<1>. DEFINE r == Append(m, n + 1)
<1>0. n + 1 \in 1..MaxInputs
  OBVIOUS
<1>1. /\ m \in Seq(1..MaxInputs) /\ r \in Seq(1..MaxInputs) /\ Len(m) \in Nat
      /\ DOMAIN m = 1..Len(m) /\ DOMAIN r = 1..(Len(m) + 1)
      /\ r[Len(m) + 1] = n + 1 /\ \A i \in DOMAIN m : r[i] = m[i]
  <2>1. m \in Seq(1..MaxInputs)
    BY DEF ListSound
  <2>2. r \in Seq(1..MaxInputs) /\ Len(r) = Len(m) + 1
    BY <1>0, <2>1, AppendProperties
  <2>. QED
    BY <1>0, <2>1, <2>2, AppendProperties, LenProperties
<1>. HIDE DEF r
<1>2. DOMAIN r = DOMAIN m \cup {Len(m) + 1}
  BY <1>1
<1>3. \A i \in DOMAIN m : m[i] \in 1..n
  BY DEF ListSound
<1>4. \A i \in DOMAIN r : r[i] \in 1..(n + 1)
  <2>. SUFFICES ASSUME NEW i \in DOMAIN r
                PROVE  r[i] \in 1..(n + 1)
    OBVIOUS
  <2>1. CASE i \in DOMAIN m
    <3>1. r[i] = m[i] /\ m[i] \in 1..n
      BY <1>1, <1>3, <2>1
    <3>. QED
      BY <3>1
  <2>2. CASE i = Len(m) + 1
    <3>1. r[i] = n + 1
      BY <1>1, <2>2
    <3>. QED
      BY <3>1
  <2>. QED
    BY <1>2, <2>1, <2>2
<1>5. \A i, j \in DOMAIN r : i < j => r[i] < r[j]
  <2>. SUFFICES ASSUME NEW i \in DOMAIN r, NEW j \in DOMAIN r, i < j
                PROVE  r[i] < r[j]
    OBVIOUS
  <2>1. i \in DOMAIN m
    BY <1>1
  <2>2. CASE j \in DOMAIN m
    BY <2>1, <2>2, <1>1 DEF ListSound
  <2>3. CASE j = Len(m) + 1
    BY <2>1, <2>3, <1>1, <1>3
  <2>. QED
    BY <2>2, <2>3, <1>2
<1>6. ListSound(r, n + 1)
  BY <1>1, <1>4, <1>5 DEF ListSound
<1>7. Listed(r) = Listed(m) \cup {n + 1}
  BY <1>1, <1>2 DEF Listed
<1>. QED
  BY <1>6, <1>7 DEF r

(* Nothing.                                                                *)
LEMMA NothingQueued ==
    ASSUME NEW l, NEW n \in Nat
    PROVE  /\ QueueSound(<<>>, l, n) /\ ListSound(<<>>, n)
           /\ Ids(<<>>) = {} /\ Users(<<>>) = {} /\ Listed(<<>>) = {}
BY EmptySeq DEF QueueSound, ListSound, Ids, Users, Listed

(* The bound of ids may grow.                                              *)
LEMMA MoreIds ==
    ASSUME NEW q, NEW m, NEW l, NEW n \in Nat, QueueSound(q, l, n), ListSound(m, n)
    PROVE  QueueSound(q, l, n + 1) /\ ListSound(m, n + 1)
<1>1. 1..n \subseteq 1..(n + 1) /\ 0..n \subseteq 0..(n + 1)
  OBVIOUS
<1>. QED
  BY <1>1 DEF QueueSound, ListSound

(* Ids are ids dealt.                                                      *)
LEMMA IdsAreDealt ==
    ASSUME NEW q, NEW m, NEW l, NEW n \in Nat, QueueSound(q, l, n), ListSound(m, n)
    PROVE  Ids(q) \subseteq 1..n /\ Users(q) \subseteq Ids(q) /\ Listed(m) \subseteq 1..n
<1>1. \A k \in 0..n : k # 0 => k \in 1..n
  OBVIOUS
<1>. QED
  BY <1>1 DEF QueueSound, ListSound, Ids, Users, Listed

-----------------------------------------------------------------------------
(* Where messages are, as they move.                                       *)
LEMMA HandIds ==
    /\ Ids(<<>>) = {}
    /\ \A m : Ids(<<m>>) = {m.id} \ {0}
BY DEF Ids

(* The lanes but the one of a step are as they were, or one id later.      *)
LEMMA OthersSound ==
    ASSUME NEW q, NEW m, NEW h, NEW u, NEW off, NEW n, MirrorSound(q, m, h, u, off, n), NEW k \in {n, n + 1}
    PROVE  /\ n \in Nat /\ k \in Nat
           /\ \A l \in Lanes : QueueSound(q[l], l, k) /\ ListSound(m[l], k)
           /\ \A l \in Lanes : Ids(q[l]) \subseteq 1..n /\ Listed(m[l]) \subseteq 1..n
           /\ \A l \in Lanes : Users(q[l]) \subseteq Ids(q[l])
<1>1. n \in Nat
  BY DEF MirrorSound
<1>2. ASSUME NEW l \in Lanes
      PROVE  /\ QueueSound(q[l], l, k) /\ ListSound(m[l], k)
             /\ Ids(q[l]) \subseteq 1..n /\ Users(q[l]) \subseteq Ids(q[l])
             /\ Listed(m[l]) \subseteq 1..n
  <2>1. QueueSound(q[l], l, n) /\ ListSound(m[l], n)
    BY DEF MirrorSound
  <2>2. QueueSound(q[l], l, n + 1) /\ ListSound(m[l], n + 1)
    BY <1>1, <2>1, MoreIds
  <2>3. /\ Ids(q[l]) \subseteq 1..n /\ Users(q[l]) \subseteq Ids(q[l])
        /\ Listed(m[l]) \subseteq 1..n
    BY <1>1, <2>1, IdsAreDealt
  <2>. QED
    BY <2>1, <2>2, <2>3
<1>3. \A l \in Lanes : QueueSound(q[l], l, k) /\ ListSound(m[l], k)
  BY <1>2
<1>4. \A l \in Lanes : Ids(q[l]) \subseteq 1..n /\ Listed(m[l]) \subseteq 1..n
  BY <1>2
<1>5. \A l \in Lanes : Users(q[l]) \subseteq Ids(q[l])
  BY <1>2
<1>6. k \in Nat
  BY <1>1
<1>. QED
  BY <1>1, <1>3, <1>4, <1>5, <1>6

(* The loop takes the first message of a lane ...                          *)
LEMMA Taken ==
    ASSUME NEW q, NEW m, NEW u, NEW off, NEW n, MirrorSound(q, m, <<>>, u, off, n),
           NEW lane \in Lanes, q[lane] # <<>>
    PROVE  MirrorSound([q EXCEPT ![lane] = Tail(@)], m, <<Head(q[lane])>>, u, off, n)
<1>. DEFINE X == Tail(q[lane])
            p == [q EXCEPT ![lane] = X]
            g == Head(q[lane])
<1>1. n \in Nat /\ QueueSound(q[lane], lane, n) /\ q[lane] \in Seq(Item)
  BY OthersSound DEF MirrorSound, QueueSound
<1>2. 1 \in DOMAIN q[lane] /\ g = q[lane][1] /\ X = RemoveAt(q[lane], 1)
  BY <1>1, TailRemovesFirst
<1>3. /\ QueueSound(X, lane, n) /\ Ids(X) = Ids(q[lane]) \ {g.id}
      /\ Users(X) = Users(q[lane]) \ {g.id} /\ g.id \in Ids(q[lane]) \cup {0}
  BY <1>1, <1>2, QueueLoses
<1>4. g \in Item /\ g.lane = lane /\ g.id \in 0..n
  BY <1>1, <1>2, HeadTailProperties DEF QueueSound
<1>5. q \in [Lanes -> Seq(Item)] /\ X \in Seq(Item)
  BY <1>3 DEF MirrorSound, QueueSound
<1>. HIDE DEF X, g
<1>6. p \in [Lanes -> Seq(Item)] /\ \A l \in Lanes : p[l] = IF l = lane THEN X ELSE q[l]
  BY <1>5
<1>. HIDE DEF p
<1>. DEFINE G == {g.id} \ {0}
<1>7. Ids(<<>>) = {} /\ Ids(<<g>>) = G /\ G \subseteq 1..n
  BY <1>1, <1>4, HandIds
<1>8. /\ \A l \in Lanes : Listed(m[l]) \ u = Users(q[l]) \ off /\ Ids(q[l]) \cap u = {}
      /\ \A l, k \in Lanes :
            l # k => (Ids(q[l]) \cup Listed(m[l])) \cap (Ids(q[k]) \cup Listed(m[k])) = {}
      /\ \A l \in Lanes : Users(q[l]) \subseteq Ids(q[l]) /\ 0 \notin Ids(q[l])
      /\ \A l \in Lanes : 0 \notin Listed(m[l])
  <2>1. /\ \A l \in Lanes : Ids(q[l]) \subseteq 1..n /\ Listed(m[l]) \subseteq 1..n
        /\ \A l \in Lanes : Users(q[l]) \subseteq Ids(q[l])
    BY OthersSound
  <2>2. 0 \notin 1..n
    BY <1>1
  <2>3. u \cup {} = u /\ Placed(q, m, u \cup {}, off)
    BY <1>7 DEF MirrorSound
  <2>4. /\ \A l \in Lanes : Listed(m[l]) \ u = Users(q[l]) \ off /\ Ids(q[l]) \cap u = {}
        /\ \A l, k \in Lanes :
            l # k => (Ids(q[l]) \cup Listed(m[l])) \cap (Ids(q[k]) \cup Listed(m[k])) = {}
    BY <2>3 DEF Placed
  <2>. QED
    BY <2>1, <2>2, <2>4
<1>9. /\ \A l \in Lanes : l # lane => G \cap Ids(q[l]) = {} /\ G \cap Listed(m[l]) = {}
      /\ Ids(X) = Ids(q[lane]) \ G /\ Users(X) = Users(q[lane]) \ G
  <2>1. 0 \notin Ids(q[lane]) /\ 0 \notin Users(q[lane])
    BY <1>8
  <2>2. Ids(X) = Ids(q[lane]) \ G /\ Users(X) = Users(q[lane]) \ G
    BY <1>3, <2>1
  <2>3. ASSUME NEW l \in Lanes, l # lane
        PROVE  G \cap Ids(q[l]) = {} /\ G \cap Listed(m[l]) = {}
    <3>1. (Ids(q[lane]) \cup Listed(m[lane])) \cap (Ids(q[l]) \cup Listed(m[l])) = {}
      BY <1>8, <2>3
    <3>2. G \subseteq Ids(q[lane])
      BY <1>3
    <3>. QED
      BY <3>1, <3>2
  <2>. QED
    BY <2>2, <2>3
<1>10. Placed(p, m, u \cup G, off)
  <2>1. ASSUME NEW l \in Lanes
        PROVE  /\ Listed(m[l]) \ (u \cup G) = Users(p[l]) \ off
               /\ Ids(p[l]) \cap (u \cup G) = {}
    <3>1. /\ Listed(m[l]) \ u = Users(q[l]) \ off /\ Ids(q[l]) \cap u = {}
          /\ l # lane => G \cap Ids(q[l]) = {} /\ G \cap Listed(m[l]) = {}
          /\ Users(q[l]) \subseteq Ids(q[l])
      BY <1>8, <1>9
    <3>2. CASE l = lane
      <4>1. Ids(p[l]) = Ids(q[l]) \ G /\ Users(p[l]) = Users(q[l]) \ G
        BY <1>6, <1>9, <3>2
      <4>. HIDE DEF G
      <4>. QED
        BY <3>1, <4>1
    <3>3. CASE l # lane
      <4>1. p[l] = q[l]
        BY <1>6, <3>3
      <4>. HIDE DEF G
      <4>. QED
        BY <3>1, <3>3, <4>1
    <3>. QED
      BY <3>2, <3>3
  <2>2. ASSUME NEW l \in Lanes, NEW k \in Lanes, l # k
        PROVE  (Ids(p[l]) \cup Listed(m[l])) \cap (Ids(p[k]) \cup Listed(m[k])) = {}
    <3>1. Ids(p[l]) \subseteq Ids(q[l]) /\ Ids(p[k]) \subseteq Ids(q[k])
      BY <1>3, <1>6
    <3>. QED
      BY <2>2, <3>1, <1>8
  <2>. QED
    BY <2>1, <2>2 DEF Placed
<1>11. HandSound(<<g>>, m)
  <2>1. \A l \in Lanes : l # lane => g.id \notin Listed(m[l])
    BY <1>8, <1>9
  <2>. QED
    BY <1>4, <2>1 DEF HandSound
<1>12. \A l \in Lanes : QueueSound(p[l], l, n) /\ ListSound(m[l], n)
  BY <1>3, <1>6 DEF MirrorSound
<1>13. n \in 0..MaxInputs /\ u \cup G \cup off \subseteq 1..n /\ m \in [Lanes -> Seq(1..MaxInputs)]
  BY <1>7 DEF MirrorSound
<1>. HIDE DEF G
<1>14. MirrorSound(p, m, <<g>>, u, off, n)
  BY <1>6, <1>7, <1>10, <1>11, <1>12, <1>13 DEF MirrorSound
<1>. QED
  BY <1>14 DEF p, X, g

(* ... emits it, and the session takes it off its list, ...                *)
LEMMA Emitted ==
    ASSUME NEW q, NEW m, NEW g, NEW u, NEW off, NEW n, MirrorSound(q, m, <<g>>, u, off, n), NEW m2,
           \/ g.id \notin Listed(m[g.lane]) /\ m2 = m
           \/ \E j \in DOMAIN m[g.lane] :
                 m[g.lane][j] = g.id /\ m2 = [m EXCEPT ![g.lane] = RemoveAt(@, j)]
    PROVE  MirrorSound(q, m2, <<>>, u, off, n)
<1>1. n \in Nat /\ g \in Item /\ g.lane \in Lanes
  <2>1. g \in Item
    <3>1. <<g>> \in Seq(Item)
      BY DEF MirrorSound, HandSound
    <3>2. <<g>>[1] \in Item
      BY <3>1, ElementOfSeq
    <3>. QED
      BY <3>2
  <2>. QED
    BY <2>1 DEF MirrorSound, Item
<1>2. Ids(<<>>) = {} /\ Ids(<<g>>) = {g.id} \ {0}
  BY HandIds
<1>0. m \in [Lanes -> Seq(1..MaxInputs)] /\ \A l \in Lanes : ListSound(m[l], n)
  BY DEF MirrorSound
<1>3. /\ m2 \in [Lanes -> Seq(1..MaxInputs)]
      /\ \A l \in Lanes : ListSound(m2[l], n)
      /\ \A l \in Lanes : Listed(m2[l]) = IF l = g.lane THEN Listed(m[l]) \ {g.id} ELSE Listed(m[l])
  <2>1. CASE g.id \notin Listed(m[g.lane]) /\ m2 = m
    BY <1>0, <2>1
  <2>2. ASSUME NEW j \in DOMAIN m[g.lane], m[g.lane][j] = g.id,
               m2 = [m EXCEPT ![g.lane] = RemoveAt(@, j)]
        PROVE  <1>3!1 /\ <1>3!2 /\ <1>3!3
    <3>1. /\ ListSound(RemoveAt(m[g.lane], j), n)
          /\ Listed(RemoveAt(m[g.lane], j)) = Listed(m[g.lane]) \ {g.id}
      BY <1>0, <1>1, <2>2, ListLoses
    <3>2. RemoveAt(m[g.lane], j) \in Seq(1..MaxInputs)
      BY <3>1 DEF ListSound
    <3>3. \A l \in Lanes : m2[l] = IF l = g.lane THEN RemoveAt(m[g.lane], j) ELSE m[l]
      BY <1>0, <2>2
    <3>4. m2 \in [Lanes -> Seq(1..MaxInputs)]
      BY <1>0, <2>2, <3>2
    <3>. QED
      BY <1>0, <3>1, <3>3, <3>4
  <2>. QED
    BY <2>1, <2>2
<1>. DEFINE G == {g.id} \ {0}
<1>4. /\ \A l \in Lanes : Listed(m[l]) \ (u \cup G) = Users(q[l]) \ off
      /\ \A l \in Lanes : Ids(q[l]) \cap (u \cup G) = {}
      /\ \A l, k \in Lanes :
            l # k => (Ids(q[l]) \cup Listed(m[l])) \cap (Ids(q[k]) \cup Listed(m[k])) = {}
  BY <1>2 DEF MirrorSound, Placed
<1>5. \A l \in Lanes : l # g.lane => g.id \notin Listed(m[l])
  <2>1. 1 \in DOMAIN <<g>> /\ <<g>>[1] = g
    OBVIOUS
  <2>. QED
    BY <2>1 DEF MirrorSound, HandSound
<1>8. \A l \in Lanes : 0 \notin Listed(m[l]) /\ Users(q[l]) \subseteq Ids(q[l])
  <2>1. \A l \in Lanes : Listed(m[l]) \subseteq 1..n /\ Users(q[l]) \subseteq Ids(q[l])
    BY OthersSound
  <2>. QED
    BY <2>1, <1>1
<1>6. Placed(q, m2, u, off)
  <2>1. ASSUME NEW l \in Lanes
        PROVE  Listed(m2[l]) \ u = Users(q[l]) \ off /\ Ids(q[l]) \cap u = {}
    <3>1. Listed(m2[l]) = Listed(m[l]) \ G
      BY <1>3, <1>5, <1>8
    <3>2. /\ Listed(m[l]) \ (u \cup G) = Users(q[l]) \ off
          /\ Ids(q[l]) \cap (u \cup G) = {}
      BY <1>4
    <3>. HIDE DEF G
    <3>. QED
      BY <3>1, <3>2
  <2>2. ASSUME NEW l \in Lanes, NEW k \in Lanes, l # k
        PROVE  (Ids(q[l]) \cup Listed(m2[l])) \cap (Ids(q[k]) \cup Listed(m2[k])) = {}
    <3>1. Listed(m2[l]) \subseteq Listed(m[l]) /\ Listed(m2[k]) \subseteq Listed(m[k])
      BY <1>3
    <3>. QED
      BY <2>2, <3>1, <1>4
  <2>. QED
    BY <2>1, <2>2 DEF Placed
<1>7. HandSound(<<>>, m2)
  BY EmptySeq DEF HandSound
<1>9. n \in 0..MaxInputs /\ u \cup {} \cup off \subseteq 1..n /\ u \cup {} = u
  BY DEF MirrorSound
<1>10. q \in [Lanes -> Seq(Item)] /\ \A l \in Lanes : QueueSound(q[l], l, n)
  BY DEF MirrorSound
<1>. QED
  BY <1>2, <1>3, <1>6, <1>7, <1>9, <1>10 DEF MirrorSound

(* ... or, for a prompt, a message with the same text.                     *)
LEMMA Mistaken ==
    ASSUME NEW q, NEW m, NEW g, NEW u, NEW off, NEW n, MirrorSound(q, m, <<g>>, u, off, n),
           g.id = 0, NEW lane \in Lanes, NEW j \in DOMAIN m[lane]
    PROVE  MirrorSound(q, [m EXCEPT ![lane] = RemoveAt(@, j)], <<>>, u, off \cup {m[lane][j]}, n)
<1>. DEFINE m2 == [m EXCEPT ![lane] = RemoveAt(@, j)]
            x == m[lane][j]
<1>1. /\ n \in 0..MaxInputs /\ n \in Nat
      /\ m \in [Lanes -> Seq(1..MaxInputs)] /\ q \in [Lanes -> Seq(Item)]
      /\ \A l \in Lanes : QueueSound(q[l], l, n) /\ ListSound(m[l], n)
  BY DEF MirrorSound
<1>2. Ids(<<>>) = {} /\ Ids(<<g>>) = {}
  BY HandIds
<1>3. /\ m2 \in [Lanes -> Seq(1..MaxInputs)]
      /\ \A l \in Lanes : ListSound(m2[l], n)
      /\ \A l \in Lanes : Listed(m2[l]) = IF l = lane THEN Listed(m[l]) \ {x} ELSE Listed(m[l])
  <2>1. /\ ListSound(RemoveAt(m[lane], j), n)
        /\ Listed(RemoveAt(m[lane], j)) = Listed(m[lane]) \ {x}
    BY <1>1, ListLoses
  <2>2. RemoveAt(m[lane], j) \in Seq(1..MaxInputs)
    BY <2>1 DEF ListSound
  <2>3. \A l \in Lanes : m2[l] = IF l = lane THEN RemoveAt(m[lane], j) ELSE m[l]
    BY <1>1
  <2>4. m2 \in [Lanes -> Seq(1..MaxInputs)]
    BY <1>1, <2>2
  <2>. QED
    BY <1>1, <2>1, <2>3, <2>4
<1>4. x \in 1..n /\ x \in Listed(m[lane])
  BY <1>1 DEF ListSound, Listed
<1>. HIDE DEF m2, x
<1>5. /\ \A l \in Lanes : Listed(m[l]) \ u = Users(q[l]) \ off /\ Ids(q[l]) \cap u = {}
      /\ \A l, k \in Lanes :
            l # k => (Ids(q[l]) \cup Listed(m[l])) \cap (Ids(q[k]) \cup Listed(m[k])) = {}
      /\ \A l \in Lanes : Users(q[l]) \subseteq Ids(q[l])
      /\ u \cup off \subseteq 1..n
  BY <1>2, OthersSound DEF MirrorSound, Placed
<1>6. Placed(q, m2, u, off \cup {x})
  <2>1. ASSUME NEW l \in Lanes
        PROVE  Listed(m2[l]) \ u = Users(q[l]) \ (off \cup {x}) /\ Ids(q[l]) \cap u = {}
    <3>1. CASE l = lane
      BY <3>1, <1>3, <1>5
    <3>2. CASE l # lane
      <4>1. x \notin Users(q[l])
        BY <3>2, <1>4, <1>5
      <4>. QED
        BY <3>2, <4>1, <1>3, <1>5
    <3>. QED
      BY <3>1, <3>2
  <2>2. ASSUME NEW l \in Lanes, NEW k \in Lanes, l # k
        PROVE  (Ids(q[l]) \cup Listed(m2[l])) \cap (Ids(q[k]) \cup Listed(m2[k])) = {}
    <3>1. Listed(m2[l]) \subseteq Listed(m[l]) /\ Listed(m2[k]) \subseteq Listed(m[k])
      BY <1>3
    <3>. QED
      BY <2>2, <3>1, <1>5
  <2>. QED
    BY <2>1, <2>2 DEF Placed
<1>7. HandSound(<<>>, m2)
  BY EmptySeq DEF HandSound
<1>8. u \cup {} \cup (off \cup {x}) \subseteq 1..n /\ u \cup {} = u
  BY <1>4, <1>5
<1>9. MirrorSound(q, m2, <<>>, u, off \cup {x}, n)
  BY <1>1, <1>2, <1>3, <1>6, <1>7, <1>8 DEF MirrorSound
<1>. QED
  BY <1>9 DEF m2, x

(* ... or, if it does not hear of it, keeps on its list what is gone.      *)
LEMMA Lost ==
    ASSUME NEW q, NEW m, NEW h, NEW u, NEW off, NEW n, MirrorSound(q, m, h, u, off, n)
    PROVE  MirrorSound(q, m, <<>>, u \cup Ids(h), off, n)
<1>1. Ids(<<>>) = {} /\ (u \cup Ids(h)) \cup {} = u \cup Ids(h)
  BY HandIds
<1>2. HandSound(<<>>, m)
  BY EmptySeq DEF HandSound
<1>. QED
  BY <1>1, <1>2 DEF MirrorSound

(* A prompt is in the hands of the loop without ever having been queued.   *)
LEMMA Prompted ==
    ASSUME NEW q, NEW m, NEW u, NEW off, NEW n, MirrorSound(q, m, <<>>, u, off, n), NEW g \in Item, g.id = 0
    PROVE  MirrorSound(q, m, <<g>>, u, off, n)
<1>1. Ids(<<>>) = {} /\ Ids(<<g>>) = {}
  BY HandIds
<1>2. n \in Nat /\ \A l \in Lanes : Listed(m[l]) \subseteq 1..n
  BY OthersSound
<1>3. \A l \in Lanes : 0 \notin Listed(m[l])
  BY <1>2
<1>4. HandSound(<<g>>, m)
  BY <1>3 DEF HandSound
<1>. QED
  BY <1>1, <1>4 DEF MirrorSound

(* A compacted run queues its own continuation, when nothing else is       *)
(* queued.                                                                 *)
LEMMA Resumed ==
    ASSUME NEW q, NEW m, NEW h, NEW u, NEW off, NEW n, MirrorSound(q, m, h, u, off, n),
           \A l \in Lanes : q[l] = <<>>, NEW lane \in Lanes
    PROVE  MirrorSound([q EXCEPT ![lane] = Append(@, [id |-> 0, lane |-> lane, user |-> FALSE])],
                       m, h, u, off, n)
<1>. DEFINE g == [id |-> 0, lane |-> lane, user |-> FALSE]
            p == [q EXCEPT ![lane] = Append(@, g)]
<1>1. n \in Nat /\ g \in Item /\ q \in [Lanes -> Seq(Item)]
  BY ConstantsAssumption DEF MirrorSound, Item
<1>2. Append(<<>>, g) = <<g>>
  OBVIOUS
<1>3. \A l \in Lanes : p[l] = IF l = lane THEN <<g>> ELSE <<>>
  BY <1>1, <1>2
<1>4. QueueSound(<<g>>, lane, n) /\ <<g>> \in Seq(Item)
  BY <1>1 DEF QueueSound
<1>5. Ids(<<g>>) = {} /\ Users(<<g>>) = {} /\ Ids(<<>>) = {} /\ Users(<<>>) = {}
  BY DEF Ids, Users
<1>6. p \in [Lanes -> Seq(Item)] /\ \A l \in Lanes : QueueSound(p[l], l, n)
  <2>1. \A l : QueueSound(<<>>, l, n) /\ <<>> \in Seq(Item)
    BY <1>1, NothingQueued, EmptySeq
  <2>2. \A l \in Lanes : QueueSound(p[l], l, n)
    BY <1>3, <1>4, <2>1
  <2>3. p \in [Lanes -> Seq(Item)]
    <3>1. Append(q[lane], g) = <<g>>
      BY <1>2
    <3>. QED
      BY <1>1, <1>4, <3>1
  <2>. QED
    BY <2>2, <2>3
<1>7. \A l \in Lanes : Ids(p[l]) = Ids(q[l]) /\ Users(p[l]) = Users(q[l])
  BY <1>3, <1>5
<1>. HIDE DEF p
<1>8. Placed(p, m, u \cup Ids(h), off)
  BY <1>7 DEF MirrorSound, Placed
<1>9. MirrorSound(p, m, h, u, off, n)
  BY <1>6, <1>8 DEF MirrorSound
<1>. QED
  BY <1>9 DEF p

(* One id later nothing has moved.                                         *)
LEMMA Dealt ==
    ASSUME NEW q, NEW m, NEW h, NEW u, NEW off, NEW n, MirrorSound(q, m, h, u, off, n), n < MaxInputs
    PROVE  MirrorSound(q, m, h, u, off, n + 1)
<1>1. n \in 0..MaxInputs /\ 1..n \subseteq 1..(n + 1) /\ n + 1 \in 0..MaxInputs
  BY ConstantsAssumption DEF MirrorSound
<1>2. \A l \in Lanes : QueueSound(q[l], l, n + 1) /\ ListSound(m[l], n + 1)
  BY OthersSound
<1>. QED
  BY <1>1, <1>2 DEF MirrorSound

(* A message is queued, and listed if a user queued it.                    *)
LEMMA Asked ==
    ASSUME NEW q, NEW m, NEW h, NEW u, NEW off, NEW n, MirrorSound(q, m, h, u, off, n), n < MaxInputs,
           NEW lane \in Lanes, NEW user \in BOOLEAN, NEW m2,
           m2 = IF user THEN [m EXCEPT ![lane] = Append(@, n + 1)] ELSE m
    PROVE  MirrorSound([q EXCEPT ![lane] = Append(@, [id |-> n + 1, lane |-> lane, user |-> user])],
                       m2, h, u, off, n + 1)
<1>. DEFINE g == [id |-> n + 1, lane |-> lane, user |-> user]
            X == Append(q[lane], g)
            p == [q EXCEPT ![lane] = X]
<1>1. /\ n \in Nat /\ MaxInputs \in Nat /\ n + 1 \in 0..MaxInputs
      /\ g \in Item /\ g.id = n + 1 /\ g.lane = lane /\ g.user = user
  BY ConstantsAssumption DEF MirrorSound, Item
<1>2. /\ \A l \in Lanes : QueueSound(q[l], l, n) /\ ListSound(m[l], n)
      /\ q \in [Lanes -> Seq(Item)] /\ m \in [Lanes -> Seq(1..MaxInputs)]
  BY DEF MirrorSound
<1>. HIDE DEF g
<1>3. /\ QueueSound(X, lane, n + 1) /\ Ids(X) = Ids(q[lane]) \cup {n + 1}
      /\ Users(X) = IF user THEN Users(q[lane]) \cup {n + 1} ELSE Users(q[lane])
  BY <1>1, <1>2, QueueGains
<1>4. X \in Seq(Item)
  BY <1>3 DEF QueueSound
<1>. HIDE DEF X
<1>5. p \in [Lanes -> Seq(Item)] /\ \A l \in Lanes : p[l] = IF l = lane THEN X ELSE q[l]
  BY <1>2, <1>4
<1>. HIDE DEF p
<1>6. /\ n \in Nat
      /\ \A l \in Lanes : QueueSound(q[l], l, n + 1) /\ ListSound(m[l], n + 1)
      /\ \A l \in Lanes : Ids(q[l]) \subseteq 1..n /\ Listed(m[l]) \subseteq 1..n
      /\ \A l \in Lanes : Users(q[l]) \subseteq Ids(q[l])
  BY OthersSound
<1>7. /\ m2 \in [Lanes -> Seq(1..MaxInputs)]
      /\ \A l \in Lanes : ListSound(m2[l], n + 1)
      /\ \A l \in Lanes : Listed(m2[l]) = IF user /\ l = lane
                                      THEN Listed(m[l]) \cup {n + 1}
                                      ELSE Listed(m[l])
  <2>1. CASE ~user
    BY <2>1, <1>2, <1>6
  <2>2. CASE user
    <3>1. /\ ListSound(Append(m[lane], n + 1), n + 1)
          /\ Listed(Append(m[lane], n + 1)) = Listed(m[lane]) \cup {n + 1}
      BY <1>1, <1>2, ListGains
    <3>2. Append(m[lane], n + 1) \in Seq(1..MaxInputs)
      BY <3>1 DEF ListSound
    <3>3. \A l \in Lanes : m2[l] = IF l = lane THEN Append(m[lane], n + 1) ELSE m[l]
      BY <1>2, <2>2
    <3>4. m2 \in [Lanes -> Seq(1..MaxInputs)]
      BY <1>2, <2>2, <3>2
    <3>. QED
      BY <1>6, <2>2, <3>1, <3>3, <3>4
  <2>. QED
    BY <2>1, <2>2
<1>. DEFINE gone == u \cup Ids(h)
<1>8. gone \subseteq 1..n /\ off \subseteq 1..n
  BY DEF MirrorSound
<1>9. /\ \A l \in Lanes : Listed(m[l]) \ gone = Users(q[l]) \ off /\ Ids(q[l]) \cap gone = {}
      /\ \A l, k \in Lanes :
            l # k => (Ids(q[l]) \cup Listed(m[l])) \cap (Ids(q[k]) \cup Listed(m[k])) = {}
  BY DEF MirrorSound, Placed
<1>10. /\ n + 1 \notin gone /\ n + 1 \notin off /\ n + 1 # 0
       /\ \A l \in Lanes : n + 1 \notin Ids(q[l]) /\ n + 1 \notin Listed(m[l])
  <2>1. n + 1 \notin 1..n /\ n + 1 # 0
    BY <1>6
  <2>. QED
    BY <2>1, <1>6, <1>8
<1>h. HandSound(h, m2)
  <2>1. \A i \in DOMAIN h : h[i].id # n + 1
    BY <1>10 DEF Ids, gone
  <2>. QED
    BY <2>1, <1>7 DEF HandSound, MirrorSound
<1>. HIDE DEF gone
<1>. DEFINE x == n + 1
<1>x. /\ Ids(X) = Ids(q[lane]) \cup {x}
      /\ Users(X) = IF user THEN Users(q[lane]) \cup {x} ELSE Users(q[lane])
      /\ \A l \in Lanes : Listed(m2[l]) = IF user /\ l = lane
                                      THEN Listed(m[l]) \cup {x}
                                      ELSE Listed(m[l])
      /\ x \notin gone /\ x \notin off
      /\ \A l \in Lanes : x \notin Ids(q[l]) /\ x \notin Listed(m[l])
  BY <1>3, <1>7, <1>10
<1>. HIDE DEF x
<1>11. Placed(p, m2, gone, off)
  <2>1. ASSUME NEW l \in Lanes
        PROVE  Listed(m2[l]) \ gone = Users(p[l]) \ off /\ Ids(p[l]) \cap gone = {}
    <3>1. CASE l # lane
      BY <3>1, <1>5, <1>x, <1>9
    <3>2. CASE l = lane
      <4>1. Ids(p[l]) = Ids(q[l]) \cup {x}
        BY <3>2, <1>5, <1>x
      <4>0. /\ Listed(m[l]) \ gone = Users(q[l]) \ off /\ Ids(q[l]) \cap gone = {}
            /\ x \notin gone /\ x \notin off
        BY <1>9, <1>x
      <4>2. CASE user
        <5>1. Listed(m2[l]) = Listed(m[l]) \cup {x} /\ Users(p[l]) = Users(q[l]) \cup {x}
          BY <3>2, <4>2, <1>5, <1>x
        <5>. QED
          BY <4>0, <4>1, <5>1
      <4>3. CASE ~user
        BY <3>2, <4>1, <4>3, <1>5, <1>x, <1>9
      <4>. QED
        BY <4>2, <4>3
    <3>3. \A k \in Nat : k # 0 /\ k <= 1 => k = 1
      OBVIOUS
    <3>. QED
      BY <3>1, <3>2, <3>3
  <2>2. ASSUME NEW l \in Lanes, NEW k \in Lanes, l # k
        PROVE  (Ids(p[l]) \cup Listed(m2[l])) \cap (Ids(p[k]) \cup Listed(m2[k])) = {}
    <3>1. ASSUME NEW j \in Lanes
          PROVE  /\ Ids(p[j]) \subseteq Ids(q[j]) \cup {x}
                 /\ Listed(m2[j]) \subseteq Listed(m[j]) \cup {x}
      BY <1>5, <1>x
    <3>2. ASSUME NEW j \in Lanes, j # lane
          PROVE  Ids(p[j]) = Ids(q[j]) /\ Listed(m2[j]) = Listed(m[j])
      BY <3>2, <1>5, <1>x
    <3>3. CASE l # lane
      <4>1. Ids(p[l]) = Ids(q[l]) /\ Listed(m2[l]) = Listed(m[l])
        BY <3>2, <3>3
      <4>2. Ids(p[k]) \subseteq Ids(q[k]) \cup {x} /\ Listed(m2[k]) \subseteq Listed(m[k]) \cup {x}
        BY <3>1
      <4>3. x \notin Ids(q[l]) /\ x \notin Listed(m[l])
        BY <1>x
      <4>4. (Ids(q[l]) \cup Listed(m[l])) \cap (Ids(q[k]) \cup Listed(m[k])) = {}
        BY <2>2, <1>9
      <4>. QED
        BY <4>1, <4>2, <4>3, <4>4
    <3>4. CASE k # lane
      <4>1. Ids(p[k]) = Ids(q[k]) /\ Listed(m2[k]) = Listed(m[k])
        BY <3>2, <3>4
      <4>2. Ids(p[l]) \subseteq Ids(q[l]) \cup {x} /\ Listed(m2[l]) \subseteq Listed(m[l]) \cup {x}
        BY <3>1
      <4>3. x \notin Ids(q[k]) /\ x \notin Listed(m[k])
        BY <1>x
      <4>4. (Ids(q[k]) \cup Listed(m[k])) \cap (Ids(q[l]) \cup Listed(m[l])) = {}
        BY <2>2, <1>9
      <4>. QED
        BY <4>1, <4>2, <4>3, <4>4
    <3>. QED
      BY <2>2, <3>3, <3>4
  <2>. QED
    BY <2>1, <2>2 DEF Placed
<1>12. \A l \in Lanes : QueueSound(p[l], l, n + 1) /\ ListSound(m2[l], n + 1)
  BY <1>3, <1>5, <1>6, <1>7
<1>13. u \cup Ids(h) \cup off \subseteq 1..(n + 1)
  <2>1. 1..n \subseteq 1..(n + 1)
    BY <1>6
  <2>2. u \cup Ids(h) \subseteq 1..n /\ off \subseteq 1..n
    BY <1>8 DEF gone
  <2>. QED
    BY <2>1, <2>2
<1>. QED
  BY <1>1, <1>5, <1>7, <1>h, <1>11, <1>12, <1>13 DEF MirrorSound, p, X, g, gone

(* A message a user withdraws leaves both.                                 *)
LEMMA Withdrawn ==
    ASSUME NEW q, NEW m, NEW h, NEW u, NEW off, NEW n, MirrorSound(q, m, h, u, off, n),
           NEW lane \in Lanes, NEW i \in DOMAIN q[lane],
           NEW j \in DOMAIN m[lane], m[lane][j] = q[lane][i].id
    PROVE  MirrorSound([q EXCEPT ![lane] = RemoveAt(@, i)], [m EXCEPT ![lane] = RemoveAt(@, j)],
                       h, u, off, n)
<1>. DEFINE X == RemoveAt(q[lane], i)
            Y == RemoveAt(m[lane], j)
            p == [q EXCEPT ![lane] = X]
            m2 == [m EXCEPT ![lane] = Y]
            x == q[lane][i].id
            gone == u \cup Ids(h)
<1>1. /\ \A l \in Lanes : QueueSound(q[l], l, n) /\ ListSound(m[l], n)
      /\ q \in [Lanes -> Seq(Item)] /\ m \in [Lanes -> Seq(1..MaxInputs)] /\ n \in Nat
  BY DEF MirrorSound
<1>2. /\ QueueSound(X, lane, n) /\ Ids(X) = Ids(q[lane]) \ {x}
      /\ Users(X) = Users(q[lane]) \ {x}
  BY <1>1, QueueLoses
<1>3. ListSound(Y, n) /\ Listed(Y) = Listed(m[lane]) \ {x}
  BY <1>1, ListLoses
<1>4. X \in Seq(Item) /\ Y \in Seq(1..MaxInputs)
  BY <1>2, <1>3 DEF QueueSound, ListSound
<1>. HIDE DEF X, Y, x
<1>5. /\ p \in [Lanes -> Seq(Item)] /\ \A l \in Lanes : p[l] = IF l = lane THEN X ELSE q[l]
      /\ m2 \in [Lanes -> Seq(1..MaxInputs)]
      /\ \A l \in Lanes : m2[l] = IF l = lane THEN Y ELSE m[l]
  BY <1>1, <1>4
<1>. HIDE DEF p, m2
<1>6. /\ \A l \in Lanes : Listed(m[l]) \ gone = Users(q[l]) \ off /\ Ids(q[l]) \cap gone = {}
      /\ \A l, k \in Lanes :
            l # k => (Ids(q[l]) \cup Listed(m[l])) \cap (Ids(q[k]) \cup Listed(m[k])) = {}
  BY DEF MirrorSound, Placed
<1>7. HandSound(h, m2)
  <2>1. \A l \in Lanes : Listed(m2[l]) \subseteq Listed(m[l])
    BY <1>3, <1>5
  <2>. QED
    BY <2>1 DEF HandSound, MirrorSound
<1>. HIDE DEF gone
<1>8. Placed(p, m2, gone, off)
  <2>1. ASSUME NEW l \in Lanes
        PROVE  Listed(m2[l]) \ gone = Users(p[l]) \ off /\ Ids(p[l]) \cap gone = {}
    BY <1>2, <1>3, <1>5, <1>6
  <2>2. ASSUME NEW l \in Lanes, NEW k \in Lanes, l # k
        PROVE  (Ids(p[l]) \cup Listed(m2[l])) \cap (Ids(p[k]) \cup Listed(m2[k])) = {}
    <3>1. ASSUME NEW e \in Lanes
          PROVE  Ids(p[e]) \cup Listed(m2[e]) \subseteq Ids(q[e]) \cup Listed(m[e])
      BY <1>2, <1>3, <1>5
    <3>. QED
      BY <2>2, <3>1, <1>6
  <2>. QED
    BY <2>1, <2>2 DEF Placed
<1>9. \A l \in Lanes : QueueSound(p[l], l, n) /\ ListSound(m2[l], n)
  BY <1>1, <1>2, <1>3, <1>5
<1>. QED
  BY <1>5, <1>7, <1>8, <1>9 DEF MirrorSound, p, m2, X, Y, gone

(* Lanes that are cleared are cleared in both.                             *)
LEMMA Cleared ==
    ASSUME NEW q, NEW m, NEW h, NEW u, NEW off, NEW n, MirrorSound(q, m, h, u, off, n), NEW lanes
    PROVE  MirrorSound([l \in Lanes |-> IF l \in lanes THEN <<>> ELSE q[l]],
                       [l \in Lanes |-> IF l \in lanes THEN <<>> ELSE m[l]],
                       h, u, off, n)
<1>. DEFINE p == [l \in Lanes |-> IF l \in lanes THEN <<>> ELSE q[l]]
            m2 == [l \in Lanes |-> IF l \in lanes THEN <<>> ELSE m[l]]
            gone == u \cup Ids(h)
<1>1. /\ \A l \in Lanes : QueueSound(q[l], l, n) /\ ListSound(m[l], n)
      /\ q \in [Lanes -> Seq(Item)] /\ m \in [Lanes -> Seq(1..MaxInputs)] /\ n \in Nat
  BY DEF MirrorSound
<1>2. /\ \A l : QueueSound(<<>>, l, n) /\ ListSound(<<>>, n)
      /\ Ids(<<>>) = {} /\ Users(<<>>) = {} /\ Listed(<<>>) = {}
      /\ <<>> \in Seq(Item) /\ <<>> \in Seq(1..MaxInputs)
  BY <1>1, NothingQueued, EmptySeq
<1>3. /\ p \in [Lanes -> Seq(Item)] /\ m2 \in [Lanes -> Seq(1..MaxInputs)]
      /\ \A l \in Lanes : /\ p[l] = IF l \in lanes THEN <<>> ELSE q[l]
                          /\ m2[l] = IF l \in lanes THEN <<>> ELSE m[l]
  BY <1>1, <1>2
<1>. HIDE DEF p, m2
<1>4. /\ \A l \in Lanes : Listed(m[l]) \ gone = Users(q[l]) \ off /\ Ids(q[l]) \cap gone = {}
      /\ \A l, k \in Lanes :
            l # k => (Ids(q[l]) \cup Listed(m[l])) \cap (Ids(q[k]) \cup Listed(m[k])) = {}
  BY DEF MirrorSound, Placed
<1>5. \A l \in Lanes : Ids(p[l]) \subseteq Ids(q[l]) /\ Listed(m2[l]) \subseteq Listed(m[l])
  BY <1>2, <1>3
<1>6. HandSound(h, m2)
  BY <1>5 DEF HandSound, MirrorSound
<1>. HIDE DEF gone
<1>7. Placed(p, m2, gone, off)
  <2>1. ASSUME NEW l \in Lanes
        PROVE  Listed(m2[l]) \ gone = Users(p[l]) \ off /\ Ids(p[l]) \cap gone = {}
    BY <1>2, <1>3, <1>4
  <2>2. ASSUME NEW l \in Lanes, NEW k \in Lanes, l # k
        PROVE  (Ids(p[l]) \cup Listed(m2[l])) \cap (Ids(p[k]) \cup Listed(m2[k])) = {}
    BY <2>2, <1>4, <1>5
  <2>. QED
    BY <2>1, <2>2 DEF Placed
<1>8. \A l \in Lanes : QueueSound(p[l], l, n) /\ ListSound(m2[l], n)
  BY <1>1, <1>2, <1>3
<1>. QED
  BY <1>3, <1>6, <1>7, <1>8 DEF MirrorSound, p, m2, gone

-----------------------------------------------------------------------------
(* Whose turn it is.                                                       *)
StaysDisturbed ==
    ended' \in Endings /\ (~Undisturbed => ended' = ended \/ ended' = "overlap")

USE DEF Undisturbed, StaysDisturbed

(* While the agent runs, its driver is the only one.                       *)
LEMMA AgentRuns ==
    ASSUME RunInv, phase # "off"
    PROVE  /\ owner \in Drivers
           /\ ended # "overlap" =>
                 /\ driver[owner] = "agent" /\ active
                 /\ \A d \in Drivers : d # owner => driver[d] \in {"free", "preflight"}
<1>1. owner \in Drivers /\ owner # None
  BY ConstantsAssumption DEF RunInv, RunTypes
<1>. SUFFICES ASSUME ended # "overlap"
              PROVE  /\ driver[owner] = "agent" /\ active
                     /\ \A d \in Drivers : d # owner => driver[d] \in {"free", "preflight"}
  BY <1>1
<1>2. driver[owner] = "agent" /\ (active <=> AtWork) /\ \A d, e \in Busy : d = e
  BY <1>1 DEF RunInv, OneDriver
<1>3. owner \in Busy
  BY <1>1, <1>2 DEF Busy
<1>4. \A d \in Drivers : d # owner => driver[d] \in {"free", "preflight"}
  BY <1>2, <1>3 DEF Busy
<1>5. active
  BY <1>1, <1>2 DEF AtWork, Working
<1>. QED
  BY <1>2, <1>4, <1>5

(* While a driver does anything else, it is the only one, and no run is    *)
(* active.                                                                 *)
Alone(d) ==
    /\ owner = None /\ phase = "off"
    /\ \A e \in Drivers : e # d => driver[e] \in {"free", "preflight"}
    /\ active <=> driver[d] # "settling"

LEMMA DriverRuns ==
    ASSUME RunInv, NEW d \in Drivers, driver[d] \notin {"free", "preflight", "agent"},
           ended # "overlap"
    PROVE  Alone(d)
<1>1. d \in Busy /\ driver[d] \in DriverPoints
  BY DEF Busy, RunInv, RunTypes
<1>2. (active <=> AtWork) /\ (\A a, b \in Busy : a = b) /\ (owner # None => driver[owner] = "agent")
  BY DEF RunInv, OneDriver
<1>3. \A e \in Drivers : e # d => driver[e] \in {"free", "preflight"}
  BY <1>1, <1>2 DEF Busy
<1>4. owner = None /\ phase = "off"
  BY <1>2, <1>3 DEF RunInv, RunTypes
<1>5. AtWork <=> driver[d] # "settling"
  BY <1>1, <1>3 DEF AtWork, Working, DriverPoints
<1>. QED
  BY <1>2, <1>3, <1>4, <1>5 DEF Alone

(* A step of the agent's run that ends it or does not.                     *)
LEMMA AgentKeeps ==
    ASSUME RunInv, phase # "off",
           UNCHANGED <<active, settling, outcome, driver, owner, agentAborted>>,
           phase' \in {"running", "ending", "failing"}, last' \in Replies \cup {"none"},
           StaysDisturbed,
           Undisturbed' /\ phase' # "running" => last' \in Replies /\ Ending(last') = ended',
           hand' # <<>> => phase' = "running"
    PROVE  RunInv' /\ AllHonest
<1>1. RunTypes'
  <2>1. owner # None
    BY DEF RunInv, RunTypes
  <2>. QED
    BY <2>1 DEF RunInv, RunTypes
<1>2. OneDriver'
  BY DEF RunInv, OneDriver, Busy, AtWork
<1>3. EndIsHeard'
  <2>. SUFFICES ASSUME Undisturbed' PROVE \A d \in Drivers : Follows(d)'
    BY DEF EndIsHeard
  <2>1. ended # "overlap"
    OBVIOUS
  <2>2. \A d \in Drivers : driver[d] \in {"free", "preflight", "agent"}
    BY <2>1, AgentRuns
  <2>. QED
    BY <2>2 DEF Follows
<1>4. AllHonest
  BY DEF AllHonest, SettlesHonestly
<1>. QED
  BY <1>1, <1>2, <1>3, <1>4 DEF RunInv

(* A run that is over leaves its driver where it goes on.                  *)
LEMMA AgentStops ==
    ASSUME RunInv, phase # "off", NEW point \in {"post", "refused"},
           driver' = [driver EXCEPT ![owner] = point], owner' = None, phase' = "off",
           agentAborted' = FALSE, hand' = <<>>,
           UNCHANGED <<active, settling, outcome, last>>, StaysDisturbed,
           Undisturbed' => IF point = "post"
                           THEN last \in Replies /\ Ending(last) = ended'
                           ELSE ended' = "error"
    PROVE  RunInv' /\ AllHonest
<1>0. owner \in Drivers /\ driver \in [Drivers -> DriverPoints]
  BY AgentRuns DEF RunInv, RunTypes
<1>1. \A e \in Drivers : driver'[e] = IF e = owner THEN point ELSE driver[e]
  BY <1>0
<1>2. RunTypes'
  <2>1. driver' \in [Drivers -> DriverPoints]
    BY <1>0 DEF DriverPoints
  <2>. QED
    BY <2>1 DEF RunInv, RunTypes
<1>3. OneDriver'
  <2>. SUFFICES ASSUME ended' # "overlap"
                PROVE  (\A a, b \in Busy' : a = b) /\ (active' <=> AtWork')
    BY DEF OneDriver
  <2>1. active /\ \A d \in Drivers : d # owner => driver[d] \in {"free", "preflight"}
    BY AgentRuns
  <2>2. Busy' \subseteq {owner}
    BY <1>1, <2>1 DEF Busy
  <2>3. AtWork'
    BY <1>0, <1>1 DEF AtWork, Working
  <2>. QED
    BY <2>1, <2>2, <2>3
<1>4. EndIsHeard'
  <2>. SUFFICES ASSUME Undisturbed' PROVE \A d \in Drivers : Follows(d)'
    BY DEF EndIsHeard
  <2>1. \A d \in Drivers : d # owner => driver[d] \in {"free", "preflight"}
    BY AgentRuns
  <2>. QED
    BY <1>1, <2>1 DEF Follows
<1>5. AllHonest
  BY <1>1 DEF AllHonest, SettlesHonestly
<1>. QED
  BY <1>2, <1>3, <1>4, <1>5 DEF RunInv

(* A driver goes on to wait for something else.                            *)
LEMMA DriverMoves ==
    ASSUME RunInv, NEW d \in Drivers, driver[d] \in {"post", "retrying"},
           NEW point \in {"retrying", "compacting", "recovering"},
           driver' = [driver EXCEPT ![d] = point],
           UNCHANGED <<active, settling, agentVars, ended>>,
           outcome' \in Outcomes, last' \in Replies \cup {"none"},
           Undisturbed => ended # "aborted" /\ outcome' \in {ended, "compaction-error"}
    PROVE  RunInv' /\ AllHonest
<1>0. driver \in [Drivers -> DriverPoints]
  BY DEF RunInv, RunTypes
<1>1. \A e \in Drivers : driver'[e] = IF e = d THEN point ELSE driver[e]
  BY <1>0
<1>2. RunTypes'
  <2>1. driver' \in [Drivers -> DriverPoints]
    BY <1>0 DEF DriverPoints
  <2>. QED
    BY <2>1 DEF RunInv, RunTypes, agentVars
<1>3. OneDriver'
  <2>. SUFFICES ASSUME ended # "overlap"
                PROVE  /\ \A a, b \in Busy' : a = b
                       /\ active' <=> AtWork'
                       /\ owner' # None => driver'[owner'] = "agent"
    BY DEF OneDriver
  <2>1. Alone(d)
    BY DriverRuns
  <2>2. Busy' \subseteq {d}
    BY <1>1, <2>1 DEF Busy, Alone
  <2>3. AtWork' /\ active'
    BY <1>1, <2>1 DEF AtWork, Working, Alone
  <2>. QED
    BY <2>1, <2>2, <2>3 DEF Alone, agentVars
<1>4. EndIsHeard'
  <2>. SUFFICES ASSUME Undisturbed
                PROVE  phase' = "off" /\ \A e \in Drivers : Follows(e)'
    BY DEF EndIsHeard
  <2>1. Alone(d)
    BY DriverRuns
  <2>2. phase' = "off"
    BY <2>1 DEF Alone, agentVars
  <2>3. \A e \in Drivers : Follows(e)'
    BY <1>1, <2>1 DEF Follows, Alone
  <2>. QED
    BY <2>2, <2>3
<1>5. AllHonest
  BY <1>1 DEF AllHonest, SettlesHonestly
<1>6. hand' # <<>> => phase' = "running"
  BY DEF RunInv, agentVars
<1>. QED
  BY <1>2, <1>3, <1>4, <1>5, <1>6 DEF RunInv

(* A driver settles its run, truthfully unless something was disturbed.    *)
LEMMA DriverSettles ==
    ASSUME RunInv, NEW d \in Drivers, driver[d] \notin {"free", "preflight", "agent", "settling"},
           NEW kind \in Outcomes, Settle(d, kind), StaysDisturbed,
           UNCHANGED agentVars, last' \in Replies \cup {"none"},
           Undisturbed' => IF ended = "aborted"
                           THEN kind = "aborted"
                           ELSE kind \in {ended, "compaction-error"}
    PROVE  RunInv' /\ AllHonest
<1>0. driver \in [Drivers -> DriverPoints]
  BY DEF RunInv, RunTypes
<1>1. /\ \A e \in Drivers : driver'[e] = IF e = d THEN "settling" ELSE driver[e]
      /\ active' = FALSE /\ settling' = TRUE /\ outcome' = kind
  BY <1>0 DEF Settle
<1>2. RunTypes'
  <2>1. driver' \in [Drivers -> DriverPoints]
    BY <1>0 DEF DriverPoints, Settle
  <2>. QED
    BY <1>1, <2>1 DEF RunInv, RunTypes, agentVars
<1>3. OneDriver'
  <2>. SUFFICES ASSUME ended # "overlap"
                PROVE  /\ \A a, b \in Busy' : a = b
                       /\ active' <=> AtWork'
                       /\ owner' # None => driver'[owner'] = "agent"
    BY DEF OneDriver
  <2>1. Alone(d)
    BY DriverRuns
  <2>2. Busy' \subseteq {d}
    BY <1>1, <2>1 DEF Busy, Alone
  <2>3. ~AtWork' /\ ~active'
    BY <1>1, <2>1 DEF AtWork, Working, Alone
  <2>. QED
    BY <2>1, <2>2, <2>3 DEF Alone, agentVars
<1>4. EndIsHeard'
  <2>. SUFFICES ASSUME Undisturbed'
                PROVE  phase' = "off" /\ \A e \in Drivers : Follows(e)'
    BY DEF EndIsHeard
  <2>1. Alone(d)
    BY DriverRuns
  <2>2. phase' = "off"
    BY <2>1 DEF Alone, agentVars
  <2>3. \A e \in Drivers : Follows(e)'
    BY <1>1, <2>1 DEF Follows, Alone
  <2>. QED
    BY <2>2, <2>3
<1>5. AllHonest
  BY <1>1 DEF AllHonest, SettlesHonestly
<1>6. hand' # <<>> => phase' = "running"
  BY DEF RunInv, agentVars
<1>. QED
  BY <1>2, <1>3, <1>4, <1>5, <1>6 DEF RunInv

(* The agent takes up a run of a driver's.                                 *)
LEMMA AgentBegins ==
    ASSUME RunInv, NEW d \in Drivers, owner = None, AgentStarts(d), StaysDisturbed,
           ended' # "overlap" =>
               \A e \in Drivers : e # d => driver[e] \in {"free", "preflight"},
           ended' # "overlap" => active',
           active' \in BOOLEAN, settling' \in BOOLEAN, outcome' \in Outcomes,
           last' \in Replies \cup {"none"}
    PROVE  RunInv' /\ AllHonest
<1>0. driver \in [Drivers -> DriverPoints]
  BY DEF RunInv, RunTypes
<1>1. /\ \A e \in Drivers : driver'[e] = IF e = d THEN "agent" ELSE driver[e]
      /\ owner' = d /\ phase' = "running" /\ agentAborted' = FALSE
  BY <1>0 DEF AgentStarts
<1>2. RunTypes'
  <2>1. driver' \in [Drivers -> DriverPoints]
    BY <1>0 DEF DriverPoints, AgentStarts
  <2>2. d # None
    BY ConstantsAssumption
  <2>. QED
    BY <1>1, <2>1, <2>2 DEF RunInv, RunTypes
<1>3. OneDriver'
  <2>. SUFFICES ASSUME ended' # "overlap"
                PROVE  /\ \A a, b \in Busy' : a = b
                       /\ active' <=> AtWork'
                       /\ owner' # None => driver'[owner'] = "agent"
    BY DEF OneDriver
  <2>2. Busy' \subseteq {d}
    BY <1>1 DEF Busy
  <2>3. AtWork'
    BY <1>1 DEF AtWork, Working
  <2>. QED
    BY <1>1, <2>2, <2>3
<1>4. EndIsHeard'
  <2>. SUFFICES ASSUME Undisturbed' PROVE \A e \in Drivers : Follows(e)'
    BY <1>1 DEF EndIsHeard
  <2>. QED
    BY <1>1 DEF Follows
<1>5. AllHonest
  BY <1>1 DEF AllHonest, SettlesHonestly
<1>. QED
  BY <1>1, <1>2, <1>3, <1>4, <1>5 DEF RunInv

-----------------------------------------------------------------------------
(* The parts of steps.                                                     *)
Truthful(kind) ==
    kind \in Outcomes
    /\ (Undisturbed => ended # "aborted" /\ kind \in {ended, "compaction-error"})

LEMMA ContinueRuns ==
    ASSUME RunInv, NEW d \in Drivers,
           driver[d] \in {"post", "retrying", "compacting", "recovering"},
           NEW kind, Truthful(kind), NEW t, NEW q, Continue(d, kind, t, q),
           last' \in Replies \cup {"none"}
    PROVE  RunInv' /\ AllHonest
<1>1. ASSUME ended # "overlap"
      PROVE  Alone(d) /\ active
  <2>1. Alone(d)
    BY <1>1, DriverRuns
  <2>. QED
    BY <2>1 DEF Alone
<1>2. CASE /\ owner = None /\ AgentStarts(d)
           /\ outcome' = kind /\ UNCHANGED <<active, settling, ended>>
  <2>1. StaysDisturbed /\ active' \in BOOLEAN /\ settling' \in BOOLEAN /\ outcome' \in Outcomes
    BY <1>2 DEF Truthful, RunInv, RunTypes
  <2>2. ended' # "overlap" =>
            active' /\ \A e \in Drivers : e # d => driver[e] \in {"free", "preflight"}
    BY <1>1, <1>2 DEF Alone
  <2>. QED
    BY <1>2, <2>1, <2>2, AgentBegins
<1>3. CASE /\ Settle(d, "error") /\ UNCHANGED agentVars
           /\ ended' = IF owner # None \/ ~Undisturbed THEN ended ELSE "illegal"
  <2>1. StaysDisturbed
    BY <1>3 DEF RunInv, RunTypes, Endings
  <2>2. ~Undisturbed'
    BY <1>1, <1>3 DEF Alone
  <2>3. "error" \in Outcomes
    BY DEF Outcomes
  <2>. QED
    BY <1>3, <2>1, <2>2, <2>3, DriverSettles
<1>. QED
  BY <1>2, <1>3 DEF Continue

LEMMA ConcludeRuns ==
    ASSUME RunInv, NEW d \in Drivers,
           driver[d] \in {"post", "retrying", "compacting", "recovering"},
           NEW kind, Truthful(kind), NEW t, Conclude(d, kind, t),
           last' \in Replies \cup {"none"}
    PROVE  RunInv' /\ AllHonest
<1>1. CASE HasQueuedMessages
  BY <1>1, ContinueRuns DEF Conclude
<1>2. CASE ~HasQueuedMessages
  <2>1. Settle(d, kind) /\ UNCHANGED <<agentVars, ended>>
    BY <1>2 DEF Conclude
  <2>2. StaysDisturbed
    BY <2>1 DEF RunInv, RunTypes
  <2>. QED
    BY <2>1, <2>2, DriverSettles DEF Truthful
<1>. QED
  BY <1>1, <1>2

LEMMA StartRuns ==
    ASSUME RunInv, NEW d \in Drivers, driver[d] \in {"free", "preflight", "settling"},
           NEW fromUser, StartRun(d, fromUser), settling' \in BOOLEAN,
           last' = last
    PROVE  RunInv' /\ AllHonest
<1>1. StaysDisturbed /\ active' = TRUE /\ outcome' = "success" /\ outcome' \in Outcomes
  BY DEF StartRun, RunInv, RunTypes, Outcomes, Endings
<1>2. last' \in Replies \cup {"none"}
  BY DEF RunInv, RunTypes
<1>3. ended' # "overlap" => ended # "overlap" /\ Busy \ {d} = {}
  BY DEF StartRun
<1>4. ended' # "overlap" => \A e \in Drivers : e # d => driver[e] \in {"free", "preflight"}
  BY <1>3 DEF Busy
<1>5. CASE owner = None
  <2>1. AgentStarts(d)
    BY <1>5 DEF StartRun
  <2>. QED
    BY <1>1, <1>2, <1>4, <1>5, <2>1, AgentBegins
<1>6. CASE owner # None
  <2>1. driver' = [driver EXCEPT ![d] = "refused"] /\ UNCHANGED agentVars
    BY <1>6 DEF StartRun
  <2>2. ended' = "overlap"
    <3>1. phase # "off"
      BY <1>6 DEF RunInv, RunTypes
    <3>2. owner \in Drivers /\ (ended # "overlap" => driver[owner] = "agent")
      BY <3>1, AgentRuns
    <3>3. ended # "overlap" => owner \in Busy \ {d}
      BY <3>2 DEF Busy
    <3>. QED
      BY <1>3, <3>3
  <2>3. /\ driver' \in [Drivers -> DriverPoints]
        /\ \A e \in Drivers : driver'[e] # "settling" \/ driver[e] = "settling"
    BY <2>1 DEF RunInv, RunTypes, DriverPoints
  <2>4. RunTypes'
    BY <1>1, <1>2, <2>1, <2>3 DEF RunInv, RunTypes, agentVars
  <2>5. OneDriver' /\ EndIsHeard' /\ AllHonest
    BY <2>2, <2>3 DEF OneDriver, EndIsHeard, AllHonest, SettlesHonestly
  <2>6. hand' # <<>> => phase' = "running"
    BY <2>1 DEF RunInv, agentVars
  <2>. QED
    BY <2>4, <2>5, <2>6 DEF RunInv
<1>. QED
  BY <1>5, <1>6

(* A driver that is not past its preflight, before the step or after it.   *)
LEMMA CallerMoves ==
    ASSUME RunInv, NEW d \in Drivers, NEW point \in {"free", "preflight"},
           driver' = [driver EXCEPT ![d] = point], driver[d] \in {"free", "preflight", "settling"},
           UNCHANGED <<agentVars, last, ended, active, outcome>>, settling' \in BOOLEAN
    PROVE  RunInv' /\ AllHonest
<1>0. driver \in [Drivers -> DriverPoints]
  BY DEF RunInv, RunTypes
<1>1. \A e \in Drivers : driver'[e] = IF e = d THEN point ELSE driver[e]
  BY <1>0
<1>2. RunTypes'
  <2>1. driver' \in [Drivers -> DriverPoints]
    BY <1>0 DEF DriverPoints
  <2>. QED
    BY <2>1 DEF RunInv, RunTypes, agentVars
<1>3. OneDriver'
  <2>. SUFFICES ASSUME ended # "overlap"
                PROVE  /\ \A a, b \in Busy' : a = b
                       /\ active' <=> AtWork'
                       /\ owner' # None => driver'[owner'] = "agent"
    BY DEF OneDriver
  <2>1. /\ \A a, b \in Busy : a = b
        /\ active <=> AtWork
        /\ owner # None => driver[owner] = "agent"
    BY DEF RunInv, OneDriver
  <2>2. Busy' \subseteq Busy
    BY <1>1 DEF Busy
  <2>3. AtWork' <=> AtWork
    BY <1>1 DEF AtWork, Working
  <2>4. owner # None => owner \in Drivers /\ owner # d
    BY <2>1 DEF RunInv, RunTypes
  <2>. QED
    BY <1>1, <2>1, <2>2, <2>3, <2>4 DEF agentVars
<1>4. EndIsHeard'
  BY <1>1 DEF RunInv, EndIsHeard, Follows, agentVars
<1>5. AllHonest
  BY <1>1 DEF AllHonest, SettlesHonestly
<1>6. hand' # <<>> => phase' = "running"
  BY DEF RunInv, agentVars
<1>. QED
  BY <1>2, <1>3, <1>4, <1>5, <1>6 DEF RunInv

(* Steps that leave drivers and runs where they are.                       *)
LEMMA RunStays ==
    ASSUME RunInv, UNCHANGED <<driver, owner, phase, hand, last, ended, active>>,
           outcome' \in {outcome, "compaction-error"},
           settling' \in BOOLEAN, agentAborted' \in BOOLEAN
    PROVE  RunInv' /\ AllHonest
<1>1. RunTypes'
  BY DEF RunInv, RunTypes, Outcomes
<1>2. OneDriver'
  BY DEF RunInv, OneDriver, Busy, AtWork
<1>3. EndIsHeard'
  BY DEF RunInv, EndIsHeard, Follows
<1>4. AllHonest
  BY DEF AllHonest, SettlesHonestly
<1>. QED
  BY <1>1, <1>2, <1>3, <1>4 DEF RunInv

-----------------------------------------------------------------------------
(* Every step keeps what is known of drivers and runs, and settles         *)
(* truthfully.                                                             *)
LEMMA AgentStepsRun ==
    ASSUME RunInv, AgentSteps
    PROVE  RunInv' /\ AllHonest
<1> USE DEF agentVars, logVars, settleVars, historyVars, retryVars, waitVars
<1>t. /\ phase \in {"off", "running", "ending", "failing"}
      /\ last \in Replies \cup {"none"} /\ ended \in Endings
      /\ hand # <<>> => phase = "running"
  BY DEF RunInv, RunTypes
<1>1. CASE AgentTurn
  <2>1. last' \in Replies \cup {"none"}
    BY <1>1, <1>t DEF AgentTurn, Hear, Replies
  <2>2. phase = "running" /\ hand = <<>> /\ ended' = ended
    BY <1>1 DEF AgentTurn, Running
  <2>. QED
    BY <1>1, <1>t, <2>1, <2>2, AgentKeeps DEF AgentTurn
<1>2. CASE AgentEmits
  <2>1. phase = "running" /\ hand' = <<>> /\ ended' = ended
    BY <1>2 DEF AgentEmits
  <2>. QED
    BY <1>2, <1>t, <2>1, AgentKeeps DEF AgentEmits
<1>3. CASE AgentRejects
  <2>1. ended' = (IF Undisturbed THEN "error" ELSE ended) /\ StaysDisturbed
    BY <1>3, <1>t DEF AgentRejects, Endings
  <2>. QED
    BY <1>3, <1>t, <2>1, AgentStops DEF AgentRejects
<1>4. ASSUME NEW lane \in Lanes, AgentTakes(lane)
      PROVE  RunInv' /\ AllHonest
  <2>1. phase = "running" /\ ended' = ended
    BY <1>4 DEF AgentTakes, Running
  <2>. QED
    BY <1>4, <1>t, <2>1, AgentKeeps DEF AgentTakes
<1>5. ASSUME NEW reply \in Replies, Hear(reply), LogReply(reply)
      PROVE  /\ last' \in Replies \cup {"none"} /\ StaysDisturbed
             /\ Undisturbed' => last' \in Replies /\ Ending(last') = ended'
  <2>1. Ending(reply) \in {"success", "error", "aborted"}
    BY DEF Ending, KindOf
  <2>2. ended' = IF ~Undisturbed THEN ended ELSE IF connected THEN Ending(reply) ELSE "deaf"
    BY <1>5 DEF LogReply
  <2>3. last' = IF connected THEN reply ELSE last
    BY <1>5 DEF Hear
  <2>. QED
    BY <1>5, <1>t, <2>1, <2>2, <2>3 DEF Endings
<1>6. ASSUME NEW reply \in Replies, AgentReply(reply)
      PROVE  RunInv' /\ AllHonest
  <2>1. phase = "running" /\ hand' = <<>> /\ Hear(reply) /\ LogReply(reply)
    BY <1>6 DEF AgentReply, Running
  <2>. QED
    BY <1>6, <1>5, <2>1, AgentKeeps DEF AgentReply
<1>7. ASSUME NEW reply \in Replies, AgentThrows(reply)
      PROVE  RunInv' /\ AllHonest
  <2>1. phase # "off" /\ hand' = <<>> /\ Hear(reply) /\ LogReply(reply)
    BY <1>7 DEF AgentThrows
  <2>. QED
    BY <1>7, <1>5, <2>1, AgentKeeps DEF AgentThrows
<1>8. ASSUME NEW d \in Drivers, AgentFinishes(d)
      PROVE  RunInv' /\ AllHonest
  <2>1. owner = d /\ phase \in {"ending", "failing"} /\ hand' = <<>> /\ ended' = ended
    BY <1>8, <1>t DEF AgentFinishes
  <2>2. Undisturbed => last \in Replies /\ Ending(last) = ended
    BY <2>1 DEF RunInv, EndIsHeard
  <2>. QED
    BY <1>8, <1>t, <2>1, <2>2, AgentStops DEF AgentFinishes
<1>. QED
  BY <1>1, <1>2, <1>3, <1>4, <1>6, <1>7, <1>8 DEF AgentSteps

LEMMA DriverStepsRun ==
    ASSUME RunInv, NEW d \in Drivers, DriverSteps(d)
    PROVE  RunInv' /\ AllHonest
<1> USE DEF agentVars, logVars, settleVars, historyVars, retryVars, waitVars
<1>t. /\ last \in Replies \cup {"none"} /\ ended \in Endings
      /\ outcome \in Outcomes /\ settling \in BOOLEAN
  BY DEF RunInv, RunTypes
<1>o. /\ \A reply \in Replies : KindOf(reply) \in {"error", "success"}
      /\ {"error", "success", "aborted", "compaction-error"} \subseteq Outcomes
  BY DEF KindOf, Outcomes
<1>p. ASSUME driver[d] = "post", Undisturbed PROVE last \in Replies /\ Ending(last) = ended
  BY <1>p DEF RunInv, EndIsHeard, Follows
<1>c. ASSUME driver[d] \in {"retrying", "compacting", "recovering"} PROVE Truthful(outcome)
  BY <1>c, <1>t DEF RunInv, EndIsHeard, Follows, Truthful
<1>r. ASSUME PastRetry(d) PROVE driver[d] = "post" /\ Truthful(KindOf(last)) /\ last \in Replies
  <2>1. driver[d] = "post" /\ last \in Replies /\ last # "aborted"
    BY <1>r DEF PastRetry, Replies, Overflows
  <2>2. Ending(last) = KindOf(last) /\ KindOf(last) # "aborted"
    BY <2>1, <1>o DEF Ending
  <2>. QED
    BY <2>1, <2>2, <1>o, <1>p DEF Truthful
<1>1. CASE PostSettles(d)
  <2>1. /\ driver[d] = "post" /\ last \in {"none", "aborted"} /\ last' = "none"
        /\ Settle(d, IF last = "aborted" THEN "aborted" ELSE outcome) 
        /\ UNCHANGED <<agentVars, ended>>
    BY <1>1 DEF PostSettles
  <2>2. StaysDisturbed
    BY <2>1 DEF RunInv, RunTypes
  <2>3. CASE last = "aborted"
    <3>1. Settle(d, "aborted")
      BY <2>1, <2>3
    <3>2. Undisturbed => ended = "aborted"
      BY <2>1, <2>3, <1>p DEF Ending
    <3>. QED
      BY <2>1, <2>2, <3>1, <3>2, <1>o, DriverSettles
  <2>4. CASE last = "none"
    <3>1. Settle(d, outcome)
      BY <2>1, <2>4
    <3>2. ~Undisturbed
      BY <2>1, <2>4, <1>p, <1>t DEF Replies
    <3>. QED
      BY <2>1, <2>2, <3>1, <3>2, <1>t, DriverSettles
  <2>. QED
    BY <2>1, <2>3, <2>4
<1>2. CASE PostRetries(d)
  <2>1. /\ driver[d] = "post" /\ last = "retryable" /\ last' = "none" /\ outcome' = "error"
        /\ driver' = [driver EXCEPT ![d] = "retrying"]
        /\ UNCHANGED <<active, settling, agentVars, ended>>
    BY <1>2 DEF PostRetries
  <2>2. Ending("retryable") = "error"
    BY DEF Ending, KindOf, ErrorReplies
  <2>. QED
    BY <2>1, <2>2, <1>o, <1>p, DriverMoves
<1>3. CASE PostRecovers(d)
  <2>1. /\ PastRetry(d) /\ last' = "none" /\ outcome' = KindOf(last)
        /\ driver' = [driver EXCEPT ![d] = "recovering"]
        /\ UNCHANGED <<active, settling, agentVars, ended>>
    BY <1>3 DEF PostRecovers
  <2>. QED
    BY <2>1, <1>r, DriverMoves DEF Truthful
<1>4. CASE PostCompacts(d)
  <2>1. /\ PastRetry(d) /\ last' = "none" /\ outcome' = KindOf(last)
        /\ driver' = [driver EXCEPT ![d] = "compacting"]
        /\ UNCHANGED <<active, settling, agentVars, ended>>
    BY <1>4 DEF PostCompacts
  <2>. QED
    BY <2>1, <1>r, DriverMoves DEF Truthful
<1>5. CASE PostConcludes(d)
  <2>1. PastRetry(d) /\ last' = "none" /\ Conclude(d, KindOf(last), tail)
    BY <1>5 DEF PostConcludes
  <2>. QED
    BY <2>1, <1>r, ConcludeRuns
<1>6. CASE RetryWakes(d)
  <2>1. /\ driver[d] = "retrying" /\ last' = last
        /\ Continue(d, outcome, tail, queue)
    BY <1>6 DEF RetryWakes
  <2>. QED
    BY <2>1, <1>c, <1>t, ContinueRuns
<1>7. CASE RetryCancelled(d)
  <2>1. driver[d] = "retrying" /\ last' = last
    BY <1>7 DEF RetryCancelled
  <2>2. CASE Conclude(d, outcome, tail)
    BY <2>1, <2>2, <1>c, <1>t, ConcludeRuns
  <2>3. CASE /\ driver' = [driver EXCEPT ![d] = "compacting"]
             /\ UNCHANGED <<active, settling, outcome, agentVars, queue, tail, ended>>
    BY <2>1, <2>3, <1>c, <1>t, DriverMoves DEF Truthful
  <2>. QED
    BY <1>7, <2>2, <2>3 DEF RetryCancelled
<1>8. CASE CompactionRetries(d)
  <2>1. /\ driver[d] = "recovering" /\ last' = last
        /\ Continue(d, outcome, WithoutError, queue)
    BY <1>8 DEF CompactionRetries
  <2>. QED
    BY <2>1, <1>c, <1>t, ContinueRuns
<1>9. CASE CompactionContinues(d)
  <2>1. /\ driver[d] = "compacting" /\ last' = last
        /\ Continue(d, outcome, Reread, Queued("followUp", 0, FALSE))
    BY <1>9 DEF CompactionContinues
  <2>. QED
    BY <2>1, <1>c, <1>t, ContinueRuns
<1>10. CASE CompactionConcludes(d)
  <2>1. /\ driver[d] = "compacting" /\ last' = last
        /\ Conclude(d, outcome, Reread)
    BY <1>10 DEF CompactionConcludes
  <2>. QED
    BY <2>1, <1>c, <1>t, ConcludeRuns
<1>11. CASE CompactionStops(d)
  <2>1. driver[d] \in {"compacting", "recovering"} /\ last' = last
    BY <1>11 DEF CompactionStops
  <2>2. PICK kind \in {outcome, "compaction-error"} : Conclude(d, kind, tail)
    BY <1>11 DEF CompactionStops
  <2>3. Truthful(kind)
    BY <2>1, <1>c, <1>o DEF Truthful
  <2>. QED
    BY <2>1, <2>2, <2>3, <1>t, ConcludeRuns
<1>12. CASE RefusedSettles(d)
  <2>1. /\ driver[d] = "refused" /\ Settle(d, "error") /\ last' = last
        /\ UNCHANGED <<agentVars, ended>>
    BY <1>12 DEF RefusedSettles
  <2>2. StaysDisturbed
    BY <2>1 DEF RunInv, RunTypes
  <2>3. Undisturbed => ended = "error"
    BY <2>1 DEF RunInv, EndIsHeard, Follows
  <2>. QED
    BY <2>1, <2>2, <2>3, <1>o, <1>t, DriverSettles
<1>13. CASE FinishSettle(d)
  <2>1. driver[d] = "settling" /\ settling' = FALSE /\ last' = last
    BY <1>13 DEF FinishSettle
  <2>2. CASE StartRun(d, FALSE)
    BY <2>1, <2>2, StartRuns
  <2>3. CASE /\ driver' = [driver EXCEPT ![d] = "free"]
             /\ UNCHANGED <<active, outcome, budget, ended, agentVars>>
    BY <2>1, <2>3, CallerMoves
  <2>. QED
    BY <1>13, <2>2, <2>3 DEF FinishSettle
<1>14. CASE PreflightFails(d)
  BY <1>14, <1>t, CallerMoves DEF PreflightFails
<1>15. CASE StartPrompt(d)
  BY <1>15, <1>t, StartRuns DEF StartPrompt
<1>. QED
  BY <1>1, <1>2, <1>3, <1>4, <1>5, <1>6, <1>7, <1>8, <1>9, <1>10, <1>11, <1>12, <1>13, <1>14, <1>15
     DEF DriverSteps

LEMMA CallersRun ==
    ASSUME RunInv, Callers
    PROVE  RunInv' /\ AllHonest
<1> USE DEF agentVars, logVars, settleVars, historyVars, retryVars, waitVars
<1>t. settling \in BOOLEAN /\ agentAborted \in BOOLEAN
  BY DEF RunInv, RunTypes
<1>1. ASSUME NEW d \in Drivers, Prompt(d)
      PROVE  RunInv' /\ AllHonest
  BY <1>1, <1>t, CallerMoves DEF Prompt
<1>2. ASSUME NEW d \in Drivers, PreflightCompacts(d)
      PROVE  RunInv' /\ AllHonest
  BY <1>2, <1>t, RunStays DEF PreflightCompacts
<1>3. ASSUME NEW d \in Drivers, SendCustomMessage(d)
      PROVE  RunInv' /\ AllHonest
  BY <1>3, <1>t, StartRuns DEF SendCustomMessage
<1>4. ASSUME NEW lane \in Lanes, NEW user \in BOOLEAN, Enqueue(lane, user)
      PROVE  RunInv' /\ AllHonest
  BY <1>4, <1>t, RunStays DEF Enqueue
<1>5. ASSUME NEW lane \in Lanes, NEW i \in DOMAIN queue[lane], RemoveQueuedMessage(lane, i)
      PROVE  RunInv' /\ AllHonest
  BY <1>5, <1>t, RunStays DEF RemoveQueuedMessage
<1>6. ASSUME NEW lanes, ClearQueue(lanes)
      PROVE  RunInv' /\ AllHonest
  BY <1>6, <1>t, RunStays DEF ClearQueue
<1>7. CASE NoteCustomMessage
  BY <1>7, <1>t, RunStays DEF NoteCustomMessage
<1>8. CASE RequestContinuation
  BY <1>8, <1>t, RunStays DEF RequestContinuation
<1>9. CASE Abort
  <2>1. agentAborted' \in BOOLEAN
    BY <1>9, <1>t DEF Abort, Interrupt
  <2>. QED
    BY <1>9, <1>t, <2>1, RunStays DEF Abort
<1>10. CASE CompactManually
  <2>1. agentAborted' \in BOOLEAN
    BY <1>10, <1>t DEF CompactManually, Interrupt
  <2>. QED
    BY <1>10, <1>t, <2>1, RunStays DEF CompactManually
<1>11. CASE ManualCompactionEnds
  BY <1>11, <1>t, RunStays DEF ManualCompactionEnds
<1>. QED
  BY <1>1, <1>2, <1>3, <1>4, <1>5, <1>6, <1>7, <1>8, <1>9, <1>10, <1>11 DEF Callers

LEMMA RunStep ==
    ASSUME RunInv, [Next]_vars
    PROVE  RunInv' /\ AllHonest
<1>1. CASE UNCHANGED vars
  <2>1. UNCHANGED <<driver, owner, phase, hand, last, ended, active, outcome, settling,
                    agentAborted>>
    BY <1>1 DEF vars, agentVars, logVars, settleVars, historyVars
  <2>. QED
    BY <2>1, RunStays DEF RunInv, RunTypes
<1>. QED
  BY <1>1, AgentStepsRun, DriverStepsRun, CallersRun DEF Next

-----------------------------------------------------------------------------
(* Every step keeps messages where they are known to be.                   *)
LEMMA ContinueMirror ==
    ASSUME RunInv, NEW d \in Drivers, NEW kind, NEW t, NEW q, Continue(d, kind, t, q), NEW n,
           MirrorSound(q, mirror, hand, unseen, mistaken, n)
    PROVE  MirrorSound(queue', mirror, hand', unseen, mistaken, n)
<1>. DEFINE lane == IF q["steer"] # <<>> THEN "steer" ELSE "followUp"
<1>1. CASE queue' = q /\ UNCHANGED agentVars
  BY <1>1 DEF agentVars
<1>2. CASE /\ owner = None /\ (t = 0 \/ q[lane] # <<>>)
           /\ IF t = 0
              THEN queue' = q /\ hand' = <<>>
              ELSE queue' = [q EXCEPT ![lane] = Tail(@)] /\ hand' = <<Head(q[lane])>>
  <2>1. hand = <<>>
    BY <1>2 DEF RunInv, RunTypes
  <2>2. lane \in Lanes
    BY DEF Lanes
  <2>. HIDE DEF lane
  <2>. QED
    BY <1>2, <2>1, <2>2, Taken
<1>. QED
  BY <1>1, <1>2 DEF Continue

LEMMA ConcludeMirror ==
    ASSUME RunInv, MirrorInv, NEW d \in Drivers, NEW kind, NEW t, Conclude(d, kind, t),
           UNCHANGED <<mirror, unseen, mistaken, issued>>
    PROVE  MirrorInv'
<1>1. CASE HasQueuedMessages
  <2>1. Continue(d, kind, t, queue)
    BY <1>1 DEF Conclude
  <2>. QED
    BY <2>1, ContinueMirror DEF MirrorInv
<1>2. CASE ~HasQueuedMessages
  BY <1>2 DEF Conclude, MirrorInv, agentVars
<1>. QED
  BY <1>1, <1>2

(* A step deals one id, or none.                                           *)
Deals == issued' = issued \/ (issued < MaxInputs /\ issued' = issued + 1)

LEMMA StartMirror ==
    ASSUME RunInv, MirrorInv, NEW d \in Drivers, NEW fromUser \in BOOLEAN, StartRun(d, fromUser),
           UNCHANGED <<queue, mirror, unseen, mistaken>>, Deals
    PROVE  MirrorInv'
<1>1. MirrorSound(queue, mirror, hand, unseen, mistaken, issued')
  BY Dealt DEF MirrorInv, Deals
<1>2. CASE owner = None
  <2>1. hand = <<>> /\ hand' = <<[id |-> 0, lane |-> "steer", user |-> fromUser]>>
    BY <1>2 DEF RunInv, RunTypes, StartRun
  <2>2. [id |-> 0, lane |-> "steer", user |-> fromUser] \in Item
    BY ConstantsAssumption DEF Item, Lanes
  <2>. QED
    BY <1>1, <2>1, <2>2, Prompted DEF MirrorInv
<1>3. CASE owner # None
  <2>1. hand' = hand
    BY <1>3 DEF StartRun, agentVars
  <2>. QED
    BY <1>1, <2>1 DEF MirrorInv
<1>. QED
  BY <1>2, <1>3

(* A message a run queues for itself is not on the session's list.         *)
LEMMA QueuedMirror ==
    ASSUME MirrorInv, SpendBudget, NEW lane \in Lanes
    PROVE  MirrorSound(Queued(lane, 0, FALSE), mirror, hand, unseen, mistaken, issued)
BY Resumed DEF MirrorInv, Queued, SpendBudget, HasQueuedMessages

LEMMA AgentStepsMirror ==
    ASSUME RunInv, MirrorInv, AgentSteps
    PROVE  MirrorInv'
<1> USE DEF agentVars, logVars, settleVars, historyVars, retryVars, waitVars
<1>h. ASSUME hand # <<>>
      PROVE  hand = <<Head(hand)>>
  <2>1. hand \in Seq(Item) /\ Len(hand) <= 1
    BY DEF MirrorInv, MirrorSound, HandSound
  <2>2. Len(hand) = 1
    <3>1. Len(hand) \in Nat /\ Len(hand) # 0
      BY <1>h, <2>1, EmptySeq
    <3>2. Len(hand) <= 1
      BY <2>1
    <3>3. \A k \in Nat : k # 0 /\ k <= 1 => k = 1
      OBVIOUS
    <3>. QED
      BY <3>1, <3>2, <3>3
  <2>. QED
    BY <2>1, <2>2
<1>1. CASE AgentTurn
  BY <1>1 DEF AgentTurn, MirrorInv
<1>2. CASE AgentEmits
  <2>. DEFINE m == Head(hand)
  <2>1. hand = <<m>> /\ hand' = <<>> /\ queue' = queue /\ issued' = issued
    BY <1>2, <1>h DEF AgentEmits
  <2>. HIDE DEF m
  <2>2. MirrorSound(queue, mirror, <<m>>, unseen, mistaken, issued) /\ InHand = Ids(<<m>>)
    BY <2>1 DEF MirrorInv, InHand, Ids
  <2>3. CASE ~connected
    <3>1. unseen' = unseen \cup Ids(<<m>>) /\ mirror' = mirror /\ mistaken' = mistaken
      BY <1>2, <2>2, <2>3 DEF AgentEmits
    <3>. QED
      BY <2>1, <2>2, <3>1, Lost DEF MirrorInv
  <2>4. CASE connected
    <3>0. unseen' = unseen
      BY <1>2, <2>4 DEF AgentEmits
    <3>1. \/ TakesOff(m.lane, m.id) /\ mistaken' = mistaken
          \/ m.id = 0 /\ TakesOffByText
          \/ /\ ~\E j \in DOMAIN mirror[m.lane] : mirror[m.lane][j] = m.id
             /\ UNCHANGED <<mirror, mistaken>>
      BY <1>2, <2>4 DEF AgentEmits, m
    <3>2. CASE m.id = 0 /\ TakesOffByText
      <4>0. PICK lane \in Lanes :
                \E j \in DOMAIN mirror[lane] :
                    /\ mirror' = [mirror EXCEPT ![lane] = RemoveAt(@, j)]
                    /\ mistaken' = mistaken \cup {mirror[lane][j]}
        BY <3>2 DEF TakesOffByText
      <4>1. PICK j \in DOMAIN mirror[lane] :
                /\ mirror' = [mirror EXCEPT ![lane] = RemoveAt(@, j)]
                /\ mistaken' = mistaken \cup {mirror[lane][j]}
        BY <4>0
      <4>2. MirrorSound(queue, mirror', <<>>, unseen, mistaken', issued)
        BY <2>2, <3>2, <4>1, Mistaken
      <4>. QED
        BY <2>1, <3>0, <4>2 DEF MirrorInv
    <3>3. CASE mistaken' = mistaken /\ ~(m.id = 0 /\ TakesOffByText)
      <4>1. \/ m.id \notin Listed(mirror[m.lane]) /\ mirror' = mirror
            \/ \E j \in DOMAIN mirror[m.lane] :
                  mirror[m.lane][j] = m.id /\ mirror' = [mirror EXCEPT ![m.lane] = RemoveAt(@, j)]
        BY <3>1, <3>3 DEF TakesOff, Listed
      <4>2. MirrorSound(queue, mirror', <<>>, unseen, mistaken, issued)
        BY <2>2, <4>1, Emitted
      <4>. QED
        BY <2>1, <3>0, <3>3, <4>2 DEF MirrorInv
    <3>. QED
      BY <3>1, <3>2, <3>3
  <2>. QED
    BY <2>3, <2>4
<1>3. ASSUME unseen' = unseen \cup InHand, hand' = <<>>,
             UNCHANGED <<queue, mirror, mistaken, issued>>
      PROVE  MirrorInv'
  <2>1. unseen' = unseen \cup Ids(hand)
    BY <1>3 DEF Ids, InHand
  <2>. QED
    BY <1>3, <2>1, Lost DEF MirrorInv
<1>4. CASE AgentRejects
  BY <1>4, <1>3 DEF AgentRejects
<1>5. ASSUME NEW lane \in Lanes, AgentTakes(lane)
      PROVE  MirrorInv'
  <2>1. /\ hand = <<>> /\ queue[lane] # <<>> /\ hand' = <<Head(queue[lane])>>
        /\ queue' = [queue EXCEPT ![lane] = Tail(@)] /\ UNCHANGED <<mirror, unseen, mistaken, issued>>
    BY <1>5 DEF AgentTakes, Running
  <2>. QED
    BY <2>1, Taken DEF MirrorInv
<1>6. ASSUME NEW reply \in Replies, AgentReply(reply)
      PROVE  MirrorInv'
  BY <1>6 DEF AgentReply, MirrorInv
<1>7. ASSUME NEW reply \in Replies, AgentThrows(reply)
      PROVE  MirrorInv'
  BY <1>7, <1>3 DEF AgentThrows
<1>8. ASSUME NEW d \in Drivers, AgentFinishes(d)
      PROVE  MirrorInv'
  BY <1>8 DEF AgentFinishes, MirrorInv
<1>. QED
  BY <1>1, <1>2, <1>4, <1>5, <1>6, <1>7, <1>8 DEF AgentSteps

LEMMA DriverStepsMirror ==
    ASSUME RunInv, MirrorInv, NEW d \in Drivers, DriverSteps(d)
    PROVE  MirrorInv'
<1> USE DEF agentVars, logVars, settleVars, historyVars, retryVars, waitVars
<1>1. ASSUME UNCHANGED <<queue, mirror, hand, unseen, mistaken, issued>>
      PROVE  MirrorInv'
  BY <1>1 DEF MirrorInv
<1>2. ASSUME NEW kind, NEW t, Conclude(d, kind, t), UNCHANGED <<mirror, unseen, mistaken, issued>>
      PROVE  MirrorInv'
  BY <1>2, ConcludeMirror
<1>3. ASSUME NEW kind, NEW t, Continue(d, kind, t, queue), UNCHANGED <<mirror, unseen, mistaken, issued>>
      PROVE  MirrorInv'
  BY <1>3, ContinueMirror DEF MirrorInv
<1>4. CASE PostSettles(d) \/ PostRetries(d) \/ PostRecovers(d) \/ PostCompacts(d)
           \/ RefusedSettles(d) \/ PreflightFails(d)
  BY <1>1, <1>4 DEF PostSettles, PostRetries, PostRecovers, PostCompacts, RefusedSettles,
                    PreflightFails
<1>5. CASE PostConcludes(d)
  BY <1>2, <1>5 DEF PostConcludes
<1>6. CASE RetryWakes(d)
  BY <1>3, <1>6 DEF RetryWakes
<1>7. CASE RetryCancelled(d)
  BY <1>1, <1>2, <1>7 DEF RetryCancelled
<1>8. CASE CompactionRetries(d)
  BY <1>3, <1>8 DEF CompactionRetries
<1>9. CASE CompactionContinues(d)
  <2>1. /\ Continue(d, outcome, Reread, Queued("followUp", 0, FALSE)) /\ SpendBudget
        /\ UNCHANGED <<mirror, unseen, mistaken, issued>>
    BY <1>9 DEF CompactionContinues
  <2>2. MirrorSound(Queued("followUp", 0, FALSE), mirror, hand, unseen, mistaken, issued)
    BY <2>1, QueuedMirror DEF Lanes
  <2>. QED
    BY <2>1, <2>2, ContinueMirror DEF MirrorInv
<1>10. CASE CompactionConcludes(d)
  BY <1>2, <1>10 DEF CompactionConcludes
<1>11. CASE CompactionStops(d)
  BY <1>2, <1>11 DEF CompactionStops
<1>12. CASE FinishSettle(d)
  <2>1. UNCHANGED <<queue, mirror, unseen, mistaken, issued>> /\ (StartRun(d, FALSE) \/ hand' = hand)
    BY <1>12 DEF FinishSettle
  <2>. QED
    BY <1>1, <2>1, StartMirror DEF Deals
<1>13. CASE StartPrompt(d)
  BY <1>13, StartMirror DEF StartPrompt, Deals
<1>. QED
  BY <1>4, <1>5, <1>6, <1>7, <1>8, <1>9, <1>10, <1>11, <1>12, <1>13 DEF DriverSteps

LEMMA CallersMirror ==
    ASSUME RunInv, MirrorInv, Callers
    PROVE  MirrorInv'
<1> USE DEF agentVars, logVars, settleVars, historyVars, retryVars, waitVars
<1>u. ASSUME UNCHANGED <<queue, mirror, hand, unseen, mistaken>>, Deals
      PROVE  MirrorInv'
  BY <1>u, Dealt DEF MirrorInv, Deals
<1>1. ASSUME NEW d \in Drivers, Prompt(d)
      PROVE  MirrorInv'
  BY <1>u, <1>1 DEF Prompt, Deals
<1>2. ASSUME NEW d \in Drivers, PreflightCompacts(d)
      PROVE  MirrorInv'
  <2>1. UNCHANGED <<mirror, hand, unseen, mistaken, issued>>
    BY <1>2 DEF PreflightCompacts
  <2>2. CASE UNCHANGED queue
    BY <1>u, <2>1, <2>2 DEF Deals
  <2>3. CASE SpendBudget /\ queue' = Queued("followUp", 0, FALSE)
    <3>1. MirrorSound(Queued("followUp", 0, FALSE), mirror, hand, unseen, mistaken, issued)
      BY <2>3, QueuedMirror DEF Lanes
    <3>. QED
      BY <2>1, <2>3, <3>1 DEF MirrorInv
  <2>. QED
    BY <1>2, <2>2, <2>3 DEF PreflightCompacts
<1>3. ASSUME NEW d \in Drivers, SendCustomMessage(d)
      PROVE  MirrorInv'
  BY <1>3, StartMirror DEF SendCustomMessage, Deals
<1>4. ASSUME NEW lane \in Lanes, NEW user \in BOOLEAN, Enqueue(lane, user)
      PROVE  MirrorInv'
  <2>1. /\ issued < MaxInputs /\ issued' = issued + 1 /\ UNCHANGED <<hand, unseen, mistaken>>
        /\ queue' = [queue EXCEPT ![lane] =
                        Append(@, [id |-> issued + 1, lane |-> lane, user |-> user])]
        /\ mirror' = IF user THEN [mirror EXCEPT ![lane] = Append(@, issued + 1)] ELSE mirror
    BY <1>4 DEF Enqueue, Queued
  <2>. QED
    BY <2>1, Asked DEF MirrorInv
<1>5. ASSUME NEW lane \in Lanes, NEW i \in DOMAIN queue[lane], RemoveQueuedMessage(lane, i)
      PROVE  MirrorInv'
  <2>1. /\ queue' = [queue EXCEPT ![lane] = RemoveAt(@, i)]
        /\ UNCHANGED <<hand, unseen, mistaken, issued>>
        /\ TakesOff(lane, queue[lane][i].id)
    BY <1>5 DEF RemoveQueuedMessage
  <2>2. PICK j \in DOMAIN mirror[lane] :
            /\ mirror[lane][j] = queue[lane][i].id
            /\ mirror' = [mirror EXCEPT ![lane] = RemoveAt(@, j)]
    BY <2>1 DEF TakesOff
  <2>3. MirrorSound([queue EXCEPT ![lane] = RemoveAt(@, i)],
                    [mirror EXCEPT ![lane] = RemoveAt(@, j)], hand, unseen, mistaken, issued)
    BY <2>2, Withdrawn DEF MirrorInv
  <2>. QED
    BY <2>1, <2>2, <2>3 DEF MirrorInv
<1>6. ASSUME NEW lanes, ClearQueue(lanes)
      PROVE  MirrorInv'
  BY <1>6, Cleared DEF ClearQueue, MirrorInv
<1>7. CASE NoteCustomMessage
  BY <1>u, <1>7 DEF NoteCustomMessage, Deals
<1>8. CASE RequestContinuation
  BY <1>u, <1>8 DEF RequestContinuation, Deals
<1>9. CASE Abort
  BY <1>u, <1>9 DEF Abort, Deals
<1>10. CASE CompactManually
  BY <1>u, <1>10 DEF CompactManually, Deals
<1>11. CASE ManualCompactionEnds
  BY <1>u, <1>11 DEF ManualCompactionEnds, Deals
<1>. QED
  BY <1>1, <1>2, <1>3, <1>4, <1>5, <1>6, <1>7, <1>8, <1>9, <1>10, <1>11 DEF Callers

LEMMA MirrorStep ==
    ASSUME RunInv, MirrorInv, [Next]_vars
    PROVE  MirrorInv'
<1>1. CASE UNCHANGED vars
  BY <1>1 DEF vars, agentVars, historyVars, MirrorInv
<1>. QED
  BY <1>1, AgentStepsMirror, DriverStepsMirror, CallersMirror DEF Next

-----------------------------------------------------------------------------
(* Every step keeps the remaining types.                                   *)
Log == {t \in Seq({"answer", "error"}) : Len(t) <= MaxTail}

LEMMA TailTypes ==
    ASSUME OtherTypes
    PROVE  /\ MaxTail \in Nat /\ tail \in 0..MaxTail /\ fileTail \in Log
           /\ {Sliced(tail), Reread, WithoutError} \subseteq 0..MaxTail
<1>1. MaxTail \in Nat /\ tail \in 0..MaxTail /\ fileTail \in Log
  BY ConstantsAssumption DEF OtherTypes, Log
<1>2. Len(fileTail) \in 0..MaxTail /\ (fileTail # <<>> => Len(fileTail) # 0)
  BY <1>1, LenProperties, EmptySeq DEF Log
<1>3. Sliced(tail) \in 0..MaxTail
  BY <1>1 DEF Sliced
<1>4. Reread \in 0..MaxTail
  BY <1>2 DEF Reread
<1>5. WithoutError \in 0..MaxTail
  BY <1>1, <1>2 DEF Reread, WithoutError
<1>. QED
  BY <1>1, <1>3, <1>4, <1>5

LEMMA OtherInit == Init => OtherTypes
<1>1. <<>> \in Seq({"answer", "error"})
  BY EmptySeq
<1>2. 0 \in 0..MaxRetries /\ 0 \in 0..MaxTail /\ 0 \in 0..1 /\ Len(<<>>) <= MaxTail
  BY ConstantsAssumption
<1>. QED
  BY <1>1, <1>2 DEF Init, OtherTypes

LEMMA AgentStepsTypes ==
    ASSUME RunInv, OtherTypes, AgentSteps
    PROVE  OtherTypes'
<1> USE DEF agentVars, logVars, settleVars, historyVars, retryVars, waitVars
<1>0. /\ <<>> \in Log /\ fileTail \in Log /\ MaxRetries \in Nat /\ MaxTail \in Nat
      /\ tail \in 0..MaxTail /\ 0 \in 0..MaxTail
  BY EmptySeq, TailTypes, ConstantsAssumption DEF Log
<1>h. ASSUME NEW reply, Hear(reply)
      PROVE  recovered' \in BOOLEAN /\ attempt' \in 0..MaxRetries
  <2>1. 0 \in 0..MaxRetries /\ attempt \in 0..MaxRetries
    BY <1>0 DEF OtherTypes
  <2>2. recovered' \in BOOLEAN
    BY <1>h DEF Hear, OtherTypes
  <2>3. attempt' \in {0, attempt}
    BY <1>h DEF Hear
  <2>. QED
    BY <2>1, <2>2, <2>3
<1>l. ASSUME NEW reply, LogReply(reply)
      PROVE  tail' \in 0..MaxTail /\ fileTail' \in Log
  <2>. DEFINE kind == IF reply \in ErrorReplies THEN "error" ELSE "answer"
              longer == Append(fileTail, kind)
  <2>1. /\ longer \in Seq({"answer", "error"}) /\ Len(longer) = Len(fileTail) + 1
        /\ Len(fileTail) \in Nat /\ Len(fileTail) <= MaxTail
    BY <1>0, AppendProperties, LenProperties DEF Log
  <2>. HIDE DEF longer
  <2>2. longer # <<>>
    BY <2>1, EmptySeq
  <2>3. Tail(longer) \in Seq({"answer", "error"}) /\ Len(Tail(longer)) = Len(fileTail)
    BY <2>1, <2>2, HeadTailProperties
  <2>4. Tail(longer) \in Log
    BY <2>1, <2>3 DEF Log
  <2>5. Len(fileTail) # MaxTail => longer \in Log
    BY <1>0, <2>1 DEF Log
  <2>6. fileTail' = IF ~connected THEN fileTail
                    ELSE IF Len(fileTail) = MaxTail THEN Tail(longer) ELSE longer
    BY <1>l DEF LogReply, longer
  <2>7. tail' \in 0..MaxTail
    BY <1>0, <1>l DEF LogReply
  <2>. QED
    BY <1>0, <2>4, <2>5, <2>6, <2>7
<1>1. CASE AgentTurn
  BY <1>0, <1>1, <1>h DEF AgentTurn, OtherTypes, Log
<1>2. CASE AgentEmits
  BY <1>0, <1>2 DEF AgentEmits, OtherTypes, Log
<1>3. CASE AgentRejects
  BY <1>3 DEF AgentRejects, OtherTypes
<1>4. ASSUME NEW lane \in Lanes, AgentTakes(lane)
      PROVE  OtherTypes'
  BY <1>4 DEF AgentTakes, OtherTypes
<1>5. ASSUME NEW reply \in Replies, AgentReply(reply)
      PROVE  OtherTypes'
  BY <1>5, <1>h, <1>l DEF AgentReply, OtherTypes, Log
<1>6. ASSUME NEW reply \in Replies, AgentThrows(reply)
      PROVE  OtherTypes'
  BY <1>6, <1>h, <1>l DEF AgentThrows, OtherTypes, Log
<1>7. ASSUME NEW d \in Drivers, AgentFinishes(d)
      PROVE  OtherTypes'
  BY <1>7 DEF AgentFinishes, OtherTypes
<1>. QED
  BY <1>1, <1>2, <1>3, <1>4, <1>5, <1>6, <1>7 DEF AgentSteps

LEMMA DriverStepsTypes ==
    ASSUME RunInv, OtherTypes, NEW d \in Drivers, DriverSteps(d)
    PROVE  OtherTypes'
<1> USE DEF agentVars, logVars, settleVars, historyVars, retryVars, waitVars
<1>0. /\ {tail, Sliced(tail), Reread, WithoutError} \subseteq 0..MaxTail
      /\ MaxRetries \in Nat /\ attempt \in 0..MaxRetries /\ budget \in 0..1
      /\ \A reply : AttemptAfter(reply) \in 0..MaxRetries
  BY TailTypes, ConstantsAssumption DEF OtherTypes, AttemptAfter
<1>w. ASSUME fileTail' = fileTail,
             tail' \in 0..MaxTail, wanted' \in BOOLEAN, recovered' \in BOOLEAN, waiter' \in BOOLEAN,
             attempt' \in 0..MaxRetries, budget' \in 0..1, sleeper' \in {sleeper, None, d},
             retryAborted' \subseteq retryAborted, compactor' \in {compactor, "compacting"}
      PROVE  OtherTypes'
  <2>1. sleeper' \in Drivers \cup {None} /\ retryAborted' \subseteq Drivers
    BY <1>w DEF OtherTypes
  <2>2. compactor' \in {"none", "waiting", "compacting"}
    BY <1>w DEF OtherTypes
  <2>. QED
    BY <1>w, <2>1, <2>2 DEF OtherTypes
<1>t. /\ wanted \in BOOLEAN /\ recovered \in BOOLEAN /\ waiter \in BOOLEAN
      /\ tail \in 0..MaxTail
  BY DEF OtherTypes
<1>k. ASSUME NEW kind, NEW t, NEW q, Continue(d, kind, t, q)
      PROVE  tail' = t
  BY <1>k DEF Continue
<1>e. ASSUME NEW kind, NEW t, Conclude(d, kind, t)
      PROVE  tail' = t
  BY <1>e DEF Conclude, Continue
<1>1. CASE PostSettles(d)
  BY <1>0, <1>1, <1>t, <1>w DEF PostSettles
<1>2. CASE PostRetries(d)
  <2>1. attempt + 1 \in 0..MaxRetries
    BY <1>0, <1>2 DEF PostRetries
  <2>. QED
    BY <1>0, <1>2, <1>t, <1>w, <2>1 DEF PostRetries
<1>3. CASE PostRecovers(d)
  BY <1>0, <1>3, <1>t, <1>w DEF PostRecovers
<1>4. CASE PostCompacts(d)
  BY <1>0, <1>4, <1>t, <1>w DEF PostCompacts
<1>5. CASE PostConcludes(d)
  BY <1>0, <1>5, <1>t, <1>w, <1>e DEF PostConcludes
<1>6. CASE RetryWakes(d)
  BY <1>0, <1>6, <1>t, <1>w, <1>k DEF RetryWakes
<1>7. CASE RetryCancelled(d)
  <2>1. tail' = tail
    BY <1>7, <1>e DEF RetryCancelled
  <2>2. 0 \in 0..MaxRetries
    BY <1>0
  <2>. QED
    BY <1>0, <1>7, <1>t, <1>w, <2>1, <2>2 DEF RetryCancelled
<1>8. CASE CompactionRetries(d)
  BY <1>0, <1>8, <1>t, <1>w, <1>k DEF CompactionRetries
<1>9. CASE CompactionContinues(d)
  <2>1. budget' \in 0..1
    <3>1. budget' = budget - 1 /\ budget > 0
      BY <1>9 DEF CompactionContinues, SpendBudget
    <3>. QED
      BY <3>1, <1>0
  <2>. QED
    BY <1>0, <1>9, <1>t, <1>w, <1>k, <2>1 DEF CompactionContinues
<1>10. CASE CompactionConcludes(d)
  BY <1>0, <1>10, <1>t, <1>w, <1>e DEF CompactionConcludes
<1>11. CASE CompactionStops(d)
  BY <1>0, <1>11, <1>t, <1>w, <1>e DEF CompactionStops
<1>12. CASE RefusedSettles(d)
  BY <1>0, <1>12, <1>t, <1>w DEF RefusedSettles
<1>13. CASE FinishSettle(d)
  <2>1. wanted' = FALSE /\ UNCHANGED <<logVars, retryVars>>
    BY <1>13 DEF FinishSettle
  <2>2. budget' \in 0..1 /\ waiter' \in BOOLEAN /\ compactor' \in {compactor, "compacting"}
    <3>1. CASE wanted
      BY <1>0, <1>13, <1>t, <3>1 DEF FinishSettle, StartRun
    <3>2. CASE ~wanted
      <4>1. UNCHANGED budget /\ WakeWaiters
        BY <1>13, <3>2 DEF FinishSettle
      <4>2. active \in BOOLEAN
        BY DEF RunInv, RunTypes
      <4>. QED
        BY <1>0, <1>t, <4>1, <4>2 DEF WakeWaiters
    <3>. QED
      BY <3>1, <3>2
  <2>. QED
    BY <1>0, <1>t, <1>w, <2>1, <2>2
<1>14. CASE PreflightFails(d)
  BY <1>0, <1>14, <1>t, <1>w DEF PreflightFails
<1>15. CASE StartPrompt(d)
  <2>1. budget' = 1
    BY <1>15 DEF StartPrompt, StartRun
  <2>. QED
    BY <1>0, <1>15, <1>t, <1>w, <2>1 DEF StartPrompt
<1>. QED
  BY <1>1, <1>2, <1>3, <1>4, <1>5, <1>6, <1>7, <1>8, <1>9, <1>10, <1>11, <1>12, <1>13, <1>14, <1>15
     DEF DriverSteps

LEMMA CallersTypes ==
    ASSUME RunInv, OtherTypes, Callers
    PROVE  OtherTypes'
<1> USE DEF agentVars, logVars, settleVars, historyVars, retryVars, waitVars
<1>0. /\ <<>> \in Log /\ {0, tail, Sliced(tail), Reread, WithoutError} \subseteq 0..MaxTail
      /\ budget \in 0..1 /\ active \in BOOLEAN /\ waiter \in BOOLEAN
  BY EmptySeq, TailTypes DEF OtherTypes, Log, RunInv, RunTypes
<1>i. ASSUME Interrupt
      PROVE  retryAborted' \subseteq Drivers
  BY <1>i DEF Interrupt, OtherTypes
<1>1. ASSUME NEW d \in Drivers, Prompt(d)
      PROVE  OtherTypes'
  BY <1>1 DEF Prompt, OtherTypes
<1>2. ASSUME NEW d \in Drivers, PreflightCompacts(d)
      PROVE  OtherTypes'
  <2>1. tail' \in 0..MaxTail /\ recovered' \in BOOLEAN
    BY <1>2, <1>0 DEF PreflightCompacts, OtherTypes
  <2>2. budget' \in 0..1
    <3>1. budget' = budget \/ (budget > 0 /\ budget' = budget - 1)
      BY <1>2 DEF PreflightCompacts, SpendBudget
    <3>. QED
      BY <3>1, <1>0
  <2>. QED
    BY <1>2, <2>1, <2>2 DEF PreflightCompacts, OtherTypes, Log
<1>3. ASSUME NEW d \in Drivers, SendCustomMessage(d)
      PROVE  OtherTypes'
  <2>1. budget' = 1
    BY <1>3 DEF SendCustomMessage, StartRun
  <2>. QED
    BY <1>3, <2>1 DEF SendCustomMessage, OtherTypes
<1>4. ASSUME NEW lane \in Lanes, NEW user \in BOOLEAN, Enqueue(lane, user)
      PROVE  OtherTypes'
  BY <1>4 DEF Enqueue, OtherTypes
<1>5. ASSUME NEW lane \in Lanes, NEW i \in DOMAIN queue[lane], RemoveQueuedMessage(lane, i)
      PROVE  OtherTypes'
  BY <1>5 DEF RemoveQueuedMessage, OtherTypes
<1>6. ASSUME NEW lanes, ClearQueue(lanes)
      PROVE  OtherTypes'
  BY <1>6 DEF ClearQueue, OtherTypes
<1>7. CASE NoteCustomMessage
  BY <1>0, <1>7 DEF NoteCustomMessage, OtherTypes, Log
<1>8. CASE RequestContinuation
  BY <1>8 DEF RequestContinuation, OtherTypes
<1>9. CASE Abort
  BY <1>0, <1>9, <1>i DEF Abort, OtherTypes
<1>10. CASE CompactManually
  BY <1>0, <1>10, <1>i DEF CompactManually, OtherTypes
<1>11. CASE ManualCompactionEnds
  BY <1>0, <1>11 DEF ManualCompactionEnds, OtherTypes, Log
<1>. QED
  BY <1>1, <1>2, <1>3, <1>4, <1>5, <1>6, <1>7, <1>8, <1>9, <1>10, <1>11 DEF Callers

LEMMA OtherStep ==
    ASSUME RunInv, OtherTypes, [Next]_vars
    PROVE  OtherTypes'
<1>1. CASE UNCHANGED vars
  BY <1>1 DEF vars, logVars, settleVars, OtherTypes
<1>. QED
  BY <1>1, AgentStepsTypes, DriverStepsTypes, CallersTypes DEF Next

-----------------------------------------------------------------------------
(* The theorems.                                                           *)
LEMMA SessionInit == Init => SessionInv
<1>. SUFFICES ASSUME Init PROVE SessionInv
  OBVIOUS
<1>1. RunTypes
  BY DEF Init, RunTypes, DriverPoints, Outcomes, Replies, Endings
<1>2. OneDriver
  BY DEF Init, OneDriver, Busy, AtWork, Working
<1>3. EndIsHeard
  BY DEF Init, EndIsHeard, Follows
<1>4. MirrorInv
  <2>1. /\ Ids(<<>>) = {} /\ Users(<<>>) = {} /\ Listed(<<>>) = {}
        /\ <<>> \in Seq(Item) /\ <<>> \in Seq(1..MaxInputs) /\ Len(<<>>) = 0
        /\ \A l : QueueSound(<<>>, l, 0) /\ ListSound(<<>>, 0)
    BY NothingQueued, EmptySeq
  <2>2. queue \in [Lanes -> Seq(Item)] /\ mirror \in [Lanes -> Seq(1..MaxInputs)]
    BY <2>1 DEF Init
  <2>3. HandSound(<<>>, mirror)
    BY <2>1 DEF HandSound
  <2>4. Placed(queue, mirror, {}, {})
    BY <2>1 DEF Init, Placed
  <2>5. \A l \in Lanes : QueueSound(queue[l], l, 0) /\ ListSound(mirror[l], 0)
    BY <2>1 DEF Init
  <2>6. 0 \in 0..MaxInputs
    BY ConstantsAssumption
  <2>. QED
    BY <2>1, <2>2, <2>3, <2>4, <2>5, <2>6 DEF Init, MirrorInv, MirrorSound
<1>. QED
  BY <1>1, <1>2, <1>3, <1>4, OtherInit DEF Init, SessionInv, RunInv

LEMMA SessionStep == SessionInv /\ [Next]_vars => SessionInv' /\ AllHonest
BY RunStep, OtherStep, MirrorStep DEF SessionInv

LEMMA SessionAlways == Spec => []SessionInv
<1>1. SessionInv /\ [Next]_vars => SessionInv'
  BY SessionStep
<1>. QED
  BY SessionInit, <1>1, PTL DEF Spec

LEMMA SessionTypes == SessionInv => TypeOK
<1>. SUFFICES ASSUME SessionInv PROVE TypeOK
  OBVIOUS
<1>1. /\ \A l \in Lanes : queue[l] \in Seq(Item) /\ mirror[l] \in Seq(1..MaxInputs)
      /\ hand \in Seq(Item) /\ Len(hand) <= 1 /\ issued \in 0..MaxInputs
  BY DEF SessionInv, MirrorInv, MirrorSound, HandSound
<1>2. unseen \cup mistaken \subseteq 1..MaxInputs
  <2>1. unseen \cup mistaken \subseteq 1..issued /\ 1..issued \subseteq 1..MaxInputs
    BY <1>1, ConstantsAssumption DEF SessionInv, MirrorInv, MirrorSound
  <2>. QED
    BY <2>1
<1>3. {active, settling, wanted, agentAborted, recovered, waiter} \subseteq BOOLEAN
  BY DEF SessionInv, RunInv, RunTypes, OtherTypes
<1>. QED
  BY <1>1, <1>2, <1>3 DEF TypeOK, SessionInv, RunInv, RunTypes, OtherTypes, Endings

LEMMA SessionMirror == SessionInv => MirrorMatchesQueue
<1>. SUFFICES ASSUME SessionInv, NEW l \in Lanes
              PROVE  LET queued == {i \in DOMAIN queue[l] : queue[l][i].user}
                     IN  /\ {mirror[l][j] : j \in DOMAIN mirror[l]} \ (unseen \cup InHand)
                                = {queue[l][i].id : i \in queued} \ mistaken
                         /\ Increasing(mirror[l]) /\ Increasing(IdsOf(queue[l]))
  BY DEF MirrorMatchesQueue
<1>1. QueueSound(queue[l], l, issued) /\ ListSound(mirror[l], issued)
  BY DEF SessionInv, MirrorInv, MirrorSound
<1>2. Listed(mirror[l]) \ (unseen \cup Ids(hand)) = Users(queue[l]) \ mistaken
  BY DEF SessionInv, MirrorInv, MirrorSound, Placed
<1>3. Increasing(mirror[l])
  BY <1>1 DEF ListSound, Increasing
<1>4. Increasing(IdsOf(queue[l]))
  BY <1>1 DEF QueueSound, Increasing, IdsOf
<1>. QED
  BY <1>2, <1>3, <1>4 DEF Listed, Ids, Users, InHand

(* What a client is shown is so in every reachable state: the session's    *)
(* list of queued messages is the agent's queue, but for what its loop     *)
(* holds, what it did not hear of, and what was taken off for a prompt of  *)
(* the same text (_steeringMessages, _followUpMessages), and while no two  *)
(* drivers overlap the flag for a running session says whether a driver    *)
(* works (isStreaming).                                                    *)
THEOREM ShownAlways == Spec => []ShownIsTrue
<1>1. SessionInv => ActiveIsExact
  BY DEF SessionInv, RunInv, OneDriver, ActiveIsExact, AtWork
<1>2. SessionInv => ShownIsTrue
  BY <1>1, SessionTypes, SessionMirror DEF ShownIsTrue
<1>. QED
  BY <1>2, SessionAlways, PTL

(* No settlement says of a run what is not so: through retries, recoveries *)
(* and compactions it tells how the run ended, or that the compaction      *)
(* after it failed (_mypiSettledOutcome), unless drivers overlapped, a     *)
(* reply came while the session did not listen, or a continue() threw.     *)
THEOREM OutcomeAlwaysHonest == Spec => OutcomeIsHonest
<1>1. SessionInv /\ [Next]_vars => [AllHonest]_vars
  BY SessionStep
<1>. QED
  BY <1>1, SessionAlways, PTL DEF Spec, OutcomeIsHonest, AllHonest

HIDE DEF Undisturbed, StaysDisturbed

-----------------------------------------------------------------------------
(***************************************************************************)
(* Compaction: for any bounds and budgets, what the model is given of a    *)
(* session is fit to be sent, has the user's words in it, and leaves       *)
(* nothing out that no summary was made from.                              *)
(***************************************************************************)

(* A set of numbers has a least one: the numbers of the set up to one of   *)
(* its members are a finite set, and a smallest of these ends with it.     *)
LEMMA LeastExists ==
    ASSUME NEW S \in SUBSET Nat, S # {}
    PROVE  \E m \in S : \A k \in S : m <= k
<1> DEFINE UpTo(k) == {j \in S : j <= k}
           parts == {UpTo(k) : k \in S}
<1>1. parts \subseteq FiniteSubsetsOf(S) /\ parts # {}
    <2> SUFFICES ASSUME NEW k \in S PROVE IsFiniteSet(UpTo(k))
        BY DEF FiniteSubsetsOf
    <2> QED
        BY FS_BoundedSetOfNaturals, k \in Nat, UpTo(k) \in SUBSET Nat
<1>2. IsWellFoundedOn(StrictSubsetOrdering(S), FiniteSubsetsOf(S))
    BY FS_StrictSubsetOrderingWellFounded
<1> HIDE DEF parts
<1>3. PICK part \in parts : \A other \in parts : <<other, part>> \notin StrictSubsetOrdering(S)
    BY <1>1, <1>2, WFMin
<1>4. PICK m \in S : part = UpTo(m)
    BY <1>3 DEF parts
<1>5. ASSUME NEW k \in S, ~(m <= k) PROVE FALSE
    <2>0. m \in Nat /\ k \in Nat /\ k < m /\ \A j \in S : j \in Nat
        BY <1>5
    <2>a. \A j \in S : j <= k => j <= m
        BY <2>0
    <2>b. m <= m /\ ~(m <= k)
        BY <2>0
    <2>1. UpTo(k) \subseteq UpTo(m) /\ m \in UpTo(m) /\ m \notin UpTo(k)
        BY <2>a, <2>b, Zenon
    <2>2. <<UpTo(k), UpTo(m)>> \in StrictSubsetOrdering(S)
        BY <2>1 DEF StrictSubsetOrdering
    <2> QED
        BY <1>3, <1>4, <2>2 DEF parts
<1> QED
    BY <1>5

LEMMA MinIsLeast ==
    ASSUME NEW S \in SUBSET Nat, S # {}
    PROVE  Min(S) \in S /\ \A k \in S : Min(S) <= k
BY LeastExists DEF Min

(* A bounded one has a greatest.                                           *)
LEMMA MaxIsGreatest ==
    ASSUME NEW S \in SUBSET Nat, S # {}, NEW top \in Nat, \A k \in S : k <= top
    PROVE  Max(S) \in S /\ \A k \in S : k <= Max(S)
<1> DEFINE tops == {b \in Nat : \A k \in S : k <= b}
<1>1. PICK b \in tops : \A a \in tops : b <= a
    BY LeastExists, tops \in SUBSET Nat, top \in tops
<1>2. b \in S
    <2> SUFFICES ASSUME b \notin S PROVE FALSE
        OBVIOUS
    <2>0. PICK k \in S : k \in Nat /\ k <= b /\ b \in Nat
        OBVIOUS
    <2>1. b - 1 \in Nat
        BY <2>0
    <2>2. b - 1 \in tops
        BY <2>0, <2>1
    <2> QED
        BY <1>1, <2>2
<1>3. \E m \in S : \A k \in S : m >= k
    BY <1>2
<1> QED
    BY <1>3 DEF Max

-----------------------------------------------------------------------------
(* A tree of entries, and the walk from an entry to the root.              *)
Tree(es) ==
    /\ DOMAIN es \subseteq 1..MaxEntries
    /\ \A i \in DOMAIN es : es[i].parent \in DOMAIN es \cup {0} /\ es[i].parent < i

(* The entries in every set that has the entry and, of all it has, the     *)
(* parents: the walk, without the recursion.                               *)
Closed(es, ids) == ids \subseteq DOMAIN es /\ \A i \in ids : es[i].parent \in ids \cup {0}
Closure(es, id) ==
    {a \in DOMAIN es : \A ids \in SUBSET DOMAIN es : id \in ids /\ Closed(es, ids) => a \in ids}
Walk(es, path, i) == IF i \in DOMAIN es THEN path[es[i].parent] \cup {i} ELSE {}

(* It takes an entry and what its parent takes ...                         *)
LEMMA ClosureStep ==
    ASSUME NEW es, Tree(es), NEW id \in DOMAIN es
    PROVE  /\ es[id].parent \in DOMAIN es => Closure(es, id) = Closure(es, es[id].parent) \cup {id}
           /\ es[id].parent \notin DOMAIN es => Closure(es, id) = {id}
<1> DEFINE p == es[id].parent
<1>1. Closed(es, Closure(es, id)) /\ id \in Closure(es, id)
    <2>1. ASSUME NEW a \in Closure(es, id), es[a].parent # 0 PROVE es[a].parent \in Closure(es, id)
        <3>1. es[a].parent \in DOMAIN es
            BY <2>1 DEF Closure, Tree
        <3>2. ASSUME NEW ids \in SUBSET DOMAIN es, id \in ids, Closed(es, ids) PROVE es[a].parent \in ids
            BY <2>1, <3>2 DEF Closure, Closed
        <3> QED
            BY <3>1, <3>2 DEF Closure
    <2> QED
        BY <2>1 DEF Closure, Closed
<1>2. CASE p \in DOMAIN es
    <2>1. Closed(es, Closure(es, p)) /\ p \in Closure(es, p)
        <3>1. ASSUME NEW a \in Closure(es, p), es[a].parent # 0 PROVE es[a].parent \in Closure(es, p)
            <4>1. es[a].parent \in DOMAIN es
                BY <3>1 DEF Closure, Tree
            <4>2. ASSUME NEW ids \in SUBSET DOMAIN es, p \in ids, Closed(es, ids) PROVE es[a].parent \in ids
                BY <3>1, <4>2 DEF Closure, Closed
            <4> QED
                BY <4>1, <4>2 DEF Closure
        <3> QED
            BY <1>2, <3>1 DEF Closure, Closed
    <2>2. Closed(es, Closure(es, p) \cup {id})
        BY <2>1 DEF Closed
    <2>3. Closure(es, id) \subseteq Closure(es, p) \cup {id}
        BY <2>2 DEF Closure, Closed
    <2>4. p \in Closure(es, id)
        BY <1>1, <1>2, 0 \notin DOMAIN es DEF Closed, Tree
    <2>5. Closure(es, p) \subseteq Closure(es, id)
        BY <1>1, <2>4 DEF Closure, Closed
    <2> QED
        BY <1>1, <1>2, <2>3, <2>5
<1>3. CASE p \notin DOMAIN es
    <2>1. Closed(es, {id})
        BY <1>3 DEF Closed, Tree
    <2>2. Closure(es, id) \subseteq {id}
        BY <2>1 DEF Closure
    <2> QED
        BY <1>1, <1>3, <2>2
<1> QED
    BY <1>2, <1>3

(* ... so it is a function as the definition of PathIn asks for, which     *)
(* therefore has a value, and takes an entry and the path of its parent.   *)
LEMMA PathStep ==
    ASSUME NEW es, Tree(es), NEW id \in 0..MaxEntries
    PROVE  PathIn(es, id) = IF id \in DOMAIN es THEN PathIn(es, es[id].parent) \cup {id} ELSE {}
<1> DEFINE path == CHOOSE path : path = [i \in 0..MaxEntries |-> Walk(es, path, i)]
           g == [i \in 0..MaxEntries |-> IF i \in DOMAIN es THEN Closure(es, i) ELSE {}]
<1>1. ASSUME NEW i \in 0..MaxEntries PROVE g[i] = Walk(es, g, i)
    <2>1. CASE i \in DOMAIN es
        <3>1. es[i].parent \in 0..MaxEntries
            BY <2>1, CompactionAssumption DEF Tree
        <3> QED
            BY <2>1, <3>1, ClosureStep DEF Walk
    <2>2. CASE i \notin DOMAIN es
        BY <2>2 DEF Walk
    <2> QED
        BY <2>1, <2>2
<1>2. g = [i \in 0..MaxEntries |-> Walk(es, g, i)]
    BY <1>1
<1>3. path = [i \in 0..MaxEntries |-> Walk(es, path, i)]
    BY <1>2
<1>4. \A i : PathIn(es, i) = path[i]
    BY DEF PathIn, Walk
<1> HIDE DEF path
<1>5. path[id] = Walk(es, path, id)
    BY <1>3
<1> QED
    BY <1>4, <1>5 DEF Walk

(* What a path has up to one of its entries is the path of that entry.     *)
LEMMA PathBelow ==
    ASSUME NEW es, Tree(es)
    PROVE  \A id \in 0..MaxEntries : \A a \in PathIn(es, id) :
               /\ a \in DOMAIN es /\ a <= id
               /\ PathIn(es, a) = {j \in PathIn(es, id) : j <= a}
<1> DEFINE Good(id) == \A a \in PathIn(es, id) :
                          /\ a \in DOMAIN es /\ a <= id
                          /\ PathIn(es, a) = {j \in PathIn(es, id) : j <= a}
           bad == {id \in 0..MaxEntries : ~Good(id)}
<1> SUFFICES ASSUME bad # {} PROVE FALSE
    OBVIOUS
<1>1. PICK id \in bad : \A other \in bad : id <= other
    BY LeastExists, CompactionAssumption, bad \in SUBSET Nat
<1>2. id \in DOMAIN es
    BY PathStep
<1> DEFINE p == es[id].parent
<1>3. p \in 0..MaxEntries /\ p < id /\ id \in 1..MaxEntries
    BY <1>2, CompactionAssumption DEF Tree
<1>4. Good(p)
    BY <1>1, <1>3
<1>5. PathIn(es, id) = PathIn(es, p) \cup {id}
    BY <1>2, PathStep
<1>6. ASSUME NEW a \in PathIn(es, id)
      PROVE  /\ a \in DOMAIN es /\ a <= id
             /\ PathIn(es, a) = {j \in PathIn(es, id) : j <= a}
    <2>1. \A j \in PathIn(es, p) : j \in Nat /\ j <= p
        BY <1>4, CompactionAssumption DEF Tree
    <2>2. CASE a = id
        BY <2>1, <2>2, <1>2, <1>3, <1>5
    <2>3. CASE a \in PathIn(es, p)
        <3>1. a \in DOMAIN es /\ a \in Nat /\ a <= p /\ PathIn(es, a) = {j \in PathIn(es, p) : j <= a}
            BY <2>1, <2>3, <1>4
        <3> QED
            BY <3>1, <1>3, <1>5
    <2> QED
        BY <2>2, <2>3, <1>5
<1> QED
    BY <1>1, <1>6

(* Where a set of entries has each one's parent as its nearest below, the  *)
(* paths of the entries are in the set.                                    *)
Nearest(es, S) ==
    \A i \in S :
        \/ es[i].parent \in S /\ \A j \in S : j < i => j <= es[i].parent
        \/ es[i].parent = 0 /\ \A j \in S : ~(j < i)

LEMMA PathOfNearest ==
    ASSUME NEW es, Tree(es), NEW S \in SUBSET DOMAIN es, Nearest(es, S)
    PROVE  \A i \in S : PathIn(es, i) = {j \in S : j <= i}
<1> DEFINE bad == {i \in S : PathIn(es, i) # {j \in S : j <= i}}
<1> SUFFICES ASSUME bad # {} PROVE FALSE
    OBVIOUS
<1>0. S \subseteq 1..MaxEntries /\ MaxEntries \in Nat
    BY CompactionAssumption DEF Tree
<1>1. PICK i \in bad : \A other \in bad : i <= other
    BY LeastExists, <1>0, bad \in SUBSET Nat
<1> DEFINE p == es[i].parent
<1>2. p \in 0..MaxEntries /\ p < i /\ i \in 1..MaxEntries
    BY <1>0 DEF Tree
<1>3. PathIn(es, i) = PathIn(es, p) \cup {i}
    BY <1>2, PathStep
<1>4. CASE p \in S /\ \A j \in S : j < i => j <= p
    <2>1. PathIn(es, p) = {j \in S : j <= p}
        BY <1>1, <1>2, <1>4
    <2>2. \A j \in S : j <= i <=> (j <= p \/ j = i)
        BY <1>0, <1>2, <1>4
    <2> QED
        BY <1>1, <1>3, <2>1, <2>2
<1>5. CASE p = 0 /\ \A j \in S : ~(j < i)
    <2>1. PathIn(es, p) = {}
        BY <1>0, <1>2, <1>5, PathStep DEF Tree
    <2>2. \A j \in S : j <= i <=> j = i
        BY <1>0, <1>2, <1>5
    <2> QED
        BY <1>1, <1>3, <2>1, <2>2
<1> QED
    BY <1>4, <1>5 DEF Nearest

(* A path is such a set.                                                   *)
LEMMA PathIsNearest ==
    ASSUME NEW es, Tree(es), NEW id \in 0..MaxEntries
    PROVE  PathIn(es, id) \subseteq DOMAIN es /\ Nearest(es, PathIn(es, id))
<1> DEFINE S == PathIn(es, id)
<1>1. S \subseteq DOMAIN es
    BY PathBelow
<1>2. ASSUME NEW i \in S
      PROVE  \/ es[i].parent \in S /\ \A j \in S : j < i => j <= es[i].parent
             \/ es[i].parent = 0 /\ \A j \in S : ~(j < i)
    <2> DEFINE p == es[i].parent
    <2>1. i \in 1..MaxEntries /\ p \in 0..MaxEntries /\ p < i /\ MaxEntries \in Nat
        BY <1>1, CompactionAssumption DEF Tree
    <2>2. PathIn(es, i) = {j \in S : j <= i} /\ PathIn(es, i) = PathIn(es, p) \cup {i}
        BY <1>1, <2>1, PathBelow, PathStep
    <2>3. S \subseteq 1..MaxEntries
        BY <1>1 DEF Tree
    <2>4. CASE p = 0
        <3>1. PathIn(es, p) = {}
            BY <2>1, <2>4, PathStep DEF Tree
        <3> QED
            BY <2>1, <2>2, <2>3, <2>4, <3>1
    <2>5. CASE p \in DOMAIN es
        <3>1. p \in PathIn(es, p) /\ \A j \in PathIn(es, p) : j <= p
            BY <2>1, <2>5, PathStep, PathBelow
        <3> QED
            BY <2>1, <2>2, <2>3, <3>1
    <2> QED
        BY <1>1, <2>4, <2>5 DEF Tree
<1> HIDE DEF S
<1>3. Nearest(es, S)
    BY <1>2 DEF Nearest
<1> QED
    BY <1>1, <1>3 DEF S

(* A path is the same in a tree that has its entries with their parents.   *)
LEMMA PathSame ==
    ASSUME NEW es, Tree(es), NEW fs, Tree(fs), NEW id \in 0..MaxEntries,
           \A i \in DOMAIN es : i \in DOMAIN fs /\ fs[i].parent = es[i].parent,
           id \notin DOMAIN es => id = 0
    PROVE  PathIn(fs, id) = PathIn(es, id)
<1>1. CASE id \notin DOMAIN es
    <2>1. 0 \notin DOMAIN es /\ 0 \notin DOMAIN fs
        BY CompactionAssumption DEF Tree
    <2> QED
        BY <1>1, <2>1, PathStep
<1>2. CASE id \in DOMAIN es
    <2>1. Nearest(es, PathIn(es, id)) /\ PathIn(es, id) \subseteq DOMAIN es
        BY PathIsNearest
    <2>2. Nearest(fs, PathIn(es, id)) /\ PathIn(es, id) \subseteq DOMAIN fs
        BY <2>1, PathBelow DEF Nearest
    <2>3. id \in PathIn(es, id) /\ \A j \in PathIn(es, id) : j <= id
        BY <1>2, PathStep, PathBelow
    <2>4. PathIn(fs, id) = {j \in PathIn(es, id) : j <= id}
        BY <2>2, <2>3, PathOfNearest
    <2> QED
        BY <2>3, <2>4
<1> QED
    BY <1>1, <1>2

-----------------------------------------------------------------------------
(* The invariant.  Each compaction, and the one that waits, is sound with  *)
(* regard to the path it was made from: what is before the entry it keeps  *)
(* from is in its summary, or among the messages it carries on, and what   *)
(* it keeps begins with a message that is no result.  Between a call and   *)
(* its results there is nothing that could come between them.              *)

(* What the entries of a path are, in any tree.                            *)
UsersIn(es, path) == {i \in path : es[i].kind = "user"}
Selected(es, path) ==
    LastOf(UsersIn(es, path), Recent)
        \cup {i \in UsersIn(es, path) : \A j \in UsersIn(es, path) : i <= j}

SelectedBefore(es, path, kept) == {i \in Selected(es, path) : i < kept}
SaidBefore(es, path, kept) == {i \in path : es[i].kind \in Messages /\ i < kept}

(* What is kept begins with a message that is no result.                   *)
CutAt(es, path, kept) ==
    \E z \in path :
        /\ z >= kept /\ es[z].kind \in Messages \ {"result"}
        /\ \A j \in path : j >= kept /\ j < z => es[j].kind \in Marks

(* A path has a call with only results behind it.                          *)
Answerable(es, path) ==
    \E c \in path :
        /\ es[c].kind = "call"
        /\ \A j \in path : j > c => es[j].kind \in {"result"} \cup Marks

(* No leaf was moved while tools ran.                                      *)
Whole(gone) == "severed" \notin gone

CallsInv ==
    /\ Whole(mislaid) =>
          \A i \in DOMAIN entries :
              entries[i].kind = "result" => Answerable(entries, PathIn(entries, i))
    /\ running => job = NoJob /\ (Whole(mislaid) => Answerable(entries, Path))

(* The compaction that waits, on the path that it was made from.           *)
JobSound(es, gone, j) ==
    LET path == PathIn(es, j.head)
    IN  /\ j.head \in DOMAIN es /\ j.kept \in path /\ CutAt(es, path, j.kept)
        /\ "unanchored" \notin gone => SaidBefore(es, path, j.kept) \subseteq j.covers
        /\ SelectedBefore(es, path, j.kept) \subseteq j.users

JobInv == job # NoJob => JobSound(entries, mislaid, job)

(* A compaction, on its path.                                              *)
Sound(es, gone, path, e) ==
    /\ "unanchored" \notin gone => e.ref \in path /\ SaidBefore(es, path, e.ref) \subseteq e.covers
    /\ gone \subseteq {"severed"} => SelectedBefore(es, path, e.ref) \subseteq e.users
    /\ "strayed" \notin gone /\ e.ref \in path => CutAt(es, path, e.ref)

MadeSound(es, gone) ==
    \A c \in DOMAIN es :
        es[c].kind = "compaction" => es[c].ref < c /\ Sound(es, gone, PathIn(es, c), es[c])

MadeInv == MadeSound(entries, mislaid)

CompactionInv == CompactionTypeOK /\ CallsInv /\ JobInv /\ MadeInv

-----------------------------------------------------------------------------
(* What follows from it.                                                   *)

(* The entries are a tree.                                                 *)
LEMMA EntriesAreTree ==
    ASSUME CompactionTypeOK
    PROVE  Tree(entries) /\ leaf \in 0..MaxEntries /\ made \in 0..MaxEntries /\ MaxEntries \in Nat
BY CompactionAssumption DEF CompactionTypeOK, Tree

(* A path is a finite set of numbers.                                      *)
LEMMA PathNumbers ==
    ASSUME NEW es, Tree(es), NEW id \in 0..MaxEntries, NEW S \in SUBSET PathIn(es, id)
    PROVE  /\ S \in SUBSET Nat /\ \A i \in S : i \in 1..MaxEntries /\ i <= MaxEntries
           /\ IsFiniteSet(S) /\ MaxEntries \in Nat
<1>1. S \subseteq 1..MaxEntries
    BY PathBelow DEF Tree
<1>2. MaxEntries \in Nat
    BY CompactionAssumption
<1> QED
    BY <1>1, <1>2, FS_BoundedSetOfNaturals

(* The latest compaction is one, and the last.                             *)
LEMMA LatestIsLast ==
    ASSUME NEW es, Tree(es), NEW id \in 0..MaxEntries,
           NEW path \in SUBSET PathIn(es, id), Compactions(path) # {}
    PROVE  /\ Latest(path) \in path /\ IsCompaction(Latest(path))
           /\ \A i \in path : IsCompaction(i) => i <= Latest(path)
<1>1. Compactions(path) \in SUBSET PathIn(es, id)
    BY DEF Compactions
<1>2. Compactions(path) \in SUBSET Nat /\ MaxEntries \in Nat /\ \A i \in Compactions(path) : i <= MaxEntries
    BY <1>1, PathNumbers
<1>3. Latest(path) \in Compactions(path) /\ \A i \in Compactions(path) : i <= Latest(path)
    BY <1>2, MaxIsGreatest DEF Latest
<1> QED
    BY <1>3 DEF Compactions

(* The users' messages selected from a path are selected from the part of  *)
(* it that they are in.                                                    *)
LEMMA SelectedFromPart ==
    ASSUME NEW es, NEW path, IsFiniteSet(path), path \in SUBSET Nat, NEW part \in SUBSET path,
           NEW i \in part, i \in Selected(es, path)
    PROVE  i \in Selected(es, part)
<1> DEFINE all == UsersIn(es, path)
           some == UsersIn(es, part)
<1>1. some \subseteq all /\ i \in some /\ all \subseteq path /\ Recent \in Nat
    BY CompactionAssumption DEF UsersIn, Selected, LastOf
<1>2. CASE \A j \in all : i <= j
    BY <1>1, <1>2 DEF Selected
<1>3. CASE i \in LastOf(all, Recent)
    <2> DEFINE behind == {j \in all : j > i}
               near == {j \in some : j > i}
    <2>1. behind \in SUBSET path /\ near \in SUBSET behind
        BY <1>1
    <2>2. IsFiniteSet(behind)
        BY <2>1, FS_Subset
    <2>3. IsFiniteSet(near) /\ Cardinality(near) <= Cardinality(behind)
        BY <2>1, <2>2, FS_Subset
    <2>4. Cardinality(near) \in Nat /\ Cardinality(behind) \in Nat
        BY <2>2, <2>3, FS_CardinalityType
    <2>5. Cardinality(behind) < Recent
        BY <1>3 DEF LastOf
    <2> HIDE DEF near, behind
    <2>6. Cardinality(near) < Recent
        BY <2>3, <2>4, <2>5, <1>1
    <2> QED
        BY <1>1, <2>6 DEF LastOf, near, Selected
<1> QED
    BY <1>2, <1>3 DEF Selected

(* The model's selection is the selection in its tree.                     *)
LEMMA SelectedIsSelected ==
    ASSUME CompactionTypeOK, NEW id \in 0..MaxEntries, NEW path \in SUBSET PathIn(entries, id)
    PROVE  SelectedUsers(path) = Selected(entries, path)
<1>1. \A i \in path : i >= 1
    BY EntriesAreTree, PathNumbers
<1>2. UsersFrom(path, 1) = UsersIn(entries, path)
    BY <1>1 DEF UsersFrom, UsersIn, Kind
<1> QED
    BY <1>2 DEF SelectedUsers, Selected

(* The last compaction on a path, and its own path.                        *)
LEMMA LatestSound ==
    ASSUME CompactionTypeOK, MadeInv, NEW id \in 0..MaxEntries, Compactions(PathIn(entries, id)) # {}
    PROVE  LET path == PathIn(entries, id)
               c == Latest(path)
           IN  /\ c \in path /\ c \in DOMAIN entries /\ entries[c].kind = "compaction"
               /\ entries[c].ref < c /\ entries[c].ref \in Nat
               /\ Sound(entries, mislaid, {j \in path : j <= c}, entries[c])
               /\ \A i \in path : entries[i].kind = "compaction" => i <= c
<1> DEFINE path == PathIn(entries, id)
           c == Latest(path)
<1>1. c \in path /\ entries[c].kind = "compaction" /\ \A i \in path : entries[i].kind = "compaction" => i <= c
    BY LatestIsLast, EntriesAreTree DEF IsCompaction, Kind
<1>2. c \in DOMAIN entries /\ PathIn(entries, c) = {j \in path : j <= c}
    BY <1>1, PathBelow, EntriesAreTree
<1>3. entries[c].ref \in Nat
    BY <1>2 DEF CompactionTypeOK
<1> QED
    BY <1>1, <1>2, <1>3 DEF MadeInv, MadeSound

(* A message on the path is given, or is before what was kept.             *)
LEMMA GivenIfKept ==
    ASSUME CompactionTypeOK, MadeInv,
           NEW i \in Path, entries[i].kind \in Messages
    PROVE  \/ i \in Given(Path)
           \/ /\ Compactions(Path) # {} /\ i < Latest(Path)
              /\ entries[Latest(Path)].ref \in Path => i < entries[Latest(Path)].ref
<1>1. Visible(i)
    BY DEF Visible, Kind, Marks, Messages
<1>2. CASE Compactions(Path) = {}
    BY <1>1, <1>2 DEF Given, ContextEntries
<1>3. CASE Compactions(Path) # {}
    <2> DEFINE c == Latest(Path)
    <2>1. c \in Nat /\ i \in Nat /\ entries[c].ref \in Nat
        BY <1>3, LatestSound, EntriesAreTree, PathNumbers DEF Path
    <2>2. CASE i \in ContextEntries(Path)
        BY <1>1, <2>2 DEF Given
    <2>3. CASE i \notin ContextEntries(Path)
        BY <1>3, <2>1, <2>3 DEF ContextEntries
    <2> QED
        BY <2>2, <2>3
<1> QED
    BY <1>2, <1>3

(* Then it is in the summary ...                                           *)
LEMMA InvAccounted == CompactionInv => Accounted
<1> SUFFICES ASSUME CompactionInv, "unanchored" \notin mislaid,
                    NEW i \in Path, entries[i].kind \in Messages, i \notin Given(Path)
             PROVE  Compactions(Path) # {} /\ i \in entries[Latest(Path)].covers
    BY DEF Accounted, Kind
<1>1. CompactionTypeOK /\ MadeInv
    BY DEF CompactionInv
<1> DEFINE c == Latest(Path)
<1>2. /\ Compactions(Path) # {} /\ i < c
      /\ entries[c].ref \in Path => i < entries[c].ref
    BY <1>1, GivenIfKept
<1>3. Sound(entries, mislaid, {j \in Path : j <= c}, entries[c])
    BY <1>1, <1>2, LatestSound, EntriesAreTree DEF Path
<1>4. i \in Nat /\ c \in Nat
    BY <1>1, <1>2, LatestSound, EntriesAreTree, PathNumbers DEF Path
<1> HIDE DEF c
<1>5. i \in SaidBefore(entries, {j \in Path : j <= c}, entries[c].ref)
    BY <1>2, <1>3, <1>4 DEF Sound, SaidBefore
<1> QED
    BY <1>2, <1>3, <1>5 DEF Sound, c

(* ... and if it was selected, among the messages carried on.              *)
LEMMA InvUsersKept == CompactionInv => UsersKept
<1> SUFFICES ASSUME CompactionInv, mislaid \subseteq {"severed"}, NEW i \in SelectedUsers(Path),
                    i \notin Given(Path)
             PROVE  FALSE
    BY DEF UsersKept
<1>1. CompactionTypeOK /\ MadeInv
    BY DEF CompactionInv
<1>2. i \in Selected(entries, Path) /\ i \in Path /\ entries[i].kind = "user"
    BY <1>1, SelectedIsSelected, EntriesAreTree DEF Path, Selected, LastOf, UsersIn
<1> DEFINE c == Latest(Path)
           part == {j \in Path : j <= c}
<1>3. /\ Compactions(Path) # {} /\ i < c
      /\ entries[c].ref \in Path => i < entries[c].ref
    BY <1>1, <1>2, GivenIfKept DEF Messages
<1>4. /\ Sound(entries, mislaid, part, entries[c])
      /\ c \in Path /\ entries[c].kind = "compaction"
    BY <1>1, <1>3, LatestSound, EntriesAreTree DEF Path
<1>5. i \in Nat /\ c \in Nat /\ IsFiniteSet(Path) /\ Path \in SUBSET Nat
    BY <1>1, <1>2, <1>3, <1>4, EntriesAreTree, PathNumbers DEF Path
<1>6. part \in SUBSET Path /\ i \in part
    BY <1>2, <1>3, <1>5
<1>7. i \in Selected(entries, part)
    BY <1>2, <1>5, <1>6, SelectedFromPart
<1>8. i \in entries[c].users
    <2>1. i < entries[c].ref
        BY <1>3, <1>4 DEF Sound
    <2> QED
        BY <1>4, <1>7, <2>1 DEF Sound, SelectedBefore
<1>9. c \in {k \in ContextEntries(Path) : Visible(k)}
    BY <1>3, <1>4, <1>5 DEF ContextEntries, Visible, Kind, Marks
<1>10. c \in Compactions({k \in ContextEntries(Path) : Visible(k)})
    BY <1>4, <1>9 DEF Compactions, IsCompaction, Kind
<1> HIDE DEF c
<1> QED
    BY <1>8, <1>10 DEF Given

(* Of a call and its result, what was kept begins with neither in between. *)
LEMMA InvCallsKept == CompactionInv => CallsKept
<1> SUFFICES ASSUME CompactionInv, mislaid \subseteq {"unanchored"},
                    NEW i \in ContextEntries(Path), entries[i].kind = "result"
             PROVE  \E c \in ContextEntries(Path) :
                        /\ entries[c].kind = "call" /\ c < i
                        /\ \A j \in Path : j > c /\ j < i => entries[j].kind # "call"
    BY DEF CallsKept, Kind
<1>1. CompactionTypeOK /\ MadeInv /\ CallsInv /\ Whole(mislaid) /\ "strayed" \notin mislaid
    BY DEF CompactionInv, Whole
<1>2. i \in Path
    BY DEF ContextEntries
<1>3. i \in DOMAIN entries /\ PathIn(entries, i) = {j \in Path : j <= i}
    BY <1>1, <1>2, PathBelow, EntriesAreTree DEF Path
<1>4. PICK q \in {j \in Path : j <= i} :
          /\ entries[q].kind = "call"
          /\ \A j \in {j \in Path : j <= i} : j > q => entries[j].kind \in {"result"} \cup Marks
    BY <1>1, <1>3 DEF CallsInv, Answerable
<1>5. \A j \in Path : j \in Nat
    BY <1>1, EntriesAreTree, PathNumbers DEF Path
<1>6. /\ q \in Path /\ q < i /\ q \in Nat /\ i \in Nat
      /\ \A j \in Path : j > q /\ j < i => entries[j].kind \in {"result"} \cup Marks
    BY <1>2, <1>4, <1>5
<1>7. \A j \in Path : j > q /\ j < i => entries[j].kind # "call"
    BY <1>6 DEF Marks
<1> SUFFICES q \in ContextEntries(Path)
    BY <1>4, <1>6, <1>7
<1>8. CASE Compactions(Path) = {}
    BY <1>6, <1>8 DEF ContextEntries
<1>9. CASE Compactions(Path) # {}
    <2> DEFINE c == Latest(Path)
               kept == entries[c].ref
    <2>1. /\ c \in Path /\ entries[c].kind = "compaction" /\ kept < c /\ kept \in Nat
          /\ Sound(entries, mislaid, {j \in Path : j <= c}, entries[c])
        BY <1>1, <1>9, LatestSound, EntriesAreTree DEF Path
    <2>2. c \in Nat /\ ~(c > q /\ c < i) /\ c # i
        BY <1>5, <1>6, <2>1 DEF Marks
    <2>3. i >= c \/ (kept \in Path /\ i >= kept)
        BY <1>9 DEF ContextEntries
    <2>4. CASE i >= c
        <3>1. q >= c
            BY <1>6, <2>2, <2>4
        <3> QED
            BY <1>6, <1>9, <3>1 DEF ContextEntries
    <2>5. CASE kept \in Path /\ i >= kept
        <3>1. kept \in {j \in Path : j <= c}
            BY <2>1, <2>2, <2>5
        <3>2. PICK z \in {j \in Path : j <= c} :
                  /\ z >= kept /\ entries[z].kind \in Messages \ {"result"}
                  /\ \A j \in {j \in Path : j <= c} : j >= kept /\ j < z => entries[j].kind \in Marks
            BY <2>1, <3>1 DEF Sound, CutAt
        <3>3. z \in Path /\ z \in Nat /\ ~(z > q /\ z < i) /\ z # i
            BY <1>5, <1>6, <3>2 DEF Messages, Marks
        <3>4. CASE z <= q
            <4>1. q >= kept
                BY <1>6, <2>1, <3>2, <3>3, <3>4
            <4> QED
                BY <1>6, <1>9, <2>5, <4>1 DEF ContextEntries
        <3>5. CASE z > i
            <4>1. i \in {j \in Path : j <= c}
                BY <1>2, <1>6, <2>2, <3>2, <3>3, <3>5
            <4>2. entries[i].kind \in Marks
                BY <2>5, <3>2, <3>5, <4>1
            <4> QED
                BY <4>2 DEF Marks
        <3> QED
            BY <1>6, <3>3, <3>4, <3>5
    <2> QED
        BY <2>3, <2>4, <2>5
<1> QED
    BY <1>8, <1>9

-----------------------------------------------------------------------------
(* What depends on the kinds of entries only.                              *)
SameKinds(es, fs, path) == \A i \in path : fs[i].kind = es[i].kind

(* Trees that agree on the kinds of a path agree on what was said, kept    *)
(* and answered on it.                                                     *)
LEMMA SameSelected ==
    ASSUME NEW es, NEW fs, NEW path, SameKinds(es, fs, path)
    PROVE  Selected(fs, path) = Selected(es, path)
<1>1. UsersIn(fs, path) = UsersIn(es, path)
    BY DEF SameKinds, UsersIn
<1> QED
    BY <1>1 DEF Selected

LEMMA SameCut ==
    ASSUME NEW es, NEW fs, NEW path, NEW kept, SameKinds(es, fs, path), CutAt(es, path, kept)
    PROVE  CutAt(fs, path, kept)
BY DEF SameKinds, CutAt

LEMMA SameSaid ==
    ASSUME NEW es, NEW fs, NEW path, NEW kept, SameKinds(es, fs, path)
    PROVE  /\ SaidBefore(fs, path, kept) = SaidBefore(es, path, kept)
           /\ SelectedBefore(fs, path, kept) = SelectedBefore(es, path, kept)
<1>1. Selected(fs, path) = Selected(es, path)
    BY SameSelected
<1>2. SaidBefore(fs, path, kept) = SaidBefore(es, path, kept)
    BY DEF SameKinds, SaidBefore
<1> QED
    BY <1>1, <1>2 DEF SelectedBefore

LEMMA SameSound ==
    ASSUME NEW es, NEW fs, NEW path, SameKinds(es, fs, path),
           NEW gone, NEW more, gone \subseteq more, NEW e, Sound(es, gone, path, e)
    PROVE  Sound(fs, more, path, e)
<1>1. /\ SaidBefore(fs, path, e.ref) = SaidBefore(es, path, e.ref)
      /\ SelectedBefore(fs, path, e.ref) = SelectedBefore(es, path, e.ref)
    BY SameSaid
<1>2. CutAt(es, path, e.ref) => CutAt(fs, path, e.ref)
    BY SameCut
<1>3. more \subseteq {"severed"} => gone \subseteq {"severed"}
    OBVIOUS
<1> QED
    BY <1>1, <1>2, <1>3 DEF Sound

LEMMA SameAnswerable ==
    ASSUME NEW es, NEW fs, NEW path, SameKinds(es, fs, path), Answerable(es, path)
    PROVE  Answerable(fs, path)
BY DEF SameKinds, Answerable

LEMMA AnswerableLonger ==
    ASSUME NEW es, NEW fs, NEW path, SameKinds(es, fs, path), Answerable(es, path),
           NEW n, fs[n].kind \in {"result"} \cup Marks
    PROVE  Answerable(fs, path \cup {n})
BY DEF SameKinds, Answerable

-----------------------------------------------------------------------------
(* The tree grows by an entry, and the other paths stay as they are.       *)
Extended(es, fs, n, e) ==
    /\ n \notin DOMAIN es /\ DOMAIN fs = DOMAIN es \cup {n} /\ fs[n] = e
    /\ \A i \in DOMAIN es : fs[i] = es[i]

LEMMA GrowExtends ==
    ASSUME CompactionTypeOK, NEW e, Grow(e), e.parent \in DOMAIN entries \cup {0}
    PROVE  /\ Extended(entries, entries', made + 1, e) /\ leaf' = made + 1 /\ made' = made + 1
           /\ made \in Nat /\ made + 1 \in 1..MaxEntries /\ \A i \in DOMAIN entries : i \in 1..made
<1>1. made \in Nat /\ made + 1 \in 1..MaxEntries /\ \A i \in DOMAIN entries : i \in 1..made
    BY CompactionAssumption DEF CompactionTypeOK, Grow
<1>2. made + 1 \notin DOMAIN entries
    BY <1>1
<1>3. entries' = [i \in DOMAIN entries \cup {made + 1} |-> IF i = made + 1 THEN e ELSE entries[i]]
    BY DEF Grow
<1>4. Extended(entries, entries', made + 1, e)
    BY <1>2, <1>3 DEF Extended
<1> QED
    BY <1>1, <1>4 DEF Grow

LEMMA ExtendedPaths ==
    ASSUME NEW es, Tree(es), NEW fs, NEW n \in 1..MaxEntries, NEW e, Extended(es, fs, n, e),
           \A i \in DOMAIN es : i < n, e.parent \in DOMAIN es \cup {0}
    PROVE  /\ Tree(fs)
           /\ \A id \in DOMAIN es \cup {0} : PathIn(fs, id) = PathIn(es, id)
           /\ PathIn(fs, n) = PathIn(es, e.parent) \cup {n}
           /\ \A id \in DOMAIN es \cup {0} : \A i \in PathIn(es, id) : i \in DOMAIN es
<1>1. Tree(fs)
    BY DEF Tree, Extended
<1>2. ASSUME NEW id \in DOMAIN es \cup {0} PROVE PathIn(fs, id) = PathIn(es, id) /\ id \in 0..MaxEntries
    <2>1. id \in 0..MaxEntries /\ (id \notin DOMAIN es => id = 0)
        BY CompactionAssumption DEF Tree
    <2> QED
        BY <2>1, <1>1, PathSame DEF Extended
<1>3. n \in 0..MaxEntries /\ n \in DOMAIN fs /\ fs[n].parent = e.parent
    BY CompactionAssumption DEF Extended
<1>4. PathIn(fs, n) = PathIn(es, e.parent) \cup {n}
    BY <1>1, <1>2, <1>3, PathStep
<1>5. \A id \in DOMAIN es \cup {0} : \A i \in PathIn(es, id) : i \in DOMAIN es
    BY <1>2, PathBelow
<1> QED
    BY <1>1, <1>2, <1>4, <1>5

(* What is sound stays so, and what is answered.                           *)
LEMMA ExtendedMade ==
    ASSUME NEW es, Tree(es), NEW fs, NEW n \in 1..MaxEntries, NEW e, Extended(es, fs, n, e),
           \A i \in DOMAIN es : i < n, e.parent \in DOMAIN es \cup {0},
           NEW gone, NEW more, gone \subseteq more, MadeSound(es, gone),
           e.kind = "compaction" => e.ref < n /\ Sound(fs, more, PathIn(es, e.parent) \cup {n}, e)
    PROVE  MadeSound(fs, more)
<1> SUFFICES ASSUME NEW c \in DOMAIN fs, fs[c].kind = "compaction"
             PROVE  fs[c].ref < c /\ Sound(fs, more, PathIn(fs, c), fs[c])
    BY DEF MadeSound
<1>1. CASE c = n
    <2>1. fs[c] = e /\ PathIn(fs, c) = PathIn(es, e.parent) \cup {n}
        BY <1>1, ExtendedPaths DEF Extended
    <2> QED
        BY <1>1, <2>1
<1>2. CASE c \in DOMAIN es
    <2>1. fs[c] = es[c] /\ PathIn(fs, c) = PathIn(es, c) /\ SameKinds(es, fs, PathIn(es, c))
        BY <1>2, ExtendedPaths DEF Extended, SameKinds
    <2>2. es[c].ref < c /\ Sound(es, gone, PathIn(es, c), es[c])
        BY <1>2, <2>1 DEF MadeSound
    <2> QED
        BY <2>1, <2>2, SameSound
<1> QED
    BY <1>1, <1>2 DEF Extended

LEMMA ExtendedJob ==
    ASSUME NEW es, Tree(es), NEW fs, NEW n \in 1..MaxEntries, NEW e, Extended(es, fs, n, e),
           \A i \in DOMAIN es : i < n, e.parent \in DOMAIN es \cup {0},
           NEW gone, NEW j, JobSound(es, gone, j)
    PROVE  JobSound(fs, gone, j)
<1> DEFINE path == PathIn(es, j.head)
<1>1. j.head \in DOMAIN fs /\ PathIn(fs, j.head) = path /\ SameKinds(es, fs, path)
    BY ExtendedPaths DEF JobSound, Extended, SameKinds
<1>2. /\ SaidBefore(fs, path, j.kept) = SaidBefore(es, path, j.kept)
      /\ SelectedBefore(fs, path, j.kept) = SelectedBefore(es, path, j.kept)
    BY <1>1, SameSaid
<1>3. CutAt(es, path, j.kept) => CutAt(fs, path, j.kept)
    BY <1>1, SameCut
<1> HIDE DEF path
<1>4. /\ j.kept \in path /\ CutAt(es, path, j.kept)
      /\ "unanchored" \notin gone => SaidBefore(es, path, j.kept) \subseteq j.covers
      /\ SelectedBefore(es, path, j.kept) \subseteq j.users
    BY DEF JobSound, path
<1> QED
    BY <1>1, <1>2, <1>3, <1>4 DEF JobSound

LEMMA SameJob ==
    ASSUME NEW es, NEW gone, NEW more, gone \subseteq more, NEW j, JobSound(es, gone, j)
    PROVE  JobSound(es, more, j)
BY DEF JobSound

LEMMA ExtendedCalls ==
    ASSUME NEW es, Tree(es), NEW fs, NEW n \in 1..MaxEntries, NEW e, Extended(es, fs, n, e),
           \A i \in DOMAIN es : i < n, e.parent \in DOMAIN es \cup {0},
           \A i \in DOMAIN es : es[i].kind = "result" => Answerable(es, PathIn(es, i)),
           e.kind = "result" => Answerable(es, PathIn(es, e.parent))
    PROVE  /\ \A i \in DOMAIN fs : fs[i].kind = "result" => Answerable(fs, PathIn(fs, i))
           /\ Answerable(es, PathIn(es, e.parent)) /\ e.kind \in {"result"} \cup Marks =>
                  Answerable(fs, PathIn(fs, n))
           /\ e.kind = "call" => Answerable(fs, PathIn(fs, n))
<1> DEFINE path == PathIn(es, e.parent)
<1>1. /\ PathIn(fs, n) = path \cup {n} /\ SameKinds(es, fs, path) /\ fs[n] = e
      /\ DOMAIN fs = DOMAIN es \cup {n}
      /\ \A i \in path : i \in Nat /\ i < n
    <2>1. \A i \in path : i \in DOMAIN es
        BY ExtendedPaths
    <2>2. \A i \in DOMAIN es : i \in Nat /\ i < n
        BY DEF Tree
    <2> QED
        BY <2>1, <2>2, ExtendedPaths DEF Extended, SameKinds
<1>2. ASSUME Answerable(es, path), e.kind \in {"result"} \cup Marks PROVE Answerable(fs, PathIn(fs, n))
    BY <1>1, <1>2, AnswerableLonger
<1>3. ASSUME e.kind = "call" PROVE Answerable(fs, PathIn(fs, n))
    BY <1>1, <1>3 DEF Answerable
<1>4. ASSUME NEW i \in DOMAIN es, fs[i].kind = "result" PROVE Answerable(fs, PathIn(fs, i))
    <2>1. fs[i] = es[i] /\ PathIn(fs, i) = PathIn(es, i) /\ SameKinds(es, fs, PathIn(es, i))
        BY ExtendedPaths DEF Extended, SameKinds
    <2> QED
        BY <1>4, <2>1, SameAnswerable
<1> QED
    BY <1>1, <1>2, <1>3, <1>4

(* The types, with room for the entry that is new.                         *)
EntryType(i, top) ==
    [kind : Messages \cup Marks \cup {"compaction"}, parent : 0..i - 1,
     ref : 0..top, users : SUBSET (1..top), covers : SUBSET (1..top)]
JobType(top) == [head : 0..top, kept : 0..top, users : SUBSET (1..top), covers : SUBSET (1..top)]

LEMMA TypesGrow ==
    ASSUME NEW top \in Nat, NEW more \in Nat, top <= more
    PROVE  /\ \A i \in Nat : EntryType(i, top) \subseteq EntryType(i, more)
           /\ JobType(top) \subseteq JobType(more) /\ NoJob \in JobType(top)
<1>1. 0..top \subseteq 0..more /\ SUBSET (1..top) \subseteq SUBSET (1..more) /\ 0 \in 0..top
    OBVIOUS
<1> QED
    BY <1>1 DEF EntryType, JobType, NoJob

FlagTypes == running \in BOOLEAN /\ mislaid \subseteq Mishaps /\ marks \in 0..MaxMarks /\ moves \in 0..MaxMoves

LEMMA GrowType ==
    ASSUME CompactionTypeOK, NEW e, Grow(e), e \in EntryType(made + 1, made),
           e.parent \in DOMAIN entries \cup {0}, job' \in {job, NoJob}, FlagTypes'
    PROVE  CompactionTypeOK'
<1>1. /\ Extended(entries, entries', made + 1, e) /\ leaf' = made + 1 /\ made' = made + 1
      /\ made \in Nat /\ made + 1 \in 1..MaxEntries /\ \A i \in DOMAIN entries : i \in 1..made
    BY GrowExtends
<1>2. made' \in Nat /\ made \in Nat /\ made <= made' /\ made' \in 0..MaxEntries
    BY <1>1
<1>3. DOMAIN entries' \subseteq 1..made' /\ leaf' \in DOMAIN entries' \cup {0}
    BY <1>1 DEF Extended
<1>4. ASSUME NEW i \in DOMAIN entries'
      PROVE  entries'[i] \in EntryType(i, made') /\ entries'[i].parent \in DOMAIN entries' \cup {0}
    <2>1. CASE i = made + 1
        BY <1>1, <1>2, <2>1, TypesGrow DEF Extended
    <2>2. CASE i \in DOMAIN entries
        <3>1. entries[i] \in EntryType(i, made) /\ entries[i].parent \in DOMAIN entries \cup {0} /\ i \in Nat
            BY <1>1, <2>2 DEF CompactionTypeOK, EntryType
        <3> QED
            BY <1>1, <1>2, <2>2, <3>1, TypesGrow DEF Extended
    <2> QED
        BY <1>1, <2>1, <2>2 DEF Extended
<1>5. job' \in JobType(made')
    BY <1>2, TypesGrow DEF CompactionTypeOK, JobType
<1> QED
    BY <1>2, <1>3, <1>4, <1>5 DEF CompactionTypeOK, EntryType, JobType, FlagTypes

(* An entry other than a compaction is added.                              *)
LEMMA GrowInv ==
    ASSUME CompactionInv, NEW e, Grow(e), e \in EntryType(made + 1, made), e.kind # "compaction",
           e.parent \in DOMAIN entries \cup {0}, job' = job, mislaid \subseteq mislaid', FlagTypes',
           mislaid' \subseteq mislaid \cup {"severed"},
           Whole(mislaid') /\ e.kind = "result" => Answerable(entries, PathIn(entries, e.parent)),
           running' => /\ job = NoJob
                       /\ \/ e.kind = "call" \/ ~Whole(mislaid')
                          \/ /\ e.kind \in {"result"} \cup Marks
                             /\ Answerable(entries, PathIn(entries, e.parent))
    PROVE  CompactionInv'
<1>0. CompactionTypeOK /\ CallsInv /\ JobInv /\ MadeInv
    BY DEF CompactionInv
<1>1. CompactionTypeOK'
    BY <1>0, GrowType
<1> DEFINE n == made + 1
<1>2. /\ Tree(entries) /\ Extended(entries, entries', n, e) /\ leaf' = n
      /\ n \in 1..MaxEntries /\ \A i \in DOMAIN entries : i < n
    BY <1>0, GrowExtends, EntriesAreTree
<1> HIDE DEF n
<1>3. MadeInv'
    <2>1. MadeSound(entries, mislaid)
        BY <1>0 DEF MadeInv
    <2>2. MadeSound(entries', mislaid')
        BY <1>2, <2>1, ExtendedMade
    <2> QED
        BY <2>2 DEF MadeInv
<1>4. JobInv'
    BY <1>0, <1>2, ExtendedJob, SameJob DEF JobInv
<1>5. CallsInv'
    <2> SUFFICES ASSUME Whole(mislaid')
                 PROVE  /\ \A i \in DOMAIN entries' :
                               entries'[i].kind = "result" => Answerable(entries', PathIn(entries', i))
                        /\ running' => job' = NoJob /\ Answerable(entries', PathIn(entries', n))
        BY <1>2 DEF CallsInv, Path
    <2>1. \A i \in DOMAIN entries : entries[i].kind = "result" => Answerable(entries, PathIn(entries, i))
        BY <1>0 DEF CallsInv, Whole
    <2> QED BY <1>2, <2>1, ExtendedCalls
<1> QED
    BY <1>1, <1>3, <1>4, <1>5 DEF CompactionInv

(* The steps that add such an entry, or none.                              *)
LEMMA SayInv ==
    ASSUME CompactionInv, NEW kind \in Messages \ {"branch"}, Say(kind)
    PROVE  CompactionInv'
<1> DEFINE e == Entry(kind, leaf)
<1>0. CompactionTypeOK /\ CallsInv
    BY DEF CompactionInv
<1>1. /\ Grow(e) /\ job' = job /\ mislaid' = mislaid /\ marks' = marks /\ moves' = moves
      /\ e.kind = kind /\ e.parent = leaf
      /\ kind = "result" => running
      /\ kind = "call" => job = NoJob
      /\ running' \in BOOLEAN /\ (running' => kind \in {"call", "result"})
    BY DEF Say, bounds, Entry
<1>2. leaf \in DOMAIN entries \cup {0} /\ leaf \in 0..made /\ made \in Nat
    BY <1>0, CompactionAssumption DEF CompactionTypeOK
<1>3. e \in EntryType(made + 1, made)
    BY <1>2 DEF Entry, EntryType
<1>4. FlagTypes'
    BY <1>0, <1>1 DEF FlagTypes, CompactionTypeOK
<1>5. running => job = NoJob /\ (Whole(mislaid) => Answerable(entries, PathIn(entries, leaf)))
    BY <1>0 DEF CallsInv, Path
<1> HIDE DEF e
<1> QED
    BY <1>1, <1>2, <1>3, <1>4, <1>5, GrowInv DEF Messages

LEMMA MarkInv ==
    ASSUME CompactionInv, NEW kind \in Marks, NEW target \in 0..MaxEntries, Mark(kind, target)
    PROVE  CompactionInv'
<1> DEFINE e == [Entry(kind, leaf) EXCEPT !.ref = target]
<1>0. CompactionTypeOK /\ CallsInv
    BY DEF CompactionInv
<1>1. /\ Grow(e) /\ job' = job /\ mislaid' = mislaid /\ moves' = moves /\ running' = running
      /\ marks' = marks + 1 /\ marks < MaxMarks
      /\ e.kind = kind /\ e.parent = leaf /\ target \in DOMAIN entries \cup {0}
    BY DEF Mark, Entry
<1>2. leaf \in DOMAIN entries \cup {0} /\ {leaf, target} \subseteq 0..made /\ made \in Nat
    BY <1>0, <1>1, CompactionAssumption DEF CompactionTypeOK
<1>3. e \in EntryType(made + 1, made)
    BY <1>2 DEF Entry, EntryType
<1>4. FlagTypes'
    BY <1>0, <1>1, CompactionAssumption DEF FlagTypes, CompactionTypeOK
<1>5. running => job = NoJob /\ (Whole(mislaid) => Answerable(entries, PathIn(entries, leaf)))
    BY <1>0 DEF CallsInv, Path
<1> HIDE DEF e
<1> QED
    BY <1>1, <1>2, <1>3, <1>4, <1>5, GrowInv DEF Marks

(* Nothing is added to the tree.                                           *)
LEMMA SameTreeInv ==
    ASSUME CompactionInv, CompactionTypeOK', entries' = entries, mislaid \subseteq mislaid', JobInv',
           running' => job' = NoJob /\ (~Whole(mislaid') \/ (running /\ leaf' = leaf))
    PROVE  CompactionInv'
<1>1. CallsInv /\ MadeInv
    BY DEF CompactionInv
<1>2. CallsInv'
    BY <1>1 DEF CallsInv, Path, Whole
<1>3. MadeInv'
    <2> SUFFICES ASSUME NEW c \in DOMAIN entries, entries[c].kind = "compaction"
                 PROVE  /\ entries[c].ref < c
                        /\ Sound(entries, mislaid', PathIn(entries, c), entries[c])
        BY DEF MadeInv, MadeSound
    <2>1. entries[c].ref < c /\ Sound(entries, mislaid, PathIn(entries, c), entries[c])
        BY <1>1 DEF MadeInv, MadeSound
    <2> QED BY <2>1, SameSound DEF SameKinds
<1> QED
    BY <1>2, <1>3 DEF CompactionInv

LEMMA NavigateInv ==
    ASSUME CompactionInv, NEW target \in DOMAIN entries, NEW summarize \in BOOLEAN,
           Navigate(target, summarize)
    PROVE  CompactionInv'
<1> DEFINE to == IF Kind(target) \in {"user", "note"} THEN entries[target].parent ELSE target
           e == Entry("branch", to)
<1>0. CompactionTypeOK /\ JobInv /\ (running => job = NoJob)
    BY DEF CompactionInv, CallsInv
<1>1. /\ running' = running /\ job' = job /\ marks' = marks
      /\ mislaid \subseteq mislaid' /\ mislaid' \subseteq mislaid \cup {"severed"}
      /\ running => ~Whole(mislaid')
      /\ moves < MaxMoves /\ moves' = moves + 1
      /\ IF summarize THEN Grow(e) ELSE leaf' = to /\ UNCHANGED <<entries, made>>
    BY DEF Navigate, Whole
<1>2. to \in DOMAIN entries \cup {0} /\ to \in 0..made /\ made \in Nat
    <2>1. to \in DOMAIN entries \cup {0}
        BY <1>0 DEF CompactionTypeOK
    <2> QED
        BY <1>0, <2>1, CompactionAssumption DEF CompactionTypeOK
<1>3. FlagTypes'
    BY <1>0, <1>1, CompactionAssumption DEF FlagTypes, CompactionTypeOK, Mishaps
<1> HIDE DEF to
<1>4. CASE summarize
    <2>1. e \in EntryType(made + 1, made) /\ e.kind = "branch" /\ e.parent = to
        BY <1>2 DEF Entry, EntryType, Messages
    <2> HIDE DEF e
    <2>2. Grow(e) /\ e.kind # "result" /\ e.kind # "compaction"
        BY <1>1, <1>4, <2>1
    <2>3. running' => job = NoJob /\ ~Whole(mislaid')
        BY <1>0, <1>1
    <2> QED
        BY <1>1, <1>2, <1>3, <2>1, <2>2, <2>3, GrowInv
<1>5. CASE ~summarize
    <2>1. entries' = entries /\ made' = made /\ leaf' = to
        BY <1>1, <1>5
    <2>2. CompactionTypeOK'
        BY <1>0, <1>1, <1>2, <1>3, <2>1 DEF CompactionTypeOK, FlagTypes
    <2>3. JobInv'
        BY <1>0, <1>1, <2>1, SameJob DEF JobInv
    <2>4. running' => job' = NoJob /\ ~Whole(mislaid')
        BY <1>0, <1>1
    <2>5. mislaid \subseteq mislaid'
        BY <1>1
    <2> QED
        BY <2>1, <2>2, <2>3, <2>4, <2>5, SameTreeInv
<1> QED
    BY <1>4, <1>5

LEMMA FailInv == ASSUME CompactionInv, Fail PROVE CompactionInv'
<1>0. CompactionTypeOK /\ made \in Nat
    BY CompactionAssumption DEF CompactionInv, CompactionTypeOK
<1>1. CompactionTypeOK'
    BY <1>0, TypesGrow DEF CompactionTypeOK, Fail, bounds, JobType
<1>2. JobInv'
    BY DEF JobInv, Fail
<1> QED
    BY <1>1, <1>2, SameTreeInv DEF Fail

LEMMA StayInv == ASSUME CompactionInv, UNCHANGED compactionVars PROVE CompactionInv'
<1>0. CompactionTypeOK /\ JobInv /\ CallsInv
    BY DEF CompactionInv
<1>1. CompactionTypeOK' /\ JobInv'
    BY <1>0 DEF CompactionTypeOK, JobInv, compactionVars, bounds
<1> QED
    BY <1>0, <1>1, SameTreeInv DEF compactionVars, CallsInv

-----------------------------------------------------------------------------
(* Where the path is cut: at a message that is no result, or before        *)
(* entries that say nothing and are followed by one.                       *)
LEMMA CutFound ==
    ASSUME CompactionTypeOK, NEW first \in Nat, NEW tokens,
           NEW u \in Path, u >= first, IsCutPoint(u)
    PROVE  LET cut == FindCutPoint(Path, first, tokens)
           IN  cut \in Path /\ cut >= first /\ CutAt(entries, Path, cut)
<1> DEFINE span == {i \in Path : i >= first}
           cuts == {i \in span : IsCutPoint(i)}
           full == {i \in span : Tokens(i) > 0 /\ TokensFrom(Path, i) >= tokens}
           after == {i \in cuts : full # {} /\ i >= Max(full)}
           cut == Min(IF after = {} THEN cuts ELSE after)
           back == {i \in span : i <= cut /\ \A j \in span : i <= j /\ j < cut => ~Visible(j)}
<1>1. Path \in SUBSET Nat
    BY EntriesAreTree, PathNumbers DEF Path
<1>2. cuts # {} /\ cuts \in SUBSET Nat /\ after \in SUBSET cuts
    BY <1>1
<1>3. cut \in cuts
    <2>1. CASE after = {}
        BY <1>2, <2>1, MinIsLeast
    <2>2. CASE after # {}
        <3>1. after \in SUBSET Nat
            BY <1>2
        <3>2. Min(after) \in after
            BY <2>2, <3>1, MinIsLeast
        <3> QED
            BY <1>2, <2>2, <3>2
    <2> QED
        BY <2>1, <2>2
<1>4. FindCutPoint(Path, first, tokens) = Min(back)
    BY <1>2 DEF FindCutPoint
<1> HIDE DEF cut
<1>5. cut \in Path /\ cut >= first /\ IsCutPoint(cut) /\ cut \in Nat
    BY <1>1, <1>3
<1>6. cut \in back /\ back \in SUBSET Nat
    <2>1. \A j \in span : j \in Nat /\ ~(cut <= j /\ j < cut)
        BY <1>1, <1>5
    <2>2. cut \in span /\ cut <= cut
        BY <1>5
    <2> QED
        BY <2>1, <2>2
<1>7. Min(back) \in back
    BY <1>6, MinIsLeast
<1> DEFINE m == Min(back)
<1> HIDE DEF m
<1>8. m \in Path /\ m >= first /\ m <= cut /\ m \in Nat /\ \A j \in span : m <= j /\ j < cut => ~Visible(j)
    BY <1>1, <1>7 DEF m
<1>9. \A j \in Path : j >= m /\ j < cut => entries[j].kind \in Marks
    BY <1>1, <1>8 DEF Visible, Kind
<1>10. CutAt(entries, Path, m)
    BY <1>5, <1>8, <1>9 DEF CutAt, IsCutPoint, Kind
<1> QED
    BY <1>4, <1>8, <1>10 DEF m

(* Where there is none, nothing is summarized.                             *)
LEMMA NoCutFound ==
    ASSUME NEW first, NEW tokens, \A u \in Path : u >= first => ~IsCutPoint(u)
    PROVE  FindCutPoint(Path, first, tokens) = first
BY DEF FindCutPoint

(* Of users that there are, there are last ones.                           *)
LEMMA LastOnes ==
    ASSUME NEW users \in SUBSET Nat, IsFiniteSet(users), NEW top \in Nat, \A i \in users : i <= top,
           Cardinality(users) > Recent
    PROVE  Min(LastOf(users, Recent)) \in users
<1>1. Recent \in Nat /\ Recent > 0
    BY CompactionAssumption
<1>2. users # {}
    <2>1. Cardinality(users) # 0
        BY <1>1
    <2> QED
        BY <2>1, FS_EmptySet
<1> DEFINE newest == Max(users)
<1>3. newest \in users /\ \A i \in users : i <= newest
    BY <1>2, MaxIsGreatest
<1> HIDE DEF newest
<1>4. {j \in users : j > newest} = {}
    <2>1. \A j \in users : j \in Nat /\ newest \in Nat /\ j <= newest
        BY <1>3
    <2>2. \A j \in users : ~(j > newest)
        BY <2>1
    <2> QED
        BY <2>2
<1>5. newest \in LastOf(users, Recent)
    BY <1>1, <1>3, <1>4, FS_EmptySet DEF LastOf
<1>6. LastOf(users, Recent) \in SUBSET Nat /\ LastOf(users, Recent) \subseteq users
    BY DEF LastOf
<1> QED
    BY <1>5, <1>6, MinIsLeast

(* A user's message that is cut at instead is such a message itself.       *)
LEMMA CappedIsCut ==
    ASSUME CompactionTypeOK, NEW first \in Nat, NEW tokens
    PROVE  LET cut == Capped(Path, first, FindCutPoint(Path, first, tokens))
           IN  cut = first \/ (cut \in Path /\ cut >= first /\ CutAt(entries, Path, cut))
<1> DEFINE found == FindCutPoint(Path, first, tokens)
           users == UsersFrom(Path, first)
           Good(cut) == cut \in Path /\ cut >= first /\ CutAt(entries, Path, cut)
<1>1. found = first \/ Good(found)
    <2>1. CASE \E u \in Path : u >= first /\ IsCutPoint(u)
        BY <2>1, CutFound
    <2>2. CASE \A u \in Path : u >= first => ~IsCutPoint(u)
        BY <2>2, NoCutFound
    <2> QED
        BY <2>1, <2>2
<1>2. \A u \in users : Good(u) /\ IsCutPoint(u)
    <2> SUFFICES ASSUME NEW u \in users PROVE Good(u) /\ IsCutPoint(u)
        OBVIOUS
    <2>1. u \in Path /\ u >= first /\ entries[u].kind = "user" /\ u \in Nat
        BY EntriesAreTree, PathNumbers DEF UsersFrom, Path, Kind
    <2>2. \A j \in Path : j >= u /\ j < u => entries[j].kind \in Marks
        BY <2>1, EntriesAreTree, PathNumbers DEF Path
    <2> QED
        BY <2>1, <2>2 DEF CutAt, Messages, IsCutPoint, Kind
<1>3. CASE Cardinality(users) > Recent
    <2> DEFINE m == Min(LastOf(users, Recent))
    <2>1. users \in SUBSET PathIn(entries, leaf)
        BY DEF UsersFrom, Path
    <2>2. /\ users \in SUBSET Nat /\ IsFiniteSet(users) /\ MaxEntries \in Nat
          /\ \A i \in users : i <= MaxEntries
        BY <2>1, EntriesAreTree, PathNumbers
    <2>3. m \in users
        BY <1>3, <2>2, LastOnes
    <2>4. Good(m) /\ m \in Nat
        BY <1>2, <2>2, <2>3
    <2>5. Good(found)
        BY <1>2, <2>3, CutFound
    <2>6. found \in Nat
        BY <2>5, EntriesAreTree, PathNumbers DEF Path
    <2> HIDE DEF found, m
    <2>7. {found, m} \in SUBSET Nat /\ {found, m} # {} /\ found + m \in Nat /\ \A k \in {found, m} : k <= found + m
        BY <2>4, <2>6
    <2>8. Max({found, m}) \in {found, m}
        BY <2>7, MaxIsGreatest
    <2>9. Capped(Path, first, found) = Max({found, m})
        BY <1>3 DEF Capped, m
    <2> QED
        BY <2>4, <2>5, <2>8, <2>9 DEF found
<1>4. CASE ~(Cardinality(users) > Recent)
    BY <1>1, <1>4 DEF Capped
<1> QED
    BY <1>3, <1>4

(* What is prepared is sound, if the compaction before it is.              *)
LEMMA PreparedSound ==
    ASSUME CompactionTypeOK, MadeInv, leaf \in DOMAIN entries,
           NEW tokens, Prepared(Path, tokens) # NoJob
    PROVE  /\ JobSound(entries, mislaid, Prepared(Path, tokens))
           /\ Prepared(Path, tokens) \in JobType(made)
<1> DEFINE first == BoundaryStart(Path)
           cut == Capped(Path, first, FindCutPoint(Path, first, tokens))
           c == Latest(Path)
           before == IF Compactions(Path) = {} THEN {} ELSE entries[c].covers
           summarized == {i \in Path : Kind(i) \in Messages /\ i \in first..cut - 1}
           users == {i \in SelectedUsers(Path) : i < cut}
           new == [head |-> leaf, kept |-> cut, users |-> users, covers |-> before \cup summarized]
<1>1. Prepared(Path, tokens) = new /\ summarized # {}
    BY DEF Prepared
<1>2. /\ Tree(entries) /\ leaf \in 0..MaxEntries /\ Path = PathIn(entries, leaf)
      /\ \A i \in Path : i \in Nat /\ i \in DOMAIN entries /\ i \in 1..made
    <2>1. Tree(entries) /\ leaf \in 0..MaxEntries /\ Path = PathIn(entries, leaf)
        BY EntriesAreTree DEF Path
    <2>2. \A i \in Path : i \in DOMAIN entries
        BY <2>1, PathBelow
    <2> QED
        BY <2>1, <2>2 DEF CompactionTypeOK
<1>3. ASSUME Compactions(Path) # {}
      PROVE  /\ c \in Path /\ c \in Nat /\ entries[c].ref < c /\ entries[c].ref \in Nat
             /\ Sound(entries, mislaid, {j \in Path : j <= c}, entries[c])
             /\ entries[c].covers \subseteq 1..made
    <2>1. /\ c \in Path /\ entries[c].ref < c /\ entries[c].ref \in Nat
          /\ Sound(entries, mislaid, {j \in Path : j <= c}, entries[c])
        BY <1>2, <1>3, LatestSound
    <2> QED
        BY <1>2, <2>1 DEF CompactionTypeOK
<1>4. first \in Nat
    <2>1. CASE Compactions(Path) = {}
        BY <2>1 DEF BoundaryStart
    <2>2. CASE Compactions(Path) # {}
        BY <1>3, <2>2 DEF BoundaryStart
    <2> QED
        BY <2>1, <2>2
<1>5. cut \in Path /\ cut >= first /\ CutAt(entries, Path, cut) /\ cut \in Nat
    <2>1. cut = first \/ (cut \in Path /\ cut >= first /\ CutAt(entries, Path, cut))
        BY <1>4, CappedIsCut
    <2>2. PICK i \in Path : i \in first..cut - 1
        BY <1>1
    <2> HIDE DEF first, cut
    <2>3. cut # first
        BY <1>4, <2>2
    <2> QED
        BY <1>2, <2>1, <2>3
<1>6. ASSUME "unanchored" \notin mislaid, NEW i \in Path, entries[i].kind \in Messages, i < cut
      PROVE  i \in before \cup summarized
    <2>1. i >= first => i \in summarized
        <3> HIDE DEF first, cut
        <3> QED
            BY <1>2, <1>4, <1>5, <1>6 DEF Kind
    <2>2. CASE Compactions(Path) = {}
        <3>1. i >= first
            BY <1>2, <2>2 DEF BoundaryStart
        <3> QED
            BY <2>1, <3>1
    <2>3. CASE Compactions(Path) # {}
        <3>1. /\ entries[c].ref \in {j \in Path : j <= c}
              /\ SaidBefore(entries, {j \in Path : j <= c}, entries[c].ref) \subseteq entries[c].covers
            BY <1>3, <1>6, <2>3 DEF Sound
        <3>2. first = entries[c].ref
            BY <2>3, <3>1 DEF BoundaryStart
        <3>3. CASE i < entries[c].ref
            <4>1. i <= c
                BY <1>2, <1>3, <2>3, <3>3
            <4>2. i \in SaidBefore(entries, {j \in Path : j <= c}, entries[c].ref)
                BY <1>6, <3>3, <4>1 DEF SaidBefore
            <4> QED
                BY <2>3, <3>1, <4>2
        <3>4. CASE ~(i < entries[c].ref)
            <4>1. i >= first
                BY <1>2, <1>3, <2>3, <3>2, <3>4
            <4> QED
                BY <2>1, <4>1
        <3> QED
            BY <3>3, <3>4
    <2> QED
        BY <2>2, <2>3
<1>7. users = SelectedBefore(entries, Path, cut)
    <2>1. SelectedUsers(Path) = Selected(entries, Path)
        BY <1>2, SelectedIsSelected
    <2> QED
        BY <2>1 DEF SelectedBefore
<1> HIDE DEF cut, before, summarized, users
<1>8. JobSound(entries, mislaid, new)
    BY <1>2, <1>5, <1>6, <1>7 DEF JobSound, SaidBefore
<1>9. new \in JobType(made)
    <2>1. leaf \in 0..made /\ made \in Nat
        BY CompactionAssumption DEF CompactionTypeOK
    <2>2. cut \in 0..made
        BY <1>2, <1>5
    <2>3. users \subseteq 1..made
        BY <1>2, <1>7 DEF SelectedBefore, Selected, LastOf, UsersIn
    <2>4. before \subseteq 1..made /\ summarized \subseteq 1..made
        BY <1>2, <1>3 DEF before, summarized
    <2> QED
        BY <2>1, <2>2, <2>3, <2>4 DEF JobType
<1> QED
    BY <1>1, <1>8, <1>9

LEMMA BeginInv == ASSUME CompactionInv, NEW tokens, Begin(tokens) PROVE CompactionInv'
<1>0. CompactionTypeOK /\ MadeInv
    BY DEF CompactionInv
<1>1. /\ leaf \in DOMAIN entries /\ job' = Prepared(Path, tokens) /\ job' # NoJob
      /\ entries' = entries /\ leaf' = leaf /\ made' = made /\ ~running' /\ running' \in BOOLEAN
      /\ mislaid' = mislaid
      /\ marks' = marks /\ moves' = moves
    BY <1>0 DEF Begin, bounds, CompactionTypeOK
<1>2. JobSound(entries, mislaid, job') /\ job' \in JobType(made)
    BY <1>0, <1>1, PreparedSound
<1>3. CompactionTypeOK'
    BY <1>0, <1>1, <1>2 DEF CompactionTypeOK, JobType
<1>4. JobInv'
    BY <1>1, <1>2 DEF JobInv
<1> QED
    BY <1>1, <1>3, <1>4, SameTreeInv

-----------------------------------------------------------------------------
(* The summary is there.  What held of the job on the path that it was     *)
(* made from holds of the compaction on the path it is appended to, as far *)
(* as the two paths are the same.                                          *)
LEMMA AppliedSound ==
    ASSUME NEW es, Tree(es), NEW fs, NEW n \in 1..MaxEntries, NEW e, Extended(es, fs, n, e),
           \A i \in DOMAIN es : i < n, e.parent \in DOMAIN es \cup {0}, e.kind = "compaction",
           NEW j, NEW gone, NEW more, JobSound(es, gone, j), gone \subseteq more,
           e.ref = j.kept, e.users = j.users, e.covers = j.covers,
           j.head \notin PathIn(es, e.parent) => "strayed" \in more,
           j.kept \notin PathIn(es, e.parent) => "unanchored" \in more
    PROVE  e.ref < n /\ Sound(fs, more, PathIn(es, e.parent) \cup {n}, e)
<1> DEFINE path == PathIn(es, e.parent)
           base == PathIn(es, j.head)
           kept == j.kept
<1>1. /\ kept \in base /\ CutAt(es, base, kept)
      /\ "unanchored" \notin gone => SaidBefore(es, base, kept) \subseteq j.covers
      /\ SelectedBefore(es, base, kept) \subseteq j.users
    BY DEF JobSound
<1>2. /\ e.parent \in 0..MaxEntries /\ j.head \in 0..MaxEntries /\ MaxEntries \in Nat
      /\ \A i \in path \cup base : i \in DOMAIN es /\ i \in Nat /\ i < n /\ fs[i] = es[i]
      /\ fs[n] = e /\ n \in Nat
    <2>1. e.parent \in 0..MaxEntries /\ j.head \in 0..MaxEntries /\ MaxEntries \in Nat
        BY CompactionAssumption DEF Tree, JobSound
    <2>2. \A i \in path \cup base : i \in DOMAIN es
        BY <2>1, PathBelow
    <2> QED
        BY <2>1, <2>2 DEF Tree, Extended
<1>3. \A a \in path : PathIn(es, a) = {i \in path : i <= a}
    BY <1>2, PathBelow
<1>4. \A a \in base : a <= j.head /\ PathIn(es, a) = {i \in base : i <= a}
    BY <1>2, PathBelow
<1> HIDE DEF path, base
<1>5. kept < n /\ kept \in Nat /\ kept <= j.head /\ j.head \in Nat
    BY <1>1, <1>2, <1>4
<1>6. ASSUME "unanchored" \notin more PROVE kept \in path /\ SaidBefore(fs, path \cup {n}, kept) \subseteq j.covers
    <2>1. kept \in path
        BY <1>6 DEF path
    <2>2. {i \in path : i <= kept} = {i \in base : i <= kept}
        BY <1>1, <1>3, <1>4, <2>1
    <2>3. ASSUME NEW i \in SaidBefore(fs, path \cup {n}, kept) PROVE i \in SaidBefore(es, base, kept)
        <3>1. i \in path /\ i < kept /\ fs[i].kind \in Messages
            BY <1>2, <1>5, <2>3 DEF SaidBefore
        <3>2. i <= kept
            BY <1>2, <1>5, <3>1
        <3>3. i \in base
            BY <2>2, <3>1, <3>2
        <3> QED
            BY <1>2, <3>1, <3>3 DEF SaidBefore
    <2> QED
        BY <1>1, <1>6, <2>1, <2>3
<1>7. ASSUME "strayed" \notin more PROVE base = {i \in path : i <= j.head}
    <2>1. j.head \in path
        BY <1>7 DEF path
    <2> QED
        BY <1>3, <2>1 DEF base
<1>8. ASSUME more \subseteq {"severed"} PROVE SelectedBefore(fs, path \cup {n}, kept) \subseteq j.users
    <2> SUFFICES ASSUME NEW i \in Selected(fs, path \cup {n}), i < kept
                 PROVE  i \in SelectedBefore(es, base, kept)
        BY <1>1 DEF SelectedBefore
    <2>1. base = {k \in path : k <= j.head}
        BY <1>7, <1>8
    <2>2. i \in path \cup {n}
        BY DEF Selected, LastOf, UsersIn
    <2>3. i \in base
        BY <1>2, <1>5, <2>1, <2>2
    <2>4. IsFiniteSet(path \cup {n}) /\ path \cup {n} \in SUBSET Nat /\ base \in SUBSET (path \cup {n})
        <3>1. IsFiniteSet(path)
            BY <1>2, PathNumbers DEF path
        <3> QED
            BY <1>2, <2>1, <3>1, FS_AddElement
    <2>5. i \in Selected(fs, base)
        BY <2>3, <2>4, SelectedFromPart
    <2>6. Selected(fs, base) = Selected(es, base)
        BY <1>2, SameSelected DEF SameKinds
    <2> QED
        BY <2>5, <2>6 DEF SelectedBefore
<1>9. ASSUME "strayed" \notin more PROVE CutAt(fs, path \cup {n}, kept)
    <2>1. PICK z \in base : /\ z >= kept /\ es[z].kind \in Messages \ {"result"}
                             /\ \A i \in base : i >= kept /\ i < z => es[i].kind \in Marks
        BY <1>1 DEF CutAt
    <2>2. base = {i \in path : i <= j.head}
        BY <1>7, <1>9
    <2>3. z \in path /\ z \in Nat /\ z <= j.head /\ z < n
        BY <1>2, <2>2
    <2>4. \A i \in path \cup {n} : i >= kept /\ i < z => i \in base
        BY <1>2, <1>5, <2>2, <2>3
    <2>5. \A i \in path \cup {n} : i >= kept /\ i < z => fs[i].kind \in Marks
        BY <1>2, <2>1, <2>4
    <2> QED
        BY <1>2, <2>1, <2>3, <2>5 DEF CutAt
<1> QED
    BY <1>5, <1>6, <1>8, <1>9 DEF Sound, path

LEMMA ApplyInv == ASSUME CompactionInv, Apply PROVE CompactionInv'
<1> DEFINE e == [Entry("compaction", leaf) EXCEPT !.ref = job.kept, !.users = job.users, !.covers = job.covers]
           n == made + 1
<1>0. CompactionTypeOK /\ CallsInv /\ JobInv /\ MadeInv
    BY DEF CompactionInv
<1>1. /\ Grow(e) /\ job # NoJob /\ job' = NoJob /\ running' = running /\ marks' = marks /\ moves' = moves
      /\ mislaid' = mislaid \cup {m \in {"strayed", "unanchored"} :
                                      (IF m = "strayed" THEN job.head ELSE job.kept) \notin Path}
    BY DEF Apply, bounds
<1>2. leaf \in DOMAIN entries \cup {0} /\ leaf \in 0..made /\ made \in Nat /\ job \in JobType(made)
    BY <1>0, CompactionAssumption DEF CompactionTypeOK, JobType
<1>3. e \in EntryType(made + 1, made)
    <2>1. job.kept \in 0..made /\ job.users \in SUBSET (1..made) /\ job.covers \in SUBSET (1..made)
        BY <1>2 DEF JobType
    <2> DEFINE e0 == Entry("compaction", leaf)
               e1 == [e0 EXCEPT !.ref = job.kept]
               e2 == [e1 EXCEPT !.users = job.users]
    <2>2. e0 \in EntryType(made + 1, made)
        BY <1>2 DEF Entry, EntryType
    <2>3. e = [e2 EXCEPT !.covers = job.covers]
        OBVIOUS
    <2> HIDE DEF e0, e
    <2>4. e1 \in EntryType(made + 1, made)
        BY <2>1, <2>2 DEF EntryType
    <2> HIDE DEF e1
    <2>5. e2 \in EntryType(made + 1, made)
        BY <2>1, <2>4 DEF EntryType
    <2> HIDE DEF e2
    <2> QED
        BY <2>1, <2>3, <2>5 DEF EntryType
<1>4. /\ e.kind = "compaction" /\ e.parent = leaf
      /\ e.ref = job.kept /\ e.users = job.users /\ e.covers = job.covers
    BY DEF Entry
<1> HIDE DEF e
<1>5. CompactionTypeOK'
    <2>1. FlagTypes'
        BY <1>0, <1>1 DEF FlagTypes, CompactionTypeOK, Mishaps
    <2> QED
        BY <1>0, <1>1, <1>2, <1>3, <1>4, <2>1, GrowType
<1>6. /\ Tree(entries) /\ Extended(entries, entries', n, e) /\ leaf' = n
      /\ n \in 1..MaxEntries /\ \A i \in DOMAIN entries : i < n
    BY <1>0, <1>1, <1>2, <1>4, GrowExtends, EntriesAreTree
<1> HIDE DEF n
<1>7. /\ mislaid \subseteq mislaid' /\ Path = PathIn(entries, e.parent)
      /\ job.head \notin PathIn(entries, e.parent) => "strayed" \in mislaid'
      /\ job.kept \notin PathIn(entries, e.parent) => "unanchored" \in mislaid'
    BY <1>1, <1>4 DEF Path
<1>8. JobSound(entries, mislaid, job) /\ e.parent \in DOMAIN entries \cup {0}
    BY <1>0, <1>1, <1>2, <1>4 DEF JobInv
<1>9. e.ref < n /\ Sound(entries', mislaid', PathIn(entries, e.parent) \cup {n}, e)
    BY <1>4, <1>6, <1>7, <1>8, AppliedSound
<1>10. MadeInv'
    <2>1. MadeSound(entries, mislaid)
        BY <1>0 DEF MadeInv
    <2>2. MadeSound(entries', mislaid')
        BY <1>6, <1>7, <1>8, <1>9, <2>1, ExtendedMade
    <2> QED
        BY <2>2 DEF MadeInv
<1>11. CallsInv'
    <2>1. ~running' /\ (Whole(mislaid') => Whole(mislaid))
        BY <1>0, <1>1 DEF CallsInv, Whole
    <2> SUFFICES ASSUME Whole(mislaid')
                 PROVE  \A i \in DOMAIN entries' :
                            entries'[i].kind = "result" => Answerable(entries', PathIn(entries', i))
        BY <2>1 DEF CallsInv
    <2>2. \A i \in DOMAIN entries : entries[i].kind = "result" => Answerable(entries, PathIn(entries, i))
        BY <1>0, <2>1 DEF CallsInv
    <2> QED
        BY <1>4, <1>6, <1>8, <2>2, ExtendedCalls
<1>12. JobInv'
    BY <1>1 DEF JobInv
<1> QED
    BY <1>5, <1>10, <1>11, <1>12 DEF CompactionInv

-----------------------------------------------------------------------------
(* A fork keeps the path without its labels, and puts labels behind it.    *)

(* A parent is the nearest entry below.                                    *)
LEMMA AboveIsNearest ==
    ASSUME NEW top \in Nat, NEW all \in SUBSET (1..top), NEW i \in all
    PROVE  LET above == Max({0} \cup {j \in all : j < i})
           IN  /\ above \in all \cup {0} /\ above \in 0..i - 1
               /\ \A j \in all : j < i => j <= above
<1> DEFINE lower == {0} \cup {j \in all : j < i}
<1>1. lower \in SUBSET Nat /\ lower # {} /\ i \in Nat /\ \A k \in lower : k <= i
    <2>1. i \in Nat /\ i > 0 /\ \A j \in all : j \in Nat
        OBVIOUS
    <2>2. \A k \in lower : k \in Nat /\ k <= i
        BY <2>1
    <2> QED
        BY <2>1, <2>2
<1>2. Max(lower) \in lower /\ \A k \in lower : k <= Max(lower)
    BY <1>1, MaxIsGreatest
<1> DEFINE above == Max(lower)
<1> HIDE DEF above
<1> QED
    BY <1>1, <1>2 DEF above

(* The targets, in some order.                                             *)
LEMMA ListedAll ==
    ASSUME NEW S, IsFiniteSet(S)
    PROVE  /\ Len(SetToSeq(S)) \in Nat
           /\ \A k \in 1..Len(SetToSeq(S)) : SetToSeq(S)[k] \in S
<1>1. Cardinality(S) \in Nat /\ ExistsBijection(1..Cardinality(S), S)
    BY FS_CardinalityType
<1>2. \E f \in [1..Cardinality(S) -> S] : IsInjective(f)
    BY <1>1 DEF ExistsBijection, Bijection, Injection, IsInjective
<1>3. SetToSeq(S) \in [1..Cardinality(S) -> S]
    BY <1>2 DEF SetToSeq
<1>4. Len(SetToSeq(S)) = Cardinality(S)
    BY <1>1, <1>3
<1> QED
    BY <1>1, <1>3, <1>4

Survivors(id) == {i \in PathIn(entries, id) : Kind(i) # "label"}

(* The tree of the fork.                                                   *)
LEMMA ForkedTree ==
    ASSUME CompactionTypeOK, NEW id \in DOMAIN entries, Fork(id)
    PROVE  /\ Survivors(id) \subseteq DOMAIN entries /\ Survivors(id) \subseteq DOMAIN entries'
           /\ \A i \in Survivors(id) :
                  /\ entries'[i].kind = entries[i].kind /\ entries'[i].ref = entries[i].ref
                  /\ entries'[i].users = entries[i].users /\ entries'[i].covers = entries[i].covers
           /\ \A i \in DOMAIN entries' : i \notin Survivors(id) => i > made /\ entries'[i].kind = "label"
           /\ Tree(entries') /\ Nearest(entries', DOMAIN entries')
           /\ made' \in 0..MaxEntries /\ DOMAIN entries' \subseteq 1..made' /\ leaf' \in DOMAIN entries'
           /\ \A i \in DOMAIN entries' : entries'[i] \in EntryType(i, made')
<1> DEFINE path == Survivors(id)
           labelled == {entries[i].ref : i \in {i \in DOMAIN entries : Kind(i) = "label"}}
           targets == SetToSeq(labelled \cap path)
           all == path \cup (made + 1..made + Len(targets))
           above(i) == Max({0} \cup {j \in all : j < i})
           label(i) == [Entry("label", above(i)) EXCEPT !.ref = targets[i - made]]
<1>1. /\ path # {} /\ made + Len(targets) <= MaxEntries
      /\ entries' = [i \in all |->
                        IF i \in path THEN [entries[i] EXCEPT !.parent = above(i)] ELSE label(i)]
      /\ leaf' = Max(all) /\ made' = made + Len(targets)
    BY DEF Fork, Survivors
<1>2. /\ Tree(entries) /\ id \in 0..MaxEntries /\ made \in Nat /\ MaxEntries \in Nat
    BY CompactionAssumption, EntriesAreTree DEF CompactionTypeOK
<1>3. path \subseteq PathIn(entries, id) /\ \A i \in path : i \in DOMAIN entries /\ i \in 1..made
    BY <1>2, PathBelow DEF CompactionTypeOK, Survivors
<1>4. Len(targets) \in Nat /\ \A k \in 1..Len(targets) : targets[k] \in path
    <2>1. IsFiniteSet(path)
        BY <1>2, <1>3, PathNumbers
    <2>2. IsFiniteSet(labelled \cap path)
        BY <2>1, FS_Subset
    <2> QED
        BY <2>2, ListedAll
<1> HIDE DEF targets
<1>5. made' \in Nat /\ made <= made' /\ made' \in 0..MaxEntries /\ all \in SUBSET (1..made')
    BY <1>1, <1>2, <1>3, <1>4
<1>6. ASSUME NEW i \in all
      PROVE  /\ above(i) \in all \cup {0} /\ above(i) \in 0..i - 1
             /\ \A j \in all : j < i => j <= above(i)
    BY <1>5, AboveIsNearest
<1>7. DOMAIN entries' = all
    BY <1>1
<1> HIDE DEF all, above, path
<1>8. ASSUME NEW i \in path
      PROVE  /\ i \in all /\ entries'[i] \in EntryType(i, made') /\ entries'[i].parent = above(i)
             /\ entries'[i].kind = entries[i].kind /\ entries'[i].ref = entries[i].ref
             /\ entries'[i].users = entries[i].users /\ entries'[i].covers = entries[i].covers
    <2>1. i \in all
        BY DEF all
    <2>2. entries'[i] = [entries[i] EXCEPT !.parent = above(i)]
        BY <1>1, <2>1
    <2>3. entries[i] \in EntryType(i, made') /\ above(i) \in 0..i - 1
        <3>1. entries[i] \in EntryType(i, made) /\ i \in Nat
            BY <1>3 DEF CompactionTypeOK, EntryType
        <3> QED
            BY <1>2, <1>5, <1>6, <2>1, <3>1, TypesGrow
    <2> QED
        BY <2>1, <2>2, <2>3 DEF EntryType
<1>9. ASSUME NEW i \in all, i \notin path
      PROVE  /\ i > made /\ entries'[i] \in EntryType(i, made') /\ entries'[i].parent = above(i)
             /\ entries'[i].kind = "label"
    <2>1. i \in made + 1..made + Len(targets)
        BY <1>9 DEF all
    <2>2. i > made /\ i - made \in 1..Len(targets)
        BY <1>2, <1>4, <2>1
    <2>3. targets[i - made] \in 0..made'
        BY <1>2, <1>3, <1>4, <1>5, <2>2
    <2>4. entries'[i] = [Entry("label", above(i)) EXCEPT !.ref = targets[i - made]]
        BY <1>1, <1>9
    <2> DEFINE target == targets[i - made]
    <2> HIDE DEF target
    <2>5. entries'[i] = [Entry("label", above(i)) EXCEPT !.ref = target] /\ target \in 0..made'
        BY <2>3, <2>4 DEF target
    <2>6. above(i) \in 0..i - 1
        BY <1>6, <1>9
    <2>7. Entry("label", above(i)) \in EntryType(i, made')
        BY <1>5, <2>6 DEF Entry, EntryType, Marks
    <2>8. entries'[i] \in EntryType(i, made')
        BY <2>5, <2>7 DEF EntryType
    <2>9. entries'[i].parent = above(i) /\ entries'[i].kind = "label"
        BY <2>5 DEF Entry
    <2> QED
        BY <2>2, <2>8, <2>9
<1>10. \A i \in all : /\ entries'[i].parent \in all \cup {0} /\ entries'[i].parent \in 0..i - 1
                       /\ \A j \in all : j < i => j <= entries'[i].parent
    BY <1>6, <1>8, <1>9
<1>11. Tree(entries')
    <2>1. all \subseteq 1..MaxEntries
        BY <1>2, <1>5
    <2>2. \A i \in all : entries'[i].parent < i
        BY <1>5, <1>10
    <2> QED
        BY <1>7, <1>10, <2>1, <2>2 DEF Tree
<1>12. Nearest(entries', all)
    <2> SUFFICES ASSUME NEW i \in all, entries'[i].parent \notin all
                 PROVE  entries'[i].parent = 0 /\ \A j \in all : ~(j < i)
        BY <1>10 DEF Nearest
    <2> QED
        BY <1>5, <1>10
<1>13. leaf' \in all
    <2>1. all \in SUBSET Nat /\ all # {} /\ \A k \in all : k <= made'
        BY <1>1, <1>5 DEF all
    <2> QED
        BY <1>1, <1>5, <2>1, MaxIsGreatest
<1> QED
    BY <1>3, <1>5, <1>7, <1>8, <1>9, <1>11, <1>12, <1>13 DEF path

(* What is left of a path is sound for its compactions: no label was a     *)
(* message, and where what one keeps from was a label, it is noted.        *)
LEMMA ThinnedSound ==
    ASSUME NEW es, NEW fs, NEW path, NEW part,
           \A i \in part : i \in path /\ fs[i].kind = es[i].kind,
           \A i \in path : i \in part \/ es[i].kind = "label",
           NEW gone, NEW more, gone \subseteq more, NEW e, Sound(es, gone, path, e),
           NEW new, new.ref = e.ref, new.users = e.users, new.covers = e.covers,
           e.ref \in part \/ "unanchored" \in more
    PROVE  Sound(fs, more, part, new)
<1>1. ASSUME "unanchored" \notin more
      PROVE  e.ref \in part /\ SaidBefore(fs, part, e.ref) \subseteq e.covers
    BY <1>1 DEF Sound, SaidBefore
<1>2. ASSUME more \subseteq {"severed"} PROVE SelectedBefore(fs, part, e.ref) \subseteq e.users
    <2>1. UsersIn(fs, part) = UsersIn(es, path)
        BY DEF UsersIn
    <2>2. Selected(fs, part) = Selected(es, path)
        BY <2>1 DEF Selected
    <2> QED
        BY <1>2, <2>2 DEF Sound, SelectedBefore
<1>3. ASSUME "strayed" \notin more, e.ref \in part PROVE CutAt(fs, part, e.ref)
    <2>1. CutAt(es, path, e.ref)
        BY <1>3 DEF Sound
    <2>2. PICK z \in path : /\ z >= e.ref /\ es[z].kind \in Messages \ {"result"}
                            /\ \A j \in path : j >= e.ref /\ j < z => es[j].kind \in Marks
        BY <2>1 DEF CutAt
    <2>3. z \in part
        BY <2>2 DEF Messages
    <2> QED
        BY <2>2, <2>3 DEF CutAt
<1> QED
    BY <1>1, <1>2, <1>3 DEF Sound

LEMMA ThinnedAnswerable ==
    ASSUME NEW es, NEW fs, NEW path, NEW part,
           \A i \in part : i \in path /\ fs[i].kind = es[i].kind,
           \A i \in path : i \in part \/ es[i].kind = "label",
           Answerable(es, path)
    PROVE  Answerable(fs, part)
<1>1. PICK c \in path : /\ es[c].kind = "call"
                        /\ \A j \in path : j > c => es[j].kind \in {"result"} \cup Marks
    BY DEF Answerable
<1>2. c \in part
    BY <1>1
<1> QED
    BY <1>1, <1>2 DEF Answerable

LEMMA ForkInv ==
    ASSUME CompactionInv, NEW id \in DOMAIN entries, Fork(id)
    PROVE  CompactionInv'
<1> DEFINE path == Survivors(id)
<1>0. CompactionTypeOK /\ CallsInv /\ MadeInv
    BY DEF CompactionInv
<1>1. /\ path \subseteq DOMAIN entries /\ path \subseteq DOMAIN entries'
      /\ \A i \in path :
             /\ entries'[i].kind = entries[i].kind /\ entries'[i].ref = entries[i].ref
             /\ entries'[i].users = entries[i].users /\ entries'[i].covers = entries[i].covers
      /\ \A i \in DOMAIN entries' : i \notin path => i > made /\ entries'[i].kind = "label"
      /\ Tree(entries') /\ Nearest(entries', DOMAIN entries')
    BY <1>0, ForkedTree
<1>2. /\ ~running' /\ running' \in BOOLEAN /\ job' = NoJob /\ marks' = marks
      /\ moves' = moves + 1 /\ moves < MaxMoves
      /\ mislaid' = mislaid \cup
             (IF \E c \in Compactions(path) : entries[c].ref \notin path THEN {"unanchored"} ELSE {})
    BY DEF Fork, Survivors
<1>3. CompactionTypeOK'
    <2>1. /\ made' \in 0..MaxEntries /\ DOMAIN entries' \subseteq 1..made' /\ leaf' \in DOMAIN entries'
          /\ \A i \in DOMAIN entries' : entries'[i] \in EntryType(i, made')
        BY <1>0, ForkedTree
    <2>2. job' \in JobType(made')
        BY <1>2, <2>1, CompactionAssumption, TypesGrow
    <2>3. FlagTypes'
        BY <1>0, <1>2, CompactionAssumption DEF FlagTypes, CompactionTypeOK, Mishaps
    <2>4. \A i \in DOMAIN entries' : entries'[i].parent \in DOMAIN entries' \cup {0}
        BY <1>1 DEF Tree
    <2> QED
        BY <2>1, <2>2, <2>3, <2>4 DEF CompactionTypeOK, EntryType, JobType, FlagTypes
<1>4. Tree(entries) /\ id \in 0..MaxEntries /\ made \in Nat /\ \A i \in path : i \in 1..made /\ i \in 0..MaxEntries
    BY <1>0, <1>1, EntriesAreTree, CompactionAssumption DEF CompactionTypeOK
<1>5. ASSUME NEW c \in path
      PROVE  /\ \A i \in PathIn(entries', c) : i \in PathIn(entries, c) /\ entries'[i].kind = entries[i].kind
             /\ \A i \in PathIn(entries, c) : i \in PathIn(entries', c) \/ entries[i].kind = "label"
             /\ \A i \in path : i < c => i \in PathIn(entries', c)
    <2>1. PathIn(entries', c) = {j \in DOMAIN entries' : j <= c}
        BY <1>1, PathOfNearest
    <2>2. \A j \in DOMAIN entries' : j <= c => j \in path
        BY <1>1, <1>4, DOMAIN entries' \subseteq 1..MaxEntries DEF Tree
    <2>3. c \in PathIn(entries, id) /\ PathIn(entries, c) = {j \in PathIn(entries, id) : j <= c}
        BY <1>4, PathBelow DEF Survivors
    <2>4. \A j \in path : j \in PathIn(entries, id)
        BY DEF Survivors
    <2>5. \A j \in PathIn(entries, id) : j \in path \/ entries[j].kind = "label"
        BY DEF Survivors, Kind
    <2>6. \A j \in path : j < c => j <= c
        BY <1>4
    <2> HIDE DEF path
    <2> QED
        BY <1>1, <2>1, <2>2, <2>3, <2>4, <2>5, <2>6
<1>6. MadeInv'
    <2> SUFFICES ASSUME NEW c \in DOMAIN entries', entries'[c].kind = "compaction"
                 PROVE  entries'[c].ref < c /\ Sound(entries', mislaid', PathIn(entries', c), entries'[c])
        BY DEF MadeInv, MadeSound
    <2>1. c \in path
        BY <1>1
    <2>2. /\ entries[c].ref < c /\ Sound(entries, mislaid, PathIn(entries, c), entries[c])
          /\ entries'[c].ref = entries[c].ref /\ entries'[c].users = entries[c].users
          /\ entries'[c].covers = entries[c].covers
        BY <1>0, <1>1, <2>1 DEF MadeInv, MadeSound
    <2>3. entries[c].ref \in PathIn(entries', c) \/ "unanchored" \in mislaid'
        <3>1. c \in Compactions(path)
            BY <1>1, <2>1 DEF Compactions, IsCompaction, Kind
        <3>2. CASE entries[c].ref \in path
            BY <1>5, <2>1, <2>2, <3>2
        <3>3. CASE entries[c].ref \notin path
            BY <1>2, <3>1, <3>3
        <3> QED
            BY <3>2, <3>3
    <2>4. mislaid \subseteq mislaid'
        BY <1>2
    <2> HIDE DEF path
    <2>5. Sound(entries', mislaid', PathIn(entries', c), entries'[c])
        BY <1>5, <2>1, <2>2, <2>3, <2>4, ThinnedSound
    <2> QED
        BY <2>2, <2>5
<1>7. CallsInv'
    <2> SUFFICES ASSUME NEW c \in DOMAIN entries', entries'[c].kind = "result", Whole(mislaid)
                 PROVE  Answerable(entries', PathIn(entries', c))
        BY <1>2 DEF CallsInv, Whole
    <2>1. c \in path
        BY <1>1
    <2>2. Answerable(entries, PathIn(entries, c))
        BY <1>0, <1>1, <2>1 DEF CallsInv
    <2> HIDE DEF path
    <2> QED
        BY <1>5, <2>1, <2>2, ThinnedAnswerable
<1>8. JobInv'
    BY <1>2 DEF JobInv
<1> QED
    BY <1>3, <1>6, <1>7, <1>8 DEF CompactionInv

-----------------------------------------------------------------------------
LEMMA CompactionBegins == CompactionInit => CompactionInv
<1> SUFFICES ASSUME CompactionInit PROVE CompactionInv
    OBVIOUS
<1>0. DOMAIN <<>> = {}
    OBVIOUS
<1>1. entries = <<>> /\ DOMAIN entries = {} /\ job = NoJob /\ ~running /\ running \in BOOLEAN
    BY <1>0 DEF CompactionInit
<1>2. CompactionTypeOK
    BY <1>1, CompactionAssumption DEF CompactionInit, CompactionTypeOK, NoJob
<1> QED
    BY <1>1, <1>2 DEF CompactionInv, CallsInv, JobInv, MadeInv, MadeSound

LEMMA CompactionSteps == CompactionInv /\ [CompactionNext]_compactionVars => CompactionInv'
<1> SUFFICES ASSUME CompactionInv, [CompactionNext]_compactionVars PROVE CompactionInv'
    OBVIOUS
<1>1. CASE \E kind \in Messages \ {"branch"} : Say(kind)
    BY <1>1, SayInv
<1>2. CASE \E kind \in Marks, target \in 0..MaxEntries : Mark(kind, target)
    BY <1>2, MarkInv
<1>3. CASE \E target \in DOMAIN entries, summarize \in BOOLEAN : Navigate(target, summarize)
    BY <1>3, NavigateInv
<1>4. CASE \E id \in DOMAIN entries : Fork(id)
    BY <1>4, ForkInv
<1>5. CASE \E tokens \in Budgets : Begin(tokens)
    BY <1>5, BeginInv
<1>6. CASE Apply
    BY <1>6, ApplyInv
<1>7. CASE Fail
    BY <1>7, FailInv
<1>8. CASE UNCHANGED compactionVars
    BY <1>8, StayInv
<1> QED
    BY <1>1, <1>2, <1>3, <1>4, <1>5, <1>6, <1>7, <1>8 DEF CompactionNext

LEMMA CompactionHolds == CompactionSpec => []CompactionInv
BY CompactionBegins, CompactionSteps, PTL DEF CompactionSpec

(* In every reachable state what the model is given (buildSessionContext)  *)
(* can be sent and has the user's words in it: no result is given without  *)
(* its call, and the first message of the user and the last ones are given *)
(* as they were written, through any number of compactions, branches and   *)
(* forks.  ContextSound names the moves of the leaf that are excepted.     *)
THEOREM GivenIsSound == CompactionSpec => []ContextSound
<1>1. CompactionInv => ContextSound
    BY InvUsersKept, InvCallsKept DEF CompactionInv, ContextSound
<1> QED
    BY <1>1, CompactionHolds, PTL

(* In every reachable state the messages on the way to the leaf are given  *)
(* to the model or have gone into the summary it is given, directly or     *)
(* through the summaries before (prepareCompaction), unless a compaction   *)
(* has lost the entry it keeps from.                                       *)
THEOREM NothingIsLost == CompactionSpec => []Accounted
BY InvAccounted, CompactionHolds, PTL
=============================================================================
