------------------------------ MODULE ImProofs ------------------------------
(***************************************************************************)
(* The two IM services for every set of messages, every depth of the       *)
(* queues, every length of a reply, every buffer and every ring: first the *)
(* parts the sender cuts off a reply, then Telegram, and last Feishu.      *)
(***************************************************************************)
EXTENDS Telegram, Feishu, SeqLemmas

-----------------------------------------------------------------------------
(* Parts of a reply.                                                       *)

(* A set of line ends has a last one.                                      *)
LEMMA LastOf ==
  ASSUME NEW B, B \subseteq Nat, B # {}, NEW max \in Nat, \A i \in B : i <= max
  PROVE  \E i \in B : \A j \in B : j <= i
<1> DEFINE C == {max - i : i \in B}
<1>1. C \subseteq Nat /\ C # {}
  <2>1. \A i \in B : i \in Nat /\ i <= max
    OBVIOUS
  <2>2. C \subseteq Nat
    BY <2>1
  <2>3. PICK i : i \in B
    OBVIOUS
  <2>4. max - i \in C
    BY <2>3
  <2>5. QED
    BY <2>2, <2>4
<1> HIDE DEF C
<1>2. PICK m \in C : \A k \in C : m <= k
  BY <1>1, LeastElement
<1>3. PICK i \in B : m = max - i
  BY DEF C
<1>4. ASSUME NEW j \in B PROVE j <= i
  <2>1. max - j \in C
    BY DEF C
  <2>2. max - i <= max - j
    BY <1>2, <1>3, <2>1
  <2>3. i \in Nat /\ j \in Nat
    OBVIOUS
  <2>4. QED
    BY <2>2, <2>3
<1>5. QED
  BY <1>4

(* im_find_chunk_end() makes progress and stays inside the text: a part is *)
(* never empty, never longer than what is left, and at most one character  *)
(* longer than what may be sent at once.                                   *)
THEOREM ChunkIsPart ==
  ASSUME NEW rest \in Nat \ {0}, NEW newlines \in SUBSET (0..(rest - 1)),
         NEW max \in Nat \ {0}
  PROVE  ChunkEnd(rest, newlines, max) \in 1..rest
         /\ ChunkEnd(rest, newlines, max) <= max + 1
<1> DEFINE B == Breaks(newlines, max)
<1>1. CASE rest <= max
  BY <1>1 DEF ChunkEnd
<1>2. CASE rest > max /\ B = {}
  <2>1. ~(rest <= max)
    BY <1>2
  <2>2. ChunkEnd(rest, newlines, max) = max
    BY <1>2, <2>1 DEF ChunkEnd
  <2>3. QED
    BY <1>2, <2>2
<1>3. CASE rest > max /\ B # {}
  <2>1. ~(rest <= max)
    BY <1>3
  <2>2. \A i \in B : i \in Nat /\ i <= max /\ i <= rest - 1
    BY DEF Breaks
  <2>3. \E i \in B : \A j \in B : j <= i
    <3>1. B \subseteq Nat /\ \A i \in B : i <= max
      BY <2>2
    <3> HIDE DEF B
    <3>2. QED
      BY <1>3, <3>1, LastOf
  <2>4. PICK c \in B : c = CHOOSE i \in B : \A j \in B : j <= i
    BY <2>3
  <2>5. ChunkEnd(rest, newlines, max) = 1 + c
    BY <1>3, <2>1, <2>4 DEF ChunkEnd
  <2>6. QED
    BY <2>2, <2>5
<1>4. QED
  BY <1>1, <1>2, <1>3

-----------------------------------------------------------------------------
(* Queues of messages.                                                     *)

LEMMA ElemsAppend ==
  ASSUME NEW S, NEW s \in Seq(S), NEW e \in S
  PROVE  Elems(Append(s, e)) = Elems(s) \cup ({e} \ {Result})
<1>1. ToSet(Append(s, e)) = ToSet(s) \cup {e}
  BY AppendElements
<1>2. \A t : Elems(t) = ToSet(t) \ {Result}
  BY DEF Elems, ToSet
<1>3. QED
  BY <1>1, <1>2

LEMMA ElemsIn ==
  ASSUME NEW s \in Seq(Ids \cup {Result})
  PROVE  Elems(s) \subseteq Ids
<1>1. \A i \in DOMAIN s : s[i] \in Ids \cup {Result}
  BY LenProperties
<1>2. QED
  BY <1>1 DEF Elems

LEMMA ElemsTail ==
  ASSUME NEW S, NEW s \in Seq(S), s # <<>>
  PROVE  /\ Elems(Tail(s)) \subseteq Elems(s) /\ Head(s) \in S
         /\ Head(s) # Result => Head(s) \in Elems(s)
         /\ InOrder(s) => /\ InOrder(Tail(s))
                          /\ Head(s) # Result =>
                               \A n \in Elems(Tail(s)) : Head(s) < n
<1>1. /\ Len(s) \in Nat /\ Len(s) >= 1 /\ DOMAIN s = 1..Len(s)
      /\ DOMAIN Tail(s) = 1..(Len(s) - 1) /\ Head(s) = s[1]
      /\ \A i \in 1..(Len(s) - 1) : Tail(s)[i] = s[i + 1]
      /\ 1 \in DOMAIN s /\ s[1] \in S
  BY HeadTailProperties, LenProperties, EmptySeq
<1>2. PICK t : t = Tail(s)
  OBVIOUS
<1>3. \A i \in DOMAIN t : i + 1 \in DOMAIN s /\ t[i] = s[i + 1] /\ 1 < i + 1
  BY <1>1, <1>2
<1>4. Elems(t) \subseteq Elems(s)
  BY <1>3 DEF Elems
<1>5. Head(s) # Result => Head(s) \in Elems(s)
  BY <1>1 DEF Elems
<1>6. ASSUME InOrder(s)
      PROVE  InOrder(t) /\ (Head(s) # Result => \A n \in Elems(t) : Head(s) < n)
  <2>1. InOrder(t)
    <3>1. \A i, j \in DOMAIN t : i < j => i + 1 < j + 1
      BY <1>1, <1>2
    <3>2. QED
      BY <1>3, <1>6, <3>1 DEF InOrder
  <2>2. ASSUME Head(s) # Result, NEW n \in Elems(t) PROVE Head(s) < n
    <3>1. PICK i \in DOMAIN t : n = t[i] /\ n # Result
      BY DEF Elems
    <3>2. QED
      BY <1>1, <1>3, <1>6, <2>2, <3>1 DEF InOrder
  <2>3. QED
    BY <2>1, <2>2
<1>7. QED
  BY <1>1, <1>2, <1>4, <1>5, <1>6

LEMMA OrderAppend ==
  ASSUME NEW S, NEW s \in Seq(S), NEW e \in S, InOrder(s),
         e # Result => \A m \in Elems(s) : m < e
  PROVE  InOrder(Append(s, e))
<1> DEFINE t == Append(s, e)
<1>1. /\ Len(s) \in Nat /\ DOMAIN s = 1..Len(s) /\ DOMAIN t = 1..(Len(s) + 1)
      /\ \A i \in 1..Len(s) : t[i] = s[i]
      /\ t[Len(s) + 1] = e
  BY AppendProperties, LenProperties
<1> HIDE DEF t
<1>2. ASSUME NEW i \in DOMAIN t, NEW j \in DOMAIN t, i < j,
             t[i] # Result, t[j] # Result
      PROVE  t[i] < t[j]
  <2>1. i \in DOMAIN s /\ t[i] = s[i]
    BY <1>1, <1>2
  <2>2. CASE j = Len(s) + 1
    BY <1>1, <1>2, <2>1, <2>2 DEF Elems
  <2>3. CASE j # Len(s) + 1
    <3>1. j \in DOMAIN s /\ t[j] = s[j]
      BY <1>1, <2>3
    <3>2. QED
      BY <1>2, <2>1, <3>1 DEF InOrder
  <2>4. QED
    BY <2>2, <2>3
<1>3. QED
  BY <1>2 DEF InOrder, t

LEMMA EmptyQueue ==
  /\ <<>> \in Seq(Ids) /\ <<>> \in Seq(Ids \cup {Result}) /\ Len(<<>>) = 0
  /\ Elems(<<>>) = {} /\ InOrder(<<>>)
BY DEF Elems, InOrder

(* A message moves one stage on, or leaves.                                *)
Apart(s) == \A a, b \in 1..6 : a < b => \A m \in s[a], n \in s[b] : m < n

LEMMA Move ==
  ASSUME NEW s, NEW t, Apart(s), NEW b \in 1..5, NEW m,
         \A c \in 1..6 : c # b => t[c] \subseteq s[c],
         t[b] \subseteq s[b] \cup {m}, m \in s[b + 1],
         \A n \in t[b + 1] : m < n
  PROVE  Apart(t)
<1>1. ASSUME NEW a \in 1..6, NEW c \in 1..6, a < c, NEW x \in t[a], NEW y \in t[c]
      PROVE  x < y
  <2>1. x \in s[a] \/ (a = b /\ x = m)
    OBVIOUS
  <2>2. y \in s[c] \/ (c = b /\ y = m)
    OBVIOUS
  <2>3. CASE x \in s[a] /\ y \in s[c]
    BY <1>1, <2>3 DEF Apart
  <2>4. CASE a = b /\ x = m
    <3>1. c # b /\ (c = b + 1 \/ b + 1 < c)
      BY <1>1, <2>4
    <3>2. c = b + 1 => x < y
      BY <2>4
    <3>3. b + 1 < c => x < y
      BY <2>2, <2>4, <3>1 DEF Apart
    <3>4. QED
      BY <3>1, <3>2, <3>3
  <2>5. CASE c = b /\ y = m /\ x \in s[a]
    <3>1. a < b + 1 /\ b + 1 \in 1..6
      BY <1>1, <2>5
    <3>2. QED
      BY <2>5, <3>1 DEF Apart
  <2>6. QED
    BY <2>1, <2>2, <2>3, <2>4, <2>5
<1>2. QED
  BY <1>1 DEF Apart

LEMMA Shrink ==
  ASSUME NEW s, NEW t, Apart(s), \A c \in 1..6 : t[c] \subseteq s[c]
  PROVE  Apart(t)
BY DEF Apart

-----------------------------------------------------------------------------
(* The invariant.                                                          *)

LEMMA StagesAre ==
  /\ Stages[1] = Elems(answers) /\ Stages[2] = {sender.msg} \ {Result}
  /\ Stages[3] = Elems(outbound) /\ Stages[4] = {worker.msg} \ {Result}
  /\ Stages[5] = Elems(inbound) /\ Stages[6] = Elems(batch)
BY DEF Stages

LEMMA StagesBecome ==
  /\ Stages'[1] = Elems(answers') /\ Stages'[2] = {sender.msg'} \ {Result}
  /\ Stages'[3] = Elems(outbound') /\ Stages'[4] = {worker.msg'} \ {Result}
  /\ Stages'[5] = Elems(inbound') /\ Stages'[6] = Elems(batch')
BY DEF Stages

LEMMA SixStages == \A c \in 1..6 : c = 1 \/ c = 2 \/ c = 3 \/ c = 4 \/ c = 5 \/ c = 6
OBVIOUS

(* What a request would confirm: at least what it confirmed last.          *)
LEMMA ConfirmsIs ==
  ASSUME TypeOK
  PROVE  Confirms \in Nat /\ confirmed <= Confirms /\ offset <= Confirms + 1
BY DEF TypeOK, Confirms

(* The three properties follow from what makes them inductive.             *)
LEMMA Strengthened ==
  TypeOK /\ AnsweredInOrder /\ BatchFollows /\ ConfirmsWereTaken /\ GoneInOrder
    => TelegramInv
<1> SUFFICES ASSUME TypeOK, AnsweredInOrder, BatchFollows, ConfirmsWereTaken,
                    GoneInOrder
             PROVE  TelegramInv
  OBVIOUS
<1>1. ConfirmedWereTaken
  <2>1. \A id \in Ids : id <= confirmed => id <= Confirms
    BY ConfirmsIs, RelayAssumption DEF TypeOK
  <2>2. QED
    BY <2>1 DEF ConfirmsWereTaken, ConfirmedWereTaken
<1>2. QueuesOutliveThreads
  BY DEF GoneInOrder, QueuesOutliveThreads
<1>3. QED
  BY <1>1, <1>2 DEF TelegramInv

LEMMA StrengthenedNext ==
  ASSUME TypeOK', AnsweredInOrder', BatchFollows', ConfirmsWereTaken', GoneInOrder'
  PROVE  TelegramInv'
<1>1. (TypeOK /\ AnsweredInOrder /\ BatchFollows /\ ConfirmsWereTaken
        /\ GoneInOrder => TelegramInv)'
  BY Strengthened, PTL
<1>2. QED
  BY <1>1

LEMMA InitInv == Init => TelegramInv
<1> SUFFICES ASSUME Init PROVE TelegramInv
  OBVIOUS
<1>1. TypeOK
  BY EmptyQueue, RelayAssumption DEF Init, RelayInit, TypeOK, RelayTypeOK, Result
<1>2. \A c \in 1..6 : Stages[c] = {}
  BY StagesAre, SixStages, EmptyQueue DEF Init, RelayInit
<1>3. AnsweredInOrder
  <2>1. \A a, b \in 1..6 : a < b => \A m \in Stages[a], n \in Stages[b] : m < n
    BY <1>2
  <2>2. QED
    BY <2>1, EmptyQueue DEF Init, RelayInit, AnsweredInOrder
<1>4. Confirms = 0 /\ 1..created = {}
  BY DEF Init, Confirms
<1>5. BatchFollows
  BY <1>4 DEF Init, BatchFollows
<1>6. ConfirmsWereTaken
  <2>1. \A id \in Ids : ~(id <= 0)
    BY RelayAssumption
  <2>2. \A a \in 1..5 : a \in 1..6
    OBVIOUS
  <2>3. QED
    BY <1>2, <1>4, <2>1, <2>2 DEF ConfirmsWereTaken
<1>7. GoneInOrder
  BY DEF Init, RelayInit, GoneInOrder
<1>8. QED
  BY <1>1, <1>3, <1>5, <1>6, <1>7, Strengthened

(* A step of the relay: the messages of each stage stay, leave, or one of  *)
(* them, the first of its stage, moves on.                                 *)
LEMMA RelayStep ==
  ASSUME TelegramInv, UNCHANGED poll, RelayTypeOK', GoneInOrder',
         InOrder(answers'), InOrder(outbound'), InOrder(inbound'),
         \/ \A c \in 1..5 : Stages'[c] \subseteq Stages[c]
         \/ \E b \in 1..4 : \E m \in Stages[b + 1] :
              /\ \A c \in 1..5 : c # b => Stages'[c] \subseteq Stages[c]
              /\ Stages'[b] \subseteq Stages[b] \cup {m}
              /\ \A n \in Stages'[b + 1] : m < n
  PROVE  TelegramInv'
<1>1. TypeOK'
  BY DEF poll, TelegramInv, TypeOK
<1>2. Confirms' = Confirms
  BY DEF poll, Confirms
<1>3. BatchFollows'
  BY <1>2 DEF poll, TelegramInv, BatchFollows
<1>4. Stages'[6] = Stages[6]
  BY StagesAre, StagesBecome DEF poll
<1>5. \A c \in 1..6 : c \in 1..5 \/ c = 6
  OBVIOUS
<1>6. Apart(Stages)
  BY DEF TelegramInv, AnsweredInOrder, Apart
<1>7. Apart(Stages') /\ \A c \in 1..5 : \A n \in Stages'[c] : n <= Confirms
  <2>1. CASE \A c \in 1..5 : Stages'[c] \subseteq Stages[c]
    <3>1. Apart(Stages')
      BY <1>4, <1>5, <1>6, <2>1, Shrink
    <3>2. QED
      BY <2>1, <3>1 DEF TelegramInv, ConfirmsWereTaken
  <2>2. ASSUME NEW b \in 1..4, NEW m \in Stages[b + 1],
               \A c \in 1..5 : c # b => Stages'[c] \subseteq Stages[c],
               Stages'[b] \subseteq Stages[b] \cup {m},
               \A n \in Stages'[b + 1] : m < n
        PROVE  Apart(Stages') /\ \A c \in 1..5 : \A n \in Stages'[c] : n <= Confirms
    <3>1. b \in 1..5 /\ b + 1 \in 1..5 /\ b # 6
      OBVIOUS
    <3>2. \A c \in 1..6 : c # b => Stages'[c] \subseteq Stages[c]
      BY <1>4, <1>5, <2>2
    <3>3. Apart(Stages')
      BY <1>6, <2>2, <3>1, <3>2, Move
    <3>4. \A c \in 1..5 : \A n \in Stages[c] : n <= Confirms
      BY DEF TelegramInv, ConfirmsWereTaken
    <3>5. QED
      BY <2>2, <3>1, <3>3, <3>4
  <2>3. QED
    BY <2>1, <2>2
<1>8. AnsweredInOrder'
  <2>1. InOrder(batch')
    BY DEF poll, TelegramInv, AnsweredInOrder
  <2>2. QED
    BY <1>7, <2>1 DEF AnsweredInOrder, Apart
<1>9. ConfirmsWereTaken'
  BY <1>2, <1>7 DEF poll, TelegramInv, ConfirmsWereTaken
<1>10. QED
  BY <1>1, <1>3, <1>8, <1>9, StrengthenedNext

(* What the invariant says of the relay's variables.                       *)
LEMMA RelayParts ==
  ASSUME TelegramInv
  PROVE  /\ inbound \in Seq(Ids) /\ Len(inbound) <= InboundDepth
         /\ outbound \in Seq(Ids \cup {Result}) /\ Len(outbound) <= OutboundDepth
         /\ answers \in Seq(Ids) /\ batch \in Seq(Ids)
         /\ InOrder(answers) /\ InOrder(outbound) /\ InOrder(inbound) /\ InOrder(batch)
         /\ Apart(Stages)
         /\ Result \notin Ids /\ Ids \subseteq Nat
BY RelayAssumption
   DEF TelegramInv, TypeOK, RelayTypeOK, AnsweredInOrder, Apart, Result

LEMMA WorkerRecvInv ==
  ASSUME TelegramInv, WorkerRecv, UNCHANGED poll
  PROVE  TelegramInv'
<1>1. PICK m : m = Head(inbound)
  OBVIOUS
<1>2. /\ Elems(inbound') \subseteq Elems(inbound) /\ m \in Ids /\ m \in Elems(inbound)
      /\ InOrder(inbound') /\ \A n \in Elems(inbound') : m < n
      /\ inbound' \in Seq(Ids) /\ Len(inbound') <= InboundDepth
  <2>1. inbound # <<>> /\ inbound' = Tail(inbound)
    BY DEF WorkerRecv
  <2>2. /\ Elems(inbound') \subseteq Elems(inbound) /\ m \in Ids /\ m \in Elems(inbound)
        /\ InOrder(inbound') /\ \A n \in Elems(inbound') : m < n
    BY <1>1, <2>1, RelayParts, ElemsTail
  <2>3. inbound' \in Seq(Ids) /\ Len(inbound') = Len(inbound) - 1 /\ Len(inbound) \in Nat
    BY <2>1, RelayParts, HeadTailProperties, LenProperties
  <2>4. QED
    BY <2>2, <2>3, RelayParts, RelayAssumption
<1>3. /\ worker' = [pc |-> "chat", msg |-> m]
      /\ UNCHANGED <<outbound, sender, stop, results, resets, answers>>
  BY <1>1 DEF WorkerRecv
<1>4. RelayTypeOK'
  BY <1>2, <1>3 DEF TelegramInv, TypeOK, RelayTypeOK
<1>5. GoneInOrder'
  BY <1>3 DEF TelegramInv, GoneInOrder, WorkerRecv, poll
<1>6. m \in Stages[4 + 1]
  BY <1>2, StagesAre
<1>7. \A n \in Stages'[4 + 1] : m < n
  BY <1>2, StagesBecome
<1>8. Stages'[4] \subseteq Stages[4] \cup {m}
  BY <1>3, StagesBecome
<1>9. \A c \in 1..5 : c # 4 => Stages'[c] \subseteq Stages[c]
  <2>1. /\ Stages'[1] \subseteq Stages[1] /\ Stages'[2] \subseteq Stages[2]
        /\ Stages'[3] \subseteq Stages[3] /\ Stages'[5] \subseteq Stages[5]
    BY <1>2, <1>3, StagesAre, StagesBecome
  <2>2. QED
    BY <2>1
<1>10. QED
  <2>1. \E b \in 1..4 : \E k \in Stages[b + 1] :
          /\ \A c \in 1..5 : c # b => Stages'[c] \subseteq Stages[c]
          /\ Stages'[b] \subseteq Stages[b] \cup {k}
          /\ \A n \in Stages'[b + 1] : k < n
    BY <1>6, <1>7, <1>8, <1>9
  <2>2. InOrder(answers') /\ InOrder(outbound')
    BY <1>3, RelayParts
  <2>3. QED
    BY <1>2, <1>4, <1>5, <2>1, <2>2, RelayStep

(* A step that only takes messages out of the stages.                      *)
LEMMA RelayLeaves ==
  ASSUME TelegramInv, UNCHANGED poll, RelayTypeOK', GoneInOrder',
         InOrder(answers'), InOrder(outbound'), InOrder(inbound'),
         Elems(answers') \subseteq Elems(answers),
         sender'.msg \in {sender.msg, Result},
         Elems(outbound') \subseteq Elems(outbound),
         worker'.msg \in {worker.msg, Result},
         Elems(inbound') \subseteq Elems(inbound)
  PROVE  TelegramInv'
<1>1. /\ Stages'[1] \subseteq Stages[1] /\ Stages'[2] \subseteq Stages[2]
      /\ Stages'[3] \subseteq Stages[3] /\ Stages'[4] \subseteq Stages[4]
      /\ Stages'[5] \subseteq Stages[5]
  BY StagesAre, StagesBecome
<1>2. \A c \in 1..5 : Stages'[c] \subseteq Stages[c]
  BY <1>1
<1>3. QED
  BY <1>2, RelayStep

(* A result of a scheduled task, or a reply that is dropped, adds nothing  *)
(* that has an order.                                                      *)
LEMMA ReplyQueue ==
  ASSUME TelegramInv, NEW m \in Ids \cup {Result}, EnqueueReply(m),
         m # Result => \A n \in Elems(outbound) : n < m
  PROVE  /\ outbound' \in Seq(Ids \cup {Result}) /\ Len(outbound') <= OutboundDepth
         /\ Elems(outbound') \subseteq Elems(outbound) \cup ({m} \ {Result})
         /\ InOrder(outbound')
<1>1. CASE UNCHANGED outbound
  BY <1>1, RelayParts
<1>2. CASE ~Full(outbound, OutboundDepth) /\ outbound' = Append(outbound, m)
  <2>1. Len(outbound) < OutboundDepth /\ Len(outbound) \in Nat
    BY <1>2, RelayParts, LenProperties, RelayAssumption DEF Full
  <2>2. outbound' \in Seq(Ids \cup {Result}) /\ Len(outbound') = Len(outbound) + 1
    BY <1>2, RelayParts, AppendProperties
  <2>3. Elems(outbound') = Elems(outbound) \cup ({m} \ {Result})
    BY <1>2, RelayParts, ElemsAppend
  <2>4. InOrder(outbound')
    BY <1>2, RelayParts, OrderAppend
  <2>5. QED
    BY <2>1, <2>2, <2>3, <2>4, RelayAssumption
<1>3. QED
  BY <1>1, <1>2 DEF EnqueueReply

LEMMA WorkerReplyInv ==
  ASSUME TelegramInv, WorkerReply, UNCHANGED poll
  PROVE  TelegramInv'
<1>1. PICK m \in Ids \cup {Result} : m = worker.msg
  BY DEF TelegramInv, TypeOK, RelayTypeOK
<1>2. /\ EnqueueReply(m) /\ worker' = [pc |-> Loop("ai"), msg |-> Result]
      /\ UNCHANGED <<inbound, sender, stop, results, resets, answers>>
  BY <1>1 DEF WorkerReply
<1>3. m # Result => \A n \in Elems(outbound) : n < m
  <2>1. m # Result => m \in Stages[4]
    BY <1>1, StagesAre
  <2>2. Stages[3] = Elems(outbound)
    BY StagesAre
  <2>3. Apart(Stages)
    BY RelayParts
  <2>4. QED
    BY <2>1, <2>2, <2>3 DEF Apart
<1>4. /\ outbound' \in Seq(Ids \cup {Result}) /\ Len(outbound') <= OutboundDepth
      /\ Elems(outbound') \subseteq Elems(outbound) \cup ({m} \ {Result})
      /\ InOrder(outbound')
  BY <1>2, <1>3, ReplyQueue
<1>5. RelayTypeOK'
  BY <1>2, <1>4 DEF TelegramInv, TypeOK, RelayTypeOK, Loop
<1>6. GoneInOrder'
  BY <1>2 DEF TelegramInv, GoneInOrder, WorkerReply, poll
<1>7. InOrder(answers') /\ InOrder(inbound')
  BY <1>2, RelayParts
<1>8. CASE m = Result
  BY <1>2, <1>4, <1>5, <1>6, <1>7, <1>8, RelayLeaves
<1>9. CASE m # Result
  <2>1. m \in Stages[3 + 1] /\ Stages'[3 + 1] = {}
    BY <1>1, <1>2, <1>9, StagesAre, StagesBecome
  <2>2. Stages'[3] \subseteq Stages[3] \cup {m}
    BY <1>4, StagesAre, StagesBecome
  <2>3. /\ Stages'[1] \subseteq Stages[1] /\ Stages'[2] \subseteq Stages[2]
        /\ Stages'[4] \subseteq Stages[4] /\ Stages'[5] \subseteq Stages[5]
    BY <1>2, StagesAre, StagesBecome
  <2>4. \E b \in 1..4 : \E k \in Stages[b + 1] :
          /\ \A c \in 1..5 : c # b => Stages'[c] \subseteq Stages[c]
          /\ Stages'[b] \subseteq Stages[b] \cup {k}
          /\ \A n \in Stages'[b + 1] : k < n
    <3>1. \A c \in 1..5 : c # 3 => Stages'[c] \subseteq Stages[c]
      BY <2>3
    <3>2. QED
      BY <2>1, <2>2, <3>1
  <2>5. QED
    BY <1>4, <1>5, <1>6, <1>7, <2>4, RelayStep
<1>10. QED
  BY <1>8, <1>9

LEMMA SenderRecvInv ==
  ASSUME TelegramInv, SenderRecv, UNCHANGED poll
  PROVE  TelegramInv'
<1>1. PICK m : m = Head(outbound)
  OBVIOUS
<1>2. /\ Elems(outbound') \subseteq Elems(outbound) /\ m \in Ids \cup {Result}
      /\ m # Result => m \in Elems(outbound) /\ \A n \in Elems(outbound') : m < n
      /\ InOrder(outbound')
      /\ outbound' \in Seq(Ids \cup {Result}) /\ Len(outbound') <= OutboundDepth
  <2>1. outbound # <<>> /\ outbound' = Tail(outbound)
    BY DEF SenderRecv
  <2>2. /\ Elems(outbound') \subseteq Elems(outbound) /\ m \in Ids \cup {Result}
        /\ m # Result => m \in Elems(outbound) /\ \A n \in Elems(outbound') : m < n
        /\ InOrder(outbound')
    BY <1>1, <2>1, RelayParts, ElemsTail
  <2>3. /\ outbound' \in Seq(Ids \cup {Result})
        /\ Len(outbound') = Len(outbound) - 1 /\ Len(outbound) \in Nat
    BY <2>1, RelayParts, HeadTailProperties, LenProperties
  <2>4. QED
    BY <2>2, <2>3, RelayParts, RelayAssumption
<1>3. PICK length \in 1..MaxReply :
        /\ sender' = [pc |-> "send", msg |-> m, rest |-> length]
        /\ UNCHANGED <<inbound, worker, stop, results, resets, answers>>
  BY <1>1 DEF SenderRecv
<1>4. RelayTypeOK'
  BY <1>2, <1>3 DEF TelegramInv, TypeOK, RelayTypeOK
<1>5. GoneInOrder'
  BY <1>3 DEF TelegramInv, GoneInOrder, SenderRecv, poll
<1>6. InOrder(answers') /\ InOrder(inbound')
  BY <1>3, RelayParts
<1>7. CASE m = Result
  BY <1>2, <1>3, <1>4, <1>5, <1>6, <1>7, RelayLeaves
<1>8. CASE m # Result
  <2>1. m \in Stages[2 + 1] /\ \A n \in Stages'[2 + 1] : m < n
    BY <1>2, <1>8, StagesAre, StagesBecome
  <2>2. Stages'[2] \subseteq Stages[2] \cup {m}
    BY <1>3, StagesBecome
  <2>3. /\ Stages'[1] \subseteq Stages[1] /\ Stages'[3] \subseteq Stages[3]
        /\ Stages'[4] \subseteq Stages[4] /\ Stages'[5] \subseteq Stages[5]
    BY <1>2, <1>3, StagesAre, StagesBecome
  <2>4. \E b \in 1..4 : \E k \in Stages[b + 1] :
          /\ \A c \in 1..5 : c # b => Stages'[c] \subseteq Stages[c]
          /\ Stages'[b] \subseteq Stages[b] \cup {k}
          /\ \A n \in Stages'[b + 1] : k < n
    <3>1. \A c \in 1..5 : c # 2 => Stages'[c] \subseteq Stages[c]
      BY <2>3
    <3>2. QED
      BY <2>1, <2>2, <3>1
  <2>5. QED
    BY <1>2, <1>4, <1>5, <1>6, <2>4, RelayStep
<1>9. QED
  BY <1>7, <1>8

(* The last part of a reply answers the message; until then the text only  *)
(* gets shorter.                                                           *)
LEMMA PartSentInv ==
  ASSUME TelegramInv, PartSent, UNCHANGED poll
  PROVE  TelegramInv'
<1>1. PICK newlines, rest :
        /\ newlines \in SUBSET (0..(sender.rest - 1))
        /\ rest = sender.rest - ChunkEnd(sender.rest, newlines, MaxMsgLen)
        /\ IF rest > 0
           THEN sender' = [sender EXCEPT !.rest = rest] /\ UNCHANGED answers
           ELSE /\ sender' = [pc |-> Loop("out"), msg |-> Result, rest |-> 0]
                /\ answers' = IF sender.msg = Result THEN answers
                              ELSE Append(answers, sender.msg)
  BY DEF PartSent
<1>2. UNCHANGED <<inbound, outbound, worker, stop, results, resets>>
      /\ sender.pc = "send"
  BY DEF PartSent
<1>3. PICK m \in Ids \cup {Result} : m = sender.msg /\ sender.rest \in Nat
  BY DEF TelegramInv, TypeOK, RelayTypeOK
<1>4. GoneInOrder'
  BY <1>2 DEF TelegramInv, GoneInOrder, poll
<1>5. InOrder(outbound') /\ InOrder(inbound')
  BY <1>2, RelayParts
<1>6. CASE rest > 0
  <2>1. rest \in Nat
    <3>1. CASE sender.rest = 0
      <4>1. ChunkEnd(0, newlines, MaxMsgLen) = 0
        BY RelayAssumption DEF ChunkEnd
      <4>2. QED
        BY <1>1, <3>1, <4>1
    <3>2. CASE sender.rest # 0
      <4>1. PICK r \in Nat \ {0} : r = sender.rest
        BY <1>3, <3>2
      <4>2. newlines \in SUBSET (0..(r - 1)) /\ MaxMsgLen \in Nat \ {0}
        BY <1>1, <4>1, RelayAssumption
      <4>3. ChunkEnd(r, newlines, MaxMsgLen) \in 1..r
        BY <4>2, ChunkIsPart
      <4>4. QED
        BY <1>1, <4>1, <4>3
    <3>3. QED
      BY <3>1, <3>2
  <2>2. sender' = [sender EXCEPT !.rest = rest] /\ answers' = answers
    BY <1>1, <1>6
  <2>3. RelayTypeOK' /\ sender'.msg = sender.msg
    BY <1>2, <2>1, <2>2 DEF TelegramInv, TypeOK, RelayTypeOK
  <2>4. QED
    BY <1>2, <1>4, <1>5, <2>2, <2>3, RelayParts, RelayLeaves
<1>7. CASE ~(rest > 0) /\ m = Result
  <2>1. sender' = [pc |-> Loop("out"), msg |-> Result, rest |-> 0]
        /\ answers' = answers
    BY <1>1, <1>3, <1>7
  <2>2. RelayTypeOK'
    BY <1>2, <2>1 DEF TelegramInv, TypeOK, RelayTypeOK, Loop
  <2>3. QED
    BY <1>2, <1>4, <1>5, <2>1, <2>2, RelayParts, RelayLeaves
<1>8. CASE ~(rest > 0) /\ m # Result
  <2>1. sender' = [pc |-> Loop("out"), msg |-> Result, rest |-> 0]
        /\ answers' = Append(answers, m) /\ m \in Ids
    BY <1>1, <1>3, <1>8
  <2>2. answers' \in Seq(Ids)
    BY <2>1, RelayParts, AppendProperties
  <2>3. RelayTypeOK'
    BY <1>2, <2>1, <2>2 DEF TelegramInv, TypeOK, RelayTypeOK, Loop
  <2>4. m \in Stages[1 + 1] /\ Stages'[1 + 1] = {}
    BY <1>3, <1>8, <2>1, StagesAre, StagesBecome
  <2>5. \A n \in Elems(answers) : n < m
    <3>1. Apart(Stages) /\ Stages[1] = Elems(answers) /\ m \in Stages[2]
      BY <2>4, RelayParts, StagesAre
    <3>2. QED
      BY <3>1 DEF Apart
  <2>6. InOrder(answers')
    BY <2>1, <2>5, RelayParts, OrderAppend
  <2>7. Stages'[1] \subseteq Stages[1] \cup {m}
    <3>1. Elems(answers') = Elems(answers) \cup ({m} \ {Result})
      BY <2>1, RelayParts, ElemsAppend
    <3>2. QED
      BY <3>1, StagesAre, StagesBecome
  <2>8. /\ Stages'[2] \subseteq Stages[2] /\ Stages'[3] \subseteq Stages[3]
        /\ Stages'[4] \subseteq Stages[4] /\ Stages'[5] \subseteq Stages[5]
    BY <1>2, <2>1, StagesAre, StagesBecome
  <2>9. \E b \in 1..4 : \E k \in Stages[b + 1] :
          /\ \A c \in 1..5 : c # b => Stages'[c] \subseteq Stages[c]
          /\ Stages'[b] \subseteq Stages[b] \cup {k}
          /\ \A n \in Stages'[b + 1] : k < n
    <3>1. \A c \in 1..5 : c # 1 => Stages'[c] \subseteq Stages[c]
      BY <2>8
    <3>2. QED
      BY <2>4, <2>7, <3>1
  <2>10. QED
    BY <1>4, <1>5, <2>3, <2>6, <2>9, RelayStep
<1>9. QED
  BY <1>6, <1>7, <1>8

(* The steps of the relay that put no message anywhere.                    *)
LEMMA RelayQuietInv ==
  ASSUME TelegramInv, UNCHANGED poll,
         \/ WorkerExit \/ PartFailed \/ SenderExit \/ ScheduledReply
         \/ StopCall \/ JoinWorker \/ JoinSender
  PROVE  TelegramInv'
<1>1. CASE WorkerExit \/ PartFailed \/ SenderExit
  <2>1. /\ UNCHANGED <<inbound, outbound, stop, results, resets, answers>>
        /\ sender'.msg \in {sender.msg, Result} /\ worker'.msg \in {worker.msg, Result}
    BY <1>1 DEF WorkerExit, PartFailed, SenderExit, TelegramInv, TypeOK, RelayTypeOK
  <2>2. RelayTypeOK'
    <3>1. RelayTypeOK
      BY DEF TelegramInv, TypeOK
    <3>2. CASE WorkerExit
      BY <2>1, <3>1, <3>2 DEF WorkerExit, RelayTypeOK
    <3>3. CASE PartFailed
      BY <2>1, <3>1, <3>3 DEF PartFailed, Loop, RelayTypeOK
    <3>4. CASE SenderExit
      BY <2>1, <3>1, <3>4 DEF SenderExit, RelayTypeOK
    <3>5. QED
      BY <1>1, <3>2, <3>3, <3>4
  <2>3. GoneInOrder'
    BY <1>1, <2>1 DEF WorkerExit, PartFailed, SenderExit,
                      TelegramInv, TypeOK, RelayTypeOK, GoneInOrder, poll
  <2>4. QED
    BY <2>1, <2>2, <2>3, RelayParts, RelayLeaves
<1>2. CASE ScheduledReply
  <2>1. /\ UNCHANGED <<inbound, worker, sender, stop, resets, answers>>
        /\ results' = results + 1 /\ EnqueueReply(Result)
    BY <1>2 DEF ScheduledReply
  <2>2. /\ outbound' \in Seq(Ids \cup {Result}) /\ Len(outbound') <= OutboundDepth
        /\ Elems(outbound') \subseteq Elems(outbound) /\ InOrder(outbound')
    BY <2>1, ReplyQueue
  <2>3. RelayTypeOK' /\ GoneInOrder'
    BY <2>1, <2>2 DEF TelegramInv, TypeOK, RelayTypeOK, GoneInOrder, poll
  <2>4. QED
    BY <2>1, <2>2, <2>3, RelayParts, RelayLeaves
<1>3. CASE StopCall \/ JoinWorker
  <2>1. /\ UNCHANGED <<inbound, outbound, worker, sender, results, resets, answers>>
        /\ \/ stop' = "front"
           \/ stop = "ai" /\ worker.pc = "gone" /\ stop' = "out"
    BY <1>3 DEF StopCall, JoinWorker, Join
  <2>2. RelayTypeOK' /\ GoneInOrder'
    BY <2>1 DEF TelegramInv, TypeOK, RelayTypeOK, GoneInOrder, poll
  <2>3. QED
    BY <2>1, <2>2, RelayParts, RelayLeaves
<1>4. CASE JoinSender
  <2>1. /\ stop = "out" /\ sender.pc = "gone" /\ stop' = "down"
        /\ inbound' = <<>> /\ outbound' = <<>>
        /\ UNCHANGED <<worker, sender, results, resets, answers>>
    BY <1>4 DEF JoinSender
  <2>2. RelayTypeOK'
    BY <2>1, EmptyQueue, RelayAssumption DEF TelegramInv, TypeOK, RelayTypeOK
  <2>3. GoneInOrder'
    BY <2>1 DEF TelegramInv, GoneInOrder, poll
  <2>4. QED
    BY <2>1, <2>2, <2>3, EmptyQueue, RelayParts, RelayLeaves
<1>5. QED
  BY <1>1, <1>2, <1>3, <1>4

(* What the poll thread has in its hand is not confirmed by a request yet. *)
LEMMA BatchAhead ==
  ASSUME TelegramInv
  PROVE  \A n \in Elems(batch) : Confirms < n
<1>1. Confirms \in Nat /\ Len(batch) \in Nat /\ DOMAIN batch = 1..Len(batch)
  BY ConfirmsIs, RelayParts, LenProperties DEF TelegramInv
<1>2. \A i \in DOMAIN batch : batch[i] = Confirms + i
  BY DEF TelegramInv, BatchFollows
<1>3. QED
  BY <1>1, <1>2 DEF Elems

(* What is under way, is among what a request would confirm.               *)
LEMMA StagesTaken ==
  ASSUME TelegramInv
  PROVE  \A c \in 1..5 : \A n \in Stages[c] : n <= Confirms /\ n \in Ids
<1>1. \A c \in 1..5 : \A n \in Stages[c] : n <= Confirms
  BY DEF TelegramInv, ConfirmsWereTaken
<1>2. /\ Stages[1] \subseteq Ids /\ Stages[2] \subseteq Ids /\ Stages[3] \subseteq Ids
      /\ Stages[4] \subseteq Ids /\ Stages[5] \subseteq Ids
  <2>1. \A s \in Seq(Ids \cup {Result}) : Elems(s) \subseteq Ids
    BY ElemsIn
  <2>2. answers \in Seq(Ids \cup {Result}) /\ inbound \in Seq(Ids \cup {Result})
    BY RelayParts
  <2>3. sender.msg \in Ids \cup {Result} /\ worker.msg \in Ids \cup {Result}
    BY DEF TelegramInv, TypeOK, RelayTypeOK
  <2>4. QED
    BY <2>1, <2>2, <2>3, RelayParts, StagesAre
<1>3. QED
  BY <1>1, <1>2

(* A step of the poll thread that leaves the relay alone and what a        *)
(* request would confirm.                                                  *)
LEMMA PollStep ==
  ASSUME TelegramInv, UNCHANGED relay, TypeOK', BatchFollows', GoneInOrder',
         UNCHANGED fate, Confirms' = Confirms,
         InOrder(batch'), \A n \in Elems(batch') : Confirms < n
  PROVE  TelegramInv'
<1>1. \A c \in 1..5 : Stages'[c] = Stages[c]
  <2>1. /\ Stages'[1] = Stages[1] /\ Stages'[2] = Stages[2]
        /\ Stages'[3] = Stages[3] /\ Stages'[4] = Stages[4]
        /\ Stages'[5] = Stages[5]
    BY StagesAre, StagesBecome DEF relay
  <2>2. QED
    BY <2>1
<1>2. Confirms \in Nat /\ \A c \in 1..5 : \A n \in Stages[c] : n \in Nat /\ n <= Confirms
  <2>1. Confirms \in Nat
    BY ConfirmsIs DEF TelegramInv
  <2>2. QED
    BY <2>1, StagesTaken, RelayParts
<1>3. Apart(Stages')
  <2>1. ASSUME NEW a \in 1..6, NEW c \in 1..6, a < c,
               NEW m \in Stages'[a], NEW n \in Stages'[c]
        PROVE  m < n
    <3>1. a \in 1..5 /\ (c \in 1..5 \/ c = 6)
      BY <2>1
    <3>2. CASE c \in 1..5
      BY <1>1, <2>1, <3>1, <3>2, RelayParts DEF Apart
    <3>3. CASE c = 6
      <4>1. n \in Elems(batch') /\ m \in Nat /\ m <= Confirms
        BY <1>1, <1>2, <3>1, <3>3, StagesBecome
      <4>2. n \in Nat
        <5>1. batch' \in Seq(Ids \cup {Result})
          BY DEF TypeOK
        <5>2. QED
          BY <4>1, <5>1, ElemsIn, RelayParts
      <4>3. QED
        BY <1>2, <4>1, <4>2
    <3>4. QED
      BY <3>1, <3>2, <3>3
  <2>2. QED
    BY <2>1 DEF Apart
<1>4. AnsweredInOrder'
  BY <1>3, RelayParts DEF relay, AnsweredInOrder, Apart
<1>5. ConfirmsWereTaken'
  BY <1>1 DEF TelegramInv, ConfirmsWereTaken
<1>6. QED
  BY <1>4, <1>5, StrengthenedNext

LEMMA UpdateInv ==
  ASSUME TelegramInv, Update
  PROVE  TelegramInv'
<1>1. /\ created + 1 \in Ids /\ created' = created + 1
      /\ UNCHANGED <<relay, confirmed, offset, front, batch, fate>>
  BY DEF Update
<1>2. Confirms' = Confirms
  BY <1>1 DEF Confirms
<1>3. TypeOK'
  BY <1>1 DEF TelegramInv, TypeOK, RelayTypeOK, relay
<1>4. BatchFollows'
  <2>1. created \in Nat /\ 1..created \subseteq Ids
    BY DEF TelegramInv, TypeOK, BatchFollows
  <2>2. 1..created' \subseteq Ids
    BY <1>1, <2>1
  <2>3. QED
    BY <1>1, <1>2, <2>2 DEF TelegramInv, BatchFollows
<1>5. GoneInOrder'
  BY <1>1 DEF TelegramInv, GoneInOrder, relay
<1>6. \A n \in Elems(batch) : Confirms < n
  BY BatchAhead
<1>7. QED
  BY <1>1, <1>2, <1>3, <1>4, <1>5, <1>6, RelayParts, PollStep

LEMMA PollInv ==
  ASSUME TelegramInv, Poll
  PROVE  TelegramInv'
<1>1. /\ front = "recv" /\ Backlog # {} /\ confirmed' = Confirms
      /\ UNCHANGED <<relay, created, offset, fate>>
      /\ \/ /\ batch' = [i \in 1..(created - Confirms) |-> Confirms + i]
            /\ front' = "batch"
         \/ front' = Loop("front") /\ UNCHANGED batch
  BY DEF Poll
<1>2. Confirms \in Nat /\ created \in Nat /\ 1..created \subseteq Ids
  BY ConfirmsIs DEF TelegramInv, TypeOK, BatchFollows
<1>3. Confirms' = Confirms
  BY <1>1, ConfirmsIs DEF Confirms, TelegramInv, TypeOK
<1>4. batch = <<>>
  BY <1>1 DEF TelegramInv, BatchFollows
<1>5. GoneInOrder'
  BY <1>1 DEF TelegramInv, GoneInOrder, relay
<1>6. CASE /\ batch' = [i \in 1..(created - Confirms) |-> Confirms + i]
           /\ front' = "batch"
  <2>1. created - Confirms \in Nat /\ created - Confirms # 0
    BY <1>1, <1>2 DEF Backlog
  <2>2. \A i \in 1..(created - Confirms) : Confirms + i \in Ids
    BY <1>2
  <2>3. /\ batch' \in Seq(Ids) /\ Len(batch') = created - Confirms
        /\ DOMAIN batch' = 1..(created - Confirms)
        /\ \A i \in DOMAIN batch' : batch'[i] = Confirms + i
    <3>1. batch' \in [1..(created - Confirms) -> Ids]
      BY <1>6, <2>2
    <3>2. batch' \in Seq(Ids)
      BY <2>1, <3>1, SeqDef
    <3>3. QED
      BY <1>6, <2>1, <3>2, LenProperties
  <2>4. batch' # <<>>
    BY <2>1, <2>3, EmptySeq
  <2>5. TypeOK'
    BY <1>1, <1>2, <1>6, <2>3 DEF TelegramInv, TypeOK, RelayTypeOK, relay
  <2>6. BatchFollows'
    BY <1>1, <1>2, <1>3, <1>6, <2>3, <2>4 DEF BatchFollows
  <2>7. InOrder(batch')
    BY <1>2, <2>3 DEF InOrder
  <2>8. \A n \in Elems(batch') : Confirms < n
    BY <1>2, <2>3 DEF Elems
  <2>9. QED
    BY <1>1, <1>3, <1>5, <2>5, <2>6, <2>7, <2>8, PollStep
<1>7. CASE front' = Loop("front") /\ UNCHANGED batch
  <2>1. front' \in {"recv", "gone"}
    BY <1>7 DEF Loop
  <2>2. TypeOK'
    BY <1>1, <1>2, <1>7, <2>1 DEF TelegramInv, TypeOK, RelayTypeOK, relay
  <2>3. BatchFollows'
    BY <1>1, <1>2, <1>3, <1>4, <1>7, <2>1 DEF TelegramInv, BatchFollows
  <2>4. InOrder(batch') /\ \A n \in Elems(batch') : Confirms < n
    BY <1>4, <1>7, EmptyQueue
  <2>5. QED
    BY <1>1, <1>3, <1>5, <2>2, <2>3, <2>4, PollStep
<1>8. QED
  BY <1>1, <1>6, <1>7

LEMMA PollFailedInv ==
  ASSUME TelegramInv, PollFailed
  PROVE  TelegramInv'
<1>1. /\ front = "recv" /\ confirmed' \in {confirmed, Confirms}
      /\ front' = Loop("front")
      /\ UNCHANGED <<relay, created, offset, batch, fate>>
  BY DEF PollFailed
<1>2. Confirms \in Nat
  BY ConfirmsIs DEF TelegramInv
<1>3. Confirms' = Confirms
  BY <1>1, ConfirmsIs DEF Confirms, TelegramInv, TypeOK
<1>4. batch = <<>>
  BY <1>1 DEF TelegramInv, BatchFollows
<1>5. GoneInOrder'
  BY <1>1 DEF TelegramInv, GoneInOrder, relay
<1>6. front' \in {"recv", "gone"}
  BY <1>1 DEF Loop
<1>7. TypeOK'
  BY <1>1, <1>2, <1>6 DEF TelegramInv, TypeOK, RelayTypeOK, relay
<1>8. BatchFollows'
  BY <1>1, <1>3, <1>4, <1>6 DEF TelegramInv, BatchFollows
<1>9. InOrder(batch') /\ \A n \in Elems(batch') : Confirms < n
  BY <1>1, <1>4, EmptyQueue
<1>10. QED
  BY <1>1, <1>3, <1>5, <1>7, <1>8, <1>9, PollStep

LEMMA JoinPollInv ==
  ASSUME TelegramInv, JoinPoll
  PROVE  TelegramInv'
<1>1. /\ stop = "front" /\ front = "gone" /\ stop' = "ai" /\ UNCHANGED poll
      /\ UNCHANGED <<inbound, outbound, worker, sender, results, resets, answers>>
  BY DEF JoinPoll, Join
<1>2. RelayTypeOK'
  BY <1>1 DEF TelegramInv, TypeOK, RelayTypeOK
<1>3. GoneInOrder'
  BY <1>1 DEF TelegramInv, GoneInOrder, poll
<1>4. QED
  BY <1>1, <1>2, <1>3, RelayParts, RelayLeaves

(* The update in turn is the one after those a request would confirm, and  *)
(* with it the offset moves on by one.                                     *)
LEMMA NextUpdate ==
  ASSUME TelegramInv, ProcessUpdate
  PROVE  /\ Head(batch) = Confirms + 1 /\ Head(batch) \in Ids
         /\ offset' = Head(batch) + 1 /\ Confirms' = Head(batch)
<1>1. batch # <<>>
  BY DEF ProcessUpdate, TelegramInv, BatchFollows
<1>2. /\ 1 \in DOMAIN batch /\ Head(batch) = batch[1] /\ batch[1] \in Ids
  BY <1>1, RelayParts, HeadTailProperties, LenProperties, EmptySeq
<1>3. Head(batch) = Confirms + 1
  BY <1>2 DEF TelegramInv, BatchFollows
<1>4. Confirms \in Nat /\ confirmed \in Nat /\ confirmed <= Confirms
      /\ offset \in Nat /\ offset <= Confirms + 1
  BY ConfirmsIs DEF TelegramInv, TypeOK
<1>5. offset' = Head(batch) + 1 /\ confirmed' = confirmed
  <2>1. offset' = PastUpdate(Head(batch)) /\ confirmed' = confirmed
    BY DEF ProcessUpdate
  <2>2. Head(batch) >= offset
    BY <1>3, <1>4
  <2>3. QED
    BY <2>1, <2>2 DEF PastUpdate
<1>6. Confirms' = Head(batch)
  BY <1>3, <1>4, <1>5 DEF Confirms
<1>7. QED
  BY <1>2, <1>3, <1>5, <1>6

LEMMA ProcessUpdateInv ==
  ASSUME TelegramInv, ProcessUpdate
  PROVE  TelegramInv'
<1>1. PICK m : m = Head(batch)
  OBVIOUS
<1>2. /\ m = Confirms + 1 /\ m \in Ids /\ m # Result /\ m \in Nat
      /\ offset' = m + 1 /\ Confirms' = m /\ Confirms \in Nat
  BY <1>1, NextUpdate, RelayParts, ConfirmsIs DEF TelegramInv
<1>3. /\ front = "batch" /\ batch' = Tail(batch)
      /\ front' = IF Len(batch) = 1 THEN Loop("front") ELSE "batch"
      /\ UNCHANGED <<outbound, worker, sender, stop, results, resets, answers,
                     created, confirmed>>
      /\ \/ QueueInbound(m)
         \/ UNCHANGED inbound
      /\ \E f \in {"queued", "dropped", "ignored"} : fate' = [fate EXCEPT ![m] = f]
  BY <1>1 DEF ProcessUpdate
<1>4. batch # <<>>
  BY <1>3 DEF TelegramInv, BatchFollows
<1>5. /\ Len(batch) \in Nat /\ Len(batch) >= 1 /\ DOMAIN batch = 1..Len(batch)
      /\ batch' \in Seq(Ids) /\ Len(batch') = Len(batch) - 1
      /\ DOMAIN batch' = 1..(Len(batch) - 1)
      /\ \A i \in 1..(Len(batch) - 1) : batch'[i] = batch[i + 1]
  BY <1>3, <1>4, RelayParts, HeadTailProperties, LenProperties, EmptySeq
<1>6. \A i \in DOMAIN batch' : batch'[i] = m + i
  <2>1. \A i \in DOMAIN batch : batch[i] = Confirms + i
    BY DEF TelegramInv, BatchFollows
  <2>2. ASSUME NEW i \in DOMAIN batch' PROVE batch'[i] = m + i
    <3>1. i \in 1..(Len(batch) - 1) /\ i + 1 \in DOMAIN batch /\ i \in Nat
      BY <1>5
    <3>2. batch'[i] = Confirms + (i + 1)
      BY <1>5, <2>1, <3>1
    <3>3. QED
      BY <1>2, <3>1, <3>2
  <2>3. QED
    BY <2>2
<1>7. InOrder(batch') /\ \A n \in Elems(batch') : m < n
  BY <1>2, <1>5, <1>6 DEF InOrder, Elems
<1>8. \A n \in Elems(inbound) : n < m
  <2>1. \A n \in Stages[5] : n <= Confirms
    BY DEF TelegramInv, ConfirmsWereTaken
  <2>2. Elems(inbound) \subseteq Nat
    <3>1. inbound \in Seq(Ids \cup {Result})
      BY RelayParts
    <3>2. QED
      BY <3>1, ElemsIn, RelayParts
  <2>3. QED
    BY <1>2, <2>1, <2>2, StagesAre
<1>9. /\ inbound' \in Seq(Ids) /\ Len(inbound') <= InboundDepth
      /\ InOrder(inbound') /\ Elems(inbound') \subseteq Elems(inbound) \cup {m}
  <2>1. CASE UNCHANGED inbound
    BY <2>1, RelayParts
  <2>2. CASE Len(inbound) < InboundDepth /\ inbound' = Append(inbound, m)
    <3>1. inbound' \in Seq(Ids) /\ Len(inbound') = Len(inbound) + 1
      BY <1>2, <2>2, RelayParts, AppendProperties
    <3>2. Len(inbound') <= InboundDepth
      BY <2>2, <3>1, RelayParts, LenProperties, RelayAssumption
    <3>3. InOrder(inbound')
      BY <1>2, <1>8, <2>2, RelayParts, OrderAppend
    <3>4. Elems(inbound') = Elems(inbound) \cup ({m} \ {Result})
      BY <1>2, <2>2, RelayParts, ElemsAppend
    <3>5. QED
      BY <3>1, <3>2, <3>3, <3>4
  <2>3. Len(inbound) \in Nat /\ InboundDepth \in Nat
    BY RelayParts, LenProperties, RelayAssumption
  <2>4. QED
    BY <1>3, <2>1, <2>2, <2>3 DEF QueueInbound, Full
<1>10. front' \in {"recv", "batch", "gone"} /\ (front' = "batch" <=> batch' # <<>>)
  <2>1. front' = "batch" <=> Len(batch) # 1
    BY <1>3 DEF Loop
  <2>2. batch' = <<>> <=> Len(batch') = 0
    BY <1>5, EmptySeq
  <2>3. QED
    BY <1>3, <1>5, <2>1, <2>2 DEF Loop
<1>11. /\ fate' \in [Ids -> {"new", "queued", "dropped", "ignored"}]
       /\ fate'[m] # "new" /\ \A id \in Ids : id # m => fate'[id] = fate[id]
  <2>1. fate \in [Ids -> {"new", "queued", "dropped", "ignored"}]
    BY DEF TelegramInv, TypeOK
  <2>2. QED
    BY <1>2, <1>3, <2>1
<1>12. TypeOK'
  <2>1. TypeOK
    BY DEF TelegramInv
  <2>2. RelayTypeOK'
    BY <1>3, <1>9, <2>1 DEF TypeOK, RelayTypeOK
  <2>3. offset' \in Nat
    BY <1>2
  <2>4. QED
    BY <1>3, <1>5, <1>10, <1>11, <2>1, <2>2, <2>3 DEF TypeOK
<1>13. BatchFollows'
  BY <1>2, <1>3, <1>6, <1>10 DEF TelegramInv, BatchFollows
<1>14. GoneInOrder'
  BY <1>3 DEF TelegramInv, GoneInOrder
<1>15. /\ Stages'[1] = Stages[1] /\ Stages'[2] = Stages[2]
       /\ Stages'[3] = Stages[3] /\ Stages'[4] = Stages[4]
       /\ Stages'[5] \subseteq Stages[5] \cup {m}
       /\ Stages'[6] = Elems(batch')
  BY <1>3, <1>9, StagesAre, StagesBecome
<1>16. m \in Stages[6] /\ Stages'[6] \subseteq Stages[6]
  <2>1. batch \in Seq(Ids \cup {Result})
    BY RelayParts
  <2>2. m \in Elems(batch) /\ Elems(batch') \subseteq Elems(batch)
    BY <1>1, <1>2, <1>3, <1>4, <2>1, ElemsTail
  <2>3. QED
    BY <2>2, StagesAre, StagesBecome
<1>17. Apart(Stages')
  <2>1. PICK b \in 1..5 : b = 5 /\ b + 1 = 6
    OBVIOUS
  <2>2. \A c \in 1..6 : c # b => Stages'[c] \subseteq Stages[c]
    BY <1>15, <1>16, <2>1, SixStages
  <2>3. \A n \in Stages'[b + 1] : m < n
    BY <1>7, <1>15, <2>1
  <2>4. m \in Stages[b + 1] /\ Stages'[b] \subseteq Stages[b] \cup {m}
    BY <1>15, <1>16, <2>1
  <2>5. Apart(Stages)
    BY RelayParts
  <2>6. QED
    BY <2>2, <2>3, <2>4, <2>5, Move
<1>18. AnsweredInOrder'
  BY <1>3, <1>7, <1>9, <1>17, RelayParts DEF AnsweredInOrder, Apart
<1>19. ConfirmsWereTaken'
  <2>1. \A id \in Ids : id <= m => fate'[id] # "new"
    BY <1>2, <1>11, RelayParts DEF TelegramInv, ConfirmsWereTaken
  <2>2. \A c \in 1..5 : \A n \in Stages[c] : n <= Confirms /\ n \in Ids
    BY StagesTaken
  <2>3. \A c \in 1..5 : \A n \in Stages'[c] : n \in Stages[c] \/ n = m
    BY <1>15
  <2>4. ASSUME NEW c \in 1..5, NEW n \in Stages'[c] PROVE n <= m
    <3>1. n = m \/ (n <= Confirms /\ n \in Nat)
      BY <2>2, <2>3, RelayParts
    <3>2. QED
      BY <1>2, <3>1
  <2>5. QED
    BY <1>2, <2>1, <2>4 DEF ConfirmsWereTaken
<1>20. QED
  BY <1>12, <1>13, <1>14, <1>18, <1>19, StrengthenedNext

LEMMA ResetInv ==
  ASSUME TelegramInv, Reset
  PROVE  TelegramInv'
<1>1. /\ RelayReset /\ offset' = 0 /\ front' = "recv" /\ batch' = <<>>
      /\ UNCHANGED <<created, confirmed, fate>>
  BY DEF Reset
<1>2. TypeOK'
  BY <1>1, EmptyQueue, RelayAssumption
     DEF RelayReset, TelegramInv, TypeOK, RelayTypeOK, Result
<1>3. \A c \in 1..6 : Stages'[c] = {}
  BY <1>1, StagesBecome, SixStages, EmptyQueue DEF RelayReset
<1>4. AnsweredInOrder'
  <2>1. \A a, b \in 1..6 : a < b => \A m \in Stages'[a], n \in Stages'[b] : m < n
    BY <1>3
  <2>2. QED
    BY <1>1, <2>1, EmptyQueue DEF RelayReset, AnsweredInOrder
<1>5. Confirms' \in Nat /\ Confirms' <= Confirms /\ Confirms \in Nat
  BY <1>1, ConfirmsIs DEF Confirms, TelegramInv, TypeOK
<1>6. BatchFollows'
  BY <1>1 DEF TelegramInv, BatchFollows
<1>7. ConfirmsWereTaken'
  <2>1. \A id \in Ids : id <= Confirms' => id <= Confirms
    BY <1>5, RelayParts
  <2>2. QED
    BY <1>1, <1>3, <2>1 DEF TelegramInv, ConfirmsWereTaken
<1>8. GoneInOrder'
  BY <1>1 DEF RelayReset, GoneInOrder
<1>9. QED
  BY <1>2, <1>4, <1>6, <1>7, <1>8, StrengthenedNext

LEMMA StutterInv ==
  ASSUME TelegramInv, UNCHANGED vars
  PROVE  TelegramInv'
<1>1. UNCHANGED poll /\ UNCHANGED <<inbound, outbound, worker, sender, stop,
                                    results, resets, answers>>
  BY DEF vars, relay
<1>2. RelayTypeOK' /\ GoneInOrder'
  BY <1>1 DEF TelegramInv, TypeOK, RelayTypeOK, GoneInOrder, poll
<1>3. QED
  BY <1>1, <1>2, RelayParts, RelayLeaves

LEMMA NextInv ==
  ASSUME TelegramInv, [Next]_vars
  PROVE  TelegramInv'
<1>1. CASE Update \/ Poll \/ PollFailed \/ ProcessUpdate \/ JoinPoll \/ Reset
  BY <1>1, UpdateInv, PollInv, PollFailedInv, ProcessUpdateInv, JoinPollInv, ResetInv
<1>2. CASE RelayNext /\ UNCHANGED poll
  BY <1>2, WorkerRecvInv, WorkerReplyInv, SenderRecvInv, PartSentInv, RelayQuietInv
     DEF RelayNext
<1>3. CASE UNCHANGED vars
  BY <1>3, StutterInv
<1>4. QED
  BY <1>1, <1>2, <1>3 DEF Next

(* Whatever the server repeats, however replies are dropped, cut or lost   *)
(* and wherever a reset hits: within one boot the messages are answered in *)
(* the order they were sent in and none twice, no update is confirmed to   *)
(* the server before the device has taken it, and the queues are deleted   *)
(* when all three threads have ended (telegram.c:11, 407, 469, 588).       *)
THEOREM TelegramInvariant == Spec => []TelegramInv
<1>1. Init => TelegramInv
  BY InitInv
<1>2. TelegramInv /\ [Next]_vars => TelegramInv'
  BY NextInv
<1>3. QED
  BY <1>1, <1>2, PTL DEF Spec

-----------------------------------------------------------------------------
(* Feishu: the relay, and the frame in the hand of its thread.             *)

LEMMA AppendInRange ==
  ASSUME NEW S, NEW q \in Seq(S), NEW m \in S, NEW depth \in Nat,
         ~Full(q, depth)
  PROVE  Append(q, m) \in Seq(S) /\ Len(Append(q, m)) <= depth
<1>1. Len(q) \in Nat /\ Len(Append(q, m)) = Len(q) + 1
      /\ Append(q, m) \in Seq(S)
  BY AppendProperties, LenProperties
<1>2. ~(Len(q) >= depth)
  BY DEF Full
<1>3. QED
  BY <1>1, <1>2

LEMMA TailInRange ==
  ASSUME NEW S, NEW q \in Seq(S), NEW depth \in Nat, Len(q) <= depth, q # <<>>
  PROVE  Tail(q) \in Seq(S) /\ Len(Tail(q)) <= depth /\ Head(q) \in S
BY HeadTailProperties, LenProperties, EmptySeq

(* Whoever fills or empties the queues, they stay within their depths, and *)
(* the threads end in the order in which they are joined.                  *)
LEMMA RelayKeeps ==
  ASSUME RelayTypeOK, GoneInOrder, RelayNext, UNCHANGED front
  PROVE  RelayTypeOK' /\ GoneInOrder'
<1> USE RelayAssumption DEF RelayTypeOK, GoneInOrder
<1>1. ASSUME NEW m \in Ids \cup {Result}, EnqueueReply(m)
      PROVE  /\ outbound' \in Seq(Ids \cup {Result})
             /\ Len(outbound') <= OutboundDepth
  <2>1. CASE UNCHANGED outbound
    BY <2>1
  <2>2. CASE ~Full(outbound, OutboundDepth) /\ outbound' = Append(outbound, m)
    <3>1. outbound \in Seq(Ids \cup {Result}) /\ OutboundDepth \in Nat
      OBVIOUS
    <3>2. /\ Append(outbound, m) \in Seq(Ids \cup {Result})
          /\ Len(Append(outbound, m)) <= OutboundDepth
      BY <2>2, <3>1, AppendInRange
    <3>3. QED
      BY <2>2, <3>2
  <2>3. QED
    BY <1>1, <2>1, <2>2 DEF EnqueueReply
<1>2. CASE WorkerRecv
  <2>1. /\ inbound' \in Seq(Ids) /\ Len(inbound') <= InboundDepth
        /\ Head(inbound) \in Ids
    BY <1>2, TailInRange DEF WorkerRecv
  <2>2. QED
    BY <1>2, <2>1 DEF WorkerRecv
<1>3. CASE WorkerReply
  <2>1. worker.msg \in Ids \cup {Result} /\ worker.pc = "chat"
    BY <1>3 DEF WorkerReply
  <2>2. /\ outbound' \in Seq(Ids \cup {Result})
        /\ Len(outbound') <= OutboundDepth
    BY <1>1, <1>3, <2>1 DEF WorkerReply
  <2>3. worker' \in [pc : {"recv", "chat", "gone"}, msg : Ids \cup {Result}]
    BY <1>3 DEF WorkerReply, Loop
  <2>4. QED
    BY <1>3, <2>1, <2>2, <2>3 DEF WorkerReply
<1>4. CASE WorkerExit
  BY <1>4 DEF WorkerExit
<1>5. CASE SenderRecv
  <2>1. /\ outbound' \in Seq(Ids \cup {Result})
        /\ Len(outbound') <= OutboundDepth /\ Head(outbound) \in Ids \cup {Result}
    BY <1>5, TailInRange DEF SenderRecv
  <2>2. QED
    BY <1>5, <2>1 DEF SenderRecv
<1>6. CASE PartSent
  <2>1. PICK newlines \in SUBSET (0..(sender.rest - 1)) :
          LET rest == sender.rest - ChunkEnd(sender.rest, newlines, MaxMsgLen) IN
            IF rest > 0
            THEN sender' = [sender EXCEPT !.rest = rest] /\ UNCHANGED answers
            ELSE /\ sender' = [pc |-> Loop("out"), msg |-> Result, rest |-> 0]
                 /\ answers' = IF sender.msg = Result THEN answers
                               ELSE Append(answers, sender.msg)
    BY <1>6 DEF PartSent
  <2> DEFINE rest == sender.rest - ChunkEnd(sender.rest, newlines, MaxMsgLen)
  <2>2. CASE sender.rest = 0
    <3>1. ChunkEnd(sender.rest, newlines, MaxMsgLen) = 0
      BY <2>2 DEF ChunkEnd
    <3>2. ~(rest > 0)
      BY <2>2, <3>1
    <3>3. /\ sender' = [pc |-> Loop("out"), msg |-> Result, rest |-> 0]
          /\ answers' = IF sender.msg = Result THEN answers
                        ELSE Append(answers, sender.msg)
      BY <2>1, <3>2
    <3>4. answers' \in Seq(Ids)
      BY <3>3, AppendProperties
    <3>5. QED
      BY <1>6, <3>3, <3>4 DEF PartSent, Loop
  <2>3. CASE sender.rest # 0
    <3>1. sender.rest \in Nat \ {0} /\ MaxMsgLen \in Nat \ {0}
      BY <2>3
    <3>2. ChunkEnd(sender.rest, newlines, MaxMsgLen) \in 1..sender.rest
      BY <3>1, ChunkIsPart
    <3>3. rest \in Nat
      BY <3>1, <3>2
    <3> HIDE DEF rest
    <3>4. CASE rest > 0
      <4>1. sender' = [sender EXCEPT !.rest = rest] /\ UNCHANGED answers
        BY <2>1, <3>4 DEF rest
      <4>2. sender' = [pc |-> sender.pc, msg |-> sender.msg, rest |-> rest]
        BY <4>1
      <4>3. sender' \in [pc : {"recv", "send", "gone"}, msg : Ids \cup {Result},
                         rest : Nat]
        BY <3>3, <4>2
      <4>4. QED
        BY <1>6, <4>1, <4>2, <4>3 DEF PartSent
    <3>5. CASE ~(rest > 0)
      <4>1. /\ sender' = [pc |-> Loop("out"), msg |-> Result, rest |-> 0]
            /\ answers' = IF sender.msg = Result THEN answers
                          ELSE Append(answers, sender.msg)
        BY <2>1, <3>5 DEF rest
      <4>2. answers' \in Seq(Ids)
        BY <4>1, AppendProperties
      <4>3. QED
        BY <1>6, <4>1, <4>2 DEF PartSent, Loop
    <3>6. QED
      BY <3>4, <3>5
  <2>4. QED
    BY <2>2, <2>3
<1>7. CASE PartFailed
  BY <1>7 DEF PartFailed, Loop
<1>8. CASE SenderExit
  BY <1>8 DEF SenderExit
<1>9. CASE ScheduledReply
  <2>1. /\ outbound' \in Seq(Ids \cup {Result})
        /\ Len(outbound') <= OutboundDepth
    BY <1>1, <1>9 DEF ScheduledReply
  <2>2. QED
    BY <1>9, <2>1 DEF ScheduledReply
<1>10. CASE StopCall
  BY <1>10 DEF StopCall
<1>11. CASE JoinWorker
  BY <1>11 DEF JoinWorker, Join
<1>12. CASE JoinSender
  BY <1>12, EmptyQueue DEF JoinSender
<1>13. QED
  BY <1>2, <1>3, <1>4, <1>5, <1>6, <1>7, <1>8, <1>9, <1>10, <1>11, <1>12
     DEF RelayNext

(* The ring.                                                               *)

(* The slot k behind another, and the one that follows it.                 *)
LEMMA SlotsBehind ==
  ASSUME NEW i \in 0..(DedupSlots - 1)
  PROVE  /\ \A k \in 1..DedupSlots :
              /\ (i - k) % DedupSlots \in 0..(DedupSlots - 1)
              /\ (i - k) % DedupSlots = IF k <= i THEN i - k ELSE i - k + DedupSlots
         /\ SlotAfter(i) \in 0..(DedupSlots - 1)
         /\ SlotAfter(i) = IF i + 1 < DedupSlots THEN i + 1 ELSE 0
<1> USE FeishuAssumption
<1>1. ASSUME NEW a \in Int
      PROVE  /\ a \in 0..(DedupSlots - 1) => a % DedupSlots = a
             /\ a \in (0 - DedupSlots)..(0 - 1) => a % DedupSlots = a + DedupSlots
             /\ a \in DedupSlots..(DedupSlots + DedupSlots - 1) =>
                  a % DedupSlots = a - DedupSlots
  OBVIOUS
<1>2. ASSUME NEW k \in 1..DedupSlots
      PROVE  /\ (i - k) % DedupSlots \in 0..(DedupSlots - 1)
             /\ (i - k) % DedupSlots = IF k <= i THEN i - k ELSE i - k + DedupSlots
  <2>1. PICK a \in Int : a = i - k
    OBVIOUS
  <2>2. CASE k <= i
    <3>1. a \in 0..(DedupSlots - 1)
      BY <2>1, <2>2
    <3>2. a % DedupSlots = a
      BY <1>1, <3>1
    <3>3. QED
      BY <2>1, <2>2, <3>1, <3>2
  <2>3. CASE ~(k <= i)
    <3>1. a \in (0 - DedupSlots)..(0 - 1) /\ a + DedupSlots \in 0..(DedupSlots - 1)
      BY <2>1, <2>3
    <3>2. a % DedupSlots = a + DedupSlots
      BY <1>1, <3>1
    <3>3. QED
      BY <2>1, <2>3, <3>1, <3>2
  <2>4. QED
    BY <2>2, <2>3
<1>3. /\ SlotAfter(i) \in 0..(DedupSlots - 1)
      /\ SlotAfter(i) = IF i + 1 < DedupSlots THEN i + 1 ELSE 0
  <2>1. PICK a \in Int : a = i + 1
    OBVIOUS
  <2>2. CASE i + 1 < DedupSlots
    <3>1. a \in 0..(DedupSlots - 1)
      BY <2>1, <2>2
    <3>2. a % DedupSlots = a
      BY <1>1, <3>1
    <3>3. QED
      BY <2>1, <2>2, <3>1, <3>2 DEF SlotAfter
  <2>3. CASE ~(i + 1 < DedupSlots)
    <3>1. a \in DedupSlots..(DedupSlots + DedupSlots - 1) /\ a - DedupSlots = 0
      BY <2>1, <2>3
    <3>2. a % DedupSlots = 0
      BY <1>1, <3>1
    <3>3. QED
      BY <2>1, <2>3, <3>1, <3>2 DEF SlotAfter
  <2>4. QED
    BY <2>2, <2>3
<1>4. QED
  BY <1>2, <1>3

(* An event the ring does not hold goes into the oldest slot, and the last *)
(* DedupSlots events are other ones.                                       *)
LEMMA RingTakes ==
  ASSUME FsTypeOK, RingRemembers, RingIsTail, NEW e \in Ids, ~Duplicate(e),
         dedup' = [dedup EXCEPT ![dedupIdx] = e],
         dedupIdx' = SlotAfter(dedupIdx), taken' = Append(taken, e)
  PROVE  /\ RingRemembers' /\ RingIsTail'
         /\ dedup' \in [0..(DedupSlots - 1) -> Ids \cup {None}]
         /\ dedupIdx' \in 0..(DedupSlots - 1) /\ taken' \in Seq(Ids)
<1> DEFINE D == DedupSlots
           n == Len(taken)
<1>1. /\ D \in Nat \ {0} /\ dedupIdx \in 0..(D - 1)
      /\ dedup \in [0..(D - 1) -> Ids \cup {None}] /\ taken \in Seq(Ids)
  BY FeishuAssumption DEF FsTypeOK
<1>2. /\ n \in Nat /\ DOMAIN taken = 1..n /\ taken' \in Seq(Ids)
      /\ DOMAIN taken' = 1..(n + 1) /\ Len(taken') = n + 1
      /\ \A i \in 1..n : taken'[i] = taken[i]
      /\ taken'[n + 1] = e
  BY <1>1, AppendProperties, LenProperties
<1>3. /\ dedupIdx' \in 0..(D - 1)
      /\ dedupIdx' = IF dedupIdx + 1 < D THEN dedupIdx + 1 ELSE 0
  BY <1>1, SlotsBehind
<1>4. /\ dedup' \in [0..(D - 1) -> Ids \cup {None}]
      /\ dedup'[dedupIdx] = e
      /\ \A i \in 0..(D - 1) : i # dedupIdx => dedup'[i] = dedup[i]
  BY <1>1
<1>5. ASSUME NEW k \in 1..D, k <= n PROVE taken[n + 1 - k] # e
  <2>1. (dedupIdx - k) % D \in 0..(D - 1)
    BY <1>1, SlotsBehind
  <2>2. dedup[(dedupIdx - k) % D] = taken[n + 1 - k]
    BY <1>5 DEF RingIsTail
  <2>3. QED
    BY <1>1, <2>1, <2>2 DEF Duplicate
<1>6. RingRemembers'
  <2>1. ASSUME NEW i \in 1..(n + 1), NEW j \in 1..(n + 1), i < j,
               taken'[i] = taken'[j]
        PROVE  j - i > D
    <3>1. i \in 1..n /\ taken'[i] = taken[i]
      BY <1>2, <2>1
    <3>2. CASE j = n + 1
      <4>1. taken[i] = e
        BY <1>2, <2>1, <3>1, <3>2
      <4>2. PICK k \in Nat : k = n + 1 - i /\ i = n + 1 - k
        BY <1>2, <3>1
      <4>3. k >= 1 /\ k <= n
        BY <1>2, <3>1, <4>2
      <4>4. ~(k <= D)
        BY <1>1, <1>5, <4>1, <4>2, <4>3
      <4>5. QED
        BY <1>1, <3>2, <4>2, <4>4
    <3>3. CASE j # n + 1
      <4>1. j \in 1..n /\ taken'[j] = taken[j]
        BY <1>2, <3>3
      <4>2. QED
        BY <1>2, <2>1, <3>1, <4>1 DEF RingRemembers
    <3>4. QED
      BY <3>2, <3>3
  <2> HIDE DEF n, D
  <2>2. QED
    BY <1>2, <2>1 DEF RingRemembers, D
<1>7. RingIsTail'
  <2>1. ASSUME NEW k \in 1..D, k <= n + 1
        PROVE  dedup'[(dedupIdx' - k) % D] = taken'[n + 2 - k]
    <3>1. (dedupIdx' - k) % D = IF k <= dedupIdx' THEN dedupIdx' - k
                                ELSE dedupIdx' - k + D
      BY <1>3, SlotsBehind
    <3>2. CASE k = 1
      <4>1. (dedupIdx' - k) % D = dedupIdx
        BY <1>1, <1>3, <3>1, <3>2
      <4>2. n + 2 - k = n + 1
        BY <1>2, <3>2
      <4>3. QED
        BY <1>2, <1>4, <4>1, <4>2
    <3>3. CASE k # 1
      <4>1. PICK l \in Nat : l = k - 1
        BY <1>1, <2>1, <3>3
      <4>2. l \in 1..(D - 1) /\ l \in 1..D /\ l <= n
        BY <1>1, <1>2, <2>1, <3>3, <4>1
      <4>3. (dedupIdx - l) % D = IF l <= dedupIdx THEN dedupIdx - l
                                 ELSE dedupIdx - l + D
        BY <1>1, <4>2, SlotsBehind
      <4>4. /\ (dedupIdx' - k) % D = (dedupIdx - l) % D
            /\ (dedupIdx - l) % D # dedupIdx
            /\ (dedupIdx - l) % D \in 0..(D - 1)
        BY <1>1, <1>3, <3>1, <4>1, <4>2, <4>3
      <4>5. dedup[(dedupIdx - l) % D] = taken[n + 1 - l]
        BY <4>2 DEF RingIsTail
      <4>6. n + 1 - l \in 1..n /\ n + 2 - k = n + 1 - l
        BY <1>2, <4>1, <4>2
      <4>7. QED
        BY <1>2, <1>4, <4>4, <4>5, <4>6
    <3>4. QED
      BY <3>2, <3>3
  <2>2. Len(taken') + 1 = n + 2
    BY <1>2
  <2> HIDE DEF n, D
  <2>3. QED
    BY <1>2, <2>1, <2>2 DEF RingIsTail, D
<1>8. QED
  BY <1>2, <1>3, <1>4, <1>6, <1>7

(* Steps that leave the ring alone, and one that empties it.               *)
LEMMA RingStays ==
  ASSUME UNCHANGED <<dedup, dedupIdx, taken>>, RingRemembers, RingIsTail
  PROVE  RingRemembers' /\ RingIsTail'
BY DEF RingRemembers, RingIsTail

LEMMA RingEmpties == taken = <<>> => RingRemembers /\ RingIsTail
<1> SUFFICES ASSUME taken = <<>> PROVE RingRemembers /\ RingIsTail
  OBVIOUS
<1>1. Len(taken) = 0 /\ DOMAIN taken = {}
  OBVIOUS
<1>2. \A k \in 1..DedupSlots : ~(k <= 0)
  BY FeishuAssumption
<1>3. QED
  BY <1>1, <1>2 DEF RingRemembers, RingIsTail

LEMMA RingEmptiesNext ==
  ASSUME taken' = <<>>
  PROVE  RingRemembers' /\ RingIsTail'
<1>1. (taken = <<>> => RingRemembers /\ RingIsTail)'
  BY RingEmpties, PTL
<1>2. QED
  BY <1>1

(* The invariant of Feishu.                                                *)

(* What the queues outlive follows from the order in which the threads end. *)
LEMMA FsStrengthened ==
  FsTypeOK /\ RingRemembers /\ RingIsTail /\ AckedWereSeen /\ FrameInHand
    /\ GoneInOrder => FeishuInv
BY DEF GoneInOrder, QueuesOutliveThreads, FeishuInv

LEMMA FsStrengthenedNext ==
  ASSUME FsTypeOK', RingRemembers', RingIsTail', AckedWereSeen', FrameInHand',
         GoneInOrder'
  PROVE  FeishuInv'
<1>1. (FsTypeOK /\ RingRemembers /\ RingIsTail /\ AckedWereSeen /\ FrameInHand
         /\ GoneInOrder => FeishuInv)'
  BY FsStrengthened, PTL
<1>2. QED
  BY <1>1

LEMMA FsInitInv == FsInit => FeishuInv
<1> SUFFICES ASSUME FsInit PROVE FeishuInv
  OBVIOUS
<1> USE RelayAssumption, FeishuAssumption
<1>1. RelayTypeOK
  BY EmptyQueue DEF FsInit, RelayInit, RelayTypeOK, Result
<1>2. FsTypeOK
  BY <1>1, EmptyQueue DEF FsInit, FsTypeOK, EmptyRing, None
<1>3. RingRemembers /\ RingIsTail
  BY RingEmpties DEF FsInit
<1>4. AckedWereSeen /\ FrameInHand /\ GoneInOrder
  BY DEF FsInit, RelayInit, AckedWereSeen, FrameInHand, GoneInOrder
<1>5. QED
  BY <1>2, <1>3, <1>4, FsStrengthened

(* The relay runs, and the thread in front of it does nothing.             *)
LEMMA FsRelayInv ==
  ASSUME FeishuInv, Relay(RelayNext)
  PROVE  FeishuInv'
<1>1. RelayNext /\ UNCHANGED <<server, front, frame, retries, filter, cut>>
  BY DEF Relay
<1>2. RelayTypeOK' /\ GoneInOrder'
  BY <1>1, RelayKeeps DEF FeishuInv, FsTypeOK
<1>3. FsTypeOK' /\ AckedWereSeen' /\ FrameInHand'
  BY <1>1, <1>2 DEF FeishuInv, FsTypeOK, AckedWereSeen, FrameInHand, server, filter
<1>4. RingRemembers' /\ RingIsTail'
  BY <1>1, RingStays DEF FeishuInv, filter
<1>5. QED
  BY <1>2, <1>3, <1>4, FsStrengthenedNext

LEMMA JoinFrontInv ==
  ASSUME FeishuInv, JoinFront
  PROVE  FeishuInv'
<1>1. GoneInOrder' /\ RelayTypeOK'
  BY DEF FeishuInv, FsTypeOK, RelayTypeOK, GoneInOrder, JoinFront, Join
<1>2. FsTypeOK' /\ AckedWereSeen' /\ FrameInHand'
  BY <1>1 DEF FeishuInv, FsTypeOK, AckedWereSeen, FrameInHand, JoinFront, server,
              filter
<1>3. RingRemembers' /\ RingIsTail'
  BY RingStays DEF FeishuInv, JoinFront, filter
<1>4. QED
  BY <1>1, <1>2, <1>3, FsStrengthenedNext

(* A step of the thread while the relay and the ring stay as they are.     *)
LEMMA FrontStep ==
  ASSUME FeishuInv, UNCHANGED <<relay, filter>>, UNCHANGED cut,
         events' \in Nat, unacked' \subseteq Ids, lost' \in 0..MaxLost,
         front' \in {"token", "connect", "online", "frame", "lost", "gone"},
         frame' \in Ids \cup {None}, retries' \in 0..TokenRetries,
         front = "gone" => front' = "gone", AckedWereSeen', FrameInHand'
  PROVE  FeishuInv'
<1>1. RelayTypeOK' /\ GoneInOrder'
  BY DEF FeishuInv, FsTypeOK, RelayTypeOK, GoneInOrder, relay
<1>2. FsTypeOK'
  BY <1>1 DEF FeishuInv, FsTypeOK, filter
<1>3. RingRemembers' /\ RingIsTail'
  BY RingStays DEF FeishuInv, filter
<1>4. QED
  BY <1>1, <1>2, <1>3, FsStrengthenedNext

(* An event is created.                                                    *)
LEMMA EventInv ==
  ASSUME FeishuInv, Event
  PROVE  FeishuInv'
<1>1. events \in Nat /\ unacked \subseteq Ids
  BY DEF FeishuInv, FsTypeOK
<1>2. \A e \in 1..(events + 1) : e \in 1..events \/ e = events + 1
  BY <1>1
<1>3. AckedWereSeen'
  BY <1>2 DEF FeishuInv, AckedWereSeen, Event, filter
<1>4. FrameInHand'
  BY DEF FeishuInv, FrameInHand, Event
<1>5. QED
  BY <1>1, <1>3, <1>4, FrontStep DEF FeishuInv, FsTypeOK, Event

(* The start, the connection, and the end of the thread.                   *)
LEMMA ConnectionInv ==
  ASSUME FeishuInv,
         TokenOk \/ TokenFailed \/ Connect \/ ConnectFailed \/ Disconnect
           \/ FrontExit
  PROVE  FeishuInv'
<1> USE FeishuAssumption DEF FeishuInv, FsTypeOK, Goto
<1>1. AckedWereSeen'
  BY DEF AckedWereSeen, TokenOk, TokenFailed, Connect, ConnectFailed, Disconnect,
         FrontExit, server, filter
<1>2. CASE TokenOk
  <2>1. FrameInHand'
    BY <1>2 DEF TokenOk, FrameInHand
  <2>2. QED
    BY <1>1, <1>2, <2>1, FrontStep DEF TokenOk, server
<1>3. CASE TokenFailed
  <2>1. retries \in Nat /\ retries < TokenRetries
    BY <1>3 DEF TokenFailed, FrameInHand
  <2>2. retries' = retries + 1 /\ retries' \in 0..TokenRetries
    BY <1>3, <2>1 DEF TokenFailed
  <2>3. /\ front = "token" /\ front' \in {"token", "gone"}
        /\ front' = "token" => ~(retries' >= TokenRetries)
    BY <1>3 DEF TokenFailed
  <2>4. FrameInHand'
    BY <1>3, <2>2, <2>3 DEF TokenFailed, FrameInHand
  <2>5. QED
    BY <1>1, <1>3, <2>2, <2>3, <2>4, FrontStep DEF TokenFailed, server
<1>4. CASE Connect
  <2>1. FrameInHand'
    BY <1>4 DEF Connect, FrameInHand
  <2>2. QED
    BY <1>1, <1>4, <2>1, FrontStep DEF Connect, server
<1>5. CASE ConnectFailed
  <2>1. FrameInHand'
    BY <1>5 DEF ConnectFailed, FrameInHand
  <2>2. QED
    BY <1>1, <1>5, <2>1, FrontStep DEF ConnectFailed, server
<1>6. CASE Disconnect
  <2>1. FrameInHand'
    BY <1>6 DEF Disconnect, FrameInHand
  <2>2. lost' \in 0..MaxLost
    BY <1>6 DEF Disconnect
  <2>3. QED
    BY <1>1, <1>6, <2>1, <2>2, FrontStep DEF Disconnect
<1>7. CASE FrontExit
  <2>1. FrameInHand'
    BY <1>7 DEF FrontExit, FrameInHand
  <2>2. QED
    BY <1>1, <1>7, <2>1, FrontStep DEF FrontExit, server
<1>8. QED
  BY <1>2, <1>3, <1>4, <1>5, <1>6, <1>7

(* The frame that is acknowledged is in the hand from then on; the one     *)
(* before it has left it.                                                  *)
LEMMA AcknowledgeInv ==
  ASSUME FeishuInv, NEW e \in Ids, Acknowledge(e)
  PROVE  FeishuInv'
<1>1. /\ frame = None /\ None = 0 /\ e # None /\ events \in Nat
      /\ lost \in 0..MaxLost /\ unacked \subseteq Ids
  BY RelayAssumption DEF FeishuInv, FsTypeOK, FrameInHand, Acknowledge, None, Result
<1>2. /\ front = "online" /\ front' = "frame" /\ frame' = e /\ events' = events
      /\ unacked \subseteq unacked' \cup {frame'} /\ unacked' \subseteq unacked
  BY DEF Acknowledge
<1>3. lost' \in 0..MaxLost
  BY <1>1, FeishuAssumption DEF Acknowledge
<1>4. None \notin 1..events
  BY <1>1
<1>5. AckedWereSeen'
  BY <1>1, <1>2, <1>4 DEF FeishuInv, AckedWereSeen, Acknowledge, filter
<1>6. FrameInHand'
  BY <1>1, <1>2 DEF FrameInHand
<1>7. QED
  BY <1>1, <1>2, <1>3, <1>5, <1>6, FrontStep
     DEF FeishuInv, FsTypeOK, Acknowledge

(* The frame in hand is looked at, and the ring takes it unless it has it. *)
LEMMA ProcessInv ==
  ASSUME FeishuInv, Process
  PROVE  FeishuInv'
<1>1. /\ front = "frame" /\ front' \in {"online", "gone"} /\ frame' = None
      /\ known' = known \cup {frame}
      /\ UNCHANGED <<outbound, worker, sender, stop, results, resets, answers,
                     events, unacked, lost, retries, cut>>
  BY DEF Process, Goto, server
<1>2. frame \in Ids
  BY <1>1 DEF FeishuInv, FsTypeOK, FrameInHand
<1>3. /\ RingRemembers' /\ RingIsTail'
      /\ dedup' \in [0..(DedupSlots - 1) -> Ids \cup {None}]
      /\ dedupIdx' \in 0..(DedupSlots - 1) /\ taken' \in Seq(Ids)
  <2>1. CASE Duplicate(frame)
    <3>1. UNCHANGED <<dedup, dedupIdx, taken>>
      BY <2>1 DEF Process
    <3>2. QED
      BY <3>1, RingStays DEF FeishuInv, FsTypeOK
  <2>2. CASE ~Duplicate(frame)
    <3>1. /\ dedup' = [dedup EXCEPT ![dedupIdx] = frame]
          /\ dedupIdx' = SlotAfter(dedupIdx) /\ taken' = Append(taken, frame)
      BY <2>2 DEF Process
    <3>2. QED
      BY <1>2, <2>2, <3>1, RingTakes DEF FeishuInv
  <2>3. QED
    BY <2>1, <2>2
<1>4. /\ latest' \in Ids \cup {None}
      /\ UNCHANGED inbound \/ QueueInbound(frame)
  BY <1>2 DEF Process, FeishuInv, FsTypeOK
<1>5. inbound' \in Seq(Ids) /\ Len(inbound') <= InboundDepth
  <2>1. inbound \in Seq(Ids) /\ Len(inbound) <= InboundDepth /\ InboundDepth \in Nat
    BY RelayAssumption DEF FeishuInv, FsTypeOK, RelayTypeOK
  <2>2. ~Full(inbound, InboundDepth) =>
          /\ Append(inbound, frame) \in Seq(Ids)
          /\ Len(Append(inbound, frame)) <= InboundDepth
    BY <1>2, <2>1, AppendInRange
  <2>3. QED
    BY <1>4, <2>1, <2>2 DEF QueueInbound
<1>6. RelayTypeOK' /\ GoneInOrder'
  BY <1>1, <1>5 DEF FeishuInv, FsTypeOK, RelayTypeOK, GoneInOrder
<1>7. FsTypeOK'
  BY <1>1, <1>2, <1>3, <1>4, <1>6 DEF FeishuInv, FsTypeOK
<1>8. AckedWereSeen' /\ FrameInHand'
  BY <1>1 DEF FeishuInv, AckedWereSeen, FrameInHand
<1>9. QED
  BY <1>3, <1>6, <1>7, <1>8, FsStrengthenedNext

(* A reset: what was in hand is the exception the property makes.          *)
LEMMA FsResetInv ==
  ASSUME FeishuInv, FsReset
  PROVE  FeishuInv'
<1>1. /\ front' = "token" /\ frame' = None /\ retries' = 0 /\ taken' = <<>>
      /\ cut' = IF front = "frame" THEN cut \cup {frame} ELSE cut
      /\ UNCHANGED <<events, unacked, lost, known>> /\ RelayReset
      /\ dedup' = EmptyRing /\ dedupIdx' = 0 /\ latest' = 0
  BY DEF FsReset, server
<1>2. RelayTypeOK' /\ GoneInOrder'
  BY <1>1, EmptyQueue, RelayAssumption
     DEF RelayReset, FeishuInv, FsTypeOK, RelayTypeOK, GoneInOrder, Result
<1>3. RingRemembers' /\ RingIsTail'
  BY <1>1, RingEmptiesNext
<1>4. events \in Nat /\ None \notin 1..events /\ (frame # None => front = "frame")
  BY DEF FeishuInv, FsTypeOK, FrameInHand, None, Result
<1>5. AckedWereSeen' /\ FrameInHand'
  BY <1>1, <1>4, FeishuAssumption DEF FeishuInv, AckedWereSeen, FrameInHand
<1>6. cut' \subseteq Ids
  BY <1>1 DEF FeishuInv, FsTypeOK, FrameInHand
<1>7. FsTypeOK'
  BY <1>1, <1>2, <1>6, EmptyQueue, FeishuAssumption
     DEF FeishuInv, FsTypeOK, EmptyRing, None
<1>8. QED
  BY <1>2, <1>3, <1>5, <1>7, FsStrengthenedNext

LEMMA FsStutterInv ==
  ASSUME FeishuInv, UNCHANGED fsVars
  PROVE  FeishuInv'
<1>1. AckedWereSeen' /\ FrameInHand'
  BY DEF FeishuInv, AckedWereSeen, FrameInHand, fsVars, server, filter
<1>2. QED
  BY <1>1, FrontStep DEF FeishuInv, FsTypeOK, fsVars, server, filter

LEMMA FsNextInv ==
  ASSUME FeishuInv, [FsNext]_fsVars
  PROVE  FeishuInv'
<1>1. CASE FsNext
  BY <1>1, EventInv, ConnectionInv, AcknowledgeInv, ProcessInv, JoinFrontInv,
     FsResetInv, FsRelayInv DEF FsNext, FsFront
<1>2. CASE UNCHANGED fsVars
  BY <1>2, FsStutterInv
<1>3. QED
  BY <1>1, <1>2

(* For every number of events and slots: however the server repeats and    *)
(* reorders them and wherever connections, acknowledgements or the power   *)
(* are lost, within one boot an event is taken again only after as many    *)
(* others as the ring has slots, no acknowledged event is passed over but  *)
(* one that was in hand at a reset, and the queues are deleted when all    *)
(* three threads have ended (feishu.c:155-165, 1020, 1402-1432).           *)
THEOREM FeishuInvariant == FsSpec => []FeishuInv
<1>1. FsInit => FeishuInv
  BY FsInitInv
<1>2. FeishuInv /\ [FsNext]_fsVars => FeishuInv'
  BY FsNextInv
<1>3. QED
  BY <1>1, <1>2, PTL DEF FsSpec
=============================================================================
