-------------------------- MODULE SchedToolProofs --------------------------
(***************************************************************************)
(* The AI's scheduled tasks for every number of slots, any tasks and any   *)
(* number of calls and resets: slots, tasks and the copy in the key-value  *)
(* store agree as long as one caller works at a time, every waiting run    *)
(* has its wake-up, and a restart brings back the tasks.                   *)
(***************************************************************************)
EXTENDS SchedTool, SeqLemmas, TLAPS

(* The table as it is used: what fills the slots.                          *)
LEMMA Constants ==
  /\ N \in Nat /\ N > 0 /\ 0 \in Slots /\ None \notin Slots /\ Counts \subseteq Int
  /\ \A r \in Requests : r.name \in Names /\ r.count \in Counts
  /\ \A n \in Names, a \in Slots : [name |-> n, arg |-> a] # None
  /\ \A n \in Names, k \in Counts : [name |-> n, count |-> k] # None
  /\ Slots \subseteq Nat /\ \A i \in Slots : i < N /\ i + 1 \in 0..N
<1>1. N \in Nat /\ N > 0 /\ 0 \in Slots /\ Slots \subseteq Nat
      /\ \A i \in Slots : i < N /\ i + 1 \in 0..N
  BY SlotAssumption DEF Slots
<1>2. Counts \subseteq Int /\ \A r \in Requests : r.name \in Names /\ r.count \in Counts
  BY SlotAssumption DEF Counts
<1>3. None \notin Slots /\ \A n \in Names, a \in Slots : [name |-> n, arg |-> a] # None
  BY SlotAssumption
<1>4. \A n \in Names, k \in Counts : [name |-> n, count |-> k] # None
  BY SlotAssumption
<1>5. QED
  BY <1>1, <1>2, <1>3, <1>4

LEMMA SlotsFinite ==
  /\ IsFiniteSet(Slots) /\ Cardinality(Slots) = N
  /\ IsFiniteSet(Used) /\ Cardinality(Used) \in 0..N
  /\ IsFiniteSet(Waiting) /\ Cardinality(Waiting) \in Nat
  /\ \A n : IsFiniteSet(UsedBefore(n)) /\ Cardinality(UsedBefore(n)) \in Nat
<1>1. IsFiniteSet(Slots) /\ Cardinality(Slots) = N
  BY FS_Interval, SlotAssumption DEF Slots
<1>2. Used \subseteq Slots /\ Waiting \subseteq Slots /\ \A n : UsedBefore(n) \subseteq Slots
  BY DEF Used, Waiting, UsedBefore
<1>3. IsFiniteSet(Used) /\ Cardinality(Used) <= N
  BY <1>1, <1>2, FS_Subset
<1>4. IsFiniteSet(Waiting) /\ \A n : IsFiniteSet(UsedBefore(n))
  BY <1>1, <1>2, FS_Subset
<1>5. QED
  BY <1>1, <1>3, <1>4, FS_CardinalityType

LEMMA EmptyRest ==
  Empty \in SlotType /\ Rest \in CallerType /\ ~Empty.used /\ ~Empty.pending /\ Rest.pc = "idle"
  BY Constants DEF Empty, Rest, SlotType, CallerType

LEMMA TableInitInv == Init => TableInv /\ WorkHasToken
<1> SUFFICES ASSUME Init PROVE TableInv /\ WorkHasToken
  OBVIOUS
<1>1. Used = {} /\ Waiting = {}
  BY DEF Init, Used, Waiting, Empty
<1>2. TypeOK
  <2>1. slot \in [Slots -> SlotType] /\ caller \in [Callers -> CallerType]
    BY Constants, EmptyRest DEF Init
  <2>2. active = {} /\ calling = None /\ next = None /\ busy \in BOOLEAN
        /\ callback \in {"none", "lock", "give"} /\ worker \in {"take", "pick", "chat"}
    BY DEF Init
  <2>3. tokens \in 0..MaxTokens /\ rr \in Slots /\ kvCnt \in 0..N /\ boot \in 0..N
    <3>1. tokens = 0 /\ rr = 0 /\ kvCnt = 0 /\ boot = 0
      BY DEF Init
    <3>2. MaxTokens \in Nat
      BY SlotAssumption
    <3>3. QED
      BY <3>1, <3>2, Constants
  <2>4. kvTask \in [Slots -> [name : Names, count : Counts] \cup {None}]
    BY DEF Init
  <2>5. clean \in BOOLEAN /\ torn \in BOOLEAN /\ reused \in BOOLEAN /\ owed \subseteq Names
    BY DEF Init
  <2>6. QED
    BY ONLY <2>1, <2>2, <2>3, <2>4, <2>5 DEF TypeOK
<1>3. Filled /\ CallerHas /\ CallbackHas /\ TaskHasSlot /\ OneCaller
  BY <1>1, Constants DEF Init, Filled, CallerHas, CallbackHas, TaskHasSlot, OneCaller, Rest
<1>4. CopyKept
  BY <1>1 DEF Init, CopyKept, Rest, Recorded
<1>5. WorkHasToken
  BY <1>1, FS_EmptySet DEF Init, WorkHasToken, Work, WakeUps
<1>6. QED
  BY <1>2, <1>3, <1>4, <1>5 DEF TableInv

-----------------------------------------------------------------------------
(* The queue: scheduler callback and worker touch nothing of a slot but    *)
(* its pending flag.                                                       *)

LEMMA QueueStep ==
  ASSUME TableInv,
         UNCHANGED <<active, caller, store, boot, clean, torn, owed>>,
         \A i \in Slots : /\ slot'[i].name = slot[i].name /\ slot'[i].used = slot[i].used
                          /\ slot'[i].count = slot[i].count
  PROVE  Filled' /\ CallerHas' /\ TaskHasSlot' /\ OneCaller' /\ CopyKept'
<1>1. Used' = Used /\ \A n : UsedBefore(n)' = UsedBefore(n)
  BY DEF Used, UsedBefore
<1>2. \A S, n : S \subseteq Slots => (Recorded(S, n)' <=> Recorded(S, n))
  BY DEF Recorded, store
<1>3. Filled'
  BY <1>1 DEF TableInv, Filled, Used
<1>4. CallerHas'
  BY DEF TableInv, CallerHas, Running
<1>5. TaskHasSlot'
  <2>1. \A t \in active : t.arg \in Slots
    BY DEF TableInv, TypeOK
  <2>2. QED
    BY <2>1 DEF TableInv, TaskHasSlot
<1>6. OneCaller'
  BY DEF TableInv, OneCaller, CallerHas, Running
<1>7. CopyKept'
  <2>1. Used \subseteq Slots /\ \A n : UsedBefore(n) \subseteq Slots
    BY DEF Used, UsedBefore
  <2>2. \A c \in Callers : Used \ {caller[c].slot} \subseteq Slots
    BY <2>1
  <2>3. QED
    BY <1>1, <1>2, <2>1, <2>2 DEF TableInv, CopyKept, Running, store
<1>8. QED
  BY <1>3, <1>4, <1>5, <1>6, <1>7

LEMMA OneMore ==
  ASSUME NEW S, IsFiniteSet(S), NEW x
  PROVE  /\ IsFiniteSet(S \cup {x}) /\ Cardinality(S) \in Nat
         /\ Cardinality(S \cup {x}) = IF x \in S THEN Cardinality(S) ELSE Cardinality(S) + 1
         /\ \A T : T \subseteq S \cup {x} =>
                IsFiniteSet(T) /\ Cardinality(T) \in Nat /\ Cardinality(T) <= Cardinality(S) + 1
<1>1. /\ IsFiniteSet(S \cup {x}) /\ Cardinality(S) \in Nat
      /\ Cardinality(S \cup {x}) = IF x \in S THEN Cardinality(S) ELSE Cardinality(S) + 1
  BY FS_AddElement, FS_CardinalityType
<1>2. \A T : T \subseteq S \cup {x} =>
        IsFiniteSet(T) /\ Cardinality(T) \in Nat /\ Cardinality(T) <= Cardinality(S \cup {x})
  BY <1>1, FS_Subset, FS_CardinalityType
<1>3. QED
  BY <1>1, <1>2

LEMMA HandOverInv ==
  ASSUME TableInv, HandOver
  PROVE  TableInv' /\ (WorkHasToken => WorkHasToken')
<1>1. /\ callback = "lock" /\ callback' = "give" /\ calling # None /\ calling.arg \in Slots
      /\ UNCHANGED <<active, calling, busy, tokens, rr, worker, caller, store, boot, clean, torn,
                     reused, owed>>
  BY DEF HandOver, TableInv, TypeOK, CallbackHas, sched, bounds, history
<1>2. \/ slot' = [slot EXCEPT ![calling.arg].pending = TRUE] /\ next' = next
      \/ next = None /\ next' = calling.arg /\ slot' = slot
  BY DEF HandOver
<1>3. slot \in [Slots -> SlotType]
  BY DEF TableInv, TypeOK
<1>4. /\ slot' \in [Slots -> SlotType]
      /\ \A i \in Slots : /\ slot'[i].name = slot[i].name /\ slot'[i].used = slot[i].used
                          /\ slot'[i].count = slot[i].count
                          /\ i # calling.arg => slot'[i].pending = slot[i].pending
  <2>1. CASE slot' = slot
    BY <1>3, <2>1
  <2>2. CASE slot' = [slot EXCEPT ![calling.arg].pending = TRUE]
    <3>1. \A x \in SlotType : /\ [x EXCEPT !.pending = TRUE] \in SlotType
                             /\ [x EXCEPT !.pending = TRUE].name = x.name
                             /\ [x EXCEPT !.pending = TRUE].used = x.used
                             /\ [x EXCEPT !.pending = TRUE].count = x.count
      BY DEF SlotType
    <3>2. slot' = [slot EXCEPT ![calling.arg] = [slot[calling.arg] EXCEPT !.pending = TRUE]]
      BY <2>2
    <3>3. QED
      BY <1>1, <1>3, <3>1, <3>2
  <2>3. QED
    BY <1>2, <2>1, <2>2
<1>5. Filled' /\ CallerHas' /\ TaskHasSlot' /\ OneCaller' /\ CopyKept'
  BY <1>1, <1>4, QueueStep
<1>6. CallbackHas'
  BY <1>1 DEF TableInv, CallbackHas
<1>7. TypeOK'
  BY <1>1, <1>2, <1>4 DEF TableInv, TypeOK, store
<1>8. ASSUME WorkHasToken PROVE WorkHasToken'
  <2>1. WakeUps' = WakeUps + 1 /\ WakeUps \in Nat
    BY <1>1 DEF WakeUps, TableInv, TypeOK
  <2>2. Work' <= Work + 1 /\ Work \in Nat /\ Work' \in Nat
    <3>1. CASE next = None /\ next' = calling.arg /\ slot' = slot
      <4>1. Waiting' = Waiting
        BY <3>1 DEF Waiting, Used
      <4>2. QED
        BY <1>1, <3>1, <4>1, SlotsFinite, Constants DEF Work
    <3>2. CASE slot' = [slot EXCEPT ![calling.arg].pending = TRUE] /\ next' = next
      <4>1. Waiting' \subseteq Waiting \cup {calling.arg}
        BY <1>4 DEF Waiting, Used
      <4>2. Cardinality(Waiting') <= Cardinality(Waiting) + 1 /\ Cardinality(Waiting') \in Nat
        BY <4>1, OneMore, SlotsFinite
      <4>3. QED
        BY <3>2, <4>2, SlotsFinite DEF Work
    <3>3. QED
      BY <1>2, <3>1, <3>2
  <2>3. QED
    BY <1>1, <1>8, <2>1, <2>2 DEF WorkHasToken
<1>9. QED
  BY <1>5, <1>6, <1>7, <1>8 DEF TableInv

(* Give, and the steps of the worker that leave the slots alone            *)
LEMMA WorkerQuiet ==
  ASSUME TableInv, Give \/ Take \/ PickNext \/ PickNothing \/ ChatEnds
  PROVE  TableInv' /\ (WorkHasToken => WorkHasToken')
<1>1. /\ UNCHANGED <<active, slot, rr, caller, store, boot, clean, torn, reused, owed>>
      /\ calling' \in {calling, None} /\ next' \in {next, None}
  BY DEF Give, Take, PickNext, PickNothing, ChatEnds, Scheduler!Return, sched, bounds, history
<1>2. Filled' /\ CallerHas' /\ TaskHasSlot' /\ OneCaller' /\ CopyKept'
  BY <1>1, QueueStep
<1>3. tokens \in Nat /\ MaxTokens \in Nat /\ tokens <= MaxTokens
  BY SlotAssumption DEF TableInv, TypeOK
<1>4. /\ callback' \in {"none", "lock", "give"} /\ worker' \in {"take", "pick", "chat"}
      /\ busy' \in BOOLEAN /\ tokens' \in 0..MaxTokens
      /\ callback' = "none" <=> calling' = None
      /\ callback' # "none" => tokens' < MaxTokens
  <2>1. CASE Give
    BY <1>3, <2>1 DEF Give, Scheduler!Return, TableInv, TypeOK, CallbackHas
  <2>2. CASE Take
    BY <1>3, <2>2 DEF Take, sched, TableInv, TypeOK, CallbackHas
  <2>3. CASE PickNext
    BY <1>3, <2>3 DEF PickNext, sched, TableInv, TypeOK, CallbackHas
  <2>4. CASE PickNothing
    BY <1>3, <2>4 DEF PickNothing, sched, TableInv, TypeOK, CallbackHas
  <2>5. CASE ChatEnds
    BY <1>3, <2>5 DEF ChatEnds, sched, TableInv, TypeOK, CallbackHas
  <2>6. QED
    BY <2>1, <2>2, <2>3, <2>4, <2>5
<1>5. TypeOK' /\ CallbackHas'
  <2>1. TypeOK'
    BY <1>1, <1>4 DEF TableInv, TypeOK, store
  <2>2. QED
    BY <1>4, <2>1 DEF CallbackHas
<1>6. ASSUME WorkHasToken PROVE WorkHasToken'
  <2>1. Waiting' = Waiting
    BY <1>1 DEF Waiting, Used
  <2>2. Cardinality(Waiting) \in Nat /\ (Waiting = {} => Cardinality(Waiting) = 0)
    BY SlotsFinite, FS_EmptySet
  <2>3. CASE Give
    BY <1>1, <1>3, <1>6, <2>1, <2>2, <2>3 DEF Give, WorkHasToken, Work, WakeUps
  <2>4. CASE Take
    BY <1>1, <1>3, <1>6, <2>1, <2>2, <2>4 DEF Take, WorkHasToken, Work, WakeUps
  <2>5. CASE PickNext
    BY <1>1, <1>3, <1>6, <2>1, <2>2, <2>5 DEF PickNext, WorkHasToken, Work, WakeUps
  <2>6. CASE PickNothing
    BY <1>1, <1>3, <1>6, <2>1, <2>2, <2>6 DEF PickNothing, WorkHasToken, Work, WakeUps
  <2>7. CASE ChatEnds
    BY <1>1, <1>3, <1>6, <2>1, <2>2, <2>7 DEF ChatEnds, WorkHasToken, Work, WakeUps
  <2>8. QED
    BY <2>3, <2>4, <2>5, <2>6, <2>7
<1>7. QED
  BY <1>2, <1>5, <1>6 DEF TableInv

LEMMA PickPendingInv ==
  ASSUME TableInv, PickPending
  PROVE  TableInv' /\ (WorkHasToken => WorkHasToken')
<1>1. /\ worker = "pick" /\ worker' = "chat" /\ next = None /\ busy' = TRUE
      /\ UNCHANGED <<active, calling, callback, next, tokens, caller, store, boot, clean, torn,
                     reused, owed>>
  BY DEF PickPending, sched, bounds, history
<1>2. PICK i \in Slots : DrainPending(i)
  BY DEF PickPending
<1>3. i \in Waiting /\ slot' = [slot EXCEPT ![i].pending = FALSE] /\ rr' = (i + 1) % N
  BY <1>2 DEF DrainPending
<1>4. slot \in [Slots -> SlotType]
  BY DEF TableInv, TypeOK
<1>5. /\ slot' \in [Slots -> SlotType]
      /\ ~slot'[i].pending
      /\ \A j \in Slots : /\ slot'[j].name = slot[j].name /\ slot'[j].used = slot[j].used
                          /\ slot'[j].count = slot[j].count
                          /\ j # i => slot'[j].pending = slot[j].pending
  <2>1. \A x \in SlotType : /\ [x EXCEPT !.pending = FALSE] \in SlotType
                           /\ ~[x EXCEPT !.pending = FALSE].pending
                           /\ [x EXCEPT !.pending = FALSE].name = x.name
                           /\ [x EXCEPT !.pending = FALSE].used = x.used
                           /\ [x EXCEPT !.pending = FALSE].count = x.count
    BY DEF SlotType
  <2>2. slot' = [slot EXCEPT ![i] = [slot[i] EXCEPT !.pending = FALSE]]
    BY <1>3
  <2>3. QED
    BY <1>4, <2>1, <2>2
<1>6. Filled' /\ CallerHas' /\ TaskHasSlot' /\ OneCaller' /\ CopyKept'
  BY <1>1, <1>5, QueueStep
<1>7. TypeOK' /\ CallbackHas'
  <2>1. rr' \in Slots
    BY <1>3, Constants DEF Slots
  <2>2. TypeOK'
    BY <1>1, <1>5, <2>1 DEF TableInv, TypeOK, store
  <2>3. QED
    BY <1>1, <2>2 DEF TableInv, CallbackHas
<1>8. ASSUME WorkHasToken PROVE WorkHasToken'
  <2>1. Waiting' = Waiting \ {i}
    BY <1>3, <1>5 DEF Waiting, Used
  <2>2. Cardinality(Waiting \ {i}) = Cardinality(Waiting) - 1 /\ Cardinality(Waiting) \in Nat
    BY <1>3, SlotsFinite, FS_RemoveElement, FS_CardinalityType
  <2>3. Work' = Work - 1 /\ Work \in Nat
    BY <1>1, <2>1, <2>2 DEF Work
  <2>4. WakeUps' = WakeUps - 1 /\ WakeUps \in Nat
    BY <1>1 DEF WakeUps, TableInv, TypeOK
  <2>5. QED
    BY <1>1, <1>8, <2>3, <2>4 DEF WorkHasToken
<1>9. QED
  BY <1>6, <1>7, <1>8 DEF TableInv

(* A call takes its task off the scheduler, or leaves all of them.         *)
LEMMA CallLeaves ==
  ASSUME TableInv, NEW t \in active, Scheduler!Call(t)
  PROVE  /\ calling = None /\ calling' = [name |-> t.name, arg |-> t.arg]
         /\ calling' \in [name : Names, arg : Slots] /\ calling' # None
         /\ active' \subseteq [name : Names, arg : Slots, left : Int]
         /\ \A v \in active' : \E u \in active : u.name = v.name /\ u.arg = v.arg
         /\ (\A u, v \in active : u.arg = v.arg => u = v)
              => \A u, v \in active' : u.arg = v.arg => u = v
         /\ \A u \in active : u.name # t.name => u \in active'
<1>1. active \subseteq [name : Names, arg : Slots, left : Int]
  BY DEF TableInv, TypeOK
<1>2. calling = None /\ calling' = [name |-> t.name, arg |-> t.arg]
  BY DEF Scheduler!Call
<1>3. calling' \in [name : Names, arg : Slots] /\ calling' # None
  BY <1>1, <1>2, Constants
<1>4. PICK w : /\ w \in [name : Names, arg : Slots, left : Int]
               /\ w.name = t.name /\ w.arg = t.arg
               /\ active' \in {active, active \ {t}, (active \ {t}) \cup {w}}
  <2>1. t \in [name : Names, arg : Slots, left : Int]
    BY <1>1
  <2>2. /\ [t EXCEPT !.left = @ - 1] \in [name : Names, arg : Slots, left : Int]
        /\ [t EXCEPT !.left = @ - 1].name = t.name /\ [t EXCEPT !.left = @ - 1].arg = t.arg
    BY <2>1
  <2>3. active' \in {active, active \ {t}, (active \ {t}) \cup {[t EXCEPT !.left = @ - 1]}}
    <3>1. t.left \in Int
      BY <2>1
    <3>2. CASE t.left = 1
      BY <3>2 DEF Scheduler!Call
    <3>3. CASE t.left > 1
      BY <3>1, <3>3 DEF Scheduler!Call
    <3>4. CASE t.left # 1 /\ ~(t.left > 1)
      BY <3>4 DEF Scheduler!Call
    <3>5. QED
      BY <3>2, <3>3, <3>4
  <2>4. QED
    BY <2>2, <2>3
<1>5. QED
  BY <1>1, <1>2, <1>3, <1>4

LEMMA SchedCallInv ==
  ASSUME TableInv, SchedCall
  PROVE  TableInv' /\ (WorkHasToken => WorkHasToken')
<1>1. PICK t \in active : Scheduler!Call(t) /\ owed' = owed \ {t.name}
  BY DEF SchedCall
<1>2. /\ UNCHANGED <<slot, next, busy, tokens, rr, worker, caller, store, boot, clean, torn, reused>>
      /\ callback' = "lock" /\ tokens < MaxTokens
  BY DEF SchedCall
<1>3. /\ calling = None
      /\ calling' \in [name : Names, arg : Slots] /\ calling' # None
      /\ active' \subseteq [name : Names, arg : Slots, left : Int]
      /\ \A v \in active' : \E u \in active : u.name = v.name /\ u.arg = v.arg
      /\ (\A u, v \in active : u.arg = v.arg => u = v)
           => \A u, v \in active' : u.arg = v.arg => u = v
      /\ \A u \in active : u.name # t.name => u \in active'
  BY <1>1, CallLeaves
<1>4. Used' = Used /\ Waiting' = Waiting /\ \A n : UsedBefore(n)' = UsedBefore(n)
  BY <1>2 DEF Used, UsedBefore, Waiting
<1>5. TypeOK'
  BY <1>1, <1>2, <1>3 DEF TableInv, TypeOK, store
<1>6. Filled' /\ CallerHas' /\ CallbackHas'
  BY <1>2, <1>3, <1>4 DEF TableInv, Filled, CallerHas, CallbackHas, Running
<1>7. TaskHasSlot'
  BY <1>2, <1>3 DEF TableInv, TaskHasSlot
<1>8. OneCaller'
  BY <1>2, <1>3 DEF TableInv, OneCaller, Running
<1>9. CopyKept'
  <2>1. \A S, n : Recorded(S, n)' <=> Recorded(S, n)
    BY <1>2 DEF Recorded, store
  <2>2. QED
    BY <1>1, <1>2, <1>3, <1>4, <2>1 DEF TableInv, CopyKept, Running, store
<1>10. ASSUME WorkHasToken PROVE WorkHasToken'
  <2>1. callback = "none"
    BY <1>3 DEF TableInv, CallbackHas
  <2>2. QED
    BY <1>2, <1>4, <1>10, <2>1 DEF WorkHasToken, Work, WakeUps
<1>11. QED
  BY <1>5, <1>6, <1>7, <1>8, <1>9, <1>10 DEF TableInv

-----------------------------------------------------------------------------
(* The callers: the AI thread and the shell *)

(* One caller moves.                                                       *)
LEMMA CallerMoves ==
  ASSUME TableInv, NEW c \in Callers, NEW a \in CallerType, caller' = [caller EXCEPT ![c] = a]
  PROVE  /\ caller' \in [Callers -> CallerType] /\ caller'[c] = a
         /\ \A d \in Callers : d # c => caller'[d] = caller[d]
BY DEF TableInv, TypeOK

LEMMA ScheduleInv ==
  ASSUME TableInv, NEW r \in Requests, Schedule(r.name, r.count)
  PROVE  TableInv' /\ (WorkHasToken => WorkHasToken')
<1>1. PICK i \in Slots :
        /\ CtxAlloc(i)
        /\ slot' = [slot EXCEPT ![i] = [name |-> r.name, used |-> TRUE,
                                        pending |-> slot[i].pending, count |-> r.count]]
        /\ reused' = (reused \/ slot[i].pending)
        /\ caller' = [caller EXCEPT !["ai"] = [Rest EXCEPT !.pc = "add", !.name = r.name,
                                                           !.slot = i]]
  BY DEF Schedule
<1>2. /\ Running /\ caller["ai"].pc = "idle"
      /\ clean' = (clean /\ \A d \in Callers \ {"ai"} : caller[d].pc = "idle")
      /\ UNCHANGED <<active, calling, callback, next, busy, tokens, rr, worker, store, boot, torn,
                     owed>>
  BY DEF Schedule, Begins, queue
<1>3. PICK a \in CallerType :
        /\ caller' = [caller EXCEPT !["ai"] = a]
        /\ a.pc = "add" /\ a.name = r.name /\ a.slot = i /\ a.i = 0 /\ a.saved = 0
  <2> DEFINE a == [Rest EXCEPT !.pc = "add", !.name = r.name, !.slot = i]
  <2>1. /\ a \in CallerType
        /\ a.pc = "add" /\ a.name = r.name /\ a.slot = i /\ a.i = 0 /\ a.saved = 0
    <3>1. Rest \in CallerType /\ Rest.i = 0 /\ Rest.saved = 0
      BY EmptyRest DEF Rest
    <3>2. r.name \in Names
      BY Constants
    <3>3. QED
      BY <3>1, <3>2 DEF CallerType
  <2>2. caller' = [caller EXCEPT !["ai"] = a]
    BY <1>1
  <2> HIDE DEF a
  <2>3. QED
    BY <2>1, <2>2
<1>4. /\ caller' \in [Callers -> CallerType] /\ caller'["ai"] = a
      /\ \A d \in Callers : d # "ai" => caller'[d] = caller[d]
  BY <1>3, CallerMoves DEF Callers
<1>5. /\ slot' \in [Slots -> SlotType]
      /\ slot'[i].name = r.name /\ slot'[i].used /\ slot'[i].count = r.count
      /\ slot'[i].pending = slot[i].pending
      /\ \A j \in Slots : j # i => slot'[j] = slot[j]
  <2>1. slot \in [Slots -> SlotType]
    BY DEF TableInv, TypeOK
  <2>2. [name |-> r.name, used |-> TRUE, pending |-> slot[i].pending, count |-> r.count]
          \in SlotType
    BY <2>1, Constants DEF SlotType
  <2>3. QED
    BY <1>1, <2>1, <2>2
<1>6. i \notin Used /\ Used' = Used \cup {i}
  BY <1>1, <1>5 DEF CtxAlloc, Free, Used
<1>7. clean' => clean /\ \A d \in Callers : caller[d].pc = "idle"
  BY <1>2
<1>8. TypeOK'
  <2>1. reused' \in BOOLEAN /\ clean' \in BOOLEAN
    BY <1>1, <1>2, SlotAssumption DEF TableInv, TypeOK, SlotType
  <2>2. QED
    BY <1>2, <1>4, <1>5, <2>1 DEF TableInv, TypeOK, store
<1>9. Filled'
  <2>1. \A j \in Used' : slot'[j].name \in Names /\ slot'[j].count \in Counts
    BY <1>5, <1>6, Constants DEF TableInv, Filled, Used
  <2>2. QED
    BY <2>1 DEF Filled
<1>10. CallerHas' /\ CallbackHas'
  <2>1. Running'
    BY <1>2 DEF Running
  <2>2. caller["ai"].pc = "idle" /\ \A d \in Callers : d # "ai" => caller[d].pc # "add"
    BY <1>2 DEF TableInv, CallerHas
  <2>3. CallerHas'
    BY <1>3, <1>4, <1>5, <2>1, <2>2, Constants DEF TableInv, CallerHas
  <2>4. QED
    BY <1>2, <2>3 DEF TableInv, CallbackHas
<1>11. clean' => \A t \in active : t.arg \in Slots /\ t.arg # i
  BY <1>6, <1>7 DEF TableInv, TypeOK, TaskHasSlot, Used
<1>12. TaskHasSlot'
  BY <1>2, <1>5, <1>7, <1>11 DEF TableInv, TaskHasSlot
<1>13. OneCaller'
  BY <1>2, <1>3, <1>4, <1>5, <1>7, <1>11 DEF TableInv, OneCaller, Running
<1>14. CopyKept'
  <2>1. SUFFICES ASSUME clean', ~torn' PROVE CopyKept'
    BY DEF CopyKept
  <2>2. Recorded(Used, kvCnt)
    BY <1>2, <1>7, <2>1 DEF TableInv, CopyKept
  <2>3. Recorded(Used \ {i}, kvCnt)'
    <3>1. Used' \ {i} = Used /\ \A j \in Used : slot'[j].name = slot[j].name
      BY <1>5, <1>6 DEF Used
    <3>2. QED
      BY <1>2, <2>2, <3>1 DEF Recorded, store
  <2>4. caller'["ai"].pc = "add" /\ caller'["ai"].slot = i
        /\ \A d \in Callers : d # "ai" => caller'[d].pc = "idle"
    BY <1>3, <1>4, <1>7, <2>1
  <2>5. QED
    BY <1>2, <2>3, <2>4 DEF CopyKept, Running, Callers
<1>15. ASSUME WorkHasToken PROVE WorkHasToken'
  <2>1. ~reused' => ~reused /\ Waiting' = Waiting
    BY <1>1, <1>5, <1>6 DEF Waiting, Used
  <2>2. QED
    BY <1>2, <1>15, <2>1 DEF WorkHasToken, Work, WakeUps
<1>16. QED
  BY <1>8, <1>9, <1>10, <1>12, <1>13, <1>14, <1>15 DEF TableInv

LEMMA CallerTypes ==
  ASSUME TableInv, NEW c \in Callers
  PROVE  /\ caller[c] \in CallerType
         /\ \A p \in {"idle", "add", "free", "saveCnt", "saveTask"} :
              LET a == [caller[c] EXCEPT !.pc = p]
              IN  /\ a \in CallerType /\ a.pc = p /\ a.name = caller[c].name
                  /\ a.slot = caller[c].slot /\ a.i = caller[c].i /\ a.saved = caller[c].saved
<1>1. caller[c] \in CallerType
  BY DEF TableInv, TypeOK
<1>2. QED
  BY <1>1 DEF CallerType

(* As long as nothing raced the others are idle while one is at work.      *)
LEMMA OthersIdle ==
  ASSUME TableInv, NEW c \in Callers, caller[c].pc # "idle", clean
  PROVE  \A d \in Callers : d # c => caller[d].pc = "idle"
BY DEF TableInv, OneCaller, Running

LEMMA AddedInv ==
  ASSUME TableInv, ScheduleAdd,
         Scheduler!Add(caller["ai"].name, caller["ai"].slot, slot[caller["ai"].slot].count),
         Goto("ai", "saveCnt"), UNCHANGED slot
  PROVE  TableInv' /\ (WorkHasToken => WorkHasToken')
<1>1. /\ caller["ai"].pc = "add"
      /\ UNCHANGED <<callback, next, busy, tokens, rr, worker, store, boot, clean, torn, reused,
                     owed, slot>>
  BY DEF ScheduleAdd, queue, history
<1>2. /\ caller["ai"].name \in Names /\ caller["ai"].slot \in Slots
      /\ slot[caller["ai"].slot].name = caller["ai"].name
      /\ slot[caller["ai"].slot].count \in Counts /\ Running
      /\ caller["ai"].i = 0 /\ caller["ai"].saved = 0
  BY <1>1 DEF TableInv, CallerHas, Callers
<1>3. PICK n, s, k : n = caller["ai"].name /\ s = caller["ai"].slot /\ k = slot[s].count
  OBVIOUS
<1>4. PICK t \in [name : Names, arg : Slots, left : Int] :
        t.name = n /\ t.arg = s /\ active' = active \cup {t} /\ calling' = calling
  <2>1. k \in Int
    BY <1>2, <1>3, Constants
  <2>2. [name |-> n, arg |-> s, left |-> k] \in [name : Names, arg : Slots, left : Int]
    BY <1>2, <1>3, <2>1
  <2>3. active' = active \cup {[name |-> n, arg |-> s, left |-> k]} /\ calling' = calling
    BY <1>3 DEF Scheduler!Add
  <2>4. QED
    BY <2>2, <2>3
<1>5. PICK a \in CallerType :
        /\ caller' = [caller EXCEPT !["ai"] = a]
        /\ a.pc = "saveCnt" /\ a.i = 0 /\ a.saved = 0
  <2>1. caller' = [caller EXCEPT !["ai"] = [caller["ai"] EXCEPT !.pc = "saveCnt"]]
    BY DEF Goto
  <2>2. QED
    BY <1>2, <2>1, CallerTypes DEF Callers
<1>6. /\ caller' \in [Callers -> CallerType] /\ caller'["ai"] = a
      /\ \A d \in Callers : d # "ai" => caller'[d] = caller[d]
  BY <1>5, CallerMoves DEF Callers
<1>7. clean => \A d \in Callers : d # "ai" => caller[d].pc = "idle"
  BY <1>1, OthersIdle DEF Callers
<1>8. Used' = Used /\ Waiting' = Waiting
  BY <1>1 DEF Used, Waiting
<1>9. TypeOK'
  BY <1>1, <1>4, <1>6 DEF TableInv, TypeOK, store
<1>10. Filled' /\ CallbackHas'
  BY <1>1, <1>4, <1>8 DEF TableInv, Filled, CallbackHas
<1>11. CallerHas'
  BY <1>1, <1>2, <1>5, <1>6, Constants DEF TableInv, CallerHas, Running
<1>12. TaskHasSlot'
  <2>1. SUFFICES ASSUME clean PROVE TaskHasSlot'
    BY <1>1 DEF TaskHasSlot
  <2>2. slot[s].used /\ slot[s].name = n /\ \A u \in active : u.arg # s
    BY <1>1, <1>2, <1>3, <2>1 DEF TableInv, OneCaller, Callers
  <2>3. QED
    BY <1>1, <1>4, <2>1, <2>2 DEF TableInv, TaskHasSlot
<1>13. OneCaller'
  BY <1>1, <1>2, <1>5, <1>6, <1>7 DEF OneCaller, Running
<1>14. CopyKept'
  BY <1>1, <1>2, <1>5, <1>6, <1>7 DEF CopyKept, Running, Callers
<1>15. WorkHasToken => WorkHasToken'
  BY <1>1, <1>8 DEF WorkHasToken, Work, WakeUps
<1>16. QED
  BY <1>9, <1>10, <1>11, <1>12, <1>13, <1>14, <1>15 DEF TableInv

(* A slot is given up: ScheduleAdd was refused, or CtxFree.                *)
LEMMA GivesUp ==
  ASSUME TableInv, NEW s \in Slots, slot' = [slot EXCEPT ![s].used = FALSE]
  PROVE  /\ slot' \in [Slots -> SlotType]
         /\ \A i \in Slots : /\ slot'[i].name = slot[i].name /\ slot'[i].count = slot[i].count
                             /\ slot'[i].pending = slot[i].pending
                             /\ i # s => slot'[i] = slot[i]
         /\ Used' = Used \ {s} /\ Waiting' \subseteq Waiting
         /\ Filled'
         /\ Cardinality(Waiting') \in Nat /\ Cardinality(Waiting') <= Cardinality(Waiting)
<1>1. slot \in [Slots -> SlotType]
  BY DEF TableInv, TypeOK
<1>2. \A x \in SlotType : /\ [x EXCEPT !.used = FALSE] \in SlotType
                         /\ ~[x EXCEPT !.used = FALSE].used
                         /\ [x EXCEPT !.used = FALSE].name = x.name
                         /\ [x EXCEPT !.used = FALSE].pending = x.pending
                         /\ [x EXCEPT !.used = FALSE].count = x.count
  BY DEF SlotType
<1>3. slot' = [slot EXCEPT ![s] = [slot[s] EXCEPT !.used = FALSE]]
  OBVIOUS
<1>4. /\ slot' \in [Slots -> SlotType] /\ ~slot'[s].used
      /\ \A i \in Slots : /\ slot'[i].name = slot[i].name /\ slot'[i].count = slot[i].count
                          /\ slot'[i].pending = slot[i].pending
                          /\ i # s => slot'[i] = slot[i]
  BY <1>1, <1>2, <1>3
<1>5. Used' = Used \ {s} /\ Waiting' \subseteq Waiting
  BY <1>4 DEF Used, Waiting
<1>6. Filled'
  BY <1>4, <1>5 DEF TableInv, Filled, Used
<1>7. Cardinality(Waiting') \in Nat /\ Cardinality(Waiting') <= Cardinality(Waiting)
  BY <1>5, SlotsFinite, FS_Subset, FS_CardinalityType
<1>8. QED
  BY <1>4, <1>5, <1>6, <1>7

LEMMA FewerWait ==
  ASSUME TableInv, UNCHANGED <<next, tokens, callback, worker, reused>>,
         Cardinality(Waiting') \in Nat, Cardinality(Waiting') <= Cardinality(Waiting),
         WorkHasToken
  PROVE  WorkHasToken'
<1>1. tokens \in Nat /\ Cardinality(Waiting) \in Nat
  BY SlotsFinite DEF TableInv, TypeOK
<1>2. QED
  BY <1>1 DEF WorkHasToken, Work, WakeUps

LEMMA RefusedInv ==
  ASSUME TableInv, ScheduleAdd,
         slot' = [slot EXCEPT ![caller["ai"].slot].used = FALSE],
         caller' = [caller EXCEPT !["ai"] = Rest],
         UNCHANGED <<active, calling>>
  PROVE  TableInv' /\ (WorkHasToken => WorkHasToken')
<1>1. /\ caller["ai"].pc = "add"
      /\ UNCHANGED <<active, calling, callback, next, busy, tokens, rr, worker, store, boot,
                     clean, torn, reused, owed>>
  BY DEF ScheduleAdd, queue, history
<1>2. caller["ai"].slot \in Slots /\ Running
  BY <1>1 DEF TableInv, CallerHas, Callers
<1>3. PICK s \in Slots : s = caller["ai"].slot /\ slot' = [slot EXCEPT ![s].used = FALSE]
  BY <1>2
<1>4. /\ slot' \in [Slots -> SlotType]
      /\ \A i \in Slots : /\ slot'[i].name = slot[i].name /\ slot'[i].count = slot[i].count
                          /\ slot'[i].pending = slot[i].pending
                          /\ i # s => slot'[i] = slot[i]
      /\ Used' = Used \ {s} /\ Filled'
      /\ Cardinality(Waiting') \in Nat /\ Cardinality(Waiting') <= Cardinality(Waiting)
  BY <1>3, GivesUp
<1>5. /\ caller' \in [Callers -> CallerType] /\ caller'["ai"] = Rest
      /\ \A d \in Callers : d # "ai" => caller'[d] = caller[d]
  BY EmptyRest, CallerMoves DEF Callers
<1>6. clean => \A d \in Callers : d # "ai" => caller[d].pc = "idle"
  BY <1>1, OthersIdle DEF Callers
<1>7. TypeOK'
  BY <1>1, <1>4, <1>5 DEF TableInv, TypeOK, store
<1>8. CallerHas' /\ CallbackHas'
  <2>1. CallerHas'
    BY <1>1, <1>4, <1>5 DEF TableInv, CallerHas, Running, Rest
  <2>2. QED
    BY <1>1, <2>1 DEF TableInv, CallbackHas
<1>9. clean => \A t \in active : t.arg \in Slots /\ t.arg # s
  BY <1>1, <1>3 DEF TableInv, TypeOK, OneCaller, Callers
<1>10. TaskHasSlot'
  BY <1>1, <1>4, <1>9 DEF TableInv, TaskHasSlot
<1>11. OneCaller'
  BY <1>1, <1>2, <1>5, <1>6, EmptyRest DEF OneCaller, Running
<1>12. CopyKept'
  <2>1. SUFFICES ASSUME clean, ~torn PROVE CopyKept'
    BY <1>1 DEF CopyKept
  <2>2. Recorded(Used \ {s}, kvCnt)
    BY <1>1, <1>3, <2>1 DEF TableInv, CopyKept, Callers
  <2>3. Recorded(Used, kvCnt)'
    BY <1>1, <1>4, <2>2 DEF Recorded, store, Used
  <2>4. QED
    BY <1>1, <1>2, <1>5, <1>6, <2>1, <2>3, EmptyRest DEF CopyKept, Running, Callers
<1>13. WorkHasToken => WorkHasToken'
  BY <1>1, <1>4, FewerWait
<1>14. QED
  BY <1>4, <1>7, <1>8, <1>10, <1>11, <1>12, <1>13 DEF TableInv

LEMMA ScheduleAddInv ==
  ASSUME TableInv, ScheduleAdd
  PROVE  TableInv' /\ (WorkHasToken => WorkHasToken')
<1>1. \/ /\ Scheduler!Add(caller["ai"].name, caller["ai"].slot, slot[caller["ai"].slot].count)
         /\ Goto("ai", "saveCnt") /\ UNCHANGED slot
      \/ /\ slot' = [slot EXCEPT ![caller["ai"].slot].used = FALSE]
         /\ caller' = [caller EXCEPT !["ai"] = Rest]
         /\ UNCHANGED <<active, calling>>
  BY DEF ScheduleAdd
<1>2. QED
  BY <1>1, AddedInv, RefusedInv

(* A caller that does not register keeps what callers have.                *)
LEMMA CallerKeeps ==
  ASSUME TableInv, NEW c \in Callers, NEW a, Running, boot' = boot,
         caller'[c] = a, \A d \in Callers : d # c => caller'[d] = caller[d],
         \A i \in Slots : slot'[i].name = slot[i].name /\ slot'[i].count = slot[i].count,
         a.pc # "add", a.saved <= a.i, a.pc # "saveTask" => a.i = 0 /\ a.saved = 0
  PROVE  CallerHas'
<1>1. Running'
  BY DEF Running
<1>2. ASSUME NEW d \in Callers
      PROVE  LET b == caller'[d]
             IN  /\ b.saved <= b.i /\ (b.pc # "saveTask" => b.i = 0 /\ b.saved = 0)
                 /\ b.pc = "add" => /\ d = "ai" /\ b.name \in Names /\ b.slot \in Slots
                                    /\ slot'[b.slot].name = b.name
                                    /\ slot'[b.slot].count \in Counts
                 /\ b.pc # "idle" => Running'
  <2>1. CASE d = c
    BY <1>1, <2>1
  <2>2. CASE d # c
    BY <1>1, <2>2 DEF TableInv, CallerHas
  <2>3. QED
    BY <2>1, <2>2
<1>3. QED
  BY <1>2 DEF CallerHas

LEMMA RemoveTaskInv ==
  ASSUME TableInv, NEW c \in Callers, NEW n \in Names, RemoveTask(c, n)
  PROVE  TableInv' /\ (WorkHasToken => WorkHasToken')
<1>1. /\ Running /\ caller[c].pc = "idle"
      /\ clean' = (clean /\ \A d \in Callers \ {c} : caller[d].pc = "idle")
      /\ active' = {t \in active : t.name # n} /\ calling' = calling
      /\ caller' = [caller EXCEPT ![c] = [Rest EXCEPT !.pc = "free", !.name = n]]
      /\ UNCHANGED <<slot, callback, next, busy, tokens, rr, worker, store, boot, torn, reused>>
      /\ owed' = owed \ {n}
  BY DEF RemoveTask, Begins, Scheduler!Remove, queue
<1>2. PICK a \in CallerType :
        /\ caller' = [caller EXCEPT ![c] = a]
        /\ a.pc = "free" /\ a.name = n /\ a.i = 0 /\ a.saved = 0
  <2> DEFINE a == [Rest EXCEPT !.pc = "free", !.name = n]
  <2>1. a \in CallerType /\ a.pc = "free" /\ a.name = n /\ a.i = 0 /\ a.saved = 0
    <3>1. Rest \in CallerType /\ Rest.i = 0 /\ Rest.saved = 0
      BY EmptyRest DEF Rest
    <3>2. QED
      BY <3>1 DEF CallerType
  <2>2. caller' = [caller EXCEPT ![c] = a]
    BY <1>1
  <2> HIDE DEF a
  <2>3. QED
    BY <2>1, <2>2
<1>3. /\ caller' \in [Callers -> CallerType] /\ caller'[c] = a
      /\ \A d \in Callers : d # c => caller'[d] = caller[d]
  BY <1>2, CallerMoves
<1>4. Used' = Used /\ Waiting' = Waiting
  BY <1>1 DEF Used, Waiting
<1>5. TypeOK'
  BY <1>1, <1>3 DEF TableInv, TypeOK, store
<1>6. Filled' /\ CallbackHas'
  BY <1>1, <1>4 DEF TableInv, Filled, CallbackHas
<1>7. CallerHas'
  <2>1. a.pc # "add" /\ a.saved <= a.i /\ (a.pc # "saveTask" => a.i = 0 /\ a.saved = 0)
    BY <1>2
  <2>2. \A i \in Slots : slot'[i].name = slot[i].name /\ slot'[i].count = slot[i].count
    BY <1>1
  <2>3. QED
    BY <1>1, <1>3, <2>1, <2>2, CallerKeeps
<1>8. TaskHasSlot'
  BY <1>1 DEF TableInv, TaskHasSlot
<1>9. OneCaller'
  <2>1. SUFFICES ASSUME clean' PROVE OneCaller'
    BY <1>1 DEF OneCaller, Running
  <2>2. \A d \in Callers : d # c => caller'[d].pc = "idle"
    BY <1>1, <1>3, <2>1
  <2>3. caller'[c].pc = "free" /\ \A t \in active' : t.name # caller'[c].name
    BY <1>1, <1>2, <1>3
  <2>4. QED
    BY <2>1, <2>2, <2>3 DEF OneCaller, Running
<1>10. CopyKept'
  <2>1. SUFFICES ASSUME clean', ~torn' PROVE CopyKept'
    BY DEF CopyKept
  <2>2. \A d \in Callers : caller[d].pc = "idle"
    BY <1>1, <2>1
  <2>3. Recorded(Used, kvCnt)'
    BY <1>1, <1>4, <2>1, <2>2 DEF TableInv, CopyKept, Recorded, store
  <2>4. \A d \in Callers : caller'[d].pc \in {"idle", "free"}
    BY <1>2, <1>3, <2>2
  <2>5. QED
    BY <1>1, <2>3, <2>4 DEF CopyKept, Running
<1>11. WorkHasToken => WorkHasToken'
  BY <1>1, <1>4 DEF WorkHasToken, Work, WakeUps
<1>12. QED
  BY <1>5, <1>6, <1>7, <1>8, <1>9, <1>10, <1>11 DEF TableInv

(* The slot that CtxFree gives up is one of that name.                     *)
LEMMA FreedSlot ==
  ASSUME TableInv, NEW c \in Callers, CtxFree(c)
  PROVE  \/ slot' = slot
         \/ \E s \in Used : slot[s].name = caller[c].name
                            /\ slot' = [slot EXCEPT ![s].used = FALSE]
<1> DEFINE named == {i \in Used : slot[i].name = caller[c].name}
<1>1. slot' = IF named = {} THEN slot ELSE [slot EXCEPT ![Min(named)].used = FALSE]
  BY DEF CtxFree
<1>2. ASSUME named # {} PROVE Min(named) \in named
  <2>1. named \subseteq Nat
    BY Constants DEF Used
  <2> HIDE DEF named
  <2>2. \E m \in named : \A k \in named : m <= k
    BY <1>2, <2>1, LeastElement
  <2>3. QED
    BY <2>2 DEF Min
<1>3. QED
  BY <1>1, <1>2

LEMMA CtxFreeInv ==
  ASSUME TableInv, NEW c \in Callers, CtxFree(c)
  PROVE  TableInv' /\ (WorkHasToken => WorkHasToken')
<1>1. /\ caller[c].pc = "free" /\ Goto(c, "saveCnt")
      /\ UNCHANGED <<active, calling, callback, next, busy, tokens, rr, worker, store, boot,
                     clean, torn, reused, owed>>
  BY DEF CtxFree, sched, queue, history
<1>2. PICK a \in CallerType :
        /\ caller' = [caller EXCEPT ![c] = a]
        /\ a.pc = "saveCnt" /\ a.i = 0 /\ a.saved = 0
  <2>1. caller' = [caller EXCEPT ![c] = [caller[c] EXCEPT !.pc = "saveCnt"]]
    BY <1>1 DEF Goto
  <2>2. caller[c].i = 0 /\ caller[c].saved = 0
    BY <1>1 DEF TableInv, CallerHas
  <2>3. QED
    BY <2>1, <2>2, CallerTypes
<1>3. /\ caller' \in [Callers -> CallerType] /\ caller'[c] = a
      /\ \A d \in Callers : d # c => caller'[d] = caller[d]
  BY <1>2, CallerMoves
<1>4. clean => \A d \in Callers : d # c => caller[d].pc = "idle"
  BY <1>1, OthersIdle
<1>5. Running
  BY <1>1 DEF TableInv, CallerHas
<1>6. /\ slot' \in [Slots -> SlotType] /\ Filled'
      /\ \A i \in Slots : slot'[i].name = slot[i].name /\ slot'[i].count = slot[i].count
      /\ Cardinality(Waiting') \in Nat /\ Cardinality(Waiting') <= Cardinality(Waiting)
      /\ \A i \in Used : slot[i].name # caller[c].name => slot'[i] = slot[i]
  <2>1. CASE slot' = slot
    <3>1. Used' = Used /\ Waiting' = Waiting
      BY <2>1 DEF Used, Waiting
    <3>2. QED
      BY <2>1, <3>1, SlotsFinite DEF TableInv, TypeOK, Filled
  <2>2. ASSUME NEW s \in Used, slot[s].name = caller[c].name,
               slot' = [slot EXCEPT ![s].used = FALSE]
        PROVE  /\ slot' \in [Slots -> SlotType] /\ Filled'
               /\ \A i \in Slots : slot'[i].name = slot[i].name /\ slot'[i].count = slot[i].count
               /\ Cardinality(Waiting') \in Nat /\ Cardinality(Waiting') <= Cardinality(Waiting)
               /\ \A i \in Used : slot[i].name # caller[c].name => slot'[i] = slot[i]
    <3>1. s \in Slots /\ Used \subseteq Slots
      BY DEF Used
    <3>2. /\ slot' \in [Slots -> SlotType] /\ Filled'
          /\ \A i \in Slots : /\ slot'[i].name = slot[i].name /\ slot'[i].count = slot[i].count
                              /\ i # s => slot'[i] = slot[i]
          /\ Cardinality(Waiting') \in Nat /\ Cardinality(Waiting') <= Cardinality(Waiting)
      BY <2>2, <3>1, GivesUp
    <3>3. QED
      BY <2>2, <3>1, <3>2
  <2>3. QED
    BY <2>1, <2>2, FreedSlot
<1>7. TypeOK'
  BY <1>1, <1>3, <1>6 DEF TableInv, TypeOK, store
<1>8. CallerHas' /\ CallbackHas'
  <2>1. CallerHas'
    BY <1>1, <1>2, <1>3, <1>5, <1>6, CallerKeeps, Constants
  <2>2. QED
    BY <1>1, <2>1 DEF TableInv, CallbackHas
<1>9. TaskHasSlot'
  <2>1. SUFFICES ASSUME clean PROVE TaskHasSlot'
    BY <1>1 DEF TaskHasSlot
  <2>2. \A t \in active : t.name # caller[c].name /\ t.arg \in Used /\ slot[t.arg].name = t.name
    BY <1>1, <2>1 DEF TableInv, TypeOK, OneCaller, TaskHasSlot, Used
  <2>3. \A t \in active : slot'[t.arg] = slot[t.arg]
    BY <1>6, <2>2
  <2>4. QED
    BY <1>1, <2>1, <2>3 DEF TableInv, TaskHasSlot
<1>10. OneCaller'
  BY <1>1, <1>2, <1>3, <1>4, <1>5 DEF OneCaller, Running
<1>11. CopyKept'
  BY <1>1, <1>2, <1>3, <1>4, <1>5 DEF CopyKept, Running
<1>12. WorkHasToken => WorkHasToken'
  BY <1>1, <1>6, FewerWait
<1>13. QED
  BY <1>6, <1>7, <1>8, <1>9, <1>10, <1>11, <1>12 DEF TableInv

(* A step of sched_nvs_save touches the key-value store only.              *)
LEMMA SaveStep ==
  ASSUME TableInv, NEW c \in Callers, NEW a \in CallerType,
         caller[c].pc \in {"saveCnt", "saveTask"}, caller' = [caller EXCEPT ![c] = a],
         a.pc \in {"idle", "saveTask"},
         a.saved <= a.i, a.pc # "saveTask" => a.i = 0 /\ a.saved = 0,
         UNCHANGED <<slot, active, calling, callback, next, busy, tokens, rr, worker, boot,
                     clean, reused, owed>>,
         kvCnt' \in 0..N, kvTask' \in [Slots -> [name : Names, count : Counts] \cup {None}],
         torn' \in BOOLEAN, CopyKept'
  PROVE  TableInv' /\ (WorkHasToken => WorkHasToken')
<1>1. /\ caller' \in [Callers -> CallerType] /\ caller'[c] = a
      /\ \A d \in Callers : d # c => caller'[d] = caller[d]
  BY CallerMoves
<1>2. clean => \A d \in Callers : d # c => caller[d].pc = "idle"
  BY OthersIdle
<1>3. Running
  BY DEF TableInv, CallerHas
<1>4. Used' = Used /\ Waiting' = Waiting
  BY DEF Used, Waiting
<1>5. TypeOK'
  BY <1>1 DEF TableInv, TypeOK
<1>6. Filled' /\ CallbackHas' /\ TaskHasSlot'
  BY <1>4 DEF TableInv, Filled, CallbackHas, TaskHasSlot
<1>7. CallerHas'
  BY <1>1, <1>3, CallerKeeps
<1>8. OneCaller'
  BY <1>1, <1>2, <1>3 DEF OneCaller, Running
<1>9. WorkHasToken => WorkHasToken'
  BY <1>4 DEF WorkHasToken, Work, WakeUps
<1>10. QED
  BY <1>5, <1>6, <1>7, <1>8, <1>9 DEF TableInv

LEMMA SaveCntInv ==
  ASSUME TableInv, NEW c \in Callers, SaveCnt(c)
  PROVE  TableInv' /\ (WorkHasToken => WorkHasToken')
<1>1. /\ caller[c].pc = "saveCnt" /\ Goto(c, "saveTask")
      /\ \/ kvCnt' = Cardinality(Used) /\ torn' = FALSE
         \/ kvCnt' = kvCnt /\ torn' = TRUE
      /\ UNCHANGED <<slot, active, calling, callback, next, busy, tokens, rr, worker, kvTask,
                     boot, clean, reused, owed>>
  BY DEF SaveCnt, WriteFails, sched, queue
<1>2. PICK a \in CallerType :
        /\ caller' = [caller EXCEPT ![c] = a]
        /\ a.pc = "saveTask" /\ a.i = 0 /\ a.saved = 0
  <2>1. caller' = [caller EXCEPT ![c] = [caller[c] EXCEPT !.pc = "saveTask"]]
    BY <1>1 DEF Goto
  <2>2. caller[c].i = 0 /\ caller[c].saved = 0
    BY <1>1 DEF TableInv, CallerHas
  <2>3. QED
    BY <2>1, <2>2, CallerTypes
<1>3. /\ caller'[c] = a /\ \A d \in Callers : d # c => caller'[d] = caller[d]
  BY <1>2, CallerMoves
<1>4. clean => \A d \in Callers : d # c => caller[d].pc = "idle"
  BY <1>1, OthersIdle
<1>5. Running
  BY <1>1 DEF TableInv, CallerHas
<1>6. CopyKept'
  <2>1. Used' = Used /\ UsedBefore(0)' = {}
    <3>1. Used' = Used /\ UsedBefore(0)' = UsedBefore(0)
      BY <1>1 DEF Used, UsedBefore
    <3>2. \A i \in Used : i \in Nat
      BY Constants DEF Used
    <3>3. UsedBefore(0) = {}
      BY <3>2 DEF UsedBefore
    <3>4. QED
      BY <3>1, <3>3
  <2>2. Cardinality(UsedBefore(0)') = 0 /\ Recorded(UsedBefore(0), 0)'
    BY <2>1, FS_EmptySet DEF Recorded
  <2>3. QED
    BY <1>1, <1>2, <1>3, <1>4, <1>5, <2>1, <2>2 DEF CopyKept, Running
<1>7. kvCnt' \in 0..N /\ kvTask' \in [Slots -> [name : Names, count : Counts] \cup {None}]
  BY <1>1, SlotsFinite DEF TableInv, TypeOK
<1>8. a.pc \in {"idle", "saveTask"} /\ a.saved <= a.i
      /\ (a.pc # "saveTask" => a.i = 0 /\ a.saved = 0) /\ caller[c].pc \in {"saveCnt", "saveTask"}
  BY <1>1, <1>2
<1>9. torn' \in BOOLEAN
  BY <1>1
<1>10. QED
  BY <1>1, <1>2, <1>6, <1>7, <1>8, <1>9, SaveStep

LEMMA SaveTaskInv ==
  ASSUME TableInv, NEW c \in Callers, SaveTask(c)
  PROVE  TableInv' /\ (WorkHasToken => WorkHasToken')
<1>1. PICK i, saved : i = caller[c].i /\ saved = caller[c].saved
  OBVIOUS
<1>2. /\ caller[c].pc = "saveTask" /\ i < N
      /\ \/ /\ slot[i].used
            /\ \/ /\ kvTask' = [kvTask EXCEPT ![saved] = [name |-> slot[i].name,
                                                          count |-> slot[i].count]]
                  /\ torn' = torn
               \/ kvTask' = kvTask /\ torn' = TRUE
            /\ caller' = [caller EXCEPT ![c].i = i + 1, ![c].saved = @ + 1]
         \/ /\ ~slot[i].used /\ caller' = [caller EXCEPT ![c].i = i + 1]
            /\ kvTask' = kvTask /\ torn' = torn
      /\ UNCHANGED <<slot, active, calling, callback, next, busy, tokens, rr, worker, kvCnt,
                     boot, clean, reused, owed>>
  BY <1>1 DEF SaveTask, WriteFails, RecordKey, sched, queue
<1>3. /\ i \in Slots /\ i \in Nat /\ i + 1 \in 0..N
      /\ saved \in Nat /\ saved <= i /\ saved \in Slots /\ saved + 1 \in 0..N
  <2>1. caller[c].i \in 0..N /\ caller[c].saved \in 0..N /\ caller[c].saved <= caller[c].i
    BY DEF TableInv, TypeOK, CallerType, CallerHas
  <2>2. QED
    BY <1>1, <1>2, <2>1, Constants DEF Slots
<1>4. caller[c] \in CallerType /\ caller[c].pc = "saveTask"
  BY <1>2, CallerTypes
<1>5. PICK a \in CallerType :
        /\ caller' = [caller EXCEPT ![c] = a]
        /\ a.pc = "saveTask" /\ a.i = i + 1
        /\ a.saved = IF slot[i].used THEN saved + 1 ELSE saved
  <2>1. CASE slot[i].used
    <3>1. caller' = [caller EXCEPT ![c] = [caller[c] EXCEPT !.i = i + 1, !.saved = saved + 1]]
      BY <1>1, <1>2, <2>1
    <3>2. PICK b : b = [caller[c] EXCEPT !.i = i + 1, !.saved = saved + 1]
      OBVIOUS
    <3>3. b \in CallerType /\ b.pc = "saveTask" /\ b.i = i + 1 /\ b.saved = saved + 1
      BY <1>3, <1>4, <3>2 DEF CallerType
    <3>4. QED
      BY <2>1, <3>1, <3>2, <3>3
  <2>2. CASE ~slot[i].used
    <3>1. caller' = [caller EXCEPT ![c] = [caller[c] EXCEPT !.i = i + 1]]
      BY <1>1, <1>2, <2>2
    <3>2. PICK b : b = [caller[c] EXCEPT !.i = i + 1]
      OBVIOUS
    <3>3. b \in CallerType /\ b.pc = "saveTask" /\ b.i = i + 1 /\ b.saved = saved
      BY <1>1, <1>3, <1>4, <3>2 DEF CallerType
    <3>4. caller' = [caller EXCEPT ![c] = b]
      BY <3>1, <3>2
    <3>5. b.saved = IF slot[i].used THEN saved + 1 ELSE saved
      BY <2>2, <3>3
    <3>6. QED
      BY <3>3, <3>4, <3>5
  <2>3. QED
    BY <2>1, <2>2
<1>6. /\ caller'[c] = a /\ \A d \in Callers : d # c => caller'[d] = caller[d]
  BY <1>5, CallerMoves
<1>7. clean => \A d \in Callers : d # c => caller[d].pc = "idle"
  BY <1>2, OthersIdle
<1>8. Running
  BY <1>2 DEF TableInv, CallerHas
<1>9. Used' = Used /\ \A n : UsedBefore(n)' = UsedBefore(n)
  BY <1>2 DEF Used, UsedBefore
<1>10. ASSUME slot[i].used, kvTask' # kvTask \/ ~torn'
       PROVE  /\ i \in Used
              /\ kvTask' \in [Slots -> [name : Names, count : Counts] \cup {None}]
              /\ kvTask'[saved] # None /\ kvTask'[saved].name = slot[i].name
              /\ \A k \in Slots : k # saved => kvTask'[k] = kvTask[k]
  <2>1. i \in Used /\ slot[i].name \in Names /\ slot[i].count \in Counts
    BY <1>3, <1>10 DEF TableInv, Filled, Used
  <2>2. PICK x : x = [name |-> slot[i].name, count |-> slot[i].count]
    OBVIOUS
  <2>3. x \in [name : Names, count : Counts] /\ x # None /\ x.name = slot[i].name
    BY <2>1, <2>2, Constants
  <2>4. kvTask' = [kvTask EXCEPT ![saved] = x]
    BY <1>2, <1>10, <2>2
  <2>5. QED
    BY <1>3, <2>1, <2>3, <2>4 DEF TableInv, TypeOK
<1>11. /\ kvTask' \in [Slots -> [name : Names, count : Counts] \cup {None}] /\ kvCnt' \in 0..N
       /\ torn' \in BOOLEAN
  BY <1>2, <1>10 DEF TableInv, TypeOK
<1>12. CopyKept'
  <2>1. SUFFICES ASSUME clean, ~torn, ~torn' PROVE CopyKept'
    BY <1>2 DEF CopyKept
  <2>2. /\ kvCnt = Cardinality(Used) /\ saved = Cardinality(UsedBefore(i))
        /\ Recorded(UsedBefore(i), saved)
    BY <1>1, <1>2, <2>1 DEF TableInv, CopyKept
  <2>3. UsedBefore(i + 1) = IF slot[i].used THEN UsedBefore(i) \cup {i} ELSE UsedBefore(i)
    <3>1. \A j \in Used : j < i + 1 <=> j < i \/ j = i
      <4>1. \A j \in Used : j \in Nat
        BY ONLY Constants DEF Used
      <4>2. \A j \in Nat : j < i + 1 <=> j < i \/ j = i
        BY ONLY <1>3
      <4>3. QED
        BY ONLY <4>1, <4>2
    <3>2. i \in Used <=> slot[i].used
      BY <1>3 DEF Used
    <3>3. QED
      BY <3>1, <3>2 DEF UsedBefore
  <2>4. a.saved = Cardinality(UsedBefore(i + 1))
    <3>1. i \notin UsedBefore(i)
      BY <1>3 DEF UsedBefore
    <3>2. slot[i].used => Cardinality(UsedBefore(i) \cup {i}) = saved + 1
      BY <2>2, <3>1, SlotsFinite, OneMore
    <3>3. QED
      BY <1>5, <2>2, <2>3, <3>2
  <2>5. \A j \in UsedBefore(i + 1) : \E k \in 0..(a.saved - 1) :
          k \in Slots /\ kvTask'[k] # None /\ kvTask'[k].name = slot[j].name
    <3> SUFFICES ASSUME NEW j \in UsedBefore(i + 1)
                 PROVE  \E k \in 0..(a.saved - 1) :
                          k \in Slots /\ kvTask'[k] # None /\ kvTask'[k].name = slot[j].name
      OBVIOUS
    <3>1. CASE slot[i].used /\ j = i
      <4>1. saved \in 0..(a.saved - 1)
        BY <1>3, <1>5, <3>1
      <4>2. QED
        BY <1>3, <1>10, <2>1, <3>1, <4>1
    <3>2. CASE ~(slot[i].used /\ j = i)
      <4>1. j \in UsedBefore(i)
        BY <2>3, <3>2
      <4>2. PICK k \in 0..(saved - 1) : k \in Slots /\ kvTask[k] # None /\ kvTask[k].name = slot[j].name
        BY <2>2, <4>1 DEF Recorded
      <4>3. k # saved /\ k \in 0..(a.saved - 1) /\ kvTask'[k] = kvTask[k]
        BY <1>2, <1>3, <1>5, <1>10, <2>1, <4>2
      <4>4. QED
        BY <4>2, <4>3
    <3>3. QED
      BY <3>1, <3>2
  <2>6. Recorded(UsedBefore(i + 1), a.saved)'
    BY <1>2, <1>9, <2>5 DEF Recorded
  <2>7. QED
    BY <1>2, <1>5, <1>6, <1>7, <1>8, <1>9, <2>1, <2>2, <2>4, <2>6 DEF CopyKept, Running
<1>13. a.saved <= a.i
  BY <1>3, <1>5
<1>14. QED
  BY <1>2, <1>5, <1>11, <1>12, <1>13, SaveStep

LEMMA SaveEndsInv ==
  ASSUME TableInv, NEW c \in Callers, SaveEnds(c)
  PROVE  TableInv' /\ (WorkHasToken => WorkHasToken')
<1>1. /\ caller[c].pc = "saveTask" /\ caller[c].i = N /\ caller' = [caller EXCEPT ![c] = Rest]
      /\ UNCHANGED <<slot, active, calling, callback, next, busy, tokens, rr, worker, kvCnt,
                     kvTask, boot, clean, torn, reused, owed>>
  BY DEF SaveEnds, sched, queue, store, history
<1>2. /\ caller'[c] = Rest /\ \A d \in Callers : d # c => caller'[d] = caller[d]
  BY <1>1, EmptyRest, CallerMoves
<1>3. clean => \A d \in Callers : d # c => caller[d].pc = "idle"
  BY <1>1, OthersIdle
<1>4. Running
  BY <1>1 DEF TableInv, CallerHas
<1>5. CopyKept'
  <2>1. SUFFICES ASSUME clean, ~torn PROVE CopyKept'
    BY <1>1 DEF CopyKept
  <2>2. UsedBefore(N) = Used
    BY Constants DEF UsedBefore, Used
  <2>3. Recorded(Used, kvCnt)
    BY <1>1, <2>1, <2>2 DEF TableInv, CopyKept
  <2>4. Recorded(Used, kvCnt)'
    BY <1>1, <2>3 DEF Recorded, Used
  <2>5. \A d \in Callers : caller'[d].pc = "idle"
    BY <1>2, <1>3, <2>1, EmptyRest
  <2>6. QED
    BY <1>1, <1>4, <2>4, <2>5 DEF CopyKept, Running
<1>6. /\ kvCnt' \in 0..N /\ kvTask' \in [Slots -> [name : Names, count : Counts] \cup {None}]
      /\ torn' \in BOOLEAN
  BY <1>1 DEF TableInv, TypeOK
<1>7. Rest \in CallerType /\ Rest.pc = "idle" /\ Rest.i = 0 /\ Rest.saved = 0
  BY EmptyRest DEF Rest
<1>8. Rest.pc \in {"idle", "saveTask"} /\ Rest.saved <= Rest.i
      /\ (Rest.pc # "saveTask" => Rest.i = 0 /\ Rest.saved = 0)
      /\ caller[c].pc \in {"saveCnt", "saveTask"}
  BY <1>1, <1>7
<1>9. QED
  BY <1>1, <1>5, <1>6, <1>7, <1>8, SaveStep

-----------------------------------------------------------------------------
(* Reset and restart *)

LEMMA ResetInv ==
  ASSUME TableInv, Reset
  PROVE  TableInv' /\ WorkHasToken'
<1>1. /\ slot' = [i \in Slots |-> Empty] /\ caller' = [c \in Callers |-> Rest]
      /\ active' = {} /\ calling' = None
      /\ callback' = "none" /\ next' = None /\ busy' = FALSE
      /\ tokens' = 0 /\ rr' = 0 /\ worker' = "take" /\ boot' = 0
      /\ clean' = TRUE
      /\ torn' = (torn \/ ~clean \/ \E c \in Callers : caller[c].pc # "idle")
      /\ owed' = Scheduler!Registered \cup (IF Running THEN {} ELSE owed) /\ reused' = FALSE
      /\ kvCnt' = kvCnt /\ kvTask' = kvTask
  BY DEF Reset, store
<1>2. Used' = {} /\ Waiting' = {}
  BY <1>1 DEF Used, Waiting, Empty
<1>3. \A c \in Callers : caller'[c] = Rest /\ Rest.pc = "idle" /\ Rest.i = 0 /\ Rest.saved = 0
  BY <1>1, EmptyRest DEF Rest
<1>4. TypeOK'
  <2>1. slot' \in [Slots -> SlotType] /\ caller' \in [Callers -> CallerType]
    BY <1>1, EmptyRest
  <2>2. tokens' \in 0..MaxTokens /\ rr' \in Slots /\ boot' \in 0..N
    <3>1. MaxTokens \in Nat
      BY SlotAssumption
    <3>2. QED
      BY <1>1, <3>1, Constants
  <2>3. owed' \subseteq Names /\ clean' \in BOOLEAN /\ torn' \in BOOLEAN
    BY <1>1 DEF TableInv, TypeOK, Scheduler!Registered
  <2>4. QED
    BY <1>1, <2>1, <2>2, <2>3 DEF TableInv, TypeOK
<1>5. Filled' /\ CallbackHas' /\ TaskHasSlot'
  BY <1>1, <1>2 DEF Filled, CallbackHas, TaskHasSlot
<1>6. CallerHas' /\ OneCaller'
  <2>1. CallerHas'
    BY <1>3 DEF CallerHas
  <2>2. OneCaller'
    BY <1>1, <1>3 DEF OneCaller, Running
  <2>3. QED
    BY <2>1, <2>2
<1>7. CopyKept'
  <2>1. SUFFICES ASSUME clean', ~torn' PROVE CopyKept'
    BY DEF CopyKept
  <2>2. clean /\ ~torn /\ \A c \in Callers : caller[c].pc = "idle"
    BY <1>1, <2>1
  <2>3. Recorded(Used, kvCnt)
    BY <2>2 DEF TableInv, CopyKept
  <2>4. Recorded(Used, kvCnt)'
    BY <1>2 DEF Recorded
  <2>5. \A n \in owed' : \E k \in 0..(kvCnt - 1) : kvTask[k] # None /\ kvTask[k].name = n
    <3>1. TAKE n \in owed'
    <3>2. ASSUME NEW t \in active, t.name = n
          PROVE  \E k \in 0..(kvCnt - 1) : kvTask[k] # None /\ kvTask[k].name = n
      <4>1. t.arg \in Used /\ slot[t.arg].name = n
        BY <2>2, <3>2 DEF TableInv, TypeOK, TaskHasSlot, Used
      <4>2. QED
        BY <2>3, <4>1 DEF Recorded
    <3>3. CASE n \in Scheduler!Registered
      BY <3>2, <3>3 DEF Scheduler!Registered
    <3>4. CASE ~Running /\ n \in owed
      <4>1. \/ \E t \in active : t.name = n
            \/ \E k \in boot..(kvCnt - 1) : kvTask[k] # None /\ kvTask[k].name = n
        BY <2>2, <3>4 DEF TableInv, CopyKept
      <4>2. boot \in Nat /\ kvCnt \in Nat
        BY DEF TableInv, TypeOK
      <4>3. \A k \in boot..(kvCnt - 1) : k \in 0..(kvCnt - 1)
        BY <4>2
      <4>4. QED
        BY <3>2, <4>1, <4>3
    <3>5. QED
      BY <1>1, <3>3, <3>4
  <2>6. QED
    BY <1>1, <1>3, <2>4, <2>5 DEF CopyKept
<1>8. WorkHasToken'
  BY <1>1, <1>2, FS_EmptySet DEF WorkHasToken, Work, WakeUps
<1>9. QED
  BY <1>4, <1>5, <1>6, <1>7, <1>8 DEF TableInv

(* A free slot is filled, with a task of its own or with none.             *)
LEMMA FillsSlot ==
  ASSUME TableInv, NEW i \in Slots, i \notin Used, NEW x \in SlotType,
         slot' = [slot EXCEPT ![i] = x], ~x.pending,
         x.used => x.name \in Names /\ x.count \in Counts
  PROVE  /\ slot' \in [Slots -> SlotType] /\ slot'[i] = x
         /\ \A j \in Slots : j # i => slot'[j] = slot[j]
         /\ Used' = IF x.used THEN Used \cup {i} ELSE Used
         /\ Waiting' = Waiting /\ Filled'
<1>1. /\ slot' \in [Slots -> SlotType] /\ slot'[i] = x
      /\ \A j \in Slots : j # i => slot'[j] = slot[j]
  BY DEF TableInv, TypeOK
<1>2. Used' = IF x.used THEN Used \cup {i} ELSE Used
  BY <1>1 DEF Used
<1>3. Waiting' = Waiting
  BY <1>1, <1>2 DEF Waiting, Used
<1>4. Filled'
  BY <1>1, <1>2 DEF TableInv, Filled, Used
<1>5. QED
  BY <1>1, <1>2, <1>3, <1>4

(* The step of the restore that deals with one record, or gives up         *)
LEMMA RestoreInv ==
  ASSUME TableInv, Restore
  PROVE  TableInv' /\ (WorkHasToken => WorkHasToken')
<1>1. /\ ~Running /\ boot < kvCnt
      /\ UNCHANGED <<calling, callback, next, busy, tokens, rr, worker, caller, kvCnt, kvTask,
                     clean, reused, owed>>
  BY DEF Restore, queue, store, sched, Scheduler!Add
<1>2. /\ boot \in Slots /\ boot \in Nat /\ boot + 1 \in 0..N /\ kvCnt \in 0..N
      /\ kvTask[boot] # None => kvTask[boot] \in [name : Names, count : Counts]
  BY <1>1, Constants DEF TableInv, TypeOK, Slots
<1>3. \A c \in Callers : caller[c].pc = "idle"
  BY <1>1 DEF TableInv, CallerHas
<1>4. CallerHas' /\ OneCaller' /\ CallbackHas'
  <2>1. CallerHas'
    BY <1>1, <1>3 DEF TableInv, CallerHas
  <2>2. OneCaller'
    BY <1>1, <1>3 DEF TableInv, OneCaller, Running
  <2>3. QED
    BY <1>1, <2>1, <2>2 DEF TableInv, CallbackHas
<1>5. CASE UNCHANGED <<slot, active>> /\ (~torn' => ~torn /\ kvTask[boot] = None)
           /\ torn' \in BOOLEAN /\ boot' \in 0..N /\ (~torn' => boot' = boot + 1)
  <2>1. Used' = Used /\ Waiting' = Waiting
    BY <1>5 DEF Used, Waiting
  <2>2. TypeOK'
    BY <1>1, <1>5 DEF TableInv, TypeOK
  <2>3. Filled' /\ TaskHasSlot'
    BY <1>1, <1>5, <2>1 DEF TableInv, Filled, TaskHasSlot
  <2>4. CopyKept'
    <3>1. SUFFICES ASSUME clean', ~torn' PROVE CopyKept'
      BY DEF CopyKept
    <3>2. clean /\ ~torn /\ kvTask[boot] = None /\ boot' = boot + 1 /\ Recorded(Used, kvCnt)
      BY <1>1, <1>3, <1>5, <3>1 DEF TableInv, CopyKept
    <3>3. Recorded(Used, kvCnt)'
      BY <1>1, <1>5, <2>1, <3>2 DEF Recorded
    <3>4. \A n \in owed' :
             \/ \E t \in active' : t.name = n
             \/ \E k \in boot'..(kvCnt' - 1) : kvTask'[k] # None /\ kvTask'[k].name = n
      <4>1. TAKE n \in owed'
      <4>2. CASE \E t \in active : t.name = n
        BY <1>5, <4>2
      <4>3. ASSUME NEW k \in boot..(kvCnt - 1), kvTask[k] # None, kvTask[k].name = n
            PROVE  \E l \in boot'..(kvCnt' - 1) : kvTask'[l] # None /\ kvTask'[l].name = n
        <5>1. k \in boot'..(kvCnt' - 1)
          BY <1>1, <1>2, <3>2, <4>3
        <5>2. QED
          BY <1>1, <4>3, <5>1
      <4>4. n \in owed
        BY <1>1
      <4>5. QED
        BY <1>1, <3>2, <4>2, <4>3, <4>4 DEF TableInv, CopyKept
    <3>5. QED
      BY <1>1, <1>3, <3>3, <3>4 DEF CopyKept
  <2>5. WorkHasToken => WorkHasToken'
    BY <1>1, <2>1 DEF WorkHasToken, Work, WakeUps
  <2>6. QED
    BY <1>4, <2>2, <2>3, <2>4, <2>5 DEF TableInv
<1>6. ASSUME kvTask[boot] # None, boot' = boot + 1,
             NEW i \in Slots, CtxAlloc(i), NEW x \in SlotType,
             slot' = [slot EXCEPT ![i] = x],
             x.name = kvTask[boot].name, x.count = kvTask[boot].count, ~x.pending,
             \/ /\ x.used /\ torn' = torn
                /\ \E t \in [name : Names, arg : Slots, left : Int] :
                     t.name = x.name /\ t.arg = i /\ active' = active \cup {t}
             \/ /\ ~x.used /\ active' = active /\ torn' \in BOOLEAN
                /\ ~torn' => ~torn /\ x.name \in Scheduler!Registered
      PROVE  TableInv' /\ (WorkHasToken => WorkHasToken')
  <2>1. x.name \in Names /\ x.count \in Counts /\ i \notin Used
    BY <1>2, <1>6 DEF CtxAlloc, Free
  <2>2. /\ slot' \in [Slots -> SlotType] /\ slot'[i] = x
        /\ \A j \in Slots : j # i => slot'[j] = slot[j]
        /\ Used' = IF x.used THEN Used \cup {i} ELSE Used
        /\ Waiting' = Waiting /\ Filled'
    BY <1>6, <2>1, FillsSlot
  <2>3. active' \subseteq [name : Names, arg : Slots, left : Int] /\ torn' \in BOOLEAN
        /\ active \subseteq active' /\ (~torn' => ~torn)
    BY <1>6 DEF TableInv, TypeOK
  <2>4. TypeOK'
    BY <1>1, <1>2, <1>6, <2>2, <2>3 DEF TableInv, TypeOK
  <2>5. TaskHasSlot'
    <3>1. SUFFICES ASSUME clean' PROVE TaskHasSlot'
      BY DEF TaskHasSlot
    <3>2. /\ \A t \in active : t.arg \in Used /\ slot[t.arg].used /\ slot[t.arg].name = t.name
          /\ \A t, u \in active : t.arg = u.arg => t = u
      BY <1>1, <3>1 DEF TableInv, TypeOK, TaskHasSlot, Used
    <3>3. \A t \in active : t.arg # i /\ slot'[t.arg] = slot[t.arg]
      BY <2>1, <2>2, <3>2 DEF Used
    <3>4. CASE ~x.used
      BY <1>6, <3>2, <3>3, <3>4 DEF TaskHasSlot
    <3>5. CASE x.used
      <4>1. PICK t : t.name = x.name /\ t.arg = i /\ active' = active \cup {t}
        BY <1>6, <3>5
      <4>2. slot'[t.arg].used /\ slot'[t.arg].name = t.name /\ \A u \in active : u.arg # t.arg
        BY <2>2, <3>3, <3>5, <4>1
      <4>3. QED
        BY <3>2, <3>3, <4>1, <4>2 DEF TaskHasSlot
    <3>6. QED
      BY <3>4, <3>5
  <2>6. CopyKept'
    <3>1. SUFFICES ASSUME clean', ~torn' PROVE CopyKept'
      BY DEF CopyKept
    <3>2. clean /\ ~torn /\ Recorded(Used, kvCnt)
      BY <1>1, <1>3, <2>3, <3>1 DEF TableInv, CopyKept
    <3>3. \A j \in Used' : \E k \in 0..(kvCnt - 1) :
            k \in Slots /\ kvTask[k] # None /\ kvTask[k].name = slot'[j].name
      <4>1. TAKE j \in Used'
      <4>2. CASE j = i
        <5>1. boot \in 0..(kvCnt - 1)
          BY <1>1, <1>2
        <5>2. QED
          BY <1>2, <1>6, <2>2, <4>2, <5>1
      <4>3. CASE j # i
        <5>1. j \in Used /\ slot'[j] = slot[j]
          BY <2>2, <4>3 DEF Used
        <5>2. QED
          BY <3>2, <5>1 DEF Recorded
      <4>4. QED
        BY <4>2, <4>3
    <3>4. Recorded(Used, kvCnt)'
      BY <1>1, <3>3 DEF Recorded
    <3>5. \E t \in active' : t.name = x.name
      BY <1>6, <3>1 DEF Scheduler!Registered
    <3>6. \A n \in owed' :
             \/ \E t \in active' : t.name = n
             \/ \E k \in boot'..(kvCnt' - 1) : kvTask'[k] # None /\ kvTask'[k].name = n
      <4>1. TAKE n \in owed'
      <4>2. CASE \E t \in active : t.name = n
        BY <2>3, <4>2
      <4>3. ASSUME NEW k \in boot..(kvCnt - 1), kvTask[k] # None, kvTask[k].name = n, k # boot
            PROVE  \E l \in boot'..(kvCnt' - 1) : kvTask'[l] # None /\ kvTask'[l].name = n
        <5>1. k \in boot'..(kvCnt' - 1)
          BY <1>1, <1>2, <1>6, <4>3
        <5>2. QED
          BY <1>1, <4>3, <5>1
      <4>4. CASE kvTask[boot].name = n
        BY <1>6, <3>5, <4>4
      <4>5. n \in owed
        BY <1>1
      <4>6. QED
        BY <1>1, <3>2, <4>2, <4>3, <4>4, <4>5 DEF TableInv, CopyKept
    <3>7. QED
      BY <1>1, <1>3, <3>4, <3>6 DEF CopyKept
  <2>7. WorkHasToken => WorkHasToken'
    BY <1>1, <2>2 DEF WorkHasToken, Work, WakeUps
  <2>8. QED
    BY <1>4, <2>2, <2>4, <2>5, <2>6, <2>7 DEF TableInv
<1>7. CASE kvTask[boot] = None /\ boot' = boot + 1 /\ UNCHANGED <<slot, active, calling, torn>>
  BY <1>2, <1>5, <1>7 DEF TableInv, TypeOK
<1>8. CASE /\ boot' \in {boot + 1, N} /\ torn' = TRUE
           /\ UNCHANGED <<slot, active, calling>>
  <2>1. N \in 0..N
    BY Constants
  <2>2. QED
    BY ONLY <1>2, <1>5, <1>8, <2>1
<1>9. CASE /\ kvTask[boot] # None /\ boot' = boot + 1
           /\ \E i \in Slots :
                /\ CtxAlloc(i)
                /\ \/ /\ Scheduler!Add(kvTask[boot].name, i, kvTask[boot].count)
                      /\ slot' = [slot EXCEPT ![i] = [Empty EXCEPT
                                    !.name = kvTask[boot].name, !.used = TRUE,
                                    !.count = kvTask[boot].count]]
                      /\ UNCHANGED torn
                   \/ /\ slot' = [slot EXCEPT ![i] = [Empty EXCEPT
                                    !.name = kvTask[boot].name, !.count = kvTask[boot].count]]
                      /\ torn' = (torn \/ kvTask[boot].name \notin Scheduler!Registered)
                      /\ UNCHANGED <<active, calling>>
  <2>1. PICK i \in Slots : CtxAlloc(i)
          /\ \/ /\ Scheduler!Add(kvTask[boot].name, i, kvTask[boot].count)
                /\ slot' = [slot EXCEPT ![i] = [Empty EXCEPT
                              !.name = kvTask[boot].name, !.used = TRUE,
                              !.count = kvTask[boot].count]]
                /\ UNCHANGED torn
             \/ /\ slot' = [slot EXCEPT ![i] = [Empty EXCEPT
                              !.name = kvTask[boot].name, !.count = kvTask[boot].count]]
                /\ torn' = (torn \/ kvTask[boot].name \notin Scheduler!Registered)
                /\ UNCHANGED <<active, calling>>
    BY <1>9
  <2>2. PICK n \in Names, k \in Counts : n = kvTask[boot].name /\ k = kvTask[boot].count
    BY <1>2, <1>9
  <2>3. CASE /\ Scheduler!Add(n, i, k) /\ UNCHANGED torn
             /\ slot' = [slot EXCEPT ![i] = [Empty EXCEPT !.name = n, !.used = TRUE, !.count = k]]
    <3>1. PICK x : x = [Empty EXCEPT !.name = n, !.used = TRUE, !.count = k]
      OBVIOUS
    <3>2. x \in SlotType /\ x.name = n /\ x.count = k /\ x.used /\ ~x.pending
      BY <3>1, EmptyRest DEF SlotType
    <3>3. PICK t : t = [name |-> n, arg |-> i, left |-> k]
      OBVIOUS
    <3>4. t \in [name : Names, arg : Slots, left : Int] /\ t.name = n /\ t.arg = i
          /\ active' = active \cup {t}
      BY <2>3, <3>3, Constants DEF Scheduler!Add
    <3>5. slot' = [slot EXCEPT ![i] = x]
      BY <2>3, <3>1
    <3>6. QED
      BY <1>6, <1>9, <2>1, <2>2, <2>3, <3>2, <3>4, <3>5
  <2>4. CASE /\ slot' = [slot EXCEPT ![i] = [Empty EXCEPT !.name = n, !.count = k]]
             /\ torn' = (torn \/ n \notin Scheduler!Registered)
             /\ UNCHANGED <<active, calling>>
    <3>1. PICK x : x = [Empty EXCEPT !.name = n, !.count = k]
      OBVIOUS
    <3>2. x \in SlotType /\ x.name = n /\ x.count = k /\ ~x.used /\ ~x.pending
      BY <3>1, EmptyRest DEF SlotType
    <3>3. slot' = [slot EXCEPT ![i] = x]
      BY <2>4, <3>1
    <3>4. torn' \in BOOLEAN
      BY <2>4 DEF TableInv, TypeOK
    <3>5. ~x.used /\ active' = active /\ torn' \in BOOLEAN
          /\ (~torn' => ~torn /\ x.name \in Scheduler!Registered)
      BY <2>4, <3>2, <3>4
    <3>6. QED
      BY <1>6, <1>9, <2>1, <2>2, <3>2, <3>3, <3>5
  <2>5. QED
    BY <2>1, <2>2, <2>3, <2>4
<1>10. QED
  BY <1>7, <1>8, <1>9 DEF Restore

LEMMA RestoreEndsInv ==
  ASSUME TableInv, RestoreEnds
  PROVE  TableInv' /\ (WorkHasToken => WorkHasToken')
<1>1. /\ ~Running /\ boot' = N /\ boot >= kvCnt
      /\ UNCHANGED <<slot, active, calling, callback, next, busy, tokens, rr, worker, caller,
                     kvCnt, kvTask, clean, torn, reused, owed>>
  BY DEF RestoreEnds, sched, queue, store, history
<1>2. \A c \in Callers : caller[c].pc = "idle"
  BY <1>1 DEF TableInv, CallerHas
<1>3. Used' = Used /\ Waiting' = Waiting
  BY <1>1 DEF Used, Waiting
<1>4. TypeOK'
  BY <1>1, Constants DEF TableInv, TypeOK
<1>5. Filled' /\ CallbackHas' /\ TaskHasSlot' /\ OneCaller'
  BY <1>1, <1>3 DEF TableInv, Filled, CallbackHas, TaskHasSlot, OneCaller, Running
<1>6. CallerHas'
  BY <1>1, <1>2 DEF TableInv, CallerHas
<1>7. CopyKept'
  BY <1>1, <1>2, <1>3 DEF TableInv, CopyKept, Recorded, Running
<1>8. WorkHasToken => WorkHasToken'
  BY <1>1, <1>3 DEF WorkHasToken, Work, WakeUps
<1>9. QED
  BY <1>4, <1>5, <1>6, <1>7, <1>8 DEF TableInv

-----------------------------------------------------------------------------

LEMMA StutterInv ==
  ASSUME TableInv, UNCHANGED vars
  PROVE  TableInv' /\ (WorkHasToken => WorkHasToken')
<1>1. /\ UNCHANGED <<slot, active, calling, callback, next, busy, tokens, rr, worker, caller,
                     store, boot, clean, torn, reused, owed>>
      /\ Used' = Used /\ Waiting' = Waiting
  BY DEF vars, store, Used, Waiting
<1>2. TypeOK' /\ CallbackHas'
  BY <1>1 DEF TableInv, TypeOK, CallbackHas, store
<1>3. Filled' /\ CallerHas' /\ TaskHasSlot' /\ OneCaller' /\ CopyKept'
  BY <1>1, QueueStep
<1>4. WorkHasToken => WorkHasToken'
  BY <1>1 DEF WorkHasToken, Work, WakeUps
<1>5. QED
  BY <1>2, <1>3, <1>4 DEF TableInv

LEMMA NextInv ==
  ASSUME TableInv, [Next]_vars
  PROVE  TableInv' /\ (WorkHasToken => WorkHasToken')
<1>1. ASSUME NEW r \in Requests, Schedule(r.name, r.count)
      PROVE  TableInv' /\ (WorkHasToken => WorkHasToken')
  BY <1>1, ScheduleInv
<1>2. CASE ScheduleAdd
  BY <1>2, ScheduleAddInv
<1>3. ASSUME NEW c \in Callers, NEW n \in Names, RemoveTask(c, n)
      PROVE  TableInv' /\ (WorkHasToken => WorkHasToken')
  BY <1>3, RemoveTaskInv
<1>4. ASSUME NEW c \in Callers, CallerStep(c)
      PROVE  TableInv' /\ (WorkHasToken => WorkHasToken')
  BY <1>4, CtxFreeInv, SaveCntInv, SaveTaskInv, SaveEndsInv DEF CallerStep
<1>5. CASE SchedCall \/ HandOver
  BY <1>5, SchedCallInv, HandOverInv
<1>6. CASE Give \/ WorkerStep
  BY <1>6, WorkerQuiet, PickPendingInv DEF WorkerStep
<1>7. CASE Reset
  BY <1>7, ResetInv
<1>8. CASE Restore \/ RestoreEnds
  BY <1>8, RestoreInv, RestoreEndsInv
<1>9. CASE UNCHANGED vars
  BY <1>9, StutterInv
<1>10. QED
  BY <1>1, <1>2, <1>3, <1>4, <1>5, <1>6, <1>7, <1>8, <1>9 DEF Next

(* Slots, tasks and the copy in the key-value store agree, as long as one  *)
(* caller works at a time: the callback of a registered task finds a slot  *)
(* in use with its name, which is no other task's; and as long as besides  *)
(* no write of the last save failed and no save was cut short, every slot  *)
(* in use is in the copy but for the change under way.                     *)
THEOREM TasksHaveSlots == Spec => []TableInv
<1>1. Init => TableInv
  BY TableInitInv
<1>2. TableInv /\ [Next]_vars => TableInv'
  BY NextInv
<1>3. QED
  BY <1>1, <1>2, PTL DEF Spec

(* The worker has a wake-up for every run that waits, whether its context  *)
(* is pending or its slot flagged, for any number of slots and wake-ups.   *)
THEOREM WaitingRunsHaveTokens == Spec => []WorkHasToken
<1>1. Init => TableInv /\ WorkHasToken
  BY TableInitInv
<1>2. TableInv /\ WorkHasToken /\ [Next]_vars => (TableInv /\ WorkHasToken)'
  BY NextInv
<1>3. QED
  BY <1>1, <1>2, PTL DEF Spec

(* Only the restore makes the system run.                                  *)
LEMMA StartsByRestore ==
  ASSUME TableInv, [Next]_vars, ~Running, Running'
  PROVE  Restore \/ RestoreEnds
<1>1. boot # boot'
  BY DEF Running
<1>2. ASSUME Reset PROVE FALSE
  BY <1>2, Constants DEF Reset, Running
<1>3. QED
  BY <1>1, <1>2 DEF Next, vars, Schedule, ScheduleAdd, RemoveTask, CallerStep, CtxFree, SaveCnt,
     SaveTask, SaveEnds, SchedCall, HandOver, Give, WorkerStep, Take, PickNext, PickPending,
     PickNothing, ChatEnds

(* A restart brings back every task that was registered at the reset, but  *)
(* for those that were called meanwhile or removed, unless a write of the  *)
(* last save failed, the reset hit a save, two threads had changed the     *)
(* tasks at once or the restore could not read, allocate or register.      *)
THEOREM TasksSurviveReset == Spec => RestartKeepsTasks
<1>1. ASSUME TableInv, TableInv', [Next]_vars, ~Running, Running', ~torn'
      PROVE  owed \subseteq {t.name : t \in active'}
  <2>1. CASE RestoreEnds
    <3>1. clean /\ ~torn /\ UNCHANGED active /\ boot >= kvCnt
      BY <1>1, <2>1 DEF RestoreEnds, sched, history, TableInv, OneCaller
    <3>2. \A k : k \notin boot..(kvCnt - 1)
      BY <1>1, <3>1 DEF TableInv, TypeOK
    <3>3. QED
      BY <1>1, <3>1, <3>2 DEF TableInv, CopyKept
  <2>2. CASE Restore
    <3>1. boot < kvCnt /\ boot' = N /\ kvCnt \in 0..N /\ boot \in 0..N
      BY <1>1, <2>2 DEF Restore, Running, TableInv, TypeOK
    <3>2. ~torn /\ boot' = boot + 1
          /\ (kvTask[boot] = None \/ \E t \in active' : t.name = kvTask[boot].name)
          /\ active \subseteq active'
      <4>1. CASE kvTask[boot] = None
        BY <1>1, <2>2, <4>1 DEF Restore
      <4>2. CASE kvTask[boot] # None
        <5>1. boot' = boot + 1 /\ \E i \in Slots :
                \/ Scheduler!Add(kvTask[boot].name, i, kvTask[boot].count) /\ UNCHANGED torn
                \/ torn' = (torn \/ kvTask[boot].name \notin Scheduler!Registered)
                   /\ UNCHANGED active
          BY <1>1, <2>2, <4>2 DEF Restore
        <5>2. PICK i, n :
                /\ n = kvTask[boot].name
                /\ \/ Scheduler!Add(n, i, kvTask[boot].count) /\ UNCHANGED torn
                   \/ torn' = (torn \/ n \notin Scheduler!Registered) /\ UNCHANGED active
          BY <5>1
        <5>3. CASE Scheduler!Add(n, i, kvTask[boot].count) /\ UNCHANGED torn
          <6>1. PICK t : t.name = n /\ active' = active \cup {t}
            BY <5>3 DEF Scheduler!Add
          <6>2. QED
            BY <1>1, <5>1, <5>2, <5>3, <6>1
        <5>4. CASE torn' = (torn \/ n \notin Scheduler!Registered) /\ UNCHANGED active
          BY <1>1, <5>1, <5>2, <5>4 DEF Scheduler!Registered
        <5>5. QED
          BY <5>2, <5>3, <5>4
      <4>3. QED
        BY <4>1, <4>2
    <3>3. \A k \in boot..(kvCnt - 1) : k = boot
      BY <3>1, <3>2, Constants
    <3>4. QED
      BY <1>1, <3>2, <3>3 DEF TableInv, CopyKept, OneCaller
  <2>3. QED
    BY <1>1, <2>1, <2>2, StartsByRestore
<1>2. TableInv /\ TableInv' /\ [Next]_vars =>
        [~Running /\ Running' /\ ~torn' => owed \subseteq {t.name : t \in active'}]_vars
  BY <1>1
<1>3. QED
  BY <1>2, TasksHaveSlots, PTL DEF Spec, RestartKeepsTasks
=============================================================================
