---------------------------- MODULE SchedProofs ----------------------------
(***************************************************************************)
(* The scheduler's list, counter and heap for every number of tasks, every *)
(* clock width, every interval and every count, the proof that they        *)
(* implement TaskSet, and the order of the list as long as no task is      *)
(* added out of range.                                                     *)
(***************************************************************************)
EXTENDS Sched, SeqLemmas, TLAPS

LEMMA ClockClosed == \A a, b \in Clock : (a + b) % W \in Clock /\ 0 \in Clock
BY ClockAssumption DEF Clock

(* A sched_task_t with two fields rewritten is still a task of that name. *)
LEMMA TaskUpdate ==
  ASSUME NEW u \in Task, NEW m \in Clock, NEW r \in Int
  PROVE  /\ [u EXCEPT !.next = m, !.remaining = r] \in Task
         /\ [u EXCEPT !.next = m, !.remaining = r].name = u.name
BY DEF Task

(* What the invariant says of one listed cell, and of one position. *)
LEMMA ListedTask ==
  ASSUME ListInv, NEW c \in Listed
  PROVE  /\ c \in Cells /\ heap[c] \in Task
         /\ heap[c].name \in Names /\ heap[c].interval \in Clock
         /\ heap[c].next \in Clock /\ heap[c].remaining \in Int
<1>1. c \in Cells
  BY DEF ListInv, TypeOK, Listed, ToSet
<1>2. heap[c] # Free
  BY <1>1 DEF ListInv, HeapExact
<1>3. heap[c] \in Task
  BY <1>1, <1>2 DEF ListInv, TypeOK
<1>4. QED
  BY <1>1, <1>3 DEF Task

LEMMA Positions ==
  ASSUME ListInv
  PROVE  /\ DOMAIN tasks = 1..Len(tasks)
         /\ \A i \in DOMAIN tasks : i \in 1..Len(tasks) /\ tasks[i] \in Listed
BY DEF ListInv, TypeOK, Listed, ToSet

LEMMA InitInv == Init => ListInv
<1> SUFFICES ASSUME Init PROVE ListInv
  OBVIOUS
<1>1. TypeOK
  <2>1. outOfRange \in BOOLEAN
    BY Zenon DEF Init
  <2>2. QED
    BY <2>1, ClockAssumption DEF Init, TypeOK, Clock, Idle
<1>2. Listed = {} /\ DOMAIN tasks = {} /\ Len(tasks) = 0
  BY DEF Init, Listed, ToSet
<1>3. Dying = {}
  BY DEF Init, Dying, Idle
<1>4. CountIsLength
  BY <1>2, LimitAssumption DEF Init, CountIsLength
<1>5. HeapExact
  BY <1>2, <1>3 DEF Init, HeapExact, IsInjective
<1>6. UniqueNames
  BY <1>2 DEF UniqueNames
<1>7. CallbackOwnsDying /\ DownIsEmpty
  BY DEF Init, CallbackOwnsDying, DownIsEmpty, Idle
<1>8. QED
  BY <1>1, <1>4, <1>5, <1>6, <1>7 DEF ListInv

(* sched_add: the new cell was free, so it is neither listed nor dying. *)
LEMMA AddInv ==
  ASSUME ListInv, NEW n \in Names, NEW interval \in Intervals,
         NEW cnt \in Counts, SchedAdd(n, interval, cnt)
  PROVE  ListInv'
<1>1. PICK c \in Cells :
        /\ heap[c] = Free
        /\ heap' = [heap EXCEPT ![c] = NewTask(n, interval, cnt)]
        /\ InsertSorted(tasks, c, (tick + interval) % W)
  BY DEF SchedAdd
<1>2. PICK k \in 1..(Len(tasks) + 1) : tasks' = InsertAt(tasks, k, c)
  BY <1>1 DEF InsertSorted
<1>3. /\ tasks \in Seq(Cells) /\ IsInjective(tasks)
      /\ heap \in [Cells -> Task \cup {Free}]
  BY DEF ListInv, TypeOK, HeapExact
<1>4. c \notin Listed /\ c \notin Dying
  BY <1>1 DEF ListInv, HeapExact
<1>5. /\ tasks' \in Seq(Cells) /\ Len(tasks') = Len(tasks) + 1
      /\ Listed' = Listed \cup {c} /\ IsInjective(tasks')
  BY <1>2, <1>3, <1>4, InsertAtProperties, InsertAtElements DEF Listed
<1>6. NewTask(n, interval, cnt) \in Task /\ NewTask(n, interval, cnt).name = n
  <2>1. interval \in Clock /\ cnt \in Int /\ tick \in Clock
    BY CallerAssumption DEF Clock, ListInv, TypeOK
  <2>2. (tick + interval) % W \in Clock
    BY <2>1, ClockClosed
  <2>3. QED
    BY <2>1, <2>2 DEF NewTask, Task
<1>7. /\ heap'[c] = NewTask(n, interval, cnt)
      /\ \A d \in Cells : d # c => heap'[d] = heap[d]
      /\ heap' \in [Cells -> Task \cup {Free}]
  BY <1>1, <1>3, <1>6
<1>8. TypeOK'
  BY <1>5, <1>7 DEF ListInv, TypeOK, SchedAdd
<1>9. CountIsLength'
  BY <1>5, LimitAssumption DEF ListInv, CountIsLength, TypeOK, SchedAdd
<1>10. Dying' = Dying
  BY DEF SchedAdd, Dying
<1>11. HeapExact'
  BY <1>4, <1>5, <1>6, <1>7, <1>10, FreeAssumption DEF ListInv, HeapExact
<1>12. UniqueNames'
  <2>1. \A d \in Listed : d \in Cells /\ d # c /\ heap'[d] = heap[d]
                          /\ heap[d].name # n
    BY <1>4, <1>7, ListedTask DEF SchedAdd, FindTask
  <2>2. QED
    BY <2>1, <1>5, <1>6, <1>7 DEF ListInv, UniqueNames
<1>13. CallbackOwnsDying' /\ DownIsEmpty'
  BY DEF ListInv, CallbackOwnsDying, DownIsEmpty, SchedAdd
<1>14. QED
  BY <1>8, <1>9, <1>11, <1>12, <1>13 DEF ListInv

(* sched_remove: the cell that leaves the list is the one that is freed. *)
LEMMA RemoveInv ==
  ASSUME ListInv, NEW n \in Names, SchedRemove(n)
  PROVE  ListInv'
<1>1. PICK i \in DOMAIN tasks :
        /\ tasks' = RemoveAt(tasks, i)
        /\ heap' = [heap EXCEPT ![tasks[i]] = Free]
  BY DEF SchedRemove
<1> DEFINE c == tasks[i]
<1>2. i \in 1..Len(tasks) /\ c \in Listed /\ c \in Cells
  BY Positions, ListedTask
<1>3. /\ tasks \in Seq(Cells) /\ IsInjective(tasks)
      /\ heap \in [Cells -> Task \cup {Free}]
  BY DEF ListInv, TypeOK, HeapExact
<1>4. /\ tasks' \in Seq(Cells) /\ Len(tasks') = Len(tasks) - 1
      /\ Listed' = Listed \ {c} /\ IsInjective(tasks')
  BY <1>1, <1>2, <1>3, RemoveAtProperties, RemoveAtElements DEF Listed
<1>5. /\ heap'[c] = Free
      /\ \A d \in Cells : d # c => heap'[d] = heap[d]
      /\ heap' \in [Cells -> Task \cup {Free}]
  BY <1>1, <1>2, <1>3
<1> HIDE DEF c
<1>6. TypeOK'
  BY <1>4, <1>5 DEF ListInv, TypeOK, SchedRemove
<1>7. CountIsLength'
  BY <1>4, LimitAssumption DEF ListInv, CountIsLength, TypeOK, SchedRemove
<1>8. Dying' = Dying /\ c \notin Dying
  BY <1>2 DEF SchedRemove, Dying, ListInv, HeapExact
<1>9. HeapExact'
  BY <1>2, <1>4, <1>5, <1>8 DEF ListInv, HeapExact
<1>10. UniqueNames'
  <2>1. \A d \in Listed' : d \in Listed /\ heap'[d] = heap[d]
    BY <1>4, <1>5, ListedTask
  <2>2. QED
    BY <2>1 DEF ListInv, UniqueNames
<1>11. CallbackOwnsDying' /\ DownIsEmpty'
  BY DEF ListInv, CallbackOwnsDying, DownIsEmpty, SchedRemove
<1>12. QED
  BY <1>6, <1>7, <1>9, <1>10, <1>11 DEF ListInv

(* A due task that runs for the last time leaves the list and lives on as  *)
(* the dying task.                                                         *)
LEMMA DispatchLastInv ==
  ASSUME ListInv, Dispatch, NEW i \in DOMAIN tasks, DispatchLast(i),
         ran' = ran \cup {heap[tasks[i]].name}
  PROVE  ListInv'
<1> DEFINE c == tasks[i]
           t == [heap[c] EXCEPT !.next = (now + heap[c].interval) % W,
                                !.remaining = 0]
<1>1. i \in 1..Len(tasks) /\ c \in Listed /\ c \in Cells /\ heap[c] \in Task
  BY Positions, ListedTask
<1>2. /\ tasks \in Seq(Cells) /\ IsInjective(tasks)
      /\ heap \in [Cells -> Task \cup {Free}] /\ now \in Clock
  BY DEF ListInv, TypeOK, HeapExact
<1>3. /\ tasks' \in Seq(Cells) /\ Len(tasks') = Len(tasks) - 1
      /\ Listed' = Listed \ {c} /\ IsInjective(tasks')
  BY <1>1, <1>2, RemoveAtProperties, RemoveAtElements DEF Listed, DispatchLast
<1>4. t \in Task
  <2>1. (now + heap[c].interval) % W \in Clock
    BY <1>1, <1>2, ListedTask, ClockClosed
  <2>2. heap[c] \in Task /\ 0 \in Int
    BY <1>1
  <2> HIDE DEF c
  <2>3. QED
    BY <2>1, <2>2, TaskUpdate
<1>5. /\ heap'[c] = t
      /\ \A d \in Cells : d # c => heap'[d] = heap[d]
      /\ heap' \in [Cells -> Task \cup {Free}]
  BY <1>1, <1>2, <1>4 DEF DispatchLast
<1>6. cur' = [cell |-> c, name |-> heap[c].name, last |-> TRUE]
      /\ count' = count - 1
  BY DEF DispatchLast
<1> HIDE DEF t, c
<1>7. cur' \in Callback /\ ran' \subseteq Names
  BY <1>1, <1>6, ListedTask DEF Callback, ListInv, TypeOK, c
<1>8. TypeOK'
  BY <1>3, <1>5, <1>6, <1>7 DEF ListInv, TypeOK, Dispatch
<1>9. CountIsLength'
  BY <1>3, <1>6, LimitAssumption DEF ListInv, CountIsLength, TypeOK
<1>10. Dying' = {c} /\ Dying = {}
  BY <1>6 DEF Dying, ListInv, CallbackOwnsDying, Dispatch
<1>11. HeapExact'
  BY <1>1, <1>3, <1>4, <1>5, <1>10, FreeAssumption DEF ListInv, HeapExact
<1>12. UniqueNames'
  <2>1. \A d \in Listed' : d \in Listed /\ heap'[d] = heap[d]
    BY <1>3, <1>5, ListedTask
  <2>2. QED
    BY <2>1 DEF ListInv, UniqueNames
<1>13. CallbackOwnsDying' /\ DownIsEmpty'
  BY DEF ListInv, CallbackOwnsDying, DownIsEmpty, Dispatch
<1>14. QED
  BY <1>8, <1>9, <1>11, <1>12, <1>13 DEF ListInv

(* A due task that runs again changes its place and its record only. *)
LEMMA DispatchAgainInv ==
  ASSUME ListInv, Dispatch, NEW i \in DOMAIN tasks, DispatchAgain(i),
         ran' = ran \cup {heap[tasks[i]].name}
  PROVE  ListInv'
<1> DEFINE c    == tasks[i]
           next == (now + heap[c].interval) % W
           t    == [heap[c] EXCEPT !.next = next,
                                   !.remaining = IF @ > 0 THEN @ - 1 ELSE @]
           rest == RemoveAt(tasks, i)
<1>1. i \in 1..Len(tasks) /\ c \in Listed /\ c \in Cells /\ heap[c] \in Task
  BY Positions, ListedTask
<1>2. /\ tasks \in Seq(Cells) /\ IsInjective(tasks) /\ Len(tasks) \in Nat
      /\ heap \in [Cells -> Task \cup {Free}] /\ now \in Clock
  BY LenProperties DEF ListInv, TypeOK, HeapExact
<1>3. /\ rest \in Seq(Cells) /\ Len(rest) = Len(tasks) - 1
      /\ ToSet(rest) = Listed \ {c} /\ IsInjective(rest)
  BY <1>1, <1>2, RemoveAtProperties, RemoveAtElements DEF Listed
<1>4. PICK k \in 1..(Len(rest) + 1) : tasks' = InsertAt(rest, k, c)
  BY DEF DispatchAgain, InsertSorted
<1>5. heap' = [heap EXCEPT ![c] = t] /\ count' = count
      /\ cur' = [cell |-> c, name |-> heap[c].name, last |-> FALSE]
  BY <1>1, <1>2 DEF DispatchAgain
<1>6. t \in Task /\ t.name = heap[c].name
  <2> DEFINE left == IF heap[c].remaining > 0 THEN heap[c].remaining - 1
                                              ELSE heap[c].remaining
  <2>1. next \in Clock /\ left \in Int
    BY <1>1, <1>2, ListedTask, ClockClosed
  <2>2. heap[c] \in Task
    BY <1>1
  <2> HIDE DEF c, next, left, t
  <2>3. t = [heap[c] EXCEPT !.next = next, !.remaining = left]
    BY DEF left, t
  <2>4. QED
    BY <2>1, <2>2, <2>3, TaskUpdate
<1> HIDE DEF c, next, t, rest
<1>7. /\ tasks' \in Seq(Cells) /\ Len(tasks') = Len(tasks)
      /\ Listed' = Listed /\ IsInjective(tasks')
  <2>1. c \notin ToSet(rest)
    BY <1>3
  <2>2. /\ tasks' \in Seq(Cells) /\ Len(tasks') = Len(rest) + 1
        /\ ToSet(tasks') = ToSet(rest) \cup {c} /\ IsInjective(tasks')
    BY <1>1, <1>3, <1>4, <2>1, InsertAtProperties, InsertAtElements
  <2>3. QED
    BY <2>2, <1>1, <1>2, <1>3 DEF Listed
<1>8. /\ heap'[c] = t
      /\ \A d \in Cells : d # c => heap'[d] = heap[d]
      /\ heap' \in [Cells -> Task \cup {Free}]
  BY <1>1, <1>2, <1>5, <1>6
<1>9. cur' \in Callback /\ ran' \subseteq Names
  BY <1>1, <1>5, ListedTask DEF Callback, ListInv, TypeOK, c
<1>10. TypeOK'
  BY <1>5, <1>7, <1>8, <1>9 DEF ListInv, TypeOK, Dispatch
<1>11. CountIsLength'
  BY <1>5, <1>7 DEF ListInv, CountIsLength, TypeOK
<1>12. Dying' = {} /\ Dying = {}
  BY <1>5 DEF Dying, ListInv, CallbackOwnsDying, Dispatch
<1>13. HeapExact'
  BY <1>1, <1>6, <1>7, <1>8, <1>12, FreeAssumption DEF ListInv, HeapExact
<1>14. UniqueNames'
  <2>1. \A d \in Listed : heap'[d].name = heap[d].name
    BY <1>6, <1>8, ListedTask
  <2>2. QED
    BY <2>1, <1>7 DEF ListInv, UniqueNames
<1>15. CallbackOwnsDying' /\ DownIsEmpty'
  BY DEF ListInv, CallbackOwnsDying, DownIsEmpty, Dispatch
<1>16. QED
  BY <1>10, <1>11, <1>13, <1>14, <1>15 DEF ListInv

(* The finished task is freed once, after its callback. *)
LEMMA CallbackReturnInv ==
  ASSUME ListInv, CallbackReturn
  PROVE  ListInv'
<1>1. /\ heap \in [Cells -> Task \cup {Free}]
      /\ Listed' = Listed /\ Dying' = {} /\ Idle.last = FALSE
  BY DEF ListInv, TypeOK, CallbackReturn, Listed, Dying, Idle
<1>2. /\ heap' \in [Cells -> Task \cup {Free}]
      /\ \A d \in Cells : heap'[d] = IF d \in Dying THEN Free ELSE heap[d]
  BY <1>1 DEF CallbackReturn, Dying
<1>3. TypeOK' /\ CountIsLength'
  BY <1>2 DEF ListInv, TypeOK, CountIsLength, CallbackReturn
<1>4. HeapExact'
  BY <1>1, <1>2 DEF ListInv, HeapExact, CallbackReturn
<1>5. UniqueNames'
  <2>1. \A d \in Listed : d \in Cells /\ heap'[d] = heap[d]
    BY <1>2, ListedTask DEF ListInv, HeapExact
  <2>2. QED
    BY <2>1, <1>1 DEF ListInv, UniqueNames
<1>6. CallbackOwnsDying' /\ DownIsEmpty'
  BY <1>1 DEF ListInv, DownIsEmpty, CallbackOwnsDying, CallbackReturn
<1>7. QED
  BY <1>3, <1>4, <1>5, <1>6 DEF ListInv

(* sched_stop, after the join, frees exactly what is allocated. *)
LEMMA StopInv ==
  ASSUME ListInv, SchedStopEnd
  PROVE  ListInv'
<1>1. /\ Dying = {} /\ Dying' = {} /\ Listed' = {}
      /\ heap \in [Cells -> Task \cup {Free}]
  BY DEF ListInv, TypeOK, CallbackOwnsDying, SchedStopEnd, Dying, Listed, ToSet
<1>2. \A d \in Cells : heap'[d] = Free
  BY <1>1 DEF SchedStopEnd, ListInv, HeapExact
<1>3. TypeOK'
  <2>1. outOfRange' \in BOOLEAN
    BY Zenon DEF SchedStopEnd
  <2>2. QED
    BY <1>1, <1>2, <2>1 DEF ListInv, TypeOK, SchedStopEnd
<1>4. CountIsLength' /\ UniqueNames'
  BY <1>1, LimitAssumption DEF CountIsLength, UniqueNames, SchedStopEnd
<1>5. HeapExact'
  BY <1>1, <1>2 DEF HeapExact, IsInjective, SchedStopEnd
<1>6. CallbackOwnsDying' /\ DownIsEmpty'
  BY <1>1 DEF CallbackOwnsDying, DownIsEmpty, SchedStopEnd, ListInv
<1>7. QED
  BY <1>3, <1>4, <1>5, <1>6 DEF ListInv

(* The operations that leave the list, the heap and the counter alone. *)
LEMMA QuietInv ==
  ASSUME ListInv,
         \/ SchedInit \/ SchedStopBegin \/ LoopHead \/ Wake \/ PassEnd
         \/ Tick \/ UNCHANGED vars
  PROVE  ListInv'
<1> USE DEF ListInv, TypeOK, CountIsLength, HeapExact, UniqueNames,
            CallbackOwnsDying, DownIsEmpty, Dying, Listed
<1>1. CASE SchedInit
  BY <1>1, LimitAssumption DEF SchedInit
<1>2. CASE SchedStopBegin
  BY <1>2 DEF SchedStopBegin
<1>3. CASE LoopHead
  BY <1>3 DEF LoopHead
<1>4. CASE Wake
  BY <1>4 DEF Wake
<1>5. CASE PassEnd
  BY <1>5, ClockClosed DEF PassEnd
<1>6. CASE Tick
  <2>1. tick' \in Clock
    BY <1>6, ClockAssumption DEF Tick, Clock
  <2>2. QED
    BY <1>6, <2>1 DEF Tick
<1>7. CASE UNCHANGED vars
  BY <1>7 DEF vars
<1>8. QED
  BY <1>1, <1>2, <1>3, <1>4, <1>5, <1>6, <1>7

LEMMA NextInv == ListInv /\ [Next]_vars => ListInv'
<1> SUFFICES ASSUME ListInv, [Next]_vars PROVE ListInv'
  OBVIOUS
<1>1. CASE Service
  BY <1>1, StopInv, QuietInv DEF Service
<1>2. CASE Api
  BY <1>2, AddInv, RemoveInv DEF Api
<1>3. CASE Dispatch
  <2>1. PICK i \in DOMAIN tasks :
          /\ DispatchLast(i) \/ DispatchAgain(i)
          /\ ran' = ran \cup {heap[tasks[i]].name}
    BY <1>3 DEF Dispatch
  <2>2. QED
    BY <1>3, <2>1, DispatchLastInv, DispatchAgainInv
<1>4. CASE Thread
  BY <1>3, <1>4, CallbackReturnInv, QuietInv DEF Thread
<1>5. QED
  BY <1>1, <1>2, <1>4, QuietInv DEF Next

(* List, counter, names and heap are consistent.                           *)
THEOREM SchedConsistent == Spec => []ListInv
BY InitInv, NextInv, PTL DEF Spec

(* Every variable of the scheduler keeps its type: remaining and next run  *)
(* times stay what the signed comparisons of the scan expect.              *)
THEOREM SchedTypeCorrect == Spec => []TypeOK
<1>1. ListInv => TypeOK
  BY DEF ListInv
<1>2. QED
  BY <1>1, SchedConsistent, PTL

(* The task counter is the length of the list and within the limit. *)
THEOREM SchedCount == Spec => []CountIsLength
<1>1. ListInv => CountIsLength
  BY DEF ListInv
<1>2. QED
  BY <1>1, SchedConsistent, PTL

(* No task structure is leaked, freed twice or used after it was freed. *)
THEOREM SchedHeap == Spec => []HeapExact
<1>1. ListInv => HeapExact
  BY DEF ListInv
<1>2. QED
  BY <1>1, SchedConsistent, PTL

(* No two listed tasks share a name. *)
THEOREM SchedNames == Spec => []UniqueNames
<1>1. ListInv => UniqueNames
  BY DEF ListInv
<1>2. QED
  BY <1>1, SchedConsistent, PTL

-----------------------------------------------------------------------------
(* The scheduler implements the set of tasks its users rely on: every step *)
(* of list, heap, clock and thread is a step of TaskSet or changes nothing *)
(* a user can see.                                                         *)

(* The task a cell stands for, the set of them, and the call in flight: the *)
(* values Abstract gives to the constants and variables of TaskSet.        *)
View(c) == [name |-> heap[c].name, arg |-> heap[c].name,
            left |-> heap[c].remaining]
Active  == {View(c) : c \in Listed}
Calling == IF pc = "callback" THEN [name |-> cur.name, arg |-> cur.name] ELSE Free

LEMMA InitRefines == Init => Abstract!Init
<1> SUFFICES ASSUME Init PROVE Abstract!Init
  OBVIOUS
<1>1. Listed = {} /\ pc = "none"
  BY DEF Init, Listed, ToSet
<1>2. QED
  BY <1>1 DEF Abstract!Init

(* Cells that neither change nor join or leave the list keep their tasks.  *)
LEMMA SameView ==
  ASSUME NEW S, \A c \in S : heap'[c] = heap[c]
  PROVE  {View(c) : c \in S}' = {View(c) : c \in S}
BY DEF View

(* sched_add puts the task of the new cell into the set.                   *)
LEMMA AddRefines ==
  ASSUME ListInv, NEW n \in Names, NEW interval \in Intervals,
         NEW cnt \in Counts, SchedAdd(n, interval, cnt)
  PROVE  Abstract!Add(n, n, cnt)
<1>1. PICK c \in Cells :
        /\ heap[c] = Free
        /\ heap' = [heap EXCEPT ![c] = NewTask(n, interval, cnt)]
        /\ InsertSorted(tasks, c, (tick + interval) % W)
  BY DEF SchedAdd
<1>2. PICK k \in 1..(Len(tasks) + 1) : tasks' = InsertAt(tasks, k, c)
  BY <1>1 DEF InsertSorted
<1>3. tasks \in Seq(Cells) /\ heap \in [Cells -> Task \cup {Free}]
  BY DEF ListInv, TypeOK
<1>4. c \notin Listed
  BY <1>1 DEF ListInv, HeapExact
<1>5. Listed' = Listed \cup {c}
  BY <1>2, <1>3, InsertAtElements DEF Listed
<1>6. \A d \in Listed : heap'[d] = heap[d] /\ heap[d].name # n
  BY <1>1, <1>3, <1>4, ListedTask DEF SchedAdd, FindTask
<1>7. View(c)' = [name |-> n, arg |-> n, left |-> cnt]
  BY <1>1, <1>3 DEF View, NewTask
<1>8. Active' = Active \cup {[name |-> n, arg |-> n, left |-> cnt]}
  BY <1>5, <1>6, <1>7 DEF Active, View
<1>9. \A t \in Active : t.name # n
  BY <1>6 DEF Active, View
<1>10. Calling' = Calling
  BY DEF SchedAdd, Calling
<1>11. QED
  BY <1>8, <1>9, <1>10 DEF Abstract!Add, Abstract!Registered, Active, Calling, View

(* sched_remove takes out the task of that name: no other one has it.      *)
LEMMA RemoveRefines ==
  ASSUME ListInv, NEW n \in Names, SchedRemove(n)
  PROVE  Abstract!Remove(n)
<1>1. PICK i \in DOMAIN tasks :
        /\ heap[tasks[i]].name = n
        /\ tasks' = RemoveAt(tasks, i)
        /\ heap' = [heap EXCEPT ![tasks[i]] = Free]
  BY DEF SchedRemove
<1> DEFINE c == tasks[i]
<1>2. /\ i \in 1..Len(tasks) /\ c \in Listed /\ c \in Cells
      /\ heap[c].name = n
  BY <1>1, Positions, ListedTask
<1>3. /\ tasks \in Seq(Cells) /\ IsInjective(tasks)
      /\ heap \in [Cells -> Task \cup {Free}]
  BY DEF ListInv, TypeOK, HeapExact
<1>4. Listed' = Listed \ {c}
  BY <1>1, <1>2, <1>3, RemoveAtElements DEF Listed
<1>5. \A d \in Cells : d # c => heap'[d] = heap[d]
  BY <1>1, <1>2, <1>3
<1> HIDE DEF c
<1>6. \A d \in Listed' : d \in Listed /\ heap'[d] = heap[d] /\ heap[d].name # n
  BY <1>2, <1>4, <1>5, ListedTask DEF ListInv, UniqueNames
<1>7. Active' = {t \in Active : t.name # n}
  <2>1. ASSUME NEW d \in Listed PROVE d \in Listed' \/ View(d).name = n
    BY <1>2, <1>4 DEF View
  <2>2. \A d \in Listed' : d \in Listed /\ View(d)' = View(d) /\ View(d).name # n
    BY <1>6 DEF View
  <2>3. QED
    BY <2>1, <2>2 DEF Active
<1>8. n \in {t.name : t \in Active}
  <2>1. View(c) \in Active /\ View(c).name = n
    BY <1>2 DEF Active, View
  <2>2. QED
    BY <2>1
<1>9. Calling' = Calling
  BY DEF SchedRemove, Calling
<1>10. QED
  BY <1>7, <1>8, <1>9
     DEF Abstract!Remove, Abstract!Registered, Active, Calling, View

(* What makes a step a call of task t: how the set of tasks changes.       *)
LEMMA CallCases ==
  ASSUME NEW t \in Active, Calling = Free, t.left # 0,
         Calling' = [name |-> t.name, arg |-> t.arg],
         \/ t.left = 1 /\ Active' = Active \ {t}
         \/ /\ t.left # 1 /\ t.left > 1
            /\ Active' = (Active \ {t}) \cup {[t EXCEPT !.left = @ - 1]}
         \/ t.left # 1 /\ ~(t.left > 1) /\ Active' = Active
  PROVE  Abstract!Call(t)
BY DEF Abstract!Call, Active, Calling, View

(* A dispatch calls the task of the cell the scan chose: the cell stays in *)
(* the list with one run less, or leaves it before its last run.           *)
LEMMA DispatchRefines ==
  ASSUME ListInv, Dispatch
  PROVE  \E t \in Active : Abstract!Call(t)
<1>1. PICK i \in DOMAIN tasks :
        /\ FirstLive(i)
        /\ DispatchLast(i) \/ DispatchAgain(i)
  BY DEF Dispatch
<1>2. PICK c \in Listed :
        /\ c = tasks[i] /\ i \in 1..Len(tasks) /\ c \in Cells
        /\ heap[c] \in Task /\ heap[c].remaining \in Int
        /\ heap[c].remaining # 0
  BY <1>1, Positions, ListedTask DEF FirstLive
<1>3. /\ tasks \in Seq(Cells) /\ IsInjective(tasks) /\ Len(tasks) \in Nat
      /\ heap \in [Cells -> Task \cup {Free}]
  BY LenProperties DEF ListInv, TypeOK, HeapExact
<1>4. Calling = Free /\ Calling' = [name |-> heap[c].name, arg |-> heap[c].name]
  BY <1>1, <1>2 DEF Dispatch, DispatchLast, DispatchAgain, Calling
<1>5. PICK v \in Active :
        /\ v = View(c) /\ v.name = heap[c].name /\ v.arg = heap[c].name
        /\ v.left = heap[c].remaining /\ v.left \in Int /\ v.left # 0
  <2>1. View(c) \in Active
    BY DEF Active
  <2>2. QED
    BY <1>2, <2>1 DEF View
<1>6. \A d \in Listed \ {c} : View(d) # v
  BY <1>2, <1>5 DEF ListInv, UniqueNames, View
<1>7. CASE DispatchLast(i)
  <2>1. heap[c].remaining = 1
    BY <1>2, <1>7 DEF DispatchLast
  <2>2. Listed' = Listed \ {c}
    BY <1>2, <1>3, <1>7, RemoveAtElements DEF Listed, DispatchLast
  <2>3. \A d \in Cells : d # c => heap'[d] = heap[d]
    BY <1>2, <1>3, <1>7 DEF DispatchLast
  <2>4. \A d \in Listed' : d \in Listed /\ d # c /\ View(d)' = View(d)
    BY <2>2, <2>3, ListedTask DEF View
  <2>5. Active' = Active \ {v}
    BY <1>5, <1>6, <2>2, <2>4 DEF Active
  <2>6. QED
    BY <1>4, <1>5, <2>1, <2>5, CallCases
<1>8. CASE DispatchAgain(i)
  <2> DEFINE rest == RemoveAt(tasks, i)
             left == IF heap[c].remaining > 0 THEN heap[c].remaining - 1
                                              ELSE heap[c].remaining
  <2>1. heap[c].remaining # 1
    BY <1>2, <1>8 DEF DispatchAgain
  <2>2. /\ rest \in Seq(Cells) /\ Len(rest) = Len(tasks) - 1
        /\ ToSet(rest) = Listed \ {c}
    BY <1>2, <1>3, RemoveAtProperties, RemoveAtElements DEF Listed
  <2>3. PICK k \in 1..(Len(rest) + 1) : tasks' = InsertAt(rest, k, c)
    BY <1>2, <1>8 DEF DispatchAgain, InsertSorted
  <2>4. /\ heap'[c].name = heap[c].name /\ heap'[c].remaining = left
        /\ \A d \in Cells : d # c => heap'[d] = heap[d]
    BY <1>2, <1>3, <1>8 DEF DispatchAgain, Task
  <2> HIDE DEF rest, left
  <2>5. Listed' = Listed
    <3>1. ToSet(tasks') = ToSet(rest) \cup {c}
      BY <1>2, <2>2, <2>3, InsertAtElements
    <3>2. QED
      BY <1>2, <2>2, <3>1 DEF Listed
  <2>6. View(c)' = [v EXCEPT !.left = left]
    BY <1>5, <2>4 DEF View
  <2>7. \A d \in Listed \ {c} : View(d)' = View(d)
    BY <2>4, ListedTask DEF View
  <2>8. Active' = (Active \ {v}) \cup {[v EXCEPT !.left = left]}
    BY <1>2, <1>5, <1>6, <2>5, <2>6, <2>7 DEF Active
  <2>9. CASE heap[c].remaining > 1
    <3>1. [v EXCEPT !.left = left] = [v EXCEPT !.left = @ - 1]
      BY <1>5, <2>9 DEF left
    <3>2. QED
      BY <1>4, <1>5, <2>1, <2>8, <2>9, <3>1, CallCases
  <2>10. CASE ~(heap[c].remaining > 1)
    <3>1. left = heap[c].remaining
      BY <1>2, <2>1, <2>10 DEF left
    <3>2. [v EXCEPT !.left = left] = v
      BY <1>5, <3>1 DEF View
    <3>3. Active' = Active
      BY <1>5, <2>8, <3>2
    <3>4. QED
      BY <1>2, <1>4, <1>5, <2>1, <2>10, <3>3, CallCases
  <2>11. QED
    BY <2>9, <2>10
<1>9. QED
  BY <1>1, <1>7, <1>8

(* The cell freed after the last run is not listed any more.               *)
LEMMA ReturnRefines ==
  ASSUME ListInv, CallbackReturn
  PROVE  Abstract!Return \/ UNCHANGED Abstract!vars
<1>1. Listed' = Listed
  BY DEF CallbackReturn, Listed
<1>2. \A d \in Listed : heap'[d] = heap[d]
  BY ListedTask DEF ListInv, TypeOK, HeapExact, Dying, CallbackReturn
<1>3. Active' = Active
  BY <1>1, <1>2 DEF Active, View
<1>4. Calling' = Free
  BY DEF CallbackReturn, Calling
<1>5. QED
  BY <1>3, <1>4 DEF Abstract!Return, Abstract!vars, Active, Calling, View

(* The thread has ended: no callback is in flight when the list is freed.  *)
LEMMA StopRefines ==
  ASSUME ListInv, SchedStopEnd
  PROVE  Abstract!Clear
<1>1. Listed' = {}
  BY DEF SchedStopEnd, Listed, ToSet
<1>2. Active' = {}
  BY <1>1 DEF Active
<1>3. Calling = Free /\ Calling' = Free
  BY DEF SchedStopEnd, Calling
<1>4. QED
  BY <1>2, <1>3 DEF Abstract!Clear, Active, Calling, View

(* The rest of the thread's loop, the clock and the start are not seen.    *)
LEMMA QuietRefines ==
  ASSUME ListInv,
         \/ SchedInit \/ SchedStopBegin \/ LoopHead \/ Wake \/ PassEnd
         \/ Tick \/ UNCHANGED vars
  PROVE  UNCHANGED Abstract!vars
<1>1. UNCHANGED <<tasks, heap>>
  BY DEF SchedInit, SchedStopBegin, LoopHead, Wake, PassEnd, Tick, vars
<1>2. Active' = Active
  BY <1>1 DEF Active, View, Listed
<1>3. Calling' = Calling
  BY DEF SchedInit, SchedStopBegin, LoopHead, Wake, PassEnd, Tick, vars,
         Calling, ListInv, DownIsEmpty
<1>4. QED
  BY <1>2, <1>3 DEF Abstract!vars, Active, Calling, View

LEMMA NextRefines == ListInv /\ [Next]_vars => [Abstract!Next]_(Abstract!vars)
<1> SUFFICES ASSUME ListInv, [Next]_vars
             PROVE  Abstract!Next \/ UNCHANGED Abstract!vars
  OBVIOUS
<1>1. CASE Service
  BY <1>1, StopRefines, QuietRefines DEF Service, Abstract!Next
<1>2. CASE Api
  BY <1>2, AddRefines, RemoveRefines DEF Api, Abstract!Next
<1>3. CASE Dispatch
  BY <1>3, DispatchRefines DEF Abstract!Next, Active, View
<1>4. CASE Thread
  BY <1>3, <1>4, ReturnRefines, QuietRefines DEF Thread, Abstract!Next
<1>5. QED
  BY <1>1, <1>2, <1>4, QuietRefines DEF Next

(* The scheduler keeps the promises of TaskSet: only registered tasks are  *)
(* called, one at a time and as often as was asked for, whatever callers   *)
(* and callbacks add and remove meanwhile, and nothing is called once      *)
(* sched_stop has returned.                                                *)
THEOREM SchedRefines == Spec => Refined
BY InitRefines, NextRefines, SchedConsistent, PTL DEF Spec, Refined, Abstract!Spec

-----------------------------------------------------------------------------
(* The order of the list.                                                  *)

(* The remainder by W of a number at most one turn of the clock away.      *)
LEMMA Remainder ==
  ASSUME NEW a \in Int
  PROVE  /\ a \in 0..(W - 1) => a % W = a
         /\ a \in (0 - W)..(0 - 1) => a % W = a + W
         /\ a \in W..(W + W - 1) => a % W = a - W
BY ClockAssumption

LEMMA Wrap ==
  ASSUME NEW s \in 0..(W + W - 1)
  PROVE  \E y \in Clock : y = s % W /\ (y = s \/ y = s - W)
<1>1. s % W = s \/ s % W = s - W
  BY Remainder, ClockAssumption
<1>2. s % W \in Clock
  BY ClockAssumption DEF Clock
<1>3. QED
  BY <1>1, <1>2

Half == W \div 2

LEMMA HalfIs == Half \in Nat /\ Half >= 1 /\ Half + Half <= W /\ W <= Half + Half + 1
BY ClockAssumption DEF Half

(* What Lead is before it is reduced modulo W. *)
LEMMA LeadIs ==
  ASSUME NEW t \in Clock, NEW x \in Clock
  PROVE  /\ Lead(t, x) \in 0..(W - 1)
         /\ \/ Lead(t, x) = x - t + MaxLate
            \/ Lead(t, x) = x - t + MaxLate + W
            \/ Lead(t, x) = x - t + MaxLate - W
<1> DEFINE d == x - t + MaxLate
<1>1. W \in Nat /\ MaxLate \in Nat /\ MaxLate < W /\ t \in 0..(W - 1) /\ x \in 0..(W - 1)
  BY HalfIs, ClockAssumption DEF Half, Clock
<1>2. d \in Int /\ d > 0 - W /\ d < W + W
  BY <1>1
<1>3. Lead(t, x) = d % W
  BY DEF Lead
<1> HIDE DEF d
<1>4. \/ d \in 0..(W - 1) \/ d \in (0 - W)..(0 - 1) \/ d \in W..(W + W - 1)
  BY <1>1, <1>2
<1>5. /\ d % W \in 0..(W - 1)
      /\ d % W = d \/ d % W = d + W \/ d % W = d - W
  BY <1>1, <1>2, <1>4, Remainder
<1>6. QED
  BY <1>1, <1>3, <1>5 DEF d

(* Of two times less than half a turn ahead, the signed comparison of the  *)
(* code finds the earlier one.                                             *)
LEMMA BeforeIsLess ==
  ASSUME NEW t \in Clock, NEW a \in Clock, NEW b \in Clock,
         Lead(t, a) < Half, Lead(t, b) < Half
  PROVE  /\ Before(a, b) <=> Lead(t, a) < Lead(t, b)
         /\ Before(a, b) <=> (a - b) % W >= Half
<1>1. /\ W \in Nat /\ MaxLate \in Nat /\ a \in 0..(W - 1) /\ b \in 0..(W - 1)
      /\ t \in 0..(W - 1)
  BY ClockAssumption DEF Clock
<1>2. PICK u \in 0..(W - 1) : /\ u = Lead(t, a)
                              /\ \/ u = a - t + MaxLate
                                 \/ u = a - t + MaxLate + W
                                 \/ u = a - t + MaxLate - W
  BY LeadIs
<1>3. PICK v \in 0..(W - 1) : /\ v = Lead(t, b)
                              /\ \/ v = b - t + MaxLate
                                 \/ v = b - t + MaxLate + W
                                 \/ v = b - t + MaxLate - W
  BY LeadIs
<1>4. \/ a - b = u - v \/ a - b = u - v + W \/ a - b = u - v - W
  BY <1>1, <1>2, <1>3
<1>5. PICK d : d = a - b /\ d \in Int /\ d > 0 - W /\ d < W
  BY <1>1
<1>6. (d >= 0 => d % W = d) /\ (d < 0 => d % W = d + W)
  BY <1>1, <1>5, Remainder
<1>7. d % W >= Half <=> u < v
  BY <1>1, <1>2, <1>3, <1>4, <1>5, <1>6, HalfIs
<1>8. Before(a, b) <=> d % W >= Half
  BY <1>5 DEF Before, Half
<1>9. QED
  BY <1>2, <1>3, <1>5, <1>7, <1>8

(* An interval added to a time moves it that much ahead. *)
LEMMA LeadAdd ==
  ASSUME NEW t \in Clock, NEW x \in Clock, NEW i \in Clock,
         Lead(t, x) <= MaxLate, i + MaxLate < Half
  PROVE  /\ (x + i) % W \in Clock
         /\ Lead(t, (x + i) % W) = Lead(t, x) + i
<1>1. /\ W \in Nat /\ MaxLate \in Nat /\ x \in 0..(W - 1) /\ i \in 0..(W - 1)
      /\ t \in 0..(W - 1) /\ MaxLate < W
  BY HalfIs, ClockAssumption DEF Clock, Half
<1>2. PICK y \in Clock : /\ y = (x + i) % W
                         /\ y = x + i \/ y = (x + i) - W
  <2>1. x + i \in 0..(W + W - 1)
    BY <1>1
  <2>2. QED
    BY <2>1, Wrap
<1>3. PICK u \in 0..(W - 1) : /\ u = Lead(t, x)
                              /\ \/ u = x - t + MaxLate
                                 \/ u = x - t + MaxLate + W
                                 \/ u = x - t + MaxLate - W
  BY LeadIs
<1>4. PICK v \in 0..(W - 1) : /\ v = Lead(t, y)
                              /\ \/ v = y - t + MaxLate
                                 \/ v = y - t + MaxLate + W
                                 \/ v = y - t + MaxLate - W
  BY LeadIs
<1>5. u + i < W /\ u + i >= 0 /\ y \in Int
  BY <1>1, <1>3, HalfIs DEF Clock
<1>6. v = u + i
  BY <1>1, <1>2, <1>3, <1>4, <1>5
<1>7. QED
  BY <1>2, <1>3, <1>4, <1>6

LEMMA LeadNow ==
  ASSUME NEW t \in Clock
  PROVE  Lead(t, t) = MaxLate
<1>1. /\ W \in Nat /\ MaxLate \in Nat /\ MaxLate < W /\ t \in Int
  BY HalfIs, ClockAssumption DEF Clock, Half
<1>2. t - t + MaxLate = MaxLate
  BY <1>1
<1>3. QED
  BY <1>1, <1>2, Remainder DEF Lead

(* A time that is not MaxLate ago comes one closer when the clock ticks. *)
LEMMA LeadTick ==
  ASSUME NEW t \in Clock, NEW x \in Clock,
         (t - x) % W # MaxLate
  PROVE  Lead(t, x) >= 1 /\ Lead((t + 1) % W, x) = Lead(t, x) - 1
<1>1. /\ W \in Nat /\ MaxLate \in Nat /\ MaxLate < W /\ x \in 0..(W - 1)
      /\ t \in 0..(W - 1) /\ W > 1
  BY HalfIs, ClockAssumption DEF Clock, Half
<1>2. PICK n \in Clock : n = (t + 1) % W /\ (n = t + 1 \/ n = (t + 1) - W)
  <2>1. t + 1 \in 0..(W + W - 1)
    BY <1>1
  <2>2. QED
    BY <2>1, Wrap
<1>3. PICK u \in 0..(W - 1) : /\ u = Lead(t, x)
                              /\ \/ u = x - t + MaxLate
                                 \/ u = x - t + MaxLate + W
                                 \/ u = x - t + MaxLate - W
  BY LeadIs
<1>4. PICK v \in 0..(W - 1) : /\ v = Lead(n, x)
                              /\ \/ v = x - n + MaxLate
                                 \/ v = x - n + MaxLate + W
                                 \/ v = x - n + MaxLate - W
  BY LeadIs
<1>5. u # 0
  <2>1. PICK d : d = t - x /\ d \in Int /\ d > 0 - W /\ d < W
    BY <1>1
  <2>2. (d >= 0 => d % W = d) /\ (d < 0 => d % W = d + W)
    BY <1>1, <2>1, Remainder
  <2>3. d % W # MaxLate
    BY <2>1
  <2>4. QED
    BY <1>1, <1>3, <2>1, <2>2, <2>3
<1>6. n \in Int
  BY <1>2 DEF Clock
<1>7. v = u - 1
  BY <1>1, <1>2, <1>3, <1>4, <1>5, <1>6
<1>8. QED
  BY <1>2, <1>3, <1>4, <1>5, <1>7

(* What the order says of one listed cell. *)
LEMMA ListedLead ==
  ASSUME ListInv, ListedRunnable, NEW c \in Listed
  PROVE  /\ tick \in Clock /\ heap[c].next \in Clock /\ NextLead(c) \in Nat
         /\ NextLead(c) < Half /\ heap[c].remaining # 0 /\ heap[c].interval # 0
         /\ heap[c].interval \in Clock /\ heap[c].interval + MaxLate < Half
<1>1. tick \in Clock /\ heap[c].next \in Clock /\ heap[c].interval \in Clock
  BY ListedTask DEF ListInv, TypeOK
<1>2. NextLead(c) \in 0..(W - 1)
  BY <1>1, LeadIs DEF NextLead
<1>3. QED
  BY <1>1, <1>2, ClockAssumption DEF ListedRunnable, Half

(* The lead of the listed cells once c is given the run time next. *)
LeadWith(c, next, d) == IF d = c THEN Lead(tick, next) ELSE NextLead(d)

(* insert_sorted puts a cell where the order wants it: the comparisons it  *)
(* makes are those of the leads.                                           *)
LEMMA InsertionSorts ==
  ASSUME ListInv, ListedRunnable,
         NEW s \in Seq(Cells), ToSet(s) \subseteq Listed,
         \A i, j \in 1..Len(s) : i < j => NextLead(s[i]) <= NextLead(s[j]),
         NEW c \in Cells, c \notin ToSet(s),
         NEW next \in Clock, Lead(tick, next) < Half,
         NEW k \in 1..(Len(s) + 1), SortedPos(s, k, next),
         NEW t, t = InsertAt(s, k, c)
  PROVE  \A i, j \in 1..Len(t) :
           i < j => LeadWith(c, next, t[i]) <= LeadWith(c, next, t[j])
<1> DEFINE S == Listed \cup {c}
           f == [d \in S |-> LeadWith(c, next, d)]
<1>1. tick \in Clock /\ Lead(tick, next) \in 0..(W - 1)
  BY LeadIs DEF ListInv, TypeOK
<1>2. /\ Len(s) \in Nat /\ DOMAIN s = 1..Len(s)
      /\ \A i \in 1..Len(s) : s[i] \in Listed /\ s[i] # c
  BY LenProperties DEF ToSet
<1>3. f \in [S -> Int]
  <2>1. \A d \in S : LeadWith(c, next, d) \in Int
    BY <1>1, ListedLead DEF LeadWith
  <2>2. QED
    BY <2>1
<1>4. \A i \in 1..Len(s) : f[s[i]] = NextLead(s[i])
  BY <1>2 DEF LeadWith
<1>5. f[c] = Lead(tick, next)
  BY DEF LeadWith
<1>6. s \in Seq(S)
  <2>1. s \in [1..Len(s) -> S]
    BY <1>2, LenProperties
  <2>2. QED
    BY <1>2, <2>1, SeqDef
<1>7. \A i \in 1..Len(s) :
        Before(next, heap[s[i]].next) <=> Lead(tick, next) < NextLead(s[i])
  <2>1. ASSUME NEW d \in Listed
        PROVE  Before(next, heap[d].next) <=> Lead(tick, next) < NextLead(d)
    <3>1. /\ heap[d].next \in Clock /\ NextLead(d) < Half
          /\ Lead(tick, heap[d].next) < Half
      BY ListedLead DEF NextLead
    <3>2. QED
      BY <1>1, <3>1, BeforeIsLess DEF NextLead
  <2>2. QED
    BY <1>2, <2>1
<1>8. \A i \in 1..Len(s) : NextLead(s[i]) \in Int /\ Lead(tick, next) \in Int
  BY <1>1, <1>2, ListedLead
<1> HIDE DEF f, S
<1>9. Ascending(s, f)
  BY <1>4 DEF Ascending
<1>10. \A i \in 1..(k - 1) : f[s[i]] <= f[c]
  <2>1. ASSUME NEW i \in 1..(k - 1) PROVE NextLead(s[i]) <= Lead(tick, next)
    <3>1. i \in 1..Len(s) /\ ~Before(next, heap[s[i]].next)
      BY <1>2, <2>1 DEF SortedPos
    <3>2. QED
      BY <1>7, <1>8, <3>1
  <2>2. \A i \in 1..(k - 1) : i \in 1..Len(s)
    BY <1>2
  <2>3. QED
    BY <1>4, <1>5, <2>1, <2>2
<1>11. k <= Len(s) => f[c] <= f[s[k]]
  BY <1>2, <1>4, <1>5, <1>7, <1>8 DEF SortedPos
<1>12. Ascending(t, f)
  BY <1>3, <1>6, <1>9, <1>10, <1>11, InsertAscending DEF S
<1>13. t \in Seq(S) /\ Len(t) \in Nat /\ \A i \in 1..Len(t) : t[i] \in S
  <2>1. c \in S
    BY DEF S
  <2>2. t \in Seq(S)
    BY <1>6, <2>1, InsertAtProperties
  <2>3. QED
    BY <2>2, LenProperties
<1>14. \A i \in 1..Len(t) : f[t[i]] = LeadWith(c, next, t[i])
  BY <1>13 DEF f
<1>15. QED
  BY <1>12, <1>14 DEF Ascending

(* An operation that leaves clock and pass alone, and after which the list *)
(* holds only tasks it held, in an order of their leads, and none of those *)
(* has run meanwhile.                                                      *)
LEMMA StaySorts ==
  ASSUME InOrder, UNCHANGED <<tick, now>>,
         Passing' <=> Passing, ~Passing => ran' = ran,
         tasks' \in Seq(Cells),
         \A a, b \in 1..Len(tasks') : a < b => NextLead(tasks'[a]) <= NextLead(tasks'[b]),
         \A d \in Listed' :
           /\ d \in Listed /\ heap'[d] = heap[d]
           /\ heap[d].name \in ran' => heap[d].name \in ran
  PROVE  InOrder'
<1>1. \A d \in Listed' : NextLead(d)' = NextLead(d)
  BY DEF NextLead
<1>2. DOMAIN tasks' = 1..Len(tasks') /\ \A a \in 1..Len(tasks') : tasks'[a] \in Listed'
  BY LenProperties DEF Listed, ToSet
<1>3. SortedByLead'
  <2>1. \A a, b \in DOMAIN tasks' :
          a < b => Lead(tick', heap'[tasks'[a]].next) <= Lead(tick', heap'[tasks'[b]].next)
    BY <1>1, <1>2 DEF NextLead
  <2>2. QED
    BY <2>1 DEF SortedByLead, NextLead
<1>4. ListedRunnable'
  BY <1>1 DEF InOrder, ListedRunnable
<1>5. RanIsAhead'
  BY <1>1 DEF InOrder, RanIsAhead
<1>6. QED
  BY <1>3, <1>4, <1>5 DEF InOrder

(* sched_add: the new task is one interval away, which is more than a pass *)
(* can be behind.                                                          *)
LEMMA AddSorts ==
  ASSUME ListInv, ListInv', InOrder,
         NEW n \in Names, NEW interval \in Intervals, NEW cnt \in Counts,
         SchedAdd(n, interval, cnt), ~outOfRange'
  PROVE  InOrder'
<1> DEFINE next == (tick + interval) % W
<1>1. PICK c \in Cells :
        /\ heap[c] = Free
        /\ heap' = [heap EXCEPT ![c] = NewTask(n, interval, cnt)]
        /\ InsertSorted(tasks, c, next)
  BY DEF SchedAdd
<1>2. PICK k \in 1..(Len(tasks) + 1) :
        SortedPos(tasks, k, next) /\ tasks' = InsertAt(tasks, k, c)
  BY <1>1 DEF InsertSorted
<1>3. /\ tasks \in Seq(Cells) /\ IsInjective(tasks) /\ tick \in Clock
      /\ heap \in [Cells -> Task \cup {Free}] /\ c \notin Listed
  BY <1>1 DEF ListInv, TypeOK, HeapExact
<1>4. /\ interval \in Clock /\ interval # 0 /\ cnt # 0
      /\ interval + MaxLate < Half
  <2>1. ~(outOfRange \/ cnt = 0 \/ interval + MaxLate >= Half)
    <3>1. outOfRange' = (outOfRange \/ cnt = 0 \/ interval + MaxLate >= Half)
      BY Zenon DEF SchedAdd, Half
    <3>2. QED
      BY <3>1, Zenon
  <2>2. interval \in Clock /\ interval # 0 /\ interval \in Int
    BY CallerAssumption DEF SchedAdd, Clock
  <2>3. cnt # 0 /\ ~(interval + MaxLate >= Half)
    BY <2>1
  <2>4. QED
    BY <2>2, <2>3, ClockAssumption, HalfIs
<1>5. /\ next \in Clock /\ Lead(tick, next) = MaxLate + interval
      /\ Lead(tick, next) < Half
  <2>1. MaxLate \in Nat /\ interval \in Nat
    BY <1>4, ClockAssumption DEF Clock
  <2>2. Lead(tick, tick) = MaxLate
    BY <1>3, LeadNow
  <2>3. /\ (tick + interval) % W \in Clock
        /\ Lead(tick, (tick + interval) % W) = Lead(tick, tick) + interval
    BY <1>3, <1>4, <2>1, <2>2, LeadAdd
  <2>4. QED
    BY <1>4, <2>1, <2>2, <2>3
<1> HIDE DEF next
<1>6. /\ Listed' = Listed \cup {c} /\ DOMAIN tasks' = 1..Len(tasks')
      /\ \A i \in 1..Len(tasks') : tasks'[i] \in Listed'
  <2>1. Listed' = Listed \cup {c}
    BY <1>2, <1>3, InsertAtElements DEF Listed
  <2>2. tasks' \in Seq(Cells)
    BY DEF ListInv, TypeOK
  <2>3. QED
    BY <2>1, <2>2, LenProperties DEF Listed, ToSet
<1>7. heap'[c] = NewTask(n, interval, cnt)
  BY <1>1, <1>3
<1>8. /\ heap'[c].name = n /\ heap'[c].interval = interval
      /\ heap'[c].next = next /\ heap'[c].remaining = cnt
  BY <1>7 DEF NewTask, next
<1>9. \A d \in Listed : heap'[d] = heap[d] /\ d # c
  BY <1>1, <1>3, ListedTask
<1>10. \A d \in Listed' : NextLead(d)' = LeadWith(c, next, d)
  BY <1>6, <1>8, <1>9 DEF NextLead, LeadWith, SchedAdd
<1>11. SortedByLead'
  <2>1. \A i, j \in 1..Len(tasks) : i < j => NextLead(tasks[i]) <= NextLead(tasks[j])
    BY Positions DEF InOrder, SortedByLead
  <2>2. \A i, j \in 1..Len(tasks') :
          i < j => LeadWith(c, next, tasks'[i]) <= LeadWith(c, next, tasks'[j])
    BY <1>2, <1>3, <1>5, <2>1, InsertionSorts DEF Listed, InOrder
  <2>3. \A i, j \in DOMAIN tasks' :
          i < j => Lead(tick', heap'[tasks'[i]].next) <= Lead(tick', heap'[tasks'[j]].next)
    BY <1>6, <1>10, <2>2 DEF NextLead
  <2>4. QED
    BY <2>3 DEF SortedByLead, NextLead
<1>12. ListedRunnable'
  <2>1. ASSUME NEW d \in Listed'
        PROVE  /\ heap'[d].remaining # 0 /\ heap'[d].interval # 0
               /\ heap'[d].interval + MaxLate < W \div 2
               /\ NextLead(d)' < W \div 2
    <3>1. CASE d = c
      BY <1>4, <1>5, <1>8, <1>10, <3>1 DEF LeadWith, Half
    <3>2. CASE d # c
      BY <1>6, <1>9, <1>10, <3>2 DEF LeadWith, InOrder, ListedRunnable
    <3>3. QED
      BY <3>1, <3>2
  <2>2. QED
    BY <2>1 DEF ListedRunnable
<1>13. RanIsAhead'
  <2>1. UNCHANGED <<tick, now, pc, ran>>
    BY DEF SchedAdd
  <2>2. CASE Passing
    <3>1. Lead(tick, now) <= MaxLate
      BY <2>2 DEF InOrder, RanIsAhead
    <3>2. ASSUME NEW d \in Listed', heap'[d].name \in ran
          PROVE  Lead(tick, now) < NextLead(d)'
      <4>1. CASE d = c
        <5>1. NextLead(d)' = MaxLate + interval /\ interval \in Nat
          BY <1>4, <1>5, <1>10, <4>1 DEF LeadWith, Clock
        <5>2. Lead(tick, now) \in Nat /\ MaxLate \in Nat
          BY LeadIs, ClockAssumption DEF ListInv, TypeOK
        <5>3. QED
          BY <1>4, <3>1, <5>1, <5>2
      <4>2. CASE d # c
        BY <1>6, <1>9, <1>10, <2>2, <3>2, <4>2
           DEF LeadWith, InOrder, RanIsAhead
      <4>3. QED
        BY <4>1, <4>2
    <3>3. QED
      BY <2>1, <2>2, <3>1, <3>2 DEF RanIsAhead, Passing
  <2>3. CASE ~Passing
    BY <2>1, <2>3 DEF InOrder, RanIsAhead, Passing
  <2>4. QED
    BY <2>2, <2>3
<1>14. QED
  BY <1>11, <1>12, <1>13 DEF InOrder

(* What leaves the list takes its place with it; what stays is unchanged.  *)
LEMMA RemovalSorts ==
  ASSUME ListInv, SortedByLead, NEW k \in 1..Len(tasks), NEW t, t = RemoveAt(tasks, k)
  PROVE  /\ \A i, j \in 1..Len(t) : i < j => NextLead(t[i]) <= NextLead(t[j])
         /\ ToSet(t) = Listed \ {tasks[k]}
         /\ t \in Seq(Cells)
<1> DEFINE f == [d \in Listed |-> NextLead(d)]
<1>1. tasks \in Seq(Cells) /\ IsInjective(tasks)
  BY DEF ListInv, TypeOK, HeapExact
<1>2. t \in Seq(Cells) /\ ToSet(t) = Listed \ {tasks[k]}
  BY <1>1, RemoveAtProperties, RemoveAtElements DEF Listed
<1>3. \A i \in 1..Len(t) : t[i] \in Listed
  BY <1>2, LenProperties DEF ToSet
<1>4. Ascending(tasks, f)
  BY Positions DEF SortedByLead, Ascending
<1> HIDE DEF f
<1>5. Ascending(t, f)
  BY <1>1, <1>4, RemoveAscending
<1>6. QED
  BY <1>2, <1>3, <1>5 DEF Ascending, f

LEMMA RemoveSorts ==
  ASSUME ListInv, ListInv', InOrder,
         NEW n \in Names, SchedRemove(n)
  PROVE  InOrder'
<1>1. PICK i \in DOMAIN tasks :
        /\ tasks' = RemoveAt(tasks, i)
        /\ heap' = [heap EXCEPT ![tasks[i]] = Free]
  BY DEF SchedRemove
<1>2. PICK c \in Listed : c = tasks[i] /\ c \in Cells /\ i \in 1..Len(tasks)
  BY Positions, ListedTask
<1>3. /\ \A a, b \in 1..Len(tasks') : a < b => NextLead(tasks'[a]) <= NextLead(tasks'[b])
      /\ Listed' = Listed \ {c} /\ tasks' \in Seq(Cells)
  BY <1>1, <1>2, RemovalSorts DEF InOrder, Listed
<1>4. \A d \in Listed' : d \in Listed /\ heap'[d] = heap[d]
  BY <1>1, <1>2, <1>3, ListedTask DEF ListInv, TypeOK
<1>5. QED
  BY <1>3, <1>4, StaySorts DEF SchedRemove, Passing

(* The scan judges the head of the list: every listed task has runs left.  *)
LEMMA HeadIsFirst ==
  ASSUME ListInv, InOrder, NEW i \in DOMAIN tasks
  PROVE  FirstLive(i) <=> i = 1
<1>1. \A j \in 1..Len(tasks) : heap[tasks[j]].remaining # 0
  BY Positions DEF InOrder, ListedRunnable
<1>2. i \in 1..Len(tasks) /\ Len(tasks) \in Nat
  BY Positions, LenProperties DEF ListInv, TypeOK
<1>3. i # 1 => 1 \in 1..(i - 1) /\ 1 \in 1..Len(tasks)
  BY <1>2
<1>4. i = 1 => 1..(i - 1) = {}
  OBVIOUS
<1>5. QED
  BY <1>1, <1>2, <1>3, <1>4 DEF FirstLive

(* In a pass, a task is due exactly when it is not ahead of the pass.      *)
LEMMA DueIsBehind ==
  ASSUME ListInv, InOrder, Passing, NEW c \in Listed
  PROVE  /\ IsDue(heap[c]) <=> ~(Lead(tick, now) < NextLead(c))
         /\ IsDue(heap[c]) <=> ~((now - heap[c].next) % W >= Half)
         /\ Lead(tick, now) \in Nat /\ NextLead(c) \in Nat
<1>1. /\ tick \in Clock /\ now \in Clock /\ heap[c].next \in Clock
      /\ NextLead(c) \in Nat /\ NextLead(c) < Half
  BY ListedLead DEF ListInv, TypeOK, InOrder
<1>2. Lead(tick, now) <= MaxLate /\ Lead(tick, now) \in 0..(W - 1)
  BY <1>1, LeadIs DEF InOrder, RanIsAhead
<1>3. MaxLate < Half /\ MaxLate \in Nat /\ Lead(tick, now) \in Nat
  BY <1>2, ClockAssumption DEF Half
<1>4. Lead(tick, now) < Half /\ Lead(tick, heap[c].next) < Half
  BY <1>1, <1>2, <1>3, HalfIs DEF NextLead
<1>5. QED
  BY <1>1, <1>3, <1>4, BeforeIsLess DEF IsDue, NextLead

(* A task that runs for the last time takes its name out of the list.      *)
LEMMA DispatchLastSorts ==
  ASSUME ListInv, ListInv', InOrder, Dispatch,
         NEW i \in DOMAIN tasks, DispatchLast(i),
         ran' = ran \cup {heap[tasks[i]].name}
  PROVE  InOrder'
<1>1. PICK c \in Listed : c = tasks[i] /\ c \in Cells /\ i \in 1..Len(tasks)
  BY Positions, ListedTask
<1>2. /\ \A a, b \in 1..Len(tasks') : a < b => NextLead(tasks'[a]) <= NextLead(tasks'[b])
      /\ Listed' = Listed \ {c} /\ tasks' \in Seq(Cells)
  BY <1>1, RemovalSorts DEF InOrder, Listed, DispatchLast
<1>3. \A d \in Listed' : d \in Listed /\ d # c /\ heap'[d] = heap[d]
  BY <1>1, <1>2, ListedTask DEF ListInv, TypeOK, DispatchLast
<1>4. \A d \in Listed' : heap[d].name # heap[c].name
  BY <1>3 DEF ListInv, UniqueNames
<1>5. Passing /\ Passing' /\ UNCHANGED <<tick, now>>
  BY DEF Dispatch, Passing
<1>6. QED
  BY <1>1, <1>2, <1>3, <1>4, <1>5, StaySorts

(* A task that runs again moves one interval ahead of the pass.            *)
LEMMA DispatchAgainSorts ==
  ASSUME ListInv, ListInv', InOrder, Dispatch,
         NEW i \in DOMAIN tasks, DispatchAgain(i),
         ran' = ran \cup {heap[tasks[i]].name}
  PROVE  InOrder'
<1>1. PICK c \in Listed : c = tasks[i] /\ c \in Cells /\ i \in 1..Len(tasks)
  BY Positions, ListedTask
<1>2. PICK next : next = (now + heap[c].interval) % W
  OBVIOUS
<1>3. PICK rest : rest = RemoveAt(tasks, i)
  OBVIOUS
<1>4. /\ tasks \in Seq(Cells) /\ IsInjective(tasks) /\ tick \in Clock
      /\ now \in Clock /\ heap \in [Cells -> Task \cup {Free}]
      /\ tick' = tick /\ now' = now /\ Passing /\ Passing'
  BY DEF ListInv, TypeOK, HeapExact, Dispatch, Passing
<1>5. /\ rest \in Seq(Cells) /\ ToSet(rest) = Listed \ {c}
      /\ \A a, b \in 1..Len(rest) : a < b => NextLead(rest[a]) <= NextLead(rest[b])
  BY <1>1, <1>3, RemovalSorts DEF InOrder
<1>6. PICK k \in 1..(Len(rest) + 1) :
        SortedPos(rest, k, next) /\ tasks' = InsertAt(rest, k, c)
  BY <1>1, <1>2, <1>3 DEF DispatchAgain, InsertSorted
<1>7. /\ heap[c] \in Task /\ heap[c].interval \in Clock /\ heap[c].remaining \in Int
      /\ heap[c].interval # 0 /\ heap[c].remaining # 0 /\ heap[c].remaining # 1
      /\ heap[c].interval + MaxLate < Half
  BY <1>1, ListedTask DEF DispatchAgain, InOrder, ListedRunnable, Half
<1>8. /\ next \in Clock /\ Lead(tick, now) \in Nat /\ Lead(tick, now) <= MaxLate
      /\ Lead(tick, next) = Lead(tick, now) + heap[c].interval
  <2>1. Lead(tick, now) <= MaxLate /\ Lead(tick, now) \in 0..(W - 1)
    BY <1>4, LeadIs DEF InOrder, RanIsAhead
  <2>2. /\ (now + heap[c].interval) % W \in Clock
        /\ Lead(tick, (now + heap[c].interval) % W) = Lead(tick, now) + heap[c].interval
    BY <1>4, <1>7, <2>1, LeadAdd
  <2>3. QED
    BY <1>2, <2>1, <2>2, ClockAssumption
<1>9. Lead(tick, next) < Half /\ Lead(tick, now) < Lead(tick, next)
  <2>1. heap[c].interval \in Nat /\ MaxLate \in Nat /\ Half \in Nat
    BY <1>7, ClockAssumption, HalfIs DEF Clock
  <2>2. QED
    BY <1>7, <1>8, <2>1
<1>10. /\ heap'[c].interval = heap[c].interval /\ heap'[c].name = heap[c].name
       /\ heap'[c].next = next /\ heap'[c].remaining # 0
       /\ \A d \in Cells : d # c => heap'[d] = heap[d]
  BY <1>1, <1>2, <1>4, <1>7 DEF DispatchAgain, Task
<1>11. /\ Listed' = Listed /\ DOMAIN tasks' = 1..Len(tasks')
       /\ \A a \in 1..Len(tasks') : tasks'[a] \in Listed'
  <2>1. Listed' = (Listed \ {c}) \cup {c}
    BY <1>5, <1>6, <1>1, InsertAtElements DEF Listed
  <2>2. tasks' \in Seq(Cells)
    BY DEF ListInv, TypeOK
  <2>3. QED
    BY <1>1, <2>1, <2>2, LenProperties DEF Listed, ToSet
<1>12. \A d \in Listed : d # c => d \in Cells /\ heap'[d] = heap[d]
  BY <1>10, ListedTask
<1>13. \A d \in Listed' : NextLead(d)' = LeadWith(c, next, d)
  BY <1>4, <1>10, <1>11, <1>12 DEF NextLead, LeadWith
<1>14. SortedByLead'
  <2>1. \A a, b \in 1..Len(tasks') :
          a < b => LeadWith(c, next, tasks'[a]) <= LeadWith(c, next, tasks'[b])
    BY <1>1, <1>5, <1>6, <1>8, <1>9, InsertionSorts DEF InOrder
  <2>2. \A a, b \in DOMAIN tasks' :
          a < b => Lead(tick', heap'[tasks'[a]].next) <= Lead(tick', heap'[tasks'[b]].next)
    BY <1>11, <1>13, <2>1 DEF NextLead
  <2>3. QED
    BY <2>2 DEF SortedByLead, NextLead
<1>15. ListedRunnable'
  <2>1. ASSUME NEW d \in Listed'
        PROVE  /\ heap'[d].remaining # 0 /\ heap'[d].interval # 0
               /\ heap'[d].interval + MaxLate < W \div 2
               /\ NextLead(d)' < W \div 2
    <3>1. CASE d = c
      BY <1>7, <1>9, <1>10, <1>13, <3>1 DEF LeadWith, Half
    <3>2. CASE d # c
      BY <1>11, <1>12, <1>13, <3>2 DEF LeadWith, InOrder, ListedRunnable
    <3>3. QED
      BY <3>1, <3>2
  <2>2. QED
    BY <2>1 DEF ListedRunnable
<1>16. RanIsAhead'
  <2>1. ASSUME NEW d \in Listed', heap'[d].name \in ran'
        PROVE  Lead(tick, now) < NextLead(d)'
    <3>1. CASE d = c
      BY <1>9, <1>13, <3>1 DEF LeadWith
    <3>2. CASE d # c
      <4>1. heap[d].name # heap[c].name
        BY <1>11, <3>2 DEF ListInv, UniqueNames
      <4>2. heap[d].name \in ran
        BY <1>1, <1>11, <1>12, <2>1, <3>2, <4>1
      <4>3. QED
        BY <1>4, <1>11, <1>13, <3>2, <4>2 DEF LeadWith, InOrder, RanIsAhead
    <3>3. QED
      BY <3>1, <3>2
  <2>2. QED
    BY <1>4, <1>8, <2>1 DEF RanIsAhead
<1>17. QED
  BY <1>14, <1>15, <1>16 DEF InOrder

(* The clock brings every run time one closer, and none falls behind the   *)
(* earliest there can be.                                                  *)
LEMMA TickSorts ==
  ASSUME ListInv, InOrder, Tick, ~outOfRange
  PROVE  InOrder'
<1>1. UNCHANGED <<tasks, heap, pc, now, ran>> /\ tick' = (tick + 1) % W
      /\ Listed' = Listed /\ tick \in Clock /\ now \in Clock
  BY DEF Tick, Listed, ListInv, TypeOK
<1>2. MaxLate \in Nat /\ MaxLate < Half /\ Half \in Nat
  BY HalfIs, ClockAssumption DEF Half
<1>3. ASSUME NEW c \in Listed
      PROVE  /\ NextLead(c)' = NextLead(c) - 1 /\ NextLead(c) \in Nat
             /\ NextLead(c) < Half
  <2>1. heap[c].next \in Clock /\ NextLead(c) \in Nat /\ NextLead(c) < Half
    BY ListedLead DEF InOrder
  <2>2. c \in Live
    BY DEF Live, InOrder, ListedRunnable
  <2>3. PICK late : late = (tick - heap[c].next) % W
    OBVIOUS
  <2>4. late >= Half \/ late < MaxLate
    BY <2>2, <2>3 DEF Tick, Punctual, Half
  <2>5. late # MaxLate
    BY <1>2, <2>4
  <2>6. QED
    BY <1>1, <2>1, <2>3, <2>5, LeadTick DEF NextLead
<1>4. \A a \in DOMAIN tasks : tasks[a] \in Listed
  BY Positions
<1>5. SortedByLead'
  <2>1. ASSUME NEW a \in DOMAIN tasks, NEW b \in DOMAIN tasks, a < b
        PROVE  Lead(tick', heap[tasks[a]].next) <= Lead(tick', heap[tasks[b]].next)
    <3>1. PICK u \in Listed, v \in Listed : u = tasks[a] /\ v = tasks[b]
      BY <1>4
    <3>2. NextLead(u) <= NextLead(v)
      BY <2>1, <3>1 DEF InOrder, SortedByLead
    <3>3. NextLead(u)' <= NextLead(v)'
      BY <1>3, <3>2
    <3>4. QED
      BY <1>1, <3>1, <3>3 DEF NextLead
  <2>2. QED
    BY <1>1, <2>1 DEF SortedByLead, NextLead
<1>6. ListedRunnable'
  <2>1. \A c \in Listed : NextLead(c)' < Half
    BY <1>2, <1>3
  <2>2. QED
    BY <1>1, <2>1 DEF InOrder, ListedRunnable, Half
<1>7. CASE Passing
  <2>1. PICK late : late = (tick - now) % W
    OBVIOUS
  <2>2. late < MaxLate
    BY <1>7, <2>1 DEF Tick, Punctual, Passing
  <2>3. late # MaxLate
    BY <1>2, <2>2
  <2>4. /\ Lead(tick', now) = Lead(tick, now) - 1
        /\ Lead(tick, now) \in 0..(W - 1)
    BY <1>1, <2>1, <2>3, LeadTick, LeadIs
  <2>5. Lead(tick, now) <= MaxLate
    BY <1>7 DEF InOrder, RanIsAhead
  <2>6. Lead(tick', now) <= MaxLate /\ Lead(tick, now) \in Int
    BY <1>2, <2>4, <2>5
  <2>7. ASSUME NEW c \in Listed, heap[c].name \in ran
        PROVE  Lead(tick', now) < NextLead(c)'
    <3>1. Lead(tick, now) < NextLead(c)
      BY <1>7, <2>7 DEF InOrder, RanIsAhead
    <3>2. QED
      BY <1>3, <2>4, <2>6, <3>1
  <2>8. RanIsAhead'
    BY <1>1, <1>7, <2>6, <2>7 DEF RanIsAhead, Passing
  <2>9. QED
    BY <1>5, <1>6, <2>8 DEF InOrder
<1>8. CASE ~Passing
  <2>1. RanIsAhead'
    BY <1>1, <1>8 DEF InOrder, RanIsAhead, Passing
  <2>2. QED
    BY <1>5, <1>6, <2>1 DEF InOrder
<1>9. QED
  BY <1>7, <1>8

(* The list is as it was: leads, pass and history decide.                  *)
LEMMA SameListSorts ==
  ASSUME ListInv, ListInv', InOrder, UNCHANGED <<tasks, tick, now>>,
         \A d \in Listed : heap'[d] = heap[d],
         Passing' <=> Passing, ran' = ran
  PROVE  InOrder'
<1>1. Listed' = Listed /\ tasks' \in Seq(Cells)
  BY DEF Listed, ListInv, TypeOK
<1>2. \A a, b \in 1..Len(tasks') : a < b => NextLead(tasks'[a]) <= NextLead(tasks'[b])
  BY Positions DEF InOrder, SortedByLead
<1>3. QED
  BY <1>1, <1>2, StaySorts

(* The operations that leave list and clock alone: a pass begins at the    *)
(* present moment and with nothing run, and ends with its history.         *)
LEMMA QuietSorts ==
  ASSUME ListInv, ListInv', InOrder,
         \/ SchedInit \/ SchedStopBegin \/ LoopHead \/ Wake
         \/ CallbackReturn \/ PassEnd \/ UNCHANGED vars
  PROVE  InOrder'
<1>1. CASE SchedInit \/ SchedStopBegin \/ LoopHead \/ UNCHANGED vars
  <2>1. UNCHANGED <<tasks, heap, tick, now, ran>>
    BY <1>1 DEF SchedInit, SchedStopBegin, LoopHead, vars
  <2>2. Passing' <=> Passing
    BY <1>1 DEF SchedInit, SchedStopBegin, LoopHead, vars, Passing,
                ListInv, DownIsEmpty
  <2>3. QED
    BY <2>1, <2>2, SameListSorts
<1>2. CASE CallbackReturn
  <2>1. \A d \in Listed : heap'[d] = heap[d]
    BY <1>2, ListedTask DEF CallbackReturn, ListInv, TypeOK, HeapExact, Dying
  <2>2. UNCHANGED <<tasks, tick, now, ran>> /\ Passing' /\ Passing
    BY <1>2 DEF CallbackReturn, Passing
  <2>3. QED
    BY <2>1, <2>2, SameListSorts
<1>3. CASE Wake \/ PassEnd
  <2>1. UNCHANGED <<tasks, heap, tick>>
    BY <1>3 DEF Wake, PassEnd
  <2>2. SortedByLead' /\ ListedRunnable'
    BY <2>1 DEF InOrder, SortedByLead, ListedRunnable, NextLead, Listed
  <2>3. CASE Wake
    <3>1. Lead(tick', now') = MaxLate /\ MaxLate \in Int /\ ran' = {}
      BY <2>3, LeadNow, ClockAssumption
         DEF Wake, ListInv, TypeOK, InOrder, RanIsAhead, Passing
    <3>2. RanIsAhead'
      BY <2>3, <3>1 DEF RanIsAhead
    <3>3. QED
      BY <2>2, <3>2 DEF InOrder
  <2>4. CASE PassEnd
    <3>1. ran' = {} /\ ~Passing'
      BY <2>4 DEF PassEnd, Passing
    <3>2. QED
      BY <2>2, <3>1 DEF InOrder, RanIsAhead
  <2>5. QED
    BY <1>3, <2>3, <2>4
<1>4. QED
  BY <1>1, <1>2, <1>3

LEMMA InitSorts == Init => SortedInv
<1> SUFFICES ASSUME Init PROVE SortedInv
  OBVIOUS
<1>1. Listed = {} /\ DOMAIN tasks = {} /\ ~Passing /\ ran = {}
  BY DEF Init, Listed, ToSet, Passing
<1>2. QED
  BY <1>1 DEF SortedInv, InOrder, SortedByLead, ListedRunnable, RanIsAhead

(* sched_stop leaves an empty list, which is in order again whatever was   *)
(* added before.                                                           *)
LEMMA StopSorts ==
  ASSUME SortedInv, SchedStopEnd
  PROVE  SortedInv'
<1>1. Listed' = {} /\ DOMAIN tasks' = {}
  BY DEF SchedStopEnd, Listed, ToSet
<1>2. ran' = {} /\ ~Passing'
  BY DEF SchedStopEnd, SortedInv, Passing
<1>3. QED
  BY <1>1, <1>2 DEF SortedInv, InOrder, SortedByLead, ListedRunnable, RanIsAhead

(* Only a pass has a history of what it has run.                           *)
LEMMA NextRan ==
  ASSUME ListInv, ~Passing => ran = {}, [Next]_vars
  PROVE  ~Passing' => ran' = {}
<1>1. CASE Service
  BY <1>1 DEF Service, SchedInit, SchedStopBegin, SchedStopEnd, Passing, ListInv, DownIsEmpty
<1>2. CASE Api
  BY <1>2 DEF Api, SchedAdd, SchedRemove, Passing
<1>3. CASE Thread
  BY <1>3 DEF Thread, LoopHead, Wake, Dispatch, CallbackReturn, PassEnd, Passing
<1>4. CASE Tick \/ UNCHANGED vars
  BY <1>4 DEF Tick, vars, Passing
<1>5. QED
  BY <1>1, <1>2, <1>3, <1>4 DEF Next

(* A step that does not empty the list does not forget that a task was     *)
(* added out of range.                                                     *)
LEMMA RangeKept ==
  ASSUME [Next]_vars, ~SchedStopEnd, ~outOfRange'
  PROVE  ~outOfRange
<1>1. CASE Service
  BY <1>1 DEF Service, SchedInit, SchedStopBegin
<1>2. CASE Api
  BY <1>2 DEF Api, SchedAdd, SchedRemove
<1>3. CASE Thread
  BY <1>3 DEF Thread, LoopHead, Wake, Dispatch, CallbackReturn, PassEnd
<1>4. CASE Tick \/ UNCHANGED vars
  BY <1>4 DEF Tick, vars
<1>5. QED
  BY <1>1, <1>2, <1>3, <1>4 DEF Next

LEMMA NextOrder ==
  ASSUME ListInv, ListInv', InOrder, [Next]_vars, ~SchedStopEnd,
         ~outOfRange, ~outOfRange'
  PROVE  InOrder'
<1>1. CASE Service
  BY <1>1, QuietSorts DEF Service
<1>2. CASE Api
  BY <1>2, AddSorts, RemoveSorts DEF Api
<1>3. CASE Dispatch
  <2>1. PICK i \in DOMAIN tasks :
          /\ DispatchLast(i) \/ DispatchAgain(i)
          /\ ran' = ran \cup {heap[tasks[i]].name}
    BY <1>3 DEF Dispatch
  <2>2. QED
    BY <1>3, <2>1, DispatchLastSorts, DispatchAgainSorts
<1>4. CASE Thread
  BY <1>3, <1>4, QuietSorts DEF Thread
<1>5. CASE Tick
  BY <1>5, TickSorts
<1>6. QED
  BY <1>1, <1>2, <1>4, <1>5, QuietSorts DEF Next

LEMMA NextSorts ==
  ASSUME ListInv, ListInv', SortedInv, [Next]_vars
  PROVE  SortedInv'
<1>1. CASE SchedStopEnd
  BY <1>1, StopSorts
<1>2. CASE ~SchedStopEnd
  <2>1. ~outOfRange' => InOrder'
    BY <1>2, RangeKept, NextOrder DEF SortedInv
  <2>2. ~Passing' => ran' = {}
    BY NextRan DEF SortedInv
  <2>3. QED
    BY <2>1, <2>2 DEF SortedInv
<1>3. QED
  BY <1>1, <1>2

(* The order of the list, across every wrap of the clock, from the start   *)
(* of the service until a task is added out of range.                      *)
THEOREM SchedSorted == Spec => []SortedInv
<1>1. ListInv /\ ListInv' /\ SortedInv /\ [Next]_vars => SortedInv'
  BY NextSorts
<1>2. QED
  BY <1>1, InitSorts, SchedConsistent, PTL DEF Spec

(* The inductive invariant of the scheduler.                               *)
THEOREM SchedInvariant == Spec => []SchedInv
BY SchedConsistent, SchedSorted, PTL DEF SchedInv

(* The break in the scan is right: the head is not due, so nothing is.     *)
LEMMA EndLeavesNothingDue ==
  ASSUME ListInv, InOrder, PassEnd, NEW c \in Live
  PROVE  (now - heap[c].next) % W >= W \div 2
<1>1. PICK j \in 1..Len(tasks) : c = tasks[j] /\ c \in Listed
  BY Positions DEF Live, Listed, ToSet
<1>2. Len(tasks) \in Nat /\ 1 \in DOMAIN tasks /\ Passing
  BY <1>1, Positions, LenProperties DEF ListInv, TypeOK, PassEnd, Passing
<1>3. PICK d \in Listed : d = tasks[1]
  BY <1>2, Positions
<1>4. ~IsDue(heap[d])
  BY <1>2, <1>3, HeadIsFirst DEF PassEnd
<1>5. NextLead(d) <= NextLead(c)
  <2>1. NextLead(d) \in Nat
    BY ListedLead DEF InOrder
  <2>2. j = 1 \/ 1 < j
    BY <1>2
  <2>3. QED
    BY <1>1, <1>2, <1>3, <2>1, <2>2, Positions DEF InOrder, SortedByLead
<1>6. Lead(tick, now) < NextLead(c)
  BY <1>1, <1>2, <1>4, <1>5, DueIsBehind
<1>7. QED
  BY <1>1, <1>2, <1>6, DueIsBehind DEF Half

(* The scan ends with a callback or with the pass, and nobody else moves   *)
(* the thread.                                                             *)
LEMMA LeavesScan ==
  ASSUME ListInv, [Next]_vars, pc = "scan", pc' # "scan"
  PROVE  Dispatch \/ PassEnd
<1>1. CASE Service
  BY <1>1 DEF Service, SchedInit, SchedStopBegin, SchedStopEnd,
              ListInv, DownIsEmpty
<1>2. CASE Api
  BY <1>2 DEF Api, SchedAdd, SchedRemove
<1>3. CASE Thread
  BY <1>3 DEF Thread, LoopHead, Wake, CallbackReturn
<1>4. CASE Tick \/ UNCHANGED vars
  BY <1>4 DEF Tick, vars
<1>5. QED
  BY <1>1, <1>2, <1>3, <1>4 DEF Next

(* A pass that ends leaves no live task whose time had come, unless a task *)
(* was added out of range.                                                 *)
THEOREM SchedLeavesNothingDue == Spec => PassLeavesNothingDue
<1>1. ASSUME ListInv, SortedInv, [Next]_vars, pc = "scan", pc' = "head", ~outOfRange
      PROVE  \A c \in Live : (now - heap[c].next) % W >= W \div 2
  <2>1. PassEnd
    BY <1>1, LeavesScan DEF Dispatch
  <2>2. QED
    BY <1>1, <2>1, EndLeavesNothingDue DEF SortedInv
<1>2. /\ ListInv /\ SortedInv /\ [Next]_vars
      => [pc = "scan" /\ pc' = "head" /\ ~outOfRange =>
            \A c \in Live : (now - heap[c].next) % W >= W \div 2]_vars
  BY <1>1
<1>3. QED
  BY <1>2, SchedConsistent, SchedSorted, PTL DEF Spec, PassLeavesNothingDue

(* A pass dispatches a task at most once, unless a task was added out of   *)
(* range: what has run is ahead of the pass.                               *)
THEOREM SchedOncePerPass == Spec => OncePerPass
<1>1. ASSUME ListInv, SortedInv, [Next]_vars, pc = "scan", pc' = "callback", ~outOfRange
      PROVE  cur'.name \notin ran
  <2>1. Dispatch
    BY <1>1, LeavesScan DEF PassEnd
  <2>2. PICK i \in DOMAIN tasks :
          IsDue(heap[tasks[i]]) /\ (DispatchLast(i) \/ DispatchAgain(i))
    BY <2>1 DEF Dispatch
  <2>3. PICK c \in Listed : c = tasks[i]
    BY Positions, <1>1
  <2>4. cur'.name = heap[c].name
    BY <2>2, <2>3 DEF DispatchLast, DispatchAgain
  <2>5. ~(Lead(tick, now) < NextLead(c)) /\ Passing
    BY <1>1, <2>2, <2>3, DueIsBehind DEF Passing, SortedInv
  <2>6. QED
    BY <1>1, <2>4, <2>5 DEF SortedInv, InOrder, RanIsAhead
<1>2. /\ ListInv /\ SortedInv /\ [Next]_vars
      => [pc = "scan" /\ pc' = "callback" /\ ~outOfRange => cur'.name \notin ran]_vars
  BY <1>1
<1>3. QED
  BY <1>2, SchedConsistent, SchedSorted, PTL DEF Spec, OncePerPass
=============================================================================
