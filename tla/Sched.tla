------------------------------- MODULE Sched -------------------------------
(***************************************************************************)
(* The task scheduler of claw/services/sched.c: an intrusive list of tasks *)
(* sorted by next run time, one thread that scans it every tick and runs   *)
(* the callbacks that are due with the list lock released, and an API      *)
(* (sched_add, sched_remove) that any thread, the callbacks included,      *)
(* calls at any moment.                                                    *)
(*                                                                         *)
(* Every access to the list happens under s_lock, so one critical section  *)
(* is one action; the lock itself needs no variable.  The millisecond      *)
(* clock is a counter modulo W (uint32_t: W = 2^32), compared through a    *)
(* signed difference exactly as the code does.                             *)
(***************************************************************************)
EXTENDS Integers, Sequences, FiniteSets, SequencesExt

CONSTANTS
  Names,       (* task names                                               *)
  Cells,       (* addresses claw_malloc can return for a sched_task_t      *)
  Intervals,   (* values of interval_ms callers pass                       *)
  Counts,      (* values of count callers pass: -1 for ever, 0, 1, ...     *)
  MaxTasks,    (* CLAW_SCHED_MAX_TASKS                                     *)
  W,           (* number of values of a uint32_t tick                      *)
  MaxLate,     (* bound: how far a pass may fall behind the clock          *)
  Free         (* content of a cell that is not allocated                  *)

ASSUME ClockAssumption  == W \in Nat /\ W > 1 /\ MaxLate \in Nat /\ MaxLate < W \div 2
ASSUME CallerAssumption == Intervals \subseteq 0..(W - 1) /\ Counts \subseteq Int
ASSUME LimitAssumption  == MaxTasks \in Nat

Clock == 0..(W - 1)

(* a sched_task_t; callback and arg are fixed by the task's name *)
Task == [name : Names, interval : Clock, next : Clock, remaining : Int]

ASSUME FreeAssumption == Free \notin Task

VARIABLES
  tick,        (* claw_tick_ms()                                           *)
  tasks,       (* s_tasks, the cells in list order                         *)
  heap,        (* content of every cell                                    *)
  count,       (* s_task_count                                             *)
  svc,         (* "down" before sched_init and after sched_stop, "up",     *)
               (* "stopping" while sched_stop joins the thread             *)
  pc,          (* where the scheduler thread is                            *)
  now,         (* the thread's local: tick sampled once per pass           *)
  cur,         (* the callback in flight: its cell, name and whether the   *)
               (* thread frees the task afterwards                         *)
  ran,         (* history: names dispatched in the current pass            *)
  outOfRange   (* history: since the start a task was added with nothing   *)
               (* to run, or with an interval the signed comparison of     *)
               (* ticks cannot place; sched_add refuses neither            *)

vars == <<tick, tasks, heap, count, svc, pc, now, cur, ran, outOfRange>>

-----------------------------------------------------------------------------

(* mutant: the ticks compared as plain numbers                             *)
BeforeUnsigned(a, b) == a < b

(* (int32_t)(a - b) < 0 *)
Before(a, b) == (a - b) % W >= W \div 2

IsDue(t) == ~Before(now, t.next)

Listed == ToSet(tasks)
Live   == {c \in Listed : heap[c].remaining # 0}
Idle   == [cell |-> Free, name |-> Free, last |-> FALSE]

(* mutant: find_task passes over tasks with a finite count                 *)
FindTaskEndless(n) == {c \in Listed : heap[c].name = n /\ heap[c].remaining < 0}

(* find_task: does the list hold a task of this name? *)
FindTask(n) == {c \in Listed : heap[c].name = n}

(* insert_sorted: k is where a task with this run time goes in list s *)
SortedPos(s, k, next) ==
  /\ \A i \in 1..(k - 1) : ~Before(next, heap[s[i]].next)
  /\ k <= Len(s) => Before(next, heap[s[k]].next)

(* mutant: insert_sorted puts the task at the head                         *)
InsertFirst(s, c, next) == tasks' = <<c>> \o s

InsertSorted(s, c, next) ==
  \E k \in 1..(Len(s) + 1) :
    /\ SortedPos(s, k, next)
    /\ tasks' = InsertAt(s, k, c)

-----------------------------------------------------------------------------
(* The service *)

Init ==
  /\ tick \in Clock
  /\ tasks = <<>>
  /\ heap = [c \in Cells |-> Free]
  /\ count = 0
  /\ svc = "down"
  /\ pc = "none"
  /\ now = 0
  /\ cur = Idle
  /\ ran = {}
  /\ outOfRange = FALSE

(* A failed mutex or thread creation leaves the service down. *)
SchedInit ==
  /\ svc = "down"
  /\ svc' = "up"
  /\ pc' = "head"
  /\ count' = 0
  /\ UNCHANGED <<tick, tasks, heap, now, cur, ran, outOfRange>>

(* sched_stop sets the exit flag and joins the thread ... *)
SchedStopBegin ==
  /\ svc = "up"
  /\ svc' = "stopping"
  /\ UNCHANGED <<tick, tasks, heap, count, pc, now, cur, ran, outOfRange>>

(* ... and only then frees what is left of the list. *)
SchedStopEnd ==
  /\ svc = "stopping"
  /\ pc = "exited"
  /\ tasks' = <<>>
  /\ heap' = [c \in Cells |-> IF c \in Listed THEN Free ELSE heap[c]]
  /\ count' = 0
  /\ svc' = "down"
  /\ pc' = "none"
  /\ outOfRange' = FALSE
  /\ UNCHANGED <<tick, now, cur, ran>>

-----------------------------------------------------------------------------
(* The API.  The dependency order of the services keeps callers inside the *)
(* life of s_lock (ServiceCore).  Calls that are refused change nothing.   *)

(* mutant: the sum is not a uint32_t                                       *)
NewTaskWide(n, interval, cnt) ==
  [name |-> n, interval |-> interval, next |-> tick + interval, remaining |-> cnt]

NewTask(n, interval, cnt) ==
  [name |-> n, interval |-> interval,
   next |-> (tick + interval) % W, remaining |-> cnt]

SchedAdd(n, interval, cnt) ==
  /\ svc # "down"
  /\ interval # 0
  /\ FindTask(n) = {}
  /\ count < MaxTasks
  /\ \E c \in Cells :
       /\ heap[c] = Free
       /\ heap' = [heap EXCEPT ![c] = NewTask(n, interval, cnt)]
       /\ InsertSorted(tasks, c, (tick + interval) % W)
  /\ count' = count + 1
  /\ outOfRange' = (outOfRange \/ cnt = 0 \/ interval + MaxLate >= W \div 2)
  /\ UNCHANGED <<tick, svc, pc, now, cur, ran>>

SchedRemove(n) ==
  /\ svc # "down"
  /\ \E i \in DOMAIN tasks :
       /\ heap[tasks[i]].name = n
       /\ tasks' = RemoveAt(tasks, i)
       /\ heap' = [heap EXCEPT ![tasks[i]] = Free]
  /\ count' = count - 1
  /\ UNCHANGED <<tick, svc, pc, now, cur, ran, outOfRange>>

-----------------------------------------------------------------------------
(* The thread *)

(* mutant: the loop does not ask claw_thread_should_exit                   *)
LoopHeadDeaf ==
  /\ pc = "head"
  /\ pc' = "sleep"
  /\ UNCHANGED <<tick, tasks, heap, count, svc, now, cur, ran, outOfRange>>

(* while (!claw_thread_should_exit()) *)
LoopHead ==
  /\ pc = "head"
  /\ pc' = IF svc = "stopping" THEN "exited" ELSE "sleep"
  /\ UNCHANGED <<tick, tasks, heap, count, svc, now, cur, ran, outOfRange>>

(* The delay is over, or cut short by the exit flag: a pass starts. *)
Wake ==
  /\ pc = "sleep"
  /\ pc' = "scan"
  /\ now' = tick
  /\ UNCHANGED <<tick, tasks, heap, count, svc, cur, ran, outOfRange>>

(* The scan skips tasks with remaining = 0, so it judges the first live one *)
FirstLive(i) ==
  /\ heap[tasks[i]].remaining # 0
  /\ \A j \in 1..(i - 1) : heap[tasks[j]].remaining = 0

(* mutant: the unlinked task is still counted                              *)
DispatchLastCounted(i) ==
  LET c == tasks[i]
  IN  /\ heap[c].remaining = 1
      /\ heap' = [heap EXCEPT ![c].next = (now + heap[c].interval) % W,
                              ![c].remaining = 0]
      /\ tasks' = RemoveAt(tasks, i)
      /\ UNCHANGED count
      /\ cur' = [cell |-> c, name |-> heap[c].name, last |-> TRUE]

(* The task is due for the last time: unlink it, run it, free it. *)
DispatchLast(i) ==
  LET c == tasks[i]
  IN  /\ heap[c].remaining = 1
      /\ heap' = [heap EXCEPT ![c].next = (now + heap[c].interval) % W,
                              ![c].remaining = 0]
      /\ tasks' = RemoveAt(tasks, i)
      /\ count' = count - 1
      /\ cur' = [cell |-> c, name |-> heap[c].name, last |-> TRUE]

(* mutant: next_run_ms += interval_ms instead of now + interval_ms         *)
DispatchAgainCatchUp(i) ==
  LET c    == tasks[i]
      next == (heap[c].next + heap[c].interval) % W
  IN  /\ heap[c].remaining # 1
      /\ heap' = [heap EXCEPT ![c].next = next,
                              ![c].remaining = IF @ > 0 THEN @ - 1 ELSE @]
      /\ InsertSorted(RemoveAt(tasks, i), c, next)
      /\ cur' = [cell |-> c, name |-> heap[c].name, last |-> FALSE]
      /\ UNCHANGED count

(* The task is due and will run again: move it to its new place, run it. *)
DispatchAgain(i) ==
  LET c    == tasks[i]
      next == (now + heap[c].interval) % W
  IN  /\ heap[c].remaining # 1
      /\ heap' = [heap EXCEPT ![c].next = next,
                              ![c].remaining = IF @ > 0 THEN @ - 1 ELSE @]
      /\ InsertSorted(RemoveAt(tasks, i), c, next)
      /\ cur' = [cell |-> c, name |-> heap[c].name, last |-> FALSE]
      /\ UNCHANGED count

Dispatch ==
  /\ pc = "scan"
  /\ \E i \in DOMAIN tasks :
       /\ FirstLive(i)
       /\ IsDue(heap[tasks[i]])
       /\ DispatchLast(i) \/ DispatchAgain(i)
       /\ ran' = ran \cup {heap[tasks[i]].name}
  /\ pc' = "callback"
  /\ UNCHANGED <<tick, svc, now, outOfRange>>

(* mutant: a task that has run for the last time is not freed              *)
CallbackReturnLeak ==
  /\ pc = "callback"
  /\ cur' = Idle
  /\ pc' = "scan"
  /\ UNCHANGED <<tick, tasks, heap, count, svc, now, ran, outOfRange>>

(* The callback returns; the thread frees a finished task and rescans. *)
CallbackReturn ==
  /\ pc = "callback"
  /\ heap' = IF cur.last THEN [heap EXCEPT ![cur.cell] = Free] ELSE heap
  /\ cur' = Idle
  /\ pc' = "scan"
  /\ UNCHANGED <<tick, tasks, count, svc, now, ran, outOfRange>>

(* No task, or the first live one is not due: the pass is over, and with   *)
(* it the life of its local `now`.                                         *)
PassEnd ==
  /\ pc = "scan"
  /\ \A i \in DOMAIN tasks : FirstLive(i) => ~IsDue(heap[tasks[i]])
  /\ pc' = "head"
  /\ now' = 0
  /\ ran' = {}
  /\ UNCHANGED <<tick, tasks, heap, count, svc, cur, outOfRange>>

-----------------------------------------------------------------------------
(* The clock.  MaxLate is the environment's bound: neither a due task nor  *)
(* the `now` of a pass is ever further than that behind the clock.  In the *)
(* program it is the longest time callbacks can hold the thread, against   *)
(* W/2 ms = 24.8 days.  A task added out of range lifts the bound: it may  *)
(* be due for ever.                                                        *)

Punctual ==
  outOfRange \/
  /\ \A c \in Live : LET late == (tick - heap[c].next) % W
                     IN  late >= W \div 2 \/ late < MaxLate
  /\ pc \in {"scan", "callback"} => (tick - now) % W < MaxLate

Tick ==
  /\ Punctual
  /\ tick' = (tick + 1) % W
  /\ UNCHANGED <<tasks, heap, count, svc, pc, now, cur, ran, outOfRange>>

-----------------------------------------------------------------------------

Thread == LoopHead \/ Wake \/ Dispatch \/ CallbackReturn \/ PassEnd

Api ==
  \E n \in Names :
    \/ \E interval \in Intervals, cnt \in Counts : SchedAdd(n, interval, cnt)
    \/ SchedRemove(n)

Service == SchedInit \/ SchedStopBegin \/ SchedStopEnd

Next == Service \/ Api \/ Thread \/ Tick

Spec == Init /\ [][Next]_vars

(* The thread is scheduled, callbacks return, sched_stop's caller goes on  *)
(* and time passes; nobody has to add, remove or stop.                     *)
Fairness == WF_vars(Thread) /\ WF_vars(SchedStopEnd) /\ WF_vars(Tick)

FairSpec == Spec /\ Fairness

-----------------------------------------------------------------------------
(* Properties *)

Callback == [cell : Cells, name : Names, last : BOOLEAN]

TypeOK ==
  /\ tick \in Clock
  /\ tasks \in Seq(Cells)
  /\ heap \in [Cells -> Task \cup {Free}]
  /\ count \in Int
  /\ svc \in {"down", "up", "stopping"}
  /\ pc \in {"none", "head", "sleep", "scan", "callback", "exited"}
  /\ now \in Clock
  /\ cur \in Callback \cup {Idle}
  /\ ran \subseteq Names
  /\ outOfRange \in BOOLEAN

(* s_task_count, which sched_add tests against the limit and the tools     *)
(* report, is the length of the list in every state another thread can     *)
(* see, whatever the callbacks in flight add and remove; and the limit     *)
(* holds.                                                                  *)
CountIsLength == count = Len(tasks) /\ count <= MaxTasks

(* No task is leaked, freed twice or used after free: a cell is linked at  *)
(* most once, and the allocated cells are the linked ones plus the one     *)
(* whose last callback is running, which is not linked any more.           *)
Dying == IF cur.last THEN {cur.cell} ELSE {}

HeapExact ==
  /\ IsInjective(tasks)
  /\ Dying \cap Listed = {}
  /\ {c \in Cells : heap[c] # Free} = Listed \cup Dying

(* Two listed tasks never share a name, so sched_remove removes the task   *)
(* the caller means.                                                       *)
UniqueNames ==
  \A c, d \in Listed : heap[c].name = heap[d].name => c = d

(* The strengthening that makes the three invariants inductive: a dying    *)
(* task exists only while its callback runs, so no dispatch overwrites the *)
(* record of it; and a scheduler that is down has no thread and no task,   *)
(* so the reset of s_task_count in sched_init forgets nothing.             *)
CallbackOwnsDying == cur.last => pc = "callback"
DownIsEmpty       == svc = "down" => pc = "none" /\ tasks = <<>>

(* List, counter, names and heap are consistent whatever the callbacks add *)
(* and remove.                                                             *)
ListInv ==
  /\ TypeOK
  /\ CountIsLength
  /\ HeapExact
  /\ UniqueNames
  /\ CallbackOwnsDying
  /\ DownIsEmpty

(* How far a time is ahead of the earliest there can be, MaxLate ago.      *)
Lead(t, x) == (x - t + MaxLate) % W

NextLead(c) == Lead(tick, heap[c].next)
Passing     == pc \in {"scan", "callback"}

SortedByLead ==
  \A i, j \in DOMAIN tasks : i < j => NextLead(tasks[i]) <= NextLead(tasks[j])

ListedRunnable ==
  \A c \in Listed :
    /\ heap[c].remaining # 0 /\ heap[c].interval # 0
    /\ heap[c].interval + MaxLate < W \div 2
    /\ NextLead(c) < W \div 2

RanIsAhead ==
  IF Passing
  THEN /\ Lead(tick, now) <= MaxLate
       /\ \A c \in Listed :
            heap[c].name \in ran => Lead(tick, now) < NextLead(c)
  ELSE ran = {}

InOrder == SortedByLead /\ ListedRunnable /\ RanIsAhead

(* Unless a task was added out of range, the list is sorted by what is     *)
(* left to the run times, also when the clock has wrapped between two of   *)
(* them, and a task that the current pass has run is ahead of the time the *)
(* pass judges by.                                                         *)
SortedInv ==
  /\ ~Passing => ran = {}
  /\ ~outOfRange => InOrder

(* The inductive invariant: the list is consistent, and in order.          *)
SchedInv == ListInv /\ SortedInv

(* "sorted: no more tasks due" (the break in the scan): a pass that ends   *)
(* leaves no live task whose time had come, in the half of the clock's     *)
(* range before the moment the pass judged by, if no task was added out of *)
(* range.                                                                  *)
PassLeavesNothingDue ==
  [][pc = "scan" /\ pc' = "head" /\ ~outOfRange =>
       \A c \in Live : (now - heap[c].next) % W >= W \div 2]_vars

(* One pass dispatches a task at most once, if no task was added out of    *)
(* range: rescanning from the head after every callback ends although      *)
(* `now` is not sampled again.                                             *)
OncePerPass ==
  [][pc = "scan" /\ pc' = "callback" /\ ~outOfRange => cur'.name \notin ran]_vars

(* Every task that still has runs to make is run or removed: no task is    *)
(* starved by others with shorter intervals, nor lost when the clock       *)
(* wraps, if no task is added out of range.                                *)
TaskRuns ==
  \A n \in Names :
    (\E c \in Live : heap[c].name = n)
      ~> (cur.name = n \/ outOfRange \/ ~\E c \in Live : heap[c].name = n)

(* sched_stop returns: the thread leaves its rescan loop and is joined.    *)
(* A task that is due for ever, added out of range, would keep it.         *)
StopReturns == svc = "stopping" ~> (svc = "down" \/ outOfRange)

(* The list, the clock and the heap implement the set of tasks that users  *)
(* of the scheduler rely on.                                               *)
Abstract ==
  INSTANCE TaskSet WITH
    Args    <- Names,
    NoCall  <- Free,
    active  <- {[name |-> heap[c].name, arg |-> heap[c].name,
                 left |-> heap[c].remaining] : c \in Listed},
    calling <- IF pc = "callback" THEN [name |-> cur.name, arg |-> cur.name] ELSE Free

Refined == Abstract!Spec

=============================================================================
