----------------------------- MODULE SchedTool -----------------------------
(***************************************************************************)
(* The AI's scheduled tasks (claw/services/tools/sched.c): a table of task *)
(* contexts, a scheduler callback that only queues work, one worker thread *)
(* that makes the AI calls, and a copy of the table in the key-value store *)
(* from which the tasks are restored after a reset.                        *)
(*                                                                         *)
(* Four threads meet: the scheduler thread in the callback, the worker,    *)
(* the AI thread executing the tools schedule_task and remove_task, and    *)
(* the shell executing "/task rm".  The table has no lock of its own;      *)
(* s_worker_lock protects only the hand-over to the worker.                *)
(* The scheduler is what TaskSet promises.                                 *)
(***************************************************************************)
EXTENDS Integers, FiniteSets, FiniteSetsExt

CONSTANTS
  Names,       (* task names                                               *)
  N,           (* SCHED_AI_MAX                                             *)
  Requests,    (* what the AI asks for: a set of [name, count]             *)
  None,        (* NULL                                                     *)
  MaxTokens,   (* bound: the worker is at most that many wake-ups behind   *)
  MaxCalls,    (* bound: calls of schedule_task and remove_task, together  *)
               (* with writes to the key-value store that fail             *)
  MaxResets    (* bound: resets in one behaviour                           *)

Slots  == 0..(N - 1)
Counts == {r.count : r \in Requests}

ASSUME SlotAssumption ==
  /\ N \in Nat \ {0} /\ MaxTokens \in Nat
  /\ Requests \subseteq [name : Names, count : Int]
  /\ None \notin Slots \cup [name : Names, arg : Slots] \cup [name : Names, count : Counts]

VARIABLES
  slot,        (* s_ctx: [name, used, pending, count]  *)
  active, calling,  (* the scheduler, see TaskSet; the argument is a slot  *)
  callback,    (* where the callback in flight is: "none", "lock", "give"  *)
  next,        (* s_pending_ctx                                            *)
  busy,        (* s_worker_busy                                            *)
  tokens,      (* the count of s_worker_sem                                *)
  rr,          (* s_rr_idx                                                 *)
  worker,      (* where the worker is: "take", "pick", "chat"              *)
  caller,      (* the AI thread and the shell: [pc, name, slot, i, saved]  *)
  kvCnt, kvTask,    (* the key-value store: "cnt" and "t0", "t1", ...      *)
  boot,        (* record to restore next; N once the system runs           *)
  calls, resets, failures,
  clean,       (* history: no two callers overlapped since the start       *)
  torn,        (* history: the copy is not what a save made alone and with *)
               (* every write done left, or it was not restored in full    *)
  reused,      (* history: a slot was allocated with its pending flag set  *)
  owed         (* history: tasks registered at the reset, not called since *)

queue  == <<callback, next, busy, tokens, rr, worker>>
store  == <<kvCnt, kvTask>>
sched  == <<active, calling>>
bounds == <<calls, resets, failures>>
history == <<clean, torn, reused, owed>>
vars   == <<slot, active, calling, callback, next, busy, tokens, rr, worker,
            caller, kvCnt, kvTask, boot, calls, resets, failures, clean, torn, reused, owed>>

Scheduler == INSTANCE TaskSet WITH Args <- Slots, NoCall <- None

Callers == {"ai", "shell"}
Rest    == [pc |-> "idle", name |-> None, slot |-> None, i |-> 0, saved |-> 0]
Empty   == [name |-> None, used |-> FALSE, pending |-> FALSE, count |-> 0]

Used    == {i \in Slots : slot[i].used}
Free    == Slots \ Used
Running == boot = N

Init ==
  /\ slot = [i \in Slots |-> Empty]
  /\ active = {} /\ calling = None
  /\ callback = "none" /\ next = None /\ busy = FALSE
  /\ tokens = 0 /\ rr = 0 /\ worker = "take"
  /\ caller = [c \in Callers |-> Rest]
  /\ kvCnt = 0 /\ kvTask = [i \in Slots |-> None]
  /\ boot = 0 /\ calls = 0 /\ resets = 0 /\ failures = 0
  /\ clean = TRUE /\ torn = FALSE /\ reused = FALSE /\ owed = {}

Goto(c, pc) == caller' = [caller EXCEPT ![c].pc = pc]

-----------------------------------------------------------------------------
(* tool_schedule_task, in the AI thread *)

(* mutant: any slot is taken, used or not                                  *)
AnySlot(i) == TRUE

(* ctx_alloc: the first slot not in use.  Its pending flag is left as it   *)
(* is.                                                                     *)
CtxAlloc(i) == i \in Free /\ \A j \in Free : i <= j

Begins(c) ==
  /\ Running
  /\ caller[c].pc = "idle"
  /\ calls + failures < MaxCalls /\ calls' = calls + 1
  /\ clean' = (clean /\ \A d \in Callers \ {c} : caller[d].pc = "idle")

(* The slot is allocated and filled in (name, prompt, count); a failed     *)
(* malloc of the prompt gives it back and is as if nothing had happened.   *)
Schedule(n, k) ==
  /\ Begins("ai")
  /\ \E i \in Slots :
       /\ CtxAlloc(i)
       /\ slot' = [slot EXCEPT ![i] = [name |-> n, used |-> TRUE,
                                       pending |-> @.pending, count |-> k]]
       /\ reused' = (reused \/ slot[i].pending)
       /\ caller' = [caller EXCEPT !["ai"] = [Rest EXCEPT !.pc = "add", !.name = n, !.slot = i]]
  /\ UNCHANGED <<active, calling, queue, store, boot, resets, failures, torn, owed>>

(* sched_add; the slot is given back when it is refused (a duplicate, the  *)
(* limit of the scheduler, no memory).                                     *)
ScheduleAdd ==
  LET a == caller["ai"]
  IN  /\ a.pc = "add"
      /\ \/ /\ Scheduler!Add(a.name, a.slot, slot[a.slot].count)
            /\ Goto("ai", "saveCnt")
            /\ UNCHANGED slot
         \/ /\ slot' = [slot EXCEPT ![a.slot].used = FALSE]
            /\ caller' = [caller EXCEPT !["ai"] = Rest]
            /\ UNCHANGED <<active, calling>>
      /\ UNCHANGED <<queue, store, boot, bounds, history>>

-----------------------------------------------------------------------------
(* tool_remove_task in the AI thread, sched_tool_remove_by_name in the     *)
(* shell                                                                   *)

RemoveTask(c, n) ==
  /\ Begins(c)
  /\ Scheduler!Remove(n)
  /\ caller' = [caller EXCEPT ![c] = [Rest EXCEPT !.pc = "free", !.name = n]]
  /\ owed' = owed \ {n}
  /\ UNCHANGED <<slot, queue, store, boot, resets, failures, torn, reused>>

(* ctx_free_by_name: the first slot in use of that name; its pending flag  *)
(* and s_pending_ctx are left as they are.                                 *)
CtxFree(c) ==
  LET named == {i \in Used : slot[i].name = caller[c].name}
  IN  /\ caller[c].pc = "free"
      /\ slot' = IF named = {} THEN slot
                 ELSE [slot EXCEPT ![Min(named)].used = FALSE]
      /\ Goto(c, "saveCnt")
      /\ UNCHANGED <<sched, queue, store, boot, bounds, history>>

-----------------------------------------------------------------------------
(* sched_nvs_save: the count, then one record for every slot in use.  The  *)
(* result of a write is not looked at: one that fails leaves the old value *)
(* and the save goes on.                                                   *)

WriteFails ==
  calls + failures < MaxCalls /\ failures' = failures + 1 /\ torn' = TRUE

SaveCnt(c) ==
  /\ caller[c].pc = "saveCnt"
  /\ \/ kvCnt' = Cardinality(Used) /\ torn' = FALSE /\ UNCHANGED failures
     \/ WriteFails /\ UNCHANGED kvCnt
  /\ Goto(c, "saveTask")
  /\ UNCHANGED <<slot, sched, queue, kvTask, boot, calls, resets, clean, reused, owed>>

(* mutant: records are written under the number of their slot              *)
RecordKeyOfSlot(c) == caller[c].i

(* idx: records are numbered without gaps                                  *)
RecordKey(c) == caller[c].saved

SaveTask(c) ==
  LET i == caller[c].i
  IN  /\ caller[c].pc = "saveTask" /\ i < N
      /\ IF slot[i].used
         THEN /\ \/ /\ kvTask' = [kvTask EXCEPT ![RecordKey(c)] =
                                    [name |-> slot[i].name, count |-> slot[i].count]]
                    /\ UNCHANGED <<failures, torn>>
                 \/ WriteFails /\ UNCHANGED kvTask
              /\ caller' = [caller EXCEPT ![c].i = i + 1, ![c].saved = @ + 1]
         ELSE /\ caller' = [caller EXCEPT ![c].i = i + 1]
              /\ UNCHANGED <<kvTask, failures, torn>>
      /\ UNCHANGED <<slot, sched, queue, kvCnt, boot, calls, resets, clean, reused, owed>>

SaveEnds(c) ==
  /\ caller[c].pc = "saveTask" /\ caller[c].i = N
  /\ caller' = [caller EXCEPT ![c] = Rest]
  /\ UNCHANGED <<slot, sched, queue, store, boot, bounds, history>>

CallerStep(c) == CtxFree(c) \/ SaveCnt(c) \/ SaveTask(c) \/ SaveEnds(c)

-----------------------------------------------------------------------------
(* sched_ai_callback, in the scheduler thread *)

SchedCall ==
  /\ tokens < MaxTokens
  /\ \E t \in active :
       /\ Scheduler!Call(t)
       /\ owed' = owed \ {t.name}
  /\ callback' = "lock"
  /\ UNCHANGED <<slot, next, busy, tokens, rr, worker, caller, store, boot, bounds,
                 clean, torn, reused>>

(* Under s_worker_lock: "Worker busy - mark pending instead of dropping."  *)
HandOver ==
  /\ callback = "lock"
  /\ IF busy \/ next # None
     THEN slot' = [slot EXCEPT ![calling.arg].pending = TRUE] /\ UNCHANGED next
     ELSE next' = calling.arg /\ UNCHANGED slot
  /\ callback' = "give"
  /\ UNCHANGED <<sched, busy, tokens, rr, worker, caller, store, boot, bounds, history>>

(* mutant: the semaphore is binary                                         *)
GiveBinary ==
  /\ callback = "give"
  /\ tokens' = 1
  /\ callback' = "none"
  /\ Scheduler!Return
  /\ UNCHANGED <<slot, next, busy, rr, worker, caller, store, boot, bounds, history>>

Give ==
  /\ callback = "give"
  /\ tokens' = tokens + 1
  /\ callback' = "none"
  /\ Scheduler!Return
  /\ UNCHANGED <<slot, next, busy, rr, worker, caller, store, boot, bounds, history>>

-----------------------------------------------------------------------------
(* ai_worker_thread *)

Take ==
  /\ worker = "take"
  /\ tokens > 0
  /\ tokens' = tokens - 1
  /\ worker' = "pick"
  /\ UNCHANGED <<slot, sched, callback, next, busy, rr, caller, store, boot, bounds, history>>

Waiting == {i \in Used : slot[i].pending}

(* mutant: the scan always starts with the first slot                      *)
DrainFirst(i) ==
  /\ i \in Waiting
  /\ \A j \in Waiting : i <= j
  /\ slot' = [slot EXCEPT ![i].pending = FALSE]
  /\ UNCHANGED rr

(* drain_pending: the waiting slot that comes first, counted from s_rr_idx *)
DrainPending(i) ==
  /\ i \in Waiting
  /\ \A j \in Waiting : (i - rr) % N <= (j - rr) % N
  /\ slot' = [slot EXCEPT ![i].pending = FALSE]
  /\ rr' = (i + 1) % N

(* s_pending_ctx first, else a flagged slot, else nothing.                 *)
PickNext ==
  /\ worker = "pick" /\ next # None
  /\ next' = None
  /\ busy' = TRUE
  /\ worker' = "chat"
  /\ UNCHANGED <<slot, sched, callback, tokens, rr, caller, store, boot, bounds, history>>

PickPending ==
  /\ worker = "pick" /\ next = None
  /\ \E i \in Slots : DrainPending(i)
  /\ busy' = TRUE
  /\ worker' = "chat"
  /\ UNCHANGED <<sched, callback, next, tokens, caller, store, boot, bounds, history>>

PickNothing ==
  /\ worker = "pick" /\ next = None /\ Waiting = {}
  /\ busy' = FALSE
  /\ worker' = "take"
  /\ UNCHANGED <<slot, sched, callback, next, tokens, rr, caller, store, boot, bounds, history>>

(* The AI call, its retry and the delivery of the result; or the buffer of *)
(* the reply could not be allocated and the run is dropped.                *)
ChatEnds ==
  /\ worker = "chat"
  /\ busy' = FALSE
  /\ worker' = "take"
  /\ UNCHANGED <<slot, sched, callback, next, tokens, rr, caller, store, boot, bounds, history>>

WorkerStep == Take \/ PickNext \/ PickPending \/ PickNothing \/ ChatEnds

-----------------------------------------------------------------------------
(* Reset and restart.  What is owed is what was registered, and what a     *)
(* restore cut short still owed.                                           *)

Reset ==
  /\ resets < MaxResets
  /\ resets' = resets + 1
  /\ slot' = [i \in Slots |-> Empty]
  /\ active' = {} /\ calling' = None
  /\ callback' = "none" /\ next' = None /\ busy' = FALSE
  /\ tokens' = 0 /\ rr' = 0 /\ worker' = "take"
  /\ caller' = [c \in Callers |-> Rest]
  /\ boot' = 0
  /\ clean' = TRUE
  /\ torn' = (torn \/ ~clean \/ \E c \in Callers : caller[c].pc # "idle")
  /\ owed' = Scheduler!Registered \cup (IF Running THEN {} ELSE owed)
  /\ reused' = FALSE
  /\ UNCHANGED <<store, calls, failures>>

(* sched_nvs_restore, one record; the scheduler thread already runs.       *)
Restore ==
  LET rec == kvTask[boot]
  IN  /\ ~Running /\ boot < kvCnt
      /\ \/ rec = None /\ boot' = boot + 1 /\ UNCHANGED <<slot, active, calling, torn>>
         \/ /\ rec # None
            /\ boot' = boot + 1
            /\ \E i \in Slots :
                 /\ CtxAlloc(i)
                 /\ \/ /\ Scheduler!Add(rec.name, i, rec.count)
                       /\ slot' = [slot EXCEPT ![i] = [Empty EXCEPT
                                     !.name = rec.name, !.used = TRUE,
                                     !.count = rec.count]]
                       /\ UNCHANGED torn
                    \/ (* sched_add refuses: a duplicate, or no memory *)
                       /\ slot' = [slot EXCEPT ![i] = [Empty EXCEPT
                                     !.name = rec.name, !.count = rec.count]]
                       /\ torn' = (torn \/ rec.name \notin Scheduler!Registered)
                       /\ UNCHANGED <<active, calling>>
         \/ (* a read fails, or there is no memory for a prompt *)
            /\ rec # None \/ boot = 0
            /\ boot' \in {boot + 1, N}
            /\ torn' = TRUE
            /\ UNCHANGED <<slot, active, calling>>
      /\ UNCHANGED <<queue, caller, store, bounds, clean, reused, owed>>

RestoreEnds ==
  /\ ~Running /\ boot >= kvCnt
  /\ boot' = N
  /\ UNCHANGED <<slot, sched, queue, caller, store, bounds, history>>

-----------------------------------------------------------------------------

Next ==
  \/ \E r \in Requests : Schedule(r.name, r.count)
  \/ ScheduleAdd
  \/ \E c \in Callers, n \in Names : RemoveTask(c, n)
  \/ \E c \in Callers : CallerStep(c)
  \/ SchedCall \/ HandOver \/ Give
  \/ WorkerStep
  \/ Reset \/ Restore \/ RestoreEnds

Spec == Init /\ [][Next]_vars

(* The threads run and AI calls end.  A callback that falls between the    *)
(* end of a run and the next look at s_pending_ctx overtakes the flagged   *)
(* slots; the window is a few instructions wide and intervals are at least *)
(* a second, so it is not hit every time.                                  *)
Fairness ==
  /\ WF_vars(HandOver \/ Give)
  /\ WF_vars(WorkerStep)
  /\ SF_vars(Take /\ next = None) /\ SF_vars(PickPending)

FairSpec == Spec /\ Fairness

-----------------------------------------------------------------------------
(* Properties *)

SlotType == [name : Names \cup {None}, used : BOOLEAN, pending : BOOLEAN,
             count : Counts \cup {0}]
CallerType == [pc : {"idle", "add", "free", "saveCnt", "saveTask"},
               name : Names \cup {None}, slot : Slots \cup {None},
               i : 0..N, saved : 0..N]

TypeOK ==
  /\ slot \in [Slots -> SlotType]
  /\ active \subseteq [name : Names, arg : Slots, left : Int]
  /\ calling \in [name : Names, arg : Slots] \cup {None}
  /\ callback \in {"none", "lock", "give"}
  /\ next \in Slots \cup {None} /\ busy \in BOOLEAN
  /\ tokens \in 0..MaxTokens /\ rr \in Slots /\ worker \in {"take", "pick", "chat"}
  /\ caller \in [Callers -> CallerType]
  /\ kvCnt \in 0..N /\ kvTask \in [Slots -> [name : Names, count : Counts] \cup {None}]
  /\ boot \in 0..N
  /\ clean \in BOOLEAN /\ torn \in BOOLEAN /\ reused \in BOOLEAN
  /\ owed \subseteq Names

(* A slot in use is filled in.                                             *)
Filled == \A i \in Used : slot[i].name \in Names /\ slot[i].count \in Counts

(* A caller at work has what it needs, even when the other one has freed   *)
(* its slot meanwhile.                                                     *)
CallerHas ==
  \A c \in Callers :
    LET a == caller[c]
    IN  /\ a.saved <= a.i /\ (a.pc # "saveTask" => a.i = 0 /\ a.saved = 0)
        /\ a.pc = "add" => /\ c = "ai" /\ a.name \in Names /\ a.slot \in Slots
                           /\ slot[a.slot].name = a.name /\ slot[a.slot].count \in Counts
        /\ a.pc # "idle" => Running

(* A callback has its task, and room for its wake-up.                      *)
CallbackHas ==
  /\ callback = "none" <=> calling = None
  /\ callback # "none" => tokens < MaxTokens

(* A registered task has a slot of its own that is in use and bears its    *)
(* name, so its callback finds its prompt, unless two threads changed the  *)
(* tasks at the same time.                                                 *)
TaskHasSlot ==
  clean =>
    /\ \A t \in active : slot[t.arg].used /\ slot[t.arg].name = t.name
    /\ \A t, u \in active : t.arg = u.arg => t = u

(* Why: one caller is at work at a time, and none before the restore has   *)
(* ended; a slot is filled in before its task is registered and freed      *)
(* after its task is off the scheduler.                                    *)
OneCaller ==
  /\ ~Running => clean
  /\ clean => \A c, d \in Callers : caller[c].pc # "idle" /\ caller[d].pc # "idle" => c = d
  /\ clean =>
       \A c \in Callers :
         LET a == caller[c]
         IN  /\ a.pc = "add"  => slot[a.slot].used /\ \A t \in active : t.arg # a.slot
             /\ a.pc = "free" => \A t \in active : t.name # a.name

(* The names of the slots in S are in the first n records.                 *)
Recorded(S, n) ==
  \A i \in S : \E k \in 0..(n - 1) :
    k \in Slots /\ kvTask[k] # None /\ kvTask[k].name = slot[i].name

UsedBefore(n) == {i \in Used : i < n}

(* The copy in the key-value store has every slot in use, but for the      *)
(* change a caller is about to save; while it saves, as many records as    *)
(* slots are behind it.  During the restore it has what is still owed.     *)
(* This is what a write that fails takes away, until a later save writes   *)
(* the count and every record.                                             *)
CopyKept ==
  clean /\ ~torn =>
    /\ (\A c \in Callers : caller[c].pc \in {"idle", "free"}) => Recorded(Used, kvCnt)
    /\ \A c \in Callers :
         LET a == caller[c]
         IN  /\ a.pc = "add" => Recorded(Used \ {a.slot}, kvCnt)
             /\ a.pc = "saveTask" => /\ kvCnt = Cardinality(Used)
                                     /\ a.saved = Cardinality(UsedBefore(a.i))
                                     /\ Recorded(UsedBefore(a.i), a.saved)
    /\ ~Running => \A n \in owed :
         \/ \E t \in active : t.name = n
         \/ \E k \in boot..(kvCnt - 1) : kvTask[k] # None /\ kvTask[k].name = n

(* The table has its shape and, as long as no two threads changed the      *)
(* tasks at once, serves every task the scheduler may call; with every     *)
(* write done, it is what the key-value store holds.                       *)
TableInv ==
  TypeOK /\ Filled /\ CallerHas /\ CallbackHas /\ TaskHasSlot /\ OneCaller /\ CopyKept

(* Every run that waits has a wake-up of the worker under way: flags, the  *)
(* pending context and the counting semaphore agree, as long as no slot    *)
(* was reused with its flag set.                                           *)
Work     == Cardinality(Waiting) + (IF next = None THEN 0 ELSE 1)
WakeUps  == tokens + (IF callback = "give" THEN 1 ELSE 0) + (IF worker = "pick" THEN 1 ELSE 0)

WorkHasToken == ~reused => Work <= WakeUps

(* "Persistent across reboots": after a reset the tasks that were          *)
(* registered are registered again, unless a write of the last save        *)
(* failed, the reset hit a save, two threads had changed the tasks at once *)
(* or the restore could not read a record, allocate or register.           *)
RestartKeepsTasks ==
  [][~Running /\ Running' /\ ~torn' => owed \subseteq {t.name : t \in active'}]_vars

(* "Mark pending instead of dropping": a run that waits is made or its     *)
(* task removed, as long as no slot was reused with its flag set.          *)
NoRunWaitsForever ==
  \A i \in Slots : (i \in Waiting /\ ~reused) ~> (i \notin Waiting \/ reused)

=============================================================================
