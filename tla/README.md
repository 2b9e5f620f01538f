# rt-claw in TLA+

This directory holds TLA+ models of rt-claw, the TLC configurations that check
them on small instances, and proofs, checked by TLAPS, that hold for every
value of the constants. It is written against the C sources under `src/`;
`PROJECT.json` maps every definition to the lines it models.

To check a run: `tlc -workers 2 -config MCSched.cfg MCSched.tla`.
To check proofs: `tlapm SchedProofs.tla`.

## 1. The system and its components

rt-claw is an AI assistant for embedded boards. A service core starts and stops
services in dependency order. A scheduler thread runs callbacks; IM services
(Telegram, Feishu), the shell, scheduled AI tasks and a periodic heartbeat are
*conversations* that queue requests to one AI worker thread; the AI may call
tools, some of them on other nodes of a UDP swarm.

```
 shell  telegram  feishu  tools/sched worker  heartbeat worker
    \       |        |          |                 |          ^
     +------+---- request queue (4) --------------+          | heartbeat_post
                     |                                       |
               AI worker thread --- tools --- swarm RPC === other nodes
                     |                 \                     |
              AI memory / KV        scheduler thread --> heartbeat_tick
```

| component | state | operations | hard behaviour | what makes it correct |
|---|---|---|---|---|
| **scheduler** `services/sched.c` | intrusive sorted list, count, lock | add, remove, the thread's scan, stop | lock released around callbacks that add and remove tasks (their own too); rescan with an old `now`; wrapping clock | no task lost, freed twice, run twice in a pass or starved; the stop returns |
| **heartbeat** `services/heartbeat.c` | event buffer, `s_busy`, `s_last_worker`, LLM state | tick, AI and ping workers, post, start, stop | lock dropped to join; flag claimed before the thread exists; stop against a tick in flight | one worker, a scheduler that is not blocked, no leaked thread, no event counted twice |
| **service core** `core/service.c` | registry, service states | register, topological sort, start all, stop all | failing inits and starts, cycles, missing dependencies, array limits | order respected both ways, truth of recorded states, termination |
| **swarm membership** `swarm/swarm.c` | node table, count | heartbeat received, timeout check, start, stop, node selection | clock read outside the lock, wrapping ages, reused slots | dead nodes leave in time, live ones do not; table and counter agree |
| **swarm RPC** `swarm/swarm.c` | sequence number, pending slot, semaphore | call with retries, execute, answer | lost, late, repeated, reordered answers; wrap of the sequence number | success means the answer to the own request; calls return |
| **AI engine queue** `ai/ai_engine.c` | queue, shared context, one request per client | submit and wait, worker, shutdown | unlocked context, requests on stacks, shutdown order | each waiting client has one request under way; shutdown ends |
| **AI conversation** `ai/ai_engine.c` | message list of one request | compress, ask, API calls with retries, tool rounds, answer | the memory is copied, and seconds later cleared and rewritten; another thread clears it at any moment | order within a channel, no cost to other channels, forgotten stays forgotten, an end |
| **AI memory** `ai/ai_memory.c`, **skills** `ai/ai_skill.c` | table of messages of all channels; facts and skills in RAM and in the KV store | add, drop a pair, clear; save, delete, load | a full table shared by all; count and blob written one after the other, by two threads, with failures and resets | limits and uniqueness; complete saves survive, torn ones cost little |
| **scheduled AI tasks** `tools/sched.c` | task slots, pending flags, semaphore, KV copy | schedule, remove, callback, worker, restore | slots and prompts shared without a lock; tokens against flags; restart | a waiting run is made, a task finds its slot, tasks survive |
| **gateway** `services/gateway.c` | queue, handlers, statistics | register, send, dispatch | a full queue | *not modelled* |
| **OTA** `ota/ota_service.c` | update state | check, trigger, worker | check then act | *not modelled* |
| **tool and driver core** `core/tool.c`, `core/driver.c` | registry, order of init | init/probe all, cleanup/remove all | one step of several failing | *not modelled* |
| **Telegram** `im/telegram.c` | offset, two queues, three threads | poll, queue, ask the AI, send in parts, stop | the server repeats what is not confirmed; answers that do not fit; full queues; resets | answered once and in order within a boot, nothing forgotten by the server too early, an orderly stop |
| **Feishu** `im/feishu.c` | token, connection, ring of event ids, two queues, three threads | connect, acknowledge, filter, the rest as Telegram | events repeated in any order, lost acknowledgements, eight places in the ring | recent duplicates told, acknowledged events looked at |
| **OSAL** | threads, queues, semaphores, timers | — | condition variables, timeouts | used as atomic operations |
| **drivers, boards, shell editing, network service** | — | — | pure I/O | not modelled |

`PROJECT.json` lists the hazards of each, at the line where they bite.

How the components interact: the scheduler calls `heartbeat_tick` and the
callback of scheduled AI tasks; the heartbeat worker and the task worker are
clients of the AI engine; the swarm posts join and leave events to the
heartbeat; the AI worker executes tools, which add and remove scheduler tasks
and make swarm calls; the service core decides in which order all of them stop.

## 2. Modules

| module | models | proofs |
|---|---|---|
| `TaskSet` | what the scheduler promises: a set of named tasks, without list, clock or heap | |
| `Sched` | the scheduler; it implements `TaskSet` | `SchedProofs` |
| `Heartbeat` | the heartbeat service, on a scheduler that dispatches its task again and again (what `Sched`'s `TaskRuns` shows) | `HeartbeatProofs` |
| `ServiceCore` | registration, sort, start and stop | `ServiceCoreProofs` |
| `SwarmNodes` | membership table, timeout check, node selection | `SwarmProofs` |
| `SwarmRpc` | one caller, one executing node, the network between | `SwarmProofs` |
| `AiRequests` | the request queue, its clients, its worker, and shutdown in the order `ServiceCore` gives | `AiProofs` |
| `AiMemory` | the short-term memory, as operators on the table of messages | `AiProofs` |
| `AiChat` | what the AI worker does for one request, on `AiMemory` | `AiProofs` |
| `AiStore` | long-term memory and skills, RAM and key-value store | `AiProofs` |
| `SchedTool` | the AI's scheduled tasks, on `TaskSet` | `SchedToolProofs` |
| `ImRelay` | what the two IM services have in common: queues, AI worker, sender, stop | `ImProofs` |
| `Telegram` | `ImRelay` behind the thread that polls the server | `ImProofs` |
| `Feishu` | `ImRelay` behind the thread that keeps a connection to the server | `ImProofs` |
| `SeqLemmas` | lemmas about sequences that the proofs share: elements, insertion, removal, order, counting, prefixes, least elements | |
| `MC...` | instances for TLC | |

Definitions marked "mutant" are variants of a definition with a plausible bug;
the model never uses them. Each checked property is known to fail when one of
them replaces the original (`PROJECT.json`, "mutants").

### Sched
A critical section under `s_lock` is one action, so the lock needs no variable.
`tasks` is the list in order, `heap` the content of every cell `malloc` can
return, so that leaks and double frees are visible. `Dispatch` is the scan up
to the unlock before a callback: it unlinks a task that runs for the last time
(`DispatchLast`) or moves it to its next place (`DispatchAgain`).
`CallbackReturn` is the relock, the free and the jump back to the head of the
list. While `pc = "callback"` any API call may happen, which covers calls by
other threads and by the callback itself. Ticks count modulo `W`; `Before` is
the signed 32-bit difference of the code. `sched_add` takes any count and any
interval; `outOfRange` is history: since the start a task was added with a count
of 0, or with an interval that, with the lag of the thread, reaches half the
clock range. What rests on the order of the list is stated until then.

### Heartbeat
One action per section between lock operations. `heartbeat_tick` is `TickEnter`
(busy, reclaim or claim), `TickReclaim`, `TickJoin`, `TickForget` and
`TickClaim` (the path that drops the lock), `TickCreate`, `TickStore` (the
thread exists before its handle is stored). A thread handle is an address with
the state of its thread; `Join` waits for the thread and frees the handle. What
becomes of every posted event is kept as history. The prompt may be too small
for all the events (`TakePrompt`); the first always fits. `engine` is what the
heartbeat knows of the AI engine. While it serves, a call ends (`Chat`). A call
of an engine whose init failed may wait in a queue that has no worker
(`Strand`), and at shutdown the engine is stopped while the heartbeat still runs
(`EngineStops`), possibly with the heartbeat's request in its queue; a worker
that is "stranded" in this way has no further step.

### ServiceCore
The dependency graph is chosen in `Init` and never changes. `topo_sort` is a
loop of `SortVisit` steps (one service of one pass) ended by `SortCycle` or
`SortDone`; the two loops of `start_all` and the loop of `stop_all` take one
service per step, and a service's `init` or `start` may fail. `alive` is
history: what a successful init acquired and nobody released. `leftover` is what
failed inits acquired and kept (`RunInit`): the core marks such a service
STOPPED, never calls its `stop`, and cannot tell it from one that holds nothing.

### SwarmNodes
`Receive(p)` is a heartbeat of any peer at any moment. `SampleClock` and
`CheckTimeouts` are the two halves of `check_timeouts`, before and under the
lock. `silence` is history: the true time since a peer was last heard.
`FindBestNode` is the loop of `find_best_node` as a recursive function (`Best`)
over the slots; loads are a constant of the peer.

### SwarmRpc
`Call`, `Prepare`, `Transmit`, `Take` or `WaitTimesOut`, `BackoffEnds`, `Return` are
the steps of `swarm_rpc_call`; `ReceiveAnswer` and `Execute` the receiver threads of
the two nodes. The network is a set of datagrams that may be delivered at any
time, lost, or delivered once more. Time is not counted: a wait may end at any
moment at which the semaphore is zero.

### AiRequests
The clients differ in what they set (`Chats` a channel and a hint, `Shells` a
status callback, `Beats` nothing) and in what ends their wait (only the threads
that are being deleted see `claw_thread_should_exit`). `Begin`, `SetHint`,
`Snapshot`, `Send` are separate because the setters and the copy are separate
unlocked accesses. Everything the worker does for one request is one step,
`Chat`. The engine's init may have failed, before its queue was created or after
it, when there is no thread for the worker (`worker.pc` "noQueue" and "never").
The services that depend on the engine are then skipped, so there are no
`Chats`; the shell and the heartbeat call it all the same. `claw_service_stop_all`
passes such an engine over (`SkipEngine`).

### TaskSet
An abstract specification: `active` is the set of registered tasks with the
runs they have left, `calling` the callback in flight. `Sched` implements it
under the mapping `Abstract` (the listed cells, and `cur` while `pc` is
"callback"): a task that has been removed or has had its last run is never
called again, a callback is never called while another runs, and the runs are
counted exactly. `SchedTool` is written on it.

### SchedTool
`slot` is `s_ctx`; the scheduler is `TaskSet` with slots as arguments. The
callback is `HandOver` (under `s_worker_lock`) and `Give` (after it); the worker
is `Take`, one of the `Pick`s (under the lock) and `ChatEnds`. The AI thread and
the shell are two callers whose steps interleave: `Schedule`, `ScheduleAdd`, or
`RemoveTask`, `CtxFree`, and then `SaveCnt` and one `SaveTask` per slot.
`Reset` may fall between any two of these; `Restore` reads back one record at a
time while the scheduler thread already runs. Each write to the key-value store
may fail (`WriteFails`); the code does not look at the result, so the save goes
on with the old value in its place. `clean`, `torn` and `reused` are history:
they name the ways in which the code does go wrong (section 5), two callers at
once, a copy that no complete save made, and a slot reused with its flag, so
that the properties say what holds apart from them. `torn` is cleared by the
next save: it writes the count and every record.

### AiMemory and AiChat
Every function of `ai_memory.c` holds the lock throughout, so it is an operator
from the table before to the table after. `AiChat` is `do_chat`, `do_chat_raw`,
`try_compress_memory`, `ai_chat_with_messages` and `do_api_call` with one action
for each stretch between two calls to the network or to the memory. The shell's
`/clear` may come between any two. A message has a number, a role and whether it
is a summary; what it says is left out. An API call ends as a transient failure
(`Transient`, retried), refusal, answer or tool calls, of which `clear_history`
matters to the memory.

### AiStore
The two persisted tables have the same scheme, so they are two values of one
variable: `Change` in RAM, then `SetCnt`, then `SetData`, each of which may fail,
with `Restart` between any two. `backend` is chosen in `Init`: a file is read as
far as the buffer goes, NVS refuses a buffer that is too small. `ltm_persist`
gives up after a failed count, `skill_persist` does not. Keys and names are
stored cut to their field (`Cut`) and compared in full (`Has`), so one that is
too long is never found: a second save appends a second entry, a deletion finds
none. `Shortened` are the keys that longer ones are cut to.

### ImRelay, Telegram, Feishu
`ImRelay` has no specification of its own; `Telegram` and `Feishu` extend it
with a front thread, an external server and a reset. Receiving from a queue,
asking the AI and sending one part are steps of their own; a thread tests its
exit flag where the code does (`Loop`), and `stop` is the thread that
`claw_thread_delete` waits for (on Linux it sets the flag and joins).
`ChunkEnd` is `im_find_chunk_end`, on the positions of line ends. In `Telegram`
the server keeps all updates after the confirmed one; `Poll` brings all of them
or, when they do not fit the buffer, nothing. In `Feishu` the server sends any
unacknowledged event at any time; `Acknowledge` and `Process` are two steps, in
this order, as in the code.

## 3. Runs, bounds and fairness

Eleven runs show properties that hold, one shows that the code does something a
comment excludes. The composite invariants (`SchedInv`, `ServiceInv` and so on)
are conjunctions of named parts, each with a comment of its own.

| run | instance | what it shows |
|---|---|---|
| `sched` | 2 names, 2 cells, intervals 0, 1 and 2, counts -1, 1 and 2, `W = 8` | `SchedInv`: list, counter, heap, names, and the order of the list across wraps of the clock; a pass leaves nothing due and runs nothing twice; every task is run or removed; the stop returns; `Refined`: all of it implements `TaskSet` |
| `heartbeat` | 3 events, a buffer of 2, 2 handles, an AI engine that serves, is broken or is stopped | `HeartbeatInv`: one worker, no leaked handle, the user knows the LLM state; no blocking join; `EventsInv`: every event in one place; the buffer is emptied, the stop returns, unless the worker is stranded in a call of the engine |
| `service_core` | every graph over 3 services, one service more than fits | `ServiceInv`: order and truth of states, and what failed inits keep; cycles reported exactly, initialisation after dependencies, termination |
| `swarm_nodes` | 3 peers, 3 slots, two capable peers with different loads, timeout, period and lag 1, `W = 6` | `NodesInv`: table and counter, slots, announcements; timely leave, selection |
| `swarm_rpc` | 3 attempts, `SeqW = 4`, one repeated datagram | `RpcInv`: own answer, bounded tokens; calls return |
| `ai_requests` | one conversation of each kind, queue of 2, an engine with a worker, without one, without a queue | `RequestsInv`: one request per waiting client; calls return (but for the queue without a worker), the engine stops |
| `ai_requests_hang` | one IM conversation and the heartbeat | violation: see 5 |
| `ai_chat` | 2 channels and raw requests, 5 requests, a table of 5, compression from 4, 2 rounds, 1 retry | `MemoryInv`: limit, order within a channel, of what the worker will still add and of the copy a compression takes; `OthersKept`, `ClearForgets`, `ChatEnds` |
| `ai_store` | 4 keys, one too long and cut to another, 3 facts, 2 values, 2 skills, one of 2 names too long, 4 changes, 2 resets, 1 failing write, files and NVS | `StoreInv`: limits, no key that fits twice; complete saves survive, a torn one on files costs one fact at most |
| `sched_tool` | 2 slots, a task for ever and one for once, 3 calls and failing writes together, 2 wake-ups, 1 reset | `TableInv`: slots, callers and the copy in flash; wake-ups for all that waits, every waiting run is made; tasks survive a reset unless a write of the last save failed |
| `telegram` | 4 updates (one no text, one long), queues of 2 and 1, buffer of 3, replies of up to 2 parts, 1 result of a scheduled task, 1 reset | `TelegramInv`: once and in order, confirmed only when taken, queues outlive threads, and what makes these inductive; updates are taken, the stop returns |
| `feishu` | 3 events, ring of 2, queues of 1, 2 token attempts, 1 loss, 1 reset | `FeishuInv`: the ring, acknowledged events, queues; every event is looked at |

Why the bounds are enough. In `sched` two cells make allocation fail and the
limit of the list be reached while a dying task still holds its cell; `W = 8` makes the clock wrap several
times in each behaviour; `MaxLate` bounds how far a pass falls behind the clock
(in the program: how long callbacks hold the thread, against 24.8 days); the
longest interval plus `MaxLate` stays below `W / 2`, as every interval and count
in the program does, those apart that the AI chooses for its tasks. Tasks out of
range are left to the proofs: with one in the list the lag has no bound, and the
instance has several million states. (`SchedInv` and `Refined` were checked with
such tasks once, without liveness: `W = 6`, intervals 1 and 3, counts -1 and 0,
1.5 million states.) In `heartbeat` two handles are what a tick needs to create a
worker while the stopping thread still joins another, and the third event meets
a buffer of two that is full. In `service_core` three services give every shape
of dependency (chain, fork, join, cycle, self-dependency). In `swarm_nodes` one
slot is the node's own, so two of the three peers fill the table, the third is
turned away, and slots are reused by other peers; `W = 6` is the smallest width
above the longest silence. In `swarm_rpc`
`SeqW = 4` is the smallest that exceeds the attempts of one call, so sequence
numbers come round during the next; `MaxTokens` is above every count that is
reached, and `MaxRepeats` bounds duplicates. A datagram is assumed lost by the
time its 16-bit number is reused. In `ai_requests` three clients fill a queue
of two. In `ai_chat` the table is full after five messages, compression starts
at four, as in the program at a fixed distance below the limit, and five
requests suffice for two channels to fill it, be compressed and be dropped from.
In `ai_store` two resets let a table be loaded torn, changed and saved again. In
`sched_tool` two wake-ups and two slots give a pending context, a flagged slot
and a third run that finds both; `MaxTokens` bounds how far the worker falls
behind, and `MaxCalls` counts failing writes too: with two calls one may fail, of
the count or of any record, and a later save may make the copy whole again.
In `telegram` the fourth update makes a backlog that does not fit, and
two queues of at most two are full while the worker and the sender hold a
message each. In `feishu` the third event pushes the first out of the ring.

`CHECK_DEADLOCK FALSE` is set where the system really ends: after a stop
(`Heartbeat`, `ServiceCore`, `AiRequests`, `Telegram`, `Feishu`, and
`SwarmNodes`, whose clock is only modelled while the service is up), and where
the bound on requests or calls ends the run (`AiChat`, `AiStore`, `SchedTool`).

Fairness. Threads that can run do run (weak fairness of each thread's steps):
the RTOS or Linux schedules them and no thread holds a lock across a wait. Time
passes (`Tick`). Callbacks end, and so do AI calls the engine serves, because the
HTTP client has timeouts. A call that nobody serves does not end: a stranded
heartbeat worker, and a client of a queue without a worker, have no step to be
fair to, and the properties name them. A heartbeat worker that is created again and again succeeds at some
time (strong fairness of `TickCreate` and of the allocation in `Snapshot`).
A scheduler callback that falls between the end of a run and the worker's next
look at `s_pending_ctx` overtakes the flagged slots; that window is a few
instructions wide and intervals are at least a second, so it is not hit every
time (strong fairness of `Take` and `PickPending` in `SchedTool`). In `Telegram`
polls do not fail for ever, in `Feishu` the connection comes about and the
server sends an unacknowledged event again and again (strong fairness of
`Acknowledge`, which a lost connection disables).
Nothing is assumed of users or of other nodes: no fairness on posts, adds,
removes, chats, stops, resets, deliveries or losses.

## 4. Proofs

TLAPS proves, for every value of the constants that meets the named assumptions:

**Scheduler** (`SchedProofs`). `Spec => []SchedInv`, in two layers.

*The list* (`SchedConsistent`: `ListInv`, and from it `TypeOK`, `CountIsLength`,
`HeapExact` and `UniqueNames`). None of these is inductive alone. `HeapExact`
says which cells are allocated: the listed ones and the *dying* one, whose last
callback runs. To know that no dispatch overwrites `cur` while it names a dying
task one needs `CallbackOwnsDying`; to know that the reset of the counter in
`sched_init` is right one needs `DownIsEmpty`. There is one lemma per action
(`AddInv`, `RemoveInv`, and so on) on top of what `SeqLemmas` says of `InsertAt`
and `RemoveAt`. Assumptions: the clock's width is more than 1 and its half more than
`MaxLate`, intervals fit the clock, counts are integers, the limit is a natural
number. Nothing is assumed of the number of cells or names, nor of what callers
ask for.

*The order* (`SchedSorted`: `SortedInv`). The code compares run times by the sign
of a 32-bit difference, which is no order on all times: three of them can go
round. `Lead` measures a time from the earliest there can be, `MaxLate` ticks
ago. As long as all leads are below half the range the signed comparison is the
plain one of leads (`LeadIs`, `BeforeIsLess`, `LeadAdd`), so insertion keeps the
list ascending (`InsertAscending`), and a tick takes one off every lead
(`LeadTick`). That needs intervals which, with the lag, stay below half the range,
and no count of 0. `sched_add` enforces neither (section 5), so this is no
assumption of the theorems but part of the invariant: `SortedInv` says that the
list is in order as long as no such task was added since the start
(`outOfRange`). Every caller in the program keeps to the range, except for the
intervals and counts the AI chooses for its scheduled tasks. From `SortedInv`
follow the two action properties, with the same condition. `PassLeavesNothingDue`: the scan may stop at the first task
that is not due. `OncePerPass`: what a pass has run was put back at a time after
the `now` of the pass (`RanIsAhead`), so the rescan from the head does not meet
it again, although `now` is not sampled again and the callback adds and removes
tasks.

`SchedRefines` proves `Spec => Refined`: with `ListInv` to lean on, every step
of the list, the heap, the clock and the thread is a step of `TaskSet` or
changes nothing its users see. `UniqueNames` makes a removal by name the removal
of one task, and a dispatch the call of one; `HeapExact` is why freeing a task
after its last run takes none off the set; `DownIsEmpty` why a start is not
seen. So what `SchedTool` assumes of the scheduler by building on `TaskSet` is
proved of its code, for all constants (safety; that tasks do run is `TaskRuns`,
checked).

**Service core** (`ServiceCoreProofs`). `Spec => []ServiceInv`, for every set of
services, every graph and any failures, with `SortedRespectsDeps`,
`StopAfterDependents` and `StateIsTruth` among its parts; and the action
properties `CycleIsReal` and `InitAfterDeps`. The loops contribute what their
counters have passed (`InitReached`, `StopReached`, `PassFruitless`). The hard
part is the second sort: `stop_all` sorts again, with whatever is alive by then,
and would stop nothing if that sort failed. `AliveOrderable` says that it cannot
fail: as long as something is alive the graph has an order. A fruitless pass
over a graph that has an order is a contradiction, since the least position in
that order that was not placed has all its dependencies placed (`LeastElement`).
The same argument, read the other way, is `CycleIsReal`. `StateIsTruth` is about
the services whose init succeeded; what failed inits kept (`leftover`) belongs
to services the core counts as stopped, and is all that is left after
`stop_all`.

**Swarm membership** (`SwarmProofs`). `Spec => []NodesInv`, and from it
`TypeOK`, `NodeCountExact`, `OneSlotPerNode`, `LeftIsTold`, `SilentNodesLeave`
and the action property `SilentOrRacedLeave`. The argument for the deadline:
while the service is up the modular age of a listed entry *is* the silence of
its peer (`SeenIsSilence`); a check leaves only entries whose age at the sampled
time is at most `Timeout`, hence at most `Timeout + MaxLate` now (`Judged`); until the
next check at most `Period` and twice the lag pass, which `SilenceInTime` counts
down with the timer. Because that sum is below `W` an age never wraps, so the
unsigned difference of the code is exact. The only modular reasoning is in
four small lemmas (`AgeIs`, `NextTick`, `AgeGrows`, `AgeBefore`). The same `Judged` lemma shows why
a node can be thrown out although it was heard: its entry is younger than the
sampled time. Assumptions: the ids are distinct, the table has a slot, the
timing constants are naturals with `Timeout + Period + 2 MaxLate + 1 < W`.

`LeastLoaded` (theorem `NodesLeastLoaded`) is about a loop. That the recursive
function `Best` exists is proved from the library's theorem about recursive
functions on the naturals; the loop invariant (what is chosen after `n` slots is
the least loaded candidate among them) then follows without an induction scheme:
a least `n` at which it fails would not be 0, and would hold at `n - 1`
(`LeastElement`). `OneSlotPerNode` makes the slot that is found the only one of
its node.

**Heartbeat** (`HeartbeatProofs`). `Spec => []HeartbeatInv`, and from it
`TypeOK`, `OneWorker`, `TickNeverBlocks`, `HandlesOwned` and
`UserKnowsLlmState`. `heartbeat_tick` tests `s_busy`, releases the lock to join
the last worker and claims `s_busy` without a second test; that this is right
rests on `BusyIsClaimed` (while the tick reclaims, `s_busy` is clear, because
only a tick sets it; once claimed, nobody works until the thread exists).
`TickKnowsHandle` says, for each place of the tick, what `s_last_worker` and the
handle in its hand are, and `DownIsEmpty` that nothing runs before
`heartbeat_init`. One lemma per action; those of the workers share `WorkerKeeps`
(a worker disturbs the claims only by ceasing to work). Assumptions: the buffer
has a place and NULL is no handle; nothing of the number of events or handles.

`HeartbeatEventsAccounted` proves `EventsInv`: posted events are in the buffer,
in one prompt, or counted as told, lost or dropped. Cardinalities add up only
while these places are apart (`PlacesApart`), and the prompts of two workers are
apart only because `OneWorker` leaves one of them empty; so the proof runs on
top of `HeartbeatInv`.

**Remote procedure call** (`SwarmProofs`). `RpcSpec => []RpcInv`, with `OkIsMine`
and `TokensBounded`, for any number of attempts, datagrams and repetitions.
A stale token in `rpc_sem` lets the caller read before its answer came; that
this never yields somebody else's result rests on `StoredIsMine` (a stored
success belongs to the request last prepared) and `SuccessIsExecuted`. The bound
on tokens is a credit argument: a request is worth one token while it is unsent,
under way, or its answer is, and repetitions add one each (`CreditBounded`);
sending a request while one stale token is left is why the bound is 2.

**AI request queue** (`AiProofs`). `Spec => []RequestsInv`: for any
number of conversations and any depth, as long as there is a queue
(`QueueExists`; it may have no worker) a client that
waits has exactly one request queued, in work or answered. Counting in the queue
uses `SeqLemmas` (`AppendOccurrences`, `TailOccurrences`). The invariant has to
speak of clients that do *not* wait: one that gave up at shutdown leaves its
request behind (`Abandoned`), which is harmless only because its thread is being
deleted and sends no other.

**Telegram** (`ImProofs`). `Spec => []TelegramInv`, for any updates, queue
depths, reply lengths and resets. Everything is measured by `Confirms`, what the
next request would confirm to the server. The batch in the poll thread's hand is
`Confirms + 1`, `Confirms + 2`, ... (`BatchFollows`), so a repeated answer cannot
bring anything twice; whatever is further on has a number of at most `Confirms`
(`ConfirmsWereTaken`). The six places a message can be in are stages with
descending numbers (`Apart`), and each action moves one message, the first of
its stage, one stage on or drops it (`Move`, `Shrink`). `GoneInOrder` is why the
queues outlive the threads. `ChunkIsPart`: a part of a reply is never empty,
never more than is left, and at most one character longer than the limit.

**Feishu** (`ImProofs`). `FsSpec => []FeishuInv`, for a ring of any size and any
number of events, losses and resets. The ring remembers an event
(`RingRemembers`) because it *is* the tail of the events taken (`RingIsTail`):
the slot `k` places behind the index holds the `k`-th last of them. Stated that
way, backwards from the index, taking an event moves every older one exactly one
place further back (`SlotsBehind`, `RingTakes`), and nothing has to be known of
how often the index has gone round. That an acknowledged event was looked at
(`AckedWereSeen`) needs `FrameInHand`: between the acknowledgement and the look
the event is in the hand of the front thread and nowhere else. The actions of
the worker, the sender and the stop are shared with Telegram; `RelayKeeps` says
once what they leave alone, and `GoneInOrder` is why the queues outlive the
threads here too.

**The stores** (`AiProofs`). `StoreSpec => []StoreInv`, and from it the action
properties `TablesSurvive` and `TornLosesAtMostOne`, for every size of the
tables, every number of changes, failures and resets, two threads and both
key-value stores. `Entries` says that no key that fits its field is twice in a
table, in RAM or in flash, and that no count a thread is about to write is above
the limit. `SavesComplete`: while no save is open and
none went wrong since the last start (`touched` is empty), count and blob belong
together, so a start would load the table as it is (`LoadComplete`). For the torn
save one has to say what two saves have in common: as long as only the entry of
one key has been changed, which no longer key is cut to (so that it has one
entry), the table in RAM, the table last saved and the table
in flash agree besides that entry (`OneChanged`, on the operator `Besides`). The
others are `n` facts among the first `n + 1` of the blob, and every count that
was ever written is at least `n`: so a start loads all of them but possibly the
last. That is also the bound, and `GetBlob` of the file is where it would break.
On NVS it does break (section 5), so the theorem is about files. Assumptions: the
bounds are naturals, "no value" differs from every value, and the two keys an
unwritten entry can show, zeros and what was on the stack, are no key of
anybody (`ai_memory.c:281` refuses the empty one). Nothing is assumed of how keys
are cut, but that a key gives a key.

**The conversation's memory** (`AiProofs`). `ChatSpec => []MemoryInv`,
`ChatSpec => []ClearForgets` and `ChatSpec => OthersKept`, for any channels and
requests, any table of at least two messages, any number of rounds and retries,
and `/clear` at any moment. That the messages of a channel stand in order
(`Ordered`) is inductive only together with what the worker will still add:
it belongs behind everything the channel has in the table (`NewestLast`). A
compression takes the channel's messages out and later puts back a summary and
the newest of them, or all of them when the call fails; for that, the copy is
itself in order, older than the question, and
no older than the last clear unless that came meanwhile (`CopyInOrder`), and it
fits where it came from (`CopyFits`). The last is why a compression costs no
other channel a message: while the copy is out only `/clear` touches the table,
and that makes it shorter. `ai_memory_clear_channel` and `ai_memory_build` are one loop,
`Kept`. The proofs need of it that it keeps the order (`Within`), that what it
keeps of a channel and of the others together is as long as the table, and that
taking out one channel leaves the others as they were. These three (`KeptRight`)
are about a recursive function and would take an induction; they are proved on
the shortest table for which they fail, which is empty or an `Append` to a
shorter one. That dropping a pair costs the other channels nothing is
`WithoutOthers`.
Assumptions: `MaxMsgs` is at least 2 (with less the loop of `ai_memory_add` would
not end), `CompressAt` is between 2 and `MaxMsgs`, there is at least one round,
and "no channel" is none.

**Scheduled AI tasks** (`SchedToolProofs`). `Spec => []TableInv`, `Spec =>
[]WorkHasToken`, and from the first `Spec => RestartKeepsTasks`, for any number
of slots, requests, calls, wake-ups and resets, on the abstract scheduler
`TaskSet`. As long as nothing raced (`clean`) one caller is at work at a time
(`OneCaller`), so a slot is filled before its task is registered and freed only
after the task is off the scheduler; that is what makes `TaskHasSlot`
inductive. The copy in the key-value store (`CopyKept`) is complete as long as,
besides, no write of the last save failed and no save was cut short (`torn`); it
is followed through the save: the slots behind the loop (`UsedBefore`) are in the first records, and
there are as many records as such slots, so the last step has written as many
as the count announced. During a restore each task that is owed is registered
already or is in a record still ahead. A record that is passed without
registering its task either finds the task registered or sets `torn`
(`RestoreInv`). `WorkHasToken` is a count: a step that adds a waiting run adds
a wake-up, a wake-up that is consumed puts the worker where it takes a run or
finds none (`QueueStep`, `OneMore`, `FewerWait`), and a callback in flight has
room for its wake-up (`CallbackHas`). Assumptions: there is a slot, counts are
integers, "none" is no slot, no task and no record.

Every inductive invariant was checked with TLC, on the instance of its run,
before it was proved; `PROJECT.json` names the theorem of each property.

Only model-checked: all liveness (`TaskRuns`, `StopReturns`, `EventsChecked`,
`CallReturns`, `CallsReturn`, `EngineStops`, `ChatEnds`, `NoRunWaitsForever`,
`UpdatesTaken`, `EventsSeen`), since the prover does not handle fairness and
`ENABLED`. Every safety property of a passing run is proved. What the models' functions
compute is proved only where an invariant needs it: a general induction over
sequences is out of the prover's reach, because it takes an operator as
parameter.

## 5. Known deviations: where code and documents disagree

Shown by a run:

* `ai_requests_hang`: the service order stops the AI engine before the
  heartbeat, whose worker then waits for ever, and with it `heartbeat_stop`
  (`ai_engine.c:978`, "so shutdown doesn't hang"; `heartbeat.c:306`).
  `Heartbeat!StopReturns` is what holds of `heartbeat_stop` nevertheless.

Stated in the modules as definitions that TLC refutes when they are added to
the configuration (`RequestsReachPort` with little-endian nodes), but part of no
run:

* `Heartbeat!NoCallbackAfterWait`: `heartbeat_stop` waits for `s_busy`, but a tick that the
  scheduler has called and that has not claimed yet, or that has not stored the
  handle of a worker that already finished, is still in flight after the wait
  (`heartbeat.c:305`, "Wait for any in-flight callback to finish").
* `SwarmNodes!OnlySilentNodesLeave`: a node heard between the sampling of the clock and the
  check is thrown out as "timed out", because the unsigned age wraps
  (`swarm.c:263`). `SilentOrRacedLeave` is what does hold, and it is proved.
* `SwarmRpc!RequestsReachPort`: the port is sent in host order and read with `ntohs`, so on
  little-endian nodes requests go to the wrong port (`swarm.c:247`, `:395`).
* `AiRequests!SnapshotIsMine`: the context copied into a request may be another
  conversation's (`ai_engine.c:1001`, against `docs/en/architecture.md:108`).
* `AiChat!ClearedStaysCleared`: `/clear` during a compression is undone, because
  the newer half and the summary are written back from the copy
  (`ai_engine.c:820`, against "Clear conversation" in `docs/en/usage.md:33`).
  `ClearForgets` is what does hold.

Met while modelling:

* `sched_add` accepts a count of 0; such a task is never run nor unlinked, and
  once its run time is half a clock range old it spoils the order of the list.
  Nor does it look at the size of the interval: from 2^31 ms on (24.8 days;
  `tools/sched` multiplies any number of seconds the AI asks for by 1000) the
  task counts as due at once, and again as soon as it has run, so a pass never
  ends and `sched_stop` may wait for ever. `PassLeavesNothingDue`, `OncePerPass`,
  `TaskRuns` and `StopReturns` hold until such a task is added (`outOfRange`);
  without that condition they fail.
* A failing `init` is followed by no `stop`, then or at shutdown (`service.c:213`).
  `ai_engine_init` then keeps its queue when there is no thread for the worker
  (`ai_engine.c:1111`), `heartbeat_init` its two mutexes when the scheduler has no
  slot (`heartbeat.c:290`).
* The queue without a worker still accepts four requests. Nobody serves them: the
  shell's chat, and the heartbeat worker, wait for ever (`ai_engine.c:978`), the
  latter with `s_busy` set, so no later tick does anything and `heartbeat_stop`
  never returns.
* A full event buffer drops the *newest* event; `heartbeat.h:28` says the oldest.
* The heartbeat's prompt may be too small for all events; the rest is lost.
* A node that comes back is not announced: its slot still holds `last_seen` of
  the earlier membership (`swarm.c:392`).
* A late answer leaves a token in `rpc_sem`; the next attempt may read before
  its own answer came and return `CLAW_ERROR` without waiting.
* A tool that is local-only on the executing node, and unknown to the asking
  one, is executed remotely (`swarm.c:315`, against `architecture.md:122`).
* Nodes of this firmware always report load 0 (`swarm.c:246`), so the
  least-loaded choice is the first capable node.
* A client that gives up at shutdown leaves its request, which lies on its
  stack, in the queue or with the worker (`ai_engine.c:979`).
* The start loop does not look at dependencies: a service is started although a
  dependency failed to start (`service.c:225`).
* Memory: with a limit of 1, which `meson_options.txt:45` allows, the loop of
  `ai_memory_add` never ends, since pairs are dropped (`MaxMsgsAssumption`
  leaves it out). A request that fails leaves its question behind, so the pair
  that is dropped need not be a question and its answer (`docs/en/usage.md:222`
  says it is). `clear_history` during a request leaves the answer as the first
  message. A memory cleared just before it is copied is "summarised" all the
  same.
* Keys of the long-term memory and names of skills are cut when stored
  (`ai_memory.c:299`, `ai_skill.c:153`) and compared in full (`ai_memory.c:286`,
  `ai_skill.c:147`): one of 32 or 24 characters and more that is saved twice is in
  the table twice, and cannot be loaded or deleted under its name.
* Long-term memory and skills: the tables have no lock; two threads that save at
  once can leave a count and entries that do not belong together. On NVS, a
  reset in the middle of a deletion makes the buffer smaller than the blob, NVS
  refuses it and *all* facts are lost. A reset in the middle of the creation of
  a skill loads one more skill from uninitialised memory (`ai_skill.c:78`).
  `tool_create_skill` reports success when nothing could be saved
  (`ai_skill.c:342`). `docs/en/usage.md` speaks of 16 skills, `SKILL_MAX` is 8.
* Scheduled tasks: a task that has had its last run keeps its slot and its
  record, so it comes back after a reboot with its full count
  (`docs/en/architecture.md:84` says removed). The pending flag of a freed slot
  resurfaces in the next task of the slot. The prompt is freed while the worker
  may be using it. Two threads that save at once spoil the copy. The result of
  every write of a save is ignored (`tools/sched.c:314`, `:339`): when one fails the
  tool reports success and a task is lost, or an old one comes back, at the next
  start. A restored
  task replies to whichever conversation is being served.
* Telegram: `telegram.c:11` says the update id "provides natural dedup"; the
  offset is in RAM, so an update answered but not confirmed before a reset is
  answered again (`AnsweredInOrder` is about one boot). An answer larger than
  the response buffer is cut, cannot be parsed and is asked for again for ever
  (`UpdatesTaken` excludes it by `Fits`). `tg_api_post` ignores its timeout
  (`telegram.c:109`); where the HTTP timeout is the 30 s of the long poll, an
  idle poll counts as a failure and backs off. An update that meets a full
  queue is dropped after the offset has passed it. A part of a reply may be one
  character longer than `TG_MAX_MSG_LEN` (`im_util.c:20`: the line end at
  `max_chunk` is included). The results of scheduled tasks may be enqueued after
  the queue is deleted, as the tools stop after the IM services; the model ends
  `ScheduledReply` with the queues.
* Feishu: an event is acknowledged before it is looked at, so a reset loses it
  (`cut` in `AckedWereSeen`) and a full queue drops it for good; a repetition of
  a dropped event is refused as a duplicate. A repetition is not recognised
  after eight other events unless it is stale. After 30 failed attempts to get
  a token the thread ends (`docs/en/usage.md:238` says the link is kept alive).
  A failed refresh of the token is not repeated for 90 minutes. On Linux a frame
  above 4096 bytes is handled in pieces and never acknowledged. The ring stores
  event ids cut to their field and compares them in full (`feishu.c:158`, `:162`),
  so a repetition of an event with a longer id would never be recognised; the
  ids of the model fit.

`swarm_rpc` is run with big-endian nodes: on little-endian ones no request
arrives, and its properties would hold for that reason alone.

## 6. Limits of the models, and what is not modelled

Names, messages and prompts are model values. Truncation is modelled for the keys
of `AiStore`, not for the names of scheduler tasks (`sched.c:200`, where 24
characters and more are cut in the same way). Tools other than `clear_history`, `schedule_task`, `remove_task`,
`create_skill` and `delete_skill` have no effect in the models. One swarm caller
and one executing node: the AI worker is the only caller in the program. Sends
and receives of the OSAL are atomic. Failed creations in `init` functions are
modelled in `ServiceCore` (an init fails, with or without something left),
`AiRequests` (no queue, or no worker) and `Heartbeat` (the task is not
registered); an init whose mutexes cannot be created releases them and is the
case without anything left. The IM threads are assumed to get the buffers they allocate
when they start. On ESP-IDF the frames of Feishu are handled in the task of the
websocket client, not in `feishu_thread` as on Linux and in the model. IM threads
end as on Linux, by flag and join; on FreeRTOS
`claw_thread_delete` ends a task wherever it is. `sched_tool_stop`,
`heartbeat_set_reply`, the reply destination of scheduled tasks and the swarm's
static capability table are left out. `AiRequests`, `AiChat` and the IM modules
meet at single steps (`Chat` in the first is the whole of the second;
`WorkerReply` in `ImRelay` is the return of `ai_chat`) and are checked
separately: their product is out of reach of TLC.

Not modelled: the gateway (a queue in front of a table of handlers, which in this
tree nobody changes while messages flow), OTA, the tool and driver core (sequential loops), the
network service, command tables and line editing of the shell, the OSAL as such,
the tools that only translate JSON to a call of the hardware, and the
code of boards and drivers (screens, fonts, images, network drivers), which is
most of the repository's lines and has no protocol of its own.

## 7. Plan

1. `sched_tool_stop` and the reply destination in `SchedTool`.
2. `Gateway`, `Ota`, `ToolCore` (tools and drivers), `OsalMq` (the Linux queue
   as the atomic queue the others assume).
