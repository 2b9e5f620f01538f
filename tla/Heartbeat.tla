----------------------------- MODULE Heartbeat -----------------------------
(***************************************************************************)
(* The periodic AI check-in of claw/services/heartbeat.c.  Three kinds of  *)
(* threads meet in it: the scheduler thread runs heartbeat_tick, which     *)
(* reclaims the previous worker thread and creates the next one; the       *)
(* worker (AI summary or ping) empties the event buffer and clears s_busy; *)
(* and the thread that shuts the system down runs heartbeat_stop.          *)
(*                                                                         *)
(* The scheduler is used through what Sched promises: a registered task is *)
(* dispatched again and again, one callback at a time, and sched_remove    *)
(* returns without waiting for a callback in flight.  The AI engine is     *)
(* used through what AiRequests shows of it: while it serves, every call   *)
(* ends; a request that nobody is left to serve keeps its caller for ever. *)
(***************************************************************************)
EXTENDS Integers, Sequences, FiniteSets, SequencesExt

CONSTANTS
  Events,      (* bound: events posted in one behaviour, each once         *)
  Handles,     (* addresses claw_thread_create can return                  *)
  MaxEvents,   (* CLAW_HEARTBEAT_MAX_EVENTS                                *)
  None         (* the NULL thread handle                                   *)

ASSUME BufferAssumption == MaxEvents \in Nat \ {0}
ASSUME HandleAssumption == None \notin Handles

VARIABLES
  events,      (* s_events[0 .. s_event_count - 1]                         *)
  busy,        (* s_busy                                                   *)
  last,        (* s_last_worker                                            *)
  llm,         (* s_llm_state: -1 unknown, 0 offline, 1 online             *)
  registered,  (* "heartbeat" is in the scheduler's list                   *)
  thread,      (* every thread handle: [pc, prompt]                        *)
  tick,        (* the scheduler thread inside heartbeat_tick: [pc, handle] *)
  stop,        (* the caller of heartbeat_init and heartbeat_stop          *)
  engine,      (* the AI engine: "serves", "broken" when its init failed,  *)
               (* "stopped"                                                *)
  dropped, reported, lost,  (* history: what became of posted events       *)
  told         (* history: last LLM state the user was told                *)

vars == <<events, busy, last, llm, registered, thread, tick, stop, engine,
          dropped, reported, lost, told>>

history == <<dropped, reported, lost, told>>

-----------------------------------------------------------------------------

Buffered   == ToSet(events)
InPrompt   == UNION {thread[h].prompt : h \in Handles}
Posted     == Buffered \cup InPrompt \cup dropped \cup reported \cup lost
Unfinished == {h \in Handles : thread[h].pc \notin {"free", "done"}}
Working    == {h \in Unfinished : thread[h].pc # "exit"}

At(h, pc)  == thread[h].pc = pc
InCall(h)  == At(h, "chat") \/ At(h, "stranded")
Goto(h, pc) == thread' = [thread EXCEPT ![h].pc = pc]
TickGoto(pc, h) == tick' = [pc |-> pc, handle |-> h]
StopGoto(pc, h) == stop' = [pc |-> pc, handle |-> h]

Init ==
  /\ events = <<>>
  /\ busy = FALSE
  /\ last = None
  /\ llm = -1
  /\ registered = FALSE
  /\ thread = [h \in Handles |-> [pc |-> "free", prompt |-> {}]]
  /\ tick = [pc |-> "idle", handle |-> None]
  /\ stop = [pc |-> "down", handle |-> None]
  /\ engine \in {"serves", "broken"}
  /\ dropped = {} /\ reported = {} /\ lost = {}
  /\ told = -1

(* heartbeat_init; when sched_add fails the service is never stopped.      *)
HeartbeatInit ==
  /\ stop.pc = "down"
  /\ events' = <<>>
  /\ busy' = FALSE
  /\ \/ registered' = TRUE /\ StopGoto("up", None)
     \/ registered' = FALSE /\ StopGoto("failed", None)
  /\ UNCHANGED <<engine, last, llm, thread, tick, history>>

-----------------------------------------------------------------------------
(* heartbeat_post, called by the swarm and by the ping worker              *)

(* mutant: no test of the buffer's size                                    *)
BufferUnchecked(e) == events' = Append(events, e) /\ UNCHANGED dropped

Buffer(e) ==
  IF Len(events) < MaxEvents
  THEN events' = Append(events, e) /\ UNCHANGED dropped
  ELSE dropped' = dropped \cup {e} /\ UNCHANGED events

Post(e) ==
  /\ stop.pc # "down"
  /\ e \notin Posted
  /\ Buffer(e)
  /\ UNCHANGED <<engine, busy, last, llm, registered, thread, tick, stop,
                 reported, lost, told>>

-----------------------------------------------------------------------------
(* heartbeat_tick in the scheduler thread                                  *)

(* The scheduler releases its lock and calls; from here on a sched_remove  *)
(* no longer prevents the callback.                                        *)
TickCalled ==
  /\ tick.pc = "idle"
  /\ registered
  /\ TickGoto("enter", None)
  /\ UNCHANGED <<engine, events, busy, last, llm, registered, thread, stop, history>>

(* mutant: the worker is created without s_busy                            *)
ClaimUnset ==
  /\ TickGoto(IF events = <<>> THEN "createPing" ELSE "createAi", None)
  /\ UNCHANGED busy

(* s_busy is set under the lock, the thread is created after it.           *)
Claim ==
  /\ busy' = TRUE
  /\ TickGoto(IF events = <<>> THEN "createPing" ELSE "createAi", None)

(* mutant: a busy worker is reclaimed like an idle one                     *)
TickEnterBusy ==
  /\ tick.pc = "enter"
  /\ \/ last # None /\ TickGoto("reclaim", None) /\ UNCHANGED busy
     \/ last = None /\ Claim
  /\ UNCHANGED <<engine, events, last, llm, registered, thread, stop, history>>

(* mutant: the finished worker is never reclaimed                          *)
TickEnterLeak ==
  /\ tick.pc = "enter"
  /\ \/ busy /\ TickGoto("idle", None) /\ UNCHANGED busy
     \/ ~busy /\ Claim
  /\ UNCHANGED <<engine, events, last, llm, registered, thread, stop, history>>

TickEnter ==
  /\ tick.pc = "enter"
  /\ \/ busy /\ TickGoto("idle", None) /\ UNCHANGED busy
     \/ ~busy /\ last # None /\ TickGoto("reclaim", None) /\ UNCHANGED busy
     \/ ~busy /\ last = None /\ Claim
  /\ UNCHANGED <<engine, events, last, llm, registered, thread, stop, history>>

(* s_last_worker is read again, without the lock, as the argument.         *)
TickReclaim ==
  /\ tick.pc = "reclaim"
  /\ TickGoto("join", last)
  /\ UNCHANGED <<engine, events, busy, last, llm, registered, thread, stop, history>>

(* pthread_join, then free of the handle.  A handle someone else freed     *)
(* makes the join undefined; it is taken to return.                        *)
Join(h) ==
  /\ h # None => thread[h].pc \in {"done", "free"}
  /\ thread' = IF h = None THEN thread ELSE [thread EXCEPT ![h].pc = "free"]

TickJoin ==
  /\ tick.pc = "join"
  /\ Join(tick.handle)
  /\ TickGoto("forget", None)
  /\ UNCHANGED <<engine, events, busy, last, llm, registered, stop, history>>

(* s_last_worker = NULL *)
TickForget ==
  /\ tick.pc = "forget"
  /\ last' = None
  /\ TickGoto("claim", None)
  /\ UNCHANGED <<engine, events, busy, llm, registered, thread, stop, history>>

(* The lock is held again; s_busy is not looked at a second time.          *)
TickClaim ==
  /\ tick.pc = "claim"
  /\ Claim
  /\ UNCHANGED <<engine, events, last, llm, registered, thread, stop, history>>

FirstPc(kind) == IF kind = "createPing" THEN "health" ELSE "snapshot"

(* The new thread runs before its handle is stored.                        *)
TickCreate ==
  /\ tick.pc \in {"createPing", "createAi"}
  /\ \E h \in Handles :
       /\ At(h, "free")
       /\ Goto(h, FirstPc(tick.pc))
       /\ TickGoto("store", h)
  /\ UNCHANGED <<engine, events, busy, last, llm, registered, stop, history>>

TickStore ==
  /\ tick.pc = "store"
  /\ last' = tick.handle
  /\ TickGoto("idle", None)
  /\ UNCHANGED <<engine, events, busy, llm, registered, thread, stop, history>>

(* mutant: the failed creation leaves s_busy set                           *)
TickCreateFailsBusy ==
  /\ tick.pc \in {"createPing", "createAi"}
  /\ last' = None
  /\ TickGoto("idle", None)
  /\ UNCHANGED <<engine, events, busy, llm, registered, thread, stop, history>>

(* claw_thread_create returned NULL: s_last_worker = NULL, s_busy = 0.     *)
TickCreateFails ==
  /\ tick.pc \in {"createPing", "createAi"}
  /\ last' = None
  /\ busy' = FALSE
  /\ TickGoto("idle", None)
  /\ UNCHANGED <<engine, events, llm, registered, thread, stop, history>>

TickStep ==
  \/ TickEnter \/ TickReclaim \/ TickJoin \/ TickForget \/ TickClaim
  \/ TickCreate \/ TickStore \/ TickCreateFails

-----------------------------------------------------------------------------
(* The workers *)

(* build_prompt takes the events that fit its buffer, the first one always *)
(* (bound: any other number may fit); the rest is cut off with the count.  *)
TakePrompt(h) ==
  \E n \in 0..Len(events) :
    /\ events # <<>> => n > 0
    /\ thread' = [thread EXCEPT
                    ![h] = [pc |-> IF events = <<>> THEN "out" ELSE "chat",
                            prompt |-> ToSet(SubSeq(events, 1, n))]]
    /\ lost' = lost \cup ToSet(SubSeq(events, n + 1, Len(events)))

(* mutant: s_event_count is not reset after the prompt is built            *)
SnapshotKeeps(h) ==
  /\ At(h, "snapshot")
  /\ TakePrompt(h)
  /\ UNCHANGED <<engine, events, busy, last, llm, registered, tick, stop,
                 dropped, reported, told>>

(* heartbeat_ai_thread empties the buffer under the lock ...               *)
Snapshot(h) ==
  /\ At(h, "snapshot")
  /\ TakePrompt(h)
  /\ events' = <<>>
  /\ UNCHANGED <<engine, busy, last, llm, registered, tick, stop,
                 dropped, reported, told>>

(* ... unless malloc failed before.                                        *)
SnapshotFails(h) ==
  /\ At(h, "snapshot")
  /\ Goto(h, "out")
  /\ UNCHANGED <<engine, events, busy, last, llm, registered, tick, stop, history>>

(* ai_chat_raw and the delivery of its reply; without an engine the        *)
(* request is refused.                                                     *)
Chat(h) ==
  /\ At(h, "chat")
  /\ thread' = [thread EXCEPT ![h] = [pc |-> "out", prompt |-> {}]]
  /\ \/ /\ engine # "broken"
        /\ reported' = reported \cup thread[h].prompt
        /\ UNCHANGED lost
     \/ /\ lost' = lost \cup thread[h].prompt
        /\ UNCHANGED reported
  /\ UNCHANGED <<engine, events, busy, last, llm, registered, tick, stop, dropped, told>>

(* A request in a queue that no worker reads is never answered, and a      *)
(* heartbeat worker is not told to exit (claw_thread_delete comes after    *)
(* the wait for s_busy), so it stays in ai_chat_raw for ever: the engine   *)
(* failed to create its worker and left the queue behind ...               *)
Strand(h) ==
  /\ At(h, "chat")
  /\ engine = "broken"
  /\ Goto(h, "stranded")
  /\ UNCHANGED <<engine, events, busy, last, llm, registered, tick, stop, history>>

(* ... or claw_service_stop_all has stopped the engine before the          *)
(* heartbeat, the two being independent, with the request of the one       *)
(* worker there may be in the queue, or not.                               *)
EngineStops ==
  /\ engine = "serves"
  /\ stop.pc \in {"up", "stopped"}
  /\ engine' = "stopped"
  /\ \/ UNCHANGED thread
     \/ \E h \in Handles : At(h, "chat") /\ Goto(h, "stranded")
  /\ UNCHANGED <<events, busy, last, llm, registered, tick, stop, history>>

(* check_device_health posts an event when the heap is nearly used up.     *)
Health(h) ==
  /\ At(h, "health")
  /\ Goto(h, "ping")
  /\ \/ UNCHANGED <<events, dropped>>
     \/ \E e \in Events \ Posted : Buffer(e)
  /\ UNCHANGED <<engine, busy, last, llm, registered, tick, stop, reported, lost, told>>

(* mutant: only the loss of the LLM is reported, not its return            *)
PingOfflineOnly(h) ==
  /\ At(h, "ping")
  /\ \E ok \in {0, 1} :
       /\ llm' = ok
       /\ Goto(h, IF llm # ok /\ ok = 0 THEN "deliver" ELSE "out")
  /\ UNCHANGED <<engine, events, busy, last, registered, tick, stop, history>>

(* ai_ping and the state change ... *)
Ping(h) ==
  /\ At(h, "ping")
  /\ \E ok \in {0, 1} :
       /\ llm' = ok
       /\ Goto(h, IF llm # ok THEN "deliver" ELSE "out")
  /\ UNCHANGED <<engine, events, busy, last, registered, tick, stop, history>>

(* ... which the user is told about.                                       *)
Deliver(h) ==
  /\ At(h, "deliver")
  /\ Goto(h, "out")
  /\ told' = llm
  /\ UNCHANGED <<engine, events, busy, last, llm, registered, tick, stop,
                 dropped, reported, lost>>

(* mutant: the worker leaves with s_busy set                               *)
OutBusy(h) ==
  /\ At(h, "out")
  /\ Goto(h, "exit")
  /\ UNCHANGED <<engine, events, busy, last, llm, registered, tick, stop, history>>

(* s_busy = 0 is the last thing a worker does under the lock.              *)
Out(h) ==
  /\ At(h, "out")
  /\ Goto(h, "exit")
  /\ busy' = FALSE
  /\ UNCHANGED <<engine, events, last, llm, registered, tick, stop, history>>

Exit(h) ==
  /\ At(h, "exit")
  /\ Goto(h, "done")
  /\ UNCHANGED <<engine, events, busy, last, llm, registered, tick, stop, history>>

WorkerStep(h) ==
  \/ Snapshot(h) \/ SnapshotFails(h) \/ Chat(h) \/ Strand(h)
  \/ Health(h) \/ Ping(h) \/ Deliver(h)
  \/ Out(h) \/ Exit(h)

-----------------------------------------------------------------------------
(* heartbeat_stop *)

StopRemove ==
  /\ stop.pc = "up"
  /\ registered' = FALSE
  /\ StopGoto("wait", None)
  /\ UNCHANGED <<engine, events, busy, last, llm, thread, tick, history>>

(* "Wait for any in-flight callback to finish": while (s_busy)             *)
StopWaitEnds ==
  /\ stop.pc = "wait"
  /\ ~busy
  /\ StopGoto("join", last)
  /\ UNCHANGED <<engine, events, busy, last, llm, registered, thread, tick, history>>

(* The last worker is joined, s_last_worker and the two locks deleted.     *)
StopJoin ==
  /\ stop.pc = "join"
  /\ Join(stop.handle)
  /\ last' = IF stop.handle = None THEN last ELSE None
  /\ StopGoto("stopped", None)
  /\ UNCHANGED <<engine, events, busy, llm, registered, tick, history>>

StopStep == StopWaitEnds \/ StopJoin

-----------------------------------------------------------------------------

Next ==
  \/ HeartbeatInit
  \/ \E e \in Events : Post(e)
  \/ TickCalled \/ TickStep
  \/ \E h \in Handles : WorkerStep(h)
  \/ EngineStops
  \/ StopRemove \/ StopStep

Spec == Init /\ [][Next]_vars

(* The scheduler dispatches a registered task again and again (TaskRuns of *)
(* Sched); threads run, and the HTTP client's timeouts end every AI call   *)
(* that the engine serves.  A stranded worker has no step to be fair to.   *)
(* Nothing forces a post, a start or a stop.  Resources are not exhausted  *)
(* for ever: a creation that is retried succeeds at some time, and so does *)
(* the allocation of the prompt.                                           *)
Fairness ==
  /\ WF_vars(TickCalled) /\ WF_vars(TickStep) /\ SF_vars(TickCreate)
  /\ \A h \in Handles : WF_vars(WorkerStep(h)) /\ SF_vars(Snapshot(h))
  /\ WF_vars(StopStep)

FairSpec == Spec /\ Fairness

-----------------------------------------------------------------------------
(* Properties *)

WorkerPcs == {"free", "snapshot", "chat", "stranded", "health", "ping", "deliver",
              "out", "exit", "done"}

TypeOK ==
  /\ events \in Seq(Events) /\ Len(events) <= MaxEvents
  /\ busy \in BOOLEAN
  /\ last \in Handles \cup {None}
  /\ llm \in {-1, 0, 1}
  /\ registered \in BOOLEAN
  /\ thread \in [Handles -> [pc : WorkerPcs, prompt : SUBSET Events]]
  /\ tick \in [pc : {"idle", "enter", "reclaim", "join", "forget", "claim",
                     "createPing", "createAi", "store"},
               handle : Handles \cup {None}]
  /\ stop \in [pc : {"down", "up", "failed", "wait", "join", "stopped"},
               handle : Handles \cup {None}]
  /\ engine \in {"serves", "broken", "stopped"}
  /\ dropped \subseteq Events /\ reported \subseteq Events /\ lost \subseteq Events
  /\ told \in {-1, 0, 1}

(* s_busy serialises the workers: at most one works at any time, though it *)
(* is claimed before the thread exists and, after a reclaim, without a     *)
(* second look at it.  Two would both write s_llm_state and split the      *)
(* events between two summaries.                                           *)
OneWorker ==
  /\ \A g, h \in Working : g = h
  /\ Working # {} => busy

(* "must not block": as long as the service is not being stopped the       *)
(* scheduler thread only joins a thread that is past its last lock, so a   *)
(* slow AI call never delays the other scheduled tasks.                    *)
TickNeverBlocks ==
  tick.pc = "join" /\ stop.pc = "up" => tick.handle \notin Working

(* No thread handle is leaked or freed twice while the service runs: an    *)
(* allocated one is the one s_last_worker names, the one being stored, or  *)
(* the one being joined.                                                   *)
HandlesOwned ==
  stop.pc \in {"up", "wait"} =>
    /\ \A h \in Handles : thread[h].pc # "free" => h \in {last, tick.handle}
    /\ tick.pc = "join" => tick.handle # None /\ thread[tick.handle].pc # "free"

(* An event that was posted is in exactly one place: still buffered, in    *)
(* the prompt of one worker, dropped by a full buffer, reported, or lost   *)
(* with a prompt too long or an AI call that failed.  No event is          *)
(* summarised twice.                                                       *)
EventsAccounted ==
  /\ IsInjective(events)
  /\ \A h \in Handles : thread[h].prompt # {} => InCall(h)
  /\ Cardinality(Posted) = Len(events) + Cardinality(InPrompt)
       + Cardinality(dropped) + Cardinality(reported) + Cardinality(lost)

(* The strengthening that makes EventsAccounted inductive: the places are  *)
(* apart, so nothing is counted twice.                                     *)
PlacesApart ==
  /\ Buffered \cap (InPrompt \cup dropped \cup reported \cup lost) = {}
  /\ InPrompt \cap (dropped \cup reported \cup lost) = {}
  /\ dropped \cap (reported \cup lost) = {}
  /\ reported \cap lost = {}

PlacesFinite ==
  /\ IsFiniteSet(InPrompt) /\ IsFiniteSet(dropped)
  /\ IsFiniteSet(reported) /\ IsFiniteSet(lost)

EventsInv == EventsAccounted /\ PlacesApart /\ PlacesFinite

(* What the user was last told about the LLM is what heartbeat_llm_online  *)
(* answers, except while the notification is under way.                    *)
UserKnowsLlmState == (\E h \in Handles : At(h, "deliver")) \/ told = llm

(* "Wait for any in-flight callback to finish": when the wait is over no   *)
(* callback is in flight.  It may be (README, known deviations); no run    *)
(* checks this.                                                            *)
NoCallbackAfterWait == stop.pc = "join" => tick.pc = "idle"

(* A worker waits for an AI engine that will not answer.                   *)
Stranded == \E h \in Handles : At(h, "stranded")

(* The buffer does not stay full: a buffered event is taken by a worker,   *)
(* unless the service is stopped or its worker is stranded in a call of an *)
(* engine that failed to start or has been stopped.                        *)
EventsChecked ==
  \A e \in Events :
    (stop.pc = "up" /\ e \in Buffered)
      ~> (e \notin Buffered \/ stop.pc # "up" \/ Stranded)

(* heartbeat_stop returns, unless it waits for a worker that is stranded.  *)
StopReturns == stop.pc = "wait" ~> (stop.pc = "stopped" \/ Stranded)

(* The strengthening that makes OneWorker, TickNeverBlocks, HandlesOwned   *)
(* and UserKnowsLlmState inductive.  s_busy is claimed for one worker at a *)
(* time; while the tick reclaims, nobody else can claim it.                *)
Claimed    == tick.pc \in {"createPing", "createAi"}
Reclaiming == tick.pc \in {"reclaim", "join", "forget", "claim"}

BusyIsClaimed ==
  /\ Claimed => busy /\ Working = {}
  /\ Reclaiming => ~busy

(* Where the tick is says what s_last_worker and its own handle are.       *)
TickKnowsHandle ==
  stop.pc \in {"up", "wait"} =>
    /\ tick.handle # None <=> tick.pc \in {"join", "store"}
    /\ tick.pc \in {"reclaim", "join"} => last # None
    /\ tick.pc = "join" => tick.handle = last
    /\ tick.pc = "store" => ~At(tick.handle, "free")
    /\ tick.pc = "forget" => \A h \in Handles : At(h, "free")
    /\ Claimed \/ tick.pc \in {"claim", "store"} => last = None
    /\ last # None /\ tick.pc # "forget" => ~At(last, "free")

DownIsEmpty ==
  stop.pc = "down" =>
    /\ ~registered /\ last = None
    /\ tick = [pc |-> "idle", handle |-> None]
    /\ \A h \in Handles : At(h, "free")

(* The inductive invariant: one worker at most, which owns its handle, and *)
(* s_busy claimed before the thread exists.                                *)
HeartbeatInv ==
  /\ TypeOK
  /\ OneWorker
  /\ HandlesOwned
  /\ UserKnowsLlmState
  /\ BusyIsClaimed
  /\ TickKnowsHandle
  /\ DownIsEmpty

=============================================================================
