----------------------------- MODULE AiRequests -----------------------------
(***************************************************************************)
(* The request queue of the AI engine (claw/services/ai/ai_engine.c).      *)
(* Every conversation (the shell, the IM workers, the worker of scheduled  *)
(* AI tasks, the heartbeat worker) puts a request that lives on its own    *)
(* stack into a message queue, without waiting, and then waits on the      *)
(* semaphore in it; one AI worker thread serves the queue.  What a request *)
(* is about (channel, hint, status callback) is left by the conversation   *)
(* in the engine's context, and copied into the request.                   *)
(*                                                                         *)
(* At shutdown claw_service_stop_all stops the IM services and the tools   *)
(* first, then the AI engine, and the heartbeat, which does not depend on  *)
(* it, after that (the order ServiceCore gives for the program's           *)
(* dependencies).  The shell is the thread that shuts down.                *)
(*                                                                         *)
(* ai_engine_init can fail without a queue, or with a queue and no worker. *)
(* Then the services that depend on the engine (tools, skills, the IM      *)
(* services) are not started, the shell and the heartbeat are, and call a  *)
(* queue that nobody serves.                                               *)
(***************************************************************************)
EXTENDS Integers, Sequences, FiniteSets, SequencesExt

CONSTANTS
  Chats,       (* conversations with a channel: IM and scheduled tasks     *)
  Shells,      (* conversations with a status callback: the shell          *)
  Beats,       (* conversations with neither: the heartbeat worker         *)
  Depth,       (* CLAW_AI_QUEUE_DEPTH                                      *)
  None         (* default channel (shell), no hint, no callback, NULL      *)

ASSUME DepthAssumption == Depth \in Nat \ {0}
ASSUME KindAssumption  ==
  /\ Chats \cap Shells = {} /\ Chats \cap Beats = {} /\ Shells \cap Beats = {}
  /\ None \notin Chats \cup Shells \cup Beats

Clients == Chats \cup Shells \cup Beats

VARIABLES
  context,     (* s_ctx: [channel, hint, cb] that conversations share      *)
  active,      (* s_ctx->active_cb                                         *)
  queue,       (* s_ctx->queue: requests, by the client they belong to     *)
  request,     (* every client's struct ai_request: [channel, hint, cb]    *)
  done,        (* count of the semaphore in it                             *)
  client,      (* where every client is                                    *)
  worker,      (* the AI worker: [pc, req]; pc is "never" or "noQueue" if  *)
               (* the engine's init failed with or without its queue       *)
  stop         (* how far claw_service_stop_all is                         *)

vars == <<context, active, queue, request, done, client, worker, stop>>

Blank == [channel |-> None, hint |-> None, cb |-> None]

(* What the request of a client is meant to say                            *)
Mine(c) == [channel |-> IF c \in Chats THEN c ELSE None,
            hint    |-> IF c \in Chats THEN c ELSE None,
            cb      |-> IF c \in Shells THEN c ELSE None]

At(c, pc)   == client[c] = pc
Goto(c, pc) == client' = [client EXCEPT ![c] = pc]

(* claw_thread_should_exit in a client's thread: only the threads that are *)
(* deleted are told.  The heartbeat's is not, before it has finished.      *)
ExitFlag(c) == stop # "up" /\ c \in Chats

(* sched_remove("heartbeat") was called: no new heartbeat worker.          *)
Unscheduled == stop \in {"unscheduled", "down"}

NoWorker == worker.pc \in {"never", "noQueue"}

(* s_ctx->queue: the failed init leaves it, ai_engine_stop deletes it, and *)
(* that is called for an engine that runs.                                 *)
QueueExists ==
  \/ worker.pc = "never"
  \/ ~NoWorker /\ stop \in {"up", "clients", "worker"}

Init ==
  /\ context = Blank /\ active = None
  /\ queue = <<>>
  /\ request = [c \in Clients |-> Blank]
  /\ done = [c \in Clients |-> 0]
  /\ worker \in [pc : {"head", "never", "noQueue"}, req : {None}]
  /\ client = [c \in Clients |-> IF NoWorker /\ c \in Chats THEN "gone" ELSE "idle"]
  /\ stop = "up"

-----------------------------------------------------------------------------
(* A conversation: tg_ai_worker, ai_worker_thread of feishu.c and of       *)
(* tools/sched.c, the shell's chat, heartbeat_ai_thread                    *)

FirstPc(c) == IF c \in Chats THEN "setHint" ELSE "snapshot"
LastPc(c)  == IF c \in Chats THEN "resetChannel"
              ELSE IF c \in Shells THEN "resetCb" ELSE "idle"

(* ai_set_channel, or ai_set_status_cb; nothing for the heartbeat          *)
Begin(c) ==
  /\ At(c, "idle")
  /\ ~ExitFlag(c) /\ (c \in Shells => stop = "up")
  /\ c \in Beats => ~Unscheduled
  /\ context' = IF c \in Chats THEN [context EXCEPT !.channel = c]
                ELSE IF c \in Shells THEN [context EXCEPT !.cb = c] ELSE context
  /\ Goto(c, FirstPc(c))
  /\ UNCHANGED <<active, queue, request, done, worker, stop>>

SetHint(c) ==
  /\ At(c, "setHint")
  /\ context' = [context EXCEPT !.hint = c]
  /\ Goto(c, "snapshot")
  /\ UNCHANGED <<active, queue, request, done, worker, stop>>

(* ai_chat fills in the request ...                                        *)
Snapshot(c) ==
  /\ At(c, "snapshot")
  /\ request' = [request EXCEPT ![c] = context]
  /\ Goto(c, "send")
  /\ UNCHANGED <<context, active, queue, done, worker, stop>>

(* mutant: a full queue takes one more                                     *)
AcceptsFull == QueueExists

(* claw_mq_send without waiting: the queue exists and is not full          *)
Accepts == QueueExists /\ Len(queue) < Depth

(* A call is over, and its struct ai_request with it.                      *)
Finish(c) ==
  /\ Goto(c, LastPc(c))
  /\ request' = [request EXCEPT ![c] = Blank]
  /\ done' = [done EXCEPT ![c] = 0]

(* mutant: the semaphore of the request is created with one token          *)
EnqueueReady(c) ==
  /\ queue' = Append(queue, c)
  /\ done' = [done EXCEPT ![c] = 1]
  /\ Goto(c, "wait")
  /\ UNCHANGED request

Enqueue(c) ==
  /\ queue' = Append(queue, c)
  /\ Goto(c, "wait")
  /\ UNCHANGED <<request, done>>

(* ... and submit_and_wait sends it, or answers that the AI is busy, which *)
(* is also the answer when the engine has deleted its queue; or it has no  *)
(* memory for the semaphore.                                               *)
Send(c) ==
  /\ At(c, "send")
  /\ \/ Accepts /\ Enqueue(c)
     \/ ~Accepts /\ Finish(c) /\ UNCHANGED queue
  /\ UNCHANGED <<context, active, worker, stop>>

SendFails(c) ==
  /\ At(c, "send")
  /\ Finish(c)
  /\ UNCHANGED <<context, active, queue, worker, stop>>

(* claw_sem_take succeeded: the reply is in the caller's buffer.           *)
Answered(c) ==
  /\ At(c, "wait") /\ done[c] > 0
  /\ Finish(c)
  /\ UNCHANGED <<context, active, queue, worker, stop>>

(* It timed out, and the thread is to exit: "[shutdown in progress]".      *)
Abandon(c) ==
  /\ At(c, "wait") /\ done[c] = 0 /\ ExitFlag(c)
  /\ Finish(c)
  /\ UNCHANGED <<context, active, queue, worker, stop>>

Reset(c) ==
  /\ \/ At(c, "resetChannel") /\ context' = [context EXCEPT !.channel = None]
        /\ Goto(c, "resetHint")
     \/ At(c, "resetHint") /\ context' = [context EXCEPT !.hint = None]
        /\ Goto(c, "idle")
     \/ At(c, "resetCb") /\ context' = [context EXCEPT !.cb = None]
        /\ Goto(c, "idle")
  /\ UNCHANGED <<active, queue, request, done, worker, stop>>

(* The loop of a client's thread ends.                                     *)
Leave(c) ==
  /\ At(c, "idle") /\ ExitFlag(c)
  /\ Goto(c, "gone")
  /\ UNCHANGED <<context, active, queue, request, done, worker, stop>>

ClientStep(c) ==
  \/ SetHint(c) \/ Snapshot(c) \/ Send(c) \/ SendFails(c)
  \/ Answered(c) \/ Abandon(c) \/ Reset(c) \/ Leave(c)

-----------------------------------------------------------------------------
(* ai_worker_thread *)

(* mutant: the worker does not ask claw_thread_should_exit                 *)
WorkerExitNever == FALSE

WorkerExit == stop = "worker"

(* claw_mq_recv; the request's hint becomes the context's.                 *)
Receive ==
  /\ worker.pc = "head" /\ ~WorkerExit
  /\ queue # <<>>
  /\ worker' = [pc |-> "chat", req |-> Head(queue)]
  /\ queue' = Tail(queue)
  /\ context' = [context EXCEPT !.hint = request[Head(queue)].hint]
  /\ active' = request[Head(queue)].cb
  /\ UNCHANGED <<request, done, client, stop>>

(* mutant: a request that could not be processed is not answered           *)
ChatLoses ==
  /\ worker.pc = "chat"
  /\ worker' = [pc |-> "head", req |-> None]
  /\ active' = None
  /\ \/ UNCHANGED done
     \/ At(worker.req, "wait") /\ done' = [done EXCEPT ![worker.req] = 1]
  /\ UNCHANGED <<context, queue, request, client, stop>>

(* do_chat or do_chat_raw, whose HTTP calls end, then sem_give.            *)
Chat ==
  /\ worker.pc = "chat"
  /\ worker' = [pc |-> "head", req |-> None]
  /\ active' = None
  /\ done' = IF At(worker.req, "wait") THEN [done EXCEPT ![worker.req] = 1] ELSE done
  /\ UNCHANGED <<context, queue, request, client, stop>>

(* The exit flag is looked at between requests only.                       *)
WorkerLeaves ==
  /\ worker.pc = "head" /\ WorkerExit
  /\ worker' = [pc |-> "gone", req |-> None]
  /\ UNCHANGED <<context, active, queue, request, done, client, stop>>

WorkerStep == Receive \/ Chat \/ WorkerLeaves

-----------------------------------------------------------------------------
(* claw_service_stop_all, called by the shell's thread *)

StopClients ==
  /\ stop = "up"
  /\ \A c \in Shells : At(c, "idle")
  /\ stop' = "clients"
  /\ UNCHANGED <<context, active, queue, request, done, client, worker>>

(* The clients' threads are joined; ai_engine_stop tells the worker ...    *)
StopEngine ==
  /\ stop = "clients" /\ ~NoWorker
  /\ \A c \in Chats : At(c, "gone")
  /\ stop' = "worker"
  /\ UNCHANGED <<context, active, queue, request, done, client, worker>>

(* ... joins it, and deletes the queue with what is in it.                 *)
StopQueue ==
  /\ stop = "worker"
  /\ worker.pc = "gone"
  /\ queue' = <<>>
  /\ stop' = "heartbeat"
  /\ UNCHANGED <<context, active, request, done, client, worker>>

(* An engine that does not run is passed over.                             *)
SkipEngine ==
  /\ stop = "clients" /\ NoWorker
  /\ stop' = "heartbeat"
  /\ UNCHANGED <<context, active, queue, request, done, client, worker>>

(* heartbeat_stop takes its task off the scheduler ...                     *)
StopTask ==
  /\ stop = "heartbeat"
  /\ stop' = "unscheduled"
  /\ UNCHANGED <<context, active, queue, request, done, client, worker>>

(* ... and waits while (s_busy).                                           *)
StopHeartbeat ==
  /\ stop = "unscheduled"
  /\ \A c \in Beats : At(c, "idle")
  /\ stop' = "down"
  /\ UNCHANGED <<context, active, queue, request, done, client, worker>>

StopStep == StopEngine \/ SkipEngine \/ StopQueue \/ StopTask \/ StopHeartbeat

Next ==
  \/ \E c \in Clients : Begin(c) \/ ClientStep(c)
  \/ WorkerStep
  \/ StopClients \/ StopStep

Spec == Init /\ [][Next]_vars

(* Threads run and an AI call ends; nobody has to chat or to shut down.    *)
FairSpec ==
  /\ Spec
  /\ \A c \in Clients : WF_vars(ClientStep(c))
  /\ WF_vars(WorkerStep) /\ WF_vars(StopStep)

-----------------------------------------------------------------------------
(* Properties *)

Contexts == [channel : Chats \cup {None}, hint : Chats \cup {None}, cb : Shells \cup {None}]

TypeOK ==
  /\ context \in Contexts
  /\ active \in Shells \cup {None}
  /\ queue \in Seq(Clients) /\ Len(queue) <= Depth
  /\ request \in [Clients -> Contexts]
  /\ done \in [Clients -> 0..1]
  /\ client \in [Clients -> {"idle", "setHint", "snapshot", "send", "wait",
                             "resetChannel", "resetHint", "resetCb", "gone"}]
  /\ worker \in [pc : {"head", "chat", "gone", "never", "noQueue"}, req : Clients \cup {None}]
  /\ stop \in {"up", "clients", "worker", "heartbeat", "unscheduled", "down"}

(* As long as the engine has its queue, a client that waits has exactly one *)
(* request under way: queued, with the worker, or answered.  So no call is *)
(* answered twice, early, or never.                                        *)
Queued(c) == Cardinality({i \in DOMAIN queue : queue[i] = c})
Served(c) == IF worker.req = c THEN 1 ELSE 0

WaiterHasRequest ==
  QueueExists =>
    \A c \in Clients : At(c, "wait") => Queued(c) + Served(c) + done[c] = 1

(* What makes it inductive.  A client that does not wait has nothing under *)
(* way, unless it has abandoned a request at shutdown: then it sends no    *)
(* other one.                                                              *)
Abandoned(c) ==
  /\ ExitFlag(c)
  /\ client[c] \in {"resetChannel", "resetHint", "idle", "gone"}

OthersHaveNone ==
  \A c \in Clients : ~At(c, "wait") =>
    /\ done[c] = 0
    /\ Abandoned(c) \/ Queued(c) + Served(c) = 0

WorkerState ==
  /\ worker.pc = "chat" <=> worker.req \in Clients
  /\ ~QueueExists => worker.pc \in {"gone", "noQueue"} /\ queue = <<>>
  /\ \A c \in Clients : At(c, "setHint") => c \in Chats

(* What every state of the request queue satisfies.                        *)
RequestsInv == TypeOK /\ WaiterHasRequest /\ OthersHaveNone /\ WorkerState

(* ai_chat returns, as long as the system is not shut down, unless the     *)
(* engine has its queue and never had a worker: then it does not.          *)
CallReturns ==
  \A c \in Clients :
    At(c, "wait") ~> (~At(c, "wait") \/ stop # "up" \/ worker.pc = "never")

(* The exit check in the wait and the one in the worker do end the IM      *)
(* clients and the engine: ai_engine_stop returns.                         *)
EngineStops == stop = "clients" ~> stop \notin {"up", "clients", "worker"}

(* "Wait with periodic exit check so shutdown doesn't hang": shutdown ends *)
(* for an engine whose worker was created.                                 *)
ShutdownEnds == stop = "clients" /\ worker.pc # "never" ~> stop = "down"

(* "Each request snapshots its channel, channel_hint, and status_cb to     *)
(* prevent cross-thread races": a request carries those of its own client. *)
(* It need not (README, known deviations), and no run checks this.         *)
SnapshotIsMine == \A c \in Clients : At(c, "wait") => request[c] = Mine(c)

=============================================================================
