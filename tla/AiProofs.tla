------------------------------ MODULE AiProofs ------------------------------
(***************************************************************************)
(* The AI service.  Its request queue, for every set of conversations and  *)
(* every depth of the queue: as long as the engine has its queue, every    *)
(* client that waits has exactly one request under way.  Its stores in     *)
(* flash, for every size of the tables and every number of changes: what   *)
(* is saved alone and in full is what the next start finds, and on files a *)
(* save that is cut short costs at most one fact it was not about.         *)
(* Its conversation, for every number of channels and requests and every   *)
(* size of the table: the messages of a channel stay in order, and no      *)
(* channel pays for another.                                               *)
(***************************************************************************)
EXTENDS AiRequests, AiChat, AiStore, SeqLemmas, TLAPS

ClientPcs == {"idle", "setHint", "snapshot", "send", "wait",
              "resetChannel", "resetHint", "resetCb", "gone"}

(* What the queue and the worker hold of a client.                         *)
LEMMA Numbers ==
  ASSUME RequestsInv, NEW c \in Clients
  PROVE  /\ Queued(c) \in Nat /\ Served(c) \in 0..1 /\ done[c] \in 0..1
         /\ queue \in Seq(Clients) /\ Len(queue) \in Nat
<1>1. queue \in Seq(Clients) /\ done[c] \in 0..1 /\ Len(queue) \in Nat
  BY LenProperties DEF RequestsInv, TypeOK
<1>2. Queued(c) \in Nat
  BY <1>1, OccurrencesType DEF Queued, Occurrences
<1>3. QED
  BY <1>1, <1>2 DEF Served

LEMMA QueuedAppend ==
  ASSUME RequestsInv, NEW e \in Clients, NEW c \in Clients, queue' = Append(queue, e)
  PROVE  Queued(c)' = Queued(c) + (IF e = c THEN 1 ELSE 0)
<1>1. queue \in Seq(Clients)
  BY DEF RequestsInv, TypeOK
<1>2. PICK t : t = queue' /\ t = Append(queue, e)
  OBVIOUS
<1>3. Queued(c) = Occurrences(queue, c) /\ Queued(c)' = Occurrences(t, c)
  BY <1>2 DEF Queued, Occurrences
<1>4. Occurrences(t, c) = Occurrences(queue, c) + (IF e = c THEN 1 ELSE 0)
  <2>1. PICK q \in Seq(Clients) : q = queue
    BY <1>1
  <2>2. t = Append(q, e)
    BY <1>2, <2>1
  <2>3. Occurrences(t, c) = Occurrences(q, c) + (IF e = c THEN 1 ELSE 0)
    <3>1. Occurrences(Append(q, e), c) = Occurrences(q, c) + (IF e = c THEN 1 ELSE 0)
      BY AppendOccurrences
    <3>2. QED
      BY <2>2, <3>1, Zenon
  <2>4. QED
    BY <2>1, <2>3
<1>5. QED
  BY <1>3, <1>4

LEMMA QueuedTail ==
  ASSUME RequestsInv, NEW c \in Clients, queue # <<>>, queue' = Tail(queue)
  PROVE  Queued(c) = Queued(c)' + (IF Head(queue) = c THEN 1 ELSE 0)
<1>1. queue \in Seq(Clients)
  BY DEF RequestsInv, TypeOK
<1>2. PICK t : t = queue' /\ t = Tail(queue)
  OBVIOUS
<1>3. Queued(c) = Occurrences(queue, c) /\ Queued(c)' = Occurrences(t, c)
  BY <1>2 DEF Queued, Occurrences
<1>4. Occurrences(queue, c) = Occurrences(t, c) + (IF Head(queue) = c THEN 1 ELSE 0)
  <2>1. PICK q \in Seq(Clients) : q = queue
    BY <1>1
  <2>2. t = Tail(q) /\ q # <<>>
    BY <1>2, <2>1
  <2>3. Occurrences(q, c) = Occurrences(t, c) + (IF Head(q) = c THEN 1 ELSE 0)
    BY <2>2, TailOccurrences, Zenon
  <2>4. QED
    BY <2>1, <2>3
<1>5. QED
  BY <1>3, <1>4

LEMMA EmptyQueue ==
  ASSUME NEW c
  PROVE  queue = <<>> => Queued(c) = 0
<1>1. queue = <<>> => {i \in DOMAIN queue : queue[i] = c} = {}
  OBVIOUS
<1>2. QED
  BY <1>1, FS_EmptySet DEF Queued

LEMMA InitInv == Init => RequestsInv
<1> SUFFICES ASSUME Init PROVE RequestsInv
  OBVIOUS
<1>1. queue \in Seq(Clients) /\ Len(queue) <= Depth
  <2>1. <<>> \in Seq(Clients) /\ Len(<<>>) = 0
    OBVIOUS
  <2>2. QED
    BY <2>1, DepthAssumption DEF Init
<1>2. TypeOK
  <2>1. worker \in [pc : {"head", "chat", "gone", "never", "noQueue"}, req : Clients \cup {None}]
    BY DEF Init
  <2>2. QED
    BY <1>1, <2>1 DEF Init, TypeOK, Contexts, Blank
<1>3. ASSUME NEW c \in Clients PROVE Queued(c) = 0 /\ Served(c) = 0 /\ ~At(c, "wait")
  <2>1. c # None
    BY KindAssumption DEF Clients
  <2>2. QED
    BY <2>1, EmptyQueue DEF Init, Served, At
<1>4. WaiterHasRequest /\ OthersHaveNone
  BY <1>3 DEF Init, WaiterHasRequest, OthersHaveNone
<1>5. WorkerState
  <2>1. None \notin Clients
    BY KindAssumption DEF Clients
  <2>2. QED
    BY <2>1 DEF Init, WorkerState, QueueExists, NoWorker, At
<1>6. QED
  BY <1>2, <1>4, <1>5 DEF RequestsInv

-----------------------------------------------------------------------------
(* The conversations *)

(* A client moves on without waiting: it has nothing under way, or it has  *)
(* given up at shutdown.                                                   *)
LEMMA Moves ==
  ASSUME RequestsInv, NEW c \in Clients, NEW to \in ClientPcs \ {"wait"}, Goto(c, to),
         UNCHANGED <<queue, worker, stop>>,
         context' \in Contexts, active' \in Shells \cup {None},
         request' \in [Clients -> Contexts],
         done' = [done EXCEPT ![c] = 0],
         to = "setHint" => c \in Chats,
         \/ Queued(c) + Served(c) = 0
         \/ ExitFlag(c) /\ to \in {"resetChannel", "resetHint", "idle", "gone"}
  PROVE  RequestsInv'
<1>1. client \in [Clients -> ClientPcs] /\ client' = [client EXCEPT ![c] = to]
  BY DEF RequestsInv, TypeOK, ClientPcs, Goto
<1>2. TypeOK'
  BY <1>1 DEF RequestsInv, TypeOK, ClientPcs
<1>3. ASSUME NEW d \in Clients
      PROVE  /\ Queued(d)' = Queued(d) /\ Served(d)' = Served(d)
             /\ d # c => done'[d] = done[d] /\ client'[d] = client[d]
             /\ d = c => done'[d] = 0 /\ client'[d] = to
  BY <1>1 DEF RequestsInv, TypeOK, Queued, Served
<1>4. WaiterHasRequest'
  BY <1>3 DEF RequestsInv, WaiterHasRequest, QueueExists, NoWorker, At
<1>5. OthersHaveNone'
  BY <1>3 DEF RequestsInv, OthersHaveNone, Abandoned, ExitFlag, At
<1>6. WorkerState'
  BY <1>3 DEF RequestsInv, WorkerState, QueueExists, NoWorker, At
<1>7. QED
  BY <1>2, <1>4, <1>5, <1>6 DEF RequestsInv

(* The same for a client that was not waiting: it had nothing under way.   *)
LEMMA MovesAlone ==
  ASSUME RequestsInv, NEW c \in Clients, NEW to \in ClientPcs \ {"wait"}, Goto(c, to),
         ~At(c, "wait"), UNCHANGED <<queue, worker, stop>>,
         context' \in Contexts, active' \in Shells \cup {None},
         request' \in [Clients -> Contexts],
         done' = done \/ done' = [done EXCEPT ![c] = 0],
         to = "setHint" => c \in Chats,
         \/ ~Abandoned(c)
         \/ to \in {"resetChannel", "resetHint", "idle", "gone"}
  PROVE  RequestsInv'
<1>1. done[c] = 0 /\ (Abandoned(c) \/ Queued(c) + Served(c) = 0)
  BY DEF RequestsInv, OthersHaveNone
<1>2. done' = [done EXCEPT ![c] = 0]
  BY <1>1 DEF RequestsInv, TypeOK
<1>3. \/ Queued(c) + Served(c) = 0
      \/ ExitFlag(c) /\ to \in {"resetChannel", "resetHint", "idle", "gone"}
  BY <1>1 DEF Abandoned
<1>4. QED
  BY <1>2, <1>3, Moves

LEMMA Kinds ==
  ASSUME NEW c \in Clients
  PROVE  /\ FirstPc(c) \in ClientPcs \ {"wait"} /\ (FirstPc(c) = "setHint" => c \in Chats)
         /\ LastPc(c) \in {"resetChannel", "resetCb", "idle"}
         /\ c \in Chats => LastPc(c) = "resetChannel"
BY DEF FirstPc, LastPc, ClientPcs

LEMMA BeginInv ==
  ASSUME RequestsInv, NEW c \in Clients, Begin(c)
  PROVE  RequestsInv'
<1>1. /\ At(c, "idle") /\ ~ExitFlag(c) /\ Goto(c, FirstPc(c))
      /\ UNCHANGED <<active, queue, request, done, worker, stop>>
  BY DEF Begin
<1>2. context' \in Contexts
  BY DEF Begin, RequestsInv, TypeOK, Contexts
<1>3. ~At(c, "wait") /\ ~Abandoned(c)
  BY <1>1 DEF At, Abandoned
<1>4. active' \in Shells \cup {None} /\ request' \in [Clients -> Contexts]
  BY <1>1 DEF RequestsInv, TypeOK
<1>5. QED
  BY <1>1, <1>2, <1>3, <1>4, Kinds, MovesAlone

LEMMA SetHintInv ==
  ASSUME RequestsInv, NEW c \in Clients, SetHint(c)
  PROVE  RequestsInv'
<1>1. /\ At(c, "setHint") /\ Goto(c, "snapshot") /\ context' = [context EXCEPT !.hint = c]
      /\ UNCHANGED <<active, queue, request, done, worker, stop>>
  BY DEF SetHint
<1>2. c \in Chats
  BY <1>1 DEF RequestsInv, WorkerState
<1>3. /\ context' \in Contexts /\ active' \in Shells \cup {None}
      /\ request' \in [Clients -> Contexts]
  BY <1>1, <1>2 DEF RequestsInv, TypeOK, Contexts
<1>4. ~At(c, "wait") /\ ~Abandoned(c)
  BY <1>1 DEF At, Abandoned
<1>5. "snapshot" \in ClientPcs \ {"wait"}
  BY DEF ClientPcs
<1>6. QED
  BY <1>1, <1>3, <1>4, <1>5, MovesAlone

LEMMA SnapshotInv ==
  ASSUME RequestsInv, NEW c \in Clients, Snapshot(c)
  PROVE  RequestsInv'
<1>1. /\ At(c, "snapshot") /\ Goto(c, "send") /\ request' = [request EXCEPT ![c] = context]
      /\ UNCHANGED <<context, active, queue, done, worker, stop>>
  BY DEF Snapshot
<1>2. /\ context' \in Contexts /\ active' \in Shells \cup {None}
      /\ request' \in [Clients -> Contexts]
  BY <1>1 DEF RequestsInv, TypeOK
<1>3. ~At(c, "wait") /\ ~Abandoned(c)
  BY <1>1 DEF At, Abandoned
<1>4. "send" \in ClientPcs \ {"wait"}
  BY DEF ClientPcs
<1>5. QED
  BY <1>1, <1>2, <1>3, <1>4, MovesAlone

(* A call that ends, whatever it returns.                                  *)
LEMMA FinishInv ==
  ASSUME RequestsInv, NEW c \in Clients, Finish(c),
         UNCHANGED <<context, active, queue, worker, stop>>,
         \/ Queued(c) + Served(c) = 0
         \/ ExitFlag(c)
  PROVE  RequestsInv'
<1>1. /\ Goto(c, LastPc(c)) /\ done' = [done EXCEPT ![c] = 0]
      /\ request' = [request EXCEPT ![c] = Blank]
  BY DEF Finish
<1>2. /\ context' \in Contexts /\ active' \in Shells \cup {None}
      /\ request' \in [Clients -> Contexts]
  BY <1>1 DEF RequestsInv, TypeOK, Blank, Contexts
<1>3. LastPc(c) \in ClientPcs \ {"wait"} /\ LastPc(c) # "setHint"
  BY Kinds DEF ClientPcs
<1>4. \/ Queued(c) + Served(c) = 0
      \/ ExitFlag(c) /\ LastPc(c) \in {"resetChannel", "resetHint", "idle", "gone"}
  BY Kinds DEF ExitFlag
<1>5. QED
  BY <1>1, <1>2, <1>3, <1>4, Moves

LEMMA SendInv ==
  ASSUME RequestsInv, NEW c \in Clients, Send(c)
  PROVE  RequestsInv'
<1>1. /\ At(c, "send") /\ ((Accepts /\ Enqueue(c)) \/ (Finish(c) /\ UNCHANGED queue))
      /\ UNCHANGED <<context, active, worker, stop>>
  BY DEF Send
<1>2. ~At(c, "wait") /\ done[c] = 0 /\ Queued(c) + Served(c) = 0
  BY <1>1 DEF At, RequestsInv, OthersHaveNone, Abandoned
<1>3. CASE Finish(c) /\ UNCHANGED queue
  BY <1>1, <1>2, <1>3, FinishInv
<1>4. CASE Accepts /\ Enqueue(c)
  <2>1. /\ Len(queue) < Depth /\ QueueExists /\ QueueExists'
        /\ queue' = Append(queue, c) /\ client' = [client EXCEPT ![c] = "wait"]
        /\ UNCHANGED <<request, done>>
    BY <1>1, <1>4 DEF Accepts, Enqueue, Goto, QueueExists, NoWorker
  <2>2. queue' \in Seq(Clients) /\ Len(queue') <= Depth
    <3>1. queue \in Seq(Clients) /\ Len(queue) \in Nat
      BY Numbers
    <3>2. queue' \in Seq(Clients) /\ Len(queue') = Len(queue) + 1
      BY <2>1, <3>1, AppendProperties
    <3>3. QED
      BY <2>1, <3>1, <3>2, DepthAssumption
  <2>3. TypeOK'
    BY <1>1, <2>1, <2>2 DEF RequestsInv, TypeOK
  <2>4. ASSUME NEW d \in Clients
        PROVE  /\ Queued(d) \in Nat /\ Served(d) \in 0..1 /\ Served(d)' = Served(d)
               /\ d # c => Queued(d)' = Queued(d) /\ client'[d] = client[d]
               /\ d = c => Queued(d)' = Queued(d) + 1 /\ client'[d] = "wait"
    <3>1. Queued(d)' = Queued(d) + (IF c = d THEN 1 ELSE 0)
      BY <2>1, QueuedAppend
    <3>2. QED
      BY <1>1, <2>1, <3>1, Numbers DEF RequestsInv, TypeOK, Served
  <2>5. WaiterHasRequest'
    <3>1. SUFFICES ASSUME NEW d \in Clients, At(d, "wait")'
                   PROVE  Queued(d)' + Served(d)' + done'[d] = 1
      BY DEF WaiterHasRequest
    <3>2. CASE d = c
      BY <1>2, <2>1, <2>4, <3>2
    <3>3. CASE d # c
      BY <2>1, <2>4, <3>1, <3>3 DEF RequestsInv, WaiterHasRequest, At
    <3>4. QED
      BY <3>2, <3>3
  <2>6. OthersHaveNone'
    BY <1>1, <2>1, <2>4 DEF RequestsInv, OthersHaveNone, Abandoned, ExitFlag, At
  <2>7. WorkerState'
    BY <1>1, <2>1, <2>4 DEF RequestsInv, WorkerState, At
  <2>8. QED
    BY <2>3, <2>5, <2>6, <2>7 DEF RequestsInv
<1>5. QED
  BY <1>1, <1>3, <1>4

LEMMA SendFailsInv ==
  ASSUME RequestsInv, NEW c \in Clients, SendFails(c)
  PROVE  RequestsInv'
<1>1. /\ At(c, "send") /\ Finish(c)
      /\ UNCHANGED <<context, active, queue, worker, stop>>
  BY DEF SendFails
<1>2. Queued(c) + Served(c) = 0
  BY <1>1 DEF At, RequestsInv, OthersHaveNone, Abandoned
<1>3. QED
  BY <1>1, <1>2, FinishInv

(* The token in the semaphore is the whole of the request, unless the      *)
(* queue is gone, and then nothing is in it or with the worker.            *)
LEMMA AnsweredInv ==
  ASSUME RequestsInv, NEW c \in Clients, Answered(c)
  PROVE  RequestsInv'
<1>1. /\ At(c, "wait") /\ done[c] > 0 /\ Finish(c)
      /\ UNCHANGED <<context, active, queue, worker, stop>>
  BY DEF Answered
<1>2. CASE QueueExists
  <2>1. Queued(c) + Served(c) + done[c] = 1
    BY <1>1, <1>2 DEF RequestsInv, WaiterHasRequest
  <2>2. Queued(c) + Served(c) = 0
    BY <1>1, <2>1, Numbers
  <2>3. QED
    BY <1>1, <2>2, FinishInv
<1>3. CASE ~QueueExists
  <2>1. queue = <<>> /\ worker.req \notin Clients
    BY <1>3 DEF RequestsInv, WorkerState
  <2>2. Queued(c) = 0 /\ Served(c) = 0
    BY <2>1, EmptyQueue DEF Served
  <2>3. QED
    BY <1>1, <2>2, FinishInv
<1>4. QED
  BY <1>2, <1>3

LEMMA AbandonInv ==
  ASSUME RequestsInv, NEW c \in Clients, Abandon(c)
  PROVE  RequestsInv'
<1>1. /\ ExitFlag(c) /\ Finish(c)
      /\ UNCHANGED <<context, active, queue, worker, stop>>
  BY DEF Abandon
<1>2. QED
  BY <1>1, FinishInv

LEMMA ResetInv ==
  ASSUME RequestsInv, NEW c \in Clients, Reset(c)
  PROVE  RequestsInv'
<1>1. UNCHANGED <<active, queue, request, done, worker, stop>>
  BY DEF Reset
<1>2. PICK to \in {"resetHint", "idle"} : ~At(c, "wait") /\ Goto(c, to)
  BY DEF Reset, At
<1>3. context' \in Contexts
  BY DEF Reset, RequestsInv, TypeOK, Contexts
<1>4. /\ active' \in Shells \cup {None} /\ request' \in [Clients -> Contexts]
      /\ to \in ClientPcs \ {"wait"} /\ to # "setHint"
  BY <1>1 DEF RequestsInv, TypeOK, ClientPcs
<1>5. QED
  BY <1>1, <1>2, <1>3, <1>4, MovesAlone

LEMMA LeaveInv ==
  ASSUME RequestsInv, NEW c \in Clients, Leave(c)
  PROVE  RequestsInv'
<1>1. /\ At(c, "idle") /\ Goto(c, "gone")
      /\ UNCHANGED <<context, active, queue, request, done, worker, stop>>
  BY DEF Leave
<1>2. /\ context' \in Contexts /\ active' \in Shells \cup {None}
      /\ request' \in [Clients -> Contexts]
      /\ "gone" \in ClientPcs \ {"wait"} /\ ~At(c, "wait")
  BY <1>1 DEF RequestsInv, TypeOK, ClientPcs, At
<1>3. QED
  BY <1>1, <1>2, MovesAlone

-----------------------------------------------------------------------------
(* The worker *)

(* A request goes from the queue to the worker.                            *)
LEMMA ReceiveInv ==
  ASSUME RequestsInv, Receive
  PROVE  RequestsInv'
<1>1. /\ worker.pc = "head" /\ queue # <<>> /\ queue' = Tail(queue)
      /\ worker' = [pc |-> "chat", req |-> Head(queue)]
      /\ context' = [context EXCEPT !.hint = request[Head(queue)].hint]
      /\ active' = request[Head(queue)].cb
      /\ UNCHANGED <<request, done, client, stop>>
  BY DEF Receive
<1>2. /\ Head(queue) \in Clients /\ queue' \in Seq(Clients)
      /\ Len(queue') = Len(queue) - 1 /\ Len(queue) \in Nat /\ queue \in Seq(Clients)
  BY <1>1, HeadTailProperties, LenProperties DEF RequestsInv, TypeOK
<1>3. PICK h \in Clients : h = Head(queue)
  BY <1>2
<1>4. TypeOK'
  <2>1. request[h] \in Contexts
    BY DEF RequestsInv, TypeOK
  <2>2. context' \in Contexts /\ active' \in Shells \cup {None}
    BY <1>1, <1>3, <2>1 DEF RequestsInv, TypeOK, Contexts
  <2>3. Len(queue') <= Depth
    BY <1>2, DepthAssumption DEF RequestsInv, TypeOK
  <2>4. QED
    BY <1>1, <1>2, <1>3, <2>2, <2>3 DEF RequestsInv, TypeOK
<1>5. worker.req \notin Clients
  BY <1>1 DEF RequestsInv, WorkerState
<1>6. ASSUME NEW c \in Clients
      PROVE  Queued(c)' + Served(c)' = Queued(c) + Served(c) /\ Queued(c)' \in Nat
  <2>1. Queued(c) = Queued(c)' + (IF h = c THEN 1 ELSE 0)
    BY <1>1, <1>3, QueuedTail
  <2>2. Served(c) = 0 /\ Served(c)' = IF h = c THEN 1 ELSE 0
    BY <1>1, <1>3, <1>5 DEF Served
  <2>3. Queued(c)' \in Nat
    BY <1>2, OccurrencesType DEF Queued, Occurrences
  <2>4. QED
    BY <2>1, <2>2, <2>3
<1>7. WaiterHasRequest'
  BY <1>1, <1>6 DEF RequestsInv, WaiterHasRequest, QueueExists, NoWorker, At
<1>8. OthersHaveNone'
  BY <1>1, <1>6 DEF RequestsInv, OthersHaveNone, Abandoned, ExitFlag, At
<1>9. WorkerState'
  <2>1. QueueExists'
    BY <1>1 DEF RequestsInv, WorkerState, QueueExists, NoWorker
  <2>2. QED
    BY <1>1, <1>3, <2>1 DEF RequestsInv, WorkerState, At
<1>10. QED
  BY <1>4, <1>7, <1>8, <1>9 DEF RequestsInv

(* A request goes from the worker to the semaphore of the client, if that  *)
(* still waits.                                                            *)
LEMMA ChatInv ==
  ASSUME RequestsInv, Chat
  PROVE  RequestsInv'
<1>1. /\ worker.pc = "chat" /\ worker' = [pc |-> "head", req |-> None] /\ active' = None
      /\ UNCHANGED <<context, queue, request, client, stop>>
  BY DEF Chat
<1>2. PICK h \in Clients : h = worker.req
  BY <1>1 DEF RequestsInv, WorkerState
<1>3. done' = IF At(h, "wait") THEN [done EXCEPT ![h] = 1] ELSE done
  BY <1>2 DEF Chat
<1>4. None \notin Clients
  BY KindAssumption DEF Clients
<1>5. TypeOK'
  BY <1>1, <1>3 DEF RequestsInv, TypeOK
<1>6. ASSUME NEW c \in Clients
      PROVE  /\ Queued(c)' = Queued(c) /\ Served(c)' = 0
             /\ Served(c) = IF c = h THEN 1 ELSE 0
             /\ done'[c] = IF c = h /\ At(h, "wait") THEN 1 ELSE done[c]
  BY <1>1, <1>2, <1>3, <1>4 DEF RequestsInv, TypeOK, Queued, Served
<1>7. WaiterHasRequest'
  <2>1. SUFFICES ASSUME NEW c \in Clients, At(c, "wait"), QueueExists
                 PROVE  Queued(c)' + Served(c)' + done'[c] = 1
    BY <1>1 DEF WaiterHasRequest, QueueExists, NoWorker, At
  <2>2. Queued(c) + Served(c) + done[c] = 1
    BY <2>1 DEF RequestsInv, WaiterHasRequest
  <2>3. QED
    BY <1>6, <2>1, <2>2, Numbers
<1>8. OthersHaveNone'
  <2>1. SUFFICES ASSUME NEW c \in Clients, ~At(c, "wait")
                 PROVE  /\ done'[c] = 0
                        /\ Abandoned(c) \/ Queued(c)' + Served(c)' = 0
    BY <1>1 DEF OthersHaveNone, Abandoned, ExitFlag, At
  <2>2. done[c] = 0 /\ (Abandoned(c) \/ Queued(c) + Served(c) = 0)
    BY <2>1 DEF RequestsInv, OthersHaveNone
  <2>3. QED
    BY <1>6, <2>1, <2>2, Numbers
<1>9. WorkerState'
  <2>1. QueueExists'
    BY <1>1 DEF RequestsInv, WorkerState, QueueExists, NoWorker
  <2>2. QED
    BY <1>1, <1>4, <2>1 DEF RequestsInv, WorkerState, At
<1>10. QED
  BY <1>5, <1>7, <1>8, <1>9 DEF RequestsInv

(* The worker leaves, and the steps of the shutdown.                       *)
LEMMA ShutdownStep ==
  ASSUME RequestsInv, UNCHANGED <<context, active, request, done, client>>,
         stop # "up" \/ stop' = stop \/ stop' = "clients", stop' # "up" \/ stop = "up",
         stop' \in {"up", "clients", "worker", "heartbeat", "unscheduled", "down"},
         QueueExists' => QueueExists,
         \/ queue' = queue
         \/ queue' = <<>> /\ ~QueueExists',
         \/ worker' = worker
         \/ worker.pc = "head" /\ worker' = [pc |-> "gone", req |-> None],
         ~QueueExists' => worker'.pc \in {"gone", "noQueue"} /\ queue' = <<>>
  PROVE  RequestsInv'
<1>1. None \notin Clients
  BY KindAssumption DEF Clients
<1>2. queue' \in Seq(Clients) /\ Len(queue') <= Depth
  <2>1. <<>> \in Seq(Clients) /\ Len(<<>>) = 0
    OBVIOUS
  <2>2. queue' = <<>> => queue' \in Seq(Clients) /\ Len(queue') <= Depth
    BY <2>1, DepthAssumption
  <2>3. queue' = queue => queue' \in Seq(Clients) /\ Len(queue') <= Depth
    BY DEF RequestsInv, TypeOK
  <2>4. QED
    BY <2>2, <2>3
<1>3. TypeOK'
  BY <1>2 DEF RequestsInv, TypeOK
<1>4. ASSUME NEW c \in Clients
      PROVE  /\ Served(c)' = Served(c)
             /\ queue' = queue => Queued(c)' = Queued(c)
             /\ queue' = <<>> => Queued(c)' = 0
  <2>1. Served(c)' = Served(c)
    BY <1>1 DEF RequestsInv, WorkerState, Served
  <2>2. queue' = queue => Queued(c)' = Queued(c)
    BY DEF Queued
  <2>3. queue' = <<>> => Queued(c)' = 0
    <3>1. queue' = <<>> => {i \in DOMAIN queue' : queue'[i] = c} = {}
      OBVIOUS
    <3>2. QED
      BY <3>1, FS_EmptySet DEF Queued
  <2>4. QED
    BY <2>1, <2>2, <2>3
<1>5. WaiterHasRequest'
  BY <1>4 DEF RequestsInv, WaiterHasRequest, At
<1>6. OthersHaveNone'
  BY <1>4, Numbers DEF RequestsInv, OthersHaveNone, Abandoned, ExitFlag, At
<1>7. WorkerState'
  BY <1>1 DEF RequestsInv, WorkerState, At
<1>8. QED
  BY <1>3, <1>5, <1>6, <1>7 DEF RequestsInv

LEMMA StopInv ==
  ASSUME RequestsInv, WorkerLeaves \/ StopClients \/ StopStep
  PROVE  RequestsInv'
<1>1. /\ QueueExists' => QueueExists
      /\ ~QueueExists' => worker'.pc \in {"gone", "noQueue"} /\ queue' = <<>>
      /\ StopQueue => ~QueueExists'
  BY DEF RequestsInv, TypeOK, WorkerState, QueueExists, NoWorker,
         WorkerLeaves, WorkerExit, StopClients, StopStep, StopEngine, SkipEngine, StopQueue,
         StopTask, StopHeartbeat
<1>2. CASE WorkerLeaves
  BY <1>1, <1>2, ShutdownStep DEF WorkerLeaves, WorkerExit
<1>3. CASE StopClients
  BY <1>1, <1>3, ShutdownStep DEF StopClients
<1>4. CASE StopEngine \/ SkipEngine
  BY <1>1, <1>4, ShutdownStep DEF StopEngine, SkipEngine
<1>5. CASE StopQueue
  BY <1>1, <1>5, ShutdownStep DEF StopQueue
<1>6. CASE StopTask \/ StopHeartbeat
  BY <1>1, <1>6, ShutdownStep DEF StopTask, StopHeartbeat
<1>7. QED
  BY <1>2, <1>3, <1>4, <1>5, <1>6 DEF StopStep

-----------------------------------------------------------------------------
(* The theorem *)

LEMMA NextInv ==
  ASSUME RequestsInv, [Next]_vars
  PROVE  RequestsInv'
<1>1. ASSUME NEW c \in Clients, Begin(c) PROVE RequestsInv'
  BY <1>1, BeginInv
<1>2. ASSUME NEW c \in Clients, ClientStep(c) PROVE RequestsInv'
  BY <1>2, SetHintInv, SnapshotInv, SendInv, SendFailsInv, AnsweredInv, AbandonInv,
     ResetInv, LeaveInv DEF ClientStep
<1>3. CASE WorkerStep
  BY <1>3, ReceiveInv, ChatInv, StopInv DEF WorkerStep
<1>4. CASE StopClients \/ StopStep
  BY <1>4, StopInv
<1>5. CASE UNCHANGED vars
  BY <1>5 DEF vars, RequestsInv, TypeOK, WaiterHasRequest, OthersHaveNone, WorkerState,
              QueueExists, NoWorker, Abandoned, ExitFlag, At, Queued, Served
<1>6. QED
  BY <1>1, <1>2, <1>3, <1>4, <1>5 DEF Next

(* However many conversations there are and however they are interleaved   *)
(* with the worker and with a shutdown, and also when the engine never had *)
(* a worker: as long as it has its queue, a client that waits has exactly  *)
(* one request queued, in work or answered.                                *)
THEOREM RequestsInvariant == Spec => []RequestsInv
<1>1. Init => RequestsInv
  BY InitInv
<1>2. RequestsInv /\ [Next]_vars => RequestsInv'
  BY NextInv
<1>3. QED
  BY <1>1, <1>2, PTL DEF Spec

-----------------------------------------------------------------------------
(* The tables as sequences of entries with a key.                          *)

(* A change to the entry of one key leaves the other keys apart.           *)
LEMMA DistinctAppend ==
  ASSUME NEW S, NEW s \in Seq(S), NEW e \in S, NEW tab, Distinct(tab, s),
         e.key \in {Zeros, Junk} \cup Shortened(tab) \/ \A i \in 1..Len(s) : s[i].key # e.key
  PROVE  Distinct(tab, Append(s, e)) /\ Append(s, e) \in Seq(S)
         /\ Len(Append(s, e)) = Len(s) + 1
<1> DEFINE t == Append(s, e)
<1>1. /\ Len(s) \in Nat /\ t \in Seq(S) /\ Len(t) = Len(s) + 1
      /\ \A i \in 1..Len(s) : t[i] = s[i]
      /\ t[Len(s) + 1] = e
  BY AppendProperties, LenProperties
<1> HIDE DEF t
<1>2. ASSUME NEW i \in 1..Len(t), NEW j \in 1..Len(t), i # j, t[i].key = t[j].key
      PROVE  t[i].key \in {Zeros, Junk} \cup Shortened(tab)
  <2>1. CASE i \in 1..Len(s) /\ j \in 1..Len(s)
    BY <1>1, <1>2, <2>1 DEF Distinct
  <2>2. CASE i = Len(s) + 1 /\ j \in 1..Len(s)
    BY <1>1, <1>2, <2>2
  <2>3. CASE j = Len(s) + 1 /\ i \in 1..Len(s)
    BY <1>1, <1>2, <2>3
  <2>4. QED
    BY <1>1, <1>2, <2>1, <2>2, <2>3
<1>3. QED
  BY <1>1, <1>2 DEF Distinct, t

LEMMA DistinctReplace ==
  ASSUME NEW S, NEW s \in Seq(S), NEW e \in S, NEW tab, Distinct(tab, s),
         NEW k \in 1..Len(s), s[k].key = e.key
  PROVE  Distinct(tab, ReplaceAt(s, k, e)) /\ ReplaceAt(s, k, e) \in Seq(S)
         /\ Len(ReplaceAt(s, k, e)) = Len(s)
         /\ \A i \in 1..Len(s) : ReplaceAt(s, k, e)[i] = IF i = k THEN e ELSE s[i]
<1> DEFINE t == ReplaceAt(s, k, e)
<1>1. /\ t \in Seq(S) /\ Len(t) = Len(s)
      /\ \A i \in 1..Len(s) : t[i] = IF i = k THEN e ELSE s[i]
  BY ExceptSeq DEF ReplaceAt
<1> HIDE DEF t
<1>2. \A i \in 1..Len(s) : t[i].key = s[i].key
  BY <1>1
<1>3. Distinct(tab, t)
  BY <1>1, <1>2 DEF Distinct
<1>4. QED
  BY <1>1, <1>3 DEF t

LEMMA DistinctRemove ==
  ASSUME NEW S, NEW s \in Seq(S), NEW tab, Distinct(tab, s), NEW k \in 1..Len(s)
  PROVE  Distinct(tab, RemoveAt(s, k)) /\ RemoveAt(s, k) \in Seq(S)
         /\ Len(RemoveAt(s, k)) = Len(s) - 1
<1> DEFINE t == RemoveAt(s, k)
<1>1. /\ t \in Seq(S) /\ Len(t) = Len(s) - 1 /\ Len(s) \in Nat
      /\ \A i \in 1..(Len(s) - 1) : t[i] = IF i < k THEN s[i] ELSE s[i + 1]
  BY RemoveAtProperties, LenProperties
<1> HIDE DEF t
<1>2. \A i \in 1..Len(t) : t[i] = s[IF i < k THEN i ELSE i + 1]
                            /\ (IF i < k THEN i ELSE i + 1) \in 1..Len(s)
  BY <1>1
<1>3. \A i, j \in 1..Len(t) :
        i # j => (IF i < k THEN i ELSE i + 1) # (IF j < k THEN j ELSE j + 1)
  BY <1>1
<1>4. Distinct(tab, t)
  BY <1>2, <1>3 DEF Distinct
<1>5. QED
  BY <1>1, <1>4 DEF t

(* A fact is in the table once.                                            *)
LEMMA OncePerKey ==
  ASSUME NEW s, NEW tab, Distinct(tab, s), NEW k, k \notin {Zeros, Junk} \cup Shortened(tab),
         NEW i \in 1..Len(s), s[i].key = k
  PROVE  \A j \in 1..Len(s) : s[j].key = k => j = i
BY DEF Distinct

(* What is in the table besides the fact at i, and besides a fact that is  *)
(* not in it.                                                              *)
LEMMA BesidesAt ==
  ASSUME NEW s, NEW k, NEW i \in 1..Len(s), s[i].key = k,
         \A j \in 1..Len(s) : s[j].key = k => j = i
  PROVE  Besides(s, k) = RemoveAt(s, i)
<1>1. (CHOOSE j \in 1..Len(s) : s[j].key = k) = i
  OBVIOUS
<1>2. QED
  BY <1>1 DEF Besides

LEMMA BesidesNone ==
  ASSUME NEW s, NEW k, \A j \in 1..Len(s) : s[j].key # k
  PROVE  Besides(s, k) = s
BY DEF Besides

(* It is the table or one entry shorter, and its entries are, at their     *)
(* place or the one before, those of the table.                            *)
LEMMA BesidesIs ==
  ASSUME NEW S, NEW s \in Seq(S), NEW k
  PROVE  /\ Besides(s, k) \in Seq(S) /\ Len(Besides(s, k)) \in Nat
         /\ Len(Besides(s, k)) <= Len(s)
         /\ \A i \in 1..Len(Besides(s, k)) :
              \E j \in 1..(Len(Besides(s, k)) + 1) :
                j \in 1..Len(s) /\ s[j] = Besides(s, k)[i]
         /\ \A j \in 1..Len(s) : s[j].key # k =>
              \E i \in 1..Len(Besides(s, k)) : Besides(s, k)[i] = s[j]
<1>1. Len(s) \in Nat
  BY LenProperties
<1>2. CASE \A j \in 1..Len(s) : s[j].key # k
  <2>1. Besides(s, k) = s
    BY <1>2, BesidesNone
  <2>2. \A i \in 1..Len(s) : i \in 1..(Len(s) + 1)
    BY <1>1
  <2>3. QED
    BY <1>1, <2>1, <2>2
<1>3. CASE \E j \in 1..Len(s) : s[j].key = k
  <2> DEFINE c == CHOOSE j \in 1..Len(s) : s[j].key = k
  <2>1. c \in 1..Len(s) /\ s[c].key = k
    BY <1>3
  <2>2. Besides(s, k) = RemoveAt(s, c)
    BY <1>3 DEF Besides
  <2> HIDE DEF c
  <2> DEFINE t == RemoveAt(s, c)
  <2>3. /\ t \in Seq(S) /\ Len(t) = Len(s) - 1
        /\ \A i \in 1..(Len(s) - 1) : t[i] = IF i < c THEN s[i] ELSE s[i + 1]
    BY <2>1, RemoveAtProperties
  <2> HIDE DEF t
  <2>4. \A i \in 1..Len(t) : \E j \in 1..(Len(t) + 1) : j \in 1..Len(s) /\ s[j] = t[i]
    <3>1. ASSUME NEW i \in 1..Len(t)
          PROVE  \E j \in 1..(Len(t) + 1) : j \in 1..Len(s) /\ s[j] = t[i]
      <4>1. i \in 1..Len(s) /\ i + 1 \in 1..Len(s) /\ Len(t) + 1 = Len(s)
        BY <1>1, <2>3
      <4>2. t[i] = s[i] \/ t[i] = s[i + 1]
        BY <2>3
      <4>3. QED
        BY <4>1, <4>2
    <3>2. QED
      BY <3>1
  <2>5. ASSUME NEW j \in 1..Len(s), s[j].key # k
        PROVE  \E i \in 1..Len(t) : t[i] = s[j]
    <3>1. CASE j < c
      <4>1. j \in 1..Len(t) /\ t[j] = s[j]
        BY <1>1, <2>1, <2>3, <3>1
      <4>2. QED
        BY <4>1
    <3>2. CASE ~(j < c)
      <4>1. j # c
        BY <2>1, <2>5
      <4>2. j - 1 \in 1..Len(t) /\ ~(j - 1 < c) /\ j - 1 + 1 = j
        BY <1>1, <2>1, <2>3, <3>2, <4>1
      <4>3. t[j - 1] = s[j]
        BY <2>3, <4>2
      <4>4. QED
        BY <4>2, <4>3
    <3>3. QED
      BY <3>1, <3>2
  <2>6. Len(t) \in Nat /\ Len(t) <= Len(s)
    BY <1>1, <2>1, <2>3
  <2>7. Besides(s, k) = t
    BY <2>2 DEF t
  <2>8. QED
    BY <2>3, <2>4, <2>5, <2>6, <2>7
<1>4. QED
  BY <1>2, <1>3

LEMMA RemoveEqual ==
  ASSUME NEW S, NEW s \in Seq(S), NEW t \in Seq(S), Len(s) = Len(t),
         NEW k \in 1..Len(s), \A i \in 1..Len(s) : i # k => s[i] = t[i]
  PROVE  RemoveAt(s, k) = RemoveAt(t, k)
<1>1. Len(s) \in Nat
  BY LenProperties
<1>2. PICK u : u = RemoveAt(s, k)
  OBVIOUS
<1>3. PICK v : v = RemoveAt(t, k)
  OBVIOUS
<1>4. /\ u \in Seq(S) /\ Len(u) = Len(s) - 1
      /\ \A i \in 1..(Len(s) - 1) : u[i] = IF i < k THEN s[i] ELSE s[i + 1]
  BY <1>2, RemoveAtProperties
<1>5. /\ v \in Seq(S) /\ Len(v) = Len(s) - 1
      /\ \A i \in 1..(Len(s) - 1) : v[i] = IF i < k THEN t[i] ELSE t[i + 1]
  <2>1. k \in 1..Len(t)
    OBVIOUS
  <2>2. /\ v \in Seq(S) /\ Len(v) = Len(t) - 1
        /\ \A i \in 1..(Len(t) - 1) : v[i] = IF i < k THEN t[i] ELSE t[i + 1]
    BY <1>3, <2>1, RemoveAtProperties
  <2>3. QED
    BY <2>2
<1>6. ASSUME NEW i \in 1..(Len(s) - 1) PROVE u[i] = v[i]
  <2>1. CASE i < k
    BY <1>1, <1>4, <1>5, <2>1
  <2>2. CASE ~(i < k)
    <3>1. i + 1 \in 1..Len(s) /\ i + 1 # k
      BY <1>1, <2>2
    <3>2. QED
      BY <1>4, <1>5, <2>2, <3>1
  <2>3. QED
    BY <2>1, <2>2
<1>7. u = v
  BY <1>1, <1>4, <1>5, <1>6, SeqEqual
<1>8. QED
  BY <1>2, <1>3, <1>7

(* To add, to update or to remove a fact leaves the others as they are.    *)
LEMMA BesidesChange ==
  ASSUME NEW S, NEW s \in Seq(S), NEW tab, Distinct(tab, s),
         NEW k, k \notin {Zeros, Junk} \cup Shortened(tab),
         NEW e \in S, e.key = k
  PROVE  /\ (\A j \in 1..Len(s) : s[j].key # k) => Besides(Append(s, e), k) = Besides(s, k)
         /\ \A i \in 1..Len(s) : s[i].key = k =>
              /\ Besides(ReplaceAt(s, i, e), k) = Besides(s, k)
              /\ Besides(RemoveAt(s, i), k) = Besides(s, k)
<1>1. Len(s) \in Nat
  BY LenProperties
<1>2. ASSUME \A j \in 1..Len(s) : s[j].key # k
      PROVE  Besides(Append(s, e), k) = Besides(s, k)
  <2>1. PICK t : t = Append(s, e)
    OBVIOUS
  <2>2. /\ t \in Seq(S) /\ Len(t) = Len(s) + 1
        /\ \A i \in 1..Len(s) : t[i] = s[i]
        /\ t[Len(s) + 1] = e
    BY <2>1, AppendProperties
  <2>3. /\ Len(s) + 1 \in 1..Len(t) /\ t[Len(s) + 1].key = k
        /\ \A j \in 1..Len(t) : t[j].key = k => j = Len(s) + 1
    BY <1>1, <1>2, <2>2
  <2>4. Besides(t, k) = RemoveAt(t, Len(s) + 1)
    BY <2>3, BesidesAt
  <2>5. PICK u : u = RemoveAt(t, Len(s) + 1)
    OBVIOUS
  <2>6. /\ u \in Seq(S) /\ Len(u) = Len(t) - 1
        /\ \A i \in 1..(Len(t) - 1) : u[i] = IF i < Len(s) + 1 THEN t[i] ELSE t[i + 1]
    BY <2>2, <2>3, <2>5, RemoveAtProperties
  <2>7. Len(u) = Len(s) /\ \A i \in 1..Len(s) : u[i] = s[i]
    BY <1>1, <2>2, <2>6
  <2>8. u = s
    BY <2>6, <2>7, SeqEqual
  <2>9. Besides(s, k) = s
    BY <1>2, BesidesNone
  <2>10. QED
    BY <2>1, <2>4, <2>5, <2>8, <2>9
<1>3. ASSUME NEW i \in 1..Len(s), s[i].key = k
      PROVE  /\ Besides(ReplaceAt(s, i, e), k) = Besides(s, k)
             /\ Besides(RemoveAt(s, i), k) = Besides(s, k)
  <2>1. \A j \in 1..Len(s) : s[j].key = k => j = i
    BY <1>3, OncePerKey
  <2>2. Besides(s, k) = RemoveAt(s, i)
    BY <1>3, <2>1, BesidesAt
  <2>3. PICK t : t = ReplaceAt(s, i, e)
    OBVIOUS
  <2>4. /\ t \in Seq(S) /\ Len(t) = Len(s)
        /\ \A j \in 1..Len(s) : t[j] = IF j = i THEN e ELSE s[j]
    BY <1>3, <2>3, DistinctReplace
  <2>5. t[i].key = k /\ i \in 1..Len(t) /\ \A j \in 1..Len(t) : t[j].key = k => j = i
    BY <1>3, <2>1, <2>4
  <2>6. Besides(t, k) = RemoveAt(t, i)
    BY <2>5, BesidesAt
  <2>7. RemoveAt(t, i) = RemoveAt(s, i)
    BY <2>4, RemoveEqual
  <2>8. PICK u : u = RemoveAt(s, i)
    OBVIOUS
  <2>9. /\ Len(u) = Len(s) - 1
        /\ \A j \in 1..(Len(s) - 1) : u[j] = IF j < i THEN s[j] ELSE s[j + 1]
    BY <2>8, RemoveAtProperties
  <2>10. \A j \in 1..Len(u) : u[j].key # k
    <3>1. ASSUME NEW j \in 1..Len(u) PROVE u[j].key # k
      <4>1. CASE j < i
        <5>1. j \in 1..Len(s) /\ j # i /\ u[j] = s[j]
          BY <1>1, <2>9, <4>1
        <5>2. QED
          BY <2>1, <5>1
      <4>2. CASE ~(j < i)
        <5>1. j + 1 \in 1..Len(s) /\ j + 1 # i /\ u[j] = s[j + 1]
          BY <1>1, <2>9, <4>2
        <5>2. QED
          BY <2>1, <5>1
      <4>3. QED
        BY <4>1, <4>2
    <3>2. QED
      BY <3>1
  <2>11. Besides(u, k) = u
    BY <2>10, BesidesNone
  <2>12. QED
    BY <2>2, <2>3, <2>6, <2>7, <2>8, <2>11
<1>4. QED
  BY <1>2, <1>3

-----------------------------------------------------------------------------
(* What a start makes of the store.                                        *)

EntriesOf(t) == IF t = "ltm" THEN Facts ELSE Skills
MadeUp(t) == IF t = "ltm" THEN [key |-> Zeros, val |-> Zeros]
             ELSE [key |-> Junk, val |-> Junk]

LEMMA TableTypes ==
  ASSUME StoreTypeOK, NEW t \in Tables
  PROVE  /\ ram[t] \in Seq(EntriesOf(t)) /\ durable[t] \in Seq(EntriesOf(t))
         /\ Len(ram[t]) \in Nat
         /\ kvData[t] \in Seq(EntriesOf(t)) \cup {Absent}
         /\ kvCnt[t] \in 0..Limit(t) \cup {Absent} /\ Limit(t) \in Nat
         /\ MadeUp(t) \in EntriesOf(t)
         /\ kvData[t] # Absent => Len(kvData[t]) \in Nat
         /\ Absent \notin Nat /\ Absent \notin Seq(EntriesOf(t))
<1>1. t = "ltm" \/ t = "skill"
  BY DEF Tables
<1>2. /\ ram[t] \in Seq(EntriesOf(t)) /\ durable[t] \in Seq(EntriesOf(t))
      /\ kvData[t] \in Seq(EntriesOf(t)) \cup {Absent}
      /\ kvCnt[t] \in 0..Limit(t) \cup {Absent}
  BY <1>1 DEF StoreTypeOK, EntriesOf
<1>3. Limit(t) \in Nat /\ Absent \notin Nat /\ Absent \notin Seq(EntriesOf(t))
  BY <1>1, TableAssumption DEF Limit, EntriesOf
<1>4. MadeUp(t) \in EntriesOf(t)
  BY <1>1 DEF MadeUp, EntriesOf, Facts, Skills
<1>5. Len(ram[t]) \in Nat /\ (kvData[t] # Absent => Len(kvData[t]) \in Nat)
  BY <1>2, LenProperties
<1>6. QED
  BY <1>2, <1>3, <1>4, <1>5

(* A table that is not empty then is as long as the count, and what the    *)
(* blob does not have of it is made up.                                    *)
LEMMA LoadIs ==
  ASSUME StoreTypeOK, NEW t \in Tables
  PROVE  \/ Load(t) = <<>>
         \/ /\ Load(t) \in Seq(EntriesOf(t)) /\ kvCnt[t] \in 1..Limit(t)
            /\ Len(Load(t)) = kvCnt[t] /\ kvData[t] # Absent
            /\ \A i \in 1..kvCnt[t] :
                 Load(t)[i] = IF i <= Len(kvData[t]) THEN kvData[t][i] ELSE MadeUp(t)
<1> DEFINE n == IF kvCnt[t] = Absent THEN 0 ELSE kvCnt[t]
<1>1. SUFFICES ASSUME n # 0, GetBlob(t, n) # Absent
               PROVE  /\ Load(t) \in Seq(EntriesOf(t)) /\ kvCnt[t] \in 1..Limit(t)
                      /\ Len(Load(t)) = kvCnt[t] /\ kvData[t] # Absent
                      /\ \A i \in 1..kvCnt[t] :
                           Load(t)[i] = IF i <= Len(kvData[t]) THEN kvData[t][i]
                                        ELSE MadeUp(t)
  BY DEF Load
<1>2. n = kvCnt[t] /\ kvCnt[t] \in 1..Limit(t) /\ n \in Nat
  BY <1>1, TableTypes
<1>3. kvData[t] # Absent /\ kvData[t] \in Seq(EntriesOf(t)) /\ Len(kvData[t]) \in Nat
  BY <1>1, TableTypes DEF GetBlob
<1> DEFINE l == IF Len(kvData[t]) < n THEN Len(kvData[t]) ELSE n
           b == SubSeq(kvData[t], 1, l)
<1>4. GetBlob(t, n) = b
  BY <1>1 DEF GetBlob
<1>5. Load(t) = Pad(t, b, n)
  BY <1>1, <1>4 DEF Load
<1>6. l \in Nat /\ l <= n /\ l <= Len(kvData[t]) /\ (l = n \/ l = Len(kvData[t]))
  BY <1>2, <1>3
<1> HIDE DEF n, l
<1>7. Len(b) = l /\ \A i \in 1..l : b[i] = kvData[t][i]
  <2>1. \A i \in 1..l : kvData[t][i] \in EntriesOf(t)
    BY <1>3, <1>6, ElementOfSeq
  <2>2. /\ Len(b) = IF 1 <= l THEN l - 1 + 1 ELSE 0
        /\ \A i \in 1..(l - 1 + 1) : b[i] = kvData[t][1 + i - 1]
    BY <1>6, <2>1, SubSeqProperties
  <2>3. QED
    BY <1>6, <2>2
<1> HIDE DEF b
<1> DEFINE p == Pad(t, b, n)
<1>8. p = [i \in 1..n |-> IF i <= Len(b) THEN b[i] ELSE MadeUp(t)]
  BY DEF Pad, MadeUp
<1>9. ASSUME NEW i \in 1..n
      PROVE  /\ p[i] = IF i <= Len(kvData[t]) THEN kvData[t][i] ELSE MadeUp(t)
             /\ p[i] \in EntriesOf(t)
  <2>1. p[i] = IF i <= l THEN b[i] ELSE MadeUp(t)
    BY <1>7, <1>8
  <2>2. i <= l <=> i <= Len(kvData[t])
    BY <1>2, <1>3, <1>6
  <2>3. i <= l => i \in 1..l /\ i \in 1..Len(kvData[t])
    BY <1>2, <1>3, <1>6
  <2>4. i <= Len(kvData[t]) => kvData[t][i] \in EntriesOf(t)
    BY <1>3, <2>2, <2>3, ElementOfSeq
  <2>5. QED
    BY <1>7, <2>1, <2>2, <2>3, <2>4, TableTypes
<1>10. p \in Seq(EntriesOf(t)) /\ Len(p) = n
  <2>1. p \in [1..n -> EntriesOf(t)]
    BY <1>8, <1>9
  <2> HIDE DEF p
  <2>2. QED
    BY <1>2, <2>1
<1> HIDE DEF p
<1>11. QED
  BY <1>2, <1>3, <1>5, <1>9, <1>10 DEF p

LEMMA LoadEntries ==
  ASSUME StoreTypeOK, Entries, NEW t \in Tables
  PROVE  /\ Load(t) \in Seq(EntriesOf(t)) /\ Len(Load(t)) \in Nat
         /\ Len(Load(t)) <= Limit(t) /\ Distinct(t, Load(t))
<1>1. CASE Load(t) = <<>>
  BY <1>1, TableTypes DEF Distinct
<1>2. CASE Load(t) # <<>>
  <2>1. PICK s : s = Load(t)
    OBVIOUS
  <2>2. /\ s \in Seq(EntriesOf(t)) /\ kvCnt[t] \in 1..Limit(t)
        /\ Len(s) = kvCnt[t] /\ kvData[t] # Absent
        /\ \A i \in 1..kvCnt[t] :
             s[i] = IF i <= Len(kvData[t]) THEN kvData[t][i] ELSE MadeUp(t)
    BY <1>2, <2>1, LoadIs
  <2>3. PICK d : d = kvData[t]
    OBVIOUS
  <2>4. Distinct(t, d) /\ Len(d) \in Nat /\ MadeUp(t).key \in {Zeros, Junk}
        /\ Limit(t) \in Nat
    BY <2>2, <2>3, TableTypes DEF Entries, MadeUp
  <2>5. ASSUME NEW i \in 1..Len(s), NEW j \in 1..Len(s), i # j, s[i].key = s[j].key
        PROVE  s[i].key \in {Zeros, Junk} \cup Shortened(t)
    <3>1. i <= Len(d) /\ j <= Len(d) => i \in 1..Len(d) /\ j \in 1..Len(d)
      BY <2>2, <2>4
    <3>2. s[i] = IF i <= Len(d) THEN d[i] ELSE MadeUp(t)
      BY <2>2, <2>3, <2>5
    <3>3. s[j] = IF j <= Len(d) THEN d[j] ELSE MadeUp(t)
      BY <2>2, <2>3, <2>5
    <3>4. CASE i <= Len(d) /\ j <= Len(d)
      BY <2>4, <2>5, <3>1, <3>2, <3>3, <3>4 DEF Distinct
    <3>5. CASE ~(i <= Len(d) /\ j <= Len(d))
      BY <2>4, <2>5, <3>2, <3>3, <3>5
    <3>6. QED
      BY <3>4, <3>5
  <2>6. Distinct(t, s)
    BY <2>5 DEF Distinct
  <2>7. QED
    BY <2>1, <2>2, <2>4, <2>6
<1>3. QED
  BY <1>1, <1>2

(* Count and blob of a complete save are loaded as they were in RAM.       *)
LEMMA LoadComplete ==
  ASSUME StoreTypeOK, NEW t \in Tables,
         kvCnt[t] = Len(ram[t]), kvData[t] = Stored(t)
  PROVE  Load(t) = ram[t]
<1>1. PICK r : r = ram[t]
  OBVIOUS
<1>2. /\ r \in Seq(EntriesOf(t)) /\ Len(r) \in Nat /\ Absent \notin Nat
      /\ Absent \notin Seq(EntriesOf(t))
  BY <1>1, TableTypes
<1>3. CASE r = <<>>
  <2>1. kvCnt[t] = 0
    BY <1>1, <1>3
  <2>2. QED
    BY <1>1, <1>2, <1>3, <2>1 DEF Load
<1>4. CASE r # <<>>
  <2>1. Len(r) # 0
    BY <1>2, <1>4, EmptySeq
  <2>2. kvData[t] = r /\ kvCnt[t] = Len(r) /\ r # Absent /\ Len(r) # Absent
    BY <1>1, <1>2, <1>4 DEF Stored
  <2>3. GetBlob(t, Len(r)) = SubSeq(r, 1, Len(r))
    BY <1>2, <2>2 DEF GetBlob
  <2>4. SubSeq(r, 1, Len(r)) = r
    BY <1>2, SubSeqFull
  <2>5. Load(t) = Pad(t, r, Len(r))
    BY <2>1, <2>2, <2>3, <2>4 DEF Load
  <2>6. Pad(t, r, Len(r)) = [i \in 1..Len(r) |-> r[i]]
    BY <1>2 DEF Pad
  <2>7. [i \in 1..Len(r) |-> r[i]] = r
    BY <1>2, LenProperties
  <2>8. QED
    BY <1>1, <2>5, <2>6, <2>7
<1>5. QED
  BY <1>3, <1>4

-----------------------------------------------------------------------------
(* The invariant of the store.                                             *)

LEMMA EmptyTable ==
  ASSUME NEW S
  PROVE  <<>> \in Seq(S) /\ Len(<<>>) = 0 /\ \A t : Distinct(t, <<>>)
BY DEF Distinct

LEMMA StoreInitInv == StoreInit => StoreInv
<1> SUFFICES ASSUME StoreInit PROVE StoreInv
  OBVIOUS
<1> USE TableAssumption
<1>1. /\ ram = [t \in Tables |-> <<>>] /\ durable = ram
      /\ kvCnt = [t \in Tables |-> Absent] /\ kvData = [t \in Tables |-> Absent]
      /\ caller = [c \in Callers |-> Rest] /\ touched = [t \in Tables |-> {}]
      /\ alone = TRUE /\ changes = 0 /\ resets = 0 /\ failures = 0
      /\ backend \in Backends
  BY DEF StoreInit
<1>2. "ltm" \in Tables /\ "skill" \in Tables
  BY DEF Tables
<1>3. \A t \in Tables : Limit(t) \in Nat
  BY DEF Limit
<1>4. StoreTypeOK
  BY <1>1, <1>2 DEF StoreTypeOK, Rest
<1>5. \A c \in Callers : Idle(c)
  BY <1>1 DEF Idle, Rest
<1>6. Entries
  BY <1>1, <1>3, <1>5, EmptyTable DEF Entries
<1>7. SavesComplete
  BY <1>1, <1>5 DEF SavesComplete, Load
<1>8. \A k : Besides(<<>>, k) = <<>>
  BY EmptyTable DEF Besides
<1>9. OneChanged
  BY <1>1, <1>2, <1>5, <1>8 DEF OneChanged
<1>10. QED
  BY <1>4, <1>6, <1>7, <1>9 DEF StoreInv

(* A change of a table in RAM that keeps it within its limit and, of the   *)
(* long-term memory, the other facts as they are.                          *)
LEMMA ChangeInv ==
  ASSUME StoreInv, NEW c \in Callers, NEW t \in Tables,
         NEW k \in Keys \cup Names, t = "ltm" => k \in Keys,
         NEW new \in Seq(EntriesOf(t)), Len(new) <= Limit(t), Distinct(t, new),
         t = "ltm" /\ k \notin Shortened("ltm") => Besides(new, k) = Besides(ram["ltm"], k),
         Change(c, t, k, new)
  PROVE  StoreInv'
<1>1. /\ Idle(c) /\ ram' = [ram EXCEPT ![t] = new]
      /\ caller' = [caller EXCEPT ![c] = [pc |-> "cnt", table |-> t, cnt |-> Len(new)]]
      /\ touched' = [touched EXCEPT ![t] = @ \cup {k}]
      /\ alone' = (\A d \in Callers : Idle(d))
      /\ changes < MaxChanges /\ changes' = changes + 1
      /\ UNCHANGED <<backend, kvCnt, kvData, resets, failures, durable>>
  BY DEF Change, CountToSave
<1>2. StoreTypeOK /\ Entries /\ SavesComplete /\ OneChanged
  BY DEF StoreInv
<1>3. /\ t = "ltm" \/ t = "skill"
      /\ "ltm" \in Tables /\ "skill" \in Tables
  BY DEF Tables
<1>4. Len(new) \in Nat
  BY LenProperties
<1>5. /\ ram \in [Tables -> Seq(Facts) \cup Seq(Skills)]
      /\ touched \in [Tables -> SUBSET (Keys \cup Names)]
      /\ caller \in [Callers -> [pc : {"idle", "cnt", "data", "bad"},
                                 table : Tables, cnt : Nat]]
  BY <1>2 DEF StoreTypeOK
<1>6. /\ ram'[t] = new /\ \A u \in Tables : u # t => ram'[u] = ram[u]
      /\ touched'[t] = touched[t] \cup {k}
      /\ \A u \in Tables : u # t => touched'[u] = touched[u]
      /\ caller'[c] = [pc |-> "cnt", table |-> t, cnt |-> Len(new)]
      /\ \A d \in Callers : d # c => caller'[d] = caller[d]
  BY <1>1, <1>5
<1>7. StoreTypeOK'
  <2>1. new \in Seq(Facts) \cup Seq(Skills)
    BY <1>3 DEF EntriesOf
  <2>2. /\ ram' \in [Tables -> Seq(Facts) \cup Seq(Skills)]
        /\ touched' \in [Tables -> SUBSET (Keys \cup Names)]
        /\ caller' \in [Callers -> [pc : {"idle", "cnt", "data", "bad"},
                                    table : Tables, cnt : Nat]]
    BY <1>1, <1>4, <1>5, <2>1
  <2>3. ram'["ltm"] \in Seq(Facts) /\ ram'["skill"] \in Seq(Skills)
        /\ touched'["ltm"] \subseteq Keys
    BY <1>2, <1>3, <1>6 DEF StoreTypeOK, EntriesOf
  <2>4. changes' \in 0..MaxChanges
    BY <1>1, <1>2, TableAssumption DEF StoreTypeOK
  <2>5. alone' \in BOOLEAN
    BY <1>1
  <2>6. QED
    BY <1>1, <1>2, <2>2, <2>3, <2>4, <2>5 DEF StoreTypeOK
<1>8. /\ \A d \in Callers : ~Idle(d)' <=> d = c \/ ~Idle(d)
      /\ alone' => \A d \in Callers \ {c} : Idle(d)'
  BY <1>1, <1>6 DEF Idle
<1>9. Entries'
  <2>1. ASSUME NEW u \in Tables
        PROVE  /\ Len(ram'[u]) <= Limit(u) /\ Distinct(u, ram'[u])
               /\ kvData'[u] # Absent => Distinct(u, kvData'[u])
               /\ \A d \in Callers : ~Idle(d)' /\ caller'[d].table = u =>
                    caller'[d].cnt <= Limit(u)
    <3>1. Len(ram'[u]) <= Limit(u) /\ Distinct(u, ram'[u])
      BY <1>2, <1>6 DEF Entries
    <3>2. kvData'[u] # Absent => Distinct(u, kvData'[u])
      BY <1>1, <1>2 DEF Entries
    <3>3. ASSUME NEW d \in Callers, ~Idle(d)', caller'[d].table = u
          PROVE  caller'[d].cnt <= Limit(u)
      BY <1>2, <1>6, <1>8, <3>3 DEF Entries
    <3>4. QED
      BY <3>1, <3>2, <3>3
  <2>2. QED
    BY <2>1 DEF Entries
<1>10. \A u : Load(u)' = Load(u)
  BY <1>1 DEF Load, GetBlob, Pad
<1>11. SavesComplete'
  <2>1. ASSUME NEW u \in Tables, touched'[u] = {}
        PROVE  Load(u)' = durable'[u] /\ ram'[u] = durable'[u]
    <3>1. u # t
      BY <1>6, <2>1
    <3>2. QED
      BY <1>1, <1>2, <1>6, <1>10, <2>1, <3>1 DEF SavesComplete
  <2>2. ASSUME NEW d \in Callers, ~Idle(d)'
        PROVE  /\ touched'[caller'[d].table] # {}
               /\ alone' => /\ \A e \in Callers \ {d} : Idle(e)'
                            /\ caller'[d].cnt = Len(ram'[caller'[d].table])
                            /\ caller'[d].pc = "data" =>
                                 kvCnt'[caller'[d].table] = caller'[d].cnt
    <3>1. CASE d = c
      <4>1. /\ caller'[d].table = t /\ caller'[d].cnt = Len(new) /\ caller'[d].pc = "cnt"
            /\ k \in touched'[t] /\ ram'[t] = new
        BY <1>6, <3>1
      <4>2. alone' => \A e \in Callers \ {d} : Idle(e)'
        BY <1>8, <3>1
      <4>3. QED
        BY <4>1, <4>2
    <3>2. CASE d # c
      <4>1. ~Idle(d) /\ caller'[d] = caller[d] /\ ~alone' /\ caller[d].table \in Tables
        BY <1>1, <1>5, <1>6, <1>8, <2>2, <3>2
      <4>2. touched[caller[d].table] # {}
        BY <1>2, <4>1 DEF SavesComplete
      <4>3. QED
        BY <1>6, <4>1, <4>2
    <3>3. QED
      BY <3>1, <3>2
  <2>3. QED
    BY <2>1, <2>2 DEF SavesComplete
<1>12. OneChanged'
  <2> SUFFICES ASSUME NEW l \in Keys \ Shortened("ltm"), touched'["ltm"] \subseteq {l}
               PROVE  LET others == Besides(durable'["ltm"], l)
                          n == Len(others)
                      IN  /\ Besides(ram'["ltm"], l) = others
                          /\ \A d \in Callers : ~Idle(d)' /\ caller'[d].table = "ltm" =>
                               caller'[d].cnt >= n
                          /\ n > 0 =>
                               /\ kvCnt'["ltm"] # Absent /\ kvCnt'["ltm"] >= n
                               /\ kvData'["ltm"] # Absent
                               /\ \A i \in 1..n : \E j \in 1..(n + 1) :
                                    Loaded(j)' = others[i]
    BY DEF OneChanged
  <2> DEFINE others == Besides(durable["ltm"], l)
             n == Len(others)
  <2>1. touched["ltm"] \subseteq {l} /\ (t = "ltm" => k = l)
    BY <1>3, <1>6
  <2>2. /\ Besides(ram["ltm"], l) = others
        /\ \A d \in Callers : ~Idle(d) /\ caller[d].table = "ltm" => caller[d].cnt >= n
        /\ n > 0 => /\ kvCnt["ltm"] # Absent /\ kvCnt["ltm"] >= n
                    /\ kvData["ltm"] # Absent
                    /\ \A i \in 1..n : \E j \in 1..(n + 1) : Loaded(j) = others[i]
    BY <1>2, <2>1 DEF OneChanged
  <2>3. Besides(durable'["ltm"], l) = others /\ \A j : Loaded(j)' = Loaded(j)
    BY <1>1 DEF Loaded
  <2>4. Besides(ram'["ltm"], l) = others
    BY <1>3, <1>6, <2>1, <2>2
  <2>5. t = "ltm" => Len(new) >= n
    <3>1. ASSUME t = "ltm" PROVE Len(new) >= n
      <4>1. Besides(new, l) = others
        BY <1>6, <2>4, <3>1
      <4>2. Len(Besides(new, l)) \in Nat /\ Len(Besides(new, l)) <= Len(new)
        BY BesidesIs
      <4>3. QED
        BY <1>4, <4>1, <4>2
    <3>2. QED
      BY <3>1
  <2>6. ASSUME NEW d \in Callers, ~Idle(d)', caller'[d].table = "ltm"
        PROVE  caller'[d].cnt >= n
    BY <1>6, <1>8, <2>2, <2>5, <2>6
  <2> HIDE DEF others
  <2>7. QED
    BY <1>1, <2>2, <2>3, <2>4, <2>6
<1>13. QED
  BY <1>7, <1>9, <1>11, <1>12 DEF StoreInv

LEMMA IndexIs ==
  ASSUME NEW t, NEW k, Has(t, k)
  PROVE  Index(t, k) \in 1..Len(ram[t]) /\ ram[t][Index(t, k)].key = k
<1> DEFINE B == {i \in 1..Len(ram[t]) : ram[t][i].key = k}
<1>1. B \subseteq Nat /\ B # {}
  BY DEF Has
<1>2. PICK m \in B : \A i \in B : m <= i
  BY <1>1, LeastElement
<1>3. ASSUME NEW j \in 1..(m - 1) PROVE ram[t][j].key # k
  <2>1. j \in Nat /\ m \in Nat /\ j < m /\ j \in 1..m
    BY <1>1
  <2>2. j \notin B
    BY <1>2, <2>1
  <2>3. j \in 1..Len(ram[t])
    BY <1>2, <2>1
  <2>4. QED
    BY <2>2, <2>3
<1>4. m \in 1..Len(ram[t]) /\ ram[t][m].key = k /\ \A j \in 1..(m - 1) : ram[t][j].key # k
  BY <1>2, <1>3
<1>5. QED
  BY <1>4 DEF Index

(* The operations of the tools and of the shell.                           *)
LEMMA LtmSaveInv ==
  ASSUME StoreInv, NEW c \in Callers, NEW k \in Keys, NEW v \in Values, LtmSave(c, k, v)
  PROVE  StoreInv'
<1>1. PICK s : s = ram["ltm"]
  OBVIOUS
<1>2. "ltm" \in Tables /\ EntriesOf("ltm") = Facts /\ Limit("ltm") = MaxFacts
  BY DEF Tables, EntriesOf, Limit
<1>3. /\ s \in Seq(Facts) /\ Len(s) \in Nat /\ Len(s) <= MaxFacts /\ Distinct("ltm", s)
      /\ MaxFacts \in Nat
  <2>1. StoreTypeOK /\ Entries
    BY DEF StoreInv
  <2>2. ram["ltm"] \in Seq(EntriesOf("ltm")) /\ Len(ram["ltm"]) \in Nat
    BY <1>2, <2>1, TableTypes
  <2>3. QED
    BY <1>1, <1>2, <2>1, <2>2, TableAssumption DEF Entries
<1>4. \A l \in Keys : l \notin {Zeros, Junk} /\ l \in Keys \cup Names
  BY TableAssumption
<1>5. CASE /\ Has("ltm", k)
           /\ Change(c, "ltm", k, [ram["ltm"] EXCEPT ![Index("ltm", k)].val = v])
  <2>1. PICK i \in 1..Len(s) : i = Index("ltm", k) /\ s[i].key = k
    BY <1>1, <1>5, IndexIs
  <2>2. PICK e : e = [s[i] EXCEPT !.val = v]
    OBVIOUS
  <2>3. e \in Facts /\ e.key = k
    <3>1. s[i] \in Facts
      BY <1>3, <2>1, ElementOfSeq
    <3>2. QED
      BY <2>1, <2>2, <3>1 DEF Facts
  <2>4. PICK new : new = ReplaceAt(s, i, e)
    OBVIOUS
  <2>5. new \in Seq(Facts) /\ Len(new) = Len(s) /\ Distinct("ltm", new)
    BY <1>3, <2>1, <2>3, <2>4, DistinctReplace
  <2>6. k \notin Shortened("ltm") => Besides(new, k) = Besides(s, k)
    BY <1>3, <1>4, <2>1, <2>3, <2>4, BesidesChange
  <2>7. Change(c, "ltm", k, new)
    <3>1. [s EXCEPT ![i].val = v] = [s EXCEPT ![i] = e]
      BY <2>2
    <3>2. QED
      BY <1>1, <1>5, <2>1, <2>4, <3>1 DEF ReplaceAt
  <2>8. QED
    BY <1>1, <1>2, <1>3, <1>4, <2>5, <2>6, <2>7, ChangeInv
<1>6. CASE /\ ~Has("ltm", k) /\ Len(ram["ltm"]) < MaxFacts
           /\ Change(c, "ltm", Cut["ltm"][k],
                     Append(ram["ltm"], [key |-> Cut["ltm"][k], val |-> v]))
  <2>1. PICK l \in Keys : l = Cut["ltm"][k]
    BY CutAssumption
  <2>2. PICK e : e = [key |-> l, val |-> v]
    OBVIOUS
  <2>3. e \in Facts /\ e.key = l
    BY <2>2 DEF Facts
  <2>4. l \in Shortened("ltm") \/ \A i \in 1..Len(s) : s[i].key # l
    <3>1. CASE l = k
      BY <1>1, <1>6, <3>1 DEF Has
    <3>2. CASE l # k
      BY <2>1, <3>2, CutAssumption DEF Shortened
    <3>3. QED
      BY <3>1, <3>2
  <2>5. PICK new : new = Append(s, e)
    OBVIOUS
  <2>6. new \in Seq(Facts) /\ Len(new) = Len(s) + 1 /\ Distinct("ltm", new)
    BY <1>3, <2>3, <2>4, <2>5, DistinctAppend
  <2>7. l \notin Shortened("ltm") => Besides(new, l) = Besides(s, l)
    BY <1>3, <1>4, <2>3, <2>4, <2>5, BesidesChange
  <2>8. Change(c, "ltm", l, new) /\ Len(new) <= MaxFacts
    BY <1>1, <1>3, <1>6, <2>1, <2>2, <2>5, <2>6
  <2>9. QED
    BY <1>1, <1>2, <1>4, <2>6, <2>7, <2>8, ChangeInv
<1>7. QED
  BY <1>5, <1>6 DEF LtmSave

LEMMA LtmDeleteInv ==
  ASSUME StoreInv, NEW c \in Callers, NEW k \in Keys, LtmDelete(c, k)
  PROVE  StoreInv'
<1>1. PICK s : s = ram["ltm"]
  OBVIOUS
<1>2. "ltm" \in Tables /\ EntriesOf("ltm") = Facts /\ Limit("ltm") = MaxFacts
  BY DEF Tables, EntriesOf, Limit
<1>3. /\ s \in Seq(Facts) /\ Len(s) \in Nat /\ Len(s) <= MaxFacts /\ Distinct("ltm", s)
      /\ MaxFacts \in Nat
  <2>1. StoreTypeOK /\ Entries
    BY DEF StoreInv
  <2>2. ram["ltm"] \in Seq(EntriesOf("ltm")) /\ Len(ram["ltm"]) \in Nat
    BY <1>2, <2>1, TableTypes
  <2>3. QED
    BY <1>1, <1>2, <2>1, <2>2, TableAssumption DEF Entries
<1>4. PICK e : e = [key |-> k, val |-> Zeros]
  OBVIOUS
<1>5. e \in Facts /\ e.key = k /\ k \in Keys \cup Names
  BY <1>4 DEF Facts
<1>6. k \notin {Zeros, Junk}
  BY TableAssumption
<1>7. PICK i \in 1..Len(s) : i = Index("ltm", k) /\ s[i].key = k
  BY <1>1, IndexIs DEF LtmDelete
<1>8. PICK new : new = RemoveAt(s, i)
  OBVIOUS
<1>9. new \in Seq(Facts) /\ Len(new) = Len(s) - 1 /\ Distinct("ltm", new)
  BY <1>3, <1>7, <1>8, DistinctRemove
<1>10. k \notin Shortened("ltm") => Besides(new, k) = Besides(s, k)
  BY <1>3, <1>5, <1>6, <1>7, <1>8, BesidesChange
<1>11. Change(c, "ltm", k, new) /\ Len(new) <= MaxFacts
  BY <1>1, <1>3, <1>7, <1>8, <1>9 DEF LtmDelete
<1>12. QED
  BY <1>1, <1>2, <1>3, <1>5, <1>9, <1>10, <1>11, ChangeInv

LEMMA SkillInv ==
  ASSUME StoreInv, NEW k \in Names, CreateSkill(k) \/ DeleteSkill(k)
  PROVE  StoreInv'
<1>1. PICK s : s = ram["skill"]
  OBVIOUS
<1>2. /\ "skill" \in Tables /\ EntriesOf("skill") = Skills /\ Limit("skill") = MaxSkills
      /\ "ai" \in Callers /\ k \in Keys \cup Names
  BY DEF Tables, EntriesOf, Limit, Callers
<1>3. /\ s \in Seq(Skills) /\ Len(s) \in Nat /\ Len(s) <= MaxSkills /\ Distinct("skill", s)
      /\ MaxSkills \in Nat
  <2>1. StoreTypeOK /\ Entries
    BY DEF StoreInv
  <2>2. ram["skill"] \in Seq(EntriesOf("skill")) /\ Len(ram["skill"]) \in Nat
    BY <1>2, <2>1, TableTypes
  <2>3. QED
    BY <1>1, <1>2, <2>1, <2>2, TableAssumption DEF Entries
<1>4. CASE CreateSkill(k)
  <2>1. PICK l \in Names : l = Cut["skill"][k]
    BY CutAssumption
  <2>2. PICK e : e = [key |-> l, val |-> k]
    OBVIOUS
  <2>3. e \in Skills /\ e.key = l
    BY <2>2 DEF Skills
  <2>4. l \in Shortened("skill") \/ \A i \in 1..Len(s) : s[i].key # l
    <3>1. CASE l = k
      BY <1>1, <1>4, <3>1 DEF CreateSkill, Has
    <3>2. CASE l # k
      BY <2>1, <3>2, CutAssumption DEF Shortened
    <3>3. QED
      BY <3>1, <3>2
  <2>5. PICK new : new = Append(s, e)
    OBVIOUS
  <2>6. new \in Seq(Skills) /\ Len(new) = Len(s) + 1 /\ Distinct("skill", new)
    BY <1>3, <2>3, <2>4, <2>5, DistinctAppend
  <2>7. Change("ai", "skill", l, new) /\ Len(new) <= MaxSkills
    BY <1>1, <1>3, <1>4, <2>1, <2>2, <2>5, <2>6 DEF CreateSkill
  <2>8. l \in Keys \cup Names
    OBVIOUS
  <2>9. QED
    BY <1>2, <2>6, <2>7, <2>8, ChangeInv
<1>5. CASE DeleteSkill(k)
  <2>1. PICK i \in 1..Len(s) : i = Index("skill", k)
    BY <1>1, <1>5, IndexIs DEF DeleteSkill
  <2>2. PICK new : new = RemoveAt(s, i)
    OBVIOUS
  <2>3. new \in Seq(Skills) /\ Len(new) = Len(s) - 1 /\ Distinct("skill", new)
    BY <1>3, <2>2, DistinctRemove
  <2>4. Change("ai", "skill", k, new) /\ Len(new) <= MaxSkills
    BY <1>1, <1>3, <1>5, <2>1, <2>2, <2>3 DEF DeleteSkill
  <2>5. QED
    BY <1>2, <2>3, <2>4, ChangeInv
<1>6. QED
  BY <1>4, <1>5

(* What is loaded depends on the store alone.                              *)
LEMMA LoadSame ==
  ASSUME NEW u, kvCnt'[u] = kvCnt[u], kvData'[u] = kvData[u], backend' = backend
  PROVE  Load(u)' = Load(u)
BY DEF Load, GetBlob, Pad

LEMMA LoadCompleteAll ==
  \A u \in Tables :
    StoreTypeOK /\ kvCnt[u] = Len(ram[u]) /\ kvData[u] = Stored(u) => Load(u) = ram[u]
BY LoadComplete

(* The first half of a save: the count is written, or is not.              *)
LEMMA SetCntInv ==
  ASSUME StoreInv, NEW c \in Callers, SetCnt(c)
  PROVE  StoreInv'
<1> DEFINE t == caller[c].table
<1>1. /\ caller[c].pc = "cnt"
      /\ \/ /\ failures' = failures
            /\ kvCnt' = [kvCnt EXCEPT ![t] = caller[c].cnt]
            /\ caller' = [caller EXCEPT ![c].pc = "data"]
         \/ /\ failures < MaxFailures /\ failures' = failures + 1
            /\ kvCnt' = kvCnt
            /\ caller' = [caller EXCEPT ![c] = IF t = "ltm" THEN Rest
                                               ELSE [@ EXCEPT !.pc = "bad"]]
      /\ UNCHANGED <<backend, ram, kvData, changes, resets, alone, durable, touched>>
  BY DEF SetCnt, Succeeds, Fails, history
<1>2. StoreTypeOK /\ Entries /\ SavesComplete /\ OneChanged
  BY DEF StoreInv
<1>3. /\ caller \in [Callers -> [pc : {"idle", "cnt", "data", "bad"},
                                 table : Tables, cnt : Nat]]
      /\ kvCnt \in [Tables -> Nat \cup {Absent}]
      /\ "ltm" \in Tables /\ t \in Tables /\ caller[c].cnt \in Nat
  BY <1>2 DEF StoreTypeOK, Tables
<1>4. /\ ~Idle(c) /\ caller[c].cnt <= Limit(t) /\ touched[t] # {}
      /\ alone => \A d \in Callers \ {c} : Idle(d)
  BY <1>1, <1>2, <1>3 DEF Idle, Entries, SavesComplete
<1>5. /\ \A u \in Tables : u # t => kvCnt'[u] = kvCnt[u]
      /\ kvCnt'[t] = kvCnt[t] \/ kvCnt'[t] = caller[c].cnt
      /\ \A d \in Callers : d # c => caller'[d] = caller[d]
      /\ \/ caller'[c] = Rest
         \/ /\ caller'[c].table = t /\ caller'[c].cnt = caller[c].cnt
            /\ caller'[c].pc = "data" => kvCnt'[t] = caller[c].cnt
  BY <1>1, <1>3
<1>6. StoreTypeOK'
  <2>1. caller' \in [Callers -> [pc : {"idle", "cnt", "data", "bad"},
                                 table : Tables, cnt : Nat]]
    BY <1>1, <1>3 DEF Rest
  <2>2. kvCnt' \in [Tables -> Nat \cup {Absent}]
    BY <1>1, <1>3
  <2>3. \A u \in Tables : kvCnt'[u] \in 0..Limit(u) \cup {Absent}
    <3>1. caller[c].cnt \in 0..Limit(t)
      BY <1>2, <1>3, <1>4, TableTypes
    <3>2. QED
      BY <1>2, <1>5, <3>1 DEF StoreTypeOK
  <2>4. failures' \in 0..MaxFailures
    BY <1>1, <1>2, TableAssumption DEF StoreTypeOK
  <2>5. QED
    BY <1>1, <1>2, <2>1, <2>2, <2>3, <2>4 DEF StoreTypeOK
<1>7. \A d \in Callers : ~Idle(d)' =>
        /\ ~Idle(d) /\ caller'[d].table = caller[d].table
        /\ caller'[d].cnt = caller[d].cnt /\ caller[d].table \in Tables
  BY <1>3, <1>4, <1>5 DEF Idle, Rest
<1>8. Entries'
  BY <1>1, <1>2, <1>7 DEF Entries
<1>9. \A u \in Tables : u # t => Load(u)' = Load(u)
  BY <1>1, <1>5, LoadSame
<1>10. SavesComplete'
  <2>1. ASSUME NEW u \in Tables, touched'[u] = {}
        PROVE  Load(u)' = durable'[u] /\ ram'[u] = durable'[u]
    BY <1>1, <1>2, <1>4, <1>9, <2>1 DEF SavesComplete
  <2>2. ASSUME NEW d \in Callers, ~Idle(d)'
        PROVE  /\ touched'[caller'[d].table] # {}
               /\ alone' => /\ \A e \in Callers \ {d} : Idle(e)'
                            /\ caller'[d].cnt = Len(ram'[caller'[d].table])
                            /\ caller'[d].pc = "data" =>
                                 kvCnt'[caller'[d].table] = caller'[d].cnt
    <3>1. ~Idle(d) /\ touched'[caller'[d].table] # {}
      BY <1>1, <1>2, <1>7, <2>2 DEF SavesComplete
    <3>2. ASSUME alone'
          PROVE  /\ \A e \in Callers \ {d} : Idle(e)'
                 /\ caller'[d].cnt = Len(ram'[caller'[d].table])
                 /\ caller'[d].pc = "data" =>
                      kvCnt'[caller'[d].table] = caller'[d].cnt
      <4>1. alone /\ d = c
        BY <1>1, <1>4, <3>1, <3>2
      <4>2. \A e \in Callers \ {d} : Idle(e)'
        BY <1>4, <1>7, <4>1
      <4>3. caller'[d].cnt = Len(ram'[caller'[d].table])
        BY <1>1, <1>2, <1>7, <2>2, <4>1 DEF SavesComplete
      <4>4. caller'[d].pc = "data" => kvCnt'[caller'[d].table] = caller'[d].cnt
        BY <1>5, <1>7, <2>2, <4>1 DEF Idle, Rest
      <4>5. QED
        BY <4>2, <4>3, <4>4
    <3>3. QED
      BY <3>1, <3>2
  <2>3. QED
    BY <2>1, <2>2 DEF SavesComplete
<1>11. OneChanged'
  <2> SUFFICES ASSUME NEW l \in Keys \ Shortened("ltm"), touched'["ltm"] \subseteq {l}
               PROVE  LET others == Besides(durable'["ltm"], l)
                          n == Len(others)
                      IN  /\ Besides(ram'["ltm"], l) = others
                          /\ \A d \in Callers : ~Idle(d)' /\ caller'[d].table = "ltm" =>
                               caller'[d].cnt >= n
                          /\ n > 0 =>
                               /\ kvCnt'["ltm"] # Absent /\ kvCnt'["ltm"] >= n
                               /\ kvData'["ltm"] # Absent
                               /\ \A i \in 1..n : \E j \in 1..(n + 1) :
                                    Loaded(j)' = others[i]
    BY DEF OneChanged
  <2> DEFINE others == Besides(durable["ltm"], l)
             n == Len(others)
  <2>1. /\ Besides(ram["ltm"], l) = others
        /\ \A d \in Callers : ~Idle(d) /\ caller[d].table = "ltm" => caller[d].cnt >= n
        /\ n > 0 => /\ kvCnt["ltm"] # Absent /\ kvCnt["ltm"] >= n
                    /\ kvData["ltm"] # Absent
                    /\ \A i \in 1..n : \E j \in 1..(n + 1) : Loaded(j) = others[i]
    BY <1>1, <1>2 DEF OneChanged
  <2>2. /\ Besides(durable'["ltm"], l) = others /\ Besides(ram'["ltm"], l) = others
        /\ kvData' = kvData /\ \A j : Loaded(j)' = Loaded(j)
    BY <1>1, <2>1 DEF Loaded
  <2> HIDE DEF others
  <2>3. \A d \in Callers : ~Idle(d)' /\ caller'[d].table = "ltm" => caller'[d].cnt >= n
    BY <1>7, <2>1
  <2>4. n > 0 => kvCnt'["ltm"] # Absent /\ kvCnt'["ltm"] >= n
    <3>1. CASE kvCnt'["ltm"] = kvCnt["ltm"]
      BY <2>1, <3>1
    <3>2. CASE kvCnt'["ltm"] # kvCnt["ltm"]
      <4>1. t = "ltm" /\ kvCnt'["ltm"] = caller[c].cnt
        BY <1>3, <1>5, <3>2
      <4>2. QED
        BY <1>3, <1>4, <2>1, <4>1, TableAssumption
    <3>3. QED
      BY <3>1, <3>2
  <2>5. QED
    BY <2>1, <2>2, <2>3, <2>4
<1>12. QED
  BY <1>6, <1>8, <1>10, <1>11 DEF StoreInv

LEMMA LoadCompleteNext ==
  ASSUME StoreTypeOK', NEW t \in Tables,
         kvCnt'[t] = Len(ram'[t]), kvData'[t] = Stored(t)'
  PROVE  Load(t)' = ram'[t]
<1>1. (\A u \in Tables :
         StoreTypeOK /\ kvCnt[u] = Len(ram[u]) /\ kvData[u] = Stored(u)
           => Load(u) = ram[u])'
  BY LoadCompleteAll, PTL
<1>2. QED
  BY <1>1

(* The second half: the entries are written, or are not.                   *)
LEMMA SetDataInv ==
  ASSUME StoreInv, NEW c \in Callers, SetData(c)
  PROVE  StoreInv'
<1>0. PICK t : t = caller[c].table
  OBVIOUS
<1> DEFINE complete == caller[c].pc = "data" /\ alone
<1>1. /\ caller[c].pc \in {"data", "bad"}
      /\ caller' = [caller EXCEPT ![c] = Rest]
      /\ \/ /\ failures' = failures
            /\ kvData' = [kvData EXCEPT ![t] = Stored(t)]
            /\ \/ /\ complete
                  /\ durable' = [durable EXCEPT ![t] = ram[t]]
                  /\ touched' = [touched EXCEPT ![t] = {}]
               \/ durable' = durable /\ touched' = touched
         \/ /\ failures < MaxFailures /\ failures' = failures + 1
            /\ UNCHANGED <<kvData, durable, touched>>
      /\ UNCHANGED <<backend, ram, kvCnt, changes, resets, alone>>
  BY <1>0 DEF SetData, Succeeds, Fails
<1>2. StoreTypeOK /\ Entries /\ SavesComplete /\ OneChanged
  BY DEF StoreInv
<1>3. /\ caller \in [Callers -> [pc : {"idle", "cnt", "data", "bad"},
                                 table : Tables, cnt : Nat]]
      /\ kvData \in [Tables -> Seq(Facts) \cup Seq(Skills) \cup {Absent}]
      /\ durable \in [Tables -> Seq(Facts) \cup Seq(Skills)]
      /\ touched \in [Tables -> SUBSET (Keys \cup Names)]
      /\ "ltm" \in Tables /\ "skill" \in Tables /\ t \in Tables
      /\ t = "ltm" \/ t = "skill"
  BY <1>0, <1>2 DEF StoreTypeOK, Tables
<1>4. /\ ~Idle(c) /\ touched[t] # {}
      /\ alone => /\ \A d \in Callers \ {c} : Idle(d)
                  /\ caller[c].cnt = Len(ram[t])
                  /\ caller[c].pc = "data" => kvCnt[t] = caller[c].cnt
  BY <1>0, <1>1, <1>2, <1>3 DEF Idle, SavesComplete
<1>5. /\ \A u \in Tables : u # t =>
           kvData'[u] = kvData[u] /\ durable'[u] = durable[u] /\ touched'[u] = touched[u]
      /\ kvData'[t] = kvData[t] \/ kvData'[t] = Stored(t)
      /\ \A d \in Callers : d # c => caller'[d] = caller[d]
      /\ caller'[c] = Rest
      /\ \/ durable'[t] = durable[t] /\ touched'[t] = touched[t]
         \/ /\ complete /\ durable'[t] = ram[t] /\ touched'[t] = {}
            /\ kvData'[t] = Stored(t)
  BY <1>1, <1>3
<1>6. Stored(t) = ram[t] \/ (Stored(t) = Absent /\ t = "skill")
  BY DEF Stored
<1>7. StoreTypeOK'
  <2>1. caller' \in [Callers -> [pc : {"idle", "cnt", "data", "bad"},
                                 table : Tables, cnt : Nat]]
    BY <1>1, <1>3 DEF Rest
  <2>2. ram[t] \in Seq(Facts) \cup Seq(Skills)
    BY <1>2, <1>3 DEF StoreTypeOK
  <2>3. /\ kvData' \in [Tables -> Seq(Facts) \cup Seq(Skills) \cup {Absent}]
        /\ durable' \in [Tables -> Seq(Facts) \cup Seq(Skills)]
        /\ touched' \in [Tables -> SUBSET (Keys \cup Names)]
    BY <1>1, <1>3, <1>6, <2>2
  <2>4. /\ kvData'["ltm"] \in Seq(Facts) \cup {Absent}
        /\ kvData'["skill"] \in Seq(Skills) \cup {Absent}
    BY <1>2, <1>3, <1>5, <1>6 DEF StoreTypeOK
  <2>5. /\ durable'["ltm"] \in Seq(Facts) /\ durable'["skill"] \in Seq(Skills)
        /\ touched'["ltm"] \subseteq Keys
    BY <1>2, <1>3, <1>5 DEF StoreTypeOK
  <2>6. failures' \in 0..MaxFailures
    BY <1>1, <1>2, TableAssumption DEF StoreTypeOK
  <2>7. QED
    BY <1>1, <1>2, <2>1, <2>3, <2>4, <2>5, <2>6 DEF StoreTypeOK
<1>8. \A d \in Callers : ~Idle(d)' => d # c /\ ~Idle(d) /\ caller'[d] = caller[d]
  BY <1>3, <1>5 DEF Idle, Rest
<1>9. Entries'
  <2>1. ASSUME NEW u \in Tables, kvData'[u] # Absent PROVE Distinct(u, kvData'[u])
    BY <1>2, <1>5, <1>6, <2>1 DEF Entries
  <2>2. QED
    BY <1>1, <1>2, <1>8, <2>1 DEF Entries
<1>10. \A u \in Tables : u # t => Load(u)' = Load(u)
  BY <1>1, <1>5, LoadSame
<1>11. SavesComplete'
  <2>1. ASSUME NEW u \in Tables, touched'[u] = {}
        PROVE  Load(u)' = durable'[u] /\ ram'[u] = durable'[u]
    <3>1. CASE u # t
      BY <1>1, <1>2, <1>5, <1>10, <2>1, <3>1 DEF SavesComplete
    <3>2. CASE u = t
      <4>1. complete /\ durable'[t] = ram[t] /\ kvData'[t] = Stored(t)
        BY <1>4, <1>5, <2>1, <3>2
      <4>2. kvCnt'[t] = Len(ram'[t]) /\ kvData'[t] = Stored(t)' /\ ram' = ram
        BY <1>1, <1>4, <4>1 DEF Stored
      <4>3. Load(t)' = ram'[t]
        BY <1>3, <1>7, <4>2, LoadCompleteNext
      <4>4. QED
        BY <3>2, <4>1, <4>2, <4>3
    <3>3. QED
      BY <3>1, <3>2
  <2>2. ASSUME NEW d \in Callers, ~Idle(d)'
        PROVE  /\ touched'[caller'[d].table] # {}
               /\ alone' => /\ \A e \in Callers \ {d} : Idle(e)'
                            /\ caller'[d].cnt = Len(ram'[caller'[d].table])
                            /\ caller'[d].pc = "data" =>
                                 kvCnt'[caller'[d].table] = caller'[d].cnt
    <3>1. d # c /\ ~Idle(d) /\ caller'[d] = caller[d] /\ ~alone
      BY <1>4, <1>8, <2>2
    <3>2. touched' = touched
      BY <1>1, <3>1
    <3>3. QED
      BY <1>1, <1>2, <3>1, <3>2 DEF SavesComplete
  <2>3. QED
    BY <2>1, <2>2 DEF SavesComplete
<1>12. OneChanged'
  <2> SUFFICES ASSUME NEW l \in Keys \ Shortened("ltm"), touched'["ltm"] \subseteq {l}
               PROVE  LET others == Besides(durable'["ltm"], l)
                          n == Len(others)
                      IN  /\ Besides(ram'["ltm"], l) = others
                          /\ \A d \in Callers : ~Idle(d)' /\ caller'[d].table = "ltm" =>
                               caller'[d].cnt >= n
                          /\ n > 0 =>
                               /\ kvCnt'["ltm"] # Absent /\ kvCnt'["ltm"] >= n
                               /\ kvData'["ltm"] # Absent
                               /\ \A i \in 1..n : \E j \in 1..(n + 1) :
                                    Loaded(j)' = others[i]
    BY DEF OneChanged
  <2>0. PICK others : others = Besides(durable'["ltm"], l)
    OBVIOUS
  <2> DEFINE n == Len(others)
  <2>1. Besides(ram["ltm"], l) = others
    <3>1. CASE durable'["ltm"] = ram["ltm"]
      BY <2>0, <3>1
    <3>2. CASE durable'["ltm"] = durable["ltm"] /\ touched'["ltm"] = touched["ltm"]
      BY <1>2, <2>0, <3>2 DEF OneChanged
    <3>3. QED
      BY <1>3, <1>5, <3>1, <3>2
  <2>2. ASSUME NEW d \in Callers, ~Idle(d)', caller'[d].table = "ltm"
        PROVE  caller'[d].cnt >= n
    <3>1. d # c /\ ~Idle(d) /\ caller'[d] = caller[d] /\ ~alone
      BY <1>4, <1>8, <2>2
    <3>2. durable' = durable /\ touched' = touched
      BY <1>1, <3>1
    <3>3. QED
      BY <1>2, <2>0, <2>2, <3>1, <3>2 DEF OneChanged
  <2>3. PICK r \in Seq(Facts) : r = ram["ltm"]
    BY <1>2 DEF StoreTypeOK
  <2>4. ASSUME n > 0
        PROVE  /\ kvCnt'["ltm"] # Absent /\ kvCnt'["ltm"] >= n
               /\ kvData'["ltm"] # Absent
               /\ \A i \in 1..n : \E j \in 1..(n + 1) : Loaded(j)' = others[i]
    <3>1. kvCnt'["ltm"] # Absent /\ kvCnt'["ltm"] >= n
      <4>1. CASE durable'["ltm"] = durable["ltm"] /\ touched'["ltm"] = touched["ltm"]
        BY <1>1, <1>2, <2>0, <2>4, <4>1 DEF OneChanged
      <4>2. CASE t = "ltm" /\ complete
        <5>1. kvCnt'["ltm"] = Len(r)
          BY <1>1, <1>4, <2>3, <4>2
        <5>2. n \in Nat /\ n <= Len(r) /\ Len(r) \in Nat
          BY <2>1, <2>3, BesidesIs, LenProperties
        <5>3. QED
          BY <5>1, <5>2, TableAssumption
      <4>3. QED
        BY <1>3, <1>5, <4>1, <4>2
    <3>2. /\ kvData'["ltm"] # Absent
          /\ \A i \in 1..n : \E j \in 1..(n + 1) : Loaded(j)' = others[i]
      <4>1. CASE kvData'["ltm"] = r
        <5>1. \A j \in 1..Len(r) : Loaded(j)' = r[j]
          BY <4>1 DEF Loaded
        <5>2. kvData'["ltm"] # Absent
          BY <4>1, <2>3, TableAssumption
        <5>3. \A i \in 1..n : \E j \in 1..(n + 1) : j \in 1..Len(r) /\ r[j] = others[i]
          <6>1. Besides(r, l) = others
            BY <2>1, <2>3
          <6>2. \A i \in 1..Len(Besides(r, l)) :
                  \E j \in 1..(Len(Besides(r, l)) + 1) :
                    j \in 1..Len(r) /\ r[j] = Besides(r, l)[i]
            BY BesidesIs
          <6>3. QED
            BY <6>1, <6>2
        <5>4. QED
          BY <5>1, <5>2, <5>3
      <4>2. CASE kvData'["ltm"] = kvData["ltm"] /\ durable'["ltm"] = durable["ltm"]
                   /\ touched'["ltm"] = touched["ltm"]
        <5>1. \A j : Loaded(j)' = Loaded(j)
          BY <4>2 DEF Loaded
        <5>2. QED
          BY <1>2, <2>0, <2>4, <4>2, <5>1 DEF OneChanged
      <4>3. QED
        BY <1>3, <1>5, <1>6, <2>3, <4>1, <4>2
    <3>3. QED
      BY <3>1, <3>2
  <2>5. QED
    BY <1>1, <2>0, <2>1, <2>2, <2>4
<1>13. QED
  BY <1>7, <1>9, <1>11, <1>12 DEF StoreInv

(* A start takes the tables out of the store, and nothing is left to save. *)
LEMMA RestartInv ==
  ASSUME StoreInv, Restart
  PROVE  StoreInv'
<1>1. /\ resets < MaxResets /\ resets' = resets + 1
      /\ ram' = [t \in Tables |-> Load(t)] /\ durable' = ram'
      /\ caller' = [c \in Callers |-> Rest]
      /\ alone' = TRUE /\ touched' = [t \in Tables |-> {}]
      /\ UNCHANGED <<backend, kvCnt, kvData, changes, failures>>
  BY DEF Restart
<1>2. StoreTypeOK /\ Entries
  BY DEF StoreInv
<1>3. \A c \in Callers : Idle(c)'
  BY <1>1 DEF Idle, Rest
<1>4. /\ "ltm" \in Tables /\ "skill" \in Tables
      /\ EntriesOf("ltm") = Facts /\ EntriesOf("skill") = Skills
      /\ \A t \in Tables : t = "ltm" \/ t = "skill"
  BY DEF Tables, EntriesOf
<1>5. \A t \in Tables :
        /\ ram'[t] = Load(t) /\ ram'[t] \in Seq(EntriesOf(t))
        /\ Len(ram'[t]) <= Limit(t) /\ Distinct(t, ram'[t])
  BY <1>1, <1>2, LoadEntries
<1>6. StoreTypeOK'
  <2>1. ram' \in [Tables -> Seq(Facts) \cup Seq(Skills)]
    BY <1>1, <1>4, <1>5
  <2>2. caller' \in [Callers -> [pc : {"idle", "cnt", "data", "bad"},
                                 table : Tables, cnt : Nat]]
    BY <1>1, <1>4 DEF Rest
  <2>3. ram'["ltm"] \in Seq(Facts) /\ ram'["skill"] \in Seq(Skills)
    BY <1>4, <1>5
  <2>4. resets' \in 0..MaxResets
    BY <1>1, <1>2, TableAssumption DEF StoreTypeOK
  <2>5. touched' \in [Tables -> SUBSET (Keys \cup Names)] /\ touched'["ltm"] \subseteq Keys
    BY <1>1, <1>4
  <2>6. QED
    BY <1>1, <1>2, <2>1, <2>2, <2>3, <2>4, <2>5 DEF StoreTypeOK
<1>7. Entries'
  BY <1>1, <1>2, <1>3, <1>5 DEF Entries
<1>8. SavesComplete'
  <2>1. \A t \in Tables : Load(t)' = Load(t)
    BY <1>1, LoadSame
  <2>2. QED
    BY <1>1, <1>3, <1>5, <2>1 DEF SavesComplete
<1>9. OneChanged'
  <2> SUFFICES ASSUME NEW l \in Keys \ Shortened("ltm")
               PROVE  LET others == Besides(durable'["ltm"], l)
                          n == Len(others)
                      IN  /\ Besides(ram'["ltm"], l) = others
                          /\ \A d \in Callers : ~Idle(d)' /\ caller'[d].table = "ltm" =>
                               caller'[d].cnt >= n
                          /\ n > 0 =>
                               /\ kvCnt'["ltm"] # Absent /\ kvCnt'["ltm"] >= n
                               /\ kvData'["ltm"] # Absent
                               /\ \A i \in 1..n : \E j \in 1..(n + 1) :
                                    Loaded(j)' = others[i]
    BY DEF OneChanged
  <2>1. PICK r : r = Load("ltm")
    OBVIOUS
  <2>2. PICK others : others = Besides(r, l)
    OBVIOUS
  <2> DEFINE n == Len(others)
  <2>3. others = Besides(durable'["ltm"], l) /\ others = Besides(ram'["ltm"], l)
    BY <1>1, <1>4, <1>5, <2>1, <2>2
  <2>4. r \in Seq(Facts) /\ Len(r) \in Nat
    BY <1>2, <1>4, <2>1, LoadEntries
  <2>5. /\ n \in Nat /\ n <= Len(r)
        /\ \A i \in 1..n : \E j \in 1..(n + 1) : j \in 1..Len(r) /\ r[j] = others[i]
    <3>1. /\ Len(Besides(r, l)) \in Nat /\ Len(Besides(r, l)) <= Len(r)
          /\ \A i \in 1..Len(Besides(r, l)) :
               \E j \in 1..(Len(Besides(r, l)) + 1) :
                 j \in 1..Len(r) /\ r[j] = Besides(r, l)[i]
      BY ONLY <2>4, BesidesIs
    <3>2. QED
      BY ONLY <2>2, <3>1
  <2>6. ASSUME n > 0
        PROVE  /\ kvCnt'["ltm"] # Absent /\ kvCnt'["ltm"] >= n
               /\ kvData'["ltm"] # Absent
               /\ \A i \in 1..n : \E j \in 1..(n + 1) : Loaded(j)' = others[i]
    <3>1. r # <<>>
      BY <2>4, <2>5, <2>6
    <3>2. /\ kvCnt["ltm"] \in 1..Limit("ltm") /\ Len(r) = kvCnt["ltm"]
          /\ kvData["ltm"] # Absent
          /\ \A i \in 1..kvCnt["ltm"] :
               r[i] = IF i <= Len(kvData["ltm"]) THEN kvData["ltm"][i] ELSE MadeUp("ltm")
      BY <1>2, <1>4, <2>1, <3>1, LoadIs
    <3>3. \A i \in 1..Len(r) : Loaded(i)' = r[i]
      BY <1>1, <3>2 DEF Loaded, MadeUp
    <3>4. kvCnt["ltm"] # Absent
      BY <1>2, <1>4, <2>4, <3>2, TableTypes
    <3>5. QED
      BY <1>1, <2>5, <3>2, <3>3, <3>4
  <2> HIDE DEF n
  <2>7. QED
    BY <1>1, <1>3, <2>3, <2>6 DEF n
<1>10. QED
  BY <1>6, <1>7, <1>8, <1>9 DEF StoreInv

LEMMA StoreNextInv ==
  ASSUME StoreInv, [StoreNext]_storeVars
  PROVE  StoreInv'
<1>1. CASE StoreNext
  BY <1>1, LtmSaveInv, LtmDeleteInv, SkillInv, SetCntInv, SetDataInv, RestartInv
     DEF StoreNext
<1>2. CASE UNCHANGED storeVars
  <2>1. StoreTypeOK'
    BY <1>2 DEF StoreInv, StoreTypeOK, storeVars, bounds, history
  <2>2. \A u : Load(u)' = Load(u) /\ Loaded(u)' = Loaded(u)
    BY <1>2, LoadSame DEF storeVars, bounds, history, Loaded
  <2>3. \A c : Idle(c)' <=> Idle(c)
    BY <1>2 DEF storeVars, Idle
  <2>4. Entries' /\ SavesComplete' /\ OneChanged'
    BY <1>2, <2>2, <2>3
       DEF StoreInv, Entries, SavesComplete, OneChanged, storeVars, bounds, history
  <2>5. QED
    BY <2>1, <2>4 DEF StoreInv
<1>3. QED
  BY <1>1, <1>2

(* For every number of entries and every way to cut keys: whichever write  *)
(* fails, wherever a reset comes and however two threads save at once, the *)
(* tables keep within their limits and no key or name that fits is in one  *)
(* twice.  A table that is unchanged since a save that was complete, and   *)
(* made alone, is in the store as it is in RAM (ai_memory.c:239, 279,      *)
(* ai_skill.c:74, 140).                                                    *)
THEOREM StoreInvariant == StoreSpec => []StoreInv
<1>1. StoreInit => StoreInv
  BY StoreInitInv
<1>2. StoreInv /\ [StoreNext]_storeVars => StoreInv'
  BY StoreNextInv
<1>3. QED
  BY <1>1, <1>2, PTL DEF StoreSpec

(* Only a start is a reset.                                                *)
LEMMA OnlyRestart ==
  ASSUME StoreNext, resets' # resets
  PROVE  Restart
BY DEF StoreNext, LtmSave, LtmDelete, CreateSkill, DeleteSkill, Change, SetCnt, SetData

(* "Persists across reboots", for every size of the tables: a reset that   *)
(* comes when a table is unchanged since a save that was complete, and     *)
(* made alone, loses nothing of it and brings nothing back.  It says       *)
(* nothing of a reset during a save, after one of which a write failed, or *)
(* after two threads saved at once (ai_memory.c:239-266, ai_skill.c:37-95). *)
THEOREM SavesSurvive == StoreSpec => TablesSurvive
<1>1. ASSUME StoreInv, StoreNext
      PROVE  resets' # resets =>
               \A t \in Tables : touched[t] = {} => ram'[t] = durable[t]
  <2> SUFFICES ASSUME resets' # resets, NEW t \in Tables, touched[t] = {}
               PROVE  ram'[t] = durable[t]
    OBVIOUS
  <2>1. Restart
    BY <1>1, OnlyRestart
  <2>2. ram'[t] = Load(t)
    BY <2>1 DEF Restart
  <2>3. QED
    BY <1>1, <2>2 DEF StoreInv, SavesComplete
<1>2. StoreInv /\ [StoreNext]_storeVars =>
        [resets' # resets =>
           \A t \in Tables : touched[t] = {} => ram'[t] = durable[t]]_storeVars
  BY <1>1
<1>3. QED
  BY <1>2, StoreInvariant, PTL DEF StoreSpec, TablesSurvive

(* On files a blob that is too long or too short is read all the same.     *)
LEMMA FileIsRead ==
  ASSUME StoreTypeOK, NEW t \in Tables, backend = "file",
         kvCnt[t] # Absent, kvCnt[t] > 0, kvData[t] # Absent
  PROVE  Load(t) # <<>>
<1>1. /\ kvCnt[t] \in Nat /\ kvData[t] \in Seq(EntriesOf(t))
      /\ Len(kvData[t]) \in Nat /\ Absent \notin Seq(EntriesOf(t))
  BY TableTypes
<1>2. PICK n \in Nat : n = kvCnt[t]
  BY <1>1
<1>3. PICK l \in Nat : l <= Len(kvData[t])
                     /\ l = IF Len(kvData[t]) < n THEN Len(kvData[t]) ELSE n
  BY <1>1
<1>4. PICK b : b = SubSeq(kvData[t], 1, l)
  OBVIOUS
<1>5. GetBlob(t, n) = b
  BY <1>3, <1>4 DEF GetBlob
<1>6. b \in Seq(EntriesOf(t))
  <2>1. \A i \in 1..l : kvData[t][i] \in EntriesOf(t)
    BY <1>1, <1>3, ElementOfSeq
  <2>2. QED
    BY <1>4, <2>1, SubSeqProperties
<1>7. GetBlob(t, n) # Absent /\ n # 0 /\ n > 0
  BY <1>1, <1>2, <1>5, <1>6
<1>8. Load(t) = Pad(t, b, n)
  BY <1>2, <1>5, <1>7 DEF Load
<1>9. PICK p : p = Pad(t, b, n)
  OBVIOUS
<1>10. DOMAIN p = 1..n /\ 1 \in DOMAIN p
  BY <1>7, <1>9 DEF Pad
<1>11. p # <<>>
  BY <1>10
<1>12. QED
  BY <1>8, <1>9, <1>11

(* On files the save that a reset tears in two costs at most one fact it   *)
(* was not about, as long as that save was about a single fact whose key   *)
(* no longer one is cut to: the others are among the first in the blob,    *)
(* which are one more than they, and the count covers all but one of these *)
(* (claw_kv_linux.c:146-171, ai_memory.c:239-266).  A torn deletion does   *)
(* lose the last fact.                                                     *)
THEOREM TornSaveCost == StoreSpec => TornLosesAtMostOne
<1>1. ASSUME StoreInv, StoreNext, resets' # resets, backend = "file",
             NEW k \in Keys \ Shortened("ltm"), touched["ltm"] \subseteq {k}
      PROVE  Cardinality({e \in ToSet(durable["ltm"]) :
                            e.key # k /\ e \notin ToSet(ram'["ltm"])}) <= 1
  <2> DEFINE Lost == {e \in ToSet(durable["ltm"]) :
                        e.key # k /\ e \notin ToSet(ram'["ltm"])}
  <2>1. StoreTypeOK /\ OneChanged /\ "ltm" \in Tables
    BY <1>1 DEF StoreInv, Tables
  <2>2. ram'["ltm"] = Load("ltm")
    BY <1>1, <2>1, OnlyRestart DEF Restart
  <2>3. PICK d \in Seq(Facts) : d = durable["ltm"]
    BY <2>1 DEF StoreTypeOK
  <2>4. PICK others : others = Besides(d, k)
    OBVIOUS
  <2> DEFINE n == Len(others)
  <2>5. n > 0 => /\ kvCnt["ltm"] # Absent /\ kvCnt["ltm"] >= n
                 /\ kvData["ltm"] # Absent
                 /\ \A i \in 1..n : \E j \in 1..(n + 1) : Loaded(j) = others[i]
    BY <1>1, <2>1, <2>3, <2>4 DEF OneChanged
  <2>6. n \in Nat /\ \A j \in 1..Len(d) : d[j].key # k => \E i \in 1..n : others[i] = d[j]
    BY <2>4, BesidesIs
  <2>7. ASSUME NEW e \in Lost PROVE e = Loaded(n + 1)
    <3>1. PICK j \in 1..Len(d) : e = d[j] /\ d[j].key # k
      BY <2>3, LenProperties DEF ToSet
    <3>2. PICK i \in 1..n : others[i] = e
      BY <2>6, <3>1
    <3>3. n > 0
      BY <2>6, <3>2
    <3>4. PICK p \in 1..(n + 1) : Loaded(p) = e
      BY <2>5, <3>2, <3>3
    <3>5. kvCnt["ltm"] \in Nat /\ kvCnt["ltm"] > 0
      BY <2>1, <2>5, <2>6, <3>3 DEF StoreTypeOK
    <3>6. Load("ltm") # <<>>
      BY <1>1, <2>1, <2>5, <3>3, <3>5, FileIsRead
    <3>7. PICK r : r = Load("ltm")
      OBVIOUS
    <3>8. /\ r \in Seq(EntriesOf("ltm")) /\ Len(r) = kvCnt["ltm"]
          /\ \A x \in 1..kvCnt["ltm"] :
               r[x] = IF x <= Len(kvData["ltm"]) THEN kvData["ltm"][x] ELSE MadeUp("ltm")
      BY <2>1, <3>6, <3>7, LoadIs
    <3>9. p \notin 1..Len(r)
      <4>1. ASSUME p \in 1..Len(r) PROVE FALSE
        <5>1. r[p] = e
          BY <3>4, <3>8, <4>1 DEF Loaded, MadeUp
        <5>2. p \in DOMAIN r
          BY <3>8, <4>1, LenProperties
        <5>3. e \in ToSet(r)
          BY <5>1, <5>2 DEF ToSet
        <5>4. e \notin ToSet(ram'["ltm"])
          OBVIOUS
        <5>5. QED
          BY <2>2, <3>7, <5>3, <5>4
      <4>2. QED
        BY <4>1
    <3>10. p = n + 1
      <4>1. Len(r) \in Nat /\ Len(r) >= n /\ n \in Nat
        BY <2>5, <2>6, <3>3, <3>5, <3>8
      <4>2. QED
        BY <3>9, <4>1
    <3>11. QED
      BY <3>4, <3>10
  <2> HIDE DEF Lost, n
  <2>8. Lost \in SUBSET {Loaded(n + 1)}
    BY <2>7
  <2>9. IsFiniteSet({Loaded(n + 1)}) /\ Cardinality({Loaded(n + 1)}) = 1
    BY FS_Singleton
  <2>10. Cardinality(Lost) <= 1
    BY <2>8, <2>9, FS_Subset
  <2>11. QED
    BY <2>10 DEF Lost
<1>2. StoreInv /\ [StoreNext]_storeVars =>
        [resets' # resets /\ backend = "file" =>
           \A k \in Keys \ Shortened("ltm") : touched["ltm"] \subseteq {k} =>
             Cardinality({e \in ToSet(durable["ltm"]) :
                            e.key # k /\ e \notin ToSet(ram'["ltm"])}) <= 1]_storeVars
  BY <1>1
<1>3. QED
  BY <1>2, StoreInvariant, PTL DEF StoreSpec, TornLosesAtMostOne

(***************************************************************************)
(* The loop over the table of messages                                     *)
(***************************************************************************)

Fits(m, c, whose) == (m.ch = c) <=> (whose = "its")

(* f[n] is what the loop has kept after n messages, for n up to l.         *)
KeepsTo(f, s, c, whose, l) ==
  /\ f[0] = <<>>
  /\ \A n \in 1..l :
       f[n] = IF Fits(s[n], c, whose) THEN Append(f[n - 1], s[n]) ELSE f[n - 1]

LoopTo(f, s, c, whose, l) ==
  f = [n \in 0..l |-> IF n = 0 THEN <<>>
                      ELSE IF Fits(s[n], c, whose) THEN Append(f[n - 1], s[n])
                           ELSE f[n - 1]]

LEMMA LoopKeeps ==
  ASSUME NEW f, NEW s, NEW c, NEW whose, NEW l \in Nat, LoopTo(f, s, c, whose, l)
  PROVE  KeepsTo(f, s, c, whose, l)
<1> DEFINE e(n) == IF n = 0 THEN <<>>
                   ELSE IF Fits(s[n], c, whose) THEN Append(f[n - 1], s[n])
                        ELSE f[n - 1]
<1>1. f = [n \in 0..l |-> e(n)]
  BY DEF LoopTo
<1> HIDE DEF e
<1>2. \A n \in 0..l : f[n] = e(n)
  BY <1>1
<1>3. QED
  BY <1>2 DEF e, KeepsTo

LEMMA LoopExists ==
  ASSUME NEW s, NEW c, NEW whose, NEW l \in Nat
  PROVE  \E f : LoopTo(f, s, c, whose, l)
<1> DEFINE B == {n \in 0..l : ~ \E f : LoopTo(f, s, c, whose, n)}
           e(f, n) == IF n = 0 THEN <<>>
                      ELSE IF Fits(s[n], c, whose) THEN Append(f[n - 1], s[n])
                           ELSE f[n - 1]
<1>1. SUFFICES ASSUME B # {} PROVE FALSE
  OBVIOUS
<1>2. PICK m \in B : \A k \in B : m <= k
  <2>1. B \subseteq Nat
    OBVIOUS
  <2>2. QED
    BY <1>1, <2>1, LeastElement
<1>3. m \in 0..l /\ ~ \E f : LoopTo(f, s, c, whose, m)
  OBVIOUS
<1>4. m # 0
  <2>1. LoopTo([i \in 0..0 |-> <<>>], s, c, whose, 0)
    <3>1. 0..0 = {0}
      OBVIOUS
    <3>2. QED
      BY <3>1 DEF LoopTo
  <2>2. QED
    BY <1>3, <2>1
<1>5. m - 1 \in 0..l /\ m - 1 \notin B
  BY <1>2, <1>3, <1>4
<1>6. PICK f : LoopTo(f, s, c, whose, m - 1)
  BY <1>5
<1> HIDE DEF B
<1>7. \A i \in 0..(m - 1) : f[i] = e(f, i)
  BY <1>6 DEF LoopTo
<1> DEFINE g == [i \in 0..m |-> IF i = m THEN e(f, m) ELSE f[i]]
<1>8. \A i \in 0..(m - 1) : g[i] = f[i]
  BY <1>3
<1>9. g[m] = e(f, m)
  BY <1>3
<1>10. DOMAIN g = 0..m /\ g = [i \in 0..m |-> g[i]]
  OBVIOUS
<1> HIDE DEF g, e
<1>11. ASSUME NEW i \in 0..m PROVE g[i] = e(g, i)
  <2>1. i = 0 \/ (i - 1 \in 0..(m - 1) /\ g[i - 1] = f[i - 1])
    BY <1>3, <1>8
  <2>2. e(g, i) = e(f, i)
    BY <2>1 DEF e
  <2>3. CASE i = m
    BY <1>9, <2>2, <2>3
  <2>4. CASE i # m
    <3>1. i \in 0..(m - 1)
      BY <1>3, <2>4
    <3>2. QED
      BY <1>7, <1>8, <2>2, <3>1
  <2>5. QED
    BY <2>3, <2>4
<1>12. LoopTo(g, s, c, whose, m)
  <2>1. g = [i \in 0..m |-> e(g, i)]
    BY <1>10, <1>11
  <2>2. QED
    BY <2>1 DEF e, LoopTo
<1>13. QED
  BY <1>3, <1>12

(* What was kept after n messages depends on these n only.                 *)
LEMMA KeepsAgree ==
  ASSUME NEW f, NEW g, NEW s, NEW t, NEW c, NEW whose, NEW l \in Nat,
         KeepsTo(f, s, c, whose, l), KeepsTo(g, t, c, whose, l),
         \A i \in 1..l : s[i] = t[i]
  PROVE  \A n \in 0..l : f[n] = g[n]
<1> DEFINE B == {n \in 0..l : f[n] # g[n]}
<1>1. SUFFICES ASSUME B # {} PROVE FALSE
  OBVIOUS
<1>2. PICK m \in B : \A k \in B : m <= k
  <2>1. B \subseteq Nat
    OBVIOUS
  <2>2. QED
    BY <1>1, <2>1, LeastElement
<1>3. m \in 0..l /\ f[m] # g[m]
  OBVIOUS
<1>4. m # 0
  BY <1>3 DEF KeepsTo
<1>5. m - 1 \in 0..l /\ m - 1 \notin B /\ m \in 1..l
  BY <1>2, <1>3, <1>4
<1>6. f[m - 1] = g[m - 1]
  BY <1>5
<1>7. QED
  BY <1>3, <1>5, <1>6 DEF KeepsTo

(* The operator is the end of the loop.                                    *)
LEMMA LoopEnds ==
  ASSUME NEW S, NEW s \in Seq(S), NEW c, NEW whose
  PROVE  \E f : KeepsTo(f, s, c, whose, Len(s)) /\ Kept(s, c, whose) = f[Len(s)]
<1> DEFINE f == CHOOSE g : LoopTo(g, s, c, whose, Len(s))
<1>1. Len(s) \in Nat
  BY LenProperties
<1>2. LoopTo(f, s, c, whose, Len(s))
  BY <1>1, LoopExists
<1>3. Kept(s, c, whose) = f[Len(s)]
  BY DEF Kept, LoopTo, Fits
<1> HIDE DEF f
<1>4. QED
  BY <1>1, <1>2, <1>3, LoopKeeps

LEMMA KeepsIs ==
  ASSUME NEW S, NEW s \in Seq(S), NEW c, NEW whose, NEW f, KeepsTo(f, s, c, whose, Len(s))
  PROVE  Kept(s, c, whose) = f[Len(s)]
<1>1. Len(s) \in Nat
  BY LenProperties
<1>2. PICK g : KeepsTo(g, s, c, whose, Len(s)) /\ Kept(s, c, whose) = g[Len(s)]
  BY LoopEnds
<1>3. f[Len(s)] = g[Len(s)]
  BY <1>1, <1>2, KeepsAgree
<1>4. QED
  BY <1>2, <1>3

LEMMA KeptOfNone ==
  ASSUME NEW c, NEW whose
  PROVE  Kept(<<>>, c, whose) = <<>>
<1>1. <<>> \in Seq({}) /\ Len(<<>>) = 0
  OBVIOUS
<1>2. PICK f : KeepsTo(f, <<>>, c, whose, Len(<<>>))
                 /\ Kept(<<>>, c, whose) = f[Len(<<>>)]
  BY <1>1, LoopEnds
<1>3. QED
  BY <1>1, <1>2 DEF KeepsTo

LEMMA KeptOfAppend ==
  ASSUME NEW S, NEW s \in Seq(S), NEW m \in S, NEW c, NEW whose
  PROVE  Kept(Append(s, m), c, whose) =
           IF Fits(m, c, whose) THEN Append(Kept(s, c, whose), m)
           ELSE Kept(s, c, whose)
<1>1. PICK t : t = Append(s, m)
  OBVIOUS
<1>2. /\ t \in Seq(S) /\ Len(s) \in Nat /\ Len(t) = Len(s) + 1
      /\ t[Len(s) + 1] = m /\ \A i \in 1..Len(s) : t[i] = s[i]
  BY <1>1, AppendProperties, LenProperties
<1>3. PICK f : KeepsTo(f, t, c, whose, Len(t)) /\ Kept(t, c, whose) = f[Len(t)]
  BY <1>2, LoopEnds
<1>4. KeepsTo(f, s, c, whose, Len(s))
  BY <1>2, <1>3 DEF KeepsTo
<1>5. Kept(s, c, whose) = f[Len(s)]
  BY <1>4, KeepsIs
<1>6. f[Len(s) + 1] = IF Fits(m, c, whose) THEN Append(f[Len(s)], m) ELSE f[Len(s)]
  <2>1. Len(s) + 1 \in 1..Len(t) /\ (Len(s) + 1) - 1 = Len(s)
    BY <1>2
  <2>2. QED
    BY <1>2, <1>3, <2>1 DEF KeepsTo
<1>7. QED
  BY <1>1, <1>2, <1>3, <1>5, <1>6

(* r is a part of s, in the same order.                                    *)
Within(r, s) ==
  /\ Len(r) <= Len(s)
  /\ \A i \in 1..Len(r) : \E a \in 1..Len(s) : r[i] = s[a]
  /\ \A i, k \in 1..Len(r) :
       i < k => \E a, b \in 1..Len(s) : a < b /\ r[i] = s[a] /\ r[k] = s[b]

LEMMA AppendWithin ==
  ASSUME NEW S, NEW r \in Seq(S), NEW s \in Seq(S), NEW m \in S, Within(r, s)
  PROVE  Within(Append(r, m), Append(s, m)) /\ Within(r, Append(s, m))
<1>1. PICK q, t : q = Append(r, m) /\ t = Append(s, m)
  OBVIOUS
<1>2. /\ Len(s) \in Nat /\ Len(t) = Len(s) + 1 /\ t[Len(s) + 1] = m
      /\ \A i \in 1..Len(s) : t[i] = s[i]
  BY <1>1, AppendProperties, LenProperties
<1>3. /\ Len(r) \in Nat /\ Len(q) = Len(r) + 1 /\ q[Len(r) + 1] = m
      /\ \A i \in 1..Len(r) : q[i] = r[i]
  BY <1>1, AppendProperties, LenProperties
<1>4. \A i \in 1..Len(r) : \E a \in 1..Len(t) : r[i] = t[a] /\ a < Len(t)
  BY <1>2 DEF Within
<1>5. ASSUME NEW i \in 1..Len(r), NEW k \in 1..Len(r), i < k
      PROVE  \E a, b \in 1..Len(t) : a < b /\ r[i] = t[a] /\ r[k] = t[b]
  <2>1. PICK a \in 1..Len(s), b \in 1..Len(s) : a < b /\ r[i] = s[a] /\ r[k] = s[b]
    BY <1>5 DEF Within
  <2>2. a \in 1..Len(t) /\ b \in 1..Len(t) /\ t[a] = s[a] /\ t[b] = s[b]
    BY <1>2
  <2>3. QED
    BY <2>1, <2>2
<1>6. Within(r, t)
  BY <1>2, <1>4, <1>5 DEF Within
<1>7. \A i \in 1..Len(q) : \E a \in 1..Len(t) : q[i] = t[a]
  <2>1. ASSUME NEW i \in 1..Len(q) PROVE \E a \in 1..Len(t) : q[i] = t[a]
    <3>1. CASE i = Len(q)
      <4>1. Len(t) \in 1..Len(t) /\ q[i] = t[Len(t)]
        BY <1>2, <1>3, <3>1
      <4>2. QED
        BY <4>1
    <3>2. CASE i # Len(q)
      <4>1. i \in 1..Len(r)
        BY <1>3, <3>2
      <4>2. QED
        BY <1>3, <1>4, <4>1
    <3>3. QED
      BY <3>1, <3>2
  <2>2. QED
    BY <2>1
<1>8. ASSUME NEW i \in 1..Len(q), NEW k \in 1..Len(q), i < k
      PROVE  \E a, b \in 1..Len(t) : a < b /\ q[i] = t[a] /\ q[k] = t[b]
  <2>1. i \in 1..Len(r) /\ q[i] = r[i]
    BY <1>3, <1>8
  <2>2. CASE k = Len(q)
    <3>1. PICK a \in 1..Len(t) : r[i] = t[a] /\ a < Len(t)
      BY <1>4, <2>1
    <3>2. Len(t) \in 1..Len(t) /\ q[k] = t[Len(t)]
      BY <1>2, <1>3, <2>2
    <3>3. QED
      BY <2>1, <3>1, <3>2
  <2>3. CASE k # Len(q)
    <3>1. k \in 1..Len(r) /\ q[k] = r[k]
      BY <1>3, <2>3
    <3>2. QED
      BY <1>5, <1>8, <2>1, <3>1
  <2>4. QED
    BY <2>2, <2>3
<1>9. Within(q, t)
  BY <1>2, <1>3, <1>6, <1>7, <1>8 DEF Within
<1>10. QED
  BY <1>1, <1>6, <1>9

(* The loop keeps a part of the table, that of the channel or the rest;    *)
(* what it leaves out matters to no other channel.                         *)
KeptRight(S, s, c) ==
  /\ \A whose \in {"its", "others'"} :
       LET r == Kept(s, c, whose)
       IN  r \in Seq(S) /\ Within(r, s) /\ \A i \in 1..Len(r) : Fits(r[i], c, whose)
  /\ Len(Kept(s, c, "its")) + Len(Kept(s, c, "others'")) = Len(s)
  /\ \A d : d # c => Kept(Kept(s, c, "others'"), d, "its") = Kept(s, d, "its")

LEMMA KeptRightEmpty ==
  ASSUME NEW S, NEW c
  PROVE  KeptRight(S, <<>>, c)
<1>1. <<>> \in Seq(S) /\ Len(<<>>) = 0
  OBVIOUS
<1>2. \A i : i \notin 1..Len(<<>>)
  BY <1>1
<1>3. Within(<<>>, <<>>)
  BY <1>1, <1>2 DEF Within
<1>4. \A d, whose : Kept(<<>>, d, whose) = <<>>
  BY KeptOfNone
<1>5. \A whose \in {"its", "others'"} :
        LET r == Kept(<<>>, c, whose)
        IN  r \in Seq(S) /\ Within(r, <<>>) /\ \A i \in 1..Len(r) : Fits(r[i], c, whose)
  BY <1>1, <1>2, <1>3, <1>4
<1>6. Len(Kept(<<>>, c, "its")) + Len(Kept(<<>>, c, "others'")) = Len(<<>>)
  BY <1>1, <1>4
<1>7. \A d : Kept(Kept(<<>>, c, "others'"), d, "its") = Kept(<<>>, d, "its")
  BY <1>4
<1>8. QED
  BY <1>5, <1>6, <1>7 DEF KeptRight

LEMMA KeptRightAppend ==
  ASSUME NEW S, NEW s \in Seq(S), NEW m \in S, NEW c, KeptRight(S, s, c)
  PROVE  KeptRight(S, Append(s, m), c)
<1>1. PICK t : t = Append(s, m)
  OBVIOUS
<1>2. t \in Seq(S) /\ Len(s) \in Nat /\ Len(t) = Len(s) + 1
  BY <1>1, AppendProperties, LenProperties
<1>3. ASSUME NEW whose \in {"its", "others'"}
      PROVE  LET r == Kept(s, c, whose)
                 q == Kept(t, c, whose)
             IN  /\ q \in Seq(S) /\ Within(q, t) /\ \A i \in 1..Len(q) : Fits(q[i], c, whose)
                 /\ Len(r) \in Nat /\ Len(q) = Len(r) + (IF Fits(m, c, whose) THEN 1 ELSE 0)
  <2>1. PICK r, q : r = Kept(s, c, whose) /\ q = Kept(t, c, whose)
    OBVIOUS
  <2>2. r \in Seq(S) /\ Within(r, s) /\ \A i \in 1..Len(r) : Fits(r[i], c, whose)
    BY <2>1 DEF KeptRight
  <2>3. q = IF Fits(m, c, whose) THEN Append(r, m) ELSE r
    BY <1>1, <2>1, KeptOfAppend
  <2>4. Within(Append(r, m), t) /\ Within(r, t)
    BY <1>1, <2>2, AppendWithin
  <2>5. Len(r) \in Nat
    BY <2>2, LenProperties
  <2>6. CASE Fits(m, c, whose)
    <3>1. q = Append(r, m)
      BY <2>3, <2>6
    <3>2. /\ q \in Seq(S) /\ Len(q) = Len(r) + 1 /\ q[Len(r) + 1] = m
          /\ \A i \in 1..Len(r) : q[i] = r[i]
      BY <2>2, <3>1, AppendProperties
    <3>3. \A i \in 1..Len(q) : i = Len(r) + 1 \/ i \in 1..Len(r)
      BY <2>5, <3>2
    <3>4. \A i \in 1..Len(q) : Fits(q[i], c, whose)
      BY <2>2, <2>6, <3>2, <3>3
    <3>5. QED
      BY <2>1, <2>4, <2>5, <2>6, <3>1, <3>2, <3>4
  <2>7. CASE ~Fits(m, c, whose)
    <3>1. q = r
      BY <2>3, <2>7
    <3>2. Len(q) = Len(r) + 0
      BY <2>5, <3>1
    <3>3. QED
      BY <2>1, <2>2, <2>4, <2>5, <2>7, <3>1, <3>2
  <2>8. QED
    BY <2>6, <2>7
<1>4. Len(Kept(t, c, "its")) + Len(Kept(t, c, "others'")) = Len(t)
  <2>1. Fits(m, c, "its") <=> ~Fits(m, c, "others'")
    BY DEF Fits
  <2>2. Len(Kept(s, c, "its")) + Len(Kept(s, c, "others'")) = Len(s)
    BY DEF KeptRight
  <2>3. /\ Len(Kept(s, c, "its")) \in Nat /\ Len(Kept(s, c, "others'")) \in Nat
        /\ Len(Kept(t, c, "its")) =
              Len(Kept(s, c, "its")) + (IF Fits(m, c, "its") THEN 1 ELSE 0)
        /\ Len(Kept(t, c, "others'")) =
              Len(Kept(s, c, "others'")) + (IF Fits(m, c, "others'") THEN 1 ELSE 0)
    BY <1>3
  <2>4. PICK a, b, a1, b1 :
          /\ a = Len(Kept(s, c, "its")) /\ b = Len(Kept(s, c, "others'"))
          /\ a1 = Len(Kept(t, c, "its")) /\ b1 = Len(Kept(t, c, "others'"))
    OBVIOUS
  <2>5. a \in Nat /\ b \in Nat /\ a + b = Len(s)
    BY <2>2, <2>3, <2>4
  <2>6. CASE Fits(m, c, "its")
    <3>1. a1 = a + 1 /\ b1 = b + 0
      BY <2>1, <2>3, <2>4, <2>6
    <3>2. QED
      BY <1>2, <2>4, <2>5, <3>1
  <2>7. CASE ~Fits(m, c, "its")
    <3>1. a1 = a + 0 /\ b1 = b + 1
      BY <2>1, <2>3, <2>4, <2>7
    <3>2. QED
      BY <1>2, <2>4, <2>5, <3>1
  <2>8. QED
    BY <2>6, <2>7
<1>5. ASSUME NEW d, d # c
      PROVE  Kept(Kept(t, c, "others'"), d, "its") = Kept(t, d, "its")
  <2>1. PICK r : r = Kept(s, c, "others'") /\ r \in Seq(S)
    BY DEF KeptRight
  <2>2. Kept(r, d, "its") = Kept(s, d, "its")
    BY <1>5, <2>1 DEF KeptRight
  <2>3. Kept(t, c, "others'") = IF Fits(m, c, "others'") THEN Append(r, m) ELSE r
    <3>1. Kept(Append(s, m), c, "others'") =
            IF Fits(m, c, "others'") THEN Append(Kept(s, c, "others'"), m)
            ELSE Kept(s, c, "others'")
      BY KeptOfAppend
    <3>2. QED
      BY <1>1, <2>1, <3>1
  <2>4. /\ Kept(t, d, "its") = IF Fits(m, d, "its") THEN Append(Kept(s, d, "its"), m)
                                   ELSE Kept(s, d, "its")
        /\ Kept(Append(r, m), d, "its") =
              IF Fits(m, d, "its") THEN Append(Kept(r, d, "its"), m)
              ELSE Kept(r, d, "its")
    <3>1. Kept(Append(s, m), d, "its") =
            IF Fits(m, d, "its") THEN Append(Kept(s, d, "its"), m)
            ELSE Kept(s, d, "its")
      BY KeptOfAppend
    <3>2. Kept(Append(r, m), d, "its") =
            IF Fits(m, d, "its") THEN Append(Kept(r, d, "its"), m)
            ELSE Kept(r, d, "its")
      BY <2>1, KeptOfAppend
    <3>3. QED
      BY <1>1, <3>1, <3>2
  <2>5. Fits(m, c, "others'") \/ ~Fits(m, d, "its")
    BY <1>5 DEF Fits
  <2>6. QED
    BY <2>2, <2>3, <2>4, <2>5
<1>6. QED
  BY <1>1, <1>3, <1>4, <1>5 DEF KeptRight

LEMMA KeptRightAlways ==
  ASSUME NEW S, NEW s \in Seq(S), NEW c
  PROVE  KeptRight(S, s, c)
<1> DEFINE B == {n \in Nat : \E t \in Seq(S) : Len(t) = n /\ ~KeptRight(S, t, c)}
<1>1. SUFFICES ASSUME B # {} PROVE FALSE
  BY LenProperties
<1>2. PICK n \in B : \A k \in B : n <= k
  <2>1. B \subseteq Nat
    OBVIOUS
  <2>2. QED
    BY <1>1, <2>1, LeastElement
<1>3. PICK t \in Seq(S) : Len(t) = n /\ ~KeptRight(S, t, c)
  OBVIOUS
<1>4. t # <<>>
  BY <1>3, KeptRightEmpty
<1>5. PICK u \in Seq(S), m \in S : t = Append(u, m)
  BY <1>4, SequenceEmptyOrAppend
<1>6. Len(u) \in Nat /\ Len(t) = Len(u) + 1
  BY <1>5, AppendProperties, LenProperties
<1>7. Len(u) \notin B
  BY <1>2, <1>3, <1>6
<1>8. KeptRight(S, u, c)
  BY <1>6, <1>7
<1>9. QED
  BY <1>3, <1>5, <1>8, KeptRightAppend

(***************************************************************************)
(* Making room                                                             *)
(***************************************************************************)

LEMMA WithoutPair ==
  ASSUME NEW S, NEW s \in Seq(S), NEW i \in 1..(Len(s) - 1)
  PROVE  /\ Without(s, i) \in Seq(S) /\ Len(Without(s, i)) = Len(s) - 2
         /\ \A k \in 1..(Len(s) - 2) : Without(s, i)[k] = IF k < i THEN s[k] ELSE s[k + 2]
<1>1. Len(s) \in Nat /\ i \in Nat /\ \A k \in 1..Len(s) : s[k] \in S
  BY LenProperties
<1>2. PICK a, b : a = SubSeq(s, 1, i - 1) /\ b = SubSeq(s, i + 2, Len(s))
  OBVIOUS
<1>3. a \in Seq(S) /\ Len(a) = i - 1 /\ \A k \in 1..(i - 1) : a[k] = s[k]
  <2>1. \A k \in 1..(i - 1) : s[k] \in S
    BY <1>1
  <2>2. /\ a \in Seq(S) /\ Len(a) = IF 1 <= i - 1 THEN (i - 1) - 1 + 1 ELSE 0
        /\ \A k \in 1..((i - 1) - 1 + 1) : a[k] = s[1 + k - 1]
    BY <1>1, <1>2, <2>1, SubSeqProperties
  <2>3. QED
    BY <1>1, <2>2
<1>4. b \in Seq(S) /\ Len(b) = Len(s) - i - 1
      /\ \A k \in 1..(Len(s) - i - 1) : b[k] = s[k + i + 1]
  <2>1. \A k \in (i + 2)..Len(s) : s[k] \in S
    BY <1>1
  <2>2. /\ b \in Seq(S)
        /\ Len(b) = IF i + 2 <= Len(s) THEN Len(s) - (i + 2) + 1 ELSE 0
        /\ \A k \in 1..(Len(s) - (i + 2) + 1) : b[k] = s[(i + 2) + k - 1]
    BY <1>1, <1>2, <2>1, SubSeqProperties
  <2>3. QED
    BY <1>1, <2>2
<1>5. PICK t : t = a \o b
  OBVIOUS
<1>6. /\ t \in Seq(S) /\ Len(t) = Len(a) + Len(b)
      /\ \A k \in 1..(Len(a) + Len(b)) : t[k] = IF k <= Len(a) THEN a[k] ELSE b[k - Len(a)]
  BY <1>3, <1>4, <1>5, ConcatProperties
<1>7. ASSUME NEW k \in 1..(Len(s) - 2) PROVE t[k] = IF k < i THEN s[k] ELSE s[k + 2]
  <2>1. k \in 1..(Len(a) + Len(b))
    BY <1>1, <1>3, <1>4
  <2>2. CASE k < i
    BY <1>1, <1>3, <1>6, <2>1, <2>2
  <2>3. CASE ~(k < i)
    <3>1. ~(k <= Len(a)) /\ k - Len(a) \in 1..(Len(s) - i - 1)
          /\ (k - Len(a)) + i + 1 = k + 2
      BY <1>1, <1>3, <2>3
    <3>2. QED
      BY <1>4, <1>6, <2>1, <2>3, <3>1
  <2>4. QED
    BY <2>2, <2>3
<1>8. Without(s, i) = t /\ Len(t) = Len(s) - 2
  <2>1. Without(s, i) = t
    BY <1>2, <1>5 DEF Without
  <2>2. Len(t) = (i - 1) + (Len(s) - i - 1)
    BY <1>3, <1>4, <1>6
  <2>3. QED
    BY <1>1, <2>1, <2>2
<1>9. QED
  BY <1>6, <1>7, <1>8

LEMMA WithoutWithin ==
  ASSUME NEW S, NEW s \in Seq(S), NEW i \in 1..(Len(s) - 1)
  PROVE  Within(Without(s, i), s)
<1>1. PICK t : t = Without(s, i)
  OBVIOUS
<1>2. /\ Len(t) = Len(s) - 2 /\ Len(s) \in Nat /\ i \in Nat
      /\ \A k \in 1..Len(t) : t[k] = IF k < i THEN s[k] ELSE s[k + 2]
  <2>1. /\ Len(Without(s, i)) = Len(s) - 2
        /\ \A k \in 1..(Len(s) - 2) : Without(s, i)[k] = IF k < i THEN s[k] ELSE s[k + 2]
    BY WithoutPair
  <2>2. Len(s) \in Nat /\ i \in Nat
    BY LenProperties
  <2>3. QED
    BY <1>1, <2>1, <2>2
<1>3. \A k \in 1..Len(t) :
        \E a \in 1..Len(s) : t[k] = s[a] /\ a = IF k < i THEN k ELSE k + 2
  BY <1>2
<1>4. ASSUME NEW k \in 1..Len(t), NEW l \in 1..Len(t), k < l
      PROVE  \E a, b \in 1..Len(s) : a < b /\ t[k] = s[a] /\ t[l] = s[b]
  <2>1. PICK a \in 1..Len(s) : t[k] = s[a] /\ a = IF k < i THEN k ELSE k + 2
    BY <1>3
  <2>2. PICK b \in 1..Len(s) : t[l] = s[b] /\ b = IF l < i THEN l ELSE l + 2
    BY <1>3
  <2>3. a < b
    BY <1>2, <1>4, <2>1, <2>2
  <2>4. QED
    BY <2>1, <2>2, <2>3
<1>5. Len(t) <= Len(s)
  BY <1>2
<1>6. QED
  BY <1>1, <1>3, <1>4, <1>5 DEF Within

(* Taking out two messages of one channel leaves the others what they had. *)
LEMMA WithoutOthers ==
  ASSUME NEW S, NEW s \in Seq(S), NEW c, NEW i, IsPair(s, i, c), NEW d, d # c
  PROVE  Build(Without(s, i), d) = Build(s, d)
<1>1. i \in 1..(Len(s) - 1) /\ Len(s) \in Nat /\ i \in Nat
      /\ ~Fits(s[i], d, "its") /\ ~Fits(s[i + 1], d, "its")
  BY LenProperties DEF IsPair, Fits
<1>2. PICK t : t = Without(s, i)
  OBVIOUS
<1>3. /\ t \in Seq(S) /\ Len(t) = Len(s) - 2
      /\ \A k \in 1..Len(t) : t[k] = IF k < i THEN s[k] ELSE s[k + 2]
  BY <1>1, <1>2, WithoutPair
<1>4. PICK f : KeepsTo(f, s, d, "its", Len(s)) /\ Build(s, d) = f[Len(s)]
  BY LoopEnds DEF Build
<1>5. f[i] = f[i - 1] /\ f[i + 1] = f[i - 1]
  <2>1. i \in 1..Len(s) /\ i + 1 \in 1..Len(s) /\ (i + 1) - 1 = i
    BY <1>1
  <2>2. f[i] = f[i - 1] /\ f[i + 1] = f[(i + 1) - 1]
    BY <1>1, <1>4, <2>1 DEF KeepsTo
  <2>3. QED
    BY <2>1, <2>2
<1> DEFINE g == [k \in 0..Len(t) |-> IF k < i THEN f[k] ELSE f[k + 2]]
<1>6. \A k \in 0..Len(t) : g[k] = IF k < i THEN f[k] ELSE f[k + 2]
  OBVIOUS
<1> HIDE DEF g
<1>7. g[0] = <<>>
  <2>1. 0 \in 0..Len(t) /\ 0 < i
    BY <1>1, <1>3
  <2>2. QED
    BY <1>4, <1>6, <2>1 DEF KeepsTo
<1>8. ASSUME NEW k \in 1..Len(t)
      PROVE  g[k] = IF Fits(t[k], d, "its") THEN Append(g[k - 1], t[k]) ELSE g[k - 1]
  <2>1. k - 1 \in 0..Len(t) /\ k \in 0..Len(t) /\ k \in 1..Len(s) /\ k + 2 \in 1..Len(s)
        /\ (k + 2) - 1 = k + 1 /\ (k - 1) + 2 = k + 1
    BY <1>1, <1>3
  <2>2. CASE k < i
    <3>1. g[k] = f[k] /\ g[k - 1] = f[k - 1] /\ t[k] = s[k]
      BY <1>1, <1>3, <1>6, <2>1, <2>2
    <3>2. QED
      BY <1>4, <2>1, <3>1 DEF KeepsTo
  <2>3. CASE ~(k < i)
    <3>1. g[k] = f[k + 2] /\ t[k] = s[k + 2]
      BY <1>1, <1>3, <1>6, <2>1, <2>3
    <3>2. f[k + 2] = IF Fits(s[k + 2], d, "its") THEN Append(f[k + 1], s[k + 2]) ELSE f[k + 1]
      BY <1>4, <2>1 DEF KeepsTo
    <3>3. g[k - 1] = f[k + 1]
      <4>1. CASE k = i
        <5>1. k - 1 < i
          BY <1>1, <4>1
        <5>2. QED
          BY <1>5, <1>6, <2>1, <4>1, <5>1
      <4>2. CASE k # i
        <5>1. ~(k - 1 < i)
          BY <1>1, <2>3, <4>2
        <5>2. QED
          BY <1>6, <2>1, <5>1
      <4>3. QED
        BY <4>1, <4>2
    <3>4. QED
      BY <3>1, <3>2, <3>3
  <2>4. QED
    BY <2>2, <2>3
<1>9. KeepsTo(g, t, d, "its", Len(t))
  BY <1>7, <1>8 DEF KeepsTo
<1>10. g[Len(t)] = f[Len(s)]
  <2>1. Len(t) \in 0..Len(t) /\ Len(t) + 2 = Len(s)
    BY <1>1, <1>3
  <2>2. CASE Len(t) < i
    <3>1. Len(t) = i - 1 /\ Len(s) = i + 1
      BY <1>1, <1>3, <2>2
    <3>2. QED
      BY <1>5, <1>6, <2>1, <2>2, <3>1
  <2>3. CASE ~(Len(t) < i)
    BY <1>6, <2>1, <2>3
  <2>4. QED
    BY <2>2, <2>3
<1>11. Kept(t, d, "its") = g[Len(t)]
  BY <1>3, <1>9, KeepsIs
<1>12. QED
  BY <1>2, <1>4, <1>10, <1>11 DEF Build

LEMMA OldestPairFound ==
  ASSUME NEW S, NEW s \in Seq(S), NEW c, Len(s) >= 2
  PROVE  /\ OldestPair(s, c) \in 1..(Len(s) - 1)
         /\ (\E i \in 1..Len(s) : IsPair(s, i, c)) => IsPair(s, OldestPair(s, c), c)
<1>1. Len(s) \in Nat
  BY LenProperties
<1>2. CASE \E i \in 1..Len(s) : IsPair(s, i, c)
  <2> DEFINE B == {i \in 1..Len(s) : IsPair(s, i, c)}
             First(i) == IsPair(s, i, c) /\ \A j \in 1..(i - 1) : ~IsPair(s, j, c)
  <2>1. B \subseteq Nat /\ B # {}
    BY <1>2
  <2>2. PICK m \in B : \A k \in B : m <= k
    BY <2>1, LeastElement
  <2>3. ASSUME NEW j \in 1..(m - 1) PROVE ~IsPair(s, j, c)
    <3>1. j \in 1..Len(s) /\ j < m
      BY <1>1, <2>2
    <3>2. j \notin B
      BY <2>2, <3>1
    <3>3. QED
      BY <3>1, <3>2
  <2>4. \E i \in 1..Len(s) : First(i)
    BY <2>2, <2>3
  <2>5. OldestPair(s, c) = CHOOSE i \in 1..Len(s) : First(i)
    BY <1>2 DEF OldestPair
  <2> HIDE DEF First
  <2>6. First(OldestPair(s, c))
    BY <2>4, <2>5
  <2>7. IsPair(s, OldestPair(s, c), c)
    BY <2>6 DEF First
  <2>8. QED
    BY <2>7 DEF IsPair
<1>3. CASE ~ \E i \in 1..Len(s) : IsPair(s, i, c)
  <2>1. OldestPair(s, c) = 1
    BY <1>3 DEF OldestPair
  <2>2. QED
    BY <1>1, <1>3, <2>1
<1>4. QED
  BY <1>2, <1>3

LEMMA RoomMade ==
  ASSUME NEW S, NEW s \in Seq(S), NEW c, Len(s) <= MaxMsgs
  PROVE  /\ MakeRoom(s, c) \in Seq(S) /\ Within(MakeRoom(s, c), s)
         /\ Len(MakeRoom(s, c)) < MaxMsgs
         /\ \A d : d # c /\ Build(MakeRoom(s, c), d) # Build(s, d) =>
              Len(s) = MaxMsgs /\ \A i \in 1..Len(s) : ~IsPair(s, i, c)
<1>1. Len(s) \in Nat /\ MaxMsgs \in Nat /\ MaxMsgs >= 2
  BY LenProperties, MaxMsgsAssumption
<1>2. CASE Len(s) < MaxMsgs
  <2>1. MakeRoom(s, c) = s
    BY <1>1, <1>2 DEF MakeRoom
  <2>2. Within(s, s)
    <3>1. \A i, k \in 1..Len(s) : i < k => \E a, b \in 1..Len(s) :
            a < b /\ s[i] = s[a] /\ s[k] = s[b]
      OBVIOUS
    <3>2. QED
      BY <1>1, <3>1 DEF Within
  <2>3. QED
    BY <1>2, <2>1, <2>2
<1>3. CASE Len(s) = MaxMsgs
  <2>1. PICK i : i = OldestPair(s, c)
    OBVIOUS
  <2>2. /\ i \in 1..(Len(s) - 1)
        /\ (\E k \in 1..Len(s) : IsPair(s, k, c)) => IsPair(s, i, c)
    BY <1>1, <1>3, <2>1, OldestPairFound
  <2>3. MakeRoom(s, c) = Without(s, i)
    BY <1>1, <1>3, <2>1 DEF MakeRoom, DropOldestPairFor
  <2>4. Without(s, i) \in Seq(S) /\ Len(Without(s, i)) = Len(s) - 2 /\ Within(Without(s, i), s)
    BY <2>2, WithoutPair, WithoutWithin
  <2>5. ASSUME NEW d, d # c, IsPair(s, i, c)
        PROVE  Build(Without(s, i), d) = Build(s, d)
    BY <2>5, WithoutOthers
  <2>6. QED
    BY <1>1, <1>3, <2>2, <2>3, <2>4, <2>5
<1>4. QED
  BY <1>1, <1>2, <1>3

(***************************************************************************)
(* The worker's requests: the inductive invariant                          *)
(***************************************************************************)

LEMMA PlaceIs ==
  ASSUME NEW m \in MessageType
  PROVE  /\ m.id \in Nat /\ Place(m) \in Int /\ 3 * m.id <= Place(m) /\ Place(m) <= 3 * m.id + 2
         /\ m.ch \in Channels
BY ChatAssumption DEF MessageType, Place

(* Question and answer of the request in hand                              *)
LEMMA OwnMessages ==
  ASSUME ChatTypeOK, chat > 0, ch \in Channels
  PROVE  /\ Question \in MessageType /\ Answer \in MessageType
         /\ Question.ch = ch /\ Answer.ch = ch /\ Question.id = chat /\ Answer.id = chat
<1>1. chat \in 1..MaxChats
  BY ChatAssumption DEF ChatTypeOK
<1>2. QED
  BY <1>1 DEF Question, Answer, Message, MessageType

LEMMA OwnPlaces ==
  ASSUME ChatTypeOK
  PROVE  /\ chat \in Nat /\ Place(Question) = 3 * chat + 1 /\ Place(Answer) = 3 * chat + 2
         /\ Question.id = chat /\ Answer.id = chat
<1>1. chat \in Nat
  BY ChatAssumption DEF ChatTypeOK
<1>2. QED
  BY <1>1 DEF Place, Question, Answer, Message

LEMMA WithinOrder ==
  ASSUME NEW r, NEW s, Within(r, s), InOrder(s)
  PROVE  InOrder(r)
<1>1. SUFFICES ASSUME NEW i \in 1..Len(r), NEW j \in 1..Len(r), i < j, r[i].ch = r[j].ch
               PROVE  Place(r[i]) < Place(r[j])
  BY DEF InOrder
<1>2. PICK a \in 1..Len(s), b \in 1..Len(s) : a < b /\ r[i] = s[a] /\ r[j] = s[b]
  BY <1>1 DEF Within
<1>3. QED
  BY <1>1, <1>2 DEF InOrder

(* Adding m, or failing to, adds at most m and keeps limit and order.      *)
LEMMA AddingKeeps ==
  ASSUME NEW s \in Seq(MessageType), NEW m \in MessageType, Len(s) <= MaxMsgs, InOrder(s),
         \A i \in 1..Len(s) : s[i].ch = m.ch => Place(s[i]) < Place(m),
         NEW r \in {MemoryAdd(s, m), MemoryAddFails(s, m.ch)}
  PROVE  /\ r \in Seq(MessageType) /\ Len(r) \in Nat /\ Len(r) <= MaxMsgs /\ Len(r) <= Len(s) + 1
         /\ InOrder(r)
         /\ \A i \in 1..Len(r) : r[i] = m \/ \E a \in 1..Len(s) : r[i] = s[a]
<1>1. PICK q : q = MakeRoom(s, m.ch)
  OBVIOUS
<1>2. q \in Seq(MessageType) /\ Within(q, s) /\ Len(q) < MaxMsgs
  BY <1>1, RoomMade
<1>3. InOrder(q) /\ Len(q) \in Nat /\ Len(s) \in Nat /\ MaxMsgs \in Nat /\ Len(q) <= Len(s)
  BY <1>2, WithinOrder, LenProperties, MaxMsgsAssumption DEF Within
<1>4. \A i \in 1..Len(q) : \E a \in 1..Len(s) : q[i] = s[a]
  BY <1>2 DEF Within
<1>5. CASE r = MemoryAddFails(s, m.ch)
  BY <1>1, <1>2, <1>3, <1>4, <1>5 DEF MemoryAddFails
<1>6. CASE r = MemoryAdd(s, m)
  <2>1. r = Append(q, m)
    BY <1>1, <1>6 DEF MemoryAdd
  <2>2. /\ r \in Seq(MessageType) /\ Len(r) = Len(q) + 1 /\ r[Len(q) + 1] = m
        /\ \A i \in 1..Len(q) : r[i] = q[i]
    BY <1>2, <2>1, AppendProperties
  <2>3. \A i \in 1..Len(r) : i = Len(q) + 1 \/ i \in 1..Len(q)
    BY <1>3, <2>2
  <2>4. \A i \in 1..Len(r) : r[i] = m \/ \E a \in 1..Len(s) : r[i] = s[a]
    BY <1>4, <2>2, <2>3
  <2>5. InOrder(r)
    <3>1. SUFFICES ASSUME NEW i \in 1..Len(r), NEW j \in 1..Len(r), i < j, r[i].ch = r[j].ch
                   PROVE  Place(r[i]) < Place(r[j])
      BY DEF InOrder
    <3>2. i \in 1..Len(q) /\ r[i] = q[i]
      BY <1>3, <2>2, <3>1
    <3>3. CASE j = Len(q) + 1
      <4>1. PICK a \in 1..Len(s) : r[i] = s[a]
        BY <1>4, <3>2
      <4>2. QED
        BY <2>2, <3>1, <3>3, <4>1
    <3>4. CASE j # Len(q) + 1
      <4>1. j \in 1..Len(q) /\ r[j] = q[j]
        BY <2>2, <2>3, <3>4
      <4>2. QED
        BY <1>3, <3>1, <3>2, <4>1 DEF InOrder
    <3>5. QED
      BY <3>3, <3>4
  <2>6. QED
    BY <1>2, <1>3, <2>2, <2>4, <2>5
<1>7. QED
  BY <1>5, <1>6

LEMMA ChatInitInv == ChatInit => MemoryInv /\ ClearForgets
<1> SUFFICES ASSUME ChatInit PROVE MemoryInv /\ ClearForgets
  OBVIOUS
<1>1. ring = <<>> /\ ring \in Seq(MessageType) /\ Len(ring) = 0 /\ 0 <= MaxMsgs
  BY MaxMsgsAssumption DEF ChatInit
<1>2. \A i : i \notin 1..Len(ring)
  BY <1>1
<1>3. ChatTypeOK
  <2>1. 0 \in 0..Rounds /\ 0 \in 0..Retries /\ 0 \in 0..MaxChats /\ 0 \in 0..(MaxChats + 1)
    BY ChatAssumption
  <2>2. overtaken \in BOOLEAN
    BY DEF ChatInit
  <2>3. pc = "idle" /\ result = "error" /\ ch = NoChannel /\ chat = 0 /\ round = 0
        /\ attempt = 0 /\ cleared = 0
    BY DEF ChatInit
  <2>4. QED
    BY <1>1, <2>1, <2>2, <2>3 DEF ChatTypeOK
<1>4. WorkerPlace
  BY DEF ChatInit, WorkerPlace, BeforeQuestion
<1>5. Ordered /\ NewestLast /\ ClearForgets
  BY <1>2 DEF Ordered, InOrder, NewestLast, ClearForgets
<1>6. CopyInOrder /\ CopyFits
  BY DEF ChatInit, CopyInOrder, CopyFits, Compressing
<1>7. QED
  BY <1>1, <1>3, <1>4, <1>5, <1>6 DEF MemoryInv

(* A clear leaves nothing out of order.                                    *)
LEMMA ClearedTable ==
  ASSUME ring' = <<>>
  PROVE  /\ ring' \in Seq(MessageType) /\ Len(ring') = 0 /\ Len(ring') <= MaxMsgs
         /\ Ordered' /\ NewestLast' /\ ClearForgets'
<1>1. ring' \in Seq(MessageType) /\ Len(ring') = 0 /\ 0 <= MaxMsgs
  BY MaxMsgsAssumption
<1>2. \A i : i \notin 1..Len(ring')
  BY <1>1
<1>3. Ordered' /\ NewestLast' /\ ClearForgets'
  BY <1>2 DEF Ordered, InOrder, NewestLast, ClearForgets
<1>4. QED
  BY <1>1, <1>3

(* A step that leaves the table alone and does not go back in the request. *)
LEMMA TableSame ==
  ASSUME MemoryInv, ClearForgets, UNCHANGED <<ring, ch, chat, cleared, overtaken>>,
         pc' # "restore", pc' \in BeforeQuestion => pc \in BeforeQuestion,
         pc' \in {"prompt", "post", "done"} => pc \in {"prompt", "post", "done"}
  PROVE  Len(ring') <= MaxMsgs /\ Ordered' /\ NewestLast' /\ ClearForgets'
<1>1. Len(ring') <= MaxMsgs /\ Ordered' /\ ClearForgets'
  BY DEF MemoryInv, Ordered, InOrder, ClearForgets, Place
<1>2. NewestLast'
  BY DEF MemoryInv, NewestLast, Question, Answer, Message, Place
<1>3. QED
  BY <1>1, <1>2

LEMMA TakeRequestInv ==
  ASSUME MemoryInv, ClearForgets, NEW c \in Channels \cup {NoChannel}, TakeRequest(c)
  PROVE  MemoryInv' /\ ClearForgets'
<1>1. /\ pc = "idle" /\ chat \in Nat /\ chat' = chat + 1 /\ chat' \in 1..MaxChats
      /\ ch' = c /\ pc' = IF c = NoChannel THEN "prompt" ELSE "count"
      /\ cleared \in 0..(MaxChats + 1) /\ cleared <= chat + 1
  BY ChatAssumption DEF TakeRequest, MemoryInv, ChatTypeOK, WorkerPlace
<1>2. Rounds > 0 /\ 0 \in 0..Rounds /\ 0 \in 0..Retries /\ NoChannel \notin Channels
  BY ChatAssumption
<1>3. CopyInOrder' /\ CopyFits'
  BY <1>1 DEF CopyInOrder, CopyFits, Compressing
<1>4. Place(Question)' = 3 * chat' + 1 /\ Place(Answer)' = 3 * chat' + 2
  BY <1>1 DEF Place, Question, Answer, Message
<1>5. CASE UNCHANGED <<ring, cleared, overtaken>>
  <2>1. ring' \in Seq(MessageType) /\ Len(ring') <= MaxMsgs /\ ring' = ring
    BY <1>5 DEF MemoryInv, ChatTypeOK
  <2>2. ChatTypeOK' /\ WorkerPlace'
    BY <1>1, <1>2, <1>5, <2>1
    DEF TakeRequest, MemoryInv, ChatTypeOK, WorkerPlace, BeforeQuestion
  <2>3. Ordered' /\ ClearForgets'
    BY <1>5, <2>1 DEF MemoryInv, Ordered, InOrder, ClearForgets, Place
  <2>4. NewestLast'
    <3>1. ASSUME NEW i \in 1..Len(ring)
          PROVE  ring[i].id <= chat' /\ Place(ring[i]) < 3 * chat' + 1
                                     /\ Place(ring[i]) < 3 * chat' + 2
      <4>1. ring[i] \in MessageType /\ ring[i].id <= chat
        BY <2>1, LenProperties DEF MemoryInv, NewestLast
      <4>2. QED
        BY <1>1, <4>1, PlaceIs
    <3>2. pc' # "restore"
      BY <1>1
    <3>3. \A i \in 1..Len(ring) : Place(ring[i])' = Place(ring[i])
      BY <2>1 DEF Place
    <3>4. QED
      BY <1>4, <2>1, <3>1, <3>2, <3>3 DEF NewestLast
  <2>5. QED
    BY <1>3, <2>1, <2>2, <2>3, <2>4 DEF MemoryInv
<1>6. CASE ~UNCHANGED <<ring, cleared, overtaken>>
  <2>1. ring' = <<>> /\ cleared' = chat + 1 /\ overtaken' = FALSE
    BY <1>6 DEF TakeRequest, MemoryClear
  <2>2. overtaken' \in BOOLEAN /\ ring' \in Seq(MessageType)
    BY <2>1, ClearedTable
  <2>3. result' = "error" /\ round' = 0 /\ attempt' = 0
    BY DEF TakeRequest
  <2>4. ChatTypeOK'
    <3>1. chat' \in 0..MaxChats /\ cleared' \in 0..(MaxChats + 1)
      BY <1>1, <2>1, ChatAssumption
    <3>2. pc' \in {"prompt", "count"}
      BY <1>1
    <3>3. QED
      BY <1>1, <1>2, <2>2, <2>3, <3>1, <3>2 DEF ChatTypeOK
  <2>5. WorkerPlace'
    BY <1>1, <1>2, <2>1, <2>3 DEF WorkerPlace, BeforeQuestion
  <2>6. QED
    BY <1>3, <2>1, <2>4, <2>5, ClearedTable DEF MemoryInv
<1>7. QED
  BY <1>5, <1>6

(* So does a step of the worker that leaves the table alone, once its own  *)
(* variables are right.                                                    *)
LEMMA QuietInv ==
  ASSUME MemoryInv, ClearForgets, UNCHANGED <<ring, ch, chat, cleared, overtaken>>,
         pc # "idle", pc' \in {"question", "prompt", "post", "done", "idle"},
         pc' = "question" => pc \in BeforeQuestion,
         pc' \in {"prompt", "post", "done"} => pc \in {"prompt", "post", "done"},
         round' \in 0..Rounds, attempt' \in 0..Retries, result' \in {"ok", "empty", "error"},
         pc' \in {"question", "prompt"} => round' = 0, pc' = "post" => round' < Rounds
  PROVE  MemoryInv' /\ ClearForgets'
<1>1. Len(ring') <= MaxMsgs /\ Ordered' /\ NewestLast' /\ ClearForgets'
  BY TableSame DEF BeforeQuestion
<1>2. ChatTypeOK'
  BY DEF MemoryInv, ChatTypeOK
<1>3. WorkerPlace'
  <2>1. chat \in Nat /\ cleared \in Nat /\ chat > 0 /\ cleared <= chat
    BY ChatAssumption DEF MemoryInv, ChatTypeOK, WorkerPlace
  <2>2. pc \in BeforeQuestion => ch \in Channels
    BY DEF MemoryInv, WorkerPlace
  <2>3. QED
    BY <2>1, <2>2 DEF WorkerPlace, BeforeQuestion
<1>4. CopyInOrder' /\ CopyFits'
  BY DEF CopyInOrder, CopyFits, Compressing
<1>5. QED
  BY <1>1, <1>2, <1>3, <1>4 DEF MemoryInv

LEMMA CountInv ==
  ASSUME MemoryInv, ClearForgets, Count
  PROVE  MemoryInv' /\ ClearForgets'
<1>1. /\ pc = "count" /\ pc' \in {"summarise", "question"}
      /\ pc' = IF CountChannel(ring, ch) >= CompressAt THEN "summarise" ELSE "question"
      /\ UNCHANGED <<ring, ch, chat, round, attempt, messages, result, cleared, overtaken>>
  BY DEF Count, calls
<1>2. Len(ring') <= MaxMsgs /\ Ordered' /\ NewestLast' /\ ClearForgets'
  BY <1>1, TableSame DEF BeforeQuestion
<1>3. ChatTypeOK'
  BY <1>1 DEF MemoryInv, ChatTypeOK
<1>4. WorkerPlace'
  BY <1>1 DEF MemoryInv, WorkerPlace, BeforeQuestion
<1>5. CopyInOrder'
  BY <1>1 DEF CopyInOrder, Compressing
<1>6. CopyFits'
  <2>1. CountChannel(ring, ch)' = CountChannel(ring, ch)
    BY <1>1
  <2>2. QED
    BY <1>1, <2>1 DEF CopyFits
<1>7. QED
  BY <1>2, <1>3, <1>4, <1>5, <1>6 DEF MemoryInv

LEMMA SummariseInv ==
  ASSUME MemoryInv, ClearForgets, Summarise
  PROVE  MemoryInv' /\ ClearForgets'
<1>1. /\ pc = "summarise" /\ pc' \in {"summary", "question"}
      /\ UNCHANGED <<ring, ch, chat, round, attempt, result, cleared, overtaken>>
      /\ pc' = "summary" => messages' = Build(ring, ch)
  BY DEF Summarise
<1>2. Len(ring') <= MaxMsgs /\ Ordered' /\ NewestLast' /\ ClearForgets'
  BY <1>1, TableSame DEF BeforeQuestion
<1>3. ChatTypeOK'
  BY <1>1 DEF MemoryInv, ChatTypeOK
<1>4. WorkerPlace'
  BY <1>1 DEF MemoryInv, WorkerPlace, BeforeQuestion
<1>5. ring \in Seq(MessageType) /\ Len(ring) <= MaxMsgs /\ InOrder(ring)
  BY DEF MemoryInv, ChatTypeOK, Ordered
<1>6. PICK m : m = Build(ring, ch)
  OBVIOUS
<1>7. /\ m \in Seq(MessageType) /\ Within(m, ring)
      /\ \A i \in 1..Len(m) : m[i].ch = ch
      /\ Len(m) + Len(ClearChannel(ring, ch)) = Len(ring)
      /\ ClearChannel(ring, ch) \in Seq(MessageType)
  BY <1>5, <1>6, KeptRightAlways DEF KeptRight, Fits, Build, ClearChannel
<1>8. CopyInOrder'
  <2>1. InOrder(m)
    BY <1>5, <1>7, WithinOrder
  <2>2. ASSUME NEW j \in 1..Len(m)
        PROVE  m[j].ch = ch /\ Place(m[j]) < Place(Question) /\ (overtaken \/ m[j].id >= cleared)
    <3>1. PICK a \in 1..Len(ring) : m[j] = ring[a]
      BY <1>7 DEF Within
    <3>2. QED
      BY <1>1, <1>7, <3>1 DEF MemoryInv, NewestLast, BeforeQuestion, ClearForgets
  <2>3. Place(Question)' = Place(Question)
    BY <1>1 DEF Place, Question, Message
  <2>4. CASE pc' = "summary"
    <3>1. messages' = m
      BY <1>1, <1>6, <2>4
    <3>2. InOrder(messages)' /\ \A j \in 1..Len(m) : Place(messages[j])' = Place(m[j])
      BY <2>1, <3>1 DEF InOrder, Place
    <3>3. QED
      BY <1>1, <1>7, <2>2, <2>3, <3>1, <3>2 DEF CopyInOrder
  <2>5. CASE pc' # "summary"
    BY <1>1, <2>5 DEF CopyInOrder, Compressing
  <2>6. QED
    BY <2>4, <2>5
<1>9. CopyFits'
  <2>1. CASE pc' = "summary"
    <3>1. messages' = m /\ ring' = ring /\ ch' = ch
      BY <1>1, <1>6, <2>1
    <3>2. Len(m) \in Nat /\ Len(ring) \in Nat /\ Len(ClearChannel(ring, ch)) \in Nat
          /\ MaxMsgs \in Nat /\ CompressAt >= 2 /\ CompressAt \in Int
      BY <1>5, <1>7, LenProperties, MaxMsgsAssumption, ChatAssumption
    <3>3. Len(ClearChannel(ring, ch)) + Len(m) <= MaxMsgs
      BY <1>5, <1>7, <3>2
    <3>4. m = <<>> => ring = <<>>
      <4>1. ring = <<>> \/ Len(m) >= CompressAt
        BY <1>1, <1>6 DEF MemoryInv, CopyFits, CountChannel
      <4>2. m = <<>> => Len(m) = 0
        OBVIOUS
      <4>3. QED
        BY <3>2, <4>1, <4>2
    <3>5. Len(ClearChannel(ring, ch))' = Len(ClearChannel(ring, ch))
      BY <3>1
    <3>6. QED
      BY <2>1, <3>1, <3>3, <3>4, <3>5 DEF CopyFits
  <2>2. CASE pc' # "summary"
    BY <1>1, <2>2 DEF CopyFits
  <2>3. QED
    BY <2>1, <2>2
<1>10. QED
  BY <1>2, <1>3, <1>4, <1>8, <1>9 DEF MemoryInv

(* What compression puts back: a summary and the newer half.               *)
LEMMA SummaryAndRest ==
  ASSUME MemoryInv, pc = "summary",
         NEW q, q = <<Summary(messages)>> \o NewerHalf(messages)
  PROVE  /\ q \in Seq(MessageType) /\ InOrder(q) /\ Len(q) \in Nat
         /\ Len(q) = 1 + Len(messages) \div 2
         /\ \A k \in 1..Len(q) :
              /\ q[k].ch = ch /\ Place(q[k]) < Place(Question)
              /\ overtaken \/ q[k].id >= cleared
<1>1. /\ ch \in Channels /\ chat \in 1..MaxChats /\ chat \in Nat /\ cleared \in Int
      /\ cleared <= chat /\ ChatTypeOK
  BY ChatAssumption DEF MemoryInv, ChatTypeOK, WorkerPlace, BeforeQuestion
<1>2. /\ messages \in Seq(MessageType) /\ InOrder(messages)
      /\ \A j \in 1..Len(messages) :
           /\ messages[j].ch = ch /\ Place(messages[j]) < Place(Question)
           /\ overtaken \/ messages[j].id >= cleared
  BY DEF MemoryInv, CopyInOrder, Compressing
<1>3. PICK l, o : l = Len(messages) /\ o = Older(messages)
  OBVIOUS
<1>4. /\ l \in Nat /\ l \div 2 \in Nat /\ o = l - l \div 2 /\ o \in Nat
      /\ l > 0 => o \in 1..l
      /\ l = 0 => l \div 2 = 0
  <2>1. l \in Nat
    BY <1>2, <1>3, LenProperties
  <2>2. 2 * (l \div 2) <= l /\ l \div 2 \in Nat /\ l <= 2 * (l \div 2) + 1
    BY <2>1
  <2>3. o = l - l \div 2
    BY <1>3 DEF Older
  <2>4. QED
    BY <2>1, <2>2, <2>3
<1>5. PICK s : s = Summary(messages)
  OBVIOUS
<1>6. /\ s \in MessageType /\ s.ch = ch /\ s.sum = TRUE
      /\ l > 0 => s.id = messages[o].id
      /\ l = 0 => s.id = chat
  <2>1. messages = <<>> <=> l = 0
    BY <1>2, <1>3, EmptySeq
  <2>2. l > 0 => messages[o] \in MessageType
    BY <1>2, <1>3, <1>4, LenProperties
  <2>3. s.id \in 1..MaxChats /\ s.id = IF messages = <<>> THEN chat ELSE messages[o].id
    <3>1. s.id = IF messages = <<>> THEN chat ELSE messages[o].id
      BY <1>3, <1>5 DEF Summary
    <3>2. l > 0 => messages[o].id \in 1..MaxChats
      BY <2>2 DEF MessageType
    <3>3. QED
      BY <1>1, <1>4, <2>1, <3>1, <3>2
  <2>4. s.ch = ch /\ s.sum = TRUE /\ s.role = "user"
        /\ s = [ch |-> ch, role |-> "user", sum |-> TRUE, id |-> s.id]
    BY <1>5 DEF Summary
  <2>5. s \in MessageType
    BY <1>1, <2>3, <2>4 DEF MessageType
  <2>6. QED
    BY <1>4, <2>1, <2>3, <2>4, <2>5
<1>7. PICK h : h = NewerHalf(messages)
  OBVIOUS
<1>8. /\ h \in Seq(MessageType) /\ Len(h) = l \div 2
      /\ \A k \in 1..(l \div 2) : h[k] = messages[o + k] /\ o + k \in 1..l
  <2>1. \A k \in (o + 1)..l : messages[k] \in MessageType
    BY <1>2, <1>3, <1>4, LenProperties
  <2>2. h = SubSeq(messages, o + 1, l)
    BY <1>3, <1>7 DEF NewerHalf
  <2>3. /\ h \in Seq(MessageType)
        /\ Len(h) = IF o + 1 <= l THEN l - (o + 1) + 1 ELSE 0
        /\ \A k \in 1..(l - (o + 1) + 1) : h[k] = messages[(o + 1) + k - 1]
    BY <1>4, <2>1, <2>2, SubSeqProperties
  <2>4. PICK d \in Nat : d = l \div 2
    BY <1>4
  <2>5. l - (o + 1) + 1 = d /\ \A k \in 1..d : (o + 1) + k - 1 = o + k /\ o + k \in 1..l
    BY <1>4, <2>4
  <2>6. o + 1 <= l \/ d = 0
    BY <1>4, <2>4
  <2>7. Len(h) = d
    BY <1>4, <2>3, <2>4, <2>5, <2>6
  <2>8. \A k \in 1..d : h[k] = messages[o + k] /\ o + k \in 1..l
    BY <2>3, <2>5
  <2>9. QED
    BY <2>3, <2>4, <2>7, <2>8
<1>9. <<s>> \in Seq(MessageType) /\ Len(<<s>>) = 1 /\ <<s>>[1] = s
  BY <1>6
<1>10. q = <<s>> \o h
  BY <1>5, <1>7
<1>11. /\ q \in Seq(MessageType) /\ Len(q) = 1 + l \div 2 /\ q[1] = s
       /\ \A k \in 2..Len(q) : q[k] = messages[o + k - 1] /\ o + k - 1 \in 1..l
  <2>1. PICK a : a = <<s>> /\ a \in Seq(MessageType) /\ Len(a) = 1 /\ a[1] = s
    BY <1>9
  <2>2. /\ a \o h \in Seq(MessageType) /\ Len(a \o h) = Len(a) + Len(h)
        /\ \A k \in 1..(Len(a) + Len(h)) :
             (a \o h)[k] = IF k <= Len(a) THEN a[k] ELSE h[k - Len(a)]
    BY <1>8, <2>1, ConcatProperties
  <2>3. q = a \o h
    BY <1>10, <2>1
  <2>4. /\ q \in Seq(MessageType) /\ Len(q) = 1 + l \div 2
        /\ \A k \in 1..(1 + l \div 2) : q[k] = IF k <= 1 THEN a[k] ELSE h[k - 1]
    BY <1>8, <2>1, <2>2, <2>3
  <2>5. q[1] = s
    BY <1>4, <2>1, <2>4
  <2>6. ASSUME NEW k \in 2..Len(q) PROVE q[k] = messages[o + k - 1] /\ o + k - 1 \in 1..l
    <3>1. k - 1 \in 1..(l \div 2) /\ k \in 1..(1 + l \div 2) /\ ~(k <= 1)
          /\ o + (k - 1) = o + k - 1
      BY <1>4, <2>4
    <3>2. QED
      BY <1>8, <2>4, <3>1
  <2>7. QED
    BY <2>4, <2>5, <2>6
<1>12. Place(Question) = 3 * chat + 1
  BY <1>1, OwnPlaces
<1>13. /\ Place(s) = 3 * s.id /\ s.id \in Nat /\ Place(s) < Place(Question)
       /\ overtaken \/ s.id >= cleared
       /\ l > 0 => Place(s) <= Place(messages[o])
  <2>1. s.id \in Nat /\ Place(s) = 3 * s.id
    BY <1>6, PlaceIs DEF Place
  <2>2. CASE l = 0
    BY <1>1, <1>6, <1>12, <2>1, <2>2
  <2>3. CASE l > 0
    <3>1. messages[o] \in MessageType /\ o \in 1..Len(messages)
      BY <1>2, <1>3, <1>4, <2>3, LenProperties
    <3>2. 3 * messages[o].id <= Place(messages[o]) /\ Place(messages[o]) \in Int
      BY <3>1, PlaceIs
    <3>3. Place(messages[o]) < Place(Question) /\ (overtaken \/ messages[o].id >= cleared)
      BY <1>2, <3>1
    <3>4. QED
      BY <1>1, <1>6, <1>12, <2>1, <2>3, <3>2, <3>3
  <2>4. QED
    BY <1>4, <2>2, <2>3
<1>14. \A k \in 1..Len(q) :
         /\ q[k].ch = ch /\ Place(q[k]) < Place(Question)
         /\ overtaken \/ q[k].id >= cleared
  <2>1. ASSUME NEW k \in 1..Len(q)
        PROVE  /\ q[k].ch = ch /\ Place(q[k]) < Place(Question)
               /\ overtaken \/ q[k].id >= cleared
    <3>1. CASE k = 1
      BY <1>6, <1>11, <1>13, <3>1
    <3>2. CASE k # 1
      <4>1. k \in 2..Len(q)
        BY <1>4, <1>11, <3>2
      <4>2. QED
        BY <1>2, <1>3, <1>11, <4>1
    <3>3. QED
      BY <3>1, <3>2
  <2>2. QED
    BY <2>1
<1>15. InOrder(q)
  <2>1. SUFFICES ASSUME NEW i \in 1..Len(q), NEW j \in 1..Len(q), i < j
                 PROVE  Place(q[i]) < Place(q[j])
    BY DEF InOrder
  <2>2. PICK b \in 1..l : b = o + j - 1 /\ q[j] = messages[b]
    BY <1>4, <1>11, <2>1
  <2>3. messages[b] \in MessageType /\ messages[b].ch = ch /\ Place(messages[b]) \in Int
    BY <1>2, <1>3, LenProperties, PlaceIs
  <2>4. CASE i = 1
    <3>1. o \in 1..l /\ o < b /\ l > 0
      BY <1>4, <2>1, <2>2, <2>4
    <3>2. messages[o].ch = ch /\ Place(messages[o]) \in Int
      BY <1>2, <1>3, <3>1, LenProperties, PlaceIs
    <3>3. Place(messages[o]) < Place(messages[b])
      BY <1>2, <1>3, <2>3, <3>1, <3>2 DEF InOrder
    <3>4. QED
      BY <1>11, <1>13, <2>2, <2>3, <2>4, <3>1, <3>2, <3>3
  <2>5. CASE i # 1
    <3>1. PICK a \in 1..l : a = o + i - 1 /\ q[i] = messages[a]
      BY <1>4, <1>11, <2>1, <2>5
    <3>2. a < b
      BY <1>4, <2>1, <2>2, <3>1
    <3>3. messages[a].ch = ch
      BY <1>2, <1>3
    <3>4. QED
      BY <1>2, <1>3, <2>2, <2>3, <3>1, <3>2, <3>3 DEF InOrder
  <2>6. QED
    BY <2>4, <2>5
<1>16. QED
  BY <1>3, <1>4, <1>11, <1>14, <1>15

LEMMA SummaryComesInv ==
  ASSUME MemoryInv, ClearForgets, SummaryComes
  PROVE  MemoryInv' /\ ClearForgets'
<1>1. /\ pc = "summary" /\ pc' = "restore" /\ ring' = ClearChannel(ring, ch)
      /\ messages' = <<Summary(messages)>> \o NewerHalf(messages)
      /\ UNCHANGED <<ch, chat, round, attempt, result, cleared, overtaken>>
  BY DEF SummaryComes
<1>2. ring \in Seq(MessageType) /\ Len(ring) <= MaxMsgs /\ InOrder(ring)
  BY DEF MemoryInv, ChatTypeOK, Ordered
<1>3. PICK r, q : r = ring' /\ q = messages'
  OBVIOUS
<1>4. /\ r \in Seq(MessageType) /\ Within(r, ring) /\ \A i \in 1..Len(r) : r[i].ch # ch
  BY <1>1, <1>2, <1>3, KeptRightAlways DEF KeptRight, Fits, ClearChannel
<1>5. /\ q \in Seq(MessageType) /\ InOrder(q) /\ Len(q) \in Nat
      /\ Len(q) = 1 + Len(messages) \div 2
      /\ \A k \in 1..Len(q) :
           /\ q[k].ch = ch /\ Place(q[k]) < Place(Question)
           /\ overtaken \/ q[k].id >= cleared
  BY <1>1, <1>3, SummaryAndRest
<1>6. Place(Question)' = Place(Question)
  BY <1>1 DEF Place, Question, Message
<1>7. \A i \in 1..Len(r) : \E a \in 1..Len(ring) : r[i] = ring[a]
  BY <1>4 DEF Within
<1>8. ChatTypeOK'
  BY <1>1, <1>3, <1>4 DEF MemoryInv, ChatTypeOK
<1>9. WorkerPlace'
  BY <1>1 DEF MemoryInv, WorkerPlace, BeforeQuestion
<1>10. Len(ring') <= MaxMsgs
  BY <1>2, <1>3, <1>4, LenProperties, MaxMsgsAssumption DEF Within
<1>11. Ordered'
  <2>1. InOrder(r)
    BY <1>2, <1>4, WithinOrder
  <2>2. QED
    BY <1>3, <2>1 DEF Ordered, InOrder, Place
<1>12. NewestLast'
  <2>1. \A i \in 1..Len(r) : r[i].id <= chat
    BY <1>7 DEF MemoryInv, NewestLast
  <2>2. QED
    BY <1>1, <1>3, <1>4, <2>1 DEF NewestLast
<1>13. CopyInOrder'
  <2>1. InOrder(messages)' /\ \A j \in 1..Len(q) : Place(messages[j])' = Place(q[j])
    BY <1>3, <1>5 DEF InOrder, Place
  <2>2. QED
    BY <1>1, <1>3, <1>5, <1>6, <2>1 DEF CopyInOrder
<1>14. CopyFits'
  <2>1. Len(r) + Len(messages) <= MaxMsgs /\ (messages = <<>> => ring = <<>>)
    BY <1>1, <1>3 DEF MemoryInv, CopyFits
  <2>2. messages \in Seq(MessageType)
    BY <1>1 DEF MemoryInv, CopyInOrder, Compressing
  <2>3. PICK l, n : l = Len(messages) /\ n = Len(r) /\ l \in Nat /\ n \in Nat
    BY <1>4, <2>2, LenProperties
  <2>4. l = 0 => n = 0
    <3>1. ASSUME l = 0 PROVE n = 0
      <4>1. ring = <<>>
        BY <2>1, <2>2, <2>3, <3>1, EmptySeq
      <4>2. r = <<>>
        BY <1>1, <1>3, <4>1, KeptOfNone DEF ClearChannel
      <4>3. QED
        BY <2>3, <4>2
    <3>2. QED
      BY <3>1
  <2>5. MaxMsgs \in Nat /\ MaxMsgs >= 2
    BY MaxMsgsAssumption
  <2>6. Len(q) = 1 + l \div 2
    BY <1>5, <2>3
  <2>7. 2 * (l \div 2) <= l /\ l \div 2 \in Nat
    BY <2>3
  <2>8. n + Len(q) <= MaxMsgs
    BY <2>1, <2>3, <2>4, <2>5, <2>6, <2>7
  <2>9. QED
    BY <1>1, <1>3, <2>3, <2>8 DEF CopyFits
<1>15. ClearForgets'
  BY <1>1, <1>3, <1>7 DEF ClearForgets
<1>16. QED
  BY <1>8, <1>9, <1>10, <1>11, <1>12, <1>13, <1>14, <1>15 DEF MemoryInv

LEMMA RestoreMessageInv ==
  ASSUME MemoryInv, ClearForgets, Restore
  PROVE  MemoryInv' /\ ClearForgets'
<1>1. /\ pc = "restore" /\ messages # <<>>
      /\ ring' \in {MemoryAdd(ring, Head(messages)), MemoryAddFails(ring, ch)}
      /\ messages' = Tail(messages)
      /\ UNCHANGED <<pc, ch, chat, round, attempt, result, cleared, overtaken>>
  BY DEF Restore
<1>2. ring \in Seq(MessageType) /\ Len(ring) <= MaxMsgs /\ InOrder(ring)
  BY DEF MemoryInv, ChatTypeOK, Ordered
<1>3. /\ messages \in Seq(MessageType) /\ InOrder(messages)
      /\ \A j \in 1..Len(messages) :
           /\ messages[j].ch = ch /\ Place(messages[j]) < Place(Question)
           /\ overtaken \/ messages[j].id >= cleared
  BY <1>1 DEF MemoryInv, CopyInOrder, Compressing
<1>4. PICK r, q, m : r = ring' /\ q = messages' /\ m = messages[1]
  OBVIOUS
<1>5. /\ Len(messages) \in Nat /\ Len(messages) >= 1 /\ m = Head(messages) /\ m \in MessageType
      /\ m.ch = ch /\ Place(m) < Place(Question) /\ (overtaken \/ m.id >= cleared)
      /\ q \in Seq(MessageType) /\ Len(q) = Len(messages) - 1
      /\ \A k \in 1..Len(q) : q[k] = messages[k + 1] /\ k + 1 \in 1..Len(messages)
  <2>1. Len(messages) \in Nat /\ Len(messages) >= 1
    BY <1>1, <1>3, LenProperties, EmptySeq
  <2>2. 1 \in 1..Len(messages) /\ m \in MessageType
    BY <1>3, <1>4, <2>1, LenProperties
  <2>3. m = Head(messages)
    BY <1>1, <1>3, <1>4
  <2>4. /\ q \in Seq(MessageType) /\ Len(q) = Len(messages) - 1
        /\ \A k \in 1..Len(q) : q[k] = messages[k + 1]
    BY <1>1, <1>3, <1>4, HeadTailProperties
  <2>5. QED
    BY <1>3, <1>4, <2>1, <2>2, <2>3, <2>4
<1>6. \A i \in 1..Len(ring) : /\ ring[i].id <= chat
                              /\ ring[i].ch = ch =>
                                   /\ Place(ring[i]) < Place(Question)
                                   /\ \A j \in 1..Len(messages) :
                                        Place(ring[i]) < Place(messages[j])
  BY <1>1 DEF MemoryInv, NewestLast, BeforeQuestion
<1>7. /\ r \in Seq(MessageType) /\ Len(r) \in Nat /\ Len(r) <= MaxMsgs /\ Len(r) <= Len(ring) + 1
      /\ InOrder(r)
      /\ \A i \in 1..Len(r) : r[i] = m \/ \E a \in 1..Len(ring) : r[i] = ring[a]
  <2>1. \A i \in 1..Len(ring) : ring[i].ch = m.ch => Place(ring[i]) < Place(m)
    BY <1>4, <1>5, <1>6
  <2>2. r \in {MemoryAdd(ring, m), MemoryAddFails(ring, m.ch)}
    BY <1>1, <1>4, <1>5
  <2>3. QED
    BY <1>2, <1>5, <2>1, <2>2, AddingKeeps
<1>8. \A k \in 1..Len(q) : Place(m) < Place(q[k])
  <2>1. ASSUME NEW k \in 1..Len(q) PROVE Place(m) < Place(q[k])
    <3>1. PICK b \in 1..Len(messages) : b = k + 1 /\ q[k] = messages[b]
      BY <1>5
    <3>2. 1 \in 1..Len(messages) /\ 1 < b
      BY <1>5, <3>1
    <3>3. QED
      BY <1>3, <1>4, <3>1, <3>2 DEF InOrder
  <2>2. QED
    BY <2>1
<1>9. m.id <= chat
  BY <1>5, PlaceIs, OwnPlaces DEF MemoryInv
<1>10. Place(Question)' = Place(Question)
  BY <1>1 DEF Place, Question, Message
<1>11. ChatTypeOK'
  BY <1>1, <1>4, <1>7 DEF MemoryInv, ChatTypeOK
<1>12. WorkerPlace'
  BY <1>1 DEF MemoryInv, WorkerPlace, BeforeQuestion
<1>13. Ordered'
  BY <1>4, <1>7 DEF Ordered, InOrder, Place
<1>14. NewestLast'
  <2>1. ASSUME NEW i \in 1..Len(r)
        PROVE  /\ r[i].id <= chat
               /\ r[i].ch = ch => /\ Place(r[i]) < Place(Question)
                                  /\ \A j \in 1..Len(q) : Place(r[i]) < Place(q[j])
    <3>1. CASE r[i] = m
      BY <1>5, <1>8, <1>9, <3>1
    <3>2. CASE \E a \in 1..Len(ring) : r[i] = ring[a]
      <4>1. PICK a \in 1..Len(ring) : r[i] = ring[a]
        BY <3>2
      <4>2. \A j \in 1..Len(q) : q[j] = messages[j + 1] /\ j + 1 \in 1..Len(messages)
        BY <1>5
      <4>3. \A j \in 1..Len(q) : ring[a].ch = ch => Place(ring[a]) < Place(q[j])
        <5>1. SUFFICES ASSUME NEW j \in 1..Len(q), ring[a].ch = ch
                       PROVE  Place(ring[a]) < Place(q[j])
          OBVIOUS
        <5>2. PICK b \in 1..Len(messages) : q[j] = messages[b]
          BY <4>2
        <5>3. QED
          BY <1>6, <5>1, <5>2
      <4>4. QED
        BY <1>6, <4>1, <4>3
    <3>3. QED
      BY <1>7, <3>1, <3>2
  <2>2. /\ \A i \in 1..Len(r) : Place(ring[i])' = Place(r[i])
        /\ \A j \in 1..Len(q) : Place(messages[j])' = Place(q[j])
    BY <1>4 DEF Place
  <2>3. QED
    BY <1>1, <1>4, <1>10, <2>1, <2>2 DEF NewestLast
<1>15. CopyInOrder'
  <2>1. InOrder(q)
    <3>1. SUFFICES ASSUME NEW i \in 1..Len(q), NEW j \in 1..Len(q), i < j
                   PROVE  Place(q[i]) < Place(q[j])
      BY DEF InOrder
    <3>2. PICK a \in 1..Len(messages) : a = i + 1 /\ q[i] = messages[a]
      BY <1>5
    <3>3. PICK b \in 1..Len(messages) : b = j + 1 /\ q[j] = messages[b]
      BY <1>5
    <3>4. a < b
      BY <3>1, <3>2, <3>3
    <3>5. QED
      BY <1>3, <3>2, <3>3, <3>4 DEF InOrder
  <2>2. ASSUME NEW j \in 1..Len(q)
        PROVE  q[j].ch = ch /\ Place(q[j]) < Place(Question) /\ (overtaken \/ q[j].id >= cleared)
    BY <1>3, <1>5
  <2>3. InOrder(messages)' /\ \A j \in 1..Len(q) : Place(messages[j])' = Place(q[j])
    BY <1>4, <2>1 DEF InOrder, Place
  <2>4. QED
    BY <1>1, <1>4, <1>5, <1>10, <2>2, <2>3 DEF CopyInOrder
<1>16. CopyFits'
  <2>1. Len(ring) + Len(messages) <= MaxMsgs /\ Len(ring) \in Nat /\ MaxMsgs \in Nat
    BY <1>1, <1>2, LenProperties, MaxMsgsAssumption DEF MemoryInv, CopyFits
  <2>2. Len(r) + Len(q) <= MaxMsgs
    BY <1>5, <1>7, <2>1
  <2>3. QED
    BY <1>1, <1>4, <2>2 DEF CopyFits
<1>17. ClearForgets'
  <2>1. ASSUME ~overtaken, NEW i \in 1..Len(r) PROVE r[i].id >= cleared
    <3>1. CASE r[i] = m
      BY <1>5, <2>1, <3>1
    <3>2. CASE \E a \in 1..Len(ring) : r[i] = ring[a]
      BY <2>1, <3>2 DEF ClearForgets
    <3>3. QED
      BY <1>7, <3>1, <3>2
  <2>2. QED
    BY <1>1, <1>4, <2>1 DEF ClearForgets
<1>18. QED
  BY <1>4, <1>7, <1>11, <1>12, <1>13, <1>14, <1>15, <1>16, <1>17 DEF MemoryInv

LEMMA AddQuestionInv ==
  ASSUME MemoryInv, ClearForgets, AddQuestion
  PROVE  MemoryInv' /\ ClearForgets'
<1>1. /\ pc = "question" /\ pc' = "prompt"
      /\ ring' \in {MemoryAdd(ring, Question), MemoryAddFails(ring, ch)}
      /\ UNCHANGED <<ch, chat, round, attempt, messages, result, cleared, overtaken>>
  BY DEF AddQuestion, calls
<1>2. /\ ring \in Seq(MessageType) /\ Len(ring) <= MaxMsgs /\ InOrder(ring) /\ ChatTypeOK
      /\ chat > 0 /\ cleared <= chat /\ ch \in Channels
  BY <1>1 DEF MemoryInv, ChatTypeOK, Ordered, WorkerPlace, BeforeQuestion
<1>3. PICK r, m : r = ring' /\ m = Question
  OBVIOUS
<1>4. m \in MessageType /\ m.ch = ch /\ m.id = chat /\ chat \in Nat
      /\ Place(m) = 3 * chat + 1 /\ Place(Answer) = 3 * chat + 2
  BY <1>2, <1>3, OwnMessages, OwnPlaces
<1>5. \A i \in 1..Len(ring) :
        ring[i].id <= chat /\ (ring[i].ch = ch => Place(ring[i]) < Place(m))
  BY <1>1, <1>3 DEF MemoryInv, NewestLast, BeforeQuestion
<1>6. /\ r \in Seq(MessageType) /\ Len(r) <= MaxMsgs /\ InOrder(r)
      /\ \A i \in 1..Len(r) : r[i] = m \/ \E a \in 1..Len(ring) : r[i] = ring[a]
  <2>1. r \in {MemoryAdd(ring, m), MemoryAddFails(ring, m.ch)}
    BY <1>1, <1>3, <1>4
  <2>2. \A i \in 1..Len(ring) : ring[i].ch = m.ch => Place(ring[i]) < Place(m)
    BY <1>4, <1>5
  <2>3. QED
    BY <1>2, <1>4, <2>1, <2>2, AddingKeeps
<1>7. ChatTypeOK'
  BY <1>1, <1>3, <1>6 DEF MemoryInv, ChatTypeOK
<1>8. WorkerPlace'
  BY <1>1 DEF MemoryInv, WorkerPlace, BeforeQuestion
<1>9. Ordered'
  BY <1>3, <1>6 DEF Ordered, InOrder, Place
<1>10. NewestLast'
  <2>1. ASSUME NEW i \in 1..Len(r)
        PROVE  r[i].id <= chat /\ (r[i].ch = ch => Place(r[i]) < Place(Answer))
    <3>1. CASE r[i] = m
      BY <1>4, <3>1
    <3>2. CASE \E a \in 1..Len(ring) : r[i] = ring[a]
      <4>1. PICK a \in 1..Len(ring) : r[i] = ring[a]
        BY <3>2
      <4>2. ring[a] \in MessageType /\ Place(ring[a]) \in Int
        BY <1>2, LenProperties, PlaceIs
      <4>3. QED
        BY <1>4, <1>5, <4>1, <4>2
    <3>3. QED
      BY <1>6, <3>1, <3>2
  <2>2. Place(Answer)' = Place(Answer) /\ \A i \in 1..Len(r) : Place(ring[i])' = Place(r[i])
    BY <1>1, <1>3 DEF Place, Answer, Message
  <2>3. QED
    BY <1>1, <1>3, <2>1, <2>2 DEF NewestLast, BeforeQuestion
<1>11. CopyInOrder' /\ CopyFits'
  BY <1>1 DEF CopyInOrder, CopyFits, Compressing
<1>12. ClearForgets'
  <2>1. \A i \in 1..Len(r) : ~overtaken => r[i].id >= cleared
    BY <1>2, <1>4, <1>6 DEF ClearForgets
  <2>2. QED
    BY <1>1, <1>3, <2>1 DEF ClearForgets
<1>13. QED
  BY <1>3, <1>6, <1>7, <1>8, <1>9, <1>10, <1>11, <1>12 DEF MemoryInv

LEMMA FinishChatInv ==
  ASSUME MemoryInv, ClearForgets, FinishChat
  PROVE  MemoryInv' /\ ClearForgets'
<1>1. /\ pc = "done" /\ pc' = "idle"
      /\ UNCHANGED <<ch, chat, round, attempt, result, cleared, overtaken>>
  BY DEF FinishChat
<1>2. /\ ring \in Seq(MessageType) /\ Len(ring) <= MaxMsgs /\ InOrder(ring) /\ ChatTypeOK
      /\ chat > 0 /\ cleared <= chat /\ ch \in Channels \cup {NoChannel}
      /\ round \in 0..Rounds /\ attempt \in 0..Retries /\ result \in {"ok", "empty", "error"}
  BY <1>1 DEF MemoryInv, ChatTypeOK, Ordered, WorkerPlace
<1>3. CASE ring' = ring
  BY <1>1, <1>2, <1>3, QuietInv
<1>4. CASE ring' # ring
  <2>1. /\ ch \in Channels
        /\ ring' \in {MemoryAdd(ring, Answer), MemoryAddFails(ring, ch)}
    BY <1>2, <1>4 DEF FinishChat
  <2>2. PICK r, m : r = ring' /\ m = Answer
    OBVIOUS
  <2>3. m \in MessageType /\ m.ch = ch /\ m.id = chat /\ chat \in Nat
    BY <1>2, <2>1, <2>2, OwnMessages, OwnPlaces
  <2>4. \A i \in 1..Len(ring) :
          ring[i].id <= chat /\ (ring[i].ch = ch => Place(ring[i]) < Place(m))
    BY <1>1, <2>2 DEF MemoryInv, NewestLast
  <2>5. /\ r \in Seq(MessageType) /\ Len(r) <= MaxMsgs /\ InOrder(r)
        /\ \A i \in 1..Len(r) : r[i] = m \/ \E a \in 1..Len(ring) : r[i] = ring[a]
    <3>1. r \in {MemoryAdd(ring, m), MemoryAddFails(ring, m.ch)}
      BY <2>1, <2>2, <2>3
    <3>2. \A i \in 1..Len(ring) : ring[i].ch = m.ch => Place(ring[i]) < Place(m)
      BY <2>3, <2>4
    <3>3. QED
      BY <1>2, <2>3, <3>1, <3>2, AddingKeeps
  <2>6. ChatTypeOK'
    BY <1>1, <2>2, <2>5 DEF MemoryInv, ChatTypeOK
  <2>7. WorkerPlace'
    BY <1>1, <1>2, <2>3 DEF WorkerPlace, BeforeQuestion, ChatTypeOK
  <2>8. Ordered'
    BY <2>2, <2>5 DEF Ordered, InOrder, Place
  <2>9. NewestLast'
    <3>1. \A i \in 1..Len(r) : r[i].id <= chat
      BY <2>3, <2>4, <2>5
    <3>2. QED
      BY <1>1, <2>2, <3>1 DEF NewestLast, BeforeQuestion
  <2>10. CopyInOrder' /\ CopyFits'
    BY <1>1 DEF CopyInOrder, CopyFits, Compressing
  <2>11. ClearForgets'
    <3>1. \A i \in 1..Len(r) : ~overtaken => r[i].id >= cleared
      BY <1>2, <2>3, <2>5 DEF ClearForgets
    <3>2. QED
      BY <1>1, <2>2, <3>1 DEF ClearForgets
  <2>12. QED
    BY <2>2, <2>5, <2>6, <2>7, <2>8, <2>9, <2>10, <2>11 DEF MemoryInv
<1>5. QED
  BY <1>3, <1>4

(* The steps around the API calls                                          *)
LEMMA CallsInv ==
  ASSUME MemoryInv, ClearForgets,
         SummaryFails \/ RestoreEnds \/ BuildPrompt \/ Transient \/ Refused \/ AnswerComes
  PROVE  MemoryInv' /\ ClearForgets'
<1>1. /\ round \in 0..Rounds /\ attempt \in 0..Retries /\ result \in {"ok", "empty", "error"}
      /\ Rounds \in Nat /\ Rounds > 0 /\ Retries \in Nat
      /\ pc \in BeforeQuestion \cup {"prompt"} => round = 0
      /\ pc = "post" => round < Rounds
  BY ChatAssumption DEF MemoryInv, ChatTypeOK, WorkerPlace
<1>2. CASE SummaryFails \/ RestoreEnds
  <2>1. /\ pc \in {"summary", "restore"} /\ pc' = "question"
        /\ UNCHANGED <<ring, ch, chat, round, attempt, result, cleared, overtaken>>
    BY <1>2 DEF SummaryFails, RestoreEnds, calls
  <2>2. QED
    BY <1>1, <2>1, QuietInv DEF BeforeQuestion
<1>3. CASE BuildPrompt
  <2>1. /\ pc = "prompt" /\ pc' \in {"post", "done"}
        /\ UNCHANGED <<ring, ch, chat, round, attempt, result, cleared, overtaken>>
    BY <1>3 DEF BuildPrompt
  <2>2. QED
    BY <1>1, <2>1, QuietInv
<1>4. CASE Transient
  <2>1. /\ pc = "post" /\ pc' \in {"post", "done"} /\ attempt' \in 0..Retries
        /\ UNCHANGED <<ring, ch, chat, round, result, cleared, overtaken>>
    BY <1>1, <1>4 DEF Transient
  <2>2. QED
    BY <1>1, <2>1, QuietInv
<1>5. CASE Refused
  <2>1. /\ pc = "post" /\ pc' = "done"
        /\ UNCHANGED <<ring, ch, chat, round, attempt, result, cleared, overtaken>>
    BY <1>5 DEF Refused, calls
  <2>2. QED
    BY <1>1, <2>1, QuietInv
<1>6. CASE AnswerComes
  <2>1. /\ pc = "post" /\ pc' = "done" /\ result' \in {"ok", "empty", "error"}
        /\ UNCHANGED <<ring, ch, chat, round, attempt, cleared, overtaken>>
    BY <1>6 DEF AnswerComes
  <2>2. QED
    BY <1>1, <2>1, QuietInv
<1>7. QED
  BY <1>2, <1>3, <1>4, <1>5, <1>6

LEMMA ToolCallsInv ==
  ASSUME MemoryInv, ClearForgets, ToolCalls
  PROVE  MemoryInv' /\ ClearForgets'
<1>1. /\ round \in 0..Rounds /\ attempt \in 0..Retries /\ result \in {"ok", "empty", "error"}
      /\ Rounds \in Nat /\ Rounds > 0 /\ Retries \in Nat /\ chat > 0
      /\ round < Rounds
  BY ChatAssumption DEF MemoryInv, ChatTypeOK, WorkerPlace, ToolCalls
<1>2. /\ pc = "post" /\ UNCHANGED <<ch, chat, result>>
      /\ round' \in 0..Rounds /\ attempt' \in 0..Retries
      /\ pc' \in {"post", "done"} /\ (pc' = "post" => round' < Rounds)
  BY <1>1 DEF ToolCalls
<1>3. CASE UNCHANGED <<ring, cleared, overtaken>>
  BY <1>1, <1>2, <1>3, QuietInv
<1>4. CASE ring' = MemoryClear(ring) /\ cleared' = chat /\ overtaken' = FALSE
  <2>1. ring' = <<>>
    BY <1>4 DEF MemoryClear
  <2>2. chat \in 0..MaxChats /\ chat \in Nat /\ chat \in 0..(MaxChats + 1)
        /\ ch \in Channels \cup {NoChannel}
    BY ChatAssumption DEF MemoryInv, ChatTypeOK
  <2>3. overtaken' \in BOOLEAN /\ cleared' = chat
    BY <1>4
  <2>4. ChatTypeOK'
    BY <1>1, <1>2, <2>1, <2>2, <2>3, ClearedTable DEF ChatTypeOK
  <2>5. WorkerPlace'
    BY <1>1, <1>2, <2>2, <2>3 DEF WorkerPlace, BeforeQuestion
  <2>6. CopyInOrder' /\ CopyFits'
    BY <1>2 DEF CopyInOrder, CopyFits, Compressing
  <2>7. QED
    BY <2>1, <2>4, <2>5, <2>6, ClearedTable DEF MemoryInv
<1>5. QED
  BY <1>3, <1>4 DEF ToolCalls

LEMMA ShellClearInv ==
  ASSUME MemoryInv, ClearForgets, ShellClear
  PROVE  MemoryInv' /\ ClearForgets'
<1>1. /\ ring' = <<>> /\ overtaken' = Compressing
      /\ cleared' = IF pc = "idle" THEN chat + 1 ELSE chat
      /\ UNCHANGED <<pc, ch, chat, round, attempt, messages, result>>
  BY DEF ShellClear, MemoryClear, calls
<1>2. /\ chat \in 0..MaxChats /\ chat \in Nat /\ cleared' \in 0..(MaxChats + 1)
      /\ MaxMsgs \in Nat
  BY <1>1, ChatAssumption, MaxMsgsAssumption DEF MemoryInv, ChatTypeOK
<1>3. ChatTypeOK'
  <2>1. overtaken' \in BOOLEAN
    BY <1>1 DEF Compressing
  <2>2. QED
    BY <1>1, <1>2, <2>1, ClearedTable DEF MemoryInv, ChatTypeOK
<1>4. WorkerPlace'
  BY <1>1, <1>2 DEF MemoryInv, WorkerPlace, BeforeQuestion
<1>5. CopyInOrder'
  <2>1. SUFFICES ASSUME Compressing' PROVE CopyInOrder'
    BY DEF CopyInOrder
  <2>2. Compressing /\ overtaken'
    BY <1>1, <2>1 DEF Compressing
  <2>3. /\ messages \in Seq(MessageType) /\ InOrder(messages)
        /\ \A j \in 1..Len(messages) :
             messages[j].ch = ch /\ Place(messages[j]) < Place(Question)
    BY <2>2 DEF MemoryInv, CopyInOrder
  <2>4. InOrder(messages)' /\ Place(Question)' = Place(Question)
        /\ \A j \in 1..Len(messages) : Place(messages[j])' = Place(messages[j])
    BY <1>1, <2>3 DEF InOrder, Place, Question, Message
  <2>5. QED
    BY <1>1, <2>2, <2>3, <2>4 DEF CopyInOrder
<1>6. CopyFits'
  <2>1. Len(ring') = 0 /\ ClearChannel(ring', ch') = <<>>
    BY <1>1, KeptOfNone DEF ClearChannel
  <2>2. ASSUME pc \in {"summary", "restore"} PROVE Len(messages) <= MaxMsgs
                                                   /\ Len(messages) \in Nat
    <3>1. ring \in Seq(MessageType) /\ messages \in Seq(MessageType)
      BY <2>2 DEF MemoryInv, ChatTypeOK, CopyInOrder, Compressing
    <3>2. ClearChannel(ring, ch) \in Seq(MessageType)
      BY <3>1, KeptRightAlways DEF KeptRight, ClearChannel
    <3>3. Len(ring) \in Nat /\ Len(messages) \in Nat /\ Len(ClearChannel(ring, ch)) \in Nat
      BY <3>1, <3>2, LenProperties
    <3>4. QED
      BY <1>2, <2>2, <3>3 DEF MemoryInv, CopyFits
  <2>3. Len(ClearChannel(ring, ch))' = 0
    BY <2>1
  <2>4. QED
    BY <1>1, <1>2, <2>1, <2>2, <2>3 DEF CopyFits
<1>7. QED
  BY <1>1, <1>3, <1>4, <1>5, <1>6, ClearedTable DEF MemoryInv

LEMMA ChatStutterInv ==
  ASSUME MemoryInv, ClearForgets, UNCHANGED chatVars
  PROVE  MemoryInv' /\ ClearForgets'
BY DEF chatVars, calls, MemoryInv, ClearForgets, ChatTypeOK, WorkerPlace, Ordered, InOrder,
   NewestLast, CopyInOrder, CopyFits, Compressing, Place, Question, Answer, Message,
   CountChannel

LEMMA ChatNextInv ==
  MemoryInv /\ ClearForgets /\ [ChatNext]_chatVars => MemoryInv' /\ ClearForgets'
BY TakeRequestInv, CountInv, SummariseInv, SummaryComesInv, RestoreMessageInv, AddQuestionInv,
   FinishChatInv, CallsInv, ToolCallsInv, ShellClearInv, ChatStutterInv DEF ChatNext, ChatStep

(* The table stays within its limit and every channel in the order of its  *)
(* conversation, without a message twice, for any number of channels and   *)
(* requests and any table: through drops, clears and compressions.         *)
THEOREM MemoryInOrder == ChatSpec => []MemoryInv
<1>1. ChatInit => MemoryInv /\ ClearForgets
  BY ChatInitInv
<1>2. MemoryInv /\ ClearForgets /\ [ChatNext]_chatVars => (MemoryInv /\ ClearForgets)'
  BY ChatNextInv
<1>3. QED
  BY <1>1, <1>2, PTL DEF ChatSpec

(* Nothing said before a clear comes back, unless a compression was under  *)
(* way when the memory was cleared.                                        *)
THEOREM ClearedIsForgotten == ChatSpec => []ClearForgets
<1>1. ChatInit => MemoryInv /\ ClearForgets
  BY ChatInitInv
<1>2. MemoryInv /\ ClearForgets /\ [ChatNext]_chatVars => (MemoryInv /\ ClearForgets)'
  BY ChatNextInv
<1>3. QED
  BY <1>1, <1>2, PTL DEF ChatSpec

(***************************************************************************)
(* What a conversation costs the others                                    *)
(***************************************************************************)

LEMMA AddingToOthers ==
  ASSUME NEW s \in Seq(MessageType), NEW m \in MessageType, Len(s) <= MaxMsgs,
         NEW r \in {MemoryAdd(s, m), MemoryAddFails(s, m.ch)}, NEW c, c # m.ch
  PROVE  \/ Build(r, c) = Build(s, c)
         \/ Len(s) = MaxMsgs /\ \A i \in 1..Len(s) : ~IsPair(s, i, m.ch)
<1>1. PICK q : q = MakeRoom(s, m.ch)
  OBVIOUS
<1>2. /\ q \in Seq(MessageType)
      /\ Build(q, c) # Build(s, c) =>
           Len(s) = MaxMsgs /\ \A i \in 1..Len(s) : ~IsPair(s, i, m.ch)
  BY <1>1, RoomMade
<1>3. Build(r, c) = Build(q, c)
  <2>1. CASE r = MemoryAddFails(s, m.ch)
    BY <1>1, <2>1 DEF MemoryAddFails
  <2>2. CASE r = MemoryAdd(s, m)
    <3>1. r = Append(q, m)
      BY <1>1, <2>2 DEF MemoryAdd
    <3>2. ~Fits(m, c, "its")
      BY DEF Fits
    <3>3. Kept(Append(q, m), c, "its") = Kept(q, c, "its")
      BY <1>2, <3>2, KeptOfAppend
    <3>4. QED
      BY <3>1, <3>3 DEF Build
  <2>3. QED
    BY <2>1, <2>2
<1>4. QED
  BY <1>2, <1>3

LEMMA OthersStep ==
  ASSUME MemoryInv, [ChatNext]_chatVars, ch' = ch, ring' # <<>>, NEW c \in Channels \ {ch}
  PROVE  \/ Build(ring', c) = Build(ring, c)
         \/ /\ Len(ring) = MaxMsgs /\ pc \in {"question", "done"}
            /\ \A i \in 1..Len(ring) : ~IsPair(ring, i, ch)
<1>1. ring \in Seq(MessageType) /\ Len(ring) <= MaxMsgs /\ ChatTypeOK
  BY DEF MemoryInv, ChatTypeOK
<1>2. CASE ring' = ring
  BY <1>2
<1>3. CASE SummaryComes
  <2>1. ring' = Kept(ring, ch, "others'")
    BY <1>3 DEF SummaryComes, ClearChannel
  <2>2. Kept(Kept(ring, ch, "others'"), c, "its") = Kept(ring, c, "its")
    BY <1>1, KeptRightAlways DEF KeptRight
  <2>3. QED
    BY <2>1, <2>2 DEF Build
<1>4. CASE Restore
  <2>1. /\ pc = "restore" /\ messages # <<>>
        /\ ring' \in {MemoryAdd(ring, Head(messages)), MemoryAddFails(ring, ch)}
    BY <1>4 DEF Restore
  <2>2. /\ messages \in Seq(MessageType) /\ \A j \in 1..Len(messages) : messages[j].ch = ch
        /\ Len(ring) + Len(messages) <= MaxMsgs
    BY <2>1 DEF MemoryInv, CopyInOrder, CopyFits, Compressing
  <2>3. Len(messages) \in Nat /\ Len(messages) >= 1 /\ Len(ring) \in Nat /\ MaxMsgs \in Nat
    BY <1>1, <2>1, <2>2, LenProperties, EmptySeq, MaxMsgsAssumption
  <2>4. PICK m : m = Head(messages) /\ m \in MessageType /\ m.ch = ch
    <3>1. Head(messages) = messages[1] /\ 1 \in 1..Len(messages)
      BY <2>1, <2>2, <2>3
    <3>2. QED
      BY <2>2, <3>1, LenProperties
  <2>5. ring' \in {MemoryAdd(ring, m), MemoryAddFails(ring, m.ch)} /\ c # m.ch
    BY <2>1, <2>4
  <2>6. Len(ring) # MaxMsgs
    BY <2>2, <2>3
  <2>7. QED
    BY <1>1, <2>4, <2>5, <2>6, AddingToOthers
<1>5. CASE AddQuestion
  <2>1. /\ pc = "question" /\ ch \in Channels /\ chat > 0
        /\ ring' \in {MemoryAdd(ring, Question), MemoryAddFails(ring, ch)}
    BY <1>5 DEF AddQuestion, MemoryInv, WorkerPlace, BeforeQuestion
  <2>2. Question \in MessageType /\ Question.ch = ch
    BY <1>1, <2>1, OwnMessages
  <2>3. QED
    BY <1>1, <2>1, <2>2, AddingToOthers
<1>6. CASE FinishChat /\ ring' # ring
  <2>1. pc = "done" /\ ch # NoChannel
        /\ ring' \in {MemoryAdd(ring, Answer), MemoryAddFails(ring, ch)}
    BY <1>6 DEF FinishChat
  <2>2. ch \in Channels /\ chat > 0
    BY <1>1, <2>1 DEF ChatTypeOK, MemoryInv, WorkerPlace
  <2>3. Answer \in MessageType /\ Answer.ch = ch
    BY <1>1, <2>2, OwnMessages
  <2>4. QED
    BY <1>1, <2>1, <2>3, AddingToOthers
<1>7. ring' = ring \/ SummaryComes \/ Restore \/ AddQuestion \/ FinishChat
  BY DEF ChatNext, ChatStep, TakeRequest, Count, Summarise, SummaryFails, RestoreEnds, BuildPrompt,
     Transient, Refused, AnswerComes, ToolCalls, ShellClear, MemoryClear, chatVars
<1>8. QED
  BY <1>2, <1>3, <1>4, <1>5, <1>6, <1>7

(* A conversation costs another channel nothing, unless the table is full  *)
(* and the channel has no pair of its own to give: compressing one channel *)
(* and adding to it drops no message of the others.                        *)
THEOREM OthersKeepTheirs == ChatSpec => OthersKept
<1>1. MemoryInv /\ [ChatNext]_chatVars =>
        [ch' = ch /\ ring' # <<>> =>
           \A c \in Channels \ {ch} :
             \/ Build(ring', c) = Build(ring, c)
             \/ /\ Len(ring) = MaxMsgs /\ pc \in {"question", "done"}
                /\ \A i \in 1..Len(ring) : ~IsPair(ring, i, ch)]_chatVars
  BY OthersStep
<1>2. QED
  BY <1>1, MemoryInOrder, PTL DEF ChatSpec, OthersKept
=============================================================================
