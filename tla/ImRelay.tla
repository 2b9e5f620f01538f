------------------------------ MODULE ImRelay ------------------------------
(***************************************************************************)
(* The half that the two IM services (claw/services/im/telegram.c and      *)
(* feishu.c) have in common: an inbound queue filled by the front thread,  *)
(* the worker that asks the AI for every message of it, an outbound queue, *)
(* the thread that sends the replies in parts, and the stop of the three   *)
(* threads one after the other.  Telegram and Feishu add their front       *)
(* threads, which talk to the two servers.                                 *)
(*                                                                         *)
(* A thread tests its exit flag between two messages.  Calls to the AI and *)
(* to the server take a step of their own and return (AiRequests shows     *)
(* when the former does).                                                  *)
(***************************************************************************)
EXTENDS Integers, Sequences, FiniteSets

CONSTANTS
  Ids,             (* the messages users may send, numbered                *)
  InboundDepth, OutboundDepth,
  MaxMsgLen,       (* TG_MAX_MSG_LEN, FEISHU_MAX_MSG_LEN                   *)
  MaxReply,        (* bound on the length of a reply                       *)
  MaxResults,      (* bound on the results of scheduled AI tasks           *)
  MaxResets        (* bound on the resets of the device                    *)

ASSUME RelayAssumption ==
  /\ Ids \subseteq Nat \ {0}
  /\ InboundDepth \in Nat \ {0} /\ OutboundDepth \in Nat \ {0}
  /\ MaxMsgLen \in Nat /\ MaxMsgLen > 1
  /\ MaxReply \in Nat \ {0} /\ MaxResults \in Nat /\ MaxResets \in Nat

(* What the outbound queue holds for a scheduled task: no user asked.      *)
Result == 0

VARIABLES
  inbound, outbound,   (* the queues, of message ids                       *)
  worker,              (* tg_ai, fs_ai: [pc, msg]                          *)
  sender,              (* tg_out, fs_out: [pc, msg, rest]                  *)
  stop,                (* the thread claw_thread_delete() waits for        *)
  front,               (* where the front thread is, which is not modelled *)
                       (* here                                             *)
  results, resets,
  answers              (* history: messages answered in full, this boot    *)

relay == <<inbound, outbound, worker, sender, stop, results, resets, answers>>

RelayInit ==
  /\ inbound = <<>> /\ outbound = <<>>
  /\ worker = [pc |-> "recv", msg |-> Result]
  /\ sender = [pc |-> "recv", msg |-> Result, rest |-> 0]
  /\ stop = "run" /\ answers = <<>>
  /\ results = 0 /\ resets = 0

(* mutant: the loop does not test the exit flag                            *)
LoopOn(thread) == "recv"

(* Where a thread goes from the end of its loop                            *)
Loop(thread) == IF stop = thread THEN "gone" ELSE "recv"

-----------------------------------------------------------------------------
(* The queues *)

(* mutant: the queue takes one message too many                            *)
FullLate(q, depth) == Len(q) > depth

Full(q, depth) == Len(q) >= depth

(* claw_mq_send() without waiting, as the front thread calls it            *)
QueueInbound(m) ==
  inbound' = IF Full(inbound, InboundDepth) THEN inbound
             ELSE Append(inbound, m)

(* enqueue_reply() drops the reply for want of memory, or of room within a *)
(* second.                                                                 *)
EnqueueReply(m) ==
  \/ UNCHANGED outbound
  \/ ~Full(outbound, OutboundDepth) /\ outbound' = Append(outbound, m)

-----------------------------------------------------------------------------
(* The AI worker *)

WorkerRecv ==
  /\ worker.pc = "recv" /\ inbound # <<>>
  /\ worker' = [pc |-> "chat", msg |-> Head(inbound)]
  /\ inbound' = Tail(inbound)
  /\ UNCHANGED <<outbound, sender, stop, results, resets, answers>>

(* A skill, a shell command or ai_chat() has come back: whatever it says,  *)
(* an answer or an error, becomes the reply.                               *)
WorkerReply ==
  /\ worker.pc = "chat"
  /\ EnqueueReply(worker.msg)
  /\ worker' = [pc |-> Loop("ai"), msg |-> Result]
  /\ UNCHANGED <<inbound, sender, stop, results, resets, answers>>

(* Nothing came within a second, and the thread is to exit.                *)
WorkerExit ==
  /\ worker.pc = "recv" /\ inbound = <<>> /\ stop = "ai"
  /\ worker' = [worker EXCEPT !.pc = "gone"]
  /\ UNCHANGED <<inbound, outbound, sender, stop, results, resets, answers>>

-----------------------------------------------------------------------------
(* The outbound thread *)

SenderRecv ==
  /\ sender.pc = "recv" /\ outbound # <<>>
  /\ \E length \in 1..MaxReply :
       sender' = [pc |-> "send", msg |-> Head(outbound), rest |-> length]
  /\ outbound' = Tail(outbound)
  /\ UNCHANGED <<inbound, worker, stop, results, resets, answers>>

(* im_find_chunk_end(): the size of the next part of a text of which rest  *)
(* characters are left and in which the characters numbered newlines, from *)
(* 0, are line ends: up to the last line end in the second half of what    *)
(* may be sent at once, the line end included.                             *)
Breaks(newlines, max) == {i \in newlines : max \div 2 < i /\ i <= max}

ChunkEnd(rest, newlines, max) ==
  IF rest <= max THEN rest
  ELSE IF Breaks(newlines, max) = {} THEN max
  ELSE 1 + CHOOSE i \in Breaks(newlines, max) :
             \A j \in Breaks(newlines, max) : j <= i

(* send_reply(): one part is on its way, the server takes it or does not;  *)
(* in the latter case the remaining parts are given up.                    *)
PartSent ==
  /\ sender.pc = "send"
  /\ \E newlines \in SUBSET (0..(sender.rest - 1)) :
       LET rest == sender.rest - ChunkEnd(sender.rest, newlines, MaxMsgLen) IN
         IF rest > 0
         THEN sender' = [sender EXCEPT !.rest = rest] /\ UNCHANGED answers
         ELSE /\ sender' = [pc |-> Loop("out"), msg |-> Result, rest |-> 0]
              /\ answers' = IF sender.msg = Result THEN answers
                            ELSE Append(answers, sender.msg)
  /\ UNCHANGED <<inbound, outbound, worker, stop, results, resets>>

PartFailed ==
  /\ sender.pc = "send"
  /\ sender' = [pc |-> Loop("out"), msg |-> Result, rest |-> 0]
  /\ UNCHANGED <<inbound, outbound, worker, stop, results, resets, answers>>

SenderExit ==
  /\ sender.pc = "recv" /\ outbound = <<>> /\ stop = "out"
  /\ sender' = [sender EXCEPT !.pc = "gone"]
  /\ UNCHANGED <<inbound, outbound, worker, stop, results, resets, answers>>

(* sched_reply_to_telegram(), sched_reply_to_feishu(): called by the       *)
(* worker thread of the scheduled tasks while the queues are there.        *)
ScheduledReply ==
  /\ results < MaxResults /\ stop # "down"
  /\ results' = results + 1
  /\ EnqueueReply(Result)
  /\ UNCHANGED <<inbound, worker, sender, stop, resets, answers>>

-----------------------------------------------------------------------------
(* The stop: *_svc_stop() deletes the threads in this order, each call     *)
(* sets the exit flag and joins, and then the queues.                      *)

StopCall ==
  /\ stop = "run"
  /\ stop' = "front"
  /\ UNCHANGED <<inbound, outbound, worker, sender, results, resets, answers>>

Join(thread, next, gone) ==
  /\ stop = thread /\ gone
  /\ stop' = next
  /\ UNCHANGED <<inbound, outbound, worker, sender, results, resets, answers>>

JoinWorker == Join("ai", "out", worker.pc = "gone")

JoinSender ==
  /\ stop = "out" /\ sender.pc = "gone"
  /\ stop' = "down" /\ inbound' = <<>> /\ outbound' = <<>>
  /\ UNCHANGED <<worker, sender, results, resets, answers>>

(* All of this is in RAM.                                                  *)
RelayReset ==
  /\ resets < MaxResets
  /\ resets' = resets + 1
  /\ inbound' = <<>> /\ outbound' = <<>>
  /\ worker' = [pc |-> "recv", msg |-> Result]
  /\ sender' = [pc |-> "recv", msg |-> Result, rest |-> 0]
  /\ stop' = "run" /\ answers' = <<>>
  /\ UNCHANGED results

RelayNext ==
  \/ WorkerRecv \/ WorkerReply \/ WorkerExit
  \/ SenderRecv \/ PartSent \/ PartFailed \/ SenderExit
  \/ ScheduledReply \/ StopCall \/ JoinWorker \/ JoinSender

(* The threads run; claw_thread_delete() returns once they have ended.     *)
Worker == WorkerRecv \/ WorkerReply \/ WorkerExit
Sender == SenderRecv \/ PartSent \/ PartFailed \/ SenderExit

RelayTypeOK ==
  /\ inbound \in Seq(Ids) /\ Len(inbound) <= InboundDepth
  /\ outbound \in Seq(Ids \cup {Result}) /\ Len(outbound) <= OutboundDepth
  /\ worker \in [pc : {"recv", "chat", "gone"}, msg : Ids \cup {Result}]
  /\ sender \in [pc : {"recv", "send", "gone"}, msg : Ids \cup {Result},
                 rest : Nat]
  /\ stop \in {"run", "front", "ai", "out", "down"}
  /\ results \in Nat /\ resets \in Nat
  /\ answers \in Seq(Ids)

(* The queues are deleted when no thread uses them any more                *)
(* (telegram.c:588-604, feishu.c:1402-1432).                               *)
QueuesOutliveThreads ==
  stop = "down" => {front, worker.pc, sender.pc} = {"gone"}

(* What makes it inductive: the threads end in the order in which they are *)
(* joined.                                                                 *)
GoneInOrder ==
  /\ stop \in {"ai", "out", "down"} => front = "gone"
  /\ stop \in {"out", "down"} => worker.pc = "gone"
  /\ stop = "down" => sender.pc = "gone"
=============================================================================
