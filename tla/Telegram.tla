------------------------------ MODULE Telegram ------------------------------
(***************************************************************************)
(* The Telegram service (claw/services/im/telegram.c): ImRelay behind the  *)
(* poll thread, which asks the server for updates from an offset on.  The  *)
(* offset is what the service has instead of a table of duplicates: a      *)
(* request with it confirms all earlier updates, and the server repeats    *)
(* the others in every answer.                                             *)
(*                                                                         *)
(* The offset is in RAM only, and an answer is cut at the end of a buffer: *)
(* one that does not fit cannot be parsed.  The delay before a request is  *)
(* repeated is left out.                                                   *)
(***************************************************************************)
EXTENDS ImRelay

CONSTANTS
  TextUpdates,     (* the updates that are text messages                   *)
  LongUpdates,     (* the updates that take two units of the buffer        *)
  RespSize         (* RESP_BUF_SIZE, in such units                         *)

ASSUME TelegramAssumption ==
  /\ TextUpdates \subseteq Ids /\ LongUpdates \subseteq Ids
  /\ RespSize \in Nat

VARIABLES
  created,         (* external: the number of updates there have been      *)
  confirmed,       (* external: those the server has forgotten             *)
  offset,          (* update_offset                                        *)
  batch,           (* updates of the answer it has yet to process          *)
  fate             (* history: what became of each update                  *)

poll == <<created, confirmed, offset, front, batch, fate>>
vars == <<relay, poll>>

Init ==
  /\ RelayInit
  /\ created = 0 /\ confirmed = 0
  /\ offset = 0 /\ front = "recv" /\ batch = <<>>
  /\ fate = [id \in Ids |-> "new"]

-----------------------------------------------------------------------------
(* The server *)

Update ==
  /\ created + 1 \in Ids
  /\ created' = created + 1
  /\ UNCHANGED <<relay, confirmed, offset, front, batch, fate>>

(* What a request confirms, and what the answer to it holds                *)
Confirms == IF offset - 1 > confirmed THEN offset - 1 ELSE confirmed
Backlog  == (Confirms + 1)..created
Fits     == Cardinality(Backlog) + Cardinality(Backlog \cap LongUpdates)
              <= RespSize

-----------------------------------------------------------------------------
(* The poll thread *)

(* One getUpdates request; an answer that does not fit confirms all the    *)
(* same.                                                                   *)
Poll ==
  /\ front = "recv" /\ Backlog # {}
  /\ confirmed' = Confirms
  /\ IF Fits
     THEN /\ batch' = [i \in 1..(created - Confirms) |-> Confirms + i]
          /\ front' = "batch"
     ELSE front' = Loop("front") /\ UNCHANGED batch
  /\ UNCHANGED <<relay, created, offset, fate>>

(* No answer in time, an error, or nothing to tell; the request may have   *)
(* reached the server.                                                     *)
PollFailed ==
  /\ front = "recv"
  /\ confirmed' \in {confirmed, Confirms} /\ front' = Loop("front")
  /\ UNCHANGED <<relay, created, offset, batch, fate>>

(* mutant: the offset is that of the update itself                         *)
OffsetOf(id) == IF id >= offset THEN id ELSE offset

(* mutant: the offset is one too far                                       *)
PastNext(id) == IF id >= offset THEN id + 2 ELSE offset

PastUpdate(id) == IF id >= offset THEN id + 1 ELSE offset

(* process_update()                                                        *)
ProcessUpdate ==
  /\ front = "batch"
  /\ LET id == Head(batch) IN
       /\ offset' = PastUpdate(id)
       /\ IF id \in TextUpdates
          THEN /\ QueueInbound(id)
               /\ fate' = [fate EXCEPT ![id] =
                    IF Full(inbound, InboundDepth) THEN "dropped" ELSE "queued"]
          ELSE UNCHANGED inbound /\ fate' = [fate EXCEPT ![id] = "ignored"]
  /\ batch' = Tail(batch)
  /\ front' = IF Len(batch) = 1 THEN Loop("front") ELSE "batch"
  /\ UNCHANGED <<outbound, worker, sender, stop, results, resets, answers,
                 created, confirmed>>

-----------------------------------------------------------------------------

JoinPoll == Join("front", "ai", front = "gone") /\ UNCHANGED poll

(* The device loses its power; the server does not.                        *)
Reset ==
  /\ RelayReset
  /\ offset' = 0 /\ front' = "recv" /\ batch' = <<>>
  /\ UNCHANGED <<created, confirmed, fate>>

Next ==
  \/ Update \/ Poll \/ PollFailed \/ ProcessUpdate \/ JoinPoll \/ Reset
  \/ RelayNext /\ UNCHANGED poll

(* The threads run, and requests do not fail for ever.                     *)
Fairness ==
  /\ WF_vars(Poll) /\ WF_vars(PollFailed /\ Backlog = {})
  /\ WF_vars(ProcessUpdate)
  /\ WF_vars(Worker /\ UNCHANGED poll)
  /\ WF_vars(Sender /\ UNCHANGED poll)
  /\ WF_vars(JoinPoll) /\ WF_vars(JoinWorker /\ UNCHANGED poll)
  /\ WF_vars(JoinSender /\ UNCHANGED poll)

Spec == Init /\ [][Next]_vars /\ Fairness

-----------------------------------------------------------------------------

TypeOK ==
  /\ RelayTypeOK
  /\ created \in Nat /\ confirmed \in Nat /\ offset \in Nat
  /\ front \in {"recv", "batch", "gone"}
  /\ batch \in Seq(Ids)
  /\ fate \in [Ids -> {"new", "queued", "dropped", "ignored"}]

(* The stages a message goes through, from the last to the first: the      *)
(* numbers in each, as the set of its messages.                            *)
Elems(s) == {s[i] : i \in DOMAIN s} \ {Result}
Stages == <<Elems(answers), {sender.msg} \ {Result}, Elems(outbound),
            {worker.msg} \ {Result}, Elems(inbound), Elems(batch)>>

(* What is in a queue is in the order of the updates.                      *)
InOrder(s) == \A i, j \in DOMAIN s :
                i < j /\ s[i] # Result /\ s[j] # Result => s[i] < s[j]

(* The update ids are all the service needs to tell duplicates: within one *)
(* boot the messages are answered in the order they were sent in, and none *)
(* is in two places or answered twice, although the server repeats what is *)
(* not confirmed yet (telegram.c:11).                                      *)
AnsweredInOrder ==
  /\ InOrder(answers) /\ InOrder(outbound) /\ InOrder(inbound)
  /\ InOrder(batch)
  /\ \A a, b \in 1..6 : a < b =>
       \A m \in Stages[a], n \in Stages[b] : m < n

(* No update is forgotten by the server before the device has taken it out *)
(* of the answer, wherever a reset hits: the next request is what confirms *)
(* (telegram.c:407, 469).                                                  *)
ConfirmedWereTaken == \A id \in Ids : id <= confirmed => fate[id] # "new"

(* What makes the two inductive.  The poll thread has in its hand what     *)
(* follows the updates a request would confirm; those have been taken, and *)
(* the messages under way are among them.                                  *)
BatchFollows ==
  /\ 1..created \subseteq Ids
  /\ front = "batch" <=> batch # <<>>
  /\ \A i \in DOMAIN batch : batch[i] = Confirms + i

ConfirmsWereTaken ==
  /\ \A id \in Ids : id <= Confirms => fate[id] # "new"
  /\ \A a \in 1..5 : \A m \in Stages[a] : m <= Confirms

(* All of the above.                                                       *)
TelegramInv ==
  /\ TypeOK /\ AnsweredInOrder /\ ConfirmedWereTaken /\ QueuesOutliveThreads
  /\ BatchFollows /\ ConfirmsWereTaken /\ GoneInOrder

(* Every update is taken, unless the backlog has outgrown the buffer of    *)
(* the poll thread for good, or the service is stopped: neither repeated   *)
(* answers, other updates nor resets make the poll thread miss one.        *)
UpdatesTaken ==
  \A id \in Ids :
    created >= id ~> (fate[id] # "new" \/ stop # "run" \/ []~Fits)

(* telegram_svc_stop() returns, whatever is queued and however long the    *)
(* replies are.                                                            *)
StopReturns == stop = "front" ~> (stop \in {"run", "down"})
=============================================================================
