------------------------------- MODULE AiChat -------------------------------
(***************************************************************************)
(* What the AI worker does for one request (claw/services/ai/ai_engine.c,  *)
(* do_chat and do_chat_raw): compress the channel's memory, add the        *)
(* question, build the messages, talk to the API in rounds with retries    *)
(* and tool calls, add the answer.  AiRequests brings the requests here    *)
(* one after the other; the memory is that of AiMemory.                    *)
(*                                                                         *)
(* Another thread is at work too: the shell clears the memory at any       *)
(* moment, also during the seconds an API call takes.                      *)
(***************************************************************************)
EXTENDS AiMemory, FiniteSets

CONSTANTS
  Channels,    (* AI_CHANNEL_*                                             *)
  CompressAt,  (* messages of a channel from which it is compressed: the   *)
               (* larger of COMPRESS_THRESHOLD and MAX_MSGS - 4            *)
  Rounds,      (* MAX_TOOL_ROUNDS                                          *)
  Retries,     (* API_MAX_RETRIES                                          *)
  NoChannel,   (* no channel                                               *)
  MaxChats     (* bound: requests in one behaviour                         *)

ASSUME ChatAssumption ==
  /\ CompressAt \in 2..MaxMsgs
  /\ Rounds \in Nat \ {0} /\ Retries \in Nat /\ MaxChats \in Nat
  /\ NoChannel \notin Channels

VARIABLES
  ring,        (* s_entries[0 .. s_count - 1]: [ch, role, id, sum]         *)
  pc,          (* where the worker is                                      *)
  ch,          (* channel of the request; NoChannel: ai_chat_raw           *)
  chat,        (* number of the request                                    *)
  round, attempt,   (* of the API calls                                    *)
  messages,    (* the JSON messages under construction                     *)
  result,      (* what the request returns: "ok", "empty", "error"         *)
  cleared,     (* history: number of the request that ran when the memory  *)
               (* was last cleared                                         *)
  overtaken    (* history: the memory was cleared during a compression     *)

calls == <<round, attempt, messages, result>>
chatVars == <<ring, pc, ch, chat, calls, cleared, overtaken>>

(* Question and answer of a request                                        *)
Message(role) == [ch |-> ch, role |-> role, id |-> chat, sum |-> FALSE]
Question == Message("user")
Answer   == Message("assistant")

(* The summary of the older half of msgs, numbered like the last of them;  *)
(* the API also "summarises" no messages at all.                           *)
Older(msgs) == Len(msgs) - Len(msgs) \div 2
Summary(msgs) ==
  [ch |-> ch, role |-> "user", sum |-> TRUE,
   id |-> IF msgs = <<>> THEN chat ELSE msgs[Older(msgs)].id]

ChatInit ==
  /\ ring = <<>> /\ pc = "idle" /\ ch = NoChannel /\ chat = 0
  /\ round = 0 /\ attempt = 0 /\ messages = <<>> /\ result = "error"
  /\ cleared = 0 /\ overtaken = FALSE

-----------------------------------------------------------------------------
(* The beginning of do_chat and of do_chat_raw *)

(* The worker takes a request; do_chat begins with the memory that is low. *)
TakeRequest(c) ==
  /\ pc = "idle" /\ chat < MaxChats
  /\ chat' = chat + 1 /\ ch' = c
  /\ round' = 0 /\ attempt' = 0 /\ messages' = <<>> /\ result' = "error"
  /\ pc' = IF c = NoChannel THEN "prompt" ELSE "count"
  /\ \/ UNCHANGED <<ring, cleared, overtaken>>
     \/ (* "Low memory - cleared" *)
        /\ c # NoChannel /\ Len(ring) > 2
        /\ ring' = MemoryClear(ring) /\ cleared' = chat + 1 /\ overtaken' = FALSE

Count ==
  /\ pc = "count"
  /\ pc' = IF CountChannel(ring, ch) >= CompressAt THEN "summarise" ELSE "question"
  /\ UNCHANGED <<ring, ch, chat, calls, cleared, overtaken>>

(* mutant: the older half is kept                                          *)
OlderHalf(msgs) == SubSeq(msgs, 1, Len(msgs) \div 2)

(* keep = total / 2, from compress_n on                                    *)
NewerHalf(msgs) == SubSeq(msgs, Older(msgs) + 1, Len(msgs))

(* try_compress_memory: the messages of the channel are copied ...         *)
Summarise ==
  /\ pc = "summarise"
  /\ \/ /\ messages' = Build(ring, ch)
        /\ pc' = "summary"
     \/ (* no memory for the texts *)
        /\ pc' = "question" /\ UNCHANGED messages
  /\ UNCHANGED <<ring, ch, chat, round, attempt, result, cleared, overtaken>>

(* ... the API summarises the older ones, or fails ...                     *)
SummaryFails ==
  /\ pc = "summary"
  /\ messages' = <<>> /\ pc' = "question"
  /\ UNCHANGED <<ring, ch, chat, round, attempt, result, cleared, overtaken>>

(* ... the channel is cleared ...                                          *)
SummaryComes ==
  /\ pc = "summary"
  /\ ring' = ClearChannel(ring, ch)
  /\ messages' = <<Summary(messages)>> \o NewerHalf(messages)
  /\ pc' = "restore"
  /\ UNCHANGED <<ch, chat, round, attempt, result, cleared, overtaken>>

(* ... and the summary and the newer ones are added again, one by one.     *)
Restore ==
  /\ pc = "restore" /\ messages # <<>>
  /\ ring' \in {MemoryAdd(ring, Head(messages)), MemoryAddFails(ring, ch)}
  /\ messages' = Tail(messages)
  /\ UNCHANGED <<pc, ch, chat, round, attempt, result, cleared, overtaken>>

RestoreEnds ==
  /\ pc = "restore" /\ messages = <<>>
  /\ pc' = "question"
  /\ UNCHANGED <<ring, ch, chat, calls, cleared, overtaken>>

AddQuestion ==
  /\ pc = "question"
  /\ ring' \in {MemoryAdd(ring, Question), MemoryAddFails(ring, ch)}
  /\ pc' = "prompt"
  /\ UNCHANGED <<ch, chat, calls, cleared, overtaken>>

-----------------------------------------------------------------------------
(* ai_chat_with_messages and do_api_call *)

(* The system prompt and the messages; a raw request has just its own.     *)
BuildPrompt ==
  /\ pc = "prompt"
  /\ \/ /\ messages' = IF ch = NoChannel THEN <<Question>> ELSE Build(ring, ch)
        /\ pc' = "post"
     \/ (* no memory for the prompt *)
        /\ pc' = "done" /\ UNCHANGED messages
  /\ UNCHANGED <<ring, ch, chat, round, attempt, result, cleared, overtaken>>

(* mutant: each retry counts as the first                                  *)
TransientForEver ==
  /\ pc = "post"
  /\ attempt' = 1 - attempt
  /\ UNCHANGED <<ring, pc, ch, chat, round, messages, result, cleared, overtaken>>

(* A transport failure or a status worth a retry                           *)
Transient ==
  /\ pc = "post"
  /\ IF attempt < Retries
     THEN attempt' = attempt + 1 /\ UNCHANGED pc
     ELSE pc' = "done" /\ UNCHANGED attempt
  /\ UNCHANGED <<ring, ch, chat, round, messages, result, cleared, overtaken>>

(* Any other status, or an error in the body                               *)
Refused ==
  /\ pc = "post"
  /\ pc' = "done"
  /\ UNCHANGED <<ring, ch, chat, calls, cleared, overtaken>>

(* The answer without tool calls; its text may be empty.                   *)
AnswerComes ==
  /\ pc = "post"
  /\ result' \in {"ok", "empty"}
  /\ pc' = "done"
  /\ UNCHANGED <<ring, ch, chat, round, attempt, messages, cleared, overtaken>>

(* The answer asks for tools: call and results become messages, and the    *)
(* next round begins with retries of its own.  clear_history is one of the *)
(* tools.  After the last round the request fails.                         *)
ToolCalls ==
  /\ pc = "post"
  /\ messages' = messages \o <<Answer, Question>>
  /\ round' = round + 1 /\ attempt' = 0
  /\ pc' = IF round + 1 < Rounds THEN "post" ELSE "done"
  /\ \/ UNCHANGED <<ring, cleared, overtaken>>
     \/ ring' = MemoryClear(ring) /\ cleared' = chat /\ overtaken' = FALSE
  /\ UNCHANGED <<ch, chat, result>>

-----------------------------------------------------------------------------
(* The end of do_chat; done is given *)

FinishChat ==
  /\ pc = "done"
  /\ IF ch # NoChannel /\ result = "ok"
     THEN ring' \in {MemoryAdd(ring, Answer), MemoryAddFails(ring, ch)}
     ELSE UNCHANGED ring
  /\ messages' = <<>> /\ pc' = "idle"
  /\ UNCHANGED <<ch, chat, round, attempt, result, cleared, overtaken>>

(* cmd_clear in the shell *)
Compressing == pc \in {"summary", "restore"}

ShellClear ==
  /\ ring # <<>> \/ Compressing
  /\ ring' = MemoryClear(ring)
  /\ cleared' = IF pc = "idle" THEN chat + 1 ELSE chat
  /\ overtaken' = Compressing
  /\ UNCHANGED <<pc, ch, chat, calls>>

ChatStep ==
  \/ Count \/ Summarise \/ SummaryFails \/ SummaryComes \/ Restore \/ RestoreEnds
  \/ AddQuestion \/ BuildPrompt
  \/ Transient \/ Refused \/ AnswerComes \/ ToolCalls
  \/ FinishChat

ChatNext ==
  \/ \E c \in Channels \cup {NoChannel} : TakeRequest(c)
  \/ ChatStep
  \/ ShellClear

ChatSpec == ChatInit /\ [][ChatNext]_chatVars

(* Each HTTP call ends, by an answer or a timeout.                         *)
FairChatSpec == ChatSpec /\ WF_chatVars(ChatStep)

-----------------------------------------------------------------------------
(* Properties *)

MessageType == [ch : Channels, role : {"user", "assistant"}, id : 1..MaxChats,
                sum : BOOLEAN]

ChatTypeOK ==
  /\ ring \in Seq(MessageType)
  /\ pc \in {"idle", "count", "summarise", "summary", "restore", "question",
             "prompt", "post", "done"}
  /\ ch \in Channels \cup {NoChannel} /\ chat \in 0..MaxChats
  /\ round \in 0..Rounds /\ attempt \in 0..Retries
  /\ result \in {"ok", "empty", "error"}
  /\ cleared \in 0..(MaxChats + 1) /\ overtaken \in BOOLEAN

(* What the worker's place says of its request                             *)
BeforeQuestion == {"count", "summarise", "summary", "restore", "question"}
WorkerPlace ==
  /\ pc # "idle" => chat > 0 /\ cleared <= chat
  /\ pc = "idle" => cleared <= chat + 1
  /\ pc \in BeforeQuestion => ch \in Channels
  /\ pc \in BeforeQuestion \cup {"prompt"} => round = 0
  /\ pc = "post" => round < Rounds

(* A channel's messages are in the order of the conversation: a summary    *)
(* before what it did not cover, a question before its answer.             *)
Place(m) == 3 * m.id + (IF m.sum THEN 0 ELSE IF m.role = "user" THEN 1 ELSE 2)
InOrder(msgs) ==
  \A i, j \in 1..Len(msgs) :
    i < j /\ msgs[i].ch = msgs[j].ch => Place(msgs[i]) < Place(msgs[j])
Ordered == InOrder(ring)

(* What the worker will add to the table belongs behind what is there: its *)
(* question, its answer, and the copy it compresses.                       *)
NewestLast ==
  \A i \in 1..Len(ring) :
    /\ ring[i].id <= chat
    /\ ring[i].ch = ch =>
         /\ pc \in BeforeQuestion => Place(ring[i]) < Place(Question)
         /\ pc \in {"prompt", "post", "done"} => Place(ring[i]) < Place(Answer)
         /\ pc = "restore" =>
              \A j \in 1..Len(messages) : Place(ring[i]) < Place(messages[j])

(* The copy is in order too, older than the question and no older than the *)
(* last clear, unless that was during the compression.                     *)
CopyInOrder ==
  Compressing =>
    /\ messages \in Seq(MessageType) /\ InOrder(messages)
    /\ \A j \in 1..Len(messages) :
         /\ messages[j].ch = ch /\ Place(messages[j]) < Place(Question)
         /\ overtaken \/ messages[j].id >= cleared

(* The copy fits where it came from, so putting it back drops nothing.     *)
CopyFits ==
  /\ pc = "summarise" => ring = <<>> \/ CountChannel(ring, ch) >= CompressAt
  /\ pc = "summary" =>
       /\ Len(ClearChannel(ring, ch)) + Len(messages) <= MaxMsgs
       /\ messages = <<>> => ring = <<>>
  /\ pc = "restore" => Len(ring) + Len(messages) <= MaxMsgs

(* The table keeps within its limit, and within a channel order and        *)
(* uniqueness, through drops, clears and compressions.                     *)
MemoryInv ==
  /\ ChatTypeOK /\ WorkerPlace
  /\ Len(ring) <= MaxMsgs /\ Ordered /\ NewestLast
  /\ CopyInOrder /\ CopyFits

(* A conversation does not cost another channel its messages, unless the   *)
(* table is full and the channel has no pair of its own to give.           *)
OthersKept ==
  [][ch' = ch /\ ring' # <<>> =>
       \A c \in Channels \ {ch} :
         \/ Build(ring', c) = Build(ring, c)
         \/ /\ Len(ring) = MaxMsgs /\ pc \in {"question", "done"}
            /\ \A i \in 1..Len(ring) : ~IsPair(ring, i, ch)]_chatVars

(* "Conversation memory cleared.": nothing said before comes back, unless  *)
(* a compression was under way.                                            *)
ClearForgets == ~overtaken => \A i \in 1..Len(ring) : ring[i].id >= cleared

(* "Clear conversation" (docs/en/usage.md): the same without the exception *)
(* does not hold (README, known deviations), and no run checks this.       *)
ClearedStaysCleared == \A i \in 1..Len(ring) : ring[i].id >= cleared

(* Every request is answered, with a reply or an error.                    *)
ChatEnds == pc # "idle" ~> pc = "idle"

=============================================================================
