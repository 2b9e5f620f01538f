------------------------------ MODULE AiMemory ------------------------------
(***************************************************************************)
(* The short-term memory of the AI (claw/services/ai/ai_memory.c): one     *)
(* table of messages, oldest first, shared by all conversation channels.   *)
(* Each function of ai_memory.c holds the lock throughout, so each is one  *)
(* operator from the table before to the table after.                      *)
(***************************************************************************)
EXTENDS Integers, Sequences

CONSTANT MaxMsgs   (* MEM_MAX_MSGS *)

(* With 0 or 1 the loop in ai_memory_add would never end: it drops pairs.  *)
ASSUME MaxMsgsAssumption == MaxMsgs \in Nat /\ MaxMsgs >= 2

Without(ring, i) == SubSeq(ring, 1, i - 1) \o SubSeq(ring, i + 2, Len(ring))

(* A neighbouring pair of the channel; not necessarily a question and its  *)
(* answer.                                                                 *)
IsPair(ring, i, ch) ==
  i \in 1..(Len(ring) - 1) /\ ring[i].ch = ch /\ ring[i + 1].ch = ch

(* mutant: the first two messages of the table, whoever's they are         *)
OldestAny(ring, ch) == 1

(* drop_oldest_pair_for: the first pair of the channel, or the first two   *)
(* messages of the table when it has none.                                 *)
OldestPair(ring, ch) ==
  IF \E i \in 1..Len(ring) : IsPair(ring, i, ch)
  THEN CHOOSE i \in 1..Len(ring) :
         IsPair(ring, i, ch) /\ \A j \in 1..(i - 1) : ~IsPair(ring, j, ch)
  ELSE 1

DropOldestPairFor(ring, ch) ==
  IF Len(ring) < 2 THEN ring ELSE Without(ring, OldestPair(ring, ch))

(* The loop of ai_memory_add; the table is never above its limit, so one   *)
(* turn makes room.                                                        *)
MakeRoom(ring, ch) ==
  IF Len(ring) >= MaxMsgs THEN DropOldestPairFor(ring, ch) ELSE ring

(* ai_memory_add, when the copy of the text can be allocated and when not. *)
MemoryAdd(ring, msg)    == Append(MakeRoom(ring, msg.ch), msg)
MemoryAddFails(ring, ch) == MakeRoom(ring, ch)

(* The loop over the table that keeps, in order, what a channel has in it, *)
(* or what the others have.                                                *)
Kept(ring, ch, whose) ==
  LET kept[n \in 0..Len(ring)] ==
        IF n = 0 THEN <<>>
        ELSE IF (ring[n].ch = ch) <=> (whose = "its")
             THEN Append(kept[n - 1], ring[n])
             ELSE kept[n - 1]
  IN  kept[Len(ring)]

(* ai_memory_build, ai_memory_count_channel, ai_memory_clear_channel       *)
Build(ring, ch)        == Kept(ring, ch, "its")
CountChannel(ring, ch) == Len(Build(ring, ch))
ClearChannel(ring, ch) == Kept(ring, ch, "others'")

(* mutant: the loop ends one message early                                 *)
MemoryClearButLast(ring) ==
  IF ring = <<>> THEN ring ELSE <<ring[Len(ring)]>>

(* ai_memory_clear                                                         *)
MemoryClear(ring) == <<>>

=============================================================================
