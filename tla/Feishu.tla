------------------------------- MODULE Feishu ------------------------------
(***************************************************************************)
(* The Feishu service (claw/services/im/feishu.c): ImRelay behind the      *)
(* thread that gets a token, connects a WebSocket and handles its frames.  *)
(* The server sends an event again until it has seen the acknowledgement,  *)
(* in any order; the device tells duplicates by a ring of the last event   *)
(* ids, and ignores events older by a minute than the newest.              *)
(*                                                                         *)
(* The acknowledgement goes out before the event is looked at; it may be   *)
(* late, or lost with the connection.  Events are numbered in the order of *)
(* their creation and all are text messages.  A token that has expired     *)
(* makes a reply fail like any other error (PartFailed).                   *)
(***************************************************************************)
EXTENDS ImRelay

CONSTANTS
  DedupSlots,      (* DEDUP_SLOTS                                          *)
  StaleAge,        (* STALE_EVENT_MAX_AGE_MS, in numbers of events         *)
  TokenRetries,    (* TOKEN_MAX_RETRIES                                    *)
  MaxLost          (* bound: acknowledgements and connections lost         *)

ASSUME FeishuAssumption ==
  /\ DedupSlots \in Nat \ {0} /\ StaleAge \in Nat
  /\ TokenRetries \in Nat \ {0} /\ MaxLost \in Nat

VARIABLES
  events,          (* external: the number of events there have been       *)
  unacked,         (* external: those the server sends, or sends again     *)
  frame,           (* the event in its hand                                *)
  retries,         (* of refresh_token()                                   *)
  dedup, dedupIdx, latest,
  lost,            (* acknowledgements and connections lost so far         *)
  taken,           (* history: the events that passed the ring, this boot  *)
  known,           (* history: the events looked at in any boot            *)
  cut              (* history: the events in hand when a reset came        *)

server == <<events, unacked, lost>>
filter == <<dedup, dedupIdx, latest, taken, known>>
fsVars == <<relay, server, front, frame, retries, filter, cut>>

None == Result     (* an empty slot, no frame                              *)

EmptyRing == [i \in 0..(DedupSlots - 1) |-> None]

FsInit ==
  /\ RelayInit
  /\ events = 0 /\ unacked = {} /\ lost = 0
  /\ front = "token" /\ frame = None /\ retries = 0
  /\ dedup = EmptyRing /\ dedupIdx = 0 /\ latest = 0
  /\ taken = <<>> /\ known = {} /\ cut = {}

-----------------------------------------------------------------------------
(* The start, and the connection *)

Event ==
  /\ events + 1 \in Ids
  /\ events' = events + 1 /\ unacked' = unacked \cup {events + 1}
  /\ UNCHANGED <<relay, lost, front, frame, retries, filter, cut>>

(* The thread tests its exit flag wherever it goes on.                     *)
Goto(place) == front' = IF stop = "front" THEN "gone" ELSE place

TokenOk ==
  /\ front = "token" /\ Goto("connect")
  /\ UNCHANGED <<relay, server, frame, retries, filter, cut>>

(* After TokenRetries failures the thread ends.                            *)
TokenFailed ==
  /\ front = "token" /\ retries' = retries + 1
  /\ Goto(IF retries' >= TokenRetries THEN "gone" ELSE "token")
  /\ UNCHANGED <<relay, server, frame, filter, cut>>

(* mutant: a lost connection is not opened again                           *)
ConnectOnce ==
  /\ front = "connect" /\ Goto("online")
  /\ UNCHANGED <<relay, server, frame, retries, filter, cut>>

(* connect_ws(), repeated until it succeeds                                *)
Connect ==
  /\ front \in {"connect", "lost"} /\ Goto("online")
  /\ UNCHANGED <<relay, server, frame, retries, filter, cut>>

ConnectFailed ==
  /\ front \in {"connect", "lost"} /\ Goto(front)
  /\ UNCHANGED <<relay, server, frame, retries, filter, cut>>

Disconnect ==
  /\ front = "online" /\ lost < MaxLost
  /\ lost' = lost + 1 /\ Goto("lost")
  /\ UNCHANGED <<relay, events, unacked, frame, retries, filter, cut>>

(* No frame came, and the thread is to exit.                               *)
FrontExit ==
  /\ front = "online" /\ stop = "front"
  /\ front' = "gone"
  /\ UNCHANGED <<relay, server, frame, retries, filter, cut>>

-----------------------------------------------------------------------------
(* A frame *)

(* ws_handle_frame(): the frame is acknowledged.                           *)
Acknowledge(e) ==
  /\ front = "online" /\ e \in unacked
  /\ front' = "frame" /\ frame' = e
  /\ \/ unacked' = unacked \ {e} /\ UNCHANGED lost
     \/ lost < MaxLost /\ lost' = lost + 1 /\ UNCHANGED unacked
  /\ UNCHANGED <<relay, events, retries, filter, cut>>

(* dedup_check_and_add()                                                   *)
Duplicate(e) == \E i \in DOMAIN dedup : dedup[i] = e

(* mutant: the index is not advanced                                       *)
SameSlot(i) == i

SlotAfter(i) == (i + 1) % DedupSlots

Stale(e) == latest > 0 /\ e + StaleAge < latest

(* process_event_payload(), handle_message_event()                         *)
Process ==
  /\ front = "frame" /\ Goto("online")
  /\ frame' = None /\ known' = known \cup {frame}
  /\ IF Duplicate(frame)
     THEN UNCHANGED <<inbound, dedup, dedupIdx, latest, taken>>
     ELSE /\ dedup' = [dedup EXCEPT ![dedupIdx] = frame]
          /\ dedupIdx' = SlotAfter(dedupIdx)
          /\ taken' = Append(taken, frame)
          /\ IF Stale(frame)
             THEN UNCHANGED <<inbound, latest>>
             ELSE /\ latest' = IF frame > latest THEN frame ELSE latest
                  /\ QueueInbound(frame)
  /\ UNCHANGED <<outbound, worker, sender, stop, results, resets, answers,
                 server, retries, cut>>

-----------------------------------------------------------------------------

JoinFront ==
  /\ Join("front", "ai", front = "gone")
  /\ UNCHANGED <<server, front, frame, retries, filter, cut>>

(* The device loses its power, the server and what it has seen do not.     *)
FsReset ==
  /\ RelayReset
  /\ front' = "token" /\ frame' = None /\ retries' = 0
  /\ dedup' = EmptyRing /\ dedupIdx' = 0 /\ latest' = 0
  /\ taken' = <<>>
  /\ cut' = IF front = "frame" THEN cut \cup {frame} ELSE cut
  /\ UNCHANGED <<server, known>>

FsFront ==
  \/ TokenOk \/ TokenFailed \/ Connect \/ ConnectFailed \/ FrontExit
  \/ \E e \in Ids : Acknowledge(e)
  \/ Process

Relay(action) ==
  action /\ UNCHANGED <<server, front, frame, retries, filter, cut>>

FsNext ==
  \/ Event \/ Disconnect \/ FsFront \/ JoinFront \/ FsReset
  \/ Relay(RelayNext)

(* The threads run, the connection comes about, and the server sends what  *)
(* is not acknowledged again and again.                                    *)
FsFairness ==
  /\ WF_fsVars(TokenOk) /\ WF_fsVars(Connect) /\ WF_fsVars(FrontExit)
  /\ \A e \in Ids : SF_fsVars(Acknowledge(e))
  /\ WF_fsVars(Process) /\ WF_fsVars(JoinFront)
  /\ WF_fsVars(Relay(Worker)) /\ WF_fsVars(Relay(Sender))
  /\ WF_fsVars(Relay(JoinWorker)) /\ WF_fsVars(Relay(JoinSender))

FsSpec == FsInit /\ [][FsNext]_fsVars /\ FsFairness

-----------------------------------------------------------------------------

FsTypeOK ==
  /\ RelayTypeOK
  /\ events \in Nat /\ unacked \subseteq Ids /\ lost \in 0..MaxLost
  /\ front \in {"token", "connect", "online", "frame", "lost", "gone"}
  /\ frame \in Ids \cup {None}
  /\ retries \in 0..TokenRetries
  /\ dedup \in [0..(DedupSlots - 1) -> Ids \cup {None}]
  /\ dedupIdx \in 0..(DedupSlots - 1) /\ latest \in Ids \cup {None}
  /\ taken \in Seq(Ids) /\ known \subseteq Ids /\ cut \subseteq Ids

(* An event the server repeats is taken again only after as many others as *)
(* the ring has slots (feishu.c:155-165): the ring holds the last ones, in *)
(* whatever order events, repeats and lost connections come.               *)
RingRemembers ==
  \A i, j \in DOMAIN taken :
    i < j /\ taken[i] = taken[j] => j - i > DedupSlots

(* The ring is written cyclically: the event taken k events ago is k slots *)
(* behind the index.                                                       *)
RingIsTail ==
  \A k \in 1..DedupSlots :
    k <= Len(taken) =>
      dedup[(dedupIdx - k) % DedupSlots] = taken[Len(taken) + 1 - k]

(* No acknowledged event has been passed over, but for the frame that was  *)
(* in hand at a reset.                                                     *)
AckedWereSeen ==
  1..events \subseteq unacked \cup known \cup cut \cup {frame}

(* What makes these inductive: the thread has a frame in its hand exactly  *)
(* while it handles one, so that none is lost by the next; and it does not *)
(* ask for another token once it has given up.                             *)
FrameInHand ==
  /\ front = "frame" <=> frame # None
  /\ front = "token" => retries < TokenRetries

(* All of the above.                                                       *)
FeishuInv ==
  /\ FsTypeOK /\ RingRemembers /\ RingIsTail
  /\ QueuesOutliveThreads /\ AckedWereSeen
  /\ FrameInHand /\ GoneInOrder

(* Every event is looked at, however often the connection is lost, unless  *)
(* a reset comes after its acknowledgement, the service is stopped or the  *)
(* token could not be had in TokenRetries attempts.                        *)
EventsSeen ==
  \A e \in Ids :
    events >= e ~> (e \in known \cup cut \/ stop # "run" \/ front = "gone")
=============================================================================
