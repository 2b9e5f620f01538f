---------------------------- MODULE SwarmProofs ----------------------------
(***************************************************************************)
(* The swarm.  Its membership table, for every set of peers, every table   *)
(* size and every clock width: the counter, the slots, the announcements,  *)
(* the time after which a silent node is off the list, and the node that   *)
(* is chosen.  Its remote tool invocation, for every number of retries and *)
(* of repeated datagrams and every width of the sequence number: a call    *)
(* that succeeds has the answer to its own request, and the semaphore      *)
(* collects at most one stale token, besides what the network repeats.     *)
(***************************************************************************)
EXTENDS SwarmNodes, SwarmRpc, SeqLemmas, TLAPS

-----------------------------------------------------------------------------
(* Arithmetic on the clock *)

(* An unsigned difference of two ticks, without the modulus. *)
LEMMA AgeIs ==
  ASSUME NEW a \in Clock, NEW b \in Clock
  PROVE  Age(a, b) = IF b <= a THEN a - b ELSE a - b + W
BY ClockAssumption DEF Age, Clock

LEMMA NextTick ==
  ASSUME NEW a \in Clock
  PROVE  (a + 1) % W \in Clock /\ (a + 1) % W = IF a + 1 = W THEN 0 ELSE a + 1
BY ClockAssumption DEF Clock

(* While an age is below the clock's range it grows by one with the clock. *)
LEMMA AgeGrows ==
  ASSUME NEW a \in Clock, NEW b \in Clock, Age(a, b) + 1 < W
  PROVE  Age((a + 1) % W, b) = Age(a, b) + 1
<1>1. (a + 1) % W \in Clock /\ (a + 1) % W = IF a + 1 = W THEN 0 ELSE a + 1
  BY NextTick
<1>2. Age((a + 1) % W, b)
        = IF b <= (a + 1) % W THEN ((a + 1) % W) - b ELSE ((a + 1) % W) - b + W
  BY <1>1, AgeIs
<1>3. Age(a, b) = IF b <= a THEN a - b ELSE a - b + W
  BY AgeIs
<1>4. a \in Int /\ b \in Int /\ W \in Int /\ 0 <= b /\ b < W /\ 0 <= a /\ a < W
  BY ClockAssumption DEF Clock
<1>5. QED
  BY <1>1, <1>2, <1>3, <1>4

(* The age at an earlier time: what check_timeouts judges by. *)
LEMMA AgeBefore ==
  ASSUME NEW a \in Clock, NEW b \in Clock, NEW now \in Clock
  PROVE  /\ Age(a, now) <= Age(a, b) => Age(now, b) = Age(a, b) - Age(a, now)
         /\ Age(a, b) \in Clock /\ Age(a, a) = 0
<1>1. /\ Age(a, b) = IF b <= a THEN a - b ELSE a - b + W
      /\ Age(a, a) = IF a <= a THEN a - a ELSE a - a + W
      /\ Age(a, now) = IF now <= a THEN a - now ELSE a - now + W
      /\ Age(now, b) = IF b <= now THEN now - b ELSE now - b + W
  BY AgeIs
<1>2. /\ a \in Int /\ b \in Int /\ now \in Int /\ W \in Int
      /\ 0 <= b /\ b < W /\ 0 <= a /\ a < W /\ 0 <= now /\ now < W
  BY ClockAssumption DEF Clock
<1>3. QED
  BY <1>1, <1>2 DEF Clock

LEMMA Bounds ==
  /\ Timeout \in Nat /\ Period \in Nat /\ MaxLate \in Nat /\ W \in Nat
  /\ MaxSilence \in Nat /\ Deaf = MaxSilence + 1 /\ Deaf < W
  /\ MaxNodes \in Nat /\ 1 \in Slots
  /\ 0 \in Clock
BY ClockAssumption, SizeAssumption DEF MaxSilence, Deaf, Slots, Clock

LEMMA SlotsFinite ==
  /\ IsFiniteSet(Slots) /\ Cardinality(Slots) = MaxNodes
  /\ IsFiniteSet(OnlineSlots) /\ Cardinality(OnlineSlots) \in 0..MaxNodes
<1>1. IsFiniteSet(Slots) /\ Cardinality(Slots) = MaxNodes
  BY FS_Interval, SizeAssumption DEF Slots
<1>2. OnlineSlots \in SUBSET Slots
  BY DEF OnlineSlots
<1>3. IsFiniteSet(OnlineSlots) /\ Cardinality(OnlineSlots) <= MaxNodes
  BY <1>1, <1>2, FS_Subset
<1>4. Cardinality(OnlineSlots) \in Nat
  BY <1>3, FS_CardinalityType
<1>5. QED
  BY <1>1, <1>3, <1>4, SizeAssumption

-----------------------------------------------------------------------------

LEMMA InitInv == Init => NodesInv
<1> SUFFICES ASSUME Init PROVE NodesInv
  OBVIOUS
<1>1. OnlineSlots = {}
  BY DEF Init, OnlineSlots
<1>2. \A p : Online(p) = {} /\ ~Listed(p)
  BY DEF Init, Online, Listed
<1>3. TypeOK
  <2>1. 0 \in 0..Period /\ Deaf \in 0..Deaf /\ 0 \in 0..MaxNodes
    BY Bounds
  <2>2. QED
    BY <2>1, Bounds DEF Init, TypeOK
<1>4. NodeCountExact
  BY <1>1, FS_EmptySet DEF Init, NodeCountExact
<1>5. OneSlotPerNode /\ LeftIsTold
  BY <1>1 DEF Init, OneSlotPerNode, LeftIsTold
<1>6. TimerFollowsPhase /\ CheckInTime
  BY <1>1 DEF Init, TimerFollowsPhase, CheckInTime
<1>7. SeenIsSilence /\ SilenceInTime
  BY <1>2 DEF Init, SeenIsSilence, SilenceInTime
<1>8. QED
  BY <1>3, <1>4, <1>5, <1>6, <1>7 DEF NodesInv

(* Slot 1 is taken while the table is empty. *)
LEMMA StartInv ==
  ASSUME NodesInv, Start
  PROVE  NodesInv'
<1>1. /\ phase = "init" /\ phase' = "up" /\ OnlineSlots = {} /\ nodeCount = 0
      /\ nodes \in [Slots -> [id : Ids \cup {NoId}, online : BOOLEAN, seen : Clock]]
      /\ tick \in Clock /\ nodeCount' = nodeCount + 1
      /\ nodes' = [nodes EXCEPT ![1] = [id |-> Self, online |-> TRUE, seen |-> tick]]
  BY FS_EmptySet
     DEF NodesInv, TypeOK, TimerFollowsPhase, NodeCountExact, Start
<1>2. /\ nodes'[1] = [id |-> Self, online |-> TRUE, seen |-> tick]
      /\ \A i \in Slots \ {1} : nodes'[i] = nodes[i] /\ ~nodes[i].online
  BY <1>1, Bounds DEF OnlineSlots
<1>3. OnlineSlots' = {1}
  BY <1>1, <1>2, Bounds DEF OnlineSlots
<1>4. \A p \in Peers : Online(p)' = {} /\ ~Listed(p)'
  BY <1>2, IdAssumption DEF Online, Listed
<1>5. TypeOK'
  <2>1. nodes' \in [Slots -> [id : Ids \cup {NoId}, online : BOOLEAN, seen : Clock]]
    BY <1>1, Bounds DEF Ids
  <2>2. nodeCount' \in 0..MaxNodes
    BY <1>1, SizeAssumption
  <2>3. timer' \in [pc : {"off", "sleep", "check"}, now : Clock, wait : 0..Period]
    BY Bounds DEF Start
  <2>4. QED
    BY <1>1, <2>1, <2>2, <2>3 DEF NodesInv, TypeOK, Start
<1>6. NodeCountExact'
  <2>1. Cardinality({1}) = 1
    BY FS_Singleton
  <2>2. Cardinality(OnlineSlots') = 1
    BY <1>3, <2>1
  <2>3. QED
    BY <1>1, <2>2 DEF NodeCountExact
<1>7. OneSlotPerNode'
  <2>1. 1 \in Online(Self)'
    BY <1>2, Bounds DEF Online
  <2>2. QED
    BY <1>3, <2>1 DEF OneSlotPerNode, Listed
<1>8. LeftIsTold'
  <2>1. \A p \in Peers : ~Listed(p)
    BY <1>1 DEF Listed, Online, OnlineSlots
  <2>2. told = {} /\ told' = told
    BY <2>1 DEF NodesInv, TypeOK, LeftIsTold, Start
  <2>3. QED
    BY <2>2 DEF LeftIsTold
<1>9. TimerFollowsPhase' /\ CheckInTime'
  BY DEF Start, TimerFollowsPhase, CheckInTime
<1>10. SeenIsSilence' /\ SilenceInTime'
  BY <1>4 DEF SeenIsSilence, SilenceInTime
<1>11. QED
  BY <1>5, <1>6, <1>7, <1>8, <1>9, <1>10 DEF NodesInv

LEMMA StopInv ==
  ASSUME NodesInv, Stop
  PROVE  NodesInv'
<1>1. /\ nodes' = nodes /\ nodeCount' = nodeCount /\ told' = told
      /\ phase' = "down" /\ timer' = [pc |-> "off", now |-> 0, wait |-> 0]
      /\ phase = "up" /\ tick' = tick /\ silence' = silence
  BY DEF Stop
<1>2. OnlineSlots' = OnlineSlots /\ \A p : Listed(p)' = Listed(p)
  BY <1>1 DEF OnlineSlots, Listed, Online
<1>3. TypeOK'
  BY <1>1, Bounds DEF NodesInv, TypeOK
<1>4. NodeCountExact' /\ OneSlotPerNode' /\ LeftIsTold'
  BY <1>1, <1>2 DEF NodesInv, NodeCountExact, OneSlotPerNode, LeftIsTold
<1>5. TimerFollowsPhase' /\ SeenIsSilence' /\ SilenceInTime' /\ CheckInTime'
  BY <1>1 DEF TimerFollowsPhase, SeenIsSilence, SilenceInTime, CheckInTime
<1>6. QED
  BY <1>3, <1>4, <1>5 DEF NodesInv

(* The slot a heartbeat is entered into is the peer's own, or one that is  *)
(* OFFLINE, so no other node loses its slot.                               *)
LEMMA SlotFound ==
  ASSUME NodesInv, NEW p \in Peers, NEW i \in FindOrAddNode(p)
  PROVE  /\ i \in Slots
         /\ Listed(p) => i \in OnlineSlots /\ nodes[i].id = p
         /\ ~Listed(p) => i \notin OnlineSlots
BY DEF FindOrAddNode, Online, OnlineSlots

LEMMA HeardInv ==
  ASSUME NodesInv, NEW p \in Peers, NEW i \in FindOrAddNode(p), phase = "up",
         Heard(p, i), told' \in {told, told \cup {p}},
         silence' = [silence EXCEPT ![p] = 0],
         UNCHANGED <<tick, phase, timer>>
  PROVE  NodesInv'
<1>1. /\ i \in Slots
      /\ Listed(p) => i \in OnlineSlots /\ nodes[i].id = p
      /\ ~Listed(p) => i \notin OnlineSlots
  BY SlotFound
<1>2. /\ nodes \in [Slots -> [id : Ids \cup {NoId}, online : BOOLEAN, seen : Clock]]
      /\ tick \in Clock /\ nodeCount \in 0..MaxNodes
      /\ silence \in [Peers -> 0..Deaf]
      /\ told \subseteq Peers
  BY DEF NodesInv, TypeOK
<1>3. /\ nodes'[i] = [id |-> p, online |-> TRUE, seen |-> tick]
      /\ \A j \in Slots \ {i} : nodes'[j] = nodes[j]
      /\ nodes' \in [Slots -> [id : Ids \cup {NoId}, online : BOOLEAN, seen : Clock]]
  BY <1>1, <1>2 DEF Heard, Ids
<1>4. OnlineSlots' = OnlineSlots \cup {i}
  BY <1>1, <1>3 DEF OnlineSlots
<1>5. Online(p)' = {i} /\ Listed(p)'
  <2>1. \A j \in Slots \ {i} : ~(nodes[j].online /\ nodes[j].id = p)
    BY <1>1 DEF NodesInv, OneSlotPerNode, OnlineSlots, Listed, Online
  <2>2. QED
    BY <1>1, <1>3, <2>1 DEF Online, Listed
<1>6. \A q \in Ids : q # p => Online(q)' = Online(q) /\ Listed(q)' = Listed(q)
  <2>1. ASSUME NEW q \in Ids, q # p PROVE Online(q)' = Online(q)
    BY <1>1, <1>3, <2>1 DEF Online, OnlineSlots
  <2>2. QED
    BY <2>1 DEF Listed
<1>7. NodeCountExact'
  <2>1. Cardinality(OnlineSlots') = IF i \in OnlineSlots THEN Cardinality(OnlineSlots)
                                    ELSE Cardinality(OnlineSlots) + 1
    BY <1>4, SlotsFinite, FS_AddElement
  <2>2. QED
    BY <1>1, <2>1 DEF NodesInv, NodeCountExact, Heard
<1>8. TypeOK'
  <2>1. nodeCount' \in 0..MaxNodes
    <3>1. OnlineSlots' \in SUBSET Slots
      BY DEF OnlineSlots
    <3>2. Cardinality(OnlineSlots') \in Nat /\ Cardinality(OnlineSlots') <= MaxNodes
      BY <3>1, SlotsFinite, FS_Subset, FS_CardinalityType
    <3>3. QED
      BY <1>7, <3>2, SizeAssumption DEF NodeCountExact
  <2>2. silence' \in [Peers -> 0..Deaf]
    BY <1>2, Bounds
  <2>3. told' \subseteq Peers
    BY <1>2
  <2>4. QED
    BY <1>3, <2>1, <2>2, <2>3 DEF NodesInv, TypeOK
<1>9. OneSlotPerNode'
  <2>1. ASSUME NEW j \in OnlineSlots', NEW k \in OnlineSlots', nodes'[j].id = nodes'[k].id
        PROVE  j = k
    <3>1. j \in Slots /\ k \in Slots /\ nodes'[j].online /\ nodes'[k].online
      BY DEF OnlineSlots
    <3>2. CASE nodes'[j].id = p
      <4>1. j \in Online(p)' /\ k \in Online(p)'
        BY <2>1, <3>1, <3>2 DEF Online
      <4>2. QED
        BY <1>5, <4>1
    <3>3. CASE nodes'[j].id # p
      <4>1. j # i /\ k # i
        BY <1>3, <2>1, <3>3
      <4>2. j \in OnlineSlots /\ k \in OnlineSlots /\ nodes[j].id = nodes[k].id
        BY <1>3, <2>1, <3>1, <4>1 DEF OnlineSlots
      <4>3. QED
        BY <4>2 DEF NodesInv, OneSlotPerNode
    <3>4. QED
      BY <3>2, <3>3
  <2>2. Listed(Self)'
    BY <1>6, IdAssumption DEF NodesInv, OneSlotPerNode, Ids
  <2>3. QED
    BY <2>1, <2>2 DEF OneSlotPerNode
<1>10. LeftIsTold'
  <2>1. ASSUME NEW q \in told' PROVE Listed(q)'
    <3>1. CASE q = p
      BY <1>5, <3>1
    <3>2. CASE q # p
      BY <1>2, <1>6, <2>1, <3>2 DEF NodesInv, LeftIsTold, Ids
    <3>3. QED
      BY <3>1, <3>2
  <2>2. QED
    BY <2>1 DEF LeftIsTold
<1>11. TimerFollowsPhase' /\ CheckInTime'
  BY DEF NodesInv, TimerFollowsPhase, CheckInTime, Age
<1>12. SeenIsSilence'
  <2>1. ASSUME NEW q \in Peers, NEW j \in Online(q)'
        PROVE  Age(tick', nodes'[j].seen) = silence'[q]
    <3>1. CASE q = p
      <4>1. Age(tick, tick) = 0
        BY <1>2, AgeBefore
      <4>2. QED
        BY <1>2, <1>3, <1>5, <3>1, <4>1
    <3>2. CASE q # p
      <4>1. j \in Online(q) /\ j # i /\ j \in Slots
        BY <1>3, <1>6, <3>2 DEF Online, Ids
      <4>2. nodes'[j] = nodes[j] /\ silence'[q] = silence[q]
        BY <1>2, <1>3, <3>2, <4>1
      <4>3. QED
        BY <4>1, <4>2 DEF NodesInv, SeenIsSilence
    <3>3. QED
      BY <3>1, <3>2
  <2>2. QED
    BY <2>1 DEF SeenIsSilence
<1>13. SilenceInTime'
  <2>1. ASSUME NEW q \in Peers, Listed(q)'
        PROVE  /\ timer'.pc = "sleep" =>
                    silence'[q] <= Timeout + MaxLate + Period - timer'.wait
               /\ timer'.pc = "check" =>
                    silence'[q] <= Timeout + MaxLate + Period + Age(tick', timer'.now)
    <3>1. CASE q = p
      <4>1. silence'[q] = 0
        BY <1>2, <3>1
      <4>2. timer.wait \in 0..Period /\ timer.now \in Clock
        BY DEF NodesInv, TypeOK
      <4>3. Age(tick, timer.now) \in Clock
        BY <1>2, <4>2, AgeBefore
      <4>4. QED
        BY <4>1, <4>2, <4>3, Bounds DEF Clock
    <3>2. CASE q # p
      <4>1. Listed(q) /\ silence'[q] = silence[q]
        BY <1>2, <1>6, <2>1, <3>2 DEF Ids
      <4>2. QED
        BY <4>1 DEF NodesInv, SilenceInTime
    <3>3. QED
      BY <3>1, <3>2
  <2>2. QED
    BY <2>1 DEF SilenceInTime
<1>14. QED
  BY <1>7, <1>8, <1>9, <1>10, <1>11, <1>12, <1>13 DEF NodesInv

LEMMA ReceiveInv ==
  ASSUME NodesInv, NEW p \in Peers, Receive(p)
  PROVE  NodesInv'
<1>1. CASE \E i \in FindOrAddNode(p) :
             /\ Heard(p, i)
             /\ told' = IF nodes[i].seen = 0 THEN told \cup {p} ELSE told
  BY <1>1, HeardInv DEF Receive
<1>2. CASE FindOrAddNode(p) = {} /\ UNCHANGED <<nodes, nodeCount, told>>
  (* the table is full, and the peer is not in it *)
  <2>1. /\ ~Listed(p) /\ nodes' = nodes /\ nodeCount' = nodeCount /\ told' = told
        /\ tick' = tick /\ phase' = phase /\ timer' = timer
        /\ silence' = [silence EXCEPT ![p] = 0]
    BY <1>2 DEF Receive, FindOrAddNode, Listed
  <2>2. /\ silence \in [Peers -> 0..Deaf] /\ silence' \in [Peers -> 0..Deaf]
        /\ \A q \in Peers : Listed(q) => silence'[q] = silence[q]
    BY <2>1, Bounds DEF NodesInv, TypeOK
  <2>3. \A q : Online(q)' = Online(q) /\ Listed(q)' = Listed(q)
    BY <2>1 DEF Online, Listed
  <2>4. TypeOK'
    BY <2>1, <2>2 DEF NodesInv, TypeOK
  <2>5. NodeCountExact' /\ OneSlotPerNode' /\ LeftIsTold'
    BY <2>1, <2>3 DEF NodesInv, NodeCountExact, OneSlotPerNode, LeftIsTold, OnlineSlots
  <2>6. TimerFollowsPhase' /\ CheckInTime'
    BY <2>1 DEF NodesInv, TimerFollowsPhase, CheckInTime, OnlineSlots, Age
  <2>7. SeenIsSilence'
    <3>1. ASSUME NEW q \in Peers, NEW j \in Online(q), phase = "up"
          PROVE  Age(tick', nodes'[j].seen) = silence'[q]
      BY <2>1, <2>2, <3>1 DEF NodesInv, SeenIsSilence, Listed
    <3>2. QED
      BY <2>1, <2>3, <3>1 DEF SeenIsSilence
  <2>8. SilenceInTime'
    BY <2>1, <2>2, <2>3 DEF NodesInv, SilenceInTime, Age
  <2>9. QED
    BY <2>4, <2>5, <2>6, <2>7, <2>8 DEF NodesInv
<1>3. QED
  BY <1>1, <1>2 DEF Receive

LEMMA SampleInv ==
  ASSUME NodesInv, SampleClock
  PROVE  NodesInv'
<1>1. /\ timer.pc = "sleep" /\ timer.wait = 0 /\ tick \in Clock
      /\ timer' = [timer EXCEPT !.pc = "check", !.now = tick]
      /\ timer \in [pc : {"off", "sleep", "check"}, now : Clock, wait : 0..Period]
      /\ tick' = tick /\ nodes' = nodes /\ nodeCount' = nodeCount
      /\ phase' = phase /\ silence' = silence /\ told' = told
  BY DEF NodesInv, TypeOK, SampleClock
<1>2. /\ timer'.pc = "check" /\ timer'.now = tick
      /\ timer' \in [pc : {"off", "sleep", "check"}, now : Clock, wait : 0..Period]
  BY <1>1
<1>3. Age(tick', timer'.now) = 0
  BY <1>1, <1>2, AgeBefore
<1>4. OnlineSlots' = OnlineSlots /\ \A p : Listed(p)' = Listed(p) /\ Online(p)' = Online(p)
  BY <1>1 DEF OnlineSlots, Listed, Online
<1>5. TypeOK'
  BY <1>1, <1>2 DEF NodesInv, TypeOK
<1>6. NodeCountExact' /\ OneSlotPerNode' /\ LeftIsTold'
  BY <1>1, <1>4 DEF NodesInv, NodeCountExact, OneSlotPerNode, LeftIsTold
<1>7. TimerFollowsPhase'
  BY <1>1, <1>2, <1>4 DEF NodesInv, TimerFollowsPhase
<1>8. SeenIsSilence'
  BY <1>1, <1>4 DEF NodesInv, SeenIsSilence, Age
<1>9. SilenceInTime'
  <2>1. \A p \in Peers : Listed(p) => silence[p] <= Timeout + MaxLate + Period - 0
    BY <1>1 DEF NodesInv, SilenceInTime
  <2>2. \A p \in Peers : silence[p] \in Nat
    BY Bounds DEF NodesInv, TypeOK
  <2>3. \A p \in Peers : Listed(p) =>
          silence[p] <= Timeout + MaxLate + Period + Age(tick', timer'.now)
    BY <1>3, <2>1, <2>2, Bounds
  <2>4. QED
    BY <1>1, <1>2, <1>4, <2>3 DEF SilenceInTime
<1>10. CheckInTime'
  BY <1>3, Bounds DEF CheckInTime
<1>11. QED
  BY <1>5, <1>6, <1>7, <1>8, <1>9, <1>10 DEF NodesInv

(* What a check leaves listed was silent for at most Timeout at the time   *)
(* the check judges by; what it throws out was silent for longer, or was   *)
(* heard since.                                                            *)
LEMMA Judged ==
  ASSUME NodesInv, timer.pc = "check", NEW p \in Peers, NEW i \in Online(p)
  PROVE  /\ TimedOut(i) => silence[p] > Timeout \/ silence[p] < Age(tick, timer.now)
         /\ ~TimedOut(i) => silence[p] <= Timeout + MaxLate
<1>1. /\ i \in Slots /\ nodes[i].online /\ nodes[i].id = p /\ p # Self
      /\ nodes[i].seen \in Clock /\ timer.now \in Clock /\ tick \in Clock
      /\ silence[p] \in Nat
  BY Bounds, IdAssumption DEF NodesInv, TypeOK, Online
<1>2. silence[p] = Age(tick, nodes[i].seen)
  BY DEF NodesInv, TimerFollowsPhase, SeenIsSilence
<1>3. Age(tick, timer.now) <= MaxLate /\ Age(tick, timer.now) \in Clock
  BY <1>1, AgeBefore DEF NodesInv, CheckInTime
<1>4. TimedOut(i) <=> Age(timer.now, nodes[i].seen) > Timeout
  BY <1>1 DEF TimedOut
<1>5. CASE Age(tick, timer.now) <= silence[p]
  <2>1. Age(timer.now, nodes[i].seen) = silence[p] - Age(tick, timer.now)
    BY <1>1, <1>2, <1>5, AgeBefore
  <2>2. QED
    BY <1>1, <1>3, <1>4, <2>1, Bounds DEF Clock
<1>6. CASE ~(Age(tick, timer.now) <= silence[p])
  BY <1>1, <1>3, <1>6, Bounds DEF Clock
<1>7. QED
  BY <1>5, <1>6

LEMMA CheckInv ==
  ASSUME NodesInv, CheckTimeouts
  PROVE  NodesInv'
<1> DEFINE out == {i \in Slots : TimedOut(i)}
<1>1. /\ nodes' = [i \in Slots |-> IF i \in out THEN [nodes[i] EXCEPT !.online = FALSE]
                                   ELSE nodes[i]]
      /\ nodeCount' = nodeCount - Cardinality(out)
      /\ told' = told \ {nodes[i].id : i \in out}
      /\ timer.pc = "check" /\ timer' = [pc |-> "sleep", now |-> 0, wait |-> Period]
      /\ tick' = tick /\ phase' = phase /\ silence' = silence
  BY DEF CheckTimeouts
<1>2. /\ nodes \in [Slots -> [id : Ids \cup {NoId}, online : BOOLEAN, seen : Clock]]
      /\ told \subseteq Peers
      /\ silence \in [Peers -> 0..Deaf]
  BY DEF NodesInv, TypeOK
<1>3. out \in SUBSET OnlineSlots /\ \A i \in out : nodes[i].id # Self
  BY DEF TimedOut, OnlineSlots
<1> HIDE DEF out
<1>4. /\ \A i \in Slots \ out : nodes'[i] = nodes[i]
      /\ \A i \in out : i \in Slots /\ nodes'[i] = [nodes[i] EXCEPT !.online = FALSE]
      /\ \A i \in out : ~nodes'[i].online
      /\ nodes' \in [Slots -> [id : Ids \cup {NoId}, online : BOOLEAN, seen : Clock]]
  <2>1. out \subseteq Slots
    BY <1>3 DEF OnlineSlots
  <2>2. \A i \in Slots : nodes[i] \in [id : Ids \cup {NoId}, online : BOOLEAN, seen : Clock]
    BY <1>2
  <2>3. \A r \in [id : Ids \cup {NoId}, online : BOOLEAN, seen : Clock] :
          /\ [r EXCEPT !.online = FALSE] \in [id : Ids \cup {NoId}, online : BOOLEAN, seen : Clock]
          /\ ~[r EXCEPT !.online = FALSE].online
    OBVIOUS
  <2>4. QED
    BY <1>1, <2>1, <2>2, <2>3
<1>5. OnlineSlots' = OnlineSlots \ out
  BY <1>4 DEF OnlineSlots
<1>6. \A q \in Ids : Online(q)' = Online(q) \ out
  BY <1>4 DEF Online
<1>7. NodeCountExact'
  <2>1. Cardinality(OnlineSlots \ out) = Cardinality(OnlineSlots) - Cardinality(OnlineSlots \cap out)
    BY SlotsFinite, FS_Difference
  <2>2. OnlineSlots \cap out = out
    BY <1>3
  <2>3. QED
    BY <1>1, <1>5, <2>1, <2>2 DEF NodesInv, NodeCountExact
<1>8. TypeOK'
  <2>1. nodeCount' \in 0..MaxNodes
    <3>1. OnlineSlots' \in SUBSET Slots
      BY DEF OnlineSlots
    <3>2. Cardinality(OnlineSlots') \in Nat /\ Cardinality(OnlineSlots') <= MaxNodes
      BY <3>1, SlotsFinite, FS_Subset, FS_CardinalityType
    <3>3. QED
      BY <1>7, <3>2, SizeAssumption DEF NodeCountExact
  <2>2. timer' \in [pc : {"off", "sleep", "check"}, now : Clock, wait : 0..Period]
    BY <1>1, Bounds
  <2>3. told' \subseteq Peers
    BY <1>1, <1>2
  <2>4. QED
    BY <1>1, <1>4, <2>1, <2>2, <2>3 DEF NodesInv, TypeOK
<1>9. OneSlotPerNode'
  <2>1. ASSUME NEW j \in OnlineSlots', NEW k \in OnlineSlots', nodes'[j].id = nodes'[k].id
        PROVE  j = k
    <3>1. /\ j \in OnlineSlots /\ k \in OnlineSlots
          /\ nodes'[j] = nodes[j] /\ nodes'[k] = nodes[k]
      BY <1>4, <1>5 DEF OnlineSlots
    <3>2. QED
      BY <2>1, <3>1 DEF NodesInv, OneSlotPerNode
  <2>2. ASSUME phase' # "init" PROVE Listed(Self)'
    <3>1. PICK i \in Online(Self) : TRUE
      BY <1>1, <2>2 DEF NodesInv, OneSlotPerNode, Listed
    <3>2. i \notin out
      BY <1>3, <3>1 DEF Online
    <3>3. QED
      BY <1>6, <3>1, <3>2 DEF Listed, Ids
  <2>3. QED
    BY <2>1, <2>2 DEF OneSlotPerNode
<1>10. LeftIsTold'
  <2>1. ASSUME NEW q \in told' PROVE Listed(q)'
    <3>1. q \in told /\ ~\E i \in out : nodes[i].id = q
      BY <1>1, <2>1
    <3>2. PICK i \in Online(q) : TRUE
      BY <3>1 DEF NodesInv, LeftIsTold, Listed
    <3>3. i \notin out
      BY <3>1, <3>2 DEF Online
    <3>4. q \in Ids
      BY <1>2, <3>1 DEF Ids
    <3>5. QED
      BY <1>6, <3>2, <3>3, <3>4 DEF Listed
  <2>2. QED
    BY <2>1 DEF LeftIsTold
<1>11. TimerFollowsPhase' /\ CheckInTime'
  <2>1. phase = "up"
    BY <1>1 DEF NodesInv, TimerFollowsPhase
  <2>2. QED
    BY <1>1, <2>1 DEF TimerFollowsPhase, CheckInTime
<1>12. SeenIsSilence'
  <2>1. ASSUME NEW q \in Peers, NEW j \in Online(q)', phase = "up"
        PROVE  Age(tick', nodes'[j].seen) = silence'[q]
    <3>1. j \in Online(q) /\ j \in Slots \ out
      BY <1>6 DEF Ids, Online
    <3>2. QED
      BY <1>1, <1>4, <2>1, <3>1 DEF NodesInv, SeenIsSilence
  <2>2. QED
    BY <1>1, <2>1 DEF SeenIsSilence
<1>13. SilenceInTime'
  <2>1. ASSUME NEW q \in Peers, Listed(q)'
        PROVE  silence'[q] <= Timeout + MaxLate + Period - timer'.wait
    <3>1. PICK j \in Online(q)' : TRUE
      BY <2>1 DEF Listed
    <3>2. j \in Online(q) /\ ~TimedOut(j)
      BY <1>6, <3>1 DEF Ids, Online, out
    <3>3. silence[q] <= Timeout + MaxLate
      BY <1>1, <3>2, Judged
    <3>4. silence[q] \in Nat
      BY <1>2, Bounds
    <3>5. QED
      BY <1>1, <3>3, <3>4, Bounds
  <2>2. QED
    BY <1>1, <2>1 DEF SilenceInTime
<1>14. QED
  BY <1>7, <1>8, <1>9, <1>10, <1>11, <1>12, <1>13 DEF NodesInv

(* A listed peer has not been silent for longer than the bound. *)
LEMMA ListedHeard ==
  ASSUME NodesInv, phase = "up", NEW p \in Peers, Listed(p)
  PROVE  silence[p] <= MaxSilence
<1>1. /\ timer.pc \in {"sleep", "check"} /\ timer.wait \in 0..Period
      /\ timer.now \in Clock /\ tick \in Clock /\ silence[p] \in 0..Deaf
  BY DEF NodesInv, TypeOK, TimerFollowsPhase
<1>2. CASE timer.pc = "sleep"
  <2>1. silence[p] <= Timeout + MaxLate + Period - timer.wait
    BY <1>2 DEF NodesInv, SilenceInTime
  <2>2. QED
    BY <1>1, <2>1, Bounds DEF MaxSilence
<1>3. CASE timer.pc = "check"
  <2>1. /\ silence[p] <= Timeout + MaxLate + Period + Age(tick, timer.now)
        /\ Age(tick, timer.now) <= MaxLate
    BY <1>3 DEF NodesInv, SilenceInTime, CheckInTime
  <2>2. Age(tick, timer.now) \in Clock
    BY <1>1, AgeBefore
  <2>3. QED
    BY <1>1, <2>1, <2>2, Bounds DEF MaxSilence, Clock
<1>4. QED
  BY <1>1, <1>2, <1>3

LEMMA TickInv ==
  ASSUME NodesInv, Tick
  PROVE  NodesInv'
<1>1. /\ tick \in Clock /\ tick' = (tick + 1) % W
      /\ nodes' = nodes /\ nodeCount' = nodeCount /\ phase' = phase /\ told' = told
      /\ nodes \in [Slots -> [id : Ids \cup {NoId}, online : BOOLEAN, seen : Clock]]
      /\ silence \in [Peers -> 0..Deaf]
      /\ silence' = [p \in Peers |-> IF silence[p] < Deaf THEN silence[p] + 1 ELSE Deaf]
      /\ timer \in [pc : {"off", "sleep", "check"}, now : Clock, wait : 0..Period]
  BY DEF NodesInv, TypeOK, Tick
<1>2. /\ phase = "up" /\ timer'.pc = timer.pc /\ timer'.now = timer.now
      /\ timer' \in [pc : {"off", "sleep", "check"}, now : Clock, wait : 0..Period]
      /\ timer.pc = "sleep" => timer.wait > 0 /\ timer'.wait = timer.wait - 1
      /\ timer.pc = "check" => timer' = timer /\ Age(tick, timer.now) < MaxLate
      /\ timer.pc \in {"sleep", "check"}
  <2>1. CASE timer.pc = "sleep" /\ timer.wait > 0
             /\ timer' = [timer EXCEPT !.wait = @ - 1]
    <3>1. timer.wait - 1 \in 0..Period
      BY <1>1, <2>1, Bounds
    <3>2. QED
      BY <1>1, <2>1, <3>1 DEF NodesInv, TimerFollowsPhase
  <2>2. CASE timer.pc = "check" /\ Age(tick, timer.now) < MaxLate /\ timer' = timer
    BY <1>1, <2>2 DEF NodesInv, TimerFollowsPhase
  <2>3. QED
    BY <2>1, <2>2 DEF Tick
<1>3. OnlineSlots' = OnlineSlots /\ \A p : Listed(p)' = Listed(p) /\ Online(p)' = Online(p)
  BY <1>1 DEF OnlineSlots, Listed, Online
<1>4. ASSUME NEW p \in Peers, Listed(p)
      PROVE  silence'[p] = silence[p] + 1 /\ silence[p] \in Nat /\ silence[p] + 1 < W
  BY <1>1, <1>2, <1>4, ListedHeard, Bounds
<1>5. TypeOK'
  <2>1. tick' \in Clock
    BY <1>1, NextTick
  <2>2. silence' \in [Peers -> 0..Deaf]
    BY <1>1, Bounds
  <2>3. QED
    BY <1>1, <1>2, <2>1, <2>2 DEF NodesInv, TypeOK
<1>6. NodeCountExact' /\ OneSlotPerNode' /\ LeftIsTold'
  BY <1>1, <1>3 DEF NodesInv, NodeCountExact, OneSlotPerNode, LeftIsTold
<1>7. TimerFollowsPhase'
  BY <1>1, <1>2, <1>3 DEF NodesInv, TimerFollowsPhase
<1>8. SeenIsSilence'
  <2>1. ASSUME NEW p \in Peers, NEW i \in Online(p)
        PROVE  Age(tick', nodes'[i].seen) = silence'[p]
    <3>1. nodes[i].seen \in Clock /\ Listed(p)
      BY <1>1 DEF Online, Listed
    <3>2. Age(tick, nodes[i].seen) = silence[p]
      BY <1>2 DEF NodesInv, SeenIsSilence
    <3>3. Age(tick', nodes[i].seen) = silence[p] + 1
      BY <1>1, <1>4, <3>1, <3>2, AgeGrows
    <3>4. QED
      BY <1>1, <1>4, <3>1, <3>3
  <2>2. QED
    BY <1>3, <2>1 DEF SeenIsSilence
<1>9. timer.pc = "check" =>
        /\ Age(tick', timer'.now) = Age(tick, timer.now) + 1
        /\ Age(tick, timer.now) \in Nat /\ Age(tick, timer.now) < MaxLate
  <2>1. Age(tick, timer.now) \in Clock
    BY <1>1, AgeBefore
  <2>2. MaxLate < W
    BY ClockAssumption
  <2>3. ASSUME timer.pc = "check" PROVE Age(tick, timer.now) + 1 < W
    BY <1>2, <2>1, <2>3, ClockAssumption DEF Clock
  <2>4. QED
    BY <1>1, <1>2, <2>1, <2>3, AgeGrows DEF Clock
<1>10. CheckInTime'
  BY <1>2, <1>9, Bounds DEF CheckInTime
<1>11. SilenceInTime'
  <2>1. ASSUME NEW p \in Peers, Listed(p)
        PROVE  /\ timer'.pc = "sleep" =>
                    silence'[p] <= Timeout + MaxLate + Period - timer'.wait
               /\ timer'.pc = "check" =>
                    silence'[p] <= Timeout + MaxLate + Period + Age(tick', timer'.now)
    <3>1. CASE timer.pc = "sleep"
      <4>1. silence[p] <= Timeout + MaxLate + Period - timer.wait
        BY <2>1, <3>1 DEF NodesInv, SilenceInTime
      <4>2. QED
        BY <1>1, <1>2, <1>4, <2>1, <3>1, <4>1, Bounds
    <3>2. CASE timer.pc = "check"
      <4>1. silence[p] <= Timeout + MaxLate + Period + Age(tick, timer.now)
        BY <2>1, <3>2 DEF NodesInv, SilenceInTime
      <4>2. QED
        BY <1>2, <1>4, <1>9, <2>1, <3>2, <4>1, Bounds
    <3>3. QED
      BY <1>2, <3>1, <3>2
  <2>2. QED
    BY <1>3, <2>1 DEF SilenceInTime
<1>12. QED
  BY <1>5, <1>6, <1>7, <1>8, <1>10, <1>11 DEF NodesInv

LEMMA StutterInv == NodesInv /\ UNCHANGED vars => NodesInv'
BY DEF vars, NodesInv, TypeOK, NodeCountExact, OneSlotPerNode, LeftIsTold,
       TimerFollowsPhase, SeenIsSilence, SilenceInTime, CheckInTime,
       OnlineSlots, Online, Listed, Age

LEMMA StepInv == NodesInv /\ [Next]_vars => NodesInv'
<1> SUFFICES ASSUME NodesInv, [Next]_vars PROVE NodesInv'
  OBVIOUS
<1>1. CASE Start
  BY <1>1, StartInv
<1>2. CASE Stop
  BY <1>2, StopInv
<1>3. CASE \E p \in Peers : Receive(p)
  BY <1>3, ReceiveInv
<1>4. CASE SampleClock
  BY <1>4, SampleInv
<1>5. CASE CheckTimeouts
  BY <1>5, CheckInv
<1>6. CASE Tick
  BY <1>6, TickInv
<1>7. CASE UNCHANGED vars
  BY <1>7, StutterInv
<1>8. QED
  BY <1>1, <1>2, <1>3, <1>4, <1>5, <1>6, <1>7 DEF Next

-----------------------------------------------------------------------------

(* The strengthened invariant holds in every reachable state. *)
THEOREM NodesInvariant == Spec => []NodesInv
<1>1. QED
  BY InitInv, StepInv, PTL DEF Spec

(* Type correctness of the membership table and its timer. *)
THEOREM NodesTypeCorrect == Spec => []TypeOK
<1>1. NodesInv => TypeOK
  BY DEF NodesInv
<1>2. QED
  BY <1>1, NodesInvariant, PTL

(* ctx->node_count is the number of ONLINE slots. *)
THEOREM NodesCounted == Spec => []NodeCountExact
<1>1. NodesInv => NodeCountExact
  BY DEF NodesInv
<1>2. QED
  BY <1>1, NodesInvariant, PTL

(* No node has two slots, and the node itself stays listed. *)
THEOREM NodesOneSlot == Spec => []OneSlotPerNode
<1>1. NodesInv => OneSlotPerNode
  BY DEF NodesInv
<1>2. QED
  BY <1>1, NodesInvariant, PTL

(* A node that is announced as joined is listed until it is announced as   *)
(* left.                                                                   *)
THEOREM NodesLeftIsTold == Spec => []LeftIsTold
<1>1. NodesInv => LeftIsTold
  BY DEF NodesInv
<1>2. QED
  BY <1>1, NodesInvariant, PTL

(* A dead node is off the list within Timeout + Period + 2 * MaxLate, for  *)
(* every clock width that exceeds that time.                               *)
THEOREM NodesSilentLeave == Spec => []SilentNodesLeave
<1>1. NodesInv => SilentNodesLeave
  BY ListedHeard DEF SilentNodesLeave
<1>2. QED
  BY <1>1, NodesInvariant, PTL

(* A node is thrown out after a silence of more than Timeout, or because   *)
(* it was heard between the sampling of the clock and the check.           *)
THEOREM NodesLeaveSilentOrRaced == Spec => SilentOrRacedLeave
<1> DEFINE Leaves ==
      \A p \in Peers : Listed(p) /\ ~Listed(p)' =>
        silence[p] > Timeout \/ silence[p] < Age(tick, timer.now)
<1>1. ASSUME NodesInv, [Next]_vars PROVE [Leaves]_vars
  <2>1. SUFFICES ASSUME Next, NEW p \in Peers, Listed(p), ~Listed(p)'
                 PROVE  silence[p] > Timeout \/ silence[p] < Age(tick, timer.now)
    BY <1>1
  <2>2. PICK i \in Online(p) : TRUE
    BY <2>1 DEF Listed
  <2>3. i \in Slots /\ nodes[i].online /\ nodes[i].id = p
    BY <2>2 DEF Online
  <2>4. CASE Start
    BY <1>1, <2>3, <2>4 DEF NodesInv, TimerFollowsPhase, Start, OnlineSlots
  <2>5. CASE Stop \/ SampleClock \/ Tick
    BY <2>1, <2>5 DEF Stop, SampleClock, Tick, Listed, Online
  <2>6. CASE \E q \in Peers : Receive(q)
    <3>1. PICK q \in Peers : Receive(q)
      BY <2>6
    <3>2. CASE UNCHANGED nodes
      BY <2>1, <3>2 DEF Listed, Online
    <3>3. CASE \E k \in FindOrAddNode(q) : Heard(q, k)
      <4>1. PICK k \in FindOrAddNode(q) : Heard(q, k)
        BY <3>3
      <4>2. /\ k \in Slots
            /\ Listed(q) => k \in OnlineSlots /\ nodes[k].id = q
            /\ ~Listed(q) => k \notin OnlineSlots
        BY <1>1, SlotFound
      <4>3. nodes \in [Slots -> [id : Ids \cup {NoId}, online : BOOLEAN, seen : Clock]]
        BY <1>1 DEF NodesInv, TypeOK
      <4>4. nodes'[i].online /\ nodes'[i].id = p
        <5>1. CASE i = k
          BY <2>3, <4>1, <4>2, <4>3, <5>1 DEF Heard, OnlineSlots
        <5>2. CASE i # k
          BY <2>3, <4>1, <4>2, <4>3, <5>2 DEF Heard
        <5>3. QED
          BY <5>1, <5>2
      <4>5. QED
        BY <2>1, <2>3, <4>4 DEF Listed, Online
    <3>4. QED
      BY <3>1, <3>2, <3>3 DEF Receive
  <2>7. CASE CheckTimeouts
    <3>1. TimedOut(i)
      <4>1. SUFFICES ASSUME ~TimedOut(i) PROVE nodes'[i] = nodes[i]
        BY <2>1, <2>3 DEF Listed, Online
      <4>2. QED
        BY <2>3, <2>7, <4>1 DEF CheckTimeouts
    <3>2. timer.pc = "check"
      BY <2>7 DEF CheckTimeouts
    <3>3. QED
      BY <1>1, <2>2, <3>1, <3>2, Judged
  <2>8. QED
    BY <2>1, <2>4, <2>5, <2>6, <2>7 DEF Next
<1>2. QED
  BY <1>1, NodesInvariant, PTL DEF Spec, SilentOrRacedLeave

-----------------------------------------------------------------------------
(* The loop of find_best_node.  The library's induction on the numbers is  *)
(* replaced by the least number that refutes what is to be shown.          *)

Value(f, n) ==
  IF n = 0 THEN 0
  ELSE IF Candidate(n) /\ LoadOf[nodes[n].id] < MinLoad(f[n - 1])
       THEN n ELSE f[n - 1]

(* f is what the loop has computed after its first n rounds.               *)
IsBestTo(f, n) ==
  DOMAIN f = 0..n /\ f = [i \in 0..n |-> f[i]] /\ \A i \in 0..n : f[i] = Value(f, i)

LEMMA LoopComputes == \E f : IsBestTo(f, MaxNodes)
<1> DEFINE B == {n \in 0..MaxNodes : ~ \E f : IsBestTo(f, n)}
<1>1. MaxNodes \in Nat
  BY Bounds
<1>2. SUFFICES ASSUME B # {} PROVE FALSE
  BY <1>1
<1>3. PICK m \in B : \A k \in B : m <= k
  <2>1. B \subseteq Nat
    BY <1>1
  <2>2. QED
    BY <1>2, <2>1, LeastElement
<1>4. m \in 0..MaxNodes /\ ~ \E f : IsBestTo(f, m)
  OBVIOUS
<1>5. m # 0
  <2>1. IsBestTo([i \in 0..0 |-> 0], 0)
    <3>1. 0..0 = {0}
      OBVIOUS
    <3>2. QED
      BY <3>1 DEF IsBestTo, Value
  <2>2. QED
    BY <1>4, <2>1
<1>6. m - 1 \in 0..MaxNodes /\ m - 1 \notin B
  BY <1>1, <1>3, <1>4, <1>5
<1>7. PICK f : IsBestTo(f, m - 1)
  BY <1>6
<1> DEFINE g == [i \in 0..m |-> IF i = m THEN Value(f, m) ELSE f[i]]
<1>8. \A i \in 0..m : g[i] = Value(g, i)
  <2>1. ASSUME NEW i \in 0..m PROVE g[i] = Value(g, i)
    <3>1. CASE i = m
      <4>1. m - 1 \in 0..m /\ m - 1 # m
        BY <1>4, <1>5
      <4>2. g[m - 1] = f[m - 1] /\ g[m] = Value(f, m)
        BY <4>1, <1>4
      <4>3. QED
        BY <1>5, <3>1, <4>2 DEF Value
    <3>2. CASE i # m
      <4>1. i \in 0..(m - 1) /\ g[i] = f[i] /\ f[i] = Value(f, i)
        BY <1>4, <1>7, <3>2 DEF IsBestTo
      <4>2. CASE i = 0
        BY <4>1, <4>2 DEF Value
      <4>3. CASE i # 0
        <5>1. i - 1 \in 0..m /\ i - 1 # m
          BY <1>4, <3>2, <4>1, <4>3
        <5>2. g[i - 1] = f[i - 1]
          BY <5>1
        <5> HIDE DEF g
        <5>3. QED
          BY <4>1, <4>3, <5>2 DEF Value
      <4>4. QED
        BY <4>2, <4>3
    <3>3. QED
      BY <3>1, <3>2
  <2>2. QED
    BY <2>1
<1>9. IsBestTo(g, m)
  <2>1. DOMAIN g = 0..m /\ g = [i \in 0..m |-> g[i]]
    OBVIOUS
  <2> HIDE DEF g
  <2>2. QED
    BY <1>8, <2>1 DEF IsBestTo
<1>10. QED
  BY <1>4, <1>9

(* What Best is defined by. *)
LEMMA BestIs ==
  /\ Best[0] = 0
  /\ \A n \in 1..MaxNodes :
       Best[n] = IF Candidate(n) /\ LoadOf[nodes[n].id] < MinLoad(Best[n - 1])
                 THEN n ELSE Best[n - 1]
<1> DEFINE Def(f) ==
      f = [n \in 0..MaxNodes |->
             IF n = 0 THEN 0
             ELSE IF Candidate(n) /\ LoadOf[nodes[n].id] < MinLoad(f[n - 1])
                  THEN n ELSE f[n - 1]]
<1>1. PICK f : IsBestTo(f, MaxNodes)
  BY LoopComputes
<1>2. Def(f)
  BY <1>1 DEF IsBestTo, Value
<1>3. Best = CHOOSE g : Def(g)
  BY DEF Best
<1>4. Def(Best)
  BY <1>2, <1>3
<1>5. QED
  BY <1>4, Bounds

(* The loop invariant: the best of the first n slots. *)
BestTo(n) ==
  /\ Best[n] \in 0..n
  /\ Best[n] # 0 => Candidate(Best[n])
  /\ \A i \in 1..n :
       Candidate(i) => /\ Best[n] # 0
                       /\ LoadOf[nodes[Best[n]].id] <= LoadOf[nodes[i].id]

LEMMA CandidateLoad ==
  ASSUME TypeOK, NEW i \in Slots, Candidate(i)
  PROVE  LoadOf[nodes[i].id] \in 0..100
BY LoadAssumption DEF Candidate

LEMMA BestOfAll == TypeOK => \A n \in 0..MaxNodes : BestTo(n)
<1> SUFFICES ASSUME TypeOK PROVE \A n \in 0..MaxNodes : BestTo(n)
  OBVIOUS
<1> DEFINE B == {n \in 0..MaxNodes : ~BestTo(n)}
<1>1. MaxNodes \in Nat
  BY Bounds
<1>2. SUFFICES ASSUME B # {} PROVE FALSE
  OBVIOUS
<1>3. PICK m \in B : \A k \in B : m <= k
  <2>1. B \subseteq Nat
    BY <1>1
  <2>2. QED
    BY <1>2, <2>1, LeastElement
<1>4. m \in 0..MaxNodes /\ ~BestTo(m)
  OBVIOUS
<1>5. m # 0
  <2>1. BestTo(0)
    BY BestIs DEF BestTo
  <2>2. QED
    BY <1>4, <2>1
<1>6. m - 1 \in 0..MaxNodes /\ m - 1 \notin B /\ m \in 1..MaxNodes
  BY <1>1, <1>3, <1>4, <1>5
<1>7. BestTo(m - 1)
  BY <1>6
<1> HIDE DEF B
<1>8. PICK b, c : b = Best[m - 1] /\ c = Best[m]
  OBVIOUS
<1>9. /\ b \in 0..(m - 1)
      /\ b # 0 => Candidate(b)
      /\ \A i \in 1..(m - 1) :
           Candidate(i) => b # 0 /\ LoadOf[nodes[b].id] <= LoadOf[nodes[i].id]
  BY <1>7, <1>8 DEF BestTo
<1>10. c = IF Candidate(m) /\ LoadOf[nodes[m].id] < MinLoad(b) THEN m ELSE b
  BY <1>6, <1>8, BestIs
<1>11. m \in Slots /\ \A i \in 1..m : i \in Slots /\ (i = m \/ i \in 1..(m - 1))
  BY <1>1, <1>6 DEF Slots
<1>12. b # 0 => b \in Slots /\ LoadOf[nodes[b].id] \in 0..100 /\ MinLoad(b) = LoadOf[nodes[b].id]
  <2>1. ASSUME b # 0 PROVE b \in Slots
    BY <1>1, <1>6, <1>9, <2>1 DEF Slots
  <2>2. QED
    BY <1>9, <2>1, CandidateLoad DEF MinLoad
<1>13. b = 0 => MinLoad(b) = 101
  BY DEF MinLoad
<1>14. \A i \in 1..m : Candidate(i) => LoadOf[nodes[i].id] \in 0..100
  BY <1>11, CandidateLoad
<1>15. CASE Candidate(m) /\ LoadOf[nodes[m].id] < MinLoad(b)
  <2>1. c = m
    BY <1>10, <1>15
  <2>2. ASSUME NEW i \in 1..m, Candidate(i)
        PROVE  LoadOf[nodes[m].id] <= LoadOf[nodes[i].id]
    <3>1. LoadOf[nodes[i].id] \in 0..100 /\ LoadOf[nodes[m].id] \in 0..100
      BY <1>6, <1>14, <1>15, <2>2
    <3>2. CASE i = m
      BY <3>1, <3>2
    <3>3. CASE i # m
      <4>1. b # 0 /\ LoadOf[nodes[b].id] <= LoadOf[nodes[i].id]
        BY <1>9, <1>11, <2>2, <3>3
      <4>2. LoadOf[nodes[m].id] < LoadOf[nodes[b].id] /\ LoadOf[nodes[b].id] \in 0..100
        BY <1>12, <1>15, <4>1
      <4>3. PICK x \in 0..100, y \in 0..100, z \in 0..100 :
              /\ x = LoadOf[nodes[m].id] /\ y = LoadOf[nodes[b].id]
              /\ z = LoadOf[nodes[i].id]
        BY <3>1, <4>2
      <4>4. x < y /\ y <= z
        BY <4>1, <4>2, <4>3
      <4>5. x <= z
        BY <4>4
      <4>6. QED
        BY <4>3, <4>5
    <3>4. QED
      BY <3>2, <3>3
  <2>3. BestTo(m)
    BY <1>6, <1>8, <1>15, <2>1, <2>2 DEF BestTo
  <2>4. QED
    BY <1>4, <2>3
<1>16. CASE ~(Candidate(m) /\ LoadOf[nodes[m].id] < MinLoad(b))
  <2>1. c = b
    BY <1>10, <1>16
  <2>2. ASSUME NEW i \in 1..m, Candidate(i)
        PROVE  b # 0 /\ LoadOf[nodes[b].id] <= LoadOf[nodes[i].id]
    <3>1. LoadOf[nodes[i].id] \in 0..100
      BY <1>14, <2>2
    <3>2. CASE i = m
      <4>1. ~(LoadOf[nodes[i].id] < MinLoad(b))
        BY <1>16, <2>2, <3>2
      <4>2. b # 0
        BY <1>13, <3>1, <4>1
      <4>3. ~(LoadOf[nodes[i].id] < LoadOf[nodes[b].id]) /\ LoadOf[nodes[b].id] \in 0..100
        BY <1>12, <4>1, <4>2
      <4>4. PICK y \in 0..100, z \in 0..100 :
              y = LoadOf[nodes[b].id] /\ z = LoadOf[nodes[i].id]
        BY <3>1, <4>3
      <4>5. ~(z < y)
        BY <4>3, <4>4
      <4>6. y <= z
        BY <4>5
      <4>7. QED
        BY <4>2, <4>4, <4>6
    <3>3. CASE i # m
      BY <1>9, <1>11, <2>2, <3>3
    <3>4. QED
      BY <3>2, <3>3
  <2>3. b \in 0..m
    BY <1>6, <1>9
  <2>4. BestTo(m)
    BY <1>8, <1>9, <2>1, <2>2, <2>3 DEF BestTo
  <2>5. QED
    BY <1>4, <2>4
<1>17. QED
  BY <1>15, <1>16

(* find_best_node picks a capable listed node with the least load, if      *)
(* there is one, whatever the table holds after nodes came and went.       *)
THEOREM NodesLeastLoaded == Spec => []LeastLoaded
<1>1. ASSUME NodesInv PROVE LeastLoaded
  <2>1. PICK b : b = FindBestNode
    OBVIOUS
  <2>2. /\ b \in 0..MaxNodes
        /\ b # 0 => Candidate(b)
        /\ \A i \in Slots : Candidate(i) =>
             b # 0 /\ LoadOf[nodes[b].id] <= LoadOf[nodes[i].id]
    <3>1. BestTo(MaxNodes)
      BY <1>1, BestOfAll, Bounds DEF NodesInv
    <3>2. QED
      BY <2>1, <3>1 DEF BestTo, FindBestNode, Slots
  <2>3. PICK able : able = {p \in Capable : Listed(p)}
    OBVIOUS
  <2>4. \A p \in able : p \in Capable /\ \E i \in Slots : Candidate(i) /\ nodes[i].id = p
    BY <2>3, LoadAssumption, IdAssumption DEF Listed, Online, Candidate
  <2>5. \A i \in Slots : Candidate(i) =>
          nodes[i].id \in able /\ Online(nodes[i].id) = {i}
    <3>1. SUFFICES ASSUME NEW i \in Slots, Candidate(i)
                   PROVE  nodes[i].id \in able /\ Online(nodes[i].id) = {i}
      OBVIOUS
    <3>2. i \in OnlineSlots /\ i \in Online(nodes[i].id)
      BY <3>1 DEF Candidate, OnlineSlots, Online
    <3>3. \A j \in Online(nodes[i].id) : j \in OnlineSlots /\ nodes[j].id = nodes[i].id
      BY DEF Online, OnlineSlots
    <3>4. \A j \in Online(nodes[i].id) : j = i
      BY <1>1, <3>2, <3>3 DEF NodesInv, OneSlotPerNode
    <3>5. nodes[i].id \in Capable /\ Listed(nodes[i].id)
      BY <3>1, <3>2 DEF Candidate, Listed
    <3>6. QED
      BY <2>3, <3>2, <3>4, <3>5
  <2>6. CASE able = {}
    <3>1. b = 0
      BY <2>2, <2>5, <2>6 DEF Slots
    <3>2. QED
      BY <2>1, <2>3, <2>6, <3>1 DEF LeastLoaded
  <2>7. CASE able # {}
    <3>1. b # 0 /\ b \in Slots /\ Candidate(b)
      BY <2>2, <2>4, <2>7 DEF Slots
    <3>2. nodes[b].id \in able /\ Online(nodes[b].id) = {b}
      BY <2>5, <3>1
    <3>3. \A q \in able : LoadOf[nodes[b].id] <= LoadOf[q]
      BY <2>2, <2>4
    <3>4. QED
      BY <2>1, <2>3, <2>7, <3>2, <3>3 DEF LeastLoaded
  <2>8. QED
    BY <2>6, <2>7
<1>2. NodesInv => LeastLoaded
  BY <1>1
<1>3. QED
  BY <1>2, NodesInvariant, PTL

-----------------------------------------------------------------------------
(* Remote tool invocation *)

(* A finite set loses one element, gains one, or swaps one for another.    *)
LEMMA OneElement ==
  ASSUME NEW S, IsFiniteSet(S), NEW r
  PROVE  /\ Cardinality(S) \in Nat
         /\ IsFiniteSet(S \cup {r})
         /\ Cardinality(S \cup {r}) \in Nat /\ Cardinality(S \cup {r}) <= Cardinality(S) + 1
         /\ \A m \in S :
              /\ IsFiniteSet(S \ {m}) /\ Cardinality(S \ {m}) = Cardinality(S) - 1
              /\ IsFiniteSet((S \ {m}) \cup {r})
              /\ Cardinality((S \ {m}) \cup {r}) \in Nat
              /\ Cardinality((S \ {m}) \cup {r}) <= Cardinality(S)
<1>1. ASSUME NEW T, IsFiniteSet(T)
      PROVE  /\ IsFiniteSet(T \cup {r}) /\ Cardinality(T) \in Nat
             /\ Cardinality(T \cup {r}) \in Nat
             /\ Cardinality(T \cup {r}) <= Cardinality(T) + 1
  <2>1. IsFiniteSet(T \cup {r}) /\ (\/ Cardinality(T \cup {r}) = Cardinality(T)
                                    \/ Cardinality(T \cup {r}) = Cardinality(T) + 1)
    BY <1>1, FS_AddElement
  <2>2. Cardinality(T) \in Nat
    BY <1>1, FS_CardinalityType
  <2>3. QED
    BY <2>1, <2>2
<1>2. ASSUME NEW m \in S
      PROVE  /\ IsFiniteSet(S \ {m}) /\ Cardinality(S \ {m}) = Cardinality(S) - 1
             /\ IsFiniteSet((S \ {m}) \cup {r})
             /\ Cardinality((S \ {m}) \cup {r}) \in Nat
             /\ Cardinality((S \ {m}) \cup {r}) <= Cardinality(S)
  <2>1. IsFiniteSet(S \ {m}) /\ Cardinality(S \ {m}) = Cardinality(S) - 1
    BY FS_RemoveElement
  <2>2. Cardinality(S) \in Nat
    BY FS_CardinalityType
  <2>3. QED
    BY <1>1, <2>1, <2>2
<1>3. QED
  BY <1>1, <1>2

(* The port of a request is one, whatever the byte order.                  *)
LEMMA TargetPortType == TargetPort \in Ports
<1>1. ASSUME NEW x \in Nat, x < 65536 PROVE Swap(x) \in Nat /\ Swap(x) < 65536
  <2>1. x % 256 \in 0..255
    OBVIOUS
  <2>2. x \div 256 \in Nat /\ x \div 256 < 256
    BY <1>1
  <2>3. QED
    BY <2>1, <2>2 DEF Swap
<1>2. \A x : x \in Ports <=> x \in Nat /\ x < 65536
  <2>1. \A n \in Nat : \A x : x \in 0..n <=> x \in Nat /\ x <= n
    OBVIOUS
  <2>2. MaxPort \in Nat /\ \A x \in Nat : x <= MaxPort <=> x < 65536
    BY DEF MaxPort
  <2>3. QED
    BY <2>1, <2>2 DEF Ports
<1>3. Port \in Ports /\ Swap(Port) \in Ports
  BY <1>1, <1>2, PortAssumption
<1>4. QED
  BY <1>3 DEF TargetPort, Ntohs

(* The two kinds of datagrams.                                             *)
LEMMA RequestType ==
  ASSUME NEW s \in Seqs, NEW t \in Tools
  PROVE  /\ Request(s, t) \in Datagrams
         /\ Request(s, t).seq = s /\ Request(s, t).type = "request"
<1>1. Request(s, t) \in [type : {"request"}, seq : Seqs, tool : Tools, port : Ports]
  BY TargetPortType DEF Request
<1>2. QED
  BY <1>1 DEF Datagrams, Request

LEMMA ResponseType ==
  ASSUME NEW s \in Seqs, NEW st \in Statuses
  PROVE  /\ Response(s, st) \in Datagrams
         /\ Response(s, st).seq = s /\ Response(s, st).type = "response"
         /\ Response(s, st).status = st
<1>1. Response(s, st) \in [type : {"response"}, seq : Seqs, status : Statuses]
  BY DEF Response
<1>2. QED
  BY <1>1 DEF Datagrams, Response

LEMMA DatagramType ==
  ASSUME NEW m \in Datagrams
  PROVE  m.seq \in Seqs /\ (m.type = "response" => m.status \in Statuses)
<1>1. CASE m \in [type : {"request"}, seq : Seqs, tool : Tools, port : Ports]
  <2>1. m.seq \in Seqs /\ m.type = "request"
    BY <1>1
  <2>2. QED
    BY <2>1
<1>2. CASE m \in [type : {"response"}, seq : Seqs, status : Statuses]
  BY <1>2
<1>3. QED
  BY <1>1, <1>2 DEF Datagrams

LEMMA NextSeqType ==
  ASSUME seq \in Seqs
  PROVE  NextSeq \in Seqs
BY SeqAssumption DEF Seqs, NextSeq

(* What an invariant state says of the numbers in it.                      *)
LEMMA Numbers ==
  ASSUME RpcCore
  PROVE  /\ IsFiniteSet(net) /\ IsFiniteSet(InFlight) /\ Cardinality(InFlight) \in Nat
         /\ tokens \in Nat /\ repeated \in Nat /\ Unsent \in 0..1 /\ seq \in Seqs
<1>1. IsFiniteSet(net) /\ tokens \in Nat /\ repeated \in Nat /\ Unsent \in 0..1 /\ seq \in Seqs
  BY RetryAssumption, PortAssumption DEF RpcCore, CreditBounded, RpcTypeOK, Unsent
<1>2. InFlight \subseteq net
  BY DEF InFlight
<1>3. IsFiniteSet(InFlight) /\ Cardinality(InFlight) \in Nat
  BY <1>1, <1>2, FS_Subset, FS_CardinalityType
<1>4. QED
  BY <1>1, <1>3

LEMMA RpcInitInv == RpcInit => RpcCore
<1> SUFFICES ASSUME RpcInit PROVE RpcCore
  OBVIOUS
<1>1. RpcTypeOK
  BY SeqAssumption, RetryAssumption, PortAssumption
     DEF RpcInit, RpcTypeOK, Idle, Seqs, Statuses
<1>2. InFlight = {} /\ IsFiniteSet(net) /\ Cardinality(InFlight) = 0
  BY FS_EmptySet DEF RpcInit, InFlight
<1>3. CreditBounded
  BY <1>2 DEF RpcInit, CreditBounded, Unsent, At, Idle
<1>4. StoredIsMine /\ SuccessIsExecuted
  BY DEF RpcInit, StoredIsMine, SuccessIsExecuted, At, Idle
<1>5. QED
  BY <1>1, <1>3, <1>4 DEF RpcCore

-----------------------------------------------------------------------------
(* The caller *)

LEMMA CallInv ==
  ASSUME RpcCore, NEW t \in Tools, Call(t)
  PROVE  RpcCore'
<1>1. /\ At("idle") /\ caller' = [pc |-> "prepare", attempt |-> 1, tool |-> t]
      /\ UNCHANGED <<seq, pending, status, result, tokens, net, executed, repeated>>
  BY DEF Call
<1>2. RpcTypeOK'
  BY <1>1, RetryAssumption DEF RpcCore, RpcTypeOK
<1>3. StoredIsMine' /\ SuccessIsExecuted'
  BY <1>1 DEF RpcCore, StoredIsMine, SuccessIsExecuted, At
<1>4. InFlight' = InFlight /\ Unsent = 0 /\ Unsent' = 0
  BY <1>1 DEF InFlight, Unsent, At
<1>5. CreditBounded'
  BY <1>1, <1>4 DEF RpcCore, CreditBounded, At
<1>6. QED
  BY <1>2, <1>3, <1>5 DEF RpcCore

LEMMA PrepareInv ==
  ASSUME RpcCore, Prepare
  PROVE  RpcCore'
<1>1. /\ At("prepare") /\ seq' = NextSeq /\ pending' = NextSeq
      /\ status' = "ERROR" /\ result' = NoResult
      /\ caller' = [caller EXCEPT !.pc = "transmit"]
      /\ net' = {m \in net : m.seq # NextSeq} /\ executed' = executed \ {NextSeq}
      /\ UNCHANGED <<tokens, repeated>>
  BY DEF Prepare, Goto
<1>2. RpcTypeOK'
  BY <1>1, NextSeqType DEF RpcCore, RpcTypeOK, Statuses
<1>3. At("transmit")'
  BY <1>1 DEF RpcCore, RpcTypeOK, At
<1>4. StoredIsMine' /\ SuccessIsExecuted'
  <2>1. caller'.tool \in Tools
    BY <1>1 DEF RpcCore, RpcTypeOK, StoredIsMine, At
  <2>2. QED
    BY <1>1, <2>1 DEF RpcCore, StoredIsMine, SuccessIsExecuted
<1>5. InFlight' = {} /\ Unsent' = 1 /\ Unsent = 0
  BY <1>1, <1>3 DEF InFlight, Unsent, At
<1>6. IsFiniteSet(net') /\ Cardinality(InFlight') = 0
  <2>1. net' \subseteq net
    BY <1>1
  <2>2. QED
    BY <1>5, <2>1, Numbers, FS_Subset, FS_EmptySet
<1>7. tokens <= 1 + repeated
  BY <1>1, Numbers DEF RpcCore, CreditBounded, At
<1>8. CreditBounded'
  BY <1>1, <1>3, <1>5, <1>6, <1>7, Numbers DEF CreditBounded
<1>9. QED
  BY <1>2, <1>4, <1>8 DEF RpcCore

(* The request that was about to be sent is under way.                     *)
LEMMA TransmitInv ==
  ASSUME RpcCore, Transmit
  PROVE  RpcCore'
<1>1. /\ At("transmit")
      /\ caller' = [caller EXCEPT !.pc = "wait"]
      /\ UNCHANGED <<seq, pending, status, result, tokens, executed, repeated>>
  BY DEF Transmit, Goto
<1>2. PICK r \in Datagrams : r.seq = seq /\ r.type = "request" /\ net' = net \cup {r}
  <2>1. caller.tool \in Tools /\ seq \in Seqs
    BY <1>1 DEF RpcCore, RpcTypeOK, StoredIsMine, At
  <2>2. Request(seq, caller.tool) \in Datagrams
    BY <2>1, RequestType
  <2>3. /\ Request(seq, caller.tool).seq = seq
        /\ Request(seq, caller.tool).type = "request"
    BY <2>1, RequestType
  <2>4. net' = net \cup {Request(seq, caller.tool)}
    BY DEF Transmit
  <2>5. QED
    BY <2>2, <2>3, <2>4
<1>3. At("wait")' /\ ~At("transmit")' /\ ~At("idle")' /\ ~At("prepare")'
  BY <1>1 DEF RpcCore, RpcTypeOK, At
<1>4. RpcTypeOK'
  BY <1>1, <1>2 DEF RpcCore, RpcTypeOK
<1>5. StoredIsMine' /\ SuccessIsExecuted'
  BY <1>1, <1>2, <1>3 DEF RpcCore, RpcTypeOK, StoredIsMine, SuccessIsExecuted, At
<1>6. InFlight' = InFlight \cup {r} /\ Unsent = 1 /\ Unsent' = 0
  BY <1>1, <1>2, <1>3 DEF InFlight, Unsent
<1>7. /\ Cardinality(InFlight \cup {r}) <= Cardinality(InFlight) + 1
      /\ Cardinality(InFlight \cup {r}) \in Nat /\ IsFiniteSet(net \cup {r})
  BY Numbers, OneElement
<1>8. CreditBounded'
  BY <1>1, <1>2, <1>3, <1>6, <1>7, Numbers DEF RpcCore, CreditBounded
<1>9. QED
  BY <1>4, <1>5, <1>8 DEF RpcCore

(* The steps of the caller that leave the network and the answer alone.    *)
LEMMA WaitStep ==
  ASSUME RpcCore,
         UNCHANGED <<seq, pending, status, result, net, executed, repeated>>,
         ~At("idle"), ~At("prepare"), ~At("transmit"),
         NEW pc \in {"idle", "prepare", "read", "backoff"},
         \/ caller' = Idle /\ pc = "idle"
         \/ /\ caller'.pc = pc /\ caller'.tool = caller.tool
            /\ caller' \in [pc : {"prepare", "read", "backoff"}, attempt : 0..MaxRetries,
                            tool : Tools \cup {"none"}],
         tokens' \in 0..MaxTokens,
         \/ At("wait") /\ tokens > 0 /\ tokens' = tokens - 1
         \/ At("wait") /\ tokens = 0 /\ tokens' = 0
         \/ ~At("wait") /\ tokens' = tokens
  PROVE  RpcCore'
<1>1. At(pc)'
  BY DEF At, Idle
<1>2. RpcTypeOK'
  BY RetryAssumption DEF RpcCore, RpcTypeOK, Idle
<1>3. StoredIsMine'
  BY <1>1 DEF RpcCore, StoredIsMine, At, Idle
<1>4. SuccessIsExecuted'
  BY DEF RpcCore, SuccessIsExecuted
<1>5. InFlight' = InFlight /\ Unsent = 0 /\ Unsent' = 0
  BY <1>1 DEF InFlight, Unsent, At
<1>6. tokens' + Cardinality(InFlight) <= 1 + repeated
  BY <1>5, Numbers DEF RpcCore, CreditBounded
<1>7. ~At("transmit")' /\ ~At("wait")'
  BY <1>1 DEF At
<1>8. CreditBounded'
  BY <1>5, <1>6, <1>7, Numbers DEF RpcCore, CreditBounded
<1>9. QED
  BY <1>2, <1>3, <1>4, <1>8 DEF RpcCore

LEMMA TakeInv ==
  ASSUME RpcCore, Take
  PROVE  RpcCore'
<1>1. /\ At("wait") /\ tokens > 0 /\ tokens' = tokens - 1
      /\ caller' = [caller EXCEPT !.pc = "read"]
      /\ UNCHANGED <<seq, pending, status, result, net, executed, repeated>>
  BY DEF Take, Goto
<1>2. /\ caller' \in [pc : {"prepare", "read", "backoff"}, attempt : 0..MaxRetries,
                      tool : Tools \cup {"none"}]
      /\ caller'.pc = "read" /\ caller'.tool = caller.tool /\ tokens' \in 0..MaxTokens
  BY <1>1, RetryAssumption DEF RpcCore, RpcTypeOK
<1>3. ~At("idle") /\ ~At("prepare") /\ ~At("transmit")
  BY <1>1 DEF At
<1>4. QED
  BY <1>1, <1>2, <1>3, WaitStep

LEMMA TimeoutInv ==
  ASSUME RpcCore, WaitTimesOut
  PROVE  RpcCore'
<1>1. /\ At("wait") /\ tokens = 0 /\ tokens' = 0
      /\ \/ caller' = [caller EXCEPT !.pc = "backoff"]
         \/ caller' = Idle
      /\ UNCHANGED <<seq, pending, status, result, net, executed, repeated>>
  BY DEF WaitTimesOut, Goto
<1>2. ~At("idle") /\ ~At("prepare") /\ ~At("transmit") /\ tokens' \in 0..MaxTokens
  BY <1>1, RetryAssumption DEF At
<1>3. CASE caller' = [caller EXCEPT !.pc = "backoff"]
  <2>1. /\ caller' \in [pc : {"prepare", "read", "backoff"}, attempt : 0..MaxRetries,
                        tool : Tools \cup {"none"}]
        /\ caller'.pc = "backoff" /\ caller'.tool = caller.tool
    BY <1>3 DEF RpcCore, RpcTypeOK
  <2>2. QED
    BY <1>1, <1>2, <2>1, WaitStep
<1>4. CASE caller' = Idle
  BY <1>1, <1>2, <1>4, WaitStep
<1>5. QED
  BY <1>1, <1>3, <1>4

LEMMA BackoffEndsInv ==
  ASSUME RpcCore, BackoffEnds
  PROVE  RpcCore'
<1>1. /\ At("backoff") /\ tokens' = tokens
      /\ UNCHANGED <<seq, pending, status, result, net, executed, repeated>>
  BY DEF BackoffEnds
<1>2. /\ caller' \in [pc : {"prepare", "read", "backoff"}, attempt : 0..MaxRetries,
                      tool : Tools \cup {"none"}]
      /\ caller'.pc = "prepare" /\ caller'.tool = caller.tool /\ tokens' \in 0..MaxTokens
  <2>1. PICK a \in 0..MaxRetries :
          caller' = [caller EXCEPT !.pc = "prepare", !.attempt = a]
    <3>1. caller.attempt \in 0..MaxRetries /\ MaxRetries \in Nat
      BY RetryAssumption DEF RpcCore, RpcTypeOK
    <3>2. (IF caller.attempt < MaxRetries THEN caller.attempt + 1 ELSE caller.attempt)
            \in 0..MaxRetries
      BY <3>1
    <3>3. QED
      BY <3>2 DEF BackoffEnds
  <2>2. QED
    BY <1>1, <2>1 DEF RpcCore, RpcTypeOK
<1>3. ~At("idle") /\ ~At("prepare") /\ ~At("transmit") /\ ~At("wait")
  BY <1>1 DEF At
<1>4. QED
  BY <1>1, <1>2, <1>3, WaitStep

LEMMA ReturnInv ==
  ASSUME RpcCore, Return
  PROVE  RpcCore'
<1>1. /\ At("read") /\ tokens' = tokens /\ caller' = Idle
      /\ UNCHANGED <<seq, pending, status, result, net, executed, repeated>>
  BY DEF Return
<1>2. /\ ~At("idle") /\ ~At("prepare") /\ ~At("transmit") /\ ~At("wait")
      /\ tokens' \in 0..MaxTokens
  BY <1>1 DEF At, RpcCore, RpcTypeOK
<1>3. QED
  BY <1>1, <1>2, WaitStep

-----------------------------------------------------------------------------
(* The network and the other node *)

(* A datagram is delivered, and answered by at most one with its number:   *)
(* only a repeated delivery adds to what is in flight.                     *)
LEMMA DeliverCounts ==
  ASSUME RpcCore, NEW m \in net, NEW more, Deliver(m, more), seq' = seq,
         \/ more = {}
         \/ \E r : more = {r} /\ r.seq = m.seq
  PROVE  /\ net' \subseteq net \cup more /\ IsFiniteSet(net')
         /\ repeated' \in 0..MaxRepeats /\ Cardinality(InFlight') \in Nat
         /\ Cardinality(InFlight') - repeated' <= Cardinality(InFlight) - repeated
         /\ more = {} /\ m.seq = seq =>
              Cardinality(InFlight') - repeated' + 1 <= Cardinality(InFlight) - repeated
<1>1. \/ net' = (net \ {m}) \cup more /\ repeated' = repeated
      \/ net' = net \cup more /\ repeated' = repeated + 1 /\ repeated < MaxRepeats
  BY DEF Deliver
<1>2. net' \subseteq net \cup more /\ repeated' \in 0..MaxRepeats
  BY <1>1, PortAssumption DEF RpcCore, RpcTypeOK
<1>3. CASE more = {}
  <2>1. IsFiniteSet(net')
    BY <1>2, <1>3, Numbers, FS_Subset
  <2>2. \/ /\ m.seq = seq /\ m \in InFlight /\ InFlight' = InFlight \ {m}
           /\ repeated' = repeated
        \/ m.seq # seq /\ InFlight' = InFlight /\ repeated' = repeated
        \/ InFlight' = InFlight /\ repeated' = repeated + 1
    BY <1>1, <1>3 DEF InFlight
  <2>3. \A k \in InFlight : Cardinality(InFlight \ {k}) = Cardinality(InFlight) - 1
    BY Numbers, FS_RemoveElement
  <2>4. Cardinality(InFlight') \in Nat
    <3>1. InFlight' \subseteq InFlight
      BY <2>2
    <3>2. QED
      BY <3>1, Numbers, FS_Subset, FS_CardinalityType
  <2>5. QED
    BY <1>2, <2>1, <2>2, <2>3, <2>4, Numbers
<1>4. ASSUME NEW r, more = {r}, r.seq = m.seq
      PROVE  /\ IsFiniteSet(net') /\ Cardinality(InFlight') \in Nat
             /\ Cardinality(InFlight') - repeated' <= Cardinality(InFlight) - repeated
  <2>1. IsFiniteSet(net')
    <3>1. net' \subseteq net \cup {r} /\ IsFiniteSet(net \cup {r})
      BY <1>2, <1>4, Numbers, OneElement
    <3>2. QED
      BY <3>1, FS_Subset
  <2>2. \/ m.seq # seq /\ InFlight' = InFlight /\ repeated' >= repeated
        \/ /\ m \in InFlight /\ InFlight' = (InFlight \ {m}) \cup {r}
           /\ repeated' = repeated
        \/ InFlight' = InFlight \cup {r} /\ repeated' = repeated + 1
    BY <1>1, <1>4, Numbers DEF InFlight
  <2>3. /\ Cardinality(InFlight \cup {r}) \in Nat
        /\ Cardinality(InFlight \cup {r}) <= Cardinality(InFlight) + 1
        /\ \A k \in InFlight :
             /\ Cardinality((InFlight \ {k}) \cup {r}) \in Nat
             /\ Cardinality((InFlight \ {k}) \cup {r}) <= Cardinality(InFlight)
    BY Numbers, OneElement
  <2>4. repeated \in Nat /\ repeated' \in Nat /\ Cardinality(InFlight) \in Nat
    BY <1>2, Numbers
  <2>5. CASE m.seq # seq /\ InFlight' = InFlight /\ repeated' >= repeated
    BY <2>1, <2>4, <2>5
  <2>6. CASE /\ m \in InFlight /\ InFlight' = (InFlight \ {m}) \cup {r}
             /\ repeated' = repeated
    BY <2>1, <2>3, <2>4, <2>6
  <2>7. CASE InFlight' = InFlight \cup {r} /\ repeated' = repeated + 1
    BY <2>1, <2>3, <2>4, <2>7
  <2>8. QED
    BY <2>2, <2>5, <2>6, <2>7
<1>5. CASE more # {}
  BY <1>2, <1>4, <1>5
<1>6. QED
  BY <1>3, <1>5

LEMMA ExecuteInv ==
  ASSUME RpcCore, NEW m \in net, Execute(m)
  PROVE  RpcCore'
<1>1. PICK st \in Statuses :
        /\ Deliver(m, {Response(m.seq, st)})
        /\ st = "OK" => m.seq \in executed'
  BY DEF Execute, Statuses
<1>2. /\ m.type = "request" /\ executed \subseteq executed'
      /\ executed' \subseteq executed \cup {m.seq}
      /\ UNCHANGED <<seq, pending, status, result, tokens, caller>>
  BY DEF Execute
<1>3. PICK r \in Datagrams : /\ r = Response(m.seq, st) /\ r.seq = m.seq /\ m.seq \in Seqs
                             /\ r.type = "response" /\ r.status = st
  <2>1. m.seq \in Seqs
    BY DatagramType DEF RpcCore, RpcTypeOK
  <2>2. QED
    BY <2>1, ResponseType
<1>4. Deliver(m, {r})
  BY <1>1, <1>3
<1>5. /\ net' \subseteq net \cup {r} /\ IsFiniteSet(net')
      /\ repeated' \in 0..MaxRepeats /\ Cardinality(InFlight') \in Nat
      /\ Cardinality(InFlight') - repeated' <= Cardinality(InFlight) - repeated
  BY <1>2, <1>3, <1>4, DeliverCounts
<1>6. RpcTypeOK'
  BY <1>2, <1>3, <1>5 DEF RpcCore, RpcTypeOK
<1>7. StoredIsMine' /\ SuccessIsExecuted'
  BY <1>1, <1>2, <1>3, <1>5 DEF RpcCore, StoredIsMine, SuccessIsExecuted, At
<1>8. CreditBounded'
  <2>1. Unsent' = Unsent /\ (At("transmit") <=> At("transmit")')
    BY <1>2 DEF Unsent, At
  <2>2. QED
    BY <1>2, <1>5, <2>1, Numbers DEF RpcCore, CreditBounded, At
<1>9. QED
  BY <1>6, <1>7, <1>8 DEF RpcCore

LEMMA ReceiveAnswerInv ==
  ASSUME RpcCore, NEW m \in net, ReceiveAnswer(m)
  PROVE  RpcCore'
<1>1. /\ m.type = "response" /\ tokens < MaxTokens /\ Deliver(m, {})
      /\ \/ /\ m.seq = pending /\ status' = m.status /\ result' = m.seq
            /\ tokens' = tokens + 1
         \/ UNCHANGED <<status, result, tokens>>
      /\ UNCHANGED <<seq, pending, caller, executed>>
  BY DEF ReceiveAnswer, Accept
<1>2. m.seq \in Seqs /\ m.status \in Statuses
  BY <1>1, DatagramType DEF RpcCore, RpcTypeOK
<1>3. /\ net' \subseteq net /\ IsFiniteSet(net')
      /\ repeated' \in 0..MaxRepeats /\ Cardinality(InFlight') \in Nat
      /\ Cardinality(InFlight') - repeated' <= Cardinality(InFlight) - repeated
      /\ m.seq = seq =>
           Cardinality(InFlight') - repeated' + 1 <= Cardinality(InFlight) - repeated
  BY <1>1, DeliverCounts
<1>4. pending = seq
  BY DEF RpcCore, StoredIsMine
<1>5. RpcTypeOK'
  BY <1>1, <1>2, <1>3, RetryAssumption DEF RpcCore, RpcTypeOK
<1>6. StoredIsMine' /\ SuccessIsExecuted'
  BY <1>1, <1>3, <1>4 DEF RpcCore, StoredIsMine, SuccessIsExecuted, At
<1>7. CreditBounded'
  <2>1. Unsent' = Unsent
    BY <1>1 DEF Unsent, At
  <2>2. QED
    BY <1>1, <1>3, <1>4, <2>1, Numbers DEF RpcCore, CreditBounded, At
<1>8. QED
  BY <1>5, <1>6, <1>7 DEF RpcCore

LEMMA LoseInv ==
  ASSUME RpcCore, NEW m \in net, Lose(m)
  PROVE  RpcCore'
<1>1. /\ net' = net \ {m}
      /\ UNCHANGED <<seq, pending, status, result, tokens, caller, executed, repeated>>
  BY DEF Lose
<1>2. RpcTypeOK' /\ StoredIsMine' /\ SuccessIsExecuted'
  BY <1>1 DEF RpcCore, RpcTypeOK, StoredIsMine, SuccessIsExecuted, At
<1>3. InFlight' \subseteq InFlight /\ net' \subseteq net /\ Unsent' = Unsent
  BY <1>1 DEF InFlight, Unsent, At
<1>4. IsFiniteSet(net') /\ IsFiniteSet(InFlight')
      /\ Cardinality(InFlight') <= Cardinality(InFlight)
  BY <1>3, Numbers, FS_Subset
<1>5. Cardinality(InFlight') \in Nat
  BY <1>4, FS_CardinalityType
<1>6. CreditBounded'
  BY <1>1, <1>3, <1>4, <1>5, Numbers DEF RpcCore, CreditBounded, At
<1>7. QED
  BY <1>2, <1>6 DEF RpcCore

-----------------------------------------------------------------------------
(* The theorems *)

LEMMA NextInv ==
  ASSUME RpcCore, [RpcNext]_rpcVars
  PROVE  RpcCore'
<1>1. ASSUME NEW t \in Tools, Call(t) PROVE RpcCore'
  BY <1>1, CallInv
<1>2. CASE CallerStep
  BY <1>2, PrepareInv, TransmitInv, TakeInv, TimeoutInv, BackoffEndsInv, ReturnInv
     DEF CallerStep
<1>3. ASSUME NEW m \in net, Execute(m) \/ ReceiveAnswer(m) \/ Lose(m) PROVE RpcCore'
  BY <1>3, ExecuteInv, ReceiveAnswerInv, LoseInv
<1>4. CASE UNCHANGED rpcVars
  BY <1>4 DEF rpcVars, RpcCore, RpcTypeOK, StoredIsMine, SuccessIsExecuted, CreditBounded,
              InFlight, Unsent, At
<1>5. QED
  BY <1>1, <1>2, <1>3, <1>4 DEF RpcNext

(* The two properties follow from the rest.                                *)
LEMMA Consequences ==
  ASSUME RpcTypeOK, StoredIsMine, CreditBounded
  PROVE  OkIsMine /\ TokensBounded
<1>1. OkIsMine
  BY DEF StoredIsMine, OkIsMine, At
<1>2. InFlight \subseteq net /\ IsFiniteSet(net)
  BY DEF InFlight, CreditBounded
<1>3. Cardinality(InFlight) \in Nat
  BY <1>2, FS_Subset, FS_CardinalityType
<1>4. tokens \in Nat /\ repeated \in Nat /\ Unsent \in 0..1
  BY RetryAssumption, PortAssumption DEF RpcTypeOK, Unsent
<1>5. TokensBounded
  BY <1>3, <1>4 DEF CreditBounded, TokensBounded
<1>6. QED
  BY <1>1, <1>5

(* Whatever is lost, late, reordered or repeated: a success is the answer  *)
(* to the call's own request, which the node executed, and stale tokens do *)
(* not pile up in the semaphore.                                           *)
THEOREM RpcInvariant == RpcSpec => []RpcInv
<1>1. RpcInit => RpcCore
  BY RpcInitInv
<1>2. RpcCore /\ [RpcNext]_rpcVars => RpcCore'
  BY NextInv
<1>3. RpcCore => RpcInv
  BY Consequences DEF RpcCore, RpcInv
<1>4. QED
  BY <1>1, <1>2, <1>3, PTL DEF RpcSpec
=============================================================================
