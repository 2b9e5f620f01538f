----------------------------- MODULE SwarmNodes -----------------------------
(***************************************************************************)
(* The membership table of one node of the swarm (claw/services/swarm/     *)
(* swarm.c), and the choice of the node a tool call is delegated to        *)
(* (find_best_node) from what the table holds.  The receiver thread enters *)
(* every heartbeat it hears into the table; the heartbeat timer, in a      *)
(* thread of its own, throws out the nodes that have been silent too long. *)
(* Both work under ctx->lock, but the timer reads the clock before it      *)
(* takes the lock.                                                         *)
(*                                                                         *)
(* UDP loses, delays, repeats and reorders, and peers come and go, so a    *)
(* heartbeat of any peer may arrive at any moment.  The millisecond clock  *)
(* counts modulo W (uint32_t), and ages are unsigned differences.          *)
(***************************************************************************)
EXTENDS Integers, FiniteSets

CONSTANTS
  Peers,       (* ids of the other nodes                                   *)
  Self,        (* ctx->self_id                                             *)
  NoId,        (* id of a slot that has never been used                    *)
  MaxNodes,    (* CLAW_SWARM_MAX_NODES                                     *)
  Period,      (* CLAW_SWARM_HEARTBEAT_MS                                  *)
  Capable,     (* peers whose capabilities include those a tool requires   *)
  LoadOf,      (* load percentage every peer reports (this firmware: 0)    *)
  Timeout,     (* CLAW_SWARM_TIMEOUT_MS                                    *)
  MaxLate,     (* bound: time the timer thread can lose before the lock    *)
  W            (* number of values of a uint32_t tick                      *)

ASSUME IdAssumption == Self \notin Peers /\ NoId \notin Peers \cup {Self}
ASSUME LoadAssumption == Capable \subseteq Peers /\ LoadOf \in [Peers -> 0..100]
ASSUME SizeAssumption == MaxNodes \in Nat \ {0} /\ IsFiniteSet(Peers)
ASSUME ClockAssumption ==
  /\ Period \in Nat \ {0} /\ Timeout \in Nat /\ MaxLate \in Nat /\ W \in Nat
  /\ Timeout + Period + 2 * MaxLate + 1 < W

Clock == 0..(W - 1)
Slots == 1..MaxNodes
Ids   == Peers \cup {Self}

VARIABLES
  tick,        (* claw_tick_ms()                                           *)
  nodes,       (* ctx->nodes: id, state = ONLINE, last_seen                *)
  nodeCount,   (* ctx->node_count                                          *)
  phase,       (* "init" after swarm_svc_init, "up", "down" after stop     *)
  timer,       (* the timer thread: [pc, now, wait]                        *)
  silence,     (* history: time since a peer was heard from, up to Deaf    *)
  told         (* history: peers announced as joined, and not as left      *)
               (* since (notify_node_event)                                *)

vars == <<tick, nodes, nodeCount, phase, timer, silence, told>>

-----------------------------------------------------------------------------

(* The longest a listed node can have been silent: the check that judges   *)
(* it is one period after the last that did not, each with its delay.      *)
MaxSilence == Timeout + Period + 2 * MaxLate
Deaf       == MaxSilence + 1

(* uint32_t subtraction *)
Age(now, seen) == (now - seen) % W

Online(id)  == {i \in Slots : nodes[i].online /\ nodes[i].id = id}
Listed(id)  == Online(id) # {}
OnlineSlots == {i \in Slots : nodes[i].online}

(* mutant: a slot is looked for by its place only                          *)
FindOrAddBlind(id) == {i \in Slots : ~nodes[i].online}

(* find_or_add_node: the slot of id, else the first OFFLINE one, if any    *)
FindOrAddNode(id) ==
  IF Listed(id) THEN Online(id)
  ELSE {i \in Slots \ OnlineSlots : \A j \in 1..(i - 1) : nodes[j].online}

-----------------------------------------------------------------------------
(* The service *)

Init ==
  /\ tick \in Clock
  /\ nodes = [i \in Slots |-> [id |-> NoId, online |-> FALSE, seen |-> 0]]
  /\ nodeCount = 0
  /\ phase = "init"
  /\ timer = [pc |-> "off", now |-> 0, wait |-> 0]
  /\ silence = [p \in Peers |-> Deaf]
  /\ told = {}

(* swarm_svc_start: the own node comes first, then timer and receiver.     *)
Start ==
  /\ phase = "init"
  /\ phase' = "up"
  /\ nodes' = [nodes EXCEPT ![1] = [id |-> Self, online |-> TRUE, seen |-> tick]]
  /\ nodeCount' = nodeCount + 1
  /\ timer' = [pc |-> "sleep", now |-> 0, wait |-> Period]
  /\ UNCHANGED <<tick, silence, told>>

(* swarm_svc_stop joins both threads and leaves the table as it is.        *)
Stop ==
  /\ phase = "up"
  /\ timer.pc = "sleep"
  /\ phase' = "down"
  /\ timer' = [pc |-> "off", now |-> 0, wait |-> 0]
  /\ UNCHANGED <<tick, nodes, nodeCount, silence, told>>

-----------------------------------------------------------------------------
(* The receiver thread *)

(* mutant: the counter is left to the timeout                              *)
HeardUncounted(p, i) ==
  /\ nodes' = [nodes EXCEPT ![i] = [id |-> p, online |-> TRUE, seen |-> tick]]
  /\ UNCHANGED nodeCount

(* mutant: last_seen is set for new nodes only                             *)
HeardOnce(p, i) ==
  /\ nodes' = IF Listed(p) THEN nodes
              ELSE [nodes EXCEPT ![i] = [id |-> p, online |-> TRUE, seen |-> tick]]
  /\ nodeCount' = IF Listed(p) THEN nodeCount ELSE nodeCount + 1

Heard(p, i) ==
  /\ nodes' = [nodes EXCEPT ![i] = [id |-> p, online |-> TRUE, seen |-> tick]]
  /\ nodeCount' = IF Listed(p) THEN nodeCount ELSE nodeCount + 1

(* A heartbeat of a peer; is_new is judged by the slot's last_seen, which  *)
(* a timeout does not reset.  A full table ignores the peer.               *)
Receive(p) ==
  /\ phase = "up"
  /\ \/ \E i \in FindOrAddNode(p) :
          /\ Heard(p, i)
          /\ told' = IF nodes[i].seen = 0 THEN told \cup {p} ELSE told
     \/ FindOrAddNode(p) = {} /\ UNCHANGED <<nodes, nodeCount, told>>
  /\ silence' = [silence EXCEPT ![p] = 0]
  /\ UNCHANGED <<tick, phase, timer>>

-----------------------------------------------------------------------------
(* The timer thread: heartbeat_timer_cb sends the own heartbeat, which     *)
(* changes nothing here, and calls check_timeouts.                         *)

(* uint32_t now = claw_tick_ms(), before the lock *)
SampleClock ==
  /\ timer.pc = "sleep" /\ timer.wait = 0
  /\ timer' = [timer EXCEPT !.pc = "check", !.now = tick]
  /\ UNCHANGED <<tick, nodes, nodeCount, phase, silence, told>>

(* mutant: a slot that timed out is not announced                          *)
CheckTimeoutsSilently ==
  /\ timer.pc = "check"
  /\ LET out == {i \in Slots : nodes[i].online /\ nodes[i].id # Self
                                /\ Age(timer.now, nodes[i].seen) > Timeout}
     IN  /\ nodes' = [i \in Slots |-> IF i \in out THEN [nodes[i] EXCEPT !.online = FALSE]
                                      ELSE nodes[i]]
         /\ nodeCount' = nodeCount - Cardinality(out)
  /\ timer' = [pc |-> "sleep", now |-> 0, wait |-> Period]
  /\ UNCHANGED <<tick, phase, silence, told>>

(* mutant: the deadline compared with the clock as plain numbers           *)
TimedOutPlain(i) == nodes[i].online /\ nodes[i].id # Self
                      /\ timer.now > nodes[i].seen + Timeout

TimedOut(i) == nodes[i].online /\ nodes[i].id # Self
                 /\ Age(timer.now, nodes[i].seen) > Timeout

CheckTimeouts ==
  /\ timer.pc = "check"
  /\ LET out == {i \in Slots : TimedOut(i)}
     IN  /\ nodes' = [i \in Slots |-> IF i \in out THEN [nodes[i] EXCEPT !.online = FALSE]
                                      ELSE nodes[i]]
         /\ nodeCount' = nodeCount - Cardinality(out)
         /\ told' = told \ {nodes[i].id : i \in out}
  /\ timer' = [pc |-> "sleep", now |-> 0, wait |-> Period]
  /\ UNCHANGED <<tick, phase, silence>>

-----------------------------------------------------------------------------
(* find_best_node, under ctx->lock in the AI worker's thread.  It reads    *)
(* the table and changes nothing, so it is a function of the state.        *)

Candidate(i) == nodes[i].online /\ nodes[i].id # Self /\ nodes[i].id \in Capable

(* min_load starts at 101                                                  *)
MinLoad(b) == IF b = 0 THEN 101 ELSE LoadOf[nodes[b].id]

(* The best of the first n slots, or 0                                     *)
Best[n \in 0..MaxNodes] ==
  IF n = 0 THEN 0
  ELSE IF Candidate(n) /\ LoadOf[nodes[n].id] < MinLoad(Best[n - 1])
       THEN n ELSE Best[n - 1]

(* mutant: min_load is not lowered                                         *)
LastCandidate ==
  LET last[n \in 0..MaxNodes] ==
        IF n = 0 THEN 0 ELSE IF Candidate(n) THEN n ELSE last[n - 1]
  IN  last[MaxNodes]

FindBestNode == Best[MaxNodes]

-----------------------------------------------------------------------------
(* The clock *)

Tick ==
  /\ \/ timer.pc = "sleep" /\ timer.wait > 0
        /\ timer' = [timer EXCEPT !.wait = @ - 1]
     \/ timer.pc = "check" /\ Age(tick, timer.now) < MaxLate
        /\ UNCHANGED timer
  /\ tick' = (tick + 1) % W
  /\ silence' = [p \in Peers |-> IF silence[p] < Deaf THEN silence[p] + 1 ELSE Deaf]
  /\ UNCHANGED <<nodes, nodeCount, phase, told>>

Next == Start \/ Stop \/ (\E p \in Peers : Receive(p)) \/ SampleClock \/ CheckTimeouts \/ Tick

Spec == Init /\ [][Next]_vars

-----------------------------------------------------------------------------
(* Properties *)

TypeOK ==
  /\ tick \in Clock
  /\ nodes \in [Slots -> [id : Ids \cup {NoId}, online : BOOLEAN, seen : Clock]]
  /\ nodeCount \in 0..MaxNodes
  /\ phase \in {"init", "up", "down"}
  /\ timer \in [pc : {"off", "sleep", "check"}, now : Clock, wait : 0..Period]
  /\ silence \in [Peers -> 0..Deaf]
  /\ told \subseteq Peers

(* ctx->node_count, which the AI's system prompt reports without the lock, *)
(* is the number of nodes that are listed.                                 *)
NodeCountExact == nodeCount = Cardinality(OnlineSlots)

(* A node has one slot, however its slots of earlier memberships were      *)
(* reused, and this node itself never times out.                           *)
OneSlotPerNode ==
  /\ \A i, j \in OnlineSlots : nodes[i].id = nodes[j].id => i = j
  /\ phase # "init" => Listed(Self)

(* A peer that has fallen silent is off the list within one timeout and    *)
(* one period, also when the clock wraps in between: RPCs stop going to a  *)
(* node that is dead.                                                      *)
SilentNodesLeave ==
  phase = "up" => \A p \in Peers : Listed(p) => silence[p] <= MaxSilence

(* "picks the least-loaded capable node": of the listed other nodes that   *)
(* are capable one with the least load, none only if there is none; so a   *)
(* call never goes to the node itself or to one that has left.             *)
LeastLoaded ==
  LET able == {p \in Capable : Listed(p)}
  IN  IF able = {} THEN FindBestNode = 0
      ELSE \E p \in able : /\ Online(p) = {FindBestNode}
                           /\ \A q \in able : LoadOf[p] <= LoadOf[q]

(* "node 0x%08x timed out": a node only leaves the list after a silence of *)
(* more than CLAW_SWARM_TIMEOUT_MS.  It may leave just after it was heard  *)
(* (README, known deviations), and no run checks this.                     *)
OnlySilentNodesLeave ==
  [][\A p \in Peers : Listed(p) /\ ~Listed(p)' => silence[p] > Timeout]_vars

(* What the code does keep of that: the only other way to be thrown out is *)
(* to be heard between the timer's look at the clock and its check, when   *)
(* the clock has moved on in between.                                      *)
SilentOrRacedLeave ==
  [][\A p \in Peers : Listed(p) /\ ~Listed(p)' =>
       silence[p] > Timeout \/ silence[p] < Age(tick, timer.now)]_vars

(* "node 0x%08x left": a node the user was told has joined is listed until *)
(* the user is told that it left.  (A return is not always told: a slot    *)
(* remembers last_seen of an earlier membership.)                          *)
LeftIsTold == \A p \in told : Listed(p)

(* The strengthening that makes the properties inductive.  The timer runs  *)
(* while the service is up, and before that the table is empty.            *)
TimerFollowsPhase ==
  /\ phase = "up" <=> timer.pc # "off"
  /\ phase = "init" => OnlineSlots = {}

(* The age of a listed peer's entry is the time since it was last heard.   *)
SeenIsSilence ==
  phase = "up" =>
    \A p \in Peers : \A i \in Online(p) : Age(tick, nodes[i].seen) = silence[p]

(* A check leaves only peers that were silent for at most Timeout when the *)
(* clock was sampled, MaxLate ago; the time since that check, and the lag  *)
(* of the next one, are added to that.                                     *)
SilenceInTime ==
  \A p \in Peers : Listed(p) =>
    /\ timer.pc = "sleep" => silence[p] <= Timeout + MaxLate + Period - timer.wait
    /\ timer.pc = "check" =>
         silence[p] <= Timeout + MaxLate + Period + Age(tick, timer.now)

CheckInTime == timer.pc = "check" => Age(tick, timer.now) <= MaxLate

(* The inductive invariant: counter, slots and announcements are           *)
(* consistent, and an entry tells how long its node has been silent.       *)
NodesInv ==
  /\ TypeOK
  /\ NodeCountExact
  /\ OneSlotPerNode
  /\ LeftIsTold
  /\ TimerFollowsPhase
  /\ SeenIsSilence
  /\ SilenceInTime
  /\ CheckInTime

=============================================================================
