------------------------------ MODULE SwarmRpc ------------------------------
(***************************************************************************)
(* Remote tool invocation of the swarm (swarm_rpc_call and the receiver    *)
(* thread of claw/services/swarm/swarm.c): one caller, the AI worker,      *)
(* which sends a request, waits on a semaphore, and tries again after a    *)
(* timeout; its receiver thread, which stores the answer that carries the  *)
(* pending sequence number and gives the semaphore; and the node that      *)
(* executes requests one at a time as they come.                           *)
(*                                                                         *)
(* The network loses, delays, reorders and repeats datagrams.  Time is     *)
(* abstracted: a wait times out at any moment at which the semaphore is    *)
(* not available.                                                          *)
(*                                                                         *)
(* Sequence numbers count modulo SeqW (uint16_t: SeqW = 2^16).  A datagram *)
(* is taken to be lost when its number comes round again: that is 2^16     *)
(* requests, hence at least as many round trips, later.                    *)
(***************************************************************************)
EXTENDS Integers, FiniteSets

CONSTANTS
  Tools,         (* tool names the AI may ask for                          *)
  HereTools,     (* registered on the caller's node                        *)
  ThereTools,    (* registered on the executing node                       *)
  MaxRetries,    (* SWARM_RPC_MAX_RETRIES                                  *)
  Port,          (* CLAW_SWARM_PORT                                        *)
  LittleEndian,  (* byte order of the nodes                                *)
  MaxRepeats,    (* bound: datagrams the network delivers twice            *)
  MaxTokens,     (* bound: semaphore count at which answers stop coming    *)
  SeqW           (* number of values of rpc_seq                            *)

MaxPort == 65535
Ports   == 0..MaxPort

ASSUME ToolAssumption  == HereTools \cup ThereTools \subseteq Tools
ASSUME RetryAssumption == MaxRetries \in Nat \ {0} /\ MaxTokens \in Nat \ {0}
ASSUME SeqAssumption   == SeqW \in Nat /\ SeqW > MaxRetries
ASSUME PortAssumption  == Port \in Ports /\ LittleEndian \in BOOLEAN /\ MaxRepeats \in Nat

Seqs     == 0..(SeqW - 1)
Statuses == {"OK", "NOT_FOUND", "ERROR"}
NoResult == -1

VARIABLES
  seq,         (* rpc_seq                                                  *)
  pending,     (* rpc_pending_seq                                          *)
  status,      (* rpc_status                                               *)
  result,      (* rpc_result: the request it answers, or NoResult          *)
  tokens,      (* count of rpc_sem                                         *)
  caller,      (* [pc, attempt, tool]                                      *)
  net,         (* datagrams under way                                      *)
  executed,    (* history: requests the node has executed                  *)
  repeated     (* history: datagrams the network has delivered twice       *)

rpcVars == <<seq, pending, status, result, tokens, caller, net,
             executed, repeated>>

-----------------------------------------------------------------------------
(* The node table's port.  heartbeat_send stores the port in host order,   *)
(* the receiver applies ntohs, swarm_rpc_call htons.                       *)

Swap(x) == (x % 256) * 256 + x \div 256
Ntohs(x) == IF LittleEndian THEN Swap(x) ELSE x

TargetPort == Ntohs(Port)

Request(s, t)   == [type |-> "request", seq |-> s, tool |-> t, port |-> TargetPort]
Response(s, st) == [type |-> "response", seq |-> s, status |-> st]

At(pc)   == caller.pc = pc
Goto(pc) == caller' = [caller EXCEPT !.pc = pc]

Idle == [pc |-> "idle", attempt |-> 0, tool |-> "none"]

RpcInit ==
  /\ seq = 0 /\ pending = 0
  /\ status = "OK" /\ result = NoResult
  /\ tokens = 0
  /\ caller = Idle
  /\ net = {}
  /\ executed = {} /\ repeated = 0

-----------------------------------------------------------------------------
(* The caller *)

(* The AI engine asks the swarm for tools it does not find registered, so  *)
(* the test of the caller's own CLAW_TOOL_LOCAL_ONLY flag never applies.   *)
(* A call that finds no capable node online returns at once.               *)
Call(t) ==
  /\ At("idle")
  /\ t \notin HereTools
  /\ caller' = [pc |-> "prepare", attempt |-> 1, tool |-> t]
  /\ UNCHANGED <<seq, pending, status, result, tokens, net, executed, repeated>>

(* mutant: the number does not wrap                                        *)
NextSeqWide == seq + 1

NextSeq == (seq + 1) % SeqW

(* mutant: the answer of the last request stays in the context             *)
PrepareStale ==
  /\ At("prepare")
  /\ seq' = NextSeq
  /\ pending' = NextSeq
  /\ Goto("transmit")
  /\ net' = {m \in net : m.seq # NextSeq}
  /\ executed' = executed \ {NextSeq}
  /\ UNCHANGED <<status, result, tokens, repeated>>

(* Under rpc_lock: a new number, and the answer of the last one forgotten. *)
Prepare ==
  /\ At("prepare")
  /\ seq' = NextSeq
  /\ pending' = NextSeq
  /\ status' = "ERROR" /\ result' = NoResult
  /\ Goto("transmit")
  /\ net' = {m \in net : m.seq # NextSeq}
  /\ executed' = executed \ {NextSeq}
  /\ UNCHANGED <<tokens, repeated>>

(* sendto, whose failure is not noticed                                    *)
Transmit ==
  /\ At("transmit")
  /\ Goto("wait")
  /\ net' = net \cup {Request(seq, caller.tool)}
  /\ UNCHANGED <<seq, pending, status, result, tokens, executed, repeated>>

(* claw_sem_take *)
Take ==
  /\ At("wait") /\ tokens > 0
  /\ tokens' = tokens - 1
  /\ Goto("read")
  /\ UNCHANGED <<seq, pending, status, result, net, executed, repeated>>

(* mutant: no attempt is the last one                                      *)
TimeoutForEver ==
  /\ At("wait") /\ tokens = 0
  /\ Goto("backoff")
  /\ UNCHANGED <<seq, pending, status, result, tokens, net, executed, repeated>>

WaitTimesOut ==
  /\ At("wait") /\ tokens = 0
  /\ IF caller.attempt < MaxRetries THEN Goto("backoff") ELSE caller' = Idle
  /\ UNCHANGED <<seq, pending, status, result, tokens, net, executed, repeated>>

BackoffEnds ==
  /\ At("backoff")
  /\ caller' = [caller EXCEPT !.pc = "prepare",
                              !.attempt = IF @ < MaxRetries THEN @ + 1 ELSE @]
  /\ UNCHANGED <<seq, pending, status, result, tokens, net, executed, repeated>>

(* Under rpc_lock: the result is copied, the status decides the return.    *)
Return ==
  /\ At("read")
  /\ caller' = Idle
  /\ UNCHANGED <<seq, pending, status, result, tokens, net, executed, repeated>>

CallerStep == Prepare \/ Transmit \/ Take \/ WaitTimesOut \/ BackoffEnds \/ Return

-----------------------------------------------------------------------------
(* The executing node: handle_rpc_request *)

(* The network delivers m, and more datagrams come into being.             *)
Deliver(m, more) ==
  \/ net' = (net \ {m}) \cup more /\ UNCHANGED repeated
  \/ repeated < MaxRepeats /\ net' = net \cup more /\ repeated' = repeated + 1

Execute(m) ==
  /\ m.type = "request"
  /\ m.port = Port
  /\ IF m.tool \in ThereTools
     THEN /\ executed' = executed \cup {m.seq}
          /\ \E st \in {"OK", "ERROR"} : Deliver(m, {Response(m.seq, st)})
     ELSE Deliver(m, {Response(m.seq, "NOT_FOUND")}) /\ UNCHANGED executed
  /\ UNCHANGED <<seq, pending, status, result, tokens, caller>>

(* The caller's receiver thread: handle_rpc_response, under rpc_lock       *)

Accept(m) == m.seq = pending

(* mutant: the semaphore is given whatever the answer is to                *)
ReceiveGive(m) ==
  /\ m.type = "response"
  /\ tokens < MaxTokens
  /\ Deliver(m, {})
  /\ IF Accept(m) THEN status' = m.status /\ result' = m.seq
                  ELSE UNCHANGED <<status, result>>
  /\ tokens' = tokens + 1
  /\ UNCHANGED <<seq, pending, caller, executed>>

ReceiveAnswer(m) ==
  /\ m.type = "response"
  /\ tokens < MaxTokens
  /\ Deliver(m, {})
  /\ IF Accept(m)
     THEN status' = m.status /\ result' = m.seq /\ tokens' = tokens + 1
     ELSE UNCHANGED <<status, result, tokens>>
  /\ UNCHANGED <<seq, pending, caller, executed>>

Lose(m) ==
  /\ net' = net \ {m}
  /\ UNCHANGED <<seq, pending, status, result, tokens, caller, executed, repeated>>

RpcNext ==
  \/ \E t \in Tools : Call(t)
  \/ CallerStep
  \/ \E m \in net : Execute(m) \/ ReceiveAnswer(m) \/ Lose(m)

RpcSpec == RpcInit /\ [][RpcNext]_rpcVars

(* The caller's thread runs and its waits end; nothing is asked of the     *)
(* network or of the other node.                                           *)
RpcFairSpec == RpcSpec /\ WF_rpcVars(CallerStep)

-----------------------------------------------------------------------------
(* Properties *)

Datagrams ==
  [type : {"request"}, seq : Seqs, tool : Tools, port : Ports]
    \cup [type : {"response"}, seq : Seqs, status : Statuses]

RpcTypeOK ==
  /\ seq \in Seqs /\ pending \in Seqs
  /\ status \in Statuses
  /\ result \in Seqs \cup {NoResult}
  /\ tokens \in 0..MaxTokens
  /\ caller \in [pc : {"idle", "prepare", "transmit", "wait", "read", "backoff"},
                 attempt : 0..MaxRetries, tool : Tools \cup {"none"}]
  /\ net \subseteq Datagrams
  /\ executed \subseteq Seqs /\ repeated \in 0..MaxRepeats

(* A call that returns CLAW_OK returns the result of its own request,      *)
(* executed by the node, however many answers to earlier attempts and      *)
(* earlier calls arrive late: a stale semaphore count can make the caller  *)
(* read too early, but never read somebody else's answer as a success.     *)
OkIsMine ==
  At("read") /\ status = "OK" => result = seq /\ seq \in executed

(* Late answers do not pile up in the semaphore: besides what the network  *)
(* repeats, at most the answer to the request before and the answer to the *)
(* pending one are counted.                                                *)
TokensBounded == tokens <= 2 + repeated

(* What makes them inductive.  From the moment a request is sent until the *)
(* next one is prepared, a stored success is the answer to that request;   *)
(* and a success is under way only when the node has executed the request. *)
StoredIsMine ==
  /\ pending = seq
  /\ At("idle") \/ caller.tool \in Tools
  /\ status = "OK" /\ ~At("idle") /\ ~At("prepare") => result = seq /\ seq \in executed

SuccessIsExecuted ==
  \A m \in net : m.type = "response" /\ m.status = "OK" => m.seq \in executed

(* A request makes one token at most, unless a datagram is repeated: it is *)
(* about to be sent, or under way, or its answer is.  Taking a token, or   *)
(* finding none, leaves room for the next request's.                       *)
InFlight == {m \in net : m.seq = seq}
Unsent   == IF At("transmit") THEN 1 ELSE 0

CreditBounded ==
  /\ IsFiniteSet(net)
  /\ Cardinality(InFlight) + Unsent <= 1 + repeated
  /\ tokens + Cardinality(InFlight) + Unsent
       <= (IF At("transmit") \/ At("wait") THEN 2 ELSE 1) + repeated

RpcCore ==
  /\ RpcTypeOK
  /\ StoredIsMine
  /\ SuccessIsExecuted
  /\ CreditBounded

(* What every state of a call satisfies: the two above, and the inductive  *)
(* invariant they follow from.                                             *)
RpcInv ==
  /\ RpcCore
  /\ OkIsMine
  /\ TokensBounded

(* A call returns, whatever becomes of the datagrams.                      *)
CallReturns == ~At("idle") ~> At("idle")

(* "remote tool invocation across nodes": a request is sent to the port    *)
(* the node listens on.  It is not: the port is swapped twice on one side  *)
(* only (README, known deviations), and no run checks this.                *)
RequestsReachPort == \A m \in net : m.type = "request" => m.port = Port

=============================================================================
