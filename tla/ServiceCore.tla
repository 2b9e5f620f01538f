---------------------------- MODULE ServiceCore ----------------------------
(***************************************************************************)
(* The service core of claw/core/service.c: services register with the     *)
(* names of the services they depend on; claw_service_start_all sorts them *)
(* (Kahn's algorithm, in passes over the registration order), initialises  *)
(* all of them and then starts all of them, each operation of a service    *)
(* possibly failing; claw_service_stop_all sorts again and stops in        *)
(* reverse order.  claw_init and claw_deinit call the two once each, from  *)
(* one thread.                                                             *)
(***************************************************************************)
EXTENDS Integers, Sequences, FiniteSets, SequencesExt

CONSTANTS
  Services,    (* names of all services                                    *)
  Graphs,      (* dependency lists the program may be built with           *)
  MaxServices  (* MAX_SERVICES, the size of the arrays of topo_sort        *)

ASSUME GraphAssumption == Graphs \subseteq [Services -> SUBSET Services]
ASSUME LimitAssumption == MaxServices \in Nat

VARIABLES
  deps,        (* svc->deps, fixed when the program is built               *)
  registry,    (* s_registry, in registration order                        *)
  state,       (* svc->state                                               *)
  phase,       (* what the calling thread is doing                         *)
  goal,        (* which of the two callers of topo_sort is active          *)
  sorted,      (* topo_sort's output so far                                *)
  pos,         (* the loop counter of the phase                            *)
  progress,    (* topo_sort's local                                        *)
  alive,       (* history: services that hold what their init acquired     *)
  leftover     (* history: services whose init failed and kept something   *)

history == <<alive, leftover>>
vars == <<deps, registry, state, phase, goal, sorted, pos, progress, alive, leftover>>
sorting == <<sorted, pos, progress>>

Placed     == ToSet(sorted)
Registered == ToSet(registry)
Active(s)  == state[s] \in {"INITIALIZED", "RUNNING"}

Init ==
  /\ deps \in Graphs
  /\ registry = <<>>
  /\ state = [s \in Services |-> "CREATED"]
  /\ phase = "register"
  /\ goal = "start"
  /\ sorted = <<>> /\ pos = 1 /\ progress = FALSE
  /\ alive = {} /\ leftover = {}

(* Each service is in the linker section, or has a constructor, once.      *)
Register(s) ==
  /\ phase = "register"
  /\ s \notin Registered
  /\ registry' = Append(registry, s)
  /\ UNCHANGED <<deps, state, phase, goal, sorting, history>>

-----------------------------------------------------------------------------
(* topo_sort *)

(* mutant: one service more than the arrays hold                           *)
TooManyByTwo == Len(registry) > MaxServices + 1

TooMany    == Len(registry) > MaxServices
MissingDep == \E s \in Registered : ~(deps[s] \subseteq Registered)

(* Entry of start_all and stop_all: the two checks before the sort.        *)
CallTopoSort(caller) ==
  /\ goal' = caller
  /\ sorted' = <<>> /\ pos' = 1 /\ progress' = FALSE
  /\ phase' = IF ~TooMany /\ ~MissingDep THEN "sort"
              ELSE IF caller = "start" THEN "failed" ELSE "down"
  /\ UNCHANGED <<deps, registry, state, history>>

StartAll == phase = "register" /\ CallTopoSort("start")

(* main ignores the result of claw_init, so stop_all runs in either case.  *)
StopAll == phase \in {"up", "failed"} /\ CallTopoSort("stop")

(* mutant: a placed service is placed again in the next pass               *)
SortVisitTwice ==
  /\ phase = "sort"
  /\ pos <= Len(registry)
  /\ IF deps[registry[pos]] \subseteq Placed
     THEN sorted' = Append(sorted, registry[pos]) /\ progress' = TRUE
     ELSE UNCHANGED <<sorted, progress>>
  /\ pos' = pos + 1
  /\ UNCHANGED <<deps, registry, state, phase, goal, history>>

(* mutant: the pass does not note that it placed something                 *)
SortVisitSilent ==
  /\ phase = "sort"
  /\ pos <= Len(registry)
  /\ LET s == registry[pos]
     IN  IF s \notin Placed /\ deps[s] \subseteq Placed
         THEN sorted' = Append(sorted, s)
         ELSE UNCHANGED sorted
  /\ pos' = pos + 1
  /\ UNCHANGED <<deps, registry, state, phase, goal, progress, history>>

(* One step of the pass over all[]: place a service whose deps are placed. *)
SortVisit ==
  /\ phase = "sort"
  /\ pos <= Len(registry)
  /\ LET s == registry[pos]
     IN  IF s \notin Placed /\ deps[s] \subseteq Placed
         THEN sorted' = Append(sorted, s) /\ progress' = TRUE
         ELSE UNCHANGED <<sorted, progress>>
  /\ pos' = pos + 1
  /\ UNCHANGED <<deps, registry, state, phase, goal, history>>

(* mutant: another pass whether or not the last one made progress          *)
SortNextPassAlways ==
  /\ phase = "sort"
  /\ pos > Len(registry)
  /\ Len(sorted) < Len(registry)
  /\ pos' = 1 /\ progress' = FALSE
  /\ UNCHANGED <<deps, registry, state, phase, goal, sorted, history>>

(* The pass is over and something is left: another pass, if this one       *)
(* placed something, otherwise CLAW_ERR_CYCLE.                             *)
SortNextPass ==
  /\ phase = "sort"
  /\ pos > Len(registry)
  /\ Len(sorted) < Len(registry)
  /\ progress
  /\ pos' = 1 /\ progress' = FALSE
  /\ UNCHANGED <<deps, registry, state, phase, goal, sorted, history>>

SortCycle ==
  /\ phase = "sort"
  /\ pos > Len(registry)
  /\ Len(sorted) < Len(registry)
  /\ ~progress
  /\ phase' = IF goal = "start" THEN "failed" ELSE "down"
  /\ UNCHANGED <<deps, registry, state, goal, sorting, history>>

(* mutant: stop_all walks the order forwards                               *)
SortDoneForwards ==
  /\ phase = "sort"
  /\ pos > Len(registry)
  /\ Len(sorted) = Len(registry)
  /\ IF goal = "start" THEN phase' = "init" /\ pos' = 1 /\ UNCHANGED sorted
     ELSE phase' = "stop" /\ pos' = Len(sorted) /\ sorted' = Reverse(sorted)
  /\ UNCHANGED <<deps, registry, state, goal, progress, history>>

SortDone ==
  /\ phase = "sort"
  /\ pos > Len(registry)
  /\ Len(sorted) = Len(registry)
  /\ IF goal = "start" THEN phase' = "init" /\ pos' = 1
                       ELSE phase' = "stop" /\ pos' = Len(sorted)
  /\ UNCHANGED <<deps, registry, state, goal, sorted, progress, history>>

-----------------------------------------------------------------------------
(* claw_service_start_all: the init loop, then the start loop              *)

SetState(s, st) == state' = [state EXCEPT ![s] = st]

(* A dependency earlier in the order has failed: the service is skipped.   *)
SkipInit ==
  /\ phase = "init" /\ pos <= Len(sorted)
  /\ \E j \in 1..(pos - 1) :
       sorted[j] \in deps[sorted[pos]] /\ state[sorted[j]] = "STOPPED"
  /\ SetState(sorted[pos], "STOPPED")
  /\ pos' = pos + 1
  /\ UNCHANGED <<deps, registry, phase, goal, sorted, progress, history>>

(* The outcomes of an init operation.  One that fails releases what it     *)
(* acquired, or keeps some of it: ai_engine_init its queue when there is   *)
(* no thread for the worker, heartbeat_init its locks when the scheduler   *)
(* has no slot.  The core calls no stop operation then, and forgets it.    *)
RunInit(s) ==
  \/ /\ SetState(s, "INITIALIZED")
     /\ alive' = alive \cup {s}
     /\ UNCHANGED leftover
  \/ /\ SetState(s, "STOPPED")
     /\ leftover' \in {leftover, leftover \cup {s}}
     /\ UNCHANGED alive

(* mutant: a service is initialised although a dependency has failed       *)
DoInitAnyway ==
  /\ phase = "init" /\ pos <= Len(sorted)
  /\ RunInit(sorted[pos])
  /\ pos' = pos + 1
  /\ UNCHANGED <<deps, registry, phase, goal, sorted, progress>>

DoInit ==
  /\ phase = "init" /\ pos <= Len(sorted)
  /\ \A j \in 1..(pos - 1) :
       sorted[j] \in deps[sorted[pos]] => state[sorted[j]] # "STOPPED"
  /\ RunInit(sorted[pos])
  /\ pos' = pos + 1
  /\ UNCHANGED <<deps, registry, phase, goal, sorted, progress>>

InitDone ==
  /\ phase = "init" /\ pos > Len(sorted)
  /\ phase' = "start" /\ pos' = 1
  /\ UNCHANGED <<deps, registry, state, goal, sorted, progress, history>>

SkipStart ==
  /\ phase = "start" /\ pos <= Len(sorted)
  /\ state[sorted[pos]] # "INITIALIZED"
  /\ pos' = pos + 1
  /\ UNCHANGED <<deps, registry, state, phase, goal, sorted, progress, history>>

(* mutant: a failed start is not followed by the stop operation            *)
DoStartNoCleanup ==
  /\ phase = "start" /\ pos <= Len(sorted)
  /\ state[sorted[pos]] = "INITIALIZED"
  /\ SetState(sorted[pos], "RUNNING") \/ SetState(sorted[pos], "STOPPED")
  /\ pos' = pos + 1
  /\ UNCHANGED <<deps, registry, phase, goal, sorted, progress, history>>

(* A service without a start operation is running at once; when start      *)
(* fails, stop cleans up what the two operations acquired.                 *)
DoStart ==
  /\ phase = "start" /\ pos <= Len(sorted)
  /\ state[sorted[pos]] = "INITIALIZED"
  /\ \/ /\ SetState(sorted[pos], "RUNNING")
        /\ UNCHANGED alive
     \/ /\ SetState(sorted[pos], "STOPPED")
        /\ alive' = alive \ {sorted[pos]}
  /\ pos' = pos + 1
  /\ UNCHANGED <<deps, registry, phase, goal, sorted, progress, leftover>>

StartDone ==
  /\ phase = "start" /\ pos > Len(sorted)
  /\ phase' = "up"
  /\ UNCHANGED <<deps, registry, state, goal, sorting, history>>

-----------------------------------------------------------------------------
(* claw_service_stop_all *)

SkipStop ==
  /\ phase = "stop" /\ pos >= 1
  /\ ~Active(sorted[pos])
  /\ pos' = pos - 1
  /\ UNCHANGED <<deps, registry, state, phase, goal, sorted, progress, history>>

(* STOPPING while the stop operation runs ...                              *)
BeginStop ==
  /\ phase = "stop" /\ pos >= 1
  /\ Active(sorted[pos])
  /\ SetState(sorted[pos], "STOPPING")
  /\ phase' = "stopping"
  /\ UNCHANGED <<deps, registry, goal, sorting, history>>

(* ... and STOPPED when it has returned.                                   *)
EndStop ==
  /\ phase = "stopping"
  /\ SetState(sorted[pos], "STOPPED")
  /\ alive' = alive \ {sorted[pos]}
  /\ phase' = "stop"
  /\ pos' = pos - 1
  /\ UNCHANGED <<deps, registry, goal, sorted, progress, leftover>>

StopDone ==
  /\ phase = "stop" /\ pos < 1
  /\ phase' = "down"
  /\ UNCHANGED <<deps, registry, state, goal, sorting, history>>

-----------------------------------------------------------------------------

TopoSort   == SortVisit \/ SortNextPass \/ SortCycle \/ SortDone
StartLoops == SkipInit \/ DoInit \/ InitDone \/ SkipStart \/ DoStart \/ StartDone
StopLoop   == SkipStop \/ BeginStop \/ EndStop \/ StopDone
Work       == TopoSort \/ StartLoops \/ StopLoop

Next == (\E s \in Services : Register(s)) \/ StartAll \/ StopAll \/ Work

Spec == Init /\ [][Next]_vars

(* The calling thread goes on; init, start and stop operations return.     *)
FairSpec == Spec /\ WF_vars(Work)

-----------------------------------------------------------------------------
(* Properties *)

States == {"CREATED", "INITIALIZED", "RUNNING", "STOPPING", "STOPPED"}
Phases == {"register", "sort", "init", "start", "up", "stop", "stopping",
           "failed", "down"}

TypeOK ==
  /\ deps \in Graphs
  /\ registry \in Seq(Services)
  /\ state \in [Services -> States]
  /\ phase \in Phases
  /\ goal \in {"start", "stop"}
  /\ sorted \in Seq(Services) /\ Len(sorted) <= MaxServices
  /\ pos \in 0..(Len(registry) + 1)
  /\ progress \in BOOLEAN
  /\ alive \subseteq Services
  /\ leftover \subseteq Services

(* topo_sort places a service once and after everything it depends on, so  *)
(* the fixed-size output array is never overrun.                           *)
SortedRespectsDeps ==
  /\ IsInjective(sorted)
  /\ Placed \subseteq Registered
  /\ \A i \in DOMAIN sorted :
       deps[sorted[i]] \subseteq {sorted[j] : j \in 1..(i - 1)}

(* CLAW_ERR_CYCLE is returned exactly for the graphs that cannot be        *)
(* ordered: what is left when the sort gives up is a set in which every    *)
(* service waits for another one of the set.                               *)
CycleIsReal ==
  [][SortCycle =>
       LET left == Registered \ Placed
       IN  left # {} /\ \A s \in left : deps[s] \cap left # {}]_vars

(* "a service whose dependency is STOPPED cannot safely initialize": when  *)
(* the init of a service succeeds, all its dependencies hold what their    *)
(* own init acquired.                                                      *)
InitAfterDeps ==
  [][\A s \in alive' \ alive : deps[s] \subseteq alive]_vars

(* stop_all never stops a service before those that depend on it: while a  *)
(* stop operation runs, no dependent holds anything any more.              *)
StopAfterDependents ==
  phase = "stopping" =>
    \A s \in alive : sorted[pos] \in deps[s] => s = sorted[pos]

(* The state the core records is the truth about what inits have acquired: *)
(* the services that are INITIALIZED, RUNNING or STOPPING are exactly those *)
(* whose init succeeded and that have not been stopped since, so no        *)
(* service is stopped twice or forgotten, whatever other inits and starts  *)
(* fail.  What stop_all leaves is what failed inits kept, and only these:  *)
(* such a service is STOPPED like one that holds nothing.                  *)
StateIsTruth ==
  /\ alive = {s \in Services : state[s] \in {"INITIALIZED", "RUNNING", "STOPPING"}}
  /\ \A s \in leftover : state[s] = "STOPPED"
  /\ phase = "down" => alive = {}

(* What makes them inductive.  The order is complete when the loops over   *)
(* it begin, and the loops have reached what their counter says.           *)
RegisteredOnce == IsInjective(registry)

Checked ==
  /\ phase = "register" => sorted = <<>>
  /\ sorted # <<>> \/ phase \notin {"register", "failed", "down"} =>
       ~TooMany /\ ~MissingDep

AllPlaced ==
  phase \in {"init", "start", "up", "stop", "stopping"} => Placed = Registered

CounterInRange ==
  /\ phase = "sort" => pos \in 1..(Len(registry) + 1)
  /\ phase \in {"init", "start"} => pos \in 1..(Len(sorted) + 1)
  /\ phase = "stop" => pos \in 0..Len(sorted)
  /\ phase = "stopping" => pos \in 1..Len(sorted)

NotInitialised ==
  phase = "register" \/ (phase = "sort" /\ goal = "start") =>
    \A s \in Services : state[s] = "CREATED"

InitReached ==
  phase = "init" =>
    \A i \in DOMAIN sorted :
      state[sorted[i]] \in IF i < pos THEN {"INITIALIZED", "STOPPED"} ELSE {"CREATED"}

StopReached ==
  phase \in {"stop", "stopping"} =>
    \A i \in (pos + 1)..Len(sorted) : sorted[i] \notin alive

StoppingIsCurrent ==
  \A s \in Services :
    state[s] = "STOPPING" => phase = "stopping" /\ s = sorted[pos]

(* A pass that has placed nothing has seen nothing it could place.         *)
PassFruitless ==
  phase = "sort" /\ ~progress =>
    \A i \in 1..(pos - 1) :
      registry[i] \in Placed \/ ~(deps[registry[i]] \subseteq Placed)

(* stop_all sorts the same graph again: as something was initialised, that *)
(* cannot fail, and everything that is alive is in the new order.          *)
Orderable ==
  \E order \in [1..Len(registry) -> Registered] :
    /\ \A s \in Registered : \E i \in 1..Len(registry) : order[i] = s
    /\ \A i \in 1..Len(registry) :
         deps[order[i]] \subseteq {order[j] : j \in 1..(i - 1)}

AliveOrderable ==
  alive # {} => alive \subseteq Registered /\ ~TooMany /\ ~MissingDep /\ Orderable

(* What every state of the service core satisfies: the types, the order of *)
(* the sort, of the stops, and the truth of the recorded states; the rest  *)
(* is what their proof needs.                                              *)
ServiceInv ==
  /\ TypeOK
  /\ SortedRespectsDeps
  /\ StopAfterDependents
  /\ StateIsTruth
  /\ RegisteredOnce
  /\ Checked
  /\ AllPlaced
  /\ CounterInRange
  /\ NotInitialised
  /\ InitReached
  /\ StopReached
  /\ StoppingIsCurrent
  /\ PassFruitless
  /\ AliveOrderable

(* start_all and stop_all return whatever the graph looks like and         *)
(* whatever fails.                                                         *)
CallsReturn == phase \in {"sort", "init", "start", "stop", "stopping"}
                 ~> phase \in {"up", "failed", "down"}

=============================================================================
