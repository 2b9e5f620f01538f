------------------------- MODULE ServiceCoreProofs -------------------------
(***************************************************************************)
(* The order of the service core for every set of services and every graph *)
(* of dependencies: what topo_sort returns and refuses, what start_all     *)
(* initialises and stop_all stops, whatever fails.                         *)
(***************************************************************************)
EXTENDS ServiceCore, SeqLemmas, TLAPS

LEMMA ListLengths ==
  ASSUME ServiceInv
  PROVE  /\ Len(sorted) \in Nat /\ Len(registry) \in Nat
         /\ DOMAIN sorted = 1..Len(sorted) /\ DOMAIN registry = 1..Len(registry)
BY LenProperties DEF ServiceInv, TypeOK

(* The lengths of the two lists, and of any order that fits the registry.  *)
LEMMA Lengths ==
  ASSUME ServiceInv
  PROVE  /\ Len(sorted) \in Nat /\ Len(registry) \in Nat
         /\ DOMAIN sorted = 1..Len(sorted) /\ DOMAIN registry = 1..Len(registry)
         /\ Len(sorted) <= Len(registry)
         /\ Len(sorted) = Len(registry) <=> Placed = Registered
         /\ \A i \in 1..Len(sorted) :
              /\ sorted[i] \in Placed /\ sorted[i] \in Services
              /\ \A j \in 1..Len(sorted) : sorted[i] = sorted[j] => i = j
         /\ \A i \in 1..Len(registry) :
              registry[i] \in Registered /\ registry[i] \in Services
<1>1. /\ sorted \in Seq(Services) /\ registry \in Seq(Services)
      /\ IsInjective(sorted) /\ IsInjective(registry)
      /\ ToSet(sorted) \subseteq ToSet(registry)
  BY DEF ServiceInv, TypeOK, SortedRespectsDeps, RegisteredOnce, Placed, Registered
<1>2. /\ DOMAIN sorted = 1..Len(sorted) /\ DOMAIN registry = 1..Len(registry)
      /\ Len(sorted) \in Nat /\ Len(registry) \in Nat
  BY <1>1, LenProperties
<1>3. /\ Len(sorted) <= Len(registry)
      /\ Len(sorted) = Len(registry) <=> Placed = Registered
  BY <1>1, InjectiveSubset DEF Placed, Registered
<1>4. /\ \A i \in 1..Len(sorted) : sorted[i] \in Placed /\ sorted[i] \in Services
      /\ \A i \in 1..Len(registry) :
           registry[i] \in Registered /\ registry[i] \in Services
  BY <1>1, <1>2, ElementOfSeq DEF Placed, Registered, ToSet
<1>5. \A i, j \in 1..Len(sorted) : sorted[i] = sorted[j] => i = j
  BY <1>1, <1>2 DEF IsInjective
<1>6. QED
  BY <1>2, <1>3, <1>4, <1>5

(* A service that is placed or registered, by its position.                *)
LEMMA Position ==
  ASSUME ServiceInv
  PROVE  /\ \A s \in Placed : s \in Services /\ \E i \in 1..Len(sorted) : sorted[i] = s
         /\ \A s \in Registered :
              s \in Services /\ \E i \in 1..Len(registry) : registry[i] = s
         /\ \A s \in Services : deps[s] \subseteq Services
<1>1. deps \in [Services -> SUBSET Services]
  BY GraphAssumption DEF ServiceInv, TypeOK
<1>2. QED
  BY <1>1, Lengths DEF Placed, Registered, ToSet

LEMMA InitInv == Init => ServiceInv
<1> SUFFICES ASSUME Init PROVE ServiceInv
  OBVIOUS
<1>1. TypeOK
  <2>1. /\ <<>> \in Seq(Services) /\ Len(<<>>) = 0
        /\ [s \in Services |-> "CREATED"] \in [Services -> States]
    BY DEF States
  <2>2. /\ registry \in Seq(Services) /\ sorted \in Seq(Services)
        /\ state \in [Services -> States] /\ Len(registry) = 0 /\ Len(sorted) = 0
    BY <2>1 DEF Init
  <2>3. Len(sorted) <= MaxServices /\ pos \in 0..(Len(registry) + 1)
    BY <2>2, LimitAssumption DEF Init
  <2>4. QED
    BY <2>2, <2>3 DEF Init, TypeOK, Phases
<1>2. Placed = {} /\ DOMAIN sorted = {} /\ DOMAIN registry = {}
  BY DEF Init, Placed, ToSet
<1>3. SortedRespectsDeps /\ RegisteredOnce
  BY <1>2 DEF SortedRespectsDeps, RegisteredOnce, IsInjective
<1>4. StateIsTruth
  BY DEF Init, StateIsTruth
<1>5. /\ StopAfterDependents /\ Checked /\ AllPlaced /\ CounterInRange
      /\ NotInitialised /\ InitReached /\ StopReached /\ StoppingIsCurrent /\ PassFruitless
      /\ AliveOrderable
  BY DEF Init, StopAfterDependents, Checked, AllPlaced, CounterInRange,
         NotInitialised, InitReached, StopReached, StoppingIsCurrent, PassFruitless, AliveOrderable
<1>6. QED
  BY <1>1, <1>3, <1>4, <1>5 DEF ServiceInv

(* A service registers once, while nothing is sorted.                      *)
LEMMA RegisterInv ==
  ASSUME ServiceInv, NEW s \in Services, Register(s)
  PROVE  ServiceInv'
<1>1. /\ phase = "register" /\ sorted = <<>> /\ alive = {}
      /\ registry \in Seq(Services) /\ IsInjective(registry)
  BY Lengths DEF ServiceInv, TypeOK, Checked, RegisteredOnce, StateIsTruth,
         NotInitialised, Register, history
<1>2. /\ registry' \in Seq(Services) /\ Len(registry') = Len(registry) + 1
      /\ IsInjective(registry') /\ Registered' = Registered \cup {s}
  BY <1>1, AppendElements, AppendProperties DEF Register, Registered, history
<1>3. TypeOK'
  BY <1>2, Lengths DEF ServiceInv, TypeOK, Register, sorting, history
<1>4. QED
  BY <1>1, <1>2, <1>3
     DEF ServiceInv, SortedRespectsDeps, StopAfterDependents, StateIsTruth, RegisteredOnce,
         Checked, AllPlaced, CounterInRange, NotInitialised, InitReached, StopReached, StoppingIsCurrent,
         PassFruitless, AliveOrderable, Register, sorting, Placed, ToSet, Active, history

-----------------------------------------------------------------------------
(* topo_sort *)

(* No service is stopping, and the step changes no state.                  *)
LEMMA NoneStopping ==
  ASSUME ServiceInv, phase # "stopping", UNCHANGED state
  PROVE  StoppingIsCurrent'
BY DEF ServiceInv, StoppingIsCurrent

(* What is alive was initialised in an order, and so can be ordered again: *)
(* when the checks fail, nothing is alive.                                 *)
LEMMA CallTopoSortInv ==
  ASSUME ServiceInv, NEW caller \in {"start", "stop"}, CallTopoSort(caller),
         \/ phase = "register" /\ caller = "start"
         \/ phase \in {"up", "failed"} /\ caller = "stop"
  PROVE  ServiceInv'
<1>1. sorted' = <<>> /\ Placed' = {} /\ DOMAIN sorted' = {} /\ Len(sorted') = 0
  BY DEF CallTopoSort, Placed, ToSet, history
<1>2. phase' = "down" => alive = {}
  BY DEF CallTopoSort, ServiceInv, AliveOrderable, history
<1>3. phase = "register" => \A s \in Services : state[s] = "CREATED"
  BY DEF ServiceInv, NotInitialised
<1>4. TypeOK'
  <2>1. Len(sorted') <= MaxServices /\ sorted' \in Seq(Services)
    BY <1>1, LimitAssumption
  <2>2. pos' \in 0..(Len(registry') + 1)
    <3>1. Len(registry) \in Nat
      BY ListLengths
    <3>2. QED
      BY <3>1 DEF CallTopoSort, history
  <2>3. phase' \in Phases /\ goal' \in {"start", "stop"} /\ progress' \in BOOLEAN
    BY DEF CallTopoSort, Phases, history
  <2>4. QED
    BY <2>1, <2>2, <2>3 DEF ServiceInv, TypeOK, CallTopoSort, history
<1>5. /\ Registered' = Registered /\ (TooMany <=> TooMany') /\ (MissingDep <=> MissingDep')
      /\ (Orderable <=> Orderable')
  BY DEF CallTopoSort, Registered, TooMany, MissingDep, Orderable, history
<1>6. SortedRespectsDeps' /\ RegisteredOnce'
  BY <1>1, <1>5 DEF ServiceInv, SortedRespectsDeps, RegisteredOnce, IsInjective, CallTopoSort, history
<1>7. StateIsTruth' /\ AliveOrderable'
  BY <1>2, <1>5 DEF ServiceInv, StateIsTruth, AliveOrderable, CallTopoSort, history
<1>8. Checked' /\ NotInitialised'
  BY <1>1, <1>3, <1>5 DEF Checked, NotInitialised, CallTopoSort, history
<1>9. /\ phase' \in {"sort", "failed", "down"} /\ pos' = 1
      /\ 1 \in 1..(Len(registry') + 1) /\ 1..(1 - 1) = {}
  <2>1. phase' \in {"sort", "failed", "down"} /\ pos' = 1 /\ registry' = registry
    BY DEF CallTopoSort, history
  <2>2. Len(registry) \in Nat
    BY ListLengths
  <2>3. QED
    BY <2>1, <2>2
<1>11. /\ StopAfterDependents' /\ AllPlaced' /\ CounterInRange' /\ InitReached'
       /\ StopReached' /\ PassFruitless'
  BY <1>9 DEF StopAfterDependents, AllPlaced, CounterInRange, InitReached, StopReached,
              PassFruitless
<1>12. StoppingIsCurrent'
  BY NoneStopping DEF CallTopoSort, history
<1>10. QED
  BY <1>4, <1>6, <1>7, <1>8, <1>11, <1>12 DEF ServiceInv

(* What the steps of the sort leave as it was.                             *)
LEMMA UnchangedGraph ==
  ASSUME UNCHANGED <<deps, registry>>
  PROVE  /\ Registered' = Registered
         /\ (TooMany <=> TooMany') /\ (MissingDep <=> MissingDep')
         /\ (Orderable <=> Orderable')
  BY DEF Registered, TooMany, MissingDep, Orderable

LEMMA SortVisitInv ==
  ASSUME ServiceInv, SortVisit
  PROVE  ServiceInv'
<1>1. /\ pos \in 1..Len(registry) /\ ~TooMany /\ ~MissingDep /\ phase = "sort"
      /\ phase' = phase /\ pos' = pos + 1 /\ UNCHANGED <<deps, registry, state, alive, leftover, goal>>
  <2>1. /\ phase = "sort" /\ pos <= Len(registry) /\ pos' = pos + 1
        /\ UNCHANGED <<deps, registry, state, phase, alive, leftover, goal>>
    BY DEF SortVisit, history
  <2>2. pos \in 1..(Len(registry) + 1) /\ ~TooMany /\ ~MissingDep
    BY <2>1 DEF ServiceInv, CounterInRange, Checked
  <2>3. Len(registry) \in Nat
    BY ListLengths
  <2>4. QED
    BY <2>1, <2>2, <2>3
<1>2. PICK s \in Registered : s = registry[pos] /\ s \in Services
  BY <1>1, Lengths
<1>3. /\ Registered' = Registered /\ ~TooMany' /\ ~MissingDep'
      /\ (Orderable <=> Orderable')
  BY <1>1, UnchangedGraph
<1>4. \/ /\ s \notin Placed /\ deps[s] \subseteq Placed
         /\ sorted' = Append(sorted, s) /\ progress' = TRUE
      \/ /\ s \in Placed \/ ~(deps[s] \subseteq Placed)
         /\ sorted' = sorted /\ progress' = progress
  BY <1>2 DEF SortVisit, history
<1>5. /\ sorted \in Seq(Services) /\ IsInjective(sorted) /\ ToSet(sorted) \subseteq Registered
      /\ registry \in Seq(Services) /\ IsInjective(registry) /\ progress \in BOOLEAN
      /\ DOMAIN sorted = 1..Len(sorted) /\ Len(sorted) \in Nat
  BY Lengths DEF ServiceInv, TypeOK, SortedRespectsDeps, RegisteredOnce, Placed
<1>6. CASE sorted' = sorted /\ progress' = progress /\ (s \in Placed \/ ~(deps[s] \subseteq Placed))
  <2>1. Placed' = Placed
    BY <1>6 DEF Placed
  <2>2. TypeOK' /\ CounterInRange'
    BY <1>1, <1>6, Lengths DEF ServiceInv, TypeOK, CounterInRange
  <2>3. /\ SortedRespectsDeps' /\ StateIsTruth' /\ RegisteredOnce' /\ Checked'
        /\ NotInitialised' /\ AliveOrderable'
    BY <1>1, <1>3, <1>6, <2>1
       DEF ServiceInv, SortedRespectsDeps, StateIsTruth, RegisteredOnce, Checked,
           NotInitialised, AliveOrderable
  <2>4. StopAfterDependents' /\ AllPlaced' /\ InitReached' /\ StopReached'
    BY <1>1 DEF StopAfterDependents, AllPlaced, InitReached, StopReached
  <2>5. PassFruitless'
    <3>1. SUFFICES ASSUME ~progress, NEW i \in 1..pos
                   PROVE  registry[i] \in Placed \/ ~(deps[registry[i]] \subseteq Placed)
      BY <1>1, <1>6, <2>1 DEF PassFruitless
    <3>2. i = pos \/ i \in 1..(pos - 1)
      BY <1>1
    <3>3. QED
      BY <1>1, <1>2, <1>6, <3>1, <3>2 DEF ServiceInv, PassFruitless
  <2>6. QED
    BY <1>1, <2>2, <2>3, <2>4, <2>5, NoneStopping DEF ServiceInv
<1>7. CASE /\ s \notin Placed /\ deps[s] \subseteq Placed
           /\ sorted' = Append(sorted, s) /\ progress' = TRUE
  <2>1. /\ sorted' \in Seq(Services) /\ IsInjective(sorted') /\ Placed' = Placed \cup {s}
        /\ Len(sorted') = Len(sorted) + 1 /\ sorted'[Len(sorted) + 1] = s
        /\ \A i \in 1..Len(sorted) : sorted'[i] = sorted[i]
        /\ DOMAIN sorted' = 1..(Len(sorted) + 1)
    BY <1>2, <1>5, <1>7, AppendElements, AppendProperties DEF Placed
  <2>2. Len(sorted') <= Len(registry)
    BY <1>2, <1>5, <2>1, InjectiveSubset DEF Placed, Registered
  <2>3. TypeOK' /\ CounterInRange'
    BY <1>1, <1>7, <2>1, <2>2, Lengths, LimitAssumption
       DEF ServiceInv, TypeOK, CounterInRange, TooMany
  <2>4. SortedRespectsDeps'
    <3>1. ASSUME NEW i \in 1..(Len(sorted) + 1)
          PROVE  deps[sorted'[i]] \subseteq {sorted'[j] : j \in 1..(i - 1)}
      <4>1. CASE i = Len(sorted) + 1
        <5>1. Placed = {sorted'[j] : j \in 1..Len(sorted)}
          BY <1>5, <2>1 DEF Placed, ToSet
        <5>2. QED
          BY <1>5, <1>7, <2>1, <4>1, <5>1
      <4>2. CASE i # Len(sorted) + 1
        <5>1. i \in 1..Len(sorted) /\ sorted'[i] = sorted[i]
          BY <1>5, <2>1, <4>2
        <5>2. \A j \in 1..(i - 1) : sorted'[j] = sorted[j]
          BY <1>5, <2>1, <5>1
        <5>3. deps[sorted[i]] \subseteq {sorted[j] : j \in 1..(i - 1)}
          BY <1>5, <5>1 DEF ServiceInv, SortedRespectsDeps
        <5>4. QED
          BY <5>1, <5>2, <5>3
      <4>3. QED
        BY <4>1, <4>2
    <3>2. QED
      BY <1>1, <1>2, <1>3, <1>5, <2>1, <3>1 DEF SortedRespectsDeps, Placed
  <2>5. /\ StateIsTruth' /\ RegisteredOnce' /\ Checked' /\ NotInitialised'
        /\ AliveOrderable'
    BY <1>1, <1>3 DEF ServiceInv, StateIsTruth, RegisteredOnce, Checked, NotInitialised,
                      AliveOrderable
  <2>6. /\ StopAfterDependents' /\ AllPlaced' /\ InitReached' /\ StopReached'
        /\ PassFruitless'
    BY <1>1, <1>7 DEF StopAfterDependents, AllPlaced, InitReached, StopReached,
                      PassFruitless
  <2>7. QED
    BY <1>1, <2>3, <2>4, <2>5, <2>6, NoneStopping DEF ServiceInv
<1>8. QED
  BY <1>4, <1>6, <1>7

(* The steps that leave the order alone.                                   *)
LEMMA SameOrder ==
  ASSUME ServiceInv, UNCHANGED <<deps, registry, sorted>>
  PROVE  /\ SortedRespectsDeps' /\ RegisteredOnce' /\ Placed' = Placed /\ Registered' = Registered
         /\ TooMany' = TooMany /\ MissingDep' = MissingDep /\ Orderable' = Orderable
<1>1. Placed' = Placed /\ Registered' = Registered
  BY DEF Placed, Registered
<1>2. TooMany' = TooMany /\ MissingDep' = MissingDep /\ Orderable' = Orderable
  BY <1>1 DEF TooMany, MissingDep, Orderable
<1>3. SortedRespectsDeps' /\ RegisteredOnce'
  BY <1>1 DEF ServiceInv, SortedRespectsDeps, RegisteredOnce
<1>4. QED
  BY <1>1, <1>2, <1>3

(* The types, for a step that leaves the order alone.                      *)
LEMMA SameOrderTypes ==
  ASSUME ServiceInv, UNCHANGED <<deps, registry, sorted>>,
         state' \in [Services -> States], phase' \in Phases, goal' \in {"start", "stop"},
         progress' \in BOOLEAN, alive' \subseteq Services, leftover' \subseteq Services,
         pos' \in 0..(Len(registry) + 1)
  PROVE  TypeOK'
BY DEF ServiceInv, TypeOK

LEMMA SortNextPassInv ==
  ASSUME ServiceInv, SortNextPass
  PROVE  ServiceInv'
<1>1. /\ phase = "sort" /\ phase' = "sort" /\ pos' = 1 /\ progress' = FALSE
      /\ UNCHANGED <<deps, registry, state, goal, sorted, alive, leftover>>
  BY DEF SortNextPass, history
<1>2. 1 \in 0..(Len(registry) + 1) /\ 1 \in 1..(Len(registry) + 1) /\ 1..(1 - 1) = {}
  BY ListLengths
<1>3. TypeOK'
  BY <1>1, <1>2 DEF ServiceInv, TypeOK
<1>4. CounterInRange' /\ PassFruitless'
  BY <1>1, <1>2 DEF CounterInRange, PassFruitless
<1>5. /\ StateIsTruth' /\ Checked' /\ NotInitialised' /\ AliveOrderable'
      /\ StopAfterDependents' /\ AllPlaced' /\ InitReached' /\ StopReached'
  BY <1>1, SameOrder
     DEF ServiceInv, StateIsTruth, Checked, NotInitialised, AliveOrderable,
         StopAfterDependents, AllPlaced, InitReached, StopReached
<1>6. QED
  BY <1>1, <1>3, <1>4, <1>5, SameOrder, NoneStopping DEF ServiceInv

(* When a pass places nothing and something is left, the graph cannot be   *)
(* ordered: in any order the first service left would have been placed.    *)
LEMMA CycleNotOrderable ==
  ASSUME ServiceInv, SortCycle
  PROVE  /\ Registered \ Placed # {}
         /\ \A s \in Registered \ Placed : ~(deps[s] \subseteq Placed)
         /\ ~MissingDep
         /\ ~Orderable
<1>1. /\ phase = "sort" /\ pos > Len(registry) /\ Len(sorted) < Len(registry) /\ ~progress
  BY DEF SortCycle, history
<1>2. Len(sorted) \in Nat /\ Len(registry) \in Nat /\ pos = Len(registry) + 1
  BY <1>1, ListLengths DEF ServiceInv, CounterInRange
<1>3. Registered \ Placed # {} /\ Placed \subseteq Registered
  <2>1. Len(sorted) # Len(registry)
    BY <1>1, <1>2
  <2>2. Placed # Registered
    BY <2>1, Lengths
  <2>3. Placed \subseteq Registered
    BY DEF ServiceInv, SortedRespectsDeps
  <2>4. QED
    BY <2>2, <2>3
<1>4. ASSUME NEW s \in Registered \ Placed PROVE ~(deps[s] \subseteq Placed)
  <2>1. PICK i \in 1..Len(registry) : registry[i] = s
    BY Position
  <2>2. i \in 1..(pos - 1)
    BY <1>2
  <2>3. QED
    BY <1>1, <2>1, <2>2 DEF ServiceInv, PassFruitless
<1>5. ~MissingDep
  BY <1>1 DEF ServiceInv, Checked
<1>6. ASSUME Orderable PROVE FALSE
  <2>1. PICK order \in [1..Len(registry) -> Registered] :
          /\ \A s \in Registered : \E i \in 1..Len(registry) : order[i] = s
          /\ \A i \in 1..Len(registry) :
               deps[order[i]] \subseteq {order[j] : j \in 1..(i - 1)}
    BY <1>6 DEF Orderable
  <2> DEFINE B == {i \in 1..Len(registry) : order[i] \notin Placed}
  <2>2. B \subseteq Nat /\ B # {}
    BY <1>3, <2>1
  <2>3. PICK m \in B : \A k \in B : m <= k
    BY <2>2, LeastElement
  <2>4. m \in 1..Len(registry) /\ order[m] \in Registered \ Placed
    BY <2>3
  <2>5. ASSUME NEW j \in 1..(m - 1) PROVE order[j] \in Placed
    <3>1. j \in 1..Len(registry) /\ ~(m <= j)
      BY <1>2, <2>4
    <3>2. QED
      BY <2>3, <3>1
  <2>6. deps[order[m]] \subseteq Placed
    BY <2>1, <2>4, <2>5
  <2>7. QED
    BY <1>4, <2>4, <2>6
<1>7. QED
  BY <1>3, <1>4, <1>5, <1>6

LEMMA SortCycleInv ==
  ASSUME ServiceInv, SortCycle
  PROVE  ServiceInv'
<1>1. /\ phase = "sort" /\ phase' \in {"failed", "down"}
      /\ UNCHANGED <<deps, registry, state, goal, sorted, pos, progress, alive, leftover>>
  BY DEF SortCycle, sorting, history
<1>2. alive = {}
  BY CycleNotOrderable DEF ServiceInv, AliveOrderable
<1>3. TypeOK'
  BY <1>1 DEF ServiceInv, TypeOK, Phases
<1>4. /\ StateIsTruth' /\ Checked' /\ NotInitialised' /\ AliveOrderable'
      /\ StopAfterDependents' /\ AllPlaced' /\ InitReached' /\ StopReached'
      /\ CounterInRange' /\ PassFruitless'
  BY <1>1, <1>2, SameOrder
     DEF ServiceInv, StateIsTruth, Checked, NotInitialised, AliveOrderable,
         StopAfterDependents, AllPlaced, InitReached, StopReached, CounterInRange,
         PassFruitless
<1>5. QED
  BY <1>1, <1>3, <1>4, SameOrder, NoneStopping DEF ServiceInv

(* The sort ends with everything placed.                                   *)
LEMMA SortDoneInv ==
  ASSUME ServiceInv, SortDone
  PROVE  ServiceInv'
<1>1. /\ phase = "sort" /\ Len(sorted) = Len(registry)
      /\ UNCHANGED <<deps, registry, state, goal, sorted, progress, alive, leftover>>
      /\ \/ goal = "start" /\ phase' = "init" /\ pos' = 1
         \/ goal = "stop" /\ phase' = "stop" /\ pos' = Len(sorted)
  BY DEF SortDone, ServiceInv, TypeOK, history
<1>2. Len(sorted) \in Nat /\ DOMAIN sorted = 1..Len(sorted)
  BY ListLengths
<1>3. Placed = Registered
  BY <1>1, Lengths
<1>4. pos' \in 0..(Len(registry) + 1) /\ phase' \in Phases /\ CounterInRange'
  BY <1>1, <1>2 DEF Phases, CounterInRange
<1>5. TypeOK'
  BY <1>1, <1>4 DEF ServiceInv, TypeOK
<1>6. InitReached'
  <2>1. \A i \in DOMAIN sorted : sorted[i] \in Services /\ ~(i < 1)
    <3>1. \A i \in 1..Len(sorted) : sorted[i] \in Services
      BY Lengths
    <3>2. QED
      BY <1>2, <3>1
  <2>2. QED
    BY <1>1, <2>1 DEF ServiceInv, NotInitialised, InitReached
<1>7. StopReached'
  BY <1>1, <1>2 DEF StopReached
<1>8. /\ StateIsTruth' /\ Checked' /\ NotInitialised' /\ AliveOrderable'
      /\ StopAfterDependents' /\ AllPlaced' /\ PassFruitless'
  BY <1>1, <1>3, SameOrder
     DEF ServiceInv, StateIsTruth, Checked, NotInitialised, AliveOrderable,
         StopAfterDependents, AllPlaced, PassFruitless
<1>9. QED
  BY <1>1, <1>5, <1>4, <1>6, <1>7, <1>8, SameOrder, NoneStopping DEF ServiceInv

-----------------------------------------------------------------------------
(* The loops over the order.                                               *)

(* While a loop runs, the order is complete and shows that there is one.   *)
LEMMA InLoop ==
  ASSUME ServiceInv, phase \in {"init", "start", "up", "stop", "stopping"}
  PROVE  /\ Placed = Registered /\ Len(sorted) = Len(registry)
         /\ ~TooMany /\ ~MissingDep /\ Orderable
<1>1. Placed = Registered /\ ~TooMany /\ ~MissingDep
  BY DEF ServiceInv, AllPlaced, Checked
<1>2. Len(sorted) = Len(registry)
  BY <1>1, Lengths
<1>3. sorted \in [1..Len(registry) -> Registered]
  BY <1>1, <1>2, ListLengths, LenProperties DEF ServiceInv, TypeOK, Placed, ToSet
<1>4. \A s \in Registered : \E i \in 1..Len(registry) : sorted[i] = s
  BY <1>1, <1>2, Position
<1>5. \A i \in 1..Len(registry) :
        deps[sorted[i]] \subseteq {sorted[j] : j \in 1..(i - 1)}
  BY <1>2, ListLengths DEF ServiceInv, SortedRespectsDeps
<1>6. Orderable
  BY <1>3, <1>4, <1>5 DEF Orderable
<1>7. QED
  BY <1>1, <1>2, <1>6

(* What a step inside a loop has to show: the types, the truth of the      *)
(* states, and how far the loop has come.                                  *)
LEMMA LoopStep ==
  ASSUME ServiceInv, UNCHANGED <<deps, registry, goal, sorted, progress>>,
         phase \in {"init", "start", "stop", "stopping"},
         phase' \in {"init", "start", "up", "stop", "stopping"},
         state' \in [Services -> States], alive' \subseteq Registered,
         alive' = {s \in Services : state'[s] \in {"INITIALIZED", "RUNNING", "STOPPING"}},
         \A s \in leftover' : s \in Services /\ state'[s] = "STOPPED",
         pos' \in Nat, CounterInRange', phase' = "up" => pos' = pos,
         InitReached', StopReached', StopAfterDependents', StoppingIsCurrent'
  PROVE  ServiceInv'
<1>1. Len(sorted) = Len(registry) /\ Len(registry) \in Nat
  BY InLoop, ListLengths
<1>2. pos' \in 0..(Len(registry) + 1)
  <2>1. phase' # "up" => pos' \in 0..(Len(registry) + 1)
    BY <1>1 DEF CounterInRange
  <2>2. phase' = "up" => pos' \in 0..(Len(registry) + 1)
    BY DEF ServiceInv, TypeOK
  <2>3. QED
    BY <2>1, <2>2
<1>3. TypeOK'
  <2>1. /\ alive' \subseteq Services /\ leftover' \subseteq Services
        /\ phase' \in Phases
    BY DEF Phases
  <2>2. QED
    BY <1>2, <2>1 DEF ServiceInv, TypeOK
<1>4. StateIsTruth'
  BY DEF StateIsTruth
<1>5. AliveOrderable' /\ AllPlaced' /\ Checked' /\ NotInitialised' /\ PassFruitless'
  <2>1. ~TooMany' /\ ~MissingDep' /\ Orderable' /\ Placed' = Registered' /\ Registered' = Registered
    BY InLoop, SameOrder
  <2>2. AliveOrderable' /\ Checked'
    BY <2>1 DEF AliveOrderable, Checked
  <2>3. AllPlaced' /\ NotInitialised' /\ PassFruitless'
    BY <2>1 DEF AllPlaced, NotInitialised, PassFruitless
  <2>4. QED
    BY <2>2, <2>3
<1>6. QED
  BY <1>3, <1>4, <1>5, SameOrder DEF ServiceInv

(* The service the loop looks at.                                          *)
LEMMA Current ==
  ASSUME ServiceInv, phase \in {"init", "start", "stop", "stopping"},
         pos \in 1..Len(sorted)
  PROVE  sorted[pos] \in Registered /\ sorted[pos] \in Services
<1>1. Placed = Registered
  BY InLoop
<1>2. QED
  BY <1>1, Lengths

(* The init loop: dependencies come before the service, so those that did  *)
(* not fail are alive.                                                     *)
LEMMA InitStepInv ==
  ASSUME ServiceInv, phase = "init", pos <= Len(sorted),
         NEW st \in {"INITIALIZED", "STOPPED"}, SetState(sorted[pos], st),
         alive' = IF st = "INITIALIZED" THEN alive \cup {sorted[pos]} ELSE alive,
         leftover' \subseteq IF st = "STOPPED" THEN leftover \cup {sorted[pos]}
                             ELSE leftover,
         pos' = pos + 1,
         UNCHANGED <<deps, registry, phase, goal, sorted, progress>>
  PROVE  ServiceInv'
<1>1. pos \in 1..Len(sorted) /\ Len(sorted) \in Nat
  BY ListLengths DEF ServiceInv, CounterInRange
<1>2. PICK s \in Services : s = sorted[pos] /\ s \in Registered
  BY <1>1, Current
<1>3. /\ state \in [Services -> States] /\ state' = [state EXCEPT ![s] = st]
      /\ state' \in [Services -> States]
  BY <1>2 DEF ServiceInv, TypeOK, SetState, States
<1>4. state[s] = "CREATED"
  BY <1>1, <1>2, ListLengths DEF ServiceInv, InitReached
<1>5. /\ alive' \subseteq Registered
      /\ alive' = {t \in Services : state'[t] \in {"INITIALIZED", "RUNNING", "STOPPING"}}
      /\ \A t \in leftover' : t \in Services /\ state'[t] = "STOPPED"
  BY <1>2, <1>3, <1>4 DEF ServiceInv, TypeOK, StateIsTruth, AliveOrderable
<1>6. pos' \in Nat /\ CounterInRange' /\ StopReached' /\ StopAfterDependents'
  BY <1>1 DEF CounterInRange, StopReached, StopAfterDependents
<1>7. InitReached'
  <2>1. SUFFICES ASSUME NEW i \in 1..Len(sorted)
                 PROVE  state'[sorted[i]] \in IF i < pos + 1 THEN {"INITIALIZED", "STOPPED"}
                                                           ELSE {"CREATED"}
    BY ListLengths DEF InitReached
  <2>2. sorted[i] \in Services /\ (sorted[i] = s => i = pos)
    BY <1>1, <1>2, Lengths
  <2>3. state[sorted[i]] \in IF i < pos THEN {"INITIALIZED", "STOPPED"} ELSE {"CREATED"}
    BY ListLengths DEF ServiceInv, InitReached
  <2>4. CASE i = pos
    BY <1>1, <1>2, <1>3, <2>4
  <2>5. CASE i # pos
    <3>1. state'[sorted[i]] = state[sorted[i]]
      BY <1>3, <2>2, <2>5
    <3>2. i < pos + 1 <=> i < pos
      BY <1>1, <2>5
    <3>3. QED
      BY <2>3, <3>1, <3>2
  <2>6. QED
    BY <2>4, <2>5
<1>8. StoppingIsCurrent'
  BY <1>3 DEF ServiceInv, StoppingIsCurrent
<1>9. QED
  BY <1>3, <1>5, <1>6, <1>7, <1>8, LoopStep

LEMMA SkipInitInv ==
  ASSUME ServiceInv, SkipInit
  PROVE  ServiceInv'
BY InitStepInv DEF SkipInit, history

LEMMA DoInitInv ==
  ASSUME ServiceInv, DoInit
  PROVE  ServiceInv'
BY InitStepInv DEF DoInit, RunInit, history

LEMMA InitDoneInv ==
  ASSUME ServiceInv, InitDone
  PROVE  ServiceInv'
<1>1. /\ phase = "init" /\ phase' = "start" /\ pos' = 1
      /\ UNCHANGED <<deps, registry, state, goal, sorted, progress, alive, leftover>>
  BY DEF InitDone, history
<1>2. 1 \in 1..(Len(sorted) + 1)
  BY ListLengths
<1>3. /\ state' \in [Services -> States] /\ alive' \subseteq Registered
      /\ alive' = {t \in Services : state'[t] \in {"INITIALIZED", "RUNNING", "STOPPING"}}
      /\ \A t \in leftover' : t \in Services /\ state'[t] = "STOPPED"
  BY <1>1 DEF ServiceInv, TypeOK, StateIsTruth, AliveOrderable
<1>4. CounterInRange' /\ InitReached' /\ StopReached' /\ StopAfterDependents'
  BY <1>1, <1>2 DEF CounterInRange, InitReached, StopReached, StopAfterDependents
<1>5. QED
  BY <1>1, <1>3, <1>4, LoopStep, NoneStopping

LEMMA SkipStartInv ==
  ASSUME ServiceInv, SkipStart
  PROVE  ServiceInv'
<1>1. /\ phase = "start" /\ pos <= Len(sorted) /\ pos' = pos + 1
      /\ UNCHANGED <<deps, registry, state, phase, goal, sorted, progress, alive, leftover>>
  BY DEF SkipStart, history
<1>2. pos \in 1..Len(sorted) /\ Len(sorted) \in Nat
  BY <1>1, ListLengths DEF ServiceInv, CounterInRange
<1>3. /\ state' \in [Services -> States] /\ alive' \subseteq Registered
      /\ alive' = {t \in Services : state'[t] \in {"INITIALIZED", "RUNNING", "STOPPING"}}
      /\ \A t \in leftover' : t \in Services /\ state'[t] = "STOPPED"
  BY <1>1 DEF ServiceInv, TypeOK, StateIsTruth, AliveOrderable
<1>4. /\ pos' \in Nat /\ CounterInRange' /\ InitReached' /\ StopReached'
      /\ StopAfterDependents'
  BY <1>1, <1>2 DEF CounterInRange, InitReached, StopReached, StopAfterDependents
<1>5. QED
  BY <1>1, <1>3, <1>4, LoopStep, NoneStopping

LEMMA DoStartInv ==
  ASSUME ServiceInv, DoStart
  PROVE  ServiceInv'
<1>1. /\ phase = "start" /\ pos <= Len(sorted) /\ pos' = pos + 1
      /\ state[sorted[pos]] = "INITIALIZED"
      /\ UNCHANGED <<deps, registry, phase, goal, sorted, progress, leftover>>
  BY DEF DoStart, history
<1>2. pos \in 1..Len(sorted) /\ Len(sorted) \in Nat
  BY <1>1, ListLengths DEF ServiceInv, CounterInRange
<1>3. PICK s \in Services : s = sorted[pos] /\ s \in Registered
  BY <1>1, <1>2, Current
<1>4. \/ state' = [state EXCEPT ![s] = "RUNNING"] /\ alive' = alive
      \/ state' = [state EXCEPT ![s] = "STOPPED"] /\ alive' = alive \ {s}
  BY <1>3 DEF DoStart, SetState, history
<1>5. state \in [Services -> States] /\ state' \in [Services -> States]
  BY <1>4 DEF ServiceInv, TypeOK, States
<1>6. /\ alive' \subseteq Registered
      /\ alive' = {t \in Services : state'[t] \in {"INITIALIZED", "RUNNING", "STOPPING"}}
      /\ \A t \in leftover' : t \in Services /\ state'[t] = "STOPPED"
  BY <1>1, <1>3, <1>4, <1>5 DEF ServiceInv, TypeOK, StateIsTruth, AliveOrderable
<1>7. /\ pos' \in Nat /\ CounterInRange' /\ InitReached' /\ StopReached'
      /\ StopAfterDependents'
  BY <1>1, <1>2 DEF CounterInRange, InitReached, StopReached, StopAfterDependents
<1>8. StoppingIsCurrent'
  BY <1>1, <1>4, <1>5 DEF ServiceInv, StoppingIsCurrent
<1>9. QED
  BY <1>1, <1>5, <1>6, <1>7, <1>8, LoopStep

LEMMA StartDoneInv ==
  ASSUME ServiceInv, StartDone
  PROVE  ServiceInv'
<1>1. /\ phase = "start" /\ phase' = "up"
      /\ UNCHANGED <<deps, registry, state, goal, sorted, pos, progress, alive, leftover>>
  BY DEF StartDone, sorting, history
<1>2. /\ state' \in [Services -> States] /\ alive' \subseteq Registered /\ pos' \in Nat
      /\ alive' = {t \in Services : state'[t] \in {"INITIALIZED", "RUNNING", "STOPPING"}}
      /\ \A t \in leftover' : t \in Services /\ state'[t] = "STOPPED"
  BY <1>1, ListLengths DEF ServiceInv, TypeOK, StateIsTruth, AliveOrderable, CounterInRange
<1>3. CounterInRange' /\ InitReached' /\ StopReached' /\ StopAfterDependents'
  BY <1>1 DEF CounterInRange, InitReached, StopReached, StopAfterDependents
<1>4. QED
  BY <1>1, <1>2, <1>3, LoopStep, NoneStopping

-----------------------------------------------------------------------------
(* The stop loop. *)

LEMMA SkipStopInv ==
  ASSUME ServiceInv, SkipStop
  PROVE  ServiceInv'
<1>1. /\ phase = "stop" /\ pos >= 1 /\ pos' = pos - 1 /\ ~Active(sorted[pos])
      /\ UNCHANGED <<deps, registry, state, phase, goal, sorted, progress, alive, leftover>>
  BY DEF SkipStop, history
<1>2. pos \in 1..Len(sorted) /\ Len(sorted) \in Nat
  BY <1>1, ListLengths DEF ServiceInv, CounterInRange
<1>3. /\ state' \in [Services -> States] /\ alive' \subseteq Registered
      /\ alive' = {t \in Services : state'[t] \in {"INITIALIZED", "RUNNING", "STOPPING"}}
      /\ \A t \in leftover' : t \in Services /\ state'[t] = "STOPPED"
  BY <1>1 DEF ServiceInv, TypeOK, StateIsTruth, AliveOrderable
<1>4. sorted[pos] \notin alive
  BY <1>1 DEF ServiceInv, StateIsTruth, Active, StoppingIsCurrent
<1>5. StopReached'
  <2>1. SUFFICES ASSUME NEW i \in pos..Len(sorted) PROVE sorted[i] \notin alive
    BY <1>1, <1>2 DEF StopReached
  <2>2. i = pos \/ i \in (pos + 1)..Len(sorted)
    BY <1>2
  <2>3. QED
    BY <1>1, <1>4, <2>2 DEF ServiceInv, StopReached
<1>6. pos' \in Nat /\ CounterInRange' /\ InitReached' /\ StopAfterDependents'
  BY <1>1, <1>2 DEF CounterInRange, InitReached, StopAfterDependents
<1>7. QED
  BY <1>1, <1>3, <1>5, <1>6, LoopStep, NoneStopping

(* Dependents come later in the order, so the loop has stopped them.       *)
LEMMA BeginStopInv ==
  ASSUME ServiceInv, BeginStop
  PROVE  ServiceInv'
<1>1. /\ phase = "stop" /\ phase' = "stopping" /\ pos >= 1 /\ Active(sorted[pos])
      /\ state' = [state EXCEPT ![sorted[pos]] = "STOPPING"]
      /\ UNCHANGED <<deps, registry, goal, sorted, pos, progress, alive, leftover>>
  BY DEF BeginStop, SetState, sorting, history
<1>2. pos \in 1..Len(sorted) /\ Len(sorted) \in Nat
  BY <1>1, ListLengths DEF ServiceInv, CounterInRange
<1>3. PICK s \in Services : s = sorted[pos] /\ s \in Registered
  BY <1>1, <1>2, Current
<1>4. state \in [Services -> States] /\ state' \in [Services -> States]
  BY <1>1, <1>3 DEF ServiceInv, TypeOK, States
<1>5. /\ alive' \subseteq Registered
      /\ alive' = {t \in Services : state'[t] \in {"INITIALIZED", "RUNNING", "STOPPING"}}
      /\ \A t \in leftover' : t \in Services /\ state'[t] = "STOPPED"
  BY <1>1, <1>3, <1>4 DEF ServiceInv, TypeOK, StateIsTruth, AliveOrderable, Active
<1>6. StopAfterDependents'
  <2>1. SUFFICES ASSUME NEW t \in alive, sorted[pos] \in deps[t] PROVE FALSE
    BY <1>1 DEF StopAfterDependents
  <2>2. t \in Placed
    BY <1>1, InLoop DEF ServiceInv, AliveOrderable
  <2>3. PICK i \in 1..Len(sorted) : sorted[i] = t
    BY <2>2, Position
  <2>4. sorted[pos] \in {sorted[j] : j \in 1..(i - 1)}
    BY <2>1, <2>3, ListLengths DEF ServiceInv, SortedRespectsDeps
  <2>5. PICK j \in 1..(i - 1) : sorted[pos] = sorted[j]
    BY <2>4
  <2>6. j \in 1..Len(sorted)
    BY <1>2, <2>3, <2>5
  <2>7. pos = j
    BY <1>2, <2>5, <2>6, Lengths
  <2>8. i \in (pos + 1)..Len(sorted)
    BY <1>2, <2>3, <2>5, <2>7
  <2>9. QED
    BY <1>1, <2>1, <2>3, <2>8 DEF ServiceInv, StopReached
<1>7. StoppingIsCurrent'
  BY <1>1, <1>3, <1>4 DEF ServiceInv, StoppingIsCurrent
<1>8. pos' \in Nat /\ CounterInRange' /\ InitReached' /\ StopReached'
  BY <1>1, <1>2 DEF ServiceInv, CounterInRange, InitReached, StopReached
<1>9. QED
  BY <1>1, <1>4, <1>5, <1>6, <1>7, <1>8, LoopStep

LEMMA EndStopInv ==
  ASSUME ServiceInv, EndStop
  PROVE  ServiceInv'
<1>1. /\ phase = "stopping" /\ phase' = "stop" /\ pos' = pos - 1
      /\ state' = [state EXCEPT ![sorted[pos]] = "STOPPED"]
      /\ alive' = alive \ {sorted[pos]}
      /\ UNCHANGED <<deps, registry, goal, sorted, progress, leftover>>
  BY DEF EndStop, SetState, history
<1>2. pos \in 1..Len(sorted) /\ Len(sorted) \in Nat
  BY <1>1, ListLengths DEF ServiceInv, CounterInRange
<1>3. PICK s \in Services : s = sorted[pos] /\ s \in Registered
  BY <1>1, <1>2, Current
<1>4. state \in [Services -> States] /\ state' \in [Services -> States]
  BY <1>1, <1>3 DEF ServiceInv, TypeOK, States
<1>5. /\ alive' \subseteq Registered
      /\ alive' = {t \in Services : state'[t] \in {"INITIALIZED", "RUNNING", "STOPPING"}}
      /\ \A t \in leftover' : t \in Services /\ state'[t] = "STOPPED"
  BY <1>1, <1>3, <1>4 DEF ServiceInv, TypeOK, StateIsTruth, AliveOrderable
<1>6. StopReached'
  <2>1. SUFFICES ASSUME NEW i \in pos..Len(sorted) PROVE sorted[i] \notin alive'
    BY <1>1, <1>2 DEF StopReached
  <2>2. i = pos \/ i \in (pos + 1)..Len(sorted)
    BY <1>2
  <2>3. QED
    BY <1>1, <2>2 DEF ServiceInv, StopReached
<1>7. StoppingIsCurrent'
  BY <1>1, <1>3, <1>4 DEF ServiceInv, StoppingIsCurrent
<1>8. pos' \in Nat /\ CounterInRange' /\ InitReached' /\ StopAfterDependents'
  BY <1>1, <1>2 DEF CounterInRange, InitReached, StopAfterDependents
<1>9. QED
  BY <1>1, <1>4, <1>5, <1>6, <1>7, <1>8, LoopStep

(* The loop has been through the whole order: nothing is alive.            *)
LEMMA StopDoneInv ==
  ASSUME ServiceInv, StopDone
  PROVE  ServiceInv'
<1>1. /\ phase = "stop" /\ phase' = "down" /\ pos < 1
      /\ UNCHANGED <<deps, registry, state, goal, sorted, pos, progress, alive, leftover>>
  BY DEF StopDone, sorting, history
<1>2. pos = 0 /\ Len(sorted) \in Nat
  BY <1>1, ListLengths DEF ServiceInv, CounterInRange
<1>3. alive = {}
  <2>1. SUFFICES ASSUME NEW t \in alive PROVE FALSE
    OBVIOUS
  <2>2. t \in Placed
    BY <1>1, InLoop DEF ServiceInv, AliveOrderable
  <2>3. PICK i \in 1..Len(sorted) : sorted[i] = t
    BY <2>2, Position
  <2>4. QED
    BY <1>1, <1>2, <2>1, <2>3 DEF ServiceInv, StopReached
<1>4. TypeOK'
  BY <1>1 DEF ServiceInv, TypeOK, Phases
<1>5. /\ StateIsTruth' /\ Checked' /\ NotInitialised' /\ AliveOrderable'
      /\ StopAfterDependents' /\ AllPlaced' /\ InitReached' /\ StopReached'
      /\ CounterInRange' /\ PassFruitless'
  BY <1>1, <1>3, SameOrder
     DEF ServiceInv, StateIsTruth, Checked, NotInitialised, AliveOrderable,
         StopAfterDependents, AllPlaced, InitReached, StopReached, CounterInRange,
         PassFruitless
<1>6. QED
  BY <1>1, <1>4, <1>5, SameOrder, NoneStopping DEF ServiceInv

-----------------------------------------------------------------------------
(* The theorems *)

LEMMA NextInv ==
  ASSUME ServiceInv, [Next]_vars
  PROVE  ServiceInv'
<1>1. ASSUME NEW s \in Services, Register(s) PROVE ServiceInv'
  BY <1>1, RegisterInv
<1>2. CASE StartAll
  BY <1>2, CallTopoSortInv DEF StartAll
<1>3. CASE StopAll
  BY <1>3, CallTopoSortInv DEF StopAll
<1>4. CASE TopoSort
  BY <1>4, SortVisitInv, SortNextPassInv, SortCycleInv, SortDoneInv DEF TopoSort
<1>5. CASE StartLoops
  BY <1>5, SkipInitInv, DoInitInv, InitDoneInv, SkipStartInv, DoStartInv, StartDoneInv
     DEF StartLoops
<1>6. CASE StopLoop
  BY <1>6, SkipStopInv, BeginStopInv, EndStopInv, StopDoneInv DEF StopLoop
<1>7. CASE UNCHANGED vars
  <2>1. TypeOK'
    BY <1>7 DEF vars, ServiceInv, TypeOK
  <2>2. /\ StateIsTruth' /\ Checked' /\ NotInitialised' /\ AliveOrderable'
        /\ StopAfterDependents' /\ AllPlaced' /\ InitReached' /\ StopReached'
        /\ StoppingIsCurrent' /\ CounterInRange' /\ PassFruitless'
    BY <1>7, SameOrder
       DEF vars, ServiceInv, StateIsTruth, Checked, NotInitialised, AliveOrderable,
           StopAfterDependents, AllPlaced, InitReached, StopReached, StoppingIsCurrent,
           CounterInRange, PassFruitless
  <2>3. QED
    BY <1>7, <2>1, <2>2, SameOrder DEF vars, ServiceInv
<1>8. QED
  BY <1>1, <1>2, <1>3, <1>4, <1>5, <1>6, <1>7 DEF Next, Work

(* Whatever the graph, and whatever init and start operations fail: the    *)
(* sort respects the dependencies, no service stops before its dependents  *)
(* have, the recorded states are the truth, and after stop_all nothing     *)
(* that was initialised holds a resource; what a failed init kept is never *)
(* released.                                                               *)
THEOREM ServiceInvariant == Spec => []ServiceInv
<1>1. Init => ServiceInv
  BY InitInv
<1>2. ServiceInv /\ [Next]_vars => ServiceInv'
  BY NextInv
<1>3. QED
  BY <1>1, <1>2, PTL DEF Spec

(* topo_sort gives up only on graphs with a cycle: every service it leaves *)
(* waits for another one it leaves.                                        *)
THEOREM CyclesAreReal == Spec => CycleIsReal
<1>1. ASSUME ServiceInv, SortCycle
      PROVE  LET left == Registered \ Placed
             IN  left # {} /\ \A s \in left : deps[s] \cap left # {}
  <2>1. ASSUME NEW s \in Registered \ Placed
        PROVE  deps[s] \cap (Registered \ Placed) # {}
    <3>1. ~(deps[s] \subseteq Placed) /\ deps[s] \subseteq Registered
      BY <1>1, CycleNotOrderable DEF MissingDep
    <3>2. QED
      BY <3>1
  <2>2. QED
    BY <1>1, <2>1, CycleNotOrderable
<1>2. ServiceInv =>
        [SortCycle =>
           LET left == Registered \ Placed
           IN  left # {} /\ \A s \in left : deps[s] \cap left # {}]_vars
  BY <1>1
<1>3. QED
  BY <1>2, ServiceInvariant, PTL DEF CycleIsReal

(* The init of a service succeeds only while everything it depends on      *)
(* holds what its own init acquired.                                       *)
THEOREM InitsAfterDeps == Spec => InitAfterDeps
<1>1. ASSUME ServiceInv, Next, NEW s \in alive' \ alive
      PROVE  deps[s] \subseteq alive
  <2>1. DoInit
    <3>1. ~(alive' \subseteq alive)
      BY <1>1
    <3>2. \A t \in Services : Register(t) => alive' = alive
      BY DEF Register, history
    <3>3. StartAll \/ StopAll => alive' = alive
      BY DEF StartAll, StopAll, CallTopoSort, history
    <3>4. TopoSort => alive' = alive
      BY DEF TopoSort, SortVisit, SortNextPass, SortCycle, SortDone, history
    <3>5. StartLoops => DoInit \/ alive' \subseteq alive
      BY DEF StartLoops, SkipInit, InitDone, SkipStart, DoStart, StartDone, history
    <3>6. StopLoop => alive' \subseteq alive
      BY DEF StopLoop, SkipStop, BeginStop, EndStop, StopDone, history
    <3>7. QED
      BY <1>1, <3>1, <3>2, <3>3, <3>4, <3>5, <3>6 DEF Next, Work
  <2>2. /\ phase = "init" /\ pos <= Len(sorted) /\ s = sorted[pos]
        /\ \A j \in 1..(pos - 1) : sorted[j] \in deps[s] => state[sorted[j]] # "STOPPED"
    BY <1>1, <2>1 DEF DoInit, RunInit
  <2>3. pos \in 1..Len(sorted) /\ Len(sorted) \in Nat
    BY <1>1, <2>2, ListLengths DEF ServiceInv, CounterInRange
  <2>4. ASSUME NEW d \in deps[s] PROVE d \in alive
    <3>1. d \in {sorted[j] : j \in 1..(pos - 1)}
      BY <1>1, <2>2, <2>3, ListLengths DEF ServiceInv, SortedRespectsDeps
    <3>2. PICK j \in 1..(pos - 1) : d = sorted[j]
      BY <3>1
    <3>3. j \in 1..Len(sorted) /\ j < pos
      BY <2>3
    <3>4. state[d] \in {"INITIALIZED", "STOPPED"}
      BY <1>1, <2>2, <3>2, <3>3, ListLengths DEF ServiceInv, InitReached
    <3>5. d \in Services
      BY <1>1, <3>2, <3>3, Lengths
    <3>6. QED
      BY <1>1, <2>2, <3>2, <3>4, <3>5 DEF ServiceInv, StateIsTruth
  <2>5. QED
    BY <2>4
<1>2. ServiceInv /\ [Next]_vars => [\A s \in alive' \ alive : deps[s] \subseteq alive]_vars
  BY <1>1
<1>3. QED
  BY <1>2, ServiceInvariant, PTL DEF Spec, InitAfterDeps
=============================================================================
