------------------------------ MODULE TaskSet ------------------------------
(***************************************************************************)
(* What the scheduler promises to the services that use it, without list,  *)
(* clock or heap: a set of named tasks, each with the argument of its      *)
(* callback and the runs it has left (negative: for ever).  Only a         *)
(* registered task is called, one call at a time, and as often as was      *)
(* asked for.  A removal does not wait for the call in flight.             *)
(* Sched implements it (Refined); SchedTool is built on it.                *)
(***************************************************************************)
EXTENDS Integers

CONSTANTS
  Names,       (* task names                                               *)
  Args,        (* arguments callbacks are registered with                  *)
  Counts,      (* runs asked for                                           *)
  NoCall       (* no callback is in flight                                 *)

VARIABLES
  active,      (* the registered tasks: [name, arg, left]                  *)
  calling      (* the callback in flight: [name, arg], or NoCall           *)

vars == <<active, calling>>

Registered == {t.name : t \in active}

Init == active = {} /\ calling = NoCall

Add(n, a, k) ==
  /\ n \notin Registered
  /\ active' = active \cup {[name |-> n, arg |-> a, left |-> k]}
  /\ UNCHANGED calling

Remove(n) ==
  /\ n \in Registered
  /\ active' = {t \in active : t.name # n}
  /\ UNCHANGED calling

(* The last run takes the task off the set before it starts.               *)
Call(t) ==
  /\ calling = NoCall
  /\ t.left # 0
  /\ calling' = [name |-> t.name, arg |-> t.arg]
  /\ active' = CASE t.left = 1 -> active \ {t}
                 [] t.left > 1 -> (active \ {t}) \cup {[t EXCEPT !.left = @ - 1]}
                 [] OTHER      -> active

Return ==
  /\ calling # NoCall
  /\ calling' = NoCall
  /\ UNCHANGED active

(* The scheduler stops: its thread has ended, all tasks are dropped.       *)
Clear ==
  /\ calling = NoCall
  /\ active' = {}
  /\ UNCHANGED calling

Next ==
  \/ \E n \in Names, a \in Args, k \in Counts : Add(n, a, k)
  \/ \E n \in Names : Remove(n)
  \/ \E t \in active : Call(t)
  \/ Return
  \/ Clear

Spec == Init /\ [][Next]_vars

=============================================================================
