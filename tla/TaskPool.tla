------------------------------- MODULE TaskPool -------------------------------
(***************************************************************************)
(* What ThreadPool promises: a task that was handed in is run once, or is   *)
(* dropped, and at most capacity tasks wait at a time (0: no limit).        *)
(***************************************************************************)
EXTENDS FiniteSets, Naturals

CONSTANT Tasks

VARIABLES
  phase,    \* of each task: "new", "waiting", "running", "done" or "dropped"
  capacity

Waiting == {t \in Tasks : phase[t] = "waiting"}

Init == phase = [t \in Tasks |-> "new"] /\ capacity \in Nat

Becomes(t, old, new) == phase[t] = old /\ phase' = [phase EXCEPT ![t] = new]

Queue(t) ==
  /\ Becomes(t, "new", "waiting")
  /\ capacity > 0 => Cardinality(Waiting) < capacity

RunNow(t) == Becomes(t, "new", "done")
Refuse(t) == Becomes(t, "new", "dropped")
Take(t) == Becomes(t, "waiting", "running")
Finish(t) == Becomes(t, "running", "done")
Drop == phase' = [t \in Tasks |-> IF t \in Waiting THEN "dropped" ELSE phase[t]]

(* The capacity changes only while no task waits.                           *)
Next ==
  \/ /\ \/ \E t \in Tasks : Queue(t) \/ RunNow(t) \/ Refuse(t) \/ Take(t) \/ Finish(t)
        \/ Drop
     /\ UNCHANGED capacity
  \/ Waiting = {} /\ capacity' \in Nat /\ UNCHANGED phase

Spec == Init /\ [][Next]_<<phase, capacity>>

=============================================================================
