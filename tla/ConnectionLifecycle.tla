------------------------- MODULE ConnectionLifecycle -------------------------
(***************************************************************************)
(* What TcpServer promises of every connection that it is offered: the      *)
(* client is refused, or the connection is made, goes up and down once in   *)
(* that order, and is gone for good.                                        *)
(***************************************************************************)
CONSTANT Ids

VARIABLE life

Init == life = [i \in Ids |-> "none"]

Becomes(i, old, new) == life[i] \in old /\ life' = [life EXCEPT ![i] = new]

Make(i) == Becomes(i, {"none"}, "made")
Up(i) == Becomes(i, {"none", "made"}, "up")
Down(i) == Becomes(i, {"up"}, "down")
Refuse(i) == Becomes(i, {"none"}, "gone")

(* The owner lets connections go: one that is down, or, when it is itself   *)
(* destroyed, any number of them at once.                                   *)
Release ==
  \E S \in SUBSET {i \in Ids : life[i] \in {"made", "up", "down"}} :
    life' = [i \in Ids |-> IF i \in S THEN "gone" ELSE life[i]]

Next == (\E i \in Ids : Make(i) \/ Up(i) \/ Down(i) \/ Refuse(i)) \/ Release

Spec == Init /\ [][Next]_life

=============================================================================
