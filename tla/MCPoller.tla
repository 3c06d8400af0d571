------------------------------ MODULE MCPoller ------------------------------
(* The pollers with channels that are interchangeable, as are the events.   *)
EXTENDS Poller, TLC

Symmetry == Permutations(Channels) \cup Permutations(Events)

=============================================================================
