--------------------------- MODULE SerialExecutor ---------------------------
(***************************************************************************)
(* What an event loop promises to those who hand it work: one queue, from   *)
(* which tasks are started one at a time, in the order they were submitted, *)
(* each exactly once.                                                       *)
(***************************************************************************)
EXTENDS Sequences

CONSTANT Tasks

VARIABLES
  queue,   \* tasks submitted and not yet started
  started  \* tasks in the order they were started

Init == queue = <<>> /\ started = <<>>

Submit(f) ==
  /\ queue' = Append(queue, f)
  /\ UNCHANGED started

Start ==
  /\ queue # <<>>
  /\ started' = Append(started, Head(queue))
  /\ queue' = Tail(queue)

Next == Start \/ \E f \in Tasks : Submit(f)

Spec == Init /\ [][Next]_<<queue, started>>

=============================================================================
