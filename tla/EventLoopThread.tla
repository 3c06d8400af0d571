--------------------------- MODULE EventLoopThread ---------------------------
(***************************************************************************)
(* muduo::net::EventLoopThread composed with the EventLoop it runs.  The    *)
(* owner calls startLoop(), queues functors and destroys the object; the    *)
(* new thread constructs the loop on its stack, runs the init callback,     *)
(* publishes the loop's address and runs loop() until it quits.             *)
(***************************************************************************)
EXTENDS EventLoop

CONSTANTS
  Owner,     \* the thread that owns the EventLoopThread
  SelfQuit   \* may the init callback and the functors call quit()?

ASSUME OwnerAssumption == Owner \in Threads /\ SelfQuit \in BOOLEAN

VARIABLES
  owner,      \* where the owner is
  thread,     \* where threadFunc() is
  loopPtr,    \* loop_ # nullptr, guarded by mutex_
  alive       \* the EventLoop object exists

eltVars == <<vars, owner, thread, loopPtr, alive>>

(* "quit" is the destructor after it read a loop_ that was not null;        *)
(* "join" is std::jthread's join, reached explicitly or by ~Thread.         *)
OwnerPC == {"new", "waiting", "started", "quit", "join", "destroyed"}

ThreadFuncPC == {"none", "start", "callback", "loop", "returned", "cleared",
                 "finished"}

ELTInit ==
  /\ Init
  /\ owner = "new"
  /\ thread = "none"
  /\ loopPtr = FALSE
  /\ alive = FALSE

----------------------------------------------------------------------------
(* The owner.                                                               *)

(* startLoop(): start the thread, then wait on the condition variable.      *)
StartLoop ==
  /\ owner = "new"
  /\ owner' = "waiting"
  /\ thread' = "start"
  /\ UNCHANGED <<vars, loopPtr, alive>>

(* The wait's predicate holds and startLoop() returns loop_.                *)
StartLoopReturns ==
  /\ owner = "waiting"
  /\ loopPtr
  /\ owner' = "started"
  /\ UNCHANGED <<vars, thread, loopPtr, alive>>

(* The owner, and the threads it has given the loop to, use the loop.       *)
Queues(t, f) ==
  /\ owner = "started"
  /\ QueueFrom(t, f)
  /\ UNCHANGED <<owner, thread, loopPtr, alive>>

(* The destructor, once the other threads are done with the loop, reads     *)
(* loop_ under the mutex.  With no loop to quit it                          *)
(* goes on to destroy its members, and ~Thread joins a thread that started. *)
DestructorReadsLoop ==
  /\ owner \in {"new", "started"}
  /\ \A t \in Threads : tpc[t] = "idle"
  /\ owner' = IF loopPtr THEN "quit"
              ELSE IF thread = "none" THEN "destroyed" ELSE "join"
  /\ UNCHANGED <<vars, thread, loopPtr, alive>>

(* Mutant: the destructor joins without having asked the loop to quit.      *)
DestructorForgetsQuit ==
  /\ owner = "quit"
  /\ owner' = "join"
  /\ UNCHANGED <<vars, thread, loopPtr, alive>>

(* It calls quit() on the loop after the mutex is released.                 *)
DestructorQuits ==
  /\ owner = "quit"
  /\ QuitFrom(Owner)
  /\ owner' = "join"
  /\ UNCHANGED <<thread, loopPtr, alive>>

(* The second half of queueInLoop() or quit().                              *)
WakesUp(t) ==
  /\ Wakeup(t)
  /\ UNCHANGED <<owner, thread, loopPtr, alive>>

(* The join returns once the thread has finished.                           *)
Joins ==
  /\ owner = "join"
  /\ tpc[Owner] = "idle"
  /\ thread = "finished"
  /\ owner' = "destroyed"
  /\ UNCHANGED <<vars, thread, loopPtr, alive>>

----------------------------------------------------------------------------
(* The new thread: threadFunc().                                            *)

(* Mutant: the loop is published before the init callback ran.              *)
ConstructAndPublish ==
  /\ thread = "start"
  /\ alive' = TRUE
  /\ loopPtr' = TRUE
  /\ thread' = "callback"
  /\ UNCHANGED <<vars, owner>>

(* The loop is a local variable of threadFunc().                            *)
ConstructLoop ==
  /\ thread = "start"
  /\ alive' = TRUE
  /\ thread' = "callback"
  /\ UNCHANGED <<vars, owner, loopPtr>>

(* Code of the user's that runs on the loop's thread: the init callback, a  *)
(* channel's callback or a functor.                                         *)
UserCode ==
  /\ thread \in {"callback", "loop"}
  /\ thread = "loop" => looping
  /\ \/ \E f \in Functors : QueueInLoop(f) \/ RunInLoop(f)
     \/ SelfQuit /\ Quit
  /\ UNCHANGED <<owner, thread, loopPtr, alive>>

(* The init callback has returned: publish the loop and notify the owner.   *)
PublishLoop ==
  /\ thread = "callback"
  /\ loopPtr' = TRUE
  /\ thread' = "loop"
  /\ UNCHANGED <<vars, owner, alive>>

(* One step of loop(); leaving it returns to threadFunc().                  *)
RunLoop ==
  /\ thread = "loop"
  /\ LoopStep
  /\ thread' = IF looping /\ ~looping' THEN "returned" ELSE "loop"
  /\ UNCHANGED <<owner, loopPtr, alive>>

(* loop() has returned: loop_ is reset under the mutex.                     *)
ClearLoop ==
  /\ thread = "returned"
  /\ loopPtr' = FALSE
  /\ thread' = "cleared"
  /\ UNCHANGED <<vars, owner, alive>>

(* The loop, a local of threadFunc(), is destroyed and the thread ends.     *)
DestroyLoop ==
  /\ thread = "cleared"
  /\ alive' = FALSE
  /\ thread' = "finished"
  /\ UNCHANGED <<vars, owner, loopPtr>>

----------------------------------------------------------------------------
ELTNext ==
  \/ StartLoop \/ StartLoopReturns
  \/ \E t \in Threads : (\E f \in Functors : Queues(t, f)) \/ WakesUp(t)
  \/ DestructorReadsLoop \/ DestructorQuits \/ Joins
  \/ ConstructLoop \/ UserCode \/ PublishLoop \/ RunLoop \/ ClearLoop
  \/ DestroyLoop

ELTSpec == ELTInit /\ [][ELTNext]_eltVars

(* Every thread that can run runs; poll() is ended by the eventfd only, so  *)
(* a step out of it counts as fair only while the eventfd is readable.      *)
ELTFairness ==
  /\ WF_eltVars(StartLoopReturns)
  /\ WF_eltVars(DestructorQuits)
  /\ \A t \in Threads : WF_eltVars(WakesUp(t))
  /\ WF_eltVars(Joins)
  /\ WF_eltVars(ConstructLoop)
  /\ WF_eltVars(PublishLoop)
  /\ WF_eltVars(RunLoop /\ (pc = "poll" => wakeupFd))
  /\ WF_eltVars(ClearLoop)
  /\ WF_eltVars(DestroyLoop)

ELTFairSpec == ELTSpec /\ ELTFairness

----------------------------------------------------------------------------
(* startLoop() returns a loop whose init callback has finished, and whoever *)
(* reads a loop_ that is not null reads a live loop.  The destructor        *)
(* returns only after threadFunc() did: the batch the loop had taken was    *)
(* run to its end and the loop was destroyed.                               *)
PublishedLoopIsReady ==
  /\ loopPtr => alive /\ thread \in {"loop", "returned"}
  /\ owner = "destroyed" => functors = <<>> /\ ~alive

(* The destructor of an EventLoopThread whose loop was started returns.     *)
DestructorReturns == owner \in {"quit", "join"} ~> owner = "destroyed"

(* The owner is not kept waiting: startLoop() returns, unless callbacks     *)
(* made the loop quit and loop_ was reset before the owner looked at it,    *)
(* and so does the destructor if the loop is running when it is told to     *)
(* quit.                                                                    *)
OwnerReturns ==
  /\ owner = "waiting" ~> owner # "waiting" \/ thread \in {"cleared", "finished"}
  /\ (owner = "quit" /\ looping) ~> owner = "destroyed"

(* The owner never touches the loop after threadFunc() destroyed it.        *)
NoUseAfterDestruction ==
  owner = "quit" \/ tpc[Owner] = "wakeup" => alive

=============================================================================
