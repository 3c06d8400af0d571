--------------------------- MODULE EventLoopProofs ---------------------------
(***************************************************************************)
(* Proofs about the event loop and about the thread that runs it, for any   *)
(* threads, functors and channels.                                          *)
(***************************************************************************)
EXTENDS EventLoopThread, SequenceTheorems, TLAPS

(* The loop thread's flags say where it is: looping_ is true exactly inside *)
(* loop(), callingPendingFunctors_ exactly inside doPendingFunctors(), and  *)
(* the batch is empty outside it.                                           *)
FlagsMatchPC ==
  /\ looping <=> pc # "idle"
  /\ callingPendingFunctors <=> pc \in {"functors", "functor"}
  /\ pc \notin {"functors", "functor"} => functors = <<>>

(* What the wake-up rules maintain from one batch to the next poll().  Only *)
(* while channels are handled may functors wait unannounced: handleRead()   *)
(* has emptied the eventfd, but doPendingFunctors() is still to come.       *)
PendingIsAnnounced ==
  pc \notin {"events", "handleEvent"} /\ pendingFunctors # <<>>
    => WakeupOnItsWay \/ queuedOutside

(* The inductive invariant behind the three safety properties.              *)
IInv ==
  /\ TypeOK
  /\ FlagsMatchPC
  /\ PendingIsAnnounced
  /\ QuitInterruptsPoll
  /\ RunInQueueOrder

----------------------------------------------------------------------------
(* Appending to the last part of a three-part queue appends to the whole.   *)
LEMMA AppendToLastPart ==
  ASSUME NEW T, NEW a \in Seq(T), NEW b \in Seq(T), NEW c \in Seq(T), NEW x \in T
  PROVE  a \o b \o Append(c, x) = Append(a \o b \o c, x)
  OBVIOUS

(* Moving the head of the middle part to the end of the first keeps it all. *)
LEMMA MoveHead ==
  ASSUME NEW T, NEW a \in Seq(T), NEW b \in Seq(T), NEW c \in Seq(T), b # <<>>
  PROVE  Append(a, Head(b)) \o Tail(b) \o c = a \o b \o c
  OBVIOUS

(* TypeOK is inductive.                                                     *)
LEMMA TypeCorrect == Spec => []TypeOK
<1> USE DEF TypeOK, LoopPC, ThreadPC
<1>1. Init => TypeOK
  BY EmptySeq DEF Init
<1>2. TypeOK /\ [Next]_vars => TypeOK'
  <2> SUFFICES ASSUME TypeOK, [Next]_vars
               PROVE  TypeOK'
    OBVIOUS
  <2>1. CASE Loop
    BY <2>1 DEF Loop
  <2>2. CASE TestQuit
    BY <2>2 DEF TestQuit
  <2>3. ASSUME NEW S \in SUBSET (Channels \cup {WakeupChan}), PollReturns(S)
        PROVE  TypeOK'
    BY <2>3 DEF PollReturns
  <2>4. ASSUME NEW c \in Channels \cup {WakeupChan}, HandleEvent(c)
        PROVE  TypeOK'
    BY <2>4 DEF HandleEvent
  <2>5. CASE CallbackReturns
    BY <2>5 DEF CallbackReturns
  <2>6. CASE DoPendingFunctors
    BY <2>6, EmptySeq DEF DoPendingFunctors
  <2>7. CASE RunFunctor
    BY <2>7 DEF RunFunctor
  <2>8. CASE EndPendingFunctors
    BY <2>8 DEF EndPendingFunctors
  <2>9. ASSUME NEW f \in Functors, QueueInLoop(f)
        PROVE  TypeOK'
    BY <2>9 DEF QueueInLoop, NeedsWakeup
  <2>10. ASSUME NEW f \in Functors, RunInLoop(f)
         PROVE  TypeOK'
    BY <2>10 DEF RunInLoop
  <2>11. CASE Quit
    BY <2>11 DEF Quit
  <2>12. ASSUME NEW t \in Threads, NEW f \in Functors, QueueFrom(t, f)
         PROVE  TypeOK'
    BY <2>12 DEF QueueFrom
  <2>13. ASSUME NEW t \in Threads, QuitFrom(t)
         PROVE  TypeOK'
    BY <2>13 DEF QuitFrom
  <2>14. ASSUME NEW t \in Threads, Wakeup(t)
         PROVE  TypeOK'
    BY <2>14 DEF Wakeup
  <2>15. CASE UNCHANGED vars
    BY <2>15 DEF vars
  <2>. QED
    BY <2>1, <2>2, <2>3, <2>4, <2>5, <2>6, <2>7, <2>8, <2>9, <2>10, <2>11,
       <2>12, <2>13, <2>14, <2>15 DEF Next, LoopStep
<1>. QED
  BY <1>1, <1>2, PTL DEF Spec

(* Every step keeps the flags in line with the program counter.             *)
LEMMA FlagsStep == TypeOK /\ FlagsMatchPC /\ [Next]_vars => FlagsMatchPC'
<1> SUFFICES ASSUME TypeOK, FlagsMatchPC, [Next]_vars
             PROVE  FlagsMatchPC'
  OBVIOUS
<1> USE DEF TypeOK, LoopPC, FlagsMatchPC
<1>1. CASE Loop
  BY <1>1 DEF Loop
<1>2. CASE TestQuit
  BY <1>2 DEF TestQuit
<1>3. ASSUME NEW S \in SUBSET (Channels \cup {WakeupChan}), PollReturns(S)
      PROVE  FlagsMatchPC'
  BY <1>3 DEF PollReturns
<1>4. ASSUME NEW c \in Channels \cup {WakeupChan}, HandleEvent(c)
      PROVE  FlagsMatchPC'
  BY <1>4 DEF HandleEvent
<1>5. CASE CallbackReturns
  BY <1>5 DEF CallbackReturns
<1>6. CASE DoPendingFunctors
  BY <1>6 DEF DoPendingFunctors
<1>7. CASE RunFunctor
  BY <1>7 DEF RunFunctor
<1>8. CASE EndPendingFunctors
  BY <1>8 DEF EndPendingFunctors
<1>9. ASSUME NEW f \in Functors, QueueInLoop(f)
      PROVE  FlagsMatchPC'
  BY <1>9 DEF QueueInLoop
<1>10. ASSUME NEW f \in Functors, RunInLoop(f)
      PROVE  FlagsMatchPC'
  BY <1>10 DEF RunInLoop
<1>11. CASE Quit
  BY <1>11 DEF Quit
<1>12. ASSUME NEW t \in Threads, NEW f \in Functors, QueueFrom(t, f)
      PROVE  FlagsMatchPC'
  BY <1>12 DEF QueueFrom
<1>13. ASSUME NEW t \in Threads, QuitFrom(t)
      PROVE  FlagsMatchPC'
  BY <1>13 DEF QuitFrom
<1>14. ASSUME NEW t \in Threads, Wakeup(t)
      PROVE  FlagsMatchPC'
  BY <1>14 DEF Wakeup
<1>15. CASE UNCHANGED vars
  BY <1>15 DEF vars
<1>. QED
  BY <1>1, <1>2, <1>3, <1>4, <1>5, <1>6, <1>7,
     <1>8, <1>9, <1>10, <1>11, <1>12, <1>13, <1>14, <1>15 DEF Next, LoopStep

(* Every step that leaves functors waiting announces them.                  *)
LEMMA PendingStep ==
  TypeOK /\ FlagsMatchPC /\ PendingIsAnnounced /\ [Next]_vars => PendingIsAnnounced'
<1> SUFFICES ASSUME TypeOK, FlagsMatchPC, PendingIsAnnounced, [Next]_vars
             PROVE  PendingIsAnnounced'
  OBVIOUS
<1> USE DEF TypeOK, LoopPC, ThreadPC, FlagsMatchPC, PendingIsAnnounced, WakeupOnItsWay
<1>1. CASE Loop
  BY <1>1 DEF Loop
<1>2. CASE TestQuit
  BY <1>2 DEF TestQuit
<1>3. ASSUME NEW S \in SUBSET (Channels \cup {WakeupChan}), PollReturns(S)
      PROVE  PendingIsAnnounced'
  BY <1>3 DEF PollReturns
<1>4. ASSUME NEW c \in Channels \cup {WakeupChan}, HandleEvent(c)
      PROVE  PendingIsAnnounced'
  BY <1>4 DEF HandleEvent
<1>5. CASE CallbackReturns
  BY <1>5 DEF CallbackReturns
<1>6. CASE DoPendingFunctors
  BY <1>6 DEF DoPendingFunctors
<1>7. CASE RunFunctor
  BY <1>7 DEF RunFunctor
<1>8. CASE EndPendingFunctors
  BY <1>8 DEF EndPendingFunctors
<1>9. ASSUME NEW f \in Functors, QueueInLoop(f)
      PROVE  PendingIsAnnounced'
  BY <1>9 DEF QueueInLoop, InUserCode, NeedsWakeup
<1>10. ASSUME NEW f \in Functors, RunInLoop(f)
      PROVE  PendingIsAnnounced'
  BY <1>10 DEF RunInLoop
<1>11. CASE Quit
  BY <1>11 DEF Quit
<1>12. ASSUME NEW t \in Threads, NEW f \in Functors, QueueFrom(t, f)
      PROVE  PendingIsAnnounced'
  BY <1>12 DEF QueueFrom
<1>13. ASSUME NEW t \in Threads, QuitFrom(t)
      PROVE  PendingIsAnnounced'
  BY <1>13 DEF QuitFrom
<1>14. ASSUME NEW t \in Threads, Wakeup(t)
      PROVE  PendingIsAnnounced'
  BY <1>14 DEF Wakeup
<1>15. CASE UNCHANGED vars
  BY <1>15 DEF vars
<1>. QED
  BY <1>1, <1>2, <1>3, <1>4, <1>5, <1>6, <1>7,
     <1>8, <1>9, <1>10, <1>11, <1>12, <1>13, <1>14, <1>15 DEF Next, LoopStep

(* Every step that leaves quit_ set under a blocked loop announces it.      *)
LEMMA QuitStep ==
  TypeOK /\ QuitInterruptsPoll /\ [Next]_vars => QuitInterruptsPoll'
<1> SUFFICES ASSUME TypeOK, QuitInterruptsPoll, [Next]_vars
             PROVE  QuitInterruptsPoll'
  OBVIOUS
<1> USE DEF TypeOK, LoopPC, ThreadPC, QuitInterruptsPoll, WakeupOnItsWay
<1>1. CASE Loop
  BY <1>1 DEF Loop
<1>2. CASE TestQuit
  BY <1>2 DEF TestQuit
<1>3. ASSUME NEW S \in SUBSET (Channels \cup {WakeupChan}), PollReturns(S)
      PROVE  QuitInterruptsPoll'
  BY <1>3 DEF PollReturns
<1>4. ASSUME NEW c \in Channels \cup {WakeupChan}, HandleEvent(c)
      PROVE  QuitInterruptsPoll'
  BY <1>4 DEF HandleEvent
<1>5. CASE CallbackReturns
  BY <1>5 DEF CallbackReturns
<1>6. CASE DoPendingFunctors
  BY <1>6 DEF DoPendingFunctors
<1>7. CASE RunFunctor
  BY <1>7 DEF RunFunctor
<1>8. CASE EndPendingFunctors
  BY <1>8 DEF EndPendingFunctors
<1>9. ASSUME NEW f \in Functors, QueueInLoop(f)
      PROVE  QuitInterruptsPoll'
  BY <1>9 DEF QueueInLoop
<1>10. ASSUME NEW f \in Functors, RunInLoop(f)
      PROVE  QuitInterruptsPoll'
  BY <1>10 DEF RunInLoop
<1>11. CASE Quit
  BY <1>11 DEF Quit, InUserCode
<1>12. ASSUME NEW t \in Threads, NEW f \in Functors, QueueFrom(t, f)
      PROVE  QuitInterruptsPoll'
  BY <1>12 DEF QueueFrom
<1>13. ASSUME NEW t \in Threads, QuitFrom(t)
      PROVE  QuitInterruptsPoll'
  BY <1>13 DEF QuitFrom
<1>14. ASSUME NEW t \in Threads, Wakeup(t)
      PROVE  QuitInterruptsPoll'
  BY <1>14 DEF Wakeup
<1>15. CASE UNCHANGED vars
  BY <1>15 DEF vars
<1>. QED
  BY <1>1, <1>2, <1>3, <1>4, <1>5, <1>6, <1>7,
     <1>8, <1>9, <1>10, <1>11, <1>12, <1>13, <1>14, <1>15 DEF Next, LoopStep

(* Every step keeps the order: pushing appends at the end, taking the batch *)
(* moves the list into the empty batch, running moves the batch's head.     *)
LEMMA OrderStep ==
  TypeOK /\ FlagsMatchPC /\ RunInQueueOrder /\ [Next]_vars => RunInQueueOrder'
<1> SUFFICES ASSUME TypeOK, FlagsMatchPC, RunInQueueOrder, [Next]_vars
             PROVE  RunInQueueOrder'
  OBVIOUS
<1> USE DEF TypeOK, LoopPC, RunInQueueOrder
<1>1. CASE Loop
  BY <1>1 DEF Loop
<1>2. CASE TestQuit
  BY <1>2 DEF TestQuit
<1>3. ASSUME NEW S \in SUBSET (Channels \cup {WakeupChan}), PollReturns(S)
      PROVE  RunInQueueOrder'
  BY <1>3 DEF PollReturns
<1>4. ASSUME NEW c \in Channels \cup {WakeupChan}, HandleEvent(c)
      PROVE  RunInQueueOrder'
  BY <1>4 DEF HandleEvent
<1>5. CASE CallbackReturns
  BY <1>5 DEF CallbackReturns
<1>6. CASE DoPendingFunctors
  <2>1. functors = <<>> /\ functors' = pendingFunctors /\ pendingFunctors' = <<>>
    BY <1>6 DEF DoPendingFunctors, FlagsMatchPC
  <2>2. executed \o <<>> = executed /\ executed \in Seq(Functors)
    BY ConcatEmptySeq
  <2>3. (executed \o pendingFunctors) \o <<>> = executed \o pendingFunctors
    BY ConcatEmptySeq, ConcatProperties
  <2>. QED
    BY <1>6, <2>1, <2>2, <2>3 DEF DoPendingFunctors
<1>7. CASE RunFunctor
  BY <1>7, MoveHead DEF RunFunctor
<1>8. CASE EndPendingFunctors
  BY <1>8 DEF EndPendingFunctors
<1>9. ASSUME NEW f \in Functors, QueueInLoop(f)
      PROVE  RunInQueueOrder'
  <2>1. /\ pendingFunctors' = Append(pendingFunctors, f)
        /\ enqueued' = Append(enqueued, f)
        /\ UNCHANGED <<functors, executed>>
    BY <1>9 DEF QueueInLoop
  <2>2. executed \o functors \o Append(pendingFunctors, f)
          = Append(executed \o functors \o pendingFunctors, f)
    BY AppendToLastPart
  <2>. QED
    BY <2>1, <2>2
<1>10. ASSUME NEW f \in Functors, RunInLoop(f)
      PROVE  RunInQueueOrder'
  BY <1>10 DEF RunInLoop
<1>11. CASE Quit
  BY <1>11 DEF Quit
<1>12. ASSUME NEW t \in Threads, NEW f \in Functors, QueueFrom(t, f)
      PROVE  RunInQueueOrder'
  <2>1. /\ pendingFunctors' = Append(pendingFunctors, f)
        /\ enqueued' = Append(enqueued, f)
        /\ UNCHANGED <<functors, executed>>
    BY <1>12 DEF QueueFrom
  <2>2. executed \o functors \o Append(pendingFunctors, f)
          = Append(executed \o functors \o pendingFunctors, f)
    BY AppendToLastPart
  <2>. QED
    BY <2>1, <2>2
<1>13. ASSUME NEW t \in Threads, QuitFrom(t)
      PROVE  RunInQueueOrder'
  BY <1>13 DEF QuitFrom
<1>14. ASSUME NEW t \in Threads, Wakeup(t)
      PROVE  RunInQueueOrder'
  BY <1>14 DEF Wakeup
<1>15. CASE UNCHANGED vars
  BY <1>15 DEF vars
<1>. QED
  BY <1>1, <1>2, <1>3, <1>4, <1>5, <1>6, <1>7,
     <1>8, <1>9, <1>10, <1>11, <1>12, <1>13, <1>14, <1>15 DEF Next, LoopStep

(* The inductive invariant holds in every reachable state.                  *)
LEMMA Invariance == Spec => []IInv
<1>1. Init => IInv
  <2> SUFFICES ASSUME Init PROVE IInv
    OBVIOUS
  <2>1. TypeOK
    BY EmptySeq DEF Init, TypeOK, LoopPC, ThreadPC
  <2>2. FlagsMatchPC /\ PendingIsAnnounced /\ QuitInterruptsPoll
    BY DEF Init, FlagsMatchPC, PendingIsAnnounced, QuitInterruptsPoll
  <2>3. RunInQueueOrder
    BY EmptySeq, ConcatEmptySeq DEF Init, RunInQueueOrder
  <2>. QED
    BY <2>1, <2>2, <2>3 DEF IInv
<1>2. IInv /\ [Next]_vars /\ TypeOK' => IInv'
  BY FlagsStep, PendingStep, QuitStep, OrderStep DEF IInv
<1>. QED
  BY <1>1, <1>2, TypeCorrect, PTL DEF Spec

----------------------------------------------------------------------------
(* queueInLoop()'s wake-up rule never leaves a functor waiting under a      *)
(* blocked poll().                                                          *)
THEOREM WakeupSufficesForFunctors == Spec => []NoStrandedFunctor
<1>1. IInv => NoStrandedFunctor
  BY DEF IInv, PendingIsAnnounced, NoStrandedFunctor
<1>. QED
  BY <1>1, Invariance, PTL

(* quit()'s wake-up rule never leaves quit_ unnoticed under a blocked       *)
(* poll().                                                                  *)
THEOREM WakeupSufficesForQuit == Spec => []QuitInterruptsPoll
  BY Invariance, PTL DEF IInv

(* Functors run in the order they were queued, each once, none lost.        *)
THEOREM QueueOrder == Spec => []RunInQueueOrder
  BY Invariance, PTL DEF IInv

(* The loop implements a serial executor.  Pushing is a submission, starting *)
(* a functor is a start, and taking the batch changes nothing outside.      *)
THEOREM ExecutorRefinement == Spec => ImplementsExecutor
<1> DEFINE q == functors \o pendingFunctors
<1>1. Init => Executor!Init
  BY EmptySeq, ConcatEmptySeq DEF Init, Executor!Init
<1>2. IInv /\ [Next]_vars => [Executor!Next]_<<q, executed>>
  <2> SUFFICES ASSUME IInv, [Next]_vars
               PROVE  [Executor!Next]_<<q, executed>>
    OBVIOUS
  <2> USE DEF TypeOK
  <2>0. TypeOK /\ FlagsMatchPC
    BY DEF IInv
  <2>1. ASSUME NEW f \in Functors,
               pendingFunctors' = Append(pendingFunctors, f),
               UNCHANGED <<functors, executed>>
        PROVE  Executor!Next
    <3>1. functors \o Append(pendingFunctors, f) = Append(q, f)
      BY <2>0
    <3>2. Executor!Submit(f)
      BY <2>1, <3>1 DEF Executor!Submit
    <3>. QED
      BY <3>2 DEF Executor!Next
  <2>2. CASE RunFunctor
    <3>1. q # <<>> /\ Head(q) = Head(functors) /\ Tail(q) = Tail(functors) \o pendingFunctors
      BY <2>0, <2>2 DEF RunFunctor
    <3>2. Executor!Start
      BY <2>2, <3>1 DEF RunFunctor, Executor!Start
    <3>. QED
      BY <3>2 DEF Executor!Next
  <2>3. CASE DoPendingFunctors
    <3>1. functors = <<>>
      BY <2>0, <2>3 DEF DoPendingFunctors, FlagsMatchPC
    <3>2. q = pendingFunctors /\ pendingFunctors \o <<>> = pendingFunctors
      BY <2>0, <3>1, ConcatEmptySeq
    <3>. QED
      BY <2>3, <3>2 DEF DoPendingFunctors
  <2>4. ASSUME UNCHANGED <<functors, pendingFunctors, executed>>
        PROVE  [Executor!Next]_<<q, executed>>
    BY <2>4
  <2>5. ASSUME NEW f \in Functors, QueueInLoop(f)
        PROVE  [Executor!Next]_<<q, executed>>
    BY <2>1, <2>5 DEF QueueInLoop
  <2>6. ASSUME NEW t \in Threads, NEW f \in Functors, QueueFrom(t, f)
        PROVE  [Executor!Next]_<<q, executed>>
    BY <2>1, <2>6 DEF QueueFrom
  <2>. QED
    BY <2>2, <2>3, <2>4, <2>5, <2>6
       DEF Next, LoopStep, vars, Loop, TestQuit, PollReturns, HandleEvent,
           CallbackReturns, EndPendingFunctors, RunInLoop, Quit, QuitFrom, Wakeup
<1>. QED
  BY <1>1, <1>2, Invariance, PTL DEF Spec, ImplementsExecutor, Executor!Spec

----------------------------------------------------------------------------
(* EventLoopThread.  Every step of the composition is a step of the loop or *)
(* leaves the loop alone, so what was shown of the loop holds in it.        *)

(* Where threadFunc() is decides whether the loop exists, is published and  *)
(* runs, and the owner's position bounds where threadFunc() can be: there   *)
(* is no thread before startLoop(), and none is left after the destructor.  *)
ThreadInv ==
  /\ alive <=> thread \in {"callback", "loop", "returned", "cleared"}
  /\ loopPtr <=> thread \in {"loop", "returned"}
  /\ thread # "loop" => pc = "idle"
  /\ owner = "new" => thread = "none"
  /\ thread = "none" => owner \in {"new", "destroyed"}
  /\ owner = "destroyed" => thread \in {"none", "finished"}

----------------------------------------------------------------------------
(* A step of the composition is a step of the loop, or a stutter of it.     *)
LEMMA StepOfLoop == [ELTNext]_eltVars => [Next]_vars
<1> SUFFICES ASSUME [ELTNext]_eltVars
             PROVE  [Next]_vars
  OBVIOUS
<1>1. ASSUME NEW t \in Threads, NEW f \in Functors, Queues(t, f)
      PROVE  Next
  BY <1>1 DEF Queues, Next
<1>2. ASSUME NEW t \in Threads, WakesUp(t)
      PROVE  Next
  BY <1>2 DEF WakesUp, Next
<1>3. CASE DestructorQuits
  BY <1>3, OwnerAssumption DEF DestructorQuits, Next
<1>4. CASE UserCode
  BY <1>4 DEF UserCode, Next
<1>5. CASE RunLoop
  BY <1>5 DEF RunLoop, Next
<1>6. CASE \/ StartLoop \/ StartLoopReturns \/ DestructorReadsLoop \/ Joins
           \/ ConstructLoop \/ PublishLoop \/ ClearLoop \/ DestroyLoop
           \/ UNCHANGED eltVars
  BY <1>6 DEF StartLoop, StartLoopReturns, DestructorReadsLoop, Joins,
              ConstructLoop, PublishLoop, ClearLoop, DestroyLoop, eltVars
<1>. QED
  BY <1>1, <1>2, <1>3, <1>4, <1>5, <1>6 DEF ELTNext

(* A loop run by an EventLoopThread is an event loop.                       *)
LEMMA LoopInside == ELTSpec => Spec
<1>1. ELTInit => Init
  BY DEF ELTInit
<1>. QED
  BY <1>1, StepOfLoop, PTL DEF ELTSpec, Spec

(* ThreadInv is preserved; that leaving loop() leaves pc idle is the loop's *)
(* own invariant.                                                           *)
LEMMA ThreadStep ==
  ThreadInv /\ FlagsMatchPC' /\ [ELTNext]_eltVars => ThreadInv'
<1> SUFFICES ASSUME ThreadInv, FlagsMatchPC', [ELTNext]_eltVars
             PROVE  ThreadInv'
  OBVIOUS
<1> USE DEF ThreadInv
<1>1. ASSUME UNCHANGED <<pc, owner, thread, loopPtr, alive>>
      PROVE  ThreadInv'
  BY <1>1
<1>2. CASE StartLoop
  BY <1>2 DEF StartLoop, vars
<1>3. CASE StartLoopReturns
  BY <1>3 DEF StartLoopReturns, vars
<1>4. ASSUME NEW t \in Threads, NEW f \in Functors, Queues(t, f)
      PROVE  ThreadInv'
  BY <1>1, <1>4 DEF Queues, QueueFrom
<1>5. ASSUME NEW t \in Threads, WakesUp(t)
      PROVE  ThreadInv'
  BY <1>1, <1>5 DEF WakesUp, Wakeup
<1>6. CASE DestructorReadsLoop
  <2>1. CASE loopPtr
    BY <1>6, <2>1 DEF DestructorReadsLoop, vars
  <2>2. CASE ~loopPtr /\ thread = "none"
    BY <1>6, <2>2 DEF DestructorReadsLoop, vars
  <2>3. CASE ~loopPtr /\ thread # "none"
    BY <1>6, <2>3 DEF DestructorReadsLoop, vars
  <2>. QED
    BY <2>1, <2>2, <2>3
<1>7. CASE DestructorQuits
  BY <1>7 DEF DestructorQuits, QuitFrom
<1>8. CASE Joins
  BY <1>8 DEF Joins, vars
<1>9. CASE ConstructLoop
  BY <1>9 DEF ConstructLoop, vars
<1>10. CASE UserCode
  BY <1>1, <1>10 DEF UserCode, QueueInLoop, RunInLoop, Quit
<1>11. CASE PublishLoop
  BY <1>11 DEF PublishLoop, vars
<1>12. CASE RunLoop
  <2>1. CASE looping /\ ~looping'
    <3>1. pc' = "idle"
      BY <2>1 DEF FlagsMatchPC
    <3>. QED
      BY <1>12, <2>1, <3>1 DEF RunLoop
  <2>2. CASE ~(looping /\ ~looping')
    BY <1>12, <2>2 DEF RunLoop
  <2>. QED
    BY <2>1, <2>2
<1>13. CASE ClearLoop
  BY <1>13 DEF ClearLoop, vars
<1>14. CASE DestroyLoop
  BY <1>14 DEF DestroyLoop, vars
<1>15. CASE UNCHANGED eltVars
  BY <1>1, <1>15 DEF eltVars, vars
<1>. QED
  BY <1>2, <1>3, <1>4, <1>5, <1>6, <1>7, <1>8, <1>9, <1>10, <1>11, <1>12,
     <1>13, <1>14, <1>15 DEF ELTNext

----------------------------------------------------------------------------
(* startLoop() hands out only a live loop whose init callback has finished, *)
(* and the destructor returns only after the loop ran its batch to the end  *)
(* and was destroyed, whoever queues functors or calls quit() meanwhile.    *)
THEOREM PublishedLoopStaysReady == ELTSpec => []PublishedLoopIsReady
<1>1. ELTInit => ThreadInv
  BY DEF ELTInit, Init, ThreadInv
<1>2. IInv => FlagsMatchPC
  BY DEF IInv
<1>3. FlagsMatchPC /\ ThreadInv => PublishedLoopIsReady
  BY DEF FlagsMatchPC, ThreadInv, PublishedLoopIsReady
<1>. QED
  BY <1>1, <1>2, <1>3, ThreadStep, LoopInside, Invariance, PTL DEF ELTSpec

(* A loop that lives on another thread's stack, and is started and quit by  *)
(* its owner, is still a serial executor of what is queued with it.         *)
THEOREM LoopThreadIsExecutor == ELTSpec => ImplementsExecutor
  BY LoopInside, ExecutorRefinement

=============================================================================
