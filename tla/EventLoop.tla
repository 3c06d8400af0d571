------------------------------ MODULE EventLoop ------------------------------
(***************************************************************************)
(* The task-execution half of muduo::net::EventLoop: the loop() cycle, the  *)
(* pending-functor list that other threads append to, the eventfd that      *)
(* interrupts a blocking poll, and quit().                                  *)
(*                                                                         *)
(* One thread, the loop thread, runs loop() and every callback.  The other  *)
(* threads call queueInLoop(), runInLoop() and quit(); each of those calls  *)
(* first changes shared state and then, in a second step, writes the        *)
(* eventfd, so the loop thread can run between the two.                     *)
(***************************************************************************)
EXTENDS Naturals, Sequences, FiniteSets

CONSTANTS
  Threads,    \* the threads other than the loop thread that use the loop
  Functors,   \* the callbacks handed to the loop, each at most once
  Channels,   \* the user's channels registered with the poller
  WakeupChan  \* wakeupChannel_, the channel of the eventfd

ASSUME ChannelAssumption == WakeupChan \notin Channels

VARIABLES
  pc,                      \* where the loop thread is
  looping,                 \* looping_
  quit,                    \* quit_
  callingPendingFunctors,  \* callingPendingFunctors_
  activeChannels,          \* channels reported by poll, not yet handled
  pendingFunctors,         \* pendingFunctors_, guarded by mutex_
  functors,                \* doPendingFunctors()'s local list, what is left
  wakeupFd,                \* the eventfd's counter is positive
  tpc,                     \* where each other thread is
  enqueued,                \* history: functors in the order they were pushed
  executed,                \* history: functors in the order they were started
  inlined,                 \* history: functors runInLoop() ran on the spot
  queuedOutside            \* history: the loop thread pushed a functor while
                           \* not looping, and no batch was taken since

vars == <<pc, looping, quit, callingPendingFunctors, activeChannels,
          pendingFunctors, functors, wakeupFd, tpc, enqueued, executed,
          inlined, queuedOutside>>

----------------------------------------------------------------------------
(* The loop thread is outside loop() ("idle"), about to test quit_          *)
(* ("test"), inside poll() ("poll"), between two channels ("events"), in a  *)
(* channel's callback ("handleEvent"), between two functors ("functors") or *)
(* in a functor ("functor").                                                *)
LoopPC == {"idle", "test", "poll", "events", "handleEvent",
           "functors", "functor"}

(* Another thread is outside the loop's methods or, having pushed a functor *)
(* or stored quit_, about to call wakeup().                                 *)
ThreadPC == {"idle", "wakeup"}

(* The loop thread runs user code, which may call the loop's methods.       *)
InUserCode == pc \in {"idle", "handleEvent", "functor"}

(* A functor nobody handed to the loop yet.                                 *)
Fresh(f) == /\ f \notin inlined
            /\ \A i \in 1..Len(enqueued) : enqueued[i] # f

Init ==
  /\ pc = "idle"
  /\ looping = FALSE
  /\ quit = FALSE
  /\ callingPendingFunctors = FALSE
  /\ activeChannels = {}
  /\ pendingFunctors = <<>>
  /\ functors = <<>>
  /\ wakeupFd = FALSE
  /\ tpc = [t \in Threads |-> "idle"]
  /\ enqueued = <<>>
  /\ executed = <<>>
  /\ inlined = {}
  /\ queuedOutside = FALSE

----------------------------------------------------------------------------
(* The loop thread: loop(), poll and doPendingFunctors().                   *)

(* Entry of loop(): both flags are stored, quit_ unconditionally.           *)
Loop ==
  /\ pc = "idle"
  /\ ~looping
  /\ looping' = TRUE
  /\ quit' = FALSE
  /\ pc' = "test"
  /\ UNCHANGED <<callingPendingFunctors, activeChannels, pendingFunctors,
                 functors, wakeupFd, tpc, enqueued, executed, inlined,
                 queuedOutside>>

(* The while test; leaving it ends loop().                                  *)
TestQuit ==
  /\ pc = "test"
  /\ IF quit
     THEN /\ pc' = "idle"
          /\ looping' = FALSE
          /\ UNCHANGED activeChannels
     ELSE /\ pc' = "poll"
          /\ activeChannels' = {}
          /\ UNCHANGED looping
  /\ UNCHANGED <<quit, callingPendingFunctors, pendingFunctors, functors,
                 wakeupFd, tpc, enqueued, executed, inlined, queuedOutside>>

(* poll() returns the channels in S.  A user channel becomes readable or    *)
(* writable at any time; wakeupChannel_ is readable while the eventfd's     *)
(* counter is positive.  S may be a part of what is ready, since the event  *)
(* list handed to epoll_wait is finite, and is empty after the time-out.    *)
PollReturns(S) ==
  /\ pc = "poll"
  /\ WakeupChan \in S => wakeupFd
  /\ activeChannels' = S
  /\ pc' = "events"
  /\ UNCHANGED <<looping, quit, callingPendingFunctors, pendingFunctors,
                 functors, wakeupFd, tpc, enqueued, executed, inlined,
                 queuedOutside>>

(* One turn of the loop over activeChannels_: wakeupChannel_'s callback is  *)
(* handleRead(), which empties the eventfd; any other runs user code.       *)
HandleEvent(c) ==
  /\ pc = "events"
  /\ c \in activeChannels
  /\ activeChannels' = activeChannels \ {c}
  /\ IF c = WakeupChan
     THEN /\ wakeupFd' = FALSE
          /\ UNCHANGED pc
     ELSE /\ pc' = "handleEvent"
          /\ UNCHANGED wakeupFd
  /\ UNCHANGED <<looping, quit, callingPendingFunctors, pendingFunctors,
                 functors, tpc, enqueued, executed, inlined, queuedOutside>>

(* The callback of a channel, or a functor, returns.                        *)
CallbackReturns ==
  /\ \/ pc = "handleEvent" /\ pc' = "events"
     \/ pc = "functor" /\ pc' = "functors"
  /\ UNCHANGED <<looping, quit, callingPendingFunctors, activeChannels,
                 pendingFunctors, functors, wakeupFd, tpc, enqueued, executed,
                 inlined, queuedOutside>>

(* doPendingFunctors() marks itself running and takes the whole list.       *)
DoPendingFunctors ==
  /\ pc = "events"
  /\ activeChannels = {}
  /\ callingPendingFunctors' = TRUE
  /\ functors' = pendingFunctors
  /\ pendingFunctors' = <<>>
  /\ queuedOutside' = FALSE
  /\ pc' = "functors"
  /\ UNCHANGED <<looping, quit, activeChannels, wakeupFd, tpc, enqueued,
                 executed, inlined>>

(* Mutant: the batch is run from its back.                                  *)
RunFunctorLast ==
  /\ pc = "functors"
  /\ functors # <<>>
  /\ executed' = Append(executed, functors[Len(functors)])
  /\ functors' = SubSeq(functors, 1, Len(functors) - 1)
  /\ pc' = "functor"
  /\ UNCHANGED <<looping, quit, callingPendingFunctors, activeChannels,
                 pendingFunctors, wakeupFd, tpc, enqueued, inlined,
                 queuedOutside>>

(* The next functor of the batch starts.                                    *)
RunFunctor ==
  /\ pc = "functors"
  /\ functors # <<>>
  /\ executed' = Append(executed, Head(functors))
  /\ functors' = Tail(functors)
  /\ pc' = "functor"
  /\ UNCHANGED <<looping, quit, callingPendingFunctors, activeChannels,
                 pendingFunctors, wakeupFd, tpc, enqueued, inlined,
                 queuedOutside>>

(* The batch is done; back to the while test.                               *)
EndPendingFunctors ==
  /\ pc = "functors"
  /\ functors = <<>>
  /\ callingPendingFunctors' = FALSE
  /\ pc' = "test"
  /\ UNCHANGED <<looping, quit, activeChannels, pendingFunctors, functors,
                 wakeupFd, tpc, enqueued, executed, inlined, queuedOutside>>

----------------------------------------------------------------------------
(* The loop's methods called by the loop thread itself, from user code.     *)

(* The loop thread needs a wake-up only while doPendingFunctors() runs: its  *)
(* batch is already taken, so the functor is for the next iteration.        *)
NeedsWakeup == callingPendingFunctors

(* queueInLoop(): push, and wake the loop up if needed.                     *)
QueueInLoop(f) ==
  /\ InUserCode
  /\ Fresh(f)
  /\ pendingFunctors' = Append(pendingFunctors, f)
  /\ enqueued' = Append(enqueued, f)
  /\ wakeupFd' = (wakeupFd \/ NeedsWakeup)
  /\ queuedOutside' = (queuedOutside \/ ~looping)
  /\ UNCHANGED <<pc, looping, quit, callingPendingFunctors, activeChannels,
                 functors, tpc, executed, inlined>>

(* runInLoop(): the functor is called on the spot.  What its body does is   *)
(* more user code, so it is covered by the state the thread stays in.       *)
RunInLoop(f) ==
  /\ InUserCode
  /\ Fresh(f)
  /\ inlined' = inlined \cup {f}
  /\ UNCHANGED <<pc, looping, quit, callingPendingFunctors, activeChannels,
                 pendingFunctors, functors, wakeupFd, tpc, enqueued, executed,
                 queuedOutside>>

(* quit(): the loop thread needs no wake-up, the while test comes next.     *)
Quit ==
  /\ InUserCode
  /\ quit' = TRUE
  /\ UNCHANGED <<pc, looping, callingPendingFunctors, activeChannels,
                 pendingFunctors, functors, wakeupFd, tpc, enqueued, executed,
                 inlined, queuedOutside>>

----------------------------------------------------------------------------
(* The same methods called by another thread, in two steps each.            *)

(* Mutant: the push is not followed by a wake-up.                           *)
QueueFromSilently(t, f) ==
  /\ tpc[t] = "idle"
  /\ Fresh(f)
  /\ pendingFunctors' = Append(pendingFunctors, f)
  /\ enqueued' = Append(enqueued, f)
  /\ UNCHANGED <<pc, looping, quit, callingPendingFunctors, activeChannels,
                 functors, wakeupFd, tpc, executed, inlined, queuedOutside>>

(* queueInLoop(), or runInLoop() which calls it: push under the mutex.      *)
QueueFrom(t, f) ==
  /\ tpc[t] = "idle"
  /\ Fresh(f)
  /\ pendingFunctors' = Append(pendingFunctors, f)
  /\ enqueued' = Append(enqueued, f)
  /\ tpc' = [tpc EXCEPT ![t] = "wakeup"]
  /\ UNCHANGED <<pc, looping, quit, callingPendingFunctors, activeChannels,
                 functors, wakeupFd, executed, inlined, queuedOutside>>

(* quit(): store quit_.                                                     *)
QuitFrom(t) ==
  /\ tpc[t] = "idle"
  /\ quit' = TRUE
  /\ tpc' = [tpc EXCEPT ![t] = "wakeup"]
  /\ UNCHANGED <<pc, looping, callingPendingFunctors, activeChannels,
                 pendingFunctors, functors, wakeupFd, enqueued, executed,
                 inlined, queuedOutside>>

(* wakeup(): add one to the eventfd's counter, which makes it positive.      *)
Wakeup(t) ==
  /\ tpc[t] = "wakeup"
  /\ wakeupFd' = TRUE
  /\ tpc' = [tpc EXCEPT ![t] = "idle"]
  /\ UNCHANGED <<pc, looping, quit, callingPendingFunctors, activeChannels,
                 pendingFunctors, functors, enqueued, executed, inlined,
                 queuedOutside>>

----------------------------------------------------------------------------
(* The loop thread's own steps through loop().                              *)
LoopStep ==
  \/ Loop
  \/ TestQuit
  \/ \E S \in SUBSET (Channels \cup {WakeupChan}) : PollReturns(S)
  \/ \E c \in Channels \cup {WakeupChan} : HandleEvent(c)
  \/ CallbackReturns
  \/ DoPendingFunctors
  \/ RunFunctor
  \/ EndPendingFunctors

Next ==
  \/ LoopStep
  \/ \E f \in Functors : QueueInLoop(f) \/ RunInLoop(f)
  \/ Quit
  \/ \E t \in Threads : \/ \E f \in Functors : QueueFrom(t, f)
                        \/ QuitFrom(t)
                        \/ Wakeup(t)

Spec == Init /\ [][Next]_vars

(* The operating system runs every thread that can run, callbacks return,   *)
(* and poll() returns once the eventfd is readable.  Nothing else is        *)
(* assumed to end a poll: no channel event and no time-out.                 *)
Fairness ==
  /\ WF_vars(TestQuit)
  /\ WF_vars(\E S \in SUBSET (Channels \cup {WakeupChan}) :
                wakeupFd /\ PollReturns(S))
  /\ WF_vars(\E c \in Channels \cup {WakeupChan} : HandleEvent(c))
  /\ WF_vars(CallbackReturns)
  /\ WF_vars(DoPendingFunctors)
  /\ WF_vars(RunFunctor)
  /\ WF_vars(EndPendingFunctors)
  /\ \A t \in Threads : WF_vars(Wakeup(t))

FairSpec == Spec /\ Fairness

----------------------------------------------------------------------------
(* Types of the variables above.                                            *)
TypeOK ==
  /\ pc \in LoopPC
  /\ looping \in BOOLEAN
  /\ quit \in BOOLEAN
  /\ callingPendingFunctors \in BOOLEAN
  /\ activeChannels \subseteq Channels \cup {WakeupChan}
  /\ pendingFunctors \in Seq(Functors)
  /\ functors \in Seq(Functors)
  /\ wakeupFd \in BOOLEAN
  /\ tpc \in [Threads -> ThreadPC]
  /\ enqueued \in Seq(Functors)
  /\ executed \in Seq(Functors)
  /\ inlined \subseteq Functors
  /\ queuedOutside \in BOOLEAN

(* Some thread has published its change and is about to write the eventfd.  *)
WakeupOnItsWay == wakeupFd \/ \E t \in Threads : tpc[t] = "wakeup"

(* queueInLoop's wake-up rule is sufficient: the loop thread never sits in  *)
(* poll() with functors waiting unless a wake-up is there or on its way.    *)
(* The one exception is a functor the loop thread queued before entering    *)
(* loop(), which writes no eventfd and waits for the poll to time out.      *)
NoStrandedFunctor ==
  pc = "poll" /\ pendingFunctors # <<>> => WakeupOnItsWay \/ queuedOutside

(* quit()'s wake-up rule is sufficient: the loop thread never sits in poll()*)
(* with quit_ set unless a wake-up is there or on its way.                  *)
QuitInterruptsPoll == pc = "poll" /\ quit => WakeupOnItsWay

(* Functors run in the order they were pushed, whichever threads pushed     *)
(* them; each runs once, and none is lost between the list and the batch.   *)
RunInQueueOrder == enqueued = executed \o functors \o pendingFunctors

(* The loop is a serial executor of the functors queued with it: splitting  *)
(* its queue into the shared list and the running batch is invisible.       *)
Executor == INSTANCE SerialExecutor WITH
              Tasks <- Functors,
              queue <- functors \o pendingFunctors,
              started <- executed

ImplementsExecutor == Executor!Spec

(* A functor queued by another thread while loop() runs is executed, unless *)
(* the loop is told to quit; no poll time-out is needed for it.             *)
QueuedFunctorRuns ==
  \A f \in Functors :
    /\ looping /\ ~queuedOutside
    /\ \E i \in 1..Len(pendingFunctors) : pendingFunctors[i] = f
    ~> quit \/ \E i \in 1..Len(executed) : executed[i] = f

(* Once quit() has been called during loop(), loop() returns.               *)
QuitEndsLoop == (looping /\ quit) ~> ~looping

=============================================================================
