------------------------------ MODULE ThreadPool ------------------------------
(***************************************************************************)
(* muduo::ThreadPool: producers call run() and submit(), one thread starts  *)
(* and stops the pool, workers take tasks from their own queue or steal     *)
(* from another's.  Each atomic operation, each lock region and each        *)
(* semaphore operation is a step.  stop() destroys what producers that are  *)
(* still inside run() use; that is undefined: the model records it and      *)
(* stops there.                                                             *)
(***************************************************************************)
EXTENDS Integers, Sequences, SequencesExt

CONSTANTS
  Producers,     \* threads that hand in tasks
  Tasks, None,   \* tasks, each handed in once; no task
  Capacities,    \* arguments of setMaxQueueSize(), 0 for no limit
  NumThreads,    \* arguments of start()
  MaxStarts      \* bound: calls of start()

ASSUME PoolAssumption ==
  /\ Capacities \subseteq Nat /\ Capacities # {}
  /\ NumThreads \subseteq Nat
  /\ \E m \in NumThreads : \A n \in NumThreads : n <= m
  /\ None \notin Tasks
  /\ MaxStarts \in Nat

VARIABLES
  running, started, starts,     \* running_, started_; how often it was started
  maxQueueSize, slots, waiting, \* maxQueueSize_, queueSlots_, waitingProducers_
  size,                         \* workers_.size()
  next,                         \* nextWorker_, modulo the size
  queue, signal,                \* of each WorkerState
  queuedTasks,                  \* queuedTasks_; -1 is how it wraps around
  ppc, wpc, spc,                \* where producers, workers and stop() are
  hand, doing,                  \* the task of each producer and worker
  target,                       \* the worker whose queue a producer found empty
  racing,                       \* history: producers were inside at stop()
  phase,                        \* history: of each task
  misuse                        \* history: destroyed state was used

Workers == 1..Max(NumThreads)

poolVars == <<running, started, starts, maxQueueSize, size, spc, racing, misuse>>
slotVars == <<slots, waiting>>
queueVars == <<next, queue, queuedTasks>>
vars == <<poolVars, slotVars, queueVars, signal, ppc, wpc, hand, doing, target, phase>>

bounded == maxQueueSize > 0

Init ==
  /\ running = FALSE /\ started = FALSE /\ starts = 0
  /\ maxQueueSize \in Capacities /\ slots = 0 /\ waiting = 0
  /\ size = 0 /\ next = 0
  /\ queue = [w \in Workers |-> <<>>] /\ signal = [w \in Workers |-> 0]
  /\ queuedTasks = 0
  /\ ppc = [p \in Producers |-> "idle"] /\ wpc = [w \in Workers |-> "none"]
  /\ spc = "idle"
  /\ hand = [p \in Producers |-> None] /\ doing = [w \in Workers |-> None]
  /\ target = [p \in Producers |-> 0]
  /\ racing = FALSE
  /\ phase = [t \in Tasks |-> "new"] /\ misuse = FALSE

----------------------------------------------------------------------------
(* start() and setMaxQueueSize(), when the pool is not running.             *)
Start(n) ==
  /\ ~running /\ spc = "idle" /\ starts < MaxStarts
  /\ running' = TRUE /\ started' = TRUE /\ starts' = starts + 1
  /\ slots' = maxQueueSize /\ waiting' = 0
  /\ size' = n /\ next' = 0 /\ queuedTasks' = 0
  /\ queue' = [w \in Workers |-> <<>>] /\ signal' = [w \in Workers |-> 0]
  /\ wpc' = [w \in Workers |-> IF w <= n THEN "check" ELSE "none"]
  /\ UNCHANGED <<maxQueueSize, spc, racing, misuse, ppc, hand, doing, target, phase>>

SetMaxQueueSize(m) ==
  /\ ~running /\ spc = "idle" /\ starts < MaxStarts
  /\ maxQueueSize' = m
  /\ UNCHANGED <<running, started, starts, size, spc, racing, misuse, slotVars, queueVars,
                 signal, ppc, wpc, hand, doing, target, phase>>

----------------------------------------------------------------------------
(* A producer.  Ends: the call returns, and its task becomes new.           *)
Ends(p, new) ==
  /\ ppc' = [ppc EXCEPT ![p] = "idle"]
  /\ hand' = [hand EXCEPT ![p] = None]
  /\ phase' = [phase EXCEPT ![hand[p]] = new]

Goes(p, to) == ppc' = [ppc EXCEPT ![p] = to] /\ UNCHANGED <<hand, phase>>

(* run() and submit() up to enqueueTask().  Without threads the task runs   *)
(* here; after stop() submit() does so as well, while run() drops it.       *)
Call(p, t, submit) ==
  /\ ppc[p] = "idle" /\ phase[t] = "new" /\ \A q \in Producers : hand[q] # t
  /\ IF running /\ size > 0
     THEN /\ ppc' = [ppc EXCEPT ![p] = "enqueue"]
          /\ hand' = [hand EXCEPT ![p] = t]
          /\ UNCHANGED phase
     ELSE /\ phase' = [phase EXCEPT ![t] =
               IF running \/ ~started \/ submit THEN "done" ELSE "dropped"]
          /\ UNCHANGED <<ppc, hand>>
  /\ UNCHANGED <<poolVars, slotVars, queueVars, signal, wpc, doing, target>>

(* enqueueTask(): the second look at running_, then waitingProducers_++.    *)
Enqueue(p) ==
  /\ ppc[p] = "enqueue"
  /\ IF ~running THEN Ends(p, "dropped") /\ UNCHANGED waiting
     ELSE IF bounded THEN Goes(p, "acquire") /\ waiting' = waiting + 1
     ELSE Goes(p, "push") /\ UNCHANGED waiting
  /\ UNCHANGED <<poolVars, slots, queueVars, signal, wpc, doing, target>>

(* Mutant: a producer does not wait for a free place.                       *)
SlotFreeAlways == TRUE

SlotFree == slots > 0

AcquireSlot(p) ==
  /\ ppc[p] = "acquire"
  /\ SlotFree
  /\ slots' = slots - 1
  /\ Goes(p, "acquired")
  /\ UNCHANGED <<poolVars, waiting, queueVars, signal, wpc, doing, target>>

StopWaiting(p) ==
  /\ ppc[p] = "acquired"
  /\ waiting' = waiting - 1
  /\ Goes(p, "recheck")
  /\ UNCHANGED <<poolVars, slots, queueVars, signal, wpc, doing, target>>

(* The look at running_ after the wait: the slot is given back.             *)
Recheck(p) ==
  /\ ppc[p] = "recheck"
  /\ IF running THEN Goes(p, "push") /\ UNCHANGED slots
                ELSE Ends(p, "dropped") /\ slots' = slots + 1
  /\ UNCHANGED <<poolVars, waiting, queueVars, signal, wpc, doing, target>>

(* Mutant: a worker is woken when there was something in its queue.         *)
NeedsWakeInverted(w) == queue[w] # <<>>

NeedsWake(w) == queue[w] = <<>>

(* enqueueSharded() up to the unlocking; a pool that was restarted without  *)
(* threads drops the task.                                                  *)
Push(p) ==
  /\ ppc[p] = "push"
  /\ IF size = 0 THEN Ends(p, "dropped") /\ UNCHANGED <<next, queue, target>>
     ELSE LET w == next + 1 IN
       /\ next' = (next + 1) % size
       /\ queue' = [queue EXCEPT ![w] = Append(@, hand[p])]
       /\ target' = [target EXCEPT ![p] = IF NeedsWake(w) THEN w ELSE 0]
       /\ ppc' = [ppc EXCEPT ![p] = "count"]
       /\ phase' = [phase EXCEPT ![hand[p]] = "waiting"]
       /\ UNCHANGED hand
  /\ UNCHANGED <<poolVars, slotVars, queuedTasks, signal, wpc, doing>>

Count(p) ==
  /\ ppc[p] = "count"
  /\ queuedTasks' = queuedTasks + 1
  /\ ppc' = [ppc EXCEPT ![p] = IF target[p] = 0 THEN "idle" ELSE "wake"]
  /\ hand' = [hand EXCEPT ![p] = None]
  /\ UNCHANGED <<poolVars, slotVars, next, queue, signal, wpc, doing, target, phase>>

(* release() of a binary_semaphore that is not zero is undefined: it counts *)
(* on, or it stays.                                                         *)
Released(n) == IF n = 0 THEN {1} ELSE {n, 2}

Wake(p) ==
  /\ ppc[p] = "wake"
  /\ \E n \in Released(signal[target[p]]) : signal' = [signal EXCEPT ![target[p]] = n]
  /\ target' = [target EXCEPT ![p] = 0]
  /\ ppc' = [ppc EXCEPT ![p] = "idle"]
  /\ UNCHANGED <<poolVars, slotVars, queueVars, wpc, hand, doing, phase>>

ProducerStep(p) ==
  \/ Enqueue(p) \/ AcquireSlot(p) \/ StopWaiting(p) \/ Recheck(p)
  \/ Push(p) \/ Count(p) \/ Wake(p)

----------------------------------------------------------------------------
(* A worker: runInThread() and popSharded().                                *)
CheckRunning(w) ==
  /\ wpc[w] = "check"
  /\ wpc' = [wpc EXCEPT ![w] = IF running THEN "own" ELSE "done"]
  /\ UNCHANGED <<poolVars, slotVars, queueVars, signal, ppc, hand, doing, target, phase>>

(* Mutant: the place of a task that was taken is not given back.            *)
SlotKept == slots

SlotReleased == IF bounded THEN slots + 1 ELSE slots

(* Worker w takes task t; victim's queue keeps rest.                        *)
Takes(w, t, victim, rest) ==
  /\ queue' = [queue EXCEPT ![victim] = rest]
  /\ queuedTasks' = queuedTasks - 1
  /\ slots' = SlotReleased
  /\ doing' = [doing EXCEPT ![w] = t]
  /\ phase' = [phase EXCEPT ![t] = "running"]
  /\ wpc' = [wpc EXCEPT ![w] = "run"]

(* popOwn, from the front.                                                  *)
PopOwn(w) ==
  /\ wpc[w] = "own"
  /\ IF queue[w] # <<>>
     THEN Takes(w, Head(queue[w]), w, Tail(queue[w]))
     ELSE /\ wpc' = [wpc EXCEPT ![w] = "look"]
          /\ UNCHANGED <<queue, queuedTasks, slots, doing, phase>>
  /\ UNCHANGED <<poolVars, waiting, next, signal, ppc, hand, target>>

Look(w) ==
  /\ wpc[w] = "look"
  /\ wpc' = [wpc EXCEPT ![w] = IF queuedTasks = 0 THEN "sleep" ELSE "steal"]
  /\ UNCHANGED <<poolVars, slotVars, queueVars, signal, ppc, hand, doing, target, phase>>

Stolen(q) == Front(q)

(* From the back of another queue; a queue that is locked is passed over,   *)
(* so that the worker may also find none.                                   *)
Steal(w) ==
  /\ wpc[w] = "steal"
  /\ \/ \E v \in 1..size \ {w} :
          queue[v] # <<>> /\ Takes(w, Last(queue[v]), v, Stolen(queue[v]))
     \/ /\ wpc' = [wpc EXCEPT ![w] = "sleep"]
        /\ UNCHANGED <<queue, queuedTasks, slots, doing, phase>>
  /\ UNCHANGED <<poolVars, waiting, next, signal, ppc, hand, target>>

Sleep(w) ==
  /\ wpc[w] = "sleep"
  /\ signal[w] > 0
  /\ signal' = [signal EXCEPT ![w] = @ - 1]
  /\ wpc' = [wpc EXCEPT ![w] = "check"]
  /\ UNCHANGED <<poolVars, slotVars, queueVars, ppc, hand, doing, target, phase>>

RunTask(w) ==
  /\ wpc[w] = "run"
  /\ phase' = [phase EXCEPT ![doing[w]] = "done"]
  /\ doing' = [doing EXCEPT ![w] = None]
  /\ wpc' = [wpc EXCEPT ![w] = "check"]
  /\ UNCHANGED <<poolVars, slotVars, queueVars, signal, ppc, hand, target>>

WorkerStep(w) ==
  CheckRunning(w) \/ PopOwn(w) \/ Look(w) \/ Steal(w) \/ Sleep(w) \/ RunTask(w)

----------------------------------------------------------------------------
(* stop(), step by step.                                                    *)
Stop ==
  /\ running /\ spc = "idle"
  /\ running' = FALSE
  /\ spc' = "slots"
  /\ racing' = \E p \in Producers : ppc[p] # "idle"
  /\ UNCHANGED <<started, starts, maxQueueSize, size, misuse, slotVars, queueVars, signal,
                 ppc, wpc, hand, doing, target, phase>>

ReleaseWaiting ==
  /\ spc = "slots"
  /\ spc' = "signal"
  /\ IF bounded /\ waiting > 0 THEN slots' = slots + waiting ELSE UNCHANGED slots
  /\ waiting' = IF bounded THEN 0 ELSE waiting
  /\ UNCHANGED <<running, started, starts, maxQueueSize, size, racing, misuse, queueVars,
                 signal, ppc, wpc, hand, doing, target, phase>>

SignalAll ==
  signal' \in {s \in [Workers -> 0..2] :
                 \A w \in Workers : s[w] \in IF w <= size THEN Released(signal[w])
                                                          ELSE {signal[w]}}

SignalWorkers ==
  /\ spc = "signal"
  /\ spc' = "join"
  /\ SignalAll
  /\ UNCHANGED <<running, started, starts, maxQueueSize, size, racing, misuse, slotVars,
                 queueVars, ppc, wpc, hand, doing, target, phase>>

Joined == \A w \in 1..size : wpc[w] = "done"

(* join(), then the queues and the semaphores are destroyed with the tasks  *)
(* in them.                                                                 *)
Clear ==
  /\ spc = "join" /\ Joined
  /\ spc' = "idle"
  /\ misuse' = \/ \E p \in Producers : ppc[p] \notin {"idle", "enqueue"}
               \/ \E w \in 1..size : wpc[w] # "done"
  /\ size' = 0 /\ slots' = 0 /\ queuedTasks' = 0
  /\ queue' = [w \in Workers |-> <<>>]
  /\ phase' = [t \in Tasks |-> IF phase[t] = "waiting" THEN "dropped" ELSE phase[t]]
  /\ UNCHANGED <<running, started, starts, maxQueueSize, racing, waiting, next, signal, ppc,
                 wpc, hand, doing, target>>

StopStep == ReleaseWaiting \/ SignalWorkers \/ Clear

Next ==
  /\ ~misuse
  /\ \/ \E n \in NumThreads : Start(n)
     \/ \E m \in Capacities : SetMaxQueueSize(m)
     \/ Stop \/ StopStep
     \/ \E p \in Producers, t \in Tasks, submit \in BOOLEAN : Call(p, t, submit)
     \/ \E p \in Producers : ProducerStep(p)
     \/ \E w \in Workers : WorkerStep(w)

Spec == Init /\ [][Next]_vars

(* Threads are scheduled and tasks return.                                  *)
Fairness ==
  /\ \A p \in Producers : WF_vars(~misuse /\ ProducerStep(p))
  /\ \A w \in Workers : WF_vars(~misuse /\ WorkerStep(w))
  /\ WF_vars(~misuse /\ StopStep)

FairSpec == Spec /\ Fairness

----------------------------------------------------------------------------
(* A worker with tasks in its queue does not sleep for good: it is about to *)
(* look, its signal is set, or the producer that found the queue empty is   *)
(* about to set it.                                                         *)
NoLostWakeup ==
  \A w \in 1..size :
    queue[w] # <<>> /\ wpc[w] \in {"look", "steal", "sleep"} =>
      signal[w] > 0 \/ \E p \in Producers : ppc[p] \in {"count", "wake"} /\ target[p] = w

(* queuedTasks_ lags behind the queues by the producers that have pushed    *)
(* and not yet counted; it wraps below zero only while there are some.      *)
CounterFollowsQueues ==
  size > 0 => queuedTasks + Cardinality({p \in Producers : ppc[p] = "count"})
                = Cardinality({t \in Tasks : phase[t] = "waiting"})

(* A pool that nobody is handing tasks to when it is stopped can be         *)
(* destroyed: no thread still uses what stop() destroys.                    *)
QuietStopIsSafe == misuse => racing

(* Every task that was queued is run, or dropped by stop(), also if its     *)
(* worker was asleep and if others steal.                                   *)
QueuedTaskEnds == \A t \in Tasks : phase[t] = "waiting" ~> phase[t] # "waiting" \/ misuse

(* Nobody blocks for ever: a producer that waits for a place gets one while *)
(* workers are running, and stop() returns, also with producers waiting and *)
(* workers asleep.                                                          *)
NobodyBlocks ==
  /\ \A p \in Producers : ppc[p] = "acquire" ~> ppc[p] # "acquire" \/ ~running \/ size = 0
  /\ spc # "idle" ~> spc = "idle"

(* Tasks run at most once each, and wait within the limit of                *)
(* setMaxQueueSize(): module TaskPool.                                      *)
Abstract == INSTANCE TaskPool WITH capacity <- maxQueueSize
ImplementsTaskPool == Abstract!Spec

=============================================================================
