--------------------------- MODULE ThreadPoolProofs ---------------------------
(***************************************************************************)
(* Proofs about ThreadPool, for any producers, tasks, queue limits and      *)
(* numbers of threads: no worker sleeps on tasks of its own, a pool that is *)
(* stopped while nobody is inside run() can be destroyed, the counter of    *)
(* queued tasks is exact, and the pool implements module TaskPool.          *)
(***************************************************************************)
EXTENDS ThreadPool, FiniteSetTheorems, SequenceTheorems, TLAPS

(* What the two arguments need of the state.                                *)
PoolTypes ==
  /\ running \in BOOLEAN /\ misuse \in BOOLEAN /\ racing \in BOOLEAN
  /\ size \in Nat /\ 1..size \subseteq Workers
  /\ next \in Nat /\ (size > 0 => next < size)
  /\ DOMAIN queue = Workers
  /\ signal \in [Workers -> Nat]
  /\ DOMAIN wpc = Workers /\ DOMAIN ppc = Producers
  /\ target \in [Producers -> Nat]

(* NumThreads has a largest member, which Max chooses.                      *)
LEMMA MaxFacts == Max(NumThreads) \in Nat /\ \A n \in NumThreads : n <= Max(NumThreads)
BY PoolAssumption DEF Max

(* release() leaves the semaphore set.                                      *)
LEMMA ReleasedFacts ==
  ASSUME NEW n \in Nat, NEW k \in Released(n)
  PROVE  k \in Nat /\ k > 0
BY DEF Released

LEMMA PoolTypesInit == Init => PoolTypes
<1> SUFFICES ASSUME Init
             PROVE  PoolTypes
  OBVIOUS
<1>1. running \in BOOLEAN /\ misuse \in BOOLEAN /\ racing \in BOOLEAN
  BY Zenon DEF Init
<1>2. size \in Nat /\ 1..size \subseteq Workers /\ next \in Nat /\ (size > 0 => next < size)
  BY DEF Init
<1>3. /\ DOMAIN queue = Workers /\ signal \in [Workers -> Nat]
      /\ DOMAIN wpc = Workers /\ DOMAIN ppc = Producers
      /\ target \in [Producers -> Nat]
  BY DEF Init
<1>. QED
  BY <1>1, <1>2, <1>3 DEF PoolTypes

LEMMA PoolTypesStep == PoolTypes /\ [Next]_vars => PoolTypes'
<1> SUFFICES ASSUME PoolTypes, [Next]_vars
             PROVE  PoolTypes'
  OBVIOUS
<1> USE DEF PoolTypes, poolVars, slotVars, queueVars
<1>1. ASSUME NEW n \in NumThreads, Start(n)
      PROVE  PoolTypes'
  BY <1>1, MaxFacts, PoolAssumption DEF Start, Workers
<1>2. ASSUME NEW m \in Capacities, SetMaxQueueSize(m)
      PROVE  PoolTypes'
  BY <1>2 DEF SetMaxQueueSize
<1>3. CASE Stop
  BY <1>3 DEF Stop
<1>4. CASE ReleaseWaiting
  BY <1>4 DEF ReleaseWaiting
<1>5. CASE SignalWorkers
  BY <1>5 DEF SignalWorkers, SignalAll
<1>6. CASE Clear
  BY <1>6 DEF Clear
<1>7. ASSUME NEW p \in Producers, NEW t \in Tasks, NEW submit \in BOOLEAN, Call(p, t, submit)
      PROVE  PoolTypes'
  BY <1>7 DEF Call
<1>8. ASSUME NEW p \in Producers, Enqueue(p)
      PROVE  PoolTypes'
  BY <1>8 DEF Enqueue, Ends, Goes
<1>9. ASSUME NEW p \in Producers, AcquireSlot(p)
      PROVE  PoolTypes'
  BY <1>9 DEF AcquireSlot, Goes
<1>10. ASSUME NEW p \in Producers, StopWaiting(p)
       PROVE  PoolTypes'
  BY <1>10 DEF StopWaiting, Goes
<1>11. ASSUME NEW p \in Producers, Recheck(p)
       PROVE  PoolTypes'
  BY <1>11 DEF Recheck, Ends, Goes
<1>12. ASSUME NEW p \in Producers, Push(p)
       PROVE  PoolTypes'
  <2>1. CASE size = 0
    BY <1>12, <2>1 DEF Push, Ends
  <2>2. CASE size # 0
    <3>1. (next + 1) % size \in Nat /\ (next + 1) % size < size
      BY <2>2
    <3>. QED
      BY <1>12, <2>2, <3>1 DEF Push
  <2>. QED
    BY <2>1, <2>2
<1>13. ASSUME NEW p \in Producers, Count(p)
       PROVE  PoolTypes'
  BY <1>13 DEF Count
<1>14. ASSUME NEW p \in Producers, Wake(p)
       PROVE  PoolTypes'
  <2>1. PICK n \in Released(signal[target[p]]) : signal' = [signal EXCEPT ![target[p]] = n]
    BY <1>14 DEF Wake
  <2>2. target[p] \in Workers => n \in Nat
    BY <2>1, ReleasedFacts
  <2>. QED
    BY <1>14, <2>1, <2>2 DEF Wake
<1>15. ASSUME NEW w \in Workers, CheckRunning(w)
       PROVE  PoolTypes'
  BY <1>15 DEF CheckRunning
<1>16. ASSUME NEW w \in Workers, PopOwn(w)
       PROVE  PoolTypes'
  BY <1>16 DEF PopOwn, Takes
<1>17. ASSUME NEW w \in Workers, Look(w)
       PROVE  PoolTypes'
  BY <1>17 DEF Look
<1>18. ASSUME NEW w \in Workers, Steal(w)
       PROVE  PoolTypes'
  BY <1>18 DEF Steal, Takes
<1>19. ASSUME NEW w \in Workers, Sleep(w)
       PROVE  PoolTypes'
  BY <1>19 DEF Sleep
<1>20. ASSUME NEW w \in Workers, RunTask(w)
       PROVE  PoolTypes'
  BY <1>20 DEF RunTask
<1>21. CASE UNCHANGED vars
  BY <1>21 DEF vars
<1>. QED
  BY <1>1, <1>2, <1>3, <1>4, <1>5, <1>6, <1>7, <1>8, <1>9, <1>10, <1>11, <1>12, <1>13,
     <1>14, <1>15, <1>16, <1>17, <1>18, <1>19, <1>20, <1>21
     DEF Next, StopStep, ProducerStep, WorkerStep

----------------------------------------------------------------------------
(* A step of Next keeps NoLostWakeup: a queue becomes nonempty only in      *)
(* Push, which leaves a producer behind that will release the semaphore;    *)
(* that producer leaves only in Wake, which releases it; and the semaphore  *)
(* is taken only in Sleep, after which the worker looks again.              *)
LEMMA NoLostWakeupStep == PoolTypes /\ NoLostWakeup /\ [Next]_vars => NoLostWakeup'
<1> SUFFICES ASSUME PoolTypes, NoLostWakeup, [Next]_vars,
                    NEW w \in 1..size', queue'[w] # <<>>,
                    wpc'[w] \in {"look", "steal", "sleep"}
             PROVE  \/ signal'[w] > 0
                    \/ \E p \in Producers : ppc'[p] \in {"count", "wake"} /\ target'[p] = w
  BY DEF NoLostWakeup
<1> DEFINE Waker(p) == ppc[p] \in {"count", "wake"} /\ target[p] = w
<1> USE DEF PoolTypes, poolVars, slotVars, queueVars
<1>0. ASSUME size' = size, queue[w] # <<>>, wpc[w] \in {"look", "steal", "sleep"}
      PROVE  signal[w] > 0 \/ \E p \in Producers : Waker(p)
  BY <1>0 DEF NoLostWakeup
<1>1. ASSUME NEW n \in NumThreads, Start(n)
      PROVE  FALSE
  <2>1. w \in Workers
    BY <1>1, MaxFacts, PoolAssumption DEF Start, Workers
  <2>. QED
    BY <1>1, <2>1 DEF Start
<1>2. ASSUME NEW m \in Capacities, SetMaxQueueSize(m)
      PROVE  signal'[w] > 0 \/ \E p \in Producers : Waker(p)'
  BY <1>0, <1>2 DEF SetMaxQueueSize
<1>3. CASE Stop
  BY <1>0, <1>3 DEF Stop
<1>4. CASE ReleaseWaiting
  BY <1>0, <1>4 DEF ReleaseWaiting
<1>5. CASE SignalWorkers
  <2>1. signal'[w] \in Released(signal[w])
    BY <1>5 DEF SignalWorkers, SignalAll
  <2>. QED
    BY <1>5, <2>1, ReleasedFacts DEF SignalWorkers
<1>6. CASE Clear
  BY <1>6 DEF Clear
<1>7. ASSUME NEW p \in Producers, NEW t \in Tasks, NEW submit \in BOOLEAN, Call(p, t, submit)
      PROVE  signal'[w] > 0 \/ \E q \in Producers : Waker(q)'
  BY <1>0, <1>7 DEF Call
<1>8. ASSUME NEW p \in Producers, Enqueue(p)
      PROVE  signal'[w] > 0 \/ \E q \in Producers : Waker(q)'
  BY <1>0, <1>8 DEF Enqueue, Ends, Goes
<1>9. ASSUME NEW p \in Producers, AcquireSlot(p)
      PROVE  signal'[w] > 0 \/ \E q \in Producers : Waker(q)'
  BY <1>0, <1>9 DEF AcquireSlot, Goes
<1>10. ASSUME NEW p \in Producers, StopWaiting(p)
       PROVE  signal'[w] > 0 \/ \E q \in Producers : Waker(q)'
  BY <1>0, <1>10 DEF StopWaiting, Goes
<1>11. ASSUME NEW p \in Producers, Recheck(p)
       PROVE  signal'[w] > 0 \/ \E q \in Producers : Waker(q)'
  BY <1>0, <1>11 DEF Recheck, Ends, Goes
<1>12. ASSUME NEW p \in Producers, Push(p)
       PROVE  signal'[w] > 0 \/ \E q \in Producers : Waker(q)'
  <2>1. CASE size = 0
    BY <1>12, <2>1 DEF Push, Ends
  <2>2. CASE size # 0 /\ queue[w] = <<>>
    <3>1. w = next + 1
      BY <1>12, <2>2 DEF Push
    <3>2. Waker(p)'
      BY <1>12, <2>2, <3>1 DEF Push, NeedsWake
    <3>. QED
      BY <3>2
  <2>3. CASE size # 0 /\ queue[w] # <<>>
    <3>1. signal[w] > 0 \/ \E q \in Producers : q # p /\ Waker(q)
      BY <1>0, <1>12, <2>3 DEF Push
    <3>2. \A q \in Producers : q # p => ppc'[q] = ppc[q] /\ target'[q] = target[q]
      BY <1>12, <2>3 DEF Push
    <3>. QED
      BY <1>12, <3>1, <3>2 DEF Push
  <2>. QED
    BY <2>1, <2>2, <2>3
<1>13. ASSUME NEW p \in Producers, Count(p)
       PROVE  signal'[w] > 0 \/ \E q \in Producers : Waker(q)'
  <2>1. \A q \in Producers : Waker(q) => Waker(q)'
    BY <1>13 DEF Count
  <2>. QED
    BY <1>0, <1>13, <2>1 DEF Count
<1>14. ASSUME NEW p \in Producers, Wake(p)
       PROVE  signal'[w] > 0 \/ \E q \in Producers : Waker(q)'
  <2>1. PICK n \in Released(signal[target[p]]) : signal' = [signal EXCEPT ![target[p]] = n]
    BY <1>14 DEF Wake
  <2>2. CASE target[p] = w
    BY <1>14, <2>1, <2>2, ReleasedFacts DEF Wake
  <2>3. CASE target[p] # w
    <3>1. \A q \in Producers : Waker(q) => Waker(q)'
      BY <1>14, <2>3 DEF Wake
    <3>. QED
      BY <1>0, <1>14, <2>1, <2>3, <3>1 DEF Wake
  <2>. QED
    BY <2>2, <2>3
<1>15. ASSUME NEW v \in Workers, CheckRunning(v)
       PROVE  signal'[w] > 0 \/ \E p \in Producers : Waker(p)'
  BY <1>0, <1>15 DEF CheckRunning
<1>16. ASSUME NEW v \in Workers, PopOwn(v)
       PROVE  signal'[w] > 0 \/ \E p \in Producers : Waker(p)'
  BY <1>0, <1>16 DEF PopOwn, Takes
<1>17. ASSUME NEW v \in Workers, Look(v)
       PROVE  signal'[w] > 0 \/ \E p \in Producers : Waker(p)'
  BY <1>0, <1>17 DEF Look
<1>18. ASSUME NEW v \in Workers, Steal(v)
       PROVE  signal'[w] > 0 \/ \E p \in Producers : Waker(p)'
  <2>1. queue[w] # <<>> /\ wpc[w] \in {"look", "steal", "sleep"}
    BY <1>18 DEF Steal, Takes
  <2>. QED
    BY <1>0, <1>18, <2>1 DEF Steal, Takes
<1>19. ASSUME NEW v \in Workers, Sleep(v)
       PROVE  signal'[w] > 0 \/ \E p \in Producers : Waker(p)'
  BY <1>0, <1>19 DEF Sleep
<1>20. ASSUME NEW v \in Workers, RunTask(v)
       PROVE  signal'[w] > 0 \/ \E p \in Producers : Waker(p)'
  BY <1>0, <1>20 DEF RunTask
<1>21. CASE UNCHANGED vars
  BY <1>0, <1>21 DEF vars
<1>. QED
  BY <1>1, <1>2, <1>3, <1>4, <1>5, <1>6, <1>7, <1>8, <1>9, <1>10, <1>11, <1>12, <1>13,
     <1>14, <1>15, <1>16, <1>17, <1>18, <1>19, <1>20, <1>21
     DEF Next, StopStep, ProducerStep, WorkerStep

(* A worker that has tasks never sleeps without a wakeup being on its way:  *)
(* enqueueSharded() signals only when it found the queue empty, and that is *)
(* enough.                                                                  *)
THEOREM WorkerIsWoken == Spec => []NoLostWakeup
<1>1. Init => NoLostWakeup
  BY DEF Init, NoLostWakeup
<1>. QED
  BY <1>1, PoolTypesInit, PoolTypesStep, NoLostWakeupStep, PTL DEF Spec

----------------------------------------------------------------------------
(* While stop() runs, no call of run() begins: if none was under way at its *)
(* start, there is none.                                                    *)
StopIsAlone ==
  /\ spc # "idle" => ~running
  /\ spc # "idle" /\ ~racing => \A p \in Producers : ppc[p] = "idle"
  /\ QuietStopIsSafe

LEMMA StopIsAloneStep == PoolTypes /\ StopIsAlone /\ [Next]_vars => StopIsAlone'
<1> SUFFICES ASSUME PoolTypes, StopIsAlone, [Next]_vars
             PROVE  StopIsAlone'
  OBVIOUS
<1> USE DEF PoolTypes, StopIsAlone, QuietStopIsSafe, poolVars, slotVars, queueVars
<1>1. ASSUME NEW n \in NumThreads, Start(n)
      PROVE  StopIsAlone'
  BY <1>1 DEF Start
<1>2. ASSUME NEW m \in Capacities, SetMaxQueueSize(m)
      PROVE  StopIsAlone'
  BY <1>2 DEF SetMaxQueueSize
<1>3. CASE Stop /\ ~misuse
  BY <1>3 DEF Stop
<1>4. CASE ReleaseWaiting
  BY <1>4 DEF ReleaseWaiting
<1>5. CASE SignalWorkers
  BY <1>5 DEF SignalWorkers
<1>6. CASE Clear
  BY <1>6 DEF Clear, Joined
<1>7. ASSUME NEW p \in Producers, NEW t \in Tasks, NEW submit \in BOOLEAN, Call(p, t, submit)
      PROVE  StopIsAlone'
  BY <1>7 DEF Call
<1>8. ASSUME NEW p \in Producers, ProducerStep(p)
      PROVE  StopIsAlone'
  <2>1. ppc[p] # "idle" /\ UNCHANGED poolVars
    BY <1>8 DEF ProducerStep, Enqueue, AcquireSlot, StopWaiting, Recheck, Push, Count, Wake
  <2>2. spc' # "idle" => racing'
    BY <2>1
  <2>. QED
    BY <2>1, <2>2
<1>9. ASSUME NEW w \in Workers, WorkerStep(w)
      PROVE  StopIsAlone'
  <2>1. UNCHANGED <<poolVars, ppc>>
    BY <1>9 DEF WorkerStep, CheckRunning, PopOwn, Look, Steal, Sleep, RunTask
  <2>. QED
    BY <2>1
<1>10. CASE UNCHANGED vars
  BY <1>10 DEF vars
<1>. QED
  BY <1>1, <1>2, <1>3, <1>4, <1>5, <1>6, <1>7, <1>8, <1>9, <1>10 DEF Next, StopStep

(* When no call of run() is under way as stop() begins, nothing uses what   *)
(* stop() destroys: its workers have been joined and no producer is inside. *)
THEOREM StopIsSafe == Spec => []QuietStopIsSafe
<1>1. Init => StopIsAlone
  BY DEF Init, StopIsAlone, QuietStopIsSafe
<1>2. StopIsAlone => QuietStopIsSafe
  BY DEF StopIsAlone
<1>. QED
  BY <1>1, <1>2, PoolTypesInit, PoolTypesStep, StopIsAloneStep, PTL DEF Spec

----------------------------------------------------------------------------
(* Where the tasks are.  A producer holds a task that is new until it is    *)
(* pushed, no two hold the same; each task that is queued waits and is      *)
(* queued once; each task that a worker holds is running, for it alone.     *)
Inside == {"enqueue", "acquire", "acquired", "recheck", "push"}

HandsInv ==
  /\ hand \in [Producers -> Tasks \cup {None}]
  /\ \A p, q \in Producers : p # q /\ hand[p] # None => hand[p] # hand[q]
  /\ \A p \in Producers : ppc[p] \in Inside => hand[p] # None /\ phase[hand[p]] = "new"

QueuesInv ==
  /\ queue \in [Workers -> Seq(Tasks)]
  /\ \A w \in Workers : \A i \in 1..Len(queue[w]) : phase[queue[w][i]] = "waiting"
  /\ \A v, w \in Workers : \A i \in 1..Len(queue[v]), j \in 1..Len(queue[w]) :
       queue[v][i] = queue[w][j] => v = w /\ i = j

DoingInv ==
  /\ DOMAIN doing = Workers
  /\ \A w \in Workers : wpc[w] = "run" => doing[w] \in Tasks /\ phase[doing[w]] = "running"
  /\ \A v, w \in Workers : v # w /\ wpc[v] = "run" /\ wpc[w] = "run" => doing[v] # doing[w]

(* The places.  While a pool with a limit runs, each place is free, held by *)
(* a producer on its way from the semaphore to the queue, or taken by a     *)
(* task that waits.  When it stops, those waiting for a place are let in,   *)
(* but none of them pushes; and when it has stopped nobody is inside.       *)
Holding == {p \in Producers : ppc[p] \in {"acquired", "recheck", "push"}}
Pushing == {p \in Producers : ppc[p] = "push"}
Counting == {p \in Producers : ppc[p] = "count"}
Queued == {t \in Tasks : phase[t] = "waiting"}

PlacesInv ==
  /\ maxQueueSize \in Nat
  /\ IsFiniteSet(Holding) /\ IsFiniteSet(Counting) /\ IsFiniteSet(Queued)
  /\ bounded /\ size > 0 =>
       IF running
       THEN slots \in Nat /\ slots + Cardinality(Holding) + Cardinality(Queued) = maxQueueSize
       ELSE Cardinality(Pushing) + Cardinality(Queued) <= maxQueueSize
  /\ size > 0 => queuedTasks \in Int
                 /\ queuedTasks + Cardinality(Counting) = Cardinality(Queued)
  /\ size = 0 => Queued = {}
  /\ spc # "idle" => ~running
  /\ ~running /\ spc = "idle" =>
       size = 0 /\ \A p \in Producers : ppc[p] \in {"idle", "enqueue"}

Phases == {"new", "waiting", "running", "done", "dropped"}

TaskInv ==
  /\ phase \in [Tasks -> Phases]
  /\ misuse => size = 0
  /\ ~misuse => HandsInv /\ QueuesInv /\ DoingInv /\ PlacesInv

(* Who keeps a task keeps it while the task stays new.                      *)
LEMMA HandsFrame ==
  ASSUME HandsInv, hand' = hand, DOMAIN ppc = Producers,
         \A p \in Producers : ppc'[p] \in Inside => ppc[p] \in Inside,
         \A t \in Tasks : phase[t] = "new" => phase'[t] = "new"
  PROVE  HandsInv'
BY DEF HandsInv

(* A call of run() or submit() returns.                                     *)
LEMMA HandsEnds ==
  ASSUME HandsInv, PoolTypes, phase \in [Tasks -> Phases], NEW p \in Producers,
         ppc[p] \in Inside, Ends(p, "dropped")
  PROVE  /\ HandsInv' /\ phase' \in [Tasks -> Phases]
         /\ hand[p] \in Tasks /\ phase[hand[p]] = "new"
         /\ phase' = [phase EXCEPT ![hand[p]] = "dropped"]
<1>1. hand[p] \in Tasks /\ phase[hand[p]] = "new"
  BY DEF HandsInv
<1>2. /\ ppc' = [ppc EXCEPT ![p] = "idle"] /\ hand' = [hand EXCEPT ![p] = None]
      /\ phase' = [phase EXCEPT ![hand[p]] = "dropped"]
  BY DEF Ends
<1>3. \A q \in Producers : q # p => hand[q] # hand[p]
  BY <1>1, PoolAssumption DEF HandsInv
<1>4. \A q \in Producers : ppc'[q] \in Inside => q # p /\ ppc[q] \in Inside
  BY <1>2 DEF PoolTypes, Inside
<1>5. HandsInv'
  BY <1>1, <1>2, <1>3, <1>4 DEF HandsInv
<1>. QED
  BY <1>1, <1>2, <1>5 DEF Phases

LEMMA HandsStep ==
  ASSUME PoolTypes, TaskInv, ~misuse, Next
  PROVE  HandsInv' /\ phase' \in [Tasks -> Phases]
<1>a. HandsInv /\ QueuesInv /\ DoingInv /\ phase \in [Tasks -> Phases]
      /\ DOMAIN ppc = Producers /\ DOMAIN wpc = Workers
  BY DEF TaskInv, Phases, PoolTypes
<1>0. ASSUME hand' = hand, phase' = phase, ppc' = ppc
      PROVE  HandsInv' /\ phase' \in [Tasks -> Phases]
  BY <1>0, <1>a, HandsFrame
<1>g. ASSUME NEW p \in Producers, ppc[p] \in Inside, NEW to \in Inside, Goes(p, to)
      PROVE  HandsInv' /\ phase' \in [Tasks -> Phases]
  <2>1. hand' = hand /\ phase' = phase /\ \A q \in Producers : ppc'[q] \in Inside => ppc[q] \in Inside
    BY <1>a, <1>g DEF Goes
  <2>. QED
    BY <1>a, <2>1, HandsFrame
<1>t. ASSUME NEW w, NEW t \in Tasks, phase[t] = "waiting", NEW v, NEW rest, Takes(w, t, v, rest),
             hand' = hand, ppc' = ppc
      PROVE  HandsInv' /\ phase' \in [Tasks -> Phases]
  <2>1. phase' = [phase EXCEPT ![t] = "running"]
    BY <1>t DEF Takes
  <2>2. \A u \in Tasks : phase[u] = "new" => phase'[u] = "new"
    BY <1>a, <1>t, <2>1
  <2>. QED
    BY <1>a, <1>t, <2>1, <2>2, HandsFrame DEF Phases
<1>1. ASSUME NEW n \in NumThreads, Start(n)
      PROVE  HandsInv' /\ phase' \in [Tasks -> Phases]
  BY <1>0, <1>1 DEF Start
<1>2. ASSUME NEW m \in Capacities, SetMaxQueueSize(m)
      PROVE  HandsInv' /\ phase' \in [Tasks -> Phases]
  BY <1>0, <1>2 DEF SetMaxQueueSize
<1>3. CASE Stop \/ ReleaseWaiting \/ SignalWorkers
  BY <1>0, <1>3 DEF Stop, ReleaseWaiting, SignalWorkers
<1>4. CASE Clear
  <2>1. /\ phase' = [t \in Tasks |-> IF phase[t] = "waiting" THEN "dropped" ELSE phase[t]]
        /\ hand' = hand /\ ppc' = ppc
    BY <1>4 DEF Clear
  <2>. QED
    BY <1>a, <2>1, HandsFrame DEF Phases
<1>5. ASSUME NEW p \in Producers, NEW t \in Tasks, NEW submit \in BOOLEAN, Call(p, t, submit)
      PROVE  HandsInv' /\ phase' \in [Tasks -> Phases]
  <2>1. phase[t] = "new" /\ \A q \in Producers : hand[q] # t
    BY <1>5 DEF Call
  <2>2. CASE running /\ size > 0
    <3>1. /\ ppc' = [ppc EXCEPT ![p] = "enqueue"] /\ hand' = [hand EXCEPT ![p] = t]
          /\ phase' = phase
      BY <1>5, <2>2 DEF Call
    <3>. QED
      BY <1>a, <2>1, <3>1, PoolAssumption DEF HandsInv
  <2>3. CASE ~(running /\ size > 0)
    <3>1. PICK new \in {"done", "dropped"} : phase' = [phase EXCEPT ![t] = new]
      BY <1>5, <2>3 DEF Call
    <3>2. UNCHANGED <<ppc, hand>>
      BY <1>5, <2>3 DEF Call
    <3>3. phase' \in [Tasks -> Phases] /\ \A u \in Tasks : u # t => phase'[u] = phase[u]
      BY <1>a, <3>1 DEF Phases
    <3>4. \A q \in Producers : hand[q] # None => phase'[hand[q]] = phase[hand[q]]
      BY <1>a, <2>1, <3>3 DEF HandsInv
    <3>. QED
      BY <1>a, <3>2, <3>3, <3>4 DEF HandsInv
  <2>. QED
    BY <2>2, <2>3
<1>6. ASSUME NEW p \in Producers, Enqueue(p)
      PROVE  HandsInv' /\ phase' \in [Tasks -> Phases]
  <2>1. ppc[p] \in Inside /\ (Ends(p, "dropped") \/ Goes(p, "acquire") \/ Goes(p, "push"))
    BY <1>6 DEF Enqueue, Inside
  <2>. QED
    BY <1>a, <1>g, <2>1, HandsEnds DEF Inside
<1>7. ASSUME NEW p \in Producers, AcquireSlot(p) \/ StopWaiting(p)
      PROVE  HandsInv' /\ phase' \in [Tasks -> Phases]
  BY <1>g, <1>7 DEF AcquireSlot, StopWaiting, Inside
<1>8. ASSUME NEW p \in Producers, Recheck(p)
      PROVE  HandsInv' /\ phase' \in [Tasks -> Phases]
  <2>1. ppc[p] \in Inside /\ (Ends(p, "dropped") \/ Goes(p, "push"))
    BY <1>8 DEF Recheck, Inside
  <2>. QED
    BY <1>a, <1>g, <2>1, HandsEnds DEF Inside
<1>9. ASSUME NEW p \in Producers, Push(p)
      PROVE  HandsInv' /\ phase' \in [Tasks -> Phases]
  <2>1. ppc[p] \in Inside
    BY <1>9 DEF Push, Inside
  <2>2. CASE size = 0
    BY <1>9, <1>a, <2>1, <2>2, HandsEnds DEF Push
  <2>3. CASE size # 0
    <3>1. /\ ppc' = [ppc EXCEPT ![p] = "count"] /\ hand' = hand
          /\ phase' = [phase EXCEPT ![hand[p]] = "waiting"]
      BY <1>9, <2>3 DEF Push
    <3>2. hand[p] # None /\ \A q \in Producers : q # p => hand[q] # hand[p]
      BY <1>a, <2>1 DEF HandsInv
    <3>3. \A q \in Producers : ppc'[q] \in Inside => q # p /\ ppc[q] \in Inside
      BY <1>a, <3>1 DEF Inside
    <3>4. phase' \in [Tasks -> Phases]
      BY <1>a, <3>1 DEF Phases
    <3>. QED
      BY <1>a, <3>1, <3>2, <3>3, <3>4 DEF HandsInv
  <2>. QED
    BY <2>2, <2>3
<1>10. ASSUME NEW p \in Producers, Count(p)
       PROVE  HandsInv' /\ phase' \in [Tasks -> Phases]
  <2>1. /\ hand' = [hand EXCEPT ![p] = None] /\ phase' = phase
        /\ ppc' = [ppc EXCEPT ![p] = IF target[p] = 0 THEN "idle" ELSE "wake"]
    BY <1>10 DEF Count
  <2>2. \A q \in Producers : ppc'[q] \in Inside => q # p /\ ppc[q] \in Inside
    BY <1>a, <2>1 DEF Inside
  <2>. QED
    BY <1>a, <2>1, <2>2 DEF HandsInv
<1>11. ASSUME NEW p \in Producers, Wake(p)
       PROVE  HandsInv' /\ phase' \in [Tasks -> Phases]
  <2>1. hand' = hand /\ phase' = phase /\ ppc' = [ppc EXCEPT ![p] = "idle"]
    BY <1>11 DEF Wake
  <2>2. \A q \in Producers : ppc'[q] \in Inside => ppc[q] \in Inside
    BY <1>a, <2>1 DEF Inside
  <2>. QED
    BY <1>a, <2>1, <2>2, HandsFrame
<1>12. ASSUME NEW w \in Workers, CheckRunning(w) \/ Look(w) \/ Sleep(w)
       PROVE  HandsInv' /\ phase' \in [Tasks -> Phases]
  BY <1>0, <1>12 DEF CheckRunning, Look, Sleep
<1>13. ASSUME NEW w \in Workers, PopOwn(w)
       PROVE  HandsInv' /\ phase' \in [Tasks -> Phases]
  <2>1. CASE queue[w] # <<>>
    <3>1. Head(queue[w]) \in Tasks /\ phase[Head(queue[w])] = "waiting"
      <4>1. queue[w] \in Seq(Tasks) /\ Head(queue[w]) = queue[w][1] /\ 1 \in 1..Len(queue[w])
        BY <1>a, <2>1 DEF QueuesInv
      <4>. QED
        BY <1>a, <4>1 DEF QueuesInv
    <3>2. Takes(w, Head(queue[w]), w, Tail(queue[w])) /\ hand' = hand /\ ppc' = ppc
      BY <1>13, <2>1 DEF PopOwn
    <3>. QED
      BY <1>t, <3>1, <3>2
  <2>2. CASE queue[w] = <<>>
    BY <1>0, <1>13, <2>2 DEF PopOwn
  <2>. QED
    BY <2>1, <2>2
<1>14. ASSUME NEW w \in Workers, Steal(w)
       PROVE  HandsInv' /\ phase' \in [Tasks -> Phases]
  <2>1. ASSUME NEW v \in 1..size \ {w}, queue[v] # <<>>,
               Takes(w, Last(queue[v]), v, Stolen(queue[v]))
        PROVE  HandsInv' /\ phase' \in [Tasks -> Phases]
    <3>1. Last(queue[v]) \in Tasks /\ phase[Last(queue[v])] = "waiting"
      <4>1. v \in Workers
        BY DEF PoolTypes
      <4>2. queue[v] \in Seq(Tasks) /\ Last(queue[v]) = queue[v][Len(queue[v])]
            /\ Len(queue[v]) \in 1..Len(queue[v])
        BY <1>a, <2>1, <4>1 DEF QueuesInv, Last
      <4>. QED
        BY <1>a, <4>1, <4>2 DEF QueuesInv
    <3>2. hand' = hand /\ ppc' = ppc
      BY <1>14 DEF Steal
    <3>. QED
      BY <1>t, <2>1, <3>1, <3>2
  <2>2. CASE UNCHANGED <<queue, queuedTasks, slots, doing, phase>>
    BY <1>0, <1>14, <2>2 DEF Steal
  <2>. QED
    BY <1>14, <2>1, <2>2 DEF Steal
<1>15. ASSUME NEW w \in Workers, RunTask(w)
       PROVE  HandsInv' /\ phase' \in [Tasks -> Phases]
  <2>1. /\ doing[w] \in Tasks /\ phase[doing[w]] = "running"
        /\ phase' = [phase EXCEPT ![doing[w]] = "done"] /\ hand' = hand /\ ppc' = ppc
    BY <1>15, <1>a DEF RunTask, DoingInv
  <2>. QED
    BY <1>a, <2>1, HandsFrame DEF Phases
<1>. QED
  BY <1>1, <1>2, <1>3, <1>4, <1>5, <1>6, <1>7, <1>8, <1>9, <1>10, <1>11, <1>12, <1>13, <1>14,
     <1>15 DEF Next, StopStep, ProducerStep, WorkerStep

(* What a worker finds at either end of a queue.                            *)
LEMMA EndsOfQueue ==
  ASSUME QueuesInv, NEW v \in Workers, queue[v] # <<>>
  PROVE  /\ queue[v] \in Seq(Tasks) /\ Len(queue[v]) \in Nat \ {0}
         /\ Head(queue[v]) = queue[v][1] /\ Last(queue[v]) = queue[v][Len(queue[v])]
         /\ \A i \in 1..Len(queue[v]) : queue[v][i] \in Tasks /\ phase[queue[v][i]] = "waiting"
         /\ Tail(queue[v]) \in Seq(Tasks) /\ Len(Tail(queue[v])) = Len(queue[v]) - 1
         /\ \A j \in 1..Len(queue[v]) - 1 : Tail(queue[v])[j] = queue[v][j + 1]
         /\ Stolen(queue[v]) \in Seq(Tasks) /\ Len(Stolen(queue[v])) = Len(queue[v]) - 1
         /\ \A j \in 1..Len(queue[v]) - 1 : Stolen(queue[v])[j] = queue[v][j]
<1>1. queue[v] \in Seq(Tasks) /\ \A i \in 1..Len(queue[v]) : phase[queue[v][i]] = "waiting"
  BY DEF QueuesInv
<1>2. PICK q \in Seq(Tasks) : q = queue[v] /\ q # <<>>
  BY <1>1
<1>3. /\ Len(q) \in Nat \ {0} /\ Head(q) = q[1] /\ Last(q) = q[Len(q)]
      /\ \A i \in 1..Len(q) : q[i] \in Tasks
  BY <1>2 DEF Last
<1>4. /\ Tail(q) \in Seq(Tasks) /\ Len(Tail(q)) = Len(q) - 1
      /\ \A j \in 1..Len(q) - 1 : Tail(q)[j] = q[j + 1]
  <2>1. PICK r : r = Tail(q)
    OBVIOUS
  <2>2. r \in Seq(Tasks) /\ Len(r) = Len(q) - 1 /\ \A j \in 1..Len(r) : r[j] = q[j + 1]
    BY <1>2, <2>1, HeadTailProperties
  <2>. QED
    BY <2>1, <2>2
<1>5. /\ Stolen(q) \in Seq(Tasks) /\ Len(Stolen(q)) = Len(q) - 1
      /\ \A j \in 1..Len(q) - 1 : Stolen(q)[j] = q[j]
  <2>1. Stolen(q) = SubSeq(q, 1, Len(q) - 1)
    BY DEF Stolen, Front
  <2>2. PICK n \in Nat \ {0} : n = Len(q)
    BY <1>3
  <2>3. PICK m \in Int : m = n - 1
    OBVIOUS
  <2>4. /\ SubSeq(q, 1, m) \in Seq(Tasks) /\ Len(SubSeq(q, 1, m)) = IF 1 <= m THEN m - 1 + 1 ELSE 0
        /\ \A j \in 1..m - 1 + 1 : SubSeq(q, 1, m)[j] = q[1 + j - 1]
    <3>1. \A j \in 1..m : q[j] \in Tasks
      BY <1>3, <2>2, <2>3
    <3>. QED
      BY <3>1, SubSeqProperties
  <2>5. m \in Nat /\ m - 1 + 1 = m /\ \A j \in 1..m : 1 + j - 1 = j
    BY <2>3
  <2>. QED
    BY <2>1, <2>2, <2>3, <2>4, <2>5
<1>. QED
  BY <1>1, <1>2, <1>3, <1>4, <1>5

LEMMA QueuesFrame ==
  ASSUME QueuesInv, queue' = queue,
         \A t \in Tasks : phase[t] = "waiting" => phase'[t] = "waiting"
  PROVE  QueuesInv'
BY DEF QueuesInv

(* A task is taken from a queue: the others are where they were.            *)
LEMMA QueuesTake ==
  ASSUME QueuesInv, phase \in [Tasks -> Phases], NEW v \in Workers,
         NEW i \in 1..Len(queue[v]), NEW rest \in Seq(Tasks), NEW d \in {0, 1},
         \A j \in 1..Len(rest) :
           j + d \in 1..Len(queue[v]) /\ j + d # i /\ rest[j] = queue[v][j + d],
         queue' = [queue EXCEPT ![v] = rest],
         phase' = [phase EXCEPT ![queue[v][i]] = "running"]
  PROVE  QueuesInv'
<1>1. PICK t : t = queue[v][i]
  OBVIOUS
<1>2. /\ queue \in [Workers -> Seq(Tasks)] /\ t \in Tasks
      /\ queue' \in [Workers -> Seq(Tasks)]
      /\ \A w \in Workers : \A j \in 1..Len(queue[w]) : phase[queue[w][j]] = "waiting"
  BY <1>1, ElementOfSeq DEF QueuesInv
<1>3. \A w, x \in Workers : \A j \in 1..Len(queue[w]), k \in 1..Len(queue[x]) :
        queue[w][j] = queue[x][k] => w = x /\ j = k
  BY DEF QueuesInv
<1> DEFINE at(w, j) == IF w = v THEN j + d ELSE j
<1>4. ASSUME NEW w \in Workers, NEW j \in 1..Len(queue'[w])
      PROVE  /\ at(w, j) \in 1..Len(queue[w]) /\ queue'[w][j] = queue[w][at(w, j)]
             /\ queue'[w][j] # t /\ queue'[w][j] \in Tasks
  <2>1. CASE w = v
    <3>1. queue'[w] = rest
      BY <1>2, <2>1
    <3>2. j + d \in 1..Len(queue[v]) /\ j + d # i /\ rest[j] = queue[v][j + d]
      BY <3>1
    <3>3. rest[j] # t /\ rest[j] \in Tasks
      BY <1>1, <1>3, <3>1, <3>2
    <3>. QED
      BY <2>1, <3>1, <3>2, <3>3
  <2>2. CASE w # v
    <3>1. queue'[w] = queue[w]
      BY <1>2, <2>2
    <3>. QED
      BY <1>1, <1>2, <1>3, <2>2, <3>1
  <2>. QED
    BY <2>1, <2>2
<1>5. \A w \in Workers : \A j \in 1..Len(queue'[w]) : phase'[queue'[w][j]] = "waiting"
  BY <1>1, <1>2, <1>4
<1>6. \A w, x \in Workers : \A j \in 1..Len(queue'[w]), k \in 1..Len(queue'[x]) :
        queue'[w][j] = queue'[x][k] => w = x /\ j = k
  <2> SUFFICES ASSUME NEW w \in Workers, NEW x \in Workers,
                      NEW j \in 1..Len(queue'[w]), NEW k \in 1..Len(queue'[x]),
                      queue'[w][j] = queue'[x][k]
               PROVE  w = x /\ j = k
    OBVIOUS
  <2>1. w = x /\ at(w, j) = at(x, k)
    <3> HIDE DEF at
    <3>. QED
      BY <1>3, <1>4
  <2>2. j \in Int /\ k \in Int
    BY <1>2, LenProperties
  <2>. QED
    BY <2>1, <2>2
<1>. QED
  BY <1>2, <1>5, <1>6 DEF QueuesInv

(* A task that is new is pushed.                                            *)
LEMMA QueuesPush ==
  ASSUME QueuesInv, phase \in [Tasks -> Phases], NEW v \in Workers,
         NEW t \in Tasks, phase[t] = "new",
         queue' = [queue EXCEPT ![v] = Append(@, t)],
         phase' = [phase EXCEPT ![t] = "waiting"]
  PROVE  QueuesInv'
<1>1. /\ queue \in [Workers -> Seq(Tasks)]
      /\ \A w \in Workers : \A j \in 1..Len(queue[w]) : phase[queue[w][j]] = "waiting"
      /\ \A w, x \in Workers : \A j \in 1..Len(queue[w]), k \in 1..Len(queue[x]) :
           queue[w][j] = queue[x][k] => w = x /\ j = k
  BY DEF QueuesInv
<1>2. PICK q \in Seq(Tasks) : q = queue[v]
  BY <1>1
<1>3. /\ Append(q, t) \in Seq(Tasks) /\ Len(Append(q, t)) = Len(q) + 1 /\ Len(q) \in Nat
      /\ Append(q, t)[Len(q) + 1] = t
      /\ \A j \in 1..Len(q) : Append(q, t)[j] = q[j]
  BY AppendProperties
<1>4. /\ queue' \in [Workers -> Seq(Tasks)] /\ queue'[v] = Append(q, t)
      /\ \A w \in Workers : w # v => queue'[w] = queue[w]
  BY <1>1, <1>2, <1>3
<1>5. ASSUME NEW w \in Workers, NEW j \in 1..Len(queue'[w])
      PROVE  \/ w = v /\ j = Len(q) + 1 /\ queue'[w][j] = t
             \/ j \in 1..Len(queue[w]) /\ queue'[w][j] = queue[w][j] /\ queue[w][j] # t
                /\ queue[w][j] \in Tasks
  <2>1. CASE w = v /\ j = Len(q) + 1
    BY <1>3, <1>4, <2>1
  <2>2. CASE ~(w = v /\ j = Len(q) + 1)
    <3>1. j \in 1..Len(queue[w]) /\ queue'[w][j] = queue[w][j]
      BY <1>2, <1>3, <1>4, <2>2
    <3>2. queue[w] \in Seq(Tasks) /\ phase[queue[w][j]] = "waiting"
      BY <1>1, <3>1
    <3>. QED
      BY <3>1, <3>2, ElementOfSeq
  <2>. QED
    BY <2>1, <2>2
<1>6. \A w \in Workers : \A j \in 1..Len(queue'[w]) : phase'[queue'[w][j]] = "waiting"
  BY <1>1, <1>5
<1>7. \A w, x \in Workers : \A j \in 1..Len(queue'[w]), k \in 1..Len(queue'[x]) :
        queue'[w][j] = queue'[x][k] => w = x /\ j = k
  <2> SUFFICES ASSUME NEW w \in Workers, NEW x \in Workers,
                      NEW j \in 1..Len(queue'[w]), NEW k \in 1..Len(queue'[x]),
                      queue'[w][j] = queue'[x][k]
               PROVE  w = x /\ j = k
    OBVIOUS
  <2>1. CASE queue'[w][j] = t
    BY <1>5, <2>1
  <2>2. CASE queue'[w][j] # t
    BY <1>1, <1>5, <2>2
  <2>. QED
    BY <2>1, <2>2
<1>. QED
  BY <1>4, <1>6, <1>7 DEF QueuesInv

LEMMA DoingFrame ==
  ASSUME DoingInv, doing' = doing,
         \A w \in Workers : wpc'[w] = "run" => wpc[w] = "run",
         \A t \in Tasks : phase[t] = "running" => phase'[t] = "running"
  PROVE  DoingInv'
BY DEF DoingInv

(* A worker takes a task: both the queues and what the workers do.          *)
LEMMA TakeStep ==
  ASSUME QueuesInv, DoingInv, PoolTypes, phase \in [Tasks -> Phases],
         NEW w \in Workers, wpc[w] # "run", NEW v \in Workers, queue[v] # <<>>,
         \/ Takes(w, Head(queue[v]), v, Tail(queue[v]))
         \/ Takes(w, Last(queue[v]), v, Stolen(queue[v]))
  PROVE  /\ QueuesInv' /\ DoingInv'
         /\ \E t \in Tasks : phase[t] = "waiting" /\ phase' = [phase EXCEPT ![t] = "running"]
         /\ queuedTasks' = queuedTasks - 1 /\ slots' = SlotReleased
<1>1. PICK n \in Nat \ {0} : n = Len(queue[v])
  BY EndsOfQueue
<1>2. PICK i, t, rest :
        /\ i \in 1..n
        /\ t = queue[v][i] /\ Takes(w, t, v, rest)
        /\ \/ i = 1 /\ rest = Tail(queue[v])
           \/ i = n /\ rest = Stolen(queue[v])
  <2>1. 1 \in 1..n /\ n \in 1..n
    OBVIOUS
  <2>2. Head(queue[v]) = queue[v][1] /\ Last(queue[v]) = queue[v][n]
    BY <1>1, EndsOfQueue
  <2>3. CASE Takes(w, Head(queue[v]), v, Tail(queue[v]))
    <3>1. PICK t, rest : t = queue[v][1] /\ rest = Tail(queue[v])
      OBVIOUS
    <3>2. Takes(w, t, v, rest)
      BY <2>2, <2>3, <3>1
    <3>. QED
      BY <2>1, <3>1, <3>2
  <2>4. CASE Takes(w, Last(queue[v]), v, Stolen(queue[v]))
    <3>1. PICK t, rest : t = queue[v][n] /\ rest = Stolen(queue[v])
      OBVIOUS
    <3>2. Takes(w, t, v, rest)
      BY <2>2, <2>4, <3>1
    <3>. QED
      BY <2>1, <3>1, <3>2
  <2>. QED
    BY <2>3, <2>4
<1>3. t \in Tasks /\ phase[t] = "waiting"
  BY <1>1, <1>2, EndsOfQueue
<1>4. /\ queue' = [queue EXCEPT ![v] = rest] /\ doing' = [doing EXCEPT ![w] = t]
      /\ phase' = [phase EXCEPT ![t] = "running"] /\ wpc' = [wpc EXCEPT ![w] = "run"]
      /\ queuedTasks' = queuedTasks - 1 /\ slots' = SlotReleased
  BY <1>2 DEF Takes
<1>5. QueuesInv'
  <2>1. CASE i = 1 /\ rest = Tail(queue[v])
    <3>1. rest \in Seq(Tasks) /\ Len(rest) = n - 1 /\ \A j \in 1..n - 1 : rest[j] = queue[v][j + 1]
      BY <1>1, <2>1, EndsOfQueue
    <3>2. \A j \in 1..Len(rest) :
            j + 1 \in 1..Len(queue[v]) /\ j + 1 # i /\ rest[j] = queue[v][j + 1]
      BY <1>1, <2>1, <3>1
    <3>. QED
      BY <1>1, <1>2, <1>4, <3>1, <3>2, QueuesTake
  <2>2. CASE i = n /\ rest = Stolen(queue[v])
    <3>1. rest \in Seq(Tasks) /\ Len(rest) = n - 1 /\ \A j \in 1..n - 1 : rest[j] = queue[v][j]
      BY <1>1, <2>2, EndsOfQueue
    <3>2. \A j \in 1..Len(rest) :
            j + 0 \in 1..Len(queue[v]) /\ j + 0 # i /\ rest[j] = queue[v][j + 0]
      BY <1>1, <2>2, <3>1
    <3>. QED
      BY <1>1, <1>2, <1>4, <3>1, <3>2, QueuesTake
  <2>. QED
    BY <1>2, <2>1, <2>2
<1>6. DoingInv'
  <2>1. \A x \in Workers : x # w /\ wpc'[x] = "run" =>
          wpc[x] = "run" /\ doing'[x] = doing[x] /\ doing[x] \in Tasks /\ phase[doing[x]] = "running"
    BY <1>4 DEF DoingInv, PoolTypes
  <2>2. \A x \in Workers : x # w /\ wpc'[x] = "run" =>
          doing'[x] # t /\ phase'[doing'[x]] = "running"
    BY <1>3, <1>4, <2>1
  <2>3. doing'[w] = t /\ phase'[t] = "running" /\ DOMAIN doing' = Workers
    BY <1>3, <1>4 DEF DoingInv
  <2>4. \A x \in Workers : wpc'[x] = "run" => doing'[x] \in Tasks /\ phase'[doing'[x]] = "running"
    BY <1>3, <2>1, <2>2, <2>3
  <2>5. \A x, y \in Workers : x # y /\ wpc'[x] = "run" /\ wpc'[y] = "run" => doing'[x] # doing'[y]
    <3> SUFFICES ASSUME NEW x \in Workers, NEW y \in Workers, x # y,
                        wpc'[x] = "run", wpc'[y] = "run"
                 PROVE  doing'[x] # doing'[y]
      OBVIOUS
    <3>1. CASE x = w \/ y = w
      BY <2>2, <2>3, <3>1
    <3>2. CASE x # w /\ y # w
      BY <2>1, <3>2 DEF DoingInv
    <3>. QED
      BY <3>1, <3>2
  <2>. QED
    BY <2>3, <2>4, <2>5 DEF DoingInv
<1>. QED
  BY <1>3, <1>4, <1>5, <1>6

LEMMA QueuesStep ==
  ASSUME PoolTypes, TaskInv, ~misuse, Next
  PROVE  QueuesInv' /\ DoingInv'
<1>a. HandsInv /\ QueuesInv /\ DoingInv /\ phase \in [Tasks -> Phases]
      /\ DOMAIN wpc = Workers
  BY DEF TaskInv, PoolTypes
<1>0. ASSUME queue' = queue, doing' = doing,
             \A w \in Workers : wpc'[w] = "run" => wpc[w] = "run",
             \A t \in Tasks : /\ phase[t] = "waiting" => phase'[t] = "waiting"
                              /\ phase[t] = "running" => phase'[t] = "running"
      PROVE  QueuesInv' /\ DoingInv'
  BY <1>0, <1>a, QueuesFrame, DoingFrame
<1>e. ASSUME NEW p \in Producers, ppc[p] \in Inside, Ends(p, "dropped"),
             queue' = queue, doing' = doing, wpc' = wpc
      PROVE  QueuesInv' /\ DoingInv'
  <2>1. hand[p] \in Tasks /\ phase[hand[p]] = "new" /\ phase' = [phase EXCEPT ![hand[p]] = "dropped"]
    BY <1>a, <1>e, HandsEnds
  <2>. QED
    BY <1>0, <1>a, <1>e, <2>1
<1>q. <<>> \in Seq(Tasks) /\ Len(<<>>) = 0
  BY EmptySeq
<1>1. ASSUME NEW n \in NumThreads, Start(n)
      PROVE  QueuesInv' /\ DoingInv'
  <2>1. /\ queue' = [w \in Workers |-> <<>>] /\ doing' = doing /\ phase' = phase
        /\ wpc' = [w \in Workers |-> IF w <= n THEN "check" ELSE "none"]
    BY <1>1 DEF Start
  <2>2. DoingInv'
    BY <1>a, <2>1, DoingFrame
  <2>3. QueuesInv'
    BY <1>q, <2>1 DEF QueuesInv
  <2>. QED
    BY <2>2, <2>3
<1>2. ASSUME NEW m \in Capacities, SetMaxQueueSize(m)
      PROVE  QueuesInv' /\ DoingInv'
  BY <1>0, <1>2 DEF SetMaxQueueSize, queueVars
<1>3. CASE Stop \/ ReleaseWaiting \/ SignalWorkers
  BY <1>0, <1>3 DEF Stop, ReleaseWaiting, SignalWorkers, queueVars
<1>4. CASE Clear
  <2>1. /\ phase' = [t \in Tasks |-> IF phase[t] = "waiting" THEN "dropped" ELSE phase[t]]
        /\ queue' = [w \in Workers |-> <<>>] /\ doing' = doing /\ wpc' = wpc
    BY <1>4 DEF Clear
  <2>2. DoingInv'
    BY <1>a, <2>1, DoingFrame
  <2>3. QueuesInv'
    BY <1>q, <2>1 DEF QueuesInv
  <2>. QED
    BY <2>2, <2>3
<1>5. ASSUME NEW p \in Producers, NEW t \in Tasks, NEW submit \in BOOLEAN, Call(p, t, submit)
      PROVE  QueuesInv' /\ DoingInv'
  <2>1. /\ phase[t] = "new" /\ queue' = queue /\ doing' = doing /\ wpc' = wpc
        /\ \A u \in Tasks : u # t => phase'[u] = phase[u]
    BY <1>5, <1>a DEF Call, queueVars
  <2>. QED
    BY <1>0, <2>1
<1>6. ASSUME NEW p \in Producers, Enqueue(p)
      PROVE  QueuesInv' /\ DoingInv'
  <2>1. ppc[p] \in Inside /\ queue' = queue /\ doing' = doing /\ wpc' = wpc
    BY <1>6 DEF Enqueue, Inside, queueVars
  <2>2. Ends(p, "dropped") \/ phase' = phase
    BY <1>6 DEF Enqueue, Goes
  <2>. QED
    BY <1>0, <1>e, <2>1, <2>2
<1>7. ASSUME NEW p \in Producers, AcquireSlot(p) \/ StopWaiting(p)
      PROVE  QueuesInv' /\ DoingInv'
  BY <1>0, <1>7 DEF AcquireSlot, StopWaiting, Goes, queueVars
<1>8. ASSUME NEW p \in Producers, Recheck(p)
      PROVE  QueuesInv' /\ DoingInv'
  <2>1. ppc[p] \in Inside /\ queue' = queue /\ doing' = doing /\ wpc' = wpc
    BY <1>8 DEF Recheck, Inside, queueVars
  <2>2. Ends(p, "dropped") \/ phase' = phase
    BY <1>8 DEF Recheck, Goes
  <2>. QED
    BY <1>0, <1>e, <2>1, <2>2
<1>9. ASSUME NEW p \in Producers, Push(p)
      PROVE  QueuesInv' /\ DoingInv'
  <2>1. ppc[p] \in Inside /\ doing' = doing /\ wpc' = wpc
    BY <1>9 DEF Push, Inside
  <2>2. CASE size = 0
    BY <1>9, <1>e, <2>1, <2>2 DEF Push
  <2>3. CASE size # 0
    <3>1. PICK v, t : v = next + 1 /\ t = hand[p]
      OBVIOUS
    <3>2. v \in Workers /\ t \in Tasks /\ phase[t] = "new"
      BY <1>a, <2>1, <2>3, <3>1 DEF PoolTypes, HandsInv
    <3>3. /\ queue' = [queue EXCEPT ![v] = Append(@, t)]
          /\ phase' = [phase EXCEPT ![t] = "waiting"]
      BY <1>9, <2>3, <3>1 DEF Push
    <3>4. QueuesInv'
      BY <1>a, <3>2, <3>3, QueuesPush
    <3>5. DoingInv'
      BY <1>a, <2>1, <3>2, <3>3, DoingFrame
    <3>. QED
      BY <3>4, <3>5
  <2>. QED
    BY <2>2, <2>3
<1>10. ASSUME NEW p \in Producers, Count(p) \/ Wake(p)
       PROVE  QueuesInv' /\ DoingInv'
  BY <1>0, <1>10 DEF Count, Wake, queueVars
<1>11. ASSUME NEW w \in Workers, CheckRunning(w) \/ Look(w) \/ Sleep(w)
       PROVE  QueuesInv' /\ DoingInv'
  <2>1. /\ queue' = queue /\ doing' = doing /\ phase' = phase
        /\ \A v \in Workers : wpc'[v] = "run" => wpc[v] = "run"
    BY <1>11, <1>a DEF CheckRunning, Look, Sleep, queueVars
  <2>. QED
    BY <1>0, <2>1
<1>12. ASSUME NEW w \in Workers, PopOwn(w)
       PROVE  QueuesInv' /\ DoingInv'
  <2>1. CASE queue[w] # <<>>
    <3>1. Takes(w, Head(queue[w]), w, Tail(queue[w])) /\ wpc[w] # "run"
      BY <1>12, <2>1 DEF PopOwn
    <3>. QED
      BY <1>a, <2>1, <3>1, TakeStep
  <2>2. CASE queue[w] = <<>>
    <3>1. /\ queue' = queue /\ doing' = doing /\ phase' = phase
          /\ wpc' = [wpc EXCEPT ![w] = "look"]
      BY <1>12, <2>2 DEF PopOwn
    <3>. QED
      BY <1>0, <1>a, <3>1
  <2>. QED
    BY <2>1, <2>2
<1>13. ASSUME NEW w \in Workers, Steal(w)
       PROVE  QueuesInv' /\ DoingInv'
  <2>1. ASSUME NEW v \in 1..size \ {w}, queue[v] # <<>>,
               Takes(w, Last(queue[v]), v, Stolen(queue[v]))
        PROVE  QueuesInv' /\ DoingInv'
    <3>1. v \in Workers /\ wpc[w] # "run"
      BY <1>13 DEF PoolTypes, Steal
    <3>. QED
      BY <1>a, <2>1, <3>1, TakeStep
  <2>2. CASE /\ wpc' = [wpc EXCEPT ![w] = "sleep"]
             /\ UNCHANGED <<queue, queuedTasks, slots, doing, phase>>
    BY <1>0, <1>a, <2>2
  <2>. QED
    BY <1>13, <2>1, <2>2 DEF Steal
<1>14. ASSUME NEW w \in Workers, RunTask(w)
       PROVE  QueuesInv' /\ DoingInv'
  <2>1. /\ wpc[w] = "run" /\ doing[w] \in Tasks /\ phase[doing[w]] = "running"
        /\ phase' = [phase EXCEPT ![doing[w]] = "done"] /\ queue' = queue
        /\ doing' = [doing EXCEPT ![w] = None] /\ wpc' = [wpc EXCEPT ![w] = "check"]
    BY <1>14, <1>a DEF RunTask, DoingInv, queueVars
  <2>2. QueuesInv'
    BY <1>a, <2>1, QueuesFrame
  <2>3. \A v \in Workers : wpc'[v] = "run" =>
          /\ v # w /\ wpc[v] = "run" /\ doing'[v] = doing[v] /\ doing[v] # doing[w]
          /\ phase'[doing[v]] = phase[doing[v]]
    BY <1>a, <2>1 DEF DoingInv
  <2>4. DOMAIN doing' = Workers
    BY <1>a, <2>1 DEF DoingInv
  <2>5. DoingInv'
    BY <1>a, <2>3, <2>4 DEF DoingInv
  <2>. QED
    BY <2>2, <2>5
<1>. QED
  BY <1>1, <1>2, <1>3, <1>4, <1>5, <1>6, <1>7, <1>8, <1>9, <1>10, <1>11, <1>12, <1>13, <1>14
     DEF Next, StopStep, ProducerStep, WorkerStep

(* How the size of a finite set changes with one member.                    *)
LEMMA OneMember ==
  ASSUME NEW S, IsFiniteSet(S), NEW T, NEW x, T \ {x} = S \ {x}
  PROVE  /\ IsFiniteSet(T) /\ Cardinality(S) \in Nat /\ Cardinality(T) \in Nat
         /\ (x \in S <=> x \in T) => Cardinality(T) = Cardinality(S)
         /\ x \in S /\ x \notin T => Cardinality(T) = Cardinality(S) - 1
         /\ x \notin S /\ x \in T => Cardinality(T) = Cardinality(S) + 1
<1>1. CASE x \in S <=> x \in T
  <2>1. T = S
    BY <1>1
  <2>. QED
    BY <1>1, <2>1, FS_CardinalityType
<1>2. CASE x \in S /\ x \notin T
  <2>1. T = S \ {x}
    BY <1>2
  <2>. QED
    BY <1>2, <2>1, FS_CardinalityType, FS_RemoveElement
<1>3. CASE x \notin S /\ x \in T
  <2>1. T = S \cup {x}
    BY <1>3
  <2>. QED
    BY <1>3, <2>1, FS_CardinalityType, FS_AddElement
<1>. QED
  BY <1>1, <1>2, <1>3

LEMMA PlacesFinite ==
  ASSUME PlacesInv
  PROVE  /\ IsFiniteSet(Pushing)
         /\ Cardinality(Holding) \in Nat /\ Cardinality(Pushing) \in Nat
         /\ Cardinality(Counting) \in Nat /\ Cardinality(Queued) \in Nat
         /\ Cardinality(Pushing) <= Cardinality(Holding)
<1>1. Pushing \in SUBSET Holding
  BY DEF Pushing, Holding
<1>2. IsFiniteSet(Holding) /\ IsFiniteSet(Counting) /\ IsFiniteSet(Queued)
  BY DEF PlacesInv
<1>3. IsFiniteSet(Pushing) /\ Cardinality(Pushing) <= Cardinality(Holding)
  BY <1>1, <1>2, FS_Subset
<1>. QED
  BY <1>2, <1>3, FS_CardinalityType

(* A step that keeps the sums keeps the places in order.                    *)
LEMMA PlacesKept ==
  ASSUME PlacesInv, UNCHANGED <<maxQueueSize, running, size, spc>>,
         IsFiniteSet(Holding'), IsFiniteSet(Counting'), IsFiniteSet(Queued'),
         bounded /\ size > 0 /\ running =>
           /\ slots' \in Nat
           /\ slots' + Cardinality(Holding') + Cardinality(Queued')
                = slots + Cardinality(Holding) + Cardinality(Queued),
         bounded /\ size > 0 /\ ~running =>
           Cardinality(Pushing') + Cardinality(Queued')
             <= Cardinality(Pushing) + Cardinality(Queued),
         size > 0 =>
           /\ queuedTasks' \in Int
           /\ queuedTasks' + Cardinality(Counting') - Cardinality(Queued')
                = queuedTasks + Cardinality(Counting) - Cardinality(Queued),
         size = 0 => Queued' = {},
         ~running /\ spc = "idle" => \A p \in Producers : ppc'[p] \in {"idle", "enqueue"}
  PROVE  PlacesInv'
<1>a. IsFiniteSet(Pushing')
  <2>1. Pushing' \in SUBSET Holding'
    BY DEF Pushing, Holding
  <2>. QED
    BY <2>1, FS_Subset
<1>b. /\ Cardinality(Holding) \in Nat /\ Cardinality(Pushing) \in Nat
      /\ Cardinality(Counting) \in Nat /\ Cardinality(Queued) \in Nat
      /\ Cardinality(Holding') \in Nat /\ Cardinality(Pushing') \in Nat
      /\ Cardinality(Counting') \in Nat /\ Cardinality(Queued') \in Nat
  BY <1>a, PlacesFinite, FS_CardinalityType
<1>1. (bounded /\ size > 0 =>
        IF running
        THEN slots \in Nat /\ slots + Cardinality(Holding) + Cardinality(Queued) = maxQueueSize
        ELSE Cardinality(Pushing) + Cardinality(Queued) <= maxQueueSize)'
  <2> SUFFICES ASSUME bounded', size' > 0
               PROVE  (IF running
                       THEN slots \in Nat /\ slots + Cardinality(Holding) + Cardinality(Queued) = maxQueueSize
                       ELSE Cardinality(Pushing) + Cardinality(Queued) <= maxQueueSize)'
    OBVIOUS
  <2>0. bounded /\ size > 0 /\ maxQueueSize \in Nat
    BY DEF PlacesInv, bounded
  <2>1. CASE running
    <3>1. slots \in Nat /\ slots + Cardinality(Holding) + Cardinality(Queued) = maxQueueSize
      BY <2>0, <2>1 DEF PlacesInv
    <3>2. /\ slots' \in Nat
          /\ slots' + Cardinality(Holding') + Cardinality(Queued') = maxQueueSize'
      BY <1>b, <2>0, <2>1, <3>1
    <3>. QED
      BY <2>1, <3>2
  <2>2. CASE ~running
    <3>1. Cardinality(Pushing) + Cardinality(Queued) <= maxQueueSize
      BY <2>0, <2>2 DEF PlacesInv
    <3>2. Cardinality(Pushing') + Cardinality(Queued') <= maxQueueSize'
      BY <1>b, <2>0, <2>2, <3>1
    <3>. QED
      BY <2>2, <3>2
  <2>. QED
    BY <2>1, <2>2
<1>2. (size > 0 => queuedTasks \in Int
                   /\ queuedTasks + Cardinality(Counting) = Cardinality(Queued))'
  <2> SUFFICES ASSUME size' > 0
               PROVE  (queuedTasks \in Int
                       /\ queuedTasks + Cardinality(Counting) = Cardinality(Queued))'
    OBVIOUS
  <2>1. size > 0
    OBVIOUS
  <2>2. queuedTasks \in Int /\ queuedTasks + Cardinality(Counting) = Cardinality(Queued)
    BY <2>1 DEF PlacesInv
  <2>. QED
    BY <1>b, <2>1, <2>2
<1>3. (size = 0 => Queued = {})' /\ (maxQueueSize \in Nat)'
  BY DEF PlacesInv
<1>4. (spc # "idle" => ~running)'
  BY DEF PlacesInv
<1>5. (~running /\ spc = "idle" =>
         size = 0 /\ \A p \in Producers : ppc[p] \in {"idle", "enqueue"})'
  BY DEF PlacesInv
<1>. QED
  BY <1>1, <1>2, <1>3, <1>4, <1>5 DEF PlacesInv

(* A producer moves from one line to the next.                              *)
LEMMA ProducerMoves ==
  ASSUME PoolTypes, PlacesInv, NEW p \in Producers, NEW to, ppc' = [ppc EXCEPT ![p] = to]
  PROVE  /\ Holding' \ {p} = Holding \ {p} /\ Pushing' \ {p} = Pushing \ {p}
         /\ Counting' \ {p} = Counting \ {p}
         /\ p \in Holding <=> ppc[p] \in {"acquired", "recheck", "push"}
         /\ p \in Pushing <=> ppc[p] = "push"
         /\ p \in Counting <=> ppc[p] = "count"
         /\ p \in Holding' <=> to \in {"acquired", "recheck", "push"}
         /\ p \in Pushing' <=> to = "push"
         /\ p \in Counting' <=> to = "count"
         /\ IsFiniteSet(Holding') /\ IsFiniteSet(Counting')
<1>1. \A q \in Producers : ppc'[q] = IF q = p THEN to ELSE ppc[q]
  BY DEF PoolTypes
<1>2. Holding' \ {p} = Holding \ {p} /\ Pushing' \ {p} = Pushing \ {p}
  BY <1>1 DEF Holding, Pushing
<1>3. Counting' \ {p} = Counting \ {p}
  BY <1>1 DEF Counting
<1>4. /\ p \in Holding <=> ppc[p] \in {"acquired", "recheck", "push"}
      /\ p \in Holding' <=> to \in {"acquired", "recheck", "push"}
  BY <1>1 DEF Holding
<1>5. /\ p \in Pushing <=> ppc[p] = "push"
      /\ p \in Pushing' <=> to = "push"
  BY <1>1 DEF Pushing
<1>6. /\ p \in Counting <=> ppc[p] = "count"
      /\ p \in Counting' <=> to = "count"
  BY <1>1 DEF Counting
<1>7. IsFiniteSet(Holding') /\ IsFiniteSet(Counting')
  <2>1. IsFiniteSet(Holding) /\ IsFiniteSet(Counting)
    BY DEF PlacesInv
  <2>. QED
    BY <1>2, <1>3, <2>1, OneMember
<1>. QED
  BY <1>2, <1>3, <1>4, <1>5, <1>6, <1>7

(* A task goes from one phase to another.                                   *)
LEMMA TaskMoves ==
  ASSUME phase \in [Tasks -> Phases], PlacesInv, NEW t \in Tasks, NEW to,
         phase' = [phase EXCEPT ![t] = to]
  PROVE  /\ IsFiniteSet(Queued') /\ Cardinality(Queued') \in Nat
         /\ phase[t] # "waiting" /\ to # "waiting" => Queued' = Queued
         /\ phase[t] = "waiting" /\ to # "waiting" => Cardinality(Queued') = Cardinality(Queued) - 1
         /\ phase[t] # "waiting" /\ to = "waiting" => Cardinality(Queued') = Cardinality(Queued) + 1
<1>1. \A u \in Tasks : phase'[u] = IF u = t THEN to ELSE phase[u]
  OBVIOUS
<1>2. /\ Queued' \ {t} = Queued \ {t}
      /\ t \in Queued <=> phase[t] = "waiting"
      /\ t \in Queued' <=> to = "waiting"
  BY <1>1 DEF Queued
<1>3. IsFiniteSet(Queued)
  BY DEF PlacesInv
<1>4. /\ IsFiniteSet(Queued') /\ Cardinality(Queued') \in Nat
      /\ t \in Queued /\ t \notin Queued' => Cardinality(Queued') = Cardinality(Queued) - 1
      /\ t \notin Queued /\ t \in Queued' => Cardinality(Queued') = Cardinality(Queued) + 1
  BY <1>2, <1>3, OneMember
<1>5. t \notin Queued /\ t \notin Queued' => Queued' = Queued
  BY <1>2
<1>. QED
  BY <1>2, <1>4, <1>5

(* A producer moves without touching a place, a queue or the counter.       *)
LEMMA ProducerPasses ==
  ASSUME PoolTypes, PlacesInv, NEW p \in Producers, NEW to, ppc' = [ppc EXCEPT ![p] = to],
         UNCHANGED <<maxQueueSize, running, size, spc, queuedTasks>>, Queued' = Queued,
         running => slots' = slots,
         ppc[p] # "count", to # "count",
         bounded /\ running /\ size > 0 =>
           (ppc[p] \in {"acquired", "recheck", "push"} <=> to \in {"acquired", "recheck", "push"}),
         bounded /\ to = "push" => running \/ ppc[p] = "push",
         to = "idle" \/ running \/ spc # "idle"
  PROVE  PlacesInv'
<1>1. /\ Holding' \ {p} = Holding \ {p} /\ Pushing' \ {p} = Pushing \ {p}
      /\ Counting' \ {p} = Counting \ {p}
      /\ p \notin Counting /\ p \notin Counting'
      /\ IsFiniteSet(Holding') /\ IsFiniteSet(Counting')
  BY ProducerMoves
<1>2. Counting' = Counting
  BY <1>1
<1>3. bounded /\ running /\ size > 0 => (p \in Holding <=> p \in Holding')
  BY ProducerMoves
<1>4. bounded /\ running /\ size > 0 => Holding' = Holding
  BY <1>1, <1>3
<1>5. bounded /\ ~running => (p \in Pushing' => p \in Pushing)
  BY ProducerMoves
<1>6. bounded /\ ~running => Pushing' \in SUBSET Pushing
  BY <1>1, <1>5
<1>7. bounded /\ ~running => Cardinality(Pushing') <= Cardinality(Pushing)
                             /\ Cardinality(Pushing') \in Nat
  BY <1>6, PlacesFinite, FS_Subset, FS_CardinalityType
<1>8. ~running /\ spc = "idle" => \A q \in Producers : ppc'[q] \in {"idle", "enqueue"}
  BY DEF PoolTypes, PlacesInv
<1>9. /\ bounded /\ size > 0 /\ running => slots \in Nat
      /\ size > 0 => queuedTasks \in Int
      /\ IsFiniteSet(Queued)
      /\ size = 0 => Queued = {}
  BY DEF PlacesInv
<1>10. bounded /\ size > 0 /\ ~running =>
         Cardinality(Pushing') + Cardinality(Queued') <= Cardinality(Pushing) + Cardinality(Queued)
  BY <1>7, PlacesFinite
<1>. QED
  BY <1>1, <1>2, <1>4, <1>8, <1>9, <1>10, PlacesKept

(* A worker takes a task that waits.                                        *)
LEMMA PlacesTake ==
  ASSUME PoolTypes, PlacesInv, phase \in [Tasks -> Phases], NEW t \in Tasks,
         phase[t] = "waiting", phase' = [phase EXCEPT ![t] = "running"],
         queuedTasks' = queuedTasks - 1, slots' = SlotReleased,
         UNCHANGED <<maxQueueSize, running, size, spc, ppc>>
  PROVE  PlacesInv'
<1>0. PICK to : to = "running"
  OBVIOUS
<1>1. /\ IsFiniteSet(Queued') /\ Cardinality(Queued') \in Nat
      /\ Cardinality(Queued') = Cardinality(Queued) - 1
  <2>1. phase' = [phase EXCEPT ![t] = to] /\ to # "waiting"
    BY <1>0
  <2>. QED
    BY <2>1, TaskMoves
<1>2. Holding' = Holding /\ Pushing' = Pushing /\ Counting' = Counting
  BY DEF Holding, Pushing, Counting
<1>3. t \in Queued
  BY DEF Queued
<1>4. size > 0
  BY <1>3 DEF PlacesInv, PoolTypes
<1>5. /\ Cardinality(Holding) \in Nat /\ Cardinality(Pushing) \in Nat
      /\ Cardinality(Counting) \in Nat /\ Cardinality(Queued) \in Nat
      /\ IsFiniteSet(Holding) /\ IsFiniteSet(Counting) /\ queuedTasks \in Int
      /\ bounded /\ running => slots \in Nat
  BY <1>4, PlacesFinite DEF PlacesInv
<1>6. bounded /\ running =>
        /\ slots' \in Nat
        /\ slots' + Cardinality(Holding') + Cardinality(Queued')
             = slots + Cardinality(Holding) + Cardinality(Queued)
  BY <1>1, <1>2, <1>5 DEF SlotReleased
<1>7. /\ queuedTasks' \in Int
      /\ queuedTasks' + Cardinality(Counting') - Cardinality(Queued')
           = queuedTasks + Cardinality(Counting) - Cardinality(Queued)
  BY <1>1, <1>2, <1>5
<1>8. Cardinality(Pushing') + Cardinality(Queued') <= Cardinality(Pushing) + Cardinality(Queued)
  BY <1>1, <1>2, <1>5
<1>9. ~running /\ spc = "idle" => \A q \in Producers : ppc'[q] \in {"idle", "enqueue"}
  BY DEF PlacesInv
<1>10. size # 0
  BY <1>4
<1>. QED
  BY <1>1, <1>2, <1>5, <1>6, <1>7, <1>8, <1>9, <1>10, PlacesKept

(* A task is pushed into a queue: its place is taken, and the counter is    *)
(* behind by one more.                                                      *)
LEMMA PlacesPush ==
  ASSUME PoolTypes, PlacesInv, phase \in [Tasks -> Phases], NEW p \in Producers,
         NEW t \in Tasks, ppc[p] = "push", ppc' = [ppc EXCEPT ![p] = "count"],
         phase[t] = "new", phase' = [phase EXCEPT ![t] = "waiting"], size # 0,
         UNCHANGED <<maxQueueSize, running, size, spc, slots, queuedTasks>>
  PROVE  PlacesInv'
<1>0. PICK to, now : to = "count" /\ now = "waiting"
  OBVIOUS
<1>1. /\ IsFiniteSet(Queued') /\ Cardinality(Queued') \in Nat
      /\ Cardinality(Queued') = Cardinality(Queued) + 1
  <2>1. phase' = [phase EXCEPT ![t] = now] /\ now = "waiting" /\ phase[t] # "waiting"
    BY <1>0
  <2>. QED
    BY <2>1, TaskMoves
<1>2. /\ Holding' \ {p} = Holding \ {p} /\ Pushing' \ {p} = Pushing \ {p}
      /\ Counting' \ {p} = Counting \ {p}
      /\ p \in Holding /\ p \notin Holding' /\ p \in Pushing /\ p \notin Pushing'
      /\ p \notin Counting /\ p \in Counting'
      /\ IsFiniteSet(Holding') /\ IsFiniteSet(Counting')
  <2>1. ppc' = [ppc EXCEPT ![p] = to]
    BY <1>0
  <2>. QED
    BY <1>0, <2>1, ProducerMoves
<1>3. /\ Cardinality(Holding') = Cardinality(Holding) - 1
      /\ Cardinality(Pushing') = Cardinality(Pushing) - 1
      /\ Cardinality(Counting') = Cardinality(Counting) + 1
  <2>1. IsFiniteSet(Holding) /\ IsFiniteSet(Pushing) /\ IsFiniteSet(Counting)
    BY PlacesFinite DEF PlacesInv
  <2>. QED
    BY <1>2, <2>1, OneMember
<1>4. size > 0
  BY DEF PoolTypes
<1>5. /\ Cardinality(Holding) \in Nat /\ Cardinality(Pushing) \in Nat
      /\ Cardinality(Counting) \in Nat /\ Cardinality(Queued) \in Nat
      /\ queuedTasks \in Int
      /\ bounded /\ running => slots \in Nat
  BY <1>4, PlacesFinite DEF PlacesInv
<1>6. bounded /\ running =>
        /\ slots' \in Nat
        /\ slots' + Cardinality(Holding') + Cardinality(Queued')
             = slots + Cardinality(Holding) + Cardinality(Queued)
  BY <1>1, <1>3, <1>5
<1>7. /\ queuedTasks' \in Int
      /\ queuedTasks' + Cardinality(Counting') - Cardinality(Queued')
           = queuedTasks + Cardinality(Counting) - Cardinality(Queued)
  BY <1>1, <1>3, <1>5
<1>8. Cardinality(Pushing') + Cardinality(Queued') <= Cardinality(Pushing) + Cardinality(Queued)
  BY <1>1, <1>3, <1>5
<1>9. running \/ spc # "idle"
  BY DEF PlacesInv
<1>. QED
  BY <1>1, <1>2, <1>6, <1>7, <1>8, <1>9, PlacesKept

(* The task is counted.                                                     *)
LEMMA PlacesCount ==
  ASSUME PoolTypes, PlacesInv, NEW p \in Producers, NEW to \in {"idle", "wake"},
         ppc[p] = "count", ppc' = [ppc EXCEPT ![p] = to],
         queuedTasks' = queuedTasks + 1,
         UNCHANGED <<maxQueueSize, running, size, spc, slots, phase>>
  PROVE  PlacesInv'
<1>2. /\ Holding' \ {p} = Holding \ {p} /\ Pushing' \ {p} = Pushing \ {p}
      /\ Counting' \ {p} = Counting \ {p}
      /\ p \notin Holding /\ p \notin Holding' /\ p \notin Pushing /\ p \notin Pushing'
      /\ p \in Counting /\ p \notin Counting'
      /\ IsFiniteSet(Holding') /\ IsFiniteSet(Counting')
  BY ProducerMoves
<1>3. Holding' = Holding /\ Pushing' = Pushing /\ Queued' = Queued
  BY <1>2 DEF Queued
<1>4. Cardinality(Counting') = Cardinality(Counting) - 1
  <2>1. IsFiniteSet(Counting)
    BY DEF PlacesInv
  <2>. QED
    BY <1>2, <2>1, OneMember
<1>5. /\ Cardinality(Counting) \in Nat /\ Cardinality(Queued) \in Nat
      /\ Cardinality(Pushing) \in Nat
      /\ size > 0 => queuedTasks \in Int
      /\ bounded /\ size > 0 /\ running => slots \in Nat
      /\ IsFiniteSet(Queued) /\ (size = 0 => Queued = {})
  BY PlacesFinite DEF PlacesInv
<1>6. size > 0 => /\ queuedTasks' \in Int
                  /\ queuedTasks' + Cardinality(Counting') - Cardinality(Queued')
                       = queuedTasks + Cardinality(Counting) - Cardinality(Queued)
  BY <1>3, <1>4, <1>5
<1>7. Cardinality(Pushing') + Cardinality(Queued') <= Cardinality(Pushing) + Cardinality(Queued)
  BY <1>3, <1>5
<1>8. running \/ spc # "idle"
  BY DEF PlacesInv
<1>. QED
  BY <1>2, <1>3, <1>5, <1>6, <1>7, <1>8, PlacesKept

(* A producer gets a place.                                                 *)
LEMMA PlacesAcquire ==
  ASSUME PoolTypes, PlacesInv, NEW p \in Producers, AcquireSlot(p)
  PROVE  PlacesInv'
<1>0. PICK to : to = "acquired"
  OBVIOUS
<1>a. ppc[p] = "acquire" /\ ppc' = [ppc EXCEPT ![p] = to]
  BY <1>0 DEF AcquireSlot, Goes
<1>1. /\ slots > 0 /\ slots' = slots - 1
      /\ UNCHANGED <<maxQueueSize, running, size, spc, queuedTasks, phase>>
  BY DEF AcquireSlot, SlotFree, Goes, poolVars, queueVars
<1>2. /\ Holding' \ {p} = Holding \ {p} /\ Pushing' \ {p} = Pushing \ {p}
      /\ Counting' \ {p} = Counting \ {p}
      /\ p \notin Holding /\ p \in Holding' /\ p \notin Pushing /\ p \notin Pushing'
      /\ p \notin Counting /\ p \notin Counting'
      /\ IsFiniteSet(Holding') /\ IsFiniteSet(Counting')
  <2>1. ppc' = [ppc EXCEPT ![p] = to]
    BY <1>a
  <2>2. to \in {"acquired", "recheck", "push"} /\ to # "push" /\ to # "count"
    BY <1>0
  <2>3. ppc[p] \notin {"acquired", "recheck", "push"} /\ ppc[p] # "push" /\ ppc[p] # "count"
    BY <1>a
  <2>. QED
    BY <2>1, <2>2, <2>3, ProducerMoves
<1>3. Counting' = Counting /\ Pushing' = Pushing /\ Queued' = Queued
  <2>1. Queued' = Queued
    BY <1>1 DEF Queued
  <2>. QED
    BY <1>2, <2>1
<1>4. Cardinality(Holding') = Cardinality(Holding) + 1
  <2>1. IsFiniteSet(Holding)
    BY DEF PlacesInv
  <2>. QED
    BY <1>2, <2>1, OneMember
<1>5. /\ Cardinality(Holding) \in Nat /\ Cardinality(Queued) \in Nat
      /\ Cardinality(Pushing) \in Nat
      /\ size > 0 => queuedTasks \in Int
      /\ bounded /\ size > 0 /\ running => slots \in Nat
      /\ IsFiniteSet(Queued) /\ (size = 0 => Queued = {})
  BY PlacesFinite DEF PlacesInv
<1>6. bounded /\ size > 0 /\ running =>
        /\ slots' \in Nat
        /\ slots' + Cardinality(Holding') + Cardinality(Queued')
             = slots + Cardinality(Holding) + Cardinality(Queued)
  BY <1>1, <1>3, <1>4, <1>5
<1>7. Cardinality(Pushing') + Cardinality(Queued') <= Cardinality(Pushing) + Cardinality(Queued)
  BY <1>3, <1>5
<1>8. running \/ spc # "idle"
  BY <1>a DEF PlacesInv
<1>9. size > 0 => /\ queuedTasks' \in Int
                  /\ queuedTasks' + Cardinality(Counting') - Cardinality(Queued')
                       = queuedTasks + Cardinality(Counting) - Cardinality(Queued)
  BY <1>1, <1>3, <1>5
<1>. QED
  BY <1>1, <1>2, <1>3, <1>5, <1>6, <1>7, <1>8, <1>9, PlacesKept

LEMMA PlacesStep ==
  ASSUME PoolTypes, TaskInv, ~misuse, Next, ~misuse'
  PROVE  PlacesInv'
<1>a. /\ HandsInv /\ QueuesInv /\ DoingInv /\ PlacesInv /\ phase \in [Tasks -> Phases]
      /\ DOMAIN ppc = Producers
  BY DEF TaskInv, PoolTypes
<1>0. ASSUME ppc' = ppc, Queued' = Queued,
             UNCHANGED <<maxQueueSize, running, size, spc, slots, queuedTasks>>
      PROVE  PlacesInv'
  <2>1. Holding' = Holding /\ Pushing' = Pushing /\ Counting' = Counting
    BY <1>0 DEF Holding, Pushing, Counting
  <2>2. bounded' = bounded
    BY <1>0 DEF bounded
  <2>. QED
    BY <1>0, <1>a, <2>1, <2>2 DEF PlacesInv
<1>e. ASSUME NEW p \in Producers, ppc[p] \in Inside, Ends(p, "dropped"),
             UNCHANGED <<maxQueueSize, running, size, spc, queuedTasks>>,
             running => slots' = slots,
             running /\ size > 0 => ppc[p] \notin {"acquired", "recheck", "push"}
      PROVE  PlacesInv'
  <2>0. PICK to : to = "idle"
    OBVIOUS
  <2>1. hand[p] \in Tasks /\ phase[hand[p]] = "new" /\ phase' = [phase EXCEPT ![hand[p]] = "dropped"]
    BY <1>a, <1>e, HandsEnds
  <2>2. Queued' = Queued
    BY <1>a, <2>1 DEF Queued
  <2>3. ppc' = [ppc EXCEPT ![p] = to] /\ ppc[p] # "count" /\ to # "count" /\ to # "push"
        /\ to \notin {"acquired", "recheck", "push"}
    BY <1>e, <2>0 DEF Ends, Inside
  <2>. QED
    BY <1>a, <1>e, <2>0, <2>2, <2>3, ProducerPasses
<1>1. ASSUME NEW n \in NumThreads, Start(n)
      PROVE  PlacesInv'
  <2>1. /\ ~running /\ spc = "idle" /\ running' /\ slots' = maxQueueSize /\ queuedTasks' = 0
        /\ UNCHANGED <<maxQueueSize, spc, ppc, phase>>
    BY <1>1 DEF Start
  <2>2. /\ maxQueueSize \in Nat /\ Queued = {}
        /\ \A p \in Producers : ppc[p] \in {"idle", "enqueue"}
    BY <1>a, <2>1 DEF PlacesInv
  <2>3. Holding' = {} /\ Counting' = {} /\ Queued' = {}
    BY <2>1, <2>2 DEF Holding, Counting, Queued
  <2>. QED
    BY <2>1, <2>2, <2>3, FS_EmptySet DEF PlacesInv
<1>2. ASSUME NEW m \in Capacities, SetMaxQueueSize(m)
      PROVE  PlacesInv'
  <2>1. /\ ~running /\ spc = "idle" /\ maxQueueSize' = m /\ m \in Nat
        /\ UNCHANGED <<running, size, spc, ppc, phase>>
    BY <1>2, PoolAssumption DEF SetMaxQueueSize
  <2>2. Holding' = Holding /\ Counting' = Counting /\ Queued' = Queued
    BY <2>1 DEF Holding, Counting, Queued
  <2>3. size = 0
    BY <1>a, <2>1 DEF PlacesInv
  <2>. QED
    BY <1>a, <2>1, <2>2, <2>3 DEF PlacesInv
<1>3. CASE Stop
  <2>1. /\ running /\ ~running' /\ spc' = "slots"
        /\ UNCHANGED <<maxQueueSize, size, ppc, phase, slots, queuedTasks>>
    BY <1>3 DEF Stop, slotVars, queueVars
  <2>2. Holding' = Holding /\ Pushing' = Pushing /\ Counting' = Counting /\ Queued' = Queued
    BY <2>1 DEF Holding, Pushing, Counting, Queued
  <2>3. bounded' = bounded
    BY <2>1 DEF bounded
  <2>4. bounded /\ size > 0 => Cardinality(Pushing) + Cardinality(Queued) <= maxQueueSize
    <3>1. bounded /\ size > 0 => /\ slots \in Nat
                                 /\ slots + Cardinality(Holding) + Cardinality(Queued) = maxQueueSize
      BY <1>a, <2>1 DEF PlacesInv
    <3>. QED
      BY <1>a, <3>1, PlacesFinite
  <2>. QED
    BY <1>a, <2>1, <2>2, <2>3, <2>4 DEF PlacesInv
<1>4. CASE ReleaseWaiting \/ SignalWorkers
  <2>1. /\ spc # "idle" /\ spc' # "idle"
        /\ UNCHANGED <<maxQueueSize, running, size, ppc, phase, queuedTasks>>
    BY <1>4 DEF ReleaseWaiting, SignalWorkers, queueVars
  <2>2. Holding' = Holding /\ Pushing' = Pushing /\ Counting' = Counting /\ Queued' = Queued
    BY <2>1 DEF Holding, Pushing, Counting, Queued
  <2>3. bounded' = bounded
    BY <2>1 DEF bounded
  <2>. QED
    BY <1>a, <2>1, <2>2, <2>3 DEF PlacesInv
<1>5. CASE Clear
  <2>1. /\ spc = "join" /\ spc' = "idle" /\ size' = 0
        /\ phase' = [t \in Tasks |-> IF phase[t] = "waiting" THEN "dropped" ELSE phase[t]]
        /\ UNCHANGED <<maxQueueSize, running, ppc>>
    BY <1>5 DEF Clear
  <2>2. \A p \in Producers : ppc[p] \in {"idle", "enqueue"}
    BY <1>5 DEF Clear
  <2>3. Holding' = Holding /\ Counting' = Counting
    BY <2>1 DEF Holding, Counting
  <2>4. Queued' = {}
    BY <2>1 DEF Queued
  <2>. QED
    BY <1>a, <2>1, <2>2, <2>3, <2>4, FS_EmptySet DEF PlacesInv
<1>6. ASSUME NEW p \in Producers, NEW t \in Tasks, NEW submit \in BOOLEAN, Call(p, t, submit)
      PROVE  PlacesInv'
  <2>0. PICK to : to = "enqueue"
    OBVIOUS
  <2>1. /\ ppc[p] = "idle" /\ phase[t] = "new"
        /\ UNCHANGED <<maxQueueSize, running, size, spc, slots, queuedTasks>>
    BY <1>6 DEF Call, poolVars, slotVars, queueVars
  <2>2. CASE running /\ size > 0
    <3>1. ppc' = [ppc EXCEPT ![p] = to] /\ phase' = phase
      BY <1>6, <2>0, <2>2 DEF Call
    <3>2. Queued' = Queued
      BY <3>1 DEF Queued
    <3>3. /\ ppc[p] # "count" /\ to # "count" /\ to # "push"
          /\ ppc[p] \notin {"acquired", "recheck", "push"}
          /\ to \notin {"acquired", "recheck", "push"}
      BY <2>0, <2>1
    <3>. QED
      BY <1>a, <2>1, <2>2, <3>1, <3>2, <3>3, ProducerPasses
  <2>3. CASE ~(running /\ size > 0)
    <3>1. /\ ppc' = ppc
          /\ phase' = [phase EXCEPT ![t] =
               IF running \/ ~started \/ submit THEN "done" ELSE "dropped"]
      BY <1>6, <2>3 DEF Call
    <3>2. Queued' = Queued
      BY <1>a, <2>1, <3>1 DEF Queued
    <3>. QED
      BY <1>0, <2>1, <3>1, <3>2
  <2>. QED
    BY <2>2, <2>3
<1>7. ASSUME NEW p \in Producers, Enqueue(p)
      PROVE  PlacesInv'
  <2>1. /\ ppc[p] = "enqueue" /\ ppc[p] \in Inside
        /\ ppc[p] \notin {"acquired", "recheck", "push"} /\ ppc[p] # "count"
        /\ UNCHANGED <<maxQueueSize, running, size, spc, slots, queuedTasks>>
    BY <1>7 DEF Enqueue, poolVars, queueVars, Inside
  <2>2. CASE ~running
    BY <1>e, <1>7, <2>1, <2>2 DEF Enqueue
  <2>3. CASE running
    <3>1. phase' = phase
      BY <1>7, <2>3 DEF Enqueue, Goes
    <3>2. Queued' = Queued
      BY <3>1 DEF Queued
    <3>3. CASE bounded
      <4>0. PICK to : to = "acquire"
        OBVIOUS
      <4>1. ppc' = [ppc EXCEPT ![p] = to]
        BY <1>7, <2>3, <3>3, <4>0 DEF Enqueue, Goes
      <4>2. to \notin {"acquired", "recheck", "push"} /\ to # "count" /\ to # "push"
        BY <4>0
      <4>. QED
        BY <1>a, <2>1, <2>3, <3>2, <4>1, <4>2, ProducerPasses
    <3>4. CASE ~bounded
      <4>0. PICK to : to = "push"
        OBVIOUS
      <4>1. ppc' = [ppc EXCEPT ![p] = to]
        BY <1>7, <2>3, <3>4, <4>0 DEF Enqueue, Goes
      <4>2. to # "count"
        BY <4>0
      <4>. QED
        BY <1>a, <2>1, <2>3, <3>2, <3>4, <4>1, <4>2, ProducerPasses
    <3>. QED
      BY <3>3, <3>4
  <2>. QED
    BY <2>2, <2>3
<1>8. ASSUME NEW p \in Producers, AcquireSlot(p)
      PROVE  PlacesInv'
  BY <1>a, <1>8, PlacesAcquire
<1>9. ASSUME NEW p \in Producers, StopWaiting(p)
      PROVE  PlacesInv'
  <2>0. PICK to : to = "recheck"
    OBVIOUS
  <2>1. /\ ppc[p] = "acquired" /\ ppc' = [ppc EXCEPT ![p] = to] /\ phase' = phase
        /\ UNCHANGED <<maxQueueSize, running, size, spc, slots, queuedTasks>>
    BY <1>9, <2>0 DEF StopWaiting, Goes, poolVars, queueVars
  <2>2. Queued' = Queued
    BY <2>1 DEF Queued
  <2>3. running \/ spc # "idle"
    BY <1>a, <2>1 DEF PlacesInv
  <2>4. /\ to \in {"acquired", "recheck", "push"} /\ to # "count" /\ to # "push"
        /\ ppc[p] \in {"acquired", "recheck", "push"} /\ ppc[p] # "count"
    BY <2>0, <2>1
  <2>. QED
    BY <1>a, <2>1, <2>2, <2>3, <2>4, ProducerPasses
<1>10. ASSUME NEW p \in Producers, Recheck(p)
       PROVE  PlacesInv'
  <2>1. /\ ppc[p] = "recheck" /\ ppc[p] \in Inside
        /\ UNCHANGED <<maxQueueSize, running, size, spc, queuedTasks>>
    BY <1>10 DEF Recheck, poolVars, queueVars, Inside
  <2>2. CASE ~running
    BY <1>e, <1>10, <2>1, <2>2 DEF Recheck
  <2>3. CASE running
    <3>0. PICK to : to = "push"
      OBVIOUS
    <3>1. phase' = phase /\ slots' = slots /\ ppc' = [ppc EXCEPT ![p] = to]
      BY <1>10, <2>3, <3>0 DEF Recheck, Goes
    <3>2. Queued' = Queued
      BY <3>1 DEF Queued
    <3>3. /\ to \in {"acquired", "recheck", "push"} /\ to # "count"
          /\ ppc[p] \in {"acquired", "recheck", "push"} /\ ppc[p] # "count"
      BY <2>1, <3>0
    <3>. QED
      BY <1>a, <2>1, <2>3, <3>1, <3>2, <3>3, ProducerPasses
  <2>. QED
    BY <2>2, <2>3
<1>11. ASSUME NEW p \in Producers, Push(p)
       PROVE  PlacesInv'
  <2>1. /\ ppc[p] = "push" /\ ppc[p] \in Inside
        /\ UNCHANGED <<maxQueueSize, running, size, spc, slots, queuedTasks>>
    BY <1>11 DEF Push, poolVars, slotVars, Inside
  <2>2. CASE size = 0
    BY <1>e, <1>11, <2>1, <2>2 DEF Push
  <2>3. CASE size # 0
    <3>0. PICK t : t = hand[p]
      OBVIOUS
    <3>1. t \in Tasks /\ phase[t] = "new"
      BY <1>a, <2>1, <3>0 DEF HandsInv
    <3>2. /\ ppc' = [ppc EXCEPT ![p] = "count"]
          /\ phase' = [phase EXCEPT ![t] = "waiting"]
      BY <1>11, <2>3, <3>0 DEF Push
    <3>. QED
      BY <1>a, <2>1, <2>3, <3>1, <3>2, PlacesPush
  <2>. QED
    BY <2>2, <2>3
<1>12. ASSUME NEW p \in Producers, Count(p)
       PROVE  PlacesInv'
  <2>1. PICK to \in {"idle", "wake"} : ppc' = [ppc EXCEPT ![p] = to]
    BY <1>12 DEF Count
  <2>2. /\ ppc[p] = "count" /\ queuedTasks' = queuedTasks + 1
        /\ UNCHANGED <<maxQueueSize, running, size, spc, slots, phase>>
    BY <1>12 DEF Count, poolVars, slotVars
  <2>. QED
    BY <1>a, <2>1, <2>2, PlacesCount
<1>13. ASSUME NEW p \in Producers, Wake(p)
       PROVE  PlacesInv'
  <2>0. PICK to : to = "idle"
    OBVIOUS
  <2>1. /\ ppc[p] = "wake" /\ ppc' = [ppc EXCEPT ![p] = to] /\ phase' = phase
        /\ UNCHANGED <<maxQueueSize, running, size, spc, slots, queuedTasks>>
    BY <1>13, <2>0 DEF Wake, poolVars, slotVars, queueVars
  <2>2. Queued' = Queued
    BY <2>1 DEF Queued
  <2>4. /\ to \notin {"acquired", "recheck", "push"} /\ to # "count" /\ to # "push"
        /\ ppc[p] \notin {"acquired", "recheck", "push"} /\ ppc[p] # "count"
    BY <2>0, <2>1
  <2>. QED
    BY <1>a, <2>0, <2>1, <2>2, <2>4, ProducerPasses
<1>14. ASSUME NEW w \in Workers, CheckRunning(w) \/ Look(w) \/ Sleep(w)
       PROVE  PlacesInv'
  <2>1. /\ ppc' = ppc /\ phase' = phase
        /\ UNCHANGED <<maxQueueSize, running, size, spc, slots, queuedTasks>>
    BY <1>14 DEF CheckRunning, Look, Sleep, poolVars, slotVars, queueVars
  <2>2. Queued' = Queued
    BY <2>1 DEF Queued
  <2>. QED
    BY <1>0, <2>1, <2>2
<1>t. ASSUME NEW w \in Workers, NEW v \in Workers, NEW t, NEW rest, queue[v] # <<>>,
             \/ t = Head(queue[v]) /\ rest = Tail(queue[v])
             \/ t = Last(queue[v]) /\ rest = Stolen(queue[v]),
             wpc[w] # "run", Takes(w, t, v, rest),
             UNCHANGED <<maxQueueSize, running, size, spc, ppc>>
      PROVE  PlacesInv'
  <2>1. PICK u \in Tasks : /\ phase[u] = "waiting" /\ phase' = [phase EXCEPT ![u] = "running"]
                           /\ queuedTasks' = queuedTasks - 1 /\ slots' = SlotReleased
    BY <1>a, <1>t, TakeStep
  <2>. QED
    BY <1>a, <1>t, <2>1, PlacesTake
<1>15. ASSUME NEW w \in Workers, PopOwn(w)
       PROVE  PlacesInv'
  <2>0. wpc[w] # "run" /\ UNCHANGED <<maxQueueSize, running, size, spc, ppc>>
    BY <1>15 DEF PopOwn, poolVars
  <2>1. CASE queue[w] # <<>>
    <3>1. Takes(w, Head(queue[w]), w, Tail(queue[w]))
      BY <1>15, <2>1 DEF PopOwn
    <3>. QED
      BY <1>t, <2>0, <2>1, <3>1
  <2>2. CASE queue[w] = <<>>
    <3>1. UNCHANGED <<slots, queuedTasks, phase>>
      BY <1>15, <2>2 DEF PopOwn
    <3>2. Queued' = Queued
      BY <3>1 DEF Queued
    <3>. QED
      BY <1>0, <2>0, <3>1, <3>2
  <2>. QED
    BY <2>1, <2>2
<1>16. ASSUME NEW w \in Workers, Steal(w)
       PROVE  PlacesInv'
  <2>0. wpc[w] # "run" /\ UNCHANGED <<maxQueueSize, running, size, spc, ppc>>
    BY <1>16 DEF Steal, poolVars
  <2>1. ASSUME NEW v \in 1..size \ {w}, queue[v] # <<>>,
               Takes(w, Last(queue[v]), v, Stolen(queue[v]))
        PROVE  PlacesInv'
    <3>1. v \in Workers
      BY DEF PoolTypes
    <3>. QED
      BY <1>t, <2>0, <2>1, <3>1
  <2>2. CASE UNCHANGED <<queue, queuedTasks, slots, doing, phase>>
    <3>1. UNCHANGED <<slots, queuedTasks>> /\ Queued' = Queued
      BY <2>2 DEF Queued
    <3>. QED
      BY <1>0, <2>0, <3>1
  <2>. QED
    BY <1>16, <2>1, <2>2 DEF Steal
<1>17. ASSUME NEW w \in Workers, RunTask(w)
       PROVE  PlacesInv'
  <2>1. /\ doing[w] \in Tasks /\ phase[doing[w]] = "running"
        /\ phase' = [phase EXCEPT ![doing[w]] = "done"] /\ ppc' = ppc
        /\ UNCHANGED <<maxQueueSize, running, size, spc, slots, queuedTasks>>
    BY <1>17, <1>a DEF RunTask, DoingInv, poolVars, slotVars, queueVars
  <2>2. Queued' = Queued
    BY <1>a, <2>1 DEF Queued
  <2>. QED
    BY <1>0, <2>1, <2>2
<1>. QED
  BY <1>1, <1>2, <1>3, <1>4, <1>5, <1>6, <1>7, <1>8, <1>9, <1>10, <1>11, <1>12, <1>13, <1>14,
     <1>15, <1>16, <1>17
     DEF Next, StopStep, ProducerStep, WorkerStep

LEMMA TaskInvInit == Init => TaskInv
<1> SUFFICES ASSUME Init
             PROVE  TaskInv
  OBVIOUS
<1>1. phase = [t \in Tasks |-> "new"] /\ phase \in [Tasks -> Phases] /\ misuse = FALSE
  BY DEF Init, Phases
<1>2. HandsInv
  BY DEF Init, HandsInv, Inside
<1>3. QueuesInv
  BY EmptySeq DEF Init, QueuesInv
<1>4. DoingInv
  BY DEF Init, DoingInv
<1>5. Holding = {} /\ Counting = {} /\ Queued = {}
  BY DEF Init, Holding, Counting, Queued
<1>6. PlacesInv
  <2>1. /\ maxQueueSize \in Nat /\ size = 0 /\ ~running /\ spc = "idle"
        /\ \A p \in Producers : ppc[p] = "idle"
    BY PoolAssumption DEF Init
  <2>. QED
    BY <1>5, <2>1, FS_EmptySet DEF PlacesInv
<1>. QED
  BY <1>1, <1>2, <1>3, <1>4, <1>6 DEF TaskInv

LEMMA TaskInvStep == PoolTypes /\ TaskInv /\ [Next]_vars => TaskInv'
<1> SUFFICES ASSUME PoolTypes, TaskInv, [Next]_vars
             PROVE  TaskInv'
  OBVIOUS
<1>1. CASE UNCHANGED vars
  <2>1. /\ UNCHANGED <<running, maxQueueSize, size, spc, misuse, slots, queue, queuedTasks>>
        /\ UNCHANGED <<ppc, wpc, hand, doing, phase>>
    BY <1>1 DEF vars, poolVars, slotVars, queueVars
  <2>2. HandsInv' = HandsInv /\ QueuesInv' = QueuesInv /\ DoingInv' = DoingInv
    BY <2>1 DEF HandsInv, QueuesInv, DoingInv
  <2>3. PlacesInv' = PlacesInv
    BY <2>1 DEF PlacesInv, Holding, Pushing, Counting, Queued, bounded
  <2>. QED
    BY <2>1, <2>2, <2>3 DEF TaskInv
<1>2. CASE Next
  <2>1. ~misuse
    BY <1>2 DEF Next
  <2>2. misuse' => size' = 0
    <3>1. CASE Clear
      BY <3>1 DEF Clear
    <3>2. CASE ~Clear
      <4>1. misuse' = misuse
        BY <1>2, <3>2 DEF Next, StopStep, ProducerStep, WorkerStep, Start, SetMaxQueueSize, Stop,
             ReleaseWaiting, SignalWorkers, Call, Enqueue, AcquireSlot, StopWaiting, Recheck, Push,
             Count, Wake, CheckRunning, PopOwn, Look, Steal, Sleep, RunTask, poolVars
      <4>. QED
        BY <2>1, <4>1
    <3>. QED
      BY <3>1, <3>2
  <2>. QED
    BY <1>2, <2>1, <2>2, HandsStep, QueuesStep, PlacesStep DEF TaskInv
<1>. QED
  BY <1>1, <1>2

LEMMA TaskInvariance == Spec => [](PoolTypes /\ TaskInv)
BY PoolTypesInit, PoolTypesStep, TaskInvInit, TaskInvStep, PTL DEF Spec

(* queuedTasks_ is behind the queues by exactly the producers between their *)
(* push and their increment, whatever the number of threads, also while the *)
(* pool stops.                                                              *)
THEOREM CounterIsExact == Spec => []CounterFollowsQueues
<1>1. TaskInv => CounterFollowsQueues
  <2> SUFFICES ASSUME TaskInv, size > 0
               PROVE  queuedTasks + Cardinality(Counting) = Cardinality(Queued)
    BY DEF CounterFollowsQueues, Counting, Queued
  <2>1. size # 0
    OBVIOUS
  <2>. QED
    BY <2>1 DEF TaskInv, PlacesInv
<1>. QED
  BY <1>1, TaskInvariance, PTL

----------------------------------------------------------------------------
LEMMA QueuedIsWaiting == Abstract!Waiting = Queued
BY DEF Abstract!Waiting, Queued

LEMMA SameCardinality == \A S : Abstract!Cardinality(S) = Cardinality(S)
BY DEF Abstract!Cardinality, Cardinality, Abstract!IsFiniteSet, IsFiniteSet

(* A step on one task is a step of module TaskPool.                         *)
LEMMA AbstractStep ==
  ASSUME NEW t \in Tasks, maxQueueSize' = maxQueueSize,
         \/ Abstract!Queue(t) \/ Abstract!RunNow(t) \/ Abstract!Refuse(t)
         \/ Abstract!Take(t) \/ Abstract!Finish(t)
  PROVE  Abstract!Next
BY DEF Abstract!Next

LEMMA PoolSimulates ==
  PoolTypes /\ TaskInv /\ [Next]_vars => [Abstract!Next]_<<phase, maxQueueSize>>
<1> SUFFICES ASSUME PoolTypes, TaskInv, Next
             PROVE  Abstract!Next \/ UNCHANGED <<phase, maxQueueSize>>
  BY DEF vars, poolVars
<1>a. /\ ~misuse /\ HandsInv /\ QueuesInv /\ DoingInv /\ PlacesInv
      /\ phase \in [Tasks -> Phases]
  BY DEF Next, TaskInv
<1>e. ASSUME NEW p \in Producers, ppc[p] \in Inside, Ends(p, "dropped"),
             maxQueueSize' = maxQueueSize
      PROVE  Abstract!Next
  <2>1. PICK t \in Tasks : phase[t] = "new" /\ phase' = [phase EXCEPT ![t] = "dropped"]
    BY <1>a, <1>e, HandsEnds
  <2>2. Abstract!Refuse(t)
    BY <2>1 DEF Abstract!Refuse, Abstract!Becomes
  <2>. QED
    BY <1>e, <2>2, AbstractStep
<1>t. ASSUME NEW w \in Workers, NEW v \in Workers, NEW t, NEW rest, queue[v] # <<>>,
             \/ t = Head(queue[v]) /\ rest = Tail(queue[v])
             \/ t = Last(queue[v]) /\ rest = Stolen(queue[v]),
             wpc[w] # "run", Takes(w, t, v, rest), maxQueueSize' = maxQueueSize
      PROVE  Abstract!Next
  <2>1. PICK u \in Tasks : phase[u] = "waiting" /\ phase' = [phase EXCEPT ![u] = "running"]
    BY <1>a, <1>t, TakeStep
  <2>2. Abstract!Take(u)
    BY <2>1 DEF Abstract!Take, Abstract!Becomes
  <2>. QED
    BY <1>t, <2>2, AbstractStep
<1>1. ASSUME NEW n \in NumThreads, Start(n)
      PROVE  UNCHANGED <<phase, maxQueueSize>>
  BY <1>1 DEF Start
<1>2. ASSUME NEW m \in Capacities, SetMaxQueueSize(m)
      PROVE  Abstract!Next
  <2>1. maxQueueSize' \in Nat /\ phase' = phase /\ ~running /\ spc = "idle"
    BY <1>2, PoolAssumption DEF SetMaxQueueSize
  <2>2. Abstract!Waiting = {}
    BY <1>a, <2>1, QueuedIsWaiting DEF PlacesInv
  <2>. QED
    BY <2>1, <2>2 DEF Abstract!Next
<1>3. CASE Stop \/ ReleaseWaiting \/ SignalWorkers
  BY <1>3 DEF Stop, ReleaseWaiting, SignalWorkers
<1>4. CASE Clear
  <2>1. /\ phase' = [t \in Tasks |-> IF phase[t] = "waiting" THEN "dropped" ELSE phase[t]]
        /\ maxQueueSize' = maxQueueSize
    BY <1>4 DEF Clear
  <2>2. Abstract!Drop
    BY <2>1 DEF Abstract!Drop, Abstract!Waiting
  <2>. QED
    BY <2>1, <2>2 DEF Abstract!Next
<1>5. ASSUME NEW p \in Producers, NEW t \in Tasks, NEW submit \in BOOLEAN, Call(p, t, submit)
      PROVE  Abstract!Next \/ UNCHANGED <<phase, maxQueueSize>>
  <2>1. phase[t] = "new" /\ maxQueueSize' = maxQueueSize
    BY <1>5 DEF Call, poolVars
  <2>2. \/ phase' = phase
        \/ phase' = [phase EXCEPT ![t] = "done"]
        \/ phase' = [phase EXCEPT ![t] = "dropped"]
    BY <1>5 DEF Call
  <2>3. phase' # phase => Abstract!RunNow(t) \/ Abstract!Refuse(t)
    BY <2>1, <2>2 DEF Abstract!RunNow, Abstract!Refuse, Abstract!Becomes
  <2>. QED
    BY <2>1, <2>3, AbstractStep
<1>6. ASSUME NEW p \in Producers, Enqueue(p)
      PROVE  Abstract!Next \/ UNCHANGED <<phase, maxQueueSize>>
  <2>1. ppc[p] \in Inside /\ maxQueueSize' = maxQueueSize
    BY <1>6 DEF Enqueue, Inside, poolVars
  <2>2. Ends(p, "dropped") \/ phase' = phase
    BY <1>6 DEF Enqueue, Goes
  <2>. QED
    BY <1>e, <2>1, <2>2
<1>7. ASSUME NEW p \in Producers, AcquireSlot(p) \/ StopWaiting(p) \/ Count(p) \/ Wake(p)
      PROVE  UNCHANGED <<phase, maxQueueSize>>
  BY <1>7 DEF AcquireSlot, StopWaiting, Count, Wake, Goes, poolVars
<1>8. ASSUME NEW p \in Producers, Recheck(p)
      PROVE  Abstract!Next \/ UNCHANGED <<phase, maxQueueSize>>
  <2>1. ppc[p] \in Inside /\ maxQueueSize' = maxQueueSize
    BY <1>8 DEF Recheck, Inside, poolVars
  <2>2. Ends(p, "dropped") \/ phase' = phase
    BY <1>8 DEF Recheck, Goes
  <2>. QED
    BY <1>e, <2>1, <2>2
<1>9. ASSUME NEW p \in Producers, Push(p)
      PROVE  Abstract!Next
  <2>1. ppc[p] = "push" /\ ppc[p] \in Inside /\ maxQueueSize' = maxQueueSize
    BY <1>9 DEF Push, Inside, poolVars
  <2>2. CASE size = 0
    BY <1>9, <1>e, <2>1, <2>2 DEF Push
  <2>3. CASE size # 0
    <3>1. PICK t : t = hand[p]
      OBVIOUS
    <3>2. t \in Tasks /\ phase[t] = "new"
      BY <1>a, <2>1, <3>1 DEF HandsInv
    <3>3. phase' = [phase EXCEPT ![t] = "waiting"]
      BY <1>9, <2>3, <3>1 DEF Push
    <3>4. p \in Pushing
      BY <2>1 DEF Pushing
    <3>5. Cardinality(Pushing) \in Nat /\ Cardinality(Pushing) > 0
      BY <1>a, <3>4, PlacesFinite, FS_EmptySet
    <3>6. bounded => Cardinality(Queued) < maxQueueSize
      <4> SUFFICES ASSUME bounded
                   PROVE  Cardinality(Queued) < maxQueueSize
        OBVIOUS
      <4>0. size > 0 /\ maxQueueSize \in Nat
        BY <1>a, <2>3 DEF PoolTypes, PlacesInv
      <4>1. CASE running
        <5>1. /\ slots \in Nat
              /\ slots + Cardinality(Holding) + Cardinality(Queued) = maxQueueSize
          BY <1>a, <4>0, <4>1 DEF PlacesInv
        <5>. QED
          BY <1>a, <3>5, <4>0, <5>1, PlacesFinite
      <4>2. CASE ~running
        <5>1. Cardinality(Pushing) + Cardinality(Queued) <= maxQueueSize
          BY <1>a, <4>0, <4>2 DEF PlacesInv
        <5>. QED
          BY <1>a, <3>5, <4>0, <5>1, PlacesFinite
      <4>. QED
        BY <4>1, <4>2
    <3>7. Abstract!Queue(t)
      <4>1. maxQueueSize > 0 => Abstract!Cardinality(Abstract!Waiting) < maxQueueSize
        BY <3>6, QueuedIsWaiting, SameCardinality DEF bounded
      <4>2. Abstract!Becomes(t, "new", "waiting")
        BY <3>2, <3>3 DEF Abstract!Becomes
      <4>. QED
        BY <4>1, <4>2 DEF Abstract!Queue
    <3>. QED
      BY <2>1, <3>2, <3>7, AbstractStep
  <2>. QED
    BY <2>2, <2>3
<1>10. ASSUME NEW w \in Workers, CheckRunning(w) \/ Look(w) \/ Sleep(w)
       PROVE  UNCHANGED <<phase, maxQueueSize>>
  BY <1>10 DEF CheckRunning, Look, Sleep, poolVars
<1>11. ASSUME NEW w \in Workers, PopOwn(w)
       PROVE  Abstract!Next \/ UNCHANGED <<phase, maxQueueSize>>
  <2>0. wpc[w] # "run" /\ maxQueueSize' = maxQueueSize
    BY <1>11 DEF PopOwn, poolVars
  <2>1. CASE queue[w] # <<>>
    <3>1. Takes(w, Head(queue[w]), w, Tail(queue[w]))
      BY <1>11, <2>1 DEF PopOwn
    <3>. QED
      BY <1>t, <2>0, <2>1, <3>1
  <2>2. CASE queue[w] = <<>>
    BY <1>11, <2>0, <2>2 DEF PopOwn
  <2>. QED
    BY <2>1, <2>2
<1>12. ASSUME NEW w \in Workers, Steal(w)
       PROVE  Abstract!Next \/ UNCHANGED <<phase, maxQueueSize>>
  <2>0. wpc[w] # "run" /\ maxQueueSize' = maxQueueSize
    BY <1>12 DEF Steal, poolVars
  <2>1. ASSUME NEW v \in 1..size \ {w}, queue[v] # <<>>,
               Takes(w, Last(queue[v]), v, Stolen(queue[v]))
        PROVE  Abstract!Next
    <3>1. v \in Workers
      BY DEF PoolTypes
    <3>. QED
      BY <1>t, <2>0, <2>1, <3>1
  <2>. QED
    BY <1>12, <2>0, <2>1 DEF Steal
<1>13. ASSUME NEW w \in Workers, RunTask(w)
       PROVE  Abstract!Next
  <2>0. PICK t : t = doing[w]
    OBVIOUS
  <2>1. /\ t \in Tasks /\ phase[t] = "running"
        /\ phase' = [phase EXCEPT ![t] = "done"] /\ maxQueueSize' = maxQueueSize
    BY <1>13, <1>a, <2>0 DEF RunTask, DoingInv, poolVars
  <2>2. Abstract!Finish(t)
    BY <2>1 DEF Abstract!Finish, Abstract!Becomes
  <2>. QED
    BY <2>1, <2>2, AbstractStep
<1>. QED
  BY <1>1, <1>2, <1>3, <1>4, <1>5, <1>6, <1>7, <1>8, <1>9, <1>10, <1>11, <1>12, <1>13
     DEF Next, StopStep, ProducerStep, WorkerStep

(* The pool implements module TaskPool for any producers, workers, tasks    *)
(* and limits: every task runs at most once, whoever takes or steals it, or *)
(* is dropped, and no more tasks wait than setMaxQueueSize() allows, also   *)
(* while stop() lets waiting producers in.                                  *)
THEOREM PoolImplementsTaskPool == Spec => ImplementsTaskPool
<1>1. Init => Abstract!Init
  BY PoolAssumption DEF Init, Abstract!Init
<1>. QED
  BY <1>1, TaskInvariance, PoolSimulates, PTL DEF Spec, ImplementsTaskPool, Abstract!Spec

=============================================================================
