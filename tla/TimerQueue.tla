------------------------------ MODULE TimerQueue ------------------------------
(***************************************************************************)
(* muduo::net::TimerQueue: timers ordered by expiration, served by one      *)
(* timerfd that is armed for the earliest of them.                          *)
(*                                                                         *)
(* addTimer() and cancel() go through EventLoop::runInLoop(): called by the *)
(* loop thread they take effect on the spot, called by another thread they  *)
(* join the loop's queue of functors (see SerialExecutor).  Time is counted *)
(* in units of the timerfd's minimum delay, 100 microseconds.               *)
(***************************************************************************)
EXTENDS Naturals, Sequences

CONSTANTS
  Seqs,       \* sequence numbers of the timers created, a set of naturals
  Intervals,  \* intervals of timers, zero for a timer that does not repeat
  MaxDelay,   \* a timer is created at most this far into the future
  LastCall,   \* bound: no timer is created, and the loop keeps up, after it
  MaxTime     \* bound: the clock stops here

ASSUME TimerAssumption ==
  /\ Seqs \subseteq Nat \ {0}
  /\ Intervals \subseteq Nat
  /\ MaxDelay \in Nat /\ LastCall \in Nat /\ MaxTime \in Nat

VARIABLES
  now,                   \* Timestamp::now()
  created,               \* sequence numbers given out
  expiration, interval,  \* the fields of each Timer
  timers,                \* timers_: pairs of expiration and sequence number
  activeTimers,          \* activeTimers_
  timerOwners,           \* the keys of timerOwners_
  cancelingTimers,       \* cancelingTimers_
  callingExpiredTimers,  \* callingExpiredTimers_
  armed, fdTime,         \* the timerfd: set or not, and when it fires
  reported,              \* the last poll() returned timerfdChannel_
  pc,                    \* where the loop thread is
  expired, toRun,        \* handleRead()'s batch, and what is left of it
  readTime,              \* handleRead()'s local now
  queue,                 \* functors queued by other threads
  cancelled,             \* history: timers cancelled while they existed
  current,               \* history: the timer whose callback runs, or 0
  ran                    \* history: timers that ran

vars == <<now, created, expiration, interval, timers, activeTimers,
          timerOwners, cancelingTimers, callingExpiredTimers, armed, fdTime,
          reported, pc, expired, toRun, readTime, queue, cancelled, current,
          ran>>

(* Groups of variables that an operation leaves alone together.             *)
batchVars == <<expired, toRun, readTime, callingExpiredTimers>>
timerVars == <<created, expiration, interval>>

----------------------------------------------------------------------------
(* Mutant: the batch runs in the order the timers were created.            *)
BeforeBySequence(d, e) == d[2] < e[2]

(* std::pair's order on the entries of timers_.                             *)
Before(d, e) == d[1] < e[1] \/ (d[1] = e[1] /\ d[2] < e[2])

(* howMuchTimeFromNow() rounds up to at least one unit from now.            *)
FireTime(when) == IF when > now THEN when ELSE now + 1

(* resetTimerfd(): a new setting replaces the old one, fired or not.        *)
ResetTimerfd(when) == armed' = TRUE /\ fdTime' = FireTime(when)

(* The timerfd has fired and was not read or set since.                     *)
Readable == armed /\ fdTime <= now

(* insertTimer()'s result: the new timer is due before all others.          *)
EarliestChanged(when) == \A e \in timers : when < e[1]

(* The loop thread is in user code, which may call addTimer() and cancel(). *)
InUserCode == pc \in {"idle", "callback"}

Init ==
  /\ now = 1
  /\ created = {}
  /\ expiration = [s \in Seqs |-> 0]
  /\ interval = [s \in Seqs |-> 0]
  /\ timers = {} /\ activeTimers = {} /\ timerOwners = {}
  /\ cancelingTimers = {} /\ callingExpiredTimers = FALSE
  /\ armed = FALSE /\ fdTime = 0 /\ reported = FALSE
  /\ pc = "idle"
  /\ expired = {} /\ toRun = {} /\ readTime = 0
  /\ queue = <<>>
  /\ cancelled = {} /\ current = 0 /\ ran = {}

----------------------------------------------------------------------------
(* The bodies of the functors, run by the loop thread.                      *)

(* addTimerInLoop(): insert, take ownership, arm the timerfd if needed.     *)
AddTimerInLoop(s, when) ==
  /\ timers' = timers \cup {<<when, s>>}
  /\ activeTimers' = activeTimers \cup {s}
  /\ timerOwners' = timerOwners \cup {s}
  /\ IF EarliestChanged(when) THEN ResetTimerfd(when)
                              ELSE UNCHANGED <<armed, fdTime>>
  /\ UNCHANGED <<cancelingTimers, cancelled>>

(* cancelInLoop(): an active timer is erased from all three containers; one *)
(* that is not active is remembered while a batch is running.               *)
CancelInLoop(s) ==
  /\ IF s \in activeTimers
     THEN /\ timers' = timers \ {<<expiration[s], s>>}
          /\ activeTimers' = activeTimers \ {s}
          /\ timerOwners' = timerOwners \ {s}
          /\ UNCHANGED cancelingTimers
     ELSE /\ cancelingTimers' = IF callingExpiredTimers
                                THEN cancelingTimers \cup {s}
                                ELSE cancelingTimers
          /\ UNCHANGED <<timers, activeTimers, timerOwners>>
  /\ cancelled' = IF s \in timerOwners THEN cancelled \cup {s} ELSE cancelled
  /\ UNCHANGED <<armed, fdTime>>

(* The Timer's constructor, in whichever thread calls addTimer().           *)
NewTimer(s, when, iv) ==
  /\ s \notin created
  /\ now <= LastCall
  /\ created' = created \cup {s}
  /\ expiration' = [expiration EXCEPT ![s] = when]
  /\ interval' = [interval EXCEPT ![s] = iv]

----------------------------------------------------------------------------
(* The public methods.                                                      *)

AddTimer(s, when, iv) ==
  /\ InUserCode
  /\ NewTimer(s, when, iv)
  /\ AddTimerInLoop(s, when)
  /\ UNCHANGED <<now, batchVars, reported, pc, queue, current, ran>>

Cancel(s) ==
  /\ InUserCode
  /\ s \in created
  /\ CancelInLoop(s)
  /\ UNCHANGED <<now, timerVars, batchVars, reported, pc, queue, current, ran>>

AddTimerFrom(s, when, iv) ==
  /\ NewTimer(s, when, iv)
  /\ queue' = Append(queue, <<"add", s>>)
  /\ UNCHANGED <<now, timers, activeTimers, timerOwners, cancelingTimers, armed,
                 fdTime, batchVars, reported, pc, cancelled, current, ran>>

(* A second request to cancel a timer changes nothing, so one is enough.    *)
CancelFrom(s) ==
  /\ s \in created
  /\ \A i \in 1..Len(queue) : queue[i] # <<"cancel", s>>
  /\ now <= LastCall
  /\ queue' = Append(queue, <<"cancel", s>>)
  /\ UNCHANGED <<now, timerVars, timers, activeTimers, timerOwners,
                 cancelingTimers, armed, fdTime, batchVars, reported, pc,
                 cancelled, current, ran>>

(* The loop thread runs the next functor that another thread queued.        *)
RunQueued ==
  /\ pc = "idle"
  /\ queue # <<>>
  /\ LET s == Head(queue)[2] IN
       IF Head(queue)[1] = "add" THEN AddTimerInLoop(s, expiration[s])
                                 ELSE CancelInLoop(s)
  /\ queue' = Tail(queue)
  /\ UNCHANGED <<now, timerVars, batchVars, reported, pc, current, ran>>

----------------------------------------------------------------------------
(* The timerfd's callback.                                                  *)

(* poll() reports the timerfd; other callbacks may run before its own.      *)
PollReturns ==
  /\ pc = "idle"
  /\ ~reported /\ Readable
  /\ reported' = TRUE
  /\ UNCHANGED <<now, timerVars, timers, activeTimers, timerOwners,
                 cancelingTimers, armed, fdTime, batchVars, pc, queue,
                 cancelled, current, ran>>

(* The entries that getExpired() takes out: those due by now.               *)
Due == {e \in timers : e[1] <= now}

(* handleRead() reads the timerfd, takes the batch out of timers_ and       *)
(* activeTimers_, and forgets the cancellations of the batch before.        *)
HandleRead ==
  /\ pc = "idle"
  /\ reported
  /\ reported' = FALSE
  /\ armed' = (armed /\ ~Readable)
  /\ expired' = Due /\ toRun' = Due
  /\ timers' = timers \ Due
  /\ activeTimers' = activeTimers \ {e[2] : e \in Due}
  /\ readTime' = now
  /\ callingExpiredTimers' = TRUE
  /\ cancelingTimers' = {}
  /\ pc' = "run"
  /\ UNCHANGED <<now, timerVars, timerOwners, fdTime, queue, cancelled, current,
                 ran>>

(* The batch's next timer runs, in order, if it still has an owner.         *)
RunTimer(e) ==
  /\ pc = "run"
  /\ e \in toRun
  /\ \A d \in toRun : d = e \/ Before(e, d)
  /\ toRun' = toRun \ {e}
  /\ IF e[2] \in timerOwners
     THEN pc' = "callback" /\ current' = e[2] /\ ran' = ran \cup {e[2]}
     ELSE UNCHANGED <<pc, current, ran>>
  /\ UNCHANGED <<now, timerVars, timers, activeTimers, timerOwners,
                 cancelingTimers, callingExpiredTimers, armed, fdTime, reported,
                 expired, readTime, queue, cancelled>>

CallbackReturns ==
  /\ pc = "callback"
  /\ pc' = "run"
  /\ current' = 0
  /\ UNCHANGED <<now, timerVars, timers, activeTimers, timerOwners,
                 cancelingTimers, batchVars, armed, fdTime, reported, queue,
                 cancelled, ran>>

(* Mutant: cancellations made by the batch are ignored.                     *)
RestartedAll(batch) == {s \in batch : s \in timerOwners /\ interval[s] > 0}

(* The timers of the batch that reset() restarts.                           *)
Restarted(batch) ==
  {s \in batch : /\ s \in timerOwners
                 /\ interval[s] > 0
                 /\ s \notin cancelingTimers}

(* Mutant: reset() leaves the timerfd as it is.                             *)
ArmForNextNever(entries) == UNCHANGED <<armed, fdTime>>

(* The timerfd is armed for the earliest entry, unless its time is invalid. *)
ArmForNext(entries) ==
  IF entries = {}
  THEN UNCHANGED <<armed, fdTime>>
  ELSE \E e \in entries :
         /\ \A d \in entries : e[1] <= d[1]
         /\ IF e[1] > 0 THEN ResetTimerfd(e[1]) ELSE UNCHANGED <<armed, fdTime>>

(* reset(): repeating timers start over from the time the batch was taken,  *)
(* the others are deleted, and the timerfd is armed for the earliest.       *)
Reset ==
  /\ pc = "run"
  /\ toRun = {}
  /\ LET batch == {e[2] : e \in expired}
         again == Restarted(batch)
     IN  /\ expiration' = [s \in Seqs |-> IF s \in again
                                          THEN readTime + interval[s]
                                          ELSE expiration[s]]
         /\ timers' = timers \cup {<<readTime + interval[s], s>> : s \in again}
         /\ activeTimers' = activeTimers \cup again
         /\ timerOwners' = timerOwners \ (batch \ again)
         /\ ArmForNext(timers')
  /\ callingExpiredTimers' = FALSE
  /\ expired' = {}
  /\ pc' = "idle"
  /\ UNCHANGED <<now, created, interval, cancelingTimers, reported, toRun,
                 readTime, queue, cancelled, current, ran>>

----------------------------------------------------------------------------
(* The loop is in poll() and has nothing to do.                             *)
Waiting == pc = "idle" /\ queue = <<>> /\ ~reported /\ ~Readable

(* Time passes, also while callbacks and functors run; after LastCall only  *)
(* while the loop waits, so that what was scheduled fits under MaxTime.     *)
Tick ==
  /\ now < MaxTime
  /\ Waiting \/ now <= LastCall
  /\ now' = now + 1
  /\ UNCHANGED <<timerVars, timers, activeTimers, timerOwners, cancelingTimers,
                 batchVars, armed, fdTime, reported, pc, queue, cancelled,
                 current, ran>>

Next ==
  \/ \E s \in Seqs, iv \in Intervals :
        \E when \in {0} \cup now..(now + MaxDelay) :
           AddTimer(s, when, iv) \/ AddTimerFrom(s, when, iv)
  \/ \E s \in Seqs : Cancel(s) \/ CancelFrom(s)
  \/ RunQueued
  \/ PollReturns
  \/ HandleRead
  \/ \E e \in toRun : RunTimer(e)
  \/ CallbackReturns
  \/ Reset
  \/ Tick

Spec == Init /\ [][Next]_vars

(* The loop thread keeps running, callbacks return and time passes.         *)
Fairness ==
  /\ WF_vars(Tick)
  /\ WF_vars(RunQueued)
  /\ WF_vars(PollReturns)
  /\ WF_vars(HandleRead)
  /\ WF_vars(\E e \in toRun : RunTimer(e))
  /\ WF_vars(CallbackReturns)
  /\ WF_vars(Reset)

FairSpec == Spec /\ Fairness

----------------------------------------------------------------------------
TypeOK ==
  /\ now \in Nat
  /\ created \subseteq Seqs
  /\ expiration \in [Seqs -> Nat]
  /\ interval \in [Seqs -> Nat]
  /\ timers \subseteq Nat \X Seqs
  /\ activeTimers \subseteq Seqs
  /\ timerOwners \subseteq Seqs
  /\ cancelingTimers \subseteq Seqs
  /\ callingExpiredTimers \in BOOLEAN
  /\ armed \in BOOLEAN
  /\ fdTime \in Nat
  /\ reported \in BOOLEAN
  /\ pc \in {"idle", "run", "callback"}
  /\ expired \subseteq Nat \X Seqs
  /\ toRun \subseteq expired
  /\ readTime \in Nat
  /\ queue \in Seq({"add", "cancel"} \X Seqs)
  /\ cancelled \subseteq Seqs
  /\ current \in Seqs \cup {0}
  /\ ran \subseteq Seqs

(* The containers agree, which is what the assertions on their sizes are    *)
(* after: timers_ and activeTimers_ hold the same timers, each under its    *)
(* own expiration, and timerOwners_ holds those and the running batch.      *)
ContainersAgree ==
  /\ activeTimers = {e[2] : e \in timers}
  /\ \A e \in timers \cup expired : e[1] = expiration[e[2]]
  /\ timerOwners = activeTimers \cup {e[2] : e \in expired}
  /\ activeTimers \cap {e[2] : e \in expired} = {}

(* No timer is forgotten: between two batches the timerfd is armed for a    *)
(* time no later than the earliest timer's, or one unit from now if that    *)
(* has passed; whatever was added, cancelled or restarted before.           *)
TimerfdCoversEarliest ==
  pc = "idle" => \A e \in timers : armed /\ fdTime <= FireTime(e[1])

(* A timer never runs before its time.                                      *)
NeverEarly == \A e \in toRun : e[1] <= now

(* A timer that was cancelled is not scheduled again: it is gone, or it is  *)
(* in the running batch and reset() will delete it.                         *)
CancelledIsNotRescheduled ==
  \A s \in cancelled :
    /\ s \notin activeTimers
    /\ s \in timerOwners => s \in cancelingTimers /\ s \in {e[2] : e \in expired}

(* A timer that does not repeat is not scheduled again after it ran.        *)
OneShotRunsOnce ==
  \A s \in ran : interval[s] = 0 => s \notin activeTimers \cup {e[2] : e \in toRun}

(* The timers are sound: the containers agree, none is forgotten or early,  *)
(* and none comes back after it was cancelled or, if it does not repeat,    *)
(* after it ran; with any callbacks in handleRead() and any other threads.  *)
TimersSound ==
  /\ ContainersAgree
  /\ TimerfdCoversEarliest
  /\ NeverEarly
  /\ CancelledIsNotRescheduled
  /\ OneShotRunsOnce

(* Timers of one batch run in the order of their expirations.               *)
BatchInOrder ==
  [][current' # current /\ current' # 0
       => \A e \in toRun' : expiration[current'] <= e[1]]_vars

(* A timer that is active runs or is cancelled.  A repeating timer may be   *)
(* due after the clock stops, hence the premise.                            *)
TimerFires ==
  \A s \in Seqs :
    s \in activeTimers /\ s \notin ran /\ expiration[s] <= LastCall + MaxDelay
      ~> s \in ran \/ s \notin activeTimers

(* After cancel() has found the timer, its callback does not start.         *)
NoRunAfterCancel ==
  [][current' # current => current' \notin cancelled]_vars

=============================================================================
