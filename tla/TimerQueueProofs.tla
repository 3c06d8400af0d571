--------------------------- MODULE TimerQueueProofs ---------------------------
(***************************************************************************)
(* Proofs that TimerQueue keeps its containers in agreement, never forgets  *)
(* a timer, never runs one early, does not reschedule a cancelled or spent  *)
(* one, and runs a batch in order, for any set of timers, any intervals and *)
(* any delays.                                                              *)
(***************************************************************************)
EXTENDS TimerQueue, SequenceTheorems, TLAPS

(* The sequence numbers of a set of entries.                                *)
SeqsOf(entries) == {e[2] : e \in entries}

(* A batch exists only inside handleRead(), which is when                   *)
(* callingExpiredTimers_ is set.                                            *)
BatchOnlyInHandleRead ==
  /\ callingExpiredTimers <=> pc # "idle"
  /\ pc = "idle" => expired = {}
  /\ readTime <= now
  /\ \A e \in expired : e[1] <= readTime

(* A timer waiting in the queue to be added was created and is not known to *)
(* the queue's containers yet, and waits there once.                        *)
QueuedTimersAreNew ==
  /\ timerOwners \cup ran \cup cancelled \subseteq created
  /\ \A i \in 1..Len(queue) :
       /\ queue[i][2] \in created
       /\ queue[i][1] = "add" =>
            /\ queue[i][2] \notin timerOwners \cup ran \cup cancelled
            /\ \A j \in 1..Len(queue) :
                 queue[j][1] = "add" /\ queue[j][2] = queue[i][2] => j = i

(* What TimerfdCoversEarliest becomes inside handleRead(): an entry that is *)
(* older than the batch was added by a callback, which armed the timerfd.   *)
Covered ==
  \A e \in timers :
    pc = "idle" \/ e[1] <= readTime => armed /\ fdTime <= FireTime(e[1])

IInv ==
  /\ TypeOK
  /\ BatchOnlyInHandleRead
  /\ ContainersAgree
  /\ QueuedTimersAreNew
  /\ Covered
  /\ CancelledIsNotRescheduled
  /\ OneShotRunsOnce

----------------------------------------------------------------------------
LEMMA Initially == Init => IInv
<1> SUFFICES ASSUME Init PROVE IInv
  OBVIOUS
<1> USE DEF Init
<1>1. TypeOK
  BY EmptySeq DEF TypeOK
<1>2. BatchOnlyInHandleRead /\ ContainersAgree /\ Covered
  BY DEF BatchOnlyInHandleRead, ContainersAgree, Covered
<1>3. QueuedTimersAreNew
  BY DEF QueuedTimersAreNew
<1>4. CancelledIsNotRescheduled /\ OneShotRunsOnce
  BY DEF CancelledIsNotRescheduled, OneShotRunsOnce
<1> QED
  BY <1>1, <1>2, <1>3, <1>4 DEF IInv

(* What addTimerInLoop() and cancelInLoop() leave behind has its type.      *)
ContainersTyped ==
  /\ timers \subseteq Nat \X Seqs
  /\ activeTimers \subseteq Seqs
  /\ timerOwners \subseteq Seqs
  /\ cancelingTimers \subseteq Seqs
  /\ armed \in BOOLEAN
  /\ fdTime \in Nat
  /\ cancelled \subseteq Seqs

LEMMA AddTimerInLoopType ==
  ASSUME TypeOK, NEW s \in Seqs, NEW when \in Nat, AddTimerInLoop(s, when)
  PROVE  ContainersTyped'
<1>1. <<when, s>> \in Nat \X Seqs
  OBVIOUS
<1>2. armed' \in BOOLEAN /\ fdTime' \in Nat
  <2>1. CASE EarliestChanged(when)
    <3>1. armed' = TRUE /\ fdTime' = FireTime(when)
      BY <2>1 DEF AddTimerInLoop, ResetTimerfd
    <3> QED
      BY <3>1 DEF TypeOK, FireTime
  <2>2. CASE ~EarliestChanged(when)
    BY <2>2 DEF TypeOK, AddTimerInLoop
  <2> QED
    BY <2>1, <2>2
<1> QED
  BY <1>1, <1>2 DEF TypeOK, AddTimerInLoop, ContainersTyped

LEMMA CancelInLoopType ==
  ASSUME TypeOK, NEW s \in Seqs, CancelInLoop(s)
  PROVE  ContainersTyped'
BY DEF TypeOK, CancelInLoop, ContainersTyped

(* The functor at the head of the queue names a timer.                      *)
LEMMA HeadNamesTimer ==
  ASSUME TypeOK, queue # <<>>
  PROVE  /\ Head(queue)[1] \in {"add", "cancel"}
         /\ Head(queue)[2] \in Seqs
         /\ expiration[Head(queue)[2]] \in Nat
<1>1. Head(queue) \in {"add", "cancel"} \X Seqs
  BY DEF TypeOK
<1> QED
  BY <1>1 DEF TypeOK

(* Type correctness of every step.                                          *)
LEMMA TypeStep == TypeOK /\ [Next]_vars => TypeOK'
<1> SUFFICES ASSUME TypeOK, [Next]_vars PROVE TypeOK'
  OBVIOUS
<1> USE TimerAssumption DEF TypeOK, timerVars, batchVars
<1>1. ASSUME NEW s \in Seqs, NEW iv \in Intervals,
             NEW when \in {0} \cup now..(now + MaxDelay), AddTimer(s, when, iv)
      PROVE TypeOK'
  <2>1. when \in Nat /\ iv \in Nat
    OBVIOUS
  <2>2. ContainersTyped'
    BY <1>1, <2>1, AddTimerInLoopType DEF AddTimer
  <2> QED
    BY <1>1, <2>1, <2>2 DEF AddTimer, NewTimer, ContainersTyped
<1>2. ASSUME NEW s \in Seqs, NEW iv \in Intervals,
             NEW when \in {0} \cup now..(now + MaxDelay),
             AddTimerFrom(s, when, iv)
      PROVE TypeOK'
  BY <1>2 DEF AddTimerFrom, NewTimer
<1>3. ASSUME NEW s \in Seqs, Cancel(s) PROVE TypeOK'
  BY <1>3 DEF Cancel, CancelInLoop
<1>4. ASSUME NEW s \in Seqs, CancelFrom(s) PROVE TypeOK'
  BY <1>4 DEF CancelFrom
<1>5. CASE RunQueued
  <2>1. queue # <<>> /\ queue' = Tail(queue)
    BY <1>5 DEF RunQueued
  <2>2. ContainersTyped'
    BY <1>5, <2>1, HeadNamesTimer, AddTimerInLoopType, CancelInLoopType
       DEF RunQueued
  <2> QED
    BY <1>5, <2>1, <2>2 DEF RunQueued, ContainersTyped
<1>6. CASE PollReturns
  BY <1>6 DEF PollReturns
<1>7. CASE HandleRead
  BY <1>7 DEF HandleRead, Due, Readable
<1>8. ASSUME NEW e \in toRun, RunTimer(e) PROVE TypeOK'
  BY <1>8 DEF RunTimer
<1>9. CASE CallbackReturns
  BY <1>9 DEF CallbackReturns
<1>10. CASE Reset
  <2> DEFINE again == Restarted({e[2] : e \in expired})
  <2>1. again \subseteq Seqs
    BY DEF Restarted
  <2> HIDE DEF again
  <2>2. \A s \in again : <<readTime + interval[s], s>> \in Nat \X Seqs
    BY <2>1
  <2>3. timers' = timers \cup {<<readTime + interval[s], s>> : s \in again}
    BY <1>10 DEF Reset, again
  <2>4. timers' \subseteq Nat \X Seqs
    BY <2>2, <2>3
  <2>5. ArmForNext(timers')
    BY <1>10 DEF Reset
  <2>6. armed' \in BOOLEAN /\ fdTime' \in Nat
    <3>1. CASE UNCHANGED <<armed, fdTime>>
      BY <3>1
    <3>2. ASSUME NEW e \in timers', ResetTimerfd(e[1])
          PROVE  armed' \in BOOLEAN /\ fdTime' \in Nat
      <4>1. e[1] \in Nat
        BY <2>4
      <4> QED
        BY <3>2, <4>1 DEF ResetTimerfd, FireTime
    <3> QED
      BY <2>5, <3>1, <3>2 DEF ArmForNext
  <2>7. expiration' = [s \in Seqs |-> IF s \in again THEN readTime + interval[s]
                                                     ELSE expiration[s]]
    BY <1>10 DEF Reset, again
  <2>8. expiration' \in [Seqs -> Nat]
    BY <2>1, <2>7
  <2>9. activeTimers' = activeTimers \cup again
    BY <1>10 DEF Reset, again
  <2> QED
    BY <1>10, <2>1, <2>4, <2>6, <2>8, <2>9 DEF Reset
<1>11. CASE Tick
  BY <1>11 DEF Tick
<1>12. CASE UNCHANGED vars
  BY <1>12 DEF vars
<1> QED
  BY <1>1, <1>2, <1>3, <1>4, <1>5, <1>6, <1>7, <1>8, <1>9, <1>10, <1>11, <1>12
     DEF Next

(* The batch lives and dies with handleRead().                               *)
LEMMA BatchStep == TypeOK /\ BatchOnlyInHandleRead /\ [Next]_vars => BatchOnlyInHandleRead'
<1> SUFFICES ASSUME TypeOK, BatchOnlyInHandleRead, [Next]_vars PROVE BatchOnlyInHandleRead'
  OBVIOUS
<1> USE TimerAssumption DEF TypeOK, BatchOnlyInHandleRead, timerVars, batchVars
<1>1. ASSUME NEW s \in Seqs, NEW iv \in Intervals,
             NEW when \in {0} \cup now..(now + MaxDelay), AddTimer(s, when, iv)
      PROVE BatchOnlyInHandleRead'
  BY <1>1 DEF AddTimer, NewTimer, AddTimerInLoop, ResetTimerfd, FireTime
<1>2. ASSUME NEW s \in Seqs, NEW iv \in Intervals,
             NEW when \in {0} \cup now..(now + MaxDelay), AddTimerFrom(s, when, iv)
      PROVE BatchOnlyInHandleRead'
  BY <1>2 DEF AddTimerFrom, NewTimer
<1>3. ASSUME NEW s \in Seqs, Cancel(s) PROVE BatchOnlyInHandleRead'
  BY <1>3 DEF Cancel, CancelInLoop
<1>4. ASSUME NEW s \in Seqs, CancelFrom(s) PROVE BatchOnlyInHandleRead'
  BY <1>4 DEF CancelFrom
<1>5. CASE RunQueued
  BY <1>5 DEF RunQueued, AddTimerInLoop, CancelInLoop
<1>6. CASE PollReturns
  BY <1>6 DEF PollReturns
<1>7. CASE HandleRead
  BY <1>7 DEF HandleRead, Due
<1>8. ASSUME NEW e \in toRun, RunTimer(e) PROVE BatchOnlyInHandleRead'
  BY <1>8 DEF RunTimer
<1>9. CASE CallbackReturns
  BY <1>9 DEF CallbackReturns
<1>10. CASE Reset
  BY <1>10 DEF Reset
<1>11. CASE Tick
  BY <1>11 DEF Tick
<1>12. CASE UNCHANGED vars
  BY <1>12 DEF vars
<1> QED
  BY <1>1, <1>2, <1>3, <1>4, <1>5, <1>6, <1>7, <1>8, <1>9, <1>10, <1>11, <1>12
     DEF Next

(* Adding a timer that the containers do not hold keeps them in agreement.  *)
LEMMA AddKeepsAgreement ==
  ASSUME TypeOK, ContainersAgree, NEW s \in Seqs, NEW when \in Nat,
         s \notin timerOwners, AddTimerInLoop(s, when), expired' = expired,
         expiration'[s] = when,
         \A r \in timerOwners : expiration'[r] = expiration[r]
  PROVE  ContainersAgree'
<1>1. activeTimers' = {e[2] : e \in timers'}
  <2>1. timers' = timers \cup {<<when, s>>} /\ <<when, s>>[2] = s
    BY DEF AddTimerInLoop
  <2>2. \A r \in activeTimers' : \E e \in timers' : e[2] = r
    BY <2>1 DEF ContainersAgree, AddTimerInLoop
  <2>3. \A e \in timers' : e[2] \in activeTimers'
    BY <2>1 DEF ContainersAgree, AddTimerInLoop
  <2> QED
    BY <2>2, <2>3
<1>2. ASSUME NEW e \in (timers \cup expired)' PROVE e[1] = expiration'[e[2]]
  <2>1. CASE e = <<when, s>>
    BY <2>1
  <2>2. CASE e \in timers \cup expired
    <3>1. e[2] \in timerOwners /\ e[1] = expiration[e[2]]
      BY <2>2 DEF ContainersAgree
    <3> QED
      BY <3>1
  <2> QED
    BY <2>1, <2>2 DEF AddTimerInLoop
<1> QED
  BY <1>1, <1>2 DEF ContainersAgree, AddTimerInLoop

(* Cancelling one does too.  The entry erased is the one whose expiration   *)
(* the Timer holds.                                                         *)
LEMMA CancelKeepsAgreement ==
  ASSUME TypeOK, ContainersAgree, NEW s \in Seqs, CancelInLoop(s),
         UNCHANGED <<expired, expiration>>
  PROVE  ContainersAgree'
<1>1. CASE s \in activeTimers
  <2>1. \A e \in timers : e[2] = s <=> e = <<expiration[s], s>>
    <3> SUFFICES ASSUME NEW e \in timers, e[2] = s PROVE e = <<expiration[s], s>>
      OBVIOUS
    <3>1. e = <<e[1], e[2]>> /\ e[1] = expiration[e[2]]
      BY DEF TypeOK, ContainersAgree
    <3> QED
      BY <3>1
  <2>2. /\ timers' = timers \ {<<expiration[s], s>>}
        /\ activeTimers' = activeTimers \ {s}
        /\ timerOwners' = timerOwners \ {s}
    BY <1>1 DEF CancelInLoop
  <2>3. activeTimers' = {e[2] : e \in timers'}
    BY <2>1, <2>2 DEF ContainersAgree
  <2> QED
    BY <1>1, <2>2, <2>3 DEF ContainersAgree
<1>2. CASE s \notin activeTimers
  BY <1>2 DEF CancelInLoop, ContainersAgree
<1> QED
  BY <1>1, <1>2

(* The containers stay in agreement.                                         *)
LEMMA ContainersStep == TypeOK /\ BatchOnlyInHandleRead /\ QueuedTimersAreNew /\ ContainersAgree /\ [Next]_vars => ContainersAgree'
<1> SUFFICES ASSUME TypeOK, BatchOnlyInHandleRead, QueuedTimersAreNew, ContainersAgree, [Next]_vars PROVE ContainersAgree'
  OBVIOUS
<1> USE TimerAssumption DEF TypeOK, BatchOnlyInHandleRead, QueuedTimersAreNew, ContainersAgree, timerVars, batchVars
<1>1. ASSUME NEW s \in Seqs, NEW iv \in Intervals,
             NEW when \in {0} \cup now..(now + MaxDelay), AddTimer(s, when, iv)
      PROVE ContainersAgree'
  <2>1. /\ s \notin timerOwners /\ when \in Nat
        /\ expiration'[s] = when
        /\ \A r \in timerOwners : expiration'[r] = expiration[r]
        /\ expired' = expired
    BY <1>1 DEF AddTimer, NewTimer
  <2> QED
    BY <1>1, <2>1, AddKeepsAgreement DEF AddTimer
<1>2. ASSUME NEW s \in Seqs, NEW iv \in Intervals,
             NEW when \in {0} \cup now..(now + MaxDelay), AddTimerFrom(s, when, iv)
      PROVE ContainersAgree'
  <2>1. /\ s \notin timerOwners
        /\ \A q \in timerOwners : expiration'[q] = expiration[q]
        /\ expired' = expired /\ timers' = timers
        /\ activeTimers' = activeTimers /\ timerOwners' = timerOwners
    BY <1>2 DEF AddTimerFrom, NewTimer
  <2>2. \A e \in timers \cup expired : e[2] \in timerOwners
    OBVIOUS
  <2>3. \A e \in timers \cup expired : e[1] = expiration'[e[2]]
    BY <2>1, <2>2
  <2> QED
    BY <2>1, <2>3
<1>3. ASSUME NEW s \in Seqs, Cancel(s) PROVE ContainersAgree'
  BY <1>3, CancelKeepsAgreement DEF Cancel
<1>4. ASSUME NEW s \in Seqs, CancelFrom(s) PROVE ContainersAgree'
  BY <1>4 DEF CancelFrom
<1>5. CASE RunQueued
  <2> DEFINE s == Head(queue)[2]
  <2>1. queue # <<>> /\ UNCHANGED <<expired, expiration>>
    BY <1>5 DEF RunQueued
  <2>2. s \in Seqs /\ expiration[s] \in Nat
    BY <2>1, HeadNamesTimer
  <2>3. CASE Head(queue)[1] = "add" /\ AddTimerInLoop(s, expiration[s])
    <3>1. s \notin timerOwners
      BY <2>1, <2>3
    <3> HIDE DEF s
    <3> QED
      BY <2>1, <2>2, <2>3, <3>1, AddKeepsAgreement
  <2>4. CASE CancelInLoop(s)
    BY <2>1, <2>2, <2>4, CancelKeepsAgreement
  <2> QED
    BY <1>5, <2>3, <2>4 DEF RunQueued
<1>6. CASE PollReturns
  BY <1>6 DEF PollReturns
<1>7. CASE HandleRead
  BY <1>7 DEF HandleRead, Due
<1>8. ASSUME NEW e \in toRun, RunTimer(e) PROVE ContainersAgree'
  BY <1>8 DEF RunTimer
<1>9. CASE CallbackReturns
  BY <1>9 DEF CallbackReturns
<1>10. CASE Reset
  <2> DEFINE batch == SeqsOf(expired)
             again == Restarted(batch)
  <2>1. /\ timers' = timers \cup {<<readTime + interval[s], s>> : s \in again}
        /\ activeTimers' = activeTimers \cup again
        /\ timerOwners' = timerOwners \ (batch \ again)
        /\ \A s \in Seqs : expiration'[s] = IF s \in again
                                            THEN readTime + interval[s]
                                            ELSE expiration[s]
        /\ expired' = {}
    BY <1>10 DEF Reset, SeqsOf
  <2>2. /\ batch \subseteq Seqs /\ again \subseteq batch
        /\ timerOwners = activeTimers \cup batch
        /\ activeTimers \cap batch = {}
    BY DEF SeqsOf, Restarted
  <2> HIDE DEF batch, again
  <2> DEFINE entry(s) == <<readTime + interval[s], s>>
  <2>3. \A s \in again : entry(s) \in timers' /\ entry(s)[2] = s
                         /\ entry(s)[1] = expiration'[s]
    BY <2>1, <2>2
  <2>4. \A e \in timers' : e \in timers \/ \E s \in again : e = entry(s)
    BY <2>1
  <2> HIDE DEF entry
  <2>5. \A e \in timers : e[2] \in Seqs \ again /\ e[1] = expiration'[e[2]]
    <3>1. \A e \in timers : e[2] \in activeTimers /\ e[1] = expiration[e[2]]
      OBVIOUS
    <3>2. \A s \in activeTimers : s \in Seqs \ again
      BY <2>2
    <3>3. \A s \in Seqs \ again : expiration'[s] = expiration[s]
      BY <2>1
    <3> QED
      BY <3>1, <3>2, <3>3
  <2>6. \A e \in timers' : e[2] \in activeTimers' /\ e[1] = expiration'[e[2]]
    BY <2>1, <2>3, <2>4, <2>5
  <2>7. \A s \in activeTimers' : \E e \in timers' : e[2] = s
    <3>1. \A s \in activeTimers : \E e \in timers : e[2] = s
      OBVIOUS
    <3> QED
      BY <2>1, <2>3, <3>1
  <2>8. activeTimers' = {e[2] : e \in timers'}
    BY <2>6, <2>7
  <2>9. timerOwners' = activeTimers' /\ {e[2] : e \in expired'} = {}
    <3>1. timerOwners' = activeTimers'
      BY <2>1, <2>2
    <3>2. {e[2] : e \in expired'} = {}
      BY <2>1
    <3> QED
      BY <3>1, <3>2
  <2> QED
    BY <2>1, <2>6, <2>8, <2>9
<1>11. CASE Tick
  BY <1>11 DEF Tick
<1>12. CASE UNCHANGED vars
  BY <1>12 DEF vars
<1> QED
  BY <1>1, <1>2, <1>3, <1>4, <1>5, <1>6, <1>7, <1>8, <1>9, <1>10, <1>11, <1>12
     DEF Next

(* Cancelling takes timers out of the containers and marks only those that  *)
(* were there.                                                              *)
LEMMA CancelShrinks ==
  ASSUME NEW s, CancelInLoop(s)
  PROVE  /\ timerOwners' \subseteq timerOwners
         /\ activeTimers' \subseteq activeTimers
         /\ timers' \subseteq timers
         /\ timerOwners' \cup cancelled' \subseteq timerOwners \cup cancelled
BY DEF CancelInLoop

(* Timers waiting to be added stay unknown to the containers.               *)
LEMMA QueueStep ==
  TypeOK /\ ContainersAgree /\ QueuedTimersAreNew
    /\ [Next]_vars => QueuedTimersAreNew'
<1> SUFFICES ASSUME TypeOK, ContainersAgree, QueuedTimersAreNew,
                    [Next]_vars
             PROVE  QueuedTimersAreNew'
  OBVIOUS
<1> USE TimerAssumption DEF TypeOK, ContainersAgree, QueuedTimersAreNew, timerVars, batchVars
<1>1. ASSUME NEW s \in Seqs, NEW iv \in Intervals,
             NEW when \in {0} \cup now..(now + MaxDelay), AddTimer(s, when, iv)
      PROVE QueuedTimersAreNew'
  BY <1>1 DEF AddTimer, NewTimer, AddTimerInLoop
<1>2. ASSUME NEW s \in Seqs, NEW iv \in Intervals,
             NEW when \in {0} \cup now..(now + MaxDelay), AddTimerFrom(s, when, iv)
      PROVE QueuedTimersAreNew'
  <2>1. /\ Len(queue') = Len(queue) + 1
        /\ \A i \in 1..Len(queue) : queue'[i] = queue[i]
        /\ queue'[Len(queue) + 1] = <<"add", s>>
        /\ s \notin created /\ created' = created \cup {s}
        /\ UNCHANGED <<timerOwners, ran, cancelled>>
    BY <1>2 DEF AddTimerFrom, NewTimer
  <2>2. \A i \in 1..Len(queue') : i \in 1..Len(queue) \/ i = Len(queue) + 1
    BY <2>1
  <2>3. \A i \in 1..Len(queue) : queue[i][2] # s
    BY <2>1
  <2>4. <<"add", s>>[1] = "add" /\ <<"add", s>>[2] = s
    OBVIOUS
  <2>5. (timerOwners \cup ran \cup cancelled \subseteq created)'
    BY <2>1
  <2>6. ASSUME NEW i \in 1..Len(queue')
        PROVE  queue'[i][2] \in created'
    BY <2>1, <2>2, <2>4
  <2>7. ASSUME NEW i \in 1..Len(queue'), queue'[i][1] = "add"
        PROVE  queue'[i][2] \notin timerOwners \cup ran \cup cancelled
    BY <2>1, <2>2, <2>4, <2>7
  <2>8. ASSUME NEW i \in 1..Len(queue'), queue'[i][1] = "add",
               NEW j \in 1..Len(queue'), queue'[j][1] = "add",
               queue'[j][2] = queue'[i][2]
        PROVE  j = i
    BY <2>1, <2>2, <2>3, <2>4, <2>8
  <2> QED
    BY <2>1, <2>5, <2>6, <2>7, <2>8
<1>3. ASSUME NEW s \in Seqs, Cancel(s) PROVE QueuedTimersAreNew'
  <2>1. UNCHANGED <<queue, ran, created>>
    BY <1>3 DEF Cancel
  <2>2. timerOwners' \cup cancelled' \subseteq timerOwners \cup cancelled
    BY <1>3, CancelShrinks DEF Cancel
  <2> QED
    BY <2>1, <2>2
<1>4. ASSUME NEW s \in Seqs, CancelFrom(s) PROVE QueuedTimersAreNew'
  BY <1>4 DEF CancelFrom
<1>5. CASE RunQueued
  <2> DEFINE s == Head(queue)[2]
  <2>1. queue # <<>> /\ queue' = Tail(queue) /\ UNCHANGED <<ran, created>>
    BY <1>5 DEF RunQueued
  <2>2. /\ Len(queue) > 0 /\ Len(queue') = Len(queue) - 1
        /\ \A i \in 1..Len(queue') : queue'[i] = queue[i + 1]
        /\ Head(queue) = queue[1]
    BY <2>1
  <2>3. \A i \in 1..Len(queue') : i + 1 \in 1..Len(queue)
    BY <2>2
  <2>4. s \in created
    BY <2>2
  <2>5. CASE Head(queue)[1] = "add" /\ AddTimerInLoop(s, expiration[s])
    <3>1. timerOwners' = timerOwners \cup {s} /\ UNCHANGED cancelled
      BY <2>5 DEF AddTimerInLoop
    <3>2. \A i \in 1..Len(queue') :
            queue'[i][1] = "add" => queue'[i][2] # s
      <4> SUFFICES ASSUME NEW i \in 1..Len(queue'), queue'[i][1] = "add",
                          queue'[i][2] = s
                   PROVE  FALSE
        OBVIOUS
      <4>1. queue[i + 1][1] = "add" /\ queue[i + 1][2] = queue[1][2]
        BY <2>2
      <4>2. i + 1 \in 1..Len(queue) /\ 1 \in 1..Len(queue) /\ i + 1 # 1
        BY <2>2, <2>3
      <4>3. queue[1][1] = "add"
        BY <2>2, <2>5
      <4> QED
        BY <4>1, <4>2, <4>3
    <3> HIDE DEF s
    <3> QED
      BY <2>1, <2>2, <2>3, <2>4, <3>1, <3>2
  <2>6. CASE CancelInLoop(s)
    <3>1. timerOwners' \cup cancelled' \subseteq timerOwners \cup cancelled
      BY <2>6, CancelShrinks
    <3> QED
      BY <2>1, <2>2, <2>3, <3>1, SMTT(20)
  <2> QED
    BY <1>5, <2>5, <2>6 DEF RunQueued
<1>6. CASE PollReturns
  BY <1>6 DEF PollReturns
<1>7. CASE HandleRead
  BY <1>7 DEF HandleRead, Due
<1>8. ASSUME NEW e \in toRun, RunTimer(e) PROVE QueuedTimersAreNew'
  BY <1>8 DEF RunTimer
<1>9. CASE CallbackReturns
  BY <1>9 DEF CallbackReturns
<1>10. CASE Reset
  BY <1>10 DEF Reset, Restarted
<1>11. CASE Tick
  BY <1>11 DEF Tick
<1>12. CASE UNCHANGED vars
  BY <1>12 DEF vars
<1> QED
  BY <1>1, <1>2, <1>3, <1>4, <1>5, <1>6, <1>7, <1>8, <1>9, <1>10, <1>11, <1>12
     DEF Next

(* Adding a timer arms the timerfd if it has to.                            *)
LEMMA AddKeepsCovered ==
  ASSUME TypeOK, Covered, NEW s \in Seqs, NEW when \in Nat,
         AddTimerInLoop(s, when), UNCHANGED <<now, pc, readTime>>
  PROVE  Covered'
<1> USE DEF Covered, FireTime, TypeOK
<1>1. timers' = timers \cup {<<when, s>>}
  BY DEF AddTimerInLoop
<1>2. CASE EarliestChanged(when)
  <2>1. armed' = TRUE /\ fdTime' = FireTime(when)
    BY <1>2 DEF AddTimerInLoop, ResetTimerfd
  <2>2. \A e \in timers' : when <= e[1] /\ e[1] \in Nat
    BY <1>1, <1>2 DEF EarliestChanged
  <2> QED
    BY <2>1, <2>2
<1>3. CASE ~EarliestChanged(when)
  <2>1. PICK d \in timers : d[1] <= when /\ d[1] \in Nat
    BY <1>3 DEF EarliestChanged
  <2>2. UNCHANGED <<armed, fdTime>>
    BY <1>3 DEF AddTimerInLoop
  <2> QED
    BY <1>1, <2>1, <2>2
<1> QED
  BY <1>2, <1>3

(* The timerfd stays armed for the earliest timer.                          *)
LEMMA CoveredStep ==
  TypeOK /\ BatchOnlyInHandleRead /\ Covered
    /\ [Next]_vars => Covered'
<1> SUFFICES ASSUME TypeOK, BatchOnlyInHandleRead, Covered,
                    [Next]_vars
             PROVE  Covered'
  OBVIOUS
<1> USE TimerAssumption DEF TypeOK, BatchOnlyInHandleRead, Covered, FireTime, timerVars, batchVars
<1>1. ASSUME NEW s \in Seqs, NEW iv \in Intervals,
             NEW when \in {0} \cup now..(now + MaxDelay), AddTimer(s, when, iv)
      PROVE Covered'
  <2>1. when \in Nat /\ UNCHANGED <<now, pc, readTime>>
    BY <1>1 DEF AddTimer
  <2> QED
    BY <1>1, <2>1, AddKeepsCovered DEF AddTimer
<1>2. ASSUME NEW s \in Seqs, NEW iv \in Intervals,
             NEW when \in {0} \cup now..(now + MaxDelay), AddTimerFrom(s, when, iv)
      PROVE Covered'
  BY <1>2 DEF AddTimerFrom, NewTimer
<1>3. ASSUME NEW s \in Seqs, Cancel(s) PROVE Covered'
  BY <1>3 DEF Cancel, CancelInLoop
<1>4. ASSUME NEW s \in Seqs, CancelFrom(s) PROVE Covered'
  BY <1>4 DEF CancelFrom
<1>5. CASE RunQueued
  <2> DEFINE s == Head(queue)[2]
  <2>1. queue # <<>> /\ UNCHANGED <<now, pc, readTime>>
    BY <1>5 DEF RunQueued
  <2>2. s \in Seqs /\ expiration[s] \in Nat
    BY <2>1, HeadNamesTimer
  <2>3. CASE AddTimerInLoop(s, expiration[s])
    BY <2>1, <2>2, <2>3, AddKeepsCovered
  <2>4. CASE CancelInLoop(s)
    BY <2>1, <2>4, CancelShrinks DEF CancelInLoop
  <2> QED
    BY <1>5, <2>3, <2>4 DEF RunQueued
<1>6. CASE PollReturns
  BY <1>6 DEF PollReturns
<1>7. CASE HandleRead
  BY <1>7 DEF HandleRead, Due, Readable
<1>8. ASSUME NEW e \in toRun, RunTimer(e) PROVE Covered'
  BY <1>8 DEF RunTimer
<1>9. CASE CallbackReturns
  BY <1>9 DEF CallbackReturns
<1>10. CASE Reset
  <2> DEFINE again == Restarted({e[2] : e \in expired})
  <2>1. /\ timers' = timers \cup {<<readTime + interval[s], s>> : s \in again}
        /\ ArmForNext(timers')
        /\ now' = now
    BY <1>10 DEF Reset
  <2>2. again \subseteq Seqs /\ \A s \in again : interval[s] > 0
    BY DEF Restarted
  <2> HIDE DEF again
  <2>3. \A d \in timers' : d[1] \in Nat /\ (d[1] = 0 => d \in timers)
    BY <2>1, <2>2
  <2>4. CASE timers' = {}
    BY <2>4
  <2>5. ASSUME NEW e \in timers', \A d \in timers' : e[1] <= d[1], e[1] > 0,
               ResetTimerfd(e[1])
        PROVE  Covered'
    BY <2>1, <2>3, <2>5 DEF ResetTimerfd
  <2>6. ASSUME NEW e \in timers', e[1] = 0, UNCHANGED <<armed, fdTime>>
        PROVE  Covered'
    <3>1. armed /\ fdTime <= now + 1
      BY <2>3, <2>6
    <3> QED
      BY <2>1, <2>3, <2>6, <3>1
  <2> QED
    BY <2>1, <2>3, <2>4, <2>5, <2>6 DEF ArmForNext
<1>11. CASE Tick
  BY <1>11 DEF Tick
<1>12. CASE UNCHANGED vars
  BY <1>12 DEF vars
<1> QED
  BY <1>1, <1>2, <1>3, <1>4, <1>5, <1>6, <1>7, <1>8, <1>9, <1>10, <1>11, <1>12
     DEF Next

(* What is cancelled stays cancelled.                                       *)
LEMMA CancelledStep ==
  TypeOK /\ BatchOnlyInHandleRead /\ QueuedTimersAreNew /\ ContainersAgree /\ CancelledIsNotRescheduled
    /\ [Next]_vars => CancelledIsNotRescheduled'
<1> SUFFICES ASSUME TypeOK, BatchOnlyInHandleRead, QueuedTimersAreNew, ContainersAgree, CancelledIsNotRescheduled,
                    [Next]_vars
             PROVE  CancelledIsNotRescheduled'
  OBVIOUS
<1> USE TimerAssumption DEF TypeOK, BatchOnlyInHandleRead, QueuedTimersAreNew, ContainersAgree,
                            CancelledIsNotRescheduled, timerVars, batchVars
<1>1. ASSUME NEW s \in Seqs, NEW iv \in Intervals,
             NEW when \in {0} \cup now..(now + MaxDelay), AddTimer(s, when, iv)
      PROVE CancelledIsNotRescheduled'
  BY <1>1 DEF AddTimer, NewTimer, AddTimerInLoop
<1>2. ASSUME NEW s \in Seqs, NEW iv \in Intervals,
             NEW when \in {0} \cup now..(now + MaxDelay), AddTimerFrom(s, when, iv)
      PROVE CancelledIsNotRescheduled'
  BY <1>2 DEF AddTimerFrom, NewTimer
<1>3. ASSUME NEW s \in Seqs, Cancel(s) PROVE CancelledIsNotRescheduled'
  BY <1>3 DEF Cancel, CancelInLoop
<1>4. ASSUME NEW s \in Seqs, CancelFrom(s) PROVE CancelledIsNotRescheduled'
  BY <1>4 DEF CancelFrom
<1>5. CASE RunQueued
  <2> DEFINE s == Head(queue)[2]
  <2>1. /\ queue # <<>> /\ Head(queue) = queue[1] /\ 1 \in 1..Len(queue)
        /\ UNCHANGED expired
    BY <1>5 DEF RunQueued
  <2>2. CASE Head(queue)[1] = "add" /\ AddTimerInLoop(s, expiration[s])
    <3>1. s \notin cancelled
      BY <2>1, <2>2
    <3> QED
      BY <2>1, <2>2, <3>1 DEF AddTimerInLoop
  <2>3. CASE CancelInLoop(s)
    <3>1. pc = "idle" /\ expired = {} /\ timerOwners = activeTimers
      BY <1>5 DEF RunQueued
    <3> QED
      BY <2>1, <2>3, <3>1 DEF CancelInLoop
  <2> QED
    BY <1>5, <2>2, <2>3 DEF RunQueued
<1>6. CASE PollReturns
  BY <1>6 DEF PollReturns
<1>7. CASE HandleRead
  BY <1>7 DEF HandleRead, Due
<1>8. ASSUME NEW e \in toRun, RunTimer(e) PROVE CancelledIsNotRescheduled'
  BY <1>8 DEF RunTimer
<1>9. CASE CallbackReturns
  BY <1>9 DEF CallbackReturns
<1>10. CASE Reset
  BY <1>10 DEF Reset, Restarted
<1>11. CASE Tick
  BY <1>11 DEF Tick
<1>12. CASE UNCHANGED vars
  BY <1>12 DEF vars
<1> QED
  BY <1>1, <1>2, <1>3, <1>4, <1>5, <1>6, <1>7, <1>8, <1>9, <1>10, <1>11, <1>12
     DEF Next

(* A timer that does not repeat is spent once it ran.                       *)
LEMMA OneShotStep ==
  TypeOK /\ BatchOnlyInHandleRead /\ QueuedTimersAreNew /\ ContainersAgree /\ OneShotRunsOnce
    /\ [Next]_vars => OneShotRunsOnce'
<1> SUFFICES ASSUME TypeOK, BatchOnlyInHandleRead, QueuedTimersAreNew, ContainersAgree, OneShotRunsOnce,
                    [Next]_vars
             PROVE  OneShotRunsOnce'
  OBVIOUS
<1> USE TimerAssumption DEF TypeOK, BatchOnlyInHandleRead, QueuedTimersAreNew, ContainersAgree,
                            OneShotRunsOnce, timerVars, batchVars
<1>1. ASSUME NEW s \in Seqs, NEW iv \in Intervals,
             NEW when \in {0} \cup now..(now + MaxDelay), AddTimer(s, when, iv)
      PROVE OneShotRunsOnce'
  BY <1>1 DEF AddTimer, NewTimer, AddTimerInLoop
<1>2. ASSUME NEW s \in Seqs, NEW iv \in Intervals,
             NEW when \in {0} \cup now..(now + MaxDelay), AddTimerFrom(s, when, iv)
      PROVE OneShotRunsOnce'
  BY <1>2 DEF AddTimerFrom, NewTimer
<1>3. ASSUME NEW s \in Seqs, Cancel(s) PROVE OneShotRunsOnce'
  BY <1>3 DEF Cancel, CancelInLoop
<1>4. ASSUME NEW s \in Seqs, CancelFrom(s) PROVE OneShotRunsOnce'
  BY <1>4 DEF CancelFrom
<1>5. CASE RunQueued
  BY <1>5 DEF RunQueued, AddTimerInLoop, CancelInLoop
<1>6. CASE PollReturns
  BY <1>6 DEF PollReturns
<1>7. CASE HandleRead
  BY <1>7 DEF HandleRead, Due
<1>8. ASSUME NEW e \in toRun, RunTimer(e) PROVE OneShotRunsOnce'
  <2>1. /\ e \in expired /\ toRun' = toRun \ {e}
        /\ UNCHANGED <<activeTimers, interval, expired>>
        /\ ran' \subseteq ran \cup {e[2]}
    BY <1>8 DEF RunTimer
  <2>2. e[2] \notin activeTimers
    BY <2>1
  <2>3. \A d \in toRun' : d[2] # e[2]
    <3>1. \A d \in expired : d = <<d[1], d[2]>> /\ d[1] = expiration[d[2]]
      OBVIOUS
    <3> QED
      BY <2>1, <3>1
  <2> QED
    BY <2>1, <2>2, <2>3
<1>9. CASE CallbackReturns
  BY <1>9 DEF CallbackReturns
<1>10. CASE Reset
  BY <1>10 DEF Reset, Restarted
<1>11. CASE Tick
  BY <1>11 DEF Tick
<1>12. CASE UNCHANGED vars
  BY <1>12 DEF vars
<1> QED
  BY <1>1, <1>2, <1>3, <1>4, <1>5, <1>6, <1>7, <1>8, <1>9, <1>10, <1>11, <1>12
     DEF Next

LEMMA Invariance == Spec => []IInv
<1>1. IInv /\ [Next]_vars => IInv'
  BY TypeStep, BatchStep, ContainersStep, QueueStep, CoveredStep, CancelledStep,
     OneShotStep DEF IInv
<1> QED
  BY Initially, <1>1, PTL DEF Spec

----------------------------------------------------------------------------
(* The assertions of TimerQueue.cc on the sizes of timers_ and              *)
(* activeTimers_ hold, because the two hold the same timers.                *)
THEOREM TimerContainersAgree == Spec => []ContainersAgree
<1>1. IInv => ContainersAgree
  BY DEF IInv
<1> QED
  BY Invariance, <1>1, PTL

(* Whatever is added, cancelled or restarted, by the loop thread or by      *)
(* others, the timerfd is armed for the earliest timer between two batches. *)
THEOREM NoTimerIsForgotten == Spec => []TimerfdCoversEarliest
<1>1. IInv => TimerfdCoversEarliest
  BY DEF IInv, Covered, TimerfdCoversEarliest
<1> QED
  BY Invariance, <1>1, PTL

(* getExpired() takes no timer before its time.                             *)
THEOREM NoTimerRunsEarly == Spec => []NeverEarly
<1>1. IInv => NeverEarly
  <2> SUFFICES ASSUME IInv, NEW e \in toRun PROVE e[1] <= now
    BY DEF NeverEarly
  <2>1. e \in expired /\ e[1] \in Nat /\ readTime \in Nat /\ now \in Nat
    BY DEF IInv, TypeOK
  <2>2. e[1] <= readTime /\ readTime <= now
    BY <2>1 DEF IInv, BatchOnlyInHandleRead
  <2> QED
    BY <2>1, <2>2
<1> QED
  BY Invariance, <1>1, PTL

(* cancelInLoop() and reset() together never let a cancelled timer back     *)
(* into timers_, be it cancelled by a callback of its own batch.            *)
THEOREM CancellationIsFinal == Spec => []CancelledIsNotRescheduled
<1>1. IInv => CancelledIsNotRescheduled
  BY DEF IInv
<1> QED
  BY Invariance, <1>1, PTL

(* reset() deletes every timer of the batch that does not repeat.           *)
THEOREM OneShotsAreSpent == Spec => []OneShotRunsOnce
<1>1. IInv => OneShotRunsOnce
  BY DEF IInv
<1> QED
  BY Invariance, <1>1, PTL

(* The timers stay sound, for any number of them, any delays and any calls  *)
(* by callbacks and other threads.                                          *)
THEOREM TimersStaySound == Spec => []TimersSound
BY TimerContainersAgree, NoTimerIsForgotten, NoTimerRunsEarly, CancellationIsFinal,
   OneShotsAreSpent, PTL DEF TimersSound

(* handleRead() runs the timers of a batch by their expirations: a callback *)
(* starts only when none of the batch that is still to run was due earlier. *)
THEOREM BatchRunsInOrder == Spec => BatchInOrder
<1> DEFINE InOrder == current' # current /\ current' # 0
                        => \A e \in toRun' : expiration[current'] <= e[1]
<1>1. IInv /\ [Next]_vars => [InOrder]_vars
  <2> SUFFICES ASSUME IInv, Next, current' # current, current' # 0
               PROVE  \A d \in toRun' : expiration[current'] <= d[1]
    OBVIOUS
  <2>1. PICK e \in toRun : RunTimer(e)
    BY DEF Next, AddTimer, AddTimerFrom, Cancel, CancelFrom, RunQueued, PollReturns, HandleRead,
           CallbackReturns, Reset, Tick
  <2>2. /\ current' = e[2] /\ toRun' = toRun \ {e}
        /\ \A d \in toRun : d = e \/ Before(e, d)
    BY <2>1 DEF RunTimer
  <2>3. toRun \subseteq expired /\ expired \subseteq Nat \X Seqs
    BY DEF IInv, TypeOK
  <2>4. expiration[e[2]] = e[1]
    BY <2>3 DEF IInv, ContainersAgree
  <2> QED
    BY <2>2, <2>3, <2>4 DEF Before
<1> QED
  BY Invariance, <1>1, PTL DEF Spec, BatchInOrder

=============================================================================
