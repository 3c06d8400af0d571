---------------------------- MODULE PollerProofs ----------------------------
(***************************************************************************)
(* Proofs that both pollers watch what their channels ask for, for any      *)
(* number of channels, and that they implement ChannelRegistry.             *)
(***************************************************************************)
EXTENDS Poller, SequenceTheorems, FiniteSetTheorems, TLAPS

(* The kernel's set is a function.                                          *)
EpollFunction == epollSet = [c \in DOMAIN epollSet |-> epollSet[c]]

(* Who is registered, and that a registered channel is owned.               *)
Registered ==
  /\ \A c \in Channels : added[c] <=> c \in channels
  /\ channels \subseteq held

(* EPollPoller: index_ says what the kernel knows.                          *)
EpollIndexed ==
  poller = "epoll" =>
    \A c \in Channels :
      /\ index[c] \in {kNew, kAdded, kDeleted}
      /\ c \in channels <=> index[c] # kNew
      /\ index[c] = kDeleted => events[c] = {}

(* Where loop() is in activeChannels_: what is ahead is registered, listed  *)
(* once, and not the channel that is being handled.                         *)
Dispatching ==
  /\ next >= 1
  /\ pc \in {"poll", "functors"} => next > Len(active)
  /\ \A i \in next..Len(active) : active[i] \in channels
  /\ \A i, j \in 1..Len(active) : active[i] = active[j] => i = j
  /\ pc = "callback" => next - 1 \in 1..Len(active) /\ current = active[next - 1]

IInv ==
  /\ TypeOK
  /\ EpollFunction
  /\ Registered
  /\ EpollIndexed
  /\ EpollSetMatchesIndex
  /\ PollfdsIndexed
  /\ WatchesEvents
  /\ Dispatching

PollFds == [chan : Channels, on : BOOLEAN, events : SUBSET Events]

LEMMA Initially ==
  Init => IInv
<1> SUFFICES ASSUME Init PROVE IInv
  OBVIOUS
<1>1. <<>> \in Seq(PollFds) /\ <<>> \in Seq(Channels)
  BY EmptySeq
<1>2. TypeOK
  BY <1>1 DEF Init, TypeOK, kNew, PollFds
<1> QED
  BY <1>2 DEF Init, IInv, Registered, EpollIndexed, EpollSetMatchesIndex, kAdded,
     EpollFunction, kDeleted, PollfdsIndexed, WatchesEvents, Dispatching, kNew

----------------------------------------------------------------------------
(* What an update() does to the two pollers' state.                         *)
LEMMA EPollUpdateKeeps ==
  ASSUME IInv, poller = "epoll", poller' = poller, NEW c \in Channels,
         NEW evs \in SUBSET Events, events' = [events EXCEPT ![c] = evs],
         EPollUpdate(c, evs)
  PROVE  /\ index' \in [Channels -> Int] /\ DOMAIN epollSet' \subseteq Channels
         /\ channels' = channels \cup {c} /\ pollfds' = pollfds
         /\ EpollIndexed' /\ EpollSetMatchesIndex' /\ WatchesEvents'
         /\ \A d \in channels' : Interest(d)' = IF d = c THEN evs ELSE Interest(d)
<1> USE DEF kNew, kAdded, kDeleted
<1>1. CASE index[c] = kAdded /\ evs = {}
  <2>1. /\ epollSet' = [d \in DOMAIN epollSet \ {c} |-> epollSet[d]]
        /\ index' = [index EXCEPT ![c] = kDeleted]
        /\ channels' = channels \cup {c} /\ pollfds' = pollfds
    BY <1>1 DEF EPollUpdate, EpollCtlDel
  <2>2. \A d \in channels' : Interest(d)' = IF d = c THEN evs ELSE Interest(d)
    BY <1>1, <2>1 DEF Interest
  <2>3. EpollIndexed' /\ EpollSetMatchesIndex'
    BY <1>1, <2>1 DEF IInv, TypeOK, EpollIndexed, EpollSetMatchesIndex
  <2>4. WatchesEvents'
    BY <1>1, <2>1, <2>2 DEF IInv, TypeOK, WatchesEvents
  <2>5. index' \in [Channels -> Int] /\ DOMAIN epollSet' \subseteq Channels
    BY <2>1 DEF IInv, TypeOK
  <2> QED
    BY <2>1, <2>2, <2>3, <2>4, <2>5
<1>2. CASE ~(index[c] = kAdded /\ evs = {})
  <2>1. /\ epollSet' = [d \in DOMAIN epollSet \cup {c} |->
                          IF d = c THEN evs ELSE epollSet[d]]
        /\ index' = [index EXCEPT ![c] = kAdded]
        /\ channels' = channels \cup {c} /\ pollfds' = pollfds
    BY <1>2 DEF EPollUpdate, EpollCtl
  <2>2. \A d \in channels' : Interest(d)' = IF d = c THEN evs ELSE Interest(d)
    BY <1>2, <2>1 DEF Interest
  <2>3. EpollIndexed' /\ EpollSetMatchesIndex'
    BY <1>2, <2>1 DEF IInv, TypeOK, EpollIndexed, EpollSetMatchesIndex
  <2>4. WatchesEvents'
    BY <1>2, <2>1, <2>2 DEF IInv, TypeOK, WatchesEvents
  <2>5. index' \in [Channels -> Int] /\ DOMAIN epollSet' \subseteq Channels
    BY <2>1 DEF IInv, TypeOK
  <2> QED
    BY <2>1, <2>2, <2>3, <2>4, <2>5
<1> QED
  BY <1>1, <1>2

LEMMA PollUpdateKeeps ==
  ASSUME IInv, poller = "poll", poller' = poller, NEW c \in Channels,
         NEW evs \in SUBSET Events, events' = [events EXCEPT ![c] = evs],
         index[c] >= 0 => c \in channels, PollUpdate(c, evs)
  PROVE  /\ index' \in [Channels -> Int] /\ pollfds' \in Seq(PollFds)
         /\ channels' = channels \cup {c} /\ epollSet' = epollSet
         /\ PollfdsIndexed' /\ WatchesEvents'
         /\ \A d \in channels' : Interest(d)' = IF d = c THEN evs ELSE Interest(d)
<1>1. pollfds \in Seq(PollFds) /\ index \in [Channels -> Int]
  BY DEF IInv, TypeOK, PollFds
<1>2. PollFd(c, TRUE, evs) \in PollFds /\ PollFd(c, evs # {}, evs) \in PollFds
  BY DEF PollFd, PollFds
<1>3. CASE index[c] < 0
  <2>1. /\ pollfds' = Append(pollfds, PollFd(c, TRUE, evs))
        /\ index' = [index EXCEPT ![c] = Len(pollfds)]
        /\ channels' = channels \cup {c} /\ epollSet' = epollSet
    BY <1>3 DEF PollUpdate
  <2>2. /\ pollfds' \in Seq(PollFds) /\ Len(pollfds') = Len(pollfds) + 1
        /\ \A i \in 1..Len(pollfds) : pollfds'[i] = pollfds[i]
        /\ pollfds'[Len(pollfds) + 1] = PollFd(c, TRUE, evs)
    <3> DEFINE p == PollFd(c, TRUE, evs)
    <3>1. p \in PollFds /\ pollfds' = Append(pollfds, p)
      BY <1>2, <2>1
    <3> HIDE DEF p
    <3>2. /\ pollfds' \in Seq(PollFds) /\ Len(pollfds') = Len(pollfds) + 1
          /\ \A i \in 1..Len(pollfds) : pollfds'[i] = pollfds[i]
          /\ pollfds'[Len(pollfds) + 1] = p
      BY <1>1, <3>1, AppendProperties
    <3> QED
      BY <3>2 DEF p
  <2>3. c \notin channels
    BY <1>1, <1>3 DEF IInv, PollfdsIndexed
  <2>4. PollfdsIndexed'
    BY <1>1, <2>1, <2>2, <2>3 DEF IInv, TypeOK, PollfdsIndexed, PollFd
  <2>5. \A d \in channels : index'[d] = index[d] /\ index[d] + 1 \in 1..Len(pollfds)
    BY <1>1, <2>1, <2>3 DEF IInv, TypeOK, PollfdsIndexed
  <2>6. \A d \in channels' : Interest(d)' = IF d = c THEN evs ELSE Interest(d)
    BY <1>1, <2>1, <2>2, <2>3, <2>5 DEF Interest, PollFd
  <2>7. WatchesEvents'
    BY <2>1, <2>6 DEF IInv, TypeOK, WatchesEvents
  <2>8. index' \in [Channels -> Int]
    BY <1>1, <2>1, LenProperties
  <2> QED
    BY <2>1, <2>2, <2>4, <2>6, <2>7, <2>8
<1>4. CASE index[c] >= 0
  <2>1. /\ pollfds' = [pollfds EXCEPT ![index[c] + 1] = PollFd(c, evs # {}, evs)]
        /\ index' = index /\ channels' = channels /\ epollSet' = epollSet
    <3>1. ~(index[c] < 0)
      BY <1>1, <1>4
    <3> QED
      BY <3>1 DEF PollUpdate
  <2>2. c \in channels /\ index[c] + 1 \in 1..Len(pollfds)
    BY <1>4 DEF IInv, PollfdsIndexed
  <2>3. /\ pollfds' \in Seq(PollFds) /\ Len(pollfds') = Len(pollfds)
        /\ \A i \in 1..Len(pollfds) :
             pollfds'[i] = IF i = index[c] + 1 THEN PollFd(c, evs # {}, evs)
                           ELSE pollfds[i]
    BY <1>1, <1>2, <2>1, <2>2
  <2>4. PollfdsIndexed'
    BY <1>1, <2>1, <2>2, <2>3 DEF IInv, TypeOK, PollfdsIndexed, PollFd
  <2>5. \A d \in channels : /\ index[d] + 1 \in 1..Len(pollfds)
                            /\ d # c => index[d] + 1 # index[c] + 1
    BY <1>1, <2>2 DEF IInv, TypeOK, PollfdsIndexed
  <2>6. \A d \in channels' : Interest(d)' = IF d = c THEN evs ELSE Interest(d)
    <3>1. Interest(c)' = evs
      <4>1. pollfds'[index'[c] + 1] = PollFd(c, evs # {}, evs)
        BY <2>1, <2>2, <2>3
      <4>2. CASE evs = {}
        <5>1. PollFd(c, evs # {}, evs) = PollFd(c, FALSE, evs)
          BY <4>2
        <5>2. ~pollfds'[index'[c] + 1].on
          BY <4>1, <5>1 DEF PollFd
        <5> QED
          BY <4>2, <5>2 DEF Interest
      <4>3. CASE evs # {}
        <5>1. PollFd(c, evs # {}, evs) = PollFd(c, TRUE, evs)
          BY <4>3
        <5>2. pollfds'[index'[c] + 1].on /\ pollfds'[index'[c] + 1].events = evs
          BY <4>1, <5>1 DEF PollFd
        <5> QED
          BY <5>2 DEF Interest
      <4> QED
        BY <4>2, <4>3
    <3>2. ASSUME NEW d \in channels, d # c
          PROVE  Interest(d)' = Interest(d)
      <4>1. pollfds'[index[d] + 1] = pollfds[index[d] + 1]
        BY <2>3, <2>5, <3>2
      <4> QED
        BY <2>1, <4>1 DEF Interest
    <3> QED
      BY <2>1, <3>1, <3>2
  <2>7. WatchesEvents'
    BY <2>1, <2>2, <2>6 DEF IInv, TypeOK, WatchesEvents
  <2> QED
    BY <1>1, <2>1, <2>2, <2>3, <2>4, <2>6, <2>7
<1> QED
  BY <1>1, <1>3, <1>4

(* What a remove() does to them.                                            *)
LEMMA EPollRemoveLeaves ==
  ASSUME IInv, poller = "epoll", poller' = poller, NEW c \in channels,
         events' = events, EPollRemove(c)
  PROVE  /\ index' \in [Channels -> Int] /\ DOMAIN epollSet' \subseteq Channels
         /\ channels' = channels \ {c} /\ pollfds' = pollfds
         /\ EpollIndexed' /\ EpollSetMatchesIndex' /\ WatchesEvents'
         /\ \A d \in channels' : Interest(d)' = Interest(d)
<1> USE DEF kNew, kAdded, kDeleted
<1>1. epollSet' = [d \in DOMAIN epollSet \ {c} |-> epollSet[d]]
  <2>1. CASE index[c] = kAdded
    BY <2>1 DEF EPollRemove, EpollCtlDel
  <2>2. CASE index[c] # kAdded
    <3>1. c \notin DOMAIN epollSet /\ epollSet' = epollSet
      BY <2>2 DEF EPollRemove, IInv, TypeOK, EpollSetMatchesIndex
    <3>2. DOMAIN epollSet \ {c} = DOMAIN epollSet
      BY <3>1
    <3>3. epollSet = [d \in DOMAIN epollSet |-> epollSet[d]]
      BY DEF IInv, EpollFunction
    <3> QED
      BY <3>1, <3>2, <3>3
  <2> QED
    BY <2>1, <2>2
<1>2. /\ index' = [index EXCEPT ![c] = kNew]
      /\ channels' = channels \ {c} /\ pollfds' = pollfds
  BY DEF EPollRemove
<1>3. \A d \in channels' : Interest(d)' = Interest(d)
  BY <1>1, <1>2 DEF Interest
<1>4. EpollIndexed' /\ EpollSetMatchesIndex'
  BY <1>1, <1>2 DEF IInv, TypeOK, EpollIndexed, EpollSetMatchesIndex
<1>5. WatchesEvents'
  BY <1>2, <1>3 DEF IInv, WatchesEvents
<1>6. index' \in [Channels -> Int] /\ DOMAIN epollSet' \subseteq Channels
  BY <1>1, <1>2 DEF IInv, TypeOK
<1> QED
  BY <1>2, <1>3, <1>4, <1>5, <1>6

LEMMA PollRemoveLeaves ==
  ASSUME IInv, poller = "poll", poller' = poller, NEW c \in channels,
         events' = events, PollRemove(c)
  PROVE  /\ index' \in [Channels -> Int] /\ pollfds' \in Seq(PollFds)
         /\ channels' = channels \ {c} /\ epollSet' = epollSet
         /\ PollfdsIndexed' /\ WatchesEvents'
         /\ \A d \in channels' : Interest(d)' = Interest(d)
<1> DEFINE i == index[c] + 1
           n == Len(pollfds)
<1>1. pollfds \in Seq(PollFds) /\ index \in [Channels -> Int] /\ n \in Nat
      /\ channels \subseteq Channels
  BY LenProperties DEF IInv, TypeOK, PollFds
<1>2. i \in 1..n /\ n \in 1..n /\ pollfds[i].chan = c
  BY <1>1 DEF IInv, PollfdsIndexed
<1>3. /\ pollfds' = SubSeq([pollfds EXCEPT ![i] = pollfds[n]], 1, n - 1)
      /\ index' = IF i = n THEN index
                  ELSE [index EXCEPT ![pollfds[n].chan] = i - 1]
      /\ channels' = channels \ {c} /\ epollSet' = epollSet
  BY DEF PollRemove
<1>4. /\ pollfds' \in Seq(PollFds) /\ Len(pollfds') = n - 1
      /\ \A k \in 1..n - 1 : pollfds'[k] = IF k = i THEN pollfds[n] ELSE pollfds[k]
  <2> DEFINE q == [pollfds EXCEPT ![i] = pollfds[n]]
  <2>1. /\ q \in Seq(PollFds) /\ Len(q) = n
        /\ \A k \in 1..n : q[k] = IF k = i THEN pollfds[n] ELSE pollfds[k]
    BY <1>1, <1>2
  <2> HIDE DEF q
  <2>2. /\ SubSeq(q, 1, n - 1) \in Seq(PollFds) /\ Len(SubSeq(q, 1, n - 1)) = n - 1
        /\ \A k \in 1..n - 1 : SubSeq(q, 1, n - 1)[k] = q[k]
    BY <1>1, <1>2, <2>1
  <2>3. pollfds' = SubSeq(q, 1, n - 1)
    BY <1>3 DEF q
  <2> QED
    BY <2>1, <2>2, <2>3
<1>5. /\ \A d \in channels : /\ index[d] + 1 \in 1..n
                             /\ pollfds[index[d] + 1].chan = d
      /\ \A k \in 1..n : /\ pollfds[k].chan \in channels
                         /\ index[pollfds[k].chan] = k - 1
  BY DEF IInv, PollfdsIndexed
<1> HIDE DEF i, n
<1>6. \A d \in channels' :
        /\ index'[d] + 1 \in 1..n - 1
        /\ pollfds'[index'[d] + 1] = pollfds[index[d] + 1]
  <2> SUFFICES ASSUME NEW d \in channels, d # c
               PROVE  /\ index'[d] + 1 \in 1..n - 1
                      /\ pollfds'[index'[d] + 1] = pollfds[index[d] + 1]
    BY <1>3
  <2>1. index[d] + 1 # i /\ index[d] + 1 \in 1..n /\ index[d] \in Int
    BY <1>1, <1>2, <1>5
  <2>2. CASE i = n
    BY <1>1, <1>2, <1>3, <1>4, <2>1, <2>2
  <2>3. CASE i # n /\ d = pollfds[n].chan
    <3>1. index'[d] = i - 1 /\ index[d] = n - 1
      BY <1>1, <1>2, <1>3, <1>5, <2>3
    <3> QED
      BY <1>1, <1>2, <1>4, <2>3, <3>1
  <2>4. CASE i # n /\ d # pollfds[n].chan
    <3>1. index'[d] = index[d] /\ index[d] + 1 # n
      BY <1>1, <1>2, <1>3, <1>5, <2>4
    <3> QED
      BY <1>1, <1>2, <1>4, <2>1, <3>1
  <2> QED
    BY <2>2, <2>3, <2>4
<1>7. \A k \in 1..n - 1 : /\ pollfds'[k].chan \in channels'
                         /\ index'[pollfds'[k].chan] = k - 1
  <2> SUFFICES ASSUME NEW k \in 1..n - 1
               PROVE  /\ pollfds'[k].chan \in channels'
                      /\ index'[pollfds'[k].chan] = k - 1
    OBVIOUS
  <2>1. k \in 1..n
    BY <1>1
  <2>2. CASE k = i
    BY <1>1, <1>2, <1>3, <1>4, <1>5, <2>1, <2>2
  <2>3. CASE k # i
    <3>1. pollfds'[k].chan = pollfds[k].chan /\ pollfds[k].chan # c
      BY <1>2, <1>4, <1>5, <2>1, <2>3
    <3>2. index[pollfds[k].chan] = k - 1 /\ index[pollfds[n].chan] = n - 1
      BY <1>2, <1>5, <2>1
    <3>3. pollfds[k].chan # pollfds[n].chan
      BY <1>1, <3>2
    <3> QED
      BY <1>1, <1>3, <1>5, <2>1, <3>1, <3>3
  <2> QED
    BY <2>2, <2>3
<1>8. PollfdsIndexed'
  <2>1. \A d \in channels' : /\ index'[d] + 1 \in 1..Len(pollfds')
                            /\ pollfds'[index'[d] + 1].chan = d
    BY <1>3, <1>4, <1>5, <1>6
  <2>2. \A k \in 1..Len(pollfds') : /\ pollfds'[k].chan \in channels'
                                   /\ index'[pollfds'[k].chan] = k - 1
    BY <1>4, <1>7
  <2> QED
    BY <2>1, <2>2 DEF PollfdsIndexed
<1>9. \A d \in channels' : Interest(d)' = Interest(d)
  BY <1>6 DEF Interest
<1>10. WatchesEvents'
  BY <1>3, <1>9 DEF IInv, WatchesEvents
<1>11. index' \in [Channels -> Int]
  <2>1. pollfds[n].chan \in Channels /\ i - 1 \in Int
    BY <1>1, <1>2, <1>5
  <2> QED
    BY <1>1, <1>3, <2>1
<1> QED
  BY <1>3, <1>4, <1>8, <1>9, <1>10, <1>11

----------------------------------------------------------------------------
(* Each action preserves the invariant; the first two also say what they do *)
(* to the registrations.                                                    *)
LEMMA UpdateStep ==
  ASSUME IInv, NEW c \in Channels, Update(c)
  PROVE  /\ IInv'
         /\ channels' = channels \cup {c}
         /\ \E evs \in SUBSET Events : \A d \in channels' :
              Interest(d)' = IF d = c THEN evs ELSE Interest(d)
<1>1. PICK evs \in SUBSET Events :
        /\ events' = [events EXCEPT ![c] = evs]
        /\ IF poller = "epoll" THEN EPollUpdate(c, evs) ELSE PollUpdate(c, evs)
  BY DEF Update
<1>2. /\ poller' = poller /\ held' = held /\ c \in held
      /\ added' = [added EXCEPT ![c] = TRUE]
      /\ active' = active /\ next' = next /\ current' = current /\ pc' = pc
  BY DEF Update, loopVars
<1>3. CASE poller = "epoll"
  <2>1. EPollUpdate(c, evs)
    BY <1>1, <1>3
  <2>2. EpollFunction'
    BY <2>1 DEF EPollUpdate, EpollCtl, EpollCtlDel, EpollFunction
  <2>3. /\ index' \in [Channels -> Int] /\ DOMAIN epollSet' \subseteq Channels
        /\ channels' = channels \cup {c} /\ pollfds' = pollfds
        /\ EpollIndexed' /\ EpollSetMatchesIndex' /\ WatchesEvents'
        /\ \A d \in channels' : Interest(d)' = IF d = c THEN evs ELSE Interest(d)
    BY <1>1, <1>2, <1>3, <2>1, EPollUpdateKeeps
  <2>4. TypeOK'
    BY <1>1, <1>2, <2>3 DEF IInv, TypeOK
  <2>5. Registered' /\ PollfdsIndexed' /\ Dispatching'
    BY <1>2, <1>3, <2>3 DEF IInv, TypeOK, Registered, PollfdsIndexed, Dispatching
  <2> QED
    BY <2>2, <2>3, <2>4, <2>5 DEF IInv
<1>4. CASE poller = "poll"
  <2>1. PollUpdate(c, evs) /\ (index[c] >= 0 => c \in channels)
    BY <1>1, <1>4 DEF Update
  <2>2. /\ index' \in [Channels -> Int] /\ pollfds' \in Seq(PollFds)
        /\ channels' = channels \cup {c} /\ epollSet' = epollSet
        /\ PollfdsIndexed' /\ WatchesEvents'
        /\ \A d \in channels' : Interest(d)' = IF d = c THEN evs ELSE Interest(d)
    BY <1>1, <1>2, <1>4, <2>1, PollUpdateKeeps
  <2>3. TypeOK'
    BY <1>1, <1>2, <2>2 DEF IInv, TypeOK, PollFds
  <2>4. Registered' /\ Dispatching'
    BY <1>2, <2>2 DEF IInv, TypeOK, Registered, Dispatching
  <2>5. EpollFunction' /\ EpollIndexed' /\ EpollSetMatchesIndex'
    BY <1>2, <1>4, <2>2 DEF IInv, EpollFunction, EpollIndexed, EpollSetMatchesIndex
  <2> QED
    BY <2>2, <2>3, <2>4, <2>5 DEF IInv
<1> QED
  BY <1>3, <1>4 DEF IInv, TypeOK

(* The assertion of removeChannel(): what is still to be handled is not     *)
(* what is removed.                                                         *)
LEMMA RemovedIsNotAhead ==
  ASSUME IInv, NEW c \in Channels, Remove(c)
  PROVE  \A i \in next..Len(active) : active[i] # c
<1>1. next \in Nat /\ Len(active) \in Nat /\ next >= 1
  BY LenProperties DEF IInv, TypeOK, Dispatching
<1>2. CASE pc = "callback"
  BY <1>1, <1>2 DEF Remove, MayRemove, IInv, Dispatching
<1>3. CASE pc = "functors"
  BY <1>1, <1>3 DEF IInv, Dispatching
<1> QED
  BY <1>2, <1>3 DEF Remove, InUserCode

LEMMA RemoveStep ==
  ASSUME IInv, NEW c \in Channels, Remove(c)
  PROVE  /\ IInv'
         /\ c \in channels /\ channels' = channels \ {c}
         /\ \A d \in channels' : Interest(d)' = Interest(d)
<1>1. /\ poller' = poller /\ held' = held /\ c \in held /\ c \in channels
      /\ added' = [added EXCEPT ![c] = FALSE] /\ events' = events
      /\ active' = active /\ next' = next /\ current' = current /\ pc' = pc
  BY DEF Remove, loopVars
<1>2. CASE poller = "epoll"
  <2>1. EPollRemove(c)
    BY <1>2 DEF Remove
  <2>2. EpollFunction'
    BY <2>1 DEF EPollRemove, EpollCtlDel, EpollFunction, IInv
  <2>3. /\ index' \in [Channels -> Int] /\ DOMAIN epollSet' \subseteq Channels
        /\ channels' = channels \ {c} /\ pollfds' = pollfds
        /\ EpollIndexed' /\ EpollSetMatchesIndex' /\ WatchesEvents'
        /\ \A d \in channels' : Interest(d)' = Interest(d)
    BY <1>1, <1>2, <2>1, EPollRemoveLeaves
  <2>4. TypeOK'
    BY <1>1, <2>3 DEF IInv, TypeOK
  <2>5. Registered' /\ PollfdsIndexed' /\ Dispatching'
    BY <1>1, <1>2, <2>3, RemovedIsNotAhead
       DEF IInv, TypeOK, Registered, PollfdsIndexed, Dispatching
  <2> QED
    BY <1>1, <2>2, <2>3, <2>4, <2>5 DEF IInv
<1>3. CASE poller = "poll"
  <2>1. PollRemove(c)
    BY <1>3 DEF Remove
  <2>2. /\ index' \in [Channels -> Int] /\ pollfds' \in Seq(PollFds)
        /\ channels' = channels \ {c} /\ epollSet' = epollSet
        /\ PollfdsIndexed' /\ WatchesEvents'
        /\ \A d \in channels' : Interest(d)' = Interest(d)
    BY <1>1, <1>3, <2>1, PollRemoveLeaves
  <2>3. TypeOK'
    BY <1>1, <2>2 DEF IInv, TypeOK, PollFds
  <2>4. Registered' /\ Dispatching'
    BY <1>1, <2>2, RemovedIsNotAhead DEF IInv, TypeOK, Registered, Dispatching
  <2>5. EpollFunction' /\ EpollIndexed' /\ EpollSetMatchesIndex'
    BY <1>1, <1>3, <2>2 DEF IInv, EpollFunction, EpollIndexed, EpollSetMatchesIndex
  <2> QED
    BY <1>1, <2>2, <2>3, <2>4, <2>5 DEF IInv
<1> QED
  BY <1>2, <1>3 DEF IInv, TypeOK

(* The owner that is let go of has no registered channel.                   *)
LEMMA ReleaseStep ==
  ASSUME IInv, NEW c \in Channels, Release(c)
  PROVE  IInv' /\ UNCHANGED <<poller, channels, epollSet, pollfds, index, active, next>>
<1>1. /\ held' = held \ {c} /\ c \notin channels
      /\ UNCHANGED <<poller, events, added, index, channels, epollSet, pollfds,
                    active, next, current, pc>>
  BY DEF Release, pollerVars, loopVars, IInv, Registered
<1>2. TypeOK' /\ EpollFunction' /\ Registered'
  BY <1>1 DEF IInv, TypeOK, EpollFunction, Registered
<1>3. EpollIndexed' /\ EpollSetMatchesIndex' /\ PollfdsIndexed' /\ Dispatching'
  BY <1>1 DEF IInv, EpollIndexed, EpollSetMatchesIndex, PollfdsIndexed, Dispatching
<1>4. WatchesEvents'
  BY <1>1 DEF IInv, WatchesEvents, Interest
<1> QED
  BY <1>1, <1>2, <1>3, <1>4 DEF IInv

(* A new channel takes a descriptor that no registered channel has.         *)
LEMMA CreateStep ==
  ASSUME IInv, NEW c \in Channels, Create(c)
  PROVE  /\ IInv'
         /\ UNCHANGED <<channels, active, next>>
         /\ \A d \in channels : Interest(d)' = Interest(d)
<1>1. /\ held' = held \cup {c} /\ c \notin channels
      /\ events' = [events EXCEPT ![c] = {}] /\ index' = [index EXCEPT ![c] = kNew]
      /\ UNCHANGED <<poller, added, channels, epollSet, pollfds,
                    active, next, current, pc>>
  BY DEF Create, loopVars, IInv, Registered, Alive
<1>2. TypeOK'
  BY <1>1 DEF IInv, TypeOK, kNew
<1>3. EpollFunction' /\ Registered' /\ Dispatching'
  BY <1>1 DEF IInv, EpollFunction, Registered, Dispatching
<1>4. EpollIndexed' /\ EpollSetMatchesIndex'
  BY <1>1 DEF IInv, TypeOK, EpollIndexed, EpollSetMatchesIndex, kNew, kAdded, kDeleted
<1>5. PollfdsIndexed'
  BY <1>1 DEF IInv, TypeOK, PollfdsIndexed
<1>6. \A d \in channels : index'[d] = index[d] /\ events'[d] = events[d]
  BY <1>1 DEF IInv, TypeOK
<1>7. \A d \in channels : Interest(d)' = Interest(d)
  BY <1>1, <1>6 DEF Interest
<1>8. WatchesEvents'
  BY <1>1, <1>6, <1>7 DEF IInv, WatchesEvents
<1> QED
  BY <1>1, <1>2, <1>3, <1>4, <1>5, <1>7, <1>8 DEF IInv

(* What is reported is registered, and reported once.                       *)
LEMMA PollStep ==
  ASSUME IInv, Poll
  PROVE  /\ IInv'
         /\ UNCHANGED <<poller, channels, epollSet, pollfds, index>>
         /\ next > Len(active) /\ next' = 1
<1>1. /\ UNCHANGED <<poller, events, added, held, index, channels, epollSet,
                    pollfds, current>>
      /\ pc = "poll" /\ next' = 1 /\ pc' = "events"
  BY DEF Poll, pollerVars
<1>2. PICK S \in SUBSET Watched : \E s \in Listings(S) : active' = s
  BY DEF Poll
<1>3. Watched \subseteq channels
  BY DEF Watched, IInv, TypeOK, EpollIndexed, EpollSetMatchesIndex, kNew, kAdded
<1>4. Cardinality(S) \in Nat
  <2>1. S \subseteq Channels
    BY <1>3 DEF IInv, TypeOK
  <2>2. IsFiniteSet(S)
    BY <2>1, ChannelsAssumption, FS_Subset
  <2> QED
    BY <2>2, FS_CardinalityType
<1>5. /\ active' \in [1..Cardinality(S) -> S]
      /\ \A i, j \in 1..Cardinality(S) : active'[i] = active'[j] => i = j
  BY <1>2 DEF Listings
<1>6. Len(active') = Cardinality(S) /\ active' \in Seq(Channels)
  <2> DEFINE k == Cardinality(S)
             a == active'
  <2>1. k \in Nat /\ a \in [1..k -> Channels]
    BY <1>3, <1>4, <1>5 DEF IInv, TypeOK
  <2> HIDE DEF k, a
  <2>2. a \in Seq(Channels) /\ Len(a) = k
    BY <2>1, SeqDef, LenProperties
  <2> QED
    BY <2>2 DEF k, a
<1>7. Dispatching'
  BY <1>1, <1>3, <1>4, <1>5, <1>6 DEF Dispatching
<1>8. TypeOK' /\ EpollFunction' /\ Registered'
  BY <1>1, <1>6 DEF IInv, TypeOK, EpollFunction, Registered
<1>9. EpollIndexed' /\ EpollSetMatchesIndex' /\ PollfdsIndexed'
  BY <1>1 DEF IInv, EpollIndexed, EpollSetMatchesIndex, PollfdsIndexed
<1>10. WatchesEvents'
  BY <1>1 DEF IInv, WatchesEvents, Interest
<1>11. next > Len(active)
  BY <1>1 DEF IInv, Dispatching
<1> QED
  BY <1>1, <1>7, <1>8, <1>9, <1>10, <1>11 DEF IInv

(* The steps of loop() itself.                                              *)
LEMMA LoopStep ==
  ASSUME IInv, HandleEvent \/ CallbackReturns \/ EventsHandled \/ FunctorsDone
  PROVE  IInv' /\ UNCHANGED <<poller, channels, epollSet, pollfds, index, active>>
<1>1. UNCHANGED <<poller, events, added, held, index, channels, epollSet, pollfds,
                  active>>
  BY DEF HandleEvent, CallbackReturns, EventsHandled, FunctorsDone, pollerVars
<1>2. active \in Seq(Channels) /\ Len(active) \in Nat /\ next \in Nat
      /\ current \in Channels \cup {None} /\ next >= 1
  BY LenProperties DEF IInv, TypeOK, Dispatching
<1>3. /\ next' \in Nat /\ current' \in Channels \cup {None}
      /\ pc' \in {"poll", "events", "callback", "functors"}
      /\ Dispatching'
  <2>1. CASE HandleEvent
    <3>1. next \in 1..Len(active) /\ active[next] \in Channels
      BY <1>2, <2>1 DEF HandleEvent
    <3> QED
      BY <1>1, <1>2, <2>1, <3>1 DEF HandleEvent, IInv, Dispatching
  <2>2. CASE CallbackReturns
    BY <1>1, <1>2, <2>2 DEF CallbackReturns, IInv, Dispatching
  <2>3. CASE EventsHandled
    BY <1>1, <1>2, <2>3 DEF EventsHandled, IInv, Dispatching
  <2>4. CASE FunctorsDone
    BY <1>1, <1>2, <2>4 DEF FunctorsDone, IInv, Dispatching
  <2> QED
    BY <2>1, <2>2, <2>3, <2>4
<1>4. TypeOK' /\ EpollFunction' /\ Registered'
  BY <1>1, <1>3 DEF IInv, TypeOK, EpollFunction, Registered
<1>5. EpollIndexed' /\ EpollSetMatchesIndex' /\ PollfdsIndexed'
  BY <1>1 DEF IInv, EpollIndexed, EpollSetMatchesIndex, PollfdsIndexed
<1>6. WatchesEvents'
  BY <1>1 DEF IInv, WatchesEvents, Interest
<1> QED
  BY <1>1, <1>3, <1>4, <1>5, <1>6 DEF IInv

LEMMA Invariance ==
  Spec => []IInv
<1>1. IInv /\ [Next]_vars => IInv'
  <2> SUFFICES ASSUME IInv, [Next]_vars PROVE IInv'
    OBVIOUS
  <2>1. ASSUME NEW c \in Channels, Update(c) \/ Remove(c) \/ Release(c) \/ Create(c)
        PROVE  IInv'
    BY <2>1, UpdateStep, RemoveStep, ReleaseStep, CreateStep
  <2>2. CASE UNCHANGED vars
    BY <2>2 DEF IInv, vars, pollerVars, loopVars, TypeOK, EpollFunction, Registered,
       EpollIndexed, EpollSetMatchesIndex, PollfdsIndexed, WatchesEvents, Interest,
       Dispatching
  <2> QED
    BY <2>1, <2>2, PollStep, LoopStep DEF Next
<1> QED
  BY <1>1, Initially, PTL DEF Spec

(* removeChannel()'s swap with the last entry of pollfds_ keeps the array   *)
(* and the channels' index_ in step, for any number of channels.            *)
THEOREM PollfdsStayIndexed == Spec => []PollfdsIndexed
  BY Invariance, PTL DEF IInv

(* EPollPoller never adds to the kernel's set what is in it, and never      *)
(* changes or deletes what is not.                                          *)
THEOREM EpollSetStaysInStep == Spec => []EpollSetMatchesIndex
  BY Invariance, PTL DEF IInv

(* The kernel always watches exactly the events_ of a registered channel.   *)
THEOREM InterestIsWatched == Spec => []WatchesEvents
  BY Invariance, PTL DEF IInv

(* No callback of the batch that is being handled can destroy a channel     *)
(* that is still to be handled, given the assertion of removeChannel() and  *)
(* that of ~Channel().                                                      *)
THEOREM NoDestroyedChannelIsHandled == Spec => []ActiveAreAlive
<1>1. IInv => ActiveAreAlive
  BY DEF IInv, Registered, Dispatching, ActiveAreAlive
<1> QED
  BY <1>1, Invariance, PTL

(* Either poller stays in step with any number of channels.                 *)
THEOREM PollerStaysInStep == Spec => []PollerInStep
BY PollfdsStayIndexed, EpollSetStaysInStep, InterestIsWatched, NoDestroyedChannelIsHandled,
   PTL DEF PollerInStep

----------------------------------------------------------------------------
(* The registry that either poller implements.                              *)
interests == [c \in channels |-> Interest(c)]
reported == {active[i] : i \in next..Len(active)}

LEMMA UpdateSets ==
  ASSUME IInv, NEW c \in Channels, Update(c)
  PROVE  \E evs \in SUBSET Events : Registry!Set(c, evs)
<1>1. PICK evs \in SUBSET Events : \A d \in channels' :
        Interest(d)' = IF d = c THEN evs ELSE Interest(d)
  BY UpdateStep
<1>2. channels' = channels \cup {c}
  BY UpdateStep
<1>3. active' = active /\ next' = next
  BY DEF Update, loopVars
<1>4. interests' = [d \in DOMAIN interests \cup {c} |->
                      IF d = c THEN evs ELSE interests[d]]
  BY <1>1, <1>2 DEF interests
<1>5. Registry!Set(c, evs)
  BY <1>3, <1>4 DEF Registry!Set, interests
<1> QED
  BY <1>5

LEMMA RemoveForgets ==
  ASSUME IInv, NEW c \in Channels, Remove(c)
  PROVE  Registry!Forget(c)
<1>1. /\ c \in channels /\ channels' = channels \ {c}
      /\ \A d \in channels' : Interest(d)' = Interest(d)
  BY RemoveStep
<1>2. active' = active /\ next' = next
  BY DEF Remove, loopVars
<1>3. interests' = [d \in DOMAIN interests \ {c} |-> interests[d]]
  BY <1>1 DEF interests
<1>4. c \in DOMAIN interests \ reported
  BY <1>1, RemovedIsNotAhead DEF interests, reported
<1> QED
  BY <1>2, <1>3, <1>4 DEF Registry!Forget, interests, reported

LEMMA PollReports ==
  ASSUME IInv, Poll
  PROVE  \E S \in SUBSET Channels : Registry!Report(S)
<1>1. IInv' /\ UNCHANGED <<poller, channels, epollSet, pollfds, index>>
      /\ next > Len(active)
  BY PollStep
<1>2. interests' = interests
  BY <1>1 DEF interests, Interest
<1>3. reported = {}
  BY <1>1, LenProperties DEF reported, IInv, TypeOK
<1>4. reported' \subseteq channels
  BY <1>1 DEF IInv, Dispatching, reported
<1>5. reported' \in SUBSET Channels /\ DOMAIN interests = channels
  BY <1>4, <1>1 DEF IInv, TypeOK, interests
<1>6. PICK S \in SUBSET Channels : S = reported'
  BY <1>5
<1>7. Registry!Report(S)
  BY <1>2, <1>3, <1>4, <1>5, <1>6 DEF Registry!Report, interests, reported
<1> QED
  BY <1>7

LEMMA HandleEventDelivers ==
  ASSUME IInv, HandleEvent
  PROVE  \E c \in Channels : Registry!Deliver(c)
<1>1. UNCHANGED <<poller, channels, epollSet, pollfds, index, active>>
  BY LoopStep
<1>2. interests' = interests
  BY <1>1 DEF interests, Interest
<1>3. /\ next \in 1..Len(active) /\ next' = next + 1 /\ Len(active) \in Nat
      /\ active[next] \in Channels
  BY LenProperties DEF HandleEvent, IInv, TypeOK, Dispatching
<1>4. active[next] \in reported
  BY <1>3 DEF reported
<1>5. reported' = reported \ {active[next]}
  <2>1. next..Len(active) = {next} \cup (next + 1..Len(active))
    BY <1>3
  <2>2. \A i \in next + 1..Len(active) : active[i] # active[next]
    BY <1>3 DEF IInv, Dispatching
  <2>3. reported' = {active[i] : i \in next + 1..Len(active)}
    BY <1>1, <1>3 DEF reported
  <2> QED
    BY <2>1, <2>2, <2>3 DEF reported
<1>6. PICK c \in Channels : c = active[next]
  BY <1>3
<1>7. Registry!Deliver(c)
  BY <1>2, <1>4, <1>5, <1>6 DEF Registry!Deliver, interests, reported
<1> QED
  BY <1>7

(* Both pollers implement the registry: an update() of one channel or its   *)
(* removal changes no other registration, only registered channels are      *)
(* reported, and none is forgotten while it is still to be handled.         *)
THEOREM RegistryRefinement == Spec => ImplementsRegistry
<1>1. Init => Registry!Init
  <2> SUFFICES ASSUME Init PROVE Registry!Init
    OBVIOUS
  <2>1. interests = [c \in {} |-> {}]
    BY DEF Init, interests
  <2>2. reported = {}
    BY EmptySeq DEF Init, reported
  <2> QED
    BY <2>1, <2>2 DEF Registry!Init, interests, reported
<1>2. IInv /\ [Next]_vars => [Registry!Next]_<<interests, reported>>
  <2> SUFFICES ASSUME IInv, [Next]_vars
               PROVE  [Registry!Next]_<<interests, reported>>
    OBVIOUS
  <2>1. ASSUME NEW c \in Channels, Update(c) PROVE Registry!Next
    BY <2>1, UpdateSets DEF Registry!Next
  <2>2. ASSUME NEW c \in Channels, Remove(c) PROVE Registry!Next
    BY <2>2, RemoveForgets DEF Registry!Next
  <2>3. ASSUME NEW c \in Channels, Release(c)
        PROVE  UNCHANGED <<interests, reported>>
    BY <2>3, ReleaseStep DEF interests, reported, Interest
  <2>4. ASSUME NEW c \in Channels, Create(c)
        PROVE  UNCHANGED <<interests, reported>>
    BY <2>4, CreateStep DEF interests, reported
  <2>5. CASE Poll
    BY <2>5, PollReports DEF Registry!Next
  <2>6. CASE HandleEvent
    BY <2>6, HandleEventDelivers DEF Registry!Next
  <2>7. CASE CallbackReturns \/ EventsHandled \/ FunctorsDone
    <3>1. next' = next
      BY <2>7 DEF CallbackReturns, EventsHandled, FunctorsDone
    <3> QED
      BY <2>7, <3>1, LoopStep DEF interests, reported, Interest
  <2>8. CASE UNCHANGED vars
    BY <2>8 DEF vars, pollerVars, loopVars, interests, reported, Interest
  <2> QED
    BY <2>1, <2>2, <2>3, <2>4, <2>5, <2>6, <2>7, <2>8 DEF Next
<1> QED
  BY <1>1, <1>2, Invariance, PTL
     DEF Spec, ImplementsRegistry, Registry!Spec, interests, reported

=============================================================================
