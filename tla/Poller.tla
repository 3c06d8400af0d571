------------------------------- MODULE Poller -------------------------------
(***************************************************************************)
(* The channels of one EventLoop and the Poller that watches them, with     *)
(* loop()'s cycle of polling and dispatching.  newDefaultPoller() picks     *)
(* EPollPoller or PollPoller; the two keep different things in a channel's  *)
(* index_.  A channel stands for its file descriptor as well.  Everything   *)
(* here happens on the loop's thread: user code, in the callback of a       *)
(* channel or in a functor, calls the methods of any channel.               *)
(***************************************************************************)
EXTENDS Integers, Sequences, FiniteSets

CONSTANTS
  Channels,   \* the channels, each owned by an object it is tied to
  Events,     \* kReadEvent and kWriteEvent
  None        \* stands for no channel

ASSUME ChannelsAssumption == None \notin Channels /\ IsFiniteSet(Channels)

VARIABLES
  poller,     \* which Poller the loop has
  events,     \* events_ of each channel
  index,      \* index_
  added,      \* addedToLoop_
  channels,   \* channels_ of the Poller
  epollSet,   \* the kernel's interest list, EPollPoller only
  pollfds,    \* pollfds_, PollPoller only
  active,     \* activeChannels_
  next,       \* where in it loop() is
  current,    \* currentActiveChannel_
  pc,         \* "poll", "events", "callback" or "functors"
  held        \* the channels whose owner is referred to by the program

pollerVars == <<index, channels, epollSet, pollfds>>
loopVars == <<active, next, current, pc>>
vars == <<poller, events, added, held, pollerVars, loopVars>>

(* EPollPoller's values of index_; PollPoller keeps a position of pollfds_  *)
(* there, and kNew also says for it that there is none.                     *)
kNew == -1
kAdded == 1
kDeleted == 2

(* A pollfd; a negative fd, which poll() ignores, is on = FALSE.            *)
PollFd(c, on, evs) == [chan |-> c, on |-> on, events |-> evs]

(* While a channel is handled, the guard handleEvent() took from tie_ keeps *)
(* its owner, and so the channel, alive.                                    *)
Alive(c) == c \in held \/ current = c

Init ==
  /\ poller \in {"epoll", "poll"}
  /\ events = [c \in Channels |-> {}]
  /\ index = [c \in Channels |-> kNew]
  /\ added = [c \in Channels |-> FALSE]
  /\ channels = {}
  /\ epollSet = [c \in {} |-> {}]
  /\ pollfds = <<>>
  /\ active = <<>> /\ next = 1 /\ current = None /\ pc = "functors"
  /\ held = Channels

----------------------------------------------------------------------------
(* EPollPoller.                                                             *)

EpollCtl(c, evs) ==
  epollSet' = [d \in DOMAIN epollSet \cup {c} |->
                 IF d = c THEN evs ELSE epollSet[d]]

EpollCtlDel(c) == epollSet' = [d \in DOMAIN epollSet \ {c} |-> epollSet[d]]

EPollUpdate(c, evs) ==
  /\ channels' = channels \cup {c}
  /\ IF index[c] = kAdded /\ evs = {}
     THEN EpollCtlDel(c) /\ index' = [index EXCEPT ![c] = kDeleted]
     ELSE EpollCtl(c, evs) /\ index' = [index EXCEPT ![c] = kAdded]
  /\ UNCHANGED pollfds

EPollRemove(c) ==
  /\ channels' = channels \ {c}
  /\ IF index[c] = kAdded THEN EpollCtlDel(c) ELSE UNCHANGED epollSet
  /\ index' = [index EXCEPT ![c] = kNew]
  /\ UNCHANGED pollfds

----------------------------------------------------------------------------
(* PollPoller.                                                              *)

PollUpdate(c, evs) ==
  /\ IF index[c] < 0
     THEN /\ pollfds' = Append(pollfds, PollFd(c, TRUE, evs))
          /\ index' = [index EXCEPT ![c] = Len(pollfds)]
          /\ channels' = channels \cup {c}
     ELSE /\ pollfds' = [pollfds EXCEPT ![index[c] + 1] = PollFd(c, evs # {}, evs)]
          /\ UNCHANGED <<index, channels>>
  /\ UNCHANGED epollSet

(* Mutant: the entry that is moved keeps its old index.                     *)
PollRemoveForgetsIndex(c) ==
  /\ channels' = channels \ {c}
  /\ LET i == index[c] + 1
         n == Len(pollfds)
     IN pollfds' = SubSeq([pollfds EXCEPT ![i] = pollfds[n]], 1, n - 1)
  /\ UNCHANGED <<index, epollSet>>

(* Swap with the last entry and drop that; index_ of c itself is left.      *)
PollRemove(c) ==
  /\ channels' = channels \ {c}
  /\ LET i == index[c] + 1
         n == Len(pollfds)
     IN /\ pollfds' = SubSeq([pollfds EXCEPT ![i] = pollfds[n]], 1, n - 1)
        /\ index' = IF i = n THEN index
                    ELSE [index EXCEPT ![pollfds[n].chan] = i - 1]
  /\ UNCHANGED epollSet

----------------------------------------------------------------------------
(* Methods of a channel, called by user code on the loop's thread.          *)

InUserCode == pc \in {"callback", "functors"}

(* enableReading(), disableWriting(), disableAll() and the like: update()   *)
(* registers the channel or changes its registration.  PollPoller asserts   *)
(* that a channel with an index is registered.                              *)
Update(c) ==
  /\ InUserCode
  /\ c \in held
  /\ poller = "poll" /\ index[c] >= 0 => c \in channels
  /\ \E evs \in SUBSET Events :
       /\ \/ \E e \in Events : evs = events[c] \cup {e} \/ evs = events[c] \ {e}
          \/ evs = {}
       /\ events' = [events EXCEPT ![c] = evs]
       /\ IF poller = "epoll" THEN EPollUpdate(c, evs) ELSE PollUpdate(c, evs)
  /\ added' = [added EXCEPT ![c] = TRUE]
  /\ UNCHANGED <<poller, held, loopVars>>

(* Mutant: any channel may be removed while events are handled.             *)
MayRemoveAny(c) == TRUE

(* The assertion of EventLoop::removeChannel().                             *)
MayRemove(c) ==
  pc = "callback" => c = current \/ \A i \in 1..Len(active) : active[i] # c

Remove(c) ==
  /\ InUserCode
  /\ c \in held
  /\ events[c] = {} /\ c \in channels
  /\ MayRemove(c)
  /\ IF poller = "epoll" THEN EPollRemove(c) ELSE PollRemove(c)
  /\ added' = [added EXCEPT ![c] = FALSE]
  /\ UNCHANGED <<poller, events, held, loopVars>>

(* The program lets go of the owner of a channel that was removed.          *)
Release(c) ==
  /\ InUserCode
  /\ c \in held
  /\ ~added[c]
  /\ held' = held \ {c}
  /\ UNCHANGED <<poller, events, added, pollerVars, loopVars>>

(* A new owner with a new channel for the same descriptor.                  *)
Create(c) ==
  /\ InUserCode
  /\ ~Alive(c)
  /\ held' = held \cup {c}
  /\ events' = [events EXCEPT ![c] = {}]
  /\ index' = [index EXCEPT ![c] = kNew]
  /\ UNCHANGED <<poller, added, channels, epollSet, pollfds, loopVars>>

----------------------------------------------------------------------------
(* The loop.                                                                *)

(* What the kernel watches: a channel in the epoll set may report a hang-up *)
(* even if it has no events.                                                *)
Watched ==
  IF poller = "epoll" THEN DOMAIN epollSet
  ELSE {c \in channels : \E i \in 1..Len(pollfds) :
                           pollfds[i].chan = c /\ pollfds[i].on}

Listings(S) ==
  {s \in [1..Cardinality(S) -> S] : \A i, j \in DOMAIN s : s[i] = s[j] => i = j}

(* poll() and fillActiveChannels(): epoll lists what it reports in any      *)
(* order, and PollPoller in that of pollfds_.                               *)
Poll ==
  /\ pc = "poll"
  /\ \E S \in SUBSET Watched : \E s \in Listings(S) :
       /\ poller = "poll" =>
            \A i, j \in DOMAIN s : i < j => index[s[i]] < index[s[j]]
       /\ active' = s
  /\ next' = 1
  /\ pc' = "events"
  /\ UNCHANGED <<poller, events, added, held, pollerVars, current>>

(* handleEvent() of the next active channel calls back into user code.      *)
HandleEvent ==
  /\ pc = "events"
  /\ next <= Len(active)
  /\ current' = active[next]
  /\ next' = next + 1
  /\ pc' = "callback"
  /\ UNCHANGED <<poller, events, added, held, pollerVars, active>>

CallbackReturns ==
  /\ pc = "callback"
  /\ current' = None
  /\ pc' = "events"
  /\ UNCHANGED <<poller, events, added, held, pollerVars, active, next>>

(* doPendingFunctors(), and back to poll().                                 *)
EventsHandled ==
  /\ pc = "events" /\ next > Len(active)
  /\ pc' = "functors"
  /\ UNCHANGED <<poller, events, added, held, pollerVars, active, next, current>>

FunctorsDone ==
  /\ pc = "functors"
  /\ pc' = "poll"
  /\ UNCHANGED <<poller, events, added, held, pollerVars, active, next, current>>

Next ==
  \/ \E c \in Channels : Update(c) \/ Remove(c) \/ Release(c) \/ Create(c)
  \/ Poll \/ HandleEvent \/ CallbackReturns \/ EventsHandled \/ FunctorsDone

Spec == Init /\ [][Next]_vars

----------------------------------------------------------------------------
TypeOK ==
  /\ poller \in {"epoll", "poll"}
  /\ events \in [Channels -> SUBSET Events]
  /\ index \in [Channels -> Int]
  /\ added \in [Channels -> BOOLEAN]
  /\ channels \subseteq Channels
  /\ DOMAIN epollSet \subseteq Channels
  /\ pollfds \in Seq([chan : Channels, on : BOOLEAN, events : SUBSET Events])
  /\ active \in Seq(Channels)
  /\ next \in Nat
  /\ current \in Channels \cup {None}
  /\ pc \in {"poll", "events", "callback", "functors"}
  /\ held \subseteq Channels

(* PollPoller's array and the indices that its channels keep point at each  *)
(* other, so that removing one channel from the middle, which moves the     *)
(* last entry, leaves every other registration in place.                    *)
PollfdsIndexed ==
  poller = "poll" =>
    /\ \A c \in channels : /\ index[c] + 1 \in 1..Len(pollfds)
                           /\ pollfds[index[c] + 1].chan = c
    /\ \A i \in 1..Len(pollfds) : /\ pollfds[i].chan \in channels
                                  /\ index[pollfds[i].chan] = i - 1

(* index_ tells EPollPoller what the kernel has: no epoll_ctl() adds what   *)
(* is there or changes what is not, which would end the process.            *)
EpollSetMatchesIndex ==
  poller = "epoll" =>
    \A c \in Channels : c \in DOMAIN epollSet <=> index[c] = kAdded

(* A channel whose event is still to be handled is alive.                   *)
ActiveAreAlive == \A i \in next..Len(active) : active[i] \in held

(* What the kernel is asked to watch for a registered channel.              *)
Interest(c) ==
  IF poller = "epoll"
  THEN IF c \in DOMAIN epollSet THEN epollSet[c] ELSE {}
  ELSE IF pollfds[index[c] + 1].on THEN pollfds[index[c] + 1].events ELSE {}

(* The kernel watches what the channel's events_ say, with either poller.   *)
WatchesEvents == \A c \in channels : Interest(c) = events[c]

(* The poller is in step with the channels: its indices, what the kernel    *)
(* watches, and what handleEvent() is still to be called on, after any      *)
(* updates and removals by the callbacks of a batch.                        *)
PollerInStep ==
  /\ PollfdsIndexed
  /\ EpollSetMatchesIndex
  /\ WatchesEvents
  /\ ActiveAreAlive

(* Either poller implements the registry.                                   *)
Registry == INSTANCE ChannelRegistry WITH
  interest <- [c \in channels |-> Interest(c)],
  reporting <- {active[i] : i \in next..Len(active)}

ImplementsRegistry == Registry!Spec

=============================================================================
