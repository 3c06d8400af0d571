---------------------------- MODULE TcpConnection ----------------------------
(***************************************************************************)
(* muduo::net::TcpConnection in its event loop.  The loop thread polls,     *)
(* dispatches the events of the connection's channel (after the callbacks   *)
(* of other channels, which are user code) and runs queued functors; other  *)
(* threads call the public methods; the peer reads, writes, closes and      *)
(* resets.  state_ is a plain member, so the test and the store that a      *)
(* method called from another thread makes are two steps.                   *)
(***************************************************************************)
EXTENDS Naturals, Sequences

CONSTANTS
  Threads,        \* threads other than the loop's that use the connection
  Messages,       \* messages, each sent at most once
  MessageLen,     \* bytes in a message
  HighWaterMark,  \* highWaterMark_
  CallSets,       \* the ways to use a connection: the methods that user code
                  \* on the loop thread calls, and those that others call
  None,           \* stands for no message
  MaxPending      \* bound: length of the queue of functors

Methods == {"send", "shutdown", "forceClose", "forceCloseWithDelay",
            "startRead", "stopRead"}

(* What a functor or a thread is about.                                     *)
Ops == Methods \cup {"connectEstablished", "connectDestroyed", "idle"}

ASSUME ConnectionAssumption ==
  /\ MessageLen \in Nat \ {0}
  /\ None \notin Messages
  /\ HighWaterMark \in Nat \ {0}
  /\ MaxPending \in Nat
  /\ \A c \in CallSets :
       c.loop \subseteq Methods /\ c.thread \subseteq Methods \ {"forceCloseWithDelay"}

VARIABLES
  calls,              \* how this connection is used; never changes
  state,              \* state_
  reading,            \* reading_
  chReading,          \* kReadEvent is in the channel's events_
  chWriting,          \* kWriteEvent is
  watched,            \* the channel is in the epoll set, its index_ is kAdded
  removed,            \* channel_->remove() was called
  output,             \* outputBuffer_
  shutWrite,          \* socket_->shutdownWrite() was called
  phase,              \* the loop: "poll", "events" or "functors"
  stage,              \* of the dispatch of the channel's events
  revents,            \* the events reported by the last poll()
  pending, functors,  \* the loop's queue and the batch being run
  tpc,                \* where each other thread is
  timer,              \* the timer of forceCloseWithDelay() is set
  unread, peer,       \* data the peer sent, and what it did with its end
  used,               \* messages sent so far
  wire, accepted,     \* history: bytes written; bytes sendInLoop() took on
  ups, downs,         \* history: calls of connectionCallback_
  closed,             \* history: the connection went down
  badClose,           \* history: handleClose() found a closed connection
  reported            \* history: the high water mark was reported

connVars == <<state, reading, chReading, chWriting, watched, removed>>
dataVars == <<output, shutWrite, wire, accepted, reported>>
loopVars == <<phase, stage, revents, functors>>
peerVars == <<unread, peer>>
histVars == <<ups, downs, closed, badClose>>
vars == <<calls, connVars, dataVars, loopVars, pending, tpc, timer, peerVars, used,
          histVars>>

States == {"kConnecting", "kConnected", "kDisconnecting", "kDisconnected"}

Functor(op, m) == [op |-> op, msg |-> m]
Calling(op, m, stored) == [op |-> op, msg |-> m, stored |-> stored]

(* The bytes of a message.                                                  *)
Bytes(m) == [i \in 1..MessageLen |-> m]

(* Counting calls of connectionCallback_ to two tells one from more.        *)
OneMore(n) == IF n < 2 THEN n + 1 ELSE 2

Open == state \in {"kConnected", "kDisconnecting"}

(* The connection is established by a functor that its creator queued.      *)
Init ==
  /\ calls \in CallSets
  /\ state = "kConnecting"
  /\ reading = FALSE /\ chReading = FALSE /\ chWriting = FALSE
  /\ watched = FALSE /\ removed = FALSE
  /\ output = <<>> /\ shutWrite = FALSE
  /\ phase = "functors" /\ stage = "others" /\ revents = {}
  /\ pending = <<>> /\ functors = <<Functor("connectEstablished", None)>>
  /\ tpc = [t \in Threads |-> Calling("idle", None, FALSE)]
  /\ timer = FALSE
  /\ unread = FALSE /\ peer = "open"
  /\ used = {}
  /\ wire = <<>> /\ accepted = <<>>
  /\ ups = 0 /\ downs = 0 /\ closed = FALSE /\ badClose = FALSE
  /\ reported = FALSE

----------------------------------------------------------------------------
(* The methods' second halves, run by the loop thread.                      *)

(* EPollPoller::updateChannel() after the channel's events changed: one     *)
(* that is not in the set is added, also with no events, and one that is    *)
(* in it is deleted when it has none left.                                  *)
UpdateChannel(noneEvent) == watched' = (~watched \/ ~noneEvent)

(* The buffer had old bytes and gets rest more.                             *)
CrossesHighWaterMark(old, rest) ==
  old + rest >= HighWaterMark /\ old < HighWaterMark

(* What was not written directly is appended to the output buffer, the high *)
(* water mark is reported when it is crossed, and writing is enabled.       *)
AppendOutput(rest) ==
  /\ output' = output \o rest
  /\ chWriting' = TRUE
  /\ reported' = (reported \/ CrossesHighWaterMark(Len(output), Len(rest)))

(* Mutant: the part that was written is buffered as well.                   *)
UnwrittenAll(bytes, n) == bytes

(* message.subspan(nwrote, remaining)                                       *)
Unwritten(bytes, n) == SubSeq(bytes, n + 1, Len(bytes))

(* sendInLoop(): with nothing buffered it writes directly, and the socket   *)
(* takes some of the bytes or the write fails; EPIPE and ECONNRESET, which  *)
(* are all that a write returns after shutdownWrite(), drop the message.    *)
SendInLoop(m) ==
  /\ IF state = "kDisconnected"
     THEN UNCHANGED <<output, chWriting, wire, accepted, reported>>
     ELSE IF ~chWriting /\ output = <<>>
     THEN \/ /\ shutWrite \/ peer \in {"reset", "dead"}
             /\ UNCHANGED <<output, chWriting, wire, accepted, reported>>
          \/ /\ ~shutWrite
             /\ accepted' = accepted \o Bytes(m)
             /\ \E n \in 0..MessageLen :
                  /\ wire' = wire \o SubSeq(Bytes(m), 1, n)
                  /\ IF n = MessageLen
                     THEN UNCHANGED <<output, chWriting, reported>>
                     ELSE AppendOutput(Unwritten(Bytes(m), n))
     ELSE /\ accepted' = accepted \o Bytes(m)
          /\ AppendOutput(Bytes(m))
          /\ UNCHANGED wire
  /\ watched' = (watched \/ chWriting')
  /\ UNCHANGED <<state, reading, chReading, removed, shutWrite, histVars, pending,
                 timer>>

(* shutdownInLoop(): not while there is output; handleWrite() will do it.   *)
ShutdownInLoop == shutWrite' = (shutWrite \/ ~chWriting)

(* handleClose(), connectionCallback_ and closeCallback_ included.  The     *)
(* latter is TcpServer's or TcpClient's, see OwnerDestroys.                 *)
HandleClose ==
  /\ badClose' = (badClose \/ ~Open)
  /\ state' = "kDisconnected"
  /\ chReading' = FALSE /\ chWriting' = FALSE /\ UpdateChannel(TRUE)
  /\ downs' = OneMore(downs)
  /\ closed' = TRUE
  /\ UNCHANGED <<reading, removed, dataVars, ups, pending>>

(* forceCloseInLoop(); set says whether the timer is set afterwards.        *)
ForceCloseInLoop(set) ==
  /\ timer' = set
  /\ IF Open THEN HandleClose
             ELSE UNCHANGED <<connVars, dataVars, histVars, pending>>

(* startReadInLoop() and stopReadInLoop(): neither looks at state_.         *)
StartReadInLoop ==
  /\ chReading' = TRUE /\ reading' = TRUE /\ UpdateChannel(FALSE)
  /\ UNCHANGED <<state, chWriting, removed, dataVars, histVars, pending, timer>>

StopReadInLoop ==
  /\ chReading' = FALSE /\ reading' = FALSE
  /\ IF reading \/ chReading THEN UpdateChannel(~chWriting) ELSE UNCHANGED watched
  /\ UNCHANGED <<state, chWriting, removed, dataVars, histVars, pending, timer>>

ConnectEstablished ==
  /\ state' = "kConnected"
  /\ chReading' = TRUE /\ reading' = TRUE /\ UpdateChannel(FALSE)
  /\ ups' = ups + 1
  /\ UNCHANGED <<chWriting, removed, dataVars, downs, closed, badClose, pending,
                 timer>>

(* Mutant: the callback is called for a connection that went down already.  *)
ConnectDestroyedAlwaysCalls ==
  /\ state' = "kDisconnected" /\ chReading' = FALSE /\ chWriting' = FALSE
  /\ downs' = OneMore(downs)
  /\ closed' = TRUE
  /\ removed' = TRUE /\ watched' = FALSE
  /\ UNCHANGED <<reading, dataVars, ups, badClose, pending, timer>>

(* connectDestroyed(): a connection that is still open goes down first.     *)
ConnectDestroyed ==
  /\ IF Open
     THEN /\ state' = "kDisconnected" /\ chReading' = FALSE /\ chWriting' = FALSE
          /\ downs' = OneMore(downs)
          /\ closed' = TRUE
     ELSE UNCHANGED <<state, chReading, chWriting, downs, closed>>
  /\ removed' = TRUE /\ watched' = FALSE
  /\ UNCHANGED <<reading, dataVars, ups, badClose, pending, timer>>

(* shutdown(), forceClose() and forceCloseWithDelay() on the loop thread,   *)
(* where runInLoop() runs its argument at once.                             *)
Shutdown ==
  IF state = "kConnected"
  THEN /\ state' = "kDisconnecting"
       /\ ShutdownInLoop
       /\ UNCHANGED <<reading, chReading, chWriting, watched, removed, output,
                      wire, accepted, reported, histVars, pending, timer>>
  ELSE UNCHANGED <<connVars, dataVars, histVars, pending, timer>>

ForceCloseWithDelay ==
  IF Open
  THEN /\ state' = "kDisconnecting"
       /\ timer' = TRUE
       /\ UNCHANGED <<reading, chReading, chWriting, watched, removed, dataVars,
                      histVars, pending>>
  ELSE UNCHANGED <<connVars, dataVars, histVars, pending, timer>>

----------------------------------------------------------------------------
(* User code on the loop thread: callbacks of this connection, of other     *)
(* channels and timers, and functors, the queued writeCompleteCallback_ and *)
(* highWaterMarkCallback_ among them: they only run user code, and are not  *)
(* kept in the queue.                                                       *)
Send(m) ==
  /\ "send" \in calls.loop
  /\ m \notin used
  /\ used' = used \cup {m}
  /\ IF state = "kConnected"
     THEN SendInLoop(m)
     ELSE UNCHANGED <<connVars, dataVars, histVars, pending, timer>>

UserCode ==
  /\ phase # "poll"
  /\ ups > 0
  /\ Len(pending) < MaxPending
  /\ \/ \E m \in Messages : Send(m)
     \/ UNCHANGED used /\ "shutdown" \in calls.loop /\ Shutdown
     \/ UNCHANGED used /\ "forceClose" \in calls.loop /\ ForceCloseInLoop(timer)
     \/ UNCHANGED used /\ "forceCloseWithDelay" \in calls.loop /\ ForceCloseWithDelay
     \/ UNCHANGED used /\ "startRead" \in calls.loop /\ StartReadInLoop
     \/ UNCHANGED used /\ "stopRead" \in calls.loop /\ StopReadInLoop
  /\ UNCHANGED <<calls, loopVars, tpc, peerVars>>

(* The timer of forceCloseWithDelay(), a callback of the timerfd's channel, *)
(* calls forceClose().                                                      *)
TimerFires ==
  /\ phase = "events" /\ stage \in {"others", "done"}
  /\ timer
  /\ ForceCloseInLoop(FALSE)
  /\ UNCHANGED <<calls, loopVars, tpc, peerVars, used>>

----------------------------------------------------------------------------
(* The loop thread.                                                         *)

(* poll() is level triggered.  A hang-up is reported for every channel in   *)
(* the epoll set, whatever its events.                                      *)
Poll ==
  /\ phase = "poll"
  /\ \E out \in BOOLEAN :
       revents' = {e \in {"IN", "OUT", "HUP"} :
                     \/ e = "IN" /\ chReading /\ (unread \/ peer # "open")
                     \/ e = "OUT" /\ chWriting /\ out
                     \/ e = "HUP" /\ watched
                          /\ (peer \in {"reset", "dead"} \/ (peer = "closed" /\ shutWrite))}
  /\ phase' = "events"
  /\ stage' = "others"
  /\ UNCHANGED <<calls, connVars, dataVars, histVars, pending, functors, tpc, timer,
                 peerVars, used>>

(* Mutant: a hang-up closes also when there is something to read.           *)
HandleHupAlways ==
  /\ phase = "events" /\ stage = "others"
  /\ stage' = "read"
  /\ IF "HUP" \in revents
     THEN HandleClose /\ UNCHANGED timer
     ELSE UNCHANGED <<connVars, dataVars, histVars, pending, timer>>
  /\ UNCHANGED <<calls, phase, revents, functors, tpc, peerVars, used>>

(* The stages of Channel::handleEventWithGuard().                           *)
HandleHup ==
  /\ phase = "events" /\ stage = "others"
  /\ stage' = "read"
  /\ IF "HUP" \in revents /\ "IN" \notin revents
     THEN HandleClose /\ UNCHANGED timer
     ELSE UNCHANGED <<connVars, dataVars, histVars, pending, timer>>
  /\ UNCHANGED <<calls, phase, revents, functors, tpc, peerVars, used>>

(* handleRead(): data goes to messageCallback_, end of file closes, and an  *)
(* error, which a socket reports once after a reset, is only logged.        *)
HandleRead ==
  /\ phase = "events" /\ stage = "read"
  /\ stage' = "write"
  /\ IF "IN" \notin revents
     THEN UNCHANGED <<connVars, dataVars, histVars, pending, timer, peerVars>>
     ELSE \/ /\ unread
             /\ unread' = FALSE
             /\ UNCHANGED <<connVars, dataVars, histVars, pending, timer, peer>>
          \/ /\ ~unread /\ peer \in {"closed", "dead"}
             /\ HandleClose
             /\ UNCHANGED <<timer, peerVars>>
          \/ /\ ~unread /\ peer = "reset"
             /\ peer' = "dead"
             /\ UNCHANGED <<connVars, dataVars, histVars, pending, timer, unread>>
  /\ UNCHANGED <<calls, phase, revents, functors, tpc, used>>

Drained(rest) == rest = <<>>

(* Mutant: a shutdown that had to wait is forgotten.                        *)
ShutForgotten == FALSE

ShutAfterDraining == state = "kDisconnecting"

(* handleWrite(): drain the output buffer; when it is empty stop writing,   *)
(* report it and shut the socket down if that was asked for.                *)
HandleWrite ==
  /\ phase = "events" /\ stage = "write"
  /\ stage' = "done"
  /\ IF "OUT" \notin revents \/ ~chWriting
     THEN UNCHANGED <<connVars, dataVars>>
     ELSE \/ /\ shutWrite \/ peer \in {"reset", "dead"}
             /\ UNCHANGED <<connVars, dataVars>>
          \/ /\ ~shutWrite
             /\ \E n \in 1..Len(output) :
                  LET rest == Unwritten(output, n) IN
                  /\ wire' = wire \o SubSeq(output, 1, n)
                  /\ output' = rest
                  /\ reported' = (reported /\ Len(rest) >= HighWaterMark)
                  /\ IF Drained(rest)
                     THEN /\ chWriting' = FALSE /\ UpdateChannel(~chReading)
                          /\ shutWrite' = ShutAfterDraining
                     ELSE UNCHANGED <<chWriting, watched, shutWrite>>
             /\ UNCHANGED <<state, reading, chReading, removed, accepted>>
  /\ UNCHANGED <<calls, phase, revents, functors, pending, tpc, peerVars, used, histVars,
                 timer>>

(* doPendingFunctors() takes the queue.                                     *)
TakeFunctors ==
  /\ phase = "events" /\ stage = "done"
  /\ phase' = "functors"
  /\ functors' = pending
  /\ pending' = <<>>
  /\ UNCHANGED <<calls, connVars, dataVars, histVars, stage, revents, tpc, timer, peerVars,
                 used>>

RunFunctor ==
  /\ phase = "functors"
  /\ functors # <<>>
  /\ functors' = Tail(functors)
  /\ LET f == Head(functors) IN
       \/ f.op = "connectEstablished" /\ ConnectEstablished
       \/ f.op = "connectDestroyed" /\ ConnectDestroyed
       \/ f.op = "send" /\ SendInLoop(f.msg)
       \/ /\ f.op = "shutdown"
          /\ ShutdownInLoop
          /\ UNCHANGED <<connVars, output, wire, accepted, reported, histVars,
                         pending, timer>>
       \/ f.op = "forceClose" /\ ForceCloseInLoop(timer)
       \/ f.op = "startRead" /\ StartReadInLoop
       \/ f.op = "stopRead" /\ StopReadInLoop
  /\ UNCHANGED <<calls, phase, stage, revents, tpc, peerVars, used>>

FunctorsDone ==
  /\ phase = "functors"
  /\ functors = <<>>
  /\ phase' = "poll"
  /\ UNCHANGED <<calls, connVars, dataVars, histVars, stage, revents, functors, pending,
                 tpc, timer, peerVars, used>>

----------------------------------------------------------------------------
(* Another thread.  A method that depends on state_ reads it in one step    *)
(* and stores it, if it does, in the next; then it queues the functor.      *)
Passes(op) ==
  CASE op \in {"send", "shutdown"} -> state = "kConnected"
    [] op = "forceClose" -> Open
    [] OTHER -> TRUE

ThreadCall(t) ==
  /\ ups > 0
  /\ tpc[t].op = "idle"
  /\ \E op \in calls.thread :
       /\ Passes(op)
       /\ IF op = "send"
          THEN \E m \in Messages \ used :
                 /\ tpc' = [tpc EXCEPT ![t] = Calling(op, m, FALSE)]
                 /\ used' = used \cup {m}
          ELSE /\ tpc' = [tpc EXCEPT ![t] = Calling(op, None, FALSE)]
               /\ UNCHANGED used
  /\ UNCHANGED <<calls, connVars, dataVars, loopVars, pending, timer, peerVars, histVars>>

ThreadStores(t) ==
  /\ tpc[t].op \in {"shutdown", "forceClose"}
  /\ ~tpc[t].stored
  /\ state' = "kDisconnecting"
  /\ tpc' = [tpc EXCEPT ![t].stored = TRUE]
  /\ UNCHANGED <<calls, reading, chReading, chWriting, watched, removed, dataVars, loopVars,
                 pending, timer, peerVars, used, histVars>>

ThreadQueues(t) ==
  /\ tpc[t].op # "idle"
  /\ tpc[t].op \in {"shutdown", "forceClose"} => tpc[t].stored
  /\ Len(pending) < MaxPending
  /\ pending' = Append(pending, Functor(tpc[t].op, tpc[t].msg))
  /\ tpc' = [tpc EXCEPT ![t] = Calling("idle", None, FALSE)]
  /\ UNCHANGED <<calls, connVars, dataVars, loopVars, timer, peerVars, used, histVars>>

(* The owner, TcpServer or TcpClient, queues connectDestroyed() when        *)
(* closeCallback_ told it so, or when it is itself destroyed.               *)
OwnerDestroys ==
  /\ ups > 0
  /\ ~removed
  /\ \A i \in 1..Len(pending) : pending[i].op # "connectDestroyed"
  /\ \A i \in 1..Len(functors) : functors[i].op # "connectDestroyed"
  /\ pending' = Append(pending, Functor("connectDestroyed", None))
  /\ UNCHANGED <<calls, connVars, dataVars, loopVars, tpc, timer, peerVars, used, histVars>>

(* The peer.                                                                *)
PeerSends ==
  /\ peer = "open" /\ ~unread /\ ups > 0
  /\ unread' = TRUE
  /\ UNCHANGED <<calls, connVars, dataVars, loopVars, pending, tpc, timer, peer, used,
                 histVars>>

PeerEnds ==
  /\ ups > 0
  /\ \/ peer = "open" /\ peer' \in {"closed", "reset"}
     \/ peer = "closed" /\ peer' = "reset"
  /\ UNCHANGED <<calls, connVars, dataVars, loopVars, pending, tpc, timer, unread, used,
                 histVars>>

LoopStep ==
  \/ Poll \/ HandleHup \/ HandleRead \/ HandleWrite
  \/ TakeFunctors \/ RunFunctor \/ FunctorsDone

Next ==
  \/ LoopStep \/ UserCode \/ TimerFires
  \/ \E t \in Threads : ThreadCall(t) \/ ThreadStores(t) \/ ThreadQueues(t)
  \/ OwnerDestroys \/ PeerSends \/ PeerEnds

Spec == Init /\ [][Next]_vars

(* The loop keeps running.  A peer that keeps reading lets poll() report a  *)
(* writable socket again and again.                                         *)
Fairness ==
  /\ WF_vars(LoopStep)
  /\ SF_vars(Poll /\ "OUT" \in revents')
  /\ \A t \in Threads : WF_vars(ThreadStores(t)) /\ WF_vars(ThreadQueues(t))

FairSpec == Spec /\ Fairness

----------------------------------------------------------------------------
(* What stands for a byte: the message it is of.                            *)
Content == Messages \cup {None}

TypeOK ==
  /\ state \in States
  /\ reading \in BOOLEAN /\ chReading \in BOOLEAN /\ chWriting \in BOOLEAN
  /\ watched \in BOOLEAN /\ removed \in BOOLEAN /\ shutWrite \in BOOLEAN /\ timer \in BOOLEAN
  /\ output \in Seq(Content) /\ wire \in Seq(Content)
  /\ accepted \in Seq(Content)
  /\ phase \in {"poll", "events", "functors"}
  /\ stage \in {"others", "read", "write", "done"}
  /\ revents \subseteq {"IN", "OUT", "HUP"}
  /\ pending \in Seq([op : Ops, msg : Content])
  /\ functors \in Seq([op : Ops, msg : Content])
  /\ tpc \in [Threads -> [op : Ops, msg : Content, stored : BOOLEAN]]
  /\ unread \in BOOLEAN /\ peer \in {"open", "closed", "reset", "dead"}
  /\ used \subseteq Messages
  /\ ups \in Nat /\ downs \in 0..2
  /\ closed \in BOOLEAN /\ badClose \in BOOLEAN /\ reported \in BOOLEAN

(* The bytes that sendInLoop() took on are, in order and without a gap or a *)
(* repetition, those written to the socket and then those in the buffer.    *)
StreamInOrder == wire \o output = accepted

(* While the connection is up the channel asks for writability exactly when *)
(* there is output: none waits unannounced, and poll() does not spin.       *)
WritingIffOutput == ~closed => (chWriting <=> output # <<>>)

(* The socket is shut down for writing only after the output was written.   *)
ShutdownAfterOutput == shutWrite /\ ~closed => output = <<>>

(* When the buffer is at or over the high water mark, the callback was      *)
(* queued since it was last below.                                          *)
HighWaterMarkReported == Len(output) >= HighWaterMark => reported

(* The output of sendInLoop() and handleWrite() is sound: in order, watched, *)
(* out before the shutdown, and reported when it passes the mark; whatever  *)
(* is called on either thread.                                              *)
OutputSound ==
  /\ StreamInOrder
  /\ WritingIffOutput
  /\ ShutdownAfterOutput
  /\ HighWaterMarkReported

(* A user who sends from anywhere, shuts down on the loop thread, and never *)
(* forces a close or stops reading.                                         *)
PlainUse == calls.loop \subseteq {"send", "shutdown"} /\ calls.thread \subseteq {"send"}

(* connectionCallback_ tells the user once that the connection is up and    *)
(* once that it is down, also if TcpServer destroys it meanwhile; in plain  *)
(* use.                                                                     *)
CallbacksPaired ==
  PlainUse => ups <= 1 /\ downs = (IF closed THEN 1 ELSE 0) /\ (removed => downs = 1)

(* assert(state_ == kConnected || state_ == kDisconnecting) in              *)
(* handleClose().                                                           *)
CloseAssertHolds == ~badClose

(* assert(isNoneEvent()) in Channel::remove(), and assert(state_ ==         *)
(* kDisconnected) in the destructor, which may run once connectDestroyed()  *)
(* returned.                                                                *)
DestructorAssertHolds == removed => ~chReading /\ ~chWriting /\ state = "kDisconnected"

(* However the peer, the owner and the user end the connection, the asserts *)
(* on its way down hold, in plain use.                                      *)
LifeCycleAssertsHold == PlainUse => CloseAssertHolds /\ DestructorAssertHolds

(* A shutdown() that took effect shuts the socket down once the output is   *)
(* out, unless the connection goes down before; in plain use.               *)
ShutdownCompletes == PlainUse /\ state = "kDisconnecting" ~> shutWrite \/ closed

=============================================================================
