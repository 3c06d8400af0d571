------------------------------ MODULE TcpClient ------------------------------
(***************************************************************************)
(* muduo::net::TcpClient with its Connector and its connections, in one     *)
(* event loop.  User code calls it on the loop's thread, from callbacks and *)
(* functors, and on one other thread.  Where the loop's thread decides on a *)
(* flag that the other thread may be storing, the decision and what follows *)
(* from it are two steps.  Using the client after its destructor is         *)
(* undefined: the model records it and stops there.  The delays of the      *)
(* timers are taken to be longer than an iteration of the loop, so that the *)
(* functors queued when one was set have run when it fires.                 *)
(***************************************************************************)
EXTENDS Connector, Sequences

CONSTANTS
  LoopCalls,    \* what user code on the loop's thread calls
  ThreadCalls,  \* what the other thread calls
  CloseAtOnce,  \* TRUE if user code on the loop's thread may force a connection
                \* closed in the iteration that established it
  MaxConns,     \* bound: connections made
  MaxPending    \* bound: length of the queue of functors

Calls == {"connect", "stop", "disconnect", "forceClose", "destroy"}

ASSUME ClientAssumption ==
  /\ MaxConns \in Nat /\ MaxPending \in Nat
  /\ LoopCalls \subseteq Calls
  /\ ThreadCalls \subseteq Calls \ {"forceClose"}
  /\ CloseAtOnce \in BOOLEAN

VARIABLES
  connect, retry,     \* connect_, retry_
  connection,         \* connection_, 0 when it is null
  client,             \* "alive", or the thread that destroyed it
  conns,              \* the connections made: their state and closeCallback_
  release,            \* the timer that keeps the connector alive is set
  phase, ready,       \* the loop: its phase, and what poll() reported
  step,               \* what the loop's thread goes on with
  pending, functors,  \* the loop's queue and the batch being run
  dtor, copied,       \* ~TcpClient() on the other thread: its steps, its conn
  stopper,            \* history: who called stop() since connect()
  misuse              \* history: a destroyed client or connector was used

clientVars == <<connect, retry, connection, client, conns, release>>
loopVars == <<phase, ready, functors>>
dtorVars == <<dtor, copied>>
vars == <<connector, clientVars, loopVars, step, pending, dtorVars, stopper, misuse>>

ConnIds == 1..MaxConns
Open(i) == conns[i].state \in {"kConnected", "kDisconnecting"}
Functor(op, i) == [op |-> op, conn |-> i]

Queued(op) == \E f \in Range(pending \o functors) : f.op = op

(* The connector is shared by the client, the timer that the destructor     *)
(* sets and the functors that reset its channel.                            *)
ConnectorAlive == client = "alive" \/ release \/ Queued("resetChannel")

(* Where user code runs on the loop's thread.                               *)
InUserCode == phase # "poll" /\ step = "none"

Init ==
  /\ connector = NewConnector
  /\ connect = TRUE /\ retry \in BOOLEAN
  /\ connection = 0 /\ client = "alive"
  /\ conns = [i \in ConnIds |-> [state |-> "none", cb |-> "client"]]
  /\ release = FALSE
  /\ phase = "functors" /\ ready = {} /\ step = "none"
  /\ pending = <<>> /\ functors = <<>>
  /\ dtor = "none" /\ copied = 0
  /\ stopper = "never" /\ misuse = FALSE

----------------------------------------------------------------------------
(* The calls.                                                               *)

(* connect() asserts that the connector is idle; user code sees to that: it *)
(* calls it first, and again only when a stop() has taken effect.           *)
MayConnect ==
  /\ connector.state = "kDisconnected" /\ connector.channel = "none"
  /\ connector.timers = 0
  /\ step = "none" /\ connection = 0
  /\ ~Queued("startInLoop") /\ ~Queued("stopInLoop")

ConnectCall(onLoop) ==
  /\ MayConnect
  /\ connect' = TRUE
  /\ stopper' = "none"
  /\ LET c == [connector EXCEPT !.connect = TRUE] IN
       IF onLoop
       THEN /\ \E o \in Outcomes : connector' = StartInLoop(c, o)
            /\ UNCHANGED pending
       ELSE /\ connector' = c
            /\ pending' = Append(pending, Functor("startInLoop", 0))
  /\ UNCHANGED <<retry, connection, client, conns, release>>

(* stop(): the connector's stop() always queues.                            *)
StopCall(who) ==
  /\ connect' = FALSE
  /\ connector' = [connector EXCEPT !.connect = FALSE]
  /\ pending' = Append(pending, Functor("stopInLoop", 0))
  /\ stopper' = who
  /\ UNCHANGED <<retry, connection, client, conns, release>>

DisconnectCall ==
  /\ connect' = FALSE
  /\ conns' = IF connection # 0 /\ conns[connection].state = "kConnected"
              THEN [conns EXCEPT ![connection].state = "kDisconnecting"] ELSE conns
  /\ UNCHANGED <<connector, retry, connection, client, release, pending, stopper>>

(* Mutant: a connection attempt is left to itself.                          *)
DestroyOnLoopKeepsConnector ==
  /\ client' = "loop"
  /\ conns' = IF connection = 0 THEN conns
              ELSE [conns EXCEPT ![connection] = [state |-> "destroyed", cb |-> "none"]]
  /\ connector' = [connector EXCEPT !.sockets = IF connection = 0 THEN @ ELSE @ - 1]
  /\ release' = (connection = 0)
  /\ stopper' = "loop"
  /\ UNCHANGED <<connect, retry, connection, pending>>

(* ~TcpClient() on the loop's thread: stop() of the connector, then the     *)
(* connection is destroyed at once, or the connector is kept for a second.  *)
DestroyOnLoop ==
  /\ client' = "loop"
  /\ conns' = IF connection = 0 THEN conns
              ELSE [conns EXCEPT ![connection] = [state |-> "destroyed", cb |-> "none"]]
  /\ connector' = [connector EXCEPT !.connect = FALSE,
                                    !.sockets = IF connection = 0 THEN @ ELSE @ - 1]
  /\ release' = (connection = 0)
  /\ pending' = Append(pending, Functor("stopInLoop", 0))
  /\ stopper' = "loop"
  /\ UNCHANGED <<connect, retry, connection>>

(* Mutant: a new connection is asked for whatever connect_ says.            *)
AfterRemoval == "restart"

(* What removeConnection() goes on with.                                    *)
NextAttempt == IF retry /\ connect THEN "restart" ELSE "none"

(* handleClose() of a connection, with its closeCallback_: removeConnection *)
(* of the client, with assert(connection_ == conn) and connectDestroyed()   *)
(* run at once, or detail::removeConnection.                                *)
HandleClose(i) ==
  LET gone == [conns EXCEPT ![i].state = "destroyed"]
      free == [connector EXCEPT !.sockets = @ - 1]
  IN  \/ /\ conns[i].cb = "client" /\ client = "alive"
         /\ conns' = gone
         /\ connector' = [free EXCEPT !.asserts = @ /\ connection = i]
         /\ connection' = 0
         /\ step' = NextAttempt
         /\ UNCHANGED <<connect, retry, client, release, misuse>>
      \/ /\ conns[i].cb = "client" /\ client # "alive"
         /\ misuse' = TRUE
         /\ UNCHANGED <<connector, clientVars, step>>
      \/ /\ conns[i].cb = "detail"
         /\ conns' = gone
         /\ connector' = free
         /\ UNCHANGED <<connect, retry, connection, client, release, step, misuse>>

UserCode ==
  /\ InUserCode
  /\ client = "alive" /\ dtor = "none"
  /\ Len(pending) < MaxPending
  /\ \/ "connect" \in LoopCalls /\ ConnectCall(TRUE) /\ UNCHANGED <<step, misuse>>
     \/ "stop" \in LoopCalls /\ StopCall("loop") /\ UNCHANGED <<step, misuse>>
     \/ "disconnect" \in LoopCalls /\ DisconnectCall /\ UNCHANGED <<step, misuse>>
     \/ "destroy" \in LoopCalls /\ DestroyOnLoop /\ UNCHANGED <<step, misuse>>
     \/ /\ "forceClose" \in LoopCalls
        /\ connection # 0 /\ Open(connection)
        /\ CloseAtOnce \/ ~Queued("resetChannel")
        /\ HandleClose(connection)
        /\ UNCHANGED <<pending, stopper>>
  /\ UNCHANGED <<loopVars, dtorVars>>

----------------------------------------------------------------------------
(* The other thread.                                                        *)

ThreadCall ==
  /\ client = "alive" /\ dtor = "none"
  /\ Len(pending) < MaxPending
  /\ \/ "connect" \in ThreadCalls /\ ConnectCall(FALSE)
     \/ "stop" \in ThreadCalls /\ StopCall("thread")
     \/ "disconnect" \in ThreadCalls /\ DisconnectCall
  /\ UNCHANGED <<loopVars, step, dtorVars, misuse>>

(* ~TcpClient() on the other thread, step by step: the connector's stop(),  *)
(* the copy of connection_ under the lock, and the rest.                    *)
ThreadDestroys ==
  /\ "destroy" \in ThreadCalls
  /\ client = "alive" /\ dtor = "none"
  /\ Len(pending) < MaxPending
  /\ dtor' = "stopped"
  /\ connector' = [connector EXCEPT !.connect = FALSE]
  /\ pending' = Append(pending, Functor("stopInLoop", 0))
  /\ stopper' = "thread"
  /\ UNCHANGED <<clientVars, loopVars, step, copied, misuse>>

ThreadCopies ==
  /\ dtor = "stopped"
  /\ dtor' = "copied"
  /\ copied' = connection
  /\ UNCHANGED <<connector, clientVars, loopVars, step, pending, stopper, misuse>>

(* forceClose() of an open connection, behind the functor that replaces its *)
(* closeCallback_.  The members go last; if that destroys the connector     *)
(* here, a channel in the poller is destroyed without being removed.        *)
ThreadFinishes ==
  /\ dtor = "copied"
  /\ dtor' = "done"
  /\ client' = "thread"
  /\ IF copied # 0
     THEN /\ pending' = pending \o <<Functor("setCloseCallback", copied)>> \o
                          (IF Open(copied) THEN <<Functor("forceClose", copied)>> ELSE <<>>)
          /\ conns' = IF Open(copied)
                      THEN [conns EXCEPT ![copied].state = "kDisconnecting"] ELSE conns
          /\ misuse' = (~Queued("resetChannel") /\ connector.channel = "live")
          /\ UNCHANGED release
     ELSE /\ release' = TRUE
          /\ UNCHANGED <<pending, conns, misuse>>
  /\ UNCHANGED <<connector, connect, retry, connection, loopVars, step, copied, stopper>>

----------------------------------------------------------------------------
(* The loop's thread.                                                       *)

(* poll() reports some of what happened: the result of an attempt, and the  *)
(* end of connections.                                                      *)
Poll ==
  /\ phase = "poll"
  /\ phase' = "events"
  /\ ready' \in SUBSET ({i \in ConnIds : Open(i)} \cup
                        {0 : x \in {"live"} \cap {connector.channel}})
  /\ UNCHANGED <<connector, clientVars, functors, step, pending, dtorVars, stopper,
                 misuse>>

(* The write or error event of the connector's channel, 0 in ready.         *)
AttemptEnds(succeeds) ==
  /\ phase = "events" /\ step = "none"
  /\ 0 \in ready
  /\ connector.channel = "live" /\ connector.state = "kConnecting"
  /\ ready' = ready \ {0}
  /\ pending' = Append(pending, Functor("resetChannel", 0))
  /\ IF succeeds
     THEN /\ connector.connect => \E i \in ConnIds : conns[i].state = "none"
          /\ connector' = AttemptSucceeds(connector)
          /\ step' = IF connector.connect THEN "newConnection" ELSE "none"
     ELSE connector' = AttemptFails(connector) /\ UNCHANGED step
  /\ UNCHANGED <<clientVars, phase, functors, dtorVars, stopper, misuse>>

(* newConnectionCallback_: newConnection() of the client, which ends with   *)
(* connectEstablished() and so with the user's callback: what that does to  *)
(* the client is a step of UserCode right behind.                           *)
NewConnection ==
  /\ step = "newConnection"
  /\ LET i == Min({j \in ConnIds : conns[j].state = "none"}) IN
     \/ /\ client # "alive"
        /\ misuse' = TRUE
        /\ UNCHANGED <<connector, clientVars, step, pending, stopper>>
     \/ /\ client = "alive"
        /\ step' = "none"
        /\ conns' = [conns EXCEPT ![i].state = "kConnected"]
        /\ connection' = i
        /\ UNCHANGED <<connector, connect, retry, client, release, pending, stopper,
                       misuse>>
  /\ UNCHANGED <<loopVars, dtorVars>>

(* removeConnection() goes on with the connector's restart().               *)
RestartConnector ==
  /\ step = "restart"
  /\ IF client = "alive"
     THEN /\ step' = "none"
          /\ \E o \in Outcomes : connector' = Restart(connector, o)
          /\ UNCHANGED misuse
     ELSE misuse' = TRUE /\ UNCHANGED <<connector, step>>
  /\ UNCHANGED <<clientVars, loopVars, pending, dtorVars, stopper>>

(* The peer closed: a connection's own event.                               *)
ConnectionEnds(i) ==
  /\ phase = "events" /\ step = "none"
  /\ i \in ready
  /\ ready' = ready \ {i}
  /\ IF Open(i) THEN HandleClose(i)
                ELSE UNCHANGED <<connector, clientVars, step, misuse>>
  /\ UNCHANGED <<phase, functors, pending, dtorVars, stopper>>

(* startInLoop() half a second or more after the attempt before.            *)
RetryTimer ==
  /\ phase = "events" /\ step = "none"
  /\ connector.timers > 0 /\ ~Queued("resetChannel")
  /\ LET c == [connector EXCEPT !.timers = @ - 1] IN
       IF ConnectorAlive
       THEN \E o \in Outcomes : connector' = StartInLoop(c, o)
       ELSE connector' = c
  /\ UNCHANGED <<clientVars, loopVars, step, pending, dtorVars, stopper, misuse>>

(* detail::removeConnector(), and with it the destructor of the connector   *)
(* unless a functor still holds it; stopInLoop() has run before.            *)
ReleaseTimer ==
  /\ phase = "events" /\ step = "none"
  /\ release /\ ~Queued("stopInLoop")
  /\ release' = FALSE
  /\ connector' = IF Queued("resetChannel") THEN connector ELSE Destroyed(connector)
  /\ UNCHANGED <<connect, retry, connection, client, conns, loopVars, step, pending,
                 dtorVars, stopper, misuse>>

TakeFunctors ==
  /\ phase = "events" /\ step = "none"
  /\ ready \subseteq {0} /\ (ready # {} => connector.channel # "live")
  /\ phase' = "functors" /\ ready' = {}
  /\ functors' = pending
  /\ pending' = <<>>
  /\ UNCHANGED <<connector, clientVars, step, dtorVars, stopper, misuse>>

RunFunctor ==
  /\ phase = "functors" /\ step = "none"
  /\ functors # <<>>
  /\ functors' = Tail(functors)
  /\ LET f == Head(functors) IN
     \/ /\ f.op = "startInLoop"
        /\ IF ConnectorAlive
           THEN \E o \in Outcomes : connector' = StartInLoop(connector, o)
           ELSE UNCHANGED connector
        /\ UNCHANGED <<clientVars, step, pending, misuse>>
     \/ /\ f.op = "stopInLoop"
        /\ IF ConnectorAlive
           THEN /\ connector' = StopInLoop(connector)
                /\ pending' = IF connector.state = "kConnecting"
                              THEN Append(pending, Functor("resetChannel", 0)) ELSE pending
           ELSE UNCHANGED <<connector, pending>>
        /\ UNCHANGED <<clientVars, step, misuse>>
     \/ /\ f.op = "resetChannel"
        /\ connector' = ResetChannel(connector)
        /\ UNCHANGED <<clientVars, step, pending, misuse>>
     \/ /\ f.op = "setCloseCallback"
        /\ conns' = [conns EXCEPT ![f.conn].cb = "detail"]
        /\ UNCHANGED <<connector, connect, retry, connection, client, release, step,
                       pending, misuse>>
     \/ /\ f.op = "forceClose"
        /\ IF Open(f.conn) THEN HandleClose(f.conn)
                           ELSE UNCHANGED <<connector, clientVars, step, misuse>>
        /\ UNCHANGED pending
  /\ UNCHANGED <<phase, ready, dtorVars, stopper>>

FunctorsDone ==
  /\ phase = "functors" /\ step = "none"
  /\ functors = <<>>
  /\ phase' = "poll"
  /\ UNCHANGED <<connector, clientVars, ready, functors, step, pending, dtorVars,
                 stopper, misuse>>

LoopStep ==
  /\ ~misuse
  /\ \/ Poll \/ AttemptEnds(FALSE) \/ NewConnection \/ RestartConnector
     \/ \E i \in ConnIds : ConnectionEnds(i)
     \/ TakeFunctors \/ RunFunctor \/ FunctorsDone

TimerStep == ~misuse /\ (RetryTimer \/ ReleaseTimer)
Accepted == ~misuse /\ AttemptEnds(TRUE)
DtorStep == ~misuse /\ (ThreadCopies \/ ThreadFinishes)

Next ==
  \/ LoopStep \/ TimerStep \/ Accepted \/ DtorStep
  \/ ~misuse /\ (UserCode \/ ThreadCall \/ ThreadDestroys)

Spec == Init /\ [][Next]_vars

(* The loop keeps running and fires its timers, an attempt gets its result, *)
(* and a server that is tried again and again accepts in the end.           *)
Fairness ==
  /\ WF_vars(LoopStep)
  /\ SF_vars(Poll /\ ~misuse /\ 0 \in ready')
  /\ SF_vars(TimerStep)
  /\ SF_vars(Accepted)
  /\ WF_vars(DtorStep)

FairSpec == Spec /\ Fairness

----------------------------------------------------------------------------
OpenConns == {i \in ConnIds : Open(i)}
Trying == connector.timers > 0 \/ connector.channel = "live" \/ Queued("startInLoop")

(* A client that was destroyed on its loop's thread, at any point of an     *)
(* attempt or of a connection, is not used again by the callbacks that      *)
(* captured it, nor is its connector destroyed with a channel in the poller. *)
LoopDestructionIsSafe == client = "loop" => ~misuse

(* The asserts of startInLoop(), connecting() and removeConnection(), and   *)
(* that of ~Channel(), hold: an attempt starts when the one before it is    *)
(* over.  The delay before the next stays within its cap.                   *)
ConnectorSound ==
  connector.asserts /\ connector.delay \in InitRetryDelay..MaxRetryDelay

(* connection_ is the one open connection, and while there is one, or an    *)
(* attempt, no other attempt is made or scheduled; theirs are the only open *)
(* descriptors, so that none is leaked or closed twice.  (A client that is  *)
(* destroyed on another thread can leave an attempt behind.)                *)
OneAtATime ==
  client # "thread" =>
    /\ client = "alive" => OpenConns = {connection} \ {0}
    /\ Cardinality(OpenConns) + connector.timers
         + (IF connector.channel = "live" THEN 1 ELSE 0) <= 1
    /\ connector.sockets =
         Cardinality(OpenConns)
           + (IF connector.channel = "live" \/ step = "newConnection" THEN 1 ELSE 0)

(* Attempts go on until one succeeds, unless the user stops them or         *)
(* connect(2) fails for good.                                               *)
ConnectsInTheEnd ==
  Trying /\ stopper = "none" ~>
    \/ connection # 0 \/ stopper # "none" \/ misuse
    \/ connector.gaveUp \/ \A i \in ConnIds : conns[i].state # "none"

(* After stop(), or the destructor, on the loop's thread no attempt is      *)
(* started, by a retry timer or by the loss of a connection, until the next *)
(* connect().                                                               *)
NoAttemptAfterStop ==
  [][stopper = "loop" /\ stopper' = "loop" => connector'.sockets <= connector.sockets]_vars

(* That, and the connector comes to rest without channel or timer.          *)
StopIsFinal ==
  /\ NoAttemptAfterStop
  /\ stopper = "loop" ~> \/ connector.channel = "none" /\ connector.timers = 0
                         \/ stopper # "loop" \/ misuse

=============================================================================
