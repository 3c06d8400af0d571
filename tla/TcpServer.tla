------------------------------ MODULE TcpServer ------------------------------
(***************************************************************************)
(* muduo::net::TcpServer with its Acceptor and its EventLoopThreadPool.     *)
(* Loop 0 is the base loop, the others are the loops of the pool; a loop is *)
(* the serial executor of module SerialExecutor, a queue of functors run in *)
(* order, with the events of its connections in between.  Descriptors are   *)
(* limited, and other parts of the program open and close some.  Using the  *)
(* server after its destructor is undefined: the model records it and stops. *)
(***************************************************************************)
EXTENDS Integers, Sequences, SequencesExt, FiniteSetsExt

CONSTANTS
  Ids,         \* clients, each connects at most once
  MaxThreads,  \* largest argument of setThreadNum()
  FdLimit,     \* descriptors for idleFd_, connections and others
  MaxOthers    \* bound: descriptors that other parts hold

ASSUME ServerAssumption ==
  IsFiniteSet(Ids) /\ MaxThreads \in Nat /\ FdLimit \in Nat \ {0} /\ MaxOthers \in Nat

Loops == 0..MaxThreads

VARIABLES
  server,        \* "alive" or "dead"
  started,       \* started_, counted to two
  numThreads,    \* numThreads_ of the pool, the size of its loops_
  next,          \* next_ of the pool
  connections,   \* the keys of connections_
  state, loopOf, \* state_ and loop_ of each connection
  queue,         \* the functors queued in each loop
  stopped,       \* the loops of the pool that quit
  backlog,       \* clients waiting in the listening socket's queue
  idle,          \* idleFd_: "held", "lost", or "closed" inside handleRead()
  others,        \* descriptors that other parts hold
  asserts,       \* history: the asserts held
  misuse         \* history: the server was used after its destructor

poolVars == <<numThreads, next>>
connVars == <<connections, state, loopOf>>
fdVars == <<backlog, idle, others>>
vars == <<server, started, poolVars, connVars, queue, stopped, fdVars, asserts, misuse>>

Held == {"kConnecting", "kConnected", "kDisconnected"}
FreeFds ==
  FdLimit - others - Cardinality({i \in Ids : state[i] \in Held})
    - (IF idle = "held" THEN 1 ELSE 0)

Functor(op, i) == [op |-> op, conn |-> i]

Init ==
  /\ server = "alive" /\ started = 0
  /\ numThreads \in 0..MaxThreads /\ next = 0
  /\ connections = {}
  /\ state = [i \in Ids |-> "none"] /\ loopOf = [i \in Ids |-> 0]
  /\ queue = [l \in Loops |-> <<>>] /\ stopped = {}
  /\ backlog = <<>> /\ idle = "held" /\ others = 0
  /\ asserts = TRUE /\ misuse = FALSE

(* The base loop's thread is free to run something, and loop l's is.        *)
BaseFree == idle # "closed"
Free(l) == l \notin stopped /\ (l = 0 => BaseFree)

----------------------------------------------------------------------------
(* start() counts its calls; the first one starts the pool's threads, whose *)
(* loops are ready when startLoop() returned, and listens.                  *)
Start ==
  /\ server = "alive" /\ BaseFree /\ started < 2
  /\ started' = started + 1
  /\ UNCHANGED <<server, poolVars, connVars, queue, stopped, fdVars, asserts, misuse>>

listening == server = "alive" /\ started > 0

NextIndex(n) == IF n + 1 >= numThreads THEN 0 ELSE n + 1

(* getNextLoop(): the loops of the pool in turn, or else the base loop.     *)
GetNextLoop == IF numThreads = 0 THEN 0 ELSE next + 1

Listed(i) == connections \cup {i}

(* newConnection(): connectEstablished() runs at once on the base loop, and *)
(* is queued in a loop of the pool.                                         *)
NewConnection(i) ==
  /\ next' = IF numThreads = 0 THEN next ELSE NextIndex(next)
  /\ loopOf' = [loopOf EXCEPT ![i] = GetNextLoop]
  /\ connections' = Listed(i)
  /\ state' = [state EXCEPT ![i] = IF GetNextLoop = 0 THEN "kConnected" ELSE "kConnecting"]
  /\ queue' = IF GetNextLoop = 0 THEN queue
              ELSE [queue EXCEPT ![GetNextLoop] = Append(@, Functor("established", i))]

(* Mutant: out of descriptors nothing is done.                              *)
OutOfDescriptorsIgnored ==
  UNCHANGED <<idle, poolVars, connVars, queue, backlog>>

(* accept() fails with EMFILE: the idle descriptor is given up.             *)
OutOfDescriptors ==
  /\ idle' = "closed"
  /\ UNCHANGED <<poolVars, connVars, queue, backlog>>

(* Acceptor::handleRead().                                                  *)
HandleRead ==
  /\ listening /\ BaseFree
  /\ backlog # <<>>
  /\ IF FreeFds > 0
     THEN /\ NewConnection(Head(backlog))
          /\ backlog' = Tail(backlog)
          /\ UNCHANGED <<numThreads, idle>>
     ELSE OutOfDescriptors
  /\ UNCHANGED <<server, started, stopped, others, asserts, misuse>>

(* Its second half: the waiting client is accepted into the free place and  *)
(* closed, and the idle descriptor opened again, unless another part of the *)
(* program took the place meanwhile; then both fail.                        *)
DropClient ==
  /\ idle = "closed"
  /\ IF FreeFds > 0
     THEN /\ idle' = "held"
          /\ state' = [state EXCEPT ![Head(backlog)] = "dropped"]
          /\ backlog' = Tail(backlog)
     ELSE /\ idle' = "lost"
          /\ UNCHANGED <<state, backlog>>
  /\ UNCHANGED <<server, started, poolVars, connections, loopOf, queue, stopped, others,
                 asserts, misuse>>

(* removeConnectionInLoop(i), with assert(erased == 1), given the queues    *)
(* as they are without the functor that runs it.                            *)
RemoveConnectionInLoop(i, queues) ==
  /\ connections' = connections \ {i}
  /\ asserts' = (asserts /\ i \in connections)
  /\ queue' = [queues EXCEPT ![loopOf[i]] = Append(@, Functor("destroy", i))]

(* removeConnection(), the closeCallback_, on the connection's own loop.    *)
RemoveConnection(i) ==
  IF loopOf[i] = 0
  THEN RemoveConnectionInLoop(i, queue)
  ELSE /\ queue' = [queue EXCEPT ![0] = Append(@, Functor("remove", i))]
       /\ UNCHANGED <<connections, asserts>>

(* handleClose() of a connection: its peer closed it, or user code did.     *)
HandleClose(i) ==
  /\ state[i] = "kConnected" /\ Free(loopOf[i])
  /\ IF server = "alive"
     THEN /\ state' = [state EXCEPT ![i] = "kDisconnected"]
          /\ RemoveConnection(i)
          /\ UNCHANGED misuse
     ELSE misuse' = TRUE /\ UNCHANGED <<state, connections, queue, asserts>>
  /\ UNCHANGED <<server, started, poolVars, loopOf, stopped, fdVars>>

(* Mutant: connectDestroyed() is forgotten.                                 *)
DestroyForgotten(i) == state[i]

(* connectDestroyed(): a connection that was up goes down first.            *)
Destroy(i) == "destroyed"

RunFunctor(l) ==
  /\ Free(l)
  /\ queue[l] # <<>>
  /\ LET f == Head(queue[l])
         rest == [queue EXCEPT ![l] = Tail(@)]
     IN  \/ /\ f.op = "established"
            /\ state' = [state EXCEPT ![f.conn] = "kConnected"]
            /\ asserts' = (asserts /\ state[f.conn] = "kConnecting")
            /\ queue' = rest
            /\ UNCHANGED <<connections, misuse>>
         \/ /\ f.op = "remove" /\ server = "alive"
            /\ RemoveConnectionInLoop(f.conn, rest)
            /\ UNCHANGED <<state, misuse>>
         \/ /\ f.op = "remove" /\ server = "dead"
            /\ misuse' = TRUE
            /\ UNCHANGED <<state, connections, asserts, queue>>
         \/ /\ f.op = "destroy"
            /\ state' = [state EXCEPT ![f.conn] = Destroy(f.conn)]
            /\ queue' = rest
            /\ UNCHANGED <<connections, asserts, misuse>>
  /\ UNCHANGED <<server, started, poolVars, loopOf, stopped, fdVars>>

(* Mutant: connections of other loops are destroyed from here, too.         *)
AllAtOnce == connections

DestroyedAtOnce == {i \in connections : loopOf[i] = 0}

(* ~TcpServer() on the base loop: connectDestroyed() of every connection    *)
(* runs at once or is queued in its loop; the acceptor goes with its        *)
(* descriptor, and the pool makes its loops quit.                           *)
DestroyServer ==
  /\ server = "alive" /\ BaseFree
  /\ server' = "dead"
  /\ state' = [i \in Ids |-> IF i \in DestroyedAtOnce THEN Destroy(i) ELSE state[i]]
  /\ queue' = [l \in Loops |->
       LET later == SetToSeq({i \in connections \ DestroyedAtOnce : loopOf[i] = l})
       IN  queue[l] \o [k \in DOMAIN later |-> Functor("destroy", later[k])]]
  /\ connections' = {}
  /\ idle' = "lost" /\ backlog' = <<>>
  /\ UNCHANGED <<started, poolVars, loopOf, stopped, others, asserts, misuse>>

(* A loop of the pool that was told to quit may leave functors behind.      *)
LoopQuits(l) ==
  /\ server = "dead" /\ started > 0
  /\ l \in 1..numThreads \ stopped
  /\ stopped' = stopped \cup {l}
  /\ UNCHANGED <<server, started, poolVars, connVars, queue, fdVars, asserts, misuse>>

----------------------------------------------------------------------------
ClientConnects(i) ==
  /\ listening
  /\ state[i] = "none"
  /\ state' = [state EXCEPT ![i] = "waiting"]
  /\ backlog' = Append(backlog, i)
  /\ UNCHANGED <<server, started, poolVars, connections, loopOf, queue, stopped, idle,
                 others, asserts, misuse>>

OthersOpen ==
  /\ others < MaxOthers /\ FreeFds > 0
  /\ others' = others + 1
  /\ UNCHANGED <<server, started, poolVars, connVars, queue, stopped, backlog, idle,
                 asserts, misuse>>

OthersClose ==
  /\ others > 0
  /\ others' = others - 1
  /\ UNCHANGED <<server, started, poolVars, connVars, queue, stopped, backlog, idle,
                 asserts, misuse>>

Next ==
  /\ ~misuse
  /\ \/ Start \/ HandleRead \/ DropClient \/ DestroyServer
     \/ \E i \in Ids : ClientConnects(i) \/ HandleClose(i)
     \/ \E l \in Loops : RunFunctor(l) \/ LoopQuits(l)
     \/ OthersOpen \/ OthersClose

Spec == Init /\ [][Next]_vars

(* A loop that did not quit keeps running, and in every iteration it first  *)
(* handles the events and then the queued functors.                         *)
Fairness ==
  /\ WF_vars(~misuse /\ (HandleRead \/ DropClient))
  /\ \A l \in Loops : SF_vars(~misuse /\ RunFunctor(l))

FairSpec == Spec /\ Fairness

----------------------------------------------------------------------------
(* The asserts of removeConnectionInLoop() and connectEstablished(): each   *)
(* connection is erased once, and established before anything else happens  *)
(* to it.                                                                   *)
ServerAssertsHold == asserts

(* connections_ holds the connections that are up or to be established, and *)
(* those whose removal is on its way to the base loop: none is forgotten,   *)
(* and none is removed early.                                               *)
MapMatchesConnections ==
  server = "alive" =>
    connections = {i \in Ids : \/ state[i] \in {"kConnecting", "kConnected"}
                               \/ Functor("remove", i) \in ToSet(queue[0])}

(* Connections are dealt to the pool's loops evenly.                        *)
LoopsShareConnections ==
  LET load(l) == Cardinality({i \in Ids : state[i] \notin {"none", "waiting", "dropped"}
                                          /\ loopOf[i] = l})
  IN  \A l, m \in 1..numThreads : load(l) <= load(m) + 1

(* Without a pool everything happens on one thread, and the destructor      *)
(* leaves nothing behind that would use the server.                         *)
OneLoopServerIsSafe == numThreads = 0 => ~misuse

(* A client is served or turned away, also when there are no descriptors,   *)
(* while the idle descriptor is held and the server lives.                  *)
ClientsAreAnswered ==
  \A i \in Ids : state[i] = "waiting" ~> state[i] # "waiting" \/ idle = "lost"

(* A connection that went down is destroyed on its own loop.                *)
ClosedIsDestroyed ==
  \A i \in Ids : state[i] = "kDisconnected" ~> state[i] = "destroyed" \/ server = "dead"

(* The connections have the life that module ConnectionLifecycle describes. *)
Life == [i \in Ids |->
  CASE state[i] \in {"none", "waiting"} -> "none"
    [] state[i] = "kConnecting" -> "made"
    [] state[i] = "kConnected" -> "up"
    [] state[i] = "kDisconnected" -> "down"
    [] OTHER -> "gone"]

Abstract == INSTANCE ConnectionLifecycle WITH life <- Life
ImplementsLifecycle == Abstract!Spec

=============================================================================
