--------------------------- MODULE TcpClientProofs ---------------------------
(***************************************************************************)
(* Proofs about TcpClient and its Connector, for any delays, any calls and  *)
(* any number of connections, while user code does not force a connection   *)
(* closed in the iteration that established it: the asserts hold, there is  *)
(* one attempt or connection at a time, a client may be destroyed on its    *)
(* loop's thread at any point, and stop() there is final.                   *)
(***************************************************************************)
EXTENDS TcpClient, FiniteSetTheorems, SequenceTheorems, WellFoundedInduction, TLAPS

(* Whether functor op is in the queue s, and that it is there once.         *)
HasOp(s, op) == \E i \in 1..Len(s) : s[i].op = op
Lone(s, op) == \A i, j \in 1..Len(s) : s[i].op = op /\ s[j].op = op => i = j

Single(op) ==
  /\ Lone(pending, op) /\ Lone(functors, op)
  /\ ~(HasOp(pending, op) /\ HasOp(functors, op))

Ops == {"startInLoop", "stopInLoop", "resetChannel", "setCloseCallback", "forceClose"}
CloseOps == {"setCloseCallback", "forceClose"}

FunctorSet ==
  {f \in [op : Ops, conn : {0} \cup ConnIds] : f.op \in CloseOps => f.conn \in ConnIds}

QueueInv ==
  /\ pending \in Seq(FunctorSet) /\ functors \in Seq(FunctorSet)
  /\ phase # "functors" => functors = <<>>
  /\ Single("startInLoop") /\ Single("resetChannel")
  /\ client # "thread" => \A op \in CloseOps : ~Queued(op)

ConnectorSet ==
  [state : {"kDisconnected", "kConnecting", "kConnected"}, connect : BOOLEAN,
   channel : {"none", "live", "removed"}, delay : InitRetryDelay..MaxRetryDelay,
   timers : Nat, sockets : Int, asserts : BOOLEAN, gaveUp : BOOLEAN]

(* The client has a connection.                                             *)
Has == client = "alive" /\ connection # 0

(* The connector is doing one thing at a time: a startInLoop() is queued, a *)
(* retry timer is set, an attempt is under way, its result or the loss of a *)
(* connection is being handled, or the client has a connection.  channel_   *)
(* is reset by the one functor that is queued when it is removed.           *)
MachineInv ==
  /\ connector.timers \in {0, 1}
  /\ connector.channel = "removed" <=> Queued("resetChannel")
  /\ connector.channel = "live" => connector.state = "kConnecting" /\ step = "none" /\ ~Has
  /\ Queued("startInLoop") =>
       /\ connector.state = "kDisconnected" /\ connector.channel = "none"
       /\ connector.timers = 0 /\ step = "none" /\ ~Has
  /\ connector.timers = 1 => connector.state = "kDisconnected" /\ step = "none" /\ ~Has
  /\ step # "none" => ~Has
  /\ step = "restart" => connector.channel = "none" /\ connector.state = "kConnected"
  /\ step = "newConnection" => connector.state = "kConnected" /\ connector.channel = "removed"
  /\ Has => connector.state = "kConnected"
  /\ ConnectorAlive /\ connector.state = "kConnecting" => connector.channel = "live"

(* The descriptors, unless the client was destroyed on another thread.      *)
SocketsInv ==
  client # "thread" =>
    connector.sockets = (IF Has THEN 1 ELSE 0)
      + (IF connector.channel = "live" \/ step = "newConnection" THEN 1 ELSE 0)

(* The connections.  One that was just made is not yet polled for: the      *)
(* functor that resets the connector's channel is ahead of its first event. *)
ConnStates == {"none", "kConnected", "kDisconnecting", "destroyed"}
ConnSet == [state : ConnStates, cb : {"client", "detail", "none"}]

ConnsInv ==
  /\ conns \in [ConnIds -> ConnSet]
  /\ connection \in {0} \cup ConnIds /\ copied \in {0} \cup ConnIds
  /\ \A i \in ready \ {0} : i \in ConnIds /\ conns[i].state # "none"
  /\ client = "alive" => \A i \in ConnIds : (Open(i) <=> i = connection) /\ conns[i].cb = "client"
  /\ client = "loop" => \A i \in ConnIds : ~Open(i)
  /\ step = "newConnection" =>
       /\ \E i \in ConnIds : conns[i].state = "none"
       /\ phase = "events" /\ HasOp(pending, "resetChannel")
  /\ Has /\ Queued("resetChannel") =>
       /\ connection \notin ready
       /\ \/ phase = "events" /\ HasOp(pending, "resetChannel")
          \/ phase = "functors" /\ HasOp(functors, "resetChannel")

(* What stop() and the destructors leave behind.                            *)
StopInv ==
  /\ client \in {"alive", "loop", "thread"} /\ phase \in {"poll", "events", "functors"}
  /\ step \in {"none", "newConnection", "restart"}
  /\ client = "thread" <=> dtor = "done"
  /\ client = "loop" => dtor = "none" /\ step = "none" /\ stopper = "loop"
  /\ stopper = "loop" => ~connector.connect /\ step # "restart" /\ (client = "alive" => ~connect)
  /\ release => client # "alive"
  /\ connector.channel = "live" => client = "alive" \/ release
  /\ client = "loop" /\ connector.channel = "live" => Queued("stopInLoop")

ClientInv ==
  /\ connector \in ConnectorSet /\ connector.asserts
  /\ misuse => client = "thread"
  /\ ~misuse => QueueInv /\ MachineInv /\ SocketsInv /\ ConnsInv /\ StopInv

----------------------------------------------------------------------------
(* Every set of naturals that is not empty has a least member, which Min    *)
(* chooses.                                                                 *)
LEMMA LeastOf ==
  ASSUME NEW T \in SUBSET Nat, T # {}
  PROVE  Min(T) \in T /\ \A y \in T : Min(T) <= y
<1> DEFINE R == {p \in Nat \X Nat : p[1] < p[2]}
<1>1. IsWellFoundedOn(R, Nat)
  BY NatLessThanWellFounded DEF OpToRel
<1>2. \A x, y \in Nat : y < x => <<y, x>> \in R
  OBVIOUS
<1> HIDE DEF R
<1>3. PICK x \in T : \A y \in T : ~(<<y, x>> \in R)
  BY <1>1, WFMin
<1>4. \A y \in T : x <= y
  <2> SUFFICES ASSUME NEW y \in T, y < x
               PROVE  FALSE
    OBVIOUS
  <2> QED
    BY <1>2, <1>3
<1> QED
  BY <1>3, <1>4 DEF Min

LEMMA SmallerOf ==
  ASSUME NEW a \in Nat, NEW b \in Nat
  PROVE  Min({a, b}) = IF a <= b THEN a ELSE b
BY LeastOf

(* What Append and Tail do to the functors in a queue.                      *)
LEMMA AppendOps ==
  ASSUME NEW S, NEW s \in Seq(S), NEW f \in S, NEW op
  PROVE  /\ Append(s, f) \in Seq(S)
         /\ HasOp(Append(s, f), op) <=> HasOp(s, op) \/ f.op = op
         /\ Lone(s, op) /\ (f.op = op => ~HasOp(s, op)) => Lone(Append(s, f), op)
<1>1. /\ Append(s, f) \in Seq(S) /\ Len(Append(s, f)) = Len(s) + 1
      /\ \A i \in 1..Len(s) : Append(s, f)[i] = s[i]
      /\ Append(s, f)[Len(s) + 1] = f /\ Len(s) \in Nat
  BY AppendProperties
<1>2. HasOp(Append(s, f), op) <=> HasOp(s, op) \/ f.op = op
  BY <1>1 DEF HasOp
<1>3. ASSUME Lone(s, op), f.op = op => ~HasOp(s, op),
             NEW i \in 1..(Len(s) + 1), NEW j \in 1..(Len(s) + 1),
             Append(s, f)[i].op = op, Append(s, f)[j].op = op
      PROVE  i = j
  BY <1>1, <1>3 DEF Lone, HasOp
<1> QED
  BY <1>1, <1>2, <1>3 DEF Lone

LEMMA TailOps ==
  ASSUME NEW S, NEW s \in Seq(S), s # <<>>, NEW op
  PROVE  /\ Head(s) \in S /\ Tail(s) \in Seq(S)
         /\ HasOp(s, op) <=> HasOp(Tail(s), op) \/ Head(s).op = op
         /\ Lone(s, op) => Lone(Tail(s), op) /\ ~(Head(s).op = op /\ HasOp(Tail(s), op))
<1>1. /\ Head(s) = s[1] /\ Head(s) \in S /\ Tail(s) \in Seq(S)
      /\ Len(s) \in Nat /\ Len(s) > 0 /\ Len(Tail(s)) = Len(s) - 1
      /\ \A i \in 1..Len(Tail(s)) : Tail(s)[i] = s[i + 1]
  BY HeadTailProperties, EmptySeq
<1>2. HasOp(s, op) => HasOp(Tail(s), op) \/ Head(s).op = op
  <2> SUFFICES ASSUME NEW i \in 1..Len(s), s[i].op = op, i # 1
               PROVE  HasOp(Tail(s), op)
    BY <1>1 DEF HasOp
  <2>1. i - 1 \in 1..Len(Tail(s)) /\ Tail(s)[i - 1] = s[i]
    BY <1>1
  <2> QED
    BY <2>1 DEF HasOp
<1>3. HasOp(Tail(s), op) \/ Head(s).op = op => HasOp(s, op)
  BY <1>1 DEF HasOp
<1>4. ASSUME Lone(s, op)
      PROVE  Lone(Tail(s), op) /\ ~(Head(s).op = op /\ HasOp(Tail(s), op))
  <2>1. \A i \in 1..Len(Tail(s)) : i + 1 \in 1..Len(s) /\ i + 1 # 1 /\ Tail(s)[i] = s[i + 1]
    BY <1>1
  <2>2. 1 \in 1..Len(s)
    BY <1>1
  <2>3. Lone(Tail(s), op)
    BY <1>4, <2>1 DEF Lone
  <2>4. ~(Head(s).op = op /\ HasOp(Tail(s), op))
    BY <1>1, <1>4, <2>1, <2>2 DEF Lone, HasOp
  <2> QED
    BY <2>3, <2>4
<1> QED
  BY <1>1, <1>2, <1>3, <1>4

LEMMA EmptyOps ==
  ASSUME NEW op
  PROVE  ~HasOp(<<>>, op) /\ Lone(<<>>, op)
BY DEF HasOp, Lone

(* Queued speaks of the queue and of the batch.                             *)
LEMMA ConcatOps ==
  ASSUME NEW S, NEW p \in Seq(S), NEW f \in Seq(S), NEW op
  PROVE  (\E x \in Range(p \o f) : x.op = op) <=> HasOp(p, op) \/ HasOp(f, op)
<1>1. PICK m, n : m = Len(p) /\ n = Len(f)
  OBVIOUS
<1>2. m \in Nat /\ n \in Nat
  BY <1>1, LenProperties
<1>3. /\ Len(p \o f) = m + n
      /\ \A i \in 1..m : (p \o f)[i] = p[i]
      /\ \A i \in 1..n : (p \o f)[m + i] = f[i]
  BY <1>1, <1>2, ConcatProperties
<1>4. (\E x \in Range(p \o f) : x.op = op) <=> \E i \in 1..(m + n) : (p \o f)[i].op = op
  BY <1>3 DEF Range
<1>5. \A i \in 1..(m + n) : i \in 1..m \/ (i - m \in 1..n /\ m + (i - m) = i)
  BY <1>2
<1>6. (\E x \in Range(p \o f) : x.op = op) => HasOp(p, op) \/ HasOp(f, op)
  BY <1>1, <1>3, <1>4, <1>5 DEF HasOp
<1>7. HasOp(p, op) => \E x \in Range(p \o f) : x.op = op
  BY <1>1, <1>2, <1>3, <1>4 DEF HasOp
<1>8. HasOp(f, op) => \E x \in Range(p \o f) : x.op = op
  BY <1>1, <1>2, <1>3, <1>4 DEF HasOp
<1> QED
  BY <1>6, <1>7, <1>8

LEMMA QueuedNow ==
  ASSUME QueueInv
  PROVE  \A op : Queued(op) <=> HasOp(pending, op) \/ HasOp(functors, op)
BY ConcatOps DEF QueueInv, Queued

LEMMA QueuedNext ==
  ASSUME pending' \in Seq(FunctorSet), functors' \in Seq(FunctorSet)
  PROVE  \A op : Queued(op)' <=> HasOp(pending', op) \/ HasOp(functors', op)
<1> SUFFICES ASSUME NEW op
             PROVE  (\E x \in Range(pending' \o functors') : x.op = op)
                      <=> HasOp(pending', op) \/ HasOp(functors', op)
  BY DEF Queued
<1> QED
  BY ConcatOps

(* What a step does to the queue: nothing, a functor is queued, the queue   *)
(* becomes the batch, the first functor of the batch is taken out, and in   *)
(* that case another may be queued.                                         *)
LEMMA QueueKept ==
  ASSUME pending' = pending, functors' = functors
  PROVE  \A op : (Queued(op)' <=> Queued(op)) /\ (Single(op) => Single(op)')
BY DEF Queued, Single

LEMMA QueuePushed ==
  ASSUME QueueInv, NEW f \in FunctorSet, pending' = Append(pending, f), functors' = functors
  PROVE  /\ pending' \in Seq(FunctorSet) /\ functors' \in Seq(FunctorSet)
         /\ \A op : Queued(op)' <=> Queued(op) \/ f.op = op
         /\ \A op : HasOp(pending', op) <=> HasOp(pending, op) \/ f.op = op
         /\ \A op : Single(op) /\ (f.op = op => ~Queued(op)) => Single(op)'
<1>1. pending \in Seq(FunctorSet) /\ functors \in Seq(FunctorSet)
  BY DEF QueueInv
<1>2. /\ pending' \in Seq(FunctorSet)
      /\ \A op : HasOp(pending', op) <=> HasOp(pending, op) \/ f.op = op
      /\ \A op : Lone(pending, op) /\ (f.op = op => ~HasOp(pending, op)) => Lone(pending', op)
  BY <1>1, AppendOps, AppendProperties
<1>3. \A op : Queued(op)' <=> HasOp(pending', op) \/ HasOp(functors, op)
  BY <1>1, <1>2, QueuedNext
<1> QED
  BY <1>1, <1>2, <1>3, QueuedNow DEF Single

LEMMA QueueTaken ==
  ASSUME QueueInv, functors = <<>>, pending' = <<>>, functors' = pending
  PROVE  /\ pending' \in Seq(FunctorSet) /\ functors' \in Seq(FunctorSet)
         /\ \A op : Queued(op)' <=> Queued(op)
         /\ \A op : HasOp(functors', op) <=> Queued(op)
         /\ \A op : Single(op) => Single(op)'
<1>1. pending' \in Seq(FunctorSet) /\ functors' \in Seq(FunctorSet)
  BY EmptySeq DEF QueueInv
<1> QED
  BY <1>1, QueuedNow, QueuedNext, EmptyOps DEF Single

LEMMA QueueRun ==
  ASSUME QueueInv, functors # <<>>, NEW f, f = Head(functors), functors' = Tail(functors),
         pending' = pending
  PROVE  /\ pending' \in Seq(FunctorSet) /\ functors' \in Seq(FunctorSet)
         /\ f \in FunctorSet /\ Queued(f.op)
         /\ \A op : Queued(op)' => Queued(op)
         /\ \A op : f.op # op => (HasOp(functors, op) => HasOp(functors', op))
         /\ \A op : f.op # op => (Queued(op) => Queued(op)')
         /\ \A op : Single(op) => Single(op)' /\ (f.op = op => ~Queued(op)')
<1>1. pending \in Seq(FunctorSet) /\ functors \in Seq(FunctorSet)
  BY DEF QueueInv
<1>2. /\ functors' \in Seq(FunctorSet) /\ f \in FunctorSet
      /\ \A op : HasOp(functors, op) <=> HasOp(functors', op) \/ f.op = op
      /\ \A op : Lone(functors, op) => Lone(functors', op) /\ ~(f.op = op /\ HasOp(functors', op))
  BY <1>1, TailOps, HeadTailProperties
<1>3. \A op : Queued(op)' <=> HasOp(pending, op) \/ HasOp(functors', op)
  BY <1>1, <1>2, QueuedNext
<1>4. \A op : Single(op) => Single(op)' /\ (f.op = op => ~Queued(op)')
  BY <1>2, <1>3 DEF Single
<1> QED
  BY <1>1, <1>2, <1>3, <1>4, QueuedNow

LEMMA QueueRunPushed ==
  ASSUME QueueInv, functors # <<>>, NEW f, f = Head(functors), functors' = Tail(functors),
         NEW g \in FunctorSet, pending' = Append(pending, g), f.op # g.op
  PROVE  /\ pending' \in Seq(FunctorSet) /\ functors' \in Seq(FunctorSet)
         /\ f \in FunctorSet /\ Queued(f.op)
         /\ \A op : Queued(op)' => Queued(op) \/ g.op = op
         /\ \A op : f.op # op => (Queued(op) => Queued(op)')
         /\ Queued(g.op)'
         /\ \A op : Single(op) /\ (g.op = op => ~Queued(op)) => Single(op)'
<1>1. pending \in Seq(FunctorSet) /\ functors \in Seq(FunctorSet)
  BY DEF QueueInv
<1>2. /\ functors' \in Seq(FunctorSet) /\ f \in FunctorSet
      /\ \A op : HasOp(functors, op) <=> HasOp(functors', op) \/ f.op = op
      /\ \A op : Lone(functors, op) => Lone(functors', op)
  BY <1>1, TailOps, HeadTailProperties
<1>3. /\ pending' \in Seq(FunctorSet)
      /\ \A op : HasOp(pending', op) <=> HasOp(pending, op) \/ g.op = op
      /\ \A op : Lone(pending, op) /\ (g.op = op => ~HasOp(pending, op)) => Lone(pending', op)
  BY <1>1, AppendOps, AppendProperties
<1>4. \A op : Queued(op)' <=> HasOp(pending', op) \/ HasOp(functors', op)
  BY <1>2, <1>3, QueuedNext
<1>5. \A op : Single(op) /\ (g.op = op => ~Queued(op)) => Single(op)'
  BY <1>2, <1>3, QueuedNow DEF Single
<1> QED
  BY <1>2, <1>3, <1>4, <1>5, QueuedNow

----------------------------------------------------------------------------
(* The connector's methods.  An attempt that starts when the one before it  *)
(* is over keeps the asserts, and ends with a descriptor and a channel, or  *)
(* with neither and a timer or nothing.                                     *)
Resting(c) == c.state = "kDisconnected" /\ c.channel = "none" /\ c.timers = 0

LEMMA ConnectorParts ==
  ASSUME NEW c \in ConnectorSet
  PROVE  /\ c.state \in {"kDisconnected", "kConnecting", "kConnected"} /\ c.connect \in BOOLEAN
         /\ c.channel \in {"none", "live", "removed"} /\ c.delay \in InitRetryDelay..MaxRetryDelay
         /\ c.timers \in Nat /\ c.sockets \in Int /\ c.asserts \in BOOLEAN /\ c.gaveUp \in BOOLEAN
BY DEF ConnectorSet

LEMMA RetryFacts ==
  ASSUME NEW c \in ConnectorSet, c.timers = 0
  PROVE  /\ Retry(c) \in ConnectorSet
         /\ Retry(c).asserts = c.asserts /\ Retry(c).connect = c.connect
         /\ Retry(c).state = "kDisconnected" /\ Retry(c).channel = c.channel
         /\ Retry(c).sockets = c.sockets - 1
         /\ Retry(c).timers \in {0, 1}
<1>1. c.delay \in Nat /\ InitRetryDelay <= c.delay /\ c.delay <= MaxRetryDelay
  BY ConnectorParts, RetryDelayAssumption
<1>2. PICK k \in InitRetryDelay..MaxRetryDelay : k = Min({2 * c.delay, MaxRetryDelay})
  BY <1>1, RetryDelayAssumption, SmallerOf
<1>3. PICK n \in Int : n = c.sockets - 1
  BY ConnectorParts
<1>4. CASE c.connect
  <2>1. Retry(c) = [state |-> "kDisconnected", connect |-> c.connect, channel |-> c.channel,
                    delay |-> k, timers |-> 1, sockets |-> n, asserts |-> c.asserts,
                    gaveUp |-> c.gaveUp]
    <3>1. PICK b : b = [c EXCEPT !.state = "kDisconnected", !.sockets = n]
      OBVIOUS
    <3>2. b = [state |-> "kDisconnected", connect |-> c.connect, channel |-> c.channel,
               delay |-> c.delay, timers |-> 0, sockets |-> n, asserts |-> c.asserts,
               gaveUp |-> c.gaveUp]
      BY <3>1 DEF ConnectorSet
    <3>3. Retry(c) = [b EXCEPT !.timers = b.timers + 1, !.delay = Min({2 * b.delay, MaxRetryDelay})]
      BY <1>3, <1>4, <3>1 DEF Retry, ConnectorSet
    <3>4. b.timers + 1 = 1 /\ Min({2 * b.delay, MaxRetryDelay}) = k
      BY <1>2, <3>2
    <3>5. Retry(c) = [b EXCEPT !.timers = 1, !.delay = k]
      BY <3>3, <3>4
    <3> QED
      BY <3>2, <3>5
  <2>2. Retry(c) \in ConnectorSet
    BY <2>1 DEF ConnectorSet
  <2> QED
    BY <1>3, <2>1, <2>2
<1>5. CASE ~c.connect
  <2>1. Retry(c) = [state |-> "kDisconnected", connect |-> c.connect, channel |-> c.channel,
                    delay |-> c.delay, timers |-> 0, sockets |-> n, asserts |-> c.asserts,
                    gaveUp |-> c.gaveUp]
    BY <1>3, <1>5 DEF Retry, ConnectorSet
  <2>2. Retry(c) \in ConnectorSet
    BY <2>1 DEF ConnectorSet
  <2> QED
    BY <1>3, <2>1, <2>2
<1> QED
  BY <1>4, <1>5

LEMMA StartFacts ==
  ASSUME NEW c \in ConnectorSet, c.asserts, Resting(c), NEW o \in Outcomes,
         NEW d, d = StartInLoop(c, o)
  PROVE  /\ d \in ConnectorSet /\ d.asserts /\ d.connect = c.connect
         /\ d.timers \in {0, 1}
         /\ d.channel \in {"none", "live"}
         /\ d.state = IF d.channel = "live" THEN "kConnecting" ELSE "kDisconnected"
         /\ d.channel = "live" => d.timers = 0 /\ c.connect
         /\ d.sockets = c.sockets + IF d.channel = "live" THEN 1 ELSE 0
<1>0. c.asserts = TRUE /\ c.connect \in BOOLEAN /\ c.sockets \in Int
      /\ c.state = "kDisconnected" /\ c.channel = "none" /\ c.timers = 0
  BY DEF ConnectorSet, Resting
<1>1. [c EXCEPT !.asserts = @ /\ c.state = "kDisconnected"] = c
  BY <1>0 DEF ConnectorSet
<1>2. CASE ~c.connect
  <2>1. d = c
    BY <1>1, <1>2 DEF StartInLoop
  <2> QED
    BY <1>0, <2>1
<1>3. CASE c.connect
  <2>1. d = Connect(c, o)
    BY <1>1, <1>3 DEF StartInLoop
  <2>2. CASE o = "connecting"
    <3>1. PICK n \in Int : n = c.sockets + 1
      BY <1>0
    <3>2. d = [state |-> "kConnecting", connect |-> c.connect, channel |-> "live",
               delay |-> c.delay, timers |-> 0, sockets |-> n, asserts |-> TRUE,
               gaveUp |-> c.gaveUp]
      BY <1>0, <2>1, <2>2, <3>1 DEF Connect, Connecting, ConnectorSet
    <3>3. d \in ConnectorSet
      BY <3>2 DEF ConnectorSet
    <3> QED
      BY <1>3, <3>1, <3>2, <3>3
  <2>3. CASE o = "retry"
    <3>1. PICK b : b = [c EXCEPT !.sockets = c.sockets + 1]
      OBVIOUS
    <3>2. /\ b \in ConnectorSet /\ b.asserts = TRUE /\ b.connect = c.connect
          /\ b.sockets = c.sockets + 1 /\ b.channel = "none" /\ b.timers = 0
      BY <1>0, <3>1 DEF ConnectorSet
    <3>3. d = Retry(b)
      BY <2>1, <2>3, <3>1 DEF Connect
    <3>4. /\ d \in ConnectorSet /\ d.asserts = TRUE /\ d.connect = c.connect
          /\ d.state = "kDisconnected" /\ d.channel = "none" /\ d.sockets = b.sockets - 1
          /\ d.timers \in {0, 1}
      BY <3>2, <3>3, RetryFacts
    <3> QED
      BY <1>0, <3>2, <3>4
  <2>4. CASE o = "error"
    <3>1. d = [c EXCEPT !.gaveUp = TRUE]
      BY <2>1, <2>4 DEF Connect
    <3>2. d \in ConnectorSet
      BY <3>1 DEF ConnectorSet
    <3>3. /\ d.asserts = TRUE /\ d.connect = c.connect /\ d.timers = 0 /\ d.channel = "none"
          /\ d.state = "kDisconnected" /\ d.sockets = c.sockets
      BY <1>0, <3>1 DEF ConnectorSet
    <3> QED
      BY <1>0, <3>2, <3>3
  <2> QED
    BY <2>2, <2>3, <2>4 DEF Outcomes
<1> QED
  BY <1>2, <1>3

LEMMA StopFacts ==
  ASSUME NEW c \in ConnectorSet, c.state = "kConnecting", NEW d, d = StopInLoop(c)
  PROVE  /\ d \in ConnectorSet /\ d.asserts = c.asserts /\ d.connect = c.connect
         /\ d.timers = c.timers /\ d.channel = "removed" /\ d.state = "kDisconnected"
         /\ d.sockets = c.sockets - 1
<1>1. PICK n \in Int : n = c.sockets - 1
  BY ConnectorParts
<1>2. d = [state |-> "kDisconnected", connect |-> c.connect, channel |-> "removed",
           delay |-> c.delay, timers |-> c.timers, sockets |-> n, asserts |-> c.asserts,
           gaveUp |-> c.gaveUp]
  BY <1>1 DEF StopInLoop, RemoveChannel, ConnectorSet
<1>3. d \in ConnectorSet
  BY <1>2 DEF ConnectorSet
<1> QED
  BY <1>1, <1>2, <1>3

LEMMA FailFacts ==
  ASSUME NEW c \in ConnectorSet, c.timers = 0, NEW d, d = AttemptFails(c)
  PROVE  /\ d \in ConnectorSet /\ d.asserts = c.asserts /\ d.connect = c.connect
         /\ d.timers \in {0, 1} /\ d.channel = "removed" /\ d.state = "kDisconnected"
         /\ d.sockets = c.sockets - 1
<1>1. PICK b : b = RemoveChannel(c)
  OBVIOUS
<1>2. /\ b \in ConnectorSet /\ b.asserts = c.asserts /\ b.connect = c.connect
      /\ b.timers = 0 /\ b.channel = "removed" /\ b.sockets = c.sockets
  BY <1>1 DEF RemoveChannel, ConnectorSet
<1>3. d = Retry(b)
  BY <1>1 DEF AttemptFails
<1> QED
  BY <1>2, <1>3, RetryFacts

LEMMA SucceedFacts ==
  ASSUME NEW c \in ConnectorSet, NEW d, d = AttemptSucceeds(c)
  PROVE  /\ d \in ConnectorSet /\ d.asserts = c.asserts /\ d.connect = c.connect
         /\ d.timers = c.timers /\ d.channel = "removed" /\ d.state = "kConnected"
         /\ d.sockets = IF c.connect THEN c.sockets ELSE c.sockets - 1
<1>1. PICK n \in Int : n = IF c.connect THEN c.sockets ELSE c.sockets - 1
  BY ConnectorParts
<1>2. d = [state |-> "kConnected", connect |-> c.connect, channel |-> "removed",
           delay |-> c.delay, timers |-> c.timers, sockets |-> n, asserts |-> c.asserts,
           gaveUp |-> c.gaveUp]
  BY <1>1 DEF AttemptSucceeds, RemoveChannel, ConnectorSet
<1>3. d \in ConnectorSet
  BY <1>2 DEF ConnectorSet
<1> QED
  BY <1>1, <1>2, <1>3

LEMMA ResetFacts ==
  ASSUME NEW c \in ConnectorSet, c.asserts, c.channel = "removed", NEW d, d = ResetChannel(c)
  PROVE  /\ d \in ConnectorSet /\ d.asserts /\ d.connect = c.connect /\ d.state = c.state
         /\ d.timers = c.timers /\ d.channel = "none" /\ d.sockets = c.sockets
<1>1. c.asserts = TRUE
  BY ConnectorParts
<1>2. d = [state |-> c.state, connect |-> c.connect, channel |-> "none",
           delay |-> c.delay, timers |-> c.timers, sockets |-> c.sockets, asserts |-> TRUE,
           gaveUp |-> c.gaveUp]
  BY <1>1 DEF ResetChannel, ConnectorSet
<1>3. d \in ConnectorSet
  BY <1>2 DEF ConnectorSet
<1> QED
  BY <1>2, <1>3

(* restart() of a connector without channel or timer.                       *)
LEMMA RestartFacts ==
  ASSUME NEW c \in ConnectorSet, c.asserts, c.channel = "none", c.timers = 0,
         NEW o \in Outcomes, NEW d, d = Restart(c, o)
  PROVE  /\ d \in ConnectorSet /\ d.asserts
         /\ d.timers \in {0, 1} /\ d.channel \in {"none", "live"}
         /\ d.state = IF d.channel = "live" THEN "kConnecting" ELSE "kDisconnected"
         /\ d.channel = "live" => d.timers = 0 /\ d.connect
         /\ d.sockets = c.sockets + IF d.channel = "live" THEN 1 ELSE 0
<1>1. PICK b : b = [c EXCEPT !.state = "kDisconnected", !.delay = InitRetryDelay, !.connect = TRUE]
  OBVIOUS
<1>2. b = [state |-> "kDisconnected", connect |-> TRUE, channel |-> "none",
           delay |-> InitRetryDelay, timers |-> 0, sockets |-> c.sockets, asserts |-> c.asserts,
           gaveUp |-> c.gaveUp]
  BY <1>1 DEF ConnectorSet
<1>3. InitRetryDelay \in InitRetryDelay..MaxRetryDelay
  BY RetryDelayAssumption
<1>4. b \in ConnectorSet
  BY <1>2, <1>3 DEF ConnectorSet
<1>5. b.asserts = c.asserts /\ Resting(b) /\ b.sockets = c.sockets
  BY <1>2 DEF Resting
<1>6. d = StartInLoop(b, o) /\ b.asserts
  BY <1>1, <1>5 DEF Restart
<1> QED
  BY <1>4, <1>5, <1>6, StartFacts

(* A member that is assigned on its own.                                    *)
LEMMA SetConnect ==
  ASSUME NEW c \in ConnectorSet, NEW v \in BOOLEAN, NEW d, d = [c EXCEPT !.connect = v]
  PROVE  /\ d \in ConnectorSet /\ d.asserts = c.asserts /\ d.state = c.state
         /\ d.channel = c.channel /\ d.timers = c.timers /\ d.sockets = c.sockets /\ d.connect = v
BY DEF ConnectorSet

LEMMA SetSockets ==
  ASSUME NEW c \in ConnectorSet, NEW v \in Int, NEW d, d = [c EXCEPT !.sockets = v]
  PROVE  /\ d \in ConnectorSet /\ d.asserts = c.asserts /\ d.state = c.state
         /\ d.channel = c.channel /\ d.timers = c.timers /\ d.connect = c.connect /\ d.sockets = v
BY DEF ConnectorSet

LEMMA DestroyedFacts ==
  ASSUME NEW c \in ConnectorSet, NEW d, d = Destroyed(c)
  PROVE  /\ d \in ConnectorSet /\ d.asserts = c.asserts /\ d.state = c.state
         /\ d.channel = "none" /\ d.connect = c.connect /\ d.sockets = c.sockets
         /\ d.timers = c.timers
BY DEF ConnectorSet, Destroyed

----------------------------------------------------------------------------
(* The steps.  Each invariant is kept by steps that leave alone what it     *)
(* speaks of.                                                               *)
LEMMA MachineKept ==
  ASSUME MachineInv, UNCHANGED <<client, connection, step, release>>,
         /\ connector'.state = connector.state /\ connector'.channel = connector.channel
         /\ connector'.timers = connector.timers,
         Queued("resetChannel")' <=> Queued("resetChannel"),
         Queued("startInLoop")' => Queued("startInLoop")
  PROVE  MachineInv'
BY DEF MachineInv, Has, ConnectorAlive

LEMMA SocketsKept ==
  ASSUME SocketsInv, UNCHANGED <<client, connection, step>>,
         connector'.channel = connector.channel /\ connector'.sockets = connector.sockets
  PROVE  SocketsInv'
BY DEF SocketsInv, Has

LEMMA StopKept ==
  ASSUME StopInv, UNCHANGED <<connector, client, step, release, dtor, stopper, connect>>,
         phase' \in {"poll", "events", "functors"},
         Queued("stopInLoop") => Queued("stopInLoop")'
  PROVE  StopInv'
BY DEF StopInv

LEMMA ConnsKept ==
  ASSUME ConnsInv, UNCHANGED <<conns, connection, copied, ready, client, step, phase, functors>>,
         Queued("resetChannel")' <=> Queued("resetChannel"),
         HasOp(pending, "resetChannel") => HasOp(pending', "resetChannel")
  PROVE  ConnsInv'
BY DEF ConnsInv, Has, Open

(* The state of one connection changes.                                     *)
LEMMA ConnChanged ==
  ASSUME NEW C \in [ConnIds -> ConnSet], NEW i \in ConnIds, NEW st \in ConnStates, NEW D,
         D = [C EXCEPT ![i].state = st]
  PROVE  /\ D \in [ConnIds -> ConnSet]
         /\ \A j \in ConnIds :
              D[j].cb = C[j].cb /\ D[j].state = IF j = i THEN st ELSE C[j].state
<1>1. PICK r : r = [C[i] EXCEPT !.state = st]
  OBVIOUS
<1>2. r \in ConnSet /\ r.cb = C[i].cb /\ r.state = st
  BY <1>1 DEF ConnSet
<1>3. D = [C EXCEPT ![i] = r]
  BY <1>1
<1>4. D \in [ConnIds -> ConnSet]
  BY <1>2, <1>3
<1>5. \A j \in ConnIds : D[j] = IF j = i THEN r ELSE C[j]
  BY <1>3
<1> QED
  BY <1>2, <1>4, <1>5

LEMMA QueueInvKept ==
  ASSUME QueueInv, UNCHANGED <<pending, functors, client>>,
         phase' = phase \/ functors = <<>>
  PROVE  QueueInv'
BY QueueKept DEF QueueInv

(* The steps of the loop that do nothing but go on.                         *)
LEMMA QuietStep ==
  ASSUME ClientInv, ~misuse, Poll \/ FunctorsDone \/ TakeFunctors \/ ThreadCopies
  PROVE  ClientInv'
<1>0. /\ QueueInv /\ MachineInv /\ SocketsInv /\ ConnsInv /\ StopInv
      /\ connector \in ConnectorSet /\ connector.asserts
  BY DEF ClientInv
<1>1. CASE Poll
  <2>1. /\ phase = "poll" /\ phase' = "events" /\ pending' = pending /\ functors' = functors
        /\ UNCHANGED <<connector, connect, retry, connection, client, conns, release, step, dtor,
                       copied, stopper, misuse>>
    BY <1>1 DEF Poll, clientVars, dtorVars
  <2>2. \A i \in ready' \ {0} : i \in ConnIds /\ Open(i)
    BY <1>1 DEF Poll
  <2>3. \A op : Queued(op)' <=> Queued(op)
    BY <2>1, QueueKept
  <2>4. functors = <<>> /\ QueueInv'
    BY <1>0, <2>1, QueueInvKept DEF QueueInv
  <2>5. ~(Has /\ Queued("resetChannel")) /\ step # "newConnection"
    BY <1>0, <2>1 DEF ConnsInv
  <2>6. ConnsInv'
    <3>1. \A i \in ready' \ {0} : i \in ConnIds /\ conns'[i].state # "none"
      BY <2>1, <2>2 DEF Open
    <3>2. ~(Has /\ Queued("resetChannel"))' /\ step' # "newConnection"
      BY <2>1, <2>3, <2>5 DEF Has
    <3> QED
      BY <1>0, <2>1, <3>1, <3>2 DEF ConnsInv, Open
  <2>7. MachineInv' /\ SocketsInv' /\ StopInv'
    BY <1>0, <2>1, <2>3, MachineKept, SocketsKept, StopKept
  <2> QED
    BY <1>0, <2>1, <2>4, <2>6, <2>7 DEF ClientInv
<1>2. CASE FunctorsDone
  <2>1. /\ phase = "functors" /\ phase' = "poll" /\ functors = <<>> /\ step = "none"
        /\ pending' = pending /\ functors' = functors
        /\ UNCHANGED <<connector, connect, retry, connection, client, conns, release, step, dtor,
                       copied, stopper, misuse, ready>>
    BY <1>2 DEF FunctorsDone, clientVars, dtorVars
  <2>3. \A op : Queued(op)' <=> Queued(op)
    BY <2>1, QueueKept
  <2>4. QueueInv'
    BY <1>0, <2>1, QueueInvKept
  <2>5. ~(Has /\ Queued("resetChannel"))
    BY <1>0, <2>1, EmptyOps DEF ConnsInv
  <2>6. ConnsInv'
    <3>2. ~(Has /\ Queued("resetChannel"))' /\ step' # "newConnection"
      BY <2>1, <2>3, <2>5 DEF Has
    <3> QED
      BY <1>0, <2>1, <3>2 DEF ConnsInv, Open
  <2>7. MachineInv' /\ SocketsInv' /\ StopInv'
    BY <1>0, <2>1, <2>3, MachineKept, SocketsKept, StopKept
  <2> QED
    BY <1>0, <2>1, <2>4, <2>6, <2>7 DEF ClientInv
<1>3. CASE TakeFunctors
  <2>1. /\ phase = "events" /\ phase' = "functors" /\ step = "none" /\ ready' = {}
        /\ pending' = <<>> /\ functors' = pending
        /\ UNCHANGED <<connector, connect, retry, connection, client, conns, release, step, dtor,
                       copied, stopper, misuse>>
    BY <1>3 DEF TakeFunctors, clientVars, dtorVars
  <2>2. functors = <<>>
    BY <1>0, <2>1 DEF QueueInv
  <2>3. /\ pending' \in Seq(FunctorSet) /\ functors' \in Seq(FunctorSet)
        /\ \A op : Queued(op)' <=> Queued(op)
        /\ \A op : HasOp(functors', op) <=> Queued(op)
        /\ \A op : Single(op) => Single(op)'
    BY <1>0, <2>1, <2>2, QueueTaken
  <2>4. QueueInv'
    BY <1>0, <2>1, <2>3 DEF QueueInv
  <2>6. ConnsInv'
    BY <1>0, <2>1, <2>3 DEF ConnsInv, Open, Has
  <2>7. MachineInv' /\ SocketsInv' /\ StopInv'
    BY <1>0, <2>1, <2>3, MachineKept, SocketsKept, StopKept
  <2> QED
    BY <1>0, <2>1, <2>4, <2>6, <2>7 DEF ClientInv
<1>4. CASE ThreadCopies
  <2>1. /\ dtor = "stopped" /\ dtor' = "copied" /\ copied' = connection
        /\ pending' = pending /\ functors' = functors
        /\ UNCHANGED <<connector, connect, retry, connection, client, conns, release, step,
                       stopper, misuse, phase, ready>>
    BY <1>4 DEF ThreadCopies, clientVars, loopVars
  <2>3. \A op : Queued(op)' <=> Queued(op)
    BY <2>1, QueueKept
  <2>4. QueueInv'
    BY <1>0, <2>1, QueueInvKept
  <2>6. ConnsInv'
    BY <1>0, <2>1, <2>3 DEF ConnsInv, Open, Has
  <2>7. MachineInv' /\ SocketsInv'
    BY <1>0, <2>1, <2>3, MachineKept, SocketsKept
  <2>8. StopInv'
    BY <1>0, <2>1, <2>3 DEF StopInv
  <2> QED
    BY <1>0, <2>1, <2>4, <2>6, <2>7, <2>8 DEF ClientInv
<1> QED
  BY <1>1, <1>2, <1>3, <1>4

(* stop(), and the destructor on the other thread.                          *)
LEMMA Stopping ==
  ASSUME ClientInv, ~misuse, client = "alive", connector' = [connector EXCEPT !.connect = FALSE],
         pending' = Append(pending, Functor("stopInLoop", 0)),
         stopper' \in {"loop", "thread"}, stopper' = "loop" => step = "none" /\ ~connect',
         dtor' \in {"none", "stopped"},
         UNCHANGED <<connection, client, conns, release, functors, phase, ready, step, copied,
                     misuse>>
  PROVE  ClientInv'
<1>0. /\ QueueInv /\ MachineInv /\ SocketsInv /\ ConnsInv /\ StopInv
      /\ connector \in ConnectorSet /\ connector.asserts
  BY DEF ClientInv
<1>1. PICK f : f = Functor("stopInLoop", 0)
  OBVIOUS
<1>2. f \in FunctorSet /\ f.op = "stopInLoop"
  BY <1>1 DEF Functor, FunctorSet, Ops, CloseOps
<1>3. /\ pending' \in Seq(FunctorSet) /\ functors' \in Seq(FunctorSet)
      /\ \A op : Queued(op)' <=> Queued(op) \/ f.op = op
      /\ \A op : HasOp(pending', op) <=> HasOp(pending, op) \/ f.op = op
      /\ \A op : Single(op) /\ (f.op = op => ~Queued(op)) => Single(op)'
  BY <1>0, <1>1, <1>2, QueuePushed
<1>4. /\ Queued("resetChannel")' <=> Queued("resetChannel")
      /\ Queued("startInLoop")' <=> Queued("startInLoop")
      /\ HasOp(pending, "resetChannel") => HasOp(pending', "resetChannel")
  BY <1>2, <1>3
<1>5. /\ connector' \in ConnectorSet /\ connector'.asserts = connector.asserts
      /\ connector'.state = connector.state /\ connector'.channel = connector.channel
      /\ connector'.timers = connector.timers /\ connector'.sockets = connector.sockets
      /\ ~connector'.connect
  BY <1>0, SetConnect
<1>6. QueueInv'
  <2>1. \A op \in CloseOps : Queued(op)' => Queued(op)
    BY <1>2, <1>3 DEF CloseOps
  <2> QED
    BY <1>0, <1>2, <1>3, <2>1 DEF QueueInv
<1>7. MachineInv' /\ SocketsInv' /\ ConnsInv'
  BY <1>0, <1>4, <1>5, MachineKept, SocketsKept, ConnsKept
<1>8. StopInv'
  BY <1>0, <1>5 DEF StopInv
<1> QED
  BY <1>0, <1>5, <1>6, <1>7, <1>8 DEF ClientInv

(* disconnect() closes the connection's sending side.                       *)
LEMMA Disconnecting ==
  ASSUME ClientInv, ~misuse, client = "alive", DisconnectCall,
         UNCHANGED <<loopVars, step, dtorVars, misuse>>
  PROVE  ClientInv'
<1>0. /\ QueueInv /\ MachineInv /\ SocketsInv /\ ConnsInv /\ StopInv
      /\ connector \in ConnectorSet /\ connector.asserts
  BY DEF ClientInv
<1>1. /\ connect' = FALSE /\ pending' = pending /\ functors' = functors
      /\ UNCHANGED <<connector, connection, client, release, step, dtor, copied, stopper, misuse,
                     phase, ready>>
  BY DEF DisconnectCall, loopVars, dtorVars
<1>2. \A op : Queued(op)' <=> Queued(op)
  BY <1>1, QueueKept
<1>3. QueueInv' /\ MachineInv' /\ SocketsInv'
  BY <1>0, <1>1, <1>2, QueueInvKept, MachineKept, SocketsKept
<1>4. StopInv'
  BY <1>0, <1>1, <1>2 DEF StopInv
<1>5. /\ conns' \in [ConnIds -> ConnSet]
      /\ \A i \in ConnIds :
           /\ Open(i)' <=> Open(i)
           /\ conns'[i].cb = conns[i].cb
           /\ conns'[i].state = "none" <=> conns[i].state = "none"
  <2>0. conns \in [ConnIds -> ConnSet] /\ connection \in {0} \cup ConnIds
    BY <1>0 DEF ConnsInv
  <2>1. CASE connection # 0 /\ conns[connection].state = "kConnected"
    <3>1. PICK k \in ConnIds : k = connection
      BY <2>0, <2>1
    <3>2. conns' = [conns EXCEPT ![k].state = "kDisconnecting"]
      BY <2>1, <3>1 DEF DisconnectCall
    <3>3. /\ conns' \in [ConnIds -> ConnSet]
          /\ \A j \in ConnIds :
               /\ conns'[j].cb = conns[j].cb
               /\ conns'[j].state = IF j = k THEN "kDisconnecting" ELSE conns[j].state
      BY <2>0, <3>2, ConnChanged DEF ConnStates
    <3> QED
      BY <2>1, <3>1, <3>3 DEF Open
  <2>2. CASE ~(connection # 0 /\ conns[connection].state = "kConnected")
    <3>1. conns' = conns
      BY <2>2 DEF DisconnectCall
    <3> QED
      BY <2>0, <3>1 DEF Open
  <2> QED
    BY <2>1, <2>2
<1>6. ConnsInv'
  <2>1. (Has <=> Has') /\ (Queued("resetChannel")' <=> Queued("resetChannel"))
    BY <1>1, <1>2 DEF Has
  <2> QED
    BY <1>0, <1>1, <1>5, <2>1 DEF ConnsInv
<1> QED
  BY <1>0, <1>1, <1>3, <1>4, <1>6 DEF ClientInv

(* A step in which startInLoop() runs, as connect(), restart(), the timer   *)
(* and the functor run it: when nothing else is going on.                   *)
LEMMA Started ==
  ASSUME ClientInv, ~misuse, ConnectorAlive, ~Has,
         connector.channel = "none", step # "newConnection", step' = "none",
         connector' \in ConnectorSet, connector'.asserts,
         connector'.timers \in {0, 1}, connector'.channel \in {"none", "live"},
         connector'.state = IF connector'.channel = "live" THEN "kConnecting" ELSE "kDisconnected",
         connector'.channel = "live" => connector'.timers = 0 /\ connector'.connect,
         connector'.sockets = connector.sockets + IF connector'.channel = "live" THEN 1 ELSE 0,
         QueueInv', ~Queued("startInLoop")', Queued("resetChannel")' <=> Queued("resetChannel"),
         stopper' = "loop" => ~connector'.connect /\ (client = "alive" => ~connect'),
         client # "alive" => stopper' = stopper,
         UNCHANGED <<connection, client, conns, release, phase, ready, dtor, copied, misuse>>
  PROVE  ClientInv'
<1>0. MachineInv /\ SocketsInv /\ ConnsInv /\ StopInv /\ connector \in ConnectorSet
  BY DEF ClientInv
<1>1. ~Has' /\ ~Queued("resetChannel")'
  BY <1>0 DEF Has, MachineInv
<1>2. MachineInv'
  BY <1>1 DEF MachineInv
<1>3. SocketsInv'
  <2>1. client # "thread" => connector.sockets = 0
    BY <1>0 DEF SocketsInv
  <2> QED
    BY <1>1, <2>1 DEF SocketsInv
<1>4. ConnsInv'
  BY <1>0, <1>1 DEF ConnsInv, Open
<1>5. StopInv'
  <2>1. client = "alive" \/ release
    BY <1>0 DEF ConnectorAlive, MachineInv
  <2>2. client = "loop" => stopper' = "loop" /\ connector'.channel # "live"
    BY <1>0 DEF StopInv
  <2> QED
    BY <1>0, <2>1, <2>2 DEF StopInv
<1> QED
  BY <1>2, <1>3, <1>4, <1>5 DEF ClientInv

(* connect() on the loop's thread, and on the other one.                    *)
LEMMA ConnectingOnLoop ==
  ASSUME ClientInv, ~misuse, client = "alive", ConnectCall(TRUE),
         UNCHANGED <<loopVars, step, dtorVars, misuse>>
  PROVE  ClientInv'
<1>0. QueueInv /\ connector \in ConnectorSet /\ connector.asserts
  BY DEF ClientInv
<1>1. PICK c : c = [connector EXCEPT !.connect = TRUE]
  OBVIOUS
<1>2. /\ pending' = pending /\ functors' = functors /\ stopper' = "none"
      /\ UNCHANGED <<connection, client, conns, release, phase, ready, step, dtor, copied, misuse>>
      /\ \E o \in Outcomes : connector' = StartInLoop(c, o)
  BY <1>1 DEF ConnectCall, loopVars, dtorVars
<1>3. /\ c \in ConnectorSet /\ c.asserts /\ c.sockets = connector.sockets
      /\ c.state = connector.state /\ c.channel = connector.channel /\ c.timers = connector.timers
  BY <1>0, <1>1, SetConnect
<1>4. /\ connector.state = "kDisconnected" /\ connector.channel = "none" /\ connector.timers = 0
      /\ step = "none" /\ connection = 0 /\ ~Queued("startInLoop")
  BY DEF ConnectCall, MayConnect
<1>5. PICK o \in Outcomes : connector' = StartInLoop(c, o)
  BY <1>2
<1>6. Resting(c)
  BY <1>3, <1>4 DEF Resting
<1>7. /\ connector' \in ConnectorSet /\ connector'.asserts /\ connector'.connect = c.connect
      /\ connector'.timers \in {0, 1} /\ connector'.channel \in {"none", "live"}
      /\ connector'.state = IF connector'.channel = "live" THEN "kConnecting" ELSE "kDisconnected"
      /\ connector'.channel = "live" => connector'.timers = 0 /\ c.connect
      /\ connector'.sockets = c.sockets + IF connector'.channel = "live" THEN 1 ELSE 0
  BY <1>3, <1>5, <1>6, StartFacts
<1>8. /\ QueueInv' /\ ~Queued("startInLoop")'
      /\ Queued("resetChannel")' <=> Queued("resetChannel")
  <2>1. QueueInv'
    BY <1>0, <1>2, QueueInvKept
  <2>2. \A op : Queued(op)' <=> Queued(op)
    BY <1>2, QueueKept
  <2> QED
    BY <1>4, <2>1, <2>2
<1>9. ConnectorAlive /\ ~Has
  BY <1>4 DEF ConnectorAlive, Has
<1> QED
  BY <1>2, <1>3, <1>4, <1>7, <1>8, <1>9, Started

LEMMA ConnectingOnThread ==
  ASSUME ClientInv, ~misuse, client = "alive", ConnectCall(FALSE),
         UNCHANGED <<loopVars, step, dtorVars, misuse>>
  PROVE  ClientInv'
<1>0. /\ QueueInv /\ MachineInv /\ SocketsInv /\ ConnsInv /\ StopInv
      /\ connector \in ConnectorSet /\ connector.asserts
  BY DEF ClientInv
<1>1. PICK f : f = Functor("startInLoop", 0)
  OBVIOUS
<1>2. f \in FunctorSet /\ f.op = "startInLoop"
  BY <1>1 DEF Functor, FunctorSet, Ops, CloseOps
<1>3. /\ connector' = [connector EXCEPT !.connect = TRUE]
      /\ pending' = Append(pending, f) /\ functors' = functors /\ stopper' = "none"
      /\ UNCHANGED <<connection, client, conns, release, phase, ready, step, dtor, copied, misuse>>
      /\ connector.state = "kDisconnected" /\ connector.channel = "none" /\ connector.timers = 0
      /\ step = "none" /\ connection = 0 /\ ~Queued("startInLoop")
  BY <1>1 DEF ConnectCall, MayConnect, loopVars, dtorVars
<1>4. /\ connector' \in ConnectorSet /\ connector'.asserts = connector.asserts
      /\ connector'.state = connector.state /\ connector'.channel = connector.channel
      /\ connector'.timers = connector.timers /\ connector'.sockets = connector.sockets
  BY <1>0, <1>3, SetConnect
<1>5. /\ pending' \in Seq(FunctorSet) /\ functors' \in Seq(FunctorSet)
      /\ \A op : Queued(op)' <=> Queued(op) \/ f.op = op
      /\ \A op : HasOp(pending', op) <=> HasOp(pending, op) \/ f.op = op
      /\ \A op : Single(op) /\ (f.op = op => ~Queued(op)) => Single(op)'
  BY <1>0, <1>2, <1>3, QueuePushed
<1>6. /\ Queued("resetChannel")' <=> Queued("resetChannel")
      /\ HasOp(pending, "resetChannel") => HasOp(pending', "resetChannel")
  BY <1>2, <1>5
<1>7. QueueInv'
  <2>1. \A op \in CloseOps : Queued(op)' => Queued(op)
    BY <1>2, <1>5 DEF CloseOps
  <2>2. Single("startInLoop")' /\ Single("resetChannel")'
    BY <1>0, <1>2, <1>3, <1>5 DEF QueueInv
  <2> QED
    BY <1>0, <1>3, <1>5, <2>1, <2>2 DEF QueueInv
<1>8. MachineInv'
  <2>1. ~Has' /\ ~Queued("resetChannel")'
    BY <1>0, <1>3, <1>6 DEF Has, MachineInv
  <2> QED
    BY <1>3, <1>4, <2>1 DEF MachineInv
<1>9. SocketsInv' /\ ConnsInv'
  BY <1>0, <1>3, <1>4, <1>6, SocketsKept, ConnsKept
<1>10. StopInv'
  BY <1>0, <1>3, <1>4 DEF StopInv
<1> QED
  BY <1>0, <1>4, <1>3, <1>7, <1>8, <1>9, <1>10 DEF ClientInv

(* removeConnection() goes on with restart().                               *)
LEMMA Restarting ==
  ASSUME ClientInv, ~misuse, RestartConnector
  PROVE  ClientInv'
<1>0. /\ QueueInv /\ MachineInv /\ StopInv
      /\ connector \in ConnectorSet /\ connector.asserts
  BY DEF ClientInv
<1>1. /\ step = "restart" /\ pending' = pending /\ functors' = functors
      /\ UNCHANGED <<connect, connection, client, conns, release, phase, ready, dtor, copied, stopper>>
  BY DEF RestartConnector, clientVars, loopVars, dtorVars
<1>2. CASE client = "alive"
  <2>1. PICK o \in Outcomes : connector' = Restart(connector, o)
    BY <1>2 DEF RestartConnector
  <2>2. step' = "none" /\ misuse' = misuse
    BY <1>2 DEF RestartConnector
  <2>3. /\ connector.channel = "none" /\ connector.timers = 0 /\ ~Has /\ ~Queued("startInLoop")
        /\ stopper # "loop"
    BY <1>0, <1>1 DEF MachineInv, StopInv
  <2>4. /\ connector' \in ConnectorSet /\ connector'.asserts
        /\ connector'.timers \in {0, 1} /\ connector'.channel \in {"none", "live"}
        /\ connector'.state = IF connector'.channel = "live" THEN "kConnecting" ELSE "kDisconnected"
        /\ connector'.channel = "live" => connector'.timers = 0 /\ connector'.connect
        /\ connector'.sockets = connector.sockets + IF connector'.channel = "live" THEN 1 ELSE 0
    BY <1>0, <2>1, <2>3, RestartFacts
  <2>5. QueueInv'
    BY <1>0, <1>1, QueueInvKept
  <2>6. \A op : Queued(op)' <=> Queued(op)
    BY <1>1, QueueKept
  <2>7. ~Queued("startInLoop")' /\ (Queued("resetChannel")' <=> Queued("resetChannel"))
    BY <2>3, <2>6
  <2>8. ConnectorAlive
    BY <1>2 DEF ConnectorAlive
  <2> QED
    BY <1>1, <1>2, <2>2, <2>3, <2>4, <2>5, <2>7, <2>8, Started
<1>3. CASE client # "alive"
  <2>1. misuse' = TRUE /\ connector' = connector
    BY <1>3 DEF RestartConnector
  <2>2. client = "thread"
    BY <1>0, <1>1, <1>3 DEF StopInv
  <2> QED
    BY <1>0, <1>1, <2>1, <2>2 DEF ClientInv
<1> QED
  BY <1>2, <1>3

(* The retry timer fires.                                                   *)
LEMMA Retrying ==
  ASSUME ClientInv, ~misuse, RetryTimer
  PROVE  ClientInv'
<1>0. /\ QueueInv /\ MachineInv /\ SocketsInv /\ ConnsInv /\ StopInv
      /\ connector \in ConnectorSet /\ connector.asserts
  BY DEF ClientInv
<1>1. /\ pending' = pending /\ functors' = functors /\ step = "none"
      /\ ~Queued("resetChannel") /\ connector.timers > 0
      /\ UNCHANGED <<connect, connection, client, conns, release, phase, ready, step, dtor, copied,
                     stopper, misuse>>
  BY DEF RetryTimer, clientVars, loopVars, dtorVars
<1>2. PICK c : c = [connector EXCEPT !.timers = connector.timers - 1]
  OBVIOUS
<1>3. connector.timers = 1 /\ connector.timers - 1 = 0
  BY <1>0, <1>1 DEF MachineInv
<1>4. /\ c \in ConnectorSet /\ c.asserts = connector.asserts /\ c.sockets = connector.sockets
      /\ c.state = connector.state /\ c.channel = connector.channel /\ c.timers = 0
      /\ c.connect = connector.connect
  <2>1. PICK n \in Nat : n = 0
    OBVIOUS
  <2>2. c = [connector EXCEPT !.timers = n]
    BY <1>2, <1>3, <2>1
  <2>3. c \in ConnectorSet
    BY <1>0, <2>2 DEF ConnectorSet
  <2> QED
    BY <1>0, <2>1, <2>2, <2>3 DEF ConnectorSet
<1>5. /\ connector.state = "kDisconnected" /\ connector.channel = "none"
      /\ ~Has /\ ~Queued("startInLoop")
  BY <1>0, <1>1, <1>3, ConnectorParts DEF MachineInv
<1>6. QueueInv' /\ \A op : Queued(op)' <=> Queued(op)
  BY <1>0, <1>1, QueueInvKept, QueueKept
<1>7. CASE ConnectorAlive
  <2>1. PICK o \in Outcomes : connector' = StartInLoop(c, o)
    BY <1>2, <1>7 DEF RetryTimer
  <2>2. Resting(c) /\ c.asserts
    BY <1>0, <1>4, <1>5 DEF Resting
  <2>3. /\ connector' \in ConnectorSet /\ connector'.asserts /\ connector'.connect = c.connect
        /\ connector'.timers \in {0, 1} /\ connector'.channel \in {"none", "live"}
        /\ connector'.state = IF connector'.channel = "live" THEN "kConnecting" ELSE "kDisconnected"
        /\ connector'.channel = "live" => connector'.timers = 0 /\ c.connect
        /\ connector'.sockets = c.sockets + IF connector'.channel = "live" THEN 1 ELSE 0
    BY <1>4, <2>1, <2>2, StartFacts
  <2>4. ~Queued("startInLoop")' /\ (Queued("resetChannel")' <=> Queued("resetChannel"))
    BY <1>5, <1>6
  <2>5. stopper' = "loop" => ~connector'.connect /\ (client = "alive" => ~connect')
    BY <1>0, <1>1, <1>4, <2>3 DEF StopInv
  <2> QED
    BY <1>1, <1>4, <1>5, <1>6, <1>7, <2>3, <2>4, <2>5, Started
<1>8. CASE ~ConnectorAlive
  <2>1. connector' = c
    BY <1>2, <1>8 DEF RetryTimer
  <2>2. MachineInv'
    <3>1. ~Has' /\ ~Queued("startInLoop")' /\ ~Queued("resetChannel")'
      BY <1>1, <1>5, <1>6 DEF Has
    <3> QED
      BY <1>1, <1>4, <1>5, <2>1, <3>1 DEF MachineInv
  <2>3. SocketsInv' /\ ConnsInv'
    BY <1>0, <1>1, <1>4, <1>6, <2>1, SocketsKept, ConnsKept
  <2>4. StopInv'
    BY <1>0, <1>1, <1>4, <1>5, <2>1 DEF StopInv
  <2> QED
    BY <1>0, <1>1, <1>4, <1>6, <2>1, <2>2, <2>3, <2>4 DEF ClientInv
<1> QED
  BY <1>7, <1>8

(* The timer that keeps the connector of a destroyed client alive fires.    *)
LEMMA Releasing ==
  ASSUME ClientInv, ~misuse, ReleaseTimer
  PROVE  ClientInv'
<1>0. /\ QueueInv /\ MachineInv /\ SocketsInv /\ ConnsInv /\ StopInv
      /\ connector \in ConnectorSet /\ connector.asserts
  BY DEF ClientInv
<1>1. /\ pending' = pending /\ functors' = functors /\ step = "none"
      /\ release /\ ~Queued("stopInLoop") /\ release' = FALSE
      /\ UNCHANGED <<connect, connection, client, conns, phase, ready, step, dtor, copied,
                     stopper, misuse>>
  BY DEF ReleaseTimer, loopVars, dtorVars
<1>2. QueueInv' /\ \A op : Queued(op)' <=> Queued(op)
  BY <1>0, <1>1, QueueInvKept, QueueKept
<1>3. client # "alive" /\ ~Has /\ ~Has'
  BY <1>0, <1>1 DEF StopInv, Has
<1>4. CASE Queued("resetChannel")
  <2>1. connector' = connector
    BY <1>4 DEF ReleaseTimer
  <2>2. connector.channel = "removed" /\ ConnectorAlive
    BY <1>0, <1>4 DEF MachineInv, ConnectorAlive
  <2>3. Queued("resetChannel")' /\ (Queued("startInLoop")' <=> Queued("startInLoop"))
    BY <1>2, <1>4
  <2>4. MachineInv'
    BY <1>0, <1>1, <1>3, <2>1, <2>2, <2>3 DEF MachineInv
  <2>5. SocketsInv' /\ ConnsInv'
    BY <1>0, <1>1, <1>2, <2>1, SocketsKept, ConnsKept
  <2>6. StopInv'
    BY <1>0, <1>1, <2>1, <2>2 DEF StopInv
  <2> QED
    BY <1>0, <1>1, <1>2, <2>1, <2>4, <2>5, <2>6 DEF ClientInv
<1>5. CASE ~Queued("resetChannel")
  <2>1. connector' = Destroyed(connector)
    BY <1>5 DEF ReleaseTimer
  <2>2. /\ connector' \in ConnectorSet /\ connector'.asserts = connector.asserts
        /\ connector'.state = connector.state /\ connector'.channel = "none"
        /\ connector'.connect = connector.connect /\ connector'.sockets = connector.sockets
        /\ connector'.timers = connector.timers
    BY <1>0, <2>1, DestroyedFacts
  <2>3. ~ConnectorAlive' /\ ~Queued("resetChannel")'
    BY <1>1, <1>2, <1>3, <1>5 DEF ConnectorAlive
  <2>4. Queued("startInLoop")' <=> Queued("startInLoop")
    BY <1>2
  <2>5. MachineInv'
    BY <1>0, <1>1, <1>3, <2>2, <2>3, <2>4 DEF MachineInv
  <2>6. SocketsInv'
    <3>1. client # "thread" => client = "loop" /\ connector.channel # "live"
      BY <1>0, <1>1, <1>3 DEF StopInv
    <3>2. client # "thread" => connector.sockets = 0
      BY <1>0, <1>1, <1>3, <3>1 DEF SocketsInv
    <3> QED
      BY <1>1, <1>3, <2>2, <3>2 DEF SocketsInv
  <2>7. ConnsInv'
    BY <1>0, <1>1, <1>2, ConnsKept
  <2>8. StopInv'
    BY <1>0, <1>1, <2>2 DEF StopInv
  <2> QED
    BY <1>0, <1>1, <1>2, <2>2, <2>5, <2>6, <2>7, <2>8 DEF ClientInv
<1> QED
  BY <1>4, <1>5

(* An attempt ends.                                                         *)
LEMMA Ending ==
  ASSUME ClientInv, ~misuse, NEW succeeds \in BOOLEAN, AttemptEnds(succeeds)
  PROVE  ClientInv'
<1>0. /\ QueueInv /\ MachineInv /\ SocketsInv /\ ConnsInv /\ StopInv
      /\ connector \in ConnectorSet /\ connector.asserts
  BY DEF ClientInv
<1>1. PICK f : f = Functor("resetChannel", 0)
  OBVIOUS
<1>2. f \in FunctorSet /\ f.op = "resetChannel"
  BY <1>1 DEF Functor, FunctorSet, Ops, CloseOps
<1>3. /\ phase = "events" /\ step = "none"
      /\ connector.channel = "live" /\ connector.state = "kConnecting"
      /\ ready' = ready \ {0} /\ pending' = Append(pending, f) /\ functors' = functors
      /\ UNCHANGED <<connect, connection, client, conns, release, phase, dtor, copied, stopper,
                     misuse>>
  BY <1>1 DEF AttemptEnds, clientVars, dtorVars
<1>4. ~Queued("resetChannel") /\ ~Queued("startInLoop") /\ connector.timers = 0 /\ ~Has /\ ~Has'
  BY <1>0, <1>3 DEF MachineInv, Has
<1>5. /\ pending' \in Seq(FunctorSet) /\ functors' \in Seq(FunctorSet)
      /\ \A op : Queued(op)' <=> Queued(op) \/ f.op = op
      /\ \A op : HasOp(pending', op) <=> HasOp(pending, op) \/ f.op = op
      /\ \A op : Single(op) /\ (f.op = op => ~Queued(op)) => Single(op)'
  BY <1>0, <1>2, <1>3, QueuePushed
<1>6. /\ Queued("resetChannel")' /\ ~Queued("startInLoop")' /\ HasOp(pending', "resetChannel")
  BY <1>2, <1>4, <1>5
<1>7. QueueInv'
  <2>1. \A op \in CloseOps : Queued(op)' => Queued(op)
    BY <1>2, <1>5 DEF CloseOps
  <2>2. Single("startInLoop")' /\ Single("resetChannel")'
    BY <1>0, <1>2, <1>4, <1>5 DEF QueueInv
  <2> QED
    BY <1>0, <1>3, <1>5, <2>1, <2>2 DEF QueueInv
<1>8. client # "thread" => connector.sockets = 1
  BY <1>0, <1>3, <1>4 DEF SocketsInv
<1>9. \A i \in ready' \ {0} : i \in ready \ {0}
  BY <1>3
<1>10. CASE ~succeeds
  <2>1. connector' = AttemptFails(connector) /\ step' = step
    BY <1>10 DEF AttemptEnds
  <2>2. /\ connector' \in ConnectorSet /\ connector'.asserts = connector.asserts
        /\ connector'.connect = connector.connect /\ connector'.timers \in {0, 1}
        /\ connector'.channel = "removed" /\ connector'.state = "kDisconnected"
        /\ connector'.sockets = connector.sockets - 1
    BY <1>0, <1>4, <2>1, FailFacts
  <2>3. MachineInv'
    BY <1>3, <1>4, <1>6, <2>1, <2>2 DEF MachineInv
  <2>4. SocketsInv'
    BY <1>3, <1>4, <1>8, <2>1, <2>2 DEF SocketsInv
  <2>5. ConnsInv'
    BY <1>0, <1>3, <1>4, <1>9, <2>1 DEF ConnsInv, Open
  <2>6. StopInv'
    BY <1>0, <1>3, <2>1, <2>2 DEF StopInv
  <2> QED
    BY <1>0, <1>3, <1>7, <2>2, <2>3, <2>4, <2>5, <2>6 DEF ClientInv
<1>11. CASE succeeds
  <2>1. /\ connector' = AttemptSucceeds(connector)
        /\ step' = IF connector.connect THEN "newConnection" ELSE "none"
        /\ connector.connect => \E i \in ConnIds : conns[i].state = "none"
    BY <1>11 DEF AttemptEnds
  <2>2. /\ connector' \in ConnectorSet /\ connector'.asserts = connector.asserts
        /\ connector'.connect = connector.connect /\ connector'.timers = 0
        /\ connector'.channel = "removed" /\ connector'.state = "kConnected"
        /\ connector'.sockets = IF connector.connect THEN connector.sockets
                                ELSE connector.sockets - 1
    BY <1>0, <1>4, <2>1, SucceedFacts
  <2>3. MachineInv'
    BY <1>4, <1>6, <2>1, <2>2 DEF MachineInv
  <2>4. SocketsInv'
    BY <1>3, <1>4, <1>8, <2>1, <2>2 DEF SocketsInv
  <2>5. ConnsInv'
    BY <1>0, <1>3, <1>4, <1>6, <1>9, <2>1 DEF ConnsInv, Open
  <2>6. StopInv'
    BY <1>0, <1>3, <2>1, <2>2 DEF StopInv
  <2> QED
    BY <1>0, <1>3, <1>7, <2>2, <2>3, <2>4, <2>5, <2>6 DEF ClientInv
<1> QED
  BY <1>10, <1>11

(* newConnection() of the client takes the descriptor.                      *)
LEMMA Establishing ==
  ASSUME ClientInv, ~misuse, NewConnection
  PROVE  ClientInv'
<1>0. /\ QueueInv /\ MachineInv /\ SocketsInv /\ ConnsInv /\ StopInv
      /\ connector \in ConnectorSet /\ connector.asserts
  BY DEF ClientInv
<1>1. /\ step = "newConnection" /\ connector' = connector /\ pending' = pending
      /\ functors' = functors /\ client' = client
      /\ UNCHANGED <<connect, release, phase, ready, dtor, copied, stopper>>
  BY DEF NewConnection, clientVars, loopVars, dtorVars
<1>2. CASE client # "alive"
  <2>1. misuse' = TRUE
    BY <1>2 DEF NewConnection
  <2>2. client = "thread"
    BY <1>0, <1>1, <1>2 DEF StopInv
  <2> QED
    BY <1>0, <1>1, <2>1, <2>2 DEF ClientInv
<1>3. CASE client = "alive"
  <2>1. PICK T : T = {j \in ConnIds : conns[j].state = "none"}
    OBVIOUS
  <2>2. PICK i : i = Min(T)
    OBVIOUS
  <2>3. /\ conns' = [conns EXCEPT ![i].state = "kConnected"] /\ connection' = i
        /\ step' = "none" /\ misuse' = misuse
    BY <1>3, <2>1, <2>2 DEF NewConnection
  <2>4. T \in SUBSET Nat /\ T # {}
    <3>1. \E j \in ConnIds : conns[j].state = "none"
      BY <1>0, <1>1 DEF ConnsInv
    <3>2. \A j \in ConnIds : j \in Nat
      BY ClientAssumption DEF ConnIds
    <3> QED
      BY <2>1, <3>1, <3>2
  <2>5. i \in ConnIds /\ conns[i].state = "none"
    BY <2>1, <2>2, <2>4, LeastOf
  <2>6. conns \in [ConnIds -> ConnSet]
    BY <1>0 DEF ConnsInv
  <2>7. /\ conns' \in [ConnIds -> ConnSet]
        /\ \A j \in ConnIds :
             conns'[j].cb = conns[j].cb /\ conns'[j].state = IF j = i THEN "kConnected" ELSE conns[j].state
    <3>1. PICK st \in ConnStates : st = "kConnected"
      BY DEF ConnStates
    <3>2. conns' = [conns EXCEPT ![i].state = st]
      BY <2>3, <3>1
    <3> QED
      BY <2>5, <2>6, <3>1, <3>2, ConnChanged
  <2>8. /\ connection = 0 /\ ~Has /\ ~Queued("startInLoop") /\ connector.timers = 0
        /\ connector.channel = "removed" /\ connector.state = "kConnected"
    BY <1>0, <1>1, <1>3 DEF MachineInv, Has
  <2>9. QueueInv' /\ \A op : Queued(op)' <=> Queued(op)
    BY <1>0, <1>1, QueueInvKept, QueueKept
  <2>10. 0 \notin ConnIds
    BY DEF ConnIds
  <2>11. Has'
    BY <1>1, <1>3, <2>3, <2>5, <2>10 DEF Has
  <2>12. MachineInv'
    <3>1. Queued("resetChannel")' /\ ~Queued("startInLoop")'
      BY <1>0, <2>8, <2>9 DEF MachineInv
    <3> QED
      BY <1>1, <2>3, <2>8, <3>1 DEF MachineInv
  <2>13. SocketsInv'
    BY <1>0, <1>1, <1>3, <2>3, <2>8, <2>11 DEF SocketsInv
  <2>14. ConnsInv'
    <3>1. i \notin ready
      BY <1>0, <2>5, <2>10 DEF ConnsInv
    <3>2. phase = "events" /\ HasOp(pending, "resetChannel")
      BY <1>0, <1>1 DEF ConnsInv
    <3>3. \A j \in ConnIds : ~Open(j)
      BY <1>0, <1>3, <2>8, <2>10 DEF ConnsInv
    <3>4. \A j \in ConnIds : (Open(j)' <=> j = i) /\ conns'[j].cb = "client"
      BY <1>0, <1>3, <2>7, <3>3 DEF Open, ConnsInv
    <3>5. \A j \in ready' \ {0} : j \in ConnIds /\ conns'[j].state # "none"
      BY <1>0, <1>1, <2>7 DEF ConnsInv
    <3> QED
      BY <1>0, <1>1, <1>3, <2>3, <2>5, <2>7, <3>1, <3>2, <3>4, <3>5 DEF ConnsInv
  <2>15. StopInv'
    BY <1>0, <1>1, <1>3, <2>3, <2>8 DEF StopInv
  <2> QED
    BY <1>0, <1>1, <2>3, <2>9, <2>12, <2>13, <2>14, <2>15 DEF ClientInv
<1> QED
  BY <1>2, <1>3

(* ~TcpClient() on the loop's thread.                                       *)
LEMMA DestroyingOnLoop ==
  ASSUME ClientInv, ~misuse, client = "alive", step = "none", dtor = "none", DestroyOnLoop,
         UNCHANGED <<loopVars, step, dtorVars, misuse>>
  PROVE  ClientInv'
<1>0. /\ QueueInv /\ MachineInv /\ SocketsInv /\ ConnsInv /\ StopInv
      /\ connector \in ConnectorSet /\ connector.asserts
  BY DEF ClientInv
<1>1. PICK f : f = Functor("stopInLoop", 0)
  OBVIOUS
<1>2. f \in FunctorSet /\ f.op = "stopInLoop"
  BY <1>1 DEF Functor, FunctorSet, Ops, CloseOps
<1>3. /\ client' = "loop" /\ release' = (connection = 0) /\ stopper' = "loop"
      /\ pending' = Append(pending, f) /\ functors' = functors
      /\ UNCHANGED <<connection, phase, ready, step, dtor, copied, misuse>>
  BY <1>1 DEF DestroyOnLoop, loopVars, dtorVars
<1>4. PICK n \in Int : n = IF connection = 0 THEN connector.sockets ELSE connector.sockets - 1
  BY <1>0, ConnectorParts
<1>5. PICK c : c = [connector EXCEPT !.connect = FALSE]
  OBVIOUS
<1>6. /\ c \in ConnectorSet /\ c.asserts = connector.asserts /\ c.state = connector.state
      /\ c.channel = connector.channel /\ c.timers = connector.timers /\ c.connect = FALSE
  BY <1>0, <1>5, SetConnect
<1>7. /\ connector' \in ConnectorSet /\ connector'.asserts = connector.asserts
      /\ connector'.state = connector.state /\ connector'.channel = connector.channel
      /\ connector'.timers = connector.timers /\ ~connector'.connect /\ connector'.sockets = n
  <2>1. connector' = [connector EXCEPT !.connect = FALSE, !.sockets = n]
    BY <1>4 DEF DestroyOnLoop
  <2>2. connector' = [c EXCEPT !.sockets = n]
    BY <1>5, <2>1
  <2> QED
    BY <1>6, <2>2, SetSockets
<1>8. /\ pending' \in Seq(FunctorSet) /\ functors' \in Seq(FunctorSet)
      /\ \A op : Queued(op)' <=> Queued(op) \/ f.op = op
      /\ \A op : Single(op) /\ (f.op = op => ~Queued(op)) => Single(op)'
  BY <1>0, <1>2, <1>3, QueuePushed
<1>9. /\ Queued("resetChannel")' <=> Queued("resetChannel")
      /\ Queued("startInLoop")' <=> Queued("startInLoop")
      /\ Queued("stopInLoop")'
  BY <1>2, <1>8
<1>10. QueueInv'
  <2>1. \A op \in CloseOps : Queued(op)' => Queued(op)
    BY <1>2, <1>8 DEF CloseOps
  <2>2. Single("startInLoop")' /\ Single("resetChannel")'
    BY <1>0, <1>2, <1>8 DEF QueueInv
  <2> QED
    BY <1>0, <1>3, <1>8, <2>1, <2>2 DEF QueueInv
<1>11. ~Has' /\ (Has <=> connection # 0) /\ ConnectorAlive
  BY <1>3 DEF Has, ConnectorAlive
<1>12. MachineInv'
  BY <1>0, <1>3, <1>7, <1>9, <1>11 DEF MachineInv
<1>13. SocketsInv'
  BY <1>0, <1>3, <1>4, <1>7, <1>11 DEF SocketsInv
<1>14. ConnsInv'
  <2>0. conns \in [ConnIds -> ConnSet] /\ connection \in {0} \cup ConnIds /\ 0 \notin ConnIds
    BY <1>0 DEF ConnsInv, ConnIds
  <2>1. /\ conns' \in [ConnIds -> ConnSet]
        /\ \A j \in ConnIds : j = connection \/ conns'[j] = conns[j]
        /\ \A j \in ConnIds : j = connection => conns'[j].state = "destroyed"
    <3>1. CASE connection = 0
      <4>1. conns' = conns
        BY <3>1 DEF DestroyOnLoop
      <4> QED
        BY <2>0, <3>1, <4>1
    <3>2. CASE connection # 0
      <4>1. PICK k \in ConnIds, r \in ConnSet :
              k = connection /\ r = [state |-> "destroyed", cb |-> "none"]
        BY <2>0, <3>2 DEF ConnSet, ConnStates
      <4>2. conns' = [conns EXCEPT ![k] = r]
        BY <3>2, <4>1 DEF DestroyOnLoop
      <4> QED
        BY <2>0, <4>1, <4>2
    <3> QED
      BY <3>1, <3>2
  <2>2. \A j \in ConnIds : ~Open(j)'
    BY <1>0, <2>1 DEF ConnsInv, Open
  <2>3. \A j \in ready' \ {0} : j \in ConnIds /\ conns'[j].state # "none"
    BY <1>0, <1>3, <2>1 DEF ConnsInv
  <2> QED
    BY <1>0, <1>3, <1>11, <2>1, <2>2, <2>3 DEF ConnsInv
<1>15. StopInv'
  <2>1. connector'.channel = "live" => release'
    BY <1>0, <1>3, <1>7, <1>11 DEF MachineInv
  <2> QED
    BY <1>0, <1>3, <1>7, <1>9, <2>1 DEF StopInv
<1> QED
  BY <1>0, <1>3, <1>7, <1>10, <1>12, <1>13, <1>14, <1>15 DEF ClientInv

(* handleClose() of an open connection: of the client's own while no reset  *)
(* of the connector's channel is queued, or of a destroyed client's.        *)
LEMMA Closing ==
  ASSUME ClientInv, ~misuse, NEW i \in ConnIds, Open(i), HandleClose(i), step = "none",
         client = "alive" => ~Queued("resetChannel"),
         QueueInv', Queued("resetChannel")' <=> Queued("resetChannel"),
         Queued("startInLoop")' => Queued("startInLoop"),
         Queued("stopInLoop") => Queued("stopInLoop")',
         ready' \subseteq ready,
         UNCHANGED <<phase, dtor, copied, stopper>>
  PROVE  ClientInv'
<1>0. /\ MachineInv /\ SocketsInv /\ ConnsInv /\ StopInv
      /\ connector \in ConnectorSet /\ connector.asserts
  BY DEF ClientInv
<1>1. conns \in [ConnIds -> ConnSet] /\ 0 \notin ConnIds
  BY <1>0 DEF ConnsInv, ConnIds
<1>2. PICK n \in Int : n = connector.sockets - 1
  BY <1>0, ConnectorParts
<1>3. PICK free : free = [connector EXCEPT !.sockets = n]
  OBVIOUS
<1>4. /\ free \in ConnectorSet /\ free.asserts = connector.asserts /\ free.state = connector.state
      /\ free.channel = connector.channel /\ free.timers = connector.timers
      /\ free.connect = connector.connect /\ free.sockets = n
  <2>1. PICK c \in ConnectorSet : c = connector
    BY <1>0
  <2>2. free = [c EXCEPT !.sockets = n]
    BY <1>3, <2>1
  <2> QED
    BY <2>1, <2>2, SetSockets
<1>5. PICK gone : gone = [conns EXCEPT ![i].state = "destroyed"]
  OBVIOUS
<1>6. /\ gone \in [ConnIds -> ConnSet]
      /\ \A j \in ConnIds :
           gone[j].cb = conns[j].cb /\ gone[j].state = IF j = i THEN "destroyed" ELSE conns[j].state
  <2>1. PICK st \in ConnStates : st = "destroyed"
    BY DEF ConnStates
  <2>2. gone = [conns EXCEPT ![i].state = st]
    BY <1>5, <2>1
  <2> QED
    BY <1>1, <2>1, <2>2, ConnChanged
<1>7. client # "loop"
  BY <1>0 DEF ConnsInv
<1>8. CASE conns[i].cb = "client" /\ client = "alive"
  <2>1. /\ conns' = gone /\ connection' = 0 /\ step' = NextAttempt
        /\ connector' = [free EXCEPT !.asserts = @ /\ connection = i]
        /\ UNCHANGED <<connect, client, release, misuse>>
    BY <1>2, <1>3, <1>5, <1>8 DEF HandleClose
  <2>2. connection = i /\ Has
    BY <1>0, <1>1, <1>8 DEF ConnsInv, Has
  <2>3. connector' = free
    <3>1. free.asserts = TRUE
      BY <1>0, <1>4, ConnectorParts
    <3> QED
      BY <1>4, <2>1, <2>2, <3>1 DEF ConnectorSet
  <2>4. /\ connector.state = "kConnected" /\ connector.timers = 0 /\ ~Queued("startInLoop")
        /\ connector.channel = "none"
    BY <1>0, <1>8, <2>2, ConnectorParts DEF MachineInv
  <2>5. ~Has' /\ step' \in {"none", "restart"} /\ ~Queued("resetChannel")' /\ ~Queued("startInLoop")'
    BY <1>8, <2>1, <2>4 DEF Has, NextAttempt
  <2>6. MachineInv'
    BY <1>4, <2>3, <2>4, <2>5 DEF MachineInv
  <2>7. SocketsInv'
    <3>1. connector.sockets = 1
      BY <1>0, <1>8, <2>2, <2>4 DEF SocketsInv
    <3> QED
      BY <1>2, <1>4, <2>3, <2>4, <2>5, <3>1 DEF SocketsInv
  <2>8. ConnsInv'
    <3>1. \A j \in ConnIds : (Open(j)' <=> j = connection') /\ conns'[j].cb = "client"
      BY <1>0, <1>1, <1>6, <1>8, <2>1, <2>2 DEF ConnsInv, Open
    <3>2. \A j \in ready' \ {0} : j \in ConnIds /\ conns'[j].state # "none"
      BY <1>0, <1>6, <2>1 DEF ConnsInv
    <3> QED
      BY <1>0, <1>6, <1>8, <2>1, <2>5, <3>1, <3>2 DEF ConnsInv
  <2>9. StopInv'
    <3>1. stopper = "loop" => step' = "none"
      BY <1>0, <1>8, <2>1 DEF StopInv, NextAttempt
    <3> QED
      BY <1>0, <1>4, <1>8, <2>1, <2>3, <2>4, <2>5, <3>1 DEF StopInv
  <2> QED
    BY <1>0, <1>4, <2>1, <2>3, <2>6, <2>7, <2>8, <2>9 DEF ClientInv
<1>9. CASE conns[i].cb = "client" /\ client # "alive"
  <2>1. misuse' = TRUE /\ connector' = connector /\ client' = client
    BY <1>9 DEF HandleClose, clientVars
  <2>2. client = "thread"
    BY <1>0, <1>7, <1>9 DEF StopInv
  <2> QED
    BY <1>0, <2>1, <2>2 DEF ClientInv
<1>10. CASE conns[i].cb = "detail"
  <2>1. /\ conns' = gone /\ connector' = free
        /\ UNCHANGED <<connect, connection, client, release, step, misuse>>
    BY <1>2, <1>3, <1>5, <1>10 DEF HandleClose
  <2>2. client = "thread" /\ ~Has /\ ~Has'
    BY <1>0, <1>7, <1>10, <2>1 DEF ConnsInv, StopInv, Has
  <2>3. MachineInv' /\ SocketsInv'
    BY <1>0, <1>4, <2>1, <2>2, MachineKept DEF SocketsInv
  <2>4. ConnsInv'
    <3>1. \A j \in ready' \ {0} : j \in ConnIds /\ conns'[j].state # "none"
      BY <1>0, <1>6, <2>1 DEF ConnsInv
    <3> QED
      BY <1>0, <1>6, <2>1, <2>2, <3>1 DEF ConnsInv
  <2>5. StopInv'
    BY <1>0, <1>4, <2>1, <2>2 DEF StopInv
  <2> QED
    BY <1>0, <1>4, <2>1, <2>3, <2>4, <2>5 DEF ClientInv
<1> QED
  BY <1>8, <1>9, <1>10 DEF HandleClose

(* An event of a connection.                                                *)
LEMMA PeerClosing ==
  ASSUME ClientInv, ~misuse, NEW i \in ConnIds, ConnectionEnds(i)
  PROVE  ClientInv'
<1>0. /\ QueueInv /\ MachineInv /\ SocketsInv /\ ConnsInv /\ StopInv
      /\ connector \in ConnectorSet /\ connector.asserts
  BY DEF ClientInv
<1>1. /\ step = "none" /\ i \in ready /\ ready' = ready \ {i}
      /\ pending' = pending /\ functors' = functors
      /\ UNCHANGED <<phase, dtor, copied, stopper>>
  BY DEF ConnectionEnds, dtorVars
<1>2. \A op : Queued(op)' <=> Queued(op)
  BY <1>1, QueueKept
<1>3. CASE Open(i)
  <2>1. HandleClose(i)
    BY <1>3 DEF ConnectionEnds
  <2>2. client' = client
    BY <2>1 DEF HandleClose, clientVars
  <2>3. QueueInv'
    BY <1>0, <1>1, <2>2, QueueInvKept
  <2>4. 0 \notin ConnIds
    BY DEF ConnIds
  <2>5. client = "alive" => ~Queued("resetChannel")
    BY <1>0, <1>1, <1>3, <2>4 DEF ConnsInv, Has
  <2> QED
    BY <1>1, <1>2, <1>3, <2>1, <2>3, <2>5, Closing
<1>4. CASE ~Open(i)
  <2>1. UNCHANGED <<connector, connect, connection, client, conns, release, step, misuse>>
    BY <1>4 DEF ConnectionEnds, clientVars
  <2>2. QueueInv' /\ MachineInv' /\ SocketsInv' /\ StopInv'
    BY <1>0, <1>1, <1>2, <2>1, QueueInvKept, MachineKept, SocketsKept, StopKept DEF StopInv
  <2>3. ConnsInv'
    <3>1. (Has <=> Has') /\ (Queued("resetChannel")' <=> Queued("resetChannel"))
      BY <1>2, <2>1 DEF Has
    <3>2. \A j \in ready' : j \in ready
      BY <1>1
    <3> QED
      BY <1>0, <1>1, <2>1, <3>1, <3>2 DEF ConnsInv, Open
  <2> QED
    BY <1>0, <2>1, <2>2, <2>3 DEF ClientInv
<1> QED
  BY <1>3, <1>4

(* The last step of the destructor on the other thread.                     *)
LEMMA QueueClosing ==
  ASSUME QueueInv, functors' = functors, NEW f \in FunctorSet, NEW g \in FunctorSet,
         f.op = "setCloseCallback", g.op = "forceClose",
         pending' = Append(pending, f) \/ pending' = Append(Append(pending, f), g)
  PROVE  /\ pending' \in Seq(FunctorSet) /\ functors' \in Seq(FunctorSet)
         /\ \A op : op \notin CloseOps =>
              /\ Queued(op)' <=> Queued(op)
              /\ HasOp(pending, op) => HasOp(pending', op)
              /\ Single(op) => Single(op)'
<1>1. pending \in Seq(FunctorSet) /\ functors \in Seq(FunctorSet)
  BY DEF QueueInv
<1>2. PICK one : one = Append(pending, f)
  OBVIOUS
<1>3. /\ one \in Seq(FunctorSet)
      /\ \A op : HasOp(one, op) <=> HasOp(pending, op) \/ f.op = op
      /\ \A op : Lone(pending, op) /\ (f.op = op => ~HasOp(pending, op)) => Lone(one, op)
  BY <1>1, <1>2, AppendOps, AppendProperties
<1>4. PICK two : two = Append(one, g)
  OBVIOUS
<1>5. /\ two \in Seq(FunctorSet)
      /\ \A op : HasOp(two, op) <=> HasOp(one, op) \/ g.op = op
      /\ \A op : Lone(one, op) /\ (g.op = op => ~HasOp(one, op)) => Lone(two, op)
  BY <1>3, <1>4, AppendOps, AppendProperties
<1>6. pending' \in Seq(FunctorSet) /\ functors' \in Seq(FunctorSet) /\ pending' \in {one, two}
  BY <1>1, <1>2, <1>3, <1>4, <1>5
<1>7. \A op : op \notin CloseOps => f.op # op /\ g.op # op
  BY DEF CloseOps
<1>8. \A op : op \notin CloseOps =>
        /\ HasOp(pending', op) <=> HasOp(pending, op)
        /\ Lone(pending, op) => Lone(pending', op)
  BY <1>3, <1>5, <1>6, <1>7
<1>9. \A op : Queued(op)' <=> HasOp(pending', op) \/ HasOp(functors, op)
  BY <1>6, QueuedNext
<1> QED
  BY <1>6, <1>8, <1>9, QueuedNow DEF Single

LEMMA Finishing ==
  ASSUME ClientInv, ~misuse, ThreadFinishes
  PROVE  ClientInv'
<1>0. /\ QueueInv /\ MachineInv /\ SocketsInv /\ ConnsInv /\ StopInv
      /\ connector \in ConnectorSet /\ connector.asserts
  BY DEF ClientInv
<1>1. /\ dtor = "copied" /\ dtor' = "done" /\ client' = "thread" /\ connector' = connector
      /\ functors' = functors
      /\ UNCHANGED <<connect, connection, phase, ready, step, copied, stopper>>
  BY DEF ThreadFinishes, loopVars
<1>2. client = "alive" /\ ~release /\ ConnectorAlive /\ ~Has'
  BY <1>0, <1>1 DEF StopInv, ConnectorAlive, Has
<1>3. CASE copied = 0
  <2>1. release' = TRUE /\ pending' = pending /\ conns' = conns /\ misuse' = misuse
    BY <1>3 DEF ThreadFinishes
  <2>2. \A op : (Queued(op)' <=> Queued(op)) /\ (Single(op) => Single(op)')
    BY <1>1, <2>1, QueueKept
  <2>3. QueueInv'
    BY <1>0, <1>1, <2>1, <2>2 DEF QueueInv
  <2>4. MachineInv' /\ SocketsInv'
    <3>1. /\ Queued("resetChannel")' <=> Queued("resetChannel")
          /\ Queued("startInLoop")' <=> Queued("startInLoop")
      BY <2>2
    <3> QED
      BY <1>0, <1>1, <1>2, <3>1 DEF MachineInv, SocketsInv
  <2>5. ConnsInv'
    BY <1>0, <1>1, <1>2, <2>1 DEF ConnsInv, Open
  <2>6. StopInv'
    BY <1>0, <1>1, <2>1 DEF StopInv
  <2> QED
    BY <1>0, <1>1, <2>1, <2>3, <2>4, <2>5, <2>6 DEF ClientInv
<1>4. CASE copied # 0 /\ misuse'
  BY <1>0, <1>1, <1>4 DEF ClientInv
<1>5. CASE copied # 0 /\ ~misuse'
  <2>0. copied \in ConnIds /\ conns \in [ConnIds -> ConnSet]
    BY <1>0, <1>5 DEF ConnsInv
  <2>1. PICK f, g : f = Functor("setCloseCallback", copied) /\ g = Functor("forceClose", copied)
    OBVIOUS
  <2>2. /\ f \in FunctorSet /\ f.op = "setCloseCallback"
        /\ g \in FunctorSet /\ g.op = "forceClose"
    BY <2>0, <2>1 DEF Functor, FunctorSet, Ops, CloseOps
  <2>3. pending' = Append(pending, f) \/ pending' = Append(Append(pending, f), g)
    <3>1. PICK s \in Seq(FunctorSet) : s = pending
      BY <1>0 DEF QueueInv
    <3>2. Append(s, f) \in Seq(FunctorSet) /\ Append(s, f) = s \o <<f>>
      BY <2>2, AppendProperties, AppendIsConcat
    <3>3. (s \o <<f>>) \o <<>> = s \o <<f>>
      BY <3>2, ConcatEmptySeq
    <3>4. (s \o <<f>>) \o <<g>> = Append(s \o <<f>>, g)
      BY <2>2, <3>2, AppendIsConcat
    <3>5. pending' = s \o <<f>> \o (IF Open(copied) THEN <<g>> ELSE <<>>)
      BY <1>5, <2>1, <3>1 DEF ThreadFinishes
    <3>6. CASE Open(copied)
      BY <3>1, <3>2, <3>4, <3>5, <3>6
    <3>7. CASE ~Open(copied)
      BY <3>1, <3>2, <3>3, <3>5, <3>7
    <3> QED
      BY <3>6, <3>7
  <2>4. /\ pending' \in Seq(FunctorSet) /\ functors' \in Seq(FunctorSet)
        /\ \A op : op \notin CloseOps =>
             /\ Queued(op)' <=> Queued(op)
             /\ HasOp(pending, op) => HasOp(pending', op)
             /\ Single(op) => Single(op)'
    BY <1>0, <1>1, <2>2, <2>3, QueueClosing
  <2>5. "startInLoop" \notin CloseOps /\ "resetChannel" \notin CloseOps
    BY DEF CloseOps
  <2>6. /\ Queued("startInLoop")' <=> Queued("startInLoop")
        /\ Queued("resetChannel")' <=> Queued("resetChannel")
        /\ HasOp(pending, "resetChannel") => HasOp(pending', "resetChannel")
        /\ Single("startInLoop") => Single("startInLoop")'
        /\ Single("resetChannel") => Single("resetChannel")'
    BY <2>4, <2>5
  <2>7. QueueInv'
    BY <1>0, <1>1, <2>4, <2>6 DEF QueueInv
  <2>8. release' = release /\ connector.channel # "live"
    BY <1>0, <1>5 DEF ThreadFinishes, MachineInv
  <2>9. MachineInv' /\ SocketsInv'
    BY <1>0, <1>1, <1>2, <2>6, <2>8 DEF MachineInv, SocketsInv
  <2>10. /\ conns' \in [ConnIds -> ConnSet]
         /\ \A j \in ConnIds : conns'[j].state = "none" <=> conns[j].state = "none"
    <3>1. CASE Open(copied)
      <4>1. PICK k \in ConnIds, st \in ConnStates : k = copied /\ st = "kDisconnecting"
        BY <2>0 DEF ConnStates
      <4>2. conns' = [conns EXCEPT ![k].state = st]
        BY <1>5, <3>1, <4>1 DEF ThreadFinishes
      <4>3. /\ conns' \in [ConnIds -> ConnSet]
            /\ \A j \in ConnIds : conns'[j].state = IF j = k THEN st ELSE conns[j].state
        BY <2>0, <4>2, ConnChanged
      <4>4. conns[k].state # "none"
        BY <3>1, <4>1 DEF Open
      <4> QED
        BY <4>1, <4>3, <4>4
    <3>2. CASE ~Open(copied)
      <4>1. conns' = conns
        BY <1>5, <3>2 DEF ThreadFinishes
      <4> QED
        BY <2>0, <4>1
    <3> QED
      BY <3>1, <3>2
  <2>11. ConnsInv'
    BY <1>0, <1>1, <1>2, <2>6, <2>10 DEF ConnsInv
  <2>12. StopInv'
    BY <1>0, <1>1, <2>8 DEF StopInv
  <2> QED
    BY <1>0, <1>1, <2>7, <2>9, <2>11, <2>12 DEF ClientInv
<1> QED
  BY <1>3, <1>4, <1>5

----------------------------------------------------------------------------
(* The functors.                                                            *)
Running(f) ==
  /\ phase = "functors" /\ step = "none" /\ functors # <<>>
  /\ f = Head(functors) /\ functors' = Tail(functors)
  /\ UNCHANGED <<phase, ready, dtor, copied, stopper>>

LEMMA QueueInvRun ==
  ASSUME QueueInv, NEW f, Running(f), pending' = pending, client' = client
  PROVE  QueueInv'
<1>1. /\ pending' \in Seq(FunctorSet) /\ functors' \in Seq(FunctorSet)
      /\ \A op : Queued(op)' => Queued(op)
      /\ \A op : Single(op) => Single(op)'
  BY QueueRun DEF Running
<1> QED
  BY <1>1 DEF QueueInv, Running

(* A functor that neither starts nor resets has nothing to do.              *)
LEMMA RunNothing ==
  ASSUME ClientInv, ~misuse, NEW f, Running(f), f.op # "resetChannel",
         f.op = "stopInLoop" => connector.channel # "live",
         UNCHANGED <<connector, connect, connection, client, conns, release, step, pending, misuse>>
  PROVE  ClientInv'
<1>0. /\ QueueInv /\ MachineInv /\ SocketsInv /\ ConnsInv /\ StopInv
      /\ connector \in ConnectorSet /\ connector.asserts
  BY DEF ClientInv
<1>1. /\ \A op : Queued(op)' => Queued(op)
      /\ \A op : f.op # op => (HasOp(functors, op) => HasOp(functors', op))
      /\ \A op : f.op # op => (Queued(op) => Queued(op)')
  BY <1>0, QueueRun DEF Running
<1>2. /\ Queued("resetChannel")' <=> Queued("resetChannel")
      /\ Queued("startInLoop")' => Queued("startInLoop")
      /\ HasOp(functors, "resetChannel") => HasOp(functors', "resetChannel")
      /\ connector.channel = "live" => (Queued("stopInLoop") => Queued("stopInLoop")')
  BY <1>1
<1>3. QueueInv' /\ MachineInv' /\ SocketsInv'
  BY <1>0, <1>2, QueueInvRun, MachineKept, SocketsKept
<1>4. ConnsInv'
  <2>1. Has <=> Has'
    BY DEF Has
  <2> QED
    BY <1>0, <1>2, <2>1 DEF ConnsInv, Open, Running
<1>5. StopInv'
  BY <1>0, <1>2 DEF StopInv, Running
<1> QED
  BY <1>0, <1>3, <1>4, <1>5 DEF ClientInv

LEMMA RunStart ==
  ASSUME ClientInv, ~misuse, NEW f, Running(f), f.op = "startInLoop", ConnectorAlive,
         NEW o \in Outcomes, connector' = StartInLoop(connector, o),
         UNCHANGED <<connect, connection, client, conns, release, step, pending, misuse>>
  PROVE  ClientInv'
<1>0. QueueInv /\ MachineInv /\ StopInv /\ connector \in ConnectorSet /\ connector.asserts
  BY DEF ClientInv
<1>1. /\ Queued(f.op)
      /\ \A op : Queued(op)' => Queued(op)
      /\ \A op : f.op # op => (Queued(op) => Queued(op)')
      /\ \A op : Single(op) => Single(op)' /\ (f.op = op => ~Queued(op)')
  BY <1>0, QueueRun DEF Running
<1>2. /\ Queued("startInLoop") /\ ~Queued("startInLoop")'
      /\ Queued("resetChannel")' <=> Queued("resetChannel")
  BY <1>0, <1>1 DEF QueueInv
<1>3. /\ connector.state = "kDisconnected" /\ connector.channel = "none"
      /\ connector.timers = 0 /\ ~Has
  BY <1>0, <1>2 DEF MachineInv
<1>4. Resting(connector)
  BY <1>3 DEF Resting
<1>5. /\ connector' \in ConnectorSet /\ connector'.asserts /\ connector'.connect = connector.connect
      /\ connector'.timers \in {0, 1} /\ connector'.channel \in {"none", "live"}
      /\ connector'.state = IF connector'.channel = "live" THEN "kConnecting" ELSE "kDisconnected"
      /\ connector'.channel = "live" => connector'.timers = 0 /\ connector.connect
      /\ connector'.sockets = connector.sockets + IF connector'.channel = "live" THEN 1 ELSE 0
  BY <1>0, <1>4, StartFacts
<1>6. QueueInv'
  BY <1>0, QueueInvRun
<1>7. stopper' = "loop" => ~connector'.connect /\ (client = "alive" => ~connect')
  BY <1>0, <1>5 DEF StopInv, Running
<1> QED
  BY <1>2, <1>3, <1>5, <1>6, <1>7, Started DEF Running

LEMMA RunStop ==
  ASSUME ClientInv, ~misuse, NEW f, Running(f), f.op = "stopInLoop", ConnectorAlive,
         connector.state = "kConnecting", connector' = StopInLoop(connector),
         pending' = Append(pending, Functor("resetChannel", 0)),
         UNCHANGED <<connect, connection, client, conns, release, step, misuse>>
  PROVE  ClientInv'
<1>0. /\ QueueInv /\ MachineInv /\ SocketsInv /\ ConnsInv /\ StopInv
      /\ connector \in ConnectorSet /\ connector.asserts
  BY DEF ClientInv
<1>1. PICK g : g = Functor("resetChannel", 0)
  OBVIOUS
<1>2. g \in FunctorSet /\ g.op = "resetChannel"
  BY <1>1 DEF Functor, FunctorSet, Ops, CloseOps
<1>3. /\ pending' \in Seq(FunctorSet) /\ functors' \in Seq(FunctorSet)
      /\ \A op : Queued(op)' => Queued(op) \/ g.op = op
      /\ Queued(g.op)'
      /\ \A op : Single(op) /\ (g.op = op => ~Queued(op)) => Single(op)'
  BY <1>0, <1>1, <1>2, QueueRunPushed DEF Running
<1>4. /\ connector.channel = "live" /\ ~Has /\ ~Has' /\ step = "none" /\ connector.timers = 0
      /\ ~Queued("resetChannel") /\ ~Queued("startInLoop")
  BY <1>0 DEF MachineInv, Has, Running
<1>5. Queued("resetChannel")' /\ ~Queued("startInLoop")'
  BY <1>2, <1>3, <1>4
<1>6. /\ connector' \in ConnectorSet /\ connector'.asserts = connector.asserts
      /\ connector'.connect = connector.connect /\ connector'.timers = connector.timers
      /\ connector'.channel = "removed" /\ connector'.state = "kDisconnected"
      /\ connector'.sockets = connector.sockets - 1
  BY <1>0, StopFacts
<1>7. QueueInv'
  <2>1. \A op \in CloseOps : Queued(op)' => Queued(op)
    BY <1>2, <1>3 DEF CloseOps
  <2>2. Single("startInLoop")' /\ Single("resetChannel")'
    BY <1>0, <1>2, <1>3, <1>4 DEF QueueInv
  <2> QED
    BY <1>0, <1>3, <2>1, <2>2 DEF QueueInv, Running
<1>8. MachineInv'
  BY <1>4, <1>5, <1>6 DEF MachineInv
<1>9. SocketsInv'
  BY <1>0, <1>4, <1>6 DEF SocketsInv
<1>10. ConnsInv'
  BY <1>0, <1>4 DEF ConnsInv, Open, Running
<1>11. StopInv'
  BY <1>0, <1>6 DEF StopInv, Running
<1> QED
  BY <1>0, <1>6, <1>7, <1>8, <1>9, <1>10, <1>11 DEF ClientInv

LEMMA RunReset ==
  ASSUME ClientInv, ~misuse, NEW f, Running(f), f.op = "resetChannel",
         connector' = ResetChannel(connector),
         UNCHANGED <<connect, connection, client, conns, release, step, pending, misuse>>
  PROVE  ClientInv'
<1>0. /\ QueueInv /\ MachineInv /\ SocketsInv /\ ConnsInv /\ StopInv
      /\ connector \in ConnectorSet /\ connector.asserts
  BY DEF ClientInv
<1>1. /\ Queued(f.op)
      /\ \A op : Queued(op)' => Queued(op)
      /\ \A op : Single(op) => Single(op)' /\ (f.op = op => ~Queued(op)')
  BY <1>0, QueueRun DEF Running
<1>2. /\ Queued("resetChannel") /\ ~Queued("resetChannel")'
      /\ Queued("startInLoop")' => Queued("startInLoop")
  BY <1>0, <1>1 DEF QueueInv
<1>3. /\ connector.channel = "removed" /\ ~Queued("startInLoop")'
      /\ connector.state # "kConnecting" /\ (Has <=> Has')
  BY <1>0, <1>2 DEF MachineInv, ConnectorAlive, Has
<1>4. /\ connector' \in ConnectorSet /\ connector'.asserts /\ connector'.connect = connector.connect
      /\ connector'.state = connector.state /\ connector'.timers = connector.timers
      /\ connector'.channel = "none" /\ connector'.sockets = connector.sockets
  BY <1>0, <1>3, ResetFacts
<1>5. QueueInv'
  BY <1>0, QueueInvRun
<1>6. MachineInv'
  BY <1>0, <1>2, <1>3, <1>4 DEF MachineInv, Running
<1>7. SocketsInv'
  BY <1>0, <1>3, <1>4 DEF SocketsInv
<1>8. ConnsInv'
  BY <1>0, <1>2 DEF ConnsInv, Open, Running
<1>9. StopInv'
  BY <1>0, <1>4 DEF StopInv, Running
<1> QED
  BY <1>4, <1>5, <1>6, <1>7, <1>8, <1>9 DEF ClientInv

LEMMA RunSetCallback ==
  ASSUME ClientInv, ~misuse, NEW f, Running(f), f.op = "setCloseCallback",
         conns' = [conns EXCEPT ![f.conn].cb = "detail"],
         UNCHANGED <<connector, connect, connection, client, release, step, pending, misuse>>
  PROVE  ClientInv'
<1>0. /\ QueueInv /\ MachineInv /\ SocketsInv /\ ConnsInv /\ StopInv
      /\ connector \in ConnectorSet /\ connector.asserts
  BY DEF ClientInv
<1>1. /\ Queued(f.op) /\ f \in FunctorSet
      /\ \A op : Queued(op)' => Queued(op)
      /\ \A op : f.op # op => (Queued(op) => Queued(op)')
  BY <1>0, QueueRun DEF Running
<1>2. /\ Queued("resetChannel")' <=> Queued("resetChannel")
      /\ Queued("startInLoop")' => Queued("startInLoop")
      /\ Queued("stopInLoop") => Queued("stopInLoop")'
  BY <1>1
<1>3. client = "thread" /\ ~Has'
  BY <1>0, <1>1 DEF QueueInv, CloseOps, Has
<1>4. PICK i \in ConnIds : i = f.conn
  BY <1>1 DEF FunctorSet, CloseOps
<1>5. /\ conns' \in [ConnIds -> ConnSet]
      /\ \A j \in ConnIds : conns'[j].state = conns[j].state
  <2>0. conns \in [ConnIds -> ConnSet]
    BY <1>0 DEF ConnsInv
  <2>1. PICK r : r = [conns[i] EXCEPT !.cb = "detail"]
    OBVIOUS
  <2>2. r \in ConnSet /\ r.state = conns[i].state
    BY <2>0, <2>1 DEF ConnSet
  <2>3. conns' = [conns EXCEPT ![i] = r]
    BY <1>4, <2>1
  <2> QED
    BY <2>0, <2>2, <2>3
<1>6. QueueInv' /\ MachineInv' /\ SocketsInv'
  BY <1>0, <1>2, QueueInvRun, MachineKept, SocketsKept
<1>7. ConnsInv'
  BY <1>0, <1>3, <1>5 DEF ConnsInv, Running
<1>8. StopInv'
  BY <1>0, <1>2 DEF StopInv, Running
<1> QED
  BY <1>0, <1>6, <1>7, <1>8 DEF ClientInv

LEMMA RunForceClose ==
  ASSUME ClientInv, ~misuse, NEW f, Running(f), f.op = "forceClose", Open(f.conn),
         HandleClose(f.conn), pending' = pending
  PROVE  ClientInv'
<1>0. QueueInv /\ ConnsInv
  BY DEF ClientInv
<1>1. /\ Queued(f.op) /\ f \in FunctorSet
      /\ \A op : Queued(op)' => Queued(op)
      /\ \A op : f.op # op => (Queued(op) => Queued(op)')
  BY <1>0, QueueRun DEF Running
<1>2. /\ Queued("resetChannel")' <=> Queued("resetChannel")
      /\ Queued("startInLoop")' => Queued("startInLoop")
      /\ Queued("stopInLoop") => Queued("stopInLoop")'
  BY <1>1
<1>3. client = "thread"
  BY <1>0, <1>1 DEF QueueInv, CloseOps
<1>4. f.conn \in ConnIds
  BY <1>1 DEF FunctorSet, CloseOps
<1>5. client' = client
  BY DEF HandleClose, clientVars
<1>6. QueueInv'
  BY <1>0, <1>5, QueueInvRun
<1> QED
  BY <1>2, <1>3, <1>4, <1>6, Closing DEF Running

LEMMA RunningFunctor ==
  ASSUME ClientInv, ~misuse, RunFunctor
  PROVE  ClientInv'
<1>0. MachineInv /\ StopInv
  BY DEF ClientInv
<1>1. PICK f : f = Head(functors)
  OBVIOUS
<1>2. Running(f)
  BY <1>1 DEF RunFunctor, Running, dtorVars
<1>3. CASE /\ f.op = "startInLoop"
           /\ IF ConnectorAlive
              THEN \E o \in Outcomes : connector' = StartInLoop(connector, o)
              ELSE UNCHANGED connector
           /\ UNCHANGED <<clientVars, step, pending, misuse>>
  <2>1. UNCHANGED <<connect, connection, client, conns, release, step, pending, misuse>>
    BY <1>3 DEF clientVars
  <2>2. CASE ConnectorAlive
    BY <1>2, <1>3, <2>1, <2>2, RunStart
  <2>3. CASE ~ConnectorAlive
    BY <1>2, <1>3, <2>1, <2>3, RunNothing
  <2> QED
    BY <2>2, <2>3
<1>4. CASE /\ f.op = "stopInLoop"
           /\ IF ConnectorAlive
              THEN /\ connector' = StopInLoop(connector)
                   /\ pending' = IF connector.state = "kConnecting"
                                 THEN Append(pending, Functor("resetChannel", 0)) ELSE pending
              ELSE UNCHANGED <<connector, pending>>
           /\ UNCHANGED <<clientVars, step, misuse>>
  <2>1. UNCHANGED <<connect, connection, client, conns, release, step, misuse>>
    BY <1>4 DEF clientVars
  <2>2. CASE ConnectorAlive /\ connector.state = "kConnecting"
    BY <1>2, <1>4, <2>1, <2>2, RunStop
  <2>3. CASE ~(ConnectorAlive /\ connector.state = "kConnecting")
    <3>1. connector' = connector /\ pending' = pending
      BY <1>4, <2>3 DEF StopInLoop
    <3>2. connector.channel # "live"
      BY <1>0, <2>3 DEF MachineInv, StopInv, ConnectorAlive
    <3> QED
      BY <1>2, <1>4, <2>1, <3>1, <3>2, RunNothing
  <2> QED
    BY <2>2, <2>3
<1>5. CASE /\ f.op = "resetChannel"
           /\ connector' = ResetChannel(connector)
           /\ UNCHANGED <<clientVars, step, pending, misuse>>
  BY <1>2, <1>5, RunReset DEF clientVars
<1>6. CASE /\ f.op = "setCloseCallback"
           /\ conns' = [conns EXCEPT ![f.conn].cb = "detail"]
           /\ UNCHANGED <<connector, connect, retry, connection, client, release, step,
                          pending, misuse>>
  BY <1>2, <1>6, RunSetCallback
<1>7. CASE /\ f.op = "forceClose"
           /\ IF Open(f.conn) THEN HandleClose(f.conn)
                              ELSE UNCHANGED <<connector, clientVars, step, misuse>>
           /\ UNCHANGED pending
  <2>1. CASE Open(f.conn)
    BY <1>2, <1>7, <2>1, RunForceClose
  <2>2. CASE ~Open(f.conn)
    <3>1. UNCHANGED <<connector, connect, connection, client, conns, release, step, pending, misuse>>
      BY <1>7, <2>2 DEF clientVars
    <3> QED
      BY <1>2, <1>7, <3>1, RunNothing
  <2> QED
    BY <2>1, <2>2
<1> QED
  BY <1>1, <1>3, <1>4, <1>5, <1>6, <1>7 DEF RunFunctor

----------------------------------------------------------------------------
(* The calls of the user, on the loop's thread and on the other.            *)
LEMMA UserCalling ==
  ASSUME ClientInv, ~misuse, ~CloseAtOnce, UserCode
  PROVE  ClientInv'
<1>0. /\ QueueInv /\ ConnsInv /\ StopInv
  BY DEF ClientInv
<1>1. client = "alive" /\ dtor = "none" /\ step = "none" /\ UNCHANGED <<loopVars, dtorVars>>
  BY DEF UserCode, InUserCode
<1>2. CASE ConnectCall(TRUE) /\ UNCHANGED <<step, misuse>>
  BY <1>1, <1>2, ConnectingOnLoop
<1>3. CASE StopCall("loop") /\ UNCHANGED <<step, misuse>>
  BY <1>1, <1>3, Stopping DEF StopCall, loopVars, dtorVars
<1>4. CASE DisconnectCall /\ UNCHANGED <<step, misuse>>
  BY <1>1, <1>4, Disconnecting
<1>5. CASE DestroyOnLoop /\ UNCHANGED <<step, misuse>>
  BY <1>1, <1>5, DestroyingOnLoop
<1>6. CASE /\ connection # 0 /\ Open(connection)
           /\ CloseAtOnce \/ ~Queued("resetChannel")
           /\ HandleClose(connection)
           /\ UNCHANGED <<pending, stopper>>
  <2>1. connection \in ConnIds
    BY <1>0, <1>6 DEF ConnsInv
  <2>2. client' = client
    BY <1>6 DEF HandleClose, clientVars
  <2>3. UNCHANGED <<phase, ready, functors, dtor, copied>>
    BY <1>1 DEF loopVars, dtorVars
  <2>4. QueueInv' /\ \A op : Queued(op)' <=> Queued(op)
    BY <1>0, <1>6, <2>2, <2>3, QueueInvKept, QueueKept
  <2> QED
    BY <1>1, <1>6, <2>1, <2>3, <2>4, Closing
<1> QED
  BY <1>2, <1>3, <1>4, <1>5, <1>6 DEF UserCode

LEMMA ThreadCalling ==
  ASSUME ClientInv, ~misuse, ThreadCall \/ ThreadDestroys
  PROVE  ClientInv'
<1>1. CASE ThreadCall
  <2>1. client = "alive" /\ dtor = "none" /\ UNCHANGED <<loopVars, step, dtorVars, misuse>>
    BY <1>1 DEF ThreadCall
  <2>2. CASE ConnectCall(FALSE)
    BY <2>1, <2>2, ConnectingOnThread
  <2>3. CASE StopCall("thread")
    BY <2>1, <2>3, Stopping DEF StopCall, loopVars, dtorVars
  <2>4. CASE DisconnectCall
    BY <2>1, <2>4, Disconnecting
  <2> QED
    BY <1>1, <2>2, <2>3, <2>4 DEF ThreadCall
<1>2. CASE ThreadDestroys
  BY <1>2, Stopping DEF ThreadDestroys, clientVars, loopVars
<1> QED
  BY <1>1, <1>2

LEMMA ClientInit == Init => ClientInv
<1> SUFFICES ASSUME Init
             PROVE  ClientInv
  OBVIOUS
<1>1. /\ connector = NewConnector /\ connect = TRUE /\ connection = 0 /\ client = "alive"
      /\ conns = [i \in ConnIds |-> [state |-> "none", cb |-> "client"]]
      /\ release = FALSE /\ phase = "functors" /\ ready = {} /\ step = "none"
      /\ pending = <<>> /\ functors = <<>> /\ dtor = "none" /\ copied = 0
      /\ stopper = "never" /\ misuse = FALSE
  BY DEF Init
<1>2. /\ connector.state = "kDisconnected" /\ connector.channel = "none" /\ connector.timers = 0
      /\ connector.sockets = 0 /\ connector.asserts
  BY <1>1 DEF NewConnector
<1>3. connector \in ConnectorSet
  <2>1. InitRetryDelay \in InitRetryDelay..MaxRetryDelay
    BY RetryDelayAssumption
  <2> QED
    BY <1>1, <2>1 DEF NewConnector, ConnectorSet
<1>4. /\ pending \in Seq(FunctorSet) /\ functors \in Seq(FunctorSet)
  BY <1>1, EmptySeq
<1>5. \A op : ~HasOp(pending, op) /\ ~HasOp(functors, op) /\ Single(op)
  BY <1>1, EmptyOps DEF Single
<1>6. \A op : ~Queued(op)
  <2>1. \A op : Queued(op) <=> HasOp(pending, op) \/ HasOp(functors, op)
    BY <1>4, ConcatOps DEF Queued
  <2> QED
    BY <1>5, <2>1
<1>7. QueueInv
  BY <1>1, <1>4, <1>5, <1>6 DEF QueueInv
<1>8. ~Has
  BY <1>1 DEF Has
<1>9. MachineInv /\ SocketsInv
  BY <1>1, <1>2, <1>6, <1>8 DEF MachineInv, SocketsInv
<1>10. ConnsInv
  <2>1. \A i \in ConnIds : i # 0 /\ conns[i].state = "none" /\ conns[i].cb = "client"
    BY <1>1 DEF ConnIds
  <2>2. conns \in [ConnIds -> ConnSet]
    BY <1>1 DEF ConnSet, ConnStates
  <2> QED
    BY <1>1, <1>8, <2>1, <2>2 DEF ConnsInv, Open
<1>11. StopInv
  BY <1>1, <1>2 DEF StopInv
<1> QED
  BY <1>1, <1>2, <1>3, <1>7, <1>9, <1>10, <1>11 DEF ClientInv

LEMMA ClientNext ==
  ASSUME ~CloseAtOnce, ClientInv, [Next]_vars
  PROVE  ClientInv'
<1>1. CASE UNCHANGED vars
  <2>1. UNCHANGED <<connector, connect, retry, connection, client, conns, release, phase, ready,
                    functors, step, pending, dtor, copied, stopper, misuse>>
    BY <1>1 DEF vars, clientVars, loopVars, dtorVars
  <2>2. connector' \in ConnectorSet /\ connector'.asserts /\ (misuse' => client' = "thread")
    BY <2>1 DEF ClientInv
  <2>3. ASSUME ~misuse
        PROVE  QueueInv' /\ MachineInv' /\ SocketsInv' /\ ConnsInv' /\ StopInv'
    <3>1. QueueInv /\ MachineInv /\ SocketsInv /\ ConnsInv /\ StopInv
      BY <2>3 DEF ClientInv
    <3>2. \A op : Queued(op)' <=> Queued(op)
      BY <2>1, QueueKept
    <3> QED
      BY <2>1, <3>1, <3>2, QueueInvKept, MachineKept, SocketsKept, ConnsKept, StopKept DEF StopInv
  <2> QED
    BY <2>1, <2>2, <2>3 DEF ClientInv
<1>2. CASE ~misuse /\ Next
  <2>1. CASE LoopStep
    BY <1>2, <2>1, QuietStep, Ending, Establishing, Restarting, PeerClosing, RunningFunctor
    DEF LoopStep
  <2>2. CASE TimerStep
    BY <1>2, <2>2, Retrying, Releasing DEF TimerStep
  <2>3. CASE Accepted
    BY <1>2, <2>3, Ending DEF Accepted
  <2>4. CASE DtorStep
    BY <1>2, <2>4, QuietStep, Finishing DEF DtorStep
  <2>5. CASE UserCode \/ ThreadCall \/ ThreadDestroys
    BY <1>2, <2>5, UserCalling, ThreadCalling
  <2> QED
    BY <1>2, <2>1, <2>2, <2>3, <2>4, <2>5 DEF Next
<1> QED
  BY <1>1, <1>2 DEF Next, LoopStep, TimerStep, Accepted, DtorStep

LEMMA ClientInvariance ==
  ASSUME ~CloseAtOnce
  PROVE  Spec => []ClientInv
<1>1. ClientInv /\ [Next]_vars => ClientInv'
  BY ClientNext
<1> QED
  BY <1>1, ClientInit, PTL DEF Spec

----------------------------------------------------------------------------
(* Whatever user code calls and whatever comes of the attempts, the asserts *)
(* of Connector::startInLoop() and connecting(), of removeConnection() and  *)
(* of ~Channel() hold, and the delay that retry() doubles stays in its      *)
(* range.                                                                   *)
THEOREM ConnectorStaysSound ==
  ASSUME ~CloseAtOnce
  PROVE  Spec => []ConnectorSound
<1>1. ClientInv => ConnectorSound
  BY DEF ClientInv, ConnectorSet, ConnectorSound
<1> QED
  BY <1>1, ClientInvariance, PTL

(* ~TcpClient() on the loop's thread, at any point, leaves no callback      *)
(* behind that would use the client, and no channel in the poller.          *)
THEOREM LoopDestructionStaysSafe ==
  ASSUME ~CloseAtOnce
  PROVE  Spec => []LoopDestructionIsSafe
<1>1. ClientInv => LoopDestructionIsSafe
  BY DEF ClientInv, LoopDestructionIsSafe
<1> QED
  BY <1>1, ClientInvariance, PTL

(* There is one connection, attempt or retry timer at a time, connection_   *)
(* is the one open connection, and no descriptor is leaked or closed twice. *)
THEOREM StaysOneAtATime ==
  ASSUME ~CloseAtOnce
  PROVE  Spec => []OneAtATime
<1>1. ASSUME ClientInv, client # "thread"
      PROVE  /\ client = "alive" => OpenConns = {connection} \ {0}
             /\ Cardinality(OpenConns) + connector.timers
                  + (IF connector.channel = "live" THEN 1 ELSE 0) <= 1
             /\ connector.sockets =
                  Cardinality(OpenConns)
                    + (IF connector.channel = "live" \/ step = "newConnection" THEN 1 ELSE 0)
  <2>0. MachineInv /\ SocketsInv /\ ConnsInv /\ StopInv
    BY <1>1 DEF ClientInv
  <2>1. 0 \notin ConnIds
    BY DEF ConnIds
  <2>2. client = "alive" => OpenConns = {connection} \ {0}
    BY <2>0, <2>1 DEF ConnsInv, OpenConns
  <2>3. Cardinality(OpenConns) = IF Has THEN 1 ELSE 0
    <3>1. CASE Has
      <4>1. OpenConns = {connection}
        BY <2>2, <3>1 DEF Has
      <4> QED
        BY <3>1, <4>1, FS_Singleton
    <3>2. CASE ~Has
      <4>1. OpenConns = {}
        BY <1>1, <2>0, <2>2, <3>2 DEF Has, ConnsInv, StopInv, OpenConns
      <4> QED
        BY <3>2, <4>1, FS_EmptySet
    <3> QED
      BY <3>1, <3>2
  <2>4. /\ connector.channel = "live" => ~Has /\ connector.timers = 0
        /\ connector.timers = 1 => ~Has
        /\ connector.timers \in {0, 1}
    BY <2>0 DEF MachineInv
  <2>5. (IF Has THEN 1 ELSE 0) + connector.timers
          + (IF connector.channel = "live" THEN 1 ELSE 0) <= 1
    BY <2>4
  <2>6. connector.sockets = (IF Has THEN 1 ELSE 0)
          + (IF connector.channel = "live" \/ step = "newConnection" THEN 1 ELSE 0)
    BY <1>1, <2>0 DEF SocketsInv
  <2> QED
    BY <2>2, <2>3, <2>5, <2>6
<1>2. ClientInv => OneAtATime
  BY <1>1 DEF OneAtATime
<1> QED
  BY <1>2, ClientInvariance, PTL

(* startInLoop() of a stopped connector opens nothing.                     *)
LEMMA StartKeepsClosed ==
  ASSUME NEW c \in ConnectorSet, ~c.connect, NEW o
  PROVE  StartInLoop(c, o).sockets = c.sockets
BY DEF StartInLoop, ConnectorSet

LEMMA StoppedStep ==
  ASSUME ClientInv, ~misuse, Next, stopper = "loop", stopper' = "loop"
  PROVE  connector'.sockets <= connector.sockets
<1>0. /\ MachineInv /\ StopInv
      /\ connector \in ConnectorSet /\ connector.sockets \in Int
  BY ConnectorParts DEF ClientInv
<1>1. ~connector.connect /\ step # "restart"
  BY <1>0 DEF StopInv
<1>2. CASE connector'.sockets = connector.sockets
  BY <1>0, <1>2
<1>3. CASE connector'.sockets = connector.sockets - 1
  BY <1>0, <1>3
<1>4. ASSUME NEW i \in ConnIds, HandleClose(i)
      PROVE  connector'.sockets <= connector.sockets
  <2>1. CASE connector' = connector
    BY <1>2, <2>1
  <2>2. CASE connector' # connector
    <3>1. connector'.sockets = connector.sockets - 1
      BY <1>0, <1>4, <2>2 DEF HandleClose, ConnectorSet
    <3> QED
      BY <1>3, <3>1
  <2> QED
    BY <2>1, <2>2
<1>5. ASSUME NEW succeeds \in BOOLEAN, AttemptEnds(succeeds)
      PROVE  connector'.sockets <= connector.sockets
  <2>1. connector.channel = "live" /\ connector.state = "kConnecting" /\ connector.timers = 0
    BY <1>0, <1>5 DEF AttemptEnds, MachineInv
  <2>2. CASE succeeds
    <3>1. connector' = AttemptSucceeds(connector)
      BY <1>5, <2>2 DEF AttemptEnds
    <3> QED
      BY <1>0, <1>1, <1>3, <3>1, SucceedFacts
  <2>3. CASE ~succeeds
    <3>1. connector' = AttemptFails(connector)
      BY <1>5, <2>3 DEF AttemptEnds
    <3> QED
      BY <1>0, <1>3, <2>1, <3>1, FailFacts
  <2> QED
    BY <2>2, <2>3
<1>6. CASE Poll \/ NewConnection \/ TakeFunctors \/ FunctorsDone \/ ThreadCopies \/ ThreadFinishes
  BY <1>2, <1>6 DEF Poll, NewConnection, TakeFunctors, FunctorsDone, ThreadCopies, ThreadFinishes
<1>7. ~RestartConnector
  BY <1>1 DEF RestartConnector
<1>8. ASSUME NEW i \in ConnIds, ConnectionEnds(i)
      PROVE  connector'.sockets <= connector.sockets
  BY <1>2, <1>4, <1>8 DEF ConnectionEnds
<1>9. CASE RetryTimer
  <2>1. PICK c : c = [connector EXCEPT !.timers = connector.timers - 1]
    OBVIOUS
  <2>2. connector.timers - 1 \in Nat
    BY <1>0, <1>9 DEF RetryTimer, MachineInv
  <2>3. c \in ConnectorSet
    BY <1>0, <2>1, <2>2 DEF ConnectorSet
  <2>4. ~c.connect /\ c.sockets = connector.sockets
    BY <1>0, <1>1, <2>1 DEF ConnectorSet
  <2>5. connector' = c \/ \E o \in Outcomes : connector' = StartInLoop(c, o)
    BY <1>9, <2>1 DEF RetryTimer
  <2> QED
    BY <1>2, <2>3, <2>4, <2>5, StartKeepsClosed
<1>10. CASE ReleaseTimer
  <2>1. connector' = connector \/ connector' = Destroyed(connector)
    BY <1>10 DEF ReleaseTimer
  <2> QED
    BY <1>0, <1>2, <2>1, DestroyedFacts
<1>11. CASE RunFunctor
  <2>1. PICK f : f = Head(functors)
    OBVIOUS
  <2>2. QueueInv /\ functors # <<>> /\ f \in FunctorSet
    <3>1. QueueInv /\ functors # <<>>
      BY <1>11 DEF ClientInv, RunFunctor
    <3> QED
      BY <2>1, <3>1, HeadTailProperties DEF QueueInv
  <2>3. \/ connector' = connector
        \/ \E o \in Outcomes : connector' = StartInLoop(connector, o)
        \/ connector' = StopInLoop(connector)
        \/ connector' = ResetChannel(connector)
        \/ f.op = "forceClose" /\ HandleClose(f.conn)
    BY <1>11, <2>1 DEF RunFunctor
  <2>4. CASE \E o \in Outcomes : connector' = StartInLoop(connector, o)
    BY <1>0, <1>1, <1>2, <2>4, StartKeepsClosed
  <2>5. CASE connector' = StopInLoop(connector)
    <3>1. CASE connector.state = "kConnecting"
      BY <1>0, <1>3, <2>5, <3>1, StopFacts
    <3>2. CASE connector.state # "kConnecting"
      BY <1>2, <2>5, <3>2 DEF StopInLoop
    <3> QED
      BY <3>1, <3>2
  <2>6. CASE connector' = ResetChannel(connector)
    BY <1>0, <1>2, <2>6 DEF ResetChannel, ConnectorSet
  <2>7. CASE f.op = "forceClose" /\ HandleClose(f.conn)
    <3>1. f.conn \in ConnIds
      BY <2>2, <2>7 DEF FunctorSet, CloseOps
    <3> QED
      BY <1>4, <2>7, <3>1
  <2> QED
    BY <1>2, <2>3, <2>4, <2>5, <2>6, <2>7
<1>12. CASE UserCode \/ ThreadCall \/ ThreadDestroys
  <2>1. /\ ~ConnectCall(TRUE) /\ ~ConnectCall(FALSE)
    BY DEF ConnectCall
  <2>2. CASE \/ StopCall("loop") \/ StopCall("thread") \/ DisconnectCall \/ ThreadDestroys
    <3>1. connector' \in {connector, [connector EXCEPT !.connect = FALSE]}
      BY <2>2 DEF StopCall, DisconnectCall, ThreadDestroys
    <3> QED
      BY <1>0, <1>2, <3>1 DEF ConnectorSet
  <2>3. CASE DestroyOnLoop
    <3>1. PICK n \in Int : n = IF connection = 0 THEN connector.sockets ELSE connector.sockets - 1
      BY <1>0
    <3>2. connector' = [connector EXCEPT !.connect = FALSE, !.sockets = n]
      BY <2>3, <3>1 DEF DestroyOnLoop
    <3>3. connector'.sockets = n
      BY <1>0, <3>2 DEF ConnectorSet
    <3> QED
      BY <1>0, <3>1, <3>3
  <2>4. CASE connection # 0 /\ HandleClose(connection)
    <3>1. connection \in ConnIds
      BY <2>4 DEF ClientInv, ConnsInv
    <3> QED
      BY <1>4, <2>4, <3>1
  <2> QED
    BY <1>12, <2>1, <2>2, <2>3, <2>4 DEF UserCode, ThreadCall
<1> QED
  BY <1>5, <1>6, <1>7, <1>8, <1>9, <1>10, <1>11, <1>12
  DEF Next, LoopStep, TimerStep, Accepted, DtorStep

(* After stop() or the destructor on the loop's thread no step opens a      *)
(* descriptor: not the retry timer, which is not cancelled, nor a queued    *)
(* startInLoop(), nor the loss of a connection.                             *)
THEOREM NoAttemptIsMadeAfterStop ==
  ASSUME ~CloseAtOnce
  PROVE  Spec => NoAttemptAfterStop
<1>1. ClientInv /\ [Next]_vars =>
        [stopper = "loop" /\ stopper' = "loop" => connector'.sockets <= connector.sockets]_vars
  <2> SUFFICES ASSUME ClientInv, Next, stopper = "loop", stopper' = "loop"
               PROVE  connector'.sockets <= connector.sockets
    OBVIOUS
  <2>1. ~misuse
    BY DEF Next, LoopStep, TimerStep, Accepted, DtorStep
  <2> QED
    BY <2>1, StoppedStep
<1> QED
  BY <1>1, ClientInvariance, PTL DEF Spec, NoAttemptAfterStop

=============================================================================
