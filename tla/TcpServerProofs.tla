--------------------------- MODULE TcpServerProofs ---------------------------
(***************************************************************************)
(* Proofs about TcpServer, for any number of clients, of threads and of     *)
(* descriptors: its asserts hold, its map of connections is exact, each     *)
(* connection has the life that ConnectionLifecycle promises, the loops     *)
(* share the connections evenly, and with one loop it can be destroyed at   *)
(* any point.                                                               *)
(***************************************************************************)
EXTENDS TcpServer, FiniteSetTheorems, SequenceTheorems, TLAPS

FunctorSet == [op : {"established", "remove", "destroy"}, conn : Ids]
States == {"none", "waiting", "dropped", "kConnecting", "kConnected", "kDisconnected",
           "destroyed"}

(* What is known of a functor that is queued in loop l.                     *)
Fits(f, l) ==
  /\ f.op = "established" => l # 0 /\ l = loopOf[f.conn] /\ state[f.conn] = "kConnecting"
  /\ f.op = "remove" =>
       l = 0 /\ (server = "alive" => state[f.conn] = "kDisconnected" /\ f.conn \in connections)
  /\ f.op = "destroy" =>
       /\ l = loopOf[f.conn]
       /\ state[f.conn] \in {"kConnecting", "kConnected", "kDisconnected", "destroyed"}
       /\ server = "alive" => /\ state[f.conn] \in {"kDisconnected", "destroyed"}
                              /\ f.conn \notin connections

(* A connection is established before anything else that is queued for it,  *)
(* and removed at most once.                                                *)
Ordered(q) ==
  \A j, k \in 1..Len(q) : j # k /\ q[j].conn = q[k].conn =>
    /\ q[j].op = "established" => j < k
    /\ q[j].op = "remove" => q[k].op # "remove"

Distinct(q) == \A j, k \in 1..Len(q) : j # k => q[j] # q[k]

ServerTypes ==
  /\ server \in {"alive", "dead"}
  /\ numThreads \in 0..MaxThreads
  /\ next \in Nat /\ (numThreads > 0 => next < numThreads)
  /\ connections \in SUBSET Ids
  /\ state \in [Ids -> States] /\ loopOf \in [Ids -> Loops]
  /\ queue \in [Loops -> Seq(FunctorSet)]
  /\ backlog \in Seq(Ids)

ServerInv ==
  /\ ServerTypes
  /\ \A l \in Loops : (\A f \in ToSet(queue[l]) : Fits(f, l)) /\ Ordered(queue[l])
  /\ \A i \in ToSet(backlog) : state[i] = "waiting"
  /\ Distinct(backlog)
  /\ idle = "closed" => backlog # <<>>
  /\ MapMatchesConnections
  /\ asserts = TRUE

----------------------------------------------------------------------------
(* Sequences: what Append, Tail and \o do to members and order.             *)
LEMMA MemberFacts ==
  ASSUME NEW S, NEW q \in Seq(S)
  PROVE  /\ ToSet(q) \subseteq S
         /\ \A x : x \in ToSet(q) <=> \E k \in 1..Len(q) : q[k] = x
BY DEF ToSet

LEMMA AppendFacts ==
  ASSUME NEW S, NEW q \in Seq(S), NEW x \in S
  PROVE  /\ Append(q, x) \in Seq(S)
         /\ ToSet(Append(q, x)) = ToSet(q) \cup {x}
         /\ Append(q, x) # <<>>
<1> DEFINE a == Append(q, x)
<1>1. /\ a \in Seq(S) /\ Len(a) = Len(q) + 1 /\ Len(q) \in Nat
      /\ \A k \in 1..Len(q) : a[k] = q[k]
      /\ a[Len(q) + 1] = x
  OBVIOUS
<1> HIDE DEF a
<1>2. ASSUME NEW y
      PROVE  y \in ToSet(a) <=> y \in ToSet(q) \cup {x}
  <2>1. y \in ToSet(a) <=> \E k \in 1..Len(q) + 1 : a[k] = y
    BY <1>1, MemberFacts
  <2>2. y \in ToSet(q) <=> \E k \in 1..Len(q) : q[k] = y
    BY MemberFacts
  <2>3. Len(q) + 1 \in 1..Len(q) + 1 /\ 1..Len(q) + 1 = 1..Len(q) \cup {Len(q) + 1}
    BY <1>1
  <2>. QED
    BY <1>1, <2>1, <2>2, <2>3
<1>3. a # <<>>
  BY <1>1
<1>. QED
  BY <1>1, <1>2, <1>3 DEF a

LEMMA TailFacts ==
  ASSUME NEW S, NEW q \in Seq(S), q # <<>>
  PROVE  /\ Head(q) \in ToSet(q) /\ Head(q) \in S
         /\ Tail(q) \in Seq(S)
         /\ ToSet(q) = ToSet(Tail(q)) \cup {Head(q)}
<1> DEFINE t == Tail(q)
<1>1. /\ t \in Seq(S) /\ Len(t) = Len(q) - 1 /\ Len(q) \in Nat \ {0}
      /\ \A k \in 1..Len(t) : t[k] = q[k + 1]
      /\ Head(q) = q[1] /\ q[1] \in S
  BY HeadTailProperties, EmptySeq
<1> HIDE DEF t
<1>2. ASSUME NEW y
      PROVE  y \in ToSet(q) <=> y \in ToSet(t) \cup {q[1]}
  <2>1. y \in ToSet(q) <=> \E k \in 1..Len(q) : q[k] = y
    BY MemberFacts
  <2>2. y \in ToSet(t) <=> \E k \in 1..Len(t) : t[k] = y
    BY <1>1, MemberFacts
  <2>3. ASSUME NEW k \in 1..Len(q), q[k] = y, k # 1
        PROVE  \E j \in 1..Len(t) : t[j] = y
    <3>1. k - 1 \in 1..Len(t) /\ t[k - 1] = q[k]
      BY <1>1, <2>3
    <3>. QED
      BY <2>3, <3>1
  <2>4. ASSUME NEW k \in 1..Len(t)
        PROVE  k + 1 \in 1..Len(q) /\ t[k] = q[k + 1]
    BY <1>1
  <2>. QED
    BY <1>1, <2>1, <2>2, <2>3, <2>4
<1>. QED
  BY <1>1, <1>2 DEF t

LEMMA ConcatFacts ==
  ASSUME NEW S, NEW q \in Seq(S), NEW r \in Seq(S)
  PROVE  q \o r \in Seq(S) /\ ToSet(q \o r) = ToSet(q) \cup ToSet(r)
<1> DEFINE c == q \o r
<1>0. c \in Seq(S)
  OBVIOUS
<1>1. /\ Len(c) = Len(q) + Len(r) /\ Len(q) \in Nat /\ Len(r) \in Nat
      /\ \A k \in 1..Len(q) : k \in 1..Len(c) /\ c[k] = q[k]
      /\ \A k \in 1..Len(r) : k + Len(q) \in 1..Len(c) /\ c[k + Len(q)] = r[k]
      /\ \A k \in 1..Len(c) : \/ k \in 1..Len(q)
                              \/ k - Len(q) \in 1..Len(r) /\ c[k] = r[k - Len(q)]
  BY ConcatProperties
<1> HIDE DEF c
<1>2. ASSUME NEW y
      PROVE  y \in ToSet(c) <=> y \in ToSet(q) \cup ToSet(r)
  <2>1. y \in ToSet(c) <=> \E k \in 1..Len(c) : c[k] = y
    BY <1>0, MemberFacts, Zenon
  <2>2. y \in ToSet(q) <=> \E k \in 1..Len(q) : q[k] = y
    BY MemberFacts
  <2>3. y \in ToSet(r) <=> \E k \in 1..Len(r) : r[k] = y
    BY MemberFacts
  <2>. QED
    BY <1>1, <2>1, <2>2, <2>3
<1>. QED
  BY <1>0, <1>2 DEF c

LEMMA DistinctFacts ==
  ASSUME NEW S, NEW q \in Seq(S), Distinct(q)
  PROVE  /\ \A x \in S : x \notin ToSet(q) => Distinct(Append(q, x))
         /\ q # <<>> => Distinct(Tail(q)) /\ Head(q) \notin ToSet(Tail(q))
<1>1. ASSUME NEW x \in S, x \notin ToSet(q)
      PROVE  Distinct(Append(q, x))
  <2>1. \A k \in 1..Len(q) : q[k] # x
    BY <1>1, MemberFacts
  <2>. QED
    BY <2>1 DEF Distinct
<1>2. ASSUME q # <<>>
      PROVE  Distinct(Tail(q)) /\ Head(q) \notin ToSet(Tail(q))
  <2>1. /\ Tail(q) \in Seq(S) /\ Len(Tail(q)) = Len(q) - 1 /\ Len(q) \in Nat \ {0}
        /\ \A k \in 1..Len(Tail(q)) : Tail(q)[k] = q[k + 1] /\ k + 1 \in 1..Len(q) /\ k + 1 # 1
        /\ Head(q) = q[1] /\ 1 \in 1..Len(q)
    BY <1>2, HeadTailProperties, EmptySeq
  <2>2. \A k \in 1..Len(Tail(q)) : Tail(q)[k] # Head(q)
    BY <2>1 DEF Distinct
  <2>3. \A j, k \in 1..Len(Tail(q)) : j # k => j + 1 # k + 1
    BY <2>1
  <2>4. Distinct(Tail(q))
    BY <2>1, <2>3 DEF Distinct
  <2>. QED
    <3>0. Tail(q) \in Seq(S)
      BY <2>1
    <3>1. \A y : y \in ToSet(Tail(q)) => \E k \in 1..Len(Tail(q)) : Tail(q)[k] = y
      BY <3>0, MemberFacts, Zenon
    <3>. QED
      BY <2>2, <2>4, <3>1, Zenon
<1>. QED
  BY <1>1, <1>2

LEMMA OrderedAppend ==
  ASSUME NEW S, NEW q \in Seq(S), Ordered(q), NEW f \in S,
         \A g \in ToSet(q) : g.conn = f.conn =>
           f.op # "established" /\ (f.op = "remove" => g.op # "remove")
  PROVE  Ordered(Append(q, f))
<1> DEFINE a == Append(q, f)
<1>1. /\ Len(a) = Len(q) + 1 /\ Len(q) \in Nat
      /\ \A k \in 1..Len(q) : a[k] = q[k]
      /\ a[Len(q) + 1] = f
  OBVIOUS
<1>2. \A k \in 1..Len(q) : q[k].conn = f.conn =>
        f.op # "established" /\ (f.op = "remove" => q[k].op # "remove")
  BY MemberFacts
<1> HIDE DEF a
<1>3. ASSUME NEW j \in 1..Len(a), NEW k \in 1..Len(a), j # k, a[j].conn = a[k].conn
      PROVE  /\ a[j].op = "established" => j < k
             /\ a[j].op = "remove" => a[k].op # "remove"
  <2>1. CASE j \in 1..Len(q) /\ k \in 1..Len(q)
    BY <1>1, <1>3, <2>1 DEF Ordered
  <2>2. CASE j = Len(q) + 1
    <3>1. k \in 1..Len(q)
      BY <1>1, <1>3, <2>2
    <3>. QED
      BY <1>1, <1>2, <1>3, <2>2, <3>1
  <2>3. CASE k = Len(q) + 1
    <3>1. j \in 1..Len(q) /\ j < k
      BY <1>1, <1>3, <2>3
    <3>. QED
      BY <1>1, <1>2, <1>3, <2>3, <3>1
  <2>. QED
    BY <1>1, <2>1, <2>2, <2>3
<1>. QED
  BY <1>3 DEF Ordered, a

LEMMA OrderedTail ==
  ASSUME NEW S, NEW q \in Seq(S), Ordered(q), q # <<>>
  PROVE  /\ Ordered(Tail(q))
         /\ \A g \in ToSet(Tail(q)) : g.conn = Head(q).conn =>
              g.op # "established" /\ (Head(q).op = "remove" => g.op # "remove")
<1> DEFINE t == Tail(q)
<1>1. /\ t \in Seq(S) /\ Len(t) = Len(q) - 1 /\ Len(q) \in Nat \ {0}
      /\ \A k \in 1..Len(t) : t[k] = q[k + 1] /\ k + 1 \in 1..Len(q) /\ k + 1 # 1 /\ ~(k + 1 < 1)
      /\ Head(q) = q[1] /\ 1 \in 1..Len(q)
  BY HeadTailProperties, EmptySeq
<1> HIDE DEF t
<1>2. ASSUME NEW k \in 1..Len(t), t[k].conn = q[1].conn
      PROVE  t[k].op # "established" /\ (q[1].op = "remove" => t[k].op # "remove")
  BY <1>1, <1>2 DEF Ordered
<1>3. \A g \in ToSet(t) : \E k \in 1..Len(t) : t[k] = g
  BY <1>1, MemberFacts
<1>4. \A j, k \in 1..Len(t) : (j # k => j + 1 # k + 1) /\ (j + 1 < k + 1 => j < k)
  BY <1>1
<1>5. Ordered(t)
  BY <1>1, <1>4 DEF Ordered
<1>. QED
  BY <1>1, <1>2, <1>3, <1>5 DEF t

LEMMA OrderedConcat ==
  ASSUME NEW S, NEW q \in Seq(S), Ordered(q),
         NEW r \in Seq(S), \A g \in ToSet(r) : g.op = "destroy"
  PROVE  Ordered(q \o r)
<1> DEFINE c == q \o r
<1>1. /\ Len(c) = Len(q) + Len(r) /\ Len(q) \in Nat /\ Len(r) \in Nat
      /\ \A k \in 1..Len(q) : c[k] = q[k]
      /\ \A k \in 1..Len(c) : \/ k \in 1..Len(q)
                              \/ /\ k > Len(q) /\ k - Len(q) \in 1..Len(r)
                                 /\ c[k] = r[k - Len(q)]
  BY ConcatProperties
<1>2. \A k \in 1..Len(r) : r[k].op = "destroy"
  BY MemberFacts
<1> HIDE DEF c
<1>3. ASSUME NEW j \in 1..Len(c), NEW k \in 1..Len(c), j # k, c[j].conn = c[k].conn
      PROVE  /\ c[j].op = "established" => j < k
             /\ c[j].op = "remove" => c[k].op # "remove"
  <2>1. CASE j \in 1..Len(q) /\ k \in 1..Len(q)
    BY <1>1, <1>3, <2>1 DEF Ordered
  <2>2. CASE j \notin 1..Len(q)
    BY <1>1, <1>2, <2>2
  <2>3. CASE j \in 1..Len(q) /\ k \notin 1..Len(q)
    BY <1>1, <1>2, <2>3
  <2>. QED
    BY <2>1, <2>2, <2>3
<1>. QED
  BY <1>3 DEF Ordered, c

(* SetToSeq lists the members of a finite set.                              *)
LEMMA SetToSeqFacts ==
  ASSUME NEW S, IsFiniteSet(S)
  PROVE  SetToSeq(S) \in Seq(S)
<1> DEFINE n == Cardinality(S)
<1>1. n \in Nat /\ ExistsBijection(1..n, S)
  BY FS_CardinalityType
<1>2. PICK f \in Bijection(1..n, S) : TRUE
  BY <1>1 DEF ExistsBijection
<1>3. f \in [1..n -> S] /\ IsInjective(f)
  BY <1>2 DEF Bijection, Injection, IsInjective
<1>4. SetToSeq(S) \in [1..n -> S]
  BY <1>3 DEF SetToSeq
<1>. QED
  BY <1>1, <1>4

----------------------------------------------------------------------------
LEMMA ServerInvInit == Init => ServerInv
<1> SUFFICES ASSUME Init
             PROVE  ServerInv
  OBVIOUS
<1>1. ServerTypes
  BY EmptySeq, ServerAssumption DEF Init, ServerTypes, States, Loops
<1>2. ToSet(<<>>) = {} /\ Ordered(<<>>) /\ Distinct(<<>>)
  BY DEF ToSet, Ordered, Distinct
<1>3. 0 \in Loops /\ \A l \in Loops : queue[l] = <<>>
  BY ServerAssumption DEF Init, Loops
<1>4. MapMatchesConnections
  BY <1>2, <1>3 DEF Init, MapMatchesConnections
<1>. QED
  BY <1>1, <1>2, <1>3, <1>4 DEF Init, ServerInv

LEMMA QueuedFunctor ==
  ASSUME ServerTypes, NEW l \in Loops, NEW f \in ToSet(queue[l])
  PROVE  f \in FunctorSet /\ f.conn \in Ids /\ f.op \in {"established", "remove", "destroy"}
<1>1. queue[l] \in Seq(FunctorSet)
  BY DEF ServerTypes
<1>2. f \in FunctorSet
  BY <1>1, MemberFacts
<1>. QED
  BY <1>2 DEF FunctorSet

(* A connection that has a functor in a queue is neither waiting nor up.    *)
LEMMA QueuedFacts ==
  ASSUME ServerInv, server = "alive", NEW l \in Loops, NEW f \in ToSet(queue[l])
  PROVE  /\ f \in FunctorSet
         /\ state[f.conn] \in {"kConnecting", "kDisconnected", "destroyed"}
<1>1. f \in FunctorSet /\ f.op \in {"established", "remove", "destroy"}
  BY QueuedFunctor DEF ServerInv
<1>2. Fits(f, l)
  BY DEF ServerInv
<1>. QED
  BY <1>1, <1>2 DEF Fits

(* newConnection() of a client that was waiting.                            *)
LEMMA NewConnectionStep ==
  ASSUME ServerInv, HandleRead, FreeFds > 0
  PROVE  ServerInv'
<1>a. PICK i : i = Head(backlog)
  OBVIOUS
<1>b. PICK loop : loop = GetNextLoop
  OBVIOUS
<1>c. PICK new : new = Functor("established", i)
  OBVIOUS
<1>1. /\ server = "alive" /\ server' = "alive"
      /\ next' = IF numThreads = 0 THEN next ELSE NextIndex(next)
      /\ loopOf' = [loopOf EXCEPT ![i] = loop]
      /\ connections' = connections \cup {i}
      /\ state' = [state EXCEPT ![i] = IF loop = 0 THEN "kConnected" ELSE "kConnecting"]
      /\ queue' = IF loop = 0 THEN queue
                  ELSE [queue EXCEPT ![loop] = Append(@, Functor("established", i))]
      /\ backlog # <<>> /\ backlog' = Tail(backlog)
      /\ numThreads' = numThreads /\ idle' = idle /\ idle # "closed" /\ asserts' = asserts
  BY <1>a, <1>b DEF HandleRead, NewConnection, Listed, listening, BaseFree
<1>2. /\ i \in Ids /\ i \in ToSet(backlog) /\ Tail(backlog) \in Seq(Ids)
      /\ ToSet(Tail(backlog)) \subseteq ToSet(backlog)
  BY <1>a, <1>1, TailFacts DEF ServerInv, ServerTypes
<1>3. state[i] = "waiting"
  BY <1>2 DEF ServerInv
<1>4. loop \in Loops /\ next' \in Nat /\ (numThreads > 0 => next' < numThreads)
  BY <1>b, <1>1, ServerAssumption DEF ServerInv, ServerTypes, GetNextLoop, NextIndex, Loops
<1>5. new \in FunctorSet /\ new.op = "established" /\ new.conn = i
  BY <1>c, <1>2 DEF Functor, FunctorSet
<1>6. \A l \in Loops : \A f \in ToSet(queue[l]) : f \in FunctorSet /\ f.conn # i
  BY <1>1, <1>3, QueuedFacts
<1>7. \A l \in Loops :
        /\ queue[l] \in Seq(FunctorSet) /\ Ordered(queue[l])
        /\ \A f \in ToSet(queue[l]) : Fits(f, l)
  BY DEF ServerInv, ServerTypes
<1>8. \A l \in Loops : \A f \in ToSet(queue[l]) : Fits(f, l)'
  <2> TAKE l \in Loops
  <2> TAKE f \in ToSet(queue[l])
  <2>1. f.conn \in Ids /\ f.conn # i
    BY <1>6 DEF FunctorSet
  <2>2. state'[f.conn] = state[f.conn] /\ loopOf'[f.conn] = loopOf[f.conn]
    BY <1>1, <2>1 DEF ServerInv, ServerTypes
  <2>. QED
    BY <1>1, <1>7, <2>1, <2>2 DEF Fits
<1>9. loop # 0 =>
        /\ Append(queue[loop], new) \in Seq(FunctorSet)
        /\ ToSet(Append(queue[loop], new)) = ToSet(queue[loop]) \cup {new}
        /\ Ordered(Append(queue[loop], new))
  BY <1>4, <1>5, <1>6, <1>7, AppendFacts, OrderedAppend
<1>10. loop # 0 => Fits(new, loop)'
  BY <1>1, <1>2, <1>4, <1>5 DEF Fits, ServerInv, ServerTypes
<1>11. \A l \in Loops : /\ queue'[l] \in Seq(FunctorSet) /\ Ordered(queue'[l])
                        /\ \A f \in ToSet(queue'[l]) : Fits(f, l)'
  <2> TAKE l \in Loops
  <2>1. CASE loop = 0 \/ l # loop
    <3>1. queue'[l] = queue[l]
      BY <1>1, <2>1 DEF ServerInv, ServerTypes
    <3>. QED
      BY <1>7, <1>8, <3>1
  <2>2. CASE loop # 0 /\ l = loop
    <3>1. queue'[l] = Append(queue[loop], new)
      BY <1>c, <1>1, <1>4, <2>2 DEF ServerInv, ServerTypes
    <3>. QED
      BY <1>8, <1>9, <1>10, <2>2, <3>1
  <2>. QED
    BY <2>1, <2>2
<1>12. queue'[0] = queue[0]
  BY <1>1 DEF ServerInv, ServerTypes
<1>13. ServerTypes'
  <2>1. queue' \in [Loops -> Seq(FunctorSet)]
    BY <1>1, <1>11 DEF ServerInv, ServerTypes
  <2>2. state' \in [Ids -> States] /\ loopOf' \in [Ids -> Loops]
    BY <1>1, <1>2, <1>4 DEF ServerInv, ServerTypes, States
  <2>. QED
    BY <1>1, <1>2, <1>4, <2>1, <2>2 DEF ServerInv, ServerTypes
<1>14. MapMatchesConnections'
  <2>1. \A j \in Ids : j # i => state'[j] = state[j]
    BY <1>1 DEF ServerInv, ServerTypes
  <2>2. state'[i] \in {"kConnecting", "kConnected"}
    BY <1>1, <1>2 DEF ServerInv, ServerTypes
  <2>3. connections = {j \in Ids : \/ state[j] \in {"kConnecting", "kConnected"}
                                   \/ Functor("remove", j) \in ToSet(queue[0])}
    BY <1>1 DEF ServerInv, MapMatchesConnections
  <2>. QED
    BY <1>1, <1>2, <1>12, <2>1, <2>2, <2>3 DEF MapMatchesConnections
<1>15. Distinct(backlog') /\ \A j \in ToSet(backlog') : state'[j] = "waiting"
  <2>1. Distinct(Tail(backlog)) /\ i \notin ToSet(Tail(backlog))
    BY <1>a, <1>1, DistinctFacts DEF ServerInv, ServerTypes
  <2>2. \A j \in ToSet(Tail(backlog)) : j \in Ids /\ j # i /\ state[j] = "waiting"
    BY <1>2, <2>1, MemberFacts DEF ServerInv
  <2>. QED
    BY <1>1, <2>1, <2>2 DEF ServerInv, ServerTypes
<1>. QED
  BY <1>1, <1>11, <1>13, <1>14, <1>15 DEF ServerInv

(* Before a client is accepted nothing is queued for it.                    *)
LEMMA FreshClientStep ==
  ASSUME ServerInv, NEW i \in Ids, state[i] \in {"none", "waiting"},
         NEW x \in {"waiting", "dropped"}, state' = [state EXCEPT ![i] = x],
         UNCHANGED <<server, numThreads, next, connections, loopOf, queue, asserts>>,
         backlog' \in Seq(Ids), Distinct(backlog'), idle' = "closed" => backlog' # <<>>,
         \A j \in ToSet(backlog') : IF j = i THEN x = "waiting" ELSE j \in ToSet(backlog)
  PROVE  ServerInv'
<1>1. /\ \A j \in Ids : j # i => state'[j] = state[j]
      /\ state'[i] = x
      /\ state' \in [Ids -> States]
  BY DEF ServerInv, ServerTypes, States
<1>2. ServerTypes'
  BY <1>1 DEF ServerInv, ServerTypes
<1>3. ASSUME NEW l \in Loops
      PROVE  (\A f \in ToSet(queue'[l]) : Fits(f, l)') /\ Ordered(queue'[l])
  <2>1. queue'[l] = queue[l] /\ Ordered(queue[l])
    BY DEF ServerInv
  <2>2. ASSUME NEW f \in ToSet(queue[l])
        PROVE  Fits(f, l)'
    <3>1. f.conn \in Ids
      BY QueuedFunctor DEF ServerInv
    <3>2. Fits(f, l)
      BY DEF ServerInv
    <3>3. CASE f.conn # i
      BY <1>1, <3>1, <3>2, <3>3 DEF Fits
    <3>4. CASE f.conn = i
      BY <3>2, <3>4 DEF Fits
    <3>. QED
      BY <3>3, <3>4
  <2>. QED
    BY <2>1, <2>2
<1>4. MapMatchesConnections'
  BY <1>1 DEF ServerInv, MapMatchesConnections
<1>5. \A j \in ToSet(backlog') : state'[j] = "waiting"
  <2>1. \A j \in ToSet(backlog') : j \in Ids
    BY MemberFacts
  <2>. QED
    BY <1>1, <2>1 DEF ServerInv
<1>. QED
  BY <1>2, <1>3, <1>4, <1>5 DEF ServerInv

LEMMA DropClientStep == ServerInv /\ DropClient => ServerInv'
<1> SUFFICES ASSUME ServerInv, DropClient
             PROVE  ServerInv'
  OBVIOUS
<1>1. CASE FreeFds > 0
  <2>1. PICK i : i = Head(backlog)
    OBVIOUS
  <2>2. backlog # <<>> /\ backlog' = Tail(backlog) /\ idle' = "held"
    BY <1>1 DEF DropClient, ServerInv
  <2>3. /\ i \in Ids /\ i \in ToSet(backlog) /\ Tail(backlog) \in Seq(Ids)
        /\ ToSet(Tail(backlog)) \subseteq ToSet(backlog)
    BY <2>1, <2>2, TailFacts DEF ServerInv, ServerTypes
  <2>4. Distinct(Tail(backlog)) /\ i \notin ToSet(Tail(backlog))
    BY <2>1, <2>2, DistinctFacts DEF ServerInv, ServerTypes
  <2>5. /\ state' = [state EXCEPT ![i] = "dropped"]
        /\ UNCHANGED <<server, numThreads, next, connections, loopOf, queue, asserts>>
    BY <1>1, <2>1 DEF DropClient, poolVars
  <2>6. state[i] = "waiting"
    BY <2>3 DEF ServerInv
  <2>. QED
    BY <2>2, <2>3, <2>4, <2>5, <2>6, FreshClientStep
<1>2. CASE ~(FreeFds > 0)
  <2>1. /\ UNCHANGED <<server, numThreads, next, connections, state, loopOf, queue, backlog,
                       asserts>>
        /\ idle' = "lost"
    BY <1>2 DEF DropClient, poolVars
  <2>. QED
    BY <2>1 DEF ServerInv, ServerTypes, Fits, MapMatchesConnections
<1>. QED
  BY <1>1, <1>2

LEMMA ClientConnectsStep ==
  ASSUME ServerInv, NEW i \in Ids, ClientConnects(i)
  PROVE  ServerInv'
<1>1. /\ state[i] = "none" /\ state' = [state EXCEPT ![i] = "waiting"]
      /\ backlog' = Append(backlog, i)
      /\ UNCHANGED <<server, numThreads, next, connections, loopOf, queue, asserts>>
  BY DEF ClientConnects, poolVars
<1>2. backlog \in Seq(Ids) /\ i \notin ToSet(backlog) /\ Distinct(backlog)
  BY <1>1 DEF ServerInv, ServerTypes
<1>3. /\ backlog' \in Seq(Ids) /\ backlog' # <<>>
      /\ ToSet(backlog') = ToSet(backlog) \cup {i}
  BY <1>1, <1>2, AppendFacts
<1>4. Distinct(backlog')
  BY <1>1, <1>2, DistinctFacts
<1>. QED
  BY <1>1, <1>3, <1>4, FreshClientStep

(* handleClose(): nothing is queued for a connection that is up.            *)
LEMMA HandleCloseStep ==
  ASSUME ServerInv, NEW i \in Ids, HandleClose(i)
  PROVE  ServerInv'
<1>1. CASE server # "alive"
  <2>1. UNCHANGED <<server, numThreads, next, connections, state, loopOf, queue, backlog, idle,
                    asserts>>
    BY <1>1 DEF HandleClose, poolVars, fdVars
  <2>. QED
    BY <2>1 DEF ServerInv, ServerTypes, Fits, MapMatchesConnections
<1>2. CASE server = "alive"
  <2>1. /\ state[i] = "kConnected" /\ state' = [state EXCEPT ![i] = "kDisconnected"]
        /\ UNCHANGED <<server, numThreads, next, loopOf, backlog, idle>>
        /\ RemoveConnection(i)
    BY <1>2 DEF HandleClose, poolVars, fdVars
  <2>2. i \in connections
    BY <1>2, <2>1 DEF ServerInv, MapMatchesConnections
  <2>3. PICK new : new = Functor(IF loopOf[i] = 0 THEN "destroy" ELSE "remove", i)
    OBVIOUS
  <2>4. /\ queue' = [queue EXCEPT ![0] = Append(@, new)]
        /\ connections' = IF loopOf[i] = 0 THEN connections \ {i} ELSE connections
        /\ asserts' = asserts
    <3>1. CASE loopOf[i] = 0
      BY <2>1, <2>2, <2>3, <3>1 DEF RemoveConnection, RemoveConnectionInLoop, ServerInv
    <3>2. CASE loopOf[i] # 0
      BY <2>1, <2>3, <3>2 DEF RemoveConnection
    <3>. QED
      BY <3>1, <3>2
  <2>5. /\ new \in FunctorSet /\ new.conn = i
        /\ new.op = IF loopOf[i] = 0 THEN "destroy" ELSE "remove"
    BY <2>3 DEF Functor, FunctorSet
  <2>6. \A l \in Loops : \A f \in ToSet(queue[l]) : f.conn \in Ids /\ f.conn # i
    BY <1>2, <2>1, QueuedFacts, QueuedFunctor DEF ServerInv
  <2>7. \A l \in Loops : \A f \in ToSet(queue[l]) : Fits(f, l)'
    <3> TAKE l \in Loops
    <3> TAKE f \in ToSet(queue[l])
    <3>1. f.conn \in Ids /\ f.conn # i /\ Fits(f, l)
      BY <2>6 DEF ServerInv
    <3>2. state'[f.conn] = state[f.conn] /\ (f.conn \in connections' <=> f.conn \in connections)
      BY <2>1, <2>4, <3>1 DEF ServerInv, ServerTypes
    <3>. QED
      BY <2>1, <3>1, <3>2 DEF Fits
  <2>8. Fits(new, 0)'
    <3>1. state'[i] = "kDisconnected"
      BY <2>1 DEF ServerInv, ServerTypes
    <3>. QED
      BY <2>1, <2>2, <2>4, <2>5, <3>1 DEF Fits
  <2>9. 0 \in Loops /\ queue[0] \in Seq(FunctorSet) /\ Ordered(queue[0])
    BY ServerAssumption DEF Loops, ServerInv, ServerTypes
  <2>10. /\ Append(queue[0], new) \in Seq(FunctorSet)
         /\ ToSet(Append(queue[0], new)) = ToSet(queue[0]) \cup {new}
    BY <2>5, <2>9, AppendFacts
  <2>11. Ordered(Append(queue[0], new))
    BY <2>5, <2>6, <2>9, OrderedAppend
  <2>12. queue'[0] = Append(queue[0], new) /\ \A l \in Loops : l # 0 => queue'[l] = queue[l]
    BY <2>4, <2>9 DEF ServerInv, ServerTypes
  <2>13. \A l \in Loops : (\A f \in ToSet(queue'[l]) : Fits(f, l)') /\ Ordered(queue'[l])
    <3> TAKE l \in Loops
    <3>1. CASE l = 0
      BY <2>7, <2>8, <2>10, <2>11, <2>12, <3>1
    <3>2. CASE l # 0
      BY <2>7, <2>12, <3>2 DEF ServerInv
    <3>. QED
      BY <3>1, <3>2
  <2>14. ServerTypes'
    <3>1. queue' \in [Loops -> Seq(FunctorSet)]
      BY <2>4, <2>10, <2>9 DEF ServerInv, ServerTypes
    <3>2. state' \in [Ids -> States] /\ connections' \in SUBSET Ids
      BY <2>1, <2>4 DEF ServerInv, ServerTypes, States
    <3>. QED
      BY <2>1, <3>1, <3>2 DEF ServerInv, ServerTypes
  <2>15. \A j \in Ids : j # i =>
           /\ state'[j] = state[j]
           /\ Functor("remove", j) \in ToSet(queue'[0]) <=> Functor("remove", j) \in ToSet(queue[0])
    <3>1. \A j \in Ids : j # i => Functor("remove", j) # new
      BY <2>5 DEF Functor
    <3>. QED
      BY <2>1, <2>10, <2>12, <3>1 DEF ServerInv, ServerTypes
  <2>16. /\ state'[i] = "kDisconnected"
         /\ Functor("remove", i) \in ToSet(queue'[0]) <=> loopOf[i] # 0
    <3>1. Functor("remove", i).conn = i /\ Functor("remove", i).op = "remove"
      BY DEF Functor
    <3>2. Functor("remove", i) \notin ToSet(queue[0])
      BY <2>6, <2>9, <3>1
    <3>3. Functor("remove", i) = new <=> loopOf[i] # 0
      BY <2>3, <2>5, <3>1
    <3>. QED
      BY <2>1, <2>10, <2>12, <3>2, <3>3 DEF ServerInv, ServerTypes
  <2>17. MapMatchesConnections'
    <3>1. connections = {j \in Ids : \/ state[j] \in {"kConnecting", "kConnected"}
                                     \/ Functor("remove", j) \in ToSet(queue[0])}
      BY <1>2 DEF ServerInv, MapMatchesConnections
    <3>2. \A j \in Ids : j \in connections' <=>
            \/ state'[j] \in {"kConnecting", "kConnected"}
            \/ Functor("remove", j) \in ToSet(queue'[0])
      BY <2>2, <2>4, <2>15, <2>16, <3>1
    <3>. QED
      BY <2>14, <3>2 DEF MapMatchesConnections, ServerTypes
  <2>18. \A j \in ToSet(backlog') : state'[j] = "waiting"
    <3>1. \A j \in ToSet(backlog) : j \in Ids /\ state[j] = "waiting"
      BY MemberFacts DEF ServerInv, ServerTypes
    <3>. QED
      BY <2>1, <2>15, <3>1
  <2>. QED
    BY <2>1, <2>4, <2>13, <2>14, <2>17, <2>18 DEF ServerInv
<1>. QED
  BY <1>1, <1>2

(* What is known when loop l runs the first functor of its queue.           *)
LEMMA HeadFacts ==
  ASSUME ServerInv, NEW l \in Loops, queue[l] # <<>>, NEW f, f = Head(queue[l])
  PROVE  /\ f \in FunctorSet /\ f.conn \in Ids /\ f \in ToSet(queue[l]) /\ Fits(f, l)
         /\ Tail(queue[l]) \in Seq(FunctorSet) /\ Ordered(Tail(queue[l]))
         /\ ToSet(queue[l]) = ToSet(Tail(queue[l])) \cup {f}
         /\ \A g \in ToSet(Tail(queue[l])) : g.conn = f.conn =>
              g.op # "established" /\ (f.op = "remove" => g.op # "remove")
<1>1. queue[l] \in Seq(FunctorSet) /\ Ordered(queue[l])
  BY DEF ServerInv, ServerTypes
<1>2. /\ f \in ToSet(queue[l]) /\ Tail(queue[l]) \in Seq(FunctorSet)
      /\ ToSet(queue[l]) = ToSet(Tail(queue[l])) \cup {f}
  BY <1>1, TailFacts
<1>3. /\ Ordered(Tail(queue[l]))
      /\ \A g \in ToSet(Tail(queue[l])) : g.conn = f.conn =>
           g.op # "established" /\ (f.op = "remove" => g.op # "remove")
  BY <1>1, OrderedTail
<1>4. f \in FunctorSet /\ f.conn \in Ids
  BY <1>2, QueuedFunctor DEF ServerInv
<1>5. Fits(f, l)
  BY <1>2 DEF ServerInv
<1>. QED
  BY <1>2, <1>3, <1>4, <1>5

(* connectEstablished() or connectDestroyed() runs in loop l.               *)
LEMMA RunConnectionStep ==
  ASSUME ServerInv, NEW l \in Loops, queue[l] # <<>>, NEW f, f = Head(queue[l]),
         NEW x,
         \/ f.op = "established" /\ x = "kConnected"
         \/ f.op = "destroy" /\ x = "destroyed",
         state' = [state EXCEPT ![f.conn] = x],
         queue' = [queue EXCEPT ![l] = Tail(@)],
         UNCHANGED <<server, numThreads, next, connections, loopOf, backlog, idle, asserts>>
  PROVE  ServerInv'
<1>1. /\ f \in FunctorSet /\ f.conn \in Ids /\ f \in ToSet(queue[l]) /\ Fits(f, l)
      /\ Tail(queue[l]) \in Seq(FunctorSet) /\ Ordered(Tail(queue[l]))
      /\ ToSet(queue[l]) = ToSet(Tail(queue[l])) \cup {f}
      /\ \A g \in ToSet(Tail(queue[l])) : g.conn = f.conn => g.op # "established"
  BY HeadFacts
<1>2. /\ queue'[l] = Tail(queue[l])
      /\ \A m \in Loops : m # l => queue'[m] = queue[m]
      /\ state'[f.conn] = x
      /\ \A j \in Ids : j # f.conn => state'[j] = state[j]
  BY <1>1 DEF ServerInv, ServerTypes
<1>3. \A m \in Loops : ToSet(queue'[m]) \subseteq ToSet(queue[m]) /\ Ordered(queue'[m])
  BY <1>1, <1>2 DEF ServerInv
<1>4. ASSUME NEW m \in Loops, NEW g \in ToSet(queue'[m])
      PROVE  Fits(g, m)'
  <2>1. g \in ToSet(queue[m]) /\ g.conn \in Ids /\ Fits(g, m)
    BY <1>3, QueuedFunctor DEF ServerInv
  <2>2. CASE g.conn # f.conn
    BY <1>2, <2>1, <2>2 DEF Fits
  <2>3. CASE g.conn = f.conn
    <3>1. g.op # "established"
      <4>1. g.op = "established" => m = l
        BY <1>1, <2>1, <2>3 DEF Fits
      <4>. QED
        BY <1>1, <1>2, <2>3, <4>1
    <3>2. g.op = "remove" => server # "alive"
      BY <1>1, <2>1, <2>3 DEF Fits
    <3>3. g.op = "destroy" /\ server = "alive" => f.op = "destroy"
      BY <1>1, <2>1, <2>3 DEF Fits
    <3>. QED
      BY <1>2, <2>1, <2>3, <3>1, <3>2, <3>3 DEF Fits
  <2>. QED
    BY <2>2, <2>3
<1>5. ServerTypes'
  <2>1. queue' \in [Loops -> Seq(FunctorSet)]
    BY <1>1 DEF ServerInv, ServerTypes
  <2>2. state' \in [Ids -> States]
    BY <1>1 DEF ServerInv, ServerTypes, States
  <2>. QED
    BY <2>1, <2>2 DEF ServerInv, ServerTypes
<1>6. MapMatchesConnections'
  <2>1. CASE server # "alive"
    BY <2>1 DEF MapMatchesConnections
  <2>2. CASE server = "alive"
    <3>1. 0 \in Loops
      BY ServerAssumption DEF Loops
    <3>2. \A j \in Ids : Functor("remove", j) # f
      BY DEF Functor
    <3>3. \A j \in Ids : Functor("remove", j) \in ToSet(queue'[0])
                           <=> Functor("remove", j) \in ToSet(queue[0])
      BY <1>1, <1>2, <3>1, <3>2
    <3>4. connections = {j \in Ids : \/ state[j] \in {"kConnecting", "kConnected"}
                                     \/ Functor("remove", j) \in ToSet(queue[0])}
      BY <2>2 DEF ServerInv, MapMatchesConnections
    <3>5. state'[f.conn] \in {"kConnecting", "kConnected"}
            <=> state[f.conn] \in {"kConnecting", "kConnected"}
      BY <1>1, <1>2, <2>2 DEF Fits
    <3>6. \A j \in Ids : state'[j] \in {"kConnecting", "kConnected"}
                           <=> state[j] \in {"kConnecting", "kConnected"}
      BY <1>2, <3>5
    <3>. QED
      BY <3>3, <3>4, <3>6 DEF MapMatchesConnections
  <2>. QED
    BY <2>1, <2>2
<1>7. \A j \in ToSet(backlog') : state'[j] = "waiting"
  <2>1. \A j \in ToSet(backlog) : j \in Ids /\ state[j] = "waiting"
    BY MemberFacts DEF ServerInv, ServerTypes
  <2>2. state[f.conn] # "waiting"
    BY <1>1 DEF Fits
  <2>. QED
    BY <1>2, <2>1, <2>2
<1>. QED
  BY <1>3, <1>4, <1>5, <1>6, <1>7 DEF ServerInv

(* removeConnectionInLoop() runs in the base loop, while the server lives.  *)
LEMMA RunRemoveStep ==
  ASSUME ServerInv, NEW l \in Loops, queue[l] # <<>>, NEW f, f = Head(queue[l]),
         f.op = "remove", server = "alive",
         RemoveConnectionInLoop(f.conn, [queue EXCEPT ![l] = Tail(@)]),
         UNCHANGED <<server, numThreads, next, state, loopOf, backlog, idle>>
  PROVE  ServerInv'
<1>1. /\ f \in FunctorSet /\ f.conn \in Ids /\ f \in ToSet(queue[l]) /\ Fits(f, l)
      /\ Tail(queue[l]) \in Seq(FunctorSet) /\ Ordered(Tail(queue[l]))
      /\ ToSet(queue[l]) = ToSet(Tail(queue[l])) \cup {f}
      /\ \A g \in ToSet(Tail(queue[l])) : g.conn = f.conn => g.op # "remove"
  BY HeadFacts
<1>2. PICK i : i = f.conn
  OBVIOUS
<1>3. /\ i \in Ids /\ l = 0 /\ state[i] = "kDisconnected" /\ i \in connections
      /\ loopOf[i] \in Loops
  BY <1>1, <1>2 DEF Fits, ServerInv, ServerTypes
<1>4. PICK new : new = Functor("destroy", i)
  OBVIOUS
<1>5. PICK rest : rest = [queue EXCEPT ![l] = Tail(@)]
  OBVIOUS
<1>6. PICK home : home = loopOf[i]
  OBVIOUS
<1>7. /\ connections' = connections \ {i} /\ asserts' = TRUE
      /\ queue' = [rest EXCEPT ![home] = Append(@, new)]
  BY <1>2, <1>3, <1>4, <1>5, <1>6 DEF RemoveConnectionInLoop, ServerInv
<1>8. /\ rest \in [Loops -> Seq(FunctorSet)]
      /\ rest[0] = Tail(queue[0])
      /\ \A m \in Loops : m # 0 => rest[m] = queue[m]
  BY <1>1, <1>3, <1>5 DEF ServerInv, ServerTypes
<1>9. \A m \in Loops : Ordered(rest[m]) /\ ToSet(rest[m]) \subseteq ToSet(queue[m])
  BY <1>1, <1>3, <1>8 DEF ServerInv
<1>10. new \in FunctorSet /\ new.conn = i /\ new.op = "destroy"
  BY <1>3, <1>4 DEF Functor, FunctorSet
<1>11. /\ queue'[home] = Append(rest[home], new)
       /\ \A m \in Loops : m # home => queue'[m] = rest[m]
       /\ home \in Loops
  BY <1>3, <1>6, <1>7, <1>8
<1>12. /\ Append(rest[home], new) \in Seq(FunctorSet)
       /\ ToSet(Append(rest[home], new)) = ToSet(rest[home]) \cup {new}
  BY <1>8, <1>10, <1>11, AppendFacts
<1>13. Ordered(Append(rest[home], new))
  BY <1>8, <1>9, <1>10, <1>11, OrderedAppend
<1>14. ASSUME NEW m \in Loops, NEW g \in ToSet(rest[m])
       PROVE  Fits(g, m)'
  <2>1. g \in ToSet(queue[m]) /\ g.conn \in Ids /\ Fits(g, m)
    BY <1>9, QueuedFunctor DEF ServerInv
  <2>2. CASE g.conn # i
    BY <1>7, <2>1, <2>2 DEF Fits
  <2>3. CASE g.conn = i
    <3>1. g.op # "remove"
      <4>1. g.op = "remove" => m = 0
        BY <2>1 DEF Fits
      <4>. QED
        BY <1>1, <1>2, <1>3, <1>8, <2>3, <4>1
    <3>2. g.op # "established" /\ g.op # "destroy"
      BY <1>3, <2>1, <2>3 DEF Fits
    <3>. QED
      BY <3>1, <3>2 DEF Fits
  <2>. QED
    BY <2>2, <2>3
<1>15. Fits(new, home)'
  BY <1>3, <1>6, <1>7, <1>10 DEF Fits
<1>16. \A m \in Loops : (\A g \in ToSet(queue'[m]) : Fits(g, m)') /\ Ordered(queue'[m])
  <2> TAKE m \in Loops
  <2>1. CASE m = home
    BY <1>11, <1>12, <1>13, <1>14, <1>15, <2>1
  <2>2. CASE m # home
    BY <1>9, <1>11, <1>14, <2>2
  <2>. QED
    BY <2>1, <2>2
<1>17. ServerTypes'
  <2>1. queue' \in [Loops -> Seq(FunctorSet)]
    BY <1>7, <1>8, <1>12
  <2>. QED
    BY <1>7, <2>1 DEF ServerInv, ServerTypes
<1>18. MapMatchesConnections'
  <2>1. f = Functor("remove", i)
    BY <1>1, <1>2 DEF Functor, FunctorSet
  <2>2. \A j \in Ids : Functor("remove", j) # new /\ (j # i => Functor("remove", j) # f)
    BY <1>2, <1>10 DEF Functor
  <2>3. \A j \in Ids : Functor("remove", j) \in ToSet(queue'[0])
                         <=> Functor("remove", j) \in ToSet(rest[0])
    BY <1>11, <1>12, <2>2, <1>3
  <2>4. \A j \in Ids : j # i => (Functor("remove", j) \in ToSet(rest[0])
                                   <=> Functor("remove", j) \in ToSet(queue[0]))
    BY <1>1, <1>3, <1>8, <2>2
  <2>5. Functor("remove", i) \notin ToSet(rest[0])
    BY <1>1, <1>3, <1>8, <2>1
  <2>6. connections = {j \in Ids : \/ state[j] \in {"kConnecting", "kConnected"}
                                   \/ Functor("remove", j) \in ToSet(queue[0])}
    BY DEF ServerInv, MapMatchesConnections
  <2>7. \A j \in Ids : j \in connections' <=>
          \/ state'[j] \in {"kConnecting", "kConnected"}
          \/ Functor("remove", j) \in ToSet(queue'[0])
    BY <1>3, <1>7, <2>3, <2>4, <2>5, <2>6
  <2>. QED
    BY <1>17, <2>7 DEF MapMatchesConnections, ServerTypes
<1>. QED
  BY <1>7, <1>16, <1>17, <1>18 DEF ServerInv

LEMMA RunFunctorStep ==
  ASSUME ServerInv, NEW l \in Loops, RunFunctor(l)
  PROVE  ServerInv'
<1>1. /\ queue[l] # <<>>
      /\ UNCHANGED <<server, numThreads, next, loopOf, backlog, idle>>
  BY DEF RunFunctor, poolVars, fdVars
<1>2. PICK f : f = Head(queue[l])
  OBVIOUS
<1>3. Fits(f, l)
  BY <1>1, <1>2, HeadFacts
<1> DEFINE rest == [queue EXCEPT ![l] = Tail(@)]
<1>4. \/ /\ f.op = "established" /\ state' = [state EXCEPT ![f.conn] = "kConnected"]
         /\ asserts' = (asserts /\ state[f.conn] = "kConnecting")
         /\ queue' = rest /\ UNCHANGED connections
      \/ /\ f.op = "remove" /\ server = "alive"
         /\ RemoveConnectionInLoop(f.conn, rest) /\ UNCHANGED state
      \/ UNCHANGED <<state, connections, asserts, queue>>
      \/ /\ f.op = "destroy" /\ state' = [state EXCEPT ![f.conn] = "destroyed"]
         /\ queue' = rest /\ UNCHANGED <<connections, asserts>>
  BY <1>2 DEF RunFunctor, Destroy
<1>5. CASE /\ f.op = "established" /\ state' = [state EXCEPT ![f.conn] = "kConnected"]
           /\ asserts' = (asserts /\ state[f.conn] = "kConnecting")
           /\ queue' = rest /\ UNCHANGED connections
  <2>1. asserts' = asserts
    BY <1>3, <1>5 DEF Fits, ServerInv
  <2>. QED
    BY <1>1, <1>2, <1>5, <2>1, RunConnectionStep
<1>6. CASE /\ f.op = "remove" /\ server = "alive"
           /\ RemoveConnectionInLoop(f.conn, rest) /\ UNCHANGED state
  BY <1>1, <1>2, <1>6, RunRemoveStep
<1>7. CASE UNCHANGED <<state, connections, asserts, queue>>
  BY <1>1, <1>7 DEF ServerInv, ServerTypes, Fits, MapMatchesConnections
<1>8. CASE /\ f.op = "destroy" /\ state' = [state EXCEPT ![f.conn] = "destroyed"]
           /\ queue' = rest /\ UNCHANGED <<connections, asserts>>
  BY <1>1, <1>2, <1>8, RunConnectionStep
<1>. QED
  BY <1>4, <1>5, <1>6, <1>7, <1>8

(* The connections in the map have been made and are not destroyed.         *)
LEMMA ListedFacts ==
  ASSUME ServerInv, server = "alive", NEW i \in connections
  PROVE  i \in Ids /\ state[i] \in {"kConnecting", "kConnected", "kDisconnected"}
<1>1. \/ state[i] \in {"kConnecting", "kConnected"}
      \/ Functor("remove", i) \in ToSet(queue[0])
  BY DEF ServerInv, MapMatchesConnections
<1>2. ASSUME Functor("remove", i) \in ToSet(queue[0])
      PROVE  state[i] = "kDisconnected"
  <2>1. Fits(Functor("remove", i), 0)
    BY <1>2, ServerAssumption DEF ServerInv, Loops
  <2>. QED
    BY <2>1 DEF Fits, Functor
<1>. QED
  BY <1>1, <1>2 DEF ServerInv, ServerTypes

LEMMA DestroyServerStep == ServerInv /\ DestroyServer => ServerInv'
<1> SUFFICES ASSUME ServerInv, DestroyServer
             PROVE  ServerInv'
  OBVIOUS
<1> DEFINE later(l) == SetToSeq({i \in connections \ DestroyedAtOnce : loopOf[i] = l})
           more(l) == [k \in DOMAIN later(l) |-> Functor("destroy", later(l)[k])]
<1>1. /\ server = "alive" /\ server' = "dead"
      /\ state' = [i \in Ids |-> IF i \in DestroyedAtOnce THEN "destroyed" ELSE state[i]]
      /\ queue' = [l \in Loops |-> queue[l] \o more(l)]
      /\ connections' = {} /\ idle' = "lost" /\ backlog' = <<>>
      /\ UNCHANGED <<numThreads, next, loopOf, asserts>>
  BY DEF DestroyServer, Destroy, poolVars
<1> HIDE DEF more
<1>2. ASSUME NEW l \in Loops
      PROVE  /\ more(l) \in Seq(FunctorSet)
             /\ \A g \in ToSet(more(l)) :
                  /\ g.op = "destroy" /\ loopOf[g.conn] = l
                  /\ g.conn \in connections \ DestroyedAtOnce
  <2> DEFINE T == {i \in connections \ DestroyedAtOnce : loopOf[i] = l}
  <2>1. T \subseteq Ids /\ IsFiniteSet(T)
    BY ServerAssumption, FS_Subset DEF ServerInv, ServerTypes
  <2>2. SetToSeq(T) \in Seq(T)
    BY <2>1, SetToSeqFacts
  <2>3. PICK s \in Seq(T) : s = SetToSeq(T)
    BY <2>2
  <2>4. more(l) = [k \in 1..Len(s) |-> Functor("destroy", s[k])]
    BY <2>3 DEF more
  <2>5. \A k \in 1..Len(s) : s[k] \in T
    OBVIOUS
  <2>6. \A k \in 1..Len(s) : Functor("destroy", s[k]) \in FunctorSet
    BY <2>1, <2>5 DEF Functor, FunctorSet
  <2>7. more(l) \in Seq(FunctorSet) /\ Len(more(l)) = Len(s)
    BY <2>4, <2>6
  <2>8. \A g \in ToSet(more(l)) : \E k \in 1..Len(s) : g = Functor("destroy", s[k])
    <3>1. \A g \in ToSet(more(l)) : \E k \in 1..Len(more(l)) : more(l)[k] = g
      BY <2>7, MemberFacts
    <3>. QED
      BY <2>4, <2>7, <3>1
  <2>9. \A g \in ToSet(more(l)) : g.op = "destroy" /\ g.conn \in T
    BY <2>5, <2>8 DEF Functor
  <2>. QED
    BY <2>7, <2>9
<1>3. ASSUME NEW l \in Loops
      PROVE  /\ queue'[l] \in Seq(FunctorSet) /\ Ordered(queue'[l])
             /\ ToSet(queue'[l]) = ToSet(queue[l]) \cup ToSet(more(l))
  <2>1. queue'[l] = queue[l] \o more(l)
    BY <1>1
  <2>2. queue[l] \in Seq(FunctorSet) /\ Ordered(queue[l])
    BY DEF ServerInv, ServerTypes
  <2>3. more(l) \in Seq(FunctorSet) /\ \A g \in ToSet(more(l)) : g.op = "destroy"
    BY <1>2
  <2>4. Ordered(queue[l] \o more(l))
    BY <2>2, <2>3, OrderedConcat
  <2>. QED
    BY <2>1, <2>2, <2>3, <2>4, ConcatFacts
<1>4. \A i \in Ids : state'[i] = IF i \in DestroyedAtOnce THEN "destroyed" ELSE state[i]
  BY <1>1
<1>5. ASSUME NEW l \in Loops, NEW g \in ToSet(queue'[l])
      PROVE  Fits(g, l)'
  <2>1. CASE g \in ToSet(queue[l])
    <3>1. g.conn \in Ids /\ Fits(g, l)
      BY <2>1, QueuedFunctor DEF ServerInv
    <3>2. g.op = "established" => g.conn \notin DestroyedAtOnce
      BY <3>1 DEF Fits, DestroyedAtOnce
    <3>. QED
      BY <1>1, <1>4, <3>1, <3>2 DEF Fits
  <2>2. CASE g \in ToSet(more(l))
    <3>1. g.op = "destroy" /\ loopOf[g.conn] = l /\ g.conn \in connections \ DestroyedAtOnce
      BY <1>2, <2>2
    <3>2. g.conn \in Ids /\ state[g.conn] \in {"kConnecting", "kConnected", "kDisconnected"}
      BY <1>1, <3>1, ListedFacts
    <3>. QED
      BY <1>1, <1>4, <3>1, <3>2 DEF Fits
  <2>. QED
    BY <1>3, <2>1, <2>2
<1>6. ServerTypes'
  <2>1. queue' \in [Loops -> Seq(FunctorSet)]
    <3>1. DOMAIN queue' = Loops /\ queue' = [l \in Loops |-> queue'[l]]
      BY <1>1
    <3>. QED
      BY <1>3, <3>1
  <2>2. state' \in [Ids -> States]
    BY <1>1 DEF ServerInv, ServerTypes, States
  <2>. QED
    BY <1>1, <2>1, <2>2, EmptySeq DEF ServerInv, ServerTypes
<1>7. ToSet(<<>>) = {} /\ Distinct(<<>>)
  BY DEF ToSet, Distinct
<1>. QED
  BY <1>1, <1>3, <1>5, <1>6, <1>7 DEF ServerInv, MapMatchesConnections

LEMMA ServerInvStep == ServerInv /\ [Next]_vars => ServerInv'
<1> SUFFICES ASSUME ServerInv, [Next]_vars
             PROVE  ServerInv'
  OBVIOUS
<1>0. ASSUME UNCHANGED <<server, numThreads, next, connections, state, loopOf, queue, backlog,
                         asserts>>,
             idle' = "closed" => backlog # <<>>
      PROVE  ServerInv'
  BY <1>0 DEF ServerInv, ServerTypes, Fits, MapMatchesConnections
<1>1. CASE Start
  BY <1>0, <1>1 DEF Start, poolVars, connVars, fdVars, ServerInv
<1>2. CASE HandleRead
  <2>1. CASE FreeFds > 0
    BY <1>2, <2>1, NewConnectionStep
  <2>2. CASE ~(FreeFds > 0)
    BY <1>0, <1>2, <2>2 DEF HandleRead, OutOfDescriptors, poolVars, connVars
  <2>. QED
    BY <2>1, <2>2
<1>3. CASE DropClient
  BY <1>3, DropClientStep
<1>4. CASE DestroyServer
  BY <1>4, DestroyServerStep
<1>5. ASSUME NEW i \in Ids, ClientConnects(i)
      PROVE  ServerInv'
  BY <1>5, ClientConnectsStep
<1>6. ASSUME NEW i \in Ids, HandleClose(i)
      PROVE  ServerInv'
  BY <1>6, HandleCloseStep
<1>7. ASSUME NEW l \in Loops, RunFunctor(l)
      PROVE  ServerInv'
  BY <1>7, RunFunctorStep
<1>8. ASSUME NEW l \in Loops, LoopQuits(l)
      PROVE  ServerInv'
  BY <1>0, <1>8 DEF LoopQuits, poolVars, connVars, fdVars, ServerInv
<1>9. CASE OthersOpen
  BY <1>0, <1>9 DEF OthersOpen, poolVars, connVars, ServerInv
<1>10. CASE OthersClose
  BY <1>0, <1>10 DEF OthersClose, poolVars, connVars, ServerInv
<1>11. CASE UNCHANGED vars
  BY <1>0, <1>11 DEF vars, poolVars, connVars, fdVars, ServerInv
<1>. QED
  BY <1>1, <1>2, <1>3, <1>4, <1>5, <1>6, <1>7, <1>8, <1>9, <1>10, <1>11 DEF Next

LEMMA ServerInvariant == Spec => []ServerInv
BY ServerInvInit, ServerInvStep, PTL DEF Spec

(* The asserts of removeConnectionInLoop() and connectEstablished() hold.   *)
THEOREM AssertsHold == Spec => []ServerAssertsHold
<1>1. ServerInv => ServerAssertsHold
  BY DEF ServerInv, ServerAssertsHold
<1>. QED
  BY <1>1, ServerInvariant, PTL

(* connections_ holds exactly the connections that are being made or up and *)
(* those whose removal is queued in the base loop.                          *)
THEOREM MapIsExact == Spec => []MapMatchesConnections
<1>1. ServerInv => MapMatchesConnections
  BY DEF ServerInv
<1>. QED
  BY <1>1, ServerInvariant, PTL

----------------------------------------------------------------------------
(* The refinement: the life that goes with each state of a connection.      *)
LifeOf(st) ==
  CASE st \in {"none", "waiting"} -> "none"
    [] st = "kConnecting" -> "made"
    [] st = "kConnected" -> "up"
    [] st = "kDisconnected" -> "down"
    [] OTHER -> "gone"

LEMMA LifeValues ==
  /\ LifeOf("none") = "none" /\ LifeOf("waiting") = "none"
  /\ LifeOf("kConnecting") = "made" /\ LifeOf("kConnected") = "up"
  /\ LifeOf("kDisconnected") = "down"
  /\ LifeOf("dropped") = "gone" /\ LifeOf("destroyed") = "gone"
BY DEF LifeOf

LEMMA LifeFacts == Life = [i \in Ids |-> LifeOf(state[i])]
BY DEF Life, LifeOf

LEMMA LifeChange ==
  ASSUME state \in [Ids -> States], NEW i \in Ids, NEW x,
         state' = [state EXCEPT ![i] = x]
  PROVE  /\ Life[i] = LifeOf(state[i])
         /\ Life' = [Life EXCEPT ![i] = LifeOf(x)]
         /\ LifeOf(x) = LifeOf(state[i]) => Life' = Life
<1>1. Life' = [j \in Ids |-> LifeOf(state'[j])]
  BY DEF Life, LifeOf
<1>2. \A j \in Ids : state'[j] = IF j = i THEN x ELSE state[j]
  OBVIOUS
<1>. QED
  BY <1>1, <1>2, LifeFacts

LEMMA LifecycleStep == ServerInv /\ [Next]_vars => [Abstract!Next]_Life
<1> SUFFICES ASSUME ServerInv, [Next]_vars
             PROVE  Abstract!Next \/ Life' = Life
  OBVIOUS
<1>0. state' = state => Life' = Life
  BY DEF Life
<1>t. state \in [Ids -> States]
  BY DEF ServerInv, ServerTypes
<1>1. CASE Start
  BY <1>0, <1>1 DEF Start, connVars
<1>2. CASE HandleRead
  <2>1. CASE FreeFds > 0
    <3>1. PICK i : i = Head(backlog)
      OBVIOUS
    <3>2. PICK x : x = IF GetNextLoop = 0 THEN "kConnected" ELSE "kConnecting"
      OBVIOUS
    <3>3. backlog # <<>> /\ state' = [state EXCEPT ![i] = x]
      BY <1>2, <2>1, <3>1, <3>2 DEF HandleRead, NewConnection
    <3>4. i \in Ids /\ i \in ToSet(backlog)
      BY <3>1, <3>3, TailFacts DEF ServerInv, ServerTypes
    <3>5. state[i] = "waiting"
      BY <3>4 DEF ServerInv
    <3>6. Life[i] = "none" /\ Life' = [Life EXCEPT ![i] = LifeOf(x)]
      BY <1>t, <3>3, <3>4, <3>5, LifeChange, LifeValues
    <3>7. Abstract!Make(i) \/ Abstract!Up(i)
      BY <3>2, <3>6, LifeValues DEF Abstract!Make, Abstract!Up, Abstract!Becomes
    <3>. QED
      BY <3>4, <3>7 DEF Abstract!Next
  <2>2. CASE ~(FreeFds > 0)
    BY <1>0, <1>2, <2>2 DEF HandleRead, OutOfDescriptors, connVars
  <2>. QED
    BY <2>1, <2>2
<1>3. CASE DropClient
  <2>1. CASE FreeFds > 0
    <3>1. PICK i : i = Head(backlog)
      OBVIOUS
    <3>2. backlog # <<>> /\ state' = [state EXCEPT ![i] = "dropped"]
      BY <1>3, <2>1, <3>1 DEF DropClient, ServerInv
    <3>3. i \in Ids /\ i \in ToSet(backlog)
      BY <3>1, <3>2, TailFacts DEF ServerInv, ServerTypes
    <3>4. state[i] = "waiting"
      BY <3>3 DEF ServerInv
    <3>0. Life[i] = LifeOf(state[i]) /\ Life' = [Life EXCEPT ![i] = LifeOf("dropped")]
      BY <1>t, <3>2, <3>3, LifeChange
    <3>5. Life[i] = "none" /\ Life' = [Life EXCEPT ![i] = "gone"]
      BY <3>0, <3>4, LifeValues
    <3>6. Abstract!Refuse(i)
      BY <3>5 DEF Abstract!Refuse, Abstract!Becomes
    <3>. QED
      BY <3>3, <3>6 DEF Abstract!Next
  <2>2. CASE ~(FreeFds > 0)
    BY <1>0, <1>3, <2>2 DEF DropClient
  <2>. QED
    BY <2>1, <2>2
<1>4. CASE DestroyServer
  <2>1. PICK S : S = DestroyedAtOnce
    OBVIOUS
  <2>2. /\ server = "alive"
        /\ state' = [i \in Ids |-> IF i \in S THEN "destroyed" ELSE state[i]]
    BY <1>4, <2>1 DEF DestroyServer, Destroy
  <2>3. \A i \in S : /\ i \in Ids
                     /\ state[i] \in {"kConnecting", "kConnected", "kDisconnected"}
    BY <2>1, <2>2, ListedFacts DEF DestroyedAtOnce
  <2>4. \A i \in S : Life[i] \in {"made", "up", "down"}
    BY <2>3, LifeFacts, LifeValues
  <2>5. S \in SUBSET {i \in Ids : Life[i] \in {"made", "up", "down"}}
    BY <2>3, <2>4
  <2>6. Life' = [i \in Ids |-> IF i \in S THEN "gone" ELSE Life[i]]
    <3>1. Life' = [i \in Ids |-> LifeOf(state'[i])]
      BY DEF Life, LifeOf
    <3>. QED
      BY <2>2, <3>1, LifeFacts, LifeValues
  <2>7. Abstract!Release
    BY <2>5, <2>6 DEF Abstract!Release
  <2>. QED
    BY <2>7 DEF Abstract!Next
<1>5. ASSUME NEW i \in Ids, ClientConnects(i)
      PROVE  Life' = Life
  <2>1. state[i] = "none" /\ state' = [state EXCEPT ![i] = "waiting"]
    BY <1>5 DEF ClientConnects
  <2>2. LifeOf("waiting") = LifeOf(state[i])
    BY <2>1, LifeValues
  <2>. QED
    BY <1>t, <2>1, <2>2, LifeChange
<1>6. ASSUME NEW i \in Ids, HandleClose(i)
      PROVE  Abstract!Next \/ Life' = Life
  <2>1. CASE server = "alive"
    <3>1. Life[i] = "up" /\ Life' = [Life EXCEPT ![i] = "down"]
      BY <1>t, <1>6, <2>1, LifeChange, LifeValues DEF HandleClose
    <3>2. Abstract!Down(i)
      BY <3>1 DEF Abstract!Down, Abstract!Becomes
    <3>. QED
      BY <3>2 DEF Abstract!Next
  <2>2. CASE server # "alive"
    BY <1>0, <1>6, <2>2 DEF HandleClose
  <2>. QED
    BY <2>1, <2>2
<1>7. ASSUME NEW l \in Loops, RunFunctor(l)
      PROVE  Abstract!Next \/ Life' = Life
  <2>1. PICK f : f = Head(queue[l])
    OBVIOUS
  <2>2. f.conn \in Ids /\ Fits(f, l)
    BY <1>7, <2>1, HeadFacts DEF RunFunctor
  <2>3. PICK i \in Ids : i = f.conn
    BY <2>2
  <2>4. \/ f.op = "established" /\ state' = [state EXCEPT ![i] = "kConnected"]
        \/ f.op = "destroy" /\ state' = [state EXCEPT ![i] = "destroyed"]
        \/ state' = state
    BY <1>7, <2>1, <2>3 DEF RunFunctor, Destroy
  <2>5. CASE f.op = "established" /\ state' = [state EXCEPT ![i] = "kConnected"]
    <3>1. state[i] = "kConnecting"
      BY <2>2, <2>3, <2>5 DEF Fits
    <3>0. Life[i] = LifeOf(state[i]) /\ Life' = [Life EXCEPT ![i] = LifeOf("kConnected")]
      BY <1>t, <2>5, LifeChange
    <3>2. Life[i] = "made" /\ Life' = [Life EXCEPT ![i] = "up"]
      BY <3>0, <3>1, LifeValues
    <3>3. Abstract!Up(i)
      BY <3>2 DEF Abstract!Up, Abstract!Becomes
    <3>. QED
      BY <3>3 DEF Abstract!Next
  <2>6. CASE f.op = "destroy" /\ state' = [state EXCEPT ![i] = "destroyed"]
    <3>1. state[i] \in {"kConnecting", "kConnected", "kDisconnected", "destroyed"}
      BY <2>2, <2>3, <2>6 DEF Fits
    <3>0. Life[i] = LifeOf(state[i]) /\ Life' = [Life EXCEPT ![i] = LifeOf("destroyed")]
      BY <1>t, <2>6, LifeChange
    <3>2. Life[i] = LifeOf(state[i]) /\ Life' = [Life EXCEPT ![i] = "gone"]
      BY <3>0, LifeValues
    <3>3. CASE state[i] = "destroyed"
      BY <1>t, <2>6, <3>3, LifeChange
    <3>4. CASE state[i] # "destroyed"
      <4>1. {i} \in SUBSET {j \in Ids : Life[j] \in {"made", "up", "down"}}
        BY <3>1, <3>2, <3>4, LifeValues
      <4>2. Life' = [j \in Ids |-> IF j \in {i} THEN "gone" ELSE Life[j]]
        BY <3>2, LifeFacts
      <4>3. Abstract!Release
        BY <4>1, <4>2 DEF Abstract!Release
      <4>. QED
        BY <4>3 DEF Abstract!Next
    <3>. QED
      BY <3>3, <3>4
  <2>. QED
    BY <1>0, <2>4, <2>5, <2>6
<1>8. ASSUME NEW l \in Loops, LoopQuits(l)
      PROVE  Life' = Life
  BY <1>0, <1>8 DEF LoopQuits, connVars
<1>9. CASE OthersOpen
  BY <1>0, <1>9 DEF OthersOpen, connVars
<1>10. CASE OthersClose
  BY <1>0, <1>10 DEF OthersClose, connVars
<1>11. CASE UNCHANGED vars
  BY <1>0, <1>11 DEF vars, connVars
<1>. QED
  BY <1>1, <1>2, <1>3, <1>4, <1>5, <1>6, <1>7, <1>8, <1>9, <1>10, <1>11 DEF Next

(* Every connection of the server has the life of ConnectionLifecycle: made *)
(* and up once, down once, and then gone, whichever loops run its functors. *)
THEOREM ServerImplementsLifecycle == Spec => ImplementsLifecycle
<1>1. Init => Abstract!Init
  BY LifeFacts, LifeValues DEF Init, Abstract!Init
<1>. QED
  BY <1>1, ServerInvariant, LifecycleStep, PTL DEF Spec, ImplementsLifecycle, Abstract!Spec

----------------------------------------------------------------------------
(* Without a pool all is done in the base loop: no functor is queued to     *)
(* remove a connection, and none is up once the server is destroyed.        *)
OneLoopInv ==
  numThreads = 0 =>
    /\ \A i \in Ids : loopOf[i] = 0
    /\ \A l \in Loops : \A f \in ToSet(queue[l]) : f.op = "destroy"
    /\ server = "dead" => \A i \in Ids : state[i] # "kConnected"
    /\ ~misuse

LEMMA OneLoopStep == ServerInv /\ OneLoopInv /\ [Next]_vars => OneLoopInv'
<1> SUFFICES ASSUME ServerInv, OneLoopInv, [Next]_vars, numThreads' = 0
             PROVE  OneLoopInv'
  BY DEF OneLoopInv
<1>a. /\ 0 \in Loops /\ state \in [Ids -> States] /\ loopOf \in [Ids -> Loops]
      /\ queue \in [Loops -> Seq(FunctorSet)]
  BY ServerAssumption DEF Loops, ServerInv, ServerTypes
<1>b. numThreads' = numThreads
  BY DEF Next, vars, poolVars, Start, HandleRead, DropClient, DestroyServer, ClientConnects,
         HandleClose, RunFunctor, LoopQuits, OthersOpen, OthersClose, OutOfDescriptors
<1>c. /\ \A i \in Ids : loopOf[i] = 0
      /\ \A l \in Loops : \A f \in ToSet(queue[l]) : f.op = "destroy"
      /\ server = "dead" => \A i \in Ids : state[i] # "kConnected"
      /\ ~misuse
  BY <1>b DEF OneLoopInv
<1>0. ASSUME UNCHANGED <<server, state, loopOf, queue, misuse>>
      PROVE  OneLoopInv'
  BY <1>0, <1>c DEF OneLoopInv
<1>1. CASE Start
  BY <1>0, <1>1 DEF Start, connVars
<1>2. CASE HandleRead
  <2>1. CASE FreeFds > 0
    <3>1. /\ server = "alive" /\ server' = server /\ misuse' = misuse
          /\ loopOf' = [loopOf EXCEPT ![Head(backlog)] = 0] /\ queue' = queue
      BY <1>2, <1>b, <2>1 DEF HandleRead, NewConnection, GetNextLoop, listening
    <3>. QED
      BY <1>a, <1>c, <3>1 DEF OneLoopInv
  <2>2. CASE ~(FreeFds > 0)
    BY <1>0, <1>2, <2>2 DEF HandleRead, OutOfDescriptors, connVars
  <2>. QED
    BY <2>1, <2>2
<1>3. CASE DropClient
  <2>1. /\ UNCHANGED <<server, loopOf, queue, misuse>>
        /\ \/ state' = state
           \/ state' = [state EXCEPT ![Head(backlog)] = "dropped"]
    BY <1>3 DEF DropClient
  <2>. QED
    BY <1>a, <1>c, <2>1 DEF OneLoopInv
<1>4. CASE DestroyServer
  <2>1. /\ server = "alive" /\ UNCHANGED <<loopOf, misuse>>
        /\ state' = [i \in Ids |-> IF i \in DestroyedAtOnce THEN "destroyed" ELSE state[i]]
    BY <1>4 DEF DestroyServer, Destroy
  <2>2. DestroyedAtOnce = connections
    BY <1>c DEF DestroyedAtOnce, ServerInv, ServerTypes
  <2>3. \A i \in Ids : state[i] = "kConnected" => i \in connections
    BY <2>1 DEF ServerInv, MapMatchesConnections
  <2>4. \A i \in Ids : state'[i] # "kConnected"
    BY <2>1, <2>2, <2>3
  <2>5. ASSUME NEW l \in Loops
        PROVE  queue'[l] = queue[l]
    <3>1. {i \in connections \ DestroyedAtOnce : loopOf[i] = l} = {}
      BY <2>2
    <3>2. PICK s \in Seq({}) : s = SetToSeq({})
      BY FS_EmptySet, SetToSeqFacts
    <3>3. s = <<>>
      OBVIOUS
    <3>4. queue'[l] = queue[l] \o [k \in DOMAIN s |-> Functor("destroy", s[k])]
      BY <1>4, <3>1, <3>2 DEF DestroyServer
    <3>5. [k \in DOMAIN s |-> Functor("destroy", s[k])] = <<>>
      BY <3>3
    <3>. QED
      BY <1>a, <3>4, <3>5, ConcatEmptySeq
  <2>. QED
    BY <1>c, <2>1, <2>4, <2>5 DEF OneLoopInv
<1>5. ASSUME NEW i \in Ids, ClientConnects(i)
      PROVE  OneLoopInv'
  BY <1>5, <1>a, <1>c DEF ClientConnects, OneLoopInv
<1>6. ASSUME NEW i \in Ids, HandleClose(i)
      PROVE  OneLoopInv'
  <2>1. server = "alive"
    BY <1>6, <1>c DEF HandleClose, ServerInv, ServerTypes
  <2>2. PICK new : new = Functor("destroy", i)
    OBVIOUS
  <2>3. /\ UNCHANGED <<server, loopOf, misuse>>
        /\ state' = [state EXCEPT ![i] = "kDisconnected"]
        /\ queue' = [queue EXCEPT ![0] = Append(@, new)]
    BY <1>6, <1>c, <2>1, <2>2 DEF HandleClose, RemoveConnection, RemoveConnectionInLoop
  <2>4. new \in FunctorSet /\ new.op = "destroy"
    BY <2>2 DEF Functor, FunctorSet
  <2>5. /\ queue'[0] = Append(queue[0], new)
        /\ \A l \in Loops : l # 0 => queue'[l] = queue[l]
        /\ ToSet(Append(queue[0], new)) = ToSet(queue[0]) \cup {new}
    BY <1>a, <2>3, <2>4, AppendFacts
  <2>6. \A l \in Loops : \A f \in ToSet(queue'[l]) : f.op = "destroy"
    BY <1>a, <1>c, <2>4, <2>5
  <2>. QED
    BY <1>c, <2>1, <2>3, <2>6 DEF OneLoopInv
<1>7. ASSUME NEW l \in Loops, RunFunctor(l)
      PROVE  OneLoopInv'
  <2>1. PICK f : f = Head(queue[l])
    OBVIOUS
  <2>2. queue[l] # <<>> /\ f \in ToSet(queue[l]) /\ ToSet(Tail(queue[l])) \subseteq ToSet(queue[l])
    <3>1. queue[l] # <<>>
      BY <1>7 DEF RunFunctor
    <3>. QED
      BY <1>a, <2>1, <3>1, TailFacts
  <2>3. f.op = "destroy"
    BY <1>c, <2>2
  <2>4. /\ UNCHANGED <<server, loopOf, misuse>>
        /\ state' = [state EXCEPT ![f.conn] = "destroyed"]
        /\ queue' = [queue EXCEPT ![l] = Tail(@)]
    BY <1>7, <2>1, <2>3 DEF RunFunctor, Destroy
  <2>5. \A m \in Loops : ToSet(queue'[m]) \subseteq ToSet(queue[m])
    BY <1>a, <2>2, <2>4
  <2>. QED
    BY <1>a, <1>c, <2>4, <2>5 DEF OneLoopInv
<1>8. ASSUME NEW l \in Loops, LoopQuits(l)
      PROVE  OneLoopInv'
  BY <1>0, <1>8 DEF LoopQuits, connVars
<1>9. CASE OthersOpen
  BY <1>0, <1>9 DEF OthersOpen, connVars
<1>10. CASE OthersClose
  BY <1>0, <1>10 DEF OthersClose, connVars
<1>11. CASE UNCHANGED vars
  BY <1>0, <1>11 DEF vars, connVars
<1>. QED
  BY <1>1, <1>2, <1>3, <1>4, <1>5, <1>6, <1>7, <1>8, <1>9, <1>10, <1>11 DEF Next

(* A server without a pool is never used after its destructor: nothing that *)
(* ~TcpServer() leaves in the base loop calls removeConnection() on it.     *)
THEOREM OneLoopIsSafe == Spec => []OneLoopServerIsSafe
<1>1. Init => OneLoopInv
  <2>1. ToSet(<<>>) = {}
    BY DEF ToSet
  <2>. QED
    BY <2>1 DEF Init, OneLoopInv
<1>2. OneLoopInv => OneLoopServerIsSafe
  BY DEF OneLoopInv, OneLoopServerIsSafe
<1>. QED
  BY <1>1, <1>2, ServerInvariant, OneLoopStep, PTL DEF Spec

(* The pool deals its loops in turn: those before next_ have one more.      *)
Dealt(l) ==
  {i \in Ids : state[i] \notin {"none", "waiting", "dropped"} /\ loopOf[i] = l}

DealtInv ==
  \E k \in Nat : \A l \in 1..numThreads :
    Cardinality(Dealt(l)) = IF l <= next THEN k + 1 ELSE k

(* A step that accepts nobody leaves what is dealt as it is.                *)
LEMMA SameDealt ==
  ASSUME DealtInv, numThreads' = numThreads, next' = next, loopOf' = loopOf,
         \A i \in Ids : state'[i] \in {"none", "waiting", "dropped"}
                          <=> state[i] \in {"none", "waiting", "dropped"}
  PROVE  DealtInv'
<1>1. \A l : Dealt(l)' = Dealt(l)
  BY DEF Dealt
<1>. QED
  BY <1>1 DEF DealtInv

LEMMA DealtStep == ServerInv /\ DealtInv /\ [Next]_vars => DealtInv'
<1> SUFFICES ASSUME ServerInv, DealtInv, [Next]_vars
             PROVE  DealtInv'
  OBVIOUS
<1>a. /\ numThreads \in 0..MaxThreads /\ next \in Nat /\ (numThreads > 0 => next < numThreads)
      /\ state \in [Ids -> States] /\ loopOf \in [Ids -> Loops] /\ MaxThreads \in Nat
  BY ServerAssumption DEF ServerInv, ServerTypes
<1>0. ASSUME UNCHANGED <<numThreads, next, state, loopOf>>
      PROVE  DealtInv'
  BY <1>0, SameDealt
<1>1. CASE Start
  BY <1>0, <1>1 DEF Start, connVars, poolVars
<1>2. CASE HandleRead
  <2>1. CASE FreeFds > 0
    <3>1. PICK i : i = Head(backlog)
      OBVIOUS
    <3>2. PICK loop : loop = GetNextLoop
      OBVIOUS
    <3>3. /\ next' = IF numThreads = 0 THEN next ELSE NextIndex(next)
          /\ loopOf' = [loopOf EXCEPT ![i] = loop]
          /\ state' = [state EXCEPT ![i] = IF loop = 0 THEN "kConnected" ELSE "kConnecting"]
          /\ backlog # <<>> /\ numThreads' = numThreads
      BY <1>2, <2>1, <3>1, <3>2 DEF HandleRead, NewConnection
    <3>4. i \in Ids /\ i \in ToSet(backlog)
      BY <3>1, <3>3, TailFacts DEF ServerInv, ServerTypes
    <3>5. state[i] = "waiting"
      BY <3>4 DEF ServerInv
    <3>6. \A l : i \notin Dealt(l)
      BY <3>5 DEF Dealt
    <3>7. Dealt(loop)' = Dealt(loop) \cup {i} /\ \A l : l # loop => Dealt(l)' = Dealt(l)
      BY <1>a, <3>3, <3>4, <3>6 DEF Dealt
    <3>8. IsFiniteSet(Dealt(loop))
      BY ServerAssumption, FS_Subset DEF Dealt
    <3>9. Cardinality(Dealt(loop)') = Cardinality(Dealt(loop)) + 1
      <4>1. PICK D : D = Dealt(loop)
        OBVIOUS
      <4>2. IsFiniteSet(D) /\ i \notin D
        BY <3>6, <3>8, <4>1
      <4>. QED
        BY <3>7, <4>1, <4>2, FS_AddElement
    <3>10. PICK k \in Nat : \A l \in 1..numThreads :
             Cardinality(Dealt(l)) = IF l <= next THEN k + 1 ELSE k
      BY DEF DealtInv
    <3>11. CASE numThreads = 0
      BY <3>3, <3>11 DEF DealtInv
    <3>12. CASE numThreads # 0
      <4>1. loop = next + 1 /\ next < numThreads /\ next' = NextIndex(next)
        BY <1>a, <3>2, <3>3, <3>12 DEF GetNextLoop
      <4>2. \A l \in 1..numThreads :
              Cardinality(Dealt(l)') = IF l <= next + 1 THEN k + 1 ELSE k
        <5> TAKE l \in 1..numThreads
        <5>1. CASE l = loop
          <6>1. ~(l <= next) /\ l <= next + 1
            BY <1>a, <4>1, <5>1
          <6>2. Cardinality(Dealt(l)) = k
            BY <3>10, <6>1
          <6>. QED
            BY <3>9, <5>1, <6>1, <6>2
        <5>2. CASE l # loop
          <6>1. Cardinality(Dealt(l)') = Cardinality(Dealt(l))
            BY <3>7, <5>2
          <6>2. l <= next + 1 <=> l <= next
            BY <1>a, <4>1, <5>2
          <6>. QED
            BY <3>10, <6>1, <6>2
        <5>. QED
          BY <5>1, <5>2
      <4>3. CASE next + 1 >= numThreads
        <5>1. next' = 0
          BY <4>1, <4>3 DEF NextIndex
        <5>2. \A l \in 1..numThreads : l <= next + 1 /\ ~(l <= 0)
          BY <1>a, <4>3
        <5>3. \A l \in 1..numThreads : Cardinality(Dealt(l)') = k + 1
          BY <4>2, <5>2
        <5>4. k + 1 \in Nat
          OBVIOUS
        <5>. QED
          BY <3>3, <5>1, <5>2, <5>3, <5>4 DEF DealtInv
      <4>4. CASE ~(next + 1 >= numThreads)
        BY <3>3, <4>1, <4>2, <4>4 DEF NextIndex, DealtInv
      <4>. QED
        BY <4>3, <4>4
    <3>. QED
      BY <3>11, <3>12
  <2>2. CASE ~(FreeFds > 0)
    BY <1>0, <1>2, <2>2 DEF HandleRead, OutOfDescriptors, connVars, poolVars
  <2>. QED
    BY <2>1, <2>2
<1>3. CASE DropClient
  <2>1. UNCHANGED <<numThreads, next, loopOf>>
    BY <1>3 DEF DropClient, poolVars
  <2>2. CASE FreeFds > 0
    <3>1. Head(backlog) \in Ids /\ state[Head(backlog)] = "waiting"
      BY <1>3, TailFacts DEF DropClient, ServerInv, ServerTypes
    <3>2. state' = [state EXCEPT ![Head(backlog)] = "dropped"]
      BY <1>3, <2>2 DEF DropClient
    <3>. QED
      BY <1>a, <2>1, <3>1, <3>2, SameDealt
  <2>3. CASE ~(FreeFds > 0)
    BY <1>0, <1>3, <2>1, <2>3 DEF DropClient
  <2>. QED
    BY <2>2, <2>3
<1>4. CASE DestroyServer
  <2>1. /\ server = "alive" /\ UNCHANGED <<numThreads, next, loopOf>>
        /\ state' = [i \in Ids |-> IF i \in DestroyedAtOnce THEN "destroyed" ELSE state[i]]
    BY <1>4 DEF DestroyServer, Destroy, poolVars
  <2>2. \A i \in DestroyedAtOnce : state[i] \in {"kConnecting", "kConnected", "kDisconnected"}
    BY <2>1, ListedFacts DEF DestroyedAtOnce
  <2>. QED
    BY <2>1, <2>2, SameDealt
<1>5. ASSUME NEW i \in Ids, ClientConnects(i)
      PROVE  DealtInv'
  <2>1. /\ UNCHANGED <<numThreads, next, loopOf>>
        /\ state[i] = "none" /\ state' = [state EXCEPT ![i] = "waiting"]
    BY <1>5 DEF ClientConnects, poolVars
  <2>. QED
    BY <1>a, <2>1, SameDealt
<1>6. ASSUME NEW i \in Ids, HandleClose(i)
      PROVE  DealtInv'
  <2>1. /\ UNCHANGED <<numThreads, next, loopOf>> /\ state[i] = "kConnected"
        /\ state' = state \/ state' = [state EXCEPT ![i] = "kDisconnected"]
    BY <1>6 DEF HandleClose, poolVars
  <2>. QED
    BY <1>a, <2>1, SameDealt
<1>7. ASSUME NEW l \in Loops, RunFunctor(l)
      PROVE  DealtInv'
  <2>1. PICK f : f = Head(queue[l])
    OBVIOUS
  <2>2. queue[l] # <<>> /\ UNCHANGED <<numThreads, next, loopOf>>
    BY <1>7 DEF RunFunctor, poolVars
  <2>3. f.conn \in Ids /\ Fits(f, l)
    BY <2>1, <2>2, HeadFacts
  <2>4. \/ state' = state
        \/ f.op = "established" /\ state' = [state EXCEPT ![f.conn] = "kConnected"]
        \/ f.op = "destroy" /\ state' = [state EXCEPT ![f.conn] = "destroyed"]
    BY <1>7, <2>1 DEF RunFunctor, Destroy
  <2>5. state' = state \/ state[f.conn] \notin {"none", "waiting", "dropped"}
    BY <2>3, <2>4 DEF Fits
  <2>. QED
    BY <1>a, <2>2, <2>3, <2>4, <2>5, SameDealt
<1>8. ASSUME NEW l \in Loops, LoopQuits(l)
      PROVE  DealtInv'
  BY <1>0, <1>8 DEF LoopQuits, connVars, poolVars
<1>9. CASE OthersOpen
  BY <1>0, <1>9 DEF OthersOpen, connVars, poolVars
<1>10. CASE OthersClose
  BY <1>0, <1>10 DEF OthersClose, connVars, poolVars
<1>11. CASE UNCHANGED vars
  BY <1>0, <1>11 DEF vars, connVars, poolVars
<1>. QED
  BY <1>1, <1>2, <1>3, <1>4, <1>5, <1>6, <1>7, <1>8, <1>9, <1>10, <1>11 DEF Next

(* getNextLoop() deals the connections evenly: however many are accepted,   *)
(* turned away, closed and destroyed, no loop of the pool has been given    *)
(* more than one connection more than another.                              *)
THEOREM LoopsShare == Spec => []LoopsShareConnections
<1>1. Init => DealtInv
  <2> SUFFICES ASSUME Init
               PROVE  DealtInv
    OBVIOUS
  <2>1. \A l : Dealt(l) = {}
    BY DEF Init, Dealt
  <2>2. \A l \in 1..numThreads : Cardinality(Dealt(l)) = 0 /\ ~(l <= next)
    BY <2>1, FS_EmptySet DEF Init
  <2>. QED
    BY <2>2 DEF DealtInv
<1>2. DealtInv /\ ServerInv => LoopsShareConnections
  <2> SUFFICES ASSUME DealtInv, ServerInv, NEW l \in 1..numThreads, NEW m \in 1..numThreads
               PROVE  Cardinality(Dealt(l)) <= Cardinality(Dealt(m)) + 1
    BY DEF LoopsShareConnections, Dealt
  <2>1. PICK k \in Nat : \A n \in 1..numThreads :
          Cardinality(Dealt(n)) = IF n <= next THEN k + 1 ELSE k
    BY DEF DealtInv
  <2>2. Cardinality(Dealt(l)) \in {k, k + 1} /\ Cardinality(Dealt(m)) \in {k, k + 1}
    BY <2>1
  <2>. QED
    BY <2>2
<1>. QED
  BY <1>1, <1>2, ServerInvariant, DealtStep, PTL DEF Spec

=============================================================================
