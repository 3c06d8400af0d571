------------------------- MODULE TcpConnectionProofs -------------------------
(***************************************************************************)
(* Proofs about the output of a TcpConnection: the stream is in order, the  *)
(* channel asks for writability exactly while there is output, shutdown()   *)
(* waits for it, and the high water mark is reported; for any number of     *)
(* threads and messages and whatever methods they call.  In plain use its   *)
(* life cycle keeps the asserts and tells the user of both ends.            *)
(***************************************************************************)
EXTENDS TcpConnection, SequenceTheorems, TLAPS

(* The output side of the connection.                                       *)
OutputTyped ==
  /\ output \in Seq(Content) /\ wire \in Seq(Content)
  /\ accepted \in Seq(Content)
  /\ chWriting \in BOOLEAN /\ shutWrite \in BOOLEAN
  /\ closed \in BOOLEAN /\ reported \in BOOLEAN

QueuesTyped ==
  /\ calls \in CallSets
  /\ pending \in Seq([op : Ops, msg : Content])
  /\ functors \in Seq([op : Ops, msg : Content])
  /\ tpc \in [Threads -> [op : Ops, msg : Content, stored : BOOLEAN]]

OutputInv ==
  /\ OutputTyped
  /\ StreamInOrder
  /\ WritingIffOutput
  /\ ShutdownAfterOutput
  /\ HighWaterMarkReported

IInv == QueuesTyped /\ OutputInv

outputVars == <<output, wire, accepted, chWriting, shutWrite, closed, reported>>

----------------------------------------------------------------------------
(* Cutting a sequence in two and joining the parts.                         *)
LEMMA CutAndJoin ==
  ASSUME NEW S, NEW s \in Seq(S), NEW n \in 0..Len(s)
  PROVE  /\ SubSeq(s, 1, n) \in Seq(S)
         /\ SubSeq(s, n + 1, Len(s)) \in Seq(S)
         /\ SubSeq(s, 1, n) \o SubSeq(s, n + 1, Len(s)) = s
         /\ Len(SubSeq(s, n + 1, Len(s))) = Len(s) - n
<1>1. n \in Int /\ Len(s) \in Nat /\ n + 1 \in Int
  BY LenProperties
<1>2. \A i \in 1..Len(s) : s[i] \in S
  BY ElementOfSeq
<1>3. SubSeq(s, 1, n) \in Seq(S)
  BY <1>1, <1>2, SubSeqProperties
<1>4. /\ SubSeq(s, n + 1, Len(s)) \in Seq(S)
      /\ Len(SubSeq(s, n + 1, Len(s))) = Len(s) - n
  BY <1>1, <1>2, SubSeqProperties
<1>5. SubSeq(s, 1, n) \o SubSeq(s, n + 1, Len(s)) = SubSeq(s, 1, Len(s))
  <2>1. 1 \in 1..Len(s) + 1 /\ n \in 1 - 1 .. Len(s) /\ Len(s) \in n..Len(s)
    BY <1>1
  <2> QED
    BY <2>1, ConcatAdjacentSubSeq
<1> QED
  BY <1>3, <1>4, <1>5, SubSeqFull

LEMMA JoinThree ==
  ASSUME NEW a \in Seq(Content), NEW b \in Seq(Content), NEW c \in Seq(Content)
  PROVE  (a \o b) \o c = a \o (b \o c)
OBVIOUS

(* What stays the same needs no proof.                                      *)
LEMMA OutputUnchanged ==
  ASSUME OutputInv, UNCHANGED outputVars
  PROVE  OutputInv'
BY DEF OutputInv, OutputTyped, StreamInOrder, WritingIffOutput,
       ShutdownAfterOutput, HighWaterMarkReported, outputVars

LEMMA BytesTyped ==
  ASSUME NEW m \in Content
  PROVE  Bytes(m) \in Seq(Content) /\ Len(Bytes(m)) = MessageLen
BY ConnectionAssumption DEF Bytes

(* What is not written directly goes to the end of the buffer.              *)
LEMMA AppendKeeps ==
  ASSUME OutputInv, NEW w \in Seq(Content), NEW rest \in Seq(Content),
         rest # <<>>, wire' = wire \o w, w = <<>> \/ output = <<>>,
         accepted' = accepted \o (w \o rest),
         AppendOutput(rest), UNCHANGED <<shutWrite, closed>>,
         shutWrite => closed \/ output # <<>>
  PROVE  OutputInv'
<1> USE DEF OutputInv, OutputTyped
<1>1. output' = output \o rest /\ chWriting' = TRUE
  BY DEF AppendOutput
<1>2. output' \in Seq(Content) /\ wire' \in Seq(Content) /\ accepted' \in Seq(Content)
  BY <1>1, ConcatProperties
<1>3. wire' \o output' = accepted'
  <2>1. CASE w = <<>>
    <3>1. wire' = wire /\ accepted' = accepted \o rest
      BY <2>1, ConcatEmptySeq
    <3>2. (wire \o output) \o rest = wire \o (output \o rest)
      BY JoinThree
    <3> QED
      BY <1>1, <3>1, <3>2 DEF StreamInOrder
  <2>2. CASE output = <<>>
    <3>1. output' = rest /\ accepted = wire
      BY <1>1, <2>2, ConcatEmptySeq DEF StreamInOrder
    <3>2. (wire \o w) \o rest = wire \o (w \o rest)
      BY JoinThree
    <3> QED
      BY <3>1, <3>2
  <2> QED
    BY <2>1, <2>2
<1>4. Len(output') = Len(output) + Len(rest) /\ Len(rest) > 0
  BY <1>1, ConcatProperties, LenProperties, EmptySeq
<1>5. reported' = (reported \/ CrossesHighWaterMark(Len(output), Len(rest)))
  BY DEF AppendOutput
<1>6. Len(output') >= HighWaterMark => reported'
  <2>1. Len(output) \in Nat /\ Len(rest) \in Nat /\ HighWaterMark \in Nat
    BY ConnectionAssumption, LenProperties
  <2>2. CASE Len(output) >= HighWaterMark
    BY <1>5, <2>2 DEF HighWaterMarkReported
  <2>3. CASE ~(Len(output) >= HighWaterMark)
    <3>1. Len(output) < HighWaterMark
      BY <2>1, <2>3
    <3>2. Len(output') >= HighWaterMark
            => CrossesHighWaterMark(Len(output), Len(rest))
      BY <1>4, <2>1, <3>1 DEF CrossesHighWaterMark
    <3> QED
      BY <1>5, <3>2
  <2> QED
    BY <2>2, <2>3
<1>7. output' # <<>>
  BY <1>2, <1>4
<1>8. reported' \in BOOLEAN
  BY <1>5
<1>9. ShutdownAfterOutput'
  BY DEF ShutdownAfterOutput
<1> QED
  BY <1>1, <1>2, <1>3, <1>6, <1>7, <1>8, <1>9
     DEF StreamInOrder, WritingIffOutput, HighWaterMarkReported

(* sendInLoop()                                                             *)
LEMMA SendKeeps ==
  ASSUME OutputInv, NEW m \in Content, SendInLoop(m)
  PROVE  OutputInv'
<1> DEFINE B == Bytes(m)
<1>1. B \in Seq(Content) /\ Len(B) = MessageLen /\ MessageLen \in Nat \ {0}
  BY BytesTyped, ConnectionAssumption
<1>2. UNCHANGED <<shutWrite, closed>>
  BY DEF SendInLoop, histVars
<1>3. CASE UNCHANGED <<output, chWriting, wire, accepted, reported>>
  BY <1>2, <1>3, OutputUnchanged DEF outputVars
<1>4. ASSUME output = <<>>, ~chWriting, ~shutWrite, accepted' = accepted \o B,
             wire' = wire \o SubSeq(B, 1, MessageLen),
             UNCHANGED <<output, chWriting, reported>>
      PROVE  OutputInv'
  <2>1. SubSeq(B, 1, MessageLen) = B
    BY <1>1, SubSeqFull
  <2> HIDE DEF B
  <2>2. wire \in Seq(Content) /\ accepted = wire
    BY <1>4, ConcatEmptySeq DEF OutputInv, OutputTyped, StreamInOrder
  <2>3. wire' = wire \o B /\ accepted' = wire \o B
    <3>1. SubSeq(Bytes(m), 1, MessageLen) = Bytes(m)
      BY <2>1 DEF B
    <3> QED
      BY <1>4, <2>2, <3>1 DEF B
  <2>4. wire' \in Seq(Content)
    BY <1>1, <2>2, <2>3, ConcatProperties
  <2>5. wire' \o <<>> = wire'
    BY <2>4, ConcatEmptySeq
  <2> QED
    BY <1>2, <1>4, <2>3, <2>4, <2>5 DEF OutputInv, OutputTyped, StreamInOrder,
       WritingIffOutput, ShutdownAfterOutput, HighWaterMarkReported
<1>5. ASSUME NEW n \in 0..MessageLen, n # MessageLen, output = <<>>, ~shutWrite,
             accepted' = accepted \o B, wire' = wire \o SubSeq(B, 1, n),
             AppendOutput(Unwritten(B, n))
      PROVE  OutputInv'
  <2> DEFINE w == SubSeq(B, 1, n)
             rest == SubSeq(B, n + 1, Len(B))
  <2>1. n \in 0..Len(B)
    BY <1>1
  <2>2. /\ w \in Seq(Content) /\ rest \in Seq(Content) /\ w \o rest = B
        /\ Len(rest) = Len(B) - n
    BY <1>1, <2>1, CutAndJoin
  <2>3. rest # <<>>
    <3>1. Len(rest) > 0
      BY <1>1, <1>5, <2>2
    <3> HIDE DEF rest
    <3> QED
      BY <2>2, <3>1, EmptySeq
  <2>4. AppendOutput(rest)
    BY <1>5 DEF Unwritten
  <2> HIDE DEF w, rest, B
  <2>5. wire' = wire \o w /\ accepted' = accepted \o (w \o rest)
    BY <1>5, <2>2 DEF w
  <2> QED
    BY <1>2, <1>5, <2>2, <2>3, <2>4, <2>5, AppendKeeps
<1>6. ASSUME chWriting \/ output # <<>>, accepted' = accepted \o B,
             AppendOutput(B), wire' = wire
      PROVE  OutputInv'
  <2> HIDE DEF B
  <2>1. wire' = wire \o <<>> /\ accepted' = accepted \o (<<>> \o B)
    BY <1>1, <1>6, ConcatEmptySeq DEF OutputInv, OutputTyped
  <2>2. B # <<>> /\ <<>> \in Seq(Content)
    BY <1>1, EmptySeq
  <2>3. shutWrite => closed \/ output # <<>>
    BY <1>6 DEF OutputInv, WritingIffOutput
  <2> QED
    BY <1>1, <1>2, <1>6, <2>1, <2>2, <2>3, AppendKeeps
<1> QED
  BY <1>3, <1>4, <1>5, <1>6 DEF SendInLoop

(* handleWrite()                                                            *)
LEMMA WriteKeeps ==
  ASSUME OutputInv, HandleWrite
  PROVE  OutputInv'
<1>1. UNCHANGED closed
  BY DEF HandleWrite, histVars
<1>2. CASE UNCHANGED <<connVars, dataVars>>
  BY <1>1, <1>2, OutputUnchanged DEF outputVars, connVars, dataVars
<1>3. ASSUME NEW n \in 1..Len(output), ~shutWrite,
             wire' = wire \o SubSeq(output, 1, n),
             output' = Unwritten(output, n),
             reported' = (reported /\ Len(Unwritten(output, n)) >= HighWaterMark),
             IF Drained(Unwritten(output, n))
             THEN chWriting' = FALSE /\ shutWrite' = ShutAfterDraining
             ELSE UNCHANGED <<chWriting, shutWrite>>,
             UNCHANGED accepted
      PROVE  OutputInv'
  <2> DEFINE w == SubSeq(output, 1, n)
  <2>1. output \in Seq(Content) /\ wire \in Seq(Content) /\ n \in 0..Len(output)
    BY DEF OutputInv, OutputTyped
  <2>2. /\ w \in Seq(Content) /\ output' \in Seq(Content) /\ w \o output' = output
        /\ Len(output') = Len(output) - n
    BY <1>3, <2>1, CutAndJoin DEF Unwritten
  <2>3. wire' = wire \o w
    BY <1>3
  <2> HIDE DEF w
  <2>4. wire' \in Seq(Content)
    BY <2>1, <2>2, <2>3, ConcatProperties
  <2>5. StreamInOrder'
    <3>1. (wire \o w) \o output' = wire \o (w \o output')
      BY <2>1, <2>2, JoinThree
    <3> QED
      BY <1>3, <2>2, <2>3, <3>1 DEF OutputInv, StreamInOrder
  <2>6. output # <<>> /\ Len(output') < Len(output)
    BY <2>1, <2>2
  <2>7. HighWaterMarkReported'
    <3>1. Len(output') >= HighWaterMark => Len(output) >= HighWaterMark
      BY <2>1, <2>2, <2>6, ConnectionAssumption, LenProperties
    <3> QED
      BY <1>3, <3>1 DEF OutputInv, HighWaterMarkReported, OutputTyped
  <2>8. /\ chWriting' \in BOOLEAN /\ shutWrite' \in BOOLEAN
        /\ reported' \in BOOLEAN
    BY <1>3 DEF OutputInv, OutputTyped, ShutAfterDraining
  <2>9. WritingIffOutput' /\ ShutdownAfterOutput'
    BY <1>1, <1>3, <2>6 DEF OutputInv, OutputTyped, WritingIffOutput,
       ShutdownAfterOutput, Drained
  <2> QED
    BY <1>1, <1>3, <2>2, <2>4, <2>5, <2>7, <2>8, <2>9 DEF OutputInv, OutputTyped
<1> QED
  BY <1>2, <1>3 DEF HandleWrite

(* handleClose() and connectDestroyed() end what WritingIffOutput and       *)
(* ShutdownAfterOutput promise and leave the data alone.                    *)
LEMMA ClosingKeeps ==
  ASSUME OutputInv, closed' = TRUE, chWriting' = FALSE,
         UNCHANGED <<output, wire, accepted, shutWrite, reported>>
  PROVE  OutputInv'
BY DEF OutputInv, OutputTyped, StreamInOrder, WritingIffOutput,
       ShutdownAfterOutput, HighWaterMarkReported

LEMMA ShutdownKeeps ==
  ASSUME OutputInv, ShutdownInLoop,
         UNCHANGED <<output, wire, accepted, chWriting, closed, reported>>
  PROVE  OutputInv'
BY DEF OutputInv, OutputTyped, StreamInOrder, WritingIffOutput,
       ShutdownAfterOutput, HighWaterMarkReported, ShutdownInLoop

(* handleClose(), forceCloseInLoop(), startReadInLoop(), stopReadInLoop(),  *)
(* connectEstablished() and connectDestroyed().                             *)
LEMMA CloseKeeps ==
  ASSUME OutputInv, HandleClose
  PROVE  OutputInv'
BY ClosingKeeps DEF HandleClose, dataVars

LEMMA ForceCloseKeeps ==
  ASSUME OutputInv, NEW set, ForceCloseInLoop(set)
  PROVE  OutputInv'
BY CloseKeeps, OutputUnchanged
   DEF ForceCloseInLoop, outputVars, connVars, dataVars, histVars

LEMMA ReadingKeeps ==
  ASSUME OutputInv, StartReadInLoop \/ StopReadInLoop \/ ConnectEstablished
  PROVE  OutputInv'
BY OutputUnchanged DEF StartReadInLoop, StopReadInLoop, ConnectEstablished,
   outputVars, dataVars, histVars

LEMMA DestroyedKeeps ==
  ASSUME OutputInv, ConnectDestroyed
  PROVE  OutputInv'
BY ClosingKeeps, OutputUnchanged DEF ConnectDestroyed, outputVars, dataVars

----------------------------------------------------------------------------
LEMMA Initially ==
  Init => IInv
<1> SUFFICES ASSUME Init PROVE IInv
  OBVIOUS
<1>1. <<>> \in Seq(Content) /\ <<>> \in Seq([op : Ops, msg : Content])
  BY EmptySeq
<1>2. None \in Content
  BY DEF Content
<1>3. QueuesTyped
  BY <1>1, <1>2 DEF Init, QueuesTyped, Functor, Calling, Ops
<1>4. OutputTyped /\ WritingIffOutput /\ ShutdownAfterOutput
  BY <1>1 DEF Init, OutputTyped, WritingIffOutput, ShutdownAfterOutput
<1>5. StreamInOrder
  BY <1>1, ConcatEmptySeq DEF Init, StreamInOrder
<1>6. HighWaterMarkReported
  BY ConnectionAssumption DEF Init, HighWaterMarkReported
<1> QED
  BY <1>3, <1>4, <1>5, <1>6 DEF IInv, OutputInv

(* What is queued is a functor with a message, if it has one.               *)
LEMMA QueueStep ==
  ASSUME QueuesTyped, [Next]_vars
  PROVE  QueuesTyped'
<1> DEFINE F == [op : Ops, msg : Content]
           C == [op : Ops, msg : Content, stored : BOOLEAN]
<1>1. CASE UNCHANGED <<calls, pending, functors, tpc>>
  BY <1>1 DEF QueuesTyped
<1>2. CASE UNCHANGED vars
  BY <1>1, <1>2 DEF vars, loopVars
<1>3. CASE TakeFunctors
  BY <1>3, EmptySeq DEF TakeFunctors, QueuesTyped
<1>4. CASE RunFunctor
  <2>1. functors' \in Seq(F)
    BY <1>4, HeadTailProperties DEF RunFunctor, QueuesTyped
  <2>2. UNCHANGED <<calls, pending, tpc>>
    BY <1>4 DEF RunFunctor, ConnectEstablished, ConnectDestroyed, SendInLoop,
       ForceCloseInLoop, HandleClose, StartReadInLoop, StopReadInLoop
  <2> QED
    BY <2>1, <2>2 DEF QueuesTyped
<1>5. ASSUME NEW t \in Threads, ThreadCall(t)
      PROVE  QueuesTyped'
  <2>1. PICK op \in calls.thread, m \in Content : tpc' = [tpc EXCEPT ![t] = Calling(op, m, FALSE)]
    BY <1>5 DEF ThreadCall, Content
  <2>2. op \in Ops
    BY ConnectionAssumption DEF Ops, QueuesTyped
  <2>3. Calling(op, m, FALSE) \in C
    BY <2>2 DEF Calling
  <2>4. tpc' \in [Threads -> C]
    BY <2>1, <2>3 DEF QueuesTyped
  <2>5. UNCHANGED <<calls, pending, functors>>
    BY <1>5 DEF ThreadCall, loopVars
  <2> QED
    BY <2>4, <2>5 DEF QueuesTyped
<1>6. ASSUME NEW t \in Threads, ThreadStores(t)
      PROVE  QueuesTyped'
  <2>1. tpc[t] \in C
    BY DEF QueuesTyped
  <2>2. [tpc[t] EXCEPT !.stored = TRUE] \in C
    BY <2>1
  <2>3. tpc' \in [Threads -> C]
    BY <1>6, <2>2 DEF QueuesTyped, ThreadStores
  <2>4. UNCHANGED <<calls, pending, functors>>
    BY <1>6 DEF ThreadStores, loopVars
  <2> QED
    BY <2>3, <2>4 DEF QueuesTyped
<1>7. ASSUME NEW t \in Threads, ThreadQueues(t)
      PROVE  QueuesTyped'
  <2>1. tpc[t] \in C
    BY DEF QueuesTyped
  <2>2. Functor(tpc[t].op, tpc[t].msg) \in F
    BY <2>1 DEF Functor
  <2>3. pending' \in Seq(F)
    BY <1>7, <2>2 DEF ThreadQueues, QueuesTyped
  <2>4. Calling("idle", None, FALSE) \in C
    BY DEF Calling, Content, Ops
  <2>5. tpc' \in [Threads -> C]
    BY <1>7, <2>4 DEF ThreadQueues, QueuesTyped
  <2>6. UNCHANGED <<calls, functors>>
    BY <1>7 DEF ThreadQueues, loopVars
  <2> QED
    BY <2>3, <2>5, <2>6 DEF QueuesTyped
<1>8. CASE OwnerDestroys
  <2>1. Functor("connectDestroyed", None) \in F
    BY DEF Functor, Content, Ops
  <2>2. pending' \in Seq(F)
    BY <1>8, <2>1 DEF OwnerDestroys, QueuesTyped
  <2> QED
    BY <1>8, <2>2 DEF OwnerDestroys, QueuesTyped, loopVars
<1>9. CASE Poll \/ HandleHup \/ HandleRead \/ HandleWrite \/ FunctorsDone
           \/ PeerSends \/ PeerEnds
  BY <1>1, <1>9 DEF Poll, HandleHup, HandleRead, HandleWrite, FunctorsDone,
     PeerSends, PeerEnds, HandleClose, loopVars
<1>10. CASE UserCode
  BY <1>1, <1>10 DEF UserCode, Send, SendInLoop, Shutdown, ForceCloseInLoop,
     HandleClose, ForceCloseWithDelay, StartReadInLoop, StopReadInLoop, loopVars
<1>11. CASE TimerFires
  BY <1>1, <1>11 DEF TimerFires, ForceCloseInLoop, HandleClose, loopVars
<1> QED
  BY <1>2, <1>3, <1>4, <1>5, <1>6, <1>7, <1>8, <1>9, <1>10, <1>11
     DEF Next, LoopStep

(* Every step keeps what is said about the output.                          *)
LEMMA OutputStep ==
  ASSUME IInv, [Next]_vars
  PROVE  OutputInv'
<1> USE DEF IInv
<1>1. CASE UNCHANGED vars
  BY <1>1, OutputUnchanged DEF vars, outputVars, connVars, dataVars, histVars
<1>2. CASE Poll \/ TakeFunctors \/ FunctorsDone \/ OwnerDestroys \/ PeerSends
           \/ PeerEnds
  BY <1>2, OutputUnchanged DEF Poll, TakeFunctors, FunctorsDone, OwnerDestroys,
     PeerSends, PeerEnds, outputVars, connVars, dataVars, histVars
<1>3. CASE HandleHup
  BY <1>3, CloseKeeps, OutputUnchanged
     DEF HandleHup, outputVars, connVars, dataVars, histVars
<1>4. CASE HandleRead
  BY <1>4, CloseKeeps, OutputUnchanged
     DEF HandleRead, outputVars, connVars, dataVars, histVars
<1>5. CASE HandleWrite
  BY <1>5, WriteKeeps
<1>6. CASE RunFunctor
  <2>1. Head(functors).msg \in Content
    <3> DEFINE F == [op : Ops, msg : Content]
    <3>1. functors \in Seq(F) /\ functors # <<>>
      BY <1>6 DEF RunFunctor, QueuesTyped
    <3>2. Head(functors) \in F
      BY <3>1, HeadTailProperties
    <3> QED
      BY <3>2
  <2>2. ASSUME ShutdownInLoop,
               UNCHANGED <<connVars, output, wire, accepted, reported, histVars>>
        PROVE  OutputInv'
    BY <2>2, ShutdownKeeps DEF connVars, histVars
  <2> QED
    BY <1>6, <2>1, <2>2, SendKeeps, ForceCloseKeeps, ReadingKeeps, DestroyedKeeps
       DEF RunFunctor
<1>7. CASE UserCode
  <2>1. ASSUME NEW m \in Messages, Send(m)
        PROVE  OutputInv'
    BY <2>1, SendKeeps, OutputUnchanged
       DEF Send, Content, outputVars, connVars, dataVars, histVars
  <2>2. CASE Shutdown
    BY <2>2, ShutdownKeeps, OutputUnchanged
       DEF Shutdown, outputVars, connVars, dataVars, histVars
  <2>3. CASE ForceCloseWithDelay
    BY <2>3, OutputUnchanged
       DEF ForceCloseWithDelay, outputVars, connVars, dataVars, histVars
  <2> QED
    BY <1>7, <2>1, <2>2, <2>3, ForceCloseKeeps, ReadingKeeps DEF UserCode
<1>8. CASE TimerFires
  BY <1>8, ForceCloseKeeps DEF TimerFires
<1>9. ASSUME NEW t \in Threads, ThreadCall(t) \/ ThreadStores(t) \/ ThreadQueues(t)
      PROVE  OutputInv'
  BY <1>9, OutputUnchanged DEF ThreadCall, ThreadStores, ThreadQueues, outputVars,
     connVars, dataVars, histVars
<1> QED
  BY <1>1, <1>2, <1>3, <1>4, <1>5, <1>6, <1>7, <1>8, <1>9 DEF Next, LoopStep

LEMMA Invariance ==
  Spec => []IInv
<1>1. IInv /\ [Next]_vars => IInv'
  BY QueueStep, OutputStep DEF IInv
<1> QED
  BY Initially, <1>1, PTL DEF Spec

(* However sends from the loop and from other threads interleave with       *)
(* partial writes, the bytes written and then those buffered are the bytes  *)
(* sendInLoop() took on, in order: outputBuffer_ loses and repeats nothing. *)
THEOREM OutputIsInOrder ==
  Spec => []StreamInOrder
BY Invariance, PTL DEF IInv, OutputInv

(* sendInLoop() and handleWrite() keep the channel's interest in            *)
(* writability equal to there being output, until the connection is down.   *)
THEOREM WritabilityIsWatched ==
  Spec => []WritingIffOutput
BY Invariance, PTL DEF IInv, OutputInv

(* shutdownInLoop() and handleWrite() call shutdownWrite() only when the    *)
(* output is out, and nothing is buffered after it.                         *)
THEOREM ShutdownWaitsForOutput ==
  Spec => []ShutdownAfterOutput
BY Invariance, PTL DEF IInv, OutputInv

(* sendInLoop() reports every time the buffer grows over the mark.          *)
THEOREM HighWaterMarkIsReported ==
  Spec => []HighWaterMarkReported
BY Invariance, PTL DEF IInv, OutputInv

(* The output stays sound, for any messages, threads, mark and calls.       *)
THEOREM OutputStaysSound ==
  Spec => []OutputSound
BY OutputIsInOrder, WritabilityIsWatched, ShutdownWaitsForOutput, HighWaterMarkIsReported,
   PTL DEF OutputSound

----------------------------------------------------------------------------
(* The life of a connection in plain use.  Before connectEstablished() ran  *)
(* nothing happens.  After it the connection reads until it goes down; then *)
(* it has no events and is not in the epoll set, so that what poll()        *)
(* reported earlier in the same iteration is all that can still call        *)
(* handleClose(), and that was nothing.                                     *)
Made ==
  /\ phase = "functors" /\ functors = <<Functor("connectEstablished", None)>>
  /\ state = "kConnecting" /\ downs = 0 /\ closed = FALSE /\ removed = FALSE
  /\ chReading = FALSE /\ chWriting = FALSE /\ watched = FALSE

Established ==
  /\ ups = 1
  /\ \A i \in 1..Len(functors) : functors[i].op \in {"send", "connectDestroyed"}
  /\ IF state = "kDisconnected"
     THEN /\ downs = 1 /\ closed = TRUE
          /\ chReading = FALSE /\ chWriting = FALSE /\ watched = FALSE
          /\ phase = "events" /\ stage = "others" => revents = {}
          /\ phase = "events" /\ stage = "read" => "IN" \notin revents
     ELSE /\ state \in {"kConnected", "kDisconnecting"}
          /\ downs = 0 /\ closed = FALSE /\ removed = FALSE
          /\ chReading = TRUE /\ watched = TRUE

PlainInv ==
  PlainUse =>
    /\ badClose = FALSE /\ timer = FALSE
    /\ \A t \in Threads : tpc[t].op \in {"idle", "send"}
    /\ \A i \in 1..Len(pending) : pending[i].op \in {"send", "connectDestroyed"}
    /\ IF ups = 0 THEN Made ELSE Established

LEMMA PlainInit == Init => PlainInv
BY DEF Init, PlainInv, Made, Calling

(* The user chose how to use the connection once and for all.               *)
LEMMA CallsUnchanged == [Next]_vars => calls' = calls
BY DEF Next, vars, LoopStep, Poll, HandleHup, HandleRead, HandleWrite, TakeFunctors, RunFunctor,
       FunctorsDone, UserCode, TimerFires, ThreadCall, ThreadStores, ThreadQueues,
       OwnerDestroys, PeerSends, PeerEnds

(* handleClose() of a connection that is open.                              *)
LEMMA PlainClose ==
  ASSUME Established, Open, HandleClose, badClose = FALSE,
         \A i \in 1..Len(functors') : functors'[i].op \in {"send", "connectDestroyed"},
         phase' = "events" /\ stage' = "others" => revents' = {},
         phase' = "events" /\ stage' = "read" => "IN" \notin revents'
  PROVE  Established' /\ badClose' = FALSE /\ ups' = 1
<1>1. /\ state # "kDisconnected" /\ downs = 0 /\ ups = 1 /\ watched = TRUE
  BY DEF Established, Open
<1>2. /\ state' = "kDisconnected" /\ chReading' = FALSE /\ chWriting' = FALSE
      /\ closed' = TRUE /\ ups' = ups /\ downs' = OneMore(downs)
  BY DEF HandleClose
<1>3. badClose' = FALSE /\ watched' = FALSE
  BY <1>1 DEF HandleClose, UpdateChannel
<1>4. downs' = 1
  BY <1>1, <1>2 DEF OneMore
<1>. QED
  BY <1>1, <1>2, <1>3, <1>4 DEF Established

(* sendInLoop() does not touch a connection that is down, and leaves the    *)
(* channel of one that is open in the epoll set.                            *)
LEMMA PlainSend ==
  ASSUME Established, NEW m, SendInLoop(m), UNCHANGED <<phase, stage, revents>>,
         \A i \in 1..Len(functors') : functors'[i].op \in {"send", "connectDestroyed"}
  PROVE  Established'
<1>1. UNCHANGED <<state, chReading, removed, histVars>> /\ watched' = (watched \/ chWriting')
  BY DEF SendInLoop
<1>2. state = "kDisconnected" => chWriting' = chWriting
  BY DEF SendInLoop
<1>. QED
  BY <1>1, <1>2 DEF Established, histVars

(* handleWrite() of a connection that still reads keeps it in the epoll set. *)
LEMMA PlainWrite ==
  ASSUME Established, HandleWrite
  PROVE  Established'
<1>1. /\ UNCHANGED <<state, chReading, removed, histVars, functors, phase, revents>>
      /\ phase = "events" /\ stage' = "done"
  BY DEF HandleWrite, connVars
<1>2. state = "kDisconnected" => UNCHANGED <<chWriting, watched>>
  BY DEF HandleWrite, Established, connVars
<1>3. state # "kDisconnected" => watched' = TRUE
  BY DEF HandleWrite, Established, connVars, UpdateChannel
<1>. QED
  BY <1>1, <1>2, <1>3 DEF Established, histVars

LEMMA PlainStep == QueuesTyped /\ PlainInv /\ [Next]_vars => PlainInv'
<1> SUFFICES ASSUME QueuesTyped, PlainInv, [Next]_vars, PlainUse
             PROVE  PlainInv'
  BY CallsUnchanged DEF PlainInv, PlainUse
<1> DEFINE F == [op : Ops, msg : Content]
           Plain(q) == \A i \in 1..Len(q) : q[i].op \in {"send", "connectDestroyed"}
<1>a. /\ badClose = FALSE /\ timer = FALSE
      /\ \A t \in Threads : tpc[t].op \in {"idle", "send"}
      /\ Plain(pending)
      /\ IF ups = 0 THEN Made ELSE Established
  BY DEF PlainInv
<1>b. pending \in Seq(F) /\ functors \in Seq(F)
  BY DEF QueuesTyped
<1>c. ups > 0 => Established /\ ups = 1
  BY <1>a DEF Established
<1>0. ASSUME UNCHANGED <<badClose, timer, tpc, pending>>, Established, Established'
      PROVE  PlainInv'
  BY <1>0, <1>a DEF PlainInv, Established
<1>1. CASE UNCHANGED vars
  BY <1>1, <1>a DEF vars, connVars, dataVars, histVars, loopVars, PlainInv, Made, Established
<1>2. CASE RunFunctor
  <2>1. CASE ups = 0
    <3>1. Made
      BY <1>a, <2>1
    <3>2. functors' = <<>> /\ ConnectEstablished /\ UNCHANGED tpc
      BY <1>2, <3>1 DEF RunFunctor, Made, Functor
    <3>3. /\ state' = "kConnected" /\ chReading' = TRUE
          /\ UNCHANGED <<downs, closed, removed, badClose, pending, timer>>
      BY <3>2 DEF ConnectEstablished
    <3>4. ups' = 1
      BY <2>1, <3>2 DEF ConnectEstablished
    <3>5. watched' = TRUE
      BY <3>2 DEF ConnectEstablished, UpdateChannel
    <3>6. Established'
      BY <3>1, <3>2, <3>3, <3>4, <3>5 DEF Made, Established
    <3>. QED
      BY <1>a, <3>2, <3>3, <3>4, <3>6 DEF PlainInv
  <2>2. CASE ups # 0
    <3>1. Established
      BY <1>a, <2>2
    <3>2. PICK f : f = Head(functors)
      OBVIOUS
    <3>3. functors # <<>> /\ functors' = Tail(functors) /\ UNCHANGED <<tpc, phase, stage, revents>>
          /\ phase = "functors"
      BY <1>2 DEF RunFunctor
    <3>4. f.op \in {"send", "connectDestroyed"} /\ Plain(functors')
      <4>1. f = functors[1] /\ 1 \in 1..Len(functors)
        BY <1>b, <3>2, <3>3
      <4>2. \A i \in 1..Len(functors') : i + 1 \in 1..Len(functors) /\ functors'[i] = functors[i + 1]
        BY <1>b, <3>3
      <4>. QED
        BY <3>1, <4>1, <4>2 DEF Established
    <3>5. CASE f.op = "send"
      <4>1. SendInLoop(f.msg)
        BY <1>2, <3>2, <3>5 DEF RunFunctor
      <4>2. UNCHANGED <<badClose, timer, pending>>
        BY <4>1 DEF SendInLoop, histVars
      <4>3. Established'
        BY <3>1, <3>3, <3>4, <4>1, PlainSend
      <4>. QED
        BY <1>0, <3>1, <3>3, <4>2, <4>3
    <3>6. CASE f.op = "connectDestroyed"
      <4>1. ConnectDestroyed
        BY <1>2, <3>2, <3>6 DEF RunFunctor
      <4>2. UNCHANGED <<badClose, timer, pending>>
        BY <4>1 DEF ConnectDestroyed
      <4>3. Established'
        BY <3>1, <3>3, <3>4, <4>1 DEF ConnectDestroyed, Established, Open, OneMore
      <4>. QED
        BY <1>0, <3>1, <3>3, <4>2, <4>3
    <3>. QED
      BY <3>4, <3>5, <3>6
  <2>. QED
    BY <2>1, <2>2
<1>3. CASE Poll
  <2>1. Established
    BY <1>3, <1>a DEF Poll, Made
  <2>2. state = "kDisconnected" => revents' = {}
    BY <1>3, <2>1 DEF Poll, Established
  <2>3. Established'
    BY <1>3, <2>1, <2>2 DEF Poll, Established, connVars, histVars
  <2>. QED
    BY <1>0, <1>3, <2>1, <2>3 DEF Poll, histVars
<1>4. CASE HandleHup
  <2>1. Established /\ phase = "events" /\ stage = "others" /\ phase' = phase /\ stage' = "read"
        /\ UNCHANGED <<tpc, revents, functors>>
    BY <1>4, <1>a DEF HandleHup, Made
  <2>2. CASE "HUP" \in revents /\ "IN" \notin revents
    <3>1. HandleClose /\ UNCHANGED timer
      BY <1>4, <2>2 DEF HandleHup
    <3>2. Open
      BY <2>1, <2>2 DEF Established, Open
    <3>3. Established' /\ badClose' = FALSE /\ ups' = 1
      BY <1>a, <2>1, <2>2, <3>1, <3>2, PlainClose DEF Established
    <3>4. UNCHANGED pending
      BY <3>1 DEF HandleClose
    <3>. QED
      BY <1>0, <1>a, <2>1, <3>1, <3>3, <3>4
  <2>3. CASE ~("HUP" \in revents /\ "IN" \notin revents)
    <3>1. UNCHANGED <<connVars, histVars, pending, timer>>
      BY <1>4, <2>3 DEF HandleHup
    <3>2. Established'
      BY <2>1, <3>1 DEF Established, connVars, histVars
    <3>. QED
      BY <1>0, <2>1, <3>1, <3>2 DEF histVars
  <2>. QED
    BY <2>2, <2>3
<1>5. CASE HandleRead
  <2>1. Established /\ phase = "events" /\ stage = "read" /\ phase' = phase /\ stage' = "write"
        /\ UNCHANGED <<tpc, revents, functors>>
    BY <1>5, <1>a DEF HandleRead, Made
  <2>2. CASE "IN" \in revents /\ HandleClose /\ UNCHANGED timer
    <3>1. Open
      BY <2>1, <2>2 DEF Established, Open
    <3>2. Established' /\ badClose' = FALSE /\ ups' = 1
      BY <1>a, <2>1, <2>2, <3>1, PlainClose DEF Established
    <3>3. UNCHANGED pending
      BY <2>2 DEF HandleClose
    <3>. QED
      BY <1>0, <1>a, <2>1, <2>2, <3>2, <3>3
  <2>3. CASE UNCHANGED <<connVars, histVars, pending, timer>>
    <3>1. Established'
      BY <2>1, <2>3 DEF Established, connVars, histVars
    <3>. QED
      BY <1>0, <2>1, <2>3, <3>1 DEF histVars
  <2>. QED
    BY <1>5, <2>2, <2>3 DEF HandleRead
<1>6. CASE HandleWrite
  <2>1. Established
    BY <1>6, <1>a DEF HandleWrite, Made
  <2>. QED
    BY <1>0, <1>6, <2>1, PlainWrite DEF HandleWrite, histVars
<1>7. CASE TakeFunctors
  <2>1. Established
    BY <1>7, <1>a DEF TakeFunctors, Made
  <2>2. pending' = <<>> /\ functors' = pending /\ phase' = "functors"
        /\ UNCHANGED <<connVars, histVars, tpc, timer>>
    BY <1>7 DEF TakeFunctors
  <2>3. Established'
    BY <1>a, <2>1, <2>2 DEF Established, connVars, histVars
  <2>4. Plain(pending')
    BY <2>2
  <2>. QED
    BY <1>a, <2>1, <2>2, <2>3, <2>4 DEF PlainInv, Established, histVars
<1>8. CASE FunctorsDone
  <2>1. Established
    BY <1>8, <1>a DEF FunctorsDone, Made
  <2>2. Established'
    BY <1>8, <2>1 DEF FunctorsDone, Established, connVars, histVars
  <2>. QED
    BY <1>0, <1>8, <2>1, <2>2 DEF FunctorsDone, histVars
<1>9. CASE UserCode
  <2>1. Established /\ UNCHANGED <<tpc, functors, phase, stage, revents>>
    BY <1>9, <1>c DEF UserCode, loopVars
  <2>2. ASSUME NEW m \in Messages, Send(m)
        PROVE  PlainInv'
    <3>1. CASE state = "kConnected"
      <4>1. SendInLoop(m)
        BY <2>2, <3>1 DEF Send
      <4>2. Established'
        BY <2>1, <4>1, PlainSend DEF Established
      <4>. QED
        BY <1>0, <2>1, <4>1, <4>2 DEF SendInLoop, histVars
    <3>2. CASE state # "kConnected"
      <4>1. UNCHANGED <<connVars, histVars, pending, timer>>
        BY <2>2, <3>2 DEF Send
      <4>2. Established'
        BY <2>1, <4>1 DEF Established, connVars, histVars
      <4>. QED
        BY <1>0, <2>1, <4>1, <4>2 DEF histVars
    <3>. QED
      BY <3>1, <3>2
  <2>3. CASE Shutdown
    <3>1. /\ UNCHANGED <<chReading, chWriting, watched, removed, histVars, pending, timer>>
          /\ state' = state \/ (state = "kConnected" /\ state' = "kDisconnecting")
      BY <2>3 DEF Shutdown, connVars
    <3>2. Established'
      BY <2>1, <3>1 DEF Established, histVars
    <3>. QED
      BY <1>0, <2>1, <3>1, <3>2 DEF histVars
  <2>4. calls.loop \subseteq {"send", "shutdown"}
    BY DEF PlainUse
  <2>. QED
    BY <1>9, <2>2, <2>3, <2>4 DEF UserCode
<1>10. CASE TimerFires
  BY <1>10, <1>a DEF TimerFires
<1>11. ASSUME NEW t \in Threads, ThreadCall(t)
       PROVE  PlainInv'
  <2>1. Established /\ UNCHANGED <<connVars, histVars, loopVars, pending, timer>>
    BY <1>11, <1>c DEF ThreadCall
  <2>2. PICK op, m : op \in calls.thread /\ tpc' = [tpc EXCEPT ![t] = Calling(op, m, FALSE)]
    BY <1>11 DEF ThreadCall
  <2>3. op = "send"
    BY <2>2 DEF PlainUse
  <2>4. \A u \in Threads : tpc'[u].op \in {"idle", "send"}
    BY <1>a, <2>2, <2>3 DEF Calling, QueuesTyped
  <2>5. Established' /\ ups' = 1
    BY <2>1 DEF Established, connVars, histVars, loopVars
  <2>. QED
    BY <1>a, <2>1, <2>4, <2>5 DEF PlainInv, histVars
<1>12. ASSUME NEW t \in Threads, ThreadStores(t)
       PROVE  PlainInv'
  BY <1>12, <1>a DEF ThreadStores
<1>13. ASSUME NEW t \in Threads, ThreadQueues(t)
       PROVE  PlainInv'
  <2>1. UNCHANGED <<connVars, histVars, loopVars, timer>>
    BY <1>13 DEF ThreadQueues
  <2>2. PICK new : new = Functor(tpc[t].op, tpc[t].msg)
    OBVIOUS
  <2>3. new.op = "send" /\ pending' = Append(pending, new)
        /\ tpc' = [tpc EXCEPT ![t] = Calling("idle", None, FALSE)]
    BY <1>13, <1>a, <2>2 DEF ThreadQueues, Functor
  <2>4. \A u \in Threads : tpc'[u].op \in {"idle", "send"}
    BY <1>a, <2>3 DEF Calling, QueuesTyped
  <2>5. Plain(pending')
    BY <1>a, <1>b, <2>3
  <2>6. IF ups' = 0 THEN Made' ELSE Established'
    BY <1>a, <2>1 DEF Made, Established, connVars, histVars, loopVars
  <2>. QED
    BY <1>a, <2>1, <2>4, <2>5, <2>6 DEF PlainInv, histVars
<1>14. CASE OwnerDestroys
  <2>1. Established /\ UNCHANGED <<connVars, histVars, loopVars, timer, tpc>>
    BY <1>14, <1>c DEF OwnerDestroys
  <2>2. PICK new : new = Functor("connectDestroyed", None)
    OBVIOUS
  <2>3. new.op = "connectDestroyed" /\ pending' = Append(pending, new)
    BY <1>14, <2>2 DEF OwnerDestroys, Functor
  <2>4. Plain(pending')
    BY <1>a, <1>b, <2>3
  <2>5. Established' /\ ups' = 1
    BY <2>1 DEF Established, connVars, histVars, loopVars
  <2>. QED
    BY <1>a, <2>1, <2>4, <2>5 DEF PlainInv, histVars
<1>15. CASE PeerSends \/ PeerEnds
  <2>1. Established /\ UNCHANGED <<connVars, histVars, loopVars, pending, timer, tpc>>
    BY <1>15, <1>c DEF PeerSends, PeerEnds
  <2>2. Established'
    BY <2>1 DEF Established, connVars, histVars, loopVars
  <2>. QED
    BY <1>0, <2>1, <2>2 DEF histVars
<1>. QED
  BY <1>1, <1>2, <1>3, <1>4, <1>5, <1>6, <1>7, <1>8, <1>9, <1>10, <1>11, <1>12, <1>13, <1>14,
     <1>15 DEF Next, LoopStep

LEMMA PlainInvariance == Spec => []PlainInv
<1>1. IInv => QueuesTyped
  BY DEF IInv
<1>. QED
  BY <1>1, PlainInit, PlainStep, Invariance, PTL DEF Spec

(* In plain use connectionCallback_ is called once when the connection is   *)
(* up and once when it is down, whichever of the peer's end, a hang-up and  *)
(* connectDestroyed() comes first, and before connectDestroyed() returns.   *)
THEOREM CallbacksArePaired == Spec => []CallbacksPaired
<1>1. PlainInv => CallbacksPaired
  BY DEF PlainInv, Made, Established, CallbacksPaired
<1>. QED
  BY <1>1, PlainInvariance, PTL

(* In plain use handleClose() never finds a connection that is down, and    *)
(* connectDestroyed() leaves a channel without events and a connection that *)
(* may be destroyed.                                                        *)
THEOREM LifeCycleAssertsAlwaysHold == Spec => []LifeCycleAssertsHold
<1>1. PlainInv => LifeCycleAssertsHold
  BY DEF PlainInv, Made, Established, LifeCycleAssertsHold, CloseAssertHolds,
         DestructorAssertHolds
<1>. QED
  BY <1>1, PlainInvariance, PTL

=============================================================================
