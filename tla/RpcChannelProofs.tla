-------------------------- MODULE RpcChannelProofs --------------------------
(***************************************************************************)
(* RpcChannel, from the bytes up.  The operations of Buffer keep the        *)
(* content; integers of any width read back; a frame is taken for the       *)
(* message it was made of, or waited for, and never for another; so calls   *)
(* get the answers to their own requests, however TCP cuts the stream.  All *)
(* of it holds for every size of the buffer, every reserve in front, every  *)
(* width of the length field, every tag and every number of callers.        *)
(***************************************************************************)
EXTENDS RpcChannel, SequenceTheorems, WellFoundedInduction, TLAPS

(* The indexes are in order, and the reserve is within the memory.          *)
Sound(b, S) ==
  /\ b \in [mem : Seq(S), r : Nat, w : Nat]
  /\ b.r <= b.w /\ b.w <= Len(b.mem)
  /\ CheapPrepend <= Len(b.mem)

----------------------------------------------------------------------------
(* A part of a sequence.                                                    *)
LEMMA PartFacts ==
  ASSUME NEW S, NEW mem \in Seq(S), NEW r \in Nat, NEW w \in Nat, r <= w, w <= Len(mem)
  PROVE  /\ SubSeq(mem, r + 1, w) \in Seq(S)
         /\ Len(SubSeq(mem, r + 1, w)) = w - r
         /\ \A i \in 1..w - r : SubSeq(mem, r + 1, w)[i] = mem[r + i]
<1>1. Len(mem) \in Nat
  BY LenProperties
<1> DEFINE m == r + 1
<1>2. m \in Int /\ w \in Int /\ m = r + 1
  OBVIOUS
<1>3. \A i \in m..w : mem[i] \in S
  BY <1>1, ElementOfSeq
<1> HIDE DEF m
<1>4. /\ SubSeq(mem, m, w) \in Seq(S)
      /\ Len(SubSeq(mem, m, w)) = IF m <= w THEN w - m + 1 ELSE 0
      /\ \A i \in 1..w - m + 1 : SubSeq(mem, m, w)[i] = mem[m + i - 1]
  BY <1>2, <1>3, SubSeqProperties
<1>5. Len(SubSeq(mem, m, w)) = w - r
  BY <1>2, <1>4
<1>6. \A i \in 1..w - r : i \in 1..w - m + 1 /\ m + i - 1 = r + i
  BY <1>2
<1>7. \A i \in 1..w - r : SubSeq(mem, m, w)[i] = mem[r + i]
  BY <1>4, <1>6
<1> QED
  BY <1>4, <1>5, <1>7 DEF m

(* A sequence is its first n elements and the others.                       *)
LEMMA Cutting ==
  ASSUME NEW S, NEW q \in Seq(S), NEW n \in Nat, n <= Len(q)
  PROVE  /\ SubSeq(q, 1, n) \in Seq(S) /\ Len(SubSeq(q, 1, n)) = n
         /\ SubSeq(q, n + 1, Len(q)) \in Seq(S)
         /\ SubSeq(q, 1, n) \o SubSeq(q, n + 1, Len(q)) = q
<1> DEFINE o == 0
           l == Len(q)
           first == SubSeq(q, o + 1, n)
           rest == SubSeq(q, n + 1, l)
<1>1. o \in Nat /\ o = 0 /\ l \in Nat /\ o <= n /\ n <= l /\ l = Len(q) /\ l <= Len(q)
  BY LenProperties
<1> HIDE DEF o, l
<1>2. first \in Seq(S) /\ Len(first) = n - o /\ \A i \in 1..n - o : first[i] = q[o + i]
  BY <1>1, PartFacts
<1>3. rest \in Seq(S) /\ Len(rest) = l - n /\ \A i \in 1..l - n : rest[i] = q[n + i]
  BY <1>1, PartFacts
<1>4. first = SubSeq(q, 1, n)
  BY <1>1
<1> HIDE DEF first
<1> HIDE DEF rest
<1>5. /\ first \o rest \in Seq(S) /\ Len(first \o rest) = Len(first) + Len(rest)
      /\ \A i \in 1..Len(first) + Len(rest) :
           (first \o rest)[i] = IF i <= Len(first) THEN first[i] ELSE rest[i - Len(first)]
  BY <1>2, <1>3, ConcatProperties
<1>6. Len(first) = n /\ Len(first) + Len(rest) = l
  BY <1>1, <1>2, <1>3
<1>7. ASSUME NEW i \in 1..l PROVE (first \o rest)[i] = q[i]
  <2>1. CASE i <= n
    <3>1. i \in 1..n - o /\ o + i = i
      BY <1>1, <2>1
    <3> QED
      BY <1>2, <1>5, <1>6, <2>1, <3>1
  <2>2. CASE ~(i <= n)
    <3>1. i - n \in 1..l - n /\ n + (i - n) = i
      BY <1>1, <2>2
    <3> QED
      BY <1>3, <1>5, <1>6, <2>2, <3>1
  <2> QED
    BY <2>1, <2>2
<1>8. first \o rest = q
  BY <1>1, <1>5, <1>6, <1>7, SeqEqual
<1> QED
  BY <1>1, <1>2, <1>3, <1>4, <1>6, <1>8 DEF rest

(* The content is the part of the memory between the indexes.               *)
LEMMA ContentFacts ==
  ASSUME NEW S, NEW b, Sound(b, S)
  PROVE  /\ Content(b) \in Seq(S)
         /\ Len(Content(b)) = b.w - b.r
         /\ \A i \in 1..b.w - b.r : Content(b)[i] = b.mem[b.r + i]
<1> DEFINE mem == b.mem
           r == b.r
           w == b.w
<1>1. mem \in Seq(S) /\ r \in Nat /\ w \in Nat /\ r <= w /\ w <= Len(mem)
  BY DEF Sound
<1>2. Content(b) = SubSeq(mem, r + 1, w)
  BY DEF Content
<1> HIDE DEF mem, r, w
<1>3. /\ Content(b) \in Seq(S)
      /\ Len(Content(b)) = w - r
      /\ \A i \in 1..w - r : Content(b)[i] = mem[r + i]
  BY <1>1, <1>2, PartFacts
<1> QED
  BY <1>3 DEF mem, r, w

LEMMA CopiedFacts ==
  ASSUME NEW S, NEW mem \in Seq(S), NEW data \in Seq(S), NEW at \in Nat,
         at + Len(data) <= Len(mem)
  PROVE  /\ Copied(mem, data, at) \in Seq(S)
         /\ Len(Copied(mem, data, at)) = Len(mem)
         /\ \A i \in 1..Len(mem) :
              Copied(mem, data, at)[i]
                = IF at < i /\ i <= at + Len(data) THEN data[i - at] ELSE mem[i]
<1>1. Len(mem) \in Nat /\ Len(data) \in Nat
  BY LenProperties
<1>2. \A i \in 1..Len(mem) : mem[i] \in S
  BY ElementOfSeq
<1>3. \A i \in 1..Len(data) : data[i] \in S
  BY ElementOfSeq
<1>4. \A i \in 1..Len(mem) :
        (IF at < i /\ i <= at + Len(data) THEN data[i - at] ELSE mem[i]) \in S
  BY <1>1, <1>2, <1>3
<1> QED
  BY <1>1, <1>4 DEF Copied

LEMMA ResizedFacts ==
  ASSUME NEW S, 0 \in S, NEW mem \in Seq(S), NEW n \in Nat
  PROVE  /\ Resized(mem, n) \in Seq(S)
         /\ Len(Resized(mem, n)) = n
         /\ \A i \in 1..n : i <= Len(mem) => Resized(mem, n)[i] = mem[i]
<1>1. Len(mem) \in Nat
  BY LenProperties
<1>2. \A i \in 1..n : (IF i <= Len(mem) THEN mem[i] ELSE 0) \in S
  BY <1>1, ElementOfSeq
<1> QED
  BY <1>1, <1>2 DEF Resized

(* Two buffers have the same content if it is as long and byte for byte the *)
(* same.                                                                    *)
LEMMA SameContent ==
  ASSUME NEW S, NEW a, NEW b, Sound(a, S), Sound(b, S), a.w - a.r = b.w - b.r,
         \A i \in 1..a.w - a.r : a.mem[a.r + i] = b.mem[b.r + i]
  PROVE  Content(a) = Content(b)
<1>1. /\ Content(a) \in Seq(S) /\ Content(b) \in Seq(S)
      /\ Len(Content(a)) = Len(Content(b)) /\ Len(Content(a)) = a.w - a.r
  BY ContentFacts
<1>2. \A i \in 1..Len(Content(a)) : Content(a)[i] = Content(b)[i]
  BY <1>1, ContentFacts
<1> QED
  BY <1>1, <1>2, SeqEqual

----------------------------------------------------------------------------
(* makeSpace() may rely on assert(kCheapPrepend < readerIndex_): when it    *)
(* does not grow, although there was too little room after the content, the *)
(* room must be in front of it.                                             *)
THEOREM MoveAssertHolds ==
  ASSUME NEW S, NEW b, Sound(b, S), NEW len \in Nat,
         Writable(b) < len, ~MustGrow(b, len)
  PROVE  CheapPrepend < b.r
<1>1. Len(b.mem) \in Nat /\ b.r \in Nat /\ b.w \in Nat
  BY LenProperties DEF Sound
<1> QED
  BY <1>1, BufferAssumption DEF MustGrow, Writable, Prependable

(* ensureWritableBytes() makes the room that is asked for and keeps the     *)
(* content, whether it grows the memory or moves the content to the front.  *)
THEOREM SpaceIsMade ==
  ASSUME NEW S, 0 \in S, NEW b, Sound(b, S), NEW len \in Nat
  PROVE  /\ Sound(EnsureWritableBytes(b, len), S)
         /\ len <= Writable(EnsureWritableBytes(b, len))
         /\ Content(EnsureWritableBytes(b, len)) = Content(b)
<1> DEFINE c == EnsureWritableBytes(b, len)
<1>1. Len(b.mem) \in Nat /\ b.mem \in Seq(S) /\ b.r \in Nat /\ b.w \in Nat /\ CheapPrepend \in Nat
  BY LenProperties, BufferAssumption DEF Sound
<1>2. CASE ~(Writable(b) < len)
  BY <1>1, <1>2 DEF EnsureWritableBytes, Writable
<1>3. CASE Writable(b) < len /\ MustGrow(b, len)
  <2>1. c = [b EXCEPT !.mem = Resized(b.mem, b.w + len)]
    BY <1>3 DEF EnsureWritableBytes, MakeSpace
  <2>2. /\ Resized(b.mem, b.w + len) \in Seq(S)
        /\ Len(Resized(b.mem, b.w + len)) = b.w + len
        /\ \A i \in 1..b.w + len : i <= Len(b.mem) => Resized(b.mem, b.w + len)[i] = b.mem[i]
    <3> DEFINE mem == b.mem
               n == b.w + len
    <3>1. mem \in Seq(S) /\ n \in Nat
      BY <1>1
    <3> HIDE DEF mem, n
    <3>2. /\ Resized(mem, n) \in Seq(S) /\ Len(Resized(mem, n)) = n
          /\ \A i \in 1..n : i <= Len(mem) => Resized(mem, n)[i] = mem[i]
      BY <3>1, ResizedFacts
    <3> QED
      BY <3>2 DEF mem, n
  <2>3. c.mem = Resized(b.mem, b.w + len) /\ c.r = b.r /\ c.w = b.w
    BY <2>1 DEF Sound
  <2>4. c \in [mem : Seq(S), r : Nat, w : Nat]
    BY <2>1, <2>2 DEF Sound
  <2>5. Len(c.mem) = b.w + len
    BY <2>2, <2>3
  <2>6. Len(b.mem) <= b.w + len
    BY <1>1, <1>3 DEF Writable
  <2> HIDE DEF c
  <2>7. Sound(c, S) /\ len <= Writable(c)
    BY <1>1, <2>3, <2>4, <2>5, <2>6 DEF Sound, Writable
  <2>8. \A i \in 1..c.w - c.r : c.mem[c.r + i] = b.mem[b.r + i]
    <3>1. \A i \in 1..b.w - b.r : b.r + i \in 1..b.w + len /\ b.r + i <= Len(b.mem)
      BY <1>1 DEF Sound
    <3>2. \A i \in 1..b.w - b.r : Resized(b.mem, b.w + len)[b.r + i] = b.mem[b.r + i]
      BY <2>2, <3>1
    <3> QED
      BY <2>3, <3>2
  <2>9. Content(c) = Content(b)
    BY <2>3, <2>7, <2>8, SameContent
  <2> QED
    BY <2>7, <2>9 DEF c
<1>4. CASE Writable(b) < len /\ ~MustGrow(b, len)
  <2>1. CheapPrepend < b.r
    BY <1>4, MoveAssertHolds
  <2>2. c = MovedToFront(b)
    BY <1>4 DEF EnsureWritableBytes, MakeSpace
  <2>3. /\ Content(b) \in Seq(S) /\ Len(Content(b)) = b.w - b.r
        /\ \A i \in 1..b.w - b.r : Content(b)[i] = b.mem[b.r + i]
    BY ContentFacts
  <2> DEFINE m == Copied(b.mem, Content(b), CheapPrepend)
  <2>4. CheapPrepend + Len(Content(b)) <= Len(b.mem)
    BY <1>1, <2>1, <2>3 DEF Sound
  <2>5. /\ m \in Seq(S) /\ Len(m) = Len(b.mem)
        /\ \A i \in 1..Len(b.mem) :
             m[i] = IF CheapPrepend < i /\ i <= CheapPrepend + Len(Content(b))
                    THEN Content(b)[i - CheapPrepend] ELSE b.mem[i]
    BY <1>1, <2>3, <2>4, CopiedFacts
  <2>6. c.mem = m /\ c.r = CheapPrepend /\ c.w = CheapPrepend + (b.w - b.r)
    BY <2>2 DEF MovedToFront, Sound, Readable
  <2>7. c \in [mem : Seq(S), r : Nat, w : Nat]
    <3>1. CheapPrepend + (b.w - b.r) \in Nat
      BY <1>1 DEF Sound
    <3>2. c = [b EXCEPT !.mem = m, !.r = CheapPrepend, !.w = CheapPrepend + (b.w - b.r)]
      BY <2>2 DEF MovedToFront, Readable
    <3> HIDE DEF m
    <3> QED
      BY <1>1, <2>5, <3>1, <3>2 DEF Sound
  <2> HIDE DEF c, m
  <2>8. Sound(c, S) /\ len <= Writable(c)
    BY <1>1, <1>4, <2>3, <2>4, <2>5, <2>6, <2>7 DEF Sound, Writable, MustGrow, Prependable
  <2>9. \A i \in 1..c.w - c.r : c.mem[c.r + i] = b.mem[b.r + i]
    <3> SUFFICES ASSUME NEW i \in 1..c.w - c.r PROVE c.mem[c.r + i] = b.mem[b.r + i]
      OBVIOUS
    <3>1. i \in 1..b.w - b.r /\ CheapPrepend + i \in 1..Len(b.mem)
      BY <1>1, <2>3, <2>4, <2>6
    <3>2. m[CheapPrepend + i] = Content(b)[CheapPrepend + i - CheapPrepend]
      BY <1>1, <2>3, <2>5, <3>1
    <3>3. CheapPrepend + i - CheapPrepend = i
      BY <1>1, <3>1
    <3> QED
      BY <2>3, <2>6, <3>1, <3>2, <3>3
  <2>10. c.w - c.r = b.w - b.r
    BY <1>1, <2>6
  <2>11. Content(c) = Content(b)
    BY <2>8, <2>9, <2>10, SameContent
  <2> QED
    BY <2>8, <2>11 DEF c
<1> QED
  BY <1>2, <1>3, <1>4

(* Bytes put where there is room for them follow the content.               *)
LEMMA WrittenFacts ==
  ASSUME NEW S, NEW b, Sound(b, S), NEW data \in Seq(S), Len(data) <= Writable(b)
  PROVE  /\ Sound(Written(b, data), S)
         /\ Content(Written(b, data)) = Content(b) \o data
         /\ Writable(Written(b, data)) = Writable(b) - Len(data)
<1> DEFINE mem == b.mem
           at == b.w
           m == Copied(mem, data, at)
           c == Written(b, data)
<1>1. /\ mem \in Seq(S) /\ Len(mem) \in Nat /\ at \in Nat /\ b.r \in Nat /\ b.r <= at
      /\ Len(data) \in Nat /\ at + Len(data) <= Len(mem)
  BY LenProperties DEF Sound, Writable
<1>2. c.mem = m /\ c.r = b.r /\ c.w = b.w + Len(data)
  BY DEF Written, HasWritten, Sound
<1>3. /\ m \in Seq(S) /\ Len(m) = Len(mem)
      /\ \A i \in 1..Len(mem) : m[i] = IF at < i /\ i <= at + Len(data) THEN data[i - at] ELSE mem[i]
  <2> HIDE DEF mem, at
  <2> QED
    BY <1>1, CopiedFacts
<1>4. c \in [mem : Seq(S), r : Nat, w : Nat]
  <2>1. c = [b EXCEPT !.mem = m, !.w = b.w + Len(data)]
    BY DEF Written, HasWritten, Sound
  <2>2. b.w + Len(data) \in Nat
    BY <1>1
  <2> HIDE DEF m, c
  <2> QED
    BY <1>3, <2>1, <2>2 DEF Sound
<1> HIDE DEF m, c
<1>5. Sound(c, S) /\ Writable(c) = Writable(b) - Len(data)
  BY <1>1, <1>2, <1>3, <1>4 DEF Sound, Writable
<1>6. /\ Content(c) \in Seq(S) /\ Len(Content(c)) = c.w - c.r
      /\ \A i \in 1..c.w - c.r : Content(c)[i] = c.mem[c.r + i]
  BY <1>5, ContentFacts
<1>7. /\ Content(b) \in Seq(S) /\ Len(Content(b)) = b.w - b.r
      /\ \A i \in 1..b.w - b.r : Content(b)[i] = b.mem[b.r + i]
  BY ContentFacts
<1>8. /\ Content(b) \o data \in Seq(S) /\ Len(Content(b) \o data) = Len(Content(b)) + Len(data)
      /\ \A i \in 1..Len(Content(b)) + Len(data) :
           (Content(b) \o data)[i] = IF i <= Len(Content(b)) THEN Content(b)[i]
                                     ELSE data[i - Len(Content(b))]
  BY <1>7, ConcatProperties
<1>9. Len(Content(c)) = Len(Content(b) \o data)
  BY <1>1, <1>2, <1>6, <1>7, <1>8
<1>10. ASSUME NEW i \in 1..Len(Content(c)) PROVE Content(c)[i] = (Content(b) \o data)[i]
  <2>0. /\ Len(Content(c)) = at + Len(data) - b.r /\ c.w - c.r = at + Len(data) - b.r
        /\ Len(Content(b)) = at - b.r
    BY <1>1, <1>2, <1>6, <1>7
  <2>1. /\ i \in Nat /\ b.r + i \in 1..Len(mem) /\ i \in 1..c.w - c.r
        /\ i \in 1..Len(Content(b)) + Len(data)
    <3> HIDE DEF mem, at
    <3>1. i \in Nat /\ 1 <= i /\ i <= at + Len(data) - b.r
      BY <1>1, <2>0
    <3>2. b.r + i \in 1..Len(mem)
      BY <1>1, <3>1
    <3>3. i \in 1..c.w - c.r /\ i \in 1..Len(Content(b)) + Len(data)
      BY <1>1, <2>0, <3>1
    <3> QED
      BY <3>1, <3>2, <3>3
  <2>2. Content(c)[i] = m[b.r + i]
    BY <1>2, <1>6, <2>1
  <2>3. CASE i <= Len(Content(b))
    <3>1. m[b.r + i] = mem[b.r + i]
      <4> DEFINE j == b.r + i
      <4>1. j \in 1..Len(mem) /\ ~(at < j)
        BY <1>1, <1>7, <2>1, <2>3
      <4> HIDE DEF j, mem, at
      <4>2. m[j] = mem[j]
        BY <1>3, <4>1
      <4> QED
        BY <4>2 DEF j
    <3>2. i \in 1..b.w - b.r
      BY <1>1, <1>7, <2>1, <2>3
    <3> QED
      BY <1>7, <1>8, <2>1, <2>2, <2>3, <3>1, <3>2
  <2>4. CASE ~(i <= Len(Content(b)))
    <3>1. b.r + i - at = i - Len(Content(b))
      BY <1>1, <1>7, <2>1
    <3>2. at < b.r + i /\ b.r + i <= at + Len(data)
      BY <1>1, <1>7, <2>1, <2>4
    <3>3. m[b.r + i] = data[b.r + i - at]
      <4> DEFINE j == b.r + i
      <4>1. j \in 1..Len(mem) /\ at < j /\ j <= at + Len(data)
        BY <2>1, <3>2
      <4> HIDE DEF j, mem, at
      <4>2. m[j] = data[j - at]
        BY <1>3, <4>1
      <4> QED
        BY <1>1, <2>1, <4>2 DEF j
    <3> QED
      BY <1>8, <2>1, <2>2, <2>4, <3>1, <3>3
  <2> QED
    BY <2>3, <2>4
<1>11. Content(c) = Content(b) \o data
  BY <1>6, <1>8, <1>9, <1>10, SeqEqual
<1> QED
  BY <1>5, <1>11 DEF c

(* append() adds the bytes after the content and keeps what was there, for  *)
(* every reserve, initial size and length.                                  *)
THEOREM AppendKeepsContent ==
  ASSUME NEW S, 0 \in S, NEW b, Sound(b, S), NEW data \in Seq(S)
  PROVE  /\ Sound(Append1(b, data), S)
         /\ Content(Append1(b, data)) = Content(b) \o data
<1> DEFINE c == EnsureWritableBytes(b, Len(data))
<1>1. Len(data) \in Nat
  BY LenProperties
<1>2. Sound(c, S) /\ Len(data) <= Writable(c) /\ Content(c) = Content(b)
  BY <1>1, SpaceIsMade
<1>3. Append1(b, data) = Written(c, data)
  BY DEF Append1
<1> HIDE DEF c
<1> QED
  BY <1>2, <1>3, WrittenFacts

(* readFd() loses nothing of what the socket gave, whether it fits in the   *)
(* buffer or spills over into the extra buffer on the stack.                *)
THEOREM ReadFdAppendsAll ==
  ASSUME NEW S, 0 \in S, NEW b, Sound(b, S), NEW data \in Seq(S)
  PROVE  /\ Sound(ReadFd(b, data), S)
         /\ Content(ReadFd(b, data)) = Content(b) \o data
<1>1. Len(data) \in Nat /\ Writable(b) \in Nat
  BY LenProperties DEF Sound, Writable
<1>2. CASE Len(data) <= Writable(b)
  BY <1>2, WrittenFacts DEF ReadFd
<1>3. CASE ~(Len(data) <= Writable(b))
  <2> DEFINE k == Writable(b)
             n == Len(data)
             first == SubSeq(data, 1, k)
             rest == SubSeq(data, k + 1, n)
  <2>1. k \in Nat /\ n \in Nat /\ k < n /\ n = Len(data)
    BY <1>1, <1>3
  <2>2. first \in Seq(S) /\ Len(first) = k /\ rest \in Seq(S) /\ first \o rest = data
    <3>1. k <= Len(data)
      BY <2>1
    <3> HIDE DEF k
    <3> QED
      BY <2>1, <3>1, Cutting
  <2> DEFINE c == Written(b, first)
  <2> HIDE DEF first, rest, k, n
  <2>3. Sound(c, S) /\ Content(c) = Content(b) \o first
    BY <2>1, <2>2, WrittenFacts DEF k
  <2>4. ReadFd(b, data) = Append1(c, rest)
    BY <1>3 DEF ReadFd, first, rest, k, n
  <2> HIDE DEF c
  <2>5. Sound(Append1(c, rest), S) /\ Content(Append1(c, rest)) = Content(c) \o rest
    BY <2>2, <2>3, AppendKeepsContent
  <2>6. Content(b) \in Seq(S)
    BY ContentFacts
  <2>7. (Content(b) \o first) \o rest = Content(b) \o (first \o rest)
    <3> DEFINE content == Content(b)
    <3>1. content \in Seq(S) /\ first \in Seq(S) /\ rest \in Seq(S)
      BY <2>2, <2>6
    <3> HIDE DEF content
    <3>2. (content \o first) \o rest = content \o (first \o rest)
      BY <3>1, ConcatAssociative
    <3> QED
      BY <3>2 DEF content
  <2>8. Content(ReadFd(b, data)) = (Content(b) \o first) \o rest
    BY <2>3, <2>4, <2>5
  <2>9. Content(ReadFd(b, data)) = Content(b) \o (first \o rest)
    BY <2>7, <2>8
  <2> QED
    BY <2>2, <2>4, <2>5, <2>9
<1> QED
  BY <1>2, <1>3

(* retrieve(len) drops the first len bytes and only those.                  *)
THEOREM RetrieveDropsPrefix ==
  ASSUME NEW S, NEW b, Sound(b, S), NEW len \in Nat, len <= Readable(b)
  PROVE  /\ Sound(Retrieve(b, len), S)
         /\ Len(Content(Retrieve(b, len))) = Readable(b) - len
         /\ \A i \in 1..Readable(b) - len :
              Content(Retrieve(b, len))[i] = Content(b)[len + i]
<1> DEFINE c == Retrieve(b, len)
<1>1. /\ b.mem \in Seq(S) /\ Len(b.mem) \in Nat /\ b.r \in Nat /\ b.w \in Nat
      /\ CheapPrepend \in Nat
  BY LenProperties, BufferAssumption DEF Sound
<1>2. \A i \in 1..b.w - b.r : Content(b)[i] = b.mem[b.r + i]
  BY ContentFacts
<1>3. CASE len < Readable(b)
  <2>1. c = [b EXCEPT !.r = b.r + len] /\ b.r + len \in Nat
    BY <1>1, <1>3 DEF Retrieve
  <2>2. c.mem = b.mem /\ c.r = b.r + len /\ c.w = b.w /\ c \in [mem : Seq(S), r : Nat, w : Nat]
    BY <2>1 DEF Sound
  <2> HIDE DEF c
  <2>3. Sound(c, S) /\ c.w - c.r = Readable(b) - len
    BY <1>1, <1>3, <2>2 DEF Sound, Readable
  <2>4. /\ Len(Content(c)) = c.w - c.r
        /\ \A i \in 1..c.w - c.r : Content(c)[i] = c.mem[c.r + i]
    BY <2>3, ContentFacts
  <2>5. ASSUME NEW i \in 1..Readable(b) - len PROVE Content(c)[i] = Content(b)[len + i]
    <3>1. len + i \in 1..b.w - b.r /\ b.r + (len + i) = b.r + len + i
      BY <1>1 DEF Readable
    <3>2. Content(c)[i] = b.mem[b.r + len + i]
      BY <2>2, <2>3, <2>4
    <3> QED
      BY <1>2, <3>1, <3>2
  <2> QED
    BY <2>3, <2>4, <2>5 DEF c
<1>4. CASE ~(len < Readable(b))
  <2>1. c = [b EXCEPT !.r = CheapPrepend, !.w = CheapPrepend]
    BY <1>4 DEF Retrieve, RetrieveAll
  <2>2. /\ c.mem = b.mem /\ c.r = CheapPrepend /\ c.w = CheapPrepend
        /\ c \in [mem : Seq(S), r : Nat, w : Nat]
    BY <1>1, <2>1 DEF Sound
  <2> HIDE DEF c
  <2>3. Sound(c, S) /\ c.w - c.r = 0 /\ Readable(b) - len = 0
    BY <1>1, <1>4, <2>2 DEF Sound, Readable
  <2>4. Len(Content(c)) = 0
    BY <2>3, ContentFacts
  <2> QED
    BY <2>3, <2>4 DEF c
<1> QED
  BY <1>3, <1>4

(* prepend() of what fits in front puts it before the content: the length   *)
(* field of a message lands before the message.                             *)
THEOREM PrependKeepsContent ==
  ASSUME NEW S, NEW b, Sound(b, S), NEW data \in Seq(S), Len(data) <= Prependable(b)
  PROVE  /\ Sound(Prepend(b, data), S)
         /\ Content(Prepend(b, data)) = data \o Content(b)
<1> DEFINE mem == b.mem
           n == Len(data)
           at == b.r - n
           m == Copied(mem, data, at)
           c == Prepend(b, data)
<1>1. /\ mem \in Seq(S) /\ Len(mem) \in Nat /\ n \in Nat /\ at \in Nat /\ b.r \in Nat
      /\ b.w \in Nat /\ b.r <= b.w /\ b.w <= Len(mem) /\ at + n = b.r /\ n = Len(data)
  BY LenProperties DEF Sound, Prependable
<1>2. c.mem = m /\ c.r = at /\ c.w = b.w
  BY DEF Prepend, Sound
<1>3. /\ m \in Seq(S) /\ Len(m) = Len(mem)
      /\ \A i \in 1..Len(mem) : m[i] = IF at < i /\ i <= at + n THEN data[i - at] ELSE mem[i]
  <2>1. at + Len(data) <= Len(mem)
    BY <1>1
  <2> HIDE DEF mem, at
  <2> QED
    BY <1>1, <2>1, CopiedFacts
<1>4. c \in [mem : Seq(S), r : Nat, w : Nat]
  <2>1. c = [b EXCEPT !.mem = m, !.r = at]
    BY DEF Prepend, Sound
  <2> HIDE DEF m, c, at
  <2> QED
    BY <1>1, <1>3, <2>1 DEF Sound
<1>5. c.w - c.r = n + (b.w - b.r)
  <2> HIDE DEF c, n
  <2> QED
    BY <1>1, <1>2
<1> HIDE DEF m, c
<1>6. Sound(c, S)
  BY <1>1, <1>2, <1>3, <1>4 DEF Sound
<1>7. /\ Content(c) \in Seq(S) /\ Len(Content(c)) = c.w - c.r
      /\ \A i \in 1..c.w - c.r : Content(c)[i] = c.mem[c.r + i]
  BY <1>6, ContentFacts
<1>8. /\ Content(b) \in Seq(S) /\ Len(Content(b)) = b.w - b.r
      /\ \A i \in 1..b.w - b.r : Content(b)[i] = mem[b.r + i]
  BY ContentFacts
<1>9. /\ data \o Content(b) \in Seq(S) /\ Len(data \o Content(b)) = n + Len(Content(b))
      /\ \A i \in 1..n + Len(Content(b)) :
           (data \o Content(b))[i] = IF i <= n THEN data[i] ELSE Content(b)[i - n]
  BY <1>8, ConcatProperties
<1>10. Len(Content(c)) = Len(data \o Content(b))
  BY <1>5, <1>7, <1>8, <1>9
<1>11. ASSUME NEW i \in 1..Len(Content(c)) PROVE Content(c)[i] = (data \o Content(b))[i]
  <2> DEFINE j == at + i
             r == b.r
             w == b.w
  <2>1. i \in Nat /\ i \in 1..n + (w - r) /\ i \in 1..c.w - c.r /\ r \in Nat /\ w \in Nat
    BY <1>1, <1>5, <1>7
  <2>2. Content(c)[i] = m[j]
    BY <1>2, <1>7, <2>1
  <2>3. (data \o Content(b))[i] = IF i <= n THEN data[i] ELSE Content(b)[i - n]
    BY <1>8, <1>9, <2>1
  <2>4. at + n = r /\ at \in Nat /\ n \in Nat /\ r <= w /\ w <= Len(mem) /\ j = at + i
    BY <1>1
  <2>5. \A k \in 1..w - r : Content(b)[k] = mem[r + k]
    BY <1>8
  <2> HIDE DEF j, r, w, at, n, mem
  <2>6. j \in 1..Len(mem) /\ j - at = i
    BY <1>1, <2>1, <2>4
  <2>7. CASE i <= n
    <3>1. at < j /\ j <= at + n
      BY <2>1, <2>4, <2>7
    <3>2. m[j] = data[j - at]
      BY <1>3, <2>6, <3>1
    <3> QED
      BY <2>2, <2>3, <2>6, <2>7, <3>2
  <2>8. CASE ~(i <= n)
    <3>1. ~(j <= at + n) /\ i - n \in 1..w - r /\ r + (i - n) = j
      BY <2>1, <2>4, <2>8
    <3>2. m[j] = mem[j]
      BY <1>3, <2>6, <3>1
    <3>3. Content(b)[i - n] = mem[j]
      BY <2>5, <3>1
    <3> QED
      BY <2>2, <2>3, <2>8, <3>2, <3>3
  <2> QED
    BY <2>7, <2>8
<1>12. Content(c) = data \o Content(b)
  BY <1>7, <1>9, <1>10, <1>11, SeqEqual
<1> QED
  BY <1>6, <1>12 DEF c

(* A buffer begins empty.                                                   *)
LEMMA NewBufferFacts ==
  ASSUME NEW S, 0 \in S
  PROVE  Sound(NewBuffer, S) /\ Content(NewBuffer) = <<>> /\ NewBuffer.r = CheapPrepend
<1>1. Zeros(CheapPrepend + InitialSize) \in Seq(S)
      /\ Len(Zeros(CheapPrepend + InitialSize)) = CheapPrepend + InitialSize
  BY BufferAssumption DEF Zeros
<1>2. Sound(NewBuffer, S)
  BY <1>1, BufferAssumption DEF Sound, NewBuffer
<1>3. Content(NewBuffer) \in Seq(S) /\ Len(Content(NewBuffer)) = 0
  <2>1. NewBuffer.w - NewBuffer.r = 0
    BY BufferAssumption DEF NewBuffer
  <2> QED
    BY <1>2, <2>1, ContentFacts
<1>4. Content(NewBuffer) = <<>>
  BY <1>3, EmptySeq
<1> QED
  BY <1>2, <1>4 DEF NewBuffer

(* shrink() exchanges the memory and keeps the content.                     *)
THEOREM ShrinkKeepsContent ==
  ASSUME NEW S, 0 \in S, NEW b, Sound(b, S), NEW reserve \in Nat
  PROVE  Sound(Shrink(b, reserve), S) /\ Content(Shrink(b, reserve)) = Content(b)
<1>1. Sound(NewBuffer, S) /\ Content(NewBuffer) = <<>>
  BY NewBufferFacts
<1> DEFINE n == Readable(b) + reserve
           c == EnsureWritableBytes(NewBuffer, n)
           data == Content(b)
<1>2. n \in Nat
  BY DEF Readable, Sound
<1>3. data \in Seq(S)
  BY ContentFacts
<1> HIDE DEF n, data
<1>4. Sound(c, S) /\ Content(c) = <<>>
  <2> DEFINE new == NewBuffer
  <2>1. Sound(new, S) /\ Content(new) = <<>>
    BY <1>1
  <2> HIDE DEF new
  <2>2. Sound(EnsureWritableBytes(new, n), S) /\ Content(EnsureWritableBytes(new, n)) = <<>>
    BY <1>2, <2>1, SpaceIsMade
  <2> QED
    BY <2>2 DEF new
<1>5. Shrink(b, reserve) = Append1(c, data)
  BY DEF Shrink, n, data
<1> HIDE DEF c
<1>6. Sound(Append1(c, data), S) /\ Content(Append1(c, data)) = <<>> \o data
  BY <1>3, <1>4, AppendKeepsContent
<1>7. <<>> \o data = data
  BY <1>3, ConcatEmptySeq
<1> QED
  BY <1>5, <1>6, <1>7 DEF data

----------------------------------------------------------------------------
(* A set of naturals that is not empty has a least member.                  *)
LEMMA LeastNat ==
  ASSUME NEW T \in SUBSET Nat, T # {}
  PROVE  \E n \in T : \A m \in T : n <= m
<1> DEFINE R == {p \in Nat \X Nat : p[1] < p[2]}
<1>1. IsWellFoundedOn(R, Nat)
  BY NatLessThanWellFounded DEF OpToRel
<1>2. \A x, y \in Nat : y < x => <<y, x>> \in R
  OBVIOUS
<1> HIDE DEF R
<1>3. PICK x \in T : \A y \in T : ~(<<y, x>> \in R)
  BY <1>1, WFMin
<1>4. \A y \in T : x <= y
  <2> SUFFICES ASSUME NEW y \in T PROVE x <= y
    OBVIOUS
  <2>1. ~(y < x)
    BY <1>2, <1>3
  <2> QED
    BY <2>1
<1> QED
  BY <1>4

(* Induction over the naturals, for a set.                                  *)
LEMMA NatSet ==
  ASSUME NEW T, 0 \in T, \A n \in Nat : n \in T => n + 1 \in T
  PROVE  Nat \subseteq T
<1> DEFINE B == Nat \ T
<1> SUFFICES ASSUME B # {} PROVE FALSE
  OBVIOUS
<1>1. PICK n \in B : \A m \in B : n <= m
  <2> HIDE DEF B
  <2>1. B \in SUBSET Nat
    BY DEF B
  <2> QED
    BY <2>1, LeastNat
<1>2. n # 0 /\ n \in Nat
  OBVIOUS
<1>3. n - 1 \in Nat /\ n - 1 \notin B
  BY <1>1, <1>2
<1> QED
  BY <1>2, <1>3

(* f is given by recursion: its first value, and the next for each number   *)
(* and value.                                                               *)
Solves(f, S, base, step) ==
  f \in [Nat -> S] /\ f[0] = base /\ \A n \in Nat : f[n + 1] = step[<<n, f[n]>>]

(* A recursion over the naturals has a solution.                            *)
LEMMA Recursion ==
  ASSUME NEW S, NEW base \in S, NEW step \in [Nat \X S -> S]
  PROVE  \E f : Solves(f, S, base, step)
<1> DEFINE Part(n, g) ==
             /\ g \in [0..n -> S] /\ g[0] = base
             /\ \A i \in 0..n - 1 : g[i + 1] = step[<<i, g[i]>>]
<1>1. \A n \in Nat : \E g : Part(n, g)
  <2> DEFINE T == {n \in Nat : \E g : Part(n, g)}
  <2>1. 0 \in T
    <3>1. Part(0, [i \in 0..0 |-> base])
      OBVIOUS
    <3> QED
      BY <3>1
  <2>2. ASSUME NEW n \in Nat, n \in T PROVE n + 1 \in T
    <3>1. PICK g : Part(n, g)
      BY <2>2
    <3> DEFINE h == [i \in 0..n + 1 |-> IF i = n + 1 THEN step[<<n, g[n]>>] ELSE g[i]]
    <3>2. g[n] \in S /\ step[<<n, g[n]>>] \in S
      <4>1. n \in 0..n
        OBVIOUS
      <4>2. g[n] \in S
        BY <3>1, <4>1
      <4>3. <<n, g[n]>> \in Nat \X S
        BY <4>2
      <4> QED
        BY <4>2, <4>3
    <3>3. h \in [0..n + 1 -> S]
      <4>1. \A i \in 0..n + 1 : i # n + 1 => g[i] \in S
        BY <3>1
      <4> QED
        BY <3>2, <4>1
    <3>4. h[0] = base
      BY <3>1
    <3>5. \A i \in 0..(n + 1) - 1 : h[i + 1] = step[<<i, h[i]>>]
      <4> SUFFICES ASSUME NEW i \in 0..(n + 1) - 1 PROVE h[i + 1] = step[<<i, h[i]>>]
        OBVIOUS
      <4>1. i \in 0..n /\ h[i] = g[i]
        OBVIOUS
      <4>2. CASE i = n
        <5>1. i + 1 \in 0..n + 1 /\ i + 1 = n + 1
          BY <4>1, <4>2
        <5>2. h[i + 1] = step[<<n, g[n]>>]
          BY <5>1
        <5> QED
          BY <4>1, <4>2, <5>2
      <4>3. CASE i # n
        <5>1. i \in 0..n - 1 /\ i + 1 \in 0..n + 1 /\ i + 1 # n + 1
          BY <4>1, <4>3
        <5>2. h[i + 1] = g[i + 1]
          BY <5>1
        <5> QED
          BY <3>1, <4>1, <5>1, <5>2
      <4> QED
        BY <4>2, <4>3
    <3> HIDE DEF h
    <3>6. Part(n + 1, h)
      BY <3>3, <3>4, <3>5
    <3>7. n + 1 \in Nat
      OBVIOUS
    <3> HIDE DEF Part
    <3> QED
      BY <3>6, <3>7
  <2> HIDE DEF T
  <2>3. Nat \subseteq T
    BY <2>1, <2>2, NatSet
  <2> QED
    BY <2>3 DEF T
<1>2. \A i \in Nat : \A m, n \in Nat : \A g, h :
        i <= m /\ i <= n /\ Part(m, g) /\ Part(n, h) => g[i] = h[i]
  <2> DEFINE T == {i \in Nat : \A m, n \in Nat : \A g, h :
                     i <= m /\ i <= n /\ Part(m, g) /\ Part(n, h) => g[i] = h[i]}
  <2>1. 0 \in T
    OBVIOUS
  <2>2. ASSUME NEW i \in Nat, i \in T PROVE i + 1 \in T
    <3> SUFFICES ASSUME NEW m \in Nat, NEW n \in Nat, NEW g, NEW h, i + 1 <= m, i + 1 <= n,
                        Part(m, g), Part(n, h)
                 PROVE  g[i + 1] = h[i + 1]
      OBVIOUS
    <3>1. i \in 0..m - 1 /\ i \in 0..n - 1 /\ i <= m /\ i <= n
      OBVIOUS
    <3>2. g[i] = h[i]
      <4>1. Part(m, g) /\ Part(n, h)
        OBVIOUS
      <4> HIDE DEF Part
      <4> QED
        BY <2>2, <3>1, <4>1
    <3>3. g[i + 1] = step[<<i, g[i]>>]
      BY <3>1
    <3>4. h[i + 1] = step[<<i, h[i]>>]
      BY <3>1
    <3> QED
      BY <3>2, <3>3, <3>4
  <2> HIDE DEF T
  <2>3. Nat \subseteq T
    BY <2>1, <2>2, NatSet
  <2> QED
    BY <2>3 DEF T
<1> DEFINE g(n) == CHOOSE h : Part(n, h)
           f == [n \in Nat |-> g(n)[n]]
<1>3. ASSUME NEW n \in Nat PROVE Part(n, g(n))
  <2>1. \E h : Part(n, h)
    BY <1>1
  <2> HIDE DEF Part
  <2> QED
    BY <2>1
<1> HIDE DEF g
<1>4. f \in [Nat -> S]
  <2> SUFFICES ASSUME NEW n \in Nat PROVE g(n)[n] \in S
    OBVIOUS
  <2>1. g(n) \in [0..n -> S] /\ n \in 0..n
    BY <1>3
  <2> QED
    BY <2>1
<1>5. f[0] = base
  <2>1. g(0)[0] = base
    BY <1>3
  <2> QED
    BY <2>1
<1>6. ASSUME NEW n \in Nat PROVE f[n + 1] = step[<<n, f[n]>>]
  <2>1. Part(n, g(n)) /\ Part(n + 1, g(n + 1))
    BY <1>3
  <2>2. g(n)[n] = g(n + 1)[n]
    <3> HIDE DEF Part
    <3>1. n \in Nat /\ n + 1 \in Nat /\ n <= n /\ n <= n + 1
      OBVIOUS
    <3> QED
      BY <1>2, <2>1, <3>1
  <2>3. g(n + 1)[n + 1] = step[<<n, g(n + 1)[n]>>]
    BY <2>1
  <2> QED
    BY <2>2, <2>3
<1> HIDE DEF f
<1>7. Solves(f, S, base, step)
  BY <1>4, <1>5, <1>6 DEF Solves
<1> QED
  BY <1>7

----------------------------------------------------------------------------
(* Division and remainder.                                                  *)
LEMMA DivisionFacts ==
  ASSUME NEW b \in Nat \ {0}, NEW c \in Nat \ {0}, NEW x \in Nat
  PROVE  /\ x \div c \in Nat /\ x % c \in Nat /\ x % c < c
         /\ x = b * (x \div b) + (x % b)
         /\ (x \div c) \div b = x \div (b * c)
         /\ x < c => x \div c = 0
<1>1. x \div c \in Nat /\ x % c \in Nat /\ x % c < c
  OBVIOUS
<1>2. x = b * (x \div b) + (x % b)
  OBVIOUS
<1>3. (x \div c) \div b = x \div (b * c)
  OBVIOUS
<1>4. x < c => x \div c = 0
  OBVIOUS
<1> QED
  BY <1>1, <1>2, <1>3, <1>4

(* The powers of the byte base, given by their recursion.                   *)
LEMMA PowerFacts ==
  /\ Power[0] = 1
  /\ \A n \in Nat : Power[n] \in Nat \ {0} /\ Power[n + 1] = ByteBase * Power[n]
<1> DEFINE S == Nat \ {0}
           step == [p \in Nat \X S |-> ByteBase * p[2]]
           e(f) == [n \in Nat |-> IF n = 0 THEN 1 ELSE ByteBase * f[n - 1]]
<1>0. \A k \in S : ByteBase * k \in S
  BY BufferAssumption
<1>1. 1 \in S /\ step \in [Nat \X S -> S]
  BY <1>0
<1>2. \A n \in Nat, k \in S : step[<<n, k>>] = ByteBase * k
  OBVIOUS
<1> HIDE DEF S, step
<1>3. PICK f \in [Nat -> S] : f[0] = 1 /\ \A n \in Nat : f[n + 1] = step[<<n, f[n]>>]
  <2> DEFINE base == 1
  <2>1. base \in S
    BY <1>1
  <2> HIDE DEF base
  <2>2. \E f : Solves(f, S, base, step)
    BY <1>1, <2>1, Recursion
  <2> QED
    BY <2>2 DEF base, Solves
<1>4. f = e(f)
  <2>1. \A n \in Nat : n # 0 => f[n] = ByteBase * f[n - 1]
    <3> SUFFICES ASSUME NEW n \in Nat, n # 0 PROVE f[n] = ByteBase * f[n - 1]
      OBVIOUS
    <3>1. n - 1 \in Nat /\ (n - 1) + 1 = n
      OBVIOUS
    <3>2. f[(n - 1) + 1] = step[<<n - 1, f[n - 1]>>]
      BY <1>3, <3>1
    <3>3. f[n - 1] \in S
      BY <3>1
    <3> QED
      BY <1>2, <3>1, <3>2, <3>3
  <2> QED
    BY <1>3, <2>1
<1>5. Power = e(Power)
  <2>1. Power = CHOOSE g : g = e(g)
    BY DEF Power
  <2> QED
    BY <1>4, <2>1
<1>6. Power[0] = 1 /\ \A n \in Nat : Power[n + 1] = ByteBase * Power[n]
  <2>1. \A n \in Nat : Power[n] = IF n = 0 THEN 1 ELSE ByteBase * Power[n - 1]
    BY <1>5
  <2> HIDE DEF e
  <2>2. \A n \in Nat : n + 1 \in Nat /\ n + 1 # 0 /\ (n + 1) - 1 = n
    OBVIOUS
  <2>3. 0 \in Nat
    OBVIOUS
  <2>4. Power[0] = 1
    BY <2>1, <2>3
  <2>5. \A n \in Nat : Power[n + 1] = ByteBase * Power[n]
    BY <2>1, <2>2
  <2> QED
    BY <2>4, <2>5
<1>7. \A n \in Nat : Power[n] \in S
  <2> DEFINE T == {n \in Nat : Power[n] \in S}
  <2>1. 0 \in T
    BY <1>1, <1>6
  <2>2. \A n \in Nat : n \in T => n + 1 \in T
    BY <1>0, <1>6 DEF S
  <2> HIDE DEF T
  <2>3. Nat \subseteq T
    BY <2>1, <2>2, NatSet
  <2> QED
    BY <2>3 DEF T
<1> QED
  BY <1>6, <1>7 DEF S

(* The value of bytes, given by its recursion.                              *)
LEMMA UnsignedFacts ==
  ASSUME NEW bytes \in Seq(Nat)
  PROVE  \E v : /\ v[0] = 0
                /\ \A i \in 1..Len(bytes) : v[i] = ByteBase * v[i - 1] + bytes[i]
                /\ Unsigned(bytes) = v[Len(bytes)]
<1> DEFINE n == Len(bytes)
           add(i, k) == IF i < n THEN ByteBase * k + bytes[i + 1] ELSE k
           step == [p \in Nat \X Nat |-> add(p[1], p[2])]
           e(f) == [i \in 0..n |-> IF i = 0 THEN 0 ELSE ByteBase * f[i - 1] + bytes[i]]
<1>0. n \in Nat /\ \A i \in 1..n : bytes[i] \in Nat
  BY LenProperties, ElementOfSeq
<1>1. \A i, k \in Nat : add(i, k) \in Nat
  <2> SUFFICES ASSUME NEW i \in Nat, NEW k \in Nat, i < n PROVE ByteBase * k + bytes[i + 1] \in Nat
    OBVIOUS
  <2>1. bytes[i + 1] \in Nat
    BY <1>0
  <2>2. ByteBase * k \in Nat
    BY BufferAssumption
  <2> QED
    BY <2>1, <2>2
<1>2. step \in [Nat \X Nat -> Nat] /\ \A i, k \in Nat : step[<<i, k>>] = add(i, k)
  <2> HIDE DEF add
  <2> QED
    BY <1>1
<1> HIDE DEF step, n
<1>3. PICK f \in [Nat -> Nat] : f[0] = 0 /\ \A i \in Nat : f[i + 1] = step[<<i, f[i]>>]
  <2> DEFINE S == Nat
             base == 0
  <2>1. base \in S /\ step \in [Nat \X S -> S]
    BY <1>2
  <2> HIDE DEF base, S
  <2>2. \E f : Solves(f, S, base, step)
    BY <2>1, Recursion
  <2> QED
    BY <2>2 DEF base, S, Solves
<1> DEFINE v == [i \in 0..n |-> f[i]]
<1>4. v = e(v)
  <2>1. ASSUME NEW i \in 1..n PROVE f[i] = ByteBase * f[i - 1] + bytes[i]
    <3>1. i - 1 \in Nat /\ (i - 1) + 1 = i /\ i - 1 < n
      BY <1>0
    <3>2. f[(i - 1) + 1] = step[<<i - 1, f[i - 1]>>]
      BY <1>3, <3>1
    <3>3. f[i - 1] \in Nat
      BY <3>1
    <3>4. f[i] = add(i - 1, f[i - 1])
      BY <1>2, <3>1, <3>2, <3>3
    <3> QED
      BY <3>1, <3>4
  <2>2. \A i \in 0..n : i # 0 => i \in 1..n /\ i - 1 \in 0..n
    BY <1>0
  <2> QED
    BY <1>3, <2>1, <2>2
<1>5. Unsigned(bytes) = (CHOOSE g : g = e(g))[n]
  BY DEF Unsigned, n
<1> DEFINE u == CHOOSE g : g = e(g)
<1>6. u = e(u)
  BY <1>4
<1> HIDE DEF u
<1>7. \A i \in 0..n : u[i] = IF i = 0 THEN 0 ELSE ByteBase * u[i - 1] + bytes[i]
  BY <1>6
<1>8. u[0] = 0 /\ \A i \in 1..n : u[i] = ByteBase * u[i - 1] + bytes[i]
  <2>1. 0 \in 0..n /\ \A i \in 1..n : i \in 0..n /\ i # 0
    BY <1>0
  <2> QED
    BY <1>7, <2>1
<1> QED
  BY <1>5, <1>8 DEF u, n

(* The digits of a number, read back.                                       *)
LEMMA DigitsReadBack ==
  ASSUME NEW x \in Int, NEW n \in Nat
  PROVE  /\ HostToNetwork(x, n) \in Seq(Nat) /\ Len(HostToNetwork(x, n)) = n
         /\ Unsigned(HostToNetwork(x, n)) = x % Power[n]
<1> DEFINE y == x % Power[n]
           d == HostToNetwork(x, n)
           digit(i) == (y \div Power[n - i]) % ByteBase
<1>0. ByteBase \in Nat \ {0} /\ \A k \in Nat : Power[k] \in Nat \ {0}
  BY BufferAssumption, PowerFacts
<1>1. y \in Nat /\ y < Power[n]
  <2> DEFINE c == Power[n]
  <2>1. c \in Nat \ {0}
    BY <1>0
  <2> HIDE DEF c
  <2>2. x % c \in Nat /\ x % c < c
    BY <2>1
  <2> QED
    BY <2>2 DEF c
<1>2. d = [i \in 1..n |-> digit(i)]
  BY DEF HostToNetwork
<1> HIDE DEF y
<1>3. ASSUME NEW i \in 0..n
      PROVE  y \div Power[n - i] \in Nat /\ digit(i) \in Nat
  <2>1. Power[n - i] \in Nat \ {0}
    <3>1. n - i \in Nat
      OBVIOUS
    <3> QED
      BY <1>0, <3>1
  <2>2. y \div Power[n - i] \in Nat
    BY <1>1, <2>1, DivisionFacts
  <2>3. (y \div Power[n - i]) % ByteBase \in Nat
    BY <1>0, <2>2, DivisionFacts
  <2> QED
    BY <2>2, <2>3
<1>4. d \in Seq(Nat) /\ Len(d) = n /\ \A i \in 1..n : d[i] = digit(i)
  <2>1. \A i \in 1..n : digit(i) \in Nat
    BY <1>3
  <2> HIDE DEF digit, d
  <2> QED
    BY <1>2, <2>1
<1> HIDE DEF d
<1>5. PICK v : /\ v[0] = 0
               /\ \A i \in 1..n : v[i] = ByteBase * v[i - 1] + d[i]
               /\ Unsigned(d) = v[n]
  BY <1>4, UnsignedFacts
<1>6. \A i \in Nat : i <= n => v[i] = y \div Power[n - i]
  <2> DEFINE T == {i \in Nat : i <= n => v[i] = y \div Power[n - i]}
  <2>1. 0 \in T
    <3>1. Power[n] \in Nat \ {0} /\ n - 0 = n
      BY <1>0
    <3>2. y \div Power[n] = 0
      BY <1>1, <3>1, DivisionFacts
    <3> QED
      BY <1>5, <3>1, <3>2
  <2>2. ASSUME NEW i \in Nat, i \in T PROVE i + 1 \in T
    <3> SUFFICES ASSUME i + 1 <= n PROVE v[i + 1] = y \div Power[n - (i + 1)]
      OBVIOUS
    <3> DEFINE k == n - (i + 1)
               c == Power[k]
    <3>1. k \in Nat /\ n - i = k + 1 /\ i + 1 \in 1..n /\ (i + 1) - 1 = i /\ i <= n
      OBVIOUS
    <3>2. c \in Nat \ {0} /\ Power[n - i] = ByteBase * c
      BY <3>1, PowerFacts
    <3>3. v[i] = y \div (ByteBase * c)
      BY <2>2, <3>1, <3>2
    <3>4. d[i + 1] = (y \div c) % ByteBase
      BY <1>4, <3>1
    <3>5. v[i + 1] = ByteBase * v[i] + d[i + 1]
      BY <1>5, <3>1
    <3> HIDE DEF c
    <3> DEFINE q == y \div c
    <3>6. q \in Nat /\ q \div ByteBase = y \div (ByteBase * c)
      BY <1>0, <1>1, <3>2, DivisionFacts
    <3> HIDE DEF q
    <3>7. q = ByteBase * (q \div ByteBase) + (q % ByteBase)
      BY <1>0, <3>6, DivisionFacts
    <3>8. d[i + 1] = q % ByteBase
      BY <3>4 DEF q
    <3>9. v[i + 1] = q
      BY <3>3, <3>5, <3>6, <3>7, <3>8
    <3> QED
      BY <3>9 DEF q, c
  <2> HIDE DEF T
  <2>3. Nat \subseteq T
    BY <2>1, <2>2, NatSet
  <2> QED
    BY <2>3 DEF T
<1>7. v[n] = y
  <2>1. v[n] = y \div Power[n - n]
    BY <1>6
  <2>2. Power[n - n] = 1
    BY PowerFacts
  <2>3. y \div 1 = y
    BY <1>1
  <2> QED
    BY <2>1, <2>2, <2>3
<1> QED
  BY <1>4, <1>5, <1>7 DEF d, y

(* What hostToNetwork() wrote, networkToHost() reads back: every integer    *)
(* that two's complement of n bytes can hold, whatever n is.                *)
THEOREM IntegersReadBack ==
  ASSUME NEW n \in Nat, NEW x \in Int, -Power[n] <= 2 * x, 2 * x < Power[n]
  PROVE  NetworkToHost(HostToNetwork(x, n)) = x
<1> DEFINE m == Power[n]
<1>1. m \in Nat \ {0}
  BY PowerFacts
<1>2. Unsigned(HostToNetwork(x, n)) = x % m /\ Power[Len(HostToNetwork(x, n))] = m
  BY DigitsReadBack
<1>3. NetworkToHost(HostToNetwork(x, n)) = IF 2 * (x % m) >= m THEN (x % m) - m ELSE x % m
  BY <1>2 DEF NetworkToHost
<1>4. -m <= 2 * x /\ 2 * x < m
  OBVIOUS
<1> HIDE DEF m
<1>5. CASE x >= 0
  <2>1. x % m = x
    BY <1>1, <1>4, <1>5
  <2> QED
    BY <1>1, <1>3, <1>4, <2>1
<1>6. CASE x < 0
  <2>1. x % m = x + m
    BY <1>1, <1>4, <1>6
  <2> QED
    BY <1>1, <1>3, <1>4, <2>1
<1> QED
  BY <1>5, <1>6

----------------------------------------------------------------------------
(* v[i] is the first i sequences of seqs in a row.                          *)
Rows(v, S, seqs) ==
  /\ v[0] = <<>> /\ \A i \in 0..Len(seqs) : v[i] \in Seq(S)
  /\ \A i \in 1..Len(seqs) : v[i] = v[i - 1] \o seqs[i]

(* The rows are sequences.                                                  *)
LEMMA RowsTyped ==
  ASSUME NEW S, NEW seqs \in Seq(Seq(S)), NEW v, v[0] = <<>>,
         \A i \in 1..Len(seqs) : v[i] = v[i - 1] \o seqs[i]
  PROVE  Rows(v, S, seqs)
<1> DEFINE n == Len(seqs)
           T == {i \in Nat : i <= n => v[i] \in Seq(S)}
<1>0. n \in Nat /\ \A i \in 1..n : seqs[i] \in Seq(S)
  BY LenProperties, ElementOfSeq
<1>1. 0 \in T
  BY EmptySeq
<1>2. ASSUME NEW i \in Nat, i \in T PROVE i + 1 \in T
  <2> SUFFICES ASSUME i + 1 <= n PROVE v[i + 1] \in Seq(S)
    OBVIOUS
  <2>1. i + 1 \in 1..n /\ (i + 1) - 1 = i /\ i <= n
    BY <1>0
  <2>2. v[i + 1] = v[i] \o seqs[i + 1] /\ v[i] \in Seq(S) /\ seqs[i + 1] \in Seq(S)
    BY <1>0, <1>2, <2>1
  <2> QED
    BY <2>2
<1> HIDE DEF T
<1>3. Nat \subseteq T
  BY <1>1, <1>2, NatSet
<1>4. \A i \in 0..n : v[i] \in Seq(S)
  BY <1>0, <1>3 DEF T
<1> QED
  BY <1>4 DEF Rows

(* Stream() is the last of the rows.                                        *)
LEMMA StreamFacts ==
  ASSUME NEW S, NEW seqs \in Seq(Seq(S))
  PROVE  \E v : Rows(v, S, seqs) /\ Stream(seqs) = v[Len(seqs)]
<1> DEFINE n == Len(seqs)
           e(f) == [i \in 0..n |-> IF i = 0 THEN <<>> ELSE f[i - 1] \o seqs[i]]
           add(i, s) == IF i < n THEN s \o seqs[i + 1] ELSE s
           R == Seq(S)
           step == [p \in Nat \X R |-> add(p[1], p[2])]
           base == <<>>
<1>0. n \in Nat /\ \A i \in 1..n : seqs[i] \in Seq(S)
  BY LenProperties, ElementOfSeq
<1>1. \A i \in Nat, s \in R : add(i, s) \in R
  <2> SUFFICES ASSUME NEW i \in Nat, NEW s \in Seq(S), i < n PROVE s \o seqs[i + 1] \in Seq(S)
    OBVIOUS
  <2>1. seqs[i + 1] \in Seq(S)
    BY <1>0
  <2> QED
    BY <2>1
<1>2. step \in [Nat \X R -> R] /\ \A i \in Nat, s \in R : step[<<i, s>>] = add(i, s)
  <2> HIDE DEF add, R
  <2> QED
    BY <1>1
<1>3. base \in R
  BY EmptySeq
<1> HIDE DEF step, base, R
<1>4. PICK f : Solves(f, R, base, step)
  BY <1>2, <1>3, Recursion
<1>5. f \in [Nat -> R] /\ f[0] = <<>> /\ \A i \in Nat : f[i + 1] = step[<<i, f[i]>>]
  BY <1>4 DEF Solves, base
<1>6. ASSUME NEW i \in 1..n PROVE f[i] = f[i - 1] \o seqs[i]
  <2>1. i - 1 \in Nat /\ (i - 1) + 1 = i /\ i - 1 < n
    BY <1>0
  <2>2. f[(i - 1) + 1] = step[<<i - 1, f[i - 1]>>]
    BY <1>5, <2>1
  <2>3. f[i - 1] \in R
    BY <1>5, <2>1
  <2>4. f[i] = add(i - 1, f[i - 1])
    BY <1>2, <2>1, <2>2, <2>3
  <2> QED
    BY <2>1, <2>4
<1> DEFINE w == [i \in 0..n |-> f[i]]
<1>7. w = e(w)
  <2>1. \A i \in 0..n : i # 0 => i \in 1..n /\ i - 1 \in 0..n
    BY <1>0
  <2> QED
    BY <1>5, <1>6, <2>1
<1> DEFINE u == CHOOSE g : g = e(g)
<1>8. u = e(u)
  BY <1>7
<1>9. Stream(seqs) = u[n]
  BY DEF Stream
<1> HIDE DEF u
<1>10. u[0] = <<>> /\ \A i \in 1..n : u[i] = u[i - 1] \o seqs[i]
  <2>1. 0 \in 0..n /\ \A i \in 1..n : i \in 0..n /\ i # 0
    BY <1>0
  <2> QED
    BY <1>8, <2>1
<1>11. Rows(u, S, seqs)
  BY <1>10, RowsTyped
<1> QED
  BY <1>9, <1>11

(* Without frames there are no bytes.                                       *)
LEMMA StreamEmpty == Stream(<<>>) = <<>>
<1>1. <<>> \in Seq(Seq(Nat)) /\ Len(<<>>) = 0
  BY EmptySeq
<1>2. PICK v : Rows(v, Nat, <<>>) /\ Stream(<<>>) = v[Len(<<>>)]
  BY <1>1, StreamFacts
<1> QED
  BY <1>1, <1>2 DEF Rows

(* Frames in a row are bytes.                                               *)
LEMMA StreamTyped ==
  ASSUME NEW S, NEW seqs \in Seq(Seq(S))
  PROVE  Stream(seqs) \in Seq(S)
<1>1. PICK v : Rows(v, S, seqs) /\ Stream(seqs) = v[Len(seqs)]
  BY StreamFacts
<1>2. Len(seqs) \in 0..Len(seqs)
  BY LenProperties
<1> QED
  BY <1>1, <1>2 DEF Rows

(* One more sequence comes after the others.                                *)
LEMMA StreamAppend ==
  ASSUME NEW S, NEW seqs \in Seq(Seq(S)), NEW s \in Seq(S)
  PROVE  Stream(Append(seqs, s)) = Stream(seqs) \o s
<1> DEFINE n == Len(seqs)
           more == Append(seqs, s)
<1>0. /\ n \in Nat /\ more \in Seq(Seq(S)) /\ Len(more) = n + 1
      /\ more[n + 1] = s /\ \A i \in 1..n : more[i] = seqs[i]
  BY LenProperties, AppendProperties
<1> HIDE DEF more
<1>1. PICK v : Rows(v, S, seqs) /\ Stream(seqs) = v[n]
  BY StreamFacts
<1>2. PICK w : Rows(w, S, more) /\ Stream(more) = w[n + 1]
  BY <1>0, StreamFacts
<1> DEFINE T == {i \in Nat : i <= n => v[i] = w[i]}
<1>3. 0 \in T
  BY <1>1, <1>2 DEF Rows
<1>4. ASSUME NEW i \in Nat, i \in T PROVE i + 1 \in T
  <2> SUFFICES ASSUME i + 1 <= n PROVE v[i + 1] = w[i + 1]
    OBVIOUS
  <2>1. i + 1 \in 1..n /\ i + 1 \in 1..n + 1 /\ (i + 1) - 1 = i /\ i <= n
    BY <1>0
  <2>2. v[i + 1] = v[i] \o seqs[i + 1]
    BY <1>1, <2>1 DEF Rows
  <2>3. w[i + 1] = w[i] \o more[i + 1]
    BY <1>0, <1>2, <2>1 DEF Rows
  <2>4. more[i + 1] = seqs[i + 1] /\ v[i] = w[i]
    BY <1>0, <1>4, <2>1
  <2> QED
    BY <2>2, <2>3, <2>4
<1> HIDE DEF T
<1>5. n \in T
  BY <1>0, <1>3, <1>4, NatSet
<1>6. v[n] = w[n]
  BY <1>0, <1>5 DEF T
<1>7. w[n + 1] = w[n] \o more[n + 1]
  <2>1. n + 1 \in 1..n + 1 /\ (n + 1) - 1 = n
    BY <1>0
  <2> QED
    BY <1>0, <1>2, <2>1 DEF Rows
<1> QED
  BY <1>0, <1>1, <1>2, <1>6, <1>7 DEF more

(* The first of them comes first.                                           *)
LEMMA StreamHead ==
  ASSUME NEW S, NEW seqs \in Seq(Seq(S)), seqs # <<>>
  PROVE  Stream(seqs) = Head(seqs) \o Stream(Tail(seqs))
<1> DEFINE n == Len(seqs) - 1
           rest == Tail(seqs)
           head == seqs[1]
<1>0. /\ n \in Nat /\ Len(seqs) = n + 1 /\ rest \in Seq(Seq(S)) /\ Len(rest) = n
      /\ Head(seqs) = head /\ head \in Seq(S) /\ \A i \in 1..n : rest[i] = seqs[i + 1]
  BY LenProperties, EmptySeq, HeadTailProperties
<1> HIDE DEF rest, head, n
<1>1. PICK v : Rows(v, S, seqs) /\ Stream(seqs) = v[n + 1]
  BY <1>0, StreamFacts
<1>2. PICK w : Rows(w, S, rest) /\ Stream(rest) = w[n]
  BY <1>0, StreamFacts
<1> DEFINE T == {i \in Nat : i <= n => v[i + 1] = head \o w[i]}
<1>3. 0 \in T
  <2>1. 1 \in 1..n + 1 /\ 1 - 1 = 0
    BY <1>0
  <2>2. v[1] = <<>> \o head /\ w[0] = <<>>
    <3>1. v[1] = v[1 - 1] \o seqs[1] /\ v[0] = <<>> /\ w[0] = <<>>
      BY <1>0, <1>1, <1>2, <2>1 DEF Rows
    <3> QED
      BY <2>1, <3>1 DEF head
  <2>3. v[1] = head \o <<>>
    BY <1>0, <2>2, ConcatEmptySeq
  <2>4. 0 \in Nat /\ 0 + 1 = 1
    OBVIOUS
  <2> QED
    BY <2>2, <2>3, <2>4
<1>4. ASSUME NEW i \in Nat, i \in T PROVE i + 1 \in T
  <2> SUFFICES ASSUME i + 1 <= n PROVE v[(i + 1) + 1] = head \o w[i + 1]
    OBVIOUS
  <2> DEFINE k == i + 1
             a == w[i]
             b == rest[k]
  <2>1. k \in 1..n /\ k + 1 \in 1..n + 1 /\ (k + 1) - 1 = k /\ k - 1 = i /\ i <= n /\ i \in 0..n
    BY <1>0
  <2>2. v[k + 1] = v[k] \o seqs[k + 1]
    BY <1>0, <1>1, <2>1 DEF Rows
  <2>3. w[k] = a \o b /\ a \in Seq(S)
    BY <1>0, <1>2, <2>1 DEF Rows
  <2>4. seqs[k + 1] = b /\ v[k] = head \o a /\ b \in Seq(S)
    <3>1. seqs[k + 1] = b
      BY <1>0, <2>1
    <3>2. v[k] = head \o a
      BY <1>4, <2>1
    <3>3. b \in Seq(S)
      <4>1. k \in 1..Len(rest)
        BY <1>0, <2>1
      <4> QED
        BY <1>0, <4>1, ElementOfSeq
    <3> QED
      BY <3>1, <3>2, <3>3
  <2> HIDE DEF a, b, k
  <2>5. (head \o a) \o b = head \o (a \o b)
    <3>1. head \in Seq(S) /\ a \in Seq(S) /\ b \in Seq(S)
      BY <1>0, <2>3, <2>4
    <3> QED
      BY <3>1
  <2>6. v[k + 1] = head \o w[k]
    BY <2>2, <2>3, <2>4, <2>5
  <2> QED
    BY <2>6 DEF k
<1> HIDE DEF T
<1>5. n \in T
  BY <1>0, <1>3, <1>4, NatSet
<1>6. v[n + 1] = head \o w[n]
  BY <1>0, <1>5 DEF T
<1> QED
  BY <1>0, <1>1, <1>2, <1>6 DEF rest

----------------------------------------------------------------------------
(* What a byte can be: a number, a part of a message, a part of a checksum. *)
Plain == Nat \cup Callers \cup Outcomes
Bytes == Plain \cup UNION {{Checksum(s)[i] : i \in 1..IntLen} : s \in Seq(Plain)}

Messages == [type : {REQUEST, RESPONSE}, id : Nat, body : Outcomes, from : Callers]

(* The length field of a frame, its tag and message, its checksum.          *)
Framed(len, body, sum) == HostToNetwork(len, IntLen) \o (body \o sum)

(* The length of a message's frame, as its length field has it.             *)
Size == Len(Tag) + 4 + IntLen

RpcFrame(m) == Content(FillEmptyBuffer(m))

(* What the assumptions on the constants come to.                           *)
LEMMA Constants ==
  /\ IntLen \in Nat /\ IntLen > 0 /\ Len(Tag) \in Nat /\ Size \in Nat /\ MaxMessageLen \in Nat
  /\ Size = Len(Tag) + 4 + IntLen /\ Size <= MaxMessageLen /\ MinMessageLen = Len(Tag) + IntLen
  /\ 2 * (MaxMessageLen + 1) <= Power[IntLen] /\ Power[IntLen] \in Nat \ {0}
  /\ Tag \in Seq(Bytes) /\ Tag \in Seq(Plain) /\ 0 \in Bytes
<1>1. Len(Tag) \in Nat /\ IntLen \in Nat /\ IntLen > 0
  BY CodecAssumption, LenProperties
<1>2. Power[IntLen] \in Nat \ {0}
  BY <1>1, PowerFacts
<1>3. Tag \in Seq(Bytes) /\ Tag \in Seq(Plain)
  BY CodecAssumption DEF Bytes, Plain
<1> QED
  BY <1>1, <1>2, <1>3, CodecAssumption, RpcAssumption DEF Size, MinMessageLen, Bytes, Plain

(* A checksum fills its field.                                              *)
LEMMA ChecksumFacts ==
  ASSUME NEW s \in Seq(Plain)
  PROVE  Checksum(s) \in Seq(Bytes) /\ Len(Checksum(s)) = IntLen
<1> DEFINE sum == Adler32(s)
           digit(i) == ((sum % Power[IntLen]) \div Power[IntLen - i]) % ByteBase
<1>1. Checksum(s) = [i \in 1..IntLen |-> digit(i)]
  BY DEF Checksum, HostToNetwork
<1> HIDE DEF digit
<1>2. \A i \in 1..IntLen : Checksum(s)[i] = digit(i)
  BY <1>1
<1>3. \A i \in 1..IntLen : digit(i) \in Bytes
  BY <1>2 DEF Bytes
<1> QED
  BY <1>1, <1>3, Constants

(* A message as bytes, and back.                                            *)
LEMMA SerializeFacts ==
  ASSUME NEW m \in Messages
  PROVE  /\ Serialize(m) \in Seq(Plain) /\ Len(Serialize(m)) = 4 /\ Serialize(m)[1] > 0
         /\ m = [type |-> Serialize(m)[1], id |-> Serialize(m)[2], body |-> Serialize(m)[3],
                 from |-> Serialize(m)[4]]
  BY DEF Serialize, Messages, Plain, REQUEST, RESPONSE

(* A length fills its field.                                                *)
LEMMA HeaderFacts ==
  ASSUME NEW len \in Int
  PROVE  HostToNetwork(len, IntLen) \in Seq(Bytes) /\ Len(HostToNetwork(len, IntLen)) = IntLen
<1>1. HostToNetwork(len, IntLen) \in Seq(Nat) /\ Len(HostToNetwork(len, IntLen)) = IntLen
  BY Constants, DigitsReadBack
<1>2. Nat \subseteq Bytes
  BY DEF Bytes, Plain
<1> QED
  BY <1>1, <1>2

----------------------------------------------------------------------------
(* Making room leaves the reserve in front.                                 *)
LEMMA ReserveIsKept ==
  ASSUME NEW S, NEW b, Sound(b, S), NEW data, NEW len, CheapPrepend <= b.r
  PROVE  /\ CheapPrepend <= EnsureWritableBytes(b, len).r
         /\ Written(b, data).r = b.r
  BY BufferAssumption DEF EnsureWritableBytes, MakeSpace, MovedToFront, Written, HasWritten, Sound

(* append() also leaves the reserve in front.                               *)
LEMMA AppendFacts ==
  ASSUME NEW S, 0 \in S, NEW b, Sound(b, S), CheapPrepend <= b.r, NEW data \in Seq(S)
  PROVE  /\ Sound(Append1(b, data), S) /\ CheapPrepend <= Append1(b, data).r
         /\ Content(Append1(b, data)) = Content(b) \o data
<1> DEFINE c == EnsureWritableBytes(b, Len(data))
<1>1. Len(data) \in Nat
  BY LenProperties
<1>2. Sound(c, S) /\ CheapPrepend <= c.r
  BY <1>1, SpaceIsMade, ReserveIsKept
<1>3. Append1(b, data) = Written(c, data)
  BY DEF Append1
<1> HIDE DEF c
<1>4. Written(c, data).r = c.r
  BY <1>2, ReserveIsKept
<1> QED
  BY <1>2, <1>3, <1>4, AppendKeepsContent

(* What fillEmptyBuffer() puts together: the length field lands in front,   *)
(* whatever the sizes of the buffer.                                        *)
LEMMA FrameFacts ==
  ASSUME NEW m \in Messages
  PROVE  RpcFrame(m) = Framed(Size, Tag \o Serialize(m), Checksum(Tag \o Serialize(m)))
<1> DEFINE ser == Serialize(m)
           new == NewBuffer
           tagged == Append1(new, Tag)
           room == EnsureWritableBytes(tagged, Len(ser) + IntLen)
           full == Written(room, ser)
           sum == Checksum(Content(full))
           summed == Append1(full, sum)
           head == HostToNetwork(Readable(summed), IntLen)
<1>1. RpcFrame(m) = Content(Prepend(summed, head))
  BY DEF RpcFrame, FillEmptyBuffer, PrependInt
<1>2. /\ ser \in Seq(Plain) /\ ser \in Seq(Bytes) /\ Len(ser) = 4 /\ Len(ser) + IntLen \in Nat
      /\ IntLen \in Nat /\ Tag \in Seq(Bytes) /\ Tag \in Seq(Plain) /\ 0 \in Bytes /\ Len(Tag) \in Nat
  <2>1. ser \in Seq(Plain) /\ Len(ser) = 4
    BY SerializeFacts
  <2>2. Plain \subseteq Bytes
    BY DEF Bytes
  <2> HIDE DEF ser
  <2>3. ser \in Seq(Bytes)
    BY <2>1, <2>2
  <2> QED
    BY <2>1, <2>3, Constants
<1> HIDE DEF ser
<1>3. Sound(new, Bytes) /\ Content(new) = <<>> /\ CheapPrepend <= new.r
  BY <1>2, NewBufferFacts, BufferAssumption
<1> HIDE DEF new
<1>4. Sound(tagged, Bytes) /\ Content(tagged) = Tag /\ CheapPrepend <= tagged.r
  <2>1. Sound(tagged, Bytes) /\ Content(tagged) = <<>> \o Tag /\ CheapPrepend <= tagged.r
    BY <1>2, <1>3, AppendFacts
  <2> QED
    BY <1>2, <2>1, ConcatEmptySeq
<1> HIDE DEF tagged
<1>5. /\ Sound(room, Bytes) /\ Content(room) = Tag /\ Len(ser) + IntLen <= Writable(room)
      /\ CheapPrepend <= room.r
  <2> DEFINE k == Len(ser) + IntLen
  <2>1. k \in Nat
    BY <1>2
  <2> HIDE DEF k
  <2>2. /\ Sound(EnsureWritableBytes(tagged, k), Bytes)
        /\ k <= Writable(EnsureWritableBytes(tagged, k))
        /\ Content(EnsureWritableBytes(tagged, k)) = Content(tagged)
    BY <1>2, <1>4, <2>1, SpaceIsMade
  <2>3. CheapPrepend <= EnsureWritableBytes(tagged, k).r
    BY <1>4, ReserveIsKept
  <2> QED
    BY <1>4, <2>2, <2>3 DEF k
<1> HIDE DEF room
<1>6. Sound(full, Bytes) /\ Content(full) = Tag \o ser /\ CheapPrepend <= full.r
  <2>1. Len(ser) <= Writable(room)
    BY <1>2, <1>5 DEF Writable, Sound
  <2>2. Sound(full, Bytes) /\ Content(full) = Tag \o ser
    BY <1>2, <1>5, <2>1, WrittenFacts
  <2>3. full.r = room.r
    BY <1>5, ReserveIsKept
  <2> QED
    BY <1>5, <2>2, <2>3
<1> HIDE DEF full
<1> DEFINE body == Tag \o ser
<1>7. /\ body \in Seq(Plain) /\ body \in Seq(Bytes) /\ Len(body) = Len(Tag) + 4
  <2>1. Tag \in Seq(Plain) /\ ser \in Seq(Plain)
    BY <1>2
  <2>2. body \in Seq(Plain) /\ Len(body) = Len(Tag) + Len(ser)
    BY <2>1, ConcatProperties
  <2>3. Tag \in Seq(Bytes) /\ ser \in Seq(Bytes)
    BY <1>2
  <2>4. body \in Seq(Bytes)
    BY <2>3, ConcatProperties
  <2> QED
    BY <1>2, <2>2, <2>4
<1>8. sum = Checksum(body) /\ sum \in Seq(Bytes) /\ Len(sum) = IntLen
  <2> HIDE DEF body
  <2> QED
    BY <1>6, <1>7, ChecksumFacts DEF body
<1> HIDE DEF sum
<1>9. Sound(summed, Bytes) /\ Content(summed) = body \o sum /\ CheapPrepend <= summed.r
  BY <1>2, <1>6, <1>8, AppendFacts
<1> HIDE DEF summed, body
<1>10. Readable(summed) = Size
  <2>0. body \in Seq(Bytes) /\ sum \in Seq(Bytes)
    BY <1>7, <1>8
  <2>1. Len(body \o sum) = Len(body) + Len(sum)
    BY <2>0, ConcatProperties
  <2>2. Len(Content(summed)) = Readable(summed)
    BY <1>9, ContentFacts DEF Readable
  <2> QED
    BY <1>2, <1>7, <1>8, <1>9, <2>1, <2>2 DEF Size
<1>11. head \in Seq(Bytes) /\ Len(head) = IntLen
  BY <1>10, HeaderFacts, Constants
<1>12. Len(head) <= Prependable(summed)
  BY <1>9, <1>11, CodecAssumption, BufferAssumption DEF Prependable, Sound
<1>13. head = HostToNetwork(Size, IntLen)
  BY <1>10
<1> HIDE DEF head
<1>14. Content(Prepend(summed, head)) = head \o Content(summed)
  BY <1>9, <1>11, <1>12, PrependKeepsContent
<1> QED
  BY <1>1, <1>8, <1>9, <1>13, <1>14 DEF Framed, body, ser

----------------------------------------------------------------------------
(* A part of a sequence, known byte for byte.                               *)
LEMMA Slice ==
  ASSUME NEW S, NEW c \in Seq(S), NEW d \in Seq(S), NEW k \in Nat, NEW n \in Nat,
         n = k + Len(d), n <= Len(c), \A i \in 1..Len(d) : c[k + i] = d[i]
  PROVE  SubSeq(c, k + 1, n) = d
<1>1. Len(d) \in Nat /\ k <= n /\ n - k = Len(d)
  BY LenProperties
<1>2. /\ SubSeq(c, k + 1, n) \in Seq(S) /\ Len(SubSeq(c, k + 1, n)) = n - k
      /\ \A i \in 1..n - k : SubSeq(c, k + 1, n)[i] = c[k + i]
  BY <1>1, PartFacts
<1> DEFINE p == SubSeq(c, k + 1, n)
<1>3. p \in Seq(S) /\ Len(p) = Len(d) /\ \A i \in 1..Len(p) : p[i] = d[i]
  BY <1>1, <1>2
<1> HIDE DEF p
<1>4. p = d
  BY <1>3, SeqEqual
<1> QED
  BY <1>4 DEF p

(* Two ways to cut the same bytes.                                          *)
Recut(c, w, f, r) == c \o w = f \o r

(* They agree where both have a first part.                                 *)
LEMMA SameStart ==
  ASSUME NEW S, NEW c \in Seq(S), NEW w \in Seq(S), NEW f \in Seq(S), NEW r \in Seq(S),
         Recut(c, w, f, r)
  PROVE  /\ \A i \in 1..Len(c) : i <= Len(f) => c[i] = f[i]
         /\ Len(c) + Len(w) = Len(f) + Len(r)
         /\ \A i \in 1..Len(c) : Len(f) < i => c[i] = r[i - Len(f)]
         /\ \A i \in 1..Len(w) : Len(f) <= Len(c) => w[i] = r[Len(c) + i - Len(f)]
<1>1. Len(c) \in Nat /\ Len(w) \in Nat /\ Len(f) \in Nat /\ Len(r) \in Nat
  BY LenProperties
<1>2. /\ Len(c \o w) = Len(c) + Len(w)
      /\ \A i \in 1..Len(c) + Len(w) : (c \o w)[i] = IF i <= Len(c) THEN c[i] ELSE w[i - Len(c)]
  BY ConcatProperties
<1>3. /\ Len(f \o r) = Len(f) + Len(r)
      /\ \A i \in 1..Len(f) + Len(r) : (f \o r)[i] = IF i <= Len(f) THEN f[i] ELSE r[i - Len(f)]
  BY ConcatProperties
<1>4. Len(c) + Len(w) = Len(f) + Len(r)
  BY <1>2, <1>3 DEF Recut
<1>5. \A i \in 1..Len(c) + Len(w) :
        (IF i <= Len(c) THEN c[i] ELSE w[i - Len(c)]) = (IF i <= Len(f) THEN f[i] ELSE r[i - Len(f)])
  <2> DEFINE x == c \o w
  <2>1. \A i \in 1..Len(c) + Len(w) : x[i] = IF i <= Len(c) THEN c[i] ELSE w[i - Len(c)]
    BY <1>2
  <2>2. \A i \in 1..Len(c) + Len(w) : x[i] = IF i <= Len(f) THEN f[i] ELSE r[i - Len(f)]
    BY <1>3, <1>4 DEF Recut
  <2> HIDE DEF x
  <2> QED
    BY <2>1, <2>2
<1>6. ASSUME NEW i \in 1..Len(c) PROVE i \in 1..Len(c) + Len(w) /\ i <= Len(c)
  BY <1>1
<1>7. ASSUME NEW i \in 1..Len(c), i <= Len(f) PROVE c[i] = f[i]
  BY <1>5, <1>6, <1>7
<1>8. ASSUME NEW i \in 1..Len(c), Len(f) < i PROVE c[i] = r[i - Len(f)]
  <2>1. ~(i <= Len(f))
    BY <1>1, <1>8
  <2> QED
    BY <1>5, <1>6, <2>1
<1>9. ASSUME NEW i \in 1..Len(w), Len(f) <= Len(c) PROVE w[i] = r[Len(c) + i - Len(f)]
  <2> DEFINE k == Len(c) + i
  <2>1. k \in 1..Len(c) + Len(w) /\ ~(k <= Len(c)) /\ ~(k <= Len(f)) /\ k - Len(c) = i
    BY <1>1, <1>9
  <2> HIDE DEF k
  <2>2. w[k - Len(c)] = r[k - Len(f)]
    BY <1>5, <2>1
  <2> QED
    BY <2>1, <2>2 DEF k
<1> QED
  BY <1>4, <1>7, <1>8, <1>9

(* d is what c has after f.                                                 *)
IsRest(d, c, f) ==
  /\ Len(f) <= Len(c) /\ Len(d) = Len(c) - Len(f)
  /\ \A i \in 1..Len(d) : d[i] = c[Len(f) + i]

(* The rest of what is left after the first part was taken.                 *)
LEMMA RestOfStream ==
  ASSUME NEW S, NEW c \in Seq(S), NEW w \in Seq(S), NEW f \in Seq(S), NEW r \in Seq(S),
         NEW d \in Seq(S), Recut(c, w, f, r), IsRest(d, c, f)
  PROVE  d \o w = r
<1>1. Len(c) \in Nat /\ Len(w) \in Nat /\ Len(f) \in Nat /\ Len(r) \in Nat
  BY LenProperties
<1>0. /\ Len(f) <= Len(c) /\ Len(d) = Len(c) - Len(f)
      /\ \A i \in 1..Len(d) : d[i] = c[Len(f) + i]
  BY DEF IsRest
<1>2. /\ Len(c) + Len(w) = Len(f) + Len(r)
      /\ \A i \in 1..Len(c) : Len(f) < i => c[i] = r[i - Len(f)]
      /\ \A i \in 1..Len(w) : w[i] = r[Len(c) + i - Len(f)]
  <2>1. /\ \A i \in 1..Len(c) : i <= Len(f) => c[i] = f[i]
        /\ Len(c) + Len(w) = Len(f) + Len(r)
        /\ \A i \in 1..Len(c) : Len(f) < i => c[i] = r[i - Len(f)]
        /\ \A i \in 1..Len(w) : Len(f) <= Len(c) => w[i] = r[Len(c) + i - Len(f)]
    BY SameStart
  <2> QED
    BY <1>0, <2>1
<1>3. /\ d \o w \in Seq(S) /\ Len(d \o w) = Len(d) + Len(w)
      /\ \A i \in 1..Len(d) + Len(w) : (d \o w)[i] = IF i <= Len(d) THEN d[i] ELSE w[i - Len(d)]
  BY ConcatProperties
<1>4. Len(d) + Len(w) = Len(r) /\ Len(d) \in Nat
  BY <1>0, <1>1, <1>2
<1>5. ASSUME NEW i \in 1..Len(r) PROVE (d \o w)[i] = r[i]
  <2>1. (d \o w)[i] = IF i <= Len(d) THEN d[i] ELSE w[i - Len(d)]
    BY <1>3, <1>4
  <2>2. CASE i <= Len(d)
    <3> DEFINE k == Len(f) + i
    <3>1. k \in 1..Len(c) /\ Len(f) < k /\ k - Len(f) = i /\ i \in 1..Len(d)
      BY <1>0, <1>1, <1>4, <2>2
    <3>2. d[i] = c[k]
      BY <1>0, <3>1
    <3> HIDE DEF k
    <3>3. c[k] = r[k - Len(f)]
      BY <1>2, <3>1
    <3> QED
      BY <2>1, <2>2, <3>1, <3>2, <3>3
  <2>3. CASE ~(i <= Len(d))
    <3> DEFINE k == i - Len(d)
    <3>1. k \in 1..Len(w) /\ Len(c) + k - Len(f) = i
      BY <1>0, <1>1, <1>4, <2>3
    <3>2. (d \o w)[i] = w[k]
      BY <2>1, <2>3
    <3> HIDE DEF k
    <3>3. w[k] = r[Len(c) + k - Len(f)]
      BY <1>2, <3>1
    <3> QED
      BY <3>1, <3>2, <3>3
  <2> QED
    BY <2>2, <2>3
<1> DEFINE x == d \o w
<1>6. x \in Seq(S) /\ Len(x) = Len(r) /\ \A i \in 1..Len(x) : x[i] = r[i]
  BY <1>3, <1>4, <1>5
<1> HIDE DEF x
<1>7. x = r
  BY <1>6, SeqEqual
<1> QED
  BY <1>7 DEF x

(* The bytes of a frame.                                                    *)
LEMMA FramedFacts ==
  ASSUME NEW len \in Int, NEW body \in Seq(Bytes), NEW sum \in Seq(Bytes),
         Len(body) = Len(Tag) + 4, Len(sum) = IntLen
  PROVE  /\ Framed(len, body, sum) \in Seq(Bytes) /\ Len(Framed(len, body, sum)) = IntLen + Size
         /\ \A i \in 1..IntLen : Framed(len, body, sum)[i] = HostToNetwork(len, IntLen)[i]
         /\ \A i \in 1..Size : Framed(len, body, sum)[IntLen + i] = (body \o sum)[i]
         /\ body \o sum \in Seq(Bytes) /\ Len(body \o sum) = Size
         /\ \A i \in 1..Len(Tag) + 4 : (body \o sum)[i] = body[i]
         /\ \A i \in 1..IntLen : (body \o sum)[Len(Tag) + 4 + i] = sum[i]
<1> DEFINE h == HostToNetwork(len, IntLen)
           t == body \o sum
           f == Framed(len, body, sum)
<1>0. IntLen \in Nat /\ Len(Tag) \in Nat /\ Size \in Nat /\ Size = Len(Tag) + 4 + IntLen
  BY Constants
<1>1. h \in Seq(Bytes) /\ Len(h) = IntLen
  BY HeaderFacts
<1>2. /\ t \in Seq(Bytes) /\ Len(t) = Len(body) + Len(sum)
      /\ \A i \in 1..Len(body) + Len(sum) : t[i] = IF i <= Len(body) THEN body[i] ELSE sum[i - Len(body)]
  BY ConcatProperties
<1>3. f = h \o t
  BY DEF Framed
<1>4. \A i \in 1..Len(Tag) + 4 : t[i] = body[i]
  BY <1>0, <1>2
<1>5. ASSUME NEW i \in 1..IntLen PROVE t[Len(Tag) + 4 + i] = sum[i]
  <2> DEFINE k == Len(Tag) + 4 + i
  <2>1. k \in 1..Len(body) + Len(sum) /\ ~(k <= Len(body)) /\ k - Len(body) = i
    BY <1>0
  <2> HIDE DEF k
  <2>2. t[k] = sum[k - Len(body)]
    BY <1>2, <2>1
  <2> QED
    BY <2>1, <2>2 DEF k
<1> HIDE DEF h, t, f
<1>6. /\ f \in Seq(Bytes) /\ Len(f) = Len(h) + Len(t)
      /\ \A i \in 1..Len(h) + Len(t) : f[i] = IF i <= Len(h) THEN h[i] ELSE t[i - Len(h)]
  <2>1. h \in Seq(Bytes) /\ t \in Seq(Bytes)
    BY <1>1, <1>2
  <2>2. /\ h \o t \in Seq(Bytes) /\ Len(h \o t) = Len(h) + Len(t)
        /\ \A i \in 1..Len(h) + Len(t) : (h \o t)[i] = IF i <= Len(h) THEN h[i] ELSE t[i - Len(h)]
    BY <2>1, ConcatProperties
  <2> QED
    BY <1>3, <2>2
<1>7. Len(t) = Size /\ Len(f) = IntLen + Size
  BY <1>0, <1>1, <1>2, <1>6
<1>8. \A i \in 1..IntLen : f[i] = h[i]
  BY <1>0, <1>1, <1>6, <1>7
<1>9. ASSUME NEW i \in 1..Size PROVE f[IntLen + i] = t[i]
  <2> DEFINE k == IntLen + i
  <2>1. k \in 1..Len(h) + Len(t) /\ ~(k <= Len(h)) /\ k - Len(h) = i
    BY <1>0, <1>1, <1>7
  <2> HIDE DEF k
  <2>2. f[k] = t[k - Len(h)]
    BY <1>6, <2>1
  <2> QED
    BY <2>1, <2>2 DEF k
<1> QED
  BY <1>2, <1>4, <1>5, <1>6, <1>7, <1>8, <1>9 DEF h, t, f

(* What the buffer shows of a frame that its content begins with.           *)
Shows(b, len, body, sum) ==
  /\ IntLen <= Readable(b) => PeekInt(b, IntLen) = NetworkToHost(HostToNetwork(len, IntLen))
  /\ IntLen + Size <= Readable(b) =>
       /\ SubSeq(Content(b), IntLen + 1, IntLen + Size) = body \o sum
       /\ \A i \in 1..Len(Tag) + 4 : Content(b)[IntLen + i] = body[i]

(* A content that begins with a frame shows it.                             *)
LEMMA StartOfFrame ==
  ASSUME NEW b, Sound(b, Bytes), NEW w \in Seq(Bytes), NEW rest \in Seq(Bytes),
         NEW len \in Int, NEW body \in Seq(Bytes), NEW sum \in Seq(Bytes),
         Len(body) = Len(Tag) + 4, Len(sum) = IntLen,
         Recut(Content(b), w, Framed(len, body, sum), rest)
  PROVE  Shows(b, len, body, sum)
<1> DEFINE c == Content(b)
           f == Framed(len, body, sum)
           h == HostToNetwork(len, IntLen)
           t == body \o sum
<1>0. IntLen \in Nat /\ Len(Tag) \in Nat /\ Size \in Nat /\ Size = Len(Tag) + 4 + IntLen
  BY Constants
<1>1. c \in Seq(Bytes) /\ Len(c) = Readable(b) /\ Len(c) \in Nat
  BY ContentFacts, LenProperties DEF Readable
<1>2. /\ f \in Seq(Bytes) /\ Len(f) = IntLen + Size
      /\ \A i \in 1..IntLen : f[i] = h[i]
      /\ \A i \in 1..Size : f[IntLen + i] = t[i]
      /\ t \in Seq(Bytes) /\ Len(t) = Size
      /\ \A i \in 1..Len(Tag) + 4 : t[i] = body[i]
  BY FramedFacts
<1>3. h \in Seq(Bytes) /\ Len(h) = IntLen
  BY HeaderFacts
<1> HIDE DEF c, f, h, t
<1>4. \A i \in 1..Len(c) : i <= Len(f) => c[i] = f[i]
  <2>1. Recut(c, w, f, rest)
    BY DEF c, f
  <2>2. c \in Seq(Bytes) /\ f \in Seq(Bytes)
    BY <1>1, <1>2
  <2>3. /\ \A i \in 1..Len(c) : i <= Len(f) => c[i] = f[i]
        /\ Len(c) + Len(w) = Len(f) + Len(rest)
        /\ \A i \in 1..Len(c) : Len(f) < i => c[i] = rest[i - Len(f)]
        /\ \A i \in 1..Len(w) : Len(f) <= Len(c) => w[i] = rest[Len(c) + i - Len(f)]
    BY <2>1, <2>2, SameStart
  <2> QED
    BY <2>3
<1>5. ASSUME IntLen <= Readable(b) PROVE PeekInt(b, IntLen) = NetworkToHost(h)
  <2>1. \A i \in 1..Len(h) : c[0 + i] = h[i]
    BY <1>0, <1>1, <1>2, <1>3, <1>4, <1>5
  <2> DEFINE k == 0
             n == IntLen
  <2>2. k \in Nat /\ n \in Nat /\ n = k + Len(h) /\ n <= Len(c) /\ \A i \in 1..Len(h) : c[k + i] = h[i]
    BY <1>0, <1>1, <1>3, <1>5, <2>1
  <2> HIDE DEF k, n
  <2>3. SubSeq(c, k + 1, n) = h
    BY <1>1, <1>3, <2>2, Slice
  <2>4. SubSeq(c, 1, IntLen) = h
    BY <2>3 DEF k, n
  <2> QED
    BY <2>4 DEF PeekInt, c
<1>6. ASSUME IntLen + Size <= Readable(b)
      PROVE  /\ SubSeq(c, IntLen + 1, IntLen + Size) = t
             /\ \A i \in 1..Len(Tag) + 4 : c[IntLen + i] = body[i]
  <2>1. \A i \in 1..Size : IntLen + i \in 1..Len(c) /\ IntLen + i <= Len(f)
    BY <1>0, <1>1, <1>2, <1>6
  <2>2. \A i \in 1..Size : c[IntLen + i] = t[i]
    BY <1>2, <1>4, <2>1
  <2> DEFINE k == IntLen
             n == IntLen + Size
  <2>3. k \in Nat /\ n \in Nat /\ n = k + Len(t) /\ n <= Len(c) /\ \A i \in 1..Len(t) : c[k + i] = t[i]
    BY <1>0, <1>1, <1>2, <1>6, <2>2
  <2> HIDE DEF k, n
  <2>4. SubSeq(c, k + 1, n) = t
    BY <1>1, <1>2, <2>3, Slice
  <2>5. \A i \in 1..Len(Tag) + 4 : i \in 1..Size
    BY <1>0
  <2> QED
    BY <1>2, <2>2, <2>4, <2>5 DEF k, n
<1> QED
  BY <1>5, <1>6 DEF Shows, c, h, t

(* What parse() sees of a frame's body.                                     *)
LEMMA PartsOfBody ==
  ASSUME NEW body \in Seq(Bytes), NEW sum \in Seq(Bytes), Len(body) = Len(Tag) + 4, Len(sum) = IntLen
  PROVE  /\ Checked(body \o sum) <=> sum = Checksum(body)
         /\ SubSeq(body \o sum, Len(Tag) + 1, Len(body \o sum) - IntLen) = SubSeq(body, Len(Tag) + 1, Len(Tag) + 4)
         /\ SubSeq(body \o sum, 1, Len(Tag)) = SubSeq(body, 1, Len(Tag))
<1> DEFINE t == body \o sum
           n == Len(Tag) + 4
           g == Len(Tag)
           z == Len(t)
<1>0. IntLen \in Nat /\ g \in Nat /\ n \in Nat /\ n = g + 4
  BY Constants
<1>1. /\ t \in Seq(Bytes) /\ z = n + IntLen
      /\ \A i \in 1..n : t[i] = body[i]
      /\ \A i \in 1..IntLen : t[n + i] = sum[i]
  <2>1. 0 \in Int
    OBVIOUS
  <2>2. /\ body \o sum \in Seq(Bytes) /\ Len(body \o sum) = Size
        /\ \A i \in 1..Len(Tag) + 4 : (body \o sum)[i] = body[i]
        /\ \A i \in 1..IntLen : (body \o sum)[Len(Tag) + 4 + i] = sum[i]
    BY <2>1, FramedFacts
  <2> QED
    BY <2>2 DEF Size
<1>2. Len(body) = n /\ n <= z /\ z \in Nat
  BY <1>0, <1>1
<1>3. Checked(t) <=> SubSeq(t, z - IntLen + 1, z) = Checksum(SubSeq(t, 1, z - IntLen))
  BY DEF Checked
<1>4. z - IntLen = n
  BY <1>0, <1>1
<1> HIDE DEF t, n, g, z
<1>5. SubSeq(t, n + 1, z) = sum
  <2>1. n \in Nat /\ z \in Nat /\ z = n + Len(sum) /\ z <= Len(t) /\ \A i \in 1..Len(sum) : t[n + i] = sum[i]
    BY <1>0, <1>1, <1>2 DEF z
  <2> QED
    BY <1>1, <2>1, Slice
<1>6. SubSeq(t, 1, n) = body
  <2> DEFINE k == 0
  <2>1. /\ k \in Nat /\ n \in Nat /\ n = k + Len(body) /\ n <= Len(t)
        /\ \A i \in 1..Len(body) : t[k + i] = body[i]
    BY <1>0, <1>1, <1>2 DEF z
  <2>2. k + 1 = 1
    OBVIOUS
  <2> HIDE DEF k
  <2>3. SubSeq(t, k + 1, n) = body
    BY <1>1, <2>1, Slice
  <2> QED
    BY <2>2, <2>3
<1>7. SubSeq(t, g + 1, n) = SubSeq(body, g + 1, n)
  <2> DEFINE p == SubSeq(body, g + 1, n)
  <2>1. g <= n /\ n <= Len(body)
    BY <1>0, <1>2
  <2>2. p \in Seq(Bytes) /\ Len(p) = n - g /\ \A i \in 1..n - g : p[i] = body[g + i]
    BY <1>0, <2>1, PartFacts
  <2> HIDE DEF p
  <2>3. /\ n = g + Len(p) /\ n <= Len(t)
        /\ \A i \in 1..Len(p) : t[g + i] = p[i]
    BY <1>0, <1>1, <1>2, <2>2 DEF z
  <2>4. SubSeq(t, g + 1, n) = p
    BY <1>0, <1>1, <2>2, <2>3, Slice
  <2> QED
    BY <2>4 DEF p
<1>8. SubSeq(t, 1, g) = SubSeq(body, 1, g)
  <2> DEFINE k == 0
             p == SubSeq(body, k + 1, g)
  <2>0. k + 1 = 1 /\ g - k = g
    BY <1>0
  <2>1. k <= g /\ g <= Len(body) /\ k \in Nat
    BY <1>0, <1>2
  <2> HIDE DEF k
  <2>2. p \in Seq(Bytes) /\ Len(p) = g - k /\ \A i \in 1..g - k : p[i] = body[k + i]
    BY <1>0, <2>1, PartFacts
  <2> HIDE DEF p
  <2>3. /\ g = k + Len(p) /\ g <= Len(t)
        /\ \A i \in 1..Len(p) : t[k + i] = p[i]
    <3>1. \A i \in 1..g : k + i \in 1..n
      BY <1>0 DEF k
    <3> QED
      BY <1>0, <1>1, <1>2, <2>0, <2>1, <2>2, <3>1 DEF z
  <2>4. t \in Seq(Bytes) /\ p \in Seq(Bytes) /\ k \in Nat /\ g \in Nat
    BY <1>0, <1>1, <2>1, <2>2
  <2>5. SubSeq(t, k + 1, g) = p
    BY <2>3, <2>4, Slice
  <2> QED
    BY <2>0, <2>5 DEF p
<1> QED
  BY <1>3, <1>4, <1>5, <1>6, <1>7, <1>8 DEF t, n, g, z

----------------------------------------------------------------------------
(* The tag and the message in a frame's body.                               *)
LEMMA TaggedFacts ==
  ASSUME NEW s \in Seq(Plain), Len(s) = 4
  PROVE  /\ Tag \o s \in Seq(Plain) /\ Tag \o s \in Seq(Bytes) /\ Len(Tag \o s) = Len(Tag) + 4
         /\ \A i \in 1..4 : (Tag \o s)[Len(Tag) + i] = s[i]
         /\ SubSeq(Tag \o s, 1, Len(Tag)) = Tag
         /\ SubSeq(Tag \o s, Len(Tag) + 1, Len(Tag) + 4) = s
<1> DEFINE t == Tag \o s
           g == Len(Tag)
<1>0. g \in Nat /\ Tag \in Seq(Plain)
  BY Constants
<1>1. /\ t \in Seq(Plain) /\ Len(t) = Len(Tag) + Len(s)
      /\ \A i \in 1..Len(Tag) + Len(s) : t[i] = IF i <= Len(Tag) THEN Tag[i] ELSE s[i - Len(Tag)]
  BY <1>0, ConcatProperties
<1>2. \A i \in 1..g : t[i] = Tag[i]
  BY <1>0, <1>1
<1>3. ASSUME NEW i \in 1..4 PROVE t[g + i] = s[i]
  <2> DEFINE k == g + i
  <2>1. k \in 1..Len(Tag) + Len(s) /\ ~(k <= Len(Tag)) /\ k - Len(Tag) = i
    BY <1>0
  <2> HIDE DEF k
  <2>2. t[k] = s[k - Len(Tag)]
    BY <1>1, <2>1
  <2> QED
    BY <2>1, <2>2 DEF k
<1>4. Len(t) = g + 4 /\ t \in Seq(Bytes)
  <2>1. Plain \subseteq Bytes
    BY DEF Bytes
  <2>2. t \in Seq(Plain)
    BY <1>1
  <2> HIDE DEF t
  <2>3. t \in Seq(Bytes)
    BY <2>1, <2>2
  <2> QED
    BY <1>1, <2>3
<1> HIDE DEF t
<1>5. SubSeq(t, 1, g) = Tag
  <2> DEFINE k == 0
  <2>0. k + 1 = 1
    OBVIOUS
  <2>1. k \in Nat /\ g = k + Len(Tag) /\ g <= Len(t) /\ \A i \in 1..Len(Tag) : t[k + i] = Tag[i]
    BY <1>0, <1>2, <1>4
  <2> HIDE DEF k, g
  <2>2. SubSeq(t, k + 1, g) = Tag
    BY <1>0, <1>1, <2>1, Slice
  <2> QED
    BY <2>0, <2>2
<1>6. SubSeq(t, g + 1, g + 4) = s
  <2> DEFINE n == g + 4
  <2>1. g \in Nat /\ n \in Nat /\ n = g + Len(s) /\ n <= Len(t) /\ \A i \in 1..Len(s) : t[g + i] = s[i]
    BY <1>0, <1>3, <1>4
  <2> HIDE DEF n, g
  <2>2. SubSeq(t, g + 1, n) = s
    BY <1>1, <2>1, Slice
  <2> QED
    BY <2>2 DEF n
<1> QED
  BY <1>1, <1>3, <1>4, <1>5, <1>6 DEF t

(* When a frame of the other end begins the content, the codec waits for    *)
(* the rest of it or takes exactly this message, and leaves what follows.   *)
LEMMA OwnFrame ==
  ASSUME NEW b, Sound(b, Bytes), NEW w \in Seq(Bytes), NEW rest \in Seq(Bytes),
         NEW m \in Messages, Recut(Content(b), w, RpcFrame(m), rest)
  PROVE  /\ NextFrame(b) \in {"incomplete", "kNoError"}
         /\ NextFrame(b) = "kNoError" =>
              /\ NextMessage(b) = m
              /\ Sound(AfterFrame(b), Bytes)
              /\ Content(AfterFrame(b)) \o w = rest
<1> DEFINE ser == Serialize(m)
           body == Tag \o ser
           sum == Checksum(body)
           len == PeekInt(b, IntLen)
           t == body \o sum
<1>0. /\ IntLen \in Nat /\ IntLen > 0 /\ Len(Tag) \in Nat /\ Size \in Nat /\ MaxMessageLen \in Nat
      /\ Size = Len(Tag) + 4 + IntLen /\ Size <= MaxMessageLen /\ MinMessageLen = Len(Tag) + IntLen
      /\ 2 * (MaxMessageLen + 1) <= Power[IntLen] /\ Power[IntLen] \in Nat \ {0}
  BY Constants
<1>1. /\ ser \in Seq(Plain) /\ Len(ser) = 4 /\ ser[1] > 0
      /\ m = [type |-> ser[1], id |-> ser[2], body |-> ser[3], from |-> ser[4]]
  BY SerializeFacts
<1> HIDE DEF ser
<1>2. /\ body \in Seq(Plain) /\ body \in Seq(Bytes) /\ Len(body) = Len(Tag) + 4
      /\ \A i \in 1..4 : body[Len(Tag) + i] = ser[i]
      /\ SubSeq(body, 1, Len(Tag)) = Tag /\ SubSeq(body, Len(Tag) + 1, Len(Tag) + 4) = ser
  BY <1>1, TaggedFacts
<1>3. RpcFrame(m) = Framed(Size, body, sum)
  BY FrameFacts DEF ser
<1> HIDE DEF body
<1>4. sum \in Seq(Bytes) /\ Len(sum) = IntLen
  BY <1>2, ChecksumFacts
<1>5. NetworkToHost(HostToNetwork(Size, IntLen)) = Size
  <2>1. Size \in Int /\ -Power[IntLen] <= 2 * Size /\ 2 * Size < Power[IntLen]
    BY <1>0
  <2> QED
    BY <1>0, <2>1, IntegersReadBack
<1>6. Recut(Content(b), w, Framed(Size, body, sum), rest)
  BY <1>3
<1> HIDE DEF sum
<1>7. /\ IntLen <= Readable(b) => len = Size
      /\ IntLen + Size <= Readable(b) =>
           /\ SubSeq(Content(b), IntLen + 1, IntLen + Size) = t
           /\ \A i \in 1..Len(Tag) + 4 : Content(b)[IntLen + i] = body[i]
  <2> DEFINE size == Size
  <2>1. /\ size \in Int /\ Recut(Content(b), w, Framed(size, body, sum), rest)
        /\ body \in Seq(Bytes) /\ sum \in Seq(Bytes)
        /\ Len(body) = Len(Tag) + 4 /\ Len(sum) = IntLen
    BY <1>0, <1>2, <1>4, <1>6
  <2> HIDE DEF size
  <2>2. Shows(b, size, body, sum)
    BY <2>1, StartOfFrame
  <2> QED
    BY <1>5, <2>2 DEF Shows, size
<1>8. Parse(t) = "kNoError"
  <2>1. /\ Checked(t) /\ SubSeq(t, Len(Tag) + 1, Len(t) - IntLen) = ser
        /\ SubSeq(t, 1, Len(Tag)) = Tag
    BY <1>2, <1>4, PartsOfBody DEF sum
  <2> HIDE DEF t
  <2> QED
    BY <1>1, <2>1 DEF Parse, Parsable
<1> HIDE DEF t, len
<1>9. Readable(b) \in Nat
  BY DEF Sound, Readable
<1>10. NextFrame(b) = IF Readable(b) < MinMessageLen + IntLen THEN "incomplete"
                      ELSE IF len > MaxMessageLen \/ len < MinMessageLen THEN "kInvalidLength"
                      ELSE IF ~(Readable(b) >= IntLen + len) THEN "incomplete"
                      ELSE Parse(SubSeq(Content(b), IntLen + 1, IntLen + len))
  BY DEF NextFrame, Complete, len
<1>11. CASE Readable(b) < IntLen + Size
  <2>1. NextFrame(b) = "incomplete"
    BY <1>0, <1>7, <1>9, <1>10, <1>11
  <2> QED
    BY <2>1
<1>12. CASE IntLen + Size <= Readable(b)
  <2>1. len = Size /\ SubSeq(Content(b), IntLen + 1, IntLen + Size) = t
    BY <1>0, <1>7, <1>9, <1>12
  <2>2. NextFrame(b) = "kNoError"
    <3>1. /\ ~(Readable(b) < MinMessageLen + IntLen) /\ ~(len > MaxMessageLen \/ len < MinMessageLen)
          /\ Readable(b) >= IntLen + len
      BY <1>0, <1>9, <1>12, <2>1
    <3> QED
      BY <1>8, <1>10, <2>1, <3>1
  <2>3. NextMessage(b) = m
    <3> DEFINE c == Content(b)
               k == IntLen + Len(Tag)
               n == Size
    <3>1. c \in Seq(Bytes) /\ Len(c) = Readable(b)
      BY ContentFacts DEF Readable
    <3>2. ASSUME NEW i \in 1..4 PROVE c[k + i] = ser[i]
      <4> DEFINE j == Len(Tag) + i
      <4>1. j \in 1..Len(Tag) + 4 /\ k + i = IntLen + j
        BY <1>0
      <4>2. c[IntLen + j] = body[j]
        BY <1>7, <1>12, <4>1
      <4>3. body[j] = ser[i]
        BY <1>2
      <4> QED
        BY <4>1, <4>2, <4>3
    <3>3. ser \in Seq(Bytes)
      <4>1. Plain \subseteq Bytes
        BY DEF Bytes
      <4> QED
        BY <1>1, <4>1
    <3>4. /\ k \in Nat /\ n \in Nat /\ n = k + Len(ser) /\ n <= Len(c)
          /\ \A i \in 1..Len(ser) : c[k + i] = ser[i]
      BY <1>0, <1>1, <1>9, <1>12, <3>1, <3>2
    <3>5. NextMessage(b) = Deserialize(SubSeq(c, k + 1, n))
      BY <2>1 DEF NextMessage, len
    <3> HIDE DEF c, k, n
    <3>6. SubSeq(c, k + 1, n) = ser
      BY <3>1, <3>3, <3>4, Slice
    <3> QED
      BY <1>1, <3>5, <3>6 DEF Deserialize
  <2>4. Sound(AfterFrame(b), Bytes) /\ Content(AfterFrame(b)) \o w = rest
    <3> DEFINE n == IntLen + Size
               d == Content(Retrieve(b, n))
               c == Content(b)
               f == RpcFrame(m)
    <3>0. AfterFrame(b) = Retrieve(b, n)
      BY <2>1 DEF AfterFrame, len
    <3>1. n \in Nat /\ n <= Readable(b)
      BY <1>0, <1>12
    <3> HIDE DEF n
    <3>2. /\ Sound(Retrieve(b, n), Bytes) /\ Len(d) = Readable(b) - n
          /\ \A i \in 1..Readable(b) - n : d[i] = Content(b)[n + i]
      BY <3>1, RetrieveDropsPrefix
    <3>3. d \in Seq(Bytes)
      BY <3>2, ContentFacts
    <3>4. c \in Seq(Bytes) /\ Len(c) = Readable(b)
      BY ContentFacts DEF Readable
    <3>5. f \in Seq(Bytes) /\ Len(f) = n
      <4>1. Size \in Int
        BY <1>0
      <4>2. Framed(Size, body, sum) \in Seq(Bytes) /\ Len(Framed(Size, body, sum)) = IntLen + Size
        BY <1>2, <1>4, <4>1, FramedFacts
      <4> QED
        BY <1>3, <4>2 DEF n
    <3>6. Recut(c, w, f, rest)
      OBVIOUS
    <3> HIDE DEF d, c, f
    <3>7. IsRest(d, c, f)
      BY <3>1, <3>2, <3>4, <3>5 DEF IsRest, c
    <3>8. c \in Seq(Bytes) /\ d \in Seq(Bytes) /\ f \in Seq(Bytes)
      BY <3>3, <3>4, <3>5
    <3>9. d \o w = rest
      BY <3>6, <3>7, <3>8, RestOfStream
    <3> QED
      BY <3>0, <3>2, <3>9 DEF d
  <2> QED
    BY <2>2, <2>3, <2>4
<1> QED
  BY <1>0, <1>9, <1>11, <1>12

(* A frame that has the form of one, with a wrong length or no message.     *)
Malformed(f, len, body, sum) ==
  /\ f = Framed(len, body, sum) /\ body \in Seq(Bytes) /\ sum \in Seq(Bytes)
  /\ Len(body) = Len(Tag) + 4 /\ Len(sum) = IntLen /\ body[Len(Tag) + 1] = 0
  /\ len \in {Size, MaxMessageLen + 1, -1}

(* Each foreign frame is malformed in a way the codec can see.              *)
LEMMA ForeignFacts ==
  ASSUME NEW f \in ForeignFrames
  PROVE  \E len, body, sum : Malformed(f, len, body, sum)
<1> DEFINE zeros == <<0, 0, 0, 0>>
           bytes == Tag \o zeros
           untagged == [bytes EXCEPT ![1] = 0]
           len == Len(bytes) + IntLen
           framed(n, s, sum) == HostToNetwork(n, IntLen) \o s \o sum
<1>1. zeros \in Seq(Plain) /\ Len(zeros) = 4 /\ zeros[1] = 0
  BY DEF Plain
<1> HIDE DEF zeros
<1>2. /\ bytes \in Seq(Plain) /\ bytes \in Seq(Bytes) /\ Len(bytes) = Len(Tag) + 4
      /\ bytes[Len(Tag) + 1] = 0
  <2>1. /\ bytes \in Seq(Plain) /\ bytes \in Seq(Bytes) /\ Len(bytes) = Len(Tag) + 4
        /\ \A i \in 1..4 : bytes[Len(Tag) + i] = zeros[i]
    BY <1>1, TaggedFacts
  <2> QED
    BY <1>1, <2>1
<1>3. f \in {framed(MaxMessageLen + 1, bytes, Checksum(bytes)), framed(-1, bytes, Checksum(bytes)),
             framed(len, bytes, Checksum(Tag)), framed(len, untagged, Checksum(untagged)),
             framed(len, bytes, Checksum(bytes))}
  BY DEF ForeignFrames, zeros
<1> HIDE DEF bytes
<1>4. /\ IntLen \in Nat /\ Len(Tag) \in Nat /\ Size \in Nat /\ Size = Len(Tag) + 4 + IntLen
      /\ MaxMessageLen \in Nat /\ Tag \in Seq(Plain)
  BY Constants
<1>5. len = Size
  BY <1>2, <1>4
<1>6. /\ untagged \in Seq(Plain) /\ untagged \in Seq(Bytes) /\ Len(untagged) = Len(Tag) + 4
      /\ untagged[Len(Tag) + 1] = 0
  <2>1. 0 \in Plain /\ 0 \in Bytes
    BY DEF Plain, Bytes
  <2>2. 1 \in 1..Len(bytes) /\ Len(Tag) + 1 \in 1..Len(bytes)
    BY <1>2, <1>4
  <2>3. untagged \in Seq(Plain) /\ Len(untagged) = Len(bytes)
    BY <1>2, <2>1, <2>2, ExceptSeq
  <2>4. untagged \in Seq(Bytes)
    BY <1>2, <2>1, <2>2, ExceptSeq
  <2>5. untagged[Len(Tag) + 1] = 0
    BY <1>2, <2>2
  <2> HIDE DEF untagged
  <2> QED
    BY <1>2, <2>3, <2>4, <2>5
<1> HIDE DEF untagged
<1>7. /\ Checksum(bytes) \in Seq(Bytes) /\ Len(Checksum(bytes)) = IntLen
      /\ Checksum(Tag) \in Seq(Bytes) /\ Len(Checksum(Tag)) = IntLen
      /\ Checksum(untagged) \in Seq(Bytes) /\ Len(Checksum(untagged)) = IntLen
  BY <1>2, <1>4, <1>6, ChecksumFacts
<1>8. ASSUME NEW n \in Int, NEW s \in Seq(Bytes), NEW sum \in Seq(Bytes)
      PROVE  framed(n, s, sum) = Framed(n, s, sum)
  <2> DEFINE h == HostToNetwork(n, IntLen)
  <2>1. h \in Seq(Bytes)
    BY HeaderFacts
  <2> HIDE DEF h
  <2>2. (h \o s) \o sum = h \o (s \o sum)
    BY <2>1
  <2> QED
    BY <2>2 DEF Framed, h
<1>9. MaxMessageLen + 1 \in Int /\ -1 \in Int /\ len \in Int
  BY <1>4, <1>5
<1> HIDE DEF len
<1>10. f \in {Framed(MaxMessageLen + 1, bytes, Checksum(bytes)), Framed(-1, bytes, Checksum(bytes)),
              Framed(len, bytes, Checksum(Tag)), Framed(len, untagged, Checksum(untagged)),
              Framed(len, bytes, Checksum(bytes))}
  <2>1. framed(MaxMessageLen + 1, bytes, Checksum(bytes))
          = Framed(MaxMessageLen + 1, bytes, Checksum(bytes))
    BY <1>2, <1>7, <1>8, <1>9
  <2>2. framed(-1, bytes, Checksum(bytes)) = Framed(-1, bytes, Checksum(bytes))
    BY <1>2, <1>7, <1>8, <1>9
  <2>3. framed(len, bytes, Checksum(Tag)) = Framed(len, bytes, Checksum(Tag))
    BY <1>2, <1>7, <1>8, <1>9
  <2>4. framed(len, untagged, Checksum(untagged)) = Framed(len, untagged, Checksum(untagged))
    BY <1>6, <1>7, <1>8, <1>9
  <2>5. framed(len, bytes, Checksum(bytes)) = Framed(len, bytes, Checksum(bytes))
    BY <1>2, <1>7, <1>8, <1>9
  <2> HIDE DEF framed
  <2> QED
    BY <1>3, <2>1, <2>2, <2>3, <2>4, <2>5
<1> HIDE DEF framed
<1>11. CASE f = Framed(MaxMessageLen + 1, bytes, Checksum(bytes))
  <2>1. Malformed(f, MaxMessageLen + 1, bytes, Checksum(bytes))
    BY <1>2, <1>7, <1>11 DEF Malformed
  <2> QED
    BY <2>1
<1>12. CASE f = Framed(-1, bytes, Checksum(bytes))
  <2>1. Malformed(f, -1, bytes, Checksum(bytes))
    BY <1>2, <1>7, <1>12 DEF Malformed
  <2> QED
    BY <2>1
<1>13. CASE f = Framed(len, bytes, Checksum(Tag))
  <2>1. Malformed(f, len, bytes, Checksum(Tag))
    BY <1>2, <1>5, <1>7, <1>13 DEF Malformed
  <2> QED
    BY <2>1
<1>14. CASE f = Framed(len, untagged, Checksum(untagged))
  <2>1. Malformed(f, len, untagged, Checksum(untagged))
    BY <1>5, <1>6, <1>7, <1>14 DEF Malformed
  <2> QED
    BY <2>1
<1>15. CASE f = Framed(len, bytes, Checksum(bytes))
  <2>1. Malformed(f, len, bytes, Checksum(bytes))
    BY <1>2, <1>5, <1>7, <1>15 DEF Malformed
  <2> QED
    BY <2>1
<1> QED
  BY <1>10, <1>11, <1>12, <1>13, <1>14, <1>15

(* A wrong length reads back as one that is refused.                        *)
LEMMA BadLength ==
  ASSUME NEW len \in {MaxMessageLen + 1, -1}
  PROVE  \/ NetworkToHost(HostToNetwork(len, IntLen)) > MaxMessageLen
         \/ NetworkToHost(HostToNetwork(len, IntLen)) < MinMessageLen
<1> DEFINE x == NetworkToHost(HostToNetwork(len, IntLen))
           p == Power[IntLen]
<1>0. /\ IntLen \in Nat /\ MaxMessageLen \in Nat /\ MinMessageLen \in Nat
      /\ 2 * (MaxMessageLen + 1) <= p /\ p \in Nat \ {0} /\ len \in Int
  BY Constants
<1>1. x = IF 2 * (len % p) >= p THEN (len % p) - p ELSE len % p
  <2>1. Unsigned(HostToNetwork(len, IntLen)) = len % p /\ Power[Len(HostToNetwork(len, IntLen))] = p
    BY <1>0, DigitsReadBack
  <2> QED
    BY <2>1 DEF NetworkToHost
<1> HIDE DEF x, p
<1>2. CASE len = -1
  <2>1. len % p = p - 1
    BY <1>0, <1>2
  <2>2. x = -1
    BY <1>0, <1>1, <2>1
  <2>3. x < MinMessageLen
    BY <1>0, <2>2
  <2> QED
    BY <2>3 DEF x
<1>3. CASE len = MaxMessageLen + 1
  <2>1. len % p = len
    BY <1>0, <1>3
  <2>2. x = len \/ x = len - p
    BY <1>0, <1>1, <2>1
  <2>3. len > MaxMessageLen /\ len - p < 0
    BY <1>0, <1>3
  <2>4. x > MaxMessageLen \/ x < MinMessageLen
    BY <1>0, <2>2, <2>3
  <2> QED
    BY <2>4 DEF x
<1> QED
  BY <1>2, <1>3

(* A foreign frame at the front is never taken for a message.               *)
LEMMA ForeignFrame ==
  ASSUME NEW b, Sound(b, Bytes), NEW w \in Seq(Bytes), NEW rest \in Seq(Bytes),
         NEW f \in ForeignFrames, Recut(Content(b), w, f, rest)
  PROVE  NextFrame(b) # "kNoError"
<1>1. PICK len, body, sum : Malformed(f, len, body, sum)
  BY ForeignFacts
<1> DEFINE n == PeekInt(b, IntLen)
           t == body \o sum
<1>0. /\ IntLen \in Nat /\ IntLen > 0 /\ Len(Tag) \in Nat /\ Size \in Nat /\ MaxMessageLen \in Nat
      /\ Size = Len(Tag) + 4 + IntLen /\ Size <= MaxMessageLen /\ MinMessageLen = Len(Tag) + IntLen
      /\ 2 * (MaxMessageLen + 1) <= Power[IntLen] /\ Power[IntLen] \in Nat \ {0}
  BY Constants
<1>2. /\ Recut(Content(b), w, Framed(len, body, sum), rest) /\ len \in Int
      /\ body \in Seq(Bytes) /\ sum \in Seq(Bytes)
      /\ Len(body) = Len(Tag) + 4 /\ Len(sum) = IntLen
  BY <1>0, <1>1 DEF Malformed
<1>3. Shows(b, len, body, sum)
  BY <1>2, StartOfFrame
<1>4. NextFrame(b) = IF Readable(b) < MinMessageLen + IntLen THEN "incomplete"
                     ELSE IF n > MaxMessageLen \/ n < MinMessageLen THEN "kInvalidLength"
                     ELSE IF ~(Readable(b) >= IntLen + n) THEN "incomplete"
                     ELSE Parse(SubSeq(Content(b), IntLen + 1, IntLen + n))
  BY DEF NextFrame, Complete
<1>5. Readable(b) \in Nat
  BY DEF Sound, Readable
<1>6. IntLen <= Readable(b) => n = NetworkToHost(HostToNetwork(len, IntLen))
  BY <1>3 DEF Shows
<1> HIDE DEF n
<1>7. CASE Readable(b) < MinMessageLen + IntLen
  BY <1>4, <1>7
<1>8. CASE ~(Readable(b) < MinMessageLen + IntLen) /\ len # Size
  <2>1. n > MaxMessageLen \/ n < MinMessageLen
    <3>1. IntLen <= Readable(b)
      BY <1>0, <1>5, <1>8
    <3>2. len \in {MaxMessageLen + 1, -1}
      BY <1>1, <1>8 DEF Malformed
    <3> QED
      BY <1>6, <3>1, <3>2, BadLength
  <2> QED
    BY <1>4, <1>8, <2>1
<1>9. CASE ~(Readable(b) < MinMessageLen + IntLen) /\ len = Size
  <2>1. n = Size
    <3>1. NetworkToHost(HostToNetwork(len, IntLen)) = len
      <4>1. -Power[IntLen] <= 2 * len /\ 2 * len < Power[IntLen]
        BY <1>0, <1>9
      <4> QED
        BY <1>0, <1>2, <4>1, IntegersReadBack
    <3> QED
      BY <1>0, <1>5, <1>6, <1>9, <3>1
  <2>2. CASE ~(Readable(b) >= IntLen + Size)
    BY <1>0, <1>4, <1>9, <2>1, <2>2
  <2>3. CASE Readable(b) >= IntLen + Size
    <3>1. SubSeq(Content(b), IntLen + 1, IntLen + n) = t
      BY <1>0, <1>3, <1>5, <2>1, <2>3 DEF Shows
    <3>2. SubSeq(t, Len(Tag) + 1, Len(t) - IntLen) = SubSeq(body, Len(Tag) + 1, Len(Tag) + 4)
      BY <1>2, PartsOfBody
    <3>3. SubSeq(body, Len(Tag) + 1, Len(Tag) + 4)[1] = 0
      <4> DEFINE r == Len(Tag)
                 v == Len(Tag) + 4
      <4>1. r \in Nat /\ v \in Nat /\ r <= v /\ v <= Len(body) /\ 1 \in 1..v - r
        BY <1>0, <1>2
      <4>2. body[r + 1] = 0
        BY <1>1 DEF Malformed
      <4> HIDE DEF r, v
      <4>3. \A i \in 1..v - r : SubSeq(body, r + 1, v)[i] = body[r + i]
        BY <1>2, <4>1, PartFacts
      <4>4. SubSeq(body, r + 1, v)[1] = 0
        BY <4>1, <4>2, <4>3
      <4> QED
        BY <4>4 DEF r, v
    <3>4. ~Parsable(SubSeq(t, Len(Tag) + 1, Len(t) - IntLen))
      <4> DEFINE p == SubSeq(t, Len(Tag) + 1, Len(t) - IntLen)
      <4>1. p[1] = 0
        BY <3>2, <3>3
      <4> HIDE DEF p
      <4>2. ~Parsable(p)
        BY <4>1 DEF Parsable
      <4> QED
        BY <4>2 DEF p
    <3>5. Parse(t) # "kNoError"
      BY <3>4 DEF Parse
    <3> QED
      <4>1. NextFrame(b) \in {"incomplete", "kInvalidLength", Parse(SubSeq(Content(b), IntLen + 1, IntLen + n))}
        BY <1>4
      <4> QED
        BY <3>1, <3>5, <4>1
  <2> QED
    BY <2>2, <2>3
<1> QED
  BY <1>7, <1>8, <1>9

(* Frames are bytes, and some.                                              *)
LEMMA FramesTyped ==
  /\ ForeignFrames \subseteq Seq(Bytes)
  /\ \A f \in ForeignFrames : f # <<>>
  /\ \A m \in Messages : RpcFrame(m) \in Seq(Bytes)
<1>1. ASSUME NEW f \in ForeignFrames PROVE f \in Seq(Bytes) /\ f # <<>>
  <2>1. PICK len, body, sum : Malformed(f, len, body, sum)
    BY ForeignFacts
  <2>2. /\ f = Framed(len, body, sum) /\ len \in Int /\ body \in Seq(Bytes) /\ sum \in Seq(Bytes)
        /\ Len(body) = Len(Tag) + 4 /\ Len(sum) = IntLen
    BY <2>1, Constants DEF Malformed
  <2>3. Framed(len, body, sum) \in Seq(Bytes) /\ Len(Framed(len, body, sum)) = IntLen + Size
    BY <2>2, FramedFacts
  <2> QED
    BY <2>2, <2>3, Constants, EmptySeq
<1>2. ASSUME NEW m \in Messages PROVE RpcFrame(m) \in Seq(Bytes)
  <2> DEFINE body == Tag \o Serialize(m)
             sum == Checksum(body)
             size == Size
  <2>1. RpcFrame(m) = Framed(size, body, sum)
    BY FrameFacts
  <2>2. body \in Seq(Plain) /\ body \in Seq(Bytes) /\ Len(body) = Len(Tag) + 4
    <3> DEFINE s == Serialize(m)
    <3>1. s \in Seq(Plain) /\ Len(s) = 4
      BY SerializeFacts
    <3> HIDE DEF s
    <3> QED
      BY <3>1, TaggedFacts DEF s
  <2> HIDE DEF body
  <2>3. sum \in Seq(Bytes) /\ Len(sum) = IntLen
    BY <2>2, ChecksumFacts
  <2>4. size \in Int
    BY Constants
  <2> HIDE DEF sum, size
  <2>5. Framed(size, body, sum) \in Seq(Bytes)
    BY <2>2, <2>3, <2>4, FramedFacts
  <2> QED
    BY <2>1, <2>5
<1> QED
  BY <1>1, <1>2

----------------------------------------------------------------------------
(* The callers whose request is out, what they asked, and its answer.       *)
Sent == {c \in Callers : cpc[c] = "called"}
AnswerTo(c) == Response(id[c], asks[c], c)

Requests == {Request(c) : c \in Sent}
FramesTo(side) ==
  IF side = "server" THEN ForeignFrames \cup {RpcFrame(Request(c)) : c \in Sent}
  ELSE {RpcFrame(AnswerTo(c)) : c \in Sent}

RpcTypes ==
  /\ asks \in [Callers -> Outcomes] /\ id \in [Callers -> Nat] /\ lastId \in Nat
  /\ cpc \in [Callers -> {"id", "insert", "send", "called"}]
  /\ results \in [Callers -> Seq(Outcomes \X Callers)]
  /\ wire \in [Sides -> Seq(Bytes)] /\ frames \in [Sides -> Seq(Seq(Bytes))]
  /\ input \in [Sides -> [mem : Seq(Bytes), r : Nat, w : Nat]]
  /\ \A s \in Sides : Sound(input[s], Bytes)
  /\ reading \in [Sides -> BOOLEAN]
  /\ conn \in [Sides -> {"kConnected", "kDisconnecting", "kDisconnected"}]

(* Ids are given once; a call is in the map only while it has no result.    *)
CallsInv ==
  /\ \A c \in Callers : cpc[c] # "id" => id[c] <= lastId
  /\ \A c, d \in Callers : cpc[c] # "id" /\ cpc[d] # "id" /\ id[c] = id[d] => c = d
  /\ \A o \in outstandings :
       \E c \in Callers : o = <<id[c], c>> /\ cpc[c] \in {"send", "called"} /\ results[c] = <<>>
  /\ \A c \in Callers : cpc[c] \in {"id", "insert"} => results[c] = <<>>
  /\ RightAnswer

(* Requests, answers and frames of another protocol, and nothing else, are  *)
(* on their way; the services work on requests.                             *)
FramesInv ==
  /\ \A s \in Sides : \A i \in 1..Len(frames[s]) : frames[s][i] \in FramesTo(s)
  /\ serving \subseteq Requests

(* What was refused is at the front for ever.                               *)
RefusedInv == refused => frames["server"] # <<>> /\ Head(frames["server"]) \in ForeignFrames

(* A side reads while it is not down.                                       *)
ReadingInv == \A s \in Sides : reading[s] => conn[s] # "kDisconnected"

Streams(buf, w, fs) ==
  \A s \in Sides : conn[s] # "kDisconnected" => Content(buf[s]) \o w[s] = Stream(fs[s])

RpcInv ==
  /\ RpcTypes /\ CallsInv /\ FramesInv /\ RefusedInv /\ ReadingInv
  /\ Streams(input, wire, frames)
  /\ "callback" \in holders

----------------------------------------------------------------------------
(* The two sides.                                                           *)
LEMMA SidesFacts == /\ "client" \in Sides /\ "server" \in Sides
                    /\ Other("client") = "server" /\ Other("server") = "client"
                    /\ \A s \in Sides : s = "client" \/ s = "server"
  BY DEF Sides, Other

(* The invariant holds at the start.                                        *)
LEMMA RpcInit == Init => RpcInv
<1> SUFFICES ASSUME Init PROVE RpcInv
  OBVIOUS
<1>0. 0 \in Bytes
  BY Constants
<1>1. Sound(NewBuffer, Bytes) /\ Content(NewBuffer) = <<>>
  BY <1>0, NewBufferFacts
<1>2. RpcTypes
  <2>1. NewBuffer \in [mem : Seq(Bytes), r : Nat, w : Nat]
    BY <1>1 DEF Sound
  <2> QED
    BY <1>1, <2>1, EmptySeq DEF RpcTypes, Init
<1>3. CallsInv
  BY DEF CallsInv, RightAnswer, Init
<1>4. FramesInv /\ RefusedInv /\ ReadingInv /\ "callback" \in holders
  BY SidesFacts DEF FramesInv, RefusedInv, ReadingInv, Init, Owned
<1>5. Streams(input, wire, frames)
  <2> SUFFICES ASSUME NEW s \in Sides
               PROVE  Content(input[s]) \o wire[s] = Stream(frames[s])
    BY DEF Streams
  <2>1. Content(input[s]) = <<>> /\ wire[s] = <<>> /\ frames[s] = <<>>
    BY <1>1 DEF Init
  <2>2. Stream(<<>>) = <<>>
    BY StreamEmpty
  <2> QED
    BY <2>1, <2>2
<1> QED
  BY <1>2, <1>3, <1>4, <1>5 DEF RpcInv

(* What callers have sent stays what it was.                                *)
CallersGoOn == asks' = asks /\ \A c \in Sent : cpc'[c] = "called" /\ id'[c] = id[c]

(* So do the requests and the frames they account for.                      *)
LEMMA StillSent ==
  ASSUME CallersGoOn
  PROVE  Requests \subseteq Requests' /\ \A s \in Sides : FramesTo(s) \subseteq FramesTo(s)'
<1>1. ASSUME NEW c \in Sent PROVE c \in Sent' /\ Request(c)' = Request(c) /\ AnswerTo(c)' = AnswerTo(c)
  BY DEF CallersGoOn, Sent, Request, AnswerTo, Response
<1>2. Requests \subseteq Requests'
  BY <1>1 DEF Requests
<1>3. FramesTo("server") \subseteq FramesTo("server")'
  BY <1>1 DEF FramesTo
<1>4. FramesTo("client") \subseteq FramesTo("client")'
  BY <1>1 DEF FramesTo
<1> QED
  BY <1>2, <1>3, <1>4, SidesFacts

(* Requests and answers are messages.                                       *)
LEMMA MessagesTyped ==
  ASSUME RpcTypes, NEW c \in Callers
  PROVE  Request(c) \in Messages /\ AnswerTo(c) \in Messages
  BY DEF RpcTypes, Request, AnswerTo, Response, Messages

(* TcpConnection::send() keeps the streams whole.                           *)
LEMMA Sending ==
  ASSUME RpcTypes, NEW fs \in [Sides -> Seq(Seq(Bytes))], NEW buf, \A s \in Sides : Sound(buf[s], Bytes),
         Streams(buf, wire, fs), NEW side \in Sides, NEW bytes \in Seq(Bytes),
         SendAfter(fs, side, bytes)
  PROVE  /\ wire' \in [Sides -> Seq(Bytes)] /\ frames' \in [Sides -> Seq(Seq(Bytes))]
         /\ Streams(buf, wire', frames')
         /\ \A s \in Sides : s # Other(side) => frames'[s] = fs[s]
         /\ frames'[Other(side)] \in {fs[Other(side)], Append(fs[Other(side)], bytes)}
<1> DEFINE o == Other(side)
<1>0. o \in Sides
  BY DEF Other, Sides
<1>1. CASE conn[side] = "kConnected" /\ conn[Other(side)] # "kDisconnected"
  <2>1. /\ wire' = [wire EXCEPT ![o] = wire[o] \o bytes]
        /\ frames' = [fs EXCEPT ![o] = Append(fs[o], bytes)]
    BY <1>1 DEF SendAfter
  <2> HIDE DEF o
  <2>2. wire[o] \in Seq(Bytes) /\ fs[o] \in Seq(Seq(Bytes)) /\ wire[o] \o bytes \in Seq(Bytes)
    BY <1>0 DEF RpcTypes
  <2>3. Append(fs[o], bytes) \in Seq(Seq(Bytes))
    BY <2>2, AppendProperties
  <2>4. wire' \in [Sides -> Seq(Bytes)] /\ frames' \in [Sides -> Seq(Seq(Bytes))]
    BY <2>1, <2>2, <2>3 DEF RpcTypes
  <2>5. /\ \A s \in Sides : s # o => frames'[s] = fs[s] /\ wire'[s] = wire[s]
        /\ frames'[o] = Append(fs[o], bytes) /\ wire'[o] = wire[o] \o bytes
    BY <1>0, <2>1 DEF RpcTypes
  <2>6. Streams(buf, wire', frames')
    <3> SUFFICES ASSUME NEW s \in Sides, conn[s] # "kDisconnected"
                 PROVE  Content(buf[s]) \o wire'[s] = Stream(frames'[s])
      BY DEF Streams
    <3>1. Content(buf[s]) \o wire[s] = Stream(fs[s])
      BY DEF Streams
    <3>2. CASE s # o
      BY <2>5, <3>1, <3>2
    <3>3. CASE s = o
      <4> DEFINE c == Content(buf[o])
                 w == wire[o]
      <4>1. c \in Seq(Bytes)
        BY <1>0, ContentFacts
      <4>2. w \in Seq(Bytes)
        BY <2>2
      <4>3. c \o w = Stream(fs[o])
        BY <3>1, <3>3
      <4>4. Stream(Append(fs[o], bytes)) = Stream(fs[o]) \o bytes
        BY <2>2, StreamAppend
      <4> HIDE DEF c, w
      <4>5. (c \o w) \o bytes = c \o (w \o bytes)
        BY <4>1, <4>2
      <4>6. Stream(frames'[o]) = c \o (w \o bytes)
        BY <2>5, <4>3, <4>4, <4>5
      <4>7. wire'[o] = w \o bytes
        BY <2>5 DEF w
      <4> QED
        BY <3>3, <4>6, <4>7 DEF c
    <3> QED
      BY <3>2, <3>3
  <2> QED
    BY <2>4, <2>5, <2>6 DEF o
<1>2. CASE ~(conn[side] = "kConnected" /\ conn[Other(side)] # "kDisconnected")
  <2>1. frames' = fs /\ wire' = wire
    BY <1>2 DEF SendAfter
  <2> QED
    BY <2>1 DEF RpcTypes, Streams
<1> QED
  BY <1>1, <1>2

----------------------------------------------------------------------------
(* The frame that a side's stream begins with.                              *)
LEMMA FrontFrame ==
  ASSUME RpcTypes, Streams(input, wire, frames), NEW s \in Sides, conn[s] # "kDisconnected",
         frames[s] # <<>>
  PROVE  /\ Head(frames[s]) \in Seq(Bytes) /\ Tail(frames[s]) \in Seq(Seq(Bytes))
         /\ Stream(Tail(frames[s])) \in Seq(Bytes)
         /\ Recut(Content(input[s]), wire[s], Head(frames[s]), Stream(Tail(frames[s])))
<1> DEFINE fs == frames[s]
<1>1. fs \in Seq(Seq(Bytes)) /\ fs # <<>>
  BY DEF RpcTypes
<1>2. Content(input[s]) \o wire[s] = Stream(fs)
  BY DEF Streams
<1> HIDE DEF fs
<1>3. Head(fs) \in Seq(Bytes) /\ Tail(fs) \in Seq(Seq(Bytes))
  BY <1>1, HeadTailProperties
<1>4. Stream(Tail(fs)) \in Seq(Bytes)
  BY <1>3, StreamTyped
<1>5. Stream(fs) = Head(fs) \o Stream(Tail(fs))
  BY <1>1, StreamHead
<1> QED
  BY <1>2, <1>3, <1>4, <1>5 DEF Recut, fs

(* Without a frame on its way there is nothing to look at.                  *)
LEMMA NoFrame ==
  ASSUME RpcTypes, Streams(input, wire, frames), NEW s \in Sides, conn[s] # "kDisconnected",
         frames[s] = <<>>
  PROVE  NextFrame(input[s]) = "incomplete"
<1> DEFINE b == input[s]
           c == Content(b)
           w == wire[s]
<1>1. c \o w = Stream(<<>>)
  BY DEF Streams
<1>2. Stream(<<>>) = <<>>
  BY StreamEmpty
<1>3. c \in Seq(Bytes) /\ w \in Seq(Bytes) /\ Len(c) = Readable(b)
  <2>1. Sound(b, Bytes) /\ w \in Seq(Bytes)
    BY DEF RpcTypes
  <2> HIDE DEF b
  <2> QED
    BY <2>1, ContentFacts DEF Readable
<1> HIDE DEF c, w, b
<1>4. c = <<>>
  BY <1>1, <1>2, <1>3, ConcatEqualIffEmpty
<1>5. Readable(b) = 0
  BY <1>3, <1>4
<1>6. Readable(b) < MinMessageLen + IntLen
  BY <1>5, Constants
<1> QED
  BY <1>6 DEF NextFrame, b

(* A side that dispatches takes the message that is next in its stream, and *)
(* leaves the rest of the stream.                                           *)
LEMMA Taking ==
  ASSUME RpcInv, NEW s \in Sides, Dispatch(s)
  PROVE  /\ frames[s] # <<>> /\ Head(frames[s]) \notin ForeignFrames
         /\ \A m \in Messages :
              Head(frames[s]) = RpcFrame(m) =>
                /\ NextMessage(input[s]) = m
                /\ input' \in [Sides -> [mem : Seq(Bytes), r : Nat, w : Nat]]
                /\ \A t \in Sides : Sound(input'[t], Bytes)
                /\ [frames EXCEPT ![s] = Tail(@)] \in [Sides -> Seq(Seq(Bytes))]
                /\ Streams(input', wire, [frames EXCEPT ![s] = Tail(@)])
<1> DEFINE b == input[s]
           w == wire[s]
           f == Head(frames[s])
           rest == Stream(Tail(frames[s]))
           taken == [frames EXCEPT ![s] = Tail(@)]
<1>1. RpcTypes /\ Streams(input, wire, frames) /\ conn[s] # "kDisconnected"
  BY DEF RpcInv, ReadingInv, Dispatch
<1>2. NextFrame(b) = "kNoError"
  BY DEF Dispatch
<1>3. frames[s] # <<>>
  BY <1>1, <1>2, NoFrame
<1>4. f \in Seq(Bytes) /\ Tail(frames[s]) \in Seq(Seq(Bytes)) /\ rest \in Seq(Bytes)
      /\ Recut(Content(b), w, f, rest)
  BY <1>1, <1>3, FrontFrame
<1>5. Sound(b, Bytes) /\ w \in Seq(Bytes)
  BY <1>1 DEF RpcTypes
<1>6. input' = [input EXCEPT ![s] = AfterFrame(b)]
  BY DEF Dispatch
<1> HIDE DEF b, w, f, rest
<1>7. f \notin ForeignFrames
  BY <1>2, <1>4, <1>5, ForeignFrame
<1>8. ASSUME NEW m \in Messages, f = RpcFrame(m)
      PROVE  /\ NextMessage(b) = m
             /\ input' \in [Sides -> [mem : Seq(Bytes), r : Nat, w : Nat]]
             /\ \A t \in Sides : Sound(input'[t], Bytes)
             /\ taken \in [Sides -> Seq(Seq(Bytes))]
             /\ Streams(input', wire, taken)
  <2>1. /\ NextMessage(b) = m /\ Sound(AfterFrame(b), Bytes)
        /\ Content(AfterFrame(b)) \o w = rest
    BY <1>2, <1>4, <1>5, <1>8, OwnFrame
  <2> DEFINE a == AfterFrame(b)
  <2> HIDE DEF a
  <2>2. Sound(a, Bytes) /\ a \in [mem : Seq(Bytes), r : Nat, w : Nat]
    BY <2>1 DEF Sound, a
  <2>3. input' = [input EXCEPT ![s] = a]
    BY <1>6 DEF a
  <2>4. input' \in [Sides -> [mem : Seq(Bytes), r : Nat, w : Nat]]
    BY <1>1, <2>2, <2>3 DEF RpcTypes
  <2>5. input'[s] = a /\ \A t \in Sides : t # s => input'[t] = input[t]
    BY <1>1, <2>3 DEF RpcTypes
  <2>6. \A t \in Sides : Sound(input'[t], Bytes)
    <3>1. \A t \in Sides : Sound(input[t], Bytes)
      BY <1>1 DEF RpcTypes
    <3> QED
      BY <2>2, <2>5, <3>1
  <2>7. taken \in [Sides -> Seq(Seq(Bytes))]
    BY <1>1, <1>4 DEF RpcTypes
  <2>8. taken[s] = Tail(frames[s]) /\ \A t \in Sides : t # s => taken[t] = frames[t]
    BY <1>1 DEF RpcTypes
  <2>9. Streams(input', wire, taken)
    <3> HIDE DEF taken
    <3> SUFFICES ASSUME NEW t \in Sides, conn[t] # "kDisconnected"
                 PROVE  Content(input'[t]) \o wire[t] = Stream(taken[t])
      BY DEF Streams
    <3>1. CASE t = s
      BY <2>1, <2>5, <2>8, <3>1 DEF a, w, rest
    <3>2. CASE t # s
      BY <1>1, <2>5, <2>8, <3>2 DEF Streams
    <3> QED
      BY <3>1, <3>2
  <2> QED
    BY <2>1, <2>4, <2>6, <2>7, <2>9
<1> QED
  BY <1>3, <1>7, <1>8 DEF b, f

(* Only a frame of another protocol is refused.                             *)
LEMMA Refusing ==
  ASSUME RpcInv, NEW s \in Sides, reading[s], NextFrame(input[s]) \notin {"incomplete", "kNoError"}
  PROVE  s = "server" /\ frames["server"] # <<>> /\ Head(frames["server"]) \in ForeignFrames
<1> DEFINE b == input[s]
           w == wire[s]
           f == Head(frames[s])
           rest == Stream(Tail(frames[s]))
<1>1. RpcTypes /\ Streams(input, wire, frames) /\ conn[s] # "kDisconnected" /\ FramesInv
  BY DEF RpcInv, ReadingInv
<1>2. frames[s] # <<>>
  BY <1>1, NoFrame
<1>3. f \in Seq(Bytes) /\ rest \in Seq(Bytes) /\ Recut(Content(b), w, f, rest)
  BY <1>1, <1>2, FrontFrame
<1>4. Sound(b, Bytes) /\ w \in Seq(Bytes)
  BY <1>1 DEF RpcTypes
<1>5. NextFrame(b) \notin {"incomplete", "kNoError"}
  OBVIOUS
<1>6. 1 \in 1..Len(frames[s]) /\ f = frames[s][1]
  <2>1. frames[s] \in Seq(Seq(Bytes))
    BY <1>1 DEF RpcTypes
  <2> QED
    BY <1>2, <2>1, EmptySeq
<1> HIDE DEF b, w, f, rest
<1>7. ASSUME NEW m \in Messages PROVE f # RpcFrame(m)
  BY <1>3, <1>4, <1>5, OwnFrame
<1>8. ASSUME NEW c \in Sent PROVE f # RpcFrame(Request(c)) /\ f # RpcFrame(AnswerTo(c))
  <2>1. Request(c) \in Messages /\ AnswerTo(c) \in Messages
    BY <1>1, MessagesTyped DEF Sent
  <2> QED
    BY <1>7, <2>1
<1>9. f \in FramesTo(s)
  BY <1>1, <1>6 DEF FramesInv
<1>10. s = "server" /\ f \in ForeignFrames
  BY <1>8, <1>9, SidesFacts DEF FramesTo
<1> QED
  BY <1>2, <1>10 DEF f

(* Sequences of things of one kind, with one more or one less.              *)
LEMMA StillInside ==
  ASSUME NEW S, NEW seq \in Seq(S), NEW Z, \A i \in 1..Len(seq) : seq[i] \in Z
  PROVE  /\ \A e \in S : e \in Z => \A i \in 1..Len(Append(seq, e)) : Append(seq, e)[i] \in Z
         /\ seq # <<>> => \A i \in 1..Len(Tail(seq)) : Tail(seq)[i] \in Z
         /\ seq # <<>> => Head(seq) \in Z
         /\ \A e \in S : seq # <<>> => Append(seq, e) # <<>> /\ Head(Append(seq, e)) = Head(seq)
<1>0. Len(seq) \in Nat
  BY LenProperties
<1>1. ASSUME NEW e \in S, e \in Z, NEW i \in 1..Len(Append(seq, e)) PROVE Append(seq, e)[i] \in Z
  <2>1. /\ Len(Append(seq, e)) = Len(seq) + 1 /\ Append(seq, e)[Len(seq) + 1] = e
        /\ \A j \in 1..Len(seq) : Append(seq, e)[j] = seq[j]
    BY AppendProperties
  <2>2. i \in 1..Len(seq) \/ i = Len(seq) + 1
    BY <1>0, <2>1
  <2> QED
    BY <1>1, <2>1, <2>2
<1>2. ASSUME seq # <<>>, NEW i \in 1..Len(Tail(seq)) PROVE Tail(seq)[i] \in Z
  <2>1. Len(Tail(seq)) = Len(seq) - 1 /\ Tail(seq)[i] = seq[i + 1]
    BY <1>2, HeadTailProperties
  <2>2. i + 1 \in 1..Len(seq)
    BY <1>0, <2>1
  <2> QED
    BY <2>1, <2>2
<1>3. ASSUME seq # <<>> PROVE 1 \in 1..Len(seq) /\ Head(seq) = seq[1]
  BY <1>0, <1>3, EmptySeq
<1>4. ASSUME NEW e \in S, seq # <<>> PROVE Append(seq, e) # <<>> /\ Head(Append(seq, e)) = Head(seq)
  <2>1. /\ Append(seq, e) \in Seq(S) /\ Append(seq, e) # <<>> /\ Append(seq, e)[1] = seq[1]
    BY <1>3, <1>4, AppendProperties
  <2> QED
    BY <1>3, <1>4, <2>1
<1> QED
  BY <1>1, <1>2, <1>3, <1>4

(* What is on its way still is what it was.                                 *)
LEMMA FramesGoOn ==
  ASSUME FramesInv, CallersGoOn
  PROVE  /\ \A s \in Sides : \A i \in 1..Len(frames[s]) : frames[s][i] \in FramesTo(s)'
         /\ serving \subseteq Requests'
  BY StillSent DEF FramesInv

(* A step that sends and takes nothing.                                     *)
LEMMA SameFrames ==
  ASSUME FramesInv, RefusedInv, CallersGoOn, UNCHANGED <<frames, serving>>
  PROVE  FramesInv' /\ (refused' = refused => RefusedInv')
<1>1. FramesInv'
  BY FramesGoOn DEF FramesInv
<1>2. refused' = refused => RefusedInv'
  BY DEF RefusedInv
<1> QED
  BY <1>1, <1>2

(* CallMethod() takes an id that no other call has.                         *)
LEMMA TakeIdStep ==
  ASSUME RpcInv, NEW c \in Callers, TakeId(c)
  PROVE  RpcInv'
<1>1. /\ RpcTypes /\ CallsInv /\ FramesInv /\ RefusedInv /\ ReadingInv
      /\ Streams(input, wire, frames) /\ "callback" \in holders
  BY DEF RpcInv
<1>2. /\ cpc[c] = "id" /\ lastId' = lastId + 1 /\ id' = [id EXCEPT ![c] = lastId + 1]
      /\ cpc' = [cpc EXCEPT ![c] = "insert"]
      /\ UNCHANGED <<asks, outstandings, results, wire, input, reading, frames, conn, serving,
                     holders, refused>>
  BY DEF TakeId, Goes, StepAfter, connVars
<1>3. /\ id'[c] = lastId + 1 /\ cpc'[c] = "insert"
      /\ \A d \in Callers : d # c => id'[d] = id[d] /\ cpc'[d] = cpc[d]
  BY <1>1, <1>2 DEF RpcTypes
<1>4. RpcTypes'
  BY <1>1, <1>2 DEF RpcTypes
<1>5. CallersGoOn
  BY <1>2, <1>3 DEF CallersGoOn, Sent
<1>6. CallsInv'
  <2>0. lastId \in Nat /\ \A d \in Callers : id[d] \in Nat
    BY <1>1 DEF RpcTypes
  <2>1. \A d \in Callers : cpc'[d] # "id" => id'[d] <= lastId'
    <3> SUFFICES ASSUME NEW d \in Callers, cpc'[d] # "id" PROVE id'[d] <= lastId'
      OBVIOUS
    <3>1. CASE d = c
      BY <1>2, <1>3, <2>0, <3>1
    <3>2. CASE d # c
      <4>1. id[d] <= lastId
        BY <1>1, <1>3, <3>2 DEF CallsInv
      <4> QED
        BY <1>2, <1>3, <2>0, <3>2, <4>1
    <3> QED
      BY <3>1, <3>2
  <2>2. ASSUME NEW d \in Callers, NEW e \in Callers, cpc'[d] # "id", cpc'[e] # "id", id'[d] = id'[e]
        PROVE  d = e
    <3>1. ASSUME NEW g \in Callers, g # c, cpc[g] # "id" PROVE id[g] # lastId + 1
      <4>1. id[g] <= lastId
        BY <1>1, <3>1 DEF CallsInv
      <4> QED
        BY <2>0, <4>1
    <3>2. CASE d = c
      BY <1>3, <2>2, <3>1, <3>2
    <3>3. CASE e = c
      BY <1>3, <2>2, <3>1, <3>3
    <3>4. CASE d # c /\ e # c
      BY <1>1, <1>3, <2>2, <3>4 DEF CallsInv
    <3> QED
      BY <3>2, <3>3, <3>4
  <2>3. \A o \in outstandings' :
          \E d \in Callers : o = <<id'[d], d>> /\ cpc'[d] \in {"send", "called"} /\ results'[d] = <<>>
    <3> SUFFICES ASSUME NEW o \in outstandings
                 PROVE  \E d \in Callers : /\ o = <<id'[d], d>> /\ cpc'[d] \in {"send", "called"}
                                          /\ results'[d] = <<>>
      BY <1>2
    <3>1. PICK d \in Callers : o = <<id[d], d>> /\ cpc[d] \in {"send", "called"} /\ results[d] = <<>>
      BY <1>1 DEF CallsInv
    <3>2. d # c
      BY <1>2, <3>1
    <3> QED
      BY <1>2, <1>3, <3>1, <3>2
  <2>4. \A d \in Callers : cpc'[d] \in {"id", "insert"} => results'[d] = <<>>
    BY <1>1, <1>2, <1>3 DEF CallsInv
  <2>5. RightAnswer'
    BY <1>1, <1>2 DEF CallsInv, RightAnswer
  <2> QED
    BY <2>1, <2>2, <2>3, <2>4, <2>5 DEF CallsInv
<1>7. FramesInv' /\ RefusedInv'
  BY <1>1, <1>2, <1>5, SameFrames
<1>8. ReadingInv' /\ Streams(input, wire, frames)' /\ ("callback" \in holders)'
  BY <1>1, <1>2 DEF ReadingInv, Streams
<1> QED
  BY <1>4, <1>6, <1>7, <1>8 DEF RpcInv

(* CallMethod() enters a call that has no result yet.                       *)
LEMMA InsertStep ==
  ASSUME RpcInv, NEW c \in Callers, Insert(c)
  PROVE  RpcInv'
<1>1. /\ RpcTypes /\ CallsInv /\ FramesInv /\ RefusedInv /\ ReadingInv
      /\ Streams(input, wire, frames) /\ "callback" \in holders
  BY DEF RpcInv
<1>2. /\ cpc[c] = "insert" /\ outstandings' = outstandings \cup {<<id[c], c>>}
      /\ cpc' = [cpc EXCEPT ![c] = "send"]
      /\ UNCHANGED <<asks, id, lastId, results, wire, input, reading, frames, conn, serving,
                     holders, refused>>
  BY DEF Insert, Goes, StepAfter, connVars
<1>3. cpc'[c] = "send" /\ \A d \in Callers : d # c => cpc'[d] = cpc[d]
  BY <1>1, <1>2 DEF RpcTypes
<1>4. RpcTypes'
  BY <1>1, <1>2 DEF RpcTypes
<1>5. CallersGoOn
  BY <1>2, <1>3 DEF CallersGoOn, Sent
<1>6. CallsInv'
  <2>1. \A d \in Callers : cpc'[d] # "id" <=> cpc[d] # "id"
    BY <1>2, <1>3
  <2>2. /\ \A d \in Callers : cpc'[d] # "id" => id'[d] <= lastId'
        /\ \A d, e \in Callers : cpc'[d] # "id" /\ cpc'[e] # "id" /\ id'[d] = id'[e] => d = e
    BY <1>1, <1>2, <2>1 DEF CallsInv
  <2>3. ASSUME NEW o \in outstandings'
        PROVE  \E d \in Callers : o = <<id'[d], d>> /\ cpc'[d] \in {"send", "called"} /\ results'[d] = <<>>
    <3>1. CASE o = <<id[c], c>>
      BY <1>1, <1>2, <1>3, <3>1 DEF CallsInv
    <3>2. CASE o \in outstandings
      <4>1. PICK d \in Callers : o = <<id[d], d>> /\ cpc[d] \in {"send", "called"} /\ results[d] = <<>>
        BY <1>1, <3>2 DEF CallsInv
      <4>2. d # c
        BY <1>2, <4>1
      <4> QED
        BY <1>2, <1>3, <4>1, <4>2
    <3> QED
      BY <1>2, <3>1, <3>2
  <2>4. \A d \in Callers : cpc'[d] \in {"id", "insert"} => results'[d] = <<>>
    BY <1>1, <1>2, <1>3 DEF CallsInv
  <2>5. RightAnswer'
    BY <1>1, <1>2 DEF CallsInv, RightAnswer
  <2> QED
    BY <2>2, <2>3, <2>4, <2>5 DEF CallsInv
<1>7. FramesInv' /\ RefusedInv'
  BY <1>1, <1>2, <1>5, SameFrames
<1>8. ReadingInv' /\ Streams(input, wire, frames)' /\ ("callback" \in holders)'
  BY <1>1, <1>2 DEF ReadingInv, Streams
<1> QED
  BY <1>4, <1>6, <1>7, <1>8 DEF RpcInv

(* What is on its way after TcpConnection::send().                          *)
LEMMA Sends ==
  ASSUME RpcTypes, NEW fs \in [Sides -> Seq(Seq(Bytes))], NEW buf, \A s \in Sides : Sound(buf[s], Bytes),
         Streams(buf, wire, fs), NEW side \in Sides, NEW bytes \in Seq(Bytes),
         SendAfter(fs, side, bytes),
         \A s \in Sides : \A i \in 1..Len(fs[s]) : fs[s][i] \in FramesTo(s)',
         bytes \in FramesTo(Other(side))',
         refused' => fs["server"] # <<>> /\ Head(fs["server"]) \in ForeignFrames
  PROVE  /\ wire' \in [Sides -> Seq(Bytes)] /\ frames' \in [Sides -> Seq(Seq(Bytes))]
         /\ Streams(buf, wire', frames')
         /\ \A s \in Sides : \A i \in 1..Len(frames'[s]) : frames'[s][i] \in FramesTo(s)'
         /\ RefusedInv'
<1> DEFINE o == Other(side)
<1>0. o \in Sides
  BY DEF Other, Sides
<1>1. /\ wire' \in [Sides -> Seq(Bytes)] /\ frames' \in [Sides -> Seq(Seq(Bytes))]
      /\ Streams(buf, wire', frames')
      /\ \A s \in Sides : s # o => frames'[s] = fs[s]
      /\ frames'[o] \in {fs[o], Append(fs[o], bytes)}
  BY Sending
<1>2. bytes \in FramesTo(o)'
  OBVIOUS
<1> HIDE DEF o
<1>3. fs[o] \in Seq(Seq(Bytes)) /\ \A i \in 1..Len(fs[o]) : fs[o][i] \in FramesTo(o)'
  BY <1>0
<1>4. /\ \A i \in 1..Len(Append(fs[o], bytes)) : Append(fs[o], bytes)[i] \in FramesTo(o)'
      /\ fs[o] # <<>> => Append(fs[o], bytes) # <<>> /\ Head(Append(fs[o], bytes)) = Head(fs[o])
  <2> DEFINE Z == FramesTo(o)'
             q == fs[o]
             S == Seq(Bytes)
  <2>1. q \in Seq(S) /\ bytes \in S /\ bytes \in Z /\ \A i \in 1..Len(q) : q[i] \in Z
    BY <1>2, <1>3
  <2> HIDE DEF Z, q, S
  <2>2. /\ \A e \in S : e \in Z => \A i \in 1..Len(Append(q, e)) : Append(q, e)[i] \in Z
        /\ \A e \in S : q # <<>> => Append(q, e) # <<>> /\ Head(Append(q, e)) = Head(q)
    BY <2>1, StillInside
  <2>3. /\ \A i \in 1..Len(Append(q, bytes)) : Append(q, bytes)[i] \in Z
        /\ q # <<>> => Append(q, bytes) # <<>> /\ Head(Append(q, bytes)) = Head(q)
    BY <2>1, <2>2
  <2> QED
    BY <2>3 DEF Z, q
<1>5. ASSUME NEW s \in Sides, NEW i \in 1..Len(frames'[s]) PROVE frames'[s][i] \in FramesTo(s)'
  <2>1. CASE s = o
    BY <1>1, <1>3, <1>4, <2>1
  <2>2. CASE s # o
    BY <1>1, <2>2
  <2> QED
    BY <2>1, <2>2
<1>6. RefusedInv'
  <2> SUFFICES ASSUME refused' PROVE frames'["server"] # <<>> /\ Head(frames'["server"]) \in ForeignFrames
    BY DEF RefusedInv
  <2>1. CASE o = "server"
    BY <1>1, <1>4, <2>1
  <2>2. CASE o # "server"
    BY <1>1, <2>2, SidesFacts
  <2> QED
    BY <2>1, <2>2
<1> QED
  BY <1>1, <1>5, <1>6

(* CallMethod() sends the request, once the call is in the map.             *)
LEMMA SendRequestStep ==
  ASSUME RpcInv, NEW c \in Callers, SendRequest(c)
  PROVE  RpcInv'
<1>1. /\ RpcTypes /\ CallsInv /\ FramesInv /\ RefusedInv /\ ReadingInv
      /\ Streams(input, wire, frames) /\ "callback" \in holders
  BY DEF RpcInv
<1>2. /\ cpc[c] = "send" /\ SendAfter(frames, "client", RpcFrame(Request(c)))
      /\ cpc' = [cpc EXCEPT ![c] = "called"]
      /\ UNCHANGED <<asks, id, lastId, outstandings, results, input, reading, conn, serving, holders,
                     refused>>
  BY DEF SendRequest, Send, RpcFrame, Goes, StepAfter
<1>3. cpc'[c] = "called" /\ \A d \in Callers : d # c => cpc'[d] = cpc[d]
  BY <1>1, <1>2 DEF RpcTypes
<1>4. CallersGoOn
  BY <1>2, <1>3 DEF CallersGoOn, Sent
<1>5. /\ \A s \in Sides : \A i \in 1..Len(frames[s]) : frames[s][i] \in FramesTo(s)'
      /\ serving \subseteq Requests'
  BY <1>1, <1>4, FramesGoOn
<1>6. Request(c) \in Messages /\ RpcFrame(Request(c)) \in Seq(Bytes)
  BY <1>1, MessagesTyped, FramesTyped
<1>7. RpcFrame(Request(c)) \in FramesTo("server")'
  <2>1. c \in Sent' /\ Request(c)' = Request(c)
    BY <1>2, <1>3 DEF Sent, Request
  <2> QED
    BY <2>1 DEF FramesTo
<1>8. /\ wire' \in [Sides -> Seq(Bytes)] /\ frames' \in [Sides -> Seq(Seq(Bytes))]
      /\ Streams(input, wire', frames')
      /\ \A s \in Sides : \A i \in 1..Len(frames'[s]) : frames'[s][i] \in FramesTo(s)'
      /\ RefusedInv'
  <2>1. frames \in [Sides -> Seq(Seq(Bytes))] /\ \A s \in Sides : Sound(input[s], Bytes)
    BY <1>1 DEF RpcTypes
  <2>2. refused' => frames["server"] # <<>> /\ Head(frames["server"]) \in ForeignFrames
    BY <1>1, <1>2 DEF RefusedInv
  <2> QED
    BY <1>1, <1>2, <1>5, <1>6, <1>7, <2>1, <2>2, SidesFacts, Sends
<1>9. RpcTypes'
  BY <1>1, <1>2, <1>8 DEF RpcTypes
<1>10. CallsInv'
  <2>1. \A d \in Callers : cpc'[d] # "id" <=> cpc[d] # "id"
    BY <1>2, <1>3
  <2>2. /\ \A d \in Callers : cpc'[d] # "id" => id'[d] <= lastId'
        /\ \A d, e \in Callers : cpc'[d] # "id" /\ cpc'[e] # "id" /\ id'[d] = id'[e] => d = e
    BY <1>1, <1>2, <2>1 DEF CallsInv
  <2>3. ASSUME NEW q \in outstandings'
        PROVE  \E d \in Callers : q = <<id'[d], d>> /\ cpc'[d] \in {"send", "called"} /\ results'[d] = <<>>
    <3>1. PICK d \in Callers : q = <<id[d], d>> /\ cpc[d] \in {"send", "called"} /\ results[d] = <<>>
      BY <1>1, <1>2 DEF CallsInv
    <3> QED
      BY <1>2, <1>3, <3>1
  <2>4. \A d \in Callers : cpc'[d] \in {"id", "insert"} => results'[d] = <<>>
    BY <1>1, <1>2, <1>3 DEF CallsInv
  <2>5. RightAnswer'
    BY <1>1, <1>2 DEF CallsInv, RightAnswer
  <2> QED
    BY <2>2, <2>3, <2>4, <2>5 DEF CallsInv
<1>11. FramesInv'
  BY <1>2, <1>5, <1>8 DEF FramesInv
<1>12. ReadingInv' /\ Streams(input, wire, frames)' /\ ("callback" \in holders)'
  BY <1>1, <1>2, <1>8 DEF ReadingInv, Streams
<1> QED
  BY <1>8, <1>9, <1>10, <1>11, <1>12 DEF RpcInv

(* The steps of a loop that change no caller and no frame.                  *)
LEMMA CallsKept ==
  ASSUME CallsInv, UNCHANGED <<asks, cpc, id, lastId, outstandings, results>>
  PROVE  CallsInv' /\ CallersGoOn
<1>1. RightAnswer'
  BY DEF CallsInv, RightAnswer
<1>2. CallsInv'
  BY <1>1 DEF CallsInv
<1> QED
  BY <1>2 DEF CallersGoOn, Sent

(* A read moves bytes from the wire to the end of the buffer.               *)
LEMMA ReceiveStep ==
  ASSUME RpcInv, NEW s \in Sides, Receive(s)
  PROVE  RpcInv'
<1>1. /\ RpcTypes /\ CallsInv /\ FramesInv /\ RefusedInv /\ ReadingInv
      /\ Streams(input, wire, frames) /\ "callback" \in holders
  BY DEF RpcInv
<1>2. /\ conn[s] # "kDisconnected" /\ reading' = [reading EXCEPT ![s] = TRUE]
      /\ UNCHANGED <<asks, cpc, id, lastId, outstandings, results, conn, serving, holders, frames, refused>>
  BY DEF Receive
<1>3. PICK k \in Pieces :
        LET n == IF k = 0 THEN Len(wire[s]) ELSE k IN
          /\ 0 < n /\ n <= Len(wire[s])
          /\ input' = [input EXCEPT ![s] = ReadFd(@, SubSeq(wire[s], 1, n))]
          /\ wire' = [wire EXCEPT ![s] = SubSeq(@, n + 1, Len(@))]
  BY DEF Receive
<1> DEFINE n == IF k = 0 THEN Len(wire[s]) ELSE k
           w == wire[s]
           b == input[s]
           got == SubSeq(w, 1, n)
           rest == SubSeq(w, n + 1, Len(w))
           a == ReadFd(b, got)
<1>4. 0 < n /\ n <= Len(w) /\ input' = [input EXCEPT ![s] = a] /\ wire' = [wire EXCEPT ![s] = rest]
  BY <1>3
<1>5. w \in Seq(Bytes) /\ Sound(b, Bytes) /\ 0 \in Bytes
  BY <1>1, Constants DEF RpcTypes
<1> HIDE DEF n, w, b
<1>6. n \in Nat /\ n <= Len(w) /\ Len(w) \in Nat
  <2>1. Len(w) \in Nat
    BY <1>5, LenProperties
  <2>2. n \in Nat
    BY <2>1, RpcAssumption DEF n, w
  <2> QED
    BY <1>4, <2>1, <2>2
<1>7. got \in Seq(Bytes) /\ rest \in Seq(Bytes) /\ got \o rest = w
  BY <1>5, <1>6, Cutting
<1> HIDE DEF got, rest
<1>8. Sound(a, Bytes) /\ Content(a) = Content(b) \o got
  BY <1>5, <1>7, ReadFdAppendsAll
<1>9. Content(b) \in Seq(Bytes)
  BY <1>5, ContentFacts
<1> DEFINE c == Content(b)
<1> HIDE DEF c, a
<1>10. (c \o got) \o rest = c \o (got \o rest)
  <2>1. c \in Seq(Bytes)
    BY <1>9 DEF c
  <2>2. got \in Seq(Bytes) /\ rest \in Seq(Bytes)
    BY <1>7
  <2> QED
    BY <2>1, <2>2, ConcatAssociative
<1>11. Content(a) \o rest = Content(b) \o w
  BY <1>7, <1>8, <1>10 DEF c
<1>12. a \in [mem : Seq(Bytes), r : Nat, w : Nat]
  BY <1>8 DEF Sound
<1>13. /\ input'[s] = a /\ wire'[s] = rest
       /\ \A t \in Sides : t # s => input'[t] = input[t] /\ wire'[t] = wire[t]
  BY <1>1, <1>4 DEF RpcTypes
<1>14. RpcTypes'
  <2>1. \A t \in Sides : Sound(input'[t], Bytes)
    <3>1. \A t \in Sides : Sound(input[t], Bytes)
      BY <1>1 DEF RpcTypes
    <3> QED
      BY <1>8, <1>13, <3>1
  <2>2. /\ input' \in [Sides -> [mem : Seq(Bytes), r : Nat, w : Nat]]
        /\ wire' \in [Sides -> Seq(Bytes)] /\ reading' \in [Sides -> BOOLEAN]
    BY <1>1, <1>2, <1>4, <1>7, <1>12 DEF RpcTypes
  <2> QED
    BY <1>1, <1>2, <2>1, <2>2 DEF RpcTypes
<1>15. CallsInv' /\ CallersGoOn
  BY <1>1, <1>2, CallsKept
<1>16. FramesInv' /\ RefusedInv'
  BY <1>1, <1>2, <1>15, SameFrames
<1>17. ReadingInv' /\ ("callback" \in holders)'
  BY <1>1, <1>2 DEF ReadingInv, RpcTypes
<1>18. Streams(input, wire, frames)'
  <2> SUFFICES ASSUME NEW t \in Sides, conn'[t] # "kDisconnected"
               PROVE  Content(input'[t]) \o wire'[t] = Stream(frames'[t])
    BY DEF Streams
  <2>1. Content(input[t]) \o wire[t] = Stream(frames'[t])
    BY <1>1, <1>2 DEF Streams
  <2>2. CASE t = s
    BY <1>11, <1>13, <2>1, <2>2 DEF b, w
  <2>3. CASE t # s
    BY <1>13, <2>1, <2>3
  <2> QED
    BY <2>2, <2>3
<1> QED
  BY <1>14, <1>15, <1>16, <1>17, <1>18 DEF RpcInv

(* onMessage() returns and waits for the rest of a frame.                   *)
LEMMA IncompleteStep ==
  ASSUME RpcInv, NEW s \in Sides, Incomplete(s)
  PROVE  RpcInv'
<1>1. /\ RpcTypes /\ CallsInv /\ FramesInv /\ RefusedInv /\ ReadingInv
      /\ Streams(input, wire, frames) /\ "callback" \in holders
  BY DEF RpcInv
<1>2. /\ reading' = [reading EXCEPT ![s] = FALSE]
      /\ UNCHANGED <<asks, cpc, id, lastId, outstandings, results, wire, input, frames, conn, serving,
                     holders, refused>>
  BY DEF Incomplete
<1>3. RpcTypes' /\ ReadingInv' /\ ("callback" \in holders)'
  BY <1>1, <1>2 DEF RpcTypes, ReadingInv
<1>4. CallsInv' /\ CallersGoOn
  BY <1>1, <1>2, CallsKept
<1>5. FramesInv' /\ RefusedInv'
  BY <1>1, <1>2, <1>4, SameFrames
<1>6. Streams(input, wire, frames)'
  BY <1>1, <1>2 DEF Streams
<1> QED
  BY <1>3, <1>4, <1>5, <1>6 DEF RpcInv

(* onMessage() reports a frame; it stays at the front.                      *)
LEMMA RefuseStep ==
  ASSUME RpcInv, NEW s \in Sides, Refuse(s)
  PROVE  RpcInv'
<1>1. /\ RpcTypes /\ CallsInv /\ FramesInv /\ RefusedInv /\ ReadingInv
      /\ Streams(input, wire, frames) /\ "callback" \in holders
  BY DEF RpcInv
<1>2. /\ reading[s] /\ NextFrame(input[s]) \notin {"incomplete", "kNoError"}
      /\ reading' = [reading EXCEPT ![s] = FALSE]
      /\ conn' = [conn EXCEPT ![s] = IF @ = "kConnected" THEN "kDisconnecting" ELSE @]
      /\ UNCHANGED <<asks, cpc, id, lastId, outstandings, results, wire, input, frames, serving, holders>>
  BY DEF Refuse, OnError
<1>3. \A t \in Sides : conn'[t] = "kDisconnected" <=> conn[t] = "kDisconnected"
  BY <1>1, <1>2 DEF RpcTypes
<1>4. RpcTypes' /\ ("callback" \in holders)'
  BY <1>1, <1>2 DEF RpcTypes
<1>5. ReadingInv'
  BY <1>1, <1>2, <1>3 DEF RpcTypes, ReadingInv
<1>6. CallsInv' /\ CallersGoOn
  BY <1>1, <1>2, CallsKept
<1>7. FramesInv'
  BY <1>1, <1>2, <1>6, SameFrames
<1>8. RefusedInv'
  <2>1. frames["server"] # <<>> /\ Head(frames["server"]) \in ForeignFrames
    BY <1>2, Refusing
  <2> QED
    BY <1>2, <2>1 DEF RefusedInv
<1>9. Streams(input, wire, frames)'
  BY <1>1, <1>2, <1>3 DEF Streams
<1> QED
  BY <1>4, <1>5, <1>6, <1>7, <1>8, <1>9 DEF RpcInv

(* A side goes down; the connection's callback still owns the channel.      *)
LEMMA DownStep ==
  ASSUME RpcInv, NEW s \in Sides, Down(s)
  PROVE  RpcInv'
<1>1. /\ RpcTypes /\ CallsInv /\ FramesInv /\ RefusedInv /\ ReadingInv
      /\ Streams(input, wire, frames) /\ "callback" \in holders
  BY DEF RpcInv
<1>2. /\ ~reading[s] /\ conn' = [conn EXCEPT ![s] = "kDisconnected"]
      /\ UNCHANGED <<asks, cpc, id, lastId, outstandings, results, wire, input, reading, frames,
                     serving, refused>>
  BY DEF Down, connVars
<1>3. \A t \in Sides : conn'[t] # "kDisconnected" => conn[t] # "kDisconnected"
  BY <1>1, <1>2 DEF RpcTypes
<1>4. RpcTypes'
  BY <1>1, <1>2 DEF RpcTypes
<1>5. ReadingInv'
  BY <1>1, <1>2 DEF RpcTypes, ReadingInv
<1>6. ("callback" \in holders)'
  BY <1>1 DEF Down
<1>7. CallsInv' /\ CallersGoOn
  BY <1>1, <1>2, CallsKept
<1>8. FramesInv' /\ RefusedInv'
  BY <1>1, <1>2, <1>7, SameFrames
<1>9. Streams(input, wire, frames)'
  BY <1>1, <1>2, <1>3 DEF Streams
<1> QED
  BY <1>4, <1>5, <1>6, <1>7, <1>8, <1>9 DEF RpcInv

(* A frame of another protocol leaves the client.                           *)
LEMMA SendForeignStep ==
  ASSUME RpcInv, SendForeign
  PROVE  RpcInv'
<1>1. /\ RpcTypes /\ CallsInv /\ FramesInv /\ RefusedInv /\ ReadingInv
      /\ Streams(input, wire, frames) /\ "callback" \in holders
  BY DEF RpcInv
<1>2. UNCHANGED <<asks, cpc, id, lastId, outstandings, results, input, reading, conn, serving, holders,
                  refused>>
  BY DEF SendForeign
<1>3. PICK f \in ForeignFrames : SendAfter(frames, "client", f)
  BY DEF SendForeign
<1>4. CallsInv' /\ CallersGoOn
  BY <1>1, <1>2, CallsKept
<1>5. /\ \A s \in Sides : \A i \in 1..Len(frames[s]) : frames[s][i] \in FramesTo(s)'
      /\ serving \subseteq Requests'
  BY <1>1, <1>4, FramesGoOn
<1>6. f \in Seq(Bytes) /\ f \in FramesTo("server")'
  BY <1>3, FramesTyped DEF FramesTo
<1>7. /\ wire' \in [Sides -> Seq(Bytes)] /\ frames' \in [Sides -> Seq(Seq(Bytes))]
      /\ Streams(input, wire', frames')
      /\ \A s \in Sides : \A i \in 1..Len(frames'[s]) : frames'[s][i] \in FramesTo(s)'
      /\ RefusedInv'
  <2>1. frames \in [Sides -> Seq(Seq(Bytes))] /\ \A s \in Sides : Sound(input[s], Bytes)
    BY <1>1 DEF RpcTypes
  <2>2. refused' => frames["server"] # <<>> /\ Head(frames["server"]) \in ForeignFrames
    BY <1>1, <1>2 DEF RefusedInv
  <2> QED
    BY <1>1, <1>3, <1>5, <1>6, <2>1, <2>2, SidesFacts, Sends
<1>8. RpcTypes'
  BY <1>1, <1>2, <1>7 DEF RpcTypes
<1>9. FramesInv'
  BY <1>2, <1>5, <1>7 DEF FramesInv
<1>10. ReadingInv' /\ Streams(input, wire, frames)' /\ ("callback" \in holders)'
  BY <1>1, <1>2, <1>7 DEF ReadingInv, Streams
<1> QED
  BY <1>4, <1>7, <1>8, <1>9, <1>10 DEF RpcInv

(* The frames on their way once a side has taken its first one.             *)
LEMMA Taken ==
  ASSUME RpcTypes, FramesInv, CallersGoOn, NEW s \in Sides, frames[s] # <<>>
  PROVE  /\ Head(frames[s]) \in FramesTo(s)
         /\ \A t \in Sides : \A i \in 1..Len([frames EXCEPT ![s] = Tail(@)][t]) :
              [frames EXCEPT ![s] = Tail(@)][t][i] \in FramesTo(t)'
<1>1. /\ \A t \in Sides : \A i \in 1..Len(frames[t]) : frames[t][i] \in FramesTo(t)'
      /\ \A i \in 1..Len(frames[s]) : frames[s][i] \in FramesTo(s)
      /\ frames[s] \in Seq(Seq(Bytes))
  BY FramesGoOn DEF FramesInv, RpcTypes
<1>2. Head(frames[s]) \in FramesTo(s)
  BY <1>1, StillInside
<1>3. \A i \in 1..Len(Tail(frames[s])) : Tail(frames[s])[i] \in FramesTo(s)'
  <2> DEFINE Z == FramesTo(s)'
             q == frames[s]
             S == Seq(Bytes)
  <2>1. q \in Seq(S) /\ q # <<>> /\ \A i \in 1..Len(q) : q[i] \in Z
    BY <1>1
  <2> HIDE DEF Z, q, S
  <2>2. \A i \in 1..Len(Tail(q)) : Tail(q)[i] \in Z
    BY <2>1, StillInside
  <2> QED
    BY <2>2 DEF Z, q
<1> DEFINE taken == [frames EXCEPT ![s] = Tail(@)]
<1>4. taken[s] = Tail(frames[s]) /\ \A t \in Sides : t # s => taken[t] = frames[t]
  BY DEF RpcTypes
<1> HIDE DEF taken
<1>5. \A t \in Sides : \A i \in 1..Len(taken[t]) : taken[t][i] \in FramesTo(t)'
  BY <1>1, <1>3, <1>4
<1> QED
  BY <1>2, <1>5 DEF taken

(* doneCallback() answers a request that was sent.                          *)
LEMMA DoneStep ==
  ASSUME RpcInv, NEW m \in serving, Done(m)
  PROVE  RpcInv'
<1>1. /\ RpcTypes /\ CallsInv /\ FramesInv /\ RefusedInv /\ ReadingInv
      /\ Streams(input, wire, frames) /\ "callback" \in holders
  BY DEF RpcInv
<1>2. PICK c \in Sent : m = Request(c)
  BY <1>1 DEF FramesInv, Requests
<1>3. c \in Callers /\ Response(m.id, m.body, m.from) = AnswerTo(c)
  BY <1>2 DEF Sent, Request, AnswerTo
<1>4. /\ serving' = serving \ {m} /\ SendAfter(frames, "server", RpcFrame(AnswerTo(c)))
      /\ UNCHANGED <<asks, cpc, id, lastId, outstandings, results, input, reading, conn, holders, refused>>
  BY <1>3 DEF Done, Send, RpcFrame
<1>5. CallsInv' /\ CallersGoOn
  BY <1>1, <1>4, CallsKept
<1>6. /\ \A s \in Sides : \A i \in 1..Len(frames[s]) : frames[s][i] \in FramesTo(s)'
      /\ serving \subseteq Requests'
  BY <1>1, <1>5, FramesGoOn
<1>7. RpcFrame(AnswerTo(c)) \in Seq(Bytes)
  BY <1>1, <1>3, MessagesTyped, FramesTyped
<1>8. RpcFrame(AnswerTo(c)) \in FramesTo("client")'
  <2>1. RpcFrame(AnswerTo(c)) \in FramesTo("client")
    BY DEF FramesTo
  <2> QED
    BY <1>5, <2>1, StillSent, SidesFacts
<1>9. /\ wire' \in [Sides -> Seq(Bytes)] /\ frames' \in [Sides -> Seq(Seq(Bytes))]
      /\ Streams(input, wire', frames')
      /\ \A s \in Sides : \A i \in 1..Len(frames'[s]) : frames'[s][i] \in FramesTo(s)'
      /\ RefusedInv'
  <2>1. frames \in [Sides -> Seq(Seq(Bytes))] /\ \A s \in Sides : Sound(input[s], Bytes)
    BY <1>1 DEF RpcTypes
  <2>2. refused' => frames["server"] # <<>> /\ Head(frames["server"]) \in ForeignFrames
    BY <1>1, <1>4 DEF RefusedInv
  <2> QED
    BY <1>1, <1>4, <1>6, <1>7, <1>8, <2>1, <2>2, SidesFacts, Sends
<1>10. RpcTypes'
  BY <1>1, <1>4, <1>9 DEF RpcTypes
<1>11. FramesInv'
  BY <1>4, <1>6, <1>9 DEF FramesInv
<1>12. ReadingInv' /\ Streams(input, wire, frames)' /\ ("callback" \in holders)'
  BY <1>1, <1>4, <1>9 DEF ReadingInv, Streams
<1> QED
  BY <1>5, <1>9, <1>10, <1>11, <1>12 DEF RpcInv

(* A request is taken from the stream only when nothing was refused.        *)
LEMMA RequestTaken ==
  ASSUME RpcInv, OnRequest
  PROVE  /\ ~refused
         /\ \E c \in Sent :
              /\ NextMessage(input["server"]) = Request(c)
              /\ input' \in [Sides -> [mem : Seq(Bytes), r : Nat, w : Nat]]
              /\ \A t \in Sides : Sound(input'[t], Bytes)
              /\ [frames EXCEPT !["server"] = Tail(@)] \in [Sides -> Seq(Seq(Bytes))]
              /\ Streams(input', wire, [frames EXCEPT !["server"] = Tail(@)])
<1>1. Dispatch("server") /\ RpcTypes /\ FramesInv /\ RefusedInv
  BY DEF OnRequest, RpcInv
<1>2. /\ frames["server"] # <<>> /\ Head(frames["server"]) \notin ForeignFrames
      /\ \A m \in Messages :
           Head(frames["server"]) = RpcFrame(m) =>
             /\ NextMessage(input["server"]) = m
             /\ input' \in [Sides -> [mem : Seq(Bytes), r : Nat, w : Nat]]
             /\ \A t \in Sides : Sound(input'[t], Bytes)
             /\ [frames EXCEPT !["server"] = Tail(@)] \in [Sides -> Seq(Seq(Bytes))]
             /\ Streams(input', wire, [frames EXCEPT !["server"] = Tail(@)])
  BY <1>1, Taking, SidesFacts
<1>3. Head(frames["server"]) \in FramesTo("server")
  <2>1. /\ \A i \in 1..Len(frames["server"]) : frames["server"][i] \in FramesTo("server")
        /\ frames["server"] \in Seq(Seq(Bytes))
    BY <1>1, SidesFacts DEF FramesInv, RpcTypes
  <2> QED
    BY <1>2, <2>1, StillInside
<1>4. PICK c \in Sent : Head(frames["server"]) = RpcFrame(Request(c))
  BY <1>2, <1>3 DEF FramesTo
<1>5. Request(c) \in Messages
  BY <1>1, MessagesTyped DEF Sent
<1> QED
  BY <1>1, <1>2, <1>4, <1>5 DEF RefusedInv

(* onRpcMessage() of a request.                                             *)
LEMMA OnRequestStep ==
  ASSUME RpcInv, OnRequest
  PROVE  RpcInv'
<1> DEFINE taken == [frames EXCEPT !["server"] = Tail(@)]
<1>1. /\ RpcTypes /\ CallsInv /\ FramesInv /\ RefusedInv /\ ReadingInv
      /\ Streams(input, wire, frames) /\ "callback" \in holders
  BY DEF RpcInv
<1>2. ~refused
  BY RequestTaken
<1>3. PICK c \in Sent :
        /\ NextMessage(input["server"]) = Request(c)
        /\ input' \in [Sides -> [mem : Seq(Bytes), r : Nat, w : Nat]]
        /\ \A t \in Sides : Sound(input'[t], Bytes)
        /\ taken \in [Sides -> Seq(Seq(Bytes))]
        /\ Streams(input', wire, taken)
  BY RequestTaken
<1>4. UNCHANGED <<asks, cpc, id, lastId, outstandings, results, reading, conn, holders, refused>>
  BY DEF OnRequest
<1>5. CallsInv' /\ CallersGoOn
  BY <1>1, <1>4, CallsKept
<1>6. \/ serving' = serving \cup {Request(c)} /\ frames' = taken /\ wire' = wire
      \/ SendAfter(taken, "server", RpcFrame(AnswerTo(c))) /\ serving' = serving
  <2>1. Response(Request(c).id, Request(c).body, Request(c).from) = AnswerTo(c)
    BY DEF Request, AnswerTo
  <2> QED
    BY <1>3, <2>1 DEF OnRequest, Send, RpcFrame
<1>7. serving \subseteq Requests' /\ Request(c) \in Requests'
  <2>1. Request(c) \in Requests
    BY DEF Requests
  <2> QED
    BY <1>1, <1>5, <2>1, StillSent DEF FramesInv
<1>8. \A t \in Sides : \A i \in 1..Len(taken[t]) : taken[t][i] \in FramesTo(t)'
  <2>1. frames["server"] # <<>>
    BY <1>1, Taking, SidesFacts DEF OnRequest
  <2> QED
    BY <1>1, <1>5, <2>1, SidesFacts, Taken
<1> HIDE DEF taken
<1>9. /\ wire' \in [Sides -> Seq(Bytes)] /\ frames' \in [Sides -> Seq(Seq(Bytes))]
      /\ Streams(input', wire', frames')
      /\ \A s \in Sides : \A i \in 1..Len(frames'[s]) : frames'[s][i] \in FramesTo(s)'
      /\ RefusedInv' /\ serving' \subseteq Requests'
  <2>1. CASE serving' = serving \cup {Request(c)} /\ frames' = taken /\ wire' = wire
    BY <1>1, <1>2, <1>3, <1>4, <1>7, <1>8, <2>1 DEF RpcTypes, RefusedInv
  <2>2. CASE SendAfter(taken, "server", RpcFrame(AnswerTo(c))) /\ serving' = serving
    <3>1. RpcFrame(AnswerTo(c)) \in Seq(Bytes)
      BY <1>1, MessagesTyped, FramesTyped DEF Sent
    <3>2. RpcFrame(AnswerTo(c)) \in FramesTo("client")'
      <4>1. RpcFrame(AnswerTo(c)) \in FramesTo("client")
        BY DEF FramesTo
      <4> QED
        BY <1>5, <4>1, StillSent, SidesFacts
    <3> DEFINE buf == input'
    <3>3. Streams(buf, wire, taken) /\ \A t \in Sides : Sound(buf[t], Bytes)
      BY <1>3
    <3>4. ~refused'
      BY <1>2, <1>4
    <3> HIDE DEF buf
    <3>5. /\ wire' \in [Sides -> Seq(Bytes)] /\ frames' \in [Sides -> Seq(Seq(Bytes))]
          /\ Streams(buf, wire', frames')
          /\ \A s \in Sides : \A i \in 1..Len(frames'[s]) : frames'[s][i] \in FramesTo(s)'
          /\ RefusedInv'
      BY <1>1, <1>3, <1>8, <2>2, <3>1, <3>2, <3>3, <3>4, SidesFacts, Sends
    <3> QED
      BY <1>7, <2>2, <3>5 DEF buf
  <2> QED
    BY <1>6, <2>1, <2>2
<1>10. RpcTypes'
  BY <1>1, <1>3, <1>4, <1>9 DEF RpcTypes
<1>11. FramesInv'
  BY <1>9 DEF FramesInv
<1>12. ReadingInv' /\ Streams(input, wire, frames)' /\ ("callback" \in holders)'
  BY <1>1, <1>4, <1>9 DEF ReadingInv, Streams
<1> QED
  BY <1>5, <1>9, <1>10, <1>11, <1>12 DEF RpcInv

(* The answer to c ends the call of c, and no other.                        *)
LEMMA AnswerFinds ==
  ASSUME RpcTypes, CallsInv, NEW c \in Sent, Found(id[c]) # {}
  PROVE  Found(id[c]) = {<<id[c], c>>} /\ results[c] = <<>>
<1>1. ASSUME NEW o \in Found(id[c]) PROVE o = <<id[c], c>> /\ results[c] = <<>>
  <2>1. o \in outstandings /\ o[1] = id[c]
    BY DEF Found
  <2>2. PICK d \in Callers : o = <<id[d], d>> /\ cpc[d] \in {"send", "called"} /\ results[d] = <<>>
    BY <2>1 DEF CallsInv
  <2>3. d = c
    BY <2>1, <2>2 DEF CallsInv, Sent
  <2> QED
    BY <2>2, <2>3
<1> QED
  BY <1>1

(* onRpcMessage() of a response.                                            *)
LEMMA OnResponseStep ==
  ASSUME RpcInv, OnResponse
  PROVE  RpcInv'
<1> DEFINE taken == [frames EXCEPT !["client"] = Tail(@)]
<1>1. /\ RpcTypes /\ CallsInv /\ FramesInv /\ RefusedInv /\ ReadingInv
      /\ Streams(input, wire, frames) /\ "callback" \in holders
  BY DEF RpcInv
<1>2. /\ Dispatch("client") /\ frames' = taken
      /\ UNCHANGED <<asks, cpc, id, lastId, wire, reading, conn, serving, holders, refused>>
  BY DEF OnResponse
<1>3. CallersGoOn
  BY <1>2 DEF CallersGoOn, Sent
<1>4. /\ frames["client"] # <<>>
      /\ \A m \in Messages :
           Head(frames["client"]) = RpcFrame(m) =>
             /\ NextMessage(input["client"]) = m
             /\ input' \in [Sides -> [mem : Seq(Bytes), r : Nat, w : Nat]]
             /\ \A t \in Sides : Sound(input'[t], Bytes)
             /\ taken \in [Sides -> Seq(Seq(Bytes))]
             /\ Streams(input', wire, taken)
  BY <1>2, Taking, SidesFacts
<1>5. /\ Head(frames["client"]) \in FramesTo("client")
      /\ \A t \in Sides : \A i \in 1..Len(taken[t]) : taken[t][i] \in FramesTo(t)'
  BY <1>1, <1>3, <1>4, SidesFacts, Taken
<1>6. PICK c \in Sent : Head(frames["client"]) = RpcFrame(AnswerTo(c))
  BY <1>5 DEF FramesTo
<1>7. c \in Callers /\ AnswerTo(c) \in Messages
  BY <1>1, MessagesTyped DEF Sent
<1>8. /\ NextMessage(input["client"]) = AnswerTo(c)
      /\ input' \in [Sides -> [mem : Seq(Bytes), r : Nat, w : Nat]]
      /\ \A t \in Sides : Sound(input'[t], Bytes)
      /\ taken \in [Sides -> Seq(Seq(Bytes))]
      /\ Streams(input', wire, taken)
  BY <1>4, <1>6, <1>7
<1>9. RefusedInv'
  <2>1. taken["server"] = frames["server"]
    BY <1>1, SidesFacts DEF RpcTypes
  <2> QED
    BY <1>1, <1>2, <2>1 DEF RefusedInv
<1> HIDE DEF taken
<1>10. \/ outstandings' = outstandings /\ results' = results
       \/ /\ results[c] = <<>> /\ outstandings' = outstandings \ {<<id[c], c>>}
          /\ results' = [results EXCEPT ![c] = <<<<asks[c], c>>>>]
  <2> DEFINE m == AnswerTo(c)
  <2>1. m.id = id[c] /\ m.body = asks[c] /\ m.from = c
    BY DEF AnswerTo, Response
  <2> HIDE DEF m
  <2>2. IF Found(m.id) = {} THEN UNCHANGED <<outstandings, results>>
        ELSE LET o == CHOOSE o \in Found(m.id) : TRUE IN
             /\ outstandings' = outstandings \ {o}
             /\ results' = [results EXCEPT ![o[2]] = Append(@, <<m.body, m.from>>)]
    BY <1>8 DEF OnResponse, m
  <2>3. CASE Found(id[c]) = {}
    BY <2>1, <2>2, <2>3
  <2>4. CASE Found(id[c]) # {}
    <3>1. Found(id[c]) = {<<id[c], c>>} /\ results[c] = <<>>
      BY <1>1, <2>4, AnswerFinds
    <3> DEFINE call == CHOOSE o \in Found(m.id) : TRUE
    <3>2. call = <<id[c], c>> /\ call[2] = c
      BY <2>1, <3>1
    <3>3. /\ outstandings' = outstandings \ {<<id[c], c>>}
          /\ results' = [results EXCEPT ![c] = Append(results[c], <<asks[c], c>>)]
      <4>1. /\ outstandings' = outstandings \ {call}
            /\ results' = [results EXCEPT ![call[2]] = Append(results[call[2]], <<m.body, m.from>>)]
        BY <2>1, <2>2, <2>4
      <4> HIDE DEF call
      <4> QED
        BY <2>1, <3>2, <4>1
    <3>4. Append(<<>>, <<asks[c], c>>) = <<<<asks[c], c>>>>
      OBVIOUS
    <3> QED
      BY <3>1, <3>3, <3>4
  <2> QED
    BY <2>3, <2>4
<1>11. CallsInv' /\ results' \in [Callers -> Seq(Outcomes \X Callers)]
  <2>1. CASE outstandings' = outstandings /\ results' = results
    BY <1>1, <1>2, <2>1, CallsKept DEF RpcTypes
  <2>2. CASE /\ results[c] = <<>> /\ outstandings' = outstandings \ {<<id[c], c>>}
             /\ results' = [results EXCEPT ![c] = <<<<asks[c], c>>>>]
    <3>1. /\ results'[c] = <<<<asks[c], c>>>>
          /\ \A d \in Callers : d # c => results'[d] = results[d]
      BY <1>1, <1>7, <2>2 DEF RpcTypes
    <3>2. results' \in [Callers -> Seq(Outcomes \X Callers)]
      <4>1. <<asks[c], c>> \in Outcomes \X Callers
        BY <1>1, <1>7 DEF RpcTypes
      <4>2. <<<<asks[c], c>>>> \in Seq(Outcomes \X Callers)
        BY <4>1
      <4> QED
        BY <1>1, <2>2, <4>2 DEF RpcTypes
    <3>3. /\ \A d \in Callers : cpc'[d] # "id" => id'[d] <= lastId'
          /\ \A d, e \in Callers : cpc'[d] # "id" /\ cpc'[e] # "id" /\ id'[d] = id'[e] => d = e
      BY <1>1, <1>2 DEF CallsInv
    <3>4. ASSUME NEW o \in outstandings'
          PROVE  \E d \in Callers : o = <<id'[d], d>> /\ cpc'[d] \in {"send", "called"} /\ results'[d] = <<>>
      <4>1. PICK d \in Callers : o = <<id[d], d>> /\ cpc[d] \in {"send", "called"} /\ results[d] = <<>>
        BY <1>1, <2>2 DEF CallsInv
      <4>2. d # c
        BY <2>2, <4>1
      <4> QED
        BY <1>2, <3>1, <4>1, <4>2
    <3>5. \A d \in Callers : cpc'[d] \in {"id", "insert"} => results'[d] = <<>>
      <4>1. cpc'[c] = "called"
        BY <1>2 DEF Sent
      <4> QED
        BY <1>1, <1>2, <3>1, <4>1 DEF CallsInv
    <3>6. RightAnswer'
      BY <1>1, <1>2, <3>1 DEF CallsInv, RightAnswer
    <3> QED
      BY <3>2, <3>3, <3>4, <3>5, <3>6 DEF CallsInv
  <2> QED
    BY <1>10, <2>1, <2>2
<1>12. RpcTypes'
  BY <1>1, <1>2, <1>8, <1>11 DEF RpcTypes
<1>13. FramesInv'
  <2>1. serving \subseteq Requests'
    BY <1>1, <1>3, FramesGoOn
  <2> QED
    BY <1>2, <1>5, <2>1 DEF FramesInv
<1>14. ReadingInv' /\ Streams(input, wire, frames)' /\ ("callback" \in holders)'
  BY <1>1, <1>2, <1>8 DEF ReadingInv, Streams
<1> QED
  BY <1>9, <1>11, <1>12, <1>13, <1>14 DEF RpcInv

(* No step breaks the invariant.                                            *)
LEMMA RpcSteps == RpcInv /\ [Next]_vars => RpcInv'
<1> SUFFICES ASSUME RpcInv, [Next]_vars PROVE RpcInv'
  OBVIOUS
<1>1. ASSUME NEW c \in Callers, CallMethod(c) PROVE RpcInv'
  BY <1>1, TakeIdStep, InsertStep, SendRequestStep DEF CallMethod
<1>2. ASSUME NEW s \in Sides, LoopStep(s) PROVE RpcInv'
  BY <1>2, ReceiveStep, IncompleteStep, RefuseStep, OnResponseStep, OnRequestStep DEF LoopStep
<1>3. CASE Answer
  BY <1>3, DoneStep DEF Answer
<1>4. CASE UNCHANGED vars
  <2>1. /\ RpcTypes /\ CallsInv /\ FramesInv /\ RefusedInv /\ ReadingInv
        /\ Streams(input, wire, frames) /\ "callback" \in holders
    BY DEF RpcInv
  <2>2. UNCHANGED <<asks, cpc, id, lastId, outstandings, results, wire, input, reading, frames, conn,
                    serving, holders, refused>>
    BY <1>4 DEF vars, connVars
  <2>3. CallsInv' /\ CallersGoOn
    BY <2>1, <2>2, CallsKept
  <2>4. FramesInv' /\ RefusedInv'
    BY <2>1, <2>2, <2>3, SameFrames
  <2>5. RpcTypes' /\ ReadingInv' /\ Streams(input, wire, frames)' /\ ("callback" \in holders)'
    BY <2>1, <2>2 DEF RpcTypes, ReadingInv, Streams
  <2> QED
    BY <2>3, <2>4, <2>5 DEF RpcInv
<1> QED
  BY <1>1, <1>2, <1>3, <1>4, DownStep, SendForeignStep DEF Next

(* The invariant always holds.                                              *)
LEMMA RpcAlways == Spec => []RpcInv
  BY RpcInit, RpcSteps, PTL DEF Spec

(* A call's closure is run at most once, and with the answer to its own     *)
(* request: handleResponse() of RpcChannel takes the call out of the map    *)
(* under the lock, by an id that no other call was given.                   *)
THEOREM CallsGetTheirAnswer == Spec => []RightAnswer
<1>1. RpcInv => RightAnswer
  BY DEF RpcInv, CallsInv
<1> QED
  BY <1>1, RpcAlways, PTL

(* However TCP cuts the stream, what the codec has still to handle is what  *)
(* was sent: no byte is lost, made or moved by the buffers.                 *)
THEOREM StreamIsReassembled == Spec => []StreamReassembles
<1>1. RpcInv => StreamReassembles
  BY DEF RpcInv, Streams, StreamReassembles
<1> QED
  BY <1>1, RpcAlways, PTL

(* A service that answers late finds the channel its closure refers to.     *)
THEOREM LateAnswerStaysSafe == Spec => []LateAnswerIsSafe
<1>1. RpcInv => LateAnswerIsSafe
  BY DEF RpcInv, LateAnswerIsSafe
<1> QED
  BY <1>1, RpcAlways, PTL

(* After a frame that the codec refuses, no request is handed to a service: *)
(* the frame stays at the front of the buffer, and is refused again.        *)
THEOREM NothingIsServedAfterRefusal == Spec => NothingAfterRefusal
<1>1. RpcInv /\ [Next]_vars => [refused => serving' \subseteq serving]_vars
  <2> SUFFICES ASSUME RpcInv, Next, refused PROVE serving' \subseteq serving
    BY DEF vars
  <2>1. ~OnRequest
    BY RequestTaken
  <2> QED
    BY <2>1 DEF Next, CallMethod, TakeId, Insert, SendRequest, LoopStep, Receive, Incomplete, Refuse,
                OnResponse, Down, Answer, Done, SendForeign
<1> QED
  BY <1>1, RpcAlways, PTL DEF Spec, NothingAfterRefusal

=============================================================================
