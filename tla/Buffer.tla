------------------------------- MODULE Buffer -------------------------------
(***************************************************************************)
(* muduo::net::Buffer as operators on a record: mem is buffer_, r and w are *)
(* readerIndex_ and writerIndex_ (offsets; mem[1] is at offset 0).  What    *)
(* the code asserts of an argument is the caller's duty.                    *)
(***************************************************************************)
EXTENDS Integers, Sequences

CONSTANTS
  CheapPrepend,  \* kCheapPrepend
  InitialSize,   \* kInitialSize
  ByteBase,      \* values of a byte, 256
  ExtraBytes     \* sizeof extraBuffer in readFd()

ASSUME BufferAssumption ==
  /\ CheapPrepend \in Nat /\ InitialSize \in Nat /\ ExtraBytes \in Nat
  /\ ByteBase \in Nat /\ ByteBase > 1

Zeros(n) == [i \in 1..n |-> 0]

NewBuffer ==
  [mem |-> Zeros(CheapPrepend + InitialSize), r |-> CheapPrepend, w |-> CheapPrepend]

Readable(b) == b.w - b.r
Writable(b) == Len(b.mem) - b.w
Prependable(b) == b.r
Content(b) == SubSeq(b.mem, b.r + 1, b.w)

(* std::ranges::copy of data to the offset at.                              *)
Copied(mem, data, at) ==
  [i \in 1..Len(mem) |-> IF at < i /\ i <= at + Len(data) THEN data[i - at] ELSE mem[i]]

(* vector::resize().                                                        *)
Resized(mem, n) == [i \in 1..n |-> IF i <= Len(mem) THEN mem[i] ELSE 0]

RetrieveAll(b) == [b EXCEPT !.r = CheapPrepend, !.w = CheapPrepend]

Retrieve(b, len) ==
  IF len < Readable(b) THEN [b EXCEPT !.r = b.r + len] ELSE RetrieveAll(b)

Unwrite(b, len) == [b EXCEPT !.w = b.w - len]

HasWritten(b, len) == [b EXCEPT !.w = b.w + len]

MustGrow(b, len) == Writable(b) + Prependable(b) < len + CheapPrepend

MovedToFront(b) ==
  [b EXCEPT !.mem = Copied(b.mem, Content(b), CheapPrepend),
            !.r = CheapPrepend, !.w = CheapPrepend + Readable(b)]

MakeSpace(b, len) ==
  IF MustGrow(b, len) THEN [b EXCEPT !.mem = Resized(b.mem, b.w + len)] ELSE MovedToFront(b)

EnsureWritableBytes(b, len) == IF Writable(b) < len THEN MakeSpace(b, len) ELSE b

(* Bytes put where beginWrite() points, then hasWritten().                  *)
Written(b, data) ==
  HasWritten([b EXCEPT !.mem = Copied(b.mem, data, b.w)], Len(data))

Append1(b, data) == Written(EnsureWritableBytes(b, Len(data)), data)

Prepend(b, data) ==
  [b EXCEPT !.mem = Copied(b.mem, data, b.r - Len(data)), !.r = b.r - Len(data)]

Shrink(b, reserve) ==
  Append1(EnsureWritableBytes(NewBuffer, Readable(b) + reserve), Content(b))

(* readFd() when the socket gives data, at most Writable(b) + ExtraBytes.   *)
ReadFd(b, data) ==
  IF Len(data) <= Writable(b) THEN Written(b, data)
  ELSE Append1(Written(b, SubSeq(data, 1, Writable(b))),
               SubSeq(data, Writable(b) + 1, Len(data)))

----------------------------------------------------------------------------
(* Integers of n bytes, in network byte order, two's complement.            *)
Power[n \in Nat] == IF n = 0 THEN 1 ELSE ByteBase * Power[n - 1]

HostToNetwork(x, n) ==
  [i \in 1..n |-> ((x % Power[n]) \div Power[n - i]) % ByteBase]

Unsigned(bytes) ==
  LET value[i \in 0..Len(bytes)] == IF i = 0 THEN 0 ELSE ByteBase * value[i - 1] + bytes[i]
  IN  value[Len(bytes)]

NetworkToHost(bytes) ==
  LET u == Unsigned(bytes)
      m == Power[Len(bytes)]
  IN  IF 2 * u >= m THEN u - m ELSE u

AppendInt(b, x, n) == Append1(b, HostToNetwork(x, n))
PeekInt(b, n) == NetworkToHost(SubSeq(Content(b), 1, n))
PrependInt(b, x, n) == Prepend(b, HostToNetwork(x, n))
ReadInt(b, n) == Retrieve(b, n)

=============================================================================
