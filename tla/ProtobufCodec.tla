---------------------------- MODULE ProtobufCodec ----------------------------
(***************************************************************************)
(* ProtobufCodecLite on Buffer: a frame is a length, the tag, the message   *)
(* and a checksum.                                                          *)
(***************************************************************************)
EXTENDS Buffer

CONSTANTS
  IntLen,          \* kHeaderLen and kChecksumLen, 4
  Tag,             \* tag_
  MaxMessageLen    \* kMaxMessageLen

(* kMaxMessageLen is far below the largest length the field can hold.       *)
ASSUME CodecAssumption ==
  /\ IntLen \in Nat \ {0} /\ IntLen <= CheapPrepend
  /\ Tag \in Seq(Nat)
  /\ MaxMessageLen \in Nat /\ 2 * (MaxMessageLen + 1) <= Power[IntLen]

MinMessageLen == Len(Tag) + IntLen

(* External: protobuf's serialization of an RpcMessage and its inverse, and *)
(* adler32(), here a weighted sum.                                          *)
Serialize(m) == <<m.type, m.id, m.body, m.from>>
Deserialize(bytes) == [type |-> bytes[1], id |-> bytes[2], body |-> bytes[3], from |-> bytes[4]]
Parsable(bytes) == Len(bytes) = 4 /\ bytes[1] > 0
Adler32(bytes) ==
  LET sum[i \in 0..Len(bytes)] == IF i = 0 THEN 1 ELSE 3 * sum[i - 1] + bytes[i] + 1
  IN  sum[Len(bytes)]
Checksum(bytes) == HostToNetwork(Adler32(bytes), IntLen)

(* fillEmptyBuffer(): the length is put in front at the end.                *)
FillEmptyBuffer(m) ==
  LET tagged == Append1(NewBuffer, Tag)
      full == Written(EnsureWritableBytes(tagged, Len(Serialize(m)) + IntLen), Serialize(m))
      summed == Append1(full, Checksum(Content(full)))
  IN  PrependInt(summed, Readable(summed), IntLen)

(* Frames of a peer that speaks another protocol: a wrong length, checksum, *)
(* tag and payload.                                                         *)
ForeignFrames ==
  LET Framed(len, bytes, sum) == HostToNetwork(len, IntLen) \o bytes \o sum
      bytes == Tag \o <<0, 0, 0, 0>>
      untagged == [bytes EXCEPT ![1] = 0]
      len == Len(bytes) + IntLen
  IN  {Framed(MaxMessageLen + 1, bytes, Checksum(bytes)),
       Framed(-1, bytes, Checksum(bytes)),
       Framed(len, bytes, Checksum(Tag)),
       Framed(len, untagged, Checksum(untagged)),
       Framed(len, bytes, Checksum(bytes))}

(* validateChecksum() and parse() of a frame's body.                        *)
Checked(body) ==
  LET n == Len(body) - IntLen
  IN  SubSeq(body, n + 1, Len(body)) = Checksum(SubSeq(body, 1, n))

Parse(body) ==
  LET payload == SubSeq(body, Len(Tag) + 1, Len(body) - IntLen)
  IN  IF ~Checked(body) THEN "kCheckSumError"
      ELSE IF SubSeq(body, 1, Len(Tag)) # Tag THEN "kUnknownMessageType"
      ELSE IF ~Parsable(payload) THEN "kParseError"
      ELSE "kNoError"

Complete(b, len) == Readable(b) >= IntLen + len

(* What the next turn of the loop in onMessage() finds.                     *)
NextFrame(b) ==
  LET len == PeekInt(b, IntLen)
      body == SubSeq(Content(b), IntLen + 1, IntLen + len)
  IN  IF Readable(b) < MinMessageLen + IntLen THEN "incomplete"
      ELSE IF len > MaxMessageLen \/ len < MinMessageLen THEN "kInvalidLength"
      ELSE IF ~Complete(b, len) THEN "incomplete"
      ELSE Parse(body)

(* The message, and the buffer after retrieve(), when that is kNoError.     *)
NextMessage(b) ==
  Deserialize(SubSeq(Content(b), IntLen + Len(Tag) + 1, PeekInt(b, IntLen)))
AfterFrame(b) == Retrieve(b, IntLen + PeekInt(b, IntLen))

=============================================================================
