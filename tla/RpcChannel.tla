------------------------------ MODULE RpcChannel ------------------------------
(***************************************************************************)
(* muduo::net::RpcChannel at both ends of a connection, over ProtobufCodec  *)
(* and Buffer.  Threads of the client call methods; the loop of each end    *)
(* reads what TCP delivers, in pieces of any size; the services of the      *)
(* server answer when they like.  RpcServer makes the server's channel.     *)
(***************************************************************************)
EXTENDS ProtobufCodec

CONSTANTS
  Callers,      \* threads that call one method each: 1..n
  Outcomes,     \* NO_ERROR, and the errors of calls that no service takes
  Pieces,       \* bound: sizes of what a read returns (0: all there is)
  Foreign       \* may the client's end also send a frame of another protocol?

(* A request or an answer is not longer than the other end accepts.         *)
ASSUME RpcAssumption ==
  /\ Pieces \subseteq Nat
  /\ Len(Tag) + 4 + IntLen <= MaxMessageLen

Sides == {"client", "server"}
Other(side) == IF side = "client" THEN "server" ELSE "client"

VARIABLES
  asks,           \* what comes of each caller's request; never changes
  cpc, id,        \* where the callers are in CallMethod(), their ids
  lastId,         \* id_
  outstandings,   \* outstandings_: pairs of an id and its caller
  results,        \* history: what done->Run() has found, for each caller
  wire,           \* the bytes on their way to each side
  input,          \* inputBuffer_ of each side
  reading,        \* is the side in the loop of onMessage()?
  conn,           \* state_ of each side's connection
  serving,        \* the requests the services are working on
  holders,        \* what owns the server's channel: the "context" and the message
                  \* "callback" of its connection
  frames,         \* history: the frames sent to each side and not yet retrieved
  refused         \* history: the server's codec has reported an error

connVars == <<wire, input, reading, frames>>
vars == <<asks, cpc, id, lastId, outstandings, results, connVars, conn, serving, holders, refused>>

(* MessageType and ErrorCode of rpc.proto.                                  *)
REQUEST == 1
RESPONSE == 2
NO_ERROR == 0

Request(c) == [type |-> REQUEST, id |-> id[c], body |-> asks[c], from |-> c]
Response(i, error, from) == [type |-> RESPONSE, id |-> i, body |-> error, from |-> from]

(* Mutant: the callback refers to the channel without owning it.            *)
OwnedByContext == {"context"}

(* onConnection() of RpcServer when the connection comes up.                *)
Owned == {"context", "callback"}

Init ==
  /\ asks \in [Callers -> Outcomes]
  /\ cpc = [c \in Callers |-> "id"] /\ id = [c \in Callers |-> 0]
  /\ lastId = 0 /\ outstandings = {} /\ results = [c \in Callers |-> <<>>]
  /\ wire = [s \in Sides |-> <<>>] /\ input = [s \in Sides |-> NewBuffer]
  /\ reading = [s \in Sides |-> FALSE] /\ frames = [s \in Sides |-> <<>>]
  /\ conn = [s \in Sides |-> "kConnected"]
  /\ serving = {} /\ holders = Owned /\ refused = FALSE

----------------------------------------------------------------------------
(* TcpConnection::send(): nothing unless connected.  What the other side    *)
(* will never read is not kept.  fs is what frames was before.              *)
SendAfter(fs, side, bytes) ==
  IF conn[side] = "kConnected" /\ conn[Other(side)] # "kDisconnected"
  THEN /\ wire' = [wire EXCEPT ![Other(side)] = @ \o bytes]
       /\ frames' = [fs EXCEPT ![Other(side)] = Append(@, bytes)]
  ELSE frames' = fs /\ UNCHANGED wire

(* codec_.send().                                                           *)
Send(fs, side, m) == SendAfter(fs, side, Content(FillEmptyBuffer(m)))

(* Mutant: the request is sent before the call is entered in the map.       *)
StepAfterSwapped(pc) == CASE pc = "id" -> "send" [] pc = "send" -> "insert" [] OTHER -> "called"

(* The order of CallMethod().                                               *)
StepAfter(pc) == CASE pc = "id" -> "insert" [] pc = "insert" -> "send" [] OTHER -> "called"

Goes(c) == cpc' = [cpc EXCEPT ![c] = StepAfter(cpc[c])]

TakeId(c) ==
  /\ cpc[c] = "id"
  /\ lastId' = lastId + 1
  /\ id' = [id EXCEPT ![c] = lastId + 1]
  /\ Goes(c)
  /\ UNCHANGED <<asks, outstandings, results, connVars, conn, serving, holders, refused>>

Insert(c) ==
  /\ cpc[c] = "insert"
  /\ outstandings' = outstandings \cup {<<id[c], c>>}
  /\ Goes(c)
  /\ UNCHANGED <<asks, id, lastId, results, connVars, conn, serving, holders, refused>>

SendRequest(c) ==
  /\ cpc[c] = "send"
  /\ Send(frames, "client", Request(c))
  /\ Goes(c)
  /\ UNCHANGED <<asks, id, lastId, outstandings, results, input, reading, conn, serving, holders,
                 refused>>

----------------------------------------------------------------------------
(* The loop of a side reads a piece and enters onMessage().                 *)
Receive(side) ==
  /\ conn[side] # "kDisconnected" /\ ~reading[side]
  /\ \E k \in Pieces :
       LET n == IF k = 0 THEN Len(wire[side]) ELSE k IN
       /\ 0 < n /\ n <= Len(wire[side])
       /\ n <= Writable(input[side]) + ExtraBytes
       /\ input' = [input EXCEPT ![side] = ReadFd(@, SubSeq(wire[side], 1, n))]
       /\ wire' = [wire EXCEPT ![side] = SubSeq(@, n + 1, Len(@))]
  /\ reading' = [reading EXCEPT ![side] = TRUE]
  /\ UNCHANGED <<asks, cpc, id, lastId, outstandings, results, conn, serving, holders, frames, refused>>

Incomplete(side) ==
  /\ reading[side]
  /\ NextFrame(input[side]) = "incomplete"
  /\ reading' = [reading EXCEPT ![side] = FALSE]
  /\ UNCHANGED <<asks, cpc, id, lastId, outstandings, results, wire, input, frames, conn, serving,
                 holders, refused>>

(* defaultErrorCallback(): shutdown(); the frame stays in the buffer.       *)
OnError(side) ==
  /\ reading' = [reading EXCEPT ![side] = FALSE]
  /\ conn' = [conn EXCEPT ![side] = IF @ = "kConnected" THEN "kDisconnecting" ELSE @]
  /\ UNCHANGED <<input, frames>>

Refuse(side) ==
  /\ reading[side]
  /\ NextFrame(input[side]) \notin {"incomplete", "kNoError"}
  /\ OnError(side)
  /\ refused' = TRUE
  /\ UNCHANGED <<asks, cpc, id, lastId, outstandings, results, wire, serving, holders>>

Dispatch(side) ==
  /\ reading[side]
  /\ NextFrame(input[side]) = "kNoError"
  /\ input' = [input EXCEPT ![side] = AfterFrame(@)]

(* Mutant: the answer goes to some call that is waiting.                    *)
FoundAny(i) == outstandings

Found(i) == {o \in outstandings : o[1] = i}

(* onRpcMessage() of a response: the call is taken out of the map, its      *)
(* closure is run.                                                          *)
OnResponse ==
  /\ Dispatch("client")
  /\ LET m == NextMessage(input["client"]) IN
       IF Found(m.id) = {} THEN UNCHANGED <<outstandings, results>>
       ELSE LET o == CHOOSE o \in Found(m.id) : TRUE IN
            /\ outstandings' = outstandings \ {o}
            /\ results' = [results EXCEPT ![o[2]] = Append(@, <<m.body, m.from>>)]
  /\ frames' = [frames EXCEPT !["client"] = Tail(@)]
  /\ UNCHANGED <<asks, cpc, id, lastId, wire, reading, conn, serving, holders, refused>>

(* onRpcMessage() of a request: the service is called, or an error is sent. *)
OnRequest ==
  /\ Dispatch("server")
  /\ LET m == NextMessage(input["server"])
         taken == [frames EXCEPT !["server"] = Tail(@)]
     IN  IF m.body = NO_ERROR
         THEN serving' = serving \cup {m} /\ frames' = taken /\ UNCHANGED wire
         ELSE Send(taken, "server", Response(m.id, m.body, m.from)) /\ UNCHANGED serving
  /\ UNCHANGED <<asks, cpc, id, lastId, outstandings, results, reading, conn, holders, refused>>

(* The service runs the closure: doneCallback().                            *)
Done(m) ==
  /\ m \in serving
  /\ serving' = serving \ {m}
  /\ Send(frames, "server", Response(m.id, m.body, m.from))
  /\ UNCHANGED <<asks, cpc, id, lastId, outstandings, results, input, reading, conn, holders, refused>>

----------------------------------------------------------------------------
(* The client's end sends a frame of another protocol, once.                *)
SendForeign ==
  /\ Foreign /\ ~refused /\ conn["client"] = "kConnected"
  /\ \A i \in DOMAIN frames["server"] : frames["server"][i] \notin ForeignFrames
  /\ \E f \in ForeignFrames : SendAfter(frames, "client", f)
  /\ UNCHANGED <<asks, cpc, id, lastId, outstandings, results, input, reading, conn, serving, holders,
                 refused>>

(* A side goes down: it closes the connection, or it has read the end of    *)
(* the stream.  RpcServer::onConnection() then resets the context.          *)
Down(side) ==
  /\ conn[side] # "kDisconnected" /\ ~reading[side]
  /\ \/ side = "client"
     \/ conn[Other(side)] # "kConnected" /\ wire[side] = <<>>
  /\ conn' = [conn EXCEPT ![side] = "kDisconnected"]
  /\ holders' = IF side = "server" THEN holders \ {"context"} ELSE holders
  /\ UNCHANGED <<asks, cpc, id, lastId, outstandings, results, connVars, serving, refused>>

CallMethod(c) == TakeId(c) \/ Insert(c) \/ SendRequest(c)

LoopStep(side) ==
  \/ Receive(side) \/ Incomplete(side) \/ Refuse(side)
  \/ side = "client" /\ OnResponse
  \/ side = "server" /\ OnRequest

Answer == \E m \in serving : Done(m)

Next ==
  \/ \E c \in Callers : CallMethod(c)
  \/ \E s \in Sides : LoopStep(s) \/ Down(s)
  \/ Answer
  \/ SendForeign

Spec == Init /\ [][Next]_vars

(* Threads and loops are scheduled, TCP delivers, services answer: the weak *)
(* fairness of CallMethod(c), LoopStep(s) and Answer, with their enabling   *)
(* conditions written out.                                                  *)
LoopEnabled(s) == reading[s] \/ (conn[s] # "kDisconnected" /\ wire[s] # <<>>)

FairSpec ==
  /\ Spec
  /\ \A c \in Callers : <>[](cpc[c] # "called") => []<><<CallMethod(c)>>_vars
  /\ \A s \in Sides : <>[]LoopEnabled(s) => []<><<LoopStep(s)>>_vars
  /\ <>[](serving # {}) => []<><<Answer>>_vars

----------------------------------------------------------------------------
(* A call's closure is run at most once, and with the answer to its own     *)
(* request, in whatever order the services answer.                          *)
RightAnswer == \A c \in Callers : results[c] \in {<<>>, <<<<asks[c], c>>>>}

(* A call returns, while both ends stay connected.                          *)
CallReturns ==
  \A c \in Callers :
    cpc[c] = "called" ~> results[c] # <<>> \/ \E s \in Sides : conn[s] # "kConnected"

(* Frames one after the other, as TCP has them.                             *)
Stream(fs) ==
  LET upTo[i \in 0..Len(fs)] == IF i = 0 THEN <<>> ELSE upTo[i - 1] \o fs[i]
  IN  upTo[Len(fs)]

(* However TCP cuts the stream, the unread bytes of the buffer followed by  *)
(* those on their way are the frames that were sent and not yet handled.    *)
StreamReassembles ==
  \A s \in Sides :
    conn[s] # "kDisconnected" => Content(input[s]) \o wire[s] = Stream(frames[s])

(* After a frame that the codec refuses, no request is handed to a service. *)
NothingAfterRefusal == [][refused => serving' \subseteq serving]_vars

(* A service that answers after the connection went down finds the channel  *)
(* its closure refers to: the connection's message callback, which nothing  *)
(* resets, owns it still (RpcServer.cc:33, RpcChannel.cc:113).              *)
LateAnswerIsSafe == serving # {} => holders # {}

=============================================================================
