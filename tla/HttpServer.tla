----------------------------- MODULE HttpServer -----------------------------
(***************************************************************************)
(* muduo::net::HttpServer on one connection: a client sends requests, the   *)
(* loop reads them in pieces, parses them and calls httpCallback_, which is *)
(* the default one or Inspector::onRequest(); other threads meanwhile       *)
(* register and remove commands of the Inspector.  The connection is        *)
(* reduced to what the server uses: send() does nothing once shutdown() has *)
(* been called.                                                             *)
(***************************************************************************)
EXTENDS HttpContext

CONSTANTS
  Requests,     \* the requests clients make: records as Text() takes them
  Commands,     \* pairs of a module and a command
  Handlers,     \* what httpCallback_ may be: "default", "inspector"
  Pieces,       \* bound: sizes of what a read returns (0: all there is)
  MaxRequests,  \* bound: requests of the client
  MaxChanges    \* bound: calls of add() and remove()

VARIABLES
  stream,       \* the client's requests; never changes
  pipelining,   \* may the client send before it has its answers?
  handler,      \* httpCallback_; never changes
  sent,         \* how many requests the client has sent
  wire,         \* text on its way to the server
  input,        \* inputBuffer_
  ctx,          \* the HttpContext in the connection's context
  pc,           \* the loop: "idle", in "httpCallback" or in a "command"
  conn,         \* state_ of the connection
  answers,      \* what the server has sent
  handled,      \* history: the requests httpCallback_ has been called with
  modules,      \* modules_: the registered pairs
  helps,        \* helps_: the pairs with a help text
  changes       \* calls of add() and remove()

inspectorVars == <<modules, helps, changes>>
vars == <<stream, pipelining, handler, sent, wire, input, ctx, pc, conn, answers, handled, inspectorVars>>

Init ==
  /\ stream \in UNION {[1..n -> Requests] : n \in 1..MaxRequests}
  /\ pipelining \in BOOLEAN /\ handler \in Handlers
  /\ sent = 0 /\ wire = <<>> /\ input = NewBuffer /\ ctx = NewContext
  /\ pc = "idle" /\ conn = "kConnected" /\ answers = <<>> /\ handled = <<>>
  /\ modules \in {{}, Commands} /\ helps = modules /\ changes = 0

----------------------------------------------------------------------------
(* The text of a request: its line, its headers, an empty line.             *)
Text(r) ==
  <<r.method, SP>> \o r.path \o (IF r.query = <<>> THEN <<>> ELSE <<"?">> \o r.query)
    \o <<SP, r.version, CR, LF>>
    \o (IF r.connection = <<>> THEN <<>>
        ELSE <<"Connection", ":", SP>> \o r.connection \o <<SP, CR, LF>>)
    \o <<CR, LF>>

Send ==
  /\ sent < Len(stream)
  /\ pipelining \/ Len(answers) = sent
  /\ wire' = wire \o Text(stream[sent + 1])
  /\ sent' = sent + 1
  /\ UNCHANGED <<stream, pipelining, handler, input, ctx, pc, conn, answers, handled, inspectorVars>>

----------------------------------------------------------------------------
(* TcpConnection::send() and shutdown().                                    *)
Sends(answer, shutdown) ==
  /\ answers' = IF conn = "kConnected" THEN Append(answers, answer) ELSE answers
  /\ conn' = IF shutdown THEN "kDisconnecting" ELSE conn

(* appendToBuffer(): a body goes with its length unless the connection      *)
(* closes after it.                                                         *)
AppendToBuffer(status, close, body) ==
  [status |-> status, close |-> close, length |-> IF close THEN "none" ELSE "given", body |-> body]

(* The two texts that onMessage() sends itself have no headers.             *)
BadRequest == [status |-> 400, close |-> FALSE, length |-> "none", body |-> 0]

(* Mutant: a refused request line is not reported.                          *)
OutcomeLenient(p) == IF GotAll(p.ctx) THEN "complete" ELSE "incomplete"

Outcome(p) ==
  CASE ~p.ok -> "refused"
    [] p.ok /\ GotAll(p.ctx) -> "complete"
    [] OTHER -> "incomplete"

(* A read of the loop, and onMessage() up to httpCallback_.                 *)
OnMessage(n) ==
  LET p == ParseRequest(ctx, ReadFd(input, SubSeq(wire, 1, n)))
      outcome == Outcome(p)
  IN  /\ pc = "idle"
      /\ 0 < n /\ n <= Len(wire)
      /\ n <= Writable(input) + ExtraBytes
      /\ wire' = After(wire, n) /\ input' = p.buf /\ ctx' = p.ctx
      /\ pc' = IF outcome = "complete" THEN "httpCallback" ELSE "idle"
      /\ handled' = IF outcome = "complete" THEN Append(handled, p.ctx.request) ELSE handled
      /\ IF outcome = "refused" THEN Sends(BadRequest, TRUE) ELSE UNCHANGED <<answers, conn>>
      /\ UNCHANGED <<stream, pipelining, handler, sent, inspectorVars>>

Read == \E k \in Pieces : OnMessage(IF k = 0 THEN Len(wire) ELSE k)

(* close of onRequest().                                                    *)
Close(request) ==
  LET connection == GetHeader(request, <<"Connection">>)
  IN  \/ connection = <<"close">>
      \/ request.version = "kHttp10" /\ connection # <<"Keep-Alive">>

(* Mutant: reset() leaves the state.                                        *)
ResetRequest(c) == [c EXCEPT !.request = NewRequest]

Reset(c) == NewContext

(* Mutant: the connection is closed as the request asks, whatever the       *)
(* callback has said.                                                       *)
RespondedAsAsked(status, close, body) ==
  /\ Sends(AppendToBuffer(status, close, body), Close(ctx.request))
  /\ ctx' = Reset(ctx)
  /\ pc' = "idle"

(* The rest of onRequest() and of onMessage() once httpCallback_ returns.   *)
Responded(status, close, body) ==
  /\ Sends(AppendToBuffer(status, close, body), close)
  /\ ctx' = Reset(ctx)
  /\ pc' = "idle"

serverOnly == <<stream, pipelining, handler, sent, wire, input, handled, inspectorVars>>

DefaultHttpCallback ==
  /\ pc = "httpCallback" /\ handler = "default"
  /\ Responded(404, TRUE, 0)
  /\ UNCHANGED serverOnly

----------------------------------------------------------------------------
SplitPath(path) == SelectSeq(path, LAMBDA part : part # "/")

(* The registered command that the path begins with, if there is one.       *)
Found(request) == {c \in modules : IsPrefix(c, SplitPath(request.path))}

(* The page of all commands: a line for each, under the mutex.              *)
Index ==
  /\ pc = "httpCallback" /\ handler = "inspector"
  /\ ctx.request.path = <<"/">>
  /\ Responded(200, Close(ctx.request), Cardinality(helps))
  /\ UNCHANGED serverOnly

NotFound ==
  /\ pc = "httpCallback" /\ handler = "inspector"
  /\ ctx.request.path # <<"/">>
  /\ Found(ctx.request) = {}
  /\ Responded(404, Close(ctx.request), 0)
  /\ UNCHANGED serverOnly

(* The command runs, and the mutex is held until it returns.                *)
RunCommand ==
  /\ pc = "httpCallback" /\ handler = "inspector"
  /\ ctx.request.path # <<"/">>
  /\ Found(ctx.request) # {}
  /\ pc' = "command"
  /\ UNCHANGED <<serverOnly, ctx, conn, answers>>

CommandReturns ==
  /\ pc = "command"
  /\ Responded(200, Close(ctx.request), 1)
  /\ UNCHANGED serverOnly

(* Mutant: the command is looked up under the mutex and called without it.  *)
LockedNever == FALSE

(* mutex_ while other threads may want it.                                  *)
Locked == pc = "command"

Change ==
  /\ ~Locked /\ handler = "inspector"
  /\ changes < MaxChanges /\ changes' = changes + 1
  /\ UNCHANGED <<stream, pipelining, handler, sent, wire, input, ctx, pc, conn, answers, handled>>

Add(c) ==
  /\ Change
  /\ modules' = modules \cup {c} /\ helps' = helps \cup {c}

RemoveCommand(c) ==
  /\ Change
  /\ modules' = modules \ {c} /\ helps' = helps \ {c}

Loop == Read \/ DefaultHttpCallback \/ Index \/ NotFound \/ RunCommand \/ CommandReturns

Next == Send \/ Loop \/ \E c \in Commands : Add(c) \/ RemoveCommand(c)

Spec == Init /\ [][Next]_vars

(* The loop goes on, and so does the client: weak fairness, with what        *)
(* enables each step written out.                                           *)
Fairness ==
  /\ <>[](pc # "idle" \/ wire # <<>>) => []<><<Loop>>_vars
  /\ <>[](sent < Len(stream) /\ (pipelining \/ Len(answers) = sent)) => []<><<Send>>_vars

FairSpec == Spec /\ Fairness

----------------------------------------------------------------------------
(* What a request means, and whether the server can take it.                *)
Meaning(r) ==
  [method |-> r.method, path |-> r.path, query |-> r.query,
   version |-> IF r.version = "HTTP/1.1" THEN "kHttp11" ELSE "kHttp10",
   headers |-> IF r.connection = <<>> THEN NoHeaders ELSE [k \in {<<"Connection">>} |-> r.connection]]

Good(r) == r.method \in Methods /\ r.version \in {"HTTP/1.0", "HTTP/1.1"}

(* However the text is cut into reads, and however the buffer moves and     *)
(* grows, httpCallback_ is called with what the client asked, once and in   *)
(* the client's order, and with nothing from a refused request on           *)
(* (HttpContext.cc:43, HttpServer.cc:65).                                   *)
RequestsAsSent ==
  /\ Len(handled) <= Len(stream)
  /\ \A i \in DOMAIN handled :
       /\ handled[i] = Meaning(stream[i])
       /\ \A j \in 1..i : Good(stream[j])

(* The client can tell where each answer ends: one without its length, or   *)
(* that announces the end, is the last, and the connection is closed after  *)
(* it (HttpResponse.cc:16, HttpServer.cc:82).                               *)
AnswersDelimited ==
  \A i \in DOMAIN answers :
    answers[i].close \/ answers[i].length = "none" =>
      i = Len(answers) /\ conn = "kDisconnecting"

(* After remove() has returned the command does not run: the mutex is held  *)
(* while it is called, so what it refers to may be destroyed                *)
(* (Inspector.cc:124).                                                      *)
RemovedIsNotRunning ==
  pc = "command" => Found(ctx.request) # {}

(* A client that waits for each answer before it asks again has an answer   *)
(* to each request, until one of them closes the connection                 *)
(* (HttpServer.cc:46).                                                      *)
WaitingClientIsAnswered ==
  \A n \in 1..MaxRequests :
    (~pipelining /\ sent = n) ~> (Len(answers) >= n \/ conn # "kConnected")

=============================================================================
