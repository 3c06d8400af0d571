----------------------------- MODULE HttpContext -----------------------------
(***************************************************************************)
(* muduo::net::HttpRequest and HttpContext as operators on records.  A      *)
(* character of the text is a word or a separator: what matters is where    *)
(* the separators are, and that a read may end between any two of them.     *)
(***************************************************************************)
EXTENDS Buffer, SequencesExt

CR == "CR"
LF == "LF"
SP == " "
Methods == {"GET", "POST", "HEAD", "PUT", "DELETE"}
NoHeaders == [k \in {} |-> <<>>]

NewRequest ==
  [method |-> "kInvalid", version |-> "kUnknown", path |-> <<>>, query |-> <<>>, headers |-> NoHeaders]

NewContext == [state |-> "kExpectRequestLine", request |-> NewRequest]

GotAll(ctx) == ctx.state = "kGotAll"

(* string_view::find(); 0 is npos.                                          *)
Find(text, char) == SelectInSeq(text, LAMBDA x : x = char)
After(text, i) == SubSeq(text, i + 1, Len(text))
Before(text, i) == SubSeq(text, 1, i - 1)

(* Where CR LF begins in what is readable, 0 if it does not.                *)
FindCRLF(b) ==
  LET text == Content(b)
      at == {i \in 1..Len(text) - 1 : text[i] = CR /\ text[i + 1] = LF}
  IN  IF at = {} THEN 0 ELSE Min(at)

(* The readable line, and retrieveUntil(crlf + 2).                          *)
Line(b) == Before(Content(b), FindCRLF(b))
RetrieveLine(b) == Retrieve(b, FindCRLF(b) + 1)

SetMethod(m) == IF Len(m) = 1 /\ m[1] \in Methods THEN m[1] ELSE "kInvalid"

SetVersion(v) ==
  CASE v = <<"HTTP/1.1">> -> "kHttp11" [] v = <<"HTTP/1.0">> -> "kHttp10" [] OTHER -> "kUnknown"

(* setPath() and setQuery() of a uri.                                       *)
SetUri(request, uri) ==
  LET questionPos == Find(uri, "?")
  IN  IF questionPos = 0 THEN [request EXCEPT !.path = uri]
      ELSE [request EXCEPT !.path = Before(uri, questionPos), !.query = After(uri, questionPos)]

(* What processRequestLine() leaves in request_, and what it returns.       *)
ProcessRequestLine(request, line) ==
  LET methodEnd == Find(line, SP)
      method == SetMethod(Before(line, methodEnd))
      rest == After(line, methodEnd)
      versionBegin == Find(rest, SP)
      version == SetVersion(After(rest, versionBegin))
  IN  CASE methodEnd = 0 -> [ok |-> FALSE, request |-> request]
        [] methodEnd # 0 /\ (method = "kInvalid" \/ versionBegin = 0) ->
             [ok |-> FALSE, request |-> [request EXCEPT !.method = method]]
        [] OTHER ->
             [ok |-> version # "kUnknown",
              request |-> [SetUri(request, Before(rest, versionBegin))
                             EXCEPT !.method = method,
                                    !.version = IF version = "kUnknown" THEN @ ELSE version]]

(* The value without the blanks around it.                                  *)
Trim(value) ==
  LET IsText(x) == x # SP
      first == SelectInSeq(value, IsText)
  IN  IF first = 0 THEN <<>> ELSE SubSeq(value, first, SelectLastInSeq(value, IsText))

(* headers_[key] = value.                                                   *)
AddHeader(request, key, value) ==
  [request EXCEPT !.headers =
     [k \in DOMAIN @ \cup {key} |-> IF k = key THEN Trim(value) ELSE @[k]]]

GetHeader(request, key) ==
  IF key \in DOMAIN request.headers THEN request.headers[key] ELSE <<>>

(* A line after the first: a header, or, without a colon, the end.          *)
ProcessHeaderLine(ctx, line) ==
  LET colon == Find(line, ":")
  IN  IF colon = 0 THEN [ctx EXCEPT !.state = "kGotAll"]
      ELSE [ctx EXCEPT !.request = AddHeader(@, Before(line, colon), After(line, colon))]

(* parseRequest(): takes lines until the request is complete, the text ends *)
(* or the first line is refused; a refused line stays in the buffer.        *)
RECURSIVE ParseRequest(_, _)
ParseRequest(ctx, b) ==
  LET first == ProcessRequestLine(ctx.request, Line(b))
      begun == [state |-> IF first.ok THEN "kExpectHeaders" ELSE ctx.state, request |-> first.request]
  IN  CASE GotAll(ctx) \/ FindCRLF(b) = 0 -> [ok |-> TRUE, ctx |-> ctx, buf |-> b]
        [] ~GotAll(ctx) /\ FindCRLF(b) # 0 /\ ctx.state = "kExpectRequestLine" ->
             IF first.ok THEN ParseRequest(begun, RetrieveLine(b))
             ELSE [ok |-> FALSE, ctx |-> begun, buf |-> b]
        [] OTHER -> ParseRequest(ProcessHeaderLine(ctx, Line(b)), RetrieveLine(b))

=============================================================================
