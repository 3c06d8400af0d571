---------------------------- MODULE MCHttpServer ----------------------------
(* Requests for the page of commands, for a command with a query, for what  *)
(* is not there, with and without keep-alive, and one of an unknown method. *)
EXTENDS HttpServer

MCRequest(method, path, query, version, connection) ==
  [method |-> method, path |-> path, query |-> query, version |-> version, connection |-> connection]

MCRequests ==
  {MCRequest("GET", <<"/">>, <<>>, "HTTP/1.1", <<>>),
   MCRequest("GET", <<"/", "m", "/", "c">>, <<"q">>, "HTTP/1.0", <<"Keep-Alive">>),
   MCRequest("POST", <<"/", "m">>, <<>>, "HTTP/1.0", <<>>),
   MCRequest("PUT", <<"/", "favicon.ico">>, <<>>, "HTTP/1.1", <<"close">>),
   MCRequest("BREW", <<"/">>, <<>>, "HTTP/1.1", <<>>)}

MCCommands == {<<"m", "c">>}

=============================================================================
