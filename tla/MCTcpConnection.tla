--------------------------- MODULE MCTcpConnection ---------------------------
(***************************************************************************)
(* Plain use, and uses in which the methods that end or pause a connection  *)
(* are called on the loop thread, or by another.                            *)
(***************************************************************************)
EXTENDS TcpConnection

MCCallSets ==
  {[loop |-> {"send", "shutdown"}, thread |-> {"send"}],
   [loop |-> {"send", "forceClose"}, thread |-> {}],
   [loop |-> {"forceCloseWithDelay", "startRead"}, thread |-> {"send"}],
   [loop |-> {"send", "stopRead"}, thread |-> {}],
   [loop |-> {"send"}, thread |-> {"shutdown"}],
   [loop |-> {"send"}, thread |-> {"forceClose"}],
   [loop |-> {}, thread |-> {"startRead", "stopRead"}]}

=============================================================================
