------------------------------ MODULE Connector ------------------------------
(***************************************************************************)
(* muduo::net::Connector: one attempt after the other to open a             *)
(* connection, on the loop's thread, with a growing delay between them.     *)
(* The operators are its methods, from the connector before the call to the *)
(* connector after it; what they queue in the loop is left to the caller.   *)
(***************************************************************************)
EXTENDS FiniteSetsExt, Integers

CONSTANTS
  InitRetryDelay,  \* kInitRetryDelayMs
  MaxRetryDelay    \* kMaxRetryDelayMs

ASSUME RetryDelayAssumption ==
  /\ InitRetryDelay \in Nat \ {0}
  /\ MaxRetryDelay \in Nat
  /\ InitRetryDelay <= MaxRetryDelay

VARIABLE
  connector  \* state_, connect_, channel_, retryDelayMs_; the retry timers
             \* set and the descriptors open; history: the asserts held, and
             \* connect() met an error that it does not try again after

NewConnector ==
  [state |-> "kDisconnected", connect |-> FALSE, channel |-> "none",
   delay |-> InitRetryDelay, timers |-> 0, sockets |-> 0,
   asserts |-> TRUE, gaveUp |-> FALSE]

(* What connect(2) comes to: the result is awaited, another attempt is      *)
(* worth making, or none is.                                                *)
Outcomes == {"connecting", "retry", "error"}

(* Mutant: the attempt was the last one.                                    *)
RetryOnce(c) == [c EXCEPT !.state = "kDisconnected", !.sockets = @ - 1]

(* retry(): the timer holds the connector weakly, and stop() does not       *)
(* cancel it.                                                               *)
Retry(c) ==
  LET closed == [c EXCEPT !.state = "kDisconnected", !.sockets = @ - 1]
  IN  IF ~c.connect THEN closed
      ELSE [closed EXCEPT !.timers = @ + 1, !.delay = Min({2 * @, MaxRetryDelay})]

(* connecting(), with assert(!channel_).                                    *)
Connecting(c) ==
  [c EXCEPT !.state = "kConnecting", !.channel = "live",
            !.asserts = @ /\ c.channel = "none"]

Connect(c, outcome) ==
  LET opened == [c EXCEPT !.sockets = @ + 1]
  IN  CASE outcome = "connecting" -> Connecting(opened)
        [] outcome = "retry"      -> Retry(opened)
        [] outcome = "error"      -> [c EXCEPT !.gaveUp = TRUE]

(* startInLoop(), with assert(state_ == kDisconnected).                     *)
StartInLoop(c, outcome) ==
  LET d == [c EXCEPT !.asserts = @ /\ c.state = "kDisconnected"]
  IN  IF c.connect THEN Connect(d, outcome) ELSE d

(* Mutant: the state is left as the last connection left it.                *)
RestartKeepsState(c, outcome) ==
  StartInLoop([c EXCEPT !.delay = InitRetryDelay, !.connect = TRUE], outcome)

Restart(c, outcome) ==
  StartInLoop([c EXCEPT !.state = "kDisconnected", !.delay = InitRetryDelay,
                        !.connect = TRUE], outcome)

(* Mutant: the channel is not removed.                                      *)
RemoveChannelLater(c) == c

(* removeAndResetChannel(); the functor that resets channel_ comes later.   *)
RemoveChannel(c) == [c EXCEPT !.channel = "removed"]

(* resetChannel(): to reset a channel that is still in the poller would     *)
(* break the assertion of ~Channel().                                       *)
ResetChannel(c) == [c EXCEPT !.channel = "none", !.asserts = @ /\ c.channel # "live"]

StopInLoop(c) ==
  IF c.state = "kConnecting"
  THEN [RemoveChannel(c) EXCEPT !.state = "kDisconnected", !.sockets = @ - 1]
  ELSE c

(* handleError(), or handleWrite() that finds an error or itself at the     *)
(* other end.                                                               *)
AttemptFails(c) == Retry(RemoveChannel(c))

(* handleWrite(): the descriptor goes to newConnectionCallback_, unless the *)
(* connector was stopped meanwhile.                                         *)
AttemptSucceeds(c) ==
  [RemoveChannel(c) EXCEPT !.state = "kConnected",
                           !.sockets = IF c.connect THEN @ ELSE @ - 1]

(* ~Connector() on the loop's thread.                                       *)
Destroyed(c) == [c EXCEPT !.channel = "none"]

=============================================================================
