--------------------------- MODULE ChannelRegistry ---------------------------
(***************************************************************************)
(* What a Poller promises to its EventLoop.  Every registered channel has a *)
(* set of events it is interested in; changing one channel's interest or    *)
(* forgetting the channel disturbs no other; only registered channels are   *)
(* reported, and a channel that is still to be reported is not forgotten.   *)
(***************************************************************************)
CONSTANTS Channels, Events

VARIABLES
  interest,   \* the registered channels' interest, a function
  reporting   \* the channels whose events are still to be handled

Init == interest = [c \in {} |-> {}] /\ reporting = {}

Set(c, evs) ==
  /\ interest' = [d \in DOMAIN interest \cup {c} |->
                    IF d = c THEN evs ELSE interest[d]]
  /\ UNCHANGED reporting

Forget(c) ==
  /\ c \in DOMAIN interest \ reporting
  /\ interest' = [d \in DOMAIN interest \ {c} |-> interest[d]]
  /\ UNCHANGED reporting

Report(S) ==
  /\ reporting = {}
  /\ S \subseteq DOMAIN interest
  /\ reporting' = S
  /\ UNCHANGED interest

Deliver(c) ==
  /\ c \in reporting
  /\ reporting' = reporting \ {c}
  /\ UNCHANGED interest

Next ==
  \/ \E c \in Channels :
       Forget(c) \/ Deliver(c) \/ \E evs \in SUBSET Events : Set(c, evs)
  \/ \E S \in SUBSET Channels : Report(S)

Spec == Init /\ [][Next]_<<interest, reporting>>

=============================================================================
