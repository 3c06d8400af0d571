----------------------------- MODULE MCLogging -----------------------------
(***************************************************************************)
(* Two files, one with a name too long for the cache of suffixes; a message *)
(* that fills the buffer; New York's two transitions of 2024, a zone east   *)
(* of UTC, and files that are links to a zone or not.                       *)
(***************************************************************************)
EXTENDS Logging

Text(n) == [kind |-> "text", unit |-> "x", len |-> n]
Number == [kind |-> "number", unit |-> "7", len |-> 1]

Call(api, severity, file, row, items) ==
  [api |-> api, level |-> severity, func |-> severity = "DEBUG", errno |-> severity = "ERROR",
   file |-> file, fileLen |-> IF file = "a_long_name.cc" THEN 3 ELSE 1, line |-> row, items |-> items]

Fatal == Call("stream", "FATAL", "b.cc", "20", <<Text(1)>>)

MCCalls1 ==
  {Fatal, Call("stream", "INFO", "a.cc", "10", <<Text(1), Number>>),
   Call("stream", "ERROR", "a.cc", "20", <<Text(7), Number, Text(1)>>),
   Call("stream", "DEBUG", "a_long_name.cc", "10", <<Text(2)>>),
   Call("format", "WARN", "a.cc", "10", <<Text(1)>>),
   Call("format", "FATAL", "a.cc", "20", <<Text(1)>>)}

MCThreads == {"t1", "t2"}
MCCalls == [t \in MCThreads |-> IF t = "t1" THEN MCCalls1 ELSE {Fatal}]
MCLevels == {"DEBUG", "FATAL"}

NewYork == Located(<<1710054000, 1730613600>>, <<-18000, -14400, -18000>>)
Database == [name \in {"America/New_York"} |-> NewYork]

MCZones ==
  {FixedZone(28800), LoadZone(Database, "America/New_York"), LoadZone(Database, "Nowhere"),
   LoadZoneFile(Database, [path |-> "elsewhere", link |-> "America/New_York"]),
   LoadZoneFile(Database, [path |-> "elsewhere", link |-> "elsewhere"])}

(* Before and after the clocks skip an hour, and in the hour before and the *)
(* hour after they repeat one.                                              *)
MCInstants == <<1710052200, 1710054000, 1710054001, 1730611800, 1730615400>>
MCYears == <<1900, 1999, 2000, 2024, 2100>>

=============================================================================
