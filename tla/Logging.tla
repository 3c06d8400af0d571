------------------------------ MODULE Logging ------------------------------
(***************************************************************************)
(* muduo::Logger and its interfaces: threads make lines with the streaming  *)
(* interface (logInfo() << x, a LogLine) and with the formatting one        *)
(* (logInfo("...", x), logFmt()).  Each thread has its own cache of the     *)
(* time's text and of the suffix with file and line; the level, the time    *)
(* zone and the clock are common.  A unit of a line's text is a field of    *)
(* its head, a unit of the message, the file, the line number or the end of *)
(* the line; the microseconds are left out.                                 *)
(***************************************************************************)
EXTENDS Calendar, SequencesExt

CONSTANTS
  Threads,
  Calls,        \* what each thread may log: sets of records
  Levels,       \* bound: arguments of setLogLevel()
  Zones,        \* arguments of setTimeZone()
  Instants,     \* bound: the seconds the clock shows, ascending
  SmallBuffer,  \* kSmallBuffer
  SuffixSize,   \* size of SuffixCache::suffix
  MaxNumeric,   \* kMaxNumericSize
  Years         \* bound: the years of the program's dates, one at a time

VARIABLES
  tick,         \* the clock shows Instants[tick]
  level, zone,  \* g_logLevel, g_logTimeZone
  pc, line,     \* each thread's place, and its Logger
  time, suffix, \* thread_local: t_lastSecond and t_time; SuffixCache
  unflushed,    \* threads with a line that g_output() has and g_flush() had not
  aborted,      \* std::abort()
  zoneChanged   \* history: setTimeZone() was called in this second

globals == <<tick, level, zone, zoneChanged>>
vars == <<globals, pc, line, time, suffix, unflushed, aborted>>

LogLevel == <<"TRACE", "DEBUG", "INFO", "WARN", "ERROR", "FATAL">>
Rank(l) == CHOOSE i \in DOMAIN LogLevel : LogLevel[i] = l

now == Instants[tick]
NoLine == [none |-> TRUE]

(* The cache starts with second 0 and no text.                              *)
Init ==
  /\ tick = 1 /\ level \in {"INFO", "TRACE", "DEBUG"} \cap Levels
  /\ zone = InvalidZone /\ zoneChanged = FALSE
  /\ pc = [t \in Threads |-> "idle"] /\ line = [t \in Threads |-> NoLine]
  /\ time = [t \in Threads |-> [second |-> 0, text |-> BreakTime(0)]]
  /\ suffix = [t \in Threads |-> [file |-> "", line |-> "", text |-> <<>>]]
  /\ unflushed = {} /\ aborted = FALSE

----------------------------------------------------------------------------
(* FixedBuffer::append(), and LogStream's << of a text and of a number: the *)
(* one is cut, the other is left out when there may be no room for it.      *)
AppendTo(text, more, size) == text \o SubSeq(more, 1, Min({Len(more), size - Len(text)}))

Put(text, item) ==
  IF item.kind = "text" THEN AppendTo(text, [i \in 1..item.len |-> item.unit], SmallBuffer)
  ELSE IF SmallBuffer - Len(text) >= MaxNumeric THEN Append(text, item.unit) ELSE text

Message(text, items) == FoldLeft(Put, text, items)

----------------------------------------------------------------------------
(* write4Digits() of the year; the other fields have two digits.            *)
Digits(dt) == [dt EXCEPT !.year = IF @ < 0 THEN 0 ELSE IF @ > 9999 THEN 9999 ELSE @]

(* Mutant: the text is made again only when the minute changes.             *)
TimeIsStaleByMinute(t) == now \div 60 # time[t].second \div 60

TimeIsStale(t) == now # time[t].second

TimeText(t) ==
  IF TimeIsStale(t)
  THEN [second |-> now, text |-> Digits(IF Valid(zone) THEN ToLocalTime(zone, now) ELSE BreakTime(now))]
  ELSE time[t]

(* The fields of the head, those that are empty left out.                   *)
Head1(call) ==
  <<"time", "zone", "tid", "level">> \o (IF call.func THEN <<"func">> ELSE <<>>)
    \o (IF call.errno THEN <<"errno">> ELSE <<>>)

(* Logger::Impl::Impl()                                                     *)
Impl(t, call) ==
  /\ time' = [time EXCEPT ![t] = TimeText(t)]
  /\ line' = [line EXCEPT ![t] =
       [call |-> call, second |-> now, stamp |-> TimeText(t).text,
        mark |-> IF Valid(zone) THEN "local" ELSE "Z", zone |-> zone, fresh |-> ~zoneChanged,
        text |-> AppendTo(<<>>, Head1(call), SmallBuffer)]]

----------------------------------------------------------------------------
(* shouldLog() of the streaming interface, which always logs warnings and   *)
(* worse, and the test in logFmt(), which does not.                         *)
ShouldLog(l) == Rank(l) >= Rank("WARN") \/ Rank(level) <= Rank(l)
ShouldFormat(l) == Rank(level) <= Rank(l)

Idle(t) == ~aborted /\ pc[t] = "idle"

(* logInfo() and the others return a LogLine with its Logger in it.         *)
LogLine(t, call) ==
  /\ Idle(t) /\ call.api = "stream" /\ ShouldLog(call.level)
  /\ Impl(t, call)
  /\ pc' = [pc EXCEPT ![t] = "streaming"]
  /\ UNCHANGED <<globals, suffix, unflushed, aborted>>

(* << of a LogLine: what the user streams.                                  *)
Stream(t) ==
  /\ ~aborted /\ pc[t] = "streaming"
  /\ line' = [line EXCEPT ![t].text = Message(@, line[t].call.items)]
  /\ pc' = [pc EXCEPT ![t] = "finish"]
  /\ UNCHANGED <<globals, time, suffix, unflushed, aborted>>

(* logFmt(): the Logger is a temporary of the declaration of stream, and is *)
(* destroyed at its end.                                                    *)
LogFmt(t, call) ==
  /\ Idle(t) /\ call.api = "format" /\ ShouldFormat(call.level)
  /\ Impl(t, call)
  /\ pc' = [pc EXCEPT ![t] = "finish"]
  /\ UNCHANGED <<globals, suffix, unflushed, aborted>>

(* Only then is the message appended, to what was the Logger's stream.      *)
Format(t) ==
  /\ ~aborted /\ pc[t] = "format"
  /\ pc' = [pc EXCEPT ![t] = "idle"]
  /\ UNCHANGED <<globals, line, time, suffix, unflushed, aborted>>

----------------------------------------------------------------------------
(* Mutant: the line number is not compared.                                 *)
SuffixIsCachedByFile(t) == suffix[t].file = line[t].call.file

SuffixIsCached(t) ==
  suffix[t].file = line[t].call.file /\ suffix[t].line = line[t].call.line

(* The suffix of the call: the file, its line and the end of the line, cut  *)
(* to the size of the cache.                                                *)
SuffixText(t) ==
  IF SuffixIsCached(t) THEN suffix[t]
  ELSE LET call == line[t].call
           whole == [i \in 1..call.fileLen |-> call.file] \o <<call.line, "\n">>
       IN  [file |-> call.file, line |-> call.line, text |-> AppendTo(<<>>, whole, SuffixSize)]

(* Logger::~Logger(): finish(), then g_output(), and the end if fatal.      *)
Finish(t) ==
  /\ ~aborted /\ pc[t] = "finish"
  /\ suffix' = [suffix EXCEPT ![t] = SuffixText(t)]
  /\ line' = [line EXCEPT ![t].text = AppendTo(@, SuffixText(t).text, SmallBuffer)]
  /\ pc' = [pc EXCEPT ![t] = "output"]
  /\ UNCHANGED <<globals, time, unflushed, aborted>>

Output(t) ==
  /\ ~aborted /\ pc[t] = "output"
  /\ unflushed' = unflushed \cup {t}
  /\ line' = [line EXCEPT ![t] = NoLine]
  /\ pc' = [pc EXCEPT ![t] = CASE line[t].call.level = "FATAL" -> "flush"
                               [] line[t].call.level # "FATAL" /\ line[t].call.api = "format" -> "format"
                               [] OTHER -> "idle"]
  /\ UNCHANGED <<globals, time, suffix, aborted>>

(* g_flush() flushes what all threads have put out.                         *)
Flushed == Threads

Flush(t) ==
  /\ ~aborted /\ pc[t] = "flush"
  /\ unflushed' = unflushed \ Flushed
  /\ pc' = [pc EXCEPT ![t] = "abort"]
  /\ UNCHANGED <<globals, line, time, suffix, aborted>>

Abort(t) ==
  /\ ~aborted /\ pc[t] = "abort"
  /\ aborted' = TRUE
  /\ UNCHANGED <<globals, pc, line, time, suffix, unflushed>>

----------------------------------------------------------------------------
SetLogLevel(l) ==
  /\ ~aborted
  /\ level' = l
  /\ UNCHANGED <<tick, zone, zoneChanged, pc, line, time, suffix, unflushed, aborted>>

(* setTimeZone(): a plain assignment, which the program makes while no      *)
(* thread is logging.                                                       *)
SetTimeZone(z) ==
  /\ ~aborted /\ \A t \in Threads : pc[t] \in {"idle", "format"}
  /\ zone' = z /\ zoneChanged' = TRUE
  /\ UNCHANGED <<tick, level, pc, line, time, suffix, unflushed, aborted>>

(* The clock does not go back.                                              *)
Tick ==
  /\ ~aborted /\ tick < Len(Instants)
  /\ tick' = tick + 1
  /\ zoneChanged' = FALSE
  /\ UNCHANGED <<level, zone, pc, line, time, suffix, unflushed, aborted>>

Next ==
  \/ \E t \in Threads :
       \/ \E call \in Calls[t] : LogLine(t, call) \/ LogFmt(t, call)
       \/ Stream(t) \/ Format(t) \/ Finish(t) \/ Output(t) \/ Flush(t) \/ Abort(t)
  \/ \E l \in Levels : SetLogLevel(l)
  \/ \E z \in Zones : SetTimeZone(z)
  \/ Tick

Spec == Init /\ [][Next]_vars

----------------------------------------------------------------------------
(* The line that a call asks for, and whether there is room for it.         *)
Whole(call) ==
  Head1(call)
    \o FlattenSeq([i \in DOMAIN call.items |-> [k \in 1..call.items[i].len |-> call.items[i].unit]])
    \o [i \in 1..call.fileLen |-> call.file] \o <<call.line, "\n">>

HasRoom(call) == Len(Whole(call)) + MaxNumeric <= SmallBuffer /\ call.fileLen + 2 <= SuffixSize

(* A line made with << has its head, its message, and the file and line of  *)
(* the call that made it, whatever line the thread made before, and ends:   *)
(* if there is room for it (Logging.cc:208).                                *)
StreamedLineIsWhole ==
  \A t \in Threads :
    LET call == line[t].call
    IN  pc[t] = "output" /\ call.api = "stream" /\ HasRoom(call) => line[t].text = Whole(call)

(* A line made with a format has its message as well (Logging.h:128).       *)
FormattedLineIsWhole ==
  \A t \in Threads :
    LET call == line[t].call
    IN  pc[t] = "output" /\ call.api = "format" /\ HasRoom(call) => line[t].text = Whole(call)

(* The time at the head of a line, read in the zone that its mark claims,   *)
(* is when the line was made, although its text was made by an earlier line *)
(* of the thread; unless the zone was changed earlier in the same second    *)
(* (Logging.cc:146).                                                        *)
StampIsTrue ==
  \A t \in Threads :
    pc[t] = "output" /\ line[t].fresh =>
      line[t].second \in
        IF line[t].mark = "Z" THEN {FromUtcTime(line[t].stamp)}
        ELSE {FromLocalTime(line[t].zone, line[t].stamp, post) : post \in BOOLEAN}

(* When a fatal line ends the process it has been put out and flushed, also *)
(* if other threads log meanwhile (Logging.cc:284).                         *)
FatalLineIsFlushed ==
  aborted => \E t \in Threads : pc[t] = "abort" /\ t \notin unflushed

(* A local time is read back as the instant it was made of, by one of the   *)
(* two ways to read it if the clocks show it twice (TimeZone.cc:176).  When *)
(* the two ways differ, because the clocks skip or repeat the time, a       *)
(* transition is between them and postTransition gives the later one; when  *)
(* they agree, the clocks show that time (TimeZone.cc:37).                  *)
LocalTimeReadsBack ==
  /\ Valid(zone) => now \in {FromLocalTime(zone, ToLocalTime(zone, now), post) : post \in BOOLEAN}
  /\ zone.kind = "zone" => \A o \in Range(zone.offsets) :
       LET local == BreakTime(now + o)
           before == FromLocalTime(zone, local, FALSE)
           after == FromLocalTime(zone, local, TRUE)
       IN  IF before = after THEN ToLocalTime(zone, before) = local
           ELSE \E x \in Range(zone.at) : before < x /\ x <= after

(* The years, of those the program has dates of, whose dates Date gets      *)
(* right.                                                                   *)
CivilYears ==
  {y \in Range(Years) :
     \A m \in 1..12, d \in 1..31 :
       LET date == NewDate(y, m, d)
       IN  /\ date = SysDays(y, m, d)
           /\ d <= DaysIn(y, m) => YearMonthDay(date) = [year |-> y, month |-> m, day |-> d]
           /\ WeekDay(date) = (date + 4) % 7}

(* Date's Julian day number counts the days of the civil calendar, days     *)
(* after a month's end into the next included, and gives their week days    *)
(* (Date.h:72).                                                             *)
DatesAreCivil == Years[tick] \in CivilYears

=============================================================================
