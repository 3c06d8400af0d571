------------------------------- MODULE LogFile -------------------------------
(***************************************************************************)
(* muduo::LogFile over FileUtil::AppendFile, as operators on a record.  A   *)
(* line counts one byte; what is appended at once is a sequence of lines.   *)
(* AppendFile writes to the descriptor directly and its flush() does        *)
(* nothing, so that the flush interval has no effect and is left out.       *)
(***************************************************************************)
EXTENDS Integers, Sequences, Functions

CONSTANTS
  RollSize,      \* rollSize_
  CheckEveryN,   \* checkEveryN_
  DayLength      \* kRollPerSeconds_, in ticks of the clock

Day(now) == now \div DayLength

(* lines: what is in all the files; failed and silent: the lines that a     *)
(* failed write, and a file that could not be opened, have lost; stale: how *)
(* many appends in a row went to a file of an earlier day.                  *)
NoFile == [open |-> FALSE, written |-> 0, count |-> 0, period |-> -1, lastRoll |-> -1,
           lines |-> <<>>, failed |-> {}, silent |-> {}, stale |-> 0]

(* rollFile(); open says whether the new file could be opened.              *)
RollFile(f, now, open) ==
  IF now > f.lastRoll
  THEN [f EXCEPT !.open = open, !.written = 0, !.period = Day(now), !.lastRoll = now,
                 !.stale = 0]
  ELSE f

(* The constructor: the members are new, what is in the files stays.        *)
NewLogFile(f, now, open) ==
  RollFile([f EXCEPT !.count = 0, !.lastRoll = -1], now, open)

(* AppendFile::appendBytes(): a write that fails leaves a prefix, and does  *)
(* not count.                                                               *)
AppendBytes(f, ls, prefix) ==
  IF ~f.open THEN [f EXCEPT !.silent = @ \cup Range(ls)]
  ELSE IF prefix = Len(ls)
  THEN [f EXCEPT !.lines = @ \o ls, !.written = @ + Len(ls)]
  ELSE [f EXCEPT !.lines = @ \o SubSeq(ls, 1, prefix),
                 !.failed = @ \cup Range(SubSeq(ls, prefix + 1, Len(ls)))]

(* Mutant: off by one.                                                      *)
CheckDueLate(count) == count > CheckEveryN

CheckDue(count) == count >= CheckEveryN

(* append_unlocked().                                                       *)
AppendUnlocked(f, ls, now, prefix, open) ==
  LET g == AppendBytes(f, ls, prefix)
      h == [g EXCEPT !.count = @ + 1,
                     !.stale = IF Day(now) = g.period THEN 0 ELSE @ + 1]
  IN  IF g.written > RollSize THEN RollFile(g, now, open)
      ELSE IF ~CheckDue(h.count) THEN h
      ELSE LET c == [h EXCEPT !.count = 0] IN
           IF Day(now) # c.period THEN RollFile(c, now, open) ELSE c

=============================================================================
