------------------------------ MODULE Calendar ------------------------------
(***************************************************************************)
(* muduo::Date, DateTime and TimeZone as operators.  What std::chrono       *)
(* provides, the civil calendar and the zones' transitions, is defined here *)
(* from its rules: leap years, and a zone's offsets before and after each   *)
(* instant at which it changes.                                             *)
(***************************************************************************)
EXTENDS Integers, Sequences, FiniteSetsExt

Quot(a, b) == IF a >= 0 THEN a \div b ELSE -((-a) \div b)   \* the / of C++

----------------------------------------------------------------------------
(* std::chrono's calendar: sys_days{ymd} and year_month_day{sys_days}.      *)
IsLeap(y) == y % 4 = 0 /\ (y % 100 # 0 \/ y % 400 = 0)

DaysIn(y, m) ==
  CASE m = 2 -> IF IsLeap(y) THEN 29 ELSE 28
    [] m \in {4, 6, 9, 11} -> 30
    [] OTHER -> 31

LeapDaysBefore(y) == (y - 1) \div 4 - (y - 1) \div 100 + (y - 1) \div 400

SysDays(y, m, d) ==
  365 * (y - 1970) + LeapDaysBefore(y) - LeapDaysBefore(1970)
    + MapThenSumSet(LAMBDA k : DaysIn(y, k), 1..m - 1) + d - 1

(* Of the years 1000 to 2900: two years about the guess are enough.         *)
Civil(days) ==
  LET guess == 1970 + days \div 366
      y == Max({k \in guess - 2..guess + 2 : SysDays(k, 1, 1) <= days})
      m == Max({k \in 1..12 : SysDays(y, k, 1) <= days})
  IN  [year |-> y, month |-> m, day |-> days - SysDays(y, m, 1) + 1]

----------------------------------------------------------------------------
(* Date: a Date is its day_, the number of days since 1970-01-01.           *)
JulianDayOf1970 == 2440588
DaysPerWeek == 7
InvalidDate == -JulianDayOf1970

FromJulianDay(n) == n - JulianDayOf1970
ToJulianDay(date) == date + JulianDayOf1970

(* Mutant: the leap day of every fourth century is forgotten.               *)
GetJulianDayNumberNo400(year, month, day) ==
  LET a == Quot(14 - month, 12)
      y == year + 4800 - a
      m == month + 12 * a - 3
  IN  day + Quot(153 * m + 2, 5) + y * 365 + Quot(y, 4) - Quot(y, 100) + 16 - 32045

GetJulianDayNumber(year, month, day) ==
  LET a == Quot(14 - month, 12)
      y == year + 4800 - a
      m == month + 12 * a - 3
  IN  day + Quot(153 * m + 2, 5) + y * 365 + Quot(y, 4) - Quot(y, 100) + Quot(y, 400) - 32045

NewDate(year, month, day) == FromJulianDay(GetJulianDayNumber(year, month, day))

YearMonthDay(date) ==
  IF date = InvalidDate THEN [year |-> 0, month |-> 0, day |-> 0] ELSE Civil(date)

WeekDay(date) == (ToJulianDay(date) + 1) % DaysPerWeek

----------------------------------------------------------------------------
(* DateTime.                                                                *)
BreakTime(t) ==
  LET days == t \div 86400
      rest == t % 86400
      ymd == Civil(days)
  IN  [year |-> ymd.year, month |-> ymd.month, day |-> ymd.day,
       hour |-> rest \div 3600, minute |-> (rest \div 60) % 60, second |-> rest % 60]

FromUtcTime(dt) ==
  86400 * SysDays(dt.year, dt.month, dt.day) + 3600 * dt.hour + 60 * dt.minute + dt.second

----------------------------------------------------------------------------
(* TimeZone: invalid, fixed, or a zone of the database: offset 1 holds      *)
(* until at[1], offset 2 from then until at[2], and so on.                  *)
InvalidZone == [kind |-> "invalid"]
FixedZone(eastOfUtc) == [kind |-> "fixed", eastOfUtc |-> eastOfUtc]
Located(at, offsets) == [kind |-> "zone", at |-> at, offsets |-> offsets]

Valid(zone) == zone.kind # "invalid"

(* locate_zone() in a database, which throws for a name that is not there.  *)
LoadZone(database, name) ==
  IF name \in DOMAIN database THEN database[name] ELSE InvalidZone

(* A file is a path: of the zone it is below the database's directory, or   *)
(* "elsewhere", and what it links to if it is a link.                       *)
ZoneFileToIanaName(file) ==
  IF file.path # "elsewhere" THEN file.path
  ELSE IF file.link # "elsewhere" THEN file.link ELSE ""

LoadZoneFile(database, file) == LoadZone(database, ZoneFileToIanaName(file))

(* time_zone::get_info() of an instant and of a local time.                 *)
Periods(zone) == DOMAIN zone.offsets
InPeriod(zone, i, t) ==
  (i > 1 => zone.at[i - 1] <= t) /\ (i <= Len(zone.at) => t < zone.at[i])

SysInfo(zone, t) == zone.offsets[CHOOSE i \in Periods(zone) : InPeriod(zone, i, t)]

LocalInfo(zone, l) ==
  LET hits == {i \in Periods(zone) : InPeriod(zone, i, l - zone.offsets[i])}
      gap == Min({i \in DOMAIN zone.at : l < zone.at[i] + zone.offsets[i + 1]})
  IN  IF hits # {}
      THEN [result |-> IF Min(hits) = Max(hits) THEN "unique" ELSE "ambiguous",
            first |-> zone.offsets[Min(hits)], second |-> zone.offsets[Max(hits)]]
      ELSE [result |-> "nonexistent", first |-> zone.offsets[gap], second |-> zone.offsets[gap + 1]]

(* Mutant: a local time that the clocks skip is read as one they repeat.    *)
PickInfoAsAmbiguous(info, postTransition) ==
  IF info.result = "unique" \/ ~postTransition THEN info.first ELSE info.second

PickInfo(info, postTransition) ==
  CASE info.result = "unique" -> info.first
    [] info.result = "nonexistent" -> IF postTransition THEN info.first ELSE info.second
    [] info.result = "ambiguous" -> IF postTransition THEN info.second ELSE info.first

ToLocalTime(zone, t) ==
  BreakTime(t + (IF zone.kind = "fixed" THEN zone.eastOfUtc ELSE SysInfo(zone, t)))

FromLocalTime(zone, local, postTransition) ==
  LET l == FromUtcTime(local)
  IN  l - (IF zone.kind = "fixed" THEN zone.eastOfUtc
           ELSE PickInfo(LocalInfo(zone, l), postTransition))

=============================================================================
