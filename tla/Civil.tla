------------------------------- MODULE Civil -------------------------------
(***************************************************************************)
(* Dates: how github.rs turns the moment of a release, as GitHub writes    *)
(* it, into unix seconds (days_from_civil and iso8601_to_unix, by Howard   *)
(* Hinnant's algorithm), and the local day that localtime.rs asks the      *)
(* summary for.  The text's fields are numbers here.                       *)
(***************************************************************************)
EXTENDS Integers

DaySecs == 86400

LeapYear(y) == (y % 4 = 0 /\ y % 100 # 0) \/ y % 400 = 0

DaysInMonth(y, m) ==
    IF m \in {1, 3, 5, 7, 8, 10, 12} THEN 31
    ELSE IF m \in {4, 6, 9, 11} THEN 30
    ELSE IF m # 2 THEN 0
    ELSE IF LeapYear(y) THEN 29 ELSE 28

\* The other dates are rejected: month 13, the 31st of February.
IsDate(y, m, d) == m \in 1 .. 12 /\ d \in 1 .. DaysInMonth(y, m)

(* The year counts from March, so the leap day is its last.  The code divides *)
(* towards zero and shifts a negative year for it: that is this division.     *)
YearOf(y, m) == IF m <= 2 THEN y - 1 ELSE y
Era(y) == y \div 400
YearOfEra(y) == y - Era(y) * 400
MonthIndex(m) == IF m > 2 THEN m - 3 ELSE m + 9
DayOfYear(m, d) == (153 * MonthIndex(m) + 2) \div 5 + d - 1

\* The days before the first of March of a year, from a fixed day on.
DaysBefore(y) ==
    LET yoe == YearOfEra(y) IN
    Era(y) * 146097 + (yoe * 365 + yoe \div 4 - yoe \div 100)

DaysFromCivil(y, m, d) == DaysBefore(YearOf(y, m)) + DayOfYear(m, d) - 719468

\* A leap second is the first of the next minute.
IsTime(hour, min, sec) == hour <= 23 /\ min <= 59 /\ sec <= 60

UnixTime(y, m, d, hour, min, sec) ==
    DaysFromCivil(y, m, d) * DaySecs + hour * 3600 + min * 60 + sec

\* What the calendar says: the day after a date.
NextDate(y, m, d) ==
    IF d < DaysInMonth(y, m) THEN <<y, m, d + 1>>
    ELSE IF m < 12 THEN <<y, m + 1, 1>>
    ELSE <<y + 1, 1, 1>>

-----------------------------------------------------------------------------
\* day_window_for: the local day of a moment, from midnight to midnight.
DayWindow(at, offset, day) ==
    LET start == at - ((at + offset) % day) IN
    [from |-> start, until |-> start + day]

Within(w, t) == w.from <= t /\ t < w.until

=============================================================================
