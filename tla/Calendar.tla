------------------------------- MODULE Calendar -------------------------------
(***************************************************************************)
(* The arithmetic of rtc_correction.c: a civil date as a day number, an    *)
(* ISO-8601 request as an instant in UTC, and an instant as the registers  *)
(* of the BM8563 and back.                                                 *)
(*                                                                         *)
(* An instant is <<day, second of the day>>, days counted from 1970-01-01: *)
(* the code's 64-bit epoch is day * 86400 + second.  A request is the      *)
(* record of the numbers in its text; text that is not made of such        *)
(* numbers is INVALID_ARGS before any of this.                             *)
(***************************************************************************)
EXTENDS Integers, Sequences

(* Faulty variant: 2000 is not a leap year.                                 *)
LeapNoQuad(y) == y % 4 = 0 /\ y % 100 # 0

rtc_is_leap(y) == y % 4 = 0 /\ (y % 100 # 0 \/ y % 400 = 0)

rtc_days_in_month(y, m) ==
    IF m = 2 /\ rtc_is_leap(y) THEN 29
    ELSE <<31, 28, 31, 30, 31, 30, 31, 31, 30, 31, 30, 31>>[m]

(* The addition of (unsigned)-3 to the month wraps to a subtraction.        *)
rtc_days_from_civil(y, m, d) ==
    LET yy == IF m <= 2 THEN y - 1 ELSE y
        era == (IF yy >= 0 THEN yy ELSE yy - 399) \div 400
        yoe == yy - era * 400
        doy == (153 * (IF m > 2 THEN m - 3 ELSE m + 9) + 2) \div 5 + d - 1
        doe == yoe * 365 + yoe \div 4 - yoe \div 100 + doy
    IN era * 146097 + doe - 719468

DateValid(y, m, d) == m \in 1..12 /\ d \in 1..rtc_days_in_month(y, m)

-----------------------------------------------------------------------------
(* rtc_parse_iso8601.  sign is 0 for Z.                                     *)
FieldsValid(r) == DateValid(r.y, r.mo, r.d) /\ r.h <= 23 /\ r.mi <= 59 /\ r.s <= 59

OffsetValid(r) ==
    r.sign # 0 => r.oh <= 14 /\ r.om <= 59 /\ (r.oh = 14 => r.om = 0)

(* \div and % round down, so a second count below zero borrows a day.       *)
InstantOf(r) ==
    LET sec == r.h * 3600 + r.mi * 60 + r.s - r.sign * (r.oh * 3600 + r.om * 60)
    IN <<rtc_days_from_civil(r.y, r.mo, r.d) + sec \div 86400, sec % 86400>>

(* 946684800 and 4102444799 as instants: the first and the last of 20xx.    *)
InWindow(t) == t[1] >= 10957 /\ t[1] <= 47481

Parse(r) ==
    IF ~FieldsValid(r) THEN "range"
    ELSE IF ~OffsetValid(r) THEN "invalid"
    ELSE IF ~InWindow(InstantOf(r)) THEN "range" ELSE "ok"

-----------------------------------------------------------------------------
(* rtc_hw_write_epoch and rtc_hw_read_epoch: seconds, minutes, hours, day,  *)
(* weekday, month and the last two digits of the year, each in BCD.  VL and *)
(* the century are the top bits of the seconds and of the month.            *)
rtc_to_bcd(n) == (n \div 10) * 16 + (n % 10)
rtc_bcd_valid(b) == b % 16 <= 9 /\ (b \div 16) % 16 <= 9
rtc_from_bcd(b) == ((b \div 16) % 16) * 10 + (b % 16)

WriteRegs(y, m, d, wday, sec) ==
    [s |-> rtc_to_bcd(sec % 60), mi |-> rtc_to_bcd((sec \div 60) % 60),
     h |-> rtc_to_bcd(sec \div 3600), d |-> rtc_to_bcd(d),
     w |-> rtc_to_bcd(wday), mo |-> rtc_to_bcd(m), y |-> rtc_to_bcd(y % 100)]

Unreadable == <<>>

(* The masks drop the bits the chip does not use; its clock also counts.    *)
ReadRegs(g) ==
    LET s == g.s % 128  mi == g.mi % 128  h == g.h % 64  d == g.d % 64
        mo == g.mo % 32
        day == rtc_from_bcd(d)  month == rtc_from_bcd(mo)
        year == 2000 + rtc_from_bcd(g.y)
        readable ==
            /\ g.s < 128 /\ g.mo < 128
            /\ \A b \in {s, mi, h, d, mo, g.y} : rtc_bcd_valid(b)
            /\ DateValid(year, month, day)
            /\ rtc_from_bcd(h) <= 23 /\ rtc_from_bcd(mi) <= 59 /\ rtc_from_bcd(s) <= 59
    IN IF ~readable THEN Unreadable
       ELSE <<rtc_days_from_civil(year, month, day),
              rtc_from_bcd(h) * 3600 + rtc_from_bcd(mi) * 60 + rtc_from_bcd(s)>>

-----------------------------------------------------------------------------
(* What these should compute: the day after a date, by the calendar.        *)
LastOfMonth(y, m, d) ==
    d = IF m \in {4, 6, 9, 11} THEN 30
        ELSE IF m # 2 THEN 31
        ELSE IF y % 4 = 0 /\ y \notin {1900, 2100} THEN 29 ELSE 28

DayAfter(y, m, d) ==
    IF ~LastOfMonth(y, m, d) THEN <<y, m, d + 1>>
    ELSE IF m < 12 THEN <<y, m + 1, 1>> ELSE <<y + 1, 1, 1>>

DayNumber(x) == rtc_days_from_civil(x[1], x[2], x[3])

EdgeRequests ==
    [y : {1999, 2000, 2099, 2100}, mo : {1, 12}, d : {1, 2, 30, 31},
     h : {0, 9, 10, 14, 23}, mi : {0, 1, 59}, s : {0, 59},
     sign : {-1, 0, 1}, oh : {0, 9, 14, 15}, om : {0, 1}]

Years == 1970..2100
ClockYears == 2000..2099
EdgeSeconds == {0, 35999, 36000, 86399}

(* A date goes to its day number: 1970-01-01 is day 0, and every later date *)
(* the clock can show is one more than the date before it, over leap days   *)
(* and centuries, and is a valid date.                                      *)
EpochIsZero == DayNumber(<<1970, 1, 1>>) = 0

DaysCounted ==
    \A y \in Years, m \in 1..12, d \in 1..31 :
       DateValid(y, m, d) =>
          LET next == DayAfter(y, m, d) IN
          /\ DayNumber(next) = DayNumber(<<y, m, d>>) + 1
          /\ DateValid(next[1], next[2], next[3])

(* It goes out to the registers and back unchanged.                         *)
DatesRestored ==
    \A y \in ClockYears, m \in 1..12, d \in 1..31, t \in EdgeSeconds :
       DateValid(y, m, d) =>
          ReadRegs(WriteRegs(y, m, d, 0, t)) = <<DayNumber(<<y, m, d>>), t>>

(* An accepted request is an instant of the years 2000 to 2099 in UTC,      *)
(* however its offset moves it over the year's end; none of those is        *)
(* refused.                                                                 *)
RequestsJudged ==
    \A r \in EdgeRequests :
       FieldsValid(r) /\ OffsetValid(r) =>
          (Parse(r) = "ok" <=>
             /\ InstantOf(r)[1] >= DayNumber(<<2000, 1, 1>>)
             /\ InstantOf(r)[1] < DayNumber(<<2100, 1, 1>>))

CalendarExact ==
    EpochIsZero /\ DaysCounted /\ DatesRestored /\ RequestsJudged
=============================================================================
