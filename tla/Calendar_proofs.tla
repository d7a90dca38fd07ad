--------------------------- MODULE Calendar_proofs ---------------------------
(***************************************************************************)
(* Proofs about Calendar: what TLC checks by enumeration of dates and of   *)
(* some requests holds for every date of the range, every second of a day  *)
(* and every request.                                                      *)
(***************************************************************************)
EXTENDS Calendar, TLAPS

(* Within a month the next date has the next number.                        *)
LEMMA NextDay ==
    ASSUME NEW y \in Int, 1970 <= y, y <= 2100, NEW m \in 1..12, NEW d \in 1..31
    PROVE  rtc_days_from_civil(y, m, d + 1) = rtc_days_from_civil(y, m, d) + 1
  BY DEF rtc_days_from_civil

(* Over the end of each month, February by rtc_is_leap.                     *)
LEMMA NextMonth ==
    ASSUME NEW y \in Int, 1970 <= y, y <= 2100, NEW m \in 1..11
    PROVE  rtc_days_from_civil(y, m + 1, 1)
             = rtc_days_from_civil(y, m, rtc_days_in_month(y, m)) + 1
<1> USE DEF rtc_days_from_civil, rtc_days_in_month
<1>1. CASE m = 1
  BY <1>1
<1>2. CASE m = 2
  BY <1>2 DEF rtc_is_leap
<1>3. CASE m \in 3..6
  BY <1>3
<1>4. CASE m \in 7..11
  BY <1>4
<1>. QED BY <1>1, <1>2, <1>3, <1>4

(* Over the end of the year.                                                *)
LEMMA NextYear ==
    ASSUME NEW y \in Int, 1970 <= y, y <= 2100
    PROVE  rtc_days_from_civil(y + 1, 1, 1) = rtc_days_from_civil(y, 12, 31) + 1
  BY DEF rtc_days_from_civil

(* The length of a month, without the table.                                *)
LEMMA MonthLength ==
    ASSUME NEW y \in Int, NEW m \in 1..12
    PROVE  rtc_days_in_month(y, m) =
             IF m \in {4, 6, 9, 11} THEN 30
             ELSE IF m # 2 THEN 31
             ELSE IF rtc_is_leap(y) THEN 29 ELSE 28
<1>1. m \in {1, 2, 3, 4, 5, 6, 7, 8, 9, 10, 11, 12}
  OBVIOUS
<1>. QED BY <1>1 DEF rtc_days_in_month

(* The code's leap years are the calendar's in these years.                 *)
LEMMA MonthsAgree ==
    ASSUME NEW y \in Int, 1970 <= y, y <= 2100, NEW m \in 1..12, NEW d \in 1..31
    PROVE  LastOfMonth(y, m, d) <=> d = rtc_days_in_month(y, m)
<1>1. rtc_is_leap(y) <=> y % 4 = 0 /\ y \notin {1900, 2100}
  BY DEF rtc_is_leap
<1>. QED BY <1>1, MonthLength DEF LastOfMonth

(* The day after a date is a date and has the next number, which            *)
(* rtc_days_from_civil computes without looking at the date before.         *)
THEOREM DayAfterCounts ==
    ASSUME NEW y, y \in Years, NEW m \in 1..12, NEW d \in 1..31,
           DateValid(y, m, d), NEW next, next = DayAfter(y, m, d)
    PROVE  /\ DayNumber(next) = DayNumber(<<y, m, d>>) + 1
           /\ DateValid(next[1], next[2], next[3])
<1>0. y \in Int /\ 1970 <= y /\ y <= 2100
  BY DEF Years
<1>1. d <= rtc_days_in_month(y, m) /\ rtc_days_in_month(y, m) \in 28..31
  BY <1>0, MonthLength DEF DateValid
<1>2. LastOfMonth(y, m, d) <=> d = rtc_days_in_month(y, m)
  BY <1>0, MonthsAgree
<1>3. CASE d < rtc_days_in_month(y, m)
  <2>1. next[1] = y /\ next[2] = m /\ next[3] = d + 1
    BY <1>1, <1>2, <1>3 DEF DayAfter
  <2>2. DateValid(y, m, d + 1)
    BY <1>1, <1>3 DEF DateValid
  <2>. QED BY <1>0, <2>1, <2>2, NextDay DEF DayNumber
<1>4. CASE d = rtc_days_in_month(y, m) /\ m < 12
  <2>1. next[1] = y /\ next[2] = m + 1 /\ next[3] = 1
    BY <1>2, <1>4 DEF DayAfter
  <2>2. DateValid(y, m + 1, 1)
    BY <1>0, <1>4, MonthLength DEF DateValid
  <2>. QED BY <1>0, <1>4, <2>1, <2>2, NextMonth DEF DayNumber
<1>5. CASE d = rtc_days_in_month(y, m) /\ m = 12
  <2>1. next[1] = y + 1 /\ next[2] = 1 /\ next[3] = 1
    BY <1>2, <1>5 DEF DayAfter
  <2>2. d = 31 /\ DateValid(y + 1, 1, 1)
    BY <1>0, <1>5, MonthLength DEF DateValid
  <2>. QED BY <1>0, <1>5, <2>1, <2>2, NextYear DEF DayNumber
<1>. QED BY <1>1, <1>3, <1>4, <1>5

(* A register holds any two-digit number: valid BCD, and back to the number.*)
LEMMA BcdRoundTrip ==
    \A n \in Int : 0 <= n /\ n <= 99 => /\ rtc_bcd_valid(rtc_to_bcd(n))
                                        /\ rtc_from_bcd(rtc_to_bcd(n)) = n
  BY DEF rtc_from_bcd, rtc_to_bcd, rtc_bcd_valid

(* The masks of the shorter registers leave what belongs there alone.       *)
LEMMA BcdFits ==
    /\ \A n \in Int : 0 <= n /\ n <= 59 => rtc_to_bcd(n) \in 0..127
    /\ \A n \in Int : 0 <= n /\ n <= 31 => rtc_to_bcd(n) \in 0..63
    /\ \A n \in Int : 0 <= n /\ n <= 12 => rtc_to_bcd(n) \in 0..31
  BY DEF rtc_to_bcd

(* A year of the century the chip keeps with its two digits, a second of    *)
(* the day with its hour, minute and second, and registers that hold them.  *)
YearOf(y, yy) == y \in Int /\ 2000 <= y /\ y <= 2099 /\ yy = y % 100

TimeOf(t, h, mi, s) ==
    /\ t \in Int /\ 0 <= t /\ t <= 86399
    /\ h = t \div 3600 /\ mi = (t \div 60) % 60 /\ s = t % 60

Holds(g, yy, m, d, h, mi, s) ==
    /\ g.s = rtc_to_bcd(s) /\ g.mi = rtc_to_bcd(mi) /\ g.h = rtc_to_bcd(h)
    /\ g.d = rtc_to_bcd(d) /\ g.mo = rtc_to_bcd(m) /\ g.y = rtc_to_bcd(yy)

LEMMA YearDigits ==
    ASSUME NEW y, NEW yy, YearOf(y, yy)
    PROVE  /\ y \in Int /\ 2000 <= y /\ y <= 2099
           /\ yy \in Int /\ 0 <= yy /\ yy <= 99 /\ y = 2000 + yy
  BY DEF YearOf

LEMMA ClockFields ==
    ASSUME NEW t, NEW h, NEW mi, NEW s, TimeOf(t, h, mi, s)
    PROVE  /\ h \in Int /\ 0 <= h /\ h <= 23 /\ mi \in Int /\ 0 <= mi /\ mi <= 59
           /\ s \in Int /\ 0 <= s /\ s <= 59 /\ h * 3600 + mi * 60 + s = t
  BY DEF TimeOf

(* What rtc_hw_write_epoch puts into the registers.                         *)
LEMMA WrittenFields ==
    ASSUME NEW y, NEW m, NEW d, NEW w, NEW t, NEW h, NEW mi, NEW s, NEW yy, NEW g,
           YearOf(y, yy), TimeOf(t, h, mi, s), g = WriteRegs(y, m, d, w, t)
    PROVE  Holds(g, yy, m, d, h, mi, s)
<1>1. yy = y % 100 /\ h = t \div 3600 /\ mi = (t \div 60) % 60 /\ s = t % 60
  BY DEF YearOf, TimeOf
<1>. QED BY <1>1 DEF WriteRegs, Holds

(* The numbers in the registers come through the masks and the BCD.         *)
LEMMA HeldNumbers ==
    ASSUME NEW y, NEW m, NEW d, NEW t, NEW h, NEW mi, NEW s, NEW yy, NEW g,
           YearOf(y, yy), TimeOf(t, h, mi, s),
           m \in 1..12, d \in 1..31, Holds(g, yy, m, d, h, mi, s)
    PROVE  /\ g.s \in 0..127 /\ g.mi \in 0..127 /\ g.h \in 0..63 /\ g.d \in 0..63
           /\ g.mo \in 0..31
           /\ rtc_from_bcd(g.s) = s /\ rtc_from_bcd(g.mi) = mi /\ rtc_from_bcd(g.h) = h
           /\ rtc_from_bcd(g.d) = d /\ rtc_from_bcd(g.mo) = m /\ rtc_from_bcd(g.y) = yy
           /\ rtc_bcd_valid(g.s) /\ rtc_bcd_valid(g.mi) /\ rtc_bcd_valid(g.h)
           /\ rtc_bcd_valid(g.d) /\ rtc_bcd_valid(g.mo) /\ rtc_bcd_valid(g.y)
<1>1. yy \in Int /\ 0 <= yy /\ yy <= 99
  BY YearDigits
<1>2. /\ h \in Int /\ 0 <= h /\ h <= 23 /\ mi \in Int /\ 0 <= mi /\ mi <= 59
      /\ s \in Int /\ 0 <= s /\ s <= 59
  BY ClockFields
<1>3. /\ g.s = rtc_to_bcd(s) /\ g.mi = rtc_to_bcd(mi) /\ g.h = rtc_to_bcd(h)
      /\ g.d = rtc_to_bcd(d) /\ g.mo = rtc_to_bcd(m) /\ g.y = rtc_to_bcd(yy)
  BY DEF Holds
<1>4. /\ g.s \in 0..127 /\ g.mi \in 0..127 /\ g.h \in 0..63 /\ g.d \in 0..63
      /\ g.mo \in 0..31
  BY <1>1, <1>2, <1>3, BcdFits
<1>. QED BY <1>1, <1>2, <1>3, <1>4, BcdRoundTrip

(* What rtc_hw_read_epoch makes of registers whose numbers are known.       *)
LEMMA ReadHeld ==
    ASSUME NEW y, NEW m, NEW d, NEW t, NEW h, NEW mi, NEW s, NEW yy, NEW g,
           YearOf(y, yy), TimeOf(t, h, mi, s), DateValid(y, m, d),
           m \in 1..12, d \in 1..31, Holds(g, yy, m, d, h, mi, s)
    PROVE  ReadRegs(g) = <<rtc_days_from_civil(y, m, d), t>>
<1>1. y = 2000 + yy
  BY YearDigits
<1>2. h <= 23 /\ mi <= 59 /\ s <= 59 /\ h * 3600 + mi * 60 + s = t
  BY ClockFields
<1>3. /\ g.s \in 0..127 /\ g.mi \in 0..127 /\ g.h \in 0..63 /\ g.d \in 0..63
      /\ g.mo \in 0..31
  BY HeldNumbers
<1>4. /\ g.s % 128 = g.s /\ g.mi % 128 = g.mi /\ g.h % 64 = g.h
      /\ g.d % 64 = g.d /\ g.mo % 32 = g.mo /\ g.s < 128 /\ g.mo < 128
  BY <1>3, SMTT(60)
<1>5. /\ rtc_from_bcd(g.s) = s /\ rtc_from_bcd(g.mi) = mi /\ rtc_from_bcd(g.h) = h
      /\ rtc_from_bcd(g.d) = d /\ rtc_from_bcd(g.mo) = m /\ rtc_from_bcd(g.y) = yy
      /\ rtc_bcd_valid(g.s) /\ rtc_bcd_valid(g.mi) /\ rtc_bcd_valid(g.h)
      /\ rtc_bcd_valid(g.d) /\ rtc_bcd_valid(g.mo) /\ rtc_bcd_valid(g.y)
  BY HeldNumbers
<1>. QED BY <1>1, <1>2, <1>4, <1>5 DEF ReadRegs

(* Any second of a day.                                                     *)
SecondOfDay(t) == t \in 0..86399

LEMMA YearHasDigits == \A y \in ClockYears : \E yy : YearOf(y, yy)
  BY DEF ClockYears, YearOf

LEMMA TimeHasFields == \A t : SecondOfDay(t) => \E h, mi, s : TimeOf(t, h, mi, s)
  BY SMTT(60) DEF SecondOfDay, TimeOf

(* The date and the second rtc_hw_write_epoch puts into the registers come  *)
(* back from rtc_hw_read_epoch: every date of the century the chip keeps,   *)
(* every second of the day.                                                 *)
THEOREM RegistersRoundTrip ==
    ASSUME NEW y, NEW m, NEW d, NEW t, NEW w, NEW g, y \in ClockYears,
           m \in 1..12, d \in 1..31, DateValid(y, m, d), SecondOfDay(t),
           g = WriteRegs(y, m, d, w, t)
    PROVE  ReadRegs(g) = <<DayNumber(<<y, m, d>>), t>>
<1>1. PICK yy : YearOf(y, yy)
  BY YearHasDigits, Zenon
<1>2. PICK h, mi, s : TimeOf(t, h, mi, s)
  BY TimeHasFields, Zenon
<1>3. Holds(g, yy, m, d, h, mi, s)
  BY <1>1, <1>2, WrittenFields, Zenon
<1>4. ReadRegs(g) = <<rtc_days_from_civil(y, m, d), t>>
  BY <1>1, <1>2, <1>3, ReadHeld, Zenon
<1>. QED BY <1>4 DEF DayNumber

(* rtc_parse_iso8601 accepts an otherwise well-formed request exactly when  *)
(* its instant, offset applied, is in the years 2000 to 2099 of UTC.        *)
THEOREM WindowIsTheCentury ==
    ASSUME NEW r, FieldsValid(r), OffsetValid(r), InstantOf(r)[1] \in Int
    PROVE  Parse(r) = "ok" <=> /\ InstantOf(r)[1] >= DayNumber(<<2000, 1, 1>>)
                               /\ InstantOf(r)[1] < DayNumber(<<2100, 1, 1>>)
<1>1. DayNumber(<<2000, 1, 1>>) = 10957 /\ DayNumber(<<2100, 1, 1>>) = 47482
  BY DEF DayNumber, rtc_days_from_civil
<1>2. Parse(r) = "ok" <=> InWindow(InstantOf(r))
  BY DEF Parse
<1>. QED BY <1>1, <1>2 DEF InWindow

(* The parts of CalendarExact.                                              *)
LEMMA Epoch == EpochIsZero
  BY DEF EpochIsZero, DayNumber, rtc_days_from_civil

LEMMA EveryDayCounted == DaysCounted
<1>. SUFFICES ASSUME NEW y, y \in Years, NEW m \in 1..12, NEW d \in 1..31,
                     DateValid(y, m, d)
              PROVE  LET next == DayAfter(y, m, d) IN
                     /\ DayNumber(next) = DayNumber(<<y, m, d>>) + 1
                     /\ DateValid(next[1], next[2], next[3])
  BY Zenon DEF DaysCounted
<1>. QED BY DayAfterCounts, Zenon

LEMMA EveryDateRestored == DatesRestored
<1>1. \A t \in EdgeSeconds : SecondOfDay(t)
  BY DEF SecondOfDay, EdgeSeconds
<1>. SUFFICES ASSUME NEW y \in ClockYears, NEW m \in 1..12, NEW d \in 1..31,
                     NEW t \in EdgeSeconds, DateValid(y, m, d)
              PROVE  ReadRegs(WriteRegs(y, m, d, 0, t)) = <<DayNumber(<<y, m, d>>), t>>
  BY Zenon DEF DatesRestored
<1>2. SecondOfDay(t)
  BY <1>1, Zenon
<1>. QED BY <1>2, RegistersRoundTrip, Zenon

LEMMA RequestNumbers ==
    ASSUME NEW r, r \in EdgeRequests
    PROVE  /\ r.y \in Int /\ r.mo \in Int /\ r.d \in Int /\ r.h \in Int /\ r.mi \in Int
           /\ r.s \in Int /\ r.sign \in {-1, 0, 1} /\ r.oh \in Int /\ r.om \in Int
  BY DEF EdgeRequests

LEMMA DayIsInt == \A y, m, d \in Int : rtc_days_from_civil(y, m, d) \in Int
  BY DEF rtc_days_from_civil

LEMMA InstantIsInt ==
    ASSUME NEW r, NEW day \in Int, day = rtc_days_from_civil(r.y, r.mo, r.d),
           r.h \in Int, r.mi \in Int, r.s \in Int, r.sign \in {-1, 0, 1},
           r.oh \in Int, r.om \in Int
    PROVE  InstantOf(r)[1] \in Int
<1>1. r.sign * (r.oh * 3600 + r.om * 60) \in Int
  OBVIOUS
<1>. QED BY <1>1 DEF InstantOf

LEMMA EveryRequestJudged == RequestsJudged
<1>1. \A r \in EdgeRequests : InstantOf(r)[1] \in Int
  BY RequestNumbers, DayIsInt, InstantIsInt
<1>. QED BY <1>1, WindowIsTheCentury DEF RequestsJudged

(* The whole of CalendarExact, which RestoredExactly asserts where a clock  *)
(* is set.                                                                  *)
THEOREM CalendarIsExact == CalendarExact
  BY Epoch, EveryDayCounted, EveryDateRestored, EveryRequestJudged DEF CalendarExact
=============================================================================
