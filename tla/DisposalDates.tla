----------------------------- MODULE DisposalDates -----------------------------
(***************************************************************************)
(* The date of disposal: which dates the dispose page offers, which ones   *)
(* its form accepts, and what the request to the disposal service says,    *)
(* while the clock goes on between the page, the submission, the checks    *)
(* and the request.  Dates are the code's DayMonthYear on the Gregorian    *)
(* calendar.                                                               *)
(***************************************************************************)
EXTENDS Integers

CONSTANTS
  Starts,     \* bound: days [day, month, year] on which the clock may start
  Times,      \* bound: the times of the day [hour, minutes] it shows
  MaxTicks,   \* bound: how often it moves on
  Entries,    \* bound: what a form may post besides the year [day, month, hour, minutes]
  OtherYears, \* bound: years it may post that the page does not offer
  SkippedHours, \* hours [day, month, year, hour] that the time zone's clock leaves out
  DateOfDisposalYearsIntoThePast

ASSUME YearsAssumption == DateOfDisposalYearsIntoThePast \in Nat

VARIABLES
  clock, \* DateService.today
  ticks, \* how often the clock moved
  page,  \* the years the dispose page offers, and when it was made
  sale   \* the submitted form: how far it is, its date, the earliest date, when
         \* it arrived, the timestamp of the request to the disposal service

vars == <<clock, ticks, page, sale>>

None == -1 \* of Option[Int]: not given

\* mappings.common.DayMonthYear: what the form's fields may hold.
MaxDaysInMonth == 31
MaxMonthsInYear == 12
MaxHoursInDay == 24
MaxMinutesInHour == 59

ASSUME EntriesAssumption ==
  /\ Entries \subseteq [day : 1 .. MaxDaysInMonth, month : 1 .. MaxMonthsInYear,
                        hour : None .. MaxHoursInDay, minutes : None .. MaxMinutesInHour]
  /\ OtherYears \subseteq Nat \ {0}

DayMonthYear(e, y) == [day |-> e.day, month |-> e.month, year |-> y,
                       hour |-> e.hour, minutes |-> e.minutes]

-------------------------------------------------------------------------------
(* The calendar (Joda).                                                    *)

IsLeap(y) == y % 4 = 0 /\ (y % 100 = 0 => y % 400 = 0)
DaysInMonth(m, y) ==
  IF m = 2 THEN IF IsLeap(y) THEN 29 ELSE 28
  ELSE IF m \in {4, 6, 9, 11} THEN 30 ELSE 31

IsDay(d) == d.month \in 1 .. 12 /\ d.day \in 1 .. DaysInMonth(d.month, d.year)

\* Clocks going forward leave an hour out, not the first of the day.
ASSUME SkippedAssumption == \A s \in SkippedHours : s.hour \in 1 .. 23

Skipped(d) ==
  [day |-> d.day, month |-> d.month, year |-> d.year, hour |-> d.hour] \in SkippedHours

\* The clock shows days of the calendar and times of the day (DateTime.now).
ASSUME ClockAssumption ==
  /\ \A d \in Starts : d \in [day : 1 .. 31, month : 1 .. 12, year : Int] /\ IsDay(d)
  /\ Times \subseteq [hour : 0 .. 23, minutes : 0 .. 59]
  /\ MaxTicks \in Nat

\* The same day n years ago, or 28 February if that year has no such day.
MinusYears(d, n) ==
  LET days == DaysInMonth(d.month, d.year - n)
  IN  [d EXCEPT !.year = @ - n, !.day = IF @ > days THEN days ELSE @]

Tomorrow(d) ==
  IF d.day < DaysInMonth(d.month, d.year) THEN [d EXCEPT !.day = @ + 1]
  ELSE IF d.month < 12 THEN [d EXCEPT !.day = 1, !.month = @ + 1]
  ELSE [d EXCEPT !.day = 1, !.month = 1, !.year = @ + 1]

-------------------------------------------------------------------------------
(* models.DayMonthYear.                                                    *)

\* Whether toDateTime has a value.
ToDateTime(d) ==
  IsDay(d) /\ d.hour \in None .. 23 /\ d.minutes \in None .. 59 /\ ~Skipped(d)

\* (d - n).years
YearsBefore(d, n) == IF ToDateTime(d) THEN MinusYears(d, n) ELSE d

Sign(x, y) == IF x < y THEN -1 ELSE IF x > y THEN 1 ELSE 0

\* "There is nothing to compare to so it is less."
Given(x) == IF x = None THEN 0 ELSE 1

CompareMinutes(a, b) ==
  IF a.minutes = None \/ b.minutes = None
  THEN Sign(Given(a.minutes), Given(b.minutes))
  ELSE Sign(a.minutes, b.minutes)

\* Mutant: a date without a time is later than one with.
CompareHours_NoneLater(a, b) ==
  IF a.hour = None \/ b.hour = None THEN Sign(Given(b.hour), Given(a.hour))
  ELSE IF a.hour # b.hour THEN Sign(a.hour, b.hour)
  ELSE CompareMinutes(a, b)

CompareHours(a, b) ==
  IF a.hour = None \/ b.hour = None THEN Sign(Given(a.hour), Given(b.hour))
  ELSE IF a.hour # b.hour THEN Sign(a.hour, b.hour)
  ELSE CompareMinutes(a, b)

Compare(a, b) ==
  IF a.year # b.year THEN Sign(a.year, b.year)
  ELSE IF a.month # b.month THEN Sign(a.month, b.month)
  ELSE IF a.day # b.day THEN Sign(a.day, b.day)
  ELSE CompareHours(a, b)

\* yearRangeToDropdown
YearRange(d, n) == {d.year - k : k \in 0 .. n}

-------------------------------------------------------------------------------
(* constraints.common.DayMonthYear: what the form verifies.  validDate tries *)
(* the day at midnight, whatever time the form gives.                      *)

MinYear == 999
MaxYear == 9999
\* Mutant: looks at the bounds of the year only.
ValidDate_AnyDay(d) == MinYear < d.year /\ d.year < MaxYear
ValidDate(d) == IsDay(d) /\ MinYear < d.year /\ d.year < MaxYear

\* Mutant: counts the years only.
After_ByYear(d, earliest) == d.year >= earliest.year
After(d, earliest) == Compare(d, earliest) >= 0

NotInFuture(d) == Compare(d, clock) <= 0

-------------------------------------------------------------------------------
NoPage == [years |-> {}, at |-> None]
NoSale == [stage |-> "none", date |-> None]

At(d, t) == [day |-> d.day, month |-> d.month, year |-> d.year,
             hour |-> t.hour, minutes |-> t.minutes]

\* What the clock shows on a day.
Shows(d) == {i \in {At(d, t) : t \in Times} : ~Skipped(i)}

Init ==
  /\ clock \in UNION {Shows(d) : d \in Starts}
  /\ ticks = 0
  /\ page = NoPage
  /\ sale = NoSale

Minute(t) == 60 * t.hour + t.minutes

\* The clock shows the day's next time, or the first of tomorrow.
Tick ==
  LET later == {i \in Shows(clock) : Minute(i) > Minute(clock)}
      next  == IF later # {} THEN later ELSE Shows(Tomorrow(clock))
  IN  /\ ticks < MaxTicks
      /\ ticks' = ticks + 1
      /\ \E i \in next : (\A j \in next : Minute(i) <= Minute(j)) /\ clock' = i
      /\ UNCHANGED <<page, sale>>

\* The dispose page, shown by present or by submit for an invalid form.
Shown == [years |-> YearRange(clock, DateOfDisposalYearsIntoThePast), at |-> clock]

Present ==
  /\ sale = NoSale /\ page = NoPage
  /\ page' = Shown
  /\ UNCHANGED <<clock, ticks, sale>>

\* The request arrives: a Dispose controller is made for it, and with it the
\* form and the earliest date.  The page has fields for the day, the month and the
\* year, the form's mapping reads an hour and minutes too.
Submit ==
  /\ page # NoPage /\ sale = NoSale
  /\ \E e \in Entries, y \in page.years \cup OtherYears :
       sale' = [stage |-> "received", date |-> DayMonthYear(e, y), at |-> clock,
                earliest |-> YearsBefore(clock, DateOfDisposalYearsIntoThePast),
                transactionTimestamp |-> None]
  /\ UNCHANGED <<clock, ticks, page>>

\* bindFromRequest: the three constraints; the page is shown again if one fails.
Bind ==
  /\ sale.stage = "received"
  /\ IF ValidDate(sale.date) /\ After(sale.date, sale.earliest) /\ NotInFuture(sale.date)
     THEN sale' = [sale EXCEPT !.stage = "valid"] /\ UNCHANGED page
     ELSE sale' = NoSale /\ page' = Shown
  /\ UNCHANGED <<clock, ticks>>

\* buildDisposeMicroServiceRequest: the request with its transactionTimestamp, or
\* the get of a date that is no DateTime throws before anything is sent.
Build ==
  /\ sale.stage = "valid"
  /\ sale' = IF ToDateTime(sale.date)
             THEN [sale EXCEPT !.stage = "sent", !.transactionTimestamp = clock]
             ELSE [sale EXCEPT !.stage = "failed"]
  /\ UNCHANGED <<clock, ticks, page>>

Next == Tick \/ Present \/ Submit \/ Bind \/ Build
Spec == Init /\ [][Next]_vars

-------------------------------------------------------------------------------
(* Properties, stated with a count of days that knows nothing of Compare.  *)

\* Days since 1 March of the year 0; 29 February of another year is 1 March.
DayNumber(d) ==
  LET y == IF d.month <= 2 THEN d.year - 1 ELSE d.year
      m == (d.month + 9) % 12
  IN  365 * y + y \div 4 - y \div 100 + y \div 400 + (153 * m + 2) \div 5 + d.day

\* The minute a date stands for, counted over all days: toDateTime's.
Moment(d) == 24 * 60 * DayNumber(d)
             + (IF d.hour = None THEN 0 ELSE 60 * d.hour)
             + (IF d.minutes = None THEN 0 ELSE d.minutes)

\* The first and the last minute of the day, hour or minute that a date names.
Begins(d) == IF d.hour = None THEN 24 * 60 * DayNumber(d) ELSE Moment(d)
Ends(d) ==
  IF d.hour = None THEN Begins(d) + 24 * 60 - 1
  ELSE IF d.minutes = None THEN Begins(d) + 59
  ELSE Begins(d)

\* The window's years before a moment, or a day less: 28 February for the 29th.
WindowStart(at) ==
  LET then == [at EXCEPT !.year = @ - DateOfDisposalYearsIntoThePast]
  IN  Moment(then) - (IF IsDay(then) THEN 0 ELSE 24 * 60)

\* The day has that time.
TimeExists(d) == d.hour # MaxHoursInDay /\ ~Skipped(d)

Refused == sale.stage = "received" /\ sale' = NoSale

\* All of what the date names is before the window or after now.
Outside(d, at) == Ends(d) < WindowStart(at) \/ Begins(d) > Moment(clock)

\* It names a day or an hour in which the window starts.
AtEdge(d, at) ==
  /\ d.hour = None \/ d.minutes = None
  /\ Begins(d) <= WindowStart(at) /\ WindowStart(at) <= Ends(d)

\* The get of buildDisposeMicroServiceRequest fails for no other dates than those
\* with an hour that their day does not have: the form accepts those, and all it
\* accepts without an hour can be converted.
AcceptedDatesConvert ==
  sale.stage \in {"valid", "failed", "sent"} =>
    (ToDateTime(sale.date) <=> TimeExists(sale.date))

\* What is sent to the disposal service is a moment of the window's years before the
\* submission, and not after the transaction's own timestamp, whenever midnight
\* was; minutes without an hour are not looked at, then only the day is.
SentInWindow ==
  sale.stage = "sent" =>
    /\ WindowStart(sale.at) <= Moment(sale.date)
    /\ Begins(sale.date) <= Moment(sale.transactionTimestamp)

\* A date that has a moment is refused only if it is outside the window, or names
\* the day or the hour in which the window starts (its edge: WindowAsDocumented);
\* today's never is, although the clock has a time of the day and the form's not.
RefusedOnlyOutside ==
  [][Refused => \/ ~ToDateTime(sale.date)
                \/ Outside(sale.date, sale.at)
                \/ AtEdge(sale.date, sale.at)]_vars

\* What the page's message says of a refused date, "Must be between today and two
\* years ago": the day two years ago is not refused.
WindowAsDocumented ==
  [][Refused => ~ToDateTime(sale.date) \/ Outside(sale.date, sale.at)]_vars

================================================================================
