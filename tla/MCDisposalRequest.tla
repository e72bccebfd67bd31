--------------------------- MODULE MCDisposalRequest ---------------------------
(* DisposalRequest for TLC: the clock starts on days at the ends of months and *)
(* of years, some of them leap years, in the morning or just before midnight;  *)
(* forms post days around these, with no time, with all of one or with parts.  *)
(* The date does not depend on the address, so that all forms are sent with    *)
(* one address and all addresses with one form.                                *)
EXTENDS DisposalRequest

Day(d, m, y) == [day |-> d, month |-> m, year |-> y]
Time(h, n) == [hour |-> h, minutes |-> n]

MCStarts == {Day(28, 2, 2014), Day(31, 12, 2015), Day(28, 2, 2016), Day(29, 2, 2016),
             Day(30, 3, 2014)}
MCTimes == {Time(0, 0), Time(1, 30), Time(23, 58), Time(23, 59)}
MCSkippedHours == {[day |-> 30, month |-> 3, year |-> 2014, hour |-> 1]}
MCFormTimes == {Time(None, None), Time(None, 30), Time(0, None), Time(1, 30),
                Time(23, None), Time(23, 59), Time(24, 0)}
MCEntries == {[day |-> d, month |-> m, hour |-> t.hour, minutes |-> t.minutes] :
                d \in {1, 2, 28, 29, 30, 31}, m \in {1, 2, 3, 12}, t \in MCFormTimes}

\* For a run that looks for one date only.
NoSkippedHours == {}
Plain == {e \in MCEntries : e.hour = None /\ e.minutes = None}

\* Bound: the address that all forms are sent with, and the form and the moment that all
\* addresses are sent with.
TheAddress == Len(address) = 2 /\ \A i \in DOMAIN address : Size(address[i]) = 1
TheMoment == clock = At(Day(30, 3, 2014), Time(0, 0))
TheForm == sale' # NoSale => sale'.date = At(Day(1, 3, 2014), Time(None, None))

MCInit == RequestInit /\ (TheAddress \/ TheMoment)
MCNext == RequestNext /\ (TheAddress \/ (TheForm /\ ticks' = 0))
MCSpec == MCInit /\ [][MCNext]_requestVars

================================================================================
