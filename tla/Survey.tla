-------------------------------- MODULE Survey --------------------------------
(***************************************************************************)
(* The survey that the exit buttons of DisposeSuccess and VehicleLookup    *)
(* open.  Whether a button does is decided when its page is shown, from a  *)
(* cookie with the time of the last exit; pressing it sets this cookie     *)
(* anew, whether or not it opened the survey.  The cookie lasts as long as *)
(* the application's other cookies.                                        *)
(***************************************************************************)
EXTENDS Naturals

CONSTANTS
  Tabs,           \* tabs of the browser
  Interval,       \* survey.interval: 7 days by default
  CookieMaxAges,  \* values of cookieMaxAge: 30 minutes by default
  MaxTime         \* bound: how long a behaviour lasts

ASSUME TimesAssumption ==
  Interval \in Nat /\ CookieMaxAges \subseteq Nat \ {0} /\ MaxTime \in Nat

VARIABLES
  now,          \* DateService.now, which is also the browser's time
  cookieMaxAge, \* as configured
  cookie,       \* the cookie: the date in it, and until when it lasts
  page,         \* page[t]: whether tab t shows an exit button and whether that opens the survey
  req,          \* req[t]: the date in the answer that tab t waits for, or Never
  opened        \* when the survey was last opened, or Never

vars == <<now, cookieMaxAge, cookie, page, req, opened>>

Never == 0
NoCookie == [date |-> 0, until |-> 0]
Pages == {"none", "plain", "offers"}

Init ==
  /\ now = 1
  /\ cookieMaxAge \in CookieMaxAges
  /\ cookie = NoCookie
  /\ page = [t \in Tabs |-> "none"]
  /\ req = [t \in Tabs |-> Never]
  /\ opened = Never

\* The browser sends the cookie.
Lasts == now < cookie.until

\* Mutant: within the last moment of the interval it is offered.
SurveyUrl_Early == Lasts => cookie.date + Interval <= now

\* SurveyUrl.apply, of a survey that is configured: there is one to offer.
SurveyUrl == Lasts => cookie.date + Interval < now

\* A page with an exit button is shown.
Present(t) ==
  /\ req[t] = Never
  /\ page' = [page EXCEPT ![t] = IF SurveyUrl THEN "offers" ELSE "plain"]
  /\ UNCHANGED <<now, cookieMaxAge, cookie, req, opened>>

\* Mutant: the time is that of the last opening.
TriggerDate_OfOpening == IF opened = Never THEN now ELSE opened

\* What exit puts in the cookie.
TriggerDate == now

\* The button opens the survey, if it does, and exit is sent and handled.
Exit(t) ==
  /\ page[t] # "none"
  /\ opened' = IF page[t] = "offers" THEN now ELSE opened
  /\ page' = [page EXCEPT ![t] = "none"]
  /\ req' = [req EXCEPT ![t] = TriggerDate]
  /\ UNCHANGED <<now, cookieMaxAge, cookie>>

\* The answer to exit arrives; the cookie's age counts from here.
Receive(t) ==
  /\ req[t] # Never
  /\ cookie' = [date |-> req[t], until |-> now + cookieMaxAge]
  /\ req' = [req EXCEPT ![t] = Never]
  /\ UNCHANGED <<now, cookieMaxAge, page, opened>>

\* The user goes elsewhere: to the next vehicle, or back to the start.
Leave(t) ==
  /\ page[t] # "none"
  /\ page' = [page EXCEPT ![t] = "none"]
  /\ UNCHANGED <<now, cookieMaxAge, cookie, req, opened>>

Tick ==
  /\ now < MaxTime /\ now' = now + 1
  /\ UNCHANGED <<cookieMaxAge, cookie, page, req, opened>>

Next == Tick \/ \E t \in Tabs : Present(t) \/ Exit(t) \/ Receive(t) \/ Leave(t)

Spec == Init /\ [][Next]_vars

-------------------------------------------------------------------------------
(* Properties.                                                             *)

\* A user with one tab, who waits for answers, does not open the survey again before
\* the interval is over or the cookie has gone, however long answers and pauses take
\* and whatever exits there are in between that do not open it.
OpenedAtIntervals ==
  [][opened' # opened /\ opened # Never =>
       opened' > opened + Interval \/ opened' >= opened + cookieMaxAge]_vars

===============================================================================
