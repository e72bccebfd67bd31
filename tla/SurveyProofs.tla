------------------------------ MODULE SurveyProofs ------------------------------
(***************************************************************************)
(* A theorem about Survey: whatever the interval and the cookies' age are, *)
(* a user with one tab opens the survey again only after the shorter one.  *)
(***************************************************************************)
EXTENDS Survey, TLAPS

Due(time) == time > opened + Interval \/ time >= opened + cookieMaxAge

\* What the one tab knows of the last opening: the answer to its exit is still to come,
\* and not older than it, or the cookie is not.
Remembered(t) ==
  IF req[t] # Never THEN req[t] >= opened
  ELSE cookie.date >= opened /\ cookie.until >= opened + cookieMaxAge

SurveyInv(t) ==
  /\ now \in Nat \ {0} /\ cookieMaxAge \in Nat /\ opened \in Nat /\ opened <= now
  /\ cookie.date \in Nat /\ cookie.until \in Nat
  /\ page = [u \in {t} |-> page[t]] /\ req = [u \in {t} |-> req[t]]
  /\ req[t] \in Nat
  /\ req[t] # Never => page[t] = "none"
  /\ opened # Never => Remembered(t) /\ (page[t] = "offers" => Due(now))

\* At first no survey was opened.
LEMMA SurveyInit == ASSUME NEW t, Tabs = {t}, Init PROVE SurveyInv(t)
<1>1. cookieMaxAge \in Nat
  BY TimesAssumption DEF Init
<1>. QED
  BY <1>1 DEF Init, SurveyInv, NoCookie, Never

\* Every step keeps the invariant, and a survey is opened only when it is due.
LEMMA SurveyStep ==
  ASSUME NEW t, Tabs = {t}, SurveyInv(t), [Next]_vars
  PROVE  /\ SurveyInv(t)'
         /\ opened' # opened /\ opened # Never => Due(opened')
<1>0. Interval \in Nat
  BY TimesAssumption
<1>. USE <1>0
<1>1. CASE Present(t)
  <2>1. SurveyUrl => opened = Never \/ Due(now)
    BY <1>1 DEF SurveyInv, Remembered, Present, SurveyUrl, Lasts, Due
  <2>2. /\ page' = [u \in {t} |-> page'[t]]
        /\ page'[t] = "offers" => SurveyUrl
    BY <1>1 DEF SurveyInv, Present
  <2>3. UNCHANGED <<now, cookieMaxAge, cookie, req, opened>> /\ req[t] = Never
    BY <1>1 DEF Present
  <2>. QED
    BY <2>1, <2>2, <2>3 DEF SurveyInv, Remembered, Due
<1>2. CASE Exit(t)
  <2>1. /\ page' = [u \in {t} |-> page'[t]] /\ page'[t] = "none"
        /\ req' = [u \in {t} |-> req'[t]] /\ req'[t] = now
        /\ UNCHANGED <<now, cookieMaxAge, cookie>>
    BY <1>2 DEF SurveyInv, Exit, TriggerDate
  <2>2. opened' = opened \/ (opened' = now /\ page[t] = "offers")
    BY <1>2 DEF Exit
  <2>3. opened' # opened /\ opened # Never => Due(opened')
    BY <2>2 DEF SurveyInv
  <2>4. Remembered(t)'
    BY <2>1, <2>2 DEF SurveyInv, Remembered, Never
  <2>5. /\ now \in Nat \ {0} /\ cookieMaxAge \in Nat
        /\ opened' \in Nat /\ opened' <= now
        /\ cookie.date \in Nat /\ cookie.until \in Nat
    BY <2>2 DEF SurveyInv
  <2>. QED
    BY <2>1, <2>3, <2>4, <2>5 DEF SurveyInv
<1>3. CASE Receive(t)
  <2>1. /\ req' = [u \in {t} |-> req'[t]] /\ req'[t] = Never /\ Never \in Nat
        /\ UNCHANGED <<now, cookieMaxAge, page, opened>>
    BY <1>3 DEF SurveyInv, Receive, Never
  <2>2. cookie' = [date |-> req[t], until |-> now + cookieMaxAge] /\ page[t] = "none"
    BY <1>3 DEF SurveyInv, Receive
  <2>3. cookie'.date = req[t] /\ cookie'.until = now + cookieMaxAge
    BY <2>2
  <2>4. cookie'.date \in Nat /\ cookie'.until \in Nat
    BY <2>3 DEF SurveyInv
  <2>5. opened # Never => Remembered(t)'
    <3>1. opened # Never => req[t] >= opened
      BY <1>3 DEF SurveyInv, Remembered, Receive
    <3>. QED
      BY <2>1, <2>3, <3>1 DEF SurveyInv, Remembered
  <2>. QED
    BY <2>1, <2>2, <2>4, <2>5 DEF SurveyInv
<1>4. CASE Leave(t)
  BY <1>4 DEF SurveyInv, Remembered, Leave, Due
<1>5. CASE Tick
  BY <1>5 DEF SurveyInv, Remembered, Tick, Due
<1>6. CASE UNCHANGED vars
  BY <1>6 DEF SurveyInv, Remembered, vars, Due
<1>. QED
  BY <1>1, <1>2, <1>3, <1>4, <1>5, <1>6 DEF Next

\* A user with one tab opens the survey again only when the interval is over or the
\* cookie has gone, for any interval and any maximum age.
THEOREM OneTabOpensAtIntervals == ASSUME NEW t, Tabs = {t} PROVE Spec => OpenedAtIntervals
<1>1. Init => SurveyInv(t)
  BY SurveyInit
<1>2. SurveyInv(t) /\ [Next]_vars => SurveyInv(t)'
  BY SurveyStep
<1>3. SurveyInv(t) /\ [Next]_vars =>
        [opened' # opened /\ opened # Never =>
           opened' > opened + Interval \/ opened' >= opened + cookieMaxAge]_vars
  BY SurveyStep DEF Due
<1>. QED
  BY <1>1, <1>2, <1>3, PTL DEF Spec, OpenedAtIntervals
================================================================================
