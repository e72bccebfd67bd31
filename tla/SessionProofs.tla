----------------------------- MODULE SessionProofs -----------------------------
(***************************************************************************)
(* Theorems about Sessions: the halves of keys match, the cookies of a     *)
(* session are readable in it, and forms save into the session they were   *)
(* shown in, for any number of tabs, cookies, sessions and secrets.        *)
(***************************************************************************)
EXTENDS Sessions, TLAPS

Halves == {TrackingId, KeySuffix}

\* Both halves of one key, or neither.
Matched(c) ==
  /\ TrackingId \in DOMAIN c <=> KeySuffix \in DOMAIN c
  /\ TrackingId \in DOMAIN c => c[TrackingId] = c[KeySuffix]

\* A half names a session that was made; any other cookie is one of such a session
\* and encrypted with the secret that the session was made with.
Kept(c, b) ==
  \A n \in DOMAIN c :
    \/ n \in Halves /\ c[n] \in 1 .. Len(b)
    \/ \E s \in 1 .. Len(b), k \in CacheKeys : n = NameCookie(s, k) /\ c[n] = b[s]

CookiesOK(c, b) == Matched(c) /\ Kept(c, b)

ResponseOK(r, b) ==
  /\ r = Response(r.set, r.discard, r.goes, r.page, r.thrown)
  /\ CookiesOK(r.set, b)
  /\ TrackingId \in r.discard <=> KeySuffix \in r.discard
  /\ r.goes \in {"", "start", "page", "error"}

\* The request of a tab that shows pg.
RequestOK(q, pg, b) ==
  \/ q = Idle
  \/ /\ q = Sent(q.kind, q.cookies, q.token)
     /\ CookiesOK(q.cookies, b)
     /\ q.kind \in {"start", "page", "error", "form", "restart"}
     /\ q.kind \in {"form", "restart"} => q.token = pg
  \/ q = [at |-> "reply", response |-> q.response] /\ ResponseOK(q.response, b)

\* The inductive invariant.
SessionInv ==
  /\ secret \in Nat
  /\ born \in Seq(Nat)
  /\ CookiesOK(jar, born)
  /\ page = [t \in Tabs |-> page[t]]
  /\ req = [t \in Tabs |-> req[t]]
  /\ \A t \in Tabs : RequestOK(req[t], page[t], born)

----------
(* Facts about the parts.                                                  *)

\* The two names of the halves are no name of a session's cookies.
LEMMA NamesApart ==
  ASSUME NEW s \in Nat \ {0}, NEW k
  PROVE  NameCookie(s, k) \notin Halves /\ TrackingId # KeySuffix
BY DEF NameCookie, Halves, TrackingId, KeySuffix

\* Of two sessions no cookie has the same name.
LEMMA NamesDiffer ==
  ASSUME NEW s, NEW t, NEW k, NEW l, NameCookie(s, k) = NameCookie(t, l)
  PROVE  s = t
BY DEF NameCookie

\* What was kept stays kept when a session is made.
LEMMA KeptLonger ==
  ASSUME NEW c, NEW b \in Seq(Nat), NEW x \in Nat, CookiesOK(c, b)
  PROVE  CookiesOK(c, Append(b, x))
<1>1. /\ Len(Append(b, x)) = Len(b) + 1 /\ Len(b) \in Nat
      /\ \A i \in 1 .. Len(b) : Append(b, x)[i] = b[i]
  OBVIOUS
<1>2. 1 .. Len(b) \subseteq 1 .. Len(Append(b, x))
  BY <1>1
<1>. QED
  BY <1>1, <1>2 DEF CookiesOK, Kept

\* So does every request.
LEMMA RequestLonger ==
  ASSUME NEW q, NEW pg, NEW b \in Seq(Nat), NEW x \in Nat, RequestOK(q, pg, b)
  PROVE  RequestOK(q, pg, Append(b, x))
BY KeptLonger DEF RequestOK, ResponseOK

\* No cookies at all are in order.
LEMMA NoCookiesOK == ASSUME NEW b PROVE CookiesOK(NoCookies, b)
BY DEF CookiesOK, Matched, Kept, NoCookies

\* Fewer cookies are in order if the halves stay or go together.
LEMMA FewerOK ==
  ASSUME NEW c, NEW b, NEW D, CookiesOK(c, b), D \subseteq DOMAIN c,
         TrackingId \in D <=> KeySuffix \in D
  PROVE  CookiesOK([n \in D |-> c[n]], b)
BY DEF CookiesOK, Matched, Kept

\* Cookies set over others are in order if both are.
LEMMA OverOK ==
  ASSUME NEW c, NEW d, NEW b, CookiesOK(c, b), CookiesOK(d, b)
  PROVE  CookiesOK([n \in DOMAIN c \union DOMAIN d |-> IF n \in DOMAIN d THEN d[n] ELSE c[n]], b)
BY DEF CookiesOK, Matched, Kept

----------
(* Responses.                                                              *)

\* What a response is made of.
LEMMA ResponseMade ==
  ASSUME NEW set, NEW discard, NEW goes \in {"", "start", "page", "error"}, NEW pg, NEW thrown,
         NEW b, CookiesOK(set, b), TrackingId \in discard <=> KeySuffix \in discard
  PROVE  ResponseOK(Response(set, discard, goes, pg, thrown), b)
BY DEF ResponseOK, Response

\* Discarding all cookies leaves no half behind.
LEMMA DiscardAllOK ==
  ASSUME NEW c, NEW b, CookiesOK(c, b)
  PROVE  ResponseOK(DiscardAllCookies(c), b)
BY NoCookiesOK DEF DiscardAllCookies, ResponseOK, Response, CookiesOK, Matched

\* What a form that saves cookie k makes of it in session s.
Saves(s, k) == Response([n \in {NameCookie(s, k)} |-> secret], {}, "page", NoPage, FALSE)

\* A form saves in the session of its token.
SavesForm(q, s, r) ==
  /\ q.kind \in {"form", "restart"} => q.token.session = s
  /\ q.kind \notin {"start", "page", "error"}
  /\ \E k \in CacheKeys : r = Saves(s, k)

\* The responses that a handler makes in session s.
LEMMA ResponseCases ==
  ASSUME NEW q, NEW s, NEW r \in Responses(q, s)
  PROVE  \/ r = DiscardAllCookies(q.cookies)
         \/ r = ShowError
         \/ \E e \in BOOLEAN : r = ShowPage(s, {}, e)
         \/ r = ShowPage(s, NamesOf(s), FALSE)
         \/ SavesForm(q, s, r)
<1>1. Responses(q, s) \subseteq
        {DiscardAllCookies(q.cookies), ShowError, ShowPage(s, {}, TRUE),
         ShowPage(s, {}, FALSE), ShowPage(s, NamesOf(s), FALSE)} \union {Saves(s, k) : k \in CacheKeys}
  BY DEF Responses, Saves
<1>2. CASE r \in {Saves(s, k) : k \in CacheKeys}
  <2>1. q.kind \in {"form", "restart"} /\ TokenFails(q, s) =>
          r \in {DiscardAllCookies(q.cookies), ShowError}
    BY DEF Responses
  <2>2. q.kind \in {"start", "page", "error"} =>
          r \in {DiscardAllCookies(q.cookies), ShowError, ShowPage(s, {}, TRUE),
                ShowPage(s, {}, FALSE), ShowPage(s, NamesOf(s), FALSE)}
    BY DEF Responses
  <2>. QED
    BY <1>2, <2>1, <2>2 DEF SavesForm, TokenFails
<1>. QED
  BY <1>1, <1>2

\* A handler's response in session s, made with the secret of now.
LEMMA ResponsesOK ==
  ASSUME NEW q, NEW s, NEW b \in Seq(Nat), CookiesOK(q.cookies, b),
         s \in 1 .. Len(b), b[s] = secret,
         NEW r \in Responses(q, s)
  PROVE  ResponseOK(r, b)
<1>0. s \in Nat \ {0}
  OBVIOUS
<1>1. ResponseOK(DiscardAllCookies(q.cookies), b)
  BY DiscardAllOK
<1>2. ResponseOK(ShowError, b)
  BY NoCookiesOK DEF ShowError, ResponseOK, Response
<1>3. ASSUME NEW e PROVE ResponseOK(ShowPage(s, {}, e), b)
  BY NoCookiesOK DEF ShowPage, ResponseOK, Response
<1>4. ResponseOK(ShowPage(s, NamesOf(s), FALSE), b)
  <2>1. TrackingId \notin NamesOf(s) /\ KeySuffix \notin NamesOf(s)
    BY <1>0, NamesApart DEF NamesOf, Halves
  <2>. QED
    BY <2>1, NoCookiesOK DEF ShowPage, ResponseOK, Response
<1>5. ASSUME NEW k \in CacheKeys PROVE ResponseOK(Saves(s, k), b)
  <2>1. CookiesOK([n \in {NameCookie(s, k)} |-> secret], b)
    BY <1>0, NamesApart DEF CookiesOK, Matched, Kept, Halves
  <2>. QED
    BY <2>1 DEF Saves, ResponseOK, Response
<1>6. CASE SavesForm(q, s, r)
  BY <1>5, <1>6 DEF SavesForm
<1>. QED
  BY <1>1, <1>2, <1>3, <1>4, <1>6, ResponseCases

\* What a form saves has a name of its session.
LEMMA SetByForms == \A s, k : DOMAIN Saves(s, k).set = {NameCookie(s, k)}
BY DEF Saves, Response

\* A handler sets nothing, or a cookie of a form's session.
LEMMA WhatIsSet ==
  ASSUME NEW q, NEW s, NEW r \in Responses(q, s)
  PROVE  \/ r.set = NoCookies
         \/ SavesForm(q, s, r) /\ DOMAIN r.set \subseteq NamesOf(s)
<1>1. CASE SavesForm(q, s, r)
  BY <1>1, SetByForms DEF SavesForm, NamesOf
<1>2. CASE ~SavesForm(q, s, r)
  <2>1. \/ r = DiscardAllCookies(q.cookies)
        \/ r = ShowError
        \/ \E e \in BOOLEAN : r = ShowPage(s, {}, e)
        \/ r = ShowPage(s, NamesOf(s), FALSE)
    BY <1>2, ResponseCases
  <2>2. r.set = NoCookies
    <3>1. DiscardAllCookies(q.cookies).set = NoCookies
      BY DEF DiscardAllCookies, Response
    <3>2. ShowError.set = NoCookies
      BY DEF ShowError, Response
    <3>3. \A d, e : ShowPage(s, d, e).set = NoCookies
      BY DEF ShowPage, Response
    <3>. QED
      BY <2>1, <3>1, <3>2, <3>3
  <2>. QED
    BY <2>2
<1>. QED
  BY <1>1, <1>2

\* A response has the shape that Response gives.
LEMMA ResponseShape ==
  ASSUME NEW q, NEW s, NEW r \in Responses(q, s)
  PROVE  r = Response(r.set, r.discard, r.goes, r.page, r.thrown)
<1>1. CASE SavesForm(q, s, r)
  BY <1>1 DEF SavesForm, Saves, Response
<1>2. CASE ~SavesForm(q, s, r)
  <2>1. \/ r = DiscardAllCookies(q.cookies)
        \/ r = ShowError
        \/ \E e \in BOOLEAN : r = ShowPage(s, {}, e)
        \/ r = ShowPage(s, NamesOf(s), FALSE)
    BY <1>2, ResponseCases
  <2>. QED
    BY <2>1 DEF DiscardAllCookies, ShowError, ShowPage, Response
<1>. QED
  BY <1>1, <1>2

\* It sets no half of a key by itself.
LEMMA NoHalvesSet ==
  ASSUME NEW q, NEW s \in Nat \ {0}, NEW r \in Responses(q, s)
  PROVE  TrackingId \notin DOMAIN r.set /\ KeySuffix \notin DOMAIN r.set
BY WhatIsSet, NamesApart DEF NoCookies, Halves, NamesOf

\* With the halves of a new session's key.
LEMMA WithSessionOK ==
  ASSUME NEW r, NEW b \in Seq(Nat), NEW s \in 1 .. Len(b), ResponseOK(r, b),
         TrackingId \notin DOMAIN r.set, KeySuffix \notin DOMAIN r.set
  PROVE  ResponseOK(WithSession(r, s), b)
<1>1. CASE r.thrown
  BY <1>1 DEF WithSession
<1>2. CASE ~r.thrown
  <2>. DEFINE set == [n \in DOMAIN r.set \union {TrackingId, KeySuffix} |->
                        IF n \in DOMAIN r.set THEN r.set[n] ELSE s]
  <2>1. CookiesOK(set, b)
    BY DEF ResponseOK, CookiesOK, Matched, Kept, Halves
  <2>2. WithSession(r, s) = Response(set, r.discard, r.goes, r.page, r.thrown)
    BY <1>2 DEF WithSession, ResponseOK, Response
  <2>3. r.goes \in {"", "start", "page", "error"} /\ (TrackingId \in r.discard <=> KeySuffix \in r.discard)
    BY DEF ResponseOK
  <2>. HIDE DEF set
  <2>. QED
    BY ZenonT(40), <2>1, <2>2, <2>3, ResponseMade
<1>. QED
  BY <1>1, <1>2

----------
(* The invariant is inductive.                                             *)

\* At first there is no session.
LEMMA SessionInit == Init => SessionInv
<1>. SUFFICES ASSUME Init PROVE SessionInv
  OBVIOUS
<1>1. CookiesOK(jar, born)
  BY NoCookiesOK DEF Init
<1>2. secret \in Nat /\ born \in Seq(Nat)
  BY DEF Init
<1>. QED
  BY <1>1, <1>2 DEF Init, SessionInv, RequestOK

\* A step that changes one tab's request, its page perhaps, and cookies.
LEMMA OneTab ==
  ASSUME SessionInv, NEW t \in Tabs, NEW q, NEW pg,
         req' = [req EXCEPT ![t] = q],
         page' = [page EXCEPT ![t] = pg],
         secret' = secret, born' = born, CookiesOK(jar', born),
         RequestOK(q, pg, born)
  PROVE  SessionInv'
<1>1. /\ req' = [u \in Tabs |-> req'[u]] /\ page' = [u \in Tabs |-> page'[u]]
      /\ req'[t] = q /\ page'[t] = pg
      /\ \A u \in Tabs \ {t} : req'[u] = req[u] /\ page'[u] = page[u]
  BY DEF SessionInv
<1>2. \A u \in Tabs : RequestOK(req'[u], page'[u], born')
  BY <1>1 DEF SessionInv
<1>. QED
  BY <1>1, <1>2 DEF SessionInv

\* The same for a page that stays.
LEMMA OneRequest ==
  ASSUME SessionInv, NEW t \in Tabs, NEW q,
         req' = [req EXCEPT ![t] = q],
         UNCHANGED <<secret, born, jar, page>>,
         RequestOK(q, page[t], born)
  PROVE  SessionInv'
<1>1. page' = [page EXCEPT ![t] = page[t]]
  BY DEF SessionInv
<1>2. CookiesOK(jar', born)
  BY DEF SessionInv
<1>. QED
  BY <1>1, <1>2, OneTab

\* A request is sent with the cookies as they are.
LEMMA SendStep ==
  ASSUME SessionInv, NEW t \in Tabs, NEW kind \in {"start", "page", "form", "restart"}, Send(t, kind)
  PROVE  SessionInv'
<1>1. RequestOK(Sent(kind, jar, page[t]), page[t], born)
  BY DEF SessionInv, RequestOK, Sent
<1>. QED
  BY <1>1, OneRequest DEF Send

\* What is known of a request that a handler gets.
LEMMA SentRequest ==
  ASSUME SessionInv, NEW t \in Tabs, req[t].at = "sent"
  PROVE  /\ req[t] = Sent(req[t].kind, req[t].cookies, req[t].token)
         /\ CookiesOK(req[t].cookies, born)
         /\ req[t].kind \in {"start", "page", "error", "form", "restart"}
         /\ req[t].kind \in {"form", "restart"} => req[t].token = page[t]
BY DEF SessionInv, RequestOK, Sent, Idle

\* An answer in order is a request in order.
LEMMA AnswerOK ==
  ASSUME NEW r, NEW pg, NEW b, ResponseOK(r, b)
  PROVE  RequestOK([at |-> "reply", response |-> r], pg, b)
BY DEF RequestOK

\* A request whose session does not decrypt.
LEMMA HandleInvalidStep ==
  ASSUME SessionInv, NEW t \in Tabs, HandleInvalid(t) PROVE SessionInv'
<1>1. ResponseOK(DiscardAllCookies(req[t].cookies), born)
  BY SentRequest, DiscardAllOK DEF HandleInvalid
<1>. QED
  BY <1>1, AnswerOK, OneRequest DEF HandleInvalid, Answer

\* The session that valid halves name.
LEMMA SessionOfHalves ==
  ASSUME NEW c, NEW b \in Seq(Nat), CookiesOK(c, b), TrackingId \in DOMAIN c
  PROVE  c[TrackingId] \in 1 .. Len(b)
BY NamesApart DEF CookiesOK, Kept, Halves

\* A request in a session.
LEMMA HandleInSessionStep ==
  ASSUME SessionInv, NEW t \in Tabs, HandleInSession(t) PROVE SessionInv'
<1>. DEFINE s == req[t].cookies[TrackingId]
<1>1. CookiesOK(req[t].cookies, born)
  BY SentRequest DEF HandleInSession
<1>2. s \in 1 .. Len(born) /\ born[s] = secret
  BY <1>1, SessionOfHalves DEF HandleInSession, HasSession, SessionInv
<1>3. PICK r \in Responses(req[t], s) : Answer(t, r)
  BY DEF HandleInSession
<1>4. ResponseOK(r, born)
  BY <1>1, <1>2, <1>3, ResponsesOK DEF SessionInv
<1>. QED
  BY <1>3, <1>4, AnswerOK, OneRequest DEF HandleInSession, Answer

\* A request that begins a session.
LEMMA HandleNewSessionStep ==
  ASSUME SessionInv, NEW t \in Tabs, HandleNewSession(t) PROVE SessionInv'
<1>. DEFINE s == Len(born) + 1
<1>1. /\ born' = Append(born, secret) /\ born \in Seq(Nat) /\ secret \in Nat
      /\ UNCHANGED <<secret, jar, page>>
  BY DEF HandleNewSession, SessionInv
<1>2. /\ born' \in Seq(Nat) /\ Len(born') = s /\ s \in Nat \ {0}
      /\ s \in 1 .. Len(born') /\ born'[s] = secret
  BY <1>1
<1>3. CookiesOK(jar', born')
  BY <1>1, KeptLonger DEF SessionInv
<1>4. \A u \in Tabs : RequestOK(req[u], page[u], born')
  BY <1>1, RequestLonger DEF SessionInv
<1>5. CookiesOK(req[t].cookies, born')
  BY <1>1, SentRequest, KeptLonger DEF HandleNewSession
<1>6. PICK r \in Responses(req[t], s) : Answer(t, WithSession(r, s))
  BY DEF HandleNewSession
<1>7. ResponseOK(r, born')
  BY <1>2, <1>5, <1>6, ResponsesOK
<1>8. ResponseOK(WithSession(r, s), born')
  BY <1>2, <1>6, <1>7, NoHalvesSet, WithSessionOK
<1>. DEFINE answer == [at |-> "reply", response |-> WithSession(r, s)]
<1>9. RequestOK(answer, page[t], born')
  BY <1>8, AnswerOK
<1>10. req' = [req EXCEPT ![t] = answer] /\ req = [u \in Tabs |-> req[u]]
  BY <1>6 DEF Answer, SessionInv
<1>. HIDE DEF answer
<1>11. /\ req' = [u \in Tabs |-> req'[u]]
       /\ \A u \in Tabs : req'[u] = IF u = t THEN answer ELSE req[u]
  BY <1>10
<1>12. \A u \in Tabs : RequestOK(req'[u], page'[u], born')
  BY <1>1, <1>4, <1>9, <1>11
<1>. QED
  BY <1>1, <1>2, <1>3, <1>11, <1>12 DEF SessionInv

\* The browser receives a response.
LEMMA ReceiveStep ==
  ASSUME SessionInv, NEW t \in Tabs, Receive(t) PROVE SessionInv'
<1>. DEFINE r == req[t].response
            D == DOMAIN jar \ r.discard
            left == [n \in D |-> jar[n]]
            now == [n \in D \union DOMAIN r.set |-> IF n \in DOMAIN r.set THEN r.set[n] ELSE jar[n]]
<1>0. RequestOK(req[t], page[t], born) /\ req[t].at = "reply"
  BY DEF SessionInv, Receive
<1>1. ResponseOK(r, born)
  BY <1>0 DEF RequestOK, Sent, Idle
<1>2. CookiesOK(jar, born) /\ CookiesOK(r.set, born) /\ (TrackingId \in r.discard <=> KeySuffix \in r.discard)
  BY <1>1 DEF SessionInv, ResponseOK
<1>3. TrackingId \in D <=> KeySuffix \in D
  BY <1>2 DEF CookiesOK, Matched
<1>4. CookiesOK(left, born)
  BY <1>2, <1>3, FewerOK
<1>5. now = [n \in DOMAIN left \union DOMAIN r.set |-> IF n \in DOMAIN r.set THEN r.set[n] ELSE left[n]]
  OBVIOUS
<1>6. CookiesOK(now, born)
  BY <1>2, <1>4, <1>5, OverOK
<1>7. jar' = now /\ UNCHANGED <<secret, born>>
  BY DEF Receive
<1>8. CASE r.goes = ""
  <2>1. req' = [req EXCEPT ![t] = Idle] /\ page' = [page EXCEPT ![t] = r.page]
    BY <1>8 DEF Receive
  <2>2. RequestOK(Idle, r.page, born)
    BY DEF RequestOK
  <2>. HIDE DEF now
  <2>. QED
    BY <1>6, <1>7, <2>1, <2>2, OneTab
<1>9. CASE r.goes # ""
  <2>1. req' = [req EXCEPT ![t] = Sent(r.goes, now, NoPage)] /\ page' = page
    BY <1>9 DEF Receive
  <2>2. r.goes \in {"start", "page", "error"}
    BY <1>1, <1>9 DEF ResponseOK
  <2>. HIDE DEF now
  <2>3. RequestOK(Sent(r.goes, now, NoPage), page[t], born)
    BY <1>6, <2>2 DEF RequestOK, Sent
  <2>4. page' = [page EXCEPT ![t] = page[t]]
    BY <2>1 DEF SessionInv
  <2>. QED
    BY <1>6, <1>7, <2>1, <2>3, <2>4, OneTab
<1>. QED
  BY <1>8, <1>9

\* A response is lost.
LEMMA LoseStep == ASSUME SessionInv, NEW t \in Tabs, Lose(t) PROVE SessionInv'
<1>1. RequestOK(Idle, page[t], born)
  BY DEF RequestOK
<1>. QED
  BY <1>1, OneRequest DEF Lose

\* Cookies expire.
LEMMA ExpireStep == ASSUME SessionInv, Expire PROVE SessionInv'
<1>1. PICK n \in DOMAIN jar \ Halves : jar' = [m \in DOMAIN jar \ {n} |-> jar[m]]
  BY DEF Expire, Halves
<1>2. CookiesOK(jar', born)
  BY <1>1, FewerOK DEF SessionInv, CookiesOK, Matched, Halves
<1>. QED
  BY <1>2 DEF SessionInv, Expire

\* The browser is closed.
LEMMA CloseBrowserStep == ASSUME SessionInv, CloseBrowser PROVE SessionInv'
<1>1. CookiesOK(jar', born)
  BY FewerOK DEF SessionInv, CloseBrowser
<1>. QED
  BY <1>1 DEF SessionInv, CloseBrowser, RequestOK

\* Every step keeps the invariant.
LEMMA SessionStep == SessionInv /\ [Next]_vars => SessionInv'
<1>. SUFFICES ASSUME SessionInv, [Next]_vars PROVE SessionInv'
  OBVIOUS
<1>1. ASSUME NEW t \in Tabs, Open(t) \/ SubmitForm(t) PROVE SessionInv'
  BY <1>1, SendStep DEF Open, SubmitForm
<1>2. ASSUME NEW t \in Tabs, Server(t) PROVE SessionInv'
  BY <1>2, HandleInvalidStep, HandleInSessionStep, HandleNewSessionStep, ReceiveStep DEF Server
<1>3. ASSUME NEW t \in Tabs, Lose(t) PROVE SessionInv'
  BY <1>3, LoseStep
<1>4. CASE ChangeSecret
  BY <1>4 DEF ChangeSecret, SessionInv
<1>5. CASE Expire
  BY <1>5, ExpireStep
<1>6. CASE CloseBrowser
  BY <1>6, CloseBrowserStep
<1>7. CASE UNCHANGED vars
  BY <1>7 DEF vars, SessionInv
<1>. QED
  BY <1>1, <1>2, <1>3, <1>4, <1>5, <1>6, <1>7 DEF Next

\* The invariant holds always.
LEMMA SessionsInOrder == Spec => []SessionInv
<1>. QED
  BY SessionInit, SessionStep, PTL DEF Spec

----------
(* The theorems.                                                           *)

\* The browser never holds halves of two keys, or one half only, whatever tabs
\* race for a first session or discard it.
THEOREM HalvesAlwaysMatch == Spec => []HalvesMatch
<1>1. SessionInv => HalvesMatch
  BY DEF SessionInv, CookiesOK, Matched, HalvesMatch, NoSession
<1>. QED
  BY <1>1, SessionsInOrder, PTL

\* No handler that runs in a session that decrypts finds a cookie of it that does
\* not, however often the secret was changed.
THEOREM CookiesAlwaysReadable == Spec => []CookiesReadable
<1>1. ASSUME SessionInv PROVE CookiesReadable
  <2>. SUFFICES ASSUME NEW t \in Tabs, req[t].at = "sent", HasSession(req[t].cookies)
                PROVE  ~Unreadable(req[t].cookies, req[t].cookies[TrackingId])
    BY DEF CookiesReadable
  <2>. DEFINE c == req[t].cookies
              s == c[TrackingId]
  <2>1. CookiesOK(c, born) /\ TrackingId \in DOMAIN c /\ born[s] = secret
    BY <1>1, SentRequest DEF HasSession
  <2>2. s \in 1 .. Len(born)
    BY <1>1, <2>1, SessionOfHalves DEF SessionInv
  <2>3. ASSUME NEW k \in CacheKeys, NameCookie(s, k) \in DOMAIN c
        PROVE  c[NameCookie(s, k)] = secret
    <3>1. NameCookie(s, k) \notin Halves
      BY <2>2, NamesApart
    <3>2. PICK u \in 1 .. Len(born), l \in CacheKeys :
            NameCookie(s, k) = NameCookie(u, l) /\ c[NameCookie(s, k)] = born[u]
      BY <2>1, <2>3, <3>1 DEF CookiesOK, Kept
    <3>. QED
      BY <2>1, <3>2, NamesDiffer
  <2>. QED
    BY <2>3 DEF Unreadable, NamesOf
<1>. QED
  BY <1>1, SessionsInOrder, PTL

\* A form saves into the session whose page it was on, or not at all.
THEOREM FormsStayInSession == Spec => FormStaysInSession
<1>. DEFINE Saved(t) == DOMAIN req'[t].response.set \ {TrackingId, KeySuffix}
<1>1. ASSUME SessionInv, [Next]_vars, NEW t \in Tabs, req[t].at = "sent", req'[t].at = "reply"
      PROVE  Saved(t) \subseteq NamesOf(page[t].session)
  <2>1. HandleInvalid(t) \/ HandleInSession(t) \/ HandleNewSession(t)
    <3>1. req = [u \in Tabs |-> req[u]]
      BY <1>1 DEF SessionInv
    <3>2. ASSUME NEW u \in Tabs \ {t},
                 Open(u) \/ SubmitForm(u) \/ Server(u) \/ Lose(u)
          PROVE  req'[t] = req[t]
      BY <3>1, <3>2 DEF Open, SubmitForm, Send, Server, HandleInvalid, HandleInSession,
                        HandleNewSession, Answer, Receive, Lose
    <3>3. ~Open(t) /\ ~SubmitForm(t) /\ ~Receive(t) /\ ~Lose(t)
      BY <1>1, <3>1 DEF Open, SubmitForm, Receive, Lose, Idle
    <3>4. ~(ChangeSecret \/ Expire \/ CloseBrowser \/ UNCHANGED vars)
      BY <1>1 DEF ChangeSecret, Expire, CloseBrowser, vars, Idle
    <3>. QED
      BY <1>1, <3>2, <3>3, <3>4 DEF Next, Server
  <2>2. req = [u \in Tabs |-> req[u]]
    BY <1>1 DEF SessionInv
  <2>3. ASSUME NEW s \in Nat \ {0}, NEW r \in Responses(req[t], s)
        PROVE  DOMAIN r.set \subseteq NamesOf(page[t].session)
    <3>1. CASE r.set = NoCookies
      BY <3>1 DEF NoCookies
    <3>2. CASE r.set # NoCookies
      BY <1>1, <2>3, <3>2, WhatIsSet, SentRequest DEF SavesForm
    <3>. QED
      BY <3>1, <3>2
  <2>4. CASE HandleInvalid(t)
    BY <2>2, <2>4 DEF HandleInvalid, Answer, DiscardAllCookies, Response, NoCookies
  <2>5. CASE HandleInSession(t)
    <3>1. PICK r \in Responses(req[t], req[t].cookies[TrackingId]) : Answer(t, r)
      BY <2>5 DEF HandleInSession
    <3>2. req[t].cookies[TrackingId] \in Nat \ {0}
      BY <1>1, <2>5, SentRequest, SessionOfHalves DEF HandleInSession, HasSession, SessionInv
    <3>. QED
      BY <2>2, <2>3, <3>1, <3>2 DEF Answer
  <2>6. CASE HandleNewSession(t)
    <3>. DEFINE s == Len(born) + 1
    <3>1. PICK r \in Responses(req[t], s) : Answer(t, WithSession(r, s))
      BY <2>6 DEF HandleNewSession
    <3>2. s \in Nat \ {0}
      BY <1>1 DEF SessionInv
    <3>3. DOMAIN r.set \subseteq NamesOf(page[t].session)
      BY <2>3, <3>1, <3>2
    <3>4. DOMAIN WithSession(r, s).set \subseteq DOMAIN r.set \union {TrackingId, KeySuffix}
      <4>1. CASE r.thrown
        BY <4>1 DEF WithSession
      <4>2. CASE ~r.thrown
        <5>1. r = Response(r.set, r.discard, r.goes, r.page, r.thrown)
          BY <3>1, ResponseShape
        <5>. QED
          BY <4>2, <5>1 DEF WithSession, Response
      <4>. QED
        BY <4>1, <4>2
    <3>. QED
      BY <2>2, <3>1, <3>3, <3>4 DEF Answer
  <2>. QED
    BY <2>1, <2>4, <2>5, <2>6
<1>2. SessionInv /\ [Next]_vars =>
        [\A t \in Tabs :
           LET saved == DOMAIN req'[t].response.set \ {TrackingId, KeySuffix}
           IN  req[t].at = "sent" /\ req'[t].at = "reply" =>
                 saved \subseteq NamesOf(page[t].session)]_vars
  BY <1>1
<1>. QED
  BY <1>2, SessionsInOrder, PTL DEF Spec, FormStaysInSession

================================================================================
