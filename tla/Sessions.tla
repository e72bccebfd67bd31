------------------------------- MODULE Sessions -------------------------------
(***************************************************************************)
(* The encrypted client-side session beneath the cookies of CookieJar: how *)
(* the session key reaches the browser in two cookies, how the names and   *)
(* values of all other cookies depend on it and on the application secret, *)
(* and what becomes of requests whose session is missing or no longer      *)
(* decrypts, among them forms of pages shown under another session.        *)
(*                                                                         *)
(* A session is a number, which stands for its random key and for the      *)
(* tracking id that is the first half of the encrypted key.  A secret is   *)
(* the number of an application secret.  Decrypting with another secret    *)
(* than the one used to encrypt fails (bad padding), as does decrypting a  *)
(* key put together from the halves of two sessions.                       *)
(***************************************************************************)
EXTENDS Naturals, Sequences

CONSTANTS
  Tabs,        \* tabs of the browser
  CacheKeys,   \* keys of the application's cookies
  MaxSessions, \* bound: session keys generated in a behaviour
  MaxSecrets   \* bound: application secrets the server is deployed with

ASSUME BoundsAssumption == MaxSessions \in Nat /\ MaxSecrets \in Nat \ {0}

VARIABLES
  secret, \* the application secret now
  born,   \* born[s]: the secret the key of session s was encrypted with
  jar,    \* the browser's cookies: name to value, for the names it holds
  page,   \* page[t]: the page tab t shows, with what its form's token says
  req     \* req[t]: the request tab t waits for

vars == <<secret, born, jar, page, req>>

(***************************************************************************)
(* Names are pairs: session 0 marks the two cookies whose names are the    *)
(* same in all sessions.  They hold the halves of a session's encrypted    *)
(* key.  The value of any other cookie is the secret that encrypted it.    *)
(***************************************************************************)
TrackingId == <<0, "tracking_id">>
KeySuffix  == <<0, "session_secret_key_suffix">>

\* Mutant: the session key is left out of the hash.
NameCookie_KeyOnly(s, k) == <<1, k>>

NameCookie(s, k) == <<s, k>>

NamesOf(s) == {NameCookie(s, k) : k \in CacheKeys}

NoCookies == [n \in {} |-> 0]
NoPage == [session |-> 0, secret |-> 0, error |-> FALSE]
Idle == [at |-> "none"]

\* validateSessionCookies on the cookies c of a request.
NoSession(c)  == TrackingId \notin DOMAIN c /\ KeySuffix \notin DOMAIN c
HasSession(c) ==
  /\ {TrackingId, KeySuffix} \subseteq DOMAIN c
  /\ c[TrackingId] = c[KeySuffix]
  /\ born[c[TrackingId]] = secret

--------------------------------------------------------------------------------
(* Responses: cookies set and discarded, where a redirect leads ("" when   *)
(* there is none), the page shown otherwise, and whether an exception kept *)
(* the filters from adding cookies of their own.                           *)

Response(set, discard, goes, pg, thrown) ==
  [set |-> set, discard |-> discard, goes |-> goes, page |-> pg, thrown |-> thrown]

\* Mutant: the tracking id survives like the cookie of the cookie message.
DiscardAllCookies_ButTrackingId(c) ==
  Response(NoCookies, DOMAIN c \ {TrackingId}, "start", NoPage, TRUE)

\* Mutant: back to the start without discarding.
DiscardAllCookies_Nothing(c) == Response(NoCookies, {}, "start", NoPage, TRUE)

\* CryptoHelper.discardAllCookies.
DiscardAllCookies(c) == Response(NoCookies, DOMAIN c, "start", NoPage, TRUE)

\* ErrorStrategy for any other exception.
ShowError == Response(NoCookies, {}, "error", NoPage, TRUE)

ShowPage(s, discard, error) ==
  Response(NoCookies, discard, "", [session |-> s, secret |-> secret, error |-> error], FALSE)

\* getCookieValue throws on some cookie the handler looks for.
Unreadable(c, s) == \E n \in NamesOf(s) \intersect DOMAIN c : c[n] # secret

\* Mutant: the token is accepted as long as it decrypts.
TokenFails_UnlessDecrypted(q, s) == FALSE

\* checkBody: the token is of another session than the request.
TokenFails(q, s) == q.token.session # s

\* The responses to request q in session s.
Responses(q, s) ==
  IF q.kind \in {"form", "restart"} /\ q.token.secret # secret THEN {DiscardAllCookies(q.cookies)}
  ELSE IF q.kind \in {"form", "restart"} /\ TokenFails(q, s) THEN {ShowError}
  ELSE IF q.kind \in {"page", "form"} /\ Unreadable(q.cookies, s) THEN {DiscardAllCookies(q.cookies)}
  ELSE CASE q.kind = "error"   -> {ShowPage(s, {}, TRUE)}
         [] q.kind = "restart" -> {DiscardAllCookies(q.cookies)}
         [] q.kind = "start"   -> {ShowPage(s, NamesOf(s), FALSE)}
         [] q.kind = "page"    -> {ShowPage(s, {}, FALSE)}
         [] OTHER -> {Response([n \in {NameCookie(s, k)} |-> secret], {}, "page", NoPage, FALSE) :
                        k \in CacheKeys}

\* The cookies of a new session, unless the handler threw.
WithSession(r, s) ==
  IF r.thrown THEN r
  ELSE [r EXCEPT !.set = [n \in DOMAIN r.set \union {TrackingId, KeySuffix} |->
                            IF n \in DOMAIN r.set THEN r.set[n] ELSE s]]

--------------------------------------------------------------------------------
Init ==
  /\ secret = 1
  /\ born = <<>>
  /\ jar = NoCookies
  /\ page = [t \in Tabs |-> NoPage]
  /\ req = [t \in Tabs |-> Idle]

Sent(kind, c, token) == [at |-> "sent", kind |-> kind, cookies |-> c, token |-> token]

Send(t, kind) ==
  /\ req' = [req EXCEPT ![t] = Sent(kind, jar, page[t])]
  /\ UNCHANGED <<secret, born, jar, page>>

\* The user opens a page: the first of the journey, or any other.
Open(t) == req[t] = Idle /\ \E kind \in {"start", "page"} : Send(t, kind)

\* The user submits the form of the page.
SubmitForm(t) ==
  /\ req[t] = Idle /\ page[t] # NoPage
  /\ Send(t, IF page[t].error THEN "restart" ELSE "form")

Answer(t, r) == req' = [req EXCEPT ![t] = [at |-> "reply", response |-> r]]

\* EnsureSessionCreatedFilter and what follows it: the session does not decrypt,
HandleInvalid(t) ==
  /\ req[t].at = "sent"
  /\ ~NoSession(req[t].cookies) /\ ~HasSession(req[t].cookies)
  /\ Answer(t, DiscardAllCookies(req[t].cookies))
  /\ UNCHANGED <<secret, born, jar, page>>

\* it is there,
HandleInSession(t) ==
  /\ req[t].at = "sent"
  /\ HasSession(req[t].cookies)
  /\ \E r \in Responses(req[t], req[t].cookies[TrackingId]) : Answer(t, r)
  /\ UNCHANGED <<secret, born, jar, page>>

\* or a new one is made for the request, before its handler runs.
HandleNewSession(t) ==
  /\ req[t].at = "sent"
  /\ NoSession(req[t].cookies)
  /\ Len(born) < MaxSessions
  /\ born' = Append(born, secret)
  /\ \E r \in Responses(req[t], Len(born) + 1) : Answer(t, WithSession(r, Len(born) + 1))
  /\ UNCHANGED <<secret, jar, page>>

\* The response reaches the browser, which follows a redirect with its cookies.
Receive(t) ==
  /\ req[t].at = "reply"
  /\ LET r == req[t].response
         now == [n \in (DOMAIN jar \ r.discard) \union DOMAIN r.set |->
                   IF n \in DOMAIN r.set THEN r.set[n] ELSE jar[n]]
     IN  /\ jar' = now
         /\ IF r.goes = ""
            THEN req' = [req EXCEPT ![t] = Idle] /\ page' = [page EXCEPT ![t] = r.page]
            ELSE req' = [req EXCEPT ![t] = Sent(r.goes, now, NoPage)] /\ UNCHANGED page
  /\ UNCHANGED <<secret, born>>

\* A request or its response is lost, for instance because the server restarts.
Lose(t) ==
  /\ req[t] # Idle
  /\ req' = [req EXCEPT ![t] = Idle]
  /\ UNCHANGED <<secret, born, jar, page>>

\* The application is deployed with another secret.
ChangeSecret ==
  /\ secret < MaxSecrets
  /\ secret' = secret + 1
  /\ UNCHANGED <<born, jar, page, req>>

(***************************************************************************)
(* CookieFlagsFromConfig gives the application's cookies a maximum age.    *)
(* The two cookies of the key have none, so they last until the browser is *)
(* closed, and no longer.                                                  *)
(***************************************************************************)
Expire ==
  /\ \E n \in DOMAIN jar \ {TrackingId, KeySuffix} :
       jar' = [m \in DOMAIN jar \ {n} |-> jar[m]]
  /\ UNCHANGED <<secret, born, page, req>>

CloseBrowser ==
  /\ jar' = [n \in DOMAIN jar \ {TrackingId, KeySuffix} |-> jar[n]]
  /\ page' = [t \in Tabs |-> NoPage]
  /\ req' = [t \in Tabs |-> Idle]
  /\ UNCHANGED <<secret, born>>

Server(t) ==
  HandleInvalid(t) \/ HandleInSession(t) \/ HandleNewSession(t) \/ Receive(t)

Next ==
  \/ \E t \in Tabs : Open(t) \/ SubmitForm(t) \/ Server(t) \/ Lose(t)
  \/ ChangeSecret \/ Expire \/ CloseBrowser

Spec == Init /\ [][Next]_vars

\* Requests are handled and their responses arrive, if they are not lost.
FairSpec == Spec /\ \A t \in Tabs : WF_vars(Server(t))

--------------------------------------------------------------------------------
(* Properties.                                                             *)

\* The browser holds both halves of one session's key or neither, however
\* late the responses that set and discard them arrive: validateSessionCookies
\* never meets the halves of two sessions.
HalvesMatch ==
  \/ NoSession(jar)
  \/ {TrackingId, KeySuffix} \subseteq DOMAIN jar /\ jar[TrackingId] = jar[KeySuffix]

\* A request whose session decrypts carries no cookie of that session that
\* does not: once through the filter no handler meets a cookie encrypted with
\* an earlier secret.
CookiesReadable ==
  \A t \in Tabs :
    req[t].at = "sent" /\ HasSession(req[t].cookies) =>
      ~Unreadable(req[t].cookies, req[t].cookies[TrackingId])

\* What a form saves is saved in the session its page was shown in, whatever
\* session the browser has by then.
FormStaysInSession ==
  [][\A t \in Tabs :
       LET saved == DOMAIN req'[t].response.set \ {TrackingId, KeySuffix}
       IN  req[t].at = "sent" /\ req'[t].at = "reply" =>
             saved \subseteq NamesOf(page[t].session)]_vars

\* Every request ends, also when the secret changes and when other tabs
\* discard the session it is made in: the redirect to the start and the one
\* to the error page do not go on for ever.
EveryRequestEnds ==
  \A t \in Tabs : req[t] # Idle ~> req[t] = Idle \/ Len(born) = MaxSessions

================================================================================
