# Vehicles Online: disposal of a vehicle to the trade, in TLA+

Vehicles Online is a Play 2.2 web application (Scala, `src/app`) with which a motor trader tells the
licensing authority that a vehicle was disposed of. The web tier keeps nothing between two requests: all
state of a disposal is in encrypted cookies in the trader's browser, and four micro-services behind it do
the work. What can go wrong is therefore a matter of order: which response wrote which cookie, what a
request carried when it was sent, what another tab did meanwhile, and what the service had already done
when a call timed out.

## The system

| part | state | operations | talks to |
|---|---|---|---|
| Journey controllers (`controllers/disposal_of_vehicle`) | none; read and write cookies | one GET and up to two POST handlers per page | cookies, the services |
| Typed cookies (`CookieImplicits`, `RelatedCacheKeys`) | 16 cookies of the journey | get, set, discard one or a set | session |
| Client-side session (`EncryptedClientSideSession*`, `EnsureSessionCreatedFilter`, `CookieFlags`) | the session key, split over two cookies | create, validate, name, encrypt, decrypt | application secret |
| CSRF prevention (`filters/csrf_prevention`) | the token in each page's form | issue on GET, compare on POST | session's tracking id |
| Error strategy (`ErrorStrategy`, `CryptoHelper`) | none | discard all cookies, or redirect to the error page | cookies |
| Disposal service client (`services/dispose_service`) | none here; the service records disposals | `invoke` | micro-service, with a time-out |
| Vehicle-lookup and brute-force clients | none here; attempts are counted by the service | `invoke`, `isVrmLookupPermitted` | micro-services |
| Address-lookup clients (Ordnance Survey, GDS) | none | addresses of a postcode, address of a UPRN | micro-services |
| Address conversion (`DisposalAddressDto`) | none | fits five free lines into the legacy record | - |
| Dates (`DayMonthYear`, its constraints) | none | order, arithmetic, the two-year window | clock |
| Survey (`SurveyUrl`) | one cookie with the last offer's time | offer or not | clock |
| Views | links and forms of the pages | - | - |
| Page scripts (`public/javascripts/*.js`) | the cookie message, the scroll position | ready handlers, click handlers of buttons and links | jQuery |
| jQuery: callbacks, deferreds, ready | lists of callbacks, outcomes | add, remove, fire, lock, settle, `then`, `when`, `holdReady` | the browser |
| jQuery: data and events | the cache, ids of nodes, listeners | bind, unbind, `trigger`, dispatch, clone, remove | the browser |
| jQuery: queues and effects | queues, timers, one interval | `queue`, `delay`, `animate`, `stop`, `finish` | the clock |
| jQuery: ajax | the counter of requests, names of JSONP callbacks | `ajax`, `abort`, transports, time-outs | the network |

jQuery 1.9.1 is third-party code, but it is part of this repository and all that runs in the browser runs through
it. Of its lines the pages' own scripts use `ready`, event handlers and the animation that scrolls to a target; they make no
ajax request. It is modelled as the library that these scripts, and scripts to come, rely on.

Behaviours that are hard here:

* **Retry.** The disposal call times out (`dispose.ms.requesttimeout`, 5 s by default) and the service may
  have performed it. `Dispose.callMicroService` then leaves no trace in the cookies.
* **The interstitial cookie** `PreventGoingToDisposePage` (US320) is set by an answer, removed by a GET of
  the page it protects and by the next successful lookup.
* **Cookies of one disposal are written by different responses**, read by different handlers and discarded
  in sets; the details shown, the request sent and the receipt are put together from different ones.
* **Tabs and late responses.** A request carries the cookies as they were when it was sent, its
  `Set-Cookie` headers arrive later, after whatever other tabs received in between.
* **Redirect chains.** A page whose cookies are missing redirects to an earlier one, and each cookie expires
  30 minutes after it was last written, so that any of them may be missing.
* **Sessions.** Keys are created by any first request, are never revoked, disappear when the browser is
  closed, stop decrypting when the application secret is changed; an exception discards the cookies the
  request came with.
* **Re-entrance.** JavaScript has one thread, but a callback may add to, remove from, fire, stop or abort whatever
  is calling it. Loops over callbacks, timers and handlers are under way several at a time, one inside the other, and
  the code guards each against the others with indexes, flags and sentinels.
* **Scripts and documents** arrive in any order, and so do answers, aborts and time-outs.

## Modules

| module | models |
|---|---|
| `CookieJar` | the cache keys, their sets, Set-Cookie instructions and the browser's jar |
| `Handlers` | every controller as a function from a request's cookies to a result (page or redirect, cookies) |
| `Journey` | EXTENDS `Handlers`: tabs, requests, service calls and the services; all journey properties |
| `DisposalPromise` | the abstract machine of submissions that `Journey` implements |
| `JourneyProofs` | theorems about `Journey`: for any number of tabs; for a user with one tab, and with one who is never idle; for one tab and no habits, the refinement of `DisposalPromise` among it |
| `Sessions` | the session layer, the error strategy and the session half of CSRF tokens |
| `SessionProofs` | theorems about `Sessions` |
| `Survey` | when the exit buttons open the survey |
| `SurveyProofs` | a theorem about `Survey` |
| `Addresses` | `DisposalAddressDto` as functions on lines that are segments of the lines entered |
| `DisposalDates` | `DayMonthYear`, its constraints, the years on the dispose page and the date's way into the request |
| `DisposalRequest` | EXTENDS both: the step that makes the request of the two |
| `DisposalProofs` | theorems about `Addresses` (its specification is `AddressSpec`) and about `DisposalDates`, and that they hold of `DisposalRequest` |
| `CallbackLists` | `jQuery.Callbacks` as operators on one list |
| `Deferreds` | EXTENDS it: the call stack, deferreds, `then`, `when` and the code of users |
| `Outcomes` | the abstract machine of outcomes that `Deferreds` implements |
| `PageReady` | EXTENDS `Deferreds`: `jQuery.ready` and the ready handlers of the application's scripts |
| `NodeData` | the cache of data about nodes, handlers and listeners, as operators on one store |
| `Events` | EXTENDS it: walks of browser and jQuery, dispatches, handlers and what they call |
| `EventProofs` | lemmas about the operators of `NodeData`, and the theorems about `Events` that are about its store and its defaults |
| `EventOrderProofs` | EXTENDS it: the theorems about the calls of handlers |
| `Effects` | queues, animations, the interval, and the scroll to a link's target |
| `EffectsProofs` | a theorem about `Effects`: the scroll |
| `Ajax` | requests, transports, JSONP names, time-outs and aborts |
| `AjaxProofs` | theorems about `Ajax` |
| `MCJourney`, `MCDisposalRequest`, `MCPageReady`, `MCEvents`, `MCEffects`, `MCAjax` | instances for TLC (the other modules need none: their cfgs give the constants) |

### Handlers and Journey

`Handlers` follows the controllers one operator per handler, with the guards in the order of the code's
matches. A handler's chain of `discardingCookies` and `withCookie` becomes one instruction per cookie
(`Keep`, `None` to discard, or a value): the later of two `Set-Cookie` headers of one name wins. Form
contents are abstracted to what later steps tell apart: a vehicle is a registration mark with its document
reference, a trader a business name with a postcode; validation is a nondeterministic choice between a
valid and an invalid form.

`Journey` has these variables:

* `jar`, the browser's cookies (names and values as in `CookieJar`: a valid session is assumed, which is
  what `Sessions` is about);
* `screen[t]`, what tab `t` shows: the page, the vehicle, trader, registration number and transaction id
  on it, and whether `VehicleLookup` shows its exit button;
* `req[t]`, the request tab `t` waits for: at the brute-force service (`permit`), at the lookup service
  (`lookup`), at the disposal service (`dispose`) or answered (`reply`). A stage carries what the code's
  closures keep of the request at that point and nothing else;
* `calls`, the calls that reached the disposal client with what the service made of each (`open`,
  `performed`, `refused`);
* `found`, a history variable: vehicles that a lookup found and that were not submitted since.

Handlers that call no service run in the step that sends the request, since they read nothing but the
request's own cookies. `Receive` applies the instructions to the jar as it is then and follows a redirect
with it. Handlers that call a service are split where the code waits: `SubmitVehicleLookup`, `Permit` or
`Refuse`, `AnswerLookup`; `SubmitDispose`, `AnswerDispose` or `FailDispose`. `Fulfil` is the disposal
service working off a call, whether or not somebody still waits.

Services are external. Assumed of them: a lookup does not find a vehicle whose disposal was performed (the
comment in `VehicleLookup.vehicleFoundResult`: "as the doc id will have changed"); a vehicle is disposed
of at most once; a performed disposal is answered, if the JSON parses, with a transaction id, a
registration number and no response code; a refused one never with a registration number, and without a
response code not with a transaction id either (as in `test/services/fakes/FakeDisposeWebServiceImpl`).
HTTP failures, JSON that does not parse, answers without identifiers and time-outs are all allowed.

`Habits` says what users do beyond the page's own links and forms. `"address"`: they visit any address of
the journey at any time (typed, bookmark, reload, history). `"impatient"`: they act again while a request
is pending, which abandons it; what it started at a service goes on. `"idle"`: they let cookies expire, each by itself
(`Expire`) and in any order, which is more than ages allow. With `"idle"` alone a success may go unreported: when the
trader's cookie expires while the disposal is under way, the success page redirects to the start. A property checked under a habit also
holds without it; where a property needs the absence of a habit, the run that has it is a finding.

### Sessions

A session is a number that stands for its random key and its tracking id, a secret the number of an
application secret. `jar` maps names to values: the two halves of the encrypted key, and cookies whose
names depend on the session. `HandleInvalid`, `HandleInSession` and `HandleNewSession` are the three ways
through `EnsureSessionCreatedFilter` and what follows: the CSRF check for forms, the handler, and the error
strategy for anything thrown. `Responses` gives every response the handlers behind can make as far as
sessions are concerned: discarding all cookies, the error page, a page, or setting any cookie. Expiry,
closing the browser, losing responses and deploying another secret happen at any time. Discarding the
cookies of another session by name never happens: `nameCookie` of a session only names its own.

### Addresses

A line is the segment of an entered line that it still holds, `[line, from, to]`; `substring` is arithmetic
on it. `From` follows `DisposalAddressDto.from`: the inserted building-name line, the empty lines that are
assigned, the case split of `addressLinesDecider` and the final trim. Addresses of two to five lines, every
combination of lengths from 1 to `2 * LineMaxLength + 1`, are enumerated with `LineMaxLength = 2` for 30. No
entered line is empty: `toViewFormat` leaves missing lines out and the lookup's lines are not empty.

### Survey

`SurveyUrl` decides from the cookie a request brings, when a page with an exit button is shown; the button then
opens the survey in a window of its own and sends `exit`, which puts the time in the cookie whether or not the
button opened anything. The module has the clock, the cookie with its age, and per tab the page and the answer it
waits for. A trader who exits at least once a week is thus never offered the survey again, though the cookie's name
and the tests speak of the offer; two tabs, or an answer that is late, open it twice (`OpenedAtIntervals` is about one tab).

### DisposalDates

Dates are records of day, month, year, hour and minutes, the last two `None` where they are not given;
`compare`, `adjust` and the constraints are translated on the real Gregorian calendar (the part of Joda that
they use). The rest is the order in which the code reads the clock, which is `DateService.today`: `Present`
when it fills the years' dropdown, `Submit` when a `Dispose` controller is made for the request and with it
the form's earliest date, `Bind` when the constraints run, `Build` when the request gets its timestamp. `Tick`
moves the clock in between, over midnight, the end of a month, of a year and over 29 February. The form posts what its
mapping (`DayMonthYear` of `mappings/common`) takes: a day up to 31, a month up to 12, any positive year, and, though the
page has no fields for them, an hour up to 24 and minutes, each given or not. `ToDateTime` fails for a day the month does not have, for
hour 24 and for the hours that the time zone's clock skips in spring (`SkippedHours`; the application configures no time zone,
so Joda takes the server's). `Build` is `toDateTime.get` and the timestamp: `failed` is its exception. Minutes without an hour
are bound too; `compare` does not look at them, and `toDateTime` takes them for minutes past midnight. `autofill-todays-date.js` fills in the date the page was rendered on, one of these; its test for `checked === false`
never holds, since the element is a button (`dispose.scala.html:69`).

### CallbackLists, Deferreds, PageReady

A list is a record with the variables of the closure in `jQuery.Callbacks`, indexes and `memory` included; each
operator gives the list after a call. `Deferreds` keeps the lists, and `frames`, the call stack: the script that
runs, and the loops of the lists that fire, one inside the other. Only the last frame takes a step: a loop calls
its next callback, or user code makes a call (add, remove, fire, settle, `then`, `when`, empty, lock, disable) or throws.
What jQuery's own callbacks do, which `then`, `when` and the constructor of a deferred install, is a sequence of calls on
lists. `Outcomes` states what users may rely on, and `KeepsOutcomes` that the detailed machine implements it.
`PageReady` adds the browser's document, the two scripts that RequireJS loads at any time, `jQuery.ready` with
`readyWait` and `holdReady`, and the cookie message that `header-footer-only.js` shows from a ready handler inside a
ready handler. `custom.js` requires `header-footer-only`, but RequireJS runs that file's own callback later, so that
the two may run in either order.

After an exception in a callback its list stays `firing`, and what is fired or added later is never called: the
properties hold up to then (`upset`). The same variable excepts a list that is emptied while it fires (the loop runs
over the end); emptying also revives a disabled list.

### NodeData, Events

Nodes are nested, `Document` the outermost, and one node is a copy in no page. A selector is the set of nodes that
match it, a namespace a member of a set, a handler a record with its node, type and function. A walk of the browser
calls one listener per node, a walk of `trigger` calls handlers by itself and then the method of the node, and both
push a frame for each dispatch, which has its own queue of handlers as the code computes it at the start. Handlers bind,
unbind, trigger, copy, remove, throw, return false. The buttons and links are those of `custom.js`: links within a
page, buttons not implemented yet, the button for today's date.

The listener for `focusin` is one for all nodes, counted by `attaches`. The removal of a node with a delegated handler of focus does not
count it down (`KeptType`, `RemoveType`: kept under `focusin`, bound as `focus`), so that `ListenersInStep` excepts it, saying only that it is
there while it is wanted, and `OnlyRemovalKeepsFocus` that nothing but the removal of a node leaves it behind.

Seen and not excluded: the `onclick` attribute is still called after `stopImmediatePropagation`;
what a submit handler triggers while `click()` is under way is discarded through `triggered`. A handler bound by `one`
may run twice when an event it triggers finds it first, which `CalledOnce` says. Left out: handlers of the window,
`blur`, the mouse entering and leaving, and branches for old versions of Internet Explorer.

### Effects

`agenda` is the code that is still to run, the next call first; a step takes the first item and puts in front of it what
it consists of. An animation has one property, numbers from the position it starts at to its target. Time passes in
intervals, `lag` is the age of `fxNow`. `LinkClick` is `custom.js`: both html and body get an animation whose complete
function sets the address. The properties except, by name, two things that scripts (never the pages' own) can do:
`hurried`, a queue that is cleared or finished while something under way will make it go on too, so that two animations run at
once; and `stranded`, `stop(false, true)` with a delay under way and an animation outside the queue running, after
which nobody makes the queue go on (`jquery-1.9.1.js:9178`). Excluded as inputs: `stop` and `finish` from a complete function
that the loop of another `stop` or `finish` calls, whose `timers.splice` takes out whatever is at its index by then,
and exceptions in complete functions, which leave the queue stuck. The finish function is shared by the elements of one call
(9122), as in the code. A link whose target does not exist stops with a TypeError after `preventDefault`
(`custom.js:35`): target 0.

### Ajax

Also an `agenda`. A request goes through prefilters, `ajaxSend`, its transport and `done` with nine kinds of
handlers, each of which may make and abort requests. The network, scripts of other domains and the clock are
external: an `XMLHttpRequest` is answered or fails, a script runs, at any time or never, even when its request was aborted.
A request has a `beforeSend` or, as by default, none: only if it has does `ajax` look whether a handler of `ajaxStart` or
`beforeSend` aborted it (`Stopped`, line 7943). Without, it goes on, with a transport, callbacks that are called at once (`Overdue`) and
`ajaxSend`. Excepted by name: `cut`, requests that such a handler of `ajaxStart` or any of `ajaxSend` aborts: `state` is set back to 1
after `abort` has set it to 2, so `done` runs a second time despite the comment "Called once" (7995) and `jQuery.active` gets negative;
and `late`, scripts that come after their request was aborted and find another request under their name. A script
that does not arrive calls nothing, so a JSONP request without a time-out never ends (`RequestsEnd` excepts it). An exception in
a handler, which would leave `active` too high, is no input. Left out: `ifModified`, callback names given by the
script, JSONP of the same domain, old versions of Internet Explorer.

## Runs

| run | bounds | shows |
|---|---|---|
| `journey_links` | 1 tab, no habits, 2 vehicles, 2 traders, 2 calls | the vehicle shown is disposed of, for the trader entered; each call uses up a lookup (`KeepsPromise`, the refinement); receipts are of one disposal |
| `journey_habits` | 1 tab, `"address"` and `"impatient"`, 1 vehicle, 1 trader, 2 calls | cookies of later steps never outlive earlier ones; a success answered is a success shown; the trader shown is the one submitted |
| `journey_idle` | 1 tab, `"idle"`, 1 vehicle, 1 trader, 1 call | with any subset of the cookies left: redirects end after three at most, and receipts are honest |
| `sessions` | 2 tabs, 3 sessions, 2 secrets, 1 cache key | halves of keys match, no unreadable cookie passes the filter, forms save into their own session; no redirect loop through `discardAllCookies` and the error page |
| `survey` | 1 tab, interval 4, cookies of 2 and of 9, time up to 14 | the survey is not opened twice within the shorter of interval and cookie |
| `request` | 5 start days (ends of months and years, leap years, the day before a skipped hour), 4 times of the day, 2 ticks; forms with 6 days, 4 months, 5 years and 7 times, parts of a time and hour 24 among them; all with one address, and addresses of 2 to 5 lines of lengths 1..5 for `LineMaxLength = 2`, all with one form | what is sent is in the window, and only what is outside or at its very edge is refused; `toDateTime.get` fails for hours that do not exist and for nothing else; lines fit, are cut only when all three are taken, and read as entered |
| `two_years_ago` | the same without times, a violation | the day exactly two years ago is refused |
| `page_ready` | a page with 2 ready handlers of the application, or 2 deferreds and a third, 3 calls, or a plain list of 4 kinds with 5 calls; exceptions | nobody who waits is forgotten, skipped, called twice or told the wrong outcome; `when` settles with the others; the cookie message comes |
| `events` | 3 nested nodes and a copy, 4 kinds of button or link, 2 handlers of 7, 1 other call, 2 events | listeners and data follow the handlers; handlers run once and in order; what is prevented is not done; only removals leave the listener for `focusin` behind |
| `effects` | 2 elements, 2 targets and a missing one, 3 calls of 10 kinds or clicks | no queue hangs, animations of a queue run one by one, the page ends where the last click leads |
| `ajax` | 2 requests of 6 kinds, 2 aborts | handlers once and in order, the counter of requests is right, data go to who asked, requests end |

Why the bounds are enough: two vehicles and two traders are what it takes to mix up two; a second call is a
retry, a third differs from it in nothing the properties mention; in `sessions` two tabs give every pair
of interleaved handlers, three sessions are two racing ones and one after a reset, one cache key stands for all, since they are treated alike.
The runs of `Journey` have one tab: which properties hold with several is a question for the proofs, where
`ReceiptIsHonest`, `RedirectsEnd` and `TypeOK` are proved for any number of tabs; the others, proved too, are about what one user with
one tab sees, and a second tab breaks them by design of the cookies. (With `Tabs = {t, u}`, `Habits = {}` and one call
TLC checks `ReceiptIsHonest` in a few minutes.)
`MaxCalls`, `MaxSessions`, `MaxSecrets` and `MaxTicks` are the cut-offs there, in the guards of `SubmitDispose`,
`HandleNewSession`, `ChangeSecret` and `Tick`. Two ticks put midnight between any two of the clock's readings;
a third never separates them further. The address code only compares lengths with `LineMaxLength` and with
nothing, so that 2 stands for 30; `DisposalProofs` covers all values.

For the survey the interval is larger than one age of the cookie and smaller than the other, and three intervals fit
into the time. In the browser a call of user code is one that may be made inside any callback: two handlers that
interfere and one more call, or three calls on two elements, are a loop, what it is changed by, and what shows the
change. A third deferred is what waits for two others, a plain list needs five calls to hold two callbacks that fire,
remove and add. Two requests reuse one name; two aborts reach a request twice. The bounds are in the guards of the
actions of user code (`MaxCalls`, `MaxPlainCalls`, `MaxDeferreds`, `MaxBinds`, `MaxEvents`, `MaxRequests`,
`MaxAborts`), never in those of jQuery's own steps; `MaxLag` bounds how old `fxNow` gets, `MaxTime` the clock of `Survey`.

A form's day either is near the clock's, now or two years before, or does not exist; of its time what counts is which parts are given,
whether they are before the clock's, and whether the day has them. A year below the form's bounds is among those posted.

`request`, `two_years_ago` and the four runs of scripts are checked without deadlock, since a conversion, a submission and
a page's scripts come to an end.

### Disagreements between code and comments or tests

* `resubmission`: US320's "prevent user using the browser back button and resubmitting" does not hold after a
  call that timed out or failed (no cookie is set then). Under plain links it holds, as `KeepsPromise`.
* `two_years_ago`: the earliest date carries the present time of day and the form's date none, so the day exactly two years ago is
  refused although the message says "Must be between today and two years ago" (`messages.en:284`), and the test "reject if date is more
  than 2 years in the past" (`DisposeFormSpec.scala:85`). `RefusedOnlyOutside` says that nothing else inside the window is refused.

Seen while modelling, without a run of their own:

* The discard of the response code in `VehicleLookupFailure` (line 52) names the cookie by its clear-text key, so nothing is
  discarded (`VehicleLookupFailurePresent` in `Handlers` leaves the jar alone) and the page can be shown again; the UI test
  "remove redundant cookies when displayed" looks for the clear-text name and passes.
* The cookie that keeps the survey away for 7 days has, like all, a maximum age of 30 minutes by default, after
  which it is offered again: `OpenedAtIntervals` promises the shorter of the two, and the test "not offer the survey one week
  after the first offering" (`DisposeSuccessUnitSpec.scala:144`) puts the cookie into the request by hand.
* Dispose page and request are built from two cookies that a failed lookup in between separates: the user sees
  vehicle a and submits vehicle b. `DisposesWhatIsShown` holds under plain links, and TLC finds this when the run
  `journey_links` gets `Habits = {"address"}`.
* An answer without a transaction id leaves the id of an earlier failure in its cookie
  (`Dispose.storeResponseInCache`), and the failure page shows it for the next vehicle.
* The key's cookies last until the browser is closed and the others 30 minutes, although the factory says "Session
  secret key must not expire before any other cookie that relies on it" (`EncryptedClientSideSessionFactory.scala:17`).
* The form's mapping allows `MaxHoursInDay = 24` (`mappings/common/DayMonthYear.scala:15`, `22`) and `validDate` tries
  the day at midnight only, so a form with hour 24 is accepted and `toDateTime.get` (`Dispose.scala:181`) throws (the stage `failed` of `Build`). The page has no such
  field, and without an hour every accepted date can be converted: `AcceptedDatesConvert`.
* The listener of "Attach a single capturing handler while someone wants focusin/focusout"
  (`jquery-1.9.1.js:3549`) stays when the node with the last delegated handler of focus is removed. No page of this application
  removes such a node.
* `done` says of itself "Called once" (`jquery-1.9.1.js:7995`) and is done twice for a request that is aborted before it was
  sent, by a handler of `ajaxSend` or, without `beforeSend`, of `ajaxStart`. The pages make no such request.

## Fairness

In `Journey` no property needs fairness: that redirects end is an invariant about what a request would lead to, and
`Fulfil`, which nobody can rely on, decides no property.

`Sessions.FairSpec` has weak fairness of every tab's server. The code justifies it: handlers return, and each
micro-service call has a request time-out (`disposeMsRequestTimeout`, `bruteForcePreventionTimeout`,
`ordnanceSurveyRequestTimeout`, Play's default for the vehicle lookup), after which the future fails and `recover`
answers. Losing a response needs none. `EveryRequestEnds` is about a bounded number of sessions: a request that began a new one with every
redirect would stop at `MaxSessions`.

`PageReady.PageFairSpec`, `Effects.FairSpec` and `Ajax.FairSpec` have weak fairness of the running code (an engine that
has begun a piece of code finishes it), of the browser's timers and events that are due (the document gets ready, the interval
ticks, a time-out comes), of scripts being loaded, and of an `XMLHttpRequest` being answered or failing. Time passes
between two intervals (strong fairness of `TimePasses`, since ticks at the same instant may come in between). What users and
scripts begin gets none; neither does the release of `holdReady`, nor the arrival of a JSONP script, which is why
`EveryReadyHandlerRuns` and `RequestsEnd` are stated as they are.

## Proofs

`JourneyProofs`, first section, for any number of tabs, vehicles and traders, any `Habits` and any `MaxCalls`:

* `TypeCorrect == Spec => []TypeOK`. `TypeOK` is inductive. The result of every handler is shown to be well
  formed in a lemma of its own (`Lemma ...OK`), the steps then only combine them.
* `ReceiptsAreHonest == Spec => []ReceiptIsHonest`. That a receipt names a vehicle disposed of is not
  inductive: the registration number travels from the service's answer into the response's cookies, from
  there into the jar, from the jar into the next page's result and onto the screen, while other tabs
  overwrite each of them. The strengthening `Honest` says of each place that a registration number in it is
  in `Performed`, which only grows. The only source is `AnswersFor`: an assumption about the service, not
  about users or timing.

* `RedirectsAlwaysEnd == Spec => []RedirectsEnd`. No invariant is needed: pages have a rank, every redirect of every
  handler goes to a page of a lower one whatever the cookies are (`RedirectTargets`, `RedirectsLower`), and the answer to a redirect
  changes the cookies only in ways that the argument does not look at.

Its second section, for one tab (`Tabs = {one}`), any vehicles and traders and any `MaxCalls`. With two tabs each of these,
and of those of the third, is false by design of the cookies, as TLC finds with `Tabs = {t, u}` and without habits: one tab
overwrites what the other shows. `KeepsPromise` is proved for one tab only and was not checked with two.

* `TraderShownIsSubmitted == Spec => DisposesForTraderShown`, for any `Habits`. A dispose page shows the trader of the
  cookie, and the cookie changes only with the page, or expires, upon which nothing is submitted (`TraderInv`).
* `CookiesAlwaysInStep == Spec => []CookiesInStep` and `SuccessIsAlwaysReported == Spec => SuccessIsReported`, for any
  `Habits` without `"idle"`: a cookie that expires alone leaves those of later steps behind, which is what `"idle"` is
  about. The jar's being in step is not inductive alone: `StepInv` adds that a dispose page's cookies are there, that
  the result under way keeps the cookies in step when it arrives (`StepResult`), and that a disposal being
  decided has its trader and vehicle. Each handler has its lemma about the cookies it leaves in a browser
  that had `c` (`Leaves`), which says nothing of a state and is used by both invariants and by the third section.

The third, for one tab and `Habits = {}`: who goes to addresses on his own, the browser's history included, or does not wait for an answer
changes what a page was made of after it was shown, and `journey_habits` and `resubmission` are about that.
`ReceiptsAreOfOneDisposal`, `VehicleShownIsSubmitted` and `TraderEnteredIsSubmitted` state `ReceiptIsOfOneDisposal`,
`DisposesWhatIsShown` and `DisposesForTraderEntered`; `JourneyKeepsPromise` is the refinement: every step of `Journey` is
a step of `DisposalPromise` or leaves `found` and `calls` alone, and the initial states agree. One invariant serves
all four, `FollowedInv`: besides `HonestInv` and `StepInv` it says what the cookies are worth on the page shown
(`AtPage`: a dispose page's vehicle is the one in both of the vehicle's cookies, found and not submitted since) and on
the page a link or redirect goes to (`Heading`: whoever is sent to the dispose page carries either such a vehicle or the
cookie that keeps him from it). `VehicleLookup`'s failures, the US320 cookie and the order in which a response's cookies
are set all enter there.

`SessionProofs`, for any number of tabs, sessions, secrets and cookies: `HalvesAlwaysMatch`,
`CookiesAlwaysReadable` and `FormsStayInSession`. The invariant `SessionInv` says of the jar, of every request under way
and of every response not yet received that the halves of a key belong together (`Matched`) and that what is
kept under a session's names was encrypted with that session (`Kept`); a response carries what it sets as a whole,
which is why responses of racing requests may be applied in any order.

`SurveyProofs`: `OneTabOpensAtIntervals`, for any interval and any age of the cookie, with `SurveyInv`: since the last opening
either the answer is still to come, and the tab shows nothing to press, or a cookie not older than the opening is
there until its age is over, and a page that offers the survey was shown when there was none or its date was over.

`DisposalProofs` about `Addresses`, for any lengths and any number of lines:

* `LinesAlwaysFit`: no line sent to the disposal service is longer than `LineMaxLength`. It follows the sequence of
  lines through `AssignEmptyLines`, `AddressLinesDecider` and `TrimLines`.
* `AlwaysReadsAsEntered == Spec => []ReadsAsEntered`: the lines sent are parts of those entered, in order, nothing twice, no line
  without its beginning. The invariant `EnteredInv` keeps the address as it was entered; that the conversion turns any such
  address into a record that reads like it is a lemma about the operators (`FromReads`), by the number of lines left
  before town and postcode.
* `AlwaysCutOnlyWhenFull`, if `MaxLines <= 5`: nothing is cut off while a line of the record is free. Both formats the view offers
  have at most three lines before town and postcode; of a longer address the code drops lines in any case.

`RequestIsOfBoth == RequestSpec => Spec /\ AddressSpec` carries these theorems and the following over to `DisposalRequest`, whose properties the run `request` checks.

About `DisposalDates`, for any clock, any days and times to start from and any number of years:

* `CompareIsAnOrder`: the nested matches of `compare` decide a lexicographic order (`CompareCases`), hence a total
  preorder, for all dates, with a time, without or with a part of one.
* `OnlyMissingHoursFail == Spec => []AcceptedDatesConvert`: whatever is posted and whichever hours the time zone skips, an accepted date fails to convert exactly
  if it has an hour that its day does not have. The conversion does fail, for hour 24.
* `SentDatesAreInWindow == Spec => []SentInWindow`, with `DatesInv`: the clock and the moments kept are instants of the
  calendar; of a submitted form the earliest date was counted from the moment it came; once checked, its date is a
  moment of the window that is not after the clock, which only goes on, and once sent, not after the request's timestamp. Of a date with minutes but no
  hour only the day is known not to be after it, since `compare` looks at no more.
* `InstantsAreChronological == Spec => []OrderIsChronological`: `compare` orders instants as minutes since a fixed day do. No
  run checks this by itself; what the form accepts and refuses rests on it.
  What it needs of the calendar is that the number of a day grows with year, month and day (`DayNumberGrows`): no month
  is longer than the way to the next, no year, counted from March, than the way to the next (`MonthsAreLong`, `YearsAreLong`).
* `RefusalsAreOutside`, if `YearsEnclosed`: of what has a moment nothing is refused but what is in the future or older than the window, or names, without a
  full time, the very day or hour in which the window starts. The
  assumption says that the clock starts, and stays for `MaxTicks` moves, in years whose window lies between the form's
  bounds `MinYear` and `MaxYear`, 999 and 9999: outside of them the form does refuse today. The invariant for it is `YearsOK`.

`AjaxProofs`, for any `MaxRequests`, `MaxAborts` and set of settings, with no assumption beyond theirs. User code calls `ajax` and
`abort` from inside any handler, so the running code is a stack of things to do (`agenda`), and the question is always what else is on
it. `AjaxInv` says that nothing of a request is below what still opens it (`Openers`), which things may be pending in which
of its states (`Opened`, `Ended`), which request a JSONP name belongs to (`Names`) and that a script that comes finds its request
(`Awaited`). `Gone` and `Openers` make an exception of requests sent after they had been aborted (`cut`), of which little can be said; `Scripts` says why a
request for a script, which fires no globals, is never one of them, so that `DataIsOwn` has no such exception. Every action is shown to keep it, in one lemma for each thing to do, together with two more invariants
that rest on it (`Keeps`).

* `DataIsOwn == Spec => []OwnData`: `AjaxInv` implies it.
* `CountIsTrue == Spec => []ActiveCountsRequests`, with `Tally`: until a request that was aborted before it was sent is sent all the same (`cut`), `active` is at any time the number of requests that fire globals and are not over, or over with their decrement still on the
  stack; and `ajaxStart` or `ajaxStop`, while on the stack, account for a `busy` that is not yet up to date.
* `HandlersAreInOrder == Spec => []HandlersInOrder`, with `Order`: for each request what has been told, followed by what
  the stack still has to tell, is in order and agrees on the outcome; nothing is told before the request is over, and of one
  that is over the last handler was called or is on the stack. Requests in `cut` are excepted.

`EventProofs`, for any number of nodes, any handlers, removals and triggers, and any bounds: nestings of
triggers in handlers in triggers may be of any depth. `SpecListenersInStep`, `SpecNodesOwnTheirData` and
`SpecPreventedIsNotDone` state the three properties of the names; all follow from one invariant, `SafetyInv`:

* the store is `Good`: nodes own their data (`Owns`), listeners are those of the entries (`InStep`), an entry has a handle exactly while it has
  handlers (`EntryOk`), and no handler is kept twice (`Unique`). `On`, `Off`, `RemoveNode`, `Clone` and `Data` go through
  handlers, types and nodes with the folds of the community modules; that a fold can be followed member by member
  (`FoldExists`, `WalkExists`) is shown by the least counterexample of a well-founded order, and each operator has a lemma about what holds after
  each step (`RemoveTypeGood`, `RemoveEachGood`, `CleanDataGood`, `CopyEventsGood`). The difficult moment is within such a fold: `removeEvent` comes before the
  type is deleted, and the data go with the last type, maybe in the middle of a loop over types;
* a frame of the call stack stands on one that it may stand on (`FrameOk`). A handler's event is that of the
  dispatch below it, which it shares with the walk of jQuery below that or has made of the browser's event; and a prevented
  default must reach the walk that does the default. So the invariant says which walk that is, that it is still
  under way, and that walks under way are of different events, those above of later ones;
* a walk's event is one that has begun, its default is not done while the walk goes on, and if it is vetoed its flag is raised (`StackOk`).

`SpecCalledInOrder == Spec => []CalledInOrder`, in `EventOrderProofs`, needs a second invariant on top of it, `OrderInv`. The calls that were made are of
no use without what is still to be called, so each frame of the stack is related to the calls for its event (`OrderAt`):

* a walk's next stops are further out than the calls made, or at the target where both a node's own handlers and `onclick` hang, and
  once a handler stopped the event its flag is up and the walk has nothing left to do (`WalkOrder`);
* the queue of a dispatch holds handlers for nodes not before those called, and who stopped the event was called by this
  dispatch, for the element it is at (`DispatchOrder`). Between the handler's end and the dispatch's next look at the flags, jQuery's event
  and the browser's may differ: `EventAt` says whose flags count;
* a handler under way made the last call for its event, however many events were triggered in it (`CallOrder`).

The exception is the walk of `click()` called by `trigger`: an event of the same number whose listeners must call nobody.
It is `Muted`, and the invariant says that it is on top of the stack, that `jQuery.event.triggered` is its type as long as it is there, and that
it has stops for clicks only, so that no focus handler gets to run under its number.

`SpecCalledOnce == Spec => []CalledOnce` needs a third, `OnceInv`, which is `OrderInv` and `Once`. That no handler was called twice
says nothing of the handlers that are yet to be called, and a handler may be so in two ways: it is kept at a node where a walk has
still to stop, or it is in the queue of a dispatch, where it stays when it is unbound. `OnceAt` speaks of both, for each frame:

* what is kept where a walk has still to stop was not called for its event, nor was its `onclick` (`WalkOnce`);
* an entry of a queue was not called for this event and node, is kept at no stop that is still to come and, if anywhere, at the
  node of this dispatch and as it is queued (`QueuedOnce`): a handler has one place, which is what `Unique` of `SafetyInv` is for. So
  a walk cannot find again what its dispatch has queued;
* a handler bound with `one` that was called is kept nowhere, and called again only for the same event or one around it
  (`OnesSpent`). It may still be queued, by a dispatch that found it before; the queue's entry knows that the event it was called for is
  not an earlier one (`QueuedOnce`);
* the handlers called are among those bound so far (`Known`), so that one that is bound now was not called.

Most steps only take frames away, shorten what they have to do, or take handlers out of the store: `EasedOk` treats them in one.
What is left is a handler that is bound (`BoundOnce`), a dispatch that begins with what the store keeps (`TakenOnce`), and a
call (`CalledOk`), which takes the handler out of its queue, and with `one` out of the store, in the same step (`UnboundOnce`).

`EffectsProofs`, for any number of elements, targets and clicks, made before, while or after animations run:
`ScrollCorrect == Spec => []ScrollsToLastClicked`. The property speaks of moments at which nothing runs; between two of them
jQuery takes dozens of steps in which queues, hooks, timers and positions disagree. The invariant, `ScrollInv`, is `Calm` unless a
script has meddled: with links and promises as the only callers the agenda is always of one of a few shapes. At its end there is what
has come of the browser's event so far (`Later`): the elements a click has still to reach, or the timer function that returns
into the loop of `tick`. Before it is the step under way, a stage with a predicate of its own: `AtEmpty`, `AtDequeue`, `AtRun`, `AtTick`,
`AtPush`, `AtAttach`, `AtMade`, `AtComplete`, `AtCallback` and `AtPromise`, and in the interval's frame `AtFrame`, `AtTimer`,
`AtSettle` and `AtAfter`. Each says how far the state is from `Even`:

* an element is `Fine` when exactly one live timer drives it, the sentinel is in front of its queue, and the last item of the queue,
  or what is under way when there is none, leads to `last`; or when none drives it, its queue is empty and it is at `last`;
* at most one element is not: its queue is about to go on (`Ready`), its item was taken (`Called`) or its animation is about to be pushed to
  the timers (`New`). And those beyond the first `k` need not lead to `last` yet, while a click has reached only `k` of them;
* a timer belongs to an animation under way, or to one named by the stage: settled and to be spliced (`dead`) or not attached yet
  (`Timely`);
* the address is that of the last click, or an element still has a queue, whose callback will set it (`Addressed`, `Owed`).

The proof has a lemma for each stage and its steps, and lemmas about adding and removing one timer.

TLC checked each of these invariants on the instance of its run before it was proved (the store of `SafetyInv` field by
field, since its sets are infinite; `OrderInv` on all of `events`, and so `Once`, its quantifiers bounded by the handlers kept;
`ScrollInv` on all of `effects`, its quantifiers bounded by the elements and animations there are).

Assumptions on constants, all evaluated by TLC in the runs: the marks `None` and `Keep` differ from each other and from
the data (`MarksDiffer`, `MarksAreNotValues`), `HabitsAssumption`, `MaxCallsAssumption`, `LengthsAssumption`,
`YearsAssumption`, `EntriesAssumption` (what the form's mapping takes), `SkippedAssumption` (no day's first hour is skipped), `ClockAssumption` (the clock
starts on days of the calendar and shows times of the day), `TimesAssumption`,
`BoundsAssumption`, `SettingsAssumption`, `NodesAssumption` (handlers, events and data belong to nodes of the page), `EventBoundsAssumption`, `ElemsAssumption` (the elements of a jQuery
object are numbered, and a page has html and body) and `CallsAssumption`. What a theorem assumes in addition stands in its statement.

Only model-checked:

* liveness (`EveryRequestEnds`, `EveryReadyHandlerRuns`, `AnimationsEnd`, `RequestsEnd`): out of the prover's reach;
* everything about `Deferreds` and `PageReady`, among it the refinement of `Outcomes`: the lists that fire are interpreted by one
  stack of frames for all kinds of user code, and an invariant of it has to account for every kind of frame;
* `QueueGoesOn` and `OneAtATime` of `Effects`: they are about scripts that stop, finish, clear and delay at any point, in any
  complete function, while `Calm` describes what can be under way when none does. With them several loops over timers may be
  under way one inside the other, and queues have no one to go on with but a delay's timeout or a finish function.

## Not modelled

Regular expressions and lengths of single form fields, page layout and wording, logging, configuration
and wiring, help, languages and health check: stateless, pure text, or covered by unit tests.
Of jQuery: selectors, attributes, CSS and manipulation, which are functions of a tree of nodes (their result enters as a
set of nodes), and what each section above names as left out.
`BeforeYouStart.submit` and `VehicleLookupFailure.submit` are handlers no page submits to.

## Plan

1. Done: `CookieJar`, `Handlers`, `Journey` with `DisposalPromise`, type correctness, honest receipts, redirects that
   end from any subset of the cookies; `Sessions`, `Survey`, `Addresses` and `DisposalDates` with their theorems.
2. Done: the browser's side, `CallbackLists` to `Ajax`, model-checked.
3. Left: `BruteForce` (the hand-completed promise and the attempts shown, with the service's counter),
   `VehicleLookup` outcomes from HTTP status and JSON, the GDS address client.
4. Done: the properties of `Journey` with one tab, its refinement of `DisposalPromise`, the calendar, the addresses
   in both directions, the safety of `Ajax`, and of `Events`, and the scroll of `Effects`, proved.
5. Proofs to come: `QueueGoesOn` and `OneAtATime` of `Effects`; `NoneForgotten` of `Deferreds`.
