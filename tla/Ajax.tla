--------------------------------- MODULE Ajax ---------------------------------
(***************************************************************************)
(* Requests: jQuery.ajax with its XMLHttpRequest transport and, for JSONP  *)
(* to another domain, its script transport.  A request is over when done   *)
(* has been called: by the transport, by abort, by the time-out or because *)
(* there is no transport.  Nine kinds of handlers are called on the way,   *)
(* and each of them may make requests and abort any request, that one      *)
(* included.  One that is aborted in the course of its own making may be   *)
(* sent all the same, and is over twice.                                   *)
(*                                                                         *)
(* agenda is what the running code has still to do, the next thing first.  *)
(* Servers, and what scripts of other domains do, are external.            *)
(***************************************************************************)
EXTENDS Integers, Sequences, FiniteSets, SequencesExt

CONSTANTS
  Settings,    \* what requests are made with: see Request
  MaxRequests, \* bound: requests made
  MaxAborts    \* bound: calls of abort by scripts

ASSUME BoundsAssumption == MaxRequests \in Nat /\ MaxAborts \in Nat
ASSUME SettingsAssumption ==
  \A s \in Settings : /\ s.type \in {"xhr", "jsonp", "none"}
                      /\ s.type = "jsonp" => s.async
                      /\ {s.async, s.timeout, s.global, s.beforeSend} \subseteq BOOLEAN

VARIABLES
  requests, \* the requests made
  active,   \* jQuery.active
  window,   \* window[n]: the request whose callback is window's property number n, or 0
  nonce, oldCallbacks, \* the next number, and the names that are free again
  net,      \* net[r]: where r is on its way
  timers,   \* the requests with a pending time-out
  agenda,
  aborts,   \* how many calls of abort there were
  log,      \* log[r]: the handlers called for r, in order
  busy,     \* whether ajaxStart was triggered, and no ajaxStop since
  late,     \* requests aborted while their script was still to come
  cut       \* requests aborted before they were sent, and sent all the same

page == <<window, nonce, oldCallbacks>>
history == <<log, busy, late, cut>>
vars == <<requests, active, page, net, timers, agenda, aborts, history>>

\* state is the jqXHR's, settled its deferred's; with installed the callbacks of the
\* settings are on it; listening: the transport's own callback is still to be called;
\* name is the JSONP callback's, overwritten what was there, data the answer it got.
Request(s) ==
  [set |-> s, state |-> 0, settled |-> "pending", installed |-> FALSE, completed |-> FALSE,
   globals |-> FALSE, transport |-> FALSE, listening |-> FALSE, name |-> 0, overwritten |-> 0, data |-> 0]

\* A thing to do for request r.
Do(what, r, ok) == [do |-> what, r |-> r, ok |-> ok]
Doing(what) == agenda # <<>> /\ Head(agenda).do = what
Now == Head(agenda)
R == requests[Now.r]
Then(things) == agenda' = things \o Tail(agenda)
Idle == agenda = <<>>

\* Handlers: those of the request if its callbacks are installed, the global ones if it
\* fires globals.
Local(what, ok) == IF R.installed THEN <<Do(what, Now.r, ok)>> ELSE <<>>
Global(what, ok) == IF R.globals THEN <<Do(what, Now.r, ok)>> ELSE <<>>

-------------------------------------------------------------------------------
(* Making a request.                                                       *)

\* The jsonp prefilter: a name, free again or new, becomes a function of window.
Prefilter ==
  /\ Doing("prefilter")
  /\ IF R.set.type = "jsonp"
     THEN LET n == IF oldCallbacks = <<>> THEN nonce ELSE Last(oldCallbacks)
          IN  /\ oldCallbacks' = IF oldCallbacks = <<>> THEN oldCallbacks ELSE Front(oldCallbacks)
              /\ nonce' = IF oldCallbacks = <<>> THEN nonce + 1 ELSE nonce
              /\ window' = [window EXCEPT ![n] = Now.r]
              /\ requests' = [requests EXCEPT ![Now.r].name = n, ![Now.r].overwritten = window[n]]
     ELSE UNCHANGED <<page, requests>>
  /\ Then(<<Do("handler", Now.r, TRUE), Do("start", Now.r, TRUE)>>)
  /\ UNCHANGED <<active, net, timers, aborts, history>>

\* The prefilter for scripts turns the global events of another domain's off.
FiresGlobals(s) == s.global /\ s.type # "jsonp"

\* Aborted in a prefilter, the request is not counted.  Most settings have no beforeSend.
Start ==
  /\ Doing("start")
  /\ IF R.state = 2 THEN Then(<<>>) /\ UNCHANGED <<requests, active>>
     ELSE LET globals == FiresGlobals(R.set)
          IN  /\ requests' = [requests EXCEPT ![Now.r].globals = globals]
              /\ active' = IF globals THEN active + 1 ELSE active
              /\ Then((IF globals /\ active = 0 THEN <<Do("ajaxStart", Now.r, TRUE)>> ELSE <<>>)
                      \o <<Do(IF R.set.beforeSend THEN "beforeSend" ELSE "install", Now.r, TRUE)>>)
  /\ UNCHANGED <<page, net, timers, aborts, history>>

\* beforeSend may refuse.
BeforeSend ==
  /\ Doing("beforeSend")
  /\ \E goes \in BOOLEAN : Then(<<Do("handler", Now.r, TRUE), Do("install", Now.r, goes)>>)
  /\ UNCHANGED <<requests, active, page, net, timers, aborts, history>>

\* Some transport takes the request on.
HasTransport(s) == s.type # "none"

\* That a handler has aborted the request is seen only if there is a beforeSend.
Stopped == R.set.beforeSend /\ (~Now.ok \/ R.state = 2)

\* Callbacks put on a request that has been told to be over are called at once.
Overdue ==
  (IF R.settled = "pending" THEN <<>> ELSE <<Do("callback", Now.r, R.settled = "resolved")>>)
  \o (IF R.completed THEN <<Do("completed", Now.r, R.settled = "resolved")>> ELSE <<>>)

\* Unless it is stopped here, the callbacks of the settings are put on the request, and
\* its transport is made, of one that a handler of ajaxStart has aborted as well; done,
\* for want of a transport, does nothing then.
Install ==
  /\ Doing("install")
  /\ IF Stopped
     THEN Then(<<Do("abort", Now.r, FALSE)>>) /\ UNCHANGED <<requests, cut>>
     ELSE /\ requests' = [requests EXCEPT ![Now.r].installed = TRUE, ![Now.r].transport = HasTransport(R.set)]
          /\ cut' = IF R.state = 2 THEN cut \cup {Now.r} ELSE cut
          /\ Then(Overdue \o IF HasTransport(R.set) THEN Global("ajaxSend", TRUE) \o <<Do("send", Now.r, TRUE)>>
                               ELSE <<Do("done", Now.r, FALSE)>>)
  /\ UNCHANGED <<active, page, net, timers, aborts, log, busy, late>>

\* Mutant: the timer is not set.
TimedOut_Not(r) == {}

\* The time-out's timer.
TimedOut(r) == IF requests[r].set.async /\ requests[r].set.timeout THEN {r} ELSE {}

\* send of the transport: what is not asynchronous is answered before it returns.
TransportSends ==
  /\ net' = [net EXCEPT ![Now.r] = "sent"]
  /\ IF R.set.async THEN Then(<<>>) ELSE \E ok \in BOOLEAN : Then(<<Do("answer", Now.r, ok)>>)

\* transport.send.  If a handler has aborted the request, its state is set back all the
\* same, so that it ends once more: as it is answered if that was a handler of ajaxStart,
\* at once if it was one of ajaxSend, as there is no transport any more, which is an
\* exception.
Send ==
  /\ Doing("send")
  /\ timers' = timers \cup TimedOut(Now.r)
  /\ requests' = [requests EXCEPT ![Now.r].state = 1, ![Now.r].listening = R.transport]
  /\ IF R.transport
     THEN TransportSends /\ UNCHANGED cut
     ELSE /\ cut' = cut \cup {Now.r}
          /\ Then(<<Do("done", Now.r, FALSE)>>)
          /\ UNCHANGED net
  /\ UNCHANGED <<active, page, aborts, log, busy, late>>

-------------------------------------------------------------------------------
(* The end of a request.                                                   *)

\* The callback of the XMLHttpRequest at readyState 4, and that of a script.
Answer ==
  /\ Doing("answer")
  /\ IF R.listening
     THEN /\ requests' = [requests EXCEPT ![Now.r].listening = FALSE]
          /\ net' = [net EXCEPT ![Now.r] = "over"]
          /\ Then(<<Do("done", Now.r, Now.ok)>>)
     ELSE Then(<<>>) /\ UNCHANGED <<requests, net>>
  /\ UNCHANGED <<active, page, timers, aborts, history>>

\* jqXHR.abort: the transport's callback is told; a script is taken out of the page,
\* which does not keep it from running when it comes.
Abort ==
  /\ Doing("abort")
  /\ LET stops == R.transport /\ R.listening
     IN  /\ requests' = IF stops THEN [requests EXCEPT ![Now.r].listening = FALSE] ELSE requests
         /\ net' = IF stops /\ R.set.type = "xhr" THEN [net EXCEPT ![Now.r] = "over"] ELSE net
         /\ late' = IF stops /\ R.set.type = "jsonp" THEN late \cup {Now.r} ELSE late
  /\ Then(<<Do("done", Now.r, FALSE)>>)
  /\ UNCHANGED <<active, page, timers, aborts, log, busy, cut>>

\* Mutant: every call of done counts.
IsDone_Never(state) == FALSE

\* Called once.
IsDone(state) == state = 2

\* What conversion makes of the answer that r got: an error of a script that did not
\* call r's function.
Converted(r, ok) == ok /\ (requests[r].set.type = "jsonp" => requests[r].data # 0)

\* The request is over; what is to be told of it, and to whom.
Done ==
  /\ Doing("done")
  /\ IF IsDone(R.state) THEN Then(<<>>) /\ UNCHANGED <<requests, timers>>
     ELSE LET ok == Converted(Now.r, Now.ok)
          IN  /\ requests' = [requests EXCEPT ![Now.r].state = 2, ![Now.r].transport = FALSE]
              /\ timers' = timers \ {Now.r}
              /\ Then(<<Do("settle", Now.r, ok)>>
                      \o (IF R.settled = "pending" THEN <<Do("statusCode", Now.r, ok)>> ELSE <<>>)
                      \o Global("ajaxEvent", ok) \o <<Do("complete", Now.r, ok)>>
                      \o Global("ajaxComplete", ok) \o Global("uncount", ok))
  /\ UNCHANGED <<active, page, net, aborts, history>>

\* Mutant: the name is saved as free, and what was there not restored.
Restored_Kept(w, n, overwritten) == w

Restored(w, n, overwritten) == [w EXCEPT ![n] = overwritten]

\* The deferred is settled, once: first the clean-up of the jsonp prefilter, then the
\* success or error callback.
Settle ==
  /\ Doing("settle")
  /\ IF R.settled # "pending" THEN Then(<<>>) /\ UNCHANGED <<requests, page>>
     ELSE /\ requests' = [requests EXCEPT ![Now.r].settled = IF Now.ok THEN "resolved" ELSE "rejected"]
          /\ IF R.name # 0
             THEN /\ window' = Restored(window, R.name, R.overwritten)
                  /\ oldCallbacks' = Append(oldCallbacks, R.name)
             ELSE UNCHANGED <<window, oldCallbacks>>
          /\ Then(Local("callback", Now.ok))
          /\ UNCHANGED nonce
  /\ UNCHANGED <<active, net, timers, aborts, history>>

\* completeDeferred, which fires once.
Complete ==
  /\ Doing("complete")
  /\ requests' = [requests EXCEPT ![Now.r].completed = TRUE]
  /\ Then(IF R.completed THEN <<>> ELSE Local("completed", Now.ok))
  /\ UNCHANGED <<active, page, net, timers, aborts, history>>

\* Mutant: any request that ends resets it.
Uncounted_Zero == 0

Uncounted == active - 1

\* The global counter: the last request ends.
Uncount ==
  /\ Doing("uncount")
  /\ active' = Uncounted
  /\ Then(IF active' = 0 THEN <<Do("ajaxStop", Now.r, TRUE)>> ELSE <<>>)
  /\ UNCHANGED <<requests, page, net, timers, aborts, history>>

-------------------------------------------------------------------------------
(* Handlers.                                                               *)

\* What a handler of the page may do: nothing, make a request, abort one.
MakeRequest(rest) ==
  /\ Len(requests) < MaxRequests
  /\ \E s \in Settings :
       /\ requests' = Append(requests, Request(s))
       /\ net' = Append(net, "new") /\ log' = Append(log, <<>>)
  /\ agenda' = <<Do("prefilter", Len(requests) + 1, TRUE)>> \o rest
  /\ UNCHANGED <<active, page, timers, aborts, busy, late, cut>>

AbortRequest(rest) ==
  /\ aborts < MaxAborts /\ aborts' = aborts + 1
  /\ \E r \in DOMAIN requests : agenda' = <<Do("abort", r, FALSE)>> \o rest
  /\ UNCHANGED <<requests, active, page, net, timers, history>>

Handler ==
  /\ Doing("handler")
  /\ \/ Then(<<>>) /\ UNCHANGED <<requests, active, page, net, timers, aborts, history>>
     \/ MakeRequest(Tail(agenda))
     \/ AbortRequest(Tail(agenda))

Logged == {"ajaxSend", "callback", "statusCode", "ajaxEvent", "completed", "ajaxComplete"}

\* The events of a request, and those of its callbacks.
Event ==
  /\ agenda # <<>> /\ Now.do \in Logged \cup {"ajaxStart", "ajaxStop"}
  /\ log' = IF Now.do \in Logged THEN [log EXCEPT ![Now.r] = Append(@, [what |-> Now.do, ok |-> Now.ok])] ELSE log
  /\ busy' = CASE Now.do = "ajaxStart" -> TRUE [] Now.do = "ajaxStop" -> FALSE [] OTHER -> busy
  /\ Then(<<Do("handler", Now.r, TRUE)>>)
  /\ UNCHANGED <<requests, active, page, net, timers, aborts, late, cut>>

-------------------------------------------------------------------------------
(* What happens by itself.                                                 *)

Script == Idle /\ (MakeRequest(<<>>) \/ AbortRequest(<<>>))

\* An XMLHttpRequest is answered, well or not; failures of the network are answers too.
XhrAnswers ==
  /\ Idle
  /\ \E r \in DOMAIN requests, ok \in BOOLEAN :
       /\ requests[r].set.type = "xhr" /\ net[r] = "sent"
       /\ agenda' = <<Do("answer", r, ok)>>
  /\ UNCHANGED <<requests, active, page, net, timers, aborts, history>>

\* A script arrives and runs, even if it has been taken out of the page: it calls the
\* function it was asked to call, whosever that is by now, or none; then its onload is
\* called, unless that was cleared.
ScriptRuns ==
  /\ Idle
  /\ \E r \in DOMAIN requests, calls \in BOOLEAN :
       /\ requests[r].set.type = "jsonp" /\ net[r] = "sent"
       /\ net' = [net EXCEPT ![r] = "over"]
       /\ LET owner == window[requests[r].name]
          IN  requests' = IF calls /\ owner # 0 THEN [requests EXCEPT ![owner].data = r] ELSE requests
       /\ agenda' = IF requests[r].listening THEN <<Do("answer", r, TRUE)>> ELSE <<>>
  /\ UNCHANGED <<active, page, timers, aborts, history>>

\* A script does not arrive: nothing listens to that.
ScriptFails ==
  /\ Idle
  /\ \E r \in DOMAIN requests :
       /\ requests[r].set.type = "jsonp" /\ net[r] = "sent"
       /\ net' = [net EXCEPT ![r] = "over"]
  /\ UNCHANGED <<requests, active, page, timers, agenda, aborts, history>>

TimesOut ==
  /\ Idle
  /\ \E r \in timers :
       /\ timers' = timers \ {r}
       /\ agenda' = <<Do("abort", r, FALSE)>>
  /\ UNCHANGED <<requests, active, page, net, aborts, history>>

Init ==
  /\ requests = <<>> /\ net = <<>> /\ log = <<>>
  /\ active = 0 /\ aborts = 0 /\ agenda = <<>> /\ timers = {}
  /\ window = [n \in 1 .. MaxRequests |-> 0]
  /\ nonce = 1 /\ oldCallbacks = <<>>
  /\ busy = FALSE /\ late = {} /\ cut = {}

Jquery == \/ Prefilter \/ Start \/ BeforeSend \/ Install \/ Send \/ Answer \/ Abort \/ Done \/ Settle
          \/ Complete \/ Uncount \/ Handler \/ Event

Next == Jquery \/ Script \/ XhrAnswers \/ ScriptRuns \/ ScriptFails \/ TimesOut

Spec == Init /\ [][Next]_vars

\* Code runs on, time-outs come, and an XMLHttpRequest is answered or fails.
FairSpec == Spec /\ WF_vars(Jquery) /\ WF_vars(XhrAnswers) /\ WF_vars(TimesOut)

-------------------------------------------------------------------------------
(* Properties.                                                             *)

Rank(what) ==
  CASE what = "ajaxSend" -> 1 [] what = "callback" -> 2 [] what = "statusCode" -> 3
    [] what = "ajaxEvent" -> 4 [] what = "completed" -> 5 [] what = "ajaxComplete" -> 6

\* Whatever the order of answers, time-outs and aborts, also of aborts by a request's own
\* handlers, its handlers are called once each, in the order documented, and agree on
\* whether it succeeded; when the code has run, a request that is over has been told to
\* be complete.  Excepted are the requests aborted before they were sent, and sent all the
\* same: by a handler of ajaxSend, or by one of ajaxStart if there is no beforeSend.
HandlersInOrder ==
  \A r \in DOMAIN requests \ cut :
    /\ \A i, j \in DOMAIN log[r] :
         i < j => /\ Rank(log[r][i].what) < Rank(log[r][j].what)
                  /\ log[r][i].what # "ajaxSend" => log[r][i].ok = log[r][j].ok
    /\ (Idle /\ requests[r].state = 2 /\ (requests[r].globals \/ requests[r].installed)) =>
         Last(log[r]).what = IF requests[r].globals THEN "ajaxComplete" ELSE "completed"

\* jQuery.active is the number of requests that fire globals and are under way, and
\* ajaxStart and ajaxStop tell when there are any, with handlers making and aborting
\* requests in between.  So it is until a request aborted before it was sent is sent all
\* the same: its second end is counted as well, and the count stays wrong.
ActiveCountsRequests ==
  (Idle /\ cut = {}) =>
    /\ active = Cardinality({r \in DOMAIN requests : requests[r].globals /\ requests[r].state # 2})
    /\ busy <=> active > 0

\* A JSONP request gets the data of its own script, unless another was aborted before its
\* script came and left its name behind; and a name is some request's function only
\* while that is under way.
OwnData ==
  /\ \A r \in DOMAIN requests : requests[r].data \in {0, r} \cup late
  /\ Idle => \A n \in DOMAIN window : window[n] # 0 => requests[window[n]].settled = "pending"

\* Every request that has a time-out, or is not a script's, ends.
RequestsEnd ==
  \A r \in 1 .. MaxRequests :
    (r \in DOMAIN requests /\ (requests[r].set.timeout \/ requests[r].set.type # "jsonp"))
      ~> (r \in DOMAIN requests /\ requests[r].state = 2)
===============================================================================
