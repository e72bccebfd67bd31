-------------------------------- MODULE PageReady --------------------------------
(***************************************************************************)
(* A page of the application becoming ready.  RequireJS loads jQuery and   *)
(* the application's two scripts whenever the network lets it, before or   *)
(* after the browser has parsed the document and loaded all of it.  What   *)
(* the scripts do waits in the deferred readyList (number 1) for jQuery's  *)
(* ready, which other code of the page may hold.                           *)
(*                                                                         *)
(* header-footer-only.js waits twice, a ready handler inside another: the  *)
(* inner one shows the cookie message.  custom.js binds the handlers of    *)
(* buttons and links.                                                      *)
(***************************************************************************)
EXTENDS Deferreds

VARIABLES
  doc,       \* how far the browser is with the document
  toLoad,    \* the application's scripts that have not run yet
  isReady, readyWait, \* of jQuery
  listening, \* the browser is to call completed
  timer,     \* it is to call jQuery.ready as soon as nothing runs
  holds,     \* how often user code holds the ready event
  message,   \* whether the cookie message is shown
  seen       \* whether the browser has the cookie seen_cookie_message

pageVars == <<doc, toLoad, isReady, readyWait, listening, timer, holds, message, seen>>

readyList == 1
ReadyHandlers == <<readyList, "done">>

\* A page, or (doc is "none") deferreds and lists of another script.
IsPage == doc # "none"

PageInit ==
  /\ \/ Init /\ doc = "none" /\ toLoad = {}
     \/ InitDeferreds(1) /\ frames = <<Script>> /\ InitCalls
        /\ doc = "loading" /\ toLoad = {"header-footer-only", "custom"}
  /\ isReady = FALSE /\ readyWait = 1
  /\ listening = FALSE /\ timer = FALSE /\ holds = 0
  /\ message = FALSE /\ seen \in {IsPage, FALSE}

-------------------------------------------------------------------------------
(* jQuery.ready and its promise.                                           *)

\* Mutant: forgets that the document may be complete already.
ListenForReady_Always ==
  listening' = TRUE /\ UNCHANGED timer

\* How the browser is to tell that the document is ready.
ListenForReady ==
  IF doc = "complete" THEN timer' = TRUE /\ UNCHANGED listening
  ELSE listening' = TRUE /\ UNCHANGED timer

\* $( fn ) in the script or callback that runs: c is added to the deferred
\* readyList, which is made when it is first asked for.
AddsReadyHandler(c) ==
  /\ frames' = [frames EXCEPT ![Depth].todo = <<AddTo(ReadyHandlers, c)>>]
  /\ got' = Append(got, [on |-> {ReadyHandlers}, data |-> <<>>])
  /\ IF got = <<>> THEN ListenForReady ELSE UNCHANGED <<listening, timer>>
  /\ UNCHANGED <<lists, state, makers>>

ResolveReadyList ==
  frames' = [frames EXCEPT ![Depth].todo = <<Fire(ReadyHandlers, <<0>>)>>]

\* jQuery.ready( wait )
Ready(wait) ==
  LET left == readyWait - 1
  IN  IF IF wait THEN left # 0 ELSE isReady
      THEN readyWait' = (IF wait THEN left ELSE readyWait) /\ UNCHANGED <<isReady, frames>>
      ELSE /\ isReady' = TRUE
           /\ readyWait' = left
           /\ IF ~wait /\ left > 0 THEN UNCHANGED frames ELSE ResolveReadyList

-------------------------------------------------------------------------------
(* The browser, when no script runs.                                       *)

\* completed: only the first of the two events is listened to.
Completed ==
  IF listening THEN listening' = FALSE /\ Ready(FALSE)
  ELSE UNCHANGED <<listening, isReady, readyWait, frames>>

DocumentProgress ==
  /\ Idle /\ doc # "complete"
  /\ doc' = IF doc = "loading" THEN "interactive" ELSE "complete"
  /\ Completed
  /\ UNCHANGED <<lists, state, makers, got, calls, upset, toLoad, timer, holds, message, seen>>

ReadyTimer ==
  /\ Idle /\ timer
  /\ timer' = FALSE
  /\ Ready(FALSE)
  /\ UNCHANGED <<lists, state, makers, got, calls, upset, doc, toLoad, listening, holds, message, seen>>

-------------------------------------------------------------------------------
(* The application's scripts.                                              *)

\* $(document).ready(function () { $(function () { ... }); });
RunHeaderFooterOnly ==
  /\ Idle /\ "header-footer-only" \in toLoad
  /\ toLoad' = toLoad \ {"header-footer-only"}
  /\ AddsReadyHandler([User(Len(got) + 1) EXCEPT !.role = "nested"])
  /\ UNCHANGED <<calls, upset, doc, isReady, readyWait, holds, message, seen>>

\* The outer of the two handlers runs and adds the inner one.
RunsNested == UserCode /\ Top.running[1].role = "nested"
AddNested ==
  /\ RunsNested
  /\ frames' = [frames EXCEPT
       ![Depth].running = <<User(0)>>,
       ![Depth].todo = <<AddTo(ReadyHandlers, [User(Len(got) + 1) EXCEPT !.role = "message"])>>]
  /\ got' = Append(got, [on |-> {ReadyHandlers}, data |-> <<>>])
  /\ UNCHANGED <<lists, state, makers, calls, upset, pageVars>>

RunCustom ==
  /\ Idle /\ "custom" \in toLoad
  /\ toLoad' = toLoad \ {"custom"}
  /\ AddsReadyHandler(User(Len(got) + 1))
  /\ UNCHANGED <<calls, upset, doc, isReady, readyWait, holds, message, seen>>

\* getCookie and setCookie, of seen_cookie_message.
GetCookie == seen
SetCookie == seen' = TRUE

\* What the ready handler of header-footer-only.js does when it is called.
CookieMessage ==
  LET l == lists[Top.list]
      Calls(c) == CallNext /\ c.do = "user" /\ c.role = "message"
  IN  IF ~GetCookie /\ AtLoop /\ InLoop(l) /\ Calls(Current(l))
      THEN message' = TRUE /\ SetCookie
      ELSE UNCHANGED <<message, seen>>

-------------------------------------------------------------------------------
(* Other code of the page: adds ready handlers, holds and releases.        *)

OtherReadyHandler ==
  /\ UserCode /\ ~RunsNested /\ calls < MaxCalls
  /\ calls' = calls + 1
  /\ AddsReadyHandler(User(Len(got) + 1))
  /\ UNCHANGED <<upset, doc, toLoad, isReady, readyWait, holds, message, seen>>

HoldReady ==
  /\ UserCode /\ ~RunsNested /\ calls < MaxCalls
  /\ calls' = calls + 1
  /\ readyWait' = readyWait + 1 /\ holds' = holds + 1
  /\ UNCHANGED <<lists, state, makers, frames, got, upset, doc, toLoad, isReady, listening,
                 timer, message, seen>>

\* holdReady( false ), by who held it.
ReleaseReady ==
  /\ UserCode /\ ~RunsNested /\ holds > 0
  /\ holds' = holds - 1
  /\ Ready(TRUE)
  /\ UNCHANGED <<lists, state, makers, got, calls, upset, doc, toLoad, listening, timer,
                 message, seen>>

-------------------------------------------------------------------------------
RunsCode ==
  \/ /\ ~RunsNested /\ (Jquery \/ Throw) /\ CookieMessage
     /\ UNCHANGED <<doc, toLoad, isReady, readyWait, listening, timer, holds>>
  \/ AddNested
Browser == DocumentProgress \/ ReadyTimer \/ RunHeaderFooterOnly \/ RunCustom

PageNext ==
  \/ ~IsPage /\ Next /\ UNCHANGED pageVars
  \/ IsPage /\ (RunsCode \/ Browser \/ OtherReadyHandler \/ HoldReady \/ ReleaseReady)

PageSpec == PageInit /\ [][PageNext]_<<vars, pageVars>>

\* Scripts arrive, the browser gets on with the document and tells of it, and the
\* code that it calls comes to its end.
PageFairSpec ==
  PageSpec /\ WF_<<vars, pageVars>>(IsPage /\ RunsCode) /\ WF_<<vars, pageVars>>(IsPage /\ Browser)

-------------------------------------------------------------------------------
(* Properties.                                                             *)

\* The handlers for the document being ready are run: a script that arrives after
\* the document was complete is not forgotten, nor is a handler that is added by
\* another.  Only holding the event or an exception in another handler keeps one
\* from being run (jQuery.ready, its promise and holdReady).
EveryReadyHandlerRuns ==
  LET Waiting == \E u \in DOMAIN got : got[u].data = <<>>
  IN  IsPage /\ Waiting ~> ~Waiting \/ holds > 0 \/ upset # {}

==============================================================================
