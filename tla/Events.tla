-------------------------------- MODULE Events --------------------------------
(***************************************************************************)
(* How a click, a submission or a focus reaches the handlers of the page's *)
(* scripts, and when the browser then does what it does by default.  The   *)
(* browser walks from the target outwards and calls one listener per node  *)
(* and type, which dispatches to the handlers; jQuery's trigger walks the  *)
(* same way by itself and then calls the browser's method (click, submit), *)
(* whose own event must not run the handlers again.                        *)
(*                                                                         *)
(* Handlers may bind and unbind handlers, trigger events, remove nodes and *)
(* throw.  frames is the call stack: walks of the browser (native) and of  *)
(* jQuery (trigger), dispatches at one node, and user code; only the last  *)
(* one takes steps.                                                        *)
(***************************************************************************)
EXTENDS NodeData

CONSTANTS
  Kinds,        \* what node 1 may be: "link", "submit", "disabled" or "today" (buttons)
  Bindings,     \* the handlers scripts may bind: records of node, type, selector, ns, fn, one
  Removals,     \* what they may unbind: records of node, type, selector, ns, fn
  Triggers,     \* what they may trigger: records of node, type, ns, only
  Removed,      \* the nodes they may take out of the page
  Cloned,       \* the nodes they may copy
  WithData,     \* the nodes they may keep data about
  ReturnFalse,  \* functions that only return false, as those of the pages' buttons
  PreventOnly,  \* functions that only prevent the default, as that of links within a page
  FocusKinds,   \* bound: the kinds of node 1 whose focus is followed
  MaxBinds,     \* bound: handlers bound in a behaviour
  MaxCalls,     \* bound: other calls of user code
  MaxEvents     \* bound: events the user or a script begins

\* Handlers, events and data belong to nodes of the page.
ASSUME NodesAssumption ==
  /\ \A c \in Bindings \cup Removals \cup Triggers : c.node \in 1 .. Document
  /\ Removed \cup Cloned \cup WithData \subseteq 1 .. Document
  /\ \A b \in Bindings : b.one \in BOOLEAN
  /\ \A t \in Triggers : t.only \in BOOLEAN

ASSUME EventBoundsAssumption == MaxBinds \in Nat /\ MaxCalls \in Nat /\ MaxEvents \in Nat

VARIABLES
  kind,      \* what node 1 is
  store,     \* jQuery's data about the nodes
  inPage,    \* the nodes that still have their parent
  active,    \* whether node 1 has the focus
  triggered, \* jQuery.event.triggered, or ""
  frames,    \* the call stack
  binds, calls, begun, \* how many handlers were bound, calls made, events begun
  ran,       \* the handlers called since the stack was last empty
  vetoed, acted \* the events whose default was prevented, or was done, since then

vars == <<kind, store, inPage, active, triggered, frames, binds, calls, begun,
          ran, vetoed, acted>>

-------------------------------------------------------------------------------
(* Event objects and the call stack.                                       *)

\* root: the number of the event it is about.  original: the place on the stack of
\* the browser's event it was made of, or of the one it simulates (donor).
Event(type, ns, target, root) ==
  [type |-> type, ns |-> ns, target |-> target, root |-> root, original |-> 0, donor |-> 0,
   stopped |-> FALSE, immediate |-> FALSE, prevented |-> FALSE]
NoEvent == Event("", {}, 0, 0)

\* path: where a walk has still to stop.  only: it is triggerHandler's.  method: it
\* calls a method of the browser, or was begun by one.
\* owner: the place of the frame whose event a dispatch at node is about, elem the
\* node whose handlers it calls.  fn, call: the function that user code is, and
\* which entry of ran.
Frame(name) ==
  [frame |-> name, ev |-> NoEvent, path |-> <<>>, only |-> FALSE, method |-> FALSE,
   owner |-> 0, node |-> 0, elem |-> 0, queue |-> <<>>, fn |-> 0, call |-> 0]
Script == Frame("user")

Top == frames[Len(frames)]
Below == SubSeq(frames, 1, Len(frames) - 1)
Running(name) == frames # <<>> /\ Top.frame = name
Push(f) == frames' = Append(frames, f)
Pop == frames' = Below
Become(f) == frames' = Append(Below, f)

\* The event that user code on top was called with: that of the dispatch below it.
Dispatching == frames[Len(frames) - 1]
CurrentEvent == frames[Dispatching.owner].ev

\* The nodes from n outwards, as far as it is still connected.
Outwards(n) ==
  {m \in n .. Document : \A k \in n .. m - 1 : k \in inPage}
Outermost(n) == Max(Outwards(n))

\* Stops of a walk.  At each node there is the listener and the onclick; the walk
\* may end only before the first of them.
Stop(n, type, how, first) == [node |-> n, type |-> type, how |-> how, first |-> first]
NativeStops(n, type) == <<Stop(n, type, "onclick", TRUE), Stop(n, type, "handlers", FALSE)>>
TriggerStops(n, type) == <<Stop(n, type, "handlers", TRUE), Stop(n, type, "onclick", FALSE)>>

\* The nodes from a to b, from the inside out.
Ascending(a, b) == [i \in 1 .. b - a + 1 |-> a + i - 1]

Walk(a, b, Stops(_)) == FoldLeft(LAMBDA w, n : w \o Stops(n), <<>>, Ascending(a, b))

-------------------------------------------------------------------------------
(* Handlers of one dispatch.                                               *)

\* The handlers that match node m, inside the one where they are bound.
MatchesAt(handlers, m) ==
  FoldLeft(LAMBDA q, h : IF m \in h.selector THEN Append(q, [elem |-> m, h |-> h]) ELSE q,
           <<>>, handlers)

\* Delegates are called from the target outwards, but not for clicks on what is
\* disabled.
DelegateQueue(n, ev, type) ==
  LET disabled == ev.target = 1 /\ kind = "disabled" /\ type = "click"
      inner == Ascending(IF disabled THEN 2 ELSE ev.target, Min({n - 1, Outermost(ev.target)}))
  IN  FoldLeft(LAMBDA q, m : q \o MatchesAt(Delegates(Handlers(store, n, type)), m), <<>>, inner)
OwnQueue(n, type) ==
  LET own == Own(Handlers(store, n, type)) IN [i \in DOMAIN own |-> [elem |-> n, h |-> own[i]]]

\* event.handlers
HandlerQueue(n, ev, type) == DelegateQueue(n, ev, type) \o OwnQueue(n, type)

\* Mutant: immediate propagation goes on.
DispatchOver_NotAtOnce(d, ev) ==
  \/ d.queue = <<>>
  \/ (ev.stopped /\ Head(d.queue).elem # d.elem)

\* The dispatch is over: propagation was stopped at another node, or at once.
DispatchOver(d, ev) ==
  \/ d.queue = <<>>
  \/ ev.immediate
  \/ (ev.stopped /\ Head(d.queue).elem # d.elem)

-------------------------------------------------------------------------------
(* Walks of the browser.                                                   *)

page == <<kind, inPage, active>>
bounds == <<binds, calls, begun>>
history == <<ran, vetoed, acted>>

\* A walk for an event of the browser; focus is told to the target only, but
\* first to the listener at the document that captures it.
Native(type, target, root, method) ==
  LET ev == Event(type, {}, target, root)
      path == IF type = "focus"
              THEN <<Stop(target, type, "capture", TRUE)>> \o NativeStops(target, type)
              ELSE Walk(target, Outermost(target), LAMBDA n : NativeStops(n, type))
  IN  [Frame("native") EXCEPT !.ev = ev, !.path = path, !.method = method]

\* A click() on a node whose click() is under way does nothing.
Clicking(n) ==
  \E f \in Range(frames) :
     /\ f.frame = "native" /\ f.method
     /\ f.ev.target = n \/ (f.ev.type = "submit" /\ n = 1)

\* trigger sets onclick to null while it calls the method of the same name.
OnclickIsNull(n, type) ==
  \E f \in Range(frames) : f.frame = "trigger" /\ f.method /\ f.ev.target = n /\ f.ev.type = type

\* The button that fills in today's date has an onclick, which changes nothing else.
HasOnclick(stop) == stop.how = "onclick" /\ stop.node = 1 /\ stop.type = "click" /\ kind = "today"

Onclick(root) ==
  /\ ran' = Append(ran, [root |-> root, hid |-> 0, node |-> 1, elem |-> 1, one |-> FALSE, ends |-> "no"])
  /\ UNCHANGED <<page, vetoed, acted>>

\* simulate: focusin is triggered from where the focus goes.  It is not while
\* trigger calls focus itself.
Simulate(walk) ==
  LET ev == [Event("focusin", {}, walk.ev.target, begun + 1) EXCEPT
               !.donor = Len(frames), !.prevented = walk.ev.prevented]
      path == Walk(walk.ev.target, Outermost(walk.ev.target), LAMBDA n : TriggerStops(n, "focusin"))
  IN  IF store.attaches > 0 /\ triggered # "focus"
      THEN /\ frames' = Below \o <<walk, [Frame("trigger") EXCEPT !.ev = ev, !.path = path]>>
           /\ begun' = begun + 1
      ELSE Become(walk) /\ UNCHANGED begun

\* Mutant: the event of the method that trigger calls runs the handlers again.
Discarded_Never(type) == FALSE

\* The listener discards the second event of a trigger.
Discarded(type) == triggered = type

\* fix: an event of jQuery's, made of the browser's one at place `at` of the stack.
Fix(ev, at) == [ev EXCEPT !.original = at, !.stopped = FALSE]

\* Handlers at node n of the event of the walk on top.
Dispatch(n, type) ==
  LET native == Top.frame = "native"
  IN  [Frame("dispatch") EXCEPT
         !.ev = IF native THEN Fix(Top.ev, Len(frames)) ELSE NoEvent,
         !.owner = IF native THEN Len(frames) + 1 ELSE Len(frames),
         !.node = n, !.queue = HandlerQueue(n, Top.ev, type)]

NativeStop ==
  /\ Running("native") /\ Top.path # <<>>
  /\ LET stop == Head(Top.path)
         walk == [Top EXCEPT !.path = Tail(@)]
         listens == \E l \in store.listeners[stop.node] : l[1] = stop.type
     IN  IF stop.first /\ Top.ev.stopped
         THEN Become([Top EXCEPT !.path = <<>>]) /\ UNCHANGED <<page, begun, history>>
         ELSE IF stop.how = "capture"
         THEN Simulate(walk) /\ UNCHANGED <<page, history>>
         ELSE IF HasOnclick(stop) /\ ~OnclickIsNull(1, "click")
         THEN Become(walk) /\ Onclick(Top.ev.root) /\ UNCHANGED begun
         ELSE IF stop.how = "handlers" /\ listens /\ ~Discarded(stop.type)
         THEN /\ frames' = Below \o <<walk, Dispatch(stop.node, stop.type)>>
              /\ UNCHANGED <<page, begun, history>>
         ELSE Become(walk) /\ UNCHANGED <<page, begun, history>>
  /\ UNCHANGED <<store, triggered, binds, calls>>

\* The walk is over: the browser does the default, unless it was prevented.  A
\* click on a button submits its form.
NativeEnds ==
  /\ Running("native") /\ Top.path = <<>>
  /\ IF Top.ev.prevented
     THEN Pop /\ UNCHANGED <<acted, begun>>
     ELSE /\ acted' = acted \cup {Top.ev.root}
          /\ IF /\ Top.ev.type = "click" /\ Top.ev.target = 1 /\ kind = "submit"
                /\ 2 \in Outwards(1) /\ 2 < Document
             THEN Become(Native("submit", 2, begun + 1, Top.method)) /\ begun' = begun + 1
             ELSE Pop /\ UNCHANGED begun
  /\ UNCHANGED <<page, store, triggered, binds, calls, ran, vetoed>>

-------------------------------------------------------------------------------
(* Walks of jQuery's.                                                      *)

\* special.focus: a node without the focus gets it by the browser's own method.
FocusesItself(t) == ~t.only /\ t.type = "focus" /\ ~active

\* trigger, up to its loop.  Of a focus that is there already the outer nodes, and
\* node 1 again, are told as of focusin.
Trigger(t) ==
  LET root == begun + 1
      own == TriggerStops(t.node, t.type)
      outer == IF t.only THEN <<>>
               ELSE IF t.type = "focus"
               THEN Walk(t.node, Outermost(t.node), LAMBDA n : TriggerStops(n, "focusin"))
               ELSE Walk(t.node + 1, Outermost(t.node), LAMBDA n : TriggerStops(n, t.type))
  IN  /\ begun' = root
      /\ IF FocusesItself(t)
         THEN Push(Native("focus", t.node, root, TRUE)) /\ active' = TRUE
         ELSE /\ Push([Frame("trigger") EXCEPT !.ev = Event(t.type, t.ns, t.node, root),
                                               !.path = own \o outer, !.only = t.only])
              /\ UNCHANGED active

TriggerStop ==
  /\ Running("trigger") /\ ~Top.method /\ Top.path # <<>>
  /\ LET stop == Head(Top.path)
         walk == [Top EXCEPT !.path = Tail(@)]
     IN  IF stop.first /\ Top.ev.stopped
         THEN Become([Top EXCEPT !.path = <<>>]) /\ UNCHANGED <<page, history>>
         ELSE IF HasOnclick(stop)
         THEN Become(walk) /\ Onclick(Top.ev.root)
         ELSE IF /\ stop.how = "handlers" /\ Handlers(store, stop.node, stop.type) # <<>>
                 /\ ~Discarded(stop.type)
         THEN /\ frames' = Below \o <<walk, Dispatch(stop.node, stop.type)>>
              /\ UNCHANGED <<page, history>>
         ELSE Become(walk) /\ UNCHANGED <<page, history>>
  /\ UNCHANGED <<store, triggered, bounds>>

\* Whether trigger goes on to call a method: not for links, nor for a type or a node
\* that has none.
CallsMethod(walk) ==
  /\ ~walk.only /\ ~walk.ev.prevented
  /\ ~(walk.ev.type = "click" /\ walk.ev.target = 1 /\ kind = "link")
  /\ \/ walk.ev.type = "click" /\ walk.ev.target # Document
     \/ walk.ev.type \in {"submit", "focus"}

\* click() tells the browser's listeners; submit() of the form does not.
TriggerDefault ==
  /\ Running("trigger") /\ ~Top.method /\ Top.path = <<>>
  /\ LET ev == Top.ev
         clicks == ev.type = "click" /\ ~Clicking(ev.target) /\ ~(ev.target = 1 /\ kind = "disabled")
     IN  IF ~CallsMethod(Top)
         THEN /\ frames' = IF ev.donor # 0 /\ ev.prevented
                           THEN [Below EXCEPT ![ev.donor].ev.prevented = TRUE] ELSE Below
              /\ UNCHANGED <<triggered, acted>>
         ELSE IF clicks
         THEN /\ frames' = Below \o <<[Top EXCEPT !.method = TRUE], Native("click", ev.target, ev.root, TRUE)>>
              /\ triggered' = "click" /\ UNCHANGED acted
         ELSE /\ Pop /\ triggered' = ""
              /\ acted' = IF ev.type = "submit" THEN acted \cup {ev.root} ELSE acted
  /\ UNCHANGED <<page, store, bounds, ran, vetoed>>

TriggerReturns ==
  /\ Running("trigger") /\ Top.method
  /\ triggered' = ""
  /\ Pop
  /\ UNCHANGED <<page, store, bounds, history>>

-------------------------------------------------------------------------------
(* A dispatch.                                                             *)

\* The wrapper that one binds first unbinds: every handler with the same function.
WithoutOnce(node, h) ==
  IF h.one
  THEN RemoveHandlers(store, node, [type |-> h.type, selector |-> h.selector, ns |-> h.ns, fn |-> h.fn])
  ELSE store

\* The next handler is called, if it has all the namespaces of the event.
Dispatches ==
  /\ Running("dispatch")
  /\ LET ev == frames[Top.owner].ev
         q == Head(Top.queue)
         rest == [Top EXCEPT !.queue = Tail(@), !.elem = q.elem]
         user == [Frame("user") EXCEPT !.fn = q.h.fn, !.call = Len(ran) + 1]
     IN  IF DispatchOver(Top, ev) THEN Pop /\ UNCHANGED <<store, ran>>
         ELSE IF ~(ev.ns \subseteq q.h.ns) THEN Become(rest) /\ UNCHANGED <<store, ran>>
         ELSE /\ frames' = Below \o <<rest, user>>
              /\ store' = WithoutOnce(Top.node, q.h)
              /\ ran' = Append(ran, [root |-> ev.root, hid |-> q.h.hid, node |-> Top.node,
                                     elem |-> q.elem, one |-> q.h.one, ends |-> "no"])
  /\ UNCHANGED <<page, triggered, bounds, vetoed, acted>>

-------------------------------------------------------------------------------
(* User code: scripts, and handlers.                                       *)

InHandler == Running("user") /\ Top.call # 0
Free == Running("user") /\ Top.fn \notin ReturnFalse \cup PreventOnly

\* Sets flags of the event of the handler on top, and of the browser's event that
\* it was made of; flags that jQuery alone has are set on its own.
WithFlags(Set(_), SetOriginal(_)) ==
  LET owner == Dispatching.owner
      original == CurrentEvent.original
      marked == [frames EXCEPT ![owner].ev = Set(@)]
  IN  IF original = 0 THEN marked ELSE [marked EXCEPT ![original].ev = SetOriginal(@)]

Prevented(ev) == [ev EXCEPT !.prevented = TRUE]
Stopped(ev) == [ev EXCEPT !.stopped = TRUE]
StoppedAtOnce(ev) == [ev EXCEPT !.stopped = TRUE, !.immediate = TRUE]
PreventedAndStopped(ev) == Prevented(Stopped(ev))

Veto == vetoed' = vetoed \cup {CurrentEvent.root}
Ends(how) == ran' = [ran EXCEPT ![Top.call].ends = how]

PreventDefault ==
  /\ InHandler /\ Top.fn \notin ReturnFalse /\ ~CurrentEvent.prevented
  /\ frames' = WithFlags(Prevented, Prevented)
  /\ Veto
  /\ UNCHANGED <<page, store, triggered, bounds, ran, acted>>

StopPropagation ==
  /\ InHandler /\ Free /\ ~CurrentEvent.stopped
  /\ frames' = WithFlags(Stopped, Stopped)
  /\ Ends("node")
  /\ UNCHANGED <<page, store, triggered, bounds, vetoed, acted>>

StopImmediatePropagation ==
  /\ InHandler /\ Free /\ ~CurrentEvent.immediate
  /\ frames' = WithFlags(StoppedAtOnce, Stopped)
  /\ Ends("all")
  /\ UNCHANGED <<page, store, triggered, bounds, vetoed, acted>>

Return ==
  /\ Running("user") /\ Top.fn \notin ReturnFalse
  /\ Top.fn \in PreventOnly => CurrentEvent.prevented
  /\ Pop
  /\ UNCHANGED <<page, store, triggered, bounds, history>>

\* Mutant: false only stops the event.
ReturnsFalse_StopsOnly ==
  /\ InHandler /\ Top.fn \notin PreventOnly
  /\ frames' = SubSeq(WithFlags(Stopped, Stopped), 1, Len(frames) - 1)
  /\ ran' = [ran EXCEPT ![Top.call].ends = IF @ = "no" THEN "node" ELSE @]
  /\ Veto
  /\ UNCHANGED <<page, store, triggered, bounds, acted>>

ReturnsFalse ==
  /\ InHandler /\ Top.fn \notin PreventOnly
  /\ frames' = SubSeq(WithFlags(PreventedAndStopped, PreventedAndStopped), 1, Len(frames) - 1)
  /\ ran' = [ran EXCEPT ![Top.call].ends = IF @ = "no" THEN "node" ELSE @]
  /\ Veto
  /\ UNCHANGED <<page, store, triggered, bounds, acted>>

\* An exception ends everything up to the walk of the browser that called a listener,
\* or up to the script.
Throw ==
  /\ Running("user") /\ Top.fn \notin ReturnFalse
  /\ LET native == {i \in DOMAIN frames : frames[i].frame = "native"}
     IN  frames' = SubSeq(frames, 1, Max({0} \cup native))
  /\ UNCHANGED <<page, store, triggered, bounds, history>>

On ==
  /\ Free /\ binds < MaxBinds
  /\ \E b \in Bindings :
        /\ b.type = "focus" => kind \in FocusKinds
        /\ store' = AddHandler(store, b.node, [hid |-> binds + 1, type |-> b.type, selector |-> b.selector,
                                               ns |-> b.ns, fn |-> b.fn, one |-> b.one])
  /\ binds' = binds + 1
  /\ UNCHANGED <<page, triggered, frames, calls, begun, history>>

OnStore(new) ==
  /\ Free /\ calls < MaxCalls /\ calls' = calls + 1
  /\ store' = new
  /\ UNCHANGED <<triggered, frames, binds, begun, history>>

Off ==
  \E r \in Removals :
     /\ OnStore(RemoveHandlers(store, r.node, [type |-> r.type, selector |-> r.selector, ns |-> r.ns, fn |-> r.fn]))
     /\ UNCHANGED page

\* remove of a node, which is what empty of its parent does to it.
RemoveNode ==
  \E n \in Removed :
     /\ OnStore(CleanTree(store, n))
     /\ inPage' = inPage \ {n}
     /\ UNCHANGED <<kind, active>>
Clone == \E n \in Cloned : OnStore(CopyEvents(store, n)) /\ ~HasData(store, Copy) /\ UNCHANGED page
Data ==
  \E n \in WithData :
     /\ \/ OnStore(SetData(store, n, "key"))
        \/ OnStore(ReadData(store, n, "attribute"))
        \/ \E ks \in {{"key"}, {"key", "attribute"}} : OnStore(RemoveData(store, n, ks))
     /\ UNCHANGED page

CallTrigger ==
  /\ Free /\ begun < MaxEvents
  /\ \E t \in Triggers : (t.type = "focus" => kind \in FocusKinds) /\ Trigger(t)
  /\ UNCHANGED <<kind, inPage, store, triggered, binds, calls, history>>

-------------------------------------------------------------------------------
(* What happens in the browser while no code runs.                         *)

Idle == frames = <<>>

Begin(f) == /\ Idle /\ frames' = <<f>>
            /\ ran' = <<>> /\ vetoed' = {} /\ acted' = {}

RunScript ==
  /\ binds < MaxBinds \/ calls < MaxCalls \/ begun < MaxEvents
  /\ Begin(Script)
  /\ UNCHANGED <<page, store, triggered, bounds>>

\* Only what is in the page can be clicked, and a disabled button cannot.
UserClicks ==
  /\ begun < MaxEvents /\ Document \in Outwards(1) /\ kind # "disabled"
  /\ Begin(Native("click", 1, begun + 1, FALSE)) /\ begun' = begun + 1
  /\ UNCHANGED <<page, store, triggered, binds, calls>>

FocusMoves ==
  /\ kind \in FocusKinds
  /\ \/ /\ ~active /\ active' = TRUE /\ begun < MaxEvents /\ Document \in Outwards(1)
        /\ Begin(Native("focus", 1, begun + 1, FALSE)) /\ begun' = begun + 1
     \/ /\ active /\ active' = FALSE /\ Idle
        /\ UNCHANGED <<frames, begun, history>>
  /\ UNCHANGED <<kind, inPage, store, triggered, binds, calls>>

Init ==
  /\ kind \in Kinds
  /\ store = EmptyStore
  /\ inPage = 1 .. Document - 1
  /\ active = FALSE
  /\ triggered = ""
  /\ frames = <<>>
  /\ binds = 0 /\ calls = 0 /\ begun = 0
  /\ ran = <<>> /\ vetoed = {} /\ acted = {}

UserCode ==
  PreventDefault \/ StopPropagation \/ StopImmediatePropagation \/ Return \/ ReturnsFalse \/ Throw
    \/ On \/ Off \/ RemoveNode \/ Clone \/ Data \/ CallTrigger
Walks == NativeStop \/ NativeEnds \/ TriggerStop \/ TriggerDefault \/ TriggerReturns \/ Dispatches
Browser == RunScript \/ UserClicks \/ FocusMoves

Next == Walks \/ UserCode \/ Browser

Spec == Init /\ [][Next]_vars

-------------------------------------------------------------------------------
(* Properties.                                                             *)

\* The nodes with handlers that are told of focusin.
Wanting == {n \in Nodes : "focusin" \in DOMAIN Entry(store, n).events}

\* While a node has handlers of a type the browser tells it of such events, through
\* one listener, and when the last one is gone it no longer does: neither off nor
\* the removal of the node leaves a listener behind, in whatever order handlers
\* came and went (event.add, event.remove, cleanData).  Excepted is focusin: for it
\* there is one listener for all nodes, which is there while it is wanted, and may
\* stay (see OnlyRemovalKeepsFocus).
ListenersInStep ==
  /\ \A n \in Nodes :
        store.listeners[n] = {<<t, Entry(store, n).handle>> : t \in DOMAIN Entry(store, n).events \ {"focusin"}}
  /\ store.attaches >= Cardinality(Wanting)

\* The nodes that want focusin are counted right by whatever binds, unbinds or copies
\* handlers; only the removal of a node can leave the count too high, and so the
\* listener behind, which it does when handlers of focus are kept for focusin: cleanData has
\* them removed by a type that is not the one they were bound with.
OnlyRemovalKeepsFocus ==
  [][RemoveNode \/ store'.attaches - Cardinality(Wanting') = store.attaches - Cardinality(Wanting)]_vars

\* Two nodes never share an entry of the cache, also when numbers are used again,
\* and no entry outlives what was known of its node (internalData, cleanData).
NodesOwnTheirData ==
  LET used == {n \in Nodes : store.expando[n] # 0}
  IN  /\ \A m, n \in used : store.expando[m] = store.expando[n] => m = n
      /\ DOMAIN store.cache = {store.expando[n] : n \in used}
      /\ Range(store.deletedIds) \cap DOMAIN store.cache = {}
      /\ IsInjective(store.deletedIds)

\* For an event a handler is called once for each node that it handles it for: the
\* event of the method that trigger calls does not call it, nor an onclick, again.
\* One bound with one may be called by events that found it before, nested in each
\* other, but by none that begins after it was called (the listener in event.add,
\* trigger, one, off).
CalledOnce ==
  /\ IsInjective([i \in DOMAIN ran |-> <<ran[i].root, ran[i].hid, ran[i].elem>>])
  /\ \A i \in DOMAIN ran :
        ran[i].one =>
          /\ \A j \in i + 1 .. Len(ran) : ran[j].hid = ran[i].hid => ran[j].root <= ran[i].root
          /\ \A n \in 1 .. Document : \A t \in DOMAIN Entry(store, n).events :
                \A h \in Range(Handlers(store, n, t)) : h.hid # ran[i].hid

\* Handlers of inner nodes come before those of outer nodes, whether bound there or
\* delegated; one that stops an event is the last to hear of it, or the last but for
\* those of the same node (event.add, event.handlers, dispatch, trigger).
CalledInOrder ==
  \A i, j \in DOMAIN ran :
     i < j /\ ran[i].root = ran[j].root /\ 0 \notin {ran[i].hid, ran[j].hid} =>
       /\ ran[i].node <= ran[j].node
       /\ ran[i].node = ran[j].node => ran[i].elem <= ran[j].elem
       /\ ran[i].ends # "all"
       /\ ran[i].ends = "node" => ran[j].node = ran[i].node /\ ran[j].elem = ran[i].elem

\* What a handler prevented is not done: a click on a button that is not
\* implemented yet leads nowhere, however it was made.
PreventedIsNotDone == vetoed \cap acted = {}
===============================================================================
