------------------------------- MODULE Deferreds -------------------------------
(***************************************************************************)
(* jQuery.Deferred, its then and jQuery.when: outcomes that scripts wait   *)
(* for, kept in three callback lists each, and plain callback lists beside *)
(* them.  JavaScript runs one piece of code at a time, but a callback may  *)
(* itself resolve, add or fire, so loops of several lists are under way at *)
(* once, one inside the other.                                             *)
(*                                                                         *)
(* frames is the call stack.  Its first entry is the script, or the event  *)
(* handler, that the browser runs; every other entry is the loop of one    *)
(* list that fires.  Only the last one takes steps.  What a piece of code  *)
(* of jQuery does is a sequence of calls on lists; user code may make any  *)
(* call.                                                                   *)
(***************************************************************************)
EXTENDS CallbackLists, TLC

CONSTANTS
  MadeFirst,    \* bound: how many deferreds the script has made at the start
  MaxDeferreds, \* bound: deferreds in a behaviour
  MaxCalls,     \* bound: calls that user code makes on deferreds
  MaxPlainCalls, \* bound: calls that it makes on a plain list
  ListOptions,  \* the options plain lists are made with
  MayThrow      \* whether user code may throw

ASSUME BoundsAssumption ==
  MadeFirst \subseteq Nat \ {0} /\ MaxDeferreds \in Nat
  /\ MaxCalls \in Nat /\ MaxPlainCalls \in Nat
ASSUME ListOptionsAssumption == ListOptions \subseteq SUBSET Options
ASSUME MayThrowAssumption == MayThrow \in BOOLEAN

VARIABLES
  lists,   \* every callback list
  state,   \* state[d]: of deferred d
  makers,  \* makers[d]: who settles deferred d, and what jQuery.when knows of it
  frames,  \* the call stack
  got,     \* got[u]: where user callback u was added, and the data it was called with
  calls,   \* how many calls user code has made
  upset    \* whether user code has thrown, or emptied a list that was firing

vars == <<lists, state, makers, frames, got, calls, upset>>

ListsOf(d) == {<<d, "done">>, <<d, "fail">>, <<d, "progress">>}
Plain == <<0, "plain">>

\* Calls on lists, which are also what callbacks of jQuery do when called.
Call(do, on) == [do |-> do, on |-> on]
AddTo(l, c) == [do |-> "add", on |-> l, cb |-> c]
Fire(l, data) == [do |-> "fire", on |-> l, data |-> data]
SetState(d, s) == [do |-> "state", on |-> <<d, "state">>, to |-> s]

\* Hands what it is called with on to list l.
Forward(l) == Call("forward", l)

\* User callback number u.
User(u) == [do |-> "user", on |-> <<u, "user">>, role |-> "any"]

-------------------------------------------------------------------------------
(* Deferred, then and when as the calls they make.                         *)

Action(s) == IF s = "resolved" THEN "done" ELSE "fail"
Other(s) == IF s = "resolved" THEN "rejected" ELSE "resolved"

\* Mutant: the other list stays alive.
Handling_OnlyState(d, s) == <<SetState(d, s), Call("lock", <<d, "progress">>)>>

\* The callbacks that the two lists of outcomes of a new deferred begin with.
Handling(d, s) ==
  <<SetState(d, s), Call("disable", <<d, Action(Other(s))>>), Call("lock", <<d, "progress">>)>>

\* The three lists of deferred d.
NewLists(d) ==
  [l \in ListsOf(d) |->
     IF l[2] = "progress" THEN NewList({"memory"})
     ELSE [NewList({"once", "memory"}) EXCEPT
             !.list = Handling(d, IF l[2] = "done" THEN "resolved" ELSE "rejected")]]

\* promise.then: n takes over what becomes of d, through a function fnDone or as
\* it is.
Then(d, n, fn) ==
  <<AddTo(<<d, "done">>, IF fn THEN Call("then", <<n, "done">>) ELSE Forward(<<n, "done">>)),
    AddTo(<<d, "fail">>, Forward(<<n, "fail">>)),
    AddTo(<<d, "progress">>, Forward(<<n, "progress">>))>>

\* .done( newDefer.resolve ).fail( newDefer.reject ).progress( newDefer.notify )
Adopt(d, n) == Then(d, n, FALSE)

\* What jQuery.when does about argument i of n, a deferred or (0) another value.
Subordinate(d, n, i) ==
  IF d = 0 THEN <<Call("count", <<n, "when">>)>>
  ELSE <<AddTo(<<d, "done">>, Call("update", <<n, i, "when">>)),
         AddTo(<<d, "fail">>, Forward(<<n, "fail">>)),
         AddTo(<<d, "progress">>, Call("updateProgress", <<n, i, "when">>))>>

\* Mutant: a deferred is waited for only if all arguments are deferreds.
When_NotForOne(a, b, n) ==
  (IF 0 \in {a, b} THEN <<Call("count", <<n, "when">>), Call("count", <<n, "when">>)>>
   ELSE Subordinate(a, n, 1) \o Subordinate(b, n, 2)) \o <<Call("ifNone", <<n, "when">>)>>

\* jQuery.when( a, b ), whose promise is that of n.
When(a, b, n) ==
  Subordinate(a, n, 1) \o Subordinate(b, n, 2) \o <<Call("ifNone", <<n, "when">>)>>

\* What callback c does when it is called with data.
Body(c, data) ==
  CASE c.do \in {"user", "then"} -> <<>>
    [] c.do = "forward" -> <<Fire(c.on, data)>>
    [] c.do \in {"update", "updateProgress"} -> <<[do |-> c.do, on |-> c.on, data |-> data]>>
    [] OTHER -> <<c>>

-------------------------------------------------------------------------------
(* The call stack.  A frame: the list that fires, the callback it is       *)
(* calling, if any, and the calls that this one has still to make.         *)

Loop(l) == [list |-> l, running |-> <<>>, todo |-> <<>>]
Script == [list |-> Plain, running |-> <<User(0)>>, todo |-> <<>>]

Made == DOMAIN state

\* Who settles a deferred: the script that made it, or another deferred's then,
\* or jQuery.when, which wait for others.
Maker(by, waits) ==
  [by |-> by, of |-> waits, remaining |-> Len(waits),
   values |-> [i \in DOMAIN waits |-> <<>>], progress |-> [i \in DOMAIN waits |-> <<>>]]

\* A plain list of some options, or k deferreds.
InitPlain(o) ==
  lists = [l \in {Plain} |-> NewList(o)] /\ state = <<>> /\ makers = <<>>
InitDeferreds(k) ==
  /\ lists = [l \in UNION {ListsOf(d) : d \in 1 .. k} |-> NewLists(l[1])[l]]
  /\ state = [d \in 1 .. k |-> "pending"]
  /\ makers = [d \in 1 .. k |-> Maker("script", <<>>)]

\* The calls of then and of jQuery.when that make deferred n from those of ds,
\* and what jQuery does for them.
Wirings(ds, n) ==
  {[maker |-> Maker("then", <<d>>), todo |-> Then(d, n, fn)] : d \in ds, fn \in BOOLEAN}
    \cup {[maker |-> Maker("when", <<a, b>>), todo |-> When(a, b, n)] :
            a \in ds, b \in ds \cup {0}}

\* k deferreds, and one that waits for them.
InitWired(k) ==
  \E w \in Wirings(1 .. k, k + 1) :
    /\ lists = [l \in UNION {ListsOf(d) : d \in 1 .. k + 1} |-> NewLists(l[1])[l]]
    /\ state = [d \in 1 .. k + 1 |-> "pending"]
    /\ makers = Append([d \in 1 .. k |-> Maker("script", <<>>)], w.maker)
    /\ frames = <<[Script EXCEPT !.todo = w.todo]>>

\* User code has made no call yet.
InitCalls ==
  /\ got = <<>>
  /\ calls = 0
  /\ upset = {}

Init ==
  /\ InitCalls
  /\ \/ frames = <<Script>> /\ \E o \in ListOptions : InitPlain(o)
     \/ frames = <<Script>> /\ \E k \in MadeFirst : InitDeferreds(k)
     \/ \E k \in MadeFirst : InitWired(k)

Depth == Len(frames)
Top == frames[Depth]
Idle == frames = <<Script>>

\* List l becomes n; if that begins a loop, it runs on top of `under`.
Become(l, n, under) ==
  /\ lists' = [lists EXCEPT ![l] = n]
  /\ frames' = IF n.firing /\ ~lists[l].firing THEN Append(under, Loop(l)) ELSE under

-------------------------------------------------------------------------------
(* The code of jQuery makes the next of its calls.                         *)

DoState(c, under) ==
  /\ state' = [state EXCEPT ![c.on[1]] = c.to]
  /\ frames' = under
  /\ UNCHANGED <<lists, makers>>

DoOnList(c, under) ==
  /\ LET l == lists[c.on]
     IN  Become(c.on,
                CASE c.do = "add"     -> Add(l, c.cb)
                  [] c.do = "fire"    -> FireWith(l, c.data)
                  [] c.do = "remove"  -> Remove(l, c.cb)
                  [] c.do = "empty"   -> Empty(l)
                  [] c.do = "disable" -> Disable(l)
                  [] c.do = "lock"    -> Lock(l),
                under)
  /\ UNCHANGED <<state, makers>>

\* Master n, which is now m, is resolved if it waits for nothing.
ResolveIfNone(n, m, under) ==
  LET done == <<n, "done">>
  IN  /\ makers' = [makers EXCEPT ![n] = m]
      /\ IF m.remaining = 0 THEN Become(done, FireWith(lists[done], m.values), under)
         ELSE frames' = under /\ UNCHANGED lists
      /\ UNCHANGED state

\* updateFunc for the done list of argument i of n.
DoUpdate(n, i, data, under) ==
  ResolveIfNone(n, [makers[n] EXCEPT !.values[i] = data, !.remaining = @ - 1], under)

\* updateFunc for the progress list of argument i of n.
DoUpdateProgress(n, i, data, under) ==
  LET m == [makers[n] EXCEPT !.progress[i] = data]
      progress == <<n, "progress">>
  IN  /\ makers' = [makers EXCEPT ![n] = m]
      /\ Become(progress, FireWith(lists[progress], m.progress), under)
      /\ UNCHANGED state

DoCount(n, under) ==
  /\ makers' = [makers EXCEPT ![n].remaining = @ - 1]
  /\ frames' = under
  /\ UNCHANGED <<lists, state>>

Do ==
  /\ Top.todo # <<>>
  /\ LET c == Head(Top.todo)
         under == [frames EXCEPT ![Depth].todo = Tail(@)]
     IN  CASE c.do = "state" -> DoState(c, under)
           [] c.do = "update" -> DoUpdate(c.on[1], c.on[2], c.data, under)
           [] c.do = "updateProgress" -> DoUpdateProgress(c.on[1], c.on[2], c.data, under)
           [] c.do = "count" -> DoCount(c.on[1], under)
           [] c.do = "ifNone" -> ResolveIfNone(c.on[1], makers[c.on[1]], under)
           [] OTHER -> DoOnList(c, under)
  /\ UNCHANGED <<got, calls, upset>>

-------------------------------------------------------------------------------
(* The loop of the list that fires.                                        *)

AtLoop == Top.running = <<>>

CallNext ==
  /\ AtLoop
  /\ LET l == lists[Top.list]
         c == Current(l)
     IN  /\ InLoop(l) /\ ~Overrun(l)
         /\ frames' = [frames EXCEPT ![Depth].running = <<c>>, ![Depth].todo = Body(c, l.data)]
         /\ got' = IF c.do = "user" THEN [got EXCEPT ![c.on[1]].data = Append(@, l.data)] ELSE got
  /\ UNCHANGED <<lists, state, makers, calls, upset>>

\* The function given to then returns a promise, which its deferred n adopts, or
\* another value, with which n is resolved.  A promise that waits for n would
\* never settle it: such functions are left out.
ThenReturns(n) ==
  /\ \/ \E p \in 1 .. n - 1 :
          /\ frames' = [frames EXCEPT ![Depth].running = <<Forward(<<n, "done">>)>>,
                                      ![Depth].todo = Adopt(p, n)]
          /\ makers' = [makers EXCEPT ![n].of = <<p>>]
     \/ /\ frames' = [frames EXCEPT ![Depth].running = <<Forward(<<n, "done">>)>>,
                        ![Depth].todo = <<Fire(<<n, "done">>, lists[Top.list].data)>>]
        /\ UNCHANGED makers
  /\ UNCHANGED lists

Return ==
  /\ Depth > 1 /\ ~AtLoop /\ Top.todo = <<>>
  /\ LET c == Top.running[1]
     IN  \/ c.do = "then" /\ ThenReturns(c.on[1])
        \/ /\ c.do # "then"
           /\ \E false \in IF "stopOnFalse" \in lists[Top.list].options THEN BOOLEAN ELSE {FALSE} :
                lists' = [lists EXCEPT ![Top.list] = Returned(@, false)]
           /\ frames' = [frames EXCEPT ![Depth].running = <<>>]
           /\ UNCHANGED makers
  /\ UNCHANGED <<state, got, calls, upset>>

EndLoop ==
  /\ AtLoop
  /\ ~InLoop(lists[Top.list])
  /\ LET l == EndFire(lists[Top.list])
     IN  /\ lists' = [lists EXCEPT ![Top.list] = l]
         /\ frames' = IF l.firing THEN frames ELSE SubSeq(frames, 1, Depth - 1)
  /\ UNCHANGED <<state, makers, got, calls, upset>>

\* An exception leaves every loop under way as it is.
Unwind ==
  /\ frames' = <<Script>>
  /\ upset' = upset \cup {"thrown"}
  /\ UNCHANGED <<lists, state, makers, got, calls>>

\* list[ firingIndex ] of a list that was emptied is undefined.
FailOverrun == AtLoop /\ Overrun(lists[Top.list]) /\ Unwind

-------------------------------------------------------------------------------
(* User code: the script, or a callback, makes a call.                     *)

UserCode ==
  /\ ~AtLoop /\ Top.todo = <<>>
  /\ Top.running[1].do \in {"user", "then"}

Throw == MayThrow /\ UserCode /\ Depth > 1 /\ Unwind

\* User code has jQuery make these calls.
Asks(todo) ==
  /\ UserCode
  /\ calls < IF Plain \in DOMAIN lists THEN MaxPlainCalls ELSE MaxCalls
  /\ calls' = calls + 1
  /\ frames' = [frames EXCEPT ![Depth].todo = todo]

\* The next user callback is added to these lists.
AddsUser(on) ==
  /\ Asks([i \in DOMAIN on |-> AddTo(on[i], User(Len(got) + 1))])
  /\ got' = Append(got, [on |-> {on[i] : i \in DOMAIN on}, data |-> <<>>])
  /\ UNCHANGED <<lists, state, makers, upset>>

\* done, fail, progress and always of a promise; add of a plain list.
AddUser ==
  \/ \E l \in DOMAIN lists : AddsUser(<<l>>)
  \/ \E d \in Made : AddsUser(<<<<d, "done">>, <<d, "fail">>>>)

\* resolve, reject and notify of the script's deferreds; fire of a plain list.
FireList ==
  /\ \E l \in DOMAIN lists :
       /\ l # Plain => makers[l[1]].by = "script"
       /\ Asks(<<Fire(l, <<calls + 1>>)>>)
  /\ UNCHANGED <<lists, state, makers, got, upset>>

\* The other calls on a plain list; a callback may be added again.
UsePlain ==
  /\ Plain \in DOMAIN lists
  /\ \/ \E do \in {"disable", "lock"} : Asks(<<Call(do, Plain)>>) /\ UNCHANGED upset
     \/ /\ Asks(<<Call("empty", Plain)>>)
        /\ upset' = IF lists[Plain].firing THEN upset \cup {"emptied"} ELSE upset
     \/ /\ \E u \in DOMAIN got, do \in {"add", "remove"} :
             Asks(<<[do |-> do, on |-> Plain, cb |-> User(u)]>>)
        /\ UNCHANGED upset
  /\ UNCHANGED <<lists, state, makers, got>>

\* A new deferred that waits for others.
Make ==
  /\ Plain \notin DOMAIN lists /\ Len(state) < MaxDeferreds
  /\ \E w \in Wirings(Made, Len(state) + 1) :
       /\ Asks(w.todo)
       /\ makers' = Append(makers, w.maker)
  /\ state' = Append(state, "pending")
  /\ lists' = lists @@ NewLists(Len(state) + 1)
  /\ UNCHANGED <<got, upset>>

Jquery == Do \/ CallNext \/ Return \/ EndLoop \/ FailOverrun
Next == Jquery \/ Throw \/ AddUser \/ FireList \/ UsePlain \/ Make

Spec == Init /\ [][Next]_vars

-------------------------------------------------------------------------------
(* Properties.                                                             *)

\* The outcomes that the lists stand for which user callback u was added to.
WaitsFor(u) ==
  {<<l[1], IF l[2] = "done" THEN "resolved" ELSE "rejected">> :
     l \in {k \in got[u].on : k # Plain /\ k[2] # "progress"}}

\* Deferreds, however they are wired up and whatever callbacks do while others
\* are called, keep what module Outcomes promises.
Promised == INSTANCE Outcomes WITH
  outcome <- state,
  added <- [u \in DOMAIN got |-> WaitsFor(u)],
  called <- [u \in DOMAIN got |-> IF WaitsFor(u) = {} THEN 0 ELSE Len(got[u].data)]
KeepsOutcomes == Promised!Spec

\* No callback is forgotten: when the script and all it set off are done, every
\* callback that waited for what has happened, or was added after it had, was
\* called with its data.  Only an exception keeps one from being called.
NoneForgotten ==
  Idle /\ "thrown" \notin upset =>
    \A u \in DOMAIN got : \A on \in WaitsFor(u) :
      state[on[1]] = on[2] =>
        got[u].data = lists[<<on[1], Action(on[2])>>].memory

\* A deferred made by then or jQuery.when settles as soon as, and the way that,
\* those it waits for allow: then follows one promise, when waits for all to be
\* resolved or for one to be rejected.
SettlesWithOthers ==
  Idle /\ "thrown" \notin upset =>
    \A n \in Made :
      LET m == makers[n]
          others == {state[d] : d \in {m.of[i] : i \in DOMAIN m.of} \ {0}}
      IN  /\ m.by = "then" /\ others # {"rejected"} => others = {state[n]}
          /\ "rejected" \in others => state[n] = "rejected"
          /\ m.by = "when" /\ others = {"resolved"} =>
               /\ state[n] = "resolved"
               /\ \A i \in DOMAIN m.of : m.of[i] # 0 =>
                    m.values[i] = lists[<<m.of[i], "done">>].memory[1]

\* A plain list reaches the end of its loop only when every callback that is
\* still in it has been called with the data it is fired with, although callbacks
\* were added and removed meanwhile; or it was stopped.  (Not so when a callback
\* empties the list: empty leaves the loop's indexes as they were.)
NobodySkipped ==
  [][EndLoop =>
       LET l == lists[Top.list]
       IN  \A i \in DOMAIN l.list :
             Top.list = Plain /\ "emptied" \notin upset =>
               LET data == got[l.list[i].on[1]].data
               IN  \/ data # <<>> /\ data[Len(data)] = l.data
                   \/ "stopOnFalse" \in l.options /\ l.memory = <<>>]_vars

==============================================================================
