------------------------------- MODULE Effects -------------------------------
(***************************************************************************)
(* Queues and animations.  A link within a page scrolls html and body to   *)
(* its target by an animation and then puts the target into the address;   *)
(* clicks made meanwhile wait in the queue that each element has.  One     *)
(* interval drives all animations.  What follows an animation (its         *)
(* complete function) may itself start, stop and queue animations, while   *)
(* the loops that called it are still under way.                           *)
(*                                                                         *)
(* agenda is what the running code has still to do, the next thing first:  *)
(* a step takes it and puts in front what it consists of.                  *)
(***************************************************************************)
EXTENDS Integers, Sequences, FiniteSets, SequencesExt, FiniteSetsExt

CONSTANTS
  Elems,      \* the animated elements: 1 is html, 2 is body
  Targets,    \* what links point to, numbers from 1; 0 is an element that does not exist
  ScriptCalls, \* what scripts call: see Call
  MaxCalls    \* bound: calls, clicks included

ASSUME ElemsAssumption == Cardinality(Elems) \in Nat \ {0} /\ Elems = 1 .. Cardinality(Elems)
ASSUME CallsAssumption == MaxCalls \in Nat /\ Targets \subseteq Nat

LinkDuration == 1 \* 750 ms: it does not end at once
MaxLag == 1       \* bound: how many intervals fxNow may be old

VARIABLES
  queue,     \* queue[e]: stored or not, and its items
  hooks,     \* hooks[e]: jQuery._queueHooks of e, if there is one
  anims,     \* the animations made
  finishOf,  \* finishOf[c]: the animation that finish of call c's function stops, or 0
  timers,    \* jQuery.timers: numbers of animations
  interval,  \* whether the interval runs
  lag,       \* how long ago fxNow was set, or -1: it is undefined
  resets,    \* how many time-outs to reset fxNow are pending
  delays,    \* delays[e]: how many time-outs of delay are pending
  finishing, \* the elements whose data has the finish flag
  promises,  \* the promises given: how many queues each waits for
  agenda, result, \* what is to be done; what the last timer function returned
  calls, \* how many calls were made
  ended,     \* ended[e]: the calls whose queued animations of e were completed, in order
  position, hash, last, \* where e is scrolled to; the address; the last link clicked
  meddled    \* what scripts did besides: "script" anything, "hurried" a queue on, left
             \* one "stranded"

fx == <<queue, hooks, anims, finishOf, timers, interval, lag, resets, delays, finishing, promises>>
page == <<position, hash, last, meddled>>
vars == <<fx, agenda, result, calls, ended, page>>

\* An item: an animation to a target made by call number c, or a delay.  The
\* sentinel stands for the one that is under way.
Anim(c, target, duration, queued) ==
  [kind |-> "anim", call |-> c, target |-> target, duration |-> duration, queued |-> queued]
Delay == [kind |-> "delay", call |-> 0, target |-> 0, duration |-> 0, queued |-> TRUE]
InProgress == [kind |-> "inprogress", call |-> 0, target |-> 0, duration |-> 0, queued |-> TRUE]
None == [kind |-> "none", call |-> 0, target |-> 0, duration |-> 0, queued |-> TRUE]

NoQueue == [stored |-> FALSE, items |-> <<>>]
NoHooks == [stored |-> FALSE, cur |-> None, stop |-> FALSE, unqueued |-> 0, waits |-> <<>>]
NewHooks == [NoHooks EXCEPT !.stored = TRUE]
HooksOf(e) == IF hooks[e].stored THEN hooks[e] ELSE NewHooks

\* A thing to do: with element e, item or animation, at place i of a loop.
Do(what, e, item, a, i, flag) ==
  [do |-> what, e |-> e, item |-> item, a |-> a, i |-> i, flag |-> flag]
OnElem(what, e) == Do(what, e, None, 0, 0, FALSE)
OnItem(what, e, item) == Do(what, e, item, 0, 0, FALSE)
OnAnim(what, a, flag) == Do(what, 0, None, a, 0, flag)
\* The i-th of some elements, in the order of the document, and a thing to do for each.
Nth(es, i) == CHOOSE e \in es : Cardinality({f \in es : f <= e}) = i
ForElems(es, F(_)) == [i \in 1 .. Cardinality(es) |-> F(Nth(es, i))]

Doing(what) == agenda # <<>> /\ Head(agenda).do = what
Now == Head(agenda)
Then(things) == agenda' = things \o Tail(agenda)
Idle == agenda = <<>>

-------------------------------------------------------------------------------
(* Queues.                                                                 *)

\* jQuery.queue: an item joins what is stored, an empty array replaces it.
Stored(items) == IF Doing("clear") THEN <<>> ELSE Append(items, Now.item)

\* jQuery.fn.queue for one element: it goes on if nothing is under way.  What was
\* under way is forgotten with a queue that is replaced.
Enqueue ==
  /\ Doing("queue") \/ Doing("clear")
  /\ LET e == Now.e
         items == Stored(queue[e].items)
     IN  /\ queue' = [queue EXCEPT ![e] = [stored |-> TRUE, items |-> items]]
         /\ hooks' = [hooks EXCEPT ![e] = HooksOf(e)]
         /\ Then(IF items # <<>> /\ items[1] = InProgress THEN <<>> ELSE <<OnElem("dequeue", e)>>)
  /\ UNCHANGED <<anims, finishOf, timers, interval, lag, resets, delays, finishing, promises,
                 result, calls, ended, page>>

\* Mutant: the sentinel is not put back.
UnderWay_Unmarked(items) == items

\* The sentinel keeps what joins the queue from being started.
UnderWay(items) == <<InProgress>> \o items

\* jQuery.dequeue: the next item, if any, takes the place of the sentinel.
Dequeue ==
  /\ Doing("dequeue")
  /\ LET e == Now.e
         items == queue[e].items
         left == IF items # <<>> /\ items[1] = InProgress THEN Tail(items) ELSE items
         fn == IF left = <<>> THEN None ELSE Head(left)
     IN  IF fn = None
         THEN /\ queue' = [queue EXCEPT ![e].items = <<>>]
              /\ hooks' = [hooks EXCEPT ![e] = [HooksOf(e) EXCEPT !.cur = None]]
              /\ Then(<<OnElem("empty", e)>>)
         ELSE /\ queue' = [queue EXCEPT ![e].items = UnderWay(Tail(left))]
              /\ hooks' = [hooks EXCEPT ![e] = [HooksOf(e) EXCEPT !.cur = fn, !.stop = FALSE]]
              /\ Then(<<OnItem("run", e, fn)>>)
  /\ UNCHANGED <<anims, finishOf, timers, interval, lag, resets, delays, finishing, promises,
                 result, calls, ended, page>>

\* hooks.empty.fire: what is known of the queue goes, and promises wait for it no
\* more.  It is put off while animations run outside the queue.
EmptyFires ==
  /\ Doing("empty")
  /\ LET e == Now.e
     IN  IF hooks[e].stored /\ hooks[e].unqueued = 0
         THEN /\ promises' = [p \in DOMAIN promises |->
                                promises[p] - Cardinality({i \in DOMAIN hooks[e].waits : hooks[e].waits[i] = p})]
              /\ queue' = [queue EXCEPT ![e] = NoQueue]
              /\ hooks' = [hooks EXCEPT ![e] = NoHooks]
         ELSE UNCHANGED <<promises, queue, hooks>>
  /\ Then(<<>>)
  /\ UNCHANGED <<anims, finishOf, timers, interval, lag, resets, delays, finishing,
                 result, calls, ended, page>>

\* An item is called: an animation, or the function of delay.
RunDelay ==
  /\ Doing("run") /\ Now.item.kind = "delay"
  /\ delays' = [delays EXCEPT ![Now.e] = @ + 1]
  /\ hooks' = [hooks EXCEPT ![Now.e].stop = TRUE]
  /\ Then(<<>>)
  /\ UNCHANGED <<queue, anims, finishOf, timers, interval, lag, resets, finishing, promises,
                 result, calls, ended, page>>

-------------------------------------------------------------------------------
(* Animations.                                                             *)

\* Reading the time sets fxNow for the rest of this task.
ReadTime == /\ lag' = IF lag = -1 THEN 0 ELSE lag
            /\ resets' = IF lag = -1 THEN resets + 1 ELSE resets

\* doAnimation, Animation and its prefilter: outside the queue it is counted.
RunAnimation ==
  /\ Doing("run") /\ Now.item.kind = "anim"
  /\ LET e == Now.e
         item == Now.item
         a == Len(anims) + 1
     IN  /\ ReadTime
         /\ anims' = Append(anims, [elem |-> e, item |-> item, age |-> lag', stopped |-> FALSE,
                                    attached |-> FALSE, state |-> "pending"])
         /\ hooks' = IF item.queued THEN hooks
                     ELSE [hooks EXCEPT ![e] = [HooksOf(e) EXCEPT !.unqueued = @ + 1]]
         /\ Then(<<OnAnim("tick", a, FALSE), OnAnim("push", a, FALSE), OnAnim("attach", a, FALSE),
                   OnAnim("made", a, FALSE)>>)
  /\ UNCHANGED <<queue, finishOf, timers, interval, delays, finishing, promises,
                 result, calls, ended, page>>

\* Tween.run: before the end the position is somewhere between.
ScrollTo(a, where) == position' = [position EXCEPT ![anims[a].elem] = where]
Between(a) == ScrollTo(a, 0)

\* Mutant: there is no last frame.
AtEnd_Between(a) == Between(a)

AtEnd(a) == ScrollTo(a, anims[a].item.target)

\* The timer function of an animation: one frame, or the last one.
Tick ==
  /\ Doing("tick")
  /\ LET a == Now.a
         over == anims[a].age - lag' >= anims[a].item.duration
     IN  IF anims[a].stopped
         THEN result' = FALSE /\ Then(<<>>) /\ UNCHANGED <<lag, resets, position>>
         ELSE /\ ReadTime
              /\ IF over THEN /\ AtEnd(a) /\ UNCHANGED result
                              /\ Then(<<OnAnim("settle", a, TRUE), OnAnim("return", a, FALSE)>>)
                 ELSE Between(a) /\ result' = TRUE /\ Then(<<>>)
  /\ UNCHANGED <<queue, hooks, anims, finishOf, timers, interval, delays, finishing, promises,
                 calls, ended, hash, last, meddled>>

TickReturns ==
  /\ Doing("return") /\ result' = FALSE /\ Then(<<>>)
  /\ UNCHANGED <<fx, calls, ended, page>>

\* fx.timer: an animation that is not over is put on the list.
PushTimer ==
  /\ Doing("push")
  /\ IF result THEN timers' = Append(timers, Now.a) /\ interval' = TRUE
     ELSE UNCHANGED <<timers, interval>>
  /\ Then(<<>>)
  /\ UNCHANGED <<queue, hooks, anims, finishOf, lag, resets, delays, finishing, promises,
                 result, calls, ended, page>>

\* What the outcome of an animation leads to: its complete function, if it has been
\* attached, and for one outside the queue that it is counted no more.
After(a, attached, state) ==
  (IF attached /\ state = "resolved" THEN <<OnAnim("complete", a, FALSE)>> ELSE <<>>)
Uncount(a) == IF anims[a].item.queued THEN <<>> ELSE <<OnAnim("uncount", a, FALSE)>>

\* Bound: the age from which an animation is over whatever fxNow is.
Over(a) == anims[a].item.duration + MaxLag

\* deferred.resolveWith (flag) and rejectWith.
Settle ==
  /\ Doing("settle")
  /\ LET a == Now.a
         state == IF Now.flag THEN "resolved" ELSE "rejected"
     IN  IF anims[a].state # "pending" THEN Then(<<>>) /\ UNCHANGED anims
         ELSE /\ anims' = [anims EXCEPT ![a].state = state, ![a].age = Over(a)]
              /\ Then(After(a, anims[a].attached, state) \o Uncount(a))
  /\ UNCHANGED <<queue, hooks, finishOf, timers, interval, lag, resets, delays, finishing, promises,
                 result, calls, ended, page>>

\* .done( animation.opts.complete ): called at once if the animation is over already.
Attach ==
  /\ Doing("attach")
  /\ anims' = [anims EXCEPT ![Now.a].attached = TRUE]
  /\ Then(After(Now.a, TRUE, anims[Now.a].state))
  /\ UNCHANGED <<queue, hooks, finishOf, timers, interval, lag, resets, delays, finishing, promises,
                 result, calls, ended, page>>

\* The rest of doAnimation: under the finish flag the animation ends at once.
Made ==
  /\ Doing("made")
  /\ LET anim == anims[Now.a]
     IN  /\ finishOf' = [finishOf EXCEPT ![anim.item.call] = Now.a]
         /\ Then(IF anim.elem \in finishing THEN <<OnAnim("stop", Now.a, TRUE)>> ELSE <<>>)
  /\ UNCHANGED <<queue, hooks, anims, timers, interval, lag, resets, delays, finishing, promises,
                 result, calls, ended, page>>

\* opt.complete of jQuery.speed: the script's function, then the queue goes on.  That
\* of a link puts the target into the address.
Complete ==
  /\ Doing("complete")
  /\ LET e == anims[Now.a].elem
         item == anims[Now.a].item
     IN  /\ hash' = IF item.target # 0 THEN item.target ELSE hash
         /\ ended' = IF item.queued THEN [ended EXCEPT ![e] = Append(@, item.call)] ELSE ended
         /\ Then(<<OnElem("callback", e)>> \o (IF item.queued THEN <<OnElem("dequeue", e)>> ELSE <<>>))
  /\ UNCHANGED <<fx, result, calls, position, last, meddled>>

\* The inner always of the prefilter.
Uncounted ==
  /\ Doing("uncount")
  /\ LET e == anims[Now.a].elem
     IN  /\ hooks' = IF hooks[e].stored /\ hooks[e].unqueued > 0
                     THEN [hooks EXCEPT ![e].unqueued = @ - 1] ELSE hooks
         /\ Then(IF queue[e].items = <<>> THEN <<OnElem("empty", e)>> ELSE <<>>)
  /\ UNCHANGED <<queue, anims, finishOf, timers, interval, lag, resets, delays, finishing, promises,
                 result, calls, ended, page>>

\* animation.stop; with flag it goes to the end first.
StopAnimation ==
  /\ Doing("stop")
  /\ IF anims[Now.a].stopped THEN Then(<<>>) /\ UNCHANGED <<anims, position>>
     ELSE /\ anims' = [anims EXCEPT ![Now.a].stopped = TRUE]
          /\ IF Now.flag THEN AtEnd(Now.a) ELSE UNCHANGED position
          /\ Then(<<OnAnim("settle", Now.a, Now.flag)>>)
  /\ UNCHANGED <<queue, hooks, finishOf, timers, interval, lag, resets, delays, finishing, promises,
                 result, calls, ended, hash, last, meddled>>
-------------------------------------------------------------------------------
(* The interval.                                                           *)

\* Mutant: whatever is at its place by now is taken off the list.
StillThere_Unchecked(a, i) == i \in DOMAIN timers

\* timers[ i ] === timer.
StillThere(a, i) == i \in DOMAIN timers /\ timers[i] = a

\* jQuery.fx.tick: every timer is called, and removed if it is over.
Frame ==
  /\ Doing("frame")
  /\ IF Now.i > Len(timers)
     THEN interval' = (timers # <<>>) /\ lag' = -1 /\ Then(<<>>)
     ELSE /\ Then(<<OnAnim("tick", timers[Now.i], FALSE),
                    Do("after", 0, None, timers[Now.i], Now.i, FALSE)>>)
          /\ UNCHANGED <<interval, lag>>
  /\ UNCHANGED <<queue, hooks, anims, finishOf, timers, resets, delays, finishing, promises,
                 result, calls, ended, page>>

AfterTimer ==
  /\ Doing("after")
  /\ LET gone == ~result /\ StillThere(Now.a, Now.i)
     IN  /\ timers' = IF gone THEN RemoveAt(timers, Now.i) ELSE timers
         /\ Then(<<Do("frame", 0, None, 0, IF gone THEN Now.i ELSE Now.i + 1, FALSE)>>)
  /\ UNCHANGED <<queue, hooks, anims, finishOf, interval, lag, resets, delays, finishing, promises,
                 result, calls, ended, page>>

-------------------------------------------------------------------------------
(* stop and finish.                                                        *)

\* The last of the first i timers that is e's.  A timer has lost its element when its
\* animation is settled.
LastOf(e, i, onlyQueued) ==
  Max({0} \cup {j \in 1 .. i : /\ anims[timers[j]].elem = e /\ anims[timers[j]].state = "pending"
                               /\ onlyQueued => anims[timers[j]].item.queued})

\* stop for one element: the time-out of its delay first.  If an animation outside the
\* queue is then stopped to its end, nothing will make the queue go on.
Stop ==
  /\ Doing("stopping")
  /\ LET e == Now.e
     IN  /\ delays' = IF hooks[e].stop THEN [delays EXCEPT ![e] = @ - 1] ELSE delays
         /\ hooks' = [hooks EXCEPT ![e].stop = FALSE]
         /\ meddled' = IF hooks[e].stop /\ Now.flag /\ LastOf(e, Len(timers), FALSE) > 0
                       THEN meddled \cup {"stranded"} ELSE meddled
         /\ Then(<<Do("stoploop", e, None, 0, Len(timers), Now.flag)>>)
  /\ UNCHANGED <<queue, anims, finishOf, timers, interval, lag, resets, finishing, promises,
                 result, calls, ended, position, hash, last>>

\* Mutant: only where no timer was stopped.
GoesOn_IfNoTimer(stopped, gotoEnd) == ~stopped

\* Whether stop makes the queue go on: complete functions do only at an end.
GoesOn(stopped, gotoEnd) == ~stopped \/ ~gotoEnd

\* Then its timers from the last to the first.  a tells whether there was one.
StopLoop ==
  /\ Doing("stoploop")
  /\ LET e == Now.e
         i == LastOf(e, Now.i, FALSE)
     IN  Then(IF i > 0
              THEN <<OnAnim("stop", timers[i], Now.flag), Do("splice", 0, None, 0, i, FALSE),
                     Do("stoploop", e, None, 1, i - 1, Now.flag)>>
              ELSE IF GoesOn(Now.a = 1, Now.flag) THEN <<OnElem("dequeue", e)>> ELSE <<>>)
  /\ UNCHANGED <<fx, result, calls, ended, page>>

Splice ==
  /\ Doing("splice")
  /\ timers' = RemoveAt(timers, Now.i)
  /\ Then(<<>>)
  /\ UNCHANGED <<queue, hooks, anims, finishOf, interval, lag, resets, delays, finishing, promises,
                 result, calls, ended, page>>

\* finish for one element: what is under way, then what runs, then what waits.  The
\* queue is emptied without the sentinel and without its empty callbacks.
Finish ==
  /\ Doing("finish")
  /\ LET e == Now.e
         Items(items) == [i \in DOMAIN items |-> OnItem("finishitem", e, items[i])]
         current == IF hooks[e].stored THEN <<hooks[e].cur>> ELSE <<>>
         IsAnim(item) == item.kind = "anim"
     IN  /\ finishing' = finishing \cup {e}
         /\ queue' = [queue EXCEPT ![e] = [stored |-> TRUE, items |-> <<>>]]
         /\ Then(Items(SelectSeq(current, IsAnim)) \o <<Do("finishloop", e, None, 0, Len(timers), TRUE)>>
                 \o Items(SelectSeq(queue[e].items, IsAnim)) \o <<OnElem("finished", e)>>)
  /\ UNCHANGED <<hooks, anims, finishOf, timers, interval, lag, resets, delays, promises,
                 result, calls, ended, page>>

FinishLoop ==
  /\ Doing("finishloop")
  /\ LET i == LastOf(Now.e, Now.i, TRUE)
     IN  Then(IF i = 0 THEN <<>>
              ELSE <<OnAnim("stop", timers[i], TRUE), Do("splice", 0, None, 0, i, FALSE),
                     Do("finishloop", Now.e, None, 0, i - 1, TRUE)>>)
  /\ UNCHANGED <<fx, result, calls, ended, page>>

\* doAnimation.finish: doAnimation itself until it has run, for whichever element.
FinishItem ==
  /\ Doing("finishitem")
  /\ LET a == finishOf[Now.item.call]
     IN  Then(<<IF a = 0 THEN OnItem("run", Now.e, Now.item) ELSE OnAnim("stop", a, TRUE)>>)
  /\ UNCHANGED <<fx, result, calls, ended, page>>

Finished ==
  /\ Doing("finished")
  /\ finishing' = finishing \ {Now.e}
  /\ Then(<<>>)
  /\ UNCHANGED <<queue, hooks, anims, finishOf, timers, interval, lag, resets, delays, promises,
                 result, calls, ended, page>>

\* promise: it waits for every element that has something going on.
Promise ==
  /\ Doing("promise")
  /\ LET p == Len(promises) + 1
         busy == {e \in Elems : hooks[e].stored}
     IN  /\ promises' = Append(promises, Cardinality(busy))
         /\ hooks' = [e \in Elems |-> IF e \in busy THEN [hooks[e] EXCEPT !.waits = Append(@, p)] ELSE hooks[e]]
  /\ Then(<<>>)
  /\ UNCHANGED <<queue, anims, finishOf, timers, interval, lag, resets, delays, finishing,
                 result, calls, ended, page>>

-------------------------------------------------------------------------------
(* Calls, by the page's links and by scripts.                              *)

\* What a call with number n consists of.
Things(c, n) ==
  LET item == IF c.call = "delay" THEN Delay ELSE Anim(n, 0, c.duration, c.queued)
      Queue(e) == OnItem(IF item.queued THEN "queue" ELSE "run", e, item)
      Clear(e) == OnElem("clear", e)
      StopAt(e) == Do("stopping", e, None, 0, 0, c.gotoEnd)
      FinishAt(e) == OnElem("finish", e)
  IN  CASE c.call \in {"animate", "delay"} -> ForElems(c.elems, Queue)
        [] c.call = "clear" -> ForElems(c.elems, Clear)
        [] c.call = "stop" -> (IF c.clear THEN ForElems(c.elems, Clear) ELSE <<>>) \o ForElems(c.elems, StopAt)
        [] c.call = "finish" -> ForElems(c.elems, FinishAt)
        [] c.call = "promise" -> <<OnElem("promise", 0)>>

\* Whether a call makes a queue go on although what is under way will do so as well:
\* an animation that still goes on or is completed by the call, a delay whose time-out
\* stays, an animation whose complete function makes the call.
Hurries(c) ==
  /\ c.call \in {"clear", "finish", "stop"}
  /\ \E e \in c.elems :
       \/ \E i \in DOMAIN agenda : agenda[i] = OnElem("dequeue", e)
       \/ /\ c.call = "stop" => c.clear
          /\ delays[e] > 0 \/ (hooks[e].cur.kind = "anim" /\ (c.call = "stop" => c.gotoEnd))

ScriptCall(c, rest) ==
  /\ calls < MaxCalls
  /\ calls' = calls + 1
  /\ agenda' = Things(c, calls') \o rest
  /\ meddled' = meddled \cup (IF c.call = "promise" THEN {} ELSE {"script"})
                        \cup (IF Hurries(c) THEN {"hurried"} ELSE {})
  /\ UNCHANGED <<fx, result, ended, position, hash, last>>

\* A script's complete function may call, but neither stop nor finish from within one
\* of them: their loops do not look whether the list has changed.
Stopping == \E i \in DOMAIN agenda : agenda[i].do \in {"stoploop", "finishloop"}
Callback ==
  /\ Doing("callback")
  /\ \/ Then(<<>>) /\ UNCHANGED <<fx, result, calls, ended, page>>
     \/ \E c \in ScriptCalls :
          /\ c.call \in {"stop", "finish"} => ~Stopping
          /\ ScriptCall(c, Tail(agenda))

Script == /\ Idle
          /\ \E c \in ScriptCalls : ScriptCall(c, <<>>)

\* A click on a link within the page.  Without its target, offset() is undefined: the
\* handler throws and, the default action being prevented, nothing happens.
LinkClick ==
  /\ Idle /\ calls < MaxCalls
  /\ calls' = calls + 1
  /\ \E t \in Targets :
       LET Scroll(e) == OnItem("queue", e, Anim(calls', t, LinkDuration, TRUE))
       IN  /\ agenda' = IF t = 0 THEN <<>> ELSE ForElems(Elems, Scroll)
           /\ last' = IF t = 0 THEN last ELSE t
  /\ UNCHANGED <<fx, result, ended, position, hash, meddled>>

-------------------------------------------------------------------------------
(* What the browser calls by itself.                                       *)

\* setInterval( jQuery.fx.tick ).
IntervalTick ==
  /\ Idle /\ interval
  /\ agenda' = <<Do("frame", 0, None, 0, 1, FALSE)>>
  /\ lag' = 0
  /\ UNCHANGED <<queue, hooks, anims, finishOf, timers, interval, resets, delays, finishing, promises,
                 result, calls, ended, page>>

\* setTimeout( next, time ) of delay: the one that hooks.stop would clear, or one that
\* stayed when its queue was emptied.
DelayOver ==
  /\ Idle
  /\ \E e \in Elems, own \in BOOLEAN :
       /\ IF own THEN hooks[e].stop ELSE delays[e] > (IF hooks[e].stop THEN 1 ELSE 0)
       /\ delays' = [delays EXCEPT ![e] = @ - 1]
       /\ hooks' = IF own THEN [hooks EXCEPT ![e].stop = FALSE] ELSE hooks
       /\ agenda' = <<OnElem("dequeue", e)>>
  /\ UNCHANGED <<queue, anims, finishOf, timers, interval, lag, resets, finishing, promises,
                 result, calls, ended, page>>

\* The time-out of createFxNow.
ResetTime ==
  /\ Idle /\ resets > 0
  /\ resets' = resets - 1
  /\ lag' = -1
  /\ UNCHANGED <<queue, hooks, anims, finishOf, timers, interval, delays, finishing, promises,
                 agenda, result, calls, ended, page>>

\* An interval's time goes by: animations are older, and so is fxNow.
TimePasses ==
  /\ Idle /\ lag < MaxLag
  /\ \E a \in DOMAIN anims : anims[a].state = "pending" /\ anims[a].age < Over(a)
  /\ anims' = [a \in DOMAIN anims |-> IF anims[a].state = "pending" /\ anims[a].age < Over(a)
                                      THEN [anims[a] EXCEPT !.age = @ + 1] ELSE anims[a]]
  /\ lag' = IF lag = -1 THEN lag ELSE lag + 1
  /\ UNCHANGED <<queue, hooks, finishOf, timers, interval, resets, delays, finishing, promises,
                 agenda, result, calls, ended, page>>

Init ==
  /\ queue = [e \in Elems |-> NoQueue]
  /\ hooks = [e \in Elems |-> NoHooks]
  /\ anims = <<>>
  /\ finishOf = [c \in 1 .. MaxCalls |-> 0]
  /\ timers = <<>> /\ interval = FALSE
  /\ lag = -1 /\ resets = 0
  /\ delays = [e \in Elems |-> 0]
  /\ finishing = {} /\ promises = <<>>
  /\ agenda = <<>> /\ result = FALSE /\ calls = 0
  /\ ended = [e \in Elems |-> <<>>]
  /\ position = [e \in Elems |-> 0] /\ hash = 0 /\ last = 0 /\ meddled = {}

Jquery ==
  \/ Enqueue \/ Dequeue \/ EmptyFires \/ RunDelay \/ RunAnimation \/ Tick \/ TickReturns \/ PushTimer
  \/ Settle \/ Attach \/ Made \/ Complete \/ Uncounted \/ StopAnimation \/ Frame \/ AfterTimer
  \/ Stop \/ StopLoop \/ Splice \/ Finish \/ FinishLoop \/ FinishItem \/ Finished \/ Promise \/ Callback

Browser == IntervalTick \/ DelayOver \/ ResetTime \/ TimePasses

Next == Jquery \/ Browser \/ Script \/ LinkClick

Spec == Init /\ [][Next]_vars

\* What runs goes on, time passes, and the browser calls what is due.
FairSpec ==
  Spec /\ WF_vars(Jquery) /\ WF_vars(IntervalTick) /\ WF_vars(DelayOver)
       /\ WF_vars(ResetTime) /\ SF_vars(TimePasses)

-------------------------------------------------------------------------------
(* Properties.                                                             *)

\* A queue never hangs, except for the one way to strand it (Stop).  Whenever no code
\* runs, what a queue holds is behind the sentinel of something that will go on with it,
\* an animation of the queue that is on the list of timers or a delay; timers have the
\* interval; and with neither, every promise is kept and no element is left finishing.
QueueGoesOn ==
  (Idle /\ "stranded" \notin meddled) =>
    /\ \A e \in Elems :
         queue[e].items # <<>> => /\ queue[e].items[1] = InProgress
                                  /\ LastOf(e, Len(timers), TRUE) > 0 \/ delays[e] > 0
    /\ timers # <<>> => interval
    /\ finishing = {}
    /\ (timers = <<>> /\ \A e \in Elems : delays[e] = 0) => \A p \in DOMAIN promises : promises[p] = 0

\* The queue is for that: an element's queued animations run one after another and are
\* completed in the order of the calls, whatever is stopped, unless a script hurried a
\* queue on that what is under way makes go on too.
OneAtATime ==
  "hurried" \notin meddled =>
    \A e \in Elems :
      /\ Idle => Cardinality({i \in DOMAIN timers : /\ anims[timers[i]].elem = e /\ anims[timers[i]].item.queued
                                                    /\ anims[timers[i]].state = "pending"})
                 + delays[e] <= 1
      /\ \A i, j \in DOMAIN ended[e] : i < j => ended[e][i] <= ended[e][j]

\* The links of the pages: when all has come to rest, the page is where the last link
\* that was clicked leads and its address says so, on all animated elements.
ScrollsToLastClicked ==
  (Idle /\ meddled = {} /\ timers = <<>> /\ last # 0) =>
    hash = last /\ \A e \in Elems : position[e] = last

\* Every animation is settled, and every queue that was not stranded gets empty.
AnimationsEnd ==
  []<>(timers = <<>> /\ ("stranded" \in meddled \/ \A e \in Elems : queue[e].items = <<>>))

===============================================================================
