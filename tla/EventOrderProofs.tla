--------------------------- MODULE EventOrderProofs ---------------------------
(*****************************************************************************)
(* Which handlers Events calls, for any handlers, triggers and bounds and for*)
(* nestings of any depth: from the inside out until one stops the event, none*)
(* twice for one event and node, and one bound with one not again by a later *)
(* event.                                                                    *)
(*                                                                           *)
(* OrderInv adds to SafetyInv how the stack agrees with the calls made so    *)
(* far: the stops a walk still has to make are further out than the handlers *)
(* that its event called (WalkOrder), those left in a dispatch come after    *)
(* them and know who stopped the event (DispatchOrder), a handler on top made*)
(* the last call for its event (CallOrder), and the walk of a click() that   *)
(* trigger calls runs none (Muted).                                          *)
(*                                                                           *)
(* OnceInv adds that what is still to be called was not called: no handler   *)
(* kept where a walk has still to stop (WalkOnce), none in the queue of a    *)
(* dispatch (QueuedOnce).  A handler bound with one that was called is kept  *)
(* nowhere, and is queued only in dispatches of the event it was called for  *)
(* and of those around it (OnesSpent, QueuedOnce).                           *)
(*****************************************************************************)
EXTENDS EventProofs

----------
(* The order in which handlers are called.                                  *)

\* The walk of the click() that trigger calls, in which the listeners discard the event.
Muted(fs, i) ==
  /\ i > 1 /\ fs[i].frame = "native" /\ fs[i].ev.type = "click"
  /\ fs[i - 1].frame = "trigger" /\ fs[i - 1].method

\* All stops of the path are for a click, and none is for the focus.
Quiet(p) == \A k \in 1 .. Len(p) : p[k].type = "click" /\ p[k].how # "capture"

\* Only the last frame is such a walk, while jQuery.event.triggered is click, and it has only
\* stops for clicks to make.
MutedOk(fs, tr) == \A i \in 1 .. Len(fs) : Muted(fs, i) => i = Len(fs) /\ tr = "click" /\ Quiet(fs[i].path)

\* The calls of handlers for an event.
Heard(rn, root) == {x \in 1 .. Len(rn) : rn[x].root = root /\ rn[x].hid # 0}

\* A handler at node n may come before one at m; at the same node only at the target.
Upto(n, m, target) == n <= m /\ (n = m => n = target)

\* The walk is over, or at a stop before which it looks whether its event was stopped.
Early(p) == p = <<>> \/ p[1].first

\* Walk f: who stopped its event stopped the walk, and its next stops are further out.
WalkOrder(f, rn) ==
  /\ f.frame = "native" /\ f.ev.stopped => Early(f.path)
  /\ \A x \in Heard(rn, f.ev.root) :
       /\ rn[x].ends # "no" => f.ev.stopped
       /\ \A k \in 1 .. Len(f.path) : f.path[k].how = "handlers" => Upto(rn[x].node, f.path[k].node, f.ev.target)

\* The event that dispatch d of walk f is about.
EventAt(f, d) == IF f.frame = "native" THEN d.ev ELSE f.ev

\* Dispatch d of walk f: the handlers in its queue come after those that were called.
DispatchOrder(f, d, rn) ==
  /\ f.frame = "native" => Early(f.path)
  /\ \A k \in 1 .. Len(f.path) : f.path[k].how = "handlers" => Upto(d.node, f.path[k].node, f.ev.target)
  /\ \A x \in Heard(rn, f.ev.root) :
       /\ rn[x].node <= d.node
       /\ rn[x].node = d.node => \A k \in 1 .. Len(d.queue) : rn[x].elem <= d.queue[k].elem
       /\ rn[x].ends # "no" => EventAt(f, d).stopped /\ rn[x].node = d.node /\ rn[x].elem = d.elem
       /\ rn[x].ends = "all" => EventAt(f, d).immediate

\* A handler on dispatch d of walk f: its call is the last one for the event.
CallOrder(f, d, u, rn) ==
  /\ u.call \in Heard(rn, f.ev.root)
  /\ rn[u.call].node = d.node /\ rn[u.call].elem = d.elem
  /\ \A y \in 1 .. Len(rn) : u.call < y => rn[y].root # f.ev.root

\* What holds of frame i: it agrees with the calls made for its event so far.
OrderAt(fs, rn, i) ==
  /\ Active(fs[i]) /\ ~Muted(fs, i) => WalkOrder(fs[i], rn)
  /\ fs[i].frame = "dispatch" => DispatchOrder(fs[i - 1], fs[i], rn)
  /\ fs[i].frame = "user" /\ fs[i].call # 0 => CallOrder(fs[i - 2], fs[i - 1], fs[i], rn)

\* Every frame of the stack agrees with the calls.
Orderly(fs, rn) == \A i \in 1 .. Len(fs) : OrderAt(fs, rn, i)

\* Calls of events that began, for nodes no further out than the listener's.
Past(rn, b) == \A x \in 1 .. Len(rn) : rn[x].root \in 1 .. b /\ rn[x].elem <= rn[x].node

\* Calls x and y for one event are in order.
InOrder(x, y) ==
  x.root = y.root /\ 0 \notin {x.hid, y.hid} =>
    /\ x.node <= y.node
    /\ x.node = y.node => x.elem <= y.elem
    /\ x.ends # "all"
    /\ x.ends = "node" => y.node = x.node /\ y.elem = x.elem

\* All calls are in order.
AllInOrder(rn) == \A x, y \in 1 .. Len(rn) : x < y => InOrder(rn[x], rn[y])

\* The frames fs and the calls rn are in order, when b events began and jQuery.event.triggered is tr.
OrderOk(fs, rn, b, tr) == MutedOk(fs, tr) /\ Orderly(fs, rn) /\ Past(rn, b) /\ AllInOrder(rn)

\* The stack agrees with the calls made, and these are in order.
Ordered == OrderOk(frames, ran, begun, triggered)

\* The inductive invariant for the order of calls.
OrderInv == SafetyInv /\ Ordered

\* The calls that Heard is about.
LEMMA HeardIs ==
  ASSUME NEW rn, NEW root
  PROVE  \A x : x \in Heard(rn, root) <=> x \in 1 .. Len(rn) /\ rn[x].root = root /\ rn[x].hid # 0
BY DEF Heard

\* What is said of a frame depends on it and the two below.
LEMMA OrderLocal ==
  ASSUME NEW s, NEW r, NEW k \in Nat, NEW i \in 1 .. k, \A j \in 1 .. k : r[j] = s[j] /\ FrameOk(s, j),
         NEW rn, OrderAt(s, rn, i)
  PROVE  OrderAt(r, rn, i)
<1>1. r[i] = s[i] /\ (i > 1 => i - 1 \in 1 .. k /\ r[i - 1] = s[i - 1])
  OBVIOUS
<1>2. Muted(r, i) <=> Muted(s, i)
  BY <1>1 DEF Muted
<1>3. ASSUME s[i].frame = "dispatch" PROVE i > 1
  BY <1>3 DEF FrameOk
<1>4. ASSUME s[i].frame = "user", s[i].call # 0 PROVE i > 1 /\ i - 2 \in 1 .. k /\ r[i - 2] = s[i - 2]
  <2>1. i > 1 /\ s[i - 1].frame = "dispatch"
    BY <1>4 DEF FrameOk
  <2>2. i - 1 \in 1 .. k /\ (i - 1) - 1 = i - 2
    BY <2>1
  <2>3. i - 1 > 1
    BY <2>1, <2>2 DEF FrameOk
  <2>4. i - 2 \in 1 .. k
    BY <2>3
  <2> QED BY <2>1, <2>4
<1> QED BY <1>1, <1>2, <1>3, <1>4 DEF OrderAt

\* Frames that stay where they are, with all below them, stay in order.
LEMMA OrderKept ==
  ASSUME NEW s, NEW r, NEW k \in Nat, \A j \in 1 .. k : r[j] = s[j] /\ FrameOk(s, j),
         NEW rn, \A i \in 1 .. k : OrderAt(s, rn, i)
  PROVE  \A i \in 1 .. k : OrderAt(r, rn, i)
BY OrderLocal

\* rn became qn: only calls for one event came or ended.
SameBut(rn, qn, root) ==
  /\ Len(rn) \in Nat /\ Len(qn) \in Nat /\ Len(rn) <= Len(qn)
  /\ \A x \in 1 .. Len(rn) : qn[x].root = rn[x].root /\ (rn[x].root # root => qn[x] = rn[x])
  /\ \A x \in 1 .. Len(qn) : x <= Len(rn) \/ qn[x].root = root

\* What was called for other events is the same.
LEMMA HeardSame ==
  ASSUME NEW rn, NEW qn, NEW root, SameBut(rn, qn, root), NEW other, other # root
  PROVE  /\ Heard(qn, other) = Heard(rn, other)
         /\ \A x \in Heard(rn, other) : qn[x] = rn[x]
<1>1. ASSUME NEW x \in Heard(rn, other) PROVE x \in Heard(qn, other) /\ qn[x] = rn[x]
  <2>1. x \in 1 .. Len(rn) /\ rn[x].root = other /\ rn[x].hid # 0
    BY HeardIs
  <2>2. x \in 1 .. Len(qn) /\ qn[x] = rn[x]
    BY <2>1 DEF SameBut
  <2> QED BY <2>1, <2>2, HeardIs
<1>2. ASSUME NEW x \in Heard(qn, other) PROVE x \in Heard(rn, other)
  <2>1. x \in 1 .. Len(qn) /\ qn[x].root = other /\ qn[x].hid # 0
    BY HeardIs
  <2>2. x \in 1 .. Len(rn)
    BY <2>1 DEF SameBut
  <2>3. qn[x] = rn[x]
    BY <2>1, <2>2 DEF SameBut
  <2> QED BY <2>1, <2>2, <2>3, HeardIs
<1> QED BY <1>1, <1>2

\* A walk for another event stays in order.
LEMMA OthersWalk ==
  ASSUME NEW f, NEW rn, NEW qn, NEW root, SameBut(rn, qn, root), f.ev.root # root, WalkOrder(f, rn)
  PROVE  WalkOrder(f, qn)
BY HeardSame DEF WalkOrder

\* So does a dispatch of another event.
LEMMA OthersDispatch ==
  ASSUME NEW f, NEW d, NEW rn, NEW qn, NEW root, SameBut(rn, qn, root), f.ev.root # root, DispatchOrder(f, d, rn)
  PROVE  DispatchOrder(f, d, qn)
BY HeardSame DEF DispatchOrder

\* And a call for another event.
LEMMA OthersCall ==
  ASSUME NEW f, NEW d, NEW u, NEW rn, NEW qn, NEW root, SameBut(rn, qn, root), f.ev.root # root, CallOrder(f, d, u, rn)
  PROVE  CallOrder(f, d, u, qn)
<1>1. u.call \in Heard(qn, f.ev.root) /\ qn[u.call] = rn[u.call]
  BY HeardSame DEF CallOrder
<1>2. ASSUME NEW y \in 1 .. Len(qn), u.call < y PROVE qn[y].root # f.ev.root
  <2>1. CASE y <= Len(rn)
    <3>1. y \in 1 .. Len(rn)
      BY <2>1 DEF SameBut
    <3> QED BY <3>1, <1>2 DEF SameBut, CallOrder
  <2>2. CASE ~(y <= Len(rn))
    BY <2>2 DEF SameBut
  <2> QED BY <2>1, <2>2
<1> QED BY <1>1, <1>2 DEF CallOrder

\* The frames below the walk on whose event something was called.
LEMMA OrderBelow ==
  ASSUME NEW s, Len(s) \in Nat, NEW b, Stacked(s), Roots(s, b), NEW w \in 1 .. Len(s), Active(s[w]), b \in Nat,
         NEW r, \A j \in 1 .. w - 1 : r[j] = s[j],
         NEW rn, NEW qn, SameBut(rn, qn, s[w].ev.root), Orderly(s, rn)
  PROVE  \A i \in 1 .. w - 1 : OrderAt(r, qn, i)
<1> DEFINE n == Len(s)
           root == s[w].ev.root
<1>1. /\ w \in 1 .. n /\ n \in Nat /\ root \in Nat /\ SameBut(rn, qn, root)
      /\ \A j \in 1 .. n : FrameOk(s, j) /\ OrderAt(s, rn, j)
  BY DEF Stacked, Roots, Orderly
<1>2. \A j \in 1 .. w - 1 : j \in 1 .. n /\ (Active(s[j]) => s[j].ev.root # root)
  <2> SUFFICES ASSUME NEW j \in 1 .. w - 1, Active(s[j]) PROVE j \in 1 .. n /\ s[j].ev.root # root
    BY <1>1
  <2>1. j \in 1 .. n /\ j < w
    BY <1>1
  <2>2. s[j].ev.root < root /\ s[j].ev.root \in Nat
    BY <2>1 DEF Roots
  <2> QED BY <1>1, <2>1, <2>2
<1> HIDE DEF n, root
<1>3. ASSUME NEW i \in 1 .. w - 1 PROVE OrderAt(s, qn, i)
  <2>1. i \in 1 .. n /\ OrderAt(s, rn, i) /\ FrameOk(s, i)
    BY <1>1, <1>2
  <2>2. CASE Active(s[i]) /\ ~Muted(s, i)
    <3>1. WalkOrder(s[i], qn)
      BY <1>1, <1>2, <2>1, <2>2, OthersWalk DEF OrderAt
    <3> QED BY <3>1, <2>2 DEF OrderAt, Active
  <2>3. CASE s[i].frame = "dispatch"
    <3>1. i - 1 \in 1 .. w - 1 /\ Active(s[i - 1])
      BY <1>1, <2>1, <2>3 DEF FrameOk
    <3>2. s[i - 1].ev.root # root
      BY <3>1, <1>2
    <3>3. DispatchOrder(s[i - 1], s[i], rn)
      BY <2>1, <2>3 DEF OrderAt
    <3>4. DispatchOrder(s[i - 1], s[i], qn)
      BY <1>1, <3>2, <3>3, OthersDispatch
    <3> QED BY <3>4, <2>3 DEF OrderAt, Active
  <2>4. CASE s[i].frame = "user" /\ s[i].call # 0
    <3>1. i > 1 /\ s[i - 1].frame = "dispatch"
      BY <2>1, <2>4 DEF FrameOk
    <3>2. i - 1 \in 1 .. w - 1 /\ i - 1 \in 1 .. n /\ (i - 1) - 1 = i - 2
      BY <3>1, <1>1
    <3>3. i - 1 > 1 /\ Active(s[i - 2])
      BY <3>1, <3>2, <1>1 DEF FrameOk
    <3>4. i - 2 \in 1 .. w - 1
      BY <3>2, <3>3
    <3>5. s[i - 2].ev.root # root
      BY <3>3, <3>4, <1>2
    <3>6. CallOrder(s[i - 2], s[i - 1], s[i], rn)
      BY <2>1, <2>4 DEF OrderAt
    <3>7. CallOrder(s[i - 2], s[i - 1], s[i], qn)
      BY <1>1, <3>5, <3>6, OthersCall
    <3> QED BY <3>7, <2>4 DEF OrderAt, Active
  <2> QED BY <2>2, <2>3, <2>4 DEF OrderAt
<1>4. w - 1 \in Nat /\ \A j \in 1 .. w - 1 : r[j] = s[j] /\ FrameOk(s, j)
  BY <1>1, <1>2
<1> DEFINE k == w - 1
<1> HIDE DEF k
<1>5. k \in Nat /\ (\A j \in 1 .. k : r[j] = s[j] /\ FrameOk(s, j)) /\ (\A i \in 1 .. k : OrderAt(s, qn, i))
  BY <1>3, <1>4 DEF k
<1>6. \A i \in 1 .. k : OrderAt(r, qn, i)
  BY <1>5, OrderKept
<1> QED BY <1>6 DEF k

----------
(* One frame.                                                               *)

\* Walk e became f: it made a stop, or is at its end.
Advanced(e, f) ==
  /\ SamePlace(e, f) /\ f.ev = e.ev
  /\ \/ f.path = <<>>
     \/ e.path # <<>> /\ f.path = Tail(e.path) /\ ~(e.path[1].first /\ e.ev.stopped)

\* The calls for the event are the same.
SameHeard(rn, qn, root) ==
  Heard(qn, root) = Heard(rn, root) /\ \A x \in Heard(rn, root) : qn[x] = rn[x]

\* A walk that goes on stays in order: it has fewer stops to make.
LEMMA AdvancedOrder ==
  ASSUME NEW e, NEW f, PathOk(e.path, e.ev.target, e.frame), Advanced(e, f),
         NEW rn, NEW qn, SameHeard(rn, qn, e.ev.root), WalkOrder(e, rn)
  PROVE  WalkOrder(f, qn)
<1>1. f.ev = e.ev /\ f.frame = e.frame
  BY DEF Advanced, SamePlace
<1>2. CASE f.path = <<>>
  <2>1. Len(f.path) = 0
    BY <1>2
  <2>2. \A k \in 1 .. Len(f.path) : FALSE
    BY <2>1
  <2> QED BY <1>1, <1>2, <2>2 DEF WalkOrder, Early, SameHeard
<1>3. CASE e.path # <<>> /\ f.path = Tail(e.path) /\ ~(e.path[1].first /\ e.ev.stopped)
  <2>1. \A k \in 1 .. Len(f.path) : f.path[k] = e.path[k + 1] /\ k + 1 \in 1 .. Len(e.path)
    BY <1>3, TailPath
  <2>2. f.frame = "native" => ~f.ev.stopped
    BY <1>1, <1>3 DEF WalkOrder, Early
  <2>3. \A x \in Heard(rn, e.ev.root) : \A k \in 1 .. Len(f.path) :
          f.path[k].how = "handlers" => Upto(rn[x].node, f.path[k].node, f.ev.target)
    BY <1>1, <2>1 DEF WalkOrder
  <2> QED BY <1>1, <2>2, <2>3 DEF WalkOrder, SameHeard
<1> QED BY <1>2, <1>3 DEF Advanced

\* It still has only stops for clicks to make.
LEMMA AdvancedQuiet ==
  ASSUME NEW e, NEW f, PathOk(e.path, e.ev.target, e.frame), Advanced(e, f), Quiet(e.path)
  PROVE  Quiet(f.path)
<1>1. CASE f.path = <<>>
  <2>1. Len(f.path) = 0
    BY <1>1
  <2> QED BY <2>1 DEF Quiet
<1>2. CASE e.path # <<>> /\ f.path = Tail(e.path)
  <2>1. \A k \in 1 .. Len(f.path) : f.path[k] = e.path[k + 1] /\ k + 1 \in 1 .. Len(e.path)
    BY <1>2, TailPath
  <2> QED BY <2>1 DEF Quiet
<1> QED BY <1>1, <1>2 DEF Advanced

\* d is a dispatch for the stop that walk e makes.
DispatchFor(e, d) ==
  /\ e.path # <<>> /\ e.path[1].how = "handlers" /\ ~(e.path[1].first /\ e.ev.stopped)
  /\ d.node = e.path[1].node /\ \A k \in 1 .. Len(d.queue) : e.ev.target <= d.queue[k].elem /\ d.queue[k].elem \in Nat

\* A dispatch begins in order: nothing was called at its node, or at one further out, but at
\* the target.
LEMMA DispatchBegins ==
  ASSUME NEW e, NEW f, NEW d, e.frame \in {"native", "trigger"}, e.ev.target \in 1 .. Document,
         PathOk(e.path, e.ev.target, e.frame), SamePlace(e, f), f.ev = e.ev, f.path = Tail(e.path),
         DispatchFor(e, d), NEW rn \in Seq(CallSet), NEW b, Past(rn, b), WalkOrder(e, rn)
  PROVE  DispatchOrder(f, d, rn)
<1> DEFINE p == e.path
           target == e.ev.target
<1>1. /\ p # <<>> /\ p[1].how = "handlers" /\ ~(p[1].first /\ e.ev.stopped) /\ d.node = p[1].node
      /\ 1 \in 1 .. Len(p) /\ Len(p) \in Nat
      /\ f.frame = e.frame
  BY TailPath DEF DispatchFor, SamePlace, PathOk
<1>2. /\ p \in Seq(StopSet) /\ \A k \in 1 .. Len(f.path) : f.path[k] = p[k + 1] /\ k + 1 \in 1 .. Len(p) /\ k \in Nat /\ k >= 1
  BY <1>1, TailPath DEF PathOk
<1>3. Len(f.path) = Len(p) - 1
  BY <1>1, TailPath
<1> HIDE DEF p
<1>4. \A k \in 1 .. Len(p) : p[k].node \in 1 .. Document
  <2>1. \A k \in 1 .. Len(p) : p[k] \in StopSet
    BY <1>2
  <2> QED BY <2>1 DEF StopSet
<1>9. \/ Len(p) = 1
      \/ 1 \in 1 .. Len(f.path) /\ 1 < Len(p)
  <2> DEFINE m == Len(p)
             l == Len(f.path)
  <2>1. m \in Nat /\ 1 \in 1 .. m /\ l = m - 1
    BY <1>1, <1>3
  <2> HIDE DEF m, l
  <2>2. m = 1 \/ (1 \in 1 .. l /\ 1 < m)
    BY <2>1
  <2> QED BY <2>2 DEF m, l
<1>5. ~e.ev.stopped
  <2>1. CASE e.frame = "native"
    BY <2>1, <1>1 DEF WalkOrder, Early, p
  <2>2. CASE e.frame # "native"
    BY <2>2, <1>1 DEF PathOk, p
  <2> QED BY <2>1, <2>2
<1>6. ASSUME f.frame = "native" PROVE Early(f.path)
  <2>1. CASE Len(p) = 1
    <3>1. Tail(e.path) \in Seq(StopSet)
      BY <1>1, TailPath DEF PathOk, p
    <3>2. f.path \in Seq(StopSet) /\ Len(f.path) = 0
      BY <2>1, <3>1, <1>3
    <3> DEFINE t == f.path
               S == StopSet
    <3>4. t \in Seq(S) /\ Len(t) = 0
      BY <3>2
    <3> HIDE DEF t, S
    <3>5. t = <<>>
      BY <3>4
    <3>3. f.path = <<>>
      BY <3>5 DEF t
    <3> QED BY <3>3 DEF Early
  <2>2. CASE Len(p) # 1
    <3>1. 1 \in 1 .. Len(f.path) /\ 1 < Len(p)
      BY <2>2, <1>9
    <3>2. f.path[1] = p[1 + 1]
      BY <3>1, <1>2
    <3>3. p[1 + 1].first
      BY <3>1, <1>1, <1>6 DEF PathOk, p
    <3> QED BY <3>2, <3>3 DEF Early
  <2> QED BY <2>1, <2>2
<1>7. ASSUME NEW k \in 1 .. Len(f.path), f.path[k].how = "handlers" PROVE Upto(d.node, f.path[k].node, target)
  <2>1. f.path[k] = p[k + 1] /\ k + 1 \in 1 .. Len(p) /\ 1 < k + 1
    BY <1>2
  <2>2. p[1].node <= p[k + 1].node /\ (p[1].how = p[k + 1].how /\ p[1].node = p[k + 1].node => p[1].node = target)
    BY <1>1, <2>1 DEF PathOk, p
  <2> QED BY <1>1, <1>7, <2>1, <2>2 DEF Upto
<1>8. ASSUME NEW x \in Heard(rn, e.ev.root)
      PROVE  /\ rn[x].node <= d.node
             /\ rn[x].node = d.node => \A k \in 1 .. Len(d.queue) : rn[x].elem <= d.queue[k].elem
             /\ rn[x].ends = "no"
  <2>1. x \in 1 .. Len(rn)
    BY HeardIs
  <2>2. rn[x].elem <= rn[x].node /\ rn[x].node \in Nat /\ rn[x].elem \in Nat
    <3>1. rn[x] \in CallSet
      BY <2>1
    <3> QED BY <2>1, <3>1 DEF CallSet, Past
  <2>3. Upto(rn[x].node, p[1].node, target)
    BY <1>1 DEF WalkOrder, p
  <2>4. rn[x].ends = "no"
    BY <1>5 DEF WalkOrder
  <2>5. \A k \in 1 .. Len(d.queue) : target <= d.queue[k].elem /\ d.queue[k].elem \in Nat
    BY DEF DispatchFor
  <2>6. rn[x].node <= d.node /\ (rn[x].node = d.node => rn[x].node = target) /\ target \in Nat
    BY <1>1, <2>3 DEF Upto
  <2>7. ASSUME rn[x].node = d.node, NEW k \in 1 .. Len(d.queue) PROVE rn[x].elem <= d.queue[k].elem
    <3>1. rn[x].elem <= target /\ target <= d.queue[k].elem /\ d.queue[k].elem \in Nat
      BY <2>2, <2>5, <2>6, <2>7
    <3> QED BY <3>1, <2>2, <2>6
  <2> QED BY <2>4, <2>6, <2>7
<1> QED BY <1>1, <1>6, <1>7, <1>8 DEF DispatchOrder

\* A walk of an event that nobody has heard of.
LEMMA FreshWalk ==
  ASSUME NEW f, ~f.ev.stopped, NEW rn, \A x \in 1 .. Len(rn) : rn[x].root # f.ev.root
  PROVE  WalkOrder(f, rn)
BY HeardIs DEF WalkOrder

\* Dispatch d goes on as e, to the next handler in its queue.
Proceeds(f, d, e) ==
  /\ EventAt(f, d).immediate = FALSE /\ (EventAt(f, d).stopped => d.queue[1].elem = d.elem)
  /\ e.node = d.node /\ e.ev = d.ev /\ e.elem = d.queue[1].elem /\ 1 \in 1 .. Len(d.queue)
  /\ \A k \in 1 .. Len(e.queue) : e.queue[k] = d.queue[k + 1] /\ k + 1 \in 1 .. Len(d.queue)

\* A dispatch that goes on to its next handler stays in order.
LEMMA DispatchProceeds ==
  ASSUME NEW f, NEW d, NEW e, Proceeds(f, d, e), NEW rn, DispatchOrder(f, d, rn)
  PROVE  DispatchOrder(f, e, rn)
<1>1. EventAt(f, e) = EventAt(f, d) /\ e.node = d.node
  BY DEF EventAt, Proceeds
<1>2. ASSUME NEW x \in Heard(rn, f.ev.root)
      PROVE  /\ rn[x].node <= e.node
             /\ rn[x].node = e.node => \A k \in 1 .. Len(e.queue) : rn[x].elem <= e.queue[k].elem
             /\ rn[x].ends # "no" => EventAt(f, e).stopped /\ rn[x].node = e.node /\ rn[x].elem = e.elem
             /\ rn[x].ends = "all" => EventAt(f, e).immediate
  BY <1>1 DEF DispatchOrder, Proceeds
<1> QED BY <1>1, <1>2 DEF DispatchOrder

----------
(* One call.                                                                *)

\* call is added to the calls rn.
Added(rn, call, qn) ==
  /\ Len(rn) \in Nat /\ Len(qn) = Len(rn) + 1
  /\ qn[Len(rn) + 1] = call /\ \A x \in 1 .. Len(rn) : qn[x] = rn[x]

\* A call is appended to those made.
LEMMA AddedIs ==
  ASSUME NEW rn \in Seq(CallSet), NEW call \in CallSet, NEW qn, qn = Append(rn, call)
  PROVE  qn \in Seq(CallSet) /\ Added(rn, call, qn)
<1> DEFINE S == CallSet
<1>1. rn \in Seq(S) /\ call \in S
  OBVIOUS
<1> HIDE DEF S
<1>2. /\ qn \in Seq(S) /\ Len(qn) = Len(rn) + 1 /\ qn[Len(rn) + 1] = call
      /\ \A x \in 1 .. Len(rn) : qn[x] = rn[x]
  BY <1>1, AppendProperties
<1>3. Len(rn) \in Nat
  BY <1>1
<1> QED BY <1>2, <1>3 DEF Added, S

\* It counts for its own event only, and not if it is that of an onclick.
LEMMA AddedHeard ==
  ASSUME NEW rn, NEW call, NEW qn, Added(rn, call, qn), NEW root
  PROVE  /\ SameBut(rn, qn, call.root)
         /\ \A x \in Heard(qn, root) :
              (x \in Heard(rn, root) /\ qn[x] = rn[x]) \/ (x = Len(rn) + 1 /\ qn[x] = call /\ call.root = root /\ call.hid # 0)
         /\ call.root = root /\ call.hid # 0 => Len(rn) + 1 \in Heard(qn, root)
<1> DEFINE n == Len(rn)
<1>1. /\ n \in Nat /\ Len(qn) = n + 1 /\ qn[n + 1] = call /\ \A x \in 1 .. n : qn[x] = rn[x]
  BY DEF Added
<1> HIDE DEF n
<1>2. \A x \in 1 .. n + 1 : x \in 1 .. n \/ x = n + 1
  BY <1>1
<1>3. SameBut(rn, qn, call.root)
  <2>1. \A x \in 1 .. Len(qn) : x <= n \/ qn[x].root = call.root
    BY <1>1, <1>2
  <2>2. n <= n + 1 /\ n + 1 \in Nat
    BY <1>1
  <2> QED BY <1>1, <2>1, <2>2 DEF SameBut, n
<1>4. ASSUME NEW x \in Heard(qn, root)
      PROVE  (x \in Heard(rn, root) /\ qn[x] = rn[x]) \/ (x = n + 1 /\ qn[x] = call /\ call.root = root /\ call.hid # 0)
  <2>1. x \in 1 .. n + 1 /\ qn[x].root = root /\ qn[x].hid # 0
    BY <1>1, HeardIs
  <2> QED BY <2>1, <1>1, <1>2, HeardIs DEF n
<1>5. n + 1 \in 1 .. n + 1
  BY <1>1
<1>6. call.root = root /\ call.hid # 0 => n + 1 \in Heard(qn, root)
  BY <1>1, <1>5, HeardIs
<1> QED BY <1>3, <1>4, <1>6 DEF n

\* Dispatch d of walk f makes a call for the next handler in its queue, and goes on as e.
Calls(f, d, e, call) ==
  /\ Proceeds(f, d, e)
  /\ call.root = f.ev.root /\ call.hid # 0 /\ call.node = d.node /\ call.elem = d.queue[1].elem /\ call.ends = "no"
  /\ d.node \in Nat /\ \A k \in 1 .. Len(d.queue) : d.queue[1].elem <= d.queue[k].elem

\* After a call its dispatch is in order: the handlers left in its queue come later.
LEMMA CallDispatch ==
  ASSUME NEW f, NEW d, NEW e, NEW call, Calls(f, d, e, call), NEW rn, NEW qn, Added(rn, call, qn), DispatchOrder(f, d, rn)
  PROVE  DispatchOrder(f, e, qn)
<1>1. DispatchOrder(f, e, rn)
  BY DispatchProceeds DEF Calls
<1>2. ASSUME NEW x \in Heard(qn, f.ev.root)
      PROVE  /\ qn[x].node <= e.node
             /\ qn[x].node = e.node => \A k \in 1 .. Len(e.queue) : qn[x].elem <= e.queue[k].elem
             /\ qn[x].ends # "no" => EventAt(f, e).stopped /\ qn[x].node = e.node /\ qn[x].elem = e.elem
             /\ qn[x].ends = "all" => EventAt(f, e).immediate
  <2>1. CASE x \in Heard(rn, f.ev.root) /\ qn[x] = rn[x]
    BY <1>1, <2>1 DEF DispatchOrder
  <2>2. CASE qn[x] = call
    <3>1. call.node = e.node /\ call.node <= e.node /\ call.ends = "no"
      BY DEF Calls, Proceeds
    <3>2. \A k \in 1 .. Len(e.queue) : call.elem <= e.queue[k].elem
      BY DEF Calls, Proceeds
    <3> QED BY <2>2, <3>1, <3>2
  <2> QED BY <2>1, <2>2, AddedHeard
<1> QED BY <1>1, <1>2 DEF DispatchOrder

\* After a call its walk is in order: the stops left to make are further out.
LEMMA CallWalk ==
  ASSUME NEW f, NEW d, NEW e, NEW call, Calls(f, d, e, call), NEW rn, NEW qn, Added(rn, call, qn), DispatchOrder(f, d, rn),
         WalkOrder(f, rn)
  PROVE  WalkOrder(f, qn)
<1>1. ASSUME NEW x \in Heard(qn, f.ev.root)
      PROVE  /\ qn[x].ends # "no" => f.ev.stopped
             /\ \A k \in 1 .. Len(f.path) : f.path[k].how = "handlers" => Upto(qn[x].node, f.path[k].node, f.ev.target)
  <2>1. CASE x \in Heard(rn, f.ev.root) /\ qn[x] = rn[x]
    BY <2>1 DEF WalkOrder
  <2>2. CASE qn[x] = call
    BY <2>2 DEF Calls, DispatchOrder
  <2> QED BY <2>1, <2>2, AddedHeard
<1> QED BY <1>1 DEF WalkOrder

\* A new call comes in order: nothing called before stopped the event, but for later nodes.
LEMMA CallInOrder ==
  ASSUME NEW f, NEW d, NEW e, NEW call, Calls(f, d, e, call), NEW rn, NEW qn, Added(rn, call, qn), DispatchOrder(f, d, rn),
         AllInOrder(rn)
  PROVE  AllInOrder(qn)
<1> DEFINE n == Len(rn)
<1>1. /\ n \in Nat /\ Len(qn) = n + 1 /\ qn[n + 1] = call /\ \A x \in 1 .. n : qn[x] = rn[x]
  BY DEF Added
<1>2. ASSUME NEW x \in 1 .. n PROVE InOrder(rn[x], call)
  <2> SUFFICES ASSUME rn[x].root = f.ev.root, rn[x].hid # 0
               PROVE  /\ rn[x].node <= call.node
                      /\ rn[x].node = call.node => rn[x].elem <= call.elem
                      /\ rn[x].ends # "all"
                      /\ rn[x].ends = "node" => call.node = rn[x].node /\ call.elem = rn[x].elem
    BY DEF InOrder, Calls
  <2>1. x \in Heard(rn, f.ev.root)
    BY HeardIs
  <2>2. call.node = d.node /\ call.elem = d.queue[1].elem /\ 1 \in 1 .. Len(d.queue)
        /\ EventAt(f, d).immediate = FALSE /\ (EventAt(f, d).stopped => d.queue[1].elem = d.elem)
    BY DEF Calls, Proceeds
  <2> QED BY <2>1, <2>2 DEF DispatchOrder
<1>3. \A x, y \in 1 .. n : x < y => InOrder(rn[x], rn[y])
  BY DEF AllInOrder
<1> HIDE DEF n
<1>4. ASSUME NEW x \in 1 .. n + 1, NEW y \in 1 .. n + 1, x < y PROVE InOrder(qn[x], qn[y])
  <2>1. x \in 1 .. n /\ (y \in 1 .. n \/ y = n + 1)
    BY <1>1, <1>4
  <2> QED BY <2>1, <1>1, <1>2, <1>3, <1>4
<1> QED BY <1>1, <1>4 DEF AllInOrder

\* A new call is the last one for its event.
LEMMA CallLast ==
  ASSUME NEW f, NEW d, NEW e, NEW call, Calls(f, d, e, call), NEW rn, NEW qn, Added(rn, call, qn),
         NEW u, u.call = Len(rn) + 1
  PROVE  CallOrder(f, e, u, qn)
<1> DEFINE root == f.ev.root
<1>0. call.root = root /\ call.hid # 0
  BY DEF Calls
<1> HIDE DEF root
<1>1. u.call \in Heard(qn, root) /\ qn[u.call] = call
  BY <1>0, AddedHeard DEF Added
<1>2. call.node = e.node /\ call.elem = e.elem
  BY DEF Calls, Proceeds
<1>3. \A y \in 1 .. Len(qn) : ~(u.call < y)
  BY DEF Added
<1> QED BY <1>1, <1>2, <1>3 DEF CallOrder, root

\* Call c ends the event.
Ended(rn, c, how, qn) ==
  /\ Len(rn) \in Nat /\ Len(qn) = Len(rn)
  /\ \A x \in 1 .. Len(rn) :
       /\ qn[x].root = rn[x].root /\ qn[x].hid = rn[x].hid /\ qn[x].node = rn[x].node /\ qn[x].elem = rn[x].elem
       /\ x # c => qn[x] = rn[x]
       /\ x = c => qn[x].ends = how

\* The way a call ends is noted, and nothing else.
LEMMA EndedIs ==
  ASSUME NEW rn \in Seq(CallSet), NEW c \in 1 .. Len(rn), NEW how \in {"no", "node", "all"}, NEW qn,
         qn = [rn EXCEPT ![c].ends = how]
  PROVE  qn \in Seq(CallSet) /\ Ended(rn, c, how, qn)
<1> DEFINE S == CallSet
           e == [rn[c] EXCEPT !.ends = how]
<1>1. rn[c] \in S
  OBVIOUS
<1>2. /\ e \in S /\ e.root = rn[c].root /\ e.hid = rn[c].hid /\ e.node = rn[c].node /\ e.elem = rn[c].elem /\ e.ends = how
  BY <1>1 DEF CallSet
<1>3. rn \in Seq(S) /\ qn = [rn EXCEPT ![c] = e] /\ c \in 1 .. Len(rn)
  OBVIOUS
<1> HIDE DEF e, S
<1>4. /\ qn \in Seq(S) /\ Len(qn) = Len(rn) /\ Len(rn) \in Nat /\ qn[c] = e
      /\ \A x \in 1 .. Len(rn) : x # c => qn[x] = rn[x]
  BY <1>2, <1>3
<1>5. \A x \in 1 .. Len(rn) :
       /\ qn[x].root = rn[x].root /\ qn[x].hid = rn[x].hid /\ qn[x].node = rn[x].node /\ qn[x].elem = rn[x].elem
       /\ x # c => qn[x] = rn[x]
       /\ x = c => qn[x].ends = how
  BY <1>2, <1>4
<1> QED BY <1>4, <1>5 DEF Ended, S

\* The calls made for an event are the same.
LEMMA EndedHeard ==
  ASSUME NEW rn, NEW c, NEW how, NEW qn, Ended(rn, c, how, qn), NEW root
  PROVE  Heard(qn, root) = Heard(rn, root) /\ \A x \in Heard(rn, root) : x \in 1 .. Len(rn)
BY DEF Heard, Ended

\* Handler u of dispatch d stopped the event: d became e, and the walk f below it g.
Stops(f, d, u, g, e, how) ==
  /\ g.frame = f.frame /\ g.path = f.path
  /\ g.ev.type = f.ev.type /\ g.ev.root = f.ev.root /\ g.ev.target = f.ev.target
  /\ e.node = d.node /\ e.elem = d.elem /\ e.queue = d.queue
  /\ g.ev.stopped /\ EventAt(g, e).stopped
  /\ EventAt(f, d).immediate => EventAt(g, e).immediate
  /\ how = "all" => EventAt(g, e).immediate

\* A handler that stops its event leaves its walk, its dispatch and its own call in order.
LEMMA StopOrder ==
  ASSUME NEW f, NEW d, NEW u, NEW g, NEW e, NEW how, Stops(f, d, u, g, e, how),
         NEW rn, NEW qn, Ended(rn, u.call, how, qn), WalkOrder(f, rn), DispatchOrder(f, d, rn), CallOrder(f, d, u, rn)
  PROVE  WalkOrder(g, qn) /\ DispatchOrder(g, e, qn) /\ CallOrder(g, e, u, qn)
<1> DEFINE root == f.ev.root
           c == u.call
<1>1. g.ev.root = root /\ g.ev.target = f.ev.target /\ g.path = f.path /\ g.frame = f.frame /\ e.node = d.node
      /\ e.elem = d.elem /\ e.queue = d.queue
  BY DEF Stops
<1>2. Heard(qn, root) = Heard(rn, root)
  BY EndedHeard
<1>3. ASSUME NEW x \in Heard(rn, root)
      PROVE  /\ qn[x].root = rn[x].root /\ qn[x].hid = rn[x].hid /\ qn[x].node = rn[x].node /\ qn[x].elem = rn[x].elem
             /\ x # c => qn[x] = rn[x]
             /\ x = c => qn[x].ends = how
  <2>1. x \in 1 .. Len(rn)
    BY EndedHeard
  <2> QED BY <2>1 DEF Ended
<1> HIDE DEF root, c
<1>4. WalkOrder(g, qn)
  <2>1. g.frame = "native" => Early(g.path)
    BY <1>1 DEF DispatchOrder
  <2>2. \A x \in Heard(rn, root) : \A k \in 1 .. Len(f.path) :
          f.path[k].how = "handlers" => Upto(qn[x].node, f.path[k].node, f.ev.target)
    BY <1>3 DEF WalkOrder, root
  <2>3. g.ev.stopped
    BY DEF Stops
  <2> QED BY <1>1, <1>2, <2>1, <2>2, <2>3 DEF WalkOrder
<1>5. DispatchOrder(g, e, qn)
  <2>1. ASSUME NEW x \in Heard(rn, root)
        PROVE  /\ qn[x].node <= d.node
               /\ qn[x].node = d.node => \A k \in 1 .. Len(d.queue) : qn[x].elem <= d.queue[k].elem
               /\ qn[x].ends # "no" => EventAt(g, e).stopped /\ qn[x].node = d.node /\ qn[x].elem = d.elem
               /\ qn[x].ends = "all" => EventAt(g, e).immediate
    <3>1. /\ rn[x].node <= d.node
          /\ rn[x].node = d.node => \A k \in 1 .. Len(d.queue) : rn[x].elem <= d.queue[k].elem
          /\ rn[x].ends # "no" => EventAt(f, d).stopped /\ rn[x].node = d.node /\ rn[x].elem = d.elem
          /\ rn[x].ends = "all" => EventAt(f, d).immediate
      BY DEF DispatchOrder, root
    <3>2. EventAt(g, e).stopped /\ (EventAt(f, d).immediate => EventAt(g, e).immediate) /\ (how = "all" => EventAt(g, e).immediate)
      BY DEF Stops
    <3>3. CASE x # c
      BY <3>1, <3>2, <3>3, <1>3
    <3>4. CASE x = c
      <4>1. rn[x].node = d.node /\ rn[x].elem = d.elem
        BY <3>4 DEF CallOrder, c
      <4> QED BY <3>1, <3>2, <3>4, <4>1, <1>3
    <3> QED BY <3>3, <3>4
  <2>2. /\ f.frame = "native" => Early(f.path)
        /\ \A k \in 1 .. Len(f.path) : f.path[k].how = "handlers" => Upto(d.node, f.path[k].node, f.ev.target)
    BY DEF DispatchOrder
  <2> QED BY <1>1, <1>2, <2>1, <2>2 DEF DispatchOrder
<1>6. CallOrder(g, e, u, qn)
  <2>1. c \in Heard(rn, root) /\ rn[c].node = d.node /\ rn[c].elem = d.elem
        /\ \A y \in 1 .. Len(rn) : c < y => rn[y].root # root
    BY DEF CallOrder, c, root
  <2>2. Len(qn) = Len(rn) /\ \A y \in 1 .. Len(rn) : qn[y].root = rn[y].root
    BY DEF Ended
  <2> QED BY <1>1, <1>2, <1>3, <2>1, <2>2 DEF CallOrder, c
<1> QED BY <1>4, <1>5, <1>6

\* And the calls: none came after it for the event.
LEMMA StopInOrder ==
  ASSUME NEW f, NEW d, NEW u, NEW how, NEW rn, NEW qn, Ended(rn, u.call, how, qn), CallOrder(f, d, u, rn), AllInOrder(rn)
  PROVE  AllInOrder(qn)
<1>1. Len(qn) = Len(rn)
  BY DEF Ended
<1>2. ASSUME NEW x \in 1 .. Len(rn), NEW y \in 1 .. Len(rn), x < y PROVE InOrder(qn[x], qn[y])
  <2>1. InOrder(rn[x], rn[y])
    BY <1>2 DEF AllInOrder
  <2>2. /\ qn[x].root = rn[x].root /\ qn[x].hid = rn[x].hid /\ qn[x].node = rn[x].node /\ qn[x].elem = rn[x].elem
        /\ x # u.call => qn[x] = rn[x]
        /\ qn[y].root = rn[y].root /\ qn[y].hid = rn[y].hid /\ qn[y].node = rn[y].node /\ qn[y].elem = rn[y].elem
    BY DEF Ended
  <2>3. x = u.call => rn[x].root # rn[y].root
    <3>1. u.call \in Heard(rn, f.ev.root) /\ \A z \in 1 .. Len(rn) : u.call < z => rn[z].root # f.ev.root
      BY DEF CallOrder
    <3>2. rn[u.call].root = f.ev.root
      BY <3>1, HeardIs
    <3> QED BY <3>1, <3>2, <1>2
  <2> QED BY <2>1, <2>2, <2>3 DEF InOrder
<1> QED BY <1>1, <1>2 DEF AllInOrder

----------
(* The stack.                                                               *)

\* s became r, where the first k frames are the same.
Lower(s, r, k) ==
  /\ Len(s) \in Nat /\ Len(r) \in Nat /\ k \in 0 .. Len(s) /\ k <= Len(r)
  /\ \A j \in 1 .. k : r[j] = s[j]
\* The frames above them are in order.
Upper(r, rn, tr, k) ==
  \A i \in 1 .. Len(r) : k < i =>
    OrderAt(r, rn, i) /\ (Muted(r, i) => i = Len(r) /\ tr = "click" /\ Quiet(r[i].path))

\* A stack is in order if its lower part was and is the same, and its upper part is.
LEMMA Rebuilt ==
  ASSUME NEW s, NEW r, NEW k, Lower(s, r, k), Stacked(s), NEW tr, MutedOk(s, tr), k < Len(s) \/ ~Muted(s, Len(s)),
         NEW qn, \A i \in 1 .. k : OrderAt(s, qn, i), NEW ur, Upper(r, qn, ur, k)
  PROVE  MutedOk(r, ur) /\ Orderly(r, qn)
<1> DEFINE n == Len(s)
           m == Len(r)
<1>1. n \in Nat /\ m \in Nat /\ k \in 0 .. n /\ k <= m /\ \A j \in 1 .. k : r[j] = s[j]
  BY DEF Lower
<1>2. \A j \in 1 .. n : FrameOk(s, j) /\ (Muted(s, j) => j = n)
  BY DEF Stacked, MutedOk
<1>3. k < n \/ ~Muted(s, n)
  OBVIOUS
<1>4. \A i \in 1 .. m : k < i =>
        OrderAt(r, qn, i) /\ (Muted(r, i) => i = m /\ ur = "click" /\ Quiet(r[i].path))
  BY DEF Upper
<1> HIDE DEF n
<1>5. k \in Nat /\ \A j \in 1 .. k : r[j] = s[j] /\ FrameOk(s, j)
  BY <1>1, <1>2
<1>6. \A i \in 1 .. k : OrderAt(r, qn, i)
  BY <1>5, OrderKept
<1>7. \A i \in 1 .. k : ~Muted(r, i)
  <2> SUFFICES ASSUME NEW i \in 1 .. k, Muted(r, i) PROVE FALSE
    OBVIOUS
  <2>1. i > 1 => i - 1 \in 1 .. k
    BY <1>1
  <2>2. Muted(s, i)
    BY <1>1, <2>1 DEF Muted
  <2> QED BY <1>1, <1>2, <1>3, <2>2
<1> HIDE DEF m
<1>8. \A i \in 1 .. m : i \in 1 .. k \/ k < i
  BY <1>1
<1>9. MutedOk(r, ur)
  BY <1>4, <1>7, <1>8 DEF MutedOk, m
<1>10. Orderly(r, qn)
  BY <1>4, <1>6, <1>8 DEF Orderly, m
<1> QED BY <1>9, <1>10

\* Frames that are gone.
LEMMA ShortenedOrder ==
  ASSUME NEW s, Len(s) \in Nat, NEW k, NEW r, Shortened(s, k, r), Stacked(s),
         NEW rn, Orderly(s, rn), NEW tr, MutedOk(s, tr), NEW ur, k < Len(s) \/ ur = tr
  PROVE  MutedOk(r, ur) /\ Orderly(r, rn)
<1>1. Len(r) = k /\ k \in 0 .. Len(s) /\ \A i \in 1 .. k : r[i] = s[i]
  BY DEF Shortened
<1>2. Lower(s, r, k) /\ Upper(r, rn, ur, k) /\ \A i \in 1 .. k : OrderAt(s, rn, i)
  BY <1>1 DEF Lower, Upper, Orderly
<1>3. CASE k < Len(s)
  BY <1>2, <1>3, Rebuilt
<1>4. CASE k = Len(s) /\ ur = tr
  <2> DEFINE n == Len(s)
  <2>1. n \in Nat /\ \A i \in 1 .. n : FrameOk(s, i) /\ r[i] = s[i] /\ OrderAt(s, rn, i)
    BY <1>1, <1>4 DEF Stacked, Orderly
  <2> HIDE DEF n
  <2>2. \A i \in 1 .. n : OrderAt(r, rn, i)
    BY <2>1, OrderKept
  <2>3. \A i \in 1 .. n : i > 1 => i - 1 \in 1 .. n
    BY <2>1
  <2>4. \A i \in 1 .. n : Muted(r, i) <=> Muted(s, i)
    BY <2>1, <2>3 DEF Muted
  <2> QED BY <1>1, <1>4, <2>1, <2>2, <2>4 DEF MutedOk, Orderly, n
<1> QED BY <1>1, <1>3, <1>4

\* The calls are still of events that began, when later ones have begun.
LEMMA PastLater ==
  ASSUME NEW rn, NEW b \in Nat, NEW c \in Nat, b <= c, Past(rn, b)
  PROVE  Past(rn, c)
<1>1. 1 .. b \subseteq 1 .. c
  OBVIOUS
<1> QED BY <1>1 DEF Past

\* A walk on top that is not the last one of a method is in order.
LEMMA TopWalk ==
  ASSUME NEW s, Len(s) \in Nat \ {0}, Active(s[Len(s)]), ~Muted(s, Len(s)), NEW rn, Orderly(s, rn)
  PROVE  WalkOrder(s[Len(s)], rn)
<1>1. Len(s) \in 1 .. Len(s)
  OBVIOUS
<1>2. OrderAt(s, rn, Len(s))
  BY <1>1 DEF Orderly
<1> QED BY <1>2 DEF OrderAt

\* The walk on top goes on.
LEMMA ReplacedOrder ==
  ASSUME NEW s, Len(s) \in Nat \ {0}, Stacked(s), NEW f, Active(s[Len(s)]), Advanced(s[Len(s)], f),
         PathOk(s[Len(s)].path, s[Len(s)].ev.target, s[Len(s)].frame),
         NEW r, Replaced(s, f, r), NEW rn, Orderly(s, rn), NEW tr, MutedOk(s, tr),
         NEW qn, SameHeard(rn, qn, s[Len(s)].ev.root), \A i \in 1 .. Len(s) - 1 : OrderAt(s, qn, i)
  PROVE  MutedOk(r, tr) /\ Orderly(r, qn)
<1> DEFINE n == Len(s)
           e == s[n]
           k == n - 1
<1>1. /\ n \in Nat \ {0} /\ Len(r) = n /\ r[n] = f /\ (\A i \in 1 .. k : r[i] = s[i]) /\ k = n - 1
      /\ Active(e) /\ f.frame = e.frame /\ f.method = e.method /\ f.ev = e.ev
  BY DEF Replaced, Advanced, SamePlace
<1>2. Muted(s, n) => tr = "click" /\ Quiet(e.path)
  <2>1. n \in 1 .. n
    BY <1>1
  <2> QED BY <2>1 DEF MutedOk
<1>3. ~Muted(s, n) => WalkOrder(e, rn)
  BY <1>1, TopWalk
<1>4. PathOk(e.path, e.ev.target, e.frame) /\ Advanced(e, f) /\ SameHeard(rn, qn, e.ev.root)
  OBVIOUS
<1>5. \A i \in 1 .. k : OrderAt(s, qn, i)
  OBVIOUS
<1>13. e = s[n]
  OBVIOUS
<1>14. k < n
  BY <1>1
<1>15. Lower(s, r, k)
  BY <1>1 DEF Lower
<1> HIDE DEF n, e, k
<1>6. Muted(r, n) <=> Muted(s, n)
  <2>1. n > 1 => n - 1 \in 1 .. k /\ r[n - 1] = s[n - 1]
    BY <1>1
  <2> QED BY <1>1, <1>13, <2>1 DEF Muted
<1>7. ~Muted(s, n) => WalkOrder(f, qn)
  BY <1>3, <1>4, AdvancedOrder
<1>8. Muted(s, n) => Quiet(f.path)
  BY <1>2, <1>4, AdvancedQuiet
<1>9. OrderAt(r, qn, n)
  BY <1>1, <1>6, <1>7 DEF OrderAt, Active
<1>10. \A i \in 1 .. n : k < i => i = n
  BY <1>1
<1>11. Upper(r, qn, tr, k)
  BY <1>1, <1>2, <1>6, <1>8, <1>9, <1>10 DEF Upper
<1>12. k < Len(s)
  BY <1>14 DEF n
<1> QED BY <1>5, <1>11, <1>12, <1>15, Rebuilt

\* f in the place of the frame on top, and g above it.
Grown(s, f, g, r) ==
  /\ Len(s) \in Nat \ {0} /\ Len(r) = Len(s) + 1 /\ r[Len(s)] = f /\ r[Len(s) + 1] = g
  /\ \A i \in 1 .. Len(s) - 1 : r[i] = s[i]

\* The frame on top is replaced, and another one comes above it.
LEMMA GrowsTo ==
  ASSUME NEW S, NEW s \in Seq(S), s # <<>>, NEW f \in S, NEW g \in S, NEW r, r = SubSeq(s, 1, Len(s) - 1) \o <<f, g>>
  PROVE  Grown(s, f, g, r)
<1>1. PICK q \in Seq(S) : Replaced(s, f, q) /\ Extended(q, g, r)
  BY GrownIs
<1>2. Len(s) \in Nat \ {0}
  OBVIOUS
<1>3. Len(q) = Len(s) /\ q[Len(s)] = f /\ \A i \in 1 .. Len(s) - 1 : q[i] = s[i]
  BY <1>1 DEF Replaced
<1>4. Len(r) = Len(q) + 1 /\ r[Len(q) + 1] = g /\ \A i \in 1 .. Len(q) : r[i] = q[i]
  BY <1>1 DEF Extended
<1> DEFINE n == Len(s)
<1>5. n \in Nat \ {0} /\ Len(q) = n /\ q[n] = f /\ \A i \in 1 .. n - 1 : q[i] = s[i]
  BY <1>2, <1>3
<1> HIDE DEF n
<1>7. Len(r) = n + 1 /\ r[n + 1] = g /\ \A i \in 1 .. n : r[i] = q[i]
  BY <1>4, <1>5
<1>8. n \in 1 .. n /\ \A i \in 1 .. n - 1 : i \in 1 .. n
  BY <1>5
<1>6. /\ Len(r) = n + 1 /\ r[n + 1] = g /\ r[n] = f
      /\ \A i \in 1 .. n - 1 : r[i] = s[i]
  BY <1>5, <1>7, <1>8
<1> QED BY <1>5, <1>6 DEF Grown, n

\* A stack that grew so is in order, if its two last frames are.
LEMMA GrownOrder ==
  ASSUME NEW s, Stacked(s), NEW tr, MutedOk(s, tr), NEW f, NEW g, NEW r, Grown(s, f, g, r),
         NEW qn, \A i \in 1 .. Len(s) - 1 : OrderAt(s, qn, i),
         ~Muted(r, Len(s)), OrderAt(r, qn, Len(s)), OrderAt(r, qn, Len(s) + 1),
         NEW ur, Muted(r, Len(s) + 1) => ur = "click" /\ Quiet(g.path)
  PROVE  MutedOk(r, ur) /\ Orderly(r, qn)
<1> DEFINE n == Len(s)
           k == n - 1
<1>1. /\ n \in Nat \ {0} /\ Len(r) = n + 1 /\ r[n] = f /\ r[n + 1] = g /\ k = n - 1
      /\ \A i \in 1 .. k : r[i] = s[i]
  BY DEF Grown
<1>2. /\ \A i \in 1 .. k : OrderAt(s, qn, i)
      /\ ~Muted(r, n) /\ OrderAt(r, qn, n) /\ OrderAt(r, qn, n + 1)
      /\ Muted(r, n + 1) => ur = "click" /\ Quiet(g.path)
  OBVIOUS
<1>3. Lower(s, r, k) /\ k < Len(s)
  BY <1>1 DEF Lower
<1> HIDE DEF n, k
<1>4. \A i \in 1 .. n + 1 : k < i => i = n \/ i = n + 1
  BY <1>1
<1>5. Upper(r, qn, ur, k)
  BY <1>1, <1>2, <1>4 DEF Upper
<1> QED BY <1>2, <1>3, <1>5, Rebuilt

\* A walk makes a stop where handlers are called.
LEMMA DispatchedOrder ==
  ASSUME NEW s, Stacked(s), NEW tr, MutedOk(s, tr), NEW f, NEW g, NEW r, Grown(s, f, g, r),
         Active(s[Len(s)]), ~Muted(s, Len(s)), SamePlace(s[Len(s)], f), f.ev = s[Len(s)].ev,
         f.path = Tail(s[Len(s)].path), DispatchFor(s[Len(s)], g), g.frame = "dispatch",
         s[Len(s)].ev.target \in 1 .. Document, PathOk(s[Len(s)].path, s[Len(s)].ev.target, s[Len(s)].frame),
         NEW rn \in Seq(CallSet), Orderly(s, rn), NEW b, Past(rn, b)
  PROVE  MutedOk(r, tr) /\ Orderly(r, rn)
<1> DEFINE n == Len(s)
           e == s[n]
<1>1. /\ n \in Nat \ {0} /\ r[n] = f /\ r[n + 1] = g /\ \A i \in 1 .. n - 1 : r[i] = s[i]
  BY DEF Grown
<1>2. /\ Active(e) /\ ~Muted(s, n) /\ SamePlace(e, f) /\ f.ev = e.ev /\ f.path = Tail(e.path) /\ DispatchFor(e, g)
      /\ g.frame = "dispatch" /\ e.ev.target \in 1 .. Document /\ PathOk(e.path, e.ev.target, e.frame) /\ e = s[n]
  OBVIOUS
<1>3. WalkOrder(e, rn)
  BY <1>1, <1>2, TopWalk
<1>4. \A i \in 1 .. n - 1 : OrderAt(s, rn, i)
  BY <1>1 DEF Orderly
<1> HIDE DEF n, e
<1>5. Advanced(e, f) /\ e.frame \in {"native", "trigger"}
  BY <1>2 DEF Advanced, DispatchFor, Active
<1>6. WalkOrder(f, rn)
  <2>1. SameHeard(rn, rn, e.ev.root)
    BY DEF SameHeard
  <2> QED BY <1>2, <1>3, <1>5, <2>1, AdvancedOrder
<1>7. DispatchOrder(f, g, rn)
  BY <1>2, <1>3, <1>5, DispatchBegins
<1>8. ~Muted(r, n)
  <2>1. n > 1 => n - 1 \in 1 .. n - 1
    BY <1>1
  <2> QED BY <1>1, <1>2, <2>1 DEF Muted, SamePlace
<1>9. OrderAt(r, rn, n)
  BY <1>1, <1>2, <1>6 DEF OrderAt, SamePlace, Active
<1>10. OrderAt(r, rn, n + 1) /\ ~Muted(r, n + 1)
  <2>1. (n + 1) - 1 = n
    BY <1>1
  <2> QED BY <1>1, <1>2, <1>7, <2>1 DEF OrderAt, Muted, Active
<1> QED BY <1>4, <1>8, <1>9, <1>10, GrownOrder DEF n

\* A walk makes a stop where focusin is triggered.
LEMMA SimulatedOrder ==
  ASSUME NEW s, Stacked(s), NEW tr, MutedOk(s, tr), NEW f, NEW g, NEW r, Grown(s, f, g, r),
         Active(s[Len(s)]), ~Muted(s, Len(s)), Advanced(s[Len(s)], f),
         PathOk(s[Len(s)].path, s[Len(s)].ev.target, s[Len(s)].frame),
         NEW rn, Orderly(s, rn), g.frame = "trigger", WalkOrder(g, rn)
  PROVE  MutedOk(r, tr) /\ Orderly(r, rn)
<1> DEFINE n == Len(s)
           e == s[n]
<1>1. /\ n \in Nat \ {0} /\ r[n] = f /\ r[n + 1] = g /\ \A i \in 1 .. n - 1 : r[i] = s[i]
  BY DEF Grown
<1>2. /\ Active(e) /\ ~Muted(s, n) /\ Advanced(e, f) /\ PathOk(e.path, e.ev.target, e.frame) /\ e = s[n]
  OBVIOUS
<1>3. WalkOrder(e, rn)
  BY <1>1, <1>2, TopWalk
<1>4. \A i \in 1 .. n - 1 : OrderAt(s, rn, i)
  BY <1>1 DEF Orderly
<1> HIDE DEF n, e
<1>5. SamePlace(e, f) /\ f.ev = e.ev
  BY <1>2 DEF Advanced
<1>6. WalkOrder(f, rn)
  <2>1. SameHeard(rn, rn, e.ev.root)
    BY DEF SameHeard
  <2> QED BY <1>2, <1>3, <2>1, AdvancedOrder
<1>8. ~Muted(r, n)
  <2>1. n > 1 => n - 1 \in 1 .. n - 1
    BY <1>1
  <2> QED BY <1>1, <1>2, <1>5, <2>1 DEF Muted, SamePlace
<1>9. OrderAt(r, rn, n)
  BY <1>1, <1>2, <1>5, <1>6 DEF OrderAt, SamePlace, Active
<1>10. OrderAt(r, rn, n + 1) /\ ~Muted(r, n + 1)
  BY <1>1 DEF OrderAt, Muted
<1> QED BY <1>4, <1>8, <1>9, <1>10, GrownOrder DEF n

\* A trigger calls click.
LEMMA ClickedOrder ==
  ASSUME NEW s, Stacked(s), NEW tr, MutedOk(s, tr), NEW f, NEW g, NEW r, Grown(s, f, g, r),
         NEW rn, Orderly(s, rn), f.frame = "trigger", f.method, g.frame = "native", g.ev.type = "click", Quiet(g.path)
  PROVE  MutedOk(r, "click") /\ Orderly(r, rn)
<1> DEFINE n == Len(s)
           click == "click"
<1>1. /\ n \in Nat \ {0} /\ r[n] = f /\ r[n + 1] = g /\ n + 1 > 1 /\ (n + 1) - 1 = n
  BY DEF Grown
<1>2. \A i \in 1 .. n - 1 : OrderAt(s, rn, i)
  BY <1>1 DEF Orderly
<1>3. ~Muted(r, n) /\ OrderAt(r, rn, n)
  BY <1>1 DEF Muted, OrderAt, Active
<1>4. Muted(r, n + 1)
  BY <1>1 DEF Muted
<1>5. OrderAt(r, rn, n + 1)
  BY <1>1, <1>4 DEF OrderAt
<1>6. Muted(r, n + 1) => click = "click" /\ Quiet(g.path)
  OBVIOUS
<1> HIDE DEF click
<1>7. MutedOk(r, click) /\ Orderly(r, rn)
  BY <1>2, <1>3, <1>5, <1>6, GrownOrder
<1> QED BY <1>7 DEF click

\* A frame comes above the stack.
LEMMA ExtendedOrder ==
  ASSUME NEW s, Stacked(s), Len(s) \in Nat, NEW tr, MutedOk(s, tr), NEW g, NEW r, Extended(s, g, r),
         ~Muted(s, Len(s)), ~Muted(r, Len(s) + 1), NEW rn, Orderly(s, rn), OrderAt(r, rn, Len(s) + 1)
  PROVE  MutedOk(r, tr) /\ Orderly(r, rn)
<1> DEFINE n == Len(s)
<1>1. /\ n \in Nat /\ Len(r) = n + 1 /\ \A i \in 1 .. n : r[i] = s[i]
  BY DEF Extended
<1>2. Lower(s, r, n) /\ \A i \in 1 .. n : OrderAt(s, rn, i)
  BY <1>1 DEF Lower, Orderly
<1>3. \A i \in 1 .. n + 1 : n < i => i = n + 1
  BY <1>1
<1>4. Upper(r, rn, tr, n)
  BY <1>1, <1>3 DEF Upper
<1> QED BY <1>2, <1>4, Rebuilt

\* Frames that differ in what was prevented.
Alike(s, r) ==
  /\ Marked(s, r)
  /\ \A i \in 1 .. Len(s) : r[i].ev.stopped = s[i].ev.stopped /\ r[i].ev.immediate = s[i].ev.immediate

\* The order of calls does not depend on what was prevented.
LEMMA AlikeOrder ==
  ASSUME NEW s, Len(s) \in Nat, Stacked(s), NEW r, Alike(s, r), NEW tr, MutedOk(s, tr), NEW rn, Orderly(s, rn)
  PROVE  MutedOk(r, tr) /\ Orderly(r, rn)
<1> DEFINE n == Len(s)
           Same(i) == /\ r[i].frame = s[i].frame /\ r[i].method = s[i].method /\ r[i].call = s[i].call
                      /\ r[i].node = s[i].node /\ r[i].elem = s[i].elem /\ r[i].queue = s[i].queue
                      /\ r[i].path = s[i].path /\ r[i].ev.type = s[i].ev.type
                      /\ r[i].ev.root = s[i].ev.root /\ r[i].ev.target = s[i].ev.target
                      /\ r[i].ev.stopped = s[i].ev.stopped /\ r[i].ev.immediate = s[i].ev.immediate
<1>1. n \in Nat /\ Len(r) = n /\ \A i \in 1 .. n : Same(i)
  BY DEF Alike, Marked, SamePlace, Raised
<1>2. \A i \in 1 .. n : FrameOk(s, i) /\ OrderAt(s, rn, i) /\ (Muted(s, i) => i = n /\ tr = "click" /\ Quiet(s[i].path))
  BY DEF Stacked, Orderly, MutedOk
<1> HIDE DEF n
<1>3. \A i \in 1 .. n : i > 1 => i - 1 \in 1 .. n
  BY <1>1
<1>4. \A i \in 1 .. n : Muted(r, i) <=> Muted(s, i)
  BY <1>1, <1>3 DEF Muted
<1>5. MutedOk(r, tr)
  BY <1>1, <1>2, <1>4 DEF MutedOk
<1>6. ASSUME NEW i \in 1 .. n PROVE OrderAt(r, rn, i)
  <2>1. Same(i) /\ OrderAt(s, rn, i) /\ FrameOk(s, i)
    BY <1>1, <1>2
  <2>2. CASE Active(s[i]) /\ ~Muted(s, i)
    <3>1. WalkOrder(s[i], rn)
      BY <2>1, <2>2 DEF OrderAt
    <3>2. WalkOrder(r[i], rn)
      BY <2>1, <3>1 DEF WalkOrder
    <3> QED BY <2>1, <2>2, <3>2 DEF OrderAt, Active
  <2>3. CASE s[i].frame = "dispatch"
    <3>1. Same(i - 1)
      BY <1>1, <1>3, <2>1, <2>3 DEF FrameOk
    <3>2. DispatchOrder(s[i - 1], s[i], rn)
      BY <2>1, <2>3 DEF OrderAt
    <3> DEFINE f == s[i - 1]
               d == s[i]
               g == r[i - 1]
               e == r[i]
    <3>3. /\ g.frame = f.frame /\ g.path = f.path /\ g.ev.root = f.ev.root /\ g.ev.target = f.ev.target
          /\ e.node = d.node /\ e.elem = d.elem /\ e.queue = d.queue
          /\ g.ev.stopped = f.ev.stopped /\ g.ev.immediate = f.ev.immediate
          /\ e.ev.stopped = d.ev.stopped /\ e.ev.immediate = d.ev.immediate
      BY <2>1, <3>1
    <3> HIDE DEF f, d, g, e
    <3>4. EventAt(g, e).stopped = EventAt(f, d).stopped /\ EventAt(g, e).immediate = EventAt(f, d).immediate
      BY <3>3 DEF EventAt
    <3>5. DispatchOrder(g, e, rn)
      BY <3>2, <3>3, <3>4 DEF DispatchOrder, f, d
    <3> QED BY <2>1, <2>3, <3>5 DEF OrderAt, Active, g, e
  <2>4. CASE s[i].frame = "user" /\ s[i].call # 0
    <3>1. i - 1 \in 1 .. n /\ s[i - 1].frame = "dispatch"
      BY <1>3, <2>1, <2>4 DEF FrameOk
    <3>2. i - 1 > 1 /\ (i - 1) - 1 = i - 2
      BY <1>1, <1>2, <3>1 DEF FrameOk
    <3>3. Same(i - 1) /\ Same(i - 2)
      BY <1>1, <1>3, <3>1, <3>2
    <3>4. CallOrder(s[i - 2], s[i - 1], s[i], rn)
      BY <2>1, <2>4 DEF OrderAt
    <3>5. CallOrder(r[i - 2], r[i - 1], r[i], rn)
      BY <2>1, <3>3, <3>4 DEF CallOrder
    <3> QED BY <2>1, <2>4, <3>5 DEF OrderAt, Active
  <2>5. CASE ~(Active(s[i]) /\ ~Muted(s, i)) /\ s[i].frame # "dispatch" /\ ~(s[i].frame = "user" /\ s[i].call # 0)
    BY <1>4, <2>1, <2>5 DEF OrderAt, Active
  <2> QED BY <2>5, <2>4, <2>3, <2>2
<1>7. Orderly(r, rn)
  BY <1>1, <1>6 DEF Orderly
<1> QED BY <1>5, <1>7

\* A dispatch on top, and the walk below it.
LEMMA BelowDispatch ==
  ASSUME NEW s, Len(s) \in Nat \ {0}, Stacked(s), s[Len(s)].frame = "dispatch", NEW tr, MutedOk(s, tr),
         NEW rn, Orderly(s, rn)
  PROVE  /\ Len(s) - 1 \in 1 .. Len(s) /\ Active(s[Len(s) - 1]) /\ ~Muted(s, Len(s) - 1)
         /\ WalkOrder(s[Len(s) - 1], rn) /\ DispatchOrder(s[Len(s) - 1], s[Len(s)], rn)
<1> DEFINE n == Len(s)
<1>1. n \in Nat \ {0} /\ n \in 1 .. n /\ s[n].frame = "dispatch"
  OBVIOUS
<1>2. \A i \in 1 .. n : FrameOk(s, i) /\ OrderAt(s, rn, i) /\ (Muted(s, i) => i = n)
  BY DEF Stacked, Orderly, MutedOk
<1> HIDE DEF n
<1>3. n > 1 /\ Active(s[n - 1])
  BY <1>1, <1>2 DEF FrameOk
<1>4. n - 1 \in 1 .. n /\ n - 1 # n
  BY <1>1, <1>3
<1>5. ~Muted(s, n - 1) /\ OrderAt(s, rn, n - 1) /\ OrderAt(s, rn, n)
  BY <1>1, <1>2, <1>4
<1>6. WalkOrder(s[n - 1], rn) /\ DispatchOrder(s[n - 1], s[n], rn)
  BY <1>1, <1>3, <1>5 DEF OrderAt
<1> QED BY <1>3, <1>4, <1>5, <1>6 DEF n

\* The handler does not have the namespaces of the event.
LEMMA SkippedOrder ==
  ASSUME NEW s, Len(s) \in Nat \ {0}, Stacked(s), s[Len(s)].frame = "dispatch", NEW tr, MutedOk(s, tr),
         NEW rn, Orderly(s, rn), NEW f, f.frame = "dispatch", Proceeds(s[Len(s) - 1], s[Len(s)], f),
         NEW r, Replaced(s, f, r)
  PROVE  MutedOk(r, tr) /\ Orderly(r, rn)
<1> DEFINE n == Len(s)
           k == n - 1
<1>1. /\ n \in Nat \ {0} /\ Len(r) = n /\ r[n] = f /\ k = n - 1 /\ \A i \in 1 .. k : r[i] = s[i]
  BY DEF Replaced
<1>2. k \in 1 .. n /\ DispatchOrder(s[k], s[n], rn) /\ Proceeds(s[k], s[n], f)
  BY BelowDispatch
<1>3. \A i \in 1 .. k : OrderAt(s, rn, i)
  BY <1>1 DEF Orderly
<1>4. Lower(s, r, k) /\ k < Len(s)
  BY <1>1 DEF Lower
<1> HIDE DEF n, k
<1>5. DispatchOrder(s[k], f, rn)
  BY <1>2, DispatchProceeds
<1>6. k \in 1 .. k /\ r[n - 1] = s[k]
  BY <1>1, <1>2
<1>7. OrderAt(r, rn, n) /\ ~Muted(r, n)
  BY <1>1, <1>5, <1>6 DEF OrderAt, Muted, Active
<1>8. \A i \in 1 .. n : k < i => i = n
  BY <1>1
<1>9. Upper(r, rn, tr, k)
  BY <1>1, <1>7, <1>8 DEF Upper
<1> QED BY <1>3, <1>4, <1>9, Rebuilt

\* The next handler is called.
LEMMA CalledOrder ==
  ASSUME NEW s, Len(s) \in Nat \ {0}, Stacked(s), NEW b \in Nat, Roots(s, b), s[Len(s)].frame = "dispatch",
         NEW tr, MutedOk(s, tr), NEW rn, Orderly(s, rn), AllInOrder(rn),
         NEW f, f.frame = "dispatch", NEW g, g.frame = "user", g.call = Len(rn) + 1, NEW r, Grown(s, f, g, r),
         NEW call, Calls(s[Len(s) - 1], s[Len(s)], f, call), NEW qn, Added(rn, call, qn)
  PROVE  MutedOk(r, tr) /\ Orderly(r, qn) /\ AllInOrder(qn)
<1> DEFINE n == Len(s)
           w == n - 1
           walk == s[w]
           d == s[n]
<1>1. /\ n \in Nat \ {0} /\ r[n] = f /\ r[n + 1] = g /\ w = n - 1
      /\ \A i \in 1 .. n - 1 : r[i] = s[i]
  BY DEF Grown
<1>2. w \in 1 .. n /\ Active(walk) /\ ~Muted(s, w) /\ WalkOrder(walk, rn) /\ DispatchOrder(walk, d, rn)
  BY BelowDispatch
<1>3. Calls(walk, d, f, call) /\ Added(rn, call, qn)
  OBVIOUS
<1>4. SameBut(rn, qn, walk.ev.root)
  <2> DEFINE root == call.root
  <2>1. root = walk.ev.root
    BY <1>3 DEF Calls
  <2> HIDE DEF root
  <2>2. SameBut(rn, qn, root)
    BY <1>3, AddedHeard DEF root
  <2> QED BY <2>1, <2>2
<1>5. \A i \in 1 .. w - 1 : OrderAt(s, qn, i)
  <2>1. \A j \in 1 .. w - 1 : s[j] = s[j]
    OBVIOUS
  <2> QED BY <1>2, <1>4, <2>1, OrderBelow
<1> HIDE DEF walk, d
<1>6. WalkOrder(walk, qn) /\ DispatchOrder(walk, f, qn) /\ CallOrder(walk, f, g, qn) /\ AllInOrder(qn)
  BY <1>2, <1>3, CallWalk, CallDispatch, CallLast, CallInOrder
<1>7. OrderAt(s, qn, w)
  BY <1>2, <1>6 DEF OrderAt, Active, walk
<1>14. w \in 1 .. n - 1
  BY <1>1, <1>2
<1> HIDE DEF w
<1>8. \A i \in 1 .. n - 1 : OrderAt(s, qn, i)
  <2>1. \A i \in 1 .. n - 1 : i = w \/ i \in 1 .. w - 1
    BY <1>1
  <2> QED BY <1>5, <1>7, <2>1
<1>9. r[n - 1] = walk /\ (n + 1) - 1 = n /\ (n + 1) - 2 = n - 1
  BY <1>1, <1>14 DEF walk
<1> HIDE DEF n
<1>10. OrderAt(r, qn, n) /\ ~Muted(r, n)
  BY <1>1, <1>6, <1>9 DEF OrderAt, Muted, Active
<1>11. OrderAt(r, qn, n + 1) /\ ~Muted(r, n + 1)
  BY <1>1, <1>6, <1>9 DEF OrderAt, Muted, Active
<1>12. MutedOk(r, tr) /\ Orderly(r, qn)
  BY <1>8, <1>10, <1>11, GrownOrder DEF n
<1> QED BY <1>6, <1>12

\* A handler on top, its dispatch, and the walk below it.
LEMMA BelowHandler ==
  ASSUME NEW s, Handling(s), Len(s) # 0, Stacked(s), NEW tr, MutedOk(s, tr), NEW rn, Orderly(s, rn)
  PROVE  /\ Len(s) - 2 \in 1 .. Len(s) /\ Len(s) - 1 \in 1 .. Len(s)
         /\ Active(s[Len(s) - 2]) /\ s[Len(s) - 1].frame = "dispatch" /\ ~Muted(s, Len(s) - 2)
         /\ WalkOrder(s[Len(s) - 2], rn) /\ DispatchOrder(s[Len(s) - 2], s[Len(s) - 1], rn)
         /\ CallOrder(s[Len(s) - 2], s[Len(s) - 1], s[Len(s)], rn)
<1> DEFINE n == Len(s)
<1>1. n \in Nat \ {0} /\ n \in 1 .. n /\ s[n].frame = "user" /\ s[n].call # 0
  BY DEF Handling
<1>2. \A i \in 1 .. n : FrameOk(s, i) /\ OrderAt(s, rn, i) /\ (Muted(s, i) => i = n)
  BY DEF Stacked, Orderly, MutedOk
<1> HIDE DEF n
<1>3. n > 1 /\ s[n - 1].frame = "dispatch"
  BY <1>1, <1>2 DEF FrameOk
<1>4. n - 1 \in 1 .. n /\ (n - 1) - 1 = n - 2
  BY <1>1, <1>3
<1>5. n - 1 > 1 /\ Active(s[n - 2])
  BY <1>2, <1>3, <1>4 DEF FrameOk
<1>6. n - 2 \in 1 .. n /\ n - 2 # n
  BY <1>1, <1>5
<1>7. ~Muted(s, n - 2) /\ OrderAt(s, rn, n - 2) /\ OrderAt(s, rn, n - 1) /\ OrderAt(s, rn, n)
  BY <1>1, <1>2, <1>4, <1>6
<1>8. WalkOrder(s[n - 2], rn) /\ DispatchOrder(s[n - 2], s[n - 1], rn) /\ CallOrder(s[n - 2], s[n - 1], s[n], rn)
  BY <1>1, <1>3, <1>4, <1>5, <1>7 DEF OrderAt
<1> QED BY <1>3, <1>4, <1>5, <1>6, <1>7, <1>8 DEF n

\* The handler on top of s stops the event.
HandlerStops(s, r, how) ==
  /\ Len(r) = Len(s) /\ \A i \in 1 .. Len(s) : SamePlace(s[i], r[i]) /\ (i < Len(s) - 2 => r[i] = s[i])
  /\ Stops(s[Len(s) - 2], s[Len(s) - 1], s[Len(s)], r[Len(s) - 2], r[Len(s) - 1], how)

\* A handler on top that stops its event leaves the stack and the calls in order.
LEMMA StoppedOrder ==
  ASSUME NEW s, Handling(s), Len(s) # 0, Stacked(s), NEW b \in Nat, Roots(s, b), NEW tr, MutedOk(s, tr),
         NEW rn, Orderly(s, rn), AllInOrder(rn), NEW r, NEW how, HandlerStops(s, r, how),
         NEW qn, Ended(rn, s[Len(s)].call, how, qn)
  PROVE  MutedOk(r, tr) /\ Orderly(r, qn) /\ AllInOrder(qn)
<1> DEFINE n == Len(s)
           w == n - 2
           f == s[w]
           d == s[n - 1]
           u == s[n]
           g == r[w]
           e == r[n - 1]
           root == f.ev.root
<1>1. /\ w \in 1 .. n /\ n - 1 \in 1 .. n /\ Active(f) /\ d.frame = "dispatch" /\ ~Muted(s, w)
      /\ WalkOrder(f, rn) /\ DispatchOrder(f, d, rn) /\ CallOrder(f, d, u, rn)
  BY BelowHandler
<1>2. n \in Nat \ {0} /\ u.frame = "user" /\ Ended(rn, u.call, how, qn) /\ w = n - 2
  BY DEF Handling
<1>3. /\ Len(r) = n /\ Stops(f, d, u, g, e, how)
      /\ \A i \in 1 .. n : SamePlace(s[i], r[i]) /\ (i < w => r[i] = s[i])
  BY DEF HandlerStops
<1>14. Active(s[w]) /\ root = s[w].ev.root
  BY <1>1
<1> HIDE DEF f, d, u, g, e, root
<1>4. WalkOrder(g, qn) /\ DispatchOrder(g, e, qn) /\ CallOrder(g, e, u, qn) /\ AllInOrder(qn)
  BY <1>1, <1>2, <1>3, StopOrder, StopInOrder
<1>5. SameBut(rn, qn, root)
  <2>1. u.call \in Heard(rn, root)
    BY <1>1 DEF CallOrder, root
  <2>2. rn[u.call].root = root
    BY <2>1, HeardIs
  <2>3. /\ Len(rn) \in Nat /\ Len(qn) = Len(rn)
        /\ \A x \in 1 .. Len(rn) : qn[x].root = rn[x].root /\ (x # u.call => qn[x] = rn[x])
    BY <1>2 DEF Ended
  <2>4. \A x \in 1 .. Len(qn) : x <= Len(rn)
    BY <2>3
  <2> QED BY <2>2, <2>3, <2>4 DEF SameBut
<1>6. \A i \in 1 .. w - 1 : OrderAt(s, qn, i)
  <2>1. SameBut(rn, qn, s[w].ev.root) /\ \A j \in 1 .. w - 1 : s[j] = s[j]
    BY <1>5, <1>14
  <2> QED BY <1>1, <1>2, <1>14, <2>1, OrderBelow
<1> DEFINE k == w - 1
<1>7. k \in 0 .. n /\ k < n /\ \A i \in 1 .. k : i \in 1 .. n /\ i < w
  BY <1>1, <1>2
<1>8. Lower(s, r, k)
  BY <1>2, <1>3, <1>7 DEF Lower
<1>9. \A i \in 1 .. n : k < i => i = w \/ i = n - 1 \/ i = n
  BY <1>1, <1>2
<1>15. \A i \in 1 .. n : i > 1 => i - 1 \in 1 .. n
  BY <1>2
<1>16. \A i \in 1 .. n : Muted(s, i) => i = n
  BY DEF MutedOk
<1>17. (n - 1) - 1 = w /\ n - 1 # w /\ n # w /\ n \in 1 .. n
  BY <1>1, <1>2
<1> HIDE DEF n, w, k
<1>10. g = r[w] /\ e = r[n - 1] /\ u = s[n] /\ f = s[w] /\ d = s[n - 1] /\ n = Len(s)
  BY DEF f, g, d, e, u, w, n
<1>11. /\ g.frame = f.frame /\ g.method = f.method /\ e.frame = "dispatch" /\ r[n].frame = "user" /\ r[n].call = u.call
  BY <1>1, <1>2, <1>3, <1>10, <1>17 DEF SamePlace
<1>12. /\ OrderAt(r, qn, w) /\ ~Muted(r, w)
       /\ OrderAt(r, qn, n - 1) /\ ~Muted(r, n - 1)
       /\ OrderAt(r, qn, n) /\ ~Muted(r, n)
  <2>1. ~Muted(r, n - 1) /\ ~Muted(r, n)
    BY <1>10, <1>11 DEF Muted
  <2>2. OrderAt(r, qn, n - 1)
    BY <1>4, <1>10, <1>11, <1>17 DEF OrderAt, Active
  <2>3. CallOrder(g, e, r[n], qn)
    BY <1>4, <1>11 DEF CallOrder
  <2>4. OrderAt(r, qn, n)
    BY <1>2, <1>10, <1>11, <2>3 DEF OrderAt, Active
  <2>5. OrderAt(r, qn, w)
    BY <1>1, <1>4, <1>10, <1>11 DEF OrderAt, Active
  <2>6. ~Muted(r, w)
    <3> SUFFICES ASSUME Muted(r, w) PROVE FALSE
      OBVIOUS
    <3>1. w > 1 /\ w - 1 \in 1 .. n /\ k < n /\ k = w - 1
      BY <1>1, <1>7, <1>15 DEF Muted, k
    <3>2. r[w - 1] = s[w - 1]
      BY <3>1, <1>8 DEF Lower
    <3>3. r[w].ev.type = s[w].ev.type /\ r[w].frame = s[w].frame
      BY <1>3, <1>10, <1>11 DEF Stops
    <3> QED BY <3>1, <3>2, <3>3, <1>1 DEF Muted
  <2> QED BY <2>1, <2>2, <2>4, <2>5, <2>6
<1>13. Upper(r, qn, tr, k)
  BY <1>3, <1>9, <1>12 DEF Upper
<1>18. k < Len(s)
  BY <1>7, <1>10
<1>19. MutedOk(r, tr) /\ Orderly(r, qn)
  BY <1>6, <1>8, <1>13, <1>18, Rebuilt DEF k
<1> QED BY <1>4, <1>19

----------
(* The steps of walks.                                                      *)

\* An onclick is called, which is no handler.
LEMMA OnclickHeard ==
  ASSUME NEW rn, NEW call, NEW qn, Added(rn, call, qn), call.hid = 0, NEW root
  PROVE  SameHeard(rn, qn, root)
<1>1. \A x \in Heard(qn, root) : x \in Heard(rn, root) /\ qn[x] = rn[x]
  BY AddedHeard
<1>2. /\ Len(rn) \in Nat /\ Len(qn) = Len(rn) + 1 /\ \A x \in 1 .. Len(rn) : qn[x] = rn[x]
  BY DEF Added
<1>3. ASSUME NEW x \in Heard(rn, root) PROVE x \in Heard(qn, root)
  <2>1. x \in 1 .. Len(rn) /\ rn[x].root = root /\ rn[x].hid # 0
    BY HeardIs
  <2>2. x \in 1 .. Len(qn) /\ qn[x] = rn[x]
    BY <1>2, <2>1
  <2> QED BY <2>1, <2>2, HeardIs
<1>4. Heard(qn, root) = Heard(rn, root)
  BY <1>1, <1>3
<1> QED BY <1>1, <1>4 DEF SameHeard

\* An onclick does not disturb the order of handlers.
LEMMA OnclickInOrder ==
  ASSUME NEW rn, NEW call, NEW qn, Added(rn, call, qn), call.hid = 0, AllInOrder(rn)
  PROVE  AllInOrder(qn)
<1> DEFINE n == Len(rn)
<1>1. n \in Nat /\ Len(qn) = n + 1 /\ qn[n + 1] = call /\ \A x \in 1 .. n : qn[x] = rn[x]
  BY DEF Added
<1>2. \A x, y \in 1 .. n : x < y => InOrder(rn[x], rn[y])
  BY DEF AllInOrder
<1> HIDE DEF n
<1>3. ASSUME NEW x \in 1 .. n + 1, NEW y \in 1 .. n + 1, x < y PROVE InOrder(qn[x], qn[y])
  <2>1. x \in 1 .. n /\ (y \in 1 .. n \/ y = n + 1)
    BY <1>1, <1>3
  <2>2. CASE y \in 1 .. n
    BY <2>1, <2>2, <1>1, <1>2, <1>3
  <2>3. CASE y = n + 1
    BY <2>3, <1>1 DEF InOrder
  <2> QED BY <2>1, <2>2, <2>3
<1> QED BY <1>1, <1>3 DEF AllInOrder

\* The calls are of events that began, also with the new one.
LEMMA PastAdded ==
  ASSUME NEW rn, NEW call, NEW qn, Added(rn, call, qn), NEW b, Past(rn, b), call.root \in 1 .. b, call.elem <= call.node
  PROVE  Past(qn, b)
<1> DEFINE n == Len(rn)
<1>1. n \in Nat /\ Len(qn) = n + 1 /\ qn[n + 1] = call /\ \A x \in 1 .. n : qn[x] = rn[x]
  BY DEF Added
<1>2. \A x \in 1 .. n : rn[x].root \in 1 .. b /\ rn[x].elem <= rn[x].node
  BY DEF Past
<1> HIDE DEF n
<1>3. \A x \in 1 .. n + 1 : x \in 1 .. n \/ x = n + 1
  BY <1>1
<1> QED BY <1>1, <1>2, <1>3 DEF Past

\* A walk on top: its path, its event, and what is below it.
LEMMA WalkIs ==
  ASSUME SafetyInv, frames # <<>>, Active(Top)
  PROVE  /\ Len(frames) \in Nat \ {0} /\ Top = frames[Len(frames)] /\ Top \in Frames(Bound(binds)) /\ IsWalkOf(Top)
         /\ Top.ev.target \in 1 .. Document /\ PathOk(Top.path, Top.ev.target, Top.frame)
         /\ Stacked(frames) /\ Roots(frames, begun) /\ Top.ev.root \in 1 .. begun
         /\ begun \in Nat /\ frames \in Seq(Frames(Bound(binds))) /\ ran \in Seq(CallSet)
         /\ Below = SubSeq(frames, 1, Len(frames) - 1)
<1>1. Len(frames) \in Nat \ {0} /\ Top = frames[Len(frames)] /\ Top \in Frames(Bound(binds))
  BY TopIs
<1>2. IsWalkOf(Top)
  BY DEF IsWalkOf, Active
<1>3. Top.ev.target \in 1 .. Document /\ PathOk(Top.path, Top.ev.target, Top.frame)
  BY <1>1, <1>2 DEF Frames, Fits
<1>4. Stacked(frames) /\ Roots(frames, begun) /\ begun \in Nat /\ frames \in Seq(Frames(Bound(binds)))
      /\ ran \in Seq(CallSet)
  BY DEF SafetyInv, StackOk
<1>5. Len(frames) \in 1 .. Len(frames)
  BY <1>1
<1>6. Top.ev.root \in 1 .. begun
  BY <1>1, <1>4, <1>5 DEF Roots
<1> QED BY <1>1, <1>2, <1>3, <1>4, <1>6 DEF Below

\* The walk on top goes on, and an onclick may be called.
LEMMA WalkGoesOn ==
  ASSUME SafetyInv, Ordered, frames # <<>>, Active(Top), NEW f \in Frames(Bound(binds)), Advanced(Top, f), Become(f),
         ran' = ran \/ Onclick(Top.ev.root), UNCHANGED <<begun, triggered>>
  PROVE  Ordered'
<1> DEFINE H == Bound(binds)
           n == Len(frames)
           root == Top.ev.root
           S == Frames(H)
<1>1. /\ n \in Nat \ {0} /\ Top = frames[n] /\ PathOk(Top.path, Top.ev.target, Top.frame)
      /\ Stacked(frames) /\ Roots(frames, begun) /\ root \in 1 .. begun
      /\ begun \in Nat /\ frames \in Seq(S) /\ ran \in Seq(CallSet) /\ Below = SubSeq(frames, 1, n - 1) /\ f \in S
  BY WalkIs
<1>2. MutedOk(frames, triggered) /\ Orderly(frames, ran) /\ Past(ran, begun) /\ AllInOrder(ran)
  BY DEF Ordered, OrderOk
<1>3. Replaced(frames, f, frames')
  <2>1. frames' = Append(SubSeq(frames, 1, n - 1), f)
    BY <1>1 DEF Become
  <2> HIDE DEF S
  <2> QED BY <1>1, <2>1, ReplacedIs
<1>4. /\ SameHeard(ran, ran', root) /\ \A i \in 1 .. n - 1 : OrderAt(frames, ran', i)
      /\ Past(ran', begun) /\ AllInOrder(ran')
  <2>1. CASE ran' = ran
    <3>1. \A i \in 1 .. n - 1 : OrderAt(frames, ran, i)
      BY <1>1, <1>2 DEF Orderly
    <3> QED BY <2>1, <3>1, <1>2 DEF SameHeard
  <2>2. CASE Onclick(root)
    <3> DEFINE call == [root |-> root, hid |-> 0, node |-> 1, elem |-> 1, one |-> FALSE, ends |-> "no"]
    <3>1. ran' = Append(ran, call) /\ call.hid = 0 /\ call.root = root /\ call.elem <= call.node
      BY <2>2 DEF Onclick
    <3>2. call \in CallSet
      <4>1. 1 \in 1 .. Document /\ root \in Nat
        BY <1>1, DocumentAssumption
      <4> QED BY <4>1 DEF CallSet
    <3> HIDE DEF call, root
    <3>3. Added(ran, call, ran')
      BY <1>1, <3>1, <3>2, AddedIs
    <3>4. SameHeard(ran, ran', root) /\ Past(ran', begun) /\ AllInOrder(ran')
      BY <1>1, <1>2, <3>1, <3>3, OnclickHeard, OnclickInOrder, PastAdded
    <3>5. SameBut(ran, ran', root)
      <4> DEFINE o == call.root
      <4>1. o = root
        BY <3>1
      <4> HIDE DEF o
      <4>2. SameBut(ran, ran', o)
        BY <3>3, AddedHeard DEF o
      <4> QED BY <4>1, <4>2
    <3>6. SameBut(ran, ran', frames[n].ev.root) /\ n \in 1 .. n /\ Active(frames[n])
      BY <1>1, <3>5 DEF root
    <3>7. \A j \in 1 .. n - 1 : frames[j] = frames[j]
      OBVIOUS
    <3>8. \A i \in 1 .. n - 1 : OrderAt(frames, ran', i)
      BY <1>1, <1>2, <3>6, <3>7, OrderBelow
    <3> QED BY <3>4, <3>8
  <2> QED BY <2>1, <2>2
<1>5. MutedOk(frames', triggered) /\ Orderly(frames', ran')
  <2>1. /\ Active(frames[n]) /\ Advanced(frames[n], f) /\ SameHeard(ran, ran', frames[n].ev.root)
        /\ PathOk(frames[n].path, frames[n].ev.target, frames[n].frame)
    BY <1>1, <1>4
  <2> QED BY <1>1, <1>2, <1>3, <1>4, <2>1, ReplacedOrder
<1>6. begun' = begun /\ triggered' = triggered
  OBVIOUS
<1> QED BY <1>4, <1>5, <1>6 DEF Ordered, OrderOk

\* The walk on top makes a stop, and dispatches there.
LEMMA WalkDispatches ==
  ASSUME SafetyInv, Ordered, frames # <<>>, Active(Top), Top.path # <<>>, NEW stop, stop = Head(Top.path),
         stop.how = "handlers", ~(stop.first /\ Top.ev.stopped), ~Discarded(stop.type),
         NEW f, f = [Top EXCEPT !.path = Tail(@)],
         frames' = Below \o <<f, Dispatch(stop.node, stop.type)>>, UNCHANGED <<ran, begun, triggered>>
  PROVE  Ordered'
<1> DEFINE H == Bound(binds)
           n == Len(frames)
           S == Frames(H)
           m == stop.node
           type == stop.type
           g == Dispatch(m, type)
<1>1. /\ n \in Nat \ {0} /\ Top = frames[n] /\ Top \in S /\ IsWalkOf(Top)
      /\ PathOk(Top.path, Top.ev.target, Top.frame) /\ Top.ev.target \in 1 .. Document
      /\ Stacked(frames) /\ begun \in Nat /\ frames \in Seq(S) /\ ran \in Seq(CallSet)
      /\ Below = SubSeq(frames, 1, n - 1) /\ store \in Good(H)
  BY WalkIs DEF SafetyInv
<1>2. MutedOk(frames, triggered) /\ Orderly(frames, ran) /\ Past(ran, begun) /\ AllInOrder(ran)
  BY DEF Ordered, OrderOk
<1>3. /\ f \in S /\ SamePlace(Top, f) /\ f.ev = Top.ev /\ f.path = Tail(Top.path)
      /\ stop = Top.path[1] /\ stop \in StopSet /\ Top.ev.target <= m
  BY <1>1, NextStop
<1>4. 1 \in 1 .. Len(Top.path)
  BY <1>1, TailPath
<1>5. m \in 1 .. Document
  BY <1>3 DEF StopSet
<1>6. g = Dispatched(Top, n, m, type) /\ frames' = SubSeq(frames, 1, n - 1) \o <<f, g>>
  BY <1>1 DEF Dispatch, Dispatched
<1>16. stop.how = "handlers" /\ ~(stop.first /\ Top.ev.stopped) /\ triggered # type /\ type = stop.type /\ m = stop.node
  BY DEF Discarded
<1> HIDE DEF g, m, type, H
<1>7. g \in S /\ g.frame = "dispatch" /\ g.node = m /\ Taken(g.queue, H, Range(Handlers(store, m, type)), Top.ev.target, m)
  BY <1>1, <1>3, <1>5, <1>6, DispatchedIs
<1>8. \A k \in 1 .. Len(g.queue) : Top.ev.target <= g.queue[k].elem /\ g.queue[k].elem \in Nat
  <2>1. \A k \in 1 .. Len(g.queue) : g.queue[k].elem \in Top.ev.target .. m
    BY <1>7 DEF Taken
  <2> QED BY <2>1, <1>1
<1>9. DispatchFor(Top, g)
  BY <1>3, <1>7, <1>8, <1>16 DEF DispatchFor
<1>10. Grown(frames, f, g, frames')
  <2> HIDE DEF S
  <2> QED BY <1>1, <1>3, <1>6, <1>7, GrowsTo
<1>11. ~Muted(frames, n)
  <2> SUFFICES ASSUME Muted(frames, n) PROVE FALSE
    OBVIOUS
  <2>1. triggered = "click" /\ Quiet(Top.path)
    <3>1. n \in 1 .. n
      BY <1>1
    <3> QED BY <3>1, <1>1, <1>2 DEF MutedOk
  <2> QED BY <2>1, <1>3, <1>4, <1>16 DEF Quiet
<1>12. /\ Active(frames[n]) /\ SamePlace(frames[n], f) /\ f.ev = frames[n].ev /\ f.path = Tail(frames[n].path)
       /\ DispatchFor(frames[n], g) /\ frames[n].ev.target \in 1 .. Document
       /\ PathOk(frames[n].path, frames[n].ev.target, frames[n].frame)
  BY <1>1, <1>3, <1>9
<1>13. MutedOk(frames', triggered) /\ Orderly(frames', ran)
  <2> DEFINE s == frames
             r == frames'
  <2>1. /\ Stacked(s) /\ MutedOk(s, triggered) /\ Grown(s, f, g, r)
        /\ Active(s[Len(s)]) /\ ~Muted(s, Len(s)) /\ SamePlace(s[Len(s)], f) /\ f.ev = s[Len(s)].ev
        /\ f.path = Tail(s[Len(s)].path) /\ DispatchFor(s[Len(s)], g) /\ g.frame = "dispatch"
        /\ s[Len(s)].ev.target \in 1 .. Document /\ PathOk(s[Len(s)].path, s[Len(s)].ev.target, s[Len(s)].frame)
        /\ ran \in Seq(CallSet) /\ Orderly(s, ran) /\ Past(ran, begun)
    BY <1>1, <1>2, <1>7, <1>10, <1>11, <1>12
  <2> HIDE DEF s, r
  <2>2. MutedOk(r, triggered) /\ Orderly(r, ran)
    BY <2>1, DispatchedOrder
  <2> QED BY <2>2 DEF r
<1>14. begun' = begun /\ triggered' = triggered /\ ran' = ran
  OBVIOUS
<1> QED BY <1>2, <1>13, <1>14 DEF Ordered, OrderOk

\* A stop of the browser's walk keeps the order.
LEMMA NativeStopOrder == SafetyInv /\ Ordered /\ NativeStop => Ordered'
<1> SUFFICES ASSUME SafetyInv, Ordered, NativeStop PROVE Ordered'
  OBVIOUS
<1> DEFINE H == Bound(binds)
           S == Frames(H)
           stop == Head(Top.path)
           f == [Top EXCEPT !.path = Tail(@)]
           over == [Top EXCEPT !.path = <<>>]
           n == Len(frames)
<1>1. frames # <<>> /\ Top.frame = "native" /\ Top.path # <<>> /\ triggered' = triggered
  BY DEF NativeStop, Running
<1>2. Active(Top)
  BY <1>1 DEF Active
<1>3. /\ n \in Nat \ {0} /\ Top = frames[n] /\ Top \in S /\ IsWalkOf(Top)
      /\ PathOk(Top.path, Top.ev.target, Top.frame) /\ Top.ev.target \in 1 .. Document
      /\ Stacked(frames) /\ begun \in Nat /\ frames \in Seq(S) /\ ran \in Seq(CallSet)
      /\ Below = SubSeq(frames, 1, n - 1)
  BY <1>1, <1>2, WalkIs
<1>4. /\ f \in S /\ SamePlace(Top, f) /\ f.ev = Top.ev /\ f.path = Tail(Top.path)
      /\ over \in S /\ SamePlace(Top, over) /\ over.ev = Top.ev /\ over.path = <<>>
      /\ stop = Top.path[1] /\ 1 \in 1 .. Len(Top.path)
  BY <1>1, <1>3, NextStop, TailPath
<1>5. \/ stop.first /\ Top.ev.stopped /\ Become(over) /\ UNCHANGED <<begun, ran>>
      \/ /\ ~(stop.first /\ Top.ev.stopped)
         /\ \/ stop.how = "capture" /\ Simulate(f) /\ UNCHANGED ran
            \/ Become(f) /\ Onclick(Top.ev.root) /\ UNCHANGED begun
            \/ /\ stop.how = "handlers" /\ ~Discarded(stop.type)
               /\ frames' = Below \o <<f, Dispatch(stop.node, stop.type)>> /\ UNCHANGED <<begun, ran>>
            \/ Become(f) /\ UNCHANGED <<begun, ran>>
  BY Zenon DEF NativeStop, history
<1> HIDE DEF f, over, stop, H
<1>6. Advanced(Top, over)
  BY <1>4 DEF Advanced
<1>7. ~(stop.first /\ Top.ev.stopped) => Advanced(Top, f)
  BY <1>1, <1>4 DEF Advanced
<1>8. CASE Become(over) /\ UNCHANGED <<begun, ran>>
  BY <1>1, <1>2, <1>4, <1>6, <1>8, WalkGoesOn DEF H
<1>9. CASE /\ ~(stop.first /\ Top.ev.stopped) /\ Become(f) /\ begun' = begun
           /\ ran' = ran \/ Onclick(Top.ev.root)
  BY <1>1, <1>2, <1>4, <1>7, <1>9, WalkGoesOn DEF H
<1>10. CASE /\ ~(stop.first /\ Top.ev.stopped) /\ stop.how = "handlers" /\ ~Discarded(stop.type)
            /\ frames' = Below \o <<f, Dispatch(stop.node, stop.type)>> /\ UNCHANGED <<begun, ran>>
  <2>1. stop = Head(Top.path) /\ f = [Top EXCEPT !.path = Tail(@)]
    BY DEF stop, f
  <2> QED BY <2>1, <1>1, <1>2, <1>10, WalkDispatches
<1>11. CASE ~(stop.first /\ Top.ev.stopped) /\ stop.how = "capture" /\ Simulate(f) /\ UNCHANGED ran
  <2> DEFINE c == begun + 1
             g == Simulated(f, n, c)
  <2>1. \/ frames' = SubSeq(frames, 1, n - 1) \o <<f, g>> /\ begun' = c
        \/ Become(f) /\ begun' = begun
    BY <1>11, <1>3 DEF Simulate, Simulated
  <2>2. Follows(begun, c) /\ c \in Nat /\ IsSimulated(f, n, c, g)
    BY <1>3 DEF Follows, IsSimulated
  <2>3. \A x : x \in 1 .. begun => x # c
    BY <1>3
  <2> HIDE DEF c, g
  <2>4. CASE frames' = SubSeq(frames, 1, n - 1) \o <<f, g>> /\ begun' = c
    <3>1. FocusinWalk(H, f, c, g)
      <4>1. IsWalkOf(f)
        BY <1>3, <1>4 DEF IsWalkOf, SamePlace
      <4> QED BY <4>1, <1>3, <1>4, <2>2, SimulatedIs
    <3>2. g \in S /\ g.frame = "trigger" /\ g.ev.root = c /\ g.ev.stopped = FALSE
      BY <3>1 DEF FocusinWalk
    <3>3. MutedOk(frames, triggered) /\ Orderly(frames, ran) /\ Past(ran, begun) /\ AllInOrder(ran)
      BY DEF Ordered, OrderOk
    <3>4. WalkOrder(g, ran)
      <4>1. \A x \in 1 .. Len(ran) : ran[x].root # g.ev.root
        BY <2>3, <3>2, <3>3 DEF Past
      <4> QED BY <3>2, <4>1, FreshWalk
    <3>5. Grown(frames, f, g, frames')
      <4> HIDE DEF S
      <4> QED BY <1>1, <1>3, <1>4, <2>4, <3>2, GrowsTo
    <3>6. ~Muted(frames, n)
      <4> SUFFICES ASSUME Muted(frames, n) PROVE FALSE
        OBVIOUS
      <4>1. Quiet(Top.path)
        <5>1. n \in 1 .. n
          BY <1>3
        <5> QED BY <5>1, <1>3, <3>3 DEF MutedOk
      <4> QED BY <4>1, <1>4, <1>11 DEF Quiet
    <3>7. /\ Active(frames[n]) /\ Advanced(frames[n], f)
          /\ PathOk(frames[n].path, frames[n].ev.target, frames[n].frame)
      BY <1>2, <1>3, <1>7, <1>11
    <3>8. MutedOk(frames', triggered) /\ Orderly(frames', ran)
      BY <1>3, <3>2, <3>3, <3>4, <3>5, <3>6, <3>7, SimulatedOrder
    <3>9. Past(ran, c)
      <4>1. begun <= c /\ begun \in Nat
        BY <2>2 DEF Follows
      <4> QED BY <4>1, <2>2, <3>3, PastLater
    <3> QED BY <1>1, <1>11, <2>4, <3>3, <3>8, <3>9 DEF Ordered, OrderOk
  <2>5. CASE Become(f) /\ begun' = begun
    BY <2>5, <1>9, <1>11
  <2> QED BY <2>1, <2>4, <2>5
<1> QED BY <1>5, <1>8, <1>9, <1>10, <1>11

\* A stop of the walk of trigger keeps it.
LEMMA TriggerStopOrder == SafetyInv /\ Ordered /\ TriggerStop => Ordered'
<1> SUFFICES ASSUME SafetyInv, Ordered, TriggerStop PROVE Ordered'
  OBVIOUS
<1> DEFINE H == Bound(binds)
           S == Frames(H)
           stop == Head(Top.path)
           f == [Top EXCEPT !.path = Tail(@)]
           over == [Top EXCEPT !.path = <<>>]
<1>1. frames # <<>> /\ Top.frame = "trigger" /\ ~Top.method /\ Top.path # <<>> /\ UNCHANGED <<triggered, begun>>
  BY DEF TriggerStop, Running, bounds
<1>2. Active(Top)
  BY <1>1 DEF Active
<1>3. Top \in S /\ IsWalkOf(Top) /\ PathOk(Top.path, Top.ev.target, Top.frame)
  BY <1>1, <1>2, WalkIs
<1>4. /\ f \in S /\ SamePlace(Top, f) /\ f.ev = Top.ev /\ f.path = Tail(Top.path)
      /\ over \in S /\ SamePlace(Top, over) /\ over.ev = Top.ev /\ over.path = <<>>
      /\ stop = Top.path[1]
  BY <1>1, <1>3, NextStop
<1>5. \/ Become(over) /\ UNCHANGED ran
      \/ /\ ~(stop.first /\ Top.ev.stopped)
         /\ \/ Become(f) /\ Onclick(Top.ev.root)
            \/ /\ stop.how = "handlers" /\ ~Discarded(stop.type)
               /\ frames' = Below \o <<f, Dispatch(stop.node, stop.type)>> /\ UNCHANGED ran
            \/ Become(f) /\ UNCHANGED ran
  BY Zenon DEF TriggerStop, history
<1> HIDE DEF f, over, stop, H
<1>6. Advanced(Top, over)
  BY <1>4 DEF Advanced
<1>7. ~(stop.first /\ Top.ev.stopped) => Advanced(Top, f)
  BY <1>1, <1>4 DEF Advanced
<1>8. CASE Become(over) /\ UNCHANGED ran
  BY <1>1, <1>2, <1>4, <1>6, <1>8, WalkGoesOn DEF H
<1>9. CASE ~(stop.first /\ Top.ev.stopped) /\ Become(f) /\ (ran' = ran \/ Onclick(Top.ev.root))
  BY <1>1, <1>2, <1>4, <1>7, <1>9, WalkGoesOn DEF H
<1>10. CASE /\ ~(stop.first /\ Top.ev.stopped) /\ stop.how = "handlers" /\ ~Discarded(stop.type)
            /\ frames' = Below \o <<f, Dispatch(stop.node, stop.type)>> /\ UNCHANGED ran
  <2>1. stop = Head(Top.path) /\ f = [Top EXCEPT !.path = Tail(@)]
    BY DEF stop, f
  <2> QED BY <2>1, <1>1, <1>2, <1>10, WalkDispatches
<1> QED BY <1>5, <1>8, <1>9, <1>10

\* So does any step that takes the frame on top away.
LEMMA PopOrder ==
  ASSUME SafetyInv, Ordered, frames # <<>>, frames' = Below, UNCHANGED <<ran, begun>>
  PROVE  Ordered'
<1> DEFINE S == Frames(Bound(binds))
           n == Len(frames)
<1>1. /\ frames \in Seq(S) /\ frames' = SubSeq(frames, 1, n - 1) /\ Stacked(frames)
      /\ MutedOk(frames, triggered) /\ Orderly(frames, ran) /\ Past(ran, begun) /\ AllInOrder(ran)
  BY DEF SafetyInv, StackOk, Below, Ordered, OrderOk
<1> HIDE DEF S
<1>2. Shortened(frames, n - 1, frames') /\ n \in Nat \ {0}
  BY <1>1, PoppedIs
<1> DEFINE k == n - 1
<1>3. k < n
  BY <1>2
<1> HIDE DEF k
<1>4. MutedOk(frames', triggered') /\ Orderly(frames', ran)
  BY <1>1, <1>2, <1>3, ShortenedOrder DEF k
<1>5. ran' = ran /\ begun' = begun
  OBVIOUS
<1> QED BY <1>1, <1>4, <1>5 DEF Ordered, OrderOk

\* A walk of another event in the place of the one on top.
LEMMA FreshTop ==
  ASSUME NEW s, Len(s) \in Nat \ {0}, Stacked(s), NEW tr, MutedOk(s, tr), NEW g, g.frame = "native", g.ev.type # "click",
         NEW r, Replaced(s, g, r), NEW rn, Orderly(s, rn), WalkOrder(g, rn)
  PROVE  MutedOk(r, tr) /\ Orderly(r, rn)
<1> DEFINE n == Len(s)
           k == n - 1
<1>1. /\ n \in Nat \ {0} /\ Len(r) = n /\ r[n] = g /\ k = n - 1 /\ k < n /\ \A i \in 1 .. k : r[i] = s[i]
  BY DEF Replaced
<1>2. \A i \in 1 .. k : OrderAt(s, rn, i)
  BY <1>1 DEF Orderly
<1>3. Lower(s, r, k) /\ k < Len(s)
  BY <1>1 DEF Lower
<1> HIDE DEF n, k
<1>4. OrderAt(r, rn, n) /\ ~Muted(r, n)
  BY <1>1 DEF OrderAt, Muted
<1>5. \A i \in 1 .. n : k < i => i = n
  BY <1>1
<1>6. Upper(r, rn, tr, k)
  BY <1>1, <1>4, <1>5 DEF Upper
<1> QED BY <1>2, <1>3, <1>6, Rebuilt

\* The end of the browser's walk keeps the order; a submission that it begins is a new event.
LEMMA NativeEndsOrder == SafetyInv /\ Ordered /\ NativeEnds => Ordered'
<1> SUFFICES ASSUME SafetyInv, Ordered, NativeEnds PROVE Ordered'
  OBVIOUS
<1> DEFINE H == Bound(binds)
           S == Frames(H)
           n == Len(frames)
<1>1. frames # <<>> /\ Top.frame = "native" /\ UNCHANGED <<triggered, ran>>
  BY DEF NativeEnds, Running
<1>2. /\ frames \in Seq(S) /\ Below = SubSeq(frames, 1, n - 1) /\ Stacked(frames) /\ begun \in Nat /\ n \in Nat \ {0}
      /\ Top \in S /\ MutedOk(frames, triggered) /\ Orderly(frames, ran) /\ Past(ran, begun) /\ AllInOrder(ran)
  BY <1>1, TopIs DEF SafetyInv, StackOk, Below, Ordered, OrderOk
<1>3. \/ frames' = Below /\ begun' = begun
      \/ /\ frames' = Append(Below, Native("submit", 2, begun + 1, Top.method)) /\ begun' = begun + 1
         /\ 2 < Document
  BY Zenon DEF NativeEnds, Pop, Become
<1>4. CASE frames' = Below /\ begun' = begun
  BY <1>1, <1>4, PopOrder
<1>5. CASE /\ frames' = Append(Below, Native("submit", 2, begun + 1, Top.method)) /\ begun' = begun + 1
           /\ 2 < Document
  <2> DEFINE c == begun + 1
             m == Top.method
             submit == "submit"
             g == Native(submit, 2, c, m)
  <2>1. c \in Nat /\ Follows(begun, c) /\ m \in BOOLEAN /\ 2 \in 1 .. Document /\ submit \in EventTypes
    <3>1. m \in BOOLEAN /\ submit \in EventTypes
      BY <1>2 DEF Frames, FrameSet, EventTypes
    <3>2. 2 < Document
      BY <1>5
    <3>3. 2 \in 1 .. Document /\ c \in Nat /\ Follows(begun, c)
      BY <3>2, <1>2, DocumentAssumption DEF Follows
    <3> QED BY <3>1, <3>3
  <2>2. frames' = Append(SubSeq(frames, 1, n - 1), g) /\ begun' = c /\ IsNative(submit, 2, c, m, g)
    BY <1>2, <1>5 DEF IsNative
  <2>3. begun <= c /\ \A x : x \in 1 .. begun => x # c
    BY <1>2
  <2>4. submit # "click"
    OBVIOUS
  <2> HIDE DEF c, m, g, submit
  <2>5. NativeWalk(H, submit, 2, c, m, g)
    BY <2>1, <2>2, NativeWalkIs
  <2>6. g \in S /\ g.frame = "native" /\ g.ev.type # "click" /\ g.ev.stopped = FALSE /\ g.ev.root = c
    BY <2>4, <2>5 DEF NativeWalk
  <2>7. Replaced(frames, g, frames')
    <3> HIDE DEF S
    <3> QED BY <1>1, <1>2, <2>2, <2>6, ReplacedIs
  <2>8. WalkOrder(g, ran)
    <3>1. \A x \in 1 .. Len(ran) : ran[x].root # g.ev.root
      BY <1>2, <2>3, <2>6 DEF Past
    <3> QED BY <2>6, <3>1, FreshWalk
  <2>9. MutedOk(frames', triggered) /\ Orderly(frames', ran)
    BY <1>2, <2>6, <2>7, <2>8, FreshTop
  <2>10. Past(ran, c)
    BY <1>2, <2>1, <2>3, PastLater
  <2> QED BY <1>1, <1>2, <2>2, <2>9, <2>10 DEF Ordered, OrderOk
<1> QED BY <1>3, <1>4, <1>5

\* What trigger of focusin prevented changes nothing else.
LEMMA DonorAlike ==
  ASSUME NEW H, NEW s \in Seq(Frames(H)), NEW d, NEW r, DonorPrevented(s, d, r), Marked(s, r)
  PROVE  Alike(s, r)
<1>1. r = [s EXCEPT ![d].ev.prevented = TRUE]
  BY DEF DonorPrevented
<1>3. s \in [1 .. Len(s) -> Frames(H)]
  OBVIOUS
<1>2. ASSUME NEW i \in 1 .. Len(s) PROVE r[i].ev.stopped = s[i].ev.stopped /\ r[i].ev.immediate = s[i].ev.immediate
  <2>1. s[i] \in FrameSet(H)
    <3>1. s[i] \in Frames(H)
      OBVIOUS
    <3> QED BY <3>1 DEF Frames
  <2>2. CASE i # d
    BY <1>1, <2>2
  <2>3. CASE i = d
    <3>1. r[i] = [s[i] EXCEPT !.ev.prevented = TRUE]
      BY <1>1, <1>3, <2>3
    <3> QED BY <2>1, <3>1 DEF FrameSet, EventSet
  <2> QED BY <2>2, <2>3
<1> QED BY <1>2 DEF Alike

\* The stops of a click.
LEMMA ClickPath ==
  ASSUME NEW target \in 1 .. Document, NEW root \in Nat, NEW method \in BOOLEAN, NEW f, IsNative("click", target, root, method, f)
  PROVE  Quiet(f.path)
<1> DEFINE type == "click"
<1>1. f = Native(type, target, root, method) /\ type \in EventTypes
  BY DEF IsNative, EventTypes
<1>2. type # "focus"
  OBVIOUS
<1> HIDE DEF type
<1>3. Plain(f.path, type)
  BY <1>1, NativeIs
<1> QED BY <1>2, <1>3 DEF Quiet, Plain, type

\* The end of the walk of trigger keeps the order: the click() that it calls has the same event,
\* and runs no handlers.
LEMMA TriggerDefaultOrder == SafetyInv /\ Ordered /\ TriggerDefault => Ordered'
<1> SUFFICES ASSUME SafetyInv, Ordered, TriggerDefault PROVE Ordered'
  OBVIOUS
<1> DEFINE H == Bound(binds)
           S == Frames(H)
           n == Len(frames)
           f == [Top EXCEPT !.method = TRUE]
           click == "click"
           target == Top.ev.target
           root == Top.ev.root
           yes == TRUE
           g == Native(click, target, root, yes)
<1>1. frames # <<>> /\ Top.frame = "trigger" /\ ~Top.method /\ UNCHANGED <<ran, begun>>
  BY DEF TriggerDefault, Running, bounds
<1>2. /\ frames \in Seq(S) /\ Below = SubSeq(frames, 1, n - 1) /\ Stacked(frames) /\ begun \in Nat /\ n \in Nat \ {0}
      /\ Top \in S /\ MutedOk(frames, triggered) /\ Orderly(frames, ran) /\ Past(ran, begun) /\ AllInOrder(ran)
      /\ StackOk(frames, begun, vetoed, acted)
  BY <1>1, TopIs DEF SafetyInv, StackOk, Below, Ordered, OrderOk
<1>3. \/ frames' = [Below EXCEPT ![Top.ev.donor].ev.prevented = TRUE]
      \/ frames' = Below
      \/ frames' = Below \o <<f, g>> /\ triggered' = click
  BY Zenon DEF TriggerDefault, Pop
<1>4. CASE frames' = Below
  BY <1>1, <1>4, PopOrder
<1>5. CASE frames' = [Below EXCEPT ![Top.ev.donor].ev.prevented = TRUE]
  <2> DEFINE s == Below
             d == Top.ev.donor
             k == n - 1
  <2>1. DonorPrevented(s, d, frames') /\ k < n /\ k = n - 1
    BY <1>2, <1>5 DEF DonorPrevented
  <2> HIDE DEF s, d, k
  <2>2. s \in Seq(S) /\ StackOk(s, begun, vetoed, acted) /\ Shortened(frames, k, s)
    <3>1. s = SubSeq(frames, 1, n - 1)
      BY <1>2 DEF s
    <3> HIDE DEF H
    <3> QED BY <3>1, <1>1, <1>2, <2>1, MovePop
  <2>3. MutedOk(s, triggered') /\ Orderly(s, ran)
    BY <1>2, <2>1, <2>2, ShortenedOrder
  <2>4. Alike(s, frames')
    <3> HIDE DEF H
    <3>1. Marked(s, frames')
      BY <1>2, <2>1, <2>2, MoveDonor
    <3> QED BY <3>1, <2>1, <2>2, DonorAlike
  <2>5. Stacked(s) /\ Len(s) \in Nat
    <3>1. Stacked(s)
      BY <2>2 DEF StackOk
    <3> HIDE DEF S
    <3>2. Len(s) \in Nat
      BY <2>2
    <3> QED BY <3>1, <3>2
  <2>6. MutedOk(frames', triggered') /\ Orderly(frames', ran)
    BY <2>3, <2>4, <2>5, AlikeOrder
  <2> QED BY <1>1, <1>2, <2>6 DEF Ordered, OrderOk
<1>6. CASE frames' = Below \o <<f, g>> /\ triggered' = click
  <2>1. target \in 1 .. Document /\ root \in Nat /\ click \in EventTypes /\ yes \in BOOLEAN /\ click = "click"
    BY <1>1, <1>2 DEF Frames, FrameSet, EventSet, Fits, IsWalkOf, EventTypes
  <2>2. f \in S /\ f.frame = "trigger" /\ f.method = TRUE
    BY <1>1, <1>2, MethodCalled
  <2>3. IsNative(click, target, root, yes, g) /\ frames' = SubSeq(frames, 1, n - 1) \o <<f, g>>
    BY <1>2, <1>6 DEF IsNative
  <2> HIDE DEF f, g, target, root, click, yes, H
  <2>4. NativeWalk(H, click, target, root, yes, g)
    BY <2>1, <2>3, NativeWalkIs
  <2>5. g \in S /\ g.frame = "native" /\ g.ev.type = "click"
    BY <2>1, <2>4 DEF NativeWalk
  <2>8. Quiet(g.path)
    <3>1. IsNative("click", target, root, yes, g)
      BY <2>1, <2>3
    <3> QED BY <2>1, <3>1, ClickPath
  <2>6. Grown(frames, f, g, frames')
    <3> HIDE DEF S
    <3> QED BY <1>1, <1>2, <2>2, <2>3, <2>5, GrowsTo
  <2>7. MutedOk(frames', "click") /\ Orderly(frames', ran)
    BY <1>2, <2>2, <2>5, <2>6, <2>8, ClickedOrder
  <2> QED BY <1>1, <1>2, <1>6, <2>1, <2>7 DEF Ordered, OrderOk
<1> QED BY <1>3, <1>4, <1>5, <1>6

\* The return of a method that trigger called keeps the order.
LEMMA TriggerReturnsOrder == SafetyInv /\ Ordered /\ TriggerReturns => Ordered'
BY PopOrder DEF TriggerReturns, Running, bounds, history, Pop

\* The return of a handler or a script keeps it.
LEMMA ReturnOrder == SafetyInv /\ Ordered /\ Return => Ordered'
BY PopOrder DEF Return, Running, bounds, history, Pop

\* The event of the dispatch on top.
LEMMA DispatchEvent ==
  ASSUME SafetyInv, frames # <<>>, Top.frame = "dispatch"
  PROVE  /\ EventAt(frames[Len(frames) - 1], frames[Len(frames)]) = frames[Top.owner].ev
         /\ frames[Top.owner].ev \in EventSet
<1> DEFINE n == Len(frames)
<1>1. n \in Nat \ {0} /\ Top = frames[n] /\ FrameOk(frames, n) /\ n \in 1 .. n
  BY TopIs
<1>2. /\ Active(frames[n - 1])
      /\ frames[n - 1].frame = "native" => Top.owner = n
      /\ frames[n - 1].frame = "trigger" => Top.owner = n - 1
  BY <1>1 DEF FrameOk
<1>3. EventAt(frames[n - 1], frames[n]) = frames[Top.owner].ev
  BY <1>1, <1>2 DEF EventAt, Active
<1>4. frames[Top.owner] \in Frames(Bound(binds))
  BY DispatchOwner
<1>5. frames[Top.owner].ev \in EventSet
  BY <1>4 DEF Frames, FrameSet
<1> QED BY <1>3, <1>5

\* A dispatch that calls its next handler, skips it or is over keeps the order.
LEMMA DispatchesOrder == SafetyInv /\ Ordered /\ Dispatches => Ordered'
<1> SUFFICES ASSUME SafetyInv, Ordered, Dispatches PROVE Ordered'
  OBVIOUS
<1> DEFINE H == Bound(binds)
           S == Frames(H)
           n == Len(frames)
           ev == frames[Top.owner].ev
           q == Head(Top.queue)
           rest == [Top EXCEPT !.queue = Tail(@), !.elem = q.elem]
           user == [Frame("user") EXCEPT !.fn = q.h.fn, !.call = Len(ran) + 1]
           call == [root |-> ev.root, hid |-> q.h.hid, node |-> Top.node, elem |-> q.elem, one |-> q.h.one, ends |-> "no"]
           walk == frames[n - 1]
           d == frames[n]
<1>1. frames # <<>> /\ Top.frame = "dispatch"
  BY DEF Dispatches, Running
<1>2. /\ n \in Nat \ {0} /\ Top = d /\ Top \in S /\ frames \in Seq(S) /\ binds \in Nat /\ begun \in Nat
      /\ Below = SubSeq(frames, 1, n - 1) /\ Stacked(frames) /\ Roots(frames, begun) /\ ran \in Seq(CallSet)
      /\ MutedOk(frames, triggered) /\ Orderly(frames, ran) /\ Past(ran, begun) /\ AllInOrder(ran)
  BY <1>1, TopIs DEF SafetyInv, StackOk, Below, Ordered, OrderOk
<1>3. UNCHANGED <<begun, triggered>>
  BY DEF Dispatches, bounds
<1>4. \/ frames' = Below /\ ran' = ran
      \/ /\ Top.queue # <<>> /\ ~ev.immediate /\ ~(ev.stopped /\ q.elem # Top.elem)
         /\ \/ frames' = Append(Below, rest) /\ ran' = ran
            \/ frames' = Below \o <<rest, user>> /\ ran' = Append(ran, call)
  <2>1. \/ Pop /\ UNCHANGED ran
        \/ ~DispatchOver(Top, ev) /\ Become(rest) /\ UNCHANGED ran
        \/ ~DispatchOver(Top, ev) /\ frames' = Below \o <<rest, user>> /\ ran' = Append(ran, call)
    BY Zenon DEF Dispatches
  <2>2. ~DispatchOver(Top, ev) => Top.queue # <<>> /\ ~ev.immediate /\ ~(ev.stopped /\ q.elem # Top.elem)
    BY Zenon DEF DispatchOver
  <2> QED BY <2>1, <2>2 DEF Pop, Become
<1>5. CASE frames' = Below /\ ran' = ran
  BY <1>1, <1>3, <1>5, PopOrder
<1>6. EventAt(walk, d) = ev /\ ev \in EventSet
  BY <1>1, DispatchEvent
<1>7. /\ walk.ev.root = ev.root /\ ev.root \in 1 .. begun
  <2>1. walk.ev.root = ev.root /\ n - 1 \in 1 .. n /\ Active(walk)
    BY <1>1, DispatchOwner
  <2>2. walk.ev.root \in 1 .. begun
    BY <1>2, <2>1 DEF Roots
  <2> QED BY <2>1, <2>2
<1>8. CASE /\ Top.queue # <<>> /\ ~ev.immediate /\ ~(ev.stopped /\ q.elem # Top.elem)
           /\ \/ frames' = Append(Below, rest) /\ ran' = ran
              \/ frames' = Below \o <<rest, user>> /\ ran' = Append(ran, call)
  <2>1. NextOf(H, Top, rest)
    <3>1. IsNext(Top, rest)
      BY DEF IsNext
    <3> HIDE DEF rest, H
    <3> QED BY <3>1, <1>1, <1>2, <1>8, NextIs
  <2>2. /\ rest \in S /\ SamePlace(Top, rest) /\ rest.ev = d.ev /\ rest.elem = d.queue[1].elem
        /\ q = d.queue[1] /\ q.elem \in 1 .. d.node /\ q.h \in H /\ 1 \in 1 .. Len(d.queue)
        /\ \A k \in 1 .. Len(rest.queue) : rest.queue[k] = d.queue[k + 1] /\ k + 1 \in 1 .. Len(d.queue)
    BY <1>2, <2>1 DEF NextOf
  <2>3. rest.frame = "dispatch" /\ rest.node = d.node
    BY <1>1, <1>2, <2>2 DEF SamePlace
  <2>4. ev.immediate = FALSE /\ (ev.stopped => q.elem = d.elem)
    BY <1>2, <1>6, <1>8 DEF EventSet
  <2> HIDE DEF rest, walk, d, user
  <2>5. Proceeds(walk, d, rest)
    BY <1>6, <2>2, <2>3, <2>4 DEF Proceeds
  <2>6. CASE frames' = Append(Below, rest) /\ ran' = ran
    <3>1. Replaced(frames, rest, frames')
      <4> HIDE DEF S
      <4> QED BY <1>1, <1>2, <2>2, <2>6, ReplacedIs
    <3>2. Proceeds(frames[Len(frames) - 1], frames[Len(frames)], rest) /\ frames[Len(frames)].frame = "dispatch"
      BY <1>1, <1>2, <2>5 DEF walk, d
    <3>3. MutedOk(frames', triggered) /\ Orderly(frames', ran)
      BY <1>2, <2>3, <3>1, <3>2, SkippedOrder
    <3> QED BY <1>2, <1>3, <2>6, <3>3 DEF Ordered, OrderOk
  <2>7. CASE frames' = Below \o <<rest, user>> /\ ran' = Append(ran, call)
    <3>1. q.h.hid \in Nat /\ q.h.hid # 0 /\ q.h.one \in BOOLEAN /\ q.h.fn \in {0} \cup {b.fn : b \in Bindings}
      <4> DEFINE h == q.h
      <4>1. h \in Bound(binds) /\ binds \in Nat
        BY <1>2, <2>2
      <4> HIDE DEF h, H
      <4>2. h.hid \in 1 .. binds
        BY <4>1, BoundGrows
      <4>3. h.hid # 0 /\ h.hid \in Nat /\ h.one \in BOOLEAN /\ h.fn \in {0} \cup {b.fn : b \in Bindings}
        BY <4>1, <4>2, BoundIs
      <4> QED BY <4>3 DEF h
    <3>2. d.node \in 1 .. Document /\ Taken(d.queue, H, H, 1, d.node)
      BY <1>1, <1>2 DEF Frames, Fits
    <3>3. \A k \in 1 .. Len(d.queue) : q.elem <= d.queue[k].elem
      <4>1. \A k, l \in 1 .. Len(d.queue) : k < l => d.queue[k].elem <= d.queue[l].elem
        BY <3>2 DEF Taken
      <4>2. \A k \in 1 .. Len(d.queue) : k = 1 \/ 1 < k
        OBVIOUS
      <4> QED BY <2>2, <4>1, <4>2
    <3>4. d.node \in Nat /\ 1 .. d.node \subseteq 1 .. Document
      BY <3>2, DocumentAssumption
    <3>5. call \in CallSet
      <4>1. ev.root \in Nat /\ Top.node \in 1 .. Document /\ q.elem \in 1 .. Document
        BY <1>2, <1>7, <2>2, <3>2, <3>4
      <4> HIDE DEF ev, q
      <4> QED BY <3>1, <4>1 DEF CallSet
    <3>6. /\ call.root = ev.root /\ call.hid # 0 /\ call.node = d.node /\ call.elem = d.queue[1].elem
          /\ call.ends = "no" /\ call.elem <= call.node
      BY <1>2, <2>2, <3>1, <3>4
    <3>7. user \in S /\ user.frame = "user" /\ user.call = Len(ran) + 1
      <4> DEFINE c == Len(ran) + 1
                 fn == q.h.fn
      <4>1. c \in Nat /\ fn \in {0} \cup {b.fn : b \in Bindings} /\ IsCalled(fn, c, user)
        BY <1>2, <3>1 DEF IsCalled, user
      <4> HIDE DEF c, fn, H
      <4>2. user \in S /\ user.frame = "user" /\ user.call = c
        BY <4>1, UserIs
      <4> QED BY <4>2 DEF c
    <3> HIDE DEF call, ev, q
    <3>8. Added(ran, call, ran')
      BY <1>2, <2>7, <3>5, AddedIs
    <3>9. Calls(walk, d, rest, call)
      BY <1>7, <2>2, <2>5, <3>3, <3>4, <3>6 DEF Calls
    <3>10. Grown(frames, rest, user, frames')
      <4> HIDE DEF S
      <4> QED BY <1>1, <1>2, <2>2, <2>7, <3>7, GrowsTo
    <3>11. Calls(frames[Len(frames) - 1], frames[Len(frames)], rest, call) /\ frames[Len(frames)].frame = "dispatch"
      BY <1>1, <1>2, <3>9 DEF walk, d
    <3>12. MutedOk(frames', triggered) /\ Orderly(frames', ran') /\ AllInOrder(ran')
      <4> DEFINE s == frames
                 r == frames'
                 rn == ran
                 qn == ran'
      <4>1. /\ Len(s) \in Nat \ {0} /\ Stacked(s) /\ begun \in Nat /\ Roots(s, begun) /\ s[Len(s)].frame = "dispatch"
            /\ MutedOk(s, triggered) /\ Orderly(s, rn) /\ AllInOrder(rn)
            /\ rest.frame = "dispatch" /\ user.frame = "user" /\ user.call = Len(rn) + 1 /\ Grown(s, rest, user, r)
            /\ Calls(s[Len(s) - 1], s[Len(s)], rest, call) /\ Added(rn, call, qn)
        BY <1>2, <2>3, <3>7, <3>8, <3>10, <3>11
      <4> HIDE DEF s, r, rn, qn
      <4>2. MutedOk(r, triggered) /\ Orderly(r, qn) /\ AllInOrder(qn)
        BY <4>1, CalledOrder
      <4> QED BY <4>2 DEF r, qn
    <3>13. Past(ran', begun)
      BY <1>2, <1>7, <3>6, <3>8, PastAdded
    <3> QED BY <1>3, <3>12, <3>13 DEF Ordered, OrderOk
  <2> QED BY <1>8, <2>6, <2>7
<1> QED BY <1>4, <1>5, <1>8

----------
(* Handlers set flags.                                                      *)

\* The event of the handler on top, before and after d was put in its place.
FlagsMade(s, d, e, r) ==
  /\ EventAt(s[Len(s) - 2], s[Len(s) - 1]) = EventOf(s) /\ EventAt(r[Len(s) - 2], r[Len(s) - 1]) = d
  /\ s[Len(s) - 2].ev = WalkEvent(s)
  /\ r[Len(s) - 2].ev = d \/ r[Len(s) - 2].ev = e
  /\ \A i \in 1 .. Len(s) :
       \/ r[i] = s[i] /\ i # Len(s) - 2
       \/ Len(s) - 2 <= i /\ s[i].ev = EventOf(s) /\ r[i].ev = d
       \/ Len(s) - 2 <= i /\ s[i].ev = WalkEvent(s) /\ r[i].ev = e

\* preventDefault and the others set the flags of the event that dispatch goes by, and of the
\* walk's.
LEMMA FlagsAreMade ==
  ASSUME NEW H, NEW s \in Seq(Frames(H)), s # <<>>, Handling(s), Stacked(s), NEW d, NEW e,
         Raised(EventOf(s), d), Raised(WalkEvent(s), e), NEW r, Flagged(s, Owner(s), d, e, r)
  PROVE  FlagsMade(s, d, e, r)
<1> DEFINE n == Len(s)
           o == Owner(s)
           w == WalkAt(s)
<1>1. /\ n \in Nat /\ w = n - 2 /\ w \in 1 .. n /\ n - 1 \in 1 .. n /\ o \in 1 .. n
      /\ \/ o = w /\ s[w].frame = "trigger"
         \/ o = n - 1 /\ s[w].frame = "native"
  BY OwnerIs DEF WalkAt, Handling
<1>2. FlagsIn(H, s, d, e, r)
  BY FlaggedIs DEF EventOf, WalkEvent
<1>3. /\ \A i \in 1 .. n : i # o /\ i # w => r[i] = s[i]
      /\ r[o] = [s[o] EXCEPT !.ev = d]
      /\ r[w] = IF o = w THEN [s[w] EXCEPT !.ev = d] ELSE [s[w] EXCEPT !.ev = e]
  BY <1>2 DEF FlagsIn
<1>4. s[o] \in FrameSet(H) /\ s[w] \in FrameSet(H)
  <2>1. s[o] \in Frames(H) /\ s[w] \in Frames(H)
    BY <1>1
  <2> QED BY <2>1 DEF Frames
<1>5. EventOf(s) = s[o].ev /\ WalkEvent(s) = s[w].ev
  BY DEF EventOf, WalkEvent
<1> HIDE DEF o, w, n
<1>6. \A f \in FrameSet(H) : [f EXCEPT !.ev = d].ev = d /\ [f EXCEPT !.ev = e].ev = e
                             /\ [f EXCEPT !.ev = d].frame = f.frame /\ [f EXCEPT !.ev = e].frame = f.frame
  BY DEF FrameSet
<1>7. /\ r[o].ev = d /\ r[w].frame = s[w].frame
      /\ r[w].ev = d \/ r[w].ev = e
      /\ o # w => r[w].ev = e
  BY <1>3, <1>4, <1>6
<1>8. EventAt(s[w], s[n - 1]) = EventOf(s) /\ EventAt(r[w], r[n - 1]) = d
  BY <1>1, <1>5, <1>7 DEF EventAt
<1>9. \A i \in 1 .. n :
       \/ r[i] = s[i] /\ i # w
       \/ w <= i /\ s[i].ev = EventOf(s) /\ r[i].ev = d
       \/ w <= i /\ s[i].ev = WalkEvent(s) /\ r[i].ev = e
  <2>1. w <= o /\ w <= w
    BY <1>1
  <2> QED BY <1>3, <1>5, <1>7, <2>1
<1>10. n - 2 = w
  BY <1>1
<1> QED BY <1>5, <1>7, <1>8, <1>9, <1>10 DEF FlagsMade, n

\* preventDefault keeps the order.
LEMMA PreventDefaultOrder == SafetyInv /\ Ordered /\ PreventDefault => Ordered'
<1> SUFFICES ASSUME SafetyInv, Ordered, PreventDefault PROVE Ordered'
  OBVIOUS
<1> DEFINE H == Bound(binds)
           s == frames
           r == frames'
           x == EventOf(s)
           y == WalkEvent(s)
<1>1. InHandler /\ frames' = WithFlags(Prevented, Prevented) /\ UNCHANGED <<begun, ran, triggered>>
  BY DEF PreventDefault, bounds
<1>2. /\ s # <<>> /\ Handling(s) /\ Stacked(s) /\ s \in Seq(Frames(H))
      /\ MutedOk(s, triggered) /\ Orderly(s, ran) /\ Past(ran, begun) /\ AllInOrder(ran)
  BY <1>1, HandlerIs DEF Ordered, OrderOk
<1>3. x \in EventSet /\ y \in EventSet
  BY <1>2, WalkUnmarked
<1>4. Flagged(s, Owner(s), Prevented(x), Prevented(y), r)
  BY <1>1, FlagsSet
<1>5. /\ Raised(x, Prevented(x)) /\ Prevented(x).stopped = x.stopped /\ Prevented(x).immediate = x.immediate
      /\ Raised(y, Prevented(y)) /\ Prevented(y).stopped = y.stopped /\ Prevented(y).immediate = y.immediate
  BY <1>3, FlagsRaised
<1>6. Marked(s, r)
  BY <1>1, FlagsSafe DEF FlagsKept
<1> DEFINE d == Prevented(x)
           e == Prevented(y)
<1>7. /\ Raised(x, d) /\ d.stopped = x.stopped /\ d.immediate = x.immediate
      /\ Raised(y, e) /\ e.stopped = y.stopped /\ e.immediate = y.immediate
      /\ Flagged(s, Owner(s), d, e, r)
  BY <1>4, <1>5
<1> HIDE DEF d, e, s, r, H
<1>8. FlagsMade(s, d, e, r)
  BY <1>2, <1>7, FlagsAreMade
<1>9. \A i \in 1 .. Len(s) : r[i].ev.stopped = s[i].ev.stopped /\ r[i].ev.immediate = s[i].ev.immediate
  BY <1>7, <1>8 DEF FlagsMade
<1>10. Alike(s, r)
  BY <1>6, <1>9 DEF Alike
<1>11. MutedOk(r, triggered) /\ Orderly(r, ran)
  BY <1>2, <1>10, AlikeOrder DEF Handling
<1> QED BY <1>1, <1>2, <1>11 DEF Ordered, OrderOk, r

\* d stops the event.
LEMMA MadeStops ==
  ASSUME NEW s, Len(s) \in Nat, Len(s) - 2 \in 1 .. Len(s), Len(s) - 1 \in 1 .. Len(s),
         NEW d, NEW e, NEW r, Marked(s, r), FlagsMade(s, d, e, r),
         Raised(EventOf(s), d), d.stopped, e.stopped, NEW how, how = "all" => d.immediate
  PROVE  HandlerStops(s, r, how)
<1> DEFINE n == Len(s)
           w == n - 2
           f == s[w]
           g == r[w]
           c == s[n - 1]
           b == r[n - 1]
<1>1. /\ n \in Nat /\ w \in 1 .. n /\ n - 1 \in 1 .. n /\ Len(r) = n
      /\ \A i \in 1 .. n :
           /\ SamePlace(s[i], r[i]) /\ Raised(s[i].ev, r[i].ev)
           /\ r[i].path = s[i].path /\ r[i].queue = s[i].queue /\ r[i].elem = s[i].elem
  BY DEF Marked
<1>2. /\ EventAt(f, c) = EventOf(s) /\ EventAt(g, b) = d /\ (g.ev = d \/ g.ev = e)
      /\ \A i \in 1 .. n : r[i] = s[i] \/ w <= i
  BY DEF FlagsMade
<1>3. /\ SamePlace(f, g) /\ Raised(f.ev, g.ev) /\ g.path = f.path
      /\ SamePlace(c, b) /\ b.queue = c.queue /\ b.elem = c.elem
  BY <1>1
<1>4. \A i \in 1 .. n : i < w => r[i] = s[i]
  <2>1. \A i \in 1 .. n : i < w => ~(w <= i)
    BY <1>1
  <2> QED BY <1>2, <2>1
<1>5. d.stopped /\ e.stopped /\ (how = "all" => d.immediate) /\ Raised(EventOf(s), d)
  OBVIOUS
<1>6. Stops(s[n - 2], s[n - 1], s[n], r[n - 2], r[n - 1], how)
  <2> HIDE DEF f, g, c, b
  <2>1. Stops(f, c, s[n], g, b, how)
    BY <1>2, <1>3, <1>5 DEF Stops, SamePlace, Raised
  <2> QED BY <2>1 DEF f, g, c, b
<1> QED BY <1>1, <1>4, <1>6 DEF HandlerStops

\* The handler on top stopped the event, and its call ends so.
LEMMA HandlerStopped ==
  ASSUME SafetyInv, Ordered, InHandler, NEW d, NEW e, Raised(EventOf(frames), d), Raised(WalkEvent(frames), e),
         NEW r, Flagged(frames, Owner(frames), d, e, r), Marked(frames, r),
         d.stopped, e.stopped, NEW how \in {"no", "node", "all"}, how = "all" => d.immediate,
         NEW qn, qn = [ran EXCEPT ![Top.call].ends = how]
  PROVE  MutedOk(r, triggered) /\ Orderly(r, qn) /\ AllInOrder(qn) /\ Past(qn, begun)
<1> DEFINE s == frames
           rn == ran
           c == Top.call
           H == Bound(binds)
<1>1. /\ s # <<>> /\ Handling(s) /\ Stacked(s) /\ s \in Seq(Frames(H)) /\ Top = s[Len(s)]
      /\ MutedOk(s, triggered) /\ Orderly(s, rn) /\ Past(rn, begun) /\ AllInOrder(rn)
      /\ begun \in Nat /\ Roots(s, begun) /\ rn \in Seq(CallSet)
  BY HandlerIs DEF Ordered, OrderOk, Top, SafetyInv, StackOk
<1>2. /\ Raised(EventOf(s), d) /\ Raised(WalkEvent(s), e) /\ Flagged(s, Owner(s), d, e, r) /\ Marked(s, r)
      /\ qn = [rn EXCEPT ![c].ends = how]
  OBVIOUS
<1>9. c = s[Len(s)].call /\ Len(s) \in Nat /\ Len(s) # 0
  BY <1>1
<1> HIDE DEF s, rn, c, H
<1>3. FlagsMade(s, d, e, r)
  BY <1>1, <1>2, FlagsAreMade
<1>4. Len(s) - 2 \in 1 .. Len(s) /\ Len(s) - 1 \in 1 .. Len(s)
      /\ CallOrder(s[Len(s) - 2], s[Len(s) - 1], s[Len(s)], rn)
  BY <1>1, <1>9, BelowHandler
<1>5. HandlerStops(s, r, how)
  BY <1>2, <1>3, <1>4, <1>9, MadeStops
<1>6. c \in 1 .. Len(rn)
  <2>1. c \in Heard(rn, s[Len(s) - 2].ev.root)
    BY <1>4, <1>9 DEF CallOrder
  <2> QED BY <2>1, HeardIs
<1>7. Ended(rn, c, how, qn)
  <2> DEFINE q == [rn EXCEPT ![c].ends = how]
  <2>1. rn \in Seq(CallSet) /\ c \in 1 .. Len(rn) /\ how \in {"no", "node", "all"} /\ q = [rn EXCEPT ![c].ends = how]
    BY <1>1, <1>6
  <2> HIDE DEF q
  <2>2. q \in Seq(CallSet) /\ Ended(rn, c, how, q)
    BY <2>1, EndedIs
  <2> QED BY <2>2, <1>2 DEF q
<1>8. MutedOk(r, triggered) /\ Orderly(r, qn) /\ AllInOrder(qn)
  <2>1. Ended(rn, s[Len(s)].call, how, qn)
    BY <1>7, <1>9
  <2> QED BY <1>1, <1>5, <1>9, <2>1, StoppedOrder
<1>10. Past(qn, begun)
  BY <1>1, <1>7 DEF Past, Ended
<1> QED BY <1>8, <1>10

\* stopPropagation keeps the order: only handlers of the same node are still to come.
LEMMA StopPropagationOrder == SafetyInv /\ Ordered /\ StopPropagation => Ordered'
<1> SUFFICES ASSUME SafetyInv, Ordered, StopPropagation PROVE Ordered'
  OBVIOUS
<1> DEFINE d == Stopped(EventOf(frames))
           e == Stopped(WalkEvent(frames))
           r == frames'
           how == "node"
<1>1. /\ InHandler /\ r = WithFlags(Stopped, Stopped) /\ UNCHANGED <<begun, triggered>>
      /\ ran' = [ran EXCEPT ![Top.call].ends = how]
  BY DEF StopPropagation, bounds, Ends
<1>2. EventOf(frames) \in EventSet /\ WalkEvent(frames) \in EventSet
  BY <1>1, HandlerIs, WalkUnmarked
<1>3. Raised(EventOf(frames), d) /\ Raised(WalkEvent(frames), e) /\ d.stopped = TRUE /\ e.stopped = TRUE
  BY <1>2, FlagsRaised
<1>4. Flagged(frames, Owner(frames), d, e, r)
  BY <1>1, FlagsSet
<1>5. Marked(frames, r)
  BY <1>1, FlagsSafe DEF FlagsKept
<1>6. d.stopped /\ e.stopped /\ how \in {"no", "node", "all"} /\ (how = "all" => d.immediate)
  BY <1>3
<1> HIDE DEF d, e, how, r
<1>7. MutedOk(r, triggered) /\ Orderly(r, ran') /\ AllInOrder(ran') /\ Past(ran', begun)
  BY <1>1, <1>3, <1>4, <1>5, <1>6, HandlerStopped
<1> QED BY <1>1, <1>7 DEF Ordered, OrderOk, r

\* stopImmediatePropagation keeps the order: no handler is still to come.
LEMMA StopImmediatePropagationOrder == SafetyInv /\ Ordered /\ StopImmediatePropagation => Ordered'
<1> SUFFICES ASSUME SafetyInv, Ordered, StopImmediatePropagation PROVE Ordered'
  OBVIOUS
<1> DEFINE d == StoppedAtOnce(EventOf(frames))
           e == Stopped(WalkEvent(frames))
           r == frames'
           how == "all"
<1>1. /\ InHandler /\ r = WithFlags(StoppedAtOnce, Stopped) /\ UNCHANGED <<begun, triggered>>
      /\ ran' = [ran EXCEPT ![Top.call].ends = how]
  BY DEF StopImmediatePropagation, bounds, Ends
<1>2. EventOf(frames) \in EventSet /\ WalkEvent(frames) \in EventSet
  BY <1>1, HandlerIs, WalkUnmarked
<1>3. /\ Raised(EventOf(frames), d) /\ Raised(WalkEvent(frames), e)
      /\ d.stopped = TRUE /\ e.stopped = TRUE /\ d.immediate = TRUE
  BY <1>2, FlagsRaised
<1>4. Flagged(frames, Owner(frames), d, e, r)
  BY <1>1, FlagsSet
<1>5. Marked(frames, r)
  BY <1>1, FlagsSafe DEF FlagsKept
<1>6. d.stopped /\ e.stopped /\ how \in {"no", "node", "all"} /\ (how = "all" => d.immediate)
  BY <1>3
<1> HIDE DEF d, e, how, r
<1>7. MutedOk(r, triggered) /\ Orderly(r, ran') /\ AllInOrder(ran') /\ Past(ran', begun)
  BY <1>1, <1>3, <1>4, <1>5, <1>6, HandlerStopped
<1> QED BY <1>1, <1>7 DEF Ordered, OrderOk, r

\* A handler whose call already ends so stopped its event at once.
LEMMA EndedAtOnce ==
  ASSUME SafetyInv, Ordered, InHandler
  PROVE  /\ Top.call \in 1 .. Len(ran)
         /\ ran[Top.call].ends = "all" => EventOf(frames).immediate
<1> DEFINE s == frames
           f == s[Len(s) - 2]
           d == s[Len(s) - 1]
           c == Top.call
<1>1. /\ s # <<>> /\ Handling(s) /\ Stacked(s) /\ s \in Seq(Frames(Bound(binds))) /\ Top = s[Len(s)]
      /\ MutedOk(s, triggered) /\ Orderly(s, ran)
  BY HandlerIs DEF Ordered, OrderOk, Top
<1>2. c = s[Len(s)].call /\ Len(s) # 0
  BY <1>1
<1>3. DispatchOrder(f, d, ran) /\ CallOrder(f, d, s[Len(s)], ran)
  BY <1>1, <1>2, BelowHandler
<1>4. c \in Heard(ran, f.ev.root)
  BY <1>2, <1>3 DEF CallOrder
<1>5. EventAt(f, d) = EventOf(s)
  <2>1. /\ WalkAt(s) = Len(s) - 2
        /\ \/ Owner(s) = WalkAt(s) /\ f.frame = "trigger"
           \/ Owner(s) = Len(s) - 1 /\ f.frame = "native"
    BY <1>1, OwnerIs DEF WalkAt
  <2> QED BY <2>1 DEF EventAt, EventOf
<1>6. ran[c].ends = "all" => EventOf(s).immediate
  BY <1>3, <1>4, <1>5 DEF DispatchOrder
<1>7. c \in 1 .. Len(ran)
  BY <1>4, HeardIs
<1> QED BY <1>6, <1>7

\* A handler that returns false stops its event, unless it did so already, and keeps the order.
LEMMA ReturnsFalseOrder == SafetyInv /\ Ordered /\ ReturnsFalse => Ordered'
<1> SUFFICES ASSUME SafetyInv, Ordered, ReturnsFalse PROVE Ordered'
  OBVIOUS
<1> DEFINE H == Bound(binds)
           S == Frames(H)
           d == PreventedAndStopped(EventOf(frames))
           e == PreventedAndStopped(WalkEvent(frames))
           q == WithFlags(PreventedAndStopped, PreventedAndStopped)
           c == Top.call
           how == IF ran[c].ends = "no" THEN "node" ELSE ran[c].ends
           n == Len(frames)
<1>1. /\ InHandler /\ frames' = SubSeq(q, 1, n - 1) /\ UNCHANGED <<begun, triggered>>
      /\ ran' = [ran EXCEPT ![c].ends = IF @ = "no" THEN "node" ELSE @]
  BY DEF ReturnsFalse, bounds
<1>2. EventOf(frames) \in EventSet /\ WalkEvent(frames) \in EventSet
  BY <1>1, HandlerIs, WalkUnmarked
<1>3. Raised(EventOf(frames), d) /\ Raised(WalkEvent(frames), e) /\ d.stopped = TRUE /\ e.stopped = TRUE
  BY <1>2, FlagsRaised
<1>4. Flagged(frames, Owner(frames), d, e, q)
  <2>1. q = WithFlags(PreventedAndStopped, PreventedAndStopped) => Flagged(frames, Owner(frames), d, e, q)
    BY <1>1, FlagsSet
  <2> QED BY <2>1
<1>5. q \in Seq(S) /\ Marked(frames, q) /\ StackOk(q, begun, vetoed \cup {CurrentEvent.root}, acted)
  <2>1. q = WithFlags(PreventedAndStopped, PreventedAndStopped) =>
          FlagsKept(H, frames, begun, vetoed \cup {CurrentEvent.root}, acted, q)
    BY <1>1, FlagsSafe
  <2> QED BY <2>1 DEF FlagsKept
<1>6. c \in 1 .. Len(ran) /\ (ran[c].ends = "all" => EventOf(frames).immediate)
  BY <1>1, EndedAtOnce
<1>7. how \in {"no", "node", "all"} /\ (how = "all" => d.immediate) /\ ran' = [ran EXCEPT ![c].ends = how]
  <2>1. ran[c] \in CallSet
    BY <1>6 DEF SafetyInv
  <2>2. ran[c].ends \in {"no", "node", "all"}
    BY <2>1 DEF CallSet
  <2>3. how = "all" => EventOf(frames).immediate
    BY <1>6
  <2>4. how = "all" => d.immediate
    BY <1>3, <2>3 DEF Raised
  <2>5. ran' = [ran EXCEPT ![c].ends = how]
    BY <1>1
  <2> QED BY <2>2, <2>4, <2>5
<1>8. d.stopped /\ e.stopped
  BY <1>3
<1> HIDE DEF d, e, how, q, H, c
<1>9. MutedOk(q, triggered) /\ Orderly(q, ran') /\ AllInOrder(ran') /\ Past(ran', begun)
  BY <1>1, <1>3, <1>4, <1>5, <1>7, <1>8, HandlerStopped DEF c
<1>10. Len(q) = n /\ n \in Nat \ {0} /\ Stacked(q)
  <2>1. frames # <<>>
    BY <1>1 DEF InHandler, Running
  <2> QED BY <2>1, <1>5, TopIs DEF Marked, StackOk
<1> DEFINE k == n - 1
<1>11. Shortened(q, k, frames') /\ k < n
  <2> HIDE DEF S
  <2>1. q # <<>> /\ frames' = SubSeq(q, 1, Len(q) - 1) /\ q \in Seq(S)
    BY <1>1, <1>5, <1>10
  <2>2. Shortened(q, Len(q) - 1, frames')
    BY <2>1, PoppedIs
  <2> QED BY <2>2, <1>10
<1> HIDE DEF k
<1>12. MutedOk(frames', triggered) /\ Orderly(frames', ran')
  <2>1. Len(q) \in Nat /\ k < Len(q)
    BY <1>10, <1>11
  <2> QED BY <2>1, <1>9, <1>10, <1>11, ShortenedOrder
<1> QED BY <1>1, <1>9, <1>12 DEF Ordered, OrderOk

\* An exception keeps the order: the frames that it leaves are as before.
LEMMA ThrowOrder == SafetyInv /\ Ordered /\ Throw => Ordered'
<1> SUFFICES ASSUME SafetyInv, Ordered, Throw PROVE Ordered'
  OBVIOUS
<1> DEFINE S == Frames(Bound(binds))
           n == Len(frames)
<1>1. UNCHANGED <<begun, ran, triggered>>
  BY DEF Throw, bounds, history
<1>2. /\ frames \in Seq(S) /\ Stacked(frames) /\ n \in Nat
      /\ MutedOk(frames, triggered) /\ Orderly(frames, ran) /\ Past(ran, begun) /\ AllInOrder(ran)
  BY DEF SafetyInv, StackOk, Ordered, OrderOk
<1>3. PICK k \in 0 .. n : frames' = SubSeq(frames, 1, k)
  BY ThrowShortens
<1> HIDE DEF S
<1>4. Shortened(frames, k, frames')
  BY <1>2, <1>3, ShortenedIs
<1>5. MutedOk(frames', triggered) /\ Orderly(frames', ran)
  BY <1>2, <1>4, ShortenedOrder
<1> QED BY <1>1, <1>2, <1>5 DEF Ordered, OrderOk

----------
(* Scripts, and what begins.                                                *)

\* A trigger keeps the order: its event is a new one.
LEMMA CallTriggerOrder == SafetyInv /\ Ordered /\ CallTrigger => Ordered'
<1> SUFFICES ASSUME SafetyInv, Ordered, CallTrigger PROVE Ordered'
  OBVIOUS
<1> DEFINE H == Bound(binds)
           S == Frames(H)
           n == Len(frames)
           c == begun + 1
           focus == "focus"
           yes == TRUE
<1>1. PICK t \in Triggers : Trigger(t)
  BY DEF CallTrigger
<1> DEFINE m == t.node
           f == Native(focus, m, c, yes)
           g == Triggered(t, c)
<1>2. frames # <<>> /\ Top.frame = "user" /\ UNCHANGED <<ran, triggered>>
  BY DEF CallTrigger, history, Free, Running
<1>3. /\ frames \in Seq(S) /\ Stacked(frames) /\ begun \in Nat /\ n \in Nat \ {0} /\ frames[n].frame = "user"
      /\ MutedOk(frames, triggered) /\ Orderly(frames, ran) /\ Past(ran, begun) /\ AllInOrder(ran)
  BY <1>2, TopIs DEF SafetyInv, StackOk, Ordered, OrderOk
<1>4. begun' = c /\ (frames' = Append(frames, f) \/ frames' = Append(frames, g))
  BY <1>1 DEF Trigger, Push, Triggered, Outer
<1>5. /\ IsNative(focus, m, c, yes, f) /\ IsTriggered(t, c, g) /\ c \in Nat /\ begun <= c
      /\ m \in 1 .. Document /\ focus \in EventTypes /\ yes \in BOOLEAN /\ focus # "click"
      /\ \A x : x \in 1 .. begun => x # c
  BY <1>3, NodesAssumption DEF IsNative, IsTriggered, EventTypes
<1> HIDE DEF f, g, c, H, m, focus, yes
<1>6. /\ f \in S /\ f.frame = "native" /\ f.ev.type # "click" /\ f.ev.stopped = FALSE /\ f.ev.root = c
      /\ g \in S /\ g.frame = "trigger" /\ g.ev.stopped = FALSE /\ g.ev.root = c
  <2>1. NativeWalk(H, focus, m, c, yes, f) /\ TriggerWalk(H, t, c, g)
    BY <1>5, NativeWalkIs, TriggerWalkIs
  <2> QED BY <2>1, <1>5 DEF NativeWalk, TriggerWalk
<1>7. ASSUME NEW e \in S, (e.frame = "native" /\ e.ev.type # "click") \/ e.frame = "trigger",
             e.ev.stopped = FALSE, e.ev.root = c, frames' = Append(frames, e)
      PROVE  MutedOk(frames', triggered) /\ Orderly(frames', ran)
  <2>1. Extended(frames, e, frames')
    <3> HIDE DEF S
    <3> QED BY <1>3, <1>7, ExtendedIs
  <2>2. WalkOrder(e, ran)
    <3>1. \A x \in 1 .. Len(ran) : ran[x].root # e.ev.root
      BY <1>3, <1>5, <1>7 DEF Past
    <3> QED BY <1>7, <3>1, FreshWalk
  <2>3. frames'[n + 1] = e
    BY <2>1 DEF Extended
  <2>4. ~Muted(frames, n) /\ ~Muted(frames', n + 1)
    BY <1>3, <1>7, <2>3 DEF Muted
  <2>5. OrderAt(frames', ran, n + 1)
    BY <1>7, <2>2, <2>3 DEF OrderAt
  <2> DEFINE s == frames
             r == frames'
  <2>6. /\ Stacked(s) /\ Len(s) \in Nat /\ MutedOk(s, triggered) /\ Extended(s, e, r)
        /\ ~Muted(s, Len(s)) /\ ~Muted(r, Len(s) + 1) /\ Orderly(s, ran) /\ OrderAt(r, ran, Len(s) + 1)
    BY <1>3, <2>1, <2>4, <2>5
  <2> HIDE DEF s, r
  <2>7. MutedOk(r, triggered) /\ Orderly(r, ran)
    BY <2>6, ExtendedOrder
  <2> QED BY <2>7 DEF r
<1>8. MutedOk(frames', triggered) /\ Orderly(frames', ran)
  BY <1>4, <1>6, <1>7
<1>9. Past(ran, c)
  BY <1>3, <1>5, PastLater
<1> QED BY <1>2, <1>3, <1>4, <1>8, <1>9 DEF Ordered, OrderOk

\* A stack of one frame, before any handler was called.
LEMMA BeginsOrder ==
  ASSUME NEW g, frames' = <<g>>, ran' = <<>>, g.frame \in {"native", "user"},
         g.frame = "native" => ~g.ev.stopped, g.frame = "user" => g.call = 0
  PROVE  Ordered'
<1> DEFINE r == frames'
           rn == ran'
<1>1. /\ Len(r) = 1 /\ r[1] = g /\ Len(rn) = 0
  OBVIOUS
<1>2. g.frame \in {"native", "user"} /\ (g.frame = "native" => ~g.ev.stopped) /\ (g.frame = "user" => g.call = 0)
  OBVIOUS
<1> HIDE DEF r, rn
<1>3. \A x : x \notin Heard(rn, g.ev.root)
  BY <1>1 DEF Heard
<1>4. g.frame = "native" => WalkOrder(g, rn)
  BY <1>2, <1>3 DEF WalkOrder
<1>5. OrderAt(r, rn, 1)
  BY <1>1, <1>2, <1>4 DEF OrderAt, Active
<1>6. ~Muted(r, 1)
  BY DEF Muted
<1>7. \A i \in 1 .. Len(r) : i = 1
  BY <1>1
<1>8. MutedOk(r, triggered') /\ Orderly(r, rn)
  BY <1>5, <1>6, <1>7 DEF MutedOk, Orderly
<1>9. Past(rn, begun') /\ AllInOrder(rn)
  BY <1>1 DEF Past, AllInOrder
<1> QED BY <1>8, <1>9 DEF Ordered, OrderOk, r, rn

\* A script begins in order, with no calls.
LEMMA RunScriptOrder == RunScript => Ordered'
<1> SUFFICES ASSUME RunScript PROVE Ordered'
  OBVIOUS
<1> DEFINE g == Script
<1>1. frames' = <<g>> /\ ran' = <<>>
  BY DEF RunScript, Begin
<1>2. g.frame = "user" /\ g.call = 0
  BY ScriptIs
<1> HIDE DEF g
<1> QED BY <1>1, <1>2, BeginsOrder

\* So does an event of the user's.
LEMMA NativeBeginsOrder ==
  ASSUME SafetyInv, NEW type \in EventTypes, Begin(Native(type, 1, begun + 1, FALSE))
  PROVE  Ordered'
<1> DEFINE H == Bound(binds)
           c == begun + 1
           no == FALSE
           g == Native(type, 1, c, no)
<1>1. /\ frames' = <<g>> /\ ran' = <<>> /\ c \in Nat /\ IsNative(type, 1, c, no, g) /\ 1 \in 1 .. Document /\ no \in BOOLEAN
  BY DocumentAssumption DEF Begin, SafetyInv, IsNative
<1> HIDE DEF g, H, c, no
<1>2. NativeWalk(H, type, 1, c, no, g)
  BY <1>1, NativeWalkIs
<1>3. g.frame = "native" /\ g.ev.stopped = FALSE
  BY <1>2 DEF NativeWalk
<1> QED BY <1>1, <1>3, BeginsOrder

\* A click of the user keeps the order.
LEMMA UserClicksOrder == SafetyInv /\ UserClicks => Ordered'
<1>1. "click" \in EventTypes
  BY DEF EventTypes
<1> QED BY <1>1, NativeBeginsOrder DEF UserClicks

\* A move of the focus keeps it.
LEMMA FocusMovesOrder == SafetyInv /\ Ordered /\ FocusMoves => Ordered'
<1> SUFFICES ASSUME SafetyInv, Ordered, FocusMoves PROVE Ordered'
  OBVIOUS
<1>1. "focus" \in EventTypes
  BY DEF EventTypes
<1>2. CASE Begin(Native("focus", 1, begun + 1, FALSE))
  BY <1>1, <1>2, NativeBeginsOrder
<1>3. CASE UNCHANGED <<frames, begun, history>>
  <2>1. UNCHANGED triggered
    BY DEF FocusMoves
  <2> QED BY <1>3, <2>1 DEF Ordered, OrderOk, history
<1> QED BY <1>2, <1>3 DEF FocusMoves

\* What handlers were called does not depend on the store.
LEMMA StoreOrder ==
  ASSUME Ordered, On \/ Off \/ RemoveNode \/ Clone \/ Data \/ UNCHANGED vars
  PROVE  Ordered'
<1>1. UNCHANGED <<frames, ran, begun, triggered>>
  <2>1. CASE On
    BY <2>1 DEF On, history
  <2>2. CASE Off
    BY <2>2 DEF Off, OnStore, history
  <2>3. CASE RemoveNode
    BY <2>3 DEF RemoveNode, OnStore, history
  <2>4. CASE Clone
    BY <2>4 DEF Clone, OnStore, history
  <2>5. CASE Data
    BY <2>5 DEF Data, OnStore, history
  <2>6. CASE UNCHANGED vars
    BY <2>6 DEF vars
  <2> QED BY <2>6, <2>5, <2>4, <2>3, <2>2, <2>1
<1> QED BY <1>1 DEF Ordered, OrderOk

\* At first nothing was called.
LEMMA OrderInit == Init => OrderInv
<1> SUFFICES ASSUME Init PROVE OrderInv
  OBVIOUS
<1>1. SafetyInv
  BY SafetyInit
<1>2. frames = <<>> /\ ran = <<>>
  BY DEF Init
<1>3. Len(<<>>) = 0
  OBVIOUS
<1>4. MutedOk(<<>>, triggered) /\ Orderly(<<>>, <<>>) /\ Past(<<>>, begun) /\ AllInOrder(<<>>)
  BY <1>3 DEF MutedOk, Orderly, Past, AllInOrder
<1> QED BY <1>1, <1>2, <1>4 DEF OrderInv, Ordered, OrderOk

\* Every step keeps the order.
LEMMA OrderStep == OrderInv /\ [Next]_vars => OrderInv'
<1> SUFFICES ASSUME SafetyInv, Ordered, [Next]_vars PROVE SafetyInv' /\ Ordered'
  BY DEF OrderInv
<1>1. SafetyInv'
  BY SafetyStep
<1>2. CASE Walks
  BY <1>1, <1>2, NativeStopOrder, NativeEndsOrder, TriggerStopOrder, TriggerDefaultOrder, TriggerReturnsOrder, DispatchesOrder
     DEF Walks
<1>3. CASE UserCode
  <2>1. CASE On \/ Off \/ RemoveNode \/ Clone \/ Data
    BY <1>1, <2>1, StoreOrder
  <2>2. CASE \/ PreventDefault \/ StopPropagation \/ StopImmediatePropagation \/ Return \/ ReturnsFalse \/ Throw
             \/ CallTrigger
    BY <1>1, <2>2, PreventDefaultOrder, StopPropagationOrder, StopImmediatePropagationOrder, ReturnOrder, ReturnsFalseOrder,
       ThrowOrder, CallTriggerOrder
  <2> QED BY <1>3, <2>1, <2>2 DEF UserCode
<1>4. CASE Browser
  BY <1>1, <1>4, RunScriptOrder, UserClicksOrder, FocusMovesOrder DEF Browser
<1>5. CASE UNCHANGED vars
  BY <1>1, <1>5, StoreOrder
<1> QED BY <1>2, <1>3, <1>4, <1>5 DEF Next

\* Handlers are called from the inside out, and a handler that stops an event is the
\* last to hear of it, but for those of the same node unless it stopped it at once
\* (event.handlers, dispatch, trigger, simulate).
THEOREM SpecCalledInOrder == Spec => []CalledInOrder
<1>1. OrderInv => CalledInOrder
  <2> SUFFICES ASSUME SafetyInv, Ordered PROVE CalledInOrder
    BY DEF OrderInv
  <2>1. DOMAIN ran = 1 .. Len(ran) /\ AllInOrder(ran)
    BY DEF SafetyInv, Ordered, OrderOk
  <2> QED BY <2>1 DEF CalledInOrder, AllInOrder, InOrder
<1> QED BY <1>1, OrderInit, OrderStep, PTL DEF Spec

----------
(* How often handlers are called.                                           *)

\* Handler h is kept where the walk with path p has still to call handlers.
Waits(st, p, h) ==
  \E k \in 1 .. Len(p) :
    p[k].how = "handlers" /\ Keeps(st, p[k].node, h) /\ KeptType(h.type, h.selector) = p[k].type

\* The walk with path p has still to come to the onclick of node 1.
Clicks(p) == \E k \in 1 .. Len(p) : p[k].how = "onclick" /\ p[k].node = 1 /\ p[k].type = "click"

\* Walk f: what it will call was not called for its event.
WalkOnce(f, rn, st) ==
  /\ \A h : Waits(st, f.path, h) => \A x \in Heard(rn, f.ev.root) : rn[x].hid # h.hid
  /\ Clicks(f.path) => \A x \in 1 .. Len(rn) : rn[x].root = f.ev.root => rn[x].hid # 0

\* Entry q in the queue of dispatch d of walk f: it was not called for this node, is kept
\* at no other place, and if it was called as one bound with one, then by events within
\* this one.
QueuedOnce(f, d, q, rn, st) ==
  /\ \A x \in Heard(rn, f.ev.root) : ~(rn[x].hid = q.h.hid /\ rn[x].elem = q.elem)
  /\ \A h : Waits(st, f.path, h) => h.hid # q.h.hid
  /\ \A m \in 1 .. Document : \A h : Keeps(st, m, h) /\ h.hid = q.h.hid => m = d.node /\ h = q.h
  /\ \A x \in 1 .. Len(rn) : rn[x].one /\ rn[x].hid = q.h.hid => f.ev.root <= rn[x].root

\* Dispatch d of walk f: what is in its queue was not called.
DispatchOnce(f, d, rn, st) == \A k \in 1 .. Len(d.queue) : QueuedOnce(f, d, d.queue[k], rn, st)

\* Frame i: a walk that runs handlers and a dispatch call nothing twice; a walk that runs none is of a
\* click() that trigger calls, on the target of its own event.
OnceAt(fs, rn, st, i) ==
  /\ Muted(fs, i) => fs[i].ev.target = fs[i - 1].ev.target /\ fs[i - 1].ev.type = "click"
  /\ Active(fs[i]) /\ ~Muted(fs, i) => WalkOnce(fs[i], rn, st)
  /\ fs[i].frame = "dispatch" => DispatchOnce(fs[i - 1], fs[i], rn, st)

\* No frame has to call what was called before.
EachOnce(fs, rn, st) == \A i \in 1 .. Len(fs) : OnceAt(fs, rn, st, i)

\* Two calls.
Differ(x, y) == ~(x.root = y.root /\ x.hid = y.hid /\ x.elem = y.elem)
\* No two calls are of one handler for one event and node.
NoneTwice(rn) == \A x, y \in 1 .. Len(rn) : x < y => Differ(rn[x], rn[y])

\* Call x of a handler bound with one: it is kept nowhere.
Spent(rn, st, x) ==
  /\ rn[x].hid # 0
  /\ \A y \in 1 .. Len(rn) : x < y /\ rn[y].hid = rn[x].hid => rn[y].root <= rn[x].root
  /\ \A m \in 1 .. Document : \A h : Keeps(st, m, h) => h.hid # rn[x].hid
\* The handlers bound with one are gone when they were called.
OnesSpent(rn, st) == \A x \in 1 .. Len(rn) : rn[x].one => Spent(rn, st, x)

\* The handlers that were called are among the first k that were bound.
Known(rn, k) == \A x \in 1 .. Len(rn) : rn[x].hid <= k

\* That is so for the frames fs, the calls rn, the store st and k handlers bound.
OnceOk(fs, rn, st, k) == EachOnce(fs, rn, st) /\ NoneTwice(rn) /\ OnesSpent(rn, st) /\ Known(rn, k)

\* What is still to be called was not called.
Once == OnceOk(frames, ran, store, binds)

\* The inductive invariant for the number of calls.
OnceInv == OrderInv /\ Once

\* Every member of list p is one of list q.
Within(p, q) == \A k \in 1 .. Len(p) : \E l \in 1 .. Len(q) : q[l] = p[k]

\* Every list is within itself.
LEMMA WithinItself ==
  ASSUME NEW p
  PROVE  Within(p, p)
BY DEF Within

\* The rest of a list is within it.
LEMMA WithinTail ==
  ASSUME NEW S, NEW q \in Seq(S), q # <<>>
  PROVE  Within(Tail(q), q)
<1>1. Len(q) \in Nat \ {0}
  OBVIOUS
<1>2. Tail(q) \in Seq(S) /\ Len(Tail(q)) = Len(q) - 1 /\ \A k \in 1 .. Len(q) - 1 : Tail(q)[k] = q[k + 1]
  BY <1>1, HeadTailProperties
<1>3. ASSUME NEW k \in 1 .. Len(Tail(q)) PROVE \E l \in 1 .. Len(q) : q[l] = Tail(q)[k]
  <2>1. k + 1 \in 1 .. Len(q) /\ Tail(q)[k] = q[k + 1]
    BY <1>1, <1>2
  <2> QED BY <2>1
<1> QED BY <1>3 DEF Within

\* The empty list is within every list.
LEMMA WithinNone ==
  ASSUME NEW q
  PROVE  Within(<<>>, q)
BY DEF Within

\* A walk with fewer stops waits for no more handlers, if none came to the nodes.
LEMMA WaitsLess ==
  ASSUME NEW q \in Seq(StopSet), NEW p, Within(p, q), NEW st, NEW sr, NoNew(st, sr), NEW h, Waits(sr, p, h)
  PROVE  Waits(st, q, h)
<1>1. PICK k \in 1 .. Len(p) :
        p[k].how = "handlers" /\ Keeps(sr, p[k].node, h) /\ KeptType(h.type, h.selector) = p[k].type
  BY DEF Waits
<1>2. PICK l \in 1 .. Len(q) : q[l] = p[k]
  BY <1>1 DEF Within
<1>3. q[l] \in StopSet
  OBVIOUS
<1>4. q[l].node \in 1 .. Document
  BY <1>3 DEF StopSet
<1>5. q[l].how = "handlers" /\ Keeps(sr, q[l].node, h) /\ KeptType(h.type, h.selector) = q[l].type
  BY <1>1, <1>2
<1>6. Keeps(st, q[l].node, h)
  BY <1>4, <1>5 DEF NoNew
<1> QED BY <1>5, <1>6 DEF Waits

\* Frame e became f, which has no more to do.
Eases(e, f) ==
  /\ f.frame = e.frame /\ f.node = e.node
  /\ f.ev.root = e.ev.root /\ f.ev.target = e.ev.target /\ f.ev.type = e.ev.type
  /\ Active(f) => Active(e)
  /\ Within(f.path, e.path) /\ Within(f.queue, e.queue)

\* The same calls, which may have ended otherwise.
SameCalls(rn, qn) ==
  /\ Len(qn) = Len(rn)
  /\ \A x \in 1 .. Len(rn) :
       qn[x].root = rn[x].root /\ qn[x].hid = rn[x].hid /\ qn[x].elem = rn[x].elem /\ qn[x].one = rn[x].one

\* The same calls were heard of the event.
LEMMA SameCallsHeard ==
  ASSUME NEW rn, NEW qn, SameCalls(rn, qn), NEW root
  PROVE  \A x : x \in Heard(qn, root) <=> x \in Heard(rn, root)
BY HeardIs DEF SameCalls

\* A walk that has less to do still calls nothing twice.
LEMMA EasedWalk ==
  ASSUME NEW e, NEW f, Eases(e, f), e.path \in Seq(StopSet), NEW rn, NEW qn, SameCalls(rn, qn),
         NEW st, NEW sr, NoNew(st, sr), WalkOnce(e, rn, st)
  PROVE  WalkOnce(f, qn, sr)
<1>1. Within(f.path, e.path) /\ f.ev.root = e.ev.root
  BY DEF Eases
<1>2. ASSUME NEW h, Waits(sr, f.path, h), NEW x \in Heard(qn, f.ev.root) PROVE qn[x].hid # h.hid
  <2>1. Waits(st, e.path, h)
    BY <1>1, <1>2, WaitsLess
  <2>2. x \in Heard(rn, e.ev.root)
    BY <1>1, <1>2, SameCallsHeard
  <2>3. x \in 1 .. Len(rn)
    BY <2>2, HeardIs
  <2> QED BY <2>1, <2>2, <2>3 DEF WalkOnce, SameCalls
<1>3. ASSUME Clicks(f.path) PROVE Clicks(e.path)
  BY <1>1, <1>3 DEF Clicks, Within
<1>4. ASSUME Clicks(f.path), NEW x \in 1 .. Len(qn), qn[x].root = f.ev.root PROVE qn[x].hid # 0
  BY <1>1, <1>3, <1>4 DEF WalkOnce, SameCalls
<1> QED BY <1>2, <1>4 DEF WalkOnce

\* Nor does a dispatch that has less to do, on a walk that has.
LEMMA EasedDispatch ==
  ASSUME NEW e, NEW f, Eases(e, f), e.path \in Seq(StopSet), NEW c, NEW d, Eases(c, d),
         NEW rn, NEW qn, SameCalls(rn, qn), NEW st, NEW sr, NoNew(st, sr), DispatchOnce(e, c, rn, st)
  PROVE  DispatchOnce(f, d, qn, sr)
<1>1. Within(f.path, e.path) /\ f.ev.root = e.ev.root /\ Within(d.queue, c.queue) /\ d.node = c.node
  BY DEF Eases
<1> SUFFICES ASSUME NEW k \in 1 .. Len(d.queue) PROVE QueuedOnce(f, d, d.queue[k], qn, sr)
  BY DEF DispatchOnce
<1>2. PICK l \in 1 .. Len(c.queue) : c.queue[l] = d.queue[k]
  BY <1>1 DEF Within
<1> DEFINE q == d.queue[k]
<1>3. QueuedOnce(e, c, q, rn, st)
  BY <1>2 DEF DispatchOnce
<1> HIDE DEF q
<1>4. ASSUME NEW x \in Heard(qn, f.ev.root) PROVE ~(qn[x].hid = q.h.hid /\ qn[x].elem = q.elem)
  <2>1. x \in Heard(rn, e.ev.root)
    BY <1>1, <1>4, SameCallsHeard
  <2>2. x \in 1 .. Len(rn)
    BY <2>1, HeardIs
  <2> QED BY <2>1, <2>2, <1>3 DEF QueuedOnce, SameCalls
<1>5. ASSUME NEW h, Waits(sr, f.path, h) PROVE h.hid # q.h.hid
  <2>1. Waits(st, e.path, h)
    BY <1>1, <1>5, WaitsLess
  <2> QED BY <2>1, <1>3 DEF QueuedOnce
<1>6. ASSUME NEW m \in 1 .. Document, NEW h, Keeps(sr, m, h), h.hid = q.h.hid PROVE m = d.node /\ h = q.h
  <2>1. Keeps(st, m, h)
    BY <1>6 DEF NoNew
  <2> QED BY <2>1, <1>1, <1>3, <1>6 DEF QueuedOnce
<1>7. ASSUME NEW x \in 1 .. Len(qn), qn[x].one, qn[x].hid = q.h.hid PROVE f.ev.root <= qn[x].root
  BY <1>1, <1>3, <1>7 DEF QueuedOnce, SameCalls
<1>8. QueuedOnce(f, d, q, qn, sr)
  BY <1>4, <1>5, <1>6, <1>7 DEF QueuedOnce
<1> QED BY <1>8 DEF q

\* s became r: frames went, and no other has more to do.
Easing(s, r) ==
  /\ Len(s) \in Nat /\ Len(r) \in Nat /\ Len(r) <= Len(s)
  /\ \A i \in 1 .. Len(r) : Eases(s[i], r[i]) /\ (i < Len(r) => r[i].method = s[i].method)

\* The paths of the frames are lists of stops.
Paths(s) == \A i \in 1 .. Len(s) : s[i].path \in Seq(StopSet)

\* Nor does a stack of which frames went and no other has more to do.
LEMMA EasedOnce ==
  ASSUME NEW s, NEW r, Easing(s, r), Stacked(s), Paths(s), NEW rn, NEW qn, SameCalls(rn, qn),
         NEW st, NEW sr, NoNew(st, sr), EachOnce(s, rn, st)
  PROVE  EachOnce(r, qn, sr)
<1> SUFFICES ASSUME NEW i \in 1 .. Len(r) PROVE OnceAt(r, qn, sr, i)
  BY DEF EachOnce
<1>1. i \in 1 .. Len(s) /\ i \in Nat /\ i <= Len(r) /\ Len(r) \in Nat
  BY DEF Easing
<1>2. Eases(s[i], r[i]) /\ s[i].path \in Seq(StopSet) /\ OnceAt(s, rn, st, i) /\ FrameOk(s, i)
  BY <1>1 DEF Easing, Paths, EachOnce, Stacked
<1>3. ASSUME i > 1
      PROVE  /\ Eases(s[i - 1], r[i - 1]) /\ r[i - 1].method = s[i - 1].method
             /\ s[i - 1].path \in Seq(StopSet)
  <2>1. i - 1 \in 1 .. Len(r) /\ i - 1 < Len(r) /\ i - 1 \in 1 .. Len(s)
    BY <1>1, <1>3
  <2> QED BY <2>1 DEF Easing, Paths
<1>4. Muted(r, i) <=> Muted(s, i)
  <2>1. r[i].frame = s[i].frame /\ r[i].ev.type = s[i].ev.type
    BY <1>2 DEF Eases
  <2>2. i > 1 => r[i - 1].frame = s[i - 1].frame /\ r[i - 1].method = s[i - 1].method
    BY <1>3 DEF Eases
  <2> QED BY <2>1, <2>2 DEF Muted
<1>5. ASSUME Muted(r, i) PROVE r[i].ev.target = r[i - 1].ev.target /\ r[i - 1].ev.type = "click"
  <2>1. i > 1
    BY <1>5 DEF Muted
  <2>2. s[i].ev.target = s[i - 1].ev.target /\ s[i - 1].ev.type = "click"
    BY <1>2, <1>4, <1>5 DEF OnceAt
  <2> QED BY <2>1, <2>2, <1>2, <1>3 DEF Eases
<1>6. ASSUME Active(r[i]), ~Muted(r, i) PROVE WalkOnce(r[i], qn, sr)
  <2>1. Active(s[i])
    BY <1>2, <1>6 DEF Eases
  <2>2. WalkOnce(s[i], rn, st)
    BY <2>1, <1>2, <1>4, <1>6 DEF OnceAt
  <2> QED BY <2>2, <1>2, EasedWalk
<1>7. ASSUME r[i].frame = "dispatch" PROVE DispatchOnce(r[i - 1], r[i], qn, sr)
  <2>1. s[i].frame = "dispatch"
    BY <1>2, <1>7 DEF Eases
  <2>2. i > 1 /\ DispatchOnce(s[i - 1], s[i], rn, st)
    BY <2>1, <1>2 DEF FrameOk, OnceAt
  <2> QED BY <2>2, <1>2, <1>3, EasedDispatch
<1> QED BY <1>5, <1>6, <1>7 DEF OnceAt

\* A frame comes on top.
LEMMA ExtendedOnce ==
  ASSUME NEW s, Len(s) \in Nat, NEW g, NEW r, Extended(s, g, r), Stacked(r), NEW rn, NEW st,
         EachOnce(s, rn, st), OnceAt(r, rn, st, Len(s) + 1)
  PROVE  EachOnce(r, rn, st)
<1> SUFFICES ASSUME NEW i \in 1 .. Len(r), i # Len(s) + 1 PROVE OnceAt(r, rn, st, i)
  BY DEF EachOnce
<1>1. i \in 1 .. Len(s) /\ r[i] = s[i]
  BY DEF Extended
<1>2. i > 1 => r[i - 1] = s[i - 1]
  BY <1>1 DEF Extended
<1>3. OnceAt(s, rn, st, i) /\ FrameOk(r, i)
  BY <1>1 DEF EachOnce, Stacked
<1>4. Muted(r, i) <=> Muted(s, i)
  BY <1>1, <1>2 DEF Muted
<1>5. Muted(s, i) => i > 1
  BY DEF Muted
<1>6. s[i].frame = "dispatch" => i > 1
  BY <1>1, <1>3 DEF FrameOk
<1> QED BY <1>1, <1>2, <1>3, <1>4, <1>5, <1>6 DEF OnceAt

\* A frame on top that is no dispatch, nor a walk in which the listeners discard the event.
LEMMA PlainOnce ==
  ASSUME NEW r, NEW i, NEW g, r[i] = g, ~Muted(r, i), g.frame # "dispatch", NEW rn, NEW st,
         Active(g) => WalkOnce(g, rn, st)
  PROVE  OnceAt(r, rn, st, i)
BY DEF OnceAt

\* A walk of an event that nobody has heard of.
LEMMA FreshOnce ==
  ASSUME NEW f, NEW rn, \A x \in 1 .. Len(rn) : rn[x].root # f.ev.root, NEW st
  PROVE  WalkOnce(f, rn, st)
<1>1. \A x : x \notin Heard(rn, f.ev.root)
  BY HeardIs
<1> QED BY <1>1 DEF WalkOnce

\* The frames of a stack are as they were.
LEMMA EasesItself ==
  ASSUME NEW f
  PROVE  Eases(f, f)
BY WithinItself DEF Eases

\* A stack that loses its upper part is one.
LEMMA ShortenedEases ==
  ASSUME NEW s, Len(s) \in Nat, NEW k, NEW r, Shortened(s, k, r)
  PROVE  Easing(s, r)
<1>1. Len(r) \in Nat /\ Len(r) <= Len(s) /\ \A i \in 1 .. Len(r) : r[i] = s[i]
  BY DEF Shortened
<1>2. \A i \in 1 .. Len(r) : Eases(s[i], r[i])
  BY <1>1, EasesItself
<1> QED BY <1>1, <1>2 DEF Easing

\* So is a stack whose last frame has less to do.
LEMMA ReplacedEases ==
  ASSUME NEW s, Len(s) \in Nat \ {0}, NEW f, NEW r, Replaced(s, f, r), Eases(s[Len(s)], f)
  PROVE  Easing(s, r)
<1> DEFINE n == Len(s)
<1>1. n \in Nat /\ n >= 1 /\ Len(r) = n /\ r[n] = f /\ \A i \in 1 .. n - 1 : r[i] = s[i]
  BY DEF Replaced
<1>2. Eases(s[n], r[n])
  BY <1>1
<1> HIDE DEF n
<1>3. \A i \in 1 .. n : i = n \/ (i \in 1 .. n - 1 /\ i < n)
  BY <1>1
<1>4. \A i \in 1 .. n : Eases(s[i], r[i])
  BY <1>1, <1>2, <1>3, EasesItself
<1>5. \A i \in 1 .. n : i < n => r[i].method = s[i].method
  BY <1>1, <1>3
<1> QED BY <1>1, <1>4, <1>5 DEF Easing, n

\* Flags that are set change nothing about it.
LEMMA MarkedEases ==
  ASSUME NEW s, Len(s) \in Nat, NEW r, Marked(s, r)
  PROVE  Easing(s, r)
<1>1. ASSUME NEW i \in 1 .. Len(s) PROVE Eases(s[i], r[i]) /\ r[i].method = s[i].method
  <2>1. SamePlace(s[i], r[i]) /\ Raised(s[i].ev, r[i].ev) /\ r[i].path = s[i].path /\ r[i].queue = s[i].queue
    BY DEF Marked
  <2>2. Within(r[i].path, s[i].path) /\ Within(r[i].queue, s[i].queue)
    BY <2>1, WithinItself
  <2>3. r[i].ev.root = s[i].ev.root /\ r[i].ev.target = s[i].ev.target /\ r[i].ev.type = s[i].ev.type
    BY <2>1 DEF Raised
  <2> QED BY <2>1, <2>2, <2>3 DEF Eases, SamePlace, Active
<1> QED BY <1>1 DEF Easing, Marked

\* The calls are the same as they are.
LEMMA SameCallsItself ==
  ASSUME NEW rn
  PROVE  SameCalls(rn, rn)
BY DEF SameCalls

\* Two such steps make one.
LEMMA EasingThen ==
  ASSUME NEW s, NEW q, NEW r, Easing(s, q), Easing(q, r)
  PROVE  Easing(s, r)
<1>1. Len(s) \in Nat /\ Len(q) \in Nat /\ Len(r) \in Nat /\ Len(r) <= Len(q) /\ Len(q) <= Len(s)
  BY DEF Easing
<1>2. ASSUME NEW i \in 1 .. Len(r) PROVE Eases(s[i], r[i]) /\ (i < Len(r) => r[i].method = s[i].method)
  <2>1. i \in 1 .. Len(q) /\ (i < Len(r) => i < Len(q))
    BY <1>1
  <2>2. Eases(s[i], q[i]) /\ (i < Len(q) => q[i].method = s[i].method)
    BY <2>1 DEF Easing
  <2>3. Eases(q[i], r[i]) /\ (i < Len(r) => r[i].method = q[i].method)
    BY DEF Easing
  <2>4. Within(r[i].path, s[i].path)
    BY <2>2, <2>3 DEF Eases, Within
  <2>5. Within(r[i].queue, s[i].queue)
    BY <2>2, <2>3 DEF Eases, Within
  <2>6. Eases(s[i], r[i])
    BY <2>5, <2>4, <2>3, <2>2 DEF Eases
  <2> QED BY <2>6, <2>3, <2>2, <2>1
<1> QED BY <1>1, <1>2 DEF Easing

\* What is said of the calls alone holds of the same calls, if no handler came to the nodes.
LEMMA SameCallsOnce ==
  ASSUME NEW rn, NEW qn, SameCalls(rn, qn), NEW st, NEW sr, NoNew(st, sr), NEW k,
         NoneTwice(rn), OnesSpent(rn, st), Known(rn, k)
  PROVE  NoneTwice(qn) /\ OnesSpent(qn, sr) /\ Known(qn, k)
<1>1. NoneTwice(qn)
  BY DEF NoneTwice, Differ, SameCalls
<1>2. Known(qn, k)
  BY DEF Known, SameCalls
<1>3. ASSUME NEW x \in 1 .. Len(qn), qn[x].one PROVE Spent(qn, sr, x)
  <2>1. x \in 1 .. Len(rn) /\ Len(qn) = Len(rn) /\ rn[x].one
    BY <1>3 DEF SameCalls
  <2>2. Spent(rn, st, x)
    BY <2>1 DEF OnesSpent
  <2>3. qn[x].hid = rn[x].hid /\ qn[x].root = rn[x].root
    BY <2>1 DEF SameCalls
  <2>4. \A m \in 1 .. Document : \A h : Keeps(sr, m, h) => h.hid # qn[x].hid
    BY <2>2, <2>3 DEF Spent, NoNew
  <2>5. \A y \in 1 .. Len(qn) : x < y /\ qn[y].hid = qn[x].hid => qn[y].root <= qn[x].root
    BY <2>1, <2>2, <2>3 DEF Spent, SameCalls
  <2> QED BY <2>5, <2>4, <2>3, <2>2 DEF Spent
<1> QED BY <1>1, <1>2, <1>3 DEF OnesSpent

\* Nothing is called, begins or is bound.
LEMMA EasedOk ==
  ASSUME NEW s, NEW r, Easing(s, r), Stacked(s), Paths(s), NEW rn, NEW qn, SameCalls(rn, qn),
         NEW st, NEW sr, NoNew(st, sr), NEW k, OnceOk(s, rn, st, k)
  PROVE  OnceOk(r, qn, sr, k)
<1>1. EachOnce(r, qn, sr)
  BY EasedOnce DEF OnceOk
<1>2. NoneTwice(qn) /\ OnesSpent(qn, sr) /\ Known(qn, k)
  BY SameCallsOnce DEF OnceOk
<1> QED BY <1>1, <1>2 DEF OnceOk

\* The paths of a stack are such lists.
LEMMA PathsTyped ==
  ASSUME NEW H, NEW s \in Seq(Frames(H))
  PROVE  Paths(s)
<1>1. ASSUME NEW i \in 1 .. Len(s) PROVE s[i].path \in Seq(StopSet)
  <2>1. s[i] \in Frames(H)
    OBVIOUS
  <2> QED BY <2>1 DEF Frames, FrameSet
<1> QED BY <1>1 DEF Paths

\* In the same store there is no new handler.
LEMMA NoNewSame ==
  ASSUME NEW s
  PROVE  NoNew(s, s)
BY DEF NoNew

\* What holds of the stack.
LEMMA StackIs ==
  ASSUME SafetyInv
  PROVE  /\ Stacked(frames) /\ Paths(frames) /\ Len(frames) \in Nat /\ Roots(frames, begun)
         /\ frames \in Seq(Frames(Bound(binds)))
BY PathsTyped DEF SafetyInv, StackOk

\* A step that lets frames go, has none do more, calls nothing and binds nothing keeps Once.
LEMMA Eased ==
  ASSUME SafetyInv, Once, Easing(frames, frames'), SameCalls(ran, ran'), NoNew(store, store'), UNCHANGED binds
  PROVE  Once'
<1> DEFINE s == frames
           r == frames'
           rn == ran
           qn == ran'
           st == store
           sr == store'
<1>1. Stacked(s) /\ Paths(s) /\ Easing(s, r) /\ SameCalls(rn, qn) /\ NoNew(st, sr) /\ OnceOk(s, rn, st, binds)
  BY StackIs DEF Once
<1> HIDE DEF s, r, rn, qn, st, sr
<1>2. OnceOk(r, qn, sr, binds)
  BY <1>1, EasedOk
<1> QED BY <1>2 DEF Once, s, r, rn, qn, st, sr

\* Only frames went.
LEMMA EasedFrames ==
  ASSUME SafetyInv, Once, Easing(frames, frames'), UNCHANGED <<ran, store, binds>>
  PROVE  Once'
<1>1. SameCalls(ran, ran') /\ NoNew(store, store')
  BY SameCallsItself, NoNewSame
<1> QED BY <1>1, Eased

\* So does a step that takes the frame on top away.
LEMMA PopOnce ==
  ASSUME SafetyInv, Once, frames # <<>>, frames' = Below, UNCHANGED <<ran, store, binds>>
  PROVE  Once'
<1>1. Shortened(frames, Len(frames) - 1, frames') /\ Len(frames) \in Nat
  BY StackIs, PoppedIs DEF Below
<1>2. Easing(frames, frames')
  BY <1>1, ShortenedEases
<1> QED BY <1>2, EasedFrames

\* The return of a method that trigger called keeps Once.
LEMMA TriggerReturnsOnce == SafetyInv /\ Once /\ TriggerReturns => Once'
BY PopOnce DEF TriggerReturns, Running, Pop, history, bounds

\* So does the return of a handler or a script.
LEMMA ReturnOnce == SafetyInv /\ Once /\ Return => Once'
BY PopOnce DEF Return, Running, Pop, history, bounds

\* The store changed, but no handler came to the page.
LEMMA FewerKept ==
  ASSUME SafetyInv, Once, NoNew(store, store'), UNCHANGED <<frames, ran, binds>>
  PROVE  Once'
<1>1. \A i \in 1 .. Len(frames) : Eases(frames[i], frames[i])
  BY EasesItself
<1>2. Easing(frames, frames')
  BY <1>1, StackIs DEF Easing
<1> QED BY <1>2, SameCallsItself, Eased

----------
(* Handlers set flags, throw, and take handlers away.                       *)

\* The way a call ends does not make it another one.
LEMMA EndsSame ==
  ASSUME NEW rn \in Seq(CallSet), NEW c, NEW how, NEW qn, qn = [rn EXCEPT ![c].ends = how]
  PROVE  SameCalls(rn, qn)
<1>1. Len(qn) = Len(rn) /\ \A x \in 1 .. Len(rn) : qn[x] = IF x = c THEN [rn[x] EXCEPT !.ends = how] ELSE rn[x]
  OBVIOUS
<1>2. ASSUME NEW x \in 1 .. Len(rn)
      PROVE  qn[x].root = rn[x].root /\ qn[x].hid = rn[x].hid /\ qn[x].elem = rn[x].elem /\ qn[x].one = rn[x].one
  <2>1. rn[x] \in CallSet
    OBVIOUS
  <2> DEFINE e == rn[x]
             d == [e EXCEPT !.ends = how]
  <2>2. d.root = e.root /\ d.hid = e.hid /\ d.elem = e.elem /\ d.one = e.one
    BY <2>1 DEF CallSet
  <2> HIDE DEF d, e
  <2>3. qn[x] = d \/ qn[x] = e
    BY <1>1 DEF d, e
  <2> QED BY <2>2, <2>3 DEF e
<1> QED BY <1>1, <1>2 DEF SameCalls

\* Flags of an event were set.
LEMMA MarkedOnce ==
  ASSUME SafetyInv, Once, Marked(frames, frames'), SameCalls(ran, ran'), UNCHANGED <<store, binds>>
  PROVE  Once'
<1>1. Easing(frames, frames')
  BY StackIs, MarkedEases
<1> QED BY <1>1, NoNewSame, Eased

\* preventDefault keeps Once.
LEMMA PreventDefaultOnce == SafetyInv /\ Once /\ PreventDefault => Once'
<1> SUFFICES ASSUME SafetyInv, Once, PreventDefault PROVE Once'
  OBVIOUS
<1>1. InHandler /\ frames' = WithFlags(Prevented, Prevented) /\ UNCHANGED <<store, binds, ran>>
  BY DEF PreventDefault, bounds
<1>2. Marked(frames, frames')
  BY <1>1, FlagsSafe DEF FlagsKept
<1> QED BY <1>1, <1>2, SameCallsItself, MarkedOnce

\* So does stopPropagation.
LEMMA StopPropagationOnce == SafetyInv /\ Once /\ StopPropagation => Once'
<1> SUFFICES ASSUME SafetyInv, Once, StopPropagation PROVE Once'
  OBVIOUS
<1>1. /\ InHandler /\ frames' = WithFlags(Stopped, Stopped) /\ UNCHANGED <<store, binds>>
      /\ ran' = [ran EXCEPT ![Top.call].ends = "node"] /\ ran \in Seq(CallSet)
  BY DEF StopPropagation, bounds, Ends, SafetyInv
<1>2. Marked(frames, frames')
  BY <1>1, FlagsSafe DEF FlagsKept
<1>3. SameCalls(ran, ran')
  BY <1>1, EndsSame
<1> QED BY <1>1, <1>2, <1>3, MarkedOnce

\* So does stopImmediatePropagation.
LEMMA StopImmediatePropagationOnce == SafetyInv /\ Once /\ StopImmediatePropagation => Once'
<1> SUFFICES ASSUME SafetyInv, Once, StopImmediatePropagation PROVE Once'
  OBVIOUS
<1>1. /\ InHandler /\ frames' = WithFlags(StoppedAtOnce, Stopped) /\ UNCHANGED <<store, binds>>
      /\ ran' = [ran EXCEPT ![Top.call].ends = "all"] /\ ran \in Seq(CallSet)
  BY DEF StopImmediatePropagation, bounds, Ends, SafetyInv
<1>2. Marked(frames, frames')
  BY <1>1, FlagsSafe DEF FlagsKept
<1>3. SameCalls(ran, ran')
  BY <1>1, EndsSame
<1> QED BY <1>1, <1>2, <1>3, MarkedOnce

\* So does a handler that returns false.
LEMMA ReturnsFalseOnce == SafetyInv /\ Once /\ ReturnsFalse => Once'
<1> SUFFICES ASSUME SafetyInv, Once, ReturnsFalse PROVE Once'
  OBVIOUS
<1> DEFINE S == Frames(Bound(binds))
           q == WithFlags(PreventedAndStopped, PreventedAndStopped)
           n == Len(frames)
<1>1. /\ InHandler /\ frames' = SubSeq(q, 1, n - 1) /\ UNCHANGED <<store, binds>>
      /\ ran' = [ran EXCEPT ![Top.call].ends = IF @ = "no" THEN "node" ELSE @] /\ ran \in Seq(CallSet)
  BY DEF ReturnsFalse, bounds, SafetyInv
<1>2. q \in Seq(S) /\ Marked(frames, q)
  <2>1. q = WithFlags(PreventedAndStopped, PreventedAndStopped) =>
          FlagsKept(Bound(binds), frames, begun, vetoed \cup {CurrentEvent.root}, acted, q)
    BY <1>1, FlagsSafe
  <2> QED BY <2>1 DEF FlagsKept
<1>3. n \in Nat \ {0}
  BY <1>1, TopIs DEF InHandler, Running
<1> HIDE DEF q, S
<1>4. Len(q) = n /\ q # <<>>
  BY <1>2, <1>3 DEF Marked
<1>5. Shortened(q, n - 1, frames')
  BY <1>1, <1>2, <1>4, PoppedIs
<1>6. Easing(frames, q) /\ Easing(q, frames')
  BY <1>2, <1>3, <1>4, <1>5, MarkedEases, ShortenedEases
<1>7. Easing(frames, frames')
  BY <1>6, EasingThen
<1>8. SameCalls(ran, ran')
  <2> DEFINE c == Top.call
             how == IF ran[c].ends = "no" THEN "node" ELSE ran[c].ends
  <2>1. ran' = [ran EXCEPT ![c].ends = how]
    BY <1>1
  <2> HIDE DEF c, how
  <2> QED BY <2>1, <1>1, EndsSame
<1> QED BY <1>1, <1>7, <1>8, NoNewSame, Eased

\* So does an exception.
LEMMA ThrowOnce == SafetyInv /\ Once /\ Throw => Once'
<1> SUFFICES ASSUME SafetyInv, Once, Throw PROVE Once'
  OBVIOUS
<1>1. PICK k \in 0 .. Len(frames) : frames' = SubSeq(frames, 1, k)
  BY ThrowShortens
<1>2. UNCHANGED <<ran, store, binds>>
  BY DEF Throw, bounds, history
<1>3. Shortened(frames, k, frames') /\ Len(frames) \in Nat
  BY <1>1, StackIs, ShortenedIs
<1> QED BY <1>2, <1>3, ShortenedEases, EasedFrames

\* A store that shrinks has no new handler.
LEMMA ShrinksNoNew ==
  ASSUME NEW s, NEW t, Shrinks(s, t)
  PROVE  NoNew(s, t)
BY PageNodes DEF Shrinks, NoNew

\* off keeps Once.
LEMMA OffOnce == SafetyInv /\ Once /\ Off => Once'
<1> SUFFICES ASSUME SafetyInv, Once, Off PROVE Once'
  OBVIOUS
<1>1. PICK r \in Removals :
        OnStore(RemoveHandlers(store, r.node, [type |-> r.type, selector |-> r.selector, ns |-> r.ns, fn |-> r.fn]))
  BY DEF Off
<1> DEFINE m == r.node
           off == [type |-> r.type, selector |-> r.selector, ns |-> r.ns, fn |-> r.fn]
           H == Bound(binds)
<1>2. m \in Nodes
  BY NodesAssumption, PageNodes
<1>3. store' = RemoveHandlers(store, m, off) /\ UNCHANGED <<frames, binds, ran>>
  BY <1>1 DEF OnStore, history
<1>4. store \in Good(H)
  BY DEF SafetyInv
<1> HIDE DEF m, off, H
<1>5. Shrinks(store, store')
  BY <1>2, <1>3, <1>4, RemoveHandlersGood
<1> QED BY <1>3, <1>5, ShrinksNoNew, FewerKept

\* So does a node that is taken out of the page.
LEMMA RemoveNodeOnce == SafetyInv /\ Once /\ RemoveNode => Once'
<1> SUFFICES ASSUME SafetyInv, Once, RemoveNode PROVE Once'
  OBVIOUS
<1>1. PICK n \in Removed : OnStore(CleanTree(store, n))
  BY DEF RemoveNode
<1>2. n \in Nodes
  BY NodesAssumption, PageNodes
<1>3. store' = CleanTree(store, n) /\ UNCHANGED <<frames, binds, ran>> /\ store \in Good(Bound(binds))
  BY <1>1 DEF OnStore, history, SafetyInv
<1>4. Shrinks(store, store')
  BY <1>2, <1>3, CleanTreeGood
<1> QED BY <1>3, <1>4, ShrinksNoNew, FewerKept

\* So does a copy, which is not on the page.
LEMMA CloneOnce == SafetyInv /\ Once /\ Clone => Once'
<1> SUFFICES ASSUME SafetyInv, Once, Clone PROVE Once'
  OBVIOUS
<1>1. PICK n \in Cloned : OnStore(CopyEvents(store, n))
  BY DEF Clone
<1>2. n \in 1 .. Document
  BY NodesAssumption
<1>3. store' = CopyEvents(store, n) /\ UNCHANGED <<frames, binds, ran>> /\ store \in Good(Bound(binds))
  BY <1>1 DEF OnStore, history, SafetyInv
<1>4. \A m \in 1 .. Document : Entry(store', m) = Entry(store, m)
  BY <1>2, <1>3, CopyEventsGood
<1>5. NoNew(store, store')
  BY <1>4 DEF NoNew, Keeps
<1> QED BY <1>3, <1>5, FewerKept

\* So do data and removeData.
LEMMA DataOnce == SafetyInv /\ Once /\ Data => Once'
<1> SUFFICES ASSUME SafetyInv, Once, Data PROVE Once'
  OBVIOUS
<1>1. PICK n \in WithData :
        \/ OnStore(SetData(store, n, "key"))
        \/ OnStore(ReadData(store, n, "attribute"))
        \/ \E ks \in {{"key"}, {"key", "attribute"}} : OnStore(RemoveData(store, n, ks))
  BY DEF Data
<1>2. n \in Nodes /\ "key" \in Keys /\ "attribute" \in Keys
  BY NodesAssumption, PageNodes DEF Keys
<1>3. store \in Good(Bound(binds))
  BY DEF SafetyInv
<1>4. /\ Shrinks(store, SetData(store, n, "key"))
      /\ Shrinks(store, ReadData(store, n, "attribute"))
      /\ \A ks : Shrinks(store, RemoveData(store, n, ks))
  BY <1>2, <1>3, SetDataGood, RemoveDataGood
<1>5. Shrinks(store, store') /\ UNCHANGED <<frames, binds, ran>>
  BY <1>1, <1>4 DEF OnStore, history
<1> QED BY <1>5, ShrinksNoNew, FewerKept

----------
(* Calls.                                                                   *)

\* A call for another event does not concern a walk.
LEMMA AddedWalk ==
  ASSUME NEW f, NEW rn, NEW call, NEW qn, Added(rn, call, qn), f.ev.root # call.root, NEW st, WalkOnce(f, rn, st)
  PROVE  WalkOnce(f, qn, st)
<1> DEFINE root == f.ev.root
<1>1. \A x \in Heard(qn, root) : x \in Heard(rn, root) /\ qn[x] = rn[x]
  BY AddedHeard
<1>2. ASSUME NEW x \in 1 .. Len(qn), qn[x].root = root PROVE x \in 1 .. Len(rn) /\ qn[x] = rn[x]
  BY <1>2 DEF Added
<1> QED BY <1>1, <1>2 DEF WalkOnce

\* Nor a dispatch, unless the event began before its own.
LEMMA AddedDispatch ==
  ASSUME NEW f, NEW d, NEW rn, NEW call, NEW qn, Added(rn, call, qn), f.ev.root # call.root, f.ev.root <= call.root,
         NEW st, DispatchOnce(f, d, rn, st)
  PROVE  DispatchOnce(f, d, qn, st)
<1> DEFINE root == f.ev.root
<1> SUFFICES ASSUME NEW k \in 1 .. Len(d.queue) PROVE QueuedOnce(f, d, d.queue[k], qn, st)
  BY DEF DispatchOnce
<1>1. \A x \in Heard(qn, root) : x \in Heard(rn, root) /\ qn[x] = rn[x]
  BY AddedHeard
<1>2. \A x \in 1 .. Len(qn) : (x \in 1 .. Len(rn) /\ qn[x] = rn[x]) \/ qn[x] = call
  BY DEF Added
<1>3. QueuedOnce(f, d, d.queue[k], rn, st)
  BY DEF DispatchOnce
<1> DEFINE q == d.queue[k]
<1> HIDE DEF q
<1>4. \A x \in 1 .. Len(qn) : qn[x].one /\ qn[x].hid = q.h.hid => f.ev.root <= qn[x].root
  BY <1>2, <1>3 DEF QueuedOnce, q
<1> QED BY <1>1, <1>3, <1>4 DEF QueuedOnce, q

\* Calls for the event of walk w are none of the walks below it.
LEMMA AddedOnce ==
  ASSUME NEW s, Len(s) \in Nat, Stacked(s), NEW b \in Nat, Roots(s, b), NEW w \in 1 .. Len(s), Active(s[w]),
         NEW rn, NEW call, NEW qn, Added(rn, call, qn), call.root = s[w].ev.root,
         NEW st, EachOnce(s, rn, st), \A i \in w .. Len(s) : OnceAt(s, qn, st, i)
  PROVE  EachOnce(s, qn, st)
<1> SUFFICES ASSUME NEW i \in 1 .. Len(s), i < w PROVE OnceAt(s, qn, st, i)
  BY DEF EachOnce
<1>1. OnceAt(s, rn, st, i) /\ FrameOk(s, i)
  BY DEF EachOnce, Stacked
<1>2. \A j \in 1 .. Len(s) : j < w /\ Active(s[j]) => s[j].ev.root # call.root /\ s[j].ev.root <= call.root
  <2>1. \A j \in 1 .. Len(s) : Active(s[j]) => s[j].ev.root \in 1 .. b
    BY DEF Roots
  <2>2. \A j \in 1 .. Len(s) : j < w /\ Active(s[j]) => s[j].ev.root < s[w].ev.root
    BY DEF Roots
  <2> QED BY <2>1, <2>2
<1>3. ASSUME Active(s[i]), ~Muted(s, i) PROVE WalkOnce(s[i], qn, st)
  <2>1. WalkOnce(s[i], rn, st)
    BY <1>1, <1>3 DEF OnceAt
  <2> QED BY <2>1, <1>2, <1>3, AddedWalk
<1>4. ASSUME s[i].frame = "dispatch" PROVE DispatchOnce(s[i - 1], s[i], qn, st)
  <2>1. DispatchOnce(s[i - 1], s[i], rn, st) /\ i > 1 /\ Active(s[i - 1])
    BY <1>1, <1>4 DEF OnceAt, FrameOk
  <2>2. i - 1 \in 1 .. Len(s) /\ i - 1 < w
    BY <2>1
  <2> QED BY <2>1, <2>2, <1>2, AddedDispatch
<1> QED BY <1>1, <1>3, <1>4 DEF OnceAt

\* The walk on top is at an onclick, which is called.
LEMMA OnclickWalk ==
  ASSUME NEW e, NEW f, PathOk(e.path, e.ev.target, e.frame), e.path # <<>>,
         e.path[1].how = "onclick", e.path[1].node = 1, e.path[1].type = "click",
         f.ev = e.ev, f.path = Tail(e.path),
         NEW rn, NEW call, NEW qn, Added(rn, call, qn), call.hid = 0, NEW st, WalkOnce(f, rn, st)
  PROVE  WalkOnce(f, qn, st)
<1> DEFINE root == f.ev.root
<1>1. SameHeard(rn, qn, root)
  BY OnclickHeard
<1>2. ~Clicks(f.path)
  <2> SUFFICES ASSUME Clicks(f.path) PROVE FALSE
    OBVIOUS
  <2>1. PICK k \in 1 .. Len(f.path) : f.path[k].how = "onclick" /\ f.path[k].node = 1 /\ f.path[k].type = "click"
    BY DEF Clicks
  <2>2. e.path \in Seq(StopSet)
    BY DEF PathOk
  <2>3. Len(e.path) \in Nat \ {0} /\ Len(f.path) = Len(e.path) - 1 /\ f.path[k] = e.path[k + 1]
    BY <2>2, HeadTailProperties
  <2>4. 1 \in 1 .. Len(e.path) /\ k + 1 \in 1 .. Len(e.path) /\ 1 < k + 1
    BY <2>3
  <2>5. e.path[k + 1].how = e.path[1].how /\ e.path[k + 1].node = e.path[1].node
    BY <2>1, <2>3
  <2>6. e.path[1].type # e.path[k + 1].type
    BY <2>4, <2>5 DEF PathOk
  <2> QED BY <2>1, <2>3, <2>6
<1> QED BY <1>1, <1>2 DEF SameHeard, WalkOnce

\* The calls, with that of an onclick which was not called for the event before.
LEMMA OnclickAlone ==
  ASSUME NEW rn, NEW call, NEW qn, Added(rn, call, qn), call.hid = 0, ~call.one, NEW k \in Nat, NEW st,
         \A x \in 1 .. Len(rn) : rn[x].root = call.root => rn[x].hid # 0,
         NoneTwice(rn), OnesSpent(rn, st), Known(rn, k)
  PROVE  NoneTwice(qn) /\ OnesSpent(qn, st) /\ Known(qn, k)
<1> DEFINE n == Len(rn)
<1>1. n \in Nat /\ Len(qn) = n + 1 /\ qn[n + 1] = call /\ \A x \in 1 .. n : qn[x] = rn[x]
  BY DEF Added
<1>2. /\ \A x, y \in 1 .. n : x < y => Differ(rn[x], rn[y])
      /\ \A x \in 1 .. n : rn[x].one => Spent(rn, st, x)
      /\ \A x \in 1 .. n : rn[x].hid <= k
  BY DEF NoneTwice, OnesSpent, Known
<1> HIDE DEF n
<1>3. \A x \in 1 .. n + 1 : x \in 1 .. n \/ x = n + 1
  BY <1>1
<1>4. ASSUME NEW x \in 1 .. Len(qn), NEW y \in 1 .. Len(qn), x < y PROVE Differ(qn[x], qn[y])
  <2>1. x \in 1 .. n
    BY <1>1, <1>4
  <2>2. CASE y \in 1 .. n
    BY <1>1, <1>2, <1>4, <2>1, <2>2
  <2>3. CASE y = n + 1
    BY <1>1, <2>1, <2>3 DEF Differ, n
  <2> QED BY <1>1, <1>3, <2>2, <2>3
<1>5. ASSUME NEW x \in 1 .. Len(qn), qn[x].one PROVE Spent(qn, st, x)
  <2>1. x \in 1 .. n /\ qn[x] = rn[x]
    BY <1>1, <1>3, <1>5
  <2>2. Spent(rn, st, x)
    BY <1>2, <1>5, <2>1
  <2>3. \A y \in 1 .. Len(qn) : x < y /\ qn[y].hid = qn[x].hid => qn[y].root <= qn[x].root
    BY <1>1, <1>3, <2>1, <2>2 DEF Spent, n
  <2> QED BY <2>1, <2>2, <2>3 DEF Spent
<1>6. Known(qn, k)
  BY <1>1, <1>2, <1>3 DEF Known
<1> QED BY <1>4, <1>5, <1>6 DEF NoneTwice, OnesSpent

----------
(* Handlers that are kept.                                                  *)

\* In a good store a handler is kept in one place.
LEMMA KeptOnce ==
  ASSUME NEW H, NEW s \in Good(H), NEW m \in 1 .. Document, NEW n \in 1 .. Document, NEW g, NEW h,
         Keeps(s, m, g), Keeps(s, n, h), g.hid = h.hid
  PROVE  m = n /\ g = h
<1>1. m = n
  BY GoodUniqueIn
<1> DEFINE e == Entry(s, m)
<1>2. UniqueIn(e)
  BY GoodUniqueIn
<1>3. PICK t \in DOMAIN e.events : \E i \in DOMAIN e.events[t] : e.events[t][i] = g
  BY DEF Keeps
<1>4. PICK u \in DOMAIN e.events : \E i \in DOMAIN e.events[u] : e.events[u][i] = h
  BY <1>1 DEF Keeps
<1> HIDE DEF e
<1>5. PICK i \in DOMAIN e.events[t] : e.events[t][i] = g
  BY <1>3
<1>6. PICK j \in DOMAIN e.events[u] : e.events[u][j] = h
  BY <1>4
<1>7. t = u /\ i = j
  BY <1>2, <1>3, <1>4, <1>5, <1>6 DEF UniqueIn
<1> QED BY <1>1, <1>5, <1>6, <1>7

\* The handlers found for a type at a node are kept there, for that type.
LEMMA HandlersKept ==
  ASSUME NEW H, NEW s \in Good(H), NEW m \in 1 .. Document, NEW type, NEW h \in Range(Handlers(s, m, type))
  PROVE  Keeps(s, m, h) /\ KeptType(h.type, h.selector) = type
<1> DEFINE q == Handlers(s, m, type)
           e == Entry(s, m)
<1>1. m \in Nodes
  BY PageNodes
<1>2. EntryOk(e) /\ s \in StoreSet(H) /\ Owns(s)
  BY <1>1 DEF Good, InStep
<1>3. /\ q \in Seq(H)
      /\ type \in DOMAIN e.events => q = e.events[type]
      /\ type \notin DOMAIN e.events => q = <<>>
  BY <1>1, <1>2, HandlersTyped
<1> HIDE DEF q, e
<1>4. PICK i \in DOMAIN q : q[i] = h
  BY DEF Range, q
<1>5. type \in DOMAIN e.events /\ i \in DOMAIN e.events[type] /\ e.events[type][i] = h
  BY <1>3, <1>4
<1>6. KeptType(h.type, h.selector) = type
  BY <1>2, <1>5 DEF EntryOk
<1> QED BY <1>5, <1>6 DEF Keeps, e

----------
(* The steps of walks.                                                      *)

\* The walk on top goes on.
LEMMA WalkEases ==
  ASSUME NEW e, NEW f, SamePlace(e, f), f.ev = e.ev, e.path \in Seq(StopSet), f.queue = e.queue,
         f.path = <<>> \/ (e.path # <<>> /\ f.path = Tail(e.path))
  PROVE  Eases(e, f)
<1>1. Within(f.path, e.path)
  BY WithinNone, WithinTail
<1>2. Within(f.queue, e.queue)
  BY WithinItself
<1> QED BY <1>1, <1>2 DEF Eases, SamePlace, Active

\* So is a stack on whose top a walk goes on.
LEMMA WalkNext ==
  ASSUME SafetyInv, frames # <<>>, Active(Top), NEW f, SamePlace(Top, f), f.ev = Top.ev, f.queue = Top.queue,
         f.path = <<>> \/ (Top.path # <<>> /\ f.path = Tail(Top.path)), NEW r, Replaced(frames, f, r)
  PROVE  Easing(frames, r)
<1>1. Len(frames) \in Nat \ {0} /\ Top = frames[Len(frames)] /\ PathOk(Top.path, Top.ev.target, Top.frame)
  BY WalkIs
<1>2. Top.path \in Seq(StopSet)
  BY <1>1 DEF PathOk
<1>3. Eases(Top, f)
  BY <1>2, WalkEases
<1>4. Eases(frames[Len(frames)], f)
  BY <1>1, <1>3
<1> QED BY <1>1, <1>4, ReplacedEases

\* A walk that goes on has the queue it had.
LEMMA NextQueue ==
  ASSUME NEW H, NEW e \in Frames(H), NEW p
  PROVE  [e EXCEPT !.path = p].queue = e.queue
BY DEF Frames, FrameSet

\* A walk that goes on keeps Once.
LEMMA WalkGoesOnOnce ==
  ASSUME SafetyInv, Once, frames # <<>>, Active(Top), NEW f \in Frames(Bound(binds)), SamePlace(Top, f), f.ev = Top.ev,
         f.queue = Top.queue, f.path = <<>> \/ (Top.path # <<>> /\ f.path = Tail(Top.path)), Become(f),
         UNCHANGED <<ran, store, binds>>
  PROVE  Once'
<1>1. frames' = Append(SubSeq(frames, 1, Len(frames) - 1), f) /\ frames \in Seq(Frames(Bound(binds)))
  BY WalkIs DEF Become
<1>2. Replaced(frames, f, frames')
  BY <1>1, ReplacedIs
<1>3. Easing(frames, frames')
  BY <1>2, WalkNext
<1> QED BY <1>3, EasedFrames

\* The walk on top calls an onclick.
LEMMA WalkClicksOnce ==
  ASSUME SafetyInv, SafetyInv', Once, frames # <<>>, Active(Top), ~Muted(frames, Len(frames)), Top.path # <<>>,
         HasOnclick(Head(Top.path)),
         NEW f \in Frames(Bound(binds)), SamePlace(Top, f), f.ev = Top.ev, f.queue = Top.queue, f.path = Tail(Top.path),
         Become(f), Onclick(Top.ev.root), UNCHANGED <<store, binds, begun>>
  PROVE  Once'
<1> DEFINE s == frames
           r == frames'
           n == Len(s)
           S == Frames(Bound(binds))
           root == Top.ev.root
           call == [root |-> root, hid |-> 0, node |-> 1, elem |-> 1, one |-> FALSE, ends |-> "no"]
           rn == ran
           qn == ran'
           st == store
<1>1. /\ n \in Nat \ {0} /\ Top = s[n] /\ Top \in S /\ PathOk(Top.path, Top.ev.target, Top.frame)
      /\ Stacked(s) /\ begun \in Nat /\ s \in Seq(S) /\ rn \in Seq(CallSet)
      /\ Below = SubSeq(s, 1, n - 1) /\ root \in 1 .. begun /\ binds \in Nat
  BY WalkIs DEF SafetyInv
<1>2. Stacked(r) /\ Roots(r, begun)
  BY DEF SafetyInv, StackOk
<1>3. Replaced(s, f, r)
  <2>1. r = Append(SubSeq(s, 1, Len(s) - 1), f) /\ s \in Seq(S) /\ s # <<>> /\ f \in S
    BY <1>1 DEF Become
  <2> HIDE DEF S, r, s
  <2> QED BY <2>1, ReplacedIs
<1>4. Easing(s, r)
  BY <1>3, WalkNext
<1>5. EachOnce(s, rn, st) /\ NoneTwice(rn) /\ OnesSpent(rn, st) /\ Known(rn, binds)
  BY DEF Once, OnceOk
<1>6. EachOnce(r, rn, st)
  <2>1. Paths(s) /\ SameCalls(rn, rn) /\ NoNew(st, st)
    BY StackIs, SameCallsItself, NoNewSame
  <2> HIDE DEF s, r, rn, st
  <2> QED BY <1>1, <1>4, <1>5, <2>1, EasedOnce
<1>7. call \in CallSet /\ call.hid = 0 /\ ~call.one /\ call.root = root /\ qn = Append(rn, call)
  <2>1. 1 \in 1 .. Document /\ root \in Nat
    BY <1>1, DocumentAssumption
  <2> QED BY <2>1 DEF CallSet, Onclick
<1>8. /\ Top.path[1].how = "onclick" /\ Top.path[1].node = 1 /\ Top.path[1].type = "click"
      /\ 1 \in 1 .. Len(Top.path)
  <2>1. Top.path \in Seq(StopSet)
    BY <1>1 DEF PathOk
  <2> DEFINE p == Top.path
  <2> HIDE DEF p
  <2>2. Head(p) = p[1] /\ 1 \in 1 .. Len(p)
    BY <2>1 DEF p
  <2> QED BY <2>2 DEF HasOnclick, p
<1>9. /\ Len(r) = n /\ r[n] = f /\ n \in 1 .. n /\ Active(r[n]) /\ r[n].ev.root = root
      /\ \A i \in n .. n : i = n
  BY <1>1, <1>3 DEF Replaced, Active, SamePlace
<1>10. WalkOnce(Top, rn, st)
  BY <1>1, <1>5, <1>9 DEF EachOnce, OnceAt
<1>11. \A x \in 1 .. Len(rn) : rn[x].root = root => rn[x].hid # 0
  BY <1>8, <1>10 DEF WalkOnce, Clicks
<1> HIDE DEF s, r, n, call, rn, qn, st, root
<1>12. Added(rn, call, qn)
  BY <1>1, <1>7, AddedIs
<1>13. NoneTwice(qn) /\ OnesSpent(qn, st) /\ Known(qn, binds)
  <2>1. /\ Added(rn, call, qn) /\ call.hid = 0 /\ ~call.one /\ binds \in Nat
        /\ \A x \in 1 .. Len(rn) : rn[x].root = call.root => rn[x].hid # 0
        /\ NoneTwice(rn) /\ OnesSpent(rn, st) /\ Known(rn, binds)
    BY <1>1, <1>5, <1>7, <1>11, <1>12
  <2> QED BY <2>1, OnclickAlone
<1>14. WalkOnce(f, qn, st)
  <2>1. WalkOnce(f, rn, st)
    <3>1. Muted(r, n) => Muted(s, n)
      <4>1. n > 1 => r[n - 1] = s[n - 1]
        BY <1>1, <1>3 DEF Replaced, n
      <4> QED BY <4>1, <1>1, <1>9 DEF Muted, SamePlace
    <3> QED BY <3>1, <1>1, <1>6, <1>9 DEF EachOnce, OnceAt, s, n
  <2> QED BY <1>1, <1>7, <1>8, <1>12, <2>1, OnclickWalk
<1>15. OnceAt(r, qn, st, n)
  <2>1. OnceAt(r, rn, st, n)
    BY <1>6, <1>9 DEF EachOnce
  <2>2. r[n].frame # "dispatch"
    BY <1>9 DEF Active
  <2> QED BY <1>9, <1>14, <2>1, <2>2 DEF OnceAt
<1>16. EachOnce(r, qn, st)
  BY <1>1, <1>2, <1>6, <1>7, <1>9, <1>12, <1>15, AddedOnce
<1>17. store' = st /\ binds' = binds
  BY DEF st
<1> QED BY <1>13, <1>16, <1>17 DEF Once, OnceOk, r, qn

\* The frame on top is replaced by one that has no more to do, and another comes on top.
LEMMA GrownOnce ==
  ASSUME NEW S, NEW s \in Seq(S), s # <<>>, NEW f \in S, NEW g \in S, NEW r, r = SubSeq(s, 1, Len(s) - 1) \o <<f, g>>,
         NEW e, e = s[Len(s)], Eases(e, f), Stacked(s), Paths(s), Stacked(r), NEW rn, NEW st, EachOnce(s, rn, st),
         NEW k, k = Len(s) + 1, OnceAt(r, rn, st, k)
  PROVE  EachOnce(r, rn, st)
<1>1. PICK q \in Seq(S) : Replaced(s, f, q) /\ Extended(q, g, r)
  BY GrownIs
<1>2. Len(s) \in Nat \ {0} /\ Len(q) = Len(s)
  BY <1>1 DEF Replaced
<1>3. Easing(s, q)
  BY <1>1, <1>2, ReplacedEases
<1>4. SameCalls(rn, rn) /\ NoNew(st, st)
  BY SameCallsItself, NoNewSame
<1>5. EachOnce(q, rn, st)
  BY <1>3, <1>4, EasedOnce
<1> QED BY <1>1, <1>2, <1>5, ExtendedOnce

\* A dispatch on top.
LEMMA DispatchTopOnce ==
  ASSUME NEW r, NEW i, NEW f, NEW d, r[i] = d, r[i - 1] = f, d.frame = "dispatch", NEW rn, NEW st, DispatchOnce(f, d, rn, st)
  PROVE  OnceAt(r, rn, st, i)
<1>1. ~Muted(r, i) /\ ~Active(r[i])
  BY DEF Muted, Active
<1> QED BY <1>1 DEF OnceAt

\* What a dispatch takes into its queue.
LEMMA TakenOnce ==
  ASSUME NEW H, NEW st \in Good(H), NEW e, PathOk(e.path, e.ev.target, e.frame), e.path # <<>>,
         NEW stop, stop = e.path[1], stop.how = "handlers", stop.node \in 1 .. Document,
         NEW rn, WalkOnce(e, rn, st), OnesSpent(rn, st), NEW f, f.ev.root = e.ev.root, f.path = Tail(e.path),
         NEW d, d.node = stop.node, NEW q, q.h \in Range(Handlers(st, stop.node, stop.type))
  PROVE  QueuedOnce(f, d, q, rn, st)
<1> DEFINE root == f.ev.root
           m == stop.node
           g == q.h
           p == e.path
<1>1. Keeps(st, m, g) /\ KeptType(g.type, g.selector) = stop.type
  BY HandlersKept
<1>2. /\ 1 \in 1 .. Len(p) /\ Len(Tail(p)) = Len(p) - 1
      /\ \A k \in 1 .. Len(Tail(p)) : Tail(p)[k] = p[k + 1] /\ k + 1 \in 1 .. Len(p)
  BY TailPath
<1>3. p \in Seq(StopSet) /\ Len(p) \in Nat
  BY DEF PathOk
<1>4. Waits(st, p, g)
  BY <1>1, <1>2 DEF Waits
<1>5. \A x \in Heard(rn, root) : rn[x].hid # g.hid
  BY <1>4 DEF WalkOnce
<1>6. ASSUME NEW h, Waits(st, f.path, h), h.hid = g.hid PROVE FALSE
  <2>1. PICK k \in 1 .. Len(f.path) :
          f.path[k].how = "handlers" /\ Keeps(st, f.path[k].node, h) /\ KeptType(h.type, h.selector) = f.path[k].type
    BY <1>6 DEF Waits
  <2>2. f.path[k] = p[k + 1] /\ k + 1 \in 1 .. Len(p) /\ 1 < k + 1
    BY <1>2, <1>3
  <2>3. p[k + 1] \in StopSet
    BY <1>3, <2>2
  <2>4. p[k + 1].node \in 1 .. Document
    BY <2>3 DEF StopSet
  <2>5. p[k + 1].node = m /\ h = g
    BY <1>1, <1>6, <2>1, <2>2, <2>4, KeptOnce
  <2>6. p[1].type # p[k + 1].type
    BY <1>2, <2>1, <2>2, <2>5 DEF PathOk
  <2> QED BY <1>1, <2>1, <2>2, <2>5, <2>6
<1>7. ASSUME NEW k \in 1 .. Document, NEW h, Keeps(st, k, h), h.hid = g.hid PROVE k = d.node /\ h = g
  BY <1>1, <1>7, KeptOnce
<1>8. ASSUME NEW x \in 1 .. Len(rn), rn[x].one, rn[x].hid = g.hid PROVE FALSE
  BY <1>1, <1>8 DEF OnesSpent, Spent
<1> QED BY <1>5, <1>6, <1>7, <1>8 DEF QueuedOnce

\* The walk on top makes a stop, and dispatches there.
LEMMA WalkDispatchesOnce ==
  ASSUME SafetyInv, SafetyInv', Ordered, Once, frames # <<>>, Active(Top), Top.path # <<>>, NEW stop, stop = Head(Top.path),
         stop.how = "handlers", ~Discarded(stop.type),
         NEW f, f = [Top EXCEPT !.path = Tail(@)],
         frames' = Below \o <<f, Dispatch(stop.node, stop.type)>>, UNCHANGED <<ran, store, binds>>
  PROVE  Once'
<1> DEFINE H == Bound(binds)
           n == Len(frames)
           S == Frames(H)
           m == stop.node
           type == stop.type
           g == Dispatch(m, type)
<1>1. /\ n \in Nat \ {0} /\ Top = frames[n] /\ Top \in S /\ IsWalkOf(Top)
      /\ PathOk(Top.path, Top.ev.target, Top.frame) /\ Top.ev.target \in 1 .. Document
      /\ Stacked(frames) /\ frames \in Seq(S) /\ Paths(frames)
      /\ Below = SubSeq(frames, 1, n - 1) /\ store \in Good(H)
  BY WalkIs, StackIs DEF SafetyInv
<1>2. MutedOk(frames, triggered) /\ EachOnce(frames, ran, store) /\ NoneTwice(ran) /\ OnesSpent(ran, store) /\ Known(ran, binds)
  BY DEF Ordered, OrderOk, Once, OnceOk
<1>3. /\ f \in S /\ SamePlace(Top, f) /\ f.ev = Top.ev /\ f.path = Tail(Top.path)
      /\ stop = Top.path[1] /\ stop \in StopSet /\ Top.ev.target <= m /\ f.queue = Top.queue
  BY <1>1, NextStop, NextQueue
<1>4. 1 \in 1 .. Len(Top.path)
  BY <1>1, TailPath
<1>5. m \in 1 .. Document
  BY <1>3 DEF StopSet
<1>6. g = Dispatched(Top, n, m, type) /\ frames' = SubSeq(frames, 1, n - 1) \o <<f, g>>
  BY <1>1 DEF Dispatch, Dispatched
<1>7. stop.how = "handlers" /\ triggered # type /\ type = stop.type /\ m = stop.node
  BY DEF Discarded
<1> HIDE DEF g, m, type, H
<1>8. g \in S /\ g.frame = "dispatch" /\ g.node = m /\ Taken(g.queue, H, Range(Handlers(store, m, type)), Top.ev.target, m)
  <2>1. /\ store \in Good(H) /\ Top \in Frames(H) /\ IsWalkOf(Top) /\ n \in Nat /\ m \in 1 .. Document
        /\ Top.ev.target <= m /\ g = Dispatched(Top, n, m, type)
    BY <1>1, <1>3, <1>5, <1>6
  <2> HIDE DEF n
  <2> QED BY <2>1, DispatchedIs
<1>9. ~Muted(frames, n)
  <2> SUFFICES ASSUME Muted(frames, n) PROVE FALSE
    OBVIOUS
  <2>1. triggered = "click" /\ Quiet(Top.path)
    <3>1. n \in 1 .. n
      BY <1>1
    <3> QED BY <3>1, <1>1, <1>2 DEF MutedOk
  <2> QED BY <2>1, <1>3, <1>4, <1>7 DEF Quiet
<1>10. WalkOnce(Top, ran, store)
  <2>1. n \in 1 .. n
    BY <1>1
  <2> QED BY <2>1, <1>1, <1>2, <1>9 DEF EachOnce, OnceAt
<1>11. ASSUME NEW k \in 1 .. Len(g.queue) PROVE QueuedOnce(f, g, g.queue[k], ran, store)
  <2>1. g.queue[k].h \in Range(Handlers(store, m, type))
    BY <1>8 DEF Taken
  <2> DEFINE q == g.queue[k]
  <2> HIDE DEF q
  <2>2. q.h \in Range(Handlers(store, stop.node, stop.type)) /\ stop.node \in 1 .. Document /\ g.node = stop.node
    BY <2>1, <1>5, <1>7, <1>8 DEF q
  <2>3. f.ev.root = Top.ev.root
    BY <1>3
  <2>4. QueuedOnce(f, g, q, ran, store)
    BY <1>1, <1>2, <1>3, <1>10, <2>2, <2>3, TakenOnce
  <2> QED BY <2>4 DEF q
<1>12. frames # <<>> /\ f \in S /\ g \in S /\ frames \in Seq(S) /\ frames' = SubSeq(frames, 1, Len(frames) - 1) \o <<f, g>>
  BY <1>1, <1>3, <1>6, <1>8
<1>13. Grown(frames, f, g, frames')
  <2> DEFINE s == frames
             r == frames'
  <2>1. s \in Seq(S) /\ s # <<>> /\ r = SubSeq(s, 1, Len(s) - 1) \o <<f, g>>
    BY <1>12
  <2> HIDE DEF S, s, r
  <2>2. Grown(s, f, g, r)
    BY <1>12, <2>1, GrowsTo
  <2> QED BY <2>2 DEF s, r
<1>14. Eases(Top, f)
  <2>1. Top.path \in Seq(StopSet)
    BY <1>1 DEF PathOk
  <2> QED BY <1>3, <2>1, WalkEases
<1> DEFINE k == n + 1
<1>15. n = Len(frames) /\ n \in Nat \ {0} /\ k = Len(frames) + 1 /\ k - 1 = n
  BY <1>1
<1>16. OnceAt(frames', ran, store, k)
  <2>1. frames'[k] = g /\ frames'[k - 1] = f
    BY <1>13, <1>15 DEF Grown
  <2>2. DispatchOnce(f, g, ran, store)
    BY <1>11 DEF DispatchOnce
  <2> HIDE DEF k
  <2> QED BY <1>8, <2>1, <2>2, DispatchTopOnce
<1> HIDE DEF k
<1>17. EachOnce(frames', ran, store)
  <2> DEFINE s == frames
             r == frames'
             e == Top
  <2>1. /\ s \in Seq(S) /\ s # <<>> /\ f \in S /\ g \in S /\ r = SubSeq(s, 1, Len(s) - 1) \o <<f, g>>
        /\ e = s[Len(s)] /\ Eases(e, f) /\ Stacked(s) /\ Paths(s) /\ Stacked(r) /\ EachOnce(s, ran, store)
        /\ k = Len(s) + 1 /\ OnceAt(r, ran, store, k)
    BY <1>1, <1>2, <1>12, <1>14, <1>15, <1>16 DEF SafetyInv, StackOk
  <2> HIDE DEF S, s, r, e
  <2>2. EachOnce(r, ran, store)
    BY <2>1, GrownOnce
  <2> QED BY <2>2 DEF r
<1> QED BY <1>2, <1>17 DEF Once, OnceOk

\* The walk on top sets another one going, of an event that nobody has heard of.
LEMMA SetsGoingOnce ==
  ASSUME SafetyInv, SafetyInv', Ordered, Once, frames # <<>>, NEW f \in Frames(Bound(binds)), Eases(Top, f),
         NEW g \in Frames(Bound(binds)), g.frame = "trigger", g.ev.root = begun + 1,
         frames' = Below \o <<f, g>>, UNCHANGED <<ran, store, binds>>
  PROVE  Once'
<1> DEFINE S == Frames(Bound(binds))
           s == frames
           r == frames'
           e == Top
           k == Len(s) + 1
<1>1. /\ s \in Seq(S) /\ s # <<>> /\ f \in S /\ g \in S /\ r = SubSeq(s, 1, Len(s) - 1) \o <<f, g>>
      /\ e = s[Len(s)] /\ Eases(e, f) /\ Stacked(s) /\ Paths(s) /\ Stacked(r) /\ k = Len(s) + 1 /\ Len(s) \in Nat \ {0}
  BY TopIs, StackIs DEF SafetyInv, StackOk, Below
<1>2. EachOnce(s, ran, store) /\ NoneTwice(ran) /\ OnesSpent(ran, store) /\ Known(ran, binds)
  BY DEF Once, OnceOk
<1>3. begun \in Nat /\ Past(ran, begun)
  BY DEF SafetyInv, Ordered, OrderOk
<1>4. \A x \in 1 .. Len(ran) : ran[x].root # g.ev.root
  <2>1. \A x : x \in 1 .. begun => x # begun + 1
    BY <1>3
  <2> QED BY <1>3, <2>1 DEF Past
<1> HIDE DEF S, s, r, e, k
<1>5. Grown(s, f, g, r)
  BY <1>1, GrowsTo
<1>6. r[k] = g /\ ~Muted(r, k)
  BY <1>1, <1>5 DEF Grown, Muted
<1>7. OnceAt(r, ran, store, k)
  <2>1. WalkOnce(g, ran, store)
    BY <1>4, FreshOnce
  <2> QED BY <1>6, <2>1, PlainOnce
<1>8. EachOnce(r, ran, store)
  BY <1>1, <1>2, <1>7, GrownOnce
<1> QED BY <1>2, <1>8 DEF Once, OnceOk, r

\* The walk that trigger began calls no onclick that trigger calls itself.
LEMMA MutedIsNull ==
  ASSUME SafetyInv, Once, frames # <<>>, Active(Top), Top.path # <<>>, HasOnclick(Head(Top.path)), Muted(frames, Len(frames))
  PROVE  OnclickIsNull(1, "click")
<1> DEFINE n == Len(frames)
           e == frames[n - 1]
<1>1. /\ n \in Nat \ {0} /\ n \in 1 .. n /\ Top = frames[n] /\ PathOk(Top.path, Top.ev.target, Top.frame)
      /\ Top.ev.target \in 1 .. Document /\ frames \in Seq(Frames(Bound(binds)))
  BY WalkIs
<1>2. Head(Top.path) = Top.path[1] /\ 1 \in 1 .. Len(Top.path)
  BY <1>1, TailPath
<1>3. Top.path[1].node = 1 /\ Top.ev.target <= Top.path[1].node
  BY <1>1, <1>2 DEF HasOnclick, PathOk
<1>4. Top.ev.target = 1
  BY <1>1, <1>3, DocumentAssumption
<1>5. frames[n].ev.target = e.ev.target /\ e.ev.type = "click"
  BY <1>1 DEF Once, OnceOk, EachOnce, OnceAt
<1>6. e.frame = "trigger" /\ e.method /\ n > 1
  BY DEF Muted
<1>7. e \in Range(frames)
  <2>1. n - 1 \in 1 .. n /\ DOMAIN frames = 1 .. n
    BY <1>1, <1>6
  <2> QED BY <2>1 DEF Range
<1>8. e.ev.target = 1
  BY <1>1, <1>4, <1>5
<1> HIDE DEF e, n
<1> QED BY <1>5, <1>6, <1>7, <1>8 DEF OnclickIsNull

\* The walk on top goes on, or is over.
LEMMA NextWalk ==
  ASSUME NEW H, NEW e \in Frames(H), IsWalkOf(e), e.path # <<>>,
         NEW f, f = [e EXCEPT !.path = Tail(@)], NEW over, over = [e EXCEPT !.path = <<>>]
  PROVE  /\ f \in Frames(H) /\ SamePlace(e, f) /\ f.ev = e.ev /\ f.path = Tail(e.path) /\ f.queue = e.queue
         /\ over \in Frames(H) /\ SamePlace(e, over) /\ over.ev = e.ev /\ over.path = <<>> /\ over.queue = e.queue
<1>1. f.queue = e.queue /\ over.queue = e.queue
  BY NextQueue
<1>2. /\ f \in Frames(H) /\ SamePlace(e, f) /\ f.ev = e.ev /\ f.path = Tail(e.path)
      /\ over \in Frames(H) /\ SamePlace(e, over) /\ over.ev = e.ev /\ over.path = <<>>
  BY NextStop
<1> QED BY <1>1, <1>2

\* A stop of the browser's walk keeps Once.
LEMMA NativeStopOnce == SafetyInv /\ SafetyInv' /\ Ordered /\ Once /\ NativeStop => Once'
<1> SUFFICES ASSUME SafetyInv, SafetyInv', Ordered, Once, NativeStop PROVE Once'
  OBVIOUS
<1> DEFINE H == Bound(binds)
           S == Frames(H)
           stop == Head(Top.path)
           f == [Top EXCEPT !.path = Tail(@)]
           over == [Top EXCEPT !.path = <<>>]
           n == Len(frames)
<1>1. frames # <<>> /\ Top.frame = "native" /\ Top.path # <<>> /\ UNCHANGED <<store, triggered, binds>>
  BY DEF NativeStop, Running
<1>2. Active(Top)
  BY <1>1 DEF Active
<1>3. /\ n \in Nat \ {0} /\ Top = frames[n] /\ Top \in S /\ IsWalkOf(Top)
      /\ PathOk(Top.path, Top.ev.target, Top.frame) /\ begun \in Nat
  BY <1>1, <1>2, WalkIs
<1>4. /\ f \in S /\ SamePlace(Top, f) /\ f.ev = Top.ev /\ f.path = Tail(Top.path) /\ f.queue = Top.queue
      /\ over \in S /\ SamePlace(Top, over) /\ over.ev = Top.ev /\ over.path = <<>> /\ over.queue = Top.queue
  BY <1>1, <1>3, NextWalk
<1>5. \/ Become(over) /\ UNCHANGED <<begun, ran>>
      \/ Simulate(f) /\ UNCHANGED ran
      \/ Become(f) /\ Onclick(Top.ev.root) /\ UNCHANGED begun /\ HasOnclick(stop) /\ ~OnclickIsNull(1, "click")
      \/ /\ stop.how = "handlers" /\ ~Discarded(stop.type)
         /\ frames' = Below \o <<f, Dispatch(stop.node, stop.type)>> /\ UNCHANGED <<begun, ran>>
      \/ Become(f) /\ UNCHANGED <<begun, ran>>
  BY Zenon DEF NativeStop, history
<1>6. stop = Head(Top.path) /\ f = [Top EXCEPT !.path = Tail(@)]
  OBVIOUS
<1>7. Eases(Top, f)
  <2>1. Top.path \in Seq(StopSet)
    BY <1>3 DEF PathOk
  <2> HIDE DEF f
  <2> QED BY <1>1, <1>4, <2>1, WalkEases
<1> HIDE DEF f, over, stop, H
<1>8. CASE Become(over) /\ UNCHANGED <<begun, ran>>
  BY <1>1, <1>2, <1>4, <1>8, WalkGoesOnOnce DEF H
<1>9. CASE Become(f) /\ UNCHANGED <<begun, ran>>
  BY <1>1, <1>2, <1>4, <1>9, WalkGoesOnOnce DEF H
<1>10. CASE Become(f) /\ Onclick(Top.ev.root) /\ UNCHANGED begun /\ HasOnclick(stop) /\ ~OnclickIsNull(1, "click")
  <2>1. ~Muted(frames, n) /\ HasOnclick(Head(Top.path))
    BY <1>1, <1>2, <1>6, <1>10, MutedIsNull
  <2> QED BY <1>1, <1>2, <1>4, <1>10, <2>1, WalkClicksOnce DEF H
<1>11. CASE /\ stop.how = "handlers" /\ ~Discarded(stop.type)
            /\ frames' = Below \o <<f, Dispatch(stop.node, stop.type)>> /\ UNCHANGED <<begun, ran>>
  BY <1>1, <1>2, <1>6, <1>11, WalkDispatchesOnce
<1>12. CASE Simulate(f) /\ UNCHANGED ran
  <2> DEFINE c == begun + 1
             g == Simulated(f, n, c)
  <2>1. frames' = Below \o <<f, g>> \/ (Become(f) /\ begun' = begun)
    BY <1>12 DEF Simulate, Simulated
  <2>2. c \in Nat /\ IsSimulated(f, n, c, g)
    BY <1>3 DEF IsSimulated
  <2> HIDE DEF c, g
  <2>3. CASE frames' = Below \o <<f, g>>
    <3>1. FocusinWalk(H, f, c, g)
      <4>1. IsWalkOf(f)
        BY <1>3, <1>4 DEF IsWalkOf, SamePlace
      <4> QED BY <4>1, <1>3, <1>4, <2>2, SimulatedIs
    <3>2. g \in S /\ g.frame = "trigger" /\ g.ev.root = begun + 1
      BY <3>1 DEF FocusinWalk, c
    <3> QED BY <1>1, <1>4, <1>7, <1>12, <2>3, <3>2, SetsGoingOnce DEF H
  <2>4. CASE Become(f) /\ begun' = begun
    BY <2>4, <1>9, <1>12
  <2> QED BY <2>1, <2>3, <2>4
<1> QED BY <1>5, <1>8, <1>9, <1>10, <1>11, <1>12

\* So does a stop of the walk of trigger.
LEMMA TriggerStopOnce == SafetyInv /\ SafetyInv' /\ Ordered /\ Once /\ TriggerStop => Once'
<1> SUFFICES ASSUME SafetyInv, SafetyInv', Ordered, Once, TriggerStop PROVE Once'
  OBVIOUS
<1> DEFINE H == Bound(binds)
           S == Frames(H)
           stop == Head(Top.path)
           f == [Top EXCEPT !.path = Tail(@)]
           over == [Top EXCEPT !.path = <<>>]
<1>1. /\ frames # <<>> /\ Top.frame = "trigger" /\ ~Top.method /\ Top.path # <<>>
      /\ UNCHANGED <<store, triggered, begun, binds>>
  BY DEF TriggerStop, Running, bounds
<1>2. Active(Top)
  BY <1>1 DEF Active
<1>3. Top \in S /\ IsWalkOf(Top) /\ PathOk(Top.path, Top.ev.target, Top.frame) /\ Top = frames[Len(frames)]
  BY <1>1, <1>2, WalkIs
<1>4. /\ f \in S /\ SamePlace(Top, f) /\ f.ev = Top.ev /\ f.path = Tail(Top.path) /\ f.queue = Top.queue
      /\ over \in S /\ SamePlace(Top, over) /\ over.ev = Top.ev /\ over.path = <<>> /\ over.queue = Top.queue
  BY <1>1, <1>3, NextWalk
<1>5. \/ Become(over) /\ UNCHANGED ran
      \/ Become(f) /\ Onclick(Top.ev.root) /\ HasOnclick(stop)
      \/ /\ stop.how = "handlers" /\ ~Discarded(stop.type)
         /\ frames' = Below \o <<f, Dispatch(stop.node, stop.type)>> /\ UNCHANGED ran
      \/ Become(f) /\ UNCHANGED ran
  BY Zenon DEF TriggerStop, history
<1>6. stop = Head(Top.path) /\ f = [Top EXCEPT !.path = Tail(@)]
  OBVIOUS
<1> HIDE DEF f, over, stop, H
<1>8. CASE Become(over) /\ UNCHANGED ran
  BY <1>1, <1>2, <1>4, <1>8, WalkGoesOnOnce DEF H
<1>9. CASE Become(f) /\ UNCHANGED ran
  BY <1>1, <1>2, <1>4, <1>9, WalkGoesOnOnce DEF H
<1>10. CASE Become(f) /\ Onclick(Top.ev.root) /\ HasOnclick(stop)
  <2>1. ~Muted(frames, Len(frames)) /\ HasOnclick(Head(Top.path))
    BY <1>1, <1>3, <1>6, <1>10 DEF Muted
  <2> QED BY <1>1, <1>2, <1>4, <1>10, <2>1, WalkClicksOnce DEF H
<1>11. CASE /\ stop.how = "handlers" /\ ~Discarded(stop.type)
            /\ frames' = Below \o <<f, Dispatch(stop.node, stop.type)>> /\ UNCHANGED ran
  BY <1>1, <1>2, <1>6, <1>11, WalkDispatchesOnce
<1> QED BY <1>5, <1>8, <1>9, <1>10, <1>11

\* A walk of an event that nobody has heard of comes on top.
LEMMA ComesOnTopOnce ==
  ASSUME SafetyInv, SafetyInv', Ordered, Once, NEW b \in Seq(Frames(Bound(binds))), Easing(frames, b),
         NEW g \in Frames(Bound(binds)), g.frame = "trigger" \/ (g.frame = "native" /\ g.ev.type # "click"),
         g.ev.root = begun + 1, frames' = Append(b, g), UNCHANGED <<ran, store, binds>>
  PROVE  Once'
<1> DEFINE S == Frames(Bound(binds))
           s == frames
           r == frames'
           k == Len(b) + 1
<1>1. /\ b \in Seq(S) /\ g \in S /\ r = Append(b, g) /\ Easing(s, b) /\ Stacked(s) /\ Paths(s) /\ Stacked(r)
  BY StackIs DEF SafetyInv, StackOk
<1>2. EachOnce(s, ran, store) /\ NoneTwice(ran) /\ OnesSpent(ran, store) /\ Known(ran, binds)
  BY DEF Once, OnceOk
<1>3. begun \in Nat /\ Past(ran, begun)
  BY DEF SafetyInv, Ordered, OrderOk
<1>4. \A x \in 1 .. Len(ran) : ran[x].root # g.ev.root
  <2>1. \A x : x \in 1 .. begun => x # begun + 1
    BY <1>3
  <2> QED BY <1>3, <2>1 DEF Past
<1> HIDE DEF S, s, r
<1>5. Extended(b, g, r)
  BY <1>1, ExtendedIs
<1>6. Len(b) \in Nat /\ SameCalls(ran, ran) /\ NoNew(store, store)
  BY <1>1, SameCallsItself, NoNewSame
<1>7. EachOnce(b, ran, store)
  BY <1>1, <1>2, <1>6, EasedOnce
<1>8. r[k] = g /\ ~Muted(r, k) /\ g.frame # "dispatch"
  BY <1>5 DEF Extended, Muted
<1>9. OnceAt(r, ran, store, k)
  <2>1. WalkOnce(g, ran, store)
    BY <1>4, FreshOnce
  <2> HIDE DEF k
  <2> QED BY <1>8, <2>1, PlainOnce
<1>10. EachOnce(r, ran, store)
  BY <1>1, <1>5, <1>6, <1>7, <1>9, ExtendedOnce
<1> QED BY <1>2, <1>10 DEF Once, OnceOk, r

\* So does the end of the browser's walk, which may begin a submission.
LEMMA NativeEndsOnce == SafetyInv /\ SafetyInv' /\ Ordered /\ Once /\ NativeEnds => Once'
<1> SUFFICES ASSUME SafetyInv, SafetyInv', Ordered, Once, NativeEnds PROVE Once'
  OBVIOUS
<1> DEFINE H == Bound(binds)
           S == Frames(H)
           n == Len(frames)
<1>1. frames # <<>> /\ Top.frame = "native" /\ UNCHANGED <<store, triggered, ran, binds>>
  BY DEF NativeEnds, Running
<1>2. /\ frames \in Seq(S) /\ Below = SubSeq(frames, 1, n - 1) /\ begun \in Nat /\ n \in Nat \ {0} /\ Top \in S
  BY <1>1, TopIs DEF SafetyInv, Below
<1>3. \/ frames' = Below
      \/ frames' = Append(Below, Native("submit", 2, begun + 1, Top.method)) /\ 2 < Document
  BY Zenon DEF NativeEnds, Pop, Become
<1>4. CASE frames' = Below
  BY <1>1, <1>4, PopOnce
<1>5. CASE frames' = Append(Below, Native("submit", 2, begun + 1, Top.method)) /\ 2 < Document
  <2> DEFINE c == begun + 1
             m == Top.method
             submit == "submit"
             g == Native(submit, 2, c, m)
             b == Below
  <2>1. c \in Nat /\ m \in BOOLEAN /\ 2 \in 1 .. Document /\ submit \in EventTypes
    <3>1. m \in BOOLEAN /\ submit \in EventTypes
      BY <1>2 DEF Frames, FrameSet, EventTypes
    <3>2. 2 \in 1 .. Document /\ c \in Nat
      BY <1>2, <1>5, DocumentAssumption
    <3> QED BY <3>1, <3>2
  <2>2. frames' = Append(b, g) /\ IsNative(submit, 2, c, m, g)
    BY <1>5 DEF IsNative
  <2>3. submit # "click" /\ b = SubSeq(frames, 1, n - 1)
    BY <1>2
  <2> HIDE DEF m, g, submit, b
  <2>4. NativeWalk(H, submit, 2, c, m, g)
    <3> HIDE DEF c
    <3> QED BY <2>1, <2>2, NativeWalkIs
  <2>5. g \in S /\ g.frame = "native" /\ g.ev.type # "click" /\ g.ev.root = begun + 1
    BY <2>3, <2>4 DEF NativeWalk
  <2>6. b \in Seq(S) /\ Shortened(frames, n - 1, b)
    <3> HIDE DEF S
    <3> QED BY <1>1, <1>2, <2>3, PoppedIs
  <2>7. Easing(frames, b)
    BY <1>2, <2>6, ShortenedEases
  <2> QED BY <1>1, <2>2, <2>5, <2>6, <2>7, ComesOnTopOnce
<1> QED BY <1>3, <1>4, <1>5

\* The walk that calls a method has no more to do.
LEMMA MethodEases ==
  ASSUME NEW H, NEW e \in Frames(H), e.frame = "trigger", NEW f, f = [e EXCEPT !.method = TRUE]
  PROVE  Eases(e, f)
<1>1. e \in FrameSet(H)
  BY DEF Frames
<1>2. f.frame = e.frame /\ f.node = e.node /\ f.ev = e.ev /\ f.path = e.path /\ f.queue = e.queue /\ f.method = TRUE
  BY <1>1 DEF FrameSet
<1>3. Within(f.path, e.path) /\ Within(f.queue, e.queue)
  BY <1>2, WithinItself
<1> QED BY <1>2, <1>3 DEF Eases, Active

\* So does the end of the walk of trigger: the browser's method that it calls runs no handlers of
\* the event.
LEMMA TriggerDefaultOnce == SafetyInv /\ SafetyInv' /\ Ordered /\ Once /\ TriggerDefault => Once'
<1> SUFFICES ASSUME SafetyInv, SafetyInv', Ordered, Once, TriggerDefault PROVE Once'
  OBVIOUS
<1> DEFINE H == Bound(binds)
           S == Frames(H)
           n == Len(frames)
           f == [Top EXCEPT !.method = TRUE]
           click == "click"
           target == Top.ev.target
           root == Top.ev.root
           yes == TRUE
           g == Native(click, target, root, yes)
<1>1. frames # <<>> /\ Top.frame = "trigger" /\ ~Top.method /\ UNCHANGED <<store, ran, binds>>
  BY DEF TriggerDefault, Running, bounds
<1>2. /\ frames \in Seq(S) /\ Below = SubSeq(frames, 1, n - 1) /\ n \in Nat \ {0} /\ begun \in Nat
      /\ Top \in S /\ Top = frames[n] /\ Stacked(frames) /\ StackOk(frames, begun, vetoed, acted) /\ Paths(frames)
  BY <1>1, TopIs, StackIs DEF SafetyInv, StackOk, Below
<1>3. \/ frames' = [Below EXCEPT ![Top.ev.donor].ev.prevented = TRUE]
      \/ frames' = Below
      \/ frames' = Below \o <<f, g>> /\ Top.ev.type = click
  BY Zenon DEF TriggerDefault, Pop
<1>4. CASE frames' = Below
  BY <1>1, <1>4, PopOnce
<1>5. CASE frames' = [Below EXCEPT ![Top.ev.donor].ev.prevented = TRUE]
  <2> DEFINE s == Below
             d == Top.ev.donor
             k == n - 1
  <2>1. DonorPrevented(s, d, frames') /\ k < n /\ k = n - 1
    BY <1>2, <1>5 DEF DonorPrevented
  <2> HIDE DEF s, d, k
  <2>2. s \in Seq(S) /\ StackOk(s, begun, vetoed, acted) /\ Shortened(frames, k, s)
    <3>1. s = SubSeq(frames, 1, n - 1)
      BY <1>2 DEF s
    <3> HIDE DEF H
    <3> QED BY <3>1, <1>1, <1>2, <2>1, MovePop
  <2>3. Marked(s, frames')
    <3> HIDE DEF H
    <3> QED BY <1>2, <2>1, <2>2, MoveDonor
  <2>4. Len(s) \in Nat
    <3> HIDE DEF S
    <3> QED BY <2>2
  <2>5. Easing(frames, s) /\ Easing(s, frames')
    BY <1>2, <2>2, <2>3, <2>4, ShortenedEases, MarkedEases
  <2>6. Easing(frames, frames')
    BY <2>5, EasingThen
  <2> QED BY <1>1, <2>6, EasedFrames
<1>6. CASE frames' = Below \o <<f, g>> /\ Top.ev.type = click
  <2>1. target \in 1 .. Document /\ root \in Nat /\ click \in EventTypes /\ yes \in BOOLEAN /\ click = "click"
    BY <1>1, <1>2 DEF Frames, FrameSet, EventSet, Fits, IsWalkOf, EventTypes
  <2>2. f \in S /\ f.frame = "trigger" /\ f.method = TRUE /\ f.ev = Top.ev /\ Eases(Top, f)
    <3> DEFINE e == Top
    <3>1. e \in Frames(H) /\ e.frame = "trigger" /\ f = [e EXCEPT !.method = TRUE]
      BY <1>1, <1>2
    <3> HIDE DEF H, e, f
    <3>2. f \in S /\ f.frame = "trigger" /\ f.method = TRUE /\ f.ev = e.ev
      BY <3>1, MethodCalled
    <3>3. Eases(e, f)
      BY <3>1, MethodEases
    <3> QED BY <3>2, <3>3 DEF e
  <2>3. IsNative(click, target, root, yes, g) /\ frames' = SubSeq(frames, 1, n - 1) \o <<f, g>>
    BY <1>2, <1>6 DEF IsNative
  <2>4. f.ev.target = target /\ f.ev.type = click
    BY <1>6, <2>2
  <2> HIDE DEF f, g, target, root, click, yes, H
  <2>5. NativeWalk(H, click, target, root, yes, g)
    BY <2>1, <2>3, NativeWalkIs
  <2>6. g \in S /\ g.frame = "native" /\ g.ev.type = "click" /\ g.ev.target = target
    BY <2>1, <2>5 DEF NativeWalk
  <2> DEFINE s == frames
             r == frames'
             e == Top
             k == n + 1
  <2>7. /\ s \in Seq(S) /\ s # <<>> /\ f \in S /\ g \in S /\ r = SubSeq(s, 1, Len(s) - 1) \o <<f, g>>
        /\ e = s[Len(s)] /\ Eases(e, f) /\ Stacked(s) /\ Paths(s) /\ Stacked(r) /\ EachOnce(s, ran, store)
        /\ k = Len(s) + 1 /\ k - 1 = Len(s) /\ k > 1
    BY <1>1, <1>2, <2>2, <2>3, <2>6 DEF SafetyInv, StackOk, Once, OnceOk
  <2> HIDE DEF S, s, r, e, k, n
  <2>8. Grown(s, f, g, r)
    BY <2>7, GrowsTo
  <2>9. r[k] = g /\ r[k - 1] = f
    BY <2>7, <2>8 DEF Grown
  <2>10. Muted(r, k)
    BY <2>2, <2>6, <2>7, <2>9 DEF Muted
  <2>11. OnceAt(r, ran, store, k)
    BY <2>1, <2>4, <2>6, <2>9, <2>10 DEF OnceAt
  <2>12. EachOnce(r, ran, store)
    BY <2>7, <2>11, GrownOnce
  <2> QED BY <1>1, <2>12 DEF Once, OnceOk, r
<1> QED BY <1>3, <1>4, <1>5, <1>6

----------
(* Scripts, and what begins.                                                *)

\* So does a call of trigger: its event is a new one.
LEMMA CallTriggerOnce == SafetyInv /\ SafetyInv' /\ Ordered /\ Once /\ CallTrigger => Once'
<1> SUFFICES ASSUME SafetyInv, SafetyInv', Ordered, Once, CallTrigger PROVE Once'
  OBVIOUS
<1> DEFINE H == Bound(binds)
           S == Frames(H)
           n == Len(frames)
           c == begun + 1
           focus == "focus"
           yes == TRUE
<1>1. PICK t \in Triggers : Trigger(t)
  BY DEF CallTrigger
<1> DEFINE m == t.node
           f == Native(focus, m, c, yes)
           g == Triggered(t, c)
<1>2. UNCHANGED <<ran, store, binds>>
  BY DEF CallTrigger, history
<1>3. frames \in Seq(S) /\ n \in Nat /\ begun \in Nat
  BY DEF SafetyInv
<1>4. frames' = Append(frames, f) \/ frames' = Append(frames, g)
  BY <1>1 DEF Trigger, Push, Triggered, Outer
<1>5. /\ IsNative(focus, m, c, yes, f) /\ IsTriggered(t, c, g) /\ c \in Nat
      /\ m \in 1 .. Document /\ focus \in EventTypes /\ yes \in BOOLEAN /\ focus # "click" /\ c = begun + 1
  BY <1>3, NodesAssumption DEF IsNative, IsTriggered, EventTypes
<1> HIDE DEF f, g, c, H, m, focus, yes
<1>6. /\ f \in S /\ f.frame = "native" /\ f.ev.type # "click" /\ f.ev.root = begun + 1
      /\ g \in S /\ g.frame = "trigger" /\ g.ev.root = begun + 1
  <2>1. NativeWalk(H, focus, m, c, yes, f) /\ TriggerWalk(H, t, c, g)
    BY <1>5, NativeWalkIs, TriggerWalkIs
  <2> QED BY <2>1, <1>5 DEF NativeWalk, TriggerWalk
<1>7. Easing(frames, frames)
  <2>1. Shortened(frames, n, frames)
    BY <1>3 DEF Shortened
  <2> QED BY <1>3, <2>1, ShortenedEases
<1> QED BY <1>2, <1>3, <1>4, <1>6, <1>7, ComesOnTopOnce DEF H

\* A stack of one frame, before any handler was called.
LEMMA BeginsOnce ==
  ASSUME NEW g, frames' = <<g>>, ran' = <<>>, g.frame \in {"native", "user"}, binds' = binds
  PROVE  Once'
<1> DEFINE r == frames'
           rn == ran'
<1>1. Len(r) = 1 /\ r[1] = g /\ Len(rn) = 0 /\ g.frame \in {"native", "user"}
  OBVIOUS
<1> HIDE DEF r, rn
<1>2. \A x \in 1 .. Len(rn) : rn[x].root # g.ev.root
  BY <1>1
<1>3. WalkOnce(g, rn, store') /\ ~Muted(r, 1)
  BY <1>2, FreshOnce DEF Muted
<1>4. OnceAt(r, rn, store', 1)
  BY <1>1, <1>3 DEF OnceAt
<1>5. EachOnce(r, rn, store')
  BY <1>1, <1>4 DEF EachOnce
<1>6. NoneTwice(rn) /\ OnesSpent(rn, store') /\ Known(rn, binds')
  BY <1>1 DEF NoneTwice, OnesSpent, Known
<1> QED BY <1>5, <1>6 DEF Once, OnceOk, r, rn

\* A script begins before any call.
LEMMA RunScriptOnce == RunScript => Once'
<1> SUFFICES ASSUME RunScript PROVE Once'
  OBVIOUS
<1> DEFINE g == Script
<1>1. frames' = <<g>> /\ ran' = <<>> /\ binds' = binds
  BY DEF RunScript, Begin, bounds
<1>2. g.frame = "user"
  BY ScriptIs
<1> HIDE DEF g
<1> QED BY <1>1, <1>2, BeginsOnce

\* So does an event of the user's.
LEMMA NativeBeginsOnce ==
  ASSUME SafetyInv, NEW type \in EventTypes, Begin(Native(type, 1, begun + 1, FALSE)), binds' = binds
  PROVE  Once'
<1> DEFINE H == Bound(binds)
           c == begun + 1
           no == FALSE
           g == Native(type, 1, c, no)
<1>1. /\ frames' = <<g>> /\ ran' = <<>> /\ c \in Nat /\ IsNative(type, 1, c, no, g) /\ 1 \in 1 .. Document /\ no \in BOOLEAN
  BY DocumentAssumption DEF Begin, SafetyInv, IsNative
<1> HIDE DEF g, H, c, no
<1>2. NativeWalk(H, type, 1, c, no, g)
  BY <1>1, NativeWalkIs
<1>3. g.frame = "native"
  BY <1>2 DEF NativeWalk
<1> QED BY <1>1, <1>3, BeginsOnce

\* A click of the user keeps Once.
LEMMA UserClicksOnce == SafetyInv /\ UserClicks => Once'
<1>1. "click" \in EventTypes
  BY DEF EventTypes
<1> QED BY <1>1, NativeBeginsOnce DEF UserClicks

\* So does a move of the focus.
LEMMA FocusMovesOnce == SafetyInv /\ Once /\ FocusMoves => Once'
<1> SUFFICES ASSUME SafetyInv, Once, FocusMoves PROVE Once'
  OBVIOUS
<1>1. "focus" \in EventTypes /\ UNCHANGED <<store, binds>>
  BY DEF EventTypes, FocusMoves
<1>2. CASE Begin(Native("focus", 1, begun + 1, FALSE))
  BY <1>1, <1>2, NativeBeginsOnce
<1>3. CASE UNCHANGED <<frames, begun, history>>
  BY <1>1, <1>3 DEF Once, OnceOk, history
<1> QED BY <1>2, <1>3 DEF FocusMoves

----------
(* Handlers bound with one.                                                 *)

\* Of what was meant nothing is left.
LEMMA MeantGone ==
  ASSUME NEW H, NEW s, NEW r \in Good(H), NEW n \in Nodes, NEW type, NEW off, NEW mapped,
         TypeRemoved(s, r, n, type, off, mapped), NEW h, Means(off, mapped, h), KeptType(h.type, h.selector) = type
  PROVE  ~Keeps(r, n, h)
<1> SUFFICES ASSUME Keeps(r, n, h) PROVE FALSE
  OBVIOUS
<1>1. EntryOk(Entry(r, n))
  BY DEF Good, InStep
<1>2. PICK t \in DOMAIN Entry(r, n).events : \E i \in DOMAIN Entry(r, n).events[t] : Entry(r, n).events[t][i] = h
  BY DEF Keeps
<1>3. t = type
  BY <1>1, <1>2 DEF EntryOk
<1> QED BY <1>2, <1>3 DEF TypeRemoved

\* The call of off by which one unbinds handler h.
OffOf(h) == [type |-> h.type, selector |-> h.selector, ns |-> h.ns, fn |-> h.fn]

\* off, called so, means the handler, whichever of the two forms of the call jQuery makes of it.
LEMMA OffMeans ==
  ASSUME NEW h
  PROVE  /\ Means(OffOf(h), FALSE, h) /\ KeptType(OffOf(h).type, OffOf(h).selector) = KeptType(h.type, h.selector)
         /\ OffOf(h).type = h.type
         /\ h.type = "" => /\ Means(OfType(OffOf(h), ""), TRUE, h) /\ KeptType(h.type, h.selector) = ""
                           /\ KeptType(OfType(OffOf(h), "").type, OfType(OffOf(h), "").selector) = ""
<1> DEFINE o == OffOf(h)
           p == OfType(o, "")
<1>1. o.type = h.type /\ o.selector = h.selector /\ o.ns = h.ns /\ o.fn = h.fn
  BY DEF OffOf
<1>2. p.type = "" /\ p.selector = h.selector /\ p.ns = h.ns /\ p.fn = h.fn
  BY DEF OffOf, OfType
<1> HIDE DEF o, p
<1>3. Means(o, FALSE, h) /\ Means(p, TRUE, h)
  BY <1>1, <1>2 DEF Means
<1>4. "" # "focus"
  OBVIOUS
<1> QED BY <1>1, <1>2, <1>3, <1>4 DEF KeptType, o, p

\* After that call the handler is no longer kept at the node.
LEMMA OnceGone ==
  ASSUME NEW H, NEW s \in Good(H), NEW n \in Nodes, NEW h, NEW r, r = RemoveHandlers(s, n, OffOf(h))
  PROVE  r \in Good(H) /\ Shrinks(s, r) /\ ~Keeps(r, n, h)
<1> DEFINE off == OffOf(h)
           type == KeptType(h.type, h.selector)
<1>1. Means(off, FALSE, h) /\ KeptType(off.type, off.selector) = type /\ off.type = h.type
  BY OffMeans
<1>2. h.type = "" => /\ Means(OfType(off, ""), TRUE, h) /\ type = ""
                     /\ KeptType(OfType(off, "").type, OfType(off, "").selector) = ""
  BY OffMeans
<1>3. r = RemoveHandlers(s, n, off)
  OBVIOUS
<1> HIDE DEF off
<1>4. /\ r \in Good(H) /\ Shrinks(s, r)
      /\ off.type # "" => TypeRemoved(s, r, n, KeptType(off.type, off.selector), off, FALSE)
  BY <1>3, RemoveHandlersGood
<1>5. CASE h.type # ""
  <2>1. TypeRemoved(s, r, n, type, off, FALSE)
    BY <1>1, <1>4, <1>5
  <2> HIDE DEF type
  <2>2. KeptType(h.type, h.selector) = type
    BY DEF type
  <2> QED BY <1>1, <1>4, <2>1, <2>2, MeantGone
<1>6. CASE h.type = ""
  <2> DEFINE D == DOMAIN Entry(s, n).events
  <2>1. PICK F : TypeSteps(s, n, off, D, F) /\ r = F[D]
    BY <1>1, <1>3, <1>6, RemoveHandlersSteps
  <2>2. IsFiniteSet(D)
    <3>1. Entry(s, n) \in EntrySet(H)
      BY EntryTyped DEF Good
    <3> QED BY <3>1, EntryShape
  <2> DEFINE G == {T \in SUBSET D : F[T] \in Good(H) /\ ("" \in T => ~Keeps(F[T], n, h))}
  <2>3. {} \in G
    BY <2>1 DEF TypeSteps
  <2>4. KeptType(h.type, h.selector) = ""
    BY <1>2, <1>6
  <2>5. type = ""
    BY <1>2, <1>6
  <2> HIDE DEF D, type
  <2>6. ASSUME NEW T \in SUBSET D, T # {}, \A x \in T : T \ {x} \in G PROVE T \in G
    <3>1. PICK x \in T : F[T] = RemoveType(F[T \ {x}], n, OfType(off, x), TRUE)
      BY <2>1, <2>6 DEF TypeSteps
    <3>2. F[T \ {x}] \in Good(H) /\ ("" \in T \ {x} => ~Keeps(F[T \ {x}], n, h))
      BY <2>6
    <3> DEFINE o == OfType(off, x)
               y == KeptType(o.type, o.selector)
    <3>3. x = "" => Means(o, TRUE, h) /\ y = ""
      BY <1>2, <1>6
    <3> HIDE DEF o
    <3>4. F[T] \in Good(H) /\ TypeRemoved(F[T \ {x}], F[T], n, y, o, TRUE)
      BY <3>1, <3>2, RemoveTypeGood DEF o
    <3> HIDE DEF y
    <3>5. CASE x = ""
      <4>1. ~Keeps(F[T], n, h)
        BY <2>4, <3>3, <3>4, <3>5, MeantGone
      <4> QED BY <3>4, <4>1
    <3>6. CASE x # ""
      <4>1. Keeps(F[T], n, h) => Keeps(F[T \ {x}], n, h)
        BY <3>4, FewerKeeps DEF TypeRemoved
      <4> QED BY <3>2, <3>4, <3>6, <4>1
    <3> QED BY <3>5, <3>6
  <2>7. D \in G
    <3> HIDE DEF G
    <3>1. \A T \in SUBSET D : T # {} /\ (\A x \in T : T \ {x} \in G) => T \in G
      BY <2>6
    <3> QED BY <2>2, <2>3, <3>1, SubsetInduction
  <2>8. CASE "" \in D
    BY <1>4, <2>1, <2>7, <2>8
  <2>9. CASE "" \notin D
    <3>1. EntryOk(Entry(s, n))
      BY DEF Good, InStep
    <3>2. ~Keeps(s, n, h)
      <4> SUFFICES ASSUME Keeps(s, n, h) PROVE FALSE
        OBVIOUS
      <4>1. PICK t \in DOMAIN Entry(s, n).events : \E i \in DOMAIN Entry(s, n).events[t] : Entry(s, n).events[t][i] = h
        BY DEF Keeps
      <4>2. t = ""
        BY <2>4, <3>1, <4>1 DEF EntryOk
      <4> QED BY <2>9, <4>1, <4>2 DEF D
    <3> QED BY <1>4, <3>2 DEF Shrinks
  <2> QED BY <2>8, <2>9
<1> QED BY <1>5, <1>6

----------
(* Binding.                                                                 *)

\* A handler that nobody knows was bound.
BoundOnly(st, sr, k) ==
  \A m \in 1 .. Document : \A h : Keeps(sr, m, h) => Keeps(st, m, h) \/ h.hid = k

\* A walk that waits for a handler did so before, or the handler is the one just bound.
LEMMA BoundWaits ==
  ASSUME NEW p \in Seq(StopSet), NEW st, NEW sr, NEW k, BoundOnly(st, sr, k), NEW h, Waits(sr, p, h)
  PROVE  Waits(st, p, h) \/ h.hid = k
<1>1. PICK l \in 1 .. Len(p) :
        p[l].how = "handlers" /\ Keeps(sr, p[l].node, h) /\ KeptType(h.type, h.selector) = p[l].type
  BY DEF Waits
<1>2. p[l] \in StopSet
  OBVIOUS
<1>3. p[l].node \in 1 .. Document
  BY <1>2 DEF StopSet
<1>4. Keeps(st, p[l].node, h) \/ h.hid = k
  BY <1>1, <1>3 DEF BoundOnly
<1> QED BY <1>1, <1>4 DEF Waits

\* A handler that was just bound was not called yet.
LEMMA BoundOnce ==
  ASSUME NEW k \in Nat, NEW fs \in Seq(Frames(Bound(k))), Stacked(fs), NEW rn \in Seq(CallSet),
         NEW st, NEW sr, BoundOnly(st, sr, k + 1), OnceOk(fs, rn, st, k)
  PROVE  OnceOk(fs, rn, sr, k + 1)
<1> DEFINE c == k + 1
<1>1. EachOnce(fs, rn, st) /\ NoneTwice(rn) /\ OnesSpent(rn, st) /\ Known(rn, k)
  BY DEF OnceOk
<1>2. \A x \in 1 .. Len(rn) : rn[x].hid <= k /\ rn[x].hid \in Nat
  <2>1. \A x \in 1 .. Len(rn) : rn[x] \in CallSet
    OBVIOUS
  <2> QED BY <1>1, <2>1 DEF Known, CallSet
<1>3. \A x \in 1 .. Len(rn) : rn[x].hid # c /\ rn[x].hid <= c
  BY <1>2
<1>4. \A h \in Bound(k) : h.hid # c
  <2>1. \A h \in Bound(k) : h.hid \in 1 .. k
    BY BoundGrows
  <2> QED BY <2>1
<1>5. Paths(fs)
  BY PathsTyped
<1>6. BoundOnly(st, sr, c) /\ c \in Nat
  OBVIOUS
<1> HIDE DEF c
<1>7. ASSUME NEW i \in 1 .. Len(fs) PROVE OnceAt(fs, rn, sr, i)
  <2>1. OnceAt(fs, rn, st, i) /\ FrameOk(fs, i) /\ fs[i].path \in Seq(StopSet)
    BY <1>1, <1>5 DEF EachOnce, Stacked, Paths
  <2>2. ASSUME WalkOnce(fs[i], rn, st) PROVE WalkOnce(fs[i], rn, sr)
    <3>1. ASSUME NEW h, Waits(sr, fs[i].path, h), NEW x \in Heard(rn, fs[i].ev.root) PROVE rn[x].hid # h.hid
      <4>1. Waits(st, fs[i].path, h) \/ h.hid = c
        BY <1>6, <2>1, <3>1, BoundWaits
      <4>2. x \in 1 .. Len(rn)
        BY DEF Heard
      <4> QED BY <1>3, <2>2, <4>1, <4>2 DEF WalkOnce
    <3> QED BY <2>2, <3>1 DEF WalkOnce
  <2>3. ASSUME fs[i].frame = "dispatch" PROVE DispatchOnce(fs[i - 1], fs[i], rn, sr)
    <3>1. DispatchOnce(fs[i - 1], fs[i], rn, st) /\ i - 1 \in 1 .. Len(fs)
      BY <2>1, <2>3 DEF OnceAt, FrameOk
    <3> DEFINE f == fs[i - 1]
               d == fs[i]
    <3>2. f.path \in Seq(StopSet)
      BY <1>5, <3>1 DEF Paths
    <3>3. Taken(d.queue, Bound(k), Bound(k), 1, d.node)
      <4>1. d \in Frames(Bound(k))
        OBVIOUS
      <4> QED BY <2>3, <4>1 DEF Frames, Fits
    <3> HIDE DEF f, d
    <3>4. ASSUME NEW l \in 1 .. Len(d.queue) PROVE QueuedOnce(f, d, d.queue[l], rn, sr)
      <4> DEFINE q == d.queue[l]
      <4>1. QueuedOnce(f, d, q, rn, st) /\ q.h.hid # c
        BY <1>4, <3>1, <3>3 DEF DispatchOnce, Taken, f, d
      <4> HIDE DEF q
      <4>2. ASSUME NEW h, Waits(sr, f.path, h) PROVE h.hid # q.h.hid
        <5>1. Waits(st, f.path, h) \/ h.hid = c
          BY <1>6, <3>2, <4>2, BoundWaits
        <5> QED BY <4>1, <5>1 DEF QueuedOnce
      <4>3. ASSUME NEW m \in 1 .. Document, NEW h, Keeps(sr, m, h), h.hid = q.h.hid PROVE m = d.node /\ h = q.h
        BY <1>6, <4>1, <4>3 DEF BoundOnly, QueuedOnce
      <4> QED BY <4>1, <4>2, <4>3 DEF QueuedOnce, q
    <3> QED BY <3>4 DEF DispatchOnce, f, d
  <2> QED BY <2>1, <2>2, <2>3 DEF OnceAt
<1>8. OnesSpent(rn, sr)
  BY <1>1, <1>3, <1>6 DEF OnesSpent, Spent, BoundOnly
<1>9. Known(rn, c)
  BY <1>3 DEF Known
<1> QED BY <1>1, <1>7, <1>8, <1>9 DEF OnceOk, EachOnce, c

\* on and one keep Once.
LEMMA OnOnce == SafetyInv /\ Once /\ On => Once'
<1> SUFFICES ASSUME SafetyInv, Once, On PROVE Once'
  OBVIOUS
<1> DEFINE H == Bound(binds)
           J == Bound(binds + 1)
<1>1. PICK b \in Bindings :
        store' = AddHandler(store, b.node, [hid |-> binds + 1, type |-> b.type, selector |-> b.selector,
                                            ns |-> b.ns, fn |-> b.fn, one |-> b.one])
  BY DEF On
<1> DEFINE h == [hid |-> binds + 1, type |-> b.type, selector |-> b.selector,
                 ns |-> b.ns, fn |-> b.fn, one |-> b.one]
           n == b.node
<1>2. binds' = binds + 1 /\ UNCHANGED <<frames, ran>> /\ binds \in Nat
  BY DEF On, history, SafetyInv
<1>3. H \subseteq J /\ \A g \in H : g.hid \in 1 .. binds
  BY <1>2, BoundGrows
<1>4. n \in 1 .. Document /\ n \in Nodes /\ h.hid = binds + 1
  BY NodesAssumption, PageNodes
<1>5. h \in J
  <2>1. binds + 1 \in 1 .. binds + 1
    BY <1>2
  <2> QED BY <2>1 DEF Bound
<1>6. store \in Good(H) /\ store \in Good(J)
  <2>1. store \in Good(H)
    BY DEF SafetyInv
  <2> HIDE DEF H, J
  <2> QED BY <2>1, <1>3, GoodMonotone
<1>7. \A m \in 1 .. Document : \A g : Keeps(store, m, g) => g.hid # h.hid
  <2> SUFFICES ASSUME NEW m \in 1 .. Document, NEW g, Keeps(store, m, g) PROVE g.hid # h.hid
    OBVIOUS
  <2>1. m \in Nodes
    BY PageNodes
  <2>2. g \in H
    <3> HIDE DEF H
    <3> QED BY <2>1, <1>6, KeptIsBound
  <2>3. g.hid \in 1 .. binds /\ h.hid = binds + 1
    BY <2>2, <1>3
  <2> QED BY <2>3, <1>2
<1>8. \A m \in 1 .. Document : \A g : Keeps(store', m, g) => Keeps(store, m, g) \/ (m = n /\ g = h)
  <2>1. store' = AddHandler(store, n, h)
    BY <1>1
  <2> HIDE DEF h, n, J, H
  <2> QED BY <2>1, <1>4, <1>5, <1>6, <1>7, AddHandlerGood
<1>9. BoundOnly(store, store', binds + 1)
  BY <1>4, <1>8 DEF BoundOnly
<1> DEFINE k == binds
           fs == frames
           rn == ran
           st == store
           sr == store'
<1>10. /\ k \in Nat /\ fs \in Seq(Frames(Bound(k))) /\ Stacked(fs) /\ rn \in Seq(CallSet)
       /\ BoundOnly(st, sr, k + 1) /\ OnceOk(fs, rn, st, k)
  BY <1>2, <1>9 DEF SafetyInv, StackOk, Once
<1> HIDE DEF k, fs, rn, st, sr
<1>11. OnceOk(fs, rn, sr, k + 1)
  BY <1>10, BoundOnce
<1> QED BY <1>2, <1>11 DEF Once, k, fs, rn, sr

----------
(* Calls of handlers.                                                       *)

\* For the event of a call that call alone is new.
LEMMA CalledHeard ==
  ASSUME NEW rn, NEW call, NEW qn, Added(rn, call, qn), NEW root
  PROVE  \A x \in Heard(qn, root) : (x \in Heard(rn, root) /\ qn[x] = rn[x]) \/ qn[x] = call
<1> SUFFICES ASSUME NEW x \in Heard(qn, root) PROVE (x \in Heard(rn, root) /\ qn[x] = rn[x]) \/ qn[x] = call
  OBVIOUS
<1>1. x \in 1 .. Len(qn) /\ qn[x].root = root /\ qn[x].hid # 0
  BY DEF Heard
<1>2. (x \in 1 .. Len(rn) /\ qn[x] = rn[x]) \/ qn[x] = call
  BY <1>1 DEF Added
<1> QED BY <1>1, <1>2 DEF Heard

\* The walk whose dispatch calls a handler.
LEMMA CalledWalk ==
  ASSUME NEW f, NEW rn, NEW call, NEW qn, Added(rn, call, qn), call.hid # 0, NEW st, WalkOnce(f, rn, st),
         \A h : Waits(st, f.path, h) => h.hid # call.hid
  PROVE  WalkOnce(f, qn, st)
<1>1. ASSUME NEW h, Waits(st, f.path, h), NEW x \in Heard(qn, f.ev.root) PROVE qn[x].hid # h.hid
  <2>1. (x \in Heard(rn, f.ev.root) /\ qn[x] = rn[x]) \/ qn[x] = call
    BY CalledHeard
  <2> QED BY <1>1, <2>1 DEF WalkOnce
<1>2. ASSUME Clicks(f.path), NEW x \in 1 .. Len(qn), qn[x].root = f.ev.root PROVE qn[x].hid # 0
  <2>1. (x \in 1 .. Len(rn) /\ qn[x] = rn[x]) \/ qn[x] = call
    BY DEF Added
  <2> QED BY <1>2, <2>1 DEF WalkOnce
<1> QED BY <1>1, <1>2 DEF WalkOnce

\* The dispatch that calls a handler, which it takes from its queue.
LEMMA CalledDispatch ==
  ASSUME NEW f, NEW d, NEW e, NEW rn, NEW call, NEW qn, Added(rn, call, qn), f.ev.root <= call.root, e.node = d.node,
         \A k \in 1 .. Len(e.queue) : /\ k + 1 \in 1 .. Len(d.queue) /\ e.queue[k] = d.queue[k + 1]
                                      /\ ~(call.hid = e.queue[k].h.hid /\ call.elem = e.queue[k].elem),
         NEW st, DispatchOnce(f, d, rn, st)
  PROVE  DispatchOnce(f, e, qn, st)
<1> SUFFICES ASSUME NEW k \in 1 .. Len(e.queue) PROVE QueuedOnce(f, e, e.queue[k], qn, st)
  BY DEF DispatchOnce
<1> DEFINE q == e.queue[k]
<1>1. QueuedOnce(f, d, q, rn, st) /\ ~(call.hid = q.h.hid /\ call.elem = q.elem)
  BY DEF DispatchOnce
<1> HIDE DEF q
<1>2. ASSUME NEW x \in Heard(qn, f.ev.root) PROVE ~(qn[x].hid = q.h.hid /\ qn[x].elem = q.elem)
  <2>1. (x \in Heard(rn, f.ev.root) /\ qn[x] = rn[x]) \/ qn[x] = call
    BY CalledHeard
  <2> QED BY <1>1, <2>1 DEF QueuedOnce
<1>3. ASSUME NEW x \in 1 .. Len(qn), qn[x].one, qn[x].hid = q.h.hid PROVE f.ev.root <= qn[x].root
  <2>1. (x \in 1 .. Len(rn) /\ qn[x] = rn[x]) \/ qn[x] = call
    BY DEF Added
  <2> QED BY <1>1, <1>3, <2>1 DEF QueuedOnce
<1> QED BY <1>1, <1>2, <1>3 DEF QueuedOnce, q

\* The calls, with one of a handler that was not called for this event and node before.
LEMMA CalledAlone ==
  ASSUME NEW rn, NEW call, NEW qn, Added(rn, call, qn), call.hid # 0, NEW k, call.hid <= k,
         NEW st, NEW sr, NoNew(st, sr),
         \A x \in Heard(rn, call.root) : ~(rn[x].hid = call.hid /\ rn[x].elem = call.elem),
         \A x \in 1 .. Len(rn) : rn[x].one /\ rn[x].hid = call.hid => call.root <= rn[x].root,
         call.one => \A m \in 1 .. Document : \A h : Keeps(sr, m, h) => h.hid # call.hid,
         NoneTwice(rn), OnesSpent(rn, st), Known(rn, k)
  PROVE  NoneTwice(qn) /\ OnesSpent(qn, sr) /\ Known(qn, k)
<1> DEFINE n == Len(rn)
<1>1. n \in Nat /\ Len(qn) = n + 1 /\ qn[n + 1] = call /\ \A x \in 1 .. n : qn[x] = rn[x]
  BY DEF Added
<1>2. /\ \A x, y \in 1 .. n : x < y => Differ(rn[x], rn[y])
      /\ \A x \in 1 .. n : rn[x].one => Spent(rn, st, x)
      /\ \A x \in 1 .. n : rn[x].hid <= k
      /\ \A x \in 1 .. n : rn[x].one /\ rn[x].hid = call.hid => call.root <= rn[x].root
  BY DEF NoneTwice, OnesSpent, Known
<1>3. \A x \in 1 .. n : Differ(rn[x], call)
  BY DEF Differ, Heard
<1>4. \A x, y \in 1 .. n : rn[x].one /\ x < y /\ rn[y].hid = rn[x].hid => rn[y].root <= rn[x].root
  BY <1>2 DEF Spent
<1> HIDE DEF n
<1>5. \A x \in 1 .. n + 1 : x \in 1 .. n \/ x = n + 1
  BY <1>1
<1>6. ASSUME NEW x \in 1 .. Len(qn), NEW y \in 1 .. Len(qn), x < y PROVE Differ(qn[x], qn[y])
  <2>1. x \in 1 .. n
    BY <1>1, <1>6
  <2>2. CASE y \in 1 .. n
    BY <1>1, <1>2, <1>6, <2>1, <2>2
  <2>3. CASE y = n + 1
    BY <1>1, <1>3, <2>1, <2>3
  <2> QED BY <1>1, <1>5, <2>2, <2>3
<1>7. ASSUME NEW x \in 1 .. n, qn[x].one PROVE Spent(qn, sr, x)
  <2>1. qn[x] = rn[x] /\ rn[x].one /\ Spent(rn, st, x)
    BY <1>1, <1>2, <1>7
  <2>2. ASSUME NEW y \in 1 .. Len(qn), x < y, qn[y].hid = qn[x].hid PROVE qn[y].root <= qn[x].root
    <3>1. CASE y \in 1 .. n
      BY <1>1, <1>4, <2>1, <2>2, <3>1
    <3>2. CASE y = n + 1
      BY <1>1, <1>2, <2>1, <2>2, <3>2
    <3> QED BY <1>1, <1>5, <3>1, <3>2
  <2>3. \A m \in 1 .. Document : \A h : Keeps(sr, m, h) => h.hid # rn[x].hid
    BY <2>1 DEF Spent, NoNew
  <2> QED BY <2>1, <2>2, <2>3 DEF Spent
<1>8. ASSUME qn[n + 1].one PROVE Spent(qn, sr, n + 1)
  <2>1. \A y \in 1 .. Len(qn) : ~(n + 1 < y)
    BY <1>1
  <2> QED BY <1>1, <1>8, <2>1 DEF Spent
<1>9. OnesSpent(qn, sr)
  BY <1>1, <1>5, <1>7, <1>8 DEF OnesSpent
<1>10. Known(qn, k)
  BY <1>1, <1>2, <1>5 DEF Known
<1> QED BY <1>6, <1>9, <1>10 DEF NoneTwice

\* What a dispatch and its walk know of the handler that is next.
Nexts(walk, d, rest, call, k, sr) ==
  /\ call.root = walk.ev.root /\ call.root \in Nat /\ call.hid # 0 /\ call.hid <= k
  /\ call.hid = d.queue[1].h.hid /\ call.elem = d.queue[1].elem /\ 1 \in 1 .. Len(d.queue)
  /\ Eases(d, rest) /\ d.frame = "dispatch"
  /\ \A l \in 1 .. Len(rest.queue) : /\ l + 1 \in 1 .. Len(d.queue) /\ rest.queue[l] = d.queue[l + 1]
                                     /\ ~(call.hid = rest.queue[l].h.hid /\ call.elem = rest.queue[l].elem)
  /\ call.one => /\ \A m \in 1 .. Document : \A h : Keeps(sr, m, h) /\ h.hid = call.hid => m # d.node \/ h # d.queue[1].h

\* A handler is called.
LEMMA CalledOk ==
  ASSUME NEW S, NEW s \in Seq(S), s # <<>>, NEW rest \in S, NEW user \in S,
         NEW r, r = SubSeq(s, 1, Len(s) - 1) \o <<rest, user>>, Stacked(s), Paths(s), NEW tr, MutedOk(s, tr),
         NEW b \in Nat, Stacked(r), Roots(r, b), user.frame = "user",
         NEW rn, NEW call, NEW qn, Added(rn, call, qn), NEW st, NEW sr, NoNew(st, sr), NEW k, OnceOk(s, rn, st, k),
         NEW walk, walk = s[Len(s) - 1], NEW d, d = s[Len(s)], Nexts(walk, d, rest, call, k, sr), Paths(r)
  PROVE  OnceOk(r, qn, sr, k)
<1> DEFINE n == Len(s)
           w == n - 1
<1>1. n \in Nat \ {0} /\ d = s[n] /\ walk = s[w] /\ FrameOk(s, n) /\ n \in 1 .. n
  BY DEF Stacked
<1>2. EachOnce(s, rn, st) /\ NoneTwice(rn) /\ OnesSpent(rn, st) /\ Known(rn, k)
  BY DEF OnceOk
<1>3. /\ call.root = walk.ev.root /\ call.root \in Nat /\ call.hid # 0 /\ call.hid <= k
      /\ call.hid = d.queue[1].h.hid /\ call.elem = d.queue[1].elem /\ 1 \in 1 .. Len(d.queue)
      /\ Eases(d, rest) /\ d.frame = "dispatch"
      /\ \A l \in 1 .. Len(rest.queue) : /\ l + 1 \in 1 .. Len(d.queue) /\ rest.queue[l] = d.queue[l + 1]
                                         /\ ~(call.hid = rest.queue[l].h.hid /\ call.elem = rest.queue[l].elem)
  BY DEF Nexts
<1>4. rest.frame = "dispatch" /\ rest.node = d.node
  BY <1>3 DEF Eases
<1>5. n > 1 /\ Active(walk) /\ w \in 1 .. n /\ w + 1 = n /\ w < n
  BY <1>1, <1>3 DEF FrameOk
<1> DEFINE q == d.queue[1]
<1>6. DispatchOnce(walk, d, rn, st) /\ QueuedOnce(walk, d, q, rn, st) /\ q.h.hid = call.hid /\ q.elem = call.elem
  <2>1. OnceAt(s, rn, st, n)
    BY <1>1, <1>2 DEF EachOnce
  <2>2. DispatchOnce(walk, d, rn, st)
    BY <1>1, <1>3, <2>1 DEF OnceAt
  <2> QED BY <1>3, <2>2 DEF DispatchOnce
<1> HIDE DEF q
<1>7. Grown(s, rest, user, r)
  BY GrowsTo
<1> DEFINE m == n + 1
<1>8. /\ Len(r) = m /\ m \in Nat /\ r[m] = user /\ r[n] = rest /\ r[w] = walk /\ m - 1 = n
      /\ \A i \in 1 .. w : r[i] = s[i]
  BY <1>1, <1>5, <1>7 DEF Grown
<1> HIDE DEF n, w, m
<1>9. ~Muted(s, w)
  <2>1. w # Len(s)
    BY <1>1, <1>5 DEF n
  <2>2. w \in 1 .. Len(s)
    BY <1>5 DEF n
  <2> QED BY <2>1, <2>2 DEF MutedOk
<1>10. ~Muted(r, w)
  <2>1. w > 1 => r[w - 1] = s[w - 1]
    <3>1. w > 1 => w - 1 \in 1 .. w
      BY <1>1, <1>5
    <3> QED BY <1>8, <3>1
  <2> QED BY <1>1, <1>8, <1>9, <2>1 DEF Muted
<1>11. EachOnce(r, rn, st)
  <2>1. OnceAt(r, rn, st, m)
    <3>1. ~Muted(r, m) /\ ~Active(user) /\ user.frame # "dispatch"
      BY <1>8 DEF Muted, Active
    <3> QED BY <1>8, <3>1, PlainOnce
  <2>2. d = s[Len(s)] /\ m = Len(s) + 1
    BY DEF m, n
  <2> QED BY <1>2, <1>3, <2>1, <2>2, GrownOnce
<1>12. WalkOnce(walk, qn, st)
  <2>1. OnceAt(s, rn, st, w)
    BY <1>2, <1>5 DEF EachOnce, n
  <2>2. WalkOnce(walk, rn, st)
    BY <1>1, <1>5, <1>9, <2>1 DEF OnceAt
  <2>3. \A h : Waits(st, walk.path, h) => h.hid # call.hid
    BY <1>6 DEF QueuedOnce
  <2> QED BY <1>3, <2>2, <2>3, CalledWalk
<1>13. DispatchOnce(walk, rest, qn, st)
  <2>1. walk.ev.root <= call.root
    BY <1>3
  <2> QED BY <1>3, <1>4, <1>6, <2>1, CalledDispatch
<1>14. \A i \in w .. Len(r) : OnceAt(r, qn, st, i)
  <2>1. OnceAt(r, qn, st, w)
    <3>1. walk.frame # "dispatch"
      BY <1>5 DEF Active
    <3> QED BY <1>8, <1>10, <1>12, <3>1 DEF OnceAt
  <2>2. OnceAt(r, qn, st, n)
    <3>1. n - 1 = w
      BY <1>1 DEF w
    <3>2. r[n - 1] = walk
      BY <1>8, <3>1
    <3> QED BY <1>4, <1>8, <1>13, <3>2, DispatchTopOnce
  <2>3. OnceAt(r, qn, st, m)
    <3>1. ~Muted(r, m) /\ ~Active(user) /\ user.frame # "dispatch"
      BY <1>8 DEF Muted, Active
    <3> QED BY <1>8, <3>1, PlainOnce
  <2>4. \A i \in w .. m : i = w \/ i = n \/ i = m
    BY <1>1 DEF w, m
  <2> QED BY <2>4, <2>3, <2>2, <2>1, <1>8
<1>15. EachOnce(r, qn, st)
  <2>1. w \in 1 .. Len(r) /\ Len(r) \in Nat /\ Active(r[w]) /\ call.root = r[w].ev.root
    BY <1>1, <1>3, <1>5, <1>8 DEF m
  <2> QED BY <1>11, <1>14, <2>1, AddedOnce
<1>16. EachOnce(r, qn, sr)
  <2>1. SameCalls(qn, qn) /\ Easing(r, r)
    <3>1. Shortened(r, Len(r), r) /\ Len(r) \in Nat
      BY <1>8 DEF Shortened
    <3> QED BY <3>1, SameCallsItself, ShortenedEases
  <2> QED BY <1>15, <2>1, EasedOnce
<1>17. NoneTwice(qn) /\ OnesSpent(qn, sr) /\ Known(qn, k)
  <2>1. \A x \in Heard(rn, call.root) : ~(rn[x].hid = call.hid /\ rn[x].elem = call.elem)
    BY <1>3, <1>6 DEF QueuedOnce
  <2>2. \A x \in 1 .. Len(rn) : rn[x].one /\ rn[x].hid = call.hid => call.root <= rn[x].root
    BY <1>3, <1>6 DEF QueuedOnce
  <2>3. ASSUME call.one, NEW l \in 1 .. Document, NEW h, Keeps(sr, l, h), h.hid = call.hid PROVE FALSE
    <3>1. Keeps(st, l, h)
      BY <2>3 DEF NoNew
    <3>2. l = d.node /\ h = q.h
      BY <1>6, <2>3, <3>1 DEF QueuedOnce
    <3> QED BY <2>3, <3>2 DEF Nexts, q
  <2>4. call.one => \A l \in 1 .. Document : \A h : Keeps(sr, l, h) => h.hid # call.hid
    BY <2>3
  <2> QED BY <1>2, <1>3, <2>1, <2>2, <2>4, CalledAlone
<1> QED BY <1>16, <1>17 DEF OnceOk

\* The handler that is next is kept nowhere after its call, if it was bound with one.
LEMMA UnboundOnce ==
  ASSUME NEW H, NEW s \in Good(H), NEW n \in 1 .. Document, NEW h, NEW r,
         r = IF h.one THEN RemoveHandlers(s, n, OffOf(h)) ELSE s
  PROVE  NoNew(s, r) /\ (h.one => ~Keeps(r, n, h))
<1>1. n \in Nodes
  BY PageNodes
<1>2. CASE h.one
  <2>1. r = RemoveHandlers(s, n, OffOf(h))
    BY <1>2
  <2>2. Shrinks(s, r) /\ ~Keeps(r, n, h)
    BY <1>1, <2>1, OnceGone
  <2> QED BY <1>2, <2>2, ShrinksNoNew
<1>3. CASE ~h.one
  <2>1. r = s
    BY <1>3
  <2> QED BY <1>3, <2>1, NoNewSame
<1> QED BY <1>2, <1>3

\* The dispatch that goes on has no more to do.
LEMMA NextEases ==
  ASSUME NEW H, NEW d \in Frames(H), d.frame = "dispatch", d.queue # <<>>, NEW e, IsNext(d, e)
  PROVE  Eases(d, e)
<1>1. NextOf(H, d, e) /\ d \in FrameSet(H)
  BY NextIs DEF Frames
<1>2. SamePlace(d, e) /\ e.ev = d.ev
  BY <1>1 DEF NextOf
<1>3. e.path = d.path /\ e.queue = Tail(d.queue)
  BY <1>1 DEF IsNext, FrameSet
<1>4. Within(e.path, d.path)
  BY <1>3, WithinItself
<1>5. Within(e.queue, d.queue)
  <2> DEFINE S == QueueSet(H)
  <2>1. d.queue \in Seq(S)
    BY <1>1 DEF FrameSet
  <2> HIDE DEF S
  <2> QED BY <1>3, <2>1, WithinTail
<1> QED BY <1>2, <1>4, <1>5 DEF Eases, SamePlace, Active

\* A dispatch that calls its next handler, skips it or is over keeps Once.
LEMMA DispatchesOnce == SafetyInv /\ SafetyInv' /\ Ordered /\ Once /\ Dispatches => Once'
<1> SUFFICES ASSUME SafetyInv, SafetyInv', Ordered, Once, Dispatches PROVE Once'
  OBVIOUS
<1> DEFINE H == Bound(binds)
           S == Frames(H)
           n == Len(frames)
           ev == frames[Top.owner].ev
           q == Head(Top.queue)
           rest == [Top EXCEPT !.queue = Tail(@), !.elem = q.elem]
           user == [Frame("user") EXCEPT !.fn = q.h.fn, !.call = Len(ran) + 1]
           call == [root |-> ev.root, hid |-> q.h.hid, node |-> Top.node, elem |-> q.elem, one |-> q.h.one, ends |-> "no"]
           walk == frames[n - 1]
           d == Top
           new == IF q.h.one THEN RemoveHandlers(store, d.node, OffOf(q.h)) ELSE store
<1>1. frames # <<>> /\ Top.frame = "dispatch"
  BY DEF Dispatches, Running
<1>2. /\ n \in Nat \ {0} /\ d = frames[n] /\ d \in S /\ frames \in Seq(S) /\ binds \in Nat /\ begun \in Nat
      /\ Below = SubSeq(frames, 1, n - 1) /\ Stacked(frames) /\ Roots(frames, begun) /\ ran \in Seq(CallSet)
      /\ MutedOk(frames, triggered) /\ Paths(frames) /\ store \in Good(H)
  BY <1>1, TopIs, StackIs DEF SafetyInv, StackOk, Below, Ordered, OrderOk
<1>3. UNCHANGED <<begun, triggered, binds>>
  BY DEF Dispatches, bounds
<1>4. \/ frames' = Below /\ ran' = ran /\ store' = store
      \/ /\ d.queue # <<>>
         /\ \/ frames' = Append(Below, rest) /\ ran' = ran /\ store' = store
            \/ frames' = Below \o <<rest, user>> /\ ran' = Append(ran, call) /\ store' = new
  <2>1. \/ Pop /\ UNCHANGED <<store, ran>>
        \/ ~DispatchOver(Top, ev) /\ Become(rest) /\ UNCHANGED <<store, ran>>
        \/ ~DispatchOver(Top, ev) /\ frames' = Below \o <<rest, user>> /\ ran' = Append(ran, call)
           /\ store' = WithoutOnce(Top.node, q.h)
    BY Zenon DEF Dispatches
  <2>2. ~DispatchOver(Top, ev) => Top.queue # <<>>
    BY Zenon DEF DispatchOver
  <2>3. new = WithoutOnce(Top.node, q.h)
    BY Zenon DEF WithoutOnce, OffOf
  <2> QED BY <2>1, <2>2, <2>3 DEF Pop, Become
<1>5. CASE frames' = Below /\ ran' = ran /\ store' = store
  BY <1>1, <1>3, <1>5, PopOnce
<1>6. ASSUME d.queue # <<>>
      PROVE  /\ NextOf(H, d, rest) /\ Eases(d, rest) /\ rest \in S /\ q = d.queue[1] /\ q.h \in H
             /\ 1 \in 1 .. Len(d.queue)
  <2>1. IsNext(d, rest) /\ d \in Frames(H) /\ d.frame = "dispatch" /\ d.queue # <<>>
    BY <1>1, <1>2, <1>6 DEF IsNext
  <2> HIDE DEF rest, H, d
  <2>2. NextOf(H, d, rest) /\ Eases(d, rest)
    BY <2>1, NextIs, NextEases
  <2> QED BY <2>2 DEF NextOf, d
<1>7. CASE d.queue # <<>> /\ frames' = Append(Below, rest) /\ ran' = ran /\ store' = store
  <2>1. Eases(d, rest) /\ rest \in S
    BY <1>6, <1>7
  <2> HIDE DEF rest
  <2>2. Replaced(frames, rest, frames')
    <3> HIDE DEF S
    <3> QED BY <1>1, <1>2, <1>7, <2>1, ReplacedIs
  <2>3. Easing(frames, frames')
    BY <1>2, <2>1, <2>2, ReplacedEases
  <2> QED BY <1>3, <1>7, <2>3, EasedFrames
<1>8. CASE d.queue # <<>> /\ frames' = Below \o <<rest, user>> /\ ran' = Append(ran, call) /\ store' = new
  <2>1. NextOf(H, d, rest) /\ Eases(d, rest) /\ rest \in S /\ q = d.queue[1] /\ q.h \in H /\ 1 \in 1 .. Len(d.queue)
    BY <1>6, <1>8
  <2>2. walk.ev.root = ev.root /\ ev.root \in Nat
    BY <1>1, DispatchOwner
  <2> HIDE DEF rest, walk, user, ev
  <2>3. d.node \in 1 .. Document /\ Taken(d.queue, H, H, 1, d.node)
    BY <1>1, <1>2 DEF Frames, Fits
  <2>4. q.h.hid \in Nat /\ q.h.hid # 0 /\ q.h.hid <= binds /\ q.h.one \in BOOLEAN /\ q.h.fn \in {0} \cup {b.fn : b \in Bindings}
    <3> DEFINE h == q.h
    <3>1. h \in Bound(binds) /\ binds \in Nat
      BY <1>2, <2>1
    <3> HIDE DEF h, H
    <3>2. h.hid \in 1 .. binds
      BY <3>1, BoundGrows
    <3>3. h.hid # 0 /\ h.hid \in Nat /\ h.hid <= binds /\ h.one \in BOOLEAN /\ h.fn \in {0} \cup {b.fn : b \in Bindings}
      BY <3>1, <3>2, BoundIs
    <3> QED BY <3>3 DEF h
  <2>5. q.elem \in 1 .. Document
    <3>1. q.elem \in 1 .. d.node
      BY <2>1, <2>3 DEF Taken
    <3> QED BY <2>3, <3>1, DocumentAssumption
  <2>6. call \in CallSet
    <3> HIDE DEF q, d
    <3> QED BY <2>5, <2>4, <2>3, <2>2 DEF CallSet, d
  <2>7. user \in S /\ user.frame = "user"
    <3> DEFINE c == Len(ran) + 1
               fn == q.h.fn
    <3>1. c \in Nat /\ fn \in {0} \cup {b.fn : b \in Bindings} /\ IsCalled(fn, c, user)
      BY <1>2, <2>4 DEF IsCalled, user
    <3> HIDE DEF c, fn, H
    <3> QED BY <3>1, UserIs
  <2>8. NoNew(store, new) /\ (q.h.one => ~Keeps(new, d.node, q.h))
    <3> DEFINE h == q.h
               m == d.node
    <3>1. new = IF h.one THEN RemoveHandlers(store, m, OffOf(h)) ELSE store
      OBVIOUS
    <3>2. m \in 1 .. Document /\ store \in Good(H)
      BY <1>2, <2>3
    <3> HIDE DEF h, m, H, new
    <3>3. NoNew(store, new) /\ (h.one => ~Keeps(new, m, h))
      BY <3>1, <3>2, UnboundOnce
    <3> QED BY <3>3 DEF h, m
  <2>9. /\ call.root = ev.root /\ call.hid = q.h.hid /\ call.elem = q.elem /\ call.one = q.h.one
    OBVIOUS
  <2> HIDE DEF call, q, new, d
  <2>10. Nexts(walk, d, rest, call, binds, store')
    <3>1. \A l \in 1 .. Len(rest.queue) : l + 1 \in 1 .. Len(d.queue) /\ rest.queue[l] = d.queue[l + 1] /\ 1 < l + 1
      BY <2>1 DEF NextOf
    <3>2. \A k, l \in 1 .. Len(d.queue) : k < l => (d.queue[k].elem = d.queue[l].elem => d.queue[k].h.hid # d.queue[l].h.hid)
      BY <2>3 DEF Taken
    <3>3. \A l \in 1 .. Len(rest.queue) : ~(call.hid = rest.queue[l].h.hid /\ call.elem = rest.queue[l].elem)
      BY <2>1, <2>9, <3>1, <3>2
    <3>4. call.one => \A m \in 1 .. Document : \A h :
                        Keeps(store', m, h) /\ h.hid = call.hid => m # d.node \/ h # d.queue[1].h
      BY <1>8, <2>1, <2>8, <2>9
    <3> QED BY <1>1, <2>1, <2>2, <2>4, <2>9, <3>1, <3>3, <3>4 DEF Nexts, d
  <2>11. Added(ran, call, ran')
    BY <1>2, <1>8, <2>6, AddedIs
  <2> DEFINE s == frames
             r == frames'
             rn == ran
             qn == ran'
             st == store
             sr == store'
             tr == triggered
             b == begun
             k == binds
  <2>12. /\ s \in Seq(S) /\ s # <<>> /\ rest \in S /\ user \in S
         /\ r = SubSeq(s, 1, Len(s) - 1) \o <<rest, user>> /\ Stacked(s) /\ Paths(s) /\ MutedOk(s, tr)
         /\ b \in Nat /\ user.frame = "user"
         /\ Added(rn, call, qn) /\ NoNew(st, sr) /\ OnceOk(s, rn, st, k)
         /\ walk = s[Len(s) - 1] /\ d = s[Len(s)] /\ Nexts(walk, d, rest, call, k, sr)
    BY <1>1, <1>2, <1>8, <2>1, <2>7, <2>8, <2>10, <2>11 DEF Once, walk, d
  <2>13. Stacked(r) /\ Roots(r, b)
    BY <1>3 DEF SafetyInv, StackOk
  <2> HIDE DEF S, s, r, rn, qn, st, sr, tr, b, k
  <2>14. Paths(r)
    <3>1. PICK p \in Seq(S) : Replaced(s, rest, p) /\ Extended(p, user, r) /\ r \in Seq(S)
      BY <2>12, GrownIs
    <3> QED BY <3>1, PathsTyped DEF S
  <2>15. OnceOk(r, qn, sr, k)
    BY <2>12, <2>13, <2>14, CalledOk
  <2> QED BY <1>3, <2>15 DEF Once, r, qn, sr, k
<1> QED BY <1>4, <1>5, <1>7, <1>8

\* At first nothing was called.
LEMMA OnceInit == Init => Once
<1> SUFFICES ASSUME Init PROVE Once
  OBVIOUS
<1>1. frames = <<>> /\ ran = <<>>
  BY DEF Init
<1>2. Len(<<>>) = 0
  OBVIOUS
<1>3. EachOnce(<<>>, <<>>, store) /\ NoneTwice(<<>>) /\ OnesSpent(<<>>, store) /\ Known(<<>>, binds)
  BY <1>2 DEF EachOnce, NoneTwice, OnesSpent, Known
<1> QED BY <1>1, <1>3 DEF Once, OnceOk

\* Every step keeps it.
LEMMA OnceStep == OnceInv /\ [Next]_vars => OnceInv'
<1> SUFFICES ASSUME OrderInv, Once, [Next]_vars PROVE OrderInv' /\ Once'
  BY DEF OnceInv
<1>1. OrderInv'
  BY OrderStep
<1>2. SafetyInv /\ Ordered /\ SafetyInv'
  BY <1>1 DEF OrderInv
<1>3. CASE Walks
  BY <1>1, <1>2, <1>3, NativeStopOnce, NativeEndsOnce, TriggerStopOnce, TriggerDefaultOnce, TriggerReturnsOnce, DispatchesOnce
     DEF Walks
<1>4. CASE UserCode
  <2>1. CASE On \/ Off \/ RemoveNode \/ Clone \/ Data
    BY <1>1, <1>2, <2>1, OnOnce, OffOnce, RemoveNodeOnce, CloneOnce, DataOnce
  <2>2. CASE \/ PreventDefault \/ StopPropagation \/ StopImmediatePropagation \/ Return \/ ReturnsFalse \/ Throw
             \/ CallTrigger
    BY <1>1, <1>2, <2>2, PreventDefaultOnce, StopPropagationOnce, StopImmediatePropagationOnce, ReturnOnce, ReturnsFalseOnce,
       ThrowOnce, CallTriggerOnce
  <2> QED BY <1>4, <2>1, <2>2 DEF UserCode
<1>5. CASE Browser
  BY <1>1, <1>2, <1>5, RunScriptOnce, UserClicksOnce, FocusMovesOnce DEF Browser
<1>6. CASE UNCHANGED vars
  BY <1>1, <1>6 DEF vars, Once
<1> QED BY <1>1, <1>3, <1>4, <1>5, <1>6 DEF Next

\* For an event a handler is called at most once for each node, also when trigger goes
\* on to call a method of the browser; one bound with one is called by no event that
\* begins after its call, and is kept nowhere (the listener in event.add, trigger, one, off).
THEOREM SpecCalledOnce == Spec => []CalledOnce
<1>1. OnceInv => CalledOnce
  <2> SUFFICES ASSUME OrderInv, Once PROVE CalledOnce
    BY DEF OnceInv
  <2>1. DOMAIN ran = 1 .. Len(ran) /\ Len(ran) \in Nat /\ store \in Good(Bound(binds)) /\ NoneTwice(ran) /\ OnesSpent(ran, store)
    BY DEF OrderInv, SafetyInv, Once, OnceOk
  <2> DEFINE n == Len(ran)
             g == [i \in DOMAIN ran |-> <<ran[i].root, ran[i].hid, ran[i].elem>>]
  <2>2. ASSUME NEW i \in 1 .. n, NEW j \in 1 .. n, g[i] = g[j] PROVE i = j
    <3>1. ran[i].root = ran[j].root /\ ran[i].hid = ran[j].hid /\ ran[i].elem = ran[j].elem
      BY <2>1, <2>2
    <3>2. ~(i < j) /\ ~(j < i)
      BY <2>1, <3>1 DEF NoneTwice, Differ
    <3> QED BY <2>1, <3>2
  <2>3. IsInjective(g)
    BY <2>1, <2>2 DEF IsInjective
  <2>4. ASSUME NEW i \in 1 .. n, ran[i].one
        PROVE  /\ \A j \in i + 1 .. n : ran[j].hid = ran[i].hid => ran[j].root <= ran[i].root
               /\ \A m \in 1 .. Document : \A t \in DOMAIN Entry(store, m).events :
                     \A h \in Range(Handlers(store, m, t)) : h.hid # ran[i].hid
    <3>1. Spent(ran, store, i)
      BY <2>1, <2>4 DEF OnesSpent
    <3>2. \A j \in i + 1 .. n : ran[j].hid = ran[i].hid => ran[j].root <= ran[i].root
      <4>1. \A j \in i + 1 .. n : j \in 1 .. n /\ i < j
        BY <2>1
      <4> QED BY <3>1, <4>1 DEF Spent
    <3>3. ASSUME NEW m \in 1 .. Document, NEW t \in DOMAIN Entry(store, m).events, NEW h \in Range(Handlers(store, m, t))
          PROVE  h.hid # ran[i].hid
      <4>1. Keeps(store, m, h)
        BY <2>1, HandlersKept
      <4> QED BY <3>1, <4>1 DEF Spent
    <3> QED BY <3>2, <3>3
  <2> QED BY <2>1, <2>3, <2>4 DEF CalledOnce
<1>2. Init => OnceInv
  BY OrderInit, OnceInit DEF OnceInv
<1> QED BY <1>1, <1>2, OnceStep, PTL DEF Spec
================================================================================
