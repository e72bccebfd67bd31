----------------------------- MODULE EffectsProofs -----------------------------
(***************************************************************************)
(* Effects takes the page where the last link leads: for any number of     *)
(* elements and of clicks made before, while and after animations run.     *)
(*                                                                         *)
(* The invariant, Calm, is about all intermediate states of the running    *)
(* code.  The agenda is always of one of a few shapes (Staged, Framed):    *)
(* what has come of one event of the browser so far, and before it what    *)
(* the step under way consists of.  In each of them all elements are fine  *)
(* (Fine): one that a timer drives has the sentinel in front of its queue, *)
(* and the last item of the queue, or what is under way, leads where the   *)
(* last link does; one that none drives has an empty queue and is there.   *)
(* At most one element is not, the one whose queue is about to go on       *)
(* (Ready, Called, New), and none beyond the first k elements need be,     *)
(* while a click has reached only those.                                   *)
(***************************************************************************)
EXTENDS Effects, SequenceTheorems, FiniteSetTheorems, TLAPS

N == Cardinality(Elems)

\* The items of links.
Scrolls ==
  [kind : {"anim"}, call : Nat, target : Nat \ {0}, duration : {LinkDuration}, queued : {TRUE}]

\* What there is to do while scripts only ask for promises.
Doings ==
  [do : {"queue", "dequeue", "empty", "run", "tick", "push", "attach", "made", "return", "settle",
         "complete", "callback", "promise", "frame", "after"},
   e : Nat, item : Scrolls \cup {None}, a : Nat, i : Nat, flag : BOOLEAN]

QueuesOk == queue \in [Elems -> [stored : BOOLEAN, items : Seq(Scrolls \cup {InProgress})]]
HooksOk ==
  /\ hooks \in [Elems -> [stored : BOOLEAN, cur : Scrolls \cup {None}, stop : {FALSE},
                          unqueued : {0}, waits : Seq(Nat)]]
  /\ \A e \in Elems : hooks[e].stored \/ hooks[e].cur = None
Anims ==
  [elem : Elems, item : Scrolls, age : Int, stopped : {FALSE}, attached : BOOLEAN,
   state : {"pending", "resolved"}]
AnimsOk == anims \in Seq(Anims) /\ timers \in Seq(1 .. Len(anims))
RestOk ==
  /\ lag \in Int /\ promises \in Seq(Int) /\ result \in BOOLEAN /\ calls \in Nat
  /\ delays = [e \in Elems |-> 0] /\ finishing = {}
PageOk == position \in [Elems -> Nat] /\ hash \in Nat /\ last \in Nat
Typed == QueuesOk /\ HooksOk /\ AnimsOk /\ RestOk /\ PageOk /\ agenda \in Seq(Doings)

\* Timer j drives element e.
Drives(j, e) == anims[timers[j]].elem = e /\ anims[timers[j]].state = "pending"
Driven(e) == \E j \in 1 .. Len(timers) : Drives(j, e)

\* Something of e's queue is under way.
Busy(e) ==
  queue[e].items # <<>> /\ queue[e].items[1] = InProgress /\ Tail(queue[e].items) \in Seq(Scrolls)

\* Whatever is under way, what is left of e's queue ends where the last link leads.
Leads(e, left) == left[Len(left)].target = last
Goal(e) ==
  LET left == Tail(queue[e].items)
  IN  IF left = <<>> THEN hooks[e].cur.target = last ELSE Leads(e, left)

\* Element e, which is to go to the target of the last link unless that click has not
\* reached it yet: it has reached those up to k.
Fine(e, k) ==
  IF Driven(e) THEN Busy(e) /\ (e <= k => Goal(e))
  ELSE queue[e].items = <<>> /\ (e <= k => position[e] = last)

\* Every timer drives an element of its own, but for those of the dead animations.
\* Those that are loose have no complete function yet.
Timely(dead, loose) ==
  /\ \A j, l \in 1 .. Len(timers) : timers[j] = timers[l] => j = l
  /\ \A j \in 1 .. Len(timers) : LET anim == anims[timers[j]] IN
       /\ timers[j] \in dead \/ anim.state = "pending"
       /\ anim.state = "pending" => anim.item = hooks[anim.elem].cur /\ (anim.attached \/ timers[j] \in loose)
  /\ \A j, l \in 1 .. Len(timers) : \A e \in Elems : Drives(j, e) /\ Drives(l, e) => j = l

\* All but those of x are fine, and those are driven by no timer.
Even(k, dead, x, loose) ==
  /\ Timely(dead, loose)
  /\ \A e \in Elems \ x : Fine(e, k)
  /\ \A e \in x : ~Driven(e)

\* The address has still to be changed, by an element that is not in x.
Owed(k, x) == k < N \/ \E e \in Elems \ x : queue[e].items # <<>>
Addressed(k) == hash = last \/ Owed(k, {})

\* Element e, whose queue is to go on.
Left(e) == IF queue[e].items # <<>> /\ queue[e].items[1] = InProgress THEN Tail(queue[e].items) ELSE queue[e].items
Ready(e, k, dead) ==
  /\ e \in Elems /\ Even(k, dead, {e}, {}) /\ Left(e) \in Seq(Scrolls)
  /\ e <= k => IF Left(e) = <<>> THEN position[e] = last ELSE Leads(e, Left(e))
  /\ hash = last \/ Owed(k, {e}) \/ Left(e) # <<>>

\* Its item is called.
Called(e, item, k, dead) ==
  e \in Elems /\ Even(k, dead, {e}, {}) /\ Busy(e) /\ hooks[e].cur = item /\ (e <= k => Goal(e))

\* Animation b was made of it.
New(b, k, dead) ==
  /\ b \in 1 .. Len(anims) /\ anims[b].state = "pending" /\ \A j \in 1 .. Len(timers) : timers[j] # b
  /\ Called(anims[b].elem, anims[b].item, k, dead)

\* What is to be done later: the click reaches elements from k + 1 on, or a timer's
\* animation a is over.
Clicks(r, k) ==
  /\ Len(r) = N - k
  /\ \A i \in 1 .. N - k : r[i] = OnItem("queue", k + i, r[i].item) /\ r[i].item \in Scrolls /\ r[i].item.target = last
Starts(s, x) == s # <<>> /\ Head(s) = x
Ends(s, x) == Starts(s, x) /\ Tail(s) = <<>>
AfterTick(a, i) == Do("after", 0, None, a, i, FALSE)
Returning(r, a, i) == Starts(r, OnAnim("return", a, FALSE)) /\ Ends(Tail(r), AfterTick(a, i))
Place(a, i) == i \in 1 .. Len(timers) /\ timers[i] = a
Later(r, k, dead) ==
  \/ Clicks(r, k) /\ dead = {}
  \/ \E a \in 1 .. Len(anims), i \in 1 .. Len(timers) :
       Returning(r, a, i) /\ k = N /\ dead = {a} /\ Place(a, i) /\ anims[a].state # "pending"

\* What is done before that: see Effects for what puts it there.
Before(x, r) == Starts(agenda, x) /\ Tail(agenda) = r
AtRest(r, k, dead) == agenda = r /\ Even(k, dead, {}, {}) /\ Addressed(k)
AtPromise(r, k, dead) == Before(OnElem("promise", 0), r) /\ Even(k, dead, {}, {}) /\ Addressed(k)
AtEmpty(e, r, k, dead) ==
  Before(OnElem("empty", e), r) /\ queue[e].items = <<>> /\ Even(k, dead, {}, {}) /\ Addressed(k)
AtMade(b, r, k, dead) == Before(OnAnim("made", b, FALSE), r) /\ Even(k, dead, {}, {}) /\ Addressed(k)
Attaching(s, b, r) == /\ Starts(s, OnAnim("attach", b, FALSE)) /\ Starts(Tail(s), OnAnim("made", b, FALSE))
                      /\ Tail(Tail(s)) = r
AtAttach(b, r, k, dead) ==
  Attaching(agenda, b, r) /\ anims[b].state = "pending" /\ Even(k, dead, {}, {b}) /\ Addressed(k)
Pushing(s, b, r) == Starts(s, OnAnim("push", b, FALSE)) /\ Attaching(Tail(s), b, r)
AtPush(b, r, k, dead) == Pushing(agenda, b, r) /\ result /\ New(b, k, dead)
AtTick(b, r, k, dead) ==
  /\ Starts(agenda, OnAnim("tick", b, FALSE)) /\ Pushing(Tail(agenda), b, r)
  /\ New(b, k, dead) /\ lag # -1 /\ anims[b].age = lag
AtRun(e, r, k, dead) ==
  \E item \in Scrolls : Before(OnItem("run", e, item), r) /\ Called(e, item, k, dead)
AtDequeue(e, r, k, dead) == Before(OnElem("dequeue", e), r) /\ Ready(e, k, dead)
AtCallback(e, r, k, dead) ==
  /\ Starts(agenda, OnElem("callback", e)) \/ Starts(agenda, OnElem("promise", 0))
  /\ Starts(Tail(agenda), OnElem("dequeue", e)) /\ Tail(Tail(agenda)) = r
  /\ Ready(e, k, dead)
AtComplete(a, r, k, dead) ==
  /\ Before(OnAnim("complete", a, FALSE), r)
  /\ LET e == anims[a].elem
     IN  /\ Even(k, dead, {e}, {}) /\ Busy(e)
         /\ e <= k => IF Left(e) = <<>> THEN position[e] = last /\ anims[a].item.target = last ELSE Leads(e, Left(e))

\* A frame of the interval.
FrameAt(i) == Do("frame", 0, None, 0, i, FALSE)
AtFrame(i) == Ends(agenda, FrameAt(i)) /\ Even(N, {}, {}, {}) /\ Addressed(N)
AtTimer(a, i) ==
  /\ Starts(agenda, OnAnim("tick", a, FALSE)) /\ Ends(Tail(agenda), AfterTick(a, i))
  /\ Place(a, i) /\ Even(N, {}, {}, {}) /\ Addressed(N)
AtSettle(a, i) ==
  /\ Starts(agenda, OnAnim("settle", a, TRUE)) /\ Returning(Tail(agenda), a, i)
  /\ Place(a, i) /\ Even(N, {}, {}, {}) /\ position[anims[a].elem] = anims[a].item.target
AtAfter(a, i) ==
  /\ Ends(agenda, AfterTick(a, i)) /\ Place(a, i) /\ Addressed(N)
  /\ \/ result /\ Even(N, {}, {}, {})
     \/ ~result /\ anims[a].state # "pending" /\ Even(N, {a}, {}, {})

\* The stages: with nothing but what comes later; with an element e; with an animation b.
Within(r, k, dead) ==
  \/ AtRest(r, k, dead) \/ AtPromise(r, k, dead)
  \/ \E e \in Elems : \/ AtEmpty(e, r, k, dead) \/ AtRun(e, r, k, dead) \/ AtDequeue(e, r, k, dead)
                      \/ AtCallback(e, r, k, dead)
  \/ \E b \in 1 .. Len(anims) : \/ AtTick(b, r, k, dead) \/ AtPush(b, r, k, dead) \/ AtAttach(b, r, k, dead)
                                \/ AtMade(b, r, k, dead) \/ AtComplete(b, r, k, dead)
Framed ==
  \/ \E i \in Nat \ {0} : AtFrame(i)
  \/ \E a \in 1 .. Len(anims), i \in 1 .. Len(timers) : AtTimer(a, i) \/ AtSettle(a, i) \/ AtAfter(a, i)
Staged(r, k, dead) == Later(r, k, dead) /\ Within(r, k, dead)
Calm ==
  /\ Typed
  /\ \/ \E r \in Seq(Doings) : \E k \in 0 .. N : \E dead \in SUBSET (1 .. Len(anims)) : Staged(r, k, dead)
     \/ Framed

ScrollInv == meddled = {} => Calm

----------
(* Agendas.                                                                *)

\* The tuples that are put in front of an agenda are sequences.
LEMMA Tuples ==
  ASSUME NEW S, NEW x \in S, NEW y \in S, NEW z \in S, NEW w \in S
  PROVE  /\ <<x>> \in Seq(S) /\ Len(<<x>>) = 1 /\ <<x>>[1] = x
         /\ <<x, y>> \in Seq(S) /\ Len(<<x, y>>) = 2 /\ <<x, y>>[1] = x /\ <<x, y>>[2] = y
         /\ <<x, y, z>> \in Seq(S) /\ Len(<<x, y, z>>) = 3
         /\ <<x, y, z>>[1] = x /\ <<x, y, z>>[2] = y /\ <<x, y, z>>[3] = z
         /\ <<x, y, z, w>> \in Seq(S) /\ Len(<<x, y, z, w>>) = 4
         /\ <<x, y, z, w>>[1] = x /\ <<x, y, z, w>>[2] = y /\ <<x, y, z, w>>[3] = z /\ <<x, y, z, w>>[4] = w
OBVIOUS

\* What a step puts in front comes first, one thing after the other.
LEMMA InFront ==
  ASSUME NEW S, NEW p \in Seq(S), NEW r \in Seq(S), p # <<>>
  PROVE  /\ p \o r \in Seq(S) /\ p \o r # <<>> /\ Head(p \o r) = p[1]
         /\ Tail(p \o r) = Tail(p) \o r
<1> DEFINE s == p \o r
           t == Tail(p) \o r
<1>1. Len(p) \in Nat \ {0} /\ Len(r) \in Nat
  BY EmptySeq, LenProperties
<1>2. s \in Seq(S) /\ Len(s) = Len(p) + Len(r) /\ \A i \in 1 .. Len(p) + Len(r) : s[i] = IF i <= Len(p) THEN p[i] ELSE r[i - Len(p)]
  BY ConcatProperties
<1>3. Tail(p) \in Seq(S) /\ Len(Tail(p)) = Len(p) - 1 /\ \A i \in 1 .. Len(Tail(p)) : Tail(p)[i] = p[i + 1]
  BY HeadTailProperties
<1>4. /\ t \in Seq(S) /\ Len(t) = Len(p) - 1 + Len(r)
      /\ \A i \in 1 .. Len(p) - 1 + Len(r) : t[i] = IF i <= Len(p) - 1 THEN Tail(p)[i] ELSE r[i - (Len(p) - 1)]
  BY <1>3, ConcatProperties
<1> HIDE DEF s, t
<1>5. s # <<>>
  BY <1>1, <1>2, EmptySeq
<1>6. Tail(s) \in Seq(S) /\ Len(Tail(s)) = Len(s) - 1 /\ \A i \in 1 .. Len(Tail(s)) : Tail(s)[i] = s[i + 1]
  BY <1>2, <1>5, HeadTailProperties
<1>7. Tail(s) = t
  <2>1. ASSUME NEW i \in 1 .. Len(Tail(s)) PROVE Tail(s)[i] = t[i]
    <3>1. Tail(s)[i] = s[i + 1] /\ i \in 1 .. Len(p) - 1 + Len(r) /\ i + 1 \in 1 .. Len(p) + Len(r)
      BY <1>1, <1>2, <1>6
    <3>2. CASE i <= Len(p) - 1
      BY <1>1, <1>2, <1>3, <1>4, <3>1, <3>2
    <3>3. CASE ~(i <= Len(p) - 1)
      <4>1. i - (Len(p) - 1) = (i + 1) - Len(p)
        BY <1>1
      <4>2. s[i + 1] = r[(i + 1) - Len(p)]
        BY <1>1, <1>2, <3>1, <3>3
      <4>3. t[i] = r[i - (Len(p) - 1)]
        BY <1>1, <1>4, <3>1, <3>3
      <4> QED BY <3>1, <4>1, <4>2, <4>3
    <3> QED BY <3>2, <3>3
  <2>2. Len(Tail(s)) = Len(t)
    BY <1>1, <1>2, <1>4, <1>6
  <2> QED BY <1>4, <1>6, <2>1, <2>2, SeqEqual
<1>8. Head(s) = p[1]
  <2>1. Head(s) = s[1]
    BY <1>2, <1>5
  <2> QED BY <1>1, <1>2, <2>1
<1> QED BY <1>2, <1>5, <1>7, <1>8 DEF s, t

\* What is put in front is the first thing to do, and the rest follows.
LEMMA FirstIs ==
  ASSUME NEW S, NEW x \in S, NEW r \in Seq(S)
  PROVE  /\ <<>> \o r = r /\ <<x>> \o r \in Seq(S)
         /\ <<x>> \o r # <<>> /\ Head(<<x>> \o r) = x /\ Tail(<<x>> \o r) = r
<1> DEFINE p == <<x>>
<1>1. p \in Seq(S) /\ p # <<>> /\ p[1] = x /\ Tail(p) = <<>>
  OBVIOUS
<1> HIDE DEF p
<1>2. p \o r \in Seq(S) /\ p \o r # <<>> /\ Head(p \o r) = x /\ Tail(p \o r) = <<>> \o r
  BY <1>1, InFront
<1>3. <<>> \o r = r
  BY ConcatEmptySeq
<1> QED BY <1>2, <1>3 DEF p

Follows(s, t) == Tail(s) = t

\* The same of two things.
LEMMA TwoFirst ==
  ASSUME NEW S, NEW x \in S, NEW y \in S, NEW r \in Seq(S)
  PROVE  /\ <<x, y>> \o r \in Seq(S) /\ Starts(<<x, y>> \o r, x) /\ Follows(<<x, y>> \o r, <<y>> \o r)
         /\ Starts(<<y>> \o r, y) /\ Follows(<<y>> \o r, r)
<1> DEFINE p == <<x, y>>
           q == <<y>>
<1>1. p \in Seq(S) /\ p # <<>> /\ p[1] = x /\ q \in Seq(S)
  OBVIOUS
<1>2. Tail(p) = q
  OBVIOUS
<1>3. q \o r # <<>> /\ Head(q \o r) = y /\ Tail(q \o r) = r
  BY FirstIs
<1> HIDE DEF p, q
<1>4. p \o r \in Seq(S) /\ p \o r # <<>> /\ Head(p \o r) = x /\ Tail(p \o r) = q \o r
  BY <1>1, <1>2, InFront
<1> QED BY <1>3, <1>4 DEF p, q, Starts, Follows

\* The same of four things.
LEMMA FourFirst ==
  ASSUME NEW S, NEW x \in S, NEW y \in S, NEW z \in S, NEW w \in S, NEW r \in Seq(S)
  PROVE  /\ <<x, y, z, w>> \o r \in Seq(S) /\ Starts(<<x, y, z, w>> \o r, x)
         /\ Follows(<<x, y, z, w>> \o r, <<y, z, w>> \o r)
         /\ Starts(<<y, z, w>> \o r, y) /\ Follows(<<y, z, w>> \o r, <<z, w>> \o r)
<1> DEFINE p == <<x, y, z, w>>
           q == <<y, z, w>>
           v == <<z, w>>
<1>1. p \in Seq(S) /\ p # <<>> /\ p[1] = x
  OBVIOUS
<1>2. q \in Seq(S) /\ q # <<>> /\ q[1] = y
  OBVIOUS
<1>3. Tail(p) = q /\ Tail(q) = v
  OBVIOUS
<1> HIDE DEF p, q, v
<1>4. p \o r \in Seq(S) /\ p \o r # <<>> /\ Head(p \o r) = x /\ Tail(p \o r) = q \o r
  BY <1>1, <1>3, InFront
<1>5. q \o r # <<>> /\ Head(q \o r) = y /\ Tail(q \o r) = v \o r
  BY <1>2, <1>3, InFront
<1> QED BY <1>4, <1>5 DEF p, q, v, Starts, Follows

\* What is appended to a sequence is its last element.
LEMMA LastIs ==
  ASSUME NEW S, NEW s \in Seq(S), NEW x \in S
  PROVE  /\ Append(s, x) \in Seq(S) /\ Append(s, x) # <<>> /\ Len(Append(s, x)) = Len(s) + 1 /\ Len(s) \in Nat
         /\ \A i \in 1 .. Len(s) : Append(s, x)[i] = s[i]
         /\ Append(s, x)[Len(s) + 1] = x
OBVIOUS

\* Head and tail of a sequence that is not empty.
LEMMA TailIs ==
  ASSUME NEW S, NEW s \in Seq(S), s # <<>>
  PROVE  /\ Head(s) \in S /\ Head(s) = s[1] /\ Tail(s) \in Seq(S)
         /\ Len(s) \in Nat \ {0} /\ Len(Tail(s)) = Len(s) - 1
         /\ Tail(s) = <<>> <=> Len(s) = 1
         /\ \A i \in 1 .. Len(s) - 1 : Tail(s)[i] = s[i + 1]
<1>1. Tail(s) \in Seq(S) /\ Len(Tail(s)) = Len(s) - 1 /\ \A i \in 1 .. Len(Tail(s)) : Tail(s)[i] = s[i + 1]
  BY HeadTailProperties
<1>2. Len(s) \in Nat \ {0}
  BY EmptySeq
<1>3. Tail(s) = <<>> <=> Len(s) = 1
  <2> DEFINE t == Tail(s)
  <2>1. t \in Seq(S) /\ Len(t) = Len(s) - 1
    BY <1>1
  <2> HIDE DEF t
  <2>2. t = <<>> <=> Len(t) = 0
    BY <2>1, EmptySeq
  <2>3. t = <<>> <=> Len(s) = 1
    BY <1>2, <2>1, <2>2
  <2> QED BY <2>3 DEF t
<1>4. Head(s) = s[1] /\ Head(s) \in S
  BY <1>2, HeadTailProperties
<1>5. \A i \in 1 .. Len(s) - 1 : Tail(s)[i] = s[i + 1]
  BY <1>1, <1>2
<1> QED BY <1>1, <1>2, <1>3, <1>4, <1>5

\* What joins a queue behind the sentinel comes last.
LEMMA JoinsTail ==
  ASSUME NEW S, NEW s \in Seq(S), NEW x \in S, s # <<>>, NEW T \in SUBSET S, x \in T, Tail(s) \in Seq(T)
  PROVE  LET t == Tail(Append(s, x))
         IN  /\ Append(s, x)[1] = s[1] /\ t \in Seq(T) /\ t # <<>> /\ t[Len(t)] = x
<1> DEFINE u == Append(s, x)
           t == Tail(u)
           v == Append(Tail(s), x)
<1>1. u \in Seq(S) /\ u # <<>> /\ Len(u) = Len(s) + 1 /\ (\A i \in 1 .. Len(s) : u[i] = s[i]) /\ u[Len(s) + 1] = x
  BY LastIs
<1>2. Len(s) \in Nat \ {0} /\ Len(Tail(s)) = Len(s) - 1 /\ \A i \in 1 .. Len(s) - 1 : Tail(s)[i] = s[i + 1]
  BY TailIs
<1>3. v \in Seq(T) /\ v # <<>> /\ Len(v) = Len(s) /\ (\A i \in 1 .. Len(s) - 1 : v[i] = Tail(s)[i]) /\ v[Len(s)] = x
  <2> DEFINE w == Tail(s)
  <2>1. w \in Seq(T) /\ Len(w) = Len(s) - 1
    BY <1>2
  <2> HIDE DEF w
  <2>2. /\ Append(w, x) \in Seq(T) /\ Append(w, x) # <<>> /\ Len(Append(w, x)) = Len(w) + 1
        /\ (\A i \in 1 .. Len(w) : Append(w, x)[i] = w[i]) /\ Append(w, x)[Len(w) + 1] = x
    BY <2>1, LastIs
  <2>3. Len(w) + 1 = Len(s)
    BY <1>2, <2>1
  <2> QED BY <2>1, <2>2, <2>3 DEF w
<1> HIDE DEF u, v
<1>4. t \in Seq(S) /\ Len(t) = Len(s) /\ \A i \in 1 .. Len(s) : t[i] = u[i + 1]
  BY <1>1, <1>2, TailIs
<1> HIDE DEF t
<1>5. v \in Seq(S)
  BY <1>3, SeqMonotonic
<1>6. ASSUME NEW i \in 1 .. Len(t) PROVE t[i] = v[i]
  BY <1>1, <1>2, <1>3, <1>4
<1>7. t = v
  BY <1>3, <1>4, <1>5, <1>6, SeqEqual
<1>8. u[1] = s[1]
  BY <1>1, <1>2
<1> QED BY <1>2, <1>3, <1>7, <1>8 DEF t, u

\* The things that the actions put into the agenda are of Doings, and say what they say.
LEMMA DoingsAre ==
  /\ \A e \in Nat : \A what \in {"dequeue", "empty", "callback", "promise"} :
       OnElem(what, e) \in Doings /\ OnElem(what, e).do = what /\ OnElem(what, e).e = e
  /\ \A e \in Nat : \A item \in Scrolls \cup {None} : \A what \in {"queue", "run"} :
       /\ OnItem(what, e, item) \in Doings /\ OnItem(what, e, item).do = what /\ OnItem(what, e, item).e = e
       /\ OnItem(what, e, item).item = item
  /\ \A a \in Nat : \A what \in {"tick", "push", "attach", "made", "return", "complete", "settle"} : \A flag \in BOOLEAN :
       /\ OnAnim(what, a, flag) \in Doings /\ OnAnim(what, a, flag).do = what /\ OnAnim(what, a, flag).a = a
       /\ OnAnim(what, a, flag).flag = flag
  /\ \A a, i \in Nat : /\ AfterTick(a, i) \in Doings /\ AfterTick(a, i).do = "after"
                       /\ AfterTick(a, i).a = a /\ AfterTick(a, i).i = i
  /\ \A i \in Nat : /\ FrameAt(i) \in Doings /\ FrameAt(i).do = "frame" /\ FrameAt(i).i = i
BY DEF OnElem, OnItem, OnAnim, Do, AfterTick, FrameAt, Doings

\* The elements are numbered from 1.
LEMMA ElemsAre == N \in Nat \ {0} /\ Elems = 1 .. N /\ (\A e \in Elems : e \in Nat) /\ None \in Scrolls \cup {None} /\ 0 \in Nat
BY ElemsAssumption DEF N

\* In the order of the document the i-th element is i.
LEMMA NthIs == \A i \in Elems : Nth(Elems, i) = i
<1>1. ASSUME NEW e \in Elems PROVE Cardinality({f \in Elems : f <= e}) = e
  <2>1. {f \in Elems : f <= e} = 1 .. e /\ e \in Nat \ {0}
    BY ElemsAre
  <2>2. Cardinality(1 .. e) = e
    BY <2>1, FS_Interval
  <2> QED BY <2>1, <2>2
<1> SUFFICES ASSUME NEW i \in Elems PROVE Nth(Elems, i) = i
  OBVIOUS
<1>2. \E e \in Elems : Cardinality({f \in Elems : f <= e}) = i
  BY <1>1
<1>3. Nth(Elems, i) \in Elems /\ Cardinality({f \in Elems : f <= Nth(Elems, i)}) = i
  BY <1>2 DEF Nth
<1> QED BY <1>1, <1>3

----------
(* What most steps leave as it is.                                         *)

\* Every animation and every timer is one.
LEMMA AnimFacts ==
  ASSUME AnimsOk
  PROVE  /\ Len(anims) \in Nat /\ Len(timers) \in Nat
         /\ \A a \in 1 .. Len(anims) :
              /\ anims[a] \in Anims /\ anims[a].elem \in Elems /\ anims[a].item \in Scrolls /\ anims[a].age \in Int
              /\ anims[a].stopped = FALSE /\ anims[a].attached \in BOOLEAN /\ anims[a].state \in {"pending", "resolved"}
         /\ \A j \in 1 .. Len(timers) : timers[j] \in 1 .. Len(anims)
<1>1. anims \in Seq(Anims) /\ timers \in Seq(1 .. Len(anims))
  BY DEF AnimsOk
<1>2. Len(anims) \in Nat /\ Len(timers) \in Nat
  BY <1>1, LenProperties
<1>3. ASSUME NEW a \in 1 .. Len(anims) PROVE anims[a] \in Anims
  BY <1>1, ElementOfSeq
<1>4. ASSUME NEW j \in 1 .. Len(timers) PROVE timers[j] \in 1 .. Len(anims)
  BY <1>1, ElementOfSeq
<1>5. \A x \in Anims : /\ x.elem \in Elems /\ x.item \in Scrolls /\ x.age \in Int /\ x.stopped = FALSE
                       /\ x.attached \in BOOLEAN /\ x.state \in {"pending", "resolved"}
  BY DEF Anims
<1> QED BY <1>2, <1>3, <1>4, <1>5

\* What holds of the item of a link.
LEMMA ScrollFacts ==
  \A item \in Scrolls :
    /\ item.kind = "anim" /\ item.call \in Nat /\ item.target \in Nat \ {0} /\ item.duration = 1 /\ item.queued = TRUE
    /\ item # None /\ item # InProgress
<1>1. None.kind = "none" /\ InProgress.kind = "inprogress"
  BY DEF None, InProgress
<1>2. \A item \in Scrolls :
        item.kind = "anim" /\ item.call \in Nat /\ item.target \in Nat \ {0} /\ item.duration = 1 /\ item.queued = TRUE
  BY DEF Scrolls, LinkDuration
<1> QED BY <1>1, <1>2

\* What holds of an element's hooks, those made anew included.
LEMMA HookFacts ==
  ASSUME HooksOk, NEW e \in Elems
  PROVE  /\ hooks[e].cur \in Scrolls \cup {None} /\ hooks[e].stop = FALSE /\ hooks[e].unqueued = 0
         /\ HooksOf(e) \in [stored : BOOLEAN, cur : Scrolls \cup {None}, stop : {FALSE}, unqueued : {0}, waits : Seq(Nat)]
         /\ HooksOf(e).stored = TRUE /\ HooksOf(e).cur = hooks[e].cur
<1> DEFINE H == [stored : BOOLEAN, cur : Scrolls \cup {None}, stop : {FALSE}, unqueued : {0}, waits : Seq(Nat)]
<1>1. hooks[e] \in H /\ (hooks[e].stored \/ hooks[e].cur = None)
  BY DEF HooksOk
<1>2. NewHooks \in H /\ NewHooks.stored = TRUE /\ NewHooks.cur = None
  <2>1. <<>> \in Seq(Nat)
    OBVIOUS
  <2> QED BY <2>1 DEF NewHooks, NoHooks
<1> QED BY <1>1, <1>2 DEF HooksOf

\* Animations and timers go on as they were; there may be new animations.
Alike ==
  /\ timers' = timers /\ Len(anims) <= Len(anims')
  /\ \A a \in 1 .. Len(anims) :
       /\ anims'[a].elem = anims[a].elem /\ anims'[a].item = anims[a].item
       /\ anims'[a].state = anims[a].state /\ anims'[a].attached = anims[a].attached

\* Steps that do nothing to animations and timers leave them as they were.
LEMMA AlikeIs == UNCHANGED <<anims, timers>> /\ AnimsOk => Alike /\ AnimsOk'
<1> SUFFICES ASSUME UNCHANGED <<anims, timers>>, AnimsOk PROVE Alike /\ AnimsOk'
  OBVIOUS
<1>1. Len(anims) \in Nat
  BY AnimFacts
<1> QED BY <1>1 DEF Alike, AnimsOk

Untouched(e) ==
  queue'[e].items = queue[e].items /\ hooks'[e].cur = hooks[e].cur /\ (position'[e] = position[e] \/ Driven(e))

\* The same timers drive the same elements.
LEMMA DrivenKept ==
  ASSUME AnimsOk, Alike, NEW e
  PROVE  /\ \A j \in 1 .. Len(timers) : Drives(j, e)' <=> Drives(j, e)
         /\ Driven(e)' <=> Driven(e)
BY AnimFacts DEF Alike, Drives, Driven

\* Timers agree with the hooks of what they drive, if these stay.
LEMMA TimelyKept ==
  ASSUME AnimsOk, Alike, NEW dead, NEW loose, Timely(dead, loose),
         \A e \in Elems : hooks'[e].cur = hooks[e].cur \/ ~Driven(e)
  PROVE  Timely(dead, loose)'
<1>1. \A j \in 1 .. Len(timers) : timers[j] \in 1 .. Len(anims) /\ anims[timers[j]].elem \in Elems
  BY AnimFacts
<1>2. \A j, l \in 1 .. Len(timers') : timers'[j] = timers'[l] => j = l
  BY DEF Timely, Alike
<1>3. ASSUME NEW j \in 1 .. Len(timers')
      PROVE  LET anim == anims'[timers'[j]]
             IN  /\ timers'[j] \in dead \/ anim.state = "pending"
                 /\ anim.state = "pending" => anim.item = hooks'[anim.elem].cur /\ (anim.attached \/ timers'[j] \in loose)
  <2> DEFINE a == timers[j]
  <2>1. j \in 1 .. Len(timers) /\ timers'[j] = a /\ a \in 1 .. Len(anims) /\ anims[a].elem \in Elems
    BY <1>1 DEF Alike
  <2>2. /\ anims'[a].elem = anims[a].elem /\ anims'[a].item = anims[a].item
        /\ anims'[a].state = anims[a].state /\ anims'[a].attached = anims[a].attached
    BY <2>1 DEF Alike
  <2>3. /\ a \in dead \/ anims[a].state = "pending"
        /\ anims[a].state = "pending" => anims[a].item = hooks[anims[a].elem].cur /\ (anims[a].attached \/ a \in loose)
    BY <2>1 DEF Timely
  <2>4. anims[a].state = "pending" => Driven(anims[a].elem)
    BY <2>1 DEF Driven, Drives
  <2> HIDE DEF a
  <2>5. anims[a].state = "pending" => hooks'[anims[a].elem].cur = hooks[anims[a].elem].cur
    BY <2>1, <2>4
  <2> QED BY <2>5, <2>3, <2>2, <2>1
<1>4. ASSUME NEW j \in 1 .. Len(timers'), NEW l \in 1 .. Len(timers'), NEW e \in Elems, Drives(j, e)', Drives(l, e)' PROVE j = l
  <2>1. j \in 1 .. Len(timers) /\ l \in 1 .. Len(timers)
    BY DEF Alike
  <2>2. Drives(j, e) /\ Drives(l, e)
    BY <2>1, <1>4, DrivenKept
  <2> QED BY <2>1, <2>2 DEF Timely
<1> QED BY <1>2, <1>3, <1>4 DEF Timely

\* An element that is left as it was stays fine.
LEMMA FineKept ==
  ASSUME AnimsOk, Alike, NEW e \in Elems, NEW k, Fine(e, k), Untouched(e), last' = last
  PROVE  Fine(e, k)'
<1>1. Driven(e)' <=> Driven(e)
  BY DrivenKept
<1>2. Busy(e)' <=> Busy(e)
  BY DEF Untouched, Busy
<1>3. Goal(e)' <=> Goal(e)
  BY DEF Untouched, Goal, Leads
<1> QED BY <1>1, <1>2, <1>3 DEF Fine, Untouched

\* Elements outside z are left as they were.
LEMMA EvenKept ==
  ASSUME AnimsOk, Alike, last' = last,
         NEW k, NEW dead, NEW x, NEW loose, NEW z, Timely(dead, loose), \A e \in Elems \ x : Fine(e, k),
         \A e \in Elems : hooks'[e].cur = hooks[e].cur \/ ~Driven(e),
         \A e \in Elems \ z : Untouched(e)
  PROVE  /\ Timely(dead, loose)'
         /\ \A e \in Elems \ (x \cup z) : Fine(e, k)'
         /\ \A e \in Elems : Driven(e)' <=> Driven(e)
<1>1. Timely(dead, loose)'
  BY TimelyKept
<1>2. ASSUME NEW e \in Elems \ (x \cup z) PROVE Fine(e, k)'
  BY FineKept
<1> QED BY <1>1, <1>2, DrivenKept

\* What is to be done later stays that: animations and timers are at most added, and none
\* is started again.
LEMMA LaterKept ==
  ASSUME AnimsOk, NEW r, NEW k, NEW dead, Later(r, k, dead), last' = last,
         Len(anims) <= Len(anims'), Len(timers) <= Len(timers'), Len(anims') \in Nat, Len(timers') \in Nat,
         \A a \in 1 .. Len(anims) : anims'[a].state = anims[a].state,
         \A j \in 1 .. Len(timers) : timers'[j] = timers[j]
  PROVE  Later(r, k, dead)'
<1>0. Len(anims) \in Nat /\ Len(timers) \in Nat
  BY AnimFacts
<1>1. CASE Clicks(r, k) /\ dead = {}
  BY <1>1 DEF Later, Clicks
<1>2. ASSUME NEW a \in 1 .. Len(anims), NEW i \in 1 .. Len(timers),
             Returning(r, a, i) /\ k = N /\ dead = {a} /\ Place(a, i) /\ anims[a].state # "pending"
      PROVE  Later(r, k, dead)'
  <2>1. a \in 1 .. Len(anims') /\ i \in 1 .. Len(timers') /\ Place(a, i)' /\ anims'[a].state # "pending"
    BY <1>0, <1>2 DEF Place
  <2>2. Returning(r, a, i)'
    BY <1>2 DEF Returning, Starts, Ends
  <2> QED BY <1>2, <2>1, <2>2 DEF Later
<1> QED BY <1>1, <1>2 DEF Later

\* The same if animations and timers go on as they were.
LEMMA LaterAlike ==
  ASSUME AnimsOk, AnimsOk', Alike, last' = last, NEW r, NEW k, NEW dead, Later(r, k, dead)
  PROVE  Later(r, k, dead)'
<1>1. Len(anims') \in Nat /\ Len(timers') \in Nat /\ Len(timers) \in Nat
  BY AnimFacts DEF AnimsOk, Alike
<1> QED BY <1>1, LaterKept DEF Alike

----------
(* The steps of a queue.                                                   *)

Stage(r, k, dead) == r \in Seq(Doings) /\ k \in 0 .. N /\ dead \in SUBSET (1 .. Len(anims)) /\ Later(r, k, dead)

\* The same for all that a stage says of what comes later.
LEMMA StageAlike ==
  ASSUME Typed, AnimsOk', Alike, last' = last, NEW r, NEW k, NEW dead, Stage(r, k, dead)
  PROVE  Stage(r, k, dead)'
<1>1. AnimsOk
  BY DEF Typed
<1>2. Later(r, k, dead)'
  BY <1>1, LaterAlike DEF Stage
<1>3. Len(anims) \in Nat /\ Len(anims') \in Nat /\ Len(anims) <= Len(anims')
  BY <1>1, AnimFacts DEF AnimsOk, Alike
<1> QED BY <1>2, <1>3 DEF Stage

\* One thing is put in front of what comes later.
LEMMA OneFirst ==
  ASSUME NEW x \in Doings, NEW r, r \in Seq(Doings), agenda' = <<x>> \o r
  PROVE  agenda' \in Seq(Doings) /\ Before(x, r)'
BY FirstIs DEF Before, Starts

\* Nothing is put in front of what comes later.
LEMMA NoneFirst ==
  ASSUME NEW r, r \in Seq(Doings), agenda' = <<>> \o r
  PROVE  agenda' = r /\ agenda' \in Seq(Doings)
BY ConcatEmptySeq

\* What holds of an element's queue.
LEMMA QueueFacts ==
  ASSUME QueuesOk, NEW e \in Elems
  PROVE  /\ queue[e] \in [stored : BOOLEAN, items : Seq(Scrolls \cup {InProgress})]
         /\ queue[e].items \in Seq(Scrolls \cup {InProgress})
BY DEF QueuesOk

\* Dequeue: the queue that is to go on calls its next item, or it is empty and its element
\* where it is to be.
LEMMA DequeueStep ==
  ASSUME Typed, NEW r, NEW k, NEW dead, Stage(r, k, dead), NEW e \in Elems, AtDequeue(e, r, k, dead), Dequeue
  PROVE  Typed' /\ Stage(r, k, dead)' /\ (AtEmpty(e, r, k, dead)' \/ AtRun(e, r, k, dead)')
<1> DEFINE left == Left(e)
<1>1. /\ agenda # <<>> /\ Head(agenda) = OnElem("dequeue", e) /\ Tail(agenda) = r /\ r \in Seq(Doings)
      /\ Ready(e, k, dead) /\ k \in 0 .. N
  BY DEF AtDequeue, Before, Starts, Stage
<1>2. Now.e = e
  BY <1>1 DEF Now, OnElem, Do
<1>3. UNCHANGED <<anims, timers, lag, delays, finishing, promises, result, calls, position, hash, last>>
  BY DEF Dequeue, page
<1>4. /\ left = <<>> => /\ queue' = [queue EXCEPT ![e].items = <<>>]
                        /\ hooks' = [hooks EXCEPT ![e] = [HooksOf(e) EXCEPT !.cur = None]]
                        /\ agenda' = <<OnElem("empty", e)>> \o r
      /\ left # <<>> /\ Head(left) # None =>
            /\ queue' = [queue EXCEPT ![e].items = UnderWay(Tail(left))]
            /\ hooks' = [hooks EXCEPT ![e] = [HooksOf(e) EXCEPT !.cur = Head(left), !.stop = FALSE]]
            /\ agenda' = <<OnItem("run", e, Head(left))>> \o r
  BY <1>1, <1>2 DEF Dequeue, Left, Then
<1>5. left \in Seq(Scrolls) /\ (left # <<>> => Head(left) \in Scrolls /\ Head(left) # None)
  BY <1>1, ScrollFacts, HeadTailProperties DEF Ready
<1>6. Timely(dead, {}) /\ (\A f \in Elems \ {e} : Fine(f, k)) /\ ~Driven(e)
  BY <1>1 DEF Ready, Even
<1>7. QueuesOk /\ HooksOk /\ AnimsOk /\ RestOk /\ PageOk
  BY DEF Typed
<1>8. RestOk' /\ PageOk' /\ AnimsOk' /\ Alike
  BY <1>3, <1>7, AlikeIs DEF RestOk, PageOk
<1>9. Stage(r, k, dead)'
  BY <1>3, <1>8, StageAlike
<1>10. HooksOf(e) \in [stored : BOOLEAN, cur : Scrolls \cup {None}, stop : {FALSE}, unqueued : {0}, waits : Seq(Nat)]
       /\ HooksOf(e).stored = TRUE
  BY <1>7, HookFacts
<1> HIDE DEF left
<1>11. ASSUME \A f \in Elems \ {e} : queue'[f] = queue[f] /\ hooks'[f] = hooks[f]
       PROVE  /\ Timely(dead, {})' /\ (\A f \in Elems \ {e} : Fine(f, k)') /\ ~Driven(e)'
              /\ \A f \in Elems : Driven(f)' <=> Driven(f)
  <2>1. \A f \in Elems \ {e} : Untouched(f)
    BY <1>3, <1>11 DEF Untouched
  <2>2. \A f \in Elems : hooks'[f].cur = hooks[f].cur \/ ~Driven(f)
    BY <1>6, <1>11
  <2>3. Timely(dead, {})' /\ (\A f \in Elems \ ({e} \cup {e}) : Fine(f, k)') /\ \A f \in Elems : Driven(f)' <=> Driven(f)
    BY <1>3, <1>6, <1>7, <1>8, <2>1, <2>2, EvenKept
  <2> QED BY <1>6, <2>3
<1>12. CASE left = <<>>
  <2>1. /\ queue' = [queue EXCEPT ![e].items = <<>>]
        /\ hooks' = [hooks EXCEPT ![e] = [HooksOf(e) EXCEPT !.cur = None]]
        /\ agenda' = <<OnElem("empty", e)>> \o r
    BY <1>4, <1>12
  <2>2. queue'[e].items = <<>> /\ \A f \in Elems \ {e} : queue'[f] = queue[f]
    BY <1>7, <2>1 DEF QueuesOk
  <2>3. QueuesOk'
    <3>1. <<>> \in Seq(Scrolls \cup {InProgress})
      OBVIOUS
    <3> QED BY <1>7, <2>1, <3>1 DEF QueuesOk
  <2>4. HooksOk' /\ (\A f \in Elems \ {e} : hooks'[f] = hooks[f])
    BY <1>7, <1>10, <2>1 DEF HooksOk
  <2>5. agenda' \in Seq(Doings) /\ Before(OnElem("empty", e), r)'
    BY <1>1, <2>1, OneFirst, DoingsAre, ElemsAre
  <2>6. Typed'
    BY <1>8, <2>3, <2>4, <2>5 DEF Typed
  <2>7. Timely(dead, {})' /\ (\A f \in Elems \ {e} : Fine(f, k)') /\ ~Driven(e)'
    BY <1>11, <2>2, <2>4
  <2>8. Fine(e, k)'
    BY <1>1, <1>3, <1>12, <2>2, <2>7 DEF Fine, Ready, left
  <2>9. Even(k, dead, {}, {})'
    BY <2>7, <2>8 DEF Even
  <2>10. Addressed(k)'
    BY <1>1, <1>3, <1>12, <2>2 DEF Ready, Addressed, Owed, left
  <2> QED BY <1>9, <2>2, <2>5, <2>6, <2>9, <2>10 DEF AtEmpty
<1>13. CASE left # <<>>
  <2> PICK fn \in Scrolls : fn = Head(left)
    BY <1>5, <1>13
  <2>1. /\ queue' = [queue EXCEPT ![e].items = UnderWay(Tail(left))]
        /\ hooks' = [hooks EXCEPT ![e] = [HooksOf(e) EXCEPT !.cur = fn, !.stop = FALSE]]
        /\ agenda' = <<OnItem("run", e, fn)>> \o r
    BY <1>4, <1>5, <1>13
  <2>2. fn \in Scrolls /\ fn # None /\ fn = left[1] /\ Tail(left) \in Seq(Scrolls)
    BY <1>5, <1>13, TailIs
  <2>3. /\ UnderWay(Tail(left)) \in Seq(Scrolls \cup {InProgress}) /\ UnderWay(Tail(left)) # <<>>
        /\ UnderWay(Tail(left))[1] = InProgress /\ Tail(UnderWay(Tail(left))) = Tail(left)
    <3> DEFINE u == Tail(left)
    <3>1. u \in Seq(Scrolls \cup {InProgress})
      BY <2>2, SeqMonotonic
    <3> HIDE DEF u
    <3>2. /\ <<InProgress>> \o u \in Seq(Scrolls \cup {InProgress}) /\ <<InProgress>> \o u # <<>>
          /\ Head(<<InProgress>> \o u) = InProgress /\ Tail(<<InProgress>> \o u) = u
      BY <3>1, FirstIs
    <3>3. (<<InProgress>> \o u)[1] = InProgress
      BY <3>2, TailIs
    <3> QED BY <3>2, <3>3 DEF UnderWay, u
  <2>4. /\ queue'[e].items # <<>> /\ queue'[e].items[1] = InProgress /\ Tail(queue'[e].items) = Tail(left)
        /\ \A f \in Elems \ {e} : queue'[f] = queue[f]
    BY <1>7, <2>1, <2>3 DEF QueuesOk
  <2>5. QueuesOk'
    BY <1>7, <2>1, <2>3 DEF QueuesOk
  <2>6. HooksOk' /\ hooks'[e].cur = fn /\ (\A f \in Elems \ {e} : hooks'[f] = hooks[f])
    BY <1>7, <1>10, <2>1, <2>2 DEF HooksOk
  <2>7. agenda' \in Seq(Doings) /\ Before(OnItem("run", e, fn), r)'
    BY <1>1, <2>1, <2>2, OneFirst, DoingsAre, ElemsAre
  <2>8. Typed'
    BY <1>8, <2>5, <2>6, <2>7 DEF Typed
  <2>9. Timely(dead, {})' /\ (\A f \in Elems \ {e} : Fine(f, k)') /\ ~Driven(e)'
    BY <1>11, <2>4, <2>6
  <2>10. Even(k, dead, {e}, {})'
    BY <2>9 DEF Even
  <2>11. Busy(e)'
    BY <2>2, <2>4 DEF Busy
  <2>12. e <= k => Goal(e)'
    <3> SUFFICES ASSUME e <= k PROVE Goal(e)'
      OBVIOUS
    <3>1. left[Len(left)].target = last
      BY <1>1, <1>13 DEF Ready, Leads, left
    <3>2. CASE Tail(left) = <<>>
      <4>1. Len(left) = 1
        BY <1>5, <1>13, <3>2, TailIs
      <4> QED BY <1>3, <2>2, <2>4, <2>6, <3>1, <3>2, <4>1 DEF Goal
    <3>3. CASE Tail(left) # <<>>
      <4>1. /\ Len(left) \in Nat \ {0} /\ Len(left) # 1 /\ Len(Tail(left)) = Len(left) - 1
            /\ \A i \in 1 .. Len(left) - 1 : Tail(left)[i] = left[i + 1]
        BY <1>5, <1>13, <3>3, TailIs
      <4>2. Tail(left)[Len(Tail(left))] = left[Len(left)]
        BY <4>1
      <4> QED BY <1>3, <2>4, <3>1, <3>3, <4>2 DEF Goal, Leads
    <3> QED BY <3>2, <3>3
  <2>13. Called(e, fn, k, dead)'
    BY <2>6, <2>10, <2>11, <2>12 DEF Called
  <2> QED BY <1>9, <2>2, <2>7, <2>8, <2>13 DEF AtRun
<1> QED BY <1>12, <1>13

\* EmptyFires forgets what was known of an empty queue, which nobody needs any more.
LEMMA EmptyFiresStep ==
  ASSUME Typed, NEW r, NEW k, NEW dead, Stage(r, k, dead), NEW e \in Elems, AtEmpty(e, r, k, dead), EmptyFires
  PROVE  Typed' /\ Stage(r, k, dead)' /\ AtRest(r, k, dead)'
<1>1. /\ agenda # <<>> /\ Head(agenda) = OnElem("empty", e) /\ Tail(agenda) = r /\ r \in Seq(Doings)
      /\ queue[e].items = <<>> /\ Even(k, dead, {}, {}) /\ Addressed(k)
  BY DEF AtEmpty, Before, Starts, Stage
<1>2. Now.e = e
  BY <1>1 DEF Now, OnElem, Do
<1>3. UNCHANGED <<anims, timers, lag, delays, finishing, result, calls, position, hash, last>> /\ agenda' = <<>> \o r
  BY <1>1 DEF EmptyFires, page, Then
<1>4. QueuesOk /\ HooksOk /\ AnimsOk /\ RestOk /\ PageOk
  BY DEF Typed
<1>5. \/ /\ promises' = [p \in DOMAIN promises |->
                           promises[p] - Cardinality({i \in DOMAIN hooks[e].waits : hooks[e].waits[i] = p})]
         /\ queue' = [queue EXCEPT ![e] = NoQueue]
         /\ hooks' = [hooks EXCEPT ![e] = NoHooks]
      \/ UNCHANGED <<promises, queue, hooks>>
  BY <1>2 DEF EmptyFires
<1>6. promises' \in Seq(Int)
  <2>1. promises \in Seq(Int) /\ hooks[e].waits \in Seq(Nat)
    BY <1>4 DEF RestOk, HooksOk
  <2>2. Len(promises) \in Nat /\ DOMAIN promises = 1 .. Len(promises) /\ \A p \in 1 .. Len(promises) : promises[p] \in Int
    BY <2>1, LenProperties, ElementOfSeq
  <2>3. Len(hooks[e].waits) \in Nat /\ DOMAIN hooks[e].waits = 1 .. Len(hooks[e].waits)
    BY <2>1, LenProperties
  <2>4. ASSUME NEW p \in 1 .. Len(promises)
        PROVE  Cardinality({i \in DOMAIN hooks[e].waits : hooks[e].waits[i] = p}) \in Nat
    <3>1. IsFiniteSet(DOMAIN hooks[e].waits)
      BY <2>3, FS_Interval
    <3>2. IsFiniteSet({i \in DOMAIN hooks[e].waits : hooks[e].waits[i] = p})
      BY <3>1, FS_Subset
    <3> QED BY <3>2, FS_CardinalityType
  <2>5. \A p \in 1 .. Len(promises) :
          promises[p] - Cardinality({i \in DOMAIN hooks[e].waits : hooks[e].waits[i] = p}) \in Int
    BY <2>2, <2>4
  <2>6. [p \in DOMAIN promises |->
           promises[p] - Cardinality({i \in DOMAIN hooks[e].waits : hooks[e].waits[i] = p})] \in Seq(Int)
    BY <2>2, <2>5, IsASeq
  <2> QED BY <1>5, <2>1, <2>6
<1>7. RestOk' /\ PageOk' /\ AnimsOk' /\ Alike
  BY <1>3, <1>4, <1>6, AlikeIs DEF RestOk, PageOk
<1>8. Stage(r, k, dead)'
  BY <1>3, <1>7, StageAlike
<1>9. /\ Timely(dead, {}) /\ (\A f \in Elems : Fine(f, k)) /\ ~Driven(e)
  BY <1>1 DEF Even, Fine, Busy
<1>10. /\ QueuesOk' /\ HooksOk' /\ \A f \in Elems : queue'[f].items = queue[f].items
       /\ \A f \in Elems \ {e} : hooks'[f] = hooks[f]
  <2>1. CASE UNCHANGED <<promises, queue, hooks>>
    BY <1>4, <2>1 DEF QueuesOk, HooksOk
  <2>2. CASE queue' = [queue EXCEPT ![e] = NoQueue] /\ hooks' = [hooks EXCEPT ![e] = NoHooks]
    <3>1. NoQueue \in [stored : BOOLEAN, items : Seq(Scrolls \cup {InProgress})] /\ NoQueue.items = <<>>
      BY DEF NoQueue
    <3>2. NoHooks \in [stored : BOOLEAN, cur : Scrolls \cup {None}, stop : {FALSE}, unqueued : {0}, waits : Seq(Nat)]
          /\ NoHooks.cur = None
      BY DEF NoHooks
    <3>3. QueuesOk' /\ \A f \in Elems : queue'[f].items = queue[f].items
      BY <1>1, <1>4, <2>2, <3>1 DEF QueuesOk
    <3>4. HooksOk' /\ \A f \in Elems \ {e} : hooks'[f] = hooks[f]
      BY <1>4, <2>2, <3>2 DEF HooksOk
    <3> QED BY <3>3, <3>4
  <2> QED BY <1>5, <2>1, <2>2
<1>11. agenda' = r /\ agenda' \in Seq(Doings)
  BY <1>1, <1>3, NoneFirst
<1>12. Typed'
  BY <1>7, <1>10, <1>11 DEF Typed
<1>13. Even(k, dead, {}, {})'
  <2>1. \A f \in Elems \ {e} : Untouched(f)
    BY <1>3, <1>10 DEF Untouched
  <2>2. \A f \in Elems : hooks'[f].cur = hooks[f].cur \/ ~Driven(f)
    BY <1>9, <1>10
  <2>3. /\ Timely(dead, {})' /\ (\A f \in Elems \ ({} \cup {e}) : Fine(f, k)') /\ \A f \in Elems : Driven(f)' <=> Driven(f)
    BY <1>3, <1>4, <1>7, <1>9, <2>1, <2>2, EvenKept
  <2>4. Fine(e, k)'
    BY <1>1, <1>3, <1>9, <1>10, <2>3 DEF Fine
  <2> QED BY <2>3, <2>4 DEF Even
<1>14. Addressed(k)'
  BY <1>1, <1>3, <1>10 DEF Addressed, Owed
<1> QED BY <1>8, <1>11, <1>12, <1>13, <1>14 DEF AtRest

\* With nothing else to do, a click reaches its next element or a timer function returns.
LEMMA LaterHeads ==
  ASSUME NEW r, NEW k, NEW dead, Stage(r, k, dead), r # <<>>
  PROVE  /\ Head(r).do \in {"queue", "return"} /\ (Clicks(r, k) => Head(r).do = "queue")
         /\ Head(r).do = "queue" => Clicks(r, k) /\ dead = {} /\ k + 1 \in 0 .. N
<1>0. Len(r) \in Nat \ {0} /\ Head(r) = r[1] /\ k \in 0 .. N /\ N \in Nat
  BY TailIs, ElemsAre DEF Stage
<1>1. ASSUME Clicks(r, k) PROVE Head(r).do = "queue" /\ k + 1 \in 0 .. N
  <2>1. Len(r) = N - k /\ \A i \in 1 .. N - k : r[i] = OnItem("queue", k + i, r[i].item)
    BY <1>1 DEF Clicks
  <2>2. Head(r) = OnItem("queue", k + 1, r[1].item)
    BY <1>0, <2>1
  <2>3. Head(r).do = "queue"
    BY <2>2 DEF OnItem, Do
  <2> QED BY <1>0, <2>1, <2>3
<1>2. ASSUME NEW a, NEW i, Returning(r, a, i) PROVE Head(r).do = "return"
  BY <1>2 DEF Returning, Starts, OnAnim, Do
<1> QED BY <1>1, <1>2 DEF Stage, Later

\* Enqueue: the click reaches an element.  It starts there if nothing drives the element, and
\* waits behind what does.
LEMMA EnqueueStep ==
  ASSUME Typed, NEW r, NEW k, NEW dead, Stage(r, k, dead), AtRest(r, k, dead), Enqueue
  PROVE  /\ Typed' /\ Stage(Tail(r), k + 1, {})'
         /\ AtRest(Tail(r), k + 1, {})' \/ \E e \in Elems : AtDequeue(e, Tail(r), k + 1, {})'
<1> DEFINE e == k + 1
           s == Tail(r)
<1>1. /\ agenda = r /\ r \in Seq(Doings) /\ k \in 0 .. N /\ Even(k, dead, {}, {}) /\ Addressed(k)
      /\ r # <<>> /\ Now = Head(r) /\ (Head(r).do = "queue" \/ Head(r).do = "clear")
  BY DEF AtRest, Stage, Enqueue, Doing, Now
<1>2. Head(r).do = "queue" /\ Clicks(r, k) /\ dead = {} /\ e \in 0 .. N /\ e \in Elems /\ N \in Nat /\ e \in Nat
  BY <1>1, LaterHeads, ElemsAre
<1>3. Head(r) = r[1] /\ Len(r) = N - k /\ s \in Seq(Doings) /\ Len(s) = N - k - 1 /\ \A i \in 1 .. N - k - 1 : s[i] = r[i + 1]
  BY <1>1, <1>2, TailIs DEF Clicks
<1> PICK item \in Scrolls : item = Now.item /\ Now.e = e /\ item.target = last
  <2>1. r[1] = OnItem("queue", k + 1, r[1].item) /\ r[1].item \in Scrolls /\ r[1].item.target = last
    BY <1>1, <1>2 DEF Clicks
  <2>2. r[1].e = k + 1
    BY <2>1 DEF OnItem, Do
  <2> QED BY <1>1, <1>3, <2>1, <2>2
<1>4. UNCHANGED <<anims, timers, lag, delays, finishing, promises, result, calls, position, hash, last>>
  BY DEF Enqueue, page
<1> DEFINE items == queue[e].items
<1>5. /\ queue' = [queue EXCEPT ![e] = [stored |-> TRUE, items |-> Append(items, item)]]
      /\ hooks' = [hooks EXCEPT ![e] = HooksOf(e)]
      /\ agenda' = (IF Append(items, item) # <<>> /\ Append(items, item)[1] = InProgress
                    THEN <<>> ELSE <<OnElem("dequeue", e)>>) \o s
  BY <1>1, <1>2 DEF Enqueue, Doing, Stored, Then
<1>6. QueuesOk /\ HooksOk /\ AnimsOk /\ RestOk /\ PageOk
  BY DEF Typed
<1>7. items \in Seq(Scrolls \cup {InProgress}) /\ Append(items, item) \in Seq(Scrolls \cup {InProgress}) /\ Append(items, item) # <<>>
  BY <1>2, <1>6, QueueFacts, LastIs
<1> HIDE DEF e, s
<1>8. RestOk' /\ PageOk' /\ AnimsOk' /\ Alike
  BY <1>4, <1>6, AlikeIs DEF RestOk, PageOk
<1>9. /\ QueuesOk' /\ queue'[e].items = Append(items, item) /\ \A f \in Elems \ {e} : queue'[f] = queue[f]
  BY <1>2, <1>5, <1>6, <1>7 DEF QueuesOk
<1>10. /\ HooksOf(e) \in [stored : BOOLEAN, cur : Scrolls \cup {None}, stop : {FALSE}, unqueued : {0}, waits : Seq(Nat)]
       /\ HooksOf(e).stored = TRUE /\ HooksOf(e).cur = hooks[e].cur
  BY <1>2, <1>6, HookFacts
<1>11. HooksOk' /\ \A f \in Elems : hooks'[f].cur = hooks[f].cur
  BY <1>2, <1>5, <1>6, <1>10 DEF HooksOk
<1>12. Stage(s, e, {})'
  <2>1. Clicks(s, e)
    <3>1. ASSUME NEW i \in 1 .. N - e
          PROVE  s[i] = OnItem("queue", e + i, s[i].item) /\ s[i].item \in Scrolls /\ s[i].item.target = last
      <4>1. i + 1 \in 1 .. N - k /\ i \in 1 .. N - k - 1 /\ k + (i + 1) = e + i
        BY <1>1, <1>2 DEF e
      <4>2. s[i] = r[i + 1]
        BY <1>3, <4>1
      <4> QED BY <1>2, <4>1, <4>2 DEF Clicks
    <3>2. Len(s) = N - e
      BY <1>1, <1>2, <1>3 DEF e
    <3> QED BY <3>1, <3>2 DEF Clicks
  <2>2. Clicks(s, e)'
    BY <1>4, <2>1 DEF Clicks
  <2> QED BY <1>2, <1>3, <2>2 DEF Stage, Later
<1>13. Timely({}, {}) /\ \A f \in Elems : Fine(f, k)
  BY <1>1, <1>2 DEF Even
<1>14. /\ Timely({}, {})' /\ (\A f \in Elems \ ({} \cup {e}) : Fine(f, k)') /\ \A f \in Elems : Driven(f)' <=> Driven(f)
  <2>1. \A f \in Elems \ {e} : Untouched(f)
    BY <1>4, <1>9, <1>11 DEF Untouched
  <2> QED BY <1>4, <1>6, <1>8, <1>11, <1>13, <2>1, EvenKept
<1>15. \A f \in Elems \ {e} : Fine(f, e)'
  <2>1. \A f \in Elems \ {e} : f <= e => f <= k
    BY <1>1, ElemsAre DEF e
  <2> QED BY <1>14, <2>1 DEF Fine
<1>16. CASE Driven(e)
  <2>1. Busy(e)
    BY <1>2, <1>13, <1>16 DEF Fine
  <2>2. /\ items # <<>> /\ items[1] = InProgress /\ Tail(items) \in Seq(Scrolls)
    BY <2>1 DEF Busy
  <2> HIDE DEF items
  <2>3. LET t == Tail(Append(items, item))
        IN  /\ Append(items, item)[1] = items[1] /\ t \in Seq(Scrolls) /\ t # <<>> /\ t[Len(t)] = item
    BY <1>7, <2>2, JoinsTail
  <2>4. agenda' = s /\ agenda' \in Seq(Doings)
    BY <1>3, <1>5, <1>7, <2>2, <2>3, NoneFirst DEF items
  <2>5. Busy(e)' /\ Goal(e)'
    BY <1>4, <1>7, <1>9, <2>2, <2>3 DEF Busy, Goal, Leads
  <2>6. Fine(e, e)'
    BY <1>2, <1>14, <1>16, <2>5 DEF Fine
  <2>7. Even(e, {}, {}, {})'
    BY <1>14, <1>15, <2>6 DEF Even
  <2>8. Addressed(e)'
    BY <1>2, <1>7, <1>9 DEF Addressed, Owed
  <2>9. AtRest(s, e, {})'
    BY <2>4, <2>7, <2>8 DEF AtRest
  <2>10. Typed'
    BY <1>8, <1>9, <1>11, <2>4 DEF Typed
  <2> QED BY <1>12, <2>9, <2>10 DEF e, s
<1>17. CASE ~Driven(e)
  <2>1. items = <<>>
    BY <1>2, <1>13, <1>17 DEF Fine
  <2>2. Append(items, item) = <<item>> /\ <<item>>[1] = item /\ item # InProgress
    BY <2>1, ScrollFacts
  <2> HIDE DEF items
  <2>3. agenda' = <<OnElem("dequeue", e)>> \o s
    BY <1>5, <2>2 DEF items
  <2>4. agenda' \in Seq(Doings) /\ Before(OnElem("dequeue", e), s)'
    BY <1>2, <1>3, <2>3, OneFirst, DoingsAre
  <2>5. Typed'
    BY <1>8, <1>9, <1>11, <2>4 DEF Typed
  <2>6. Even(e, {}, {e}, {})'
    BY <1>2, <1>14, <1>15, <1>17 DEF Even
  <2>7. Left(e)' = <<item>>
    BY <1>9, <2>2 DEF Left
  <2>8. Ready(e, e, {})'
    <3>1. <<item>> \in Seq(Scrolls) /\ <<item>> # <<>> /\ <<item>>[Len(<<item>>)] = item
      OBVIOUS
    <3> QED BY <1>2, <1>4, <2>6, <2>7, <3>1 DEF Ready, Leads
  <2>9. AtDequeue(e, s, e, {})'
    BY <2>4, <2>8 DEF AtDequeue
  <2> QED BY <1>2, <1>12, <2>5, <2>9 DEF e, s
<1> QED BY <1>16, <1>17

----------
(* The steps of a new animation.                                           *)

\* The agenda of a new animation.
LEMMA NewAgenda ==
  ASSUME NEW b \in Nat, NEW r \in Seq(Doings)
  PROVE  LET s == <<OnAnim("tick", b, FALSE), OnAnim("push", b, FALSE), OnAnim("attach", b, FALSE), OnAnim("made", b, FALSE)>> \o r
         IN  s \in Seq(Doings) /\ Starts(s, OnAnim("tick", b, FALSE)) /\ Pushing(Tail(s), b, r)
<1> DEFINE x == OnAnim("tick", b, FALSE)
           y == OnAnim("push", b, FALSE)
           z == OnAnim("attach", b, FALSE)
           w == OnAnim("made", b, FALSE)
<1>1. x \in Doings /\ y \in Doings /\ z \in Doings /\ w \in Doings
  BY DoingsAre
<1> HIDE DEF x, y, z, w
<1> DEFINE s4 == <<x, y, z, w>> \o r
           s3 == <<y, z, w>> \o r
           s2 == <<z, w>> \o r
           s1 == <<w>> \o r
<1>2. s4 \in Seq(Doings) /\ Starts(s4, x) /\ Follows(s4, s3) /\ Starts(s3, y) /\ Follows(s3, s2)
  BY <1>1, FourFirst
<1>3. Starts(s2, z) /\ Follows(s2, s1) /\ Starts(s1, w) /\ Follows(s1, r)
  BY <1>1, TwoFirst
<1> HIDE DEF s4, s3, s2, s1
<1>4. Attaching(s2, b, r)
  BY <1>3 DEF Attaching, Follows, z, w
<1>5. Pushing(Tail(s4), b, r)
  BY <1>2, <1>4 DEF Pushing, Follows, y
<1> QED BY <1>2, <1>5 DEF s4, x, y, z, w

\* RunAnimation makes an animation of the item that was called.
LEMMA RunAnimationStep ==
  ASSUME Typed, NEW r, NEW k, NEW dead, Stage(r, k, dead), NEW e \in Elems, AtRun(e, r, k, dead), RunAnimation
  PROVE  Typed' /\ Stage(r, k, dead)' /\ \E b \in 1 .. Len(anims') : AtTick(b, r, k, dead)'
<1>1. PICK item \in Scrolls : Before(OnItem("run", e, item), r) /\ Called(e, item, k, dead)
  BY DEF AtRun
<1>2. Now.e = e /\ Now.item = item /\ item.queued = TRUE /\ Tail(agenda) = r /\ r \in Seq(Doings)
  BY <1>1, ScrollFacts DEF Before, Starts, Now, OnItem, Do, Stage
<1>3. QueuesOk /\ HooksOk /\ AnimsOk /\ RestOk /\ PageOk
  BY DEF Typed
<1>4. PICK b \in Nat : b = Len(anims) + 1
  BY <1>3, AnimFacts
<1> DEFINE new == [elem |-> e, item |-> item, age |-> lag', stopped |-> FALSE, attached |-> FALSE, state |-> "pending"]
<1>5. /\ UNCHANGED <<queue, timers, delays, finishing, promises, result, calls, position, hash, last, hooks>>
      /\ anims' = Append(anims, new)
      /\ agenda' = <<OnAnim("tick", b, FALSE), OnAnim("push", b, FALSE), OnAnim("attach", b, FALSE), OnAnim("made", b, FALSE)>> \o r
      /\ lag' = IF lag = -1 THEN 0 ELSE lag
  BY <1>2, <1>4 DEF RunAnimation, page, Then, ReadTime
<1>6. lag' \in Int /\ lag' # -1
  BY <1>3, <1>5 DEF RestOk
<1>7. new \in Anims /\ new.elem = e /\ new.item = item /\ new.age = lag' /\ new.state = "pending"
  BY <1>6 DEF Anims
<1> HIDE DEF new
<1>8. /\ anims' \in Seq(Anims) /\ Len(anims') = b /\ anims'[b] = new /\ \A a \in 1 .. Len(anims) : anims'[a] = anims[a]
  <2>1. anims \in Seq(Anims)
    BY <1>3 DEF AnimsOk
  <2> QED BY <1>4, <1>5, <1>7, <2>1, LastIs
<1>9. Len(anims) \in Nat /\ timers \in Seq(1 .. Len(anims)) /\ Len(timers) \in Nat /\ \A j \in 1 .. Len(timers) : timers[j] \in 1 .. Len(anims)
  BY <1>3, AnimFacts DEF AnimsOk
<1>10. AnimsOk' /\ Alike
  <2>1. 1 .. Len(anims) \subseteq 1 .. b
    BY <1>4, <1>9
  <2>2. timers \in Seq(1 .. b)
    BY <1>9, <2>1, SeqMonotonic
  <2>3. Len(anims) <= b
    BY <1>4, <1>9
  <2> QED BY <1>5, <1>8, <2>2, <2>3 DEF AnimsOk, Alike
<1>11. Stage(r, k, dead)'
  BY <1>5, <1>10, StageAlike
<1>12. RestOk' /\ PageOk' /\ QueuesOk' /\ HooksOk'
  BY <1>3, <1>5, <1>6 DEF RestOk, PageOk, QueuesOk, HooksOk
<1>13. /\ agenda' \in Seq(Doings) /\ Starts(agenda', OnAnim("tick", b, FALSE)) /\ Pushing(Tail(agenda'), b, r)
  BY <1>2, <1>5, NewAgenda
<1>14. Typed'
  BY <1>10, <1>12, <1>13 DEF Typed
<1>15. /\ Timely(dead, {}) /\ (\A f \in Elems \ {e} : Fine(f, k)) /\ ~Driven(e) /\ Busy(e) /\ hooks[e].cur = item /\ (e <= k => Goal(e))
  BY <1>1 DEF Called, Even
<1>16. /\ Timely(dead, {})' /\ (\A f \in Elems \ ({e} \cup {}) : Fine(f, k)') /\ \A f \in Elems : Driven(f)' <=> Driven(f)
  <2>1. \A f \in Elems \ {} : Untouched(f)
    BY <1>5 DEF Untouched
  <2>2. \A f \in Elems : hooks'[f].cur = hooks[f].cur \/ ~Driven(f)
    BY <1>5
  <2> QED BY <1>3, <1>5, <1>10, <1>15, <2>1, <2>2, EvenKept
<1>17. Even(k, dead, {e}, {})'
  BY <1>15, <1>16 DEF Even
<1>18. Busy(e)' /\ (e <= k => Goal(e)')
  BY <1>5, <1>15 DEF Busy, Goal, Leads
<1>19. Called(e, item, k, dead)'
  BY <1>5, <1>15, <1>17, <1>18 DEF Called
<1>20. New(b, k, dead)'
  <2>1. b \in 1 .. Len(anims') /\ anims'[b].state = "pending" /\ anims'[b].elem = e /\ anims'[b].item = item
    BY <1>4, <1>7, <1>8, <1>9
  <2>2. \A j \in 1 .. Len(timers') : timers'[j] # b
    BY <1>4, <1>5, <1>9
  <2> QED BY <1>19, <2>1, <2>2 DEF New
<1>21. AtTick(b, r, k, dead)'
  BY <1>6, <1>7, <1>8, <1>13, <1>20 DEF AtTick
<1> QED BY <1>11, <1>14, <1>20, <1>21 DEF New

\* Tick, called by fx.timer: with a duration, the first frame is never the last.
LEMMA FirstTickStep ==
  ASSUME Typed, NEW r, NEW k, NEW dead, Stage(r, k, dead), NEW b \in 1 .. Len(anims), AtTick(b, r, k, dead), Tick
  PROVE  Typed' /\ Stage(r, k, dead)' /\ AtPush(b, r, k, dead)'
<1>1. /\ agenda # <<>> /\ Head(agenda) = OnAnim("tick", b, FALSE) /\ Pushing(Tail(agenda), b, r)
      /\ New(b, k, dead) /\ lag # -1 /\ anims[b].age = lag
  BY DEF AtTick, Starts
<1>2. Now.a = b
  BY <1>1 DEF Now, OnAnim, Do
<1>3. QueuesOk /\ HooksOk /\ AnimsOk /\ RestOk /\ PageOk /\ agenda \in Seq(Doings)
  BY DEF Typed
<1>4. anims[b].stopped = FALSE /\ anims[b].item \in Scrolls /\ anims[b].elem \in Elems /\ lag \in Int
  BY <1>3, AnimFacts DEF RestOk
<1>5. anims[b].item.duration = 1 /\ ~(anims[b].age - lag >= anims[b].item.duration)
  BY <1>1, <1>4, ScrollFacts
<1> PICK e \in Elems : e = anims[b].elem
  BY <1>4
<1>6. /\ UNCHANGED <<queue, hooks, anims, timers, lag, delays, finishing, promises, calls, hash, last>>
      /\ position' = [position EXCEPT ![e] = 0] /\ result' = TRUE /\ agenda' = <<>> \o Tail(agenda)
  BY <1>1, <1>2, <1>4, <1>5 DEF Tick, ReadTime, Between, ScrollTo, Then
<1>7. Tail(agenda) \in Seq(Doings)
  BY <1>1, <1>3, TailIs
<1>8. agenda' = Tail(agenda) /\ agenda' \in Seq(Doings)
  BY <1>6, <1>7, ConcatEmptySeq
<1>9. RestOk' /\ PageOk' /\ AnimsOk' /\ Alike /\ QueuesOk' /\ HooksOk'
  BY <1>3, <1>6, AlikeIs DEF RestOk, PageOk, QueuesOk, HooksOk
<1>10. Typed'
  BY <1>8, <1>9 DEF Typed
<1>11. Stage(r, k, dead)'
  BY <1>6, <1>9, StageAlike
<1>12. /\ Timely(dead, {}) /\ (\A f \in Elems \ {e} : Fine(f, k)) /\ ~Driven(e) /\ Busy(e) /\ hooks[e].cur = anims[b].item
       /\ e <= k => Goal(e)
  BY <1>1 DEF New, Called, Even
<1>13. /\ Timely(dead, {})' /\ (\A f \in Elems \ ({e} \cup {e}) : Fine(f, k)') /\ \A f \in Elems : Driven(f)' <=> Driven(f)
  <2>1. \A f \in Elems \ {e} : Untouched(f)
    BY <1>3, <1>6 DEF Untouched, PageOk
  <2>2. \A f \in Elems : hooks'[f].cur = hooks[f].cur \/ ~Driven(f)
    BY <1>6
  <2> QED BY <1>3, <1>6, <1>9, <1>12, <2>1, <2>2, EvenKept
<1>14. Even(k, dead, {e}, {})'
  BY <1>12, <1>13 DEF Even
<1>15. Busy(e)' /\ (e <= k => Goal(e)')
  BY <1>6, <1>12 DEF Busy, Goal, Leads
<1>16. Called(e, anims[b].item, k, dead)'
  BY <1>6, <1>12, <1>14, <1>15 DEF Called
<1>17. New(b, k, dead)'
  BY <1>1, <1>6, <1>16 DEF New
<1>18. Pushing(agenda', b, r)
  BY <1>1, <1>8
<1> QED BY <1>6, <1>10, <1>11, <1>17, <1>18 DEF AtPush, Pushing, Attaching, Starts

\* PushTimer: the new animation's timer is the only one that drives its element.
LEMMA PushTimerStep ==
  ASSUME Typed, NEW r, NEW k, NEW dead, Stage(r, k, dead), NEW b \in 1 .. Len(anims), AtPush(b, r, k, dead), PushTimer
  PROVE  Typed' /\ Stage(r, k, dead)' /\ AtAttach(b, r, k, dead)'
<1>1. /\ agenda # <<>> /\ Head(agenda) = OnAnim("push", b, FALSE) /\ Attaching(Tail(agenda), b, r) /\ result /\ New(b, k, dead)
  BY DEF AtPush, Pushing, Starts
<1>2. Now.a = b
  BY <1>1 DEF Now, OnAnim, Do
<1>3. QueuesOk /\ HooksOk /\ AnimsOk /\ RestOk /\ PageOk /\ agenda \in Seq(Doings)
  BY DEF Typed
<1>4. /\ UNCHANGED <<queue, hooks, anims, lag, delays, finishing, promises, result, calls, position, hash, last>>
      /\ timers' = Append(timers, b) /\ agenda' = <<>> \o Tail(agenda)
  BY <1>1, <1>2 DEF PushTimer, Then, page
<1>5. Tail(agenda) \in Seq(Doings)
  BY <1>1, <1>3, TailIs
<1>6. agenda' = Tail(agenda) /\ agenda' \in Seq(Doings)
  BY <1>4, <1>5, ConcatEmptySeq
<1>7. /\ Len(anims) \in Nat /\ Len(timers) \in Nat /\ (\A j \in 1 .. Len(timers) : timers[j] \in 1 .. Len(anims))
      /\ \A a \in 1 .. Len(anims) : anims[a].elem \in Elems
  BY <1>3, AnimFacts
<1>8. /\ timers' \in Seq(1 .. Len(anims)) /\ Len(timers') = Len(timers) + 1 /\ (\A j \in 1 .. Len(timers) : timers'[j] = timers[j])
      /\ timers'[Len(timers) + 1] = b
  <2>1. timers \in Seq(1 .. Len(anims))
    BY <1>3 DEF AnimsOk
  <2> QED BY <1>4, <2>1, LastIs
<1>9. AnimsOk' /\ RestOk' /\ PageOk' /\ QueuesOk' /\ HooksOk'
  BY <1>3, <1>4, <1>8 DEF AnimsOk, RestOk, PageOk, QueuesOk, HooksOk
<1>10. Typed'
  BY <1>6, <1>9 DEF Typed
<1>11. Stage(r, k, dead)'
  <2>1. Later(r, k, dead)'
    <3>1. Len(anims) <= Len(anims') /\ Len(timers) <= Len(timers') /\ Len(anims') \in Nat /\ Len(timers') \in Nat
      BY <1>4, <1>7, <1>8
    <3>2. \A a \in 1 .. Len(anims) : anims'[a].state = anims[a].state
      BY <1>4
    <3> QED BY <1>3, <1>4, <1>8, <3>1, <3>2, LaterKept DEF Stage
  <2> QED BY <1>4, <2>1 DEF Stage
<1> PICK e \in Elems : e = anims[b].elem
  BY <1>7
<1>12. /\ Timely(dead, {}) /\ (\A f \in Elems \ {e} : Fine(f, k)) /\ ~Driven(e) /\ Busy(e) /\ hooks[e].cur = anims[b].item
       /\ (e <= k => Goal(e)) /\ anims[b].state = "pending" /\ \A j \in 1 .. Len(timers) : timers[j] # b
  BY <1>1 DEF New, Called, Even
<1>13. \A j \in 1 .. Len(timers') : j \in 1 .. Len(timers) \/ j = Len(timers) + 1
  BY <1>7, <1>8
<1>14. \A j \in 1 .. Len(timers) : j \in 1 .. Len(timers')
  BY <1>7, <1>8
<1> PICK n : n = Len(timers) + 1
  OBVIOUS
<1>15. \A j \in 1 .. Len(timers) : \A f \in Elems : Drives(j, f)' <=> Drives(j, f)
  BY <1>4, <1>8 DEF Drives
<1>16. \A f \in Elems : Drives(n, f)' <=> f = e
  BY <1>4, <1>8, <1>12 DEF Drives
<1>17. n \in 1 .. Len(timers') /\ timers'[n] = b /\ anims[b].elem = e /\ anims[b].state = "pending" /\ hooks[e].cur = anims[b].item
  BY <1>7, <1>8, <1>12
<1>18. ASSUME NEW j \in 1 .. Len(timers'), NEW l \in 1 .. Len(timers'), timers'[j] = timers'[l] PROVE j = l
  BY <1>8, <1>12, <1>13, <1>18 DEF Timely
<1>19. ASSUME NEW j \in 1 .. Len(timers'), NEW l \in 1 .. Len(timers'), NEW f \in Elems, Drives(j, f)', Drives(l, f)' PROVE j = l
  <2>1. CASE j \in 1 .. Len(timers) /\ l \in 1 .. Len(timers)
    BY <1>12, <1>15, <1>19, <2>1 DEF Timely
  <2>2. CASE j = n
    BY <1>12, <1>13, <1>15, <1>16, <1>19, <2>2 DEF Driven
  <2>3. CASE l = n
    BY <1>12, <1>13, <1>15, <1>16, <1>19, <2>3 DEF Driven
  <2> QED BY <1>13, <2>1, <2>2, <2>3
<1>20. ASSUME NEW j \in 1 .. Len(timers')
       PROVE  LET anim == anims'[timers'[j]]
              IN  /\ timers'[j] \in dead \/ anim.state = "pending"
                  /\ anim.state = "pending" => anim.item = hooks'[anim.elem].cur /\ (anim.attached \/ timers'[j] \in {b})
  <2>1. CASE j \in 1 .. Len(timers)
    <3>1. /\ timers[j] \in dead \/ anims[timers[j]].state = "pending"
          /\ anims[timers[j]].state = "pending" =>
               anims[timers[j]].item = hooks[anims[timers[j]].elem].cur /\ anims[timers[j]].attached
      BY <1>12, <2>1 DEF Timely
    <3> QED BY <1>4, <1>8, <2>1, <3>1
  <2>2. CASE j = n
    BY <1>4, <1>17, <2>2
  <2> QED BY <1>13, <2>1, <2>2
<1>21. Timely(dead, {b})'
  BY <1>18, <1>19, <1>20 DEF Timely
<1>22. ASSUME NEW f \in Elems PROVE Fine(f, k)'
  <2>1. CASE f = e
    <3>1. Driven(f)'
      BY <1>16, <1>17, <2>1 DEF Driven
    <3>2. Busy(f)' /\ (f <= k => Goal(f)')
      BY <1>4, <1>12, <2>1 DEF Busy, Goal, Leads
    <3> QED BY <3>1, <3>2 DEF Fine
  <2>2. CASE f # e
    <3>1. Driven(f)' <=> Driven(f)
      BY <1>13, <1>14, <1>15, <1>16, <2>2 DEF Driven
    <3>2. Fine(f, k) /\ (Busy(f)' <=> Busy(f)) /\ (Goal(f)' <=> Goal(f))
      BY <1>4, <1>12, <2>2 DEF Busy, Goal, Leads
    <3> QED BY <1>4, <3>1, <3>2 DEF Fine
  <2> QED BY <2>1, <2>2
<1>23. Even(k, dead, {}, {b})'
  BY <1>21, <1>22 DEF Even
<1>24. Addressed(k)'
  BY <1>4, <1>12 DEF Addressed, Owed, Busy
<1>25. Attaching(agenda', b, r)
  BY <1>1, <1>6
<1> QED BY <1>4, <1>10, <1>11, <1>12, <1>23, <1>24, <1>25 DEF AtAttach, Attaching, Starts

\* Attach: the new animation has not ended yet, so that its complete function will be called.
LEMMA AttachStep ==
  ASSUME Typed, NEW r, NEW k, NEW dead, Stage(r, k, dead), NEW b \in 1 .. Len(anims), AtAttach(b, r, k, dead), Attach
  PROVE  Typed' /\ Stage(r, k, dead)' /\ AtMade(b, r, k, dead)'
<1>1. /\ agenda # <<>> /\ Head(agenda) = OnAnim("attach", b, FALSE) /\ Starts(Tail(agenda), OnAnim("made", b, FALSE))
      /\ Tail(Tail(agenda)) = r /\ anims[b].state = "pending" /\ Even(k, dead, {}, {b}) /\ Addressed(k)
  BY DEF AtAttach, Attaching, Starts
<1>2. Now.a = b
  BY <1>1 DEF Now, OnAnim, Do
<1>3. QueuesOk /\ HooksOk /\ AnimsOk /\ RestOk /\ PageOk /\ agenda \in Seq(Doings)
  BY DEF Typed
<1>4. /\ UNCHANGED <<queue, hooks, timers, lag, delays, finishing, promises, result, calls, position, hash, last>>
      /\ anims' = [anims EXCEPT ![b].attached = TRUE] /\ agenda' = <<>> \o Tail(agenda)
  BY <1>1, <1>2 DEF Attach, Then, page, After
<1>5. Tail(agenda) \in Seq(Doings)
  BY <1>1, <1>3, TailIs
<1>6. agenda' = Tail(agenda) /\ agenda' \in Seq(Doings)
  BY <1>4, <1>5, ConcatEmptySeq
<1>7. /\ Len(anims) \in Nat /\ Len(timers) \in Nat /\ (\A j \in 1 .. Len(timers) : timers[j] \in 1 .. Len(anims))
      /\ \A a \in 1 .. Len(anims) : anims[a] \in Anims /\ anims[a].elem \in Elems
  BY <1>3, AnimFacts
<1> DEFINE new == [anims[b] EXCEPT !.attached = TRUE]
<1>8. new \in Anims /\ new.elem = anims[b].elem /\ new.item = anims[b].item /\ new.state = anims[b].state /\ new.attached = TRUE
  <2>1. anims[b] \in Anims
    BY <1>7
  <2> QED BY <2>1 DEF Anims
<1> HIDE DEF new
<1>9. anims' \in Seq(Anims) /\ Len(anims') = Len(anims) /\ \A a \in 1 .. Len(anims) : anims'[a] = IF a = b THEN new ELSE anims[a]
  <2>1. anims' = [anims EXCEPT ![b] = new]
    BY <1>4 DEF new
  <2>2. anims \in Seq(Anims)
    BY <1>3 DEF AnimsOk
  <2> QED BY <1>8, <2>1, <2>2, ExceptSeq
<1>10. /\ \A a \in 1 .. Len(anims) : /\ anims'[a].elem = anims[a].elem /\ anims'[a].item = anims[a].item
                                     /\ anims'[a].state = anims[a].state /\ (a # b => anims'[a] = anims[a])
       /\ anims'[b].attached
  BY <1>8, <1>9
<1>11. AnimsOk' /\ RestOk' /\ PageOk' /\ QueuesOk' /\ HooksOk'
  BY <1>3, <1>4, <1>9 DEF AnimsOk, RestOk, PageOk, QueuesOk, HooksOk
<1>12. Typed'
  BY <1>6, <1>11 DEF Typed
<1>13. Stage(r, k, dead)'
  <2>1. Len(anims) <= Len(anims') /\ Len(timers) <= Len(timers') /\ Len(anims') \in Nat /\ Len(timers') \in Nat
    BY <1>4, <1>7, <1>9
  <2>2. Later(r, k, dead)'
    BY <1>3, <1>4, <1>10, <2>1, LaterKept DEF Stage
  <2> QED BY <1>9, <2>2 DEF Stage
<1>14. Timely(dead, {b}) /\ \A f \in Elems : Fine(f, k)
  BY <1>1 DEF Even
<1>15. /\ \A j \in 1 .. Len(timers) : \A f : Drives(j, f)' <=> Drives(j, f)
       /\ \A f : Driven(f)' <=> Driven(f)
  BY <1>4, <1>7, <1>10 DEF Drives, Driven
<1>16. ASSUME NEW j \in 1 .. Len(timers')
       PROVE  LET anim == anims'[timers'[j]]
              IN  /\ timers'[j] \in dead \/ anim.state = "pending"
                  /\ anim.state = "pending" => anim.item = hooks'[anim.elem].cur /\ (anim.attached \/ timers'[j] \in {})
  <2>1. j \in 1 .. Len(timers) /\ timers'[j] = timers[j] /\ timers[j] \in 1 .. Len(anims)
    BY <1>4, <1>7
  <2>2. /\ timers[j] \in dead \/ anims[timers[j]].state = "pending"
        /\ anims[timers[j]].state = "pending" =>
             anims[timers[j]].item = hooks[anims[timers[j]].elem].cur /\ (anims[timers[j]].attached \/ timers[j] = b)
    BY <1>14, <2>1 DEF Timely
  <2> QED BY <1>4, <1>10, <2>1, <2>2
<1>17. Timely(dead, {})'
  <2>1. \A j, l \in 1 .. Len(timers') : timers'[j] = timers'[l] => j = l
    BY <1>4, <1>14 DEF Timely
  <2>2. ASSUME NEW j \in 1 .. Len(timers'), NEW l \in 1 .. Len(timers'), NEW f \in Elems, Drives(j, f)', Drives(l, f)' PROVE j = l
    BY <1>4, <1>14, <1>15, <2>2 DEF Timely
  <2> QED BY <1>16, <2>1, <2>2 DEF Timely
<1>18. ASSUME NEW f \in Elems PROVE Fine(f, k)'
  <2>1. Fine(f, k) /\ (Busy(f)' <=> Busy(f)) /\ (Goal(f)' <=> Goal(f)) /\ (Driven(f)' <=> Driven(f))
    BY <1>4, <1>14, <1>15 DEF Busy, Goal, Leads
  <2> QED BY <1>4, <2>1 DEF Fine
<1>19. Even(k, dead, {}, {})'
  BY <1>17, <1>18 DEF Even
<1>20. Addressed(k)'
  BY <1>1, <1>4 DEF Addressed, Owed
<1> QED BY <1>1, <1>6, <1>12, <1>13, <1>19, <1>20 DEF AtMade, Before, Starts

\* What changes no queue, animation, timer or position keeps all even.
LEMMA CalmKept ==
  ASSUME AnimsOk, UNCHANGED <<queue, anims, timers, position, last>>, \A e \in Elems : hooks'[e].cur = hooks[e].cur
  PROVE  /\ AnimsOk' /\ Alike
         /\ \A k, dead, x, loose : x \subseteq Elems /\ Even(k, dead, x, loose) => Even(k, dead, x, loose)'
         /\ \A k, x : Owed(k, x) => Owed(k, x)'
         /\ \A k : hash' = hash /\ Addressed(k) => Addressed(k)'
         /\ \A e, k, dead : hash' = hash /\ Ready(e, k, dead) => Ready(e, k, dead)'
<1>1. AnimsOk' /\ Alike
  BY AlikeIs
<1>2. \A k, x : Owed(k, x) => Owed(k, x)'
  BY DEF Owed
<1>3. \A k : hash' = hash /\ Addressed(k) => Addressed(k)'
  BY <1>2 DEF Addressed
<1>4. ASSUME NEW k, NEW dead, NEW x, NEW loose, x \subseteq Elems, Even(k, dead, x, loose) PROVE Even(k, dead, x, loose)'
  <2>1. \A e \in Elems : Untouched(e)
    BY DEF Untouched
  <2>2. Timely(dead, loose) /\ (\A e \in Elems \ x : Fine(e, k)) /\ \A e \in x : ~Driven(e)
    BY <1>4 DEF Even
  <2>3. Timely(dead, loose)' /\ (\A e \in Elems \ (x \cup {}) : Fine(e, k)') /\ \A e \in Elems : Driven(e)' <=> Driven(e)
    BY <1>1, <2>1, <2>2, EvenKept
  <2> QED BY <1>4, <2>2, <2>3 DEF Even
<1>5. ASSUME NEW e, NEW k, NEW dead, hash' = hash, Ready(e, k, dead) PROVE Ready(e, k, dead)'
  <2>1. Left(e)' = Left(e)
    BY DEF Left
  <2>2. e \in Elems /\ Even(k, dead, {e}, {})
    BY <1>5 DEF Ready
  <2>3. Even(k, dead, {e}, {})'
    BY <1>4, <2>2
  <2> QED BY <1>2, <1>5, <2>1, <2>3 DEF Ready, Leads
<1> QED BY <1>1, <1>2, <1>3, <1>4, <1>5

\* Made: no element is under the finish flag, so that the animation goes on.
LEMMA MadeStep ==
  ASSUME Typed, NEW r, NEW k, NEW dead, Stage(r, k, dead), NEW b \in 1 .. Len(anims), AtMade(b, r, k, dead), Made
  PROVE  Typed' /\ Stage(r, k, dead)' /\ AtRest(r, k, dead)'
<1>1. Tail(agenda) = r /\ r \in Seq(Doings) /\ Even(k, dead, {}, {}) /\ Addressed(k)
  BY DEF AtMade, Before, Stage
<1>2. QueuesOk /\ HooksOk /\ AnimsOk /\ RestOk /\ PageOk
  BY DEF Typed
<1>3. /\ UNCHANGED <<queue, hooks, anims, timers, lag, delays, finishing, promises, result, calls, position, hash, last>>
      /\ agenda' = <<>> \o r
  BY <1>1, <1>2 DEF Made, Then, page, RestOk
<1>4. agenda' = r /\ agenda' \in Seq(Doings)
  BY <1>1, <1>3, NoneFirst
<1>5. QueuesOk' /\ HooksOk' /\ AnimsOk' /\ PageOk' /\ Alike /\ RestOk'
  BY <1>2, <1>3, AlikeIs DEF RestOk, QueuesOk, HooksOk, PageOk
<1>6. Even(k, dead, {}, {})' /\ Addressed(k)'
  BY <1>1, <1>2, <1>3, CalmKept
<1>7. Stage(r, k, dead)'
  BY <1>3, <1>5, StageAlike
<1> QED BY <1>4, <1>5, <1>6, <1>7 DEF Typed, AtRest

----------
(* The steps that go on after an animation, and promises.                  *)

\* Complete: the address is where the animation led to, and the queue goes on.
LEMMA CompleteStep ==
  ASSUME Typed, NEW r, NEW k, NEW dead, Stage(r, k, dead), NEW a \in 1 .. Len(anims), AtComplete(a, r, k, dead), Complete
  PROVE  Typed' /\ Stage(r, k, dead)' /\ \E e \in Elems : AtCallback(e, r, k, dead)'
<1>1. QueuesOk /\ HooksOk /\ AnimsOk /\ RestOk /\ PageOk
  BY DEF Typed
<1> PICK e \in Elems : e = anims[a].elem
  BY <1>1, AnimFacts
<1> DEFINE item == anims[a].item
<1>2. /\ agenda # <<>> /\ Head(agenda) = OnAnim("complete", a, FALSE) /\ Tail(agenda) = r
      /\ r \in Seq(Doings) /\ k \in 0 .. N /\ Even(k, dead, {e}, {}) /\ Busy(e)
      /\ e <= k => IF Left(e) = <<>> THEN position[e] = last /\ item.target = last ELSE Leads(e, Left(e))
  BY DEF AtComplete, Before, Starts, Stage
<1>3. Now.a = a
  BY <1>2 DEF Now, OnAnim, Do
<1>4. item \in Scrolls /\ item.queued = TRUE /\ item.target \in Nat \ {0}
  BY <1>1, AnimFacts, ScrollFacts
<1>5. /\ UNCHANGED <<queue, hooks, anims, timers, lag, delays, finishing, promises, result, calls, position, last>>
      /\ hash' = item.target
      /\ agenda' = (<<OnElem("callback", e)>> \o <<OnElem("dequeue", e)>>) \o r
  BY <1>2, <1>3, <1>4 DEF Complete, Then, fx
<1>6. QueuesOk' /\ HooksOk' /\ AnimsOk' /\ RestOk' /\ PageOk' /\ Alike
  BY <1>1, <1>4, <1>5, AlikeIs DEF QueuesOk, HooksOk, RestOk, PageOk
<1> DEFINE x == OnElem("callback", e)
           y == OnElem("dequeue", e)
           s == <<y>> \o r
<1>7. x \in Doings /\ y \in Doings
  BY DoingsAre, ElemsAre
<1> HIDE DEF x, y
<1>8. s \in Seq(Doings) /\ s # <<>> /\ Head(s) = y /\ Tail(s) = r
  BY <1>2, <1>7, FirstIs
<1>9. (<<x>> \o <<y>>) \o r = <<x>> \o s
  <2>1. <<x>> \in Seq(Doings) /\ <<y>> \in Seq(Doings)
    BY <1>7
  <2> QED BY <1>2, <2>1, ConcatAssociative
<1> HIDE DEF s
<1>10. agenda' = <<x>> \o s
  BY <1>5, <1>9 DEF x, y
<1>11. agenda' \in Seq(Doings) /\ agenda' # <<>> /\ Head(agenda') = x /\ Tail(agenda') = s
  BY <1>7, <1>8, <1>10, FirstIs
<1>12. Typed'
  BY <1>6, <1>11 DEF Typed
<1>13. Stage(r, k, dead)'
  BY <1>5, <1>6, StageAlike
<1>14. Left(e) = Tail(queue[e].items) /\ Left(e)' = Left(e)
  BY <1>2, <1>5 DEF Left, Busy
<1>15. Ready(e, k, dead)'
  <2>1. Even(k, dead, {e}, {})'
    BY <1>1, <1>2, <1>5, CalmKept
  <2>2. Left(e) \in Seq(Scrolls)
    BY <1>2, <1>14 DEF Busy
  <2>3. hash' = last \/ Owed(k, {e})' \/ Left(e) # <<>>
    <3>1. CASE e <= k
      BY <1>2, <1>5, <3>1
    <3>2. CASE ~(e <= k)
      BY <1>2, <3>2, ElemsAre DEF Owed
    <3> QED BY <3>1, <3>2
  <2>4. e <= k => IF Left(e) = <<>> THEN position[e] = last ELSE Leads(e, Left(e))
    BY <1>2
  <2> QED BY <2>4, <2>3, <2>2, <2>1, <1>14, <1>5 DEF Ready, Leads
<1>16. AtCallback(e, r, k, dead)'
  BY <1>8, <1>11, <1>15 DEF AtCallback, Starts, x, y
<1> QED BY <1>12, <1>13, <1>16

\* What scripts call as long as they do nothing else.
LEMMA PromiseThings == ASSUME NEW c, NEW n, c.call = "promise" PROVE Things(c, n) = <<OnElem("promise", 0)>>
BY DEF Things

\* A call of a script that does not meddle asks for a promise.
LEMMA PromiseCalled ==
  ASSUME NEW c, NEW rest, ScriptCall(c, rest), meddled' = {}, RestOk
  PROVE  /\ agenda' = <<OnElem("promise", 0)>> \o rest /\ RestOk'
         /\ UNCHANGED <<queue, hooks, anims, timers, position, hash, last>>
<1>1. c.call = "promise"
  BY DEF ScriptCall
<1>2. Things(c, calls') = <<OnElem("promise", 0)>>
  BY <1>1, PromiseThings
<1>3. calls' = calls + 1 /\ agenda' = Things(c, calls') \o rest /\ UNCHANGED <<fx, result, position, hash, last>>
  BY DEF ScriptCall
<1>4. UNCHANGED <<queue, hooks, anims, timers, lag, delays, finishing, promises, result, position, hash, last>>
  BY <1>3 DEF fx
<1>5. RestOk'
  BY <1>3, <1>4 DEF RestOk
<1> QED BY <1>2, <1>3, <1>4, <1>5

\* Callback: after it the queue still goes on, whatever promises it asked for.
LEMMA CallbackStep ==
  ASSUME Typed, NEW r, NEW k, NEW dead, Stage(r, k, dead), NEW e \in Elems, AtCallback(e, r, k, dead), Callback, meddled' = {}
  PROVE  Typed' /\ Stage(r, k, dead)' /\ (AtCallback(e, r, k, dead)' \/ AtDequeue(e, r, k, dead)')
<1>1. QueuesOk /\ HooksOk /\ AnimsOk /\ RestOk /\ PageOk /\ agenda \in Seq(Doings)
  BY DEF Typed
<1>2. /\ agenda # <<>> /\ Starts(Tail(agenda), OnElem("dequeue", e)) /\ Tail(Tail(agenda)) = r /\ Ready(e, k, dead)
  BY DEF AtCallback, Starts
<1>3. Tail(agenda) \in Seq(Doings)
  BY <1>1, <1>2, TailIs
<1>4. CASE Then(<<>>) /\ UNCHANGED <<fx, result, calls, ended, page>>
  <2>1. UNCHANGED <<queue, hooks, anims, timers, lag, delays, finishing, promises, result, calls, position, hash, last>>
    BY <1>4 DEF fx, page
  <2>2. agenda' = Tail(agenda) /\ agenda' \in Seq(Doings)
    BY <1>3, <1>4, NoneFirst DEF Then
  <2>3. QueuesOk' /\ HooksOk' /\ AnimsOk' /\ RestOk' /\ PageOk' /\ Alike
    BY <1>1, <2>1, AlikeIs DEF QueuesOk, HooksOk, RestOk, PageOk
  <2>4. Typed' /\ Stage(r, k, dead)'
    BY <2>1, <2>2, <2>3, StageAlike DEF Typed
  <2>5. Ready(e, k, dead)'
    BY <1>1, <1>2, <2>1, CalmKept
  <2> QED BY <1>2, <2>2, <2>4, <2>5 DEF AtDequeue, Before, Starts
<1>5. ASSUME NEW c \in ScriptCalls, ScriptCall(c, Tail(agenda)) PROVE Typed' /\ Stage(r, k, dead)' /\ AtCallback(e, r, k, dead)'
  <2>1. /\ agenda' = <<OnElem("promise", 0)>> \o Tail(agenda) /\ RestOk'
        /\ UNCHANGED <<queue, hooks, anims, timers, position, hash, last>>
    BY <1>1, <1>5, PromiseCalled
  <2>2. QueuesOk' /\ HooksOk' /\ AnimsOk' /\ PageOk' /\ Alike
    BY <1>1, <2>1, AlikeIs DEF QueuesOk, HooksOk, PageOk
  <2>3. agenda' \in Seq(Doings) /\ agenda' # <<>> /\ Head(agenda') = OnElem("promise", 0) /\ Tail(agenda') = Tail(agenda)
    <3>1. OnElem("promise", 0) \in Doings
      BY DoingsAre, ElemsAre
    <3> DEFINE p == OnElem("promise", 0)
               t == Tail(agenda)
    <3>2. p \in Doings /\ t \in Seq(Doings) /\ agenda' = <<p>> \o t
      BY <1>3, <2>1, <3>1
    <3> HIDE DEF p, t
    <3>3. agenda' \in Seq(Doings) /\ agenda' # <<>> /\ Head(agenda') = p /\ Tail(agenda') = t
      BY <3>2, FirstIs
    <3> QED BY <3>3 DEF p, t
  <2>4. Typed' /\ Stage(r, k, dead)'
    BY <2>1, <2>2, <2>3, StageAlike DEF Typed
  <2>5. Ready(e, k, dead)'
    BY <1>1, <1>2, <2>1, CalmKept
  <2> QED BY <2>5, <2>4, <2>3, <1>2 DEF AtCallback, Starts
<1> QED BY <1>4, <1>5 DEF Callback

\* Promise changes nothing that matters here.
LEMMA PromiseKeeps ==
  ASSUME Typed, Promise
  PROVE  /\ QueuesOk' /\ HooksOk' /\ AnimsOk' /\ RestOk' /\ PageOk' /\ Alike
         /\ UNCHANGED <<queue, anims, timers, position, hash, last>> /\ \A e \in Elems : hooks'[e].cur = hooks[e].cur
<1>1. QueuesOk /\ HooksOk /\ AnimsOk /\ RestOk /\ PageOk
  BY DEF Typed
<1>2. UNCHANGED <<queue, anims, timers, lag, delays, finishing, result, calls, position, hash, last>>
  BY DEF Promise, page
<1>3. QueuesOk' /\ AnimsOk' /\ PageOk' /\ Alike
  BY <1>1, <1>2, AlikeIs DEF QueuesOk, PageOk
<1> DEFINE busy == {e \in Elems : hooks[e].stored}
           H == [stored : BOOLEAN, cur : Scrolls \cup {None}, stop : {FALSE}, unqueued : {0}, waits : Seq(Nat)]
<1>4. Len(promises) \in Nat /\ promises \in Seq(Int)
  BY <1>1, LenProperties DEF RestOk
<1> PICK p \in Nat : p = Len(promises) + 1
  BY <1>4
<1>5. /\ promises' = Append(promises, Cardinality(busy))
      /\ hooks' = [e \in Elems |-> IF e \in busy THEN [hooks[e] EXCEPT !.waits = Append(@, p)] ELSE hooks[e]]
  BY DEF Promise
<1>6. RestOk'
  <2>1. IsFiniteSet(Elems)
    BY ElemsAre, FS_Interval
  <2>2. Cardinality(busy) \in Nat
    BY <2>1, FS_Subset, FS_CardinalityType
  <2>3. promises' \in Seq(Int)
    BY <1>4, <1>5, <2>2
  <2> QED BY <1>1, <1>2, <2>3 DEF RestOk
<1>7. ASSUME NEW e \in Elems PROVE hooks'[e] \in H /\ hooks'[e].cur = hooks[e].cur /\ hooks'[e].stored = hooks[e].stored
  <2>1. hooks[e] \in H
    BY <1>1 DEF HooksOk
  <2>2. Append(hooks[e].waits, p) \in Seq(Nat)
    <3>1. hooks[e].waits \in Seq(Nat)
      BY <2>1
    <3> QED BY <3>1, LastIs
  <2> DEFINE new == [hooks[e] EXCEPT !.waits = Append(@, p)]
  <2>3. new \in H /\ new.cur = hooks[e].cur /\ new.stored = hooks[e].stored
    BY <2>1, <2>2
  <2>4. hooks'[e] = IF e \in busy THEN new ELSE hooks[e]
    BY <1>5
  <2> HIDE DEF new, H
  <2> QED BY <2>1, <2>3, <2>4
<1>8. HooksOk'
  <2>1. hooks' \in [Elems -> H]
    BY <1>5, <1>7
  <2> QED BY <1>1, <1>7, <2>1 DEF HooksOk
<1> QED BY <1>2, <1>3, <1>6, <1>7, <1>8

\* Promise, called by a script and by a complete function.
LEMMA PromiseStep ==
  ASSUME Typed, NEW r, NEW k, NEW dead, Stage(r, k, dead), Promise
  PROVE  /\ AtPromise(r, k, dead) => Typed' /\ Stage(r, k, dead)' /\ AtRest(r, k, dead)'
         /\ \A e \in Elems : AtCallback(e, r, k, dead) => Typed' /\ Stage(r, k, dead)' /\ AtDequeue(e, r, k, dead)'
<1>1. AnimsOk /\ agenda \in Seq(Doings) /\ agenda # <<>> /\ agenda' = <<>> \o Tail(agenda)
  BY DEF Typed, Promise, Doing, Then
<1>2. Tail(agenda) \in Seq(Doings)
  BY <1>1, TailIs
<1>3. agenda' = Tail(agenda) /\ agenda' \in Seq(Doings)
  BY <1>1, <1>2, NoneFirst
<1>4. Typed' /\ Stage(r, k, dead)'
  BY <1>3, PromiseKeeps, StageAlike DEF Typed
<1>5. ASSUME AtPromise(r, k, dead) PROVE AtRest(r, k, dead)'
  <2>1. Even(k, dead, {}, {})' /\ Addressed(k)'
    BY <1>1, <1>5, PromiseKeeps, CalmKept DEF AtPromise
  <2> QED BY <1>3, <1>5, <2>1 DEF AtPromise, AtRest, Before
<1>6. ASSUME NEW e \in Elems, AtCallback(e, r, k, dead) PROVE AtDequeue(e, r, k, dead)'
  <2>1. Ready(e, k, dead)'
    BY <1>1, <1>6, PromiseKeeps, CalmKept DEF AtCallback
  <2> QED BY <1>3, <1>6, <2>1 DEF AtCallback, AtDequeue, Before, Starts
<1> QED BY <1>4, <1>5, <1>6

----------
(* The steps of the interval.                                              *)

\* TickReturns: the timer function of an animation that is over returns FALSE.
LEMMA TickReturnsStep ==
  ASSUME Typed, NEW r, NEW k, NEW dead, Stage(r, k, dead), AtRest(r, k, dead), TickReturns
  PROVE  Typed' /\ \E a \in 1 .. Len(anims'), i \in 1 .. Len(timers') : AtAfter(a, i)'
<1>1. QueuesOk /\ HooksOk /\ AnimsOk /\ RestOk /\ PageOk /\ agenda \in Seq(Doings)
  BY DEF Typed
<1>2. agenda = r /\ r # <<>> /\ Head(r).do = "return" /\ Even(k, dead, {}, {}) /\ Addressed(k)
  BY DEF AtRest, TickReturns, Doing
<1>3. ~Clicks(r, k)
  BY <1>2, LaterHeads
<1> PICK a \in 1 .. Len(anims), i \in 1 .. Len(timers) :
           Returning(r, a, i) /\ k = N /\ dead = {a} /\ Place(a, i) /\ anims[a].state # "pending"
  BY <1>3 DEF Stage, Later
<1>4. /\ UNCHANGED <<queue, hooks, anims, timers, lag, delays, finishing, promises, calls, position, hash, last>>
      /\ result' = FALSE /\ agenda' = <<>> \o Tail(r)
  BY <1>2 DEF TickReturns, fx, page, Then
<1>5. QueuesOk' /\ HooksOk' /\ AnimsOk' /\ RestOk' /\ PageOk'
  BY <1>1, <1>4 DEF QueuesOk, HooksOk, AnimsOk, RestOk, PageOk
<1>6. Tail(r) \in Seq(Doings)
  BY <1>1, <1>2, TailIs
<1>7. agenda' = Tail(r) /\ agenda' \in Seq(Doings)
  BY <1>4, <1>6, ConcatEmptySeq
<1>8. Typed'
  BY <1>5, <1>7 DEF Typed
<1>9. Even(N, {a}, {}, {})' /\ Addressed(N)'
  BY <1>1, <1>2, <1>4, CalmKept
<1>10. AtAfter(a, i)'
  <2>1. Ends(agenda', AfterTick(a, i))
    BY <1>7 DEF Returning
  <2> QED BY <1>4, <1>9, <2>1 DEF AtAfter, Place, Ends, Starts
<1>11. a \in 1 .. Len(anims') /\ i \in 1 .. Len(timers')
  BY <1>4
<1> QED BY <1>8, <1>10, <1>11

\* The click has reached all elements.
LEMMA AllReached ==
  ASSUME AnimsOk
  PROVE  <<>> \in Seq(Doings) /\ Stage(<<>>, N, {}) /\ Stage(<<>>, N, {})' /\ \A k : Clicks(<<>>, k) /\ k \in 0 .. N => k = N
<1>1. Clicks(<<>>, N) /\ \A k : Clicks(<<>>, k) /\ k \in 0 .. N => k = N
  BY ElemsAre DEF Clicks
<1>2. Clicks(<<>>, N)'
  BY ElemsAre DEF Clicks
<1> QED BY <1>1, <1>2, ElemsAre DEF Stage, Later

\* Frame calls the next timer, or it was the last one.
LEMMA FrameStep ==
  ASSUME Typed, NEW i \in Nat \ {0}, AtFrame(i), Frame
  PROVE  /\ Typed'
         /\ \/ Stage(<<>>, N, {})' /\ AtRest(<<>>, N, {})'
            \/ \E a \in 1 .. Len(anims'), j \in 1 .. Len(timers') : AtTimer(a, j)'
<1>1. QueuesOk /\ HooksOk /\ AnimsOk /\ RestOk /\ PageOk
  BY DEF Typed
<1>2. agenda # <<>> /\ Head(agenda) = FrameAt(i) /\ Tail(agenda) = <<>> /\ Even(N, {}, {}, {}) /\ Addressed(N)
  BY DEF AtFrame, Ends, Starts
<1>3. Now.i = i
  BY <1>2 DEF Now, FrameAt, Do
<1>4. Len(timers) \in Nat
  BY <1>1, AnimFacts
<1>5. UNCHANGED <<queue, hooks, anims, timers, delays, finishing, promises, result, calls, position, hash, last>>
  BY DEF Frame, page
<1>6. QueuesOk' /\ HooksOk' /\ AnimsOk' /\ PageOk' /\ (lag' \in Int => RestOk')
  BY <1>1, <1>5 DEF QueuesOk, HooksOk, AnimsOk, RestOk, PageOk
<1>7. Even(N, {}, {}, {})' /\ Addressed(N)'
  BY <1>1, <1>2, <1>5, CalmKept
<1>8. CASE i > Len(timers)
  <2>1. lag' = -1 /\ agenda' = <<>> \o <<>>
    BY <1>2, <1>3, <1>8 DEF Frame, Then
  <2>2. agenda' = <<>> /\ agenda' \in Seq(Doings)
    BY <2>1
  <2>3. Typed'
    BY <1>6, <2>1, <2>2 DEF Typed
  <2>4. AtRest(<<>>, N, {})'
    BY <1>7, <2>2 DEF AtRest
  <2> QED BY <1>1, <2>3, <2>4, AllReached
<1>9. CASE ~(i > Len(timers))
  <2>1. i \in 1 .. Len(timers)
    BY <1>4, <1>9
  <2> PICK a \in 1 .. Len(anims) : a = timers[i]
    BY <1>1, <2>1, AnimFacts
  <2> DEFINE x == OnAnim("tick", a, FALSE)
             y == AfterTick(a, i)
  <2>2. lag' = lag /\ agenda' = <<x, y>> \o <<>>
    BY <1>2, <1>3, <1>9 DEF Frame, Then, AfterTick
  <2>3. x \in Doings /\ y \in Doings /\ <<>> \in Seq(Doings)
    <3>1. a \in Nat
      OBVIOUS
    <3> QED BY <3>1, DoingsAre, EmptySeq
  <2> HIDE DEF x, y
  <2> DEFINE t == <<>>
             s == <<y>> \o t
             u == <<x, y>> \o t
  <2>4. u \in Seq(Doings) /\ Starts(u, x) /\ Follows(u, s) /\ Starts(s, y) /\ Follows(s, t)
    <3>1. t \in Seq(Doings)
      BY <2>3
    <3> HIDE DEF t
    <3> QED BY <2>3, <3>1, TwoFirst
  <2>5. agenda' = u
    BY <2>2
  <2> HIDE DEF s, u
  <2>6. agenda' \in Seq(Doings) /\ Starts(agenda', x) /\ Ends(Tail(agenda'), y)
    BY <2>4, <2>5 DEF Follows, Ends
  <2>7. Typed'
    BY <1>1, <1>6, <2>2, <2>6 DEF Typed, RestOk
  <2>8. Place(a, i)'
    BY <1>5, <2>1 DEF Place
  <2>9. AtTimer(a, i)'
    BY <1>7, <2>6, <2>8 DEF AtTimer, Ends, Starts, x, y
  <2>10. a \in 1 .. Len(anims') /\ i \in 1 .. Len(timers')
    BY <1>5, <2>1
  <2> QED BY <2>7, <2>9, <2>10
<1> QED BY <1>8, <1>9

\* Tick, called by the interval: either the element is between two places and its timer goes
\* on, or it is at the target and the animation is settled.
LEMMA TimerTickStep ==
  ASSUME Typed, NEW a \in 1 .. Len(anims), NEW i \in 1 .. Len(timers), AtTimer(a, i), Tick
  PROVE  Typed' /\ (AtSettle(a, i)' \/ AtAfter(a, i)')
<1>1. QueuesOk /\ HooksOk /\ AnimsOk /\ RestOk /\ PageOk /\ agenda \in Seq(Doings)
  BY DEF Typed
<1>2. /\ agenda # <<>> /\ Head(agenda) = OnAnim("tick", a, FALSE) /\ Ends(Tail(agenda), AfterTick(a, i))
      /\ timers[i] = a /\ Even(N, {}, {}, {}) /\ Addressed(N)
  BY DEF AtTimer, Starts, Place
<1>3. Now.a = a
  BY <1>2 DEF Now, OnAnim, Do
<1>4. /\ anims[a].stopped = FALSE /\ anims[a].item \in Scrolls /\ anims[a].elem \in Elems /\ anims[a].item.target \in Nat
      /\ lag \in Int
  BY <1>1, AnimFacts, ScrollFacts DEF RestOk
<1> PICK e \in Elems : e = anims[a].elem
  BY <1>4
<1> PICK target \in Nat : target = anims[a].item.target
  BY <1>4
<1>5. /\ UNCHANGED <<queue, hooks, anims, timers, delays, finishing, promises, calls, hash, last>>
      /\ lag' = IF lag = -1 THEN 0 ELSE lag
      /\ \/ /\ position' = [position EXCEPT ![e] = target] /\ result' = result
            /\ agenda' = <<OnAnim("settle", a, TRUE), OnAnim("return", a, FALSE)>> \o Tail(agenda)
         \/ position' = [position EXCEPT ![e] = 0] /\ result' = TRUE /\ agenda' = <<>> \o Tail(agenda)
  <2>1. UNCHANGED <<queue, hooks, anims, timers, delays, finishing, promises, calls, hash, last>>
    BY DEF Tick
  <2>2. lag' = IF lag = -1 THEN 0 ELSE lag
    BY <1>3, <1>4 DEF Tick, ReadTime
  <2> QED BY <1>3, <1>4, <2>1, <2>2 DEF Tick, AtEnd, Between, ScrollTo, Then
<1>6. QueuesOk' /\ HooksOk' /\ AnimsOk' /\ RestOk' /\ PageOk' /\ Alike
  <2>1. position' \in [Elems -> Nat]
    BY <1>1, <1>5 DEF PageOk
  <2>2. QueuesOk' /\ HooksOk' /\ PageOk'
    BY <1>1, <1>5, <2>1 DEF QueuesOk, HooksOk, PageOk
  <2>3. AnimsOk' /\ Alike
    BY <1>1, <1>5, AlikeIs
  <2>4. lag' \in Int
    BY <1>4, <1>5
  <2>5. result' \in BOOLEAN
    BY <1>1, <1>5 DEF RestOk
  <2>6. RestOk'
    BY <1>1, <1>5, <2>4, <2>5 DEF RestOk
  <2> QED BY <2>2, <2>3, <2>6
<1>7. Tail(agenda) \in Seq(Doings)
  BY <1>1, <1>2, TailIs
<1>8. anims[a].state = "pending" /\ Driven(e)
  BY <1>2 DEF Even, Timely, Driven, Drives
<1>9. Even(N, {}, {}, {})'
  <2>1. \A f \in Elems \ {} : Untouched(f)
    BY <1>1, <1>5, <1>8 DEF Untouched, PageOk
  <2>2. Timely({}, {}) /\ \A f \in Elems \ {} : Fine(f, N)
    BY <1>2 DEF Even
  <2>3. \A f \in Elems : hooks'[f].cur = hooks[f].cur \/ ~Driven(f)
    BY <1>5
  <2>4. Timely({}, {})' /\ (\A f \in Elems \ ({} \cup {}) : Fine(f, N)') /\ \A f \in Elems : Driven(f)' <=> Driven(f)
    BY <1>1, <1>5, <1>6, <2>1, <2>2, <2>3, EvenKept
  <2> QED BY <2>4 DEF Even
<1>10. Addressed(N)' /\ Place(a, i)'
  BY <1>2, <1>5 DEF Addressed, Owed, Place
<1>11. CASE position' = [position EXCEPT ![e] = 0] /\ result' = TRUE /\ agenda' = <<>> \o Tail(agenda)
  <2>1. agenda' = Tail(agenda) /\ agenda' \in Seq(Doings)
    BY <1>7, <1>11, NoneFirst
  <2>2. Ends(agenda', AfterTick(a, i))
    BY <1>2, <2>1
  <2>3. AtAfter(a, i)'
    BY <1>9, <1>10, <1>11, <2>2 DEF AtAfter, Ends, Starts
  <2> QED BY <1>6, <2>1, <2>3 DEF Typed
<1>12. CASE /\ position' = [position EXCEPT ![e] = target]
            /\ agenda' = <<OnAnim("settle", a, TRUE), OnAnim("return", a, FALSE)>> \o Tail(agenda)
  <2> DEFINE x == OnAnim("settle", a, TRUE)
             y == OnAnim("return", a, FALSE)
             t == Tail(agenda)
             s == <<y>> \o t
             u == <<x, y>> \o t
  <2>1. x \in Doings /\ y \in Doings
    <3>1. a \in Nat
      OBVIOUS
    <3> QED BY <3>1, DoingsAre
  <2> HIDE DEF x, y
  <2>2. u \in Seq(Doings) /\ Starts(u, x) /\ Follows(u, s) /\ Starts(s, y) /\ Follows(s, t)
    <3>1. t \in Seq(Doings)
      BY <1>7
    <3> HIDE DEF t
    <3> QED BY <2>1, <3>1, TwoFirst
  <2>3. agenda' = u
    BY <1>12 DEF x, y
  <2>4. Ends(t, AfterTick(a, i))
    BY <1>2
  <2> HIDE DEF s, t, u
  <2>5. agenda' \in Seq(Doings) /\ Starts(agenda', x) /\ Returning(Tail(agenda'), a, i)
    BY <2>2, <2>3, <2>4 DEF Follows, Returning, y
  <2>6. position'[e] = target
    BY <1>1, <1>12 DEF PageOk
  <2>7. AtSettle(a, i)'
    BY <1>5, <1>9, <1>10, <2>5, <2>6 DEF AtSettle, Returning, Ends, Starts, x
  <2> QED BY <1>6, <2>5, <2>7 DEF Typed
<1> QED BY <1>5, <1>11, <1>12

\* Settle: its element is driven no more, and its complete function is called.
LEMMA SettleStep ==
  ASSUME Typed, NEW a \in 1 .. Len(anims), NEW i \in 1 .. Len(timers), AtSettle(a, i), Settle
  PROVE  Typed' /\ \E r \in Seq(Doings) : Stage(r, N, {a})' /\ AtComplete(a, r, N, {a})'
<1>1. QueuesOk /\ HooksOk /\ AnimsOk /\ RestOk /\ PageOk /\ agenda \in Seq(Doings)
  BY DEF Typed
<1>2. /\ agenda # <<>> /\ Head(agenda) = OnAnim("settle", a, TRUE) /\ Returning(Tail(agenda), a, i)
      /\ timers[i] = a /\ Even(N, {}, {}, {}) /\ position[anims[a].elem] = anims[a].item.target
  BY DEF AtSettle, Starts, Place
<1>3. Now.a = a /\ Now.flag = TRUE
  BY <1>2 DEF Now, OnAnim, Do
<1>4. /\ Len(anims) \in Nat /\ Len(timers) \in Nat /\ (\A j \in 1 .. Len(timers) : timers[j] \in 1 .. Len(anims))
      /\ \A b \in 1 .. Len(anims) : anims[b] \in Anims /\ anims[b].elem \in Elems /\ anims[b].item \in Scrolls
  BY <1>1, AnimFacts
<1> PICK e \in Elems : e = anims[a].elem
  BY <1>4
<1> PICK r \in Seq(Doings) : r = Tail(agenda)
  BY <1>1, <1>2, TailIs
<1>5. anims[a].item.queued = TRUE /\ anims[a].item.duration = 1
  BY <1>4, ScrollFacts
<1>6. /\ Timely({}, {}) /\ (\A f \in Elems : Fine(f, N))
      /\ anims[a].state = "pending" /\ anims[a].attached /\ anims[a].item = hooks[e].cur /\ Driven(e)
  BY <1>2 DEF Even, Timely, Driven, Drives
<1>7. /\ UNCHANGED <<queue, hooks, timers, lag, delays, finishing, promises, result, calls, position, hash, last>>
      /\ anims' = [anims EXCEPT ![a].state = "resolved", ![a].age = Over(a)]
      /\ agenda' = (<<OnAnim("complete", a, FALSE)>> \o <<>>) \o r
  BY <1>3, <1>5, <1>6 DEF Settle, Then, page, After, Uncount
<1> DEFINE new == [anims[a] EXCEPT !.state = "resolved", !.age = Over(a)]
<1>8. new \in Anims /\ new.elem = anims[a].elem /\ new.item = anims[a].item /\ new.state = "resolved" /\ new.attached = anims[a].attached
  <2>1. anims[a] \in Anims
    BY <1>4
  <2>2. Over(a) \in Int
    BY <1>5 DEF Over, MaxLag
  <2> QED BY <2>1, <2>2 DEF Anims
<1>9. anims' = [anims EXCEPT ![a] = new]
  BY <1>7
<1> HIDE DEF new
<1>10. anims' \in Seq(Anims) /\ Len(anims') = Len(anims) /\ \A b \in 1 .. Len(anims) : anims'[b] = IF b = a THEN new ELSE anims[b]
  <2>1. anims \in Seq(Anims)
    BY <1>1 DEF AnimsOk
  <2> QED BY <1>8, <1>9, <2>1, ExceptSeq
<1>11. /\ \A b \in 1 .. Len(anims) : /\ anims'[b].elem = anims[b].elem /\ anims'[b].item = anims[b].item
                                     /\ anims'[b].attached = anims[b].attached /\ (b # a => anims'[b] = anims[b])
       /\ anims'[a].state = "resolved"
  BY <1>8, <1>10
<1>12. QueuesOk' /\ HooksOk' /\ AnimsOk' /\ RestOk' /\ PageOk'
  BY <1>1, <1>7, <1>10 DEF QueuesOk, HooksOk, AnimsOk, RestOk, PageOk
<1> PICK x \in Doings : x = OnAnim("complete", a, FALSE)
  <2>1. a \in Nat
    OBVIOUS
  <2> QED BY <2>1, DoingsAre
<1>13. agenda' = <<x>> \o r
  <2>1. x \in Doings
    OBVIOUS
  <2>2. <<x>> \in Seq(Doings)
    BY <2>1, Tuples
  <2>3. <<x>> \o <<>> = <<x>>
    BY <2>2, ConcatEmptySeq
  <2> QED BY <1>7, <2>3
<1>14. agenda' \in Seq(Doings) /\ Before(x, r)'
  BY <1>13, OneFirst
<1>15. Typed'
  BY <1>12, <1>14 DEF Typed
<1>16. Stage(r, N, {a})'
  <2>1. a \in 1 .. Len(anims') /\ i \in 1 .. Len(timers') /\ Place(a, i)'
    BY <1>2, <1>7, <1>10 DEF Place
  <2>2. Returning(r, a, i)
    BY <1>2
  <2>3. Later(r, N, {a})'
    BY <1>11, <2>1, <2>2 DEF Later, Returning, Ends, Starts
  <2> QED BY <2>1, <2>3, ElemsAre DEF Stage
<1>17. /\ \A j \in 1 .. Len(timers) : \A f \in Elems : Drives(j, f)' <=> (j # i /\ Drives(j, f))
       /\ \A f \in Elems : Driven(f)' <=> (f # e /\ Driven(f))
  <2>1. \A j \in 1 .. Len(timers) : timers[j] = a => j = i
    BY <1>2, <1>6 DEF Timely
  <2>2. ASSUME NEW j \in 1 .. Len(timers), NEW f \in Elems PROVE Drives(j, f)' <=> (j # i /\ Drives(j, f))
    BY <1>2, <1>4, <1>7, <1>11, <2>1 DEF Drives
  <2>3. Drives(i, e)
    BY <1>2, <1>6 DEF Drives
  <2>4. \A j \in 1 .. Len(timers) : \A f \in Elems : Drives(j, f) => (j = i <=> f = e)
    BY <1>2, <1>6, <2>3 DEF Timely, Drives
  <2>5. \A f \in Elems : Driven(f)' <=> (f # e /\ Driven(f))
    BY <1>7, <2>2, <2>3, <2>4 DEF Driven
  <2> QED BY <2>2, <2>5
<1>18. Timely({a}, {})'
  <2>1. \A j, l \in 1 .. Len(timers') : timers'[j] = timers'[l] => j = l
    BY <1>6, <1>7 DEF Timely
  <2>2. ASSUME NEW j \in 1 .. Len(timers')
        PROVE  LET anim == anims'[timers'[j]]
               IN  /\ timers'[j] \in {a} \/ anim.state = "pending"
                   /\ anim.state = "pending" => anim.item = hooks'[anim.elem].cur /\ (anim.attached \/ timers'[j] \in {})
    <3>1. j \in 1 .. Len(timers) /\ timers'[j] = timers[j] /\ timers[j] \in 1 .. Len(anims)
      BY <1>4, <1>7
    <3>2. anims[timers[j]].state = "pending" /\ anims[timers[j]].item = hooks[anims[timers[j]].elem].cur /\ anims[timers[j]].attached
      BY <1>6, <3>1 DEF Timely
    <3> QED BY <1>7, <1>11, <3>1, <3>2
  <2>3. ASSUME NEW j \in 1 .. Len(timers'), NEW l \in 1 .. Len(timers'), NEW f \in Elems, Drives(j, f)', Drives(l, f)' PROVE j = l
    BY <1>6, <1>7, <1>17, <2>3 DEF Timely
  <2> QED BY <2>1, <2>2, <2>3 DEF Timely
<1>19. Even(N, {a}, {e}, {})'
  <2>1. ASSUME NEW f \in Elems \ {e} PROVE Fine(f, N)'
    <3>1. Fine(f, N) /\ (Busy(f)' <=> Busy(f)) /\ (Goal(f)' <=> Goal(f)) /\ (Driven(f)' <=> Driven(f))
      BY <1>6, <1>7, <1>17 DEF Busy, Goal, Leads
    <3> QED BY <1>7, <3>1 DEF Fine
  <2> QED BY <1>17, <1>18, <2>1 DEF Even
<1>20. Busy(e) /\ Goal(e)
  BY <1>6, ElemsAre DEF Fine
<1>21. Left(e) = Tail(queue[e].items) /\ Left(e)' = Left(e) /\ Busy(e)'
  BY <1>7, <1>20 DEF Left, Busy
<1>22. IF Left(e) = <<>> THEN position[e] = last /\ anims[a].item.target = last ELSE Leads(e, Left(e))
  BY <1>2, <1>6, <1>20, <1>21 DEF Goal
<1>23. AtComplete(a, r, N, {a})'
  <2>1. anims'[a].elem = e /\ anims'[a].item = anims[a].item
    BY <1>11
  <2> QED BY <1>7, <1>14, <1>19, <1>21, <1>22, <2>1 DEF AtComplete, Leads
<1> QED BY <1>15, <1>16, <1>23

\* RemoveAt removes one element of a sequence.
LEMMA RemoveIs ==
  ASSUME NEW S, NEW s \in Seq(S), NEW i \in 1 .. Len(s)
  PROVE  /\ RemoveAt(s, i) \in Seq(S) /\ Len(RemoveAt(s, i)) = Len(s) - 1
         /\ \A j \in 1 .. Len(s) - 1 : RemoveAt(s, i)[j] = IF j < i THEN s[j] ELSE s[j + 1]
<1> DEFINE u == SubSeq(s, 1, i - 1)
           v == SubSeq(s, i + 1, Len(s))
<1>0. Len(s) \in Nat
  BY LenProperties
<1>1. u \in Seq(S) /\ Len(u) = i - 1 /\ \A j \in 1 .. i - 1 : u[j] = s[j]
  <2>1. \A j \in 1 .. i - 1 : s[j] \in S
    BY <1>0, ElementOfSeq
  <2>2. 1 \in Int /\ i - 1 \in Int
    BY <1>0
  <2>3. /\ u \in Seq(S) /\ Len(u) = IF 1 <= i - 1 THEN (i - 1) - 1 + 1 ELSE 0
        /\ \A j \in 1 .. (i - 1) - 1 + 1 : u[j] = s[1 + j - 1]
    BY <2>1, <2>2, SubSeqProperties
  <2> HIDE DEF u
  <2> QED BY <1>0, <2>3
<1>2. v \in Seq(S) /\ Len(v) = Len(s) - i /\ \A j \in 1 .. Len(s) - i : v[j] = s[i + j]
  <2>1. \A j \in i + 1 .. Len(s) : s[j] \in S
    BY <1>0, ElementOfSeq
  <2>2. i + 1 \in Int /\ Len(s) \in Int
    BY <1>0
  <2>3. /\ v \in Seq(S) /\ Len(v) = IF i + 1 <= Len(s) THEN Len(s) - (i + 1) + 1 ELSE 0
        /\ \A j \in 1 .. Len(s) - (i + 1) + 1 : v[j] = s[i + 1 + j - 1]
    BY <2>1, <2>2, SubSeqProperties
  <2> HIDE DEF v
  <2> QED BY <1>0, <2>3
<1> HIDE DEF u, v
<1>3. /\ u \o v \in Seq(S) /\ Len(u \o v) = Len(s) - 1
      /\ \A j \in 1 .. Len(s) - 1 : (u \o v)[j] = IF j <= i - 1 THEN u[j] ELSE v[j - (i - 1)]
  <2>1. /\ u \o v \in Seq(S) /\ Len(u \o v) = Len(u) + Len(v)
        /\ \A j \in 1 .. Len(u) + Len(v) : (u \o v)[j] = IF j <= Len(u) THEN u[j] ELSE v[j - Len(u)]
    BY <1>1, <1>2, ConcatProperties
  <2>2. Len(u) + Len(v) = Len(s) - 1
    BY <1>0, <1>1, <1>2
  <2> QED BY <1>1, <2>1, <2>2
<1>4. ASSUME NEW j \in 1 .. Len(s) - 1 PROVE (u \o v)[j] = IF j < i THEN s[j] ELSE s[j + 1]
  <2>1. CASE j < i
    BY <1>0, <1>1, <1>3, <2>1
  <2>2. CASE ~(j < i)
    <3>1. j - (i - 1) \in 1 .. Len(s) - i /\ i + (j - (i - 1)) = j + 1 /\ ~(j <= i - 1)
      BY <1>0, <2>2
    <3>2. (u \o v)[j] = v[j - (i - 1)] /\ v[j - (i - 1)] = s[i + (j - (i - 1))]
      BY <1>2, <1>3, <3>1
    <3> QED BY <2>2, <3>1, <3>2
  <2> QED BY <2>1, <2>2
<1> QED BY <1>3, <1>4 DEF RemoveAt, u, v

\* AfterTimer: the timer is still at its place and is removed if it is dead, and the others
\* still drive what they did.
LEMMA AfterTimerStep ==
  ASSUME Typed, NEW a \in 1 .. Len(anims), NEW i \in 1 .. Len(timers), AtAfter(a, i), AfterTimer
  PROVE  Typed' /\ \E j \in Nat \ {0} : AtFrame(j)'
<1>1. QueuesOk /\ HooksOk /\ AnimsOk /\ RestOk /\ PageOk
  BY DEF Typed
<1>2. /\ Head(agenda) = AfterTick(a, i) /\ Tail(agenda) = <<>> /\ timers[i] = a /\ Addressed(N)
      /\ \/ result /\ Even(N, {}, {}, {})
         \/ ~result /\ anims[a].state # "pending" /\ Even(N, {a}, {}, {})
  BY DEF AtAfter, Ends, Starts, Place
<1>3. Now.a = a /\ Now.i = i
  BY <1>2 DEF Now, AfterTick, Do
<1>4. StillThere(a, i)
  <2>1. DOMAIN timers = 1 .. Len(timers)
    BY <1>1, LenProperties DEF AnimsOk
  <2> QED BY <1>2, <2>1 DEF StillThere
<1>5. /\ UNCHANGED <<queue, hooks, anims, lag, delays, finishing, promises, result, calls, position, hash, last>>
      /\ result => timers' = timers /\ agenda' = <<FrameAt(i + 1)>> \o <<>>
      /\ ~result => timers' = RemoveAt(timers, i) /\ agenda' = <<FrameAt(i)>> \o <<>>
  BY <1>2, <1>3, <1>4 DEF AfterTimer, Then, page, FrameAt
<1>6. ASSUME NEW j \in Nat \ {0}, agenda' = <<FrameAt(j)>> \o <<>> PROVE agenda' \in Seq(Doings) /\ Ends(agenda', FrameAt(j))
  <2> PICK x \in Doings : x = FrameAt(j)
    BY DoingsAre
  <2> PICK t \in Seq(Doings) : t = <<>>
    BY EmptySeq
  <2>1. agenda' = <<x>> \o t
    BY <1>6
  <2>2. agenda' \in Seq(Doings) /\ Before(x, t)'
    BY <2>1, OneFirst
  <2> QED BY <2>2 DEF Before, Ends, Starts
<1>7. Addressed(N)'
  BY <1>2, <1>5 DEF Addressed, Owed
<1>8. QueuesOk' /\ HooksOk' /\ RestOk' /\ PageOk'
  BY <1>1, <1>5 DEF QueuesOk, HooksOk, RestOk, PageOk
<1>9. Len(timers) \in Nat /\ i \in Nat \ {0} /\ i + 1 \in Nat \ {0} /\ \A j \in 1 .. Len(timers) : timers[j] \in 1 .. Len(anims)
  BY <1>1, AnimFacts
<1>10. CASE result
  <2>1. agenda' \in Seq(Doings) /\ Ends(agenda', FrameAt(i + 1))
    BY <1>5, <1>6, <1>9, <1>10
  <2>2. AnimsOk' /\ Even(N, {}, {}, {})'
    BY <1>1, <1>2, <1>5, <1>10, CalmKept
  <2>3. AtFrame(i + 1)'
    BY <1>7, <2>1, <2>2 DEF AtFrame, Ends, Starts
  <2> QED BY <1>8, <1>9, <2>1, <2>2, <2>3 DEF Typed
<1>11. CASE ~result
  <2>1. agenda' \in Seq(Doings) /\ Ends(agenda', FrameAt(i))
    BY <1>5, <1>6, <1>9, <1>11
  <2>2. anims[a].state # "pending" /\ Timely({a}, {}) /\ \A f \in Elems : Fine(f, N)
    BY <1>2, <1>11 DEF Even
  <2>3. /\ timers' \in Seq(1 .. Len(anims)) /\ Len(timers') = Len(timers) - 1
        /\ \A j \in 1 .. Len(timers) - 1 : timers'[j] = IF j < i THEN timers[j] ELSE timers[j + 1]
    <3>1. timers \in Seq(1 .. Len(anims))
      BY <1>1 DEF AnimsOk
    <3> QED BY <1>5, <1>11, <3>1, RemoveIs
  <2> DEFINE Was(j) == IF j < i THEN j ELSE j + 1
  <2>4. /\ \A j \in 1 .. Len(timers') : Was(j) \in 1 .. Len(timers) /\ Was(j) # i /\ timers'[j] = timers[Was(j)]
        /\ \A j, l \in 1 .. Len(timers') : Was(j) = Was(l) => j = l
    BY <1>9, <2>3
  <2>5. \A l \in 1 .. Len(timers) : l # i => \E j \in 1 .. Len(timers') : Was(j) = l
    <3>1. \A l \in 1 .. Len(timers) : l < i => l \in 1 .. Len(timers') /\ Was(l) = l
      BY <1>9, <2>3
    <3>2. \A l \in 1 .. Len(timers) : l > i => l - 1 \in 1 .. Len(timers') /\ Was(l - 1) = l
      BY <1>9, <2>3
    <3>3. \A l \in 1 .. Len(timers) : l # i => l < i \/ l > i
      BY <1>9
    <3> HIDE DEF Was
    <3> QED BY <3>1, <3>2, <3>3
  <2> HIDE DEF Was
  <2>6. \A j \in 1 .. Len(timers') : \A f \in Elems : Drives(j, f)' <=> Drives(Was(j), f)
    BY <1>5, <2>4 DEF Drives
  <2>7. \A f \in Elems : ~Drives(i, f)
    BY <1>2, <2>2 DEF Drives
  <2>8. \A f \in Elems : Driven(f)' <=> Driven(f)
    BY <2>4, <2>5, <2>6, <2>7 DEF Driven
  <2>9. Timely({}, {})'
    <3>1. ASSUME NEW j \in 1 .. Len(timers'), NEW l \in 1 .. Len(timers'), timers'[j] = timers'[l] PROVE j = l
      BY <2>2, <2>4, <3>1 DEF Timely
    <3>2. ASSUME NEW j \in 1 .. Len(timers')
          PROVE  LET anim == anims'[timers'[j]]
                 IN  /\ timers'[j] \in {} \/ anim.state = "pending"
                     /\ anim.state = "pending" => anim.item = hooks'[anim.elem].cur /\ (anim.attached \/ timers'[j] \in {})
      <4>1. PICK l \in 1 .. Len(timers) : l # i /\ timers'[j] = timers[l]
        BY <2>4
      <4>2. timers[l] # a
        BY <1>2, <2>2, <4>1 DEF Timely
      <4>3. anims[timers[l]].state = "pending" /\ anims[timers[l]].item = hooks[anims[timers[l]].elem].cur /\ anims[timers[l]].attached
        BY <2>2, <4>2 DEF Timely
      <4> QED BY <1>5, <4>1, <4>3
    <3>3. ASSUME NEW j \in 1 .. Len(timers'), NEW l \in 1 .. Len(timers'), NEW f \in Elems, Drives(j, f)', Drives(l, f)' PROVE j = l
      BY <2>2, <2>4, <2>6, <3>3 DEF Timely
    <3> QED BY <3>1, <3>2, <3>3 DEF Timely
  <2>10. ASSUME NEW f \in Elems PROVE Fine(f, N)'
    <3>1. Fine(f, N) /\ (Busy(f)' <=> Busy(f)) /\ (Goal(f)' <=> Goal(f)) /\ (Driven(f)' <=> Driven(f))
      BY <1>5, <2>2, <2>8 DEF Busy, Goal, Leads
    <3> QED BY <1>5, <3>1 DEF Fine
  <2>11. Even(N, {}, {}, {})'
    BY <2>9, <2>10 DEF Even
  <2>12. AtFrame(i)'
    BY <1>7, <2>1, <2>11 DEF AtFrame, Ends, Starts
  <2>13. AnimsOk'
    BY <1>1, <1>5, <2>3 DEF AnimsOk
  <2> QED BY <1>8, <1>9, <2>1, <2>12, <2>13 DEF Typed
<1> QED BY <1>10, <1>11 DEF RestOk

----------
(* The steps that wait until no code runs.                                 *)

\* Whenever no code runs, all elements are fine.
Rests == agenda = <<>> /\ Even(N, {}, {}, {}) /\ Addressed(N)

\* Then nothing comes later.
LEMMA RestsIs ==
  ASSUME AnimsOk, NEW k, NEW dead, Stage(<<>>, k, dead), AtRest(<<>>, k, dead)
  PROVE  Rests
<1>1. ~\E a, i : Returning(<<>>, a, i)
  BY DEF Returning, Starts
<1>2. Clicks(<<>>, k) /\ dead = {} /\ k \in 0 .. N
  BY <1>1 DEF Stage, Later
<1>3. k = N
  BY <1>2, AllReached
<1> QED BY <1>2, <1>3 DEF AtRest, Rests

\* It stays so if elements, animations and the page stay.
LEMMA RestsAgain ==
  ASSUME AnimsOk, Rests, UNCHANGED <<queue, anims, timers, position, hash, last>>,
         \A e \in Elems : hooks'[e].cur = hooks[e].cur
  PROVE  /\ Even(N, {}, {}, {})' /\ Addressed(N)' /\ (agenda' = <<>> => AtRest(<<>>, N, {})')
         /\ Stage(<<>>, N, {})' /\ AnimsOk'
<1>1. Even(N, {}, {}, {})' /\ Addressed(N)' /\ AnimsOk'
  BY CalmKept DEF Rests
<1> QED BY <1>1, AllReached DEF AtRest

\* IntervalTick begins a frame.
LEMMA IntervalTickStep ==
  ASSUME Typed, Rests, IntervalTick
  PROVE  Typed' /\ AtFrame(1)'
<1>1. /\ UNCHANGED <<queue, hooks, anims, timers, delays, finishing, promises, result, calls, position, hash, last>>
      /\ lag' = 0 /\ agenda' = <<FrameAt(1)>>
  BY DEF IntervalTick, page, FrameAt
<1>2. QueuesOk' /\ HooksOk' /\ AnimsOk' /\ RestOk' /\ PageOk' /\ AnimsOk
  <2>1. QueuesOk /\ HooksOk /\ AnimsOk /\ RestOk /\ PageOk
    BY DEF Typed
  <2>2. QueuesOk' /\ HooksOk' /\ AnimsOk'
    BY <1>1, <2>1 DEF QueuesOk, HooksOk, AnimsOk
  <2>3. RestOk' /\ PageOk'
    BY <1>1, <2>1 DEF RestOk, PageOk
  <2> QED BY <2>1, <2>2, <2>3
<1> PICK x \in Doings : x = FrameAt(1)
  BY DoingsAre
<1> PICK t \in Seq(Doings) : t = <<>>
  BY EmptySeq
<1>3. <<x>> \o t = <<x>>
  <2>1. <<x>> \in Seq(Doings)
    BY Tuples
  <2> QED BY <2>1, ConcatEmptySeq
<1>4. agenda' \in Seq(Doings) /\ Before(x, t)'
  BY <1>1, <1>3, OneFirst
<1>5. Even(N, {}, {}, {})' /\ Addressed(N)'
  BY <1>1, <1>2, RestsAgain
<1>6. AtFrame(1)'
  BY <1>4, <1>5 DEF AtFrame, Ends, Starts, Before
<1> QED BY <1>2, <1>4, <1>6 DEF Typed

\* ResetTime changes only fxNow.
LEMMA ResetTimeStep ==
  ASSUME Typed, Rests, ResetTime
  PROVE  Typed' /\ Stage(<<>>, N, {})' /\ AtRest(<<>>, N, {})'
<1>1. /\ UNCHANGED <<queue, hooks, anims, timers, delays, finishing, promises, result, calls, position, hash, last, agenda>>
      /\ lag' = -1 /\ agenda = <<>>
  BY DEF ResetTime, page, Idle
<1>2. QueuesOk /\ HooksOk /\ AnimsOk /\ RestOk /\ PageOk /\ agenda \in Seq(Doings)
  BY DEF Typed
<1>3. QueuesOk' /\ HooksOk' /\ AnimsOk' /\ agenda' \in Seq(Doings)
  BY <1>1, <1>2 DEF QueuesOk, HooksOk, AnimsOk
<1>4. RestOk' /\ PageOk'
  BY <1>1, <1>2 DEF RestOk, PageOk
<1> QED BY <1>1, <1>2, <1>3, <1>4, RestsAgain DEF Typed

\* TimePasses makes animations older, none of them another one.
LEMMA TimePassesStep ==
  ASSUME Typed, Rests, TimePasses
  PROVE  Typed' /\ Stage(<<>>, N, {})' /\ AtRest(<<>>, N, {})'
<1>1. QueuesOk /\ HooksOk /\ AnimsOk /\ RestOk /\ PageOk /\ agenda \in Seq(Doings)
  BY DEF Typed
<1>2. /\ UNCHANGED <<queue, hooks, timers, delays, finishing, promises, result, calls, position, hash, last, agenda>>
      /\ lag' = (IF lag = -1 THEN lag ELSE lag + 1) /\ agenda = <<>>
      /\ anims' = [a \in DOMAIN anims |-> IF anims[a].state = "pending" /\ anims[a].age < Over(a)
                                          THEN [anims[a] EXCEPT !.age = @ + 1] ELSE anims[a]]
  BY DEF TimePasses, page, Idle
<1>3. anims \in Seq(Anims) /\ Len(anims) \in Nat /\ DOMAIN anims = 1 .. Len(anims)
  BY <1>1, LenProperties DEF AnimsOk
<1>4. ASSUME NEW a \in 1 .. Len(anims)
      PROVE  /\ anims'[a] \in Anims /\ anims'[a].elem = anims[a].elem /\ anims'[a].item = anims[a].item
             /\ anims'[a].state = anims[a].state /\ anims'[a].attached = anims[a].attached
  <2> DEFINE older == [anims[a] EXCEPT !.age = @ + 1]
  <2>1. anims[a] \in Anims /\ anims[a].age \in Int
    BY <1>1, AnimFacts
  <2>1a. anims[a].age + 1 \in Int
    BY <2>1
  <2>2. older \in Anims /\ older.elem = anims[a].elem /\ older.item = anims[a].item
        /\ older.state = anims[a].state /\ older.attached = anims[a].attached
    BY <2>1, <2>1a DEF Anims
  <2>3. anims'[a] = older \/ anims'[a] = anims[a]
    BY <1>2, <1>3
  <2> HIDE DEF older
  <2> QED BY <2>1, <2>2, <2>3
<1>5. anims' \in Seq(Anims) /\ Len(anims') = Len(anims)
  <2> DEFINE f(a) == IF anims[a].state = "pending" /\ anims[a].age < Over(a)
                     THEN [anims[a] EXCEPT !.age = @ + 1] ELSE anims[a]
  <2>1. anims' = [a \in 1 .. Len(anims) |-> f(a)]
    BY <1>2, <1>3
  <2>2. \A a \in 1 .. Len(anims) : f(a) \in Anims
    BY <1>4, <2>1
  <2> HIDE DEF f
  <2>3. [a \in 1 .. Len(anims) |-> f(a)] \in Seq(Anims)
    BY <1>3, <2>2, IsASeq
  <2>4. DOMAIN anims' = 1 .. Len(anims)
    BY <2>1
  <2> QED BY <1>3, <2>1, <2>3, <2>4, LenProperties
<1>6. AnimsOk' /\ Alike
  BY <1>1, <1>2, <1>4, <1>5 DEF AnimsOk, Alike
<1>7. lag' \in Int
  BY <1>1, <1>2 DEF RestOk
<1>8. Typed'
  BY <1>1, <1>2, <1>6, <1>7 DEF Typed, QueuesOk, HooksOk, RestOk, PageOk
<1>9. Even(N, {}, {}, {})'
  <2>1. \A e \in Elems \ {} : Untouched(e)
    BY <1>2 DEF Untouched
  <2>2. Timely({}, {}) /\ \A e \in Elems \ {} : Fine(e, N)
    BY DEF Even, Rests
  <2>3. Timely({}, {})' /\ (\A e \in Elems \ ({} \cup {}) : Fine(e, N)') /\ \A e \in Elems : Driven(e)' <=> Driven(e)
    BY <1>1, <1>2, <1>6, <2>1, <2>2, EvenKept
  <2> QED BY <2>3 DEF Even
<1>10. Addressed(N)'
  BY <1>2 DEF Rests, Addressed, Owed
<1>11. Stage(<<>>, N, {})'
  BY <1>1, AllReached
<1> QED BY <1>2, <1>8, <1>9, <1>10, <1>11 DEF AtRest

\* Script asks for a promise.
LEMMA ScriptStep ==
  ASSUME Typed, Rests, Script, meddled' = {}
  PROVE  Typed' /\ Stage(<<>>, N, {})' /\ AtPromise(<<>>, N, {})'
<1>1. QueuesOk /\ HooksOk /\ AnimsOk /\ RestOk /\ PageOk
  BY DEF Typed
<1> PICK t \in Seq(Doings) : t = <<>>
  BY EmptySeq
<1> PICK x \in Doings : x = OnElem("promise", 0)
  BY DoingsAre, ElemsAre
<1>2. /\ agenda' = <<x>> \o t /\ RestOk' /\ UNCHANGED <<queue, hooks, anims, timers, position, hash, last>>
  BY <1>1, PromiseCalled DEF Script
<1>3. agenda' \in Seq(Doings) /\ Before(x, t)'
  BY <1>2, OneFirst
<1>4. Even(N, {}, {}, {})' /\ Addressed(N)' /\ Stage(<<>>, N, {})'
  BY <1>1, <1>2, RestsAgain
<1>5. Typed'
  BY <1>1, <1>2, <1>3 DEF Typed, QueuesOk, HooksOk, AnimsOk, PageOk
<1> QED BY <1>3, <1>4, <1>5 DEF AtPromise, Before, Starts

\* There is no delay that could be over.
LEMMA NoDelayOver == ASSUME Typed PROVE ~DelayOver
<1>1. \A e \in Elems : hooks[e].stop = FALSE
  BY HookFacts DEF Typed
<1>2. \A e \in Elems : delays[e] = 0
  BY DEF Typed, RestOk
<1> QED BY <1>1, <1>2 DEF DelayOver

\* What a click wants of an element.
LEMMA QueueThing ==
  ASSUME NEW item \in Scrolls, NEW i \in Nat
  PROVE  OnItem("queue", i, item) \in Doings /\ OnItem("queue", i, item).item = item
BY DoingsAre

\* LinkClick: it has reached no element yet, so that all are still fine.
LEMMA ClickStep ==
  ASSUME Typed, Rests, LinkClick
  PROVE  Typed' /\ \E r \in Seq(Doings) : \E k \in 0 .. N : Stage(r, k, {})' /\ AtRest(r, k, {})'
<1>1. QueuesOk /\ HooksOk /\ AnimsOk /\ RestOk /\ PageOk
  BY DEF Typed
<1>2. /\ UNCHANGED <<queue, hooks, anims, timers, lag, delays, finishing, promises, result, position, hash>>
      /\ calls' = calls + 1 /\ calls' \in Nat
  BY <1>1 DEF LinkClick, fx, RestOk
<1>3. QueuesOk' /\ HooksOk' /\ AnimsOk' /\ RestOk'
  BY <1>1, <1>2 DEF QueuesOk, HooksOk, AnimsOk, RestOk
<1> PICK t \in Targets :
      LET Scroll(e) == OnItem("queue", e, Anim(calls', t, LinkDuration, TRUE))
      IN  /\ agenda' = IF t = 0 THEN <<>> ELSE ForElems(Elems, Scroll)
          /\ last' = IF t = 0 THEN last ELSE t
  BY DEF LinkClick
<1>4. CASE t = 0
  <2>1. agenda' = <<>> /\ last' = last
    BY <1>4
  <2>2. AtRest(<<>>, N, {})' /\ Stage(<<>>, N, {})'
    BY <1>1, <1>2, <2>1, RestsAgain
  <2>3. <<>> \in Seq(Doings)
    BY <1>1, AllReached
  <2>4. Typed'
    BY <1>1, <1>2, <1>3, <2>1, <2>3 DEF Typed, PageOk
  <2>5. N \in 0 .. N
    BY ElemsAre
  <2> QED BY <2>5, <2>4, <2>3, <2>2
<1>5. CASE t # 0
  <2>0. t \in Nat \ {0}
    BY <1>5, CallsAssumption
  <2> PICK item \in Scrolls : item = Anim(calls', t, LinkDuration, TRUE) /\ item.target = t
    <3>1. Anim(calls', t, LinkDuration, TRUE) \in Scrolls /\ Anim(calls', t, LinkDuration, TRUE).target = t
      BY <1>2, <2>0 DEF Anim, Scrolls
    <3> QED BY <3>1
  <2>1. last' = t /\ agenda' = [i \in 1 .. N |-> OnItem("queue", Nth(Elems, i), item)]
    <3> DEFINE Scroll(e) == OnItem("queue", e, Anim(calls', t, LinkDuration, TRUE))
    <3>1. agenda' = ForElems(Elems, Scroll)
      BY <1>5
    <3>2. ForElems(Elems, Scroll) = [i \in 1 .. N |-> OnItem("queue", Nth(Elems, i), item)]
      BY DEF ForElems, N
    <3> QED BY <1>5, <3>1, <3>2
  <2>2. agenda' = [i \in 1 .. N |-> OnItem("queue", i, item)]
    BY <2>1, NthIs, ElemsAre
  <2>3. \A i \in 1 .. N : OnItem("queue", i, item) \in Doings /\ OnItem("queue", i, item).item = item
    <3>1. ASSUME NEW i \in 1 .. N PROVE i \in Nat
      BY ElemsAre
    <3> QED BY <3>1, QueueThing
  <2>4. N \in Nat \ {0}
    BY ElemsAre
  <2> PICK s : s = agenda'
    OBVIOUS
  <2> DEFINE f(i) == OnItem("queue", i, item)
  <2>5. s = [i \in 1 .. N |-> f(i)]
    BY <2>2
  <2>6. \A i \in 1 .. N : s[i] = OnItem("queue", i, s[i].item) /\ s[i].item = item
    BY <2>3, <2>5
  <2>7. s \in Seq(Doings) /\ Len(s) = N
    <3>1. \A i \in 1 .. N : f(i) \in Doings
      BY <2>3
    <3> HIDE DEF f
    <3>2. s \in Seq(Doings)
      BY <2>4, <2>5, <3>1, IsASeq
    <3>3. DOMAIN s = 1 .. N
      BY <2>5
    <3> QED BY <2>4, <3>2, <3>3, LenProperties
  <2>8. Clicks(s, 0)'
    <3>1. N - 0 = N /\ \A i \in 1 .. N : 0 + i = i
      BY <2>4
    <3>2. \A i \in 1 .. N : s[i] = OnItem("queue", 0 + i, s[i].item) /\ s[i].item \in Scrolls /\ s[i].item.target = last'
      BY <2>1, <2>6, <3>1
    <3> QED BY <2>7, <3>1, <3>2 DEF Clicks
  <2>9. 0 \in 0 .. N
    BY <2>4
  <2>9a. Stage(s, 0, {})'
    <3>1. Later(s, 0, {})'
      BY <2>8 DEF Later
    <3> QED BY <2>7, <2>9, <3>1 DEF Stage
  <2>10. Even(0, {}, {}, {})'
    <3>1. Timely({}, {})' /\ \A e \in Elems : Driven(e)' <=> Driven(e)
      BY <1>2 DEF Rests, Even, Timely, Driven, Drives
    <3>2. ASSUME NEW e \in Elems PROVE Fine(e, 0)'
      <4>1. Fine(e, N) /\ ~(e <= 0)
        BY ElemsAre DEF Rests, Even
      <4> QED BY <1>2, <3>1, <4>1 DEF Fine, Busy
    <3> QED BY <3>1, <3>2 DEF Even
  <2>11. AtRest(s, 0, {})'
    BY <2>4, <2>10 DEF AtRest, Addressed, Owed
  <2>12. Typed'
    BY <1>1, <1>2, <1>3, <2>0, <2>1, <2>7 DEF Typed, PageOk
  <2> QED BY <2>7, <2>9, <2>9a, <2>11, <2>12
<1> QED BY <1>4, <1>5

----------
(* Every step.                                                             *)

\* What a thing says is to be done.
LEMMA DosAre ==
  /\ \A what, e : OnElem(what, e).do = what
  /\ \A what, e, item : OnItem(what, e, item).do = what /\ OnItem(what, e, item).item = item
  /\ \A a, i : AfterTick(a, i).do = "after" /\ FrameAt(i).do = "frame"
BY DEF OnElem, OnItem, AfterTick, FrameAt, Do

\* What is to be done decides which action does it.
LEMMA Does ==
  ASSUME Next, agenda # <<>>
  PROVE  Jquery
BY DEF Next, Browser, IntervalTick, DelayOver, ResetTime, TimePasses, Script, LinkClick, Idle

\* What is to be done first decides on the action.
LEMMA DoesWhat ==
  ASSUME Jquery, NEW what, what = Head(agenda).do
  PROVE  /\ agenda # <<>>
         /\ what = "queue" => Enqueue
         /\ what = "dequeue" => Dequeue
         /\ what = "empty" => EmptyFires
         /\ what = "run" => RunDelay \/ RunAnimation
         /\ what = "tick" => Tick
         /\ what = "push" => PushTimer
         /\ what = "attach" => Attach
         /\ what = "made" => Made
         /\ what = "return" => TickReturns
         /\ what = "settle" => Settle
         /\ what = "complete" => Complete
         /\ what = "callback" => Callback
         /\ what = "promise" => Promise
         /\ what = "frame" => Frame
         /\ what = "after" => AfterTimer
<1>1. ASSUME Enqueue PROVE agenda # <<>> /\ what \in {"queue", "clear"}
  BY <1>1 DEF Enqueue, Doing
<1>2. ASSUME Dequeue PROVE agenda # <<>> /\ what = "dequeue"
  BY <1>2 DEF Dequeue, Doing
<1>3. ASSUME EmptyFires PROVE agenda # <<>> /\ what = "empty"
  BY <1>3 DEF EmptyFires, Doing
<1>4. ASSUME RunDelay PROVE agenda # <<>> /\ what = "run"
  BY <1>4 DEF RunDelay, Doing
<1>5. ASSUME RunAnimation PROVE agenda # <<>> /\ what = "run"
  BY <1>5 DEF RunAnimation, Doing
<1>6. ASSUME Tick PROVE agenda # <<>> /\ what = "tick"
  BY <1>6 DEF Tick, Doing
<1>7. ASSUME TickReturns PROVE agenda # <<>> /\ what = "return"
  BY <1>7 DEF TickReturns, Doing
<1>8. ASSUME PushTimer PROVE agenda # <<>> /\ what = "push"
  BY <1>8 DEF PushTimer, Doing
<1>9. ASSUME Settle PROVE agenda # <<>> /\ what = "settle"
  BY <1>9 DEF Settle, Doing
<1>10. ASSUME Attach PROVE agenda # <<>> /\ what = "attach"
  BY <1>10 DEF Attach, Doing
<1>11. ASSUME Made PROVE agenda # <<>> /\ what = "made"
  BY <1>11 DEF Made, Doing
<1>12. ASSUME Complete PROVE agenda # <<>> /\ what = "complete"
  BY <1>12 DEF Complete, Doing
<1>13. ASSUME Uncounted PROVE agenda # <<>> /\ what = "uncount"
  BY <1>13 DEF Uncounted, Doing
<1>14. ASSUME StopAnimation PROVE agenda # <<>> /\ what = "stop"
  BY <1>14 DEF StopAnimation, Doing
<1>15. ASSUME Frame PROVE agenda # <<>> /\ what = "frame"
  BY <1>15 DEF Frame, Doing
<1>16. ASSUME AfterTimer PROVE agenda # <<>> /\ what = "after"
  BY <1>16 DEF AfterTimer, Doing
<1>17. ASSUME Stop PROVE agenda # <<>> /\ what = "stopping"
  BY <1>17 DEF Stop, Doing
<1>18. ASSUME StopLoop PROVE agenda # <<>> /\ what = "stoploop"
  BY <1>18 DEF StopLoop, Doing
<1>19. ASSUME Splice PROVE agenda # <<>> /\ what = "splice"
  BY <1>19 DEF Splice, Doing
<1>20. ASSUME Finish PROVE agenda # <<>> /\ what = "finish"
  BY <1>20 DEF Finish, Doing
<1>21. ASSUME FinishLoop PROVE agenda # <<>> /\ what = "finishloop"
  BY <1>21 DEF FinishLoop, Doing
<1>22. ASSUME FinishItem PROVE agenda # <<>> /\ what = "finishitem"
  BY <1>22 DEF FinishItem, Doing
<1>23. ASSUME Finished PROVE agenda # <<>> /\ what = "finished"
  BY <1>23 DEF Finished, Doing
<1>24. ASSUME Promise PROVE agenda # <<>> /\ what = "promise"
  BY <1>24 DEF Promise, Doing
<1>25. ASSUME Callback PROVE agenda # <<>> /\ what = "callback"
  BY <1>25 DEF Callback, Doing
<1> QED BY <1>1, <1>2, <1>3, <1>4, <1>5, <1>6, <1>7, <1>8, <1>9, <1>10, <1>11, <1>12, <1>13, <1>14, <1>15, <1>16, <1>17, <1>18, <1>19, <1>20, <1>21, <1>22, <1>23, <1>24, <1>25 DEF Jquery

\* What scripts did besides is not forgotten.
LEMMA Meddles ==
  ASSUME Next, meddled' = {}
  PROVE  meddled = {}
<1>1. ASSUME NEW c, NEW rest, ScriptCall(c, rest) PROVE meddled = {}
  BY <1>1 DEF ScriptCall
<1>2. ASSUME Stop PROVE meddled = {}
  <2>1. meddled' = meddled \/ meddled' = meddled \cup {"stranded"}
    BY <1>2 DEF Stop
  <2> QED BY <2>1
<1>3. ASSUME Callback PROVE meddled = {}
  BY <1>1, <1>3 DEF Callback, page
<1>4. ASSUME Script PROVE meddled = {}
  BY <1>1, <1>4 DEF Script
<1>5. ASSUME Browser PROVE meddled = {}
  BY <1>5 DEF Browser, IntervalTick, DelayOver, ResetTime, TimePasses, page
<1>6. ASSUME LinkClick PROVE meddled = {}
  BY <1>6 DEF LinkClick
<1>7. ASSUME Enqueue PROVE meddled = {}
  BY <1>7 DEF Enqueue, page
<1>8. ASSUME Dequeue PROVE meddled = {}
  BY <1>8 DEF Dequeue, page
<1>9. ASSUME EmptyFires PROVE meddled = {}
  BY <1>9 DEF EmptyFires, page
<1>10. ASSUME RunDelay PROVE meddled = {}
  BY <1>10 DEF RunDelay, page
<1>11. ASSUME RunAnimation PROVE meddled = {}
  BY <1>11 DEF RunAnimation, page
<1>12. ASSUME Tick PROVE meddled = {}
  BY <1>12 DEF Tick, page
<1>13. ASSUME TickReturns PROVE meddled = {}
  BY <1>13 DEF TickReturns, page
<1>14. ASSUME PushTimer PROVE meddled = {}
  BY <1>14 DEF PushTimer, page
<1>15. ASSUME Settle PROVE meddled = {}
  BY <1>15 DEF Settle, page
<1>16. ASSUME Attach PROVE meddled = {}
  BY <1>16 DEF Attach, page
<1>17. ASSUME Made PROVE meddled = {}
  BY <1>17 DEF Made, page
<1>18. ASSUME Complete PROVE meddled = {}
  BY <1>18 DEF Complete, page
<1>19. ASSUME Uncounted PROVE meddled = {}
  BY <1>19 DEF Uncounted, page
<1>20. ASSUME StopAnimation PROVE meddled = {}
  BY <1>20 DEF StopAnimation, page
<1>21. ASSUME Frame PROVE meddled = {}
  BY <1>21 DEF Frame, page
<1>22. ASSUME AfterTimer PROVE meddled = {}
  BY <1>22 DEF AfterTimer, page
<1>23. ASSUME StopLoop PROVE meddled = {}
  BY <1>23 DEF StopLoop, page
<1>24. ASSUME Splice PROVE meddled = {}
  BY <1>24 DEF Splice, page
<1>25. ASSUME Finish PROVE meddled = {}
  BY <1>25 DEF Finish, page
<1>26. ASSUME FinishLoop PROVE meddled = {}
  BY <1>26 DEF FinishLoop, page
<1>27. ASSUME FinishItem PROVE meddled = {}
  BY <1>27 DEF FinishItem, page
<1>28. ASSUME Finished PROVE meddled = {}
  BY <1>28 DEF Finished, page
<1>29. ASSUME Promise PROVE meddled = {}
  BY <1>29 DEF Promise, page
<1> QED BY <1>2, <1>3, <1>4, <1>5, <1>6, <1>7, <1>8, <1>9, <1>10, <1>11, <1>12, <1>13, <1>14, <1>15, <1>16, <1>17, <1>18, <1>19, <1>20, <1>21, <1>22, <1>23, <1>24, <1>25, <1>26, <1>27, <1>28, <1>29 DEF Next, Jquery

\* A stage outside frames makes the invariant hold.
LEMMA CalmAgain ==
  ASSUME Typed', NEW r, NEW k, NEW dead, Stage(r, k, dead)', Within(r, k, dead)'
  PROVE  Calm'
BY DEF Calm, Stage, Staged

\* A stage within a frame makes it hold.
LEMMA CalmFrame ==
  ASSUME Typed', Framed'
  PROVE  Calm'
BY DEF Calm

\* The steps with nothing to do but what comes later.
LEMMA AtRestStep ==
  ASSUME Typed, NEW r, NEW k, NEW dead, Stage(r, k, dead), AtRest(r, k, dead), Next, meddled' = {}
  PROVE  Calm'
<1>1. AnimsOk /\ agenda = r
  BY DEF Typed, AtRest
<1>2. CASE r = <<>>
  <2>1. Rests
    BY <1>1, <1>2, RestsIs
  <2>2. IntervalTick \/ ResetTime \/ TimePasses \/ Script \/ LinkClick
    <3>1. ~Jquery
      BY <1>1, <1>2, DoesWhat
    <3> QED BY <3>1, NoDelayOver DEF Next, Browser
  <2>3. CASE IntervalTick
    <3>1. Typed' /\ AtFrame(1)'
      BY <2>1, <2>3, IntervalTickStep
    <3> QED BY <3>1, CalmFrame DEF Framed
  <2>4. CASE ResetTime
    <3>1. Typed' /\ Stage(<<>>, N, {})' /\ AtRest(<<>>, N, {})'
      BY <2>1, <2>4, ResetTimeStep
    <3> QED BY <3>1, CalmAgain DEF Within
  <2>5. CASE TimePasses
    <3>1. Typed' /\ Stage(<<>>, N, {})' /\ AtRest(<<>>, N, {})'
      BY <2>1, <2>5, TimePassesStep
    <3> QED BY <3>1, CalmAgain DEF Within
  <2>6. CASE Script
    <3>1. Typed' /\ Stage(<<>>, N, {})' /\ AtPromise(<<>>, N, {})'
      BY <2>1, <2>6, ScriptStep
    <3> QED BY <3>1, CalmAgain DEF Within
  <2>7. CASE LinkClick
    <3>1. Typed' /\ \E s \in Seq(Doings) : \E l \in 0 .. N : Stage(s, l, {})' /\ AtRest(s, l, {})'
      BY <2>1, <2>7, ClickStep
    <3> PICK s, l : Stage(s, l, {})' /\ AtRest(s, l, {})'
      BY <3>1
    <3> QED BY <3>1, CalmAgain DEF Within
  <2> QED BY <2>7, <2>6, <2>5, <2>4, <2>3, <2>2
<1>3. CASE r # <<>>
  <2>1. Jquery
    BY <1>1, <1>3, Does
  <2>2. Head(agenda).do \in {"queue", "return"}
    BY <1>1, <1>3, LaterHeads
  <2>3. CASE Head(agenda).do = "queue"
    <3>1. Enqueue
      BY <2>1, <2>3, DoesWhat
    <3>2. /\ Typed' /\ Stage(Tail(r), k + 1, {})'
          /\ AtRest(Tail(r), k + 1, {})' \/ \E e \in Elems : AtDequeue(e, Tail(r), k + 1, {})'
      BY <3>1, EnqueueStep
    <3> PICK s, l : s = Tail(r) /\ l = k + 1
      OBVIOUS
    <3>3. Typed' /\ Stage(s, l, {})' /\ Within(s, l, {})'
      BY <3>2 DEF Within
    <3> QED BY <3>3, CalmAgain
  <2>4. CASE Head(agenda).do = "return"
    <3>1. TickReturns
      BY <2>1, <2>4, DoesWhat
    <3>2. Typed' /\ \E a \in 1 .. Len(anims'), i \in 1 .. Len(timers') : AtAfter(a, i)'
      BY <3>1, TickReturnsStep
    <3> QED BY <3>2, CalmFrame DEF Framed
  <2> QED BY <2>2, <2>3, <2>4
<1> QED BY <1>2, <1>3

\* The steps of an element's queue.
LEMMA AtElemStep ==
  ASSUME Typed, NEW r, NEW k, NEW dead, Stage(r, k, dead), Next, meddled' = {}, NEW e \in Elems,
         AtEmpty(e, r, k, dead) \/ AtRun(e, r, k, dead) \/ AtDequeue(e, r, k, dead) \/ AtCallback(e, r, k, dead)
  PROVE  Calm'
<1>1. CASE AtEmpty(e, r, k, dead)
  <2>1. agenda # <<>> /\ Head(agenda).do = "empty"
    BY <1>1, DosAre DEF AtEmpty, Before, Starts
  <2>2. EmptyFires
    BY <2>1, Does, DoesWhat
  <2>3. Typed' /\ Stage(r, k, dead)' /\ AtRest(r, k, dead)'
    BY <1>1, <2>2, EmptyFiresStep
  <2> QED BY <2>3, CalmAgain DEF Within
<1>2. CASE AtRun(e, r, k, dead)
  <2>1. PICK item \in Scrolls : agenda # <<>> /\ Head(agenda) = OnItem("run", e, item)
    BY <1>2 DEF AtRun, Before, Starts
  <2>2. Head(agenda).do = "run" /\ Now.item.kind = "anim"
    BY <2>1, DosAre, ScrollFacts DEF Now
  <2>3. RunAnimation
    <3>1. RunDelay \/ RunAnimation
      BY <2>1, <2>2, Does, DoesWhat
    <3> QED BY <2>2, <3>1 DEF RunDelay
  <2>4. Typed' /\ Stage(r, k, dead)' /\ \E b \in 1 .. Len(anims') : AtTick(b, r, k, dead)'
    BY <1>2, <2>3, RunAnimationStep
  <2> QED BY <2>4, CalmAgain DEF Within
<1>3. CASE AtDequeue(e, r, k, dead)
  <2>1. agenda # <<>> /\ Head(agenda).do = "dequeue"
    BY <1>3, DosAre DEF AtDequeue, Before, Starts
  <2>2. Dequeue
    BY <2>1, Does, DoesWhat
  <2>3. Typed' /\ Stage(r, k, dead)' /\ (AtEmpty(e, r, k, dead)' \/ AtRun(e, r, k, dead)')
    BY <1>3, <2>2, DequeueStep
  <2> QED BY <2>3, CalmAgain DEF Within
<1>4. CASE AtCallback(e, r, k, dead)
  <2>1. agenda # <<>> /\ (Head(agenda).do = "callback" \/ Head(agenda).do = "promise")
    BY <1>4, DosAre DEF AtCallback, Starts
  <2>2. Callback \/ Promise
    BY <2>1, Does, DoesWhat
  <2>3. Typed' /\ Stage(r, k, dead)' /\ (AtCallback(e, r, k, dead)' \/ AtDequeue(e, r, k, dead)')
    BY <1>4, <2>2, CallbackStep, PromiseStep
  <2> QED BY <2>3, CalmAgain DEF Within
<1> QED BY <1>1, <1>2, <1>3, <1>4

\* The steps of an animation.
LEMMA AtAnimStep ==
  ASSUME Typed, NEW r, NEW k, NEW dead, Stage(r, k, dead), Next, meddled' = {}, NEW b \in 1 .. Len(anims),
         \/ AtTick(b, r, k, dead) \/ AtPush(b, r, k, dead) \/ AtAttach(b, r, k, dead)
         \/ AtMade(b, r, k, dead) \/ AtComplete(b, r, k, dead)
  PROVE  Calm'
<1>0. AnimsOk' => Len(anims') \in Nat
  BY LenProperties DEF AnimsOk
<1>1. CASE AtTick(b, r, k, dead)
  <2>1. agenda # <<>> /\ Head(agenda).do = "tick"
    BY <1>1 DEF AtTick, Starts, OnAnim, Do
  <2>2. Tick
    BY <2>1, Does, DoesWhat
  <2>3. Typed' /\ Stage(r, k, dead)' /\ AtPush(b, r, k, dead)'
    BY <1>1, <2>2, FirstTickStep
  <2>4. b \in 1 .. Len(anims')
    BY <2>3 DEF AtPush, New
  <2> QED BY <2>3, <2>4, CalmAgain DEF Within
<1>2. CASE AtPush(b, r, k, dead)
  <2>1. agenda # <<>> /\ Head(agenda).do = "push"
    BY <1>2 DEF AtPush, Pushing, Starts, OnAnim, Do
  <2>2. PushTimer
    BY <2>1, Does, DoesWhat
  <2>3. Typed' /\ Stage(r, k, dead)' /\ AtAttach(b, r, k, dead)'
    BY <1>2, <2>2, PushTimerStep
  <2>4. anims' = anims
    BY <2>2 DEF PushTimer
  <2> QED BY <2>3, <2>4, CalmAgain DEF Within
<1>3. CASE AtAttach(b, r, k, dead)
  <2>1. agenda # <<>> /\ Head(agenda).do = "attach"
    BY <1>3 DEF AtAttach, Attaching, Starts, OnAnim, Do
  <2>2. Attach
    BY <2>1, Does, DoesWhat
  <2>3. Typed' /\ Stage(r, k, dead)' /\ AtMade(b, r, k, dead)'
    BY <1>3, <2>2, AttachStep
  <2>4. Len(anims') = Len(anims)
    <3>1. anims' = [anims EXCEPT ![Now.a].attached = TRUE] /\ anims \in Seq(Anims)
      BY <2>2 DEF Attach, Typed, AnimsOk
    <3>2. DOMAIN anims' = DOMAIN anims
      BY <3>1
    <3>3. DOMAIN anims = 1 .. Len(anims) /\ Len(anims) \in Nat
      BY <3>1, LenProperties
    <3>4. DOMAIN anims' = 1 .. Len(anims') /\ Len(anims') \in Nat
      BY <2>3, LenProperties DEF Typed, AnimsOk
    <3> QED BY <3>2, <3>3, <3>4
  <2> QED BY <2>3, <2>4, CalmAgain DEF Within
<1>4. CASE AtMade(b, r, k, dead)
  <2>1. agenda # <<>> /\ Head(agenda).do = "made"
    BY <1>4 DEF AtMade, Before, Starts, OnAnim, Do
  <2>2. Made
    BY <2>1, Does, DoesWhat
  <2>3. Typed' /\ Stage(r, k, dead)' /\ AtRest(r, k, dead)'
    BY <1>4, <2>2, MadeStep
  <2> QED BY <2>3, CalmAgain DEF Within
<1>5. CASE AtComplete(b, r, k, dead)
  <2>1. agenda # <<>> /\ Head(agenda).do = "complete"
    BY <1>5 DEF AtComplete, Before, Starts, OnAnim, Do
  <2>2. Complete
    BY <2>1, Does, DoesWhat
  <2>3. Typed' /\ Stage(r, k, dead)' /\ \E e \in Elems : AtCallback(e, r, k, dead)'
    BY <1>5, <2>2, CompleteStep
  <2> QED BY <2>3, CalmAgain DEF Within
<1> QED BY <1>1, <1>2, <1>3, <1>4, <1>5

\* All steps outside frames, and in the complete functions they call.
LEMMA WithinStep ==
  ASSUME Typed, NEW r, NEW k, NEW dead, Stage(r, k, dead), Within(r, k, dead), Next, meddled' = {}
  PROVE  Calm'
<1>1. CASE AtRest(r, k, dead)
  BY <1>1, AtRestStep
<1>2. CASE AtPromise(r, k, dead)
  <2>1. agenda # <<>> /\ Head(agenda).do = "promise"
    BY <1>2, DosAre DEF AtPromise, Before, Starts
  <2>2. Promise
    BY <2>1, Does, DoesWhat
  <2>3. Typed' /\ Stage(r, k, dead)' /\ AtRest(r, k, dead)'
    BY <1>2, <2>2, PromiseStep
  <2> QED BY <2>3, CalmAgain DEF Within
<1> QED BY <1>1, <1>2, AtElemStep, AtAnimStep DEF Within

\* All other steps within frames.
LEMMA FramedStep ==
  ASSUME Typed, Framed, Next
  PROVE  Calm'
<1>1. ASSUME NEW i \in Nat \ {0}, AtFrame(i) PROVE Calm'
  <2>1. agenda # <<>> /\ Head(agenda).do = "frame"
    BY <1>1, DosAre DEF AtFrame, Ends, Starts
  <2>2. Frame
    BY <2>1, Does, DoesWhat
  <2>3. /\ Typed'
        /\ \/ Stage(<<>>, N, {})' /\ AtRest(<<>>, N, {})'
           \/ \E a \in 1 .. Len(anims'), j \in 1 .. Len(timers') : AtTimer(a, j)'
    BY <1>1, <2>2, FrameStep
  <2> QED BY <2>3, CalmAgain, CalmFrame DEF Within, Framed
<1>2. ASSUME NEW a \in 1 .. Len(anims), NEW i \in 1 .. Len(timers), AtTimer(a, i) PROVE Calm'
  <2>1. agenda # <<>> /\ Head(agenda).do = "tick"
    BY <1>2 DEF AtTimer, Starts, OnAnim, Do
  <2>2. Tick
    BY <2>1, Does, DoesWhat
  <2>3. Typed' /\ (AtSettle(a, i)' \/ AtAfter(a, i)')
    BY <1>2, <2>2, TimerTickStep
  <2>4. anims' = anims /\ timers' = timers
    BY <2>2 DEF Tick
  <2> QED BY <2>3, <2>4, CalmFrame DEF Framed
<1>3. ASSUME NEW a \in 1 .. Len(anims), NEW i \in 1 .. Len(timers), AtSettle(a, i) PROVE Calm'
  <2>1. agenda # <<>> /\ Head(agenda).do = "settle"
    BY <1>3 DEF AtSettle, Starts, OnAnim, Do
  <2>2. Settle
    BY <2>1, Does, DoesWhat
  <2>3. Typed' /\ \E r \in Seq(Doings) : Stage(r, N, {a})' /\ AtComplete(a, r, N, {a})'
    BY <1>3, <2>2, SettleStep
  <2> PICK r : Stage(r, N, {a})' /\ AtComplete(a, r, N, {a})'
    BY <2>3
  <2>4. a \in 1 .. Len(anims')
    BY DEF Stage
  <2> QED BY <2>3, <2>4, CalmAgain DEF Within
<1>4. ASSUME NEW a \in 1 .. Len(anims), NEW i \in 1 .. Len(timers), AtAfter(a, i) PROVE Calm'
  <2>1. agenda # <<>> /\ Head(agenda).do = "after"
    BY <1>4, DosAre DEF AtAfter, Ends, Starts
  <2>2. AfterTimer
    BY <2>1, Does, DoesWhat
  <2>3. Typed' /\ \E j \in Nat \ {0} : AtFrame(j)'
    BY <1>4, <2>2, AfterTimerStep
  <2> QED BY <2>3, CalmFrame DEF Framed
<1> QED BY <1>1, <1>2, <1>3, <1>4 DEF Framed

\* Stuttering.
LEMMA StutterStep ==
  ASSUME Calm, UNCHANGED vars
  PROVE  Calm'
<1>1. UNCHANGED <<queue, hooks, anims, timers, lag, delays, finishing, promises, agenda, result, calls, position, hash, last>>
  BY DEF vars, fx, page
<1>2. QueuesOk /\ HooksOk /\ AnimsOk /\ RestOk /\ PageOk /\ agenda \in Seq(Doings)
  BY DEF Calm, Typed
<1>3. QueuesOk' /\ HooksOk' /\ AnimsOk' /\ agenda' \in Seq(Doings)
  BY <1>1, <1>2 DEF QueuesOk, HooksOk, AnimsOk
<1>4. RestOk' /\ PageOk'
  BY <1>1, <1>2 DEF RestOk, PageOk
<1>5. Typed'
  BY <1>3, <1>4 DEF Typed
<1>6. /\ Alike /\ (\A k, dead, x, loose : x \subseteq Elems /\ Even(k, dead, x, loose) => Even(k, dead, x, loose)')
      /\ (\A k : Addressed(k) => Addressed(k)') /\ \A e, k, dead : Ready(e, k, dead) => Ready(e, k, dead)'
  BY <1>1, <1>2, CalmKept
<1>7. \A e : (Busy(e)' <=> Busy(e)) /\ (Goal(e)' <=> Goal(e)) /\ Left(e)' = Left(e)
  BY <1>1 DEF Busy, Goal, Leads, Left
<1>8. \A e, item, k, dead : Called(e, item, k, dead) => Called(e, item, k, dead)'
  <2>1. \A e \in Elems : {e} \subseteq Elems
    OBVIOUS
  <2> QED BY <1>1, <1>6, <1>7, <2>1 DEF Called
<1>9. ASSUME NEW r, NEW k, NEW dead, Stage(r, k, dead), Within(r, k, dead) PROVE Calm'
  <2>1. Stage(r, k, dead)'
    BY <1>1, <1>3, <1>6, <1>9, StageAlike DEF Calm
  <2>2. AtRest(r, k, dead) \/ AtPromise(r, k, dead) => AtRest(r, k, dead)' \/ AtPromise(r, k, dead)'
    BY <1>1, <1>6 DEF AtRest, AtPromise, Before, Starts
  <2>3. ASSUME NEW e \in Elems
        PROVE  /\ AtEmpty(e, r, k, dead) => AtEmpty(e, r, k, dead)'
               /\ AtRun(e, r, k, dead) => AtRun(e, r, k, dead)'
               /\ AtDequeue(e, r, k, dead) => AtDequeue(e, r, k, dead)'
               /\ AtCallback(e, r, k, dead) => AtCallback(e, r, k, dead)'
    <3>1. AtEmpty(e, r, k, dead) => AtEmpty(e, r, k, dead)'
      BY <1>1, <1>6 DEF AtEmpty, Before, Starts
    <3>2. AtRun(e, r, k, dead) => AtRun(e, r, k, dead)'
      BY <1>1, <1>8 DEF AtRun, Before, Starts
    <3>3. AtDequeue(e, r, k, dead) => AtDequeue(e, r, k, dead)'
      BY <1>1, <1>6 DEF AtDequeue, Before, Starts
    <3>4. AtCallback(e, r, k, dead) => AtCallback(e, r, k, dead)'
      BY <1>1, <1>6 DEF AtCallback, Starts
    <3> QED BY <3>1, <3>2, <3>3, <3>4
  <2>4. ASSUME NEW b \in 1 .. Len(anims)
        PROVE  /\ AtTick(b, r, k, dead) => AtTick(b, r, k, dead)'
               /\ AtPush(b, r, k, dead) => AtPush(b, r, k, dead)'
               /\ AtAttach(b, r, k, dead) => AtAttach(b, r, k, dead)'
               /\ AtMade(b, r, k, dead) => AtMade(b, r, k, dead)'
               /\ AtComplete(b, r, k, dead) => AtComplete(b, r, k, dead)'
    <3>1. New(b, k, dead) => New(b, k, dead)'
      BY <1>1, <1>8 DEF New
    <3>2. AtTick(b, r, k, dead) => AtTick(b, r, k, dead)'
      BY <1>1, <3>1 DEF AtTick, Starts, Pushing, Attaching
    <3>3. AtPush(b, r, k, dead) => AtPush(b, r, k, dead)'
      BY <1>1, <3>1 DEF AtPush, Starts, Pushing, Attaching
    <3>4. AtAttach(b, r, k, dead) => AtAttach(b, r, k, dead)'
      BY <1>1, <1>6 DEF AtAttach, Starts, Attaching
    <3>5. AtMade(b, r, k, dead) => AtMade(b, r, k, dead)'
      BY <1>1, <1>6 DEF AtMade, Before, Starts
    <3>6. AtComplete(b, r, k, dead) => AtComplete(b, r, k, dead)'
      <4>1. {anims[b].elem} \subseteq Elems
        BY <1>2, AnimFacts
      <4> QED BY <1>1, <1>6, <1>7, <4>1 DEF AtComplete, Before, Starts, Leads
    <3> QED BY <3>2, <3>3, <3>4, <3>5, <3>6
  <2>5. Within(r, k, dead)'
    BY <1>1, <1>9, <2>2, <2>3, <2>4 DEF Within
  <2> QED BY <1>5, <2>1, <2>5, CalmAgain
<1>10. ASSUME Framed PROVE Framed'
  <2>1. \A i : AtFrame(i) => AtFrame(i)'
    BY <1>1, <1>6 DEF AtFrame, Ends, Starts
  <2>2. \A a, i : AtTimer(a, i) => AtTimer(a, i)'
    BY <1>1, <1>6 DEF AtTimer, Ends, Starts, Place
  <2>3. \A a, i : AtSettle(a, i) => AtSettle(a, i)'
    BY <1>1, <1>6 DEF AtSettle, Returning, Ends, Starts, Place
  <2>4. \A a, i : AtAfter(a, i) => AtAfter(a, i)'
    BY <1>1, <1>6 DEF AtAfter, Ends, Starts, Place
  <2> QED BY <2>4, <2>3, <2>2, <2>1, <1>10, <1>1 DEF Framed
<1> QED BY <1>5, <1>9, <1>10, CalmFrame DEF Calm, Staged, Stage

\* At first all elements are at the start and no link was clicked.
LEMMA ScrollInit == Init => ScrollInv
<1> SUFFICES ASSUME Init PROVE Calm
  BY DEF ScrollInv
<1>1. /\ queue = [e \in Elems |-> NoQueue] /\ hooks = [e \in Elems |-> NoHooks] /\ anims = <<>> /\ timers = <<>>
      /\ lag = -1 /\ delays = [e \in Elems |-> 0] /\ finishing = {} /\ promises = <<>> /\ agenda = <<>>
      /\ result = FALSE /\ calls = 0 /\ position = [e \in Elems |-> 0] /\ hash = 0 /\ last = 0
  BY DEF Init
<1>2. QueuesOk
  BY <1>1 DEF QueuesOk, NoQueue
<1>3. HooksOk
  BY <1>1 DEF HooksOk, NoHooks
<1>4. AnimsOk
  BY <1>1, EmptySeq DEF AnimsOk
<1>5. RestOk /\ PageOk
  <2>1. lag \in Int /\ calls \in Nat
    BY <1>1
  <2>1a. result \in BOOLEAN /\ finishing = {} /\ delays = [e \in Elems |-> 0]
    BY <1>1
  <2>2. promises \in Seq(Int)
    BY <1>1, EmptySeq
  <2>3. PageOk
    BY <1>1 DEF PageOk
  <2> QED BY <2>1, <2>1a, <2>2, <2>3 DEF RestOk
<1>6. agenda \in Seq(Doings) /\ <<>> \in Seq(Doings) /\ Stage(<<>>, N, {})
  BY <1>1, <1>4, AllReached
<1>7. Typed
  BY <1>2, <1>3, <1>4, <1>5, <1>6 DEF Typed
<1>8. Len(timers) = 0
  BY <1>1, EmptySeq
<1>9. Timely({}, {}) /\ \A e : ~Driven(e)
  BY <1>8 DEF Timely, Driven
<1>10. \A e \in Elems : queue[e].items = <<>> /\ position[e] = last
  BY <1>1 DEF NoQueue
<1>11. AtRest(<<>>, N, {})
  BY <1>1, <1>9, <1>10 DEF AtRest, Even, Fine, Addressed
<1>12. N \in 0 .. N /\ {} \in SUBSET (1 .. Len(anims))
  BY ElemsAre
<1>13. Staged(<<>>, N, {})
  BY <1>6, <1>11 DEF Staged, Stage, Within
<1> QED BY <1>6, <1>7, <1>12, <1>13 DEF Calm

\* Every step keeps the invariant.
LEMMA ScrollStep == ScrollInv /\ [Next]_vars => ScrollInv'
<1> SUFFICES ASSUME ScrollInv, [Next]_vars, meddled' = {} PROVE Calm'
  BY DEF ScrollInv
<1>1. CASE Next
  <2>1. Calm
    BY <1>1, Meddles DEF ScrollInv
  <2>2. ASSUME NEW r, NEW k, NEW dead, Stage(r, k, dead), Within(r, k, dead) PROVE Calm'
    BY <1>1, <2>1, <2>2, WithinStep DEF Calm
  <2>3. ASSUME Framed PROVE Calm'
    BY <1>1, <2>1, <2>3, FramedStep DEF Calm
  <2> QED BY <2>1, <2>2, <2>3 DEF Calm, Staged, Stage
<1>2. CASE UNCHANGED vars
  <2>1. meddled = {}
    BY <1>2 DEF vars, page
  <2> QED BY <1>2, <2>1, StutterStep DEF ScrollInv
<1> QED BY <1>1, <1>2

\* With no code running and no timers, no element is driven: each is where the last link leads,
\* and none has still to change the address.
LEMMA ScrollSays == ScrollInv => ScrollsToLastClicked
<1> SUFFICES ASSUME Calm, agenda = <<>>, timers = <<>> PROVE hash = last /\ \A e \in Elems : position[e] = last
  BY DEF ScrollInv, ScrollsToLastClicked, Idle
<1>1. ~Framed
  BY DEF Framed, AtFrame, AtTimer, AtSettle, AtAfter, Ends, Starts
<1>2. PICK r, k, dead : Stage(r, k, dead) /\ Within(r, k, dead)
  BY <1>1 DEF Calm, Staged, Stage
<1>3. AtRest(r, k, dead)
  BY <1>2 DEF Within, AtPromise, AtEmpty, AtRun, AtDequeue, AtCallback, AtTick, AtPush, AtAttach, AtMade, AtComplete,
              Pushing, Attaching, Before, Starts
<1>4. r = <<>> /\ AnimsOk
  BY <1>3 DEF AtRest, Calm, Typed
<1>5. Rests
  BY <1>2, <1>3, <1>4, RestsIs
<1>6. Len(timers) = 0
  BY EmptySeq
<1>7. \A e \in Elems : ~Driven(e) /\ e <= N
  BY <1>6, ElemsAre DEF Driven
<1>8. \A e \in Elems : queue[e].items = <<>> /\ position[e] = last
  BY <1>5, <1>7 DEF Rests, Even, Fine
<1>9. N \in Nat
  BY ElemsAre
<1> QED BY <1>5, <1>8, <1>9 DEF Rests, Addressed, Owed

\* For any number of elements, targets, clicks and promises, in any order with time and
\* frames: when all has come to rest, every element is where the last link that was clicked
\* leads, and the address says so, unless a script did more than ask for promises.
THEOREM ScrollCorrect == Spec => []ScrollsToLastClicked
<1>1. Spec => []ScrollInv
  BY ScrollInit, ScrollStep, PTL DEF Spec
<1> QED BY <1>1, ScrollSays, PTL

================================================================================
