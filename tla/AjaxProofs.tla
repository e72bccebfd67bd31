------------------------------ MODULE AjaxProofs -----------------------------
(***************************************************************************)
(* Theorems about Ajax, for any number of requests and aborts: a JSONP     *)
(* request gets the data of its own script, jQuery.active counts the       *)
(* requests, and handlers are called in their order.                       *)
(*                                                                         *)
(* The running code is a stack, agenda.  What makes it tractable is that   *)
(* one that still opens a request has nothing else of that request under   *)
(* it (Openers), and that what ends a request is put there only once,      *)
(* unless the request was sent after it had been aborted (cut).            *)
(***************************************************************************)
EXTENDS Ajax, SequenceTheorems, FiniteSetTheorems, TLAPS

----------
(* Types.                                                                  *)

Requests ==
  [set : Settings, state : 0 .. 2, settled : {"pending", "resolved", "rejected"},
   installed : BOOLEAN, completed : BOOLEAN, globals : BOOLEAN, transport : BOOLEAN,
   listening : BOOLEAN, name : Nat, overwritten : Nat, data : Nat]

\* What opens a request; what tells of its end.
Openings == {"prefilter", "start", "beforeSend", "install", "send"}
Endings == {"settle", "callback", "statusCode", "ajaxEvent", "complete", "completed",
            "ajaxComplete", "uncount"}
Things == Openings \cup Endings \cup
          {"handler", "answer", "abort", "done", "ajaxSend", "ajaxStart", "ajaxStop"}

\* Things to do for the first n requests.
Doings(n) == [do : Things, r : 1 .. n, ok : BOOLEAN]

\* Entries of the log.
Entries == [what : Logged, ok : BOOLEAN]

Typed ==
  /\ requests \in Seq(Requests) /\ Len(requests) <= MaxRequests
  /\ net \in Seq({"new", "sent", "over"}) /\ Len(net) = Len(requests)
  /\ log \in Seq(Seq(Entries)) /\ Len(log) = Len(requests)
  /\ agenda \in Seq(Doings(Len(requests)))
  /\ active \in Int /\ busy \in BOOLEAN
  /\ late \subseteq DOMAIN requests /\ cut \subseteq DOMAIN requests
  /\ timers \subseteq DOMAIN requests
  /\ nonce \in Nat \ {0} /\ oldCallbacks \in Seq(1 .. nonce - 1)
  /\ window \in [1 .. MaxRequests -> 0 .. Len(requests)]

----------
(* The stack.                                                              *)

\* Under what opens a request nothing is of that request.  A request is made and
\* prefiltered at once, and ajaxStart, ajaxStop and ajaxSend are triggered at once, but
\* for the ajaxSend of one that is told first to be over.
Openers ==
  /\ \A i, j \in DOMAIN agenda :
       i < j /\ agenda[i].do \in Openings => agenda[j].r # agenda[i].r
  /\ \A i \in DOMAIN agenda :
       /\ agenda[i].do \in {"prefilter", "ajaxStart", "ajaxStop"} => i = 1
       /\ agenda[i].do = "ajaxSend" => i = 1 \/ agenda[i].r \in cut

\* A request that is still opened has not been sent, and until its callbacks are put on
\* it is not cut; once prefiltered, that for a script has its name.
Unopened(q, kind) ==
  /\ net[q] = "new" /\ ~requests[q].listening
  /\ kind # "prefilter" /\ requests[q].set.type = "jsonp" => requests[q].name # 0
  /\ kind # "send" => ~requests[q].transport /\ ~requests[q].installed /\ q \notin cut
  /\ kind \in {"prefilter", "start"} => ~requests[q].globals
  /\ kind = "beforeSend" => requests[q].set.beforeSend
  /\ kind = "prefilter" => /\ requests[q].name = 0 /\ requests[q].settled = "pending"
                           /\ nonce <= Len(requests)

Opened == \A i \in DOMAIN agenda : agenda[i].do \in Openings => Unopened(agenda[i].r, agenda[i].do)

\* A request is over for good, but for one that was cut short.
Gone(q) == q \in cut \/ (requests[q].state = 2 /\ ~requests[q].transport)

\* What is still to be done about the end of a request.
Ended ==
  /\ \A i \in DOMAIN agenda :
       /\ agenda[i].do = "done" => ~requests[agenda[i].r].listening
       /\ agenda[i].do \in Endings => Gone(agenda[i].r)
  /\ \A q \in DOMAIN requests :
       /\ requests[q].settled # "pending" \/ requests[q].completed => Gone(q)
       /\ requests[q].listening => requests[q].transport
       /\ requests[q].transport => requests[q].state # 2 \/ q \in cut

\* A request for a script fires no globals, so that no handler is called between its
\* last chance to be aborted and its being sent: it is never cut short.
Direct(x) ==
  /\ requests[x.r].set.type = "jsonp"
  /\ x.do = "send" \/ (x.do = "install" /\ ~requests[x.r].set.beforeSend)
Clear(x) == IF x.do = "send" THEN requests[x.r].transport ELSE requests[x.r].state # 2

Scripts ==
  /\ \A i \in DOMAIN agenda : Direct(agenda[i]) => i = 1 /\ Clear(agenda[i])
  /\ \A q \in DOMAIN requests : requests[q].set.type = "jsonp" => ~requests[q].globals /\ q \notin cut

----------
(* The names of the JSONP callbacks.                                       *)

\* A name is the function of the request that has it and is pending, or free again
\* once, or new; the page itself had nothing there.
Names ==
  /\ nonce <= Len(requests) + 1
  /\ \A n \in DOMAIN window :
       /\ window[n] # 0 => /\ requests[window[n]].name = n
                           /\ requests[window[n]].settled = "pending"
       /\ n >= nonce => window[n] = 0
  /\ \A q \in DOMAIN requests :
       /\ requests[q].overwritten = 0
       /\ requests[q].name < nonce
       /\ requests[q].name # 0 /\ requests[q].settled = "pending" => window[requests[q].name] = q
  /\ \A i \in DOMAIN oldCallbacks : window[oldCallbacks[i]] = 0
  /\ \A i, j \in DOMAIN oldCallbacks : i # j => oldCallbacks[i] # oldCallbacks[j]

\* A script that is still to come, and whose request was not aborted, finds it waiting.
Awaited ==
  \A q \in DOMAIN requests :
    net[q] = "sent" /\ requests[q].set.type = "jsonp" =>
      requests[q].name # 0 /\ (q \notin late => requests[q].listening)

Data == \A q \in DOMAIN requests : requests[q].data \in {0, q} \cup late

----------
(* The count of requests.                                                  *)

\* What is still to be taken off the count, and what is counted.
Uncounting(q) == \E i \in DOMAIN agenda : agenda[i].do = "uncount" /\ agenda[i].r = q
Counted == {q \in DOMAIN requests : requests[q].globals /\ (requests[q].state # 2 \/ Uncounting(q))}

\* A request is taken off once.
Singly ==
  \A i, j \in DOMAIN agenda : i < j /\ agenda[i].do = "uncount" /\ agenda[j].do = "uncount" =>
                             agenda[i].r # agenda[j].r

\* What is done next.
Heads(what) == agenda # << >> /\ Head(agenda).do = what

\* busy is told late, by ajaxStart and ajaxStop.
Tally ==
  cut = {} =>
    /\ Singly
    /\ \A i \in DOMAIN agenda : agenda[i].do = "uncount" => requests[agenda[i].r].globals
    /\ active = Cardinality(Counted)
    /\ Heads("ajaxStart") => active > 0
    /\ Heads("ajaxStop") => active = 0
    /\ ~Heads("ajaxStart") /\ ~Heads("ajaxStop") => (busy <=> active > 0)

----------
(* The order of handlers.                                                  *)

\* What tells of a request, and its place in the order: settle leads to callback, and
\* complete to completed.
Tellings == Endings \cup {"ajaxSend"}
Place(what) ==
  CASE what = "settle" -> 2 [] what = "complete" -> 5 [] what = "uncount" -> 7
    [] what \in Logged -> Rank(what)

Tells(x, q) == x.do \in Tellings /\ x.r = q
Early == Openings \ {"send"}

\* What has been told and what is to be told of q are in order, the one before the other,
\* and agree.
InOrder(q) ==
  /\ \A i, j \in DOMAIN log[q] : i < j =>
       /\ Rank(log[q][i].what) < Rank(log[q][j].what)
       /\ log[q][i].what # "ajaxSend" => log[q][i].ok = log[q][j].ok
  /\ \A i, j \in DOMAIN agenda : i < j /\ Tells(agenda[i], q) /\ Tells(agenda[j], q) =>
       Place(agenda[i].do) < Place(agenda[j].do) /\ agenda[i].ok = agenda[j].ok
  /\ \A i \in DOMAIN log[q] : \A j \in DOMAIN agenda : Tells(agenda[j], q) =>
       /\ Rank(log[q][i].what) < Place(agenda[j].do)
       /\ log[q][i].what # "ajaxSend" => log[q][i].ok = agenda[j].ok

\* Nothing but that it was sent is told of q before it is over, and that not before it
\* is about to be.
Untold(q) ==
  /\ requests[q].state # 2 => \A i \in DOMAIN log[q] : log[q][i].what = "ajaxSend"
  /\ \A i \in DOMAIN agenda : agenda[i].r = q =>
       /\ agenda[i].do \in Early /\ requests[q].state # 2 => log[q] = << >>
       /\ agenda[i].do = "ajaxSend" => requests[q].state # 2
       /\ agenda[i].do = "complete" => ~requests[q].completed
       /\ agenda[i].do = "ajaxComplete" => requests[q].globals
  /\ \A i, j \in DOMAIN agenda :
       i < j /\ agenda[i].do = "ajaxSend" /\ agenda[i].r = q /\ agenda[j].r = q => agenda[j].do \notin Early

\* When q is over, the last that is to be told was told or still will be.
ToldAll(q) ==
  /\ requests[q].state = 2 /\ requests[q].globals =>
       \/ \E i \in DOMAIN agenda : agenda[i].r = q /\ agenda[i].do = "ajaxComplete"
       \/ log[q] # << >> /\ Last(log[q]).what = "ajaxComplete"
  /\ requests[q].state = 2 /\ ~requests[q].globals /\ requests[q].installed =>
       \/ \E i \in DOMAIN agenda : agenda[i].r = q /\ agenda[i].do \in {"complete", "completed"}
       \/ log[q] # << >> /\ Last(log[q]).what = "completed"

Order == \A q \in DOMAIN requests \ cut : InOrder(q) /\ Untold(q) /\ ToldAll(q)

----------
(* Stacks.                                                                 *)

\* The things told of the end of a request, one after the other.
LEMMA TwoJoined ==
  ASSUME NEW a, NEW d
  PROVE  <<a>> \o << >> \o << >> \o <<d>> \o << >> \o << >> = <<a, d>>
<1> DEFINE x == <<a>> \o << >> \o << >> \o <<d>> \o << >> \o << >>
           y == <<a, d>>
           S == {a, d}
<1>1. x \in Seq(S) /\ Len(x) = 2 /\ x[1] = a /\ x[2] = d
  OBVIOUS
<1>2. y \in Seq(S) /\ Len(y) = 2 /\ y[1] = a /\ y[2] = d
  OBVIOUS
<1> HIDE DEF x, y
<1>3. \A i \in 1 .. 2 : x[i] = y[i]
  BY <1>1, <1>2
<1>4. x = y
  BY <1>1, <1>2, <1>3, SeqEqual
<1> QED BY <1>4 DEF x, y

\* The like.
LEMMA ThreeJoined ==
  ASSUME NEW a, NEW b, NEW d
  PROVE  <<a>> \o <<b>> \o << >> \o <<d>> \o << >> \o << >> = <<a, b, d>>
<1> DEFINE x == <<a>> \o <<b>> \o << >> \o <<d>> \o << >> \o << >>
           y == <<a, b, d>>
           S == {a, b, d}
<1>1. x \in Seq(S) /\ Len(x) = 3 /\ x[1] = a /\ x[2] = b /\ x[3] = d
  OBVIOUS
<1>2. y \in Seq(S) /\ Len(y) = 3 /\ y[1] = a /\ y[2] = b /\ y[3] = d
  OBVIOUS
<1> HIDE DEF x, y
<1>3. \A i \in 1 .. 3 : x[i] = y[i]
  BY <1>1, <1>2
<1>4. x = y
  BY <1>1, <1>2, <1>3, SeqEqual
<1> QED BY <1>4 DEF x, y

\* The like.
LEMMA FiveJoined ==
  ASSUME NEW a, NEW c, NEW d, NEW e, NEW f
  PROVE  <<a>> \o << >> \o <<c>> \o <<d>> \o <<e>> \o <<f>> = <<a, c, d, e, f>>
<1> DEFINE x == <<a>> \o << >> \o <<c>> \o <<d>> \o <<e>> \o <<f>>
           y == <<a, c, d, e, f>>
           S == {a, c, d, e, f}
<1>1. x \in Seq(S) /\ Len(x) = 5 /\ x[1] = a /\ x[2] = c /\ x[3] = d /\ x[4] = e /\ x[5] = f
  OBVIOUS
<1>2. y \in Seq(S) /\ Len(y) = 5 /\ y[1] = a /\ y[2] = c /\ y[3] = d /\ y[4] = e /\ y[5] = f
  OBVIOUS
<1> HIDE DEF x, y
<1>3. \A i \in 1 .. 5 : x[i] = y[i]
  BY <1>1, <1>2
<1>4. x = y
  BY <1>1, <1>2, <1>3, SeqEqual
<1> QED BY <1>4 DEF x, y

\* b is stack a with t in the place of its head: t comes first, in its order, and
\* then the rest.
Replaces(b, a, t) ==
  /\ \A i \in DOMAIN b : \/ i \in DOMAIN t /\ b[i] = t[i]
                         \/ \E k \in DOMAIN a : k >= 2 /\ b[i] = a[k]
  /\ \A i, j \in DOMAIN b : i < j =>
       \/ i \in DOMAIN t /\ j \in DOMAIN t /\ b[i] = t[i] /\ b[j] = t[j]
       \/ i \in DOMAIN t /\ b[i] = t[i] /\ \E l \in DOMAIN a : l >= 2 /\ b[j] = a[l]
       \/ \E k, l \in DOMAIN a : 2 <= k /\ k < l /\ b[i] = a[k] /\ b[j] = a[l]
  /\ \A k \in DOMAIN t : k \in DOMAIN b /\ b[k] = t[k]
  /\ \A k \in DOMAIN a : k >= 2 => \E i \in DOMAIN b : b[i] = a[k]

\* Two sequences of one.
LEMMA Pair ==
  ASSUME NEW a, NEW b
  PROVE  <<a>> \o <<b>> = <<a, b>>
<1> DEFINE x == <<a>> \o <<b>>
           y == <<a, b>>
<1>1. x \in Seq({a, b}) /\ Len(x) = 2 /\ x[1] = a /\ x[2] = b
  OBVIOUS
<1>2. y \in Seq({a, b}) /\ Len(y) = 2 /\ y[1] = a /\ y[2] = b
  OBVIOUS
<1> HIDE DEF x, y
<1>3. \A i \in 1 .. 2 : x[i] = y[i]
  BY <1>1, <1>2
<1>4. x = y
  BY <1>1, <1>2, <1>3, SeqEqual
<1> QED BY <1>4 DEF x, y

\* None and one.
LEMMA None ==
  ASSUME NEW a
  PROVE  << >> \o <<a>> = <<a>>
<1>1. <<a>> \in Seq({a})
  OBVIOUS
<1> QED BY <1>1, ConcatEmptySeq

\* Two sequences, one after the other.
LEMMA Joined ==
  ASSUME NEW S, NEW a \in Seq(S), NEW b \in Seq(S), NEW t, t = a \o b
  PROVE  /\ t \in Seq(S) /\ DOMAIN t = 1 .. Len(a) + Len(b) /\ Len(a) \in Nat /\ Len(b) \in Nat
         /\ \A i \in DOMAIN t : \/ i \in DOMAIN a /\ i <= Len(a) /\ t[i] = a[i]
                                \/ i - Len(a) \in DOMAIN b /\ t[i] = b[i - Len(a)]
<1>1. /\ t \in Seq(S) /\ Len(t) = Len(a) + Len(b)
      /\ \A i \in 1 .. Len(a) + Len(b) : t[i] = IF i <= Len(a) THEN a[i] ELSE b[i - Len(a)]
  BY ConcatProperties
<1>2. /\ Len(a) \in Nat /\ Len(b) \in Nat /\ DOMAIN a = 1 .. Len(a) /\ DOMAIN b = 1 .. Len(b)
      /\ DOMAIN t = 1 .. Len(a) + Len(b)
  BY <1>1, LenProperties
<1> QED BY <1>1, <1>2

\* The stack with t in the place of the head of a.
LEMMA Push ==
  ASSUME NEW S, NEW a \in Seq(S), a # << >>, NEW t \in Seq(S), NEW b, b = t \o Tail(a)
  PROVE  b \in Seq(S) /\ Replaces(b, a, t)
<1> DEFINE r == Tail(a)
           n == Len(t)
<1>1. /\ r \in Seq(S) /\ Len(r) = Len(a) - 1 /\ \A i \in 1 .. Len(r) : r[i] = a[i + 1]
      /\ Len(a) \in Nat /\ n \in Nat /\ DOMAIN a = 1 .. Len(a) /\ DOMAIN t = 1 .. n
  BY HeadTailProperties, LenProperties
<1> HIDE DEF r
<1>2. /\ b \in Seq(S) /\ Len(b) = n + Len(r)
      /\ \A i \in 1 .. n + Len(r) : b[i] = IF i <= n THEN t[i] ELSE r[i - n]
  BY <1>1, ConcatProperties DEF r
<1>3. DOMAIN b = 1 .. n + (Len(a) - 1)
  BY <1>1, <1>2, LenProperties
<1> HIDE DEF n
<1>4. \A i \in DOMAIN b : i <= n => i \in DOMAIN t /\ b[i] = t[i]
  BY <1>1, <1>2, <1>3
<1>5. \A i \in DOMAIN b : ~(i <= n) => /\ i - n + 1 \in DOMAIN a /\ i - n + 1 >= 2
                                       /\ b[i] = a[i - n + 1]
  <2> SUFFICES ASSUME NEW i \in DOMAIN b, ~(i <= n)
               PROVE  i - n + 1 \in DOMAIN a /\ i - n + 1 >= 2 /\ b[i] = a[i - n + 1]
    OBVIOUS
  <2>1. i - n \in 1 .. Len(r) /\ i \in 1 .. n + Len(r)
    BY <1>1, <1>3
  <2>2. b[i] = r[i - n]
    BY <1>2, <2>1
  <2>3. r[i - n] = a[(i - n) + 1]
    BY <1>1, <2>1
  <2> QED BY <1>1, <2>1, <2>2, <2>3
<1>6. \A k \in DOMAIN t : k \in DOMAIN b /\ b[k] = t[k]
  BY <1>1, <1>2, <1>3
<1>7. \A k \in DOMAIN a : k >= 2 => \E i \in DOMAIN b : b[i] = a[k]
  <2> SUFFICES ASSUME NEW k \in DOMAIN a, k >= 2 PROVE \E i \in DOMAIN b : b[i] = a[k]
    OBVIOUS
  <2> DEFINE i == k - 1 + n
  <2>1. i \in DOMAIN b /\ ~(i <= n) /\ i - n + 1 = k
    BY <1>1, <1>3
  <2> HIDE DEF i
  <2>2. b[i] = a[i - n + 1]
    BY <1>5, <2>1
  <2> QED BY <2>1, <2>2
<1>8. \A i, j \in DOMAIN b : i < j =>
        \/ i \in DOMAIN t /\ j \in DOMAIN t /\ b[i] = t[i] /\ b[j] = t[j]
        \/ i \in DOMAIN t /\ b[i] = t[i] /\ \E l \in DOMAIN a : l >= 2 /\ b[j] = a[l]
        \/ \E k, l \in DOMAIN a : 2 <= k /\ k < l /\ b[i] = a[k] /\ b[j] = a[l]
  <2> SUFFICES ASSUME NEW i \in DOMAIN b, NEW j \in DOMAIN b, i < j
               PROVE  \/ i \in DOMAIN t /\ j \in DOMAIN t /\ b[i] = t[i] /\ b[j] = t[j]
                      \/ i \in DOMAIN t /\ b[i] = t[i] /\ \E l \in DOMAIN a : l >= 2 /\ b[j] = a[l]
                      \/ \E k, l \in DOMAIN a : 2 <= k /\ k < l /\ b[i] = a[k] /\ b[j] = a[l]
    OBVIOUS
  <2>1. CASE j <= n
    <3>1. i <= n
      BY <1>1, <1>3, <2>1
    <3> QED BY <1>4, <2>1, <3>1
  <2>2. CASE i <= n /\ ~(j <= n)
    BY <1>4, <1>5, <2>2
  <2>3. CASE ~(i <= n) /\ ~(j <= n)
    <3>1. 2 <= i - n + 1 /\ i - n + 1 < j - n + 1
      BY <1>1, <1>3, <2>3
    <3> QED BY <1>5, <2>3, <3>1
  <2> QED BY <2>1, <2>2, <2>3
<1>9. \A i \in DOMAIN b : \/ i \in DOMAIN t /\ b[i] = t[i]
                          \/ \E k \in DOMAIN a : k >= 2 /\ b[i] = a[k]
  BY <1>4, <1>5
<1> QED BY <1>2, <1>6, <1>7, <1>8, <1>9 DEF Replaces

----------
(* One step of the running code.                                           *)

AjaxInv == Typed /\ Openers /\ Opened /\ Ended /\ Scripts /\ Names /\ Awaited /\ Data

\* The step is about request r, and t is what it puts in the place of the head.
Step(r, t) ==
  /\ agenda # << >> /\ Head(agenda).r = r
  /\ t \in Seq(Doings(Len(requests))) /\ agenda' = t \o Tail(agenda)

\* Nothing of the requests other than r changes.
Only(r) ==
  /\ requests' \in Seq(Requests) /\ Len(requests') = Len(requests)
  /\ net' \in Seq({"new", "sent", "over"}) /\ Len(net') = Len(net)
  /\ \A q \in DOMAIN requests : q # r => requests'[q] = requests[q] /\ net'[q] = net[q]
  /\ \A q \in DOMAIN requests : q # r => (q \in cut' <=> q \in cut)
  /\ requests'[r].data = requests[r].data /\ requests'[r].set = requests[r].set
  /\ cut \subseteq cut'

\* The head of a stack and what is on it.
LEMMA HeadItem ==
  ASSUME Typed, agenda # << >>
  PROVE  /\ 1 \in DOMAIN agenda /\ agenda[1] = Head(agenda)
         /\ Head(agenda).r \in DOMAIN requests /\ Head(agenda) \in Doings(Len(requests))
         /\ DOMAIN requests = 1 .. Len(requests) /\ DOMAIN net = 1 .. Len(requests)
         /\ DOMAIN log = 1 .. Len(requests) /\ Len(requests) \in Nat
<1>1. Len(agenda) \in Nat \ {0} /\ DOMAIN agenda = 1 .. Len(agenda)
  BY EmptySeq, LenProperties DEF Typed
<1>2. agenda[1] \in Doings(Len(requests))
  BY <1>1, ElementOfSeq DEF Typed
<1>3. agenda[1] = Head(agenda)
  OBVIOUS
<1> QED BY <1>1, <1>2, <1>3, LenProperties DEF Typed, Doings

\* What is on the stack after a step.
LEMMA StepPush ==
  ASSUME Typed, NEW r, NEW t, Step(r, t)
  PROVE  agenda' \in Seq(Doings(Len(requests))) /\ Replaces(agenda', agenda, t)
<1>1. /\ agenda \in Seq(Doings(Len(requests))) /\ agenda # << >>
      /\ t \in Seq(Doings(Len(requests))) /\ agenda' = t \o Tail(agenda)
  BY DEF Typed, Step
<1> QED BY <1>1, Push

\* The stack stays in order when what opens a request replaces the like, or when
\* nothing of that request is under it.
LEMMA OpenersStep ==
  ASSUME AjaxInv, NEW r, NEW t, Step(r, t),
         \A i, j \in DOMAIN t : i < j /\ t[i].do \in Openings => t[j].r # t[i].r,
         \A i \in DOMAIN t : t[i].do \in Openings => t[i].r = r /\ Head(agenda).do \in Openings,
         \A i \in DOMAIN t : /\ t[i].do \in {"prefilter", "ajaxStart", "ajaxStop"} => i = 1
                             /\ t[i].do = "ajaxSend" => i = 1 \/ t[i].r \in cut',
         cut \subseteq cut'
  PROVE  Openers'
<1> DEFINE b == agenda'
           First == {"prefilter", "ajaxStart", "ajaxStop"}
<1>1. /\ \A i \in DOMAIN b : \/ i \in DOMAIN t /\ b[i] = t[i]
                             \/ \E k \in DOMAIN agenda : k >= 2 /\ b[i] = agenda[k]
      /\ \A i, j \in DOMAIN b : i < j =>
           \/ i \in DOMAIN t /\ j \in DOMAIN t /\ b[i] = t[i] /\ b[j] = t[j]
           \/ i \in DOMAIN t /\ b[i] = t[i] /\ \E l \in DOMAIN agenda : l >= 2 /\ b[j] = agenda[l]
           \/ \E k, l \in DOMAIN agenda : 2 <= k /\ k < l /\ b[i] = agenda[k] /\ b[j] = agenda[l]
  BY StepPush DEF AjaxInv, Replaces
<1>2. agenda' = b
  OBVIOUS
<1>3. 1 \in DOMAIN agenda /\ agenda[1] = Head(agenda) /\ agenda[1].r = r
  BY HeadItem DEF AjaxInv, Step
<1>4. \A i, j \in DOMAIN agenda : i < j /\ agenda[i].do \in Openings => agenda[j].r # agenda[i].r
  BY DEF AjaxInv, Openers
<1>5. \A i \in DOMAIN agenda : /\ agenda[i].do \in First => i = 1
                               /\ agenda[i].do = "ajaxSend" => i = 1 \/ agenda[i].r \in cut'
  BY DEF AjaxInv, Openers
<1>6. DOMAIN agenda \subseteq Int
  BY LenProperties DEF AjaxInv, Typed
<1> HIDE DEF b
<1>7. ASSUME NEW i \in DOMAIN b, NEW j \in DOMAIN b, i < j, b[i].do \in Openings
      PROVE  b[j].r # b[i].r
  <2>1. CASE i \in DOMAIN t /\ j \in DOMAIN t /\ b[i] = t[i] /\ b[j] = t[j]
    BY <1>7, <2>1
  <2>2. CASE i \in DOMAIN t /\ b[i] = t[i] /\ \E l \in DOMAIN agenda : l >= 2 /\ b[j] = agenda[l]
    <3>1. PICK l \in DOMAIN agenda : l >= 2 /\ b[j] = agenda[l]
      BY <2>2
    <3>2. b[i].r = r /\ agenda[1].do \in Openings /\ 1 < l
      BY <1>3, <1>6, <1>7, <2>2, <3>1
    <3> QED BY <1>3, <1>4, <3>1, <3>2
  <2>3. CASE \E k, l \in DOMAIN agenda : 2 <= k /\ k < l /\ b[i] = agenda[k] /\ b[j] = agenda[l]
    BY <1>4, <1>7, <2>3
  <2> QED BY <1>1, <1>7, <2>1, <2>2, <2>3
<1>8. ASSUME NEW i \in DOMAIN b
      PROVE  /\ b[i].do \in First => i = 1
             /\ b[i].do = "ajaxSend" => i = 1 \/ b[i].r \in cut'
  BY <1>1, <1>5, <1>6, <1>8
<1> QED BY <1>2, <1>7, <1>8 DEF Openers

\* What is known of the requests that are opened stays so when nothing else of r
\* is there, or what changes of r does not matter to it.
LEMMA OpenedStep ==
  ASSUME AjaxInv, NEW r, NEW t, Step(r, t), Only(r),
         \A i \in DOMAIN t : t[i].do \in Openings => Unopened(t[i].r, t[i].do)',
         \/ Head(agenda).do \in Openings
         \/ \A kind \in Openings \ {"prefilter"} : Unopened(r, kind) => Unopened(r, kind)'
  PROVE  Opened'
<1> DEFINE b == agenda'
<1>1. \A i \in DOMAIN b : \/ i \in DOMAIN t /\ b[i] = t[i]
                          \/ \E k \in DOMAIN agenda : k >= 2 /\ b[i] = agenda[k]
  BY StepPush DEF AjaxInv, Replaces
<1>2. agenda' = b
  OBVIOUS
<1>3. 1 \in DOMAIN agenda /\ agenda[1] = Head(agenda) /\ agenda[1].r = r
  BY HeadItem DEF AjaxInv, Step
<1>4. \A k \in DOMAIN agenda : k >= 2 =>
        /\ agenda[1].do \in Openings => agenda[k].r # r
        /\ agenda[k].do # "prefilter"
        /\ agenda[k].do \in Openings => Unopened(agenda[k].r, agenda[k].do)
        /\ agenda[k].r \in DOMAIN requests
  <2>1. DOMAIN agenda \subseteq Int /\ \A k \in DOMAIN agenda : agenda[k] \in Doings(Len(requests))
    BY LenProperties, ElementOfSeq DEF AjaxInv, Typed
  <2>2. DOMAIN requests = 1 .. Len(requests)
    BY HeadItem DEF AjaxInv, Step
  <2> QED BY <1>3, <2>1, <2>2 DEF AjaxInv, Openers, Opened, Doings
<1> HIDE DEF b
<1>5. ASSUME NEW k \in DOMAIN agenda, k >= 2, agenda[k].do \in Openings
      PROVE  \A q, kind : q = agenda[k].r /\ kind = agenda[k].do => Unopened(q, kind)'
  <2>1. SUFFICES ASSUME NEW q, NEW kind, q = agenda[k].r, kind = agenda[k].do
                 PROVE  Unopened(q, kind)'
    OBVIOUS
  <2>2. Unopened(q, kind) /\ kind \in Openings \ {"prefilter"} /\ q \in DOMAIN requests
    BY <1>4, <1>5, <2>1
  <2>3. CASE q = r
    BY <1>3, <1>4, <1>5, <2>1, <2>2, <2>3
  <2>4. CASE q # r
    BY <2>2, <2>4 DEF Only, Unopened
  <2> QED BY <2>3, <2>4
<1>6. ASSUME NEW i \in DOMAIN b, b[i].do \in Openings
      PROVE  \A q, kind : q = b[i].r /\ kind = b[i].do => Unopened(q, kind)'
  <2>1. CASE i \in DOMAIN t /\ b[i] = t[i]
    BY <1>6, <2>1
  <2>2. CASE \E k \in DOMAIN agenda : k >= 2 /\ b[i] = agenda[k]
    BY <1>5, <1>6, <2>2
  <2> QED BY <1>1, <2>1, <2>2
<1> QED BY <1>2, <1>6 DEF Opened

\* What ends a request is there only when it is over, if that holds of what the step
\* puts there and r is not begun anew above it.
LEMMA EndedStep ==
  ASSUME AjaxInv, NEW r, NEW t, Step(r, t), Only(r),
         \A i \in DOMAIN t :
           /\ t[i].do = "done" => ~requests'[t[i].r].listening
           /\ t[i].do \in Endings => Gone(t[i].r)',
         requests'[r].settled # "pending" \/ requests'[r].completed =>
           Gone(r)',
         requests'[r].listening => requests'[r].transport,
         requests'[r].transport => requests'[r].state # 2 \/ r \in cut',
         \/ Head(agenda).do \in Openings
         \/ /\ requests'[r].listening => requests[r].listening
            /\ Gone(r) => Gone(r)'
  PROVE  Ended'
<1> DEFINE b == agenda'
           Good(x) == /\ x.do = "done" => ~requests'[x.r].listening
                      /\ x.do \in Endings => Gone(x.r)'
<1>1. \A i \in DOMAIN b : \/ i \in DOMAIN t /\ b[i] = t[i]
                          \/ \E k \in DOMAIN agenda : k >= 2 /\ b[i] = agenda[k]
  BY StepPush DEF AjaxInv, Replaces
<1>2. 1 \in DOMAIN agenda /\ agenda[1] = Head(agenda) /\ agenda[1].r = r
  BY HeadItem DEF AjaxInv, Step
<1>3. DOMAIN requests = 1 .. Len(requests) /\ DOMAIN requests' = DOMAIN requests
  BY HeadItem, LenProperties DEF AjaxInv, Step, Only
<1>4. ASSUME NEW k \in DOMAIN agenda, k >= 2 PROVE \A x : x = agenda[k] => Good(x)
  <2> SUFFICES ASSUME NEW x, x = agenda[k] PROVE Good(x)
    OBVIOUS
  <2>1. /\ agenda[1].do \in Openings => x.r # r
        /\ x.do = "done" => ~requests[x.r].listening
        /\ x.do \in Endings => Gone(x.r)
        /\ x.r \in DOMAIN requests
    <3>1. DOMAIN agenda \subseteq Int /\ agenda[k] \in Doings(Len(requests))
      BY LenProperties, ElementOfSeq DEF AjaxInv, Typed
    <3> QED BY <1>2, <1>3, <1>4, <3>1 DEF AjaxInv, Openers, Ended, Doings
  <2>2. CASE x.r = r
    BY <1>2, <2>1, <2>2
  <2>3. CASE x.r # r
    <3>1. /\ requests'[x.r] = requests[x.r]
          /\ Gone(x.r) => Gone(x.r)'
      BY <2>1, <2>3 DEF Only, Gone
    <3> QED BY <2>1, <3>1
  <2> QED BY <2>2, <2>3
<1>5. \A i \in DOMAIN t : Good(t[i])
  OBVIOUS
<1>6. \A i \in DOMAIN b : \A x : x = b[i] => Good(x)
  <2> HIDE DEF Good, b
  <2> SUFFICES ASSUME NEW i \in DOMAIN b, NEW x, x = b[i] PROVE Good(x)
    OBVIOUS
  <2> QED BY <1>1, <1>4, <1>5
<1>7. ASSUME NEW q \in DOMAIN requests
      PROVE  /\ requests'[q].settled # "pending" \/ requests'[q].completed =>
                  Gone(q)'
             /\ requests'[q].listening => requests'[q].transport
             /\ requests'[q].transport => requests'[q].state # 2 \/ q \in cut'
  <2>1. CASE q = r
    BY <2>1
  <2>2. CASE q # r
    <3>1. /\ requests'[q] = requests[q] /\ (q \in cut => q \in cut')
          /\ Gone(q) => Gone(q)'
      BY <2>2 DEF Only, Gone
    <3> QED BY <3>1 DEF AjaxInv, Ended
  <2> QED BY <2>1, <2>2
<1>8. b = agenda'
  OBVIOUS
<1> HIDE DEF b
<1>9. \A i \in DOMAIN b : \A x : x = b[i] =>
        /\ x.do = "done" => ~requests'[x.r].listening
        /\ x.do \in Endings => Gone(x.r)'
  BY <1>6
<1> QED BY <1>3, <1>7, <1>8, <1>9 DEF Ended

\* No request for a script is cut short.
LEMMA ScriptsStep ==
  ASSUME AjaxInv, NEW r, NEW t, Step(r, t), Only(r),
         \A i \in DOMAIN t : t[i].do \in {"install", "send"} /\ Direct(t[i])' => i = 1 /\ Clear(t[i])',
         requests'[r].set.type = "jsonp" => ~requests'[r].globals /\ r \notin cut'
  PROVE  Scripts'
<1> DEFINE b == agenda'
           Good(x, i) == Direct(x)' => i = 1 /\ Clear(x)'
<1>1. \A i \in DOMAIN b : \/ i \in DOMAIN t /\ b[i] = t[i]
                          \/ \E k \in DOMAIN agenda : k >= 2 /\ b[i] = agenda[k]
  BY StepPush DEF AjaxInv, Replaces
<1>2. b = agenda'
  OBVIOUS
<1> HIDE DEF b
<1>3. DOMAIN requests = 1 .. Len(requests) /\ DOMAIN requests' = DOMAIN requests
  BY HeadItem, LenProperties DEF AjaxInv, Step, Only
<1>4. ASSUME NEW k \in DOMAIN agenda, k >= 2 PROVE \A x : x = agenda[k] => ~Direct(x)'
  <2> SUFFICES ASSUME NEW x, x = agenda[k] PROVE ~Direct(x)'
    OBVIOUS
  <2>1. ~Direct(x) /\ x.r \in DOMAIN requests
    <3>1. DOMAIN agenda \subseteq Int /\ agenda[k] \in Doings(Len(requests))
      BY LenProperties, ElementOfSeq DEF AjaxInv, Typed
    <3> QED BY <1>3, <1>4, <3>1 DEF AjaxInv, Scripts, Doings
  <2>2. requests'[x.r].set = requests[x.r].set
    BY <2>1 DEF Only
  <2> QED BY <2>1, <2>2 DEF Direct
<1>5. \A i \in DOMAIN t : \A x : x = t[i] => Good(x, i)
  BY DEF Direct
<1>6. \A i \in DOMAIN b : \A x : x = b[i] => Good(x, i)
  BY <1>1, <1>4, <1>5
<1>7. \A q \in DOMAIN requests : requests'[q].set.type = "jsonp" => ~requests'[q].globals /\ q \notin cut'
  BY DEF AjaxInv, Scripts, Only
<1>8. \A i \in DOMAIN b : \A x : x = b[i] => (Direct(x)' => i = 1 /\ Clear(x)')
  BY <1>6
<1> QED BY <1>2, <1>3, <1>7, <1>8 DEF Scripts

\* The names stay in order when the step leaves them and who is pending alone.
LEMMA NamesStep ==
  ASSUME AjaxInv, NEW r, Only(r), UNCHANGED page,
         requests'[r].name = requests[r].name, requests'[r].settled = requests[r].settled,
         requests'[r].overwritten = requests[r].overwritten
  PROVE  Names'
<1>1. DOMAIN requests = 1 .. Len(requests) /\ DOMAIN requests' = DOMAIN requests
  BY LenProperties DEF AjaxInv, Typed, Only
<1>2. \A q \in DOMAIN requests : /\ requests'[q].name = requests[q].name
                                 /\ requests'[q].settled = requests[q].settled
                                 /\ requests'[q].overwritten = requests[q].overwritten
  BY DEF Only
<1>3. \A n \in DOMAIN window : window[n] # 0 => window[n] \in DOMAIN requests
  <2>1. window \in [1 .. MaxRequests -> 0 .. Len(requests)] /\ Len(requests) \in Nat
    BY LenProperties DEF AjaxInv, Typed
  <2>2. \A n \in DOMAIN window : window[n] \in 0 .. Len(requests)
    BY <2>1
  <2> QED BY <1>1, <2>1, <2>2
<1> QED BY <1>1, <1>2, <1>3 DEF AjaxInv, Names, Only, page

\* Whoever is awaited stays so, but for r.
LEMMA AwaitedStep ==
  ASSUME AjaxInv, NEW r, Only(r), late \subseteq late',
         net'[r] = "sent" /\ requests'[r].set.type = "jsonp" =>
           requests'[r].name # 0 /\ (r \notin late' => requests'[r].listening)
  PROVE  Awaited' /\ Data'
<1>1. DOMAIN requests = 1 .. Len(requests) /\ DOMAIN requests' = DOMAIN requests
  BY LenProperties DEF AjaxInv, Typed, Only
<1>2. ASSUME NEW q \in DOMAIN requests
      PROVE  /\ net'[q] = "sent" /\ requests'[q].set.type = "jsonp" =>
                  requests'[q].name # 0 /\ (q \notin late' => requests'[q].listening)
             /\ requests'[q].data \in {0, q} \cup late'
  <2>1. CASE q = r
    BY <2>1 DEF AjaxInv, Data, Only
  <2>2. CASE q # r
    BY <2>2 DEF AjaxInv, Awaited, Data, Only
  <2> QED BY <2>1, <2>2
<1> QED BY <1>1, <1>2 DEF Awaited, Data

\* A record of a request with another value is one.
LEMMA Updated ==
  ASSUME Typed, NEW r \in DOMAIN requests, NEW v \in Requests,
         requests' = [requests EXCEPT ![r] = v]
  PROVE  /\ requests' \in Seq(Requests) /\ Len(requests') = Len(requests) /\ requests'[r] = v
         /\ DOMAIN requests' = DOMAIN requests
         /\ \A q \in DOMAIN requests : q # r => requests'[q] = requests[q]
<1>1. /\ requests \in [1 .. Len(requests) -> Requests] /\ DOMAIN requests = 1 .. Len(requests)
      /\ Len(requests) \in Nat
  BY LenProperties DEF Typed
<1>2. requests' \in [1 .. Len(requests) -> Requests]
  BY <1>1
<1> QED BY <1>1, <1>2

\* So is one of the states of the net.
LEMMA NetUpdated ==
  ASSUME Typed, NEW r \in DOMAIN requests, NEW v \in {"new", "sent", "over"},
         net' = [net EXCEPT ![r] = v]
  PROVE  /\ net' \in Seq({"new", "sent", "over"}) /\ Len(net') = Len(net) /\ net'[r] = v
         /\ \A q \in DOMAIN requests : q # r => net'[q] = net[q]
<1>1. /\ net \in [1 .. Len(net) -> {"new", "sent", "over"}] /\ DOMAIN requests = 1 .. Len(net)
      /\ Len(net) \in Nat
  BY LenProperties DEF Typed
<1>2. net' \in [1 .. Len(net) -> {"new", "sent", "over"}]
  BY <1>1
<1> QED BY <1>1, <1>2

\* The other variables keep their types.
TypesKept ==
  /\ log' \in Seq(Seq(Entries)) /\ Len(log') = Len(log)
  /\ active' \in Int /\ busy' \in BOOLEAN
  /\ late \subseteq late' /\ late' \subseteq DOMAIN requests
  /\ cut' \subseteq DOMAIN requests /\ timers' \subseteq DOMAIN requests
  /\ nonce' \in Nat \ {0} /\ oldCallbacks' \in Seq(1 .. nonce' - 1)
  /\ window' \in [1 .. MaxRequests -> 0 .. Len(requests)]

\* A step that keeps to the types.
LEMMA TypedStep ==
  ASSUME AjaxInv, NEW r, NEW t, Step(r, t), Only(r), TypesKept
  PROVE  Typed'
<1>1. Len(requests') = Len(requests) /\ DOMAIN requests' = DOMAIN requests
  BY LenProperties DEF AjaxInv, Typed, Only
<1>2. agenda' \in Seq(Doings(Len(requests)))
  BY StepPush DEF AjaxInv
<1> QED BY <1>1, <1>2 DEF AjaxInv, Typed, Only, TypesKept

\* What is put on the stack for r has an opener last only, and in the place of one.
Fits(r, t) ==
  /\ \A i, j \in DOMAIN t : i < j /\ t[i].do \in Openings => t[j].r # t[i].r
  /\ \A i \in DOMAIN t : t[i].do \in Openings => t[i].r = r /\ Head(agenda).do \in Openings
  /\ \A i \in DOMAIN t : /\ t[i].do \in {"prefilter", "ajaxStart", "ajaxStop"} => i = 1
                         /\ t[i].do = "ajaxSend" => i = 1 \/ t[i].r \in cut'
                         /\ t[i].do \in {"install", "send"} /\ Direct(t[i]) => i = 1

\* What is to be done is so that it can be.
Sound(x) ==
  /\ x.do \in Openings => Unopened(x.r, x.do)
  /\ x.do = "done" => ~requests[x.r].listening
  /\ x.do \in Endings => Gone(x.r)
  /\ x.do \in {"install", "send"} /\ Direct(x) => Clear(x)

\* A request's own part of Ended, Scripts and Awaited.
Steady(q) ==
  /\ requests[q].settled # "pending" \/ requests[q].completed => Gone(q)
  /\ requests[q].listening => requests[q].transport
  /\ requests[q].transport => requests[q].state # 2 \/ q \in cut
  /\ requests[q].set.type = "jsonp" => ~requests[q].globals /\ q \notin cut
  /\ net[q] = "sent" /\ requests[q].set.type = "jsonp" =>
       requests[q].name # 0 /\ (q \notin late => requests[q].listening)

\* What other code, under this one, relies on for r.
Lasting(r) ==
  /\ \A kind \in Openings \ {"prefilter"} : Unopened(r, kind) => Unopened(r, kind)'
  /\ requests'[r].listening => requests[r].listening
  /\ Gone(r) => Gone(r)'

\* The invariant is kept by a step that keeps to these.
LEMMA Kept ==
  ASSUME AjaxInv, NEW r, NEW t, Step(r, t), Only(r), TypesKept, Fits(r, t),
         \A i \in DOMAIN t : Sound(t[i])', Steady(r)',
         Head(agenda).do \in Openings \/ Lasting(r), Names'
  PROVE  AjaxInv'
<1>1. Typed'
  BY TypedStep
<1>2. Openers'
  BY OpenersStep DEF Fits, Only
<1>3. \A i \in DOMAIN t : t[i].do \in Openings => Unopened(t[i].r, t[i].do)'
  BY DEF Sound
<1>4. \A i \in DOMAIN t : /\ t[i].do = "done" => ~requests'[t[i].r].listening
                          /\ t[i].do \in Endings => Gone(t[i].r)'
  BY DEF Sound
<1>5. Opened'
  BY <1>3, OpenedStep DEF Lasting
<1>6. Ended'
  BY <1>4, EndedStep DEF Lasting, Steady
<1>7. Awaited' /\ Data'
  BY AwaitedStep DEF Steady, TypesKept
<1>8. Scripts'
  <2>1. \A i \in DOMAIN t : \A x : x = t[i] /\ x.do \in {"install", "send"} /\ Direct(x)' => i = 1 /\ Clear(x)'
    <3> SUFFICES ASSUME NEW i \in DOMAIN t, NEW x, x = t[i], x.do \in {"install", "send"}, Direct(x)'
                 PROVE  i = 1 /\ Clear(x)'
      OBVIOUS
    <3>1. x.r = r
      BY DEF Fits, Openings
    <3>2. requests'[x.r].set = requests[x.r].set
      BY <3>1 DEF Only
    <3>3. Direct(x)
      BY <3>2 DEF Direct
    <3>4. i = 1
      BY <3>3 DEF Fits
    <3>5. Sound(x)'
      OBVIOUS
    <3>6. Clear(x)'
      BY <3>5 DEF Sound
    <3> QED BY <3>4, <3>6
  <2>2. requests'[r].set.type = "jsonp" => ~requests'[r].globals /\ r \notin cut'
    BY DEF Steady
  <2> QED BY <2>1, <2>2, ScriptsStep
<1> QED BY <1>1, <1>2, <1>5, <1>6, <1>7, <1>8 DEF AjaxInv

\* What holds of the head.
LEMMA HeadSound ==
  ASSUME AjaxInv, agenda # << >>, NEW r, r = Head(agenda).r
  PROVE  /\ r \in DOMAIN requests /\ Steady(r) /\ requests[r] \in Requests
         /\ \A kind : kind = Head(agenda).do =>
              /\ kind \in Openings => Unopened(r, kind)
              /\ kind = "done" => ~requests[r].listening
              /\ kind \in Endings => Gone(r)
         /\ \A x : x = Head(agenda) => (Direct(x) => Clear(x))
<1>1. 1 \in DOMAIN agenda /\ agenda[1] = Head(agenda) /\ r \in DOMAIN requests
  BY HeadItem DEF AjaxInv
<1>2. requests[r] \in Requests
  BY <1>1, ElementOfSeq, LenProperties DEF AjaxInv, Typed
<1>3. Direct(Head(agenda)) => Clear(Head(agenda))
  BY <1>1 DEF AjaxInv, Scripts
<1>4. Steady(r)
  BY <1>1 DEF AjaxInv, Ended, Scripts, Awaited, Steady
<1> QED BY <1>1, <1>2, <1>3, <1>4 DEF AjaxInv, Opened, Ended

----------
(* The count, step by step.                                                *)

Startings == {"ajaxStart", "ajaxStop"}

\* What a step leaves to be taken off the count, and what is next.
LEMMA StackCount ==
  ASSUME AjaxInv, NEW r, NEW t, Step(r, t)
  PROVE  /\ \A q : Uncounting(q)' <=> \/ \E i \in DOMAIN t : t[i].do = "uncount" /\ t[i].r = q
                                      \/ \E k \in DOMAIN agenda : k >= 2 /\ agenda[k].do = "uncount"
                                                                  /\ agenda[k].r = q
         /\ \A what \in Startings : Heads(what)' <=> 1 \in DOMAIN t /\ t[1].do = what
<1> DEFINE b == agenda'
<1>1. /\ \A i \in DOMAIN b : \/ i \in DOMAIN t /\ b[i] = t[i]
                             \/ \E k \in DOMAIN agenda : k >= 2 /\ b[i] = agenda[k]
      /\ \A k \in DOMAIN t : k \in DOMAIN b /\ b[k] = t[k]
      /\ \A k \in DOMAIN agenda : k >= 2 => \E i \in DOMAIN b : b[i] = agenda[k]
      /\ b \in Seq(Doings(Len(requests)))
  BY StepPush DEF AjaxInv, Replaces
<1>2. agenda' = b
  OBVIOUS
<1>3. \A k \in DOMAIN agenda : k >= 2 => agenda[k].do \notin Startings
  BY LenProperties DEF AjaxInv, Openers, Startings, Typed
<1> HIDE DEF b
<1>4. ASSUME NEW q
      PROVE  Uncounting(q)' <=> \/ \E i \in DOMAIN t : t[i].do = "uncount" /\ t[i].r = q
                                \/ \E k \in DOMAIN agenda : k >= 2 /\ agenda[k].do = "uncount"
                                                            /\ agenda[k].r = q
  <2>1. Uncounting(q)' <=> \E i \in DOMAIN b : b[i].do = "uncount" /\ b[i].r = q
    BY <1>2 DEF Uncounting
  <2> QED BY <1>1, <2>1
<1>5. ASSUME NEW what \in Startings
      PROVE  Heads(what)' <=> 1 \in DOMAIN t /\ t[1].do = what
  <2>1. Heads(what)' <=> b # << >> /\ b[1].do = what
    BY <1>2 DEF Heads
  <2>2. b # << >> <=> 1 \in DOMAIN b
    BY <1>1, EmptySeq, LenProperties
  <2> QED BY <1>1, <1>3, <2>1, <2>2
<1> QED BY <1>4, <1>5

\* Each is still taken off once.
LEMMA SinglyStep ==
  ASSUME AjaxInv, NEW r, NEW t, Step(r, t), Singly,
         \A i, j \in DOMAIN t : i < j /\ t[i].do = "uncount" => t[j].do # "uncount",
         \A i \in DOMAIN t : t[i].do = "uncount" =>
           \A k \in DOMAIN agenda : k >= 2 /\ agenda[k].do = "uncount" => agenda[k].r # t[i].r
  PROVE  Singly'
<1> DEFINE b == agenda'
<1>1. \A i, j \in DOMAIN b : i < j =>
        \/ i \in DOMAIN t /\ j \in DOMAIN t /\ b[i] = t[i] /\ b[j] = t[j]
        \/ i \in DOMAIN t /\ b[i] = t[i] /\ \E l \in DOMAIN agenda : l >= 2 /\ b[j] = agenda[l]
        \/ \E k, l \in DOMAIN agenda : 2 <= k /\ k < l /\ b[i] = agenda[k] /\ b[j] = agenda[l]
  BY StepPush DEF AjaxInv, Replaces
<1>2. agenda' = b
  OBVIOUS
<1> HIDE DEF b
<1>3. \A i, j \in DOMAIN b : i < j /\ b[i].do = "uncount" /\ b[j].do = "uncount" => b[i].r # b[j].r
  BY <1>1 DEF Singly
<1> QED BY <1>2, <1>3 DEF Singly

\* The count does not change when nothing is taken off and r is as over as it was.
LEMMA TallyKept ==
  ASSUME AjaxInv, Tally, NEW r, NEW t, Step(r, t), Only(r), UNCHANGED <<active, busy>>, cut \subseteq cut',
         requests'[r].globals = requests[r].globals,
         cut' = {} => (requests'[r].state = 2 <=> requests[r].state = 2),
         Head(agenda).do \notin Startings \cup {"uncount"},
         \A i \in DOMAIN t : t[i].do \notin Startings \cup {"uncount"}
  PROVE  Tally'
<1> SUFFICES ASSUME cut' = {} PROVE Tally'
  BY DEF Tally
<1>1. cut = {} /\ DOMAIN requests' = DOMAIN requests
  BY LenProperties DEF Only, AjaxInv, Typed
<1>2. 1 \in DOMAIN agenda /\ agenda[1] = Head(agenda) /\ DOMAIN agenda \subseteq Nat \ {0}
      /\ \A k \in DOMAIN agenda : agenda[k].r \in DOMAIN requests
  <2>1. \A k \in DOMAIN agenda : agenda[k] \in Doings(Len(requests)) /\ k \in Nat \ {0}
    BY ElementOfSeq, LenProperties DEF AjaxInv, Typed
  <2> QED BY <2>1, HeadItem DEF AjaxInv, Step, Doings
<1>3. \A k \in DOMAIN agenda : agenda[k].do = "uncount" => k >= 2
  BY <1>2
<1>4. \A q : Uncounting(q)' <=> Uncounting(q)
  BY <1>3, StackCount DEF Uncounting
<1>5. ~Heads("ajaxStart")' /\ ~Heads("ajaxStop")' /\ ~Heads("ajaxStart") /\ ~Heads("ajaxStop")
  BY StackCount DEF Startings, Heads
<1>6. Singly'
  BY <1>1, SinglyStep DEF Tally
<1>7. \A q \in DOMAIN requests : /\ requests'[q].globals = requests[q].globals
                                 /\ requests'[q].state = 2 <=> requests[q].state = 2
  BY DEF Only
<1>8. Counted' = Counted
  BY <1>1, <1>4, <1>7 DEF Counted
<1>9. \A i \in DOMAIN agenda' : agenda'[i].do = "uncount" => requests'[agenda'[i].r].globals
  <2> DEFINE b == agenda'
  <2>1. \A i \in DOMAIN b : \/ i \in DOMAIN t /\ b[i] = t[i]
                            \/ \E k \in DOMAIN agenda : k >= 2 /\ b[i] = agenda[k]
    BY StepPush DEF AjaxInv, Replaces
  <2>2. agenda' = b
    OBVIOUS
  <2> HIDE DEF b
  <2>3. \A i \in DOMAIN b : b[i].do = "uncount" => requests'[b[i].r].globals
    BY <1>1, <1>2, <1>7, <2>1 DEF Tally
  <2> QED BY <2>2, <2>3
<1> QED BY <1>1, <1>5, <1>6, <1>8, <1>9 DEF Tally

\* The requests counted are finitely many.
LEMMA CountedFinite ==
  ASSUME AjaxInv
  PROVE  IsFiniteSet(Counted) /\ Counted \subseteq DOMAIN requests /\ Cardinality(Counted) \in Nat
<1>1. DOMAIN requests = 1 .. Len(requests) /\ Len(requests) \in Nat
  BY LenProperties DEF AjaxInv, Typed
<1>2. IsFiniteSet(1 .. Len(requests))
  BY <1>1, FS_Interval
<1>3. Counted \subseteq 1 .. Len(requests)
  BY <1>1 DEF Counted
<1>4. IsFiniteSet(Counted)
  BY <1>2, <1>3, FS_Subset
<1> QED BY <1>1, <1>3, <1>4, FS_CardinalityType

\* The count when r, which fires globals, is begun.
LEMMA TallyStart ==
  ASSUME AjaxInv, Tally, NEW r, NEW t, Step(r, t), Only(r), UNCHANGED <<busy, cut>>, active' = active + 1,
         ~requests[r].globals, requests'[r].globals, requests[r].state # 2, requests'[r].state # 2,
         Head(agenda).do \notin Startings \cup {"uncount"},
         \A i \in DOMAIN t : t[i].do \notin {"ajaxStop", "uncount"},
         1 \in DOMAIN t /\ t[1].do = "ajaxStart" <=> active = 0
  PROVE  Tally'
<1> SUFFICES ASSUME cut = {} PROVE Tally'
  BY DEF Tally
<1>1. DOMAIN requests' = DOMAIN requests /\ r \in DOMAIN requests
  BY LenProperties, HeadItem DEF Only, AjaxInv, Typed, Step
<1>2. 1 \in DOMAIN agenda /\ agenda[1] = Head(agenda) /\ DOMAIN agenda \subseteq Nat \ {0}
      /\ \A k \in DOMAIN agenda : agenda[k].r \in DOMAIN requests
  <2>1. \A k \in DOMAIN agenda : agenda[k] \in Doings(Len(requests)) /\ k \in Nat \ {0}
    BY ElementOfSeq, LenProperties DEF AjaxInv, Typed
  <2> QED BY <2>1, HeadItem DEF AjaxInv, Step, Doings
<1>3. \A k \in DOMAIN agenda : agenda[k].do = "uncount" => k >= 2
  BY <1>2
<1>4. \A q : Uncounting(q)' <=> Uncounting(q)
  BY <1>3, StackCount DEF Uncounting
<1>5. /\ Heads("ajaxStart")' <=> active = 0
      /\ ~Heads("ajaxStop")' /\ ~Heads("ajaxStart") /\ ~Heads("ajaxStop")
  BY StackCount DEF Startings, Heads
<1>6. Singly'
  BY SinglyStep DEF Tally
<1>7. Counted' = Counted \cup {r} /\ r \notin Counted
  <2>1. \A q \in DOMAIN requests : q # r => requests'[q] = requests[q]
    BY DEF Only
  <2> QED BY <1>1, <1>4, <2>1 DEF Counted
<1>8. active' = Cardinality(Counted') /\ active \in Nat /\ active' > 0
  <2>1. active = Cardinality(Counted) /\ active \in Nat
    BY CountedFinite DEF Tally
  <2>2. Cardinality(Counted \cup {r}) = Cardinality(Counted) + 1
    BY <1>7, CountedFinite, FS_AddElement
  <2> QED BY <1>7, <2>1, <2>2
<1>9. \A i \in DOMAIN agenda' : agenda'[i].do = "uncount" => requests'[agenda'[i].r].globals
  <2> DEFINE b == agenda'
  <2>1. \A i \in DOMAIN b : \/ i \in DOMAIN t /\ b[i] = t[i]
                            \/ \E k \in DOMAIN agenda : k >= 2 /\ b[i] = agenda[k]
    BY StepPush DEF AjaxInv, Replaces
  <2>2. agenda' = b
    OBVIOUS
  <2> HIDE DEF b
  <2>3. \A q \in DOMAIN requests : requests[q].globals => requests'[q].globals
    BY DEF Only
  <2>4. \A i \in DOMAIN b : b[i].do = "uncount" => requests'[b[i].r].globals
    BY <1>2, <2>1, <2>3 DEF Tally
  <2> QED BY <2>2, <2>4
<1>10. ~Heads("ajaxStart")' => busy
  BY <1>5, <1>8 DEF Tally
<1> QED BY <1>5, <1>6, <1>8, <1>9, <1>10 DEF Tally

\* The count when r is over, and is to be taken off if it is counted.
LEMMA TallyDone ==
  ASSUME AjaxInv, Tally, NEW r, NEW t, Step(r, t), Only(r), UNCHANGED <<active, busy, cut>>,
         requests'[r].globals = requests[r].globals, requests[r].state # 2, requests'[r].state = 2,
         Head(agenda).do \notin Startings \cup {"uncount"},
         \A i \in DOMAIN t : t[i].do \notin Startings /\ t[i].r = r,
         \A i, j \in DOMAIN t : i < j /\ t[i].do = "uncount" => t[j].do # "uncount",
         (\E i \in DOMAIN t : t[i].do = "uncount") <=> requests[r].globals
  PROVE  Tally'
<1> SUFFICES ASSUME cut = {} PROVE Tally'
  BY DEF Tally
<1>1. DOMAIN requests' = DOMAIN requests /\ r \in DOMAIN requests
  BY LenProperties, HeadItem DEF Only, AjaxInv, Typed, Step
<1>2. 1 \in DOMAIN agenda /\ agenda[1] = Head(agenda) /\ DOMAIN agenda \subseteq Nat \ {0}
      /\ \A k \in DOMAIN agenda : agenda[k].r \in DOMAIN requests
  <2>1. \A k \in DOMAIN agenda : agenda[k] \in Doings(Len(requests)) /\ k \in Nat \ {0}
    BY ElementOfSeq, LenProperties DEF AjaxInv, Typed
  <2> QED BY <2>1, HeadItem DEF AjaxInv, Step, Doings
<1>3. \A k \in DOMAIN agenda : agenda[k].do = "uncount" => k >= 2 /\ agenda[k].r # r
  BY <1>2 DEF AjaxInv, Ended, Endings, Gone
<1>4. /\ \A q : q # r => (Uncounting(q)' <=> Uncounting(q))
      /\ Uncounting(r)' <=> requests[r].globals
  BY <1>3, StackCount DEF Uncounting
<1>5. ~Heads("ajaxStart")' /\ ~Heads("ajaxStop")' /\ ~Heads("ajaxStart") /\ ~Heads("ajaxStop")
  BY StackCount DEF Startings, Heads
<1>6. Singly'
  BY <1>3, SinglyStep DEF Tally
<1>7. Counted' = Counted
  <2>1. \A q \in DOMAIN requests : q # r => requests'[q] = requests[q]
    BY DEF Only
  <2> QED BY <1>1, <1>4, <2>1 DEF Counted
<1>8. \A i \in DOMAIN agenda' : agenda'[i].do = "uncount" => requests'[agenda'[i].r].globals
  <2> DEFINE b == agenda'
  <2>1. \A i \in DOMAIN b : \/ i \in DOMAIN t /\ b[i] = t[i]
                            \/ \E k \in DOMAIN agenda : k >= 2 /\ b[i] = agenda[k]
    BY StepPush DEF AjaxInv, Replaces
  <2>2. agenda' = b
    OBVIOUS
  <2> HIDE DEF b
  <2>3. \A q \in DOMAIN requests : requests[q].globals => requests'[q].globals
    BY DEF Only
  <2>4. \A i \in DOMAIN b : b[i].do = "uncount" => requests'[b[i].r].globals
    BY <1>1, <1>2, <2>1, <2>3 DEF Tally
  <2> QED BY <2>2, <2>4
<1> QED BY <1>5, <1>6, <1>7, <1>8 DEF Tally

\* The count when r is taken off.
LEMMA TallyUncount ==
  ASSUME AjaxInv, Tally, NEW r, NEW t, Step(r, t), UNCHANGED <<requests, busy, cut>>, active' = active - 1,
         Head(agenda).do = "uncount",
         \A i \in DOMAIN t : t[i].do \notin {"ajaxStart", "uncount"},
         1 \in DOMAIN t /\ t[1].do = "ajaxStop" <=> active' = 0
  PROVE  Tally'
<1> SUFFICES ASSUME cut = {} PROVE Tally'
  BY DEF Tally
<1>1. r \in DOMAIN requests
  BY HeadItem DEF AjaxInv, Step
<1>2. 1 \in DOMAIN agenda /\ agenda[1] = Head(agenda) /\ DOMAIN agenda \subseteq Nat \ {0} /\ agenda[1].r = r
  <2>1. \A k \in DOMAIN agenda : k \in Nat \ {0}
    BY LenProperties DEF AjaxInv, Typed
  <2> QED BY <2>1, HeadItem DEF AjaxInv, Step
<1>3. \A k \in DOMAIN agenda : k >= 2 /\ agenda[k].do = "uncount" => agenda[k].r # r
  BY <1>2 DEF Tally, Singly
<1>4. \A q : Uncounting(q)' <=> Uncounting(q) /\ q # r
  <2>1. \A q : Uncounting(q)' <=> \E k \in DOMAIN agenda : k >= 2 /\ agenda[k].do = "uncount" /\ agenda[k].r = q
    BY StackCount
  <2> QED BY <1>2, <1>3, <2>1 DEF Uncounting
<1>5. /\ ~Heads("ajaxStart")' /\ ~Heads("ajaxStart") /\ ~Heads("ajaxStop")
      /\ Heads("ajaxStop")' <=> active' = 0
  BY StackCount DEF Startings, Heads
<1>6. Singly'
  BY SinglyStep DEF Tally
<1>7. /\ requests[r].globals /\ requests[r].state = 2 /\ Uncounting(r)
  BY <1>2 DEF Tally, Uncounting, AjaxInv, Ended, Endings, Gone
<1>8. Counted' = Counted \ {r} /\ r \in Counted
  BY <1>1, <1>4, <1>7 DEF Counted
<1>9. active' = Cardinality(Counted') /\ active > 0 /\ active' \in Nat
  <2>1. active = Cardinality(Counted) /\ active \in Nat
    BY CountedFinite DEF Tally
  <2>2. Cardinality(Counted \ {r}) = Cardinality(Counted) - 1
    BY <1>8, CountedFinite, FS_RemoveElement
  <2>3. Cardinality(Counted \ {r}) \in Nat
    BY CountedFinite, FS_RemoveElement, FS_CardinalityType
  <2> QED BY <1>8, <2>1, <2>2, <2>3
<1>10. \A i \in DOMAIN agenda' : agenda'[i].do = "uncount" => requests'[agenda'[i].r].globals
  <2> DEFINE b == agenda'
  <2>1. \A i \in DOMAIN b : \/ i \in DOMAIN t /\ b[i] = t[i]
                            \/ \E k \in DOMAIN agenda : k >= 2 /\ b[i] = agenda[k]
    BY StepPush DEF AjaxInv, Replaces
  <2>2. agenda' = b
    OBVIOUS
  <2> HIDE DEF b
  <2>3. \A i \in DOMAIN b : b[i].do = "uncount" => requests'[b[i].r].globals
    BY <2>1 DEF Tally
  <2> QED BY <2>2, <2>3
<1>11. busy'
  BY <1>5, <1>9 DEF Tally
<1>12. /\ Heads("ajaxStart")' => active' > 0
       /\ Heads("ajaxStop")' => active' = 0
       /\ ~Heads("ajaxStart")' /\ ~Heads("ajaxStop")' => (busy' <=> active' > 0)
  <2>1. \A n \in Nat : n # 0 => n > 0
    OBVIOUS
  <2>2. active' \in Nat
    BY <1>9
  <2>3. active' # 0 => active' > 0
    BY <2>1, <2>2
  <2> QED BY <1>5, <1>11, <2>3
<1> QED BY <1>6, <1>9, <1>10, <1>12 DEF Tally

\* busy once it has been told.
LEMMA TallyTold ==
  ASSUME AjaxInv, Tally, NEW r, NEW t, Step(r, t), UNCHANGED <<requests, active, cut>>,
         Head(agenda).do \in Startings, busy' <=> Head(agenda).do = "ajaxStart",
         \A i \in DOMAIN t : t[i].do \notin Startings \cup {"uncount"}
  PROVE  Tally'
<1> SUFFICES ASSUME cut = {} PROVE Tally'
  BY DEF Tally
<1>1. 1 \in DOMAIN agenda /\ agenda[1] = Head(agenda) /\ DOMAIN agenda \subseteq Nat \ {0}
  <2>1. \A k \in DOMAIN agenda : k \in Nat \ {0}
    BY LenProperties DEF AjaxInv, Typed
  <2> QED BY <2>1, HeadItem DEF AjaxInv, Step
<1>2. \A k \in DOMAIN agenda : agenda[k].do = "uncount" => k >= 2
  BY <1>1 DEF Startings
<1>3. \A q : Uncounting(q)' <=> Uncounting(q)
  BY <1>2, StackCount DEF Uncounting
<1>4. /\ ~Heads("ajaxStart")' /\ ~Heads("ajaxStop")'
      /\ Heads("ajaxStart") <=> Head(agenda).do = "ajaxStart"
      /\ Heads("ajaxStop") <=> Head(agenda).do = "ajaxStop"
  <2>1. agenda # << >>
    BY DEF Step
  <2> QED BY <2>1, StackCount DEF Startings, Heads
<1>5. Singly'
  BY SinglyStep DEF Tally
<1>6. Counted' = Counted
  BY <1>3 DEF Counted
<1>7. \A i \in DOMAIN agenda' : agenda'[i].do = "uncount" => requests'[agenda'[i].r].globals
  <2> DEFINE b == agenda'
  <2>1. \A i \in DOMAIN b : \/ i \in DOMAIN t /\ b[i] = t[i]
                            \/ \E k \in DOMAIN agenda : k >= 2 /\ b[i] = agenda[k]
    BY StepPush DEF AjaxInv, Replaces
  <2>2. agenda' = b
    OBVIOUS
  <2> HIDE DEF b
  <2>3. \A i \in DOMAIN b : b[i].do = "uncount" => requests'[b[i].r].globals
    BY <2>1 DEF Tally
  <2> QED BY <2>2, <2>3
<1>8. active = Cardinality(Counted) /\ active \in Nat
  BY CountedFinite DEF Tally
<1>9. busy' <=> active > 0
  BY <1>4, <1>8 DEF Tally, Startings
<1> QED BY <1>4, <1>5, <1>6, <1>7, <1>8, <1>9 DEF Tally

----------
(* The order, step by step.                                                *)

\* The places in the order.
LEMMA Places ==
  /\ Place("ajaxSend") = 1 /\ Place("settle") = 2 /\ Place("callback") = 2 /\ Place("statusCode") = 3
  /\ Place("ajaxEvent") = 4 /\ Place("complete") = 5 /\ Place("completed") = 5
  /\ Place("ajaxComplete") = 6 /\ Place("uncount") = 7
  /\ \A what \in Logged : Rank(what) = Place(what) /\ what \in Tellings
<1>1. /\ Rank("ajaxSend") = 1 /\ Rank("callback") = 2 /\ Rank("statusCode") = 3 /\ Rank("ajaxEvent") = 4
      /\ Rank("completed") = 5 /\ Rank("ajaxComplete") = 6
  BY DEF Rank
<1>2. /\ Place("ajaxSend") = 1 /\ Place("callback") = 2 /\ Place("statusCode") = 3
      /\ Place("ajaxEvent") = 4 /\ Place("completed") = 5 /\ Place("ajaxComplete") = 6
  BY <1>1 DEF Place, Logged
<1>3. Place("settle") = 2 /\ Place("complete") = 5 /\ Place("uncount") = 7
  BY DEF Place, Logged
<1>4. \A what \in Logged : Rank(what) = Place(what) /\ what \in Tellings
  BY <1>1, <1>2 DEF Logged, Tellings, Endings
<1> QED BY <1>2, <1>3, <1>4

\* What takes another's part in the order: itself, of what is early the next, and what
\* settle and complete lead to.
Alike(x, y) ==
  x.r = y.r /\ \/ x = y
               \/ x.do \in Early /\ y.do \in Early
               \/ x.do = "callback" /\ y.do = "settle" /\ x.ok = y.ok
               \/ x.do = "completed" /\ y.do = "complete" /\ x.ok = y.ok

\* What tells of a request, or is early in it.
Mine(x, q) == x.r = q /\ x.do \in Tellings \cup Early

\* What is alike tells the same.
LEMMA AlikeTells ==
  ASSUME NEW x, NEW y, NEW q, Alike(x, y), Tells(x, q)
  PROVE  Tells(y, q) /\ Place(x.do) = Place(y.do) /\ x.ok = y.ok
<1>1. Tellings \cap Early = {}
  BY DEF Tellings, Early, Openings, Endings
<1>2. {"settle", "complete"} \subseteq Tellings
  BY DEF Tellings, Endings
<1> QED BY <1>1, <1>2, Places DEF Alike, Tells

\* The part of request q in the order.
Tale(q) == InOrder(q) /\ Untold(q) /\ ToldAll(q)

\* It stays in order when nothing is told, what is there was there or is alike, and what
\* q must still be told is not lost.
LEMMA TaleMoved ==
  ASSUME NEW q, Tale(q), log'[q] = log[q],
         \A i \in DOMAIN agenda' : Mine(agenda'[i], q) => \E k \in DOMAIN agenda : Alike(agenda'[i], agenda[k]),
         \A i, j \in DOMAIN agenda' : i < j /\ Tells(agenda'[i], q) /\ Mine(agenda'[j], q) =>
           \E k, l \in DOMAIN agenda : k < l /\ Alike(agenda'[i], agenda[k]) /\ Alike(agenda'[j], agenda[l]),
         \A k \in DOMAIN agenda :
           /\ agenda[k].r = q
           /\ agenda[k].do = "ajaxComplete" \/ (agenda[k].do \in {"complete", "completed"} /\ requests[q].installed)
           => \E i \in DOMAIN agenda' : Alike(agenda'[i], agenda[k]),
         requests'[q].state = 2 <=> requests[q].state = 2,
         requests[q].state = 2 => /\ requests'[q].globals = requests[q].globals
                                  /\ requests'[q].installed = requests[q].installed,
         \A i \in DOMAIN agenda' : agenda'[i].r = q =>
           /\ agenda'[i].do = "complete" => ~requests'[q].completed
           /\ agenda'[i].do = "ajaxComplete" => requests'[q].globals
  PROVE  Tale(q)'
<1> DEFINE b == agenda'
<1>1. agenda' = b
  OBVIOUS
<1> HIDE DEF b
<1>2. {"ajaxSend", "complete", "completed", "ajaxComplete"} \subseteq Tellings /\ Tellings \cap Early = {}
      /\ "callback" \notin Early /\ "completed" \notin Early /\ "ajaxSend" \notin Early
  BY DEF Tellings, Early, Openings, Endings
<1>3. InOrder(q)'
  <2>1. ASSUME NEW i \in DOMAIN b, NEW j \in DOMAIN b, i < j, Tells(b[i], q), Tells(b[j], q)
        PROVE  Place(b[i].do) < Place(b[j].do) /\ b[i].ok = b[j].ok
    <3>1. PICK k, l \in DOMAIN agenda : k < l /\ Alike(b[i], agenda[k]) /\ Alike(b[j], agenda[l])
      BY <1>1, <2>1 DEF Mine, Tells
    <3>2. /\ Tells(agenda[k], q) /\ Place(b[i].do) = Place(agenda[k].do) /\ b[i].ok = agenda[k].ok
          /\ Tells(agenda[l], q) /\ Place(b[j].do) = Place(agenda[l].do) /\ b[j].ok = agenda[l].ok
      BY <2>1, <3>1, AlikeTells
    <3> QED BY <3>1, <3>2 DEF Tale, InOrder
  <2>2. ASSUME NEW i \in DOMAIN log[q], NEW j \in DOMAIN b, Tells(b[j], q)
        PROVE  /\ Rank(log[q][i].what) < Place(b[j].do)
               /\ log[q][i].what # "ajaxSend" => log[q][i].ok = b[j].ok
    <3>1. PICK l \in DOMAIN agenda : Alike(b[j], agenda[l])
      BY <1>1, <2>2 DEF Mine, Tells
    <3>2. Tells(agenda[l], q) /\ Place(b[j].do) = Place(agenda[l].do) /\ b[j].ok = agenda[l].ok
      BY <2>2, <3>1, AlikeTells
    <3> QED BY <3>1, <3>2 DEF Tale, InOrder
  <2>3. \A i, j \in DOMAIN log[q] : i < j =>
          /\ Rank(log[q][i].what) < Rank(log[q][j].what)
          /\ log[q][i].what # "ajaxSend" => log[q][i].ok = log[q][j].ok
    BY DEF Tale, InOrder
  <2> QED BY <1>1, <2>1, <2>2, <2>3 DEF InOrder
<1>4. Untold(q)'
  <2>1. ASSUME NEW i \in DOMAIN b, b[i].r = q
        PROVE  /\ b[i].do \in Early /\ requests'[q].state # 2 => log[q] = << >>
               /\ b[i].do = "ajaxSend" => requests'[q].state # 2
    <3>1. CASE Mine(b[i], q)
      <4>1. PICK k \in DOMAIN agenda : Alike(b[i], agenda[k])
        BY <1>1, <3>1
      <4>2. /\ agenda[k].r = q
            /\ b[i].do = "ajaxSend" => agenda[k].do = "ajaxSend"
            /\ b[i].do \in Early => agenda[k].do \in Early
        BY <1>2, <2>1, <4>1 DEF Alike
      <4> QED BY <2>1, <4>1, <4>2 DEF Tale, Untold
    <3>2. CASE ~Mine(b[i], q)
      BY <1>2, <2>1, <3>2 DEF Mine
    <3> QED BY <3>1, <3>2
  <2>2. ASSUME NEW i \in DOMAIN b, NEW j \in DOMAIN b, i < j, b[i].do = "ajaxSend", b[i].r = q, b[j].r = q
        PROVE  b[j].do \notin Early
    <3> SUFFICES ASSUME b[j].do \in Early PROVE FALSE
      OBVIOUS
    <3>1. PICK k, l \in DOMAIN agenda : k < l /\ Alike(b[i], agenda[k]) /\ Alike(b[j], agenda[l])
      BY <1>1, <1>2, <2>2 DEF Mine, Tells
    <3>2. /\ agenda[k].do = "ajaxSend" /\ agenda[k].r = q /\ agenda[l].do \in Early /\ agenda[l].r = q
      BY <1>2, <2>2, <3>1 DEF Alike
    <3> QED BY <3>1, <3>2 DEF Tale, Untold
  <2>3. requests'[q].state # 2 => \A i \in DOMAIN log[q] : log[q][i].what = "ajaxSend"
    BY DEF Tale, Untold
  <2> QED BY <1>1, <2>1, <2>2, <2>3 DEF Untold
<1>5. ToldAll(q)'
  <2>1. ASSUME requests'[q].state = 2, requests'[q].globals
        PROVE  \/ \E i \in DOMAIN b : b[i].r = q /\ b[i].do = "ajaxComplete"
               \/ log[q] # << >> /\ Last(log[q]).what = "ajaxComplete"
    <3>1. CASE \E k \in DOMAIN agenda : agenda[k].r = q /\ agenda[k].do = "ajaxComplete"
      <4>1. PICK k \in DOMAIN agenda : agenda[k].r = q /\ agenda[k].do = "ajaxComplete"
        BY <3>1
      <4>2. PICK i \in DOMAIN b : Alike(b[i], agenda[k])
        BY <1>1, <4>1
      <4>3. b[i].r = q /\ b[i].do = "ajaxComplete"
        BY <1>2, <4>1, <4>2 DEF Alike
      <4> QED BY <4>3
    <3> QED BY <2>1, <3>1 DEF Tale, ToldAll
  <2>2. ASSUME requests'[q].state = 2, ~requests'[q].globals, requests'[q].installed
        PROVE  \/ \E i \in DOMAIN b : b[i].r = q /\ b[i].do \in {"complete", "completed"}
               \/ log[q] # << >> /\ Last(log[q]).what = "completed"
    <3>1. CASE \E k \in DOMAIN agenda : agenda[k].r = q /\ agenda[k].do \in {"complete", "completed"}
      <4>1. PICK k \in DOMAIN agenda : agenda[k].r = q /\ agenda[k].do \in {"complete", "completed"}
        BY <3>1
      <4>2. PICK i \in DOMAIN b : Alike(b[i], agenda[k])
        BY <1>1, <2>2, <4>1
      <4>3. b[i].r = q /\ b[i].do \in {"complete", "completed"}
        BY <1>2, <4>1, <4>2 DEF Alike
      <4> QED BY <4>3
    <3> QED BY <2>2, <3>1 DEF Tale, ToldAll
  <2> QED BY <1>1, <2>1, <2>2 DEF ToldAll
<1> QED BY <1>3, <1>4, <1>5 DEF Tale

\* So it does when a step puts on the stack of q at most what is alike to the head.
LEMMA TaleStep ==
  ASSUME AjaxInv, NEW r, NEW t, Step(r, t), NEW q \in DOMAIN requests, Tale(q), log'[q] = log[q],
         \A i \in DOMAIN t : Mine(t[i], q) =>
           /\ Alike(t[i], Head(agenda)) /\ t[i].do \notin {"complete", "ajaxComplete"}
           /\ t[i].do \in Tellings => \A j \in DOMAIN t : j = i,
         q = r => \/ Head(agenda).do \notin {"ajaxComplete", "complete", "completed"}
                  \/ Head(agenda).do # "ajaxComplete" /\ ~requests[q].installed
                  \/ \E i \in DOMAIN t : Alike(t[i], Head(agenda)),
         requests'[q].state = 2 <=> requests[q].state = 2,
         requests[q].state = 2 => /\ requests'[q].globals = requests[q].globals
                                  /\ requests'[q].installed = requests[q].installed,
         requests'[q].completed = requests[q].completed \/ (q = r /\ Head(agenda).do = "complete"),
         requests'[q].globals = requests[q].globals \/ (q = r /\ Head(agenda).do \in Openings)
  PROVE  Tale(q)'
<1> DEFINE b == agenda'
<1>1. /\ \A i \in DOMAIN b : \/ i \in DOMAIN t /\ b[i] = t[i]
                             \/ \E k \in DOMAIN agenda : k >= 2 /\ b[i] = agenda[k]
      /\ \A i, j \in DOMAIN b : i < j =>
           \/ i \in DOMAIN t /\ j \in DOMAIN t /\ b[i] = t[i] /\ b[j] = t[j]
           \/ i \in DOMAIN t /\ b[i] = t[i] /\ \E l \in DOMAIN agenda : l >= 2 /\ b[j] = agenda[l]
           \/ \E k, l \in DOMAIN agenda : 2 <= k /\ k < l /\ b[i] = agenda[k] /\ b[j] = agenda[l]
      /\ \A k \in DOMAIN t : k \in DOMAIN b /\ b[k] = t[k]
      /\ \A k \in DOMAIN agenda : k >= 2 => \E i \in DOMAIN b : b[i] = agenda[k]
  BY StepPush DEF AjaxInv, Replaces
<1>2. b = agenda'
  OBVIOUS
<1> HIDE DEF b
<1>3. /\ 1 \in DOMAIN agenda /\ agenda[1] = Head(agenda) /\ agenda[1].r = r
      /\ DOMAIN agenda \subseteq Nat \ {0} /\ DOMAIN b \subseteq Int /\ DOMAIN t \subseteq Int
  <2>1. agenda \in Seq(Doings(Len(requests))) /\ t \in Seq(Doings(Len(requests)))
        /\ b \in Seq(Doings(Len(requests)))
    BY <1>2, StepPush DEF AjaxInv, Typed, Step
  <2>2. DOMAIN agenda \subseteq Nat \ {0} /\ DOMAIN b \subseteq Int /\ DOMAIN t \subseteq Int
    BY <2>1, LenProperties
  <2> QED BY <2>2, HeadItem DEF AjaxInv, Step
<1>4. \A x : Alike(x, x)
  BY DEF Alike
<1>5. ASSUME NEW i \in DOMAIN b, Mine(b[i], q)
      PROVE  \E k \in DOMAIN agenda : Alike(b[i], agenda[k])
  BY <1>1, <1>3, <1>4, <1>5
<1>6. ASSUME NEW i \in DOMAIN b, NEW j \in DOMAIN b, i < j, Tells(b[i], q), Mine(b[j], q)
      PROVE  \E k, l \in DOMAIN agenda : k < l /\ Alike(b[i], agenda[k]) /\ Alike(b[j], agenda[l])
  <2>1. Mine(b[i], q) /\ b[i].do \in Tellings
    BY <1>6 DEF Mine, Tells
  <2>2. CASE i \in DOMAIN t /\ j \in DOMAIN t /\ b[i] = t[i] /\ b[j] = t[j]
    BY <1>3, <1>6, <2>1, <2>2
  <2>3. CASE i \in DOMAIN t /\ b[i] = t[i] /\ \E l \in DOMAIN agenda : l >= 2 /\ b[j] = agenda[l]
    <3>1. PICK l \in DOMAIN agenda : l >= 2 /\ b[j] = agenda[l]
      BY <2>3
    <3>2. 1 < l /\ Alike(b[i], agenda[1]) /\ Alike(b[j], agenda[l])
      BY <1>3, <1>4, <2>1, <2>3, <3>1
    <3> QED BY <1>3, <3>2
  <2>4. CASE \E k, l \in DOMAIN agenda : 2 <= k /\ k < l /\ b[i] = agenda[k] /\ b[j] = agenda[l]
    BY <1>4, <2>4
  <2> QED BY <1>1, <1>6, <2>2, <2>3, <2>4
<1>7. ASSUME NEW k \in DOMAIN agenda, agenda[k].r = q,
             agenda[k].do = "ajaxComplete" \/ (agenda[k].do \in {"complete", "completed"} /\ requests[q].installed)
      PROVE  \E i \in DOMAIN b : Alike(b[i], agenda[k])
  <2>1. CASE k >= 2
    BY <1>1, <1>4, <2>1
  <2>2. CASE ~(k >= 2)
    <3>1. agenda[k] = Head(agenda) /\ q = r
      BY <1>3, <1>7, <2>2
    <3>2. PICK i \in DOMAIN t : Alike(t[i], Head(agenda))
      BY <1>7, <3>1
    <3> QED BY <1>1, <3>1, <3>2
  <2> QED BY <2>1, <2>2
<1>8. ASSUME NEW i \in DOMAIN b, b[i].r = q
      PROVE  /\ b[i].do = "complete" => ~requests'[q].completed
             /\ b[i].do = "ajaxComplete" => requests'[q].globals
  <2>1. {"complete", "ajaxComplete"} \subseteq Tellings
    BY DEF Tellings, Endings
  <2> SUFFICES ASSUME b[i].do \in {"complete", "ajaxComplete"}
               PROVE  /\ b[i].do = "complete" => ~requests'[q].completed
                      /\ b[i].do = "ajaxComplete" => requests'[q].globals
    OBVIOUS
  <2>2. PICK k \in DOMAIN agenda : k >= 2 /\ b[i] = agenda[k]
    BY <1>1, <1>8, <2>1 DEF Mine
  <2>3. /\ b[i].do = "complete" => ~requests[q].completed
        /\ b[i].do = "ajaxComplete" => requests[q].globals
    BY <1>8, <2>2 DEF Tale, Untold
  <2>4. b[i].do = "complete" => ~(q = r /\ Head(agenda).do = "complete")
    <3> SUFFICES ASSUME b[i].do = "complete", q = r, Head(agenda).do = "complete" PROVE FALSE
      OBVIOUS
    <3>1. Tells(agenda[1], q) /\ Tells(agenda[k], q) /\ 1 < k /\ agenda[k].do = agenda[1].do
      BY <1>3, <1>8, <2>1, <2>2 DEF Tells
    <3>2. Place(agenda[1].do) < Place(agenda[k].do)
      BY <1>3, <3>1 DEF Tale, InOrder
    <3>3. Place("complete") = 5
      BY Places
    <3> QED BY <1>3, <3>1, <3>2, <3>3
  <2>5. ~(q = r /\ Head(agenda).do \in Openings)
    <3>1. 1 < k
      BY <1>3, <2>2
    <3> QED BY <1>3, <1>8, <2>2, <3>1 DEF AjaxInv, Openers
  <2> QED BY <2>3, <2>4, <2>5
<1> QED BY <1>2, <1>5, <1>6, <1>7, <1>8, TaleMoved

\* The requests other than r stay in order.
LEMMA OthersTold ==
  ASSUME AjaxInv, NEW r, NEW t, Step(r, t), Only(r), NEW q \in DOMAIN requests, q # r, Tale(q),
         log'[q] = log[q], \A i \in DOMAIN t : t[i].do \in Tellings \cup Early => t[i].r = r
  PROVE  Tale(q)'
<1>1. requests'[q] = requests[q] /\ \A i \in DOMAIN t : ~Mine(t[i], q)
  BY DEF Only, Mine
<1> QED BY <1>1, TaleStep

\* What is put on the stack takes the part of the head in the order, or has none.
Quiet(t) ==
  \A i \in DOMAIN t : t[i].do \in Tellings \cup Early =>
    /\ Alike(t[i], Head(agenda)) /\ t[i].do \notin {"complete", "ajaxComplete"}
    /\ t[i].do \in Tellings => \A j \in DOMAIN t : j = i

\* What tells last of a request.
Lasts == {"ajaxComplete", "complete", "completed"}

\* The order of handlers stays when nothing is told of r.
LEMMA OrderKept ==
  ASSUME AjaxInv, Order, NEW r, NEW t, Step(r, t), Only(r), log' = log, cut \subseteq cut',
         Quiet(t),
         \/ Head(agenda).do \notin Lasts
         \/ Head(agenda).do # "ajaxComplete" /\ ~requests[r].installed
         \/ \E i \in DOMAIN t : Alike(t[i], Head(agenda)),
         r \notin cut' =>
           /\ requests'[r].state = 2 <=> requests[r].state = 2
           /\ requests[r].state = 2 => /\ requests'[r].globals = requests[r].globals
                                       /\ requests'[r].installed = requests[r].installed
           /\ requests'[r].completed = requests[r].completed \/ Head(agenda).do = "complete"
           /\ requests'[r].globals = requests[r].globals \/ Head(agenda).do \in Openings
  PROVE  Order'
<1>1. DOMAIN requests' = DOMAIN requests /\ r \in DOMAIN requests
  BY LenProperties, HeadItem DEF Only, AjaxInv, Typed, Step
<1>2. Head(agenda).r = r
  BY DEF Step
<1>3. ASSUME NEW q \in DOMAIN requests, q \notin cut' PROVE Tale(q)'
  <2>1. Tale(q) /\ log'[q] = log[q]
    BY <1>3 DEF Order, Tale
  <2>2. CASE q = r
    <3>1. \A i \in DOMAIN t : Mine(t[i], r) =>
            /\ Alike(t[i], Head(agenda)) /\ t[i].do \notin {"complete", "ajaxComplete"}
            /\ t[i].do \in Tellings => \A j \in DOMAIN t : j = i
      BY DEF Mine, Quiet
    <3>2. /\ requests'[r].state = 2 <=> requests[r].state = 2
          /\ requests[r].state = 2 => /\ requests'[r].globals = requests[r].globals
                                      /\ requests'[r].installed = requests[r].installed
          /\ requests'[r].completed = requests[r].completed \/ Head(agenda).do = "complete"
          /\ requests'[r].globals = requests[r].globals \/ Head(agenda).do \in Openings
      BY <1>3, <2>2
    <3>3. Tale(r) /\ log'[r] = log[r]
      BY <2>1, <2>2
    <3>4. Tale(r)'
      BY <1>1, <3>1, <3>2, <3>3, TaleStep DEF Lasts
    <3> QED BY <2>2, <3>4
  <2>3. CASE q # r
    <3>1. \A i \in DOMAIN t : t[i].do \in Tellings \cup Early => t[i].r = r
      BY <1>2 DEF Alike, Quiet
    <3> QED BY <2>1, <2>3, <3>1, OthersTold
  <2> QED BY <2>2, <2>3
<1> QED BY <1>1, <1>3 DEF Order, Tale

\* The order stays when the step keeps that of r.
LEMMA OrderOwn ==
  ASSUME AjaxInv, Order, NEW r, NEW t, Step(r, t), Only(r), cut' = cut,
         \A q \in DOMAIN requests : q # r => log'[q] = log[q],
         \A i \in DOMAIN t : t[i].do \in Tellings \cup Early => t[i].r = r,
         r \notin cut => Tale(r)'
  PROVE  Order'
<1>1. DOMAIN requests' = DOMAIN requests
  BY LenProperties DEF Only, AjaxInv, Typed
<1>2. ASSUME NEW q \in DOMAIN requests, q \notin cut' PROVE Tale(q)'
  <2>1. CASE q = r
    BY <1>2, <2>1
  <2>2. CASE q # r
    <3>1. Tale(q)
      BY <1>2 DEF Order, Tale
    <3> QED BY <2>2, <3>1, OthersTold
  <2> QED BY <2>1, <2>2
<1> QED BY <1>1, <1>2 DEF Order, Tale

\* So it does when r is cut short.
LEMMA OrderOthers ==
  ASSUME AjaxInv, Order, NEW r, NEW t, Step(r, t), Only(r), r \in cut', log' = log,
         \A i \in DOMAIN t : t[i].r = r
  PROVE  Order'
<1>1. DOMAIN requests' = DOMAIN requests
  BY LenProperties DEF Only, AjaxInv, Typed
<1>2. ASSUME NEW q \in DOMAIN requests, q \notin cut' PROVE Tale(q)'
  <2>1. q # r /\ q \notin cut
    BY <1>2 DEF Only
  <2>2. Tale(q)
    BY <2>1 DEF Order, Tale
  <2> QED BY <2>1, <2>2, OthersTold
<1> QED BY <1>1, <1>2 DEF Order, Tale

\* What is under the head.
LEMMA Under ==
  ASSUME AjaxInv, NEW r, NEW t, Step(r, t)
  PROVE  /\ 1 \in DOMAIN agenda /\ agenda[1] = Head(agenda) /\ agenda[1].r = r
         /\ \A k \in DOMAIN agenda : k >= 2 => 1 < k /\ (agenda[k].do = "ajaxSend" => agenda[k].r \in cut)
         /\ Head(agenda).do \in Openings => \A k \in DOMAIN agenda : k >= 2 => agenda[k].r # r
<1>1. DOMAIN agenda \subseteq Nat \ {0}
  BY LenProperties DEF AjaxInv, Typed
<1>2. 1 \in DOMAIN agenda /\ agenda[1] = Head(agenda) /\ agenda[1].r = r
  BY HeadItem DEF AjaxInv, Step
<1>3. \A k \in DOMAIN agenda : k >= 2 => 1 < k /\ (agenda[k].do = "ajaxSend" => agenda[k].r \in cut)
  BY <1>1 DEF AjaxInv, Openers
<1> QED BY <1>2, <1>3 DEF AjaxInv, Openers

\* A request is about to be sent.
LEMMA TaleSent ==
  ASSUME AjaxInv, NEW r, NEW t, Step(r, t), Tale(r), log' = log,
         Head(agenda).do = "install", requests[r].state # 2, requests'[r].state # 2,
         DOMAIN t = 1 .. 2, t[1].do = "ajaxSend", t[2].do = "send"
  PROVE  Tale(r)'
<1> DEFINE b == agenda'
<1>1. /\ \A i \in DOMAIN b : \/ i \in DOMAIN t /\ b[i] = t[i]
                             \/ \E k \in DOMAIN agenda : k >= 2 /\ b[i] = agenda[k]
      /\ \A i, j \in DOMAIN b : i < j =>
           \/ i \in DOMAIN t /\ j \in DOMAIN t /\ b[i] = t[i] /\ b[j] = t[j]
           \/ i \in DOMAIN t /\ b[i] = t[i] /\ \E l \in DOMAIN agenda : l >= 2 /\ b[j] = agenda[l]
           \/ \E k, l \in DOMAIN agenda : 2 <= k /\ k < l /\ b[i] = agenda[k] /\ b[j] = agenda[l]
  BY StepPush DEF AjaxInv, Replaces
<1>2. b = agenda'
  OBVIOUS
<1> HIDE DEF b
<1>3. "install" \in Openings /\ "install" \in Early /\ "send" \notin Tellings \cup Early
  BY DEF Openings, Early, Tellings, Endings
<1>4. /\ 1 \in DOMAIN agenda /\ agenda[1].do \in Early /\ agenda[1].r = r
      /\ \A k \in DOMAIN agenda : k >= 2 => agenda[k].r # r
  BY <1>3, Under
<1>5. log[r] = << >> /\ DOMAIN log[r] = {}
  BY <1>4 DEF Tale, Untold
<1>7. \A i \in DOMAIN b : b[i].r = r => i \in 1 .. 2 /\ (i = 1 \/ b[i].do = "send")
                                      /\ b[i].do \in {"ajaxSend", "send"}
  <2> SUFFICES ASSUME NEW i \in DOMAIN b, b[i].r = r
               PROVE  i \in 1 .. 2 /\ (i = 1 \/ b[i].do = "send") /\ b[i].do \in {"ajaxSend", "send"}
    OBVIOUS
  <2>1. i \in 1 .. 2 /\ b[i] = t[i]
    BY <1>1, <1>4
  <2>2. i = 1 \/ i = 2
    BY <2>1
  <2> QED BY <2>1, <2>2
<1>8. \A i, j \in DOMAIN b : i < j /\ b[i].r = r /\ b[j].r = r => b[j].do = "send"
  BY <1>7
<1>9. InOrder(r)'
  BY <1>2, <1>3, <1>5, <1>8 DEF InOrder, Tells
<1>10. Untold(r)'
  BY <1>2, <1>3, <1>5, <1>7, <1>8 DEF Untold, Early
<1>11. ToldAll(r)'
  BY DEF ToldAll
<1> QED BY <1>9, <1>10, <1>11 DEF Tale

\* A request is over, and it is told to be.
LEMMA TaleEnded ==
  ASSUME AjaxInv, NEW r \in DOMAIN requests, NEW t, Step(r, t), Tale(r), log' = log,
         requests[r].state # 2, r \notin cut, requests'[r].state = 2,
         requests'[r].completed = requests[r].completed, requests'[r].globals = requests[r].globals,
         Head(agenda).do = "done",
         \A i \in DOMAIN t : t[i].do \in Endings /\ t[i].r = r,
         \A i, j \in DOMAIN t : i < j => Place(t[i].do) < Place(t[j].do) /\ t[i].ok = t[j].ok,
         \E i \in DOMAIN t : t[i].do = "complete",
         requests[r].globals <=> \E i \in DOMAIN t : t[i].do = "ajaxComplete"
  PROVE  Tale(r)'
<1> DEFINE b == agenda'
<1>1. /\ \A i \in DOMAIN b : \/ i \in DOMAIN t /\ b[i] = t[i]
                             \/ \E k \in DOMAIN agenda : k >= 2 /\ b[i] = agenda[k]
      /\ \A i, j \in DOMAIN b : i < j =>
           \/ i \in DOMAIN t /\ j \in DOMAIN t /\ b[i] = t[i] /\ b[j] = t[j]
           \/ i \in DOMAIN t /\ b[i] = t[i] /\ \E l \in DOMAIN agenda : l >= 2 /\ b[j] = agenda[l]
           \/ \E k, l \in DOMAIN agenda : 2 <= k /\ k < l /\ b[i] = agenda[k] /\ b[j] = agenda[l]
      /\ \A k \in DOMAIN t : k \in DOMAIN b /\ b[k] = t[k]
  BY StepPush DEF AjaxInv, Replaces
<1>2. b = agenda'
  OBVIOUS
<1> HIDE DEF b
<1>3. /\ \A what \in Endings : what \in Tellings /\ what # "ajaxSend" /\ what \notin Early
      /\ {"complete", "ajaxComplete"} \subseteq Endings
  BY DEF Endings, Tellings, Early, Openings
<1>4. \A k \in DOMAIN agenda : k >= 2 => ~Tells(agenda[k], r)
  <2>1. \A k \in DOMAIN agenda : agenda[k].do \in Endings => Gone(agenda[k].r)
    BY DEF AjaxInv, Ended
  <2> QED BY <2>1, Under DEF Gone, Tells, Tellings
<1>5. \A i \in DOMAIN b : Tells(b[i], r) => i \in DOMAIN t /\ b[i] = t[i]
  BY <1>1, <1>4
<1>6. \A i \in DOMAIN log[r] : log[r][i].what = "ajaxSend"
  BY DEF Tale, Untold
<1>7. \A i \in DOMAIN t : t[i].do \in Endings /\ 1 < Place(t[i].do)
  BY Places DEF Endings
<1>8. Rank("ajaxSend") = 1
  BY Places DEF Logged
<1>9. InOrder(r)'
  <2>1. \A i, j \in DOMAIN b : i < j /\ Tells(b[i], r) /\ Tells(b[j], r) =>
          Place(b[i].do) < Place(b[j].do) /\ b[i].ok = b[j].ok
    BY <1>5
  <2>2. \A i \in DOMAIN log[r] : \A j \in DOMAIN b : Tells(b[j], r) =>
          /\ Rank(log[r][i].what) < Place(b[j].do)
          /\ log[r][i].what # "ajaxSend" => log[r][i].ok = b[j].ok
    BY <1>5, <1>6, <1>7, <1>8
  <2>3. \A i, j \in DOMAIN log[r] : i < j =>
          /\ Rank(log[r][i].what) < Rank(log[r][j].what)
          /\ log[r][i].what # "ajaxSend" => log[r][i].ok = log[r][j].ok
    BY DEF Tale, InOrder
  <2> QED BY <1>2, <2>1, <2>2, <2>3 DEF InOrder
<1>10. ~requests[r].completed
  BY DEF AjaxInv, Ended, Gone
<1>11. \A i \in DOMAIN b : b[i].r = r =>
         /\ b[i].do # "ajaxSend"
         /\ b[i].do = "ajaxComplete" => requests[r].globals
  <2> SUFFICES ASSUME NEW i \in DOMAIN b, b[i].r = r, b[i].do \in {"ajaxSend", "ajaxComplete"}
               PROVE  b[i].do # "ajaxSend" /\ (b[i].do = "ajaxComplete" => requests[r].globals)
    OBVIOUS
  <2>1. Tells(b[i], r)
    BY <1>3 DEF Tells, Tellings
  <2> QED BY <1>3, <1>5, <2>1
<1>12. Untold(r)'
  BY <1>2, <1>10, <1>11 DEF Untold
<1>13. ToldAll(r)'
  <2>1. \E i \in DOMAIN b : b[i].r = r /\ b[i].do \in {"complete", "completed"}
    BY <1>1
  <2>2. requests'[r].globals => \E i \in DOMAIN b : b[i].r = r /\ b[i].do = "ajaxComplete"
    BY <1>1
  <2> QED BY <1>2, <2>1, <2>2 DEF ToldAll
<1> QED BY <1>9, <1>12, <1>13 DEF Tale

\* A handler of r is called.
LEMMA TaleTold ==
  ASSUME AjaxInv, NEW r \in DOMAIN requests, NEW t, Step(r, t), Tale(r), r \notin cut,
         requests' = requests, NEW w \in Logged, NEW k, w = Head(agenda).do, k = Head(agenda).ok,
         log'[r] = Append(log[r], [what |-> w, ok |-> k]), log[r] \in Seq(Entries),
         \A i \in DOMAIN t : t[i].do \notin Tellings \cup Early
  PROVE  Tale(r)'
<1> DEFINE b == agenda'
           g == log'[r]
           n == Len(log[r])
<1>1. /\ \A i \in DOMAIN b : \/ i \in DOMAIN t /\ b[i] = t[i]
                             \/ \E l \in DOMAIN agenda : l >= 2 /\ b[i] = agenda[l]
      /\ \A i, j \in DOMAIN b : i < j =>
           \/ i \in DOMAIN t /\ j \in DOMAIN t /\ b[i] = t[i] /\ b[j] = t[j]
           \/ i \in DOMAIN t /\ b[i] = t[i] /\ \E l \in DOMAIN agenda : l >= 2 /\ b[j] = agenda[l]
           \/ \E m, l \in DOMAIN agenda : 2 <= m /\ m < l /\ b[i] = agenda[m] /\ b[j] = agenda[l]
      /\ \A l \in DOMAIN agenda : l >= 2 => \E i \in DOMAIN b : b[i] = agenda[l]
  BY StepPush DEF AjaxInv, Replaces
<1>2. b = agenda' /\ g = log'[r]
  OBVIOUS
<1>3. /\ n \in Nat /\ DOMAIN log[r] = 1 .. n /\ DOMAIN g = 1 .. n + 1
      /\ \A i \in 1 .. n : g[i] = log[r][i]
      /\ g[n + 1].what = w /\ g[n + 1].ok = k /\ g # << >> /\ Last(g).what = w
  <2> DEFINE x == [what |-> w, ok |-> k]
             u == log[r]
  <2>1. u \in Seq(Entries \cup {x}) /\ x \in Entries \cup {x} /\ g = Append(u, x)
    <3>1. u \in [1 .. Len(u) -> Entries] /\ Len(u) \in Nat
      BY LenProperties
    <3>2. u \in [1 .. Len(u) -> Entries \cup {x}]
      BY <3>1
    <3> QED BY <3>1, <3>2
  <2> HIDE DEF x, g, u
  <2>2. /\ g \in Seq(Entries \cup {x}) /\ Len(g) = Len(u) + 1 /\ Len(u) \in Nat
        /\ \A i \in 1 .. Len(u) : g[i] = u[i]
        /\ g[Len(u) + 1] = x
    BY <2>1, AppendProperties, LenProperties
  <2>3. DOMAIN g = 1 .. Len(u) + 1 /\ DOMAIN u = 1 .. Len(u)
    BY <2>1, <2>2, LenProperties
  <2>4. g # << >> /\ Last(g) = x
    BY <2>2, <2>3 DEF Last
  <2>5. x.what = w /\ x.ok = k
    BY DEF x
  <2> QED BY <2>5, <2>4, <2>3, <2>2 DEF u
<1> HIDE DEF b, g, n
<1>4. /\ 1 \in DOMAIN agenda /\ agenda[1].do = w /\ agenda[1].ok = k /\ agenda[1].r = r
      /\ \A l \in DOMAIN agenda : l >= 2 => 1 < l
  BY Under
<1>5. /\ w \in Tellings /\ Rank(w) = Place(w) /\ Tells(agenda[1], r)
  BY <1>4, Places DEF Tells
<1>6. \A i \in DOMAIN b : b[i].do \in Tellings \cup Early =>
        \E l \in DOMAIN agenda : l >= 2 /\ b[i] = agenda[l]
  BY <1>1
<1>7. \A i, j \in DOMAIN b : i < j /\ b[i].do \in Tellings \cup Early /\ b[j].do \in Tellings \cup Early =>
        \E m, l \in DOMAIN agenda : m < l /\ b[i] = agenda[m] /\ b[j] = agenda[l]
  BY <1>1
<1>8. InOrder(r)'
  <2>1. \A i, j \in DOMAIN b : i < j /\ Tells(b[i], r) /\ Tells(b[j], r) =>
          Place(b[i].do) < Place(b[j].do) /\ b[i].ok = b[j].ok
    <3> SUFFICES ASSUME NEW i \in DOMAIN b, NEW j \in DOMAIN b, i < j, Tells(b[i], r), Tells(b[j], r)
                 PROVE  Place(b[i].do) < Place(b[j].do) /\ b[i].ok = b[j].ok
      OBVIOUS
    <3>1. PICK m, l \in DOMAIN agenda : m < l /\ b[i] = agenda[m] /\ b[j] = agenda[l]
      BY <1>7 DEF Tells
    <3> QED BY <3>1 DEF Tale, InOrder
  <2>2. ASSUME NEW i \in DOMAIN g, NEW j \in DOMAIN b, Tells(b[j], r)
        PROVE  /\ Rank(g[i].what) < Place(b[j].do)
               /\ g[i].what # "ajaxSend" => g[i].ok = b[j].ok
    <3>1. PICK l \in DOMAIN agenda : l >= 2 /\ b[j] = agenda[l]
      BY <1>6, <2>2 DEF Tells
    <3>2. CASE i \in 1 .. n
      BY <1>3, <2>2, <3>1, <3>2 DEF Tale, InOrder
    <3>3. CASE i = n + 1
      <4>1. Place(agenda[1].do) < Place(agenda[l].do) /\ agenda[1].ok = agenda[l].ok
        BY <1>4, <1>5, <2>2, <3>1 DEF Tale, InOrder
      <4> QED BY <1>3, <1>4, <1>5, <3>1, <3>3, <4>1
    <3> QED BY <1>3, <2>2, <3>2, <3>3
  <2>3. ASSUME NEW i \in DOMAIN g, NEW j \in DOMAIN g, i < j
        PROVE  /\ Rank(g[i].what) < Rank(g[j].what)
               /\ g[i].what # "ajaxSend" => g[i].ok = g[j].ok
    <3>1. i \in 1 .. n
      BY <1>3, <2>3
    <3>2. CASE j \in 1 .. n
      BY <1>3, <2>3, <3>1, <3>2 DEF Tale, InOrder
    <3>3. CASE j = n + 1
      <4>1. /\ Rank(log[r][i].what) < Place(agenda[1].do)
            /\ log[r][i].what # "ajaxSend" => log[r][i].ok = agenda[1].ok
        BY <1>3, <1>4, <1>5, <3>1 DEF Tale, InOrder
      <4> QED BY <1>3, <1>4, <1>5, <3>1, <3>3, <4>1
    <3> QED BY <1>3, <2>3, <3>2, <3>3
  <2> QED BY <1>2, <2>1, <2>2, <2>3 DEF InOrder
<1>9. requests[r].state # 2 => w = "ajaxSend"
  <2>1. w \in Endings => Gone(r)
    BY <1>4 DEF AjaxInv, Ended
  <2> QED BY <1>5, <2>1 DEF Gone, Tellings
<1>10. Untold(r)'
  <2>1. requests[r].state # 2 => \A i \in DOMAIN g : g[i].what = "ajaxSend"
    BY <1>3, <1>9 DEF Tale, Untold
  <2>2. ASSUME NEW i \in DOMAIN b, b[i].r = r
        PROVE  /\ b[i].do \in Early => requests[r].state = 2
               /\ b[i].do = "ajaxSend" => requests[r].state # 2
               /\ b[i].do = "complete" => ~requests[r].completed
               /\ b[i].do = "ajaxComplete" => requests[r].globals
    <3>1. CASE b[i].do \in Tellings \cup Early
      <4>1. PICK l \in DOMAIN agenda : l >= 2 /\ b[i] = agenda[l]
        BY <1>6, <3>1
      <4>2. b[i].do \in Early => requests[r].state = 2
        BY <1>4, <1>9, <2>2, <4>1 DEF Tale, Untold
      <4> QED BY <2>2, <4>1, <4>2 DEF Tale, Untold
    <3>2. CASE b[i].do \notin Tellings \cup Early
      <4>1. {"ajaxSend", "complete", "ajaxComplete"} \subseteq Tellings
        BY DEF Tellings, Endings
      <4> QED BY <3>2, <4>1
    <3> QED BY <3>1, <3>2
  <2>3. ASSUME NEW i \in DOMAIN b, NEW j \in DOMAIN b, i < j, b[i].do = "ajaxSend", b[i].r = r, b[j].r = r
        PROVE  b[j].do \notin Early
    <3> SUFFICES ASSUME b[j].do \in Early PROVE FALSE
      OBVIOUS
    <3>1. PICK m, l \in DOMAIN agenda : m < l /\ b[i] = agenda[m] /\ b[j] = agenda[l]
      BY <1>7, <2>3 DEF Tellings
    <3> QED BY <2>3, <3>1 DEF Tale, Untold
  <2> QED BY <1>2, <2>1, <2>2, <2>3 DEF Untold
<1>11. \A i \in DOMAIN log[r] : Rank(log[r][i].what) < Place(w)
  BY <1>4, <1>5 DEF Tale, InOrder
<1>12. log[r] # << >> => Last(log[r]) = log[r][n] /\ n \in DOMAIN log[r]
  <2>1. log[r] # << >> => n \in 1 .. n
    BY <1>3, EmptySeq DEF n
  <2> QED BY <1>3, <2>1 DEF Last, n
<1>13. ToldAll(r)'
  <2>1. ASSUME requests[r].state = 2, requests[r].globals
        PROVE  \/ \E i \in DOMAIN b : b[i].r = r /\ b[i].do = "ajaxComplete"
               \/ Last(g).what = "ajaxComplete"
    <3>1. CASE \E l \in DOMAIN agenda : agenda[l].r = r /\ agenda[l].do = "ajaxComplete"
      <4>1. PICK l \in DOMAIN agenda : agenda[l].r = r /\ agenda[l].do = "ajaxComplete"
        BY <3>1
      <4>2. DOMAIN agenda \subseteq Nat \ {0}
        BY LenProperties DEF AjaxInv, Typed
      <4>3. l = 1 \/ l >= 2
        BY <4>2
      <4> QED BY <1>1, <1>3, <1>4, <4>1, <4>3
    <3>2. CASE log[r] # << >> /\ Last(log[r]).what = "ajaxComplete"
      <4>1. Rank("ajaxComplete") < Place(w)
        BY <1>11, <1>12, <3>2
      <4>2. Rank("ajaxComplete") = 6 /\ \A what \in Logged : Place(what) <= 6
        BY Places DEF Logged
      <4>3. Place(w) <= 6
        BY <4>2
      <4> QED BY <4>1, <4>2, <4>3, Places DEF Logged
    <3> QED BY <2>1, <3>1, <3>2 DEF Tale, ToldAll
  <2>2. ASSUME requests[r].state = 2, ~requests[r].globals, requests[r].installed
        PROVE  \/ \E i \in DOMAIN b : b[i].r = r /\ b[i].do \in {"complete", "completed"}
               \/ Last(g).what = "completed"
    <3>1. CASE \E l \in DOMAIN agenda : agenda[l].r = r /\ agenda[l].do \in {"complete", "completed"}
      <4>1. PICK l \in DOMAIN agenda : agenda[l].r = r /\ agenda[l].do \in {"complete", "completed"}
        BY <3>1
      <4>2. DOMAIN agenda \subseteq Nat \ {0}
        BY LenProperties DEF AjaxInv, Typed
      <4>3. l = 1 \/ l >= 2
        BY <4>2
      <4>4. w # "complete"
        BY DEF Logged
      <4> QED BY <1>1, <1>3, <1>4, <4>1, <4>3, <4>4
    <3>2. CASE log[r] # << >> /\ Last(log[r]).what = "completed"
      <4>1. Rank("completed") < Place(w)
        BY <1>11, <1>12, <3>2
      <4>2. Rank("completed") = 5 /\ \A what \in Logged : 5 < Place(what) => what = "ajaxComplete"
        BY Places DEF Logged
      <4>3. w = "ajaxComplete"
        BY <4>1, <4>2
      <4> QED BY <1>4, <2>2, <4>3 DEF Tale, Untold
    <3> QED BY <2>2, <3>1, <3>2 DEF Tale, ToldAll
  <2> QED BY <1>2, <1>3, <2>1, <2>2 DEF ToldAll
<1> QED BY <1>8, <1>10, <1>13 DEF Tale

----------
(* The actions.                                                            *)

\* What a step keeps.
Keeps == AjaxInv' /\ (Tally => Tally') /\ (Order => Order')

\* A step that leaves the requests alone.
LEMMA Aside ==
  ASSUME AjaxInv, NEW r, NEW t, Step(r, t), Fits(r, t), \A i \in DOMAIN t : Sound(t[i]),
         UNCHANGED <<requests, net, page, late, cut>>, timers' \subseteq DOMAIN requests,
         log' \in Seq(Seq(Entries)), Len(log') = Len(log), active' \in Int, busy' \in BOOLEAN
  PROVE  AjaxInv'
<1>1. Only(r)
  BY DEF Only, AjaxInv, Typed
<1>2. TypesKept
  BY DEF TypesKept, AjaxInv, Typed, page
<1>3. \A i \in DOMAIN t : Sound(t[i])'
  <2> SUFFICES ASSUME NEW i \in DOMAIN t PROVE Sound(t[i])'
    OBVIOUS
  <2> QED BY DEF Sound, Unopened, Gone, Direct, Clear, page
<1>4. agenda # << >> /\ r = Head(agenda).r
  BY DEF Step
<1>5. Steady(r)'
  BY <1>4, HeadSound DEF Steady, Gone
<1>6. Lasting(r)
  BY DEF Lasting, Unopened, Gone, page
<1>7. Names'
  BY NamesStep, <1>1
<1> QED BY <1>1, <1>2, <1>3, <1>5, <1>6, <1>7, Kept

\* What a step puts on the stack for r is of its type.
LEMMA Puts ==
  ASSUME AjaxInv, agenda # << >>, NEW r, r = Head(agenda).r,
         NEW t \in Seq([do : Things, r : {r}, ok : BOOLEAN]), Then(t)
  PROVE  Step(r, t)
<1>1. r \in 1 .. Len(requests)
  BY HeadItem DEF AjaxInv
<1>2. t \in [1 .. Len(t) -> [do : Things, r : {r}, ok : BOOLEAN]] /\ Len(t) \in Nat
  BY LenProperties
<1>3. [do : Things, r : {r}, ok : BOOLEAN] \subseteq Doings(Len(requests))
  BY <1>1 DEF Doings
<1>4. t \in [1 .. Len(t) -> Doings(Len(requests))]
  BY <1>2, <1>3
<1>5. t \in Seq(Doings(Len(requests)))
  BY <1>2, <1>4
<1> QED BY <1>5 DEF Step, Then

\* So does one that does nothing.
LEMMA Nothing ==
  ASSUME AjaxInv, agenda # << >>, Then(<< >>), Head(agenda).do \notin Startings \cup Lasts \cup {"uncount"},
         UNCHANGED <<requests, net, page, late, cut, log, busy, active, timers>>
  PROVE  Keeps
<1>1. PICK r : r = Head(agenda).r
  OBVIOUS
<1>2. PICK t : t = << >>
  OBVIOUS
<1>3. t \in Seq([do : Things, r : {r}, ok : BOOLEAN]) /\ DOMAIN t = {}
  BY <1>2
<1>4. Step(r, t)
  BY <1>1, <1>2, <1>3, Puts
<1>5. Fits(r, t) /\ \A i \in DOMAIN t : Sound(t[i])
  BY <1>3 DEF Fits
<1>6. AjaxInv'
  BY <1>4, <1>5, Aside DEF AjaxInv, Typed
<1>7. Only(r)
  BY DEF AjaxInv, Typed, Only
<1>8. Tally => Tally'
  BY <1>3, <1>4, <1>7, TallyKept
<1>9. Order => Order'
  BY <1>3, <1>4, <1>7, OrderKept DEF Quiet
<1> QED BY <1>6, <1>8, <1>9 DEF Keeps

\* beforeSend: what opens the request goes on.
LEMMA BeforeSendKeeps ==
  ASSUME AjaxInv, BeforeSend
  PROVE  Keeps
<1>1. PICK r : r = Head(agenda).r
  OBVIOUS
<1>2. PICK goes \in BOOLEAN : Then(<<Do("handler", r, TRUE), Do("install", r, goes)>>)
  BY <1>1 DEF BeforeSend, Now
<1> DEFINE t == <<Do("handler", r, TRUE), Do("install", r, goes)>>
<1>3. agenda # << >> /\ Head(agenda).do = "beforeSend"
  BY DEF BeforeSend, Doing
<1>4. t \in Seq([do : Things, r : {r}, ok : BOOLEAN])
  BY DEF Do, Things, Openings, Endings
<1>5. Step(r, t)
  BY <1>1, <1>2, <1>3, <1>4, Puts
<1>7. Unopened(r, "install") /\ requests[r].set.beforeSend
  BY <1>1, <1>3, HeadSound DEF Unopened, Openings
<1>15. \A i \in DOMAIN t : ~Direct(t[i]) /\ t[i].r = r /\ t[i].do \in {"handler", "install"}
  BY <1>7 DEF Direct, Do
<1>6. Fits(r, t)
  BY <1>3, <1>15 DEF Fits, Do, Openings
<1>8. \A i \in DOMAIN t : Sound(t[i])
  BY <1>7, <1>15 DEF Sound, Openings, Endings
<1>9. AjaxInv'
  BY <1>5, <1>6, <1>8, Aside DEF BeforeSend, AjaxInv, Typed, history
<1>10. Only(r) /\ UNCHANGED <<requests, active, busy, cut>>
  BY DEF BeforeSend, AjaxInv, Typed, Only, history
<1>11. \A i \in DOMAIN t : t[i].do \notin Startings \cup {"uncount"}
  BY DEF Do, Startings
<1>12. Tally => Tally'
  BY <1>3, <1>5, <1>10, <1>11, TallyKept DEF Startings
<1>13. Quiet(t)
  BY <1>1, <1>3 DEF Quiet, Alike, Do, Tellings, Endings, Early, Openings
<1>14. Order => Order'
  BY <1>3, <1>5, <1>10, <1>13, OrderKept DEF BeforeSend, history, Lasts
<1> QED BY <1>9, <1>12, <1>14 DEF Keeps

\* A request is taken off the count.
LEMMA UncountKeeps ==
  ASSUME AjaxInv, Uncount
  PROVE  Keeps
<1>1. PICK r : r = Head(agenda).r
  OBVIOUS
<1>2. PICK t : Then(t) /\ t = IF active' = 0 THEN <<Do("ajaxStop", r, TRUE)>> ELSE << >>
  BY <1>1 DEF Uncount, Now
<1>3. agenda # << >> /\ Head(agenda).do = "uncount"
  BY DEF Uncount, Doing
<1>4. t \in Seq([do : Things, r : {r}, ok : BOOLEAN])
  <2>1. <<Do("ajaxStop", r, TRUE)>> \in Seq([do : Things, r : {r}, ok : BOOLEAN])
    BY DEF Do, Things
  <2>2. << >> \in Seq([do : Things, r : {r}, ok : BOOLEAN])
    OBVIOUS
  <2> QED BY <1>2, <2>1, <2>2
<1>5. Step(r, t)
  BY <1>1, <1>2, <1>3, <1>4, Puts
<1>6. Fits(r, t)
  BY <1>2 DEF Fits, Do, Openings
<1>7. \A i \in DOMAIN t : Sound(t[i])
  BY <1>2 DEF Sound, Do, Openings, Endings
<1>8. active' \in Int
  BY DEF Uncount, Uncounted, AjaxInv, Typed
<1>9. AjaxInv'
  BY <1>5, <1>6, <1>7, <1>8, Aside DEF Uncount, AjaxInv, Typed, history
<1>10. UNCHANGED <<requests, busy, cut>> /\ active' = active - 1
  BY DEF Uncount, Uncounted, history
<1>11. \A i \in DOMAIN t : t[i].do \notin {"ajaxStart", "uncount"}
  BY <1>2 DEF Do
<1>12. 1 \in DOMAIN t /\ t[1].do = "ajaxStop" <=> active' = 0
  <2>1. CASE active' = 0
    BY <1>2, <2>1 DEF Do
  <2>2. CASE active' # 0
    BY <1>2, <2>2
  <2> QED BY <2>1, <2>2
<1>13. Tally => Tally'
  BY <1>3, <1>5, <1>10, <1>11, <1>12, TallyUncount
<1>14. Quiet(t)
  BY <1>2 DEF Quiet, Do, Tellings, Endings, Early, Openings
<1>15. Only(r) /\ log' = log
  BY DEF Uncount, AjaxInv, Typed, Only, history
<1>16. Order => Order'
  BY <1>3, <1>5, <1>10, <1>14, <1>15, OrderKept DEF Lasts
<1> QED BY <1>9, <1>13, <1>16 DEF Keeps

\* A handler is called, or the start or stop of all requests is told.
LEMMA EventKeeps ==
  ASSUME AjaxInv, Event
  PROVE  Keeps
<1>1. PICK r : r = Head(agenda).r
  OBVIOUS
<1> DEFINE t == <<Do("handler", r, TRUE)>>
<1>2. agenda # << >> /\ Then(t)
  BY <1>1 DEF Event, Now
<1>3. t \in Seq([do : Things, r : {r}, ok : BOOLEAN])
  BY DEF Do, Things
<1>4. Step(r, t)
  BY <1>1, <1>2, <1>3, Puts
<1>5. Fits(r, t)
  BY DEF Fits, Do, Openings
<1>6. \A i \in DOMAIN t : Sound(t[i])
  BY DEF Sound, Do, Openings, Endings
<1>7. log' \in Seq(Seq(Entries)) /\ Len(log') = Len(log)
  <2>1. PICK w, k : w = Head(agenda).do /\ k = Head(agenda).ok
    OBVIOUS
  <2>2. r \in DOMAIN log /\ k \in BOOLEAN
    BY <1>1, <1>2, <2>1, HeadItem DEF AjaxInv, Doings
  <2>3. CASE w \in Logged
    <3> DEFINE entry == [what |-> w, ok |-> k]
    <3>1. log' = [log EXCEPT ![r] = Append(log[r], entry)]
      BY <1>1, <2>1, <2>3 DEF Event, Now
    <3>2. log \in [1 .. Len(log) -> Seq(Entries)] /\ Len(log) \in Nat
      BY LenProperties DEF AjaxInv, Typed
    <3>3. entry \in Entries
      BY <2>2, <2>3 DEF Entries
    <3> HIDE DEF entry
    <3>4. Append(log[r], entry) \in Seq(Entries)
      BY <2>2, <3>2, <3>3
    <3>5. log' \in [1 .. Len(log) -> Seq(Entries)]
      BY <3>1, <3>2, <3>4
    <3> QED BY <3>2, <3>5
  <2>4. CASE w \notin Logged
    BY <2>1, <2>4 DEF Event, Now, AjaxInv, Typed
  <2> QED BY <2>3, <2>4
<1>8. busy' \in BOOLEAN
  BY DEF Event, AjaxInv, Typed
<1>9. AjaxInv'
  BY <1>4, <1>5, <1>6, <1>7, <1>8, Aside DEF Event, AjaxInv, Typed
<1>10. Only(r) /\ UNCHANGED <<requests, active, cut>>
  BY DEF Event, AjaxInv, Typed, Only
<1>11. \A i \in DOMAIN t : t[i].do \notin Startings \cup {"uncount"}
  BY DEF Do, Startings
<1>14. \A i \in DOMAIN t : t[i].do \notin Tellings \cup Early
  BY DEF Do, Tellings, Endings, Early, Openings
<1>15. Order => Order'
  <2> SUFFICES ASSUME Order PROVE Order'
    OBVIOUS
  <2>1. PICK w, k : w = Head(agenda).do /\ k = Head(agenda).ok
    OBVIOUS
  <2> HIDE DEF t
  <2>2. CASE w \in Logged
    <3>1. log' = [log EXCEPT ![r] = Append(log[r], [what |-> w, ok |-> k])]
      BY <1>1, <2>1, <2>2 DEF Event, Now
    <3>2. log \in Seq(Seq(Entries)) /\ r \in DOMAIN log /\ r \in DOMAIN requests
      BY <1>1, <1>2, HeadItem DEF AjaxInv, Typed
    <3>3. log[r] \in Seq(Entries)
      BY <3>2, ElementOfSeq, LenProperties
    <3>4. /\ log'[r] = Append(log[r], [what |-> w, ok |-> k])
          /\ \A q \in DOMAIN log : q # r => log'[q] = log[q]
      <4> DEFINE x == Append(log[r], [what |-> w, ok |-> k])
      <4>1. log' = [log EXCEPT ![r] = x]
        BY <3>1
      <4> HIDE DEF x
      <4>2. log'[r] = x /\ \A q \in DOMAIN log : q # r => log'[q] = log[q]
        BY <3>2, <4>1
      <4> QED BY <4>2 DEF x
    <3>5. DOMAIN log = DOMAIN requests
      BY <1>2, HeadItem DEF AjaxInv
    <3>6. r \notin cut => Tale(r)'
      <4> SUFFICES ASSUME r \notin cut PROVE Tale(r)'
        OBVIOUS
      <4>1. Tale(r)
        BY <3>2 DEF Order, Tale
      <4> QED BY <1>4, <1>10, <1>14, <2>1, <2>2, <3>2, <3>3, <3>4, <4>1, TaleTold
    <3> QED BY <1>4, <1>10, <1>14, <3>4, <3>5, <3>6, OrderOwn
  <2>3. CASE w \notin Logged
    <3>1. log' = log /\ w \notin Lasts
      BY <2>1, <2>3 DEF Event, Now, Lasts, Startings, Logged
    <3>2. Quiet(t)
      BY <1>14 DEF Quiet
    <3> QED BY <1>4, <1>10, <2>1, <3>1, <3>2, OrderKept
  <2> QED BY <2>2, <2>3
<1>12. CASE Head(agenda).do \in Startings
  <2>1. busy' <=> Head(agenda).do = "ajaxStart"
    BY <1>12 DEF Event, Now, Startings
  <2>2. Tally => Tally'
    BY <1>4, <1>10, <1>11, <1>12, <2>1, TallyTold
  <2> QED BY <1>9, <1>15, <2>2 DEF Keeps
<1>13. CASE Head(agenda).do \notin Startings
  <2>1. busy' = busy /\ Head(agenda).do # "uncount"
    BY <1>13 DEF Event, Now, Startings, Logged
  <2>2. Tally => Tally'
    BY <1>4, <1>10, <1>11, <1>13, <2>1, TallyKept
  <2> QED BY <1>9, <1>15, <2>2 DEF Keeps
<1> QED BY <1>12, <1>13

\* A handler does nothing, or aborts any request.
LEMMA HandlerKeeps ==
  ASSUME AjaxInv, Doing("handler"),
         \/ Then(<< >>) /\ UNCHANGED <<requests, active, page, net, timers, aborts, history>>
         \/ AbortRequest(Tail(agenda))
  PROVE  Keeps
<1>1. PICK r : r = Head(agenda).r
  OBVIOUS
<1>2. agenda # << >>
  BY DEF Doing
<1>3. UNCHANGED <<requests, active, page, net, timers, history>>
  BY DEF AbortRequest
<1>4. PICK t : Step(r, t) /\ (t = << >> \/ \E q \in DOMAIN requests : t = <<Do("abort", q, FALSE)>>)
  <2>1. CASE Then(<< >>)
    <3>1. << >> \in Seq(Doings(Len(requests)))
      OBVIOUS
    <3> QED BY <1>1, <1>2, <2>1, <3>1 DEF Step, Then
  <2>2. CASE AbortRequest(Tail(agenda))
    <3>1. PICK q \in DOMAIN requests : agenda' = <<Do("abort", q, FALSE)>> \o Tail(agenda)
      BY <2>2 DEF AbortRequest
    <3>2. DOMAIN requests = 1 .. Len(requests)
      BY LenProperties DEF AjaxInv, Typed
    <3>3. <<Do("abort", q, FALSE)>> \in Seq(Doings(Len(requests)))
      BY <3>2 DEF Do, Doings, Things
    <3> QED BY <1>1, <1>2, <3>1, <3>3 DEF Step
  <2> QED BY <2>1, <2>2
<1>5. Fits(r, t)
  BY <1>4 DEF Fits, Do, Openings
<1>6. \A i \in DOMAIN t : Sound(t[i])
  BY <1>4 DEF Sound, Do, Openings, Endings
<1>7. AjaxInv'
  BY <1>3, <1>4, <1>5, <1>6, Aside DEF AjaxInv, Typed, history
<1>8. Only(r) /\ UNCHANGED <<requests, active, busy, cut>>
  BY <1>3 DEF AjaxInv, Typed, Only, history
<1>9. \A i \in DOMAIN t : t[i].do \notin Startings \cup {"uncount"}
  BY <1>4 DEF Do, Startings
<1>10. Head(agenda).do = "handler"
  BY DEF Doing
<1>11. Tally => Tally'
  BY <1>4, <1>8, <1>9, <1>10, TallyKept DEF Startings
<1>12. Quiet(t)
  BY <1>4 DEF Quiet, Do, Tellings, Endings, Early, Openings
<1>13. Order => Order'
  BY <1>3, <1>4, <1>8, <1>10, <1>12, OrderKept DEF Lasts, history
<1> QED BY <1>7, <1>11, <1>13 DEF Keeps

\* A step that changes request r only, and r to v.
LEMMA Changed ==
  ASSUME AjaxInv, NEW r \in DOMAIN requests, NEW v \in Requests,
         requests' = [requests EXCEPT ![r] = v], v.data = requests[r].data, v.set = requests[r].set,
         cut \subseteq cut',
         net' = net \/ \E w \in {"sent", "over"} : net' = [net EXCEPT ![r] = w],
         \A q \in DOMAIN requests : q # r => (q \in cut' <=> q \in cut)
  PROVE  Only(r) /\ requests'[r] = v
<1>1. net' \in Seq({"new", "sent", "over"}) /\ Len(net') = Len(net)
      /\ \A q \in DOMAIN requests : q # r => net'[q] = net[q]
  <2>1. CASE net' = net
    BY <2>1 DEF AjaxInv, Typed
  <2>2. ASSUME NEW w \in {"sent", "over"}, net' = [net EXCEPT ![r] = w]
        PROVE  <1>1
    BY <2>2, NetUpdated DEF AjaxInv
  <2> QED BY <2>1, <2>2
<1> QED BY <1>1, Updated DEF AjaxInv, Only

\* completeDeferred fires once: there is no other complete under this one.
LEMMA CompleteKeeps ==
  ASSUME AjaxInv, Complete
  PROVE  Keeps
<1>1. PICK r, k : r = Head(agenda).r /\ k = Head(agenda).ok
  OBVIOUS
<1>2. agenda # << >> /\ Head(agenda).do = "complete"
  BY DEF Complete, Doing
<1>3. r \in DOMAIN requests /\ k \in BOOLEAN
  BY <1>1, <1>2, HeadItem DEF AjaxInv, Doings
<1>4. /\ Steady(r) /\ requests[r] \in Requests /\ Gone(r)
  BY <1>1, <1>2, HeadSound DEF Endings
<1> DEFINE v == [requests[r] EXCEPT !.completed = TRUE]
<1>5. v \in Requests /\ v.data = requests[r].data /\ v.set = requests[r].set
  BY <1>4 DEF Requests
<1>6. requests' = [requests EXCEPT ![r] = v]
  BY <1>1 DEF Complete, Now
<1>7. Only(r) /\ requests'[r] = v
  <2> HIDE DEF v
  <2> QED BY <1>3, <1>5, <1>6, Changed DEF Complete, history
<1>8. PICK t : Then(t) /\ \/ t = << >> /\ (requests[r].completed \/ ~requests[r].installed)
                          \/ t = <<Do("completed", r, k)>>
  BY <1>1 DEF Complete, Local, Now, R
<1>9. Step(r, t)
  <2>1. <<Do("completed", r, k)>> \in Seq([do : Things, r : {r}, ok : BOOLEAN])
    BY <1>3 DEF Do, Things, Endings
  <2>2. << >> \in Seq([do : Things, r : {r}, ok : BOOLEAN])
    OBVIOUS
  <2> QED BY <1>1, <1>2, <1>8, <2>1, <2>2, Puts
<1>10. Fits(r, t)
  BY <1>8 DEF Fits, Do, Openings
<1>11. /\ UNCHANGED <<net, page, late, cut, log, busy, active, timers>>
       /\ requests'[r].settled = requests[r].settled /\ requests'[r].transport = requests[r].transport
       /\ requests'[r].listening = requests[r].listening /\ requests'[r].state = requests[r].state
       /\ requests'[r].set = requests[r].set /\ requests'[r].name = requests[r].name
       /\ requests'[r].overwritten = requests[r].overwritten
       /\ requests'[r].installed = requests[r].installed /\ requests'[r].globals = requests[r].globals
  BY <1>4, <1>7 DEF Complete, Requests, history, page
<1>12. TypesKept
  BY <1>11 DEF TypesKept, AjaxInv, Typed, page
<1>13. Gone(r)'
  BY <1>4, <1>11 DEF Gone
<1>14. \A i \in DOMAIN t : Sound(t[i])'
  <2> SUFFICES ASSUME NEW i \in DOMAIN t PROVE Sound(t[i])'
    OBVIOUS
  <2>1. t[i].do = "completed" /\ t[i].r = r
    BY <1>8 DEF Do
  <2> QED BY <1>13, <2>1 DEF Sound, Openings
<1>15. Steady(r)'
  BY <1>4, <1>11, <1>13 DEF Steady
<1>16. Lasting(r)
  BY <1>11, <1>13 DEF Lasting, Unopened, page
<1>17. Names'
  BY <1>7, <1>11, NamesStep
<1>18. AjaxInv'
  BY <1>7, <1>9, <1>10, <1>12, <1>14, <1>15, <1>16, <1>17, Kept
<1>19. \A i \in DOMAIN t : t[i].do \notin Startings \cup {"uncount"}
  BY <1>8 DEF Do, Startings
<1>20. Tally => Tally'
  BY <1>2, <1>7, <1>9, <1>11, <1>19, TallyKept DEF Startings
<1>21. Quiet(t)
  BY <1>1, <1>2, <1>8 DEF Quiet, Alike, Do, Tellings, Endings, Early, Openings
<1>22. Order => Order'
  <2> SUFFICES ASSUME Order PROVE Order'
    OBVIOUS
  <2>1. CASE t = << >>
    <3>1. r \notin cut => ~requests[r].completed
      <4>1. 1 \in DOMAIN agenda /\ agenda[1].do = "complete" /\ agenda[1].r = r
        BY <1>2, <1>9, Under
      <4> QED BY <1>3, <4>1 DEF Order, Untold
    <3>2. r \notin cut => ~requests[r].installed
      <4>1. requests[r].completed \/ ~requests[r].installed
        BY <1>8, <2>1
      <4> QED BY <3>1, <4>1
    <3>3. CASE r \notin cut
      BY <1>2, <1>7, <1>9, <1>11, <1>21, <3>2, <3>3, OrderKept
    <3>4. CASE r \in cut
      BY <1>7, <1>9, <1>11, <2>1, <3>4, OrderOwn
    <3> QED BY <3>3, <3>4
  <2>2. CASE t = <<Do("completed", r, k)>>
    <3>1. 1 \in DOMAIN t /\ Alike(t[1], Head(agenda))
      BY <1>1, <1>2, <2>2 DEF Alike, Do
    <3> QED BY <1>2, <1>7, <1>9, <1>11, <1>21, <3>1, OrderKept
  <2> QED BY <1>8, <2>1, <2>2
<1> QED BY <1>18, <1>20, <1>22 DEF Keeps

\* A request is over: what tells so is put on the stack once.
LEMMA DoneKeeps ==
  ASSUME AjaxInv, Done
  PROVE  Keeps
<1>1. PICK r, k : r = Head(agenda).r /\ k = Converted(r, Head(agenda).ok)
  OBVIOUS
<1>2. agenda # << >> /\ Head(agenda).do = "done"
  BY DEF Done, Doing
<1>3. r \in DOMAIN requests /\ Head(agenda).ok \in BOOLEAN
  BY <1>1, <1>2, HeadItem DEF AjaxInv, Doings
<1>4. k \in BOOLEAN
  BY <1>1, <1>3 DEF Converted
<1>5. Steady(r) /\ requests[r] \in Requests /\ ~requests[r].listening
  BY <1>1, <1>2, HeadSound
<1>6. CASE requests[r].state = 2
  <2>1. Then(<< >>) /\ UNCHANGED <<requests, net, page, late, cut, log, busy, active, timers>>
    BY <1>1, <1>6 DEF Done, IsDone, Now, R, history
  <2> QED BY <1>2, <2>1, Nothing DEF Startings, Lasts
<1>7. CASE requests[r].state # 2
  <2> DEFINE v == [requests[r] EXCEPT !.state = 2, !.transport = FALSE]
  <2>1. v \in Requests /\ v.data = requests[r].data /\ v.set = requests[r].set
    <3> DEFINE u == [requests[r] EXCEPT !.state = 2]
    <3>1. u \in Requests /\ u.data = requests[r].data /\ u.set = requests[r].set
      BY <1>5 DEF Requests
    <3>2. v = [u EXCEPT !.transport = FALSE]
      BY <1>5 DEF Requests
    <3> HIDE DEF u
    <3>3. /\ [u EXCEPT !.transport = FALSE] \in Requests /\ [u EXCEPT !.transport = FALSE].data = u.data
          /\ [u EXCEPT !.transport = FALSE].set = u.set
      BY <3>1 DEF Requests
    <3> HIDE DEF v
    <3> QED BY <3>1, <3>2, <3>3
  <2>2. requests' = [requests EXCEPT ![r] = v]
    BY <1>1, <1>3, <1>7 DEF Done, IsDone, Now, R
  <2>3. Only(r) /\ requests'[r] = v
    <3> HIDE DEF v
    <3> QED BY <1>3, <2>1, <2>2, Changed DEF Done, history
  <2>4. PICK t : /\ Then(t)
                 /\ \/ ~requests[r].globals /\ t = <<Do("settle", r, k), Do("complete", r, k)>>
                    \/ ~requests[r].globals
                       /\ t = <<Do("settle", r, k), Do("statusCode", r, k), Do("complete", r, k)>>
                    \/ requests[r].globals
                       /\ t = <<Do("settle", r, k), Do("ajaxEvent", r, k), Do("complete", r, k),
                                Do("ajaxComplete", r, k), Do("uncount", r, k)>>
                    \/ requests[r].globals
                       /\ t = <<Do("settle", r, k), Do("statusCode", r, k), Do("ajaxEvent", r, k),
                                Do("complete", r, k), Do("ajaxComplete", r, k), Do("uncount", r, k)>>
    <3> DEFINE a == IF requests[r].settled = "pending" THEN <<Do("statusCode", r, k)>> ELSE << >>
    <3>1. Then(<<Do("settle", r, k)>> \o a \o Global("ajaxEvent", k) \o <<Do("complete", r, k)>>
               \o Global("ajaxComplete", k) \o Global("uncount", k))
      BY <1>1, <1>7 DEF Done, IsDone, Now, R
    <3>2. a \in {<< >>, <<Do("statusCode", r, k)>>}
      OBVIOUS
    <3> HIDE DEF a
    <3>3. CASE requests[r].globals
      <4> DEFINE A == Do("settle", r, k)
                 B == Do("statusCode", r, k)
                 C == Do("ajaxEvent", r, k)
                 D == Do("complete", r, k)
                 E == Do("ajaxComplete", r, k)
                 F == Do("uncount", r, k)
      <4>1. Global("ajaxEvent", k) = <<C>> /\ Global("ajaxComplete", k) = <<E>> /\ Global("uncount", k) = <<F>>
        BY <1>1, <3>3 DEF Global, R, Now
      <4>2. Then(<<A>> \o a \o <<C>> \o <<D>> \o <<E>> \o <<F>>) /\ a \in {<< >>, <<B>>}
        BY <3>1, <3>2, <4>1
      <4>3. Then(<<A, C, D, E, F>>) \/ Then(<<A, B, C, D, E, F>>)
        <5> HIDE DEF A, B, C, D, E, F
        <5>1. <<A>> \o << >> \o <<C>> \o <<D>> \o <<E>> \o <<F>> = <<A, C, D, E, F>>
          BY FiveJoined
        <5>2. <<A>> \o <<B>> \o <<C>> \o <<D>> \o <<E>> \o <<F>> = <<A, B, C, D, E, F>>
          <6> DEFINE x == <<A>> \o <<B>> \o <<C>> \o <<D>> \o <<E>> \o <<F>>
                     y == <<A, B, C, D, E, F>>
          <6>1. /\ x \in Seq({A, B, C, D, E, F}) /\ Len(x) = 6
                /\ x[1] = A /\ x[2] = B /\ x[3] = C /\ x[4] = D /\ x[5] = E /\ x[6] = F
            OBVIOUS
          <6>2. /\ y \in Seq({A, B, C, D, E, F}) /\ Len(y) = 6
                /\ y[1] = A /\ y[2] = B /\ y[3] = C /\ y[4] = D /\ y[5] = E /\ y[6] = F
            OBVIOUS
          <6> HIDE DEF x, y
          <6>3. \A i \in 1 .. 6 : x[i] = y[i]
            BY <6>1, <6>2
          <6>4. x = y
            BY <6>1, <6>2, <6>3, SeqEqual
          <6> QED BY <6>4 DEF x, y
        <5> QED BY <4>2, <5>1, <5>2
      <4> QED BY <3>3, <4>3
    <3>4. CASE ~requests[r].globals
      <4>1. /\ Global("ajaxEvent", k) = << >> /\ Global("ajaxComplete", k) = << >>
            /\ Global("uncount", k) = << >>
        BY <1>1, <3>4 DEF Global, R, Now
      <4>2. CASE a = << >>
        BY <3>1, <3>4, <4>1, <4>2, TwoJoined
      <4>3. CASE a = <<Do("statusCode", r, k)>>
        BY <3>1, <3>4, <4>1, <4>3, ThreeJoined
      <4> QED BY <3>2, <4>2, <4>3
    <3> QED BY <3>3, <3>4
  <2>5. \A i \in DOMAIN t : t[i].do \in Endings /\ t[i].r = r /\ t[i].do \notin Openings
                            /\ t[i].do \notin {"done", "prefilter", "ajaxStart", "ajaxStop", "ajaxSend"}
    BY <2>4 DEF Do, Endings, Openings
  <2>6. Step(r, t)
    <3> DEFINE B == [do : Things, r : {r}, ok : BOOLEAN]
    <3>1. \A what \in Endings : Do(what, r, k) \in B
      BY <1>4 DEF Do, Things
    <3>2. {"settle", "statusCode", "ajaxEvent", "complete", "ajaxComplete", "uncount"} \subseteq Endings
      BY DEF Endings
    <3> HIDE DEF B
    <3>3. /\ Do("settle", r, k) \in B /\ Do("statusCode", r, k) \in B /\ Do("ajaxEvent", r, k) \in B
          /\ Do("complete", r, k) \in B /\ Do("ajaxComplete", r, k) \in B /\ Do("uncount", r, k) \in B
      BY <3>1, <3>2
    <3>4. t \in Seq(B)
      <4>1. CASE t = <<Do("settle", r, k), Do("complete", r, k)>>
        BY <3>3, <4>1
      <4>2. CASE t = <<Do("settle", r, k), Do("statusCode", r, k), Do("complete", r, k)>>
        BY <3>3, <4>2
      <4>3. CASE t = <<Do("settle", r, k), Do("ajaxEvent", r, k), Do("complete", r, k),
                       Do("ajaxComplete", r, k), Do("uncount", r, k)>>
        BY <3>3, <4>3
      <4>4. CASE t = <<Do("settle", r, k), Do("statusCode", r, k), Do("ajaxEvent", r, k),
                       Do("complete", r, k), Do("ajaxComplete", r, k), Do("uncount", r, k)>>
        BY <3>3, <4>4
      <4> QED BY <2>4, <4>1, <4>2, <4>3, <4>4
    <3> USE DEF B
    <3> QED BY <1>1, <1>2, <2>4, <3>4, Puts
  <2>18. /\ \A i, j \in DOMAIN t : i < j /\ t[i].do = "uncount" => t[j].do # "uncount"
         /\ (\E i \in DOMAIN t : t[i].do = "uncount") <=> requests[r].globals
    <3>1. CASE ~requests[r].globals
      BY <2>4, <3>1 DEF Do
    <3>2. CASE requests[r].globals
      BY <2>4, <3>2 DEF Do
    <3> QED BY <3>1, <3>2
  <2>7. Fits(r, t)
    BY <2>5 DEF Fits, Openings
  <2>8. /\ UNCHANGED <<net, page, late, cut, log, busy, active>> /\ timers' \subseteq timers
        /\ requests'[r].settled = requests[r].settled /\ ~requests'[r].transport
        /\ requests'[r].listening = requests[r].listening /\ requests'[r].state = 2
        /\ requests'[r].set = requests[r].set /\ requests'[r].name = requests[r].name
        /\ requests'[r].overwritten = requests[r].overwritten
        /\ requests'[r].installed = requests[r].installed /\ requests'[r].globals = requests[r].globals
    BY <1>5, <1>7, <2>3, <1>1 DEF Done, IsDone, Now, R, Requests, history, page
  <2>9. TypesKept
    BY <2>8 DEF TypesKept, AjaxInv, Typed, page
  <2>10. Gone(r)'
    BY <2>8 DEF Gone
  <2>11. \A i \in DOMAIN t : Sound(t[i])'
    <3> SUFFICES ASSUME NEW i \in DOMAIN t PROVE Sound(t[i])'
      OBVIOUS
    <3> QED BY <2>5, <2>10 DEF Sound, Openings
  <2>12. Steady(r)'
    BY <1>5, <2>8, <2>10 DEF Steady
  <2>13. Lasting(r)
    BY <2>8, <2>10 DEF Lasting, Unopened, page
  <2>14. Names'
    BY <2>3, <2>8, NamesStep
  <2>15. AjaxInv'
    BY <2>3, <2>6, <2>7, <2>9, <2>11, <2>12, <2>13, <2>14, Kept
  <2>16. Tally => Tally'
    BY <1>2, <1>7, <2>3, <2>5, <2>6, <2>8, <2>18, TallyDone DEF Startings
  <2>19. /\ \A i, j \in DOMAIN t : i < j => Place(t[i].do) < Place(t[j].do) /\ t[i].ok = t[j].ok
         /\ \E i \in DOMAIN t : t[i].do = "complete"
         /\ requests[r].globals <=> \E i \in DOMAIN t : t[i].do = "ajaxComplete"
    <3>1. CASE ~requests[r].globals
      BY <2>4, <3>1, Places DEF Do
    <3>2. CASE requests[r].globals
      BY <2>4, <3>2, Places DEF Do
    <3> QED BY <3>1, <3>2
  <2>20. Order => Order'
    <3> SUFFICES ASSUME Order PROVE Order'
      OBVIOUS
    <3>1. r \notin cut => Tale(r)'
      <4> SUFFICES ASSUME r \notin cut PROVE Tale(r)'
        OBVIOUS
      <4>1. Tale(r)
        BY <1>3 DEF Order, Tale
      <4>2. requests'[r].completed = requests[r].completed
        BY <1>5, <2>3 DEF Requests
      <4> QED BY <1>2, <1>3, <1>7, <2>5, <2>6, <2>8, <2>19, <4>1, <4>2, TaleEnded
    <3> QED BY <2>3, <2>5, <2>6, <2>8, <3>1, OrderOwn
  <2> QED BY <2>15, <2>16, <2>20 DEF Keeps
<1> QED BY <1>6, <1>7

\* An answer ends a request whose transport listens.
LEMMA AnswerKeeps ==
  ASSUME AjaxInv, Answer
  PROVE  Keeps
<1>1. PICK r, k : r = Head(agenda).r /\ k = Head(agenda).ok
  OBVIOUS
<1>2. agenda # << >> /\ Head(agenda).do = "answer"
  BY DEF Answer, Doing
<1>3. r \in DOMAIN requests /\ k \in BOOLEAN
  BY <1>1, <1>2, HeadItem DEF AjaxInv, Doings
<1>4. Steady(r) /\ requests[r] \in Requests
  BY <1>1, <1>2, HeadSound
<1>5. CASE ~requests[r].listening
  <2>1. Then(<< >>) /\ UNCHANGED <<requests, net, page, late, cut, log, busy, active, timers>>
    BY <1>1, <1>5 DEF Answer, Now, R, history
  <2> QED BY <1>2, <2>1, Nothing DEF Startings, Lasts
<1>6. CASE requests[r].listening
  <2> DEFINE v == [requests[r] EXCEPT !.listening = FALSE]
             t == <<Do("done", r, k)>>
  <2>1. v \in Requests /\ v.data = requests[r].data /\ v.set = requests[r].set
    BY <1>4 DEF Requests
  <2>2. requests' = [requests EXCEPT ![r] = v] /\ net' = [net EXCEPT ![r] = "over"] /\ Then(t)
    BY <1>1, <1>6 DEF Answer, Now, R
  <2>3. Only(r) /\ requests'[r] = v
    <3> HIDE DEF v
    <3> QED BY <1>3, <2>1, <2>2, Changed DEF Answer, history
  <2>4. Step(r, t)
    <3>1. t \in Seq([do : Things, r : {r}, ok : BOOLEAN])
      BY <1>3 DEF Do, Things
    <3> QED BY <1>1, <1>2, <2>2, <3>1, Puts
  <2>5. Fits(r, t)
    BY DEF Fits, Do, Openings
  <2>6. /\ UNCHANGED <<page, late, cut, log, busy, active, timers>>
        /\ requests'[r].settled = requests[r].settled /\ requests'[r].transport = requests[r].transport
        /\ ~requests'[r].listening /\ requests'[r].state = requests[r].state
        /\ requests'[r].completed = requests[r].completed
        /\ requests'[r].globals = requests[r].globals
        /\ requests'[r].set = requests[r].set /\ requests'[r].name = requests[r].name
        /\ requests'[r].overwritten = requests[r].overwritten
    BY <1>4, <2>3 DEF Answer, Requests, history, page
  <2>7. TypesKept
    BY <2>6 DEF TypesKept, AjaxInv, Typed, page
  <2>8. \A i \in DOMAIN t : Sound(t[i])'
    <3> SUFFICES ASSUME NEW i \in DOMAIN t PROVE Sound(t[i])'
      OBVIOUS
    <3>1. t[i].do = "done" /\ t[i].r = r
      BY DEF Do
    <3> HIDE DEF t
    <3> QED BY <2>6, <3>1 DEF Sound, Openings, Endings
  <2>9. net'[r] = "over"
    BY <1>3, <2>2, NetUpdated DEF AjaxInv
  <2>10. Steady(r)'
    BY <1>4, <2>6, <2>9 DEF Steady, Gone
  <2>11. Lasting(r)
    BY <1>6, <2>6 DEF Lasting, Unopened, Gone
  <2>12. Names'
    BY <2>3, <2>6, NamesStep
  <2>13. AjaxInv'
    BY <2>3, <2>4, <2>5, <2>7, <2>8, <2>10, <2>11, <2>12, Kept
  <2>14. \A i \in DOMAIN t : t[i].do \notin Startings \cup {"uncount"}
    BY DEF Do, Startings
  <2>15. Tally => Tally'
    BY <1>2, <2>3, <2>4, <2>6, <2>14, TallyKept DEF Startings
  <2>16. Quiet(t)
    BY DEF Quiet, Do, Tellings, Endings, Early, Openings
  <2>17. requests'[r].installed = requests[r].installed
    BY <1>4, <2>3 DEF Requests
  <2>18. Order => Order'
    BY <1>2, <2>3, <2>4, <2>6, <2>16, <2>17, OrderKept DEF Lasts
  <2> QED BY <2>13, <2>15, <2>18 DEF Keeps
<1> QED BY <1>5, <1>6

\* An abort stops the transport, and leaves a script that is still to come.
LEMMA AbortKeeps ==
  ASSUME AjaxInv, Abort
  PROVE  Keeps
<1>1. PICK r : r = Head(agenda).r
  OBVIOUS
<1>2. agenda # << >> /\ Head(agenda).do = "abort"
  BY DEF Abort, Doing
<1>3. r \in DOMAIN requests
  BY <1>1, <1>2, HeadItem DEF AjaxInv
<1>4. Steady(r) /\ requests[r] \in Requests
  BY <1>1, <1>2, HeadSound
<1> DEFINE t == <<Do("done", r, FALSE)>>
<1>5. Then(t)
  BY <1>1 DEF Abort, Now
<1>6. Step(r, t)
  <2>1. t \in Seq([do : Things, r : {r}, ok : BOOLEAN])
    BY DEF Do, Things
  <2> QED BY <1>1, <1>2, <1>5, <2>1, Puts
<1>7. Fits(r, t)
  BY DEF Fits, Do, Openings
<1>8. \A i \in DOMAIN t : t[i].do = "done" /\ t[i].r = r
  BY DEF Do
<1>11. \A i \in DOMAIN t : t[i].do \notin Startings \cup {"uncount"}
  BY <1>8 DEF Startings
<1>12. Quiet(t)
  BY <1>8 DEF Quiet, Tellings, Endings, Early, Openings
<1>9. CASE ~(requests[r].transport /\ requests[r].listening)
  <2>1. UNCHANGED <<requests, net, page, late, cut, log, busy, active, timers>>
    BY <1>1, <1>9 DEF Abort, Now, R
  <2>2. ~requests[r].listening
    BY <1>4, <1>9 DEF Steady
  <2>3. \A i \in DOMAIN t : Sound(t[i])
    <3> HIDE DEF t
    <3> QED BY <1>8, <2>2 DEF Sound, Openings, Endings
  <2>4. AjaxInv'
    BY <1>6, <1>7, <2>1, <2>3, Aside DEF AjaxInv, Typed
  <2>5. Only(r)
    BY <2>1 DEF AjaxInv, Typed, Only
  <2>6. Tally => Tally'
    BY <1>2, <1>6, <1>11, <2>1, <2>5, TallyKept DEF Startings
  <2>7. Order => Order'
    BY <1>2, <1>6, <1>12, <2>1, <2>5, OrderKept DEF Lasts
  <2> QED BY <2>4, <2>6, <2>7 DEF Keeps
<1>10. CASE requests[r].transport /\ requests[r].listening
  <2> DEFINE v == [requests[r] EXCEPT !.listening = FALSE]
  <2>1. v \in Requests /\ v.data = requests[r].data /\ v.set = requests[r].set
    BY <1>4 DEF Requests
  <2>2. /\ requests' = [requests EXCEPT ![r] = v]
        /\ net' = IF requests[r].set.type = "xhr" THEN [net EXCEPT ![r] = "over"] ELSE net
        /\ late' = IF requests[r].set.type = "jsonp" THEN late \cup {r} ELSE late
    BY <1>1, <1>10 DEF Abort, Now, R
  <2>3. Only(r) /\ requests'[r] = v
    <3> HIDE DEF v
    <3> QED BY <1>3, <2>1, <2>2, Changed DEF Abort
  <2>4. /\ UNCHANGED <<page, cut, log, busy, active, timers>>
        /\ late \subseteq late' /\ late' \subseteq DOMAIN requests
        /\ requests'[r].settled = requests[r].settled /\ requests'[r].transport = requests[r].transport
        /\ ~requests'[r].listening /\ requests'[r].state = requests[r].state
        /\ requests'[r].completed = requests[r].completed
        /\ requests'[r].globals = requests[r].globals
        /\ requests'[r].set = requests[r].set /\ requests'[r].name = requests[r].name
        /\ requests'[r].overwritten = requests[r].overwritten
    BY <1>3, <1>4, <2>2, <2>3 DEF Abort, Requests, page, AjaxInv, Typed
  <2>5. TypesKept
    BY <2>4 DEF TypesKept, AjaxInv, Typed, page
  <2>6. \A i \in DOMAIN t : Sound(t[i])'
    <3> SUFFICES ASSUME NEW i \in DOMAIN t PROVE Sound(t[i])'
      OBVIOUS
    <3>1. t[i].do = "done" /\ t[i].r = r
      BY <1>8
    <3> HIDE DEF t
    <3> QED BY <2>4, <3>1 DEF Sound, Openings, Endings
  <2>7. requests[r].set.type = "jsonp" => r \in late' /\ net' = net
    BY <2>2
  <2>8. Steady(r)'
    BY <1>4, <2>4, <2>7 DEF Steady, Gone
  <2>9. Lasting(r)
    BY <1>10, <2>4 DEF Lasting, Unopened, Gone
  <2>10. Names'
    BY <2>3, <2>4, NamesStep
  <2>11. AjaxInv'
    BY <1>6, <1>7, <2>3, <2>5, <2>6, <2>8, <2>9, <2>10, Kept
  <2>12. Tally => Tally'
    BY <1>2, <1>6, <1>11, <2>3, <2>4, TallyKept DEF Startings
  <2>13. requests'[r].installed = requests[r].installed
    BY <1>4, <2>3 DEF Requests
  <2>14. Order => Order'
    BY <1>2, <1>6, <1>12, <2>3, <2>4, <2>13, OrderKept DEF Lasts
  <2> QED BY <2>11, <2>12, <2>14 DEF Keeps
<1> QED BY <1>9, <1>10

\* A request that fires globals is counted.
LEMMA StartKeeps ==
  ASSUME AjaxInv, Start
  PROVE  Keeps
<1>1. PICK r : r = Head(agenda).r
  OBVIOUS
<1>2. agenda # << >> /\ Head(agenda).do = "start"
  BY DEF Start, Doing
<1>3. r \in DOMAIN requests
  BY <1>1, <1>2, HeadItem DEF AjaxInv
<1>4. Steady(r) /\ requests[r] \in Requests /\ Unopened(r, "start")
  BY <1>1, <1>2, HeadSound DEF Openings
<1>5. CASE requests[r].state = 2
  <2>1. Then(<< >>) /\ UNCHANGED <<requests, net, page, late, cut, log, busy, active, timers>>
    BY <1>1, <1>5 DEF Start, Now, R, history
  <2> QED BY <1>2, <2>1, Nothing DEF Startings, Lasts
<1>6. CASE requests[r].state # 2
  <2>1. PICK g : g = FiresGlobals(requests[r].set)
    OBVIOUS
  <2>2. g \in BOOLEAN
    <3>1. requests[r].set \in Settings
      BY <1>4 DEF Requests
    <3> QED BY <2>1, <3>1, SettingsAssumption DEF FiresGlobals
  <2> DEFINE v == [requests[r] EXCEPT !.globals = g]
  <2>3. v \in Requests /\ v.data = requests[r].data /\ v.set = requests[r].set
    BY <1>4, <2>2 DEF Requests
  <2>4. requests' = [requests EXCEPT ![r] = v]
    BY <1>1, <1>6, <2>1 DEF Start, Now, R
  <2>5. Only(r) /\ requests'[r] = v
    <3> HIDE DEF v
    <3> QED BY <1>3, <2>3, <2>4, Changed DEF Start, history
  <2>22. PICK next : next = IF requests[r].set.beforeSend THEN "beforeSend" ELSE "install"
    OBVIOUS
  <2>23. /\ next \in {"beforeSend", "install"} /\ (next = "beforeSend" => requests[r].set.beforeSend)
         /\ requests[r].set.type = "jsonp" => ~g
    BY <2>1, <2>22 DEF FiresGlobals
  <2>6. PICK t : /\ Then(t)
                 /\ \/ t = <<Do(next, r, TRUE)>> /\ ~(g /\ active = 0)
                    \/ t = <<Do("ajaxStart", r, TRUE), Do(next, r, TRUE)>> /\ g /\ active = 0
    <3> DEFINE a == <<Do("ajaxStart", r, TRUE)>>
               b == <<Do(next, r, TRUE)>>
    <3>1. \/ Then(a \o b) /\ g /\ active = 0
          \/ Then(<< >> \o b) /\ ~(g /\ active = 0)
      BY <1>1, <1>6, <2>1, <2>22 DEF Start, Now, R
    <3>2. a \o b = <<Do("ajaxStart", r, TRUE), Do(next, r, TRUE)>> /\ << >> \o b = b
      BY Pair, None
    <3> QED BY <3>1, <3>2
  <2>7. Step(r, t)
    <3>1. t \in Seq([do : Things, r : {r}, ok : BOOLEAN])
      <4>1. CASE t = <<Do(next, r, TRUE)>>
        BY <2>23, <4>1 DEF Do, Things, Openings
      <4>2. CASE t = <<Do("ajaxStart", r, TRUE), Do(next, r, TRUE)>>
        BY <2>23, <4>2 DEF Do, Things, Openings
      <4> QED BY <2>6, <4>1, <4>2
    <3> QED BY <1>1, <1>2, <2>6, <3>1, Puts
  <2>24. \A i \in DOMAIN t : /\ t[i].r = r /\ t[i].do \in {next, "ajaxStart"}
                             /\ \A j \in DOMAIN t : i < j => t[i].do = "ajaxStart"
                             /\ t[i].do = "ajaxStart" => i = 1
                             /\ ~g => i = 1
    BY <2>6, <2>23 DEF Do
  <2>8. Fits(r, t)
    <3>1. Head(agenda).do \in Openings /\ "ajaxStart" \notin Openings
      BY <1>2 DEF Openings
    <3>2. \A i \in DOMAIN t : Direct(t[i]) => i = 1
      BY <2>23, <2>24 DEF Direct
    <3> QED BY <2>23, <2>24, <3>1, <3>2 DEF Fits
  <2>9. /\ UNCHANGED <<net, page, late, cut, log, busy, timers>>
        /\ requests'[r].settled = requests[r].settled /\ requests'[r].transport = requests[r].transport
        /\ requests'[r].listening = requests[r].listening /\ requests'[r].state = requests[r].state
        /\ requests'[r].completed = requests[r].completed
        /\ requests'[r].installed = requests[r].installed
        /\ requests'[r].set = requests[r].set /\ requests'[r].name = requests[r].name
        /\ requests'[r].overwritten = requests[r].overwritten
    BY <1>4, <2>5 DEF Start, Requests, page, history
  <2>10. TypesKept
    <3>1. active' \in Int
      BY <1>1, <1>6 DEF Start, Now, R, AjaxInv, Typed
    <3> QED BY <2>9, <3>1 DEF TypesKept, AjaxInv, Typed, page
  <2>11. Unopened(r, next)'
    BY <1>4, <2>9, <2>23 DEF Unopened
  <2>12. \A i \in DOMAIN t : Sound(t[i])'
    <3> SUFFICES ASSUME NEW i \in DOMAIN t PROVE Sound(t[i])'
      OBVIOUS
    <3>1. t[i].r = r /\ t[i].do \in {next, "ajaxStart"}
      BY <2>24
    <3>2. t[i].do = "install" => Clear(t[i])'
      BY <1>6, <2>9, <3>1 DEF Clear
    <3> QED BY <2>11, <2>23, <3>1, <3>2 DEF Sound, Openings, Endings
  <2>17. ~requests[r].globals /\ requests'[r].globals = g
    BY <1>4, <2>2, <2>5 DEF Unopened, Requests
  <2>13. Steady(r)'
    BY <1>4, <2>9, <2>17, <2>23 DEF Steady, Gone
  <2>14. Names'
    BY <2>5, <2>9, NamesStep
  <2>15. Head(agenda).do \in Openings
    BY <1>2 DEF Openings
  <2>16. AjaxInv'
    BY <2>5, <2>7, <2>8, <2>10, <2>12, <2>13, <2>14, <2>15, Kept
  <2>18. active' = IF g THEN active + 1 ELSE active
    BY <1>1, <1>6, <2>1 DEF Start, Now, R
  <2>19. Tally => Tally'
    <3>1. CASE g
      <4>1. \A i \in DOMAIN t : t[i].do \notin {"ajaxStop", "uncount"}
        BY <2>23, <2>24
      <4>2. 1 \in DOMAIN t /\ t[1].do = "ajaxStart" <=> active = 0
        BY <2>6, <2>23, <3>1 DEF Do
      <4> QED BY <1>2, <1>6, <2>5, <2>7, <2>9, <2>17, <2>18, <3>1, <4>1, <4>2, TallyStart DEF Startings
    <3>2. CASE ~g
      <4>1. \A i \in DOMAIN t : t[i].do \notin Startings \cup {"uncount"}
        BY <2>6, <2>23, <3>2 DEF Do, Startings
      <4>2. requests'[r].globals = requests[r].globals
        BY <1>4, <2>2, <2>17, <3>2 DEF Requests
      <4> QED BY <1>2, <2>5, <2>7, <2>9, <2>18, <3>2, <4>1, <4>2, TallyKept DEF Startings
    <3> QED BY <2>2, <3>1, <3>2
  <2>20. Quiet(t)
    BY <1>1, <1>2, <2>23, <2>24 DEF Quiet, Alike, Do, Tellings, Endings, Early, Openings
  <2>21. Order => Order'
    BY <1>2, <1>6, <2>5, <2>7, <2>9, <2>15, <2>20, OrderKept DEF Lasts
  <2> QED BY <2>16, <2>19, <2>21 DEF Keeps
<1> QED BY <1>5, <1>6

\* What Install makes of a request: what it puts on the stack are the callbacks that are
\* overdue, and then what follows.
LEMMA Installs ==
  ASSUME AjaxInv, Install, NEW r, r = Head(agenda).r,
         ~(requests[r].set.beforeSend /\ (~Head(agenda).ok \/ requests[r].state = 2))
  PROVE  /\ Only(r) /\ TypesKept /\ Names'
         /\ UNCHANGED <<net, page, late, log, busy, timers, active>>
         /\ cut' = IF requests[r].state = 2 THEN cut \cup {r} ELSE cut
         /\ requests'[r].settled = requests[r].settled /\ requests'[r].completed = requests[r].completed
         /\ requests'[r].listening = requests[r].listening /\ requests'[r].state = requests[r].state
         /\ requests'[r].globals = requests[r].globals
         /\ requests'[r].set = requests[r].set /\ requests'[r].name = requests[r].name
         /\ requests'[r].transport = HasTransport(requests[r].set)
         /\ \E b : /\ Then(Overdue \o b)
                  /\ \/ b = <<Do("done", r, FALSE)>>
                     \/ b = <<Do("ajaxSend", r, TRUE), Do("send", r, TRUE)>> /\ requests[r].globals
                     \/ b = <<Do("send", r, TRUE)>> /\ HasTransport(requests[r].set)
<1>1. agenda # << >>
  BY DEF Install, Doing
<1>2. r \in DOMAIN requests
  BY <1>1, HeadItem DEF AjaxInv
<1>3. requests[r] \in Requests
  BY <1>1, HeadSound
<1>4. PICK has : has = HasTransport(requests[r].set)
  OBVIOUS
<1>5. has \in BOOLEAN
  BY <1>4 DEF HasTransport
<1> DEFINE v == [requests[r] EXCEPT !.installed = TRUE, !.transport = has]
<1>6. v \in Requests /\ v.data = requests[r].data /\ v.set = requests[r].set
  <2> DEFINE u == [requests[r] EXCEPT !.installed = TRUE]
  <2>1. u \in Requests /\ u.data = requests[r].data /\ u.set = requests[r].set
    BY <1>3 DEF Requests
  <2>2. v = [u EXCEPT !.transport = has]
    BY <1>3 DEF Requests
  <2> HIDE DEF u
  <2>3. /\ [u EXCEPT !.transport = has] \in Requests /\ [u EXCEPT !.transport = has].data = u.data
        /\ [u EXCEPT !.transport = has].set = u.set
    BY <1>5, <2>1 DEF Requests
  <2> HIDE DEF v
  <2> QED BY <2>1, <2>2, <2>3
<1>7. /\ requests' = [requests EXCEPT ![r] = v]
      /\ cut' = IF requests[r].state = 2 THEN cut \cup {r} ELSE cut
      /\ Then(Overdue \o IF has THEN Global("ajaxSend", TRUE) \o <<Do("send", r, TRUE)>>
                               ELSE <<Do("done", r, FALSE)>>)
  BY <1>2, <1>4 DEF Install, Stopped, Now, R
<1>8. UNCHANGED <<net, page, late, log, busy, timers, active>>
  BY DEF Install
<1>9. Only(r) /\ requests'[r] = v
  <2> HIDE DEF v
  <2> QED BY <1>2, <1>6, <1>7, <1>8, Changed
<1>10. /\ requests'[r].settled = requests[r].settled /\ requests'[r].transport = has
       /\ requests'[r].listening = requests[r].listening /\ requests'[r].state = requests[r].state
       /\ requests'[r].completed = requests[r].completed
       /\ requests'[r].globals = requests[r].globals
       /\ requests'[r].set = requests[r].set /\ requests'[r].name = requests[r].name
       /\ requests'[r].overwritten = requests[r].overwritten
  BY <1>3, <1>9 DEF Requests
<1>11. cut' \subseteq DOMAIN requests
  BY <1>2, <1>7 DEF AjaxInv, Typed
<1>12. TypesKept
  BY <1>8, <1>11 DEF TypesKept, AjaxInv, Typed, page
<1>13. Names'
  BY <1>8, <1>9, <1>10, NamesStep
<1>14. \E b : /\ Then(Overdue \o b)
             /\ \/ b = <<Do("done", r, FALSE)>>
                \/ b = <<Do("ajaxSend", r, TRUE), Do("send", r, TRUE)>> /\ requests[r].globals
                \/ b = <<Do("send", r, TRUE)>> /\ HasTransport(requests[r].set)
  <2> DEFINE c == <<Do("send", r, TRUE)>>
             d == <<Do("done", r, FALSE)>>
  <2>1. Global("ajaxSend", TRUE) = IF requests[r].globals THEN <<Do("ajaxSend", r, TRUE)>> ELSE << >>
    BY DEF Global, Now, R
  <2>2. /\ <<Do("ajaxSend", r, TRUE)>> \o c = <<Do("ajaxSend", r, TRUE), Do("send", r, TRUE)>>
        /\ << >> \o c = c
    BY Pair, None
  <2>3. CASE ~has
    <3>1. Then(Overdue \o d)
      BY <1>7, <2>3
    <3> QED BY <3>1
  <2>4. CASE has
    <3>1. Then(Overdue \o (Global("ajaxSend", TRUE) \o c))
      BY <1>7, <2>4
    <3> QED BY <1>4, <2>1, <2>2, <2>4, <3>1
  <2> QED BY <1>5, <2>3, <2>4
<1> HIDE DEF v
<1> QED BY <1>4, <1>7, <1>8, <1>9, <1>10, <1>12, <1>13, <1>14

\* A request that was aborted is cut short when it is installed.
LEMMA OverdueKeeps ==
  ASSUME AjaxInv, Install, NEW r, r = Head(agenda).r, ~requests[r].set.beforeSend, requests[r].state = 2
  PROVE  Keeps
<1>1. agenda # << >> /\ Head(agenda).do = "install"
  BY DEF Install, Doing
<1>2. r \in DOMAIN requests
  BY <1>1, HeadItem DEF AjaxInv
<1>3. Steady(r) /\ requests[r] \in Requests /\ Unopened(r, "install")
  BY <1>1, HeadSound DEF Openings
<1>4. /\ Only(r) /\ TypesKept /\ Names'
      /\ UNCHANGED <<net, page, late, log, busy, timers, active>> /\ cut' = cut \cup {r}
      /\ requests'[r].listening = requests[r].listening
      /\ requests'[r].globals = requests[r].globals
      /\ requests'[r].set = requests[r].set /\ requests'[r].name = requests[r].name
  BY Installs
<1>5. PICK b : /\ Then(Overdue \o b)
               /\ \/ b = <<Do("done", r, FALSE)>>
                  \/ b = <<Do("ajaxSend", r, TRUE), Do("send", r, TRUE)>>
                  \/ b = <<Do("send", r, TRUE)>>
  BY Installs
<1> DEFINE S == [do : {"callback", "completed", "ajaxSend", "send", "done"}, r : {r}, ok : BOOLEAN]
<1>6. b \in Seq(S) /\ \A i \in DOMAIN b : b[i].do = "send" => i = Len(b)
  <2>1. CASE b = <<Do("done", r, FALSE)>>
    BY <2>1 DEF Do
  <2>2. CASE b = <<Do("ajaxSend", r, TRUE), Do("send", r, TRUE)>>
    BY <2>2 DEF Do
  <2>3. CASE b = <<Do("send", r, TRUE)>>
    BY <2>3 DEF Do
  <2> QED BY <1>5, <2>1, <2>2, <2>3
<1>7. PICK a : a = Overdue
  OBVIOUS
<1>8. a \in Seq(S) /\ \A i \in DOMAIN a : a[i].do # "send"
  <2> DEFINE k == requests[r].settled = "resolved"
             x == IF requests[r].settled = "pending" THEN << >> ELSE <<Do("callback", r, k)>>
             y == IF requests[r].completed THEN <<Do("completed", r, k)>> ELSE << >>
             T == {z \in S : z.do # "send"}
  <2>1. a = x \o y
    BY <1>7 DEF Overdue, R, Now
  <2>2. Do("callback", r, k) \in T /\ Do("completed", r, k) \in T
    BY DEF Do
  <2>3. x \in Seq(T) /\ y \in Seq(T)
    <3> HIDE DEF T, k
    <3> QED BY <2>2
  <2>4. a \in Seq(T)
    <3> HIDE DEF T, x, y
    <3> QED BY <2>1, <2>3, ConcatProperties
  <2>5. T \subseteq S /\ \A z \in T : z.do # "send"
    OBVIOUS
  <2> HIDE DEF S, T
  <2>6. a \in [1 .. Len(a) -> T] /\ Len(a) \in Nat /\ DOMAIN a = 1 .. Len(a)
    BY <2>4, LenProperties
  <2>7. a \in [1 .. Len(a) -> S]
    BY <2>5, <2>6
  <2>8. a \in Seq(S)
    BY <2>6, <2>7
  <2> QED BY <2>5, <2>6, <2>8
<1>9. PICK t : t = a \o b
  OBVIOUS
<1>10. /\ t \in Seq(S) /\ DOMAIN t = 1 .. Len(a) + Len(b) /\ Len(a) \in Nat /\ Len(b) \in Nat
       /\ \A i \in DOMAIN t : \/ i \in DOMAIN a /\ i <= Len(a) /\ t[i] = a[i]
                              \/ i - Len(a) \in DOMAIN b /\ t[i] = b[i - Len(a)]
  <2> HIDE DEF S
  <2> QED BY <1>6, <1>8, <1>9, Joined
<1>11. \A i \in DOMAIN t : /\ t[i].do \in {"callback", "completed", "ajaxSend", "send", "done"}
                           /\ t[i].r = r
  <2>1. \A i \in DOMAIN t : t[i] \in S
    <3> HIDE DEF S
    <3> QED BY <1>10, ElementOfSeq, LenProperties
  <2> QED BY <2>1
<1>12. \A i, j \in DOMAIN t : i < j => t[i].do # "send"
  <2> SUFFICES ASSUME NEW i \in DOMAIN t, NEW j \in DOMAIN t, i < j PROVE t[i].do # "send"
    OBVIOUS
  <2>1. CASE i \in DOMAIN a /\ t[i] = a[i]
    BY <1>8, <2>1
  <2>2. CASE i - Len(a) \in DOMAIN b /\ t[i] = b[i - Len(a)]
    <3>1. i - Len(a) # Len(b)
      BY <1>10
    <3> QED BY <1>6, <2>2, <3>1
  <2> QED BY <1>10, <2>1, <2>2
<1> HIDE DEF S
<1>13. t \in Seq([do : Things, r : {r}, ok : BOOLEAN])
  <2> DEFINE U == [do : Things, r : {r}, ok : BOOLEAN]
  <2>1. S \subseteq U
    BY DEF S, Things, Openings, Endings
  <2> HIDE DEF U
  <2>2. t \in [1 .. Len(t) -> S] /\ Len(t) \in Nat
    BY <1>10, LenProperties
  <2>3. t \in [1 .. Len(t) -> U]
    BY <2>1, <2>2
  <2>4. t \in Seq(U)
    BY <2>2, <2>3
  <2> QED BY <2>4 DEF U
<1>14. Step(r, t)
  BY <1>1, <1>5, <1>7, <1>9, <1>13, Puts
<1>15. requests[r].set.type # "jsonp"
  <2>1. Direct(Head(agenda)) => Clear(Head(agenda))
    BY <1>1, HeadSound
  <2> QED BY <1>1, <2>1 DEF Direct, Clear
<1>16. Fits(r, t)
  <2>1. "install" \in Openings /\ \A what \in {"callback", "completed", "ajaxSend", "done"} : what \notin Openings
    BY DEF Openings
  <2>2. r \in cut'
    BY <1>4
  <2>3. \A i \in DOMAIN t : ~Direct(t[i])
    BY <1>11, <1>15 DEF Direct
  <2> QED BY <1>1, <1>11, <1>12, <2>1, <2>2, <2>3 DEF Fits
<1>17. Unopened(r, "send")'
  BY <1>3, <1>4 DEF Unopened
<1>18. \A i \in DOMAIN t : Sound(t[i])'
  <2> SUFFICES ASSUME NEW i \in DOMAIN t PROVE Sound(t[i])'
    OBVIOUS
  <2>1. t[i].r = r /\ t[i].do \in {"callback", "completed", "ajaxSend", "send", "done"}
    BY <1>11
  <2>2. ~requests'[r].listening /\ r \in cut'
    BY <1>3, <1>4 DEF Unopened
  <2>3. ~Direct(t[i])'
    BY <1>4, <1>15, <2>1 DEF Direct
  <2> QED BY <1>17, <2>1, <2>2, <2>3 DEF Sound, Gone, Openings, Endings
<1>19. Steady(r)'
  BY <1>3, <1>4, <1>15 DEF Steady, Gone, Unopened
<1>20. Head(agenda).do \in Openings
  BY <1>1 DEF Openings
<1>21. AjaxInv'
  BY <1>4, <1>14, <1>16, <1>18, <1>19, <1>20, Kept
<1>22. r \in cut' /\ log' = log
  BY <1>4
<1>23. Tally'
  BY <1>22 DEF Tally
<1>24. Order => Order'
  BY <1>4, <1>11, <1>14, <1>22, OrderOthers
<1> QED BY <1>21, <1>23, <1>24 DEF Keeps

\* The callbacks are installed and the transport made, unless the request is stopped.
LEMMA InstallKeeps ==
  ASSUME AjaxInv, Install
  PROVE  Keeps
<1>1. PICK r : r = Head(agenda).r
  OBVIOUS
<1>2. agenda # << >> /\ Head(agenda).do = "install"
  BY DEF Install, Doing
<1>3. r \in DOMAIN requests
  BY <1>1, <1>2, HeadItem DEF AjaxInv
<1>4. Steady(r) /\ requests[r] \in Requests /\ Unopened(r, "install")
  BY <1>1, <1>2, HeadSound DEF Openings
<1>5. CASE requests[r].set.beforeSend /\ (~Head(agenda).ok \/ requests[r].state = 2)
  <2> DEFINE t == <<Do("abort", r, FALSE)>>
  <2>1. Then(t) /\ UNCHANGED <<requests, net, page, late, cut, log, busy, active, timers>>
    BY <1>1, <1>5 DEF Install, Stopped, Now, R, history
  <2>2. Step(r, t)
    <3>1. t \in Seq([do : Things, r : {r}, ok : BOOLEAN])
      BY DEF Do, Things
    <3> QED BY <1>1, <1>2, <2>1, <3>1, Puts
  <2>3. Fits(r, t)
    BY DEF Fits, Do, Openings
  <2>4. \A i \in DOMAIN t : Sound(t[i])
    BY DEF Sound, Do, Openings, Endings
  <2>5. AjaxInv'
    BY <2>4, <2>3, <2>2, <2>1, Aside DEF AjaxInv, Typed
  <2>6. Only(r)
    BY <2>1 DEF AjaxInv, Typed, Only
  <2>7. \A i \in DOMAIN t : t[i].do \notin Startings \cup {"uncount"}
    BY DEF Do, Startings
  <2>8. Tally => Tally'
    BY <1>2, <2>1, <2>2, <2>6, <2>7, TallyKept DEF Startings
  <2>9. Quiet(t)
    BY DEF Quiet, Do, Tellings, Endings, Early, Openings
  <2>10. Order => Order'
    BY <1>2, <2>1, <2>2, <2>6, <2>9, OrderKept DEF Lasts
  <2> QED BY <2>5, <2>8, <2>10 DEF Keeps
<1>7. CASE ~requests[r].set.beforeSend /\ requests[r].state = 2
  BY <1>1, <1>7, OverdueKeeps
<1>6. CASE ~(requests[r].set.beforeSend /\ ~Head(agenda).ok) /\ requests[r].state # 2
  <2>4. /\ Only(r) /\ TypesKept /\ Names'
        /\ UNCHANGED <<net, page, late, log, busy, timers, active>>
        /\ cut' = IF requests[r].state = 2 THEN cut \cup {r} ELSE cut
        /\ requests'[r].settled = requests[r].settled /\ requests'[r].completed = requests[r].completed
        /\ requests'[r].listening = requests[r].listening /\ requests'[r].state = requests[r].state
        /\ requests'[r].globals = requests[r].globals
        /\ requests'[r].set = requests[r].set /\ requests'[r].name = requests[r].name
        /\ requests'[r].transport = HasTransport(requests[r].set)
    BY <1>1, <1>6, Installs
  <2>5. PICK t : /\ Then(Overdue \o t)
                 /\ \/ t = <<Do("done", r, FALSE)>>
                    \/ t = <<Do("ajaxSend", r, TRUE), Do("send", r, TRUE)>> /\ requests[r].globals
                    \/ t = <<Do("send", r, TRUE)>> /\ HasTransport(requests[r].set)
    BY <1>1, <1>6, Installs
  <2>1. requests[r].settled = "pending" /\ ~requests[r].completed
    BY <1>4, <1>6 DEF Steady, Gone, Unopened
  <2>3. Overdue = << >>
    <3>1. Overdue = << >> \o << >>
      BY <1>1, <2>1 DEF Overdue, R, Now
    <3>2. << >> \in Seq({})
      OBVIOUS
    <3> QED BY <3>1, <3>2, ConcatEmptySeq
  <2>7. Step(r, t)
    <3>1. t \in Seq([do : Things, r : {r}, ok : BOOLEAN])
      <4>1. CASE t = <<Do("done", r, FALSE)>>
        BY <4>1 DEF Do, Things
      <4>2. CASE t = <<Do("ajaxSend", r, TRUE), Do("send", r, TRUE)>>
        BY <4>2 DEF Do, Things, Openings
      <4>3. CASE t = <<Do("send", r, TRUE)>>
        BY <4>3 DEF Do, Things, Openings
      <4> QED BY <2>5, <4>1, <4>2, <4>3
    <3>2. << >> \o t = t
      BY <3>1, ConcatEmptySeq
    <3> QED BY <1>1, <1>2, <2>3, <2>5, <3>1, <3>2, Puts
  <2>21. requests[r].globals => requests[r].set.type # "jsonp"
    BY <1>4 DEF Steady
  <2>22. \A i \in DOMAIN t : /\ t[i].r = r /\ t[i].do \in {"done", "ajaxSend", "send"}
                             /\ t[i].do = "ajaxSend" => i = 1
                             /\ \A j \in DOMAIN t : i < j => t[i].do = "ajaxSend"
                             /\ i = 1 \/ requests[r].globals
    BY <2>5 DEF Do
  <2>8. Fits(r, t)
    <3>1. Head(agenda).do \in Openings /\ "ajaxSend" \notin Openings /\ "done" \notin Openings
      BY <1>2 DEF Openings
    <3>2. \A i \in DOMAIN t : Direct(t[i]) => i = 1
      BY <2>21, <2>22 DEF Direct
    <3> QED BY <2>22, <3>1, <3>2 DEF Fits
  <2>9. UNCHANGED <<net, page, late, cut, log, busy, timers, active>>
    BY <1>6, <2>4
  <2>11. Unopened(r, "send")'
    BY <1>4, <2>4 DEF Unopened
  <2>12. \A i \in DOMAIN t : Sound(t[i])'
    <3> SUFFICES ASSUME NEW i \in DOMAIN t PROVE Sound(t[i])'
      OBVIOUS
    <3>1. t[i].r = r /\ t[i].do \in {"done", "ajaxSend", "send"}
      BY <2>22
    <3>2. ~requests'[r].listening
      BY <1>4, <2>4 DEF Unopened
    <3>3. t[i].do = "send" /\ Direct(t[i])' => Clear(t[i])'
      <4> SUFFICES ASSUME t[i].do = "send", Direct(t[i])' PROVE Clear(t[i])'
        OBVIOUS
      <4>1. requests[r].set.type = "jsonp"
        BY <2>4, <3>1 DEF Direct
      <4>2. requests'[r].transport
        BY <2>4, <4>1 DEF HasTransport
      <4> QED BY <3>1, <4>2 DEF Clear
    <3> QED BY <2>11, <3>1, <3>2, <3>3 DEF Sound, Openings, Endings
  <2>13. Steady(r)'
    BY <1>4, <1>6, <2>1, <2>4, <2>9 DEF Steady, Unopened
  <2>15. Head(agenda).do \in Openings
    BY <1>2 DEF Openings
  <2>16. AjaxInv'
    BY <2>4, <2>7, <2>8, <2>12, <2>13, <2>15, Kept
  <2>17. \A i \in DOMAIN t : t[i].do \notin Startings \cup {"uncount"}
    BY <2>22 DEF Startings
  <2>18. Tally => Tally'
    BY <1>2, <2>4, <2>7, <2>9, <2>17, TallyKept DEF Startings
  <2>19. Order => Order'
    <3> SUFFICES ASSUME Order PROVE Order'
      OBVIOUS
    <3>1. CASE t = <<Do("ajaxSend", r, TRUE), Do("send", r, TRUE)>>
      <4>1. /\ DOMAIN t = 1 .. 2 /\ t[1].do = "ajaxSend" /\ t[2].do = "send"
            /\ \A i \in DOMAIN t : t[i].r = r
        BY <3>1 DEF Do
      <4>2. r \notin cut => Tale(r)'
        <5> SUFFICES ASSUME r \notin cut PROVE Tale(r)'
          OBVIOUS
        <5>1. Tale(r)
          BY <1>3 DEF Order, Tale
        <5>2. requests'[r].state # 2 /\ log' = log
          BY <1>6, <2>4
        <5> QED BY <1>2, <1>6, <2>7, <4>1, <5>1, <5>2, TaleSent
      <4>3. cut' = cut /\ log' = log
        BY <2>9
      <4>4. \A i \in DOMAIN t : t[i].do \in Tellings \cup Early => t[i].r = r
        BY <4>1
      <4> QED BY <2>4, <2>7, <4>2, <4>3, <4>4, OrderOwn
    <3>2. CASE t # <<Do("ajaxSend", r, TRUE), Do("send", r, TRUE)>>
      <4>1. Quiet(t)
        BY <2>5, <3>2 DEF Quiet, Do, Tellings, Endings, Early, Openings
      <4> QED BY <1>2, <1>6, <2>4, <2>7, <2>9, <4>1, OrderKept DEF Lasts
    <3> QED BY <3>1, <3>2
  <2> QED BY <2>16, <2>18, <2>19 DEF Keeps
<1> QED BY <1>5, <1>6, <1>7

\* A request is sent, or cut if a handler of ajaxSend has aborted it.
LEMMA SendKeeps ==
  ASSUME AjaxInv, Send
  PROVE  Keeps
<1>1. PICK r, has : r = Head(agenda).r /\ has = requests[r].transport
  OBVIOUS
<1>2. agenda # << >> /\ Head(agenda).do = "send"
  BY DEF Send, Doing
<1>3. r \in DOMAIN requests
  BY <1>1, <1>2, HeadItem DEF AjaxInv
<1>4. Steady(r) /\ requests[r] \in Requests /\ Unopened(r, "send") /\ has \in BOOLEAN
  BY <1>1, <1>2, HeadSound DEF Openings, Requests
<1> DEFINE v == [requests[r] EXCEPT !.state = 1, !.listening = has]
<1>5. v \in Requests /\ v.data = requests[r].data /\ v.set = requests[r].set
  <2> DEFINE u == [requests[r] EXCEPT !.state = 1]
  <2>1. u \in Requests /\ u.data = requests[r].data /\ u.set = requests[r].set
    BY <1>4 DEF Requests
  <2>2. v = [u EXCEPT !.listening = has]
    BY <1>4 DEF Requests
  <2> HIDE DEF u
  <2>3. /\ [u EXCEPT !.listening = has] \in Requests /\ [u EXCEPT !.listening = has].data = u.data
        /\ [u EXCEPT !.listening = has].set = u.set
    BY <1>4, <2>1 DEF Requests
  <2> HIDE DEF v
  <2> QED BY <2>1, <2>2, <2>3
<1>6. requests' = [requests EXCEPT ![r] = v]
  BY <1>1, <1>3 DEF Send, Now, R
<1>7. /\ has => net' = [net EXCEPT ![r] = "sent"] /\ cut' = cut
      /\ ~has => net' = net /\ cut' = cut \cup {r}
  BY <1>1 DEF Send, TransportSends, Now, R
<1>8. Only(r) /\ requests'[r] = v
  <2> HIDE DEF v
  <2> QED BY <1>3, <1>5, <1>6, <1>7, Changed
<1>9. PICK t : Then(t) /\ \/ has /\ t = << >>
                          \/ has /\ \E ok \in BOOLEAN : t = <<Do("answer", r, ok)>>
                          \/ ~has /\ t = <<Do("done", r, FALSE)>>
  BY <1>1 DEF Send, TransportSends, Now, R
<1>10. Step(r, t)
  <2>1. t \in Seq([do : Things, r : {r}, ok : BOOLEAN])
    <3>1. CASE t = << >>
      BY <3>1
    <3>2. ASSUME NEW ok \in BOOLEAN, t = <<Do("answer", r, ok)>>
          PROVE  <2>1
      BY <3>2 DEF Do, Things
    <3>3. CASE t = <<Do("done", r, FALSE)>>
      BY <3>3 DEF Do, Things
    <3> QED BY <1>9, <3>1, <3>2, <3>3
  <2> QED BY <1>1, <1>2, <1>9, <2>1, Puts
<1>11. Fits(r, t)
  BY <1>9 DEF Fits, Do, Openings
<1>12. /\ UNCHANGED <<page, late, log, busy, active>>
       /\ cut' \subseteq DOMAIN requests /\ timers' \subseteq DOMAIN requests
       /\ requests'[r].settled = requests[r].settled /\ requests'[r].transport = has
       /\ requests'[r].listening = has /\ requests'[r].state = 1
       /\ requests'[r].completed = requests[r].completed
       /\ requests'[r].globals = requests[r].globals
       /\ requests'[r].set = requests[r].set /\ requests'[r].name = requests[r].name
       /\ requests'[r].overwritten = requests[r].overwritten
  BY <1>1, <1>3, <1>4, <1>7, <1>8 DEF Send, Now, R, Requests, page, TimedOut, AjaxInv, Typed
<1>13. TypesKept
  BY <1>12 DEF TypesKept, AjaxInv, Typed, page
<1>14. \A i \in DOMAIN t : Sound(t[i])'
  <2> SUFFICES ASSUME NEW i \in DOMAIN t PROVE Sound(t[i])'
    OBVIOUS
  <2>1. t[i].r = r /\ (t[i].do = "answer" \/ (t[i].do = "done" /\ ~has))
    <3>1. CASE t = << >>
      BY <3>1
    <3>2. CASE \E ok \in BOOLEAN : t = <<Do("answer", r, ok)>>
      <4>1. PICK ok \in BOOLEAN : t = <<Do("answer", r, ok)>>
        BY <3>2
      <4>2. t[i].r = r /\ t[i].do = "answer"
        BY <4>1 DEF Do
      <4> QED BY <4>2
    <3>3. CASE ~has /\ t = <<Do("done", r, FALSE)>>
      <4>1. t[i].r = r /\ t[i].do = "done"
        BY <3>3 DEF Do
      <4> QED BY <3>3, <4>1
    <3> QED BY <1>9, <3>1, <3>2, <3>3
  <2> QED BY <1>12, <2>1 DEF Sound, Openings, Endings
<1>15. Steady(r)'
  <2>3. requests[r].set.type = "jsonp" => has
    <3>1. Direct(Head(agenda)) => Clear(Head(agenda))
      BY <1>2, HeadSound
    <3> QED BY <1>1, <1>2, <3>1 DEF Direct, Clear
  <2>1. CASE has
    BY <1>1, <1>4, <1>7, <1>12, <2>1 DEF Steady, Unopened, Gone
  <2>2. CASE ~has
    BY <1>1, <1>4, <1>7, <1>12, <2>2, <2>3 DEF Steady, Unopened, Gone
  <2> QED BY <1>4, <2>1, <2>2
<1>16. Names'
  BY <1>8, <1>12, NamesStep
<1>17. Head(agenda).do \in Openings
  BY <1>2 DEF Openings
<1>18. AjaxInv'
  BY <1>8, <1>10, <1>11, <1>13, <1>14, <1>15, <1>16, <1>17, Kept
<1>19. \A i \in DOMAIN t : t[i].do \notin Startings \cup {"uncount"}
  <2>1. CASE t = << >>
    BY <2>1
  <2>2. CASE \E ok \in BOOLEAN : t = <<Do("answer", r, ok)>>
    BY <2>2 DEF Do, Startings
  <2>3. CASE t = <<Do("done", r, FALSE)>>
    BY <2>3 DEF Do, Startings
  <2> QED BY <1>9, <2>1, <2>2, <2>3
<1>20. cut \subseteq cut' /\ (cut' = {} => has)
  BY <1>4, <1>7
<1>21. cut' = {} => requests'[r].state # 2 /\ requests[r].state # 2
  BY <1>1, <1>4, <1>12, <1>20 DEF Steady
<1>22. Tally => Tally'
  BY <1>2, <1>8, <1>10, <1>12, <1>19, <1>20, <1>21, TallyKept DEF Startings
<1>23. Quiet(t)
  <2>1. CASE t = << >>
    BY <2>1 DEF Quiet
  <2>2. CASE \E ok \in BOOLEAN : t = <<Do("answer", r, ok)>>
    BY <2>2 DEF Quiet, Do, Tellings, Endings, Early, Openings
  <2>3. CASE t = <<Do("done", r, FALSE)>>
    BY <2>3 DEF Quiet, Do, Tellings, Endings, Early, Openings
  <2> QED BY <1>9, <2>1, <2>2, <2>3
<1>24. r \notin cut' => requests'[r].state # 2 /\ requests[r].state # 2
  BY <1>1, <1>4, <1>7, <1>12 DEF Steady
<1>25. Order => Order'
  BY <1>2, <1>8, <1>10, <1>12, <1>20, <1>23, <1>24, OrderKept DEF Lasts
<1> QED BY <1>18, <1>22, <1>25 DEF Keeps

\* Names when r takes name n, which nobody has.
LEMMA NamesTaken ==
  ASSUME AjaxInv, NEW r \in DOMAIN requests, Only(r), NEW n \in 1 .. MaxRequests,
         window' = [window EXCEPT ![n] = r], window[n] = 0,
         requests[r].name = 0, requests'[r].name = n, requests'[r].overwritten = 0,
         requests'[r].settled = "pending",
         nonce' \in Nat, nonce <= nonce', n < nonce', nonce' <= Len(requests) + 1,
         \A i \in DOMAIN oldCallbacks' : /\ oldCallbacks'[i] \in 1 .. nonce - 1 /\ oldCallbacks'[i] # n
                                         /\ window[oldCallbacks'[i]] = 0,
         \A i, j \in DOMAIN oldCallbacks' : i # j => oldCallbacks'[i] # oldCallbacks'[j]
  PROVE  Names'
<1>1. /\ Len(requests) \in Nat /\ DOMAIN requests = 1 .. Len(requests)
      /\ DOMAIN requests' = DOMAIN requests /\ Len(requests') = Len(requests)
      /\ Len(requests) <= MaxRequests /\ MaxRequests \in Nat /\ nonce \in Nat
      /\ window \in [1 .. MaxRequests -> 0 .. Len(requests)]
  BY LenProperties, BoundsAssumption DEF AjaxInv, Typed, Only
<1>2. \A m \in DOMAIN window : /\ window[m] # 0 => requests[window[m]].name = m
                                                   /\ requests[window[m]].settled = "pending"
                               /\ m >= nonce => window[m] = 0
  BY DEF AjaxInv, Names
<1>3. \A q \in DOMAIN requests :
         /\ requests[q].overwritten = 0 /\ requests[q].name < nonce
         /\ requests[q].name # 0 /\ requests[q].settled = "pending" => window[requests[q].name] = q
         /\ requests[q].name \in Nat
  <2>1. \A q \in DOMAIN requests : requests[q] \in Requests
    BY ElementOfSeq, <1>1 DEF AjaxInv, Typed
  <2> QED BY <2>1 DEF AjaxInv, Names, Requests
<1>4. /\ DOMAIN window' = 1 .. MaxRequests /\ window'[n] = r
      /\ \A m \in 1 .. MaxRequests : m # n => window'[m] = window[m]
  BY <1>1
<1>5. ASSUME NEW m \in DOMAIN window'
      PROVE  /\ window'[m] # 0 => requests'[window'[m]].name = m
                                  /\ requests'[window'[m]].settled = "pending"
             /\ m >= nonce' => window'[m] = 0
  <2>1. CASE m = n
    BY <1>1, <1>4, <2>1
  <2>2. CASE m # n
    <3>1. window'[m] = window[m] /\ m \in 1 .. MaxRequests /\ window[m] \in 0 .. Len(requests)
      BY <1>1, <1>4, <1>5, <2>2
    <3>2. window[m] # 0 => window[m] # r /\ window[m] \in DOMAIN requests
      BY <1>1, <1>2, <3>1
    <3>3. window[m] # 0 => requests'[window[m]] = requests[window[m]]
      BY <3>2 DEF Only
    <3> QED BY <1>1, <1>2, <3>1, <3>2, <3>3
  <2> QED BY <2>1, <2>2
<1>6. ASSUME NEW q \in DOMAIN requests
      PROVE  /\ requests'[q].overwritten = 0 /\ requests'[q].name < nonce'
             /\ requests'[q].name # 0 /\ requests'[q].settled = "pending" =>
                  window'[requests'[q].name] = q
  <2>1. CASE q = r
    BY <1>4, <2>1
  <2>2. CASE q # r
    <3>1. requests'[q] = requests[q]
      BY <2>2 DEF Only
    <3>2. requests[q].name # 0 /\ requests[q].settled = "pending" =>
            /\ requests[q].name # n /\ requests[q].name \in 1 .. MaxRequests
      <4>1. requests[q].name < Len(requests) + 1
        BY <1>1, <1>3
      <4> QED BY <1>1, <1>3, <4>1
    <3> QED BY <1>1, <1>3, <1>4, <3>1, <3>2
  <2> QED BY <2>1, <2>2
<1>7. \A i \in DOMAIN oldCallbacks' : window'[oldCallbacks'[i]] = 0
  BY <1>1, <1>4
<1> QED BY <1>1, <1>5, <1>6, <1>7 DEF Names

\* Names when r, which is settled, gives its name free.
LEMMA NamesFreed ==
  ASSUME AjaxInv, NEW r \in DOMAIN requests, Only(r), requests[r].settled = "pending",
         requests'[r].settled # "pending", requests'[r].name = requests[r].name,
         requests'[r].overwritten = requests[r].overwritten, nonce' = nonce,
         requests[r].name # 0,
         window' = [window EXCEPT ![requests[r].name] = requests[r].overwritten],
         oldCallbacks' = Append(oldCallbacks, requests[r].name)
  PROVE  /\ Names' /\ oldCallbacks' \in Seq(1 .. nonce - 1)
         /\ window' \in [1 .. MaxRequests -> 0 .. Len(requests)]
<1>1. /\ Len(requests) \in Nat /\ DOMAIN requests = 1 .. Len(requests)
      /\ DOMAIN requests' = DOMAIN requests /\ Len(requests') = Len(requests)
      /\ Len(requests) <= MaxRequests /\ MaxRequests \in Nat /\ nonce \in Nat
      /\ window \in [1 .. MaxRequests -> 0 .. Len(requests)] /\ nonce <= Len(requests) + 1
  BY LenProperties, BoundsAssumption DEF AjaxInv, Typed, Only, Names
<1>2. \A m \in DOMAIN window : /\ window[m] # 0 => requests[window[m]].name = m
                                                   /\ requests[window[m]].settled = "pending"
                               /\ m >= nonce => window[m] = 0
  BY DEF AjaxInv, Names
<1>3. \A q \in DOMAIN requests :
         /\ requests[q].overwritten = 0 /\ requests[q].name < nonce
         /\ requests[q].name # 0 /\ requests[q].settled = "pending" => window[requests[q].name] = q
         /\ requests[q].name \in Nat
  <2>1. \A q \in DOMAIN requests : requests[q] \in Requests
    BY ElementOfSeq, <1>1 DEF AjaxInv, Typed
  <2> QED BY <2>1 DEF AjaxInv, Names, Requests
<1>4. PICK n : n = requests[r].name
  OBVIOUS
<1>5. n \in 1 .. nonce - 1 /\ n \in 1 .. MaxRequests /\ window[n] = r
  BY <1>1, <1>3, <1>4
<1>6. /\ window' = [window EXCEPT ![n] = 0] /\ oldCallbacks' = Append(oldCallbacks, n)
      /\ requests'[r].name = n
  BY <1>3, <1>4
<1>7. /\ DOMAIN window' = 1 .. MaxRequests /\ window'[n] = 0
      /\ \A m \in 1 .. MaxRequests : m # n => window'[m] = window[m]
      /\ window' \in [1 .. MaxRequests -> 0 .. Len(requests)]
  BY <1>1, <1>5, <1>6
<1>8. /\ oldCallbacks \in Seq(1 .. nonce - 1)
      /\ \A i \in DOMAIN oldCallbacks : window[oldCallbacks[i]] = 0 /\ oldCallbacks[i] \in 1 .. nonce - 1
      /\ \A i, j \in DOMAIN oldCallbacks : i # j => oldCallbacks[i] # oldCallbacks[j]
  <2>1. \A i \in DOMAIN oldCallbacks : oldCallbacks[i] \in 1 .. nonce - 1
    BY ElementOfSeq, LenProperties DEF AjaxInv, Typed
  <2> QED BY <2>1 DEF AjaxInv, Names, Typed
<1>9. /\ oldCallbacks' \in Seq(1 .. nonce - 1)
      /\ \A i \in DOMAIN oldCallbacks' :
           \/ i \in DOMAIN oldCallbacks /\ oldCallbacks'[i] = oldCallbacks[i]
           \/ i = Len(oldCallbacks) + 1 /\ oldCallbacks'[i] = n
  <2>1. /\ Len(oldCallbacks) \in Nat /\ DOMAIN oldCallbacks = 1 .. Len(oldCallbacks)
        /\ oldCallbacks' \in Seq(1 .. nonce - 1) /\ Len(oldCallbacks') = Len(oldCallbacks) + 1
        /\ \A i \in 1 .. Len(oldCallbacks) : oldCallbacks'[i] = oldCallbacks[i]
        /\ oldCallbacks'[Len(oldCallbacks) + 1] = n
    BY <1>5, <1>6, <1>8, AppendProperties, LenProperties
  <2>2. DOMAIN oldCallbacks' = 1 .. Len(oldCallbacks) + 1
    BY <2>1, LenProperties
  <2> QED BY <2>1, <2>2
<1>10. \A i \in DOMAIN oldCallbacks : oldCallbacks[i] # n
  <2>1. r # 0 /\ window[n] = r
    BY <1>1, <1>5
  <2>2. \A i \in DOMAIN oldCallbacks : window[oldCallbacks[i]] = 0
    BY <1>8
  <2> QED BY <2>1, <2>2
<1>11. ASSUME NEW m \in DOMAIN window'
       PROVE  /\ window'[m] # 0 => requests'[window'[m]].name = m
                                   /\ requests'[window'[m]].settled = "pending"
              /\ m >= nonce' => window'[m] = 0
  <2>1. CASE m = n
    BY <1>7, <2>1
  <2>2. CASE m # n
    <3>1. window'[m] = window[m] /\ m \in 1 .. MaxRequests /\ window[m] \in 0 .. Len(requests)
      BY <1>1, <1>7, <1>11, <2>2
    <3>2. window[m] # 0 => window[m] # r /\ window[m] \in DOMAIN requests
      BY <1>1, <1>2, <1>4, <2>2, <3>1
    <3>3. window[m] # 0 => requests'[window[m]] = requests[window[m]]
      BY <3>2 DEF Only
    <3> QED BY <1>1, <1>2, <3>1, <3>2, <3>3
  <2> QED BY <2>1, <2>2
<1>12. ASSUME NEW q \in DOMAIN requests
       PROVE  /\ requests'[q].overwritten = 0 /\ requests'[q].name < nonce'
              /\ requests'[q].name # 0 /\ requests'[q].settled = "pending" =>
                   window'[requests'[q].name] = q
  <2>1. CASE q = r
    BY <1>3, <2>1
  <2>2. CASE q # r
    <3>1. requests'[q] = requests[q]
      BY <2>2 DEF Only
    <3>2. requests[q].name # 0 /\ requests[q].settled = "pending" =>
            /\ requests[q].name # n /\ requests[q].name \in 1 .. MaxRequests
      <4>1. requests[q].name < Len(requests) + 1
        BY <1>1, <1>3
      <4> QED BY <1>1, <1>3, <1>5, <2>2, <4>1
    <3> QED BY <1>1, <1>3, <1>7, <3>1, <3>2
  <2> QED BY <2>1, <2>2
<1>13. \A i \in DOMAIN oldCallbacks' : window'[oldCallbacks'[i]] = 0
  <2> SUFFICES ASSUME NEW i \in DOMAIN oldCallbacks' PROVE window'[oldCallbacks'[i]] = 0
    OBVIOUS
  <2>1. CASE i \in DOMAIN oldCallbacks /\ oldCallbacks'[i] = oldCallbacks[i]
    <3>1. oldCallbacks[i] \in 1 .. nonce - 1 /\ oldCallbacks[i] # n /\ window[oldCallbacks[i]] = 0
      BY <1>8, <1>10, <2>1
    <3>2. oldCallbacks[i] \in 1 .. MaxRequests
      BY <1>1, <3>1
    <3> QED BY <1>7, <2>1, <3>1, <3>2
  <2>2. CASE oldCallbacks'[i] = n
    BY <1>7, <2>2
  <2> QED BY <1>9, <2>1, <2>2
<1>14. \A i, j \in DOMAIN oldCallbacks' : i # j => oldCallbacks'[i] # oldCallbacks'[j]

  <2> QED BY <1>8, <1>9, <1>10
<1> QED BY <1>1, <1>7, <1>9, <1>11, <1>12, <1>13, <1>14 DEF Names

\* The deferred is settled, and the name of the callback given free.
LEMMA SettleKeeps ==
  ASSUME AjaxInv, Settle
  PROVE  Keeps
<1>1. PICK r, k : r = Head(agenda).r /\ k = Head(agenda).ok
  OBVIOUS
<1>2. agenda # << >> /\ Head(agenda).do = "settle"
  BY DEF Settle, Doing
<1>3. r \in DOMAIN requests /\ k \in BOOLEAN
  BY <1>1, <1>2, HeadItem DEF AjaxInv, Doings
<1>4. Steady(r) /\ requests[r] \in Requests /\ Gone(r)
  BY <1>1, <1>2, HeadSound DEF Endings
<1>5. CASE requests[r].settled # "pending"
  <2>1. Then(<< >>) /\ UNCHANGED <<requests, net, page, late, cut, log, busy, active, timers>>
    BY <1>1, <1>5 DEF Settle, Now, R, history
  <2> QED BY <1>2, <2>1, Nothing DEF Startings, Lasts
<1>6. CASE requests[r].settled = "pending"
  <2>1. PICK how : how = IF k THEN "resolved" ELSE "rejected"
    OBVIOUS
  <2> DEFINE v == [requests[r] EXCEPT !.settled = how]
  <2>2. v \in Requests /\ v.data = requests[r].data /\ v.set = requests[r].set /\ how # "pending"
    BY <1>4, <2>1 DEF Requests
  <2>3. requests' = [requests EXCEPT ![r] = v]
    BY <1>1, <1>6, <2>1 DEF Settle, Now, R
  <2>4. Only(r) /\ requests'[r] = v
    <3> HIDE DEF v
    <3> QED BY <1>3, <2>2, <2>3, Changed DEF Settle, history
  <2>5. PICK t : Then(t) /\ (t = << >> \/ t = <<Do("callback", r, k)>>)
    BY <1>1, <1>6 DEF Settle, Local, Now, R
  <2>6. Step(r, t)
    <3>1. <<Do("callback", r, k)>> \in Seq([do : Things, r : {r}, ok : BOOLEAN])
      BY <1>3 DEF Do, Things, Endings
    <3>2. << >> \in Seq([do : Things, r : {r}, ok : BOOLEAN])
      OBVIOUS
    <3> QED BY <1>1, <1>2, <2>5, <3>1, <3>2, Puts
  <2>7. Fits(r, t)
    BY <2>5 DEF Fits, Do, Openings
  <2>8. /\ UNCHANGED <<net, late, cut, log, busy, active, timers, nonce>>
        /\ requests'[r].settled = how /\ requests'[r].transport = requests[r].transport
        /\ requests'[r].listening = requests[r].listening /\ requests'[r].state = requests[r].state
        /\ requests'[r].set = requests[r].set /\ requests'[r].name = requests[r].name
        /\ requests'[r].overwritten = requests[r].overwritten
        /\ requests'[r].installed = requests[r].installed /\ requests'[r].globals = requests[r].globals
    BY <1>1, <1>4, <1>6, <2>4 DEF Settle, Now, R, Requests, history, page
  <2>9. /\ Names' /\ oldCallbacks' \in Seq(1 .. nonce - 1)
        /\ window' \in [1 .. MaxRequests -> 0 .. Len(requests)]
    <3>1. CASE requests[r].name # 0
      <4>1. /\ window' = [window EXCEPT ![requests[r].name] = requests[r].overwritten]
            /\ oldCallbacks' = Append(oldCallbacks, requests[r].name)
        BY <1>1, <1>6, <3>1 DEF Settle, Restored, Now, R
      <4> QED BY <1>3, <1>6, <2>2, <2>4, <2>8, <3>1, <4>1, NamesFreed
    <3>2. CASE requests[r].name = 0
      <4>1. UNCHANGED <<window, oldCallbacks>>
        BY <1>1, <1>6, <3>2 DEF Settle, Now, R
      <4>2. DOMAIN requests' = DOMAIN requests /\ Len(requests') = Len(requests)
        BY <2>4, LenProperties DEF AjaxInv, Typed, Only
      <4>3. /\ window \in [1 .. MaxRequests -> 0 .. Len(requests)] /\ Len(requests) \in Nat
            /\ DOMAIN requests = 1 .. Len(requests) /\ MaxRequests \in Nat
        BY LenProperties, BoundsAssumption DEF AjaxInv, Typed
      <4>4. \A q \in DOMAIN requests : q # r => requests'[q] = requests[q]
        BY <2>4 DEF Only
      <4>5. \A n \in DOMAIN window : window[n] # 0 => /\ window[n] \in DOMAIN requests /\ window[n] # r
        <5> SUFFICES ASSUME NEW n \in DOMAIN window, window[n] # 0
                     PROVE  window[n] \in DOMAIN requests /\ window[n] # r
          OBVIOUS
        <5>1. requests[window[n]].name = n /\ n # 0 /\ window[n] \in 0 .. Len(requests)
          BY <4>3 DEF AjaxInv, Names
        <5> QED BY <3>2, <4>3, <5>1
      <4>6. Names'
        <5>1. nonce' <= Len(requests') + 1
          BY <2>8, <4>2 DEF AjaxInv, Names
        <5>2. \A n \in DOMAIN window' :
                /\ window'[n] # 0 => /\ requests'[window'[n]].name = n
                                     /\ requests'[window'[n]].settled = "pending"
                /\ n >= nonce' => window'[n] = 0
          BY <2>8, <4>1, <4>4, <4>5 DEF AjaxInv, Names
        <5>3. \A q \in DOMAIN requests' :
                /\ requests'[q].overwritten = 0 /\ requests'[q].name < nonce'
                /\ requests'[q].name # 0 /\ requests'[q].settled = "pending" =>
                     window'[requests'[q].name] = q
          BY <2>2, <2>8, <4>1, <4>2, <4>4 DEF AjaxInv, Names
        <5> QED BY <4>1, <5>1, <5>2, <5>3 DEF AjaxInv, Names
      <4> QED BY <4>1, <4>6 DEF AjaxInv, Typed
    <3> QED BY <3>1, <3>2
  <2>10. TypesKept
    BY <2>8, <2>9 DEF TypesKept, AjaxInv, Typed
  <2>11. Gone(r)'
    BY <1>4, <2>8 DEF Gone
  <2>12. \A i \in DOMAIN t : Sound(t[i])'
    <3> SUFFICES ASSUME NEW i \in DOMAIN t PROVE Sound(t[i])'
      OBVIOUS
    <3>1. t[i].do = "callback" /\ t[i].r = r
      BY <2>5 DEF Do
    <3> QED BY <2>11, <3>1 DEF Sound, Openings
  <2>13. Steady(r)'
    BY <1>4, <2>8, <2>11 DEF Steady
  <2>14. Lasting(r)
    BY <2>8, <2>11 DEF Lasting, Unopened
  <2>15. AjaxInv'
    BY <2>4, <2>6, <2>7, <2>9, <2>10, <2>12, <2>13, <2>14, Kept
  <2>16. \A i \in DOMAIN t : t[i].do \notin Startings \cup {"uncount"}
    BY <2>5 DEF Do, Startings
  <2>17. Tally => Tally'
    BY <1>2, <2>4, <2>6, <2>8, <2>16, TallyKept DEF Startings
  <2>18. Quiet(t)
    BY <1>1, <1>2, <2>5 DEF Quiet, Alike, Do, Tellings, Endings, Early, Openings
  <2>19. requests'[r].completed = requests[r].completed
    BY <1>4, <2>4 DEF Requests
  <2>20. Order => Order'
    BY <1>2, <2>4, <2>6, <2>8, <2>18, <2>19, OrderKept DEF Lasts
  <2> QED BY <2>15, <2>17, <2>20 DEF Keeps
<1> QED BY <1>5, <1>6

\* A JSONP request takes a name, a free one or the next.
LEMMA PrefilterKeeps ==
  ASSUME AjaxInv, Prefilter
  PROVE  Keeps
<1>1. PICK r : r = Head(agenda).r
  OBVIOUS
<1>2. agenda # << >> /\ Head(agenda).do = "prefilter"
  BY DEF Prefilter, Doing
<1>3. r \in DOMAIN requests
  BY <1>1, <1>2, HeadItem DEF AjaxInv
<1>4. Steady(r) /\ requests[r] \in Requests /\ Unopened(r, "prefilter")
  BY <1>1, <1>2, HeadSound DEF Openings
<1> DEFINE t == <<Do("handler", r, TRUE), Do("start", r, TRUE)>>
<1>5. Then(t)
  BY <1>1 DEF Prefilter, Now
<1>6. Step(r, t)
  <2>1. t \in Seq([do : Things, r : {r}, ok : BOOLEAN])
    BY DEF Do, Things, Openings
  <2> QED BY <1>1, <1>2, <1>5, <2>1, Puts
<1>7. Fits(r, t)
  BY <1>2 DEF Fits, Do, Openings
<1>8. \A i \in DOMAIN t : t[i].r = r /\ t[i].do \in {"handler", "start"}
  BY DEF Do
<1>11. \A i \in DOMAIN t : t[i].do \notin Startings \cup {"uncount"}
  BY <1>8 DEF Startings
<1>12. Quiet(t)
  BY <1>1, <1>2 DEF Quiet, Alike, Do, Tellings, Endings, Early, Openings
<1> HIDE DEF t
<1>9. CASE requests[r].set.type # "jsonp"
  <2>1. UNCHANGED <<requests, net, page, late, cut, log, busy, active, timers>>
    BY <1>1, <1>9 DEF Prefilter, Now, R, history
  <2>2. \A i \in DOMAIN t : Sound(t[i])
    <3>1. Unopened(r, "start")
      BY <1>4, <1>9 DEF Unopened
    <3> QED BY <1>8, <3>1 DEF Sound, Openings, Endings
  <2>3. AjaxInv'
    BY <1>6, <1>7, <2>1, <2>2, Aside DEF AjaxInv, Typed
  <2>4. Only(r)
    BY <2>1 DEF AjaxInv, Typed, Only
  <2>5. Tally => Tally'
    BY <1>2, <1>6, <1>11, <2>1, <2>4, TallyKept DEF Startings
  <2>6. Order => Order'
    BY <1>2, <1>6, <1>12, <2>1, <2>4, OrderKept DEF Lasts
  <2> QED BY <2>3, <2>5, <2>6 DEF Keeps
<1>10. CASE requests[r].set.type = "jsonp"
  <2>1. PICK n : n = IF oldCallbacks = << >> THEN nonce ELSE Last(oldCallbacks)
    OBVIOUS
  <2>2. /\ oldCallbacks' = IF oldCallbacks = << >> THEN oldCallbacks ELSE Front(oldCallbacks)
        /\ nonce' = IF oldCallbacks = << >> THEN nonce + 1 ELSE nonce
        /\ window' = [window EXCEPT ![n] = r]
        /\ requests' = [requests EXCEPT ![r].name = n, ![r].overwritten = window[n]]
    BY <1>1, <1>10, <2>1 DEF Prefilter, Now, R
  <2>3. /\ Len(requests) \in Nat /\ DOMAIN requests = 1 .. Len(requests)
        /\ Len(requests) <= MaxRequests /\ MaxRequests \in Nat /\ nonce \in Nat \ {0}
        /\ window \in [1 .. MaxRequests -> 0 .. Len(requests)] /\ nonce <= Len(requests)
    BY <1>4, LenProperties, BoundsAssumption DEF AjaxInv, Typed, Unopened
  <2>4. /\ n \in 1 .. MaxRequests /\ window[n] = 0 /\ n < nonce'
        /\ nonce' \in Nat \ {0} /\ nonce <= nonce' /\ nonce' <= Len(requests) + 1
        /\ oldCallbacks' \in Seq(1 .. nonce' - 1)
        /\ \A i \in DOMAIN oldCallbacks' : /\ oldCallbacks'[i] \in 1 .. nonce - 1 /\ oldCallbacks'[i] # n
                                           /\ window[oldCallbacks'[i]] = 0
        /\ \A i, j \in DOMAIN oldCallbacks' : i # j => oldCallbacks'[i] # oldCallbacks'[j]
    <3>1. CASE oldCallbacks = << >>
      <4>1. n = nonce /\ nonce' = nonce + 1 /\ oldCallbacks' = << >>
        BY <2>1, <2>2, <3>1
      <4>2. n \in 1 .. MaxRequests
        BY <2>3, <4>1
      <4>3. window[n] = 0
        BY <2>3, <4>1, <4>2 DEF AjaxInv, Names
      <4>4. oldCallbacks' \in Seq(1 .. nonce' - 1) /\ DOMAIN oldCallbacks' = {}
        BY <4>1
      <4> QED BY <2>3, <4>1, <4>2, <4>3, <4>4
    <3>2. CASE oldCallbacks # << >>
      <4> DEFINE l == Len(oldCallbacks)
      <4>1. n = oldCallbacks[l] /\ nonce' = nonce /\ oldCallbacks' = SubSeq(oldCallbacks, 1, l - 1)
        BY <2>1, <2>2, <3>2 DEF Front, Last
      <4>2. /\ oldCallbacks \in Seq(1 .. nonce - 1) /\ l \in Nat \ {0} /\ DOMAIN oldCallbacks = 1 .. l
            /\ \A i \in 1 .. l : oldCallbacks[i] \in 1 .. nonce - 1
        BY <3>2, EmptySeq, LenProperties, ElementOfSeq DEF AjaxInv, Typed
      <4>3. /\ \A i \in 1 .. l : window[oldCallbacks[i]] = 0
            /\ \A i, j \in 1 .. l : i # j => oldCallbacks[i] # oldCallbacks[j]
        BY <4>2 DEF AjaxInv, Names
      <4> HIDE DEF l
      <4>4. /\ oldCallbacks' \in Seq(1 .. nonce - 1) /\ DOMAIN oldCallbacks' = 1 .. l - 1
            /\ \A i \in 1 .. l - 1 : oldCallbacks'[i] = oldCallbacks[i]
        <5>1. l - 1 <= Len(oldCallbacks) /\ l - 1 \in Nat
          BY <4>2 DEF l
        <5>2. /\ oldCallbacks' \in Seq(1 .. nonce - 1) /\ Len(oldCallbacks') = l - 1
              /\ \A i \in 1 .. l - 1 : oldCallbacks'[i] = oldCallbacks[i]
          BY <4>1, <4>2, <5>1, SubSeqProperties DEF l
        <5> QED BY <5>2, LenProperties
      <4>5. l \in 1 .. l /\ \A i \in 1 .. l - 1 : i \in 1 .. l /\ i # l
        BY <4>2
      <4>6. n \in 1 .. nonce - 1 /\ window[n] = 0
        BY <4>1, <4>2, <4>3, <4>5
      <4>7. n \in 1 .. MaxRequests /\ n < nonce
        BY <2>3, <4>6
      <4>8. \A i \in DOMAIN oldCallbacks' : /\ oldCallbacks'[i] \in 1 .. nonce - 1 /\ oldCallbacks'[i] # n
                                            /\ window[oldCallbacks'[i]] = 0
        BY <4>1, <4>2, <4>3, <4>4, <4>5
      <4>9. \A i, j \in DOMAIN oldCallbacks' : i # j => oldCallbacks'[i] # oldCallbacks'[j]
        BY <4>3, <4>4, <4>5
      <4>10. nonce' = nonce
        BY <4>1
      <4> QED BY <2>3, <4>4, <4>6, <4>7, <4>8, <4>9, <4>10
    <3> QED BY <3>1, <3>2
  <2> DEFINE v == [requests[r] EXCEPT !.name = n, !.overwritten = 0]
  <2>5. v \in Requests /\ v.data = requests[r].data /\ v.set = requests[r].set
    <3> DEFINE u == [requests[r] EXCEPT !.name = n]
    <3>4. n \in Nat
      BY <2>3, <2>4
    <3>1. u \in Requests /\ u.data = requests[r].data /\ u.set = requests[r].set
      BY <1>4, <3>4 DEF Requests
    <3>2. v = [u EXCEPT !.overwritten = 0]
      BY <1>4 DEF Requests
    <3> HIDE DEF u
    <3>3. /\ [u EXCEPT !.overwritten = 0] \in Requests /\ [u EXCEPT !.overwritten = 0].data = u.data
          /\ [u EXCEPT !.overwritten = 0].set = u.set
      BY <3>1 DEF Requests
    <3> HIDE DEF v
    <3> QED BY <3>1, <3>2, <3>3
  <2>6. requests' = [requests EXCEPT ![r] = v]
    BY <1>3, <2>2, <2>4
  <2>7. Only(r) /\ requests'[r] = v
    <3> HIDE DEF v
    <3> QED BY <1>3, <2>5, <2>6, Changed DEF Prefilter, history
  <2>8. /\ UNCHANGED <<net, late, cut, log, busy, active, timers>>
        /\ requests'[r].settled = requests[r].settled /\ requests'[r].transport = requests[r].transport
        /\ requests'[r].listening = requests[r].listening /\ requests'[r].state = requests[r].state
        /\ requests'[r].completed = requests[r].completed
        /\ requests'[r].set = requests[r].set /\ requests'[r].name = n
        /\ requests'[r].overwritten = 0
        /\ requests'[r].installed = requests[r].installed /\ requests'[r].globals = requests[r].globals
    BY <1>4, <2>7 DEF Prefilter, Requests, history
  <2>9. Names'
    <3>1. /\ requests[r].name = 0 /\ requests'[r].name = n /\ requests'[r].overwritten = 0
          /\ requests'[r].settled = "pending" /\ nonce' \in Nat
      BY <1>4, <2>4, <2>8 DEF Unopened
    <3> HIDE DEF v
    <3> QED BY <1>3, <2>2, <2>4, <2>7, <3>1, NamesTaken
  <2>10. TypesKept
    <3>1. window' \in [1 .. MaxRequests -> 0 .. Len(requests)]
      BY <1>3, <2>2, <2>3, <2>4
    <3> QED BY <2>4, <2>8, <3>1 DEF TypesKept, AjaxInv, Typed
  <2>11. Unopened(r, "start")'
    BY <1>4, <2>4, <2>8 DEF Unopened
  <2>12. \A i \in DOMAIN t : Sound(t[i])'
    <3> SUFFICES ASSUME NEW i \in DOMAIN t PROVE Sound(t[i])'
      OBVIOUS
    <3> QED BY <1>8, <2>11 DEF Sound, Openings, Endings
  <2>13. Steady(r)'
    BY <1>4, <2>8 DEF Steady, Gone, Unopened
  <2>14. Head(agenda).do \in Openings
    BY <1>2 DEF Openings
  <2>15. AjaxInv'
    BY <1>6, <1>7, <2>7, <2>9, <2>10, <2>12, <2>13, <2>14, Kept
  <2>16. Tally => Tally'
    BY <1>2, <1>6, <1>11, <2>7, <2>8, TallyKept DEF Startings
  <2>17. Order => Order'
    BY <1>2, <1>6, <1>12, <2>7, <2>8, OrderKept DEF Lasts
  <2> QED BY <2>15, <2>16, <2>17 DEF Keeps
<1> QED BY <1>9, <1>10

\* A request is made above rest, which is the stack but for the thing done now.
LEMMA MakeKeeps ==
  ASSUME AjaxInv, NEW rest, MakeRequest(rest),
         \/ agenda = << >> /\ rest = << >>
         \/ agenda # << >> /\ rest = Tail(agenda) /\ Head(agenda).do = "handler"
  PROVE  Keeps
<1> DEFINE l == Len(requests)
           top == Do("prefilter", l + 1, TRUE)
<1>1. /\ l \in Nat /\ DOMAIN requests = 1 .. l /\ l < MaxRequests /\ MaxRequests \in Nat
      /\ Len(net) = l /\ Len(log) = l /\ requests \in Seq(Requests)
      /\ net \in Seq({"new", "sent", "over"}) /\ log \in Seq(Seq(Entries))
  BY LenProperties, BoundsAssumption DEF MakeRequest, AjaxInv, Typed
<1>2. PICK s \in Settings : requests' = Append(requests, Request(s)) /\ net' = Append(net, "new")
                            /\ log' = Append(log, << >>)
  BY DEF MakeRequest
<1> DEFINE new == Request(s)
<1>3. /\ new \in Requests /\ new.set = s /\ new.state = 0 /\ new.settled = "pending" /\ ~new.completed
      /\ ~new.globals /\ ~new.transport /\ ~new.listening /\ new.name = 0 /\ new.overwritten = 0
      /\ new.data = 0 /\ ~new.installed
  BY DEF Request, Requests
<1> HIDE DEF new
<1>4. /\ requests' \in Seq(Requests) /\ Len(requests') = l + 1 /\ DOMAIN requests' = 1 .. l + 1
      /\ requests'[l + 1] = new /\ \A q \in 1 .. l : requests'[q] = requests[q]
  BY <1>1, <1>2, <1>3, AppendProperties, LenProperties DEF new
<1>5. /\ net' \in Seq({"new", "sent", "over"}) /\ Len(net') = l + 1
      /\ net'[l + 1] = "new" /\ \A q \in 1 .. l : net'[q] = net[q]
  BY <1>1, <1>2, AppendProperties
<1>6. log' \in Seq(Seq(Entries)) /\ Len(log') = l + 1
  <2>1. << >> \in Seq(Entries)
    OBVIOUS
  <2> QED BY <1>1, <1>2, <2>1, AppendProperties
<1>7. UNCHANGED <<active, window, nonce, oldCallbacks, timers, busy, late, cut>>
  BY DEF MakeRequest, page
<1>8. agenda' = <<top>> \o rest
  BY DEF MakeRequest
<1>9. top \in Doings(l + 1) /\ top.r = l + 1 /\ top.do = "prefilter"
  BY <1>1 DEF Do, Doings, Things, Openings
<1> HIDE DEF top
<1>10. /\ agenda' \in Seq(Doings(l + 1)) /\ 1 \in DOMAIN agenda' /\ agenda'[1] = top
       /\ \A i \in DOMAIN agenda' : i # 1 => i \in DOMAIN agenda /\ agenda'[i] = agenda[i] /\ i >= 2
  <2>1. Doings(l) \subseteq Doings(l + 1)
    BY <1>1 DEF Doings
  <2>2. CASE agenda = << >>
    <3>1. rest = << >>
      BY <2>2
    <3>2. agenda' = <<top>>
      BY <1>8, <3>1
    <3> QED BY <1>9, <3>2
  <2>3. CASE agenda # << >>
    <3>1. /\ rest \in Seq(Doings(l)) /\ Len(rest) = Len(agenda) - 1
          /\ \A i \in 1 .. Len(rest) : rest[i] = agenda[i + 1]
          /\ Len(agenda) \in Nat /\ DOMAIN agenda = 1 .. Len(agenda)
      <4> DEFINE D == Doings(l)
      <4>1. rest = Tail(agenda) /\ agenda \in Seq(D) /\ agenda # << >>
        BY <2>3 DEF AjaxInv, Typed
      <4> HIDE DEF D
      <4>2. /\ rest \in Seq(D) /\ Len(rest) = Len(agenda) - 1
            /\ \A i \in 1 .. Len(rest) : rest[i] = agenda[i + 1]
            /\ Len(agenda) \in Nat /\ DOMAIN agenda = 1 .. Len(agenda)
        BY <4>1, HeadTailProperties, LenProperties
      <4> QED BY <4>2 DEF D
    <3>2. rest \in Seq(Doings(l + 1)) /\ Len(rest) \in Nat
      <4> DEFINE D == Doings(l)
                 E == Doings(l + 1)
      <4>1. rest \in [1 .. Len(rest) -> D] /\ Len(rest) \in Nat
        BY <3>1, LenProperties
      <4> HIDE DEF D, E
      <4>2. D \subseteq E
        BY <2>1 DEF D, E
      <4>3. rest \in [1 .. Len(rest) -> E]
        BY <4>1, <4>2
      <4>4. rest \in Seq(E)
        BY <4>1, <4>3
      <4> QED BY <4>1, <4>4 DEF E
    <3>3. /\ agenda' \in Seq(Doings(l + 1)) /\ Len(agenda') = 1 + Len(rest)
          /\ \A i \in 1 .. 1 + Len(rest) : agenda'[i] = IF i <= 1 THEN <<top>>[i] ELSE rest[i - 1]
      <4>1. <<top>> \in Seq(Doings(l + 1)) /\ Len(<<top>>) = 1
        BY <1>9
      <4> QED BY <1>8, <3>2, <4>1, ConcatProperties
    <3>4. DOMAIN agenda' = 1 .. 1 + Len(rest)
      BY <3>3, LenProperties
    <3>5. agenda'[1] = top /\ 1 \in DOMAIN agenda'
      BY <3>2, <3>3, <3>4
    <3>6. ASSUME NEW i \in DOMAIN agenda', i # 1
          PROVE  i \in DOMAIN agenda /\ agenda'[i] = agenda[i] /\ i >= 2
      <4>1. i \in 1 .. 1 + Len(rest) /\ ~(i <= 1) /\ i - 1 \in 1 .. Len(rest) /\ (i - 1) + 1 = i
        BY <3>2, <3>4, <3>6
      <4>2. agenda'[i] = rest[i - 1] /\ rest[i - 1] = agenda[(i - 1) + 1]
        BY <3>1, <3>3, <4>1
      <4> QED BY <3>1, <4>1, <4>2
    <3> QED BY <3>3, <3>5, <3>6
  <2> QED BY <2>2, <2>3
<1>25. /\ \A i \in DOMAIN agenda : i # 1 => i \in DOMAIN agenda'
       /\ 1 \in DOMAIN agenda => agenda[1].do = "handler"
       /\ agenda # << >> => Head(agenda).do = "handler"
  <2>1. CASE agenda = << >>
    BY <2>1
  <2>2. CASE agenda # << >>
    <3>1. Head(agenda).do = "handler" /\ agenda[1] = Head(agenda)
      BY <2>2
    <3>2. /\ rest = Tail(agenda) /\ agenda \in Seq(Doings(l))
      BY <2>2 DEF AjaxInv, Typed
    <3>3. \E i \in DOMAIN agenda' : TRUE
      BY <1>10
    <3>4. Len(agenda') = Len(agenda) /\ agenda' \in Seq(Doings(l + 1))
      <4> DEFINE D == Doings(l) \cup Doings(l + 1)
      <4>1. agenda \in Seq(D) /\ top \in D
        <5> DEFINE C == Doings(l)
        <5>1. agenda \in [1 .. Len(agenda) -> C] /\ Len(agenda) \in Nat /\ C \subseteq D
          BY <3>2, LenProperties
        <5> HIDE DEF C, D
        <5>2. agenda \in [1 .. Len(agenda) -> D]
          BY <5>1
        <5>3. agenda \in Seq(D)
          BY <5>1, <5>2
        <5> USE DEF D
        <5>4. top \in D
          BY <1>9
        <5> QED BY <5>3, <5>4
      <4> HIDE DEF D
      <4>2. rest \in Seq(D) /\ Len(rest) = Len(agenda) - 1 /\ Len(agenda) \in Nat /\ Len(rest) \in Nat
        BY <2>2, <3>2, <4>1, HeadTailProperties, LenProperties
      <4>3. <<top>> \in Seq(D) /\ Len(<<top>>) = 1
        BY <4>1
      <4>4. Len(agenda') = 1 + Len(rest)
        BY <1>8, <4>2, <4>3, ConcatProperties
      <4> QED BY <1>10, <4>2, <4>4
    <3>5. DOMAIN agenda' = DOMAIN agenda
      BY <3>2, <3>4, LenProperties
    <3> QED BY <3>1, <3>5
  <2> QED BY <2>1, <2>2
<1>11. \A i \in DOMAIN agenda : agenda[i].r \in 1 .. l /\ i \in Int
  <2> DEFINE D == Doings(l)
  <2>1. agenda \in Seq(D)
    BY DEF AjaxInv, Typed
  <2>2. \A d \in D : d.r \in 1 .. l
    BY DEF Doings
  <2> HIDE DEF D
  <2>3. \A i \in DOMAIN agenda : agenda[i] \in D /\ i \in Int
    BY <2>1, ElementOfSeq, LenProperties
  <2> QED BY <2>2, <2>3
<1>12. DOMAIN agenda' \subseteq Int
  BY <1>10, LenProperties
<1>13. \A q \in 1 .. l : q \in 1 .. l + 1 /\ q # l + 1
  BY <1>1
<1> HIDE DEF l
<1>14. Typed'
  <2>1. window' \in [1 .. MaxRequests -> 0 .. l + 1]
    <3>1. window \in [1 .. MaxRequests -> 0 .. l]
      BY DEF AjaxInv, Typed, l
    <3>2. \A n \in 0 .. l : n \in 0 .. l + 1
      BY <1>1
    <3> QED BY <1>7, <3>1, <3>2
  <2>2. l + 1 <= MaxRequests
    BY <1>1
  <2> QED BY <1>1, <1>4, <1>5, <1>6, <1>7, <1>10, <1>13, <2>1, <2>2 DEF AjaxInv, Typed
<1>15. Openers'
  <2>1. ASSUME NEW i \in DOMAIN agenda', NEW j \in DOMAIN agenda', i < j, agenda'[i].do \in Openings
        PROVE  agenda'[j].r # agenda'[i].r
    <3>1. j # 1 /\ j \in DOMAIN agenda /\ agenda'[j] = agenda[j]
      BY <1>10, <1>12, <2>1
    <3>2. CASE i = 1
      BY <1>9, <1>10, <1>11, <1>13, <3>1, <3>2
    <3>3. CASE i # 1
      BY <1>10, <2>1, <3>1, <3>3 DEF AjaxInv, Openers
    <3> QED BY <3>2, <3>3
  <2>2. ASSUME NEW i \in DOMAIN agenda'
        PROVE  /\ agenda'[i].do \in {"prefilter", "ajaxStart", "ajaxStop"} => i = 1
               /\ agenda'[i].do = "ajaxSend" => i = 1 \/ agenda'[i].r \in cut'
    BY <1>7, <1>10, <2>2 DEF AjaxInv, Openers
  <2> QED BY <2>1, <2>2 DEF Openers
<1>16. \A q \in 1 .. l : requests'[q] = requests[q] /\ net'[q] = net[q] /\ (Gone(q) => Gone(q)')
  BY <1>4, <1>5, <1>7 DEF Gone
<1>17. ASSUME NEW i \in DOMAIN agenda'
       PROVE  \A x : x = agenda'[i] => Sound(x)'
  <2> SUFFICES ASSUME NEW x, x = agenda'[i] PROVE Sound(x)'
    OBVIOUS
  <2>1. CASE i = 1
    <3>1. x.r = l + 1 /\ x.do = "prefilter"
      BY <1>9, <1>10, <2>1
    <3>2. l + 1 \notin cut
      BY <1>1, <1>13 DEF AjaxInv, Typed
    <3>3. nonce <= l + 1
      BY DEF AjaxInv, Names, l
    <3>4. Unopened(x.r, x.do)'
      BY <1>3, <1>4, <1>5, <1>7, <3>1, <3>2, <3>3 DEF Unopened
    <3> QED BY <3>1, <3>4 DEF Sound, Endings, Direct
  <2>2. CASE i # 1
    <3>1. i \in DOMAIN agenda /\ x = agenda[i] /\ x.r \in 1 .. l /\ x.do # "prefilter"
      BY <1>10, <1>11, <2>2 DEF AjaxInv, Openers
    <3>2. Sound(x) /\ ~Direct(x)
      BY <2>2, <3>1 DEF AjaxInv, Opened, Ended, Scripts, Sound
    <3>3. requests'[x.r] = requests[x.r]
      BY <1>16, <3>1
    <3>4. ~Direct(x)'
      BY <3>2, <3>3 DEF Direct
    <3>5. x.do \in Openings => Unopened(x.r, x.do)'
      <4>1. l <= l + 1
        BY <1>1
      <4> QED BY <1>7, <1>16, <3>1, <3>2 DEF Sound, Unopened
    <3> QED BY <1>7, <1>16, <3>1, <3>2, <3>4, <3>5 DEF Sound
  <2> QED BY <2>1, <2>2
<1>27. ASSUME NEW i \in DOMAIN agenda'
       PROVE  \A x : x = agenda'[i] => ~Direct(x)'
  <2> SUFFICES ASSUME NEW x, x = agenda'[i] PROVE ~Direct(x)'
    OBVIOUS
  <2>1. CASE i = 1
    BY <1>9, <1>10, <2>1 DEF Direct
  <2>2. CASE i # 1
    <3>1. i \in DOMAIN agenda /\ x = agenda[i] /\ x.r \in 1 .. l
      BY <1>10, <1>11, <2>2
    <3>2. ~Direct(x) /\ requests'[x.r] = requests[x.r]
      BY <1>16, <2>2, <3>1 DEF AjaxInv, Scripts
    <3> QED BY <3>2 DEF Direct
  <2> QED BY <2>1, <2>2
<1>18. \A i \in DOMAIN agenda' : \A x : x = agenda'[i] =>
         /\ x.do \in Openings => Unopened(x.r, x.do)'
         /\ x.do = "done" => ~requests'[x.r].listening
         /\ x.do \in Endings => Gone(x.r)'
  BY <1>17 DEF Sound
<1>19. ASSUME NEW q \in DOMAIN requests' PROVE Steady(q)' /\ requests'[q].data \in {0, q} \cup late'
  <2>1. CASE q = l + 1
    <3>1. q \notin cut'
      BY <1>1, <1>7, <1>13, <2>1 DEF AjaxInv, Typed
    <3> QED BY <1>3, <1>4, <1>5, <2>1, <3>1 DEF Steady
  <2>2. CASE q \in 1 .. l
    BY <1>1, <1>7, <1>16, <2>2 DEF Steady, AjaxInv, Ended, Scripts, Awaited, Data
  <2> QED BY <1>1, <1>4, <2>1, <2>2
<1>20. Opened'
  <2> DEFINE b == agenda'
  <2>1. b = agenda'
    OBVIOUS
  <2> HIDE DEF b
  <2>2. \A i \in DOMAIN b : \A q, kind : q = b[i].r /\ kind = b[i].do /\ kind \in Openings => Unopened(q, kind)'
    BY <1>18, <2>1
  <2> QED BY <2>1, <2>2 DEF Opened
<1>21. Ended' /\ Awaited' /\ Data'
  <2> DEFINE b == agenda'
  <2>1. b = agenda'
    OBVIOUS
  <2> HIDE DEF b
  <2>2. \A i \in DOMAIN b : \A x : x = b[i] =>
          /\ x.do = "done" => ~requests'[x.r].listening
          /\ x.do \in Endings => Gone(x.r)'
    BY <1>18, <2>1
  <2>3. Ended'
    BY <1>19, <2>1, <2>2 DEF Ended, Steady
  <2> QED BY <1>19, <2>3 DEF Awaited, Data, Steady
<1>28. Scripts'
  <2> DEFINE b == agenda'
  <2>1. b = agenda'
    OBVIOUS
  <2> HIDE DEF b
  <2>2. \A i \in DOMAIN b : \A x : x = b[i] => ~Direct(x)'
    BY <1>27, <2>1
  <2>3. \A q \in DOMAIN requests' : requests'[q].set.type = "jsonp" => ~requests'[q].globals /\ q \notin cut'
    BY <1>19 DEF Steady
  <2> QED BY <2>1, <2>2, <2>3 DEF Scripts
<1>22. Names'
  <2>1. nonce' <= Len(requests') + 1
    <3>1. nonce <= l + 1 /\ nonce \in Nat
      BY DEF AjaxInv, Names, Typed, l
    <3> QED BY <1>1, <1>4, <1>7, <3>1
  <2>2. \A n \in DOMAIN window : window[n] # 0 => window[n] \in 1 .. l
    <3>1. window \in [1 .. MaxRequests -> 0 .. l]
      BY DEF AjaxInv, Typed, l
    <3>2. \A n \in DOMAIN window : window[n] \in 0 .. l
      BY <3>1
    <3> QED BY <1>1, <3>2
  <2>3. \A n \in DOMAIN window' : /\ window'[n] # 0 => /\ requests'[window'[n]].name = n
                                                       /\ requests'[window'[n]].settled = "pending"
                                  /\ n >= nonce' => window'[n] = 0
    BY <1>7, <1>16, <2>2 DEF AjaxInv, Names
  <2>4. ASSUME NEW q \in DOMAIN requests'
        PROVE  /\ requests'[q].overwritten = 0 /\ requests'[q].name < nonce'
               /\ requests'[q].name # 0 /\ requests'[q].settled = "pending" =>
                    window'[requests'[q].name] = q
    <3>1. CASE q = l + 1
      BY <1>3, <1>4, <1>7, <3>1 DEF AjaxInv, Typed
    <3>2. CASE q \in 1 .. l
      BY <1>1, <1>7, <1>16, <3>2 DEF AjaxInv, Names
    <3> QED BY <1>1, <1>4, <3>1, <3>2
  <2> QED BY <1>7, <2>1, <2>3, <2>4 DEF AjaxInv, Names
<1>23. AjaxInv'
  BY <1>14, <1>15, <1>20, <1>21, <1>22, <1>28 DEF AjaxInv
<1>24. Tally => Tally'
  <2> SUFFICES ASSUME Tally, cut = {} PROVE Tally'
    BY <1>7 DEF Tally
  <2> DEFINE b == agenda'
  <2>1. b = agenda'
    OBVIOUS
  <2>2. /\ \A i \in DOMAIN b : i # 1 => i \in DOMAIN agenda /\ b[i] = agenda[i]
        /\ 1 \in DOMAIN b /\ b[1].do = "prefilter"
        /\ \A i \in DOMAIN agenda : i # 1 => i \in DOMAIN b
        /\ 1 \in DOMAIN agenda => agenda[1].do = "handler"
    BY <1>9, <1>10, <1>25
  <2> HIDE DEF b
  <2>3. \A q : Uncounting(q)' <=> Uncounting(q)
    <3> SUFFICES ASSUME NEW q PROVE Uncounting(q)' <=> Uncounting(q)
      OBVIOUS
    <3>1. Uncounting(q)' <=> \E i \in DOMAIN b : b[i].do = "uncount" /\ b[i].r = q
      BY <2>1 DEF Uncounting
    <3> QED BY <2>2, <3>1 DEF Uncounting
  <2>4. /\ \A i, j \in DOMAIN b : i < j /\ b[i].do = "uncount" /\ b[j].do = "uncount" => b[i].r # b[j].r
        /\ \A i \in DOMAIN b : b[i].do = "uncount" => requests'[b[i].r].globals
    <3>1. \A i \in DOMAIN b : b[i].do = "uncount" => /\ i \in DOMAIN agenda /\ b[i] = agenda[i]
                                                       /\ agenda[i].r \in 1 .. l
      BY <1>11, <2>2
    <3> QED BY <1>16, <3>1 DEF Tally, Singly
  <2>5. Singly' /\ \A i \in DOMAIN agenda' : agenda'[i].do = "uncount" => requests'[agenda'[i].r].globals
    BY <2>1, <2>4 DEF Singly
  <2>6. Counted' = Counted
    BY <1>1, <1>3, <1>4, <1>13, <1>16, <2>3 DEF Counted
  <2>7. ~Heads("ajaxStart")' /\ ~Heads("ajaxStop")'
    <3>1. Head(b) = b[1]
      OBVIOUS
    <3> QED BY <2>1, <2>2, <3>1 DEF Heads
  <2>8. ~Heads("ajaxStart") /\ ~Heads("ajaxStop")
    BY <1>25 DEF Heads
  <2> QED BY <1>7, <2>5, <2>6, <2>7, <2>8 DEF Tally
<1>26. Order => Order'
  <2> SUFFICES ASSUME Order PROVE Order'
    OBVIOUS
  <2> DEFINE b == agenda'
  <2>1. b = agenda'
    OBVIOUS
  <2>2. /\ \A i \in DOMAIN b : i # 1 => i \in DOMAIN agenda /\ b[i] = agenda[i] /\ i >= 2
        /\ b[1].r = l + 1 /\ b[1].do = "prefilter" /\ DOMAIN b \subseteq Int
    BY <1>9, <1>10, <1>12
  <2> HIDE DEF b
  <2>3. /\ DOMAIN log = 1 .. l /\ log'[l + 1] = << >>
        /\ \A q \in 1 .. l : log'[q] = log[q]
    <3>1. << >> \in Seq(Entries)
      OBVIOUS
    <3> QED BY <1>1, <1>2, <3>1, AppendProperties, LenProperties
  <2>4. ASSUME NEW q \in 1 .. l, q \notin cut PROVE Tale(q)'
    <3>1. Tale(q) /\ log'[q] = log[q] /\ requests'[q] = requests[q]
      BY <1>1, <1>4, <2>3, <2>4 DEF Order, Tale
    <3>2. \A i \in DOMAIN b : b[i].r = q => i \in DOMAIN agenda /\ b[i] = agenda[i]
      BY <1>13, <2>2
    <3>3. \A x : Alike(x, x)
      BY DEF Alike
    <3>4. \A i \in DOMAIN b : Mine(b[i], q) => \E k \in DOMAIN agenda : Alike(b[i], agenda[k])
      BY <3>2, <3>3 DEF Mine
    <3>5. \A i, j \in DOMAIN b : i < j /\ Tells(b[i], q) /\ Mine(b[j], q) =>
            \E k, m \in DOMAIN agenda : k < m /\ Alike(b[i], agenda[k]) /\ Alike(b[j], agenda[m])
      BY <3>2, <3>3 DEF Mine, Tells
    <3>6. ASSUME NEW k \in DOMAIN agenda, agenda[k].r = q, agenda[k].do \in {"ajaxComplete", "complete", "completed"}
          PROVE  \E i \in DOMAIN b : Alike(b[i], agenda[k])
      <4>1. k # 1
        BY <1>25, <3>6
      <4>2. k \in DOMAIN b /\ b[k] = agenda[k]
        BY <1>25, <2>1, <2>2, <4>1
      <4> QED BY <3>3, <4>2
    <3>7. \A i \in DOMAIN b : b[i].r = q =>
            /\ b[i].do = "complete" => ~requests'[q].completed
            /\ b[i].do = "ajaxComplete" => requests'[q].globals
      BY <3>1, <3>2 DEF Tale, Untold
    <3> QED BY <2>1, <3>1, <3>4, <3>5, <3>6, <3>7, TaleMoved
  <2>5. \A q : q = l + 1 => Tale(q)'
    <3> SUFFICES ASSUME NEW q, q = l + 1 PROVE Tale(q)'
      OBVIOUS
    <3>1. \A i \in DOMAIN b : b[i].r = q => i = 1 /\ b[i].do = "prefilter"
      BY <1>11, <1>13, <2>2
    <3>2. log'[q] = << >> /\ requests'[q].state = 0
      BY <1>3, <1>4, <2>3
    <3>3. "prefilter" \notin Tellings
      BY DEF Tellings, Endings
    <3>4. InOrder(q)'
      BY <2>1, <3>1, <3>2, <3>3 DEF InOrder, Tells
    <3>5. Untold(q)'
      BY <2>1, <3>1, <3>2 DEF Untold
    <3>6. ToldAll(q)'
      BY <3>2 DEF ToldAll
    <3> QED BY <3>4, <3>5, <3>6 DEF Tale
  <2>6. \A q \in 1 .. l + 1 : q \in 1 .. l \/ q = l + 1
    BY <1>1 DEF l
  <2> QED BY <1>4, <1>7, <2>4, <2>5, <2>6 DEF Order, Tale
<1> QED BY <1>23, <1>24, <1>26 DEF Keeps

\* What happens by itself: something is put on the empty stack, and some data arrives.
LEMMA WakesKeeps ==
  ASSUME AjaxInv, agenda = << >>, NEW b, agenda' = b,
         b = << >> \/ \E what \in {"answer", "abort"}, q \in DOMAIN requests, ok \in BOOLEAN :
                        b = <<Do(what, q, ok)>>,
         UNCHANGED <<page, history, active>>, timers' \subseteq timers,
         net' \in Seq({"new", "sent", "over"}), Len(net') = Len(net),
         \A q \in DOMAIN requests : net'[q] = "sent" => net[q] = "sent",
         requests' \in Seq(Requests), Len(requests') = Len(requests),
         \A q \in DOMAIN requests :
           /\ requests'[q].settled = requests[q].settled /\ requests'[q].completed = requests[q].completed
           /\ requests'[q].transport = requests[q].transport /\ requests'[q].listening = requests[q].listening
           /\ requests'[q].state = requests[q].state /\ requests'[q].set = requests[q].set
           /\ requests'[q].name = requests[q].name /\ requests'[q].overwritten = requests[q].overwritten
           /\ requests'[q].data \in {0, q} \cup late
           /\ requests'[q].globals = requests[q].globals
           /\ requests'[q].installed = requests[q].installed
  PROVE  Keeps
<1>1. DOMAIN requests = 1 .. Len(requests) /\ DOMAIN requests' = DOMAIN requests
  BY LenProperties DEF AjaxInv, Typed
<1>2. b \in Seq(Doings(Len(requests))) /\ \A i \in DOMAIN b : i = 1 /\ b[i].do \in {"answer", "abort"}
  <2>1. CASE b = << >>
    BY <2>1
  <2>2. ASSUME NEW what \in {"answer", "abort"}, NEW q \in DOMAIN requests, NEW ok \in BOOLEAN,
               b = <<Do(what, q, ok)>>
        PROVE  <1>2
    BY <1>1, <2>2 DEF Do, Doings, Things
  <2> QED BY <2>1, <2>2
<1>3. Typed'
  BY <1>1, <1>2 DEF AjaxInv, Typed, page, history
<1>4. \A i \in DOMAIN b : b[i].do \notin Openings /\ b[i].do \notin Endings /\ b[i].do # "done"
  BY <1>2 DEF Openings, Endings
<1>5. Openers' /\ Opened'
  BY <1>2, <1>4 DEF Openers, Opened
<1>6. Ended'
  <2>1. \A q \in DOMAIN requests : Gone(q) => Gone(q)'
    BY DEF Gone, history
  <2>2. \A i \in DOMAIN agenda' : agenda'[i].do \notin Endings \cup {"done"}
    BY <1>4
  <2>3. \A q \in DOMAIN requests :
          /\ requests'[q].settled # "pending" \/ requests'[q].completed => Gone(q)'
          /\ requests'[q].listening => requests'[q].transport
          /\ requests'[q].transport => requests'[q].state # 2 \/ q \in cut'
    BY <2>1 DEF AjaxInv, Ended, history
  <2> QED BY <1>1, <2>2, <2>3 DEF Ended
<1>7. Awaited' /\ Data'
  BY <1>1 DEF AjaxInv, Awaited, Data, history
<1>8. Names'
  <2>1. /\ window \in [1 .. MaxRequests -> 0 .. Len(requests)] /\ Len(requests) \in Nat
    BY LenProperties DEF AjaxInv, Typed
  <2>2. \A n \in DOMAIN window : window[n] # 0 => window[n] \in DOMAIN requests
    <3>1. \A n \in DOMAIN window : window[n] \in 0 .. Len(requests)
      BY <2>1
    <3> QED BY <1>1, <2>1, <3>1
  <2>3. \A n \in DOMAIN window : /\ window[n] # 0 => /\ requests'[window[n]].name = n
                                                      /\ requests'[window[n]].settled = "pending"
                                 /\ n >= nonce => window[n] = 0
    BY <2>2 DEF AjaxInv, Names
  <2>4. \A q \in DOMAIN requests :
          /\ requests'[q].overwritten = 0 /\ requests'[q].name < nonce
          /\ requests'[q].name # 0 /\ requests'[q].settled = "pending" => window[requests'[q].name] = q
    BY DEF AjaxInv, Names
  <2> QED BY <1>1, <2>3, <2>4 DEF AjaxInv, Names, page
<1>12. Scripts'
  <2>1. \A i \in DOMAIN b : ~Direct(b[i])'
    BY <1>4 DEF Direct, Openings
  <2> QED BY <1>1, <2>1 DEF AjaxInv, Scripts, history
<1>9. AjaxInv'
  BY <1>3, <1>5, <1>6, <1>7, <1>8, <1>12 DEF AjaxInv
<1>10. Tally => Tally'
  <2> SUFFICES ASSUME Tally, cut = {} PROVE Tally'
    BY DEF Tally, history
  <2>1. \A i \in DOMAIN b : b[i].do \notin {"uncount", "ajaxStart", "ajaxStop"}
    BY <1>2
  <2>2. \A q : ~Uncounting(q) /\ ~Uncounting(q)'
    BY <2>1 DEF Uncounting
  <2>3. Singly' /\ \A i \in DOMAIN agenda' : agenda'[i].do = "uncount" => requests'[agenda'[i].r].globals
    BY <2>1 DEF Singly
  <2>4. Counted' = Counted
    BY <1>1, <2>2 DEF Counted
  <2>5. ~Heads("ajaxStart")' /\ ~Heads("ajaxStop")'
    <3>1. b # << >> => 1 \in DOMAIN b /\ Head(b) = b[1]
      BY <1>2, EmptySeq, LenProperties
    <3> QED BY <2>1, <3>1 DEF Heads
  <2>6. ~Heads("ajaxStart") /\ ~Heads("ajaxStop")
    BY DEF Heads
  <2> QED BY <2>3, <2>4, <2>5, <2>6 DEF Tally, history
<1>11. Order => Order'
  <2> SUFFICES ASSUME Order PROVE Order'
    OBVIOUS
  <2>1. \A i \in DOMAIN b : b[i].do \notin Tellings \cup Early
    BY <1>2 DEF Tellings, Endings, Early, Openings
  <2>2. DOMAIN agenda = {} /\ log' = log /\ cut' = cut
    BY DEF history
  <2>3. ASSUME NEW q \in DOMAIN requests, q \notin cut PROVE Tale(q)'
    <3>1. Tale(q)
      BY <2>3 DEF Order, Tale
    <3>2. {"complete", "ajaxComplete"} \subseteq Tellings
      BY DEF Tellings, Endings
    <3>3. \A i \in DOMAIN agenda' : ~Mine(agenda'[i], q) /\ agenda'[i].do \notin {"complete", "ajaxComplete"}
      BY <2>1, <3>2 DEF Mine
    <3>4. /\ requests'[q].state = requests[q].state /\ requests'[q].globals = requests[q].globals
          /\ requests'[q].installed = requests[q].installed
      OBVIOUS
    <3> QED BY <2>2, <3>1, <3>3, <3>4, TaleMoved
  <2> QED BY <1>1, <2>2, <2>3 DEF Order, Tale
<1> QED BY <1>9, <1>10, <1>11 DEF Keeps

\* A script runs: unless its request was aborted, it finds its own function.
LEMMA ScriptRunsKeeps ==
  ASSUME AjaxInv, ScriptRuns
  PROVE  Keeps
<1>1. PICK r \in DOMAIN requests, calls \in BOOLEAN :
        /\ requests[r].set.type = "jsonp" /\ net[r] = "sent"
        /\ net' = [net EXCEPT ![r] = "over"]
        /\ requests' = IF calls /\ window[requests[r].name] # 0
                       THEN [requests EXCEPT ![window[requests[r].name]].data = r] ELSE requests
        /\ agenda' = IF requests[r].listening THEN <<Do("answer", r, TRUE)>> ELSE << >>
  BY DEF ScriptRuns
<1>2. /\ Len(requests) \in Nat /\ DOMAIN requests = 1 .. Len(requests) /\ MaxRequests \in Nat
      /\ requests \in Seq(Requests) /\ nonce \in Nat /\ Len(requests) <= MaxRequests
      /\ window \in [1 .. MaxRequests -> 0 .. Len(requests)] /\ nonce <= Len(requests) + 1
  BY LenProperties, BoundsAssumption DEF AjaxInv, Typed, Names
<1>3. \A q \in DOMAIN requests : requests[q] \in Requests
  BY <1>2, ElementOfSeq
<1>4. requests[r].name # 0 /\ (r \notin late => requests[r].listening)
  BY <1>1 DEF AjaxInv, Awaited
<1>5. requests[r].name \in 1 .. MaxRequests
  <2>1. requests[r].name \in Nat /\ requests[r].name < nonce
    BY <1>3 DEF AjaxInv, Names, Requests
  <2> QED BY <1>2, <1>4, <2>1
<1>6. PICK o : o = window[requests[r].name]
  OBVIOUS
<1>7. o \in 0 .. Len(requests)
  BY <1>2, <1>5, <1>6
<1>8. r \in {0, o} \cup late
  <2>1. CASE r \notin late
    <3>1. requests[r].settled = "pending"
      BY <1>1, <1>4, <2>1 DEF AjaxInv, Ended, Gone, Scripts
    <3> QED BY <1>4, <1>6, <3>1 DEF AjaxInv, Names
  <2> QED BY <2>1
<1>9. requests' = IF calls /\ o # 0 THEN [requests EXCEPT ![o].data = r] ELSE requests
  BY <1>1, <1>6
<1>10. /\ requests' \in Seq(Requests) /\ Len(requests') = Len(requests)
       /\ \A q \in DOMAIN requests :
            /\ requests'[q].settled = requests[q].settled /\ requests'[q].completed = requests[q].completed
            /\ requests'[q].transport = requests[q].transport /\ requests'[q].listening = requests[q].listening
            /\ requests'[q].state = requests[q].state /\ requests'[q].set = requests[q].set
            /\ requests'[q].name = requests[q].name /\ requests'[q].overwritten = requests[q].overwritten
            /\ requests'[q].globals = requests[q].globals
            /\ requests'[q].installed = requests[q].installed
            /\ requests'[q].data \in {0, q} \cup late
  <2>1. CASE ~(calls /\ o # 0)
    BY <1>2, <1>9, <2>1 DEF AjaxInv, Data
  <2>2. CASE calls /\ o # 0
    <3>1. o \in DOMAIN requests /\ r \in Nat
      BY <1>2, <1>7, <2>2
    <3> DEFINE v == [requests[o] EXCEPT !.data = r]
    <3>2. v \in Requests
      BY <1>3, <3>1 DEF Requests
    <3>3. requests' = [requests EXCEPT ![o] = v]
      BY <1>9, <2>2
    <3>4. /\ v.settled = requests[o].settled /\ v.completed = requests[o].completed
          /\ v.transport = requests[o].transport /\ v.listening = requests[o].listening
          /\ v.state = requests[o].state /\ v.set = requests[o].set
          /\ v.name = requests[o].name /\ v.overwritten = requests[o].overwritten
          /\ v.globals = requests[o].globals /\ v.installed = requests[o].installed /\ v.data = r
      BY <1>3, <3>1 DEF Requests
    <3> HIDE DEF v
    <3>5. /\ requests' \in Seq(Requests) /\ Len(requests') = Len(requests) /\ requests'[o] = v
          /\ \A q \in DOMAIN requests : q # o => requests'[q] = requests[q]
      BY <3>1, <3>2, <3>3, Updated DEF AjaxInv
    <3> QED BY <1>8, <3>4, <3>5 DEF AjaxInv, Data
  <2> QED BY <2>1, <2>2
<1>11. /\ net' \in Seq({"new", "sent", "over"}) /\ Len(net') = Len(net)
       /\ \A q \in DOMAIN requests : net'[q] = "sent" => net[q] = "sent"
  BY <1>1, NetUpdated DEF AjaxInv
<1>12. agenda = << >> /\ UNCHANGED <<page, history, active, timers>>
  BY DEF ScriptRuns, Idle
<1>13. PICK b : agenda' = b /\ (b = << >> \/ b = <<Do("answer", r, TRUE)>>)
  BY <1>1
<1> QED BY <1>10, <1>11, <1>12, <1>13, WakesKeeps

\* The other things that happen by themselves.
LEMMA OthersKeep ==
  ASSUME AjaxInv,
         \/ Idle /\ AbortRequest(<< >>)
         \/ XhrAnswers
         \/ ScriptFails
         \/ TimesOut
  PROVE  Keeps
<1>1. agenda = << >> /\ UNCHANGED <<requests, page, history, active>> /\ timers' \subseteq timers
  BY DEF Idle, AbortRequest, XhrAnswers, ScriptFails, TimesOut
<1>2. /\ net' \in Seq({"new", "sent", "over"}) /\ Len(net') = Len(net)
      /\ \A q \in DOMAIN requests : net'[q] = "sent" => net[q] = "sent"
  <2>1. CASE net' = net
    BY <2>1 DEF AjaxInv, Typed
  <2>2. CASE ScriptFails
    <3>1. PICK r \in DOMAIN requests : net' = [net EXCEPT ![r] = "over"]
      BY <2>2 DEF ScriptFails
    <3> QED BY <3>1, NetUpdated DEF AjaxInv
  <2> QED BY <2>1, <2>2 DEF AbortRequest, XhrAnswers, TimesOut
<1>3. PICK b : agenda' = b /\
        (b = << >> \/ \E what \in {"answer", "abort"}, q \in DOMAIN requests, ok \in BOOLEAN :
                        b = <<Do(what, q, ok)>>)
  <2>1. CASE AbortRequest(<< >>)
    <3>1. PICK q \in DOMAIN requests : agenda' = <<Do("abort", q, FALSE)>> \o << >>
      BY <2>1 DEF AbortRequest
    <3>2. <<Do("abort", q, FALSE)>> \in Seq({Do("abort", q, FALSE)})
      OBVIOUS
    <3>3. agenda' = <<Do("abort", q, FALSE)>>
      BY <3>1, <3>2, ConcatEmptySeq
    <3> QED BY <3>3
  <2>2. CASE XhrAnswers
    BY <2>2 DEF XhrAnswers
  <2>3. CASE ScriptFails
    BY <1>1, <2>3 DEF ScriptFails
  <2>4. CASE TimesOut
    <3>1. PICK q \in timers : agenda' = <<Do("abort", q, FALSE)>>
      BY <2>4 DEF TimesOut
    <3>2. q \in DOMAIN requests
      BY <3>1 DEF AjaxInv, Typed
    <3> QED BY <3>1, <3>2
  <2> QED BY <2>4, <2>3, <2>2, <2>1
<1>4. requests' \in Seq(Requests) /\ \A q \in DOMAIN requests : requests[q].data \in {0, q} \cup late
  BY <1>1 DEF AjaxInv, Typed, Data
<1> QED BY <1>1, <1>2, <1>3, <1>4, WakesKeeps

\* At first there is no request.
LEMMA AjaxInit ==
  ASSUME Init
  PROVE  AjaxInv /\ Tally /\ Order
<1>1. /\ requests = << >> /\ net = << >> /\ log = << >> /\ agenda = << >> /\ oldCallbacks = << >>
      /\ nonce = 1 /\ MaxRequests \in Nat /\ window = [n \in 1 .. MaxRequests |-> 0]
  BY BoundsAssumption DEF Init
<1>2. Typed
  <2>1. window \in [1 .. MaxRequests -> 0 .. 0]
    BY <1>1
  <2>2. Len(requests) = 0 /\ DOMAIN requests = {}
    BY <1>1
  <2>3. /\ requests \in Seq(Requests) /\ net \in Seq({"new", "sent", "over"}) /\ log \in Seq(Seq(Entries))
        /\ agenda \in Seq(Doings(0)) /\ oldCallbacks \in Seq(1 .. nonce - 1)
        /\ Len(net) = 0 /\ Len(log) = 0
    BY <1>1
  <2>4. /\ Len(requests) <= MaxRequests /\ Len(net) = Len(requests) /\ Len(log) = Len(requests)
        /\ nonce \in Nat \ {0}
    BY <1>1, <2>2, <2>3
  <2>5. agenda \in Seq(Doings(Len(requests)))
    BY <2>2, <2>3
  <2>6. window \in [1 .. MaxRequests -> 0 .. Len(requests)]
    BY <2>1, <2>2
  <2>7. active = 0 /\ late = {} /\ cut = {} /\ timers = {}
    BY DEF Init
  <2>8. busy \in BOOLEAN
    BY DEF Init
  <2> QED BY <2>3, <2>4, <2>5, <2>6, <2>7, <2>8 DEF Typed
<1>3. Names
  BY <1>1 DEF Names
<1>4. AjaxInv
  BY <1>1, <1>2, <1>3 DEF Init, AjaxInv, Openers, Opened, Ended, Scripts, Awaited, Data
<1>5. Tally
  <2>1. Counted = {}
    BY <1>1 DEF Counted
  <2>2. Cardinality(Counted) = 0
    BY <2>1, FS_EmptySet
  <2>3. active = 0 /\ ~busy
    BY DEF Init
  <2>4. Singly /\ ~Heads("ajaxStart") /\ ~Heads("ajaxStop") /\ DOMAIN agenda = {}
    BY <1>1 DEF Singly, Heads
  <2> QED BY <2>2, <2>3, <2>4 DEF Tally
<1>6. Order
  BY <1>1 DEF Order
<1> QED BY <1>4, <1>5, <1>6

\* Every step keeps the invariants.
LEMMA AjaxNext ==
  ASSUME AjaxInv, [Next]_vars
  PROVE  Keeps
<1>1. CASE Jquery
  <2>1. CASE Handler
    <3>1. agenda # << >> /\ Head(agenda).do = "handler"
      BY <2>1 DEF Handler, Doing
    <3>2. CASE MakeRequest(Tail(agenda))
      <4>1. PICK rest : rest = Tail(agenda)
        OBVIOUS
      <4>2. MakeRequest(rest)
        BY <3>2, <4>1
      <4> QED BY <3>1, <4>1, <4>2, MakeKeeps
    <3> QED BY <2>1, <3>2, HandlerKeeps DEF Handler
  <2> QED BY <1>1, <2>1, PrefilterKeeps, StartKeeps, BeforeSendKeeps, InstallKeeps, SendKeeps, AnswerKeeps,
             AbortKeeps, DoneKeeps, SettleKeeps, CompleteKeeps, UncountKeeps, EventKeeps DEF Jquery
<1>2. CASE Script
  <2>1. CASE MakeRequest(<< >>)
    <3>1. PICK rest : rest = << >>
      OBVIOUS
    <3>2. MakeRequest(rest) /\ agenda = << >>
      BY <1>2, <2>1, <3>1 DEF Script, Idle
    <3> QED BY <3>1, <3>2, MakeKeeps
  <2> QED BY <1>2, <2>1, OthersKeep DEF Script
<1>3. CASE XhrAnswers \/ ScriptFails \/ TimesOut
  BY <1>3, OthersKeep
<1>4. CASE ScriptRuns
  BY <1>4, ScriptRunsKeeps
<1>5. CASE UNCHANGED vars
  <2>1. AjaxInv'
    BY <1>5 DEF vars, page, history, AjaxInv, Typed, Openers, Opened, Unopened, Ended, Gone, Scripts,
                      Direct, Clear, Names, Awaited, Data
  <2>2. Tally => Tally'
    BY <1>5 DEF vars, page, history, Tally, Singly, Counted, Uncounting, Heads
  <2>3. Order => Order'
    BY <1>5 DEF vars, page, history, Order, InOrder, Untold, ToldAll
  <2> QED BY <2>1, <2>2, <2>3 DEF Keeps
<1> QED BY <1>1, <1>2, <1>3, <1>4, <1>5 DEF Next

----------
(* The theorems.                                                           *)

\* A JSONP request gets the data of its own script, unless another was aborted before
\* its script came; and when no code runs, a name is the function of a request that is
\* under way.
THEOREM DataIsOwn == Spec => []OwnData
<1>1. AjaxInv => OwnData
  BY DEF AjaxInv, Data, Names, OwnData
<1>2. Init => AjaxInv
  BY AjaxInit
<1>3. AjaxInv /\ [Next]_vars => AjaxInv'
  BY AjaxNext DEF Keeps
<1> QED BY <1>1, <1>2, <1>3, PTL DEF Spec

\* When no code runs, and no request was sent that had been aborted before, by a handler
\* of ajaxSend or, without a beforeSend, of ajaxStart, jQuery.active is the number of the
\* requests under way that fire globals, and ajaxStart and ajaxStop have told whether
\* there are any.
THEOREM CountIsTrue == Spec => []ActiveCountsRequests
<1>1. AjaxInv /\ Tally => ActiveCountsRequests
  <2> SUFFICES ASSUME AjaxInv, Tally, agenda = << >>, cut = {}
               PROVE  /\ active = Cardinality({r \in DOMAIN requests :
                                                 requests[r].globals /\ requests[r].state # 2})
                      /\ busy <=> active > 0
    BY DEF ActiveCountsRequests, Idle
  <2>1. \A q : ~Uncounting(q)
    BY DEF Uncounting
  <2>2. Counted = {r \in DOMAIN requests : requests[r].globals /\ requests[r].state # 2}
    BY <2>1 DEF Counted
  <2> QED BY <2>2 DEF Tally, Heads
<1>2. Init => AjaxInv /\ Tally
  BY AjaxInit
<1>3. AjaxInv /\ Tally /\ [Next]_vars => AjaxInv' /\ Tally'
  BY AjaxNext DEF Keeps
<1> QED BY <1>1, <1>2, <1>3, PTL DEF Spec

\* The handlers of a request, but for one that was aborted before it was sent and sent all
\* the same, by a handler of ajaxSend or, without a beforeSend, of ajaxStart, are called
\* once each, in their order, and agree on whether it succeeded; and when no code runs,
\* one that is over has been told to be complete.
THEOREM HandlersAreInOrder == Spec => []HandlersInOrder
<1>1. AjaxInv /\ Order => HandlersInOrder
  <2> SUFFICES ASSUME AjaxInv, Order, NEW r \in DOMAIN requests \ cut
               PROVE  /\ \A i, j \in DOMAIN log[r] :
                           i < j => /\ Rank(log[r][i].what) < Rank(log[r][j].what)
                                    /\ log[r][i].what # "ajaxSend" => log[r][i].ok = log[r][j].ok
                      /\ (agenda = << >> /\ requests[r].state = 2
                          /\ (requests[r].globals \/ requests[r].installed)) =>
                            Last(log[r]).what = IF requests[r].globals THEN "ajaxComplete" ELSE "completed"
    BY DEF HandlersInOrder, Idle
  <2>1. InOrder(r) /\ ToldAll(r)
    BY DEF Order
  <2> QED BY <2>1 DEF InOrder, ToldAll
<1>2. Init => AjaxInv /\ Order
  BY AjaxInit
<1>3. AjaxInv /\ Order /\ [Next]_vars => AjaxInv' /\ Order'
  BY AjaxNext DEF Keeps
<1> QED BY <1>1, <1>2, <1>3, PTL DEF Spec

================================================================================
