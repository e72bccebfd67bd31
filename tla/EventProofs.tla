----------------------------- MODULE EventProofs ------------------------------
(*****************************************************************************)
(* The promises of Events, for any handlers, triggers and bounds and for     *)
(* nestings of any depth: jQuery's listeners and data are those of the       *)
(* handlers and nodes there are, and no default that was prevented is done.  *)
(*                                                                           *)
(* The sections up to the call stack are about NodeData: what jQuery does to *)
(* its data about the nodes keeps them in order, every entry belonging to one*)
(* node, listeners being those of the entries, and no handler kept twice.    *)
(* The operators that go through handlers, types or nodes are folds.  The    *)
(* first section shows that a fold can be followed step by step, by induction*)
(* on the least counterexample; the lemmas about one operator then say what  *)
(* holds after each step.  Good(H) is the set of the stores of the program   *)
(* when the handlers bound so far are those of H.                            *)
(*                                                                           *)
(* The inductive invariant SafetyInv says of the call stack which frame may  *)
(* stand on which (FrameOk): a dispatch on the walk it is for, a handler's   *)
(* call on its dispatch.  The walks under way are of different events, the   *)
(* later ones of those above (Roots), and each knows whether its default was *)
(* prevented (Vetoes).  That is what ties the event a handler prevents to the*)
(* walk whose end does the default.                                          *)
(*****************************************************************************)
EXTENDS Events, FiniteSetTheorems, SequenceTheorems, WellFoundedInduction, TLAPS

----------
(* Folds.                                                                   *)

\* Induction over the subsets of a finite set: what holds of {}, and of a set when it holds
\* of the set without any one of its members, holds of all.
LEMMA SubsetInduction ==
  ASSUME NEW S, IsFiniteSet(S), NEW G, {} \in G,
         \A T \in SUBSET S : T # {} /\ (\A x \in T : T \ {x} \in G) => T \in G
  PROVE  S \in G
<1> DEFINE Bad == {T \in SUBSET S : T \notin G}
           R == StrictSubsetOrdering(S)
<1>1. IsWellFoundedOn(R, SUBSET S)
  BY FS_StrictSubsetOrderingWellFounded, FS_FiniteSubsetsOfFinite, Zenon
<1>2. SUFFICES ASSUME S \notin G PROVE FALSE
  OBVIOUS
<1>3. Bad # {} /\ Bad \subseteq SUBSET S
  BY <1>2
<1>4. PICK T \in Bad : \A U \in Bad : ~(<<U, T>> \in R)
  <2> HIDE DEF Bad, R
  <2> QED BY <1>1, <1>3, WFMin, Zenon
<1>5. T \in SUBSET S /\ T \notin G /\ T # {}
  OBVIOUS
<1>6. ASSUME NEW x \in T PROVE T \ {x} \in G
  <2>1. T \ {x} \in SUBSET S /\ T \ {x} # T
    BY <1>5
  <2>2. <<T \ {x}, T>> \in R
    BY <1>5, <2>1 DEF StrictSubsetOrdering
  <2> QED BY <1>4, <2>1, <2>2
<1> HIDE DEF Bad, R
<1> QED BY <1>5, <1>6

\* Induction over the natural numbers, by their least counterexample.
LEMMA CountInduction ==
  ASSUME NEW G, 0 \in G, \A n \in Nat : n \in G => n + 1 \in G
  PROVE  Nat \subseteq G
<1> DEFINE Bad == {n \in Nat : n \notin G}
           R == OpToRel(<, Nat)
<1>1. SUFFICES ASSUME Bad # {} PROVE FALSE
  OBVIOUS
<1>2. IsWellFoundedOn(R, Nat)
  BY NatLessThanWellFounded
<1>3. Bad \subseteq Nat
  OBVIOUS
<1>4. PICK n \in Bad : \A m \in Bad : ~(<<m, n>> \in R)
  <2> HIDE DEF Bad, R
  <2> QED BY <1>1, <1>2, <1>3, WFMin, Zenon
<1>5. n \in Nat /\ n \notin G /\ n # 0
  OBVIOUS
<1>6. n - 1 \in Nat /\ n - 1 < n /\ n = (n - 1) + 1
  BY <1>5
<1>7. <<n - 1, n>> \in R
  BY <1>5, <1>6 DEF OpToRel
<1>8. n - 1 \in G
  BY <1>4, <1>6, <1>7
<1> QED BY <1>5, <1>6, <1>8

\* Recursion over the subsets of a finite set: base for the empty one, and for another
\* one the value g gives for the element that c takes and for what is left.
FoldGiven(S, A, base, g, c) ==
  /\ IsFiniteSet(S) /\ base \in A /\ g \in [S \X A -> A]
  /\ \A T \in SUBSET S : T # {} => c[T] \in T
\* F is the fold of g over the subsets of S, which takes the member c[T] of T last.
IsFold(F, S, base, g, c) ==
  \A T \in SUBSET S : F[T] = IF T = {} THEN base ELSE g[<<c[T], F[T \ {c[T]}]>>]

\* There is such a fold.
LEMMA FoldExists ==
  ASSUME NEW S, NEW A, NEW base, NEW g, NEW c, FoldGiven(S, A, base, g, c)
  PROVE  \E F \in [SUBSET S -> A] : IsFold(F, S, base, g, c)
<1> USE DEF FoldGiven
<1> DEFINE Rec(F, T) == F[T] = IF T = {} THEN base ELSE g[<<c[T], F[T \ {c[T]}]>>]
           Upto(F, n) == \A T \in SUBSET S : Cardinality(T) <= n => Rec(F, T)
           G == {n \in Nat : \E F \in [SUBSET S -> A] : Upto(F, n)}
<1>0. \A T \in SUBSET S : IsFiniteSet(T) /\ Cardinality(T) \in Nat /\ Cardinality(T) <= Cardinality(S)
  BY FS_Subset, FS_CardinalityType
<1>1. 0 \in G
  <2> DEFINE F0 == [T \in SUBSET S |-> base]
  <2>1. F0 \in [SUBSET S -> A]
    OBVIOUS
  <2>2. ASSUME NEW T \in SUBSET S, Cardinality(T) <= 0 PROVE Rec(F0, T)
    <3>1. T = {}
      BY <1>0, <2>2, FS_EmptySet
    <3> QED BY <3>1
  <2> QED BY <2>1, <2>2
<1>2. ASSUME NEW n \in Nat, n \in G PROVE n + 1 \in G
  <2>1. PICK F \in [SUBSET S -> A] : Upto(F, n)
    BY <1>2
  <2> DEFINE H == [T \in SUBSET S |-> IF T = {} THEN base ELSE g[<<c[T], F[T \ {c[T]}]>>]]
  <2>2. \A T \in SUBSET S : T # {} => c[T] \in S /\ T \ {c[T]} \in SUBSET S /\ <<c[T], F[T \ {c[T]}]>> \in S \X A
    OBVIOUS
  <2>3. H \in [SUBSET S -> A]
    BY <2>2
  <2>4. ASSUME NEW T \in SUBSET S, Cardinality(T) <= n PROVE H[T] = F[T]
    BY <2>1, <2>4
  <2>5. ASSUME NEW T \in SUBSET S, Cardinality(T) <= n + 1 PROVE Rec(H, T)
    <3>1. CASE T = {}
      BY <3>1
    <3>2. CASE T # {}
      <4>1. Cardinality(T \ {c[T]}) = Cardinality(T) - 1
        BY <3>2, <1>0, FS_RemoveElement
      <4>2. T \ {c[T]} \in SUBSET S /\ Cardinality(T \ {c[T]}) <= n
        BY <4>1, <1>0, <2>5
      <4>3. H[T \ {c[T]}] = F[T \ {c[T]}]
        BY <4>2, <2>4
      <4>4. H[T] = g[<<c[T], F[T \ {c[T]}]>>]
        BY <3>2
      <4> QED BY <3>2, <4>3, <4>4
    <3> QED BY <3>1, <3>2
  <2>6. Upto(H, n + 1)
    BY <2>5
  <2>7. \E E \in [SUBSET S -> A] : Upto(E, n + 1)
    <3> HIDE DEF H, Upto
    <3> QED BY <2>3, <2>6
  <2> HIDE DEF H, Upto
  <2> QED BY <2>7
<1>3. Nat \subseteq G
  <2> HIDE DEF G
  <2> QED BY <1>1, <1>2, CountInduction
<1>4. Cardinality(S) \in G
  BY <1>3, FS_CardinalityType
<1>5. PICK F \in [SUBSET S -> A] : Upto(F, Cardinality(S))
  BY <1>4
<1> QED BY <1>0, <1>5 DEF IsFold

\* Max of a set of places is its largest member.
LEMMA MaxIn ==
  ASSUME NEW n \in Nat, NEW T \in SUBSET (1 .. n), T # {}
  PROVE  Max(T) \in T /\ \A x \in T : x <= Max(T)
<1> DEFINE G == {U \in SUBSET T : U = {} \/ \E x \in U : \A y \in U : x >= y}
<1>1. IsFiniteSet(T)
  <2>1. IsFiniteSet(1 .. n)
    BY FS_Interval
  <2> QED BY <2>1, FS_Subset
<1>2. {} \in G
  OBVIOUS
<1>3. ASSUME NEW U \in SUBSET T, NEW x \in U, U \ {x} \in G PROVE U \in G
  <2>1. CASE U \ {x} = {}
    BY <2>1
  <2>2. CASE U \ {x} # {}
    <3>1. PICK z \in U \ {x} : \A y \in U \ {x} : z >= y
      BY <1>3, <2>2
    <3>2. x \in 1 .. n /\ z \in 1 .. n /\ \A y \in U : y \in 1 .. n
      OBVIOUS
    <3>3. CASE z >= x
      BY <3>1, <3>2, <3>3
    <3>4. CASE ~(z >= x)
      BY <3>1, <3>2, <3>4
    <3> QED BY <3>3, <3>4
  <2> QED BY <2>1, <2>2
<1>4. \A U \in SUBSET T : U # {} /\ (\A x \in U : U \ {x} \in G) => U \in G
  <2> HIDE DEF G
  <2> QED BY <1>3
<1>5. T \in G
  <2> HIDE DEF G
  <2> QED BY <1>1, <1>2, <1>4, SubsetInduction
<1>6. \E x \in T : \A y \in T : x >= y
  BY <1>5
<1> QED BY <1>6 DEF Max

\* The places 1 .. k without the last one are 1 .. k - 1.
LEMMA MaxOfInterval ==
  ASSUME NEW n \in Nat, NEW k \in 1 .. n
  PROVE  /\ 1 .. k \in SUBSET (1 .. n) /\ 1 .. k # {}
         /\ Max(1 .. k) = k /\ (1 .. k) \ {k} = 1 .. k - 1
<1>1. 1 .. k \in SUBSET (1 .. n) /\ k \in 1 .. k
  OBVIOUS
<1>2. Max(1 .. k) \in 1 .. k /\ k <= Max(1 .. k)
  BY <1>1, MaxIn
<1>3. (1 .. k) \ {k} = 1 .. k - 1
  OBVIOUS
<1> QED BY <1>1, <1>2, <1>3

\* Recursion along a sequence, as the folds from the left make it.
WalkGiven(n, A, base, g) == n \in Nat /\ base \in A /\ g \in [(1 .. n) \X A -> A]
\* F is the fold of g over the places 1 .. n, from the first on.
IsWalk(F, n, base, g) ==
  \A T \in SUBSET (1 .. n) : F[T] = IF T = {} THEN base ELSE g[<<Max(T), F[T \ {Max(T)}]>>]

\* There is such a fold.
LEMMA WalkExists ==
  ASSUME NEW n, NEW A, NEW base, NEW g, WalkGiven(n, A, base, g)
  PROVE  \E F \in [SUBSET (1 .. n) -> A] : IsWalk(F, n, base, g)
<1> DEFINE S == 1 .. n
           c == [T \in SUBSET S |-> Max(T)]
<1>1. IsFiniteSet(S)
  BY FS_Interval DEF WalkGiven
<1>2. \A T \in SUBSET S : T # {} => c[T] \in T
  BY MaxIn DEF WalkGiven
<1>3. \A T \in SUBSET S : c[T] = Max(T)
  OBVIOUS
<1>4. FoldGiven(S, A, base, g, c)
  BY <1>1, <1>2 DEF FoldGiven, WalkGiven
<1>5. PICK F \in [SUBSET S -> A] : IsFold(F, S, base, g, c)
  <2> HIDE DEF c, S
  <2> QED BY <1>4, FoldExists
<1>6. IsWalk(F, n, base, g)
  <2> HIDE DEF c
  <2> QED BY <1>3, <1>5 DEF IsFold, IsWalk
<1> QED BY <1>6

\* What holds at the start, and after one step more, holds at the end.
LEMMA WalkInduction ==
  ASSUME NEW n \in Nat, NEW G, 0 \in G, \A k \in 1 .. n : k - 1 \in G => k \in G
  PROVE  \A k \in 0 .. n : k \in G
<1> DEFINE U == {k \in Nat : k <= n => k \in G}
<1>1. 0 \in U
  OBVIOUS
<1>2. ASSUME NEW k \in Nat, k \in U PROVE k + 1 \in U
  <2>1. CASE k + 1 <= n
    <3>1. k + 1 \in 1 .. n /\ (k + 1) - 1 = k /\ k \in G
      BY <1>2, <2>1
    <3>2. k + 1 \in G
      BY <3>1
    <3> QED BY <3>2
  <2>2. CASE ~(k + 1 <= n)
    BY <2>2
  <2> QED BY <2>1, <2>2
<1>3. Nat \subseteq U
  <2> HIDE DEF U
  <2> QED BY <1>1, <1>2, CountInduction
<1> QED BY <1>3

----------
\* event.remove goes through the handlers one by one.
LeftAfter(handlers, off, mapped, f) ==
  /\ f[0] = <<>>
  /\ \A k \in 1 .. Len(handlers) :
       f[k] = IF Means(off, mapped, handlers[k]) THEN f[k - 1] ELSE Append(f[k - 1], handlers[k])
  /\ NotMeant(handlers, off, mapped) = f[Len(handlers)]

\* NotMeant goes through the handlers one by one: f[k] is what it has kept of the first k.
LEMMA NotMeantSteps ==
  ASSUME NEW S, NEW handlers \in Seq(S), NEW off, NEW mapped
  PROVE  \E f \in [0 .. Len(handlers) -> Seq(S)] : LeftAfter(handlers, off, mapped, f)
<1> DEFINE n == Len(handlers)
           D == DOMAIN handlers
           A == Seq(S)
           g == [p \in (1 .. n) \X A |-> IF Means(off, mapped, handlers[p[1]]) THEN p[2] ELSE Append(p[2], handlers[p[1]])]
           iter == CHOOSE h : h = [T \in SUBSET D |-> IF T = {} THEN <<>>
                     ELSE IF Means(off, mapped, handlers[Max(T)]) THEN h[T \ {Max(T)}]
                          ELSE Append(h[T \ {Max(T)}], handlers[Max(T)])]
<1>1. n \in Nat /\ D = 1 .. n /\ \A k \in 1 .. n : handlers[k] \in S
  OBVIOUS
<1>2. g \in [(1 .. n) \X A -> A] /\ <<>> \in A
  BY <1>1
<1>3. \A k \in 1 .. n : \A q \in A :
        g[<<k, q>>] = IF Means(off, mapped, handlers[k]) THEN q ELSE Append(q, handlers[k])
  OBVIOUS
<1> HIDE DEF g, A, n
<1>4. PICK F \in [SUBSET (1 .. n) -> A] : IsWalk(F, n, <<>>, g)
  <2>1. WalkGiven(n, A, <<>>, g)
    BY <1>1, <1>2 DEF WalkGiven
  <2> QED BY <2>1, WalkExists
<1>5. F = [T \in SUBSET D |-> IF T = {} THEN <<>>
             ELSE IF Means(off, mapped, handlers[Max(T)]) THEN F[T \ {Max(T)}]
                  ELSE Append(F[T \ {Max(T)}], handlers[Max(T)])]
  <2>1. ASSUME NEW T \in SUBSET (1 .. n), T # {}
        PROVE  F[T] = IF Means(off, mapped, handlers[Max(T)]) THEN F[T \ {Max(T)}]
                      ELSE Append(F[T \ {Max(T)}], handlers[Max(T)])
    <3>1. Max(T) \in 1 .. n /\ F[T \ {Max(T)}] \in A
      BY <1>1, <1>4, <2>1, MaxIn
    <3> QED BY <1>3, <1>4, <2>1, <3>1 DEF IsWalk
  <2> QED BY <1>1, <1>4, <2>1 DEF IsWalk
<1>6. iter = [T \in SUBSET D |-> IF T = {} THEN <<>>
             ELSE IF Means(off, mapped, handlers[Max(T)]) THEN iter[T \ {Max(T)}]
                  ELSE Append(iter[T \ {Max(T)}], handlers[Max(T)])]
  BY <1>5
<1>7. NotMeant(handlers, off, mapped) = iter[D]
  BY Zenon DEF NotMeant, FoldLeft, MapThenFoldSet
<1> HIDE DEF iter, D
<1> DEFINE f == [k \in 0 .. n |-> iter[1 .. k]]
<1>8. f[0] = <<>>
  <2>1. 1 .. 0 = {} /\ {} \in SUBSET D
    OBVIOUS
  <2> QED BY <1>1, <1>6, <2>1
<1>9. ASSUME NEW k \in 1 .. n
      PROVE  f[k] = IF Means(off, mapped, handlers[k]) THEN f[k - 1] ELSE Append(f[k - 1], handlers[k])
  <2>1. /\ 1 .. k \in SUBSET D /\ 1 .. k # {}
        /\ Max(1 .. k) = k /\ (1 .. k) \ {k} = 1 .. k - 1
    BY <1>1, MaxOfInterval
  <2>2. f[k] = iter[1 .. k] /\ f[k - 1] = iter[1 .. k - 1]
    BY <1>1
  <2> QED BY <1>6, <2>1, <2>2
<1>10. f[n] = iter[D]
  BY <1>1
<1>11. \A k \in 0 .. n : f[k] \in A
  <2> DEFINE G == {k \in 0 .. n : f[k] \in A}
  <2>1. 0 \in G
    BY <1>1, <1>2, <1>8
  <2>2. ASSUME NEW k \in 1 .. n, k - 1 \in G PROVE k \in G
    <3>1. f[k - 1] \in A /\ handlers[k] \in S /\ k \in 0 .. n
      BY <1>1, <2>2
    <3>2. Append(f[k - 1], handlers[k]) \in A
      <4> HIDE DEF f
      <4> QED BY <3>1 DEF A
    <3>3. f[k] \in A
      BY <1>9, <3>1, <3>2
    <3> QED BY <3>1, <3>3
  <2> HIDE DEF f
  <2>3. \A k \in 0 .. n : k \in G
    <3> HIDE DEF G
    <3> QED BY <1>1, <2>1, <2>2, WalkInduction
  <2> QED BY <2>3
<1>12. f \in [0 .. n -> A]
  BY <1>11
<1> HIDE DEF f
<1>13. LeftAfter(handlers, off, mapped, f)
  BY <1>7, <1>8, <1>9, <1>10 DEF n, LeftAfter
<1>14. f \in [0 .. Len(handlers) -> Seq(S)]
  BY <1>12 DEF n, A
<1> QED BY <1>13, <1>14

----------
(* Entries and stores.                                                      *)

\* What is kept about nodes, when the handlers are those of H.
Types(H) == {"focusin"} \cup {h.type : h \in H}
\* What else an entry may keep: a key of data(), and one that came from an attribute.
Keys == {"key", "attribute"}
\* The values of an entry's events when the handlers are members of H; no list is empty.
EventsSet(H) == UNION {[D -> Seq(H) \ {<<>>}] : D \in {ts \in SUBSET Types(H) : IsFiniteSet(ts)}}
\* Entries, and stores, whose handlers are members of H.
EntrySet(H) == [events : EventsSet(H), made : BOOLEAN, handle : Nat, keys : SUBSET Keys]
StoreSet(H) ==
  [cache : UNION {[D -> EntrySet(H)] : D \in SUBSET (Nat \ {0})}, expando : [Nodes -> Nat],
   deletedIds : Seq(Nat \ {0}), guid : Nat \ {0}, listeners : [Nodes -> SUBSET (Types(H) \X Nat)],
   attaches : Int]

\* Numbers: those of nodes, and those that may be used again, are all different.
Owns(s) ==
  /\ \A m, n \in Nodes : s.expando[m] # 0 /\ s.expando[m] = s.expando[n] => m = n
  /\ \A i : i \in DOMAIN s.cache <=> \E n \in Nodes : i = s.expando[n] /\ i # 0
  /\ \A i \in DOMAIN s.cache : i < s.guid
  /\ \A i \in DOMAIN s.deletedIds : s.deletedIds[i] < s.guid /\ s.deletedIds[i] \notin DOMAIN s.cache
  /\ \A i, j \in DOMAIN s.deletedIds : s.deletedIds[i] = s.deletedIds[j] => i = j

\* An entry has the object of its handlers, and their listener, exactly while there are
\* handlers; each is under its type.
EntryOk(e) ==
  /\ e.made <=> e.handle # 0
  /\ e.made <=> DOMAIN e.events # {}
  /\ \A t \in DOMAIN e.events : \A i \in DOMAIN e.events[t] :
       KeptType(e.events[t][i].type, e.events[t][i].selector) = t

\* The nodes that have a handler of the special type focusin, those that attaches counts.
Focusing(s) == {n \in Nodes : "focusin" \in DOMAIN Entry(s, n).events}
\* The listeners that an entry has had attached to its node.
Told(e) == {<<t, e.handle>> : t \in DOMAIN e.events \ {"focusin"}}

\* The listeners of the nodes are those of the entries, and the count for the focus of the
\* document is at least that of the nodes that have a handler for it.
InStep(s) ==
  /\ \A n \in Nodes : EntryOk(Entry(s, n)) /\ s.listeners[n] = Told(Entry(s, n))
  /\ s.attaches >= Cardinality(Focusing(s))

\* No handler of the page is kept twice.
Unique(s) ==
  \A m, n \in 1 .. Document : \A t \in DOMAIN Entry(s, m).events, u \in DOMAIN Entry(s, n).events :
    \A i \in DOMAIN Entry(s, m).events[t], j \in DOMAIN Entry(s, n).events[u] :
      Entry(s, m).events[t][i].hid = Entry(s, n).events[u][j].hid => m = n /\ t = u /\ i = j

----------
\* There are finitely many nodes, the copy among them.
LEMMA NodesFinite == IsFiniteSet(Nodes) /\ Cardinality(Nodes) = Document + 1 /\ Copy \in Nodes /\ Nodes = 0 .. Document
<1>1. Nodes = 0 .. Document
  BY DocumentAssumption DEF Nodes, Copy
<1>2. IsFiniteSet(0 .. Document) /\ Cardinality(0 .. Document) = Document + 1
  BY FS_Interval, DocumentAssumption
<1> QED BY <1>1, <1>2, DocumentAssumption DEF Copy

\* A function with one value set.
LEMMA WithTyped ==
  ASSUME NEW A, NEW f, f \in [DOMAIN f -> A], NEW x, NEW v \in A
  PROVE  /\ With(f, x, v) \in [DOMAIN f \cup {x} -> A]
         /\ DOMAIN With(f, x, v) = DOMAIN f \cup {x}
         /\ With(f, x, v)[x] = v
         /\ \A y \in DOMAIN f \ {x} : With(f, x, v)[y] = f[y]
BY DEF With

\* A function without one of its arguments.
LEMMA WithoutTyped ==
  ASSUME NEW A, NEW f, f \in [DOMAIN f -> A], NEW x
  PROVE  /\ Without(f, x) \in [DOMAIN f \ {x} -> A]
         /\ DOMAIN Without(f, x) = DOMAIN f \ {x}
         /\ \A y \in DOMAIN f \ {x} : Without(f, x)[y] = f[y]
BY DEF Without

\* A new entry is empty.
LEMMA NewEntryTyped ==
  ASSUME NEW H
  PROVE  /\ NewEntry \in EntrySet(H) /\ DOMAIN NewEntry.events = {}
         /\ NewEntry.made = FALSE /\ NewEntry.handle = 0 /\ NewEntry.keys = {}
         /\ IsEmptyDataObject(NewEntry) /\ EntryOk(NewEntry) /\ Told(NewEntry) = {}
<1>1. <<>> \in [{} -> Seq(H) \ {<<>>}]
  OBVIOUS
<1>2. {} \in {ts \in SUBSET Types(H) : IsFiniteSet(ts)}
  BY FS_EmptySet
<1>3. <<>> \in EventsSet(H)
  BY <1>1, <1>2 DEF EventsSet
<1>4. NewEntry \in EntrySet(H)
  BY <1>3 DEF NewEntry, EntrySet
<1>5. /\ NewEntry.events = <<>>
      /\ NewEntry.made = FALSE /\ NewEntry.handle = 0 /\ NewEntry.keys = {}
  BY DEF NewEntry
<1>6. DOMAIN NewEntry.events = {}
  BY <1>5
<1> QED BY <1>4, <1>5, <1>6 DEF IsEmptyDataObject, EntryOk, Told

\* What it is to be the events of an entry.
LEMMA EventsTyped ==
  ASSUME NEW H, NEW f
  PROVE  f \in EventsSet(H) <=>
           /\ f \in [DOMAIN f -> Seq(H) \ {<<>>}]
           /\ DOMAIN f \subseteq Types(H) /\ IsFiniteSet(DOMAIN f)
  BY DEF EventsSet

\* What it is to be a store, field by field.
LEMMA StoreTyped ==
  ASSUME NEW H, NEW s \in StoreSet(H)
  PROVE  /\ s.cache \in [DOMAIN s.cache -> EntrySet(H)] /\ DOMAIN s.cache \subseteq Nat \ {0}
         /\ s.expando \in [Nodes -> Nat] /\ s.deletedIds \in Seq(Nat \ {0}) /\ s.guid \in Nat \ {0}
         /\ s.listeners \in [Nodes -> SUBSET (Types(H) \X Nat)] /\ s.attaches \in Int
<1>1. PICK D \in SUBSET (Nat \ {0}) : s.cache \in [D -> EntrySet(H)]
  BY DEF StoreSet
<1> QED BY <1>1 DEF StoreSet

\* The entry of a node is that of its expando, or a new one.
LEMMA EntryTyped ==
  ASSUME NEW H, NEW s \in StoreSet(H), NEW n \in Nodes, Owns(s)
  PROVE  /\ Entry(s, n) \in EntrySet(H)
         /\ HasData(s, n) <=> s.expando[n] # 0
         /\ ~HasData(s, n) => Entry(s, n) = NewEntry
         /\ HasData(s, n) => Entry(s, n) = s.cache[s.expando[n]]
<1>1. HasData(s, n) => s.cache[s.expando[n]] \in EntrySet(H)
  BY DEF HasData, StoreSet
<1>2. HasData(s, n) <=> s.expando[n] # 0
  BY DEF HasData, StoreSet, Owns
<1>3. NewEntry \in EntrySet(H)
  BY NewEntryTyped
<1> QED BY <1>1, <1>2, <1>3 DEF Entry

\* A node's entry that is replaced leaves every node the owner of its data.
LEMMA WithEntryKeeps ==
  ASSUME NEW H, NEW s \in StoreSet(H), NEW n \in Nodes, Owns(s), HasData(s, n),
         NEW e \in EntrySet(H), NEW t, t = WithEntry(s, n, e)
  PROVE  /\ t \in StoreSet(H) /\ Owns(t)
         /\ \A m \in Nodes : HasData(t, m) <=> HasData(s, m)
         /\ Entry(t, n) = e
         /\ \A m \in Nodes \ {n} : Entry(t, m) = Entry(s, m)
         /\ t.listeners = s.listeners /\ t.attaches = s.attaches
<1>1. /\ t.expando = s.expando /\ t.deletedIds = s.deletedIds /\ t.guid = s.guid
      /\ t.listeners = s.listeners /\ t.attaches = s.attaches
      /\ t.cache = [s.cache EXCEPT ![s.expando[n]] = e]
  BY DEF WithEntry, StoreSet
<1>2. DOMAIN t.cache = DOMAIN s.cache /\ t.cache[s.expando[n]] = e
      /\ \A i \in DOMAIN s.cache : i # s.expando[n] => t.cache[i] = s.cache[i]
  BY <1>1 DEF StoreSet, HasData
<1>3. t.cache \in [DOMAIN s.cache -> EntrySet(H)] /\ DOMAIN s.cache \in SUBSET (Nat \ {0})
  BY <1>1, StoreTyped DEF HasData
<1>4. t \in StoreSet(H)
  BY <1>3 DEF WithEntry, StoreSet
<1>5. Owns(t)
  BY <1>1, <1>2 DEF Owns
<1>6. \A m \in Nodes : HasData(t, m) <=> HasData(s, m)
  BY <1>1, <1>2 DEF HasData
<1>7. Entry(t, n) = e
  BY <1>1, <1>2, <1>6 DEF Entry
<1>8. ASSUME NEW m \in Nodes, m # n PROVE Entry(t, m) = Entry(s, m)
  <2>1. HasData(s, m) => s.expando[m] # s.expando[n]
    BY <1>8, EntryTyped DEF Owns
  <2> QED BY <1>1, <1>2, <1>6, <2>1 DEF Entry, HasData
<1> QED BY <1>1, <1>4, <1>5, <1>6, <1>7, <1>8

\* A store in parts.
LEMMA StoreMade ==
  ASSUME NEW H, NEW s \in StoreSet(H), NEW t,
         t = [cache |-> t.cache, expando |-> t.expando, deletedIds |-> t.deletedIds, guid |-> t.guid,
              listeners |-> t.listeners, attaches |-> t.attaches],
         t.cache \in [DOMAIN t.cache -> EntrySet(H)], DOMAIN t.cache \subseteq Nat \ {0},
         t.expando \in [Nodes -> Nat], t.deletedIds \in Seq(Nat \ {0}), t.guid \in Nat \ {0},
         t.listeners \in [Nodes -> SUBSET (Types(H) \X Nat)], t.attaches \in Int
  PROVE  t \in StoreSet(H)
<1>1. t.cache \in UNION {[D -> EntrySet(H)] : D \in SUBSET (Nat \ {0})}
  OBVIOUS
<1> QED BY <1>1 DEF StoreSet

\* So does internalData, with which a node has data, empty if it had none.
LEMMA InternalDataKeeps ==
  ASSUME NEW H, NEW s \in StoreSet(H), NEW n \in Nodes, Owns(s), NEW t, t = InternalData(s, n)
  PROVE  /\ t \in StoreSet(H) /\ Owns(t)
         /\ HasData(t, n)
         /\ \A m \in Nodes : Entry(t, m) = Entry(s, m)
         /\ t.listeners = s.listeners /\ t.attaches = s.attaches
<1>1. CASE HasData(s, n)
  BY <1>1 DEF InternalData
<1>2. CASE ~HasData(s, n)
  <2> DEFINE reuse == s.deletedIds # <<>>
             id == IF reuse THEN s.deletedIds[Len(s.deletedIds)] ELSE s.guid
  <2>0. s.expando[n] = 0
    BY <1>2, EntryTyped
  <2>1. t = [s EXCEPT !.expando[n] = id, !.guid = IF ~reuse THEN @ + 1 ELSE @,
                      !.deletedIds = IF reuse THEN SubSeq(@, 1, Len(@) - 1) ELSE @,
                      !.cache = With(@, id, NewEntry)]
    BY <1>2, <2>0 DEF InternalData
  <2>2. /\ s.cache \in [DOMAIN s.cache -> EntrySet(H)] /\ DOMAIN s.cache \subseteq Nat \ {0}
        /\ s.expando \in [Nodes -> Nat] /\ s.deletedIds \in Seq(Nat \ {0}) /\ s.guid \in Nat \ {0}
        /\ s.listeners \in [Nodes -> SUBSET (Types(H) \X Nat)] /\ s.attaches \in Int
    BY StoreTyped
  <2>3. id \in Nat \ {0} /\ id \notin DOMAIN s.cache
    <3>1. CASE reuse
      <4>1. Len(s.deletedIds) \in DOMAIN s.deletedIds
        BY <2>2, <3>1, EmptySeq, LenProperties
      <4> QED BY <4>1, <2>2, <3>1, ElementOfSeq DEF Owns
    <3>2. CASE ~reuse
      BY <2>2, <3>2 DEF Owns
    <3> QED BY <3>1, <3>2
  <2>4. /\ t.expando = [s.expando EXCEPT ![n] = id]
        /\ t.guid = IF reuse THEN s.guid ELSE s.guid + 1
        /\ t.deletedIds = IF reuse THEN SubSeq(s.deletedIds, 1, Len(s.deletedIds) - 1) ELSE s.deletedIds
        /\ t.cache = With(s.cache, id, NewEntry)
        /\ t.listeners = s.listeners /\ t.attaches = s.attaches
        /\ t = [cache |-> t.cache, expando |-> t.expando, deletedIds |-> t.deletedIds, guid |-> t.guid,
                listeners |-> t.listeners, attaches |-> t.attaches]
    <3> HIDE DEF id
    <3> QED BY <2>1 DEF StoreSet
  <2> HIDE DEF id
  <2>5. /\ DOMAIN t.cache = DOMAIN s.cache \cup {id} /\ t.cache[id] = NewEntry
        /\ \A i \in DOMAIN s.cache : t.cache[i] = s.cache[i]
        /\ t.cache \in [DOMAIN t.cache -> EntrySet(H)]
    <3>1. s.cache \in [DOMAIN s.cache -> EntrySet(H)] /\ NewEntry \in EntrySet(H) /\ t.cache = With(s.cache, id, NewEntry)
      BY <2>2, <2>4, NewEntryTyped
    <3>2. /\ t.cache \in [DOMAIN s.cache \cup {id} -> EntrySet(H)]
          /\ DOMAIN t.cache = DOMAIN s.cache \cup {id} /\ t.cache[id] = NewEntry
          /\ \A i \in DOMAIN s.cache \ {id} : t.cache[i] = s.cache[i]
      <4> DEFINE f == s.cache
                 A == EntrySet(H)
      <4>1. f \in [DOMAIN f -> A] /\ NewEntry \in A
        BY <3>1
      <4> HIDE DEF f, A
      <4>2. /\ With(f, id, NewEntry) \in [DOMAIN f \cup {id} -> A]
            /\ DOMAIN With(f, id, NewEntry) = DOMAIN f \cup {id}
            /\ With(f, id, NewEntry)[id] = NewEntry
            /\ \A y \in DOMAIN f \ {id} : With(f, id, NewEntry)[y] = f[y]
        BY <4>1 DEF With
      <4> QED BY <3>1, <4>2 DEF f, A
    <3> QED BY <3>2, <2>3
  <2>6. /\ t.deletedIds \in Seq(Nat \ {0})
        /\ reuse => /\ Len(s.deletedIds) > 0 /\ Len(t.deletedIds) = Len(s.deletedIds) - 1
                    /\ \A i \in 1 .. Len(s.deletedIds) - 1 : t.deletedIds[i] = s.deletedIds[i]
        /\ DOMAIN t.deletedIds = 1 .. Len(t.deletedIds) /\ DOMAIN s.deletedIds = 1 .. Len(s.deletedIds)
        /\ Len(s.deletedIds) \in Nat /\ Len(t.deletedIds) \in Nat
    <3>1. CASE reuse
      <4>1. Len(s.deletedIds) \in Nat /\ Len(s.deletedIds) > 0
        BY <2>2, <3>1
      <4>2. \A i \in 1 .. Len(s.deletedIds) - 1 : s.deletedIds[i] \in Nat \ {0}
        BY <2>2, <4>1
      <4> QED BY <2>2, <2>4, <3>1, <4>1, <4>2, SubSeqProperties, LenProperties
    <3>2. CASE ~reuse
      BY <2>2, <2>4, <3>2
    <3> QED BY <3>1, <3>2
  <2>7. t.guid \in Nat \ {0} /\ t.expando \in [Nodes -> Nat]
    BY <2>2, <2>3, <2>4
  <2>8. t \in StoreSet(H)
    BY <2>7, <2>6, <2>5, <2>4, <2>3, <2>2, StoreMade
  <2>9. Owns(t)
    <3>1. \A m, k \in Nodes : t.expando[m] # 0 /\ t.expando[m] = t.expando[k] => m = k
      BY <2>0, <2>2, <2>3, <2>4 DEF Owns
    <3>2. \A i : i \in DOMAIN t.cache <=> \E m \in Nodes : i = t.expando[m] /\ i # 0
      <4>1. ASSUME NEW i \in DOMAIN t.cache PROVE \E m \in Nodes : i = t.expando[m] /\ i # 0
        <5>1. CASE i = id
          BY <2>4, <2>3, <2>2, <5>1
        <5>2. CASE i # id
          <6>1. PICK m \in Nodes : i = s.expando[m] /\ i # 0
            BY <5>2, <2>5 DEF Owns
          <6>2. m # n
            BY <6>1, <2>0
          <6> QED BY <6>1, <6>2, <2>2, <2>4
        <5> QED BY <5>1, <5>2
      <4>2. ASSUME NEW m \in Nodes, t.expando[m] # 0 PROVE t.expando[m] \in DOMAIN t.cache
        <5>1. CASE m = n
          BY <5>1, <2>2, <2>4, <2>5
        <5>2. CASE m # n
          <6>1. t.expando[m] = s.expando[m]
            BY <5>2, <2>2, <2>4
          <6> QED BY <6>1, <4>2, <2>5 DEF Owns
        <5> QED BY <5>1, <5>2
      <4> QED BY <4>1, <4>2
    <3>3. id < t.guid
      <4>1. CASE reuse
        BY <2>6, <4>1, <2>4 DEF Owns, id
      <4>2. CASE ~reuse
        BY <2>2, <4>2, <2>4 DEF id
      <4> QED BY <4>1, <4>2
    <3>4. \A i \in DOMAIN t.cache : i < t.guid
      BY <3>3, <2>5, <2>4, <2>2 DEF Owns
    <3>5. ASSUME NEW i \in DOMAIN t.deletedIds
          PROVE /\ i \in DOMAIN s.deletedIds /\ t.deletedIds[i] = s.deletedIds[i] /\ s.deletedIds[i] # id
      <4>1. CASE reuse
        <5>1. i \in 1 .. Len(s.deletedIds) - 1
          BY <2>6, <4>1
        <5>2. id = s.deletedIds[Len(s.deletedIds)]
          BY <4>1 DEF id
        <5>3. i # Len(s.deletedIds) /\ i \in DOMAIN s.deletedIds /\ Len(s.deletedIds) \in DOMAIN s.deletedIds
          BY <2>6, <5>1, <4>1
        <5> QED BY <2>6, <4>1, <5>1, <5>2, <5>3 DEF Owns
      <4>2. CASE ~reuse
        BY <2>4, <4>2, <2>6
      <4> QED BY <4>1, <4>2
    <3>6. \A i \in DOMAIN t.deletedIds : t.deletedIds[i] < t.guid /\ t.deletedIds[i] \notin DOMAIN t.cache
      <4>1. \A i \in DOMAIN t.deletedIds : s.deletedIds[i] \in Nat
        BY <3>5, <2>2, <2>6
      <4> QED BY <3>5, <2>2, <2>4, <2>5, <4>1 DEF Owns
    <3>7. \A i, j \in DOMAIN t.deletedIds : t.deletedIds[i] = t.deletedIds[j] => i = j
      BY <3>5 DEF Owns
    <3> QED BY <3>1, <3>2, <3>4, <3>6, <3>7 DEF Owns
  <2>10. HasData(t, n)
    BY <2>4, <2>5, <2>2 DEF HasData
  <2>11. ASSUME NEW m \in Nodes PROVE Entry(t, m) = Entry(s, m)
    <3>1. CASE m = n
      BY <3>1, <1>2, <2>2, <2>4, <2>5 DEF Entry, HasData
    <3>2. CASE m # n
      <4>1. t.expando[m] = s.expando[m]
        BY <2>2, <2>4, <3>2
      <4>2. HasData(t, m) <=> HasData(s, m)
        BY <4>1, <2>3, <2>8, <2>9, EntryTyped
      <4> QED BY <4>1, <4>2, <2>5 DEF Entry, HasData
    <3> QED BY <3>1, <3>2
  <2> QED BY <2>4, <2>8, <2>9, <2>10, <2>11
<1> QED BY <1>1, <1>2

\* So does a node that gives up its data.
LEMMA DropKeeps ==
  ASSUME NEW H, NEW s \in StoreSet(H), NEW n \in Nodes, Owns(s), HasData(s, n), NEW t, t = Drop(s, n)
  PROVE  /\ t \in StoreSet(H) /\ Owns(t)
         /\ ~HasData(t, n) /\ Entry(t, n) = NewEntry
         /\ \A m \in Nodes \ {n} : Entry(t, m) = Entry(s, m)
         /\ t.listeners = s.listeners /\ t.attaches = s.attaches
<1> DEFINE id == s.expando[n]
<1>1. /\ s.cache \in [DOMAIN s.cache -> EntrySet(H)] /\ DOMAIN s.cache \subseteq Nat \ {0}
      /\ s.expando \in [Nodes -> Nat] /\ s.deletedIds \in Seq(Nat \ {0}) /\ s.guid \in Nat \ {0}
      /\ s.listeners \in [Nodes -> SUBSET (Types(H) \X Nat)] /\ s.attaches \in Int
  BY StoreTyped
<1>2. id \in DOMAIN s.cache /\ id \in Nat \ {0}
  BY <1>1 DEF HasData
<1>3. /\ t.expando = [s.expando EXCEPT ![n] = 0]
      /\ t.guid = s.guid
      /\ t.deletedIds = Append(s.deletedIds, id)
      /\ t.cache = Without(s.cache, id)
      /\ t.listeners = s.listeners /\ t.attaches = s.attaches
      /\ t = [cache |-> t.cache, expando |-> t.expando, deletedIds |-> t.deletedIds, guid |-> t.guid,
              listeners |-> t.listeners, attaches |-> t.attaches]
  BY DEF Drop, StoreSet
<1> HIDE DEF id
<1>4. /\ t.cache \in [DOMAIN t.cache -> EntrySet(H)]
      /\ DOMAIN t.cache = DOMAIN s.cache \ {id}
      /\ \A i \in DOMAIN t.cache : t.cache[i] = s.cache[i]
  <2>1. s.cache \in [DOMAIN s.cache -> EntrySet(H)] /\ t.cache = Without(s.cache, id)
    BY <1>1, <1>3
  <2>2. /\ t.cache \in [DOMAIN s.cache \ {id} -> EntrySet(H)]
        /\ DOMAIN t.cache = DOMAIN s.cache \ {id}
        /\ \A i \in DOMAIN s.cache \ {id} : t.cache[i] = s.cache[i]
    <3> DEFINE f == s.cache
               A == EntrySet(H)
    <3>1. f \in [DOMAIN f -> A]
      BY <2>1
    <3> HIDE DEF f, A
    <3>2. /\ Without(f, id) \in [DOMAIN f \ {id} -> A]
          /\ DOMAIN Without(f, id) = DOMAIN f \ {id}
          /\ \A y \in DOMAIN f \ {id} : Without(f, id)[y] = f[y]
      BY <3>1, WithoutTyped
    <3> QED BY <2>1, <3>2 DEF f, A
  <2> QED BY <2>2
<1>5. /\ t.deletedIds \in Seq(Nat \ {0}) /\ Len(t.deletedIds) = Len(s.deletedIds) + 1
      /\ DOMAIN s.deletedIds = 1 .. Len(s.deletedIds) /\ DOMAIN t.deletedIds = 1 .. Len(s.deletedIds) + 1
      /\ \A i \in 1 .. Len(s.deletedIds) : t.deletedIds[i] = s.deletedIds[i]
      /\ t.deletedIds[Len(s.deletedIds) + 1] = id
      /\ Len(s.deletedIds) \in Nat
  BY <1>1, <1>2, <1>3, AppendProperties, LenProperties
<1>6. t \in StoreSet(H)
  <2>1. t.expando \in [Nodes -> Nat] /\ DOMAIN t.cache \subseteq Nat \ {0}
    BY <1>1, <1>3, <1>4
  <2> QED BY <2>1, <1>1, <1>3, <1>4, <1>5, StoreMade
<1>7. Owns(t)
  <2>1. \A m, k \in Nodes : t.expando[m] # 0 /\ t.expando[m] = t.expando[k] => m = k
    BY <1>1, <1>3 DEF Owns
  <2>2. \A i : i \in DOMAIN t.cache <=> \E m \in Nodes : i = t.expando[m] /\ i # 0
    <3>1. ASSUME NEW i \in DOMAIN t.cache PROVE \E m \in Nodes : i = t.expando[m] /\ i # 0
      <4>1. PICK m \in Nodes : i = s.expando[m] /\ i # 0
        BY <1>4 DEF Owns
      <4>2. m # n
        BY <4>1, <1>4 DEF id
      <4> QED BY <4>1, <4>2, <1>1, <1>3
    <3>2. ASSUME NEW m \in Nodes, t.expando[m] # 0 PROVE t.expando[m] \in DOMAIN t.cache
      <4>1. m # n /\ t.expando[m] = s.expando[m]
        BY <3>2, <1>1, <1>3
      <4>2. s.expando[m] # id
        BY <4>1, <3>2 DEF Owns, id
      <4> QED BY <4>1, <4>2, <1>4, <3>2 DEF Owns
    <3> QED BY <3>1, <3>2
  <2>3. \A i \in DOMAIN t.cache : i < t.guid
    BY <1>3, <1>4 DEF Owns
  <2>4. ASSUME NEW i \in DOMAIN t.deletedIds
        PROVE  t.deletedIds[i] < t.guid /\ t.deletedIds[i] \notin DOMAIN t.cache
    <3>1. CASE i = Len(s.deletedIds) + 1
      BY <3>1, <1>2, <1>3, <1>4, <1>5 DEF Owns
    <3>2. CASE i # Len(s.deletedIds) + 1
      BY <3>2, <1>3, <1>4, <1>5 DEF Owns
    <3> QED BY <3>1, <3>2
  <2>5. ASSUME NEW i \in DOMAIN t.deletedIds, NEW j \in DOMAIN t.deletedIds, t.deletedIds[i] = t.deletedIds[j]
        PROVE  i = j
    <3>1. \A k \in 1 .. Len(s.deletedIds) : t.deletedIds[k] # id
      BY <1>2, <1>5 DEF Owns
    <3>2. i \in 1 .. Len(s.deletedIds) + 1 /\ j \in 1 .. Len(s.deletedIds) + 1
      BY <1>5
    <3>3. CASE i = Len(s.deletedIds) + 1
      BY <2>5, <3>1, <3>2, <3>3, <1>5
    <3>4. CASE i # Len(s.deletedIds) + 1
      <4>1. i \in 1 .. Len(s.deletedIds) /\ t.deletedIds[i] = s.deletedIds[i] /\ t.deletedIds[i] # id
        BY <3>2, <3>4, <3>1, <1>5
      <4>2. j \in 1 .. Len(s.deletedIds) /\ t.deletedIds[j] = s.deletedIds[j]
        BY <4>1, <2>5, <3>2, <1>5
      <4> QED BY <4>1, <4>2, <2>5, <1>5 DEF Owns
    <3> QED BY <3>3, <3>4
  <2> QED BY <2>5, <2>4, <2>3, <2>2, <2>1 DEF Owns
<1>8. ~HasData(t, n) /\ Entry(t, n) = NewEntry
  BY <1>1, <1>3, <1>6, <1>7, EntryTyped
<1>9. ASSUME NEW m \in Nodes, m # n PROVE Entry(t, m) = Entry(s, m)
  <2>1. t.expando[m] = s.expando[m]
    BY <1>1, <1>3, <1>9
  <2>2. HasData(t, m) <=> HasData(s, m)
    BY <2>1, <1>6, <1>7, EntryTyped
  <2> QED BY <2>1, <2>2, <1>4 DEF Entry, HasData
<1> QED BY <1>3, <1>6, <1>7, <1>8, <1>9

----------
(* Handlers that are bound.                                                 *)

\* The stores of the program, when the handlers bound so far are those of H.
Good(H) == {s \in StoreSet(H) : Owns(s) /\ InStep(s) /\ Unique(s)}

\* What the invariants look at.
SameEntries(s, t) ==
  /\ \A m \in Nodes : Entry(t, m) = Entry(s, m)
  /\ t.listeners = s.listeners /\ t.attaches = s.attaches

\* The nodes of the page, and the copy.
LEMMA PageNodes == 1 .. Document \subseteq Nodes /\ Copy \in Nodes /\ Copy \notin 1 .. Document /\ Nodes \ {Copy} = 1 .. Document
BY DocumentAssumption DEF Nodes, Copy

\* A store with the entries and listeners of a good one is good.
LEMMA GoodSame ==
  ASSUME NEW H, NEW s \in Good(H), NEW t \in StoreSet(H), Owns(t), SameEntries(s, t)
  PROVE  t \in Good(H)
<1>1. Owns(s) /\ InStep(s) /\ Unique(s)
  BY DEF Good
<1>2. Focusing(t) = Focusing(s)
  BY DEF Focusing, SameEntries
<1>3. InStep(t)
  BY <1>1, <1>2 DEF InStep, SameEntries
<1>4. Unique(t)
  <2>1. \A m \in 1 .. Document : Entry(t, m) = Entry(s, m)
    BY PageNodes DEF SameEntries
  <2> QED BY <1>1, <2>1 DEF Unique
<1> QED BY <1>3, <1>4 DEF Good

\* internalData keeps a store good, and the entries as they were.
LEMMA InternalDataGood ==
  ASSUME NEW H, NEW s \in Good(H), NEW n \in Nodes
  PROVE  /\ InternalData(s, n) \in Good(H)
         /\ HasData(InternalData(s, n), n)
         /\ SameEntries(s, InternalData(s, n))
<1> DEFINE t == InternalData(s, n)
<1>1. s \in StoreSet(H) /\ Owns(s)
  BY DEF Good
<1>2. /\ t \in StoreSet(H) /\ Owns(t)
      /\ HasData(t, n)
      /\ \A m \in Nodes : Entry(t, m) = Entry(s, m)
      /\ t.listeners = s.listeners /\ t.attaches = s.attaches
  BY <1>1, InternalDataKeeps
<1>3. SameEntries(s, t)
  BY <1>2 DEF SameEntries
<1> HIDE DEF t
<1>4. t \in Good(H)
  BY <1>2, <1>3, GoodSame
<1> QED BY <1>2, <1>3, <1>4 DEF t

\* The parts of an entry that handlers have nothing to do with.
LEMMA WithKeysGood ==
  ASSUME NEW H, NEW s \in Good(H), NEW n \in Nodes, HasData(s, n), NEW ks \in SUBSET Keys
  PROVE  /\ WithEntry(s, n, [Entry(s, n) EXCEPT !.keys = ks]) \in Good(H)
         /\ \A m \in Nodes : HasData(WithEntry(s, n, [Entry(s, n) EXCEPT !.keys = ks]), m) <=> HasData(s, m)
         /\ \A m \in Nodes : Entry(WithEntry(s, n, [Entry(s, n) EXCEPT !.keys = ks]), m).events = Entry(s, m).events
<1> DEFINE e == [Entry(s, n) EXCEPT !.keys = ks]
           t == WithEntry(s, n, e)
<1>1. s \in StoreSet(H) /\ Owns(s) /\ InStep(s) /\ Unique(s)
  BY DEF Good
<1>2. Entry(s, n) \in EntrySet(H)
  BY <1>1, EntryTyped
<1>3. /\ e \in EntrySet(H) /\ e.events = Entry(s, n).events
      /\ e.made = Entry(s, n).made /\ e.handle = Entry(s, n).handle
  BY <1>2 DEF EntrySet
<1> HIDE DEF e
<1>4. /\ t \in StoreSet(H) /\ Owns(t)
      /\ \A m \in Nodes : HasData(t, m) <=> HasData(s, m)
      /\ Entry(t, n) = e
      /\ \A m \in Nodes \ {n} : Entry(t, m) = Entry(s, m)
      /\ t.listeners = s.listeners /\ t.attaches = s.attaches
  BY <1>1, <1>3, WithEntryKeeps
<1> HIDE DEF t
<1>5. \A m \in Nodes : /\ Entry(t, m).events = Entry(s, m).events
                       /\ Entry(t, m).made = Entry(s, m).made
                       /\ Entry(t, m).handle = Entry(s, m).handle
  BY <1>3, <1>4
<1>6. Focusing(t) = Focusing(s)
  BY <1>5 DEF Focusing
<1>7. InStep(t)
  <2>1. \A m \in Nodes : Told(Entry(t, m)) = Told(Entry(s, m)) /\ (EntryOk(Entry(s, m)) => EntryOk(Entry(t, m)))
    BY <1>5 DEF Told, EntryOk
  <2> QED BY <1>1, <1>4, <1>6, <2>1 DEF InStep
<1>8. Unique(t)
  <2>1. \A m \in 1 .. Document : Entry(t, m).events = Entry(s, m).events
    BY <1>5, PageNodes
  <2> QED BY <1>1, <2>1 DEF Unique
<1> QED BY <1>4, <1>5, <1>7, <1>8 DEF Good, t, e

\* So does the end of a node's data once no listener of its own depends on them.
LEMMA DropGood ==
  ASSUME NEW H, NEW s \in Good(H), NEW n \in Nodes, HasData(s, n),
         DOMAIN Entry(s, n).events \subseteq {"focusin"}
  PROVE  /\ Drop(s, n) \in Good(H)
         /\ Entry(Drop(s, n), n) = NewEntry
         /\ \A m \in Nodes \ {n} : Entry(Drop(s, n), m) = Entry(s, m)
<1> DEFINE t == Drop(s, n)
<1>1. s \in StoreSet(H) /\ Owns(s) /\ InStep(s) /\ Unique(s)
  BY DEF Good
<1>2. /\ t \in StoreSet(H) /\ Owns(t)
      /\ Entry(t, n) = NewEntry
      /\ \A m \in Nodes \ {n} : Entry(t, m) = Entry(s, m)
      /\ t.listeners = s.listeners /\ t.attaches = s.attaches
  BY <1>1, DropKeeps
<1> HIDE DEF t
<1>3. /\ EntryOk(NewEntry) /\ Told(NewEntry) = {} /\ DOMAIN NewEntry.events = {}
  BY NewEntryTyped
<1>4. Focusing(t) \subseteq Focusing(s) /\ IsFiniteSet(Focusing(s))
      /\ Cardinality(Focusing(t)) <= Cardinality(Focusing(s))
  <2>1. Focusing(t) \subseteq Focusing(s)
    BY <1>2, <1>3 DEF Focusing
  <2>2. IsFiniteSet(Focusing(s))
    BY NodesFinite, FS_Subset DEF Focusing
  <2> QED BY <2>1, <2>2, FS_Subset
<1>5. Told(Entry(s, n)) = {}
  BY DEF Told
<1>6. InStep(t)
  <2>1. \A m \in Nodes : EntryOk(Entry(t, m)) /\ t.listeners[m] = Told(Entry(t, m))
    BY <1>1, <1>2, <1>3, <1>5 DEF InStep
  <2>2. s.attaches \in Int /\ Cardinality(Focusing(t)) \in Nat /\ Cardinality(Focusing(s)) \in Nat
    BY <1>1, <1>4, StoreTyped, FS_Subset, FS_CardinalityType
  <2> QED BY <1>1, <1>2, <1>4, <2>1, <2>2 DEF InStep
<1>7. Unique(t)
  <2>1. ASSUME NEW m \in 1 .. Document, NEW u \in DOMAIN Entry(t, m).events
        PROVE  m # n /\ Entry(t, m) = Entry(s, m)
    BY <1>2, <1>3, PageNodes
  <2> QED BY <1>1, <2>1 DEF Unique
<1> QED BY <1>2, <1>6, <1>7 DEF Good, t

\* The number of a new listener is one that nobody uses.
LEMMA NewHandleFresh ==
  ASSUME NEW H, NEW s \in Good(H)
  PROVE  NewHandle(s) \in Nat \ {0} /\ NewHandle(s) \notin UsedHandles(s)
<1> DEFINE Used == {Entry(s, n).handle : n \in Nodes}
           N == 2 * Document + 3
<1>1. s \in StoreSet(H) /\ Owns(s) /\ InStep(s)
  BY DEF Good
<1>2. UsedHandles(s) \subseteq Used
  <2>1. ASSUME NEW n \in Nodes, NEW l \in s.listeners[n] PROVE l[2] \in Used
    <3>1. l \in Told(Entry(s, n))
      BY <1>1 DEF InStep
    <3> QED BY <3>1 DEF Told
  <2>2. ASSUME NEW i \in DOMAIN s.cache PROVE s.cache[i].handle \in Used
    <3>1. PICK n \in Nodes : i = s.expando[n]
      BY <1>1 DEF Owns
    <3>2. Entry(s, n) = s.cache[i]
      BY <3>1 DEF Entry, HasData
    <3> QED BY <3>2
  <2>3. ASSUME NEW k \in UsedHandles(s) PROVE k \in Used
    <3>1. CASE \E l \in UNION {s.listeners[n] : n \in Nodes} : k = l[2]
      BY <2>1, <3>1
    <3>2. CASE \E i \in DOMAIN s.cache : k = s.cache[i].handle
      BY <2>2, <3>2
    <3> QED BY <3>1, <3>2 DEF UsedHandles
  <2> QED BY <2>3
<1>3. IsFiniteSet(Used) /\ Cardinality(Used) <= Document + 1
  <2>1. IsFiniteSet(Nodes) /\ Cardinality(Nodes) = Document + 1
    BY NodesFinite
  <2> DEFINE f == [n \in Nodes |-> Entry(s, n).handle]
  <2>2. f \in Surjection(Nodes, Used)
    BY DEF Surjection
  <2>3. IsFiniteSet(Used) /\ Cardinality(Used) <= Cardinality(Nodes)
    <3> HIDE DEF f, Used
    <3> QED BY <2>1, <2>2, FS_Surjection
  <2> QED BY <2>1, <2>3
<1>4. IsFiniteSet(1 .. N) /\ Cardinality(1 .. N) = N /\ N \in Nat
  <2>1. N \in Nat /\ 1 \in Int /\ N \in Int /\ ~(1 > N)
    BY DocumentAssumption
  <2> HIDE DEF N
  <2>2. IsFiniteSet(1 .. N) /\ Cardinality(1 .. N) = N - 1 + 1
    BY <2>1, FS_Interval
  <2> QED BY <2>1, <2>2
<1>5. \E k \in 1 .. N : k \notin Used
  <2>1. SUFFICES ASSUME 1 .. N \subseteq Used PROVE FALSE
    OBVIOUS
  <2>2. Cardinality(1 .. N) <= Cardinality(Used)
    <3> HIDE DEF Used, N
    <3> QED BY <2>1, <1>3, FS_Subset
  <2>3. Cardinality(Used) \in Nat
    BY <1>3, FS_CardinalityType
  <2> HIDE DEF Used
  <2> QED BY <2>2, <2>3, <1>3, <1>4, DocumentAssumption
<1>6. \E k \in 1 .. 2 * Document + 3 : k \notin UsedHandles(s)
  BY <1>2, <1>5
<1>7. NewHandle(s) \in 1 .. 2 * Document + 3 /\ NewHandle(s) \notin UsedHandles(s)
  BY <1>6 DEF NewHandle
<1> QED BY <1>7

\* Handler h joins a list at place p.
Joins(q, h, w, p) ==
  /\ w[p] = h
  /\ \A i \in 1 .. Len(q) + 1 :
       /\ i < p => w[i] = q[i]
       /\ i > p => w[i] = q[i - 1]
\* w is q with h put into it: before the delegates, after the handlers of the node itself.
Joined(S, q, h, w) ==
  /\ w \in Seq(S) /\ Len(w) = Len(q) + 1
  /\ \E p \in 1 .. Len(q) + 1 : Joins(q, h, w, p)

\* The two parts of a list: delegates, and the node's own.
LEMMA PartsOfList ==
  ASSUME NEW S, NEW q \in Seq(S)
  PROVE  /\ DelegateCount(q) \in 0 .. Len(q)
         /\ Delegates(q) \in Seq(S) /\ Len(Delegates(q)) = DelegateCount(q)
         /\ \A i \in 1 .. DelegateCount(q) : Delegates(q)[i] = q[i]
         /\ Own(q) \in Seq(S) /\ Len(Own(q)) = Len(q) - DelegateCount(q)
         /\ \A i \in 1 .. Len(q) - DelegateCount(q) : Own(q)[i] = q[DelegateCount(q) + i]
<1> DEFINE d == DelegateCount(q)
           a == SubSeq(q, 1, d)
           b == SubSeq(q, d + 1, Len(q))
<1>0. Len(q) \in Nat /\ DOMAIN q = 1 .. Len(q) /\ \A i \in 1 .. Len(q) : q[i] \in S
  OBVIOUS
<1>1. d \in 0 .. Len(q)
  <2>1. IsFiniteSet(1 .. Len(q)) /\ Cardinality(1 .. Len(q)) = Len(q)
    <3> DEFINE n == Len(q)
    <3>1. n \in Nat
      BY <1>0
    <3> HIDE DEF n
    <3>2. IsFiniteSet(1 .. n) /\ Cardinality(1 .. n) = IF 1 > n THEN 0 ELSE n - 1 + 1
      BY <3>1, FS_Interval
    <3> QED BY <3>1, <3>2 DEF n
  <2>2. {i \in DOMAIN q : q[i].selector # {}} \in SUBSET (1 .. Len(q))
    BY <1>0
  <2>3. /\ IsFiniteSet({i \in DOMAIN q : q[i].selector # {}})
        /\ Cardinality({i \in DOMAIN q : q[i].selector # {}}) <= Len(q)
    BY <2>1, <2>2, FS_Subset
  <2> QED BY <1>0, <2>3, FS_CardinalityType DEF DelegateCount
<1> HIDE DEF d
<1>2. a \in Seq(S) /\ Len(a) = d /\ \A i \in 1 .. d : a[i] = q[i]
  BY <1>0, <1>1, SubSeqProperties
<1>3. \A i \in d + 1 .. Len(q) : q[i] \in S
  BY <1>0, <1>1
<1>4. d + 1 \in Int /\ Len(q) \in Int
  BY <1>0, <1>1
<1>5. /\ b \in Seq(S) /\ Len(b) = (IF d + 1 <= Len(q) THEN Len(q) - (d + 1) + 1 ELSE 0)
      /\ \A i \in 1 .. Len(q) - (d + 1) + 1 : b[i] = q[(d + 1) + i - 1]
  BY <1>3, <1>4, SubSeqProperties
<1> HIDE DEF a, b
<1>6. ASSUME NEW i \in 1 .. Len(q) - d PROVE b[i] = q[d + i]
  <2>1. i \in 1 .. Len(q) - (d + 1) + 1 /\ (d + 1) + i - 1 = d + i
    BY <1>0, <1>1
  <2> QED BY <1>5, <2>1
<1>7. Len(b) = Len(q) - d
  <2>1. Len(b) = IF d + 1 <= Len(q) THEN Len(q) - (d + 1) + 1 ELSE 0
    BY <1>5
  <2>2. d \in Nat /\ d <= Len(q) /\ Len(q) \in Nat
    BY <1>0, <1>1
  <2> QED BY <2>1, <2>2
<1>8. Delegates(q) = a /\ Own(q) = b
  BY DEF Delegates, Own, a, b, d
<1> QED BY <1>1, <1>2, <1>5, <1>6, <1>7, <1>8 DEF d

\* That is what WithHandler does.
LEMMA WithHandlerIs ==
  ASSUME NEW S, NEW q \in Seq(S), NEW h \in S
  PROVE  Joined(S, q, h, WithHandler(q, h))
<1> USE DEF Joined, Joins
<1> DEFINE d == DelegateCount(q)
           w == WithHandler(q, h)
<1>0. Len(q) \in Nat /\ DOMAIN q = 1 .. Len(q) /\ \A i \in 1 .. Len(q) : q[i] \in S
  OBVIOUS
<1>1. d \in 0 .. Len(q)
  BY PartsOfList
<1>2. CASE h.selector = {}
  <2>1. w = Append(q, h)
    BY <1>2 DEF WithHandler
  <2>2. w \in Seq(S) /\ Len(w) = Len(q) + 1 /\ w[Len(q) + 1] = h /\ \A i \in 1 .. Len(q) : w[i] = q[i]
    BY <2>1, AppendProperties
  <2> HIDE DEF w
  <2>3. Len(q) + 1 \in 1 .. Len(q) + 1
    BY <1>0
  <2>4. \A i \in 1 .. Len(q) + 1 : (i < Len(q) + 1 => w[i] = q[i]) /\ (i > Len(q) + 1 => w[i] = q[i - 1])
    BY <2>2, <1>0
  <2> QED BY <2>2, <2>3, <2>4 DEF w
<1>3. CASE h.selector # {}
  <2> HIDE DEF d
  <2> DEFINE a == SubSeq(q, 1, d)
             b == SubSeq(q, d + 1, Len(q))
             c == <<h>>
  <2>1. w = (a \o c) \o b
    BY <1>3 DEF WithHandler, Delegates, Own, d
  <2>2. /\ a \in Seq(S) /\ Len(a) = d /\ \A i \in 1 .. d : a[i] = q[i]
        /\ b \in Seq(S) /\ Len(b) = Len(q) - d /\ \A i \in 1 .. Len(q) - d : b[i] = q[d + i]
    BY PartsOfList DEF Delegates, Own, d
  <2>3. c \in Seq(S) /\ Len(c) = 1 /\ c[1] = h
    OBVIOUS
  <2> HIDE DEF a, b, c, w
  <2>4. /\ a \o c \in Seq(S) /\ Len(a \o c) = Len(a) + Len(c)
        /\ \A i \in 1 .. Len(a) + Len(c) : (a \o c)[i] = IF i <= Len(a) THEN a[i] ELSE c[i - Len(a)]
    BY <2>2, <2>3, ConcatProperties
  <2> DEFINE ac == a \o c
  <2>5. ac \in Seq(S) /\ Len(ac) = d + 1 /\ ac[d + 1] = h /\ \A i \in 1 .. d : ac[i] = q[i]
    BY <2>2, <2>3, <2>4, <1>1
  <2>6. w = ac \o b
    BY <2>1
  <2> HIDE DEF ac
  <2>7. /\ w \in Seq(S) /\ Len(w) = Len(q) + 1
        /\ \A i \in 1 .. Len(q) + 1 : w[i] = IF i <= d + 1 THEN ac[i] ELSE b[i - (d + 1)]
    <3>1. /\ ac \o b \in Seq(S) /\ Len(ac \o b) = Len(ac) + Len(b)
          /\ \A i \in 1 .. Len(ac) + Len(b) : (ac \o b)[i] = IF i <= Len(ac) THEN ac[i] ELSE b[i - Len(ac)]
      BY <2>2, <2>5, ConcatProperties
    <3>2. Len(ac) + Len(b) = Len(q) + 1 /\ Len(ac) = d + 1
      BY <2>2, <2>5, <1>0, <1>1
    <3> QED BY <2>6, <3>1, <3>2
  <2>8. d + 1 \in 1 .. Len(q) + 1 /\ w[d + 1] = h
    BY <2>5, <2>7, <1>0, <1>1
  <2>9. ASSUME NEW i \in 1 .. Len(q) + 1
        PROVE  (i < d + 1 => w[i] = q[i]) /\ (i > d + 1 => w[i] = q[i - 1])
    <3>1. CASE i < d + 1
      BY <3>1, <2>5, <2>7, <1>0, <1>1
    <3>2. CASE i > d + 1
      <4>1. i - (d + 1) \in 1 .. Len(q) - d /\ d + (i - (d + 1)) = i - 1
        BY <3>2, <1>0, <1>1
      <4>2. b[i - (d + 1)] = q[d + (i - (d + 1))]
        BY <4>1, <2>2
      <4> QED BY <3>2, <4>1, <4>2, <2>7, <1>0, <1>1
    <3> QED BY <3>1, <3>2, <1>0, <1>1
  <2> QED BY <2>7, <2>8, <2>9 DEF w
<1> QED BY <1>2, <1>3

\* The handlers of a type at a node.
LEMMA EntryShape ==
  ASSUME NEW H, NEW e \in EntrySet(H)
  PROVE  /\ e.events \in [DOMAIN e.events -> Seq(H) \ {<<>>}]
         /\ DOMAIN e.events \subseteq Types(H) /\ IsFiniteSet(DOMAIN e.events)
         /\ e.made \in BOOLEAN /\ e.handle \in Nat /\ e.keys \in SUBSET Keys
<1>1. e.events \in EventsSet(H) /\ e.made \in BOOLEAN /\ e.handle \in Nat /\ e.keys \in SUBSET Keys
  BY DEF EntrySet
<1> QED BY <1>1, EventsTyped

\* The handlers that handleObjs finds are those that the entry has for the type.
LEMMA HandlersTyped ==
  ASSUME NEW H, NEW s \in StoreSet(H), Owns(s), NEW n \in Nodes, NEW type
  PROVE  /\ Handlers(s, n, type) \in Seq(H)
         /\ type \in DOMAIN Entry(s, n).events => Handlers(s, n, type) = Entry(s, n).events[type] /\ Handlers(s, n, type) # <<>>
         /\ type \notin DOMAIN Entry(s, n).events => Handlers(s, n, type) = <<>>
<1>1. Entry(s, n) \in EntrySet(H)
  BY EntryTyped
<1>2. Entry(s, n).events \in [DOMAIN Entry(s, n).events -> Seq(H) \ {<<>>}]
  BY <1>1, EntryShape
<1> QED BY <1>2 DEF Handlers

\* The handlers of one type in an entry are others.
EventsChanged(e, type, q, k, d) ==
  d = [e EXCEPT !.made = TRUE, !.handle = k, !.events = With(@, type, q)]

\* d is the entry e whose handlers for the type are q and whose keys are k.
EventsAre(e, type, q, k, d) ==
  /\ d.made = TRUE /\ d.handle = k
  /\ DOMAIN d.events = DOMAIN e.events \cup {type}
  /\ d.events[type] = q
  /\ \A t \in DOMAIN e.events \ {type} : d.events[t] = e.events[t]

\* What an event of a type becomes in an entry, and the rest of it.
LEMMA WithEventsTyped ==
  ASSUME NEW H, NEW e \in EntrySet(H), NEW type \in Types(H), NEW q \in Seq(H), q # <<>>,
         NEW k \in Nat, NEW d, EventsChanged(e, type, q, k, d)
  PROVE  d \in EntrySet(H) /\ EventsAre(e, type, q, k, d)
<1> USE DEF EventsChanged, EventsAre
<1> DEFINE f == e.events
           g == With(f, type, q)
           A == Seq(H) \ {<<>>}
<1>1. f \in [DOMAIN f -> A] /\ DOMAIN f \subseteq Types(H) /\ IsFiniteSet(DOMAIN f)
  BY EntryShape
<1>2. q \in A
  OBVIOUS
<1> HIDE DEF f, A
<1>3. /\ g \in [DOMAIN f \cup {type} -> A]
      /\ DOMAIN g = DOMAIN f \cup {type}
      /\ g[type] = q
      /\ \A y \in DOMAIN f \ {type} : g[y] = f[y]
  BY <1>1, <1>2 DEF With
<1>4. IsFiniteSet(DOMAIN g) /\ DOMAIN g \subseteq Types(H)
  BY <1>1, <1>3, FS_AddElement
<1> HIDE DEF g
<1>5. g \in EventsSet(H)
  BY <1>3, <1>4, EventsTyped DEF A
<1>6. d.made = TRUE /\ d.handle = k /\ d.events = g /\ d.keys = e.keys
  BY DEF EntrySet, g, f
<1>7. d \in EntrySet(H)
  BY <1>5 DEF EntrySet, g, f
<1> QED BY <1>3, <1>6, <1>7 DEF f

\* Handler h is kept at node m.
Keeps(s, m, h) ==
  \E t \in DOMAIN Entry(s, m).events : \E i \in DOMAIN Entry(s, m).events[t] : Entry(s, m).events[t][i] = h

\* No handler comes to a node of the page.
NoNew(s, t) == \A m \in 1 .. Document : \A h : Keeps(t, m, h) => Keeps(s, m, h)

\* The same within one entry.
UniqueIn(e) ==
  \A t, u \in DOMAIN e.events : \A i \in DOMAIN e.events[t], j \in DOMAIN e.events[u] :
    e.events[t][i].hid = e.events[u][j].hid => t = u /\ i = j

\* A store with other listeners.
ListenerChanged(s, n, L, t) == t = [s EXCEPT !.listeners[n] = L]
\* t is s but for the count of focusin handlers.
AttachesChanged(s, a, t) == t = [s EXCEPT !.attaches = a]

\* A listener attached or detached changes no entry.
LEMMA ListenerKeeps ==
  ASSUME NEW H, NEW s \in StoreSet(H), Owns(s), NEW n \in Nodes, NEW t,
         NEW L \in SUBSET (Types(H) \X Nat), ListenerChanged(s, n, L, t)
  PROVE  /\ t \in StoreSet(H) /\ Owns(t)
         /\ \A m \in Nodes : Entry(t, m) = Entry(s, m) /\ (HasData(t, m) <=> HasData(s, m))
         /\ t.listeners[n] = L /\ \A m \in Nodes \ {n} : t.listeners[m] = s.listeners[m]
         /\ t.attaches = s.attaches
<1>1. /\ t.cache = s.cache /\ t.expando = s.expando /\ t.deletedIds = s.deletedIds /\ t.guid = s.guid
      /\ t.listeners = [s.listeners EXCEPT ![n] = L] /\ t.attaches = s.attaches
  BY DEF StoreSet, ListenerChanged
<1>2. t \in StoreSet(H)
  BY DEF StoreSet, ListenerChanged
<1>3. s.listeners \in [Nodes -> SUBSET (Types(H) \X Nat)]
  BY StoreTyped
<1>4. Owns(t)
  BY <1>1 DEF Owns
<1>5. \A m \in Nodes : Entry(t, m) = Entry(s, m) /\ (HasData(t, m) <=> HasData(s, m))
  BY <1>1 DEF Entry, HasData
<1> QED BY <1>1, <1>2, <1>3, <1>4, <1>5

\* Nor does the count of focusin handlers.
LEMMA AttachesKeep ==
  ASSUME NEW H, NEW s \in StoreSet(H), Owns(s), NEW t, NEW a \in Int, AttachesChanged(s, a, t)
  PROVE  /\ t \in StoreSet(H) /\ Owns(t)
         /\ \A m \in Nodes : Entry(t, m) = Entry(s, m) /\ (HasData(t, m) <=> HasData(s, m))
         /\ t.listeners = s.listeners /\ t.attaches = a
<1>1. /\ t.cache = s.cache /\ t.expando = s.expando /\ t.deletedIds = s.deletedIds /\ t.guid = s.guid
      /\ t.listeners = s.listeners /\ t.attaches = a
  BY DEF StoreSet, AttachesChanged
<1>2. t \in StoreSet(H)
  BY DEF StoreSet, AttachesChanged
<1>4. Owns(t)
  BY <1>1 DEF Owns
<1>5. \A m \in Nodes : Entry(t, m) = Entry(s, m) /\ (HasData(t, m) <=> HasData(s, m))
  BY <1>1 DEF Entry, HasData
<1> QED BY <1>1, <1>2, <1>4, <1>5

\* One node's handlers and listener changed.
LEMMA GoodWith ==
  ASSUME NEW H, NEW s \in Good(H), NEW n \in Nodes, NEW t \in StoreSet(H), Owns(t),
         \A m \in Nodes \ {n} : Entry(t, m) = Entry(s, m) /\ t.listeners[m] = s.listeners[m],
         EntryOk(Entry(t, n)), t.listeners[n] = Told(Entry(t, n)),
         t.attaches >= Cardinality(Focusing(t)),
         n # Copy =>
           /\ UniqueIn(Entry(t, n))
           /\ \A h : Keeps(t, n, h) => \A m \in 1 .. Document \ {n} : \A g : Keeps(s, m, g) => g.hid # h.hid
  PROVE  t \in Good(H)
<1>1. Owns(s) /\ InStep(s) /\ Unique(s)
  BY DEF Good
<1>2. InStep(t)
  BY <1>1 DEF InStep
<1>3. ASSUME NEW m \in 1 .. Document, NEW k \in 1 .. Document,
             NEW x \in DOMAIN Entry(t, m).events, NEW y \in DOMAIN Entry(t, k).events,
             NEW i \in DOMAIN Entry(t, m).events[x], NEW j \in DOMAIN Entry(t, k).events[y],
             Entry(t, m).events[x][i].hid = Entry(t, k).events[y][j].hid
      PROVE  m = k /\ x = y /\ i = j
  <2>0. m \in Nodes /\ k \in Nodes /\ m # Copy /\ k # Copy
    BY PageNodes
  <2>1. CASE m # n /\ k # n
    <3>1. Entry(t, m) = Entry(s, m) /\ Entry(t, k) = Entry(s, k)
      BY <2>0, <2>1
    <3> QED BY <1>1, <1>3, <3>1 DEF Unique
  <2>2. CASE m = n /\ k = n
    BY <2>0, <2>2, <1>3 DEF UniqueIn
  <2>3. CASE m = n /\ k # n
    <3>1. Entry(t, k) = Entry(s, k)
      BY <2>0, <2>3
    <3>2. Keeps(s, k, Entry(t, k).events[y][j]) /\ Keeps(t, n, Entry(t, m).events[x][i])
      BY <3>1, <2>3 DEF Keeps
    <3> QED BY <2>0, <2>3, <3>2, <1>3
  <2>4. CASE m # n /\ k = n
    <3>1. Entry(t, m) = Entry(s, m)
      BY <2>0, <2>4
    <3>2. Keeps(s, m, Entry(t, m).events[x][i]) /\ Keeps(t, n, Entry(t, k).events[y][j])
      BY <3>1, <2>4 DEF Keeps
    <3> QED BY <2>0, <2>4, <3>2, <1>3
  <2> QED BY <2>4, <2>3, <2>2, <2>1
<1>4. Unique(t)
  BY <1>3 DEF Unique
<1> QED BY <1>2, <1>4 DEF Good

\* In a good store no handler is kept twice on a node, nor on two nodes of the page.
LEMMA GoodUniqueIn ==
  ASSUME NEW H, NEW s \in Good(H), NEW n \in 1 .. Document
  PROVE  /\ UniqueIn(Entry(s, n))
         /\ \A h : Keeps(s, n, h) => \A m \in 1 .. Document \ {n} : \A g : Keeps(s, m, g) => g.hid # h.hid
<1>1. Unique(s)
  BY DEF Good
<1> QED BY <1>1 DEF Unique, UniqueIn, Keeps

\* The handlers of an entry after one more.
LEMMA WithHandlerUnique ==
  ASSUME NEW H, NEW e \in EntrySet(H), NEW d \in EntrySet(H), UniqueIn(e), NEW type, NEW h,
         NEW q \in Seq(H), h \in H,
         type \in DOMAIN e.events => q = e.events[type],
         type \notin DOMAIN e.events => q = <<>>,
         DOMAIN d.events = DOMAIN e.events \cup {type},
         d.events[type] = WithHandler(q, h),
         \A t \in DOMAIN e.events \ {type} : d.events[t] = e.events[t],
         \A t \in DOMAIN e.events : \A i \in DOMAIN e.events[t] : e.events[t][i].hid # h.hid
  PROVE  UniqueIn(d)
<1> DEFINE w == WithHandler(q, h)
<1>0. Joined(H, q, h, w)
  BY WithHandlerIs
<1>1. /\ w \in Seq(H) /\ Len(w) = Len(q) + 1
      /\ \E p \in 1 .. Len(q) + 1 :
              /\ w[p] = h
              /\ \A i \in 1 .. Len(q) + 1 :
                   /\ i < p => w[i] = q[i]
                   /\ i > p => w[i] = q[i - 1]
  <2> HIDE DEF w
  <2> QED BY <1>0 DEF Joined, Joins
<1> HIDE DEF w
<1>2. PICK p \in 1 .. Len(q) + 1 :
              /\ w[p] = h
              /\ \A i \in 1 .. Len(q) + 1 :
                   /\ i < p => w[i] = q[i]
                   /\ i > p => w[i] = q[i - 1]
  BY <1>1
<1>3. Len(q) \in Nat /\ DOMAIN w = 1 .. Len(q) + 1 /\ DOMAIN q = 1 .. Len(q)
  BY <1>1
<1> DEFINE old(i) == IF i < p THEN i ELSE i - 1
<1>4. ASSUME NEW i \in 1 .. Len(q) + 1, i # p
      PROVE  w[i] = q[old(i)] /\ old(i) \in DOMAIN q /\ type \in DOMAIN e.events
  <2>1. CASE i < p
    BY <2>1, <1>2, <1>3
  <2>2. CASE i > p
    BY <2>2, <1>2, <1>3
  <2> QED BY <2>1, <2>2, <1>4, <1>3
<1>5. d.events[type] = w
  BY DEF w
<1>6. ASSUME NEW t \in DOMAIN d.events, NEW u \in DOMAIN d.events,
             NEW i \in DOMAIN d.events[t], NEW j \in DOMAIN d.events[u],
             d.events[t][i].hid = d.events[u][j].hid
      PROVE  t = u /\ i = j
  <2>1. CASE t # type /\ u # type
    BY <2>1, <1>6 DEF UniqueIn
  <2>2. CASE t = type /\ u = type
    <3>1. i \in 1 .. Len(q) + 1 /\ j \in 1 .. Len(q) + 1 /\ w[i].hid = w[j].hid
      BY <2>2, <1>3, <1>5, <1>6
    <3>2. CASE i = p \/ j = p
      <4>1. \A k \in 1 .. Len(q) + 1 : k # p => w[k].hid # h.hid
        BY <1>4
      <4> QED BY <2>2, <3>1, <3>2, <1>2, <4>1
    <3>3. CASE i # p /\ j # p
      <4>1. q[old(i)].hid = q[old(j)].hid /\ old(i) \in DOMAIN q /\ old(j) \in DOMAIN q /\ type \in DOMAIN e.events
        BY <3>1, <3>3, <1>4
      <4>2. old(i) = old(j)
        <5> HIDE DEF old
        <5> QED BY <4>1 DEF UniqueIn
      <4> QED BY <2>2, <3>1, <3>3, <4>2, <1>3
    <3> QED BY <2>2, <3>2, <3>3
  <2>3. CASE t = type /\ u # type
    <3>1. i \in 1 .. Len(q) + 1 /\ w[i].hid = e.events[u][j].hid /\ u \in DOMAIN e.events /\ j \in DOMAIN e.events[u]
      BY <2>3, <1>3, <1>5, <1>6
    <3>2. i # p
      BY <3>1, <1>2
    <3>3. q[old(i)].hid = e.events[u][j].hid /\ old(i) \in DOMAIN q /\ type \in DOMAIN e.events
      BY <3>1, <3>2, <1>4
    <3> HIDE DEF old
    <3> QED BY <2>3, <3>1, <3>3 DEF UniqueIn
  <2>4. CASE t # type /\ u = type
    <3>1. j \in 1 .. Len(q) + 1 /\ w[j].hid = e.events[t][i].hid /\ t \in DOMAIN e.events /\ i \in DOMAIN e.events[t]
      BY <2>4, <1>3, <1>5, <1>6
    <3>2. j # p
      BY <3>1, <1>2
    <3>3. q[old(j)].hid = e.events[t][i].hid /\ old(j) \in DOMAIN q /\ type \in DOMAIN e.events
      BY <3>1, <3>2, <1>4
    <3> HIDE DEF old
    <3> QED BY <2>4, <3>1, <3>3 DEF UniqueIn
  <2> QED BY <2>4, <2>3, <2>2, <2>1
<1> QED BY <1>6 DEF UniqueIn

\* event.add keeps the store in order, and adds nothing but the handler.
LEMMA AddHandlerGood ==
  ASSUME NEW H, NEW s \in Good(H), NEW n \in Nodes, NEW h \in H, NEW r, r = AddHandler(s, n, h),
         n # Copy => \A m \in 1 .. Document : \A g : Keeps(s, m, g) => g.hid # h.hid
  PROVE  /\ r \in Good(H)
         /\ \A m \in 1 .. Document : \A g : Keeps(r, m, g) => Keeps(s, m, g) \/ (m = n /\ g = h)
         /\ \A m \in Nodes \ {n} : Entry(r, m) = Entry(s, m)
<1> DEFINE t == InternalData(s, n)
           type == KeptType(h.type, h.selector)
           e == Entry(t, n)
           q == Handlers(t, n, type)
           w == WithHandler(q, h)
           k == IF e.handle = 0 THEN NewHandle(t) ELSE e.handle
           d == [e EXCEPT !.made = TRUE, !.handle = k, !.events = With(@, type, w)]
           u == WithEntry(t, n, d)
<1>1. t \in Good(H) /\ HasData(t, n) /\ SameEntries(s, t)
  BY InternalDataGood
<1>2. r = IF type \in DOMAIN e.events THEN u ELSE Listen(u, n, type)
  BY DEF AddHandler
<1>3. type \in Types(H) /\ type \in {h.type, "focusin"}
  <2>1. h.type \in Types(H) /\ "focusin" \in Types(H)
    BY DEF Types
  <2> HIDE DEF t, e, q, w, k, d, u
  <2>2. type = "focusin" \/ type = h.type
    BY DEF KeptType
  <2> QED BY <2>1, <2>2
<1> HIDE DEF t, type
<1>4. t \in StoreSet(H) /\ Owns(t) /\ InStep(t) /\ Unique(t)
  BY <1>1 DEF Good
<1>5. e \in EntrySet(H)
  BY <1>4, EntryTyped
<1>6. /\ q \in Seq(H)
      /\ type \in DOMAIN e.events => q = e.events[type]
      /\ type \notin DOMAIN e.events => q = <<>>
  BY <1>4, HandlersTyped
<1>7. k \in Nat \ {0}
  <2>1. e.handle \in Nat
    BY <1>5, EntryShape
  <2> QED BY <2>1, <1>1, NewHandleFresh
<1> HIDE DEF e, q, k
<1>8. /\ w \in Seq(H) /\ Len(w) = Len(q) + 1
      /\ \A i \in DOMAIN w : w[i] = h \/ \E j \in DOMAIN q : w[i] = q[j]
  <2>0. Joined(H, q, h, w)
    <3> HIDE DEF d, u
    <3> QED BY <1>6, WithHandlerIs
  <2>1. /\ w \in Seq(H) /\ Len(w) = Len(q) + 1
        /\ \E p \in 1 .. Len(q) + 1 :
              /\ w[p] = h
              /\ \A i \in 1 .. Len(q) + 1 :
                   /\ i < p => w[i] = q[i]
                   /\ i > p => w[i] = q[i - 1]
    <3> HIDE DEF w
    <3> QED BY <2>0 DEF Joined, Joins
  <2> HIDE DEF w
  <2>2. PICK p \in 1 .. Len(q) + 1 :
              /\ w[p] = h
              /\ \A i \in 1 .. Len(q) + 1 :
                   /\ i < p => w[i] = q[i]
                   /\ i > p => w[i] = q[i - 1]
    BY <2>1
  <2>3. DOMAIN w = 1 .. Len(q) + 1 /\ DOMAIN q = 1 .. Len(q) /\ Len(q) \in Nat
    BY <2>1, <1>6
  <2>4. ASSUME NEW i \in DOMAIN w PROVE w[i] = h \/ \E j \in DOMAIN q : w[i] = q[j]
    <3>1. CASE i < p
      BY <3>1, <2>2, <2>3
    <3>2. CASE i > p
      <4>1. i - 1 \in DOMAIN q /\ w[i] = q[i - 1]
        BY <3>2, <2>2, <2>3
      <4> QED BY <4>1
    <3>3. CASE i = p
      BY <3>3, <2>2
    <3> QED BY <3>1, <3>2, <3>3, <2>3
  <2> QED BY <2>1, <2>4
<1>9. w # <<>>
  <2> HIDE DEF w
  <2> QED BY <1>8, <1>6
<1>10. /\ d \in EntrySet(H)
       /\ d.made = TRUE /\ d.handle = k
       /\ DOMAIN d.events = DOMAIN e.events \cup {type}
       /\ d.events[type] = w
       /\ \A x \in DOMAIN e.events \ {type} : d.events[x] = e.events[x]
  <2>1. EventsChanged(e, type, w, k, d)
    BY DEF EventsChanged
  <2> HIDE DEF d, w
  <2>2. k \in Nat /\ type \in Types(H) /\ e \in EntrySet(H) /\ w \in Seq(H) /\ w # <<>>
    BY <1>3, <1>5, <1>7, <1>8, <1>9
  <2> HIDE DEF u
  <2>3. d \in EntrySet(H) /\ EventsAre(e, type, w, k, d)
    BY <2>1, <2>2, WithEventsTyped
  <2> QED BY <2>3 DEF EventsAre
<1> HIDE DEF d
<1>11. /\ u \in StoreSet(H) /\ Owns(u)
       /\ \A m \in Nodes : HasData(u, m) <=> HasData(t, m)
       /\ Entry(u, n) = d
       /\ \A m \in Nodes \ {n} : Entry(u, m) = Entry(t, m)
       /\ u.listeners = t.listeners /\ u.attaches = t.attaches
  BY <1>1, <1>4, <1>10, WithEntryKeeps
<1> HIDE DEF u, w
<1>12. EntryOk(e)
  BY <1>4 DEF InStep, e
<1>13. EntryOk(d)
  <2>1. ASSUME NEW x \in DOMAIN d.events, NEW i \in DOMAIN d.events[x]
        PROVE  KeptType(d.events[x][i].type, d.events[x][i].selector) = x
    <3>1. CASE x # type
      BY <3>1, <2>1, <1>10, <1>12 DEF EntryOk
    <3>2. CASE x = type
      <4>1. d.events[x] = w
        BY <3>2, <1>10
      <4>2. CASE d.events[x][i] = h
        BY <4>2, <3>2 DEF type
      <4>3. CASE \E j \in DOMAIN q : w[i] = q[j]
        <5>1. PICK j \in DOMAIN q : w[i] = q[j]
          BY <4>3
        <5>2. type \in DOMAIN e.events /\ q = e.events[type]
          BY <5>1, <1>6
        <5> QED BY <5>1, <5>2, <4>1, <3>2, <1>12 DEF EntryOk
      <4> QED BY <4>1, <4>2, <4>3, <1>8
    <3> QED BY <3>1, <3>2
  <2> QED BY <2>1, <1>7, <1>10 DEF EntryOk
<1>14. /\ Told(d) = Told(e) \cup (IF type \in DOMAIN e.events \cup {"focusin"} THEN {} ELSE {<<type, k>>})
       /\ type \in DOMAIN e.events => Told(d) = Told(e)
  <2>1. DOMAIN e.events # {} => k = e.handle
    BY <1>12 DEF EntryOk, k
  <2> QED BY <2>1, <1>10 DEF Told
<1>15. /\ r \in StoreSet(H) /\ Owns(r)
       /\ \A m \in Nodes : Entry(r, m) = Entry(u, m)
       /\ r.listeners[n] = Told(d)
       /\ \A m \in Nodes \ {n} : r.listeners[m] = s.listeners[m]
       /\ r.attaches = IF type = "focusin" /\ type \notin DOMAIN e.events THEN s.attaches + 1 ELSE s.attaches
  <2>0. /\ u.listeners[n] = Told(e) /\ u.listeners = s.listeners /\ u.attaches = s.attaches /\ s.attaches \in Int
        /\ u.listeners \in [Nodes -> SUBSET (Types(H) \X Nat)]
    BY <1>1, <1>4, <1>11, StoreTyped DEF InStep, SameEntries, e
  <2>1. CASE type \in DOMAIN e.events
    BY <2>0, <2>1, <1>2, <1>11, <1>14
  <2>2. CASE type \notin DOMAIN e.events /\ type = "focusin"
    <3>1. AttachesChanged(u, s.attaches + 1, r)
      BY <2>0, <2>2, <1>2 DEF Listen, Attaches, AttachesChanged
    <3>2. s.attaches + 1 \in Int
      BY <2>0
    <3>3. /\ r \in StoreSet(H) /\ Owns(r)
          /\ \A m \in Nodes : Entry(r, m) = Entry(u, m) /\ (HasData(r, m) <=> HasData(u, m))
          /\ r.listeners = u.listeners /\ r.attaches = s.attaches + 1
      BY <3>1, <3>2, <1>11, AttachesKeep
    <3> QED BY <2>0, <2>2, <3>3, <1>14
  <2>3. CASE type \notin DOMAIN e.events /\ type # "focusin"
    <3> DEFINE L == u.listeners[n] \cup {<<type, k>>}
    <3>1. ListenerChanged(u, n, L, r)
      BY <2>3, <1>2, <1>10, <1>11 DEF Listen, ListenerChanged
    <3>2. u.attaches \in Int /\ L \in SUBSET (Types(H) \X Nat)
      BY <2>0, <1>3, <1>7
    <3>3. L = Told(d)
      BY <2>0, <2>3, <1>14
    <3> HIDE DEF L
    <3>4. /\ r \in StoreSet(H) /\ Owns(r)
          /\ \A m \in Nodes : Entry(r, m) = Entry(u, m) /\ (HasData(r, m) <=> HasData(u, m))
          /\ r.listeners[n] = L /\ \A m \in Nodes \ {n} : r.listeners[m] = u.listeners[m]
          /\ r.attaches = u.attaches
      BY <3>1, <3>2, <1>11, ListenerKeeps
    <3> QED BY <2>0, <2>3, <3>3, <3>4
  <2> QED BY <2>1, <2>2, <2>3
<1>16. /\ Entry(r, n) = d /\ Entry(s, n) = e
       /\ \A m \in Nodes \ {n} : Entry(r, m) = Entry(s, m)
  BY <1>1, <1>11, <1>15 DEF SameEntries, e
<1>17. r.attaches >= Cardinality(Focusing(r))
  <2>1. /\ IsFiniteSet(Focusing(s)) /\ Cardinality(Focusing(s)) \in Nat /\ s.attaches \in Int
        /\ s.attaches >= Cardinality(Focusing(s))
    <3>1. IsFiniteSet(Focusing(s))
      BY NodesFinite, FS_Subset DEF Focusing
    <3> QED BY <3>1, FS_CardinalityType, StoreTyped DEF Good, InStep
  <2>2. Focusing(r) = IF type = "focusin" THEN Focusing(s) \cup {n} ELSE Focusing(s)
    BY <1>10, <1>16 DEF Focusing
  <2>3. type = "focusin" /\ type \in DOMAIN e.events => Focusing(r) = Focusing(s)
    BY <2>2, <1>16 DEF Focusing
  <2>4. Cardinality(Focusing(s) \cup {n}) <= Cardinality(Focusing(s)) + 1
    <3> DEFINE F == Focusing(s)
    <3>1. IsFiniteSet(F) /\ Cardinality(F) \in Nat
      BY <2>1
    <3> HIDE DEF F
    <3>2. Cardinality(F \cup {n}) = IF n \in F THEN Cardinality(F) ELSE Cardinality(F) + 1
      BY <3>1, FS_AddElement
    <3> QED BY <3>1, <3>2 DEF F
  <2>5. Cardinality(Focusing(s) \cup {n}) \in Nat
    BY <2>1, FS_AddElement, FS_CardinalityType
  <2>6. CASE type = "focusin" /\ type \notin DOMAIN e.events
    BY <2>1, <2>2, <2>4, <2>5, <2>6, <1>15
  <2>7. CASE ~(type = "focusin" /\ type \notin DOMAIN e.events)
    BY <1>15, <2>7, <2>3, <2>2, <2>1
  <2> QED BY <2>6, <2>7
<1>18. ASSUME NEW g, Keeps(r, n, g)
       PROVE  Keeps(s, n, g) \/ g = h
  <2>1. PICK x \in DOMAIN d.events : \E i \in DOMAIN d.events[x] : d.events[x][i] = g
    BY <1>16, <1>18 DEF Keeps
  <2>2. PICK i \in DOMAIN d.events[x] : d.events[x][i] = g
    BY <2>1
  <2>3. CASE x # type
    <3>1. x \in DOMAIN e.events /\ e.events[x] = d.events[x]
      BY <2>3, <1>10
    <3> QED BY <3>1, <2>2, <1>16 DEF Keeps
  <2>4. CASE x = type
    <3>1. d.events[x] = w
      BY <2>4, <1>10
    <3>2. CASE \E j \in DOMAIN q : w[i] = q[j]
      <4>1. PICK j \in DOMAIN q : w[i] = q[j]
        BY <3>2
      <4>2. type \in DOMAIN e.events /\ q = e.events[type]
        BY <4>1, <1>6
      <4> QED BY <4>1, <4>2, <3>1, <2>2, <1>16 DEF Keeps
    <3> QED BY <3>1, <3>2, <2>2, <1>8
  <2> QED BY <2>3, <2>4
<1>19. ASSUME NEW m \in 1 .. Document, NEW g, Keeps(r, m, g)
       PROVE  Keeps(s, m, g) \/ (m = n /\ g = h)
  <2>1. CASE m = n
    BY <2>1, <1>18, <1>19
  <2>2. CASE m # n
    BY <2>2, <1>16, <1>19, PageNodes DEF Keeps
  <2> QED BY <2>1, <2>2
<1>20. ASSUME n # Copy
       PROVE  /\ UniqueIn(d)
              /\ \A f : Keeps(r, n, f) => \A m \in 1 .. Document \ {n} : \A g : Keeps(s, m, g) => g.hid # f.hid
  <2>1. n \in 1 .. Document
    BY <1>20, PageNodes
  <2>2. /\ UniqueIn(e)
        /\ \A f : Keeps(s, n, f) => \A m \in 1 .. Document \ {n} : \A g : Keeps(s, m, g) => g.hid # f.hid
    BY <2>1, <1>16, GoodUniqueIn
  <2>3. \A x \in DOMAIN e.events : \A i \in DOMAIN e.events[x] : e.events[x][i].hid # h.hid
    BY <2>1, <1>16, <1>20 DEF Keeps
  <2>4. UniqueIn(d)
    BY <2>2, <2>3, <1>5, <1>6, <1>10, WithHandlerUnique DEF w
  <2>5. ASSUME NEW f, Keeps(r, n, f), NEW m \in 1 .. Document \ {n}, NEW g, Keeps(s, m, g)
        PROVE  g.hid # f.hid
    BY <2>2, <2>5, <1>18, <1>20
  <2> QED BY <2>4, <2>5
<1>21. r \in Good(H)
  BY <1>13, <1>15, <1>16, <1>17, <1>20, GoodWith
<1> QED BY <1>16, <1>19, <1>21

----------
(* Handlers that are unbound.                                               *)

\* The handlers of two stores are the same.
SameEvents(s, t) ==
  \A m \in Nodes : /\ DOMAIN Entry(t, m).events = DOMAIN Entry(s, m).events
                   /\ \A y \in DOMAIN Entry(s, m).events : Entry(t, m).events[y] = Entry(s, m).events[y]

\* List k is left of q: place i was place g[i].
ThinnedBy(q, k, g) ==
  /\ g \in [DOMAIN k -> DOMAIN q]
  /\ \A i \in DOMAIN k : k[i] = q[g[i]]
  /\ \A i, j \in DOMAIN k : g[i] = g[j] => i = j

\* What NotMeant leaves is part of the list, in its order, and not meant.
LEMMA NotMeantLeft ==
  ASSUME NEW S, NEW q \in Seq(S), NEW off, NEW mapped
  PROVE  /\ NotMeant(q, off, mapped) \in Seq(S)
         /\ \E g : ThinnedBy(q, NotMeant(q, off, mapped), g)
         /\ \A i \in DOMAIN NotMeant(q, off, mapped) : ~Means(off, mapped, NotMeant(q, off, mapped)[i])
<1> DEFINE n == Len(q)
<1>0. n \in Nat /\ DOMAIN q = 1 .. n /\ \A i \in 1 .. n : q[i] \in S
  OBVIOUS
<1>a. PICK f \in [0 .. Len(q) -> Seq(S)] : LeftAfter(q, off, mapped, f)
  BY NotMeantSteps
<1>1. /\ f \in [0 .. n -> Seq(S)]
      /\ f[0] = <<>>
      /\ \A k \in 1 .. n : f[k] = IF Means(off, mapped, q[k]) THEN f[k - 1] ELSE Append(f[k - 1], q[k])
      /\ NotMeant(q, off, mapped) = f[n]
  BY <1>a DEF LeftAfter
<1> HIDE DEF n
<1> DEFINE Left(k, g) ==
             /\ g \in [DOMAIN f[k] -> 1 .. k]
             /\ \A i \in DOMAIN f[k] : f[k][i] = q[g[i]] /\ ~Means(off, mapped, f[k][i])
             /\ \A i, j \in DOMAIN f[k] : g[i] = g[j] => i = j
           G == {k \in 0 .. n : \E g : Left(k, g)}
<1>2. 0 \in G
  <2>1. Left(0, <<>>)
    BY <1>1
  <2> HIDE DEF Left
  <2> QED BY <2>1, <1>0
<1>3. ASSUME NEW k \in 1 .. n, k - 1 \in G PROVE k \in G
  <2>0. k \in 0 .. n /\ k - 1 \in 0 .. n /\ k \in Nat
    BY <1>0
  <2>1. PICK g : Left(k - 1, g)
    BY <1>3
  <2>2. CASE Means(off, mapped, q[k])
    <3>1. f[k] = f[k - 1]
      BY <1>1, <2>2
    <3>2. g \in [DOMAIN f[k] -> 1 .. k]
      <4>1. \A i \in DOMAIN f[k] : g[i] \in 1 .. k
        BY <2>0, <2>1, <3>1
      <4> QED BY <4>1, <2>1, <3>1
    <3>3. Left(k, g)
      BY <2>1, <3>1, <3>2
    <3> HIDE DEF Left
    <3> QED BY <2>0, <3>3
  <2>3. CASE ~Means(off, mapped, q[k])
    <3> DEFINE p == f[k - 1]
               h == [i \in 1 .. Len(p) + 1 |-> IF i <= Len(p) THEN g[i] ELSE k]
    <3>1. f[k] = Append(p, q[k]) /\ p \in Seq(S) /\ q[k] \in S
      BY <1>0, <1>1, <2>0, <2>3
    <3> HIDE DEF p
    <3>2. /\ Len(p) \in Nat /\ DOMAIN p = 1 .. Len(p) /\ DOMAIN f[k] = 1 .. Len(p) + 1
          /\ \A i \in 1 .. Len(p) : f[k][i] = p[i]
          /\ f[k][Len(p) + 1] = q[k]
      BY <3>1, AppendProperties, LenProperties
    <3>3. /\ \A i \in 1 .. Len(p) : g[i] \in 1 .. k - 1 /\ p[i] = q[g[i]] /\ ~Means(off, mapped, p[i])
          /\ \A i, j \in 1 .. Len(p) : g[i] = g[j] => i = j
      BY <2>1, <3>2 DEF p
    <3>4. \A i \in 1 .. Len(p) + 1 : h[i] = IF i <= Len(p) THEN g[i] ELSE k
      OBVIOUS
    <3>5. h \in [DOMAIN f[k] -> 1 .. k]
      <4>1. \A i \in 1 .. Len(p) + 1 : h[i] \in 1 .. k
        BY <3>2, <3>3, <3>4, <2>0
      <4> QED BY <3>2, <4>1
    <3> HIDE DEF h
    <3>6. \A i \in DOMAIN f[k] : f[k][i] = q[h[i]] /\ ~Means(off, mapped, f[k][i])
      <4>1. ASSUME NEW i \in 1 .. Len(p) + 1 PROVE f[k][i] = q[h[i]] /\ ~Means(off, mapped, f[k][i])
        <5>1. CASE i <= Len(p)
          BY <5>1, <3>2, <3>3, <3>4
        <5>2. CASE i = Len(p) + 1
          <6>1. h[i] = k /\ f[k][i] = q[k]
            BY <5>2, <3>2, <3>4
          <6> QED BY <6>1, <2>3
        <5> QED BY <5>1, <5>2, <3>2
      <4> QED BY <4>1, <3>2
    <3>7. \A i, j \in DOMAIN f[k] : h[i] = h[j] => i = j
      <4>1. ASSUME NEW i \in 1 .. Len(p) + 1, NEW j \in 1 .. Len(p) + 1, h[i] = h[j] PROVE i = j
        <5>1. CASE i <= Len(p) /\ j <= Len(p)
          BY <4>1, <5>1, <3>2, <3>3, <3>4
        <5>2. CASE i > Len(p) /\ j > Len(p)
          BY <5>2, <3>2
        <5>3. CASE i <= Len(p) /\ j > Len(p)
          BY <4>1, <5>3, <3>2, <3>3, <3>4, <2>0
        <5>4. CASE i > Len(p) /\ j <= Len(p)
          BY <4>1, <5>4, <3>2, <3>3, <3>4, <2>0
        <5> QED BY <5>1, <5>2, <5>3, <5>4, <3>2
      <4> QED BY <4>1, <3>2
    <3>8. Left(k, h)
      BY <3>5, <3>6, <3>7
    <3> HIDE DEF Left
    <3> QED BY <2>0, <3>8
  <2> QED BY <2>2, <2>3
<1>4. n \in G
  <2> HIDE DEF G
  <2>1. \A k \in 0 .. n : k \in G
    BY <1>0, <1>2, <1>3, WalkInduction
  <2> QED BY <2>1, <1>0
<1>5. PICK g : Left(n, g)
  BY <1>4
<1>6. ThinnedBy(q, f[n], g)
  BY <1>0, <1>5 DEF ThinnedBy
<1>7. f[n] \in Seq(S)
  BY <1>0, <1>1
<1> QED BY <1>1, <1>5, <1>6, <1>7

\* It leaves nothing when all are meant.
LEMMA NotMeantNone ==
  ASSUME NEW S, NEW q \in Seq(S), NEW off, NEW mapped, \A i \in DOMAIN q : Means(off, mapped, q[i])
  PROVE  NotMeant(q, off, mapped) = <<>>
<1> DEFINE k == NotMeant(q, off, mapped)
<1>1. /\ k \in Seq(S)
      /\ \E g : ThinnedBy(q, k, g)
      /\ \A i \in DOMAIN k : ~Means(off, mapped, k[i])
  BY NotMeantLeft
<1> HIDE DEF k
<1>2. PICK g : ThinnedBy(q, k, g)
  BY <1>1
<1>3. \A i \in DOMAIN k : Means(off, mapped, k[i])
  BY <1>2 DEF ThinnedBy
<1>4. DOMAIN k = {}
  BY <1>1, <1>3
<1>5. k = <<>>
  BY <1>1, <1>4
<1> QED BY <1>5 DEF k

\* An entry without content can go.
LEMMA DropIfEmptyGood ==
  ASSUME NEW H, NEW s \in Good(H), NEW n \in Nodes, HasData(s, n), NEW r, r = DropIfEmpty(s, n)
  PROVE  r \in Good(H) /\ SameEvents(s, r)
<1>1. CASE ~IsEmptyDataObject(Entry(s, n))
  BY <1>1 DEF DropIfEmpty, SameEvents
<1>2. CASE IsEmptyDataObject(Entry(s, n))
  <2>1. EntryOk(Entry(s, n))
    BY DEF Good, InStep
  <2>2. DOMAIN Entry(s, n).events = {}
    BY <1>2, <2>1 DEF EntryOk, IsEmptyDataObject
  <2>3. r = Drop(s, n)
    BY <1>2 DEF DropIfEmpty
  <2>4. /\ r \in Good(H)
        /\ Entry(r, n) = NewEntry
        /\ \A m \in Nodes \ {n} : Entry(r, m) = Entry(s, m)
    BY <2>2, <2>3, DropGood
  <2>5. DOMAIN NewEntry.events = {}
    BY NewEntryTyped
  <2> QED BY <2>2, <2>4, <2>5 DEF SameEvents
<1> QED BY <1>1, <1>2

\* Of one node's handlers, some of one type went.
Fewer(s, r, n, type) ==
  /\ \A m \in Nodes \ {n} : Entry(r, m) = Entry(s, m)
  /\ DOMAIN Entry(r, n).events \subseteq DOMAIN Entry(s, n).events
  /\ \A y \in DOMAIN Entry(r, n).events \ {type} : Entry(r, n).events[y] = Entry(s, n).events[y]
  /\ type \in DOMAIN Entry(r, n).events =>
       \E g : ThinnedBy(Entry(s, n).events[type], Entry(r, n).events[type], g)

\* A node that loses handlers gives none to another.
LEMMA FewerKeeps ==
  ASSUME NEW s, NEW r, NEW n \in Nodes, NEW type, Fewer(s, r, n, type)
  PROVE  \A m \in Nodes : \A h : Keeps(r, m, h) => Keeps(s, m, h)
<1>1. ASSUME NEW m \in Nodes, NEW h, Keeps(r, m, h) PROVE Keeps(s, m, h)
  <2>1. CASE m # n
    BY <2>1, <1>1 DEF Fewer, Keeps
  <2>2. CASE m = n
    <3>1. PICK y \in DOMAIN Entry(r, n).events : \E i \in DOMAIN Entry(r, n).events[y] : Entry(r, n).events[y][i] = h
      BY <2>2, <1>1 DEF Keeps
    <3>2. PICK i \in DOMAIN Entry(r, n).events[y] : Entry(r, n).events[y][i] = h
      BY <3>1
    <3>3. y \in DOMAIN Entry(s, n).events
      BY DEF Fewer
    <3>4. CASE y # type
      BY <2>2, <3>2, <3>3, <3>4 DEF Fewer, Keeps
    <3>5. CASE y = type
      <4>1. PICK g : ThinnedBy(Entry(s, n).events[type], Entry(r, n).events[type], g)
        BY <3>5 DEF Fewer
      <4>2. g[i] \in DOMAIN Entry(s, n).events[y] /\ Entry(s, n).events[y][g[i]] = h
        BY <3>2, <3>5, <4>1 DEF ThinnedBy
      <4> QED BY <2>2, <3>3, <4>2 DEF Keeps
    <3> QED BY <3>4, <3>5
  <2> QED BY <2>1, <2>2
<1> QED BY <1>1

\* A list from which handlers are taken out names none twice if it did not before.
LEMMA ThinnedUnique ==
  ASSUME NEW e, NEW d, NEW type, UniqueIn(e), DOMAIN d.events \subseteq DOMAIN e.events,
         \A y \in DOMAIN d.events \ {type} : d.events[y] = e.events[y],
         type \in DOMAIN d.events => \E g : ThinnedBy(e.events[type], d.events[type], g)
  PROVE  UniqueIn(d)
<1>1. CASE type \notin DOMAIN d.events
  BY <1>1 DEF UniqueIn
<1>2. CASE type \in DOMAIN d.events
  <2>1. PICK g : ThinnedBy(e.events[type], d.events[type], g)
    BY <1>2
  <2> DEFINE old(y, i) == IF y = type THEN g[i] ELSE i
  <2>2. ASSUME NEW y \in DOMAIN d.events, NEW i \in DOMAIN d.events[y]
        PROVE  y \in DOMAIN e.events /\ old(y, i) \in DOMAIN e.events[y] /\ d.events[y][i] = e.events[y][old(y, i)]
    BY <2>1 DEF ThinnedBy
  <2>3. ASSUME NEW y \in DOMAIN d.events, NEW i \in DOMAIN d.events[y], NEW j \in DOMAIN d.events[y], old(y, i) = old(y, j)
        PROVE  i = j
    BY <2>1, <2>3 DEF ThinnedBy
  <2> HIDE DEF old
  <2>4. ASSUME NEW x \in DOMAIN d.events, NEW y \in DOMAIN d.events,
               NEW i \in DOMAIN d.events[x], NEW j \in DOMAIN d.events[y],
               d.events[x][i].hid = d.events[y][j].hid
        PROVE  x = y /\ i = j
    <3>1. x = y /\ old(x, i) = old(y, j)
      BY <2>2, <2>4 DEF UniqueIn
    <3> QED BY <3>1, <2>3
  <2> QED BY <2>4 DEF UniqueIn
<1> QED BY <1>1, <1>2

\* The same events keep the same handlers.
LEMMA SameEventsUnique ==
  ASSUME NEW s, NEW r, SameEvents(s, r), NEW n \in Nodes
  PROVE  \A h : Keeps(s, n, h) <=> Keeps(r, n, h)
BY DEF SameEvents, Keeps

\* What event.remove leaves of an entry for one type.
EntryLeft(e, type, handlers, kept, d) ==
  LET last == handlers # <<>> /\ kept = <<>>
      events == IF last THEN Without(e.events, type)
                ELSE [y \in DOMAIN e.events |-> IF y = type THEN kept ELSE e.events[y]]
  IN  d = IF DOMAIN events # {} THEN [e EXCEPT !.events = events]
          ELSE [e EXCEPT !.events = <<>>, !.made = FALSE, !.handle = 0]
\* The entry d after off has left kept of the handlers of a type.
IsLeft(e, type, handlers, kept, d) ==
  LET last == handlers # <<>> /\ kept = <<>>
  IN  /\ DOMAIN d.events = IF last THEN DOMAIN e.events \ {type} ELSE DOMAIN e.events
      /\ \A y \in DOMAIN d.events \ {type} : d.events[y] = e.events[y]
      /\ type \in DOMAIN d.events => d.events[type] = kept
      /\ d.made <=> DOMAIN d.events # {}
      /\ d.handle = IF DOMAIN d.events # {} THEN e.handle ELSE 0

\* That is what EntryLeft does: a type without handlers goes.
LEMMA EntryLeftIs ==
  ASSUME NEW H, NEW e \in EntrySet(H), e.made, NEW type, NEW handlers, NEW kept \in Seq(H),
         IF type \in DOMAIN e.events THEN handlers = e.events[type] ELSE handlers = <<>>,
         NEW d, EntryLeft(e, type, handlers, kept, d)
  PROVE  d \in EntrySet(H) /\ IsLeft(e, type, handlers, kept, d)
<1> DEFINE last == handlers # <<>> /\ kept = <<>>
           A == Seq(H) \ {<<>>}
           events == IF last THEN Without(e.events, type)
                     ELSE [y \in DOMAIN e.events |-> IF y = type THEN kept ELSE e.events[y]]
<1>1. /\ e.events \in [DOMAIN e.events -> A] /\ DOMAIN e.events \subseteq Types(H) /\ IsFiniteSet(DOMAIN e.events)
      /\ e.made \in BOOLEAN /\ e.handle \in Nat
  BY EntryShape
<1>2. type \in DOMAIN e.events => handlers = e.events[type] /\ handlers # <<>>
  BY <1>1
<1> HIDE DEF A
<1>3. /\ DOMAIN events = IF last THEN DOMAIN e.events \ {type} ELSE DOMAIN e.events
      /\ \A y \in DOMAIN events : events[y] = IF y = type THEN kept ELSE e.events[y]
  BY DEF Without
<1> HIDE DEF events
<1>4. \A y \in DOMAIN events : events[y] \in A
  BY <1>1, <1>2, <1>3 DEF A
<1>5. IsFiniteSet(DOMAIN events) /\ DOMAIN events \subseteq Types(H)
  BY <1>1, <1>3, FS_Subset
<1>6. events \in [DOMAIN events -> A]
  <2>1. events = [y \in DOMAIN events |-> events[y]]
    BY DEF events, Without
  <2> QED BY <2>1, <1>4
<1>7. events \in EventsSet(H)
  BY <1>5, <1>6, EventsTyped DEF A
<1>8. d = IF DOMAIN events # {} THEN [e EXCEPT !.events = events]
          ELSE [e EXCEPT !.events = <<>>, !.made = FALSE, !.handle = 0]
  BY DEF EntryLeft, events
<1>9. CASE DOMAIN events # {}
  <2>1. d = [e EXCEPT !.events = events]
    BY <1>8, <1>9
  <2>2. d \in EntrySet(H) /\ d.events = events /\ d.made = e.made /\ d.handle = e.handle
    BY <2>1, <1>7 DEF EntrySet
  <2> QED BY <2>2, <1>3, <1>9 DEF IsLeft
<1>10. CASE DOMAIN events = {}
  <2>1. d = [e EXCEPT !.events = <<>>, !.made = FALSE, !.handle = 0]
    BY <1>8, <1>10
  <2>2. <<>> \in EventsSet(H) /\ DOMAIN <<>> = {}
    BY NewEntryTyped DEF NewEntry, EntrySet
  <2>3. d \in EntrySet(H) /\ d.events = <<>> /\ d.made = FALSE /\ d.handle = 0
    BY <2>1, <2>2 DEF EntrySet
  <2> QED BY <2>2, <2>3, <1>3, <1>10 DEF IsLeft
<1> QED BY <1>9, <1>10

\* What event.remove for one type does.
TypeRemoved(s, r, n, type, off, mapped) ==
  /\ Fewer(s, r, n, type)
  /\ type \in DOMAIN Entry(r, n).events =>
       \A i \in DOMAIN Entry(r, n).events[type] : ~Means(off, mapped, Entry(r, n).events[type][i])

\* What holds of RemoveType's store holds of one with the same events.
LEMMA FewerSameEvents ==
  ASSUME NEW s, NEW z, NEW r, NEW n \in Nodes, NEW type, NEW off, NEW mapped,
         TypeRemoved(s, z, n, type, off, mapped), SameEvents(z, r), \A m \in Nodes \ {n} : Entry(r, m) = Entry(z, m)
  PROVE  TypeRemoved(s, r, n, type, off, mapped)
<1>1. /\ DOMAIN Entry(r, n).events = DOMAIN Entry(z, n).events
      /\ \A y \in DOMAIN Entry(z, n).events : Entry(r, n).events[y] = Entry(z, n).events[y]
      /\ \A m \in Nodes \ {n} : Entry(r, m) = Entry(s, m)
  BY DEF SameEvents, TypeRemoved, Fewer
<1> QED BY <1>1 DEF TypeRemoved, Fewer

\* jQuery.event.remove for one type keeps a store good, and takes handlers of that type
\* of that node, those that are meant.
LEMMA RemoveTypeGood ==
  ASSUME NEW H, NEW s \in Good(H), NEW n \in Nodes, NEW off, NEW mapped, NEW r, r = RemoveType(s, n, off, mapped)
  PROVE  r \in Good(H) /\ TypeRemoved(s, r, n, KeptType(off.type, off.selector), off, mapped)
<1> DEFINE type == KeptType(off.type, off.selector)
           handlers == Handlers(s, n, type)
           kept == NotMeant(handlers, off, mapped)
           last == handlers # <<>> /\ kept = <<>>
           t == IF last THEN Unlisten(s, n, type) ELSE s
           e == Entry(s, n)
           events == IF last THEN Without(Entry(t, n).events, type)
                     ELSE [y \in DOMAIN Entry(t, n).events |-> IF y = type THEN kept ELSE Entry(t, n).events[y]]
<1>1. r = IF ~e.made THEN s
          ELSE IF DOMAIN events # {} THEN WithEntry(t, n, [Entry(t, n) EXCEPT !.events = events])
          ELSE DropIfEmpty(WithEntry(t, n, [Entry(t, n) EXCEPT !.events = <<>>, !.made = FALSE, !.handle = 0]), n)
  BY DEF RemoveType
<1> HIDE DEF type
<1>2. s \in StoreSet(H) /\ Owns(s) /\ InStep(s) /\ Unique(s)
  BY DEF Good
<1>3. e \in EntrySet(H) /\ EntryOk(e) /\ s.listeners[n] = Told(e)
  BY <1>2, EntryTyped DEF InStep
<1>4. CASE ~e.made
  <2>1. r = s /\ DOMAIN e.events = {}
    BY <1>1, <1>3, <1>4 DEF EntryOk
  <2> QED BY <2>1 DEF TypeRemoved, Fewer, type
<1>5. CASE e.made
  <2>1. /\ handlers \in Seq(H)
        /\ IF type \in DOMAIN e.events THEN handlers = e.events[type] ELSE handlers = <<>>
        /\ handlers # <<>> <=> type \in DOMAIN e.events
    BY <1>2, HandlersTyped
  <2> HIDE DEF handlers
  <2>2. /\ kept \in Seq(H)
        /\ \E g : ThinnedBy(handlers, kept, g)
        /\ \A i \in DOMAIN kept : ~Means(off, mapped, kept[i])
    BY <2>1, NotMeantLeft
  <2> HIDE DEF kept
  <2>3. HasData(s, n)
    BY <1>2, <1>5, EntryTyped, NewEntryTyped
  <2>4. s.attaches \in Int /\ s.listeners \in [Nodes -> SUBSET (Types(H) \X Nat)]
    BY <1>2, StoreTyped
  <2>5. /\ t \in StoreSet(H) /\ Owns(t)
        /\ \A m \in Nodes : Entry(t, m) = Entry(s, m) /\ (HasData(t, m) <=> HasData(s, m))
        /\ t.listeners[n] = IF last /\ type # "focusin" THEN Told(e) \ {<<type, e.handle>>} ELSE Told(e)
        /\ \A m \in Nodes \ {n} : t.listeners[m] = s.listeners[m]
        /\ t.attaches = IF last /\ type = "focusin" THEN s.attaches - 1 ELSE s.attaches
    <3>1. CASE ~last
      BY <3>1, <1>2, <1>3
    <3>2. CASE last /\ type = "focusin"
      <4>1. AttachesChanged(s, s.attaches - 1, t)
        BY <3>2, <2>4 DEF Unlisten, Attaches, AttachesChanged
      <4>2. s.attaches - 1 \in Int
        BY <2>4
      <4> HIDE DEF t
      <4>3. /\ t \in StoreSet(H) /\ Owns(t)
            /\ \A m \in Nodes : Entry(t, m) = Entry(s, m) /\ (HasData(t, m) <=> HasData(s, m))
            /\ t.listeners = s.listeners /\ t.attaches = s.attaches - 1
        BY <4>1, <4>2, <1>2, AttachesKeep
      <4> QED BY <3>2, <4>3, <1>3
    <3>3. CASE last /\ type # "focusin"
      <4> DEFINE L == s.listeners[n] \ {<<type, e.handle>>}
      <4>1. ListenerChanged(s, n, L, t)
        BY <3>3 DEF Unlisten, RemoveEvent, ListenerChanged
      <4>2. L \in SUBSET (Types(H) \X Nat)
        BY <2>4
      <4>0. L = Told(e) \ {<<type, e.handle>>}
        BY <1>3
      <4> HIDE DEF t, L
      <4>3. /\ t \in StoreSet(H) /\ Owns(t)
            /\ \A m \in Nodes : Entry(t, m) = Entry(s, m) /\ (HasData(t, m) <=> HasData(s, m))
            /\ t.listeners[n] = L /\ \A m \in Nodes \ {n} : t.listeners[m] = s.listeners[m]
            /\ t.attaches = s.attaches
        BY <4>1, <4>2, <1>2, ListenerKeeps
      <4> QED BY <3>3, <4>0, <4>3
    <3> QED BY <3>1, <3>2, <3>3
  <2> HIDE DEF t
  <2>6. Entry(t, n) = e
    BY <2>5
  <2> DEFINE d == IF DOMAIN events # {} THEN [e EXCEPT !.events = events]
                  ELSE [e EXCEPT !.events = <<>>, !.made = FALSE, !.handle = 0]
             z == WithEntry(t, n, d)
  <2>7. r = IF DOMAIN events # {} THEN z ELSE DropIfEmpty(z, n)
    <3> HIDE DEF events, e
    <3> QED BY <1>1, <1>5, <2>6
  <2>8. EntryLeft(e, type, handlers, kept, d)
    BY <2>6 DEF EntryLeft
  <2> HIDE DEF d, events, e
  <2>9. d \in EntrySet(H) /\ IsLeft(e, type, handlers, kept, d)
    BY <2>1, <2>2, <2>8, <1>3, <1>5, EntryLeftIs
  <2>10. /\ DOMAIN d.events = IF last THEN DOMAIN e.events \ {type} ELSE DOMAIN e.events
         /\ \A y \in DOMAIN d.events \ {type} : d.events[y] = e.events[y]
         /\ type \in DOMAIN d.events => d.events[type] = kept
         /\ d.made <=> DOMAIN d.events # {}
         /\ d.handle = IF DOMAIN d.events # {} THEN e.handle ELSE 0
    BY <2>9 DEF IsLeft
  <2>11. /\ z \in StoreSet(H) /\ Owns(z)
         /\ \A m \in Nodes : HasData(z, m) <=> HasData(t, m)
         /\ Entry(z, n) = d
         /\ \A m \in Nodes \ {n} : Entry(z, m) = Entry(t, m)
         /\ z.listeners = t.listeners /\ z.attaches = t.attaches
    BY <2>3, <2>5, <2>9, WithEntryKeeps
  <2> HIDE DEF z
  <2>12. e = Entry(s, n)
    BY DEF e
  <2>13. Fewer(s, z, n, type)
    BY <2>1, <2>2, <2>5, <2>10, <2>11, <2>12 DEF Fewer
  <2>14. TypeRemoved(s, z, n, type, off, mapped)
    BY <2>2, <2>10, <2>11, <2>13 DEF TypeRemoved
  <2>15. EntryOk(d)
    <3>1. d.made <=> d.handle # 0
      BY <2>10, <1>3, <1>5 DEF EntryOk
    <3>2. ASSUME NEW y \in DOMAIN d.events, NEW i \in DOMAIN d.events[y]
          PROVE  KeptType(d.events[y][i].type, d.events[y][i].selector) = y
      <4>0. y \in DOMAIN e.events
        BY <2>10
      <4>1. CASE y # type
        BY <4>0, <4>1, <2>10, <1>3 DEF EntryOk
      <4>2. CASE y = type
        <5>1. PICK g : ThinnedBy(e.events[type], d.events[type], g)
          BY <4>0, <4>2, <2>1, <2>2, <2>10
        <5>2. g[i] \in DOMAIN e.events[type] /\ d.events[type][i] = e.events[type][g[i]]
          BY <4>2, <5>1 DEF ThinnedBy
        <5> QED BY <4>0, <4>2, <5>2, <1>3 DEF EntryOk
      <4> QED BY <4>1, <4>2
    <3> QED BY <3>1, <3>2, <2>10 DEF EntryOk
  <2>16. z.listeners[n] = Told(d)
    <3>1. Told(d) = IF last /\ type # "focusin" THEN Told(e) \ {<<type, e.handle>>} ELSE Told(e)
      <4>1. CASE DOMAIN d.events # {}
        BY <4>1, <2>10 DEF Told
      <4>2. CASE DOMAIN d.events = {}
        <5>1. DOMAIN e.events \subseteq {type} /\ DOMAIN e.events # {} /\ last
          BY <4>2, <2>10, <1>3, <1>5 DEF EntryOk
        <5>2. Told(d) = {}
          BY <4>2 DEF Told
        <5>3. Told(e) = IF type # "focusin" THEN {<<type, e.handle>>} ELSE {}
          BY <5>1 DEF Told
        <5> QED BY <5>1, <5>2, <5>3
      <4> QED BY <4>1, <4>2
    <3> QED BY <3>1, <2>5, <2>11
  <2>17. z.attaches >= Cardinality(Focusing(z))
    <3> DEFINE F == Focusing(s)
    <3>1. IsFiniteSet(F) /\ Cardinality(F) \in Nat /\ s.attaches >= Cardinality(F)
      <4>1. IsFiniteSet(F)
        BY NodesFinite, FS_Subset DEF Focusing
      <4> QED BY <4>1, <1>2, FS_CardinalityType DEF InStep
    <3>2. Focusing(z) \subseteq F
      BY <2>5, <2>10, <2>11, <2>12 DEF Focusing
    <3>3. last /\ type = "focusin" => n \in F /\ Focusing(z) = F \ {n}
      BY <2>1, <2>5, <2>10, <2>11, <2>12 DEF Focusing
    <3>4. last /\ type = "focusin" => Cardinality(F \ {n}) = Cardinality(F) - 1
      <4> HIDE DEF F
      <4> QED BY <3>1, <3>3, FS_RemoveElement
    <3>5. Cardinality(Focusing(z)) <= Cardinality(F) /\ Cardinality(Focusing(z)) \in Nat
      <4> DEFINE Z == Focusing(z)
      <4>1. Z \subseteq F
        BY <3>2
      <4> HIDE DEF F, Z
      <4>2. IsFiniteSet(Z) /\ Cardinality(Z) <= Cardinality(F)
        BY <3>1, <4>1, FS_Subset
      <4>3. Cardinality(Z) \in Nat
        BY <4>2, FS_CardinalityType
      <4> QED BY <4>2, <4>3 DEF Z
    <3> HIDE DEF F, last
    <3>6. CASE last /\ type = "focusin"
      <4>1. z.attaches = s.attaches - 1
        BY <3>6, <2>5, <2>11
      <4>2. Cardinality(Focusing(z)) = Cardinality(F) - 1
        BY <3>3, <3>4, <3>6
      <4> QED BY <4>1, <4>2, <3>1, <2>4
    <3>7. CASE ~(last /\ type = "focusin")
      BY <3>1, <3>5, <3>7, <2>4, <2>5, <2>11
    <3> QED BY <3>6, <3>7
  <2>18. n # Copy =>
           /\ UniqueIn(d)
           /\ \A h : Keeps(z, n, h) => \A m \in 1 .. Document \ {n} : \A g : Keeps(s, m, g) => g.hid # h.hid
    <3> SUFFICES ASSUME n # Copy
                 PROVE  /\ UniqueIn(d)
                        /\ \A h : Keeps(z, n, h) => \A m \in 1 .. Document \ {n} : \A g : Keeps(s, m, g) => g.hid # h.hid
      OBVIOUS
    <3>1. n \in 1 .. Document
      BY PageNodes
    <3>2. /\ UniqueIn(e)
          /\ \A h : Keeps(s, n, h) => \A m \in 1 .. Document \ {n} : \A g : Keeps(s, m, g) => g.hid # h.hid
      BY <3>1, <2>12, GoodUniqueIn
    <3>3. UniqueIn(d)
      <4>1. DOMAIN d.events \subseteq DOMAIN e.events
        BY <2>10
      <4>2. \A y \in DOMAIN d.events \ {type} : d.events[y] = e.events[y]
        BY <2>10
      <4>3. type \in DOMAIN d.events => \E g : ThinnedBy(e.events[type], d.events[type], g)
        BY <2>13, <2>11, <2>12 DEF Fewer
      <4> QED BY <3>2, <4>1, <4>2, <4>3, ThinnedUnique
    <3>4. \A h : Keeps(z, n, h) => Keeps(s, n, h)
      BY <2>13, FewerKeeps
    <3> QED BY <3>2, <3>3, <3>4
  <2>19. z \in Good(H)
    <3>1. \A m \in Nodes \ {n} : Entry(z, m) = Entry(s, m) /\ z.listeners[m] = s.listeners[m]
      BY <2>5, <2>11
    <3> QED BY <3>1, <2>11, <2>15, <2>16, <2>17, <2>18, GoodWith
  <2>20. CASE DOMAIN events # {}
    BY <2>20, <2>7, <2>14, <2>19 DEF type
  <2>21. CASE DOMAIN events = {}
    <3>1. r = DropIfEmpty(z, n) /\ HasData(z, n)
      BY <2>21, <2>3, <2>5, <2>7, <2>11
    <3>2. r \in Good(H) /\ SameEvents(z, r)
      BY <3>1, <2>19, DropIfEmptyGood
    <3>3. \A m \in Nodes \ {n} : Entry(r, m) = Entry(z, m)
      BY <3>1, <2>11, DropKeeps DEF DropIfEmpty
    <3> QED BY <3>2, <3>3, <2>14, FewerSameEvents DEF type
  <2> QED BY <2>20, <2>21
<1> QED BY <1>3, <1>4, <1>5 DEF EntrySet

----------
(* Nodes that go or are copied.                                             *)

\* No handler comes to any node.
Shrinks(s, r) == \A m \in Nodes : \A h : Keeps(r, m, h) => Keeps(s, m, h)

\* What jQuery.event.remove is told when all handlers of a type go.
AnyOf(type) == [type |-> type, selector |-> {}, ns |-> {}, fn |-> 0]

\* The steps of RemoveEach.
EachSteps(s, n, D, F) ==
  /\ F[{}] = s
  /\ \A T \in SUBSET D : T # {} => \E x \in T : F[T] = RemoveType(F[T \ {x}], n, AnyOf(x), FALSE)
  /\ RemoveEach(s, n) = F[D]

\* RemoveEach goes through the types one by one: F[D] is the store when those of D are done.
LEMMA RemoveEachSteps ==
  ASSUME NEW H, NEW s \in Good(H), NEW n \in Nodes
  PROVE  \E F : EachSteps(s, n, DOMAIN Entry(s, n).events, F)
<1> DEFINE S == DOMAIN Entry(s, n).events
           A == Good(H)
           g == [p \in S \X A |-> RemoveType(p[2], n, AnyOf(p[1]), FALSE)]
           c == [T \in SUBSET S |-> CHOOSE x \in T : TRUE]
           iter == CHOOSE f : f = [T \in SUBSET S |-> IF T = {} THEN s
                     ELSE RemoveType(f[T \ {CHOOSE x \in T : TRUE}], n, AnyOf(CHOOSE x \in T : TRUE), FALSE)]
<1>1. IsFiniteSet(S)
  <2>1. Entry(s, n) \in EntrySet(H)
    BY EntryTyped DEF Good
  <2> QED BY <2>1, EntryShape
<1>2. g \in [S \X A -> A]
  BY RemoveTypeGood
<1>3. \A x \in S : \A t \in A : g[<<x, t>>] = RemoveType(t, n, AnyOf(x), FALSE)
  OBVIOUS
<1>4. \A T \in SUBSET S : T # {} => c[T] \in T
  OBVIOUS
<1>5. \A T \in SUBSET S : c[T] = CHOOSE x \in T : TRUE
  OBVIOUS
<1>6. s \in A
  OBVIOUS
<1>7. RemoveEach(s, n) = iter[S]
  BY Zenon DEF RemoveEach, FoldSet, MapThenFoldSet, AnyOf
<1> HIDE DEF g, A, c, S
<1>8. PICK F \in [SUBSET S -> A] : IsFold(F, S, s, g, c)
  <2>1. FoldGiven(S, A, s, g, c)
    BY <1>1, <1>2, <1>4, <1>6 DEF FoldGiven
  <2> QED BY <2>1, FoldExists
<1>9. \A T \in SUBSET S : F[T] = IF T = {} THEN s
          ELSE RemoveType(F[T \ {CHOOSE x \in T : TRUE}], n, AnyOf(CHOOSE x \in T : TRUE), FALSE)
  <2>1. ASSUME NEW T \in SUBSET S, T # {}
        PROVE  F[T] = RemoveType(F[T \ {c[T]}], n, AnyOf(c[T]), FALSE)
    <3>1. c[T] \in S /\ F[T \ {c[T]}] \in A
      BY <1>4, <2>1
    <3> QED BY <1>3, <1>8, <2>1, <3>1 DEF IsFold
  <2> QED BY <1>5, <1>8, <2>1 DEF IsFold
<1>10. F = [T \in SUBSET S |-> IF T = {} THEN s
              ELSE RemoveType(F[T \ {CHOOSE x \in T : TRUE}], n, AnyOf(CHOOSE x \in T : TRUE), FALSE)]
  BY <1>9
<1>11. iter = [T \in SUBSET S |-> IF T = {} THEN s
                 ELSE RemoveType(iter[T \ {CHOOSE x \in T : TRUE}], n, AnyOf(CHOOSE x \in T : TRUE), FALSE)]
  BY <1>10
<1> HIDE DEF iter
<1>12. EachSteps(s, n, S, iter)
  <2>1. iter[{}] = s
    BY <1>11
  <2>2. \A T \in SUBSET S : T # {} => \E x \in T : iter[T] = RemoveType(iter[T \ {x}], n, AnyOf(x), FALSE)
    BY <1>4, <1>5, <1>11
  <2> QED BY <2>1, <2>2, <1>7 DEF EachSteps
<1> QED BY <1>12 DEF S

\* What is left of node n's handlers when those of the types of T went.
EachDone(H, s, n, T, r) ==
  /\ r \in Good(H)
  /\ \A m \in Nodes \ {n} : Entry(r, m) = Entry(s, m)
  /\ Shrinks(s, r)
  /\ DOMAIN Entry(r, n).events \subseteq (DOMAIN Entry(s, n).events \ T) \cup {"focusin"}

\* A handler of any function, selector and namespace is meant.
LEMMA AnyMeans ==
  ASSUME NEW type, NEW h, h.type = type
  PROVE  Means(AnyOf(type), FALSE, h) /\ KeptType(AnyOf(type).type, AnyOf(type).selector) = type
BY DEF Means, AnyOf, KeptType

\* Once it is through, no handler of the node is left.
LEMMA RemoveEachGood ==
  ASSUME NEW H, NEW s \in Good(H), NEW n \in Nodes
  PROVE  EachDone(H, s, n, DOMAIN Entry(s, n).events, RemoveEach(s, n))
<1> DEFINE D == DOMAIN Entry(s, n).events
<1>1. PICK F : EachSteps(s, n, D, F)
  BY RemoveEachSteps
<1>2. IsFiniteSet(D)
  <2>1. Entry(s, n) \in EntrySet(H)
    BY EntryTyped DEF Good
  <2> QED BY <2>1, EntryShape
<1> DEFINE G == {T \in SUBSET D : EachDone(H, s, n, T, F[T])}
<1>3. {} \in G
  BY <1>1 DEF EachSteps, EachDone, Shrinks
<1>4. ASSUME NEW T \in SUBSET D, T # {}, \A x \in T : T \ {x} \in G PROVE T \in G
  <2>1. PICK x \in T : F[T] = RemoveType(F[T \ {x}], n, AnyOf(x), FALSE)
    BY <1>1, <1>4 DEF EachSteps
  <2> DEFINE t == F[T \ {x}]
             r == F[T]
  <2>2. EachDone(H, s, n, T \ {x}, t)
    BY <1>4
  <2> HIDE DEF t
  <2>3. r = RemoveType(t, n, AnyOf(x), FALSE)
    BY <2>1 DEF t
  <2> HIDE DEF r
  <2>4. t \in Good(H)
    BY <2>2 DEF EachDone
  <2>5. KeptType(AnyOf(x).type, AnyOf(x).selector) = x
    BY DEF AnyOf, KeptType
  <2>6. r \in Good(H) /\ TypeRemoved(t, r, n, x, AnyOf(x), FALSE)
    BY <2>3, <2>4, <2>5, RemoveTypeGood
  <2>7. Fewer(t, r, n, x)
    BY <2>6 DEF TypeRemoved
  <2>8. \A m \in Nodes \ {n} : Entry(r, m) = Entry(s, m)
    BY <2>2, <2>7 DEF EachDone, Fewer
  <2>9. Shrinks(s, r)
    BY <2>2, <2>7, FewerKeeps DEF EachDone, Shrinks
  <2>10. x \in DOMAIN Entry(r, n).events => x = "focusin"
    <3>1. SUFFICES ASSUME x \in DOMAIN Entry(r, n).events, x # "focusin" PROVE FALSE
      OBVIOUS
    <3>2. Entry(r, n) \in EntrySet(H) /\ EntryOk(Entry(r, n))
      BY <2>6, EntryTyped DEF Good, InStep
    <3>3. Entry(r, n).events[x] \in Seq(H) \ {<<>>}
      BY <3>1, <3>2, EntryShape
    <3>4. 1 \in DOMAIN Entry(r, n).events[x]
      BY <3>3
    <3>5. Entry(r, n).events[x][1].type = x
      BY <3>1, <3>2, <3>4 DEF EntryOk, KeptType
    <3> QED BY <3>1, <3>4, <3>5, <2>6, AnyMeans DEF TypeRemoved
  <2>11. DOMAIN Entry(r, n).events \subseteq (D \ T) \cup {"focusin"}
    <3>1. DOMAIN Entry(t, n).events \subseteq (D \ (T \ {x})) \cup {"focusin"}
      BY <2>2 DEF EachDone
    <3>2. DOMAIN Entry(r, n).events \subseteq DOMAIN Entry(t, n).events
      BY <2>7 DEF Fewer
    <3> HIDE DEF D
    <3> QED BY <3>1, <3>2, <2>10
  <2>12. EachDone(H, s, n, T, r)
    BY <2>6, <2>8, <2>9, <2>11 DEF EachDone
  <2> QED BY <2>12 DEF r
<1>5. D \in G
  <2> HIDE DEF D, G
  <2>1. \A T \in SUBSET D : T # {} /\ (\A x \in T : T \ {x} \in G) => T \in G
    BY <1>4
  <2> QED BY <1>2, <1>3, <2>1, SubsetInduction
<1> QED BY <1>1, <1>5 DEF EachSteps

\* cleanData keeps the store in order, and leaves nothing about the node.
CleanDone(H, s, n, r) ==
  /\ r \in Good(H)
  /\ \A m \in Nodes \ {n} : Entry(r, m) = Entry(s, m)
  /\ Shrinks(s, r)
  /\ DOMAIN Entry(r, n).events = {}

\* jQuery.cleanData for one node keeps a store good, and leaves the node nothing.
LEMMA CleanDataGood ==
  ASSUME NEW H, NEW s \in Good(H), NEW n \in Nodes
  PROVE  CleanDone(H, s, n, CleanData(s, n))
<1> DEFINE t == RemoveEach(s, n)
           r == CleanData(s, n)
<1>1. EachDone(H, s, n, DOMAIN Entry(s, n).events, t)
  BY RemoveEachGood
<1>2. r = IF HasData(t, n) THEN Drop(t, n) ELSE t
  BY DEF CleanData
<1> HIDE DEF t, r
<1>3. t \in Good(H) /\ DOMAIN Entry(t, n).events \subseteq {"focusin"}
  BY <1>1 DEF EachDone
<1>4. DOMAIN NewEntry.events = {}
  BY NewEntryTyped
<1>5. CASE HasData(t, n)
  <2>1. r \in Good(H) /\ Entry(r, n) = NewEntry /\ \A m \in Nodes \ {n} : Entry(r, m) = Entry(t, m)
    BY <1>2, <1>3, <1>5, DropGood
  <2>2. Shrinks(s, r)
    BY <2>1, <1>1, <1>4 DEF EachDone, Shrinks, Keeps
  <2>3. CleanDone(H, s, n, r)
    BY <2>1, <2>2, <1>1, <1>4 DEF EachDone, CleanDone
  <2> QED BY <2>3 DEF r
<1>6. CASE ~HasData(t, n)
  <2>1. Entry(t, n) = NewEntry
    BY <1>6 DEF Entry
  <2>2. CleanDone(H, s, n, r)
    BY <2>1, <1>1, <1>2, <1>4, <1>6 DEF EachDone, CleanDone
  <2> QED BY <2>2 DEF r
<1> QED BY <1>5, <1>6

\* The steps of remove.
TreeSteps(s, D, F) ==
  /\ F[{}] = s
  /\ \A T \in SUBSET D : T # {} => \E x \in T : F[T] = CleanData(F[T \ {x}], x)
\* The nodes inside n, n among them: the nodes of the page are inside the next.
Inside(n) == IF n = Copy THEN {n} ELSE 1 .. n

\* CleanTree goes through the nodes inside one by one.
LEMMA CleanTreeSteps ==
  ASSUME NEW H, NEW s \in Good(H), NEW n \in Nodes
  PROVE  \E F : TreeSteps(s, Inside(n), F) /\ CleanTree(s, n) = F[Inside(n)]
<1> DEFINE S == Inside(n)
           A == Good(H)
           g == [p \in S \X A |-> CleanData(p[2], p[1])]
           c == [T \in SUBSET S |-> CHOOSE x \in T : TRUE]
           iter == CHOOSE f : f = [T \in SUBSET S |-> IF T = {} THEN s
                     ELSE CleanData(f[T \ {CHOOSE x \in T : TRUE}], CHOOSE x \in T : TRUE)]
<1>1. IsFiniteSet(S)
  <2>1. Inside(n) \subseteq Nodes
    BY DocumentAssumption DEF Inside, Nodes, Copy
  <2> QED BY <2>1, NodesFinite, FS_Subset
<1>2. g \in [S \X A -> A]
  <2>1. Inside(n) \subseteq Nodes
    BY DocumentAssumption DEF Inside, Nodes, Copy
  <2>2. ASSUME NEW x \in S, NEW t \in A PROVE CleanData(t, x) \in A
    BY <2>1, CleanDataGood DEF CleanDone
  <2> HIDE DEF S, A
  <2> QED BY <2>2
<1>3. \A x \in S : \A t \in A : g[<<x, t>>] = CleanData(t, x)
  OBVIOUS
<1>4. \A T \in SUBSET S : T # {} => c[T] \in T
  OBVIOUS
<1>5. \A T \in SUBSET S : c[T] = CHOOSE x \in T : TRUE
  OBVIOUS
<1>6. s \in A
  OBVIOUS
<1>7. CleanTree(s, n) = iter[S]
  BY Zenon DEF CleanTree, Inside, FoldSet, MapThenFoldSet
<1> HIDE DEF g, A, c, S
<1>8. PICK F \in [SUBSET S -> A] : IsFold(F, S, s, g, c)
  <2>1. FoldGiven(S, A, s, g, c)
    BY <1>1, <1>2, <1>4, <1>6 DEF FoldGiven
  <2> QED BY <2>1, FoldExists
<1>9. \A T \in SUBSET S : F[T] = IF T = {} THEN s
          ELSE CleanData(F[T \ {CHOOSE x \in T : TRUE}], CHOOSE x \in T : TRUE)
  <2>1. ASSUME NEW T \in SUBSET S, T # {}
        PROVE  F[T] = CleanData(F[T \ {c[T]}], c[T])
    <3>1. c[T] \in S /\ F[T \ {c[T]}] \in A
      BY <1>4, <2>1
    <3> QED BY <1>3, <1>8, <2>1, <3>1 DEF IsFold
  <2> QED BY <1>5, <1>8, <2>1 DEF IsFold
<1>10. F = [T \in SUBSET S |-> IF T = {} THEN s
              ELSE CleanData(F[T \ {CHOOSE x \in T : TRUE}], CHOOSE x \in T : TRUE)]
  BY <1>9
<1>11. iter = [T \in SUBSET S |-> IF T = {} THEN s
                 ELSE CleanData(iter[T \ {CHOOSE x \in T : TRUE}], CHOOSE x \in T : TRUE)]
  BY <1>10
<1> HIDE DEF iter
<1>12. TreeSteps(s, S, iter)
  <2>1. iter[{}] = s
    BY <1>11
  <2>2. \A T \in SUBSET S : T # {} => \E x \in T : iter[T] = CleanData(iter[T \ {x}], x)
    BY <1>4, <1>5, <1>11
  <2> QED BY <2>1, <2>2 DEF TreeSteps
<1> QED BY <1>7, <1>12 DEF S

\* remove keeps the store in order.
LEMMA CleanTreeGood ==
  ASSUME NEW H, NEW s \in Good(H), NEW n \in Nodes
  PROVE  CleanTree(s, n) \in Good(H) /\ Shrinks(s, CleanTree(s, n))
<1> DEFINE D == Inside(n)
<1>1. PICK F : TreeSteps(s, D, F) /\ CleanTree(s, n) = F[D]
  BY CleanTreeSteps
<1>2. IsFiniteSet(D) /\ D \subseteq Nodes
  <2>1. D \subseteq Nodes
    BY DocumentAssumption DEF Inside, Nodes, Copy
  <2> QED BY <2>1, NodesFinite, FS_Subset
<1> DEFINE G == {T \in SUBSET D : F[T] \in Good(H) /\ Shrinks(s, F[T])}
<1>3. {} \in G
  BY <1>1 DEF TreeSteps, Shrinks
<1> HIDE DEF D
<1>4. ASSUME NEW T \in SUBSET D, T # {}, \A x \in T : T \ {x} \in G PROVE T \in G
  <2>1. PICK x \in T : F[T] = CleanData(F[T \ {x}], x)
    BY <1>1, <1>4 DEF TreeSteps
  <2>2. F[T \ {x}] \in Good(H) /\ Shrinks(s, F[T \ {x}]) /\ x \in Nodes
    BY <1>2, <1>4
  <2>3. CleanDone(H, F[T \ {x}], x, F[T])
    BY <2>1, <2>2, CleanDataGood
  <2> QED BY <2>2, <2>3 DEF CleanDone, Shrinks
<1>5. D \in G
  <2> HIDE DEF G
  <2>1. \A T \in SUBSET D : T # {} /\ (\A x \in T : T \ {x} \in G) => T \in G
    BY <1>4
  <2> QED BY <1>2, <1>3, <2>1, SubsetInduction
<1> QED BY <1>1, <1>5

\* The steps of event.remove for all types.
OfType(off, type) == [off EXCEPT !.type = type]
\* F[D] is the store when off is done with the types of D.
TypeSteps(s, n, off, D, F) ==
  /\ F[{}] = s
  /\ \A T \in SUBSET D : T # {} => \E x \in T : F[T] = RemoveType(F[T \ {x}], n, OfType(off, x), TRUE)

\* off without a type goes through the types of the node one by one.
LEMMA RemoveHandlersSteps ==
  ASSUME NEW H, NEW s \in Good(H), NEW n \in Nodes, NEW off, off.type = ""
  PROVE  \E F : /\ TypeSteps(s, n, off, DOMAIN Entry(s, n).events, F)
                /\ RemoveHandlers(s, n, off) = F[DOMAIN Entry(s, n).events]
<1> DEFINE S == DOMAIN Entry(s, n).events
           A == Good(H)
           g == [p \in S \X A |-> RemoveType(p[2], n, OfType(off, p[1]), TRUE)]
           c == [T \in SUBSET S |-> CHOOSE x \in T : TRUE]
           iter == CHOOSE f : f = [T \in SUBSET S |-> IF T = {} THEN s
                     ELSE RemoveType(f[T \ {CHOOSE x \in T : TRUE}], n, OfType(off, CHOOSE x \in T : TRUE), TRUE)]
<1>1. IsFiniteSet(S)
  <2>1. Entry(s, n) \in EntrySet(H)
    BY EntryTyped DEF Good
  <2> QED BY <2>1, EntryShape
<1>2. g \in [S \X A -> A]
  BY RemoveTypeGood
<1>3. \A x \in S : \A t \in A : g[<<x, t>>] = RemoveType(t, n, OfType(off, x), TRUE)
  OBVIOUS
<1>4. \A T \in SUBSET S : T # {} => c[T] \in T
  OBVIOUS
<1>5. \A T \in SUBSET S : c[T] = CHOOSE x \in T : TRUE
  OBVIOUS
<1>6. s \in A
  OBVIOUS
<1>7. RemoveHandlers(s, n, off) = iter[S]
  BY Zenon DEF RemoveHandlers, OfType, FoldSet, MapThenFoldSet
<1> HIDE DEF g, A, c, S
<1>8. PICK F \in [SUBSET S -> A] : IsFold(F, S, s, g, c)
  <2>1. FoldGiven(S, A, s, g, c)
    BY <1>1, <1>2, <1>4, <1>6 DEF FoldGiven
  <2> QED BY <2>1, FoldExists
<1>9. \A T \in SUBSET S : F[T] = IF T = {} THEN s
          ELSE RemoveType(F[T \ {CHOOSE x \in T : TRUE}], n, OfType(off, CHOOSE x \in T : TRUE), TRUE)
  <2>1. ASSUME NEW T \in SUBSET S, T # {}
        PROVE  F[T] = RemoveType(F[T \ {c[T]}], n, OfType(off, c[T]), TRUE)
    <3>1. c[T] \in S /\ F[T \ {c[T]}] \in A
      BY <1>4, <2>1
    <3> QED BY <1>3, <1>8, <2>1, <3>1 DEF IsFold
  <2> QED BY <1>5, <1>8, <2>1 DEF IsFold
<1>10. F = [T \in SUBSET S |-> IF T = {} THEN s
              ELSE RemoveType(F[T \ {CHOOSE x \in T : TRUE}], n, OfType(off, CHOOSE x \in T : TRUE), TRUE)]
  BY <1>9
<1>11. iter = [T \in SUBSET S |-> IF T = {} THEN s
                 ELSE RemoveType(iter[T \ {CHOOSE x \in T : TRUE}], n, OfType(off, CHOOSE x \in T : TRUE), TRUE)]
  BY <1>10
<1> HIDE DEF iter
<1>12. TypeSteps(s, n, off, S, iter)
  <2>1. iter[{}] = s
    BY <1>11
  <2>2. \A T \in SUBSET S : T # {} => \E x \in T : iter[T] = RemoveType(iter[T \ {x}], n, OfType(off, x), TRUE)
    BY <1>4, <1>5, <1>11
  <2> QED BY <2>1, <2>2 DEF TypeSteps
<1> QED BY <1>7, <1>12 DEF S

\* off keeps the store in order; of a type that is named nothing meant is left.
LEMMA RemoveHandlersGood ==
  ASSUME NEW H, NEW s \in Good(H), NEW n \in Nodes, NEW off
  PROVE  /\ RemoveHandlers(s, n, off) \in Good(H) /\ Shrinks(s, RemoveHandlers(s, n, off))
         /\ off.type # "" =>
              TypeRemoved(s, RemoveHandlers(s, n, off), n, KeptType(off.type, off.selector), off, FALSE)
<1> DEFINE r == RemoveHandlers(s, n, off)
<1>1. CASE off.type # ""
  <2>1. r = RemoveType(s, n, off, FALSE)
    BY <1>1 DEF RemoveHandlers
  <2> HIDE DEF r
  <2>2. r \in Good(H) /\ TypeRemoved(s, r, n, KeptType(off.type, off.selector), off, FALSE)
    BY <2>1, RemoveTypeGood
  <2>3. Shrinks(s, r)
    BY <2>2, FewerKeeps DEF TypeRemoved, Shrinks
  <2> QED BY <2>2, <2>3 DEF r
<1>2. CASE off.type = ""
  <2> DEFINE D == DOMAIN Entry(s, n).events
  <2>1. PICK F : TypeSteps(s, n, off, D, F) /\ r = F[D]
    BY <1>2, RemoveHandlersSteps
  <2>2. IsFiniteSet(D)
    <3>1. Entry(s, n) \in EntrySet(H)
      BY EntryTyped DEF Good
    <3> QED BY <3>1, EntryShape
  <2> DEFINE G == {T \in SUBSET D : F[T] \in Good(H) /\ Shrinks(s, F[T])}
  <2>3. {} \in G
    BY <2>1 DEF TypeSteps, Shrinks
  <2> HIDE DEF D
  <2>4. ASSUME NEW T \in SUBSET D, T # {}, \A x \in T : T \ {x} \in G PROVE T \in G
    <3>1. PICK x \in T : F[T] = RemoveType(F[T \ {x}], n, OfType(off, x), TRUE)
      BY <2>1, <2>4 DEF TypeSteps
    <3>2. F[T \ {x}] \in Good(H) /\ Shrinks(s, F[T \ {x}])
      BY <2>4
    <3> DEFINE o == OfType(off, x)
               y == KeptType(o.type, o.selector)
    <3> HIDE DEF o
    <3>3. F[T] \in Good(H) /\ TypeRemoved(F[T \ {x}], F[T], n, y, o, TRUE)
      BY <3>1, <3>2, RemoveTypeGood DEF o
    <3> HIDE DEF y
    <3>4. \A m \in Nodes : \A h : Keeps(F[T], m, h) => Keeps(F[T \ {x}], m, h)
      BY <3>3, FewerKeeps DEF TypeRemoved
    <3> QED BY <3>2, <3>3, <3>4 DEF Shrinks
  <2>5. D \in G
    <3> HIDE DEF G
    <3>1. \A T \in SUBSET D : T # {} /\ (\A x \in T : T \ {x} \in G) => T \in G
      BY <2>4
    <3> QED BY <2>2, <2>3, <3>1, SubsetInduction
  <2>6. r \in Good(H) /\ Shrinks(s, r)
    BY <2>1, <2>5
  <2> QED BY <1>2, <2>6
<1> QED BY <1>1, <1>2

\* Stores that know the same of the page.
CopyGood(H, s) == {w \in Good(H) : \A m \in 1 .. Document : Entry(w, m) = Entry(s, m)}

\* A store after the handlers of one type came to the copy.
AddAll(v, q) == FoldLeft(LAMBDA w, h : AddHandler(w, Copy, h), v, q)

\* A list of handlers added to the copy keeps the store good.
LEMMA AddAllGood ==
  ASSUME NEW H, NEW s, NEW v \in CopyGood(H, s), NEW q \in Seq(H)
  PROVE  AddAll(v, q) \in CopyGood(H, s)
<1> DEFINE n == Len(q)
           D == DOMAIN q
           A == CopyGood(H, s)
           g == [p \in (1 .. n) \X A |-> AddHandler(p[2], Copy, q[p[1]])]
           iter == CHOOSE f : f = [T \in SUBSET D |-> IF T = {} THEN v
                     ELSE AddHandler(f[T \ {Max(T)}], Copy, q[Max(T)])]
<1>1. n \in Nat /\ D = 1 .. n /\ \A k \in 1 .. n : q[k] \in H
  OBVIOUS
<1>2. g \in [(1 .. n) \X A -> A] /\ v \in A
  <2>1. ASSUME NEW t \in A, NEW h \in H PROVE AddHandler(t, Copy, h) \in A
    <3>1. t \in Good(H) /\ \A m \in 1 .. Document : Entry(t, m) = Entry(s, m)
      BY DEF CopyGood
    <3>2. /\ AddHandler(t, Copy, h) \in Good(H)
          /\ \A m \in Nodes \ {Copy} : Entry(AddHandler(t, Copy, h), m) = Entry(t, m)
      BY <3>1, AddHandlerGood, PageNodes
    <3> QED BY <3>1, <3>2, PageNodes DEF CopyGood
  <2> HIDE DEF A
  <2> QED BY <1>1, <2>1 DEF A
<1>3. \A k \in 1 .. n : \A w \in A : g[<<k, w>>] = AddHandler(w, Copy, q[k])
  OBVIOUS
<1> HIDE DEF g, A, n
<1>4. PICK F \in [SUBSET (1 .. n) -> A] : IsWalk(F, n, v, g)
  <2>1. WalkGiven(n, A, v, g)
    BY <1>1, <1>2 DEF WalkGiven
  <2> QED BY <2>1, WalkExists
<1>5. F = [T \in SUBSET D |-> IF T = {} THEN v ELSE AddHandler(F[T \ {Max(T)}], Copy, q[Max(T)])]
  <2>1. ASSUME NEW T \in SUBSET (1 .. n), T # {}
        PROVE  F[T] = AddHandler(F[T \ {Max(T)}], Copy, q[Max(T)])
    <3>1. Max(T) \in 1 .. n /\ F[T \ {Max(T)}] \in A
      BY <1>1, <1>4, <2>1, MaxIn
    <3> QED BY <1>3, <1>4, <2>1, <3>1 DEF IsWalk
  <2> QED BY <1>1, <1>4, <2>1 DEF IsWalk
<1>6. iter = [T \in SUBSET D |-> IF T = {} THEN v ELSE AddHandler(iter[T \ {Max(T)}], Copy, q[Max(T)])]
  BY <1>5
<1>7. AddAll(v, q) = iter[D]
  BY Zenon DEF AddAll, FoldLeft, MapThenFoldSet
<1> HIDE DEF iter, D
<1> DEFINE G == {k \in 0 .. n : iter[1 .. k] \in A}
<1>8. 0 \in G
  <2>1. 1 .. 0 = {} /\ {} \in SUBSET D
    OBVIOUS
  <2> QED BY <1>1, <1>2, <1>6, <2>1
<1>9. ASSUME NEW k \in 1 .. n, k - 1 \in G PROVE k \in G
  <2>1. /\ 1 .. k \in SUBSET D /\ 1 .. k # {}
        /\ Max(1 .. k) = k /\ (1 .. k) \ {k} = 1 .. k - 1
    BY <1>1, MaxOfInterval
  <2>2. iter[1 .. k] = AddHandler(iter[1 .. k - 1], Copy, q[k])
    BY <1>6, <2>1
  <2>3. iter[1 .. k] = g[<<k, iter[1 .. k - 1]>>]
    BY <2>2, <1>3, <1>9
  <2>4. g[<<k, iter[1 .. k - 1]>>] \in A
    BY <1>2, <1>9
  <2> QED BY <1>1, <2>3, <2>4
<1>10. n \in G
  <2> HIDE DEF G
  <2>1. \A k \in 0 .. n : k \in G
    BY <1>1, <1>8, <1>9, WalkInduction
  <2> QED BY <2>1, <1>1
<1> QED BY <1>1, <1>7, <1>10 DEF A

\* So do the lists of every type of the node that is copied.
LEMMA AddTypesGood ==
  ASSUME NEW H, NEW s, NEW v \in CopyGood(H, s), NEW e \in EntrySet(H)
  PROVE  FoldSet(LAMBDA type, w : AddAll(w, e.events[type]), v, DOMAIN e.events) \in CopyGood(H, s)
<1> DEFINE S == DOMAIN e.events
           A == CopyGood(H, s)
           g == [p \in S \X A |-> AddAll(p[2], e.events[p[1]])]
           c == [T \in SUBSET S |-> CHOOSE x \in T : TRUE]
           iter == CHOOSE f : f = [T \in SUBSET S |-> IF T = {} THEN v
                     ELSE AddAll(f[T \ {CHOOSE x \in T : TRUE}], e.events[CHOOSE x \in T : TRUE])]
<1>1. IsFiniteSet(S)
  BY EntryShape
<1>2. g \in [S \X A -> A]
  BY EntryShape, AddAllGood
<1>3. \A x \in S : \A t \in A : g[<<x, t>>] = AddAll(t, e.events[x])
  OBVIOUS
<1>4. \A T \in SUBSET S : T # {} => c[T] \in T
  OBVIOUS
<1>5. \A T \in SUBSET S : c[T] = CHOOSE x \in T : TRUE
  OBVIOUS
<1>6. v \in A
  OBVIOUS
<1>7. FoldSet(LAMBDA type, w : AddAll(w, e.events[type]), v, DOMAIN e.events) = iter[S]
  BY Zenon DEF FoldSet, MapThenFoldSet
<1> HIDE DEF g, A, c, S
<1>8. PICK F \in [SUBSET S -> A] : IsFold(F, S, v, g, c)
  <2>1. FoldGiven(S, A, v, g, c)
    BY <1>1, <1>2, <1>4, <1>6 DEF FoldGiven
  <2> QED BY <2>1, FoldExists
<1>9. \A T \in SUBSET S : F[T] = IF T = {} THEN v
          ELSE AddAll(F[T \ {CHOOSE x \in T : TRUE}], e.events[CHOOSE x \in T : TRUE])
  <2>1. ASSUME NEW T \in SUBSET S, T # {}
        PROVE  F[T] = AddAll(F[T \ {c[T]}], e.events[c[T]])
    <3>1. c[T] \in S /\ F[T \ {c[T]}] \in A
      BY <1>4, <2>1
    <3> QED BY <1>3, <1>8, <2>1, <3>1 DEF IsFold
  <2> QED BY <1>5, <1>8, <2>1 DEF IsFold
<1>10. F = [T \in SUBSET S |-> IF T = {} THEN v
              ELSE AddAll(F[T \ {CHOOSE x \in T : TRUE}], e.events[CHOOSE x \in T : TRUE])]
  BY <1>9
<1>11. iter = [T \in SUBSET S |-> IF T = {} THEN v
                 ELSE AddAll(iter[T \ {CHOOSE x \in T : TRUE}], e.events[CHOOSE x \in T : TRUE])]
  BY <1>10
<1> HIDE DEF iter
<1> DEFINE G == {T \in SUBSET S : iter[T] \in A}
<1>12. {} \in G
  BY <1>6, <1>11
<1>13. ASSUME NEW T \in SUBSET S, T # {}, \A x \in T : T \ {x} \in G PROVE T \in G
  <2>1. iter[T] = AddAll(iter[T \ {c[T]}], e.events[c[T]]) /\ c[T] \in S /\ iter[T \ {c[T]}] \in A
    <3>1. c[T] \in T /\ T \ {c[T]} \in G
      BY <1>4, <1>13
    <3>2. iter[T] = AddAll(iter[T \ {c[T]}], e.events[c[T]])
      <4> HIDE DEF G
      <4> QED BY <1>5, <1>11, <1>13
    <3> QED BY <3>1, <3>2
  <2>2. iter[T] = g[<<c[T], iter[T \ {c[T]}]>>]
    BY <2>1, <1>3
  <2> QED BY <2>1, <2>2, <1>2
<1>14. S \in G
  <2> HIDE DEF G
  <2>1. \A T \in SUBSET S : T # {} /\ (\A x \in T : T \ {x} \in G) => T \in G
    BY <1>13
  <2> QED BY <1>1, <1>12, <2>1, SubsetInduction
<1>15. iter[S] \in A
  BY <1>14
<1> QED BY <1>7, <1>15 DEF A

\* clone keeps the store in order, and changes nothing about the page.
LEMMA CopyEventsGood ==
  ASSUME NEW H, NEW s \in Good(H), NEW n \in 1 .. Document
  PROVE  CopyEvents(s, n) \in Good(H) /\ \A m \in 1 .. Document : Entry(CopyEvents(s, n), m) = Entry(s, m)
<1> DEFINE e == Entry(s, n)
           t == InternalData(s, Copy)
           u == WithEntry(t, Copy, [Entry(t, Copy) EXCEPT !.keys = e.keys])
           r == CopyEvents(s, n)
<1>0. n \in Nodes /\ Copy \in Nodes
  BY PageNodes
<1>1. e \in EntrySet(H)
  BY <1>0, EntryTyped DEF Good
<1>2. e.keys \in SUBSET Keys
  BY <1>1, EntryShape
<1>3. t \in Good(H) /\ HasData(t, Copy) /\ SameEntries(s, t)
  BY <1>0, InternalDataGood
<1> DEFINE ks == e.keys
<1> HIDE DEF t, ks
<1>4. WithEntry(t, Copy, [Entry(t, Copy) EXCEPT !.keys = ks]) \in Good(H)
  BY <1>0, <1>2, <1>3, WithKeysGood DEF ks
<1>5. u \in Good(H)
  BY <1>4 DEF ks
<1>6. \A m \in 1 .. Document : Entry(u, m) = Entry(s, m)
  <2>1. Entry(t, Copy) \in EntrySet(H)
    BY <1>0, <1>3, EntryTyped DEF Good
  <2> DEFINE d == [Entry(t, Copy) EXCEPT !.keys = ks]
  <2>2. d \in EntrySet(H)
    BY <2>1, <1>2 DEF EntrySet, ks
  <2>3. u = WithEntry(t, Copy, d)
    BY DEF ks
  <2> HIDE DEF d, u
  <2>4. \A m \in Nodes \ {Copy} : Entry(u, m) = Entry(t, m)
    BY <2>2, <2>3, <1>0, <1>3, WithEntryKeeps DEF Good
  <2> QED BY <2>4, <1>3, PageNodes DEF SameEntries
<1>7. r = IF IsEmptyDataObject(e) THEN s
          ELSE FoldSet(LAMBDA type, w : AddAll(w, e.events[type]), u, DOMAIN e.events)
  BY DEF CopyEvents, AddAll, t
<1>8. s \in CopyGood(H, s) /\ u \in CopyGood(H, s)
  BY <1>5, <1>6 DEF CopyGood
<1> HIDE DEF u, e
<1>9. FoldSet(LAMBDA type, w : AddAll(w, e.events[type]), u, DOMAIN e.events) \in CopyGood(H, s)
  BY <1>1, <1>8, AddTypesGood
<1>10. r \in CopyGood(H, s)
  BY <1>7, <1>8, <1>9
<1> QED BY <1>10 DEF CopyGood

\* data, removeData and reading of attributes.
LEMMA SetDataGood ==
  ASSUME NEW H, NEW s \in Good(H), NEW n \in Nodes, NEW k \in Keys
  PROVE  /\ SetData(s, n, k) \in Good(H) /\ Shrinks(s, SetData(s, n, k))
         /\ ReadData(s, n, k) \in Good(H) /\ Shrinks(s, ReadData(s, n, k))
<1> DEFINE t == InternalData(s, n)
           ks == Entry(t, n).keys \cup {k}
           r == WithEntry(t, n, [Entry(t, n) EXCEPT !.keys = ks])
<1>1. t \in Good(H) /\ HasData(t, n) /\ SameEntries(s, t)
  BY InternalDataGood
<1>2. SetData(s, n, k) = r
  BY DEF SetData
<1> HIDE DEF t
<1>3. Entry(t, n) \in EntrySet(H)
  BY <1>1, EntryTyped DEF Good
<1>4. ks \in SUBSET Keys
  BY <1>3, EntryShape
<1> HIDE DEF ks
<1>5. /\ r \in Good(H)
      /\ \A m \in Nodes : Entry(r, m).events = Entry(t, m).events
  BY <1>1, <1>4, WithKeysGood
<1> HIDE DEF r
<1>6. Shrinks(s, r)
  BY <1>1, <1>5 DEF SameEntries, Shrinks, Keeps
<1>7. Shrinks(s, s)
  BY DEF Shrinks
<1> QED BY <1>2, <1>5, <1>6, <1>7 DEF ReadData

\* removeData keeps a store good and takes no handler away.
LEMMA RemoveDataGood ==
  ASSUME NEW H, NEW s \in Good(H), NEW n \in Nodes, NEW ks
  PROVE  RemoveData(s, n, ks) \in Good(H) /\ Shrinks(s, RemoveData(s, n, ks))
<1> DEFINE r == RemoveData(s, n, ks)
           left == Entry(s, n).keys \ ks
           t == WithEntry(s, n, [Entry(s, n) EXCEPT !.keys = left])
<1>1. Shrinks(s, s)
  BY DEF Shrinks
<1>2. CASE ~HasData(s, n)
  BY <1>1, <1>2 DEF RemoveData
<1>3. CASE HasData(s, n)
  <2>1. Entry(s, n) \in EntrySet(H)
    BY EntryTyped DEF Good
  <2>2. left \in SUBSET Keys
    BY <2>1, EntryShape
  <2>3. r = IF left # {} THEN t ELSE DropIfEmpty(t, n)
    BY <1>3 DEF RemoveData
  <2> HIDE DEF left
  <2>4. /\ t \in Good(H)
        /\ \A m \in Nodes : HasData(t, m) <=> HasData(s, m)
        /\ \A m \in Nodes : Entry(t, m).events = Entry(s, m).events
    BY <1>3, <2>2, WithKeysGood
  <2> HIDE DEF t, r
  <2>5. Shrinks(s, t)
    BY <2>4 DEF Shrinks, Keeps
  <2>6. CASE left # {}
    BY <2>3, <2>4, <2>5, <2>6 DEF r
  <2>7. CASE left = {}
    <3>1. r \in Good(H) /\ SameEvents(t, r)
      BY <1>3, <2>3, <2>4, <2>7, DropIfEmptyGood
    <3>2. Shrinks(s, r)
      BY <3>1, <2>5, SameEventsUnique DEF Shrinks
    <3> QED BY <3>1, <3>2 DEF r
  <2> QED BY <2>6, <2>7
<1> QED BY <1>2, <1>3

\* More handlers might be there.
LEMMA GoodMonotone ==
  ASSUME NEW H, NEW J, H \subseteq J
  PROVE  Good(H) \subseteq Good(J)
<1>1. Types(H) \subseteq Types(J)
  BY DEF Types
<1>2. Seq(H) \subseteq Seq(J)
  OBVIOUS
<1>3. ASSUME NEW f \in EventsSet(H) PROVE f \in EventsSet(J)
  <2>1. /\ f \in [DOMAIN f -> Seq(H) \ {<<>>}]
        /\ DOMAIN f \subseteq Types(H) /\ IsFiniteSet(DOMAIN f)
    BY EventsTyped
  <2>2. f \in [DOMAIN f -> Seq(J) \ {<<>>}]
    BY <2>1, <1>2
  <2>3. DOMAIN f \subseteq Types(J)
    BY <2>1, <1>1
  <2> QED BY <2>1, <2>2, <2>3, EventsTyped
<1>4. EntrySet(H) \subseteq EntrySet(J)
  BY <1>3 DEF EntrySet
<1>5. ASSUME NEW s \in StoreSet(H) PROVE s \in StoreSet(J)
  <2>1. /\ s.cache \in [DOMAIN s.cache -> EntrySet(H)] /\ DOMAIN s.cache \subseteq Nat \ {0}
        /\ s.expando \in [Nodes -> Nat] /\ s.deletedIds \in Seq(Nat \ {0}) /\ s.guid \in Nat \ {0}
        /\ s.listeners \in [Nodes -> SUBSET (Types(H) \X Nat)] /\ s.attaches \in Int
    BY StoreTyped
  <2>2. s.cache \in [DOMAIN s.cache -> EntrySet(J)] /\ s.listeners \in [Nodes -> SUBSET (Types(J) \X Nat)]
    <3>1. s.cache \in [DOMAIN s.cache -> EntrySet(J)]
      BY <2>1, <1>4
    <3>2. SUBSET (Types(H) \X Nat) \subseteq SUBSET (Types(J) \X Nat)
      BY <1>1
    <3>3. s.listeners \in [Nodes -> SUBSET (Types(J) \X Nat)]
      BY <2>1, <3>2
    <3> QED BY <3>1, <3>3
  <2>3. s = [cache |-> s.cache, expando |-> s.expando, deletedIds |-> s.deletedIds, guid |-> s.guid,
             listeners |-> s.listeners, attaches |-> s.attaches]
    BY DEF StoreSet
  <2>4. s.cache \in UNION {[D -> EntrySet(J)] : D \in SUBSET (Nat \ {0})}
    BY <2>1, <2>2
  <2> QED BY <2>4, <2>3, <2>2, <2>1 DEF StoreSet
<1> QED BY <1>5 DEF Good

\* The first store is good.
LEMMA EmptyStoreGood == EmptyStore \in Good({})
<1> DEFINE s == EmptyStore
<1>1. s = [cache |-> <<>>, expando |-> [n \in Nodes |-> 0], deletedIds |-> <<>>, guid |-> 1,
           listeners |-> [n \in Nodes |-> {}], attaches |-> 0]
  BY DEF EmptyStore
<1>2. /\ s.cache = <<>> /\ s.expando = [n \in Nodes |-> 0] /\ s.deletedIds = <<>> /\ s.guid = 1
      /\ s.listeners = [n \in Nodes |-> {}] /\ s.attaches = 0
  BY <1>1
<1>3. s = [cache |-> s.cache, expando |-> s.expando, deletedIds |-> s.deletedIds, guid |-> s.guid,
           listeners |-> s.listeners, attaches |-> s.attaches]
  BY <1>1
<1> HIDE DEF s
<1>4. DOMAIN s.cache = {} /\ s.cache \in [DOMAIN s.cache -> EntrySet({})]
  BY <1>2
<1>5. s \in StoreSet({})
  <2>1. s.cache \in UNION {[D -> EntrySet({})] : D \in SUBSET (Nat \ {0})}
    BY <1>4
  <2>2. /\ s.expando \in [Nodes -> Nat] /\ s.deletedIds \in Seq(Nat \ {0}) /\ s.guid \in Nat \ {0}
        /\ s.listeners \in [Nodes -> SUBSET (Types({}) \X Nat)] /\ s.attaches \in Int
    BY <1>2
  <2> QED BY <1>3, <2>1, <2>2 DEF StoreSet
<1>6. Owns(s)
  <2>1. DOMAIN s.deletedIds = {}
    BY <1>2
  <2> QED BY <1>2, <1>4, <2>1 DEF Owns
<1>7. \A n \in Nodes : Entry(s, n) = NewEntry
  BY <1>2, <1>4 DEF Entry, HasData
<1>8. /\ DOMAIN NewEntry.events = {} /\ EntryOk(NewEntry) /\ Told(NewEntry) = {}
  BY NewEntryTyped
<1>9. InStep(s)
  <2>1. Focusing(s) = {}
    BY <1>7, <1>8 DEF Focusing
  <2>2. Cardinality(Focusing(s)) = 0
    BY <2>1, FS_EmptySet
  <2> QED BY <1>2, <1>7, <1>8, <2>2 DEF InStep
<1>10. Unique(s)
  BY <1>7, <1>8, PageNodes DEF Unique
<1> QED BY <1>5, <1>6, <1>9, <1>10 DEF Good, s

----------
(* The call stack.                                                          *)

----------
(* The path of a walk.                                                      *)

\* The types of events, and the stops of a walk.
EventTypes == {"", "click", "submit", "focus", "focusin"} \cup {t.type : t \in Triggers}
StopSet == [node : 1 .. Document, type : EventTypes, how : {"onclick", "handlers", "capture"}, first : BOOLEAN]

\* Sequences put one after another, as the folds of walks and queues do.
IsConcat(F, n, s) ==
  \A T \in SUBSET (1 .. n) : F[T] = IF T = {} THEN <<>> ELSE F[T \ {Max(T)}] \o s[Max(T)]

\* There is a fold that puts the sequences of s one after another.
LEMMA ConcatExists ==
  ASSUME NEW S, NEW n \in Nat, NEW s \in [1 .. n -> Seq(S)]
  PROVE  \E F \in [SUBSET (1 .. n) -> Seq(S)] : IsConcat(F, n, s)
<1> DEFINE A == Seq(S)
           g == [p \in (1 .. n) \X A |-> p[2] \o s[p[1]]]
<1>1. g \in [(1 .. n) \X A -> A] /\ <<>> \in A
  OBVIOUS
<1>2. \A k \in 1 .. n : \A q \in A : g[<<k, q>>] = q \o s[k]
  OBVIOUS
<1> HIDE DEF g, A
<1>3. PICK F \in [SUBSET (1 .. n) -> A] : IsWalk(F, n, <<>>, g)
  <2>1. WalkGiven(n, A, <<>>, g)
    BY <1>1 DEF WalkGiven
  <2> QED BY <2>1, WalkExists
<1>4. IsConcat(F, n, s)
  <2>1. ASSUME NEW T \in SUBSET (1 .. n), T # {} PROVE F[T] = F[T \ {Max(T)}] \o s[Max(T)]
    <3>1. Max(T) \in 1 .. n /\ F[T \ {Max(T)}] \in A
      BY <1>3, <2>1, MaxIn
    <3> QED BY <1>2, <1>3, <2>1, <3>1 DEF IsWalk
  <2> QED BY <1>3, <2>1 DEF IsWalk, IsConcat
<1> QED BY <1>3, <1>4 DEF A

\* f[k] is the first k sequences of s put one after another.
ConcatAfter(n, s, f) == f[0] = <<>> /\ \A k \in 1 .. n : f[k] = f[k - 1] \o s[k]

\* The fold does it one by one.
LEMMA ConcatSteps ==
  ASSUME NEW S, NEW n \in Nat, NEW s \in [1 .. n -> Seq(S)], NEW F, IsConcat(F, n, s)
  PROVE  \E f : ConcatAfter(n, s, f) /\ f[n] = F[1 .. n] /\ \A k \in 0 .. n : f[k] \in Seq(S)
<1> DEFINE f == [k \in 0 .. n |-> F[1 .. k]]
<1>1. f[0] = <<>>
  <2>1. 1 .. 0 = {} /\ {} \in SUBSET (1 .. n)
    OBVIOUS
  <2>2. F[{}] = <<>>
    BY <2>1 DEF IsConcat
  <2>3. f[0] = F[1 .. 0]
    OBVIOUS
  <2> HIDE DEF f
  <2> QED BY <2>1, <2>2, <2>3
<1>2. ASSUME NEW k \in 1 .. n PROVE f[k] = f[k - 1] \o s[k]
  <2>1. /\ 1 .. k \in SUBSET (1 .. n) /\ 1 .. k # {}
        /\ Max(1 .. k) = k /\ (1 .. k) \ {k} = 1 .. k - 1
    BY MaxOfInterval
  <2>2. f[k] = F[1 .. k] /\ f[k - 1] = F[1 .. k - 1]
    OBVIOUS
  <2> QED BY <2>1, <2>2 DEF IsConcat
<1>3. f[n] = F[1 .. n]
  OBVIOUS
<1> HIDE DEF f
<1> DEFINE G == {k \in 0 .. n : f[k] \in Seq(S)}
<1>4. 0 \in G
  <2>1. <<>> \in Seq(S) /\ 0 \in 0 .. n
    OBVIOUS
  <2> QED BY <1>1, <2>1
<1>5. ASSUME NEW k \in 1 .. n, k - 1 \in G PROVE k \in G
  <2>1. f[k - 1] \in Seq(S) /\ s[k] \in Seq(S) /\ k \in 0 .. n
    BY <1>5
  <2>2. f[k - 1] \o s[k] \in Seq(S)
    BY <2>1
  <2> QED BY <1>2, <2>1, <2>2
<1>6. \A k \in 0 .. n : k \in G
  <2> HIDE DEF G
  <2> QED BY <1>4, <1>5, WalkInduction
<1>7. ConcatAfter(n, s, f)
  BY <1>1, <1>2 DEF ConcatAfter
<1> QED BY <1>3, <1>6, <1>7

\* Ascending(a, b) is a, a + 1, ... b.
LEMMA AscendingIs ==
  ASSUME NEW a \in Nat, NEW b \in Int
  PROVE  /\ Ascending(a, b) \in Seq(a .. b)
         /\ Len(Ascending(a, b)) = IF a <= b THEN b - a + 1 ELSE 0
         /\ \A i \in 1 .. Len(Ascending(a, b)) : Ascending(a, b)[i] = a + i - 1
<1>1. CASE a <= b
  <2>1. b - a + 1 \in Nat
    BY <1>1
  <2>2. \A i \in 1 .. b - a + 1 : a + i - 1 \in a .. b
    BY <1>1
  <2> QED BY <2>1, <2>2, <1>1 DEF Ascending
<1>2. CASE ~(a <= b)
  <2>1. 1 .. b - a + 1 = {} /\ 1 .. 0 = {}
    BY <1>2
  <2>2. Ascending(a, b) = [i \in 1 .. 0 |-> a + i - 1]
    BY <2>1 DEF Ascending
  <2> QED BY <2>2, <1>2
<1> QED BY <1>1, <1>2

\* The stops at the nodes from a to b: two at each, of which the one that is called early
\* is the first.
Laid(w, a, b, type, early) ==
  /\ w \in Seq(StopSet)
  /\ \A k \in 1 .. Len(w) :
       /\ w[k].node \in a .. b /\ w[k].type = type /\ w[k].how \in {"onclick", "handlers"}
       /\ w[k].first <=> w[k].how = early
  /\ \A k, l \in 1 .. Len(w) :
       k < l => w[k].node <= w[l].node /\ (w[k].how = w[l].how => w[k].node < w[l].node)
  /\ \A k \in 1 .. Len(w) : w[k].how # early /\ k < Len(w) => w[k + 1].how = early
  /\ \A k \in 1 .. Len(w) : w[k].how = early => k < Len(w)

\* The two stops of a walk at a node: what it does there early and late.
Pair(n, type, early, late) == <<Stop(n, type, early, TRUE), Stop(n, type, late, FALSE)>>
\* A walk of the browser calls the onclick attribute first, one of jQuery's the handlers.
Hows(early, late) == {early, late} = {"onclick", "handlers"}

\* A sequence of two.
LEMMA TwoTyped ==
  ASSUME NEW S, NEW x \in S, NEW y \in S
  PROVE  <<x, y>> \in Seq(S) /\ Len(<<x, y>>) = 2 /\ <<x, y>>[1] = x /\ <<x, y>>[2] = y
OBVIOUS

\* The two stops are stops.
LEMMA PairTyped ==
  ASSUME NEW n \in 1 .. Document, NEW type \in EventTypes, NEW early, NEW late, Hows(early, late)
  PROVE  /\ Pair(n, type, early, late) \in Seq(StopSet)
         /\ Len(Pair(n, type, early, late)) = 2
         /\ Pair(n, type, early, late)[1] = Stop(n, type, early, TRUE)
         /\ Pair(n, type, early, late)[2] = Stop(n, type, late, FALSE)
         /\ Stop(n, type, early, TRUE) \in StopSet /\ Stop(n, type, late, FALSE) \in StopSet
<1>1. Stop(n, type, early, TRUE) \in StopSet /\ Stop(n, type, late, FALSE) \in StopSet
  BY DEF Stop, StopSet, Hows
<1> DEFINE x == Stop(n, type, early, TRUE)
           y == Stop(n, type, late, FALSE)
<1>2. Pair(n, type, early, late) = <<x, y>>
  BY DEF Pair
<1> HIDE DEF x, y
<1>3. x \in StopSet /\ y \in StopSet
  BY <1>1 DEF x, y
<1>4. <<x, y>> \in Seq(StopSet) /\ Len(<<x, y>>) = 2 /\ <<x, y>>[1] = x /\ <<x, y>>[2] = y
  BY <1>3, TwoTyped
<1> QED BY <1>1, <1>2, <1>4 DEF x, y

\* A path that is laid up to the node before n, and the stops at n, is laid up to n.
LEMMA LaidOne ==
  ASSUME NEW w, NEW a \in Nat, NEW n \in 1 .. Document, NEW type \in EventTypes, a <= n, NEW early, NEW late,
         Hows(early, late), Laid(w, a, n - 1, type, early)
  PROVE  Laid(w \o Pair(n, type, early, late), a, n, type, early)
<1> DEFINE p == Pair(n, type, early, late)
           x == Stop(n, type, early, TRUE)
           y == Stop(n, type, late, FALSE)
           r == w \o p
           m == Len(w)
<1>0. w \in Seq(StopSet)
  BY DEF Laid
<1>1. p \in Seq(StopSet) /\ Len(p) = 2 /\ p[1] = x /\ p[2] = y
  BY PairTyped
<1>2. /\ x.node = n /\ x.type = type /\ x.how = early /\ x.first = TRUE
      /\ y.node = n /\ y.type = type /\ y.how = late /\ y.first = FALSE
  BY DEF Stop
<1>3. early # late /\ early \in {"onclick", "handlers"} /\ late \in {"onclick", "handlers"}
  BY DEF Hows
<1> HIDE DEF p, x, y
<1>4. /\ r \in Seq(StopSet) /\ Len(r) = m + 2 /\ m \in Nat
      /\ \A k \in 1 .. m : r[k] = w[k]
      /\ r[m + 1] = x /\ r[m + 2] = y
  <2>0. Len(w) \in Nat
    BY <1>0
  <2>1. /\ w \o p \in Seq(StopSet) /\ Len(w \o p) = Len(w) + Len(p)
        /\ \A k \in 1 .. Len(w) + Len(p) : (w \o p)[k] = IF k <= Len(w) THEN w[k] ELSE p[k - Len(w)]
    BY <1>0, <1>1, ConcatProperties
  <2> HIDE DEF r
  <2>2. /\ r \in Seq(StopSet) /\ Len(r) = m + 2 /\ m \in Nat
        /\ \A k \in 1 .. m + 2 : r[k] = IF k <= m THEN w[k] ELSE p[k - m]
    BY <1>1, <2>0, <2>1 DEF r
  <2> HIDE DEF m
  <2>3. m + 1 \in 1 .. m + 2 /\ m + 2 \in 1 .. m + 2 /\ (m + 1) - m = 1 /\ (m + 2) - m = 2
    BY <2>2
  <2> QED BY <1>1, <2>2, <2>3
<1> HIDE DEF r, m
<1>5. /\ \A k \in 1 .. m :
           /\ w[k].node \in a .. n - 1 /\ w[k].type = type /\ w[k].how \in {"onclick", "handlers"}
           /\ w[k].first <=> w[k].how = early
      /\ \A k, l \in 1 .. m :
           k < l => w[k].node <= w[l].node /\ (w[k].how = w[l].how => w[k].node < w[l].node)
      /\ \A k \in 1 .. m : w[k].how # early /\ k < m => w[k + 1].how = early
      /\ \A k \in 1 .. m : w[k].how = early => k < m
  BY DEF Laid, m
<1>6. \A k \in 1 .. m + 2 : k \in 1 .. m \/ k = m + 1 \/ k = m + 2
  BY <1>4
<1>7. ASSUME NEW k \in 1 .. m + 2
      PROVE  /\ r[k].node \in a .. n /\ r[k].type = type /\ r[k].how \in {"onclick", "handlers"}
             /\ r[k].first <=> r[k].how = early
  BY <1>2, <1>3, <1>4, <1>5, <1>6
<1>8. ASSUME NEW k \in 1 .. m + 2, NEW l \in 1 .. m + 2, k < l
      PROVE  r[k].node <= r[l].node /\ (r[k].how = r[l].how => r[k].node < r[l].node)
  <2>1. CASE k \in 1 .. m /\ l \in 1 .. m
    BY <2>1, <1>4, <1>5, <1>8
  <2>2. CASE k \in 1 .. m /\ l \notin 1 .. m
    <3>1. r[l].node = n /\ r[k].node \in a .. n - 1
      BY <2>2, <1>2, <1>4, <1>5, <1>6
    <3> QED BY <3>1
  <2>3. CASE k \notin 1 .. m
    <3>1. k = m + 1 /\ l = m + 2
      BY <2>3, <1>4, <1>6, <1>8
    <3> QED BY <3>1, <1>2, <1>3, <1>4
  <2> QED BY <2>1, <2>2, <2>3
<1>9. ASSUME NEW k \in 1 .. m + 2, r[k].how # early, k < m + 2 PROVE r[k + 1].how = early
  <2>1. k # m + 1
    BY <1>2, <1>4, <1>9
  <2>2. k \in 1 .. m
    BY <2>1, <1>6, <1>9, <1>4
  <2>3. CASE k = m
    BY <2>3, <1>2, <1>4
  <2>4. CASE k # m
    <3>1. k < m /\ k + 1 \in 1 .. m
      BY <2>2, <2>4, <1>4
    <3> QED BY <3>1, <2>2, <1>4, <1>5, <1>9
  <2> QED BY <2>3, <2>4
<1>10. ASSUME NEW k \in 1 .. m + 2, r[k].how = early PROVE k < m + 2
  BY <1>2, <1>3, <1>4, <1>10
<1> QED BY <1>4, <1>7, <1>8, <1>9, <1>10 DEF Laid, r, p

\* The stops of each of the nodes from a on.
PairsFrom(a, n, type, early, late) == [k \in 1 .. n |-> Pair(a + k - 1, type, early, late)]
\* The nodes from a to b are nodes of the page.
Between(a, b) == a \in 1 .. Document + 1 /\ b \in a - 1 .. Document

\* They are the values of Ascending.
LEMMA WalkNodes ==
  ASSUME NEW a, NEW b, Between(a, b)
  PROVE  /\ Len(Ascending(a, b)) = b - a + 1 /\ b - a + 1 \in Nat
         /\ DOMAIN Ascending(a, b) = 1 .. b - a + 1
         /\ \A k \in 1 .. b - a + 1 : Ascending(a, b)[k] = a + k - 1 /\ a + k - 1 \in 1 .. Document
<1>1. a \in Nat /\ b \in Int /\ b - a + 1 \in Nat
  BY DocumentAssumption DEF Between
<1>2. /\ Ascending(a, b) \in Seq(a .. b)
      /\ Len(Ascending(a, b)) = IF a <= b THEN b - a + 1 ELSE 0
      /\ \A i \in 1 .. Len(Ascending(a, b)) : Ascending(a, b)[i] = a + i - 1
  BY <1>1, AscendingIs
<1>3. Len(Ascending(a, b)) = b - a + 1
  BY <1>1, <1>2
<1>4. \A k \in 1 .. b - a + 1 : a + k - 1 \in 1 .. Document
  BY <1>1, DocumentAssumption DEF Between
<1>5. DOMAIN Ascending(a, b) = 1 .. Len(Ascending(a, b))
  BY <1>2
<1> QED BY <1>1, <1>2, <1>3, <1>4, <1>5

\* The stops at each of them are stops.
LEMMA PairsTyped ==
  ASSUME NEW a, NEW b, Between(a, b), NEW n, n = b - a + 1,
         NEW type \in EventTypes, NEW early, NEW late, Hows(early, late)
  PROVE  PairsFrom(a, n, type, early, late) \in [1 .. n -> Seq(StopSet)]
<1>1. \A k \in 1 .. n : a + k - 1 \in 1 .. Document
  BY WalkNodes
<1>2. \A k \in 1 .. n : Pair(a + k - 1, type, early, late) \in Seq(StopSet)
  BY <1>1, PairTyped
<1> QED BY <1>2 DEF PairsFrom

\* Put one after another they are a path that is laid.
LEMMA PairsLaid ==
  ASSUME NEW a, NEW b, Between(a, b), NEW n, n = b - a + 1,
         NEW type \in EventTypes, NEW early, NEW late, Hows(early, late),
         NEW F, IsConcat(F, n, PairsFrom(a, n, type, early, late))
  PROVE  Laid(F[1 .. n], a, b, type, early)
<1> DEFINE s == PairsFrom(a, n, type, early, late)
<1>1. n \in Nat /\ a \in Nat /\ b \in Int
  BY WalkNodes, DocumentAssumption DEF Between
<1>2. s \in [1 .. n -> Seq(StopSet)]
  BY PairsTyped
<1>3. \A k \in 1 .. n : s[k] = Pair(a + k - 1, type, early, late) /\ a + k - 1 \in 1 .. Document
  BY WalkNodes DEF PairsFrom
<1> HIDE DEF s
<1>4. PICK f : ConcatAfter(n, s, f) /\ f[n] = F[1 .. n] /\ \A k \in 0 .. n : f[k] \in Seq(StopSet)
  BY <1>1, <1>2, ConcatSteps DEF s
<1> DEFINE G == {k \in 0 .. n : Laid(f[k], a, a + k - 1, type, early)}
<1>5. 0 \in G
  <2>1. f[0] = <<>> /\ f[0] \in Seq(StopSet)
    BY <1>1, <1>4 DEF ConcatAfter
  <2>2. Len(f[0]) = 0
    BY <2>1
  <2>3. Laid(f[0], a, a + 0 - 1, type, early)
    BY <2>1, <2>2 DEF Laid
  <2> QED BY <2>3, <1>1
<1>6. ASSUME NEW k \in 1 .. n, k - 1 \in G PROVE k \in G
  <2> DEFINE m == a + k - 1
  <2>1. m \in 1 .. Document /\ a <= m /\ m - 1 = a + (k - 1) - 1 /\ k \in 0 .. n
    <3>1. m \in 1 .. Document
      BY <1>3
    <3>2. k \in 1 .. n /\ n \in Nat /\ a \in Nat
      BY <1>1
    <3>3. a <= m /\ m - 1 = a + (k - 1) - 1 /\ k \in 0 .. n
      BY <3>2
    <3> QED BY <3>1, <3>3
  <2>2. Laid(f[k - 1], a, m - 1, type, early)
    BY <1>6, <2>1
  <2>3. f[k] = f[k - 1] \o Pair(m, type, early, late)
    BY <1>3, <1>4 DEF ConcatAfter
  <2> HIDE DEF m
  <2>4. Laid(f[k - 1] \o Pair(m, type, early, late), a, m, type, early)
    BY <1>1, <2>1, <2>2, LaidOne
  <2> QED BY <2>1, <2>3, <2>4 DEF m
<1>7. n \in G
  <2> HIDE DEF G
  <2>1. \A k \in 0 .. n : k \in G
    BY <1>1, <1>5, <1>6, WalkInduction
  <2> QED BY <2>1, <1>1
<1>8. a + n - 1 = b
  BY <1>1
<1> QED BY <1>4, <1>7, <1>8

\* The path of a walk of the browser is laid.
LEMMA NativeWalkLaid ==
  ASSUME NEW a, NEW b, Between(a, b), NEW type \in EventTypes
  PROVE  Laid(Walk(a, b, LAMBDA n : NativeStops(n, type)), a, b, type, "onclick")
<1> DEFINE q == Ascending(a, b)
           D == DOMAIN q
           m == b - a + 1
           s == PairsFrom(a, m, type, "onclick", "handlers")
           iter == CHOOSE f : f = [T \in SUBSET D |-> IF T = {} THEN <<>> ELSE f[T \ {Max(T)}] \o NativeStops(q[Max(T)], type)]
<1>1. /\ m \in Nat /\ D = 1 .. m
      /\ \A k \in 1 .. m : q[k] = a + k - 1
  BY WalkNodes
<1>2. Hows("onclick", "handlers")
  BY DEF Hows
<1>3. s \in [1 .. m -> Seq(StopSet)] /\ \A k \in 1 .. m : s[k] = NativeStops(q[k], type)
  <2>1. s \in [1 .. m -> Seq(StopSet)]
    BY <1>2, PairsTyped
  <2>2. \A k \in 1 .. m : s[k] = NativeStops(q[k], type)
    BY <1>1 DEF PairsFrom, Pair, NativeStops
  <2> QED BY <2>1, <2>2
<1>4. Walk(a, b, LAMBDA n : NativeStops(n, type)) = iter[D]
  BY Zenon DEF Walk, FoldLeft, MapThenFoldSet
<1> HIDE DEF q, D, s, m
<1>5. PICK F \in [SUBSET (1 .. m) -> Seq(StopSet)] : IsConcat(F, m, s)
  BY <1>1, <1>3, ConcatExists
<1>6. \A T \in SUBSET (1 .. m) : T # {} => s[Max(T)] = NativeStops(q[Max(T)], type)
  BY <1>1, <1>3, MaxIn
<1>7. F = [T \in SUBSET D |-> IF T = {} THEN <<>> ELSE F[T \ {Max(T)}] \o NativeStops(q[Max(T)], type)]
  BY <1>1, <1>5, <1>6 DEF IsConcat
<1>8. iter = [T \in SUBSET D |-> IF T = {} THEN <<>> ELSE iter[T \ {Max(T)}] \o NativeStops(q[Max(T)], type)]
  BY <1>7
<1> HIDE DEF iter
<1>9. IsConcat(iter, m, s)
  BY <1>1, <1>6, <1>8 DEF IsConcat
<1>10. Laid(iter[1 .. m], a, b, type, "onclick")
  BY <1>2, <1>9, PairsLaid DEF m, s
<1> QED BY <1>1, <1>4, <1>10

\* So is that of a walk of jQuery.trigger.
LEMMA TriggerWalkLaid ==
  ASSUME NEW a, NEW b, Between(a, b), NEW type \in EventTypes
  PROVE  Laid(Walk(a, b, LAMBDA n : TriggerStops(n, type)), a, b, type, "handlers")
<1> DEFINE q == Ascending(a, b)
           D == DOMAIN q
           m == b - a + 1
           s == PairsFrom(a, m, type, "handlers", "onclick")
           iter == CHOOSE f : f = [T \in SUBSET D |-> IF T = {} THEN <<>> ELSE f[T \ {Max(T)}] \o TriggerStops(q[Max(T)], type)]
<1>1. /\ m \in Nat /\ D = 1 .. m
      /\ \A k \in 1 .. m : q[k] = a + k - 1
  BY WalkNodes
<1>2. Hows("handlers", "onclick")
  BY DEF Hows
<1>3. s \in [1 .. m -> Seq(StopSet)] /\ \A k \in 1 .. m : s[k] = TriggerStops(q[k], type)
  <2>1. s \in [1 .. m -> Seq(StopSet)]
    BY <1>2, PairsTyped
  <2>2. \A k \in 1 .. m : s[k] = TriggerStops(q[k], type)
    BY <1>1 DEF PairsFrom, Pair, TriggerStops
  <2> QED BY <2>1, <2>2
<1>4. Walk(a, b, LAMBDA n : TriggerStops(n, type)) = iter[D]
  BY Zenon DEF Walk, FoldLeft, MapThenFoldSet
<1> HIDE DEF q, D, s, m
<1>5. PICK F \in [SUBSET (1 .. m) -> Seq(StopSet)] : IsConcat(F, m, s)
  BY <1>1, <1>3, ConcatExists
<1>6. \A T \in SUBSET (1 .. m) : T # {} => s[Max(T)] = TriggerStops(q[Max(T)], type)
  BY <1>1, <1>3, MaxIn
<1>7. F = [T \in SUBSET D |-> IF T = {} THEN <<>> ELSE F[T \ {Max(T)}] \o TriggerStops(q[Max(T)], type)]
  BY <1>1, <1>5, <1>6 DEF IsConcat
<1>8. iter = [T \in SUBSET D |-> IF T = {} THEN <<>> ELSE iter[T \ {Max(T)}] \o TriggerStops(q[Max(T)], type)]
  BY <1>7
<1> HIDE DEF iter
<1>9. IsConcat(iter, m, s)
  BY <1>1, <1>6, <1>8 DEF IsConcat
<1>10. Laid(iter[1 .. m], a, b, type, "handlers")
  BY <1>2, <1>9, PairsLaid DEF m, s
<1> QED BY <1>1, <1>4, <1>10

\* How far a node is connected.
LEMMA OutermostIn ==
  ASSUME NEW n \in 1 .. Document
  PROVE  Outermost(n) \in n .. Document
<1> DEFINE S == {m \in n .. Document : \A k \in n .. m - 1 : k \in inPage}
<1>1. Outwards(n) = S
  BY DEF Outwards
<1>2. n \in S
  BY DocumentAssumption
<1>3. S \in SUBSET (1 .. Document) /\ S \subseteq n .. Document
  BY DocumentAssumption
<1> HIDE DEF S
<1>4. Max(S) \in S
  BY <1>2, <1>3, MaxIn, DocumentAssumption
<1> QED BY <1>1, <1>3, <1>4 DEF Outermost

----------
(* The queue of a dispatch.                                                 *)

\* The entries of a dispatch's queue.
QueueSet(H) == [elem : 1 .. Document, h : H]

\* A queue of handlers of R for the nodes from a to b, from the inside out, where no
\* handler is twice for a node.
Taken(q, H, R, a, b) ==
  /\ q \in Seq(QueueSet(H))
  /\ \A k \in 1 .. Len(q) : q[k].elem \in a .. b /\ q[k].h \in R
  /\ \A k, l \in 1 .. Len(q) :
       k < l => q[k].elem <= q[l].elem /\ (q[k].elem = q[l].elem => q[k].h.hid # q[l].h.hid)

\* A list of handlers of R, all different.
Listed(q, H, R) ==
  /\ q \in Seq(H)
  /\ \A i \in 1 .. Len(q) : q[i] \in R
  /\ \A i, j \in 1 .. Len(q) : q[i].hid = q[j].hid => i = j

\* Nothing is taken from anywhere.
LEMMA TakenNone ==
  ASSUME NEW H, NEW R, NEW a, NEW b
  PROVE  Taken(<<>>, H, R, a, b)
<1> DEFINE q == <<>>
<1>1. q \in Seq(QueueSet(H)) /\ Len(q) = 0
  OBVIOUS
<1> HIDE DEF q
<1>2. Taken(q, H, R, a, b)
  BY <1>1 DEF Taken
<1> QED BY <1>2 DEF q

\* What is taken at the nodes from a to b, followed by what is taken at later ones.
LEMMA TakenThen ==
  ASSUME NEW H, NEW R, NEW a \in Nat, NEW b \in Int, NEW c \in Int, NEW d \in Int, a <= c, b < c, b <= d, NEW q, NEW p,
         Taken(q, H, R, a, b), Taken(p, H, R, c, d)
  PROVE  Taken(q \o p, H, R, a, d)
<1> DEFINE r == q \o p
           m == Len(q)
           n == Len(p)
<1>1. q \in Seq(QueueSet(H)) /\ p \in Seq(QueueSet(H))
  BY DEF Taken
<1>2. m \in Nat /\ n \in Nat
  BY <1>1
<1>3. /\ q \o p \in Seq(QueueSet(H)) /\ Len(q \o p) = Len(q) + Len(p)
      /\ \A k \in 1 .. Len(q) + Len(p) : (q \o p)[k] = IF k <= Len(q) THEN q[k] ELSE p[k - Len(q)]
  BY <1>1, ConcatProperties
<1> HIDE DEF r
<1>4. /\ r \in Seq(QueueSet(H)) /\ Len(r) = m + n
      /\ \A k \in 1 .. m + n : r[k] = IF k <= m THEN q[k] ELSE p[k - m]
  BY <1>3 DEF r
<1>5. /\ \A k \in 1 .. m : q[k].elem \in a .. b /\ q[k].h \in R
      /\ \A k, l \in 1 .. m :
           k < l => q[k].elem <= q[l].elem /\ (q[k].elem = q[l].elem => q[k].h.hid # q[l].h.hid)
      /\ \A k \in 1 .. n : p[k].elem \in c .. d /\ p[k].h \in R
      /\ \A k, l \in 1 .. n :
           k < l => p[k].elem <= p[l].elem /\ (p[k].elem = p[l].elem => p[k].h.hid # p[l].h.hid)
  BY DEF Taken
<1> HIDE DEF m, n
<1>6. \A k \in 1 .. m + n : (k \in 1 .. m /\ r[k] = q[k]) \/ (k > m /\ k - m \in 1 .. n /\ r[k] = p[k - m])
  BY <1>2, <1>4
<1>7. ASSUME NEW k \in 1 .. m + n PROVE r[k].elem \in a .. d /\ r[k].h \in R
  <2>1. CASE k \in 1 .. m /\ r[k] = q[k]
    BY <2>1, <1>5
  <2>2. CASE k > m /\ k - m \in 1 .. n /\ r[k] = p[k - m]
    BY <2>2, <1>5
  <2> QED BY <2>1, <2>2, <1>6
<1>8. ASSUME NEW k \in 1 .. m + n, NEW l \in 1 .. m + n, k < l
      PROVE  r[k].elem <= r[l].elem /\ (r[k].elem = r[l].elem => r[k].h.hid # r[l].h.hid)
  <2>1. CASE l \in 1 .. m /\ r[l] = q[l]
    <3>1. k \in 1 .. m /\ r[k] = q[k]
      BY <2>1, <1>2, <1>6, <1>8
    <3> QED BY <2>1, <3>1, <1>5, <1>8
  <2>2. CASE l > m /\ l - m \in 1 .. n /\ r[l] = p[l - m]
    <3>1. r[l].elem \in c .. d
      BY <2>2, <1>5
    <3>2. CASE k \in 1 .. m /\ r[k] = q[k]
      <4>1. r[k].elem \in a .. b
        BY <3>2, <1>5
      <4> QED BY <3>1, <4>1
    <3>3. CASE k > m /\ k - m \in 1 .. n /\ r[k] = p[k - m]
      <4>1. k - m < l - m
        BY <1>2, <1>8
      <4> QED BY <3>3, <2>2, <4>1, <1>5
    <3> QED BY <3>2, <3>3, <1>6
  <2> QED BY <2>1, <2>2, <1>6
<1>9. Taken(r, H, R, a, d)
  BY <1>4, <1>7, <1>8 DEF Taken
<1> QED BY <1>9 DEF r

\* The handlers that match one node.
MatchedAfter(handlers, m, f) ==
  /\ f[0] = <<>>
  /\ \A k \in 1 .. Len(handlers) :
       f[k] = IF m \in handlers[k].selector THEN Append(f[k - 1], [elem |-> m, h |-> handlers[k]]) ELSE f[k - 1]
  /\ MatchesAt(handlers, m) = f[Len(handlers)]

\* MatchesAt goes through the handlers one by one.
LEMMA MatchesSteps ==
  ASSUME NEW H, NEW handlers \in Seq(H), NEW m \in 1 .. Document
  PROVE  \E f \in [0 .. Len(handlers) -> Seq(QueueSet(H))] : MatchedAfter(handlers, m, f)
<1> DEFINE n == Len(handlers)
           D == DOMAIN handlers
           A == Seq(QueueSet(H))
           e(h) == [elem |-> m, h |-> h]
           g == [p \in (1 .. n) \X A |-> IF m \in handlers[p[1]].selector THEN Append(p[2], e(handlers[p[1]])) ELSE p[2]]
           iter == CHOOSE f : f = [T \in SUBSET D |-> IF T = {} THEN <<>>
                     ELSE IF m \in handlers[Max(T)].selector
                          THEN Append(f[T \ {Max(T)}], [elem |-> m, h |-> handlers[Max(T)]])
                          ELSE f[T \ {Max(T)}]]
<1>0. \A q \in A : \A x \in QueueSet(H) : Append(q, x) \in A
  BY AppendProperties
<1>1. n \in Nat /\ D = 1 .. n /\ \A k \in 1 .. n : handlers[k] \in H
  OBVIOUS
<1>2. g \in [(1 .. n) \X A -> A] /\ <<>> \in A
  <2>1. \A h \in H : e(h) \in QueueSet(H)
    BY DEF QueueSet
  <2>2. <<>> \in A
    OBVIOUS
  <2> HIDE DEF A, e
  <2> QED BY <1>0, <1>1, <2>1, <2>2
<1>3. \A k \in 1 .. n : \A q \in A :
        g[<<k, q>>] = IF m \in handlers[k].selector THEN Append(q, [elem |-> m, h |-> handlers[k]]) ELSE q
  OBVIOUS
<1>7. MatchesAt(handlers, m) = iter[D]
  BY Zenon DEF MatchesAt, FoldLeft, MapThenFoldSet
<1> HIDE DEF g, A, n
<1>4. PICK F \in [SUBSET (1 .. n) -> A] : IsWalk(F, n, <<>>, g)
  <2>1. WalkGiven(n, A, <<>>, g)
    BY <1>1, <1>2 DEF WalkGiven
  <2> QED BY <2>1, WalkExists
<1>5. F = [T \in SUBSET D |-> IF T = {} THEN <<>>
             ELSE IF m \in handlers[Max(T)].selector
                  THEN Append(F[T \ {Max(T)}], [elem |-> m, h |-> handlers[Max(T)]])
                  ELSE F[T \ {Max(T)}]]
  <2>1. ASSUME NEW T \in SUBSET (1 .. n), T # {}
        PROVE  F[T] = IF m \in handlers[Max(T)].selector
                      THEN Append(F[T \ {Max(T)}], [elem |-> m, h |-> handlers[Max(T)]])
                      ELSE F[T \ {Max(T)}]
    <3>1. Max(T) \in 1 .. n /\ F[T \ {Max(T)}] \in A
      BY <1>1, <1>4, <2>1, MaxIn
    <3> QED BY <1>3, <1>4, <2>1, <3>1 DEF IsWalk
  <2> QED BY <1>1, <1>4, <2>1 DEF IsWalk
<1>6. iter = [T \in SUBSET D |-> IF T = {} THEN <<>>
             ELSE IF m \in handlers[Max(T)].selector
                  THEN Append(iter[T \ {Max(T)}], [elem |-> m, h |-> handlers[Max(T)]])
                  ELSE iter[T \ {Max(T)}]]
  BY <1>5
<1> HIDE DEF iter, D
<1> DEFINE f == [k \in 0 .. n |-> iter[1 .. k]]
<1>8. f[0] = <<>>
  <2>1. 1 .. 0 = {} /\ {} \in SUBSET D
    OBVIOUS
  <2> QED BY <1>1, <1>6, <2>1
<1>9. ASSUME NEW k \in 1 .. n
      PROVE  f[k] = IF m \in handlers[k].selector THEN Append(f[k - 1], [elem |-> m, h |-> handlers[k]]) ELSE f[k - 1]
  <2>1. /\ 1 .. k \in SUBSET D /\ 1 .. k # {}
        /\ Max(1 .. k) = k /\ (1 .. k) \ {k} = 1 .. k - 1
    BY <1>1, MaxOfInterval
  <2>2. f[k] = iter[1 .. k] /\ f[k - 1] = iter[1 .. k - 1]
    BY <1>1
  <2>3. iter[1 .. k] = IF m \in handlers[k].selector
                       THEN Append(iter[1 .. k - 1], [elem |-> m, h |-> handlers[k]])
                       ELSE iter[1 .. k - 1]
    <3> HIDE DEF f
    <3>1. \A T \in SUBSET D : T # {} =>
            iter[T] = IF m \in handlers[Max(T)].selector
                      THEN Append(iter[T \ {Max(T)}], [elem |-> m, h |-> handlers[Max(T)]])
                      ELSE iter[T \ {Max(T)}]
      BY <1>6, Zenon
    <3> QED BY <3>1, <2>1, Zenon
  <2> HIDE DEF f
  <2> QED BY <2>2, <2>3
<1>10. f[n] = iter[D]
  BY <1>1
<1>11. \A k \in 0 .. n : f[k] \in A
  <2> DEFINE G == {k \in 0 .. n : f[k] \in A}
  <2>1. 0 \in G
    BY <1>1, <1>2, <1>8
  <2>2. ASSUME NEW k \in 1 .. n, k - 1 \in G PROVE k \in G
    <3>1. f[k - 1] \in A /\ handlers[k] \in H /\ k \in 0 .. n
      BY <1>1, <2>2
    <3>2. f[k] = g[<<k, f[k - 1]>>]
      BY <1>3, <1>9, <3>1
    <3>3. f[k] \in A
      BY <1>2, <3>1, <3>2
    <3> QED BY <3>1, <3>3
  <2> HIDE DEF f
  <2>3. \A k \in 0 .. n : k \in G
    <3> HIDE DEF G
    <3> QED BY <1>1, <2>1, <2>2, WalkInduction
  <2> QED BY <2>3
<1>12. f \in [0 .. n -> A]
  BY <1>11
<1> HIDE DEF f
<1>13. MatchedAfter(handlers, m, f)
  BY <1>7, <1>8, <1>9, <1>10 DEF n, MatchedAfter
<1>14. f \in [0 .. Len(handlers) -> Seq(QueueSet(H))]
  BY <1>12 DEF n, A
<1> QED BY <1>13, <1>14

\* What it finds is taken from the handlers, at the node that is looked at.
LEMMA MatchesTaken ==
  ASSUME NEW H, NEW R, NEW handlers, Listed(handlers, H, R), NEW m \in 1 .. Document
  PROVE  Taken(MatchesAt(handlers, m), H, R, m, m)
<1> DEFINE n == Len(handlers)
<1>1. /\ handlers \in Seq(H) /\ n \in Nat
      /\ \A i \in 1 .. n : handlers[i] \in R /\ handlers[i] \in H
      /\ \A i, j \in 1 .. n : handlers[i].hid = handlers[j].hid => i = j
  BY DEF Listed
<1>2. PICK f \in [0 .. n -> Seq(QueueSet(H))] : MatchedAfter(handlers, m, f)
  BY <1>1, MatchesSteps
<1> DEFINE Upto(k) == /\ Taken(f[k], H, R, m, m)
                      /\ \A i \in 1 .. Len(f[k]) : \E a \in 1 .. k : f[k][i].h = handlers[a]
           G == {k \in 0 .. n : Upto(k)}
<1>3. 0 \in G
  <2>1. f[0] = <<>>
    BY <1>2 DEF MatchedAfter
  <2>2. Taken(f[0], H, R, m, m)
    BY <2>1, TakenNone
  <2>3. 0 \in 0 .. n
    BY <1>1
  <2>4. Len(f[0]) = 0
    BY <2>1
  <2> QED BY <2>2, <2>3, <2>4
<1>4. ASSUME NEW k \in 1 .. n, k - 1 \in G PROVE k \in G
  <2>1. k \in 0 .. n /\ k - 1 \in 0 .. n /\ Upto(k - 1)
    BY <1>1, <1>4
  <2>2. CASE m \notin handlers[k].selector
    <3>1. f[k] = f[k - 1]
      BY <1>2, <2>2 DEF MatchedAfter
    <3> QED BY <2>1, <3>1
  <2>3. CASE m \in handlers[k].selector
    <3> DEFINE x == [elem |-> m, h |-> handlers[k]]
               q == f[k - 1]
               r == f[k]
    <3>1. r = Append(q, x)
      BY <1>2, <2>3 DEF MatchedAfter
    <3>2. x \in QueueSet(H) /\ x.elem = m /\ x.h = handlers[k] /\ x.h \in R
      BY <1>1 DEF QueueSet
    <3>3. q \in Seq(QueueSet(H))
      BY <2>1 DEF Taken
    <3> HIDE DEF x, q, r
    <3>4. /\ r \in Seq(QueueSet(H)) /\ Len(r) = Len(q) + 1 /\ Len(q) \in Nat
          /\ \A i \in 1 .. Len(q) : r[i] = q[i]
          /\ r[Len(q) + 1] = x
      BY <3>1, <3>2, <3>3, AppendProperties
    <3>0. Taken(q, H, R, m, m) /\ \A i \in 1 .. Len(q) : \E a \in 1 .. k - 1 : q[i].h = handlers[a]
      BY <2>1 DEF q
    <3>5. /\ \A i \in 1 .. Len(q) : q[i].elem \in m .. m /\ q[i].h \in R
          /\ \A i, j \in 1 .. Len(q) : i < j => q[i].elem <= q[j].elem /\ (q[i].elem = q[j].elem => q[i].h.hid # q[j].h.hid)
          /\ \A i \in 1 .. Len(q) : \E a \in 1 .. k - 1 : q[i].h = handlers[a]
      BY <3>0 DEF Taken
    <3>6. \A i \in 1 .. Len(r) : i \in 1 .. Len(q) \/ i = Len(q) + 1
      BY <3>4
    <3>7. \A i \in 1 .. Len(r) : r[i].elem \in m .. m /\ r[i].h \in R
      BY <3>2, <3>4, <3>5, <3>6
    <3>8. ASSUME NEW i \in 1 .. Len(q) PROVE q[i].h.hid # x.h.hid
      <4>1. PICK a \in 1 .. k - 1 : q[i].h = handlers[a]
        BY <3>5
      <4>2. a \in 1 .. n /\ a # k
        BY <1>1
      <4> QED BY <1>1, <3>2, <4>1, <4>2
    <3>9. ASSUME NEW i \in 1 .. Len(r), NEW j \in 1 .. Len(r), i < j
          PROVE  r[i].elem <= r[j].elem /\ (r[i].elem = r[j].elem => r[i].h.hid # r[j].h.hid)
      <4>1. r[i].elem <= r[j].elem
        BY <3>7
      <4>2. i \in 1 .. Len(q)
        BY <3>4, <3>6, <3>9
      <4>3. CASE j \in 1 .. Len(q)
        BY <4>1, <4>2, <4>3, <3>4, <3>5, <3>9
      <4>4. CASE j = Len(q) + 1
        BY <4>1, <4>2, <4>4, <3>4, <3>8
      <4> QED BY <4>3, <4>4, <3>6
    <3>10. Taken(r, H, R, m, m)
      BY <3>4, <3>7, <3>9 DEF Taken
    <3>11. ASSUME NEW i \in 1 .. Len(r) PROVE \E a \in 1 .. k : r[i].h = handlers[a]
      <4>1. CASE i \in 1 .. Len(q)
        <5>1. PICK a \in 1 .. k - 1 : q[i].h = handlers[a]
          BY <3>5, <4>1
        <5>2. a \in 1 .. k
          BY <1>1
        <5> QED BY <4>1, <5>1, <5>2, <3>4
      <4>2. CASE i = Len(q) + 1
        <5>1. k \in 1 .. k
          BY <1>1
        <5> QED BY <4>2, <5>1, <3>2, <3>4
      <4> QED BY <4>1, <4>2, <3>6
    <3> QED BY <2>1, <3>10, <3>11 DEF r
  <2> QED BY <2>2, <2>3
<1>5. n \in G
  <2> HIDE DEF G
  <2>1. \A k \in 0 .. n : k \in G
    BY <1>1, <1>3, <1>4, WalkInduction
  <2> QED BY <2>1, <1>1
<1>6. MatchesAt(handlers, m) = f[n]
  BY <1>2 DEF MatchedAfter
<1> QED BY <1>5, <1>6

\* The nodes whose delegates a dispatch looks for.
Innermost(ev, type) == IF ev.target = 1 /\ kind = "disabled" /\ type = "click" THEN 2 ELSE ev.target
\* The last node that a dispatch at n looks at for delegates.
LastInner(n, ev) == Min({n - 1, Outermost(ev.target)})

\* A dispatch looks for delegates from the target on, or the node after it, to the node before n.
LEMMA InnerNodes ==
  ASSUME NEW n \in 1 .. Document, NEW ev, ev.target \in 1 .. Document, NEW type
  PROVE  /\ Innermost(ev, type) \in Nat /\ LastInner(n, ev) \in Int
         /\ ev.target <= Innermost(ev, type) /\ LastInner(n, ev) <= n - 1 /\ LastInner(n, ev) <= Document
         /\ Ascending(Innermost(ev, type), LastInner(n, ev)) \in Seq(1 .. Document)
         /\ \A k \in 1 .. Len(Ascending(Innermost(ev, type), LastInner(n, ev))) :
               /\ Ascending(Innermost(ev, type), LastInner(n, ev))[k] = Innermost(ev, type) + k - 1
               /\ Ascending(Innermost(ev, type), LastInner(n, ev))[k] <= LastInner(n, ev)
<1> DEFINE a == Innermost(ev, type)
           b == LastInner(n, ev)
<1>1. a \in Nat /\ a >= 1 /\ ev.target <= a
  BY DocumentAssumption DEF Innermost
<1>2. b \in Int /\ b <= n - 1 /\ b <= Document
  <2> DEFINE x == n - 1
             y == Outermost(ev.target)
  <2>1. x \in Int /\ y \in Int /\ y <= Document
    BY OutermostIn, DocumentAssumption
  <2> HIDE DEF x, y
  <2>2. \E z \in {x, y} : \A w \in {x, y} : z <= w
    BY <2>1
  <2>3. Min({x, y}) \in {x, y} /\ \A w \in {x, y} : Min({x, y}) <= w
    BY <2>2 DEF Min
  <2>4. Min({x, y}) <= x /\ Min({x, y}) <= y /\ Min({x, y}) \in Int
    BY <2>1, <2>3
  <2>5. b = Min({x, y})
    BY DEF LastInner, x, y
  <2>6. b <= x /\ b <= y /\ b \in Int
    BY <2>4, <2>5
  <2>7. x = n - 1
    BY DEF x
  <2> HIDE DEF b
  <2> QED BY <2>1, <2>6, <2>7, DocumentAssumption
<1> HIDE DEF a, b
<1>3. /\ Ascending(a, b) \in Seq(a .. b)
      /\ \A k \in 1 .. Len(Ascending(a, b)) : Ascending(a, b)[k] = a + k - 1
  BY <1>1, <1>2, AscendingIs
<1>4. a .. b \subseteq 1 .. Document
  BY <1>1, <1>2, DocumentAssumption
<1>5. Ascending(a, b) \in Seq(1 .. Document)
  <2> DEFINE q == Ascending(a, b)
             S == a .. b
             T == 1 .. Document
  <2>1. q \in Seq(S) /\ S \subseteq T
    BY <1>3, <1>4
  <2> HIDE DEF q, S, T
  <2>2. q \in Seq(T)
    BY <2>1
  <2> QED BY <2>2 DEF q, T
<1>6. \A k \in 1 .. Len(Ascending(a, b)) : Ascending(a, b)[k] <= b
  <2> DEFINE q == Ascending(a, b)
             S == a .. b
  <2>1. q \in Seq(S)
    BY <1>3
  <2> HIDE DEF q, S
  <2>2. \A k \in 1 .. Len(q) : q[k] \in S
    BY <2>1
  <2> QED BY <2>2, <1>1, <1>2 DEF q, S
<1> QED BY <1>1, <1>2, <1>3, <1>5, <1>6 DEF a, b

\* The delegates that a dispatch at n queues are taken from n's handlers, for nodes inside n.
LEMMA DelegatesTaken ==
  ASSUME NEW H, NEW R, NEW n \in 1 .. Document, NEW ev, ev.target \in 1 .. Document, NEW type,
         Listed(Delegates(Handlers(store, n, type)), H, R)
  PROVE  Taken(DelegateQueue(n, ev, type), H, R, ev.target, n - 1)
<1> DEFINE a == Innermost(ev, type)
           b == LastInner(n, ev)
           q == Ascending(a, b)
           D == DOMAIN q
           m == Len(q)
           hs == Delegates(Handlers(store, n, type))
           s == [k \in 1 .. m |-> MatchesAt(hs, q[k])]
           iter == CHOOSE f : f = [T \in SUBSET D |-> IF T = {} THEN <<>>
                     ELSE f[T \ {Max(T)}] \o MatchesAt(Delegates(Handlers(store, n, type)), q[Max(T)])]
<1>1. /\ a \in Nat /\ b \in Int /\ ev.target <= a /\ b <= n - 1
      /\ q \in Seq(1 .. Document)
      /\ \A k \in 1 .. m : q[k] = a + k - 1 /\ q[k] <= b
  BY InnerNodes
<1>2. DelegateQueue(n, ev, type) = iter[D]
  BY Zenon DEF DelegateQueue, FoldLeft, MapThenFoldSet, Innermost, LastInner
<1> HIDE DEF a, b, q
<1> DEFINE Q == QueueSet(H)
<1> HIDE DEF iter, Q, hs
<1>3. m \in Nat /\ D = 1 .. m /\ \A k \in 1 .. m : q[k] \in 1 .. Document
  <2> DEFINE T == 1 .. Document
  <2>1. q \in Seq(T)
    BY <1>1
  <2> HIDE DEF T
  <2>2. Len(q) \in Nat /\ DOMAIN q = 1 .. Len(q) /\ \A k \in 1 .. Len(q) : q[k] \in T
    BY <2>1
  <2> QED BY <2>2 DEF T
<1>4. \A k \in 1 .. m : s[k] = MatchesAt(hs, q[k]) /\ Taken(s[k], H, R, q[k], q[k])
  BY <1>3, MatchesTaken DEF hs
<1>5. s \in [1 .. m -> Seq(Q)]
  BY <1>4 DEF Taken, Q
<1> HIDE DEF s, m
<1>6. PICK F \in [SUBSET (1 .. m) -> Seq(Q)] : IsConcat(F, m, s)
  BY <1>3, <1>5, ConcatExists
<1>7. \A T \in SUBSET (1 .. m) : T # {} => s[Max(T)] = MatchesAt(hs, q[Max(T)])
  BY <1>3, <1>4, MaxIn
<1>8. F = [T \in SUBSET D |-> IF T = {} THEN <<>> ELSE F[T \ {Max(T)}] \o MatchesAt(hs, q[Max(T)])]
  <2> HIDE DEF D
  <2> QED BY <1>3, <1>6, <1>7 DEF IsConcat
<1>9. iter = [T \in SUBSET D |-> IF T = {} THEN <<>> ELSE iter[T \ {Max(T)}] \o MatchesAt(hs, q[Max(T)])]
  BY <1>8 DEF iter, hs
<1> HIDE DEF D
<1>10. IsConcat(iter, m, s)
  BY <1>3, <1>7, <1>9 DEF IsConcat
<1>11. PICK f : ConcatAfter(m, s, f) /\ f[m] = iter[1 .. m]
  BY <1>3, <1>5, <1>10, ConcatSteps
<1> DEFINE G == {k \in 0 .. m : k > 0 => Taken(f[k], H, R, a, a + k - 1) /\ a + k - 1 <= n - 1}
<1>12. 0 \in G
  BY <1>3
<1>13. ASSUME NEW k \in 1 .. m, k - 1 \in G PROVE k \in G
  <2> DEFINE x == a + k - 1
             y == a + (k - 1) - 1
  <2>1. k \in Nat /\ k \in 0 .. m /\ x \in Int /\ y \in Int /\ y < x /\ a <= x
    BY <1>1, <1>3
  <2>2. f[k] = f[k - 1] \o s[k] /\ Taken(s[k], H, R, x, x)
    <3>1. q[k] = x
      BY <1>1 DEF m
    <3> QED BY <3>1, <1>4, <1>11 DEF ConcatAfter
  <2>3. Taken(f[k - 1], H, R, a, y)
    <3>1. CASE k = 1
      <4>1. f[k - 1] = <<>>
        BY <3>1, <1>11 DEF ConcatAfter
      <4> QED BY <4>1, TakenNone
    <3>2. CASE k # 1
      BY <3>2, <1>13, <2>1
    <3> QED BY <3>1, <3>2
  <2>4. x <= n - 1
    <3>1. q[k] = x /\ q[k] <= b
      BY <1>1 DEF m
    <3> QED BY <1>1, <2>1, <3>1
  <2> HIDE DEF x, y
  <2>5. Taken(f[k - 1] \o s[k], H, R, a, x)
    BY <1>1, <2>1, <2>2, <2>3, TakenThen
  <2>6. Taken(f[k], H, R, a, x) /\ x <= n - 1
    BY <2>2, <2>4, <2>5
  <2> QED BY <2>1, <2>6 DEF x
<1>14. m \in G
  <2> HIDE DEF G
  <2>1. \A k \in 0 .. m : k \in G
    BY <1>3, <1>12, <1>13, WalkInduction
  <2> QED BY <2>1, <1>3
<1>15. DelegateQueue(n, ev, type) = f[m]
  BY <1>2, <1>3, <1>11
<1>16. CASE m = 0
  <2>1. f[m] = <<>>
    BY <1>11, <1>16 DEF ConcatAfter
  <2> QED BY <2>1, <1>15, TakenNone
<1>17. CASE m # 0
  <2>1. Taken(f[m], H, R, a, a + m - 1) /\ a + m - 1 <= n - 1
    BY <1>3, <1>14, <1>17
  <2> DEFINE r == f[m]
  <2>2. \A k \in 1 .. Len(r) : r[k].elem \in a .. a + m - 1 => r[k].elem \in ev.target .. n - 1
    BY <2>1, <1>1, <1>3
  <2> HIDE DEF r
  <2>3. Taken(r, H, R, ev.target, n - 1)
    BY <2>1, <2>2 DEF Taken, r
  <2> QED BY <2>3, <1>15 DEF r
<1> QED BY <1>16, <1>17

\* A dispatch's queue is taken from the handlers of its node, for the nodes from the target
\* to its own, no handler twice for a node.
LEMMA HandlerQueueTaken ==
  ASSUME NEW H, store \in Good(H), NEW n \in 1 .. Document, NEW ev, ev.target \in 1 .. n, NEW type
  PROVE  Taken(HandlerQueue(n, ev, type), H, Range(Handlers(store, n, type)), ev.target, n)
<1> DEFINE q == Handlers(store, n, type)
           R == Range(q)
           d == DelegateCount(q)
<1>0. n \in Nodes /\ ev.target \in 1 .. Document /\ ev.target \in Nat /\ n \in Nat
  BY PageNodes, DocumentAssumption
<1>1. q \in Seq(H)
  BY <1>0, HandlersTyped DEF Good
<1>2. \A i, j \in 1 .. Len(q) : q[i].hid = q[j].hid => i = j
  <2>1. CASE type \in DOMAIN Entry(store, n).events
    <3>1. q = Entry(store, n).events[type]
      BY <1>0, <2>1, HandlersTyped DEF Good
    <3>2. UniqueIn(Entry(store, n))
      BY GoodUniqueIn
    <3> HIDE DEF q
    <3>3. DOMAIN q = 1 .. Len(q)
      BY <1>1
    <3> QED BY <2>1, <3>1, <3>2, <3>3 DEF UniqueIn
  <2>2. CASE type \notin DOMAIN Entry(store, n).events
    <3>1. q = <<>>
      BY <1>0, <2>2, HandlersTyped DEF Good
    <3>2. Len(q) = 0
      BY <3>1
    <3> QED BY <3>2
  <2> QED BY <2>1, <2>2
<1> HIDE DEF q
<1>3. \A i \in 1 .. Len(q) : q[i] \in R /\ q[i] \in H
  BY <1>1 DEF Range
<1>4. /\ d \in 0 .. Len(q)
      /\ Delegates(q) \in Seq(H) /\ Len(Delegates(q)) = d
      /\ \A i \in 1 .. d : Delegates(q)[i] = q[i]
      /\ Own(q) \in Seq(H) /\ Len(Own(q)) = Len(q) - d
      /\ \A i \in 1 .. Len(q) - d : Own(q)[i] = q[d + i]
  BY <1>1, PartsOfList
<1> HIDE DEF R, d
<1>5. Len(q) \in Nat /\ d \in Nat /\ d <= Len(q)
  BY <1>1, <1>4
<1>6. Listed(Delegates(q), H, R)
  <2>1. \A i \in 1 .. d : i \in 1 .. Len(q)
    BY <1>5
  <2> QED BY <1>2, <1>3, <1>4, <2>1 DEF Listed
<1>7. Taken(DelegateQueue(n, ev, type), H, R, ev.target, n - 1)
  BY <1>0, <1>6, DelegatesTaken DEF q
<1> DEFINE p == OwnQueue(n, type)
           own == Own(q)
<1>8. p = [i \in DOMAIN own |-> [elem |-> n, h |-> own[i]]]
  BY DEF OwnQueue, q
<1> HIDE DEF own, p
<1>9. /\ own \in Seq(H) /\ Len(own) = Len(q) - d /\ DOMAIN own = 1 .. Len(own)
      /\ \A i \in 1 .. Len(own) : own[i] = q[d + i] /\ d + i \in 1 .. Len(q)
  BY <1>4, <1>5 DEF own
<1>10. /\ p \in Seq(QueueSet(H)) /\ Len(p) = Len(own)
       /\ \A i \in 1 .. Len(own) : p[i].elem = n /\ p[i].h = own[i]
  <2>1. \A i \in 1 .. Len(own) : own[i] \in H
    BY <1>3, <1>9
  <2>2. \A i \in 1 .. Len(own) : [elem |-> n, h |-> own[i]] \in QueueSet(H)
    BY <2>1 DEF QueueSet
  <2> DEFINE m == Len(own)
             S == QueueSet(H)
  <2>3. m \in Nat
    BY <1>9
  <2>4. p = [i \in 1 .. m |-> [elem |-> n, h |-> own[i]]] /\ \A i \in 1 .. m : [elem |-> n, h |-> own[i]] \in S
    BY <1>8, <1>9, <2>2
  <2> HIDE DEF m, S
  <2>5. p \in Seq(S) /\ Len(p) = m /\ \A i \in 1 .. m : p[i] = [elem |-> n, h |-> own[i]]
    BY <2>3, <2>4
  <2>6. \A i \in 1 .. m : p[i].elem = n /\ p[i].h = own[i]
    BY <2>5
  <2> QED BY <2>5, <2>6 DEF m, S
<1>11. Taken(p, H, R, n, n)
  <2>1. \A k \in 1 .. Len(p) : p[k].elem \in n .. n /\ p[k].h \in R
    BY <1>0, <1>3, <1>9, <1>10
  <2>2. ASSUME NEW k \in 1 .. Len(p), NEW l \in 1 .. Len(p), k < l
        PROVE  p[k].elem <= p[l].elem /\ p[k].h.hid # p[l].h.hid
    <3>1. p[k].elem = n /\ p[l].elem = n
      BY <1>10
    <3>2. p[k].h = q[d + k] /\ p[l].h = q[d + l] /\ d + k \in 1 .. Len(q) /\ d + l \in 1 .. Len(q)
      BY <1>9, <1>10
    <3>3. d + k # d + l
      BY <1>5, <2>2
    <3> QED BY <1>0, <1>2, <3>1, <3>2, <3>3
  <2> QED BY <1>10, <2>1, <2>2 DEF Taken
<1>12. ev.target <= n /\ n - 1 < n /\ n - 1 \in Int
  BY <1>0
<1>13. Taken(DelegateQueue(n, ev, type) \o p, H, R, ev.target, n)
  BY <1>0, <1>7, <1>11, <1>12, TakenThen
<1> QED BY <1>13 DEF HandlerQueue, p, R, q

----------
(* The paths of walks.                                                      *)

\* name: whose walk it is, the browser's or jQuery's.
PathOk(p, target, name) ==
  /\ p \in Seq(StopSet)
  /\ \A k \in 1 .. Len(p) : target <= p[k].node
  /\ \A k, l \in 1 .. Len(p) :
       k < l => /\ p[k].node <= p[l].node
                /\ p[k].how = p[l].how /\ p[k].node = p[l].node => p[k].node = target /\ p[k].type # p[l].type
  /\ name = "native" => \A k \in 1 .. Len(p) : k < Len(p) /\ p[k].how = "handlers" => p[k + 1].first
  /\ name # "native" => \A k \in 1 .. Len(p) : p[k].how = "handlers" => p[k].first

\* A laid path is one that a walk may have to go.
LEMMA LaidPath ==
  ASSUME NEW a \in Nat, NEW b \in Int, NEW type, NEW w, NEW name,
         Laid(w, a, b, type, IF name = "native" THEN "onclick" ELSE "handlers")
  PROVE  PathOk(w, a, name)
<1> DEFINE early == IF name = "native" THEN "onclick" ELSE "handlers"
<1>1. /\ w \in Seq(StopSet)
      /\ \A k \in 1 .. Len(w) :
           /\ w[k].node \in a .. b /\ w[k].type = type /\ w[k].how \in {"onclick", "handlers"}
           /\ w[k].first <=> w[k].how = early
      /\ \A k, l \in 1 .. Len(w) :
           k < l => w[k].node <= w[l].node /\ (w[k].how = w[l].how => w[k].node < w[l].node)
      /\ \A k \in 1 .. Len(w) : w[k].how # early /\ k < Len(w) => w[k + 1].how = early
  BY DEF Laid
<1>2. early = IF name = "native" THEN "onclick" ELSE "handlers"
  OBVIOUS
<1> HIDE DEF early
<1>3. Len(w) \in Nat
  BY <1>1
<1>4. \A k, l \in 1 .. Len(w) :
       k < l => /\ w[k].node <= w[l].node
                /\ ~(w[k].how = w[l].how /\ w[k].node = w[l].node)
  <2>1. \A k, l \in 1 .. Len(w) : w[k].node \in Int /\ w[l].node \in Int
    BY <1>1
  <2> QED BY <1>1, <2>1
<1>5. CASE name = "native"
  <2>1. early = "onclick"
    BY <1>2, <1>5
  <2>2. ASSUME NEW k \in 1 .. Len(w), k < Len(w), w[k].how = "handlers" PROVE w[k + 1].first
    <3>1. w[k].how # early
      BY <2>1, <2>2
    <3>2. k + 1 \in 1 .. Len(w) /\ w[k + 1].how = early
      BY <1>1, <1>3, <2>2, <3>1
    <3> QED BY <1>1, <3>2
  <2> QED BY <1>1, <1>4, <1>5, <2>2 DEF PathOk
<1>6. CASE name # "native"
  <2>1. early = "handlers"
    BY <1>2, <1>6
  <2> QED BY <1>1, <1>4, <1>6, <2>1 DEF PathOk
<1> QED BY <1>5, <1>6

\* So is what is left of it after its first stop.
LEMMA TailPath ==
  ASSUME NEW p, NEW target, NEW name, PathOk(p, target, name), p # <<>>
  PROVE  /\ PathOk(Tail(p), target, name)
         /\ Head(p) = p[1] /\ 1 \in 1 .. Len(p)
         /\ Len(Tail(p)) = Len(p) - 1 /\ \A k \in 1 .. Len(Tail(p)) : Tail(p)[k] = p[k + 1] /\ k + 1 \in 1 .. Len(p)
<1> DEFINE t == Tail(p)
           n == Len(p)
<1>1. /\ p \in Seq(StopSet)
      /\ \A k \in 1 .. n : target <= p[k].node
      /\ \A k, l \in 1 .. n :
           k < l => /\ p[k].node <= p[l].node
                    /\ p[k].how = p[l].how /\ p[k].node = p[l].node => p[k].node = target /\ p[k].type # p[l].type
      /\ name = "native" => \A k \in 1 .. n : k < n /\ p[k].how = "handlers" => p[k + 1].first
      /\ name # "native" => \A k \in 1 .. n : p[k].how = "handlers" => p[k].first
  BY DEF PathOk
<1>2. /\ t \in Seq(StopSet) /\ Len(t) = n - 1 /\ n \in Nat /\ n >= 1
      /\ \A k \in 1 .. n - 1 : t[k] = p[k + 1]
      /\ Head(p) = p[1]
  BY <1>1
<1> HIDE DEF t, n
<1>3. \A k \in 1 .. Len(t) : t[k] = p[k + 1] /\ k + 1 \in 1 .. n
  BY <1>2
<1>4. \A k \in 1 .. Len(t) : target <= t[k].node
  BY <1>1, <1>3
<1>5. ASSUME NEW k \in 1 .. Len(t), NEW l \in 1 .. Len(t), k < l
      PROVE  /\ t[k].node <= t[l].node
             /\ t[k].how = t[l].how /\ t[k].node = t[l].node => t[k].node = target /\ t[k].type # t[l].type
  <2>1. k + 1 < l + 1 /\ k + 1 \in 1 .. n /\ l + 1 \in 1 .. n /\ t[k] = p[k + 1] /\ t[l] = p[l + 1]
    BY <1>2, <1>3, <1>5
  <2> QED BY <1>1, <2>1
<1>6. ASSUME name = "native", NEW k \in 1 .. Len(t), k < Len(t), t[k].how = "handlers" PROVE t[k + 1].first
  <2>1. k + 1 \in 1 .. Len(t) /\ k + 1 < n
    BY <1>2, <1>6
  <2>2. t[k] = p[k + 1] /\ t[k + 1] = p[(k + 1) + 1] /\ k + 1 \in 1 .. n
    BY <1>3, <2>1
  <2> QED BY <1>1, <1>6, <2>1, <2>2
<1>7. ASSUME name # "native", NEW k \in 1 .. Len(t), t[k].how = "handlers" PROVE t[k].first
  BY <1>1, <1>3, <1>7
<1>8. PathOk(t, target, name)
  BY <1>2, <1>4, <1>5, <1>6, <1>7 DEF PathOk
<1> QED BY <1>2, <1>3, <1>8 DEF t, n

\* So is the path of jQuery.trigger: the stops at the node itself under the type, and those
\* of the nodes around it, maybe under another.
LEMMA OwnPath ==
  ASSUME NEW n \in 1 .. Document, NEW type \in EventTypes, NEW other \in EventTypes, NEW c \in Nat, NEW b \in Int, n <= c,
         c = n => other # type, NEW w, Laid(w, c, b, other, "handlers")
  PROVE  PathOk(TriggerStops(n, type) \o w, n, "trigger")
<1> DEFINE o == TriggerStops(n, type)
           x == Stop(n, type, "handlers", TRUE)
           y == Stop(n, type, "onclick", FALSE)
           p == o \o w
           m == Len(w)
<1>1. o \in Seq(StopSet) /\ Len(o) = 2 /\ o[1] = x /\ o[2] = y
  <2>1. Hows("handlers", "onclick")
    BY DEF Hows
  <2>2. o = Pair(n, type, "handlers", "onclick")
    BY DEF TriggerStops, Pair
  <2> HIDE DEF o
  <2> QED BY <2>1, <2>2, PairTyped
<1>2. /\ w \in Seq(StopSet)
      /\ \A k \in 1 .. m :
           /\ w[k].node \in c .. b /\ w[k].type = other /\ w[k].how \in {"onclick", "handlers"}
           /\ w[k].first <=> w[k].how = "handlers"
      /\ \A k, l \in 1 .. m :
           k < l => w[k].node <= w[l].node /\ (w[k].how = w[l].how => w[k].node < w[l].node)
  BY DEF Laid
<1>3. /\ x.node = n /\ x.type = type /\ x.how = "handlers" /\ x.first = TRUE
      /\ y.node = n /\ y.type = type /\ y.how = "onclick" /\ y.first = FALSE
  BY DEF Stop
<1> HIDE DEF o, x, y, p, m
<1>0. o \in Seq(StopSet) /\ w \in Seq(StopSet)
  BY <1>1, <1>2
<1>4. /\ o \o w \in Seq(StopSet) /\ Len(o \o w) = Len(o) + Len(w)
      /\ \A k \in 1 .. Len(o) + Len(w) : (o \o w)[k] = IF k <= Len(o) THEN o[k] ELSE w[k - Len(o)]
  BY <1>0, ConcatProperties
<1>5. m \in Nat
  BY <1>0 DEF m
<1>6. /\ p \in Seq(StopSet) /\ Len(p) = m + 2
      /\ \A k \in 1 .. m + 2 : p[k] = IF k <= 2 THEN o[k] ELSE w[k - 2]
  <2>1. Len(o) + Len(w) = m + 2
    BY <1>1, <1>5 DEF m
  <2> QED BY <1>1, <1>4, <2>1 DEF p
<1>7. \A k \in 1 .. m + 2 : (k = 1 /\ p[k] = x) \/ (k = 2 /\ p[k] = y) \/ (k > 2 /\ k - 2 \in 1 .. m /\ p[k] = w[k - 2])
  BY <1>1, <1>5, <1>6
<1>8. ASSUME NEW k \in 1 .. m + 2 PROVE n <= p[k].node /\ (p[k].how = "handlers" => p[k].first)
  <2>1. CASE k > 2 /\ k - 2 \in 1 .. m /\ p[k] = w[k - 2]
    <3>1. p[k].node \in c .. b /\ (p[k].first <=> p[k].how = "handlers")
      BY <2>1, <1>2
    <3> QED BY <3>1
  <2>2. CASE p[k] = x \/ p[k] = y
    BY <2>2, <1>3
  <2> QED BY <2>1, <2>2, <1>7
<1>9. ASSUME NEW k \in 1 .. m + 2, NEW l \in 1 .. m + 2, k < l
      PROVE  /\ p[k].node <= p[l].node
             /\ p[k].how = p[l].how /\ p[k].node = p[l].node => p[k].node = n /\ p[k].type # p[l].type
  <2>1. CASE k > 2 /\ k - 2 \in 1 .. m /\ p[k] = w[k - 2]
    <3>1. l > 2 /\ l - 2 \in 1 .. m /\ p[l] = w[l - 2]
      BY <2>1, <1>7, <1>9
    <3>2. k - 2 < l - 2
      BY <2>1, <3>1, <1>9
    <3>3. p[k].node \in Int /\ p[l].node \in Int
      BY <1>2, <2>1, <3>1
    <3> QED BY <1>2, <2>1, <3>1, <3>2, <3>3
  <2>2. CASE k = 1 /\ p[k] = x
    <3>1. CASE l = 2 /\ p[l] = y
      BY <2>2, <3>1, <1>3
    <3>2. CASE l > 2 /\ l - 2 \in 1 .. m /\ p[l] = w[l - 2]
      <4>1. p[l].node \in c .. b /\ p[l].type = other /\ p[k].node = n /\ p[k].type = type
        BY <1>2, <1>3, <2>2, <3>2
      <4> QED BY <4>1
    <3> QED BY <3>1, <3>2, <2>2, <1>7, <1>9
  <2>3. CASE k = 2 /\ p[k] = y
    <3>2. l > 2 /\ l - 2 \in 1 .. m /\ p[l] = w[l - 2]
      BY <2>3, <1>7, <1>9
    <3>3. p[l].node \in c .. b /\ p[l].type = other /\ p[k].node = n /\ p[k].type = type
      BY <1>2, <1>3, <2>3, <3>2
    <3> QED BY <3>3
  <2> QED BY <1>7, <2>3, <2>2, <2>1
<1>10. PathOk(p, n, "trigger")
  BY <1>6, <1>8, <1>9 DEF PathOk
<1> QED BY <1>10 DEF p, o

\* The empty path is laid.
LEMMA NoPath ==
  ASSUME NEW a, NEW b, NEW type, NEW early
  PROVE  Laid(<<>>, a, b, type, early)
<1> DEFINE w == <<>>
<1>1. w \in Seq(StopSet) /\ Len(w) = 0
  OBVIOUS
<1> HIDE DEF w
<1>2. Laid(w, a, b, type, early)
  BY <1>1 DEF Laid
<1> QED BY <1>2 DEF w

\* A walk may have come to its end.
LEMMA NothingLeft ==
  ASSUME NEW target, NEW name
  PROVE  PathOk(<<>>, target, name)
<1> DEFINE w == <<>>
<1>1. w \in Seq(StopSet) /\ Len(w) = 0
  OBVIOUS
<1> HIDE DEF w
<1>2. PathOk(w, target, name)
  BY <1>1 DEF PathOk
<1> QED BY <1>2 DEF w

\* The path of a focus, which no node around the target hears, but the document does first.
LEMMA FocusPath ==
  ASSUME NEW n \in 1 .. Document
  PROVE  PathOk(<<Stop(n, "focus", "capture", TRUE)>> \o NativeStops(n, "focus"), n, "native")
<1> DEFINE x == Stop(n, "focus", "capture", TRUE)
           y == Stop(n, "focus", "onclick", TRUE)
           z == Stop(n, "focus", "handlers", FALSE)
           p == <<x>> \o NativeStops(n, "focus")
<1>1. /\ x.node = n /\ x.type = "focus" /\ x.how = "capture" /\ x.first = TRUE
      /\ y.node = n /\ y.type = "focus" /\ y.how = "onclick" /\ y.first = TRUE
      /\ z.node = n /\ z.type = "focus" /\ z.how = "handlers" /\ z.first = FALSE
  BY DEF Stop
<1>2. x \in StopSet /\ y \in StopSet /\ z \in StopSet
  BY DEF Stop, StopSet, EventTypes
<1>3. NativeStops(n, "focus") = <<y, z>>
  BY DEF NativeStops
<1> HIDE DEF x, y, z, p
<1>4. p = <<x>> \o <<y, z>>
  BY <1>3 DEF p
<1>5. /\ p \in Seq(StopSet) /\ Len(p) = 3 /\ p[1] = x /\ p[2] = y /\ p[3] = z
  BY <1>2, <1>4
<1>6. \A k \in 1 .. Len(p) : k = 1 \/ k = 2 \/ k = 3
  BY <1>5
<1>7. n \in Nat
  OBVIOUS
<1>8. \A k \in 1 .. Len(p) : p[k].node = n
  BY <1>1, <1>5, <1>6
<1>9. ASSUME NEW k \in 1 .. Len(p), NEW l \in 1 .. Len(p), k < l PROVE p[k].how # p[l].how
  <2>1. CASE k = 1
    <3>1. l = 2 \/ l = 3
      BY <2>1, <1>6, <1>9
    <3> QED BY <2>1, <3>1, <1>1, <1>5
  <2>2. CASE k = 2
    <3>1. l = 3
      BY <2>2, <1>6, <1>9
    <3> QED BY <2>2, <3>1, <1>1, <1>5
  <2>3. CASE k = 3
    BY <2>3, <1>6, <1>9
  <2> QED BY <1>6, <2>3, <2>2, <2>1
<1>10. ASSUME NEW k \in 1 .. Len(p), k < Len(p) PROVE p[k].how # "handlers"
  <2>1. k = 1 \/ k = 2
    BY <1>5, <1>6, <1>10
  <2> QED BY <2>1, <1>1, <1>5
<1>11. PathOk(p, n, "native")
  <2>1. \A k \in 1 .. Len(p) : n <= p[k].node
    BY <1>7, <1>8
  <2>2. \A k, l \in 1 .. Len(p) :
       k < l => /\ p[k].node <= p[l].node
                /\ p[k].how = p[l].how /\ p[k].node = p[l].node => p[k].node = n /\ p[k].type # p[l].type
    BY <1>7, <1>8, <1>9
  <2> QED BY <1>5, <1>10, <2>1, <2>2 DEF PathOk
<1> QED BY <1>11 DEF p, x

----------
(* Frames.                                                                  *)

\* The namespaces, events and names of frames.
Spaces == {{}} \cup {t.ns : t \in Triggers}
EventSet ==
  [type : EventTypes, ns : Spaces, target : 0 .. Document, root : Nat, original : Nat, donor : Nat,
   stopped : BOOLEAN, immediate : BOOLEAN, prevented : BOOLEAN]
Names == {"native", "trigger", "dispatch", "user"}
\* Records that may be frames, and what sets the kinds of frames apart: a walk has a path
\* to go, a dispatch a node, a queue and the event it is given.
FrameSet(H) ==
  [frame : Names, ev : EventSet, path : Seq(StopSet), only : BOOLEAN, method : BOOLEAN,
   owner : Nat, node : 0 .. Document, elem : 0 .. Document, queue : Seq(QueueSet(H)),
   fn : {0} \cup {b.fn : b \in Bindings}, call : Nat]

IsWalkOf(f) == f.frame \in {"native", "trigger"}
Fits(f, H) ==
  /\ IsWalkOf(f) => f.ev.target \in 1 .. Document /\ PathOk(f.path, f.ev.target, f.frame)
  /\ f.frame = "dispatch" => f.node \in 1 .. Document /\ Taken(f.queue, H, H, 1, f.node)
Frames(H) == {f \in FrameSet(H) : Fits(f, H)}

\* A new event.
LEMMA EventIs ==
  ASSUME NEW type \in EventTypes, NEW ns \in Spaces, NEW target \in 0 .. Document, NEW root \in Nat, NEW ev,
         ev = Event(type, ns, target, root)
  PROVE  /\ ev \in EventSet
         /\ ev.type = type /\ ev.ns = ns /\ ev.target = target /\ ev.root = root /\ ev.original = 0 /\ ev.donor = 0
         /\ ev.stopped = FALSE /\ ev.immediate = FALSE /\ ev.prevented = FALSE
BY DEF Event, EventSet

\* No event is one too, of the node 0.
LEMMA NoEventIs == NoEvent \in EventSet
<1>1. "" \in EventTypes /\ {} \in Spaces /\ 0 \in 0 .. Document
  BY DocumentAssumption DEF EventTypes, Spaces
<1> QED BY <1>1, EventIs DEF NoEvent

\* A frame that is just made.
LEMMA FrameIs ==
  ASSUME NEW H, NEW name \in Names
  PROVE  /\ Frame(name) \in FrameSet(H) /\ Frame(name).frame = name
         /\ Frame(name).path = <<>> /\ Frame(name).only = FALSE /\ Frame(name).method = FALSE
         /\ Frame(name).owner = 0 /\ Frame(name).node = 0 /\ Frame(name).elem = 0 /\ Frame(name).queue = <<>>
         /\ Frame(name).fn = 0 /\ Frame(name).call = 0 /\ Frame(name).ev = NoEvent
<1>1. <<>> \in Seq(StopSet) /\ <<>> \in Seq(QueueSet(H)) /\ 0 \in 0 .. Document
  BY DocumentAssumption
<1> QED BY <1>1, NoEventIs DEF Frame, FrameSet

\* A script that runs by itself is a frame.
LEMMA ScriptIs ==
  ASSUME NEW H
  PROVE  Script \in Frames(H) /\ Script.frame = "user" /\ Script.call = 0
<1>1. "user" \in Names
  BY DEF Names
<1>2. Script \in FrameSet(H) /\ Script.frame = "user" /\ Script.call = 0
  BY <1>1, FrameIs DEF Script
<1> QED BY <1>2 DEF Frames, Fits, IsWalkOf

\* The stops of a walk, but for that of a focus.
Plain(p, type) == type # "focus" => \A k \in 1 .. Len(p) : p[k].type = type /\ p[k].how # "capture"

\* A walk of the browser.
LEMMA NativeIs ==
  ASSUME NEW H, NEW type \in EventTypes, NEW target \in 1 .. Document, NEW root \in Nat, NEW method \in BOOLEAN,
         NEW f, f = Native(type, target, root, method)
  PROVE  /\ f \in Frames(H)
         /\ f.frame = "native" /\ f.ev = Event(type, {}, target, root) /\ f.method = method
         /\ Plain(f.path, type)
<1> DEFINE ev == Event(type, {}, target, root)
           b == Outermost(target)
           path == IF type = "focus"
                   THEN <<Stop(target, type, "capture", TRUE)>> \o NativeStops(target, type)
                   ELSE Walk(target, b, LAMBDA n : NativeStops(n, type))
<1>1. f = [Frame("native") EXCEPT !.ev = ev, !.path = path, !.method = method]
  BY DEF Native
<1>2. {} \in Spaces /\ target \in 0 .. Document /\ "native" \in Names
  BY DEF Spaces, Names
<1>3. ev \in EventSet /\ ev.target = target
  <2>1. ev = Event(type, {}, target, root)
    OBVIOUS
  <2> HIDE DEF ev, path
  <2>2. ev \in EventSet
    BY <1>2, <2>1, EventIs
  <2>3. ev.target = target
    BY <2>1 DEF Event
  <2> QED BY <2>2, <2>3
<1>4. b \in target .. Document /\ target \in Nat /\ Document \in Nat
  BY OutermostIn, DocumentAssumption
<1>5. Between(target, b)
  BY <1>4 DEF Between
<1>6. type # "focus" => Laid(path, target, b, type, "onclick")
  BY <1>5, NativeWalkLaid
<1>7. PathOk(path, target, "native")
  <2>1. CASE type = "focus"
    BY <2>1, FocusPath
  <2>2. CASE type # "focus"
    <3> HIDE DEF path, b
    <3>1. Laid(path, target, b, type, IF "native" = "native" THEN "onclick" ELSE "handlers")
      BY <1>6, <2>2
    <3>2. b \in Int
      BY <1>4
    <3> QED BY <1>4, <3>1, <3>2, LaidPath
  <2> QED BY <2>1, <2>2
<1> HIDE DEF path, ev, b
<1>8. path \in Seq(StopSet)
  BY <1>7 DEF PathOk
<1>9. Frame("native") \in FrameSet(H) /\ Frame("native").frame = "native"
  BY <1>2, FrameIs
<1>10. /\ f \in FrameSet(H) /\ f.frame = "native" /\ f.ev = ev /\ f.path = path /\ f.method = method
  BY <1>1, <1>3, <1>8, <1>9 DEF FrameSet
<1>11. f \in Frames(H)
  BY <1>3, <1>7, <1>10 DEF Frames, Fits, IsWalkOf
<1>12. type # "focus" => \A k \in 1 .. Len(path) : path[k].type = type /\ path[k].how # "capture"
  BY <1>6 DEF Laid
<1> QED BY <1>10, <1>11, <1>12 DEF ev, Plain

\* The walk of focusin that a focus makes.
Simulated(walk, donor, root) ==
  [Frame("trigger") EXCEPT
     !.ev = [Event("focusin", {}, walk.ev.target, root) EXCEPT !.donor = donor, !.prevented = walk.ev.prevented],
     !.path = Walk(walk.ev.target, Outermost(walk.ev.target), LAMBDA n : TriggerStops(n, "focusin"))]

\* f is the walk of the focusin event simulated for a focus, and what it is like.
IsSimulated(walk, donor, root, f) == f = Simulated(walk, donor, root)

FocusinWalk(H, walk, root, f) ==
  /\ f \in Frames(H) /\ f.frame = "trigger" /\ f.method = FALSE
  /\ f.ev.root = root /\ f.ev.original = 0 /\ f.ev.target = walk.ev.target /\ f.ev.stopped = FALSE
  /\ f.ev.prevented = walk.ev.prevented

\* It is like that.
LEMMA SimulatedIs ==
  ASSUME NEW H, NEW walk \in Frames(H), IsWalkOf(walk), NEW donor \in Nat, NEW root \in Nat, NEW f,
         IsSimulated(walk, donor, root, f)
  PROVE  FocusinWalk(H, walk, root, f)
<1> DEFINE target == walk.ev.target
           b == Outermost(target)
           ev == [Event("focusin", {}, target, root) EXCEPT !.donor = donor, !.prevented = walk.ev.prevented]
           path == Walk(target, b, LAMBDA n : TriggerStops(n, "focusin"))
<1>1. f = [Frame("trigger") EXCEPT !.ev = ev, !.path = path]
  BY DEF Simulated, IsSimulated
<1>2. {} \in Spaces /\ "trigger" \in Names /\ "focusin" \in EventTypes
  BY DEF Spaces, Names, EventTypes
<1>3. target \in 1 .. Document /\ target \in 0 .. Document /\ walk.ev.prevented \in BOOLEAN
  BY DocumentAssumption DEF Frames, Fits, FrameSet, EventSet
<1> HIDE DEF target
<1>4. /\ ev \in EventSet /\ ev.target = target /\ ev.root = root /\ ev.original = 0
      /\ ev.stopped = FALSE /\ ev.prevented = walk.ev.prevented
  <2> DEFINE e == Event("focusin", {}, target, root)
  <2>1. e = Event("focusin", {}, target, root) /\ ev = [e EXCEPT !.donor = donor, !.prevented = walk.ev.prevented]
    OBVIOUS
  <2> HIDE DEF ev, e, path
  <2>2. e \in EventSet
    BY <1>2, <1>3, <2>1, EventIs
  <2>3. e.target = target /\ e.root = root /\ e.original = 0 /\ e.stopped = FALSE
    BY <2>1 DEF Event
  <2> QED BY <1>3, <2>1, <2>2, <2>3 DEF EventSet
<1>5. b \in target .. Document /\ target \in Nat /\ Document \in Nat
  BY <1>3, OutermostIn, DocumentAssumption
<1>6. Between(target, b)
  BY <1>3, <1>5 DEF Between
<1>7. Laid(path, target, b, "focusin", "handlers")
  BY <1>2, <1>6, TriggerWalkLaid
<1> HIDE DEF path, ev, b
<1>8. PathOk(path, target, "trigger")
  <2>1. Laid(path, target, b, "focusin", IF "trigger" = "native" THEN "onclick" ELSE "handlers")
    BY <1>7
  <2>2. b \in Int
    BY <1>5
  <2> QED BY <1>5, <2>1, <2>2, LaidPath
<1>9. path \in Seq(StopSet)
  BY <1>8 DEF PathOk
<1>10. Frame("trigger") \in FrameSet(H) /\ Frame("trigger").frame = "trigger" /\ Frame("trigger").method = FALSE
  BY <1>2, FrameIs
<1>11. f \in FrameSet(H) /\ f.frame = "trigger" /\ f.ev = ev /\ f.path = path /\ f.method = FALSE
  BY <1>1, <1>4, <1>9, <1>10 DEF FrameSet
<1>12. f \in Frames(H)
  BY <1>3, <1>4, <1>8, <1>11 DEF Frames, Fits, IsWalkOf
<1> QED BY <1>4, <1>11, <1>12 DEF target, FocusinWalk

\* The walk of a trigger that does not give the focus by the browser's method.
Outer(t) ==
  IF t.only THEN <<>>
  ELSE IF t.type = "focus"
  THEN Walk(t.node, Outermost(t.node), LAMBDA n : TriggerStops(n, "focusin"))
  ELSE Walk(t.node + 1, Outermost(t.node), LAMBDA n : TriggerStops(n, t.type))
\* The frame that jQuery.trigger begins with.
Triggered(t, root) ==
  [Frame("trigger") EXCEPT !.ev = Event(t.type, t.ns, t.node, root),
                           !.path = TriggerStops(t.node, t.type) \o Outer(t), !.only = t.only]

\* The nodes that it goes to are a path.
LEMMA OuterPath ==
  ASSUME NEW t \in Triggers
  PROVE  PathOk(TriggerStops(t.node, t.type) \o Outer(t), t.node, "trigger")
<1> DEFINE n == t.node
           b == Outermost(n)
<1>1. n \in 1 .. Document /\ t.only \in BOOLEAN
  BY NodesAssumption
<1>2. t.type \in EventTypes /\ "focusin" \in EventTypes
  BY DEF EventTypes
<1>3. b \in n .. Document /\ n \in Nat /\ Document \in Nat
  BY <1>1, OutermostIn, DocumentAssumption
<1>4. Between(n, b) /\ Between(n + 1, b)
  BY <1>1, <1>3 DEF Between
<1> HIDE DEF n, b
<1>5. CASE t.only
  <2>1. Outer(t) = <<>>
    BY <1>5 DEF Outer
  <2>2. Laid(<<>>, n + 1, b, t.type, "handlers")
    BY NoPath
  <2>3. n + 1 \in Nat /\ n <= n + 1 /\ n + 1 # n /\ b \in Int
    BY <1>3
  <2>4. PathOk(TriggerStops(n, t.type) \o <<>>, n, "trigger")
    BY <1>1, <1>2, <2>2, <2>3, OwnPath
  <2> QED BY <2>1, <2>4 DEF n
<1>6. CASE ~t.only /\ t.type = "focus"
  <2> DEFINE w == Walk(n, b, LAMBDA k : TriggerStops(k, "focusin"))
  <2>1. Outer(t) = w
    BY <1>6 DEF Outer, n, b
  <2>2. Laid(w, n, b, "focusin", "handlers")
    BY <1>2, <1>4, TriggerWalkLaid
  <2> HIDE DEF w
  <2>3. n \in Nat /\ n <= n /\ b \in Int /\ "focusin" # t.type
    BY <1>3, <1>6
  <2>4. PathOk(TriggerStops(n, t.type) \o w, n, "trigger")
    BY <1>1, <1>2, <2>2, <2>3, OwnPath
  <2> QED BY <2>1, <2>4 DEF n
<1>7. CASE ~t.only /\ t.type # "focus"
  <2> DEFINE type == t.type
             w == Walk(n + 1, b, LAMBDA k : TriggerStops(k, type))
  <2>1. Outer(t) = w
    BY <1>7 DEF Outer, n, b
  <2> HIDE DEF type
  <2>2. Laid(w, n + 1, b, type, "handlers")
    BY <1>2, <1>4, TriggerWalkLaid DEF type
  <2> HIDE DEF w
  <2>3. n + 1 \in Nat /\ n <= n + 1 /\ n + 1 # n /\ b \in Int
    BY <1>3
  <2>4. PathOk(TriggerStops(n, type) \o w, n, "trigger")
    BY <1>1, <1>2, <2>2, <2>3, OwnPath DEF type
  <2> QED BY <2>1, <2>4 DEF n, type
<1> QED BY <1>1, <1>5, <1>6, <1>7

\* It is a frame.
LEMMA TriggeredIs ==
  ASSUME NEW H, NEW t \in Triggers, NEW root \in Nat, NEW f, f = Triggered(t, root)
  PROVE  /\ f \in Frames(H) /\ f.frame = "trigger" /\ f.method = FALSE
         /\ f.ev = Event(t.type, t.ns, t.node, root)
<1> DEFINE ev == Event(t.type, t.ns, t.node, root)
           path == TriggerStops(t.node, t.type) \o Outer(t)
           n == t.node
<1>1. f = [Frame("trigger") EXCEPT !.ev = ev, !.path = path, !.only = t.only]
  BY DEF Triggered
<1>2. n \in 1 .. Document /\ n \in 0 .. Document /\ t.only \in BOOLEAN
  BY NodesAssumption, DocumentAssumption
<1>3. t.type \in EventTypes /\ t.ns \in Spaces /\ "trigger" \in Names
  BY DEF EventTypes, Spaces, Names
<1>4. ev \in EventSet /\ ev.target = n
  <2>1. ev = Event(t.type, t.ns, n, root)
    OBVIOUS
  <2> HIDE DEF ev, n
  <2>2. ev \in EventSet
    BY <1>2, <1>3, <2>1, EventIs
  <2>3. ev.target = n
    BY <2>1 DEF Event
  <2> QED BY <2>2, <2>3
<1>5. PathOk(path, n, "trigger")
  BY OuterPath
<1> HIDE DEF ev, path, n
<1>6. path \in Seq(StopSet)
  BY <1>5 DEF PathOk
<1>7. Frame("trigger") \in FrameSet(H) /\ Frame("trigger").frame = "trigger" /\ Frame("trigger").method = FALSE
  BY <1>3, FrameIs
<1>8. f \in FrameSet(H) /\ f.frame = "trigger" /\ f.ev = ev /\ f.path = path /\ f.method = FALSE
  BY <1>1, <1>2, <1>4, <1>6, <1>7 DEF FrameSet
<1>9. f \in Frames(H)
  BY <1>2, <1>4, <1>5, <1>8 DEF Frames, Fits, IsWalkOf
<1> QED BY <1>8, <1>9 DEF ev

----------
(* Frames that change.                                                      *)

\* Of a frame only these parts are others.
PathSet(f, p, g) == g = [f EXCEPT !.path = p]
\* g is a frame that may take the place of f on the stack.
SamePlace(f, g) ==
  /\ g.frame = f.frame /\ g.method = f.method /\ g.owner = f.owner /\ g.node = f.node
  /\ g.fn = f.fn /\ g.call = f.call

\* A walk with a later part of the path.
LEMMA WalksOn ==
  ASSUME NEW H, NEW f \in Frames(H), IsWalkOf(f), NEW p, PathOk(p, f.ev.target, f.frame),
         NEW g, PathSet(f, p, g)
  PROVE  g \in Frames(H) /\ SamePlace(f, g) /\ g.ev = f.ev /\ g.path = p
<1>1. p \in Seq(StopSet)
  BY DEF PathOk
<1>2. f \in FrameSet(H) /\ f.ev.target \in 1 .. Document
  BY DEF Frames, Fits
<1>3. /\ g \in FrameSet(H) /\ g.path = p /\ g.ev = f.ev /\ SamePlace(f, g)
  BY <1>1, <1>2 DEF FrameSet, SamePlace, PathSet
<1>4. g \in Frames(H)
  BY <1>2, <1>3 DEF Frames, Fits, IsWalkOf, SamePlace
<1> QED BY <1>3, <1>4

\* A walk has made its next stop, or is at its end.
LEMMA NextStop ==
  ASSUME NEW H, NEW f \in Frames(H), IsWalkOf(f), f.path # <<>>
  PROVE  /\ [f EXCEPT !.path = Tail(@)] \in Frames(H) /\ SamePlace(f, [f EXCEPT !.path = Tail(@)])
         /\ [f EXCEPT !.path = Tail(@)].ev = f.ev /\ [f EXCEPT !.path = Tail(@)].path = Tail(f.path)
         /\ [f EXCEPT !.path = <<>>] \in Frames(H) /\ SamePlace(f, [f EXCEPT !.path = <<>>])
         /\ [f EXCEPT !.path = <<>>].ev = f.ev /\ [f EXCEPT !.path = <<>>].path = <<>>
         /\ Head(f.path) = f.path[1] /\ f.path[1] \in StopSet /\ f.ev.target <= f.path[1].node
<1> DEFINE p == f.path
           target == f.ev.target
           name == f.frame
<1>1. PathOk(p, target, name)
  BY DEF Frames, Fits
<1>2. PathOk(Tail(p), target, name) /\ Head(p) = p[1] /\ 1 \in 1 .. Len(p)
  BY <1>1, TailPath
<1>3. PathOk(<<>>, target, name)
  BY NothingLeft
<1>4. p[1] \in StopSet /\ target <= p[1].node
  BY <1>1, <1>2 DEF PathOk
<1> DEFINE g == [f EXCEPT !.path = Tail(@)]
           h == [f EXCEPT !.path = <<>>]
<1>5. PathSet(f, Tail(p), g) /\ PathSet(f, <<>>, h)
  BY DEF PathSet
<1> HIDE DEF g, h
<1>6. g \in Frames(H) /\ SamePlace(f, g) /\ g.ev = f.ev /\ g.path = Tail(p)
  BY <1>2, <1>5, WalksOn
<1>7. h \in Frames(H) /\ SamePlace(f, h) /\ h.ev = f.ev /\ h.path = <<>>
  BY <1>3, <1>5, WalksOn
<1> QED BY <1>2, <1>4, <1>6, <1>7 DEF g, h

\* A walk whose method of the browser is called.
LEMMA MethodCalled ==
  ASSUME NEW H, NEW f \in Frames(H), f.frame = "trigger", NEW g, g = [f EXCEPT !.method = TRUE]
  PROVE  g \in Frames(H) /\ g.frame = "trigger" /\ g.method = TRUE /\ g.ev = f.ev /\ g.path = f.path
<1>1. f \in FrameSet(H)
  BY DEF Frames
<1>2. g \in FrameSet(H) /\ g.frame = "trigger" /\ g.method = TRUE /\ g.ev = f.ev /\ g.path = f.path
  BY <1>1 DEF FrameSet
<1> QED BY <1>2 DEF Frames, Fits, IsWalkOf

\* Events that differ in their flags, which are only ever raised.
Raised(ev, d) ==
  /\ d \in EventSet
  /\ d.type = ev.type /\ d.ns = ev.ns /\ d.target = ev.target /\ d.root = ev.root
  /\ d.original = ev.original /\ d.donor = ev.donor
  /\ (ev.stopped => d.stopped) /\ (ev.immediate => d.immediate) /\ (ev.prevented => d.prevented)

\* The functions of event objects raise flags and take none back.
LEMMA FlagsRaised ==
  ASSUME NEW ev \in EventSet
  PROVE  /\ Raised(ev, ev) /\ Raised(ev, Prevented(ev)) /\ Raised(ev, Stopped(ev)) /\ Raised(ev, StoppedAtOnce(ev))
         /\ Raised(ev, PreventedAndStopped(ev))
         /\ Prevented(ev).prevented = TRUE /\ PreventedAndStopped(ev).prevented = TRUE
         /\ Prevented(ev).stopped = ev.stopped /\ Prevented(ev).immediate = ev.immediate
         /\ Stopped(ev).stopped = TRUE /\ StoppedAtOnce(ev).stopped = TRUE /\ PreventedAndStopped(ev).stopped = TRUE
         /\ StoppedAtOnce(ev).immediate = TRUE
         /\ Stopped(ev).prevented = ev.prevented /\ StoppedAtOnce(ev).prevented = ev.prevented
BY DEF EventSet, Raised, Prevented, Stopped, StoppedAtOnce, PreventedAndStopped

\* g is the frame f with the event d, and what comes of it.
EventIn(f, d, g) == g = [f EXCEPT !.ev = d]
EventOnly(H, f, d, g) ==
  /\ g \in Frames(H) /\ SamePlace(f, g) /\ g.ev = d /\ g.path = f.path /\ g.queue = f.queue /\ g.elem = f.elem
  /\ g.only = f.only

\* A frame whose event has had flags raised.
LEMMA EventChanged ==
  ASSUME NEW H, NEW f \in Frames(H), NEW d, Raised(f.ev, d), NEW g, EventIn(f, d, g)
  PROVE  EventOnly(H, f, d, g)
<1>1. f \in FrameSet(H) /\ g = [f EXCEPT !.ev = d]
  BY DEF Frames, EventIn
<1>2. /\ g \in FrameSet(H) /\ SamePlace(f, g) /\ g.ev = d /\ g.path = f.path /\ g.queue = f.queue /\ g.elem = f.elem
      /\ g.only = f.only
  BY <1>1 DEF FrameSet, SamePlace, Raised
<1> QED BY <1>2 DEF Frames, Fits, IsWalkOf, SamePlace, Raised, EventOnly

\* A dispatch.
Dispatched(f, at, n, type) ==
  [Frame("dispatch") EXCEPT
     !.ev = IF f.frame = "native" THEN Fix(f.ev, at) ELSE NoEvent,
     !.owner = IF f.frame = "native" THEN at + 1 ELSE at,
     !.node = n, !.queue = HandlerQueue(n, f.ev, type)]

\* A dispatch that begins is a frame; of the browser's event it makes one of jQuery's, of a
\* walk of jQuery it uses the event.
LEMMA DispatchedIs ==
  ASSUME NEW H, store \in Good(H), NEW f \in Frames(H), IsWalkOf(f), NEW at \in Nat,
         NEW n \in 1 .. Document, f.ev.target <= n, NEW type, NEW d, d = Dispatched(f, at, n, type)
  PROVE  /\ d \in Frames(H) /\ d.frame = "dispatch" /\ d.node = n /\ d.queue = HandlerQueue(n, f.ev, type) /\ d.elem = 0
         /\ Taken(d.queue, H, Range(Handlers(store, n, type)), f.ev.target, n)
         /\ f.frame = "native" => d.ev = Fix(f.ev, at) /\ d.ev \in EventSet /\ d.owner = at + 1
         /\ f.frame # "native" => d.owner = at /\ d.ev = NoEvent
<1> DEFINE ev == f.ev
           q == HandlerQueue(n, ev, type)
           e == IF f.frame = "native" THEN Fix(ev, at) ELSE NoEvent
           o == IF f.frame = "native" THEN at + 1 ELSE at
           R == Range(Handlers(store, n, type))
<1>1. ev \in EventSet /\ ev.target \in 1 .. Document
  BY DEF Frames, Fits, FrameSet
<1>2. ev.target \in 1 .. n
  BY <1>1, DocumentAssumption
<1>3. Taken(q, H, R, ev.target, n)
  BY <1>2, HandlerQueueTaken
<1> HIDE DEF q
<1>4. q \in Seq(QueueSet(H)) /\ \A k \in 1 .. Len(q) : q[k].elem \in ev.target .. n
  BY <1>3 DEF Taken
<1>5. Taken(q, H, H, 1, n)
  <2>1. \A k \in 1 .. Len(q) : q[k] \in QueueSet(H)
    BY <1>4
  <2>2. \A k \in 1 .. Len(q) : q[k].h \in H
    BY <2>1 DEF QueueSet
  <2>3. \A k \in 1 .. Len(q) : q[k].elem \in 1 .. n
    BY <1>2, <1>4
  <2> QED BY <1>3, <2>2, <2>3 DEF Taken
<1>6. Fix(ev, at) \in EventSet
  BY <1>1 DEF Fix, EventSet
<1>7. e \in EventSet /\ o \in Nat
  BY <1>6, NoEventIs
<1>8. d = [Frame("dispatch") EXCEPT !.ev = e, !.owner = o, !.node = n, !.queue = q]
  BY DEF Dispatched, q
<1>9. e = (IF f.frame = "native" THEN Fix(ev, at) ELSE NoEvent) /\ o = IF f.frame = "native" THEN at + 1 ELSE at
  OBVIOUS
<1> HIDE DEF e, o, R, ev
<1>10. "dispatch" \in Names /\ n \in 0 .. Document
  BY DocumentAssumption DEF Names
<1>11. Frame("dispatch") \in FrameSet(H) /\ Frame("dispatch").frame = "dispatch" /\ Frame("dispatch").elem = 0
  BY <1>10, FrameIs
<1>12. d \in FrameSet(H) /\ d.frame = "dispatch" /\ d.ev = e /\ d.owner = o /\ d.node = n /\ d.queue = q /\ d.elem = 0
  BY <1>4, <1>7, <1>8, <1>10, <1>11 DEF FrameSet
<1>13. d \in Frames(H)
  BY <1>5, <1>12 DEF Frames, Fits, IsWalkOf
<1> QED BY <1>3, <1>6, <1>9, <1>12, <1>13 DEF ev, q, R

\* It goes on to the next handler.
IsNext(f, g) == g = [f EXCEPT !.queue = Tail(@), !.elem = Head(f.queue).elem]
\* What g, the dispatch f gone on to its next entry, is like.
NextOf(H, f, g) ==
  /\ g \in Frames(H) /\ SamePlace(f, g) /\ g.ev = f.ev /\ g.queue = Tail(f.queue) /\ g.elem = f.queue[1].elem
  /\ Head(f.queue) = f.queue[1] /\ 1 \in 1 .. Len(f.queue) /\ f.queue[1].elem \in 1 .. f.node /\ f.queue[1].h \in H
  /\ Len(Tail(f.queue)) = Len(f.queue) - 1
  /\ \A k \in 1 .. Len(Tail(f.queue)) : Tail(f.queue)[k] = f.queue[k + 1] /\ k + 1 \in 1 .. Len(f.queue)

\* It is like that.
LEMMA NextIs ==
  ASSUME NEW H, NEW f \in Frames(H), f.frame = "dispatch", f.queue # <<>>, NEW g, IsNext(f, g)
  PROVE  NextOf(H, f, g)
<1> DEFINE q == f.queue
           t == Tail(q)
<1>1. f \in FrameSet(H) /\ Taken(q, H, H, 1, f.node) /\ f.node \in 1 .. Document
  BY DEF Frames, Fits
<1>2. /\ q \in Seq(QueueSet(H))
      /\ \A k \in 1 .. Len(q) : q[k].elem \in 1 .. f.node /\ q[k].h \in H
      /\ \A k, l \in 1 .. Len(q) :
           k < l => q[k].elem <= q[l].elem /\ (q[k].elem = q[l].elem => q[k].h.hid # q[l].h.hid)
  BY <1>1 DEF Taken
<1>3. /\ t \in Seq(QueueSet(H)) /\ Len(t) = Len(q) - 1 /\ Len(q) \in Nat /\ 1 \in 1 .. Len(q)
      /\ \A k \in 1 .. Len(q) - 1 : t[k] = q[k + 1]
      /\ Head(q) = q[1]
  BY <1>2
<1> HIDE DEF t
<1>4. \A k \in 1 .. Len(t) : t[k] = q[k + 1] /\ k + 1 \in 1 .. Len(q)
  BY <1>3
<1>5. Taken(t, H, H, 1, f.node)
  <2>1. \A k \in 1 .. Len(t) : t[k].elem \in 1 .. f.node /\ t[k].h \in H
    BY <1>2, <1>4
  <2>2. ASSUME NEW k \in 1 .. Len(t), NEW l \in 1 .. Len(t), k < l
        PROVE  t[k].elem <= t[l].elem /\ (t[k].elem = t[l].elem => t[k].h.hid # t[l].h.hid)
    <3>1. k + 1 < l + 1 /\ k + 1 \in 1 .. Len(q) /\ l + 1 \in 1 .. Len(q) /\ t[k] = q[k + 1] /\ t[l] = q[l + 1]
      BY <1>3, <1>4, <2>2
    <3> QED BY <1>2, <3>1
  <2> QED BY <1>3, <2>1, <2>2 DEF Taken
<1>6. q[1].elem \in 1 .. f.node /\ q[1].elem \in 0 .. Document
  <2>1. q[1].elem \in 1 .. f.node
    BY <1>2, <1>3
  <2> QED BY <2>1, <1>1, DocumentAssumption
<1>7. g = [f EXCEPT !.queue = t, !.elem = q[1].elem]
  BY <1>3 DEF t, IsNext
<1> HIDE DEF q
<1>8. g \in FrameSet(H) /\ SamePlace(f, g) /\ g.ev = f.ev /\ g.queue = t /\ g.elem = q[1].elem
  BY <1>1, <1>3, <1>6, <1>7 DEF FrameSet, SamePlace
<1>9. g \in Frames(H)
  BY <1>1, <1>5, <1>8 DEF Frames, Fits, IsWalkOf, SamePlace
<1> QED BY <1>2, <1>3, <1>4, <1>6, <1>8, <1>9 DEF q, t, NextOf

\* A handler that is called.
IsCalled(fn, call, f) == f = [Frame("user") EXCEPT !.fn = fn, !.call = call]

\* A call of user code is a frame.
LEMMA UserIs ==
  ASSUME NEW H, NEW fn \in {0} \cup {b.fn : b \in Bindings}, NEW call \in Nat, NEW f, IsCalled(fn, call, f)
  PROVE  f \in Frames(H) /\ f.frame = "user" /\ f.call = call /\ f.fn = fn
<1>1. "user" \in Names
  BY DEF Names
<1>2. Frame("user") \in FrameSet(H) /\ Frame("user").frame = "user"
  BY <1>1, FrameIs
<1>3. f \in FrameSet(H) /\ f.frame = "user" /\ f.call = call /\ f.fn = fn
  BY <1>2 DEF FrameSet, IsCalled
<1> QED BY <1>3 DEF Frames, Fits, IsWalkOf

----------
(* How the stack changes.                                                   *)

\* r is the stack s with its last frame replaced, with a frame more, or with its first k frames.
Replaced(s, f, r) == Len(r) = Len(s) /\ r[Len(s)] = f /\ \A i \in 1 .. Len(s) - 1 : r[i] = s[i]
Extended(s, f, r) == Len(r) = Len(s) + 1 /\ r[Len(s) + 1] = f /\ \A i \in 1 .. Len(s) : r[i] = s[i]
Shortened(s, k, r) == k \in 0 .. Len(s) /\ Len(r) = k /\ \A i \in 1 .. k : r[i] = s[i]

\* A stack cut at k.
LEMMA ShortenedIs ==
  ASSUME NEW S, NEW s \in Seq(S), NEW k \in 0 .. Len(s), NEW r, r = SubSeq(s, 1, k)
  PROVE  r \in Seq(S) /\ Shortened(s, k, r)
<1>1. Len(s) \in Nat /\ \A i \in 1 .. k : s[i] \in S
  OBVIOUS
<1>2. r \in Seq(S) /\ Len(r) = k /\ \A i \in 1 .. k : r[i] = s[i]
  BY <1>1, SubSeqProperties
<1> QED BY <1>2 DEF Shortened

\* A stack with a frame more.
LEMMA ExtendedIs ==
  ASSUME NEW S, NEW s \in Seq(S), NEW f \in S, NEW r, r = Append(s, f)
  PROVE  r \in Seq(S) /\ Extended(s, f, r)
BY AppendProperties DEF Extended

\* A stack without its last frame.
LEMMA PoppedIs ==
  ASSUME NEW S, NEW s \in Seq(S), s # <<>>, NEW r, r = SubSeq(s, 1, Len(s) - 1)
  PROVE  r \in Seq(S) /\ Shortened(s, Len(s) - 1, r) /\ Len(s) \in Nat \ {0} /\ s[Len(s)] \in S
<1>1. Len(s) \in Nat \ {0} /\ s[Len(s)] \in S
  OBVIOUS
<1>2. Len(s) - 1 \in 0 .. Len(s)
  BY <1>1
<1> QED BY <1>1, <1>2, ShortenedIs

\* A stack with its last frame replaced.
LEMMA ReplacedIs ==
  ASSUME NEW S, NEW s \in Seq(S), s # <<>>, NEW f \in S, NEW r, r = Append(SubSeq(s, 1, Len(s) - 1), f)
  PROVE  r \in Seq(S) /\ Replaced(s, f, r)
<1> DEFINE b == SubSeq(s, 1, Len(s) - 1)
<1>1. b \in Seq(S) /\ Shortened(s, Len(s) - 1, b) /\ Len(s) \in Nat \ {0}
  BY PoppedIs
<1> HIDE DEF b
<1>2. r \in Seq(S) /\ Extended(b, f, r)
  BY <1>1, ExtendedIs DEF b
<1>3. (Len(s) - 1) + 1 = Len(s)
  BY <1>1
<1> QED BY <1>1, <1>2, <1>3 DEF Replaced, Extended, Shortened

\* Two frames instead of the one on top.
LEMMA GrownIs ==
  ASSUME NEW S, NEW s \in Seq(S), s # <<>>, NEW f \in S, NEW g \in S, NEW r, r = SubSeq(s, 1, Len(s) - 1) \o <<f, g>>
  PROVE  \E q \in Seq(S) : Replaced(s, f, q) /\ Extended(q, g, r) /\ r \in Seq(S)
<1> DEFINE b == SubSeq(s, 1, Len(s) - 1)
           q == Append(b, f)
<1>1. b \in Seq(S) /\ Len(s) \in Nat \ {0}
  BY PoppedIs
<1>2. q \in Seq(S) /\ Replaced(s, f, q)
  BY ReplacedIs
<1> HIDE DEF b
<1>3. r = Append(q, g)
  <2>1. /\ b \o <<f, g>> \in Seq(S)
        /\ Len(b \o <<f, g>>) = Len(b) + Len(<<f, g>>)
        /\ \A i \in 1 .. Len(b) + Len(<<f, g>>) : (b \o <<f, g>>)[i] = IF i <= Len(b) THEN b[i] ELSE <<f, g>>[i - Len(b)]
    BY <1>1, TwoTyped, ConcatProperties
  <2>2. Len(<<f, g>>) = 2 /\ <<f, g>>[1] = f /\ <<f, g>>[2] = g /\ Len(b) \in Nat
    BY <1>1
  <2>3. /\ r \in Seq(S) /\ Len(r) = Len(b) + 2 /\ \A i \in 1 .. Len(b) : r[i] = b[i]
        /\ r[Len(b) + 1] = f /\ r[Len(b) + 2] = g
    BY <2>1, <2>2 DEF b
  <2>4. /\ q \in Seq(S) /\ Len(q) = Len(b) + 1 /\ \A i \in 1 .. Len(b) : q[i] = b[i]
        /\ q[Len(b) + 1] = f
    BY <1>1, AppendProperties
  <2> HIDE DEF q
  <2>5. /\ Append(q, g) \in Seq(S) /\ Len(Append(q, g)) = Len(q) + 1 /\ \A i \in 1 .. Len(q) : Append(q, g)[i] = q[i]
        /\ Append(q, g)[Len(q) + 1] = g
    BY <2>4, AppendProperties
  <2> DEFINE z == Append(q, g)
             m == Len(b)
  <2>6. z \in Seq(S) /\ Len(z) = Len(q) + 1 /\ (\A i \in 1 .. Len(q) : z[i] = q[i]) /\ z[Len(q) + 1] = g
    BY <2>5
  <2> HIDE DEF z
  <2>7. /\ z \in Seq(S) /\ Len(z) = m + 2 /\ m \in Nat
        /\ \A i \in 1 .. m : z[i] = b[i]
        /\ z[m + 1] = f /\ z[m + 2] = g
    BY <2>2, <2>4, <2>6
  <2>8. /\ r \in Seq(S) /\ Len(r) = m + 2 /\ \A i \in 1 .. m : r[i] = b[i]
        /\ r[m + 1] = f /\ r[m + 2] = g
    BY <2>3
  <2> HIDE DEF m
  <2>9. \A i \in 1 .. m + 2 : r[i] = z[i]
    <3>1. \A i \in 1 .. m + 2 : i \in 1 .. m \/ i = m + 1 \/ i = m + 2
      BY <2>7
    <3> QED BY <3>1, <2>7, <2>8
  <2>10. r = z
    BY <2>7, <2>8, <2>9, SeqEqual
  <2> QED BY <2>10 DEF z
<1> HIDE DEF q
<1>4. r \in Seq(S) /\ Extended(q, g, r)
  BY <1>2, <1>3, ExtendedIs
<1> QED BY <1>2, <1>4

----------
(* What holds of the stack.                                                 *)

\* Walks that are not over, and wait for no method of the browser.
Active(f) == f.frame = "native" \/ (f.frame = "trigger" /\ ~f.method)

\* A dispatch is above the walk that it is about, a handler above its dispatch.
FrameOk(fs, i) ==
  /\ Active(fs[i]) => fs[i].ev.original = 0
  /\ fs[i].frame = "dispatch" =>
       /\ i > 1 /\ Active(fs[i - 1])
       /\ fs[i - 1].frame = "native" =>
            fs[i].owner = i /\ fs[i].ev.original = i - 1 /\ fs[i].ev.root = fs[i - 1].ev.root
       /\ fs[i - 1].frame = "trigger" => fs[i].owner = i - 1
  /\ fs[i].frame = "user" /\ fs[i].call # 0 => i > 1 /\ fs[i - 1].frame = "dispatch"

\* Every frame stands where a frame of its kind may stand.
Stacked(fs) == \A i \in 1 .. Len(fs) : FrameOk(fs, i)

\* Walks that began later are about later events.
Roots(fs, b) ==
  /\ \A i \in 1 .. Len(fs) : Active(fs[i]) => fs[i].ev.root \in 1 .. b
  /\ \A i, j \in 1 .. Len(fs) : i < j /\ Active(fs[i]) /\ Active(fs[j]) => fs[i].ev.root < fs[j].ev.root

\* A walk knows that its default was prevented, and that is not yet done.
Vetoes(fs, v, a) ==
  \A i \in 1 .. Len(fs) : Active(fs[i]) => fs[i].ev.root \notin a /\ (fs[i].ev.root \in v => fs[i].ev.prevented)

\* And no event has had its default prevented and done; one under way is not yet done.
StackOk(fs, b, v, a) ==
  /\ Stacked(fs) /\ Roots(fs, b) /\ Vetoes(fs, v, a)
  /\ v \subseteq 1 .. b /\ a \subseteq 1 .. b /\ v \cap a = {}

\* The frame f in the place of e.
Stays(e, f) ==
  /\ f.frame = e.frame /\ f.owner = e.owner /\ f.call = e.call /\ f.ev = e.ev
  /\ Active(f) => Active(e)

\* The last frame may be replaced by one that may take its place.
LEMMA ReplacedOk ==
  ASSUME NEW s, Len(s) \in Nat \ {0}, NEW f, NEW r, Replaced(s, f, r), Stays(s[Len(s)], f),
         NEW b \in Nat, NEW v, NEW a, StackOk(s, b, v, a)
  PROVE  StackOk(r, b, v, a)
<1> DEFINE n == Len(s)
<1>1. n \in Nat /\ n >= 1 /\ Len(r) = n /\ r[n] = f /\ \A i \in 1 .. n - 1 : r[i] = s[i]
  BY DEF Replaced
<1> HIDE DEF n
<1>2. \A i \in 1 .. n : i = n \/ i \in 1 .. n - 1
  BY <1>1
<1>3. \A i \in 1 .. n : Active(r[i]) => Active(s[i]) /\ r[i].ev = s[i].ev
  BY <1>1, <1>2 DEF Stays, n
<1>4. ASSUME NEW i \in 1 .. n PROVE FrameOk(r, i)
  <2>1. FrameOk(s, i)
    BY DEF StackOk, Stacked, n
  <2>2. CASE i \in 1 .. n - 1
    <3>1. i > 1 => i - 1 \in 1 .. n - 1
      BY <1>1, <2>2
    <3> QED BY <2>1, <2>2, <3>1, <1>1 DEF FrameOk
  <2>3. CASE i = n
    <3>1. i > 1 => i - 1 \in 1 .. n - 1
      BY <1>1, <2>3
    <3>2. f.frame = s[i].frame /\ f.owner = s[i].owner /\ f.call = s[i].call /\ f.ev = s[i].ev /\ (Active(f) => Active(s[i]))
      BY <2>3 DEF Stays, n
    <3>3. r[i] = f
      BY <1>1, <2>3
    <3> QED BY <2>1, <3>1, <3>2, <3>3, <1>1 DEF FrameOk
  <2> QED BY <1>2, <2>2, <2>3
<1>5. Stacked(r)
  BY <1>1, <1>4 DEF Stacked
<1>6. Roots(r, b) /\ Vetoes(r, v, a)
  BY <1>1, <1>3 DEF StackOk, Roots, Vetoes, n
<1> QED BY <1>5, <1>6 DEF StackOk

\* A frame that comes on top.
Tops(s, f, b, v, a) ==
  Active(f) =>
    /\ f.ev.root \in 1 .. b
    /\ \A i \in 1 .. Len(s) : Active(s[i]) => s[i].ev.root < f.ev.root
    /\ f.ev.root \notin a /\ (f.ev.root \in v => f.ev.prevented)

\* A frame may be put on top of those that it may stand on.
LEMMA ExtendedOk ==
  ASSUME NEW s, Len(s) \in Nat, NEW f, NEW r, Extended(s, f, r), FrameOk(r, Len(s) + 1),
         NEW b \in Nat, NEW c \in Nat, b <= c, NEW v, NEW a, StackOk(s, b, v, a), Tops(s, f, c, v, a)
  PROVE  StackOk(r, c, v, a)
<1> DEFINE n == Len(s)
<1>1. n \in Nat /\ Len(r) = n + 1 /\ r[n + 1] = f /\ \A i \in 1 .. n : r[i] = s[i]
  BY DEF Extended
<1>0. FrameOk(r, n + 1)
  OBVIOUS
<1> HIDE DEF n
<1>2. \A i \in 1 .. n + 1 : i = n + 1 \/ i \in 1 .. n
  BY <1>1
<1>3. ASSUME NEW i \in 1 .. n PROVE FrameOk(r, i)
  <2>1. FrameOk(s, i)
    BY DEF StackOk, Stacked, n
  <2>2. i > 1 => i - 1 \in 1 .. n
    BY <1>1
  <2> QED BY <2>1, <2>2, <1>1 DEF FrameOk
<1>4. Stacked(r)
  BY <1>0, <1>1, <1>2, <1>3 DEF Stacked
<1>5. /\ \A i \in 1 .. n : Active(s[i]) => s[i].ev.root \in 1 .. b /\ s[i].ev.root \in 1 .. c
      /\ \A i, j \in 1 .. n : i < j /\ Active(s[i]) /\ Active(s[j]) => s[i].ev.root < s[j].ev.root
  BY DEF StackOk, Roots, n
<1>6. Roots(r, c)
  <2>1. \A i \in 1 .. n + 1 : Active(r[i]) => r[i].ev.root \in 1 .. c
    BY <1>1, <1>2, <1>5 DEF Tops
  <2>2. ASSUME NEW i \in 1 .. n + 1, NEW j \in 1 .. n + 1, i < j, Active(r[i]), Active(r[j])
        PROVE  r[i].ev.root < r[j].ev.root
    <3>1. i \in 1 .. n
      BY <1>1, <2>2
    <3>2. CASE j \in 1 .. n
      BY <3>1, <3>2, <1>1, <1>5, <2>2
    <3>3. CASE j = n + 1
      BY <3>1, <3>3, <1>1, <2>2 DEF Tops, n
    <3> QED BY <3>2, <3>3, <1>2
  <2> QED BY <1>1, <2>1, <2>2 DEF Roots
<1>7. Vetoes(r, v, a)
  <2>1. \A i \in 1 .. n : Active(s[i]) => s[i].ev.root \notin a /\ (s[i].ev.root \in v => s[i].ev.prevented)
    BY DEF StackOk, Vetoes, n
  <2>2. \A i \in 1 .. n + 1 : Active(r[i]) => r[i].ev.root \notin a /\ (r[i].ev.root \in v => r[i].ev.prevented)
    BY <2>1, <1>1, <1>2 DEF Tops
  <2> QED BY <2>2, <1>1 DEF Vetoes
<1>8. v \subseteq 1 .. c /\ a \subseteq 1 .. c /\ v \cap a = {}
  BY DEF StackOk
<1> QED BY <1>4, <1>6, <1>7, <1>8 DEF StackOk

\* Frames may be taken away.
LEMMA ShortenedOk ==
  ASSUME NEW s, Len(s) \in Nat, NEW k, NEW r, Shortened(s, k, r),
         NEW b \in Nat, NEW v, NEW a, StackOk(s, b, v, a)
  PROVE  StackOk(r, b, v, a)
<1> DEFINE n == Len(s)
<1>1. n \in Nat /\ k \in 0 .. n /\ Len(r) = k /\ \A i \in 1 .. k : r[i] = s[i] /\ i \in 1 .. n
  BY DEF Shortened
<1> HIDE DEF n
<1>2. ASSUME NEW i \in 1 .. k PROVE FrameOk(r, i)
  <2>1. FrameOk(s, i)
    BY <1>1 DEF StackOk, Stacked, n
  <2>2. i > 1 => i - 1 \in 1 .. k
    BY <1>1
  <2> QED BY <2>1, <2>2, <1>1 DEF FrameOk
<1>3. Stacked(r)
  BY <1>1, <1>2 DEF Stacked
<1>4. Roots(r, b) /\ Vetoes(r, v, a)
  BY <1>1 DEF StackOk, Roots, Vetoes, n
<1> QED BY <1>3, <1>4 DEF StackOk

\* Frames whose events have other flags.
Marked(s, r) ==
  /\ Len(r) = Len(s)
  /\ \A i \in 1 .. Len(s) :
       /\ SamePlace(s[i], r[i]) /\ Raised(s[i].ev, r[i].ev)
       /\ r[i].path = s[i].path /\ r[i].queue = s[i].queue /\ r[i].elem = s[i].elem

\* Flags may be raised anywhere.
LEMMA MarkedOk ==
  ASSUME NEW s, Len(s) \in Nat, NEW r, Marked(s, r),
         NEW b \in Nat, NEW v, NEW a, StackOk(s, b, v, a)
  PROVE  StackOk(r, b, v, a) /\ \A i \in 1 .. Len(s) : Active(r[i]) <=> Active(s[i])
<1> DEFINE n == Len(s)
<1>1. n \in Nat /\ Len(r) = n
  BY DEF Marked
<1>2. \A i \in 1 .. n : /\ r[i].frame = s[i].frame /\ r[i].owner = s[i].owner /\ r[i].call = s[i].call
                        /\ r[i].ev.root = s[i].ev.root /\ r[i].ev.original = s[i].ev.original
                        /\ s[i].ev.prevented => r[i].ev.prevented
                        /\ Active(r[i]) <=> Active(s[i])
  BY DEF Marked, SamePlace, Raised, Active
<1> HIDE DEF n
<1>3. ASSUME NEW i \in 1 .. n PROVE FrameOk(r, i)
  <2>1. FrameOk(s, i)
    BY DEF StackOk, Stacked, n
  <2>2. i > 1 => i - 1 \in 1 .. n
    BY <1>1
  <2> QED BY <2>1, <2>2, <1>2 DEF FrameOk
<1>4. Stacked(r)
  BY <1>1, <1>3 DEF Stacked
<1>5. Roots(r, b) /\ Vetoes(r, v, a)
  BY <1>1, <1>2 DEF StackOk, Roots, Vetoes, n
<1> QED BY <1>2, <1>4, <1>5 DEF StackOk, n

\* The default of the event on top is done, which nobody prevented.
LEMMA ActedOk ==
  ASSUME NEW s, Len(s) \in Nat \ {0}, NEW r, Shortened(s, Len(s) - 1, r), Active(s[Len(s)]), ~s[Len(s)].ev.prevented,
         NEW b \in Nat, NEW v, NEW a, StackOk(s, b, v, a)
  PROVE  StackOk(r, b, v, a \cup {s[Len(s)].ev.root})
<1> DEFINE n == Len(s)
           x == s[n].ev.root
<1>1. n \in Nat /\ n >= 1 /\ Len(r) = n - 1 /\ \A i \in 1 .. n - 1 : r[i] = s[i] /\ i \in 1 .. n /\ i < n
  BY DEF Shortened
<1>2. StackOk(r, b, v, a)
  BY ShortenedOk
<1>3. x \in 1 .. b /\ x \notin v /\ \A i \in 1 .. n - 1 : Active(s[i]) => s[i].ev.root < x /\ s[i].ev.root \in 1 .. b
  BY <1>1 DEF StackOk, Roots, Vetoes
<1> HIDE DEF n, x
<1>4. Vetoes(r, v, a \cup {x})
  <2>1. \A i \in 1 .. n - 1 : Active(r[i]) => r[i].ev.root # x
    BY <1>1, <1>3
  <2> QED BY <2>1, <1>1, <1>2 DEF StackOk, Vetoes
<1> QED BY <1>2, <1>3, <1>4 DEF StackOk, x, n

----------
(* Moves of the stack.                                                      *)

\* The frame on top becomes f.
LEMMA MoveBecome ==
  ASSUME NEW H, NEW s \in Seq(Frames(H)), s # <<>>, NEW f \in Frames(H), Stays(s[Len(s)], f),
         NEW b \in Nat, NEW v, NEW a, StackOk(s, b, v, a), NEW r, r = Append(SubSeq(s, 1, Len(s) - 1), f)
  PROVE  r \in Seq(Frames(H)) /\ StackOk(r, b, v, a)
<1> DEFINE S == Frames(H)
<1>0. s \in Seq(S) /\ f \in S
  OBVIOUS
<1> HIDE DEF S
<1>1. r \in Seq(S) /\ Replaced(s, f, r) /\ Len(s) \in Nat \ {0}
  BY <1>0, ReplacedIs, PoppedIs
<1>2. StackOk(r, b, v, a)
  BY <1>1, ReplacedOk
<1> QED BY <1>1, <1>2 DEF S

\* The frame on top goes.
LEMMA MovePop ==
  ASSUME NEW H, NEW s \in Seq(Frames(H)), s # <<>>,
         NEW b \in Nat, NEW v, NEW a, StackOk(s, b, v, a), NEW r, r = SubSeq(s, 1, Len(s) - 1)
  PROVE  r \in Seq(Frames(H)) /\ StackOk(r, b, v, a) /\ Shortened(s, Len(s) - 1, r)
<1> DEFINE S == Frames(H)
<1>0. s \in Seq(S)
  OBVIOUS
<1> HIDE DEF S
<1>1. r \in Seq(S) /\ Shortened(s, Len(s) - 1, r) /\ Len(s) \in Nat \ {0}
  BY <1>0, PoppedIs
<1>2. StackOk(r, b, v, a)
  BY <1>1, ShortenedOk
<1> QED BY <1>1, <1>2 DEF S

\* Frame g may be above f, which is at place n.
Above(f, g, n) ==
  /\ Active(g) => g.ev.original = 0
  /\ g.frame = "dispatch" =>
       /\ Active(f)
       /\ f.frame = "native" => g.owner = n + 1 /\ g.ev.original = n /\ g.ev.root = f.ev.root
       /\ f.frame = "trigger" => g.owner = n
  /\ g.frame = "user" /\ g.call # 0 => f.frame = "dispatch"

\* A walk that begins is of a new event, or of the one whose walk waits for it.
Opens(e, f, g, b, c) ==
  /\ b <= c
  /\ Active(g) => \/ g.ev.root = b + 1 /\ b + 1 <= c
                  \/ ~Active(f) /\ Active(e) /\ ~e.ev.prevented /\ g.ev.root = e.ev.root

\* A frame put on top of another stands where it may.
LEMMA OnTop ==
  ASSUME NEW s, Len(s) \in Nat \ {0}, NEW f, NEW g, NEW r, Extended(s, g, r), s[Len(s)] = f, Above(f, g, Len(s))
  PROVE  FrameOk(r, Len(s) + 1)
<1> DEFINE n == Len(s)
<1>1. n \in Nat /\ n + 1 > 1 /\ (n + 1) - 1 = n /\ r[n + 1] = g /\ r[n] = f
  BY DEF Extended
<1>2. Above(f, g, n)
  OBVIOUS
<1> HIDE DEF n
<1>3. FrameOk(r, n + 1)
  BY <1>1, <1>2 DEF FrameOk, Above
<1> QED BY <1>3 DEF n

\* Frame f replaces the one on top, and g comes above it.
LEMMA MoveGrow ==
  ASSUME NEW H, NEW s \in Seq(Frames(H)), s # <<>>, NEW f \in Frames(H), NEW g \in Frames(H), Stays(s[Len(s)], f),
         Above(f, g, Len(s)), NEW b, NEW c, b \in Nat, c \in Nat, Opens(s[Len(s)], f, g, b, c),
         NEW v, NEW a, StackOk(s, b, v, a), NEW r, r = SubSeq(s, 1, Len(s) - 1) \o <<f, g>>
  PROVE  r \in Seq(Frames(H)) /\ StackOk(r, c, v, a)
<1> DEFINE S == Frames(H)
           e == s[Len(s)]
<1>0. s \in Seq(S) /\ f \in S /\ g \in S
  OBVIOUS
<1> HIDE DEF S
<1>1. PICK q \in Seq(S) : Replaced(s, f, q) /\ Extended(q, g, r) /\ r \in Seq(S)
  BY <1>0, GrownIs
<1>2. Len(s) \in Nat \ {0} /\ Len(q) = Len(s) /\ q[Len(s)] = f /\ \A i \in 1 .. Len(s) - 1 : q[i] = s[i]
  BY <1>0, <1>1, PoppedIs DEF Replaced
<1>3. StackOk(q, b, v, a)
  BY <1>1, <1>2, ReplacedOk
<1>4. FrameOk(r, Len(q) + 1)
  <2>1. Above(f, g, Len(q)) /\ Len(q) \in Nat \ {0} /\ q[Len(q)] = f
    BY <1>2
  <2> QED BY <2>1, <1>1, OnTop
<1>5. Tops(q, g, c, v, a)
  <2> SUFFICES ASSUME Active(g)
               PROVE  /\ g.ev.root \in 1 .. c
                      /\ \A i \in 1 .. Len(q) : Active(q[i]) => q[i].ev.root < g.ev.root
                      /\ g.ev.root \notin a /\ (g.ev.root \in v => g.ev.prevented)
    BY DEF Tops
  <2>1. /\ \A i \in 1 .. Len(q) : Active(q[i]) => q[i].ev.root \in 1 .. b
        /\ v \subseteq 1 .. b /\ a \subseteq 1 .. b
    BY <1>3 DEF StackOk, Roots
  <2>2. CASE g.ev.root = b + 1 /\ b + 1 <= c
    BY <2>1, <2>2
  <2>3. CASE ~Active(f) /\ Active(e) /\ ~e.ev.prevented /\ g.ev.root = e.ev.root
    <3> DEFINE n == Len(s)
    <3>1. /\ e.ev.root \in 1 .. b /\ e.ev.root \notin a /\ e.ev.root \notin v
          /\ \A i \in 1 .. n - 1 : Active(s[i]) => s[i].ev.root < e.ev.root
      <4>1. n \in 1 .. n /\ \A i \in 1 .. n - 1 : i \in 1 .. n /\ i < n
        BY <1>2
      <4> QED BY <2>3, <4>1 DEF StackOk, Roots, Vetoes
    <3>2. e.ev.root \in 1 .. c
      BY <3>1 DEF Opens
    <3>3. \A i \in 1 .. n : Active(q[i]) => i \in 1 .. n - 1 /\ q[i] = s[i]
      BY <1>2, <2>3
    <3> QED BY <3>1, <3>2, <3>3, <2>3, <1>2
  <2> QED BY <2>2, <2>3 DEF Opens
<1>6. b <= c /\ Len(q) \in Nat
  BY <1>2 DEF Opens
<1>7. StackOk(r, c, v, a)
  BY <1>1, <1>3, <1>4, <1>5, <1>6, ExtendedOk
<1> QED BY <1>1, <1>7 DEF S

\* Frame g comes above the one on top.
LEMMA MovePush ==
  ASSUME NEW H, NEW s \in Seq(Frames(H)), s # <<>>, NEW g \in Frames(H), Above(s[Len(s)], g, Len(s)),
         NEW b, NEW c, b \in Nat, c \in Nat, b <= c, Active(g) => g.ev.root = b + 1 /\ b + 1 <= c,
         NEW v, NEW a, StackOk(s, b, v, a), NEW r, r = Append(s, g)
  PROVE  r \in Seq(Frames(H)) /\ StackOk(r, c, v, a)
<1> DEFINE S == Frames(H)
<1>0. s \in Seq(S) /\ g \in S
  OBVIOUS
<1> HIDE DEF S
<1>1. r \in Seq(S) /\ Extended(s, g, r)
  BY <1>0, ExtendedIs
<1>2. Len(s) \in Nat \ {0}
  BY <1>0, PoppedIs
<1>3. FrameOk(r, Len(s) + 1)
  BY <1>1, <1>2, OnTop
<1>4. Tops(s, g, c, v, a)
  <2>1. /\ \A i \in 1 .. Len(s) : Active(s[i]) => s[i].ev.root \in 1 .. b
        /\ v \subseteq 1 .. b /\ a \subseteq 1 .. b
    BY DEF StackOk, Roots
  <2> QED BY <2>1 DEF Tops
<1>5. StackOk(r, c, v, a)
  BY <1>1, <1>2, <1>3, <1>4, ExtendedOk
<1> QED BY <1>1, <1>5 DEF S

\* A stack of one frame.
LEMMA MoveBegin ==
  ASSUME NEW H, NEW g \in Frames(H), Active(g) => g.ev.original = 0, g.frame # "dispatch",
         g.frame = "user" => g.call = 0,
         NEW b, NEW c, b \in Nat, c \in Nat, b <= c, Active(g) => g.ev.root = b + 1 /\ b + 1 <= c, NEW r, r = <<g>>
  PROVE  r \in Seq(Frames(H)) /\ StackOk(r, c, {}, {})
<1>1. r \in Seq(Frames(H)) /\ Len(r) = 1 /\ r[1] = g
  OBVIOUS
<1>2. Stacked(r)
  <2>1. \A i \in 1 .. 1 : i = 1
    OBVIOUS
  <2>2. FrameOk(r, 1)
    BY <1>1 DEF FrameOk
  <2> QED BY <1>1, <2>1, <2>2 DEF Stacked
<1>3. Roots(r, c) /\ Vetoes(r, {}, {})
  <2>1. \A i \in 1 .. Len(r) : i = 1
    BY <1>1
  <2>2. Active(g) => g.ev.root \in 1 .. c
    OBVIOUS
  <2> QED BY <1>1, <2>1, <2>2 DEF Roots, Vetoes
<1> QED BY <1>1, <1>2, <1>3 DEF StackOk

\* Nothing is on the stack.
LEMMA EmptyOk ==
  ASSUME NEW b \in Nat, NEW v, NEW a, v \subseteq 1 .. b, a \subseteq 1 .. b, v \cap a = {}
  PROVE  StackOk(<<>>, b, v, a)
<1>1. \A i \in 1 .. Len(<<>>) : FALSE
  OBVIOUS
<1> QED BY <1>1 DEF StackOk, Stacked, Roots, Vetoes

(* Flags of the event that is dispatched, and of the one that it was made of. *)

\* r is the stack s with the event d for that of the owner of the dispatch and, if it was made
\* of the browser's, e for that of the walk.
Flagged(s, o, d, e, r) ==
  LET marked == [s EXCEPT ![o].ev = d]
  IN  r = IF s[o].ev.original = 0 THEN marked ELSE [marked EXCEPT ![s[o].ev.original].ev = e]

\* Where the event of the handler on top is, and the walk that it is about.
Handling(s) == Len(s) \in Nat /\ s[Len(s)].frame = "user" /\ s[Len(s)].call # 0
\* The frame that has the event of the handler that runs, and that of the walk it is for.
Owner(s) == s[Len(s) - 1].owner
WalkAt(s) == Len(s) - 2

\* They are of the same event, and the walk is under way.
LEMMA OwnerIs ==
  ASSUME NEW H, NEW s \in Seq(Frames(H)), s # <<>>, Handling(s), Stacked(s)
  PROVE  /\ Len(s) - 2 \in 1 .. Len(s) /\ Len(s) - 1 \in 1 .. Len(s)
         /\ s[Len(s) - 1].frame = "dispatch" /\ Active(s[WalkAt(s)])
         /\ Owner(s) \in 1 .. Len(s)
         /\ s[Owner(s)].ev.root = s[WalkAt(s)].ev.root
         /\ \/ /\ Owner(s) = WalkAt(s) /\ s[Owner(s)].ev.original = 0 /\ s[WalkAt(s)].frame = "trigger"
            \/ /\ Owner(s) = Len(s) - 1 /\ s[Owner(s)].ev.original = WalkAt(s) /\ s[WalkAt(s)].frame = "native"
<1> DEFINE n == Len(s)
<1>1. n \in Nat \ {0} /\ s[n].frame = "user" /\ s[n].call # 0
  BY DEF Handling
<1>2. \A i \in 1 .. n : FrameOk(s, i)
  BY DEF Stacked
<1> HIDE DEF n
<1>3. n > 1 /\ s[n - 1].frame = "dispatch"
  BY <1>1, <1>2 DEF FrameOk
<1>4. n - 1 \in 1 .. n /\ (n - 1) - 1 = n - 2
  BY <1>1, <1>3
<1>5. /\ n - 1 > 1 /\ Active(s[n - 2])
      /\ s[n - 2].frame = "native" =>
            s[n - 1].owner = n - 1 /\ s[n - 1].ev.original = n - 2 /\ s[n - 1].ev.root = s[n - 2].ev.root
      /\ s[n - 2].frame = "trigger" => s[n - 1].owner = n - 2
  BY <1>2, <1>3, <1>4 DEF FrameOk
<1>6. n - 2 \in 1 .. n
  BY <1>1, <1>5
<1>7. s[n - 2].ev.original = 0
  BY <1>2, <1>5, <1>6 DEF FrameOk
<1>8. s[n - 2].frame = "native" \/ s[n - 2].frame = "trigger"
  BY <1>5 DEF Active
<1> QED BY <1>3, <1>4, <1>5, <1>6, <1>7, <1>8 DEF n, Owner, WalkAt

\* They are set there, and nowhere else.
FlagsIn(H, s, d, e, r) ==
  /\ Len(r) = Len(s) /\ r \in Seq(Frames(H))
  /\ \A i \in 1 .. Len(s) : i # Owner(s) /\ i # WalkAt(s) => r[i] = s[i]
  /\ r[Owner(s)] = [s[Owner(s)] EXCEPT !.ev = d]
  /\ r[WalkAt(s)] = IF Owner(s) = WalkAt(s) THEN [s[WalkAt(s)] EXCEPT !.ev = d] ELSE [s[WalkAt(s)] EXCEPT !.ev = e]

\* Setting the flags of the event of the handler on top changes the event it was called with,
\* and that of the walk, and no other frame.
LEMMA FlaggedIs ==
  ASSUME NEW H, NEW s \in Seq(Frames(H)), s # <<>>, Handling(s), Stacked(s),
         NEW d, NEW e, Raised(s[Owner(s)].ev, d), Raised(s[WalkAt(s)].ev, e),
         NEW r, Flagged(s, Owner(s), d, e, r)
  PROVE  FlagsIn(H, s, d, e, r)
<1> DEFINE n == Len(s)
           o == Owner(s)
           w == WalkAt(s)
<1>1. /\ n \in Nat /\ w \in 1 .. n /\ o \in 1 .. n
      /\ (o = w /\ s[o].ev.original = 0) \/ (o # w /\ s[o].ev.original = w)
  BY OwnerIs DEF WalkAt, Handling
<1>2. /\ Len(r) = n /\ r \in Seq(Frames(H))
      /\ \A i \in 1 .. n : i # o /\ i # w => r[i] = s[i]
      /\ r[o] = [s[o] EXCEPT !.ev = d]
      /\ r[w] = IF o = w THEN [s[w] EXCEPT !.ev = d] ELSE [s[w] EXCEPT !.ev = e]
  <2>1. s[o] \in Frames(H) /\ s[w] \in Frames(H) /\ s \in [1 .. n -> Frames(H)]
    BY <1>1
  <2>2. [s[o] EXCEPT !.ev = d] \in Frames(H) /\ [s[w] EXCEPT !.ev = e] \in Frames(H)
    <3> DEFINE e1 == s[o]
               e2 == s[w]
               g1 == [e1 EXCEPT !.ev = d]
               g2 == [e2 EXCEPT !.ev = e]
    <3>1. /\ e1 \in Frames(H) /\ e2 \in Frames(H) /\ Raised(e1.ev, d) /\ Raised(e2.ev, e)
          /\ EventIn(e1, d, g1) /\ EventIn(e2, e, g2)
      BY <2>1 DEF EventIn
    <3> HIDE DEF e1, e2, g1, g2, o, w, n
    <3>2. EventOnly(H, e1, d, g1) /\ EventOnly(H, e2, e, g2)
      BY <3>1, EventChanged
    <3> QED BY <3>2 DEF EventOnly, e1, e2, g1, g2
  <2> DEFINE so == [s[o] EXCEPT !.ev = d]
             sw == [s[w] EXCEPT !.ev = e]
             S == Frames(H)
  <2>3. so \in S /\ sw \in S /\ s \in Seq(S)
    BY <2>2
  <2>4. CASE o = w /\ s[o].ev.original = 0
    <3>1. r = [s EXCEPT ![o] = so]
      BY <2>4 DEF Flagged
    <3> HIDE DEF so, S, o, w
    <3>2. r \in Seq(S) /\ Len(r) = n /\ r[o] = so /\ \A i \in 1 .. n : i # o => r[i] = s[i]
      BY <3>1, <2>3, <1>1
    <3> QED BY <3>2, <2>4 DEF so, S
  <2>5. CASE o # w /\ s[o].ev.original = w
    <3>1. w # 0
      BY <1>1
    <3>2. r = [[s EXCEPT ![o] = so] EXCEPT ![w].ev = e]
      BY <2>5, <3>1 DEF Flagged
    <3> DEFINE z == [s EXCEPT ![o] = so]
    <3> HIDE DEF so, S, o, w
    <3>3. z \in Seq(S) /\ Len(z) = n /\ z[o] = so /\ \A i \in 1 .. n : i # o => z[i] = s[i]
      BY <2>3, <1>1
    <3> HIDE DEF z
    <3>4. r = [z EXCEPT ![w] = sw]
      <4>1. z[w] = s[w]
        BY <3>3, <2>5, <1>1
      <4>2. r = [z EXCEPT ![w].ev = e]
        BY <3>2 DEF z
      <4> QED BY <4>1, <4>2
    <3> HIDE DEF sw
    <3>5. r \in Seq(S) /\ Len(r) = n /\ r[w] = sw /\ \A i \in 1 .. n : i # w => r[i] = z[i]
      BY <3>4, <3>3, <2>3, <1>1
    <3>6. r[o] = so /\ \A i \in 1 .. n : i # o /\ i # w => r[i] = s[i]
      BY <3>5, <3>3, <2>5, <1>1
    <3> QED BY <3>5, <3>6, <2>5 DEF so, sw, S
  <2> QED BY <1>1, <2>4, <2>5
<1> QED BY <1>2 DEF FlagsIn

\* Handlers may raise flags of their event, and prevent the default of the walk's with it.
LEMMA MoveFlags ==
  ASSUME NEW H, NEW s \in Seq(Frames(H)), s # <<>>, Handling(s),
         NEW b \in Nat, NEW v, NEW a, StackOk(s, b, v, a),
         NEW d, NEW e, Raised(s[Owner(s)].ev, d), Raised(s[WalkAt(s)].ev, e),
         NEW r, Flagged(s, Owner(s), d, e, r)
  PROVE  /\ r \in Seq(Frames(H)) /\ StackOk(r, b, v, a) /\ Marked(s, r)
         /\ d.prevented /\ e.prevented =>
              StackOk(r, b, v \cup {s[Owner(s)].ev.root}, a)
<1> DEFINE n == Len(s)
           o == Owner(s)
           w == WalkAt(s)
           x == s[o].ev.root
<1>0. Stacked(s)
  BY DEF StackOk
<1>1. /\ n \in Nat /\ w \in 1 .. n /\ o \in 1 .. n /\ Active(s[w]) /\ s[w].ev.root = x
      /\ (o = w /\ s[o].ev.original = 0) \/ (o # w /\ s[o].ev.original = w)
  BY <1>0, OwnerIs DEF WalkAt, Handling
<1>2. /\ Len(r) = n /\ r \in Seq(Frames(H))
      /\ \A i \in 1 .. n : i # o /\ i # w => r[i] = s[i]
      /\ r[o] = [s[o] EXCEPT !.ev = d]
      /\ r[w] = IF o = w THEN [s[w] EXCEPT !.ev = d] ELSE [s[w] EXCEPT !.ev = e]
  <2>1. FlagsIn(H, s, d, e, r)
    BY <1>0, FlaggedIs
  <2> QED BY <2>1 DEF FlagsIn
<1>3. /\ \A i \in 1 .. n : s[i] \in Frames(H) /\ s[i].ev \in EventSet
      /\ Raised(s[o].ev, d) /\ Raised(s[w].ev, e)
  <2>1. \A i \in 1 .. n : s[i] \in Frames(H)
    OBVIOUS
  <2>2. \A f \in Frames(H) : f.ev \in EventSet
    BY DEF Frames, FrameSet
  <2> QED BY <2>1, <2>2
<1>4. Marked(s, r)
  <2>1. ASSUME NEW i \in 1 .. n
        PROVE  /\ SamePlace(s[i], r[i]) /\ Raised(s[i].ev, r[i].ev)
               /\ r[i].path = s[i].path /\ r[i].queue = s[i].queue /\ r[i].elem = s[i].elem
    <3> DEFINE f == s[i]
               g == r[i]
    <3>1. f \in Frames(H) /\ f.ev \in EventSet
      BY <1>3
    <3>2. CASE i # o /\ i # w
      <4>1. g = f
        BY <3>2, <1>2
      <4> QED BY <4>1, <3>1, FlagsRaised DEF SamePlace
    <3>3. CASE i = o
      <4>1. EventIn(f, d, g) /\ Raised(f.ev, d)
        BY <3>3, <1>2, <1>3 DEF EventIn
      <4>3. f \in Frames(H)
        BY <3>1
      <4> HIDE DEF f, g
      <4>2. EventOnly(H, f, d, g)
        BY <4>1, <4>3, EventChanged
      <4> QED BY <4>1, <4>2 DEF f, g, EventOnly
    <3>4. CASE i = w /\ o # w
      <4>1. EventIn(f, e, g) /\ Raised(f.ev, e)
        BY <3>4, <1>2, <1>3 DEF EventIn
      <4>3. f \in Frames(H)
        BY <3>1
      <4> HIDE DEF f, g
      <4>2. EventOnly(H, f, e, g)
        BY <4>1, <4>3, EventChanged
      <4> QED BY <4>1, <4>2 DEF f, g, EventOnly
    <3> QED BY <3>2, <3>3, <3>4
  <2> HIDE DEF o, w
  <2> QED BY <2>1, <1>2 DEF Marked
<1>5. StackOk(r, b, v, a) /\ \A i \in 1 .. n : Active(r[i]) <=> Active(s[i])
  BY <1>1, <1>4, MarkedOk
<1>6. ASSUME d.prevented, e.prevented PROVE StackOk(r, b, v \cup {x}, a)
  <2>1. r[w].ev.prevented
    <3>1. s[w] \in Frames(H)
      BY <1>1
    <3>2. [s[w] EXCEPT !.ev = d].ev = d /\ [s[w] EXCEPT !.ev = e].ev = e
      BY <3>1 DEF Frames, FrameSet
    <3> QED BY <3>2, <1>2, <1>6
  <2>2. x \in 1 .. b /\ x \notin a
    BY <1>1 DEF StackOk, Roots, Vetoes
  <2>3. \A i \in 1 .. n : Active(s[i]) /\ s[i].ev.root = x => i = w
    <3> SUFFICES ASSUME NEW i \in 1 .. n, Active(s[i]), s[i].ev.root = x, i # w PROVE FALSE
      OBVIOUS
    <3>1. s[i].ev.root \in Nat /\ s[w].ev.root = x
      BY <1>1, <2>2
    <3>2. \A k, l \in 1 .. n : k < l /\ Active(s[k]) /\ Active(s[l]) => s[k].ev.root < s[l].ev.root
      BY DEF StackOk, Roots
    <3>3. ~(x < x)
      BY <2>2
    <3>4. CASE i < w
      BY <3>2, <3>3, <3>4, <1>1
    <3>5. CASE w < i
      BY <3>2, <3>3, <3>5, <1>1
    <3>6. i < w \/ w < i
      BY <1>1
    <3> QED BY <3>4, <3>5, <3>6
  <2>4. \A i \in 1 .. n : r[i].ev.root = s[i].ev.root
    BY <1>4 DEF Marked, Raised
  <2> HIDE DEF x, o, w
  <2>5. Vetoes(r, v \cup {x}, a)
    <3>1. Vetoes(r, v, a)
      BY <1>5 DEF StackOk
    <3> QED BY <3>1, <2>1, <2>3, <2>4, <1>2, <1>5 DEF Vetoes
  <2> QED BY <2>2, <2>5, <1>5 DEF StackOk
<1> QED BY <1>2, <1>4, <1>5, <1>6

----------
(* The handlers that may be there after k were bound.                       *)

\* Handlers, and calls of user code.
Bound(k) ==
  {[hid |-> i, type |-> b.type, selector |-> b.selector, ns |-> b.ns, fn |-> b.fn, one |-> b.one] :
     i \in 1 .. k, b \in Bindings}

CallSet ==
  [root : Nat, hid : Nat, node : 1 .. Document, elem : 1 .. Document, one : BOOLEAN, ends : {"no", "node", "all"}]

\* They only become more.
LEMMA BoundGrows ==
  ASSUME NEW k \in Nat
  PROVE  Bound(k) \subseteq Bound(k + 1) /\ \A h \in Bound(k) : h.hid \in 1 .. k
<1>1. 1 .. k \subseteq 1 .. k + 1
  OBVIOUS
<1> QED BY <1>1 DEF Bound

\* What they are.
LEMMA BoundIs ==
  ASSUME NEW k \in Nat, NEW h \in Bound(k)
  PROVE  /\ h.hid \in Nat /\ h.fn \in {0} \cup {b.fn : b \in Bindings} /\ h.one \in BOOLEAN
         /\ h = [hid |-> h.hid, type |-> h.type, selector |-> h.selector, ns |-> h.ns, fn |-> h.fn, one |-> h.one]
<1>1. PICK i \in 1 .. k, b \in Bindings :
        h = [hid |-> i, type |-> b.type, selector |-> b.selector, ns |-> b.ns, fn |-> b.fn, one |-> b.one]
  BY DEF Bound
<1>2. b.one \in BOOLEAN
  BY NodesAssumption
<1> QED BY <1>1, <1>2

\* A frame stays one when handlers are bound.
LEMMA FramesGrow ==
  ASSUME NEW H, NEW J, H \subseteq J
  PROVE  Frames(H) \subseteq Frames(J)
<1> SUFFICES ASSUME NEW f \in Frames(H) PROVE f \in Frames(J)
  OBVIOUS
<1>1. QueueSet(H) \subseteq QueueSet(J)
  BY DEF QueueSet
<1> DEFINE S == QueueSet(H)
           T == QueueSet(J)
<1>2. Seq(S) \subseteq Seq(T)
  <2> HIDE DEF S, T
  <2>1. S \subseteq T
    BY <1>1 DEF S, T
  <2> QED BY <2>1
<1>3. f \in FrameSet(J)
  BY <1>2 DEF Frames, FrameSet
<1>4. \A q, a, b : Taken(q, H, H, a, b) => Taken(q, J, J, a, b)
  BY <1>2 DEF Taken
<1> QED BY <1>3, <1>4 DEF Frames, Fits

\* Only bound handlers are kept.
LEMMA KeptIsBound ==
  ASSUME NEW H, NEW s \in Good(H), NEW m \in Nodes, NEW h, Keeps(s, m, h)
  PROVE  h \in H
<1>1. s \in StoreSet(H) /\ Owns(s)
  BY DEF Good
<1>2. Entry(s, m) \in EntrySet(H)
  BY <1>1, EntryTyped
<1> DEFINE e == Entry(s, m)
<1>3. e.events \in [DOMAIN e.events -> Seq(H) \ {<<>>}]
  BY <1>2, EntryShape
<1>4. PICK t \in DOMAIN e.events : \E i \in DOMAIN e.events[t] : e.events[t][i] = h
  BY DEF Keeps
<1>5. e.events[t] \in Seq(H)
  BY <1>3
<1> QED BY <1>4, <1>5

----------
(* The invariant.                                                           *)

\* The inductive invariant: the store is good, the stack is one of frames that stand where they
\* may, and no default was prevented and done.
SafetyInv ==
  /\ binds \in Nat /\ begun \in Nat
  /\ store \in Good(Bound(binds))
  /\ frames \in Seq(Frames(Bound(binds)))
  /\ ran \in Seq(CallSet)
  /\ StackOk(frames, begun, vetoed, acted)

\* It holds in the beginning.
LEMMA SafetyInit == Init => SafetyInv
<1> SUFFICES ASSUME Init PROVE SafetyInv
  OBVIOUS
<1>1. binds = 0 /\ begun = 0 /\ store = EmptyStore /\ frames = <<>> /\ ran = <<>> /\ vetoed = {} /\ acted = {}
  BY DEF Init
<1>2. EmptyStore \in Good(Bound(0))
  <2>1. {} \subseteq Bound(0)
    OBVIOUS
  <2> QED BY <2>1, EmptyStoreGood, GoodMonotone
<1>3. StackOk(<<>>, 0, {}, {})
  BY EmptyOk
<1> QED BY <1>1, <1>2, <1>3 DEF SafetyInv

\* The frame on top.
LEMMA TopIs ==
  ASSUME SafetyInv, frames # <<>>
  PROVE  /\ Len(frames) \in Nat \ {0} /\ Top = frames[Len(frames)] /\ Top \in Frames(Bound(binds))
         /\ FrameOk(frames, Len(frames))
<1>1. Len(frames) \in Nat \ {0} /\ Top = frames[Len(frames)] /\ Top \in Frames(Bound(binds))
  BY DEF SafetyInv, Top
<1>2. FrameOk(frames, Len(frames))
  BY <1>1 DEF SafetyInv, StackOk, Stacked
<1> QED BY <1>1, <1>2

\* The onclick attribute's call is recorded.
LEMMA OnclickTyped ==
  ASSUME ran \in Seq(CallSet), NEW root \in Nat, Onclick(root)
  PROVE  ran' \in Seq(CallSet)
<1>1. 1 \in 1 .. Document
  BY DocumentAssumption
<1>2. [root |-> root, hid |-> 0, node |-> 1, elem |-> 1, one |-> FALSE, ends |-> "no"] \in CallSet
  BY <1>1 DEF CallSet
<1> HIDE DEF CallSet
<1> QED BY <1>2 DEF Onclick

----------
(* Walks.                                                                   *)

\* d is the dispatch of the walk f at the node n.
IsDispatch(f, at, n, type, d) == d = Dispatched(f, at, n, type)

\* A walk's dispatch is a frame, and knows the walk it is for.
LEMMA IsDispatched ==
  ASSUME NEW H, store \in Good(H), NEW f \in Frames(H), IsWalkOf(f), NEW at \in Nat,
         NEW n \in 1 .. Document, f.ev.target <= n, NEW type, NEW d, IsDispatch(f, at, n, type, d)
  PROVE  /\ d \in Frames(H) /\ d.frame = "dispatch"
         /\ f.frame = "native" => d.owner = at + 1 /\ d.ev.original = at /\ d.ev.root = f.ev.root
         /\ f.frame # "native" => d.owner = at
<1>1. d = Dispatched(f, at, n, type)
  BY DEF IsDispatch
<1>2. /\ d \in Frames(H) /\ d.frame = "dispatch"
      /\ f.frame = "native" => d.ev = Fix(f.ev, at) /\ d.owner = at + 1
      /\ f.frame # "native" => d.owner = at
  BY <1>1, DispatchedIs
<1>3. Fix(f.ev, at).original = at /\ Fix(f.ev, at).root = f.ev.root
  BY DEF Fix, Frames, FrameSet, EventSet
<1> QED BY <1>2, <1>3

\* A walk of the browser that begins.
IsNative(type, target, root, method, f) == f = Native(type, target, root, method)
NativeWalk(H, type, target, root, method, f) ==
  /\ f \in Frames(H) /\ f.frame = "native" /\ f.method = method
  /\ f.ev.type = type /\ f.ev.target = target /\ f.ev.root = root /\ f.ev.original = 0
  /\ f.ev.stopped = FALSE /\ f.ev.prevented = FALSE

\* It is a frame without flags.
LEMMA NativeWalkIs ==
  ASSUME NEW H, NEW type \in EventTypes, NEW target \in 1 .. Document, NEW root \in Nat, NEW method \in BOOLEAN,
         NEW f, IsNative(type, target, root, method, f)
  PROVE  NativeWalk(H, type, target, root, method, f)
<1>1. f = Native(type, target, root, method)
  BY DEF IsNative
<1>2. f \in Frames(H) /\ f.frame = "native" /\ f.ev = Event(type, {}, target, root) /\ f.method = method
  BY <1>1, NativeIs
<1> QED BY <1>2 DEF Event, NativeWalk

\* A walk of jQuery that begins.
IsTriggered(t, root, f) == f = Triggered(t, root)
TriggerWalk(H, t, root, f) ==
  /\ f \in Frames(H) /\ f.frame = "trigger" /\ f.method = FALSE
  /\ f.ev.type = t.type /\ f.ev.target = t.node /\ f.ev.root = root /\ f.ev.original = 0
  /\ f.ev.stopped = FALSE /\ f.ev.prevented = FALSE

\* It is a frame without flags.
LEMMA TriggerWalkIs ==
  ASSUME NEW H, NEW t \in Triggers, NEW root \in Nat, NEW f, IsTriggered(t, root, f)
  PROVE  TriggerWalk(H, t, root, f)
<1>1. f = Triggered(t, root)
  BY DEF IsTriggered
<1>2. f \in Frames(H) /\ f.frame = "trigger" /\ f.method = FALSE /\ f.ev = Event(t.type, t.ns, t.node, root)
  BY <1>1, TriggeredIs
<1> QED BY <1>2 DEF Event, TriggerWalk

\* g is on top of the walk e, of which f is what is left: a dispatch at n.
Stopping(e, f, at, n, type, g) ==
  /\ Active(e) /\ SamePlace(e, f) /\ f.ev = e.ev /\ e.ev.target <= n
  /\ IsDispatch(e, at, n, type, g)
\* The number of an event that begins.
Follows(b, c) == b \in Nat /\ c = b + 1
\* g is on top of the walk e: the focusin event simulated for it.
Simulating(e, f, at, b, c, g) ==
  /\ Follows(b, c)
  /\ Active(e) /\ SamePlace(e, f) /\ f.ev = e.ev
  /\ IsSimulated(f, at, c, g)

\* A walk on top, which stops at a node and dispatches there.
LEMMA MoveDispatch ==
  ASSUME NEW H, store \in Good(H), NEW s \in Seq(Frames(H)), s # <<>>,
         NEW f \in Frames(H), NEW n \in 1 .. Document, NEW type, NEW g, Stopping(s[Len(s)], f, Len(s), n, type, g),
         NEW b \in Nat, NEW v, NEW a, StackOk(s, b, v, a),
         NEW r, r = SubSeq(s, 1, Len(s) - 1) \o <<f, g>>
  PROVE  r \in Seq(Frames(H)) /\ StackOk(r, b, v, a)
<1> DEFINE at == Len(s)
           e == s[at]
<1>1. /\ at \in Nat /\ e \in Frames(H) /\ IsWalkOf(e) /\ IsDispatch(e, at, n, type, g)
      /\ Active(e) /\ SamePlace(e, f) /\ f.ev = e.ev /\ e.ev.target <= n
  BY DEF Active, IsWalkOf, Stopping
<1> HIDE DEF at, e
<1>2. /\ g \in Frames(H) /\ g.frame = "dispatch"
      /\ e.frame = "native" => g.owner = at + 1 /\ g.ev.original = at /\ g.ev.root = e.ev.root
      /\ e.frame # "native" => g.owner = at
  BY <1>1, IsDispatched
<1>4. Above(f, g, at) /\ Opens(e, f, g, b, b)
  BY <1>1, <1>2 DEF Above, Opens, SamePlace, Active
<1>5. Stays(e, f)
  BY <1>1 DEF Stays, SamePlace, Active
<1> QED BY <1>2, <1>4, <1>5, MoveGrow DEF at, e

\* A walk of focus on top, of which one of focusin is made.
LEMMA MoveSimulate ==
  ASSUME NEW H, NEW s \in Seq(Frames(H)), s # <<>>,
         NEW b \in Nat, NEW c \in Nat, NEW v, NEW a, StackOk(s, b, v, a),
         NEW f \in Frames(H), NEW g, Simulating(s[Len(s)], f, Len(s), b, c, g),
         NEW r, r = SubSeq(s, 1, Len(s) - 1) \o <<f, g>>
  PROVE  r \in Seq(Frames(H)) /\ StackOk(r, c, v, a)
<1> DEFINE at == Len(s)
           e == s[at]
<1>1. at \in Nat /\ Follows(b, c) /\ IsWalkOf(f) /\ IsSimulated(f, at, c, g) /\ Active(e) /\ SamePlace(e, f) /\ f.ev = e.ev
  BY DEF Active, IsWalkOf, SamePlace, Simulating
<1> HIDE DEF at, e
<1>6. FocusinWalk(H, f, c, g)
  BY <1>1, SimulatedIs
<1>2. g \in Frames(H) /\ g.frame = "trigger" /\ g.ev.root = c /\ g.ev.original = 0
  BY <1>6 DEF FocusinWalk
<1>3. Above(f, g, at) /\ Opens(e, f, g, b, c)
  BY <1>1, <1>2 DEF Above, Opens, Follows
<1>4. Stays(e, f)
  BY <1>1 DEF Stays, SamePlace, Active
<1>5. Above(f, g, Len(s)) /\ Opens(s[Len(s)], f, g, b, c) /\ Stays(s[Len(s)], f) /\ g \in Frames(H) /\ b \in Nat /\ c \in Nat
  BY <1>2, <1>3, <1>4 DEF at, e
<1> QED BY <1>5, MoveGrow

\* A stop of the browser's walk keeps SafetyInv.
LEMMA NativeStopSafe == SafetyInv /\ NativeStop => SafetyInv'
<1> SUFFICES ASSUME SafetyInv, NativeStop PROVE SafetyInv'
  OBVIOUS
<1> DEFINE H == Bound(binds)
           stop == Head(Top.path)
           walk == [Top EXCEPT !.path = Tail(@)]
           over == [Top EXCEPT !.path = <<>>]
           n == Len(frames)
<1>1. frames # <<>> /\ Top.frame = "native" /\ Top.path # <<>>
  BY DEF NativeStop, Running
<1>2. n \in Nat \ {0} /\ Top = frames[n] /\ Top \in Frames(H) /\ IsWalkOf(Top) /\ Active(Top)
  BY <1>1, TopIs DEF IsWalkOf, Active
<1>3. /\ walk \in Frames(H) /\ SamePlace(Top, walk) /\ walk.ev = Top.ev
      /\ over \in Frames(H) /\ SamePlace(Top, over) /\ over.ev = Top.ev
      /\ stop \in StopSet /\ Top.ev.target <= stop.node
  BY <1>1, <1>2, NextStop
<1>4. /\ UNCHANGED <<store, triggered, binds, vetoed, acted>>
      /\ \/ Become(over) /\ UNCHANGED <<begun, ran>>
         \/ Simulate(walk) /\ UNCHANGED ran
         \/ Become(walk) /\ Onclick(Top.ev.root) /\ UNCHANGED begun
         \/ frames' = Below \o <<walk, Dispatch(stop.node, stop.type)>> /\ UNCHANGED <<begun, ran>>
         \/ Become(walk) /\ UNCHANGED <<begun, ran>>
  <2>1. UNCHANGED <<store, triggered, binds>>
    BY DEF NativeStop
  <2>2. \/ Become(over) /\ UNCHANGED <<begun, ran, vetoed, acted>>
        \/ Simulate(walk) /\ UNCHANGED <<ran, vetoed, acted>>
        \/ Become(walk) /\ Onclick(Top.ev.root) /\ UNCHANGED begun
        \/ frames' = Below \o <<walk, Dispatch(stop.node, stop.type)>> /\ UNCHANGED <<begun, ran, vetoed, acted>>
        \/ Become(walk) /\ UNCHANGED <<begun, ran, vetoed, acted>>
    BY Zenon DEF NativeStop, history
  <2>3. Onclick(Top.ev.root) => UNCHANGED <<vetoed, acted>>
    BY DEF Onclick
  <2> QED BY <2>1, <2>2, <2>3
<1> HIDE DEF walk, over, stop
<1>5. /\ begun \in Nat /\ frames \in Seq(Frames(H)) /\ StackOk(frames, begun, vetoed, acted)
      /\ store \in Good(H) /\ binds \in Nat /\ ran \in Seq(CallSet) /\ Below = SubSeq(frames, 1, n - 1)
  BY DEF SafetyInv, Below
<1>6. Stays(frames[n], walk) /\ Stays(frames[n], over)
  BY <1>2, <1>3 DEF Stays, SamePlace, Active
<1>7. Top.ev.root \in Nat
  BY <1>2 DEF Frames, FrameSet, EventSet
<1> SUFFICES /\ begun' \in Nat /\ frames' \in Seq(Frames(H)) /\ StackOk(frames', begun', vetoed, acted)
             /\ ran' \in Seq(CallSet)
  BY <1>4, <1>5 DEF SafetyInv
<1> HIDE DEF H
<1>8. CASE Become(over) /\ UNCHANGED <<begun, ran>>
  <2>1. frames' = Append(SubSeq(frames, 1, n - 1), over)
    BY <1>8, <1>5 DEF Become
  <2> QED BY <2>1, <1>1, <1>3, <1>5, <1>6, <1>8, MoveBecome
<1>9. CASE Become(walk) /\ begun' = begun /\ ran' \in Seq(CallSet)
  <2>1. frames' = Append(SubSeq(frames, 1, n - 1), walk)
    BY <1>9, <1>5 DEF Become
  <2> QED BY <2>1, <1>1, <1>3, <1>5, <1>6, <1>9, MoveBecome
<1>10. CASE Simulate(walk) /\ UNCHANGED ran
  <2> DEFINE g == Simulated(walk, n, begun + 1)
             c == begun + 1
  <2>1. \/ frames' = SubSeq(frames, 1, n - 1) \o <<walk, g>> /\ begun' = c
        \/ Become(walk) /\ begun' = begun
    BY <1>10, <1>5 DEF Simulate, Simulated
  <2>2. Simulating(frames[n], walk, n, begun, c, g) /\ c \in Nat
    BY <1>2, <1>3, <1>5 DEF IsSimulated, Simulating, Follows
  <2> HIDE DEF g, c
  <2>3. CASE frames' = SubSeq(frames, 1, n - 1) \o <<walk, g>> /\ begun' = c
    <3>1. frames' \in Seq(Frames(H)) /\ StackOk(frames', c, vetoed, acted)
      BY <2>2, <2>3, <1>1, <1>2, <1>3, <1>5, MoveSimulate
    <3> QED BY <3>1, <2>2, <2>3, <1>5, <1>10
  <2>4. CASE Become(walk) /\ begun' = begun
    BY <2>4, <1>9, <1>10, <1>5
  <2> QED BY <2>1, <2>3, <2>4
<1>11. CASE frames' = Below \o <<walk, Dispatch(stop.node, stop.type)>> /\ UNCHANGED <<begun, ran>>
  <2> DEFINE g == Dispatch(stop.node, stop.type)
             m == stop.node
             type == stop.type
  <2>1. frames' = SubSeq(frames, 1, n - 1) \o <<walk, g>>
    BY <1>11, <1>5
  <2>2. m \in 1 .. Document /\ Stopping(frames[n], walk, n, m, type, g)
    <3>1. m \in 1 .. Document
      BY <1>3 DEF StopSet
    <3>2. IsDispatch(Top, n, m, type, g)
      BY DEF Dispatch, Dispatched, IsDispatch
    <3> QED BY <3>1, <3>2, <1>2, <1>3 DEF Stopping
  <2> HIDE DEF g, m, type
  <2>3. frames' \in Seq(Frames(H)) /\ StackOk(frames', begun, vetoed, acted)
    BY <2>1, <2>2, <1>1, <1>2, <1>3, <1>5, MoveDispatch
  <2> QED BY <2>3, <1>5, <1>11
<1>12. Onclick(Top.ev.root) => ran' \in Seq(CallSet)
  BY <1>5, <1>7, OnclickTyped
<1> QED BY <1>4, <1>5, <1>8, <1>9, <1>10, <1>11, <1>12

\* The walk is over, and the default done, unless another one begins for it.
LEMMA MoveActed ==
  ASSUME NEW H, NEW s \in Seq(Frames(H)), s # <<>>, Active(s[Len(s)]), ~s[Len(s)].ev.prevented,
         NEW b \in Nat, NEW v, NEW a, StackOk(s, b, v, a), NEW r, r = SubSeq(s, 1, Len(s) - 1)
  PROVE  r \in Seq(Frames(H)) /\ StackOk(r, b, v, a \cup {s[Len(s)].ev.root})
<1>1. r \in Seq(Frames(H)) /\ Shortened(s, Len(s) - 1, r)
  BY MovePop
<1>2. Len(s) \in Nat \ {0}
  OBVIOUS
<1>3. StackOk(r, b, v, a \cup {s[Len(s)].ev.root})
  BY <1>1, <1>2, ActedOk
<1> QED BY <1>1, <1>3

\* A walk comes above what is there of a stack.
LEMMA MoveWalk ==
  ASSUME NEW H, NEW s \in Seq(Frames(H)), NEW g \in Frames(H), IsWalkOf(g), g.ev.original = 0,
         NEW b, NEW c, Follows(b, c), g.ev.root = c, NEW v, NEW a, StackOk(s, b, v, a), NEW r, r = Append(s, g)
  PROVE  r \in Seq(Frames(H)) /\ StackOk(r, c, v, a)
<1> DEFINE S == Frames(H)
<1>0. s \in Seq(S) /\ g \in S
  OBVIOUS
<1> HIDE DEF S
<1>7. Len(s) \in Nat
  BY <1>0
<1>6. r \in Seq(S) /\ Extended(s, g, r)
  BY <1>0, ExtendedIs
<1>1. r \in Seq(S) /\ Extended(s, g, r) /\ Len(s) \in Nat
  BY <1>6, <1>7
<1>2. FrameOk(r, Len(s) + 1)
  BY <1>1 DEF Extended, FrameOk, IsWalkOf
<1>3. b \in Nat /\ c \in Nat /\ b <= c /\ c = b + 1
  BY DEF Follows
<1>4. Tops(s, g, c, v, a)
  <2>1. /\ \A i \in 1 .. Len(s) : Active(s[i]) => s[i].ev.root \in 1 .. b
        /\ v \subseteq 1 .. b /\ a \subseteq 1 .. b
    BY DEF StackOk, Roots
  <2> QED BY <1>3, <2>1 DEF Tops
<1>5. StackOk(r, c, v, a)
  BY <1>1, <1>2, <1>3, <1>4, ExtendedOk
<1> QED BY <1>1, <1>5 DEF S

\* So does the end of that walk, where the default is done.
LEMMA NativeEndsSafe == SafetyInv /\ NativeEnds => SafetyInv'
<1> SUFFICES ASSUME SafetyInv, NativeEnds PROVE SafetyInv'
  OBVIOUS
<1> DEFINE H == Bound(binds)
           n == Len(frames)
<1>1. frames # <<>> /\ Top.frame = "native"
  BY DEF NativeEnds, Running
<1>2. n \in Nat \ {0} /\ Top = frames[n] /\ Top \in Frames(H) /\ Active(Top)
  BY <1>1, TopIs DEF Active
<1>3. /\ begun \in Nat /\ frames \in Seq(Frames(H)) /\ StackOk(frames, begun, vetoed, acted)
      /\ store \in Good(H) /\ binds \in Nat /\ ran \in Seq(CallSet) /\ Below = SubSeq(frames, 1, n - 1)
  BY DEF SafetyInv, Below
<1>4. UNCHANGED <<store, binds, ran, vetoed>>
  BY DEF NativeEnds
<1>5. \/ Top.ev.prevented /\ frames' = Below /\ acted' = acted /\ begun' = begun
      \/ ~Top.ev.prevented /\ acted' = acted \cup {Top.ev.root} /\ frames' = Below /\ begun' = begun
      \/ /\ ~Top.ev.prevented /\ acted' = acted \cup {Top.ev.root}
         /\ frames' = Append(Below, Native("submit", 2, begun + 1, Top.method)) /\ begun' = begun + 1
         /\ 2 < Document
  BY Zenon DEF NativeEnds, Pop, Become
<1> SUFFICES /\ begun' \in Nat /\ frames' \in Seq(Frames(H)) /\ StackOk(frames', begun', vetoed, acted')
  BY <1>3, <1>4 DEF SafetyInv
<1> HIDE DEF H
<1>6. CASE Top.ev.prevented /\ frames' = Below /\ acted' = acted /\ begun' = begun
  BY <1>6, <1>1, <1>3, MovePop
<1>7. ~Top.ev.prevented => /\ Below \in Seq(Frames(H))
                           /\ StackOk(Below, begun, vetoed, acted \cup {Top.ev.root})
  BY <1>1, <1>2, <1>3, MoveActed
<1>8. CASE ~Top.ev.prevented /\ acted' = acted \cup {Top.ev.root} /\ frames' = Below /\ begun' = begun
  BY <1>7, <1>8, <1>3
<1>9. CASE /\ ~Top.ev.prevented /\ acted' = acted \cup {Top.ev.root}
           /\ frames' = Append(Below, Native("submit", 2, begun + 1, Top.method)) /\ begun' = begun + 1
           /\ 2 < Document
  <2> DEFINE c == begun + 1
             m == Top.method
             g == Native("submit", 2, c, m)
  <2>1. c \in Nat /\ Follows(begun, c) /\ m \in BOOLEAN /\ 2 \in 1 .. Document /\ "submit" \in EventTypes
    <3>1. m \in BOOLEAN /\ "submit" \in EventTypes
      BY <1>2 DEF Frames, FrameSet, EventTypes
    <3>2. 2 < Document
      BY <1>9
    <3>3. 2 \in 1 .. Document /\ c \in Nat /\ Follows(begun, c)
      BY <3>2, <1>3, DocumentAssumption DEF Follows
    <3> QED BY <3>1, <3>3
  <2>2. frames' = Append(Below, g) /\ begun' = c /\ IsNative("submit", 2, c, m, g)
    BY <1>9 DEF IsNative
  <2> HIDE DEF c, m, g
  <2>3. NativeWalk(H, "submit", 2, c, m, g)
    BY <2>1, <2>2, NativeWalkIs
  <2>4. g \in Frames(H) /\ IsWalkOf(g) /\ g.ev.original = 0 /\ g.ev.root = c
    BY <2>3 DEF NativeWalk, IsWalkOf
  <2> DEFINE A == acted \cup {Top.ev.root}
             s == Below
  <2>5. s \in Seq(Frames(H)) /\ StackOk(s, begun, vetoed, A) /\ frames' = Append(s, g)
    BY <1>7, <1>9, <2>2
  <2> HIDE DEF A, s
  <2>6. frames' \in Seq(Frames(H)) /\ StackOk(frames', c, vetoed, A)
    BY <2>1, <2>4, <2>5, MoveWalk
  <2> QED BY <2>1, <2>2, <2>6, <1>9 DEF A
<1> QED BY <1>5, <1>6, <1>8, <1>9

\* So does a stop of jQuery's walk.
LEMMA TriggerStopSafe == SafetyInv /\ TriggerStop => SafetyInv'
<1> SUFFICES ASSUME SafetyInv, TriggerStop PROVE SafetyInv'
  OBVIOUS
<1> DEFINE H == Bound(binds)
           stop == Head(Top.path)
           walk == [Top EXCEPT !.path = Tail(@)]
           over == [Top EXCEPT !.path = <<>>]
           n == Len(frames)
<1>1. frames # <<>> /\ Top.frame = "trigger" /\ ~Top.method /\ Top.path # <<>>
  BY DEF TriggerStop, Running
<1>2. n \in Nat \ {0} /\ Top = frames[n] /\ Top \in Frames(H) /\ IsWalkOf(Top) /\ Active(Top)
  BY <1>1, TopIs DEF IsWalkOf, Active
<1>3. /\ walk \in Frames(H) /\ SamePlace(Top, walk) /\ walk.ev = Top.ev
      /\ over \in Frames(H) /\ SamePlace(Top, over) /\ over.ev = Top.ev
      /\ stop \in StopSet /\ Top.ev.target <= stop.node
  BY <1>1, <1>2, NextStop
<1>4. /\ UNCHANGED <<store, triggered, binds, begun, vetoed, acted>>
      /\ \/ Become(over) /\ UNCHANGED ran
         \/ Become(walk) /\ Onclick(Top.ev.root)
         \/ frames' = Below \o <<walk, Dispatch(stop.node, stop.type)>> /\ UNCHANGED ran
         \/ Become(walk) /\ UNCHANGED ran
  <2>1. UNCHANGED <<store, triggered, binds, begun>>
    BY DEF TriggerStop, bounds
  <2>2. \/ Become(over) /\ UNCHANGED <<ran, vetoed, acted>>
        \/ Become(walk) /\ Onclick(Top.ev.root)
        \/ frames' = Below \o <<walk, Dispatch(stop.node, stop.type)>> /\ UNCHANGED <<ran, vetoed, acted>>
        \/ Become(walk) /\ UNCHANGED <<ran, vetoed, acted>>
    BY Zenon DEF TriggerStop, history
  <2>3. Onclick(Top.ev.root) => UNCHANGED <<vetoed, acted>>
    BY DEF Onclick
  <2> QED BY <2>1, <2>2, <2>3
<1> HIDE DEF walk, over, stop
<1>5. /\ begun \in Nat /\ frames \in Seq(Frames(H)) /\ StackOk(frames, begun, vetoed, acted)
      /\ store \in Good(H) /\ binds \in Nat /\ ran \in Seq(CallSet) /\ Below = SubSeq(frames, 1, n - 1)
  BY DEF SafetyInv, Below
<1>6. Stays(frames[n], walk) /\ Stays(frames[n], over)
  BY <1>2, <1>3 DEF Stays, SamePlace, Active
<1>7. Top.ev.root \in Nat
  BY <1>2 DEF Frames, FrameSet, EventSet
<1> SUFFICES /\ frames' \in Seq(Frames(H)) /\ StackOk(frames', begun, vetoed, acted)
             /\ ran' \in Seq(CallSet)
  BY <1>4, <1>5 DEF SafetyInv
<1> HIDE DEF H
<1>8. CASE Become(over) /\ UNCHANGED ran
  <2>1. frames' = Append(SubSeq(frames, 1, n - 1), over)
    BY <1>8, <1>5 DEF Become
  <2> QED BY <2>1, <1>1, <1>3, <1>5, <1>6, <1>8, MoveBecome
<1>9. CASE Become(walk) /\ ran' \in Seq(CallSet)
  <2>1. frames' = Append(SubSeq(frames, 1, n - 1), walk)
    BY <1>9, <1>5 DEF Become
  <2> QED BY <2>1, <1>1, <1>3, <1>5, <1>6, <1>9, MoveBecome
<1>10. CASE frames' = Below \o <<walk, Dispatch(stop.node, stop.type)>> /\ UNCHANGED ran
  <2> DEFINE g == Dispatch(stop.node, stop.type)
             m == stop.node
             type == stop.type
  <2>1. frames' = SubSeq(frames, 1, n - 1) \o <<walk, g>>
    BY <1>10, <1>5
  <2>2. m \in 1 .. Document /\ Stopping(frames[n], walk, n, m, type, g)
    <3>1. m \in 1 .. Document
      BY <1>3 DEF StopSet
    <3>2. IsDispatch(Top, n, m, type, g)
      BY DEF Dispatch, Dispatched, IsDispatch
    <3> QED BY <3>1, <3>2, <1>2, <1>3 DEF Stopping
  <2> HIDE DEF g, m, type
  <2>3. frames' \in Seq(Frames(H)) /\ StackOk(frames', begun, vetoed, acted)
    BY <2>1, <2>2, <1>1, <1>2, <1>3, <1>5, MoveDispatch
  <2> QED BY <2>3, <1>5, <1>10
<1>11. Onclick(Top.ev.root) => ran' \in Seq(CallSet)
  BY <1>5, <1>7, OnclickTyped
<1> QED BY <1>4, <1>5, <1>8, <1>9, <1>10, <1>11

\* What trigger of focusin prevented, the focus knows.
DonorPrevented(s, d, r) == r = [s EXCEPT ![d].ev.prevented = TRUE]

\* A simulated event that is prevented prevents the one it was simulated for.
LEMMA MoveDonor ==
  ASSUME NEW H, NEW s \in Seq(Frames(H)), NEW d,
         NEW b \in Nat, NEW v, NEW a, StackOk(s, b, v, a), NEW r, DonorPrevented(s, d, r)
  PROVE  r \in Seq(Frames(H)) /\ StackOk(r, b, v, a) /\ Marked(s, r)
<1> DEFINE n == Len(s)
           S == Frames(H)
<1>1. n \in Nat /\ s \in Seq(S)
  OBVIOUS
<1>2. ASSUME NEW i \in 1 .. n PROVE SamePlace(s[i], s[i]) /\ Raised(s[i].ev, s[i].ev)
  <2>1. s[i].ev \in EventSet
    <3>1. s[i] \in Frames(H)
      OBVIOUS
    <3> QED BY <3>1 DEF Frames, FrameSet
  <2> QED BY <2>1, FlagsRaised DEF SamePlace
<1>3. CASE d \notin 1 .. n
  <2>1. r = s
    BY <1>1, <1>3 DEF DonorPrevented
  <2>2. Marked(s, s)
    BY <1>2 DEF Marked
  <2> QED BY <2>1, <2>2
<1>4. CASE d \in 1 .. n
  <2> DEFINE e == s[d]
             g == [e EXCEPT !.ev = Prevented(e.ev)]
  <2>1. e \in S /\ e.ev \in EventSet
    <3>1. e \in S
      BY <1>4, <1>1
    <3> QED BY <3>1 DEF Frames, FrameSet
  <2>2. r = [s EXCEPT ![d] = g]
    BY DEF Prevented, DonorPrevented
  <2>3. Raised(e.ev, Prevented(e.ev))
    BY <2>1, FlagsRaised
  <2>4. /\ g \in Frames(H) /\ SamePlace(e, g) /\ g.ev = Prevented(e.ev) /\ g.path = e.path /\ g.queue = e.queue
        /\ g.elem = e.elem
    <3> DEFINE x == Prevented(e.ev)
    <3>1. Raised(e.ev, x) /\ EventIn(e, x, g) /\ e \in Frames(H)
      BY <2>1, <2>3 DEF EventIn
    <3> HIDE DEF x, e, g
    <3>2. EventOnly(H, e, x, g)
      BY <3>1, EventChanged
    <3> QED BY <3>2 DEF x, EventOnly
  <2>5. g \in S
    BY <2>4
  <2> HIDE DEF g, S, e
  <2>6. r \in Seq(S) /\ Len(r) = n /\ r[d] = g /\ \A i \in 1 .. n : i # d => r[i] = s[i]
    BY <2>2, <2>5, <1>1, <1>4
  <2>7. Marked(s, r)
    BY <2>3, <2>4, <2>6, <1>2 DEF Marked, e
  <2>8. StackOk(r, b, v, a)
    BY <2>7, <1>1, MarkedOk
  <2> QED BY <2>6, <2>7, <2>8 DEF S
<1> QED BY <1>3, <1>4

\* trigger calls click, which tells the listeners of the browser.
LEMMA MoveClick ==
  ASSUME NEW H, NEW s \in Seq(Frames(H)), s # <<>>, s[Len(s)].frame = "trigger", Active(s[Len(s)]), ~s[Len(s)].ev.prevented,
         NEW f, f = [s[Len(s)] EXCEPT !.method = TRUE],
         NEW g \in Frames(H), g.frame = "native", g.ev.original = 0, g.ev.root = s[Len(s)].ev.root,
         NEW b \in Nat, NEW v, NEW a, StackOk(s, b, v, a), NEW r, r = SubSeq(s, 1, Len(s) - 1) \o <<f, g>>
  PROVE  r \in Seq(Frames(H)) /\ StackOk(r, b, v, a)
<1> DEFINE at == Len(s)
           e == s[at]
<1>1. at \in Nat /\ e \in Frames(H) /\ e.frame = "trigger" /\ f = [e EXCEPT !.method = TRUE]
  OBVIOUS
<1> HIDE DEF at, e
<1>2. f \in Frames(H) /\ f.frame = "trigger" /\ f.method = TRUE /\ f.ev = e.ev /\ f.owner = e.owner /\ f.call = e.call
  <2>1. e \in FrameSet(H)
    BY <1>1 DEF Frames
  <2>2. /\ f \in FrameSet(H) /\ f.frame = "trigger" /\ f.method = TRUE
        /\ f.ev = e.ev /\ f.path = e.path /\ f.owner = e.owner /\ f.call = e.call
    BY <1>1, <2>1 DEF FrameSet
  <2> QED BY <1>1, <2>2 DEF Frames, Fits, IsWalkOf
<1>3. ~Active(f)
  BY <1>2 DEF Active
<1>4. Above(f, g, at) /\ Opens(e, f, g, b, b) /\ Stays(e, f)
  BY <1>1, <1>2, <1>3 DEF Above, Opens, Stays, at, e
<1>5. Above(f, g, Len(s)) /\ Opens(s[Len(s)], f, g, b, b) /\ Stays(s[Len(s)], f) /\ f \in Frames(H)
  BY <1>2, <1>4 DEF at, e
<1> QED BY <1>5, MoveGrow

\* The end of jQuery's walk, which calls the browser's method, keeps SafetyInv.
LEMMA TriggerDefaultSafe == SafetyInv /\ TriggerDefault => SafetyInv'
<1> SUFFICES ASSUME SafetyInv, TriggerDefault PROVE SafetyInv'
  OBVIOUS
<1> DEFINE H == Bound(binds)
           n == Len(frames)
           f == [Top EXCEPT !.method = TRUE]
           target == Top.ev.target
           root == Top.ev.root
           g == Native("click", target, root, TRUE)
<1>1. frames # <<>> /\ Top.frame = "trigger" /\ ~Top.method
  BY DEF TriggerDefault, Running
<1>2. n \in Nat \ {0} /\ Top = frames[n] /\ Top \in Frames(H) /\ Active(Top)
  BY <1>1, TopIs DEF Active
<1>3. /\ begun \in Nat /\ frames \in Seq(Frames(H)) /\ StackOk(frames, begun, vetoed, acted)
      /\ store \in Good(H) /\ binds \in Nat /\ ran \in Seq(CallSet) /\ Below = SubSeq(frames, 1, n - 1)
  BY DEF SafetyInv, Below
<1>4. UNCHANGED <<store, binds, begun, ran, vetoed>>
  BY DEF TriggerDefault, bounds
<1>5. \/ /\ acted' = acted
         /\ frames' = [Below EXCEPT ![Top.ev.donor].ev.prevented = TRUE] \/ frames' = Below
      \/ ~Top.ev.prevented /\ acted' = acted /\ frames' = Below \o <<f, g>>
      \/ ~Top.ev.prevented /\ acted' = acted \cup {root} /\ frames' = Below
  BY Zenon DEF TriggerDefault, CallsMethod, Pop
<1> SUFFICES /\ frames' \in Seq(Frames(H)) /\ StackOk(frames', begun, vetoed, acted')
  BY <1>3, <1>4 DEF SafetyInv
<1>6. target \in 1 .. Document /\ root \in Nat
  BY <1>1, <1>2 DEF Frames, FrameSet, EventSet, Fits, IsWalkOf
<1>7. IsNative("click", target, root, TRUE, g) /\ "click" \in EventTypes /\ TRUE \in BOOLEAN
  BY DEF IsNative, EventTypes
<1>8. f = [frames[n] EXCEPT !.method = TRUE]
  BY <1>2
<1> HIDE DEF H, f, g, target
<1>9. Below \in Seq(Frames(H)) /\ StackOk(Below, begun, vetoed, acted)
  BY <1>1, <1>3, MovePop
<1>10. CASE acted' = acted /\ frames' = Below
  BY <1>9, <1>10
<1>11. CASE acted' = acted /\ frames' = [Below EXCEPT ![Top.ev.donor].ev.prevented = TRUE]
  <2> DEFINE s == Below
             d == Top.ev.donor
  <2>1. s \in Seq(Frames(H)) /\ StackOk(s, begun, vetoed, acted) /\ DonorPrevented(s, d, frames')
    BY <1>9, <1>11 DEF DonorPrevented
  <2> HIDE DEF s, d
  <2>2. frames' \in Seq(Frames(H)) /\ StackOk(frames', begun, vetoed, acted)
    BY <2>1, <1>3, MoveDonor
  <2> QED BY <2>2, <1>11
<1>12. CASE ~Top.ev.prevented /\ acted' = acted /\ frames' = Below \o <<f, g>>
  <2>1. NativeWalk(H, "click", target, root, TRUE, g)
    BY <1>6, <1>7, NativeWalkIs
  <2>2. g \in Frames(H) /\ g.frame = "native" /\ g.ev.original = 0 /\ g.ev.root = frames[n].ev.root
    BY <2>1, <1>2 DEF NativeWalk
  <2>3. /\ frames' = SubSeq(frames, 1, n - 1) \o <<f, g>>
        /\ frames[n].frame = "trigger" /\ Active(frames[n]) /\ ~frames[n].ev.prevented
    BY <1>12, <1>1, <1>2, <1>3
  <2>4. frames' \in Seq(Frames(H)) /\ StackOk(frames', begun, vetoed, acted)
    BY <2>2, <2>3, <1>1, <1>3, <1>8, MoveClick
  <2> QED BY <2>4, <1>12
<1>13. CASE ~Top.ev.prevented /\ acted' = acted \cup {root} /\ frames' = Below
  <2>1. Active(frames[n]) /\ ~frames[n].ev.prevented /\ root = frames[n].ev.root
    BY <1>13, <1>2
  <2>2. Below \in Seq(Frames(H)) /\ StackOk(Below, begun, vetoed, acted \cup {frames[n].ev.root})
    BY <2>1, <1>1, <1>3, MoveActed
  <2> QED BY <2>1, <2>2, <1>13
<1> QED BY <1>5, <1>10, <1>11, <1>12, <1>13

\* A frame that goes away keeps SafetyInv.
LEMMA PopSafe ==
  ASSUME SafetyInv, frames # <<>>, Pop, UNCHANGED <<store, binds, begun, ran, vetoed, acted>>
  PROVE  SafetyInv'
<1> DEFINE H == Bound(binds)
<1>1. /\ begun \in Nat /\ frames \in Seq(Frames(H)) /\ StackOk(frames, begun, vetoed, acted)
      /\ store \in Good(H) /\ binds \in Nat /\ ran \in Seq(CallSet)
      /\ frames' = SubSeq(frames, 1, Len(frames) - 1)
  BY DEF SafetyInv, Below, Pop
<1>2. frames' \in Seq(Frames(H)) /\ StackOk(frames', begun, vetoed, acted)
  <2> HIDE DEF H
  <2> QED BY <1>1, MovePop
<1> QED BY <1>1, <1>2 DEF SafetyInv

\* So does the return of the browser's method.
LEMMA TriggerReturnsSafe == SafetyInv /\ TriggerReturns => SafetyInv'
BY PopSafe DEF TriggerReturns, Running, bounds, history

\* So does that of user code.
LEMMA ReturnSafe == SafetyInv /\ Return => SafetyInv'
BY PopSafe DEF Return, Running, bounds, history

\* The event that the dispatch on top is about.
LEMMA DispatchOwner ==
  ASSUME SafetyInv, frames # <<>>, Top.frame = "dispatch"
  PROVE  /\ Top.owner \in 1 .. Len(frames) /\ frames[Top.owner] \in Frames(Bound(binds))
         /\ Len(frames) - 1 \in 1 .. Len(frames) /\ Active(frames[Len(frames) - 1])
         /\ frames[Top.owner].ev.root = frames[Len(frames) - 1].ev.root
         /\ frames[Top.owner].ev.root \in Nat
<1> DEFINE n == Len(frames)
<1>1. n \in Nat \ {0} /\ Top = frames[n] /\ FrameOk(frames, n)
  BY TopIs
<1>2. /\ n > 1 /\ Active(frames[n - 1])
      /\ frames[n - 1].frame = "native" => Top.owner = n /\ Top.ev.root = frames[n - 1].ev.root
      /\ frames[n - 1].frame = "trigger" => Top.owner = n - 1
  BY <1>1 DEF FrameOk
<1>3. n - 1 \in 1 .. n /\ n \in 1 .. n
  BY <1>1, <1>2
<1>4. frames[n - 1].frame \in {"native", "trigger"}
  BY <1>2 DEF Active
<1>5. Top.owner \in 1 .. n /\ frames[Top.owner].ev.root = frames[n - 1].ev.root
  BY <1>1, <1>2, <1>3, <1>4
<1>6. frames[Top.owner] \in Frames(Bound(binds))
  BY <1>5 DEF SafetyInv
<1>7. frames[Top.owner].ev.root \in Nat
  BY <1>6 DEF Frames, FrameSet, EventSet
<1> QED BY <1>2, <1>3, <1>5, <1>6, <1>7

\* The wrapper of one takes handlers away, if anything.
LEMMA WithoutOnceGood ==
  ASSUME NEW H, store \in Good(H), NEW n \in 1 .. Document, NEW h
  PROVE  WithoutOnce(n, h) \in Good(H)
<1>1. n \in Nodes
  BY PageNodes
<1> DEFINE off == [type |-> h.type, selector |-> h.selector, ns |-> h.ns, fn |-> h.fn]
<1>2. RemoveHandlers(store, n, off) \in Good(H)
  <2> HIDE DEF off
  <2> QED BY <1>1, RemoveHandlersGood
<1> QED BY <1>2 DEF WithoutOnce

\* A dispatch goes on, and calls a handler.
LEMMA MoveCall ==
  ASSUME NEW H, NEW s \in Seq(Frames(H)), s # <<>>, s[Len(s)].frame = "dispatch",
         NEW f \in Frames(H), SamePlace(s[Len(s)], f), f.ev = s[Len(s)].ev,
         NEW g \in Frames(H), g.frame = "user",
         NEW b \in Nat, NEW v, NEW a, StackOk(s, b, v, a), NEW r, r = SubSeq(s, 1, Len(s) - 1) \o <<f, g>>
  PROVE  r \in Seq(Frames(H)) /\ StackOk(r, b, v, a)
<1> DEFINE at == Len(s)
           e == s[at]
<1>1. e.frame = "dispatch" /\ SamePlace(e, f) /\ f.ev = e.ev
  OBVIOUS
<1> HIDE DEF at, e
<1>2. Above(f, g, at) /\ Opens(e, f, g, b, b) /\ Stays(e, f)
  BY <1>1 DEF Above, Opens, Stays, SamePlace, Active
<1>3. Above(f, g, Len(s)) /\ Opens(s[Len(s)], f, g, b, b) /\ Stays(s[Len(s)], f)
  BY <1>2 DEF at, e
<1> QED BY <1>3, MoveGrow

\* So does a dispatch, which calls a handler, passes one over or ends.
LEMMA DispatchesSafe == SafetyInv /\ Dispatches => SafetyInv'
<1> SUFFICES ASSUME SafetyInv, Dispatches PROVE SafetyInv'
  OBVIOUS
<1> DEFINE H == Bound(binds)
           n == Len(frames)
           ev == frames[Top.owner].ev
           q == Head(Top.queue)
           rest == [Top EXCEPT !.queue = Tail(@), !.elem = q.elem]
           user == [Frame("user") EXCEPT !.fn = q.h.fn, !.call = Len(ran) + 1]
           call == [root |-> ev.root, hid |-> q.h.hid, node |-> Top.node, elem |-> q.elem, one |-> q.h.one, ends |-> "no"]
<1>1. frames # <<>> /\ Top.frame = "dispatch"
  BY DEF Dispatches, Running
<1>2. n \in Nat \ {0} /\ Top = frames[n] /\ Top \in Frames(H)
  BY <1>1, TopIs
<1>3. /\ begun \in Nat /\ frames \in Seq(Frames(H)) /\ StackOk(frames, begun, vetoed, acted)
      /\ store \in Good(H) /\ binds \in Nat /\ ran \in Seq(CallSet) /\ Below = SubSeq(frames, 1, n - 1)
  BY DEF SafetyInv, Below
<1>4. UNCHANGED <<binds, begun, vetoed, acted>>
  BY DEF Dispatches, bounds
<1>5. \/ Pop /\ UNCHANGED <<store, ran>>
      \/ Top.queue # <<>> /\ Become(rest) /\ UNCHANGED <<store, ran>>
      \/ /\ Top.queue # <<>> /\ frames' = Below \o <<rest, user>>
         /\ store' = WithoutOnce(Top.node, q.h) /\ ran' = Append(ran, call)
  <2>1. Top.queue = <<>> => DispatchOver(Top, ev)
    BY Zenon DEF DispatchOver
  <2>2. \/ DispatchOver(Top, ev) /\ Pop /\ UNCHANGED <<store, ran>>
        \/ ~DispatchOver(Top, ev) /\ Become(rest) /\ UNCHANGED <<store, ran>>
        \/ /\ ~DispatchOver(Top, ev) /\ frames' = Below \o <<rest, user>>
           /\ store' = WithoutOnce(Top.node, q.h) /\ ran' = Append(ran, call)
    BY Zenon DEF Dispatches
  <2> QED BY <2>1, <2>2
<1>6. ev.root \in Nat
  BY <1>1, DispatchOwner
<1>7. CASE Pop /\ UNCHANGED <<store, ran>>
  BY <1>1, <1>4, <1>7, PopSafe
<1>8. Top.queue # <<>> =>
        /\ rest \in Frames(H) /\ SamePlace(Top, rest) /\ rest.ev = Top.ev
        /\ q = Top.queue[1] /\ q.elem \in 1 .. Top.node /\ q.h \in H /\ Top.node \in 1 .. Document
  <2> SUFFICES ASSUME Top.queue # <<>>
               PROVE  /\ rest \in Frames(H) /\ SamePlace(Top, rest) /\ rest.ev = Top.ev
                      /\ q = Top.queue[1] /\ q.elem \in 1 .. Top.node /\ q.h \in H /\ Top.node \in 1 .. Document
    OBVIOUS
  <2>0. IsNext(Top, rest)
    BY DEF IsNext
  <2> HIDE DEF rest, H, user, call, ev
  <2>3. NextOf(H, Top, rest)
    BY <2>0, <1>1, <1>2, NextIs
  <2>1. /\ rest \in Frames(H) /\ SamePlace(Top, rest) /\ rest.ev = Top.ev
        /\ q = Top.queue[1] /\ q.elem \in 1 .. Top.node /\ q.h \in H
    BY <2>3 DEF NextOf
  <2>2. Top.node \in 1 .. Document
    BY <1>1, <1>2 DEF Frames, Fits
  <2> QED BY <2>1, <2>2
<1>9. CASE Top.queue # <<>> /\ Become(rest) /\ UNCHANGED <<store, ran>>
  <2> HIDE DEF rest, H
  <2>1. Stays(frames[n], rest) /\ rest \in Frames(H)
    BY <1>1, <1>2, <1>8, <1>9 DEF Stays, SamePlace, Active
  <2>2. frames' = Append(SubSeq(frames, 1, n - 1), rest)
    BY <1>3, <1>9 DEF Become
  <2>3. frames' \in Seq(Frames(H)) /\ StackOk(frames', begun, vetoed, acted)
    BY <2>1, <2>2, <1>1, <1>3, MoveBecome
  <2> QED BY <2>3, <1>3, <1>4, <1>9 DEF SafetyInv, H
<1>10. CASE /\ Top.queue # <<>> /\ frames' = Below \o <<rest, user>>
            /\ store' = WithoutOnce(Top.node, q.h) /\ ran' = Append(ran, call)
  <2>1. q.h.hid \in Nat /\ q.h.fn \in {0} \cup {b.fn : b \in Bindings} /\ q.h.one \in BOOLEAN
    BY <1>3, <1>8, <1>10, BoundIs
  <2>2. store' \in Good(H)
    <3> DEFINE m == Top.node
               h == q.h
    <3>1. m \in 1 .. Document /\ store' = WithoutOnce(m, h)
      BY <1>8, <1>10
    <3> HIDE DEF m, h, H
    <3> QED BY <3>1, <1>3, WithoutOnceGood
  <2>3. ran' \in Seq(CallSet)
    <3>1. 1 .. Top.node \subseteq 1 .. Document
      BY <1>8, <1>10, DocumentAssumption
    <3>2. call \in CallSet
      BY <3>1, <1>6, <1>8, <1>10, <2>1 DEF CallSet
    <3> HIDE DEF call
    <3> DEFINE C == CallSet
    <3>3. call \in C /\ ran \in Seq(C) /\ ran' = Append(ran, call)
      BY <3>2, <1>3, <1>10
    <3> HIDE DEF C
    <3>4. ran' \in Seq(C)
      BY <3>3
    <3> QED BY <3>4 DEF C
  <2>4. user \in Frames(H) /\ user.frame = "user"
    <3> DEFINE c == Len(ran) + 1
               fn == q.h.fn
    <3>1. c \in Nat /\ fn \in {0} \cup {b.fn : b \in Bindings} /\ IsCalled(fn, c, user)
      BY <2>1, <1>3 DEF IsCalled
    <3> HIDE DEF c, fn, user, H
    <3> QED BY <3>1, UserIs
  <2> HIDE DEF rest, H, user
  <2>5. /\ rest \in Frames(H) /\ SamePlace(frames[n], rest) /\ rest.ev = frames[n].ev /\ frames[n].frame = "dispatch"
        /\ frames' = SubSeq(frames, 1, n - 1) \o <<rest, user>>
    BY <1>1, <1>2, <1>3, <1>8, <1>10
  <2>6. frames' \in Seq(Frames(H)) /\ StackOk(frames', begun, vetoed, acted)
    BY <2>4, <2>5, <1>1, <1>3, MoveCall
  <2> QED BY <2>2, <2>3, <2>6, <1>3, <1>4 DEF SafetyInv, H
<1> QED BY <1>5, <1>7, <1>9, <1>10

----------
(* Handlers.                                                                *)

\* The handler on top, and the walk that its event is about.
LEMMA HandlerIs ==
  ASSUME SafetyInv, InHandler
  PROVE  /\ frames # <<>> /\ Handling(frames) /\ Stacked(frames)
         /\ frames \in Seq(Frames(Bound(binds)))
         /\ Dispatching = frames[Len(frames) - 1] /\ Dispatching.owner = Owner(frames)
         /\ CurrentEvent = frames[Owner(frames)].ev
<1>1. frames # <<>> /\ Top.frame = "user" /\ Top.call # 0
  BY DEF InHandler, Running
<1> QED BY <1>1, TopIs DEF SafetyInv, StackOk, Handling, Dispatching, Owner, CurrentEvent

\* The event of the handler that runs, and that of the walk it is for.
EventOf(s) == s[Owner(s)].ev
WalkEvent(s) == s[WalkAt(s)].ev

\* If they are two, the first knows the second.
LEMMA WalkUnmarked ==
  ASSUME NEW H, NEW s \in Seq(Frames(H)), s # <<>>, Handling(s), Stacked(s), NEW d
  PROVE  /\ EventOf(s).original = 0 \/ EventOf(s).original = WalkAt(s)
         /\ WalkAt(s) # 0
         /\ EventOf(s).original # 0 => [s EXCEPT ![Owner(s)].ev = d][EventOf(s).original].ev = WalkEvent(s)
         /\ EventOf(s) \in EventSet /\ WalkEvent(s) \in EventSet
<1> DEFINE o == Owner(s)
           w == WalkAt(s)
           n == Len(s)
<1>1. /\ w \in 1 .. n /\ o \in 1 .. n
      /\ \/ o = w /\ s[o].ev.original = 0
         \/ o = n - 1 /\ s[o].ev.original = w
  BY OwnerIs, WalkAt(s) = Len(s) - 2 DEF WalkAt
<1>2. n \in Nat /\ w = n - 2
  BY DEF WalkAt
<1>3. s[o] \in Frames(H) /\ s[w] \in Frames(H)
  BY <1>1
<1>4. s[o].ev \in EventSet /\ s[w].ev \in EventSet
  BY <1>3 DEF Frames, FrameSet
<1>5. ASSUME s[o].ev.original # 0 PROVE [s EXCEPT ![o].ev = d][s[o].ev.original].ev = s[w].ev
  <2>1. s[o].ev.original = w /\ o # w
    BY <1>1, <1>2, <1>5
  <2> DEFINE k == s[o].ev.original
  <2>2. k = w /\ o # w /\ s \in [1 .. n -> Frames(H)]
    BY <2>1
  <2> HIDE DEF k, o, w
  <2>3. [s EXCEPT ![o].ev = d][k] = s[w]
    BY <2>2, <1>1
  <2> QED BY <2>3 DEF k
<1> HIDE DEF o, w, n
<1>6. (s[o].ev.original = 0 \/ s[o].ev.original = w) /\ w # 0
  <2>1. s[o].ev.original = 0 \/ s[o].ev.original = w
    BY <1>1, Zenon
  <2>2. w \in 1 .. n /\ n \in Nat
    BY <1>1, <1>2
  <2> QED BY <2>1, <2>2
<1>7. EventOf(s) = s[o].ev /\ WalkEvent(s) = s[w].ev
  BY DEF EventOf, WalkEvent, o, w
<1>8. EventOf(s).original # 0 => [s EXCEPT ![o].ev = d][EventOf(s).original].ev = WalkEvent(s)
  BY <1>5, <1>7
<1> QED BY <1>4, <1>6, <1>7, <1>8 DEF o, w

\* A call of a handler that sets flags of its event.
LEMMA FlagsSet ==
  ASSUME SafetyInv, InHandler, NEW r
  PROVE  /\ r = WithFlags(Prevented, Prevented) =>
              Flagged(frames, Owner(frames), Prevented(EventOf(frames)), Prevented(WalkEvent(frames)), r)
         /\ r = WithFlags(Stopped, Stopped) =>
              Flagged(frames, Owner(frames), Stopped(EventOf(frames)), Stopped(WalkEvent(frames)), r)
         /\ r = WithFlags(StoppedAtOnce, Stopped) =>
              Flagged(frames, Owner(frames), StoppedAtOnce(EventOf(frames)), Stopped(WalkEvent(frames)), r)
         /\ r = WithFlags(PreventedAndStopped, PreventedAndStopped) =>
              Flagged(frames, Owner(frames), PreventedAndStopped(EventOf(frames)), PreventedAndStopped(WalkEvent(frames)), r)
<1> DEFINE o == Owner(frames)
           k == EventOf(frames).original
           m(d) == [frames EXCEPT ![o].ev = d]
<1>1. Dispatching.owner = o /\ CurrentEvent = EventOf(frames) /\ EventOf(frames) = frames[o].ev
  BY HandlerIs DEF EventOf
<1>2. \A d : k # 0 => m(d)[k].ev = WalkEvent(frames)
  BY HandlerIs, WalkUnmarked
<1>3. \A d, e : Flagged(frames, o, d, e, r) <=> r = IF k = 0 THEN m(d) ELSE [m(d) EXCEPT ![k].ev = e]
  BY <1>1, Zenon DEF Flagged
<1>4. /\ r = WithFlags(Prevented, Prevented) =>
           r = IF k = 0 THEN m(Prevented(EventOf(frames)))
               ELSE [m(Prevented(EventOf(frames))) EXCEPT ![k].ev = Prevented(WalkEvent(frames))]
      /\ r = WithFlags(Stopped, Stopped) =>
           r = IF k = 0 THEN m(Stopped(EventOf(frames)))
               ELSE [m(Stopped(EventOf(frames))) EXCEPT ![k].ev = Stopped(WalkEvent(frames))]
      /\ r = WithFlags(StoppedAtOnce, Stopped) =>
           r = IF k = 0 THEN m(StoppedAtOnce(EventOf(frames)))
               ELSE [m(StoppedAtOnce(EventOf(frames))) EXCEPT ![k].ev = Stopped(WalkEvent(frames))]
      /\ r = WithFlags(PreventedAndStopped, PreventedAndStopped) =>
           r = IF k = 0 THEN m(PreventedAndStopped(EventOf(frames)))
               ELSE [m(PreventedAndStopped(EventOf(frames))) EXCEPT ![k].ev = PreventedAndStopped(WalkEvent(frames))]
  <2>1. r = WithFlags(Prevented, Prevented) =>
           r = IF k = 0 THEN m(Prevented(EventOf(frames)))
               ELSE [m(Prevented(EventOf(frames))) EXCEPT ![k].ev = Prevented(WalkEvent(frames))]
    BY <1>1, <1>2 DEF WithFlags
  <2>2. r = WithFlags(Stopped, Stopped) =>
           r = IF k = 0 THEN m(Stopped(EventOf(frames)))
               ELSE [m(Stopped(EventOf(frames))) EXCEPT ![k].ev = Stopped(WalkEvent(frames))]
    BY <1>1, <1>2 DEF WithFlags
  <2>3. r = WithFlags(StoppedAtOnce, Stopped) =>
           r = IF k = 0 THEN m(StoppedAtOnce(EventOf(frames)))
               ELSE [m(StoppedAtOnce(EventOf(frames))) EXCEPT ![k].ev = Stopped(WalkEvent(frames))]
    BY <1>1, <1>2 DEF WithFlags
  <2>4. r = WithFlags(PreventedAndStopped, PreventedAndStopped) =>
           r = IF k = 0 THEN m(PreventedAndStopped(EventOf(frames)))
               ELSE [m(PreventedAndStopped(EventOf(frames))) EXCEPT ![k].ev = PreventedAndStopped(WalkEvent(frames))]
    BY <1>1, <1>2 DEF WithFlags
  <2> QED BY <2>4, <2>3, <2>2, <2>1
<1> HIDE DEF m, o, k
<1> QED BY <1>3, <1>4 DEF o

\* What a call of preventDefault, or one of the others, leaves.
FlagsKept(H, s, b, v, a, r) ==
  r \in Seq(Frames(H)) /\ StackOk(r, b, v, a) /\ Marked(s, r)

\* What the functions of event objects do to the stack.
LEMMA FlagsSafe ==
  ASSUME SafetyInv, InHandler, NEW r
  PROVE  /\ r = WithFlags(Prevented, Prevented) =>
              FlagsKept(Bound(binds), frames, begun, vetoed \cup {CurrentEvent.root}, acted, r)
         /\ r = WithFlags(Stopped, Stopped) => FlagsKept(Bound(binds), frames, begun, vetoed, acted, r)
         /\ r = WithFlags(StoppedAtOnce, Stopped) => FlagsKept(Bound(binds), frames, begun, vetoed, acted, r)
         /\ r = WithFlags(PreventedAndStopped, PreventedAndStopped) =>
              FlagsKept(Bound(binds), frames, begun, vetoed \cup {CurrentEvent.root}, acted, r)
<1> DEFINE H == Bound(binds)
           s == frames
           x == EventOf(s)
           y == WalkEvent(s)
<1>1. /\ s # <<>> /\ Handling(s) /\ s \in Seq(Frames(H)) /\ CurrentEvent = x
      /\ StackOk(s, begun, vetoed, acted) /\ begun \in Nat
  BY HandlerIs DEF SafetyInv, EventOf
<1>2. x \in EventSet /\ y \in EventSet
  BY HandlerIs, WalkUnmarked
<1>3. /\ Raised(x, Prevented(x)) /\ Raised(y, Prevented(y)) /\ Raised(x, Stopped(x)) /\ Raised(y, Stopped(y))
      /\ Raised(x, StoppedAtOnce(x)) /\ Raised(x, PreventedAndStopped(x)) /\ Raised(y, PreventedAndStopped(y))
      /\ Prevented(x).prevented = TRUE /\ Prevented(y).prevented = TRUE
      /\ PreventedAndStopped(x).prevented = TRUE /\ PreventedAndStopped(y).prevented = TRUE
  BY <1>2, FlagsRaised
<1>4. ASSUME NEW d, NEW e, Raised(x, d), Raised(y, e), Flagged(s, Owner(s), d, e, r)
      PROVE  /\ FlagsKept(H, s, begun, vetoed, acted, r)
             /\ d.prevented /\ e.prevented => FlagsKept(H, s, begun, vetoed \cup {x.root}, acted, r)
  <2>1. Raised(s[Owner(s)].ev, d) /\ Raised(s[WalkAt(s)].ev, e)
    BY <1>4 DEF EventOf, WalkEvent
  <2>2. x.root = s[Owner(s)].ev.root
    BY DEF EventOf
  <2> HIDE DEF s, H, x, y
  <2>3. /\ r \in Seq(Frames(H)) /\ StackOk(r, begun, vetoed, acted) /\ Marked(s, r)
        /\ d.prevented /\ e.prevented => StackOk(r, begun, vetoed \cup {s[Owner(s)].ev.root}, acted)
    BY <2>1, <1>1, <1>4, MoveFlags
  <2> QED BY <2>2, <2>3 DEF FlagsKept
<1> HIDE DEF x, y, H, s
<1>5. /\ r = WithFlags(Prevented, Prevented) => Flagged(s, Owner(s), Prevented(x), Prevented(y), r)
      /\ r = WithFlags(Stopped, Stopped) => Flagged(s, Owner(s), Stopped(x), Stopped(y), r)
      /\ r = WithFlags(StoppedAtOnce, Stopped) => Flagged(s, Owner(s), StoppedAtOnce(x), Stopped(y), r)
      /\ r = WithFlags(PreventedAndStopped, PreventedAndStopped) =>
           Flagged(s, Owner(s), PreventedAndStopped(x), PreventedAndStopped(y), r)
  BY FlagsSet DEF s, x, y
<1>6. /\ r = WithFlags(Prevented, Prevented) => FlagsKept(H, s, begun, vetoed \cup {x.root}, acted, r)
      /\ r = WithFlags(PreventedAndStopped, PreventedAndStopped) => FlagsKept(H, s, begun, vetoed \cup {x.root}, acted, r)
  BY <1>3, <1>4, <1>5
<1>7. /\ r = WithFlags(Stopped, Stopped) => FlagsKept(H, s, begun, vetoed, acted, r)
      /\ r = WithFlags(StoppedAtOnce, Stopped) => FlagsKept(H, s, begun, vetoed, acted, r)
  BY <1>3, <1>4, <1>5
<1> QED BY <1>1, <1>6, <1>7 DEF H, s

\* A call's end is recorded.
LEMMA EndsTyped ==
  ASSUME ran \in Seq(CallSet), NEW c, NEW how \in {"no", "node", "all"}
  PROVE  [ran EXCEPT ![c].ends = how] \in Seq(CallSet)
<1> DEFINE S == CallSet
           e == [ran[c] EXCEPT !.ends = how]
<1>1. CASE c \notin DOMAIN ran
  <2>1. [ran EXCEPT ![c].ends = how] = ran
    BY <1>1
  <2> QED BY <2>1
<1>2. CASE c \in DOMAIN ran
  <2>1. ran[c] \in CallSet
    BY <1>2
  <2>2. e \in S
    BY <2>1 DEF CallSet
  <2>3. [ran EXCEPT ![c].ends = how] = [ran EXCEPT ![c] = e] /\ ran \in Seq(S)
    OBVIOUS
  <2> HIDE DEF e, S
  <2>4. [ran EXCEPT ![c] = e] \in Seq(S)
    BY <2>2, <2>3, <1>2
  <2> QED BY <2>3, <2>4 DEF S
<1> QED BY <1>1, <1>2

\* preventDefault keeps SafetyInv.
LEMMA PreventDefaultSafe == SafetyInv /\ PreventDefault => SafetyInv'
<1> SUFFICES ASSUME SafetyInv, PreventDefault PROVE SafetyInv'
  OBVIOUS
<1>1. /\ InHandler /\ frames' = WithFlags(Prevented, Prevented) /\ vetoed' = vetoed \cup {CurrentEvent.root}
      /\ UNCHANGED <<store, binds, begun, ran, acted>>
  BY DEF PreventDefault, bounds, Veto
<1>2. FlagsKept(Bound(binds), frames, begun, vetoed \cup {CurrentEvent.root}, acted, frames')
  BY <1>1, FlagsSafe
<1> QED BY <1>1, <1>2 DEF SafetyInv, FlagsKept

\* So does stopPropagation.
LEMMA StopPropagationSafe == SafetyInv /\ StopPropagation => SafetyInv'
<1> SUFFICES ASSUME SafetyInv, StopPropagation PROVE SafetyInv'
  OBVIOUS
<1>1. /\ InHandler /\ frames' = WithFlags(Stopped, Stopped)
      /\ ran' = [ran EXCEPT ![Top.call].ends = "node"]
      /\ UNCHANGED <<store, binds, begun, vetoed, acted>>
  BY DEF StopPropagation, bounds, Ends
<1>2. FlagsKept(Bound(binds), frames, begun, vetoed, acted, frames')
  BY <1>1, FlagsSafe
<1>3. ran' \in Seq(CallSet)
  BY <1>1, EndsTyped DEF SafetyInv
<1> QED BY <1>1, <1>2, <1>3 DEF SafetyInv, FlagsKept

\* So does stopImmediatePropagation.
LEMMA StopImmediatePropagationSafe == SafetyInv /\ StopImmediatePropagation => SafetyInv'
<1> SUFFICES ASSUME SafetyInv, StopImmediatePropagation PROVE SafetyInv'
  OBVIOUS
<1>1. /\ InHandler /\ frames' = WithFlags(StoppedAtOnce, Stopped)
      /\ ran' = [ran EXCEPT ![Top.call].ends = "all"]
      /\ UNCHANGED <<store, binds, begun, vetoed, acted>>
  BY DEF StopImmediatePropagation, bounds, Ends
<1>2. FlagsKept(Bound(binds), frames, begun, vetoed, acted, frames')
  BY <1>1, FlagsSafe
<1>3. ran' \in Seq(CallSet)
  BY <1>1, EndsTyped DEF SafetyInv
<1> QED BY <1>1, <1>2, <1>3 DEF SafetyInv, FlagsKept

\* So does a handler that returns false.
LEMMA ReturnsFalseSafe == SafetyInv /\ ReturnsFalse => SafetyInv'
<1> SUFFICES ASSUME SafetyInv, ReturnsFalse PROVE SafetyInv'
  OBVIOUS
<1> DEFINE H == Bound(binds)
           q == WithFlags(PreventedAndStopped, PreventedAndStopped)
           v == vetoed \cup {CurrentEvent.root}
           n == Len(frames)
<1>1. /\ InHandler /\ frames' = SubSeq(q, 1, n - 1)
      /\ ran' = [ran EXCEPT ![Top.call].ends = IF @ = "no" THEN "node" ELSE @] /\ vetoed' = v
      /\ UNCHANGED <<store, binds, begun, acted>>
  BY DEF ReturnsFalse, bounds, Veto
<1>2. q = WithFlags(PreventedAndStopped, PreventedAndStopped) => FlagsKept(H, frames, begun, v, acted, q)
  BY <1>1, FlagsSafe
<1>3. FlagsKept(H, frames, begun, v, acted, q)
  BY <1>2
<1>4. frames # <<>> /\ n \in Nat \ {0} /\ begun \in Nat
  BY <1>1, TopIs DEF InHandler, Running, SafetyInv
<1> HIDE DEF q, v, H
<1>5. q \in Seq(Frames(H)) /\ StackOk(q, begun, v, acted) /\ Len(q) = n
  BY <1>3 DEF FlagsKept, Marked
<1>6. q # <<>> /\ frames' = SubSeq(q, 1, Len(q) - 1)
  BY <1>1, <1>4, <1>5
<1>7. frames' \in Seq(Frames(H)) /\ StackOk(frames', begun, v, acted)
  BY <1>4, <1>5, <1>6, MovePop
<1>8. ran' \in Seq(CallSet)
  <2> DEFINE c == Top.call
             how == IF ran[c].ends = "no" THEN "node" ELSE ran[c].ends
  <2>1. CASE c \in DOMAIN ran
    <3>1. ran[c] \in CallSet
      BY <2>1 DEF SafetyInv
    <3>2. how \in {"no", "node", "all"}
      BY <3>1 DEF CallSet
    <3>3. ran' = [ran EXCEPT ![c].ends = how]
      BY <1>1
    <3> HIDE DEF how, c
    <3> QED BY <3>2, <3>3, EndsTyped DEF SafetyInv
  <2>2. CASE c \notin DOMAIN ran
    <3>1. ran' = ran
      BY <1>1, <2>2 DEF SafetyInv
    <3> QED BY <3>1 DEF SafetyInv
  <2> QED BY <2>1, <2>2
<1> QED BY <1>1, <1>7, <1>8 DEF SafetyInv, H

\* An exception leaves what is below some place of the stack.
LEMMA ThrowShortens ==
  ASSUME SafetyInv, Throw
  PROVE  \E k \in 0 .. Len(frames) : frames' = SubSeq(frames, 1, k)
<1> DEFINE n == Len(frames)
           places == {0} \cup {i \in DOMAIN frames : frames[i].frame = "native"}
           k == Max(places)
<1>1. frames' = SubSeq(frames, 1, k)
  BY DEF Throw
<1>2. n \in Nat /\ DOMAIN frames = 1 .. n
  BY DEF SafetyInv
<1>3. k \in 0 .. n
  <2> DEFINE U == {i \in DOMAIN frames : frames[i].frame = "native"}
  <2>1. U \in SUBSET (1 .. n) /\ places = {0} \cup U
    BY <1>2
  <2> HIDE DEF U, places
  <2>2. \E x \in places : \A y \in places : x >= y
    <3>1. CASE U = {}
      BY <2>1, <3>1
    <3>2. CASE U # {}
      <4>1. Max(U) \in U /\ \A x \in U : x <= Max(U)
        BY <1>2, <2>1, <3>2, MaxIn
      <4> DEFINE m == Max(U)
      <4> HIDE DEF m
      <4>2. m \in U /\ \A x \in U : x <= m
        BY <4>1 DEF m
      <4>3. m \in places /\ m >= 0 /\ m \in Nat /\ U \subseteq Nat
        BY <4>2, <2>1, <1>2
      <4>4. \A y \in places : m >= y
        BY <4>2, <4>3, <2>1
      <4> QED BY <4>3, <4>4
    <3> QED BY <3>1, <3>2
  <2>3. k \in places
    BY <2>2 DEF k, Max
  <2> HIDE DEF k
  <2> QED BY <1>2, <2>1, <2>3
<1> QED BY <1>1, <1>3

\* So does an exception, which empties the stack down to the browser's nearest walk.
LEMMA ThrowSafe == SafetyInv /\ Throw => SafetyInv'
<1> SUFFICES ASSUME SafetyInv, Throw PROVE SafetyInv'
  OBVIOUS
<1> DEFINE H == Bound(binds)
           n == Len(frames)
<1>1. UNCHANGED <<store, binds, begun, ran, vetoed, acted>>
  BY DEF Throw, bounds, history
<1>2. /\ begun \in Nat /\ frames \in Seq(Frames(H)) /\ StackOk(frames, begun, vetoed, acted) /\ n \in Nat
  BY DEF SafetyInv
<1>3. PICK k \in 0 .. n : frames' = SubSeq(frames, 1, k)
  BY ThrowShortens
<1> DEFINE S == Frames(H)
<1>5. frames \in Seq(S)
  BY <1>2
<1> HIDE DEF S, H
<1>6. frames' \in Seq(S) /\ Shortened(frames, k, frames')
  BY <1>3, <1>5, ShortenedIs
<1>7. StackOk(frames', begun, vetoed, acted)
  BY <1>2, <1>6, ShortenedOk
<1> QED BY <1>1, <1>6, <1>7 DEF SafetyInv, S, H

\* Nothing but the store changes.
LEMMA StoreSafe ==
  ASSUME SafetyInv, store' \in Good(Bound(binds)), UNCHANGED <<frames, binds, begun, ran, vetoed, acted>>
  PROVE  SafetyInv'
BY DEF SafetyInv

\* So does on, or one.
LEMMA OnSafe == SafetyInv /\ On => SafetyInv'
<1> SUFFICES ASSUME SafetyInv, On PROVE SafetyInv'
  OBVIOUS
<1> DEFINE H == Bound(binds)
           J == Bound(binds + 1)
<1>1. PICK b \in Bindings :
        store' = AddHandler(store, b.node, [hid |-> binds + 1, type |-> b.type, selector |-> b.selector,
                                            ns |-> b.ns, fn |-> b.fn, one |-> b.one])
  BY DEF On
<1> DEFINE h == [hid |-> binds + 1, type |-> b.type, selector |-> b.selector,
                 ns |-> b.ns, fn |-> b.fn, one |-> b.one]
<1>2. binds' = binds + 1 /\ UNCHANGED <<frames, begun, ran, vetoed, acted>> /\ binds \in Nat
  BY DEF On, history, SafetyInv
<1>3. H \subseteq J /\ \A g \in H : g.hid \in 1 .. binds
  BY <1>2, BoundGrows
<1>4. b.node \in 1 .. Document /\ b.node \in Nodes
  BY NodesAssumption, PageNodes
<1>5. h \in J
  <2>1. binds + 1 \in 1 .. binds + 1
    BY <1>2
  <2> QED BY <2>1 DEF Bound
<1>6. store \in Good(H) /\ store \in Good(J)
  <2>1. store \in Good(H)
    BY DEF SafetyInv
  <2> HIDE DEF H, J
  <2> QED BY <2>1, <1>3, GoodMonotone
<1>7. \A m \in 1 .. Document : \A g : Keeps(store, m, g) => g.hid # h.hid
  <2> SUFFICES ASSUME NEW m \in 1 .. Document, NEW g, Keeps(store, m, g) PROVE g.hid # h.hid
    OBVIOUS
  <2>1. m \in Nodes
    BY PageNodes
  <2>2. g \in H
    <3> HIDE DEF H
    <3> QED BY <2>1, <1>6, KeptIsBound
  <2>3. g.hid \in 1 .. binds /\ h.hid = binds + 1
    BY <2>2, <1>3
  <2> QED BY <2>3, <1>2
<1>8. store' \in Good(J)
  <2> DEFINE m == b.node
  <2>1. store' = AddHandler(store, m, h) /\ m \in Nodes
    BY <1>1, <1>4
  <2> HIDE DEF h, m, J, H
  <2> QED BY <2>1, <1>5, <1>6, <1>7, AddHandlerGood
<1>9. frames' \in Seq(Frames(J))
  <2> DEFINE A == Frames(H)
             B == Frames(J)
  <2>1. A \subseteq B
    <3> HIDE DEF H, J
    <3> QED BY <1>3, FramesGrow
  <2>2. frames \in Seq(A)
    BY DEF SafetyInv
  <2> HIDE DEF A, B
  <2>3. frames \in Seq(B)
    BY <2>1, <2>2
  <2> QED BY <2>3, <1>2 DEF B
<1> QED BY <1>2, <1>8, <1>9 DEF SafetyInv

\* So does off.
LEMMA OffSafe == SafetyInv /\ Off => SafetyInv'
<1> SUFFICES ASSUME SafetyInv, Off PROVE SafetyInv'
  OBVIOUS
<1>1. PICK r \in Removals :
        OnStore(RemoveHandlers(store, r.node, [type |-> r.type, selector |-> r.selector, ns |-> r.ns, fn |-> r.fn]))
  BY DEF Off
<1> DEFINE m == r.node
           off == [type |-> r.type, selector |-> r.selector, ns |-> r.ns, fn |-> r.fn]
           H == Bound(binds)
<1>2. m \in Nodes
  BY NodesAssumption, PageNodes
<1>3. store' = RemoveHandlers(store, m, off) /\ UNCHANGED <<frames, binds, begun, ran, vetoed, acted>>
  BY <1>1 DEF OnStore, history
<1>4. store \in Good(H)
  BY DEF SafetyInv
<1> HIDE DEF m, off, H
<1>5. store' \in Good(H)
  BY <1>2, <1>3, <1>4, RemoveHandlersGood
<1> QED BY <1>3, <1>5, StoreSafe DEF H

\* So does a node that is taken out of the page.
LEMMA RemoveNodeSafe == SafetyInv /\ RemoveNode => SafetyInv'
<1> SUFFICES ASSUME SafetyInv, RemoveNode PROVE SafetyInv'
  OBVIOUS
<1>1. PICK n \in Removed : OnStore(CleanTree(store, n))
  BY DEF RemoveNode
<1>2. n \in Nodes
  BY NodesAssumption, PageNodes
<1>3. store' = CleanTree(store, n) /\ UNCHANGED <<frames, binds, begun, ran, vetoed, acted>>
  BY <1>1 DEF OnStore, history
<1>4. store \in Good(Bound(binds))
  BY DEF SafetyInv
<1>5. store' \in Good(Bound(binds))
  BY <1>2, <1>3, <1>4, CleanTreeGood
<1> QED BY <1>3, <1>5, StoreSafe

\* So does a copy of a node with its events.
LEMMA CloneSafe == SafetyInv /\ Clone => SafetyInv'
<1> SUFFICES ASSUME SafetyInv, Clone PROVE SafetyInv'
  OBVIOUS
<1>1. PICK n \in Cloned : OnStore(CopyEvents(store, n))
  BY DEF Clone
<1>2. n \in 1 .. Document
  BY NodesAssumption
<1>3. store' = CopyEvents(store, n) /\ UNCHANGED <<frames, binds, begun, ran, vetoed, acted>>
  BY <1>1 DEF OnStore, history
<1>4. store \in Good(Bound(binds))
  BY DEF SafetyInv
<1>5. store' \in Good(Bound(binds))
  BY <1>2, <1>3, <1>4, CopyEventsGood
<1> QED BY <1>3, <1>5, StoreSafe

\* So do data and removeData.
LEMMA DataSafe == SafetyInv /\ Data => SafetyInv'
<1> SUFFICES ASSUME SafetyInv, Data PROVE SafetyInv'
  OBVIOUS
<1>1. PICK n \in WithData :
        \/ OnStore(SetData(store, n, "key"))
        \/ OnStore(ReadData(store, n, "attribute"))
        \/ \E ks \in {{"key"}, {"key", "attribute"}} : OnStore(RemoveData(store, n, ks))
  BY DEF Data
<1>2. n \in Nodes /\ "key" \in Keys /\ "attribute" \in Keys
  BY NodesAssumption, PageNodes DEF Keys
<1>4. store \in Good(Bound(binds))
  BY DEF SafetyInv
<1>5. /\ SetData(store, n, "key") \in Good(Bound(binds))
      /\ ReadData(store, n, "attribute") \in Good(Bound(binds))
      /\ \A ks : RemoveData(store, n, ks) \in Good(Bound(binds))
  BY <1>2, <1>4, SetDataGood, RemoveDataGood
<1>6. store' \in Good(Bound(binds)) /\ UNCHANGED <<frames, binds, begun, ran, vetoed, acted>>
  BY <1>1, <1>5 DEF OnStore, history
<1> QED BY <1>6, StoreSafe

\* So does trigger, called by user code.
LEMMA CallTriggerSafe == SafetyInv /\ CallTrigger => SafetyInv'
<1> SUFFICES ASSUME SafetyInv, CallTrigger PROVE SafetyInv'
  OBVIOUS
<1> DEFINE H == Bound(binds)
           c == begun + 1
<1>1. PICK t \in Triggers : Trigger(t)
  BY DEF CallTrigger
<1>2. /\ begun \in Nat /\ frames \in Seq(Frames(H)) /\ StackOk(frames, begun, vetoed, acted)
      /\ store \in Good(H) /\ binds \in Nat /\ ran \in Seq(CallSet)
      /\ UNCHANGED <<store, binds, ran, vetoed, acted>>
  BY DEF CallTrigger, history, SafetyInv
<1> DEFINE f == Native("focus", t.node, c, TRUE)
           g == Triggered(t, c)
<1>3. begun' = c /\ (frames' = Append(frames, f) \/ frames' = Append(frames, g))
  BY <1>1 DEF Trigger, Push, Triggered, Outer
<1>4. /\ IsNative("focus", t.node, c, TRUE, f) /\ IsTriggered(t, c, g) /\ c \in Nat /\ Follows(begun, c)
      /\ t.node \in 1 .. Document /\ "focus" \in EventTypes /\ TRUE \in BOOLEAN
  BY <1>2, NodesAssumption DEF IsNative, IsTriggered, Follows, EventTypes
<1> DEFINE m == t.node
<1> HIDE DEF f, g, c, H, m
<1>5. f \in Frames(H) /\ IsWalkOf(f) /\ f.ev.original = 0 /\ f.ev.root = c
  <2>1. NativeWalk(H, "focus", m, c, TRUE, f)
    BY <1>4, NativeWalkIs DEF m
  <2> QED BY <2>1 DEF NativeWalk, IsWalkOf
<1>6. g \in Frames(H) /\ IsWalkOf(g) /\ g.ev.original = 0 /\ g.ev.root = c
  <2>1. TriggerWalk(H, t, c, g)
    BY <1>4, TriggerWalkIs
  <2> QED BY <2>1 DEF TriggerWalk, IsWalkOf
<1>7. frames' \in Seq(Frames(H)) /\ StackOk(frames', c, vetoed, acted)
  <2>1. CASE frames' = Append(frames, f)
    BY <2>1, <1>2, <1>4, <1>5, MoveWalk
  <2>2. CASE frames' = Append(frames, g)
    BY <2>2, <1>2, <1>4, <1>6, MoveWalk
  <2> QED BY <2>1, <2>2, <1>3
<1> QED BY <1>2, <1>3, <1>4, <1>7 DEF SafetyInv, H

\* A script that begins keeps SafetyInv.
LEMMA RunScriptSafe == SafetyInv /\ RunScript => SafetyInv'
<1> SUFFICES ASSUME SafetyInv, RunScript PROVE SafetyInv'
  OBVIOUS
<1> DEFINE H == Bound(binds)
           g == Script
<1>1. /\ frames' = <<g>> /\ ran' = <<>> /\ vetoed' = {} /\ acted' = {}
      /\ UNCHANGED <<store, binds, begun>> /\ begun \in Nat /\ binds \in Nat /\ store \in Good(H)
  BY DEF RunScript, Begin, bounds, SafetyInv
<1>2. g \in Frames(H) /\ g.frame = "user" /\ g.call = 0
  BY ScriptIs
<1> HIDE DEF g, H
<1>3. ~Active(g) /\ begun <= begun
  BY <1>1, <1>2 DEF Active
<1>4. frames' \in Seq(Frames(H)) /\ StackOk(frames', begun, {}, {})
  BY <1>1, <1>2, <1>3, MoveBegin
<1> QED BY <1>1, <1>4 DEF SafetyInv, H

\* The user clicks, or moves the focus: a walk begins.
LEMMA BeginsSafe ==
  ASSUME SafetyInv, NEW type \in EventTypes, Begin(Native(type, 1, begun + 1, FALSE)), begun' = begun + 1,
         UNCHANGED <<store, binds>>
  PROVE  SafetyInv'
<1> DEFINE H == Bound(binds)
           c == begun + 1
           g == Native(type, 1, c, FALSE)
<1>1. /\ frames' = <<g>> /\ ran' = <<>> /\ vetoed' = {} /\ acted' = {} /\ begun' = c
      /\ begun \in Nat /\ c \in Nat /\ binds \in Nat /\ store \in Good(H) /\ begun <= c /\ c = begun + 1
      /\ IsNative(type, 1, c, FALSE, g) /\ 1 \in 1 .. Document /\ FALSE \in BOOLEAN
  BY DocumentAssumption DEF Begin, SafetyInv, IsNative
<1> HIDE DEF g, H, c
<1>2. NativeWalk(H, type, 1, c, FALSE, g)
  BY <1>1, NativeWalkIs
<1>3. g \in Frames(H) /\ g.frame = "native" /\ g.ev.original = 0 /\ g.ev.root = c
  BY <1>2 DEF NativeWalk
<1>4. frames' \in Seq(Frames(H)) /\ StackOk(frames', c, {}, {})
  <2>1. Active(g) => g.ev.root = begun + 1 /\ begun + 1 <= c
    BY <1>1, <1>3
  <2> QED BY <2>1, <1>1, <1>3, MoveBegin
<1> QED BY <1>1, <1>4 DEF SafetyInv, H

\* So does a click or a submission.
LEMMA UserClicksSafe == SafetyInv /\ UserClicks => SafetyInv'
<1> SUFFICES ASSUME SafetyInv, UserClicks PROVE SafetyInv'
  OBVIOUS
<1>1. "click" \in EventTypes
  BY DEF EventTypes
<1>2. Begin(Native("click", 1, begun + 1, FALSE)) /\ begun' = begun + 1 /\ UNCHANGED <<store, binds>>
  BY DEF UserClicks
<1> QED BY <1>1, <1>2, BeginsSafe

\* So does the focus that moves.
LEMMA FocusMovesSafe == SafetyInv /\ FocusMoves => SafetyInv'
<1> SUFFICES ASSUME SafetyInv, FocusMoves PROVE SafetyInv'
  OBVIOUS
<1>1. "focus" \in EventTypes
  BY DEF EventTypes
<1>2. UNCHANGED <<store, binds>>
  BY DEF FocusMoves
<1>3. CASE Begin(Native("focus", 1, begun + 1, FALSE)) /\ begun' = begun + 1
  BY <1>1, <1>2, <1>3, BeginsSafe
<1>4. CASE UNCHANGED <<frames, begun, history>>
  BY <1>2, <1>4 DEF SafetyInv, history
<1> QED BY <1>3, <1>4 DEF FocusMoves

\* Every step keeps SafetyInv.
LEMMA SafetyStep == SafetyInv /\ [Next]_vars => SafetyInv'
<1> SUFFICES ASSUME SafetyInv, [Next]_vars PROVE SafetyInv'
  OBVIOUS
<1>1. CASE Walks
  BY <1>1, NativeStopSafe, NativeEndsSafe, TriggerStopSafe, TriggerDefaultSafe, TriggerReturnsSafe, DispatchesSafe
     DEF Walks
<1>2. CASE UserCode
  BY <1>2, PreventDefaultSafe, StopPropagationSafe, StopImmediatePropagationSafe, ReturnSafe, ReturnsFalseSafe,
     ThrowSafe, OnSafe, OffSafe, RemoveNodeSafe, CloneSafe, DataSafe, CallTriggerSafe
     DEF UserCode
<1>3. CASE Browser
  BY <1>3, RunScriptSafe, UserClicksSafe, FocusMovesSafe DEF Browser
<1>4. CASE UNCHANGED vars
  BY <1>4 DEF vars, SafetyInv
<1> QED BY <1>1, <1>2, <1>3, <1>4 DEF Next

\* In every behaviour of Events the store is good and the stack in order.
THEOREM EventsAreSafe == Spec => []SafetyInv
<1> QED BY SafetyInit, SafetyStep, PTL DEF Spec

\* A node has a listener for a type exactly while jQuery keeps handlers of the type for it,
\* with the entry's own function, and the document listens to the focus at least while a node
\* has such a handler.
THEOREM SpecListenersInStep == Spec => []ListenersInStep
<1>1. SafetyInv => ListenersInStep
  <2> SUFFICES ASSUME SafetyInv PROVE ListenersInStep
    OBVIOUS
  <2>1. InStep(store)
    BY DEF SafetyInv, Good
  <2> QED BY <2>1 DEF InStep, ListenersInStep, Wanting, Told, Focusing
<1> QED BY <1>1, EventsAreSafe, PTL

\* No two nodes share an entry of jQuery's data, and no entry outlives its node.
THEOREM SpecNodesOwnTheirData == Spec => []NodesOwnTheirData
<1>1. SafetyInv => NodesOwnTheirData
  <2> SUFFICES ASSUME SafetyInv PROVE NodesOwnTheirData
    OBVIOUS
  <2> DEFINE used == {n \in Nodes : store.expando[n] # 0}
  <2>1. Owns(store)
    BY DEF SafetyInv, Good
  <2>2. \A m, n \in used : store.expando[m] = store.expando[n] => m = n
    BY <2>1 DEF Owns
  <2>3. DOMAIN store.cache = {store.expando[n] : n \in used}
    BY <2>1 DEF Owns
  <2>4. Range(store.deletedIds) \cap DOMAIN store.cache = {}
    BY <2>1 DEF Owns, Range
  <2>5. IsInjective(store.deletedIds)
    BY <2>1 DEF Owns, IsInjective
  <2> QED BY <2>5, <2>4, <2>3, <2>2 DEF NodesOwnTheirData
<1> QED BY <1>1, EventsAreSafe, PTL

\* No event whose default was prevented has had it done.
THEOREM SpecPreventedIsNotDone == Spec => []PreventedIsNotDone
<1>1. SafetyInv => PreventedIsNotDone
  BY DEF SafetyInv, StackOk, PreventedIsNotDone
<1> QED BY <1>1, EventsAreSafe, PTL
================================================================================
