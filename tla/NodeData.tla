------------------------------- MODULE NodeData -------------------------------
(***************************************************************************)
(* jQuery's data about DOM nodes.  A node carries only a number, its       *)
(* expando; what is kept about it (event handlers, the listener that       *)
(* serves them, the scripts' own data) is in one cache under this number.  *)
(* Numbers of nodes that have no data any more are used again.             *)
(*                                                                         *)
(* The operators give the store after a call.  None of these calls runs    *)
(* code of the scripts, so each is one step.  Nodes are numbered from the  *)
(* inside out: the parent of n is n + 1, the last one is the document.     *)
(***************************************************************************)
EXTENDS Integers, Sequences, FiniteSets, FiniteSetsExt, SequencesExt

CONSTANT Document \* bound: the document's number, and how deep nodes are nested

ASSUME DocumentAssumption == Document \in Nat \ {0}

\* A copy that is in no page.
Copy == 0
Nodes == {Copy} \cup 1 .. Document

\* An entry of the cache.  events: handlers by type; made: there is an object for
\* them.  handle: the number of the listener, or 0.  keys: the scripts' data.
NewEntry == [events |-> <<>>, made |-> FALSE, handle |-> 0, keys |-> {}]

EmptyStore ==
  [cache |-> <<>>, expando |-> [n \in Nodes |-> 0], deletedIds |-> <<>>, guid |-> 1,
   listeners |-> [n \in Nodes |-> {}], attaches |-> 0]

HasData(s, n) == s.expando[n] \in DOMAIN s.cache
Entry(s, n) == IF HasData(s, n) THEN s.cache[s.expando[n]] ELSE NewEntry
WithEntry(s, n, e) == [s EXCEPT !.cache[s.expando[n]] = e]

IsEmptyDataObject(e) == ~e.made /\ e.handle = 0 /\ e.keys = {}

Without(f, x) == [y \in DOMAIN f \ {x} |-> f[y]]
With(f, x, v) == [y \in DOMAIN f \cup {x} |-> IF y = x THEN v ELSE f[y]]

-------------------------------------------------------------------------------
(* Data.                                                                   *)

\* internalData, where it makes an entry if there is none.
InternalData(s, n) ==
  LET reuse == s.deletedIds # <<>>
      id == IF s.expando[n] # 0 THEN s.expando[n]
            ELSE IF reuse THEN s.deletedIds[Len(s.deletedIds)] ELSE s.guid
      new == s.expando[n] = 0
  IN  IF HasData(s, n) THEN s
      ELSE [s EXCEPT !.expando[n] = id,
                     !.guid = IF new /\ ~reuse THEN @ + 1 ELSE @,
                     !.deletedIds = IF new /\ reuse THEN SubSeq(@, 1, Len(@) - 1) ELSE @,
                     !.cache = With(@, id, NewEntry)]

\* What cleanData does last: the entry goes, its number may be used again.
Drop(s, n) ==
  [s EXCEPT !.cache = Without(@, s.expando[n]), !.expando[n] = 0,
            !.deletedIds = Append(@, s.expando[n])]

DropIfEmpty(s, n) == IF IsEmptyDataObject(Entry(s, n)) THEN Drop(s, n) ELSE s

SetData(s, n, k) ==
  LET t == InternalData(s, n) IN WithEntry(t, n, [Entry(t, n) EXCEPT !.keys = @ \cup {k}])

\* dataAttr: the value of a data- attribute is kept from the first reading on.
ReadData(s, n, k) == IF k \in Entry(s, n).keys THEN s ELSE SetData(s, n, k)

\* removeData: one key, or all.
RemoveData(s, n, ks) ==
  IF ~HasData(s, n) THEN s
  ELSE LET e == Entry(s, n)
           t == WithEntry(s, n, [e EXCEPT !.keys = @ \ ks])
       IN  IF e.keys \ ks # {} THEN t ELSE DropIfEmpty(t, n)

-------------------------------------------------------------------------------
(* Event handlers.                                                         *)

\* The type a handler is kept under: the focus of an inner node is told by focusin.
KeptType(type, selector) == IF type = "focus" /\ selector # {} THEN "focusin" ELSE type

Handlers(s, n, type) ==
  LET e == Entry(s, n) IN IF type \in DOMAIN e.events THEN e.events[type] ELSE <<>>

DelegateCount(handlers) == Cardinality({i \in DOMAIN handlers : handlers[i].selector # {}})
Delegates(handlers) == SubSeq(handlers, 1, DelegateCount(handlers))
Own(handlers) == SubSeq(handlers, DelegateCount(handlers) + 1, Len(handlers))

\* Delegates in front.
WithHandler(handlers, h) ==
  IF h.selector # {} THEN Delegates(handlers) \o <<h>> \o Own(handlers) ELSE Append(handlers, h)

UsedHandles(s) ==
  {l[2] : l \in UNION {s.listeners[n] : n \in Nodes}} \cup {s.cache[i].handle : i \in DOMAIN s.cache}
NewHandle(s) == CHOOSE k \in 1 .. 2 * Document + 3 : k \notin UsedHandles(s)

\* focusin exists in no browser here: it is made of focus events, which one listener
\* that captures them tells of while somebody wants to know.
Attaches(s, k) == [s EXCEPT !.attaches = @ + k]

\* The first handler of a type makes the browser tell of such events: by the node's
\* listener, or for focusin by one that all nodes share.
Listen(s, n, type) ==
  IF type = "focusin" THEN Attaches(s, 1)
  ELSE [s EXCEPT !.listeners[n] = @ \cup {<<type, Entry(s, n).handle>>}]

\* event.add
AddHandler(s, n, h) ==
  LET t == InternalData(s, n)
      type == KeptType(h.type, h.selector)
      e == Entry(t, n)
      u == WithEntry(t, n, [e EXCEPT
             !.made = TRUE,
             !.handle = IF @ = 0 THEN NewHandle(t) ELSE @,
             !.events = With(@, type, WithHandler(Handlers(t, n, type), h))])
  IN  IF type \in DOMAIN e.events THEN u ELSE Listen(u, n, type)

\* Mutant: the listener outlives the last handler.
Unlisten_OnlyFocus(s, n, type) ==
  IF type = "focusin" THEN Attaches(s, -1) ELSE s

RemoveEvent(s, n, type) == [s EXCEPT !.listeners[n] = @ \ {<<type, Entry(s, n).handle>>}]

\* Mutant: off does not tell the shared listener.
Unlisten_NotFocus(s, n, type) ==
  IF type = "focusin" THEN s ELSE RemoveEvent(s, n, type)

Unlisten(s, n, type) ==
  IF type = "focusin" THEN Attaches(s, -1) ELSE RemoveEvent(s, n, type)

\* Whether a call of off means handler h.  fn 0 is any function, no selector any
\* handler and AnySelector any delegate; once all types are gone through, the type
\* that the handler was bound with does not matter.
AnySelector == {0}
Means(off, mapped, h) ==
  /\ mapped \/ off.type = h.type
  /\ off.fn \in {0, h.fn}
  /\ off.ns \subseteq h.ns
  /\ off.selector \in {{}, h.selector, IF h.selector # {} THEN AnySelector ELSE {}}

\* The handlers that a call of off leaves, in their order.
NotMeant(handlers, off, mapped) ==
  FoldLeft(LAMBDA kept, h : IF Means(off, mapped, h) THEN kept ELSE Append(kept, h), <<>>, handlers)

\* event.remove for one type.
RemoveType(s, n, off, mapped) ==
  LET type == KeptType(off.type, off.selector)
      handlers == Handlers(s, n, type)
      kept == NotMeant(handlers, off, mapped)
      last == handlers # <<>> /\ kept = <<>>
      t == IF last THEN Unlisten(s, n, type) ELSE s
      e == Entry(t, n)
      events == IF last THEN Without(e.events, type)
                ELSE [y \in DOMAIN e.events |-> IF y = type THEN kept ELSE e.events[y]]
      u == WithEntry(t, n, [e EXCEPT !.events = events])
  IN  IF ~Entry(s, n).made THEN s
      ELSE IF DOMAIN events # {} THEN u
      ELSE DropIfEmpty(WithEntry(t, n, [e EXCEPT !.events = <<>>, !.made = FALSE, !.handle = 0]), n)

\* event.remove; type "" is every type that the node has handlers of.
RemoveHandlers(s, n, off) ==
  IF off.type # "" THEN RemoveType(s, n, off, FALSE)
  ELSE FoldSet(LAMBDA type, t : RemoveType(t, n, [off EXCEPT !.type = type], TRUE),
               s, DOMAIN Entry(s, n).events)

\* The removals that cleanData begins with.  A delegate of focus is kept under focusin,
\* but was not bound with that type: it is not removed, and focusin not told.
RemoveEach(s, n) ==
  FoldSet(LAMBDA type, t :
            RemoveType(t, n, [type |-> type, selector |-> {}, ns |-> {}, fn |-> 0], FALSE),
          s, DOMAIN Entry(s, n).events)

\* Mutant: an entry that went with its last handler is dropped once more.
CleanData_Twice(s, n) ==
  LET t == RemoveEach(s, n)
  IN  IF ~HasData(s, n) THEN s
      ELSE IF HasData(t, n) THEN Drop(t, n)
      ELSE [t EXCEPT !.deletedIds = Append(@, s.expando[n])]

\* cleanData: the handlers go type by type, and with the last one perhaps the entry.
CleanData(s, n) ==
  LET t == RemoveEach(s, n) IN IF HasData(t, n) THEN Drop(t, n) ELSE t

\* remove: node n and those inside it.
CleanTree(s, n) == FoldSet(LAMBDA m, t : CleanData(t, m), s, IF n = Copy THEN {n} ELSE 1 .. n)

\* cloneCopyEvent: the copy of node n gets its handlers and data.
CopyEvents(s, n) ==
  LET e == Entry(s, n)
      t == InternalData(s, Copy)
      u == WithEntry(t, Copy, [Entry(t, Copy) EXCEPT !.keys = e.keys])
      AddAll(v, type) == FoldLeft(LAMBDA w, h : AddHandler(w, Copy, h), v, e.events[type])
  IN  IF IsEmptyDataObject(e) THEN s
      ELSE FoldSet(LAMBDA type, v : AddAll(v, type), u, DOMAIN e.events)
===============================================================================
