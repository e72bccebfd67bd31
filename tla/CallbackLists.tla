---------------------------- MODULE CallbackLists ----------------------------
(***************************************************************************)
(* jQuery.Callbacks: a list of callbacks that is fired with some data.     *)
(* Everything the pages wait for is kept in such lists: the handlers for   *)
(* the document being ready, what follows an animation, the outcome of a   *)
(* request.  While a list fires, the callbacks it calls may add to it,     *)
(* remove from it, fire, lock or disable it, so the loop's variables are   *)
(* state of the list.                                                      *)
(*                                                                         *)
(* The operators give the list after a call; a list whose firing they      *)
(* start is `firing` and its loop is run by the module that uses it.       *)
(***************************************************************************)
EXTENDS Integers, Sequences, FiniteSets

Options == {"once", "memory", "unique", "stopOnFalse"}

\* live: list is not undefined.  memory: <<>> or <<data>>.  repeatable: stack is
\* an array.  data: the argument of fire.  Indexes count from 0 as in the code.
NewList(options) ==
  [options |-> options, live |-> TRUE, list |-> <<>>, memory |-> <<>>, fired |-> FALSE,
   firing |-> FALSE, data |-> <<>>, start |-> 0, index |-> 0, length |-> 0,
   repeatable |-> "once" \notin options, stack |-> <<>>]

IsCallback(l, c) == \E i \in DOMAIN l.list : l.list[i] = c

Disable(l) == [l EXCEPT !.live = FALSE, !.list = <<>>, !.memory = <<>>,
                        !.repeatable = FALSE, !.stack = <<>>]

Lock(l) ==
  IF l.memory = <<>> THEN Disable(l) ELSE [l EXCEPT !.repeatable = FALSE, !.stack = <<>>]

\* Also a list that was disabled is a list again.
Empty(l) == [l EXCEPT !.live = TRUE, !.list = <<>>]

\* fire, up to its loop.
BeginFire(l, data) ==
  [l EXCEPT !.memory = IF "memory" \in l.options THEN <<data>> ELSE <<>>,
            !.data = data, !.fired = TRUE, !.index = l.start, !.start = 0,
            !.length = Len(l.list), !.firing = TRUE]

\* A callback joins the batch that is being fired; a list that remembers data
\* calls it right away.
Add(l, c) ==
  LET added == IF "unique" \in l.options /\ IsCallback(l, c) THEN l
               ELSE [l EXCEPT !.list = Append(@, c)]
  IN  IF ~l.live THEN l
      ELSE IF l.firing THEN [added EXCEPT !.length = Len(added.list)]
      ELSE IF l.memory = <<>> THEN added
      ELSE BeginFire([added EXCEPT !.start = Len(l.list)], l.memory[1])

\* Mutant: the loop's index stays.
Remove_KeepsIndex(l, c) ==
  LET at == {i - 1 : i \in {j \in DOMAIN l.list : l.list[j] = c}}
  IN  [l EXCEPT !.list = SelectSeq(@, LAMBDA x : x # c),
                !.length = IF l.firing THEN @ - Cardinality({i \in at : i <= @}) ELSE @]

\* Every occurrence goes; those that the loop has passed, or is at, move it back.
Remove(l, c) ==
  LET at == {i - 1 : i \in {j \in DOMAIN l.list : l.list[j] = c}}
      Before(n) == IF l.firing THEN n - Cardinality({i \in at : i <= n}) ELSE n
  IN  [l EXCEPT !.list = SelectSeq(@, LAMBDA x : x # c),
                !.length = Before(@), !.index = Before(@)]

\* Mutant: a list is fired as often as it is asked to.
FireWith_Again(l, data) ==
  IF ~l.live THEN l
  ELSE IF l.firing THEN [l EXCEPT !.stack = Append(@, data)]
  ELSE BeginFire(l, data)

\* fireWith: a list that is firing is fired again afterwards.
FireWith(l, data) ==
  IF ~(l.live /\ (~l.fired \/ l.repeatable)) THEN l
  ELSE IF l.firing THEN [l EXCEPT !.stack = Append(@, data)]
  ELSE BeginFire(l, data)

-------------------------------------------------------------------------------
(* The loop of fire.                                                       *)

InLoop(l) == l.live /\ l.index < l.length
Current(l) == l.list[l.index + 1]

\* The list was emptied under the loop, which goes on with list[firingIndex].
Overrun(l) == InLoop(l) /\ l.index >= Len(l.list)

\* A callback returned: the next one is due, or none if it stopped the loop.
Returned(l, false) ==
  IF false /\ "stopOnFalse" \in l.options
  THEN [l EXCEPT !.memory = <<>>, !.index = l.length]
  ELSE [l EXCEPT !.index = @ + 1]

\* After the loop: the next queued firing, or the list is done with.
EndFire(l) ==
  IF ~l.live THEN [l EXCEPT !.firing = FALSE]
  ELSE IF l.stack # <<>> THEN BeginFire([l EXCEPT !.stack = Tail(@)], Head(l.stack))
  ELSE IF l.repeatable THEN [l EXCEPT !.firing = FALSE]
  ELSE IF l.memory # <<>> THEN [l EXCEPT !.firing = FALSE, !.list = <<>>]
  ELSE Disable([l EXCEPT !.firing = FALSE])

==============================================================================
