------------------------------ MODULE MCEffects ------------------------------
EXTENDS Effects

Call(name) == [call |-> name, elems |-> {1}, duration |-> 1, queued |-> TRUE, clear |-> FALSE, gotoEnd |-> FALSE]

\* What scripts call: on one element, and stop to the end on the other one too.
MCScriptCalls ==
  {Call("animate"), Call("delay"), Call("clear"), Call("finish"), Call("promise"),
   [Call("animate") EXCEPT !.duration = 0], [Call("animate") EXCEPT !.queued = FALSE, !.duration = 2],
   Call("stop"), [Call("stop") EXCEPT !.clear = TRUE],
   [Call("stop") EXCEPT !.gotoEnd = TRUE, !.elems = {1, 2}]}
MCElems == {1, 2}
===============================================================================
