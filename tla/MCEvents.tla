------------------------------- MODULE MCEvents -------------------------------
EXTENDS Events

B(node, type, selector, ns, fn, one) ==
  [node |-> node, type |-> type, selector |-> selector, ns |-> ns, fn |-> fn, one |-> one]
R(node, type, selector, ns, fn) ==
  [node |-> node, type |-> type, selector |-> selector, ns |-> ns, fn |-> fn]
T(node, type, ns, only) == [node |-> node, type |-> type, ns |-> ns, only |-> only]

\* Function 1 may do anything, 2 returns false, 3 prevents the default.
MCBindings ==
  {B(1, "click", {}, {}, 1, TRUE), B(1, "click", {}, {}, 2, FALSE),
   B(1, "click", {}, {"smoothscroll"}, 3, FALSE),
   B(Document, "click", {1}, {}, 1, FALSE), B(2, "submit", {}, {}, 1, FALSE),
   B(Document, "focus", {1}, {}, 1, FALSE), B(2, "focus", {1}, {}, 1, FALSE),
   B(Document, "click", {}, {}, 2, FALSE)}
MCRemovals ==
  {R(1, "click", {}, {}, 1), R(1, "", {}, {"smoothscroll"}, 0), R(Document, "", AnySelector, {}, 0)}
MCTriggers ==
  {T(1, "click", {}, FALSE), T(1, "click", {"smoothscroll"}, TRUE), T(1, "focus", {}, FALSE)}
===============================================================================
