----------------------------- MODULE MCPageReady -----------------------------
(* PageReady for TLC: a page, or two deferreds with or without a third that *)
(* waits for them, or one plain list of these options.                      *)
EXTENDS PageReady

MCListOptions == {{}, {"memory"}, {"once", "memory"}, {"unique", "stopOnFalse", "memory"}}

==============================================================================
