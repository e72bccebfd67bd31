------------------------------ MODULE MCJourney ------------------------------
(* Journey for TLC: the symmetry of its model values. *)
EXTENDS Journey, TLC

Symmetry == Permutations(Tabs) \union Permutations(Vehicles) \union Permutations(Traders)

==============================================================================
