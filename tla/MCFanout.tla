------------------------------ MODULE MCFanout ------------------------------
(* Fanout with two lists of reply targets: the hub alone, and after another target. *)
EXTENDS Fanout, TLC

CONSTANTS
  other,
  MaxChanges  \* bound on restarts of the repli, dead connections and departures together

Symmetry == Permutations(Members) \cup Permutations(Messages)

MCLists == {<<Hub>>, <<other, Hub>>}

FewChanges ==
  epoch + Cardinality(dead) + Cardinality({c \in Members : member[c] = "gone"}) <= MaxChanges
=============================================================================
