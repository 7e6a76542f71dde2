----------------------------- MODULE MCAdapters ------------------------------
(* Constant values for the run of Adapters. *)
EXTENDS Adapters, TLC

CONSTANTS p1, p2, e1, c1, c2, c3

Operate(p, e) == [name |-> "operate", project |-> p, id |-> e]

\* Project p1 exists, p2 may be created.
MCAsks ==
  {[name |-> "create", project |-> p2], Operate(p1, e1), Operate(p2, e1),
   [name |-> "list"], [name |-> "reset"]}

Symmetry == Permutations(Calls)
=============================================================================
