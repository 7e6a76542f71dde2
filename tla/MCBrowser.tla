------------------------------ MODULE MCBrowser -------------------------------
(* Constant values for the run of Browser. *)
EXTENDS Browser, TLC

CONSTANTS p1, p2, kim, choi

\* p1 exists, and choi is not a member of it; p2 may be created.
MCMembers == [p \in Projects |-> IF p = p1 THEN {kim} ELSE Actors]
MCAsks ==
  {[kind |-> k, project |-> p1] : k \in {"operate", "download"}}
    \union {[kind |-> "create", project |-> p2], [kind |-> "operate", project |-> p2],
            [kind |-> "switch", actor |-> choi], [kind |-> "reset"]}

Symmetry == Permutations(Flows)
=============================================================================
