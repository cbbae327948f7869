------------------------ MODULE MCDecisionTransaction ------------------------
(***************************************************************************)
(* A small instance of DecisionTransaction: two owners with two commands   *)
(* between them, two requests at a time.                                   *)
(***************************************************************************)
EXTENDS DecisionTransaction, TLC

CONSTANTS c1, c2, k1, k2, i1, i2

Clients == {c1, c2}
Keys == {k1, k2}
Invocations == {i1, i2}

Names == Permutations(Clients) \union Permutations(Keys) \union Permutations(Invocations)
=============================================================================
