------------------------ MODULE MCDecisionNegotiator ------------------------
(***************************************************************************)
(* A small instance of DecisionNegotiator: two people, one option, two     *)
(* requests.  Its run evaluates ServiceChecks first.                       *)
(***************************************************************************)
EXTENDS DecisionNegotiator, DecisionVerdict, ServiceChecks, TLC

CONSTANTS p1, p2, a, r1, r2

TwoPeople == {p1, p2}
OneOption == {a}
TwoRequests == {r1, r2}

\* conditions that accept a, rule it out, or would have to give way
AnyTerms == {[hard |-> {a}, neg |-> {a}], [hard |-> {a}, neg |-> {}], [hard |-> {}, neg |-> {a}]}
Anything == {{a}}

Same == Permutations(TwoPeople) \union Permutations(TwoRequests)
=============================================================================
