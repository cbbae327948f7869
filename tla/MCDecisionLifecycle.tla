------------------------ MODULE MCDecisionLifecycle ------------------------
(***************************************************************************)
(* Small instances of DecisionLifecycle: two people, two options.          *)
(***************************************************************************)
EXTENDS DecisionViews, TLC

CONSTANTS p1, p2, a, b

TwoPeople == {p1, p2}
OnePerson == {p2}
TwoOptions == {a, b}

\* drafts that ask for a, one of them ready to give way
PrefersA == {[hard |-> {a, b}, neg |-> {a}]}
NegotiableOrHard == {[hard |-> {a, b}, neg |-> {a}], [hard |-> {a}, neg |-> {a, b}]}

AnyOption == {{a, b}}
AnyOrB == {{a, b}, {b}}

People == Permutations(TwoPeople)

\* a second proposal or a second context, not both
OneOfBoth ==
    context' + proposalVersion' + (IF pending' = NoCandidate THEN 0 ELSE 1) <= 3
=============================================================================
