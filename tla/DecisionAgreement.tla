------------------------- MODULE DecisionAgreement -------------------------
(***************************************************************************)
(* What a decision promises its participants, without the way it gets      *)
(* there: at most one offer is on the table, only the people it was made   *)
(* to can vote on it, each for themselves, and it is agreed exactly when   *)
(* all of them have.  Whoever is seated changes only with the table clear. *)
(***************************************************************************)
EXTENDS Naturals

CONSTANT Voter   \* people who may be asked to vote

VARIABLES
    offer,       \* number of the offer on the table, 0 when there is none
    last,        \* number of the last offer made
    electorate,  \* whose votes the offer needs
    votes,       \* who stands by the offer
    agreed,      \* the offer is the agreed outcome
    outcomes     \* every agreement reached: the offer and who stood by it

vars == <<offer, last, electorate, votes, agreed, outcomes>>

Init == /\ offer = 0 /\ last = 0
        /\ electorate \in SUBSET Voter
        /\ votes = {} /\ agreed = FALSE
        /\ outcomes = {}

Propose == /\ offer = 0
           /\ last' = last + 1
           /\ offer' = last'
           /\ UNCHANGED <<electorate, votes, agreed, outcomes>>

Vote(p) == /\ offer # 0 /\ p \in electorate
           /\ votes' = votes \union {p}
           /\ agreed' = (electorate \subseteq votes')
           /\ outcomes' = IF agreed' THEN outcomes \union {[offer |-> offer, voters |-> votes']}
                          ELSE outcomes
           /\ UNCHANGED <<offer, last, electorate>>

Retract(p) == /\ p \in votes
              /\ votes' = votes \ {p}
              /\ agreed' = FALSE
              /\ UNCHANGED <<offer, last, electorate, outcomes>>

\* the table is cleared, and people may leave it or sit down
Clear == /\ offer' = 0 /\ votes' = {} /\ agreed' = FALSE
         /\ electorate' \in SUBSET Voter
         /\ UNCHANGED <<last, outcomes>>

Next == Propose \/ Clear \/ \E p \in Voter : Vote(p) \/ Retract(p)

Spec == Init /\ [][Next]_vars

\* An outcome counts as agreed exactly while everyone asked stands by it.
Unanimous == agreed => offer # 0 /\ electorate \subseteq votes
=============================================================================
