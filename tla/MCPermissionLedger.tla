------------------------- MODULE MCPermissionLedger -------------------------
(***************************************************************************)
(* A small instance of PermissionLedger: two people, a history of three    *)
(* records, four ordinary receipts.  Its runs evaluate KernelChecks first, *)
(* and the statement about protected writes below.                         *)
(***************************************************************************)
EXTENDS PermissionLedger, KernelChecks, TLC

CONSTANTS p1, p2

People == {p1, p2}
Names == Permutations(People)

SomeDecisions ==
    LET owners == [pending : 0..2, settled : {2}, refused : {0}, active : 0..2, ended : {0},
                   asked : 0..2, granted : 0..2, closed : {0}, approved : BOOLEAN]
        Of(o, status) ==
            LET held == status \in Live
            IN  [roster |-> {p1}, frame |-> {p1}, ready |-> {p1}, status |-> status,
                 owner |-> [p \in People |-> IF p = p1 THEN o ELSE EmptyOwner],
                 retired |-> [p \in People |-> EmptyHistory],
                 candidate |-> [held |-> held, rests |-> IF held /\ o.active > 0 THEN {p1} ELSE {}],
                 superseded |-> 0, agreements |-> 0]
    IN  {Of(o, status) : o \in owners, status \in Status}

(* Whatever takes back, or puts the question that is answered out of the   *)
(* space it reserves, may use the space that is kept free: the withdrawals *)
(* and answers of owners, every sweep of a read - unlike those of a room - *)
(* and what the creator does.  An approval may not, nor a proposal that    *)
(* displaces nothing, nor the publication of an allowed disclosure: once a *)
(* state has grown into the reserve it cannot be published any more.       *)
ASSUME TakingBackIsProtected ==
    LET Write(d, e, type, ended) == ProtectedWrite(d, e, type, FALSE, ended)
    IN  \A d \in {d \in SomeDecisions : d.status # "CLOSED"} :
            LET o == d.owner[p1]
                Sweeps(e) == Write(d, e, NoCommand, {"EXPIRED"})
            IN  /\ o.pending > 0 => Sweeps(AfterQuestionExpires(d, p1))
                /\ o.asked > 0 => Sweeps(AfterRequestExpires(d, p1))
                /\ o.granted > 0 =>
                      /\ Sweeps(AfterDisclosureEnds(d, p1))
                      /\ ~Write(d, AfterDisclosureEnds(d, p1), NoCommand, {"PUBLISHED"})
                      /\ Write(d, AfterDisclosureEnds(d, p1), "REVOKE_DISCLOSURE", {"REVOKED"})
                /\ o.active > 0 => \A used \in BOOLEAN :
                      /\ Sweeps(AfterExpiry(d, p1, used))
                      /\ Write(d, AfterRevoke(d, p1, used), "REVOKE_NEGOTIATION", {"REVOKED"})
                /\ Write(d, [d EXCEPT !.owner[p1].pending = @ + 1], NoCommand, {})
                /\ Write(d, [d EXCEPT !.owner[p1].asked = @ + 1], NoCommand, {})
                /\ Write(d, AfterClose(d), NoCommand, {})
                /\ Write(d, AfterJoin(d, {p2}), NoCommand, {})
                /\ ~Write(d, AfterApprove(d, p1), "APPROVE_PROPOSAL", {})
                /\ Write(d, AfterProposal(d, {}), NoCommand, {"SUPERSEDED"})
                      <=> o.asked + o.granted > 0 \/ o.approved
=============================================================================
