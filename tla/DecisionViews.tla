---------------------------- MODULE DecisionViews ----------------------------
(***************************************************************************)
(* What may be stored and shown of a decision.  The repository parses      *)
(* every record it reads or writes with decisionRecordSchema, the public   *)
(* view is parsed with PublicDecisionSnapshot and an owner's view with     *)
(* OwnerDecisionSnapshot.  A refinement that fails is no answer but an     *)
(* internal error: the person cannot open the decision, and every command  *)
(* route that reads the view first is closed to them.  These are the       *)
(* refinements, stated about DecisionLifecycle; equalities of identifiers, *)
(* value domains and disclosures, which it abstracts from, are left out.   *)
(***************************************************************************)
EXTENDS DecisionLifecycle

\* approvedParticipantIds
Approved == IF candidate = NoCandidate THEN {} ELSE CurrentApprovals(approval)

\* decisionRecordSchema.superRefine: otherwise the transaction is refused
DecisionRecord ==
    LET stored == {p \in roster : approval[p] # 0} IN
    /\ confirmed \subseteq roster
    /\ status \in Live <=> candidate # NoCandidate
    /\ stored \subseteq required
    /\ status = "AGREED" => required \subseteq stored
    /\ job \in {0, context}

FramesNeeded == Live \union {"COLLECTING_PRIVATE_INPUT", "NEEDS_CLARIFICATION", "READY",
                             "REASONING", "PRIVATE_NEGOTIATION", "NO_AGREEMENT"}

\* PublicDecisionSnapshot.superRefine
PublicDecisionSnapshot ==
    /\ confirmed \subseteq roster
    /\ status \in FramesNeeded => RequiredConfirmed
    /\ Approved \subseteq required
    /\ status \in Live <=> candidate # NoCandidate
    /\ status = "AGREED" => Cardinality(Approved) = Cardinality(required)
    /\ status \notin Live \/ status = "PROPOSED" => Approved = {}
    /\ candidate # NoCandidate => candidate.context = context

\* OwnerDecisionSnapshot.superRefine, what it asks of a draft under review
DraftShown(p) ==
    draft[p].present => /\ draft[p].bound
                        /\ draft[p].unsupported => readiness[p] # "READY"

\* ... of questions, refusals and permissions ...
ConsentShown(p) ==
    \A o \in Option :
        /\ permission[p][o] # "NONE" => question[p][o] # "NONE"
        /\ question[p][o] = "PENDING" \/ o \in refused[p] => o \notin terms[p].neg

\* ... and of the owner's approval
ApprovalShown(p) ==
    approval[p] # 0 => /\ candidate # NoCandidate
                       /\ candidate.context = context
                       /\ approval[p] = candidate.version

OwnerDecisionSnapshot(p) ==
    PublicDecisionSnapshot /\ DraftShown(p) /\ ConsentShown(p) /\ ApprovalShown(p)

-----------------------------------------------------------------------------
\* Whatever people, the runtime and the clock do, and in whatever order, the
\* decision can be stored and everybody can open it: no step leaves a status
\* without its confirmations, an approval without its proposal or a permission
\* without its question.  The one thing that can close an owner's view is a
\* draft of that owner.
OnlyADraftHidesAView ==
    /\ DecisionRecord /\ PublicDecisionSnapshot
    /\ \A p \in roster : ConsentShown(p) /\ ApprovalShown(p)

\* "Draft must bind to the owner's current semantic context and owner version"
\* and "Unsupported qualitative conditions keep this owner in clarification"
\* (packages/contracts/src/known-enough.ts:902, 908): an owner can always open
\* the decision.
OwnersKeepTheirView == \A p \in roster : OwnerDecisionSnapshot(p)

=============================================================================
