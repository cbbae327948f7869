-------------------------- MODULE PermissionLedger --------------------------
(***************************************************************************)
(* What a decision remembers about permissions, and whether the repository *)
(* accepts a step that adds to it.  KnownEnoughApplication                 *)
(* (packages/application/src/known-enough.ts) keeps the questions,         *)
(* refusals, permissions and disclosures of each owner and moves them to a *)
(* retired history when answers or the frame change.                       *)
(* DynamoDBRoomRepository.transactionDecision (adapters/src/dynamodb.ts)     *)
(* stores one receipt per command, counts the receipts in a guard record,  *)
(* and refuses a step whose history does not grow the way it expects.      *)
(*                                                                         *)
(* Every record is a count: which adjustment a question asks for and the   *)
(* wording of a disclosure are left out, the size of the item in bytes is  *)
(* but for which writes may use the space kept free (ProtectedWrite), and  *)
(* so are drafts and clarification, which touch no count.  Everybody   *)
(* seated is required.                                                     *)
(* A command the repository refuses leaves everything as it was: it is no  *)
(* step here, and "Admits" says when it does not happen.                   *)
(*                                                                         *)
(* Definitions marked "Faulty variant" are no part of Spec: each is what a *)
(* plausible mistake would make of the definition after it.                *)
(***************************************************************************)
EXTENDS Integers, FiniteSets

CONSTANTS
    Participant,
    QuestionLimit,    \* an owner's pendingQuestions: 32
    PermissionLimit,  \* an owner's permissions of one kind: 32
    RetiredLimit,     \* refusals of an owner, retired records of one kind: 64
    HistoryLimit,     \* PERMISSION_RECEIPT_LIMIT, MAX_PERMISSION_HISTORY_RECORDS: 192
    OrdinaryLimit,    \* ORDINARY_RECEIPT_LIMIT: 4096
    SafetyLimit,      \* SAFETY_RECEIPT_LIMIT: 320
    ArchiveLimit      \* supersededCandidates and agreementHistory: 64

TotalLimit == OrdinaryLimit + HistoryLimit + SafetyLimit  \* TOTAL_RECEIPT_LIMIT: 4608

\* 320 >= 192 + 20 (MAX_DECISION_PARTICIPANTS)
ASSUME LimitAssumption ==
    /\ {QuestionLimit, PermissionLimit, RetiredLimit, HistoryLimit,
        OrdinaryLimit, SafetyLimit, ArchiveLimit} \subseteq Nat
    /\ IsFiniteSet(Participant) /\ Participant # {}
    /\ QuestionLimit <= PermissionLimit /\ PermissionLimit <= RetiredLimit
    /\ SafetyLimit >= HistoryLimit + Cardinality(Participant)

VARIABLES decision,  \* the state item
          guard      \* the guard item's receipt counters
vars == <<decision, guard>>

Live == {"PROPOSED", "APPROVING", "AGREED"}
Status == Live \union {"COLLECTING_FRAME_CONFIRMATION", "COLLECTING_PRIVATE_INPUT", "READY",
                       "REASONING", "PRIVATE_NEGOTIATION", "NO_AGREEMENT", "SUPERSEDED", "CLOSED"}
PermissionCommand == {"ANSWER_NEGOTIATION", "DECIDE_DISCLOSURE"}
SafetyCommand == {"REVOKE_NEGOTIATION", "REVOKE_DISCLOSURE", "WITHDRAW_APPROVAL"}

\* pending and settled questions; refused requests; ACTIVE negotiation
\* permissions and those of any other status; disclosures PENDING, ACTIVE, other
EmptyOwner == [pending |-> 0, settled |-> 0, refused |-> 0, active |-> 0, ended |-> 0,
               asked |-> 0, granted |-> 0, closed |-> 0, approved |-> FALSE]
EmptyHistory == [refused |-> 0, negotiation |-> 0, disclosure |-> 0]
\* rests: the owners whose permissions the candidate depends upon
NoCandidate == [held |-> FALSE, rests |-> {}]

-----------------------------------------------------------------------------
(* Counting *)

Owners(d) == {d.owner[p] : p \in Participant}
Negotiation(o) == o.active + o.ended
Disclosures(o) == o.asked + o.granted + o.closed

CurrentRecords(o) == o.refused + Negotiation(o) + o.granted + o.closed
RetiredRecords(h) == h.refused + h.negotiation + h.disclosure

\* the number of records, when p has n[p] of them
CountAll(n) == Cardinality(UNION {{p} \X (1..n[p]) : p \in Participant})

\* decisionPermissionHistoryCount
HistoryCount(d) ==
    CountAll([p \in Participant |-> CurrentRecords(d.owner[p]) + RetiredRecords(d.retired[p])])

\* pendingDecisionResponseCount
PendingCount(d) == CountAll([p \in Participant |-> d.owner[p].pending + d.owner[p].asked])

\* permissionHistoryUsage
HistoryUsage(d) == HistoryCount(d) + PendingCount(d)

RetiredFits(d) == \A p \in Participant :
    LET h == d.retired[p]
    IN  {h.refused, h.negotiation, h.disclosure} \subseteq 0..RetiredLimit

-----------------------------------------------------------------------------
(* What the repository accepts *)

\* The schema of the state item and validateDecisionStateGuard, for a guard
\* that counts n permission receipts
Fits(d, n) ==
    /\ \A o \in Owners(d) :
          /\ o.pending + o.settled <= QuestionLimit
          /\ {o.refused, Negotiation(o), Disclosures(o)} \subseteq 0..RetiredLimit
    /\ RetiredFits(d)
    /\ d.superseded <= ArchiveLimit /\ d.agreements <= ArchiveLimit
    /\ d.status \in Live <=> d.candidate.held
    /\ n = HistoryCount(d) /\ HistoryUsage(d) <= HistoryLimit

\* A step without a receipt: the history may be rearranged, never changed.
AdmitsStep(d, e) == HistoryCount(e) = HistoryCount(d) /\ Fits(e, guard.permission)

\* The reserve a successful command draws on once ordinary receipts are used up
Reserve(type, delta) ==
    CASE type \in PermissionCommand /\ delta = 1 -> "permission"
      [] type \in SafetyCommand -> "safety"
      [] OTHER -> "none"

\* transactionDecision's branches for a command of this type that turned d into
\* e; every successful command changes controlVersion, so the state changes
Admits(d, e, type) ==
    LET delta == HistoryCount(e) - HistoryCount(d)
    IN  /\ delta \in {0, 1}
        /\ guard.total < TotalLimit
        /\ IF guard.ordinary < OrdinaryLimit
           THEN delta = 1 => type \in PermissionCommand /\ guard.permission < HistoryLimit
           ELSE \/ Reserve(type, delta) = "permission" /\ guard.permission < HistoryLimit
                \/ Reserve(type, delta) = "safety" /\ guard.safety < SafetyLimit
        /\ Fits(e, guard.permission + delta)

\* the guard after the receipt of a command
Charged(type, delta) ==
    LET spare == guard.ordinary < OrdinaryLimit
    IN  [ordinary   |-> guard.ordinary + (IF spare THEN 1 ELSE 0),
         permission |-> guard.permission + delta,
         safety     |-> guard.safety
                          + (IF ~spare /\ Reserve(type, delta) = "safety" THEN 1 ELSE 0),
         total      |-> guard.total + 1]

-----------------------------------------------------------------------------
(* Which writes may use the space a state item keeps free, 8 of its 360 KB *)

ProtectedCommand == PermissionCommand \union SafetyCommand
    \union {"CONFIRM_FRAME", "CONFIRM_CONSTRAINTS", "CONFIRM_PRIVATE_ANSWERS"}
NoCommand == "NONE"  \* a look at the decision, a step of the runtime or of the creator

\* isSafeDecisionTransition: something was taken back.  renewed: the context is
\* another; ended: the statuses that permissions and disclosures in force got
\* and still have in their owners' lists.
IsSafeDecisionTransition(d, e, renewed, ended) ==
    \/ renewed
    \/ "CLOSED" \in {d.status, e.status}
    \/ d.roster # e.roster
    \/ \E p \in Participant :
          LET o == d.owner[p]
              n == e.owner[p]
          IN  \/ o.approved /\ ~n.approved
              \/ n.pending < o.pending \/ n.asked < o.asked
              \/ /\ n.active < o.active \/ n.granted < o.granted
                 /\ ended \intersect {"REVOKED", "EXPIRED", "SUPERSEDED"} # {}

ProtectedWrite(d, e, type, renewed, ended) ==
    \/ PendingCount(e) > PendingCount(d)
    \/ IF type = NoCommand THEN IsSafeDecisionTransition(d, e, renewed, ended)
       ELSE type \in ProtectedCommand

-----------------------------------------------------------------------------
(* The decision after a step of the application *)

RequiredConfirmed(d) == d.frame = d.roster
ReadinessStatus(d) ==
    CASE ~RequiredConfirmed(d) -> "COLLECTING_FRAME_CONFIRMATION"
      [] RequiredConfirmed(d) /\ d.ready # d.roster -> "COLLECTING_PRIVATE_INPUT"
      [] OTHER -> "READY"

ForEachOwner(d, Op(_)) == [d EXCEPT !.owner = [p \in Participant |-> Op(@[p])]]

\* retireDisclosureRequests: every unsettled disclosure is the current proposal's
DropDisclosures(o) == [o EXCEPT !.asked = 0, !.granted = 0, !.closed = @ + o.granted]

Lesser(a, b) == IF a < b THEN a ELSE b

\* Faulty variant: the requests of a retired proposal stay, marked SUPERSEDED.
AfterRetireKeepingRequests(d) ==
    LET Reset(o) == [o EXCEPT !.approved = FALSE, !.asked = 0, !.granted = 0,
                              !.closed = @ + o.granted + o.asked]
    IN  [ForEachOwner(d, Reset) EXCEPT
            !.candidate = NoCandidate,
            !.superseded = IF d.candidate.held THEN Lesser(@ + 1, ArchiveLimit) ELSE @]

\* retireCurrentProposal
AfterRetire(d) ==
    LET Reset(o) == [IF d.candidate.held THEN DropDisclosures(o) ELSE o
                        EXCEPT !.approved = FALSE]
    IN  [ForEachOwner(d, Reset) EXCEPT
            !.candidate = NoCandidate,
            !.superseded = IF d.candidate.held THEN Lesser(@ + 1, ArchiveLimit) ELSE @]

\* retireOwnerPermissions, for every owner: a copy of what they hold
AfterCopyToRetired(d) ==
    [d EXCEPT !.retired = [p \in Participant |->
        LET o == d.owner[p]
        IN  [refused     |-> @[p].refused + o.refused,
             negotiation |-> @[p].negotiation + Negotiation(o),
             disclosure  |-> @[p].disclosure + o.granted + o.closed]]]

\* Faulty variant: the permissions of other owners stay where they are as well.
AfterSaveKeepingGrants(d, p) ==
    LET Clear(o) == [EmptyOwner EXCEPT !.refused = o.refused, !.active = o.active]
        e == [ForEachOwner(AfterCopyToRetired(AfterRetire(d)), Clear) EXCEPT
                 !.frame = @ \union {p}, !.ready = @ \union {p}]
    IN  [e EXCEPT !.status = ReadinessStatus(e)]

\* CONFIRM_PRIVATE_ANSWERS: everything is copied to the retired history and
\* cleared, but for the refusals, which stay with their owners
AfterSave(d, p) ==
    LET Clear(o) == [EmptyOwner EXCEPT !.refused = o.refused]
        e == [ForEachOwner(AfterCopyToRetired(AfterRetire(d)), Clear) EXCEPT
                 !.frame = @ \union {p}, !.ready = @ \union {p}]
    IN  [e EXCEPT !.status = ReadinessStatus(e)]

AfterConfirmFrame(d, p) ==
    LET e == [d EXCEPT !.frame = @ \union {p}]
    IN  IF p \in d.frame THEN d ELSE [e EXCEPT !.status = ReadinessStatus(e)]

\* invalidateConfirmedContext, and reviseDecision for the same people
AfterNewContext(d) ==
    LET Clear(o) == EmptyOwner
    IN  [ForEachOwner(AfterCopyToRetired(AfterRetire(d)), Clear) EXCEPT
            !.frame = {}, !.ready = {}, !.status = "COLLECTING_FRAME_CONFIRMATION"]

\* CONFIRM_CONSTRAINTS: a first confirmation, or a revision of an earlier one
AfterConfirmConstraints(d, p) ==
    LET e == [AfterRetire(d) EXCEPT !.ready = @ \union {p}]
    IN  IF p \in d.ready THEN AfterNewContext(d) ELSE [e EXCEPT !.status = ReadinessStatus(e)]

Waiting(d) == \E o \in Owners(d) : o.pending > 0

\* Faulty variant: a declined question is also recorded as an ended permission.
AfterAnswerTwice(d, p, allow) ==
    LET o == d.owner[p]
        e == [d EXCEPT !.owner[p] = [o EXCEPT
                !.pending = @ - 1, !.settled = @ + 1,
                !.active = @ + (IF allow THEN 1 ELSE 0),
                !.ended = @ + (IF allow THEN 0 ELSE 1),
                !.refused = @ + (IF allow THEN 0 ELSE 1)]]
    IN  [e EXCEPT !.status = IF Waiting(e) THEN "PRIVATE_NEGOTIATION" ELSE ReadinessStatus(e)]

\* ANSWER_NEGOTIATION
AfterAnswer(d, p, allow) ==
    LET o == d.owner[p]
        e == [d EXCEPT !.owner[p] = [o EXCEPT
                !.pending = @ - 1, !.settled = @ + 1,
                !.active = @ + (IF allow THEN 1 ELSE 0),
                !.refused = @ + (IF allow THEN 0 ELSE 1)]]
    IN  [e EXCEPT !.status = IF Waiting(e) THEN "PRIVATE_NEGOTIATION" ELSE ReadinessStatus(e)]

\* DECIDE_DISCLOSURE
AfterDecide(d, p, allow) ==
    LET o == d.owner[p]
    IN  [d EXCEPT !.owner[p] = [o EXCEPT !.asked = @ - 1,
        !.granted = @ + (IF allow THEN 1 ELSE 0), !.closed = @ + (IF allow THEN 0 ELSE 1)]]

\* The candidate goes with a permission it used.
AfterLoss(d, used) == IF used THEN [AfterRetire(d) EXCEPT !.status = "SUPERSEDED"] ELSE d

\* Faulty variant: a revoked permission is deleted.
AfterRevokeDeleting(d, p, used) == AfterLoss([d EXCEPT !.owner[p].active = @ - 1], used)

\* REVOKE_NEGOTIATION
AfterRevoke(d, p, used) ==
    LET o == d.owner[p]
    IN  AfterLoss([d EXCEPT !.owner[p] = [o EXCEPT !.active = @ - 1, !.ended = @ + 1]], used)

\* Faulty variant: the candidate is not looked at when a permission expires.
AfterExpiryUnnoticed(d, p, used) ==
    LET o == d.owner[p]
    IN  [d EXCEPT !.owner[p] = [o EXCEPT !.active = @ - 1, !.ended = @ + 1]]

\* sweep: a permission expires
AfterExpiry(d, p, used) ==
    LET o == d.owner[p]
    IN  AfterLoss([d EXCEPT !.owner[p] = [o EXCEPT !.active = @ - 1, !.ended = @ + 1]], used)

\* REVOKE_DISCLOSURE, publishDisclosure, and the expiry of an allowed disclosure;
\* it was asked for once the candidate stood, which does not depend upon it
AfterDisclosureEnds(d, p) ==
    LET o == d.owner[p]
    IN  [d EXCEPT !.owner[p] = [o EXCEPT !.granted = @ - 1, !.closed = @ + 1]]

ApprovalStatus(d) ==
    CASE \A q \in d.roster : d.owner[q].approved -> "AGREED"
      [] \E q \in d.roster : ~d.owner[q].approved /\ \E r \in d.roster : d.owner[r].approved -> "APPROVING"
      [] OTHER -> "PROPOSED"

\* APPROVE_PROPOSAL: repeating the last approval records the agreement again
AfterApprove(d, p) ==
    LET e == [d EXCEPT !.owner[p].approved = TRUE]
    IN  [e EXCEPT !.status = ApprovalStatus(e),
                  !.agreements = @ + (IF ApprovalStatus(e) = "AGREED" THEN 1 ELSE 0)]

\* WITHDRAW_APPROVAL
AfterWithdraw(d, p) ==
    LET e == [d EXCEPT !.owner[p].approved = FALSE]
    IN  [e EXCEPT !.status = ApprovalStatus(e)]

\* sweep: a question, or a disclosure nobody decided, expires
AfterQuestionExpires(d, p) ==
    LET o == d.owner[p]
        e == [d EXCEPT !.owner[p] = [o EXCEPT !.pending = @ - 1, !.settled = @ + 1]]
    IN  [e EXCEPT !.status = IF @ = "PRIVATE_NEGOTIATION" /\ ~Waiting(e)
                             THEN ReadinessStatus(e) ELSE @]
AfterRequestExpires(d, p) == [d EXCEPT !.owner[p].asked = @ - 1]

\* completeReasoning with a valid candidate that rests on these owners' permissions
AfterProposal(d, rests) ==
    LET Reset(o) == [DropDisclosures(o) EXCEPT !.approved = FALSE]
    IN  [ForEachOwner(d, Reset) EXCEPT
            !.candidate = [held |-> TRUE, rests |-> rests], !.status = "PROPOSED"]

\* includeDecisionGroupMembers
AfterJoin(d, people) ==
    LET Suspend(o) == [o EXCEPT !.pending = 0, !.settled = @ + o.pending,
                                !.active = 0, !.ended = @ + o.active,
                                !.asked = 0, !.granted = 0, !.closed = @ + o.asked + o.granted]
        e == [ForEachOwner(AfterRetire(d), Suspend) EXCEPT !.roster = @ \union people]
    IN  [e EXCEPT !.status = ReadinessStatus(e)]

\* closeDecision: the archive is not cut to its limit here
AfterClose(d) ==
    LET Reset(o) == [IF d.candidate.held THEN DropDisclosures(o) ELSE o
                        EXCEPT !.approved = FALSE]
    IN  [ForEachOwner(d, Reset) EXCEPT
            !.candidate = NoCandidate, !.status = "CLOSED",
            !.superseded = @ + (IF d.candidate.held THEN 1 ELSE 0)]

-----------------------------------------------------------------------------
(* Commands of owners.  execute() sweeps first; a command applies to the swept
   decision only when the sweep changed nothing, so Sweep is a step of its own. *)

Init ==
    /\ \E people \in SUBSET Participant \ {{}} :
          decision = [roster |-> people, frame |-> {}, ready |-> {},
                      status |-> "COLLECTING_FRAME_CONFIRMATION",
                      owner |-> [p \in Participant |-> EmptyOwner],
                      retired |-> [p \in Participant |-> EmptyHistory],
                      candidate |-> NoCandidate, superseded |-> 0, agreements |-> 0]
    /\ guard = [ordinary |-> 0, permission |-> 0, safety |-> 0, total |-> 0]

Execute(p, type, e) ==
    /\ p \in decision.roster /\ decision.status # "CLOSED"
    /\ Admits(decision, e, type)
    /\ decision' = e
    /\ guard' = Charged(type, HistoryCount(e) - HistoryCount(decision))

\* A rejected command leaves a receipt too, while there are ordinary ones.
Reject(p) ==
    /\ p \in decision.roster
    /\ guard.ordinary < OrdinaryLimit /\ guard.total < TotalLimit
    /\ guard' = Charged("REJECTED", 0)
    /\ UNCHANGED decision

ConfirmFrame(p) == Execute(p, "CONFIRM_FRAME", AfterConfirmFrame(decision, p))

Retirable(e) == HistoryUsage(e) <= HistoryLimit /\ RetiredFits(e)
ConfirmConstraints(p) ==
    LET e == AfterConfirmConstraints(decision, p)
    IN  /\ RequiredConfirmed(decision)
        /\ p \in decision.ready => Retirable(e)
        /\ Execute(p, "CONFIRM_CONSTRAINTS", e)

ConfirmPrivateAnswers(p) ==
    /\ decision.status # "AGREED"
    /\ Execute(p, "CONFIRM_PRIVATE_ANSWERS", AfterSave(decision, p))

\* the application's own conditions on an answer
Answerable(p, allow) ==
    LET o == decision.owner[p]
    IN  /\ o.pending > 0
        /\ IF allow THEN Negotiation(o) < PermissionLimit ELSE o.refused < RetiredLimit
AnswerNegotiation(p, allow) ==
    /\ Answerable(p, allow)
    /\ Execute(p, "ANSWER_NEGOTIATION", AfterAnswer(decision, p, allow))

DecideDisclosure(p, allow) ==
    /\ decision.owner[p].asked > 0
    /\ Execute(p, "DECIDE_DISCLOSURE", AfterDecide(decision, p, allow))

\* Whether the candidate used the permission that p loses: it did when it rests
\* on p and p has no other.
MayUse(p) == {used \in BOOLEAN :
    /\ used => p \in decision.candidate.rests
    /\ p \in decision.candidate.rests /\ decision.owner[p].active = 1 => used}

RevokeNegotiation(p, used) ==
    /\ decision.owner[p].active > 0 /\ used \in MayUse(p)
    /\ Execute(p, "REVOKE_NEGOTIATION", AfterRevoke(decision, p, used))

RevokeDisclosure(p) ==
    /\ decision.owner[p].granted > 0
    /\ Execute(p, "REVOKE_DISCLOSURE", AfterDisclosureEnds(decision, p))

ApproveProposal(p) ==
    LET e == AfterApprove(decision, p)
    IN  /\ decision.candidate.held
        /\ e.status = "AGREED" => decision.agreements < ArchiveLimit
        /\ Execute(p, "APPROVE_PROPOSAL", e)

WithdrawApproval(p) ==
    /\ decision.candidate.held /\ decision.owner[p].approved
    /\ Execute(p, "WITHDRAW_APPROVAL", AfterWithdraw(decision, p))

-----------------------------------------------------------------------------
(* Steps without a receipt *)

Step(e) == AdmitsStep(decision, e) /\ decision' = e /\ UNCHANGED guard

\* askNegotiation, for an adjustment not asked for before; its callers bind it to
\* the pending candidate, which stands exactly in PRIVATE_NEGOTIATION
AskNegotiation(p) ==
    LET o == decision.owner[p]
    IN  /\ decision.status = "PRIVATE_NEGOTIATION" /\ p \in decision.ready
        /\ o.pending + o.settled < QuestionLimit /\ Negotiation(o) < PermissionLimit
        /\ HistoryUsage(decision) < HistoryLimit
        /\ Step([decision EXCEPT !.owner[p].pending = @ + 1])

RequestDisclosure(p) ==
    /\ p \in decision.roster /\ decision.candidate.held
    /\ Disclosures(decision.owner[p]) < PermissionLimit
    /\ HistoryUsage(decision) < HistoryLimit
    /\ Step([decision EXCEPT !.owner[p].asked = @ + 1])

PublishDisclosure(p) ==
    /\ decision.candidate.held /\ decision.owner[p].granted > 0
    /\ Step(AfterDisclosureEnds(decision, p))

StartReasoning ==
    /\ decision.status \in {"READY", "SUPERSEDED", "NO_AGREEMENT"}
    /\ RequiredConfirmed(decision) /\ decision.ready = decision.roster
    /\ Step([decision EXCEPT !.status = "REASONING"])

\* A valid candidate rests on permissions in force; another verdict leaves none.
CompleteReasoning ==
    /\ decision.status = "REASONING"
    /\ \/ \E rests \in SUBSET {p \in Participant : decision.owner[p].active > 0} :
             Step(AfterProposal(decision, rests))
       \/ \E verdict \in {"PRIVATE_NEGOTIATION", "NO_AGREEMENT"} :
             Step([decision EXCEPT !.status = verdict])

CancelReasoning ==
    /\ decision.status = "REASONING"
    /\ Step([decision EXCEPT !.status = ReadinessStatus(decision)])

AbandonPendingReasoning ==
    /\ decision.status = "PRIVATE_NEGOTIATION" /\ ~Waiting(decision)
    /\ Step([decision EXCEPT !.status = ReadinessStatus(decision)])

\* sweep, from any read or command: what expires at one time may be several
\* records, which is as many of these steps
Sweep(p) ==
    LET o == decision.owner[p]
    IN  \/ o.pending > 0 /\ Step(AfterQuestionExpires(decision, p))
        \/ o.asked > 0 /\ Step(AfterRequestExpires(decision, p))
        \/ o.granted > 0 /\ Step(AfterDisclosureEnds(decision, p))
        \/ /\ o.active > 0
           /\ \E used \in MayUse(p) : Step(AfterExpiry(decision, p, used))

\* reviseDecision, for the same people
ReviseDecision ==
    /\ decision.status # "CLOSED"
    /\ Retirable(AfterNewContext(decision))
    /\ Step(AfterNewContext(decision))

IncludeDecisionGroupMembers(people) ==
    /\ decision.status \notin {"AGREED", "CLOSED"}
    /\ people # {} /\ people \intersect decision.roster = {}
    /\ Step(AfterJoin(decision, people))

CloseDecision == Step(AfterClose(decision))

OwnerStep(p) ==
    \/ ConfirmFrame(p) \/ ConfirmConstraints(p) \/ ConfirmPrivateAnswers(p)
    \/ \E allow \in BOOLEAN : AnswerNegotiation(p, allow) \/ DecideDisclosure(p, allow)
    \/ \E used \in BOOLEAN : RevokeNegotiation(p, used)
    \/ RevokeDisclosure(p)
    \/ ApproveProposal(p) \/ WithdrawApproval(p) \/ Reject(p)
RuntimeStep ==
    \/ \E p \in Participant : \/ AskNegotiation(p) \/ RequestDisclosure(p)
                              \/ PublishDisclosure(p) \/ Sweep(p)
    \/ StartReasoning \/ CompleteReasoning \/ CancelReasoning \/ AbandonPendingReasoning
CreatorStep ==
    \/ ReviseDecision \/ CloseDecision
    \/ \E people \in SUBSET Participant : IncludeDecisionGroupMembers(people)

Next == RuntimeStep \/ CreatorStep \/ \E p \in Participant : OwnerStep(p)
Spec == Init /\ [][Next]_vars

-----------------------------------------------------------------------------
(* Properties *)

\* The state item and the guard are well formed.
TypeOK ==
    /\ decision \in [
          roster : SUBSET Participant, frame : SUBSET Participant, ready : SUBSET Participant,
          status : Status,
          owner : [Participant ->
             [pending : 0..QuestionLimit, settled : 0..QuestionLimit, refused : 0..RetiredLimit,
              active : 0..PermissionLimit, ended : 0..PermissionLimit,
              asked : 0..PermissionLimit, granted : 0..PermissionLimit,
              closed : 0..PermissionLimit, approved : BOOLEAN]],
          retired : [Participant ->
             [refused : 0..RetiredLimit, negotiation : 0..RetiredLimit,
              disclosure : 0..RetiredLimit]],
          candidate : [held : BOOLEAN, rests : SUBSET Participant],
          superseded : 0..ArchiveLimit, agreements : 0..ArchiveLimit]
    /\ guard \in [ordinary : 0..OrdinaryLimit, permission : 0..HistoryLimit,
                  safety : 0..SafetyLimit, total : 0..TotalLimit]

\* Whoever is asked can answer, either way, and the repository records it: the
\* place is reserved when the question or the disclosure is put, also when the
\* ordinary receipts are used up by then (dynamodb.ts "PERMISSION_RECEIPT_LIMIT").
ResponsesAreReserved ==
    decision.status # "CLOSED" =>
        \A p \in decision.roster, allow \in BOOLEAN :
            /\ decision.owner[p].pending > 0 =>
                  /\ Answerable(p, allow)
                  /\ Admits(decision, AfterAnswer(decision, p, allow), "ANSWER_NEGOTIATION")
            /\ decision.owner[p].asked > 0 =>
                  Admits(decision, AfterDecide(decision, p, allow), "DECIDE_DISCLOSURE")

\* A permission, a disclosure not yet published and an approval can be taken
\* back at any time: the safety reserve lasts as long as there is any left,
\* however many receipts were spent before.
ConsentCanBeWithdrawn ==
    decision.status # "CLOSED" =>
        \A p \in decision.roster :
            /\ decision.owner[p].active > 0 => \A used \in MayUse(p) :
                  Admits(decision, AfterRevoke(decision, p, used), "REVOKE_NEGOTIATION")
            /\ decision.owner[p].granted > 0 =>
                  Admits(decision, AfterDisclosureEnds(decision, p), "REVOKE_DISCLOSURE")
            /\ decision.owner[p].approved =>
                  /\ decision.candidate.held
                  /\ Admits(decision, AfterWithdraw(decision, p), "WITHDRAW_APPROVAL")

\* What carries no receipt never disturbs the count: a read that sweeps, a join
\* and the verdict of a reasoning job are always stored.
StepsAreStored ==
    /\ \A p \in Participant :
          LET o == decision.owner[p]
          IN  /\ o.pending > 0 => AdmitsStep(decision, AfterQuestionExpires(decision, p))
              /\ o.asked > 0 => AdmitsStep(decision, AfterRequestExpires(decision, p))
              /\ o.granted > 0 => AdmitsStep(decision, AfterDisclosureEnds(decision, p))
              /\ o.active > 0 => \A used \in MayUse(p) :
                    AdmitsStep(decision, AfterExpiry(decision, p, used))
    /\ decision.status \notin {"AGREED", "CLOSED"} => \A people \in SUBSET Participant :
          AdmitsStep(decision, AfterJoin(decision, people))
    /\ decision.status = "REASONING" => AdmitsStep(decision, AfterProposal(decision, {}))

\* "Retained owner-scoped questions anchor every granted permission"
\* (known-enough.ts:548): an owner never holds more permissions than settled
\* questions, and a candidate rests on owners who still hold one.
PermissionsAreAnchored ==
    /\ \A o \in Owners(decision) : Negotiation(o) <= o.settled
    /\ \A p \in decision.candidate.rests : decision.owner[p].active > 0

\* Refusals, or a retired history that is full, are all that can keep answers
\* from being saved.
OnlyRefusalsBlockSaving ==
    \A p \in decision.roster :
        /\ decision.status \notin {"AGREED", "CLOSED"}
        /\ guard.ordinary < OrdinaryLimit
        /\ \A o \in Owners(decision) : o.refused = 0
        /\ RetiredFits(AfterSave(decision, p))
        => Admits(decision, AfterSave(decision, p), "CONFIRM_PRIVATE_ANSWERS")

\* "No matching outcome. You can edit your answers and try again."
\* (apps/web/src/decision-copy.ts:10)
AnswersCanBeEdited ==
    decision.status = "NO_AGREEMENT" /\ guard.ordinary < OrdinaryLimit =>
        \A p \in decision.roster :
            Admits(decision, AfterSave(decision, p), "CONFIRM_PRIVATE_ANSWERS")
=============================================================================
