-------------------------- MODULE DecisionLifecycle --------------------------
(***************************************************************************)
(* The life of one group decision, as KnownEnoughApplication runs it       *)
(* (packages/application/src/known-enough.ts).  One record is shared by    *)
(* the owners (participants), the creator, the AI runtime and the clock;   *)
(* every method of the class is one repository transaction, so every       *)
(* method is one action here and the hard part is their order.             *)
(* Definitions marked "Faulty variant" are no part of Spec: each is what a *)
(* plausible mistake would make of the definition after it.                *)
(*                                                                         *)
(* Data is reduced to what the rules tell apart.  The shared question has  *)
(* one public choice with values Option.  An owner's active constraints    *)
(* are the options the HARD rules leave (hard) and the options a           *)
(* NEGOTIABLE rule accepts without asking (neg); PREFERENCE constraints    *)
(* decide nothing and are left out.  The three tokens that rotate together *)
(* (semanticVersion, frameVersion, contextToken) are one number, context.  *)
(* A question and the permission it may grant are identified by the owner  *)
(* and the option asked about, under the owner's current constraints.      *)
(***************************************************************************)
EXTENDS Integers, FiniteSets

CONSTANTS
    Participant,   \* people who may be seated in the decision
    Optional,      \* people a definition lists as not required for approval
    Option,        \* options of the shared choice
    DraftTerms,    \* the condition records a model may draft for an owner
    Answer,        \* the option sets an owner may tick as acceptable
    MaxContext,    \* bound: semantic contexts of one decision
    MaxProposal    \* bound: published proposals of one decision

Terms == [hard : SUBSET Option, neg : SUBSET Option]

ASSUME BoundAssumption == MaxContext \in Nat \ {0} /\ MaxProposal \in Nat \ {0}
ASSUME DataAssumption == /\ Optional \subseteq Participant
                         /\ DraftTerms \subseteq Terms
                         /\ Answer \subseteq SUBSET Option

VARIABLES
    status,        \* decision.status
    context,       \* definition.contextToken / semanticVersion / frameVersion
    roster,        \* definition.participants
    required,      \* definition.requiredParticipantIds
    confirmed,     \* participants with a confirmation of the current frame
    readiness,     \* owner.readiness
    terms,         \* owner.confirmedConstraints with status ACTIVE
    draft,         \* owner.draft, and whether it is bound to ownerVersion
    question,      \* owner.pendingQuestions, by option asked about
    permission,    \* owner.negotiationPermissions, by option granted
    refused,       \* owner.refusedRequests for the current constraint version
    lapsed,        \* options whose question or permission is past expiresAt
    candidate,     \* decision.candidate and decision.publicProposal
    pending,       \* decision.pendingCandidate
    proposalVersion,
    approval,      \* owner.approval: the proposal version approved, 0 if null
    job,           \* decision.job: the context it is bound to, 0 if null
    agreements,    \* decision.agreementHistory
    fence          \* the controlVersion the AI runtime holds is the current one

frameVars    == <<context, roster, required, confirmed>>
ownerVars    == <<readiness, terms, draft>>
consentVars  == <<question, permission, refused, lapsed>>
proposalVars == <<candidate, pending, proposalVersion, approval, job, agreements>>
vars == <<status, frameVars, ownerVars, consentVars, proposalVars, fence>>

Live == {"PROPOSED", "APPROVING", "AGREED"}
Collecting == {"COLLECTING_FRAME_CONFIRMATION", "COLLECTING_PRIVATE_INPUT",
               "NEEDS_CLARIFICATION", "READY"}
Status == Live \union Collecting \union
          {"REASONING", "PRIVATE_NEGOTIATION", "NO_AGREEMENT", "SUPERSEDED", "CLOSED"}
Readiness == {"NOT_STARTED", "NEEDS_CLARIFICATION", "READY"}
QuestionStatus == {"NONE", "PENDING", "ALLOWED", "DECLINED", "EXPIRED", "SUPERSEDED"}
PermissionStatus == {"NONE", "ACTIVE", "REVOKED", "EXPIRED", "SUPERSEDED"}

NoConditions == [hard |-> Option, neg |-> Option]
\* bound: draft.ownerVersion is still owner.ownerVersion
Draft == [present : BOOLEAN, terms : Terms, unsupported : BOOLEAN, bound : BOOLEAN]
NoDraft == [present |-> FALSE, terms |-> NoConditions, unsupported |-> FALSE, bound |-> FALSE]
NewDraft(t, unsupported) ==
    [present |-> TRUE, terms |-> t, unsupported |-> unsupported, bound |-> TRUE]
Candidate == [version : 1..MaxProposal, context : 1..MaxContext, option : Option,
              deps : SUBSET (Participant \X Option)]
NoCandidate == [version |-> 0]

-----------------------------------------------------------------------------
(* Derived state *)

RequiredConfirmed == required \subseteq confirmed

\* Faulty variant: missing answers are not waited for.
ReadinessStatusEarly(need, conf, ready) ==
    IF ~(need \subseteq conf) THEN "COLLECTING_FRAME_CONFIRMATION"
    ELSE IF \E p \in Participant : ready[p] = "NEEDS_CLARIFICATION" THEN "NEEDS_CLARIFICATION"
    ELSE "READY"

\* readinessStatus, for the confirmations and readiness the step leaves behind
ReadinessStatus(need, conf, ready) ==
    IF ~(need \subseteq conf) THEN "COLLECTING_FRAME_CONFIRMATION"
    ELSE IF \E p \in Participant : ready[p] = "NEEDS_CLARIFICATION" THEN "NEEDS_CLARIFICATION"
    ELSE IF \E p \in need : ready[p] # "READY" THEN "COLLECTING_PRIVATE_INPUT"
    ELSE "READY"

SomePending(qs) == \E p \in Participant, o \in Option : qs[p][o] = "PENDING"

\* nothing for sweep() to expire: otherwise the sweep that opens every command
\* moves controlVersion past the one the command expects, and is rolled back
Swept == \A p \in Participant : \A o \in lapsed[p] :
            question[p][o] # "PENDING" /\ permission[p][o] # "ACTIVE"

\* an owner command reaches applyCommand
Command(p) == p \in roster /\ status # "CLOSED" /\ Swept

\* collectingIndependentAnswers
CollectingIndependentAnswers ==
    /\ status \in Collecting
    /\ job = 0 /\ pending = NoCandidate /\ candidate = NoCandidate
    /\ \A p \in Participant : approval[p] = 0

NoneAsked == [p \in Participant |-> [o \in Option |-> "NONE"]]
NoneRefused == [p \in Participant |-> {}]

(* Kernel verdict on an option and the permissions the candidate lists *)

Granted(p, o) == permission[p][o] = "ACTIVE" /\ o \notin lapsed[p]
Failing(o) == {p \in roster : o \notin terms[p].neg}
Unclear == \/ ~RequiredConfirmed
           \/ \E p \in required : readiness[p] # "READY"
           \/ \E p \in roster : draft[p].unsupported
Verdict(o, deps) ==
    IF \E p \in roster : o \notin terms[p].hard THEN "INVALID"
    ELSE IF Unclear THEN "NEEDS_CLARIFICATION"
    ELSE IF \/ deps # {<<p, o>> : p \in Failing(o)}
            \/ \E p \in Failing(o) : ~Granted(p, o) THEN "NEEDS_PERMISSION"
    ELSE "VALID"

-----------------------------------------------------------------------------
Init ==
    /\ status = "COLLECTING_FRAME_CONFIRMATION"
    /\ context = 1
    /\ roster \in (SUBSET Participant) \ {{}}
    /\ required = roster \ Optional
    /\ confirmed = {}
    /\ readiness = [p \in Participant |-> "NOT_STARTED"]
    /\ terms = [p \in Participant |-> NoConditions]
    /\ draft = [p \in Participant |-> NoDraft]
    /\ question = NoneAsked
    /\ permission = NoneAsked
    /\ refused = NoneRefused
    /\ lapsed = NoneRefused
    /\ candidate = NoCandidate
    /\ pending = NoCandidate
    /\ proposalVersion = 0
    /\ approval = [p \in Participant |-> 0]
    /\ job = 0
    /\ agreements = {}
    /\ fence = FALSE

\* Faulty variant: a retired proposal leaves its approvals.
RetireKeepingApprovals ==
    /\ candidate' = NoCandidate
    /\ pending' = NoCandidate
    /\ job' = 0
    /\ UNCHANGED <<proposalVersion, agreements, approval>>

(* retireCurrentProposal *)
RetireCurrentProposal ==
    /\ candidate' = NoCandidate
    /\ pending' = NoCandidate
    /\ approval' = [p \in Participant |-> 0]
    /\ job' = 0
    /\ UNCHANGED <<proposalVersion, agreements>>

SupersedeProposal == RetireCurrentProposal /\ status' = "SUPERSEDED"

-----------------------------------------------------------------------------
(* Owner commands *)

\* Faulty variant: a repeated confirmation computes the status anew.
ConfirmFrameAgain(p) ==
    /\ Command(p)
    /\ confirmed' = confirmed \union {p}
    /\ draft' = [draft EXCEPT ![p].bound = draft[p].present]
    /\ status' = ReadinessStatus(required, confirmed', readiness)
    /\ fence' = FALSE
    /\ UNCHANGED <<context, roster, required, readiness, terms, consentVars, proposalVars>>

\* CONFIRM_FRAME; a repeated confirmation only moves controlVersion
ConfirmFrame(p) ==
    /\ Command(p)
    /\ IF p \in confirmed
       THEN UNCHANGED <<status, confirmed, draft>>
       ELSE /\ confirmed' = confirmed \union {p}
            /\ draft' = [draft EXCEPT ![p].bound = draft[p].present]
            /\ status' = ReadinessStatus(required, confirmed', readiness)
    /\ fence' = FALSE
    /\ UNCHANGED <<context, roster, required, readiness, terms, consentVars, proposalVars>>

\* the constraints an owner may select from a draft: each rule or not
Selections(t) == [hard : {t.hard, Option}, neg : {t.neg, Option}]

\* CONFIRM_CONSTRAINTS of an owner who has confirmed none in this context
ConfirmFirstConstraints(p, chosen) ==
    /\ readiness[p] = "NOT_STARTED"
    /\ terms' = [terms EXCEPT ![p] = chosen]
    /\ readiness' = [readiness EXCEPT ![p] =
                        IF draft[p].unsupported THEN "NEEDS_CLARIFICATION" ELSE "READY"]
    /\ draft' = [draft EXCEPT ![p] = NoDraft]
    /\ refused' = [refused EXCEPT ![p] = {}]
    /\ status' = ReadinessStatus(required, confirmed, readiness')
    /\ UNCHANGED <<context, confirmed, question, permission, lapsed>>

\* CONFIRM_CONSTRAINTS as a revision: invalidateConfirmedContext rotates the
\* context and turns every owner's answers back into a draft to review
InvalidateConfirmedContext(p, chosen) ==
    /\ readiness[p] # "NOT_STARTED"
    /\ context < MaxContext
    /\ context' = context + 1
    /\ confirmed' = {}
    /\ readiness' = [q \in Participant |-> "NOT_STARTED"]
    /\ terms' = [q \in Participant |-> NoConditions]
    /\ draft' = [q \in Participant |->
                  IF q \notin roster THEN NoDraft
                  ELSE NewDraft(IF q = p THEN chosen
                                ELSE IF draft[q].present THEN draft[q].terms ELSE terms[q],
                                draft[q].unsupported)]
    /\ question' = NoneAsked
    /\ permission' = NoneAsked
    /\ refused' = NoneRefused
    /\ lapsed' = NoneRefused
    /\ status' = ReadinessStatus(required, {}, readiness')

ConfirmConstraints(p) ==
    /\ Command(p)
    /\ RequiredConfirmed
    /\ draft[p].present /\ draft[p].bound
    /\ RetireCurrentProposal
    /\ \E chosen \in Selections(draft[p].terms) :
          \/ ConfirmFirstConstraints(p, chosen)
          \/ InvalidateConfirmedContext(p, chosen)
    /\ fence' = FALSE
    /\ UNCHANGED <<roster, required>>

\* what CONFIRM_PRIVATE_ANSWERS assembles from the ticked options, the owner's
\* retained constraints and, unless it replaces it, the draft under review.
\* Bound: at most one NEGOTIABLE rule per owner.
SavedTerms(p, ticked, retained, fromDraft) ==
    [hard |-> ticked \intersect retained.hard \intersect fromDraft.hard,
     neg  |-> IF retained.neg = Option THEN fromDraft.neg ELSE retained.neg]

\* CONFIRM_PRIVATE_ANSWERS: CONFIRM_CONSTRAINTS and CONFIRM_FRAME in one
\* transaction, without rotating the context.  Every question and permission of
\* every owner is retired; refusedRequests of the other owners are kept, and the
\* saver's bind to constraint versions that are no longer active.
\* It is the one command that may cross a controlVersion it has not seen.
ConfirmPrivateAnswers(p) ==
    /\ p \in roster
    /\ status \notin {"AGREED", "CLOSED"}
    /\ Swept \/ CollectingIndependentAnswers
    /\ draft[p].present => draft[p].bound
    /\ \E ticked \in Answer, none, replace \in BOOLEAN,
          retained \in Selections(terms[p]), fromDraft \in Selections(draft[p].terms) :
          /\ replace => fromDraft = NoConditions
          /\ retained.neg = Option \/ fromDraft.neg = Option
          /\ LET unsupported == none \/ (~replace /\ draft[p].unsupported)
             IN  /\ terms' = [terms EXCEPT ![p] = SavedTerms(p, ticked, retained, fromDraft)]
                 /\ readiness' = [readiness EXCEPT ![p] =
                                    IF unsupported THEN "NEEDS_CLARIFICATION" ELSE "READY"]
                 /\ draft' = [draft EXCEPT ![p] =
                                IF unsupported THEN NewDraft(NoConditions, TRUE) ELSE NoDraft]
    /\ RetireCurrentProposal
    /\ confirmed' = confirmed \union {p}
    /\ question' = NoneAsked
    /\ permission' = NoneAsked
    /\ refused' = [refused EXCEPT ![p] = {}]
    /\ lapsed' = NoneRefused
    /\ status' = ReadinessStatus(required, confirmed', readiness')
    /\ fence' = FALSE
    /\ UNCHANGED <<context, roster, required>>

\* Faulty variant: any answer grants the permission.
AnswerNegotiationGrants(p, o, allow) ==
    /\ Command(p)
    /\ question[p][o] = "PENDING" /\ o \notin lapsed[p]
    /\ o \notin terms[p].neg
    /\ question' = [question EXCEPT ![p][o] = IF allow THEN "ALLOWED" ELSE "DECLINED"]
    /\ permission' = [permission EXCEPT ![p][o] = "ACTIVE"]
    /\ refused' = [refused EXCEPT ![p] = IF allow THEN @ ELSE @ \union {o}]
    /\ status' = IF SomePending(question') THEN "PRIVATE_NEGOTIATION"
                 ELSE ReadinessStatus(required, confirmed, readiness)
    /\ fence' = FALSE
    /\ UNCHANGED <<frameVars, ownerVars, lapsed, proposalVars>>

\* ANSWER_NEGOTIATION
AnswerNegotiation(p, o, allow) ==
    /\ Command(p)
    /\ question[p][o] = "PENDING" /\ o \notin lapsed[p]
    /\ o \notin terms[p].neg
    /\ question' = [question EXCEPT ![p][o] = IF allow THEN "ALLOWED" ELSE "DECLINED"]
    /\ permission' = [permission EXCEPT ![p][o] = IF allow THEN "ACTIVE" ELSE @]
    /\ refused' = [refused EXCEPT ![p] = IF allow THEN @ ELSE @ \union {o}]
    /\ status' = IF SomePending(question') THEN "PRIVATE_NEGOTIATION"
                 ELSE ReadinessStatus(required, confirmed, readiness)
    /\ fence' = FALSE
    /\ UNCHANGED <<frameVars, ownerVars, lapsed, proposalVars>>

\* REVOKE_NEGOTIATION
RevokeNegotiation(p, o) ==
    /\ Command(p)
    /\ permission[p][o] = "ACTIVE"
    /\ permission' = [permission EXCEPT ![p][o] = "REVOKED"]
    /\ IF candidate # NoCandidate /\ <<p, o>> \in candidate.deps
       THEN SupersedeProposal
       ELSE UNCHANGED <<status, proposalVars>>
    /\ fence' = FALSE
    /\ UNCHANGED <<frameVars, ownerVars, question, refused, lapsed>>

\* currentApprovals
CurrentApprovals(ap) == {p \in roster : ap[p] = candidate.version}

\* APPROVE_PROPOSAL: names the exact current proposal; bumps ownerVersion, so a
\* draft the owner has under review is no longer bound
ApproveProposal(p) ==
    /\ Command(p)
    /\ candidate # NoCandidate /\ candidate.context = context
    /\ p \in required
    /\ approval' = [approval EXCEPT ![p] = candidate.version]
    /\ draft' = [draft EXCEPT ![p].bound = FALSE]
    /\ IF required \subseteq CurrentApprovals(approval')
       THEN /\ status' = "AGREED"
            /\ agreements' = agreements \union
                  {[proposal |-> candidate, approvers |-> {q \in roster : approval'[q] # 0}]}
       ELSE status' = "APPROVING" /\ UNCHANGED agreements
    /\ fence' = FALSE
    /\ UNCHANGED <<frameVars, readiness, terms, consentVars, candidate, pending,
                   proposalVersion, job>>

\* Faulty variant: the status does not follow the withdrawal.
WithdrawApprovalSilently(p) ==
    /\ Command(p)
    /\ candidate # NoCandidate /\ approval[p] # 0
    /\ approval' = [approval EXCEPT ![p] = 0]
    /\ draft' = [draft EXCEPT ![p].bound = FALSE]
    /\ fence' = FALSE
    /\ UNCHANGED <<status, frameVars, readiness, terms, consentVars, candidate, pending,
                   proposalVersion, job, agreements>>

\* WITHDRAW_APPROVAL
WithdrawApproval(p) ==
    /\ Command(p)
    /\ candidate # NoCandidate /\ approval[p] # 0
    /\ approval' = [approval EXCEPT ![p] = 0]
    /\ draft' = [draft EXCEPT ![p].bound = FALSE]
    /\ status' = IF CurrentApprovals(approval') # {} THEN "APPROVING" ELSE "PROPOSED"
    /\ fence' = FALSE
    /\ UNCHANGED <<frameVars, readiness, terms, consentVars, candidate, pending,
                   proposalVersion, job, agreements>>

-----------------------------------------------------------------------------
(* The clock, and the sweep of expired consent that every snapshot read runs *)

Lapse(p, o) ==
    /\ o \notin lapsed[p]
    /\ question[p][o] = "PENDING" \/ permission[p][o] = "ACTIVE"
    /\ lapsed' = [lapsed EXCEPT ![p] = @ \union {o}]
    /\ UNCHANGED <<status, frameVars, ownerVars, question, permission, refused,
                   proposalVars, fence>>

\* Faulty variant: expired permissions do not take the proposal with them.
SweepQuestionsOnly ==
    /\ ~Swept
    /\ question' = [p \in Participant |-> [o \in Option |->
          IF question[p][o] = "PENDING" /\ o \in lapsed[p] THEN "EXPIRED" ELSE question[p][o]]]
    /\ permission' = [p \in Participant |-> [o \in Option |->
          IF permission[p][o] = "ACTIVE" /\ o \in lapsed[p] THEN "EXPIRED" ELSE permission[p][o]]]
    /\ lapsed' = NoneRefused
    /\ status' = IF status = "PRIVATE_NEGOTIATION" /\ ~SomePending(question')
                 THEN ReadinessStatus(required, confirmed, readiness) ELSE status
    /\ fence' = FALSE
    /\ UNCHANGED <<frameVars, ownerVars, refused, proposalVars>>

Sweep ==
    /\ ~Swept
    /\ question' = [p \in Participant |-> [o \in Option |->
          IF question[p][o] = "PENDING" /\ o \in lapsed[p] THEN "EXPIRED" ELSE question[p][o]]]
    /\ permission' = [p \in Participant |-> [o \in Option |->
          IF permission[p][o] = "ACTIVE" /\ o \in lapsed[p] THEN "EXPIRED" ELSE permission[p][o]]]
    /\ lapsed' = NoneRefused
    /\ IF candidate # NoCandidate /\ \E d \in candidate.deps : permission'[d[1]][d[2]] # "ACTIVE"
       THEN SupersedeProposal
       ELSE /\ status' = IF status = "PRIVATE_NEGOTIATION" /\ ~SomePending(question')
                         THEN ReadinessStatus(required, confirmed, readiness) ELSE status
            /\ UNCHANGED proposalVars
    /\ fence' = FALSE
    /\ UNCHANGED <<frameVars, ownerVars, refused>>

-----------------------------------------------------------------------------
(* The AI runtime *)

\* storeConstraintDraft, called under the guard of OwnerConversationArchitect:
\* the frame is confirmed by the owner and by everyone required, in a snapshot
\* whose controlVersion is still current
StoreConstraintDraft(p) ==
    /\ p \in roster \intersect confirmed
    /\ RequiredConfirmed
    /\ \E t \in DraftTerms, unsupported \in BOOLEAN :
          /\ draft' = [draft EXCEPT ![p] = NewDraft(t, unsupported)]
          /\ status' = IF candidate # NoCandidate THEN status
                       ELSE IF unsupported THEN "NEEDS_CLARIFICATION"
                       ELSE "COLLECTING_PRIVATE_INPUT"
    /\ fence' = FALSE
    /\ UNCHANGED <<frameVars, readiness, terms, consentVars, proposalVars>>

\* startReasoning
StartReasoning ==
    /\ status \in {"READY", "SUPERSEDED", "NO_AGREEMENT"}
    /\ RequiredConfirmed
    /\ \A p \in required : readiness[p] = "READY"
    /\ job = 0
    /\ job' = context
    /\ status' = "REASONING"
    /\ fence' = FALSE
    /\ UNCHANGED <<frameVars, ownerVars, consentVars, candidate, pending,
                   proposalVersion, approval, agreements>>

\* getReasoningContext: the runtime takes the controlVersion it will commit under
GetReasoningContext ==
    /\ job = context /\ status = "REASONING"
    /\ fence' = TRUE
    /\ UNCHANGED <<status, frameVars, ownerVars, consentVars, proposalVars>>

\* completeReasoning: the kernel judges the candidate against the state as it is now
CompleteReasoning(o, deps) ==
    /\ job = context /\ status = "REASONING" /\ fence
    /\ \A d \in deps : Granted(d[1], d[2])
    /\ proposalVersion < MaxProposal
    /\ job' = 0
    /\ LET verdict == Verdict(o, deps)
           offered == [version |-> proposalVersion + 1, context |-> job,
                       option |-> o, deps |-> deps]
       IN  \/ /\ verdict = "VALID"
              /\ candidate' = offered
              /\ pending' = NoCandidate
              /\ proposalVersion' = offered.version
              /\ approval' = [p \in Participant |-> 0]
              /\ status' = "PROPOSED"
           \/ /\ verdict # "VALID"
              /\ candidate' = NoCandidate
              /\ pending' = IF verdict = "INVALID" THEN NoCandidate ELSE offered
              /\ status' = CASE verdict = "NEEDS_PERMISSION" -> "PRIVATE_NEGOTIATION"
                              [] verdict = "NEEDS_CLARIFICATION" -> "NEEDS_CLARIFICATION"
                              [] verdict = "INVALID" -> "NO_AGREEMENT"
              /\ UNCHANGED <<proposalVersion, approval>>
    /\ UNCHANGED <<frameVars, ownerVars, consentVars, agreements, fence>>

\* cancelReasoning
CancelReasoning ==
    /\ job # 0 /\ status = "REASONING"
    /\ job' = 0
    /\ status' = ReadinessStatus(required, confirmed, readiness)
    /\ fence' = FALSE
    /\ UNCHANGED <<frameVars, ownerVars, consentVars, candidate, pending,
                   proposalVersion, approval, agreements>>

\* Faulty variant: refusals are not looked at.
AskNegotiationAgain(p) ==
    /\ status = "PRIVATE_NEGOTIATION" /\ fence
    /\ candidate = NoCandidate /\ pending # NoCandidate
    /\ RequiredConfirmed
    /\ LET o == pending.option
       IN  /\ p \in Failing(o)
           /\ question[p][o] = "NONE"
           /\ question' = [question EXCEPT ![p][o] = "PENDING"]
    /\ job' = 0
    /\ status' = "PRIVATE_NEGOTIATION"
    /\ UNCHANGED <<frameVars, ownerVars, permission, refused, lapsed, candidate, pending,
                   proposalVersion, approval, agreements, fence>>

\* askNegotiation, for a target of getPendingNegotiationFailures, under the
\* controlVersion left by completeReasoning and the questions already asked
AskNegotiation(p) ==
    /\ status = "PRIVATE_NEGOTIATION" /\ fence
    /\ candidate = NoCandidate /\ pending # NoCandidate
    /\ RequiredConfirmed
    /\ LET o == pending.option
       IN  /\ p \in Failing(o)
           /\ o \notin refused[p]
           /\ question[p][o] = "NONE"
           /\ question' = [question EXCEPT ![p][o] = "PENDING"]
    /\ job' = 0
    /\ status' = "PRIVATE_NEGOTIATION"
    /\ UNCHANGED <<frameVars, ownerVars, permission, refused, lapsed, candidate, pending,
                   proposalVersion, approval, agreements, fence>>

\* abandonPendingReasoning
AbandonPendingReasoning ==
    /\ status = "PRIVATE_NEGOTIATION"
    /\ pending # NoCandidate /\ pending.context = context
    /\ job = 0
    /\ ~SomePending(question)
    /\ pending' = NoCandidate
    /\ status' = ReadinessStatus(required, confirmed, readiness)
    /\ fence' = FALSE
    /\ UNCHANGED <<frameVars, ownerVars, consentVars, candidate, proposalVersion,
                   approval, job, agreements>>

-----------------------------------------------------------------------------
(* The creator and the group *)

\* reviseDecision with a material change: a new context with empty owners
ReviseDecision(people) ==
    /\ status # "CLOSED"
    /\ context < MaxContext
    /\ context' = context + 1
    /\ roster' = people
    /\ required' = people \ Optional
    /\ confirmed' = {}
    /\ readiness' = [p \in Participant |-> "NOT_STARTED"]
    /\ terms' = [p \in Participant |-> NoConditions]
    /\ draft' = [p \in Participant |-> NoDraft]
    /\ question' = NoneAsked
    /\ permission' = NoneAsked
    /\ refused' = NoneRefused
    /\ lapsed' = NoneRefused
    /\ RetireCurrentProposal
    /\ status' = "COLLECTING_FRAME_CONFIRMATION"
    /\ fence' = FALSE

\* includeDecisionGroupMembers: people join, answers and context stay, every
\* consent and approval given for the smaller roster is superseded
IncludeDecisionGroupMembers(people) ==
    /\ status \notin {"AGREED", "CLOSED"}
    /\ roster' = roster \union people
    /\ required' = required \union people
    /\ RetireCurrentProposal
    /\ question' = [p \in Participant |-> [o \in Option |->
          IF question[p][o] = "PENDING" THEN "SUPERSEDED" ELSE question[p][o]]]
    /\ permission' = [p \in Participant |-> [o \in Option |->
          IF permission[p][o] = "ACTIVE" THEN "SUPERSEDED" ELSE permission[p][o]]]
    /\ lapsed' = NoneRefused
    /\ status' = ReadinessStatus(required', confirmed, readiness)
    /\ fence' = FALSE
    /\ UNCHANGED <<context, confirmed, ownerVars, refused>>

\* closeDecision
CloseDecision ==
    /\ RetireCurrentProposal
    /\ status' = "CLOSED"
    /\ fence' = FALSE
    /\ UNCHANGED <<frameVars, ownerVars, consentVars>>

-----------------------------------------------------------------------------
OwnerStep ==
    \/ \E p \in Participant :
          \/ ConfirmFrame(p)
          \/ ConfirmConstraints(p)
          \/ ConfirmPrivateAnswers(p)
          \/ ApproveProposal(p)
          \/ WithdrawApproval(p)
    \/ \E p \in Participant, o \in Option :
          \/ \E allow \in BOOLEAN : AnswerNegotiation(p, o, allow)
          \/ RevokeNegotiation(p, o)

RuntimeStep ==
    \/ \E p \in Participant : StoreConstraintDraft(p) \/ AskNegotiation(p)
    \/ StartReasoning \/ GetReasoningContext \/ CancelReasoning
    \/ \E o \in Option, deps \in SUBSET (Participant \X Option) : CompleteReasoning(o, deps)
    \/ AbandonPendingReasoning

ClockStep == Sweep \/ \E p \in Participant, o \in Option : Lapse(p, o)

CreatorStep ==
    \/ \E people \in (SUBSET Participant) \ {{}} : ReviseDecision(people)
    \/ \E people \in (SUBSET (Participant \ roster)) \ {{}} : IncludeDecisionGroupMembers(people)
    \/ CloseDecision

Next == OwnerStep \/ RuntimeStep \/ ClockStep \/ CreatorStep

Spec == Init /\ [][Next]_vars

-----------------------------------------------------------------------------
(* Type invariant: every variable of the decision record stays in its domain. *)
FrameTypeOK ==
    /\ context \in 1..MaxContext
    /\ roster \subseteq Participant /\ required \subseteq roster /\ confirmed \subseteq roster
OwnerTypeOK ==
    /\ readiness \in [Participant -> Readiness]
    /\ terms \in [Participant -> Terms]
    /\ draft \in [Participant -> Draft]
ConsentTypeOK ==
    /\ question \in [Participant -> [Option -> QuestionStatus]]
    /\ permission \in [Participant -> [Option -> PermissionStatus]]
    /\ refused \in [Participant -> SUBSET Option]
    /\ lapsed \in [Participant -> SUBSET Option]
ProposalTypeOK ==
    /\ candidate \in Candidate \union {NoCandidate}
    /\ pending \in Candidate \union {NoCandidate}
    /\ proposalVersion \in 0..MaxProposal
    /\ approval \in [Participant -> 0..MaxProposal]
    /\ job \in 0..MaxContext
    /\ agreements \subseteq [proposal : Candidate, approvers : SUBSET Participant]
TypeOK ==
    /\ status \in Status /\ fence \in BOOLEAN
    /\ FrameTypeOK /\ OwnerTypeOK /\ ConsentTypeOK /\ ProposalTypeOK

\* Only an active proposal state carries a proposal (the codec and the public
\* snapshot refuse a record where this fails).
ProposalMatchesStatus == status \in Live <=> candidate # NoCandidate

\* An outcome is AGREED only while every required participant's approval of
\* exactly this proposal stands; a proposal that is only PROPOSED has none.
AgreementIsUnanimous ==
    /\ status = "AGREED" => \A p \in required : approval[p] = candidate.version
    /\ status = "PROPOSED" => \A p \in Participant : approval[p] = 0

\* No approval outlives the proposal, the context or the roster it was given for.
ApprovalsAreCurrent ==
    \A p \in Participant : approval[p] # 0 =>
        /\ candidate # NoCandidate /\ candidate.context = context
        /\ approval[p] = candidate.version
        /\ p \in required

\* As long as a proposal can be approved it meets every owner's confirmed
\* conditions: all HARD ones, and a NEGOTIABLE one only by a permission that
\* its owner granted for that option and has not taken back.
ProposalHonoursConditions ==
    candidate # NoCandidate =>
        \A p \in roster :
            /\ candidate.option \in terms[p].hard
            /\ \/ candidate.option \in terms[p].neg
               \/ /\ <<p, candidate.option>> \in candidate.deps
                  /\ permission[p][candidate.option] = "ACTIVE"

\* Reasoning, negotiation and proposals rest on complete input: everyone required
\* has confirmed the current frame and saved answers that need no clarification.
InputComplete == RequiredConfirmed /\ \A p \in required : readiness[p] = "READY"
ProposalRestsOnCompleteInput ==
    status \in Live \union {"READY", "REASONING", "PRIVATE_NEGOTIATION"} => InputComplete

\* While an owner is being asked for an adjustment nothing else is decided: the
\* answers the question is about stay complete, no proposal stands, no job runs,
\* and no status from which one could start is reached.
QuestionsHoldTheDecision ==
    SomePending(question) =>
        /\ InputComplete
        /\ candidate = NoCandidate /\ job = 0
        /\ status \notin Live \union {"READY", "REASONING", "SUPERSEDED", "NO_AGREEMENT"}

\* While a job runs no proposal stands and nobody is being asked; the job is
\* always bound to the current context.
JobRunsAlone ==
    job # 0 => /\ job = context
               /\ candidate = NoCandidate
               /\ ~SomePending(question)
               /\ status # "CLOSED"

\* A question that is open is about a condition the owner still holds, and was
\* not refused before under the same constraint version: an owner who declined
\* is never asked the same again, whatever the other participants save.
RefusalIsRespected ==
    \A p \in Participant, o \in Option : question[p][o] = "PENDING" =>
        o \notin refused[p] /\ o \notin terms[p].neg

\* A granted permission answers a question the owner allowed, about a condition
\* the owner still holds.
PermissionHasConsent ==
    \A p \in Participant, o \in Option : permission[p][o] = "ACTIVE" =>
        p \in roster /\ question[p][o] = "ALLOWED" /\ o \notin terms[p].neg

(***************************************************************************)
(* The lifecycle implements DecisionAgreement: candidates are offers,      *)
(* exact current approvals are votes, agreementHistory is the record of    *)
(* outcomes.                                                               *)
(***************************************************************************)

StandingBy == IF candidate = NoCandidate THEN {}
              ELSE {p \in Participant : approval[p] = candidate.version}

Agreement == INSTANCE DecisionAgreement WITH
    Voter <- Participant,
    offer <- candidate.version,
    last <- proposalVersion,
    electorate <- required,
    votes <- StandingBy,
    agreed <- (status = "AGREED"),
    outcomes <- {[offer |-> a.proposal.version, voters |-> a.approvers] : a \in agreements}

\* Every step of the decision is a step of the abstract agreement or leaves it
\* unchanged: approvals are never counted for another proposal or roster, and
\* nothing but the participants' own votes makes or unmakes an agreement.
ImplementsAgreement == Agreement!Spec

=============================================================================
