------------------------ MODULE DecisionSafetyProofs ------------------------
(***************************************************************************)
(* Proofs about DecisionLifecycle, for every set of people and options and *)
(* every bound: every record is well typed, and agreement and consent are  *)
(* safe in every decision whose participants are all required.             *)
(*                                                                         *)
(* None of the properties is inductive alone: that an approval is current  *)
(* rests on the status, the status on the job, and the job on the absence  *)
(* of open questions.  SafetyInv is their conjunction.  The last part is   *)
(* about the implementation of DecisionAgreement.                          *)
(***************************************************************************)
EXTENDS DecisionViews, TLAPS

-----------------------------------------------------------------------------
(* Type correctness *)

\* The status computed from confirmations and readiness is a collecting status.
LEMMA ReadinessStatusType ==
    ASSUME NEW need, NEW conf, NEW ready
    PROVE  /\ ReadinessStatus(need, conf, ready) \in Collecting
           /\ ReadinessStatus(need, conf, ready) \in Status
  BY DEF ReadinessStatus, Collecting, Status

\* Every status a step names is a status.
LEMMA StatusNames ==
    {"SUPERSEDED", "CLOSED", "REASONING", "PRIVATE_NEGOTIATION", "NO_AGREEMENT",
     "PROPOSED", "APPROVING", "AGREED", "NEEDS_CLARIFICATION",
     "COLLECTING_PRIVATE_INPUT", "COLLECTING_FRAME_CONFIRMATION"} \subseteq Status
  BY DEF Status, Live, Collecting

\* The empty values have their types.
LEMMA EmptyTypes ==
    /\ NoConditions \in Terms
    /\ NoDraft \in Draft
    /\ NoneAsked \in [Participant -> [Option -> QuestionStatus]]
    /\ NoneAsked \in [Participant -> [Option -> PermissionStatus]]
    /\ NoneRefused \in [Participant -> SUBSET Option]
  <1>1. NoConditions \in Terms
    BY DEF NoConditions, Terms
  <1>2. NoDraft \in Draft
    BY <1>1 DEF NoDraft, Draft
  <1> QED
    BY <1>1, <1>2 DEF NoneAsked, NoneRefused, QuestionStatus, PermissionStatus

\* A draft made of an owner's conditions is a draft.
LEMMA NewDraftType ==
    ASSUME NEW t \in Terms, NEW u \in BOOLEAN
    PROVE  NewDraft(t, u) \in Draft
  BY DEF NewDraft, Draft

\* A step that leaves a group of variables alone leaves its type alone.
LEMMA UnchangedTypes ==
    /\ FrameTypeOK /\ UNCHANGED frameVars => FrameTypeOK'
    /\ OwnerTypeOK /\ UNCHANGED ownerVars => OwnerTypeOK'
    /\ ConsentTypeOK /\ UNCHANGED consentVars => ConsentTypeOK'
    /\ ProposalTypeOK /\ UNCHANGED proposalVars => ProposalTypeOK'
  BY DEF FrameTypeOK, OwnerTypeOK, ConsentTypeOK, ProposalTypeOK,
         frameVars, ownerVars, consentVars, proposalVars

\* Retiring the current proposal keeps the proposal variables typed.
LEMMA RetireType ==
    ASSUME ProposalTypeOK, RetireCurrentProposal
    PROVE  ProposalTypeOK'
  BY BoundAssumption DEF ProposalTypeOK, RetireCurrentProposal

LEMMA InitType == Init => TypeOK
  <1> SUFFICES ASSUME Init PROVE TypeOK
    OBVIOUS
  <1>1. status \in Status /\ fence \in BOOLEAN
    BY StatusNames DEF Init
  <1>2. FrameTypeOK
    BY BoundAssumption DEF Init, FrameTypeOK
  <1>3. OwnerTypeOK
    BY EmptyTypes DEF Init, OwnerTypeOK, Readiness
  <1>4. ConsentTypeOK
    BY EmptyTypes DEF Init, ConsentTypeOK
  <1>5. ProposalTypeOK
    BY BoundAssumption DEF Init, ProposalTypeOK
  <1> QED
    BY <1>1, <1>2, <1>3, <1>4, <1>5 DEF TypeOK

LEMMA ConfirmFrameType ==
    ASSUME TypeOK, NEW p \in Participant, ConfirmFrame(p)
    PROVE  TypeOK'
  <1>1. status' \in Status
    <2>1. ReadinessStatus(required, confirmed', readiness) \in Status
      BY ReadinessStatusType
    <2> QED
      BY <2>1 DEF ConfirmFrame, TypeOK
  <1>0. fence' \in BOOLEAN
    BY DEF ConfirmFrame
  <1>2. FrameTypeOK'
    BY DEF ConfirmFrame, Command, TypeOK, FrameTypeOK
  <1>3. OwnerTypeOK'
    BY DEF ConfirmFrame, TypeOK, OwnerTypeOK, Draft
  <1>4. ConsentTypeOK' /\ ProposalTypeOK'
    BY UnchangedTypes DEF ConfirmFrame, TypeOK
  <1> QED
    BY <1>0, <1>1, <1>2, <1>3, <1>4 DEF TypeOK

LEMMA ConfirmConstraintsType ==
    ASSUME TypeOK, NEW p \in Participant, ConfirmConstraints(p)
    PROVE  TypeOK'
  <1>1. PICK chosen \in Selections(draft[p].terms) :
           ConfirmFirstConstraints(p, chosen) \/ InvalidateConfirmedContext(p, chosen)
    BY DEF ConfirmConstraints
  <1>2. chosen \in Terms
    BY DEF Selections, TypeOK, OwnerTypeOK, Draft, Terms
  <1>3. ProposalTypeOK' /\ fence' \in BOOLEAN
    BY RetireType DEF ConfirmConstraints, TypeOK
  <1>4. status' \in Status
    BY <1>1, ReadinessStatusType DEF ConfirmFirstConstraints, InvalidateConfirmedContext
  <1>5. CASE ConfirmFirstConstraints(p, chosen)
    <2>1. FrameTypeOK'
      BY <1>5 DEF ConfirmFirstConstraints, ConfirmConstraints, TypeOK, FrameTypeOK
    <2>2. OwnerTypeOK'
      BY <1>2, <1>5, EmptyTypes DEF ConfirmFirstConstraints, TypeOK, OwnerTypeOK, Readiness
    <2>3. ConsentTypeOK'
      BY <1>5 DEF ConfirmFirstConstraints, TypeOK, ConsentTypeOK
    <2> QED
      BY <1>3, <1>4, <2>1, <2>2, <2>3 DEF TypeOK
  <1>6. CASE InvalidateConfirmedContext(p, chosen)
    <2>1. FrameTypeOK'
      BY <1>6, BoundAssumption
      DEF InvalidateConfirmedContext, ConfirmConstraints, TypeOK, FrameTypeOK
    <2>2. draft' \in [Participant -> Draft]
      BY <1>2, <1>6, EmptyTypes, NewDraftType
      DEF InvalidateConfirmedContext, TypeOK, OwnerTypeOK, Draft
    <2>3. OwnerTypeOK'
      BY <1>6, <2>2, EmptyTypes DEF InvalidateConfirmedContext, OwnerTypeOK, Readiness
    <2>4. ConsentTypeOK'
      BY <1>6, EmptyTypes DEF InvalidateConfirmedContext, ConsentTypeOK
    <2> QED
      BY <1>3, <1>4, <2>1, <2>3, <2>4 DEF TypeOK
  <1> QED BY <1>1, <1>5, <1>6

LEMMA ConfirmPrivateAnswersType ==
    ASSUME TypeOK, NEW p \in Participant, ConfirmPrivateAnswers(p)
    PROVE  TypeOK'
  <1>1. ProposalTypeOK' /\ fence' \in BOOLEAN
    BY RetireType DEF ConfirmPrivateAnswers, TypeOK
  <1>2. status' \in Status
    <2>1. ReadinessStatus(required, confirmed', readiness') \in Status
      BY ReadinessStatusType
    <2> QED
      BY <2>1 DEF ConfirmPrivateAnswers
  <1>3. FrameTypeOK'
    BY DEF ConfirmPrivateAnswers, TypeOK, FrameTypeOK
  <1>4. ConsentTypeOK'
    BY EmptyTypes DEF ConfirmPrivateAnswers, TypeOK, ConsentTypeOK
  <1>5. OwnerTypeOK'
    <2>1. PICK ticked \in Answer, none \in BOOLEAN, replace \in BOOLEAN,
               retained \in Selections(terms[p]), fromDraft \in Selections(draft[p].terms) :
            LET unsupported == none \/ (~replace /\ draft[p].unsupported)
            IN  /\ terms' = [terms EXCEPT ![p] = SavedTerms(p, ticked, retained, fromDraft)]
                /\ readiness' = [readiness EXCEPT ![p] =
                                   IF unsupported THEN "NEEDS_CLARIFICATION" ELSE "READY"]
                /\ draft' = [draft EXCEPT ![p] =
                               IF unsupported THEN NewDraft(NoConditions, TRUE) ELSE NoDraft]
      BY DEF ConfirmPrivateAnswers
    <2>2. terms[p] \in Terms /\ draft[p] \in Draft
      BY DEF TypeOK, OwnerTypeOK
    <2>3. retained \in Terms /\ fromDraft \in Terms
      BY <2>2 DEF Selections, Terms, Draft
    <2>4. SavedTerms(p, ticked, retained, fromDraft) \in Terms
      BY <2>3, DataAssumption DEF SavedTerms, Terms
    <2>5. terms' \in [Participant -> Terms]
      BY <2>1, <2>4 DEF TypeOK, OwnerTypeOK
    <2>6. readiness' \in [Participant -> Readiness]
      BY <2>1 DEF TypeOK, OwnerTypeOK, Readiness
    <2>7. NewDraft(NoConditions, TRUE) \in Draft
      BY NewDraftType, EmptyTypes
    <2>8. draft' \in [Participant -> Draft]
      BY <2>1, <2>7, EmptyTypes DEF TypeOK, OwnerTypeOK
    <2> QED
      BY <2>5, <2>6, <2>8 DEF OwnerTypeOK
  <1> QED
    BY <1>1, <1>2, <1>3, <1>4, <1>5 DEF TypeOK

LEMMA AnswerNegotiationType ==
    ASSUME TypeOK, NEW p \in Participant, NEW o \in Option, NEW allow \in BOOLEAN,
           AnswerNegotiation(p, o, allow)
    PROVE  TypeOK'
  <1>1. status' \in Status /\ fence' \in BOOLEAN
    <2>1. ReadinessStatus(required, confirmed, readiness) \in Status
      BY ReadinessStatusType
    <2> QED
      BY <2>1, StatusNames DEF AnswerNegotiation
  <1>2. FrameTypeOK' /\ OwnerTypeOK' /\ ProposalTypeOK'
    BY UnchangedTypes DEF AnswerNegotiation, TypeOK
  <1>3. ConsentTypeOK'
    BY DEF AnswerNegotiation, TypeOK, ConsentTypeOK, QuestionStatus, PermissionStatus
  <1> QED
    BY <1>1, <1>2, <1>3 DEF TypeOK

LEMMA RevokeNegotiationType ==
    ASSUME TypeOK, NEW p \in Participant, NEW o \in Option, RevokeNegotiation(p, o)
    PROVE  TypeOK'
  <1>1. status' \in Status /\ ProposalTypeOK'
    BY UnchangedTypes, RetireType, StatusNames DEF RevokeNegotiation, SupersedeProposal, TypeOK
  <1>2. FrameTypeOK' /\ OwnerTypeOK' /\ fence' \in BOOLEAN
    BY UnchangedTypes DEF RevokeNegotiation, TypeOK
  <1>3. ConsentTypeOK'
    BY DEF RevokeNegotiation, TypeOK, ConsentTypeOK, PermissionStatus
  <1> QED
    BY <1>1, <1>2, <1>3 DEF TypeOK

LEMMA ApproveProposalType ==
    ASSUME TypeOK, NEW p \in Participant, ApproveProposal(p)
    PROVE  TypeOK'
  <1>1. status' \in Status /\ fence' \in BOOLEAN
    BY StatusNames DEF ApproveProposal
  <1>2. FrameTypeOK' /\ ConsentTypeOK'
    BY UnchangedTypes DEF ApproveProposal, TypeOK
  <1>3. OwnerTypeOK'
    BY DEF ApproveProposal, TypeOK, OwnerTypeOK, Draft
  <1>4. candidate \in Candidate /\ approval' \in [Participant -> 0..MaxProposal]
    BY BoundAssumption DEF ApproveProposal, TypeOK, ProposalTypeOK, Candidate
  <1>5. {q \in roster : approval'[q] # 0} \in SUBSET Participant
    BY DEF TypeOK, FrameTypeOK
  <1>6. agreements' \subseteq [proposal : Candidate, approvers : SUBSET Participant]
    BY <1>4, <1>5 DEF ApproveProposal, TypeOK, ProposalTypeOK
  <1>7. ProposalTypeOK'
    BY <1>4, <1>6 DEF ApproveProposal, TypeOK, ProposalTypeOK
  <1> QED
    BY <1>1, <1>2, <1>3, <1>7 DEF TypeOK

LEMMA WithdrawApprovalType ==
    ASSUME TypeOK, NEW p \in Participant, WithdrawApproval(p)
    PROVE  TypeOK'
  <1>1. status' \in Status /\ fence' \in BOOLEAN
    BY StatusNames DEF WithdrawApproval
  <1>2. FrameTypeOK' /\ ConsentTypeOK'
    BY UnchangedTypes DEF WithdrawApproval, TypeOK
  <1>3. OwnerTypeOK'
    BY DEF WithdrawApproval, TypeOK, OwnerTypeOK, Draft
  <1>4. ProposalTypeOK'
    BY BoundAssumption DEF WithdrawApproval, TypeOK, ProposalTypeOK
  <1> QED
    BY <1>1, <1>2, <1>3, <1>4 DEF TypeOK

LEMMA ClockType ==
    ASSUME TypeOK, ClockStep
    PROVE  TypeOK'
  <1>1. CASE Sweep
    <2>1. ReadinessStatus(required, confirmed, readiness) \in Status
      BY ReadinessStatusType
    <2>2. status' \in Status /\ ProposalTypeOK'
      BY <1>1, <2>1, UnchangedTypes, RetireType, StatusNames DEF Sweep, SupersedeProposal, TypeOK
    <2>3. FrameTypeOK' /\ OwnerTypeOK' /\ fence' \in BOOLEAN
      BY <1>1, UnchangedTypes DEF Sweep, TypeOK
    <2>4. question' \in [Participant -> [Option -> QuestionStatus]]
      BY <1>1 DEF Sweep, TypeOK, ConsentTypeOK, QuestionStatus
    <2>5. permission' \in [Participant -> [Option -> PermissionStatus]]
      BY <1>1 DEF Sweep, TypeOK, ConsentTypeOK, PermissionStatus
    <2>6. ConsentTypeOK'
      BY <1>1, <2>4, <2>5, EmptyTypes DEF Sweep, TypeOK, ConsentTypeOK
    <2> QED
      BY <2>2, <2>3, <2>6 DEF TypeOK
  <1>2. ASSUME NEW p \in Participant, NEW o \in Option, Lapse(p, o)
        PROVE  TypeOK'
    <2>1. FrameTypeOK' /\ OwnerTypeOK' /\ ProposalTypeOK'
      BY <1>2, UnchangedTypes DEF Lapse, TypeOK
    <2>2. ConsentTypeOK'
      BY <1>2 DEF Lapse, TypeOK, ConsentTypeOK
    <2> QED
      BY <1>2, <2>1, <2>2 DEF Lapse, TypeOK
  <1> QED BY <1>1, <1>2 DEF ClockStep

LEMMA RuntimeType ==
    ASSUME TypeOK, RuntimeStep
    PROVE  TypeOK'
  <1> DEFINE RS == ReadinessStatus(required, confirmed, readiness)
  <1>0. RS \in Status
    BY ReadinessStatusType
  <1>1. ASSUME NEW p \in Participant, StoreConstraintDraft(p)
        PROVE  TypeOK'
    <2>1. FrameTypeOK' /\ ConsentTypeOK' /\ ProposalTypeOK' /\ fence' \in BOOLEAN
      BY <1>1, UnchangedTypes DEF StoreConstraintDraft, TypeOK
    <2>2. status' \in Status
      BY <1>1, StatusNames DEF StoreConstraintDraft, TypeOK
    <2>3. draft' \in [Participant -> Draft]
      BY <1>1, NewDraftType, DataAssumption DEF StoreConstraintDraft, TypeOK, OwnerTypeOK
    <2>4. OwnerTypeOK'
      BY <1>1, <2>3 DEF StoreConstraintDraft, TypeOK, OwnerTypeOK
    <2> QED
      BY <2>1, <2>2, <2>4 DEF TypeOK
  <1>2. ASSUME NEW p \in Participant, AskNegotiation(p)
        PROVE  TypeOK'
    <2>1. FrameTypeOK' /\ OwnerTypeOK' /\ fence' \in BOOLEAN
      BY <1>2, UnchangedTypes DEF AskNegotiation, TypeOK
    <2>2. status' \in Status
      BY <1>2, StatusNames DEF AskNegotiation
    <2>3. ProposalTypeOK'
      BY <1>2, BoundAssumption DEF AskNegotiation, TypeOK, ProposalTypeOK
    <2>4. question' = [question EXCEPT ![p][pending.option] = "PENDING"]
      BY <1>2 DEF AskNegotiation
    <2>5. question' \in [Participant -> [Option -> QuestionStatus]]
      BY <2>4 DEF TypeOK, ConsentTypeOK, QuestionStatus
    <2>6. ConsentTypeOK'
      BY <1>2, <2>5 DEF AskNegotiation, TypeOK, ConsentTypeOK
    <2> QED
      BY <2>1, <2>2, <2>3, <2>6 DEF TypeOK
  <1>3. ASSUME StartReasoning \/ GetReasoningContext \/ CancelReasoning \/ AbandonPendingReasoning
        PROVE  TypeOK'
    <2>1. FrameTypeOK' /\ OwnerTypeOK' /\ ConsentTypeOK' /\ fence' \in BOOLEAN
      BY <1>3, UnchangedTypes
      DEF StartReasoning, GetReasoningContext, CancelReasoning, AbandonPendingReasoning, TypeOK
    <2>2. status' \in Status
      BY <1>0, <1>3, StatusNames
      DEF StartReasoning, GetReasoningContext, CancelReasoning, AbandonPendingReasoning, TypeOK
    <2>3. CASE GetReasoningContext
      BY <2>1, <2>2, <2>3, UnchangedTypes DEF GetReasoningContext, TypeOK
    <2>4. CASE StartReasoning \/ CancelReasoning \/ AbandonPendingReasoning
      <3>1. ProposalTypeOK'
        BY <2>4, BoundAssumption
        DEF StartReasoning, CancelReasoning, AbandonPendingReasoning, TypeOK, ProposalTypeOK, FrameTypeOK
      <3> QED
        BY <2>1, <2>2, <3>1 DEF TypeOK
    <2> QED BY <1>3, <2>3, <2>4
  <1>4. ASSUME NEW o \in Option, NEW deps \in SUBSET (Participant \X Option),
               CompleteReasoning(o, deps)
        PROVE  TypeOK'
    <2> DEFINE offered == [version |-> proposalVersion + 1, context |-> job,
                           option |-> o, deps |-> deps]
    <2>1. FrameTypeOK' /\ OwnerTypeOK' /\ ConsentTypeOK' /\ fence' \in BOOLEAN
      BY <1>4, UnchangedTypes DEF CompleteReasoning, TypeOK
    <2>2. offered \in Candidate /\ offered.version \in 0..MaxProposal
      BY <1>4, BoundAssumption
      DEF CompleteReasoning, TypeOK, ProposalTypeOK, FrameTypeOK, Candidate
    <2>3. CASE Verdict(o, deps) = "VALID"
      <3>1. /\ candidate' = offered /\ pending' = NoCandidate /\ status' = "PROPOSED"
            /\ proposalVersion' = offered.version /\ job' = 0
            /\ approval' = [p \in Participant |-> 0]
            /\ agreements' = agreements
        BY <1>4, <2>3 DEF CompleteReasoning
      <3>2. ProposalTypeOK'
        BY <2>2, <3>1, BoundAssumption DEF TypeOK, ProposalTypeOK
      <3> QED
        BY <2>1, <3>1, <3>2, StatusNames DEF TypeOK
    <2>4. CASE Verdict(o, deps) # "VALID"
      <3>1. /\ candidate' = NoCandidate /\ pending' \in {NoCandidate, offered}
            /\ proposalVersion' = proposalVersion /\ job' = 0
            /\ approval' = approval
            /\ agreements' = agreements
        BY <1>4, <2>4 DEF CompleteReasoning
      <3>2. ProposalTypeOK'
        BY <2>2, <3>1, BoundAssumption DEF TypeOK, ProposalTypeOK
      <3>3. Verdict(o, deps) \in {"INVALID", "NEEDS_CLARIFICATION", "NEEDS_PERMISSION", "VALID"}
        BY DEF Verdict
      <3>4. status' \in {"NO_AGREEMENT", "NEEDS_CLARIFICATION", "PRIVATE_NEGOTIATION"}
        BY <1>4, <2>4, <3>3 DEF CompleteReasoning
      <3>5. status' \in Status
        BY <3>4, StatusNames
      <3> QED
        BY <2>1, <3>2, <3>5 DEF TypeOK
    <2> QED BY <2>3, <2>4
  <1> QED BY <1>1, <1>2, <1>3, <1>4 DEF RuntimeStep

LEMMA CreatorType ==
    ASSUME TypeOK, CreatorStep
    PROVE  TypeOK'
  <1>1. ASSUME NEW people \in (SUBSET Participant) \ {{}}, ReviseDecision(people)
        PROVE  TypeOK'
    <2>1. ProposalTypeOK' /\ status' \in Status /\ fence' \in BOOLEAN
      BY <1>1, RetireType, StatusNames DEF ReviseDecision, TypeOK
    <2>2. FrameTypeOK'
      BY <1>1, BoundAssumption DEF ReviseDecision, TypeOK, FrameTypeOK
    <2>3. OwnerTypeOK' /\ ConsentTypeOK'
      BY <1>1, EmptyTypes DEF ReviseDecision, OwnerTypeOK, ConsentTypeOK, Readiness
    <2> QED
      BY <2>1, <2>2, <2>3 DEF TypeOK
  <1>2. ASSUME NEW people \in (SUBSET (Participant \ roster)) \ {{}},
               IncludeDecisionGroupMembers(people)
        PROVE  TypeOK'
    <2>1. ReadinessStatus(required', confirmed, readiness) \in Status
      BY ReadinessStatusType
    <2>2. ProposalTypeOK' /\ status' \in Status /\ fence' \in BOOLEAN
      BY <1>2, <2>1, RetireType DEF IncludeDecisionGroupMembers, TypeOK
    <2>3. FrameTypeOK' /\ OwnerTypeOK'
      BY <1>2, UnchangedTypes DEF IncludeDecisionGroupMembers, TypeOK, FrameTypeOK
    <2>4. question' \in [Participant -> [Option -> QuestionStatus]]
      BY <1>2 DEF IncludeDecisionGroupMembers, TypeOK, ConsentTypeOK, QuestionStatus
    <2>5. permission' \in [Participant -> [Option -> PermissionStatus]]
      BY <1>2 DEF IncludeDecisionGroupMembers, TypeOK, ConsentTypeOK, PermissionStatus
    <2>6. ConsentTypeOK'
      BY <1>2, <2>4, <2>5, EmptyTypes DEF IncludeDecisionGroupMembers, TypeOK, ConsentTypeOK
    <2> QED
      BY <2>2, <2>3, <2>6 DEF TypeOK
  <1>3. ASSUME CloseDecision PROVE TypeOK'
    BY <1>3, RetireType, StatusNames, UnchangedTypes DEF CloseDecision, TypeOK
  <1> QED BY <1>1, <1>2, <1>3 DEF CreatorStep

\* Every method keeps every variable of the decision record in its type.
LEMMA StepType ==
    ASSUME TypeOK, [Next]_vars
    PROVE  TypeOK'
  <1>1. CASE OwnerStep
    BY <1>1, ConfirmFrameType, ConfirmConstraintsType, ConfirmPrivateAnswersType,
       ApproveProposalType, WithdrawApprovalType, AnswerNegotiationType,
       RevokeNegotiationType DEF OwnerStep
  <1>2. CASE UNCHANGED vars
    BY <1>2, UnchangedTypes DEF vars, TypeOK
  <1> QED
    BY <1>1, <1>2, RuntimeType, ClockType, CreatorType DEF Next

\* Every variable of the decision record keeps its type through every method.
THEOREM TypeCorrect == Spec => []TypeOK
  <1>1. TypeOK /\ [Next]_vars => TypeOK'
    BY StepType
  <1> QED
    BY <1>1, InitType, PTL DEF Spec

-----------------------------------------------------------------------------
(* Agreement and consent *)

SafetyInv ==
    /\ required = roster
    /\ ProposalMatchesStatus
    /\ AgreementIsUnanimous
    /\ ApprovalsAreCurrent
    /\ ProposalRestsOnCompleteInput
    /\ JobRunsAlone
    /\ QuestionsHoldTheDecision

-----------------------------------------------------------------------------
\* What each status the readiness computation returns stands for.
LEMMA ReadinessStatusMeaning ==
    ASSUME NEW need, NEW conf, NEW ready
    PROVE  LET rs == ReadinessStatus(need, conf, ready)
           IN  /\ rs \in Collecting
               /\ rs = "READY" => need \subseteq conf /\ \A p \in need : ready[p] = "READY"
  BY DEF ReadinessStatus, Collecting

\* No proposal is distinguished from every published one by its version.
LEMMA CandidateIsProposal ==
    ASSUME TypeOK
    PROVE  /\ candidate # NoCandidate => candidate \in Candidate /\ candidate.version # 0
           /\ pending # NoCandidate => pending \in Candidate
  BY BoundAssumption DEF TypeOK, ProposalTypeOK, Candidate

\* A step that retires the proposal is safe when the status it leaves promises
\* no more than the confirmations and answers it leaves.
LEMMA RetiringIsSafe ==
    ASSUME RetireCurrentProposal, required' = roster',
           status' \in Collecting \union {"SUPERSEDED", "CLOSED"},
           status' = "READY" => InputComplete',
           SomePending(question)' => InputComplete' /\ status' \notin {"READY", "SUPERSEDED"}
    PROVE  SafetyInv'
  <1>1. candidate' = NoCandidate /\ job' = 0 /\ approval' = [p \in Participant |-> 0]
    BY DEF RetireCurrentProposal
  <1>2. status' \notin Live \union {"REASONING", "PRIVATE_NEGOTIATION", "NO_AGREEMENT"}
    BY DEF Live, Collecting
  <1>3. status' \in Live <=> candidate' # NoCandidate
    BY <1>1, <1>2
  <1>4. AgreementIsUnanimous'
    BY <1>2 DEF AgreementIsUnanimous, Live
  <1>5. ApprovalsAreCurrent'
    BY <1>1 DEF ApprovalsAreCurrent
  <1>6. ProposalRestsOnCompleteInput'
    BY <1>2 DEF ProposalRestsOnCompleteInput
  <1>7. JobRunsAlone'
    BY <1>1 DEF JobRunsAlone
  <1>8. QuestionsHoldTheDecision'
    BY <1>1, <1>2 DEF QuestionsHoldTheDecision
  <1> QED
    BY <1>3, <1>4, <1>5, <1>6, <1>7, <1>8 DEF SafetyInv, ProposalMatchesStatus

LEMMA InitSafe ==
    ASSUME Optional = {}, Init
    PROVE  SafetyInv
  <1>1. /\ status = "COLLECTING_FRAME_CONFIRMATION" /\ candidate = NoCandidate /\ job = 0
        /\ approval = [p \in Participant |-> 0] /\ required = roster
    BY DEF Init
  <1>2. ~SomePending(question)
    BY DEF Init, SomePending, NoneAsked
  <1> QED
    BY <1>1, <1>2
    DEF SafetyInv, ProposalMatchesStatus, AgreementIsUnanimous, ApprovalsAreCurrent,
        ProposalRestsOnCompleteInput, JobRunsAlone, QuestionsHoldTheDecision, Live

-----------------------------------------------------------------------------
(* Owner commands *)

LEMMA ConfirmFrameSafe ==
    ASSUME TypeOK, SafetyInv, NEW p \in Participant, ConfirmFrame(p)
    PROVE  SafetyInv'
  <1>1. UNCHANGED <<context, roster, required, readiness, candidate, job, approval, question>>
    BY DEF ConfirmFrame, consentVars, proposalVars
  <1>2. CASE p \in confirmed
    <2>1. UNCHANGED <<status, confirmed>>
      BY <1>2 DEF ConfirmFrame
    <2> QED
      BY <1>1, <2>1
      DEF SafetyInv, ProposalMatchesStatus, AgreementIsUnanimous, ApprovalsAreCurrent,
          ProposalRestsOnCompleteInput, JobRunsAlone, QuestionsHoldTheDecision,
          InputComplete, RequiredConfirmed
  <1>3. CASE p \notin confirmed
    <2>1. p \in required
      BY DEF ConfirmFrame, Command, SafetyInv
    <2>2. ~InputComplete
      BY <1>3, <2>1 DEF InputComplete, RequiredConfirmed
    <2>3. candidate = NoCandidate /\ ~SomePending(question)
      BY <2>2 DEF SafetyInv, ProposalMatchesStatus, ProposalRestsOnCompleteInput,
                  QuestionsHoldTheDecision
    <2>4. status' = ReadinessStatus(required, confirmed', readiness)
      BY <1>3 DEF ConfirmFrame
    <2>5. status' \in Collecting /\ (status' = "READY" => InputComplete')
      BY <1>1, <2>4, ReadinessStatusMeaning DEF InputComplete, RequiredConfirmed
    <2> QED
      BY <1>1, <2>3, <2>5
      DEF SafetyInv, ProposalMatchesStatus, AgreementIsUnanimous, ApprovalsAreCurrent,
          ProposalRestsOnCompleteInput, JobRunsAlone, QuestionsHoldTheDecision,
          Live, Collecting
  <1> QED BY <1>2, <1>3

LEMMA ConfirmConstraintsSafe ==
    ASSUME TypeOK, SafetyInv, NEW p \in Participant, ConfirmConstraints(p)
    PROVE  SafetyInv'
  <1>1. PICK chosen \in Selections(draft[p].terms) :
           ConfirmFirstConstraints(p, chosen) \/ InvalidateConfirmedContext(p, chosen)
    BY DEF ConfirmConstraints
  <1>2. RetireCurrentProposal /\ UNCHANGED <<roster, required>>
    BY DEF ConfirmConstraints
  <1>3. status' = ReadinessStatus(required', confirmed', readiness')
    BY <1>1, <1>2 DEF ConfirmFirstConstraints, InvalidateConfirmedContext
  <1>4. status' \in Collecting /\ (status' = "READY" => InputComplete')
    BY <1>3, ReadinessStatusMeaning DEF InputComplete, RequiredConfirmed
  <1>5. ~SomePending(question)'
    <2>1. CASE ConfirmFirstConstraints(p, chosen)
      <3>1. p \in required /\ readiness[p] # "READY"
        BY <2>1 DEF ConfirmFirstConstraints, ConfirmConstraints, Command, SafetyInv
      <3>2. ~SomePending(question)
        BY <3>1 DEF SafetyInv, QuestionsHoldTheDecision, InputComplete
      <3> QED
        BY <2>1, <3>2 DEF ConfirmFirstConstraints
    <2>2. CASE InvalidateConfirmedContext(p, chosen)
      BY <2>2 DEF InvalidateConfirmedContext, SomePending, NoneAsked
    <2> QED BY <1>1, <2>1, <2>2
  <1> QED
    BY <1>2, <1>4, <1>5, RetiringIsSafe DEF SafetyInv

LEMMA ConfirmPrivateAnswersSafe ==
    ASSUME TypeOK, SafetyInv, NEW p \in Participant, ConfirmPrivateAnswers(p)
    PROVE  SafetyInv'
  <1>1. /\ RetireCurrentProposal /\ UNCHANGED <<roster, required>>
        /\ question' = NoneAsked
        /\ status' = ReadinessStatus(required', confirmed', readiness')
    BY DEF ConfirmPrivateAnswers
  <1>2. status' \in Collecting /\ (status' = "READY" => InputComplete')
    BY <1>1, ReadinessStatusMeaning DEF InputComplete, RequiredConfirmed
  <1>3. ~SomePending(question)'
    BY <1>1 DEF SomePending, NoneAsked
  <1> QED
    BY <1>1, <1>2, <1>3, RetiringIsSafe DEF SafetyInv

LEMMA AnswerNegotiationSafe ==
    ASSUME TypeOK, SafetyInv, NEW p \in Participant, NEW o \in Option, NEW allow \in BOOLEAN,
           AnswerNegotiation(p, o, allow)
    PROVE  SafetyInv'
  <1>1. UNCHANGED <<context, roster, required, confirmed, readiness, candidate, job, approval>>
    BY DEF AnswerNegotiation, frameVars, ownerVars, proposalVars
  <1>2. SomePending(question)
    BY DEF AnswerNegotiation, SomePending
  <1>3. InputComplete /\ candidate = NoCandidate /\ job = 0
    BY <1>2 DEF SafetyInv, QuestionsHoldTheDecision
  <1>4. InputComplete'
    BY <1>1, <1>3 DEF InputComplete, RequiredConfirmed
  <1>5. \/ SomePending(question') /\ status' = "PRIVATE_NEGOTIATION"
        \/ ~SomePending(question') /\ status' \in Collecting
    BY ReadinessStatusMeaning DEF AnswerNegotiation
  <1> QED
    BY <1>1, <1>3, <1>4, <1>5
    DEF SafetyInv, ProposalMatchesStatus, AgreementIsUnanimous, ApprovalsAreCurrent,
        ProposalRestsOnCompleteInput, JobRunsAlone, QuestionsHoldTheDecision, Live, Collecting

LEMMA RevokeNegotiationSafe ==
    ASSUME TypeOK, SafetyInv, NEW p \in Participant, NEW o \in Option, RevokeNegotiation(p, o)
    PROVE  SafetyInv'
  <1>1. UNCHANGED <<context, roster, required, confirmed, readiness, question>>
    BY DEF RevokeNegotiation, frameVars, ownerVars
  <1>2. CASE candidate # NoCandidate /\ <<p, o>> \in candidate.deps
    <2>1. RetireCurrentProposal /\ status' = "SUPERSEDED"
      BY <1>2 DEF RevokeNegotiation, SupersedeProposal
    <2>2. ~SomePending(question)'
      BY <1>1, <1>2 DEF SafetyInv, QuestionsHoldTheDecision
    <2> QED
      BY <1>1, <2>1, <2>2, RetiringIsSafe DEF SafetyInv
  <1>3. CASE ~(candidate # NoCandidate /\ <<p, o>> \in candidate.deps)
    <2>1. UNCHANGED <<status, candidate, job, approval>>
      BY <1>3 DEF RevokeNegotiation, proposalVars
    <2> QED
      BY <1>1, <2>1
      DEF SafetyInv, ProposalMatchesStatus, AgreementIsUnanimous, ApprovalsAreCurrent,
          ProposalRestsOnCompleteInput, JobRunsAlone, QuestionsHoldTheDecision,
          InputComplete, RequiredConfirmed
  <1> QED BY <1>2, <1>3

LEMMA ApproveProposalSafe ==
    ASSUME TypeOK, SafetyInv, NEW p \in Participant, ApproveProposal(p)
    PROVE  SafetyInv'
  <1>1. UNCHANGED <<context, roster, required, confirmed, readiness, candidate, job, question>>
    BY DEF ApproveProposal, frameVars, consentVars
  <1>2. /\ candidate # NoCandidate /\ candidate.context = context /\ p \in required
        /\ approval' = [approval EXCEPT ![p] = candidate.version]
        /\ \/ status' = "AGREED" /\ required \subseteq CurrentApprovals(approval')
           \/ status' = "APPROVING"
    BY DEF ApproveProposal
  <1>3. job = 0 /\ ~SomePending(question) /\ InputComplete
    BY <1>2 DEF SafetyInv, JobRunsAlone, QuestionsHoldTheDecision, ProposalMatchesStatus,
                ProposalRestsOnCompleteInput
  <1>4. AgreementIsUnanimous'
    BY <1>1, <1>2 DEF AgreementIsUnanimous, CurrentApprovals
  <1>5. ApprovalsAreCurrent'
    <2> SUFFICES ASSUME NEW q \in Participant, approval'[q] # 0
                 PROVE  approval'[q] = candidate.version /\ q \in required
      BY <1>1, <1>2 DEF ApprovalsAreCurrent
    <2>1. CASE q = p
      BY <1>2, <2>1 DEF TypeOK, ProposalTypeOK
    <2>2. CASE q # p
      <3>1. approval'[q] = approval[q]
        BY <1>2, <2>2 DEF TypeOK, ProposalTypeOK
      <3> QED
        BY <3>1 DEF SafetyInv, ApprovalsAreCurrent
    <2> QED BY <2>1, <2>2
  <1> QED
    BY <1>1, <1>2, <1>3, <1>4, <1>5
    DEF SafetyInv, ProposalMatchesStatus, ProposalRestsOnCompleteInput, JobRunsAlone,
        QuestionsHoldTheDecision, InputComplete, RequiredConfirmed, Live

LEMMA WithdrawApprovalSafe ==
    ASSUME TypeOK, SafetyInv, NEW p \in Participant, WithdrawApproval(p)
    PROVE  SafetyInv'
  <1>1. UNCHANGED <<context, roster, required, confirmed, readiness, candidate, job, question>>
    BY DEF WithdrawApproval, frameVars, consentVars
  <1>2. /\ candidate # NoCandidate
        /\ approval' = [approval EXCEPT ![p] = 0]
        /\ status' = IF CurrentApprovals(approval') # {} THEN "APPROVING" ELSE "PROPOSED"
    BY DEF WithdrawApproval
  <1>3. job = 0 /\ ~SomePending(question) /\ InputComplete
    BY <1>2 DEF SafetyInv, JobRunsAlone, QuestionsHoldTheDecision, ProposalMatchesStatus,
                ProposalRestsOnCompleteInput
  <1>4. \A q \in Participant : approval'[q] # 0 => approval'[q] = approval[q]
    BY <1>2 DEF TypeOK, ProposalTypeOK
  <1>5. ApprovalsAreCurrent'
    BY <1>1, <1>4 DEF SafetyInv, ApprovalsAreCurrent
  <1>6. AgreementIsUnanimous'
    <2> SUFFICES ASSUME status' = "PROPOSED", NEW q \in Participant PROVE approval'[q] = 0
      BY <1>2 DEF AgreementIsUnanimous
    <2>1. CurrentApprovals(approval') = {}
      BY <1>2
    <2>2. approval'[q] # 0 => q \in roster /\ approval'[q] = candidate.version
      BY <1>1, <1>5 DEF ApprovalsAreCurrent, SafetyInv
    <2> QED
      BY <2>1, <2>2 DEF CurrentApprovals
  <1> QED
    BY <1>1, <1>2, <1>3, <1>5, <1>6
    DEF SafetyInv, ProposalMatchesStatus, ProposalRestsOnCompleteInput, JobRunsAlone,
        QuestionsHoldTheDecision, InputComplete, RequiredConfirmed, Live

-----------------------------------------------------------------------------
(* The clock, the runtime and the creator *)

LEMMA ClockSafe ==
    ASSUME TypeOK, SafetyInv, ClockStep
    PROVE  SafetyInv'
  <1>1. CASE Sweep
    <2>1. UNCHANGED <<context, roster, required, confirmed, readiness>>
      BY <1>1 DEF Sweep, frameVars, ownerVars
    <2>2. SomePending(question') => SomePending(question)
      BY <1>1 DEF Sweep, SomePending, TypeOK, ConsentTypeOK, QuestionStatus
    <2>3. CASE candidate # NoCandidate /\ \E d \in candidate.deps : permission'[d[1]][d[2]] # "ACTIVE"
      <3>1. RetireCurrentProposal /\ status' = "SUPERSEDED"
        BY <1>1, <2>3 DEF Sweep, SupersedeProposal
      <3>2. ~SomePending(question')
        BY <2>2, <2>3 DEF SafetyInv, QuestionsHoldTheDecision
      <3> QED
        BY <2>1, <3>1, <3>2, RetiringIsSafe DEF SafetyInv, SomePending
    <2>4. CASE ~(candidate # NoCandidate /\ \E d \in candidate.deps : permission'[d[1]][d[2]] # "ACTIVE")
      <3>1. UNCHANGED <<candidate, job, approval>>
        BY <1>1, <2>4 DEF Sweep, proposalVars
      <3>2. InputComplete' <=> InputComplete
        BY <2>1 DEF InputComplete, RequiredConfirmed
      <3>3. CASE status = "PRIVATE_NEGOTIATION" /\ ~SomePending(question')
        <4>1. status' = ReadinessStatus(required, confirmed, readiness)
          BY <1>1, <2>4, <3>3 DEF Sweep
        <4>2. status' \in Collecting
          BY <4>1, ReadinessStatusMeaning
        <4>3. InputComplete /\ candidate = NoCandidate
          BY <3>3 DEF SafetyInv, ProposalRestsOnCompleteInput, ProposalMatchesStatus, Live
        <4> QED
          BY <2>1, <3>1, <3>2, <3>3, <4>2, <4>3
          DEF SafetyInv, ProposalMatchesStatus, AgreementIsUnanimous, ApprovalsAreCurrent,
              ProposalRestsOnCompleteInput, JobRunsAlone, QuestionsHoldTheDecision,
              Live, Collecting
      <3>4. CASE ~(status = "PRIVATE_NEGOTIATION" /\ ~SomePending(question'))
        <4>1. status' = status
          BY <1>1, <2>4, <3>4 DEF Sweep
        <4> QED
          BY <2>1, <2>2, <3>1, <3>2, <4>1
          DEF SafetyInv, ProposalMatchesStatus, AgreementIsUnanimous, ApprovalsAreCurrent,
              ProposalRestsOnCompleteInput, JobRunsAlone, QuestionsHoldTheDecision
      <3> QED BY <3>3, <3>4
    <2> QED BY <2>3, <2>4
  <1>2. ASSUME NEW p \in Participant, NEW o \in Option, Lapse(p, o)
        PROVE  SafetyInv'
    BY <1>2 DEF Lapse, frameVars, ownerVars, proposalVars, SafetyInv, ProposalMatchesStatus,
       AgreementIsUnanimous, ApprovalsAreCurrent, ProposalRestsOnCompleteInput, JobRunsAlone,
       QuestionsHoldTheDecision, InputComplete, RequiredConfirmed
  <1> QED BY <1>1, <1>2 DEF ClockStep

\* A verdict other than the negative ones needs complete, confirmed input.
LEMMA VerdictMeaning ==
    ASSUME NEW o, NEW deps
    PROVE  /\ Verdict(o, deps) \in {"VALID", "INVALID", "NEEDS_CLARIFICATION", "NEEDS_PERMISSION"}
           /\ Verdict(o, deps) \in {"VALID", "NEEDS_PERMISSION"} => InputComplete
  BY DEF Verdict, Unclear, InputComplete

LEMMA CompleteReasoningSafe ==
    ASSUME TypeOK, SafetyInv, NEW o \in Option, NEW deps \in SUBSET (Participant \X Option),
           CompleteReasoning(o, deps)
    PROVE  SafetyInv'
  <1>1. /\ UNCHANGED <<context, roster, required, confirmed, readiness, question>>
        /\ job' = 0
    BY DEF CompleteReasoning, frameVars, ownerVars, consentVars
  <1>2. candidate = NoCandidate /\ ~SomePending(question) /\ job = context
    BY BoundAssumption DEF CompleteReasoning, SafetyInv, JobRunsAlone, TypeOK, FrameTypeOK
  <1>3. \A p \in Participant : approval[p] = 0
    BY <1>2 DEF SafetyInv, ApprovalsAreCurrent
  <1>4. InputComplete' <=> InputComplete
    BY <1>1 DEF InputComplete, RequiredConfirmed
  <1>5. CASE Verdict(o, deps) = "VALID"
    <2> DEFINE offered == [version |-> proposalVersion + 1, context |-> job,
                           option |-> o, deps |-> deps]
    <2>1. /\ candidate' = offered /\ status' = "PROPOSED"
          /\ approval' = [p \in Participant |-> 0]
      BY <1>5 DEF CompleteReasoning
    <2>2. offered.version # 0
      BY BoundAssumption DEF TypeOK, ProposalTypeOK
    <2>3. candidate' # NoCandidate
      BY <2>1, <2>2 DEF NoCandidate
    <2> QED
      BY <1>1, <1>2, <1>4, <1>5, <2>1, <2>3, VerdictMeaning
      DEF SafetyInv, ProposalMatchesStatus, AgreementIsUnanimous, ApprovalsAreCurrent,
          ProposalRestsOnCompleteInput, JobRunsAlone, QuestionsHoldTheDecision, Live
  <1>6. CASE Verdict(o, deps) # "VALID"
    <2>1. /\ candidate' = NoCandidate /\ approval' = approval
          /\ \/ status' = "PRIVATE_NEGOTIATION" /\ Verdict(o, deps) = "NEEDS_PERMISSION"
             \/ status' \in {"NEEDS_CLARIFICATION", "NO_AGREEMENT"}
      BY <1>6, VerdictMeaning DEF CompleteReasoning
    <2>2. status' = "PRIVATE_NEGOTIATION" => InputComplete'
      BY <1>4, <2>1, VerdictMeaning
    <2> QED
      BY <1>1, <1>2, <1>3, <2>1, <2>2
      DEF SafetyInv, ProposalMatchesStatus, AgreementIsUnanimous, ApprovalsAreCurrent,
          ProposalRestsOnCompleteInput, JobRunsAlone, QuestionsHoldTheDecision, Live
  <1> QED BY <1>5, <1>6

LEMMA RuntimeSafe ==
    ASSUME TypeOK, SafetyInv, RuntimeStep
    PROVE  SafetyInv'
  <1>1. ASSUME NEW p \in Participant, StoreConstraintDraft(p) PROVE SafetyInv'
    <2>1. UNCHANGED <<context, roster, required, confirmed, readiness, candidate, job,
                      approval, question>>
      BY <1>1 DEF StoreConstraintDraft, frameVars, consentVars, proposalVars
    <2>2. IF candidate # NoCandidate THEN status' = status
          ELSE status' \in {"NEEDS_CLARIFICATION", "COLLECTING_PRIVATE_INPUT"}
      BY <1>1 DEF StoreConstraintDraft
    <2> QED
      BY <2>1, <2>2
      DEF SafetyInv, ProposalMatchesStatus, AgreementIsUnanimous, ApprovalsAreCurrent,
          ProposalRestsOnCompleteInput, JobRunsAlone, QuestionsHoldTheDecision, Live,
          InputComplete, RequiredConfirmed
  <1>2. ASSUME NEW p \in Participant, AskNegotiation(p) PROVE SafetyInv'
    <2>1. /\ UNCHANGED <<context, roster, required, confirmed, readiness, candidate, approval>>
          /\ candidate = NoCandidate /\ job' = 0
          /\ status = "PRIVATE_NEGOTIATION" /\ status' = "PRIVATE_NEGOTIATION"
      BY <1>2 DEF AskNegotiation, frameVars, ownerVars
    <2>2. InputComplete /\ InputComplete'
      BY <2>1 DEF SafetyInv, ProposalRestsOnCompleteInput, InputComplete, RequiredConfirmed
    <2> QED
      BY <2>1, <2>2
      DEF SafetyInv, ProposalMatchesStatus, AgreementIsUnanimous, ApprovalsAreCurrent,
          ProposalRestsOnCompleteInput, JobRunsAlone, QuestionsHoldTheDecision, Live
  <1>3. ASSUME StartReasoning PROVE SafetyInv'
    <2>1. /\ UNCHANGED <<context, roster, required, confirmed, readiness, candidate, approval,
                         question>>
          /\ job' = context /\ status' = "REASONING" /\ InputComplete
          /\ status \in {"READY", "SUPERSEDED", "NO_AGREEMENT"}
      BY <1>3 DEF StartReasoning, frameVars, ownerVars, consentVars, InputComplete
    <2>2. candidate = NoCandidate /\ ~SomePending(question)
      BY <2>1 DEF SafetyInv, ProposalMatchesStatus, QuestionsHoldTheDecision, Live
    <2> QED
      BY <2>1, <2>2
      DEF SafetyInv, ProposalMatchesStatus, AgreementIsUnanimous, ApprovalsAreCurrent,
          ProposalRestsOnCompleteInput, JobRunsAlone, QuestionsHoldTheDecision, Live,
          InputComplete, RequiredConfirmed
  <1>4. ASSUME GetReasoningContext PROVE SafetyInv'
    BY <1>4 DEF GetReasoningContext, frameVars, ownerVars, consentVars, proposalVars,
       SafetyInv, ProposalMatchesStatus, AgreementIsUnanimous, ApprovalsAreCurrent,
       ProposalRestsOnCompleteInput, JobRunsAlone, QuestionsHoldTheDecision,
       InputComplete, RequiredConfirmed
  <1>5. ASSUME CancelReasoning \/ AbandonPendingReasoning PROVE SafetyInv'
    <2>1. /\ UNCHANGED <<context, roster, required, confirmed, readiness, candidate, approval,
                         question>>
          /\ job' = 0
          /\ status' = ReadinessStatus(required, confirmed, readiness)
          /\ status \in {"REASONING", "PRIVATE_NEGOTIATION"}
      BY <1>5 DEF CancelReasoning, AbandonPendingReasoning, frameVars, ownerVars, consentVars
    <2>2. candidate = NoCandidate /\ ~SomePending(question)
      BY <1>5, <2>1 DEF CancelReasoning, AbandonPendingReasoning, SafetyInv,
         ProposalMatchesStatus, JobRunsAlone, Live
    <2>3. status' \in Collecting /\ (status' = "READY" => InputComplete')
      BY <2>1, ReadinessStatusMeaning DEF InputComplete, RequiredConfirmed
    <2> QED
      BY <2>1, <2>2, <2>3
      DEF SafetyInv, ProposalMatchesStatus, AgreementIsUnanimous, ApprovalsAreCurrent,
          ProposalRestsOnCompleteInput, JobRunsAlone, QuestionsHoldTheDecision, Live, Collecting
  <1> QED
    BY <1>1, <1>2, <1>3, <1>4, <1>5, CompleteReasoningSafe DEF RuntimeStep

LEMMA CreatorSafe ==
    ASSUME Optional = {}, TypeOK, SafetyInv, CreatorStep
    PROVE  SafetyInv'
  <1>1. ASSUME NEW people \in (SUBSET Participant) \ {{}}, ReviseDecision(people)
        PROVE  SafetyInv'
    <2>1. /\ RetireCurrentProposal /\ required' = roster' /\ question' = NoneAsked
          /\ status' = "COLLECTING_FRAME_CONFIRMATION"
      BY <1>1 DEF ReviseDecision
    <2>2. ~SomePending(question)'
      BY <2>1 DEF SomePending, NoneAsked
    <2> QED
      BY <2>1, <2>2, RetiringIsSafe DEF Collecting
  <1>2. ASSUME NEW people \in (SUBSET (Participant \ roster)) \ {{}},
               IncludeDecisionGroupMembers(people)
        PROVE  SafetyInv'
    <2>1. /\ RetireCurrentProposal /\ required' = roster'
          /\ UNCHANGED <<confirmed, readiness>>
          /\ status' = ReadinessStatus(required', confirmed, readiness)
      BY <1>2 DEF IncludeDecisionGroupMembers, SafetyInv, ownerVars
    <2>2. status' \in Collecting /\ (status' = "READY" => InputComplete')
      BY <2>1, ReadinessStatusMeaning DEF InputComplete, RequiredConfirmed
    <2>3. ~SomePending(question)'
      BY <1>2 DEF IncludeDecisionGroupMembers, SomePending
    <2> QED
      BY <2>1, <2>2, <2>3, RetiringIsSafe
  <1>3. ASSUME CloseDecision PROVE SafetyInv'
    <2>1. /\ RetireCurrentProposal /\ status' = "CLOSED"
          /\ UNCHANGED <<roster, required, confirmed, readiness, question>>
      BY <1>3 DEF CloseDecision, frameVars, ownerVars, consentVars
    <2>2. SomePending(question)' => InputComplete'
      BY <2>1 DEF SafetyInv, QuestionsHoldTheDecision, InputComplete, RequiredConfirmed
    <2> QED
      BY <2>1, <2>2, RetiringIsSafe DEF SafetyInv
  <1> QED BY <1>1, <1>2, <1>3 DEF CreatorStep

\* SafetyInv is inductive, given the type invariant.
LEMMA StepSafe ==
    ASSUME Optional = {}, TypeOK, SafetyInv, [Next]_vars
    PROVE  SafetyInv'
  <1>1. CASE OwnerStep
    BY <1>1, ConfirmFrameSafe, ConfirmConstraintsSafe, ConfirmPrivateAnswersSafe,
       ApproveProposalSafe, WithdrawApprovalSafe, AnswerNegotiationSafe, RevokeNegotiationSafe
    DEF OwnerStep
  <1>2. CASE UNCHANGED vars
    BY <1>2 DEF vars, frameVars, ownerVars, consentVars, proposalVars, SafetyInv,
       ProposalMatchesStatus, AgreementIsUnanimous, ApprovalsAreCurrent,
       ProposalRestsOnCompleteInput, JobRunsAlone, QuestionsHoldTheDecision,
       InputComplete, RequiredConfirmed
  <1> QED
    BY <1>1, <1>2, RuntimeSafe, ClockSafe, CreatorSafe DEF Next

\* When everyone in a decision is required, the conjunction holds throughout.
THEOREM SafetyInvariant ==
    ASSUME Optional = {}
    PROVE  Spec => []SafetyInv
  <1>1. Init => SafetyInv
    BY InitSafe
  <1>2. TypeOK /\ SafetyInv /\ [Next]_vars => SafetyInv'
    BY StepSafe
  <1> QED
    BY <1>1, <1>2, TypeCorrect, PTL DEF Spec

\* A proposal exists exactly in the proposal states, an agreement is exactly the
\* standing approval of one proposal by everyone required, and no approval
\* outlives the proposal, context or roster it was given for.
THEOREM AgreementSafety ==
    ASSUME Optional = {}
    PROVE  Spec => [](ProposalMatchesStatus /\ AgreementIsUnanimous /\ ApprovalsAreCurrent)
  <1>1. SafetyInv => ProposalMatchesStatus /\ AgreementIsUnanimous /\ ApprovalsAreCurrent
    BY DEF SafetyInv
  <1> QED
    BY <1>1, SafetyInvariant, PTL

\* Reasoning, proposals and open questions rest on complete confirmed input, and
\* exclude each other.
THEOREM ReasoningSafety ==
    ASSUME Optional = {}
    PROVE  Spec => [](ProposalRestsOnCompleteInput /\ JobRunsAlone /\ QuestionsHoldTheDecision)
  <1>1. SafetyInv => ProposalRestsOnCompleteInput /\ JobRunsAlone /\ QuestionsHoldTheDecision
    BY DEF SafetyInv
  <1> QED
    BY <1>1, SafetyInvariant, PTL

\* A proposal is there exactly when the status says so.
THEOREM ProposalsMatchStatus ==
    ASSUME Optional = {}
    PROVE  Spec => []ProposalMatchesStatus
  BY AgreementSafety, PTL

\* No approval outlives the proposal, the context or the roster it was given for.
THEOREM ApprovalsStayCurrent ==
    ASSUME Optional = {}
    PROVE  Spec => []ApprovalsAreCurrent
  BY AgreementSafety, PTL

\* Nothing is reasoned about, negotiated or proposed on incomplete input.
THEOREM InputStaysComplete ==
    ASSUME Optional = {}
    PROVE  Spec => []ProposalRestsOnCompleteInput
  BY ReasoningSafety, PTL

\* Nothing else is decided while an owner is being asked.
THEOREM QuestionsHold ==
    ASSUME Optional = {}
    PROVE  Spec => []QuestionsHoldTheDecision
  BY ReasoningSafety, PTL

-----------------------------------------------------------------------------
(***************************************************************************)
(* Consent: what owners agreed to, and what they refused, binds every      *)
(* proposal and every question.                                            *)
(***************************************************************************)

\* Consent is only asked of, and only given by, seated owners with saved answers.
ConsentersAnswered ==
    \A p \in Participant, o \in Option :
        /\ question[p][o] = "PENDING" => p \in roster
        /\ permission[p][o] = "ACTIVE" => readiness[p] # "NOT_STARTED"

ConsentInv ==
    /\ ProposalHonoursConditions
    /\ RefusalIsRespected
    /\ PermissionHasConsent
    /\ ConsentersAnswered

-----------------------------------------------------------------------------
\* A step that moves neither answers nor consent keeps both, as long as it
\* leaves the proposal alone or takes it away.
LEMMA ConsentKept ==
    ASSUME ConsentInv, UNCHANGED <<roster, terms, readiness, question, permission, refused>>,
           candidate' = candidate \/ candidate' = NoCandidate
    PROVE  ConsentInv'
  <1>1. ProposalHonoursConditions'
    BY DEF ConsentInv, ProposalHonoursConditions
  <1>2. RefusalIsRespected' /\ PermissionHasConsent' /\ ConsentersAnswered'
    BY DEF ConsentInv, RefusalIsRespected, PermissionHasConsent, ConsentersAnswered
  <1> QED
    BY <1>1, <1>2 DEF ConsentInv

\* With every question and permission withdrawn and no proposal, nothing binds.
LEMMA ConsentCleared ==
    ASSUME candidate' = NoCandidate, question' = NoneAsked, permission' = NoneAsked
    PROVE  ConsentInv'
  BY DEF ConsentInv, ProposalHonoursConditions, RefusalIsRespected, PermissionHasConsent,
         ConsentersAnswered, NoneAsked

LEMMA ConfirmConstraintsConsent ==
    ASSUME TypeOK, SafetyInv, ConsentInv, NEW p \in Participant, ConfirmConstraints(p)
    PROVE  ConsentInv'
  <1>1. PICK chosen \in Selections(draft[p].terms) :
           ConfirmFirstConstraints(p, chosen) \/ InvalidateConfirmedContext(p, chosen)
    BY DEF ConfirmConstraints
  <1>2. candidate' = NoCandidate /\ roster' = roster /\ p \in roster
    BY DEF ConfirmConstraints, RetireCurrentProposal, Command
  <1>3. CASE ConfirmFirstConstraints(p, chosen)
    <2>1. /\ readiness[p] = "NOT_STARTED" /\ UNCHANGED <<question, permission>>
          /\ \A q \in Participant : q # p => terms'[q] = terms[q] /\ readiness'[q] = readiness[q]
      BY <1>3 DEF ConfirmFirstConstraints, TypeOK, OwnerTypeOK
    <2>2. ~SomePending(question)
      BY <1>2, <2>1 DEF SafetyInv, QuestionsHoldTheDecision, InputComplete
    <2>3. \A o \in Option : permission[p][o] # "ACTIVE"
      BY <2>1 DEF ConsentInv, ConsentersAnswered
    <2>4. ProposalHonoursConditions'
      BY <1>2 DEF ProposalHonoursConditions
    <2>5. RefusalIsRespected'
      BY <2>1, <2>2 DEF RefusalIsRespected, SomePending
    <2>6. PermissionHasConsent'
      BY <1>2, <2>1, <2>3 DEF ConsentInv, PermissionHasConsent
    <2>7. ConsentersAnswered'
      BY <1>2, <2>1, <2>2, <2>3 DEF ConsentInv, ConsentersAnswered, SomePending
    <2> QED
      BY <2>4, <2>5, <2>6, <2>7 DEF ConsentInv
  <1>4. CASE InvalidateConfirmedContext(p, chosen)
    BY <1>2, <1>4, ConsentCleared DEF InvalidateConfirmedContext
  <1> QED BY <1>1, <1>3, <1>4

LEMMA AnswerNegotiationConsent ==
    ASSUME TypeOK, SafetyInv, ConsentInv, NEW p \in Participant, NEW o \in Option,
           NEW allow \in BOOLEAN, AnswerNegotiation(p, o, allow)
    PROVE  ConsentInv'
  <1>1. UNCHANGED <<roster, terms, readiness, candidate>>
    BY DEF AnswerNegotiation, frameVars, ownerVars, proposalVars
  <1>2. SomePending(question) /\ p \in roster /\ o \notin terms[p].neg
    BY DEF AnswerNegotiation, SomePending, Command
  <1>3. candidate = NoCandidate /\ readiness[p] = "READY"
    BY <1>2 DEF SafetyInv, QuestionsHoldTheDecision, InputComplete
  <1>4. \A q \in Participant, x \in Option :
           /\ question'[q][x] = IF q = p /\ x = o THEN IF allow THEN "ALLOWED" ELSE "DECLINED"
                                ELSE question[q][x]
           /\ permission'[q][x] = IF q = p /\ x = o /\ allow THEN "ACTIVE" ELSE permission[q][x]
           /\ x \in refused'[q] <=> x \in refused[q] \/ (q = p /\ x = o /\ ~allow)
    BY DEF AnswerNegotiation, TypeOK, ConsentTypeOK
  <1>5. ProposalHonoursConditions'
    BY <1>1, <1>3 DEF ProposalHonoursConditions
  <1>6. RefusalIsRespected'
    BY <1>1, <1>4 DEF ConsentInv, RefusalIsRespected
  <1>7. PermissionHasConsent'
    <2>1. permission[p][o] # "ACTIVE"
      BY DEF ConsentInv, PermissionHasConsent, AnswerNegotiation
    <2> QED
      BY <1>1, <1>2, <1>4, <2>1 DEF ConsentInv, PermissionHasConsent
  <1>8. ConsentersAnswered'
    BY <1>1, <1>3, <1>4 DEF ConsentInv, ConsentersAnswered
  <1> QED
    BY <1>5, <1>6, <1>7, <1>8 DEF ConsentInv

LEMMA RevokeNegotiationConsent ==
    ASSUME TypeOK, ConsentInv, NEW p \in Participant, NEW o \in Option, RevokeNegotiation(p, o)
    PROVE  ConsentInv'
  <1>1. UNCHANGED <<roster, terms, readiness, question, refused>>
    BY DEF RevokeNegotiation, frameVars, ownerVars
  <1>2. \A q \in Participant, x \in Option :
           permission'[q][x] = IF q = p /\ x = o THEN "REVOKED" ELSE permission[q][x]
    BY DEF RevokeNegotiation, TypeOK, ConsentTypeOK
  <1>3. \/ candidate' = NoCandidate
        \/ candidate' = candidate /\ (candidate # NoCandidate => <<p, o>> \notin candidate.deps)
    BY DEF RevokeNegotiation, SupersedeProposal, RetireCurrentProposal, proposalVars
  <1>4. ProposalHonoursConditions'
    <2> SUFFICES ASSUME candidate' # NoCandidate, NEW q \in roster
                 PROVE  /\ candidate.option \in terms[q].hard
                        /\ \/ candidate.option \in terms[q].neg
                           \/ /\ <<q, candidate.option>> \in candidate.deps
                              /\ permission'[q][candidate.option] = "ACTIVE"
      BY <1>1, <1>3 DEF ProposalHonoursConditions
    <2>1. candidate # NoCandidate /\ <<p, o>> \notin candidate.deps
      BY <1>3
    <2>2. candidate.option \in Option /\ q \in Participant
      BY <2>1, CandidateIsProposal DEF Candidate, TypeOK, FrameTypeOK
    <2> QED
      BY <1>2, <2>1, <2>2 DEF ConsentInv, ProposalHonoursConditions
  <1>5. RefusalIsRespected' /\ PermissionHasConsent' /\ ConsentersAnswered'
    BY <1>1, <1>2 DEF ConsentInv, RefusalIsRespected, PermissionHasConsent, ConsentersAnswered
  <1> QED
    BY <1>4, <1>5 DEF ConsentInv

LEMMA SweepConsent ==
    ASSUME TypeOK, ConsentInv, Sweep
    PROVE  ConsentInv'
  <1>1. UNCHANGED <<roster, terms, readiness, refused>>
    BY DEF Sweep, frameVars, ownerVars
  <1>2. \A q \in Participant, x \in Option :
           /\ question'[q][x] = "PENDING" => question[q][x] = "PENDING"
           /\ question[q][x] = "ALLOWED" => question'[q][x] = "ALLOWED"
           /\ permission'[q][x] = "ACTIVE" => permission[q][x] = "ACTIVE"
    BY DEF Sweep, TypeOK, ConsentTypeOK
  <1>3. \/ candidate' = NoCandidate
        \/ /\ candidate' = candidate
           /\ candidate # NoCandidate =>
                \A d \in candidate.deps : permission'[d[1]][d[2]] = "ACTIVE"
    BY DEF Sweep, SupersedeProposal, RetireCurrentProposal, proposalVars
  <1>4. ProposalHonoursConditions'
    <2> SUFFICES ASSUME candidate' # NoCandidate, NEW q \in roster
                 PROVE  /\ candidate.option \in terms[q].hard
                        /\ \/ candidate.option \in terms[q].neg
                           \/ /\ <<q, candidate.option>> \in candidate.deps
                              /\ permission'[q][candidate.option] = "ACTIVE"
      BY <1>1, <1>3 DEF ProposalHonoursConditions
    <2>1. \A d \in candidate.deps : permission'[d[1]][d[2]] = "ACTIVE"
      BY <1>3
    <2>2. <<q, candidate.option>> \in candidate.deps =>
             permission'[q][candidate.option] = "ACTIVE"
      BY <2>1
    <2> QED
      BY <1>3, <2>2 DEF ConsentInv, ProposalHonoursConditions
  <1>5. RefusalIsRespected' /\ PermissionHasConsent' /\ ConsentersAnswered'
    BY <1>1, <1>2 DEF ConsentInv, RefusalIsRespected, PermissionHasConsent, ConsentersAnswered
  <1> QED
    BY <1>4, <1>5 DEF ConsentInv

LEMMA CompleteReasoningConsent ==
    ASSUME TypeOK, ConsentInv, NEW o \in Option, NEW deps \in SUBSET (Participant \X Option),
           CompleteReasoning(o, deps)
    PROVE  ConsentInv'
  <1>1. UNCHANGED <<roster, terms, readiness, question, permission, refused>>
    BY DEF CompleteReasoning, frameVars, ownerVars, consentVars
  <1>2. CASE Verdict(o, deps) = "VALID"
    <2>1. candidate' = [version |-> proposalVersion + 1, context |-> job,
                        option |-> o, deps |-> deps]
      BY <1>2 DEF CompleteReasoning
    <2>2. candidate'.option = o /\ candidate'.deps = deps
      BY <2>1
    <2>3. \A p \in roster : o \in terms[p].hard
      BY <1>2 DEF Verdict
    <2>4. /\ deps = {<<p, o>> : p \in Failing(o)}
          /\ \A p \in Failing(o) : Granted(p, o)
      BY <1>2 DEF Verdict
    <2>5. ProposalHonoursConditions'
      <3> SUFFICES ASSUME NEW p \in roster
                   PROVE  /\ o \in terms[p].hard
                          /\ \/ o \in terms[p].neg
                             \/ <<p, o>> \in deps /\ permission[p][o] = "ACTIVE"
        BY <1>1, <2>2 DEF ProposalHonoursConditions
      <3>1. o \in terms[p].hard
        BY <2>3
      <3>2. o \notin terms[p].neg => <<p, o>> \in deps /\ permission[p][o] = "ACTIVE"
        BY <2>4 DEF Failing, Granted
      <3> QED
        BY <3>1, <3>2
    <2>6. RefusalIsRespected' /\ PermissionHasConsent' /\ ConsentersAnswered'
      BY <1>1 DEF ConsentInv, RefusalIsRespected, PermissionHasConsent, ConsentersAnswered
    <2> QED
      BY <2>5, <2>6 DEF ConsentInv
  <1>3. CASE Verdict(o, deps) # "VALID"
    <2>1. candidate' = NoCandidate
      BY <1>3 DEF CompleteReasoning
    <2> QED
      BY <1>1, <2>1, ConsentKept
  <1> QED BY <1>2, <1>3

LEMMA AskNegotiationConsent ==
    ASSUME TypeOK, ConsentInv, NEW p \in Participant, AskNegotiation(p)
    PROVE  ConsentInv'
  <1> DEFINE o == pending.option
  <1>1. /\ UNCHANGED <<roster, terms, readiness, permission, refused>>
        /\ candidate' = NoCandidate
        /\ p \in Failing(o) /\ o \notin refused[p]
        /\ question' = [question EXCEPT ![p][o] = "PENDING"] /\ question[p][o] = "NONE"
    BY DEF AskNegotiation, frameVars, ownerVars
  <1>2. p \in roster /\ o \notin terms[p].neg
    BY <1>1 DEF Failing
  <1>3. \A q \in Participant, x \in Option :
           question'[q][x] = IF q = p /\ x = o THEN "PENDING" ELSE question[q][x]
    BY <1>1 DEF TypeOK, ConsentTypeOK
  <1>4. ProposalHonoursConditions'
    BY <1>1 DEF ProposalHonoursConditions
  <1>5. RefusalIsRespected'
    BY <1>1, <1>2, <1>3 DEF ConsentInv, RefusalIsRespected
  <1>6. PermissionHasConsent' /\ ConsentersAnswered'
    BY <1>1, <1>2, <1>3 DEF ConsentInv, PermissionHasConsent, ConsentersAnswered
  <1> QED
    BY <1>4, <1>5, <1>6 DEF ConsentInv

LEMMA StepConsent ==
    ASSUME Optional = {}, TypeOK, SafetyInv, ConsentInv, [Next]_vars
    PROVE  ConsentInv'
  <1>1. CASE OwnerStep
    <2>1. ASSUME NEW p \in Participant, ConfirmFrame(p) PROVE ConsentInv'
      BY <2>1, ConsentKept DEF ConfirmFrame, consentVars, proposalVars
    <2>2. ASSUME NEW p \in Participant, ConfirmPrivateAnswers(p) PROVE ConsentInv'
      BY <2>2, ConsentCleared DEF ConfirmPrivateAnswers, RetireCurrentProposal
    <2>3. ASSUME NEW p \in Participant, ApproveProposal(p) \/ WithdrawApproval(p)
          PROVE  ConsentInv'
      BY <2>3, ConsentKept DEF ApproveProposal, WithdrawApproval, frameVars, consentVars
    <2> QED
      BY <1>1, <2>1, <2>2, <2>3, ConfirmConstraintsConsent, AnswerNegotiationConsent,
         RevokeNegotiationConsent DEF OwnerStep
  <1>2. CASE RuntimeStep
    <2>1. ASSUME NEW p \in Participant, StoreConstraintDraft(p) PROVE ConsentInv'
      BY <2>1, ConsentKept DEF StoreConstraintDraft, frameVars, consentVars, proposalVars
    <2>2. ASSUME StartReasoning \/ GetReasoningContext \/ CancelReasoning \/ AbandonPendingReasoning
          PROVE  ConsentInv'
      BY <2>2, ConsentKept
      DEF StartReasoning, GetReasoningContext, CancelReasoning, AbandonPendingReasoning,
          frameVars, ownerVars, consentVars, proposalVars
    <2> QED
      BY <1>2, <2>1, <2>2, AskNegotiationConsent, CompleteReasoningConsent DEF RuntimeStep
  <1>3. CASE ClockStep
    <2>1. ASSUME NEW p \in Participant, NEW o \in Option, Lapse(p, o) PROVE ConsentInv'
      BY <2>1, ConsentKept DEF Lapse, frameVars, ownerVars, proposalVars
    <2> QED
      BY <1>3, <2>1, SweepConsent DEF ClockStep
  <1>4. CASE CreatorStep
    <2>1. ASSUME NEW people \in (SUBSET Participant) \ {{}}, ReviseDecision(people)
          PROVE  ConsentInv'
      BY <2>1, ConsentCleared DEF ReviseDecision, RetireCurrentProposal
    <2>2. ASSUME NEW people \in (SUBSET (Participant \ roster)) \ {{}},
                 IncludeDecisionGroupMembers(people)
          PROVE  ConsentInv'
      <3>1. candidate' = NoCandidate
        BY <2>2 DEF IncludeDecisionGroupMembers, RetireCurrentProposal
      <3>2. \A p \in Participant, o \in Option :
               question'[p][o] # "PENDING" /\ permission'[p][o] # "ACTIVE"
        BY <2>2 DEF IncludeDecisionGroupMembers
      <3> QED
        BY <3>1, <3>2 DEF ConsentInv, ProposalHonoursConditions, RefusalIsRespected,
           PermissionHasConsent, ConsentersAnswered
    <2>3. ASSUME CloseDecision PROVE ConsentInv'
      BY <2>3, ConsentKept DEF CloseDecision, RetireCurrentProposal, frameVars, ownerVars,
         consentVars
    <2> QED
      BY <1>4, <2>1, <2>2, <2>3 DEF CreatorStep
  <1>5. CASE UNCHANGED vars
    BY <1>5, ConsentKept DEF vars, frameVars, ownerVars, consentVars, proposalVars
  <1> QED BY <1>1, <1>2, <1>3, <1>4, <1>5 DEF Next

LEMMA InitConsent == Init => ConsentInv
  BY DEF Init, ConsentInv, ProposalHonoursConditions, RefusalIsRespected,
         PermissionHasConsent, ConsentersAnswered, NoneAsked

\* As long as a proposal can be approved it meets every owner's conditions or a
\* standing permission; a question is never put again to an owner who refused
\* it; a permission is in force only as the owner's own answer.
THEOREM ConsentSafety ==
    ASSUME Optional = {}
    PROVE  Spec => [](ProposalHonoursConditions /\ RefusalIsRespected /\ PermissionHasConsent)
  <1>1. Init => ConsentInv
    BY InitConsent
  <1>2. TypeOK /\ SafetyInv /\ ConsentInv /\ [Next]_vars => ConsentInv'
    BY StepConsent
  <1>3. ConsentInv => ProposalHonoursConditions /\ RefusalIsRespected /\ PermissionHasConsent
    BY DEF ConsentInv
  <1> QED
    BY <1>1, <1>2, <1>3, TypeCorrect, SafetyInvariant, PTL DEF Spec

\* An owner who declined is never asked the same again.
THEOREM RefusalsAreRespected ==
    ASSUME Optional = {}
    PROVE  Spec => []RefusalIsRespected
  BY ConsentSafety, PTL

\* A permission in force answers a question its owner allowed.
THEOREM PermissionsHaveConsent ==
    ASSUME Optional = {}
    PROVE  Spec => []PermissionHasConsent
  BY ConsentSafety, PTL

-----------------------------------------------------------------------------
(* The views: what is stored can be read, and shown to everybody *)

FramesConfirmed == status \in FramesNeeded => RequiredConfirmed

ViewInv == FramesConfirmed /\ \A p \in Participant : ConsentShown(p)

CandidateIsCurrent == candidate # NoCandidate => candidate.context = context

\* A proposal is published in the current context and retired with it.
LEMMA CandidateStaysCurrent ==
    ASSUME CandidateIsCurrent, [Next]_vars
    PROVE  CandidateIsCurrent'
  <1> USE DEF CandidateIsCurrent
  <1>1. CASE OwnerStep
    <2>1. ASSUME NEW p \in Participant, ConfirmConstraints(p) \/ ConfirmPrivateAnswers(p)
          PROVE  candidate' = NoCandidate
      BY <2>1 DEF ConfirmConstraints, ConfirmPrivateAnswers, RetireCurrentProposal
    <2>2. ASSUME NEW p \in Participant,
                 ConfirmFrame(p) \/ ApproveProposal(p) \/ WithdrawApproval(p)
          PROVE  UNCHANGED <<candidate, context>>
      BY <2>2 DEF ConfirmFrame, ApproveProposal, WithdrawApproval, frameVars, proposalVars
    <2>3. ASSUME NEW p \in Participant, NEW o \in Option, NEW allow \in BOOLEAN,
                 AnswerNegotiation(p, o, allow)
          PROVE  UNCHANGED <<candidate, context>>
      BY <2>3 DEF AnswerNegotiation, frameVars, proposalVars
    <2>4. ASSUME NEW p \in Participant, NEW o \in Option, RevokeNegotiation(p, o)
          PROVE  CandidateIsCurrent'
      BY <2>4 DEF RevokeNegotiation, SupersedeProposal, RetireCurrentProposal, frameVars,
         proposalVars
    <2> QED
      BY <1>1, <2>1, <2>2, <2>3, <2>4 DEF OwnerStep
  <1>2. CASE RuntimeStep
    <2>1. ASSUME NEW p \in Participant, StoreConstraintDraft(p) \/ AskNegotiation(p)
          PROVE  UNCHANGED <<candidate, context>>
      BY <2>1 DEF StoreConstraintDraft, AskNegotiation, frameVars, proposalVars
    <2>2. ASSUME NEW o \in Option, NEW deps \in SUBSET (Participant \X Option),
                 CompleteReasoning(o, deps)
          PROVE  CandidateIsCurrent'
      <3>1. context' = context /\ job = context
        BY <2>2 DEF CompleteReasoning, frameVars
      <3>2. candidate' # NoCandidate =>
              candidate' = [version |-> proposalVersion + 1, context |-> job,
                            option |-> o, deps |-> deps]
        BY <2>2 DEF CompleteReasoning
      <3> QED
        BY <3>1, <3>2
    <2>3. ASSUME StartReasoning \/ GetReasoningContext \/ CancelReasoning
                   \/ AbandonPendingReasoning
          PROVE  UNCHANGED <<candidate, context>>
      BY <2>3 DEF StartReasoning, GetReasoningContext, CancelReasoning,
         AbandonPendingReasoning, frameVars, proposalVars
    <2> QED
      BY <1>2, <2>1, <2>2, <2>3 DEF RuntimeStep
  <1>3. CASE ClockStep
    BY <1>3 DEF ClockStep, Sweep, Lapse, SupersedeProposal, RetireCurrentProposal, frameVars,
       proposalVars
  <1>4. CASE CreatorStep
    BY <1>4 DEF CreatorStep, ReviseDecision, IncludeDecisionGroupMembers, CloseDecision,
       RetireCurrentProposal
  <1>5. CASE UNCHANGED vars
    BY <1>5 DEF vars, frameVars, proposalVars
  <1> QED BY <1>1, <1>2, <1>3, <1>4, <1>5 DEF Next

\* The status computed from readiness needs no frame that is not confirmed.
LEMMA ReadinessStatusFrames ==
    ASSUME NEW need, NEW conf, NEW ready,
           ReadinessStatus(need, conf, ready) \in FramesNeeded
    PROVE  need \subseteq conf
  BY DEF ReadinessStatus, FramesNeeded, Live

\* A step that leaves consent and conditions alone leaves what is shown of them.
LEMMA ConsentShownKept ==
    ASSUME ViewInv, UNCHANGED <<question, permission, refused, terms>>
    PROVE  \A p \in Participant : ConsentShown(p)'
  BY DEF ViewInv, ConsentShown

\* With every question and permission withdrawn only the refusals are left.
LEMMA ConsentShownCleared ==
    ASSUME question' = NoneAsked, permission' = NoneAsked,
           \A p \in Participant : \A o \in refused'[p] : o \notin terms'[p].neg
    PROVE  \A p \in Participant : ConsentShown(p)'
  BY DEF NoneAsked, ConsentShown

LEMMA OwnerViews ==
    ASSUME TypeOK, SafetyInv, ViewInv, OwnerStep
    PROVE  ViewInv'
  <1>1. ASSUME NEW p \in Participant, ConfirmFrame(p) PROVE ViewInv'
    <2>1. \A q \in Participant : ConsentShown(q)'
      BY <1>1, ConsentShownKept DEF ConfirmFrame, consentVars
    <2>2. FramesConfirmed'
      BY <1>1, ReadinessStatusFrames DEF ConfirmFrame, ViewInv, FramesConfirmed, RequiredConfirmed
    <2> QED
      BY <2>1, <2>2 DEF ViewInv
  <1>2. ASSUME NEW p \in Participant, ConfirmConstraints(p) PROVE ViewInv'
    <2>1. PICK chosen \in Selections(draft[p].terms) :
             ConfirmFirstConstraints(p, chosen) \/ InvalidateConfirmedContext(p, chosen)
      BY <1>2 DEF ConfirmConstraints
    <2>2. p \in roster /\ RequiredConfirmed /\ UNCHANGED <<roster, required>>
      BY <1>2 DEF ConfirmConstraints, Command
    <2>3. CASE ConfirmFirstConstraints(p, chosen)
      <3>1. ~SomePending(question)
        BY <2>2, <2>3
        DEF ConfirmFirstConstraints, SafetyInv, QuestionsHoldTheDecision, InputComplete
      <3>2. /\ \A q \in Participant : q # p => terms'[q] = terms[q] /\ refused'[q] = refused[q]
            /\ refused'[p] = {} /\ UNCHANGED <<question, permission>>
        BY <2>3 DEF ConfirmFirstConstraints, TypeOK, OwnerTypeOK, ConsentTypeOK
      <3>3. \A q \in Participant : ConsentShown(q)'
        BY <3>1, <3>2 DEF ViewInv, ConsentShown, SomePending
      <3>4. FramesConfirmed'
        BY <2>2, <2>3 DEF ConfirmFirstConstraints, FramesConfirmed, RequiredConfirmed
      <3> QED
        BY <3>3, <3>4 DEF ViewInv
    <2>4. CASE InvalidateConfirmedContext(p, chosen)
      <3>1. \A q \in Participant : ConsentShown(q)'
        BY <2>4, ConsentShownCleared DEF InvalidateConfirmedContext, NoneRefused
      <3>2. FramesConfirmed'
        BY <2>2, <2>4, ReadinessStatusFrames
        DEF InvalidateConfirmedContext, FramesConfirmed, RequiredConfirmed
      <3> QED
        BY <3>1, <3>2 DEF ViewInv
    <2> QED BY <2>1, <2>3, <2>4
  <1>3. ASSUME NEW p \in Participant, ConfirmPrivateAnswers(p) PROVE ViewInv'
    <2>1. /\ \A q \in Participant : q # p => terms'[q] = terms[q] /\ refused'[q] = refused[q]
          /\ refused'[p] = {}
      BY <1>3 DEF ConfirmPrivateAnswers, TypeOK, OwnerTypeOK, ConsentTypeOK
    <2>2. question' = NoneAsked /\ permission' = NoneAsked
      BY <1>3 DEF ConfirmPrivateAnswers
    <2>3. \A q \in Participant : \A o \in refused'[q] : o \notin terms'[q].neg
      BY <2>1 DEF ViewInv, ConsentShown, TypeOK, ConsentTypeOK
    <2>4. \A q \in Participant : ConsentShown(q)'
      BY <2>2, <2>3, ConsentShownCleared
    <2>5. FramesConfirmed'
      BY <1>3, ReadinessStatusFrames
      DEF ConfirmPrivateAnswers, FramesConfirmed, RequiredConfirmed
    <2> QED
      BY <2>4, <2>5 DEF ViewInv
  <1>4. ASSUME NEW p \in Participant, ApproveProposal(p) \/ WithdrawApproval(p) PROVE ViewInv'
    <2>1. \A q \in Participant : ConsentShown(q)'
      BY <1>4, ConsentShownKept DEF ApproveProposal, WithdrawApproval, consentVars
    <2>2. status \in Live
      BY <1>4 DEF ApproveProposal, WithdrawApproval, SafetyInv, ProposalMatchesStatus
    <2>3. RequiredConfirmed'
      BY <1>4, <2>2 DEF ApproveProposal, WithdrawApproval, SafetyInv,
         ProposalRestsOnCompleteInput, InputComplete, RequiredConfirmed, frameVars
    <2> QED
      BY <2>1, <2>3 DEF ViewInv, FramesConfirmed
  <1>5. ASSUME NEW p \in Participant, NEW o \in Option, NEW allow \in BOOLEAN,
               AnswerNegotiation(p, o, allow)
        PROVE  ViewInv'
    <2>1. \A q \in Participant, x \in Option :
             /\ question'[q][x] = IF q = p /\ x = o THEN IF allow THEN "ALLOWED" ELSE "DECLINED"
                                  ELSE question[q][x]
             /\ permission'[q][x] = IF q = p /\ x = o /\ allow THEN "ACTIVE" ELSE permission[q][x]
             /\ x \in refused'[q] <=> x \in refused[q] \/ (q = p /\ x = o /\ ~allow)
      BY <1>5 DEF AnswerNegotiation, TypeOK, ConsentTypeOK
    <2>2. o \notin terms[p].neg /\ UNCHANGED <<terms, required, confirmed>>
          /\ SomePending(question)
      BY <1>5 DEF AnswerNegotiation, ownerVars, frameVars, SomePending
    <2>3. \A q \in Participant : ConsentShown(q)'
      BY <2>1, <2>2 DEF ViewInv, ConsentShown
    <2>4. RequiredConfirmed'
      BY <2>2 DEF SafetyInv, QuestionsHoldTheDecision, InputComplete, RequiredConfirmed
    <2> QED
      BY <2>3, <2>4 DEF ViewInv, FramesConfirmed
  <1>6. ASSUME NEW p \in Participant, NEW o \in Option, RevokeNegotiation(p, o) PROVE ViewInv'
    <2>1. \A q \in Participant, x \in Option :
             permission'[q][x] = IF q = p /\ x = o THEN "REVOKED" ELSE permission[q][x]
      BY <1>6 DEF RevokeNegotiation, TypeOK, ConsentTypeOK
    <2>2. /\ UNCHANGED <<question, refused, terms, required, confirmed>>
          /\ permission[p][o] = "ACTIVE" /\ status' \in {status, "SUPERSEDED"}
      BY <1>6 DEF RevokeNegotiation, ownerVars, frameVars, SupersedeProposal
    <2>3. \A q \in Participant : ConsentShown(q)'
      BY <2>1, <2>2 DEF ViewInv, ConsentShown
    <2>4. FramesConfirmed'
      BY <2>2 DEF ViewInv, FramesConfirmed, FramesNeeded, Live, RequiredConfirmed
    <2> QED
      BY <2>3, <2>4 DEF ViewInv
  <1> QED
    BY <1>1, <1>2, <1>3, <1>4, <1>5, <1>6 DEF OwnerStep

LEMMA RuntimeViews ==
    ASSUME TypeOK, SafetyInv, ViewInv, RuntimeStep
    PROVE  ViewInv'
  <1>1. ASSUME NEW p \in Participant, StoreConstraintDraft(p) PROVE ViewInv'
    <2>1. \A q \in Participant : ConsentShown(q)'
      BY <1>1, ConsentShownKept DEF StoreConstraintDraft, consentVars
    <2>2. RequiredConfirmed'
      BY <1>1 DEF StoreConstraintDraft, RequiredConfirmed, frameVars
    <2> QED
      BY <2>1, <2>2 DEF ViewInv, FramesConfirmed
  <1>2. ASSUME NEW p \in Participant, AskNegotiation(p) PROVE ViewInv'
    <2> DEFINE x == pending.option
    <2>1. /\ UNCHANGED <<permission, refused, terms, required, confirmed>>
          /\ RequiredConfirmed /\ p \in Failing(x)
          /\ question' = [question EXCEPT ![p][x] = "PENDING"]
      BY <1>2 DEF AskNegotiation, frameVars, ownerVars
    <2>2. \A q \in Participant, o \in Option :
             question'[q][o] = IF q = p /\ o = x THEN "PENDING" ELSE question[q][o]
      BY <2>1 DEF TypeOK, ConsentTypeOK
    <2>3. x \notin terms[p].neg
      BY <2>1 DEF Failing
    <2>4. \A q \in Participant : ConsentShown(q)'
      BY <2>1, <2>2, <2>3 DEF ViewInv, ConsentShown
    <2> QED
      BY <2>1, <2>4 DEF ViewInv, FramesConfirmed, RequiredConfirmed
  <1>3. ASSUME StartReasoning \/ GetReasoningContext \/ CancelReasoning \/ AbandonPendingReasoning
        PROVE  ViewInv'
    <2>1. \A q \in Participant : ConsentShown(q)'
      BY <1>3, ConsentShownKept DEF StartReasoning, GetReasoningContext, CancelReasoning,
         AbandonPendingReasoning, consentVars, ownerVars
    <2>2. RequiredConfirmed'
      BY <1>3 DEF StartReasoning, GetReasoningContext, CancelReasoning,
         AbandonPendingReasoning, frameVars, SafetyInv, ProposalRestsOnCompleteInput,
         InputComplete, RequiredConfirmed
    <2> QED
      BY <2>1, <2>2 DEF ViewInv, FramesConfirmed
  <1>4. ASSUME NEW o \in Option, NEW deps \in SUBSET (Participant \X Option),
               CompleteReasoning(o, deps)
        PROVE  ViewInv'
    <2>1. \A q \in Participant : ConsentShown(q)'
      BY <1>4, ConsentShownKept DEF CompleteReasoning, consentVars, ownerVars
    <2>2. RequiredConfirmed'
      BY <1>4 DEF CompleteReasoning, frameVars, SafetyInv, ProposalRestsOnCompleteInput,
         InputComplete, RequiredConfirmed
    <2> QED
      BY <2>1, <2>2 DEF ViewInv, FramesConfirmed
  <1> QED
    BY <1>1, <1>2, <1>3, <1>4 DEF RuntimeStep

LEMMA ClockAndCreatorViews ==
    ASSUME TypeOK, SafetyInv, ViewInv, ClockStep \/ CreatorStep
    PROVE  ViewInv'
  <1>1. ASSUME NEW p \in Participant, NEW o \in Option, Lapse(p, o) PROVE ViewInv'
    <2>1. \A q \in Participant : ConsentShown(q)'
      BY <1>1, ConsentShownKept DEF Lapse, ownerVars
    <2> QED
      BY <1>1, <2>1 DEF Lapse, frameVars, ViewInv, FramesConfirmed, RequiredConfirmed
  <1>2. ASSUME Sweep PROVE ViewInv'
    <2>1. UNCHANGED <<refused, terms, required, confirmed>>
      BY <1>2 DEF Sweep, frameVars, ownerVars
    <2>2. \A q \in Participant, x \in Option :
             /\ question'[q][x] = "PENDING" => question[q][x] = "PENDING"
             /\ question[q][x] # "NONE" => question'[q][x] # "NONE"
             /\ permission'[q][x] # "NONE" => permission[q][x] # "NONE"
      BY <1>2 DEF Sweep, TypeOK, ConsentTypeOK
    <2>3. \A q \in Participant : ConsentShown(q)'
      BY <2>1, <2>2 DEF ViewInv, ConsentShown
    <2>4. FramesConfirmed'
      BY <1>2, <2>1, ReadinessStatusFrames
      DEF Sweep, SupersedeProposal, ViewInv, FramesConfirmed, FramesNeeded, Live, RequiredConfirmed
    <2> QED
      BY <2>3, <2>4 DEF ViewInv
  <1>3. ASSUME NEW people \in (SUBSET Participant) \ {{}}, ReviseDecision(people)
        PROVE  ViewInv'
    <2>1. \A q \in Participant : ConsentShown(q)'
      BY <1>3, ConsentShownCleared DEF ReviseDecision, NoneRefused
    <2> QED
      BY <1>3, <2>1 DEF ReviseDecision, ViewInv, FramesConfirmed, FramesNeeded, Live
  <1>4. ASSUME NEW people \in (SUBSET (Participant \ roster)) \ {{}},
               IncludeDecisionGroupMembers(people)
        PROVE  ViewInv'
    <2>1. UNCHANGED <<terms, refused, confirmed>>
      BY <1>4 DEF IncludeDecisionGroupMembers, ownerVars
    <2>2. \A q \in Participant, x \in Option :
             /\ question'[q][x] # "PENDING"
             /\ question[q][x] # "NONE" => question'[q][x] # "NONE"
             /\ permission'[q][x] # "NONE" => permission[q][x] # "NONE"
      BY <1>4 DEF IncludeDecisionGroupMembers, TypeOK, ConsentTypeOK
    <2>3. \A q \in Participant : ConsentShown(q)'
      BY <2>1, <2>2 DEF ViewInv, ConsentShown
    <2>4. FramesConfirmed'
      BY <1>4, ReadinessStatusFrames
      DEF IncludeDecisionGroupMembers, FramesConfirmed, RequiredConfirmed
    <2> QED
      BY <2>3, <2>4 DEF ViewInv
  <1>5. ASSUME CloseDecision PROVE ViewInv'
    <2>1. \A q \in Participant : ConsentShown(q)'
      BY <1>5, ConsentShownKept DEF CloseDecision, consentVars, ownerVars
    <2> QED
      BY <1>5, <2>1 DEF CloseDecision, ViewInv, FramesConfirmed, FramesNeeded, Live
  <1> QED
    BY <1>1, <1>2, <1>3, <1>4, <1>5 DEF ClockStep, CreatorStep

\* What is stored of a decision can always be read, and the public part and
\* everybody's consent and approval can always be shown.
THEOREM ViewsCanBeShown ==
    ASSUME Optional = {}
    PROVE  Spec => []OnlyADraftHidesAView
  <1>1. Init => ViewInv /\ CandidateIsCurrent
    BY DEF Init, CandidateIsCurrent, ViewInv, FramesConfirmed, FramesNeeded, Live, ConsentShown, NoneAsked, NoneRefused
  <1>2. TypeOK /\ SafetyInv /\ ViewInv /\ CandidateIsCurrent /\ [Next]_vars
          => ViewInv' /\ CandidateIsCurrent'
    <2> SUFFICES ASSUME TypeOK, SafetyInv, ViewInv, CandidateIsCurrent, [Next]_vars
                 PROVE  ViewInv'
      BY CandidateStaysCurrent
    <2>1. CASE UNCHANGED vars
      BY <2>1, ConsentShownKept DEF vars, frameVars, ownerVars, consentVars, ViewInv,
         FramesConfirmed, RequiredConfirmed
    <2> QED
      BY <2>1, OwnerViews, RuntimeViews, ClockAndCreatorViews DEF Next
  <1>3. TypeOK /\ SafetyInv /\ ViewInv /\ CandidateIsCurrent => OnlyADraftHidesAView
    <2> SUFFICES ASSUME TypeOK, SafetyInv, ViewInv, CandidateIsCurrent
                 PROVE OnlyADraftHidesAView
      OBVIOUS
    <2>1. roster \subseteq Participant /\ required = roster /\ confirmed \subseteq roster
      BY DEF TypeOK, FrameTypeOK, SafetyInv
    <2>2. candidate # NoCandidate => candidate.version # 0
      BY CandidateIsProposal
    <2>3. \A p \in Participant : approval[p] # 0 =>
             candidate # NoCandidate /\ candidate.context = context
             /\ approval[p] = candidate.version /\ p \in required
      BY DEF SafetyInv, ApprovalsAreCurrent
    <2>4. status = "AGREED" => \A p \in required : approval[p] = candidate.version
      BY DEF SafetyInv, AgreementIsUnanimous
    <2>5. status \in Live <=> candidate # NoCandidate
      BY DEF SafetyInv, ProposalMatchesStatus
    <2>6. job \in {0, context}
      BY DEF SafetyInv, JobRunsAlone
    <2>7. candidate # NoCandidate => candidate.context = context
      BY DEF CandidateIsCurrent
    <2>8. status = "AGREED" => Approved = required
      BY <2>1, <2>4, <2>5 DEF Approved, CurrentApprovals, Live
    <2>9. status \notin Live \/ status = "PROPOSED" => Approved = {}
      BY <2>1, <2>2, <2>5 DEF Approved, CurrentApprovals, SafetyInv, AgreementIsUnanimous
    <2>10. DecisionRecord
      BY <2>1, <2>2, <2>3, <2>4, <2>5, <2>6 DEF DecisionRecord, Live
    <2>11. PublicDecisionSnapshot
      BY <2>1, <2>5, <2>7, <2>8, <2>9
      DEF PublicDecisionSnapshot, ViewInv, FramesConfirmed, Approved, CurrentApprovals
    <2>12. \A p \in roster : ConsentShown(p) /\ ApprovalShown(p)
      BY <2>1, <2>3 DEF ViewInv, ApprovalShown
    <2> QED
      BY <2>10, <2>11, <2>12 DEF OnlyADraftHidesAView
  <1> QED
    BY <1>1, <1>2, <1>3, TypeCorrect, SafetyInvariant, PTL DEF Spec

-----------------------------------------------------------------------------
(* The decision implements DecisionAgreement *)

\* Steps that leave the proposal, the roster and the agreement alone stutter.
LEMMA StepStutters ==
    ASSUME UNCHANGED <<candidate, proposalVersion, required, approval, agreements>>,
           status' = "AGREED" <=> status = "AGREED"
    PROVE  UNCHANGED Agreement!vars
  <1>1. StandingBy' = StandingBy
    BY DEF StandingBy
  <1>2. (status' = "AGREED") = (status = "AGREED")
    OBVIOUS
  <1> QED
    BY <1>1, <1>2 DEF Agreement!vars

\* Retiring the proposal clears the table.
LEMMA RetiringClears ==
    ASSUME TypeOK', RetireCurrentProposal, status' # "AGREED"
    PROVE  Agreement!Clear
  <1>1. /\ candidate' = NoCandidate /\ UNCHANGED <<proposalVersion, agreements>>
    BY DEF RetireCurrentProposal
  <1>2. candidate'.version = 0
    BY <1>1 DEF NoCandidate
  <1>3. StandingBy' = {}
    BY <1>1 DEF StandingBy
  <1>4. required' \in SUBSET Participant
    BY DEF TypeOK, FrameTypeOK
  <1>5. (status' = "AGREED") = FALSE
    OBVIOUS
  <1> QED
    BY <1>1, <1>2, <1>3, <1>4, <1>5 DEF Agreement!Clear

\* An approval is a vote for the offer on the table.
LEMMA ApproveVotes ==
    ASSUME TypeOK, SafetyInv, SafetyInv', NEW p \in Participant, ApproveProposal(p)
    PROVE  Agreement!Vote(p)
  <1>1. /\ candidate # NoCandidate /\ p \in required
        /\ approval' = [approval EXCEPT ![p] = candidate.version]
        /\ UNCHANGED <<candidate, proposalVersion, required, roster>>
    BY DEF ApproveProposal, frameVars
  <1>2. candidate \in Candidate /\ candidate.version # 0
    BY <1>1, CandidateIsProposal
  <1>3. StandingBy' = StandingBy \union {p}
    BY <1>1 DEF StandingBy, TypeOK, ProposalTypeOK
  <1>4. required \subseteq CurrentApprovals(approval') <=> required \subseteq StandingBy'
    BY <1>1 DEF CurrentApprovals, StandingBy, TypeOK, FrameTypeOK
  <1>5. (status' = "AGREED") = (required \subseteq StandingBy')
    BY <1>4 DEF ApproveProposal
  <1>6. {q \in roster : approval'[q] # 0} = StandingBy'
    <2>1. \A q \in Participant : approval'[q] # 0 => approval'[q] = candidate.version
      BY <1>1 DEF SafetyInv, ApprovalsAreCurrent
    <2>2. \A q \in Participant : approval'[q] # 0 => q \in roster
      BY <1>1 DEF SafetyInv, ApprovalsAreCurrent
    <2> QED
      BY <1>1, <1>2, <2>1, <2>2 DEF StandingBy, TypeOK, FrameTypeOK
  <1> DEFINE outcomes(as) == {[offer |-> a.proposal.version, voters |-> a.approvers] : a \in as}
  <1>7. outcomes(agreements') =
          IF status' = "AGREED"
          THEN outcomes(agreements) \union {[offer |-> candidate.version, voters |-> StandingBy']}
          ELSE outcomes(agreements)
    <2>1. CASE status' = "AGREED"
      <3> DEFINE new == [proposal |-> candidate, approvers |-> {q \in roster : approval'[q] # 0}]
      <3>1. agreements' = agreements \union {new}
        BY <2>1 DEF ApproveProposal
      <3>2. outcomes(agreements') =
              outcomes(agreements) \union {[offer |-> new.proposal.version, voters |-> new.approvers]}
        BY <3>1
      <3>3. new.proposal.version = candidate.version /\ new.approvers = StandingBy'
        BY <1>6
      <3> HIDE DEF new
      <3> QED
        BY <2>1, <3>2, <3>3
    <2>2. CASE status' # "AGREED"
      BY <2>2 DEF ApproveProposal
    <2> QED BY <2>1, <2>2
  <1> QED
    BY <1>1, <1>2, <1>3, <1>5, <1>7 DEF Agreement!Vote

\* A withdrawal takes the owner's own vote back.
LEMMA WithdrawRetracts ==
    ASSUME TypeOK, SafetyInv, NEW p \in Participant, WithdrawApproval(p)
    PROVE  Agreement!Retract(p)
  <1>1. /\ candidate # NoCandidate /\ approval[p] # 0
        /\ approval' = [approval EXCEPT ![p] = 0]
        /\ UNCHANGED <<candidate, proposalVersion, required, agreements>>
        /\ status' # "AGREED"
    BY DEF WithdrawApproval, frameVars
  <1>2. candidate.version # 0
    BY <1>1, CandidateIsProposal
  <1>3. approval[p] = candidate.version
    BY <1>1 DEF SafetyInv, ApprovalsAreCurrent
  <1>4. p \in StandingBy /\ StandingBy' = StandingBy \ {p}
    BY <1>1, <1>2, <1>3 DEF StandingBy, TypeOK, ProposalTypeOK
  <1>5. (status' = "AGREED") = FALSE
    BY <1>1
  <1> QED
    BY <1>1, <1>4, <1>5 DEF Agreement!Retract

\* A valid candidate is a new offer on a clear table; any other verdict stutters.
LEMMA CompletingProposes ==
    ASSUME TypeOK, SafetyInv, NEW o \in Option, NEW deps \in SUBSET (Participant \X Option),
           CompleteReasoning(o, deps)
    PROVE  Agreement!Propose \/ UNCHANGED Agreement!vars
  <1>1. /\ status = "REASONING" /\ UNCHANGED <<required, agreements>>
        /\ candidate = NoCandidate
    BY BoundAssumption DEF CompleteReasoning, frameVars, SafetyInv, JobRunsAlone, TypeOK,
       FrameTypeOK
  <1>2. CASE Verdict(o, deps) = "VALID"
    <2> DEFINE offered == [version |-> proposalVersion + 1, context |-> job,
                           option |-> o, deps |-> deps]
    <2>1. /\ candidate' = offered /\ status' = "PROPOSED"
          /\ proposalVersion' = offered.version
          /\ approval' = [p \in Participant |-> 0]
      BY <1>2 DEF CompleteReasoning
    <2>2. offered.version = proposalVersion + 1 /\ offered.version # 0
      BY DEF TypeOK, ProposalTypeOK
    <2>3. candidate'.version = proposalVersion + 1 /\ proposalVersion' = proposalVersion + 1
      BY <2>1, <2>2
    <2>4. candidate.version = 0 /\ StandingBy = {}
      BY <1>1 DEF NoCandidate, StandingBy
    <2>5. StandingBy' = {}
      BY <2>1, <2>2 DEF StandingBy
    <2>6. (status' = "AGREED") = (status = "AGREED")
      BY <1>1, <2>1
    <2> QED
      BY <1>1, <2>3, <2>4, <2>5, <2>6 DEF Agreement!Propose
  <1>3. CASE Verdict(o, deps) # "VALID"
    <2>1. /\ candidate' = NoCandidate /\ UNCHANGED <<proposalVersion, approval>>
          /\ status' \in {"PRIVATE_NEGOTIATION", "NEEDS_CLARIFICATION", "NO_AGREEMENT"}
      BY <1>3, VerdictMeaning DEF CompleteReasoning
    <2> QED
      BY <1>1, <2>1, StepStutters
  <1> QED BY <1>2, <1>3

\* Every step of the lifecycle is a step of the abstract agreement, or stutters.
LEMMA StepImplements ==
    ASSUME Optional = {}, TypeOK, SafetyInv, TypeOK', SafetyInv', [Next]_vars
    PROVE  [Agreement!Next]_(Agreement!vars)
  <1>0. ASSUME RetireCurrentProposal, status' # "AGREED" PROVE Agreement!Next
    BY <1>0, RetiringClears DEF Agreement!Next
  <1>1. ASSUME NEW p \in Participant, ConfirmFrame(p) PROVE UNCHANGED Agreement!vars
    <2>1. UNCHANGED <<candidate, proposalVersion, required, approval, agreements>>
      BY <1>1 DEF ConfirmFrame, proposalVars
    <2>2. status' = "AGREED" <=> status = "AGREED"
      <3>1. CASE p \in confirmed
        BY <1>1, <3>1 DEF ConfirmFrame
      <3>2. CASE p \notin confirmed
        <4>1. ~RequiredConfirmed
          BY <1>1, <3>2 DEF ConfirmFrame, Command, SafetyInv, RequiredConfirmed
        <4>2. status # "AGREED"
          BY <4>1 DEF SafetyInv, ProposalRestsOnCompleteInput, InputComplete, Live
        <4> QED
          BY <1>1, <3>2, <4>2, ReadinessStatusMeaning DEF ConfirmFrame, Collecting
      <3> QED BY <3>1, <3>2
    <2> QED BY <2>1, <2>2, StepStutters
  <1>2. ASSUME NEW p \in Participant, ConfirmConstraints(p) \/ ConfirmPrivateAnswers(p)
        PROVE  Agreement!Next
    <2>1. RetireCurrentProposal
      BY <1>2 DEF ConfirmConstraints, ConfirmPrivateAnswers
    <2>2. PICK need, conf, ready : status' = ReadinessStatus(need, conf, ready)
      BY <1>2 DEF ConfirmConstraints, ConfirmPrivateAnswers, ConfirmFirstConstraints,
                  InvalidateConfirmedContext
    <2>3. status' \in Collecting
      BY <2>2, ReadinessStatusMeaning
    <2> QED BY <1>0, <2>1, <2>3 DEF Collecting
  <1>3. ASSUME NEW p \in Participant, NEW o \in Option, NEW allow \in BOOLEAN,
               AnswerNegotiation(p, o, allow)
        PROVE  UNCHANGED Agreement!vars
    <2>1. SomePending(question)
      BY <1>3 DEF AnswerNegotiation, SomePending
    <2>2. status # "AGREED"
      BY <2>1 DEF SafetyInv, QuestionsHoldTheDecision, Live
    <2>3. status' # "AGREED"
      BY <1>3, ReadinessStatusMeaning DEF AnswerNegotiation, Collecting
    <2> QED
      BY <1>3, <2>2, <2>3, StepStutters DEF AnswerNegotiation, frameVars, proposalVars
  <1>4. ASSUME NEW p \in Participant, NEW o \in Option, RevokeNegotiation(p, o)
        PROVE  Agreement!Next \/ UNCHANGED Agreement!vars
    <2>1. CASE SupersedeProposal
      BY <1>0, <2>1 DEF SupersedeProposal
    <2>2. CASE UNCHANGED <<status, proposalVars>>
      BY <1>4, <2>2, StepStutters DEF RevokeNegotiation, frameVars, proposalVars
    <2> QED BY <1>4, <2>1, <2>2 DEF RevokeNegotiation
  <1>5. CASE ClockStep
    <2>1. ASSUME NEW p \in Participant, NEW o \in Option, Lapse(p, o)
          PROVE  UNCHANGED Agreement!vars
      BY <2>1, StepStutters DEF Lapse, frameVars, proposalVars
    <2>2. CASE Sweep /\ SupersedeProposal
      BY <1>0, <2>2 DEF SupersedeProposal
    <2>3. CASE Sweep /\ ~SupersedeProposal
      <3>1. /\ UNCHANGED proposalVars
            /\ status' = IF status = "PRIVATE_NEGOTIATION" /\ ~SomePending(question')
                         THEN ReadinessStatus(required, confirmed, readiness) ELSE status
        BY <2>3 DEF Sweep
      <3>2. status' = "AGREED" <=> status = "AGREED"
        BY <3>1, ReadinessStatusMeaning DEF Collecting
      <3> QED
        BY <2>3, <3>1, <3>2, StepStutters DEF Sweep, frameVars, proposalVars
    <2> QED BY <1>5, <2>1, <2>2, <2>3 DEF ClockStep
  <1>6. CASE RuntimeStep
    <2>1. ASSUME NEW p \in Participant, StoreConstraintDraft(p) PROVE UNCHANGED Agreement!vars
      <3>1. UNCHANGED <<candidate, proposalVersion, required, approval, agreements>>
        BY <2>1 DEF StoreConstraintDraft, frameVars, proposalVars
      <3>2. status' = "AGREED" <=> status = "AGREED"
        BY <2>1 DEF StoreConstraintDraft, SafetyInv, ProposalMatchesStatus, Live
      <3> QED BY <3>1, <3>2, StepStutters
    <2>2. ASSUME NEW p \in Participant, AskNegotiation(p) PROVE UNCHANGED Agreement!vars
      BY <2>2, StepStutters DEF AskNegotiation, frameVars
    <2>3. ASSUME StartReasoning \/ GetReasoningContext \/ CancelReasoning \/ AbandonPendingReasoning
          PROVE  UNCHANGED Agreement!vars
      <3>1. status # "AGREED"
        BY <2>3 DEF StartReasoning, GetReasoningContext, CancelReasoning, AbandonPendingReasoning
      <3>2. status' # "AGREED"
        BY <2>3, <3>1, ReadinessStatusMeaning
        DEF StartReasoning, GetReasoningContext, CancelReasoning, AbandonPendingReasoning, Collecting
      <3> QED
        BY <2>3, <3>1, <3>2, StepStutters
        DEF StartReasoning, GetReasoningContext, CancelReasoning, AbandonPendingReasoning,
            frameVars, proposalVars
    <2>4. ASSUME NEW o \in Option, NEW deps \in SUBSET (Participant \X Option),
                 CompleteReasoning(o, deps)
          PROVE  Agreement!Next \/ UNCHANGED Agreement!vars
      BY <2>4, CompletingProposes DEF Agreement!Next
    <2> QED BY <1>6, <2>1, <2>2, <2>3, <2>4 DEF RuntimeStep
  <1>7. CASE CreatorStep
    <2>1. RetireCurrentProposal
      BY <1>7 DEF CreatorStep, ReviseDecision, IncludeDecisionGroupMembers, CloseDecision
    <2>2. status' \in Collecting \union {"CLOSED"}
      BY <1>7, ReadinessStatusMeaning
      DEF CreatorStep, ReviseDecision, IncludeDecisionGroupMembers, CloseDecision, Collecting
    <2> QED BY <1>0, <2>1, <2>2 DEF Collecting
  <1>8. CASE UNCHANGED vars
    BY <1>8, StepStutters DEF vars, frameVars, proposalVars
  <1>9. ASSUME NEW p \in Participant, ApproveProposal(p) \/ WithdrawApproval(p)
        PROVE  Agreement!Next
    BY <1>9, ApproveVotes, WithdrawRetracts DEF Agreement!Next
  <1>10. CASE OwnerStep
    BY <1>1, <1>2, <1>3, <1>4, <1>9, <1>10 DEF OwnerStep
  <1> QED BY <1>5, <1>6, <1>7, <1>8, <1>10 DEF Next

LEMMA InitImplements == Init => Agreement!Init
  <1> SUFFICES ASSUME Init PROVE Agreement!Init
    OBVIOUS
  <1>1. candidate = NoCandidate /\ required \in SUBSET Participant
    BY DEF Init
  <1>2. candidate.version = 0 /\ StandingBy = {}
    BY <1>1 DEF NoCandidate, StandingBy
  <1>3. (status = "AGREED") = FALSE
    BY DEF Init
  <1> QED
    BY <1>1, <1>2, <1>3 DEF Init, Agreement!Init

\* The lifecycle is an implementation of the abstract agreement: only the
\* participants' own approvals of the proposal on the table make an outcome.
THEOREM Implementation ==
    ASSUME Optional = {}
    PROVE  Spec => ImplementsAgreement
  <1>1. TypeOK /\ SafetyInv /\ TypeOK' /\ SafetyInv' /\ [Next]_vars
           => [Agreement!Next]_(Agreement!vars)
    BY StepImplements
  <1> QED
    BY <1>1, InitImplements, TypeCorrect, SafetyInvariant, PTL
    DEF Spec, ImplementsAgreement, Agreement!Spec
=============================================================================
