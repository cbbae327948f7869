----------------------- MODULE DecisionNegotiatorProofs -----------------------
(***************************************************************************)
(* Proofs about DecisionNegotiator, for any people, options, conditions,   *)
(* requests and bounds: requests change the decision by its own commands   *)
(* and nothing else, so what is proved of the decision holds with them; no *)
(* job is left behind by a request that ended; no candidate is left        *)
(* waiting for a question nobody asked; and requests keep apart.           *)
(*                                                                         *)
(* A request relies on what it read only while no version has passed       *)
(* (HoldsVersion).  Every other writer moves the version, except the clock *)
(* (OnlyTimePasses), so what was judged at Select is so at Commit, but for *)
(* permissions that have expired in between.                               *)
(***************************************************************************)
EXTENDS DecisionNegotiator, DecisionSafetyProofs

\* where a request that runs a job, or broke down with it, can be
AtWork == {"READING", "CHOOSING", "COMMITTING", "CANCELLING", "LOST"}
\* where a request whose candidate was committed can be
Offered == {"ASKING", "ABANDONING", "CANCELLING", "CANCELLED", "DONE", "LOST"}

\* nobody is asked although a candidate waits for consent
Quiet == status = "PRIVATE_NEGOTIATION" /\ ~SomePending(question)

\* what the kernel said of a choice, as far as time cannot change it
Judged(r) ==
    /\ choice[r].option \in Option
    /\ \/ \E p \in roster : choice[r].option \notin terms[p].hard
       \/ Unclear
       \/ choice[r].deps = {<<p, choice[r].option>> : p \in Failing(choice[r].option)}
       \/ Failing(choice[r].option) \subseteq asking[r]

\* nobody whose consent is missing has been forgotten
Covered(r) ==
    \A p \in Failing(pending.option) \ asking[r] :
        AskedBefore(p, pending.option) \/ question[p][pending.option] = "PENDING"

JobIsBound == job # 0 => job = context

HolderInv ==
    job # 0 /\ status = "REASONING" => holder \in Request /\ stage[holder] \in AtWork

AuthorInv ==
    /\ author \in Request => stage[author] \in Offered
    /\ Quiet => /\ author \in Request /\ pending # NoCandidate
                /\ ~issued[author]
                /\ stage[author] = "DONE" =>
                     \A p \in Failing(pending.option) : AskedBefore(p, pending.option)

HandlerInv ==
    \A r \in Request :
        /\ issued[r] => stage[r] \in {"ASKING", "CANCELLING"}
        /\ stage[r] = "COMMITTING" /\ HoldsVersion(r) => Judged(r)
        /\ stage[r] = "ASKING" /\ HoldsVersion(r) /\ author = r
              /\ status = "PRIVATE_NEGOTIATION" => Covered(r)

RequestInv == NegotiatorTypeOK /\ JobIsBound /\ HolderInv /\ AuthorInv /\ HandlerInv

-----------------------------------------------------------------------------
(* The other writers *)

\* The status computed from readiness is none that a request waits in.
LEMMA ReadinessIsNeither ==
    ASSUME NEW need, NEW conf, NEW ready
    PROVE  ReadinessStatus(need, conf, ready) \notin {"REASONING", "PRIVATE_NEGOTIATION"}
  BY ReadinessStatusMeaning DEF Collecting

\* Every writer but a request moves the version, except the clock, which
\* changes nothing a request relies on but expiries.
LEMMA OnlyTimePasses ==
    ASSUME Others, fence'
    PROVE  UNCHANGED <<status, frameVars, ownerVars, question, permission, refused,
                       proposalVars, fence>>
  <1>1. ASSUME OwnerStep PROVE fence' = FALSE
    BY <1>1 DEF OwnerStep, ConfirmFrame, ConfirmConstraints, ConfirmPrivateAnswers,
       ApproveProposal, WithdrawApproval, AnswerNegotiation, RevokeNegotiation
  <1>2. ASSUME CreatorStep PROVE fence' = FALSE
    BY <1>2 DEF CreatorStep, ReviseDecision, IncludeDecisionGroupMembers, CloseDecision
  <1>3. ASSUME NEW p \in Participant, StoreConstraintDraft(p) PROVE fence' = FALSE
    BY <1>3 DEF StoreConstraintDraft
  <1>4. ASSUME Sweep PROVE fence' = FALSE
    BY <1>4 DEF Sweep
  <1>5. PICK p \in Participant, o \in Option : Lapse(p, o)
    BY <1>1, <1>2, <1>3, <1>4 DEF Others, ClockStep
  <1> QED
    BY <1>5 DEF Lapse

\* Nobody but a request begins or carries on a job.
LEMMA OthersRunNoJob ==
    ASSUME Others
    PROVE  /\ job' # 0 => job' = job
           /\ status' = "REASONING" => status = "REASONING"
  <1>1. CASE OwnerStep
    <2>1. ASSUME NEW p \in Participant, ConfirmFrame(p)
          PROVE  job' = job /\ (status' = "REASONING" => status = "REASONING")
      BY <2>1, ReadinessIsNeither DEF ConfirmFrame, proposalVars
    <2>2. ASSUME NEW p \in Participant, ConfirmConstraints(p)
          PROVE  job' = 0 /\ status' # "REASONING"
      BY <2>2, ReadinessIsNeither
      DEF ConfirmConstraints, ConfirmFirstConstraints, InvalidateConfirmedContext,
          RetireCurrentProposal
    <2>3. ASSUME NEW p \in Participant, ConfirmPrivateAnswers(p)
          PROVE  job' = 0 /\ status' # "REASONING"
      BY <2>3, ReadinessIsNeither DEF ConfirmPrivateAnswers, RetireCurrentProposal
    <2>4. ASSUME NEW p \in Participant, ApproveProposal(p) \/ WithdrawApproval(p)
          PROVE  job' = job /\ status' # "REASONING"
      BY <2>4 DEF ApproveProposal, WithdrawApproval
    <2>5. ASSUME NEW p \in Participant, NEW o \in Option, NEW allow \in BOOLEAN,
                 AnswerNegotiation(p, o, allow)
          PROVE  job' = job /\ status' # "REASONING"
      BY <2>5, ReadinessIsNeither DEF AnswerNegotiation, proposalVars
    <2>6. ASSUME NEW p \in Participant, NEW o \in Option, RevokeNegotiation(p, o)
          PROVE  /\ job' # 0 => job' = job
                 /\ status' = "REASONING" => status = "REASONING"
      BY <2>6 DEF RevokeNegotiation, SupersedeProposal, RetireCurrentProposal, proposalVars
    <2> QED
      BY <1>1, <2>1, <2>2, <2>3, <2>4, <2>5, <2>6 DEF OwnerStep
  <1>2. ASSUME NEW p \in Participant, StoreConstraintDraft(p)
        PROVE  job' = job /\ (status' = "REASONING" => status = "REASONING")
    BY <1>2 DEF StoreConstraintDraft, proposalVars
  <1>3. CASE ClockStep
    <2>1. ASSUME NEW p \in Participant, NEW o \in Option, Lapse(p, o)
          PROVE  job' = job /\ status' = status
      BY <2>1 DEF Lapse, proposalVars
    <2>2. ASSUME Sweep
          PROVE  /\ job' # 0 => job' = job
                 /\ status' = "REASONING" => status = "REASONING"
      BY <2>2, ReadinessIsNeither
      DEF Sweep, SupersedeProposal, RetireCurrentProposal, proposalVars
    <2> QED
      BY <1>3, <2>1, <2>2 DEF ClockStep
  <1>4. CASE CreatorStep
    BY <1>4, ReadinessIsNeither
    DEF CreatorStep, ReviseDecision, IncludeDecisionGroupMembers, CloseDecision,
        RetireCurrentProposal
  <1> QED BY <1>1, <1>2, <1>3, <1>4 DEF Others

\* Nobody but a request makes a candidate wait with no question open, and while
\* one does, the others leave what it waits for as it is.
LEMMA OthersLeaveQuiet ==
    ASSUME Others, Quiet'
    PROVE  Quiet /\ UNCHANGED <<roster, terms, question, refused, pending>>
  <1>0. status' = "PRIVATE_NEGOTIATION" /\ ~SomePending(question')
    BY DEF Quiet, SomePending
  <1>1. CASE OwnerStep
    <2>1. ASSUME NEW p \in Participant, ConfirmFrame(p)
          PROVE  Quiet /\ UNCHANGED <<roster, terms, question, refused, pending>>
      <3>1. UNCHANGED <<status, roster, terms, question, refused, pending>>
        BY <1>0, <2>1, ReadinessIsNeither DEF ConfirmFrame, consentVars, proposalVars
      <3> QED
        BY <1>0, <3>1 DEF Quiet
    <2>2. ASSUME NEW p \in Participant, ConfirmConstraints(p) PROVE FALSE
      BY <1>0, <2>2, ReadinessIsNeither
      DEF ConfirmConstraints, ConfirmFirstConstraints, InvalidateConfirmedContext
    <2>3. ASSUME NEW p \in Participant, ConfirmPrivateAnswers(p) PROVE FALSE
      BY <1>0, <2>3, ReadinessIsNeither DEF ConfirmPrivateAnswers
    <2>4. ASSUME NEW p \in Participant, ApproveProposal(p) \/ WithdrawApproval(p) PROVE FALSE
      BY <1>0, <2>4 DEF ApproveProposal, WithdrawApproval
    <2>5. ASSUME NEW p \in Participant, NEW o \in Option, NEW allow \in BOOLEAN,
                 AnswerNegotiation(p, o, allow)
          PROVE  FALSE
      BY <1>0, <2>5, ReadinessIsNeither DEF AnswerNegotiation
    <2>6. ASSUME NEW p \in Participant, NEW o \in Option, RevokeNegotiation(p, o)
          PROVE  Quiet /\ UNCHANGED <<roster, terms, question, refused, pending>>
      <3>1. UNCHANGED <<status, roster, terms, question, refused, pending>>
        BY <1>0, <2>6
        DEF RevokeNegotiation, SupersedeProposal, frameVars, ownerVars, proposalVars
      <3> QED
        BY <1>0, <3>1 DEF Quiet
    <2> QED
      BY <1>1, <2>1, <2>2, <2>3, <2>4, <2>5, <2>6 DEF OwnerStep
  <1>2. ASSUME NEW p \in Participant, StoreConstraintDraft(p)
        PROVE  Quiet /\ UNCHANGED <<roster, terms, question, refused, pending>>
    <2>1. UNCHANGED <<status, roster, terms, question, refused, pending>>
      BY <1>0, <1>2 DEF StoreConstraintDraft, frameVars, consentVars, proposalVars
    <2> QED
      BY <1>0, <2>1 DEF Quiet
  <1>3. CASE ClockStep
    <2>1. ASSUME NEW p \in Participant, NEW o \in Option, Lapse(p, o)
          PROVE  Quiet /\ UNCHANGED <<roster, terms, question, refused, pending>>
      <3>1. UNCHANGED <<status, roster, terms, question, refused, pending>>
        BY <2>1 DEF Lapse, frameVars, ownerVars, proposalVars
      <3> QED
        BY <1>0, <3>1 DEF Quiet
    <2>2. ASSUME Sweep PROVE FALSE
      BY <1>0, <2>2, ReadinessIsNeither DEF Sweep, SupersedeProposal
    <2> QED
      BY <1>3, <2>1, <2>2 DEF ClockStep
  <1>4. ASSUME CreatorStep PROVE FALSE
    BY <1>0, <1>4, ReadinessIsNeither
    DEF CreatorStep, ReviseDecision, IncludeDecisionGroupMembers, CloseDecision
  <1> QED BY <1>1, <1>2, <1>3, <1>4 DEF Others

-----------------------------------------------------------------------------
(* Requests take the steps of the decision *)

\* A request, like everybody else, changes the decision by its commands.
LEMMA StepOfTheDecision ==
    ASSUME RequestInv, [NegotiatorNext]_allVars
    PROVE  [Next]_vars
  <1>1. ASSUME Others PROVE Next
    BY <1>1 DEF Others, Next, RuntimeStep
  <1>2. ASSUME NEW r \in Request, Commit(r) PROVE Next
    <2>1. Judged(r) /\ CompleteReasoning(choice[r].option, choice[r].deps)
      BY <1>2 DEF Commit, RequestInv, HandlerInv
    <2>2. choice[r].deps \in SUBSET (Participant \X Option)
      BY DEF RequestInv, NegotiatorTypeOK, Choice
    <2> QED
      BY <2>1, <2>2 DEF Judged, Next, RuntimeStep
  <1>3. ASSUME NEW r \in Request, NEW p \in Participant, Ask(r, p) PROVE Next
    BY <1>3 DEF Ask, Next, RuntimeStep
  <1>4. ASSUME NEW r \in Request,
               Start(r) \/ Read(r) \/ Cancel(r) \/ Abandon(r) \/ Lose(r) \/ NoContext(r)
                 \/ SelectStale(r) \/ Reject(r) \/ CommitStale(r) \/ StopAsking(r)
                 \/ StopRuntime(r) \/ Throw(r)
        PROVE  [Next]_vars
    BY <1>4 DEF Start, Read, Cancel, Abandon, Lose, NoContext, SelectStale, Reject, CommitStale,
       StopAsking, StopRuntime, Throw, Next, RuntimeStep
  <1>5. ASSUME NEW r \in Request, NEW o \in Option, NEW deps \in SUBSET (Participant \X Option),
               NEW ask \in SUBSET roster, Select(r, o, deps, ask)
        PROVE  UNCHANGED vars
    BY <1>5 DEF Select
  <1>6. ASSUME NEW r \in Request, NEW p \in Participant, Skip(r, p) PROVE UNCHANGED vars
    BY <1>6 DEF Skip
  <1>7. ASSUME UNCHANGED allVars PROVE UNCHANGED vars
    BY <1>7 DEF allVars
  <1> QED
    BY <1>1, <1>2, <1>3, <1>4, <1>5, <1>6, <1>7 DEF NegotiatorNext, Proceed

\* A job is bound to the context it was started in, and ends with it.
LEMMA JobStaysBound ==
    ASSUME JobIsBound, [Next]_vars
    PROVE  JobIsBound'
  <1>1. CASE OwnerStep
    <2>1. ASSUME NEW p \in Participant, ConfirmConstraints(p) \/ ConfirmPrivateAnswers(p)
          PROVE  JobIsBound'
      BY <2>1 DEF ConfirmConstraints, ConfirmPrivateAnswers, RetireCurrentProposal, JobIsBound
    <2>2. ASSUME NEW p \in Participant,
                 ConfirmFrame(p) \/ ApproveProposal(p) \/ WithdrawApproval(p)
          PROVE  JobIsBound'
      BY <2>2 DEF ConfirmFrame, ApproveProposal, WithdrawApproval, frameVars, proposalVars,
         JobIsBound
    <2>3. ASSUME NEW p \in Participant, NEW o \in Option, NEW allow \in BOOLEAN,
                 AnswerNegotiation(p, o, allow)
          PROVE  JobIsBound'
      BY <2>3 DEF AnswerNegotiation, frameVars, proposalVars, JobIsBound
    <2>4. ASSUME NEW p \in Participant, NEW o \in Option, RevokeNegotiation(p, o)
          PROVE  JobIsBound'
      BY <2>4 DEF RevokeNegotiation, SupersedeProposal, RetireCurrentProposal, frameVars,
         proposalVars, JobIsBound
    <2> QED
      BY <1>1, <2>1, <2>2, <2>3, <2>4 DEF OwnerStep
  <1>2. CASE RuntimeStep
    <2>1. ASSUME NEW p \in Participant, StoreConstraintDraft(p) \/ AskNegotiation(p)
          PROVE  JobIsBound'
      BY <2>1 DEF StoreConstraintDraft, AskNegotiation, frameVars, proposalVars, JobIsBound
    <2>2. ASSUME NEW o \in Option, NEW deps \in SUBSET (Participant \X Option),
                 CompleteReasoning(o, deps)
          PROVE  JobIsBound'
      BY <2>2 DEF CompleteReasoning, JobIsBound
    <2>3. ASSUME StartReasoning \/ GetReasoningContext \/ CancelReasoning
                   \/ AbandonPendingReasoning
          PROVE  JobIsBound'
      BY <2>3 DEF StartReasoning, GetReasoningContext, CancelReasoning,
         AbandonPendingReasoning, frameVars, proposalVars, JobIsBound
    <2> QED
      BY <1>2, <2>1, <2>2, <2>3 DEF RuntimeStep
  <1>3. CASE ClockStep
    BY <1>3 DEF ClockStep, Sweep, Lapse, SupersedeProposal, RetireCurrentProposal, frameVars,
       proposalVars, JobIsBound
  <1>4. CASE CreatorStep
    BY <1>4 DEF CreatorStep, ReviseDecision, IncludeDecisionGroupMembers, CloseDecision,
       RetireCurrentProposal, JobIsBound
  <1>5. CASE UNCHANGED vars
    BY <1>5 DEF vars, frameVars, proposalVars, JobIsBound
  <1> QED BY <1>1, <1>2, <1>3, <1>4, <1>5 DEF Next

\* What requests hold keeps its type.
LEMMA RequestTypes ==
    ASSUME TypeOK, NegotiatorTypeOK, [NegotiatorNext]_allVars
    PROVE  NegotiatorTypeOK'
  <1> USE DEF NegotiatorTypeOK
  <1>0. 0 \in 0..MaxAttempts /\ 1 \in 0..MaxAttempts /\ NoChoice \in Choice
    BY DEF MaxAttempts, NoChoice, Choice
  <1>1. ASSUME NEW r \in Request, NEW s \in Stage, End(r, s)
        PROVE  /\ stage' \in [Request -> Stage] /\ attempt' \in [Request -> 0..MaxAttempts]
               /\ choice' \in [Request -> Choice]
               /\ asking' \in [Request -> SUBSET Participant] /\ issued' \in [Request -> BOOLEAN]
    BY <1>0, <1>1 DEF End, Goto
  <1>2. ASSUME NEW r \in Request, NEW s \in Stage, Goto(r, s)
        PROVE  stage' \in [Request -> Stage]
    BY <1>2 DEF Goto
  <1>3. {"DONE", "LOST", "CANCELLED", "CANCELLING", "READING", "CHOOSING", "COMMITTING",
         "ASKING", "ABANDONING"} \subseteq Stage
    BY DEF Stage
  <1>4. ASSUME Others PROVE NegotiatorTypeOK'
    BY <1>4 DEF Others, handlerVars
  <1>5. ASSUME NEW r \in Request, Start(r) \/ Read(r) \/ NoContext(r) \/ SelectStale(r)
                                    \/ CommitStale(r) \/ Throw(r)
        PROVE  NegotiatorTypeOK'
    <2>1. stage' \in [Request -> Stage]
      BY <1>2, <1>3, <1>5 DEF Start, Read, NoContext, SelectStale, CommitStale, Throw
    <2> QED
      BY <1>0, <1>5, <2>1
      DEF Start, Read, NoContext, SelectStale, CommitStale, Throw, handlerVars
  <1>6. ASSUME NEW r \in Request, Reject(r) PROVE NegotiatorTypeOK'
    <2>1. attempt' \in [Request -> 0..MaxAttempts]
      BY <1>6 DEF Reject, MaxAttempts
    <2>2. stage' \in [Request -> Stage]
      BY <1>2, <1>3, <1>6 DEF Reject
    <2> QED
      BY <1>6, <2>1, <2>2 DEF Reject
  <1>7. ASSUME NEW r \in Request, Commit(r) \/ Cancel(r) \/ StopAsking(r) \/ StopRuntime(r)
                                    \/ Abandon(r) \/ Lose(r)
        PROVE  NegotiatorTypeOK'
    <2>1. \/ \E s \in Stage : End(r, s)
          \/ (\E s \in Stage : Goto(r, s)) /\ UNCHANGED handlerVars
      BY <1>3, <1>7 DEF Commit, Cancel, StopAsking, StopRuntime, Abandon, Lose
    <2>2. /\ stage' \in [Request -> Stage] /\ attempt' \in [Request -> 0..MaxAttempts]
          /\ choice' \in [Request -> Choice]
          /\ asking' \in [Request -> SUBSET Participant] /\ issued' \in [Request -> BOOLEAN]
      BY <1>1, <1>2, <2>1 DEF handlerVars
    <2>3. holder' \in Request \union {Nobody} /\ author' \in Request \union {Nobody}
      BY <1>7 DEF Commit, Cancel, StopAsking, StopRuntime, Abandon, Lose
    <2> QED
      BY <2>2, <2>3
  <1>8. ASSUME NEW r \in Request, NEW o \in Option, NEW deps \in SUBSET (Participant \X Option),
               NEW ask \in SUBSET roster, Select(r, o, deps, ask)
        PROVE  NegotiatorTypeOK'
    <2>1. ask \in SUBSET Participant
      BY DEF TypeOK, FrameTypeOK
    <2>2. stage' \in [Request -> Stage]
      BY <1>2, <1>3, <1>8 DEF Select
    <2>3. [option |-> o, deps |-> deps] \in Choice
      BY DEF Choice
    <2> QED
      BY <1>8, <2>1, <2>2, <2>3 DEF Select
  <1>9. ASSUME NEW r \in Request, NEW p \in Participant, Ask(r, p) \/ Skip(r, p)
        PROVE  NegotiatorTypeOK'
    BY <1>9 DEF Ask, Skip
  <1>10. ASSUME UNCHANGED allVars PROVE NegotiatorTypeOK'
    BY <1>10 DEF allVars, requestVars, handlerVars
  <1> QED
    BY <1>4, <1>5, <1>6, <1>7, <1>8, <1>9, <1>10 DEF NegotiatorNext, Proceed

-----------------------------------------------------------------------------
(* The invariant, one action at a time *)

\* only the request r moves
OnlyMoves(r) ==
    \A q \in Request \ {r} : /\ stage'[q] = stage[q] /\ choice'[q] = choice[q]
                             /\ asking'[q] = asking[q] /\ issued'[q] = issued[q]

\* A step that leaves the decision alone keeps what is known of the other
\* requests; what remains is about the request that moves.
LEMMA SilentKeeps ==
    ASSUME RequestInv, NEW r \in Request,
           UNCHANGED <<vars, holder, author>>, OnlyMoves(r),
           holder = r /\ job # 0 /\ status = "REASONING" => stage'[r] \in AtWork,
           stage[r] \in Offered => stage'[r] \in Offered,
           issued'[r] => issued[r] /\ stage'[r] \in {"ASKING", "CANCELLING"},
           stage'[r] = "COMMITTING" /\ HoldsVersion(r) => Judged(r)',
           stage'[r] = "ASKING" /\ HoldsVersion(r) /\ author = r
             /\ status = "PRIVATE_NEGOTIATION" => Covered(r)',
           stage'[r] = "DONE" /\ author = r /\ Quiet =>
             \A p \in Failing(pending.option) : AskedBefore(p, pending.option)
    PROVE  HolderInv' /\ AuthorInv' /\ HandlerInv'
  <1>1. /\ UNCHANGED <<status, context, roster, required, confirmed, readiness, terms, draft>>
        /\ UNCHANGED <<question, permission, refused, lapsed, candidate, pending, job, fence>>
    BY DEF vars, frameVars, ownerVars, consentVars, proposalVars
  <1>2. /\ Quiet' = Quiet
        /\ \A o \in {pending.option} : Failing(o)' = Failing(o)
        /\ \A p \in Failing(pending.option) :
              AskedBefore(p, pending.option)' = AskedBefore(p, pending.option)
    BY <1>1 DEF Quiet, SomePending, Failing, AskedBefore
  <1>3. \A q \in Request \ {r} : /\ Judged(q) => Judged(q)'
                                 /\ Covered(q) => Covered(q)'
                                 /\ HoldsVersion(q)' = HoldsVersion(q)
    BY <1>1 DEF OnlyMoves, Judged, Covered, Unclear, RequiredConfirmed, Failing, AskedBefore,
       HoldsVersion
  <1>4. HolderInv'
    BY <1>1 DEF RequestInv, HolderInv, OnlyMoves
  <1>5. AuthorInv'
    <2>1. author \in Request => stage'[author] \in Offered
      BY DEF RequestInv, AuthorInv, OnlyMoves
    <2>2. ASSUME Quiet
          PROVE  /\ author \in Request /\ pending # NoCandidate /\ ~issued'[author]
                 /\ stage'[author] = "DONE" =>
                      \A p \in Failing(pending.option) : AskedBefore(p, pending.option)
      BY <2>2 DEF RequestInv, AuthorInv, OnlyMoves
    <2> QED
      BY <1>1, <1>2, <2>1, <2>2 DEF AuthorInv
  <1>6. HandlerInv'
    <2> SUFFICES ASSUME NEW q \in Request
                 PROVE  /\ issued'[q] => stage'[q] \in {"ASKING", "CANCELLING"}
                        /\ stage'[q] = "COMMITTING" /\ HoldsVersion(q)' => Judged(q)'
                        /\ stage'[q] = "ASKING" /\ HoldsVersion(q)' /\ author' = q
                             /\ status' = "PRIVATE_NEGOTIATION" => Covered(q)'
      BY DEF HandlerInv
    <2>1. CASE q = r
      <3>1. HoldsVersion(r)' = HoldsVersion(r)
        BY <1>1 DEF HoldsVersion
      <3> QED
        BY <1>1, <2>1, <3>1
    <2>2. CASE q # r
      BY <1>1, <1>3, <2>2 DEF RequestInv, HandlerInv, OnlyMoves
    <2> QED BY <2>1, <2>2
  <1> QED
    BY <1>4, <1>5, <1>6

\* What Goto and End leave of the request that moves, and of the others.
LEMMA Moves ==
    ASSUME NegotiatorTypeOK, NEW r \in Request, NEW s
    PROVE  /\ Goto(r, s) => stage'[r] = s /\ \A q \in Request \ {r} : stage'[q] = stage[q]
           /\ End(r, s) => stage'[r] = s /\ ~issued'[r]
           /\ End(r, s) => OnlyMoves(r)
           /\ Goto(r, s) /\ UNCHANGED handlerVars => OnlyMoves(r) /\ issued'[r] = issued[r]
  BY DEF NegotiatorTypeOK, Goto, End, OnlyMoves, handlerVars

Kept == HolderInv' /\ AuthorInv' /\ HandlerInv'

\* Steps that only pass a request on, or in which it gives up.
LEMMA PassingKeeps ==
    ASSUME RequestInv, NEW r \in Request,
           NoContext(r) \/ SelectStale(r) \/ Reject(r) \/ CommitStale(r) \/ Throw(r) \/ Lose(r)
    PROVE  Kept
  <1>1. UNCHANGED <<vars, holder, author>>
    BY DEF NoContext, SelectStale, Reject, CommitStale, Throw, Lose
  <1>2. NegotiatorTypeOK
    BY DEF RequestInv
  <1>3. CASE Lose(r)
    <2>1. /\ stage'[r] = "LOST" /\ ~issued'[r] /\ OnlyMoves(r)
      BY <1>2, <1>3, Moves DEF Lose
    <2> QED
      BY <1>1, <2>1, SilentKeeps DEF AtWork, Offered, Kept
  <1>4. CASE Reject(r) /\ attempt[r] < MaxAttempts
    <2>1. stage' = stage /\ issued' = issued /\ OnlyMoves(r) /\ stage[r] = "CHOOSING"
      BY <1>4 DEF Reject, OnlyMoves
    <2>2. holder = r /\ job # 0 /\ status = "REASONING" => stage'[r] \in AtWork
      BY <2>1 DEF AtWork
    <2>3. ~issued'[r]
      BY <2>1 DEF RequestInv, HandlerInv
    <2> QED
      BY <1>1, <2>1, <2>2, <2>3, SilentKeeps DEF Kept
  <1>5. CASE \/ NoContext(r) \/ CommitStale(r) \/ Throw(r)
             \/ Reject(r) /\ ~(attempt[r] < MaxAttempts)
    <2>1. /\ stage'[r] = "CANCELLING" /\ issued'[r] = issued[r]
      BY <1>2, <1>5, Moves DEF NoContext, CommitStale, Throw, Reject, handlerVars
    <2>2. OnlyMoves(r)
      BY <1>2, <1>5, Moves DEF NoContext, CommitStale, Throw, Reject, handlerVars, OnlyMoves
    <2> QED
      BY <1>1, <2>1, <2>2, SilentKeeps DEF AtWork, Offered, Kept
  <1>6. CASE SelectStale(r)
    <2>1. /\ stage'[r] = "COMMITTING" /\ issued'[r] = issued[r] /\ OnlyMoves(r)
          /\ stage[r] = "CHOOSING" /\ ~HoldsVersion(r)
      BY <1>2, <1>6, Moves DEF SelectStale
    <2>2. ~issued[r] /\ stage[r] \notin Offered
      BY <2>1 DEF RequestInv, HandlerInv, Offered
    <2> QED
      BY <1>1, <2>1, <2>2, SilentKeeps DEF AtWork, Kept
  <1> QED BY <1>3, <1>4, <1>5, <1>6

\* The kernel's judgement of a choice is what Select rested on.
LEMMA SelectKeeps ==
    ASSUME RequestInv, NEW r \in Request, NEW o \in Option,
           NEW deps \in SUBSET (Participant \X Option), NEW ask \in SUBSET roster,
           Select(r, o, deps, ask)
    PROVE  Kept
  <1>1. /\ UNCHANGED <<vars, holder, author>> /\ stage[r] = "CHOOSING" /\ Goto(r, "COMMITTING")
        /\ UNCHANGED issued
    BY DEF Select
  <1>2. NegotiatorTypeOK
    BY DEF RequestInv
  <1>3. OnlyMoves(r) /\ stage'[r] = "COMMITTING" /\ ~issued'[r] /\ stage[r] \notin Offered
    <2>1. stage'[r] = "COMMITTING" /\ \A q \in Request \ {r} : stage'[q] = stage[q]
      BY <1>1, <1>2, Moves
    <2>2. ~issued[r]
      BY <1>1 DEF RequestInv, HandlerInv
    <2>3. \A q \in Request \ {r} : choice'[q] = choice[q] /\ asking'[q] = asking[q]
      BY <1>2 DEF Select, NegotiatorTypeOK
    <2> QED
      BY <1>1, <2>1, <2>2, <2>3 DEF OnlyMoves, Offered
  <1>4. choice'[r] = [option |-> o, deps |-> deps] /\ asking'[r] = ask
    BY <1>2 DEF Select, NegotiatorTypeOK
  <1>5. Judged(r)'
    <2>1. \/ \E p \in roster : o \notin terms[p].hard
          \/ Unclear
          \/ deps = {<<p, o>> : p \in Failing(o)}
          \/ Failing(o) \subseteq ask
      BY DEF Select, Verdict
    <2>2. UNCHANGED <<roster, required, confirmed, readiness, terms, draft>>
      BY <1>1 DEF vars, frameVars, ownerVars
    <2> QED
      BY <1>4, <2>1, <2>2 DEF Judged, Unclear, RequiredConfirmed, Failing
  <1> QED
    BY <1>1, <1>3, <1>5, SilentKeeps DEF AtWork, Kept

\* Starting a job, and reading for it.
LEMMA StartKeeps ==
    ASSUME TypeOK, RequestInv, NEW r \in Request, Start(r) \/ Read(r)
    PROVE  Kept
  <1>1. NegotiatorTypeOK
    BY DEF RequestInv
  <1>2. /\ holder' = r /\ author' = author /\ status' = "REASONING" /\ UNCHANGED issued
        /\ stage'[r] \in {"READING", "CHOOSING"} /\ stage[r] \in {"IDLE", "READING"}
        /\ \A q \in Request \ {r} : stage'[q] = stage[q]
        /\ fence' => stage'[r] = "CHOOSING"
    BY <1>1, Moves
    DEF Start, Read, StartReasoning, GetReasoningContext, HoldsJob, handlerVars
  <1>3. HolderInv'
    BY <1>2 DEF HolderInv, AtWork
  <1>4. AuthorInv'
    <2>1. author # r
      BY <1>2 DEF RequestInv, AuthorInv, Offered
    <2>2. ~Quiet'
      BY <1>2 DEF Quiet
    <2> QED
      BY <1>2, <2>1, <2>2 DEF RequestInv, AuthorInv
  <1>5. HandlerInv'
    <2>1. ~issued[r]
      BY <1>2 DEF RequestInv, HandlerInv
    <2>2. \A q \in Request : HoldsVersion(q)' => q = r
      BY <1>2 DEF HoldsVersion
    <2> QED
      BY <1>2, <2>1, <2>2 DEF RequestInv, HandlerInv
  <1> QED
    BY <1>3, <1>4, <1>5 DEF Kept

\* What the commit finds is what was judged, but for permissions that expired:
\* and without those the candidate cannot list them.
LEMMA CommitKeeps ==
    ASSUME TypeOK, RequestInv, NEW r \in Request, Commit(r)
    PROVE  Kept
  <1> DEFINE o == choice[r].option
             deps == choice[r].deps
  <1>1. NegotiatorTypeOK
    BY DEF RequestInv
  <1>2. /\ stage[r] = "COMMITTING" /\ holder = r /\ holder' = r /\ job' = 0
        /\ Judged(r) /\ ~issued[r]
    BY DEF Commit, CompleteReasoning, HoldsJob, RequestInv, HandlerInv
  <1>3. /\ UNCHANGED <<frameVars, ownerVars, consentVars>>
        /\ \A d \in deps : Granted(d[1], d[2])
        /\ status' = "PRIVATE_NEGOTIATION" => Verdict(o, deps) = "NEEDS_PERMISSION"
    BY DEF Commit, CompleteReasoning, Verdict
  <1>4. status' = "PRIVATE_NEGOTIATION" => Failing(o) \subseteq asking[r]
    <2> SUFFICES ASSUME Verdict(o, deps) = "NEEDS_PERMISSION"
                 PROVE  Failing(o) \subseteq asking[r]
      BY <1>3
    <2>1. ~(\E p \in roster : o \notin terms[p].hard) /\ ~Unclear
      BY DEF Verdict
    <2>2. deps # {<<p, o>> : p \in Failing(o)} \/ \E p \in Failing(o) : ~Granted(p, o)
      BY DEF Verdict
    <2>3. deps # {<<p, o>> : p \in Failing(o)}
      <3>1. SUFFICES ASSUME deps = {<<p, o>> : p \in Failing(o)}
                     PROVE  \A p \in Failing(o) : Granted(p, o)
        BY <2>2
      <3>2. \A p \in Failing(o) : <<p, o>> \in deps
        BY <3>1
      <3> QED
        BY <1>3, <3>2
    <2> QED
      BY <1>2, <2>1, <2>3 DEF Judged
  <1>5. status' = "PRIVATE_NEGOTIATION" =>
          /\ pending' = [version |-> proposalVersion + 1, context |-> job,
                         option |-> o, deps |-> deps]
          /\ pending' # NoCandidate /\ pending'.option = o
          /\ author' = r /\ stage'[r] = "ASKING" /\ UNCHANGED handlerVars
    <2> SUFFICES ASSUME status' = "PRIVATE_NEGOTIATION"
                 PROVE  /\ pending' = [version |-> proposalVersion + 1, context |-> job,
                                       option |-> o, deps |-> deps]
                        /\ pending' # NoCandidate /\ pending'.option = o
                        /\ author' = r /\ stage'[r] = "ASKING" /\ UNCHANGED handlerVars
      OBVIOUS
    <2>1. pending' = [version |-> proposalVersion + 1, context |-> job,
                      option |-> o, deps |-> deps]
      BY <1>3 DEF Commit, CompleteReasoning
    <2>2. pending'.version = proposalVersion + 1 /\ pending'.option = o
      BY <2>1
    <2>3. proposalVersion + 1 # 0
      BY DEF TypeOK, ProposalTypeOK
    <2>4. pending' # NoCandidate
      BY <2>2, <2>3 DEF NoCandidate
    <2> QED
      BY <1>1, <2>1, <2>2, <2>4, Moves DEF Commit
  <1>6. /\ stage'[r] \in {"ASKING", "DONE"} /\ ~issued'[r]
        /\ \A q \in Request \ {r} : stage'[q] = stage[q] /\ issued'[q] = issued[q]
        /\ author' \in {Nobody, r}
    <2>1. CASE status' = "PRIVATE_NEGOTIATION"
      BY <1>1, <1>2, <2>1, Moves DEF Commit, handlerVars
    <2>2. CASE status' # "PRIVATE_NEGOTIATION"
      BY <1>1, <2>2, Moves DEF Commit, OnlyMoves
    <2> QED BY <2>1, <2>2
  <1>7. HolderInv'
    BY <1>2 DEF HolderInv
  <1>8. AuthorInv'
    <2>1. author' \in Request => stage'[author'] \in Offered
      BY <1>6, NegotiatorAssumption DEF Offered
    <2>2. Quiet' => status' = "PRIVATE_NEGOTIATION"
      BY DEF Quiet
    <2> QED
      BY <1>5, <1>6, <2>1, <2>2 DEF AuthorInv
  <1>9. HandlerInv'
    <2>1. \A q \in Request : HoldsVersion(q)' => q = r
      BY <1>2 DEF HoldsVersion
    <2>2. \A q \in Request : issued'[q] => stage'[q] \in {"ASKING", "CANCELLING"}
      BY <1>6 DEF RequestInv, HandlerInv
    <2>3. status' = "PRIVATE_NEGOTIATION" => Covered(r)'
      <3> SUFFICES ASSUME status' = "PRIVATE_NEGOTIATION",
                          NEW p \in roster', pending'.option \notin terms'[p].neg
                   PROVE  p \in asking'[r]
        BY DEF Covered, Failing
      <3>1. pending'.option = o /\ asking' = asking /\ roster' = roster /\ terms' = terms
        BY <1>3, <1>5 DEF handlerVars, frameVars, ownerVars
      <3>2. p \in Failing(o)
        BY <3>1 DEF Failing
      <3> QED
        BY <1>4, <3>1, <3>2
    <2> QED
      BY <1>6, <2>1, <2>2, <2>3 DEF HandlerInv
  <1> QED
    BY <1>7, <1>8, <1>9 DEF Kept

\* A request ends its job, and only its own.
LEMMA CancelKeeps ==
    ASSUME RequestInv, NEW r \in Request, Cancel(r)
    PROVE  Kept
  <1>1. NegotiatorTypeOK
    BY DEF RequestInv
  <1>2. /\ stage[r] = "CANCELLING" /\ stage'[r] = "CANCELLED" /\ ~issued'[r] /\ OnlyMoves(r)
        /\ author' = author
    BY <1>1, Moves DEF Cancel
  <1>3. CASE HoldsJob(r)
    <2>1. job' = 0 /\ fence' = FALSE /\ status' # "PRIVATE_NEGOTIATION"
      BY <1>3, ReadinessIsNeither DEF Cancel, CancelReasoning
    <2>2. HolderInv'
      BY <2>1 DEF HolderInv
    <2>3. AuthorInv'
      BY <1>2, <2>1 DEF AuthorInv, RequestInv, Offered, OnlyMoves, Quiet
    <2>4. HandlerInv'
      BY <1>2, <2>1 DEF HandlerInv, RequestInv, OnlyMoves, HoldsVersion
    <2> QED
      BY <2>2, <2>3, <2>4 DEF Kept
  <1>4. CASE ~HoldsJob(r)
    <2>1. UNCHANGED <<vars, holder, author>>
      BY <1>4 DEF Cancel
    <2>2. ~(holder = r /\ job # 0 /\ status = "REASONING")
      BY <1>4 DEF RequestInv, JobIsBound, HoldsJob
    <2> QED
      BY <1>2, <2>1, <2>2, SilentKeeps DEF Offered, Kept
  <1> QED BY <1>3, <1>4

\* An owner who is asked is waited for.
LEMMA AskKeeps ==
    ASSUME TypeOK, RequestInv, NEW r \in Request, NEW p \in Participant, Ask(r, p)
    PROVE  Kept
  <1> DEFINE x == pending.option
  <1>1. NegotiatorTypeOK
    BY DEF RequestInv
  <1>2. /\ stage[r] = "ASKING" /\ holder = r /\ author = r /\ HoldsVersion(r)
        /\ UNCHANGED <<stage, choice, holder, author>>
        /\ asking' = [asking EXCEPT ![r] = @ \ {p}] /\ issued' = [issued EXCEPT ![r] = TRUE]
    BY DEF Ask, HoldsVersion
  <1>3. /\ status = "PRIVATE_NEGOTIATION" /\ status' = "PRIVATE_NEGOTIATION" /\ job' = 0
        /\ pending # NoCandidate /\ UNCHANGED <<pending, roster, terms, refused, fence>>
        /\ question' = [question EXCEPT ![p][x] = "PENDING"]
    BY DEF Ask, AskNegotiation, frameVars, ownerVars
  <1>4. x \in Option
    BY <1>3, CandidateIsProposal DEF Candidate
  <1>5. /\ question'[p][x] = "PENDING"
        /\ \A q \in Participant \ {p} : question'[q] = question[q]
    BY <1>3, <1>4 DEF TypeOK, ConsentTypeOK
  <1>6. ~Quiet'
    BY <1>4, <1>5 DEF Quiet, SomePending
  <1>7. HolderInv'
    BY <1>3 DEF HolderInv
  <1>8. AuthorInv'
    BY <1>2, <1>6 DEF RequestInv, AuthorInv
  <1>9. HandlerInv'
    <2>1. \A q \in Request : HoldsVersion(q)' => q = r
      BY <1>2 DEF HoldsVersion
    <2>2. \A q \in Request : issued'[q] => stage'[q] \in {"ASKING", "CANCELLING"}
      BY <1>1, <1>2 DEF RequestInv, HandlerInv, NegotiatorTypeOK
    <2>3. Covered(r)'
      <3>1. Covered(r)
        BY <1>2, <1>3 DEF RequestInv, HandlerInv
      <3>2. asking'[r] = asking[r] \ {p}
        BY <1>1, <1>2 DEF NegotiatorTypeOK
      <3>3. roster \subseteq Participant
        BY DEF TypeOK, FrameTypeOK
      <3> SUFFICES ASSUME NEW q \in roster, x \notin terms[q].neg, q \notin asking'[r]
                   PROVE  \/ x \in refused[q]
                          \/ question'[q][x] \notin {"NONE", "PENDING"}
                          \/ question'[q][x] = "PENDING"
        BY <1>3 DEF Covered, Failing, AskedBefore
      <3>4. CASE q = p
        BY <1>5, <3>4
      <3>5. CASE q # p
        <4>1. q \notin asking[r] /\ question'[q] = question[q]
          BY <1>5, <3>2, <3>3, <3>5
        <4> QED
          BY <3>1, <4>1 DEF Covered, Failing, AskedBefore
      <3> QED BY <3>4, <3>5
    <2> QED
      BY <1>2, <2>1, <2>2, <2>3 DEF HandlerInv
  <1> QED
    BY <1>7, <1>8, <1>9 DEF Kept

\* An owner is passed over who need not be asked, or was asked before.
LEMMA SkipKeeps ==
    ASSUME RequestInv, NEW r \in Request, NEW p \in Participant, Skip(r, p)
    PROVE  Kept
  <1>1. NegotiatorTypeOK
    BY DEF RequestInv
  <1>2. /\ stage[r] = "ASKING" /\ stage'[r] = "ASKING" /\ issued' = issued
        /\ UNCHANGED <<vars, holder, author>>
    BY DEF Skip
  <1>3. asking'[r] = asking[r] \ {p} /\ OnlyMoves(r)
    BY <1>1 DEF Skip, OnlyMoves, NegotiatorTypeOK
  <1>4. ~(holder = r /\ job # 0 /\ status = "REASONING")
    BY <1>2 DEF RequestInv, HolderInv, AtWork
  <1>5. ASSUME HoldsVersion(r), author = r, status = "PRIVATE_NEGOTIATION"
        PROVE  Covered(r)'
    <2>1. Covered(r)
      BY <1>2, <1>5 DEF RequestInv, HandlerInv
    <2>2. p \notin Failing(pending.option) \/ AskedBefore(p, pending.option)
      BY DEF Skip
    <2>3. UNCHANGED <<roster, terms, pending, question, refused>>
      BY <1>2 DEF vars, frameVars, ownerVars, consentVars, proposalVars
    <2> QED
      BY <1>3, <2>1, <2>2, <2>3 DEF Covered, Failing, AskedBefore
  <1> QED
    BY <1>2, <1>3, <1>4, <1>5, SilentKeeps DEF Kept, Offered

\* A request stops asking with everyone asked who had to be, or having asked
\* somebody, or to give its candidate up.
LEMMA StopKeeps ==
    ASSUME TypeOK, RequestInv, NEW r \in Request, StopAsking(r) \/ StopRuntime(r)
    PROVE  Kept
  <1>1. NegotiatorTypeOK
    BY DEF RequestInv
  <1>2. /\ stage[r] = "ASKING" /\ UNCHANGED <<vars, holder, author>>
    BY DEF StopAsking, StopRuntime
  <1>3. ~(holder = r /\ job # 0 /\ status = "REASONING")
    BY <1>2 DEF RequestInv, HolderInv, AtWork
  <1>4. \/ stage'[r] = "ABANDONING" /\ ~issued'[r] /\ OnlyMoves(r)
        \/ /\ stage'[r] = "DONE" /\ ~issued'[r] /\ OnlyMoves(r)
           /\ issued[r] \/ (asking[r] = {} /\ HoldsVersion(r))
    BY <1>1, Moves DEF StopAsking, StopRuntime
  <1>5. ASSUME stage'[r] = "DONE", author = r, Quiet, NEW p \in Failing(pending.option)
        PROVE  AskedBefore(p, pending.option)
    <2>1. ~issued[r] /\ pending # NoCandidate
      BY <1>5 DEF RequestInv, AuthorInv
    <2>2. asking[r] = {} /\ HoldsVersion(r)
      BY <1>4, <1>5, <2>1
    <2>3. Covered(r)
      BY <1>2, <1>5, <2>2 DEF RequestInv, HandlerInv, Quiet
    <2>4. AskedBefore(p, pending.option) \/ question[p][pending.option] = "PENDING"
      BY <1>5, <2>2, <2>3 DEF Covered
    <2>5. p \in Participant /\ pending.option \in Option
      BY <1>5, <2>1, CandidateIsProposal DEF Candidate, Failing, TypeOK, FrameTypeOK
    <2> QED
      BY <1>5, <2>4, <2>5 DEF Quiet, SomePending
  <1> QED
    BY <1>2, <1>3, <1>4, <1>5, SilentKeeps DEF Kept, Offered

\* A candidate nobody was asked about is given up by its own request.
LEMMA AbandonKeeps ==
    ASSUME RequestInv, NEW r \in Request, Abandon(r)
    PROVE  Kept
  <1>1. NegotiatorTypeOK
    BY DEF RequestInv
  <1>2. stage[r] = "ABANDONING" /\ stage'[r] = "DONE" /\ ~issued'[r] /\ OnlyMoves(r)
    BY <1>1, Moves DEF Abandon
  <1>3. CASE author = r /\ status = "PRIVATE_NEGOTIATION" /\ ~SomePending(question)
    <2>1. /\ job' = 0 /\ fence' = FALSE /\ status' # "PRIVATE_NEGOTIATION"
          /\ author' = Nobody
      BY <1>3, ReadinessIsNeither DEF Abandon, AbandonPendingReasoning
    <2>2. HolderInv'
      BY <2>1 DEF HolderInv
    <2>3. AuthorInv'
      BY <2>1, NegotiatorAssumption DEF AuthorInv, Quiet
    <2>4. HandlerInv'
      BY <1>2, <2>1 DEF HandlerInv, RequestInv, OnlyMoves, HoldsVersion
    <2> QED
      BY <2>2, <2>3, <2>4 DEF Kept
  <1>4. CASE ~(author = r /\ status = "PRIVATE_NEGOTIATION" /\ ~SomePending(question))
    <2>1. UNCHANGED <<vars, holder, author>>
      BY <1>4 DEF Abandon
    <2>2. ~(holder = r /\ job # 0 /\ status = "REASONING")
      BY <1>2 DEF RequestInv, HolderInv, AtWork
    <2>3. ~(author = r /\ Quiet)
      BY <1>4 DEF Quiet
    <2> QED
      BY <1>2, <2>1, <2>2, <2>3, SilentKeeps DEF Offered, Kept
  <1> QED BY <1>3, <1>4

\* Whatever the others do, what a request relies on holds or its version is gone.
LEMMA OthersKeep ==
    ASSUME RequestInv, Others
    PROVE  Kept
  <1>1. /\ UNCHANGED <<stage, handlerVars>>
        /\ author' = IF pending' = NoCandidate THEN Nobody ELSE author
        /\ holder' = IF job' = 0 /\ ~fence' THEN Nobody ELSE holder
    BY DEF Others
  <1>2. HolderInv'
    <2> SUFFICES ASSUME job' # 0, status' = "REASONING"
                 PROVE  holder' \in Request /\ stage'[holder'] \in AtWork
      BY DEF HolderInv
    <2>1. job # 0 /\ status = "REASONING" /\ holder' = holder
      BY <1>1, OthersRunNoJob
    <2> QED
      BY <1>1, <2>1 DEF RequestInv, HolderInv
  <1>3. AuthorInv'
    <2>1. author' \in Request => stage'[author'] \in Offered
      BY <1>1, NegotiatorAssumption DEF RequestInv, AuthorInv
    <2>2. ASSUME Quiet'
          PROVE  /\ author' \in Request /\ pending' # NoCandidate /\ ~issued'[author']
                 /\ stage'[author'] = "DONE" =>
                      \A p \in Failing(pending.option)' : AskedBefore(p, pending.option)'
      <3>1. Quiet /\ UNCHANGED <<roster, terms, question, refused, pending>>
        BY <2>2, OthersLeaveQuiet
      <3>2. author' = author /\ author \in Request /\ pending # NoCandidate
        BY <1>1, <3>1 DEF RequestInv, AuthorInv
      <3>3. ~issued[author]
        BY <3>1 DEF RequestInv, AuthorInv
      <3>4. stage[author] = "DONE" =>
              \A p \in Failing(pending.option) : AskedBefore(p, pending.option)
        BY <3>1 DEF RequestInv, AuthorInv
      <3> QED
        BY <1>1, <3>1, <3>2, <3>3, <3>4 DEF handlerVars, Failing, AskedBefore
    <2> QED
      BY <2>1, <2>2 DEF AuthorInv
  <1>4. HandlerInv'
    <2> SUFFICES ASSUME NEW r \in Request
                 PROVE  /\ issued'[r] => stage'[r] \in {"ASKING", "CANCELLING"}
                        /\ stage'[r] = "COMMITTING" /\ HoldsVersion(r)' => Judged(r)'
                        /\ stage'[r] = "ASKING" /\ HoldsVersion(r)' /\ author' = r
                             /\ status' = "PRIVATE_NEGOTIATION" => Covered(r)'
      BY DEF HandlerInv
    <2>1. issued'[r] => stage'[r] \in {"ASKING", "CANCELLING"}
      BY <1>1 DEF RequestInv, HandlerInv, handlerVars
    <2>2. ASSUME HoldsVersion(r)'
          PROVE  /\ stage'[r] = "COMMITTING" => Judged(r)'
                 /\ stage'[r] = "ASKING" /\ author' = r
                      /\ status' = "PRIVATE_NEGOTIATION" => Covered(r)'
      <3>1. UNCHANGED <<status, frameVars, ownerVars, question, permission, refused,
                        proposalVars, fence>>
        BY <2>2, OnlyTimePasses DEF HoldsVersion
      <3>2. HoldsVersion(r) /\ UNCHANGED <<roster, required, confirmed, readiness, terms, draft>>
            /\ UNCHANGED <<pending, question, refused, choice, asking, stage, status>>
        BY <1>1, <2>2, <3>1, NegotiatorAssumption
        DEF HoldsVersion, frameVars, ownerVars, proposalVars, handlerVars
      <3>3. author' = r => author = r
        BY <1>1, NegotiatorAssumption
      <3>4. stage[r] = "COMMITTING" => Judged(r)
        BY <3>2 DEF RequestInv, HandlerInv
      <3>5. stage[r] = "ASKING" /\ author = r /\ status = "PRIVATE_NEGOTIATION" => Covered(r)
        BY <3>2 DEF RequestInv, HandlerInv
      <3>6. Judged(r) => Judged(r)'
        BY <3>2 DEF Judged, Unclear, RequiredConfirmed, Failing
      <3>7. Covered(r) => Covered(r)'
        BY <3>2 DEF Covered, Failing, AskedBefore
      <3> QED
        BY <3>2, <3>3, <3>4, <3>5, <3>6, <3>7
    <2> QED
      BY <2>1, <2>2
  <1> QED
    BY <1>2, <1>3, <1>4 DEF Kept

LEMMA StepKeeps ==
    ASSUME TypeOK, RequestInv, [NegotiatorNext]_allVars
    PROVE  TypeOK' /\ RequestInv'
  <1>1. [Next]_vars
    BY StepOfTheDecision
  <1>2. TypeOK' /\ JobIsBound'
    BY <1>1, StepType, JobStaysBound DEF RequestInv
  <1>3. NegotiatorTypeOK'
    BY RequestTypes DEF RequestInv
  <1>4. ASSUME NEW r \in Request, Proceed(r) PROVE Kept
    <2>1. CASE Start(r) \/ Read(r)
      BY <2>1, StartKeeps
    <2>2. CASE NoContext(r) \/ SelectStale(r) \/ Reject(r) \/ CommitStale(r) \/ Throw(r)
      BY <2>2, PassingKeeps
    <2>3. CASE \E o \in Option, deps \in SUBSET (Participant \X Option), ask \in SUBSET roster :
                  Select(r, o, deps, ask)
      BY <2>3, SelectKeeps
    <2>4. CASE \E p \in Participant : Ask(r, p) \/ Skip(r, p)
      BY <2>4, AskKeeps, SkipKeeps
    <2>5. CASE Commit(r) \/ Cancel(r) \/ StopAsking(r) \/ StopRuntime(r) \/ Abandon(r)
      BY <2>5, CommitKeeps, CancelKeeps, StopKeeps, AbandonKeeps
    <2> QED
      BY <1>4, <2>1, <2>2, <2>3, <2>4, <2>5 DEF Proceed
  <1>5. ASSUME NEW r \in Request, Lose(r) PROVE Kept
    BY <1>5, PassingKeeps
  <1>6. ASSUME UNCHANGED allVars PROVE Kept
    <2>1. /\ UNCHANGED <<status, context, roster, required, confirmed, readiness, terms, draft>>
          /\ UNCHANGED <<question, permission, refused, pending, job, fence>>
          /\ UNCHANGED <<stage, choice, asking, issued, holder, author>>
      BY <1>6 DEF allVars, vars, frameVars, ownerVars, consentVars, proposalVars, requestVars,
         handlerVars
    <2>2. HolderInv'
      BY <2>1 DEF RequestInv, HolderInv
    <2>3. AuthorInv'
      BY <2>1 DEF RequestInv, AuthorInv, Quiet, SomePending, Failing, AskedBefore
    <2>4. HandlerInv'
      BY <2>1 DEF RequestInv, HandlerInv, HoldsVersion, Judged, Unclear, RequiredConfirmed,
         Failing, Covered, AskedBefore
    <2> QED
      BY <2>2, <2>3, <2>4 DEF Kept
  <1>7. Kept
    BY <1>4, <1>5, <1>6, OthersKeep DEF NegotiatorNext
  <1> QED
    BY <1>2, <1>3, <1>7 DEF Kept, RequestInv

LEMMA InitKept == NegotiatorInit => TypeOK /\ RequestInv
  <1> SUFFICES ASSUME NegotiatorInit PROVE TypeOK /\ RequestInv
    OBVIOUS
  <1>1. Collected
    BY DEF NegotiatorInit
  <1>2. TypeOK
    <2>1. status \in Status /\ fence \in BOOLEAN
      BY <1>1 DEF Collected, Status, Collecting
    <2>2. FrameTypeOK
      BY <1>1, BoundAssumption, DataAssumption DEF Collected, FrameTypeOK
    <2>3. OwnerTypeOK
      BY <1>1, EmptyTypes, NegotiatorAssumption DEF Collected, OwnerTypeOK, Readiness
    <2>4. ConsentTypeOK
      BY <1>1, EmptyTypes DEF Collected, ConsentTypeOK
    <2>5. ProposalTypeOK
      BY <1>1, BoundAssumption DEF Collected, ProposalTypeOK
    <2> QED
      BY <2>1, <2>2, <2>3, <2>4, <2>5 DEF TypeOK
  <1>3. /\ stage = [r \in Request |-> "IDLE"] /\ attempt = [r \in Request |-> 0]
        /\ choice = [r \in Request |-> NoChoice] /\ asking = [r \in Request |-> {}]
        /\ issued = [r \in Request |-> FALSE] /\ holder = Nobody /\ author = Nobody
    BY DEF NegotiatorInit
  <1>4. NegotiatorTypeOK
    BY <1>3 DEF NegotiatorTypeOK, Stage, MaxAttempts, NoChoice, Choice
  <1>5. JobIsBound /\ HolderInv /\ AuthorInv
    BY <1>1, <1>3, NegotiatorAssumption DEF Collected, JobIsBound, HolderInv, AuthorInv, Quiet
  <1>6. HandlerInv
    BY <1>3 DEF HandlerInv
  <1> QED
    BY <1>2, <1>4, <1>5, <1>6 DEF RequestInv

-----------------------------------------------------------------------------
(* The theorems *)

\* The inductive invariant: what a request holds has its type, and what it
\* relies on is so while no version has passed.
THEOREM NegotiatorInvariant == NegotiatorSpec => [](TypeOK /\ RequestInv)
  <1>1. TypeOK /\ RequestInv /\ [NegotiatorNext]_allVars => (TypeOK /\ RequestInv)'
    BY StepKeeps
  <1> QED
    BY <1>1, InitKept, PTL DEF NegotiatorSpec

\* Requests, with everything that fails in them, change the decision by the
\* transactions DecisionLifecycle has and by nothing else.
THEOREM RequestsTakeDecisionSteps == NegotiatorSpec => [][Next]_vars
  <1>1. RequestInv /\ [NegotiatorNext]_allVars => [Next]_vars
    BY StepOfTheDecision
  <1> QED
    BY <1>1, NegotiatorInvariant, PTL DEF NegotiatorSpec

\* A decision is left REASONING only by an invocation that was lost.
THEOREM NoJobAbandoned == NegotiatorSpec => []NoJobIsAbandoned
  <1>1. RequestInv => NoJobIsAbandoned
    BY DEF RequestInv, HolderInv, AtWork, NoJobIsAbandoned, InFlight
  <1> QED
    BY <1>1, NegotiatorInvariant, PTL

\* No request answers and leaves a candidate waiting for a question that was
\* never asked and can be.
THEOREM NegotiationHeld == NegotiatorSpec => []NegotiationIsHeld
  <1>1. RequestInv => NegotiationIsHeld
    BY DEF RequestInv, AuthorInv, Quiet, Offered, NegotiationIsHeld, InFlight
  <1> QED
    BY <1>1, NegotiatorInvariant, PTL

\* A request that moves touches no other request's job, and no other's
\* candidate unless it completes its own job.
THEOREM RequestsStayApart == NegotiatorSpec => RequestsKeepApart
  <1> DEFINE Apart(r) ==
        stage'[r] # stage[r] /\ stage[r] # "IDLE" =>
          /\ job # 0 /\ holder # r => job' = job /\ status' = status
          /\ pending # NoCandidate /\ author # r => pending' = pending \/ HoldsJob(r)
  <1>1. ASSUME RequestInv, [NegotiatorNext]_allVars, NEW r \in Request
        PROVE  Apart(r)
    <2>1. NegotiatorTypeOK
      BY <1>1 DEF RequestInv
    <2>2. CASE UNCHANGED allVars
      BY <2>2 DEF allVars, requestVars
    <2>3. CASE Others
      BY <2>3 DEF Others
    <2>4. ASSUME NEW q \in Request, q # r, Proceed(q) \/ Lose(q)
          PROVE  stage'[r] = stage[r]
      BY <2>1, <2>4
      DEF NegotiatorTypeOK, Proceed, Lose, Start, Read, NoContext, Select, SelectStale, Reject,
          Commit, CommitStale, Cancel, Ask, Skip, StopAsking, StopRuntime, Abandon, Throw,
          Goto, End
    <2>5. CASE Lose(r) \/ NoContext(r) \/ SelectStale(r) \/ Reject(r) \/ CommitStale(r)
                 \/ StopAsking(r) \/ StopRuntime(r) \/ Throw(r)
      BY <2>5 DEF Lose, NoContext, SelectStale, Reject, CommitStale, StopAsking, StopRuntime,
         Throw, vars, proposalVars
    <2>6. ASSUME NEW o \in Option, NEW deps \in SUBSET (Participant \X Option),
                 NEW ask \in SUBSET roster, Select(r, o, deps, ask)
          PROVE  Apart(r)
      BY <2>6 DEF Select, vars, proposalVars
    <2>7. CASE \E p \in Participant : Ask(r, p) \/ Skip(r, p)
      BY <2>7 DEF Ask, Skip
    <2>8. CASE Start(r)
      BY <2>8 DEF Start
    <2>9. CASE Read(r) \/ Commit(r)
      BY <2>9 DEF Read, Commit, HoldsJob, GetReasoningContext, proposalVars
    <2>10. CASE Cancel(r)
      BY <2>10 DEF Cancel, HoldsJob, CancelReasoning, vars, proposalVars
    <2>11. CASE Abandon(r)
      BY <2>11 DEF Abandon, AbandonPendingReasoning, vars, proposalVars
    <2> QED
      BY <1>1, <2>2, <2>3, <2>4, <2>5, <2>6, <2>7, <2>8, <2>9, <2>10, <2>11
      DEF NegotiatorNext, Proceed
  <1>2. RequestInv /\ [NegotiatorNext]_allVars => [\A r \in Request : Apart(r)]_allVars
    BY <1>1
  <1> QED
    BY <1>2, NegotiatorInvariant, PTL DEF NegotiatorSpec, RequestsKeepApart

\* With requests at work the decision is as safe as without: agreements are
\* unanimous, reasoning rests on complete input, proposals honour conditions.
THEOREM DecisionStaysSafe ==
    ASSUME Optional = {}
    PROVE  NegotiatorSpec => [](SafetyInv /\ ConsentInv)
  <1>1. NegotiatorInit => SafetyInv /\ ConsentInv
    <2> SUFFICES ASSUME Collected PROVE SafetyInv /\ ConsentInv
      BY DEF NegotiatorInit
    <2>1. SafetyInv
      BY DEF Collected, SafetyInv, ProposalMatchesStatus, AgreementIsUnanimous,
         ApprovalsAreCurrent, ProposalRestsOnCompleteInput, InputComplete, RequiredConfirmed,
         JobRunsAlone, QuestionsHoldTheDecision, SomePending, NoneAsked, Live
    <2>2. ConsentInv
      BY DEF Collected, ConsentInv, ProposalHonoursConditions, RefusalIsRespected,
         PermissionHasConsent, ConsentersAnswered, NoneAsked
    <2> QED
      BY <2>1, <2>2
  <1>2. TypeOK /\ RequestInv /\ SafetyInv /\ ConsentInv /\ [NegotiatorNext]_allVars
          => (SafetyInv /\ ConsentInv)'
    BY StepOfTheDecision, StepSafe, StepConsent
  <1> QED
    BY <1>1, <1>2, NegotiatorInvariant, PTL DEF NegotiatorSpec

=============================================================================
