------------------------- MODULE DecisionNegotiator -------------------------
(***************************************************************************)
(* A request for an outcome, as DecisionNegotiator.generate runs it        *)
(* (packages/application/src/decision-negotiator.ts) over the decision of  *)
(* DecisionLifecycle.  The handler awaits between its transactions, so the *)
(* owners, the creator, the clock, a conversation that stores a draft and  *)
(* other requests act between any two of its steps; a killed invocation    *)
(* (Lose) acts no more.                                                    *)
(*                                                                         *)
(* A job has one holder, the request that started it last, and the version *)
(* the holder reads is the only one a commit may name: fence, of           *)
(* DecisionLifecycle, is about the holder.  What the model answers is left *)
(* free within what the handler accepts: how an output is parsed and an    *)
(* offer of the catalog picked, the guidance that helps the model and the  *)
(* public explanation are in ValidationKernel.  The reads that end a       *)
(* request are left out.                                                   *)
(***************************************************************************)
EXTENDS DecisionLifecycle

CONSTANTS
    Conditions, \* bound: the conditions the owners have saved when it begins
    Request,    \* bound: the requests for an outcome, each served once
    Nobody      \* no request

ASSUME NegotiatorAssumption == Conditions \subseteq Terms /\ Nobody \notin Request

MaxAttempts == 2    \* MAX_ATTEMPTS

VARIABLES
    stage,      \* where the handler of a request waits
    attempt,    \* calls of the model it has begun
    choice,     \* the candidate it has accepted from the model
    asking,     \* the owners the model wants asked, and still to be asked
    issued,     \* whether it has asked anybody (questionsIssued > 0)
    holder,     \* the request that can still commit: its job, or its version, stands
    author      \* the request whose candidate decision.pendingCandidate is

handlerVars == <<attempt, choice, asking, issued>>
requestVars == <<stage, handlerVars, holder, author>>
allVars == <<vars, requestVars>>

Stage == {"IDLE", "READING", "CHOOSING", "COMMITTING", "ASKING", "ABANDONING",
          "CANCELLING", "CANCELLED", "DONE", "LOST"}
InFlight(r) == stage[r] \notin {"IDLE", "CANCELLED", "DONE", "LOST"}

Choice == [option : Option \union {0}, deps : SUBSET (Participant \X Option)]
NoChoice == [option |-> 0, deps |-> {}]

\* everybody has confirmed the frame and saved answers: the collection before
\* is checked with DecisionLifecycle
Collected ==
    /\ status = "READY" /\ context = 1
    /\ roster = Participant /\ required = roster \ Optional /\ confirmed = roster
    /\ readiness = [p \in Participant |-> "READY"]
    /\ terms \in [Participant -> Conditions]
    /\ draft = [p \in Participant |-> NoDraft]
    /\ question = NoneAsked /\ permission = NoneAsked
    /\ refused = NoneRefused /\ lapsed = NoneRefused
    /\ candidate = NoCandidate /\ pending = NoCandidate /\ proposalVersion = 0
    /\ approval = [p \in Participant |-> 0]
    /\ job = 0 /\ agreements = {} /\ fence = FALSE

NegotiatorInit ==
    /\ Collected
    /\ stage = [r \in Request |-> "IDLE"]
    /\ attempt = [r \in Request |-> 0]
    /\ choice = [r \in Request |-> NoChoice]
    /\ asking = [r \in Request |-> {}]
    /\ issued = [r \in Request |-> FALSE]
    /\ holder = Nobody /\ author = Nobody

Goto(r, s) == stage' = [stage EXCEPT ![r] = s]

\* the handler is over and forgets what it held
End(r, s) ==
    /\ Goto(r, s)
    /\ attempt' = [attempt EXCEPT ![r] = 0]
    /\ choice' = [choice EXCEPT ![r] = NoChoice]
    /\ asking' = [asking EXCEPT ![r] = {}]
    /\ issued' = [issued EXCEPT ![r] = FALSE]

\* the job named by the request's id is decision.job, and reasoning goes on
HoldsJob(r) == holder = r /\ job = context /\ status = "REASONING"
\* no controlVersion has passed since the one the request holds
HoldsVersion(r) == holder = r /\ fence

-----------------------------------------------------------------------------
\* startReasoning; a decision that is not ready refuses the request at once
Start(r) ==
    /\ stage[r] = "IDLE"
    /\ proposalVersion < MaxProposal
    /\ StartReasoning
    /\ holder' = r
    /\ Goto(r, "READING")
    /\ UNCHANGED <<handlerVars, author>>

\* getReasoningContext, and the catalog made from what it shows
Read(r) ==
    /\ stage[r] = "READING"
    /\ HoldsJob(r)
    /\ GetReasoningContext
    /\ attempt' = [attempt EXCEPT ![r] = 1]
    /\ Goto(r, "CHOOSING")
    /\ UNCHANGED <<choice, asking, issued, holder, author>>

\* the context is gone, or the catalog is empty or ambiguous
NoContext(r) ==
    /\ stage[r] = "READING"
    /\ Goto(r, "CANCELLING")
    /\ UNCHANGED <<vars, handlerVars, holder, author>>

\* Faulty variant: a preview that needs permission is taken as it is.
SelectUncovered(r, o, deps, ask) ==
    /\ stage[r] = "CHOOSING"
    /\ HoldsJob(r) /\ HoldsVersion(r)
    /\ \A d \in deps : permission[d[1]][d[2]] = "ACTIVE"
    /\ Verdict(o, deps) = "INVALID" => attempt[r] = MaxAttempts
    /\ choice' = [choice EXCEPT ![r] = [option |-> o, deps |-> deps]]
    /\ asking' = [asking EXCEPT ![r] = ask]
    /\ Goto(r, "COMMITTING")
    /\ UNCHANGED <<vars, attempt, issued, holder, author>>

\* the model names a candidate of the catalog and permissions of the context, and
\* previewReasoning and previewReasoningQuestions judge it
Select(r, o, deps, ask) ==
    /\ stage[r] = "CHOOSING"
    /\ HoldsJob(r) /\ HoldsVersion(r)
    /\ \A d \in deps : permission[d[1]][d[2]] = "ACTIVE"
    /\ Verdict(o, deps) = "INVALID" => attempt[r] = MaxAttempts
    /\ Verdict(o, deps) = "NEEDS_PERMISSION" => Failing(o) \subseteq ask
    /\ choice' = [choice EXCEPT ![r] = [option |-> o, deps |-> deps]]
    /\ asking' = [asking EXCEPT ![r] = ask]
    /\ Goto(r, "COMMITTING")
    /\ UNCHANGED <<vars, attempt, issued, holder, author>>

\* the same after the version has gone: whatever was chosen, its commit is STALE
SelectStale(r) ==
    /\ stage[r] = "CHOOSING"
    /\ ~HoldsVersion(r)
    /\ Goto(r, "COMMITTING")
    /\ UNCHANGED <<vars, handlerVars, holder, author>>

\* the model fails, times out or says nothing that can be used
Reject(r) ==
    /\ stage[r] = "CHOOSING"
    /\ IF attempt[r] < MaxAttempts
       THEN attempt' = [attempt EXCEPT ![r] = @ + 1] /\ UNCHANGED stage
       ELSE Goto(r, "CANCELLING") /\ UNCHANGED attempt
    /\ UNCHANGED <<vars, choice, asking, issued, holder, author>>

\* completeReasoning under the commit guard
Commit(r) ==
    /\ stage[r] = "COMMITTING"
    /\ HoldsJob(r) /\ HoldsVersion(r)
    /\ CompleteReasoning(choice[r].option, choice[r].deps)
    /\ author' = IF pending' = NoCandidate THEN Nobody ELSE r
    /\ IF status' = "PRIVATE_NEGOTIATION"
       THEN Goto(r, "ASKING") /\ UNCHANGED handlerVars
       ELSE End(r, "DONE")
    /\ UNCHANGED holder

\* Faulty variant: a request that was told STALE forgets its job.
CommitStaleSilently(r) ==
    /\ stage[r] = "COMMITTING"
    /\ End(r, "DONE")
    /\ UNCHANGED <<vars, holder, author>>

\* completeReasoning answers STALE: the job or the version is gone, a listed
\* permission or the guard has expired, or the runtime was switched off
CommitStale(r) ==
    /\ stage[r] = "COMMITTING"
    /\ Goto(r, "CANCELLING")
    /\ UNCHANGED <<vars, handlerVars, holder, author>>

\* Faulty variant: whatever job is under way is cancelled.
CancelAny(r) ==
    /\ stage[r] = "CANCELLING"
    /\ IF job = context /\ status = "REASONING"
       THEN CancelReasoning /\ holder' = Nobody ELSE UNCHANGED <<vars, holder>>
    /\ End(r, "CANCELLED")
    /\ UNCHANGED author

\* cancelReasoning of exactly this request's job
Cancel(r) ==
    /\ stage[r] = "CANCELLING"
    /\ IF HoldsJob(r) THEN CancelReasoning /\ holder' = Nobody ELSE UNCHANGED <<vars, holder>>
    /\ End(r, "CANCELLED")
    /\ UNCHANGED author

-----------------------------------------------------------------------------
(* The questions: one transaction each, in any order of the model's intents *)

\* askNegotiation has nothing to ask: the owner declined exactly this before,
\* or the same question was answered, superseded or has expired
AskedBefore(p, o) == o \in refused[p] \/ question[p][o] \notin {"NONE", "PENDING"}

Ask(r, p) ==
    /\ stage[r] = "ASKING"
    /\ p \in asking[r]
    /\ HoldsVersion(r) /\ author = r
    /\ AskNegotiation(p)
    /\ asking' = [asking EXCEPT ![r] = @ \ {p}]
    /\ issued' = [issued EXCEPT ![r] = TRUE]
    /\ UNCHANGED <<stage, attempt, choice, holder, author>>

\* no target of getPendingNegotiationFailures, or a question that is not asked twice
Skip(r, p) ==
    /\ stage[r] = "ASKING"
    /\ p \in asking[r]
    /\ HoldsVersion(r) /\ author = r
    /\ p \notin Failing(pending.option) \/ AskedBefore(p, pending.option)
    /\ asking' = [asking EXCEPT ![r] = @ \ {p}]
    /\ UNCHANGED <<vars, stage, attempt, choice, issued, holder, author>>

\* Faulty variant: a request that asked nobody leaves its candidate waiting.
StopAskingAtOnce(r) ==
    /\ stage[r] = "ASKING"
    /\ asking[r] = {} \/ ~HoldsVersion(r)
    /\ End(r, "DONE")
    /\ UNCHANGED <<vars, holder, author>>

\* everybody was asked, or the version moved on; with no question issued and
\* the version moved the candidate is given up
StopAsking(r) ==
    /\ stage[r] = "ASKING"
    /\ asking[r] = {} \/ ~HoldsVersion(r)
    /\ IF ~issued[r] /\ ~HoldsVersion(r)
       THEN Goto(r, "ABANDONING") /\ UNCHANGED handlerVars
       ELSE End(r, "DONE")
    /\ UNCHANGED <<vars, holder, author>>

\* the guard has expired or the runtime was switched off while asking
StopRuntime(r) ==
    /\ stage[r] = "ASKING"
    /\ IF issued[r] THEN End(r, "DONE") ELSE Goto(r, "ABANDONING") /\ UNCHANGED handlerVars
    /\ UNCHANGED <<vars, holder, author>>

\* abandonPendingReasoning of exactly this request's candidate
Abandon(r) ==
    /\ stage[r] = "ABANDONING"
    /\ IF author = r /\ status = "PRIVATE_NEGOTIATION" /\ ~SomePending(question)
       THEN AbandonPendingReasoning /\ author' = Nobody /\ holder' = Nobody
       ELSE UNCHANGED <<vars, author, holder>>
    /\ End(r, "DONE")

\* a transaction fails and the handler's catch cancels the job it started
Throw(r) ==
    /\ stage[r] \in {"COMMITTING", "ASKING", "ABANDONING"}
    /\ Goto(r, "CANCELLING")
    /\ UNCHANGED <<vars, handlerVars, holder, author>>

\* the invocation is killed, or the cancellation itself cannot be stored
Lose(r) ==
    /\ InFlight(r)
    /\ End(r, "LOST")
    /\ UNCHANGED <<vars, holder, author>>

-----------------------------------------------------------------------------
(* The others: every step of the decision that is not a request's *)

Others ==
    /\ \/ OwnerStep
       \/ \E p \in Participant : StoreConstraintDraft(p)
       \/ ClockStep
       \/ CreatorStep
    /\ author' = IF pending' = NoCandidate THEN Nobody ELSE author
    /\ holder' = IF job' = 0 /\ ~fence' THEN Nobody ELSE holder
    /\ UNCHANGED <<stage, handlerVars>>

Proceed(r) ==
    \/ Start(r) \/ Read(r) \/ NoContext(r)
    \/ \E o \in Option, deps \in SUBSET (Participant \X Option), ask \in SUBSET roster :
          Select(r, o, deps, ask)
    \/ SelectStale(r) \/ Reject(r) \/ Commit(r) \/ CommitStale(r) \/ Cancel(r)
    \/ \E p \in Participant : Ask(r, p) \/ Skip(r, p)
    \/ StopAsking(r) \/ StopRuntime(r) \/ Abandon(r) \/ Throw(r)

NegotiatorNext == Others \/ \E r \in Request : Proceed(r) \/ Lose(r)

NegotiatorSpec == NegotiatorInit /\ [][NegotiatorNext]_allVars

-----------------------------------------------------------------------------
\* What requests hold has its type.
NegotiatorTypeOK ==
    /\ stage \in [Request -> Stage]
    /\ attempt \in [Request -> 0..MaxAttempts]
    /\ choice \in [Request -> Choice]
    /\ asking \in [Request -> SUBSET Participant]
    /\ issued \in [Request -> BOOLEAN]
    /\ holder \in Request \union {Nobody} /\ author \in Request \union {Nobody}

\* A decision is left REASONING only by an invocation that was lost: whatever
\* fails in between, a request that ends has ended its job (the catch clauses
\* of generate).
NoJobIsAbandoned ==
    job # 0 /\ status = "REASONING" => InFlight(holder) \/ stage[holder] = "LOST"

\* A request that has answered leaves nobody waiting for a question that was
\* never asked: while a candidate waits and no question is open, its request is
\* still at work, broke down, or everyone whose permission is missing had been
\* asked exactly this before.
NegotiationIsHeld ==
    status = "PRIVATE_NEGOTIATION" /\ ~SomePending(question) =>
        \/ InFlight(author) \/ stage[author] \in {"CANCELLED", "LOST"}
        \/ \A p \in Failing(pending.option) : AskedBefore(p, pending.option)

\* A request that gives up, late or not, leaves another request's job and
\* candidate alone: only what completes its own job replaces a candidate.
RequestsKeepApart ==
    [][\A r \in Request : stage'[r] # stage[r] /\ stage[r] # "IDLE" =>
        /\ job # 0 /\ holder # r => job' = job /\ status' = status
        /\ pending # NoCandidate /\ author # r => pending' = pending \/ HoldsJob(r)]_allVars
=============================================================================
