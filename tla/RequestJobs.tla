----------------------------- MODULE RequestJobs -----------------------------
(***************************************************************************)
(* The paid calls that a person asks for and waits for.  A browser tab     *)
(* keeps the key of its request, posts it once, and learns from status     *)
(* checks what became of a request whose answer was lost; the server runs  *)
(* the job of the request inside the handler of the post, on the queue     *)
(* that the scheduled negotiations share (DurableModelJobs).               *)
(*                                                                         *)
(* The three kinds: ARCHITECT, a group decision's draft                    *)
(* (apps/api/src/partition-draft-runtime.ts, partition-draft-recovery.ts   *)
(* and apps/web/src/group-decisions.tsx), OWNER, an owner's private note   *)
(* (partition-owner-runtime.ts, connected-decision.tsx) and CHAT, a chat   *)
(* message (partition-chat-runtime.ts, alexa-chat.tsx).  No schedule       *)
(* delivers their jobs and nothing reconciles them: a handler that dies    *)
(* leaves its job where it was.                                            *)
(***************************************************************************)
EXTENDS DurableModelJobs

CONSTANTS
    Request,     \* the jobs that belong to a person's request
    Invocation   \* the handlers of posts; the other workers are scheduled

ASSUME RequestAssumption == Request \subseteq Job /\ Invocation \subseteq Worker

VARIABLES
    kind,        \* what the request asks for
    client,      \* what the tab knows of its request
    offer,       \* the job as it was when the server last offered to close it
    handler      \* how far the handler of the post is

requestVars == <<kind, client, offer, handler>>
allVars == <<vars, requestVars>>

Kind == {"ARCHITECT", "OWNER", "CHAT"}
\* ASKING: the post is out.  KEEPS: the key is kept and its answer unknown.
\* SAVED, CLOSED: told that it worked, or that nothing came or will come of it.
\* FREED: the key is gone with the outcome still open.
Client == {"NONE", "ASKING", "KEEPS", "SAVED", "CLOSED", "FREED"}
Free == [at |-> "free", job |-> "NONE"]

\* the job as its revision identifies it
Record(r) == <<phase[r], lease[r], failures[r], attempts[r], reason[r]>>
NoOffer == <<>>

RequestInit ==
    /\ Init
    /\ kind \in [Request -> Kind]
    /\ client = [r \in Request |-> "NONE"]
    /\ offer = [r \in Request |-> NoOffer]
    /\ handler = [i \in Invocation |-> Free]

-----------------------------------------------------------------------------
(* What the server answers *)

Settled(r) == phase[r] = "DEAD" /\ reason[r] # "PROVIDER_UNCONFIRMED"
OutOfSight(r) == phase[r] = "CALLING" /\ lease[r].until <= now

\* Faulty variant: a job in the middle of its call may be closed.
PreCallOrCalling(r) == phase[r] \in {"ABSENT", "READY", "LEASED", "CALLING"}

\* no call was charged, and none can be once the record has changed
PreCall(r) == phase[r] \in {"ABSENT", "READY", "LEASED"} /\ attempts[r] = 0

\* what a job that has not succeeded says of itself
Unfinished(r) ==
    IF Settled(r) THEN "FAILED"
    ELSE IF phase[r] = "DEAD" \/ OutOfSight(r) THEN "UNKNOWN" ELSE "PENDING"

\* The draft is looked up before its job.  One that was deleted stopped its
\* request; one the group has left behind makes the read a conflict.
DraftAnswers(r) ==
    CASE phase[r] = "ABSENT" -> {"NOT_SUBMITTED"}
      [] phase[r] = "SUCCEEDED" -> {"SAVED", "GONE", "UNKNOWN"}
      [] OTHER -> {Unfinished(r)}

\* a note's suggestions that were used or replaced make the read a conflict
NoteAnswers(r) ==
    CASE phase[r] = "ABSENT" -> {"NOT_SUBMITTED"}
      [] phase[r] = "SUCCEEDED" -> {"SAVED", "UNKNOWN"}
      [] OTHER -> {Unfinished(r)}

\* without a job the message may be saved or still on its way
ChatAnswers(r) ==
    CASE phase[r] = "ABSENT" -> {"NOT_SUBMITTED", "PENDING"}
      [] phase[r] = "SUCCEEDED" -> {"SAVED"}
      [] OTHER -> {Unfinished(r)}

-----------------------------------------------------------------------------
(* What the tab makes of an answer *)

Learn(r, next) ==
    /\ client' = [client EXCEPT ![r] = next]
    /\ offer' = [offer EXCEPT ![r] =
          IF kind[r] # "CHAT" /\ next = "KEEPS" /\ PreCall(r) THEN Record(r) ELSE NoOffer]

\* a failure closes the attempt, which for an expired job takes one more request
TellDraft(r, answer) ==
    Learn(r, CASE answer = "SAVED" -> "SAVED"
               [] answer = "FAILED" -> "CLOSED"
               [] answer = "GONE" -> "FREED"
               [] OTHER -> "KEEPS")

\* REFUSED: the post ended before anything was queued; CONFLICT: after it saved
TellNote(r, answer) ==
    Learn(r, CASE answer = "SAVED" -> "SAVED"
               [] answer \in {"FAILED", "REFUSED"} -> "CLOSED"
               [] answer = "CONFLICT" -> "FREED"
               [] OTHER -> "KEEPS")

\* the key is kept only while a reply, or the message itself, may still come
TellChat(r, answer) ==
    Learn(r, CASE answer = "SAVED" -> "SAVED"
               [] answer = "FAILED" -> "CLOSED"
               [] answer = "PENDING" -> "KEEPS"
               [] OTHER -> "FREED")

-----------------------------------------------------------------------------
(* The tab *)

\* the key is stored before the post leaves
Post(r, from) ==
    /\ client[r] = from
    /\ \E i \in Invocation :
          /\ handler[i] = Free
          /\ handler' = [handler EXCEPT ![i] = [at |-> "sent", job |-> r]]
    /\ client' = [client EXCEPT ![r] = "ASKING"]
    /\ UNCHANGED <<vars, kind, offer>>

\* a draft's post is repeated with its key while the tab still has its body
AskDraft(r) == kind[r] = "ARCHITECT" /\ (Post(r, "NONE") \/ Post(r, "KEEPS"))
AskNote(r) == kind[r] = "OWNER" /\ Post(r, "NONE")
AskChat(r) == kind[r] = "CHAT" /\ Post(r, "NONE")

\* the answer does not reach the tab, which keeps the key
StopWaiting(r) ==
    /\ client[r] = "ASKING"
    /\ client' = [client EXCEPT ![r] = "KEEPS"]
    /\ UNCHANGED <<vars, kind, offer, handler>>

\* A status check reads and starts nothing.
CheckDraft(r) ==
    /\ kind[r] = "ARCHITECT" /\ client[r] = "KEEPS"
    /\ \E answer \in DraftAnswers(r) : TellDraft(r, answer)
    /\ UNCHANGED <<vars, kind, handler>>

CheckNote(r) ==
    /\ kind[r] = "OWNER" /\ client[r] = "KEEPS"
    /\ \E answer \in NoteAnswers(r) : TellNote(r, answer)
    /\ UNCHANGED <<vars, kind, handler>>

\* a message stays in the history and can be checked there
CheckChat(r) ==
    /\ kind[r] = "CHAT" /\ client[r] \in {"KEEPS", "FREED"}
    /\ \E answer \in ChatAnswers(r) : TellChat(r, answer)
    /\ UNCHANGED <<vars, kind, handler>>

\* Faulty variant: an attempt that left no job is closed without leaving one.
EndBeforeCallUnrecorded(r) ==
    /\ client[r] = "KEEPS" /\ offer[r] = Record(r) /\ PreCall(r)
    /\ IF phase[r] = "ABSENT" THEN UNCHANGED <<phase, reason, lease, active, slots, worker>>
       ELSE /\ Finish(r, "DEAD", "SETTLED")
            /\ worker' = [w \in Worker |-> [worker[w] EXCEPT !.fresh = FALSE]]
    /\ UNCHANGED <<now, enabled, failures, availableAt, expiresAt, attempts, decisionVars,
                   callVars, kind, handler>>

\* The server ends an attempt at the revision the tab was offered.  A job that
\* was never written is written as DEAD, under a reference no post has, so that
\* a post still on its way finds it.
EndBeforeCall(r) ==
    /\ client[r] = "KEEPS" /\ offer[r] = Record(r) /\ PreCall(r)
    /\ Finish(r, "DEAD", "SETTLED")
    /\ worker' = [w \in Worker |-> [worker[w] EXCEPT !.fresh = FALSE]]
    /\ UNCHANGED <<now, enabled, failures, availableAt, expiresAt, attempts, decisionVars,
                   callVars, kind, handler>>

\* the tab hears that the attempt is closed, or not
ReleaseDraft(r) ==
    /\ kind[r] = "ARCHITECT" /\ EndBeforeCall(r)
    /\ \/ TellDraft(r, "FAILED") /\ UNCHANGED faults
       \/ Fault /\ UNCHANGED <<client, offer>>

CloseNote(r) ==
    /\ kind[r] = "OWNER" /\ EndBeforeCall(r)
    /\ \/ TellNote(r, "FAILED") /\ UNCHANGED faults
       \/ Fault /\ UNCHANGED <<client, offer>>

-----------------------------------------------------------------------------
(* The handler of the post *)

Goes(i, to) == handler' = [handler EXCEPT ![i].at = to]
HandlerOf(i, what) == handler[i].at # "free" /\ kind[handler[i].job] = what

\* The handler ends with an answer that only a tab that still waits hears.
Leave(i, told) ==
    /\ handler' = [handler EXCEPT ![i] = Free]
    /\ IF client[handler[i].job] = "ASKING" THEN told ELSE UNCHANGED <<client, offer>>

\* nothing is queued for the request, and there is room
Admits(r) == phase[r] = "ABSENT" /\ enabled /\ Cardinality(slots) < MaxSlots

\* The first look at a draft: an earlier post's job is carried on; a check that
\* fails is an error, and the tab asks for the status.
StartDraft(i) ==
    LET r == handler[i].job
    IN  /\ HandlerOf(i, "ARCHITECT") /\ handler[i].at = "sent"
        /\ \/ Admits(r) /\ Goes(i, "enqueue") /\ UNCHANGED <<client, offer>>
           \/ phase[r] # "ABSENT" /\ enabled /\ Goes(i, "process") /\ UNCHANGED <<client, offer>>
           \/ Leave(i, TellDraft(r, "UNKNOWN"))
        /\ UNCHANGED <<vars, kind>>

\* The first look at a note: a job that exists is only reported; access,
\* capacity, consent to processing and retention are checked before the queue.
StartNote(i) ==
    LET r == handler[i].job
    IN  /\ HandlerOf(i, "OWNER") /\ handler[i].at = "sent"
        /\ \/ Admits(r) /\ Goes(i, "enqueue") /\ UNCHANGED <<client, offer>>
           \/ phase[r] = "ABSENT" /\ Leave(i, TellNote(r, "REFUSED"))
           \/ phase[r] # "ABSENT" /\ Goes(i, "look") /\ UNCHANGED <<client, offer>>
        /\ UNCHANGED <<vars, kind>>

\* The first look at a chat message, saved once before any call: a job that
\* exists, a queue that is off or full are only reported.
StartChat(i) ==
    LET r == handler[i].job
    IN  /\ HandlerOf(i, "CHAT") /\ handler[i].at = "sent"
        /\ \/ Admits(r) /\ Goes(i, "enqueue") /\ UNCHANGED <<client, offer>>
           \/ \E answer \in ChatAnswers(r) : Leave(i, TellChat(r, answer))
        /\ UNCHANGED <<vars, kind>>

\* enqueue reads again; what it may not queue is left to the last look, a job
\* that somebody else wrote meanwhile to process()
Open(i) ==
    LET r == handler[i].job
    IN  /\ handler[i].at = "enqueue"
        /\ IF MayEnqueue(r) /\ now + Life <= MaxTime
           THEN /\ Set(i, [Idle EXCEPT !.job = r, !.fresh = TRUE, !.until = now + Life])
                /\ Goes(i, "opening")
           ELSE /\ Goes(i, IF phase[r] = "ABSENT" THEN "look" ELSE "process")
                /\ UNCHANGED worker
        /\ UNCHANGED <<now, controlVars, jobVars, decisionVars, callVars, faults, kind, client, offer>>

\* The commit of enqueue.  Unacknowledged, it leaves a READY job nobody runs.
Queue(i) ==
    /\ handler[i].at = "opening" /\ worker[i].fresh
    /\ WriteJob(handler[i].job, worker[i].until)
    /\ Commit(i, Idle, handler[i].job, FALSE)
    /\ \/ Goes(i, "process") /\ UNCHANGED faults
       \/ Goes(i, "look") /\ Fault
    /\ UNCHANGED <<kind, client, offer>>

\* somebody has committed since the read
QueueConflict(i) ==
    /\ handler[i].at = "opening" /\ ~worker[i].fresh
    /\ Set(i, Idle) /\ Goes(i, "look")
    /\ UNCHANGED <<now, controlVars, jobVars, decisionVars, callVars, faults, kind, client, offer>>

\* process() takes the job of the request, or has nothing to do with it
Skips(r) ==
    \/ phase[r] \in Terminal
    \/ lease[r] # NoLease /\ lease[r].until > now
    \/ /\ phase[r] # "CALLING" /\ expiresAt[r] > now /\ enabled
       /\ availableAt[r] > now \/ ~SlotAvailable(r)

Process(i) ==
    /\ handler[i].at = "process"
    /\ IF Skips(handler[i].job)
       THEN UNCHANGED vars /\ Goes(i, "look")
       ELSE Take(i, handler[i].job) /\ Goes(i, "running")
    /\ ~worker'[i].plan.cancel
    /\ UNCHANGED <<kind, client, offer>>

\* One step of process() with the ports of a request: the reload compares what
\* the person saw, the call is the person's, the result is saved with the job,
\* and there is no reasoning to cancel.  The last look comes after it.
Running(i) ==
    /\ handler[i].at = "running"
    /\ Progress(i) \/ LoseAcknowledgement(i) \/ LoseRequest(i) \/ Collide(i)
    /\ ~worker'[i].plan.cancel
    /\ Goes(i, IF worker'[i] = Idle THEN "look" ELSE "running")
    /\ UNCHANGED <<kind, client, offer>>

RunDraft(i) == HandlerOf(i, "ARCHITECT") /\ Running(i)
RunNote(i) == HandlerOf(i, "OWNER") /\ Running(i)
RunChat(i) == HandlerOf(i, "CHAT") /\ Running(i)

\* The last look: whatever happened, the record of the job is the answer.
LookDraft(i) ==
    LET r == handler[i].job
    IN  /\ HandlerOf(i, "ARCHITECT") /\ handler[i].at = "look"
        /\ \E answer \in IF phase[r] = "SUCCEEDED" THEN {"SAVED", "UNKNOWN"} ELSE {"UNKNOWN"} :
              Leave(i, TellDraft(r, answer))
        /\ UNCHANGED <<vars, kind>>

LookNote(i) ==
    LET r == handler[i].job
    IN  /\ HandlerOf(i, "OWNER") /\ handler[i].at = "look"
        /\ \E answer \in IF phase[r] = "SUCCEEDED" THEN {"SAVED", "CONFLICT"} ELSE NoteAnswers(r) :
              Leave(i, TellNote(r, answer))
        /\ UNCHANGED <<vars, kind>>

LookChat(i) ==
    LET r == handler[i].job
    IN  /\ HandlerOf(i, "CHAT") /\ handler[i].at = "look"
        /\ \E answer \in ChatAnswers(r) : Leave(i, TellChat(r, answer))
        /\ UNCHANGED <<vars, kind>>

\* the handler is killed, whatever it was doing
Die(i) ==
    /\ handler[i].at # "free" /\ Fault
    /\ handler' = [handler EXCEPT ![i] = Free]
    /\ Set(i, Idle)
    /\ UNCHANGED <<now, controlVars, jobVars, decisionVars, callVars, kind, client, offer>>

-----------------------------------------------------------------------------
(* The queue they share *)

Scheduled == Worker \ Invocation

\* the schedule's workers, the operators, the owners and the clock
QueueStep ==
    \/ \E j \in Job \ Request : Enqueue(j) \/ Reconcile(j)
    \/ \E w \in Scheduled : \/ Progress(w) \/ Crash(w) \/ LoseAcknowledgement(w)
                            \/ LoseRequest(w) \/ Collide(w)
                            \/ \E j \in Job \ Request : Take(w, j)
    \/ \E j \in Job : ProviderEnds(j) \/ Withdraw(j) \/ RotatePins(j)
    \/ Switch
    \/ Tick

TabStep(r) ==
    \/ AskDraft(r) \/ CheckDraft(r) \/ ReleaseDraft(r)
    \/ AskNote(r) \/ CheckNote(r) \/ CloseNote(r)
    \/ AskChat(r) \/ CheckChat(r)
    \/ StopWaiting(r)

HandlerStep(i) ==
    \/ StartDraft(i) \/ RunDraft(i) \/ LookDraft(i)
    \/ StartNote(i) \/ RunNote(i) \/ LookNote(i)
    \/ StartChat(i) \/ RunChat(i) \/ LookChat(i)
    \/ Open(i) \/ Queue(i) \/ QueueConflict(i) \/ Process(i)
    \/ Die(i)

RequestNext ==
    \/ \E r \in Request : TabStep(r)
    \/ \E i \in Invocation : HandlerStep(i)
    \/ QueueStep /\ UNCHANGED requestVars

\* Time passes, the schedule keeps delivering the jobs that are its own, and a
\* delivery that has begun is carried on until it ends or crashes.  Nothing is
\* assumed of the requests.
ScheduleFairness ==
    /\ WF_allVars(Tick /\ UNCHANGED requestVars)
    /\ \A j \in Job \ Request :
          WF_allVars((\E w \in Scheduled : Take(w, j)) /\ UNCHANGED requestVars)
    /\ \A w \in Scheduled : WF_allVars(Progress(w) /\ UNCHANGED requestVars)

RequestSpec == RequestInit /\ [][RequestNext]_allVars /\ ScheduleFairness

-----------------------------------------------------------------------------
\* Every negotiation that was queued ends without an operator, although the slots
\* may be held for good by requests that nobody ends.
JobsEnd == \A j \in Job \ Request : phase[j] = "READY" ~> phase[j] \in Terminal

\* What a tab was told last is true of the job, whatever was lost on the way:
\* SAVED only of a result that was applied, CLOSED only when nothing was applied,
\* no call is out and the job is over, or was never queued.
OutcomesAreTrue ==
    \A r \in Request :
        /\ client[r] = "SAVED" => effect[r] = "APPLIED"
        /\ client[r] = "CLOSED" =>
              effect[r] = "NONE" /\ r \notin running /\ (Settled(r) \/ phase[r] = "ABSENT")

\* A request that was closed stays without a call and without a result, also when
\* its post arrives afterwards: the person who asks again pays once.
ClosedAttemptsStayClosed ==
    [][\A r \in Request : client[r] = "CLOSED" =>
          /\ client'[r] = "CLOSED"
          /\ dispatched'[r] = dispatched[r] /\ effect'[r] = effect[r]]_allVars
=============================================================================
