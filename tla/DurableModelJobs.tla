-------------------------- MODULE DurableModelJobs --------------------------
(***************************************************************************)
(* The durable queue of paid model calls: DurableModelJobs                 *)
(* (packages/adapters/src/durable-model-jobs.ts) over the transactional    *)
(* store of dynamo-model-jobs.ts, run by any number of scheduled workers   *)
(* that may crash, stall or lose the acknowledgement of a commit.          *)
(*                                                                         *)
(* Every commit replaces the job and the control record it read, and the   *)
(* control revision grows with each: a worker's snapshot is current        *)
(* (fresh) until somebody commits.  The pins a fenced commit carries are   *)
(* current (pinned) until one of the pinned records moves.  A lease token  *)
(* is named by the worker that drew it: it draws a new one only after it   *)
(* has forgotten the last.                                                 *)
(*                                                                         *)
(* Definitions marked "Faulty variant" are no part of Spec: each is what a *)
(* plausible mistake would make of the definition after it.                *)
(***************************************************************************)
EXTENDS Integers, FiniteSets

CONSTANTS
    Job,         \* job ids, one per reasoning job of a decision
    Worker,      \* invocations that may process jobs at the same time
    MaxActive,   \* control.active holds at most 64 jobs
    MaxSlots,    \* control.slots holds at most 2
    MaxRetries,  \* a job is put back at most twice
    MaxCommits,  \* a known response is committed in at most 3 attempts
    LeaseTime, Life, Backoff,  \* leaseMs, the 300 s of a reference, 500 ms
    MaxTime,     \* bound: the clock
    MaxFaults    \* bound: crashes, lost messages, switches, moved pins

ASSUME BoundAssumption ==
    /\ {MaxActive, MaxSlots, MaxRetries, MaxCommits, LeaseTime, Life, Backoff,
        MaxTime, MaxFaults} \subseteq Nat
    /\ LeaseTime > 0 /\ MaxCommits > 0 /\ MaxSlots > 0
ASSUME NamesAssumption ==
    /\ IsFiniteSet(Job) /\ IsFiniteSet(Worker)
    /\ "NONE" \notin Job \union Worker

VARIABLES
    now,         \* the clock
    enabled,     \* control.enabled
    active,      \* control.active
    slots,       \* control.slots: [job, token, until]
    phase,       \* job.phase, "ABSENT" before enqueue
    lease,       \* job.lease
    failures, availableAt, expiresAt, attempts, reason,
    authority,   \* the decision is still as the job's reference says
    effect,      \* what the job did to its decision
    worker,      \* the local variables of each invocation of process()
    dispatched,  \* calls the provider has received for the job
    running,     \* jobs whose call the provider may still be serving
    faults

controlVars == <<enabled, active, slots>>
jobVars     == <<phase, lease, failures, availableAt, expiresAt, attempts, reason>>
decisionVars == <<authority, effect>>
callVars    == <<dispatched, running>>
vars == <<now, controlVars, jobVars, decisionVars, callVars, worker, faults>>

Time == 0..MaxTime
Terminal == {"SUCCEEDED", "DEAD"}
\* "SETTLED" stands for every reason that leaves no call in doubt
Reason == {"NONE", "SETTLED", "PROVIDER_UNCONFIRMED"}
NoLease == [token |-> "NONE", until |-> 0]
\* RETRYABLE; UNCERTAIN when the call was sent and not answered; FINAL otherwise
Code == {"RETRYABLE", "FINAL", "UNCERTAIN"}
Plan == [phase : {"READY", "DEAD"}, reason : Reason, wake : Time, cancel : BOOLEAN]
NoPlan == [phase |-> "DEAD", reason |-> "SETTLED", wake |-> 0, cancel |-> FALSE]

\* where an invocation stands: about to commit, or between two commits
Committing == {"taking", "reserving", "rechecking", "completing", "closing"}
Label == Committing \union {"idle", "leased", "reserved", "checked", "calling",
                            "responded", "failing"}

\* process()'s locals: the job, whether its snapshot and its fence are still
\* current, the end of its lease, the failed commits of a known response, the
\* disposition it is about to write and the failure it is handling
Idle == [pc |-> "idle", job |-> "NONE", fresh |-> FALSE, pinned |-> FALSE, until |-> 0,
         tries |-> 0, plan |-> NoPlan, code |-> "FINAL"]

Earlier(s, t) == IF s < t THEN s ELSE t

Init ==
    /\ now = 0 /\ enabled = TRUE /\ active = {} /\ slots = {}
    /\ phase = [j \in Job |-> "ABSENT"]
    /\ lease = [j \in Job |-> NoLease]
    /\ failures = [j \in Job |-> 0]
    /\ availableAt = [j \in Job |-> 0]
    /\ expiresAt = [j \in Job |-> 0]
    /\ attempts = [j \in Job |-> 0]
    /\ reason = [j \in Job |-> "NONE"]
    /\ authority = [j \in Job |-> TRUE]
    /\ effect = [j \in Job |-> "NONE"]
    /\ worker = [w \in Worker |-> Idle]
    /\ dispatched = [j \in Job |-> 0]
    /\ running = {}
    /\ faults = 0

-----------------------------------------------------------------------------
(* The store *)

\* A transaction of job j commits: every snapshot is outdated, and when it also
\* wrote the decision no fence taken before holds any more.
Commit(w, next, j, moved) ==
    worker' = [v \in Worker |->
        LET held == IF v = w THEN next ELSE worker[v]
        IN  [held EXCEPT !.fresh = FALSE, !.pinned = @ /\ ~(moved /\ held.job = j)]]

\* the decision of job j moved by itself
Unpin(j) ==
    worker' = [v \in Worker |->
        [worker[v] EXCEPT !.pinned = @ /\ worker[v].job # j]]

\* current(prior, token): the worker still owns the lease and its slot
Current(w) ==
    LET j == worker[w].job
    IN  /\ lease[j].token = w /\ lease[j].until > now
        /\ enabled /\ expiresAt[j] > now
        /\ \E s \in slots : s.job = j /\ s.token = w /\ s.until > now

\* Faulty variant: the slot of a call in doubt is given back at once.
FinishFreeingSlot(j, ph, why) ==
    /\ phase' = [phase EXCEPT ![j] = ph]
    /\ reason' = [reason EXCEPT ![j] = why]
    /\ lease' = [lease EXCEPT ![j] = NoLease]
    /\ active' = IF why = "PROVIDER_UNCONFIRMED" THEN active ELSE active \ {j}
    /\ slots' = {s \in slots : s.job # j}

\* finish(): an unconfirmed call keeps its entry and its slot
Finish(j, ph, why) ==
    /\ phase' = [phase EXCEPT ![j] = ph]
    /\ reason' = [reason EXCEPT ![j] = why]
    /\ lease' = [lease EXCEPT ![j] = NoLease]
    /\ IF why = "PROVIDER_UNCONFIRMED" THEN UNCHANGED <<active, slots>>
       ELSE /\ active' = active \ {j}
            /\ slots' = {s \in slots : s.job # j}

\* the decision's reasoning job ends: by its result or by a cancellation
Affect(j, what) ==
    /\ effect' = [effect EXCEPT ![j] = what]
    /\ authority' = [authority EXCEPT ![j] = FALSE]

-----------------------------------------------------------------------------
(* enqueue *)

\* the job that save() writes where there was none, good until its reference ends
WriteJob(j, end) ==
    /\ active' = active \union {j}
    /\ phase' = [phase EXCEPT ![j] = "READY"]
    /\ availableAt' = [availableAt EXCEPT ![j] = now]
    /\ expiresAt' = [expiresAt EXCEPT ![j] = end]
    /\ UNCHANGED <<now, enabled, slots, lease, failures, attempts, reason, decisionVars, callVars>>

\* what enqueue has checked when it saves: the queue is on and has room, and the
\* decision still gives the authority the reference names
MayEnqueue(j) ==
    phase[j] = "ABSENT" /\ enabled /\ authority[j] /\ Cardinality(active) < MaxActive

Enqueue(j) ==
    /\ MayEnqueue(j)
    /\ now + Life <= MaxTime
    /\ WriteJob(j, now + Life)
    /\ worker' = [v \in Worker |-> [worker[v] EXCEPT !.fresh = FALSE]]
    /\ UNCHANGED faults

-----------------------------------------------------------------------------
(* process: one delivery, from the first read to the last commit *)

Set(w, next) == worker' = [worker EXCEPT ![w] = next]
\* what was read is not used any more: the next step reads again
At(w, label) == [worker[w] EXCEPT !.pc = label, !.fresh = FALSE, !.pinned = FALSE]
Failed(w, why) == [Idle EXCEPT !.pc = "failing", !.job = worker[w].job, !.code = why]
Closing(j, plan) == [Idle EXCEPT !.pc = "closing", !.job = j, !.fresh = TRUE,
                                 !.pinned = plan.cancel, !.plan = plan]

\* the ways to end job j as DEAD: cancelling the decision's reasoning with it if
\* the reload that needs succeeds; an unconfirmed call is never cancelled
Endings(j, why) ==
    {p \in [phase : {"DEAD"}, reason : {why}, wake : {0}, cancel : BOOLEAN] :
        p.cancel => why # "PROVIDER_UNCONFIRMED" /\ authority[j]}

\* Another slot has room: an expired slot of another job is not free, it may
\* hold a call in doubt.
SlotAvailable(j) == Cardinality({s \in slots : s.until > now \/ s.job # j}) < MaxSlots

\* Faulty variant: a job whose worker disappeared during the call is leased
\* again, as one that was only leased.
TakeAgain(w, j) ==
    /\ worker[w].pc = "idle"
    /\ j \in active /\ phase[j] \in {"READY", "LEASED", "CALLING"}
    /\ lease[j] # NoLease => lease[j].until <= now
    /\ \/ /\ expiresAt[j] <= now \/ ~enabled
          /\ \E plan \in Endings(j, "SETTLED") : Set(w, Closing(j, plan))
       \/ /\ expiresAt[j] > now /\ enabled
          /\ availableAt[j] <= now /\ SlotAvailable(j)
          /\ Set(w, [Idle EXCEPT !.pc = "taking", !.job = j, !.fresh = TRUE,
                                 !.until = Earlier(now + LeaseTime, expiresAt[j])])
    /\ UNCHANGED <<now, controlVars, jobVars, decisionVars, callVars, faults>>

\* Faulty variant: an expired job is skipped like one that is not due yet.
TakeUnexpired(w, j) ==
    /\ worker[w].pc = "idle"
    /\ j \in active /\ phase[j] \in {"READY", "LEASED", "CALLING"}
    /\ lease[j] # NoLease => lease[j].until <= now
    /\ \/ /\ phase[j] = "CALLING" \/ ~enabled
          /\ \E plan \in Endings(j, IF phase[j] = "CALLING"
                                    THEN "PROVIDER_UNCONFIRMED" ELSE "SETTLED") :
                Set(w, Closing(j, plan))
       \/ /\ phase[j] # "CALLING" /\ expiresAt[j] > now /\ enabled
          /\ availableAt[j] <= now /\ SlotAvailable(j)
          /\ Set(w, [Idle EXCEPT !.pc = "taking", !.job = j, !.fresh = TRUE,
                                 !.until = Earlier(now + LeaseTime, expiresAt[j])])
    /\ UNCHANGED <<now, controlVars, jobVars, decisionVars, callVars, faults>>

\* The first read: close a job that cannot run, or lease one that can.  A
\* delivery of any other job is skipped.
Take(w, j) ==
    /\ worker[w].pc = "idle"
    /\ j \in active /\ phase[j] \in {"READY", "LEASED", "CALLING"}
    /\ lease[j] # NoLease => lease[j].until <= now
    /\ \/ /\ phase[j] = "CALLING" \/ expiresAt[j] <= now \/ ~enabled
          /\ \E plan \in Endings(j, IF phase[j] = "CALLING"
                                    THEN "PROVIDER_UNCONFIRMED" ELSE "SETTLED") :
                Set(w, Closing(j, plan))
       \/ /\ phase[j] # "CALLING" /\ expiresAt[j] > now /\ enabled
          /\ availableAt[j] <= now /\ SlotAvailable(j)
          /\ Set(w, [Idle EXCEPT !.pc = "taking", !.job = j, !.fresh = TRUE,
                                 !.until = Earlier(now + LeaseTime, expiresAt[j])])
    /\ UNCHANGED <<now, controlVars, jobVars, decisionVars, callVars, faults>>

\* The commit of the lease, with the state the worker read.  A slot the job
\* still had has expired with the lease that came with it.
WriteLease(w, next) ==
    LET j == worker[w].job
        end == worker[w].until
    IN  /\ worker[w].pc = "taking" /\ worker[w].fresh
        /\ phase' = [phase EXCEPT ![j] = "LEASED"]
        /\ lease' = [lease EXCEPT ![j] = [token |-> w, until |-> end]]
        /\ slots' = {s \in slots : s.job # j}
                      \union {[job |-> j, token |-> w, until |-> end]}
        /\ Commit(w, next, j, FALSE)
        /\ UNCHANGED <<now, enabled, active, failures, availableAt, expiresAt, attempts, reason,
                       decisionVars, callVars>>

\* reload, then read the job again: the last look before a fenced commit
Reload(w, from, to) ==
    /\ worker[w].pc = from
    /\ authority[worker[w].job] /\ now < worker[w].until
    /\ Current(w)
    /\ Set(w, [worker[w] EXCEPT !.pc = to, !.fresh = TRUE, !.pinned = TRUE])
    /\ UNCHANGED <<now, controlVars, jobVars, decisionVars, callVars, faults>>

ReloadInput(w) == Reload(w, "leased", "reserving")

\* the budget is charged, under the fence, before anything is sent
WriteReservation(w, next) ==
    LET j == worker[w].job
    IN  /\ worker[w].pc = "reserving" /\ worker[w].fresh /\ worker[w].pinned
        /\ phase' = [phase EXCEPT ![j] = "CALLING"]
        /\ attempts' = [attempts EXCEPT ![j] = @ + 1]
        /\ Commit(w, next, j, FALSE)
        /\ UNCHANGED <<now, controlVars, lease, failures, availableAt, expiresAt, reason,
                       decisionVars, callVars>>

ReloadBeforeDispatch(w) ==
    Reload(w, "reserved", "rechecking") /\ phase[worker[w].job] = "CALLING"

\* a commit that changes nothing but the revisions
WriteRecheck(w, next) ==
    /\ worker[w].pc = "rechecking" /\ worker[w].fresh /\ worker[w].pinned
    /\ Commit(w, next, worker[w].job, FALSE)
    /\ UNCHANGED <<now, controlVars, jobVars, decisionVars, callVars>>

\* the last read and the call, in one turn of the event loop
Dispatch(w) ==
    /\ worker[w].pc = "checked" /\ Current(w) /\ now < worker[w].until
    /\ dispatched' = [dispatched EXCEPT ![worker[w].job] = @ + 1]
    /\ running' = running \union {worker[w].job}
    /\ Set(w, At(w, "calling"))
    /\ UNCHANGED <<now, controlVars, jobVars, decisionVars, faults>>

\* the answer arrives before the deadline, which never exceeds the lease
Respond(w) ==
    /\ worker[w].pc = "calling" /\ worker[w].job \in running /\ now < worker[w].until
    /\ running' = running \ {worker[w].job}
    /\ Set(w, At(w, "responded"))
    /\ UNCHANGED <<now, controlVars, jobVars, decisionVars, dispatched, faults>>

\* a retried commit needs the fence of the first attempt, unchanged
ReloadResult(w) ==
    /\ worker[w].tries > 0 => worker[w].pinned
    /\ Reload(w, "responded", "completing")

\* Faulty variant: the result is committed without the fence of the decision.
WriteResultUnfenced(w, next) ==
    /\ worker[w].pc = "completing" /\ worker[w].fresh
    /\ Finish(worker[w].job, "SUCCEEDED", "NONE")
    /\ Affect(worker[w].job, "APPLIED")
    /\ Commit(w, next, worker[w].job, TRUE)
    /\ UNCHANGED <<now, enabled, failures, availableAt, expiresAt, attempts, callVars>>

\* the result reaches the decision in the transaction that ends the job
WriteResult(w, next) ==
    /\ worker[w].pc = "completing" /\ worker[w].fresh /\ worker[w].pinned
    /\ Finish(worker[w].job, "SUCCEEDED", "NONE")
    /\ Affect(worker[w].job, "APPLIED")
    /\ Commit(w, next, worker[w].job, TRUE)
    /\ UNCHANGED <<now, enabled, failures, availableAt, expiresAt, attempts, callVars>>

\* The failure is worth another delivery and the job may still have one.
Retryable(w) ==
    LET j == worker[w].job
    IN  /\ phase[j] = "LEASED" /\ worker[w].code = "RETRYABLE"
        /\ failures[j] < MaxRetries /\ enabled /\ expiresAt[j] > now

\* what the failure handler makes of the job it still holds
Disposition(w) ==
    LET j == worker[w].job
    IN  IF Retryable(w)
        THEN {[phase |-> "READY", reason |-> "NONE", cancel |-> FALSE, wake |-> t] :
                 t \in Time \intersect {Earlier(now + Backoff * 2 ^ failures[j], expiresAt[j])}}
        ELSE Endings(j, IF phase[j] = "CALLING" /\ worker[w].code = "UNCERTAIN"
                        THEN "PROVIDER_UNCONFIRMED" ELSE "SETTLED")

\* Faulty variant: a failure is disposed of without reading back whose job it is.
CatchBlindly(w) ==
    /\ worker[w].pc = "failing"
    /\ \E plan \in Disposition(w) : Set(w, Closing(worker[w].job, plan))
    /\ UNCHANGED <<now, controlVars, jobVars, decisionVars, callVars, faults>>

\* The failure handler: read the job again, give up a lease that was lost, keep
\* a result that was committed after all, otherwise choose the disposition.
Catch(w) ==
    /\ worker[w].pc = "failing"
    /\ IF lease[worker[w].job].token = w
       THEN \E plan \in Disposition(w) : Set(w, Closing(worker[w].job, plan))
       ELSE Set(w, Idle)
    /\ UNCHANGED <<now, controlVars, jobVars, decisionVars, callVars, faults>>

\* Faulty variant: a job that is put back keeps its slot.
WriteDispositionKeepingSlot(w, next) ==
    LET j == worker[w].job
        plan == worker[w].plan
    IN  /\ worker[w].pc = "closing" /\ worker[w].fresh
        /\ plan.cancel => worker[w].pinned
        /\ IF plan.phase = "READY"
           THEN /\ phase' = [phase EXCEPT ![j] = "READY"]
                /\ lease' = [lease EXCEPT ![j] = NoLease]
                /\ failures' = [failures EXCEPT ![j] = @ + 1]
                /\ availableAt' = [availableAt EXCEPT ![j] = plan.wake]
                /\ UNCHANGED <<active, slots, reason>>
           ELSE /\ Finish(j, "DEAD", plan.reason)
                /\ UNCHANGED <<failures, availableAt>>
        /\ IF plan.cancel THEN Affect(j, "CANCELLED") ELSE UNCHANGED decisionVars
        /\ Commit(w, next, j, plan.cancel)
        /\ UNCHANGED <<now, enabled, expiresAt, attempts, callVars>>

WriteDisposition(w, next) ==
    LET j == worker[w].job
        plan == worker[w].plan
    IN  /\ worker[w].pc = "closing" /\ worker[w].fresh
        /\ plan.cancel => worker[w].pinned
        /\ IF plan.phase = "READY"
           THEN /\ phase' = [phase EXCEPT ![j] = "READY"]
                /\ lease' = [lease EXCEPT ![j] = NoLease]
                /\ failures' = [failures EXCEPT ![j] = @ + 1]
                /\ availableAt' = [availableAt EXCEPT ![j] = plan.wake]
                /\ slots' = {s \in slots : s.job # j}
                /\ UNCHANGED <<active, reason>>
           ELSE /\ Finish(j, "DEAD", plan.reason)
                /\ UNCHANGED <<failures, availableAt>>
        /\ IF plan.cancel THEN Affect(j, "CANCELLED") ELSE UNCHANGED decisionVars
        /\ Commit(w, next, j, plan.cancel)
        /\ UNCHANGED <<now, enabled, expiresAt, attempts, callVars>>

-----------------------------------------------------------------------------
(* How a commit ends for the worker that sent it *)

Acknowledged(w) ==
    /\ \/ WriteLease(w, At(w, "leased"))
       \/ WriteReservation(w, At(w, "reserved"))
       \/ WriteRecheck(w, At(w, "checked"))
       \/ WriteResult(w, Idle)
       \/ WriteDisposition(w, Idle)
    /\ UNCHANGED faults

Fault == faults < MaxFaults /\ faults' = faults + 1

\* a failed commit rejects the delivery, or is handled by the rest of process()
Unguarded == {"taking", "closing"}
Guarded == {"reserving", "rechecking", "completing"}

\* the store has committed, the worker does not learn it
LoseAcknowledgement(w) ==
    /\ Fault
    /\ \/ WriteLease(w, Idle)
       \/ WriteDisposition(w, Idle)
       \/ WriteReservation(w, Failed(w, "RETRYABLE"))
       \/ WriteRecheck(w, Failed(w, "RETRYABLE"))
       \/ WriteResult(w, Failed(w, "RETRYABLE"))

\* the store never saw the commit, the worker does not learn it
LoseRequest(w) ==
    /\ Fault
    /\ \/ worker[w].pc \in Unguarded /\ Set(w, Idle)
       \/ worker[w].pc \in Guarded /\ Set(w, Failed(w, "RETRYABLE"))
    /\ UNCHANGED <<now, controlVars, jobVars, decisionVars, callVars>>

\* a rejected commit ends the delivery or fails it; only the commit of a known
\* response is tried again, and only while the lease is still the worker's
Rejected(w) ==
    /\ \/ worker[w].pc \in Unguarded /\ Set(w, Idle)
       \/ /\ worker[w].pc \in Guarded
          /\ IF /\ worker[w].pc = "completing"
                /\ worker[w].tries < MaxCommits - 1 /\ Current(w)
             THEN Set(w, [worker[w] EXCEPT !.pc = "responded", !.fresh = FALSE, !.tries = @ + 1])
             ELSE Set(w, Failed(w, "FINAL"))
    /\ UNCHANGED <<now, controlVars, jobVars, decisionVars, callVars>>

\* a condition of the transaction does not hold
Conflict(w) ==
    /\ \/ ~worker[w].fresh
       \/ worker[w].pc \in Guarded /\ ~worker[w].pinned
       \/ worker[w].pc = "closing" /\ worker[w].plan.cancel /\ ~worker[w].pinned
    /\ Rejected(w)
    /\ UNCHANGED faults

\* the transaction meets another one in flight on the same records
Collide(w) == Fault /\ Rejected(w)

\* a reload, a check or the kernel fails, the store is unavailable for a read,
\* or the provider does not answer in time or refuses the call
Abort(w) ==
    /\ \/ /\ worker[w].pc \in {"leased", "reserved", "checked", "responded"}
          /\ \E why \in {"RETRYABLE", "FINAL"} : Set(w, Failed(w, why))
          /\ UNCHANGED running
       \/ /\ worker[w].pc \in {"checked", "calling"}
          /\ Set(w, Failed(w, "UNCERTAIN"))
          /\ UNCHANGED running
       \/ /\ worker[w].pc = "calling" /\ worker[w].job \in running
          /\ running' = running \ {worker[w].job}
          /\ Set(w, Failed(w, "FINAL"))
    /\ UNCHANGED <<now, controlVars, jobVars, decisionVars, dispatched, faults>>

Crash(w) ==
    /\ Fault /\ worker[w].pc # "idle" /\ Set(w, Idle)
    /\ UNCHANGED <<now, controlVars, jobVars, decisionVars, callVars>>

-----------------------------------------------------------------------------
(* Operators, the clock and the rest of the system *)

\* reconcile: with proof that the provider has stopped, an unconfirmed call
\* gives its entry and slot back; its result is never applied
Reconcile(j) ==
    /\ phase[j] = "DEAD" /\ reason[j] = "PROVIDER_UNCONFIRMED"
    /\ j \notin running
    /\ Finish(j, "DEAD", "SETTLED")
    /\ \E plan \in Endings(j, "SETTLED") :
          /\ IF plan.cancel THEN Affect(j, "CANCELLED") ELSE UNCHANGED decisionVars
          /\ worker' = [v \in Worker |->
                [worker[v] EXCEPT !.fresh = FALSE, !.pinned = @ /\ ~(plan.cancel /\ worker[v].job = j)]]
    /\ UNCHANGED <<now, enabled, failures, availableAt, expiresAt, attempts, callVars, faults>>

\* an operator switches the queue on or off
Switch ==
    /\ Fault /\ enabled' = ~enabled
    /\ worker' = [v \in Worker |-> [worker[v] EXCEPT !.fresh = FALSE]]
    /\ UNCHANGED <<now, active, slots, jobVars, decisionVars, callVars>>

\* an answer is saved, consent withdrawn, the reasoning cancelled...
Withdraw(j) ==
    /\ authority[j]
    /\ authority' = [authority EXCEPT ![j] = FALSE]
    /\ Unpin(j)
    /\ UNCHANGED <<now, controlVars, jobVars, effect, callVars, faults>>

\* a pinned record moves without touching the job's authority
RotatePins(j) ==
    /\ Fault /\ Unpin(j)
    /\ UNCHANGED <<now, controlVars, jobVars, decisionVars, callVars>>

\* the provider finishes a call nobody waits for any more
ProviderEnds(j) ==
    /\ j \in running /\ running' = running \ {j}
    /\ UNCHANGED <<now, controlVars, jobVars, decisionVars, dispatched, worker, faults>>

Tick ==
    /\ now < MaxTime /\ now' = now + 1
    /\ UNCHANGED <<controlVars, jobVars, decisionVars, callVars, worker, faults>>

-----------------------------------------------------------------------------
Progress(w) ==
    \/ ReloadInput(w) \/ ReloadBeforeDispatch(w) \/ Dispatch(w) \/ Respond(w)
    \/ ReloadResult(w) \/ Catch(w) \/ Acknowledged(w) \/ Conflict(w) \/ Abort(w)

Disturb ==
    \/ \E w \in Worker : Crash(w) \/ LoseAcknowledgement(w) \/ LoseRequest(w) \/ Collide(w)
    \/ \E j \in Job : Withdraw(j) \/ RotatePins(j)
    \/ Switch

Next ==
    \/ \E j \in Job : Enqueue(j) \/ Reconcile(j) \/ ProviderEnds(j)
    \/ \E w \in Worker : Progress(w) \/ \E j \in Job : Take(w, j)
    \/ Disturb
    \/ Tick

Spec == Init /\ [][Next]_vars

-----------------------------------------------------------------------------
\* Type invariant: the store's records and the workers' variables.
TypeOK ==
    /\ now \in Time /\ enabled \in BOOLEAN /\ faults \in 0..MaxFaults
    /\ active \subseteq Job /\ running \subseteq Job
    /\ slots \subseteq [job : Job, token : Worker, until : Time]
    /\ phase \in [Job -> {"ABSENT", "READY", "LEASED", "CALLING"} \union Terminal]
    /\ lease \in [Job -> [token : Worker, until : Time] \union {NoLease}]
    /\ failures \in [Job -> 0..MaxRetries]
    /\ availableAt \in [Job -> Time] /\ expiresAt \in [Job -> Time]
    /\ attempts \in [Job -> Nat] /\ dispatched \in [Job -> Nat]
    /\ reason \in [Job -> Reason]
    /\ authority \in [Job -> BOOLEAN]
    /\ effect \in [Job -> {"NONE", "APPLIED", "CANCELLED"}]
    /\ worker \in [Worker -> [pc : Label, job : Job \union {"NONE"}, fresh : BOOLEAN,
                              pinned : BOOLEAN, until : Time, tries : 0..MaxCommits,
                              plan : Plan, code : Code]]

\* The records every worker checks before it believes them agree, whatever was
\* lost on the way: an unfinished or unconfirmed job is active and no other is,
\* a lease exists exactly while a worker may hold the job, and a job that holds
\* a lease holds exactly that lease's slot.  A call the provider may still be
\* serving holds its slot, so never more than MaxSlots run at once, whatever
\* crashed or expired meanwhile.
StoreIsConsistent ==
    /\ Cardinality(active) <= MaxActive /\ Cardinality(slots) <= MaxSlots
    /\ \A s \in slots : s.job \in active
    /\ \A j \in Job :
          /\ j \in active <=> \/ phase[j] \in {"READY", "LEASED", "CALLING"}
                              \/ reason[j] = "PROVIDER_UNCONFIRMED"
          /\ lease[j] # NoLease <=> phase[j] \in {"LEASED", "CALLING"}
          /\ lease[j] # NoLease =>
                {s \in slots : s.job = j} =
                    {[job |-> j, token |-> lease[j].token, until |-> lease[j].until]}
          /\ phase[j] \in {"READY", "SUCCEEDED"} => \A s \in slots : s.job # j
          /\ reason[j] # "NONE" <=> phase[j] = "DEAD"
          /\ j \in running => \E s \in slots : s.job = j

\* A job is paid for at most once, and charged before the call is sent.
AtMostOneCall == \A j \in Job : dispatched[j] <= attempts[j] /\ attempts[j] <= 1

\* The result reaches the decision exactly when the job succeeds; a decision
\* whose reasoning the job cancelled never sees a result.
ResultIsAppliedOnce ==
    \A j \in Job : /\ effect[j] = "APPLIED" <=> phase[j] = "SUCCEEDED"
                   /\ effect[j] = "CANCELLED" => phase[j] = "DEAD"

\* A job changes its decision only under the authority it was given: neither a
\* late result nor a late cancellation touches what an owner has changed since.
EffectNeedsAuthority ==
    [][\A j \in Job : effect'[j] # effect[j] => authority[j] /\ effect[j] = "NONE"]_vars
=============================================================================
