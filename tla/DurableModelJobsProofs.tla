----------------------- MODULE DurableModelJobsProofs -----------------------
(***************************************************************************)
(* The safety of the durable queue of paid model calls, for any numbers of *)
(* jobs, workers, slots, retries and faults; then, of the requests browser *)
(* tabs make of it (RequestJobs), at the end.                              *)
(*                                                                         *)
(* A worker acts on what it has read a while ago.  The inductive invariant *)
(* says what still holds of it: of the job it works for while the lease is *)
(* its own (JobIsMine), and of what it is about to commit while nobody has *)
(* committed since it read (ReadingHolds).                                 *)
(***************************************************************************)
EXTENDS RequestJobs, FiniteSetTheorems, TLAPS

\* the lease of the job w works for names w
Owns(w) == lease[worker[w].job].token = w

\* While the lease is its own, the job is where the worker left it: leased until
\* the call is charged, then being called, and only a sent call may be running.
JobIsMine(w) ==
    LET j == worker[w].job
        pc == worker[w].pc
    IN  /\ pc \in {"leased", "reserving"} => phase[j] = "LEASED"
        /\ pc \in {"reserved", "rechecking", "checked"} => phase[j] = "CALLING" /\ dispatched[j] = 0
        /\ pc \in {"calling", "responded", "completing"} => phase[j] = "CALLING"
        /\ pc \in {"responded", "completing"} => j \notin running
        /\ pc = "failing" /\ worker[w].code # "UNCERTAIN" => j \notin running

\* What a worker read is still so, as long as nobody has committed since.
ReadingHolds(w) ==
    LET j == worker[w].job
        pc == worker[w].pc
        plan == worker[w].plan
    IN  /\ pc = "taking" =>
              /\ j \in active /\ phase[j] \in {"READY", "LEASED"}
              /\ Cardinality({s \in slots : s.job # j}) < MaxSlots
        /\ pc \in {"reserving", "rechecking", "completing"} => Owns(w)
        /\ pc = "closing" =>
              /\ j \in active /\ phase[j] \in {"READY", "LEASED", "CALLING"}
              /\ plan.phase = "READY" =>
                    phase[j] = "LEASED" /\ failures[j] < MaxRetries /\ ~plan.cancel
              /\ plan.phase = "DEAD" =>
                    \/ plan.reason = "PROVIDER_UNCONFIRMED" /\ phase[j] = "CALLING"
                    \/ /\ plan.reason = "SETTLED" /\ j \notin running
                       /\ phase[j] # "CALLING" \/ Owns(w)

WorkerInv(w) ==
    /\ worker[w].pc # "idle" => worker[w].job \in Job
    /\ worker[w].pinned => worker[w].pc # "idle" /\ authority[worker[w].job]
    /\ worker[w].pc # "idle" /\ Owns(w) => JobIsMine(w)
    /\ worker[w].fresh => ReadingHolds(w)

\* The records of a job agree with each other.
RecordsAgree(j) ==
    /\ j \in active <=> \/ phase[j] \in {"READY", "LEASED", "CALLING"}
                        \/ reason[j] = "PROVIDER_UNCONFIRMED"
    /\ lease[j] # NoLease <=> phase[j] \in {"LEASED", "CALLING"}
    /\ lease[j] # NoLease =>
          {s \in slots : s.job = j} =
              {[job |-> j, token |-> lease[j].token, until |-> lease[j].until]}
    /\ phase[j] \in {"READY", "SUCCEEDED"} => \A s \in slots : s.job # j
    /\ reason[j] # "NONE" <=> phase[j] = "DEAD"
    /\ j \in running => \E s \in slots : s.job = j

\* What was charged, sent and applied, against where the job is.
CallsAgree(j) ==
    /\ phase[j] \in {"ABSENT", "READY", "LEASED"} => attempts[j] = 0
    /\ phase[j] = "CALLING" => attempts[j] = 1
    /\ dispatched[j] <= attempts[j] /\ attempts[j] <= 1
    /\ j \in running =>
          /\ dispatched[j] # 0
          /\ phase[j] = "CALLING" \/ reason[j] = "PROVIDER_UNCONFIRMED"
    /\ effect[j] = "APPLIED" <=> phase[j] = "SUCCEEDED"
    /\ effect[j] = "CANCELLED" => phase[j] = "DEAD"
    /\ authority[j] => effect[j] = "NONE"

\* Numbers of entries and slots, and no slot without an entry.
StoreFits ==
    /\ IsFiniteSet(slots)
    /\ Cardinality(active) <= MaxActive /\ Cardinality(slots) <= MaxSlots
    /\ \A s \in slots : s.job \in active

Inv ==
    /\ TypeOK
    /\ StoreFits
    /\ \A j \in Job : RecordsAgree(j) /\ CallsAgree(j)
    /\ \A w \in Worker : WorkerInv(w)

WorkerState == [pc : Label, job : Job \union {"NONE"}, fresh : BOOLEAN, pinned : BOOLEAN,
                until : Time, tries : 0..MaxCommits, plan : Plan, code : Code]

-----------------------------------------------------------------------------
(* What a step does to the variables of the workers *)

\* v is where it was, with the same job, failure and plan
StaysPut(v) ==
    /\ worker'[v].pc = worker[v].pc /\ worker'[v].job = worker[v].job
    /\ worker'[v].code = worker[v].code /\ worker'[v].plan = worker[v].plan

\* v has read before somebody else's commit
Overtaken(v) ==
    /\ StaysPut(v) /\ ~worker'[v].fresh
    /\ worker'[v].pinned => worker[v].pinned

\* what JobIsMine says of v's job has not changed, or the job is not v's
JobIsUndisturbed(v) ==
    LET j == worker[v].job
    IN  worker[v].pc # "idle" /\ lease'[j].token = v =>
            /\ lease[j].token = v /\ phase'[j] = phase[j] /\ dispatched'[j] = dispatched[j]
            /\ j \in running' => j \in running

LEMMA SetShape ==
    ASSUME TypeOK, NEW w \in Worker, NEW next \in WorkerState, Set(w, next)
    PROVE  /\ worker' \in [Worker -> WorkerState]
           /\ worker'[w] = next
           /\ \A v \in Worker \ {w} : worker'[v] = worker[v]
BY DEF TypeOK, WorkerState, Set

LEMMA CommitShape ==
    ASSUME TypeOK, NEW w \in Worker, NEW next \in WorkerState, NEW j \in Job,
           NEW moved \in BOOLEAN, Commit(w, next, j, moved)
    PROVE  /\ worker' \in [Worker -> WorkerState]
           /\ worker'[w].pc = next.pc /\ worker'[w].job = next.job
           /\ worker'[w].code = next.code /\ worker'[w].plan = next.plan
           /\ ~worker'[w].fresh
           /\ worker'[w].pinned => next.pinned
           /\ \A v \in Worker \ {w} : Overtaken(v)
           /\ \A v \in Worker : moved /\ worker'[v].job = j => ~worker'[v].pinned
<1> DEFINE held(v) == IF v = w THEN next ELSE worker[v]
           after(v) == [held(v) EXCEPT !.fresh = FALSE, !.pinned = @ /\ ~(moved /\ held(v).job = j)]
<1>1. \A v \in Worker : held(v) \in WorkerState
  BY DEF TypeOK, WorkerState
<1>2. worker' = [v \in Worker |-> after(v)]
  BY DEF Commit
<1>3. \A v \in Worker :
        /\ after(v) \in WorkerState
        /\ after(v).pc = held(v).pc /\ after(v).job = held(v).job
        /\ after(v).code = held(v).code /\ after(v).plan = held(v).plan
        /\ ~after(v).fresh
        /\ after(v).pinned => held(v).pinned /\ ~(moved /\ held(v).job = j)
  BY <1>1 DEF WorkerState
<1> HIDE DEF after
<1>4. \A v \in Worker : worker'[v] = after(v)
  BY <1>2
<1>5. worker' \in [Worker -> WorkerState]
  BY <1>2, <1>3
<1> QED
  BY <1>3, <1>4, <1>5 DEF Overtaken, StaysPut

-----------------------------------------------------------------------------
(* Workers that a step is not about *)

LEMMA JobIsMineKept ==
    ASSUME Inv, NEW v \in Worker, StaysPut(v), JobIsUndisturbed(v),
           worker'[v].pc # "idle", Owns(v)'
    PROVE  JobIsMine(v)'
<1>1. worker[v].pc # "idle" /\ lease'[worker[v].job].token = v
  BY DEF StaysPut, Owns
<1>2. JobIsMine(v)
  BY <1>1 DEF Inv, WorkerInv, JobIsUndisturbed, Owns
<1> QED
  BY <1>1, <1>2 DEF StaysPut, JobIsUndisturbed, JobIsMine

\* A worker that is overtaken by a commit which leaves its job alone, or takes it
\* away, knows nothing wrong.
LEMMA OvertakenKept ==
    ASSUME Inv, NEW v \in Worker, Overtaken(v), JobIsUndisturbed(v),
           worker'[v].pinned /\ worker[v].pc # "idle" /\ authority[worker[v].job]
               => authority'[worker[v].job]
    PROVE  WorkerInv(v)'
<1>1. WorkerInv(v)
  BY DEF Inv
<1>2. StaysPut(v) /\ ~worker'[v].fresh
  BY DEF Overtaken
<1>3. worker'[v].pc # "idle" => worker'[v].job \in Job
  BY <1>1, <1>2 DEF StaysPut, WorkerInv
<1>4. worker'[v].pinned => worker'[v].pc # "idle" /\ authority'[worker'[v].job]
  BY <1>1, <1>2 DEF StaysPut, WorkerInv, Overtaken
<1>5. worker'[v].pc # "idle" /\ Owns(v)' => JobIsMine(v)'
  BY <1>2, JobIsMineKept
<1> QED
  BY <1>2, <1>3, <1>4, <1>5 DEF WorkerInv

\* A step that commits nothing and at most ends calls keeps the store's records
\* and what the workers it is not about know.
QuietStore ==
    /\ running' \subseteq running
    /\ UNCHANGED <<controlVars, jobVars, decisionVars, dispatched>>

LEMMA QuietStoreKept ==
    ASSUME Inv, QuietStore
    PROVE  /\ StoreFits'
           /\ \A j \in Job : RecordsAgree(j)' /\ CallsAgree(j)'
           /\ \A v \in Worker : worker'[v] = worker[v] => WorkerInv(v)'
<1> USE DEF QuietStore, controlVars, jobVars, decisionVars
<1>1. StoreFits'
  BY DEF Inv, StoreFits
<1>2. ASSUME NEW j \in Job PROVE RecordsAgree(j)' /\ CallsAgree(j)'
  BY DEF Inv, RecordsAgree, CallsAgree
<1>3. ASSUME NEW v \in Worker, worker'[v] = worker[v] PROVE WorkerInv(v)'
  <2>1. WorkerInv(v)
    BY DEF Inv
  <2>2. JobIsMine(v) => JobIsMine(v)'
    BY <1>3 DEF JobIsMine
  <2>3. ReadingHolds(v) => ReadingHolds(v)'
    BY <1>3 DEF ReadingHolds, Owns
  <2> QED
    BY <1>3, <2>1, <2>2, <2>3 DEF WorkerInv, Owns
<1> QED
  BY <1>1, <1>2, <1>3

LEMMA SetKeeps ==
    ASSUME Inv, NEW w \in Worker, NEW next \in WorkerState, Set(w, next), QuietStore,
           now' = now, faults' \in 0..MaxFaults, WorkerInv(w)'
    PROVE  Inv'
<1>1. /\ worker' \in [Worker -> WorkerState]
      /\ \A v \in Worker \ {w} : worker'[v] = worker[v]
  BY SetShape DEF Inv
<1>2. TypeOK'
  BY <1>1 DEF Inv, TypeOK, QuietStore, controlVars, jobVars, decisionVars, WorkerState
<1> QED
  BY <1>1, <1>2, QuietStoreKept DEF Inv

-----------------------------------------------------------------------------
(* Steps that commit nothing *)

LEMMA IdleKept ==
    ASSUME NEW w \in Worker, worker'[w] = Idle
    PROVE  WorkerInv(w)'
BY DEF WorkerInv, Idle

LEMMA IdleTyped == Idle \in WorkerState
BY BoundAssumption DEF Idle, WorkerState, Label, NoPlan, Plan, Reason, Time, Code

LEMMA EndingsTyped ==
    ASSUME NEW j, NEW why \in Reason, NEW plan \in Endings(j, why)
    PROVE  /\ plan \in Plan /\ plan.phase = "DEAD" /\ plan.reason = why
           /\ plan.cancel => why # "PROVIDER_UNCONFIRMED" /\ authority[j]
BY BoundAssumption DEF Endings, Plan, Time

LEMMA ClosingTyped ==
    ASSUME NEW j \in Job, NEW plan \in Plan
    PROVE  Closing(j, plan) \in WorkerState
BY IdleTyped DEF Closing, Idle, WorkerState, Label, Committing, Plan

LEMMA FailedTyped ==
    ASSUME NEW w \in Worker, worker[w].job \in Job, NEW why \in Code
    PROVE  Failed(w, why) \in WorkerState
BY IdleTyped DEF Failed, Idle, WorkerState, Label

LEMMA AtTyped ==
    ASSUME TypeOK, NEW w \in Worker, NEW label \in Label
    PROVE  At(w, label) \in WorkerState
BY DEF At, TypeOK, WorkerState

\* what process() reads when it fails: nobody else's call, no running one unless
\* it is in doubt
LEMMA FailedKept ==
    ASSUME Inv, NEW w \in Worker, NEW why \in Code, Set(w, Failed(w, why)),
           worker[w].job \in Job, UNCHANGED lease,
           why # "UNCERTAIN" /\ Owns(w) => worker[w].job \notin running'
    PROVE  WorkerInv(w)'
<1>1. worker'[w] = Failed(w, why)
  BY FailedTyped, SetShape DEF Inv
<1> QED
  BY <1>1 DEF WorkerInv, Failed, Idle, JobIsMine, Owns

LEMMA OtherSlotsFit ==
    ASSUME StoreFits, NEW j, SlotAvailable(j)
    PROVE  Cardinality({s \in slots : s.job # j}) < MaxSlots
<1> DEFINE others == {s \in slots : s.job # j}
           taken == {s \in slots : s.until > now \/ s.job # j}
<1>1. IsFiniteSet(taken) /\ others \subseteq taken
  BY FS_Subset DEF StoreFits
<1>2. Cardinality(others) <= Cardinality(taken) /\ Cardinality(others) \in Nat /\ Cardinality(taken) \in Nat
  BY <1>1, FS_Subset, FS_CardinalityType
<1> QED
  BY <1>2, BoundAssumption DEF SlotAvailable

LEMMA TakeKeeps ==
    ASSUME Inv, NEW w \in Worker, NEW j \in Job, Take(w, j)
    PROVE  Inv'
<1>0. QuietStore /\ now' = now /\ faults' \in 0..MaxFaults
  BY DEF Take, QuietStore, callVars, Inv, TypeOK
<1>1. j \in active /\ phase[j] \in {"READY", "LEASED", "CALLING"} /\ RecordsAgree(j) /\ CallsAgree(j)
  BY DEF Take, Inv
<1>2. ASSUME NEW why \in Reason, NEW plan \in Endings(j, why), Set(w, Closing(j, plan)),
             IF phase[j] = "CALLING" THEN why = "PROVIDER_UNCONFIRMED" ELSE why = "SETTLED"
      PROVE  Inv'
  <2>1. plan \in Plan /\ plan.phase = "DEAD" /\ plan.reason = why
        /\ (plan.cancel => authority[j])
    BY EndingsTyped
  <2>2. worker'[w] = Closing(j, plan)
    BY <1>2, <2>1, ClosingTyped, SetShape DEF Inv
  <2>3. j \in running => phase[j] = "CALLING"
    BY <1>1 DEF CallsAgree, RecordsAgree
  <2>4. WorkerInv(w)'
    <3>1. /\ worker'[w].pc = "closing" /\ worker'[w].job = j /\ worker'[w].plan = plan
          /\ worker'[w].pinned = plan.cancel
      BY <2>2 DEF Closing, Idle
    <3>2. JobIsMine(w)'
      BY <3>1 DEF JobIsMine
    <3>3. ReadingHolds(w)'
      BY <1>0, <1>1, <1>2, <2>1, <2>3, <3>1
      DEF ReadingHolds, QuietStore, controlVars, jobVars
    <3> QED
      BY <1>0, <2>1, <3>1, <3>2, <3>3 DEF WorkerInv, QuietStore, decisionVars
  <2> QED
    BY <1>0, <1>2, <2>1, <2>4, ClosingTyped, SetKeeps
<1>3. ASSUME NEW plan \in Endings(j, IF phase[j] = "CALLING"
                                      THEN "PROVIDER_UNCONFIRMED" ELSE "SETTLED"),
             Set(w, Closing(j, plan))
      PROVE  Inv'
  BY <1>2, <1>3 DEF Reason
<1>4. ASSUME NEW until, until = Earlier(now + LeaseTime, expiresAt[j]),
             phase[j] # "CALLING", SlotAvailable(j),
             Set(w, [Idle EXCEPT !.pc = "taking", !.job = j, !.fresh = TRUE, !.until = until])
      PROVE  Inv'
  <2> DEFINE next == [Idle EXCEPT !.pc = "taking", !.job = j, !.fresh = TRUE, !.until = until]
  <2>1. until \in Time
    BY <1>4, BoundAssumption DEF Inv, TypeOK, Earlier, Time
  <2>2. next \in WorkerState
    BY <2>1, IdleTyped DEF WorkerState, Idle, Label, Committing
  <2>3. worker'[w] = next
    BY <1>4, <2>2, SetShape DEF Inv
  <2>4. Cardinality({s \in slots : s.job # j}) < MaxSlots
    BY <1>4, OtherSlotsFit DEF Inv
  <2>5. WorkerInv(w)'
    BY <1>0, <1>1, <1>4, <2>3, <2>4
    DEF WorkerInv, JobIsMine, ReadingHolds, Idle, QuietStore, controlVars, jobVars
  <2> HIDE DEF next
  <2> QED
    BY <1>0, <1>4, <2>2, <2>5, SetKeeps DEF next
<1> QED
  BY <1>3, <1>4 DEF Take

\* the local variables of a worker that is under way
LEMMA UnderWay ==
    ASSUME Inv, NEW w \in Worker, worker[w].pc # "idle"
    PROVE  /\ worker[w] \in WorkerState /\ worker[w].job \in Job
           /\ RecordsAgree(worker[w].job) /\ CallsAgree(worker[w].job)
           /\ Owns(w) => JobIsMine(w)
           /\ worker[w].fresh => ReadingHolds(w)
           /\ worker[w].pinned => authority[worker[w].job]
BY DEF Inv, WorkerInv, TypeOK, WorkerState

LEMMA OwnerHolds ==
    ASSUME Inv, NEW w \in Worker, worker[w].pc # "idle", Owns(w)
    PROVE  LET j == worker[w].job
           IN  /\ lease[j] # NoLease /\ phase[j] \in {"LEASED", "CALLING"} /\ j \in active
               /\ reason[j] = "NONE"
BY UnderWay, NamesAssumption DEF Owns, NoLease, RecordsAgree

LEMMA ReloadKeeps ==
    ASSUME Inv, NEW w \in Worker, NEW from, NEW to, Reload(w, from, to),
           \/ from = "leased" /\ to = "reserving"
           \/ from = "reserved" /\ to = "rechecking"
           \/ from = "responded" /\ to = "completing"
    PROVE  Inv'
<1> DEFINE next == [worker[w] EXCEPT !.pc = to, !.fresh = TRUE, !.pinned = TRUE]
<1>0. /\ QuietStore /\ now' = now /\ faults' \in 0..MaxFaults
      /\ worker[w].pc = from /\ authority[worker[w].job] /\ Owns(w) /\ Set(w, next)
  BY DEF Reload, Current, QuietStore, callVars, Inv, TypeOK, Owns
<1>1. worker[w] \in WorkerState /\ worker[w].job \in Job /\ JobIsMine(w)
  BY <1>0, UnderWay
<1>2. next \in WorkerState
  BY <1>1 DEF WorkerState, Label, Committing
<1>3. worker'[w] = next
  BY <1>0, <1>2, SetShape DEF Inv
<1>4. /\ worker'[w].pc = to /\ worker'[w].job = worker[w].job
  BY <1>1, <1>3 DEF WorkerState
<1>5. JobIsMine(w)'
  BY <1>0, <1>1, <1>4 DEF JobIsMine, QuietStore, jobVars
<1>6. ReadingHolds(w)'
  BY <1>0, <1>4 DEF ReadingHolds, Owns, QuietStore, jobVars
<1>7. WorkerInv(w)'
  BY <1>0, <1>1, <1>4, <1>5, <1>6 DEF WorkerInv, QuietStore, decisionVars
<1> HIDE DEF next
<1> QED
  BY <1>0, <1>2, <1>7, SetKeeps

\* The one step that sends a call: it is charged, not sent yet, and holds a slot.
LEMMA DispatchKeeps ==
    ASSUME Inv, NEW w \in Worker, Dispatch(w)
    PROVE  Inv'
<1> DEFINE j == worker[w].job
           next == At(w, "calling")
<1>0. /\ worker[w].pc = "checked" /\ Owns(w) /\ Set(w, next)
      /\ \E s \in slots : s.job = j
      /\ dispatched' = [dispatched EXCEPT ![j] = @ + 1] /\ running' = running \union {j}
      /\ UNCHANGED <<now, controlVars, jobVars, decisionVars, faults>>
  BY DEF Dispatch, Current, Owns
<1>1. j \in Job /\ phase[j] = "CALLING" /\ dispatched[j] = 0 /\ CallsAgree(j)
  BY <1>0, UnderWay DEF JobIsMine
<1>2. next \in WorkerState
  BY AtTyped DEF Label, Inv
<1>3. /\ worker' \in [Worker -> WorkerState] /\ worker'[w] = next
      /\ \A v \in Worker \ {w} : worker'[v] = worker[v]
  BY <1>0, <1>2, SetShape DEF Inv
<1>4. worker'[w].pc = "calling" /\ worker'[w].job = j /\ ~worker'[w].fresh /\ ~worker'[w].pinned
  BY <1>0, <1>3, UnderWay DEF At, WorkerState
<1> HIDE DEF next
<1>5. dispatched' \in [Job -> Nat] /\ running' \subseteq Job
  BY <1>0, <1>1 DEF Inv, TypeOK
<1>6. TypeOK'
  BY <1>0, <1>3, <1>5 DEF Inv, TypeOK, controlVars, jobVars, decisionVars, WorkerState
<1>7. StoreFits'
  BY <1>0 DEF Inv, StoreFits, controlVars
<1>8. ASSUME NEW i \in Job PROVE RecordsAgree(i)' /\ CallsAgree(i)'
  <2>1. RecordsAgree(i) /\ CallsAgree(i)
    BY DEF Inv
  <2>2. CASE i = j
    <3>1. dispatched'[j] = 1
      BY <1>0, <1>1 DEF Inv, TypeOK
    <3> QED
      BY <1>0, <1>1, <2>1, <2>2, <3>1 DEF RecordsAgree, CallsAgree, controlVars, jobVars, decisionVars
  <2>3. CASE i # j
    <3>1. dispatched'[i] = dispatched[i] /\ (i \in running' => i \in running)
      BY <1>0, <1>1, <2>3 DEF Inv, TypeOK
    <3> QED
      BY <1>0, <2>1, <3>1 DEF RecordsAgree, CallsAgree, controlVars, jobVars, decisionVars
  <2> QED BY <2>2, <2>3
<1>9. ASSUME NEW v \in Worker PROVE WorkerInv(v)'
  <2>1. CASE v = w
    <3>1. JobIsMine(w)'
      BY <1>0, <1>1, <1>4 DEF JobIsMine, jobVars
    <3> QED
      BY <1>1, <1>4, <2>1, <3>1 DEF WorkerInv
  <2>2. CASE v # w
    <3>1. worker'[v] = worker[v] /\ WorkerInv(v)
      BY <1>3, <2>2 DEF Inv
    <3>2. JobIsUndisturbed(v)
      <4> SUFFICES ASSUME worker[v].pc # "idle", lease'[worker[v].job].token = v
                   PROVE  worker[v].job # j /\ worker[v].job \in Job
        BY <1>0, <1>1 DEF JobIsUndisturbed, jobVars, Inv, TypeOK
      <4> QED
        BY <1>0, <2>2, UnderWay DEF Owns, jobVars
    <3>3. worker'[v].pc # "idle" /\ Owns(v)' => JobIsMine(v)'
      BY <3>1, <3>2, JobIsMineKept DEF StaysPut
    <3>4. worker[v].fresh => ReadingHolds(v)'
      <4> SUFFICES ASSUME worker[v].fresh, ReadingHolds(v) PROVE ReadingHolds(v)'
        BY <3>1 DEF WorkerInv
      <4>1. worker[v].pc = "closing" /\ worker[v].job = j => Owns(v) \/ worker[v].plan.phase = "READY"
               \/ worker[v].plan.reason = "PROVIDER_UNCONFIRMED"
        BY <1>1, UnderWay DEF ReadingHolds, WorkerState, Plan
      <4>2. worker[v].pc # "idle" /\ worker[v].job = j => ~Owns(v)
        BY <1>0, <2>2 DEF Owns
      <4> QED
        BY <1>0, <1>1, <3>1, <4>1, <4>2 DEF ReadingHolds, Owns, controlVars, jobVars
    <3> QED
      BY <1>0, <3>1, <3>3, <3>4 DEF WorkerInv, decisionVars
  <2> QED BY <2>1, <2>2
<1> QED
  BY <1>6, <1>7, <1>8, <1>9 DEF Inv

LEMMA RespondKeeps ==
    ASSUME Inv, NEW w \in Worker, Respond(w)
    PROVE  Inv'
<1> DEFINE next == At(w, "responded")
<1>0. /\ worker[w].pc = "calling" /\ Set(w, next) /\ running' = running \ {worker[w].job}
      /\ QuietStore /\ now' = now /\ faults' \in 0..MaxFaults
  BY DEF Respond, QuietStore, Inv, TypeOK
<1>1. next \in WorkerState
  BY AtTyped DEF Label, Inv
<1>2. worker'[w] = next
  BY <1>0, <1>1, SetShape DEF Inv
<1>3. /\ worker'[w].pc = "responded" /\ worker'[w].job = worker[w].job
      /\ ~worker'[w].fresh /\ ~worker'[w].pinned /\ worker[w].job \in Job
  BY <1>0, <1>2, UnderWay DEF At, WorkerState
<1>4. Owns(w)' => JobIsMine(w)'
  BY <1>0, <1>3, UnderWay DEF JobIsMine, Owns, QuietStore, jobVars
<1>5. WorkerInv(w)'
  BY <1>3, <1>4 DEF WorkerInv
<1> HIDE DEF next
<1> QED
  BY <1>0, <1>1, <1>5, SetKeeps

\* Giving up the work, whatever was under way, changes nothing in the store.
LEMMA GiveUpKeeps ==
    ASSUME Inv, NEW w \in Worker, Set(w, Idle), QuietStore, now' = now, faults' \in 0..MaxFaults
    PROVE  Inv'
BY IdleTyped, IdleKept, SetShape, SetKeeps DEF Inv

\* Failing without a call in doubt: not before the call was sent, nor after it
\* was answered.
LEMMA FailKeeps ==
    ASSUME Inv, NEW w \in Worker, NEW why \in Code, Set(w, Failed(w, why)),
           QuietStore, now' = now, faults' \in 0..MaxFaults, worker[w].pc # "idle",
           \/ why = "UNCERTAIN"
           \/ worker[w].pc \in {"leased", "reserving", "reserved", "rechecking", "checked",
                                "responded", "completing"}
           \/ worker[w].job \notin running'
    PROVE  Inv'
<1>1. worker[w].job \in Job /\ CallsAgree(worker[w].job) /\ RecordsAgree(worker[w].job)
  BY UnderWay
<1>2. Owns(w) /\ why # "UNCERTAIN" => worker[w].job \notin running'
  <2>1. Owns(w) => JobIsMine(w) /\ reason[worker[w].job] = "NONE"
    BY UnderWay, OwnerHolds
  <2> QED
    BY <1>1, <2>1 DEF JobIsMine, CallsAgree, QuietStore
<1>3. WorkerInv(w)'
  BY <1>1, <1>2, FailedKept DEF QuietStore, jobVars
<1> QED
  BY <1>1, <1>3, FailedTyped, SetKeeps

LEMMA CatchKeeps ==
    ASSUME Inv, NEW w \in Worker, Catch(w)
    PROVE  Inv'
<1> DEFINE j == worker[w].job
<1>0. /\ worker[w].pc = "failing" /\ QuietStore /\ now' = now /\ faults' \in 0..MaxFaults
  BY DEF Catch, QuietStore, callVars, Inv, TypeOK
<1>1. /\ worker[w] \in WorkerState /\ j \in Job /\ CallsAgree(j) /\ RecordsAgree(j)
  BY <1>0, UnderWay
<1>2. CASE ~Owns(w)
  BY <1>0, <1>2, GiveUpKeeps DEF Catch, Owns
<1>3. ASSUME Owns(w), NEW plan \in Disposition(w), Set(w, Closing(j, plan))
      PROVE  Inv'
  <2>1. /\ phase[j] \in {"LEASED", "CALLING"} /\ j \in active /\ reason[j] = "NONE"
        /\ worker[w].code # "UNCERTAIN" => j \notin running
    BY <1>0, <1>3, OwnerHolds, UnderWay DEF JobIsMine
  <2>2. /\ plan \in Plan
        /\ plan.cancel => authority[j]
        /\ plan.phase = "READY" => phase[j] = "LEASED" /\ failures[j] < MaxRetries /\ ~plan.cancel
        /\ plan.phase = "DEAD" => \/ plan.reason = "PROVIDER_UNCONFIRMED" /\ phase[j] = "CALLING"
                                  \/ plan.reason = "SETTLED" /\ j \notin running
    <3>1. CASE Retryable(w)
      <4>1. PICK t \in Time : plan = [phase |-> "READY", reason |-> "NONE", cancel |-> FALSE, wake |-> t]
        BY <1>3, <3>1 DEF Disposition
      <4> QED
        BY <3>1, <4>1 DEF Retryable, Plan, Reason
    <3>2. CASE ~Retryable(w)
      <4>1. PICK why \in Reason :
              /\ plan \in Endings(j, why)
              /\ IF phase[j] = "CALLING" /\ worker[w].code = "UNCERTAIN"
                 THEN why = "PROVIDER_UNCONFIRMED" ELSE why = "SETTLED"
        BY <1>3, <3>2 DEF Disposition, Reason
      <4>2. j \in running => phase[j] = "CALLING"
        BY <1>1, <2>1 DEF CallsAgree
      <4> QED
        BY <2>1, <4>1, <4>2, EndingsTyped
    <3> QED BY <3>1, <3>2
  <2> DEFINE next == Closing(j, plan)
  <2>0. next \in WorkerState
    BY <1>1, <2>2, ClosingTyped
  <2>3. worker'[w] = next
    BY <1>3, <2>0, SetShape DEF Inv
  <2>4. /\ worker'[w].pc = "closing" /\ worker'[w].job = j /\ worker'[w].plan = plan
        /\ worker'[w].pinned = plan.cancel
    BY <2>3 DEF Closing, Idle
  <2>5. ReadingHolds(w)'
    BY <1>0, <1>3, <2>1, <2>2, <2>4 DEF ReadingHolds, Owns, QuietStore, controlVars, jobVars
  <2>6. WorkerInv(w)'
    <3>1. JobIsMine(w)'
      BY <2>4 DEF JobIsMine
    <3>2. j \in Job /\ (worker'[w].pinned => authority'[j])
      BY <1>0, <1>1, <2>2, <2>4 DEF QuietStore, decisionVars
    <3> QED
      BY <2>4, <2>5, <3>1, <3>2 DEF WorkerInv
  <2> HIDE DEF next
  <2> QED
    BY <1>0, <1>3, <2>0, <2>6, SetKeeps DEF next
<1> QED
  BY <1>2, <1>3 DEF Catch, Owns

LEMMA LoseRequestKeeps ==
    ASSUME Inv, NEW w \in Worker, LoseRequest(w)
    PROVE  Inv'
<1>1. QuietStore /\ now' = now /\ faults' \in 0..MaxFaults
  BY BoundAssumption DEF LoseRequest, Fault, QuietStore, callVars, Inv, TypeOK
<1> QED
  BY <1>1, GiveUpKeeps, FailKeeps DEF LoseRequest, Guarded, Code

\* A commit that the store refuses; a known response may be committed again.
LEMMA RejectedKeeps ==
    ASSUME Inv, NEW w \in Worker, Rejected(w), faults' \in 0..MaxFaults
    PROVE  Inv'
<1>1. QuietStore /\ now' = now
  BY DEF Rejected, QuietStore, callVars
<1>2. ASSUME worker[w].pc = "completing", worker[w].tries < MaxCommits - 1,
             Set(w, [worker[w] EXCEPT !.pc = "responded", !.fresh = FALSE, !.tries = @ + 1])
      PROVE  Inv'
  <2> DEFINE next == [worker[w] EXCEPT !.pc = "responded", !.fresh = FALSE, !.tries = @ + 1]
  <2>1. worker[w] \in WorkerState /\ worker[w].job \in Job
    BY <1>2, UnderWay
  <2>2. next \in WorkerState
    <3>1. worker[w].tries + 1 \in 0..MaxCommits
      BY <1>2, <2>1, BoundAssumption DEF WorkerState
    <3> QED
      BY <2>1, <3>1 DEF WorkerState, Label
  <2>3. worker'[w] = next
    BY <1>2, <2>2, SetShape DEF Inv
  <2>4. /\ worker'[w].pc = "responded" /\ worker'[w].job = worker[w].job
        /\ ~worker'[w].fresh /\ worker'[w].pinned = worker[w].pinned
    BY <2>1, <2>3 DEF WorkerState
  <2>5. WorkerInv(w)'
    BY <1>1, <1>2, <2>1, <2>4, UnderWay
    DEF WorkerInv, JobIsMine, Owns, QuietStore, jobVars, decisionVars
  <2> HIDE DEF next
  <2> QED
    BY <1>1, <1>2, <2>2, <2>5, SetKeeps DEF next
<1> QED
  BY <1>1, <1>2, GiveUpKeeps, FailKeeps DEF Rejected, Guarded, Code

LEMMA AbortKeeps ==
    ASSUME Inv, NEW w \in Worker, Abort(w)
    PROVE  Inv'
<1>1. QuietStore /\ now' = now /\ faults' \in 0..MaxFaults
  BY DEF Abort, QuietStore, Inv, TypeOK
<1> QED
  BY <1>1, FailKeeps DEF Abort, Code

LEMMA CrashKeeps ==
    ASSUME Inv, NEW w \in Worker, Crash(w)
    PROVE  Inv'
<1>1. QuietStore /\ now' = now /\ faults' \in 0..MaxFaults
  BY BoundAssumption DEF Crash, Fault, QuietStore, callVars, Inv, TypeOK
<1> QED
  BY <1>1, GiveUpKeeps DEF Crash

-----------------------------------------------------------------------------
(* Commits *)

\* The worker that commits goes on without its fence, or gives up.
GoesOn(w, next, label) ==
    /\ next.pc # "idle" => next.job = worker[w].job
    /\ ~next.pinned
    /\ next.pc \in {"idle", "failing", label}

LEMMA OneSlot ==
    ASSUME StoreFits, NEW j, NEW t, NEW end,
           Cardinality({s \in slots : s.job # j}) < MaxSlots
    PROVE  LET new == {s \in slots : s.job # j} \union {[job |-> j, token |-> t, until |-> end]}
           IN  IsFiniteSet(new) /\ Cardinality(new) <= MaxSlots
<1> DEFINE others == {s \in slots : s.job # j}
           slot == [job |-> j, token |-> t, until |-> end]
<1>1. IsFiniteSet(others)
  BY FS_Subset DEF StoreFits
<1>2. Cardinality(others) \in Nat
  BY <1>1, FS_CardinalityType
<1>3. slot \notin others
  OBVIOUS
<1>4. IsFiniteSet(others \union {slot}) /\ Cardinality(others \union {slot}) = Cardinality(others) + 1
  BY <1>1, <1>3, FS_AddElement
<1> QED
  BY <1>2, <1>4, BoundAssumption

LEMMA WriteLeaseKeeps ==
    ASSUME Inv, NEW w \in Worker, NEW next \in WorkerState, WriteLease(w, next),
           GoesOn(w, next, "leased"), next.pc # "failing", faults' \in 0..MaxFaults
    PROVE  Inv'
<1> DEFINE j == worker[w].job
           end == worker[w].until
           new == [job |-> j, token |-> w, until |-> end]
<1>0. /\ worker[w].pc = "taking" /\ worker[w].fresh
      /\ phase' = [phase EXCEPT ![j] = "LEASED"]
      /\ lease' = [lease EXCEPT ![j] = [token |-> w, until |-> end]]
      /\ slots' = {s \in slots : s.job # j} \union {new}
      /\ Commit(w, next, j, FALSE)
      /\ UNCHANGED <<now, enabled, active, failures, availableAt, expiresAt, attempts, reason,
                     authority, effect, dispatched, running>>
  BY DEF WriteLease, decisionVars, callVars
<1>1. /\ j \in Job /\ end \in Time /\ j \in active /\ phase[j] \in {"READY", "LEASED"}
      /\ Cardinality({s \in slots : s.job # j}) < MaxSlots
  BY <1>0, UnderWay DEF ReadingHolds, WorkerState
<1>2. /\ worker' \in [Worker -> WorkerState]
      /\ worker'[w].pc = next.pc /\ worker'[w].job = next.job
      /\ ~worker'[w].fresh /\ ~worker'[w].pinned
      /\ \A v \in Worker \ {w} : Overtaken(v)
  BY <1>0, <1>1, CommitShape DEF Inv, GoesOn
<1>3. /\ lease'[j] = [token |-> w, until |-> end] /\ phase'[j] = "LEASED"
      /\ \A i \in Job \ {j} : lease'[i] = lease[i] /\ phase'[i] = phase[i]
  BY <1>0, <1>1 DEF Inv, TypeOK
<1>4. lease'[j] # NoLease
  BY <1>3, NamesAssumption DEF NoLease
<1>5. TypeOK'
  <2>1. slots' \subseteq [job : Job, token : Worker, until : Time]
    BY <1>0, <1>1 DEF Inv, TypeOK
  <2>2. /\ phase' \in [Job -> {"ABSENT", "READY", "LEASED", "CALLING"} \union Terminal]
        /\ lease' \in [Job -> [token : Worker, until : Time] \union {NoLease}]
    BY <1>0, <1>1 DEF Inv, TypeOK
  <2> QED
    BY <1>0, <1>2, <2>1, <2>2 DEF Inv, TypeOK, WorkerState
<1>6. StoreFits'
  <2>1. IsFiniteSet(slots') /\ Cardinality(slots') <= MaxSlots
    BY <1>0, <1>1, OneSlot DEF Inv
  <2> QED
    BY <1>0, <1>1, <2>1 DEF Inv, StoreFits
<1>7. ASSUME NEW i \in Job PROVE RecordsAgree(i)' /\ CallsAgree(i)'
  <2>1. RecordsAgree(i) /\ CallsAgree(i)
    BY DEF Inv
  <2>2. CASE i = j
    <3>1. {s \in slots' : s.job = i} = {new}
      BY <1>0, <2>2
    <3>2. reason[i] = "NONE" /\ new \in slots'
      BY <1>0, <1>1, <2>1, <2>2 DEF RecordsAgree
    <3>3. /\ i \in active' /\ phase'[i] = "LEASED" /\ reason'[i] = "NONE" /\ lease'[i] # NoLease
      BY <1>0, <1>1, <1>3, <1>4, <2>2, <3>2
    <3>4. {s \in slots' : s.job = i} = {[job |-> i, token |-> lease'[i].token, until |-> lease'[i].until]}
      BY <1>3, <2>2, <3>1
    <3>5. \E s \in slots' : s.job = i
      BY <2>2, <3>2
    <3>6. RecordsAgree(i)'
      BY <3>3, <3>4, <3>5 DEF RecordsAgree
    <3>7. phase[i] \in {"READY", "LEASED"} /\ reason[i] = "NONE"
      BY <1>1, <2>2, <3>2
    <3>8. attempts[i] = 0 /\ i \notin running /\ effect[i] \notin {"APPLIED", "CANCELLED"}
      BY <2>1, <3>7 DEF CallsAgree
    <3>9. CallsAgree(i)'
      BY <1>0, <2>1, <3>3, <3>8 DEF CallsAgree
    <3> QED BY <3>6, <3>9
  <2>3. CASE i # j
    <3>1. {s \in slots' : s.job = i} = {s \in slots : s.job = i}
      BY <1>0, <2>3
    <3>2. RecordsAgree(i)'
      BY <1>0, <1>3, <2>1, <2>3, <3>1 DEF RecordsAgree
    <3> QED
      BY <1>0, <1>3, <2>1, <2>3, <3>2 DEF CallsAgree
  <2> QED BY <2>2, <2>3
<1>8. ASSUME NEW v \in Worker PROVE WorkerInv(v)'
  <2>1. CASE v = w
    BY <1>1, <1>2, <1>3, <2>1 DEF WorkerInv, GoesOn, JobIsMine
  <2>2. CASE v # w
    <3>1. JobIsUndisturbed(v)
      BY <1>0, <1>1, <1>3, <2>2, UnderWay DEF JobIsUndisturbed
    <3> QED
      BY <1>0, <1>2, <2>2, <3>1, OvertakenKept
  <2> QED BY <2>1, <2>2
<1> QED
  BY <1>5, <1>6, <1>7, <1>8 DEF Inv

LEMMA WriteReservationKeeps ==
    ASSUME Inv, NEW w \in Worker, NEW next \in WorkerState, WriteReservation(w, next),
           GoesOn(w, next, "reserved"), faults' \in 0..MaxFaults
    PROVE  Inv'
<1> DEFINE j == worker[w].job
<1>0. /\ worker[w].pc = "reserving" /\ worker[w].fresh
      /\ phase' = [phase EXCEPT ![j] = "CALLING"]
      /\ attempts' = [attempts EXCEPT ![j] = @ + 1]
      /\ Commit(w, next, j, FALSE)
      /\ UNCHANGED <<now, enabled, active, slots, lease, failures, availableAt, expiresAt, reason,
                     authority, effect, dispatched, running>>
  BY DEF WriteReservation, controlVars, decisionVars, callVars
<1>1. j \in Job /\ Owns(w) /\ phase[j] = "LEASED" /\ RecordsAgree(j) /\ CallsAgree(j)
  BY <1>0, UnderWay DEF ReadingHolds, JobIsMine
<1>2. /\ worker' \in [Worker -> WorkerState]
      /\ worker'[w].pc = next.pc /\ worker'[w].job = next.job
      /\ ~worker'[w].fresh /\ ~worker'[w].pinned
      /\ \A v \in Worker \ {w} : Overtaken(v)
  BY <1>0, <1>1, CommitShape DEF Inv, GoesOn
<1>3. /\ phase'[j] = "CALLING" /\ attempts'[j] = 1
      /\ \A i \in Job \ {j} : attempts'[i] = attempts[i] /\ phase'[i] = phase[i]
  BY <1>0, <1>1 DEF Inv, TypeOK, CallsAgree
<1>4. dispatched[j] = 0 /\ j \notin running
  BY <1>1 DEF CallsAgree, Inv, TypeOK, RecordsAgree
<1>5. TypeOK'
  <2>1. /\ phase' \in [Job -> {"ABSENT", "READY", "LEASED", "CALLING"} \union Terminal]
        /\ attempts' \in [Job -> Nat]
    BY <1>0, <1>1 DEF Inv, TypeOK
  <2> QED
    BY <1>0, <1>2, <2>1 DEF Inv, TypeOK, WorkerState
<1>6. StoreFits'
  BY <1>0 DEF Inv, StoreFits
<1>7. ASSUME NEW i \in Job PROVE RecordsAgree(i)' /\ CallsAgree(i)'
  <2>1. RecordsAgree(i) /\ CallsAgree(i)
    BY DEF Inv
  <2>2. CASE i = j
    BY <1>0, <1>1, <1>3, <1>4, <2>1, <2>2 DEF RecordsAgree, CallsAgree
  <2>3. CASE i # j
    BY <1>0, <1>3, <2>1, <2>3 DEF RecordsAgree, CallsAgree
  <2> QED BY <2>2, <2>3
<1>8. ASSUME NEW v \in Worker PROVE WorkerInv(v)'
  <2>1. CASE v = w
    BY <1>0, <1>1, <1>2, <1>3, <1>4, <2>1 DEF WorkerInv, GoesOn, JobIsMine
  <2>2. CASE v # w
    <3>1. JobIsUndisturbed(v)
      BY <1>0, <1>1, <1>3, <2>2, UnderWay DEF JobIsUndisturbed, Owns
    <3> QED
      BY <1>0, <1>2, <2>2, <3>1, OvertakenKept
  <2> QED BY <2>1, <2>2
<1> QED
  BY <1>5, <1>6, <1>7, <1>8 DEF Inv

\* The commit before the call changes nothing but who may commit next.
LEMMA WriteRecheckKeeps ==
    ASSUME Inv, NEW w \in Worker, NEW next \in WorkerState, WriteRecheck(w, next),
           GoesOn(w, next, "checked"), faults' \in 0..MaxFaults
    PROVE  Inv'
<1> DEFINE j == worker[w].job
<1>0. /\ worker[w].pc = "rechecking" /\ worker[w].fresh
      /\ Commit(w, next, j, FALSE)
      /\ UNCHANGED <<now, controlVars, jobVars, decisionVars, callVars>>
  BY DEF WriteRecheck
<1>1. /\ j \in Job /\ Owns(w) /\ phase[j] = "CALLING" /\ dispatched[j] = 0
      /\ RecordsAgree(j) /\ CallsAgree(j)
  BY <1>0, UnderWay DEF ReadingHolds, JobIsMine
<1>2. /\ worker' \in [Worker -> WorkerState]
      /\ worker'[w].pc = next.pc /\ worker'[w].job = next.job
      /\ ~worker'[w].fresh /\ ~worker'[w].pinned
      /\ \A v \in Worker \ {w} : Overtaken(v)
  BY <1>0, <1>1, CommitShape DEF Inv, GoesOn
<1>3. QuietStore
  BY <1>0 DEF QuietStore, callVars
<1>4. TypeOK'
  BY <1>0, <1>2 DEF Inv, TypeOK, WorkerState, controlVars, jobVars, decisionVars, callVars
<1>5. ASSUME NEW v \in Worker PROVE WorkerInv(v)'
  <2>1. CASE v = w
    <3>1. phase'[j] = "CALLING" /\ dispatched'[j] = 0 /\ j \notin running'
      BY <1>0, <1>1 DEF jobVars, callVars, CallsAgree
    <3> QED
      BY <1>1, <1>2, <2>1, <3>1 DEF WorkerInv, GoesOn, JobIsMine
  <2>2. CASE v # w
    <3>1. JobIsUndisturbed(v)
      BY <1>0 DEF JobIsUndisturbed, jobVars, callVars
    <3> QED
      BY <1>0, <1>2, <2>2, <3>1, OvertakenKept DEF decisionVars
  <2> QED BY <2>1, <2>2
<1> QED
  BY <1>3, <1>4, <1>5, QuietStoreKept DEF Inv

\* A commit that takes the lease away leaves nobody who thinks the job is his.
LEMMA ReleaseKeepsWorkers ==
    ASSUME Inv, NEW w \in Worker, NEW next \in WorkerState, NEW j \in Job, NEW moved \in BOOLEAN,
           Commit(w, next, j, moved), GoesOn(w, next, "idle"), worker[w].job = j,
           lease' = [lease EXCEPT ![j] = NoLease],
           \A i \in Job \ {j} : phase'[i] = phase[i] /\ authority'[i] = authority[i],
           ~moved => authority' = authority,
           UNCHANGED <<dispatched, running>>
    PROVE  worker' \in [Worker -> WorkerState] /\ \A v \in Worker : WorkerInv(v)'
<1>1. /\ worker' \in [Worker -> WorkerState]
      /\ worker'[w].pc = next.pc /\ worker'[w].job = next.job
      /\ ~worker'[w].fresh /\ ~worker'[w].pinned
      /\ \A v \in Worker \ {w} : Overtaken(v)
      /\ \A v \in Worker : moved /\ worker'[v].job = j => ~worker'[v].pinned
  BY CommitShape DEF Inv, GoesOn
<1>2. \A v \in Worker : lease'[j].token # v
  BY NamesAssumption DEF NoLease, Inv, TypeOK
<1>3. ASSUME NEW v \in Worker PROVE WorkerInv(v)'
  <2>1. CASE v = w
    BY <1>1, <1>2, <2>1 DEF WorkerInv, GoesOn, Owns
  <2>2. CASE v # w
    <3>1. JobIsUndisturbed(v)
      <4>1. worker[v].pc # "idle" => worker[v].job \in Job
        BY UnderWay
      <4> QED
        BY <1>2, <4>1 DEF JobIsUndisturbed, Inv, TypeOK
    <3>2. worker'[v].pinned /\ worker[v].pc # "idle" => authority'[worker[v].job] = authority[worker[v].job]
      BY <1>1, <2>2, UnderWay DEF Overtaken, StaysPut
    <3> QED
      BY <1>1, <2>2, <3>1, <3>2, OvertakenKept
  <2> QED BY <2>1, <2>2
<1> QED
  BY <1>1, <1>3

\* The ways a job may end: with its result, settled, or with its call in doubt.
MayEnd(j, ph, why) ==
    \/ ph = "SUCCEEDED" /\ why = "NONE" /\ j \notin running
    \/ ph = "DEAD" /\ why = "SETTLED" /\ j \notin running
    \/ ph = "DEAD" /\ why = "PROVIDER_UNCONFIRMED"

LEMMA FinishKeepsRecords ==
    ASSUME Inv, NEW j \in Job, NEW ph, NEW why, MayEnd(j, ph, why), Finish(j, ph, why),
           why = "PROVIDER_UNCONFIRMED" => j \in active, UNCHANGED running
    PROVE  /\ StoreFits' /\ \A i \in Job : RecordsAgree(i)'
           /\ active' \subseteq Job
           /\ slots' \subseteq [job : Job, token : Worker, until : Time]
           /\ phase' = [phase EXCEPT ![j] = ph] /\ phase'[j] = ph
           /\ phase' \in [Job -> {"ABSENT", "READY", "LEASED", "CALLING"} \union Terminal]
           /\ lease' = [lease EXCEPT ![j] = NoLease]
           /\ lease' \in [Job -> [token : Worker, until : Time] \union {NoLease}]
           /\ reason' \in [Job -> Reason]
           /\ reason'[j] = why /\ \A i \in Job \ {j} : reason'[i] = reason[i]
<1>1. /\ phase' = [phase EXCEPT ![j] = ph] /\ reason' = [reason EXCEPT ![j] = why]
      /\ lease' = [lease EXCEPT ![j] = NoLease]
  BY DEF Finish
<1>2. /\ phase' \in [Job -> {"ABSENT", "READY", "LEASED", "CALLING"} \union Terminal]
      /\ lease' \in [Job -> [token : Worker, until : Time] \union {NoLease}]
      /\ reason' \in [Job -> Reason]
      /\ phase'[j] = ph /\ reason'[j] = why /\ lease'[j] = NoLease
      /\ \A i \in Job \ {j} : phase'[i] = phase[i] /\ reason'[i] = reason[i] /\ lease'[i] = lease[i]
  BY <1>1 DEF Inv, TypeOK, MayEnd, Terminal, Reason
<1>3. CASE why = "PROVIDER_UNCONFIRMED"
  <2>1. active' = active /\ slots' = slots
    BY <1>3 DEF Finish
  <2>2. ASSUME NEW i \in Job PROVE RecordsAgree(i)'
    <3>1. RecordsAgree(i)
      BY DEF Inv
    <3> QED
      BY <1>2, <1>3, <2>1, <3>1 DEF RecordsAgree, MayEnd
  <2> QED
    BY <1>1, <1>2, <2>1, <2>2 DEF Inv, TypeOK, StoreFits
<1>4. CASE why # "PROVIDER_UNCONFIRMED"
  <2>1. active' = active \ {j} /\ slots' = {s \in slots : s.job # j}
    BY <1>4 DEF Finish
  <2>2. StoreFits'
    <3>1. IsFiniteSet(active)
      BY NamesAssumption, FS_Subset DEF Inv, TypeOK
    <3>2. Cardinality(active') <= Cardinality(active) /\ Cardinality(active') \in Nat /\ Cardinality(active) \in Nat
      BY <2>1, <3>1, FS_Subset, FS_CardinalityType
    <3>3. slots' \subseteq slots
      BY <2>1
    <3>4. /\ IsFiniteSet(slots') /\ Cardinality(slots') <= Cardinality(slots)
          /\ Cardinality(slots') \in Nat /\ Cardinality(slots) \in Nat
      BY <3>3, FS_Subset, FS_CardinalityType DEF Inv, StoreFits
    <3> QED
      BY <2>1, <3>2, <3>4, BoundAssumption DEF Inv, StoreFits
  <2>3. ASSUME NEW i \in Job PROVE RecordsAgree(i)'
    <3>1. RecordsAgree(i)
      BY DEF Inv
    <3>2. CASE i = j
      BY <1>2, <1>4, <2>1, <3>2 DEF RecordsAgree, MayEnd
    <3>3. CASE i # j
      <4>1. {s \in slots' : s.job = i} = {s \in slots : s.job = i}
        BY <2>1, <3>3
      <4> QED
        BY <1>2, <2>1, <3>1, <3>3, <4>1 DEF RecordsAgree
    <3> QED BY <3>2, <3>3
  <2> QED
    BY <1>1, <1>2, <2>1, <2>2, <2>3 DEF Inv, TypeOK
<1> QED BY <1>3, <1>4

\* What the worker that commits the result knows: the call is answered, and the
\* decision has not moved since the fence was read.
LEMMA ResultIsOwn ==
    ASSUME Inv, NEW w \in Worker, NEW next, WriteResult(w, next)
    PROVE  LET j == worker[w].job
           IN  /\ j \in Job /\ j \in active /\ phase[j] = "CALLING" /\ j \notin running
               /\ authority[j] /\ effect[j] = "NONE"
<1>1. worker[w].pc = "completing" /\ worker[w].fresh /\ worker[w].pinned
  BY DEF WriteResult
<1>2. Owns(w) /\ authority[worker[w].job]
  BY <1>1, UnderWay DEF ReadingHolds
<1>3. JobIsMine(w) /\ worker[w].job \in Job /\ CallsAgree(worker[w].job)
  BY <1>1, <1>2, UnderWay
<1> QED
  BY <1>1, <1>2, <1>3, OwnerHolds DEF JobIsMine, CallsAgree

LEMMA WriteResultKeeps ==
    ASSUME Inv, NEW w \in Worker, NEW next \in WorkerState, WriteResult(w, next),
           GoesOn(w, next, "idle"), faults' \in 0..MaxFaults
    PROVE  Inv'
<1> DEFINE j == worker[w].job
<1>0. /\ Finish(j, "SUCCEEDED", "NONE") /\ Affect(j, "APPLIED") /\ Commit(w, next, j, TRUE)
      /\ UNCHANGED <<now, enabled, failures, availableAt, expiresAt, attempts, dispatched, running>>
  BY DEF WriteResult, callVars
<1>1. /\ j \in Job /\ j \in active /\ phase[j] = "CALLING" /\ j \notin running
      /\ authority[j] /\ effect[j] = "NONE"
  BY ResultIsOwn
<1>2. /\ effect' = [effect EXCEPT ![j] = "APPLIED"] /\ authority' = [authority EXCEPT ![j] = FALSE]
      /\ effect' \in [Job -> {"NONE", "APPLIED", "CANCELLED"}] /\ authority' \in [Job -> BOOLEAN]
  BY <1>0 DEF Affect, Inv, TypeOK
<1>3. /\ StoreFits' /\ \A i \in Job : RecordsAgree(i)'
      /\ active' \subseteq Job
      /\ slots' \subseteq [job : Job, token : Worker, until : Time]
      /\ phase' = [phase EXCEPT ![j] = "SUCCEEDED"] /\ phase'[j] = "SUCCEEDED"
      /\ phase' \in [Job -> {"ABSENT", "READY", "LEASED", "CALLING"} \union Terminal]
      /\ lease' = [lease EXCEPT ![j] = NoLease]
      /\ lease' \in [Job -> [token : Worker, until : Time] \union {NoLease}]
      /\ reason' \in [Job -> Reason]
      /\ \A i \in Job \ {j} : reason'[i] = reason[i]
  BY <1>0, <1>1, FinishKeepsRecords DEF MayEnd
<1>4. \A i \in Job \ {j} : /\ phase'[i] = phase[i] /\ authority'[i] = authority[i]
                           /\ effect'[i] = effect[i]
  <2>1. \A i \in Job \ {j} : phase'[i] = phase[i]
    BY <1>1, <1>3 DEF Inv, TypeOK
  <2>2. \A i \in Job \ {j} : authority'[i] = authority[i] /\ effect'[i] = effect[i]
    BY <1>1, <1>2 DEF Inv, TypeOK
  <2> QED BY <2>1, <2>2
<1>5. worker' \in [Worker -> WorkerState] /\ \A v \in Worker : WorkerInv(v)'
  BY <1>0, <1>1, <1>3, <1>4, ReleaseKeepsWorkers
<1>6. TypeOK'
  BY <1>0, <1>2, <1>3, <1>5 DEF Inv, TypeOK, WorkerState
<1>7. ASSUME NEW i \in Job PROVE CallsAgree(i)'
  <2>1. CallsAgree(i)
    BY DEF Inv
  <2>2. CASE i = j
    <3>1. effect'[i] = "APPLIED" /\ ~authority'[i] /\ phase'[i] = "SUCCEEDED"
      BY <1>2, <1>3, <2>2 DEF Inv, TypeOK
    <3> QED
      BY <1>0, <1>1, <2>1, <2>2, <3>1 DEF CallsAgree
  <2>3. CASE i # j
    BY <1>0, <1>3, <1>4, <2>1, <2>3 DEF CallsAgree
  <2> QED BY <2>2, <2>3
<1> QED
  BY <1>3, <1>5, <1>6, <1>7 DEF Inv

\* What the worker that closes a job knows while its reading is fresh.
LEMMA ClosingIsSafe ==
    ASSUME Inv, NEW w \in Worker, NEW next, WriteDisposition(w, next)
    PROVE  LET j == worker[w].job
               plan == worker[w].plan
           IN  /\ j \in Job /\ plan \in Plan
               /\ j \in active /\ phase[j] \in {"READY", "LEASED", "CALLING"}
               /\ plan.cancel => plan.phase = "DEAD" /\ authority[j] /\ effect[j] = "NONE"
               /\ plan.phase = "READY" => phase[j] = "LEASED" /\ failures[j] < MaxRetries
               /\ plan.phase = "DEAD" => MayEnd(j, "DEAD", plan.reason)
<1>1. /\ worker[w].pc = "closing" /\ worker[w].fresh
      /\ worker[w].plan.cancel => worker[w].pinned
  BY DEF WriteDisposition
<1>2. /\ worker[w].job \in Job /\ worker[w].plan \in Plan /\ ReadingHolds(w)
      /\ worker[w].pinned => authority[worker[w].job]
      /\ CallsAgree(worker[w].job)
  BY <1>1, UnderWay DEF WorkerState
<1>3. worker[w].plan.phase \in {"READY", "DEAD"}
  BY <1>2 DEF Plan
<1> QED
  BY <1>1, <1>2, <1>3 DEF ReadingHolds, MayEnd, CallsAgree

LEMMA WriteDispositionKeeps ==
    ASSUME Inv, NEW w \in Worker, NEW next \in WorkerState, WriteDisposition(w, next),
           GoesOn(w, next, "idle"), faults' \in 0..MaxFaults
    PROVE  Inv'
<1> DEFINE j == worker[w].job
           plan == worker[w].plan
<1>0. /\ Commit(w, next, j, plan.cancel)
      /\ IF plan.cancel THEN Affect(j, "CANCELLED") ELSE UNCHANGED <<authority, effect>>
      /\ UNCHANGED <<now, enabled, expiresAt, attempts, dispatched, running>>
  BY DEF WriteDisposition, callVars, decisionVars
<1>1. /\ j \in Job /\ plan \in Plan
      /\ j \in active /\ phase[j] \in {"READY", "LEASED", "CALLING"}
      /\ plan.cancel => plan.phase = "DEAD" /\ authority[j] /\ effect[j] = "NONE"
      /\ plan.phase = "READY" => phase[j] = "LEASED" /\ failures[j] < MaxRetries
      /\ plan.phase = "DEAD" => MayEnd(j, "DEAD", plan.reason)
  BY ClosingIsSafe
<1>2. /\ effect' \in [Job -> {"NONE", "APPLIED", "CANCELLED"}] /\ authority' \in [Job -> BOOLEAN]
      /\ \A i \in Job \ {j} : effect'[i] = effect[i] /\ authority'[i] = authority[i]
      /\ plan.cancel => effect'[j] = "CANCELLED" /\ ~authority'[j]
      /\ ~plan.cancel => effect' = effect /\ authority' = authority
  BY <1>0, <1>1 DEF Affect, Inv, TypeOK
<1>5. /\ plan.cancel \in BOOLEAN
      /\ ~plan.cancel => authority' = authority
      /\ \A i \in Job \ {j} : authority'[i] = authority[i]
  BY <1>1, <1>2 DEF Plan
<1>3. CASE plan.phase = "READY"
  <2>0. /\ phase' = [phase EXCEPT ![j] = "READY"] /\ lease' = [lease EXCEPT ![j] = NoLease]
        /\ failures' = [failures EXCEPT ![j] = @ + 1]
        /\ availableAt' = [availableAt EXCEPT ![j] = plan.wake]
        /\ slots' = {s \in slots : s.job # j}
        /\ UNCHANGED <<active, reason>>
    BY <1>3 DEF WriteDisposition
  <2>1. /\ phase' \in [Job -> {"ABSENT", "READY", "LEASED", "CALLING"} \union Terminal]
        /\ lease' \in [Job -> [token : Worker, until : Time] \union {NoLease}]
        /\ failures' \in [Job -> 0..MaxRetries] /\ availableAt' \in [Job -> Time]
        /\ phase'[j] = "READY" /\ lease'[j] = NoLease
        /\ \A i \in Job \ {j} : phase'[i] = phase[i] /\ lease'[i] = lease[i]
    BY <1>1, <1>3, <2>0, BoundAssumption DEF Inv, TypeOK, Plan
  <2>2. worker' \in [Worker -> WorkerState] /\ \A v \in Worker : WorkerInv(v)'
    <3>1. plan.cancel = FALSE
      BY <1>1, <1>3, <1>5
    <3>2. Commit(w, next, j, FALSE)
      BY <1>0, <3>1
    <3> QED
      BY <1>0, <1>1, <1>5, <2>0, <2>1, <3>1, <3>2, ReleaseKeepsWorkers
  <2>3. TypeOK'
    BY <1>0, <1>2, <2>0, <2>1, <2>2 DEF Inv, TypeOK, WorkerState
  <2>4. StoreFits'
    <3>1. slots' \subseteq slots /\ IsFiniteSet(slots)
      BY <2>0 DEF Inv, StoreFits
    <3>2. /\ IsFiniteSet(slots') /\ Cardinality(slots') <= Cardinality(slots)
          /\ Cardinality(slots') \in Nat /\ Cardinality(slots) \in Nat
      BY <3>1, FS_Subset, FS_CardinalityType
    <3> QED
      BY <2>0, <3>1, <3>2, BoundAssumption DEF Inv, StoreFits
  <2>5. ASSUME NEW i \in Job PROVE RecordsAgree(i)' /\ CallsAgree(i)'
    <3>1. RecordsAgree(i) /\ CallsAgree(i)
      BY DEF Inv
    <3>2. CASE i = j
      <4>1. phase[i] = "LEASED" /\ reason[i] = "NONE" /\ i \notin running
        BY <1>1, <1>3, <3>1, <3>2 DEF RecordsAgree, CallsAgree
      <4>2. RecordsAgree(i)'
        BY <1>0, <1>1, <2>0, <2>1, <3>2, <4>1 DEF RecordsAgree
      <4>3. CallsAgree(i)'
        BY <1>0, <1>1, <1>2, <1>3, <2>1, <3>1, <3>2, <4>1 DEF CallsAgree
      <4> QED BY <4>2, <4>3
    <3>3. CASE i # j
      <4>1. {s \in slots' : s.job = i} = {s \in slots : s.job = i}
        BY <2>0, <3>3
      <4>2. RecordsAgree(i)'
        BY <1>0, <2>0, <2>1, <3>1, <3>3, <4>1 DEF RecordsAgree
      <4>3. CallsAgree(i)'
        BY <1>0, <1>2, <2>0, <2>1, <3>1, <3>3 DEF CallsAgree
      <4> QED BY <4>2, <4>3
    <3> QED BY <3>2, <3>3
  <2> QED
    BY <2>2, <2>3, <2>4, <2>5 DEF Inv
<1>4. CASE plan.phase # "READY"
  <2>0. Finish(j, "DEAD", plan.reason) /\ UNCHANGED <<failures, availableAt>>
    BY <1>4 DEF WriteDisposition
  <2>1. MayEnd(j, "DEAD", plan.reason)
    BY <1>1, <1>4 DEF Plan
  <2>2. /\ StoreFits' /\ \A i \in Job : RecordsAgree(i)'
        /\ active' \subseteq Job
        /\ slots' \subseteq [job : Job, token : Worker, until : Time]
        /\ phase' = [phase EXCEPT ![j] = "DEAD"] /\ phase'[j] = "DEAD"
        /\ phase' \in [Job -> {"ABSENT", "READY", "LEASED", "CALLING"} \union Terminal]
        /\ lease' = [lease EXCEPT ![j] = NoLease]
        /\ lease' \in [Job -> [token : Worker, until : Time] \union {NoLease}]
        /\ reason' \in [Job -> Reason]
        /\ reason'[j] = plan.reason /\ \A i \in Job \ {j} : reason'[i] = reason[i]
    BY <1>0, <1>1, <2>0, <2>1, FinishKeepsRecords
  <2>3. \A i \in Job \ {j} : phase'[i] = phase[i]
    BY <1>1, <2>2 DEF Inv, TypeOK
  <2>4. worker' \in [Worker -> WorkerState] /\ \A v \in Worker : WorkerInv(v)'
    <3>1. CASE plan.cancel = TRUE
      <4>1. Commit(w, next, j, TRUE)
        BY <1>0, <3>1
      <4> QED
        BY <1>0, <1>1, <1>5, <2>2, <2>3, <4>1, ReleaseKeepsWorkers
    <3>2. CASE plan.cancel = FALSE
      <4>1. Commit(w, next, j, FALSE)
        BY <1>0, <3>2
      <4> QED
        BY <1>0, <1>1, <1>5, <2>2, <2>3, <3>2, <4>1, ReleaseKeepsWorkers
    <3> QED BY <1>5, <3>1, <3>2
  <2>5. TypeOK'
    BY <1>0, <1>2, <2>0, <2>2, <2>4 DEF Inv, TypeOK, WorkerState
  <2>6. ASSUME NEW i \in Job PROVE CallsAgree(i)'
    <3>1. CallsAgree(i)
      BY DEF Inv
    <3>2. CASE i = j
      BY <1>0, <1>1, <1>2, <2>1, <2>2, <3>1, <3>2 DEF CallsAgree, MayEnd
    <3>3. CASE i # j
      BY <1>0, <1>2, <2>2, <2>3, <3>1, <3>3 DEF CallsAgree
    <3> QED BY <3>2, <3>3
  <2> QED
    BY <2>2, <2>4, <2>5, <2>6 DEF Inv
<1> QED BY <1>3, <1>4

\* The three ways a worker goes on after a commit.
LEMMA NextLocals ==
    ASSUME Inv, NEW w \in Worker, worker[w].pc # "idle"
    PROVE  /\ GoesOn(w, Idle, "idle") /\ Idle \in WorkerState
           /\ GoesOn(w, Failed(w, "RETRYABLE"), "idle")
           /\ Failed(w, "RETRYABLE") \in WorkerState
           /\ \A label \in Label : /\ GoesOn(w, At(w, label), label)
                                   /\ At(w, label) \in WorkerState
                                   /\ At(w, label).pc = label
<1>1. worker[w] \in WorkerState /\ worker[w].job \in Job
  BY UnderWay
<1>2. GoesOn(w, Idle, "idle") /\ GoesOn(w, Failed(w, "RETRYABLE"), "idle")
  BY DEF GoesOn, Idle, Failed
<1>3. Failed(w, "RETRYABLE") \in WorkerState
  BY <1>1, FailedTyped DEF Code
<1>4. ASSUME NEW label \in Label
      PROVE  /\ GoesOn(w, At(w, label), label) /\ At(w, label) \in WorkerState
             /\ At(w, label).pc = label
  BY <1>1, AtTyped DEF GoesOn, At, WorkerState, Inv
<1> QED
  BY <1>2, <1>3, <1>4, IdleTyped

LEMMA AcknowledgedKeeps ==
    ASSUME Inv, NEW w \in Worker, Acknowledged(w)
    PROVE  Inv'
<1>0. faults' \in 0..MaxFaults
  BY DEF Acknowledged, Inv, TypeOK
<1>1. CASE WriteLease(w, At(w, "leased"))
  BY <1>0, <1>1, NextLocals, WriteLeaseKeeps DEF WriteLease, Label
<1>2. CASE WriteReservation(w, At(w, "reserved"))
  BY <1>0, <1>2, NextLocals, WriteReservationKeeps DEF WriteReservation, Label
<1>3. CASE WriteRecheck(w, At(w, "checked"))
  BY <1>0, <1>3, NextLocals, WriteRecheckKeeps DEF WriteRecheck, Label
<1>4. CASE WriteResult(w, Idle)
  BY <1>0, <1>4, NextLocals, WriteResultKeeps DEF WriteResult
<1>5. CASE WriteDisposition(w, Idle)
  BY <1>0, <1>5, NextLocals, WriteDispositionKeeps DEF WriteDisposition
<1> QED
  BY <1>1, <1>2, <1>3, <1>4, <1>5 DEF Acknowledged

\* The store has committed and the worker believes it has not.
LEMMA LoseAcknowledgementKeeps ==
    ASSUME Inv, NEW w \in Worker, LoseAcknowledgement(w)
    PROVE  Inv'
<1>0. faults' \in 0..MaxFaults
  BY BoundAssumption DEF LoseAcknowledgement, Fault, Inv, TypeOK
<1>6. GoesOn(w, Idle, "idle") => GoesOn(w, Idle, "leased") /\ Idle.pc # "failing"
  BY DEF GoesOn, Idle
<1>7. GoesOn(w, Failed(w, "RETRYABLE"), "idle") =>
        GoesOn(w, Failed(w, "RETRYABLE"), "reserved") /\ GoesOn(w, Failed(w, "RETRYABLE"), "checked")
  BY DEF GoesOn
<1>1. CASE WriteLease(w, Idle)
  BY <1>0, <1>1, <1>6, NextLocals, WriteLeaseKeeps DEF WriteLease
<1>2. CASE WriteReservation(w, Failed(w, "RETRYABLE"))
  BY <1>0, <1>2, <1>7, NextLocals, WriteReservationKeeps DEF WriteReservation
<1>3. CASE WriteRecheck(w, Failed(w, "RETRYABLE"))
  BY <1>0, <1>3, <1>7, NextLocals, WriteRecheckKeeps DEF WriteRecheck
<1>4. CASE WriteResult(w, Failed(w, "RETRYABLE"))
  BY <1>0, <1>4, NextLocals, WriteResultKeeps DEF WriteResult
<1>5. CASE WriteDisposition(w, Idle)
  BY <1>0, <1>5, NextLocals, WriteDispositionKeeps DEF WriteDisposition
<1> QED
  BY <1>1, <1>2, <1>3, <1>4, <1>5 DEF LoseAcknowledgement

-----------------------------------------------------------------------------
(* Requests, operators and the clock *)

\* A commit that is no worker's outdates what they have all read.
LEMMA AllOvertaken ==
    ASSUME TypeOK, worker' = [v \in Worker |-> [worker[v] EXCEPT !.fresh = FALSE]]
    PROVE  worker' \in [Worker -> WorkerState] /\ \A v \in Worker : Overtaken(v)
<1>1. \A v \in Worker :
        LET after == [worker[v] EXCEPT !.fresh = FALSE]
        IN  /\ after \in WorkerState /\ after.pc = worker[v].pc /\ after.job = worker[v].job
            /\ after.code = worker[v].code /\ after.plan = worker[v].plan
            /\ ~after.fresh /\ after.pinned = worker[v].pinned
  BY DEF TypeOK, WorkerState
<1> QED
  BY <1>1 DEF Overtaken, StaysPut

LEMMA UnpinShape ==
    ASSUME TypeOK, NEW j \in Job, Unpin(j)
    PROVE  /\ worker' \in [Worker -> WorkerState]
           /\ \A v \in Worker : /\ StaysPut(v) /\ worker'[v].fresh = worker[v].fresh
                                /\ worker'[v].pinned => worker[v].pinned /\ worker[v].job # j
<1>1. \A v \in Worker :
        LET after == [worker[v] EXCEPT !.pinned = @ /\ worker[v].job # j]
        IN  /\ after \in WorkerState /\ after.pc = worker[v].pc /\ after.job = worker[v].job
            /\ after.code = worker[v].code /\ after.plan = worker[v].plan
            /\ after.fresh = worker[v].fresh
            /\ after.pinned => worker[v].pinned /\ worker[v].job # j
  BY DEF TypeOK, WorkerState
<1> QED
  BY <1>1 DEF Unpin, StaysPut

\* A pinned record moves, with the job's authority or without it: nobody commits
\* under the fence any more.
LEMMA UnpinKeeps ==
    ASSUME Inv, NEW j \in Job, Unpin(j), faults' \in 0..MaxFaults,
           \/ authority' = authority
           \/ authority' = [authority EXCEPT ![j] = FALSE],
           UNCHANGED <<now, controlVars, jobVars, effect, callVars>>
    PROVE  Inv'
<1>0. /\ UNCHANGED <<controlVars, jobVars, effect, dispatched, running, now>>
      /\ authority' \in [Job -> BOOLEAN]
      /\ \A i \in Job : authority'[i] => authority[i]
      /\ \A i \in Job \ {j} : authority'[i] = authority[i]
  BY DEF callVars, Inv, TypeOK
<1>1. /\ worker' \in [Worker -> WorkerState]
      /\ \A v \in Worker : /\ StaysPut(v) /\ worker'[v].fresh = worker[v].fresh
                           /\ worker'[v].pinned => worker[v].pinned /\ worker[v].job # j
  BY UnpinShape DEF Inv
<1>2. TypeOK'
  BY <1>0, <1>1 DEF Inv, TypeOK, WorkerState, controlVars, jobVars
<1>3. StoreFits'
  BY <1>0 DEF Inv, StoreFits, controlVars
<1>4. ASSUME NEW i \in Job PROVE RecordsAgree(i)' /\ CallsAgree(i)'
  BY <1>0 DEF Inv, RecordsAgree, CallsAgree, controlVars, jobVars
<1>5. ASSUME NEW v \in Worker PROVE WorkerInv(v)'
  <2>1. WorkerInv(v) /\ StaysPut(v) /\ worker'[v].fresh = worker[v].fresh
        /\ (worker'[v].pinned => worker[v].pinned /\ worker[v].job # j)
    BY <1>1 DEF Inv
  <2>2. JobIsMine(v) => JobIsMine(v)'
    BY <1>0, <2>1 DEF JobIsMine, StaysPut, jobVars
  <2>3. ReadingHolds(v) => ReadingHolds(v)'
    BY <1>0, <2>1 DEF ReadingHolds, StaysPut, Owns, jobVars, controlVars
  <2>4. worker'[v].pinned => worker'[v].pc # "idle" /\ authority'[worker'[v].job]
    BY <1>0, <2>1 DEF WorkerInv, StaysPut
  <2> QED
    BY <1>0, <2>1, <2>2, <2>3, <2>4 DEF WorkerInv, StaysPut, Owns, jobVars
<1> QED
  BY <1>2, <1>3, <1>4, <1>5 DEF Inv

\* v goes on with what it had before somebody's commit, or holds nothing
LearnsNothing(v) ==
    Overtaken(v) \/ (worker'[v].pc = "idle" /\ ~worker'[v].fresh /\ ~worker'[v].pinned)

\* A job is written where there was none, by a commit of which the workers under
\* way learn nothing.
LEMMA WriteJobKeeps ==
    ASSUME Inv, NEW j \in Job, NEW end \in Time, WriteJob(j, end),
           phase[j] = "ABSENT", Cardinality(active) < MaxActive,
           worker' \in [Worker -> WorkerState], faults' \in 0..MaxFaults,
           \A v \in Worker : LearnsNothing(v)
    PROVE  Inv'
<1>0. /\ active' = active \union {j}
      /\ phase' = [phase EXCEPT ![j] = "READY"]
      /\ availableAt' = [availableAt EXCEPT ![j] = now]
      /\ expiresAt' = [expiresAt EXCEPT ![j] = end]
      /\ UNCHANGED <<now, enabled, slots, lease, failures, attempts, reason, authority, effect,
                     dispatched, running>>
  BY DEF WriteJob, decisionVars, callVars
<1>1. /\ RecordsAgree(j) /\ CallsAgree(j) /\ reason[j] = "NONE" /\ lease[j] = NoLease
      /\ j \notin active /\ \A s \in slots : s.job # j
  BY <1>0 DEF Inv, RecordsAgree, StoreFits
<1>3. TypeOK'
  <2>1. expiresAt' \in [Job -> Time] /\ availableAt' \in [Job -> Time]
    BY <1>0, BoundAssumption DEF Inv, TypeOK, Time
  <2>2. active' \subseteq Job /\ phase' \in [Job -> {"ABSENT", "READY", "LEASED", "CALLING"} \union Terminal]
    BY <1>0 DEF Inv, TypeOK
  <2> QED
    BY <1>0, <2>1, <2>2 DEF Inv, TypeOK, WorkerState
<1>4. StoreFits'
  <2>1. IsFiniteSet(active)
    BY NamesAssumption, FS_Subset DEF Inv, TypeOK
  <2>2. Cardinality(active \union {j}) = Cardinality(active) + 1 /\ Cardinality(active) \in Nat
    BY <1>1, <2>1, FS_AddElement, FS_CardinalityType
  <2> QED
    BY <1>0, <2>2, BoundAssumption DEF Inv, StoreFits
<1>5. ASSUME NEW i \in Job PROVE RecordsAgree(i)' /\ CallsAgree(i)'
  <2>1. RecordsAgree(i) /\ CallsAgree(i) /\ phase'[i] = IF i = j THEN "READY" ELSE phase[i]
    BY <1>0 DEF Inv, TypeOK
  <2>2. CASE i = j
    <3>1. i \notin running
      BY <1>1, <2>2 DEF RecordsAgree
    <3> QED
      BY <1>0, <1>1, <2>1, <2>2, <3>1 DEF RecordsAgree, CallsAgree
  <2>3. CASE i # j
    BY <1>0, <2>1, <2>3 DEF RecordsAgree, CallsAgree
  <2> QED BY <2>2, <2>3
<1>6. ASSUME NEW v \in Worker, Overtaken(v) PROVE WorkerInv(v)'
  <2>1. JobIsUndisturbed(v)
    <3>1. lease[j].token # v
      BY <1>1, NamesAssumption DEF NoLease
    <3> QED
      BY <1>0, <3>1, UnderWay DEF JobIsUndisturbed, Inv, TypeOK
  <2> QED
    BY <1>0, <1>6, <2>1, OvertakenKept
<1>7. \A v \in Worker : WorkerInv(v)'
  BY <1>6 DEF WorkerInv, LearnsNothing
<1> QED
  BY <1>3, <1>4, <1>5, <1>7 DEF Inv

LEMMA EnqueueKeeps ==
    ASSUME Inv, NEW j \in Job, Enqueue(j)
    PROVE  Inv'
<1>1. now + Life \in Time /\ faults' \in 0..MaxFaults
  BY BoundAssumption DEF Enqueue, Time, Inv, TypeOK
<1>2. worker' \in [Worker -> WorkerState] /\ \A v \in Worker : LearnsNothing(v)
  BY AllOvertaken DEF Enqueue, Inv, LearnsNothing
<1>3. phase[j] = "ABSENT" /\ Cardinality(active) < MaxActive /\ WriteJob(j, now + Life)
  BY DEF Enqueue, MayEnqueue
<1> QED
  BY <1>1, <1>2, <1>3, WriteJobKeeps

\* The decision's part of a reconciliation: it is cancelled only if its
\* reasoning is still the job's.
LEMMA ReconcileEffect ==
    ASSUME Inv, NEW j \in Job, Reconcile(j)
    PROVE  /\ effect' \in [Job -> {"NONE", "APPLIED", "CANCELLED"}] /\ authority' \in [Job -> BOOLEAN]
           /\ \A i \in Job \ {j} : effect'[i] = effect[i] /\ authority'[i] = authority[i]
           /\ \/ effect' = effect /\ authority' = authority
              \/ effect'[j] = "CANCELLED" /\ ~authority'[j] /\ authority[j]
           /\ worker' \in [Worker -> WorkerState]
           /\ \A v \in Worker : /\ Overtaken(v)
                                /\ worker'[v].pinned /\ worker[v].job = j => authority' = authority
<1>1. PICK plan \in Endings(j, "SETTLED") :
        /\ IF plan.cancel THEN Affect(j, "CANCELLED") ELSE UNCHANGED <<authority, effect>>
        /\ worker' = [v \in Worker |->
              [worker[v] EXCEPT !.fresh = FALSE, !.pinned = @ /\ ~(plan.cancel /\ worker[v].job = j)]]
  BY DEF Reconcile, decisionVars
<1>2. plan.cancel => authority[j]
  BY EndingsTyped DEF Reason
<1>3. \A v \in Worker :
        LET after == [worker[v] EXCEPT !.fresh = FALSE, !.pinned = @ /\ ~(plan.cancel /\ worker[v].job = j)]
        IN  /\ after \in WorkerState /\ after.pc = worker[v].pc /\ after.job = worker[v].job
            /\ after.code = worker[v].code /\ after.plan = worker[v].plan
            /\ ~after.fresh
            /\ after.pinned => worker[v].pinned /\ ~(plan.cancel /\ worker[v].job = j)
  BY DEF Inv, TypeOK, WorkerState
<1>4. /\ worker' \in [Worker -> WorkerState]
      /\ \A v \in Worker : /\ Overtaken(v)
                           /\ worker'[v].pinned => ~(plan.cancel /\ worker[v].job = j)
  BY <1>1, <1>3 DEF Overtaken, StaysPut
<1>5. CASE plan.cancel
  BY <1>1, <1>2, <1>4, <1>5 DEF Affect, Inv, TypeOK
<1>6. CASE ~plan.cancel
  BY <1>1, <1>4, <1>6 DEF Inv, TypeOK
<1> QED BY <1>5, <1>6

\* With proof that the provider has stopped an unconfirmed call is settled.
LEMMA ReconcileKeeps ==
    ASSUME Inv, NEW j \in Job, Reconcile(j)
    PROVE  Inv'
<1>0. /\ phase[j] = "DEAD" /\ reason[j] = "PROVIDER_UNCONFIRMED" /\ j \notin running
      /\ Finish(j, "DEAD", "SETTLED")
      /\ UNCHANGED <<now, enabled, failures, availableAt, expiresAt, attempts, dispatched, running, faults>>
  BY DEF Reconcile, callVars
<1>1. j \in active /\ CallsAgree(j)
  BY <1>0 DEF Inv, RecordsAgree
<1>2. /\ StoreFits' /\ \A i \in Job : RecordsAgree(i)'
      /\ active' \subseteq Job
      /\ slots' \subseteq [job : Job, token : Worker, until : Time]
      /\ phase' = [phase EXCEPT ![j] = "DEAD"] /\ phase'[j] = "DEAD"
      /\ phase' \in [Job -> {"ABSENT", "READY", "LEASED", "CALLING"} \union Terminal]
      /\ lease' = [lease EXCEPT ![j] = NoLease]
      /\ lease' \in [Job -> [token : Worker, until : Time] \union {NoLease}]
      /\ reason' \in [Job -> Reason]
      /\ reason'[j] = "SETTLED" /\ \A i \in Job \ {j} : reason'[i] = reason[i]
  BY <1>0, <1>1, FinishKeepsRecords DEF MayEnd
<1>3. /\ effect' \in [Job -> {"NONE", "APPLIED", "CANCELLED"}] /\ authority' \in [Job -> BOOLEAN]
      /\ \A i \in Job \ {j} : effect'[i] = effect[i] /\ authority'[i] = authority[i]
      /\ \/ effect' = effect /\ authority' = authority
         \/ effect'[j] = "CANCELLED" /\ ~authority'[j] /\ authority[j]
      /\ worker' \in [Worker -> WorkerState]
      /\ \A v \in Worker : /\ Overtaken(v)
                           /\ worker'[v].pinned /\ worker[v].job = j => authority' = authority
  BY ReconcileEffect
<1>4. \A i \in Job \ {j} : phase'[i] = phase[i]
  BY <1>2 DEF Inv, TypeOK
<1>5. TypeOK'
  BY <1>0, <1>2, <1>3 DEF Inv, TypeOK, WorkerState
<1>6. ASSUME NEW i \in Job PROVE CallsAgree(i)'
  <2>1. CallsAgree(i)
    BY DEF Inv
  <2>2. CASE i = j
    BY <1>0, <1>2, <1>3, <2>1, <2>2 DEF CallsAgree
  <2>3. CASE i # j
    BY <1>0, <1>2, <1>3, <1>4, <2>1, <2>3 DEF CallsAgree
  <2> QED BY <2>2, <2>3
<1>7. ASSUME NEW v \in Worker PROVE WorkerInv(v)'
  <2>1. JobIsUndisturbed(v)
    <3>1. lease'[j].token # v
      BY <1>2, NamesAssumption DEF NoLease, Inv, TypeOK
    <3>2. \A i \in Job \ {j} : lease'[i] = lease[i]
      BY <1>2 DEF Inv, TypeOK
    <3> QED
      BY <1>0, <1>4, <3>1, <3>2, UnderWay DEF JobIsUndisturbed
  <2>2. worker'[v].pinned /\ worker[v].pc # "idle" => authority'[worker[v].job] = authority[worker[v].job]
    BY <1>3, UnderWay
  <2> QED
    BY <1>3, <2>1, <2>2, OvertakenKept
<1> QED
  BY <1>2, <1>5, <1>6, <1>7 DEF Inv

LEMMA SwitchKeeps ==
    ASSUME Inv, Switch
    PROVE  Inv'
<1>0. /\ enabled' = ~enabled /\ faults' \in 0..MaxFaults
      /\ worker' = [v \in Worker |-> [worker[v] EXCEPT !.fresh = FALSE]]
      /\ UNCHANGED <<now, active, slots, jobVars, decisionVars, callVars>>
  BY BoundAssumption DEF Switch, Fault, Inv, TypeOK
<1>1. worker' \in [Worker -> WorkerState] /\ \A v \in Worker : Overtaken(v)
  BY <1>0, AllOvertaken DEF Inv
<1>2. TypeOK'
  BY <1>0, <1>1 DEF Inv, TypeOK, WorkerState, jobVars, decisionVars, callVars
<1>3. StoreFits'
  BY <1>0 DEF Inv, StoreFits
<1>4. ASSUME NEW i \in Job PROVE RecordsAgree(i)' /\ CallsAgree(i)'
  BY <1>0 DEF Inv, RecordsAgree, CallsAgree, jobVars, decisionVars, callVars
<1>5. ASSUME NEW v \in Worker PROVE WorkerInv(v)'
  <2>1. JobIsUndisturbed(v)
    BY <1>0 DEF JobIsUndisturbed, jobVars, callVars
  <2> QED
    BY <1>0, <1>1, <2>1, OvertakenKept DEF decisionVars
<1> QED
  BY <1>2, <1>3, <1>4, <1>5 DEF Inv

\* Time passes, or the provider ends a call nobody waits for.
LEMMA NobodyMovesKeeps ==
    ASSUME Inv, QuietStore, worker' = worker, faults' = faults, now' \in Time
    PROVE  Inv'
<1>1. TypeOK'
  BY DEF Inv, TypeOK, QuietStore, controlVars, jobVars, decisionVars
<1> QED
  BY <1>1, QuietStoreKept DEF Inv

LEMMA TickKeeps ==
    ASSUME Inv, Tick
    PROVE  Inv'
<1>1. now' \in Time
  BY BoundAssumption DEF Tick, Inv, TypeOK, Time
<1> QED
  BY <1>1, NobodyMovesKeeps DEF Tick, QuietStore, callVars

LEMMA ProviderEndsKeeps ==
    ASSUME Inv, NEW j \in Job, ProviderEnds(j)
    PROVE  Inv'
BY NobodyMovesKeeps DEF ProviderEnds, QuietStore, Inv, TypeOK

-----------------------------------------------------------------------------
(* The invariant *)

LEMMA InitHolds ==
    ASSUME Init
    PROVE  Inv
<1>1. TypeOK
  BY IdleTyped, BoundAssumption DEF Init, TypeOK, Time, WorkerState, Reason
<1>2. StoreFits
  BY FS_EmptySet, BoundAssumption DEF Init, StoreFits
<1>3. \A j \in Job : RecordsAgree(j) /\ CallsAgree(j)
  BY DEF Init, RecordsAgree, CallsAgree
<1>4. \A w \in Worker : WorkerInv(w)
  BY DEF Init, WorkerInv, Idle
<1> QED
  BY <1>1, <1>2, <1>3, <1>4 DEF Inv

LEMMA ProgressKeeps ==
    ASSUME Inv, NEW w \in Worker, Progress(w)
    PROVE  Inv'
<1>1. CASE ReloadInput(w) \/ ReloadBeforeDispatch(w) \/ ReloadResult(w)
  BY <1>1, ReloadKeeps DEF ReloadInput, ReloadBeforeDispatch, ReloadResult
<1>2. CASE Conflict(w)
  BY <1>2, RejectedKeeps DEF Conflict, Inv, TypeOK
<1> QED
  BY <1>1, <1>2, DispatchKeeps, RespondKeeps, CatchKeeps, AcknowledgedKeeps, AbortKeeps DEF Progress

LEMMA DisturbKeeps ==
    ASSUME Inv, Disturb
    PROVE  Inv'
<1>1. ASSUME NEW w \in Worker, Crash(w) \/ LoseAcknowledgement(w) \/ LoseRequest(w) PROVE Inv'
  BY <1>1, CrashKeeps, LoseAcknowledgementKeeps, LoseRequestKeeps
<1>2. ASSUME NEW w \in Worker, Collide(w) PROVE Inv'
  BY <1>2, RejectedKeeps, BoundAssumption DEF Collide, Fault, Inv, TypeOK
<1>3. ASSUME NEW j \in Job, Withdraw(j) PROVE Inv'
  BY <1>3, UnpinKeeps DEF Withdraw, Inv, TypeOK
<1>4. ASSUME NEW j \in Job, RotatePins(j) PROVE Inv'
  BY <1>4, UnpinKeeps, BoundAssumption DEF RotatePins, Fault, decisionVars, Inv, TypeOK
<1> QED
  BY <1>1, <1>2, <1>3, <1>4, SwitchKeeps DEF Disturb

LEMMA NextKeeps ==
    ASSUME Inv, [Next]_vars
    PROVE  Inv'
<1>1. CASE UNCHANGED vars
  BY <1>1, NobodyMovesKeeps
  DEF vars, QuietStore, callVars, Inv, TypeOK
<1>2. CASE Next
  BY <1>2, EnqueueKeeps, ReconcileKeeps, ProviderEndsKeeps, ProgressKeeps, TakeKeeps, DisturbKeeps,
     TickKeeps
  DEF Next
<1> QED BY <1>1, <1>2

\* Whatever is lost, crashes or runs late, the inductive invariant holds of every
\* state of the queue (durable-model-jobs.ts over dynamo-model-jobs.ts).
THEOREM InvariantHolds == Spec => []Inv
<1>1. Init => Inv
  BY InitHolds
<1>2. Inv /\ [Next]_vars => Inv'
  BY NextKeeps
<1> QED
  BY <1>1, <1>2, PTL DEF Spec

\* The store's records and the workers' variables keep their types: in
\* particular no job is put back more than MaxRetries times.
THEOREM TypeCorrect == Spec => []TypeOK
<1>1. Inv => TypeOK
  BY DEF Inv
<1> QED
  BY <1>1, InvariantHolds, PTL

\* For any numbers of jobs, workers and slots: an unfinished or unconfirmed job is
\* active and no other is, a lease goes with exactly its slot, and a call the
\* provider may still be serving holds a slot, so that finish() and the leases of
\* process() never let more than MaxSlots calls run at once.
THEOREM StoreConsistent == Spec => []StoreIsConsistent
<1>1. Inv => StoreIsConsistent
  BY DEF Inv, StoreFits, RecordsAgree, StoreIsConsistent
<1> QED
  BY <1>1, InvariantHolds, PTL

\* However often a delivery is repeated, process() charges a job at most once,
\* and sends no call that was not charged.
THEOREM PaidAtMostOnce == Spec => []AtMostOneCall
<1>1. Inv => AtMostOneCall
  BY DEF Inv, CallsAgree, AtMostOneCall
<1> QED
  BY <1>1, InvariantHolds, PTL

\* The decision has the job's result exactly when the job has succeeded, and a
\* cancellation belongs to a dead job: no lost acknowledgement parts the two.
THEOREM AppliedOnce == Spec => []ResultIsAppliedOnce
<1>1. Inv => ResultIsAppliedOnce
  BY DEF Inv, CallsAgree, ResultIsAppliedOnce
<1> QED
  BY <1>1, InvariantHolds, PTL

\* A step that changes what a job did to its decision.
LEMMA EffectSteps ==
    ASSUME Inv, Next, NEW j \in Job, effect'[j] # effect[j]
    PROVE  authority[j] /\ effect[j] = "NONE"
<1>1. ASSUME NEW w \in Worker, NEW next, WriteResult(w, next) PROVE authority[j] /\ effect[j] = "NONE"
  BY <1>1, ResultIsOwn DEF WriteResult, Affect, Inv, TypeOK
<1>2. ASSUME NEW w \in Worker, NEW next, WriteDisposition(w, next) PROVE authority[j] /\ effect[j] = "NONE"
  <2>1. /\ worker[w].plan.cancel => authority[worker[w].job] /\ effect[worker[w].job] = "NONE"
        /\ worker[w].job \in Job
    BY <1>2, ClosingIsSafe
  <2> QED
    BY <1>2, <2>1 DEF WriteDisposition, Affect, decisionVars, Inv, TypeOK
<1>3. ASSUME NEW i \in Job, Reconcile(i) PROVE authority[j] /\ effect[j] = "NONE"
  BY <1>3, ReconcileEffect DEF Inv, CallsAgree
<1>4. ASSUME NEW w \in Worker, Acknowledged(w) \/ LoseAcknowledgement(w)
      PROVE  authority[j] /\ effect[j] = "NONE"
  BY <1>1, <1>2, <1>4
  DEF Acknowledged, LoseAcknowledgement, WriteLease, WriteReservation, WriteRecheck, decisionVars
<1>5. ASSUME NEW w \in Worker, Progress(w) PROVE authority[j] /\ effect[j] = "NONE"
  BY <1>4, <1>5
  DEF Progress, ReloadInput, ReloadBeforeDispatch, ReloadResult, Reload, Dispatch, Respond, Catch,
      Conflict, Rejected, Abort, decisionVars
<1>6. CASE Disturb
  BY <1>4, <1>6
  DEF Disturb, Crash, LoseRequest, Collide, Rejected, Withdraw, RotatePins, Switch, decisionVars
<1> QED
  BY <1>3, <1>5, <1>6 DEF Next, Enqueue, WriteJob, ProviderEnds, Take, Tick, decisionVars

\* Neither a late result nor a late cancellation of a job touches a decision that
\* an owner, or the job itself, has changed since its reference was written: the
\* fence of process() and the reload of its failure handler see to it.
THEOREM EffectsAreAuthorised == Spec => EffectNeedsAuthority
<1>1. Inv /\ [Next]_vars =>
        [\A j \in Job : effect'[j] # effect[j] => authority[j] /\ effect[j] = "NONE"]_vars
  <2> SUFFICES ASSUME Inv, [Next]_vars, ~(UNCHANGED vars), NEW j \in Job, effect'[j] # effect[j]
               PROVE  authority[j] /\ effect[j] = "NONE"
    OBVIOUS
  <2> QED
    BY EffectSteps
<1> QED
  BY <1>1, InvariantHolds, PTL DEF Spec, EffectNeedsAuthority

\* The provider never serves more calls of jobs at once than there are slots.
RunningCallsAreBounded == Cardinality(running) <= MaxSlots

\* The bound on the slots that process() checks (durable-model-jobs.ts:167) holds of what the provider does, also of
\* the calls whose worker has crashed or whose lease has run out.
THEOREM CallsAreBounded == Spec => []RunningCallsAreBounded
<1>1. ASSUME Inv PROVE RunningCallsAreBounded
  <2> DEFINE slot == [j \in running |-> CHOOSE s \in slots : s.job = j]
  <2>1. \A j \in running : slot[j] \in slots /\ slot[j].job = j
    BY <1>1 DEF Inv, TypeOK, RecordsAgree
  <2>2. slot \in Injection(running, slots)
    BY <2>1 DEF Injection, IsInjective
  <2>3. IsFiniteSet(slots) /\ Cardinality(slots) <= MaxSlots
    BY <1>1 DEF Inv, StoreFits
  <2>4. /\ IsFiniteSet(running) /\ Cardinality(running) <= Cardinality(slots)
        /\ Cardinality(running) \in Nat /\ Cardinality(slots) \in Nat
    BY <2>2, <2>3, FS_Injection, FS_CardinalityType
  <2> QED
    BY <2>3, <2>4, BoundAssumption DEF RunningCallsAreBounded
<1> QED
  BY <1>1, InvariantHolds, PTL

(***************************************************************************)
(* The requests of a browser: what a tab is told of its paid request is    *)
(* true, for any numbers of requests, handlers, workers and slots, and     *)
(* whatever is lost on the way.                                            *)
(*                                                                         *)
(* The queue's own invariant (Inv) holds beside the requests too: closing  *)
(* an attempt before its call, and a handler that queues its own job, are  *)
(* two more writers of the same records.  RequestInv adds what ties a      *)
(* handler to its worker and a tab to the job.                             *)
(***************************************************************************)

Where == {"free", "sent", "enqueue", "opening", "process", "running", "look"}
Place == [at : Where, job : Request \union {"NONE"}]

RequestTypes ==
    /\ kind \in [Request -> Kind]
    /\ client \in [Request -> Client]
    /\ handler \in [Invocation -> Place]

\* A handler delivers only the job of its own post, and never cancels anything;
\* what it read before it queues the job still holds while nobody has committed.
HandlerInv(i) ==
    LET r == handler[i].job
    IN  /\ handler[i].at = "free" <=> r = "NONE"
        /\ worker[i].pc # "idle" =>
              handler[i].at = "running" /\ worker[i].job = r /\ ~worker[i].plan.cancel
        /\ handler[i].at = "opening" /\ worker[i].fresh =>
              phase[r] = "ABSENT" /\ Cardinality(active) < MaxActive

ScheduleInv == \A w \in Scheduled : worker[w].pc # "idle" => worker[w].job \notin Request

NoneWorksFor(r) == \A i \in Invocation : handler[i].job # r

\* What the tab knows, against the job.  A note is refused before anything is
\* queued, and its only post has ended then.
ClientInv(r) ==
    /\ client[r] = "SAVED" => phase[r] = "SUCCEEDED"
    /\ client[r] = "CLOSED" =>
          Settled(r) \/ (phase[r] = "ABSENT" /\ kind[r] = "OWNER" /\ NoneWorksFor(r))
    /\ client[r] = "NONE" => NoneWorksFor(r)

\* Nothing cancels a request's reasoning, and a note is posted once.
ServiceInv(r) ==
    /\ effect[r] # "CANCELLED"
    /\ kind[r] = "OWNER" =>
          \A i, k \in Invocation : handler[i].job = r /\ handler[k].job = r => i = k

RequestInv ==
    /\ Inv
    /\ RequestTypes
    /\ \A i \in Invocation : HandlerInv(i)
    /\ ScheduleInv
    /\ \A r \in Request : ClientInv(r) /\ ServiceInv(r)

-----------------------------------------------------------------------------
(* What a delivery does to the jobs and to the other workers *)

\* over, or never queued
Resting(j) == phase[j] \in {"ABSENT"} \union Terminal

\* the records of j that a tab, or the provider's bill, depends on
Untouched(j) ==
    /\ phase'[j] = phase[j] /\ reason'[j] = reason[j]
    /\ effect'[j] = effect[j] /\ dispatched'[j] = dispatched[j]

\* v's part is as before, and nothing was committed that it thinks it has read
Unaffected(v) ==
    /\ worker'[v].pc = worker[v].pc /\ worker'[v].job = worker[v].job
    /\ worker'[v].plan = worker[v].plan
    /\ worker'[v].fresh => worker[v].fresh /\ UNCHANGED <<phase, active>>

Delivers(w, j) ==
    /\ \A k \in Job : Resting(k) => Untouched(k)
    /\ \A k \in Job : effect'[k] = "CANCELLED" =>
          effect[k] = "CANCELLED" \/ (worker[w].pc # "idle" /\ k = j /\ worker[w].plan.cancel)
    /\ \A v \in Worker \ {w} : Unaffected(v)
    /\ worker'[w].pc # "idle" => worker'[w].job = j

\* A commit replaces the records of a job that is under way, and nobody else's.
LEMMA CommitDelivers ==
    ASSUME Inv, NEW w \in Worker, NEW next \in WorkerState,
           next.pc # "idle" => next.job = worker[w].job,
           \/ WriteLease(w, next) \/ WriteReservation(w, next) \/ WriteRecheck(w, next)
           \/ WriteResult(w, next) \/ WriteDisposition(w, next)
    PROVE  Delivers(w, worker[w].job)
<1> DEFINE j == worker[w].job
<1>1. worker[w].pc # "idle" /\ j \in Job
  BY UnderWay
  DEF WriteLease, WriteReservation, WriteRecheck, WriteResult, WriteDisposition
<1>2. \E moved \in BOOLEAN : Commit(w, next, j, moved)
  <2>1. worker[w].pc = "closing" => worker[w].plan.cancel \in BOOLEAN
    BY <1>1, UnderWay DEF WorkerState, Plan
  <2> QED
    BY <2>1 DEF WriteLease, WriteReservation, WriteRecheck, WriteResult, WriteDisposition
<1>3. /\ worker'[w].pc = next.pc /\ worker'[w].job = next.job
      /\ \A v \in Worker \ {w} : Overtaken(v)
  BY <1>1, <1>2, CommitShape DEF Inv
<1>4. /\ \A v \in Worker \ {w} : Unaffected(v)
      /\ worker'[w].pc # "idle" => worker'[w].job = j
  BY <1>3 DEF Overtaken, StaysPut, Unaffected
<1>5. ~Resting(j) \/ WriteRecheck(w, next)
  <2>1. CASE WriteLease(w, next)
    BY <2>1, UnderWay DEF WriteLease, ReadingHolds, Resting, Terminal
  <2>2. CASE WriteReservation(w, next)
    BY <2>2, UnderWay DEF WriteReservation, ReadingHolds, JobIsMine, Resting, Terminal
  <2>3. CASE WriteResult(w, next)
    BY <2>3, ResultIsOwn DEF Resting, Terminal
  <2>4. CASE WriteDisposition(w, next)
    BY <2>4, ClosingIsSafe DEF Resting, Terminal
  <2> QED BY <2>1, <2>2, <2>3, <2>4
<1>6. ASSUME NEW k \in Job, Resting(k) PROVE Untouched(k)
  <2>1. k # j \/ WriteRecheck(w, next)
    BY <1>5, <1>6
  <2> QED
    BY <1>1, <2>1
    DEF WriteLease, WriteReservation, WriteRecheck, WriteResult, WriteDisposition, Finish, Affect,
        decisionVars, callVars, jobVars, Untouched, Inv, TypeOK
<1>7. ASSUME NEW k \in Job, effect'[k] = "CANCELLED"
      PROVE  effect[k] = "CANCELLED" \/ (worker[w].pc # "idle" /\ k = j /\ worker[w].plan.cancel)
  BY <1>1, <1>7
  DEF WriteLease, WriteReservation, WriteRecheck, WriteResult, WriteDisposition, Affect,
      decisionVars, Inv, TypeOK
<1> QED
  BY <1>4, <1>6, <1>7 DEF Delivers

\* A step without a commit changes one worker; only a sent call is counted.
LEMMA SetDelivers ==
    ASSUME Inv, NEW w \in Worker, NEW next, NEW j, Set(w, next),
           next.pc # "idle" => next.job = j,
           UNCHANGED <<controlVars, jobVars, decisionVars>>,
           \A k \in Job : Resting(k) => dispatched'[k] = dispatched[k]
    PROVE  Delivers(w, j)
<1>1. worker'[w] = next /\ \A v \in Worker \ {w} : worker'[v] = worker[v]
  BY DEF Set, Inv, TypeOK
<1> QED
  BY <1>1 DEF Delivers, Untouched, Unaffected, controlVars, jobVars, decisionVars

LEMMA TakeDelivers ==
    ASSUME Inv, NEW w \in Worker, NEW j \in Job, Take(w, j)
    PROVE  Delivers(w, j)
BY SetDelivers DEF Take, callVars, Closing, Idle

LEMMA DispatchDelivers ==
    ASSUME Inv, NEW w \in Worker, Dispatch(w)
    PROVE  Delivers(w, worker[w].job)
<1>1. /\ worker[w].pc = "checked" /\ Owns(w) /\ Set(w, At(w, "calling"))
      /\ dispatched' = [dispatched EXCEPT ![worker[w].job] = @ + 1]
      /\ UNCHANGED <<controlVars, jobVars, decisionVars>>
  BY DEF Dispatch, Current, Owns
<1>2. phase[worker[w].job] = "CALLING" /\ worker[w].job \in Job
  BY <1>1, UnderWay DEF JobIsMine
<1>3. \A k \in Job : Resting(k) => dispatched'[k] = dispatched[k]
  BY <1>1, <1>2 DEF Resting, Terminal, Inv, TypeOK
<1>4. At(w, "calling").job = worker[w].job
  BY DEF At, Inv, TypeOK
<1> QED
  BY <1>1, <1>3, <1>4, SetDelivers

\* Any other step of a delivery: a look at the store, a failure, a commit that
\* was lost or refused, a killed worker.
LEMMA DeliveryDelivers ==
    ASSUME Inv, NEW w \in Worker,
           Progress(w) \/ Crash(w) \/ LoseAcknowledgement(w) \/ LoseRequest(w) \/ Collide(w)
    PROVE  worker[w].pc # "idle" /\ Delivers(w, worker[w].job)
<1> DEFINE j == worker[w].job
<1>0. /\ worker[w] \in WorkerState
      /\ Idle.pc = "idle"
      /\ \A why : Failed(w, why).job = j
      /\ \A label : At(w, label).job = j
      /\ \A plan : Closing(j, plan).job = j
      /\ [worker[w] EXCEPT !.pc = "responded", !.fresh = FALSE, !.tries = @ + 1].job = j
      /\ \A to : [worker[w] EXCEPT !.pc = to, !.fresh = TRUE, !.pinned = TRUE].job = j
  BY DEF Inv, TypeOK, WorkerState, Idle, Failed, At, Closing
<1>1. CASE Acknowledged(w) \/ LoseAcknowledgement(w)
  <2>1. worker[w].pc # "idle"
    BY <1>1
    DEF Acknowledged, LoseAcknowledgement, WriteLease, WriteReservation, WriteRecheck, WriteResult,
        WriteDisposition
  <2>2. /\ Idle \in WorkerState /\ Failed(w, "RETRYABLE") \in WorkerState
        /\ At(w, "leased") \in WorkerState /\ At(w, "reserved") \in WorkerState
        /\ At(w, "checked") \in WorkerState
    BY <2>1, NextLocals DEF Label
  <2> QED
    BY <1>0, <1>1, <2>1, <2>2, CommitDelivers DEF Acknowledged, LoseAcknowledgement
<1>2. CASE LoseRequest(w)
  BY <1>0, <1>2, SetDelivers DEF LoseRequest, Unguarded, Guarded, callVars
<1>3. CASE Crash(w)
  BY <1>0, <1>3, SetDelivers DEF Crash, callVars
<1>4. CASE Collide(w) \/ Conflict(w)
  <2>1. Rejected(w)
    BY <1>4 DEF Collide, Conflict
  <2> QED
    BY <1>0, <2>1, SetDelivers DEF Rejected, Unguarded, Guarded, callVars
<1>5. CASE ReloadInput(w) \/ ReloadBeforeDispatch(w) \/ ReloadResult(w)
  <2>1. \E from, to : Reload(w, from, to) /\ from # "idle"
    BY <1>5 DEF ReloadInput, ReloadBeforeDispatch, ReloadResult
  <2> QED
    BY <1>0, <2>1, SetDelivers DEF Reload, callVars
<1>6. CASE Dispatch(w)
  BY <1>6, DispatchDelivers DEF Dispatch
<1>7. CASE Respond(w)
  BY <1>0, <1>7, SetDelivers DEF Respond
<1>8. CASE Catch(w)
  BY <1>0, <1>8, SetDelivers DEF Catch, callVars
<1>9. CASE Abort(w)
  BY <1>0, <1>9, SetDelivers DEF Abort
<1> QED
  BY <1>1, <1>2, <1>3, <1>4, <1>5, <1>6, <1>7, <1>8, <1>9 DEF Progress

-----------------------------------------------------------------------------
(* What stays true of tabs and handlers while jobs move *)

\* For a request nothing of what tabs were told is taken back.
Progresses(r) ==
    /\ phase[r] = "SUCCEEDED" => phase'[r] = "SUCCEEDED"
    /\ Settled(r) => Settled(r)'
    /\ effect'[r] = "CANCELLED" => effect[r] = "CANCELLED"

\* An attempt without a job keeps none, unless it is settled or a handler is at it.
StaysUnqueued(r) == phase[r] = "ABSENT" => phase'[r] = "ABSENT" \/ Settled(r)' \/ ~NoneWorksFor(r)

\* Every handler is still about its request, or free.
HandlersKeep ==
    \A i \in Invocation : handler'[i].job = handler[i].job \/ handler'[i].job = "NONE"

LEMMA NoneStillWorks ==
    ASSUME HandlersKeep, NEW r \in Request
    PROVE  NoneWorksFor(r) => NoneWorksFor(r)'
<1>1. r # "NONE"
  BY NamesAssumption, RequestAssumption
<1> QED
  BY <1>1 DEF NoneWorksFor, HandlersKeep

LEMMA ClientKept ==
    ASSUME NEW r \in Request, ClientInv(r), Progresses(r), StaysUnqueued(r), HandlersKeep,
           client'[r] = client[r], kind' = kind
    PROVE  ClientInv(r)'
<1>1. NoneWorksFor(r) => NoneWorksFor(r)'
  BY NoneStillWorks
<1> QED
  BY <1>1 DEF ClientInv, Progresses, StaysUnqueued, NoneWorksFor

LEMMA ServiceKept ==
    ASSUME NEW r \in Request, ServiceInv(r), Progresses(r), HandlersKeep, kind' = kind
    PROVE  ServiceInv(r)'
<1>1. r # "NONE"
  BY NamesAssumption, RequestAssumption
<1> QED
  BY <1>1 DEF ServiceInv, Progresses, HandlersKeep

\* A handler nobody disturbs.
LEMMA HandlerKept ==
    ASSUME NEW i \in Invocation, HandlerInv(i), handler'[i] = handler[i], Unaffected(i)
    PROVE  HandlerInv(i)'
BY DEF HandlerInv, Unaffected

\* A step of a delivery takes nothing back; the worker of a handler cancels nothing.
LEMMA DeliveryProgresses ==
    ASSUME NEW w \in Worker, NEW j, Delivers(w, j), NEW r \in Request,
           worker[w].pc # "idle" /\ r = j => ~worker[w].plan.cancel
    PROVE  Progresses(r) /\ StaysUnqueued(r)
<1>1. r \in Job
  BY RequestAssumption
<1>2. Resting(r) => Untouched(r)
  BY <1>1 DEF Delivers
<1>3. effect'[r] = "CANCELLED" => effect[r] = "CANCELLED"
  BY <1>1 DEF Delivers
<1> QED
  BY <1>2, <1>3 DEF Progresses, StaysUnqueued, Resting, Untouched, Settled, Terminal

LEMMA RequestTypesKept ==
    ASSUME RequestTypes, UNCHANGED requestVars
    PROVE  RequestTypes'
BY DEF RequestTypes, requestVars

-----------------------------------------------------------------------------
(* The queue the requests share *)

\* Negotiations that are queued or reconciled, operators, owners and the clock.
LEMMA OthersProgress ==
    ASSUME Inv,
           \/ \E j \in Job \ Request : Enqueue(j) \/ Reconcile(j)
           \/ \E j \in Job : ProviderEnds(j) \/ Withdraw(j) \/ RotatePins(j)
           \/ Switch \/ Tick
    PROVE  /\ \A r \in Request : Progresses(r) /\ StaysUnqueued(r)
           /\ \A v \in Worker : Unaffected(v)
<1> DEFINE Progressing == /\ \A r \in Request : Progresses(r) /\ StaysUnqueued(r)
                         /\ \A v \in Worker : Unaffected(v)
<1>0. \A v \in Worker : Overtaken(v) => Unaffected(v)
  BY DEF Overtaken, StaysPut, Unaffected
<1>1. Request \subseteq Job
  BY RequestAssumption
<1>2. ASSUME NEW j \in Job \ Request, Enqueue(j) PROVE Progressing
  <2>1. \A v \in Worker : Overtaken(v)
    BY <1>2, AllOvertaken DEF Enqueue, Inv
  <2>2. \A r \in Request : phase'[r] = phase[r] /\ reason' = reason /\ effect' = effect
    BY <1>1, <1>2 DEF Enqueue, WriteJob, decisionVars, Inv, TypeOK
  <2> QED
    BY <1>0, <2>1, <2>2 DEF Progresses, StaysUnqueued, Settled
<1>3. ASSUME NEW j \in Job \ Request, Reconcile(j) PROVE Progressing
  <2>1. \A v \in Worker : Overtaken(v)
    BY <1>3, ReconcileEffect
  <2>2. \A r \in Request : effect'[r] = effect[r]
    BY <1>1, <1>3, ReconcileEffect
  <2>3. \A r \in Request : phase'[r] = phase[r] /\ reason'[r] = reason[r]
    BY <1>1, <1>3 DEF Reconcile, Finish, Inv, TypeOK
  <2> QED
    BY <1>0, <2>1, <2>2, <2>3 DEF Progresses, StaysUnqueued, Settled
<1>4. ASSUME NEW j \in Job, Withdraw(j) \/ RotatePins(j) PROVE Progressing
  <2>1. /\ Unpin(j) /\ UNCHANGED <<phase, reason, effect, active>>
    BY <1>4 DEF Withdraw, RotatePins, controlVars, jobVars, decisionVars
  <2> QED
    BY <2>1, UnpinShape DEF Progresses, StaysUnqueued, Settled, Unaffected, StaysPut, Inv
<1>5. CASE Switch
  <2>1. \A v \in Worker : Overtaken(v)
    BY <1>5, AllOvertaken DEF Switch, Inv
  <2> QED
    BY <1>0, <1>5, <2>1 DEF Switch, jobVars, decisionVars, Progresses, StaysUnqueued, Settled
<1>6. CASE (\E j \in Job : ProviderEnds(j)) \/ Tick
  BY <1>6
  DEF ProviderEnds, Tick, controlVars, jobVars, decisionVars, Progresses, StaysUnqueued, Settled,
      Unaffected
<1> QED
  BY <1>2, <1>3, <1>4, <1>5, <1>6

LEMMA QueueStepKeeps ==
    ASSUME RequestInv, QueueStep, UNCHANGED requestVars
    PROVE  RequestInv'
<1>1. Inv'
  BY NextKeeps DEF RequestInv, QueueStep, Next, Disturb, Scheduled
<1>2. HandlersKeep
  BY DEF HandlersKeep, requestVars
<1>3. /\ \A r \in Request : Progresses(r) /\ StaysUnqueued(r)
      /\ \A i \in Invocation : Unaffected(i)
      /\ ScheduleInv'
  <2>1. ASSUME NEW w \in Scheduled, NEW j, Delivers(w, j), j \notin Request
        PROVE  <1>3!1 /\ <1>3!2 /\ <1>3!3
    <3>1. \A v \in Worker \ {w} : Unaffected(v)
      BY <2>1 DEF Delivers
    <3>2. \A i \in Invocation : i \in Worker \ {w}
      BY <2>1, RequestAssumption DEF Scheduled
    <3>3. worker'[w].pc # "idle" => worker'[w].job \notin Request
      BY <2>1 DEF Delivers
    <3>4. ScheduleInv'
      BY <3>1, <3>3 DEF ScheduleInv, Scheduled, Unaffected, RequestInv
    <3>5. \A r \in Request : Progresses(r) /\ StaysUnqueued(r)
      BY <2>1, DeliveryProgresses DEF Scheduled
    <3> QED
      BY <3>1, <3>2, <3>4, <3>5
  <2>2. ASSUME NEW w \in Scheduled,
               Progress(w) \/ Crash(w) \/ LoseAcknowledgement(w) \/ LoseRequest(w) \/ Collide(w)
        PROVE  <1>3!1 /\ <1>3!2 /\ <1>3!3
    <3>1. worker[w].pc # "idle" /\ Delivers(w, worker[w].job)
      BY <2>2, DeliveryDelivers DEF Scheduled, RequestInv
    <3>2. worker[w].job \notin Request
      BY <3>1 DEF RequestInv, ScheduleInv
    <3> QED
      BY <2>1, <3>1, <3>2
  <2>3. ASSUME NEW w \in Scheduled, NEW j \in Job \ Request, Take(w, j)
        PROVE  <1>3!1 /\ <1>3!2 /\ <1>3!3
    BY <2>1, <2>3, TakeDelivers DEF Scheduled, RequestInv
  <2>4. ASSUME \/ \E j \in Job \ Request : Enqueue(j) \/ Reconcile(j)
               \/ \E j \in Job : ProviderEnds(j) \/ Withdraw(j) \/ RotatePins(j)
               \/ Switch \/ Tick
        PROVE  <1>3!1 /\ <1>3!2 /\ <1>3!3
    <3>1. /\ \A r \in Request : Progresses(r) /\ StaysUnqueued(r)
          /\ \A v \in Worker : Unaffected(v)
      BY <2>4, OthersProgress DEF RequestInv
    <3> QED
      BY <3>1, RequestAssumption DEF ScheduleInv, Scheduled, Unaffected, RequestInv
  <2> QED
    BY <2>2, <2>3, <2>4 DEF QueueStep
<1> QED
  BY <1>1, <1>2, <1>3, RequestTypesKept, ClientKept, ServiceKept, HandlerKept
  DEF RequestInv, requestVars

-----------------------------------------------------------------------------
(* The tab *)

\* r's tab learns from the answer, and no other tab learns anything
Said(r, answer) ==
    /\ client' \in [Request -> Client]
    /\ \A s \in Request \ {r} : client'[s] = client[s]
    /\ client'[r] # "NONE"
    /\ client'[r] = "SAVED" => answer = "SAVED"
    /\ client'[r] = "CLOSED" => answer \in {"FAILED", "REFUSED"}

LEMMA TellSays ==
    ASSUME RequestTypes, NEW r \in Request, NEW answer,
           TellDraft(r, answer) \/ TellNote(r, answer) \/ TellChat(r, answer)
    PROVE  Said(r, answer)
<1>1. ASSUME NEW next \in Client, Learn(r, next)
      PROVE  /\ client' \in [Request -> Client]
             /\ client'[r] = next
             /\ \A s \in Request \ {r} : client'[s] = client[s]
  BY <1>1 DEF Learn, RequestTypes
<1>2. CASE TellDraft(r, answer)
  BY <1>1, <1>2 DEF TellDraft, Said, Client
<1>3. CASE TellNote(r, answer)
  BY <1>1, <1>3 DEF TellNote, Said, Client
<1>4. CASE TellChat(r, answer)
  BY <1>1, <1>4 DEF TellChat, Said, Client
<1> QED
  BY <1>2, <1>3, <1>4

\* The server says SAVED and FAILED only of jobs that have ended so.
LEMMA AnswersAreTrue ==
    ASSUME NEW r,
           NEW answer \in DraftAnswers(r) \union NoteAnswers(r) \union ChatAnswers(r)
    PROVE  /\ answer = "SAVED" => phase[r] = "SUCCEEDED"
           /\ answer = "FAILED" => Settled(r)
           /\ answer # "REFUSED"
BY DEF DraftAnswers, NoteAnswers, ChatAnswers, Unfinished

LEMMA ToldKept ==
    ASSUME RequestInv, NEW r \in Request, NEW answer, Said(r, answer),
           answer = "SAVED" => phase'[r] = "SUCCEEDED",
           answer = "FAILED" => Settled(r)',
           answer = "REFUSED" => phase'[r] = "ABSENT" /\ kind[r] = "OWNER" /\ NoneWorksFor(r)',
           kind' = kind, HandlersKeep, \A s \in Request : Progresses(s) /\ StaysUnqueued(s)
    PROVE  \A s \in Request : ClientInv(s)' /\ ServiceInv(s)'
<1>1. ClientInv(r)'
  BY DEF Said, ClientInv
<1>2. ASSUME NEW s \in Request \ {r} PROVE ClientInv(s)'
  BY ClientKept DEF Said, RequestInv
<1> QED
  BY <1>1, <1>2, ServiceKept DEF RequestInv

\* Reading changes nothing.
LEMMA ReadingKeeps ==
    ASSUME RequestInv, UNCHANGED vars
    PROVE  /\ Inv' /\ ScheduleInv'
           /\ \A s \in Request : Progresses(s) /\ StaysUnqueued(s)
           /\ \A v \in Worker : Unaffected(v)
<1>1. Inv'
  BY NextKeeps DEF RequestInv
<1> QED
  BY <1>1
  DEF vars, controlVars, jobVars, decisionVars, ScheduleInv, Progresses, StaysUnqueued, Settled,
      Unaffected, RequestInv

LEMMA PostKeeps ==
    ASSUME RequestInv, NEW r \in Request, NEW from, Post(r, from),
           from = "NONE" \/ (from = "KEEPS" /\ kind[r] # "OWNER")
    PROVE  RequestInv'
<1>1. PICK i \in Invocation :
        handler[i] = Free /\ handler' = [handler EXCEPT ![i] = [at |-> "sent", job |-> r]]
  BY DEF Post
<1>2. client[r] = from /\ client' = [client EXCEPT ![r] = "ASKING"] /\ UNCHANGED <<vars, kind>>
  BY DEF Post
<1>3. /\ Inv' /\ ScheduleInv'
      /\ \A s \in Request : Progresses(s) /\ StaysUnqueued(s)
      /\ \A v \in Worker : Unaffected(v)
  BY <1>2, ReadingKeeps
<1>4. /\ RequestTypes'
      /\ handler'[i] = [at |-> "sent", job |-> r]
      /\ \A k \in Invocation \ {i} : handler'[k] = handler[k]
      /\ client'[r] = "ASKING" /\ \A s \in Request \ {r} : client'[s] = client[s]
  BY <1>1, <1>2 DEF RequestInv, RequestTypes, Place, Where, Client
<1>5. r # "NONE" /\ handler[i].job = "NONE" /\ i \in Worker
  BY <1>1, NamesAssumption, RequestAssumption DEF Free
<1>6. HandlerInv(i)'
  <2>1. worker[i].pc = "idle"
    BY <1>1 DEF HandlerInv, Free, RequestInv
  <2> QED
    BY <1>3, <1>4, <1>5, <2>1 DEF HandlerInv, Unaffected
<1>7. \A k \in Invocation \ {i} : HandlerInv(k)'
  BY <1>3, <1>4, HandlerKept, RequestAssumption DEF RequestInv
<1>8. ClientInv(r)' /\ ServiceInv(r)'
  <2>1. ClientInv(r) /\ ServiceInv(r) /\ Progresses(r)
    BY <1>3 DEF RequestInv
  <2>2. kind[r] = "OWNER" => \A k \in Invocation \ {i} : handler'[k].job # r
    BY <1>2, <1>4, <2>1 DEF ClientInv, NoneWorksFor
  <2> QED
    BY <1>2, <1>4, <2>1, <2>2 DEF ClientInv, ServiceInv, Progresses
<1>9. ASSUME NEW s \in Request \ {r} PROVE ClientInv(s)' /\ ServiceInv(s)'
  <2>1. ClientInv(s) /\ ServiceInv(s) /\ Progresses(s) /\ StaysUnqueued(s)
    BY <1>3 DEF RequestInv
  <2>2. \A k \in Invocation : handler'[k].job = s => handler[k].job = s
    BY <1>4
  <2> QED
    BY <1>2, <1>4, <2>1, <2>2
    DEF ClientInv, ServiceInv, Progresses, StaysUnqueued, NoneWorksFor
<1> QED
  BY <1>3, <1>4, <1>6, <1>7, <1>8, <1>9 DEF RequestInv

LEMMA StopWaitingKeeps ==
    ASSUME RequestInv, NEW r \in Request, StopWaiting(r)
    PROVE  RequestInv'
<1>1. Said(r, "UNKNOWN") /\ UNCHANGED <<vars, kind, handler>>
  BY DEF StopWaiting, Said, Client, RequestInv, RequestTypes
<1>2. RequestTypes' /\ HandlersKeep
  BY <1>1 DEF Said, HandlersKeep, RequestInv, RequestTypes
<1> QED
  BY <1>1, <1>2, ReadingKeeps, ToldKept, HandlerKept, RequestAssumption DEF RequestInv

LEMMA CheckKeeps ==
    ASSUME RequestInv, NEW r \in Request, CheckDraft(r) \/ CheckNote(r) \/ CheckChat(r)
    PROVE  RequestInv'
<1>1. UNCHANGED <<vars, kind, handler>>
  BY DEF CheckDraft, CheckNote, CheckChat
<1>2. PICK answer \in DraftAnswers(r) \union NoteAnswers(r) \union ChatAnswers(r) :
        TellDraft(r, answer) \/ TellNote(r, answer) \/ TellChat(r, answer)
  BY DEF CheckDraft, CheckNote, CheckChat
<1>3. Said(r, answer)
  BY <1>2, TellSays DEF RequestInv
<1>4. /\ answer = "SAVED" => phase'[r] = "SUCCEEDED"
      /\ answer = "FAILED" => Settled(r)'
      /\ answer # "REFUSED"
  BY <1>1, AnswersAreTrue DEF Settled, vars, jobVars
<1>5. RequestTypes' /\ HandlersKeep
  BY <1>1, <1>3 DEF Said, HandlersKeep, RequestInv, RequestTypes
<1> QED
  BY <1>1, <1>3, <1>4, <1>5, ReadingKeeps, ToldKept, HandlerKept, RequestAssumption DEF RequestInv

-----------------------------------------------------------------------------
(* Closing an attempt before its call *)

\* A job nobody was charged for may be ended by somebody who is no worker: a
\* delivery that has leased it finds its lease gone.
LEMMA EndBeforeCallKeeps ==
    ASSUME Inv, NEW r \in Request, EndBeforeCall(r), faults' \in 0..MaxFaults
    PROVE  /\ Inv'
           /\ phase'[r] = "DEAD" /\ reason'[r] = "SETTLED"
           /\ \A s \in Request : Progresses(s) /\ StaysUnqueued(s)
           /\ \A v \in Worker : Unaffected(v)
<1>0. /\ PreCall(r) /\ Finish(r, "DEAD", "SETTLED")
      /\ worker' = [w \in Worker |-> [worker[w] EXCEPT !.fresh = FALSE]]
      /\ UNCHANGED <<now, enabled, failures, availableAt, expiresAt, attempts, authority, effect,
                     dispatched, running>>
  BY DEF EndBeforeCall, decisionVars, callVars
<1>1. /\ r \in Job /\ RecordsAgree(r) /\ CallsAgree(r)
      /\ phase[r] \in {"ABSENT", "READY", "LEASED"} /\ r \notin running
  BY <1>0, RequestAssumption DEF Inv, RecordsAgree, CallsAgree, PreCall
<1>2. /\ StoreFits' /\ \A i \in Job : RecordsAgree(i)'
      /\ active' \subseteq Job
      /\ slots' \subseteq [job : Job, token : Worker, until : Time]
      /\ phase' = [phase EXCEPT ![r] = "DEAD"] /\ phase'[r] = "DEAD"
      /\ phase' \in [Job -> {"ABSENT", "READY", "LEASED", "CALLING"} \union Terminal]
      /\ lease' = [lease EXCEPT ![r] = NoLease]
      /\ lease' \in [Job -> [token : Worker, until : Time] \union {NoLease}]
      /\ reason' \in [Job -> Reason]
      /\ reason'[r] = "SETTLED" /\ \A i \in Job \ {r} : reason'[i] = reason[i]
  BY <1>0, <1>1, FinishKeepsRecords DEF MayEnd
<1>3. \A i \in Job \ {r} : phase'[i] = phase[i]
  BY <1>2 DEF Inv, TypeOK
<1>4. worker' \in [Worker -> WorkerState] /\ \A v \in Worker : Overtaken(v)
  BY <1>0, AllOvertaken DEF Inv
<1>5. TypeOK'
  BY <1>0, <1>2, <1>4 DEF Inv, TypeOK, WorkerState
<1>6. ASSUME NEW i \in Job PROVE CallsAgree(i)'
  <2>1. CallsAgree(i)
    BY DEF Inv
  <2>2. CASE i = r
    BY <1>0, <1>1, <1>2, <2>1, <2>2 DEF CallsAgree
  <2>3. CASE i # r
    BY <1>0, <1>2, <1>3, <2>1, <2>3 DEF CallsAgree
  <2> QED BY <2>2, <2>3
<1>7. ASSUME NEW v \in Worker PROVE WorkerInv(v)'
  <2>1. JobIsUndisturbed(v)
    <3>1. lease'[r].token # v
      BY <1>1, <1>2, NamesAssumption DEF NoLease, Inv, TypeOK
    <3>2. \A i \in Job \ {r} : lease'[i] = lease[i]
      BY <1>2 DEF Inv, TypeOK
    <3> QED
      BY <1>0, <1>3, <3>1, <3>2, UnderWay DEF JobIsUndisturbed
  <2> QED
    BY <1>0, <1>4, <2>1, OvertakenKept
<1>8. \A s \in Request : Progresses(s) /\ StaysUnqueued(s)
  <2>1. r \in Job /\ Request \subseteq Job
    BY <1>1, RequestAssumption
  <2>2. ~Settled(r) /\ phase[r] # "SUCCEEDED"
    BY <1>1 DEF Settled
  <2> QED
    BY <1>0, <1>2, <1>3, <2>1, <2>2 DEF Progresses, StaysUnqueued, Settled
<1>9. \A v \in Worker : Unaffected(v)
  BY <1>4 DEF Overtaken, StaysPut, Unaffected
<1> QED
  BY <1>2, <1>5, <1>6, <1>7, <1>8, <1>9 DEF Inv

LEMMA CloseKeeps ==
    ASSUME RequestInv, NEW r \in Request, ReleaseDraft(r) \/ CloseNote(r)
    PROVE  RequestInv'
<1>1. EndBeforeCall(r) /\ UNCHANGED <<kind, handler>> /\ faults' \in 0..MaxFaults
  BY BoundAssumption
  DEF ReleaseDraft, CloseNote, EndBeforeCall, Fault, RequestInv, Inv, TypeOK
<1>2. /\ Inv'
      /\ phase'[r] = "DEAD" /\ reason'[r] = "SETTLED"
      /\ \A s \in Request : Progresses(s) /\ StaysUnqueued(s)
      /\ \A v \in Worker : Unaffected(v)
  BY <1>1, EndBeforeCallKeeps DEF RequestInv
<1>3. HandlersKeep /\ Settled(r)'
  BY <1>1, <1>2 DEF HandlersKeep, Settled
<1>4. client' \in [Request -> Client] /\ \A s \in Request : ClientInv(s)' /\ ServiceInv(s)'
  <2>1. CASE TellDraft(r, "FAILED") \/ TellNote(r, "FAILED")
    <3>1. Said(r, "FAILED")
      BY <2>1, TellSays DEF RequestInv
    <3>2. \A s \in Request : ClientInv(s)' /\ ServiceInv(s)'
      BY <1>1, <1>2, <1>3, <3>1, ToldKept
    <3> QED
      BY <3>1, <3>2 DEF Said
  <2>2. CASE UNCHANGED client
    BY <1>1, <1>2, <1>3, <2>2, ClientKept, ServiceKept DEF RequestInv, RequestTypes
  <2> QED
    BY <2>1, <2>2 DEF ReleaseDraft, CloseNote
<1>5. RequestTypes'
  BY <1>1, <1>4 DEF RequestInv, RequestTypes
<1>6. ScheduleInv'
  BY <1>2 DEF ScheduleInv, Scheduled, Unaffected, RequestInv
<1> QED
  BY <1>1, <1>2, <1>4, <1>5, <1>6, HandlerKept, RequestAssumption DEF RequestInv

LEMMA TabStepKeeps ==
    ASSUME RequestInv, NEW r \in Request, TabStep(r)
    PROVE  RequestInv'
<1>1. CASE AskDraft(r) \/ AskNote(r) \/ AskChat(r)
  <2>1. \E from : Post(r, from) /\ (from = "NONE" \/ (from = "KEEPS" /\ kind[r] # "OWNER"))
    BY <1>1 DEF AskDraft, AskNote, AskChat
  <2> QED
    BY <2>1, PostKeeps
<1> QED
  BY <1>1, CheckKeeps, CloseKeeps, StopWaitingKeeps DEF TabStep

-----------------------------------------------------------------------------
(* The handler, before and after it delivers the job *)

LEMMA GoesShape ==
    ASSUME RequestTypes, NEW i \in Invocation, NEW to \in Where, Goes(i, to)
    PROVE  /\ handler' \in [Invocation -> Place]
           /\ handler'[i].at = to /\ handler'[i].job = handler[i].job
           /\ \A k \in Invocation \ {i} : handler'[k] = handler[k]
           /\ HandlersKeep
BY DEF RequestTypes, Place, Goes, HandlersKeep

LEMMA LeaveShape ==
    ASSUME RequestTypes, NEW i \in Invocation, handler' = [handler EXCEPT ![i] = Free]
    PROVE  /\ handler' \in [Invocation -> Place]
           /\ handler'[i] = Free
           /\ \A k \in Invocation \ {i} : handler'[k] = handler[k]
           /\ HandlersKeep
BY DEF RequestTypes, Place, Where, Free, HandlersKeep

\* A step that takes nothing back and leaves every tab as it was: what is left to
\* show is about the handler that takes it.
LEMMA HandlerStepKeeps ==
    ASSUME RequestInv, Inv', NEW i \in Invocation,
           handler' \in [Invocation -> Place], HandlersKeep,
           \A k \in Invocation \ {i} : handler'[k] = handler[k],
           \A v \in Worker \ {i} : Unaffected(v),
           \A s \in Request : Progresses(s) /\ StaysUnqueued(s),
           HandlerInv(i)', kind' = kind, client' = client
    PROVE  RequestInv'
<1>1. RequestTypes'
  BY DEF RequestInv, RequestTypes
<1>2. ScheduleInv'
  BY RequestAssumption DEF ScheduleInv, Scheduled, Unaffected, RequestInv
<1>3. \A k \in Invocation \ {i} : HandlerInv(k)'
  BY HandlerKept, RequestAssumption DEF RequestInv
<1>4. \A s \in Request : ClientInv(s)' /\ ServiceInv(s)'
  BY ClientKept, ServiceKept DEF RequestInv
<1> QED
  BY <1>1, <1>2, <1>3, <1>4 DEF RequestInv

\* The handler goes on without touching the queue.
LEMMA GoesKeeps ==
    ASSUME RequestInv, NEW i \in Invocation, NEW to \in {"enqueue", "process", "look"},
           handler[i].at \notin {"free", "running"}, Goes(i, to), UNCHANGED <<vars, kind, client>>
    PROVE  RequestInv'
<1>1. /\ handler' \in [Invocation -> Place]
      /\ handler'[i].at = to /\ handler'[i].job = handler[i].job
      /\ \A k \in Invocation \ {i} : handler'[k] = handler[k]
      /\ HandlersKeep
  BY GoesShape DEF Where, RequestInv
<1>2. HandlerInv(i)'
  BY <1>1 DEF HandlerInv, RequestInv, vars
<1> QED
  BY <1>1, <1>2, ReadingKeeps, HandlerStepKeeps

\* The handler ends with an answer, which the tab hears or not.
LEMMA LeaveKeeps ==
    ASSUME RequestInv, NEW i \in Invocation, NEW answer, NEW r, r = handler[i].job,
           handler[i].at \notin {"free", "running"},
           handler' = [handler EXCEPT ![i] = Free], UNCHANGED <<vars, kind>>,
           \/ TellDraft(r, answer) \/ TellNote(r, answer) \/ TellChat(r, answer)
           \/ UNCHANGED client,
           answer = "SAVED" => phase[r] = "SUCCEEDED",
           answer = "FAILED" => Settled(r),
           answer = "REFUSED" => phase[r] = "ABSENT" /\ kind[r] = "OWNER"
    PROVE  RequestInv'
<1>1. /\ handler' \in [Invocation -> Place]
      /\ handler'[i] = Free
      /\ \A k \in Invocation \ {i} : handler'[k] = handler[k]
      /\ HandlersKeep
  BY LeaveShape DEF RequestInv
<1>2. r \in Request /\ r # "NONE"
  BY NamesAssumption, RequestAssumption DEF RequestInv, RequestTypes, HandlerInv, Place
<1>3. HandlerInv(i)'
  BY <1>1 DEF HandlerInv, Free, RequestInv, vars
<1>4. CASE UNCHANGED client
  BY <1>1, <1>3, <1>4, ReadingKeeps, HandlerStepKeeps
<1>5. CASE TellDraft(r, answer) \/ TellNote(r, answer) \/ TellChat(r, answer)
  <2>1. Said(r, answer)
    BY <1>2, <1>5, TellSays DEF RequestInv
  <2>2. /\ answer = "SAVED" => phase'[r] = "SUCCEEDED"
        /\ answer = "FAILED" => Settled(r)'
        /\ answer = "REFUSED" => phase'[r] = "ABSENT" /\ kind[r] = "OWNER"
    BY DEF Settled, vars, jobVars
  <2>3. kind[r] = "OWNER" => NoneWorksFor(r)'
    BY <1>1, <1>2 DEF NoneWorksFor, ServiceInv, Free, RequestInv
  <2>4. /\ Inv' /\ ScheduleInv'
        /\ \A s \in Request : Progresses(s) /\ StaysUnqueued(s)
        /\ \A v \in Worker : Unaffected(v)
    BY ReadingKeeps
  <2>5. \A s \in Request : ClientInv(s)' /\ ServiceInv(s)'
    BY <1>1, <1>2, <2>1, <2>2, <2>3, <2>4, ToldKept
  <2>6. RequestTypes'
    BY <1>1, <2>1 DEF Said, RequestInv, RequestTypes
  <2>7. \A k \in Invocation \ {i} : HandlerInv(k)'
    BY <1>1, <2>4, HandlerKept, RequestAssumption DEF RequestInv
  <2> QED
    BY <1>3, <2>4, <2>5, <2>6, <2>7 DEF RequestInv
<1> QED
  BY <1>4, <1>5

\* The first and the last look.
LEMMA LooksKeep ==
    ASSUME RequestInv, NEW i \in Invocation,
           \/ StartDraft(i) \/ StartNote(i) \/ StartChat(i)
           \/ LookDraft(i) \/ LookNote(i) \/ LookChat(i)
    PROVE  RequestInv'
<1> DEFINE r == handler[i].job
<1>1. /\ handler[i].at \in {"sent", "look"} /\ UNCHANGED <<vars, kind>>
  BY DEF StartDraft, StartNote, StartChat, LookDraft, LookNote, LookChat
<1>2. ASSUME NEW to \in {"enqueue", "process", "look"}, Goes(i, to), UNCHANGED <<client, offer>>
      PROVE  RequestInv'
  BY <1>1, <1>2, GoesKeeps
<1>3. ASSUME NEW answer,
             \/ Leave(i, TellDraft(r, answer)) \/ Leave(i, TellNote(r, answer))
             \/ Leave(i, TellChat(r, answer)),
             \/ answer \in DraftAnswers(r) \union NoteAnswers(r) \union ChatAnswers(r)
             \/ answer \in {"SAVED"} /\ phase[r] = "SUCCEEDED"
             \/ answer \in {"UNKNOWN", "CONFLICT"}
             \/ answer = "REFUSED" /\ phase[r] = "ABSENT" /\ kind[r] = "OWNER"
      PROVE  RequestInv'
  <2>1. /\ handler' = [handler EXCEPT ![i] = Free]
        /\ \/ TellDraft(r, answer) \/ TellNote(r, answer) \/ TellChat(r, answer)
           \/ UNCHANGED client
    BY <1>3 DEF Leave
  <2>2. /\ answer = "SAVED" => phase[r] = "SUCCEEDED"
        /\ answer = "FAILED" => Settled(r)
        /\ answer = "REFUSED" => phase[r] = "ABSENT" /\ kind[r] = "OWNER"
    BY <1>3, AnswersAreTrue
  <2> QED
    BY <1>1, <2>1, <2>2, LeaveKeeps
<1>4. CASE StartDraft(i)
  BY <1>2, <1>3, <1>4 DEF StartDraft
<1>5. CASE StartNote(i)
  BY <1>2, <1>3, <1>5 DEF StartNote, HandlerOf
<1>6. CASE StartChat(i)
  BY <1>2, <1>3, <1>6 DEF StartChat
<1>7. CASE LookDraft(i)
  BY <1>3, <1>7 DEF LookDraft
<1>8. CASE LookNote(i)
  BY <1>3, <1>8 DEF LookNote
<1>9. CASE LookChat(i)
  BY <1>3, <1>9 DEF LookChat
<1> QED
  BY <1>4, <1>5, <1>6, <1>7, <1>8, <1>9

-----------------------------------------------------------------------------
(* The handler at the queue *)

\* An idle worker that holds nothing knows nothing wrong.
LEMMA OpenKeeps ==
    ASSUME RequestInv, NEW i \in Invocation, Open(i)
    PROVE  RequestInv'
<1> DEFINE r == handler[i].job
           next == [Idle EXCEPT !.job = r, !.fresh = TRUE, !.until = now + Life]
<1>1. /\ i \in Worker /\ r \in Request /\ r \in Job /\ handler[i].at = "enqueue"
      /\ worker[i].pc = "idle"
  BY NamesAssumption, RequestAssumption
  DEF Open, RequestInv, RequestTypes, HandlerInv, Place
<1>2. CASE MayEnqueue(r) /\ now + Life <= MaxTime
  <2>1. /\ Set(i, next) /\ Goes(i, "opening")
        /\ UNCHANGED <<now, controlVars, jobVars, decisionVars, callVars, faults, kind, client>>
    BY <1>2 DEF Open
  <2>2. next \in WorkerState
    <3>1. now + Life \in Time
      BY <1>2, BoundAssumption DEF Time, RequestInv, Inv, TypeOK
    <3> QED
      BY <1>1, <3>1, IdleTyped DEF WorkerState, Idle
  <2>3. /\ worker'[i] = next
        /\ \A v \in Worker \ {i} : worker'[v] = worker[v]
    BY <1>1, <2>1, <2>2, SetShape DEF RequestInv, Inv
  <2>4. worker'[i].pc = "idle" /\ ~worker'[i].pinned
    BY <2>3 DEF Idle
  <2>5. WorkerInv(i)'
    BY <2>4 DEF WorkerInv, ReadingHolds
  <2>6. QuietStore /\ faults' \in 0..MaxFaults
    BY <2>1 DEF QuietStore, callVars, RequestInv, Inv, TypeOK
  <2> HIDE DEF next
  <2>7. Inv'
    BY <1>1, <2>1, <2>2, <2>5, <2>6, SetKeeps DEF RequestInv
  <2>8. /\ handler' \in [Invocation -> Place]
        /\ handler'[i].at = "opening" /\ handler'[i].job = r
        /\ \A k \in Invocation \ {i} : handler'[k] = handler[k]
        /\ HandlersKeep
    BY <2>1, GoesShape DEF Where, RequestInv
  <2>9. HandlerInv(i)'
    <3>1. r # "NONE"
      BY <1>1, NamesAssumption
    <3> QED
      BY <1>2, <2>1, <2>4, <2>8, <3>1 DEF HandlerInv, MayEnqueue, controlVars, jobVars
  <2>10. /\ \A s \in Request : Progresses(s) /\ StaysUnqueued(s)
         /\ \A v \in Worker \ {i} : Unaffected(v)
    BY <2>1, <2>3
    DEF Progresses, StaysUnqueued, Settled, Unaffected, controlVars, jobVars, decisionVars
  <2> QED
    BY <2>1, <2>7, <2>8, <2>9, <2>10, HandlerStepKeeps
<1>3. CASE ~(MayEnqueue(r) /\ now + Life <= MaxTime)
  <2>1. /\ UNCHANGED <<vars, kind, client>>
        /\ Goes(i, IF phase[r] = "ABSENT" THEN "look" ELSE "process")
    BY <1>3 DEF Open, vars
  <2> QED
    BY <1>1, <2>1, GoesKeeps
<1> QED
  BY <1>2, <1>3

\* The job of a request is queued by its own handler, and only where there was none.
LEMMA QueueKeeps ==
    ASSUME RequestInv, NEW i \in Invocation, Queue(i)
    PROVE  RequestInv'
<1> DEFINE r == handler[i].job
           end == worker[i].until
<1>0. /\ handler[i].at = "opening" /\ worker[i].fresh
      /\ WriteJob(r, end) /\ Commit(i, Idle, r, FALSE)
      /\ UNCHANGED <<kind, client>>
      /\ faults' \in 0..MaxFaults
      /\ Goes(i, "process") \/ Goes(i, "look")
  <2>1. faults \in 0..MaxFaults
    BY DEF RequestInv, Inv, TypeOK
  <2>2. faults' \in 0..MaxFaults
    BY <2>1, BoundAssumption DEF Queue, Fault
  <2> QED
    BY <2>2 DEF Queue
<1>1. /\ i \in Worker /\ r \in Request /\ r \in Job /\ r # "NONE"
      /\ phase[r] = "ABSENT" /\ Cardinality(active) < MaxActive
  BY <1>0, NamesAssumption, RequestAssumption DEF RequestInv, RequestTypes, HandlerInv, Place
<1>2. end \in Time
  BY <1>1 DEF RequestInv, Inv, TypeOK
<1>3. /\ worker' \in [Worker -> WorkerState]
      /\ worker'[i].pc = "idle" /\ ~worker'[i].fresh /\ ~worker'[i].pinned
      /\ \A v \in Worker \ {i} : Overtaken(v)
  <2>1. Idle.pc = "idle" /\ Idle.pinned = FALSE
    BY DEF Idle
  <2> QED
    BY <1>0, <1>1, <2>1, IdleTyped, CommitShape DEF RequestInv, Inv
<1>4. Inv'
  <2>1. \A v \in Worker : LearnsNothing(v)
    BY <1>3 DEF LearnsNothing
  <2>2. Inv
    BY DEF RequestInv
  <2> HIDE DEF r, end
  <2> QED
    BY <1>0, <1>1, <1>2, <1>3, <2>1, <2>2, WriteJobKeeps
<1>5. /\ handler' \in [Invocation -> Place]
      /\ handler'[i].at \in {"process", "look"} /\ handler'[i].job = r
      /\ \A k \in Invocation \ {i} : handler'[k] = handler[k]
      /\ HandlersKeep
  BY <1>0, GoesShape DEF Where, RequestInv
<1>6. HandlerInv(i)'
  BY <1>1, <1>3, <1>5 DEF HandlerInv
<1>7. \A v \in Worker \ {i} : Unaffected(v)
  BY <1>3 DEF Overtaken, StaysPut, Unaffected
<1>8. \A s \in Request : Progresses(s) /\ StaysUnqueued(s)
  <2>1. /\ \A s \in Request \ {r} : phase'[s] = phase[s]
        /\ reason' = reason /\ effect' = effect
    BY <1>0, <1>1, RequestAssumption DEF WriteJob, decisionVars, RequestInv, Inv, TypeOK
  <2>2. ~NoneWorksFor(r)
    BY DEF NoneWorksFor
  <2> QED
    BY <1>1, <2>1, <2>2 DEF Progresses, StaysUnqueued, Settled
<1> QED
  BY <1>0, <1>4, <1>5, <1>6, <1>7, <1>8, HandlerStepKeeps

\* The handler gives up what it had read, or is killed.
LEMMA ForgetsKeeps ==
    ASSUME RequestInv, NEW i \in Invocation, QueueConflict(i) \/ Die(i)
    PROVE  RequestInv'
<1>1. /\ i \in Worker /\ Set(i, Idle) /\ faults' \in 0..MaxFaults
      /\ UNCHANGED <<now, controlVars, jobVars, decisionVars, callVars, kind, client>>
  BY BoundAssumption, RequestAssumption
  DEF QueueConflict, Die, Fault, RequestInv, Inv, TypeOK
<1>2. Inv'
  BY <1>1, GiveUpKeeps DEF QuietStore, callVars, RequestInv
<1>3. worker'[i].pc = "idle" /\ \A v \in Worker \ {i} : worker'[v] = worker[v]
  BY <1>1, IdleTyped, SetShape DEF Idle, RequestInv, Inv
<1>4. /\ handler' \in [Invocation -> Place] /\ HandlersKeep
      /\ \A k \in Invocation \ {i} : handler'[k] = handler[k]
      /\ HandlerInv(i)'
  <2>1. CASE QueueConflict(i)
    <3>1. handler[i].at = "opening" /\ Goes(i, "look")
      BY <2>1 DEF QueueConflict
    <3> QED
      BY <1>3, <3>1, GoesShape DEF Where, HandlerInv, RequestInv
  <2>2. CASE Die(i)
    BY <1>3, <2>2, LeaveShape DEF Die, Free, HandlerInv, RequestInv
  <2> QED BY <2>1, <2>2
<1>5. /\ \A s \in Request : Progresses(s) /\ StaysUnqueued(s)
      /\ \A v \in Worker \ {i} : Unaffected(v)
  BY <1>1, <1>3
  DEF Progresses, StaysUnqueued, Settled, Unaffected, controlVars, jobVars, decisionVars
<1> QED
  BY <1>1, <1>2, <1>4, <1>5, HandlerStepKeeps

\* The handler takes its job, and delivers it like any worker.
LEMMA ProcessKeeps ==
    ASSUME RequestInv, NEW i \in Invocation, Process(i)
    PROVE  RequestInv'
<1> DEFINE r == handler[i].job
<1>1. /\ i \in Worker /\ r \in Request /\ r \in Job /\ r # "NONE"
      /\ handler[i].at = "process" /\ worker[i].pc = "idle" /\ UNCHANGED <<kind, client>>
  BY NamesAssumption, RequestAssumption
  DEF Process, RequestInv, RequestTypes, HandlerInv, Place
<1>2. CASE Skips(r)
  BY <1>1, <1>2, GoesKeeps DEF Process
<1>3. CASE ~Skips(r)
  <2>1. Take(i, r) /\ Goes(i, "running") /\ ~worker'[i].plan.cancel
    BY <1>3 DEF Process
  <2>2. Inv' /\ Delivers(i, r)
    BY <1>1, <2>1, TakeKeeps, TakeDelivers DEF RequestInv
  <2>3. /\ \A v \in Worker \ {i} : Unaffected(v)
        /\ worker'[i].pc # "idle" => worker'[i].job = r
        /\ \A s \in Request : Progresses(s) /\ StaysUnqueued(s)
    BY <1>1, <2>2, DeliveryProgresses DEF Delivers
  <2>4. /\ handler' \in [Invocation -> Place]
        /\ handler'[i].at = "running" /\ handler'[i].job = r
        /\ \A k \in Invocation \ {i} : handler'[k] = handler[k]
        /\ HandlersKeep
    BY <2>1, GoesShape DEF Where, RequestInv
  <2>5. HandlerInv(i)'
    BY <1>1, <2>1, <2>3, <2>4 DEF HandlerInv
  <2> QED
    BY <1>1, <2>2, <2>3, <2>4, <2>5, HandlerStepKeeps
<1> QED
  BY <1>2, <1>3

LEMMA RunningKeeps ==
    ASSUME RequestInv, NEW i \in Invocation, Running(i)
    PROVE  RequestInv'
<1> DEFINE r == handler[i].job
           to == IF worker'[i] = Idle THEN "look" ELSE "running"
<1>1. /\ i \in Worker /\ r # "NONE" /\ handler[i].at = "running" /\ UNCHANGED <<kind, client>>
      /\ Progress(i) \/ LoseAcknowledgement(i) \/ LoseRequest(i) \/ Collide(i)
      /\ ~worker'[i].plan.cancel /\ Goes(i, to)
  BY RequestAssumption DEF Running, RequestInv, HandlerInv
<1>2. worker[i].pc # "idle" /\ Delivers(i, worker[i].job)
  BY <1>1, DeliveryDelivers DEF RequestInv
<1>3. worker[i].job = r /\ ~worker[i].plan.cancel
  BY <1>2 DEF RequestInv, HandlerInv
<1>4. Inv'
  BY <1>1, ProgressKeeps, LoseAcknowledgementKeeps, LoseRequestKeeps, DisturbKeeps
  DEF Disturb, RequestInv
<1>5. /\ \A v \in Worker \ {i} : Unaffected(v)
      /\ worker'[i].pc # "idle" => worker'[i].job = r
      /\ \A s \in Request : Progresses(s) /\ StaysUnqueued(s)
  BY <1>1, <1>2, <1>3, DeliveryProgresses DEF Delivers
<1>6. worker'[i].pc # "idle" => to = "running"
  BY DEF Idle
<1>7. /\ handler' \in [Invocation -> Place]
      /\ handler'[i].at = to /\ handler'[i].job = r
      /\ \A k \in Invocation \ {i} : handler'[k] = handler[k]
      /\ HandlersKeep
  <2>1. to \in Where
    BY DEF Where
  <2> QED
    BY <1>1, <2>1, GoesShape DEF RequestInv
<1>8. HandlerInv(i)'
  BY <1>1, <1>5, <1>6, <1>7 DEF HandlerInv
<1> QED
  BY <1>1, <1>4, <1>5, <1>7, <1>8, HandlerStepKeeps

LEMMA HandlerKeeps ==
    ASSUME RequestInv, NEW i \in Invocation, HandlerStep(i)
    PROVE  RequestInv'
BY LooksKeep, OpenKeeps, QueueKeeps, ForgetsKeeps, ProcessKeeps, RunningKeeps
DEF HandlerStep, RunDraft, RunNote, RunChat

-----------------------------------------------------------------------------
(* The invariant *)

LEMMA RequestInitHolds ==
    ASSUME RequestInit
    PROVE  RequestInv
<1>1. Inv
  BY InitHolds DEF RequestInit
<1>2. RequestTypes
  BY DEF RequestInit, RequestTypes, Client, Free, Place, Where
<1>3. \A w \in Worker : worker[w].pc = "idle" /\ ~worker[w].fresh
  BY DEF RequestInit, Init, Idle
<1>4. \A i \in Invocation : handler[i].at = "free" /\ handler[i].job = "NONE"
  BY DEF RequestInit, Free
<1>5. \A r \in Request : r \in Job /\ r # "NONE"
  BY NamesAssumption, RequestAssumption
<1>6. \A i \in Invocation : HandlerInv(i)
  BY <1>3, <1>4, RequestAssumption DEF HandlerInv
<1>7. ScheduleInv
  BY <1>3 DEF ScheduleInv, Scheduled
<1>8. ASSUME NEW r \in Request PROVE ClientInv(r) /\ ServiceInv(r)
  <2>1. client[r] = "NONE" /\ effect[r] = "NONE"
    BY <1>5 DEF RequestInit, Init
  <2> QED
    BY <1>4, <1>5, <2>1 DEF ClientInv, ServiceInv, NoneWorksFor
<1> QED
  BY <1>1, <1>2, <1>6, <1>7, <1>8 DEF RequestInv

LEMMA RequestNextKeeps ==
    ASSUME RequestInv, [RequestNext]_allVars
    PROVE  RequestInv'
<1>1. CASE RequestNext
  BY <1>1, TabStepKeeps, HandlerKeeps, QueueStepKeeps DEF RequestNext
<1>2. CASE UNCHANGED allVars
  <2>1. UNCHANGED <<vars, client, kind, handler>> /\ HandlersKeep
    BY <1>2 DEF allVars, requestVars, HandlersKeep
  <2> QED
    BY <1>2, <2>1, ReadingKeeps, RequestTypesKept, ClientKept, ServiceKept, HandlerKept,
       RequestAssumption
    DEF RequestInv, allVars
<1> QED BY <1>1, <1>2

\* The inductive invariant holds of every state of the requests and the queue they
\* share with the scheduled negotiations (partition-draft-runtime.ts,
\* partition-owner-runtime.ts and partition-chat-runtime.ts over
\* durable-model-jobs.ts).
THEOREM RequestInvariantHolds == RequestSpec => []RequestInv
<1>1. RequestInit => RequestInv
  BY RequestInitHolds
<1>2. RequestInv /\ [RequestNext]_allVars => RequestInv'
  BY RequestNextKeeps
<1> QED
  BY <1>1, <1>2, PTL DEF RequestSpec

\* A tab is told SAVED only of a result that was applied, and CLOSED only of a
\* request that is over, without a call and without a result: by any of the
\* answers of the post, of a status check or of a closing, whichever are lost.
THEOREM TabsAreToldTheTruth == RequestSpec => []OutcomesAreTrue
<1>1. ASSUME RequestInv, NEW r \in Request
      PROVE  /\ client[r] = "SAVED" => effect[r] = "APPLIED"
             /\ client[r] = "CLOSED" =>
                   effect[r] = "NONE" /\ r \notin running /\ (Settled(r) \/ phase[r] = "ABSENT")
  <2>1. /\ ClientInv(r) /\ ServiceInv(r) /\ CallsAgree(r) /\ RecordsAgree(r)
        /\ effect[r] \in {"NONE", "APPLIED", "CANCELLED"}
    BY <1>1, RequestAssumption DEF RequestInv, Inv, TypeOK
  <2>2. Settled(r) \/ phase[r] = "ABSENT" => r \notin running
    BY <2>1 DEF CallsAgree, RecordsAgree, Settled
  <2> QED
    BY <2>1, <2>2 DEF ClientInv, ServiceInv, CallsAgree, Settled
<1>2. RequestInv => OutcomesAreTrue
  BY <1>1 DEF OutcomesAreTrue
<1> QED
  BY <1>2, RequestInvariantHolds, PTL

\* The queue is as safe with the requests as with its own deliveries alone: also
\* with the handlers' jobs and the attempts that tabs close, the records agree, a
\* job is charged once and its result is applied once.
THEOREM SharedQueueIsSafe ==
    RequestSpec => [](StoreIsConsistent /\ AtMostOneCall /\ ResultIsAppliedOnce)
<1>1. RequestInv => StoreIsConsistent
  BY DEF RequestInv, Inv, StoreFits, RecordsAgree, StoreIsConsistent
<1>2. RequestInv => AtMostOneCall /\ ResultIsAppliedOnce
  BY DEF RequestInv, Inv, CallsAgree, AtMostOneCall, ResultIsAppliedOnce
<1> QED
  BY <1>1, <1>2, RequestInvariantHolds, PTL

-----------------------------------------------------------------------------
(* A closed attempt *)

\* the provider's bill and the decision, for r
Unmoved(r) == dispatched'[r] = dispatched[r] /\ effect'[r] = effect[r]

LEMMA ClosedRests ==
    ASSUME RequestInv, NEW r \in Request, client[r] = "CLOSED"
    PROVE  Resting(r) /\ r \in Job
BY RequestAssumption DEF RequestInv, ClientInv, Settled, Resting, Terminal

LEMMA QueueLeavesClosed ==
    ASSUME RequestInv, NEW r \in Request, client[r] = "CLOSED", QueueStep
    PROVE  Unmoved(r)
<1>1. Resting(r) /\ r \in Job /\ Inv
  BY ClosedRests DEF RequestInv
<1>2. ASSUME NEW w, NEW j, Delivers(w, j) PROVE Unmoved(r)
  BY <1>1, <1>2 DEF Delivers, Untouched, Unmoved
<1>3. ASSUME NEW w \in Scheduled,
             Progress(w) \/ Crash(w) \/ LoseAcknowledgement(w) \/ LoseRequest(w) \/ Collide(w)
      PROVE  Unmoved(r)
  BY <1>1, <1>2, <1>3, DeliveryDelivers DEF Scheduled
<1>4. ASSUME NEW w \in Scheduled, NEW j \in Job, Take(w, j) PROVE Unmoved(r)
  BY <1>1, <1>2, <1>4, TakeDelivers DEF Scheduled
<1>5. ASSUME NEW j \in Job \ Request, Reconcile(j) PROVE Unmoved(r)
  BY <1>1, <1>5, ReconcileEffect DEF Reconcile, callVars, Unmoved
<1> QED
  BY <1>3, <1>4, <1>5
  DEF QueueStep, Enqueue, WriteJob, ProviderEnds, Withdraw, RotatePins, Switch, Tick, decisionVars,
      callVars, Unmoved

LEMMA TabsLeaveClosed ==
    ASSUME RequestInv, NEW r \in Request, client[r] = "CLOSED", NEW s \in Request, TabStep(s)
    PROVE  client'[r] = "CLOSED" /\ Unmoved(r)
<1>1. client[s] # "CLOSED"
  BY DEF TabStep, AskDraft, AskNote, AskChat, Post, CheckDraft, CheckNote, CheckChat,
     ReleaseDraft, CloseNote, EndBeforeCall, StopWaiting
<1>2. Unmoved(r)
  BY DEF TabStep, AskDraft, AskNote, AskChat, Post, CheckDraft, CheckNote, CheckChat,
     ReleaseDraft, CloseNote, EndBeforeCall, StopWaiting, vars, decisionVars, callVars, Unmoved
<1>3. \/ \E answer : TellDraft(s, answer) \/ TellNote(s, answer) \/ TellChat(s, answer)
      \/ client' = [client EXCEPT ![s] = "ASKING"]
      \/ client' = [client EXCEPT ![s] = "KEEPS"]
      \/ client' = client
  BY DEF TabStep, AskDraft, AskNote, AskChat, Post, CheckDraft, CheckNote, CheckChat,
     ReleaseDraft, CloseNote, StopWaiting
<1>4. client'[r] = client[r]
  <2>1. \A answer : TellDraft(s, answer) \/ TellNote(s, answer) \/ TellChat(s, answer)
                       => Said(s, answer)
    BY TellSays DEF RequestInv
  <2> QED
    BY <1>1, <1>3, <2>1 DEF Said, RequestInv, RequestTypes
<1> QED
  BY <1>2, <1>4

LEMMA HandlersLeaveClosed ==
    ASSUME RequestInv, NEW r \in Request, client[r] = "CLOSED", NEW i \in Invocation, HandlerStep(i)
    PROVE  client'[r] = "CLOSED" /\ Unmoved(r)
<1>1. Resting(r) /\ r \in Job /\ Inv
  BY ClosedRests DEF RequestInv
<1>2. ASSUME NEW j, Delivers(i, j) PROVE Unmoved(r)
  BY <1>1, <1>2 DEF Delivers, Untouched, Unmoved
<1>3. ASSUME NEW answer,
             \/ Leave(i, TellDraft(handler[i].job, answer)) \/ Leave(i, TellNote(handler[i].job, answer))
             \/ Leave(i, TellChat(handler[i].job, answer))
      PROVE  client'[r] = "CLOSED"
  <2>1. CASE client[handler[i].job] # "ASKING"
    BY <1>3, <2>1 DEF Leave
  <2>2. CASE client[handler[i].job] = "ASKING"
    <3> DEFINE s == handler[i].job
    <3>1. Learn(s, "SAVED") \/ Learn(s, "CLOSED") \/ Learn(s, "KEEPS") \/ Learn(s, "FREED")
      BY <1>3, <2>2 DEF Leave, TellDraft, TellNote, TellChat
    <3>2. s # r
      BY <2>2
    <3> HIDE DEF s
    <3>3. client'[r] = client[r]
      BY <3>1, <3>2 DEF Learn, RequestInv, RequestTypes
    <3> QED
      BY <3>3
  <2> QED BY <2>1, <2>2
<1>4. CASE StartDraft(i) \/ StartNote(i) \/ StartChat(i) \/ LookDraft(i) \/ LookNote(i) \/ LookChat(i)
  <2>1. client'[r] = "CLOSED"
    BY <1>3, <1>4 DEF StartDraft, StartNote, StartChat, LookDraft, LookNote, LookChat
  <2>2. Unmoved(r)
    BY <1>4 DEF StartDraft, StartNote, StartChat, LookDraft, LookNote, LookChat, vars, decisionVars,
       callVars, Unmoved
  <2> QED BY <2>1, <2>2
<1>5. CASE Open(i) \/ Queue(i) \/ QueueConflict(i) \/ Die(i)
  BY <1>5 DEF Open, Queue, WriteJob, QueueConflict, Die, decisionVars, callVars, Unmoved
<1>6. CASE Process(i)
  <2>1. client'[r] = "CLOSED"
    BY <1>6 DEF Process
  <2>2. CASE Skips(handler[i].job)
    BY <1>6, <2>1, <2>2 DEF Process, vars, decisionVars, callVars, Unmoved
  <2>3. CASE ~Skips(handler[i].job)
    <3>1. handler[i].job \in Job /\ i \in Worker /\ Take(i, handler[i].job)
      BY <1>6, <2>3, RequestAssumption DEF Process, RequestInv, RequestTypes, HandlerInv, Place
    <3> QED
      BY <1>1, <1>2, <2>1, <3>1, TakeDelivers
  <2> QED BY <2>2, <2>3
<1>7. CASE Running(i)
  <2>1. i \in Worker /\ client'[r] = "CLOSED"
    BY <1>7, RequestAssumption DEF Running
  <2> QED
    BY <1>1, <1>2, <1>7, <2>1, DeliveryDelivers DEF Running
<1> QED
  BY <1>4, <1>5, <1>6, <1>7 DEF HandlerStep, RunDraft, RunNote, RunChat

\* A request whose tab was told CLOSED is never sent and never applied afterwards,
\* also when its post arrives late or is still in its handler's hands: the
\* reference that a closed attempt leaves (partition-draft-recovery.ts) and the
\* lease that the closing takes away see to it.
THEOREM ClosedMeansClosed == RequestSpec => ClosedAttemptsStayClosed
<1>1. RequestInv /\ [RequestNext]_allVars =>
        [\A r \in Request : client[r] = "CLOSED" =>
            /\ client'[r] = "CLOSED"
            /\ dispatched'[r] = dispatched[r] /\ effect'[r] = effect[r]]_allVars
  <2> SUFFICES ASSUME RequestInv, RequestNext, NEW r \in Request, client[r] = "CLOSED"
               PROVE  client'[r] = "CLOSED" /\ Unmoved(r)
    BY DEF Unmoved
  <2> QED
    BY QueueLeavesClosed, TabsLeaveClosed, HandlersLeaveClosed DEF RequestNext, requestVars
<1> QED
  BY <1>1, RequestInvariantHolds, PTL DEF RequestSpec, ClosedAttemptsStayClosed

=============================================================================
