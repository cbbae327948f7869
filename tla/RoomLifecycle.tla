---------------------------- MODULE RoomLifecycle ----------------------------
(***************************************************************************)
(* A legacy room: three members settle a meeting and two duties            *)
(* (packages/application/src/index.ts, class DealTableApplication).        *)
(*                                                                         *)
(* The whole room is one record and every transaction one action: it       *)
(* sweeps what has expired, checks, and writes the room back.  A refused   *)
(* command leaves the sweep alone (Refuse).  The solver is the exception:  *)
(* it reads the room in one transaction, runs unlocked, and answers in a   *)
(* second one, while people and other workers go on.                       *)
(*                                                                         *)
(* Abstractions.  A command names the version of the room it was made for  *)
(* and is refused on any other, so it carries no identifiers of its own;   *)
(* the revision, the control version and the replay receipts are left out, *)
(* and with the context token, which moves with the revision, goes the     *)
(* rest of a permission's scope that cannot change within a context.       *)
(* Times are what is left until an expiry.  A handler that reads the clock *)
(* twice is taken at its last reading; where the difference shows          *)
(* (FinishSolve) it is modelled.  The review of intervals a member sends   *)
(* with the confirmation is part of the values.  A seat somebody unknown   *)
(* takes is an empty one: memberships are never added, nobody can act in   *)
(* it, and its owner comes back to a fresh record.                         *)
(***************************************************************************)
EXTENDS PlanSolver

CONSTANTS
    Member,         \* the three members a room is created with
    Invited,        \* those among them who must redeem an invitation first
    DraftValues,    \* [member -> the values that member may draft]
    Schedules,      \* the schedules the organizer may set
    Policies,
    PriorLoad,      \* [member -> duty load of the past]
    Worker,         \* solver runs that may be in flight
    PermissionTtl, ProposalTtl, InvitationTtl,
    GrantLimit,     \* MAX_PERMISSION_GRANTS_PER_OWNER
    HistoryLimit,   \* MAX_PERMISSION_HISTORY_RECORDS
    PublishLimit,   \* MAX_PUBLISHED_DISCLOSURES_PER_ROOM
    ReceiptLimit,   \* MAX_AGREEMENT_RECEIPTS_PER_ROOM
    MaxContext,     \* bound: contexts a room goes through
    MaxDrafts,      \* bound: drafts under way at a time
    None

\* the values a member may have, and the plans there are for a room
Values == UNION {DraftValues[m] : m \in Member}
Plans == UNION {StructuralPlans(schedule) : schedule \in Schedules}

Proposal == [version : Nat, context : Nat, policy : Policies, plan : Plans, left : Nat]

\* contracts Interval: a full positive one
IsInterval(i) == i \in [from : Int, to : Int] /\ i.from < i.to

ASSUME RoomAssumption ==
    /\ IsFiniteSet(Member)
    /\ Invited \subseteq Member
    /\ \A v \in Values :
          /\ IsFiniteSet(v.asks) /\ IsFiniteSet(v.avail) /\ IsFiniteSet(v.review)
          /\ \A i \in v.avail \cup v.review \cup {c.at : c \in v.asks} : IsInterval(i)
    /\ \A schedule \in Schedules :
          /\ \A s \in schedule.slots : IsInterval(s)
          /\ \A d \in DOMAIN schedule.duties : IsInterval(schedule.duties[d].at)
    /\ None \notin Proposal
    /\ {PermissionTtl, ProposalTtl, InvitationTtl} \subseteq Nat \ {0}
    /\ {GrantLimit, HistoryLimit, PublishLimit, ReceiptLimit, MaxContext, MaxDrafts}
         \subseteq Nat

VARIABLES
    room,           \* the RoomRecord
    run             \* [worker -> the solver run in flight, or None]

vars == <<room, run>>

(***************************************************************************)
(* What a room is made of.                                                 *)
(***************************************************************************)

FreshOwner ==
    [accepted |-> 0, confirmed |-> None, draft |-> None, offers |-> {}, previews |-> {},
     exceptions |-> {}, disclosures |-> {}, approval |-> 0]

CreatedRooms ==
    [schedule : Schedules, policy : Policies, present : {Member},
     membership : {[m \in Member |-> IF m \in Invited THEN "PENDING" ELSE "ACTIVE"]},
     invitation : {[m \in Member |-> None]},
     context : {1}, status : {"COLLECTING"}, owner : {[m \in Member |-> FreshOwner]},
     retired : {0}, proposal : {None}, proposalVersion : {0}, required : {{}},
     published : {{}}, receipts : {0}, roundUsed : {FALSE}, solveEpoch : {0}, job : {None}]

IsMember(r, m) == m \in r.present /\ r.membership[m] = "ACTIVE"

Ready(r) ==
    /\ r.present = Member
    /\ \A m \in Member :
          /\ r.owner[m].accepted = r.context
          /\ r.owner[m].confirmed # None
          /\ r.owner[m].confirmed.context = r.context

Offers(r) == UNION {r.owner[m].offers : m \in Member}

(***************************************************************************)
(* Helpers the handlers are made of: each takes a room to a room.          *)
(***************************************************************************)

EveryOwner(r, Change(_)) == [r EXCEPT !.owner = [m \in Member |-> Change(r.owner[m])]]

WithoutOffers(r) == EveryOwner(r, LAMBDA o : [o EXCEPT !.offers = {}])

ClearProposal(r, status) ==
    [EveryOwner(r, LAMBDA o : [o EXCEPT !.approval = 0])
        EXCEPT !.proposal = None, !.required = {}, !.status = status]

Ended(grants, ending, status) ==
    {IF g.status = "ACTIVE" /\ g \in ending THEN [g EXCEPT !.status = status, !.left = 0] ELSE g :
        g \in grants}

\* Faulty variant: a new context leaves the job of the old one queued.
FaultyInvalidate(r) ==
    [EveryOwner(ClearProposal(r, "SUPERSEDED"),
        LAMBDA o : [o EXCEPT !.accepted = 0, !.offers = {}, !.previews = {},
                             !.exceptions = Ended(@, @, "SUPERSEDED"),
                             !.disclosures = Ended(@, @, "SUPERSEDED")])
        EXCEPT !.context = @ + 1, !.roundUsed = FALSE]

Invalidate(r) ==
    [EveryOwner(ClearProposal(r, "SUPERSEDED"),
        LAMBDA o : [o EXCEPT !.accepted = 0, !.offers = {}, !.previews = {},
                             !.exceptions = Ended(@, @, "SUPERSEDED"),
                             !.disclosures = Ended(@, @, "SUPERSEDED")])
        EXCEPT !.context = @ + 1, !.roundUsed = FALSE, !.solveEpoch = @ + 1, !.job = None]

CollectingStatus(r) == [r EXCEPT !.status = IF Ready(r) THEN "READY" ELSE "COLLECTING"]

Queue(r) ==
    [ClearProposal(r, "SOLVING") EXCEPT
        !.solveEpoch = @ + 1,
        !.job = [epoch |-> r.solveEpoch + 1, context |-> r.context, completed |-> FALSE]]

\* No permission asked for, and none given, holds the room any longer.
StopSolving(r, status) ==
    WithoutOffers([ClearProposal(r, status) EXCEPT !.solveEpoch = @ + 1, !.job = None])

(***************************************************************************)
(* sweep(): what has expired goes, and takes with it what rested on it.    *)
(***************************************************************************)

Lapsed(x) == x.left = 0

FeasibilityLapsed(r) ==
    \E m \in Member :
        \/ \E o \in r.owner[m].offers : Lapsed(o)
        \/ \E g \in r.owner[m].exceptions : g.status = "ACTIVE" /\ Lapsed(g)

WithoutLapsed(r) ==
    EveryOwner(r, LAMBDA o :
        [o EXCEPT !.offers = {x \in @ : ~Lapsed(x)}, !.previews = {x \in @ : ~Lapsed(x)},
                  !.exceptions = Ended(@, {g \in @ : Lapsed(g)}, "EXPIRED"),
                  !.disclosures = Ended(@, {g \in @ : Lapsed(g)}, "EXPIRED")])

SweepOpen(r) ==
    LET kept == IF r.proposal # None /\ Lapsed(r.proposal)
                THEN ClearProposal(WithoutLapsed(r), "SUPERSEDED") ELSE WithoutLapsed(r)
    IN  IF FeasibilityLapsed(r)
        THEN StopSolving(kept, IF r.roundUsed THEN "NO_AGREEMENT" ELSE "SUPERSEDED")
        ELSE kept

\* Every caller restores the status of a closed room.
Sweep(r) == IF r.status = "CLOSED" THEN [SweepOpen(r) EXCEPT !.status = "CLOSED"]
            ELSE SweepOpen(r)

\* getPublicSnapshot(): the room somebody who looks sees, and stores.
Seen(r) == IF Sweep(r).status = "COLLECTING" THEN CollectingStatus(Sweep(r)) ELSE Sweep(r)

(***************************************************************************)
(* Capacity: room for every answer a question may get.                     *)
(***************************************************************************)

DisclosureSettled(r, m) ==
    \/ r.owner[m].previews # {}
    \/ \E d \in r.owner[m].disclosures : d.context = r.context

\* The preview an allowed exception may still add.
ProspectivePreview(r, m, offers) ==
    IF offers > 0 /\ ~DisclosureSettled(r, m) THEN 1 ELSE 0

\* the number of records, when m has n[m] of them
CountAll(n) == Cardinality(UNION {{m} \X (1..n[m]) : m \in Member})

Records(r, m) == Cardinality(r.owner[m].exceptions) + Cardinality(r.owner[m].disclosures)

\* canReservePermissionResponses(), for more[m] further offers to m.
CanReserve(r, more) ==
    LET pending(m) == Cardinality(r.owner[m].offers) + more[m]
        responses(m) == Cardinality(r.owner[m].previews) + ProspectivePreview(r, m, pending(m))
    IN  /\ r.retired + CountAll([m \in Member |-> Records(r, m) + pending(m) + responses(m)])
             <= HistoryLimit
        /\ \A m \in Member :
              /\ Cardinality(r.owner[m].exceptions) + pending(m) <= GrantLimit
              /\ Cardinality(r.owner[m].disclosures) + responses(m) <= GrantLimit

(***************************************************************************)
(* Invitations.  Neither of the two sweeps the room.                       *)
(***************************************************************************)

Awaited(m) ==
    /\ room.status # "CLOSED"
    /\ m \in room.present
    /\ room.membership[m] = "PENDING"

Outstanding(m) == room.invitation[m] # None /\ ~Lapsed(room.invitation[m])

\* issueRoomInvitation(): a new token replaces one that has expired.
IssueRoomInvitation(m) ==
    /\ Awaited(m)
    /\ ~Outstanding(m)
    /\ room' = [room EXCEPT !.invitation[m] = [left |-> InvitationTtl, redeemed |-> FALSE]]
    /\ UNCHANGED run

\* redeemRoomInvitation(): with the token issued last.
RedeemRoomInvitation(m) ==
    /\ Awaited(m)
    /\ Outstanding(m)
    /\ room' = [room EXCEPT !.membership[m] = "ACTIVE",
                            !.invitation[m] = [left |-> 0, redeemed |-> TRUE]]
    /\ UNCHANGED run

(***************************************************************************)
(* Commands: what apply() does for each.  What execute() checks before is  *)
(* in Commands, below.                                                     *)
(***************************************************************************)

SubmitInputDraft(m, v) ==
    /\ room.context < MaxContext
    /\ Cardinality({n \in Member \ {m} : room.owner[n].draft # None}) < MaxDrafts
    /\ room' = [room EXCEPT !.owner[m].draft = v]

\* CONFIRM_INPUTS: new values open a new context for everybody.
ConfirmInputs(m) ==
    LET r == Invalidate(room) IN
    /\ room.owner[m].draft # None
    /\ room.context < MaxContext
    /\ room' = CollectingStatus(
                 [r EXCEPT !.owner[m].draft = None,
                           !.owner[m].confirmed = [values |-> room.owner[m].draft,
                                                   context |-> r.context]])

AcceptContext(m) ==
    LET accepted == [room EXCEPT !.owner[m].confirmed.context = room.context,
                                 !.owner[m].accepted = room.context]
    IN  /\ room.owner[m].confirmed # None
        /\ room' = IF room.status \in {"COLLECTING", "SUPERSEDED", "READY"}
                   THEN CollectingStatus(accepted) ELSE accepted

RequestSolve(m) ==
    /\ Ready(room)
    /\ room.job = None
    /\ ~room.roundUsed
    /\ room.proposal = None
    /\ room' = Queue(room)

\* The offer is answered: it becomes a grant of the given status.
Answer(m, o, status) ==
    [room EXCEPT !.owner[m].offers = @ \ {o},
                 !.owner[m].exceptions = @ \cup
                     {[name |-> o.name, slot |-> o.slot, context |-> o.context,
                       left |-> IF status = "ACTIVE" THEN o.left ELSE 0, status |-> status]}]

AddDisclosurePreview(r, m, left) ==
    IF DisclosureSettled(r, m) THEN r
    ELSE [r EXCEPT !.owner[m].previews =
            {[context |-> r.context, left |-> Min({PermissionTtl, left})]}]

\* DECIDE_EXCEPTION with ALLOW: the last answer queues the second solver run.
AllowException(m, o) ==
    LET allowed == AddDisclosurePreview(Answer(m, o, "ACTIVE"), m, o.left) IN
    /\ o \in room.owner[m].offers
    /\ Cardinality(room.owner[m].exceptions) < GrantLimit
    /\ DisclosureSettled(room, m) \/ Cardinality(room.owner[m].disclosures) < GrantLimit
    /\ room' = IF Offers(allowed) = {} THEN Queue(allowed) ELSE allowed

\* DECIDE_EXCEPTION with DECLINE: nobody is asked any further.
DeclineException(m, o) ==
    /\ o \in room.owner[m].offers
    /\ Cardinality(room.owner[m].exceptions) < GrantLimit
    /\ room' = StopSolving(Answer(m, o, "DECLINED"), "NO_AGREEMENT")

DecideDisclosure(m, p, status) ==
    /\ p \in room.owner[m].previews
    /\ Cardinality(room.owner[m].disclosures) < GrantLimit
    /\ room' = [room EXCEPT !.owner[m].previews = @ \ {p},
                            !.owner[m].disclosures = @ \cup
                               {[context |-> p.context, status |-> status, published |-> FALSE,
                                 left |-> IF status = "ACTIVE" THEN p.left ELSE 0]}]

Revoked(m, g) ==
    [room EXCEPT !.owner[m].exceptions = Ended(@, {g}, "REVOKED")]

\* Faulty variant: revoking leaves the queued solver run standing.
FaultyRevokeException(m, g) ==
    /\ g \in room.owner[m].exceptions
    /\ g.status = "ACTIVE"
    /\ room' = WithoutOffers(ClearProposal(Revoked(m, g), "SUPERSEDED"))

RevokeException(m, g) ==
    /\ g \in room.owner[m].exceptions
    /\ g.status = "ACTIVE"
    /\ room' = StopSolving(Revoked(m, g), "SUPERSEDED")

RevokeDisclosure(m, d) ==
    /\ d \in room.owner[m].disclosures
    /\ d.status = "ACTIVE"
    /\ room' = [room EXCEPT !.owner[m].disclosures = Ended(@, {d}, "REVOKED")]

\* PUBLISH_DISCLOSURE, by the service: a second publication changes nothing.
PublishDisclosure(m, d) ==
    /\ d \in room.owner[m].disclosures
    /\ d.status = "ACTIVE"
    /\ d.context = room.context
    /\ d.published \/ Cardinality(room.published) < PublishLimit
    /\ room' = [room EXCEPT
                  !.published = @ \cup {[owner |-> m, context |-> room.context]},
                  !.owner[m].disclosures = (@ \ {d}) \cup {[d EXCEPT !.published = TRUE]}]

(***************************************************************************)
(* Approvals.                                                              *)
(***************************************************************************)

\* The grant a proposal requires still stands as it was given.
GrantStands(r, ref) ==
    /\ \E g \in r.owner[ref.owner].exceptions :
          /\ g.name = ref.name /\ g.slot = r.proposal.plan.slot
          /\ g.status = "ACTIVE" /\ g.context = r.context /\ ~Lapsed(g)
    /\ r.owner[ref.owner].confirmed # None
    /\ \E c \in r.owner[ref.owner].confirmed.values.asks : c.name = ref.name /\ c.invite
    /\ ~OnDuty(r.proposal.plan, ref.owner)

DependenciesActive(r) ==
    /\ r.proposal # None
    /\ ~Lapsed(r.proposal)
    /\ \A ref \in r.required : GrantStands(r, ref)

Unanimous(r) == \A m \in Member : r.owner[m].approval = r.proposal.version

\* ACCEPT_PROPOSAL: the last approval of all three records the agreement.
AcceptProposal(m) ==
    LET approved == [room EXCEPT !.owner[m].approval = room.proposal.version] IN
    /\ Ready(room)
    /\ DependenciesActive(room)
    /\ IF Unanimous(approved)
       THEN /\ room.status = "AGREED" \/ room.receipts < ReceiptLimit
            /\ room' = [approved EXCEPT !.status = "AGREED",
                                        !.receipts = @ + IF room.status = "AGREED" THEN 0 ELSE 1]
       ELSE room' = [approved EXCEPT !.status = "APPROVING"]

\* WITHDRAW_APPROVAL: an agreement loses its proposal and keeps its receipt.
WithdrawApproval(m) ==
    LET withdrawn == [room EXCEPT !.owner[m].approval = 0] IN
    /\ room.proposal # None
    /\ room.owner[m].approval # 0
    /\ room' = IF room.status = "AGREED" THEN ClearProposal(room, "SUPERSEDED")
               ELSE [withdrawn EXCEPT !.status =
                       IF \E n \in Member : withdrawn.owner[n].approval # 0
                       THEN "APPROVING" ELSE "PROPOSED"]

(***************************************************************************)
(* The organizer.                                                          *)
(***************************************************************************)

RetiredWith(members) ==
    CountAll([m \in Member |-> IF m \in members THEN Records(room, m) ELSE 0])

\* Values confirmed for another schedule become a draft again.
ReopenInputs(r) ==
    EveryOwner(r, LAMBDA o :
        [o EXCEPT !.draft = IF o.confirmed # None THEN o.confirmed.values ELSE @,
                  !.confirmed = None])

ReviseDecision(schedule, policy, present) ==
    LET r == Invalidate(room)
        seated == [r EXCEPT
            !.schedule = schedule, !.policy = policy, !.present = present,
            !.retired = @ + RetiredWith(room.present \ present),
            !.owner = [m \in Member |->
                          IF m \in present \cap room.present THEN @[m] ELSE FreshOwner]]
    IN  /\ room.context < MaxContext
        /\ \A d \in DOMAIN schedule.duties : schedule.duties[d].qualified \subseteq present
        /\ room' = IF schedule = room.schedule THEN seated ELSE ReopenInputs(seated)

\* closeRoom() does not sweep: it only needs the version to be the stored one.
CloseRoom ==
    /\ room.status # "CLOSED"
    /\ room.context < MaxContext
    /\ room' = ClearProposal(Invalidate(room), "CLOSED")
    /\ UNCHANGED run

(***************************************************************************)
(* Looking at the room, and commands that are refused.                     *)
(***************************************************************************)

GetPublicSnapshot == room' = Seen(room) /\ UNCHANGED run

Refuse == room' = Sweep(room) /\ UNCHANGED run

(***************************************************************************)
(* The solver's worker: runSolveJob() in two transactions.                 *)
(***************************************************************************)

ActiveGrants(r) ==
    UNION {{[owner |-> m, name |-> g.name, slot |-> g.slot] :
              g \in {g \in r.owner[m].exceptions : g.status = "ACTIVE" /\ g.context = r.context}} :
            m \in Member}

\* solverInput(): what everybody confirmed, and the grants in force.
SolverInput(r) ==
    [schedule |-> r.schedule, policy |-> r.policy, load |-> PriorLoad,
     values |-> [m \in Member |-> r.owner[m].confirmed.values],
     grants |-> ActiveGrants(r)]

StartSolve(w) ==
    LET r == Sweep(room) IN
    /\ run[w] = None
    /\ room.status # "CLOSED"
    /\ r.job # None
    /\ ~r.job.completed
    /\ Ready(r)
    /\ \E result \in SolveDecision(SolverInput(r)) :
          run' = [run EXCEPT ![w] = [epoch |-> r.job.epoch, context |-> r.context,
                                     result |-> result]]
    /\ room' = r

\* The worker stops; nothing of its run is left.
StopWorker(w) ==
    /\ run[w] # None
    /\ run' = [run EXCEPT ![w] = None]
    /\ UNCHANGED room

\* Faulty variant: the answer of a run is taken for whatever job is queued now.
FaultyStillAwaited(r, s) == r.job # None /\ ~r.job.completed /\ Ready(r)

\* The room still waits for the answer of run s.
StillAwaited(r, s) ==
    /\ r.job # None
    /\ ~r.job.completed
    /\ r.job.epoch = s.epoch
    /\ r.solveEpoch = s.epoch
    /\ r.context = s.context
    /\ Ready(r)

(***************************************************************************)
(* offerConcessions(): for one slot, the conditions a set of owners could  *)
(* waive for it, if that makes a plan possible; the smallest such sets.    *)
(***************************************************************************)

Waivable(r, slot, m) ==
    {[owner |-> m, name |-> c.name, slot |-> slot] :
        c \in {c \in r.owner[m].confirmed.values.asks : c.invite /\ Overlaps(c.at, slot)}}

AdditionalOffers(grants) ==
    [m \in Member |-> Cardinality({g \in grants : g.owner = m})]

Helps(r, grants) ==
    Solvable([SolverInput(r) EXCEPT !.grants = @ \cup grants])

\* Faulty variant: a set of conditions is offered without solving for it.
FaultyAlternatives(r) ==
    {grants \in {UNION {Waivable(r, slot, m) : m \in owners} :
                    slot \in r.schedule.slots, owners \in SUBSET Member \ {{}}} :
        grants # {} /\ CanReserve(r, AdditionalOffers(grants))}

Alternatives(r) ==
    {grants \in {UNION {Waivable(r, slot, m) : m \in owners} :
                    slot \in r.schedule.slots, owners \in SUBSET Member \ {{}}} :
        grants # {} /\ CanReserve(r, AdditionalOffers(grants)) /\ Helps(r, grants)}

Smallest(sets) == {s \in sets : \A t \in sets : Cardinality(s) <= Cardinality(t)}

WithOffers(r, grants) ==
    [r EXCEPT !.owner = [m \in Member |->
        [@[m] EXCEPT !.offers = {[name |-> g.name, slot |-> g.slot, context |-> r.context,
                                  left |-> PermissionTtl] : g \in {g \in grants : g.owner = m}}]]]

\* The one concession round of a context begins, or there is nothing to offer.
AfterNoAgreement(r) ==
    LET used == [r EXCEPT !.roundUsed = TRUE] IN
    IF r.roundUsed \/ Alternatives(r) = {}
    THEN {ClearProposal(used, "NO_AGREEMENT")}
    ELSE {[WithOffers(used, grants) EXCEPT !.status = "PRIVATE_REVIEW"] :
             grants \in Smallest(Alternatives(r))}

(***************************************************************************)
(* The proposal a solved run becomes, valid no longer than its grants.     *)
(***************************************************************************)

GrantLefts(r, refs) ==
    UNION {{g.left : g \in {g \in r.owner[ref.owner].exceptions :
              g.name = ref.name /\ g.slot = ref.slot /\ g.context = r.context}} : ref \in refs}

Proposed(r, result) ==
    [EveryOwner(r, LAMBDA o : [o EXCEPT !.approval = 0]) EXCEPT
        !.proposalVersion = @ + 1,
        !.required = result.required,
        !.proposal = [version |-> r.proposalVersion + 1, context |-> r.context,
                      policy |-> r.policy, plan |-> result.plan,
                      left |-> Min({ProposalTtl} \cup GrantLefts(r, result.required))],
        !.status = "PROPOSED"]

\* Time passes: everything that ends comes closer to its end.
Nearer(x) == [x EXCEPT !.left = Max({0, @ - 1})]
Sooner(S) == {Nearer(x) : x \in S}

Later(r) ==
    [EveryOwner(r, LAMBDA o :
        [o EXCEPT !.offers = Sooner(@), !.previews = Sooner(@),
                  !.exceptions = Sooner(@), !.disclosures = Sooner(@)])
        EXCEPT !.proposal = IF @ = None THEN None ELSE Nearer(@),
               !.invitation = [m \in Member |-> IF @[m] = None THEN None ELSE Nearer(@[m])]]

\* If the clock passes the end of validity while the proposal is hashed, the
\* job is used up and nothing is proposed.
AfterSolved(r, result) ==
    LET proposed == Proposed(r, result)
        late == Later(proposed)
    IN  {IF DependenciesActive(proposed) THEN proposed ELSE ClearProposal(proposed, "SUPERSEDED")}
        \cup (IF DependenciesActive(late) THEN {} ELSE {ClearProposal(late, "SUPERSEDED")})

FinishSolve(w) ==
    LET r == Sweep(room)
        done == [r EXCEPT !.job.completed = TRUE]
    IN  /\ run[w] # None
        /\ run' = [run EXCEPT ![w] = None]
        /\ IF room.status = "CLOSED" THEN room' = room
           ELSE IF ~StillAwaited(r, run[w]) THEN room' = r
           ELSE \/ /\ run[w].result.status = "NEEDS_CLARIFICATION"
                   /\ room' = ClearProposal(done, "COLLECTING")
                \/ /\ run[w].result.status = "NO_AGREEMENT"
                   /\ room' \in AfterNoAgreement(done)
                \/ /\ run[w].result.status = "SOLVED"
                   /\ room' \in AfterSolved(done, run[w].result)

Tick ==
    /\ room' = Later(room)
    /\ room' # room
    /\ UNCHANGED run

(***************************************************************************)
(* The specification.                                                      *)
(***************************************************************************)

Init == room \in CreatedRooms /\ run = [w \in Worker |-> None]

Invitation(m) == IssueRoomInvitation(m) \/ RedeemRoomInvitation(m)

Inputs(m) ==
    \/ \E v \in DraftValues[m] : SubmitInputDraft(m, v)
    \/ ConfirmInputs(m)
    \/ AcceptContext(m)
    \/ RequestSolve(m)

Permissions(m) ==
    \/ \E o \in room.owner[m].offers : AllowException(m, o) \/ DeclineException(m, o)
    \/ \E p \in room.owner[m].previews, status \in {"ACTIVE", "DECLINED"} :
          DecideDisclosure(m, p, status)
    \/ \E g \in room.owner[m].exceptions : RevokeException(m, g)
    \/ \E d \in room.owner[m].disclosures : RevokeDisclosure(m, d)

Approvals(m) == AcceptProposal(m) \/ WithdrawApproval(m)

\* execute() sweeps, then compares the version the command names: if anything
\* had expired the version has moved and the command is refused, so a handler
\* finds the room as it was stored.
Commands ==
    /\ room.status # "CLOSED"
    /\ Sweep(room) = room
    /\ \/ \E m \in Member :
             IsMember(room, m) /\ (Inputs(m) \/ Permissions(m) \/ Approvals(m))
       \/ \E m \in Member : \E d \in room.owner[m].disclosures : PublishDisclosure(m, d)
       \/ \E schedule \in Schedules, policy \in Policies, present \in SUBSET Member :
             ReviseDecision(schedule, policy, present)
    /\ UNCHANGED run

Solver(w) == StartSolve(w) \/ FinishSolve(w) \/ StopWorker(w)

Next ==
    \/ \E m \in Member : Invitation(m)
    \/ Commands
    \/ CloseRoom
    \/ \E w \in Worker : Solver(w)
    \/ GetPublicSnapshot
    \/ Refuse
    \/ Tick

Spec == Init /\ [][Next]_vars


(***************************************************************************)
(* Correctness.                                                            *)
(***************************************************************************)

Zero == [m \in Member |-> 0]

OwnerFits(r, m) ==
    /\ \A x \in r.owner[m].offers \cup r.owner[m].previews : x.context = r.context
    /\ Cardinality(r.owner[m].exceptions) + Cardinality(r.owner[m].offers) <= GrantLimit
    /\ Cardinality(r.owner[m].disclosures) + Cardinality(r.owner[m].previews)
         + ProspectivePreview(r, m, Cardinality(r.owner[m].offers)) <= GrantLimit
    /\ r.invitation[m] # None =>
         (r.invitation[m].redeemed <=> r.membership[m] = "ACTIVE")

RecordFits(r) ==
    /\ \A m \in Member : OwnerFits(r, m)
    /\ CanReserve(r, Zero)
    /\ r.proposal # None =>
         /\ r.proposal.context = r.context
         /\ r.proposal.policy = r.policy
         /\ r.proposal.version = r.proposalVersion
         /\ r.proposal.plan.slot \in r.schedule.slots
         /\ \A ref \in r.required : ref.owner \in r.present
    /\ r.job # None => r.job.context = r.context /\ r.job.epoch = r.solveEpoch
    /\ Cardinality(r.published) <= PublishLimit
    /\ r.receipts <= ReceiptLimit

SnapshotFits(r) ==
    LET active == r.status \in {"PROPOSED", "APPROVING", "AGREED"} IN
    /\ active <=> r.proposal # None
    /\ ~active => \A m \in Member : r.owner[m].approval = 0
    /\ r.status = "AGREED" => Unanimous(r)

\* The repository reads a room only if it passes the checks of its schema
\* (dynamodb-codec.ts:75-130, validateStateGuard:617), and shows it only if it
\* passes those of the snapshot (contracts/src/index.ts:55-74).  Every room a
\* handler stores passes both, whatever the solver answers and whenever:
\* capacity covers every answer still owed, and job, offers, previews and
\* proposal are of the current context.
StoredRoomCanBeRead == RecordFits(room) /\ SnapshotFits(Seen(room))

\* What "suits a member" means, one minute at a time.
Minutes(i) == i.from .. (i.to - 1)

Holds(S, t) == \E i \in S : t \in Minutes(i)

Waived(r, plan, m, c) ==
    /\ c.invite
    /\ ~\E d \in DOMAIN plan.who : plan.who[d] = m
    /\ \E g \in r.owner[m].exceptions :
          /\ g.status = "ACTIVE" /\ g.context = r.context
          /\ g.name = c.name /\ g.slot = plan.slot

SuitsAt(r, plan, m, t) ==
    LET v == r.owner[m].confirmed.values IN
    /\ Holds(v.review, t)
    /\ Holds(v.avail, t)
    /\ \A c \in v.asks : t \in Minutes(c.at) => Waived(r, plan, m, c)

Suits(r, plan) ==
    \A m \in Member :
        /\ \A t \in Minutes(plan.slot) : SuitsAt(r, plan, m, t)
        /\ \A d \in {d \in DOMAIN plan.who : plan.who[d] = m} :
              \A t \in Minutes(r.schedule.duties[d].at) :
                 SuitsAt(r, plan, m, t) /\ t \notin Minutes(plan.slot)

Suitable(r) == {p \in StructuralPlans(r.schedule) : Suits(r, p)}

\* A proposal people may approve suits, minute by minute, what everybody has
\* confirmed now with the exceptions in force now, and no other plan that does
\* is ranked before it, although it was computed from an earlier reading of
\* the room (runSolveJob, dependenciesActive).
ProposalFitsRoom ==
    LET r == Seen(room) IN
    r.proposal # None =>
        /\ Ready(r)
        /\ r.proposal.plan \in Suitable(r)
        /\ \A p \in Suitable(r) : ~Better(SolverInput(r), p, r.proposal.plan)

\* A member is asked to give way only if no plan suits without it, and if all
\* who are asked say yes there is one (offerConcessions: "only a proven
\* feasible set is offered").  The members who have said yes already count.
OffersAreNeededAndSuffice ==
    LET r == Seen(room)
        allowed == EveryOwner(r, LAMBDA w :
            [w EXCEPT !.exceptions = @ \cup
                {[name |-> o.name, slot |-> o.slot, context |-> o.context,
                  left |-> o.left, status |-> "ACTIVE"] : o \in w.offers}])
    IN  Offers(r) # {} => Ready(r) /\ Suitable(r) = {} /\ Suitable(allowed) # {}

\* An exception that was declined, revoked or has expired ends the round of its
\* context: nobody is asked any further, no solver run is awaited and nothing
\* is proposed, until somebody opens a new context (DECIDE_EXCEPTION,
\* REVOKE_EXCEPTION, sweep).
RefusalEndsTheRound ==
    LET r == Sweep(room) IN
    (\E m \in Member : \E g \in r.owner[m].exceptions :
        g.context = r.context /\ g.status # "ACTIVE")
    => r.job = None /\ r.proposal = None /\ Offers(r) = {}

=============================================================================
