--------------------------- MODULE AccountErasure ---------------------------
(***************************************************************************)
(* Erasing a person, a person's part in one decision, a decision or a      *)
(* group (packages/adapters/src/partition-lifecycle.ts and                 *)
(* dynamo-partition-lifecycle.ts).                                         *)
(*                                                                         *)
(* An operator prepares a plan from an inventory that one transaction      *)
(* confirms, everybody it concerns consents to its hash, and a runner      *)
(* commits its steps one by one, each together with the next entry of the  *)
(* plan's journal.  The first step of an account's or a group's plan       *)
(* freezes the root row; every step compares what it overwrites with what  *)
(* the plan read.  A runner may stop anywhere, another one goes on from    *)
(* the journal, and an answer that got lost is read back from it: the      *)
(* journal's CAS makes all of that one atomic step.                        *)
(*                                                                         *)
(* Left out: the policy (enabled, one revision), signatures, exports,      *)
(* retention stamps, and pages of sixteen rows (one step each).            *)
(* Preparing and publishing is one action.                                 *)
(*                                                                         *)
(* Definitions marked "Faulty variant" are no part of any specification:   *)
(* each is what a plausible mistake would make of the definition after it. *)
(***************************************************************************)
EXTENDS GroupArchive, SequencesExt

Scope == [kind : {"ACCOUNT"}, who : Subject, what : {None}]
           \cup [kind : {"OWNER"}, who : Subject, what : Draft]
           \cup [kind : {"GROUP"}, who : {None}, what : Group]
           \cup [kind : {"DECISION"}, who : {None}, what : Draft]

StepKind == {"ACCOUNT_FENCE", "GROUP_FENCE", "OWNER_STATE", "DECISION_STATE",
             "REPLAYS", "PARTITION_ROWS", "ACCOUNT_DRAFTS", "ACCOUNT_FINAL"}

StepType == [kind : StepKind, on : Subject \cup Group \cup Draft,
             rows : SUBSET Row]  \* rows the step compares with the inventory

PlanType == [scope : Scope, subjects : SUBSET Subject, steps : Seq(StepType),
             fresh : SUBSET Row]

ASSUME PlanAssumption == None \notin PlanType

(***************************************************************************)
(* The inventory.                                                          *)
(***************************************************************************)

ScopeGroups(scope) ==
    CASE scope.kind = "ACCOUNT"  -> edges[scope.who]
      [] scope.kind = "GROUP"    -> {scope.what}
      [] OTHER                   -> {GroupOf[scope.what]}

\* An owner's inventory enumerates all groups of the person as well.
InventoryGroups(scope) ==
    ScopeGroups(scope) \cup (IF scope.kind = "OWNER" THEN edges[scope.who] ELSE {})

\* Decisions bound to a group of the scope, or the one it names.
ScopeDecisions(scope) ==
    IF scope.kind \in {"OWNER", "DECISION"} THEN {scope.what}
    ELSE {d \in Draft : GroupOf[d] \in ScopeGroups(scope) /\ binding[d] # "NONE"}

Stored(d) == decision[d].status \in {"LIVE", "AGREED"}

\* originalHeader: an archived group's manifest still has its members.
OriginalMembers(g) ==
    IF group[g].status = "ARCHIVED" /\ archive[g] # None THEN archive[g].members
    ELSE Members(g)

\* Accounts whose rows it reads.  Without its manifest an archived group has
\* no members; the erasure of the group itself needs the manifest.
InventoryAccounts(scope) ==
    (IF scope.who = None THEN {} ELSE {scope.who})
      \cup UNION {IF scope.kind = "GROUP" THEN OriginalMembers(g) ELSE Members(g)
                      : g \in InventoryGroups(scope)}
      \cup UNION {decision[d].members : d \in ScopeDecisions(scope)}

\* People in a decision's memberships, whether active or not.
Seated(d) == decision[d].members \cup decision[d].inactive

(***************************************************************************)
(* The plan: prepareLifecyclePlan().                                       *)
(***************************************************************************)

\* Decisions the plan rewrites: not those erased before, and for one person
\* those with a seat or retired records of theirs.
Rewrites(scope) ==
    {d \in ScopeDecisions(scope) :
        Stored(d) /\ (scope.who # None =>
                         scope.who \in Seated(d) \cup decision[d].retired)}

\* Whose consent the erasure of a whole decision needs.
Concerned(d) ==
    decision[d].members \cup (Seated(d) \cap decision[d].private)
      \cup decision[d].retired

RequiredSubjects(scope) ==
    IF scope.who # None THEN {scope.who}
    ELSE (IF scope.kind = "GROUP" THEN OriginalMembers(scope.what) ELSE {})
           \cup UNION {Concerned(d) : d \in Rewrites(scope)}

Step(kind, on, rows) == [kind |-> kind, on |-> on, rows |-> rows]

DraftRows(g) ==
    {DraftRow(d) : d \in {x \in Draft :
                             GroupOf[x] = g /\ draft[x].status # "NONE"}}

ReplayRows(d) ==
    {ReplayRow(d, s) : s \in {x \in Subject : decision[d].receipt[x] # None}}

\* Faulty variant: decisions may change between the inventory and the freeze.
FaultyRootRows(scope) ==
    {AccountRow(s) : s \in {scope.who} \ {None}}
      \cup {HeaderRow(g) : g \in ScopeGroups(scope)}

\* What the first step compares: the root, the headers, and every guard, so
\* that neither a group nor a decision can slip in after the inventory.
RootRows(scope) ==
    {AccountRow(s) : s \in {scope.who} \ {None}}
      \cup {HeaderRow(g) : g \in ScopeGroups(scope)}
      \cup {GuardRow(d) : d \in ScopeDecisions(scope)}

FenceSteps(scope) ==
    CASE scope.kind = "ACCOUNT" ->
             <<Step("ACCOUNT_FENCE", scope.who, RootRows(scope))>>
      [] scope.kind = "GROUP" ->
             <<Step("GROUP_FENCE", scope.what, RootRows(scope))>>
      [] OTHER -> <<>>

(* One decision after the other, in an order that means nothing: in the    *)
(* code that of their bindings, here those with receipts first.            *)
DecisionSteps(scope) ==
    LET kind == IF scope.who = None THEN "DECISION_STATE" ELSE "OWNER_STATE"
        state(d) == Step(kind, d, {GuardRow(d)})
        replays(d) == Step("REPLAYS", d, ReplayRows(d))
        with == SetToSeq({d \in Rewrites(scope) : ReplayRows(d) # {}})
        without == SetToSeq({d \in Rewrites(scope) : ReplayRows(d) = {}})
    IN [i \in 1 .. 2 * Len(with) |-> IF i % 2 = 1 THEN state(with[(i + 1) \div 2])
                                     ELSE replays(with[i \div 2])]
         \o [i \in DOMAIN without |-> state(without[i])]

GroupSteps(scope, kind) ==
    LET all == SetToSeq({g \in ScopeGroups(scope) : DraftRows(g) # {}})
    IN [i \in DOMAIN all |-> Step(kind, all[i], DraftRows(all[i]))]

LastSteps(scope) ==
    CASE scope.kind = "ACCOUNT" -> GroupSteps(scope, "ACCOUNT_DRAFTS")
                                     \o <<Step("ACCOUNT_FINAL", scope.who, {})>>
      [] scope.kind = "GROUP"   -> GroupSteps(scope, "PARTITION_ROWS")
      [] OTHER                  -> <<>>

StepsOf(scope) == FenceSteps(scope) \o DecisionSteps(scope) \o LastSteps(scope)

\* What prepare() needs: an account that is frozen cannot be read, a
\* decision must still be there, and retired records must have a known owner.
Preparable(scope) ==
    /\ Readable(InventoryAccounts(scope))
    /\ scope.who # None => account[scope.who].status # "ABSENT"
    /\ scope.kind = "GROUP" =>
          \/ group[scope.what].status \in {"OPEN", "DELETED"}
          \/ /\ archive[scope.what] # None
             /\ archive[scope.what].state = "ARCHIVED"
    /\ scope.kind \in {"OWNER", "DECISION"} =>
          /\ binding[scope.what] # "NONE"
          /\ scope.what \in Rewrites(scope)
    /\ scope.who = None => \A d \in Rewrites(scope) :
          decision[d].retired \subseteq Seated(d) \cup InventoryAccounts(scope)

RowsOf(steps) == UNION {steps[i].rows : i \in DOMAIN steps}

Prepare(p, scope) ==
    /\ plan[p] = None
    /\ Preparable(scope)
    /\ plan' = [plan EXCEPT ![p] =
                   [scope |-> scope, subjects |-> RequiredSubjects(scope),
                    steps |-> StepsOf(scope),
                    fresh |-> RowsOf(StepsOf(scope))]]
    /\ UNCHANGED <<account, edges, group, invitation, draft, binding, decision,
                   request, journal, consent, archive>>

(***************************************************************************)
(* Consent.                                                                *)
(***************************************************************************)

\* Somebody frozen can only consent to the plan that froze them; an erased
\* person only to their own account's plan.  A grant for a plan that is done
\* is left out.
Grant(s, p) ==
    /\ plan[p] # None /\ journal[p] # "ERASED"
    /\ s \in plan[p].subjects
    /\ \/ Approved(s)
       \/ account[s] = [status |-> "ERASING", by |-> p]
       \/ account[s].status = "ERASED" /\ plan[p].scope.kind = "ACCOUNT"
    /\ consent' = [consent EXCEPT ![p] = @ \cup {s}]
    /\ UNCHANGED <<account, edges, group, invitation, draft, binding, decision,
                   request, plan, journal, archive>>

\* The owner revokes, or the grant's day is over.
GrantEnds(s, p) ==
    /\ s \in consent[p]
    /\ consent' = [consent EXCEPT ![p] = @ \ {s}]
    /\ UNCHANGED <<account, edges, group, invitation, draft, binding, decision,
                   request, plan, journal, archive>>

(***************************************************************************)
(* The runner: advance(), one commit each.                                 *)
(***************************************************************************)

\* Faulty variant: somebody's consent is enough.
FaultyConsented(p) == consent[p] # {}

Consented(p) == plan[p].subjects \subseteq consent[p]

\* plan.steps[nextStep]: the plan keeps the steps that are still to come.
NextStep(p) == Head(plan[p].steps)

\* The root row is still the one this plan froze.  Nobody freezes a group
\* that is archived.
RootIsHeld(p) ==
    journal[p] = "ERASING" =>
        /\ plan[p].scope.kind = "ACCOUNT" =>
              account[plan[p].scope.who] = [status |-> "ERASING", by |-> p]
        /\ plan[p].scope.kind = "GROUP" =>
              group[plan[p].scope.what].status = "ARCHIVED"

Runs(p, kind) ==
    /\ journal[p] \in {"PREPARED", "ERASING"}
    /\ NextStep(p).kind = kind
    /\ Consented(p)
    /\ RootIsHeld(p)

(* The journal moves with the step.  Rows no later step compares are       *)
(* forgotten.                                                              *)
Commit(p, rows) ==
    LET later == Tail(plan[p].steps)
    IN /\ journal' = [journal EXCEPT ![p] = IF later = <<>> THEN "ERASED"
                                            ELSE "ERASING"]
       /\ plan' = [PlansAfter(rows) EXCEPT ![p].steps = later,
                                           ![p].fresh = @ \cap RowsOf(later)]
       /\ request' = RequestsAfter(rows)
       /\ archive' = ArchivesAfter(rows)
       /\ UNCHANGED <<edges, invitation, consent>>

\* The first commit stores the plan and its journal, PREPARED.
Begin(p) ==
    /\ plan[p] # None /\ journal[p] = None
    /\ Consented(p)
    /\ journal' = [journal EXCEPT ![p] = "PREPARED"]
    /\ UNCHANGED <<account, edges, group, invitation, draft, binding, decision,
                   request, plan, consent, archive>>

FreezeAccount(p) ==
    /\ Runs(p, "ACCOUNT_FENCE")
    /\ NextStep(p).rows \subseteq plan[p].fresh
    /\ account' = [account EXCEPT ![NextStep(p).on] =
                      [status |-> "ERASING", by |-> p]]
    /\ Commit(p, {AccountRow(NextStep(p).on)})
    /\ UNCHANGED <<group, draft, binding, decision>>

FreezeGroup(p) ==
    /\ Runs(p, "GROUP_FENCE")
    /\ NextStep(p).rows \subseteq plan[p].fresh
    /\ group' = [group EXCEPT ![NextStep(p).on].status = "ARCHIVED",
                              ![NextStep(p).on].members = {}]
    /\ Commit(p, {HeaderRow(NextStep(p).on)})
    /\ UNCHANGED <<account, draft, binding, decision>>

\* eraseDecisionOwner(): the seat stays, inactive, and required; what the
\* others have said stays, but no confirmation of the frame, although the
\* status it sets needs everybody's.
WithoutOwner(D, s, p) ==
    [D EXCEPT !.status = "LIVE",
              !.readable = FALSE,
              !.members = @ \ {s},
              !.inactive = @ \cup ({s} \cap D.members),
              !.private = @ \ {s},
              !.retired = @ \ {s},
              !.incarnation = p]

EraseOwner(p) ==
    LET d == NextStep(p).on
        s == plan[p].scope.who
    IN /\ Runs(p, "OWNER_STATE")
       /\ NextStep(p).rows \subseteq plan[p].fresh
       /\ decision' = [decision EXCEPT ![d] = WithoutOwner(@, s, p)]
       /\ Commit(p, {GuardRow(d)})
       /\ UNCHANGED <<account, group, draft, binding>>

\* A guard stays behind, so that the decision cannot be created again.
EraseDecision(p) ==
    LET d == NextStep(p).on
    IN /\ Runs(p, "DECISION_STATE")
       /\ NextStep(p).rows \subseteq plan[p].fresh
       /\ Concerned(d) \subseteq plan[p].subjects
       /\ decision' = [decision EXCEPT ![d] =
                          [NoDecision EXCEPT !.status = "REMOVED",
                                             !.incarnation = p,
                                             !.receipt = decision[d].receipt]]
       /\ Commit(p, {GuardRow(d)})
       /\ UNCHANGED <<account, group, draft, binding>>

\* Receipts of before go, whoever wrote them; one written since the plan's
\* own rewrite stays; one written under another incarnation stops the plan.
EraseReplays(p) ==
    LET d == NextStep(p).on
        captured == {s \in Subject : ReplayRow(d, s) \in NextStep(p).rows
                                       /\ decision[d].receipt[s] # None}
        old == {s \in captured : ReplayRow(d, s) \in plan[p].fresh}
    IN /\ Runs(p, "REPLAYS")
       /\ \A s \in captured \ old : decision[d].receipt[s] = p
       /\ decision' = [decision EXCEPT ![d].receipt =
                          [s \in Subject |-> IF s \in old THEN None ELSE @[s]]]
       /\ Commit(p, {ReplayRow(d, s) : s \in old})
       /\ UNCHANGED <<account, group, draft, binding>>

DraftsOf(step) == {d \in Draft : DraftRow(d) \in step.rows
                                   /\ draft[d].status # "NONE"}

ErasePartitionRows(p) ==
    LET gone == DraftsOf(NextStep(p))
    IN /\ Runs(p, "PARTITION_ROWS")
       /\ {DraftRow(d) : d \in gone} \subseteq plan[p].fresh
       /\ draft' = [d \in Draft |-> IF d \in gone
                       THEN [status |-> "NONE", names |-> {}] ELSE draft[d]]
       /\ binding' = [d \in Draft |-> IF d \in gone THEN "NONE"
                                      ELSE binding[d]]
       /\ Commit(p, {DraftRow(d) : d \in gone})
       /\ UNCHANGED <<account, group, decision>>

\* The name of the person in the drafts' frames.  The header stays.
EraseNames(p) ==
    LET named == DraftsOf(NextStep(p))
    IN /\ Runs(p, "ACCOUNT_DRAFTS")
       /\ {DraftRow(d) : d \in named} \subseteq plan[p].fresh
       /\ draft' = [d \in Draft |-> IF d \in named
                       THEN [draft[d] EXCEPT !.names = @ \ {plan[p].scope.who}]
                       ELSE draft[d]]
       /\ Commit(p, {DraftRow(d) : d \in named})
       /\ UNCHANGED <<account, group, binding, decision>>

EraseAccount(p) ==
    /\ Runs(p, "ACCOUNT_FINAL")
    /\ account' = [account EXCEPT ![NextStep(p).on] =
                      [status |-> "ERASED", by |-> None]]
    /\ Commit(p, {AccountRow(NextStep(p).on)})
    /\ UNCHANGED <<group, draft, binding, decision>>

ErasureNext ==
    \E p \in Plan :
        \/ \E scope \in Scope : Prepare(p, scope)
        \/ \E s \in Subject : Grant(s, p) \/ GrantEnds(s, p)
        \/ Begin(p)
        \/ FreezeAccount(p)
        \/ FreezeGroup(p)
        \/ EraseOwner(p)
        \/ EraseDecision(p)
        \/ EraseReplays(p)
        \/ ErasePartitionRows(p)
        \/ EraseNames(p)
        \/ EraseAccount(p)
=============================================================================
