---------------------- MODULE PartitionedSystemProofs ----------------------
(***************************************************************************)
(* Groups, decisions, archives and erasures on one store are safe, for any *)
(* number of people, groups, drafts, plans and requests at once.           *)
(*                                                                         *)
(* SystemInv is inductive.  What a fence, a plan or a manifest promises    *)
(* holds for as long as the rows it read still stand; a plan that has      *)
(* begun no longer needs them, because the row it froze keeps everybody    *)
(* else out.                                                               *)
(***************************************************************************)
EXTENDS PartitionedSystem, FiniteSetTheorems, SequenceTheorems, TLAPS

-----------------------------------------------------------------------------
(* The inductive invariant *)

StoreType ==
    /\ account \in [Subject -> AccountType]
    /\ edges \in [Subject -> SUBSET Group]
    /\ group \in [Group -> GroupType]
    /\ invitation \in [Group -> [Subject -> {None, "OPEN", "ACCEPTED"}]]
    /\ draft \in [Draft -> DraftType]
    /\ binding \in [Draft -> BindingType]
    /\ decision \in [Draft -> DecisionType]

ReaderType ==
    /\ request \in [Subject -> {None} \cup RequestType]
    /\ plan \in [Plan -> {None} \cup PlanType]
    /\ journal \in [Plan -> {None, "PREPARED", "ERASING", "ERASED"}]
    /\ consent \in [Plan -> SUBSET Subject]
    /\ archive = [g \in Group |-> archive[g]]
    /\ \A g \in Group : archive[g] # None =>
          archive[g] \in ManifestType(g) \cup TombstoneType

\* Whoever is in a group has an edge to it, a group has an organizer, and
\* nothing belongs to it before there is one.
RosterInv ==
    \A g \in Group :
        /\ \A s \in Members(g) : g \in edges[s]
        /\ group[g].status \in {"OPEN", "DELETED"} => group[g].organizer \in Subject
        /\ group[g].status = "ABSENT" =>
              Members(g) = {} /\ \A d \in ChildrenOf(g) : binding[d] = "NONE"

\* People with data in a decision sit in it, and have an edge to its group.
DecisionInv ==
    \A d \in Draft :
        /\ ~Stored(d) => Holders(d) = {} /\ Seated(d) = {}
        /\ Stored(d) => binding[d] # "NONE"
        /\ decision[d].private \subseteq Seated(d)
        /\ decision[d].status = "AGREED" => decision[d].members \subseteq decision[d].private
        /\ \A s \in Seated(d) \cup Holders(d) : GroupOf[d] \in edges[s]
        /\ \A s \in draft[d].names : GroupOf[d] \in edges[s]
        /\ draft[d].status = "NONE" => draft[d].names = {}

\* A fence that stands describes the group as it is.
FenceInv ==
    \A s \in Subject : request[s] # None /\ request[s].current =>
        LET g == GroupOf[request[s].on] IN
        /\ group[g].status = "OPEN"
        /\ request[s].roster = Members(g)
        /\ RosterApproved(g)
        /\ s \in Members(g)
        /\ request[s].kind = "REVISE_ROSTER" =>
              binding[request[s].on] \in {"CURRENT", "STALE"}

Begun(p) == journal[p] \in {"ERASING", "ERASED"}

\* What the i-th of the steps to come can be: a freeze comes first and before
\* anything is committed, the last step of an account or a group last.
StepFits(scope, subjects, begun, steps, i) ==
    LET step == steps[i] IN
    /\ step.kind = "ACCOUNT_FENCE" =>
          i = 1 /\ ~begun /\ scope.kind = "ACCOUNT" /\ step.on = scope.who
    /\ step.kind = "GROUP_FENCE" =>
          i = 1 /\ ~begun /\ scope.kind = "GROUP" /\ step.on = scope.what
    /\ step.kind = "OWNER_STATE" =>
          /\ scope.who # None /\ subjects = {scope.who}
          /\ step.on \in Draft /\ GuardRow(step.on) \in step.rows
    /\ step.kind = "DECISION_STATE" =>
          step.on \in Draft /\ GuardRow(step.on) \in step.rows
    /\ step.kind = "REPLAYS" => step.on \in Draft
    /\ step.kind = "PARTITION_ROWS" =>
          /\ i = Len(steps) /\ scope.kind = "GROUP"
          /\ step.rows \subseteq {DraftRow(d) : d \in ChildrenOf(scope.what)}
    /\ step.kind = "ACCOUNT_DRAFTS" => scope.kind = "ACCOUNT"
    /\ step.kind = "ACCOUNT_FINAL" =>
          i = Len(steps) /\ scope.kind = "ACCOUNT" /\ step.on = scope.who

StepsInv(p) ==
    LET scope == plan[p].scope
        steps == plan[p].steps
    IN  /\ ~Begun(p) =>
              /\ steps # <<>>
              /\ scope.kind = "ACCOUNT" => steps[1].kind = "ACCOUNT_FENCE"
              /\ scope.kind = "GROUP" => steps[1].kind = "GROUP_FENCE"
        /\ \A i \in DOMAIN steps :
              StepFits(scope, plan[p].subjects, Begun(p), steps, i)

PlanInv ==
    \A p \in Plan :
        /\ journal[p] # None => plan[p] # None
        /\ plan[p] # None => /\ journal[p] = "ERASED" <=> plan[p].steps = <<>>
                             /\ StepsInv(p)

HasStep(p, kind, d) ==
    \E i \in DOMAIN plan[p].steps :
        plan[p].steps[i].kind = kind /\ plan[p].steps[i].on = d

\* From step i on, a plan removes the receipt of s in d.
RemovesReceipt(p, i, d, s) ==
    \E j \in DOMAIN plan[p].steps :
        /\ j > i
        /\ plan[p].steps[j].kind = "REPLAYS" /\ plan[p].steps[j].on = d
        /\ ReplayRow(d, s) \in plan[p].steps[j].rows
        /\ ReplayRow(d, s) \in plan[p].fresh

\* While its guard stands, a decision that a plan rewrites is there, and the
\* plan removes all of its receipts later.
ReceiptsFollow(p) ==
    \A i \in DOMAIN plan[p].steps, d \in Draft :
        /\ plan[p].steps[i].kind \in {"OWNER_STATE", "DECISION_STATE"}
        /\ plan[p].steps[i].on = d
        /\ GuardRow(d) \in plan[p].fresh
        => /\ Stored(d)
           /\ \A s \in Subject : decision[d].receipt[s] # None => RemovesReceipt(p, i, d, s)

\* There are only receipts of people who hold something, and those which an
\* erasure that has begun is about to remove.
ReceiptInv ==
    /\ \A p \in Plan : plan[p] # None => ReceiptsFollow(p)
    /\ \A d \in Draft, s \in Subject : decision[d].receipt[s] # None =>
          \/ s \in Holders(d)
          \/ \E p \in Plan : journal[p] = "ERASING" /\ RemovesReceipt(p, 0, d, s)

\* What the plan of an account still has to remove.
AccountCovered(p) ==
    LET s == plan[p].scope.who IN
    \A d \in Draft :
        /\ s \in Holders(d) \cup decision[d].members => HasStep(p, "OWNER_STATE", d)
        /\ s \in draft[d].names =>
              \E i \in DOMAIN plan[p].steps :
                  /\ plan[p].steps[i].kind = "ACCOUNT_DRAFTS"
                  /\ DraftRow(d) \in plan[p].steps[i].rows

\* Before the freeze, for as long as what it compares stands, the plan of an
\* account has a step for all there is, and compares whatever could bring
\* more; after it, it has a step for all that is left.
AccountPlanInv(p) ==
    LET s == plan[p].scope.who
        root == plan[p].steps[1].rows
    IN  /\ ~Begun(p) /\ root \subseteq plan[p].fresh =>
              /\ AccountRow(s) \in root
              /\ \A g \in edges[s] : HeaderRow(g) \in root
              /\ \A d \in Draft : Stored(d) /\ GroupOf[d] \in edges[s]
                                     => GuardRow(d) \in root
              /\ AccountCovered(p)
        /\ Begun(p) /\ account[s] = [status |-> "ERASING", by |-> p]
              => AccountCovered(p)

GroupCovered(p) ==
    \A d \in ChildrenOf(plan[p].scope.what) :
        Stored(d) => HasStep(p, "DECISION_STATE", d)

GroupPlanInv(p) ==
    LET g == plan[p].scope.what
        root == plan[p].steps[1].rows
    IN  /\ ~Begun(p) /\ root \subseteq plan[p].fresh =>
              HeaderRow(g) \in root /\ GroupCovered(p)
        /\ Begun(p) => group[g].status = "ARCHIVED" /\ GroupCovered(p)

CoverageInv ==
    \A p \in Plan : plan[p] # None =>
        /\ plan[p].scope.kind = "ACCOUNT" => AccountPlanInv(p)
        /\ plan[p].scope.kind = "GROUP" => GroupPlanInv(p)

\* Nothing of an erased person is left but a receipt somebody is removing.
NoTraceInv ==
    \A s \in Subject : account[s].status = "ERASED" =>
        \A d \in Draft : /\ s \notin Holders(d) \cup decision[d].members
                         /\ s \notin draft[d].names

Frozen(s) == account[s].status \in {"ERASING", "ERASED"}

\* A manifest whose header stands describes the group; once checked, its
\* children as well.
ManifestInv ==
    \A g \in Group :
        archive[g] # None /\ archive[g].state # "ARCHIVED"
          /\ HeaderRow(g) \in archive[g].fresh =>
        LET a == archive[g] IN
        /\ group[g].status \in {"OPEN", "DELETED"}
        /\ Members(g) = a.members
        /\ a.state = "CHECKED" =>
              /\ a.by = "ORGANIZER" /\ AccountRow(group[g].organizer) \in a.fresh
                    => Approved(group[g].organizer)
              /\ \A d \in ChildrenOf(g) :
                    /\ binding[d] = a.children[d][2]
                    /\ draft[d].status = a.children[d][1].status
                    /\ \A s \in a.children[d][1].names \ draft[d].names : Frozen(s)

\* What the rows of the store promise one another.
StoreInv ==
    /\ StoreType
    /\ RosterInv
    /\ DecisionInv
    /\ CurrentBindingMatchesRoster

SystemInv ==
    /\ StoreInv
    /\ ReaderType
    /\ FenceInv
    /\ PlanInv
    /\ ReceiptInv
    /\ CoverageInv
    /\ NoTraceInv
    /\ ManifestInv

-----------------------------------------------------------------------------
(* Rows, and what a write does to those who read them *)

\* Rows of different kinds are different, and a row has one key.
LEMMA RowsDiffer ==
    /\ \A s, g : AccountRow(s) # HeaderRow(g)
    /\ \A s, d : AccountRow(s) # DraftRow(d) /\ AccountRow(s) # GuardRow(d)
    /\ \A s, d, t : AccountRow(s) # ReplayRow(d, t)
    /\ \A g, d : HeaderRow(g) # DraftRow(d) /\ HeaderRow(g) # GuardRow(d)
    /\ \A g, d, t : HeaderRow(g) # ReplayRow(d, t)
    /\ \A d, e : DraftRow(d) # GuardRow(e)
    /\ \A d, e, t : DraftRow(d) # ReplayRow(e, t) /\ GuardRow(d) # ReplayRow(e, t)
    /\ \A s, t : AccountRow(s) = AccountRow(t) => s = t
    /\ \A g, h : HeaderRow(g) = HeaderRow(h) => g = h
    /\ \A d, e : DraftRow(d) = DraftRow(e) => d = e
    /\ \A d, e : GuardRow(d) = GuardRow(e) => d = e
    /\ \A d, e, s, t : ReplayRow(d, s) = ReplayRow(e, t) => d = e /\ s = t
  BY DEF AccountRow, HeaderRow, DraftRow, GuardRow, ReplayRow

\* Every one of them is a row.
LEMMA RowsAreRows ==
    /\ \A s \in Subject : AccountRow(s) \in Row
    /\ \A g \in Group : HeaderRow(g) \in Row
    /\ \A d \in Draft : DraftRow(d) \in Row /\ GuardRow(d) \in Row
    /\ \A d \in Draft, s \in Subject : ReplayRow(d, s) \in Row
  <1>1. \A s \in Subject : AccountRow(s) \in Row
    BY DEF Row
  <1>2. \A g \in Group : HeaderRow(g) \in Row
    BY DEF Row
  <1>3. \A d \in Draft : DraftRow(d) \in Row
    BY DEF Row
  <1>4. \A d \in Draft : GuardRow(d) \in Row
    BY DEF Row
  <1>5. \A d \in Draft, s \in Subject : ReplayRow(d, s) \in Row
    BY DEF Row
  <1> QED
    BY <1>1, <1>2, <1>3, <1>4, <1>5

\* A write leaves requests as they are, but for the standing of their fence.
LEMMA RequestsAfterWrite ==
    ASSUME ReaderType, NEW rows
    PROVE  /\ RequestsAfter(rows) \in [Subject -> {None} \cup RequestType]
           /\ \A s \in Subject :
                 LET r == RequestsAfter(rows)[s] IN
                 r # None /\ r.current =>
                       request[s] = r /\ FenceRows(r) \cap rows = {}
  <1> DEFINE touched(s) == request[s] # None /\ FenceRows(request[s]) \cap rows # {}
             after(s) == IF touched(s) THEN [request[s] EXCEPT !.current = FALSE]
                         ELSE request[s]
  <1>1. ASSUME NEW s \in Subject
        PROVE  /\ after(s) \in {None} \cup RequestType
               /\ after(s) # None /\ after(s).current =>
                     request[s] = after(s) /\ FenceRows(after(s)) \cap rows = {}
    <2>1. request[s] \in {None} \cup RequestType
      BY DEF ReaderType
    <2>2. CASE touched(s)
      <3>1. request[s] \in RequestType
        BY <2>1, <2>2
      <3>2. /\ [request[s] EXCEPT !.current = FALSE] \in RequestType
            /\ [request[s] EXCEPT !.current = FALSE].current = FALSE
        BY <3>1 DEF RequestType
      <3> QED
        BY <2>2, <3>2
    <2>3. CASE ~touched(s)
      BY <2>1, <2>3
    <2> QED
      BY <2>2, <2>3
  <1>2. RequestsAfter(rows) = [s \in Subject |-> after(s)]
    BY DEF RequestsAfter
  <1> HIDE DEF after
  <1> QED
    BY <1>1, <1>2

\* A write leaves plans as they are, but for the rows of theirs that stand.
LEMMA PlansAfterWrite ==
    ASSUME ReaderType, NEW rows
    PROVE  /\ PlansAfter(rows) \in [Plan -> {None} \cup PlanType]
           /\ \A p \in Plan : PlansAfter(rows)[p] = None <=> plan[p] = None
           /\ \A p \in Plan : plan[p] # None =>
                 /\ PlansAfter(rows)[p].scope = plan[p].scope
                 /\ PlansAfter(rows)[p].subjects = plan[p].subjects
                 /\ PlansAfter(rows)[p].steps = plan[p].steps
                 /\ PlansAfter(rows)[p].fresh = plan[p].fresh \ rows
  <1> DEFINE less(q) == [plan[q] EXCEPT !.fresh = @ \ rows]
             after(p) == IF plan[p] = None THEN None ELSE less(p)
  <1>1. ASSUME NEW p \in Plan, plan[p] # None
        PROVE  /\ less(p) \in PlanType /\ less(p) # None
               /\ less(p).scope = plan[p].scope
               /\ less(p).subjects = plan[p].subjects
               /\ less(p).steps = plan[p].steps
               /\ less(p).fresh = plan[p].fresh \ rows
    <2>1. plan[p] \in PlanType
      BY <1>1 DEF ReaderType
    <2>2. plan[p].fresh \ rows \in SUBSET Row
      BY <2>1 DEF PlanType
    <2>3. /\ less(p) \in PlanType
          /\ less(p).scope = plan[p].scope
          /\ less(p).subjects = plan[p].subjects
          /\ less(p).steps = plan[p].steps
          /\ less(p).fresh = plan[p].fresh \ rows
      BY <2>1, <2>2 DEF PlanType
    <2> QED
      BY <2>3, PlanAssumption
  <1>2. PlansAfter(rows) = [p \in Plan |-> after(p)]
    BY DEF PlansAfter
  <1> HIDE DEF less
  <1> QED
    BY <1>1, <1>2

\* The same of manifests.
LEMMA ArchivesAfterWrite ==
    ASSUME ReaderType, NEW rows
    PROVE  /\ ArchivesAfter(rows) = [g \in Group |-> ArchivesAfter(rows)[g]]
           /\ \A g \in Group : ArchivesAfter(rows)[g] # None =>
                 ArchivesAfter(rows)[g] \in ManifestType(g) \cup TombstoneType
           /\ \A g \in Group : ArchivesAfter(rows)[g] = None <=> archive[g] = None
           /\ \A g \in Group : archive[g] # None =>
                 /\ ArchivesAfter(rows)[g].state = archive[g].state
                 /\ ArchivesAfter(rows)[g].members = archive[g].members
                 /\ ArchivesAfter(rows)[g].fresh = archive[g].fresh \ rows
                 /\ archive[g].state # "ARCHIVED" =>
                       /\ ArchivesAfter(rows)[g].by = archive[g].by
                       /\ ArchivesAfter(rows)[g].children = archive[g].children
  <1> DEFINE less(g) == [archive[g] EXCEPT !.fresh = @ \ rows]
             after(g) == IF archive[g] = None THEN None ELSE less(g)
  <1>1. ASSUME NEW g \in Group, archive[g] # None
        PROVE  /\ less(g) \in ManifestType(g) \cup TombstoneType /\ less(g) # None
               /\ less(g).state = archive[g].state
               /\ less(g).members = archive[g].members
               /\ less(g).fresh = archive[g].fresh \ rows
               /\ archive[g].state # "ARCHIVED" =>
                     less(g).by = archive[g].by /\ less(g).children = archive[g].children
    <2>1. CASE archive[g] \in ManifestType(g)
      <3>1. archive[g].fresh \ rows \in SUBSET Row
        BY <2>1 DEF ManifestType
      <3>2. /\ less(g) \in ManifestType(g)
            /\ less(g).state = archive[g].state
            /\ less(g).members = archive[g].members
            /\ less(g).fresh = archive[g].fresh \ rows
            /\ less(g).by = archive[g].by /\ less(g).children = archive[g].children
        BY <2>1, <3>1 DEF ManifestType
      <3> QED
        BY <3>2, ManifestAssumption
    <2>2. CASE archive[g] \in TombstoneType
      <3>1. archive[g].fresh \ rows \in SUBSET Row
        BY <2>2 DEF TombstoneType
      <3>2. /\ less(g) \in TombstoneType
            /\ less(g).state = archive[g].state /\ archive[g].state = "ARCHIVED"
            /\ less(g).members = archive[g].members
            /\ less(g).fresh = archive[g].fresh \ rows
        BY <2>2, <3>1 DEF TombstoneType
      <3> QED
        BY <3>2, ManifestAssumption
    <2> QED
      BY <1>1, <2>1, <2>2 DEF ReaderType
  <1>2. ArchivesAfter(rows) = [g \in Group |-> after(g)]
    BY DEF ArchivesAfter
  <1> HIDE DEF less
  <1> QED
    BY <1>1, <1>2

-----------------------------------------------------------------------------
(* The steps of a plan *)

\* What the kind of a scope says about whom and what it names.
LEMMA ScopeFields ==
    ASSUME NEW scope \in Scope
    PROVE  /\ scope.kind \in {"ACCOUNT", "OWNER", "GROUP", "DECISION"}
           /\ scope.kind \in {"ACCOUNT", "OWNER"} <=> scope.who # None
           /\ scope.who # None => scope.who \in Subject
           /\ scope.kind = "GROUP" => scope.what \in Group
           /\ scope.kind \in {"OWNER", "DECISION"} => scope.what \in Draft
  BY StoreAssumption DEF Scope

\* A finite set in sequence: each of its elements, and nothing else.
LEMMA SetInSequence ==
    ASSUME NEW S, IsFiniteSet(S)
    PROVE  /\ SetToSeq(S) \in Seq(S)
           /\ \A x \in S : \E i \in 1 .. Len(SetToSeq(S)) : SetToSeq(S)[i] = x
           /\ Len(SetToSeq(S)) = Cardinality(S)
  <1> DEFINE n == Cardinality(S)
             f == SetToSeq(S)
  <1>1. n \in Nat /\ ExistsBijection(1 .. n, S)
    BY FS_CardinalityType
  <1>2. \E g \in [1 .. n -> S] : IsInjective(g)
    BY <1>1 DEF ExistsBijection, Bijection, Injection
  <1>3. f \in [1 .. n -> S] /\ IsInjective(f)
    BY <1>2 DEF SetToSeq
  <1>4. f \in Injection(1 .. n, S)
    BY <1>3 DEF Injection
  <1>5. IsFiniteSet(1 .. n) /\ Cardinality(1 .. n) = n
    BY <1>1, FS_Interval
  <1>6. f \in Surjection(1 .. n, S)
    BY <1>4, <1>5, FS_Injection
  <1>7. \A x \in S : \E i \in 1 .. n : f[i] = x
    BY <1>6 DEF Surjection
  <1>8. f \in Seq(S) /\ Len(f) = n
    BY <1>1, <1>3
  <1> QED
    BY <1>7, <1>8

\* The elements of one sequence and then of another.
LEMMA TwoSequences ==
    ASSUME NEW S, NEW s \in Seq(S), NEW t \in Seq(S)
    PROVE  /\ s \o t \in Seq(S)
           /\ Len(s \o t) = Len(s) + Len(t)
           /\ DOMAIN (s \o t) = 1 .. (Len(s) + Len(t))
           /\ \A i \in DOMAIN s : i \in DOMAIN (s \o t) /\ (s \o t)[i] = s[i]
           /\ \A i \in DOMAIN t : /\ Len(s) + i \in DOMAIN (s \o t)
                                  /\ (s \o t)[Len(s) + i] = t[i]
           /\ \A i \in DOMAIN (s \o t) :
                 \/ i \in DOMAIN s /\ (s \o t)[i] = s[i]
                 \/ i - Len(s) \in DOMAIN t /\ (s \o t)[i] = t[i - Len(s)]
  <1> DEFINE u == s \o t
  <1>1. /\ u \in Seq(S) /\ Len(u) = Len(s) + Len(t)
        /\ \A i \in 1 .. Len(s) + Len(t) :
              u[i] = IF i <= Len(s) THEN s[i] ELSE t[i - Len(s)]
    BY ConcatProperties
  <1>2. /\ Len(s) \in Nat /\ Len(t) \in Nat
        /\ DOMAIN s = 1 .. Len(s) /\ DOMAIN t = 1 .. Len(t) /\ DOMAIN u = 1 .. Len(u)
    BY <1>1, LenProperties
  <1> HIDE DEF u
  <1>3. \A i \in DOMAIN s : i \in DOMAIN u /\ u[i] = s[i]
    BY <1>1, <1>2
  <1>4. \A i \in DOMAIN t : Len(s) + i \in DOMAIN u /\ u[Len(s) + i] = t[i]
    BY <1>1, <1>2
  <1>5. \A i \in DOMAIN u : \/ i \in DOMAIN s /\ u[i] = s[i]
                            \/ i - Len(s) \in DOMAIN t /\ u[i] = t[i - Len(s)]
    BY <1>1, <1>2
  <1> QED
    BY <1>1, <1>2, <1>3, <1>4, <1>5 DEF u

\* The step that rewrites a decision, and the one that removes its receipts.
StateStep(scope, d) ==
    Step(IF scope.who = None THEN "DECISION_STATE" ELSE "OWNER_STATE", d, {GuardRow(d)})

ReplayStep(d) == Step("REPLAYS", d, ReplayRows(d))

\* They are steps.
LEMMA DecisionStepTypes ==
    ASSUME NEW scope, NEW d \in Draft
    PROVE  StateStep(scope, d) \in StepType /\ ReplayStep(d) \in StepType
  <1>1. {GuardRow(d)} \subseteq Row /\ ReplayRows(d) \subseteq Row
    BY RowsAreRows DEF ReplayRows
  <1> QED
    BY <1>1 DEF StateStep, ReplayStep, Step, StepType, StepKind

\* The steps on decisions: each one rewritten, and its receipts removed next.
LEMMA StepsOnDecisions ==
    ASSUME NEW scope \in Scope
    PROVE  LET D == DecisionSteps(scope) IN
           /\ D \in Seq(StepType)
           /\ \A i \in DOMAIN D : \E d \in Rewrites(scope) :
                 \/ /\ D[i] = StateStep(scope, d)
                    /\ ReplayRows(d) # {} => i + 1 \in DOMAIN D /\ D[i + 1] = ReplayStep(d)
                 \/ D[i] = ReplayStep(d)
           /\ \A d \in Rewrites(scope) : \E i \in DOMAIN D : D[i] = StateStep(scope, d)
  <1> DEFINE W == {d \in Rewrites(scope) : ReplayRows(d) # {}}
             O == {d \in Rewrites(scope) : ReplayRows(d) = {}}
             with == SetToSeq(W)
             without == SetToSeq(O)
             first == [i \in 1 .. 2 * Len(with) |->
                          IF i % 2 = 1 THEN StateStep(scope, with[(i + 1) \div 2])
                          ELSE ReplayStep(with[i \div 2])]
             second == [i \in DOMAIN without |-> StateStep(scope, without[i])]
             D == DecisionSteps(scope)
  <1>1. D = first \o second
    BY DEF DecisionSteps, StateStep, ReplayStep
  <1>2. Rewrites(scope) \subseteq Draft
    <2>1. ScopeDecisions(scope) \subseteq Draft
      BY ScopeFields DEF ScopeDecisions
    <2> QED
      BY <2>1 DEF Rewrites
  <1>3. W \subseteq Draft /\ O \subseteq Draft /\ Rewrites(scope) = W \cup O
    BY <1>2
  <1>4. IsFiniteSet(W) /\ IsFiniteSet(O)
    BY <1>3, FS_Subset, StoreAssumption
  <1>5. /\ with \in Seq(W) /\ \A x \in W : \E i \in 1 .. Len(with) : with[i] = x
        /\ without \in Seq(O) /\ \A x \in O : \E i \in 1 .. Len(without) : without[i] = x
    BY <1>4, SetInSequence
  <1> DEFINE m == Len(with)
             n == Len(without)
  <1> HIDE DEF W, O, with, without, D
  <1>6. /\ m \in Nat /\ n \in Nat /\ DOMAIN without = 1 .. n
        /\ \A i \in 1 .. m : with[i] \in W
        /\ \A i \in 1 .. n : without[i] \in O
    BY <1>5
  <1>7. ASSUME NEW i \in 1 .. 2 * m
        PROVE  \/ /\ i % 2 = 1 /\ (i + 1) \div 2 \in 1 .. m /\ i + 1 \in 1 .. 2 * m
                  /\ (i + 1) % 2 # 1 /\ (i + 1) \div 2 = (i + 1) \div 2
               \/ i % 2 # 1 /\ i \div 2 \in 1 .. m
    BY <1>6
  <1>8. ASSUME NEW i \in 1 .. 2 * m
        PROVE  \/ /\ i % 2 = 1
                  /\ first[i] = StateStep(scope, with[(i + 1) \div 2])
                  /\ with[(i + 1) \div 2] \in W
                  /\ i + 1 \in 1 .. 2 * m
                  /\ first[i + 1] = ReplayStep(with[(i + 1) \div 2])
               \/ first[i] = ReplayStep(with[i \div 2]) /\ with[i \div 2] \in W
    BY <1>6, <1>7
  <1>9. first \in Seq(StepType) /\ Len(first) = 2 * m
    <2>1. \A i \in 1 .. 2 * m : first[i] \in StepType
      BY <1>3, <1>8, DecisionStepTypes
    <2> QED
      BY <1>6, <2>1
  <1>10. second \in Seq(StepType) /\ Len(second) = n
    <2>1. \A i \in 1 .. n : second[i] \in StepType
      BY <1>3, <1>6, DecisionStepTypes
    <2> QED
      BY <1>6, <2>1
  <1>11. \A i \in 1 .. n : second[i] = StateStep(scope, without[i])
    BY <1>6
  <1>12. \A d \in W : \E i \in 1 .. 2 * m : first[i] = StateStep(scope, d)
    <2> SUFFICES ASSUME NEW d \in W
                 PROVE  \E i \in 1 .. 2 * m : first[i] = StateStep(scope, d)
      OBVIOUS
    <2>1. PICK k \in 1 .. m : with[k] = d
      BY <1>5
    <2>2. 2 * k - 1 \in 1 .. 2 * m /\ (2 * k - 1) % 2 = 1 /\ ((2 * k - 1) + 1) \div 2 = k
      BY <1>6
    <2> QED
      BY <2>1, <2>2
  <1> HIDE DEF first, second, m, n
  <1>13. /\ D \in Seq(StepType)
         /\ DOMAIN D = 1 .. (2 * m + n)
         /\ \A i \in 1 .. 2 * m : D[i] = first[i]
         /\ \A i \in 1 .. n : D[2 * m + i] = second[i]
         /\ \A i \in DOMAIN D : i \in 1 .. 2 * m \/ (i - 2 * m \in 1 .. n /\ D[i] = second[i - 2 * m])
    <2>1. DOMAIN first = 1 .. 2 * m /\ DOMAIN second = 1 .. n
      BY <1>9, <1>10, LenProperties
    <2>2. /\ D \in Seq(StepType)
          /\ DOMAIN D = 1 .. (2 * m + n)
          /\ \A i \in DOMAIN first : D[i] = first[i]
          /\ \A i \in DOMAIN second : D[2 * m + i] = second[i]
          /\ \A i \in DOMAIN D :
                \/ i \in DOMAIN first
                \/ i - 2 * m \in DOMAIN second /\ D[i] = second[i - 2 * m]
      BY <1>1, <1>9, <1>10, TwoSequences
    <2> QED
      BY <2>1, <2>2
  <1>14. ASSUME NEW i \in DOMAIN D
         PROVE  \E d \in Rewrites(scope) :
                   \/ /\ D[i] = StateStep(scope, d)
                      /\ ReplayRows(d) # {} => i + 1 \in DOMAIN D /\ D[i + 1] = ReplayStep(d)
                   \/ D[i] = ReplayStep(d)
    <2>1. CASE i \in 1 .. 2 * m
      <3>1. CASE /\ first[i] = StateStep(scope, with[(i + 1) \div 2])
                 /\ with[(i + 1) \div 2] \in W
                 /\ i + 1 \in 1 .. 2 * m
                 /\ first[i + 1] = ReplayStep(with[(i + 1) \div 2])
        <4>1. i + 1 \in DOMAIN D
          BY <1>6, <1>13, <3>1 DEF m, n
        <4> QED
          BY <1>3, <1>13, <2>1, <3>1, <4>1
      <3>2. CASE first[i] = ReplayStep(with[i \div 2]) /\ with[i \div 2] \in W
        BY <1>3, <1>13, <2>1, <3>2
      <3> QED
        BY <1>8, <2>1, <3>1, <3>2
    <2>2. CASE i - 2 * m \in 1 .. n /\ D[i] = second[i - 2 * m]
      <3>1. D[i] = StateStep(scope, without[i - 2 * m]) /\ without[i - 2 * m] \in O
        BY <1>6, <1>11, <2>2
      <3> QED
        BY <1>3, <3>1 DEF O
    <2> QED
      BY <1>13, <2>1, <2>2
  <1>15. ASSUME NEW d \in Rewrites(scope)
         PROVE  \E i \in DOMAIN D : D[i] = StateStep(scope, d)
    <2>1. CASE d \in W
      <3>1. PICK i \in 1 .. 2 * m : first[i] = StateStep(scope, d)
        BY <1>12, <2>1
      <3>2. i \in DOMAIN D
        BY <1>6, <1>13, <3>1 DEF m, n
      <3> QED
        BY <1>13, <3>1, <3>2
    <2>2. CASE d \in O
      <3>1. PICK i \in 1 .. n : without[i] = d
        BY <1>5, <2>2 DEF n
      <3>2. 2 * m + i \in DOMAIN D
        BY <1>6, <1>13, <3>1 DEF m, n
      <3> QED
        BY <1>11, <1>13, <3>1, <3>2
    <2> QED
      BY <1>3, <2>1, <2>2
  <1> QED
    BY <1>13, <1>14, <1>15 DEF D

\* The step that freezes the root.
LEMMA FreezingSteps ==
    ASSUME StoreType, NEW scope \in Scope
    PROVE  LET F == FenceSteps(scope) IN
           /\ F \in Seq(StepType)
           /\ scope.kind = "ACCOUNT" =>
                 F = <<Step("ACCOUNT_FENCE", scope.who, RootRows(scope))>>
           /\ scope.kind = "GROUP" =>
                 F = <<Step("GROUP_FENCE", scope.what, RootRows(scope))>>
           /\ scope.kind \notin {"ACCOUNT", "GROUP"} => F = <<>>
  <1>1. RootRows(scope) \subseteq Row
    <2>1. ScopeGroups(scope) \subseteq Group
      BY ScopeFields, StoreAssumption DEF ScopeGroups, StoreType
    <2>2. ScopeDecisions(scope) \subseteq Draft
      BY ScopeFields DEF ScopeDecisions
    <2> QED
      BY <2>1, <2>2, RowsAreRows, ScopeFields DEF RootRows
  <1>2. CASE scope.kind = "ACCOUNT"
    <2>1. Step("ACCOUNT_FENCE", scope.who, RootRows(scope)) \in StepType
      BY <1>1, <1>2, ScopeFields DEF Step, StepType, StepKind
    <2> HIDE DEF Step
    <2> QED
      BY <1>2, <2>1 DEF FenceSteps
  <1>3. CASE scope.kind = "GROUP"
    <2>1. Step("GROUP_FENCE", scope.what, RootRows(scope)) \in StepType
      BY <1>1, <1>3, ScopeFields DEF Step, StepType, StepKind
    <2> QED
      BY <1>3, <2>1 DEF FenceSteps
  <1>4. CASE scope.kind \notin {"ACCOUNT", "GROUP"}
    BY <1>4 DEF FenceSteps
  <1> QED
    BY <1>2, <1>3, <1>4

\* One step for the drafts of each group that has any.
LEMMA StepsOnGroups ==
    ASSUME StoreType, NEW scope \in Scope, NEW kind \in StepKind
    PROVE  LET G == GroupSteps(scope, kind) IN
           /\ G \in Seq(StepType)
           /\ \A i \in DOMAIN G : \E g \in ScopeGroups(scope) :
                 G[i] = Step(kind, g, DraftRows(g))
           /\ \A g \in ScopeGroups(scope) : DraftRows(g) # {} =>
                 \E i \in DOMAIN G : G[i] = Step(kind, g, DraftRows(g))
           /\ scope.kind = "GROUP" => Len(G) <= 1
  <1> DEFINE S == {g \in ScopeGroups(scope) : DraftRows(g) # {}}
             all == SetToSeq(S)
             G == GroupSteps(scope, kind)
  <1>1. ScopeGroups(scope) \subseteq Group
    BY ScopeFields, StoreAssumption DEF ScopeGroups, StoreType
  <1>2. IsFiniteSet(S)
    BY <1>1, FS_Subset, StoreAssumption
  <1>3. /\ all \in Seq(S) /\ Len(all) = Cardinality(S)
        /\ \A x \in S : \E i \in 1 .. Len(all) : all[i] = x
    BY <1>2, SetInSequence
  <1>4. ASSUME NEW g \in S
        PROVE  Step(kind, g, DraftRows(g)) \in StepType
    <2>1. DraftRows(g) \subseteq Row
      BY RowsAreRows DEF DraftRows
    <2> QED
      BY <1>1, <2>1 DEF Step, StepType
  <1>5. G = [i \in DOMAIN all |-> Step(kind, all[i], DraftRows(all[i]))]
    BY DEF GroupSteps
  <1> HIDE DEF S, all, G
  <1>6. /\ Len(all) \in Nat /\ DOMAIN all = 1 .. Len(all)
        /\ \A i \in DOMAIN all : all[i] \in S
    BY <1>3, LenProperties
  <1>7. /\ G \in Seq(StepType) /\ Len(G) = Len(all) /\ DOMAIN G = DOMAIN all
        /\ \A i \in DOMAIN G : G[i] = Step(kind, all[i], DraftRows(all[i]))
    <2>1. \A i \in 1 .. Len(all) : G[i] \in StepType
      BY <1>4, <1>5, <1>6
    <2> QED
      BY <1>5, <1>6, <2>1
  <1>8. scope.kind = "GROUP" => Len(G) <= 1
    <2> SUFFICES ASSUME scope.kind = "GROUP"
                 PROVE  Cardinality(S) <= 1
      BY <1>3, <1>7
    <2>1. S \subseteq {scope.what}
      BY DEF S, ScopeGroups
    <2>2. IsFiniteSet({scope.what}) /\ Cardinality({scope.what}) = 1
      BY FS_Singleton
    <2> QED
      BY <2>1, <2>2, FS_Subset
  <1> QED
    BY <1>3, <1>6, <1>7, <1>8 DEF S, G

\* The steps after the decisions have been dealt with.
LEMMA FinishingSteps ==
    ASSUME StoreType, NEW scope \in Scope
    PROVE  LET L == LastSteps(scope) IN
           /\ L \in Seq(StepType)
           /\ scope.kind = "ACCOUNT" =>
                 /\ \A i \in DOMAIN L :
                       \/ \E g \in ScopeGroups(scope) :
                             L[i] = Step("ACCOUNT_DRAFTS", g, DraftRows(g))
                       \/ i = Len(L) /\ L[i] = Step("ACCOUNT_FINAL", scope.who, {})
                 /\ \A g \in ScopeGroups(scope) : DraftRows(g) # {} =>
                       \E i \in DOMAIN L : L[i] = Step("ACCOUNT_DRAFTS", g, DraftRows(g))
           /\ scope.kind = "GROUP" =>
                 \A i \in DOMAIN L :
                    /\ i = Len(L)
                    /\ L[i] = Step("PARTITION_ROWS", scope.what, DraftRows(scope.what))
           /\ scope.kind \notin {"ACCOUNT", "GROUP"} => L = <<>>
  <1> DEFINE L == LastSteps(scope)
  <1>1. CASE scope.kind = "ACCOUNT"
    <2> DEFINE G == GroupSteps(scope, "ACCOUNT_DRAFTS")
               final == Step("ACCOUNT_FINAL", scope.who, {})
    <2>1. final \in StepType
      BY <1>1, ScopeFields DEF Step, StepType, StepKind
    <2>2. /\ G \in Seq(StepType)
          /\ \A i \in DOMAIN G : \E g \in ScopeGroups(scope) :
                G[i] = Step("ACCOUNT_DRAFTS", g, DraftRows(g))
          /\ \A g \in ScopeGroups(scope) : DraftRows(g) # {} =>
                \E i \in DOMAIN G : G[i] = Step("ACCOUNT_DRAFTS", g, DraftRows(g))
      BY StepsOnGroups DEF StepKind
    <2>3. L = G \o <<final>>
      BY <1>1 DEF LastSteps
    <2> HIDE DEF G, final, L
    <2>4. <<final>> \in Seq(StepType) /\ Len(<<final>>) = 1 /\ <<final>>[1] = final
          /\ DOMAIN <<final>> = {1}
      BY <2>1
    <2>5. /\ L \in Seq(StepType) /\ Len(L) = Len(G) + 1
          /\ \A i \in DOMAIN G : i \in DOMAIN L /\ L[i] = G[i]
          /\ \A i \in DOMAIN L : \/ i \in DOMAIN G /\ L[i] = G[i]
                                 \/ i - Len(G) = 1 /\ L[i] = final
      BY <2>2, <2>3, <2>4, TwoSequences
    <2>6. \A i \in DOMAIN L : i - Len(G) = 1 => i = Len(L)
      BY <2>2, <2>5, LenProperties
    <2> QED
      BY <1>1, <2>2, <2>5, <2>6 DEF L, final
  <1>2. CASE scope.kind = "GROUP"
    <2>1. /\ L \in Seq(StepType)
          /\ \A i \in DOMAIN L : \E g \in ScopeGroups(scope) :
                L[i] = Step("PARTITION_ROWS", g, DraftRows(g))
          /\ Len(L) <= 1
      BY <1>2, StepsOnGroups DEF StepKind, LastSteps
    <2>2. \A i \in DOMAIN L : i = Len(L)
      BY <2>1, LenProperties
    <2>3. ScopeGroups(scope) = {scope.what}
      BY <1>2 DEF ScopeGroups
    <2> HIDE DEF L
    <2> QED
      BY <1>2, <2>1, <2>2, <2>3 DEF L
  <1>3. CASE scope.kind \notin {"ACCOUNT", "GROUP"}
    BY <1>3 DEF LastSteps
  <1> QED
    BY <1>1, <1>2, <1>3

\* What the i-th step of a new plan can be.
NewStep(scope, steps, i) ==
    \/ /\ scope.kind = "ACCOUNT" /\ i = 1
       /\ steps[i] = Step("ACCOUNT_FENCE", scope.who, RootRows(scope))
    \/ /\ scope.kind = "GROUP" /\ i = 1
       /\ steps[i] = Step("GROUP_FENCE", scope.what, RootRows(scope))
    \/ \E d \in Rewrites(scope) :
          \/ /\ steps[i] = StateStep(scope, d)
             /\ ReplayRows(d) # {} =>
                   i + 1 \in DOMAIN steps /\ steps[i + 1] = ReplayStep(d)
          \/ steps[i] = ReplayStep(d)
    \/ /\ scope.kind = "ACCOUNT"
       /\ \/ \E g \in ScopeGroups(scope) :
                steps[i] = Step("ACCOUNT_DRAFTS", g, DraftRows(g))
          \/ /\ i = Len(steps)
             /\ steps[i] = Step("ACCOUNT_FINAL", scope.who, {})
    \/ /\ scope.kind = "GROUP" /\ i = Len(steps)
       /\ steps[i] = Step("PARTITION_ROWS", scope.what, DraftRows(scope.what))

\* A new plan freezes the root first, rewrites every decision it has to and
\* then removes its receipts, and takes the names out of every draft.
LEMMA NewPlan ==
    ASSUME StoreType, NEW scope \in Scope
    PROVE  LET steps == StepsOf(scope) IN
           /\ steps \in Seq(StepType)
           /\ scope.kind = "ACCOUNT" =>
                 steps # <<>> /\ steps[1] = Step("ACCOUNT_FENCE", scope.who, RootRows(scope))
           /\ scope.kind = "GROUP" =>
                 steps # <<>> /\ steps[1] = Step("GROUP_FENCE", scope.what, RootRows(scope))
           /\ \A i \in DOMAIN steps : NewStep(scope, steps, i)
           /\ \A d \in Rewrites(scope) : \E i \in DOMAIN steps : steps[i] = StateStep(scope, d)
           /\ scope.kind = "ACCOUNT" =>
                 \A g \in ScopeGroups(scope) : DraftRows(g) # {} =>
                    \E i \in DOMAIN steps : steps[i] = Step("ACCOUNT_DRAFTS", g, DraftRows(g))
  <1> DEFINE F == FenceSteps(scope)
             D == DecisionSteps(scope)
             L == LastSteps(scope)
             FD == F \o D
             steps == StepsOf(scope)
  <1>1. steps = FD \o L
    <2>1. F \o (D \o L) = FD \o L
      BY FreezingSteps, StepsOnDecisions, FinishingSteps, ConcatAssociative
    <2> QED
      BY <2>1 DEF StepsOf
  <1>2. F \in Seq(StepType) /\ D \in Seq(StepType) /\ L \in Seq(StepType)
    BY FreezingSteps, StepsOnDecisions, FinishingSteps
  <1> HIDE DEF F, D, L, FD, steps
  <1>3. /\ FD \in Seq(StepType) /\ Len(FD) = Len(F) + Len(D)
        /\ \A i \in DOMAIN F : i \in DOMAIN FD /\ FD[i] = F[i]
        /\ \A i \in DOMAIN D : Len(F) + i \in DOMAIN FD /\ FD[Len(F) + i] = D[i]
        /\ \A i \in DOMAIN FD : \/ i \in DOMAIN F /\ FD[i] = F[i]
                                \/ i - Len(F) \in DOMAIN D /\ FD[i] = D[i - Len(F)]
    BY <1>2, TwoSequences DEF FD
  <1>4. /\ steps \in Seq(StepType) /\ Len(steps) = Len(FD) + Len(L)
        /\ \A i \in DOMAIN FD : i \in DOMAIN steps /\ steps[i] = FD[i]
        /\ \A i \in DOMAIN L : Len(FD) + i \in DOMAIN steps /\ steps[Len(FD) + i] = L[i]
        /\ \A i \in DOMAIN steps : \/ i \in DOMAIN FD /\ steps[i] = FD[i]
                                   \/ i - Len(FD) \in DOMAIN L /\ steps[i] = L[i - Len(FD)]
    <2>1. FD \in Seq(StepType)
      BY <1>3
    <2> QED
      BY <1>1, <1>2, <2>1, TwoSequences
  <1>5. /\ Len(F) \in Nat /\ Len(D) \in Nat /\ Len(L) \in Nat /\ Len(FD) \in Nat
        /\ DOMAIN F = 1 .. Len(F) /\ DOMAIN D = 1 .. Len(D) /\ DOMAIN L = 1 .. Len(L)
        /\ DOMAIN steps = 1 .. Len(steps)
    BY <1>2, <1>3, <1>4, LenProperties
  <1>6. scope.kind = "ACCOUNT" =>
           /\ DOMAIN F = {1} /\ F[1] = Step("ACCOUNT_FENCE", scope.who, RootRows(scope))
           /\ steps # <<>> /\ steps[1] = F[1]
    <2>1. scope.kind = "ACCOUNT" => Len(F) = 1 /\ F[1] = Step("ACCOUNT_FENCE", scope.who, RootRows(scope))
      BY FreezingSteps DEF F
    <2>2. Len(F) = 1 => DOMAIN F = {1}
      BY <1>5
    <2>3. 1 \in DOMAIN F => 1 \in DOMAIN steps /\ steps[1] = F[1]
      BY <1>3, <1>4
    <2>4. 1 \in DOMAIN steps => steps # <<>>
      BY <1>5
    <2> QED
      BY <2>1, <2>2, <2>3, <2>4
  <1>7. scope.kind = "GROUP" =>
           /\ DOMAIN F = {1} /\ F[1] = Step("GROUP_FENCE", scope.what, RootRows(scope))
           /\ steps # <<>> /\ steps[1] = F[1]
    <2>1. scope.kind = "GROUP" => Len(F) = 1 /\ F[1] = Step("GROUP_FENCE", scope.what, RootRows(scope))
      BY FreezingSteps DEF F
    <2>2. Len(F) = 1 => DOMAIN F = {1}
      BY <1>5
    <2>3. 1 \in DOMAIN F => 1 \in DOMAIN steps /\ steps[1] = F[1]
      BY <1>3, <1>4
    <2>4. 1 \in DOMAIN steps => steps # <<>>
      BY <1>5
    <2> QED
      BY <2>1, <2>2, <2>3, <2>4
  <1>8. scope.kind \notin {"ACCOUNT", "GROUP"} => DOMAIN F = {}
    <2>1. scope.kind \notin {"ACCOUNT", "GROUP"} => Len(F) = 0
      BY FreezingSteps DEF F
    <2> QED
      BY <1>5, <2>1
  <1>9. ASSUME NEW i \in DOMAIN steps
        PROVE  NewStep(scope, steps, i)
    <2>1. CASE i \in DOMAIN F /\ steps[i] = F[i]
      BY <1>6, <1>7, <1>8, <2>1 DEF NewStep
    <2>2. CASE i - Len(F) \in DOMAIN D /\ steps[i] = D[i - Len(F)]
      <3>1. PICK d \in Rewrites(scope) :
               \/ /\ D[i - Len(F)] = StateStep(scope, d)
                  /\ ReplayRows(d) # {} => /\ (i - Len(F)) + 1 \in DOMAIN D
                                           /\ D[(i - Len(F)) + 1] = ReplayStep(d)
               \/ D[i - Len(F)] = ReplayStep(d)
        BY <2>2, StepsOnDecisions DEF D
      <3>2. (i - Len(F)) + 1 \in DOMAIN D =>
               i + 1 \in DOMAIN steps /\ steps[i + 1] = D[(i - Len(F)) + 1]
        <4> SUFFICES ASSUME (i - Len(F)) + 1 \in DOMAIN D
                     PROVE  i + 1 \in DOMAIN steps /\ steps[i + 1] = D[(i - Len(F)) + 1]
          OBVIOUS
        <4>1. Len(F) + ((i - Len(F)) + 1) = i + 1
          BY <1>5
        <4> QED
          BY <1>3, <1>4, <4>1
      <3> QED
        BY <2>2, <3>1, <3>2 DEF NewStep
    <2>3. CASE i - Len(FD) \in DOMAIN L /\ steps[i] = L[i - Len(FD)]
      <3>1. i - Len(FD) = Len(L) => i = Len(steps)
        BY <1>4, <1>5, <2>3
      <3>2. CASE scope.kind = "ACCOUNT"
        BY <2>3, <3>1, <3>2, FinishingSteps DEF NewStep, L
      <3>3. CASE scope.kind = "GROUP"
        BY <2>3, <3>1, <3>3, FinishingSteps DEF NewStep, L
      <3>4. CASE scope.kind \notin {"ACCOUNT", "GROUP"}
        BY <1>5, <2>3, <3>4, FinishingSteps DEF L
      <3> QED
        BY <3>2, <3>3, <3>4
    <2> QED
      BY <1>3, <1>4, <2>1, <2>2, <2>3
  <1>10. ASSUME NEW d \in Rewrites(scope)
         PROVE  \E i \in DOMAIN steps : steps[i] = StateStep(scope, d)
    <2>1. PICK i \in DOMAIN D : D[i] = StateStep(scope, d)
      BY StepsOnDecisions DEF D
    <2>2. Len(F) + i \in DOMAIN steps /\ steps[Len(F) + i] = D[i]
      BY <1>3, <1>4, <2>1
    <2> QED
      BY <2>1, <2>2
  <1>11. ASSUME scope.kind = "ACCOUNT", NEW g \in ScopeGroups(scope), DraftRows(g) # {}
         PROVE  \E i \in DOMAIN steps : steps[i] = Step("ACCOUNT_DRAFTS", g, DraftRows(g))
    <2>1. PICK i \in DOMAIN L : L[i] = Step("ACCOUNT_DRAFTS", g, DraftRows(g))
      BY <1>11, FinishingSteps DEF L
    <2>2. Len(FD) + i \in DOMAIN steps /\ steps[Len(FD) + i] = L[i]
      BY <1>4, <2>1
    <2> QED
      BY <2>1, <2>2
  <1> QED
    BY <1>4, <1>6, <1>7, <1>9, <1>10, <1>11 DEF steps

-----------------------------------------------------------------------------
(* What people do: a step of GroupSessions and the rows it writes *)

\* The plans, archives and requests that read one of the rows know it; nobody
\* else does, and a fence that is new describes the group as it is.
ReadersKnow(rows) ==
    /\ plan' = PlansAfter(rows) /\ archive' = ArchivesAfter(rows)
    /\ journal' = journal /\ consent' = consent
    /\ request' \in [Subject -> {None} \cup RequestType]
    /\ \A s \in Subject : request'[s] # None /\ request'[s].current =>
          \/ request'[s] = RequestsAfter(rows)[s]
          \/ rows = {} /\ MayFence(s, request'[s].kind, request'[s].on)
               /\ request'[s].roster = Members(GroupOf[request'[s].on])

\* Accounts, groups, drafts and bindings change with their rows, drafts and
\* bindings with the header; what is frozen or archived stays.
GroupsChange(rows) ==
    /\ \A s \in Subject :
          /\ AccountRow(s) \notin rows => account'[s] = account[s] /\ edges'[s] = edges[s]
          /\ edges[s] \subseteq edges'[s]
          /\ Approved(s) => Approved(s)'
          /\ Frozen(s) => account'[s] = account[s]
          /\ ~Frozen(s) => ~Frozen(s)'
    /\ \A g \in Group :
          /\ HeaderRow(g) \notin rows => group'[g] = group[g]
          /\ group[g].status = "ARCHIVED" => group'[g] = group[g]
    /\ \A d \in Draft :
          /\ HeaderRow(GroupOf[d]) \notin rows => draft'[d] = draft[d] /\ binding'[d] = binding[d]
          /\ \A s \in draft'[d].names \ draft[d].names : Approved(s)

\* Decisions change with their guard.  Somebody who comes in is approved,
\* nobody loses what they hold, and a receipt is written for holders only.
DecisionsChange(rows) ==
    \A d \in Draft :
        /\ GuardRow(d) \notin rows => /\ decision'[d] = decision[d]
                                      /\ \A s \in Subject : ReplayRow(d, s) \notin rows
        /\ Stored(d)' => \/ Stored(d)
                         \/ /\ HeaderRow(GroupOf[d]) \in rows
                            /\ group[GroupOf[d]].status = "OPEN"
        /\ \A s \in (Holders(d)' \cup decision'[d].members)
                       \ (Holders(d) \cup decision[d].members) : Approved(s)
        /\ Holders(d) \subseteq Holders(d)'
        /\ \A s \in Subject : decision'[d].receipt[s] # None =>
              \/ s \in Holders(d)'
              \/ /\ decision'[d].receipt[s] = decision[d].receipt[s]
                 /\ ReplayRow(d, s) \notin rows

SessionEffect(rows) ==
    ReadersKnow(rows) /\ GroupsChange(rows) /\ DecisionsChange(rows)

SessionStep ==
    StoreInv' /\ \E rows \in SUBSET Row : SessionEffect(rows)

\* Members, seats, holders and names are people.
LEMMA PeopleAreSubjects ==
    ASSUME StoreType
    PROVE  /\ \A g \in Group : Members(g) \subseteq Subject
           /\ \A d \in Draft : /\ Seated(d) \subseteq Subject
                               /\ Holders(d) \subseteq Subject
                               /\ draft[d].names \subseteq Subject
  BY DEF StoreType, GroupType, DecisionType, DraftType, Members, Seated, Holders

\* A step that leaves decisions alone and writes no guard and no receipt.
LEMMA DecisionsStay ==
    ASSUME decision' = decision, NEW rows,
           \A d \in Draft, s \in Subject : ReplayRow(d, s) \notin rows
    PROVE  DecisionsChange(rows)
  BY DEF DecisionsChange, Holders, Stored

\* Touching rows lets everybody know.
LEMMA TouchedReaders ==
    ASSUME ReaderType, NEW rows, Touch(rows)
    PROVE  ReadersKnow(rows)
  BY RequestsAfterWrite DEF Touch, ReadersKnow

\* A step on an account alone: nobody is frozen or released by it.
LEMMA AccountSteps ==
    ASSUME SystemInv, NEW s \in Subject, Register(s) \/ Approve(s) \/ UpdateProfile(s)
    PROVE  SessionStep
  <1> DEFINE rows == {AccountRow(s)}
  <1>1. StoreType /\ ReaderType
    BY DEF SystemInv, StoreInv
  <1>2. /\ Touch(rows)
        /\ UNCHANGED <<edges, group, invitation, draft, binding, decision>>
    BY DEF Register, Approve, UpdateProfile
  <1>3. /\ account' \in [Subject -> AccountType]
        /\ \A t \in Subject : t # s => account'[t] = account[t]
        /\ Approved(s) => Approved(s)'
        /\ ~Frozen(s) /\ ~Frozen(s)'
    <2>1. CASE Register(s)
      BY <1>1, <2>1 DEF Register, StoreType, AccountType, Approved, Frozen
    <2>2. CASE Approve(s)
      BY <1>1, <2>2 DEF Approve, StoreType, AccountType, Approved, Frozen
    <2>3. CASE UpdateProfile(s)
      BY <1>1, <2>3 DEF UpdateProfile, StoreType, AccountType, Approved, Frozen
    <2> QED
      BY <2>1, <2>2, <2>3
  <1>4. StoreInv'
    BY <1>1, <1>2, <1>3
    DEF SystemInv, StoreInv, StoreType, RosterInv, DecisionInv, Members, Stored, Holders,
        Seated, CurrentBindingMatchesRoster
  <1>5. rows \in SUBSET Row
    BY RowsAreRows
  <1>6. GroupsChange(rows)
    BY <1>2, <1>3, RowsDiffer DEF GroupsChange, Approved, Frozen
  <1>7. DecisionsChange(rows)
    BY <1>2, DecisionsStay, RowsDiffer
  <1> QED
    BY <1>1, <1>2, <1>4, <1>5, <1>6, <1>7, TouchedReaders DEF SessionStep, SessionEffect

\* A change of the group's version leaves drafts and bindings behind, and
\* nothing else about them changes.
LEMMA LeftBehind ==
    ASSUME StoreType, NEW g \in Group
    PROVE  /\ DraftsLeftBehind(g) \in [Draft -> DraftType]
           /\ \A d \in Draft :
                 /\ DraftsLeftBehind(g)[d].names = draft[d].names
                 /\ DraftsLeftBehind(g)[d].status = "NONE" <=> draft[d].status = "NONE"
                 /\ GroupOf[d] # g => DraftsLeftBehind(g)[d] = draft[d]
           /\ BindingsLeftBehind(g) \in [Draft -> BindingType]
           /\ \A d \in Draft :
                 /\ BindingsLeftBehind(g)[d] = "NONE" <=> binding[d] = "NONE"
                 /\ GroupOf[d] = g => BindingsLeftBehind(g)[d] # "CURRENT"
                 /\ GroupOf[d] # g => BindingsLeftBehind(g)[d] = binding[d]
  <1> DEFINE after(d) == IF GroupOf[d] = g /\ draft[d].status = "CURRENT"
                         THEN [draft[d] EXCEPT !.status = "STALE"] ELSE draft[d]
  <1>1. ASSUME NEW d \in Draft
        PROVE  /\ after(d) \in DraftType /\ after(d).names = draft[d].names
               /\ after(d).status = "NONE" <=> draft[d].status = "NONE"
               /\ GroupOf[d] # g => after(d) = draft[d]
    BY DEF StoreType, DraftType
  <1>2. DraftsLeftBehind(g) = [d \in Draft |-> after(d)]
    BY DEF DraftsLeftBehind
  <1> HIDE DEF after
  <1>3. /\ DraftsLeftBehind(g) \in [Draft -> DraftType]
        /\ \A d \in Draft :
              /\ DraftsLeftBehind(g)[d].names = draft[d].names
              /\ DraftsLeftBehind(g)[d].status = "NONE" <=> draft[d].status = "NONE"
              /\ GroupOf[d] # g => DraftsLeftBehind(g)[d] = draft[d]
    BY <1>1, <1>2
  <1> QED
    BY <1>3 DEF BindingsLeftBehind, StoreType, BindingType

\* A group step writes the header of g, and accounts; what it leaves of the
\* store is sound when the roster, drafts and bindings of g are.
LEMMA GroupStep1 ==
    ASSUME SystemInv, NEW g \in Group, NEW rows \in SUBSET Row, Touch(rows),
           HeaderRow(g) \in rows, group[g].status # "ARCHIVED",
           \A d \in Draft, s \in Subject : ReplayRow(d, s) \notin rows,
           account' = account, decision' = decision,
           edges' \in [Subject -> SUBSET Group],
           \A s \in Subject : /\ edges[s] \subseteq edges'[s]
                              /\ AccountRow(s) \notin rows => edges'[s] = edges[s],
           group' \in [Group -> GroupType],
           \A h \in Group : h # g => group'[h] = group[h],
           \/ group'[g].status # "ABSENT" /\ group'[g].organizer \in Subject
           \/ group'[g] = group[g],
           \A s \in Members(g)' : g \in edges'[s],
           invitation' \in [Group -> [Subject -> {None, "OPEN", "ACCEPTED"}]],
           draft' \in [Draft -> DraftType],
           binding' \in [Draft -> BindingType],
           \A d \in Draft : /\ draft'[d].names = draft[d].names
                            /\ draft'[d].status = "NONE" <=> draft[d].status = "NONE"
                            /\ binding'[d] = "NONE" <=> binding[d] = "NONE"
                            /\ GroupOf[d] # g => draft'[d] = draft[d] /\ binding'[d] = binding[d]
                            /\ GroupOf[d] = g /\ group'[g].status = "OPEN"
                                 /\ binding'[d] = "CURRENT" =>
                                    Seated(d) \subseteq Members(g)'
    PROVE  SessionStep
  <1>1. StoreType /\ ReaderType /\ RosterInv /\ DecisionInv /\ CurrentBindingMatchesRoster
    BY DEF SystemInv, StoreInv
  <1>2. StoreType'
    BY <1>1 DEF StoreType
  <1>3. RosterInv'
    <2> SUFFICES ASSUME NEW h \in Group
                 PROVE  /\ \A s \in Members(h)' : h \in edges'[s]
                        /\ group'[h].status \in {"OPEN", "DELETED"} =>
                              group'[h].organizer \in Subject
                        /\ group'[h].status = "ABSENT" =>
                              /\ Members(h)' = {}
                              /\ \A d \in ChildrenOf(h) : binding'[d] = "NONE"
      BY DEF RosterInv, ChildrenOf
    <2>1. CASE h = g
      BY <1>1, <2>1 DEF RosterInv, Members, ChildrenOf
    <2>2. CASE h # g
      BY <1>1, <2>2, PeopleAreSubjects DEF RosterInv, Members, ChildrenOf
    <2> QED
      BY <2>1, <2>2
  <1>4. DecisionInv'
    BY <1>1, PeopleAreSubjects DEF DecisionInv, Stored, Holders, Seated
  <1>5. CurrentBindingMatchesRoster'
    BY <1>1, StoreAssumption DEF CurrentBindingMatchesRoster, Seated, Members
  <1>6. GroupsChange(rows)
    BY <1>1, StoreAssumption DEF GroupsChange, Frozen, Approved
  <1>7. DecisionsChange(rows)
    BY DecisionsStay
  <1> QED
    BY <1>1, <1>2, <1>3, <1>4, <1>5, <1>6, <1>7, TouchedReaders
    DEF SessionStep, SessionEffect, StoreInv

\* A group is made by somebody approved, where there was none.
LEMMA CreateStep ==
    ASSUME SystemInv, NEW s \in Subject, NEW g \in Group, Create(s, g)
    PROVE  SessionStep
  <1> DEFINE rows == {AccountRow(s), HeaderRow(g)}
             new == [status |-> "OPEN", organizer |-> s, members |-> {s}]
  <1>1. StoreType /\ RosterInv
    BY DEF SystemInv, StoreInv
  <1>2. rows \in SUBSET Row /\ \A d, t : ReplayRow(d, t) \notin rows
    BY RowsAreRows, RowsDiffer
  <1>3. /\ group[g].status = "ABSENT" /\ Touch(rows)
        /\ group' = [group EXCEPT ![g] = new]
        /\ edges' = [edges EXCEPT ![s] = @ \cup {g}]
        /\ UNCHANGED <<account, invitation, draft, binding, decision>>
    BY DEF Create
  <1>4. /\ new \in GroupType
        /\ group' \in [Group -> GroupType] /\ group'[g] = new
        /\ \A h \in Group : h # g => group'[h] = group[h]
    <2>1. new \in GroupType
      BY DEF GroupType
    <2> HIDE DEF new
    <2> QED
      BY <1>1, <1>3, <2>1 DEF StoreType
  <1>5. /\ edges' \in [Subject -> SUBSET Group] /\ g \in edges'[s]
        /\ \A t \in Subject : /\ edges[t] \subseteq edges'[t]
                              /\ t # s => edges'[t] = edges[t]
    BY <1>1, <1>3 DEF StoreType
  <1>6. /\ Members(g)' = {s} /\ group'[g].status = "OPEN"
        /\ group'[g].organizer \in Subject
    BY <1>4 DEF Members
  <1>7. \A d \in Draft : GroupOf[d] = g => binding[d] = "NONE"
    BY <1>1, <1>3 DEF RosterInv, ChildrenOf
  <1> HIDE DEF rows, new
  <1>8. AccountRow(s) \in rows /\ HeaderRow(g) \in rows
    BY DEF rows
  <1>9. /\ invitation' \in [Group -> [Subject -> {None, "OPEN", "ACCEPTED"}]]
        /\ draft' \in [Draft -> DraftType] /\ binding' \in [Draft -> BindingType]
        /\ \A d \in Draft : draft'[d] = draft[d] /\ binding'[d] = binding[d]
    BY <1>1, <1>3 DEF StoreType
  <1>10. \A t \in Subject : AccountRow(t) \notin rows => edges'[t] = edges[t]
    BY <1>5, <1>8
  <1> QED
    BY <1>2, <1>3, <1>4, <1>5, <1>6, <1>7, <1>8, <1>9, <1>10, GroupStep1

\* An invitation writes the header only, and the account of who is invited.
LEMMA InviteStep ==
    ASSUME SystemInv, NEW o \in Subject, NEW g \in Group, NEW s \in Subject,
           Invite(o, g, s)
    PROVE  SessionStep
  <1> DEFINE rows == {HeaderRow(g)} \cup (IF Approved(s) THEN {AccountRow(s)} ELSE {})
  <1>1. StoreType /\ RosterInv /\ CurrentBindingMatchesRoster
    BY DEF SystemInv, StoreInv
  <1>2. rows \in SUBSET Row /\ (\A d, t : ReplayRow(d, t) \notin rows) /\ HeaderRow(g) \in rows
    BY RowsAreRows, RowsDiffer
  <1>3. /\ group[g].status = "OPEN" /\ Touch(rows)
        /\ invitation' = [invitation EXCEPT ![g][s] = "OPEN"]
        /\ UNCHANGED <<account, edges, group, draft, binding, decision>>
    BY DEF Invite, MayOrganize, MayVisit
  <1>4. invitation' \in [Group -> [Subject -> {None, "OPEN", "ACCEPTED"}]]
    BY <1>1, <1>3 DEF StoreType
  <1> HIDE DEF rows
  <1> QED
    BY <1>1, <1>2, <1>3, <1>4, GroupStep1
    DEF StoreType, RosterInv, Members, CurrentBindingMatchesRoster

\* Somebody who accepts gets an edge, and the roster grows around bindings.
LEMMA AcceptStep ==
    ASSUME SystemInv, NEW s \in Subject, NEW g \in Group, Accept(s, g)
    PROVE  SessionStep
  <1> DEFINE rows == {AccountRow(s), HeaderRow(g)}
  <1>1. StoreType /\ RosterInv /\ CurrentBindingMatchesRoster
    BY DEF SystemInv, StoreInv
  <1>2. /\ rows \in SUBSET Row /\ \A d, t : ReplayRow(d, t) \notin rows
        /\ AccountRow(s) \in rows /\ HeaderRow(g) \in rows
    BY RowsAreRows, RowsDiffer
  <1>3. /\ group[g].status = "OPEN" /\ Touch(rows)
        /\ invitation' = [invitation EXCEPT ![g][s] = "ACCEPTED"]
        /\ group' = [group EXCEPT ![g].members = @ \cup {s}]
        /\ edges' = [edges EXCEPT ![s] = @ \cup {g}]
        /\ draft' = DraftsLeftBehind(g) /\ binding' = binding
        /\ UNCHANGED <<account, decision>>
    BY DEF Accept, BindingsFollow
  <1>4. invitation' \in [Group -> [Subject -> {None, "OPEN", "ACCEPTED"}]]
    BY <1>1, <1>3 DEF StoreType
  <1>5. /\ group' \in [Group -> GroupType] /\ group'[g].status = "OPEN"
        /\ group'[g].organizer = group[g].organizer
        /\ Members(g)' = Members(g) \cup {s}
        /\ \A h \in Group : h # g => group'[h] = group[h]
    BY <1>1, <1>3 DEF StoreType, GroupType, Members
  <1>6. /\ edges' \in [Subject -> SUBSET Group] /\ g \in edges'[s]
        /\ \A t \in Subject : /\ edges[t] \subseteq edges'[t]
                              /\ t # s => edges'[t] = edges[t]
    BY <1>1, <1>3 DEF StoreType
  <1>7. /\ draft' \in [Draft -> DraftType] /\ binding' \in [Draft -> BindingType]
        /\ \A d \in Draft : /\ draft'[d].names = draft[d].names
                            /\ draft'[d].status = "NONE" <=> draft[d].status = "NONE"
                            /\ binding'[d] = binding[d]
                            /\ GroupOf[d] # g => draft'[d] = draft[d]
    BY <1>1, <1>3, LeftBehind DEF StoreType
  <1>8. \A t \in Members(g)' : g \in edges'[t]
    BY <1>1, <1>5, <1>6, PeopleAreSubjects DEF RosterInv
  <1>9. \A d \in Draft : GroupOf[d] = g /\ binding'[d] = "CURRENT" => Seated(d) \subseteq Members(g)'
    BY <1>1, <1>3, <1>5, <1>7 DEF CurrentBindingMatchesRoster
  <1> HIDE DEF rows
  <1>10. \A t \in Subject : AccountRow(t) \notin rows => edges'[t] = edges[t]
    BY <1>2, <1>6
  <1>11. \A d \in Draft :
            /\ draft'[d].names = draft[d].names
            /\ draft'[d].status = "NONE" <=> draft[d].status = "NONE"
            /\ binding'[d] = "NONE" <=> binding[d] = "NONE"
            /\ GroupOf[d] # g => draft'[d] = draft[d] /\ binding'[d] = binding[d]
            /\ GroupOf[d] = g /\ group'[g].status = "OPEN" /\ binding'[d] = "CURRENT"
                  => Seated(d) \subseteq Members(g)'
    BY <1>7, <1>9
  <1>12. \A t \in Subject : /\ edges[t] \subseteq edges'[t]
                            /\ AccountRow(t) \notin rows => edges'[t] = edges[t]
    BY <1>6, <1>10
  <1>13. /\ account' = account /\ decision' = decision /\ Touch(rows)
         /\ group[g].status # "ARCHIVED" /\ group'[g].status # "ABSENT"
         /\ group'[g].organizer \in Subject
    BY <1>1, <1>3, <1>5 DEF RosterInv
  <1> QED
    BY <1>2, <1>4, <1>5, <1>6, <1>7, <1>8, <1>11, <1>12, <1>13, GroupStep1

\* A removal, or the end of the group, leaves no binding current.
LEMMA LeaveBehindStep ==
    ASSUME SystemInv, NEW o \in Subject, NEW g \in Group,
           DeleteGroup(o, g) \/ \E s \in Subject : RemoveMember(o, g, s)
    PROVE  SessionStep
  <1>1. StoreType /\ RosterInv
    BY DEF SystemInv, StoreInv
  <1>2. \E rows \in SUBSET Row :
           /\ Touch(rows) /\ HeaderRow(g) \in rows
           /\ \A d \in Draft, s \in Subject : ReplayRow(d, s) \notin rows
    <2>1. CASE DeleteGroup(o, g)
      <3> DEFINE rows == {HeaderRow(g)} \cup {AccountRow(s) : s \in Members(g)}
      <3>1. rows \in SUBSET Row
        BY <1>1, RowsAreRows, PeopleAreSubjects
      <3>2. \A d \in Draft, s \in Subject : ReplayRow(d, s) \notin rows
        BY RowsDiffer
      <3> QED
        BY <2>1, <3>1, <3>2 DEF DeleteGroup
    <2>2. ASSUME NEW s \in Subject, RemoveMember(o, g, s)
          PROVE  \E rows \in SUBSET Row :
                    /\ Touch(rows) /\ HeaderRow(g) \in rows
                    /\ \A d \in Draft, t \in Subject : ReplayRow(d, t) \notin rows
      <3> DEFINE rows == {AccountRow(s), HeaderRow(g)}
      <3>1. rows \in SUBSET Row
        BY RowsAreRows
      <3>2. \A d \in Draft, t \in Subject : ReplayRow(d, t) \notin rows
        BY RowsDiffer
      <3>3. Touch(rows)
        BY <2>2 DEF RemoveMember
      <3> HIDE DEF rows
      <3>4. HeaderRow(g) \in rows
        BY DEF rows
      <3> QED
        BY <3>1, <3>2, <3>3, <3>4
    <2> QED
      BY <2>1, <2>2
  <1>3. PICK rows \in SUBSET Row :
           /\ Touch(rows) /\ HeaderRow(g) \in rows
           /\ \A d \in Draft, s \in Subject : ReplayRow(d, s) \notin rows
    BY <1>2
  <1>4. /\ group[g].status = "OPEN"
        /\ draft' = DraftsLeftBehind(g) /\ binding' = BindingsLeftBehind(g)
        /\ UNCHANGED <<account, edges, invitation, decision>>
    BY DEF DeleteGroup, RemoveMember, MayOrganize, MayVisit
  <1>5. /\ group' \in [Group -> GroupType] /\ group'[g].status # "ABSENT"
        /\ group'[g].organizer = group[g].organizer
        /\ Members(g)' \subseteq Members(g)
        /\ \A h \in Group : h # g => group'[h] = group[h]
    <2>1. CASE DeleteGroup(o, g)
      BY <1>1, <2>1 DEF DeleteGroup, StoreType, GroupType, Members
    <2>2. ASSUME NEW s \in Subject, RemoveMember(o, g, s)
          PROVE  <1>5
      <3>1. group' = [group EXCEPT ![g].members = @ \ {s}]
        BY <2>2 DEF RemoveMember
      <3> QED
        BY <1>1, <1>4, <3>1 DEF StoreType, GroupType, Members
    <2> QED
      BY <2>1, <2>2
  <1>6. /\ draft' \in [Draft -> DraftType] /\ binding' \in [Draft -> BindingType]
        /\ \A d \in Draft :
              /\ draft'[d].names = draft[d].names
              /\ draft'[d].status = "NONE" <=> draft[d].status = "NONE"
              /\ binding'[d] = "NONE" <=> binding[d] = "NONE"
              /\ GroupOf[d] # g => draft'[d] = draft[d] /\ binding'[d] = binding[d]
              /\ GroupOf[d] = g => binding'[d] # "CURRENT"
    BY <1>1, <1>4, LeftBehind
  <1>7. /\ edges' \in [Subject -> SUBSET Group] /\ edges' = edges
        /\ invitation' \in [Group -> [Subject -> {None, "OPEN", "ACCEPTED"}]]
    BY <1>1, <1>4 DEF StoreType
  <1>8. /\ \A t \in Members(g)' : g \in edges'[t]
        /\ group'[g].organizer \in Subject
    BY <1>1, <1>4, <1>5, <1>7 DEF RosterInv
  <1> QED
    BY <1>3, <1>4, <1>5, <1>6, <1>7, <1>8, GroupStep1

\* A new name writes the header.
LEMMA RenameStep ==
    ASSUME SystemInv, NEW o \in Subject, NEW g \in Group, Rename(o, g)
    PROVE  SessionStep
  <1> DEFINE rows == {HeaderRow(g)}
  <1>1. StoreType /\ RosterInv /\ CurrentBindingMatchesRoster
    BY DEF SystemInv, StoreInv
  <1>2. rows \in SUBSET Row /\ (\A d, t : ReplayRow(d, t) \notin rows) /\ HeaderRow(g) \in rows
    BY RowsAreRows, RowsDiffer
  <1>3. /\ group[g].status = "OPEN" /\ Touch(rows)
        /\ UNCHANGED <<account, edges, group, invitation, draft, binding, decision>>
    BY DEF Rename, MayOrganize, MayVisit
  <1> HIDE DEF rows
  <1> QED
    BY <1>1, <1>2, <1>3, GroupStep1
    DEF StoreType, RosterInv, Members, CurrentBindingMatchesRoster

\* What an organizer does with a draft or a decision's binding.
LEMMA DraftSteps ==
    ASSUME SystemInv, NEW o \in Subject, NEW d \in Draft,
           \/ GenerateDraft(o, d) \/ EditDraft(o, d)
           \/ RemoveDraft(o, d) \/ RemoveDecision(o, d)
    PROVE  SessionStep
  <1> DEFINE g == GroupOf[d]
             rows == {HeaderRow(g), DraftRow(d)}
  <1>1. /\ StoreType /\ ReaderType /\ RosterInv /\ DecisionInv
        /\ CurrentBindingMatchesRoster
    BY DEF SystemInv, StoreInv
  <1>2. g \in Group
    BY StoreAssumption
  <1>3. rows \in SUBSET Row /\ \A e, s : ReplayRow(e, s) \notin rows
    BY <1>2, RowsAreRows, RowsDiffer
  <1>4. /\ Touch(rows) /\ group[g].status = "OPEN"
        /\ UNCHANGED <<account, edges, group, invitation, decision>>
    BY DEF GenerateDraft, EditDraft, RemoveDraft, RemoveDecision, MayOrganize, MayVisit
  <1>5. /\ draft' \in [Draft -> DraftType] /\ binding' \in [Draft -> BindingType]
        /\ \A e \in Draft : e # d => draft'[e] = draft[e] /\ binding'[e] = binding[e]
        /\ \A s \in draft'[d].names : s \in draft[d].names \/ (s \in Members(g) /\ Approved(s))
        /\ draft'[d].status = "NONE" => draft'[d] = draft[d]
        /\ binding'[d] = binding[d] \/ (binding'[d] = "DELETED" /\ binding[d] # "NONE")
    <2>1. CASE GenerateDraft(o, d)
      <3> DEFINE new == [status |-> "CURRENT", names |-> Members(g)]
      <3>1. /\ draft' = [draft EXCEPT ![d] = new] /\ binding' = binding
            /\ RosterApproved(g)
        BY <2>1 DEF GenerateDraft
      <3>2. new \in DraftType
        BY <1>1, <1>2, PeopleAreSubjects DEF DraftType
      <3>3. new.names = Members(g) /\ new.status # "NONE"
        OBVIOUS
      <3> HIDE DEF new
      <3> QED
        BY <1>1, <3>1, <3>2, <3>3 DEF StoreType, RosterApproved
    <2>2. CASE EditDraft(o, d)
      BY <1>1, <2>2 DEF EditDraft, StoreType
    <2>3. CASE RemoveDraft(o, d)
      BY <1>1, <2>3 DEF RemoveDraft, StoreType, DraftType
    <2>4. CASE RemoveDecision(o, d)
      <3>1. /\ draft' = [draft EXCEPT ![d].status = "DELETED"]
            /\ binding' = [binding EXCEPT ![d] = "DELETED"]
            /\ binding[d] # "NONE"
        BY <2>4 DEF RemoveDecision
      <3>2. binding' \in [Draft -> BindingType]
        BY <1>1, <3>1 DEF StoreType, BindingType
      <3>3. /\ draft' \in [Draft -> DraftType]
            /\ \A e \in Draft : e # d => draft'[e] = draft[e]
            /\ draft'[d].names = draft[d].names /\ draft'[d].status = "DELETED"
        BY <1>1, <3>1 DEF StoreType, DraftType
      <3> QED
        BY <1>1, <3>1, <3>2, <3>3 DEF StoreType
    <2> QED
      BY <2>1, <2>2, <2>3, <2>4
  <1>6. StoreType'
    BY <1>1, <1>4, <1>5 DEF StoreType
  <1>7. RosterInv'
    BY <1>1, <1>2, <1>4, <1>5 DEF RosterInv, Members, ChildrenOf
  <1>8. DecisionInv'
    <2> SUFFICES ASSUME NEW e \in Draft
                 PROVE  /\ Stored(e) => binding'[e] # "NONE"
                        /\ \A s \in draft'[e].names : GroupOf[e] \in edges[s]
                        /\ draft'[e].status = "NONE" => draft'[e].names = {}
      BY <1>1, <1>4 DEF DecisionInv, Stored, Holders, Seated
    <2>1. Stored(e) => binding'[e] # "NONE"
      BY <1>1, <1>5 DEF DecisionInv
    <2>2. \A s \in draft'[e].names : GroupOf[e] \in edges[s]
      BY <1>1, <1>2, <1>5 DEF DecisionInv, RosterInv
    <2>3. draft'[e].status = "NONE" => draft'[e].names = {}
      BY <1>1, <1>5 DEF DecisionInv
    <2> QED
      BY <2>1, <2>2, <2>3
  <1>9. CurrentBindingMatchesRoster'
    BY <1>1, <1>4, <1>5 DEF CurrentBindingMatchesRoster, Seated, Members
  <1>10. GroupsChange(rows)
    <2>1. \A e \in Draft : HeaderRow(GroupOf[e]) \notin rows => e # d
      BY RowsDiffer
    <2>2. \A e \in Draft : \A s \in draft'[e].names \ draft[e].names : Approved(s)
      BY <1>5
    <2> HIDE DEF rows
    <2> QED
      BY <1>4, <1>5, <2>1, <2>2 DEF GroupsChange, Approved, Frozen
  <1>11. DecisionsChange(rows)
    BY <1>3, <1>4, DecisionsStay
  <1> QED
    BY <1>1, <1>3, <1>4, <1>6, <1>7, <1>8, <1>9, <1>10, <1>11, TouchedReaders
    DEF SessionStep, SessionEffect, StoreInv

\* Asking for a fence and giving one up write nothing.
LEMMA RequestSteps ==
    ASSUME SystemInv, NEW s \in Subject,
           \/ GiveUp(s)
           \/ \E d \in Draft, kind \in {"CREATE", "TAKE_PART", "REVISE_ROSTER"} :
                 Fence(s, kind, d)
    PROVE  SessionStep
  <1>1. StoreInv /\ StoreType /\ ReaderType
    BY DEF SystemInv, StoreInv
  <1>2. UNCHANGED <<account, edges, group, invitation, draft, binding, decision,
                    plan, journal, consent, archive>>
    BY DEF GiveUp, Fence
  <1>3. StoreInv'
    BY <1>1, <1>2
    DEF StoreInv, StoreType, RosterInv, DecisionInv, Members, Stored, Holders,
        Seated, CurrentBindingMatchesRoster
  <1>4. GroupsChange({}) /\ DecisionsChange({})
    BY <1>2, DecisionsStay DEF GroupsChange, Approved, Frozen
  <1>5. plan = PlansAfter({}) /\ archive = ArchivesAfter({})
    <2>1. ASSUME NEW p \in Plan, plan[p] # None
          PROVE  plan[p] = [plan[p] EXCEPT !.fresh = @ \ {}]
      BY <1>1, <2>1 DEF ReaderType, PlanType
    <2>2. ASSUME NEW g \in Group, archive[g] # None
          PROVE  archive[g] = [archive[g] EXCEPT !.fresh = @ \ {}]
      <3>1. CASE archive[g] \in ManifestType(g)
        BY <3>1 DEF ManifestType
      <3>2. CASE archive[g] \in TombstoneType
        BY <3>2 DEF TombstoneType
      <3> QED
        BY <1>1, <2>2, <3>1, <3>2 DEF ReaderType
    <2>3. plan = [p \in Plan |-> plan[p]]
      BY <1>1 DEF ReaderType
    <2>4. archive = [g \in Group |-> archive[g]]
      BY <1>1 DEF ReaderType
    <2>5. plan = PlansAfter({})
      BY <2>1, <2>3 DEF PlansAfter
    <2>6. archive = ArchivesAfter({})
      BY <2>2, <2>4 DEF ArchivesAfter
    <2> QED
      BY <2>5, <2>6
  <1>6. /\ request' \in [Subject -> {None} \cup RequestType]
        /\ \A t \in Subject : request'[t] # None /\ request'[t].current =>
              \/ request'[t] = RequestsAfter({})[t]
              \/ MayFence(t, request'[t].kind, request'[t].on)
                   /\ request'[t].roster = Members(GroupOf[request'[t].on])
    <2>1. \A t \in Subject : RequestsAfter({})[t] = request[t]
      BY DEF RequestsAfter
    <2>2. CASE GiveUp(s)
      BY <1>1, <2>1, <2>2 DEF GiveUp, ReaderType
    <2>3. ASSUME NEW d \in Draft, NEW kind \in {"CREATE", "TAKE_PART", "REVISE_ROSTER"},
                 Fence(s, kind, d)
          PROVE  <1>6
      <3> DEFINE new == [kind |-> kind, on |-> d, roster |-> Members(GroupOf[d]),
                         current |-> TRUE]
      <3>1. new \in RequestType
        BY <1>1, StoreAssumption, PeopleAreSubjects DEF RequestType
      <3>2. new.kind = kind /\ new.on = d /\ new.roster = Members(GroupOf[d])
        OBVIOUS
      <3>3. request' = [request EXCEPT ![s] = new] /\ MayFence(s, kind, d)
        BY <2>3 DEF Fence
      <3> HIDE DEF new
      <3>4. /\ request' \in [Subject -> {None} \cup RequestType] /\ request'[s] = new
            /\ \A t \in Subject : t # s => request'[t] = request[t]
        BY <1>1, <3>1, <3>3 DEF ReaderType
      <3> QED
        BY <2>1, <3>2, <3>3, <3>4
    <2> QED
      BY <2>2, <2>3
  <1> QED
    BY <1>2, <1>3, <1>4, <1>5, <1>6 DEF SessionStep, SessionEffect, ReadersKnow

\* What a fence that stands says, at the moment of the write.
LEMMA FenceSays ==
    ASSUME SystemInv, NEW s \in Subject, request[s] # None, FenceStands(s)
    PROVE  LET d == request[s].on
               g == GroupOf[d]
           IN  /\ d \in Draft /\ g \in Group
               /\ group[g].status = "OPEN"
               /\ request[s].roster = Members(g)
               /\ RosterApproved(g)
               /\ s \in Members(g)
               /\ request[s].kind = "REVISE_ROSTER" => binding[d] \in {"CURRENT", "STALE"}
  BY StoreAssumption DEF SystemInv, ReaderType, RequestType, FenceInv, FenceStands

\* A write of a decision under a fence: what the new record has to be like.
LEMMA DecisionCommit ==
    ASSUME SystemInv, NEW s \in Subject, NEW d \in Draft,
           NEW next \in DecisionType, NEW rows \in SUBSET Row,
           StoreDecision(s, d, next, rows),
           group[GroupOf[d]].status = "OPEN", RosterApproved(GroupOf[d]),
           GuardRow(d) \in rows,
           rows \subseteq {HeaderRow(GroupOf[d]), DraftRow(d), GuardRow(d), ReplayRow(d, s)},
           ReplayRow(d, s) \in rows => s \in next.private \cup next.retired,
           draft' \in [Draft -> DraftType], binding' \in [Draft -> BindingType],
           \A e \in Draft : e # d => draft'[e] = draft[e] /\ binding'[e] = binding[e],
           draft'[d].names = draft[d].names, draft'[d] = draft[d] \/ draft'[d].status # "NONE",
           HeaderRow(GroupOf[d]) \notin rows =>
              draft'[d] = draft[d] /\ binding'[d] = binding[d] /\ Stored(d),
           binding'[d] # "NONE",
           next.status \in {"LIVE", "AGREED"},
           next.private \subseteq next.members \cup next.inactive,
           next.status = "AGREED" => next.members \subseteq next.private,
           next.members \cup next.inactive \cup next.private \cup next.retired
              \subseteq Seated(d) \cup Holders(d) \cup Members(GroupOf[d]),
           next.members \cup next.private \cup next.retired
              \subseteq decision[d].members \cup Holders(d) \cup Members(GroupOf[d]),
           Holders(d) \subseteq next.private \cup next.retired,
           binding'[d] = "CURRENT" =>
              next.members \cup next.inactive \subseteq Members(GroupOf[d]),
           \A t \in Subject : next.receipt[t] # None =>
              \/ t \in next.private \cup next.retired
              \/ next.receipt[t] = decision[d].receipt[t]
    PROVE  SessionStep
  <1> DEFINE g == GroupOf[d]
  <1>1. /\ StoreType /\ ReaderType /\ RosterInv /\ DecisionInv
        /\ CurrentBindingMatchesRoster /\ g \in Group
    BY StoreAssumption DEF SystemInv, StoreInv
  <1>2. /\ decision' \in [Draft -> DecisionType] /\ decision'[d] = next
        /\ \A e \in Draft : e # d => decision'[e] = decision[e]
        /\ UNCHANGED <<account, edges, group, invitation, journal, consent>>
        /\ plan' = PlansAfter(rows) /\ archive' = ArchivesAfter(rows)
        /\ request' = [RequestsAfter(rows) EXCEPT ![s] = None]
    BY <1>1 DEF StoreDecision, StoreType
  <1>3. StoreType'
    BY <1>1, <1>2 DEF StoreType
  <1>4. RosterInv'
    BY <1>1, <1>2 DEF RosterInv, Members, ChildrenOf
  <1>5. /\ Seated(d)' = next.members \cup next.inactive
        /\ Holders(d)' = next.private \cup next.retired
        /\ Stored(d)'
        /\ \A e \in Draft : e # d => /\ Seated(e)' = Seated(e) /\ Holders(e)' = Holders(e)
                                     /\ Stored(e)' <=> Stored(e)
    BY <1>2 DEF Seated, Holders, Stored
  <1>6. DecisionInv'
    <2> SUFFICES ASSUME NEW e \in Draft
                 PROVE  /\ ~Stored(e)' => Holders(e)' = {} /\ Seated(e)' = {}
                        /\ Stored(e)' => binding'[e] # "NONE"
                        /\ decision'[e].private \subseteq Seated(e)'
                        /\ decision'[e].status = "AGREED"
                              => decision'[e].members \subseteq decision'[e].private
                        /\ \A t \in Seated(e)' \cup Holders(e)' : GroupOf[e] \in edges'[t]
                        /\ \A t \in draft'[e].names : GroupOf[e] \in edges'[t]
                        /\ draft'[e].status = "NONE" => draft'[e].names = {}
      BY DEF DecisionInv, Stored, Seated, Holders
    <2>1. CASE e # d
      BY <1>1, <1>2, <1>5, <2>1 DEF DecisionInv
    <2>2. CASE e = d
      <3>1. \A t \in Members(g) : g \in edges[t]
        BY <1>1 DEF RosterInv
      <3>2. \A t \in Seated(d) \cup Holders(d) : g \in edges[t]
        BY <1>1 DEF DecisionInv
      <3>3. \A t \in Seated(d)' \cup Holders(d)' : g \in edges'[t]
        BY <1>2, <1>5, <3>1, <3>2
      <3>4. /\ \A t \in draft'[d].names : g \in edges'[t]
            /\ draft'[d].status = "NONE" => draft'[d].names = {}
        BY <1>1, <1>2 DEF DecisionInv
      <3> QED
        BY <1>2, <1>5, <2>2, <3>3, <3>4
    <2> QED
      BY <2>1, <2>2
  <1>7. CurrentBindingMatchesRoster'
    BY <1>1, <1>2, <1>5 DEF CurrentBindingMatchesRoster, Members
  <1>8. ReadersKnow(rows)
    BY <1>1, <1>2, RequestsAfterWrite DEF ReadersKnow
  <1>9. GroupsChange(rows)
    <2>1. \A e \in Draft : draft'[e].names = draft[e].names
      BY <1>2
    <2>2. \A e \in Draft : HeaderRow(GroupOf[e]) \notin rows =>
             draft'[e] = draft[e] /\ binding'[e] = binding[e]
      BY <1>2
    <2> QED
      BY <1>2, <2>1, <2>2 DEF GroupsChange, Approved, Frozen
  <1>10. DecisionsChange(rows)
    <2> SUFFICES ASSUME NEW e \in Draft
                 PROVE  /\ GuardRow(e) \notin rows =>
                              /\ decision'[e] = decision[e]
                              /\ \A t \in Subject : ReplayRow(e, t) \notin rows
                        /\ Stored(e)' => \/ Stored(e)
                                         \/ /\ HeaderRow(GroupOf[e]) \in rows
                                            /\ group[GroupOf[e]].status = "OPEN"
                        /\ \A t \in (Holders(e)' \cup decision'[e].members)
                                       \ (Holders(e) \cup decision[e].members) : Approved(t)
                        /\ Holders(e) \subseteq Holders(e)'
                        /\ \A t \in Subject : decision'[e].receipt[t] # None =>
                              \/ t \in Holders(e)'
                              \/ /\ decision'[e].receipt[t] = decision[e].receipt[t]
                                 /\ ReplayRow(e, t) \notin rows
      BY DEF DecisionsChange
    <2>1. CASE e # d
      <3>1. \A t \in Subject : ReplayRow(e, t) \notin rows
        BY <2>1, RowsDiffer
      <3> QED
        BY <1>2, <1>5, <2>1, <3>1
    <2>2. CASE e = d
      <3>1. \A t \in (Holders(d)' \cup decision'[d].members)
                        \ (Holders(d) \cup decision[d].members) : Approved(t)
        BY <1>2, <1>5 DEF RosterApproved
      <3>2. \A t \in Subject : ReplayRow(d, t) \in rows => t = s
        BY RowsDiffer
      <3>3. \A t \in Subject : next.receipt[t] # None =>
               \/ t \in Holders(d)'
               \/ next.receipt[t] = decision[d].receipt[t] /\ ReplayRow(d, t) \notin rows
        BY <1>5, <3>2
      <3> QED
        BY <1>2, <1>5, <2>2, <3>1, <3>3
    <2> QED
      BY <2>1, <2>2
  <1> QED
    BY <1>3, <1>4, <1>6, <1>7, <1>8, <1>9, <1>10 DEF SessionStep, SessionEffect, StoreInv

\* The record a participant's command starts from: a decision in the making
\* seats the group, another one is as it was.
LEMMA JoinedRecord ==
    ASSUME SystemInv, NEW s \in Subject, NEW d \in Draft, TakesPart(s, d)
    PROVE  LET J == Joined(s, d) IN
           /\ J \in DecisionType /\ J.status = decision[d].status
           /\ J.status \in {"LIVE", "AGREED"}
           /\ J.private = decision[d].private /\ J.retired = decision[d].retired
           /\ J.receipt = decision[d].receipt /\ J.inactive = decision[d].inactive
           /\ J.incarnation = decision[d].incarnation
           /\ J.status = "LIVE" => J.inactive = {} /\ J.members = Members(GroupOf[d])
                                   /\ decision[d].members \subseteq Members(GroupOf[d])
           /\ J.status = "AGREED" => J = decision[d]
           /\ s \in J.members
  <1> DEFINE D == decision[d]
             roster == request[s].roster
             J == Joined(s, d)
  <1>1. D \in DecisionType /\ roster \in SUBSET Subject
    BY DEF SystemInv, StoreInv, StoreType, ReaderType, TakesPart, RequestType
  <1>2. /\ request[s] # None /\ request[s].on = d /\ FenceStands(s)
        /\ D.status \in {"LIVE", "AGREED"} /\ MayInclude(D, roster)
        /\ s \in J.members
    BY DEF TakesPart, Joined
  <1>3. roster = Members(GroupOf[d])
    BY <1>2, FenceSays
  <1>4. CASE D.status = "LIVE" /\ D.members # roster
    <2>1. J = [D EXCEPT !.members = roster, !.readable = TRUE]
      BY <1>4 DEF Joined, WithMembers
    <2>2. /\ J \in DecisionType /\ J.status = D.status /\ J.private = D.private
          /\ J.retired = D.retired /\ J.receipt = D.receipt /\ J.inactive = D.inactive
          /\ J.incarnation = D.incarnation /\ J.members = roster
      BY <1>1, <2>1 DEF DecisionType
    <2> QED
      BY <1>2, <1>3, <1>4, <2>2 DEF MayInclude
  <1>5. CASE ~(D.status = "LIVE" /\ D.members # roster)
    <2>1. J = D
      BY <1>5 DEF Joined, WithMembers
    <2> QED
      BY <1>1, <1>2, <1>3, <1>5, <2>1 DEF MayInclude
  <1> QED
    BY <1>4, <1>5

\* A receipt is added to those that are there, and changes nothing else.
LEMMA ReceiptAdded ==
    ASSUME NEW D \in DecisionType, NEW s \in Subject
    PROVE  LET W == WithReceipt(D, s) IN
           /\ W \in DecisionType
           /\ W.status = D.status /\ W.members = D.members /\ W.inactive = D.inactive
           /\ W.private = D.private /\ W.retired = D.retired
           /\ \A t \in Subject : t # s => W.receipt[t] = D.receipt[t]
  <1>1. [D.receipt EXCEPT ![s] = D.incarnation] \in [Subject -> {None} \cup Incarnation]
    BY DEF DecisionType
  <1>2. WithReceipt(D, s) = [D EXCEPT !.receipt = [D.receipt EXCEPT ![s] = D.incarnation]]
    BY DEF WithReceipt, DecisionType
  <1>3. \A t \in Subject : t # s => [D.receipt EXCEPT ![s] = D.incarnation][t] = D.receipt[t]
    BY DEF DecisionType
  <1> QED
    BY <1>1, <1>2, <1>3 DEF DecisionType

\* The rows a participant's command writes.
LEMMA CommandRows ==
    ASSUME NEW s \in Subject, NEW d \in Draft
    PROVE  /\ {GuardRow(d), ReplayRow(d, s)} \in SUBSET Row
           /\ {GuardRow(d)} \in SUBSET Row
           /\ HeaderRow(GroupOf[d]) \notin {GuardRow(d), ReplayRow(d, s)}
  BY RowsAreRows, RowsDiffer

\* Participants' commands and reads.
LEMMA TakePartSteps ==
    ASSUME SystemInv, NEW s \in Subject, NEW d \in Draft,
           Contribute(s, d) \/ Agree(s, d) \/ Withdraw(s, d) \/ Look(s, d)
    PROVE  SessionStep
  <1> DEFINE J == Joined(s, d)
             g == GroupOf[d]
             rows == {GuardRow(d), ReplayRow(d, s)}
  <1>1. TakesPart(s, d) /\ UNCHANGED <<draft, binding>>
    BY DEF Contribute, Agree, Withdraw, Look
  <1>2. /\ StoreType /\ DecisionInv /\ CurrentBindingMatchesRoster
        /\ decision[d] \in DecisionType
    BY DEF SystemInv, StoreInv, StoreType
  <1>3. /\ J \in DecisionType /\ J.status = decision[d].status
        /\ J.status \in {"LIVE", "AGREED"}
        /\ J.private = decision[d].private /\ J.retired = decision[d].retired
        /\ J.receipt = decision[d].receipt /\ J.inactive = decision[d].inactive
        /\ J.status = "LIVE" => J.inactive = {} /\ J.members = Members(g)
                                   /\ decision[d].members \subseteq Members(g)
        /\ J.status = "AGREED" => J = decision[d]
        /\ s \in J.members
    BY <1>1, JoinedRecord
  <1>4. group[g].status = "OPEN" /\ RosterApproved(g)
    BY <1>1, FenceSays DEF TakesPart
  <1>5. /\ rows \in SUBSET Row /\ {GuardRow(d)} \in SUBSET Row
        /\ HeaderRow(g) \notin rows /\ ReplayRow(d, s) # GuardRow(d)
    BY CommandRows, RowsDiffer
  <1>6. Stored(d) /\ binding[d] # "NONE"
    BY <1>1, <1>2 DEF TakesPart, Stored, DecisionInv
  <1>7. /\ draft' \in [Draft -> DraftType] /\ binding' \in [Draft -> BindingType]
        /\ draft' = draft /\ binding' = binding
    BY <1>1, <1>2 DEF StoreType
  <1>8. /\ decision[d].private \subseteq Seated(d)
        /\ decision[d].status = "AGREED" => decision[d].members \subseteq decision[d].private
        /\ binding[d] = "CURRENT" => Seated(d) \subseteq Members(g)
    BY <1>2, <1>4 DEF DecisionInv, CurrentBindingMatchesRoster
  <1> HIDE DEF J, rows
  <1>9. CASE Contribute(s, d)
    <2> DEFINE K == [J EXCEPT !.private = @ \cup {s}]
               next == WithReceipt(K, s)
    <2>1. StoreDecision(s, d, next, rows) /\ decision[d].status = "LIVE"
      BY <1>9 DEF Contribute, J, rows
    <2>2. /\ K \in DecisionType /\ K.status = J.status /\ K.members = J.members
          /\ K.inactive = J.inactive /\ K.private = J.private \cup {s}
          /\ K.retired = J.retired /\ K.receipt = J.receipt
      BY <1>3 DEF DecisionType
    <2> HIDE DEF K
    <2>3. /\ next \in DecisionType
          /\ next.status = K.status /\ next.members = K.members /\ next.inactive = K.inactive
          /\ next.private = K.private /\ next.retired = K.retired
          /\ \A t \in Subject : t # s => next.receipt[t] = K.receipt[t]
      BY <2>2, ReceiptAdded
    <2> HIDE DEF next
    <2>4. /\ next.status = "LIVE" /\ next.members = Members(g) /\ next.inactive = {}
          /\ next.private = decision[d].private \cup {s}
          /\ next.retired = decision[d].retired /\ s \in Members(g)
          /\ decision[d].private \subseteq Members(g)
          /\ \A t \in Subject : t # s => next.receipt[t] = decision[d].receipt[t]
      BY <1>3, <1>8, <2>1, <2>2, <2>3 DEF Seated
    <2>5. /\ GuardRow(d) \in rows
          /\ rows \subseteq {HeaderRow(g), DraftRow(d), GuardRow(d), ReplayRow(d, s)}
      BY DEF rows
    <2> QED
      BY <1>4, <1>5, <1>6, <1>7, <1>8, <2>1, <2>3, <2>4, <2>5, DecisionCommit
      DEF Holders, Seated
  <1>10. CASE Agree(s, d)
    <2> DEFINE K == [J EXCEPT !.status = "AGREED"]
               next == WithReceipt(K, s)
    <2>1. /\ StoreDecision(s, d, next, rows) /\ decision[d].status = "LIVE"
          /\ J.members \subseteq decision[d].private
      BY <1>10 DEF Agree, J, rows
    <2>2. /\ K \in DecisionType /\ K.status = "AGREED" /\ K.members = J.members
          /\ K.inactive = J.inactive /\ K.private = J.private
          /\ K.retired = J.retired /\ K.receipt = J.receipt
      BY <1>3 DEF DecisionType
    <2> HIDE DEF K
    <2>3. /\ next \in DecisionType
          /\ next.status = K.status /\ next.members = K.members /\ next.inactive = K.inactive
          /\ next.private = K.private /\ next.retired = K.retired
          /\ \A t \in Subject : t # s => next.receipt[t] = K.receipt[t]
      BY <2>2, ReceiptAdded
    <2> HIDE DEF next
    <2>4. /\ next.status = "AGREED" /\ next.members = Members(g) /\ next.inactive = {}
          /\ next.private = decision[d].private
          /\ next.retired = decision[d].retired /\ s \in next.private
          /\ next.private \subseteq Members(g) /\ next.members \subseteq next.private
          /\ \A t \in Subject : t # s => next.receipt[t] = decision[d].receipt[t]
      BY <1>3, <1>8, <2>1, <2>2, <2>3 DEF Seated
    <2>5. /\ GuardRow(d) \in rows
          /\ rows \subseteq {HeaderRow(g), DraftRow(d), GuardRow(d), ReplayRow(d, s)}
      BY DEF rows
    <2> QED
      BY <1>4, <1>5, <1>6, <1>7, <1>8, <2>1, <2>3, <2>4, <2>5, DecisionCommit
      DEF Holders, Seated
  <1>11. CASE Withdraw(s, d)
    <2> DEFINE K == [decision[d] EXCEPT !.status = "LIVE"]
               next == WithReceipt(K, s)
    <2>1. StoreDecision(s, d, next, rows) /\ decision[d].status = "AGREED"
      BY <1>11 DEF Withdraw, rows
    <2>2. /\ K \in DecisionType /\ K.status = "LIVE" /\ K.members = decision[d].members
          /\ K.inactive = decision[d].inactive /\ K.private = decision[d].private
          /\ K.retired = decision[d].retired /\ K.receipt = decision[d].receipt
      BY <1>2 DEF DecisionType
    <2> HIDE DEF K
    <2>3. /\ next \in DecisionType
          /\ next.status = K.status /\ next.members = K.members /\ next.inactive = K.inactive
          /\ next.private = K.private /\ next.retired = K.retired
          /\ \A t \in Subject : t # s => next.receipt[t] = K.receipt[t]
      BY <2>2, ReceiptAdded
    <2> HIDE DEF next
    <2>4. /\ next.status = "LIVE" /\ next.members = decision[d].members
          /\ next.inactive = decision[d].inactive /\ next.private = decision[d].private
          /\ next.retired = decision[d].retired /\ s \in next.private
          /\ \A t \in Subject : t # s => next.receipt[t] = decision[d].receipt[t]
      BY <1>3, <1>8, <2>1, <2>2, <2>3
    <2>5. /\ GuardRow(d) \in rows
          /\ rows \subseteq {HeaderRow(g), DraftRow(d), GuardRow(d), ReplayRow(d, s)}
      BY DEF rows
    <2> QED
      BY <1>4, <1>5, <1>6, <1>7, <1>8, <2>1, <2>3, <2>4, <2>5, DecisionCommit
      DEF Holders, Seated
  <1>12. CASE Look(s, d)
    <2>1. StoreDecision(s, d, J, {GuardRow(d)})
      BY <1>12 DEF Look, J
    <2>2. J.status = "LIVE" /\ decision[d].status = "LIVE"
      BY <1>3, <1>12 DEF Look, J
    <2>3. /\ J.members = Members(g) /\ J.inactive = {}
          /\ J.private = decision[d].private /\ J.private \subseteq Members(g)
          /\ J.retired = decision[d].retired /\ J.receipt = decision[d].receipt
      BY <1>3, <1>8, <2>2 DEF Seated
    <2>4. HeaderRow(g) \notin {GuardRow(d)} /\ ReplayRow(d, s) \notin {GuardRow(d)}
      BY RowsDiffer
    <2> QED
      BY <1>3, <1>4, <1>5, <1>6, <1>7, <1>8, <2>1, <2>2, <2>3, <2>4, DecisionCommit
      DEF Holders, Seated
  <1> QED
    BY <1>9, <1>10, <1>11, <1>12

\* A decision is created once, with the roster of the fence and nothing else.
LEMMA CreateDecisionStep ==
    ASSUME SystemInv, NEW s \in Subject, NEW d \in Draft, CreateDecision(s, d)
    PROVE  SessionStep
  <1> DEFINE g == GroupOf[d]
             next == [NoDecision EXCEPT !.status = "LIVE", !.members = request[s].roster]
             rows == {HeaderRow(g), DraftRow(d), GuardRow(d)}
  <1>1. /\ request[s] # None /\ request[s].on = d /\ FenceStands(s)
        /\ decision[d].status = "ABSENT"
        /\ draft' = [draft EXCEPT ![d].status = "CREATED"]
        /\ binding' = [binding EXCEPT ![d] = "CURRENT"]
        /\ StoreDecision(s, d, next, rows)
    BY DEF CreateDecision
  <1>2. /\ StoreType /\ DecisionInv /\ g \in Group
    BY StoreAssumption DEF SystemInv, StoreInv
  <1>3. /\ group[g].status = "OPEN" /\ RosterApproved(g)
        /\ request[s].roster = Members(g) /\ Members(g) \subseteq Subject
    BY <1>1, <1>2, FenceSays, PeopleAreSubjects
  <1>4. /\ next.status = "LIVE" /\ next.members = Members(g) /\ next.inactive = {}
        /\ next.private = {} /\ next.retired = {}
        /\ \A t \in Subject : next.receipt[t] = None
    BY <1>3 DEF NoDecision
  <1>5. next \in DecisionType
    BY <1>3 DEF NoDecision, DecisionType, Incarnation
  <1>6. /\ draft' \in [Draft -> DraftType] /\ draft'[d].names = draft[d].names
        /\ draft'[d].status = "CREATED"
        /\ \A e \in Draft : e # d => draft'[e] = draft[e]
    BY <1>1, <1>2 DEF StoreType, DraftType
  <1>7. /\ binding' \in [Draft -> BindingType] /\ binding'[d] = "CURRENT"
        /\ \A e \in Draft : e # d => binding'[e] = binding[e]
    BY <1>1, <1>2 DEF StoreType, BindingType
  <1>8. Holders(d) = {}
    BY <1>1, <1>2 DEF DecisionInv, Stored
  <1>9. rows \in SUBSET Row
    BY <1>2, RowsAreRows
  <1>10. ReplayRow(d, s) \notin rows
    BY RowsDiffer
  <1> HIDE DEF next
  <1>11. /\ GuardRow(d) \in rows /\ HeaderRow(g) \in rows
         /\ rows \subseteq {HeaderRow(g), DraftRow(d), GuardRow(d), ReplayRow(d, s)}
    OBVIOUS
  <1> HIDE DEF rows
  <1> QED
    BY <1>1, <1>3, <1>4, <1>5, <1>6, <1>7, <1>8, <1>9, <1>10, <1>11, DecisionCommit

\* A revision seats the group; what its owners had is kept or retired.
LEMMA ReviseRosterStep ==
    ASSUME SystemInv, NEW s \in Subject, NEW d \in Draft, ReviseRoster(s, d)
    PROVE  SessionStep
  <1> DEFINE g == GroupOf[d]
             D == decision[d]
             next == Revised(D, request[s].roster)
             rows == {GuardRow(d)} \cup (IF binding[d] = "STALE" THEN {HeaderRow(g)} ELSE {})
  <1>1. /\ request[s] # None /\ request[s].on = d /\ FenceStands(s)
        /\ request[s].kind = "REVISE_ROSTER"
        /\ D.status \in {"LIVE", "AGREED"} /\ next # D
        /\ binding' = [binding EXCEPT ![d] = "CURRENT"] /\ draft' = draft
        /\ StoreDecision(s, d, next, rows)
    BY DEF ReviseRoster, MayRevise
  <1>2. /\ StoreType /\ DecisionInv /\ g \in Group /\ D \in DecisionType
    BY StoreAssumption DEF SystemInv, StoreInv, StoreType
  <1>3. /\ group[g].status = "OPEN" /\ RosterApproved(g)
        /\ request[s].roster = Members(g) /\ Members(g) \subseteq Subject
        /\ binding[d] \in {"CURRENT", "STALE"}
    BY <1>1, <1>2, FenceSays, PeopleAreSubjects
  <1>4. D.status = "LIVE"
    <2>1. ASSUME D.status = "AGREED"
          PROVE  next = D
      BY <2>1 DEF Revised, WithMembers
    <2> HIDE DEF next, D
    <2> QED
      BY <1>1, <2>1
  <1>5. D.private \subseteq D.members \cup D.inactive
    BY <1>2 DEF DecisionInv, Seated
  <1>6. /\ next \in DecisionType /\ next.status = "LIVE"
        /\ next.members = Members(g) /\ next.inactive = {}
        /\ next.private \subseteq Members(g)
        /\ next.private \cup next.retired = Holders(d)
        /\ next.receipt = D.receipt
    <2>1. CASE MayInclude(D, Members(g))
      <3>1. next = [D EXCEPT !.members = Members(g), !.readable = TRUE]
        BY <1>1, <1>3, <1>4, <2>1 DEF Revised, WithMembers
      <3>2. D.members \subseteq Members(g) /\ D.inactive = {}
        BY <1>4, <2>1 DEF MayInclude
      <3> QED
        BY <1>2, <1>3, <1>4, <1>5, <3>1, <3>2 DEF DecisionType, Holders
    <2>2. CASE ~MayInclude(D, Members(g))
      <3>1. next = [D EXCEPT !.members = Members(g), !.readable = TRUE, !.inactive = {},
                             !.private = {}, !.retired = D.retired \cup D.private]
        BY <1>2, <1>3, <1>4, <2>2 DEF Revised
      <3> QED
        BY <1>2, <1>3, <1>4, <3>1 DEF DecisionType, Holders
    <2> QED
      BY <2>1, <2>2
  <1>7. Stored(d)
    BY <1>1 DEF Stored
  <1>8. /\ binding' \in [Draft -> BindingType] /\ binding'[d] = "CURRENT"
        /\ \A e \in Draft : e # d => binding'[e] = binding[e]
        /\ draft' \in [Draft -> DraftType]
        /\ draft'[d] = draft[d] /\ \A e \in Draft : draft'[e] = draft[e]
    BY <1>1, <1>2 DEF StoreType, BindingType
  <1>9. /\ rows \in SUBSET Row /\ ReplayRow(d, s) \notin rows
    BY <1>2, RowsAreRows, RowsDiffer
  <1>10. /\ GuardRow(d) \in rows
         /\ rows \subseteq {HeaderRow(g), DraftRow(d), GuardRow(d), ReplayRow(d, s)}
         /\ HeaderRow(g) \notin rows => binding[d] = "CURRENT"
    BY <1>3
  <1> HIDE DEF next, rows
  <1>11. \A t \in Subject : next.receipt[t] = decision[d].receipt[t]
    BY <1>6
  <1> QED
    BY <1>1, <1>3, <1>6, <1>7, <1>8, <1>9, <1>10, <1>11, DecisionCommit

\* Whatever people do, the rows of the store keep their promises, and what
\* changed is known to those who read it.
LEMMA SessionSteps ==
    ASSUME SystemInv, SessionNext
    PROVE  SessionStep
  <1>1. CASE AccountStep
    BY <1>1, AccountSteps DEF AccountStep
  <1>2. CASE GroupStep
    <2>1. PICK s \in Subject, g \in Group :
             \/ Create(s, g)
             \/ \E t \in Subject : Invite(s, g, t)
             \/ Accept(s, g)
             \/ \E t \in Subject : RemoveMember(s, g, t)
             \/ Rename(s, g)
             \/ DeleteGroup(s, g)
      BY <1>2 DEF GroupStep
    <2> QED
      BY <2>1, CreateStep, InviteStep, AcceptStep, LeaveBehindStep, RenameStep
  <1>3. CASE DraftStep
    BY <1>3, DraftSteps DEF DraftStep
  <1>4. CASE DecisionStep
    BY <1>4, RequestSteps, CreateDecisionStep, TakePartSteps, ReviseRosterStep DEF DecisionStep
  <1>5. CASE \E s \in Subject : GiveUp(s)
    BY <1>5, RequestSteps
  <1> QED
    BY <1>1, <1>2, <1>3, <1>4, <1>5 DEF SessionNext

-----------------------------------------------------------------------------
(* What a change of the store means to those who read it *)

Traces(d) == Holders(d) \cup decision[d].members

\* What people, archives and erasures have in common.  Accounts and groups
\* change with their rows; drafts and bindings with the header, unless an
\* erasure removes a name or an archived group's rows; decisions and receipts
\* with the guard, unless an erasure removes a receipt.  Whoever comes into a
\* decision or a draft is approved.
StoreEffect(rows) ==
    /\ \A s \in Subject :
          /\ AccountRow(s) \notin rows => account'[s] = account[s] /\ edges'[s] = edges[s]
          /\ Frozen(s) => Frozen(s)'
    /\ \A g \in Group :
          /\ HeaderRow(g) \notin rows => group'[g] = group[g]
          /\ group[g].status = "ARCHIVED" => group'[g].status = "ARCHIVED"
    /\ \A d \in Draft :
          /\ HeaderRow(GroupOf[d]) \notin rows /\ group[GroupOf[d]].status # "ARCHIVED" =>
                /\ binding'[d] = binding[d] /\ draft'[d].status = draft[d].status
                /\ \A s \in draft[d].names \ draft'[d].names : Frozen(s)
          /\ \A s \in draft'[d].names \ draft[d].names :
                Approved(s) /\ HeaderRow(GroupOf[d]) \in rows
          /\ Stored(d)' => \/ Stored(d)
                           \/ /\ HeaderRow(GroupOf[d]) \in rows
                              /\ group[GroupOf[d]].status = "OPEN"
          /\ \A s \in Traces(d)' \ Traces(d) : Approved(s) /\ GuardRow(d) \in rows
          /\ GuardRow(d) \notin rows =>
                /\ Stored(d) => Stored(d)'
                /\ \A s \in Subject : decision'[d].receipt[s] # None =>
                      decision[d].receipt[s] # None /\ ReplayRow(d, s) \notin rows

\* A plan that somebody else's write leaves where it is.
PlanStays(q, rows) ==
    /\ plan[q] # None /\ journal'[q] = journal[q]
    /\ plan'[q].scope = plan[q].scope /\ plan'[q].subjects = plan[q].subjects
    /\ plan'[q].steps = plan[q].steps /\ plan'[q].fresh = plan[q].fresh \ rows

\* What people do has that effect.
LEMMA SessionsChange ==
    ASSUME StoreType, NEW rows, GroupsChange(rows), DecisionsChange(rows)
    PROVE  StoreEffect(rows)
  <1>1. \A s \in Subject : Frozen(s) => Frozen(s)'
    BY DEF GroupsChange, Frozen
  <1>2. ASSUME NEW d \in Draft
        PROVE  /\ HeaderRow(GroupOf[d]) \notin rows =>
                     draft'[d] = draft[d] /\ binding'[d] = binding[d]
               /\ \A s \in draft'[d].names \ draft[d].names :
                     Approved(s) /\ HeaderRow(GroupOf[d]) \in rows
    BY DEF GroupsChange
  <1>3. ASSUME NEW d \in Draft
        PROVE  /\ \A s \in Traces(d)' \ Traces(d) : Approved(s) /\ GuardRow(d) \in rows
               /\ GuardRow(d) \notin rows =>
                     /\ Stored(d) => Stored(d)'
                     /\ \A s \in Subject : decision'[d].receipt[s] # None =>
                           decision[d].receipt[s] # None /\ ReplayRow(d, s) \notin rows
    BY DEF DecisionsChange, Traces, Holders, Stored
  <1>4. ASSUME NEW d \in Draft
        PROVE  Stored(d)' => \/ Stored(d)
                             \/ /\ HeaderRow(GroupOf[d]) \in rows
                                /\ group[GroupOf[d]].status = "OPEN"
    BY DEF DecisionsChange
  <1>5. /\ \A s \in Subject :
              AccountRow(s) \notin rows => account'[s] = account[s] /\ edges'[s] = edges[s]
        /\ \A g \in Group :
              /\ HeaderRow(g) \notin rows => group'[g] = group[g]
              /\ group[g].status = "ARCHIVED" => group'[g].status = "ARCHIVED"
    BY DEF GroupsChange
  <1> QED
    BY <1>1, <1>2, <1>3, <1>4, <1>5 DEF StoreEffect

\* A fence that stands still describes the group, and so does a new one.
LEMMA FencesStand ==
    ASSUME SystemInv, NEW rows, StoreEffect(rows),
           \A s \in Subject : request'[s] # None /\ request'[s].current =>
              \/ request'[s] = RequestsAfter(rows)[s]
              \/ rows = {} /\ MayFence(s, request'[s].kind, request'[s].on)
                   /\ request'[s].roster = Members(GroupOf[request'[s].on]),
           request' \in [Subject -> {None} \cup RequestType]
    PROVE  FenceInv'
  <1> SUFFICES ASSUME NEW s \in Subject, request'[s] # None, request'[s].current
               PROVE  LET r == request'[s]
                          g == GroupOf[r.on]
                      IN  /\ group'[g].status = "OPEN"
                          /\ r.roster = group'[g].members
                          /\ \A t \in group'[g].members : account'[t].status = "APPROVED"
                          /\ s \in group'[g].members
                          /\ r.kind = "REVISE_ROSTER" => binding'[r.on] \in {"CURRENT", "STALE"}
    BY DEF FenceInv, Members, RosterApproved, Approved
  <1> DEFINE r == request'[s]
             g == GroupOf[r.on]
  <1>1. r \in RequestType /\ r.on \in Draft /\ g \in Group
    BY StoreAssumption DEF RequestType
  <1>2. Members(g) \subseteq Subject
    BY <1>1, PeopleAreSubjects DEF SystemInv, StoreInv
  <1>3. /\ group[g].status = "OPEN" /\ r.roster = Members(g) /\ RosterApproved(g)
        /\ s \in Members(g)
        /\ r.kind = "REVISE_ROSTER" => binding[r.on] \in {"CURRENT", "STALE"}
        /\ HeaderRow(g) \notin rows /\ \A t \in r.roster : AccountRow(t) \notin rows
    <2>1. CASE r = RequestsAfter(rows)[s]
      <3>1. request[s] = r /\ FenceRows(r) \cap rows = {}
        BY <2>1, RequestsAfterWrite DEF SystemInv
      <3>2. HeaderRow(g) \in FenceRows(r) /\ \A t \in r.roster : AccountRow(t) \in FenceRows(r)
        BY DEF FenceRows
      <3> QED
        BY <3>1, <3>2 DEF SystemInv, FenceInv
    <2>2. CASE rows = {} /\ MayFence(s, r.kind, r.on) /\ r.roster = Members(g)
      BY <1>1, <2>2 DEF MayFence, MayOrganize, MayVisit, RequestType
    <2> QED
      BY <2>1, <2>2
  <1>4. group'[g] = group[g] /\ \A t \in Members(g) : account'[t] = account[t]
    BY <1>1, <1>2, <1>3 DEF StoreEffect
  <1>5. binding'[r.on] = binding[r.on]
    BY <1>1, <1>3 DEF StoreEffect
  <1> QED
    BY <1>3, <1>4, <1>5 DEF Members, RosterApproved, Approved

\* The plan of an account that stays where it is still covers it.
LEMMA AccountStaysCovered ==
    ASSUME SystemInv, StoreInv', NEW rows, StoreEffect(rows), NEW q \in Plan,
           PlanStays(q, rows), plan[q].scope.kind = "ACCOUNT", plan[q].scope.who \in Subject,
           \A s \in Subject : account'[s] = [status |-> "ERASING", by |-> q]
                                 => account[s] = account'[s]
    PROVE  AccountPlanInv(q)'
  <1> DEFINE s == plan[q].scope.who
             root == plan[q].steps[1].rows
  <1>1. AccountPlanInv(q) /\ s \in Subject
    BY DEF SystemInv, CoverageInv, PlanStays
  <1>2. /\ plan'[q].scope.who = s /\ plan'[q].steps[1].rows = root
        /\ plan'[q].steps = plan[q].steps
        /\ plan'[q].fresh = plan[q].fresh \ rows /\ (Begun(q)' <=> Begun(q))
    BY DEF PlanStays, Begun
  <1>3. \A d \in Draft :
           /\ s \in Traces(d)' => Stored(d)' /\ GroupOf[d] \in edges'[s]
           /\ s \in draft'[d].names => GroupOf[d] \in edges'[s]
    BY DEF StoreInv, DecisionInv, Traces, Holders, Seated, Stored
  <1>4. AccountCovered(q)' <=>
           \A d \in Draft :
              /\ s \in Traces(d)' => HasStep(q, "OWNER_STATE", d)
              /\ s \in draft'[d].names =>
                    \E i \in DOMAIN plan[q].steps :
                       /\ plan[q].steps[i].kind = "ACCOUNT_DRAFTS"
                       /\ DraftRow(d) \in plan[q].steps[i].rows
    BY <1>2 DEF AccountCovered, HasStep, Traces, Holders
  <1>5. ASSUME ~Begun(q), root \subseteq plan[q].fresh \ rows
        PROVE  /\ AccountRow(s) \in root
               /\ \A g \in edges'[s] : HeaderRow(g) \in root
               /\ \A d \in Draft : Stored(d)' /\ GroupOf[d] \in edges'[s] => GuardRow(d) \in root
               /\ AccountCovered(q)'
    <2>1. /\ AccountRow(s) \in root
          /\ \A g \in edges[s] : HeaderRow(g) \in root
          /\ \A d \in Draft : Stored(d) /\ GroupOf[d] \in edges[s] => GuardRow(d) \in root
          /\ AccountCovered(q)
      BY <1>1, <1>5 DEF AccountPlanInv
    <2>2. \A row \in root : row \notin rows
      BY <1>5
    <2>3. edges'[s] = edges[s]
      BY <1>1, <2>1, <2>2 DEF StoreEffect
    <2>4. ASSUME NEW d \in Draft, GroupOf[d] \in edges[s]
          PROVE  /\ HeaderRow(GroupOf[d]) \notin rows
                 /\ Stored(d)' => Stored(d) /\ GuardRow(d) \in root /\ GuardRow(d) \notin rows
      BY <2>1, <2>2, <2>4 DEF StoreEffect
    <2>5. ASSUME NEW d \in Draft
          PROVE  /\ s \in Traces(d)' => s \in Traces(d)
                 /\ s \in draft'[d].names => s \in draft[d].names
      BY <1>1, <1>3, <2>3, <2>4 DEF StoreEffect
    <2>6. AccountCovered(q)'
      BY <1>4, <2>1, <2>5 DEF AccountCovered, Traces
    <2> QED
      BY <2>1, <2>3, <2>4, <2>6
  <1>6. ASSUME Begun(q), account'[s] = [status |-> "ERASING", by |-> q]
        PROVE  AccountCovered(q)'
    <2>1. account[s] = [status |-> "ERASING", by |-> q]
      BY <1>1, <1>6
    <2>2. AccountCovered(q) /\ ~Approved(s)
      BY <1>1, <1>6, <2>1 DEF AccountPlanInv, Approved
    <2>3. ASSUME NEW d \in Draft
          PROVE  /\ s \in Traces(d)' => s \in Traces(d)
                 /\ s \in draft'[d].names => s \in draft[d].names
      BY <2>2 DEF StoreEffect
    <2> QED
      BY <1>4, <2>2, <2>3 DEF AccountCovered, Traces
  <1> HIDE DEF s, root
  <1>7. AccountPlanInv(q)' <=>
           /\ ~Begun(q)' /\ root \subseteq plan'[q].fresh =>
                 /\ AccountRow(s) \in root
                 /\ \A g \in edges'[s] : HeaderRow(g) \in root
                 /\ \A d \in Draft : Stored(d)' /\ GroupOf[d] \in edges'[s]
                                        => GuardRow(d) \in root
                 /\ AccountCovered(q)'
           /\ Begun(q)' /\ account'[s] = [status |-> "ERASING", by |-> q]
                 => AccountCovered(q)'
    BY <1>2 DEF AccountPlanInv
  <1> QED
    BY <1>2, <1>5, <1>6, <1>7

\* And so does the plan of a group.
LEMMA GroupStaysCovered ==
    ASSUME SystemInv, NEW rows, StoreEffect(rows), NEW q \in Plan,
           PlanStays(q, rows), plan[q].scope.kind = "GROUP", plan[q].scope.what \in Group
    PROVE  GroupPlanInv(q)'
  <1> DEFINE g == plan[q].scope.what
             root == plan[q].steps[1].rows
  <1>1. GroupPlanInv(q)
    BY DEF SystemInv, CoverageInv, PlanStays
  <1>2. /\ plan'[q].scope.what = g /\ plan'[q].steps[1].rows = root
        /\ plan'[q].steps = plan[q].steps
        /\ plan'[q].fresh = plan[q].fresh \ rows /\ (Begun(q)' <=> Begun(q))
    BY DEF PlanStays, Begun
  <1>3. GroupCovered(q)' <=> \A d \in ChildrenOf(g) : Stored(d)' => HasStep(q, "DECISION_STATE", d)
    BY <1>2 DEF GroupCovered, HasStep
  <1>4. ASSUME ~Begun(q), root \subseteq plan[q].fresh \ rows
        PROVE  HeaderRow(g) \in root /\ GroupCovered(q)'
    <2>1. HeaderRow(g) \in root /\ HeaderRow(g) \notin rows /\ GroupCovered(q)
      BY <1>1, <1>4 DEF GroupPlanInv
    <2>2. \A d \in ChildrenOf(g) : Stored(d)' => Stored(d)
      BY <2>1 DEF StoreEffect, ChildrenOf
    <2> QED
      BY <1>3, <2>1, <2>2 DEF GroupCovered
  <1>5. ASSUME Begun(q)
        PROVE  group'[g].status = "ARCHIVED" /\ GroupCovered(q)'
    <2>1. group[g].status = "ARCHIVED" /\ GroupCovered(q)
      BY <1>1, <1>5 DEF GroupPlanInv
    <2>2. \A d \in ChildrenOf(g) : Stored(d)' => Stored(d)
      BY <2>1 DEF StoreEffect, ChildrenOf
    <2> QED
      BY <1>3, <2>1, <2>2 DEF GroupCovered, StoreEffect
  <1> HIDE DEF g, root
  <1>6. GroupPlanInv(q)' <=>
           /\ ~Begun(q)' /\ root \subseteq plan'[q].fresh => HeaderRow(g) \in root /\ GroupCovered(q)'
           /\ Begun(q)' => group'[g].status = "ARCHIVED" /\ GroupCovered(q)'
    BY <1>2 DEF GroupPlanInv
  <1> QED
    BY <1>2, <1>4, <1>5, <1>6

\* Its steps are as they were, and it removes the receipts it removed.
LEMMA PlanStaysAsItIs ==
    ASSUME SystemInv, NEW rows, StoreEffect(rows), NEW q \in Plan, PlanStays(q, rows)
    PROVE  /\ journal'[q] = "ERASED" <=> plan'[q].steps = <<>>
           /\ StepsInv(q)'
           /\ ReceiptsFollow(q)'
           /\ \A i \in {0} \cup DOMAIN plan[q].steps, d \in Draft, s \in Subject :
                 RemovesReceipt(q, i, d, s) /\ ReplayRow(d, s) \notin rows
                    => RemovesReceipt(q, i, d, s)'
  <1>1. journal'[q] = "ERASED" <=> plan'[q].steps = <<>>
    BY DEF SystemInv, PlanInv, PlanStays
  <1>2. StepsInv(q)'
    <2>1. StepsInv(q)
      BY DEF SystemInv, PlanInv, PlanStays
    <2> QED
      BY <2>1 DEF StepsInv, PlanStays, Begun
  <1>3. ASSUME NEW i, NEW d \in Draft, NEW s \in Subject,
               RemovesReceipt(q, i, d, s), ReplayRow(d, s) \notin rows
        PROVE  RemovesReceipt(q, i, d, s)'
    BY <1>3 DEF RemovesReceipt, PlanStays
  <1>4. ReceiptsFollow(q)'
    <2> SUFFICES ASSUME NEW i \in DOMAIN plan'[q].steps, NEW d \in Draft,
                        plan'[q].steps[i].kind \in {"OWNER_STATE", "DECISION_STATE"},
                        plan'[q].steps[i].on = d, GuardRow(d) \in plan'[q].fresh
                 PROVE  /\ Stored(d)'
                        /\ \A s \in Subject : decision'[d].receipt[s] # None =>
                              RemovesReceipt(q, i, d, s)'
      BY DEF ReceiptsFollow
    <2>1. GuardRow(d) \in plan[q].fresh /\ GuardRow(d) \notin rows
      BY DEF PlanStays
    <2>2. /\ Stored(d)
          /\ \A s \in Subject : decision[d].receipt[s] # None => RemovesReceipt(q, i, d, s)
      BY <2>1 DEF SystemInv, ReceiptInv, ReceiptsFollow, PlanStays
    <2>3. Stored(d)'
      BY <2>1, <2>2 DEF StoreEffect
    <2>4. ASSUME NEW s \in Subject, decision'[d].receipt[s] # None
          PROVE  RemovesReceipt(q, i, d, s)'
      BY <1>3, <2>1, <2>2, <2>4 DEF StoreEffect
    <2> QED
      BY <2>3, <2>4
  <1> QED
    BY <1>1, <1>2, <1>3, <1>4

\* A manifest whose header stands still describes the group.
LEMMA ManifestsStand ==
    ASSUME SystemInv, NEW rows, StoreEffect(rows), NEW g \in Group,
           archive' = ArchivesAfter(rows)
    PROVE  archive'[g] # None /\ archive'[g].state # "ARCHIVED"
             /\ HeaderRow(g) \in archive'[g].fresh =>
           LET a == archive'[g] IN
           /\ group'[g].status \in {"OPEN", "DELETED"}
           /\ group'[g].members = a.members
           /\ a.state = "CHECKED" =>
                 /\ a.by = "ORGANIZER" /\ AccountRow(group'[g].organizer) \in a.fresh
                       => account'[group'[g].organizer].status = "APPROVED"
                 /\ \A d \in ChildrenOf(g) :
                       /\ binding'[d] = a.children[d][2]
                       /\ draft'[d].status = a.children[d][1].status
                       /\ \A s \in a.children[d][1].names \ draft'[d].names : Frozen(s)'
  <1> SUFFICES ASSUME archive'[g] # None, archive'[g].state # "ARCHIVED",
                      HeaderRow(g) \in archive'[g].fresh
               PROVE  LET a == archive'[g] IN
                      /\ group'[g].status \in {"OPEN", "DELETED"}
                      /\ group'[g].members = a.members
                      /\ a.state = "CHECKED" =>
                            /\ a.by = "ORGANIZER" /\ AccountRow(group'[g].organizer) \in a.fresh
                                  => account'[group'[g].organizer].status = "APPROVED"
                            /\ \A d \in ChildrenOf(g) :
                                  /\ binding'[d] = a.children[d][2]
                                  /\ draft'[d].status = a.children[d][1].status
                                  /\ \A s \in a.children[d][1].names \ draft'[d].names : Frozen(s)'
    OBVIOUS
  <1>1. ReaderType
    BY DEF SystemInv
  <1>2. /\ archive[g] # None /\ archive'[g].state = archive[g].state
        /\ archive'[g].members = archive[g].members
        /\ archive'[g].fresh = archive[g].fresh \ rows
        /\ archive'[g].by = archive[g].by /\ archive'[g].children = archive[g].children
    BY <1>1, ArchivesAfterWrite
  <1>3. HeaderRow(g) \in archive[g].fresh /\ HeaderRow(g) \notin rows
        /\ archive[g].state # "ARCHIVED"
    BY <1>2
  <1>4. /\ group[g].status \in {"OPEN", "DELETED"} /\ Members(g) = archive[g].members
        /\ archive[g].state = "CHECKED" =>
              /\ archive[g].by = "ORGANIZER" /\ AccountRow(group[g].organizer) \in archive[g].fresh
                    => Approved(group[g].organizer)
              /\ \A d \in ChildrenOf(g) :
                    /\ binding[d] = archive[g].children[d][2]
                    /\ draft[d].status = archive[g].children[d][1].status
                    /\ \A s \in archive[g].children[d][1].names \ draft[d].names : Frozen(s)
    BY <1>2, <1>3 DEF SystemInv, ManifestInv
  <1>5. group'[g] = group[g]
    BY <1>3 DEF StoreEffect
  <1>6. \A d \in ChildrenOf(g) :
           /\ d \in Draft /\ binding'[d] = binding[d] /\ draft'[d].status = draft[d].status
           /\ \A s \in draft[d].names \ draft'[d].names : Frozen(s) /\ s \in Subject
    BY <1>3, <1>4, PeopleAreSubjects DEF StoreEffect, ChildrenOf, SystemInv, StoreInv
  <1>7. archive[g] \in ManifestType(g)
    BY <1>1, <1>2, <1>3 DEF ReaderType, TombstoneType
  <1>8. \A o : AccountRow(o) \in archive[g].fresh => o \in Subject
    <2>1. archive[g].fresh \subseteq Row
      BY <1>7 DEF ManifestType
    <2>2. \A o : AccountRow(o) \in Row => o \in Subject
      BY RowsDiffer DEF Row
    <2> QED
      BY <2>1, <2>2
  <1>9. archive[g].by = "ORGANIZER" /\ archive[g].state = "CHECKED"
          /\ AccountRow(group'[g].organizer) \in archive'[g].fresh
           => account'[group'[g].organizer].status = "APPROVED"
    <2> SUFFICES ASSUME archive[g].by = "ORGANIZER", archive[g].state = "CHECKED",
                        AccountRow(group'[g].organizer) \in archive'[g].fresh
                 PROVE  account'[group'[g].organizer].status = "APPROVED"
      OBVIOUS
    <2> DEFINE o == group[g].organizer
    <2>1. AccountRow(o) \in archive[g].fresh /\ AccountRow(o) \notin rows
      BY <1>2, <1>5
    <2>2. account'[o] = account[o]
      BY <1>8, <2>1 DEF StoreEffect
    <2> QED
      BY <1>4, <1>5, <2>1, <2>2 DEF Approved
  <1>10. ASSUME NEW d \in ChildrenOf(g), archive[g].state = "CHECKED",
                NEW s \in archive[g].children[d][1].names \ draft'[d].names
         PROVE  Frozen(s)'
    <2>1. archive[g].children[d][1].names \subseteq Subject
      BY <1>7 DEF ManifestType, DraftType
    <2>2. Frozen(s)
      BY <1>4, <1>6, <1>10
    <2> QED
      BY <2>1, <2>2 DEF StoreEffect
  <1> QED
    BY <1>2, <1>4, <1>5, <1>6, <1>9, <1>10 DEF Members

\* Nothing of an erased person comes back.
LEMMA NothingComesBack ==
    ASSUME SystemInv, NEW rows, StoreEffect(rows), NEW s \in Subject,
           account[s].status = "ERASED"
    PROVE  \A d \in Draft : s \notin Traces(d)' /\ s \notin draft'[d].names
  <1>1. \A d \in Draft : s \notin Traces(d) /\ s \notin draft[d].names
    BY DEF SystemInv, NoTraceInv, Traces
  <1>2. ~Approved(s)
    BY DEF Approved
  <1> QED
    BY <1>1, <1>2 DEF StoreEffect

\* Whatever people do, every reader of the store is still right about it.
LEMMA SessionsKeepInv ==
    ASSUME SystemInv, SessionStep
    PROVE  SystemInv'
  <1>1. StoreInv'
    BY DEF SessionStep
  <1>2. PICK rows \in SUBSET Row : SessionEffect(rows)
    BY DEF SessionStep
  <1>3. /\ ReadersKnow(rows) /\ GroupsChange(rows) /\ DecisionsChange(rows)
        /\ ReaderType /\ StoreType
    BY <1>2 DEF SessionEffect, SystemInv, StoreInv
  <1>4. StoreEffect(rows)
    BY <1>3, SessionsChange
  <1>5. /\ plan' = PlansAfter(rows) /\ archive' = ArchivesAfter(rows)
        /\ journal' = journal /\ consent' = consent
    BY <1>3 DEF ReadersKnow
  <1>6. ReaderType'
    BY <1>3, <1>5, PlansAfterWrite, ArchivesAfterWrite DEF ReaderType, ReadersKnow
  <1>7. FenceInv'
    BY <1>3, <1>4, FencesStand DEF ReadersKnow
  <1>8. ASSUME NEW q \in Plan, plan'[q] # None
        PROVE  PlanStays(q, rows) /\ plan[q] \in PlanType
    BY <1>3, <1>5, <1>8, PlansAfterWrite DEF PlanStays, ReaderType
  <1>9. PlanInv'
    <2> SUFFICES ASSUME NEW q \in Plan
                 PROVE  /\ journal'[q] # None => plan'[q] # None
                        /\ plan'[q] # None => /\ journal'[q] = "ERASED" <=> plan'[q].steps = <<>>
                                              /\ StepsInv(q)'
      BY DEF PlanInv
    <2>1. journal'[q] # None => plan'[q] # None
      BY <1>3, <1>5, PlansAfterWrite DEF SystemInv, PlanInv
    <2> QED
      BY <1>4, <1>8, <2>1, PlanStaysAsItIs
  <1>10. ReceiptInv'
    <2>1. ASSUME NEW q \in Plan, plan'[q] # None
          PROVE  ReceiptsFollow(q)'
      BY <1>4, <1>8, <2>1, PlanStaysAsItIs
    <2>2. ASSUME NEW d \in Draft, NEW s \in Subject, decision'[d].receipt[s] # None,
                 s \notin Holders(d)'
          PROVE  \E q \in Plan : journal'[q] = "ERASING" /\ RemovesReceipt(q, 0, d, s)'
      <3>1. decision[d].receipt[s] # None /\ ReplayRow(d, s) \notin rows /\ s \notin Holders(d)
        BY <1>3, <2>2 DEF DecisionsChange
      <3>2. PICK q \in Plan : journal[q] = "ERASING" /\ RemovesReceipt(q, 0, d, s)
        BY <3>1 DEF SystemInv, ReceiptInv
      <3>3. journal[q] # None
        BY <3>2, StoreAssumption
      <3>4. plan'[q] # None
        BY <1>3, <1>5, <3>3, PlansAfterWrite DEF SystemInv, PlanInv
      <3>5. RemovesReceipt(q, 0, d, s)'
        BY <1>4, <1>8, <3>1, <3>2, <3>4, PlanStaysAsItIs
      <3> QED
        BY <1>5, <3>2, <3>5
    <2> QED
      BY <2>1, <2>2 DEF ReceiptInv
  <1>11. CoverageInv'
    <2> SUFFICES ASSUME NEW q \in Plan, plan'[q] # None
                 PROVE  /\ plan'[q].scope.kind = "ACCOUNT" => AccountPlanInv(q)'
                        /\ plan'[q].scope.kind = "GROUP" => GroupPlanInv(q)'
      BY DEF CoverageInv
    <2>1. PlanStays(q, rows) /\ plan[q].scope \in Scope
      BY <1>8 DEF PlanType
    <2>2. plan'[q].scope = plan[q].scope
      BY <2>1 DEF PlanStays
    <2>3. ASSUME NEW s \in Subject, account'[s] = [status |-> "ERASING", by |-> q]
          PROVE  account[s] = account'[s]
      <3>1. account'[s].status = "ERASING"
        BY <2>3
      <3> QED
        BY <1>3, <3>1 DEF GroupsChange, Frozen
    <2>4. plan[q].scope.kind = "ACCOUNT" => AccountPlanInv(q)'
      BY <1>1, <1>4, <2>1, <2>3, ScopeFields, AccountStaysCovered
    <2>5. plan[q].scope.kind = "GROUP" => GroupPlanInv(q)'
      BY <1>4, <2>1, ScopeFields, GroupStaysCovered
    <2> QED
      BY <2>2, <2>4, <2>5
  <1>12. NoTraceInv'
    <2>1. ASSUME NEW s \in Subject, account'[s].status = "ERASED"
          PROVE  account[s].status = "ERASED"
      BY <1>3, <2>1 DEF GroupsChange, Frozen
    <2> QED
      BY <1>4, <2>1, NothingComesBack DEF NoTraceInv, Traces, Holders
  <1>13. ManifestInv'
    BY <1>4, <1>5, ManifestsStand DEF ManifestInv, Members, Approved
  <1> QED
    BY <1>1, <1>6, <1>7, <1>9, <1>10, <1>11, <1>12, <1>13 DEF SystemInv

-----------------------------------------------------------------------------
(* Steps that write no row of the store *)

storeRows == <<account, edges, group, invitation, draft, binding, decision>>

\* What an invariant says of one plan.
OnePlanInv(p) ==
    /\ journal[p] = "ERASED" <=> plan[p].steps = <<>>
    /\ StepsInv(p)
    /\ ReceiptsFollow(p)
    /\ plan[p].scope.kind = "ACCOUNT" => AccountPlanInv(p)
    /\ plan[p].scope.kind = "GROUP" => GroupPlanInv(p)

\* The invariant, said plan by plan.
LEMMA PlanByPlan ==
    ASSUME SystemInv, NEW p \in Plan, plan[p] # None
    PROVE  OnePlanInv(p)
  BY DEF SystemInv, PlanInv, ReceiptInv, CoverageInv, OnePlanInv

\* And after a step.
LEMMA PlanByPlanAfter ==
    ASSUME \A p \in Plan : /\ plan'[p] # None => OnePlanInv(p)'
                           /\ journal'[p] # None => plan'[p] # None,
           \A d \in Draft, s \in Subject : decision'[d].receipt[s] # None =>
              \/ s \in Holders(d)'
              \/ \E p \in Plan : journal'[p] = "ERASING" /\ RemovesReceipt(p, 0, d, s)'
    PROVE  PlanInv' /\ ReceiptInv' /\ CoverageInv'
  BY DEF PlanInv, ReceiptInv, CoverageInv, OnePlanInv

\* Where no row changes, the store keeps its promises.
LEMMA StoreUnread ==
    ASSUME SystemInv, UNCHANGED storeRows
    PROVE  StoreInv' /\ NoTraceInv'
  <1>1. UNCHANGED <<account, edges, group, invitation, draft, binding, decision>>
    BY DEF storeRows
  <1>2. StoreInv'
    BY <1>1
    DEF SystemInv, StoreInv, StoreType, RosterInv, DecisionInv, Members, Stored, Holders,
        Seated, CurrentBindingMatchesRoster
  <1>3. NoTraceInv'
    BY <1>1 DEF SystemInv, NoTraceInv, Holders
  <1> QED
    BY <1>2, <1>3

\* And a plan that is not touched either is as good as before.
LEMMA PlanUnread ==
    ASSUME SystemInv, UNCHANGED storeRows, NEW q \in Plan, plan[q] # None,
           plan'[q] = plan[q], Begun(q)' <=> Begun(q),
           journal'[q] = "ERASED" <=> journal[q] = "ERASED"
    PROVE  OnePlanInv(q)'
  <1>1. UNCHANGED <<account, edges, group, invitation, draft, binding, decision>>
    BY DEF storeRows
  <1>2. OnePlanInv(q)
    BY PlanByPlan
  <1>3. StepsInv(q)'
    BY <1>2 DEF OnePlanInv, StepsInv, StepFits
  <1>4. ReceiptsFollow(q)'
    BY <1>1, <1>2 DEF OnePlanInv, ReceiptsFollow, RemovesReceipt, Stored
  <1>5. /\ AccountCovered(q)' <=> AccountCovered(q)
        /\ GroupCovered(q)' <=> GroupCovered(q)
        /\ \A d : Stored(d)' <=> Stored(d)
    BY <1>1 DEF AccountCovered, GroupCovered, HasStep, Holders, Stored
  <1>6. plan[q].scope.kind = "ACCOUNT" => AccountPlanInv(q)'
    BY <1>1, <1>2, <1>5 DEF OnePlanInv, AccountPlanInv
  <1>7. plan[q].scope.kind = "GROUP" => GroupPlanInv(q)'
    BY <1>1, <1>2, <1>5 DEF OnePlanInv, GroupPlanInv
  <1> QED
    BY <1>2, <1>3, <1>4, <1>6, <1>7 DEF OnePlanInv

\* Nobody's fence falls and no manifest is wrong because of it.
LEMMA FencesUnread ==
    ASSUME SystemInv, UNCHANGED storeRows, request' = request
    PROVE  FenceInv'
  BY DEF SystemInv, FenceInv, storeRows, Members, RosterApproved, Approved

\* The same of manifests.
LEMMA ManifestsUnread ==
    ASSUME SystemInv, UNCHANGED storeRows, NEW g \in Group, archive'[g] = archive[g]
    PROVE  archive'[g] # None /\ archive'[g].state # "ARCHIVED"
             /\ HeaderRow(g) \in archive'[g].fresh =>
           LET a == archive'[g] IN
           /\ group'[g].status \in {"OPEN", "DELETED"}
           /\ Members(g)' = a.members
           /\ a.state = "CHECKED" =>
                 /\ a.by = "ORGANIZER" /\ AccountRow(group'[g].organizer) \in a.fresh
                       => account'[group'[g].organizer].status = "APPROVED"
                 /\ \A d \in ChildrenOf(g) :
                       /\ binding'[d] = a.children[d][2]
                       /\ draft'[d].status = a.children[d][1].status
                       /\ \A s \in a.children[d][1].names \ draft'[d].names : Frozen(s)'
  BY DEF SystemInv, ManifestInv, storeRows, Members, Approved, Frozen

\* Consent comes and goes, and a runner opens its journal.
LEMMA ConsentKeepsInv ==
    ASSUME SystemInv, NEW p \in Plan,
           Begin(p) \/ \E s \in Subject : Grant(s, p) \/ GrantEnds(s, p)
    PROVE  SystemInv'
  <1>1. UNCHANGED storeRows /\ request' = request /\ plan' = plan /\ archive' = archive
    BY DEF Begin, Grant, GrantEnds, storeRows
  <1>2. ReaderType /\ None \notin {"PREPARED", "ERASING", "ERASED"}
    BY StoreAssumption DEF SystemInv
  <1>3. /\ journal' \in [Plan -> {None, "PREPARED", "ERASING", "ERASED"}]
        /\ \A q \in Plan : /\ journal'[q] = "ERASED" <=> journal[q] = "ERASED"
                           /\ journal'[q] = "ERASING" <=> journal[q] = "ERASING"
                           /\ journal'[q] # None => plan[q] # None
    <2>1. CASE Begin(p)
      BY <1>2, <2>1 DEF Begin, ReaderType, SystemInv, PlanInv
    <2>2. CASE \E s \in Subject : Grant(s, p) \/ GrantEnds(s, p)
      BY <1>2, <2>2 DEF Grant, GrantEnds, ReaderType, SystemInv, PlanInv
    <2> QED
      BY <2>1, <2>2
  <1>4. consent' \in [Plan -> SUBSET Subject]
    BY <1>2 DEF Begin, Grant, GrantEnds, ReaderType
  <1>5. ReaderType'
    BY <1>1, <1>2, <1>3, <1>4 DEF ReaderType
  <1>6. StoreInv' /\ NoTraceInv' /\ FenceInv'
    BY <1>1, StoreUnread, FencesUnread
  <1>7. \A q \in Plan : Begun(q)' <=> Begun(q)
    BY <1>3 DEF Begun
  <1>8. \A q \in Plan : plan'[q] # None => OnePlanInv(q)'
    BY <1>1, <1>3, <1>7, PlanUnread
  <1>9. ASSUME NEW d \in Draft, NEW s \in Subject, decision'[d].receipt[s] # None
        PROVE  \/ s \in Holders(d)'
               \/ \E q \in Plan : journal'[q] = "ERASING" /\ RemovesReceipt(q, 0, d, s)'
    BY <1>1, <1>3, <1>9 DEF SystemInv, ReceiptInv, Holders, RemovesReceipt, storeRows
  <1>10. PlanInv' /\ ReceiptInv' /\ CoverageInv'
    BY <1>1, <1>3, <1>8, <1>9, PlanByPlanAfter
  <1>11. ManifestInv'
    BY <1>1, ManifestsUnread DEF ManifestInv, Approved
  <1> QED
    BY <1>5, <1>6, <1>10, <1>11 DEF SystemInv

\* A manifest is made, and found right.
LEMMA ManifestKeepsInv ==
    ASSUME SystemInv, NEW g \in Group,
           CheckArchive(g) \/ \E by \in Authority : PrepareArchive(g, by)
    PROVE  SystemInv'
  <1>1. /\ UNCHANGED storeRows /\ request' = request /\ plan' = plan
        /\ journal' = journal /\ consent' = consent
    BY DEF CheckArchive, PrepareArchive, storeRows
  <1>2. /\ UNCHANGED <<account, edges, group, invitation, draft, binding, decision>>
        /\ ReaderType /\ StoreType /\ RosterInv /\ None # "ERASING"
    BY <1>1, StoreAssumption DEF storeRows, SystemInv, StoreInv
  <1>3. /\ \A h \in Group : h # g => archive'[h] = archive[h]
        /\ archive' = [h \in Group |-> archive'[h]]
        /\ archive'[g] \in ManifestType(g)
        /\ HeaderRow(g) \in archive'[g].fresh =>
              /\ group[g].status \in {"OPEN", "DELETED"}
              /\ Members(g) = archive'[g].members
              /\ archive'[g].state = "CHECKED" =>
                    /\ archive'[g].by = "ORGANIZER" => Approved(group[g].organizer)
                    /\ \A d \in ChildrenOf(g) :
                          /\ binding[d] = archive'[g].children[d][2]
                          /\ draft[d].status = archive'[g].children[d][1].status
                          /\ archive'[g].children[d][1].names = draft[d].names
    <2>1. ASSUME NEW by \in Authority, PrepareArchive(g, by)
          PROVE  <1>3
      <3> DEFINE new == [by |-> by, state |-> "PREPARED", members |-> Members(g),
                         children |-> Children(g), fresh |-> {HeaderRow(g)}]
      <3>1. Children(g) \in [ChildrenOf(g) -> DraftType \X BindingType]
        BY <1>2 DEF Children, ChildrenOf, StoreType
      <3>2. Members(g) \in SUBSET Subject /\ {HeaderRow(g)} \in SUBSET Row
        BY <1>2, PeopleAreSubjects, RowsAreRows
      <3>3. new \in ManifestType(g) /\ new.members = Members(g) /\ new.state = "PREPARED"
        BY <3>1, <3>2 DEF ManifestType
      <3>4. /\ archive' = [archive EXCEPT ![g] = new]
            /\ group[g].status \in {"OPEN", "DELETED"}
        BY <2>1 DEF PrepareArchive
      <3> HIDE DEF new
      <3>5. archive = [h \in Group |-> archive[h]]
        BY <1>2 DEF ReaderType
      <3>6. /\ archive'[g] = new /\ archive' = [h \in Group |-> archive'[h]]
            /\ \A h \in Group : h # g => archive'[h] = archive[h]
        BY <3>4, <3>5
      <3> QED
        BY <3>3, <3>4, <3>6
    <2>2. CASE CheckArchive(g)
      <3> DEFINE a == archive[g]
                 new == [a EXCEPT !.state = "CHECKED",
                                  !.fresh = a.fresh \cup GuardRows(g, a.by)]
      <3>1. /\ a # None /\ a.state = "PREPARED" /\ HeaderRow(g) \in a.fresh
            /\ Children(g) = a.children /\ Authorized(g, a.by)
            /\ archive' = [archive EXCEPT ![g] = new]
        BY <2>2 DEF CheckArchive
      <3>2. a \in ManifestType(g)
        BY <1>2, <3>1 DEF ReaderType, TombstoneType
      <3>3. group[g].status \in {"OPEN", "DELETED"} /\ Members(g) = a.members
        BY <3>1 DEF SystemInv, ManifestInv
      <3>4. GuardRows(g, a.by) \subseteq Row
        BY <1>2, <3>3, RowsAreRows DEF GuardRows, RosterInv
      <3>5. a.fresh \cup GuardRows(g, a.by) \in SUBSET Row
        BY <3>2, <3>4 DEF ManifestType
      <3>6. /\ new \in ManifestType(g) /\ new.members = a.members
            /\ new.by = a.by /\ new.children = a.children
        BY <3>2, <3>5 DEF ManifestType
      <3>7. archive = [h \in Group |-> archive[h]]
        BY <1>2 DEF ReaderType
      <3> HIDE DEF new
      <3>8. /\ archive'[g] = new /\ archive' = [h \in Group |-> archive'[h]]
            /\ \A h \in Group : h # g => archive'[h] = archive[h]
        BY <3>1, <3>7
      <3>9. \A d \in ChildrenOf(g) : a.children[d] = <<draft[d], binding[d]>>
        BY <3>1 DEF Children
      <3> QED
        BY <3>1, <3>3, <3>6, <3>8, <3>9 DEF Authorized
    <2> QED
      BY <2>1, <2>2
  <1>4. ReaderType'
    <2>1. ASSUME NEW h \in Group, archive'[h] # None
          PROVE  archive'[h] \in ManifestType(h) \cup TombstoneType
      BY <1>2, <1>3, <2>1 DEF ReaderType
    <2> QED
      BY <1>1, <1>2, <1>3, <2>1 DEF ReaderType
  <1>5. StoreInv' /\ NoTraceInv' /\ FenceInv'
    BY <1>1, StoreUnread, FencesUnread
  <1>6. \A q \in Plan : Begun(q)' <=> Begun(q)
    BY <1>1 DEF Begun
  <1>7. \A q \in Plan : /\ plan'[q] # None => OnePlanInv(q)'
                        /\ journal'[q] # None => plan'[q] # None
    BY <1>1, <1>6, PlanUnread DEF SystemInv, PlanInv
  <1>8. ASSUME NEW d \in Draft, NEW s \in Subject, decision'[d].receipt[s] # None
        PROVE  \/ s \in Holders(d)'
               \/ \E q \in Plan : journal'[q] = "ERASING" /\ RemovesReceipt(q, 0, d, s)'
    BY <1>1, <1>2, <1>8 DEF SystemInv, ReceiptInv, Holders, RemovesReceipt
  <1>9. PlanInv' /\ ReceiptInv' /\ CoverageInv'
    BY <1>7, <1>8, PlanByPlanAfter
  <1>10. ManifestInv'
    <2> SUFFICES ASSUME NEW h \in Group, archive'[h] # None,
                        archive'[h].state # "ARCHIVED", HeaderRow(h) \in archive'[h].fresh
                 PROVE  LET a == archive'[h] IN
                        /\ group'[h].status \in {"OPEN", "DELETED"}
                        /\ Members(h)' = a.members
                        /\ a.state = "CHECKED" =>
                              /\ a.by = "ORGANIZER" /\ AccountRow(group'[h].organizer) \in a.fresh
                                    => account'[group'[h].organizer].status = "APPROVED"
                              /\ \A d \in ChildrenOf(h) :
                                    /\ binding'[d] = a.children[d][2]
                                    /\ draft'[d].status = a.children[d][1].status
                                    /\ \A s \in a.children[d][1].names \ draft'[d].names : Frozen(s)'
      BY DEF ManifestInv, Approved
    <2>1. CASE h # g
      BY <1>1, <1>3, <2>1, ManifestsUnread
    <2>2. CASE h = g
      BY <1>2, <1>3, <2>2 DEF Members, Approved
    <2> QED
      BY <2>1, <2>2
  <1> QED
    BY <1>4, <1>5, <1>9, <1>10 DEF SystemInv

\* The tombstone: a write of the header.
LEMMA ArchivedKeepsInv ==
    ASSUME SystemInv, NEW g \in Group, CommitArchive(g)
    PROVE  SystemInv'
  <1> DEFINE rows == {HeaderRow(g)}
             tombstone == [state |-> "ARCHIVED", members |-> archive[g].members, fresh |-> {}]
  <1>1. /\ archive[g] # None /\ archive[g].state = "CHECKED" /\ HeaderRow(g) \in archive[g].fresh
        /\ archive' = [archive EXCEPT ![g] = tombstone]
        /\ group' = [group EXCEPT ![g].status = "ARCHIVED", ![g].members = {}]
        /\ request' = RequestsAfter(rows) /\ plan' = PlansAfter(rows)
        /\ UNCHANGED <<account, edges, invitation, draft, binding, decision, journal, consent>>
    BY DEF CommitArchive, ConditionsStand
  <1>2. /\ StoreType /\ ReaderType /\ RosterInv /\ DecisionInv /\ CurrentBindingMatchesRoster
    BY DEF SystemInv, StoreInv
  <1>3. group[g].status \in {"OPEN", "DELETED"}
    BY <1>1 DEF SystemInv, ManifestInv
  <1>4. /\ group' \in [Group -> GroupType] /\ group'[g].status = "ARCHIVED"
        /\ group'[g].members = {} /\ group'[g].organizer = group[g].organizer
        /\ \A h \in Group : h # g => group'[h] = group[h]
    BY <1>1, <1>2 DEF StoreType, GroupType
  <1>5. StoreInv'
    <2>1. StoreType'
      BY <1>1, <1>2, <1>4 DEF StoreType
    <2>2. RosterInv'
      BY <1>1, <1>2, <1>3, <1>4 DEF RosterInv, Members, ChildrenOf
    <2>3. DecisionInv'
      BY <1>1, <1>2 DEF DecisionInv, Stored, Holders, Seated
    <2>4. CurrentBindingMatchesRoster'
      BY <1>1, <1>2, <1>4, StoreAssumption DEF CurrentBindingMatchesRoster, Seated, Members
    <2> QED
      BY <2>1, <2>2, <2>3, <2>4 DEF StoreInv
  <1>6. /\ \A s, d : AccountRow(s) \notin rows /\ GuardRow(d) \notin rows
        /\ \A d, s : ReplayRow(d, s) \notin rows
        /\ \A h : HeaderRow(h) \notin rows => h # g
    BY RowsDiffer
  <1> HIDE DEF rows
  <1>7. StoreEffect(rows)
    <2>1. \A d : Traces(d)' = Traces(d) /\ (Stored(d)' <=> Stored(d))
      BY <1>1 DEF Traces, Holders, Stored
    <2>2. \A s : Frozen(s)' <=> Frozen(s)
      BY <1>1 DEF Frozen
    <2> QED
      BY <1>1, <1>4, <1>6, <2>1, <2>2 DEF StoreEffect
  <1>8. tombstone \in TombstoneType /\ tombstone.state = "ARCHIVED"
    <2>1. archive[g].members \in SUBSET Subject
      BY <1>1, <1>2 DEF ReaderType, ManifestType, TombstoneType
    <2> QED
      BY <2>1 DEF TombstoneType
  <1> HIDE DEF tombstone
  <1>9. /\ archive'[g] = tombstone /\ archive' = [h \in Group |-> archive'[h]]
        /\ \A h \in Group : h # g => archive'[h] = archive[h]
    <2>1. archive = [h \in Group |-> archive[h]]
      BY <1>2 DEF ReaderType
    <2> QED
      BY <1>1, <2>1
  <1>10. ReaderType'
    <2>1. ASSUME NEW h \in Group, archive'[h] # None
          PROVE  archive'[h] \in ManifestType(h) \cup TombstoneType
      BY <1>2, <1>8, <1>9, <2>1 DEF ReaderType
    <2>2. request' \in [Subject -> {None} \cup RequestType]
      BY <1>1, <1>2, RequestsAfterWrite
    <2>3. plan' \in [Plan -> {None} \cup PlanType]
      BY <1>1, <1>2, PlansAfterWrite
    <2> QED
      BY <1>1, <1>2, <1>9, <2>1, <2>2, <2>3 DEF ReaderType
  <1>11. FenceInv'
    <2>1. request' \in [Subject -> {None} \cup RequestType]
      BY <1>10 DEF ReaderType
    <2> QED
      BY <1>1, <1>7, <2>1, FencesStand
  <1>12. NoTraceInv'
    BY <1>1, <1>7, NothingComesBack DEF NoTraceInv, Traces, Holders
  <1>13. ASSUME NEW q \in Plan, plan'[q] # None
         PROVE  PlanStays(q, rows) /\ plan[q] \in PlanType
    BY <1>1, <1>2, <1>13, PlansAfterWrite DEF PlanStays, ReaderType
  <1>14. ASSUME NEW q \in Plan, plan'[q] # None
         PROVE  OnePlanInv(q)'
    <2>1. PlanStays(q, rows) /\ plan[q].scope \in Scope /\ plan'[q].scope = plan[q].scope
      BY <1>13, <1>14 DEF PlanType, PlanStays
    <2>2. /\ plan[q].scope.kind = "ACCOUNT" => AccountPlanInv(q)'
          /\ plan[q].scope.kind = "GROUP" => GroupPlanInv(q)'
      BY <1>1, <1>5, <1>7, <2>1, ScopeFields, AccountStaysCovered, GroupStaysCovered
    <2> QED
      BY <1>7, <2>1, <2>2, PlanStaysAsItIs DEF OnePlanInv
  <1>15. \A q \in Plan : journal'[q] # None => plan'[q] # None
    BY <1>1, <1>2, PlansAfterWrite DEF SystemInv, PlanInv
  <1>16. ASSUME NEW d \in Draft, NEW s \in Subject, decision'[d].receipt[s] # None
         PROVE  \/ s \in Holders(d)'
                \/ \E q \in Plan : journal'[q] = "ERASING" /\ RemovesReceipt(q, 0, d, s)'
    <2>1. CASE s \in Holders(d)
      BY <1>1, <2>1 DEF Holders
    <2>2. ASSUME NEW q \in Plan, journal[q] = "ERASING", RemovesReceipt(q, 0, d, s)
          PROVE  journal'[q] = "ERASING" /\ RemovesReceipt(q, 0, d, s)'
      <3>1. plan'[q] # None
        BY <1>1, <1>15, <2>2, StoreAssumption
      <3> QED
        BY <1>1, <1>6, <1>7, <1>13, <2>2, <3>1, PlanStaysAsItIs
    <2> QED
      BY <1>1, <1>16, <2>1, <2>2 DEF SystemInv, ReceiptInv
  <1>17. PlanInv' /\ ReceiptInv' /\ CoverageInv'
    BY <1>14, <1>15, <1>16, PlanByPlanAfter
  <1>18. ManifestInv'
    <2> SUFFICES ASSUME NEW h \in Group, archive'[h] # None,
                        archive'[h].state # "ARCHIVED", HeaderRow(h) \in archive'[h].fresh
                 PROVE  LET a == archive'[h] IN
                        /\ group'[h].status \in {"OPEN", "DELETED"}
                        /\ Members(h)' = a.members
                        /\ a.state = "CHECKED" =>
                              /\ a.by = "ORGANIZER" /\ AccountRow(group'[h].organizer) \in a.fresh
                                    => account'[group'[h].organizer].status = "APPROVED"
                              /\ \A d \in ChildrenOf(h) :
                                    /\ binding'[d] = a.children[d][2]
                                    /\ draft'[d].status = a.children[d][1].status
                                    /\ \A s \in a.children[d][1].names \ draft'[d].names : Frozen(s)'
      BY DEF ManifestInv, Approved
    <2>1. h # g
      BY <1>8, <1>9
    <2> QED
      BY <1>1, <1>4, <1>9, <2>1 DEF SystemInv, ManifestInv, Members, Approved, Frozen
  <1> QED
    BY <1>5, <1>10, <1>11, <1>12, <1>17, <1>18 DEF SystemInv

\* Whom a scope reads and whose consent it needs are people.
LEMMA ScopePeople ==
    ASSUME SystemInv, NEW scope \in Scope
    PROVE  /\ RequiredSubjects(scope) \subseteq Subject
           /\ Rewrites(scope) \subseteq Draft
  <1>1. StoreType /\ ReaderType
    BY DEF SystemInv, StoreInv
  <1>2. ScopeDecisions(scope) \subseteq Draft
    BY ScopeFields DEF ScopeDecisions
  <1>3. Rewrites(scope) \subseteq Draft
    BY <1>2 DEF Rewrites
  <1>4. \A d \in Draft : Concerned(d) \subseteq Subject
    BY <1>1 DEF Concerned, Seated, StoreType, DecisionType
  <1>5. \A g \in Group : OriginalMembers(g) \subseteq Subject
    <2>1. \A g \in Group : archive[g] # None => archive[g].members \subseteq Subject
      BY <1>1 DEF ReaderType, ManifestType, TombstoneType
    <2> QED
      BY <1>1, <2>1, PeopleAreSubjects DEF OriginalMembers
  <1> QED
    BY <1>3, <1>4, <1>5, ScopeFields DEF RequiredSubjects

\* A new plan covers what there is to erase.
LEMMA NewPlanCovers ==
    ASSUME SystemInv, NEW p \in Plan, NEW scope \in Scope, Prepare(p, scope)
    PROVE  /\ plan'[p] \in PlanType /\ plan'[p] # None /\ plan'[p].scope = scope
           /\ ~Begun(p)' /\ OnePlanInv(p)'
  <1> DEFINE steps == StepsOf(scope)
             new == [scope |-> scope, subjects |-> RequiredSubjects(scope),
                     steps |-> steps, fresh |-> RowsOf(steps)]
  <1>1. /\ plan[p] = None /\ Preparable(scope) /\ plan' = [plan EXCEPT ![p] = new]
        /\ UNCHANGED <<account, edges, group, invitation, draft, binding, decision,
                       request, journal, consent, archive>>
    BY DEF Prepare
  <1>2. StoreType /\ ReaderType /\ DecisionInv /\ RosterInv
    BY DEF SystemInv, StoreInv
  <1>3. journal'[p] = None /\ ~Begun(p)' /\ journal'[p] # "ERASED"
    BY <1>1, StoreAssumption DEF SystemInv, PlanInv, Begun
  <1>4. /\ steps \in Seq(StepType)
        /\ scope.kind = "ACCOUNT" =>
              steps # <<>> /\ steps[1] = Step("ACCOUNT_FENCE", scope.who, RootRows(scope))
        /\ scope.kind = "GROUP" =>
              steps # <<>> /\ steps[1] = Step("GROUP_FENCE", scope.what, RootRows(scope))
        /\ \A i \in DOMAIN steps : NewStep(scope, steps, i)
        /\ \A d \in Rewrites(scope) : \E i \in DOMAIN steps : steps[i] = StateStep(scope, d)
        /\ scope.kind = "ACCOUNT" =>
              \A g \in ScopeGroups(scope) : DraftRows(g) # {} =>
                 \E i \in DOMAIN steps : steps[i] = Step("ACCOUNT_DRAFTS", g, DraftRows(g))
    BY <1>2, NewPlan
  <1>5. /\ scope.kind \in {"ACCOUNT", "OWNER", "GROUP", "DECISION"}
        /\ scope.kind \in {"ACCOUNT", "OWNER"} <=> scope.who # None
        /\ scope.who # None => scope.who \in Subject
        /\ scope.kind = "GROUP" => scope.what \in Group
        /\ scope.kind \in {"OWNER", "DECISION"} => scope.what \in Draft
        /\ Rewrites(scope) \subseteq Draft /\ RequiredSubjects(scope) \subseteq Subject
    BY ScopeFields, ScopePeople
  <1>6. steps # <<>>
    <2>1. CASE scope.kind \in {"ACCOUNT", "GROUP"}
      BY <1>4, <2>1
    <2>2. CASE scope.kind \in {"OWNER", "DECISION"}
      <3>1. scope.what \in Rewrites(scope)
        BY <1>1, <2>2 DEF Preparable
      <3>2. \E i \in DOMAIN steps : steps[i] = StateStep(scope, scope.what)
        BY <1>4, <3>1
      <3> HIDE DEF steps
      <3>3. steps = <<>> => DOMAIN steps = {}
        OBVIOUS
      <3> QED
        BY <3>2, <3>3
    <2> QED
      BY <1>5, <2>1, <2>2
  <1> HIDE DEF steps
  <1>7. RowsOf(steps) \subseteq Row /\ \A i \in DOMAIN steps : steps[i].rows \subseteq RowsOf(steps)
    <2>1. \A i \in DOMAIN steps : steps[i] \in StepType
      BY <1>4
    <2> QED
      BY <2>1 DEF RowsOf, StepType
  <1>8. new \in PlanType
    <2>1. RequiredSubjects(scope) \in SUBSET Subject /\ RowsOf(steps) \in SUBSET Row
      BY <1>5, <1>7
    <2> QED
      BY <1>4, <2>1 DEF PlanType
  <1>9. /\ new.scope = scope /\ new.subjects = RequiredSubjects(scope)
        /\ new.steps = steps /\ new.fresh = RowsOf(steps) /\ new # None
    BY <1>8, PlanAssumption
  <1> HIDE DEF new
  <1>10. plan'[p] = new
    BY <1>1, <1>2 DEF ReaderType
  <1>11. /\ plan'[p].scope = scope /\ plan'[p].subjects = RequiredSubjects(scope)
         /\ plan'[p].steps = steps /\ plan'[p].fresh = RowsOf(steps)
    BY <1>9, <1>10
  <1>12. \A d \in Rewrites(scope) :
            /\ StateStep(scope, d).kind = IF scope.who = None THEN "DECISION_STATE"
                                          ELSE "OWNER_STATE"
            /\ StateStep(scope, d).on = d /\ GuardRow(d) \in StateStep(scope, d).rows
            /\ ReplayStep(d).kind = "REPLAYS" /\ ReplayStep(d).on = d
            /\ ReplayStep(d).rows = ReplayRows(d)
    BY DEF StateStep, ReplayStep, Step
  <1>13. \A kind, on, rows : /\ Step(kind, on, rows).kind = kind
                             /\ Step(kind, on, rows).on = on
                             /\ Step(kind, on, rows).rows = rows
    BY DEF Step
  <1>14. scope.who # None => RequiredSubjects(scope) = {scope.who}
    BY DEF RequiredSubjects
  <1>15. ASSUME NEW i \in DOMAIN steps
         PROVE  StepFits(scope, RequiredSubjects(scope), Begun(p)', steps, i)
    <2>1. NewStep(scope, steps, i)
      BY <1>4
    <2>2. CASE /\ scope.kind = "ACCOUNT" /\ i = 1
               /\ steps[i] = Step("ACCOUNT_FENCE", scope.who, RootRows(scope))
      BY <1>3, <1>13, <2>2 DEF StepFits
    <2>3. CASE /\ scope.kind = "GROUP" /\ i = 1
               /\ steps[i] = Step("GROUP_FENCE", scope.what, RootRows(scope))
      BY <1>3, <1>13, <2>3 DEF StepFits
    <2>4. ASSUME NEW d \in Rewrites(scope), steps[i] = StateStep(scope, d)
          PROVE  StepFits(scope, RequiredSubjects(scope), Begun(p)', steps, i)
      BY <1>5, <1>12, <1>14, <2>4 DEF StepFits
    <2>5. ASSUME NEW d \in Rewrites(scope), steps[i] = ReplayStep(d)
          PROVE  StepFits(scope, RequiredSubjects(scope), Begun(p)', steps, i)
      BY <1>5, <1>12, <2>5 DEF StepFits
    <2>6. ASSUME scope.kind = "ACCOUNT", NEW g \in ScopeGroups(scope),
                 steps[i] = Step("ACCOUNT_DRAFTS", g, DraftRows(g))
          PROVE  StepFits(scope, RequiredSubjects(scope), Begun(p)', steps, i)
      BY <1>13, <2>6 DEF StepFits
    <2>7. CASE /\ scope.kind = "ACCOUNT" /\ i = Len(steps)
               /\ steps[i] = Step("ACCOUNT_FINAL", scope.who, {})
      BY <1>13, <2>7 DEF StepFits
    <2>8. CASE /\ scope.kind = "GROUP" /\ i = Len(steps)
               /\ steps[i] = Step("PARTITION_ROWS", scope.what, DraftRows(scope.what))
      <3>1. DraftRows(scope.what) \subseteq {DraftRow(d) : d \in ChildrenOf(scope.what)}
        BY DEF DraftRows, ChildrenOf
      <3> QED
        BY <1>13, <2>8, <3>1 DEF StepFits
    <2> QED
      BY <2>1, <2>2, <2>3, <2>4, <2>5, <2>6, <2>7, <2>8 DEF NewStep
  <1>16. StepsInv(p)'
    <2>1. scope.kind = "ACCOUNT" => steps[1].kind = "ACCOUNT_FENCE"
      BY <1>4, <1>13
    <2>2. scope.kind = "GROUP" => steps[1].kind = "GROUP_FENCE"
      BY <1>4, <1>13
    <2> QED
      BY <1>6, <1>11, <1>15, <2>1, <2>2 DEF StepsInv
  <1>17. ReceiptsFollow(p)'
    <2> SUFFICES ASSUME NEW i \in DOMAIN steps, NEW d \in Draft,
                        steps[i].kind \in {"OWNER_STATE", "DECISION_STATE"},
                        steps[i].on = d
                 PROVE  /\ Stored(d)'
                        /\ \A s \in Subject : decision'[d].receipt[s] # None =>
                              RemovesReceipt(p, i, d, s)'
      BY <1>11 DEF ReceiptsFollow
    <2>1. /\ d \in Rewrites(scope)
          /\ ReplayRows(d) # {} => i + 1 \in DOMAIN steps /\ steps[i + 1] = ReplayStep(d)
      <3>1. NewStep(scope, steps, i)
        BY <1>4
      <3> QED
        BY <1>12, <1>13, <3>1 DEF NewStep
    <2>2. Stored(d)'
      BY <1>1, <2>1 DEF Rewrites, Stored
    <2>3. ASSUME NEW s \in Subject, decision'[d].receipt[s] # None
          PROVE  RemovesReceipt(p, i, d, s)'
      <3>1. ReplayRow(d, s) \in ReplayRows(d)
        BY <1>1, <2>3 DEF ReplayRows
      <3>2. i + 1 \in DOMAIN steps /\ steps[i + 1] = ReplayStep(d)
        BY <2>1, <3>1
      <3>3. ReplayRow(d, s) \in steps[i + 1].rows /\ ReplayRow(d, s) \in RowsOf(steps)
        BY <1>7, <1>12, <2>1, <3>1, <3>2
      <3>4. i + 1 > i
        BY <1>4, LenProperties
      <3> QED
        BY <1>11, <1>12, <2>1, <3>2, <3>3, <3>4 DEF RemovesReceipt
    <2> QED
      BY <2>2, <2>3
  <1>18. \A d \in Draft : /\ d \in Rewrites(scope) /\ scope.who # None =>
                                HasStep(p, "OWNER_STATE", d)'
                          /\ d \in Rewrites(scope) /\ scope.who = None =>
                                HasStep(p, "DECISION_STATE", d)'
    BY <1>4, <1>11, <1>12 DEF HasStep
  <1>19. scope.kind = "ACCOUNT" => AccountPlanInv(p)'
    <2> SUFFICES ASSUME scope.kind = "ACCOUNT"
                 PROVE  AccountPlanInv(p)'
      OBVIOUS
    <2> DEFINE s == scope.who
    <2>1. /\ s \in Subject /\ s # None /\ ScopeGroups(scope) = edges[s]
          /\ ScopeDecisions(scope) = {d \in Draft : GroupOf[d] \in edges[s] /\ binding[d] # "NONE"}
      BY <1>5 DEF ScopeGroups, ScopeDecisions
    <2>2. /\ steps[1].rows = RootRows(scope) /\ AccountRow(s) \in RootRows(scope)
          /\ \A g \in edges[s] : HeaderRow(g) \in RootRows(scope)
          /\ \A d \in ScopeDecisions(scope) : GuardRow(d) \in RootRows(scope)
      BY <1>4, <1>13, <2>1 DEF RootRows
    <2>3. \A d \in Draft : Stored(d) /\ GroupOf[d] \in edges[s] => d \in ScopeDecisions(scope)
      BY <1>2, <2>1 DEF DecisionInv
    <2>4. ASSUME NEW d \in Draft, s \in Holders(d) \cup decision[d].members
          PROVE  HasStep(p, "OWNER_STATE", d)'
      <3>1. /\ Stored(d) /\ GroupOf[d] \in edges[s]
            /\ s \in Seated(d) \cup decision[d].retired
        BY <1>2, <2>4 DEF DecisionInv, Holders, Seated
      <3>2. d \in Rewrites(scope)
        BY <2>3, <3>1 DEF Rewrites
      <3> QED
        BY <1>18, <2>1, <3>2
    <2>5. ASSUME NEW d \in Draft, s \in draft[d].names
          PROVE  \E i \in DOMAIN steps : /\ steps[i].kind = "ACCOUNT_DRAFTS"
                                         /\ DraftRow(d) \in steps[i].rows
      <3>1. GroupOf[d] \in edges[s] /\ draft[d].status # "NONE"
        BY <1>2, <2>5 DEF DecisionInv
      <3>2. DraftRow(d) \in DraftRows(GroupOf[d])
        BY <3>1 DEF DraftRows
      <3>3. PICK i \in DOMAIN steps :
               steps[i] = Step("ACCOUNT_DRAFTS", GroupOf[d], DraftRows(GroupOf[d]))
        BY <1>4, <2>1, <3>1, <3>2
      <3> QED
        BY <1>13, <3>2, <3>3
    <2>6. AccountCovered(p)'
      BY <1>1, <1>11, <2>4, <2>5 DEF AccountCovered, Holders
    <2>7. /\ \A g \in edges'[s] : HeaderRow(g) \in steps[1].rows
          /\ \A d \in Draft : Stored(d)' /\ GroupOf[d] \in edges'[s]
                                 => GuardRow(d) \in steps[1].rows
      BY <1>1, <2>2, <2>3 DEF Stored
    <2> QED
      BY <1>3, <1>11, <2>2, <2>6, <2>7 DEF AccountPlanInv
  <1>20. scope.kind = "GROUP" => GroupPlanInv(p)'
    <2> SUFFICES ASSUME scope.kind = "GROUP"
                 PROVE  GroupPlanInv(p)'
      OBVIOUS
    <2> DEFINE g == scope.what
    <2>1. /\ scope.who = None
          /\ ScopeDecisions(scope) = {d \in Draft : GroupOf[d] \in {g} /\ binding[d] # "NONE"}
      BY <1>5 DEF ScopeGroups, ScopeDecisions
    <2>2. steps[1].rows = RootRows(scope) /\ HeaderRow(g) \in RootRows(scope)
      BY <1>4, <1>13 DEF RootRows, ScopeGroups
    <2>3. ASSUME NEW d \in ChildrenOf(g), Stored(d)
          PROVE  HasStep(p, "DECISION_STATE", d)'
      <3>1. d \in Rewrites(scope)
        BY <1>2, <2>1, <2>3 DEF DecisionInv, Rewrites, ChildrenOf
      <3> QED
        BY <1>5, <1>18, <2>1, <3>1
    <2>4. GroupCovered(p)'
      BY <1>1, <1>11, <2>3 DEF GroupCovered, Stored
    <2> QED
      BY <1>3, <1>11, <2>2, <2>4 DEF GroupPlanInv
  <1> QED
    BY <1>3, <1>6, <1>8, <1>9, <1>10, <1>11, <1>16, <1>17, <1>19, <1>20 DEF OnePlanInv

\* A plan is prepared from what there is.
LEMMA PrepareKeepsInv ==
    ASSUME SystemInv, NEW p \in Plan, NEW scope \in Scope, Prepare(p, scope)
    PROVE  SystemInv'
  <1>1. /\ UNCHANGED storeRows /\ request' = request /\ archive' = archive
        /\ journal' = journal /\ consent' = consent /\ plan[p] = None
        /\ \A q \in Plan : q # p => plan'[q] = plan[q]
        /\ plan' = [q \in Plan |-> plan'[q]]
    BY DEF Prepare, storeRows, SystemInv, ReaderType
  <1>2. plan'[p] \in PlanType /\ plan'[p] # None /\ ~Begun(p)' /\ OnePlanInv(p)'
    BY NewPlanCovers
  <1>3. ReaderType
    BY DEF SystemInv
  <1>4. ReaderType'
    <2>1. \A q \in Plan : plan'[q] \in {None} \cup PlanType
      BY <1>1, <1>2, <1>3 DEF ReaderType
    <2>2. plan' \in [Plan -> {None} \cup PlanType]
      BY <1>1, <2>1
    <2> QED
      BY <1>1, <1>3, <2>2 DEF ReaderType
  <1>5. StoreInv' /\ NoTraceInv' /\ FenceInv'
    BY <1>1, StoreUnread, FencesUnread
  <1>6. \A q \in Plan : Begun(q)' <=> Begun(q)
    BY <1>1 DEF Begun
  <1>7. ASSUME NEW q \in Plan
        PROVE  /\ plan'[q] # None => OnePlanInv(q)'
               /\ journal'[q] # None => plan'[q] # None
    <2>1. CASE q = p
      BY <1>2, <2>1
    <2>2. CASE q # p
      BY <1>1, <1>6, <2>2, PlanUnread DEF SystemInv, PlanInv
    <2> QED
      BY <2>1, <2>2
  <1>8. ASSUME NEW d \in Draft, NEW s \in Subject, decision'[d].receipt[s] # None,
               s \notin Holders(d)'
        PROVE  \E q \in Plan : journal'[q] = "ERASING" /\ RemovesReceipt(q, 0, d, s)'
    <2>1. decision[d].receipt[s] # None /\ s \notin Holders(d)
      BY <1>1, <1>8 DEF storeRows, Holders
    <2>2. PICK q \in Plan : journal[q] = "ERASING" /\ RemovesReceipt(q, 0, d, s)
      BY <2>1 DEF SystemInv, ReceiptInv
    <2>3. q # p
      BY <1>1, <2>2, StoreAssumption DEF SystemInv, PlanInv
    <2> QED
      BY <1>1, <2>2, <2>3 DEF RemovesReceipt
  <1>9. PlanInv' /\ ReceiptInv' /\ CoverageInv'
    BY <1>7, <1>8, PlanByPlanAfter
  <1>10. ManifestInv'
    BY <1>1, ManifestsUnread DEF ManifestInv, Approved
  <1> QED
    BY <1>4, <1>5, <1>9, <1>10 DEF SystemInv

-----------------------------------------------------------------------------
(* The commits of an erasure *)

\* What a commit of plan p has to be like, given the rows it writes.
StepDone(p, rows) ==
    LET head == NextStep(p)
        scope == plan[p].scope
    IN  /\ \A q \in Plan \ {p}, s \in Subject :
              account'[s] = [status |-> "ERASING", by |-> q] => account[s] = account'[s]
        /\ \A s \in Subject : account'[s].status = "ERASED" /\ account[s].status # "ERASED"
              => head.kind = "ACCOUNT_FINAL" /\ s = scope.who
        /\ head.kind \in {"ACCOUNT_FENCE", "GROUP_FENCE"} => head.rows \subseteq plan[p].fresh
        /\ scope.kind = "GROUP" => group'[scope.what].status = "ARCHIVED"
        /\ \A d \in Draft :
              /\ Traces(d)' \subseteq Traces(d) /\ (Stored(d)' => Stored(d))
              /\ draft'[d].names \subseteq draft[d].names
              /\ head.kind = "OWNER_STATE" /\ head.on = d => scope.who \notin Traces(d)'
              /\ head.kind = "DECISION_STATE" /\ head.on = d => ~Stored(d)'
        /\ head.kind = "ACCOUNT_DRAFTS" =>
              \A d \in Draft : DraftRow(d) \in head.rows => scope.who \notin draft'[d].names
        /\ \A d \in Draft, s \in Subject : decision'[d].receipt[s] # None =>
              /\ decision[d].receipt[s] # None
              /\ ReplayRow(d, s) \notin rows
              /\ s \in Holders(d) => s \in Holders(d)' \/ RemovesReceipt(p, 1, d, s)
              /\ ~(/\ head.kind = "REPLAYS" /\ head.on = d
                   /\ ReplayRow(d, s) \in head.rows \cap plan[p].fresh)

\* A plan that runs has a step to come, and holds what it froze.
LEMMA RunningPlan ==
    ASSUME SystemInv, NEW p \in Plan, NEW kind, Runs(p, kind)
    PROVE  /\ plan[p] \in PlanType /\ plan[p] # None /\ OnePlanInv(p)
           /\ plan[p].steps # <<>> /\ plan[p].scope \in Scope
           /\ Len(plan[p].steps) \in Nat /\ 1 \in DOMAIN plan[p].steps
           /\ DOMAIN plan[p].steps = 1 .. Len(plan[p].steps)
           /\ NextStep(p) = plan[p].steps[1] /\ NextStep(p) \in StepType
           /\ NextStep(p).kind = kind
           /\ StepFits(plan[p].scope, plan[p].subjects, Begun(p), plan[p].steps, 1)
           /\ ~Begun(p) => /\ plan[p].scope.kind = "ACCOUNT" => kind = "ACCOUNT_FENCE"
                           /\ plan[p].scope.kind = "GROUP" => kind = "GROUP_FENCE"
           /\ Begun(p) => journal[p] = "ERASING" /\ RootIsHeld(p)
  <1>1. /\ journal[p] \in {"PREPARED", "ERASING"} /\ NextStep(p).kind = kind
        /\ RootIsHeld(p)
    BY DEF Runs
  <1>2. plan[p] # None /\ plan[p] \in PlanType
    BY <1>1, StoreAssumption DEF SystemInv, PlanInv, ReaderType
  <1>3. OnePlanInv(p)
    BY <1>2, PlanByPlan
  <1>4. plan[p].steps # <<>> /\ plan[p].steps \in Seq(StepType) /\ plan[p].scope \in Scope
    BY <1>1, <1>2, <1>3 DEF OnePlanInv, PlanType
  <1> DEFINE steps == plan[p].steps
  <1>5. /\ Len(steps) \in Nat /\ 1 \in DOMAIN steps /\ DOMAIN steps = 1 .. Len(steps)
        /\ Head(steps) = steps[1] /\ steps[1] \in StepType
    BY <1>4, EmptySeq, LenProperties, ElementOfSeq, HeadTailProperties
  <1>6. StepsInv(p)
    BY <1>3 DEF OnePlanInv
  <1>7. NextStep(p) = steps[1]
    BY <1>5 DEF NextStep
  <1>8. StepFits(plan[p].scope, plan[p].subjects, Begun(p), steps, 1)
    BY <1>5, <1>6 DEF StepsInv
  <1>9. ~Begun(p) => /\ plan[p].scope.kind = "ACCOUNT" => kind = "ACCOUNT_FENCE"
                     /\ plan[p].scope.kind = "GROUP" => kind = "GROUP_FENCE"
    BY <1>1, <1>6, <1>7 DEF StepsInv
  <1>10. Begun(p) => journal[p] = "ERASING"
    BY <1>1 DEF Begun
  <1> QED
    BY <1>1, <1>2, <1>3, <1>4, <1>5, <1>7, <1>8, <1>9, <1>10

\* What a commit does to the plan it belongs to, and to the journals.
LEMMA CommittedPlan ==
    ASSUME SystemInv, NEW p \in Plan, NEW kind, Runs(p, kind), NEW rows, Commit(p, rows)
    PROVE  LET later == plan'[p].steps IN
           /\ plan'[p] \in PlanType /\ plan'[p] # None
           /\ plan'[p].scope = plan[p].scope /\ plan'[p].subjects = plan[p].subjects
           /\ later = Tail(plan[p].steps)
           /\ Len(later) \in Nat /\ DOMAIN later = 1 .. Len(later)
           /\ Len(plan[p].steps) = Len(later) + 1
           /\ \A i \in 1 .. Len(later) : i + 1 \in DOMAIN plan[p].steps
                                            /\ later[i] = plan[p].steps[i + 1]
           /\ \A i \in DOMAIN plan[p].steps : i # 1 =>
                 i - 1 \in 1 .. Len(later) /\ later[i - 1] = plan[p].steps[i]
           /\ plan'[p].fresh = (plan[p].fresh \ rows) \cap RowsOf(later)
           /\ journal'[p] = IF later = <<>> THEN "ERASED" ELSE "ERASING"
           /\ Begun(p)'
           /\ \A q \in Plan : q # p => /\ plan'[q] = PlansAfter(rows)[q]
                                       /\ journal'[q] = journal[q]
           /\ ReaderType'
  <1> DEFINE later == Tail(plan[p].steps)
             P == PlansAfter(rows)
             new == [P[p] EXCEPT !.steps = later, !.fresh = P[p].fresh \cap RowsOf(later)]
  <1>1. /\ plan[p] \in PlanType /\ plan[p] # None /\ plan[p].steps # <<>>
        /\ plan[p].steps \in Seq(StepType)
        /\ ReaderType
    BY RunningPlan DEF PlanType, SystemInv
  <1>2. /\ P \in [Plan -> {None} \cup PlanType] /\ P[p] \in PlanType
        /\ P[p].scope = plan[p].scope /\ P[p].subjects = plan[p].subjects
        /\ P[p].steps = plan[p].steps /\ P[p].fresh = plan[p].fresh \ rows
    BY <1>1, PlansAfterWrite
  <1>3. /\ later \in Seq(StepType) /\ Len(later) = Len(plan[p].steps) - 1
        /\ \A i \in 1 .. Len(later) : later[i] = plan[p].steps[i + 1]
        /\ Len(later) \in Nat /\ Len(plan[p].steps) \in Nat
        /\ DOMAIN later = 1 .. Len(later)
        /\ DOMAIN plan[p].steps = 1 .. Len(plan[p].steps)
    BY <1>1, HeadTailProperties, LenProperties
  <1>4. /\ journal' = [journal EXCEPT ![p] = IF later = <<>> THEN "ERASED" ELSE "ERASING"]
        /\ plan' = [P EXCEPT ![p] = new]
        /\ request' = RequestsAfter(rows) /\ archive' = ArchivesAfter(rows)
        /\ UNCHANGED <<edges, invitation, consent>>
    BY <1>1, <1>2 DEF Commit
  <1> HIDE DEF later, P
  <1>5. P[p].fresh \cap RowsOf(later) \in SUBSET Row
    BY <1>2 DEF PlanType
  <1>6. /\ new \in PlanType /\ new.scope = P[p].scope /\ new.subjects = P[p].subjects
        /\ new.steps = later /\ new.fresh = P[p].fresh \cap RowsOf(later)
    BY <1>2, <1>3, <1>5 DEF PlanType
  <1> HIDE DEF new
  <1>7. /\ plan'[p] = new /\ plan' \in [Plan -> {None} \cup PlanType]
        /\ \A q \in Plan : q # p => plan'[q] = P[q]
    BY <1>2, <1>4, <1>6
  <1>8. /\ journal' \in [Plan -> {None, "PREPARED", "ERASING", "ERASED"}]
        /\ journal'[p] = IF later = <<>> THEN "ERASED" ELSE "ERASING"
        /\ \A q \in Plan : q # p => journal'[q] = journal[q]
    BY <1>1, <1>4 DEF ReaderType
  <1>9. ReaderType'
    <2>1. request' \in [Subject -> {None} \cup RequestType]
      BY <1>1, <1>4, RequestsAfterWrite
    <2>2. /\ archive' = [g \in Group |-> archive'[g]]
          /\ \A g \in Group : archive'[g] # None =>
                archive'[g] \in ManifestType(g) \cup TombstoneType
      BY <1>1, <1>4, ArchivesAfterWrite
    <2> QED
      BY <1>1, <1>4, <1>7, <1>8, <2>1, <2>2 DEF ReaderType
  <1>10. Begun(p)'
    BY <1>8 DEF Begun
  <1>11. plan'[p] # None
    BY <1>6, <1>7, PlanAssumption
  <1>12. /\ \A i \in 1 .. Len(later) : i + 1 \in DOMAIN plan[p].steps
                                          /\ later[i] = plan[p].steps[i + 1]
         /\ \A i \in DOMAIN plan[p].steps : i # 1 =>
               i - 1 \in 1 .. Len(later) /\ later[i - 1] = plan[p].steps[i]
         /\ Len(plan[p].steps) = Len(later) + 1
    BY <1>3
  <1> QED
    BY <1>2, <1>3, <1>6, <1>7, <1>8, <1>9, <1>10, <1>11, <1>12 DEF later, P

\* A receipt that a later step removes is still to be removed.
LEMMA StillRemoves ==
    ASSUME SystemInv, NEW p \in Plan, NEW kind, Runs(p, kind), NEW rows, Commit(p, rows),
           NEW i \in Nat, NEW d \in Draft, NEW s \in Subject,
           RemovesReceipt(p, i + 1, d, s), ReplayRow(d, s) \notin rows
    PROVE  RemovesReceipt(p, i, d, s)' /\ plan'[p].steps # <<>>
  <1> DEFINE steps == plan[p].steps
             later == plan'[p].steps
  <1>1. PICK j \in DOMAIN steps :
           /\ j > i + 1
           /\ steps[j].kind = "REPLAYS" /\ steps[j].on = d
           /\ ReplayRow(d, s) \in steps[j].rows /\ ReplayRow(d, s) \in plan[p].fresh
    BY DEF RemovesReceipt
  <1>2. /\ Len(later) \in Nat /\ DOMAIN later = 1 .. Len(later)
        /\ DOMAIN steps = 1 .. Len(steps) /\ Len(steps) = Len(later) + 1
        /\ \A k \in DOMAIN steps : k # 1 =>
              k - 1 \in 1 .. Len(later) /\ later[k - 1] = steps[k]
        /\ plan'[p].fresh = (plan[p].fresh \ rows) \cap RowsOf(later)
    BY RunningPlan, CommittedPlan
  <1> HIDE DEF steps, later
  <1>3. j - 1 \in DOMAIN later /\ later[j - 1] = steps[j] /\ j - 1 > i
    BY <1>1, <1>2
  <1>4. ReplayRow(d, s) \in plan'[p].fresh
    BY <1>1, <1>2, <1>3 DEF RowsOf
  <1>5. RemovesReceipt(p, i, d, s)'
    BY <1>1, <1>3, <1>4 DEF RemovesReceipt, later
  <1>6. later # <<>>
    BY <1>3
  <1> QED
    BY <1>5, <1>6 DEF later

\* A plan that commits a step goes on with those that are left.
LEMMA CommitKeepsPlan ==
    ASSUME SystemInv, NEW p \in Plan, NEW kind, Runs(p, kind),
           NEW rows, Commit(p, rows), StoreEffect(rows), StepDone(p, rows)
    PROVE  /\ OnePlanInv(p)'
           /\ plan[p].scope.kind = "ACCOUNT" => AccountCovered(p)'
  <1> DEFINE steps == plan[p].steps
             later == plan'[p].steps
             scope == plan[p].scope
             head == NextStep(p)
  <1>1. /\ plan[p] \in PlanType /\ plan[p] # None /\ OnePlanInv(p)
        /\ scope \in Scope /\ Len(steps) \in Nat /\ 1 \in DOMAIN steps
        /\ DOMAIN steps = 1 .. Len(steps)
        /\ head = steps[1] /\ head.kind = kind
        /\ StepFits(scope, plan[p].subjects, Begun(p), steps, 1)
        /\ ~Begun(p) => /\ scope.kind = "ACCOUNT" => kind = "ACCOUNT_FENCE"
                        /\ scope.kind = "GROUP" => kind = "GROUP_FENCE"
        /\ Begun(p) => journal[p] = "ERASING" /\ RootIsHeld(p)
    BY RunningPlan
  <1>2. /\ plan'[p].scope = scope /\ plan'[p].subjects = plan[p].subjects
        /\ Len(later) \in Nat /\ DOMAIN later = 1 .. Len(later)
        /\ Len(steps) = Len(later) + 1
        /\ \A i \in 1 .. Len(later) : i + 1 \in DOMAIN steps /\ later[i] = steps[i + 1]
        /\ \A i \in DOMAIN steps : i # 1 =>
              i - 1 \in 1 .. Len(later) /\ later[i - 1] = steps[i]
        /\ plan'[p].fresh = (plan[p].fresh \ rows) \cap RowsOf(later)
        /\ journal'[p] = IF later = <<>> THEN "ERASED" ELSE "ERASING"
        /\ Begun(p)'
    BY CommittedPlan
  <1>3. /\ \A i \in DOMAIN steps : StepFits(scope, plan[p].subjects, Begun(p), steps, i)
        /\ ReceiptsFollow(p)
        /\ scope.kind = "ACCOUNT" => AccountPlanInv(p)
        /\ scope.kind = "GROUP" => GroupPlanInv(p)
    BY <1>1 DEF OnePlanInv, StepsInv
  <1>4. journal'[p] = "ERASED" <=> later = <<>>
    BY <1>2
  <1>5. StepsInv(p)'
    <2>1. ASSUME NEW i \in DOMAIN later
          PROVE  StepFits(scope, plan[p].subjects, Begun(p)', later, i)
      <3>1. i + 1 \in DOMAIN steps /\ later[i] = steps[i + 1] /\ i + 1 # 1
        BY <1>2
      <3>2. i + 1 = Len(steps) => i = Len(later)
        BY <1>2
      <3>3. StepFits(scope, plan[p].subjects, Begun(p), steps, i + 1)
        BY <1>3, <3>1
      <3> HIDE DEF steps, later, scope
      <3> QED
        BY <3>1, <3>2, <3>3 DEF StepFits
    <2> QED
      BY <1>2, <2>1 DEF StepsInv
  <1>6. ReceiptsFollow(p)'
    <2> SUFFICES ASSUME NEW i \in DOMAIN later, NEW d \in Draft,
                        later[i].kind \in {"OWNER_STATE", "DECISION_STATE"},
                        later[i].on = d, GuardRow(d) \in plan'[p].fresh
                 PROVE  /\ Stored(d)'
                        /\ \A s \in Subject : decision'[d].receipt[s] # None =>
                              RemovesReceipt(p, i, d, s)'
      BY DEF ReceiptsFollow
    <2>1. i + 1 \in DOMAIN steps /\ later[i] = steps[i + 1] /\ i \in Nat
      BY <1>2
    <2>2. GuardRow(d) \in plan[p].fresh /\ GuardRow(d) \notin rows
      BY <1>2
    <2>3. /\ Stored(d)
          /\ \A s \in Subject : decision[d].receipt[s] # None => RemovesReceipt(p, i + 1, d, s)
      BY <1>3, <2>1, <2>2 DEF ReceiptsFollow
    <2>4. Stored(d)'
      BY <2>2, <2>3 DEF StoreEffect
    <2>5. ASSUME NEW s \in Subject, decision'[d].receipt[s] # None
          PROVE  RemovesReceipt(p, i, d, s)'
      BY <2>1, <2>3, <2>5, StillRemoves DEF StepDone
    <2> QED
      BY <2>4, <2>5
  <1>7. ASSUME NEW k, NEW d, HasStep(p, k, d), ~(head.kind = k /\ head.on = d)
        PROVE  HasStep(p, k, d)'
    <2>1. PICK i \in DOMAIN steps : steps[i].kind = k /\ steps[i].on = d
      BY <1>7 DEF HasStep
    <2>2. i # 1
      BY <1>1, <1>7, <2>1
    <2>3. i - 1 \in DOMAIN later /\ later[i - 1] = steps[i]
      BY <1>2, <2>2
    <2> QED
      BY <2>1, <2>3 DEF HasStep
  <1>8. ASSUME scope.kind = "ACCOUNT"
        PROVE  AccountCovered(p)'
    <2> DEFINE who == scope.who
    <2>1. who \in Subject
      BY <1>1, <1>8, ScopeFields
    <2>2. AccountCovered(p) /\ \A d \in Draft : /\ who \in Traces(d)' => who \in Traces(d)
                                                /\ who \in draft'[d].names => who \in draft[d].names
      <3>1. CASE Begun(p)
        BY <1>1, <1>3, <1>8, <3>1 DEF AccountPlanInv, RootIsHeld, StepDone
      <3>2. CASE ~Begun(p)
        <4>1. kind = "ACCOUNT_FENCE" /\ head.rows \subseteq plan[p].fresh
          BY <1>1, <1>8, <3>2 DEF StepDone
        <4> QED
          BY <1>1, <1>3, <1>8, <3>2, <4>1 DEF AccountPlanInv, StepDone
      <3> QED
        BY <3>1, <3>2
    <2>3. ASSUME NEW d \in Draft, who \in Holders(d)' \cup decision'[d].members
          PROVE  HasStep(p, "OWNER_STATE", d)'
      <3>1. who \in Traces(d)' /\ who \in Traces(d)
        BY <2>2, <2>3 DEF Traces
      <3>2. HasStep(p, "OWNER_STATE", d)
        BY <2>2, <3>1 DEF AccountCovered, Traces
      <3>3. ~(head.kind = "OWNER_STATE" /\ head.on = d)
        BY <3>1 DEF StepDone
      <3> QED
        BY <1>7, <3>2, <3>3
    <2>4. ASSUME NEW d \in Draft, who \in draft'[d].names
          PROVE  \E i \in DOMAIN later : /\ later[i].kind = "ACCOUNT_DRAFTS"
                                         /\ DraftRow(d) \in later[i].rows
      <3>1. PICK i \in DOMAIN steps : /\ steps[i].kind = "ACCOUNT_DRAFTS"
                                      /\ DraftRow(d) \in steps[i].rows
        BY <2>2, <2>4 DEF AccountCovered
      <3>2. i # 1
        BY <1>1, <2>4, <3>1 DEF StepDone
      <3>3. i - 1 \in DOMAIN later /\ later[i - 1] = steps[i]
        BY <1>2, <3>2
      <3> QED
        BY <3>1, <3>3
    <2> QED
      BY <1>2, <2>3, <2>4 DEF AccountCovered, Holders
  <1>9. scope.kind = "ACCOUNT" => AccountPlanInv(p)'
    BY <1>2, <1>8 DEF AccountPlanInv
  <1>10. ASSUME scope.kind = "GROUP"
         PROVE  GroupPlanInv(p)'
    <2> DEFINE g == scope.what
    <2>1. GroupCovered(p) /\ group'[g].status = "ARCHIVED"
      <3>1. CASE Begun(p)
        BY <1>3, <1>10, <3>1 DEF GroupPlanInv, StepDone
      <3>2. CASE ~Begun(p)
        BY <1>1, <1>3, <1>10, <3>2 DEF GroupPlanInv, StepDone
      <3> QED
        BY <3>1, <3>2
    <2>2. ASSUME NEW d \in ChildrenOf(g), Stored(d)'
          PROVE  HasStep(p, "DECISION_STATE", d)'
      <3>1. d \in Draft /\ Stored(d) /\ ~(head.kind = "DECISION_STATE" /\ head.on = d)
        BY <2>2 DEF StepDone, ChildrenOf
      <3> QED
        BY <1>7, <2>1, <2>2, <3>1 DEF GroupCovered
    <2> QED
      BY <1>2, <2>1, <2>2 DEF GroupPlanInv, GroupCovered, Stored
  <1> QED
    BY <1>2, <1>4, <1>5, <1>6, <1>8, <1>9, <1>10 DEF OnePlanInv

\* A commit of an erasure leaves everybody right about the store.
LEMMA CommitKeepsInv ==
    ASSUME SystemInv, NEW p \in Plan, NEW kind, Runs(p, kind),
           NEW rows, Commit(p, rows), StoreInv', StoreEffect(rows), StepDone(p, rows)
    PROVE  SystemInv'
  <1>1. /\ plan[p] # None /\ plan[p].scope \in Scope /\ plan[p].steps # <<>>
        /\ Len(plan[p].steps) \in Nat
        /\ 1 \in DOMAIN plan[p].steps /\ DOMAIN plan[p].steps = 1 .. Len(plan[p].steps)
        /\ NextStep(p) = plan[p].steps[1] /\ NextStep(p).kind = kind
        /\ StepFits(plan[p].scope, plan[p].subjects, Begun(p), plan[p].steps, 1)
    BY RunningPlan
  <1>2. /\ plan'[p] # None /\ plan'[p].scope = plan[p].scope
        /\ journal'[p] = IF plan'[p].steps = <<>> THEN "ERASED" ELSE "ERASING"
        /\ Len(plan'[p].steps) \in Nat /\ DOMAIN plan'[p].steps = 1 .. Len(plan'[p].steps)
        /\ Len(plan[p].steps) = Len(plan'[p].steps) + 1
        /\ \A q \in Plan : q # p => plan'[q] = PlansAfter(rows)[q] /\ journal'[q] = journal[q]
        /\ ReaderType'
    BY CommittedPlan
  <1>3. ReaderType /\ request' = RequestsAfter(rows) /\ archive' = ArchivesAfter(rows)
    BY DEF SystemInv, Commit
  <1>4. FenceInv'
    BY <1>2, <1>3, FencesStand DEF ReaderType
  <1>5. ManifestInv'
    BY <1>3, ManifestsStand DEF ManifestInv, Members, Approved
  <1>6. OnePlanInv(p)' /\ (plan[p].scope.kind = "ACCOUNT" => AccountCovered(p)')
    BY CommitKeepsPlan
  <1>7. ASSUME NEW q \in Plan, q # p, plan'[q] # None
        PROVE  PlanStays(q, rows) /\ plan[q] \in PlanType
    BY <1>2, <1>3, <1>7, PlansAfterWrite DEF PlanStays, ReaderType
  <1>8. ASSUME NEW q \in Plan, plan'[q] # None
        PROVE  OnePlanInv(q)'
    <2>1. CASE q = p
      BY <1>6, <2>1
    <2>2. CASE q # p
      <3>1. PlanStays(q, rows) /\ plan[q].scope \in Scope /\ plan'[q].scope = plan[q].scope
        BY <1>7, <1>8, <2>2 DEF PlanType, PlanStays
      <3>2. \A s \in Subject : account'[s] = [status |-> "ERASING", by |-> q]
                                  => account[s] = account'[s]
        BY <2>2 DEF StepDone
      <3>3. /\ plan[q].scope.kind = "ACCOUNT" => AccountPlanInv(q)'
            /\ plan[q].scope.kind = "GROUP" => GroupPlanInv(q)'
        BY <3>1, <3>2, ScopeFields, AccountStaysCovered, GroupStaysCovered
      <3> QED
        BY <3>1, <3>3, PlanStaysAsItIs DEF OnePlanInv
    <2> QED
      BY <2>1, <2>2
  <1>9. ASSUME NEW q \in Plan, journal'[q] # None
        PROVE  plan'[q] # None
    BY <1>2, <1>3, <1>9, PlansAfterWrite DEF SystemInv, PlanInv
  <1>10. ASSUME NEW d \in Draft, NEW s \in Subject, decision'[d].receipt[s] # None,
                s \notin Holders(d)'
         PROVE  \E q \in Plan : journal'[q] = "ERASING" /\ RemovesReceipt(q, 0, d, s)'
    <2>1. /\ decision[d].receipt[s] # None /\ ReplayRow(d, s) \notin rows
          /\ s \in Holders(d) => RemovesReceipt(p, 1, d, s)
          /\ ~(/\ NextStep(p).kind = "REPLAYS" /\ NextStep(p).on = d
               /\ ReplayRow(d, s) \in NextStep(p).rows \cap plan[p].fresh)
      BY <1>10 DEF StepDone
    <2>2. ASSUME RemovesReceipt(p, 1, d, s)
          PROVE  journal'[p] = "ERASING" /\ RemovesReceipt(p, 0, d, s)'
      <3>1. RemovesReceipt(p, 0 + 1, d, s)
        BY <2>2
      <3> QED
        BY <1>2, <2>1, <3>1, StillRemoves
    <2>3. ASSUME s \notin Holders(d)
          PROVE  \E q \in Plan : journal'[q] = "ERASING" /\ RemovesReceipt(q, 0, d, s)'
      <3>1. PICK q \in Plan : journal[q] = "ERASING" /\ RemovesReceipt(q, 0, d, s)
        BY <2>1, <2>3 DEF SystemInv, ReceiptInv
      <3>2. CASE q = p
        <4>1. RemovesReceipt(p, 1, d, s)
          BY <1>1, <2>1, <3>1, <3>2 DEF RemovesReceipt
        <4> QED
          BY <2>2, <4>1
      <3>3. CASE q # p
        <4>1. journal'[q] = "ERASING"
          BY <1>2, <3>1, <3>3
        <4>2. plan'[q] # None
          BY <1>9, <4>1, StoreAssumption
        <4>3. RemovesReceipt(q, 0, d, s)'
          BY <1>7, <2>1, <3>1, <3>3, <4>2, PlanStaysAsItIs
        <4> QED
          BY <4>1, <4>3
      <3> QED
        BY <3>2, <3>3
    <2> QED
      BY <2>1, <2>2, <2>3
  <1>11. PlanInv' /\ ReceiptInv' /\ CoverageInv'
    BY <1>8, <1>9, <1>10, PlanByPlanAfter
  <1>12. NoTraceInv'
    <2> SUFFICES ASSUME NEW s \in Subject, account'[s].status = "ERASED"
                 PROVE  \A d \in Draft : s \notin Traces(d)' /\ s \notin draft'[d].names
      BY DEF NoTraceInv, Traces, Holders
    <2>1. CASE account[s].status = "ERASED"
      BY <2>1, NothingComesBack
    <2>2. CASE account[s].status # "ERASED"
      <3>1. kind = "ACCOUNT_FINAL" /\ s = plan[p].scope.who
        BY <1>1, <2>2 DEF StepDone
      <3>2. plan[p].scope.kind = "ACCOUNT" /\ 1 = Len(plan[p].steps)
        BY <1>1, <3>1 DEF StepFits
      <3>3. DOMAIN plan'[p].steps = {} /\ AccountCovered(p)'
        BY <1>2, <1>6, <3>2
      <3> QED
        BY <1>2, <3>1, <3>3 DEF AccountCovered, HasStep, Traces, Holders
    <2> QED
      BY <2>1, <2>2
  <1> QED
    BY <1>2, <1>4, <1>5, <1>11, <1>12 DEF SystemInv

\* A commit that leaves the decisions alone.
LEMMA DecisionsUntouched ==
    ASSUME decision' = decision, NEW p \in Plan, NEW kind, NextStep(p).kind = kind,
           kind \notin {"OWNER_STATE", "DECISION_STATE", "REPLAYS"}
    PROVE  \A d \in Draft :
              /\ Traces(d)' = Traces(d) /\ Holders(d)' = Holders(d) /\ Seated(d)' = Seated(d)
              /\ Stored(d)' <=> Stored(d)
              /\ decision'[d].receipt = decision[d].receipt
              /\ NextStep(p).kind # "OWNER_STATE" /\ NextStep(p).kind # "DECISION_STATE"
              /\ NextStep(p).kind # "REPLAYS"
  BY DEF Traces, Holders, Seated, Stored

\* The first and the last step of an account's plan.
LEMMA AccountFenceKeepsInv ==
    ASSUME SystemInv, NEW p \in Plan, FreezeAccount(p) \/ EraseAccount(p)
    PROVE  SystemInv'
  <1> DEFINE o == NextStep(p).on
             rows == {AccountRow(o)}
             kind == NextStep(p).kind
  <1>1. /\ Runs(p, kind) /\ kind \in {"ACCOUNT_FENCE", "ACCOUNT_FINAL"}
        /\ Commit(p, rows)
        /\ UNCHANGED <<edges, group, invitation, draft, binding, decision>>
    BY DEF FreezeAccount, EraseAccount, Runs, Commit
  <1>2. /\ StoreType /\ RosterInv /\ DecisionInv /\ CurrentBindingMatchesRoster
    BY DEF SystemInv, StoreInv
  <1>3. /\ plan[p].scope.kind = "ACCOUNT" /\ o = plan[p].scope.who /\ o \in Subject
        /\ kind = "ACCOUNT_FENCE" => ~Begun(p)
    BY <1>1, RunningPlan, ScopeFields DEF StepFits
  <1>4. /\ account' \in [Subject -> AccountType]
        /\ \A s \in Subject : s # o => account'[s] = account[s]
        /\ kind = "ACCOUNT_FENCE" => /\ account'[o] = [status |-> "ERASING", by |-> p]
                                     /\ NextStep(p).rows \subseteq plan[p].fresh
        /\ kind = "ACCOUNT_FINAL" => account'[o] = [status |-> "ERASED", by |-> None]
    <2>1. CASE FreezeAccount(p)
      <3>1. /\ account' = [account EXCEPT ![o] = [status |-> "ERASING", by |-> p]]
            /\ kind = "ACCOUNT_FENCE" /\ NextStep(p).rows \subseteq plan[p].fresh
        BY <2>1 DEF FreezeAccount, Runs
      <3>2. [status |-> "ERASING", by |-> p] \in AccountType
        BY DEF AccountType
      <3> QED
        BY <1>2, <1>3, <3>1, <3>2 DEF StoreType
    <2>2. CASE EraseAccount(p)
      <3>1. /\ account' = [account EXCEPT ![o] = [status |-> "ERASED", by |-> None]]
            /\ kind = "ACCOUNT_FINAL"
        BY <2>2 DEF EraseAccount, Runs
      <3>2. [status |-> "ERASED", by |-> None] \in AccountType
        BY DEF AccountType
      <3> QED
        BY <1>2, <1>3, <3>1, <3>2 DEF StoreType
    <2> QED
      BY <2>1, <2>2
  <1> HIDE DEF kind
  <1>5. account'[o].status \in {"ERASING", "ERASED"}
    BY <1>1, <1>4
  <1>6. StoreInv'
    BY <1>1, <1>2, <1>4
    DEF StoreInv, StoreType, RosterInv, DecisionInv, Members, Stored, Holders,
        Seated, CurrentBindingMatchesRoster
  <1>7. /\ \A s : AccountRow(s) \notin rows => s # o
        /\ \A d, s : ReplayRow(d, s) \notin rows
    BY RowsDiffer
  <1>8. \A d \in Draft :
           /\ Traces(d)' = Traces(d) /\ Holders(d)' = Holders(d)
           /\ Stored(d)' <=> Stored(d)
           /\ decision'[d].receipt = decision[d].receipt
           /\ NextStep(p).kind # "OWNER_STATE" /\ NextStep(p).kind # "DECISION_STATE"
           /\ NextStep(p).kind # "REPLAYS"
    BY <1>1, DecisionsUntouched DEF kind
  <1> HIDE DEF rows, o
  <1>9. StoreEffect(rows)
    BY <1>1, <1>4, <1>5, <1>7, <1>8 DEF StoreEffect, Frozen
  <1>10. StepDone(p, rows)
    <2>1. ASSUME NEW q \in Plan \ {p}, NEW s \in Subject,
                 account'[s] = [status |-> "ERASING", by |-> q]
          PROVE  account[s] = account'[s]
      BY <1>1, <1>4, <2>1
    <2>2. ASSUME NEW s \in Subject, account'[s].status = "ERASED", account[s].status # "ERASED"
          PROVE  NextStep(p).kind = "ACCOUNT_FINAL" /\ s = plan[p].scope.who
      BY <1>1, <1>3, <1>4, <2>2 DEF kind
    <2>3. /\ NextStep(p).kind \in {"ACCOUNT_FENCE", "GROUP_FENCE"}
                => NextStep(p).rows \subseteq plan[p].fresh
          /\ plan[p].scope.kind # "GROUP" /\ NextStep(p).kind # "ACCOUNT_DRAFTS"
      BY <1>1, <1>3, <1>4 DEF kind
    <2> QED
      BY <1>1, <1>7, <1>8, <2>1, <2>2, <2>3 DEF StepDone
  <1> QED
    BY <1>1, <1>6, <1>9, <1>10, CommitKeepsInv

\* A group's plan archives the group.
LEMMA GroupFenceKeepsInv ==
    ASSUME SystemInv, NEW p \in Plan, FreezeGroup(p)
    PROVE  SystemInv'
  <1> DEFINE g == NextStep(p).on
             rows == {HeaderRow(g)}
  <1>1. /\ Runs(p, "GROUP_FENCE") /\ Commit(p, rows)
        /\ NextStep(p).rows \subseteq plan[p].fresh
        /\ group' = [group EXCEPT ![g].status = "ARCHIVED", ![g].members = {}]
        /\ UNCHANGED <<account, edges, invitation, draft, binding, decision>>
    BY DEF FreezeGroup, Commit
  <1>2. /\ StoreType /\ RosterInv /\ DecisionInv /\ CurrentBindingMatchesRoster
    BY DEF SystemInv, StoreInv
  <1>3. /\ plan[p].scope.kind = "GROUP" /\ g = plan[p].scope.what /\ g \in Group
        /\ NextStep(p).kind = "GROUP_FENCE"
    BY <1>1, RunningPlan, ScopeFields DEF StepFits
  <1>4. /\ group' \in [Group -> GroupType] /\ group'[g].status = "ARCHIVED"
        /\ group'[g].members = {}
        /\ \A h \in Group : h # g => group'[h] = group[h]
    BY <1>1, <1>2, <1>3 DEF StoreType, GroupType
  <1>5. StoreInv'
    <2>1. StoreType'
      BY <1>1, <1>2, <1>4 DEF StoreType
    <2>2. RosterInv'
      BY <1>1, <1>2, <1>4 DEF RosterInv, Members, ChildrenOf
    <2>3. DecisionInv'
      BY <1>1, <1>2 DEF DecisionInv, Stored, Holders, Seated
    <2>4. CurrentBindingMatchesRoster'
      BY <1>1, <1>2, <1>4, StoreAssumption DEF CurrentBindingMatchesRoster, Seated, Members
    <2> QED
      BY <2>1, <2>2, <2>3, <2>4 DEF StoreInv
  <1>6. /\ \A h : HeaderRow(h) \notin rows => h # g
        /\ \A d, s : ReplayRow(d, s) \notin rows
    BY RowsDiffer
  <1>7. \A d \in Draft :
           /\ Traces(d)' = Traces(d) /\ Holders(d)' = Holders(d)
           /\ Stored(d)' <=> Stored(d)
           /\ decision'[d].receipt = decision[d].receipt
    BY <1>1, <1>3, DecisionsUntouched
  <1> HIDE DEF rows, g
  <1>8. StoreEffect(rows)
    BY <1>1, <1>4, <1>6, <1>7 DEF StoreEffect, Frozen
  <1>9. StepDone(p, rows)
    BY <1>1, <1>3, <1>4, <1>6, <1>7 DEF StepDone
  <1> QED
    BY <1>1, <1>5, <1>8, <1>9, CommitKeepsInv

\* A commit that rewrites one decision, so that there is less in it.
LEMMA DecisionErased ==
    ASSUME SystemInv, NEW p \in Plan, NEW kind \in {"OWNER_STATE", "DECISION_STATE"},
           NEW d \in Draft, Runs(p, kind), NextStep(p).on = d,
           NextStep(p).rows \subseteq plan[p].fresh, Commit(p, {GuardRow(d)}),
           UNCHANGED <<account, group, draft, binding>>,
           decision' \in [Draft -> DecisionType],
           \A x \in Draft : x # d => decision'[x] = decision[x],
           \A x \in Draft : x = d =>
              /\ decision'[x].receipt = decision[x].receipt
              /\ decision'[x].members \subseteq decision[x].members
              /\ decision'[x].private \subseteq Seated(x)'
              /\ Seated(x)' \subseteq Seated(x) /\ Holders(x)' \subseteq Holders(x)
              /\ decision'[x].status # "AGREED"
              /\ ~Stored(x)' => Holders(x)' = {} /\ Seated(x)' = {}
              /\ kind = "OWNER_STATE" => plan[p].scope.who \notin Traces(x)'
              /\ kind = "DECISION_STATE" => ~Stored(x)'
    PROVE  SystemInv'
  <1> DEFINE rows == {GuardRow(d)}
  <1>1. /\ UNCHANGED <<account, edges, group, invitation, draft, binding>>
        /\ \A x \in Draft : x # d => decision'[x] = decision[x]
    BY DEF Commit
  <1>2. /\ StoreType /\ RosterInv /\ DecisionInv /\ CurrentBindingMatchesRoster
    BY DEF SystemInv, StoreInv
  <1>3. /\ NextStep(p).kind = kind /\ NextStep(p) = plan[p].steps[1]
        /\ 1 \in DOMAIN plan[p].steps /\ plan[p] # None /\ plan[p].scope \in Scope
        /\ GuardRow(d) \in NextStep(p).rows
        /\ plan[p].scope.kind = "GROUP" => Begun(p) /\ RootIsHeld(p) /\ journal[p] = "ERASING"
    BY RunningPlan DEF StepFits
  <1>4. /\ Stored(d)
        /\ \A s \in Subject : decision[d].receipt[s] # None => RemovesReceipt(p, 1, d, s)
    BY <1>3 DEF SystemInv, ReceiptInv, ReceiptsFollow
  <1>5. plan[p].scope.kind = "GROUP" => group[plan[p].scope.what].status = "ARCHIVED"
    BY <1>3 DEF RootIsHeld
  <1>6. /\ \A x : GuardRow(x) \notin rows <=> x # d
        /\ \A x, s : ReplayRow(x, s) \notin rows
        /\ \A s : AccountRow(s) \notin rows
        /\ \A g : HeaderRow(g) \notin rows
    BY RowsDiffer
  <1> HIDE DEF rows
  <1>7. \A x \in Draft : x # d =>
           /\ Traces(x)' = Traces(x) /\ Holders(x)' = Holders(x)
           /\ Seated(x)' = Seated(x)
           /\ Stored(x)' <=> Stored(x)
           /\ decision'[x] = decision[x]
    BY <1>1 DEF Traces, Holders, Seated, Stored
  <1>8. \A x \in Draft : x = d =>
           /\ Traces(x)' \subseteq Traces(x) /\ Stored(x)
           /\ decision'[x].receipt = decision[x].receipt
    BY <1>4 DEF Traces
  <1>9. StoreInv'
    <2>1. StoreType'
      BY <1>1, <1>2 DEF StoreType
    <2>2. RosterInv'
      BY <1>1, <1>2 DEF RosterInv, Members
    <2>3. DecisionInv'
      <3> SUFFICES ASSUME NEW x \in Draft
                   PROVE  /\ ~Stored(x)' => Holders(x)' = {} /\ Seated(x)' = {}
                          /\ Stored(x)' => binding'[x] # "NONE"
                          /\ decision'[x].private \subseteq Seated(x)'
                          /\ decision'[x].status = "AGREED" =>
                                decision'[x].members \subseteq decision'[x].private
                          /\ \A s \in Seated(x)' \cup Holders(x)' : GroupOf[x] \in edges'[s]
                          /\ \A s \in draft'[x].names : GroupOf[x] \in edges'[s]
                          /\ draft'[x].status = "NONE" => draft'[x].names = {}
        BY DEF DecisionInv
      <3>1. CASE x = d
        BY <1>1, <1>2, <1>8, <3>1 DEF DecisionInv
      <3>2. CASE x # d
        BY <1>1, <1>2, <1>7, <3>2 DEF DecisionInv
      <3> QED
        BY <3>1, <3>2
    <2>4. CurrentBindingMatchesRoster'
      BY <1>1, <1>2, <1>7 DEF CurrentBindingMatchesRoster, Members
    <2> QED
      BY <2>1, <2>2, <2>3, <2>4 DEF StoreInv
  <1>10. StoreEffect(rows)
    <2>1. \A x \in Draft :
             /\ Stored(x)' => Stored(x)
             /\ Traces(x)' \subseteq Traces(x)
             /\ GuardRow(x) \notin rows =>
                   /\ Stored(x) => Stored(x)'
                   /\ decision'[x].receipt = decision[x].receipt
      BY <1>6, <1>7, <1>8
    <2> QED
      BY <1>1, <1>6, <2>1 DEF StoreEffect, Frozen
  <1>11. StepDone(p, rows)
    <2>1. \A x \in Draft :
             /\ Traces(x)' \subseteq Traces(x) /\ (Stored(x)' => Stored(x))
             /\ draft'[x].names \subseteq draft[x].names
             /\ NextStep(p).kind = "OWNER_STATE" /\ NextStep(p).on = x
                   => plan[p].scope.who \notin Traces(x)'
             /\ NextStep(p).kind = "DECISION_STATE" /\ NextStep(p).on = x => ~Stored(x)'
      BY <1>1, <1>3, <1>7, <1>8
    <2>2. \A x \in Draft, s \in Subject : decision'[x].receipt[s] # None =>
             /\ decision[x].receipt[s] # None
             /\ s \in Holders(x) => s \in Holders(x)' \/ RemovesReceipt(p, 1, x, s)
      BY <1>4, <1>7
    <2> QED
      BY <1>1, <1>3, <1>5, <1>6, <2>1, <2>2 DEF StepDone
  <1>12. Commit(p, rows) /\ Runs(p, kind)
    BY DEF rows
  <1> QED
    BY <1>9, <1>10, <1>11, <1>12, CommitKeepsInv

\* The part of one person in a decision.
LEMMA OwnerKeepsInv ==
    ASSUME SystemInv, NEW p \in Plan, EraseOwner(p)
    PROVE  SystemInv'
  <1>1. Runs(p, "OWNER_STATE")
    BY DEF EraseOwner
  <1>2. /\ plan[p].scope \in Scope /\ plan[p].scope.who # None
        /\ NextStep(p).on \in Draft /\ StoreType
    BY <1>1, RunningPlan DEF StepFits, SystemInv, StoreInv
  <1>3. PICK d \in Draft : d = NextStep(p).on
    BY <1>2
  <1>4. PICK s \in Subject : s = plan[p].scope.who
    BY <1>2, ScopeFields
  <1>5. /\ NextStep(p).rows \subseteq plan[p].fresh
        /\ decision' = [decision EXCEPT ![d] = WithoutOwner(@, s, p)]
        /\ Commit(p, {GuardRow(d)})
        /\ UNCHANGED <<account, group, draft, binding>>
    BY <1>3, <1>4 DEF EraseOwner
  <1>6. WithoutOwner(decision[d], s, p) \in DecisionType
    <2>1. PICK D : D = decision[d] /\ D \in DecisionType
      BY <1>2 DEF StoreType
    <2>2. WithoutOwner(D, s, p) \in DecisionType
      BY <2>1 DEF WithoutOwner, DecisionType, Incarnation
    <2> QED
      BY <2>1, <2>2
  <1>7. /\ decision' \in [Draft -> DecisionType]
        /\ decision'[d] = WithoutOwner(decision[d], s, p)
        /\ \A x \in Draft : x # d => decision'[x] = decision[x]
    BY <1>2, <1>5, <1>6 DEF StoreType
  <1>8. \A x \in Draft : x = d =>
           /\ decision'[x].receipt = decision[x].receipt
           /\ decision'[x].status = "LIVE"
           /\ decision'[x].members = decision[x].members \ {s}
           /\ decision'[x].inactive = decision[x].inactive \cup ({s} \cap decision[x].members)
           /\ decision'[x].private = decision[x].private \ {s}
           /\ decision'[x].retired = decision[x].retired \ {s}
    <2>1. PICK D : D = decision[d] /\ D \in DecisionType
      BY <1>2 DEF StoreType
    <2>2. /\ WithoutOwner(D, s, p).receipt = D.receipt
          /\ WithoutOwner(D, s, p).status = "LIVE"
          /\ WithoutOwner(D, s, p).members = D.members \ {s}
          /\ WithoutOwner(D, s, p).inactive = D.inactive \cup ({s} \cap D.members)
          /\ WithoutOwner(D, s, p).private = D.private \ {s}
          /\ WithoutOwner(D, s, p).retired = D.retired \ {s}
      BY <2>1 DEF WithoutOwner, DecisionType
    <2> QED
      BY <1>7, <2>1, <2>2
  <1>9. \A x \in Draft : decision[x].private \subseteq Seated(x)
    BY DEF SystemInv, StoreInv, DecisionInv
  <1>10. \A x \in Draft : x = d =>
            /\ Seated(x)' = Seated(x) /\ Holders(x)' = Holders(x) \ {s}
            /\ s \notin Traces(x)' /\ Stored(x)'
            /\ decision'[x].private \subseteq Seated(x)'
    BY <1>8, <1>9 DEF Seated, Holders, Traces, Stored
  <1>11. \A x \in Draft : x = d =>
            /\ decision'[x].receipt = decision[x].receipt
            /\ decision'[x].members \subseteq decision[x].members
            /\ decision'[x].private \subseteq Seated(x)'
            /\ Seated(x)' \subseteq Seated(x) /\ Holders(x)' \subseteq Holders(x)
            /\ decision'[x].status # "AGREED"
            /\ ~Stored(x)' => Holders(x)' = {} /\ Seated(x)' = {}
            /\ "OWNER_STATE" = "OWNER_STATE" => plan[p].scope.who \notin Traces(x)'
            /\ "OWNER_STATE" = "DECISION_STATE" => ~Stored(x)'
    BY <1>4, <1>8, <1>10
  <1> QED
    BY <1>1, <1>3, <1>5, <1>7, <1>11, DecisionErased

\* A whole decision.
LEMMA WholeDecisionKeepsInv ==
    ASSUME SystemInv, NEW p \in Plan, EraseDecision(p)
    PROVE  SystemInv'
  <1>1. Runs(p, "DECISION_STATE")
    BY DEF EraseDecision
  <1>2. NextStep(p).on \in Draft /\ StoreType
    BY <1>1, RunningPlan DEF StepFits, SystemInv, StoreInv
  <1>3. PICK d \in Draft : d = NextStep(p).on
    BY <1>2
  <1> DEFINE D == [NoDecision EXCEPT !.status = "REMOVED", !.incarnation = p,
                                     !.receipt = decision[d].receipt]
  <1>4. /\ NextStep(p).rows \subseteq plan[p].fresh
        /\ decision' = [decision EXCEPT ![d] = D]
        /\ Commit(p, {GuardRow(d)})
        /\ UNCHANGED <<account, group, draft, binding>>
    BY <1>3 DEF EraseDecision
  <1>5. /\ D.status = "REMOVED" /\ D.receipt = decision[d].receipt
        /\ D.members = {} /\ D.inactive = {} /\ D.private = {} /\ D.retired = {}
        /\ D \in DecisionType
    BY <1>2 DEF StoreType, NoDecision, DecisionType, Incarnation
  <1> HIDE DEF D
  <1>6. /\ decision' \in [Draft -> DecisionType] /\ decision'[d] = D
        /\ \A x \in Draft : x # d => decision'[x] = decision[x]
    BY <1>2, <1>4, <1>5 DEF StoreType
  <1>7. \A x \in Draft : x = d =>
           /\ Seated(x)' = {} /\ Holders(x)' = {} /\ ~Stored(x)'
           /\ decision'[x].status = "REMOVED" /\ decision'[x].receipt = decision[x].receipt
           /\ decision'[x].members = {} /\ decision'[x].private = {}
    BY <1>5, <1>6 DEF Seated, Holders, Stored
  <1> QED
    BY <1>1, <1>3, <1>4, <1>6, <1>7, DecisionErased

\* The receipts of a decision.
LEMMA ReplaysKeepInv ==
    ASSUME SystemInv, NEW p \in Plan, EraseReplays(p)
    PROVE  SystemInv'
  <1>1. Runs(p, "REPLAYS")
    BY DEF EraseReplays
  <1>2. /\ NextStep(p).on \in Draft /\ NextStep(p).kind = "REPLAYS"
        /\ plan[p].scope \in Scope /\ NextStep(p) = plan[p].steps[1]
        /\ plan[p].scope.kind = "GROUP" => Begun(p) /\ RootIsHeld(p) /\ journal[p] = "ERASING"
    BY <1>1, RunningPlan DEF StepFits
  <1>3. /\ StoreType /\ RosterInv /\ DecisionInv /\ CurrentBindingMatchesRoster
    BY DEF SystemInv, StoreInv
  <1>4. PICK d \in Draft : d = NextStep(p).on
    BY <1>2
  <1> DEFINE old == {s \in {t \in Subject : ReplayRow(d, t) \in NextStep(p).rows
                                               /\ decision[d].receipt[t] # None} :
                        ReplayRow(d, s) \in plan[p].fresh}
             rows == {ReplayRow(d, s) : s \in old}
             R == [s \in Subject |-> IF s \in old THEN None ELSE decision[d].receipt[s]]
  <1>5. /\ decision' = [decision EXCEPT ![d].receipt = R]
        /\ Commit(p, rows)
        /\ UNCHANGED <<account, group, draft, binding>>
    BY <1>4 DEF EraseReplays
  <1>6. /\ R \in [Subject -> {None} \cup Incarnation]
        /\ \A s \in Subject : R[s] # None => decision[d].receipt[s] = R[s] /\ s \notin old
    BY <1>3 DEF StoreType, DecisionType
  <1>7. /\ \A s \in Subject : ReplayRow(d, s) \in NextStep(p).rows \cap plan[p].fresh
                                 /\ decision[d].receipt[s] # None => s \in old
        /\ \A x, s : ReplayRow(x, s) \in rows => x = d /\ s \in old
        /\ \A x : GuardRow(x) \notin rows
        /\ \A s : AccountRow(s) \notin rows
        /\ \A g : HeaderRow(g) \notin rows
    BY RowsDiffer
  <1> HIDE DEF R, rows
  <1>8. /\ decision' \in [Draft -> DecisionType]
        /\ decision'[d] = [decision[d] EXCEPT !.receipt = R]
        /\ \A x \in Draft : x # d => decision'[x] = decision[x]
    <2>1. [decision[d] EXCEPT !.receipt = R] \in DecisionType
      BY <1>3, <1>6 DEF StoreType, DecisionType
    <2> QED
      BY <1>3, <1>5, <2>1 DEF StoreType
  <1>9. \A x \in Draft :
           /\ decision'[x].status = decision[x].status
           /\ decision'[x].members = decision[x].members
           /\ decision'[x].inactive = decision[x].inactive
           /\ decision'[x].private = decision[x].private
           /\ decision'[x].retired = decision[x].retired
    <2>1. PICK D : D = decision[d] /\ D \in DecisionType
      BY <1>3 DEF StoreType
    <2>2. PICK E : E = decision'[d] /\ E = [D EXCEPT !.receipt = R]
      BY <1>8, <2>1
    <2>3. /\ E.status = D.status /\ E.members = D.members /\ E.inactive = D.inactive
          /\ E.private = D.private /\ E.retired = D.retired
      BY <2>1, <2>2 DEF DecisionType
    <2> QED
      BY <1>8, <2>1, <2>2, <2>3
  <1>10. \A x \in Draft, s \in Subject : decision'[x].receipt[s] # None =>
            /\ decision[x].receipt[s] # None
            /\ x = d => s \notin old
    <2>1. decision[d] \in DecisionType
      BY <1>3 DEF StoreType
    <2>2. decision'[d].receipt = R
      BY <1>8, <2>1 DEF DecisionType
    <2> QED
      BY <1>6, <1>8, <2>2
  <1>11. \A x \in Draft :
            /\ Traces(x)' = Traces(x) /\ Holders(x)' = Holders(x)
            /\ Seated(x)' = Seated(x)
            /\ Stored(x)' <=> Stored(x)
    BY <1>9 DEF Traces, Holders, Seated, Stored
  <1>12. plan[p].scope.kind = "GROUP" => group[plan[p].scope.what].status = "ARCHIVED"
    BY <1>2 DEF RootIsHeld
  <1>13. UNCHANGED <<account, edges, group, invitation, draft, binding>>
    BY <1>5 DEF Commit
  <1> HIDE DEF old
  <1>14. StoreInv'
    <2>1. StoreType'
      BY <1>3, <1>8, <1>13 DEF StoreType
    <2>2. RosterInv'
      BY <1>3, <1>13 DEF RosterInv, Members
    <2>3. DecisionInv'
      BY <1>3, <1>9, <1>11, <1>13 DEF DecisionInv
    <2>4. CurrentBindingMatchesRoster'
      BY <1>3, <1>11, <1>13 DEF CurrentBindingMatchesRoster, Members
    <2> QED
      BY <2>1, <2>2, <2>3, <2>4 DEF StoreInv
  <1>15. StoreEffect(rows)
    BY <1>7, <1>10, <1>11, <1>13 DEF StoreEffect, Frozen
  <1>16. StepDone(p, rows)
    <2>1. ASSUME NEW x \in Draft, NEW s \in Subject, decision'[x].receipt[s] # None
          PROVE  /\ decision[x].receipt[s] # None
                 /\ ReplayRow(x, s) \notin rows
                 /\ ~(/\ NextStep(p).on = x
                      /\ ReplayRow(x, s) \in NextStep(p).rows \cap plan[p].fresh)
      BY <1>4, <1>7, <1>10, <2>1
    <2> QED
      BY <1>2, <1>11, <1>12, <1>13, <2>1 DEF StepDone
  <1> QED
    BY <1>1, <1>5, <1>14, <1>15, <1>16, CommitKeepsInv

\* A commit that removes names and bindings, and nothing else.
LEMMA DraftsErased ==
    ASSUME SystemInv, NEW p \in Plan, NEW kind \in {"PARTITION_ROWS", "ACCOUNT_DRAFTS"},
           Runs(p, kind), NEW gone \in SUBSET Draft,
           Commit(p, {DraftRow(d) : d \in gone}),
           UNCHANGED <<account, group, decision>>,
           draft' \in [Draft -> DraftType], binding' \in [Draft -> BindingType],
           \A d \in Draft :
              /\ draft'[d].names \subseteq draft[d].names
              /\ draft'[d].status = "NONE" => draft'[d].names = {}
              /\ binding'[d] # binding[d] => binding'[d] = "NONE" /\ ~Stored(d)
              /\ group[GroupOf[d]].status # "ARCHIVED" =>
                    /\ binding'[d] = binding[d] /\ draft'[d].status = draft[d].status
                    /\ \A s \in draft[d].names \ draft'[d].names : Frozen(s),
           plan[p].scope.kind = "GROUP" => group[plan[p].scope.what].status = "ARCHIVED",
           kind = "ACCOUNT_DRAFTS" => \A d \in Draft :
              DraftRow(d) \in NextStep(p).rows => plan[p].scope.who \notin draft'[d].names
    PROVE  SystemInv'
  <1> DEFINE rows == {DraftRow(d) : d \in gone}
  <1>1. UNCHANGED <<account, edges, group, invitation, decision>>
    BY DEF Commit
  <1>2. /\ StoreType /\ RosterInv /\ DecisionInv /\ CurrentBindingMatchesRoster
    BY DEF SystemInv, StoreInv
  <1>3. NextStep(p).kind = kind
    BY DEF Runs
  <1>4. /\ \A x, s : ReplayRow(x, s) \notin rows
        /\ \A s : AccountRow(s) \notin rows
        /\ \A g : HeaderRow(g) \notin rows
        /\ \A x : GuardRow(x) \notin rows
    BY RowsDiffer
  <1> HIDE DEF rows
  <1>5. \A x \in Draft :
           /\ Traces(x)' = Traces(x) /\ Holders(x)' = Holders(x)
           /\ Seated(x)' = Seated(x)
           /\ Stored(x)' <=> Stored(x)
           /\ decision'[x] = decision[x]
    BY <1>1 DEF Traces, Holders, Seated, Stored
  <1>6. StoreInv'
    <2>1. StoreType'
      BY <1>1, <1>2 DEF StoreType
    <2>2. RosterInv'
      BY <1>1, <1>2 DEF RosterInv, Members, ChildrenOf
    <2>3. DecisionInv'
      BY <1>1, <1>2, <1>5 DEF DecisionInv
    <2>4. CurrentBindingMatchesRoster'
      BY <1>1, <1>2, <1>5 DEF CurrentBindingMatchesRoster, Members
    <2> QED
      BY <2>1, <2>2, <2>3, <2>4 DEF StoreInv
  <1>7. StoreEffect(rows)
    BY <1>1, <1>4, <1>5 DEF StoreEffect, Frozen
  <1>8. StepDone(p, rows)
    BY <1>1, <1>3, <1>4, <1>5 DEF StepDone
  <1>9. Commit(p, rows)
    BY DEF rows
  <1> QED
    BY <1>6, <1>7, <1>8, <1>9, CommitKeepsInv

\* The rows of an archived group: its decisions are erased by then.
LEMMA PartitionRowsKeepInv ==
    ASSUME SystemInv, NEW p \in Plan, ErasePartitionRows(p)
    PROVE  SystemInv'
  <1> DEFINE gone == DraftsOf(NextStep(p))
             g == plan[p].scope.what
  <1>1. Runs(p, "PARTITION_ROWS")
    BY DEF ErasePartitionRows
  <1>2. /\ DOMAIN plan[p].steps = {1} /\ plan[p].scope.kind = "GROUP"
        /\ plan[p].steps[1].kind = "PARTITION_ROWS"
        /\ NextStep(p).rows \subseteq {DraftRow(d) : d \in ChildrenOf(g)}
        /\ Begun(p) /\ journal[p] = "ERASING" /\ RootIsHeld(p) /\ OnePlanInv(p)
    <2>1. /\ StepFits(plan[p].scope, plan[p].subjects, Begun(p), plan[p].steps, 1)
          /\ NextStep(p) = plan[p].steps[1] /\ NextStep(p).kind = "PARTITION_ROWS"
          /\ DOMAIN plan[p].steps = 1 .. Len(plan[p].steps)
          /\ Begun(p) => journal[p] = "ERASING" /\ RootIsHeld(p)
          /\ ~Begun(p) => plan[p].scope.kind # "GROUP"
          /\ OnePlanInv(p)
      BY <1>1, RunningPlan
    <2>2. Len(plan[p].steps) = 1 /\ plan[p].scope.kind = "GROUP"
      BY <2>1 DEF StepFits
    <2>3. NextStep(p).rows \subseteq {DraftRow(d) : d \in ChildrenOf(g)}
      BY <2>1 DEF StepFits
    <2>4. Begun(p)
      BY <2>1, <2>2
    <2>5. DOMAIN plan[p].steps = {1}
      BY <2>1, <2>2
    <2> QED
      BY <2>1, <2>2, <2>3, <2>4, <2>5
  <1>3. group[g].status = "ARCHIVED" /\ GroupCovered(p)
    BY <1>2 DEF OnePlanInv, GroupPlanInv
  <1>4. \A d \in gone : d \in Draft /\ GroupOf[d] = g /\ ~Stored(d)
    <2> SUFFICES ASSUME NEW d \in gone
                 PROVE  d \in Draft /\ GroupOf[d] = g /\ ~Stored(d)
      OBVIOUS
    <2>1. d \in Draft /\ DraftRow(d) \in NextStep(p).rows
      BY DEF DraftsOf
    <2>2. d \in ChildrenOf(g)
      BY <1>2, <2>1, RowsDiffer
    <2> QED
      BY <1>2, <1>3, <2>2 DEF GroupCovered, HasStep, ChildrenOf
  <1>5. /\ draft' = [d \in Draft |-> IF d \in gone THEN [status |-> "NONE", names |-> {}]
                                     ELSE draft[d]]
        /\ binding' = [d \in Draft |-> IF d \in gone THEN "NONE" ELSE binding[d]]
        /\ Commit(p, {DraftRow(d) : d \in gone})
        /\ UNCHANGED <<account, group, decision>>
    BY DEF ErasePartitionRows
  <1>6. gone \in SUBSET Draft
    BY <1>4
  <1>7. StoreType /\ DecisionInv
    BY DEF SystemInv, StoreInv
  <1> HIDE DEF gone, g
  <1>8. draft' \in [Draft -> DraftType] /\ binding' \in [Draft -> BindingType]
    BY <1>5, <1>7 DEF StoreType, DraftType, BindingType
  <1>9. \A d \in Draft :
           /\ draft'[d].names \subseteq draft[d].names
           /\ draft'[d].status = "NONE" => draft'[d].names = {}
           /\ binding'[d] # binding[d] => binding'[d] = "NONE" /\ ~Stored(d)
           /\ group[GroupOf[d]].status # "ARCHIVED" =>
                 /\ binding'[d] = binding[d] /\ draft'[d].status = draft[d].status
                 /\ \A s \in draft[d].names \ draft'[d].names : Frozen(s)
    BY <1>3, <1>4, <1>5, <1>7 DEF DecisionInv
  <1> QED
    BY <1>1, <1>3, <1>5, <1>6, <1>8, <1>9, DraftsErased DEF g

\* A person's name in the drafts' frames.
LEMMA NamesKeepInv ==
    ASSUME SystemInv, NEW p \in Plan, EraseNames(p)
    PROVE  SystemInv'
  <1> DEFINE named == DraftsOf(NextStep(p))
  <1>1. Runs(p, "ACCOUNT_DRAFTS")
    BY DEF EraseNames
  <1>2. /\ plan[p].scope.kind = "ACCOUNT" /\ plan[p].scope \in Scope
        /\ journal[p] = "ERASING" /\ RootIsHeld(p)
    BY <1>1, RunningPlan DEF StepFits
  <1>3. PICK s \in Subject : s = plan[p].scope.who
    BY <1>2, ScopeFields
  <1>4. Frozen(s)
    BY <1>2, <1>3 DEF RootIsHeld, Frozen
  <1>5. /\ draft' = [d \in Draft |-> IF d \in named
                        THEN [draft[d] EXCEPT !.names = @ \ {s}] ELSE draft[d]]
        /\ Commit(p, {DraftRow(d) : d \in named})
        /\ UNCHANGED <<account, group, binding, decision>>
    BY <1>3 DEF EraseNames
  <1>6. named \in SUBSET Draft
    BY DEF DraftsOf
  <1>7. StoreType /\ DecisionInv
    BY DEF SystemInv, StoreInv
  <1>8. \A d \in Draft : DraftRow(d) \in NextStep(p).rows /\ d \notin named =>
           draft[d].status = "NONE"
    BY DEF DraftsOf
  <1> HIDE DEF named
  <1>9. ASSUME NEW d \in Draft
        PROVE  /\ draft'[d] \in DraftType
               /\ draft'[d].status = draft[d].status
               /\ d \in named => draft'[d].names = draft[d].names \ {s}
               /\ d \notin named => draft'[d] = draft[d]
    <2>1. PICK D : D = draft[d] /\ D \in DraftType
      BY <1>7 DEF StoreType
    <2>2. [D EXCEPT !.names = @ \ {s}] = [status |-> D.status, names |-> D.names \ {s}]
      BY <2>1 DEF DraftType
    <2>3. draft'[d] = IF d \in named THEN [status |-> D.status, names |-> D.names \ {s}]
                      ELSE D
      BY <1>5, <2>1, <2>2
    <2> QED
      BY <2>1, <2>3 DEF DraftType
  <1>10. draft' \in [Draft -> DraftType] /\ binding' \in [Draft -> BindingType]
    BY <1>5, <1>7, <1>9 DEF StoreType
  <1>11. \A d \in Draft :
            /\ draft'[d].names \subseteq draft[d].names
            /\ draft'[d].status = "NONE" => draft'[d].names = {}
            /\ binding'[d] # binding[d] => binding'[d] = "NONE" /\ ~Stored(d)
            /\ group[GroupOf[d]].status # "ARCHIVED" =>
                  /\ binding'[d] = binding[d] /\ draft'[d].status = draft[d].status
                  /\ \A t \in draft[d].names \ draft'[d].names : Frozen(t)
    BY <1>4, <1>5, <1>7, <1>9 DEF DecisionInv
  <1>12. \A d \in Draft : DraftRow(d) \in NextStep(p).rows => s \notin draft'[d].names
    BY <1>7, <1>8, <1>9 DEF DecisionInv
  <1> QED
    BY <1>1, <1>2, <1>3, <1>5, <1>6, <1>10, <1>11, <1>12, DraftsErased

-----------------------------------------------------------------------------
(* The whole system *)

\* At first there is nothing.
LEMMA NothingAtFirst ==
    ASSUME Init
    PROVE  SystemInv
  <1>1. /\ StoreInit /\ NoDecision \in DecisionType /\ NoGroup \in GroupType
        /\ [status |-> "ABSENT", by |-> None] \in AccountType
        /\ [status |-> "NONE", names |-> {}] \in DraftType /\ "NONE" \in BindingType
    BY DEF Init, NoDecision, DecisionType, Incarnation, NoGroup, GroupType, AccountType,
           DraftType, BindingType
  <1>2. \A d \in Draft : /\ Holders(d) = {} /\ Seated(d) = {} /\ ~Stored(d)
                         /\ decision[d].members = {} /\ decision[d].private = {}
                         /\ decision[d].status = "ABSENT"
                         /\ \A s \in Subject : decision[d].receipt[s] = None
    BY <1>1 DEF StoreInit, NoDecision, Holders, Seated, Stored
  <1>3. StoreType
    BY <1>1 DEF StoreInit, StoreType
  <1>4. ReaderType
    BY <1>1 DEF StoreInit, ReaderType
  <1>5. RosterInv /\ CurrentBindingMatchesRoster
    BY <1>1 DEF StoreInit, RosterInv, CurrentBindingMatchesRoster, NoGroup, Members, ChildrenOf
  <1>6. DecisionInv
    BY <1>1, <1>2 DEF StoreInit, DecisionInv
  <1>7. FenceInv /\ PlanInv /\ CoverageInv /\ ManifestInv
    BY <1>1 DEF StoreInit, FenceInv, PlanInv, CoverageInv, ManifestInv
  <1>8. ReceiptInv /\ NoTraceInv
    BY <1>1, <1>2 DEF StoreInit, ReceiptInv, NoTraceInv
  <1> QED
    BY <1>3, <1>4, <1>5, <1>6, <1>7, <1>8 DEF SystemInv, StoreInv

\* Every step keeps the invariant.
LEMMA StepKeepsInv ==
    ASSUME SystemInv, [Next]_storeVars
    PROVE  SystemInv'
  <1>1. CASE SessionNext
    BY <1>1, SessionSteps, SessionsKeepInv
  <1>2. CASE ErasureNext
    <2>1. PICK p \in Plan :
             \/ \E scope \in Scope : Prepare(p, scope)
             \/ \E s \in Subject : Grant(s, p) \/ GrantEnds(s, p)
             \/ Begin(p)
             \/ FreezeAccount(p)
             \/ FreezeGroup(p)
             \/ EraseOwner(p)
             \/ EraseDecision(p)
             \/ EraseReplays(p)
             \/ ErasePartitionRows(p)
             \/ EraseNames(p)
             \/ EraseAccount(p)
      BY <1>2 DEF ErasureNext
    <2> QED
      BY <2>1, PrepareKeepsInv, ConsentKeepsInv, AccountFenceKeepsInv, GroupFenceKeepsInv,
         OwnerKeepsInv, WholeDecisionKeepsInv, ReplaysKeepInv, PartitionRowsKeepInv,
         NamesKeepInv
  <1>3. CASE ArchiveNext
    BY <1>3, ManifestKeepsInv, ArchivedKeepsInv DEF ArchiveNext
  <1>4. CASE UNCHANGED storeVars
    <2>1. /\ UNCHANGED storeRows /\ request' = request /\ plan' = plan /\ archive' = archive
          /\ journal' = journal /\ consent' = consent
      BY <1>4 DEF storeVars, storeRows
    <2>2. StoreInv' /\ NoTraceInv' /\ FenceInv'
      BY <2>1, StoreUnread, FencesUnread
    <2>3. ReaderType'
      BY <2>1 DEF SystemInv, ReaderType
    <2>4. \A q \in Plan : plan'[q] # None => OnePlanInv(q)'
      <3>1. \A q \in Plan : Begun(q)' <=> Begun(q)
        BY <2>1 DEF Begun
      <3> QED
        BY <2>1, <3>1, PlanUnread
    <2>5. ASSUME NEW d \in Draft, NEW s \in Subject, decision'[d].receipt[s] # None
          PROVE  \/ s \in Holders(d)'
                 \/ \E q \in Plan : journal'[q] = "ERASING" /\ RemovesReceipt(q, 0, d, s)'
      BY <2>1, <2>5 DEF SystemInv, ReceiptInv, Holders, RemovesReceipt, storeRows
    <2>6. \A q \in Plan : journal'[q] # None => plan'[q] # None
      BY <2>1 DEF SystemInv, PlanInv
    <2>7. PlanInv' /\ ReceiptInv' /\ CoverageInv'
      BY <2>4, <2>5, <2>6, PlanByPlanAfter
    <2>8. ManifestInv'
      BY <2>1, ManifestsUnread DEF ManifestInv, Approved
    <2> QED
      BY <2>2, <2>3, <2>7, <2>8 DEF SystemInv
  <1> QED
    BY <1>1, <1>2, <1>3, <1>4 DEF Next

\* The invariant holds in every state the system can be in.
THEOREM SystemSafe == Spec => []SystemInv
  <1>1. Init => SystemInv
    BY NothingAtFirst
  <1>2. SystemInv /\ [Next]_storeVars => SystemInv'
    BY StepKeepsInv
  <1> QED
    BY <1>1, <1>2, PTL DEF Spec

-----------------------------------------------------------------------------
(* What the runs check, for every number of people, groups and plans *)

\* Rows have their types, and an erasure is done when no step is left.
THEOREM RowsTyped == Spec => []TypeOK
  <1>1. ASSUME SystemInv
        PROVE  TypeOK
    <2>1. \A p \in Plan : (journal[p] = "ERASED") <=> (plan[p] # None /\ plan[p].steps = <<>>)
      BY <1>1, StoreAssumption DEF SystemInv, PlanInv
    <2>2. StoreType /\ ReaderType
      BY <1>1 DEF SystemInv, StoreInv
    <2> QED
      BY <2>1, <2>2 DEF StoreType, ReaderType, TypeOK
  <1> QED
    BY <1>1, SystemSafe, PTL

\* A current binding opens a decision to members of the group only.
THEOREM BindingsMatchRosters == Spec => []CurrentBindingMatchesRoster
  <1>1. SystemInv => CurrentBindingMatchesRoster
    BY DEF SystemInv, StoreInv
  <1> QED
    BY <1>1, SystemSafe, PTL

\* Nothing of a person whose account is erased is left.
THEOREM NoTraceOfTheErased == Spec => []ErasedLeavesNoTrace
  <1>1. ASSUME SystemInv
        PROVE  ErasedLeavesNoTrace
    <2> SUFFICES ASSUME NEW s \in Subject, account[s].status = "ERASED", NEW d \in Draft
                 PROVE  /\ s \notin Holders(d) \cup decision[d].members
                        /\ decision[d].receipt[s] = None \/ ToBeRemoved(d, s)
                        /\ s \notin draft[d].names
      BY DEF ErasedLeavesNoTrace
    <2>1. s \notin Holders(d) \cup decision[d].members /\ s \notin draft[d].names
      BY <1>1 DEF SystemInv, NoTraceInv
    <2>2. ASSUME decision[d].receipt[s] # None
          PROVE  ToBeRemoved(d, s)
      <3>1. PICK p \in Plan : journal[p] = "ERASING" /\ RemovesReceipt(p, 0, d, s)
        BY <1>1, <2>1, <2>2 DEF SystemInv, ReceiptInv
      <3> QED
        BY <3>1 DEF RemovesReceipt, ToBeRemoved
    <2> QED
      BY <2>1, <2>2
  <1> QED
    BY <1>1, SystemSafe, PTL

\* A commit of a plan takes its first step away.
LEMMA CommitTakesStep ==
    ASSUME SystemInv, NEW p \in Plan, NEW kind, Runs(p, kind), NEW rows, Commit(p, rows)
    PROVE  plan[p] # None /\ plan'[p].steps # plan[p].steps
  <1>1. /\ Len(plan'[p].steps) \in Nat
        /\ Len(plan[p].steps) = Len(plan'[p].steps) + 1
    BY CommittedPlan
  <1>2. plan[p] # None
    BY RunningPlan
  <1>3. plan'[p].steps # plan[p].steps
    BY <1>1
  <1> QED
    BY <1>2, <1>3

\* What an erasure can do: nothing to the store, or one commit.
LEMMA ErasureSteps ==
    ASSUME SystemInv, ErasureNext
    PROVE  \/ UNCHANGED storeRows /\ archive' = archive
           \/ \E p \in Plan :
                 /\ plan[p] # None /\ plan'[p].steps # plan[p].steps
                 /\ group' = group \/ FreezeGroup(p)
                 /\ \/ decision' = decision
                    \/ EraseOwner(p) \/ EraseDecision(p) \/ EraseReplays(p)
                 /\ \A g \in Group : archive'[g] # None =>
                       archive[g] # None /\ archive'[g].state = archive[g].state
  <1>1. PICK p \in Plan :
             \/ \E scope \in Scope : Prepare(p, scope)
             \/ \E s \in Subject : Grant(s, p) \/ GrantEnds(s, p)
             \/ Begin(p)
             \/ FreezeAccount(p)
             \/ FreezeGroup(p)
             \/ EraseOwner(p)
             \/ EraseDecision(p)
             \/ EraseReplays(p)
             \/ ErasePartitionRows(p)
             \/ EraseNames(p)
             \/ EraseAccount(p)
    BY DEF ErasureNext
  <1>2. CASE \/ \E scope \in Scope : Prepare(p, scope)
             \/ \E s \in Subject : Grant(s, p) \/ GrantEnds(s, p)
             \/ Begin(p)
    BY <1>2 DEF Prepare, Grant, GrantEnds, Begin, storeRows
  <1>3. ASSUME NEW kind, Runs(p, kind), NEW rows, Commit(p, rows)
        PROVE  /\ plan[p] # None /\ plan'[p].steps # plan[p].steps
               /\ \A g \in Group : archive'[g] # None =>
                     archive[g] # None /\ archive'[g].state = archive[g].state
    <2>1. archive' = ArchivesAfter(rows) /\ ReaderType
      BY <1>3 DEF Commit, SystemInv
    <2> QED
      BY <1>3, <2>1, CommitTakesStep, ArchivesAfterWrite
  <1>4. CASE FreezeAccount(p)
    <2>1. group' = group /\ decision' = decision
      BY <1>4 DEF FreezeAccount
    <2> QED
      BY <1>3, <1>4, <2>1 DEF FreezeAccount
  <1>5. CASE FreezeGroup(p)
    <2>1. decision' = decision
      BY <1>5 DEF FreezeGroup
    <2>2. /\ plan[p] # None /\ plan'[p].steps # plan[p].steps
          /\ \A g \in Group : archive'[g] # None =>
                archive[g] # None /\ archive'[g].state = archive[g].state
      BY <1>3, <1>5 DEF FreezeGroup
    <2> QED
      BY <1>5, <2>1, <2>2
  <1>6. CASE EraseOwner(p)
    <2>1. group' = group
      BY <1>6 DEF EraseOwner
    <2>2. /\ plan[p] # None /\ plan'[p].steps # plan[p].steps
          /\ \A g \in Group : archive'[g] # None =>
                archive[g] # None /\ archive'[g].state = archive[g].state
      BY <1>3, <1>6 DEF EraseOwner
    <2> QED
      BY <1>6, <2>1, <2>2
  <1>7. CASE EraseDecision(p)
    <2>1. group' = group
      BY <1>7 DEF EraseDecision
    <2>2. /\ plan[p] # None /\ plan'[p].steps # plan[p].steps
          /\ \A g \in Group : archive'[g] # None =>
                archive[g] # None /\ archive'[g].state = archive[g].state
      BY <1>3, <1>7 DEF EraseDecision
    <2> QED
      BY <1>7, <2>1, <2>2
  <1>8. CASE EraseReplays(p)
    <2>1. group' = group
      BY <1>8 DEF EraseReplays
    <2>2. /\ plan[p] # None /\ plan'[p].steps # plan[p].steps
          /\ \A g \in Group : archive'[g] # None =>
                archive[g] # None /\ archive'[g].state = archive[g].state
      BY <1>3, <1>8 DEF EraseReplays
    <2> QED
      BY <1>8, <2>1, <2>2
  <1>9. CASE ErasePartitionRows(p)
    <2>1. group' = group /\ decision' = decision
      BY <1>9 DEF ErasePartitionRows
    <2> QED
      BY <1>3, <1>9, <2>1 DEF ErasePartitionRows
  <1>10. CASE EraseNames(p)
    <2>1. group' = group /\ decision' = decision
      BY <1>10 DEF EraseNames
    <2> QED
      BY <1>3, <1>10, <2>1 DEF EraseNames
  <1>11. CASE EraseAccount(p)
    <2>1. group' = group /\ decision' = decision
      BY <1>11 DEF EraseAccount
    <2> QED
      BY <1>3, <1>11, <2>1 DEF EraseAccount
  <1> QED
    BY <1>1, <1>2, <1>4, <1>5, <1>6, <1>7, <1>8, <1>9, <1>10, <1>11

\* What leaves a decision by a commit of an erasure, and that nothing enters.
LEMMA ErasureTakes ==
    ASSUME SystemInv, NEW p \in Plan, EraseOwner(p) \/ EraseDecision(p) \/ EraseReplays(p)
    PROVE  /\ Consented(p)
           /\ \A d \in Draft :
                 /\ decision'[d].private \subseteq decision[d].private
                 /\ Holders(d) \ Holders(d)' \subseteq plan[p].subjects
  <1> DEFINE kind == NextStep(p).kind
  <1>1. /\ Runs(p, kind) /\ kind \in {"OWNER_STATE", "DECISION_STATE", "REPLAYS"}
        /\ EraseOwner(p) => kind = "OWNER_STATE"
    BY DEF EraseOwner, EraseDecision, EraseReplays, Runs
  <1> HIDE DEF kind
  <1>2. /\ Consented(p) /\ NextStep(p).on \in Draft
        /\ kind = "OWNER_STATE" => plan[p].subjects = {plan[p].scope.who}
    BY <1>1, RunningPlan DEF StepFits, Runs
  <1>3. PICK x \in Draft : x = NextStep(p).on
    BY <1>2
  <1>4. /\ decision \in [Draft -> DecisionType] /\ \A d \in Draft : decision[d].private \subseteq Seated(d)
    BY DEF SystemInv, StoreInv, StoreType, DecisionInv
  <1>5. PICK D : D = decision[x] /\ D \in DecisionType
    BY <1>4
  <1>6. CASE EraseOwner(p)
    <2> DEFINE who == plan[p].scope.who
    <2>1. /\ WithoutOwner(D, who, p).private = D.private \ {who}
          /\ WithoutOwner(D, who, p).retired = D.retired \ {who}
      BY <1>5 DEF WithoutOwner, DecisionType
    <2>2. decision' = [decision EXCEPT ![x] = WithoutOwner(D, who, p)]
      BY <1>3, <1>5, <1>6 DEF EraseOwner
    <2> HIDE DEF who
    <2>3. /\ decision'[x].private = decision[x].private \ {who}
          /\ decision'[x].retired = decision[x].retired \ {who}
          /\ \A d \in Draft : d # x => decision'[d] = decision[d]
      BY <1>4, <1>5, <2>1, <2>2
    <2> QED
      BY <1>1, <1>2, <1>6, <2>3 DEF Holders, who
  <1>7. CASE EraseDecision(p)
    <2> DEFINE new == [NoDecision EXCEPT !.status = "REMOVED", !.incarnation = p,
                                         !.receipt = D.receipt]
    <2>1. new.private = {} /\ new.retired = {}
      BY DEF NoDecision
    <2>2. decision' = [decision EXCEPT ![x] = new] /\ Concerned(x) \subseteq plan[p].subjects
      BY <1>3, <1>5, <1>7 DEF EraseDecision
    <2> HIDE DEF new
    <2>3. /\ decision'[x].private = {} /\ decision'[x].retired = {}
          /\ \A d \in Draft : d # x => decision'[d] = decision[d]
      BY <1>4, <2>1, <2>2
    <2>4. Holders(x) \subseteq Concerned(x)
      BY <1>4 DEF Holders, Concerned
    <2> QED
      BY <1>2, <2>2, <2>3, <2>4 DEF Holders
  <1>8. CASE EraseReplays(p)
    <2>1. PICK R : decision' = [decision EXCEPT ![x].receipt = R]
      BY <1>3, <1>8 DEF EraseReplays
    <2>2. [D EXCEPT !.receipt = R].private = D.private /\ [D EXCEPT !.receipt = R].retired = D.retired
      BY <1>5 DEF DecisionType
    <2>3. /\ decision'[x] = [D EXCEPT !.receipt = R]
          /\ \A d \in Draft : d # x => decision'[d] = decision[d]
      BY <1>4, <1>5, <2>1
    <2>4. \A d \in Draft : /\ decision'[d].private = decision[d].private
                           /\ decision'[d].retired = decision[d].retired
      BY <1>5, <2>2, <2>3
    <2> QED
      BY <1>2, <2>4 DEF Holders
  <1> QED
    BY <1>6, <1>7, <1>8

\* Of what people do, only a command of s brings private input of s.
LEMMA OnlyCommandsContribute ==
    ASSUME SystemInv, SessionNext, NEW d \in Draft,
           NEW s \in decision'[d].private \ decision[d].private
    PROVE  s \in Subject /\ Contribute(s, d)
  <1>1. decision \in [Draft -> DecisionType]
    BY DEF SystemInv, StoreInv, StoreType
  <1>2. PICK t \in Subject, e \in Draft :
           \/ CreateDecision(t, e) \/ Contribute(t, e) \/ Agree(t, e)
           \/ Withdraw(t, e) \/ Look(t, e) \/ ReviseRoster(t, e)
    <2>1. decision' # decision
      OBVIOUS
    <2>2. ~AccountStep
      BY <2>1 DEF AccountStep, Register, Approve, UpdateProfile
    <2>3. ~GroupStep
      BY <2>1 DEF GroupStep, Create, Invite, Accept, RemoveMember, Rename, DeleteGroup
    <2>4. ~DraftStep
      BY <2>1 DEF DraftStep, GenerateDraft, EditDraft, RemoveDraft, RemoveDecision
    <2>5. ~ \E t \in Subject : GiveUp(t)
      BY <2>1 DEF GiveUp
    <2>6. DecisionStep
      BY <2>2, <2>3, <2>4, <2>5 DEF SessionNext
    <2>7. \A t, e, kind : ~Fence(t, kind, e)
      BY <2>1 DEF Fence
    <2> QED
      BY <2>6, <2>7 DEF DecisionStep
  <1>3. ASSUME NEW next \in DecisionType, NEW rows, StoreDecision(t, e, next, rows)
        PROVE  e = d /\ s \in next.private \ decision[e].private
    BY <1>1, <1>3 DEF StoreDecision
  <1>4. PICK D : D = decision[e] /\ D \in DecisionType
    BY <1>1
  <1>5. ASSUME Contribute(t, e) \/ Agree(t, e) \/ Withdraw(t, e) \/ Look(t, e)
        PROVE  Joined(t, e) \in DecisionType /\ Joined(t, e).private = D.private
    <2>1. TakesPart(t, e)
      BY <1>5 DEF Contribute, Agree, Withdraw, Look
    <2> QED
      BY <1>4, <2>1, JoinedRecord
  <1>6. CASE Contribute(t, e)
    <2> DEFINE K == [Joined(t, e) EXCEPT !.private = @ \cup {t}]
    <2>1. K \in DecisionType /\ K.private = D.private \cup {t}
      BY <1>5, <1>6 DEF DecisionType
    <2>2. StoreDecision(t, e, WithReceipt(K, t), {GuardRow(e), ReplayRow(e, t)})
      BY <1>6 DEF Contribute
    <2> HIDE DEF K
    <2>3. WithReceipt(K, t) \in DecisionType /\ WithReceipt(K, t).private = K.private
      BY <2>1, ReceiptAdded
    <2>4. e = d /\ s \in K.private \ D.private
      BY <1>3, <1>4, <2>2, <2>3
    <2> QED
      BY <1>6, <2>1, <2>4
  <1>7. CASE Agree(t, e)
    <2> DEFINE K == [Joined(t, e) EXCEPT !.status = "AGREED"]
    <2>1. K \in DecisionType /\ K.private = D.private
      BY <1>5, <1>7 DEF DecisionType
    <2>2. StoreDecision(t, e, WithReceipt(K, t), {GuardRow(e), ReplayRow(e, t)})
      BY <1>7 DEF Agree
    <2> HIDE DEF K
    <2>3. WithReceipt(K, t) \in DecisionType /\ WithReceipt(K, t).private = K.private
      BY <2>1, ReceiptAdded
    <2> QED
      BY <1>3, <1>4, <2>1, <2>2, <2>3
  <1>8. CASE Withdraw(t, e)
    <2> DEFINE K == [D EXCEPT !.status = "LIVE"]
    <2>1. K \in DecisionType /\ K.private = D.private
      BY <1>4 DEF DecisionType
    <2>2. StoreDecision(t, e, WithReceipt(K, t), {GuardRow(e), ReplayRow(e, t)})
      BY <1>4, <1>8 DEF Withdraw
    <2> HIDE DEF K
    <2>3. WithReceipt(K, t) \in DecisionType /\ WithReceipt(K, t).private = K.private
      BY <2>1, ReceiptAdded
    <2> QED
      BY <1>3, <1>4, <2>1, <2>2, <2>3
  <1>9. CASE Look(t, e)
    <2>1. StoreDecision(t, e, Joined(t, e), {GuardRow(e)})
      BY <1>9 DEF Look
    <2> QED
      BY <1>3, <1>4, <1>5, <1>9, <2>1
  <1>10. CASE CreateDecision(t, e)
    <2> DEFINE K == [NoDecision EXCEPT !.status = "LIVE", !.members = request[t].roster]
    <2>1. /\ decision' = [decision EXCEPT ![e] = K]
      BY <1>10 DEF CreateDecision, StoreDecision
    <2>2. K.private = {}
      BY DEF NoDecision
    <2> HIDE DEF K
    <2> QED
      BY <1>1, <2>1, <2>2
  <1>11. CASE ReviseRoster(t, e)
    <2> DEFINE R == Revised(D, request[t].roster)
    <2>1. decision' = [decision EXCEPT ![e] = R]
      BY <1>4, <1>11 DEF ReviseRoster, StoreDecision
    <2>2. R.private = D.private \/ R.private = {}
      <3>1. R \in {D, WithMembers(D, request[t].roster),
                   [D EXCEPT !.members = request[t].roster, !.readable = TRUE, !.inactive = {},
                             !.private = {}, !.retired = @ \cup D.private]}
        BY DEF Revised
      <3>2. WithMembers(D, request[t].roster).private = D.private
        BY <1>4 DEF WithMembers, DecisionType
      <3>3. [D EXCEPT !.members = request[t].roster, !.readable = TRUE, !.inactive = {},
                      !.private = {}, !.retired = @ \cup D.private].private = {}
        BY <1>4 DEF DecisionType
      <3> QED
        BY <3>1, <3>2, <3>3
    <2> HIDE DEF R
    <2> QED
      BY <1>1, <1>4, <2>1, <2>2
  <1> QED
    BY <1>2, <1>6, <1>7, <1>8, <1>9, <1>10, <1>11

\* An archive leaves decisions, drafts and accounts alone.
LEMMA ArchiveSteps ==
    ASSUME SystemInv, ArchiveNext
    PROVE  /\ UNCHANGED <<account, edges, draft, binding, decision>>
           /\ \A g \in Group : group'[g] = group[g] \/ group'[g].status = "ARCHIVED"
  <1>1. PICK g \in Group : \/ \E by \in Authority : PrepareArchive(g, by)
                           \/ CheckArchive(g) \/ CommitArchive(g)
    BY DEF ArchiveNext
  <1>2. group \in [Group -> GroupType]
    BY DEF SystemInv, StoreInv, StoreType
  <1>3. UNCHANGED <<account, edges, draft, binding, decision>>
    BY <1>1 DEF PrepareArchive, CheckArchive, CommitArchive
  <1>4. CASE CommitArchive(g)
    BY <1>2, <1>3, <1>4 DEF CommitArchive, GroupType
  <1> QED
    BY <1>1, <1>3, <1>4 DEF PrepareArchive, CheckArchive

\* Private input comes from an approved member of the open group.
THEOREM InputComesFromMembers == Spec => PrivateInputComesFromMembers
  <1>1. ASSUME SystemInv, [Next]_storeVars, NEW d \in Draft,
               NEW s \in decision'[d].private \ decision[d].private
        PROVE  /\ Approved(s) /\ group[GroupOf[d]].status = "OPEN"
               /\ s \in Members(GroupOf[d])
    <2>1. SessionNext
      <3>1. decision' # decision
        BY <1>1
      <3>2. ~ArchiveNext
        BY <1>1, <3>1, ArchiveSteps
      <3>3. ~ErasureNext
        BY <1>1, <3>1, ErasureSteps, ErasureTakes DEF storeRows
      <3> QED
        BY <1>1, <3>1, <3>2, <3>3 DEF Next, storeVars
    <2>2. s \in Subject /\ Contribute(s, d)
      BY <1>1, <2>1, OnlyCommandsContribute
    <2>3. request[s] # None /\ request[s].on = d /\ FenceStands(s)
      BY <2>2 DEF Contribute, TakesPart
    <2> QED
      BY <1>1, <2>2, <2>3, FenceSays DEF RosterApproved
  <1>2. SystemInv /\ [Next]_storeVars =>
           [\A d \in Draft, s \in Subject :
               s \in decision'[d].private \ decision[d].private =>
                   /\ Approved(s)
                   /\ group[GroupOf[d]].status = "OPEN"
                   /\ s \in Members(GroupOf[d])]_storeVars
    BY <1>1
  <1> QED
    BY <1>2, SystemSafe, PTL DEF Spec, PrivateInputComesFromMembers

\* What somebody has in a decision goes with a grant of theirs only.
THEOREM DataNeedsConsent == Spec => DataLeavesWithConsent
  <1>1. ASSUME SystemInv, [Next]_storeVars, NEW d \in Draft,
               NEW s \in Holders(d) \ Holders(d)'
        PROVE  \E p \in Plan : s \in consent[p]
    <2>1. decision' # decision
      BY <1>1 DEF Holders
    <2>2. ~SessionNext
      BY <1>1, SessionSteps DEF SessionStep, SessionEffect, DecisionsChange
    <2>3. ~ArchiveNext
      BY <1>1, <2>1, ArchiveSteps
    <2>4. ErasureNext
      BY <1>1, <2>1, <2>2, <2>3 DEF Next, storeVars
    <2>5. PICK p \in Plan : EraseOwner(p) \/ EraseDecision(p) \/ EraseReplays(p)
      BY <1>1, <2>1, <2>4, ErasureSteps DEF storeRows
    <2> QED
      BY <1>1, <2>5, ErasureTakes DEF Consented
  <1>2. SystemInv /\ [Next]_storeVars =>
           [\A d \in Draft : \A s \in Holders(d) \ Holders(d)' :
               \E p \in Plan : s \in consent[p]]_storeVars
    BY <1>1
  <1> QED
    BY <1>2, SystemSafe, PTL DEF Spec, DataLeavesWithConsent

\* While a member of g is frozen, people leave the group as it is.
LEMMA FrozenGroupRests ==
    ASSUME SystemInv, SessionNext, NEW g \in Group, NEW t \in Members(g),
           account[t].status = "ERASING"
    PROVE  /\ group'[g] = group[g]
           /\ \A d \in ChildrenOf(g) :
                 draft'[d] = draft[d] /\ binding'[d] = binding[d] /\ decision'[d] = decision[d]
  <1>1. StoreType /\ RosterInv
    BY DEF SystemInv, StoreInv
  <1>2. ~Readable(Members(g)) /\ ~RosterApproved(g)
    BY DEF Readable, RosterApproved, Approved
  <1>3. CASE AccountStep
    BY <1>3 DEF AccountStep, Register, Approve, UpdateProfile
  <1>4. CASE GroupStep
    <2>1. PICK s \in Subject, h \in Group :
             \/ Create(s, h)
             \/ \E u \in Subject : Invite(s, h, u)
             \/ Accept(s, h)
             \/ \E u \in Subject : RemoveMember(s, h, u)
             \/ Rename(s, h)
             \/ DeleteGroup(s, h)
      BY <1>4 DEF GroupStep
    <2>2. CASE Create(s, h)
      <3>1. h # g
        BY <1>1, <2>2 DEF Create, RosterInv
      <3> QED
        BY <1>1, <2>2, <3>1 DEF Create, StoreType
    <2>3. CASE (\E u \in Subject : Invite(s, h, u)) \/ Rename(s, h)
      BY <2>3 DEF Invite, Rename
    <2>4. CASE Accept(s, h)
      <3>1. h # g
        BY <1>2, <2>4 DEF Accept
      <3> QED
        BY <1>1, <2>4, <3>1 DEF Accept, StoreType, DraftsLeftBehind, BindingsFollow, ChildrenOf
    <2>5. CASE (\E u \in Subject : RemoveMember(s, h, u)) \/ DeleteGroup(s, h)
      <3>1. h # g
        BY <1>2, <2>5 DEF RemoveMember, DeleteGroup, MayOrganize, MayVisit
      <3>2. /\ draft' = DraftsLeftBehind(h) /\ binding' = BindingsLeftBehind(h)
            /\ decision' = decision /\ group'[g] = group[g]
        BY <1>1, <2>5, <3>1 DEF RemoveMember, DeleteGroup, StoreType
      <3> QED
        BY <3>1, <3>2 DEF DraftsLeftBehind, BindingsLeftBehind, ChildrenOf
    <2> QED
      BY <2>1, <2>2, <2>3, <2>4, <2>5
  <1>5. CASE DraftStep
    <2>1. PICK s \in Subject, e \in Draft :
             \/ GenerateDraft(s, e) \/ EditDraft(s, e)
             \/ RemoveDraft(s, e) \/ RemoveDecision(s, e)
      BY <1>5 DEF DraftStep
    <2>2. GroupOf[e] # g
      BY <1>2, <2>1
      DEF GenerateDraft, EditDraft, RemoveDraft, RemoveDecision, MayOrganize, MayVisit
    <2> QED
      BY <1>1, <2>1, <2>2
      DEF GenerateDraft, EditDraft, RemoveDraft, RemoveDecision, StoreType, ChildrenOf
  <1>6. CASE DecisionStep
    <2>1. PICK s \in Subject, e \in Draft :
             \/ \E kind \in {"CREATE", "TAKE_PART", "REVISE_ROSTER"} : Fence(s, kind, e)
             \/ CreateDecision(s, e) \/ Contribute(s, e) \/ Agree(s, e)
             \/ Withdraw(s, e) \/ Look(s, e) \/ ReviseRoster(s, e)
      BY <1>6 DEF DecisionStep
    <2>2. CASE \E kind \in {"CREATE", "TAKE_PART", "REVISE_ROSTER"} : Fence(s, kind, e)
      BY <2>2 DEF Fence
    <2>3. CASE CreateDecision(s, e) \/ ReviseRoster(s, e)
      <3>1. request[s] # None /\ request[s].on = e /\ FenceStands(s)
        BY <2>3 DEF CreateDecision, ReviseRoster
      <3>2. GroupOf[e] # g
        BY <1>2, <3>1, FenceSays
      <3>3. \A d \in Draft : d # e =>
               draft'[d] = draft[d] /\ binding'[d] = binding[d] /\ decision'[d] = decision[d]
        BY <1>1, <2>3 DEF CreateDecision, ReviseRoster, StoreDecision, StoreType
      <3>4. group' = group
        BY <2>3 DEF CreateDecision, ReviseRoster, StoreDecision
      <3> QED
        BY <3>2, <3>3, <3>4 DEF ChildrenOf
    <2>4. CASE Contribute(s, e) \/ Agree(s, e) \/ Withdraw(s, e) \/ Look(s, e)
      <3>1. request[s] # None /\ request[s].on = e /\ FenceStands(s)
        BY <2>4 DEF Contribute, Agree, Withdraw, Look, TakesPart
      <3>2. GroupOf[e] # g
        BY <1>2, <3>1, FenceSays
      <3>3. \A d \in Draft : d # e => decision'[d] = decision[d]
        BY <1>1, <2>4 DEF Contribute, Agree, Withdraw, Look, StoreDecision, StoreType
      <3>4. group' = group /\ draft' = draft /\ binding' = binding
        BY <2>4 DEF Contribute, Agree, Withdraw, Look, StoreDecision
      <3> QED
        BY <3>2, <3>3, <3>4 DEF ChildrenOf
    <2> QED
      BY <2>1, <2>2, <2>3, <2>4
  <1>7. CASE \E s \in Subject : GiveUp(s)
    BY <1>7 DEF GiveUp
  <1> QED
    BY <1>3, <1>4, <1>5, <1>6, <1>7 DEF SessionNext

\* While a member's account is frozen, only erasures change their group.
THEOREM FrozenGroupsRest == Spec => GroupRestsWhileErasing
  <1>1. ASSUME SystemInv, [Next]_storeVars, NEW d \in Draft,
               NEW t \in Members(GroupOf[d]), account[t].status = "ERASING",
               \A p \in Plan : plan[p] # None => plan'[p].steps = plan[p].steps
        PROVE  /\ \/ group'[GroupOf[d]] = group[GroupOf[d]]
                  \/ group'[GroupOf[d]].status = "ARCHIVED"
               /\ <<draft'[d], binding'[d], decision'[d]>> = <<draft[d], binding[d], decision[d]>>
    <2>1. GroupOf[d] \in Group /\ d \in ChildrenOf(GroupOf[d])
      BY StoreAssumption DEF ChildrenOf
    <2>2. CASE SessionNext
      BY <1>1, <2>1, <2>2, FrozenGroupRests
    <2>3. CASE ErasureNext
      <3>1. UNCHANGED storeRows
        BY <1>1, <2>3, ErasureSteps
      <3> QED
        BY <3>1 DEF storeRows
    <2>4. CASE ArchiveNext
      BY <1>1, <2>1, <2>4, ArchiveSteps
    <2>5. CASE UNCHANGED storeVars
      BY <2>5 DEF storeVars
    <2> QED
      BY <1>1, <2>2, <2>3, <2>4, <2>5 DEF Next
  <1>2. SystemInv /\ [Next]_storeVars =>
           [\A d \in Draft :
               /\ \E s \in Members(GroupOf[d]) : account[s].status = "ERASING"
               /\ \A p \in Plan : plan[p] # None => plan'[p].steps = plan[p].steps
               => /\ \/ group'[GroupOf[d]] = group[GroupOf[d]]
                     \/ group'[GroupOf[d]].status = "ARCHIVED"
                  /\ <<draft'[d], binding'[d], decision'[d]>>
                       = <<draft[d], binding[d], decision[d]>>]_storeVars
    BY <1>1
  <1> QED
    BY <1>2, SystemSafe, PTL DEF Spec, GroupRestsWhileErasing

\* A manifest says so only once its group is archived, and neither goes back.
TombstoneInv ==
    \A g \in Group : archive[g] # None /\ archive[g].state = "ARCHIVED"
                        => group[g].status = "ARCHIVED"

\* Whether a group is archived, and which step archives a manifest.
LEMMA OnlyTheArchiveArchives ==
    ASSUME SystemInv, [Next]_storeVars, NEW g \in Group
    PROVE  /\ group[g].status = "ARCHIVED" => group'[g].status = "ARCHIVED"
           /\ archive'[g] # None /\ archive'[g].state = "ARCHIVED" =>
                 \/ archive[g] # None /\ archive[g].state = "ARCHIVED"
                 \/ CommitArchive(g)
  <1>1. /\ group \in [Group -> GroupType] /\ ReaderType
        /\ archive = [h \in Group |-> archive[h]]
    BY DEF SystemInv, StoreInv, StoreType, ReaderType
  <1>2. CASE SessionNext
    <2>1. PICK rows : ReadersKnow(rows) /\ GroupsChange(rows)
      BY <1>2, SessionSteps DEF SessionStep, SessionEffect
    <2>2. archive' = ArchivesAfter(rows)
      BY <2>1 DEF ReadersKnow
    <2> QED
      BY <1>1, <2>1, <2>2, ArchivesAfterWrite DEF GroupsChange
  <1>3. CASE ErasureNext
    <2>1. ASSUME NEW p \in Plan, FreezeGroup(p)
          PROVE  group[g].status = "ARCHIVED" => group'[g].status = "ARCHIVED"
      <3>1. PICK h : group' = [group EXCEPT ![h].status = "ARCHIVED", ![h].members = {}]
        BY <2>1 DEF FreezeGroup
      <3> QED
        BY <1>1, <3>1 DEF GroupType
    <2> QED
      BY <1>3, <2>1, ErasureSteps DEF storeRows
  <1>4. CASE ArchiveNext
    <2>1. PICK h \in Group : \/ \E by \in Authority : PrepareArchive(h, by)
                             \/ CheckArchive(h) \/ CommitArchive(h)
      BY <1>4 DEF ArchiveNext
    <2>2. group[g].status = "ARCHIVED" => group'[g].status = "ARCHIVED"
      BY <1>4, ArchiveSteps
    <2>3. h # g => archive'[g] = archive[g]
      BY <1>1, <2>1 DEF PrepareArchive, CheckArchive, CommitArchive
    <2>4. ASSUME h = g, NEW by \in Authority, PrepareArchive(h, by)
          PROVE  archive'[g].state = "PREPARED"
      BY <1>1, <2>4 DEF PrepareArchive
    <2>5. ASSUME h = g, CheckArchive(h)
          PROVE  archive'[g].state = "CHECKED"
      <3>1. archive[g] \in ManifestType(g)
        BY <1>1, <2>5 DEF CheckArchive, ReaderType, TombstoneType
      <3>2. PICK F : archive' = [archive EXCEPT ![g].state = "CHECKED", ![g].fresh = F]
        BY <2>5 DEF CheckArchive
      <3> QED
        BY <1>1, <3>1, <3>2 DEF ManifestType
    <2> QED
      BY <2>1, <2>2, <2>3, <2>4, <2>5
  <1>5. CASE UNCHANGED storeVars
    BY <1>5 DEF storeVars
  <1> QED
    BY <1>2, <1>3, <1>4, <1>5 DEF Next

\* No manifest of a group that is still there is archived.
LEMMA TombstonesStand == Spec => []TombstoneInv
  <1>1. Init => TombstoneInv
    BY DEF Init, StoreInit, TombstoneInv
  <1>2. TombstoneInv /\ SystemInv /\ [Next]_storeVars => TombstoneInv'
    <2> SUFFICES ASSUME TombstoneInv, SystemInv, [Next]_storeVars, NEW g \in Group,
                        archive'[g] # None, archive'[g].state = "ARCHIVED"
                 PROVE  group'[g].status = "ARCHIVED"
      BY DEF TombstoneInv
    <2>1. CASE CommitArchive(g)
      BY <2>1 DEF SystemInv, StoreInv, StoreType, GroupType, CommitArchive
    <2> QED
      BY <2>1, OnlyTheArchiveArchives DEF TombstoneInv
  <1> QED
    BY <1>1, <1>2, SystemSafe, PTL DEF Spec

\* An archived group is the one its manifest describes.
THEOREM ArchivesAreTrue == Spec => ArchiveIsTrue
  <1>1. ASSUME SystemInv, TombstoneInv, [Next]_storeVars, NEW g \in Group,
               group[g].status # "ARCHIVED", archive'[g] # None,
               archive'[g].state = "ARCHIVED"
        PROVE  LET a == archive[g] IN
               /\ Members(g) = a.members
               /\ a.by = "ORGANIZER" => Approved(group[g].organizer)
               /\ \A d \in ChildrenOf(g) :
                     /\ binding[d] = a.children[d][2]
                     /\ draft[d].status = a.children[d][1].status
                     /\ \A s \in a.children[d][1].names \ draft[d].names :
                           account[s].status \in {"ERASING", "ERASED"}
    <2>1. CommitArchive(g)
      BY <1>1, OnlyTheArchiveArchives DEF TombstoneInv
    <2>2. /\ archive[g] # None /\ archive[g].state = "CHECKED"
          /\ HeaderRow(g) \in archive[g].fresh
          /\ archive[g].by = "ORGANIZER" => AccountRow(group[g].organizer) \in archive[g].fresh
      BY <2>1 DEF CommitArchive, ConditionsStand, GuardRows
    <2> QED
      BY <1>1, <2>2 DEF SystemInv, ManifestInv, Frozen
  <1>2. SystemInv /\ TombstoneInv /\ [Next]_storeVars =>
           [\A g \in Group :
               /\ group[g].status # "ARCHIVED"
               /\ archive'[g] # None /\ archive'[g].state = "ARCHIVED"
               => LET a == archive[g] IN
                  /\ Members(g) = a.members
                  /\ a.by = "ORGANIZER" => Approved(group[g].organizer)
                  /\ \A d \in ChildrenOf(g) :
                        /\ binding[d] = a.children[d][2]
                        /\ draft[d].status = a.children[d][1].status
                        /\ \A s \in a.children[d][1].names \ draft[d].names :
                              account[s].status \in {"ERASING", "ERASED"}]_storeVars
    BY <1>1
  <1> QED
    BY <1>2, SystemSafe, TombstonesStand, PTL DEF Spec, ArchiveIsTrue

=============================================================================
