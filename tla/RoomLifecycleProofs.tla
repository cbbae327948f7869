------------------------ MODULE RoomLifecycleProofs ------------------------
(***************************************************************************)
(* A room can always be read and shown, and a refusal ends its round,      *)
(* whatever the solver answers and whenever it does; a proposal suits the  *)
(* room, and offers are needed and suffice, because of what the solver     *)
(* finds: for any members, schedules, values and limits.                   *)
(*                                                                         *)
(* The argument goes room by room, not step by step.  RoomInv is about one *)
(* room, and each helper the handlers are made of is shown to take a room  *)
(* that satisfies it to one that does.  Capacity is an account per owner:  *)
(* what was asked and what was told only ever become less, but for the     *)
(* offers a concession makes, which it reserves.  FoundInv is about what   *)
(* was found for a room, and a step either lets all of it stand or stops   *)
(* all of it.  The intervals the solver scans are shown to be about        *)
(* minutes before that.                                                    *)
(***************************************************************************)
EXTENDS RoomLifecycle, FiniteSetTheorems, WellFoundedInduction, TLAPS

(***************************************************************************)
(* Types.                                                                  *)
(***************************************************************************)

Name == UNION {{c.name : c \in v.asks} : v \in Values}
Slot == UNION {schedule.slots : schedule \in Schedules}

Offer == [name : Name, slot : Slot, context : Nat, left : Nat]
Exception == [name : Name, slot : Slot, context : Nat, left : Nat,
              status : {"ACTIVE", "DECLINED", "REVOKED", "SUPERSEDED", "EXPIRED"}]
Preview == [context : Nat, left : Nat]
Disclosure == [context : Nat, left : Nat, published : BOOLEAN,
               status : {"ACTIVE", "DECLINED", "REVOKED", "SUPERSEDED", "EXPIRED"}]

OwnerRecord ==
    [accepted : Nat, confirmed : {None} \cup [values : Values, context : Nat],
     draft : {None} \cup Values, offers : SUBSET Offer, previews : SUBSET Preview,
     exceptions : SUBSET Exception, disclosures : SUBSET Disclosure, approval : Nat]

Shown == {"PROPOSED", "APPROVING", "AGREED"}
Hidden == {"COLLECTING", "READY", "SOLVING", "PRIVATE_REVIEW", "NO_AGREEMENT", "SUPERSEDED",
           "CLOSED"}

GrantRef == [owner : Member, name : Name, slot : Slot]

RoomRecord ==
    [schedule : Schedules, policy : Policies, present : SUBSET Member,
     membership : [Member -> {"PENDING", "ACTIVE"}],
     invitation : [Member -> {None} \cup [left : Nat, redeemed : BOOLEAN]],
     context : Nat, status : Shown \cup Hidden, owner : [Member -> OwnerRecord],
     retired : Nat, proposal : {None} \cup Proposal, proposalVersion : Nat,
     required : SUBSET GrantRef, published : SUBSET [owner : Member, context : Nat],
     receipts : Nat, roundUsed : BOOLEAN, solveEpoch : Nat,
     job : {None} \cup [epoch : Nat, context : Nat, completed : BOOLEAN]]

(***************************************************************************)
(* What is true of every room.                                             *)
(***************************************************************************)

\* owner o of member m in a room of context c whose round is used or not
OwnerInv(o, m, c, used, published) ==
    /\ IsFiniteSet(o.offers) /\ IsFiniteSet(o.previews)
    /\ IsFiniteSet(o.exceptions) /\ IsFiniteSet(o.disclosures)
    /\ \A x \in o.offers : x.context = c
    /\ \A x \in o.previews : x.context = c
    /\ o.offers # {} => used
    /\ \A g \in o.exceptions : g.context <= c /\ (g.context = c => used)
    /\ \A d \in o.disclosures : d.published => [owner |-> m, context |-> d.context] \in published

OwnersInv(r) ==
    \A m \in Member : OwnerInv(r.owner[m], m, r.context, r.roundUsed, r.published)

\* what an owner was and is asked for, and what of it was and will be told
Asked(o) == Cardinality(o.exceptions) + Cardinality(o.offers)
Settled(o, c) == o.previews # {} \/ \E d \in o.disclosures : d.context = c
Told(o, c) ==
    Cardinality(o.disclosures) + Cardinality(o.previews)
    + (IF o.offers # {} /\ ~Settled(o, c) THEN 1 ELSE 0)

Capacity(r) ==
    /\ \A m \in Member : /\ Asked(r.owner[m]) <= GrantLimit
                         /\ Told(r.owner[m], r.context) <= GrantLimit
    /\ r.retired + CountAll([m \in Member |-> Asked(r.owner[m]) + Told(r.owner[m], r.context)])
         <= HistoryLimit

StatusInv(r) ==
    /\ r.status \in Shown <=> r.proposal # None
    /\ r.status \in Hidden => \A m \in Member : r.owner[m].approval = 0
    /\ r.status = "AGREED" => Unanimous(r)
    /\ r.job # None /\ ~r.job.completed => r.proposal = None

ProposalInv(r) ==
    r.proposal # None =>
        /\ r.proposal.context = r.context
        /\ r.proposal.policy = r.policy
        /\ r.proposal.version = r.proposalVersion
        /\ r.proposal.plan.slot \in r.schedule.slots
        /\ r.present = Member

RestInv(r) ==
    /\ r.job # None => r.job.context = r.context /\ r.job.epoch = r.solveEpoch
    /\ IsFiniteSet(r.published) /\ Cardinality(r.published) <= PublishLimit
    /\ r.receipts <= ReceiptLimit
    /\ \A m \in Member : r.invitation[m] # None =>
          (r.invitation[m].redeemed <=> r.membership[m] = "ACTIVE")

\* a room but for the round of its context
Sound(r) ==
    /\ r \in RoomRecord
    /\ OwnersInv(r)
    /\ Capacity(r)
    /\ StatusInv(r)
    /\ ProposalInv(r)
    /\ RestInv(r)

\* somebody has refused in this context
RoundOver(r) ==
    \E m \in Member : \E g \in r.owner[m].exceptions :
        g.context = r.context /\ g.status # "ACTIVE"

RoundInv(r) == RoundOver(r) => r.job = None /\ r.proposal = None /\ Offers(r) = {}

RoomInv(r) == Sound(r) /\ RoundInv(r)

\* what a solver found was found for the room's schedule, if its context stands
RunInv(r, s) ==
    /\ s.context <= r.context
    /\ s.context = r.context /\ s.result.status = "SOLVED" =>
          /\ s.result.plan \in StructuralPlans(r.schedule)
          /\ s.result.required \subseteq GrantRef

SolverRun == [epoch : Nat, context : Nat,
              result : [status : {"SOLVED", "NO_AGREEMENT", "NEEDS_CLARIFICATION"},
                        plan : Plans \cup {NoPlan}, required : SUBSET GrantRef]]

Inv ==
    /\ RoomInv(room)
    /\ run \in [Worker -> {None} \cup SolverRun]
    /\ \A w \in Worker : run[w] # None => RunInv(room, run[w])

(***************************************************************************)
(* Counting.                                                               *)
(***************************************************************************)

Count == [Member -> Nat]
Block(n, m) == {m} \X (1..n[m])
Blocks(n, members) == UNION {Block(n, m) : m \in members}

\* The image of a finite set is finite and no larger.
LEMMA ImageBound ==
    ASSUME NEW S, IsFiniteSet(S), NEW f, f = [x \in S |-> f[x]]
    PROVE  /\ IsFiniteSet({f[x] : x \in S})
           /\ Cardinality({f[x] : x \in S}) <= Cardinality(S)
  <1> DEFINE T == {f[x] : x \in S}
  <1>1. f \in Surjection(S, T)
    BY DEF Surjection
  <1> QED
    BY <1>1, FS_Surjection

\* One member's block of n[m] places.
LEMMA BlockSize ==
    ASSUME NEW n \in Count, NEW m \in Member
    PROVE  IsFiniteSet(Block(n, m)) /\ Cardinality(Block(n, m)) = n[m]
  <1>1. n[m] \in Nat
    BY DEF Count
  <1>2. IsFiniteSet(1..n[m]) /\ Cardinality(1..n[m]) = n[m]
    BY <1>1, FS_Interval
  <1>3. IsFiniteSet({m}) /\ Cardinality({m}) = 1
    BY FS_Singleton
  <1>4. IsFiniteSet(Block(n, m)) /\ Cardinality(Block(n, m)) = 1 * n[m]
    BY <1>2, <1>3, FS_Product DEF Block
  <1> QED
    BY <1>1, <1>4

\* All members' blocks are finitely many places, as many as are counted.
LEMMA BlocksFinite ==
    ASSUME NEW n \in Count
    PROVE  /\ IsFiniteSet(Blocks(n, Member))
           /\ CountAll(n) = Cardinality(Blocks(n, Member))
           /\ CountAll(n) \in Nat
  <1> DEFINE f == [m \in Member |-> Block(n, m)]
             blocks == {f[m] : m \in Member}
  <1>1. IsFiniteSet(blocks)
    BY ImageBound, RoomAssumption
  <1>2. \A b \in blocks : IsFiniteSet(b)
    BY BlockSize
  <1>3. blocks = {Block(n, m) : m \in Member}
    OBVIOUS
  <1>4. IsFiniteSet(UNION blocks)
    <2> HIDE DEF blocks
    <2> QED
      BY <1>1, <1>2, FS_UNION
  <1>5. Blocks(n, Member) = UNION blocks
    BY <1>3 DEF Blocks
  <1>6. CountAll(n) = Cardinality(Blocks(n, Member))
    BY DEF CountAll, Blocks, Block
  <1> QED
    BY <1>4, <1>5, <1>6, FS_CardinalityType

\* Where nobody has more, all together have no more.
LEMMA CountIsMonotone ==
    ASSUME NEW k \in Count, NEW n \in Count, \A m \in Member : k[m] <= n[m]
    PROVE  CountAll(k) <= CountAll(n)
  <1>1. ASSUME NEW m \in Member PROVE Block(k, m) \subseteq Block(n, m)
    BY DEF Block, Count
  <1>2. Blocks(k, Member) \subseteq Blocks(n, Member)
    BY <1>1 DEF Blocks
  <1> QED
    BY <1>2, BlocksFinite, FS_Subset

\* What some members have and what the others have fit into what all have.
LEMMA CountIsAdditive ==
    ASSUME NEW k \in Count, NEW l \in Count, NEW n \in Count,
           \A m \in Member : k[m] + l[m] <= n[m] /\ (k[m] = 0 \/ l[m] = 0)
    PROVE  CountAll(k) + CountAll(l) <= CountAll(n)
  <1>1. \A m \in Member : k[m] \in Nat /\ l[m] \in Nat /\ n[m] \in Nat
    BY DEF Count
  <1>2. ASSUME NEW m \in Member
        PROVE  /\ Block(k, m) \subseteq Block(n, m) /\ Block(l, m) \subseteq Block(n, m)
               /\ Block(k, m) = {} \/ Block(l, m) = {}
    BY <1>1 DEF Block
  <1>3. Blocks(k, Member) \cup Blocks(l, Member) \subseteq Blocks(n, Member)
    BY <1>2 DEF Blocks
  <1>4. \A x \in Member, y \in Member : x # y => Block(k, x) \cap Block(l, y) = {}
    BY DEF Block
  <1>5. Blocks(k, Member) \cap Blocks(l, Member) = {}
    BY <1>2, <1>4 DEF Blocks
  <1>6. Cardinality(Blocks(k, Member) \cap Blocks(l, Member)) = 0
    BY <1>5, FS_EmptySet
  <1> DEFINE K == Blocks(k, Member)
             L == Blocks(l, Member)
  <1>7. /\ IsFiniteSet(K) /\ CountAll(k) = Cardinality(K) /\ CountAll(k) \in Nat
        /\ IsFiniteSet(L) /\ CountAll(l) = Cardinality(L) /\ CountAll(l) \in Nat
    BY BlocksFinite
  <1>8. Cardinality(K \cup L) = Cardinality(K) + Cardinality(L) - Cardinality(K \cap L)
    BY <1>7, FS_Union
  <1> QED
    BY <1>3, <1>6, <1>7, <1>8, BlocksFinite, FS_Subset

(***************************************************************************)
(* Capacity.                                                               *)
(***************************************************************************)

OwnerFinite(o) ==
    /\ IsFiniteSet(o.offers) /\ IsFiniteSet(o.previews)
    /\ IsFiniteSet(o.exceptions) /\ IsFiniteSet(o.disclosures)

OwnersFinite(r) == \A m \in Member : OwnerFinite(r.owner[m])

\* what an owner was and may still be asked and told, together
Account(r) == [m \in Member |-> Asked(r.owner[m]) + Told(r.owner[m], r.context)]

\* What is counted of an owner are numbers.
LEMMA OwnerCounts ==
    ASSUME NEW o, OwnerFinite(o), NEW c
    PROVE  /\ Asked(o) \in Nat /\ Told(o, c) \in Nat
           /\ Cardinality(o.offers) \in Nat /\ Cardinality(o.previews) \in Nat
           /\ Cardinality(o.exceptions) \in Nat /\ Cardinality(o.disclosures) \in Nat
           /\ Cardinality(o.offers) > 0 <=> o.offers # {}
  <1>1. /\ Cardinality(o.offers) \in Nat /\ Cardinality(o.previews) \in Nat
        /\ Cardinality(o.exceptions) \in Nat /\ Cardinality(o.disclosures) \in Nat
    BY FS_CardinalityType DEF OwnerFinite
  <1>2. Cardinality(o.offers) = 0 <=> o.offers = {}
    BY FS_EmptySet DEF OwnerFinite
  <1> QED
    BY <1>1, <1>2 DEF Asked, Told

LEMMA AccountTyped ==
    ASSUME NEW r, OwnersFinite(r)
    PROVE  Account(r) \in Count
  BY OwnerCounts DEF OwnersFinite, Account, Count

\* Whoever was asked and told no more than before fits as before.
LEMMA CapacityShrinks ==
    ASSUME NEW r, NEW s, OwnersFinite(r), OwnersFinite(s), Capacity(r),
           r.retired \in Nat, s.retired = r.retired,
           \A m \in Member : /\ Asked(s.owner[m]) <= Asked(r.owner[m])
                             /\ Told(s.owner[m], s.context) <= Told(r.owner[m], r.context)
    PROVE  Capacity(s)
  <1>1. \A m \in Member :
           /\ Asked(s.owner[m]) \in Nat /\ Told(s.owner[m], s.context) \in Nat
           /\ Asked(r.owner[m]) \in Nat /\ Told(r.owner[m], r.context) \in Nat
    BY OwnerCounts DEF OwnersFinite
  <1>2. \A m \in Member : Account(s)[m] <= Account(r)[m]
    BY <1>1 DEF Account
  <1>3. Account(s) \in Count /\ Account(r) \in Count
    BY AccountTyped
  <1>4. CountAll(Account(s)) <= CountAll(Account(r))
    BY <1>2, <1>3, CountIsMonotone
  <1>5. CountAll(Account(s)) \in Nat /\ CountAll(Account(r)) \in Nat
    BY <1>3, BlocksFinite
  <1>6. GrantLimit \in Nat /\ HistoryLimit \in Nat
    BY RoomAssumption
  <1>7. \A m \in Member : Asked(s.owner[m]) <= GrantLimit /\ Told(s.owner[m], s.context) <= GrantLimit
    BY <1>1, <1>6 DEF Capacity
  <1>8. s.retired + CountAll(Account(s)) <= HistoryLimit
    BY <1>4, <1>5, <1>6 DEF Capacity, Account
  <1> QED
    BY <1>7, <1>8 DEF Capacity, Account

\* What canReservePermissionResponses counts for m, with k further offers.
Pending(r, m, k) == Cardinality(r.owner[m].offers) + k
Responses(r, m, k) ==
    Cardinality(r.owner[m].previews) + ProspectivePreview(r, m, Pending(r, m, k))

LEMMA ReserveIs ==
    ASSUME NEW r, NEW more
    PROVE  CanReserve(r, more) <=>
             /\ r.retired + CountAll([m \in Member |-> Records(r, m) + Pending(r, m, more[m])
                                                       + Responses(r, m, more[m])])
                  <= HistoryLimit
             /\ \A m \in Member :
                   /\ Cardinality(r.owner[m].exceptions) + Pending(r, m, more[m]) <= GrantLimit
                   /\ Cardinality(r.owner[m].disclosures) + Responses(r, m, more[m]) <= GrantLimit
  BY DEF CanReserve, Pending, Responses

LEMMA ResponsesAre ==
    ASSUME NEW r, OwnersFinite(r), NEW m \in Member, NEW k \in Nat
    PROVE  /\ Pending(r, m, k) \in Nat /\ Responses(r, m, k) \in Nat /\ Records(r, m) \in Nat
           /\ Responses(r, m, k) =
                Cardinality(r.owner[m].previews)
                + (IF Pending(r, m, k) > 0 /\ ~Settled(r.owner[m], r.context) THEN 1 ELSE 0)
  <1>1. OwnerFinite(r.owner[m])
    BY DEF OwnersFinite
  <1>2. DisclosureSettled(r, m) <=> Settled(r.owner[m], r.context)
    BY DEF DisclosureSettled, Settled
  <1> QED
    BY <1>1, <1>2, OwnerCounts DEF Pending, Responses, ProspectivePreview, Records

\* The account is what the repository checks of a room it reads.
LEMMA CapacityIsReserve ==
    ASSUME NEW r, OwnersFinite(r), Capacity(r)
    PROVE  CanReserve(r, Zero)
  <1>1. ASSUME NEW m \in Member
        PROVE  /\ Cardinality(r.owner[m].exceptions) + Pending(r, m, Zero[m]) = Asked(r.owner[m])
               /\ Cardinality(r.owner[m].disclosures) + Responses(r, m, Zero[m])
                    = Told(r.owner[m], r.context)
               /\ Records(r, m) + Pending(r, m, Zero[m]) + Responses(r, m, Zero[m])
                    = Asked(r.owner[m]) + Told(r.owner[m], r.context)
    <2>1. OwnerFinite(r.owner[m]) /\ Zero[m] = 0
      BY DEF OwnersFinite, Zero
    <2>2. Pending(r, m, 0) = Cardinality(r.owner[m].offers)
      BY <2>1, OwnerCounts DEF Pending
    <2>3. /\ Responses(r, m, 0) \in Nat /\ Records(r, m) \in Nat
          /\ Responses(r, m, 0) =
               Cardinality(r.owner[m].previews)
               + (IF Pending(r, m, 0) > 0 /\ ~Settled(r.owner[m], r.context) THEN 1 ELSE 0)
      BY ResponsesAre
    <2> QED
      BY <2>1, <2>2, <2>3, OwnerCounts DEF Asked, Told, Records
  <1>2. [m \in Member |-> Records(r, m) + Pending(r, m, Zero[m]) + Responses(r, m, Zero[m])]
          = [m \in Member |-> Asked(r.owner[m]) + Told(r.owner[m], r.context)]
    BY <1>1
  <1> QED
    BY <1>1, <1>2, ReserveIs DEF Capacity

\* Whoever is asked and told no more than was reserved fits.
LEMMA ReserveSuffices ==
    ASSUME NEW r, NEW s, NEW more \in Count, OwnersFinite(r), OwnersFinite(s),
           CanReserve(r, more), r.retired \in Nat, s.retired = r.retired,
           \A m \in Member :
              /\ Asked(s.owner[m]) <= Cardinality(r.owner[m].exceptions) + Pending(r, m, more[m])
              /\ Told(s.owner[m], s.context)
                   <= Cardinality(r.owner[m].disclosures) + Responses(r, m, more[m])
    PROVE  Capacity(s)
  <1> DEFINE n == [m \in Member |-> Records(r, m) + Pending(r, m, more[m]) + Responses(r, m, more[m])]
  <1>1. ASSUME NEW m \in Member
        PROVE  /\ Asked(s.owner[m]) \in Nat /\ Told(s.owner[m], s.context) \in Nat
               /\ Cardinality(r.owner[m].exceptions) \in Nat
               /\ Cardinality(r.owner[m].disclosures) \in Nat
               /\ Pending(r, m, more[m]) \in Nat /\ Responses(r, m, more[m]) \in Nat
               /\ Records(r, m) = Cardinality(r.owner[m].exceptions)
                                  + Cardinality(r.owner[m].disclosures)
    <2>1. OwnerFinite(s.owner[m]) /\ OwnerFinite(r.owner[m]) /\ more[m] \in Nat
      BY DEF OwnersFinite, Count
    <2> QED
      BY <2>1, OwnerCounts, ResponsesAre DEF Records
  <1>2. \A m \in Member : Account(s)[m] <= n[m] /\ n[m] \in Nat
    BY <1>1 DEF Account
  <1>3. Account(s) \in Count /\ n \in Count
    BY <1>2, AccountTyped DEF Count
  <1>4. r.retired + CountAll(n) <= HistoryLimit
    BY ReserveIs
  <1> HIDE DEF n
  <1>5. CountAll(Account(s)) <= CountAll(n) /\ CountAll(Account(s)) \in Nat /\ CountAll(n) \in Nat
    BY <1>2, <1>3, CountIsMonotone, BlocksFinite
  <1>6. GrantLimit \in Nat /\ HistoryLimit \in Nat
    BY RoomAssumption
  <1>7. s.retired + CountAll(Account(s)) <= HistoryLimit
    BY <1>4, <1>5, <1>6
  <1>8. \A m \in Member :
           /\ Cardinality(r.owner[m].exceptions) + Pending(r, m, more[m]) <= GrantLimit
           /\ Cardinality(r.owner[m].disclosures) + Responses(r, m, more[m]) <= GrantLimit
    BY ReserveIs
  <1>9. \A m \in Member : Asked(s.owner[m]) <= GrantLimit /\ Told(s.owner[m], s.context) <= GrantLimit
    BY <1>1, <1>6, <1>8
  <1> QED
    BY <1>7, <1>9 DEF Capacity, Account

(***************************************************************************)
(* What is done to the sets an owner keeps.                                *)
(***************************************************************************)

Ending == {"DECLINED", "REVOKED", "SUPERSEDED", "EXPIRED"}

\* what comes of a set S has the contexts S has
SameContexts(S, T) ==
    /\ \A x \in T : \E y \in S : x.context = y.context
    /\ \A y \in S : \E x \in T : x.context = y.context

\* one record at its end
End(g, E, status) ==
    IF g.status = "ACTIVE" /\ g \in E THEN [g EXCEPT !.status = status, !.left = 0] ELSE g

\* The later of two times is a time.
LEMMA LeftIsTime ==
    ASSUME NEW n \in Nat
    PROVE  Max({0, n - 1}) \in Nat
  <1>1. \E x \in {0, n - 1} : \A y \in {0, n - 1} : x >= y
    OBVIOUS
  <1>2. Max({0, n - 1}) \in {0, n - 1} /\ Max({0, n - 1}) >= 0
    BY <1>1 DEF Max
  <1> QED
    BY <1>2

LEMMA SoonerTyped ==
    /\ \A S \in SUBSET Offer : Sooner(S) \in SUBSET Offer
    /\ \A S \in SUBSET Preview : Sooner(S) \in SUBSET Preview
    /\ \A S \in SUBSET Exception : Sooner(S) \in SUBSET Exception
    /\ \A S \in SUBSET Disclosure : Sooner(S) \in SUBSET Disclosure
  <1>1. ASSUME NEW S \in SUBSET Offer PROVE Sooner(S) \in SUBSET Offer
    BY LeftIsTime DEF Offer, Sooner, Nearer
  <1>2. ASSUME NEW S \in SUBSET Preview PROVE Sooner(S) \in SUBSET Preview
    BY LeftIsTime DEF Preview, Sooner, Nearer
  <1>3. ASSUME NEW S \in SUBSET Exception PROVE Sooner(S) \in SUBSET Exception
    BY LeftIsTime DEF Exception, Sooner, Nearer
  <1>4. ASSUME NEW S \in SUBSET Disclosure PROVE Sooner(S) \in SUBSET Disclosure
    BY LeftIsTime DEF Disclosure, Sooner, Nearer
  <1> QED
    BY <1>1, <1>2, <1>3, <1>4

\* Time ends nothing by itself.
LEMMA SoonerKeeps ==
    ASSUME NEW S, IsFiniteSet(S)
    PROVE  /\ IsFiniteSet(Sooner(S)) /\ Cardinality(Sooner(S)) <= Cardinality(S)
           /\ Sooner(S) = {} <=> S = {}
  <1> DEFINE f == [x \in S |-> Nearer(x)]
  <1>1. Sooner(S) = {f[x] : x \in S}
    BY DEF Sooner
  <1>2. Sooner(S) = {} <=> S = {}
    BY <1>1
  <1>3. f = [x \in S |-> f[x]]
    OBVIOUS
  <1> HIDE DEF f
  <1> QED
    BY <1>1, <1>2, <1>3, ImageBound

LEMMA SoonerSame ==
    /\ \A S \in SUBSET Offer : SameContexts(S, Sooner(S))
    /\ \A S \in SUBSET Preview : SameContexts(S, Sooner(S))
    /\ \A S \in SUBSET Exception :
          /\ SameContexts(S, Sooner(S))
          /\ \A x \in Sooner(S) : \E y \in S : x.context = y.context /\ x.status = y.status
    /\ \A S \in SUBSET Disclosure :
          /\ SameContexts(S, Sooner(S))
          /\ \A x \in Sooner(S) : \E y \in S : x.context = y.context /\ x.published = y.published
  <1>1. ASSUME NEW S \in SUBSET Offer PROVE SameContexts(S, Sooner(S))
    <2>1. \A x \in S : Nearer(x).context = x.context
      BY DEF Offer, Nearer
    <2>2. Sooner(S) = {Nearer(x) : x \in S}
      BY DEF Sooner
    <2> QED
      BY <2>1, <2>2 DEF SameContexts
  <1>2. ASSUME NEW S \in SUBSET Preview PROVE SameContexts(S, Sooner(S))
    <2>1. \A x \in S : Nearer(x).context = x.context
      BY DEF Preview, Nearer
    <2>2. Sooner(S) = {Nearer(x) : x \in S}
      BY DEF Sooner
    <2> QED
      BY <2>1, <2>2 DEF SameContexts
  <1>3. ASSUME NEW S \in SUBSET Exception
        PROVE  /\ SameContexts(S, Sooner(S))
               /\ \A x \in Sooner(S) : \E y \in S : x.context = y.context /\ x.status = y.status
    <2>1. \A x \in S : Nearer(x).context = x.context /\ Nearer(x).status = x.status
      BY DEF Exception, Nearer
    <2>2. Sooner(S) = {Nearer(x) : x \in S}
      BY DEF Sooner
    <2> QED
      BY <2>1, <2>2 DEF SameContexts
  <1>4. ASSUME NEW S \in SUBSET Disclosure
        PROVE  /\ SameContexts(S, Sooner(S))
               /\ \A x \in Sooner(S) : \E y \in S : x.context = y.context /\ x.published = y.published
    <2>1. \A x \in S : Nearer(x).context = x.context /\ Nearer(x).published = x.published
      BY DEF Disclosure, Nearer
    <2>2. Sooner(S) = {Nearer(x) : x \in S}
      BY DEF Sooner
    <2> QED
      BY <2>1, <2>2 DEF SameContexts
  <1> QED
    BY <1>1, <1>2, <1>3, <1>4

LEMMA EndedTyped ==
    ASSUME NEW E, NEW st \in Ending
    PROVE  /\ \A S \in SUBSET Exception : Ended(S, E, st) \in SUBSET Exception
           /\ \A S \in SUBSET Disclosure : Ended(S, E, st) \in SUBSET Disclosure
  <1>1. ASSUME NEW S \in SUBSET Exception PROVE Ended(S, E, st) \in SUBSET Exception
    <2>1. ASSUME NEW g \in S PROVE End(g, E, st) \in Exception
      <3>1. g \in Exception
        OBVIOUS
      <3>2. CASE g.status = "ACTIVE" /\ g \in E
        BY <3>1, <3>2 DEF Exception, End, Ending
      <3>3. CASE ~(g.status = "ACTIVE" /\ g \in E)
        BY <3>1, <3>3 DEF End
      <3> QED
        BY <3>2, <3>3
    <2>2. Ended(S, E, st) = {End(x, E, st) : x \in S}
      BY DEF Ended, End
    <2> QED
      BY <2>1, <2>2
  <1>2. ASSUME NEW S \in SUBSET Disclosure PROVE Ended(S, E, st) \in SUBSET Disclosure
    <2>1. ASSUME NEW g \in S PROVE End(g, E, st) \in Disclosure
      <3>1. g \in Disclosure
        OBVIOUS
      <3>2. CASE g.status = "ACTIVE" /\ g \in E
        BY <3>1, <3>2 DEF Disclosure, End, Ending
      <3>3. CASE ~(g.status = "ACTIVE" /\ g \in E)
        BY <3>1, <3>3 DEF End
      <3> QED
        BY <3>2, <3>3
    <2>2. Ended(S, E, st) = {End(x, E, st) : x \in S}
      BY DEF Ended, End
    <2> QED
      BY <2>1, <2>2
  <1> QED
    BY <1>1, <1>2

LEMMA EndedKeeps ==
    ASSUME NEW S, IsFiniteSet(S), NEW E, NEW st
    PROVE  IsFiniteSet(Ended(S, E, st)) /\ Cardinality(Ended(S, E, st)) <= Cardinality(S)
  <1> DEFINE f == [g \in S |-> IF g.status = "ACTIVE" /\ g \in E
                               THEN [g EXCEPT !.status = st, !.left = 0] ELSE g]
  <1>1. Ended(S, E, st) = {f[x] : x \in S}
    BY DEF Ended
  <1>2. f = [x \in S |-> f[x]]
    OBVIOUS
  <1> HIDE DEF f
  <1> QED
    BY <1>1, <1>2, ImageBound

LEMMA EndedSame ==
    ASSUME NEW E, NEW st
    PROVE  /\ \A S \in SUBSET Exception :
                 /\ SameContexts(S, Ended(S, E, st))
                 /\ (\A g \in E : g.status # "ACTIVE") => Ended(S, E, st) = S
           /\ \A S \in SUBSET Disclosure :
                 /\ SameContexts(S, Ended(S, E, st))
                 /\ \A x \in Ended(S, E, st) :
                       \E y \in S : x.context = y.context /\ x.published = y.published
  <1>1. ASSUME NEW S \in SUBSET Exception
        PROVE  /\ SameContexts(S, Ended(S, E, st))
               /\ (\A g \in E : g.status # "ACTIVE") => Ended(S, E, st) = S
    <2>1. \A x \in S : End(x, E, st).context = x.context /\ ((\A g \in E : g.status # "ACTIVE") => End(x, E, st) = x)
      BY DEF Exception, End
    <2>2. Ended(S, E, st) = {End(x, E, st) : x \in S}
      BY DEF Ended, End
    <2> QED
      BY <2>1, <2>2 DEF SameContexts
  <1>2. ASSUME NEW S \in SUBSET Disclosure
        PROVE  /\ SameContexts(S, Ended(S, E, st))
               /\ \A x \in Ended(S, E, st) :
                     \E y \in S : x.context = y.context /\ x.published = y.published
    <2>1. \A x \in S : End(x, E, st).context = x.context /\ End(x, E, st).published = x.published
      BY DEF Disclosure, End
    <2>2. Ended(S, E, st) = {End(x, E, st) : x \in S}
      BY DEF Ended, End
    <2> QED
      BY <2>1, <2>2 DEF SameContexts
  <1> QED
    BY <1>1, <1>2

(***************************************************************************)
(* What is done to an owner.                                               *)
(***************************************************************************)

\* o of a room of context c came to be p in a room of context d: the disclosure
\* an offer may lead to stays accounted for.
LEMMA ToldShrinks ==
    ASSUME NEW o, NEW p, OwnerFinite(o), OwnerFinite(p), NEW c, NEW d,
           Cardinality(p.disclosures) <= Cardinality(o.disclosures),
           Cardinality(p.previews) <= Cardinality(o.previews),
           p.offers # {} =>
             /\ d = c /\ o.offers # {}
             /\ (\E x \in o.disclosures : x.context = c) => \E x \in p.disclosures : x.context = c
    PROVE  Told(p, d) <= Told(o, c)
  <1>1. /\ Cardinality(o.previews) \in Nat /\ Cardinality(o.disclosures) \in Nat
        /\ Cardinality(p.previews) \in Nat /\ Cardinality(p.disclosures) \in Nat
    BY OwnerCounts
  <1>2. /\ Cardinality(o.previews) = 0 <=> o.previews = {}
        /\ Cardinality(p.previews) = 0 <=> p.previews = {}
    BY FS_EmptySet DEF OwnerFinite
  <1>3. CASE p.offers = {}
    BY <1>1, <1>3 DEF Told
  <1>4. CASE p.offers # {} /\ Settled(p, d)
    BY <1>1, <1>4 DEF Told
  <1>5. CASE p.offers # {} /\ ~Settled(p, d) /\ ~Settled(o, c)
    BY <1>1, <1>5 DEF Told
  <1>6. CASE p.offers # {} /\ ~Settled(p, d) /\ Settled(o, c)
    <2>1. p.previews = {} /\ o.previews # {}
      BY <1>6 DEF Settled
    <2> QED
      BY <1>1, <1>2, <1>6, <2>1 DEF Told
  <1> QED
    BY <1>3, <1>4, <1>5, <1>6

\* o of member m, in a room of context c, stays an owner as p and is asked and
\* told no more
Follows(o, p, m, c, used, published) ==
    /\ p \in OwnerRecord
    /\ OwnerInv(p, m, c, used, published)
    /\ Asked(p) <= Asked(o)
    /\ Told(p, c) <= Told(o, c)

LEMMA OwnerInvFinite ==
    ASSUME NEW o, NEW m, NEW c, NEW used, NEW published, OwnerInv(o, m, c, used, published)
    PROVE  OwnerFinite(o)
  BY DEF OwnerInv, OwnerFinite

LapsedOwner(o) ==
    [o EXCEPT !.offers = {x \in @ : ~Lapsed(x)}, !.previews = {x \in @ : ~Lapsed(x)},
              !.exceptions = Ended(@, {g \in @ : Lapsed(g)}, "EXPIRED"),
              !.disclosures = Ended(@, {g \in @ : Lapsed(g)}, "EXPIRED")]

RetiredOwner(o) ==
    [o EXCEPT !.accepted = 0, !.offers = {}, !.previews = {},
              !.exceptions = Ended(@, @, "SUPERSEDED"), !.disclosures = Ended(@, @, "SUPERSEDED")]

LaterOwner(o) ==
    [o EXCEPT !.offers = Sooner(@), !.previews = Sooner(@),
              !.exceptions = Sooner(@), !.disclosures = Sooner(@)]

\* What has lapsed is dropped or expires.
LEMMA LapsedFollows ==
    ASSUME NEW m \in Member, NEW c \in Nat, NEW used, NEW published, NEW o \in OwnerRecord,
           OwnerInv(o, m, c, used, published)
    PROVE  /\ Follows(o, LapsedOwner(o), m, c, used, published)
           /\ LapsedOwner(o).approval = o.approval
           /\ LapsedOwner(o).offers \subseteq o.offers
           /\ (\A g \in o.exceptions : ~(g.status = "ACTIVE" /\ Lapsed(g)))
                => LapsedOwner(o).exceptions = o.exceptions
           /\ LapsedOwner(o).confirmed = o.confirmed /\ LapsedOwner(o).accepted = o.accepted
  <1> DEFINE p == LapsedOwner(o)
             E == {g \in o.exceptions : Lapsed(g)}
             D == {g \in o.disclosures : Lapsed(g)}
  <1>1. /\ o.offers \in SUBSET Offer /\ o.previews \in SUBSET Preview
        /\ o.exceptions \in SUBSET Exception /\ o.disclosures \in SUBSET Disclosure
    BY DEF OwnerRecord
  <1>2. /\ p.offers = {x \in o.offers : ~Lapsed(x)} /\ p.previews = {x \in o.previews : ~Lapsed(x)}
        /\ p.exceptions = Ended(o.exceptions, E, "EXPIRED")
        /\ p.disclosures = Ended(o.disclosures, D, "EXPIRED")
        /\ p.approval = o.approval /\ p.confirmed = o.confirmed /\ p.accepted = o.accepted
    BY DEF LapsedOwner, OwnerRecord
  <1>15. p = [o EXCEPT !.offers = p.offers, !.previews = p.previews,
                       !.exceptions = p.exceptions, !.disclosures = p.disclosures]
    BY DEF LapsedOwner, OwnerRecord
  <1> HIDE DEF p, E, D
  <1>3. p.exceptions \in SUBSET Exception /\ p.disclosures \in SUBSET Disclosure
    BY <1>1, <1>2, EndedTyped DEF Ending
  <1>5. /\ SameContexts(o.exceptions, p.exceptions) /\ SameContexts(o.disclosures, p.disclosures)
        /\ \A x \in p.disclosures :
              \E y \in o.disclosures : x.context = y.context /\ x.published = y.published
        /\ (\A g \in E : g.status # "ACTIVE") => p.exceptions = o.exceptions
    BY <1>1, <1>2, EndedSame
  <1>6. OwnerFinite(o)
    BY OwnerInvFinite
  <1>7. /\ IsFiniteSet(p.exceptions) /\ Cardinality(p.exceptions) <= Cardinality(o.exceptions)
        /\ IsFiniteSet(p.disclosures) /\ Cardinality(p.disclosures) <= Cardinality(o.disclosures)
    BY <1>2, <1>6, EndedKeeps DEF OwnerFinite
  <1>8. /\ IsFiniteSet(p.offers) /\ Cardinality(p.offers) <= Cardinality(o.offers)
        /\ IsFiniteSet(p.previews) /\ Cardinality(p.previews) <= Cardinality(o.previews)
        /\ p.offers \subseteq o.offers /\ p.previews \subseteq o.previews
    BY <1>2, <1>6, FS_Subset DEF OwnerFinite
  <1>4. p \in OwnerRecord
    BY <1>1, <1>3, <1>8, <1>15 DEF OwnerRecord
  <1>9. OwnerFinite(p)
    BY <1>7, <1>8 DEF OwnerFinite
  <1>10. OwnerInv(p, m, c, used, published)
    <2>1. \A g \in p.exceptions : g.context <= c /\ (g.context = c => used)
      BY <1>5 DEF OwnerInv, SameContexts
    <2>2. \A d \in p.disclosures : d.published => [owner |-> m, context |-> d.context] \in published
      BY <1>5 DEF OwnerInv
    <2> QED
      BY <1>7, <1>8, <2>1, <2>2 DEF OwnerInv
  <1>11. Told(p, c) <= Told(o, c)
    BY <1>5, <1>6, <1>7, <1>8, <1>9, ToldShrinks DEF SameContexts
  <1>12. Asked(p) <= Asked(o)
    BY <1>6, <1>7, <1>8, <1>9, OwnerCounts DEF Asked
  <1>13. (\A g \in o.exceptions : ~(g.status = "ACTIVE" /\ Lapsed(g)))
           => p.exceptions = o.exceptions
    BY <1>5 DEF E
  <1>14. Follows(o, p, m, c, used, published)
    BY <1>4, <1>10, <1>11, <1>12 DEF Follows
  <1> QED
    BY <1>2, <1>8, <1>13, <1>14 DEF p

\* o of member m, in a room of context c, enters the next context as p
Retires(o, p, m, c, published) ==
    /\ p \in OwnerRecord
    /\ OwnerInv(p, m, c + 1, FALSE, published)
    /\ Asked(p) <= Asked(o) /\ Told(p, c + 1) <= Told(o, c)
    /\ Cardinality(p.exceptions) <= Cardinality(o.exceptions)
    /\ Cardinality(p.disclosures) <= Cardinality(o.disclosures)
    /\ p.offers = {} /\ p.previews = {} /\ p.approval = o.approval
    /\ p.confirmed = o.confirmed /\ p.draft = o.draft
    /\ \A g \in p.exceptions : g.context <= c

\* A new context leaves an owner what was given before, ended.
LEMMA RetiredFollows ==
    ASSUME NEW m \in Member, NEW c \in Nat, NEW used, NEW published, NEW o \in OwnerRecord,
           OwnerInv(o, m, c, used, published)
    PROVE  Retires(o, RetiredOwner(o), m, c, published)
  <1> DEFINE p == RetiredOwner(o)
  <1>1. o.exceptions \in SUBSET Exception /\ o.disclosures \in SUBSET Disclosure
    BY DEF OwnerRecord
  <1>2. /\ p.offers = {} /\ p.previews = {}
        /\ p.exceptions = Ended(o.exceptions, o.exceptions, "SUPERSEDED")
        /\ p.disclosures = Ended(o.disclosures, o.disclosures, "SUPERSEDED")
        /\ p.approval = o.approval /\ p.confirmed = o.confirmed /\ p.draft = o.draft
    BY DEF RetiredOwner, OwnerRecord
  <1>3. p.exceptions \in SUBSET Exception /\ p.disclosures \in SUBSET Disclosure
    BY <1>1, <1>2, EndedTyped DEF Ending
  <1>4. p \in OwnerRecord
    BY <1>1, <1>2, <1>3 DEF RetiredOwner, OwnerRecord
  <1>5. /\ SameContexts(o.exceptions, p.exceptions)
        /\ \A x \in p.disclosures :
              \E y \in o.disclosures : x.context = y.context /\ x.published = y.published
    BY <1>1, <1>2, EndedSame
  <1>6. OwnerFinite(o)
    BY OwnerInvFinite
  <1>7. /\ IsFiniteSet(p.exceptions) /\ Cardinality(p.exceptions) <= Cardinality(o.exceptions)
        /\ IsFiniteSet(p.disclosures) /\ Cardinality(p.disclosures) <= Cardinality(o.disclosures)
    BY <1>2, <1>6, EndedKeeps DEF OwnerFinite
  <1>8. /\ IsFiniteSet(p.offers) /\ Cardinality(p.offers) = 0
        /\ IsFiniteSet(p.previews) /\ Cardinality(p.previews) = 0
    BY <1>2, FS_EmptySet
  <1> HIDE DEF p
  <1>9. OwnerFinite(p)
    BY <1>7, <1>8 DEF OwnerFinite
  <1>10. \A g \in p.exceptions : g.context <= c /\ g.context \in Nat
    BY <1>3, <1>5 DEF OwnerInv, SameContexts, Exception
  <1>11. OwnerInv(p, m, c + 1, FALSE, published)
    BY <1>2, <1>5, <1>7, <1>8, <1>10 DEF OwnerInv, SameContexts
  <1>12. Cardinality(p.previews) <= Cardinality(o.previews)
    BY <1>6, <1>8, OwnerCounts
  <1>13. Told(p, c + 1) <= Told(o, c)
    BY <1>2, <1>6, <1>7, <1>9, <1>12, ToldShrinks
  <1>14. Asked(p) <= Asked(o)
    BY <1>6, <1>7, <1>8, <1>9, OwnerCounts DEF Asked
  <1> QED
    BY <1>2, <1>4, <1>7, <1>10, <1>11, <1>13, <1>14 DEF p, Retires

\* Time passes: every term comes closer, and nothing else of an owner changes.
LEMMA LaterFollows ==
    ASSUME NEW m \in Member, NEW c \in Nat, NEW used, NEW published, NEW o \in OwnerRecord,
           OwnerInv(o, m, c, used, published)
    PROVE  LET p == LaterOwner(o) IN
           /\ Follows(o, p, m, c, used, published)
           /\ p.approval = o.approval /\ p.confirmed = o.confirmed
           /\ p.offers = {} <=> o.offers = {}
           /\ \A x \in p.exceptions :
                 \E y \in o.exceptions : x.context = y.context /\ x.status = y.status
  <1> DEFINE p == LaterOwner(o)
  <1>1. /\ o.offers \in SUBSET Offer /\ o.previews \in SUBSET Preview
        /\ o.exceptions \in SUBSET Exception /\ o.disclosures \in SUBSET Disclosure
    BY DEF OwnerRecord
  <1>2. /\ p.offers = Sooner(o.offers) /\ p.previews = Sooner(o.previews)
        /\ p.exceptions = Sooner(o.exceptions) /\ p.disclosures = Sooner(o.disclosures)
        /\ p.approval = o.approval /\ p.confirmed = o.confirmed
    BY DEF LaterOwner, OwnerRecord
  <1>3. p = [o EXCEPT !.offers = p.offers, !.previews = p.previews,
                      !.exceptions = p.exceptions, !.disclosures = p.disclosures]
    BY DEF LaterOwner, OwnerRecord
  <1> HIDE DEF p
  <1>4. /\ p.offers \in SUBSET Offer /\ p.previews \in SUBSET Preview
        /\ p.exceptions \in SUBSET Exception /\ p.disclosures \in SUBSET Disclosure
    BY <1>1, <1>2, SoonerTyped
  <1>5. p \in OwnerRecord
    BY <1>1, <1>3, <1>4 DEF OwnerRecord
  <1>6. /\ SameContexts(o.offers, p.offers) /\ SameContexts(o.previews, p.previews)
        /\ SameContexts(o.exceptions, p.exceptions) /\ SameContexts(o.disclosures, p.disclosures)
        /\ \A x \in p.exceptions :
              \E y \in o.exceptions : x.context = y.context /\ x.status = y.status
        /\ \A x \in p.disclosures :
              \E y \in o.disclosures : x.context = y.context /\ x.published = y.published
    BY <1>1, <1>2, SoonerSame
  <1>7. OwnerFinite(o)
    BY OwnerInvFinite
  <1>8. /\ IsFiniteSet(p.offers) /\ Cardinality(p.offers) <= Cardinality(o.offers)
        /\ IsFiniteSet(p.previews) /\ Cardinality(p.previews) <= Cardinality(o.previews)
        /\ IsFiniteSet(p.exceptions) /\ Cardinality(p.exceptions) <= Cardinality(o.exceptions)
        /\ IsFiniteSet(p.disclosures) /\ Cardinality(p.disclosures) <= Cardinality(o.disclosures)
        /\ p.offers = {} <=> o.offers = {}
    BY <1>2, <1>7, SoonerKeeps DEF OwnerFinite
  <1>9. OwnerFinite(p)
    BY <1>8 DEF OwnerFinite
  <1>10. OwnerInv(p, m, c, used, published)
    <2>1. (\A x \in p.offers : x.context = c) /\ (\A x \in p.previews : x.context = c)
      BY <1>6 DEF OwnerInv, SameContexts
    <2>2. \A g \in p.exceptions : g.context <= c /\ (g.context = c => used)
      BY <1>6 DEF OwnerInv, SameContexts
    <2>3. \A d \in p.disclosures : d.published => [owner |-> m, context |-> d.context] \in published
      BY <1>6 DEF OwnerInv
    <2>4. p.offers # {} => used
      BY <1>8 DEF OwnerInv
    <2> QED
      BY <1>8, <2>1, <2>2, <2>3, <2>4 DEF OwnerInv
  <1>11. (\E x \in o.disclosures : x.context = c) => \E x \in p.disclosures : x.context = c
    BY <1>6 DEF SameContexts
  <1>12. Told(p, c) <= Told(o, c)
    BY <1>7, <1>8, <1>9, <1>11, ToldShrinks
  <1>13. Asked(p) <= Asked(o)
    BY <1>7, <1>8, <1>9, OwnerCounts DEF Asked
  <1>14. Follows(o, p, m, c, used, published)
    BY <1>5, <1>10, <1>12, <1>13 DEF Follows
  <1> QED
    BY <1>2, <1>6, <1>8, <1>14 DEF p

(***************************************************************************)
(* Whole rooms.                                                            *)
(***************************************************************************)

\* s is r with other owners, and what it shows of a proposal may differ
SameRest(r, s) ==
    /\ s.schedule = r.schedule /\ s.policy = r.policy /\ s.present = r.present
    /\ s.membership = r.membership /\ s.invitation = r.invitation /\ s.context = r.context
    /\ s.retired = r.retired /\ s.proposalVersion = r.proposalVersion
    /\ s.published = r.published /\ s.receipts = r.receipts

OwnersFollow(r, s) ==
    \A m \in Member :
        Follows(r.owner[m], s.owner[m], m, r.context, r.roundUsed, r.published)

LEMMA SoundFinite ==
    ASSUME NEW r, OwnersInv(r)
    PROVE  OwnersFinite(r)
  BY OwnerInvFinite DEF OwnersInv, OwnersFinite

\* A room whose owners follow those of a sound room has their capacity.
LEMMA FollowersFit ==
    ASSUME NEW r, NEW s, Sound(r), s.context = r.context, s.roundUsed = r.roundUsed,
           s.published = r.published, s.retired = r.retired, OwnersFollow(r, s)
    PROVE  OwnersInv(s) /\ Capacity(s)
  <1>1. OwnersInv(s)
    BY DEF OwnersInv, OwnersFollow, Follows
  <1>2. OwnersFinite(r) /\ OwnersFinite(s)
    BY <1>1, SoundFinite DEF Sound
  <1>3. r.retired \in Nat
    BY DEF Sound, RoomRecord
  <1> QED
    BY <1>1, <1>2, <1>3, CapacityShrinks DEF Sound, OwnersFollow, Follows

\* Whoever keeps the records, and the offers or none of them, follows.
LEMMA SameFollows ==
    ASSUME NEW m \in Member, NEW c \in Nat, NEW used, NEW published, NEW o \in OwnerRecord,
           OwnerInv(o, m, c, used, published),
           NEW p \in OwnerRecord, p.offers \in {o.offers, {}}, p.previews = o.previews,
           p.exceptions = o.exceptions, p.disclosures = o.disclosures
    PROVE  Follows(o, p, m, c, used, published)
  <1>1. OwnerFinite(o)
    BY OwnerInvFinite
  <1>2. OwnerFinite(p)
    BY <1>1, FS_EmptySet DEF OwnerFinite
  <1>3. OwnerInv(p, m, c, used, published)
    BY <1>2 DEF OwnerInv, OwnerFinite
  <1>4. Cardinality(p.offers) <= Cardinality(o.offers)
    BY <1>1, OwnerCounts, FS_EmptySet
  <1>5. Asked(p) <= Asked(o)
    BY <1>1, <1>2, <1>4, OwnerCounts DEF Asked
  <1>6. Told(p, c) <= Told(o, c)
    BY <1>1, <1>2, <1>4, OwnerCounts, ToldShrinks
  <1> QED
    BY <1>3, <1>5, <1>6 DEF Follows

\* An owner without offers, or with another approval, follows itself.
LEMMA OwnerFollows ==
    ASSUME NEW m \in Member, NEW c \in Nat, NEW used, NEW published, NEW o \in OwnerRecord,
           OwnerInv(o, m, c, used, published)
    PROVE  /\ Follows(o, o, m, c, used, published)
           /\ \A a \in Nat : Follows(o, [o EXCEPT !.approval = a], m, c, used, published)
           /\ Follows(o, [o EXCEPT !.offers = {}], m, c, used, published)
  <1>1. ASSUME NEW a \in Nat
        PROVE  LET p == [o EXCEPT !.approval = a] IN
               /\ p \in OwnerRecord /\ p.offers = o.offers /\ p.previews = o.previews
               /\ p.exceptions = o.exceptions /\ p.disclosures = o.disclosures
    BY DEF OwnerRecord
  <1>2. LET p == [o EXCEPT !.offers = {}] IN
        /\ p \in OwnerRecord /\ p.offers = {} /\ p.previews = o.previews
        /\ p.exceptions = o.exceptions /\ p.disclosures = o.disclosures
    BY DEF OwnerRecord
  <1> QED
    BY <1>1, <1>2, SameFollows

\* A room that shows no proposal, with the owners of a sound one, is sound.
LEMMA HiddenIsSound ==
    ASSUME NEW r, NEW s, Sound(r), s \in RoomRecord, SameRest(r, s), OwnersFollow(r, s),
           s.roundUsed = r.roundUsed, s.status \in Hidden, s.proposal = None,
           \A m \in Member : s.owner[m].approval = 0,
           s.job # None => s.job.context = s.context /\ s.job.epoch = s.solveEpoch
    PROVE  Sound(s)
  <1>1. OwnersInv(s) /\ Capacity(s)
    BY FollowersFit DEF SameRest
  <1>2. StatusInv(s)
    BY DEF StatusInv, Hidden, Shown
  <1>3. ProposalInv(s) /\ RestInv(s)
    BY DEF ProposalInv, RestInv, Sound, SameRest
  <1> QED
    BY <1>1, <1>2, <1>3 DEF Sound

LEMMA ClearIs ==
    ASSUME NEW r \in RoomRecord, NEW st \in Hidden
    PROVE  LET s == ClearProposal(r, st) IN
           /\ s \in RoomRecord /\ SameRest(r, s)
           /\ s.status = st /\ s.proposal = None
           /\ s.roundUsed = r.roundUsed /\ s.solveEpoch = r.solveEpoch /\ s.job = r.job
           /\ \A m \in Member : s.owner[m] = [r.owner[m] EXCEPT !.approval = 0]
  <1> DEFINE f == [m \in Member |-> [r.owner[m] EXCEPT !.approval = 0]]
             s == ClearProposal(r, st)
  <1>1. s = [r EXCEPT !.owner = f, !.proposal = None, !.required = {}, !.status = st]
    BY DEF ClearProposal, EveryOwner
  <1>2. f \in [Member -> OwnerRecord]
    BY DEF RoomRecord, OwnerRecord
  <1> HIDE DEF s, f
  <1>3. s \in RoomRecord /\ s.owner = f
    BY <1>1, <1>2 DEF RoomRecord
  <1>4. SameRest(r, s)
    BY <1>1 DEF RoomRecord, SameRest
  <1>5. /\ s.status = st /\ s.proposal = None
        /\ s.roundUsed = r.roundUsed /\ s.solveEpoch = r.solveEpoch /\ s.job = r.job
    BY <1>1 DEF RoomRecord
  <1>6. \A m \in Member : s.owner[m] = [r.owner[m] EXCEPT !.approval = 0]
    BY <1>3 DEF f
  <1> QED
    BY <1>3, <1>4, <1>5, <1>6 DEF s

\* the same round, with the same permissions and the same job
SameRound(r, s) ==
    /\ SameRest(r, s)
    /\ s.roundUsed = r.roundUsed
    /\ \A m \in Member :
          /\ s.owner[m].exceptions = r.owner[m].exceptions
          /\ s.owner[m].offers = r.owner[m].offers

LEMMA SameRoundOver ==
    ASSUME NEW r, NEW s, SameRound(r, s)
    PROVE  (RoundOver(s) <=> RoundOver(r)) /\ Offers(s) = Offers(r)
  BY DEF SameRound, SameRest, RoundOver, Offers

\* clearProposal() leaves the round and the job alone.
LEMMA ClearKeeps ==
    ASSUME NEW r, Sound(r), NEW st \in Hidden
    PROVE  LET s == ClearProposal(r, st) IN
           /\ Sound(s) /\ SameRound(r, s) /\ OwnersFollow(r, s)
           /\ s.status = st /\ s.proposal = None /\ s.job = r.job /\ s.solveEpoch = r.solveEpoch
           /\ \A m \in Member : s.owner[m].approval = 0
           /\ RoundInv(r) => RoundInv(s)
  <1> DEFINE s == ClearProposal(r, st)
  <1>1. /\ s \in RoomRecord /\ SameRest(r, s)
        /\ s.status = st /\ s.proposal = None
        /\ s.roundUsed = r.roundUsed /\ s.solveEpoch = r.solveEpoch /\ s.job = r.job
        /\ \A m \in Member : s.owner[m] = [r.owner[m] EXCEPT !.approval = 0]
    BY ClearIs DEF Sound
  <1> HIDE DEF s
  <1>2. \A m \in Member : r.owner[m] \in OwnerRecord
    BY DEF Sound, RoomRecord
  <1>3. ASSUME NEW m \in Member
        PROVE  Follows(r.owner[m], s.owner[m], m, r.context, r.roundUsed, r.published)
    <2>1. OwnerInv(r.owner[m], m, r.context, r.roundUsed, r.published) /\ r.context \in Nat
      BY DEF Sound, OwnersInv, RoomRecord
    <2>2. Follows(r.owner[m], [r.owner[m] EXCEPT !.approval = 0], m, r.context, r.roundUsed,
                  r.published)
      BY <1>2, <2>1, OwnerFollows
    <2>3. s.owner[m] = [r.owner[m] EXCEPT !.approval = 0]
      BY <1>1
    <2> QED
      BY <2>2, <2>3
  <1>4. \A m \in Member : /\ s.owner[m].approval = 0
                          /\ s.owner[m].exceptions = r.owner[m].exceptions
                          /\ s.owner[m].offers = r.owner[m].offers
    BY <1>1, <1>2 DEF OwnerRecord
  <1>5. SameRound(r, s) /\ OwnersFollow(r, s)
    BY <1>1, <1>3, <1>4 DEF SameRound, OwnersFollow
  <1>6. s.job # None => s.job.context = s.context /\ s.job.epoch = s.solveEpoch
    BY <1>1 DEF Sound, RestInv, SameRest
  <1>7. Sound(s)
    BY <1>1, <1>4, <1>5, <1>6, HiddenIsSound
  <1>8. RoundInv(r) => RoundInv(s)
    BY <1>1, <1>5, SameRoundOver DEF RoundInv
  <1> QED
    BY <1>1, <1>4, <1>5, <1>7, <1>8 DEF s

\* the same context, schedule and history
SameContext(r, s) ==
    /\ s.context = r.context /\ s.schedule = r.schedule /\ s.roundUsed = r.roundUsed
    /\ s.present = r.present

\* Whoever stops a round leaves nothing of it.
LEMMA StopKeeps ==
    ASSUME NEW r, Sound(r), NEW st \in Hidden
    PROVE  LET s == StopSolving(r, st) IN
           RoomInv(s) /\ SameContext(r, s) /\ s.status = st /\ s.job = None /\ s.proposal = None
  <1> DEFINE c == ClearProposal(r, st)
             s == StopSolving(r, st)
             f == [m \in Member |-> [c.owner[m] EXCEPT !.offers = {}]]
  <1>1. /\ Sound(c) /\ SameRound(r, c) /\ c.status = st /\ c.proposal = None
        /\ \A m \in Member : c.owner[m].approval = 0
    BY ClearKeeps
  <1>2. s = [c EXCEPT !.owner = f, !.solveEpoch = @ + 1, !.job = None]
    <2>1. WithoutOffers([c EXCEPT !.solveEpoch = @ + 1, !.job = None])
            = [c EXCEPT !.owner = f, !.solveEpoch = @ + 1, !.job = None]
      <3> HIDE DEF c
      <3> QED
        BY <1>1 DEF WithoutOffers, EveryOwner, Sound, RoomRecord
    <2> QED
      BY <2>1 DEF StopSolving
  <1> HIDE DEF c
  <1>3. c \in RoomRecord /\ \A m \in Member : c.owner[m] \in OwnerRecord
    BY <1>1 DEF Sound, RoomRecord
  <1>4. f \in [Member -> OwnerRecord]
    BY <1>3 DEF OwnerRecord
  <1> HIDE DEF s, f
  <1>5. s \in RoomRecord /\ s.owner = f /\ s.job = None
    <2>1. c.solveEpoch + 1 \in Nat
      BY <1>3 DEF RoomRecord
    <2>2. s = [c EXCEPT !.owner = f, !.solveEpoch = c.solveEpoch + 1, !.job = None]
      BY <1>2
    <2> QED
      BY <1>3, <1>4, <2>1, <2>2 DEF RoomRecord
  <1>6. SameRest(c, s) /\ s.roundUsed = c.roundUsed /\ s.status = st /\ s.proposal = None
    <2>1. c.status = st /\ c.proposal = None
      BY <1>1
    <2> QED
      BY <1>2, <1>3, <2>1 DEF RoomRecord, SameRest
  <1>7. \A m \in Member : s.owner[m] = [c.owner[m] EXCEPT !.offers = {}]
    BY <1>5 DEF f
  <1>8. ASSUME NEW m \in Member
        PROVE  Follows(c.owner[m], s.owner[m], m, c.context, c.roundUsed, c.published)
    <2>1. OwnerInv(c.owner[m], m, c.context, c.roundUsed, c.published) /\ c.context \in Nat
      BY <1>1 DEF Sound, OwnersInv, RoomRecord
    <2>2. Follows(c.owner[m], [c.owner[m] EXCEPT !.offers = {}], m, c.context, c.roundUsed,
                  c.published)
      BY <1>3, <2>1, OwnerFollows
    <2> QED
      BY <1>7, <2>2
  <1>9. \A m \in Member : s.owner[m].approval = 0 /\ s.owner[m].offers = {}
    BY <1>1, <1>3, <1>7 DEF OwnerRecord
  <1>10. OwnersFollow(c, s)
    BY <1>8 DEF OwnersFollow
  <1>11. Sound(s)
    BY <1>1, <1>5, <1>6, <1>9, <1>10, HiddenIsSound
  <1>12. RoundInv(s)
    BY <1>5, <1>6, <1>9 DEF RoundInv, Offers
  <1>13. SameContext(r, s)
    BY <1>1, <1>6 DEF SameRound, SameRest, SameContext
  <1> QED
    BY <1>5, <1>6, <1>11, <1>12, <1>13 DEF s, RoomInv

\* everything of r but its owners
OwnersAside(r, s) ==
    /\ SameRest(r, s)
    /\ s.status = r.status /\ s.proposal = r.proposal /\ s.required = r.required
    /\ s.roundUsed = r.roundUsed /\ s.solveEpoch = r.solveEpoch /\ s.job = r.job

\* Owners that follow, and approve what they approved, make a sound room.
LEMMA OwnersKeep ==
    ASSUME NEW r, Sound(r), NEW f \in [Member -> OwnerRecord], NEW s, s = [r EXCEPT !.owner = f],
           \A m \in Member : /\ Follows(r.owner[m], f[m], m, r.context, r.roundUsed, r.published)
                             /\ f[m].approval = r.owner[m].approval
    PROVE  Sound(s) /\ OwnersAside(r, s) /\ s.owner = f
  <1>1. r \in RoomRecord
    BY DEF Sound
  <1>2. s \in RoomRecord /\ s.owner = f
    BY <1>1 DEF RoomRecord
  <1>3. OwnersAside(r, s)
    BY <1>1 DEF RoomRecord, OwnersAside, SameRest
  <1>4. OwnersFollow(r, s)
    BY <1>2 DEF OwnersFollow
  <1>5. OwnersInv(s) /\ Capacity(s)
    BY <1>3, <1>4, FollowersFit DEF OwnersAside, SameRest
  <1>6. \A m \in Member : s.owner[m].approval = r.owner[m].approval
    BY <1>2
  <1>7. StatusInv(s)
    BY <1>3, <1>6 DEF Sound, StatusInv, OwnersAside, Unanimous
  <1>8. ProposalInv(s) /\ RestInv(s)
    BY <1>3 DEF Sound, ProposalInv, RestInv, OwnersAside, SameRest
  <1> QED
    BY <1>2, <1>3, <1>5, <1>7, <1>8 DEF Sound

LEMMA WithoutLapsedKeeps ==
    ASSUME NEW r, Sound(r)
    PROVE  LET s == WithoutLapsed(r) IN
           /\ Sound(s) /\ OwnersAside(r, s)
           /\ (RoundInv(r) /\ ~FeasibilityLapsed(r)) => RoundInv(s)
  <1> DEFINE s == WithoutLapsed(r)
             f == [m \in Member |-> LapsedOwner(r.owner[m])]
  <1>1. s = [r EXCEPT !.owner = f]
    BY DEF WithoutLapsed, EveryOwner, LapsedOwner
  <1>2. ASSUME NEW m \in Member
        PROVE  LET p == LapsedOwner(r.owner[m]) IN
               /\ Follows(r.owner[m], p, m, r.context, r.roundUsed, r.published)
               /\ p.approval = r.owner[m].approval
               /\ p.offers \subseteq r.owner[m].offers
               /\ (\A g \in r.owner[m].exceptions : ~(g.status = "ACTIVE" /\ Lapsed(g)))
                    => p.exceptions = r.owner[m].exceptions
    <2>1. r.owner[m] \in OwnerRecord /\ r.context \in Nat
      BY DEF Sound, RoomRecord
    <2>2. OwnerInv(r.owner[m], m, r.context, r.roundUsed, r.published)
      BY DEF Sound, OwnersInv
    <2> QED
      BY <2>1, <2>2, LapsedFollows
  <1>3. \A m \in Member : f[m] = LapsedOwner(r.owner[m])
    OBVIOUS
  <1>4. f \in [Member -> OwnerRecord]
    BY <1>2 DEF Follows
  <1> HIDE DEF s, f
  <1>5. Sound(s) /\ OwnersAside(r, s) /\ s.owner = f
    BY <1>1, <1>2, <1>3, <1>4, OwnersKeep
  <1>6. ASSUME RoundInv(r), ~FeasibilityLapsed(r) PROVE RoundInv(s)
    <2>1. \A m \in Member : s.owner[m].exceptions = r.owner[m].exceptions
      BY <1>2, <1>3, <1>5, <1>6 DEF FeasibilityLapsed
    <2>2. \A m \in Member : s.owner[m].offers \subseteq r.owner[m].offers
      BY <1>2, <1>3, <1>5
    <2>3. RoundOver(s) => RoundOver(r)
      BY <1>5, <2>1 DEF RoundOver, OwnersAside, SameRest
    <2>4. Offers(r) = {} => Offers(s) = {}
      BY <2>2 DEF Offers
    <2> QED
      BY <1>5, <1>6, <2>3, <2>4 DEF RoundInv, OwnersAside
  <1> QED
    BY <1>5, <1>6 DEF s

\* sweep() of a room that is not closed.
LEMMA SweepOpenKeeps ==
    ASSUME NEW r, RoomInv(r)
    PROVE  LET s == SweepOpen(r) IN
           /\ RoomInv(s) /\ SameContext(r, s)
           /\ s.status \in {r.status, "NO_AGREEMENT", "SUPERSEDED"}
           /\ r.proposal = None => s.proposal = None
  <1> DEFINE w == WithoutLapsed(r)
             kept == IF r.proposal # None /\ Lapsed(r.proposal)
                     THEN ClearProposal(w, "SUPERSEDED") ELSE w
  <1>1. /\ Sound(w) /\ OwnersAside(r, w)
        /\ ~FeasibilityLapsed(r) => RoundInv(w)
    BY WithoutLapsedKeeps DEF RoomInv
  <1> HIDE DEF w
  <1>2. /\ Sound(kept) /\ SameContext(r, kept)
        /\ ~FeasibilityLapsed(r) => RoundInv(kept)
        /\ kept.status \in {r.status, "SUPERSEDED"}
        /\ r.proposal = None => kept.proposal = None
    <2>1. CASE r.proposal # None /\ Lapsed(r.proposal)
      <3>1. "SUPERSEDED" \in Hidden
        BY DEF Hidden
      <3>2. LET c == ClearProposal(w, "SUPERSEDED") IN
            /\ Sound(c) /\ SameRound(w, c) /\ c.status = "SUPERSEDED"
            /\ c.proposal = None
            /\ RoundInv(w) => RoundInv(c)
        BY <1>1, <3>1, ClearKeeps
      <3>3. kept = ClearProposal(w, "SUPERSEDED")
        BY <2>1
      <3> HIDE DEF kept
      <3> QED
        BY <1>1, <2>1, <3>2, <3>3 DEF SameRound, OwnersAside, SameRest, SameContext
    <2>2. CASE ~(r.proposal # None /\ Lapsed(r.proposal))
      <3>1. kept = w
        BY <2>2
      <3> HIDE DEF kept
      <3> QED
        BY <1>1, <3>1 DEF OwnersAside, SameRest, SameContext
    <2> QED
      BY <2>1, <2>2
  <1>3. SweepOpen(r) = IF FeasibilityLapsed(r)
                       THEN StopSolving(kept, IF r.roundUsed THEN "NO_AGREEMENT" ELSE "SUPERSEDED")
                       ELSE kept
    BY DEF SweepOpen, w
  <1> HIDE DEF kept
  <1>4. CASE FeasibilityLapsed(r)
    <2> DEFINE st == IF r.roundUsed THEN "NO_AGREEMENT" ELSE "SUPERSEDED"
    <2>1. st \in Hidden /\ st \in {"NO_AGREEMENT", "SUPERSEDED"}
      BY DEF Hidden
    <2>2. SweepOpen(r) = StopSolving(kept, st)
      BY <1>3, <1>4
    <2> HIDE DEF st
    <2>3. LET s == StopSolving(kept, st) IN
          RoomInv(s) /\ SameContext(kept, s) /\ s.status = st /\ s.job = None /\ s.proposal = None
      BY <1>2, <2>1, StopKeeps
    <2> QED
      BY <1>2, <2>1, <2>2, <2>3 DEF SameContext
  <1>5. CASE ~FeasibilityLapsed(r)
    BY <1>2, <1>3, <1>5 DEF RoomInv
  <1> QED
    BY <1>4, <1>5

\* Another status that shows no proposal either.
LEMMA RestatusKeeps ==
    ASSUME NEW r, RoomInv(r), r.proposal = None, NEW st \in Hidden
    PROVE  LET s == [r EXCEPT !.status = st] IN
           RoomInv(s) /\ SameContext(r, s) /\ s.status = st /\ s.proposal = None
                      /\ s.owner = r.owner /\ s.job = r.job
  <1> DEFINE s == [r EXCEPT !.status = st]
  <1>1. r \in RoomRecord
    BY DEF RoomInv, Sound
  <1>2. s \in RoomRecord
    BY <1>1 DEF RoomRecord
  <1>3. /\ SameRest(r, s) /\ s.status = st /\ s.proposal = r.proposal /\ s.owner = r.owner
        /\ s.roundUsed = r.roundUsed /\ s.solveEpoch = r.solveEpoch /\ s.job = r.job
    BY <1>1 DEF RoomRecord, SameRest
  <1> HIDE DEF s
  <1>4. r.status \in Hidden
    BY <1>1 DEF RoomInv, Sound, StatusInv, RoomRecord
  <1>5. OwnersInv(s) /\ Capacity(s)
    BY <1>3 DEF RoomInv, Sound, OwnersInv, Capacity, SameRest
  <1>6. StatusInv(s)
    BY <1>3, <1>4 DEF RoomInv, Sound, StatusInv, Hidden, Shown
  <1>7. ProposalInv(s) /\ RestInv(s)
    BY <1>3 DEF RoomInv, Sound, ProposalInv, RestInv, SameRest
  <1>8. RoundInv(s)
    BY <1>3 DEF RoomInv, RoundInv, RoundOver, Offers, SameRest
  <1>9. SameContext(r, s)
    BY <1>3 DEF SameContext, SameRest
  <1> QED
    BY <1>2, <1>3, <1>5, <1>6, <1>7, <1>8, <1>9 DEF s, RoomInv, Sound

\* sweep(), which leaves a closed room closed.
LEMMA SweepKeeps ==
    ASSUME NEW r, RoomInv(r)
    PROVE  /\ RoomInv(Sweep(r)) /\ SameContext(r, Sweep(r))
           /\ r.status = "CLOSED" => Sweep(r).status = "CLOSED"
  <1>1. /\ RoomInv(SweepOpen(r)) /\ SameContext(r, SweepOpen(r))
        /\ r.proposal = None => SweepOpen(r).proposal = None
    BY SweepOpenKeeps
  <1>2. CASE r.status = "CLOSED"
    <2>1. r.proposal = None /\ "CLOSED" \in Hidden
      BY <1>2 DEF RoomInv, Sound, StatusInv, Shown, Hidden
    <2> DEFINE o == SweepOpen(r)
               s == [o EXCEPT !.status = "CLOSED"]
    <2>2. RoomInv(o) /\ o.proposal = None /\ SameContext(r, o)
      BY <1>1, <2>1
    <2>3. Sweep(r) = s
      BY <1>2 DEF Sweep
    <2> HIDE DEF o
    <2>4. RoomInv(s) /\ SameContext(o, s) /\ s.status = "CLOSED"
      BY <2>1, <2>2, RestatusKeeps
    <2> QED
      BY <2>2, <2>3, <2>4 DEF SameContext
  <1>3. CASE r.status # "CLOSED"
    BY <1>1, <1>3 DEF Sweep
  <1> QED
    BY <1>2, <1>3

\* READY or COLLECTING, as the members are.
LEMMA CollectingKeeps ==
    ASSUME NEW r, RoomInv(r), r.proposal = None
    PROVE  RoomInv(CollectingStatus(r)) /\ SameContext(r, CollectingStatus(r))
  <1> DEFINE st == IF Ready(r) THEN "READY" ELSE "COLLECTING"
  <1>1. st \in Hidden
    BY DEF Hidden
  <1>2. CollectingStatus(r) = [r EXCEPT !.status = st]
    BY DEF CollectingStatus
  <1> HIDE DEF st
  <1> QED
    BY <1>1, <1>2, RestatusKeeps

\* What somebody who looks at the room sees.
LEMMA SeenKeeps ==
    ASSUME NEW r, RoomInv(r)
    PROVE  RoomInv(Seen(r)) /\ SameContext(r, Seen(r))
  <1> DEFINE w == Sweep(r)
  <1>1. RoomInv(w) /\ SameContext(r, w)
    BY SweepKeeps
  <1> HIDE DEF w
  <1>2. CASE w.status = "COLLECTING"
    <2>1. w.proposal = None
      BY <1>1, <1>2 DEF RoomInv, Sound, StatusInv, Shown
    <2>2. RoomInv(CollectingStatus(w)) /\ SameContext(w, CollectingStatus(w))
      BY <1>1, <2>1, CollectingKeeps
    <2>3. Seen(r) = CollectingStatus(w)
      BY <1>2 DEF Seen, w
    <2> QED
      BY <1>1, <2>2, <2>3 DEF SameContext
  <1>3. CASE w.status # "COLLECTING"
    <2>1. Seen(r) = w
      BY <1>3 DEF Seen, w
    <2> QED
      BY <1>1, <2>1
  <1> QED
    BY <1>2, <1>3

\* A solver run is queued in a round nobody has ended.
LEMMA QueueKeeps ==
    ASSUME NEW r, Sound(r), ~RoundOver(r)
    PROVE  RoomInv(Queue(r)) /\ SameContext(r, Queue(r))
  <1> DEFINE c == ClearProposal(r, "SOLVING")
             job == [epoch |-> r.solveEpoch + 1, context |-> r.context, completed |-> FALSE]
             s == [c EXCEPT !.solveEpoch = r.solveEpoch + 1, !.job = job]
  <1>1. "SOLVING" \in Hidden
    BY DEF Hidden
  <1>2. /\ Sound(c) /\ SameRound(r, c) /\ OwnersFollow(r, c)
        /\ c.status = "SOLVING" /\ c.proposal = None /\ c.solveEpoch = r.solveEpoch
        /\ \A m \in Member : c.owner[m].approval = 0
    BY <1>1, ClearKeeps
  <1> HIDE DEF c
  <1>3. s = Queue(r)
    BY <1>2 DEF Queue, c, Sound, RoomRecord
  <1>4. c \in RoomRecord /\ r.solveEpoch + 1 \in Nat /\ r.context \in Nat
    BY <1>2 DEF Sound, RoomRecord
  <1>5. job \in [epoch : Nat, context : Nat, completed : BOOLEAN]
    BY <1>4
  <1>6. s \in RoomRecord
    BY <1>4, <1>5 DEF RoomRecord
  <1>7. /\ SameRest(c, s) /\ s.status = "SOLVING" /\ s.proposal = None /\ s.owner = c.owner
        /\ s.roundUsed = c.roundUsed /\ s.solveEpoch = r.solveEpoch + 1 /\ s.job = job
    <2>1. c.status = "SOLVING" /\ c.proposal = None
      BY <1>2
    <2> QED
      BY <1>4, <2>1 DEF RoomRecord, SameRest
  <1>8. s.context = r.context
    BY <1>2, <1>7 DEF SameRound, SameRest
  <1> HIDE DEF s
  <1>9. OwnersFollow(c, s)
    <2>1. \A m \in Member : c.owner[m] \in OwnerRecord /\ c.context \in Nat
      BY <1>4 DEF RoomRecord
    <2>2. \A m \in Member : OwnerInv(c.owner[m], m, c.context, c.roundUsed, c.published)
      BY <1>2 DEF Sound, OwnersInv
    <2> QED
      BY <1>7, <2>1, <2>2, OwnerFollows DEF OwnersFollow
  <1>10. s.job.context = s.context /\ s.job.epoch = s.solveEpoch
    BY <1>7, <1>8
  <1>11. \A m \in Member : s.owner[m].approval = 0
    BY <1>2, <1>7
  <1>12. Sound(s)
    BY <1>1, <1>2, <1>6, <1>7, <1>9, <1>10, <1>11, HiddenIsSound
  <1>13. RoundInv(s)
    <2>1. SameRound(r, s)
      BY <1>2, <1>7 DEF SameRound, SameRest
    <2> QED
      BY <2>1, SameRoundOver DEF RoundInv
  <1>14. SameContext(r, s)
    BY <1>2, <1>7 DEF SameRound, SameRest, SameContext
  <1> QED
    BY <1>3, <1>12, <1>13, <1>14 DEF RoomInv

\* A new context: what was given is ended, and nothing is asked or awaited.
LEMMA InvalidateKeeps ==
    ASSUME NEW r, Sound(r)
    PROVE  LET s == Invalidate(r) IN
           /\ RoomInv(s)
           /\ s.context = r.context + 1 /\ s.schedule = r.schedule /\ s.policy = r.policy
           /\ s.present = r.present /\ s.retired = r.retired /\ s.status = "SUPERSEDED"
           /\ s.membership = r.membership /\ s.invitation = r.invitation
           /\ s.proposalVersion = r.proposalVersion /\ s.published = r.published
           /\ s.receipts = r.receipts /\ s.roundUsed = FALSE
           /\ s.job = None /\ s.proposal = None
           /\ \A m \in Member :
                 /\ s.owner[m].approval = 0
                 /\ s.owner[m].offers = {} /\ s.owner[m].previews = {}
                 /\ Cardinality(s.owner[m].exceptions) <= Cardinality(r.owner[m].exceptions)
                 /\ Cardinality(s.owner[m].disclosures) <= Cardinality(r.owner[m].disclosures)
                 /\ \A g \in s.owner[m].exceptions : g.context < s.context
  <1> DEFINE c == ClearProposal(r, "SUPERSEDED")
             f == [m \in Member |-> RetiredOwner(c.owner[m])]
             s == [c EXCEPT !.owner = f, !.context = c.context + 1, !.roundUsed = FALSE,
                            !.solveEpoch = c.solveEpoch + 1, !.job = None]
  <1>1. "SUPERSEDED" \in Hidden
    BY DEF Hidden
  <1>2. /\ Sound(c) /\ SameRound(r, c)
        /\ c.status = "SUPERSEDED" /\ c.proposal = None
        /\ \A m \in Member : c.owner[m].approval = 0
    BY <1>1, ClearKeeps
  <1>3. /\ c \in RoomRecord /\ c.context \in Nat /\ c.solveEpoch \in Nat
        /\ \A m \in Member : c.owner[m] \in OwnerRecord
    BY <1>2 DEF Sound, RoomRecord
  <1>4. Invalidate(r) = s
    <2>1. [EveryOwner(c, RetiredOwner) EXCEPT !.context = @ + 1, !.roundUsed = FALSE,
                                              !.solveEpoch = @ + 1, !.job = None] = s
      <3> HIDE DEF c
      <3> QED
        BY <1>3 DEF EveryOwner, RoomRecord
    <2> QED
      BY <2>1 DEF Invalidate, RetiredOwner, EveryOwner
  <1> HIDE DEF c
  <1>5. ASSUME NEW m \in Member
        PROVE  Retires(c.owner[m], RetiredOwner(c.owner[m]), m, c.context, c.published)
    <2>1. OwnerInv(c.owner[m], m, c.context, c.roundUsed, c.published)
      BY <1>2 DEF Sound, OwnersInv
    <2> QED
      BY <1>3, <2>1, RetiredFollows
  <1>6. f \in [Member -> OwnerRecord] /\ \A m \in Member : f[m] = RetiredOwner(c.owner[m])
    BY <1>5 DEF Retires
  <1> HIDE DEF f
  <1>7. c.context + 1 \in Nat /\ c.solveEpoch + 1 \in Nat
    BY <1>3
  <1>8. s \in RoomRecord /\ s.owner = f
    BY <1>3, <1>6, <1>7 DEF RoomRecord
  <1>9. /\ s.context = c.context + 1 /\ s.schedule = c.schedule /\ s.policy = c.policy
        /\ s.present = c.present /\ s.retired = c.retired /\ s.status = c.status
        /\ s.membership = c.membership /\ s.invitation = c.invitation
        /\ s.proposalVersion = c.proposalVersion /\ s.published = c.published
        /\ s.receipts = c.receipts /\ s.roundUsed = FALSE
        /\ s.job = None /\ s.proposal = c.proposal
    BY <1>3 DEF RoomRecord
  <1> HIDE DEF s
  <1>10. OwnersInv(s)
    BY <1>5, <1>6, <1>8, <1>9 DEF OwnersInv, Retires
  <1>11. Capacity(s)
    <2>1. OwnersFinite(c) /\ OwnersFinite(s) /\ c.retired \in Nat
      BY <1>2, <1>10, SoundFinite DEF Sound, RoomRecord
    <2>2. \A m \in Member : /\ Asked(s.owner[m]) <= Asked(c.owner[m])
                            /\ Told(s.owner[m], s.context) <= Told(c.owner[m], c.context)
      BY <1>5, <1>6, <1>8, <1>9 DEF Retires
    <2> QED
      BY <1>2, <1>9, <2>1, <2>2, CapacityShrinks DEF Sound
  <1>12. \A m \in Member : s.owner[m].approval = 0 /\ s.owner[m].offers = {}
    BY <1>2, <1>5, <1>6, <1>8 DEF Retires
  <1>13. StatusInv(s) /\ ProposalInv(s)
    BY <1>2, <1>9, <1>12 DEF StatusInv, ProposalInv, Shown
  <1>14. RestInv(s)
    BY <1>2, <1>9 DEF Sound, RestInv
  <1>15. RoundInv(s)
    BY <1>2, <1>9, <1>12 DEF RoundInv, Offers
  <1>16. \A m \in Member :
            /\ c.owner[m].exceptions = r.owner[m].exceptions
            /\ Cardinality(c.owner[m].disclosures) = Cardinality(r.owner[m].disclosures)
    <2>1. \A m \in Member : c.owner[m] = [r.owner[m] EXCEPT !.approval = 0]
      BY <1>1, ClearIs DEF c, Sound
    <2>2. \A m \in Member : r.owner[m] \in OwnerRecord
      BY DEF Sound, RoomRecord
    <2> QED
      BY <2>1, <2>2 DEF OwnerRecord
  <1>17. \A m \in Member :
            /\ s.owner[m].approval = 0
            /\ s.owner[m].offers = {} /\ s.owner[m].previews = {}
            /\ Cardinality(s.owner[m].exceptions) <= Cardinality(r.owner[m].exceptions)
            /\ Cardinality(s.owner[m].disclosures) <= Cardinality(r.owner[m].disclosures)
            /\ \A g \in s.owner[m].exceptions : g.context < s.context
    <2> SUFFICES ASSUME NEW m \in Member
        PROVE /\ s.owner[m].approval = 0
              /\ s.owner[m].offers = {} /\ s.owner[m].previews = {}
              /\ Cardinality(s.owner[m].exceptions) <= Cardinality(r.owner[m].exceptions)
              /\ Cardinality(s.owner[m].disclosures) <= Cardinality(r.owner[m].disclosures)
              /\ \A g \in s.owner[m].exceptions : g.context < s.context
      OBVIOUS
    <2>1. s.owner[m] = RetiredOwner(c.owner[m])
      BY <1>6, <1>8
    <2>2. \A g \in s.owner[m].exceptions : g.context \in Nat
      BY <1>8 DEF RoomRecord, OwnerRecord, Exception
    <2>3. /\ Cardinality(s.owner[m].exceptions) <= Cardinality(c.owner[m].exceptions)
          /\ Cardinality(s.owner[m].disclosures) <= Cardinality(c.owner[m].disclosures)
          /\ s.owner[m].previews = {}
          /\ \A g \in s.owner[m].exceptions : g.context <= c.context
      BY <1>5, <2>1 DEF Retires
    <2>4. \A g \in s.owner[m].exceptions : g.context < s.context
      BY <1>3, <1>9, <2>2, <2>3
    <2> QED
      BY <1>12, <1>16, <2>3, <2>4
  <1>18. RoomInv(s)
    BY <1>8, <1>10, <1>11, <1>13, <1>14, <1>15 DEF RoomInv, Sound
  <1>19. /\ s.context = r.context + 1 /\ s.schedule = r.schedule /\ s.policy = r.policy
         /\ s.present = r.present /\ s.retired = r.retired /\ s.status = "SUPERSEDED"
         /\ s.membership = r.membership /\ s.invitation = r.invitation
         /\ s.proposalVersion = r.proposalVersion /\ s.published = r.published
         /\ s.receipts = r.receipts /\ s.roundUsed = FALSE
         /\ s.job = None /\ s.proposal = None
    BY <1>2, <1>9 DEF SameRound, SameRest
  <1> QED
    BY <1>4, <1>17, <1>18, <1>19

\* Time passes.
LEMMA LaterKeeps ==
    ASSUME NEW r, RoomInv(r)
    PROVE  RoomInv(Later(r)) /\ SameContext(r, Later(r))
  <1> DEFINE f == [m \in Member |-> LaterOwner(r.owner[m])]
             proposal == IF r.proposal = None THEN None ELSE Nearer(r.proposal)
             invitation == [m \in Member |->
                 IF r.invitation[m] = None THEN None ELSE Nearer(r.invitation[m])]
             e == [r EXCEPT !.owner = f]
             s == [e EXCEPT !.proposal = proposal, !.invitation = invitation]
  <1>1. r \in RoomRecord /\ r.context \in Nat /\ \A m \in Member : r.owner[m] \in OwnerRecord
    BY DEF RoomInv, Sound, RoomRecord
  <1>3. ASSUME NEW m \in Member
        PROVE  LET p == LaterOwner(r.owner[m]) IN
               /\ Follows(r.owner[m], p, m, r.context, r.roundUsed, r.published)
               /\ p.approval = r.owner[m].approval
               /\ p.offers = {} <=> r.owner[m].offers = {}
               /\ \A x \in p.exceptions :
                     \E y \in r.owner[m].exceptions : x.context = y.context /\ x.status = y.status
    <2>1. OwnerInv(r.owner[m], m, r.context, r.roundUsed, r.published)
      BY DEF RoomInv, Sound, OwnersInv
    <2> QED
      BY <1>1, <2>1, LaterFollows
  <1>4. f \in [Member -> OwnerRecord] /\ \A m \in Member : f[m] = LaterOwner(r.owner[m])
    BY <1>3 DEF Follows
  <1> HIDE DEF f
  <1>5. Sound(e) /\ OwnersAside(r, e) /\ e.owner = f
    BY <1>3, <1>4, OwnersKeep DEF RoomInv
  <1> HIDE DEF e
  <1>6. /\ proposal \in {None} \cup Proposal
        /\ proposal = None <=> r.proposal = None
        /\ proposal # None => /\ proposal.context = r.proposal.context
                              /\ proposal.policy = r.proposal.policy
                              /\ proposal.version = r.proposal.version
                              /\ proposal.plan = r.proposal.plan
    <2>1. CASE r.proposal = None
      BY <2>1
    <2>2. CASE r.proposal # None
      <3>1. r.proposal \in Proposal /\ None \notin Proposal
        BY <1>1, <2>2, RoomAssumption DEF RoomRecord
      <3>2. Max({0, r.proposal.left - 1}) \in Nat
        BY <3>1, LeftIsTime DEF Proposal
      <3>3. proposal = [r.proposal EXCEPT !.left = Max({0, r.proposal.left - 1})]
        BY <2>2 DEF Nearer
      <3>4. proposal \in Proposal
        BY <3>1, <3>2, <3>3 DEF Proposal
      <3> QED
        BY <2>2, <3>1, <3>3, <3>4 DEF Proposal
    <2> QED
      BY <2>1, <2>2
  <1>7. /\ invitation \in [Member -> {None} \cup [left : Nat, redeemed : BOOLEAN]]
        /\ \A m \in Member :
              invitation[m] # None => /\ r.invitation[m] # None
                                      /\ invitation[m].redeemed = r.invitation[m].redeemed
    <2>1. ASSUME NEW m \in Member
          PROVE  /\ invitation[m] \in {None} \cup [left : Nat, redeemed : BOOLEAN]
                 /\ invitation[m] # None => /\ r.invitation[m] # None
                                            /\ invitation[m].redeemed = r.invitation[m].redeemed
      <3>1. CASE r.invitation[m] = None
        BY <3>1
      <3>2. CASE r.invitation[m] # None
        <4>1. r.invitation[m] \in [left : Nat, redeemed : BOOLEAN]
          BY <1>1, <3>2 DEF RoomRecord
        <4>2. Max({0, r.invitation[m].left - 1}) \in Nat
          BY <4>1, LeftIsTime
        <4>3. invitation[m] = [r.invitation[m] EXCEPT !.left = Max({0, r.invitation[m].left - 1})]
          BY <3>2 DEF Nearer
        <4> QED
          BY <3>2, <4>1, <4>2, <4>3
      <3> QED
        BY <3>1, <3>2
    <2> QED
      BY <2>1
  <1>8. e \in RoomRecord
    BY <1>5 DEF Sound
  <1>2. Later(r) = s
    <2>2. Later(r) = [e EXCEPT !.proposal = IF @ = None THEN None
                                            ELSE Nearer(@),
                               !.invitation = [m \in Member |->
                                  IF @[m] = None THEN None ELSE Nearer(@[m])]]
      BY DEF Later, EveryOwner, LaterOwner, e, f
    <2>3. e.proposal = r.proposal /\ e.invitation = r.invitation
      BY <1>5 DEF OwnersAside, SameRest
    <2> QED
      BY <1>8, <2>2, <2>3 DEF RoomRecord
  <1> HIDE DEF proposal, invitation
  <1>9. s \in RoomRecord
    BY <1>6, <1>7, <1>8 DEF RoomRecord
  <1>10. /\ s.proposal = proposal /\ s.invitation = invitation /\ s.owner = e.owner
         /\ s.schedule = e.schedule /\ s.policy = e.policy /\ s.present = e.present
         /\ s.membership = e.membership /\ s.context = e.context /\ s.status = e.status
         /\ s.retired = e.retired /\ s.proposalVersion = e.proposalVersion
         /\ s.published = e.published /\ s.receipts = e.receipts /\ s.roundUsed = e.roundUsed
         /\ s.solveEpoch = e.solveEpoch /\ s.job = e.job
    BY <1>8 DEF RoomRecord
  <1> HIDE DEF s
  <1>11. OwnersInv(s) /\ Capacity(s)
    BY <1>5, <1>10 DEF Sound, OwnersInv, Capacity
  <1>12. e.proposal = r.proposal /\ e.invitation = r.invitation
    BY <1>5 DEF OwnersAside, SameRest
  <1>13. Unanimous(e) /\ e.proposal # None => Unanimous(s)
    BY <1>6, <1>10, <1>12 DEF Unanimous
  <1>14. StatusInv(s)
    <2>1. s.status = "AGREED" => Unanimous(s)
      BY <1>5, <1>10, <1>13 DEF Sound, StatusInv, Shown
    <2> QED
      BY <1>5, <1>6, <1>10, <1>12, <2>1 DEF Sound, StatusInv
  <1>15. ProposalInv(s)
    BY <1>5, <1>6, <1>10, <1>12 DEF Sound, ProposalInv
  <1>16. RestInv(s)
    BY <1>5, <1>7, <1>10, <1>12 DEF Sound, RestInv
  <1>17. RoundInv(s)
    <2>1. ASSUME RoundOver(s) PROVE RoundOver(r)
      BY <1>3, <1>4, <1>5, <1>10, <2>1 DEF RoundOver, OwnersAside, SameRest
    <2>2. ASSUME Offers(r) = {} PROVE Offers(s) = {}
      <3>1. \A m \in Member : r.owner[m].offers = {}
        BY <2>2 DEF Offers
      <3>2. \A m \in Member : s.owner[m].offers = {}
        BY <1>3, <1>4, <1>5, <1>10, <3>1
      <3> QED
        BY <3>2 DEF Offers
    <2>3. s.job = r.job /\ (r.proposal = None => s.proposal = None)
      BY <1>5, <1>6, <1>10 DEF OwnersAside
    <2> QED
      BY <2>1, <2>2, <2>3 DEF RoomInv, RoundInv
  <1>18. SameContext(r, s)
    BY <1>5, <1>10 DEF OwnersAside, SameRest, SameContext
  <1> QED
    BY <1>2, <1>9, <1>11, <1>14, <1>15, <1>16, <1>17, <1>18 DEF RoomInv, Sound

\* One owner follows, and the others are as they were.
LEMMA OneOwnerKeeps ==
    ASSUME NEW r, Sound(r), NEW m \in Member, NEW p,
           Follows(r.owner[m], p, m, r.context, r.roundUsed, r.published),
           p.approval = r.owner[m].approval
    PROVE  LET s == [r EXCEPT !.owner[m] = p] IN
           /\ Sound(s) /\ OwnersAside(r, s)
           /\ s.owner = [r.owner EXCEPT ![m] = p]
           /\ s.owner[m] = p /\ \A n \in Member \ {m} : s.owner[n] = r.owner[n]
  <1> DEFINE f == [r.owner EXCEPT ![m] = p]
             s == [r EXCEPT !.owner[m] = p]
  <1>1. r \in RoomRecord /\ r.owner \in [Member -> OwnerRecord] /\ r.context \in Nat
    BY DEF Sound, RoomRecord
  <1>2. s = [r EXCEPT !.owner = f]
    BY <1>1 DEF RoomRecord
  <1>3. f \in [Member -> OwnerRecord] /\ f[m] = p /\ \A n \in Member \ {m} : f[n] = r.owner[n]
    BY <1>1 DEF Follows
  <1>4. ASSUME NEW n \in Member
        PROVE  /\ Follows(r.owner[n], f[n], n, r.context, r.roundUsed, r.published)
               /\ f[n].approval = r.owner[n].approval
    <2>1. CASE n = m
      BY <1>3, <2>1
    <2>2. CASE n # m
      <3>1. OwnerInv(r.owner[n], n, r.context, r.roundUsed, r.published)
        BY DEF Sound, OwnersInv
      <3> QED
        BY <1>1, <1>3, <2>2, <3>1, OwnerFollows
    <2> QED
      BY <2>1, <2>2
  <1> HIDE DEF f, s
  <1>5. Sound(s) /\ OwnersAside(r, s) /\ s.owner = f
    BY <1>2, <1>3, <1>4, OwnersKeep
  <1> QED
    BY <1>3, <1>5 DEF f, s

\* The round is as it was when nobody's permissions changed.
LEMMA SamePermissionsKeep ==
    ASSUME NEW r, RoomInv(r), NEW s, Sound(s), OwnersAside(r, s),
           \A m \in Member : /\ s.owner[m].exceptions = r.owner[m].exceptions
                             /\ s.owner[m].offers = r.owner[m].offers
    PROVE  RoomInv(s) /\ SameContext(r, s)
  <1>1. SameRound(r, s)
    BY DEF SameRound, OwnersAside, SameRest
  <1>2. RoundInv(s)
    BY <1>1, SameRoundOver DEF RoomInv, RoundInv, OwnersAside
  <1>3. SameContext(r, s)
    BY DEF OwnersAside, SameRest, SameContext
  <1> QED
    BY <1>2, <1>3 DEF RoomInv

(***************************************************************************)
(* What a solver run relies on.                                            *)
(***************************************************************************)

LEMMA RunKept ==
    ASSUME NEW r, NEW s, NEW x \in SolverRun, RunInv(r, x),
           r.context \in Nat, s.context \in Nat,
           SameContext(r, s) \/ s.context > r.context
    PROVE  RunInv(s, x)
  BY DEF RunInv, SameContext, SolverRun

\* What is left while the room changes and no run does.
LEMMA RunsKept ==
    ASSUME Inv, UNCHANGED run, RoomInv(room'),
           SameContext(room, room') \/ room'.context > room.context
    PROVE  Inv'
  <1>1. room.context \in Nat /\ room'.context \in Nat
    BY DEF Inv, RoomInv, Sound, RoomRecord
  <1>2. ASSUME NEW w \in Worker, run[w] # None PROVE RunInv(room', run[w])
    BY <1>1, <1>2, RunKept DEF Inv
  <1> QED
    BY <1>2 DEF Inv

(***************************************************************************)
(* The handlers.                                                           *)
(***************************************************************************)

LEMMA InvFacts ==
    ASSUME Inv, NEW m \in Member
    PROVE  /\ RoomInv(room) /\ Sound(room) /\ room \in RoomRecord /\ room.context \in Nat
           /\ room.owner[m] \in OwnerRecord
           /\ OwnerInv(room.owner[m], m, room.context, room.roundUsed, room.published)
  BY DEF Inv, RoomInv, Sound, OwnersInv, RoomRecord

LEMMA InvitationKeeps ==
    ASSUME Inv, NEW m \in Member, Invitation(m)
    PROVE  Inv'
  <1>1. room \in RoomRecord /\ RoomInv(room)
    BY InvFacts
  <1>2. InvitationTtl \in Nat
    BY RoomAssumption
  <1>3. ASSUME NEW i \in [Member -> {None} \cup [left : Nat, redeemed : BOOLEAN]],
               NEW k \in [Member -> {"PENDING", "ACTIVE"}],
               room' = [room EXCEPT !.membership = k, !.invitation = i],
               \A n \in Member : i[n] # None => (i[n].redeemed <=> k[n] = "ACTIVE")
        PROVE  RoomInv(room') /\ SameContext(room, room')
    <2> DEFINE s == [room EXCEPT !.membership = k, !.invitation = i]
    <2>1. s \in RoomRecord
      BY <1>1 DEF RoomRecord
    <2>2. /\ s.owner = room.owner /\ s.invitation = i /\ s.membership = k
          /\ s.schedule = room.schedule /\ s.policy = room.policy /\ s.present = room.present
          /\ s.context = room.context /\ s.status = room.status /\ s.retired = room.retired
          /\ s.proposal = room.proposal /\ s.proposalVersion = room.proposalVersion
          /\ s.published = room.published /\ s.receipts = room.receipts
          /\ s.roundUsed = room.roundUsed /\ s.solveEpoch = room.solveEpoch /\ s.job = room.job
      BY <1>1 DEF RoomRecord
    <2> HIDE DEF s
    <2>3. OwnersInv(s) /\ Capacity(s)
      BY <1>1, <2>2 DEF RoomInv, Sound, OwnersInv, Capacity
    <2>4. StatusInv(s) /\ ProposalInv(s)
      BY <1>1, <2>2 DEF RoomInv, Sound, StatusInv, ProposalInv, Unanimous
    <2>5. RestInv(s)
      BY <1>1, <1>3, <2>2 DEF RoomInv, Sound, RestInv
    <2>6. RoundInv(s)
      BY <1>1, <2>2 DEF RoomInv, RoundInv, RoundOver, Offers
    <2>7. SameContext(room, s)
      BY <2>2 DEF SameContext
    <2> QED
      BY <1>3, <2>1, <2>3, <2>4, <2>5, <2>6, <2>7 DEF s, RoomInv, Sound
  <1>4. CASE IssueRoomInvitation(m)
    <2> DEFINE i == [room.invitation EXCEPT ![m] = [left |-> InvitationTtl, redeemed |-> FALSE]]
               k == room.membership
    <2>1. i \in [Member -> {None} \cup [left : Nat, redeemed : BOOLEAN]]
      BY <1>1, <1>2 DEF RoomRecord
    <2>2. k \in [Member -> {"PENDING", "ACTIVE"}]
      BY <1>1 DEF RoomRecord
    <2>3. room' = [room EXCEPT !.membership = k, !.invitation = i]
      BY <1>1, <1>4 DEF IssueRoomInvitation, RoomRecord
    <2>4. \A n \in Member : i[n] # None => (i[n].redeemed <=> k[n] = "ACTIVE")
      BY <1>1, <1>4 DEF IssueRoomInvitation, Awaited, RoomRecord, RoomInv, Sound, RestInv
    <2> HIDE DEF i, k
    <2>5. RoomInv(room') /\ SameContext(room, room')
      BY <1>3, <2>1, <2>2, <2>3, <2>4
    <2> QED
      BY <1>4, <2>5, RunsKept DEF IssueRoomInvitation
  <1>5. CASE RedeemRoomInvitation(m)
    <2> DEFINE i == [room.invitation EXCEPT ![m] = [left |-> 0, redeemed |-> TRUE]]
               k == [room.membership EXCEPT ![m] = "ACTIVE"]
    <2>1. i \in [Member -> {None} \cup [left : Nat, redeemed : BOOLEAN]]
      BY <1>1 DEF RoomRecord
    <2>2. k \in [Member -> {"PENDING", "ACTIVE"}]
      BY <1>1 DEF RoomRecord
    <2>3. room' = [room EXCEPT !.membership = k, !.invitation = i]
      BY <1>1, <1>5 DEF RedeemRoomInvitation, RoomRecord
    <2>4. \A n \in Member : i[n] # None => (i[n].redeemed <=> k[n] = "ACTIVE")
      BY <1>1 DEF RoomRecord, RoomInv, Sound, RestInv
    <2> HIDE DEF i, k
    <2>5. RoomInv(room') /\ SameContext(room, room')
      BY <1>3, <2>1, <2>2, <2>3, <2>4
    <2> QED
      BY <1>5, <2>5, RunsKept DEF RedeemRoomInvitation
  <1> QED
    BY <1>4, <1>5 DEF Invitation

\* What a member keeps apart from permissions and the approval may change.
LEMMA InputsKeep ==
    ASSUME NEW r, RoomInv(r), NEW m \in Member, NEW p \in OwnerRecord,
           p.offers = r.owner[m].offers, p.previews = r.owner[m].previews,
           p.exceptions = r.owner[m].exceptions, p.disclosures = r.owner[m].disclosures,
           p.approval = r.owner[m].approval
    PROVE  LET s == [r EXCEPT !.owner[m] = p] IN
           RoomInv(s) /\ SameContext(r, s) /\ s.status = r.status /\ s.proposal = r.proposal
  <1> DEFINE s == [r EXCEPT !.owner[m] = p]
  <1>1. /\ Sound(r) /\ r.context \in Nat /\ r.owner[m] \in OwnerRecord
        /\ OwnerInv(r.owner[m], m, r.context, r.roundUsed, r.published)
    BY DEF RoomInv, Sound, OwnersInv, RoomRecord
  <1>2. Follows(r.owner[m], p, m, r.context, r.roundUsed, r.published)
    BY <1>1, SameFollows
  <1>3. /\ Sound(s) /\ OwnersAside(r, s)
        /\ s.owner[m] = p /\ \A n \in Member \ {m} : s.owner[n] = r.owner[n]
    BY <1>1, <1>2, OneOwnerKeeps
  <1> HIDE DEF s
  <1>4. \A n \in Member : /\ s.owner[n].exceptions = r.owner[n].exceptions
                          /\ s.owner[n].offers = r.owner[n].offers
    BY <1>3
  <1>5. RoomInv(s) /\ SameContext(r, s)
    BY <1>3, <1>4, SamePermissionsKeep
  <1> QED
    BY <1>3, <1>5 DEF s, OwnersAside

LEMMA InputsActionsKeep ==
    ASSUME Inv, NEW m \in Member, Inputs(m), UNCHANGED run
    PROVE  Inv'
  <1> DEFINE o == room.owner[m]
  <1>1. /\ RoomInv(room) /\ room \in RoomRecord /\ room.context \in Nat /\ o \in OwnerRecord
        /\ Sound(room) /\ OwnerInv(o, m, room.context, room.roundUsed, room.published)
    BY InvFacts
  <1>2. ASSUME NEW v \in DraftValues[m], SubmitInputDraft(m, v) PROVE Inv'
    <2> DEFINE p == [o EXCEPT !.draft = v]
    <2>1. v \in Values
      BY DEF Values
    <2>2. /\ p \in OwnerRecord /\ p.offers = o.offers /\ p.previews = o.previews
          /\ p.exceptions = o.exceptions /\ p.disclosures = o.disclosures
          /\ p.approval = o.approval
      BY <1>1, <2>1 DEF OwnerRecord
    <2>3. room' = [room EXCEPT !.owner[m] = p]
      BY <1>1, <1>2 DEF SubmitInputDraft, RoomRecord
    <2> HIDE DEF p
    <2>4. RoomInv(room') /\ SameContext(room, room')
      BY <1>1, <2>2, <2>3, InputsKeep
    <2> QED
      BY <2>4, RunsKept
  <1>3. CASE ConfirmInputs(m)
    <2> DEFINE r == Invalidate(room)
               q == r.owner[m]
               p == [q EXCEPT !.draft = None,
                              !.confirmed = [values |-> o.draft, context |-> r.context]]
               s == [r EXCEPT !.owner[m] = p]
    <2>1. RoomInv(r) /\ r.proposal = None /\ r.context = room.context + 1
      BY <1>1, InvalidateKeeps
    <2>2. o.draft # None /\ room' = CollectingStatus(
                 [r EXCEPT !.owner[m].draft = None,
                           !.owner[m].confirmed = [values |-> o.draft, context |-> r.context]])
      BY <1>3 DEF ConfirmInputs
    <2> HIDE DEF r
    <2>3. o.draft \in Values /\ r \in RoomRecord /\ q \in OwnerRecord /\ r.context \in Nat
      BY <1>1, <2>1, <2>2 DEF OwnerRecord, RoomInv, Sound, RoomRecord
    <2>4. /\ p \in OwnerRecord /\ p.offers = q.offers /\ p.previews = q.previews
          /\ p.exceptions = q.exceptions /\ p.disclosures = q.disclosures
          /\ p.approval = q.approval
      <3>1. [values |-> o.draft, context |-> r.context] \in [values : Values, context : Nat]
        BY <2>3
      <3> QED
        BY <2>3, <3>1 DEF OwnerRecord
    <2>5. s = [r EXCEPT !.owner[m].draft = None,
                        !.owner[m].confirmed = [values |-> o.draft, context |-> r.context]]
      BY <2>3 DEF RoomRecord
    <2>6. room' = CollectingStatus(s)
      BY <2>2, <2>5
    <2> HIDE DEF p
    <2>7. RoomInv(s) /\ SameContext(r, s) /\ s.proposal = None
      BY <2>1, <2>4, InputsKeep
    <2> HIDE DEF s
    <2>8. RoomInv(room') /\ SameContext(s, room')
      BY <2>6, <2>7, CollectingKeeps
    <2>9. room'.context > room.context
      BY <1>1, <2>1, <2>7, <2>8 DEF SameContext
    <2> QED
      BY <2>8, <2>9, RunsKept
  <1>4. CASE AcceptContext(m)
    <2> DEFINE c == [o.confirmed EXCEPT !.context = room.context]
               p == [o EXCEPT !.confirmed = c, !.accepted = room.context]
               s == [room EXCEPT !.owner[m] = p]
    <2>1. o.confirmed # None
      BY <1>4 DEF AcceptContext
    <2>2. o.confirmed \in [values : Values, context : Nat]
      BY <1>1, <2>1 DEF OwnerRecord
    <2>3. c \in [values : Values, context : Nat]
      BY <1>1, <2>2
    <2> HIDE DEF c
    <2>4. /\ p \in OwnerRecord /\ p.offers = o.offers /\ p.previews = o.previews
          /\ p.exceptions = o.exceptions /\ p.disclosures = o.disclosures
          /\ p.approval = o.approval
      BY <1>1, <2>3 DEF OwnerRecord
    <2>5. s = [room EXCEPT !.owner[m].confirmed.context = room.context,
                           !.owner[m].accepted = room.context]
      BY <1>1 DEF RoomRecord, c, OwnerRecord
    <2>6. room' = IF room.status \in {"COLLECTING", "SUPERSEDED", "READY"}
                  THEN CollectingStatus(s) ELSE s
      BY <1>4, <2>5 DEF AcceptContext
    <2> HIDE DEF p
    <2>7. RoomInv(s) /\ SameContext(room, s) /\ s.status = room.status /\ s.proposal = room.proposal
      BY <1>1, <2>4, InputsKeep
    <2> HIDE DEF s
    <2>8. CASE room.status \in {"COLLECTING", "SUPERSEDED", "READY"}
      <3>1. room.status \notin Shown
        BY <2>8 DEF Shown
      <3>2. s.proposal = None
        BY <1>1, <2>7, <3>1 DEF Sound, StatusInv
      <3>3. RoomInv(room') /\ SameContext(s, room')
        BY <2>6, <2>7, <2>8, <3>2, CollectingKeeps
      <3>4. SameContext(room, room')
        BY <2>7, <3>3 DEF SameContext
      <3> QED
        BY <3>3, <3>4, RunsKept
    <2>9. CASE room.status \notin {"COLLECTING", "SUPERSEDED", "READY"}
      BY <2>6, <2>7, <2>9, RunsKept
    <2> QED
      BY <2>8, <2>9
  <1>5. CASE RequestSolve(m)
    <2>1. ~RoundOver(room)
      BY <1>1, <1>5 DEF RequestSolve, Sound, OwnersInv, OwnerInv, RoundOver
    <2>2. RoomInv(room') /\ SameContext(room, room')
      BY <1>1, <1>5, <2>1, QueueKeeps DEF RequestSolve
    <2> QED
      BY <2>2, RunsKept
  <1> QED
    BY <1>2, <1>3, <1>4, <1>5 DEF Inputs

\* An answer takes the place of the offer, and the preview it may add that of
\* the one that was owed.
LEMMA AnsweredFollows ==
    ASSUME NEW m \in Member, NEW c \in Nat, NEW used, NEW published, NEW o \in OwnerRecord,
           OwnerInv(o, m, c, used, published),
           NEW x \in o.offers, NEW g \in Exception, g.context = x.context,
           NEW q \in Preview, q.context = c,
           NEW seen \in {o.previews, {q}}, seen = o.previews \/ ~Settled(o, c),
           NEW p, p = [o EXCEPT !.offers = o.offers \ {x}, !.exceptions = o.exceptions \cup {g},
                                !.previews = seen]
    PROVE  Follows(o, p, m, c, used, published)
  <1>1. OwnerFinite(o)
    BY OwnerInvFinite
  <1>2. /\ p \in OwnerRecord /\ p.offers = o.offers \ {x} /\ p.exceptions = o.exceptions \cup {g}
        /\ p.previews = seen /\ p.disclosures = o.disclosures
    BY DEF OwnerRecord
  <1> DEFINE S == o.offers
             T == o.exceptions
  <1>3. /\ IsFiniteSet(p.offers) /\ Cardinality(p.offers) = Cardinality(S) - 1
    <2>1. IsFiniteSet(S) /\ x \in S
      BY <1>1 DEF OwnerFinite
    <2>2. IsFiniteSet(S \ {x}) /\ Cardinality(S \ {x}) = Cardinality(S) - 1
      <3> HIDE DEF S
      <3> QED
        BY <2>1, FS_RemoveElement
    <2> QED
      BY <1>2, <2>2
  <1>4. /\ IsFiniteSet(p.exceptions)
        /\ Cardinality(p.exceptions) <= Cardinality(T) + 1
    <2>1. IsFiniteSet(T)
      BY <1>1 DEF OwnerFinite
    <2>2. IsFiniteSet(T \cup {g}) /\ Cardinality(T \cup {g}) <= Cardinality(T) + 1
      <3> HIDE DEF T
      <3>1. Cardinality(T) \in Nat
        BY <2>1, FS_CardinalityType
      <3>2. /\ IsFiniteSet(T \cup {g})
            /\ Cardinality(T \cup {g}) = IF g \in T THEN Cardinality(T) ELSE Cardinality(T) + 1
        BY <2>1, FS_AddElement
      <3> QED
        BY <3>1, <3>2
    <2> QED
      BY <1>2, <2>2
  <1>5. IsFiniteSet({q}) /\ Cardinality({q}) = 1
    BY FS_Singleton
  <1>6. IsFiniteSet(p.previews) /\ IsFiniteSet(p.disclosures)
    BY <1>1, <1>2, <1>5 DEF OwnerFinite
  <1>7. OwnerFinite(p)
    BY <1>3, <1>4, <1>6 DEF OwnerFinite
  <1>8. Asked(p) <= Asked(o)
    <2>1. /\ Cardinality(p.offers) \in Nat /\ Cardinality(p.exceptions) \in Nat
          /\ Cardinality(S) \in Nat /\ Cardinality(T) \in Nat
      BY <1>1, <1>7, OwnerCounts
    <2> QED
      BY <1>3, <1>4, <2>1 DEF Asked
  <1>9. Told(p, c) <= Told(o, c)
    <2>1. o.offers # {}
      OBVIOUS
    <2>2. CASE seen = o.previews
      BY <1>1, <1>2, <1>7, <2>1, <2>2, OwnerCounts DEF Told, Settled
    <2>3. CASE seen = {q} /\ ~Settled(o, c)
      <3>1. o.previews = {} /\ Cardinality(o.previews) = 0
        BY <2>3, FS_EmptySet DEF Settled
      <3>2. Settled(p, c) /\ Cardinality(p.previews) = 1
        BY <1>2, <1>5, <2>3 DEF Settled
      <3> QED
        BY <1>1, <1>2, <1>7, <2>1, <2>3, <3>1, <3>2, OwnerCounts DEF Told
    <2> QED
      BY <2>2, <2>3
  <1>10. OwnerInv(p, m, c, used, published)
    BY <1>2, <1>3, <1>4, <1>6 DEF OwnerInv, OwnerRecord, Exception
  <1> QED
    BY <1>2, <1>8, <1>9, <1>10 DEF Follows

\* owner w after the answer to offer o, a grant g, with the previews seen then
AnsweredOwner(w, o, g, seen) ==
    [w EXCEPT !.offers = w.offers \ {o}, !.exceptions = w.exceptions \cup {g}, !.previews = seen]

\* A member's exception is given or refused.
LEMMA AnswerIs ==
    ASSUME Inv, NEW m \in Member, NEW o \in room.owner[m].offers,
           NEW status \in {"ACTIVE", "DECLINED"}
    PROVE  \E g \in Exception :
              /\ g.name = o.name /\ g.slot = o.slot
              /\ g.context = o.context /\ g.status = status
              /\ Answer(m, o, status) =
                   [room EXCEPT !.owner[m] =
                      AnsweredOwner(room.owner[m], o, g, room.owner[m].previews)]
  <1> DEFINE w == room.owner[m]
             g == [name |-> o.name, slot |-> o.slot, context |-> o.context,
                   left |-> IF status = "ACTIVE" THEN o.left ELSE 0, status |-> status]
             p == AnsweredOwner(w, o, g, w.previews)
  <1>1. room \in RoomRecord /\ w \in OwnerRecord
    BY InvFacts
  <1>2. o \in Offer
    BY <1>1 DEF OwnerRecord
  <1>3. /\ g \in Exception /\ g.name = o.name /\ g.slot = o.slot
        /\ g.context = o.context /\ g.status = status
    BY <1>2 DEF Offer, Exception
  <1>4. Answer(m, o, status) =
          [room EXCEPT !.owner[m].offers = w.offers \ {o},
                       !.owner[m].exceptions = w.exceptions \cup {g}]
    BY <1>1 DEF Answer, RoomRecord, OwnerRecord
  <1> HIDE DEF g
  <1>5. p = [w EXCEPT !.offers = w.offers \ {o}, !.exceptions = w.exceptions \cup {g}]
    BY <1>1 DEF OwnerRecord, AnsweredOwner
  <1>6. Answer(m, o, status) = [room EXCEPT !.owner[m] = p]
    <2> HIDE DEF p
    <2> QED
      BY <1>1, <1>4, <1>5 DEF RoomRecord, OwnerRecord
  <1> HIDE DEF p
  <1> QED
    BY <1>3, <1>6 DEF p

LEMMA DeclineKeeps ==
    ASSUME Inv, NEW m \in Member, NEW o \in room.owner[m].offers, DeclineException(m, o),
           UNCHANGED run
    PROVE  Inv'
  <1>1. /\ RoomInv(room) /\ Sound(room) /\ room.context \in Nat /\ room.owner[m] \in OwnerRecord
        /\ OwnerInv(room.owner[m], m, room.context, room.roundUsed, room.published)
    BY InvFacts
  <1> DEFINE a == Answer(m, o, "DECLINED")
  <1>2. PICK g \in Exception :
              /\ g.name = o.name /\ g.slot = o.slot
              /\ g.context = o.context /\ g.status = "DECLINED"
              /\ a = [room EXCEPT !.owner[m] =
                        AnsweredOwner(room.owner[m], o, g, room.owner[m].previews)]
    BY AnswerIs
  <1> DEFINE q == [context |-> room.context, left |-> 0]
             p == AnsweredOwner(room.owner[m], o, g, room.owner[m].previews)
  <1>3. q \in Preview /\ q.context = room.context
    BY <1>1 DEF Preview
  <1>4. Follows(room.owner[m], p, m, room.context, room.roundUsed, room.published)
    <2> HIDE DEF q
    <2>1. p = [room.owner[m] EXCEPT !.offers = room.owner[m].offers \ {o},
                                    !.exceptions = room.owner[m].exceptions \cup {g},
                                    !.previews = room.owner[m].previews]
      BY DEF AnsweredOwner
    <2> HIDE DEF p
    <2> QED
      BY <1>1, <1>2, <1>3, <2>1, AnsweredFollows
  <1>5. p.approval = room.owner[m].approval
    BY <1>1 DEF OwnerRecord, AnsweredOwner
  <1>6. a = [room EXCEPT !.owner[m] = p]
    BY <1>2
  <1> HIDE DEF p, a
  <1>7. Sound(a) /\ OwnersAside(room, a)
    BY <1>1, <1>4, <1>5, <1>6, OneOwnerKeeps
  <1>8. "NO_AGREEMENT" \in Hidden
    BY DEF Hidden
  <1>9. room' = StopSolving(a, "NO_AGREEMENT")
    BY DEF DeclineException, a
  <1>10. RoomInv(room') /\ SameContext(a, room')
    BY <1>7, <1>8, <1>9, StopKeeps
  <1>11. SameContext(room, room')
    BY <1>7, <1>10 DEF SameContext, OwnersAside, SameRest
  <1> QED
    BY <1>10, <1>11, RunsKept

\* The least of a set of times that has one is a time of the set.
LEMMA LeastIsTime ==
    ASSUME NEW S \in SUBSET Nat, S # {}
    PROVE  Min(S) \in S /\ Min(S) \in Nat
  <1>1. \E x \in S : \A y \in S : x <= y
    <2>1. PICK x \in S : \A y \in S : <<y, x>> \notin OpToRel(<, Nat)
      BY WFMin, NatLessThanWellFounded
    <2>2. ASSUME NEW y \in S PROVE x <= y
      <3>1. <<y, x>> \notin OpToRel(<, Nat) /\ y \in Nat /\ x \in Nat
        BY <2>1
      <3> QED
        BY <3>1, SMT DEF OpToRel
    <2> QED
      BY <2>2
  <1>2. Min(S) \in S
    BY <1>1 DEF Min
  <1> QED
    BY <1>2

\* While somebody is asked nobody has refused.
LEMMA AskedMeansOpen ==
    ASSUME Inv, NEW m \in Member, NEW o \in room.owner[m].offers
    PROVE  ~RoundOver(room)
  BY InvFacts DEF RoomInv, RoundInv, Offers

\* An exception is given, and a preview shown if none was settled.
LEMMA AllowedIs ==
    ASSUME Inv, NEW m \in Member, NEW o \in room.owner[m].offers
    PROVE  \E g \in Exception, q \in Preview, seen \in SUBSET Preview :
              /\ g.name = o.name /\ g.slot = o.slot
              /\ g.context = o.context /\ g.status = "ACTIVE"
              /\ q.context = room.context /\ seen \in {room.owner[m].previews, {q}}
              /\ seen = room.owner[m].previews \/ ~Settled(room.owner[m], room.context)
              /\ AddDisclosurePreview(Answer(m, o, "ACTIVE"), m, o.left) =
                   [room EXCEPT !.owner[m] = AnsweredOwner(room.owner[m], o, g, seen)]
  <1> DEFINE w == room.owner[m]
             a == Answer(m, o, "ACTIVE")
             b == AddDisclosurePreview(a, m, o.left)
             P(g, seen) == AnsweredOwner(w, o, g, seen)
  <1>1. room \in RoomRecord /\ room.context \in Nat /\ w \in OwnerRecord
    BY InvFacts
  <1>2. PICK g \in Exception :
              /\ g.name = o.name /\ g.slot = o.slot
              /\ g.context = o.context /\ g.status = "ACTIVE"
              /\ a = [room EXCEPT !.owner[m] = P(g, room.owner[m].previews)]
    BY AnswerIs
  <1> DEFINE q == [context |-> room.context, left |-> Min({PermissionTtl, o.left})]
             seen == IF Settled(w, room.context) THEN w.previews ELSE {q}
             p == P(g, seen)
  <1>3. q \in Preview /\ q.context = room.context
    <2>1. o.left \in Nat /\ PermissionTtl \in Nat
      BY <1>1, RoomAssumption DEF OwnerRecord, Offer
    <2>2. Min({PermissionTtl, o.left}) \in Nat
      <3>1. {PermissionTtl, o.left} \in SUBSET Nat /\ {PermissionTtl, o.left} # {}
        BY <2>1
      <3> QED
        BY <3>1, LeastIsTime
    <2> QED
      BY <1>1, <2>2 DEF Preview
  <1>4. P(g, w.previews) \in OwnerRecord
    BY <1>1, <1>2 DEF OwnerRecord, AnsweredOwner
  <1>5. /\ P(g, w.previews).previews = w.previews /\ P(g, w.previews).disclosures = w.disclosures
    BY <1>1 DEF OwnerRecord, AnsweredOwner
  <1>6. b = [room EXCEPT !.owner[m] = p]
    <2>1. a.context = room.context /\ a.owner[m] = P(g, w.previews)
      BY <1>1, <1>2 DEF RoomRecord
    <2>2. DisclosureSettled(a, m) <=> Settled(w, room.context)
      BY <1>5, <2>1 DEF DisclosureSettled, Settled
    <2>3. CASE Settled(w, room.context)
      BY <1>2, <2>2, <2>3 DEF AddDisclosurePreview
    <2>4. CASE ~Settled(w, room.context)
      <3>1. b = [a EXCEPT !.owner[m].previews = {q}]
        BY <2>1, <2>2, <2>4 DEF AddDisclosurePreview
      <3> DEFINE z == P(g, w.previews)
      <3>2. p = [z EXCEPT !.previews = {q}]
        BY <1>1, <2>4 DEF OwnerRecord, AnsweredOwner
      <3> HIDE DEF z, p, q
      <3>3. a = [room EXCEPT !.owner[m] = z]
        BY <1>2 DEF z
      <3> HIDE DEF a
      <3>4. a \in RoomRecord
        BY <1>1, <1>4, <3>3 DEF RoomRecord, z
      <3>5. [a EXCEPT !.owner[m].previews = {q}] = [room EXCEPT !.owner[m] = [z EXCEPT !.previews = {q}]]
        BY <1>1, <1>4, <3>3, <3>4 DEF RoomRecord, z
      <3> QED
        BY <3>1, <3>2, <3>5
    <2> QED
      BY <2>3, <2>4
  <1>7. seen \in {w.previews, {q}} /\ (seen = w.previews \/ ~Settled(w, room.context))
    OBVIOUS
  <1>8. b = [room EXCEPT !.owner[m] = AnsweredOwner(w, o, g, seen)]
    BY <1>6
  <1>9. seen \in SUBSET Preview
    BY <1>1, <1>3 DEF OwnerRecord
  <1> HIDE DEF q, seen, b
  <1> QED
    BY <1>2, <1>3, <1>7, <1>8, <1>9 DEF b

LEMMA AllowKeeps ==
    ASSUME Inv, NEW m \in Member, NEW o \in room.owner[m].offers, AllowException(m, o),
           UNCHANGED run
    PROVE  Inv'
  <1> DEFINE w == room.owner[m]
             b == AddDisclosurePreview(Answer(m, o, "ACTIVE"), m, o.left)
  <1>1. /\ RoomInv(room) /\ Sound(room) /\ room \in RoomRecord /\ room.context \in Nat
        /\ w \in OwnerRecord
        /\ OwnerInv(w, m, room.context, room.roundUsed, room.published)
    BY InvFacts
  <1>2. PICK g \in Exception, q \in Preview, seen \in SUBSET Preview :
              /\ g.name = o.name /\ g.slot = o.slot
              /\ g.context = o.context /\ g.status = "ACTIVE"
              /\ q.context = room.context /\ seen \in {room.owner[m].previews, {q}}
              /\ seen = room.owner[m].previews \/ ~Settled(room.owner[m], room.context)
              /\ b = [room EXCEPT !.owner[m] = AnsweredOwner(room.owner[m], o, g, seen)]
    BY AllowedIs
  <1> DEFINE p == AnsweredOwner(w, o, g, seen)
  <1>6. b = [room EXCEPT !.owner[m] = p]
    BY <1>2
  <1> HIDE DEF b
  <1>8. Follows(w, p, m, room.context, room.roundUsed, room.published)
    <2>1. p = [w EXCEPT !.offers = w.offers \ {o}, !.exceptions = w.exceptions \cup {g},
                        !.previews = seen]
      BY DEF AnsweredOwner
    <2> HIDE DEF p
    <2> QED
      BY <1>1, <1>2, <2>1, AnsweredFollows
  <1>9. p.approval = w.approval /\ p.exceptions = w.exceptions \cup {g}
    BY <1>1 DEF OwnerRecord, AnsweredOwner
  <1> HIDE DEF p
  <1>10. /\ Sound(b) /\ OwnersAside(room, b) /\ b.owner[m] = p
         /\ \A n \in Member \ {m} : b.owner[n] = room.owner[n]
    BY <1>1, <1>6, <1>8, <1>9, OneOwnerKeeps
  <1>11. ~RoundOver(b)
    <2>1. ~RoundOver(room)
      BY AskedMeansOpen
    <2>2. b.context = room.context
      BY <1>10 DEF OwnersAside, SameRest
    <2> QED
      BY <1>2, <1>9, <1>10, <2>1, <2>2 DEF RoundOver
  <1>12. SameContext(room, b)
    BY <1>10 DEF SameContext, OwnersAside, SameRest
  <1>13. room' = IF Offers(b) = {} THEN Queue(b) ELSE b
    BY DEF AllowException, b
  <1>14. CASE Offers(b) = {}
    <2>1. RoomInv(room') /\ SameContext(b, room')
      BY <1>10, <1>11, <1>13, <1>14, QueueKeeps
    <2>2. SameContext(room, room')
      BY <1>12, <2>1 DEF SameContext
    <2> QED
      BY <2>1, <2>2, RunsKept
  <1>15. CASE Offers(b) # {}
    <2>1. RoomInv(room') /\ SameContext(room, room')
      BY <1>10, <1>11, <1>12, <1>13, <1>15 DEF RoomInv, RoundInv
    <2> QED
      BY <2>1, RunsKept
  <1> QED
    BY <1>14, <1>15

LEMMA RevokeKeeps ==
    ASSUME Inv, NEW m \in Member, NEW g \in room.owner[m].exceptions, RevokeException(m, g),
           UNCHANGED run
    PROVE  Inv'
  <1> DEFINE o == room.owner[m]
             x == Ended(o.exceptions, {g}, "REVOKED")
             p == [o EXCEPT !.exceptions = x]
             a == Revoked(m, g)
  <1>1. /\ RoomInv(room) /\ Sound(room) /\ room \in RoomRecord /\ room.context \in Nat
        /\ o \in OwnerRecord
        /\ OwnerInv(o, m, room.context, room.roundUsed, room.published)
    BY InvFacts
  <1>2. o.exceptions \in SUBSET Exception /\ OwnerFinite(o)
    BY <1>1, OwnerInvFinite DEF OwnerRecord
  <1>3. x \in SUBSET Exception /\ SameContexts(o.exceptions, x)
    BY <1>2, EndedTyped, EndedSame DEF Ending
  <1>4. IsFiniteSet(x) /\ Cardinality(x) <= Cardinality(o.exceptions)
    BY <1>2, EndedKeeps DEF OwnerFinite
  <1>5. a = [room EXCEPT !.owner[m] = p]
    BY <1>1 DEF Revoked, RoomRecord, OwnerRecord
  <1> HIDE DEF x, a
  <1>6. /\ p \in OwnerRecord /\ p.exceptions = x /\ p.offers = o.offers /\ p.previews = o.previews
        /\ p.disclosures = o.disclosures /\ p.approval = o.approval
    BY <1>1, <1>3 DEF OwnerRecord
  <1> HIDE DEF p
  <1>7. OwnerFinite(p)
    BY <1>2, <1>4, <1>6 DEF OwnerFinite
  <1>8. Asked(p) <= Asked(o) /\ Told(p, room.context) <= Told(o, room.context)
    <2>1. Told(p, room.context) = Told(o, room.context)
      BY <1>6 DEF Told, Settled
    <2> QED
      BY <1>2, <1>4, <1>6, <1>7, <2>1, OwnerCounts DEF Asked
  <1>9. OwnerInv(p, m, room.context, room.roundUsed, room.published)
    <2>1. \A y \in x : \E z \in o.exceptions : y.context = z.context
      BY <1>3 DEF SameContexts
    <2> QED
      BY <1>1, <1>4, <1>6, <2>1 DEF OwnerInv
  <1>10. Sound(a) /\ OwnersAside(room, a)
    BY <1>1, <1>5, <1>6, <1>8, <1>9, OneOwnerKeeps DEF Follows
  <1>11. "SUPERSEDED" \in Hidden
    BY DEF Hidden
  <1>12. RoomInv(room') /\ SameContext(a, room')
    BY <1>10, <1>11, StopKeeps DEF RevokeException, a
  <1>13. SameContext(room, room')
    BY <1>10, <1>12 DEF SameContext, OwnersAside, SameRest
  <1> QED
    BY <1>12, <1>13, RunsKept

\* What a member lets be told changes nothing of the round.
LEMMA DisclosuresKeep ==
    ASSUME NEW r, RoomInv(r), NEW m \in Member, NEW p \in OwnerRecord,
           OwnerInv(p, m, r.context, r.roundUsed, r.published),
           p.offers = r.owner[m].offers, p.exceptions = r.owner[m].exceptions,
           p.approval = r.owner[m].approval,
           Told(p, r.context) <= Told(r.owner[m], r.context)
    PROVE  LET s == [r EXCEPT !.owner[m] = p] IN RoomInv(s) /\ SameContext(r, s)
  <1> DEFINE s == [r EXCEPT !.owner[m] = p]
  <1>1. Sound(r) /\ OwnerInv(r.owner[m], m, r.context, r.roundUsed, r.published)
    BY DEF RoomInv, Sound, OwnersInv
  <1>2. Asked(p) <= Asked(r.owner[m])
    <2>1. Asked(p) = Asked(r.owner[m]) /\ Asked(r.owner[m]) \in Nat
      BY <1>1, OwnerInvFinite, OwnerCounts DEF Asked
    <2> QED
      BY <2>1
  <1>3. Follows(r.owner[m], p, m, r.context, r.roundUsed, r.published)
    BY <1>2 DEF Follows
  <1>4. /\ Sound(s) /\ OwnersAside(r, s)
        /\ s.owner[m] = p /\ \A n \in Member \ {m} : s.owner[n] = r.owner[n]
    BY <1>1, <1>3, OneOwnerKeeps
  <1> HIDE DEF s
  <1>5. \A n \in Member : /\ s.owner[n].exceptions = r.owner[n].exceptions
                          /\ s.owner[n].offers = r.owner[n].offers
    BY <1>4
  <1>6. RoomInv(s) /\ SameContext(r, s)
    BY <1>4, <1>5, SamePermissionsKeep
  <1> QED
    BY <1>6 DEF s

LEMMA RevokeDisclosureKeeps ==
    ASSUME Inv, NEW m \in Member, NEW d \in room.owner[m].disclosures, RevokeDisclosure(m, d),
           UNCHANGED run
    PROVE  Inv'
  <1> DEFINE o == room.owner[m]
             x == Ended(o.disclosures, {d}, "REVOKED")
             p == [o EXCEPT !.disclosures = x]
  <1>1. /\ RoomInv(room) /\ room \in RoomRecord /\ room.context \in Nat /\ o \in OwnerRecord
        /\ OwnerInv(o, m, room.context, room.roundUsed, room.published)
    BY InvFacts
  <1>2. o.disclosures \in SUBSET Disclosure /\ OwnerFinite(o)
    BY <1>1, OwnerInvFinite DEF OwnerRecord
  <1>3. /\ x \in SUBSET Disclosure /\ SameContexts(o.disclosures, x)
        /\ \A y \in x : \E z \in o.disclosures : y.context = z.context /\ y.published = z.published
    <2> DEFINE S == o.disclosures
    <2>1. S \in SUBSET Disclosure /\ "REVOKED" \in Ending
      BY <1>2 DEF Ending
    <2>2. Ended(S, {d}, "REVOKED") \in SUBSET Disclosure
      <3> HIDE DEF S
      <3> QED
        BY <2>1, EndedTyped
    <2>3. /\ SameContexts(S, Ended(S, {d}, "REVOKED"))
          /\ \A y \in Ended(S, {d}, "REVOKED") :
                \E z \in S : y.context = z.context /\ y.published = z.published
      <3> HIDE DEF S
      <3> QED
        BY <2>1, EndedSame
    <2> QED
      BY <2>2, <2>3
  <1>4. IsFiniteSet(x) /\ Cardinality(x) <= Cardinality(o.disclosures)
    BY <1>2, EndedKeeps DEF OwnerFinite
  <1>5. room' = [room EXCEPT !.owner[m] = p]
    <2>1. room' = [room EXCEPT !.owner[m].disclosures = x]
      BY <1>1 DEF RevokeDisclosure, RoomRecord, OwnerRecord
    <2> HIDE DEF x
    <2> QED
      BY <1>1, <2>1 DEF RoomRecord, OwnerRecord
  <1> HIDE DEF x
  <1>6. /\ p \in OwnerRecord /\ p.exceptions = o.exceptions /\ p.offers = o.offers
        /\ p.previews = o.previews /\ p.disclosures = x /\ p.approval = o.approval
    BY <1>1, <1>3 DEF OwnerRecord
  <1> HIDE DEF p
  <1>7. OwnerFinite(p)
    BY <1>2, <1>4, <1>6 DEF OwnerFinite
  <1>8. Told(p, room.context) <= Told(o, room.context)
    <2>1. Cardinality(p.previews) <= Cardinality(o.previews)
      BY <1>2, <1>6, OwnerCounts
    <2>2. (\E y \in o.disclosures : y.context = room.context)
            => \E y \in p.disclosures : y.context = room.context
      BY <1>3, <1>6 DEF SameContexts
    <2> QED
      BY <1>2, <1>4, <1>6, <1>7, <2>1, <2>2, ToldShrinks
  <1>9. OwnerInv(p, m, room.context, room.roundUsed, room.published)
    BY <1>1, <1>3, <1>4, <1>6 DEF OwnerInv
  <1>10. RoomInv(room') /\ SameContext(room, room')
    BY <1>1, <1>5, <1>6, <1>8, <1>9, DisclosuresKeep
  <1> QED
    BY <1>10, RunsKept

LEMMA DecideDisclosureKeeps ==
    ASSUME Inv, NEW m \in Member, NEW v \in room.owner[m].previews,
           NEW status \in {"ACTIVE", "DECLINED"}, DecideDisclosure(m, v, status), UNCHANGED run
    PROVE  Inv'
  <1> DEFINE o == room.owner[m]
             d == [context |-> v.context, status |-> status, published |-> FALSE,
                   left |-> IF status = "ACTIVE" THEN v.left ELSE 0]
             S == o.previews
             T == o.disclosures
             p == [o EXCEPT !.previews = S \ {v}, !.disclosures = T \cup {d}]
  <1>1. /\ RoomInv(room) /\ room \in RoomRecord /\ room.context \in Nat /\ o \in OwnerRecord
        /\ OwnerInv(o, m, room.context, room.roundUsed, room.published)
    BY InvFacts
  <1>2. OwnerFinite(o) /\ v \in Preview /\ v.context = room.context
    BY <1>1, OwnerInvFinite DEF OwnerRecord, OwnerInv
  <1>3. d \in Disclosure /\ d.context = room.context /\ d.published = FALSE
    BY <1>2 DEF Disclosure, Preview
  <1>4. room' = [room EXCEPT !.owner[m].previews = S \ {v}, !.owner[m].disclosures = T \cup {d}]
    BY <1>1 DEF DecideDisclosure, RoomRecord, OwnerRecord
  <1> HIDE DEF d
  <1>5. room' = [room EXCEPT !.owner[m] = p]
    BY <1>1, <1>4 DEF RoomRecord, OwnerRecord
  <1>6. /\ p \in OwnerRecord /\ p.exceptions = o.exceptions /\ p.offers = o.offers
        /\ p.previews = S \ {v} /\ p.disclosures = T \cup {d} /\ p.approval = o.approval
    BY <1>1, <1>3 DEF OwnerRecord
  <1> HIDE DEF p
  <1>7. /\ IsFiniteSet(p.previews) /\ Cardinality(p.previews) = Cardinality(S) - 1
    <2>1. IsFiniteSet(S) /\ v \in S
      BY <1>2 DEF OwnerFinite
    <2>2. IsFiniteSet(S \ {v}) /\ Cardinality(S \ {v}) = Cardinality(S) - 1
      <3> HIDE DEF S
      <3> QED
        BY <2>1, FS_RemoveElement
    <2> QED
      BY <1>6, <2>2
  <1>8. /\ IsFiniteSet(p.disclosures) /\ Cardinality(p.disclosures) <= Cardinality(T) + 1
    <2>1. IsFiniteSet(T)
      BY <1>2 DEF OwnerFinite
    <2>2. IsFiniteSet(T \cup {d}) /\ Cardinality(T \cup {d}) <= Cardinality(T) + 1
      <3> HIDE DEF T
      <3>1. Cardinality(T) \in Nat
        BY <2>1, FS_CardinalityType
      <3>2. /\ IsFiniteSet(T \cup {d})
            /\ Cardinality(T \cup {d}) = IF d \in T THEN Cardinality(T) ELSE Cardinality(T) + 1
        BY <2>1, FS_AddElement
      <3> QED
        BY <3>1, <3>2
    <2> QED
      BY <1>6, <2>2
  <1>9. OwnerFinite(p)
    BY <1>2, <1>6, <1>7, <1>8 DEF OwnerFinite
  <1>10. Told(p, room.context) <= Told(o, room.context)
    <2>1. Settled(p, room.context) /\ Settled(o, room.context)
      BY <1>3, <1>6 DEF Settled
    <2>2. /\ Cardinality(p.previews) \in Nat /\ Cardinality(p.disclosures) \in Nat
          /\ Cardinality(S) \in Nat /\ Cardinality(T) \in Nat
      BY <1>2, <1>9, OwnerCounts
    <2>3. /\ Told(p, room.context) = Cardinality(p.disclosures) + Cardinality(p.previews)
          /\ Told(o, room.context) = Cardinality(T) + Cardinality(S)
      BY <2>1, <2>2 DEF Told
    <2> QED
      BY <1>7, <1>8, <2>2, <2>3
  <1>11. OwnerInv(p, m, room.context, room.roundUsed, room.published)
    BY <1>1, <1>3, <1>6, <1>7, <1>8 DEF OwnerInv
  <1>12. RoomInv(room') /\ SameContext(room, room')
    BY <1>1, <1>5, <1>6, <1>10, <1>11, DisclosuresKeep
  <1> QED
    BY <1>12, RunsKept

\* One more disclosure is published.
LEMMA PublishedKeeps ==
    ASSUME NEW r, RoomInv(r), NEW published \in SUBSET [owner : Member, context : Nat],
           r.published \subseteq published, IsFiniteSet(published),
           Cardinality(published) <= PublishLimit
    PROVE  LET s == [r EXCEPT !.published = published] IN
           /\ RoomInv(s) /\ SameContext(r, s)
           /\ s.published = published /\ s.owner = r.owner
  <1> DEFINE s == [r EXCEPT !.published = published]
  <1>1. r \in RoomRecord
    BY DEF RoomInv, Sound
  <1>2. s \in RoomRecord
    BY <1>1 DEF RoomRecord
  <1>3. /\ s.owner = r.owner /\ s.invitation = r.invitation /\ s.membership = r.membership
        /\ s.schedule = r.schedule /\ s.policy = r.policy /\ s.present = r.present
        /\ s.context = r.context /\ s.status = r.status /\ s.retired = r.retired
        /\ s.proposal = r.proposal /\ s.proposalVersion = r.proposalVersion
        /\ s.published = published /\ s.receipts = r.receipts
        /\ s.roundUsed = r.roundUsed /\ s.solveEpoch = r.solveEpoch /\ s.job = r.job
    BY <1>1 DEF RoomRecord
  <1> HIDE DEF s
  <1>4. OwnersInv(s)
    BY <1>3 DEF RoomInv, Sound, OwnersInv, OwnerInv
  <1>5. Capacity(s)
    BY <1>3 DEF RoomInv, Sound, Capacity
  <1>6. StatusInv(s) /\ ProposalInv(s)
    BY <1>3 DEF RoomInv, Sound, StatusInv, ProposalInv, Unanimous
  <1>7. RestInv(s)
    BY <1>3 DEF RoomInv, Sound, RestInv
  <1>8. RoundInv(s)
    BY <1>3 DEF RoomInv, RoundInv, RoundOver, Offers
  <1>9. SameContext(r, s)
    BY <1>3 DEF SameContext
  <1> QED
    BY <1>2, <1>3, <1>4, <1>5, <1>6, <1>7, <1>8, <1>9 DEF s, RoomInv, Sound

LEMMA PublishKeeps ==
    ASSUME Inv, NEW m \in Member, NEW d \in room.owner[m].disclosures, PublishDisclosure(m, d),
           UNCHANGED run
    PROVE  Inv'
  <1> DEFINE o == room.owner[m]
             e == [owner |-> m, context |-> room.context]
             all == room.published \cup {e}
             r == [room EXCEPT !.published = all]
             T == o.disclosures
             f == [d EXCEPT !.published = TRUE]
             x == (T \ {d}) \cup {f}
             p == [o EXCEPT !.disclosures = x]
  <1>1. /\ RoomInv(room) /\ room \in RoomRecord /\ room.context \in Nat /\ o \in OwnerRecord
        /\ OwnerInv(o, m, room.context, room.roundUsed, room.published)
    BY InvFacts
  <1>2. OwnerFinite(o) /\ d \in Disclosure /\ d.context = room.context
    BY <1>1, OwnerInvFinite DEF OwnerRecord, PublishDisclosure
  <1>3. /\ e \in [owner : Member, context : Nat] /\ room.published \in SUBSET [owner : Member, context : Nat]
        /\ IsFiniteSet(room.published) /\ Cardinality(room.published) <= PublishLimit
        /\ d.published => e \in room.published
    BY <1>1, <1>2 DEF RoomRecord, RoomInv, Sound, RestInv, OwnerInv
  <1>4. IsFiniteSet(all) /\ Cardinality(all) <= PublishLimit
    <2>1. Cardinality(room.published) \in Nat /\ PublishLimit \in Nat
      BY <1>3, FS_CardinalityType, RoomAssumption
    <2>2. /\ IsFiniteSet(all)
          /\ Cardinality(all) = IF e \in room.published THEN Cardinality(room.published)
                                ELSE Cardinality(room.published) + 1
      <3> DEFINE S == room.published
      <3>1. IsFiniteSet(S)
        BY <1>3
      <3> HIDE DEF S, e
      <3>2. /\ IsFiniteSet(S \cup {e})
            /\ Cardinality(S \cup {e}) = IF e \in S THEN Cardinality(S) ELSE Cardinality(S) + 1
        BY <3>1, FS_AddElement
      <3> QED
        BY <3>2 DEF S
    <2>3. d.published \/ Cardinality(room.published) < PublishLimit
      BY DEF PublishDisclosure
    <2> QED
      BY <1>3, <2>1, <2>2, <2>3
  <1>5. f \in Disclosure /\ f.context = d.context
    BY <1>2 DEF Disclosure
  <1>6. room' = [room EXCEPT !.published = all, !.owner[m].disclosures = x]
    BY <1>1 DEF PublishDisclosure, RoomRecord, OwnerRecord
  <1> HIDE DEF e, f
  <1>7. all \in SUBSET [owner : Member, context : Nat] /\ room.published \subseteq all
    BY <1>3
  <1>8. /\ RoomInv(r) /\ SameContext(room, r) /\ r.published = all /\ r.owner = room.owner
    BY <1>1, <1>4, <1>7, PublishedKeeps
  <1>9. x \in SUBSET Disclosure
    BY <1>1, <1>5 DEF OwnerRecord
  <1>10. room' = [r EXCEPT !.owner[m] = p]
    <2> HIDE DEF x, all
    <2> QED
      BY <1>1, <1>6 DEF RoomRecord, OwnerRecord
  <1>11. IsFiniteSet(x) /\ Cardinality(x) <= Cardinality(T)
    <2>1. IsFiniteSet(T) /\ d \in T /\ Cardinality(T) \in Nat
      BY <1>2, FS_CardinalityType DEF OwnerFinite
    <2> DEFINE U == T \ {d}
    <2>2. IsFiniteSet(U) /\ Cardinality(U) = Cardinality(T) - 1
      <3> HIDE DEF T
      <3> QED
        BY <2>1, FS_RemoveElement
    <2> HIDE DEF U
    <2>3. Cardinality(U) \in Nat
      BY <2>2, FS_CardinalityType
    <2>4. /\ IsFiniteSet(U \cup {f})
          /\ Cardinality(U \cup {f}) = IF f \in U THEN Cardinality(U) ELSE Cardinality(U) + 1
      BY <2>2, FS_AddElement
    <2>5. x = U \cup {f}
      BY DEF U
    <2> HIDE DEF x, T
    <2> QED
      BY <2>1, <2>2, <2>3, <2>4, <2>5
  <1>12. /\ \A y \in x : y \in T \/ y = f
         /\ (\E y \in T : y.context = room.context) => \E y \in x : y.context = room.context
    BY <1>5
  <1> HIDE DEF x
  <1>13. /\ p \in OwnerRecord /\ p.exceptions = o.exceptions /\ p.offers = o.offers
         /\ p.previews = o.previews /\ p.disclosures = x /\ p.approval = o.approval
    BY <1>1, <1>9 DEF OwnerRecord
  <1> HIDE DEF p
  <1>14. OwnerFinite(p)
    BY <1>2, <1>11, <1>13 DEF OwnerFinite
  <1>15. Told(p, room.context) <= Told(o, room.context)
    <2>1. Cardinality(p.previews) <= Cardinality(o.previews)
      BY <1>2, <1>13, OwnerCounts
    <2> QED
      BY <1>2, <1>11, <1>12, <1>13, <1>14, <2>1, ToldShrinks
  <1>16. OwnerInv(p, m, room.context, room.roundUsed, all)
    <2>1. ASSUME NEW y \in x, y.published PROVE [owner |-> m, context |-> y.context] \in all
      <3>1. CASE y \in T
        BY <1>1, <2>1, <3>1 DEF OwnerInv
      <3>2. CASE y = f
        BY <1>2, <1>5, <3>2 DEF e
      <3> QED
        BY <1>12, <3>1, <3>2
    <2> QED
      BY <1>1, <1>11, <1>13, <2>1 DEF OwnerInv
  <1> HIDE DEF r
  <1>17. r.context = room.context /\ r.roundUsed = room.roundUsed
    BY <1>8 DEF SameContext
  <1>18. RoomInv(room') /\ SameContext(r, room')
    BY <1>8, <1>10, <1>13, <1>15, <1>16, <1>17, DisclosuresKeep
  <1>19. SameContext(room, room')
    BY <1>8, <1>18 DEF SameContext
  <1> QED
    BY <1>18, <1>19, RunsKept

\* An approval given or taken back leaves the proposal shown.
LEMMA ApprovalKeeps ==
    ASSUME NEW r, RoomInv(r), r.proposal # None, NEW m \in Member, NEW a \in Nat, NEW k \in Nat,
           k <= ReceiptLimit, NEW st \in Shown, NEW f, f = [r.owner EXCEPT ![m].approval = a],
           st = "AGREED" => \A n \in Member : f[n].approval = r.proposal.version
    PROVE  LET s == [r EXCEPT !.owner = f, !.status = st, !.receipts = k] IN
           RoomInv(s) /\ SameContext(r, s)
  <1> DEFINE s == [r EXCEPT !.owner = f, !.status = st, !.receipts = k]
  <1>1. /\ Sound(r) /\ r \in RoomRecord /\ r.owner \in [Member -> OwnerRecord]
        /\ r.context \in Nat /\ r.retired \in Nat
    BY DEF RoomInv, Sound, RoomRecord
  <1>2. ASSUME NEW n \in Member
        PROVE  /\ f[n] \in OwnerRecord
               /\ f[n].exceptions = r.owner[n].exceptions /\ f[n].offers = r.owner[n].offers
               /\ Follows(r.owner[n], f[n], n, r.context, r.roundUsed, r.published)
    <2>1. OwnerInv(r.owner[n], n, r.context, r.roundUsed, r.published) /\ r.owner[n] \in OwnerRecord
      BY <1>1 DEF Sound, OwnersInv
    <2>2. f[n] = IF n = m THEN [r.owner[n] EXCEPT !.approval = a] ELSE r.owner[n]
      BY <1>1
    <2>3. Follows(r.owner[n], f[n], n, r.context, r.roundUsed, r.published)
      BY <1>1, <2>1, <2>2, OwnerFollows
    <2>4. f[n].exceptions = r.owner[n].exceptions /\ f[n].offers = r.owner[n].offers
      BY <2>1, <2>2 DEF OwnerRecord
    <2> QED
      BY <2>3, <2>4 DEF Follows
  <1>3. f \in [Member -> OwnerRecord]
    <2>1. f = [n \in Member |-> f[n]]
      BY <1>1
    <2> QED
      BY <1>2, <2>1
  <1>4. s \in RoomRecord
    BY <1>1, <1>3 DEF RoomRecord
  <1>5. /\ s.owner = f /\ s.invitation = r.invitation /\ s.membership = r.membership
        /\ s.schedule = r.schedule /\ s.policy = r.policy /\ s.present = r.present
        /\ s.context = r.context /\ s.status = st /\ s.retired = r.retired
        /\ s.proposal = r.proposal /\ s.proposalVersion = r.proposalVersion
        /\ s.published = r.published /\ s.receipts = k
        /\ s.roundUsed = r.roundUsed /\ s.solveEpoch = r.solveEpoch /\ s.job = r.job
    BY <1>1 DEF RoomRecord
  <1> HIDE DEF s
  <1>6. OwnersInv(s) /\ Capacity(s)
    <2>1. OwnersFollow(r, s)
      BY <1>2, <1>5 DEF OwnersFollow
    <2> QED
      BY <1>1, <1>5, <2>1, FollowersFit
  <1>7. StatusInv(s)
    BY <1>1, <1>5 DEF Sound, StatusInv, Unanimous, Shown, Hidden
  <1>8. ProposalInv(s)
    BY <1>1, <1>5 DEF Sound, ProposalInv
  <1>9. RestInv(s)
    BY <1>1, <1>5 DEF Sound, RestInv
  <1>10. RoundInv(s)
    BY <1>2, <1>5 DEF RoomInv, RoundInv, RoundOver, Offers
  <1>11. SameContext(r, s)
    BY <1>5 DEF SameContext
  <1> QED
    BY <1>4, <1>6, <1>7, <1>8, <1>9, <1>10, <1>11 DEF s, RoomInv, Sound

LEMMA ApprovalsKeep ==
    ASSUME Inv, NEW m \in Member, Approvals(m), UNCHANGED run
    PROVE  Inv'
  <1>1. /\ RoomInv(room) /\ Sound(room) /\ room \in RoomRecord
        /\ room.owner \in [Member -> OwnerRecord] /\ room.receipts \in Nat
        /\ room.receipts <= ReceiptLimit /\ ReceiptLimit \in Nat
    BY InvFacts, RoomAssumption DEF RoomRecord, Sound, RestInv
  <1> SUFFICES RoomInv(room') /\ SameContext(room, room')
    BY RunsKept
  <1>2. CASE AcceptProposal(m)
    <2> DEFINE v == room.proposal.version
               f == [room.owner EXCEPT ![m].approval = v]
               approved == [room EXCEPT !.owner[m].approval = v]
               k == room.receipts + IF room.status = "AGREED" THEN 0 ELSE 1
    <2>1. room.proposal # None
      BY <1>2 DEF AcceptProposal, DependenciesActive
    <2>2. room.proposal \in Proposal
      BY <1>1, <2>1 DEF RoomRecord
    <2>3. v \in Nat
      BY <2>2 DEF Proposal
    <2>4. /\ approved = [room EXCEPT !.owner = f] /\ approved.owner = f
          /\ approved.proposal = room.proposal
      BY <1>1 DEF RoomRecord
    <2>5. \/ /\ Unanimous(approved)
             /\ room.status = "AGREED" \/ room.receipts < ReceiptLimit
             /\ room' = [approved EXCEPT !.status = "AGREED", !.receipts = k]
          \/ room' = [approved EXCEPT !.status = "APPROVING"]
      <3>1. approved.receipts = room.receipts
        BY <1>1 DEF RoomRecord
      <3> QED
        BY <1>2, <3>1 DEF AcceptProposal
    <2> HIDE DEF v, approved
    <2>6. CASE /\ Unanimous(approved)
               /\ room.status = "AGREED" \/ room.receipts < ReceiptLimit
               /\ room' = [approved EXCEPT !.status = "AGREED", !.receipts = k]
      <3>1. \A n \in Member : f[n].approval = room.proposal.version
        BY <2>4, <2>6 DEF Unanimous
      <3>2. k \in Nat /\ k <= ReceiptLimit
        BY <1>1, <2>6
      <3> HIDE DEF f, k
      <3>3. room' = [room EXCEPT !.owner = f, !.status = "AGREED", !.receipts = k]
        BY <1>1, <2>4, <2>6 DEF RoomRecord
      <3>4. "AGREED" \in Shown
        BY DEF Shown
      <3> QED
        BY <1>1, <2>1, <2>3, <3>1, <3>2, <3>3, <3>4, ApprovalKeeps DEF f
    <2>7. CASE room' = [approved EXCEPT !.status = "APPROVING"]
      <3> HIDE DEF f
      <3>1. room' = [room EXCEPT !.owner = f, !.status = "APPROVING", !.receipts = room.receipts]
        BY <1>1, <2>4, <2>7 DEF RoomRecord
      <3>2. "APPROVING" \in Shown
        BY DEF Shown
      <3> QED
        BY <1>1, <2>1, <2>3, <3>1, <3>2, ApprovalKeeps DEF f
    <2> QED
      BY <2>5, <2>6, <2>7
  <1>3. CASE WithdrawApproval(m)
    <2> DEFINE f == [room.owner EXCEPT ![m].approval = 0]
               withdrawn == [room EXCEPT !.owner[m].approval = 0]
    <2>1. room.proposal # None
      BY <1>3 DEF WithdrawApproval
    <2>2. withdrawn = [room EXCEPT !.owner = f]
      BY <1>1 DEF RoomRecord
    <2>3. CASE room.status = "AGREED"
      <3>1. "SUPERSEDED" \in Hidden
        BY DEF Hidden
      <3>2. room' = ClearProposal(room, "SUPERSEDED")
        BY <1>3, <2>3 DEF WithdrawApproval
      <3> QED
        BY <1>1, <3>1, <3>2, ClearKeeps DEF RoomInv, SameRound, SameRest, SameContext
    <2>4. CASE room.status # "AGREED"
      <3>1. PICK st \in {"APPROVING", "PROPOSED"} : room' = [withdrawn EXCEPT !.status = st]
        BY <1>3, <2>4 DEF WithdrawApproval
      <3>2. st \in Shown /\ st # "AGREED"
        BY DEF Shown
      <3> HIDE DEF f, withdrawn
      <3>3. room' = [room EXCEPT !.owner = f, !.status = st, !.receipts = room.receipts]
        BY <1>1, <2>2, <3>1 DEF RoomRecord
      <3> QED
        BY <1>1, <2>1, <3>2, <3>3, ApprovalKeeps DEF f
    <2> QED
      BY <2>3, <2>4
  <1> QED
    BY <1>2, <1>3 DEF Approvals

LEMMA CloseKeeps ==
    ASSUME Inv, CloseRoom
    PROVE  Inv'
  <1> DEFINE r == Invalidate(room)
  <1>1. Sound(room) /\ room.context \in Nat
    BY DEF Inv, RoomInv, Sound, RoomRecord
  <1>2. RoomInv(r) /\ r.context = room.context + 1
    BY <1>1, InvalidateKeeps
  <1>3. "CLOSED" \in Hidden /\ room' = ClearProposal(r, "CLOSED")
    BY DEF Hidden, CloseRoom
  <1> HIDE DEF r
  <1>4. RoomInv(room') /\ SameRound(r, room')
    BY <1>2, <1>3, ClearKeeps DEF RoomInv
  <1>5. room'.context > room.context
    BY <1>1, <1>2, <1>4 DEF SameRound, SameRest
  <1> QED
    BY <1>4, <1>5, RunsKept DEF CloseRoom

\* Looking at the room, being refused, and time.
LEMMA LookingKeeps ==
    ASSUME Inv, GetPublicSnapshot \/ Refuse \/ Tick
    PROVE  Inv'
  <1>1. RoomInv(room)
    BY DEF Inv
  <1>2. CASE GetPublicSnapshot
    BY <1>1, <1>2, SeenKeeps, RunsKept DEF GetPublicSnapshot
  <1>3. CASE Refuse
    BY <1>1, <1>3, SweepKeeps, RunsKept DEF Refuse
  <1>4. CASE Tick
    BY <1>1, <1>4, LaterKeeps, RunsKept DEF Tick
  <1> QED
    BY <1>2, <1>3, <1>4

\* A seat newly taken has been asked and told nothing.
LEMMA FreshIs ==
    ASSUME NEW m \in Member, NEW c \in Nat, NEW used, NEW published
    PROVE  /\ FreshOwner \in OwnerRecord
           /\ OwnerInv(FreshOwner, m, c, used, published)
           /\ Asked(FreshOwner) = 0 /\ Told(FreshOwner, c) = 0
           /\ FreshOwner.approval = 0 /\ FreshOwner.exceptions = {} /\ FreshOwner.offers = {}
  <1>1. /\ FreshOwner \in OwnerRecord
        /\ FreshOwner.offers = {} /\ FreshOwner.previews = {} /\ FreshOwner.exceptions = {}
        /\ FreshOwner.disclosures = {} /\ FreshOwner.approval = 0
    BY DEF FreshOwner, OwnerRecord
  <1>2. IsFiniteSet({}) /\ Cardinality({}) = 0
    BY FS_EmptySet
  <1> QED
    BY <1>1, <1>2 DEF OwnerInv, Asked, Told

\* The accounts of those who stay and the records of those who go fit where
\* everybody's accounts did.
LEMMA SeatsFit ==
    ASSUME NEW r, Sound(r), NEW s, OwnersFinite(s), NEW staying, NEW leaving,
           staying \cap leaving = {},
           s.retired = r.retired
             + CountAll([m \in Member |-> IF m \in leaving THEN Records(r, m) ELSE 0]),
           \A m \in Member :
              IF m \in staying
              THEN /\ Asked(s.owner[m]) <= Asked(r.owner[m])
                   /\ Told(s.owner[m], s.context) <= Told(r.owner[m], r.context)
              ELSE Asked(s.owner[m]) = 0 /\ Told(s.owner[m], s.context) = 0
    PROVE  Capacity(s)
  <1> DEFINE k == [m \in Member |-> IF m \in leaving THEN Records(r, m) ELSE 0]
             l == Account(s)
             n == Account(r)
  <1>1. OwnersFinite(r) /\ r.retired \in Nat /\ GrantLimit \in Nat /\ HistoryLimit \in Nat
    BY SoundFinite, RoomAssumption DEF Sound, RoomRecord
  <1>2. ASSUME NEW m \in Member
        PROVE  /\ Asked(s.owner[m]) \in Nat /\ Told(s.owner[m], s.context) \in Nat
               /\ Asked(r.owner[m]) \in Nat /\ Told(r.owner[m], r.context) \in Nat
               /\ Records(r, m) \in Nat
               /\ Records(r, m) <= Asked(r.owner[m]) + Told(r.owner[m], r.context)
    <2>1. OwnerFinite(s.owner[m]) /\ OwnerFinite(r.owner[m])
      BY <1>1 DEF OwnersFinite
    <2> QED
      BY <2>1, OwnerCounts DEF Records, Asked, Told
  <1>3. k \in Count /\ l \in Count /\ n \in Count
    <2>1. k \in Count
      BY <1>2 DEF Count
    <2> QED
      BY <1>1, <2>1, AccountTyped
  <1>4. ASSUME NEW m \in Member PROVE k[m] + l[m] <= n[m] /\ (k[m] = 0 \/ l[m] = 0)
    <2>1. l[m] = Asked(s.owner[m]) + Told(s.owner[m], s.context)
          /\ n[m] = Asked(r.owner[m]) + Told(r.owner[m], r.context)
      BY DEF Account
    <2>2. k[m] = IF m \in leaving THEN Records(r, m) ELSE 0
      OBVIOUS
    <2> HIDE DEF k, l, n
    <2>3. CASE m \in staying
      BY <1>2, <2>1, <2>2, <2>3
    <2>4. CASE m \notin staying
      BY <1>2, <2>1, <2>2, <2>4
    <2> QED
      BY <2>3, <2>4
  <1>5. s.retired = r.retired + CountAll(k)
    OBVIOUS
  <1>6. r.retired + CountAll(n) <= HistoryLimit
    BY DEF Sound, Capacity, Account
  <1>7. s.retired + CountAll(l) <= HistoryLimit
    <2> HIDE DEF k, l, n
    <2>1. CountAll(k) + CountAll(l) <= CountAll(n)
      BY <1>3, <1>4, CountIsAdditive
    <2>2. CountAll(k) \in Nat /\ CountAll(l) \in Nat /\ CountAll(n) \in Nat
      BY <1>3, BlocksFinite
    <2> QED
      BY <1>1, <1>5, <1>6, <2>1, <2>2
  <1>8. \A m \in Member : Asked(s.owner[m]) <= GrantLimit /\ Told(s.owner[m], s.context) <= GrantLimit
    BY <1>1, <1>2 DEF Sound, Capacity
  <1> QED
    BY <1>7, <1>8 DEF Capacity, Account

\* the room a new decision seats, before values are reopened
SeatedRoom(s, schedule, policy, present) ==
    s = [Invalidate(room) EXCEPT
            !.schedule = schedule, !.policy = policy, !.present = present,
            !.retired = room.retired + RetiredWith(room.present \ present),
            !.owner = [m \in Member |-> IF m \in present \cap room.present
                                        THEN Invalidate(room).owner[m] ELSE FreshOwner]]

\* What a new decision seats: a room of a new context.
LEMMA SeatedKeeps ==
    ASSUME Inv, NEW schedule \in Schedules, NEW policy \in Policies, NEW present \in SUBSET Member,
           NEW s, SeatedRoom(s, schedule, policy, present)
    PROVE  RoomInv(s) /\ s.context = room.context + 1
  <1> DEFINE r == Invalidate(room)
             gone == RetiredWith(room.present \ present)
             f == [m \in Member |-> IF m \in present \cap room.present
                                    THEN r.owner[m] ELSE FreshOwner]
  <1>1. /\ Sound(room) /\ room \in RoomRecord /\ room.context \in Nat /\ room.retired \in Nat
        /\ room.context + 1 \in Nat /\ OwnersFinite(room)
    BY SoundFinite DEF Inv, RoomInv, Sound, RoomRecord
  <1>2. /\ RoomInv(r) /\ r.context = room.context + 1 /\ r.retired = room.retired
        /\ r.status = "SUPERSEDED" /\ r.job = None /\ r.proposal = None /\ r.roundUsed = FALSE
        /\ r.present = room.present
        /\ \A m \in Member :
              /\ r.owner[m].approval = 0
              /\ r.owner[m].offers = {} /\ r.owner[m].previews = {}
              /\ Cardinality(r.owner[m].exceptions) <= Cardinality(room.owner[m].exceptions)
              /\ Cardinality(r.owner[m].disclosures) <= Cardinality(room.owner[m].disclosures)
              /\ \A g \in r.owner[m].exceptions : g.context < r.context
    BY <1>1, InvalidateKeeps
  <1> HIDE DEF r
  <1>3. /\ r \in RoomRecord /\ r.owner \in [Member -> OwnerRecord] /\ OwnersFinite(r)
        /\ OwnersInv(r) /\ RestInv(r)
    BY <1>2, SoundFinite DEF RoomInv, Sound, RoomRecord
  <1>4. gone \in Nat
    <2> DEFINE k == [m \in Member |-> IF m \in room.present \ present THEN Records(room, m) ELSE 0]
    <2>1. ASSUME NEW m \in Member PROVE Records(room, m) \in Nat
      BY <1>1, OwnerCounts DEF OwnersFinite, Records
    <2>2. k \in Count
      BY <2>1 DEF Count
    <2>3. gone = CountAll(k)
      BY DEF RetiredWith
    <2> HIDE DEF k, gone
    <2> QED
      BY <2>2, <2>3, BlocksFinite
  <1>5. ASSUME NEW m \in Member
        PROVE  /\ f[m] \in OwnerRecord /\ f[m].approval = 0 /\ f[m].offers = {}
               /\ OwnerInv(f[m], m, r.context, FALSE, r.published)
               /\ \A g \in f[m].exceptions : g.context < r.context
    <2>1. /\ r.context \in Nat /\ r.owner[m] \in OwnerRecord
          /\ OwnerInv(r.owner[m], m, r.context, FALSE, r.published)
      BY <1>1, <1>2, <1>3 DEF OwnersInv
    <2>2. f[m] = r.owner[m] \/ f[m] = FreshOwner
      OBVIOUS
    <2> HIDE DEF f
    <2>3. CASE f[m] = r.owner[m]
      BY <1>2, <2>1, <2>3
    <2>4. CASE f[m] = FreshOwner
      BY <2>1, <2>4, FreshIs
    <2> QED
      BY <2>2, <2>3, <2>4
  <1>6. f \in [Member -> OwnerRecord]
    BY <1>5
  <1>7. /\ s.owner = f /\ s.invitation = r.invitation /\ s.membership = r.membership
        /\ s.schedule = schedule /\ s.policy = policy /\ s.present = present
        /\ s.context = r.context /\ s.status = r.status /\ s.retired = room.retired + gone
        /\ s.proposal = r.proposal /\ s.proposalVersion = r.proposalVersion
        /\ s.published = r.published /\ s.receipts = r.receipts
        /\ s.roundUsed = r.roundUsed /\ s.solveEpoch = r.solveEpoch /\ s.job = r.job
        /\ s \in RoomRecord
    <2>1. s = [r EXCEPT !.schedule = schedule, !.policy = policy, !.present = present,
                        !.retired = room.retired + gone, !.owner = f]
      BY DEF r, SeatedRoom
    <2>2. room.retired + gone \in Nat
      BY <1>1, <1>4
    <2> HIDE DEF gone, f
    <2> QED
      BY <1>3, <1>6, <2>1, <2>2 DEF RoomRecord
  <1>8. OwnersInv(s)
    BY <1>2, <1>5, <1>7 DEF OwnersInv
  <1>9. OwnersFinite(s)
    BY <1>8, SoundFinite
  <1>10. Capacity(s)
    <2> DEFINE staying == present \cap room.present
               leaving == room.present \ present
    <2>1. staying \cap leaving = {}
      OBVIOUS
    <2>2. s.retired = room.retired
             + CountAll([m \in Member |-> IF m \in leaving THEN Records(room, m) ELSE 0])
      BY <1>7 DEF RetiredWith
    <2>3. ASSUME NEW m \in Member
          PROVE  IF m \in staying
                 THEN /\ Asked(s.owner[m]) <= Asked(room.owner[m])
                      /\ Told(s.owner[m], s.context) <= Told(room.owner[m], room.context)
                 ELSE Asked(s.owner[m]) = 0 /\ Told(s.owner[m], s.context) = 0
      <3>1. CASE m \in staying
        <4> DEFINE o == room.owner[m]
                   p == s.owner[m]
        <4>1. p = r.owner[m]
          BY <1>7, <3>1
        <4>2. OwnerFinite(p) /\ OwnerFinite(o)
          BY <1>1, <1>9 DEF OwnersFinite
        <4>3. /\ p.offers = {} /\ p.previews = {}
              /\ Cardinality(p.exceptions) <= Cardinality(o.exceptions)
              /\ Cardinality(p.disclosures) <= Cardinality(o.disclosures)
          BY <1>2, <4>1
        <4>4. Cardinality(p.offers) = 0 /\ Cardinality(p.previews) = 0
          BY <4>3, FS_EmptySet
        <4> HIDE DEF o, p
        <4>5. Asked(p) <= Asked(o)
          BY <4>2, <4>3, <4>4, OwnerCounts DEF Asked
        <4>6. Told(p, s.context) <= Told(o, room.context)
          <5>1. Cardinality(p.previews) <= Cardinality(o.previews)
            BY <4>2, <4>4, OwnerCounts
          <5> QED
            BY <4>2, <4>3, <5>1, ToldShrinks
        <4> QED
          BY <3>1, <4>5, <4>6 DEF o, p
      <3>2. CASE m \notin staying
        <4>1. s.owner[m] = FreshOwner /\ s.context \in Nat
          BY <1>1, <1>2, <1>7, <3>2
        <4> HIDE DEF staying
        <4>2. Asked(FreshOwner) = 0 /\ Told(FreshOwner, s.context) = 0
          BY <4>1, FreshIs
        <4> QED
          BY <3>2, <4>1, <4>2
      <3> QED
        BY <3>1, <3>2
    <2> HIDE DEF staying, leaving
    <2> QED
      BY <1>1, <1>9, <2>1, <2>2, <2>3, SeatsFit
  <1>11. StatusInv(s) /\ ProposalInv(s)
    BY <1>2, <1>5, <1>7 DEF StatusInv, ProposalInv, Shown
  <1>12. RestInv(s)
    BY <1>2, <1>3, <1>7 DEF RestInv
  <1>13. RoundInv(s)
    <2>1. ASSUME NEW m \in Member, NEW g \in s.owner[m].exceptions PROVE g.context # s.context
      <3>1. s.context \in Nat /\ g.context < s.context
        BY <1>1, <1>2, <1>5, <1>7
      <3>2. g \in Exception
        BY <1>5, <1>7 DEF OwnerRecord
      <3> QED
        BY <3>1, <3>2 DEF Exception
    <2> QED
      BY <2>1 DEF RoundInv, RoundOver
  <1> QED
    BY <1>2, <1>7, <1>8, <1>10, <1>11, <1>12, <1>13 DEF RoomInv, Sound

\* Values reopened as drafts leave permissions and the round alone.
LEMMA ReopenKeeps ==
    ASSUME NEW r, RoomInv(r)
    PROVE  RoomInv(ReopenInputs(r)) /\ SameContext(r, ReopenInputs(r))
  <1> DEFINE f == [m \in Member |->
                     [r.owner[m] EXCEPT !.draft = IF r.owner[m].confirmed # None
                                                  THEN r.owner[m].confirmed.values
                                                  ELSE r.owner[m].draft,
                                        !.confirmed = None]]
             s == [r EXCEPT !.owner = f]
  <1>1. Sound(r) /\ r \in RoomRecord /\ r.owner \in [Member -> OwnerRecord] /\ r.context \in Nat
    BY DEF RoomInv, Sound, RoomRecord
  <1>2. ReopenInputs(r) = s
    <2>1. ReopenInputs(r) = [r EXCEPT !.owner = [m \in Member |->
              [r.owner[m] EXCEPT !.draft = IF r.owner[m].confirmed # None
                                           THEN r.owner[m].confirmed.values ELSE @,
                                 !.confirmed = None]]]
      BY DEF ReopenInputs, EveryOwner
    <2>2. ASSUME NEW m \in Member
          PROVE  [r.owner[m] EXCEPT !.draft = IF r.owner[m].confirmed # None
                                              THEN r.owner[m].confirmed.values ELSE @,
                                    !.confirmed = None] = f[m]
      BY <1>1 DEF OwnerRecord
    <2> QED
      BY <2>1, <2>2
  <1>3. ASSUME NEW m \in Member
        PROVE  /\ f[m] \in OwnerRecord /\ f[m].approval = r.owner[m].approval
               /\ f[m].exceptions = r.owner[m].exceptions /\ f[m].offers = r.owner[m].offers
               /\ Follows(r.owner[m], f[m], m, r.context, r.roundUsed, r.published)
    <2> DEFINE o == r.owner[m]
               p == f[m]
    <2>1. o \in OwnerRecord /\ OwnerInv(o, m, r.context, r.roundUsed, r.published)
      BY <1>1 DEF Sound, OwnersInv
    <2>2. /\ p \in OwnerRecord /\ p.offers = o.offers /\ p.previews = o.previews
          /\ p.exceptions = o.exceptions /\ p.disclosures = o.disclosures /\ p.approval = o.approval
      BY <2>1 DEF OwnerRecord
    <2> HIDE DEF p
    <2>3. Follows(o, p, m, r.context, r.roundUsed, r.published)
      BY <1>1, <2>1, <2>2, SameFollows
    <2> QED
      BY <2>2, <2>3 DEF p
  <1>4. f \in [Member -> OwnerRecord]
    BY <1>3
  <1>5. Sound(s) /\ OwnersAside(r, s) /\ s.owner = f
    <2>1. s = [r EXCEPT !.owner = f]
      OBVIOUS
    <2> HIDE DEF f, s
    <2> QED
      BY <1>1, <1>3, <1>4, <2>1, OwnersKeep
  <1> HIDE DEF f, s
  <1>6. RoomInv(s) /\ SameContext(r, s)
    BY <1>3, <1>5, SamePermissionsKeep
  <1> QED
    BY <1>2, <1>6

LEMMA ReviseKeeps ==
    ASSUME Inv, NEW schedule \in Schedules, NEW policy \in Policies, NEW present \in SUBSET Member,
           ReviseDecision(schedule, policy, present), UNCHANGED run
    PROVE  Inv'
  <1> DEFINE r == Invalidate(room)
             s == [r EXCEPT
                !.schedule = schedule, !.policy = policy, !.present = present,
                !.retired = room.retired + RetiredWith(room.present \ present),
                !.owner = [m \in Member |-> IF m \in present \cap room.present
                                            THEN r.owner[m] ELSE FreshOwner]]
  <1>1. Sound(room) /\ room.context \in Nat
    BY DEF Inv, RoomInv, Sound, RoomRecord
  <1>2. r \in RoomRecord /\ r.retired = room.retired
    BY <1>1, InvalidateKeeps DEF RoomInv, Sound
  <1>3. room' = IF schedule = room.schedule THEN s ELSE ReopenInputs(s)
    <2>1. s = [r EXCEPT
                !.schedule = schedule, !.policy = policy, !.present = present,
                !.retired = r.retired + RetiredWith(room.present \ present),
                !.owner = [m \in Member |-> IF m \in present \cap room.present
                                            THEN r.owner[m] ELSE FreshOwner]]
      BY <1>2
    <2> QED
      BY <2>1, <1>2, Zenon DEF ReviseDecision
  <1>4. SeatedRoom(s, schedule, policy, present)
    BY DEF SeatedRoom
  <1> HIDE DEF s
  <1>5. RoomInv(s) /\ s.context = room.context + 1
    BY <1>4, SeatedKeeps
  <1>6. RoomInv(room') /\ room'.context = room.context + 1
    BY <1>3, <1>5, ReopenKeeps DEF SameContext
  <1>7. room'.context > room.context
    BY <1>1, <1>6
  <1> QED
    BY <1>6, <1>7, RunsKept

\* What the solver may answer for a room: a plan of its schedule that rests on
\* permissions its members gave.
LEMMA SolverAnswers ==
    ASSUME NEW r \in RoomRecord, NEW result \in SolveDecision(SolverInput(r))
    PROVE  /\ result \in [status : {"SOLVED", "NO_AGREEMENT", "NEEDS_CLARIFICATION"},
                          plan : Plans \cup {NoPlan}, required : SUBSET GrantRef]
           /\ result.status = "SOLVED" =>
                /\ result.plan \in StructuralPlans(r.schedule)
                /\ result.required \subseteq GrantRef
  <1> DEFINE input == SolverInput(r)
             plans == StructuralPlans(r.schedule)
             feasible == {p \in plans : EvaluateCandidate(input, p) = "FEASIBLE"}
  <1>1. input.schedule = r.schedule /\ input.grants = ActiveGrants(r)
    BY DEF SolverInput
  <1>2. r.schedule \in Schedules /\ r.owner \in [Member -> OwnerRecord]
    BY DEF RoomRecord
  <1>3. plans \subseteq Plans
    BY <1>2 DEF Plans
  <1>4. ActiveGrants(r) \subseteq GrantRef
    <2>1. ASSUME NEW m \in Member, NEW g \in r.owner[m].exceptions
          PROVE  [owner |-> m, name |-> g.name, slot |-> g.slot] \in GrantRef
      <3>1. g \in Exception
        BY <1>2 DEF OwnerRecord
      <3> QED
        BY <3>1 DEF Exception, GrantRef
    <2> QED
      BY <2>1 DEF ActiveGrants
  <1>5. \/ \E st \in {"NEEDS_CLARIFICATION", "NO_AGREEMENT"} : result = Answered(st)
        \/ \E p \in Best(input, feasible) :
              result = [status |-> "SOLVED", plan |-> p, required |-> RequiredGrants(input, p)]
    <2> HIDE DEF input
    <2>1. SolveDecision(input) =
            IF \/ \E s \in r.schedule.slots : s.to - s.from # MeetingLength
               \/ \E p \in plans : EvaluateCandidate(input, p) = "UNKNOWN"
            THEN {Answered("NEEDS_CLARIFICATION")}
            ELSE IF feasible = {} THEN {Answered("NO_AGREEMENT")}
            ELSE IF \E p \in feasible : ~CostsKnown(input, p)
            THEN {Answered("NEEDS_CLARIFICATION")}
            ELSE {[status |-> "SOLVED", plan |-> p, required |-> RequiredGrants(input, p)] :
                     p \in Best(input, feasible)}
      BY <1>1 DEF SolveDecision
    <2>2. result \in SolveDecision(input)
      BY DEF input
    <2> HIDE DEF plans, feasible
    <2> QED
      BY <2>1, <2>2
  <1> HIDE DEF input
  <1>6. ASSUME NEW st \in {"NEEDS_CLARIFICATION", "NO_AGREEMENT"}, result = Answered(st)
        PROVE  /\ result \in [status : {"SOLVED", "NO_AGREEMENT", "NEEDS_CLARIFICATION"},
                              plan : Plans \cup {NoPlan}, required : SUBSET GrantRef]
               /\ result.status # "SOLVED"
    BY <1>6 DEF Answered
  <1>7. ASSUME NEW p \in Best(input, feasible),
               result = [status |-> "SOLVED", plan |-> p, required |-> RequiredGrants(input, p)]
        PROVE  /\ result \in [status : {"SOLVED", "NO_AGREEMENT", "NEEDS_CLARIFICATION"},
                              plan : Plans \cup {NoPlan}, required : SUBSET GrantRef]
               /\ result.plan \in plans /\ result.required \subseteq GrantRef
    <2>1. p \in plans
      BY DEF Best
    <2>2. RequiredGrants(input, p) \subseteq GrantRef
      BY <1>1, <1>4 DEF RequiredGrants
    <2> HIDE DEF plans
    <2> QED
      BY <1>3, <1>7, <2>1, <2>2
  <1> QED
    BY <1>5, <1>6, <1>7

\* A run stays right while the room keeps its context and schedule.
LEMMA RunStays ==
    ASSUME NEW r, NEW s, NEW x, RunInv(r, x), s.context = r.context, s.schedule = r.schedule
    PROVE  RunInv(s, x)
  BY DEF RunInv

\* One run begins or ends, and the room keeps its context.
LEMMA OneRunKeeps ==
    ASSUME Inv, NEW w \in Worker, NEW x \in {None} \cup SolverRun, run' = [run EXCEPT ![w] = x],
           RoomInv(room'), room'.context = room.context, room'.schedule = room.schedule,
           x # None => RunInv(room', x)
    PROVE  Inv'
  <1>1. run \in [Worker -> {None} \cup SolverRun]
    BY DEF Inv
  <1>2. run' \in [Worker -> {None} \cup SolverRun]
    BY <1>1
  <1>3. ASSUME NEW v \in Worker, run'[v] # None PROVE RunInv(room', run'[v])
    <2>1. CASE v = w
      BY <1>1, <1>3, <2>1
    <2>2. CASE v # w
      <3>1. run'[v] = run[v]
        BY <1>1, <2>2
      <3>2. RunInv(room, run[v])
        BY <1>3, <3>1 DEF Inv
      <3> QED
        BY <3>1, <3>2, RunStays
    <2> QED
      BY <2>1, <2>2
  <1> QED
    BY <1>2, <1>3 DEF Inv

LEMMA StartKeeps ==
    ASSUME Inv, NEW w \in Worker, StartSolve(w)
    PROVE  Inv'
  <1> DEFINE r == Sweep(room)
  <1>1. RoomInv(r) /\ SameContext(room, r)
    BY SweepKeeps DEF Inv
  <1>2. PICK result \in SolveDecision(SolverInput(r)) :
           run' = [run EXCEPT ![w] = [epoch |-> r.job.epoch, context |-> r.context,
                                      result |-> result]]
    BY DEF StartSolve
  <1>3. room' = r /\ r.job # None
    BY DEF StartSolve
  <1> HIDE DEF r
  <1>4. r \in RoomRecord
    BY <1>1 DEF RoomInv, Sound
  <1>5. r.context \in Nat /\ r.job.epoch \in Nat
    BY <1>3, <1>4 DEF RoomRecord
  <1>6. /\ result \in [status : {"SOLVED", "NO_AGREEMENT", "NEEDS_CLARIFICATION"},
                       plan : Plans \cup {NoPlan}, required : SUBSET GrantRef]
        /\ result.status = "SOLVED" =>
             /\ result.plan \in StructuralPlans(r.schedule)
             /\ result.required \subseteq GrantRef
    BY <1>4, SolverAnswers
  <1> DEFINE x == [epoch |-> r.job.epoch, context |-> r.context, result |-> result]
  <1>7. x \in SolverRun
    BY <1>5, <1>6 DEF SolverRun
  <1>8. RunInv(r, x)
    BY <1>5, <1>6 DEF RunInv
  <1>9. run' = [run EXCEPT ![w] = x]
    BY <1>2
  <1> HIDE DEF x
  <1> QED
    BY <1>1, <1>3, <1>7, <1>8, <1>9, OneRunKeeps DEF SameContext

LEMMA StopWorkerKeeps ==
    ASSUME Inv, NEW w \in Worker, StopWorker(w)
    PROVE  Inv'
  <1>1. RoomInv(room') /\ room' = room
    BY DEF Inv, StopWorker
  <1> QED
    BY <1>1, OneRunKeeps DEF StopWorker

\* a room whose job is used up: nobody has refused and nothing is proposed yet
Answerable(r) ==
    /\ RoomInv(r)
    /\ r.job # None => r.job.completed
    /\ r.proposal = None
    /\ ~RoundOver(r)

\* The job a room waits for is taken as done.
LEMMA DoneKeeps ==
    ASSUME NEW r, RoomInv(r), r.job # None, ~r.job.completed
    PROVE  LET s == [r EXCEPT !.job.completed = TRUE] IN
           Answerable(s) /\ SameContext(r, s) /\ s.owner = r.owner
  <1> DEFINE j == [r.job EXCEPT !.completed = TRUE]
             s == [r EXCEPT !.job.completed = TRUE]
  <1>1. r \in RoomRecord
    BY DEF RoomInv, Sound
  <1>2. r.job \in [epoch : Nat, context : Nat, completed : BOOLEAN]
    BY <1>1 DEF RoomRecord
  <1>3. /\ j \in [epoch : Nat, context : Nat, completed : BOOLEAN]
        /\ j.epoch = r.job.epoch /\ j.context = r.job.context /\ j.completed
    BY <1>2
  <1>4. s = [r EXCEPT !.job = j]
    BY <1>1 DEF RoomRecord
  <1> HIDE DEF j
  <1>5. s \in RoomRecord
    BY <1>1, <1>3, <1>4 DEF RoomRecord
  <1>6. /\ s.owner = r.owner /\ s.invitation = r.invitation /\ s.membership = r.membership
        /\ s.schedule = r.schedule /\ s.policy = r.policy /\ s.present = r.present
        /\ s.context = r.context /\ s.status = r.status /\ s.retired = r.retired
        /\ s.proposal = r.proposal /\ s.proposalVersion = r.proposalVersion
        /\ s.published = r.published /\ s.receipts = r.receipts
        /\ s.roundUsed = r.roundUsed /\ s.solveEpoch = r.solveEpoch /\ s.job = j
    BY <1>1, <1>4 DEF RoomRecord
  <1> HIDE DEF s
  <1>7. OwnersInv(s) /\ Capacity(s)
    BY <1>6 DEF RoomInv, Sound, OwnersInv, Capacity
  <1>8. StatusInv(s) /\ ProposalInv(s)
    BY <1>3, <1>6 DEF RoomInv, Sound, StatusInv, ProposalInv, Unanimous
  <1>9. RestInv(s)
    BY <1>3, <1>6 DEF RoomInv, Sound, RestInv
  <1>10. ~RoundOver(s)
    <2>1. ~RoundOver(r)
      BY DEF RoomInv, RoundInv
    <2> QED
      BY <1>6, <2>1 DEF RoundOver
  <1>11. s.proposal = None
    BY <1>6 DEF RoomInv, Sound, StatusInv
  <1>12. SameContext(r, s)
    BY <1>6 DEF SameContext
  <1> QED
    BY <1>3, <1>5, <1>6, <1>7, <1>8, <1>9, <1>10, <1>11, <1>12
       DEF s, RoomInv, Sound, RoundInv, Answerable

\* The round of the context is taken as used.
LEMMA UsedKeeps ==
    ASSUME NEW r, Answerable(r)
    PROVE  LET s == [r EXCEPT !.roundUsed = TRUE] IN
           /\ Answerable(s)
           /\ s.context = r.context /\ s.schedule = r.schedule /\ s.owner = r.owner
           /\ s.retired = r.retired /\ s.roundUsed
  <1> DEFINE s == [r EXCEPT !.roundUsed = TRUE]
  <1>1. r \in RoomRecord
    BY DEF Answerable, RoomInv, Sound
  <1>2. s \in RoomRecord
    BY <1>1 DEF RoomRecord
  <1>3. /\ s.owner = r.owner /\ s.invitation = r.invitation /\ s.membership = r.membership
        /\ s.schedule = r.schedule /\ s.policy = r.policy /\ s.present = r.present
        /\ s.context = r.context /\ s.status = r.status /\ s.retired = r.retired
        /\ s.proposal = r.proposal /\ s.proposalVersion = r.proposalVersion
        /\ s.published = r.published /\ s.receipts = r.receipts
        /\ s.roundUsed = TRUE /\ s.solveEpoch = r.solveEpoch /\ s.job = r.job
    BY <1>1 DEF RoomRecord
  <1> HIDE DEF s
  <1>4. OwnersInv(s)
    BY <1>3 DEF Answerable, RoomInv, Sound, OwnersInv, OwnerInv
  <1>5. Capacity(s)
    BY <1>3 DEF Answerable, RoomInv, Sound, Capacity
  <1>6. StatusInv(s) /\ ProposalInv(s) /\ RestInv(s)
    BY <1>3 DEF Answerable, RoomInv, Sound, StatusInv, ProposalInv, RestInv, Unanimous
  <1>7. ~RoundOver(s)
    BY <1>3 DEF Answerable, RoundOver
  <1> QED
    BY <1>2, <1>3, <1>4, <1>5, <1>6, <1>7 DEF s, Answerable, RoomInv, RoundInv, Sound

\* What may be waived are finitely many conditions members confirmed.
LEMMA AlternativesAre ==
    ASSUME NEW r \in RoomRecord, Ready(r), NEW grants \in Alternatives(r)
    PROVE  /\ IsFiniteSet(grants)
           /\ \A g \in grants : g.owner \in Member /\ g.name \in Name /\ g.slot \in Slot
           /\ CanReserve(r, AdditionalOffers(grants))
  <1>1. PICK slot \in r.schedule.slots, owners \in SUBSET Member :
           grants = UNION {Waivable(r, slot, m) : m \in owners}
    BY DEF Alternatives
  <1>2. slot \in Slot
    BY DEF RoomRecord, Slot
  <1>3. ASSUME NEW m \in Member
        PROVE  /\ IsFiniteSet(Waivable(r, slot, m))
               /\ \A g \in Waivable(r, slot, m) :
                     g.owner \in Member /\ g.name \in Name /\ g.slot \in Slot
    <2> DEFINE v == r.owner[m].confirmed.values
               C == {c \in v.asks : c.invite /\ Overlaps(c.at, slot)}
               f == [c \in C |-> [owner |-> m, name |-> c.name, slot |-> slot]]
    <2>1. v \in Values
      BY DEF Ready, RoomRecord, OwnerRecord
    <2>2. IsFiniteSet(v.asks)
      BY <2>1, RoomAssumption
    <2>3. IsFiniteSet(C)
      BY <2>2, FS_Subset
    <2>4. Waivable(r, slot, m) = {f[c] : c \in C}
      BY DEF Waivable
    <2>5. \A c \in C : f[c] = [owner |-> m, name |-> c.name, slot |-> slot] /\ c.name \in Name
      BY <2>1 DEF Name
    <2>6. IsFiniteSet({f[c] : c \in C})
      <3>1. f = [c \in C |-> f[c]]
        OBVIOUS
      <3> HIDE DEF f, C
      <3> QED
        BY <2>3, <3>1, ImageBound
    <2> HIDE DEF f, C
    <2>7. ASSUME NEW g \in Waivable(r, slot, m)
          PROVE  g.owner \in Member /\ g.name \in Name /\ g.slot \in Slot
      <3>1. PICK c \in C : g = f[c]
        BY <2>4
      <3>2. g = [owner |-> m, name |-> c.name, slot |-> slot] /\ c.name \in Name
        BY <2>5, <3>1
      <3> QED
        BY <1>2, <3>2
    <2> QED
      BY <2>4, <2>6, <2>7
  <1> DEFINE W == [m \in owners |-> Waivable(r, slot, m)]
             all == {W[m] : m \in owners}
  <1>4. IsFiniteSet(owners)
    BY RoomAssumption, FS_Subset
  <1>5. IsFiniteSet(all)
    <2>1. W = [m \in owners |-> W[m]]
      OBVIOUS
    <2> HIDE DEF W
    <2> QED
      BY <1>4, <2>1, ImageBound
  <1>6. \A S \in all : IsFiniteSet(S)
    BY <1>3
  <1>7. grants = UNION all
    BY <1>1
  <1>8. \A g \in grants : g.owner \in Member /\ g.name \in Name /\ g.slot \in Slot
    BY <1>1, <1>3
  <1>9. IsFiniteSet(UNION all)
    <2> HIDE DEF all
    <2> QED
      BY <1>5, <1>6, FS_UNION
  <1>10. CanReserve(r, AdditionalOffers(grants))
    BY DEF Alternatives
  <1> QED
    BY <1>7, <1>8, <1>9, <1>10

\* what member m is asked for when a set of grants is offered
OffersOf(r, grants, m) ==
    {[name |-> g.name, slot |-> g.slot, context |-> r.context, left |-> PermissionTtl] :
        g \in {g \in grants : g.owner = m}}

\* Each member is asked no more often than was reserved.
LEMMA OffersOfAre ==
    ASSUME NEW r \in RoomRecord, NEW grants, IsFiniteSet(grants),
           \A g \in grants : g.owner \in Member /\ g.name \in Name /\ g.slot \in Slot,
           NEW m \in Member
    PROVE  /\ OffersOf(r, grants, m) \in SUBSET Offer
           /\ IsFiniteSet(OffersOf(r, grants, m))
           /\ AdditionalOffers(grants)[m] \in Nat
           /\ Cardinality(OffersOf(r, grants, m)) <= AdditionalOffers(grants)[m]
           /\ \A x \in OffersOf(r, grants, m) : x.context = r.context
  <1> DEFINE G == {g \in grants : g.owner = m}
             O(g) == [name |-> g.name, slot |-> g.slot, context |-> r.context,
                      left |-> PermissionTtl]
             f == [g \in G |-> O(g)]
  <1>1. IsFiniteSet(G)
    BY FS_Subset
  <1>2. OffersOf(r, grants, m) = {f[g] : g \in G}
    BY DEF OffersOf
  <1>3. AdditionalOffers(grants)[m] = Cardinality(G)
    BY DEF AdditionalOffers
  <1>4. ASSUME NEW g \in G PROVE f[g] \in Offer /\ f[g].context = r.context
    <2>1. r.context \in Nat /\ PermissionTtl \in Nat
      BY RoomAssumption DEF RoomRecord
    <2>2. g.name \in Name /\ g.slot \in Slot
      OBVIOUS
    <2> QED
      BY <2>1, <2>2 DEF Offer
  <1>5. f = [g \in G |-> f[g]]
    OBVIOUS
  <1> HIDE DEF f, G
  <1>6. IsFiniteSet({f[g] : g \in G}) /\ Cardinality({f[g] : g \in G}) <= Cardinality(G)
    BY <1>1, <1>5, ImageBound
  <1>7. Cardinality(G) \in Nat
    BY <1>1, FS_CardinalityType
  <1>8. ASSUME NEW x \in OffersOf(r, grants, m) PROVE x \in Offer /\ x.context = r.context
    <2>1. PICK g \in G : x = f[g]
      BY <1>2
    <2> QED
      BY <1>4, <2>1
  <1> QED
    BY <1>2, <1>3, <1>6, <1>7, <1>8

\* A concession asks for what it reserved, once in a context.
LEMMA ConcessionKeeps ==
    ASSUME NEW r, Answerable(r), Ready(r), ~r.roundUsed, NEW grants \in Alternatives(r),
           NEW u, Answerable(u), u.context = r.context, u.schedule = r.schedule,
           u.owner = r.owner, u.retired = r.retired, u.roundUsed,
           NEW s, s = [WithOffers(u, grants) EXCEPT !.status = "PRIVATE_REVIEW"]
    PROVE  RoomInv(s) /\ s.context = r.context /\ s.schedule = r.schedule
  <1> DEFINE f == [m \in Member |-> [r.owner[m] EXCEPT !.offers = OffersOf(r, grants, m)]]
             more == AdditionalOffers(grants)
  <1>1. /\ Answerable(u) /\ u.context = r.context /\ u.schedule = r.schedule /\ u.owner = r.owner
        /\ u.retired = r.retired /\ u.roundUsed
    OBVIOUS
  <1>2. /\ RoomInv(u) /\ Sound(u) /\ u \in RoomRecord /\ u.owner \in [Member -> OwnerRecord]
        /\ OwnersInv(u) /\ OwnersFinite(u) /\ u.context \in Nat
    BY <1>1, SoundFinite DEF Answerable, RoomInv, Sound, RoomRecord
  <1>3. r \in RoomRecord /\ r.retired \in Nat /\ OwnersFinite(r)
    BY SoundFinite DEF Answerable, RoomInv, Sound, RoomRecord
  <1>4. /\ IsFiniteSet(grants) /\ CanReserve(r, more)
        /\ \A g \in grants : g.owner \in Member /\ g.name \in Name /\ g.slot \in Slot
    BY <1>3, AlternativesAre
  <1>5. ASSUME NEW m \in Member
        PROVE  /\ OffersOf(r, grants, m) \in SUBSET Offer
               /\ IsFiniteSet(OffersOf(r, grants, m))
               /\ more[m] \in Nat
               /\ Cardinality(OffersOf(r, grants, m)) <= more[m]
               /\ \A x \in OffersOf(r, grants, m) : x.context = r.context
    BY <1>3, <1>4, OffersOfAre
  <1>6. more \in Count
    <2>1. more = [m \in Member |-> more[m]]
      BY DEF AdditionalOffers
    <2> HIDE DEF more
    <2> QED
      BY <1>5, <2>1 DEF Count
  <1>7. ASSUME NEW m \in Member
        PROVE  /\ f[m] \in OwnerRecord
               /\ f[m].offers = OffersOf(r, grants, m)
               /\ f[m].previews = r.owner[m].previews
               /\ f[m].exceptions = r.owner[m].exceptions
               /\ f[m].disclosures = r.owner[m].disclosures
               /\ f[m].approval = r.owner[m].approval
    BY <1>1, <1>2, <1>5 DEF OwnerRecord
  <1>8. WithOffers(u, grants) = [u EXCEPT !.owner = f]
    BY <1>1 DEF WithOffers, OffersOf
  <1>9. f \in [Member -> OwnerRecord]
    BY <1>7
  <1> HIDE DEF f, more
  <1>10. s \in RoomRecord
    <2>1. s = [u EXCEPT !.owner = f, !.status = "PRIVATE_REVIEW"]
      BY <1>8
    <2>2. "PRIVATE_REVIEW" \in Hidden
      BY DEF Hidden
    <2> QED
      BY <1>2, <1>9, <2>1, <2>2 DEF RoomRecord
  <1>11. /\ s.owner = f /\ s.invitation = u.invitation /\ s.membership = u.membership
         /\ s.schedule = u.schedule /\ s.policy = u.policy /\ s.present = u.present
         /\ s.context = u.context /\ s.status = "PRIVATE_REVIEW" /\ s.retired = u.retired
         /\ s.proposal = u.proposal /\ s.proposalVersion = u.proposalVersion
         /\ s.published = u.published /\ s.receipts = u.receipts
         /\ s.roundUsed = u.roundUsed /\ s.solveEpoch = u.solveEpoch /\ s.job = u.job
    BY <1>2, <1>8 DEF RoomRecord
  <1>12. OwnersInv(s)
    <2>1. ASSUME NEW m \in Member
          PROVE  OwnerInv(f[m], m, u.context, u.roundUsed, u.published)
      <3>1. OwnerInv(u.owner[m], m, u.context, u.roundUsed, u.published)
        BY <1>2 DEF OwnersInv
      <3> QED
        BY <1>1, <1>5, <1>7, <3>1 DEF OwnerInv
    <2> QED
      BY <1>11, <2>1 DEF OwnersInv
  <1>13. Capacity(s)
    <2>1. OwnersFinite(s)
      BY <1>12, SoundFinite
    <2>2. ASSUME NEW m \in Member
          PROVE  /\ Asked(s.owner[m]) <= Cardinality(r.owner[m].exceptions) + Pending(r, m, more[m])
                 /\ Told(s.owner[m], s.context)
                      <= Cardinality(r.owner[m].disclosures) + Responses(r, m, more[m])
      <3> DEFINE o == r.owner[m]
                 p == s.owner[m]
      <3>1. /\ p.offers = OffersOf(r, grants, m) /\ p.previews = o.previews
            /\ p.exceptions = o.exceptions /\ p.disclosures = o.disclosures
            /\ s.context = r.context
        BY <1>1, <1>7, <1>11
      <3>2. OwnerFinite(o) /\ OwnerFinite(p)
        BY <1>3, <2>1 DEF OwnersFinite
      <3>3. more[m] \in Nat /\ Cardinality(p.offers) <= more[m]
        BY <1>5, <3>1
      <3>4. /\ Cardinality(p.offers) \in Nat /\ Cardinality(o.offers) \in Nat
            /\ Cardinality(o.previews) \in Nat /\ Cardinality(o.exceptions) \in Nat
            /\ Cardinality(o.disclosures) \in Nat
            /\ p.offers # {} => Cardinality(p.offers) > 0
        BY <3>2, OwnerCounts
      <3>5. Pending(r, m, more[m]) = Cardinality(o.offers) + more[m]
        BY DEF Pending
      <3>6. Responses(r, m, more[m]) =
              Cardinality(o.previews)
              + (IF Pending(r, m, more[m]) > 0 /\ ~Settled(o, r.context) THEN 1 ELSE 0)
        BY <1>3, <3>3, ResponsesAre
      <3>7. Settled(p, s.context) <=> Settled(o, r.context)
        BY <3>1 DEF Settled
      <3>8. Asked(p) <= Cardinality(o.exceptions) + Pending(r, m, more[m])
        BY <3>1, <3>3, <3>4, <3>5 DEF Asked
      <3>9. Told(p, s.context) <= Cardinality(o.disclosures) + Responses(r, m, more[m])
        <4>1. Told(p, s.context) =
                Cardinality(o.disclosures) + Cardinality(o.previews)
                + (IF p.offers # {} /\ ~Settled(o, r.context) THEN 1 ELSE 0)
          BY <3>1, <3>7 DEF Told
        <4> HIDE DEF o, p
        <4>2. p.offers # {} => Pending(r, m, more[m]) > 0
          BY <3>3, <3>4, <3>5
        <4> QED
          BY <3>4, <3>6, <4>1, <4>2
      <3> QED
        BY <3>8, <3>9
    <2>3. s.retired = r.retired
      BY <1>1, <1>11
    <2> QED
      BY <1>3, <1>4, <1>6, <2>1, <2>2, <2>3, ReserveSuffices
  <1>14. StatusInv(s) /\ ProposalInv(s)
    <2>1. s.proposal = None /\ u.status \notin Shown
      BY <1>1, <1>11 DEF Answerable, RoomInv, Sound, StatusInv
    <2>2. u.status \in Hidden
      BY <1>2, <2>1 DEF RoomRecord
    <2>3. \A m \in Member : f[m].approval = 0
      BY <1>1, <1>2, <1>7, <2>2 DEF Sound, StatusInv
    <2> QED
      BY <1>11, <2>1, <2>3 DEF StatusInv, ProposalInv, Shown
  <1>15. RestInv(s)
    BY <1>2, <1>11 DEF Sound, RestInv
  <1>16. ~RoundOver(s)
    BY <1>1, <1>7, <1>11 DEF Answerable, RoundOver
  <1> QED
    BY <1>1, <1>10, <1>11, <1>12, <1>13, <1>14, <1>15, <1>16 DEF RoomInv, RoundInv, Sound

\* The room as AfterNoAgreement leaves it.
LEMMA NoAgreementKeeps ==
    ASSUME NEW r, Answerable(r), Ready(r), NEW s \in AfterNoAgreement(r)
    PROVE  RoomInv(s) /\ s.context = r.context /\ s.schedule = r.schedule
  <1> DEFINE u == [r EXCEPT !.roundUsed = TRUE]
  <1>1. /\ Answerable(u) /\ u.context = r.context /\ u.schedule = r.schedule /\ u.owner = r.owner
        /\ u.retired = r.retired /\ u.roundUsed
    BY UsedKeeps
  <1>2. CASE r.roundUsed \/ Alternatives(r) = {}
    <2>1. s = ClearProposal(u, "NO_AGREEMENT")
      BY <1>2 DEF AfterNoAgreement
    <2>2. "NO_AGREEMENT" \in Hidden
      BY DEF Hidden
    <2> HIDE DEF u
    <2> QED
      BY <1>1, <2>1, <2>2, ClearKeeps DEF Answerable, RoomInv, SameRound, SameRest
  <1>3. CASE ~r.roundUsed /\ Alternatives(r) # {}
    <2>1. PICK grants \in Smallest(Alternatives(r)) :
             s = [WithOffers(u, grants) EXCEPT !.status = "PRIVATE_REVIEW"]
      BY <1>3 DEF AfterNoAgreement
    <2>2. grants \in Alternatives(r)
      BY DEF Smallest
    <2> HIDE DEF u
    <2> QED
      BY <1>1, <1>3, <2>1, <2>2, ConcessionKeeps
  <1> QED
    BY <1>2, <1>3

\* What was allowed for a proposal lasts for a time.
LEMMA GrantLeftsAre ==
    ASSUME NEW r \in RoomRecord, NEW refs \in SUBSET GrantRef
    PROVE  GrantLefts(r, refs) \in SUBSET Nat
  <1>1. ASSUME NEW ref \in refs, NEW g \in r.owner[ref.owner].exceptions PROVE g.left \in Nat
    <2>1. r.owner[ref.owner] \in OwnerRecord
      BY DEF RoomRecord, GrantRef
    <2> QED
      BY <2>1 DEF OwnerRecord, Exception
  <1> QED
    BY <1>1 DEF GrantLefts

\* A plan found for the room becomes its proposal.
LEMMA ProposedKeeps ==
    ASSUME NEW r, Answerable(r), Ready(r), NEW result,
           result.plan \in StructuralPlans(r.schedule), result.required \subseteq GrantRef
    PROVE  /\ RoomInv(Proposed(r, result))
           /\ Proposed(r, result).context = r.context
           /\ Proposed(r, result).schedule = r.schedule
  <1> DEFINE f == [m \in Member |-> [r.owner[m] EXCEPT !.approval = 0]]
             left == Min({ProposalTtl} \cup GrantLefts(r, result.required))
             proposal == [version |-> r.proposalVersion + 1, context |-> r.context,
                          policy |-> r.policy, plan |-> result.plan, left |-> left]
             version == r.proposalVersion + 1
             s == [r EXCEPT !.owner = f, !.proposalVersion = version,
                            !.required = result.required, !.proposal = proposal,
                            !.status = "PROPOSED"]
  <1>1. /\ RoomInv(r) /\ Sound(r) /\ r \in RoomRecord /\ r.owner \in [Member -> OwnerRecord]
        /\ r.context \in Nat /\ r.proposalVersion \in Nat /\ r.retired \in Nat
        /\ r.schedule \in Schedules /\ r.policy \in Policies
    BY DEF Answerable, RoomInv, Sound, RoomRecord
  <1>2. r.present = Member /\ (r.job # None => r.job.completed) /\ ~RoundOver(r)
    BY DEF Ready, Answerable
  <1>3. left \in Nat
    <2>1. ProposalTtl \in Nat
      BY RoomAssumption
    <2>2. {ProposalTtl} \cup GrantLefts(r, result.required) \in SUBSET Nat
      BY <1>1, <2>1, GrantLeftsAre
    <2> QED
      BY <2>2, LeastIsTime
  <1>4. result.plan \in Plans /\ result.plan.slot \in r.schedule.slots
    <2>1. result.plan \in Plans
      BY <1>1 DEF Plans
    <2>2. result.plan.slot \in r.schedule.slots
      BY DEF StructuralPlans
    <2> QED
      BY <2>1, <2>2
  <1> HIDE DEF left
  <1>5. version \in Nat
    BY <1>1
  <1>6. proposal \in Proposal
    BY <1>1, <1>3, <1>4, <1>5 DEF Proposal
  <1>7. proposal # None
    BY <1>6, RoomAssumption
  <1>8. ASSUME NEW m \in Member
        PROVE  /\ f[m] \in OwnerRecord /\ f[m].approval = 0
               /\ f[m].exceptions = r.owner[m].exceptions /\ f[m].offers = r.owner[m].offers
               /\ Follows(r.owner[m], f[m], m, r.context, r.roundUsed, r.published)
    <2>1. OwnerInv(r.owner[m], m, r.context, r.roundUsed, r.published) /\ r.owner[m] \in OwnerRecord
      BY <1>1 DEF Sound, OwnersInv
    <2>2. f[m] = [r.owner[m] EXCEPT !.approval = 0]
      OBVIOUS
    <2> HIDE DEF f
    <2>3. Follows(r.owner[m], f[m], m, r.context, r.roundUsed, r.published)
      <3> DEFINE o == r.owner[m]
      <3>1. OwnerInv(o, m, r.context, r.roundUsed, r.published) /\ o \in OwnerRecord
        BY <2>1
      <3> HIDE DEF o
      <3>2. \A a \in Nat :
               Follows(o, [o EXCEPT !.approval = a], m, r.context, r.roundUsed, r.published)
        BY <1>1, <3>1, OwnerFollows
      <3>3. Follows(o, [o EXCEPT !.approval = 0], m, r.context, r.roundUsed, r.published)
        BY <3>2
      <3> QED
        BY <2>2, <3>3 DEF o
    <2> QED
      BY <2>1, <2>2, <2>3 DEF OwnerRecord, Follows
  <1>9. f \in [Member -> OwnerRecord]
    BY <1>8
  <1>10. s = Proposed(r, result)
    <2>1. Proposed(r, result) =
            [[r EXCEPT !.owner = f] EXCEPT
                !.proposalVersion = @ + 1, !.required = result.required,
                !.proposal = proposal, !.status = "PROPOSED"]
      BY DEF Proposed, EveryOwner, left
    <2> HIDE DEF f, proposal
    <2> QED
      BY <1>1, <2>1 DEF RoomRecord
  <1> HIDE DEF f
  <1>11. /\ proposal.context = r.context /\ proposal.policy = r.policy
         /\ proposal.version = version /\ proposal.plan = result.plan
    OBVIOUS
  <1> HIDE DEF proposal, version
  <1>12. s \in RoomRecord
    <2>1. "PROPOSED" \in Shown
      BY DEF Shown
    <2> QED
      BY <1>1, <1>5, <1>6, <1>9, <2>1 DEF RoomRecord
  <1>13. /\ s.owner = f /\ s.invitation = r.invitation /\ s.membership = r.membership
         /\ s.schedule = r.schedule /\ s.policy = r.policy /\ s.present = r.present
         /\ s.context = r.context /\ s.status = "PROPOSED" /\ s.retired = r.retired
         /\ s.proposal = proposal /\ s.proposalVersion = version
         /\ s.published = r.published /\ s.receipts = r.receipts
         /\ s.roundUsed = r.roundUsed /\ s.solveEpoch = r.solveEpoch /\ s.job = r.job
    BY <1>1 DEF RoomRecord
  <1> HIDE DEF s
  <1>14. OwnersInv(s) /\ Capacity(s)
    <2>1. OwnersFollow(r, s)
      BY <1>8, <1>13 DEF OwnersFollow
    <2> QED
      BY <1>1, <1>13, <2>1, FollowersFit
  <1>15. StatusInv(s)
    BY <1>2, <1>7, <1>8, <1>13 DEF StatusInv, Shown, Hidden
  <1>16. ProposalInv(s)
    BY <1>2, <1>4, <1>11, <1>13 DEF ProposalInv
  <1>17. RestInv(s)
    BY <1>1, <1>13 DEF Sound, RestInv
  <1>18. ~RoundOver(s)
    BY <1>2, <1>8, <1>13 DEF RoundOver
  <1> QED
    BY <1>10, <1>12, <1>13, <1>14, <1>15, <1>16, <1>17, <1>18 DEF RoomInv, RoundInv, Sound

\* The room as AfterSolved leaves it, whether or not the plan came in time.
LEMMA SolvedKeeps ==
    ASSUME NEW r, Answerable(r), Ready(r), NEW result,
           result.plan \in StructuralPlans(r.schedule), result.required \subseteq GrantRef,
           NEW s \in AfterSolved(r, result)
    PROVE  RoomInv(s) /\ s.context = r.context /\ s.schedule = r.schedule
  <1> DEFINE proposed == Proposed(r, result)
             late == Later(proposed)
  <1>1. RoomInv(proposed) /\ proposed.context = r.context /\ proposed.schedule = r.schedule
    BY ProposedKeeps
  <1>2. \/ s = proposed
        \/ s = ClearProposal(proposed, "SUPERSEDED")
        \/ s = ClearProposal(late, "SUPERSEDED")
    BY DEF AfterSolved
  <1> HIDE DEF proposed
  <1>3. RoomInv(late) /\ late.context = r.context /\ late.schedule = r.schedule
    BY <1>1, LaterKeeps DEF SameContext
  <1> HIDE DEF late
  <1>4. "SUPERSEDED" \in Hidden
    BY DEF Hidden
  <1>5. ASSUME NEW q, RoomInv(q), s = ClearProposal(q, "SUPERSEDED")
        PROVE  RoomInv(s) /\ s.context = q.context /\ s.schedule = q.schedule
    BY <1>4, <1>5, ClearKeeps DEF RoomInv, SameRound, SameRest
  <1> QED
    BY <1>1, <1>2, <1>3, <1>5

LEMMA FinishKeeps ==
    ASSUME Inv, NEW w \in Worker, FinishSolve(w)
    PROVE  Inv'
  <1> DEFINE r == Sweep(room)
             done == [r EXCEPT !.job.completed = TRUE]
             x == run[w]
  <1>1. RoomInv(room) /\ RoomInv(r) /\ SameContext(room, r)
    BY SweepKeeps DEF Inv
  <1>2. x # None /\ run' = [run EXCEPT ![w] = None] /\ x \in SolverRun /\ RunInv(room, x)
    BY DEF FinishSolve, Inv
  <1>3. \/ room' = room
        \/ room' = r
        \/ /\ StillAwaited(r, x)
           /\ \/ /\ x.result.status = "NEEDS_CLARIFICATION"
                 /\ room' = ClearProposal(done, "COLLECTING")
              \/ /\ x.result.status = "NO_AGREEMENT"
                 /\ room' \in AfterNoAgreement(done)
              \/ /\ x.result.status = "SOLVED"
                 /\ room' \in AfterSolved(done, x.result)
    BY DEF FinishSolve
  <1> HIDE DEF r
  <1>4. ASSUME StillAwaited(r, x)
        PROVE  /\ Answerable(done) /\ Ready(done)
               /\ done.context = room.context /\ done.schedule = room.schedule
               /\ x.result.status = "SOLVED" =>
                    /\ x.result.plan \in StructuralPlans(done.schedule)
                    /\ x.result.required \subseteq GrantRef
    <2>1. r.job # None /\ ~r.job.completed /\ r.context = x.context /\ Ready(r)
      BY <1>4 DEF StillAwaited
    <2>2. Answerable(done) /\ SameContext(r, done) /\ done.owner = r.owner
      BY <1>1, <2>1, DoneKeeps
    <2> HIDE DEF done
    <2>3. Ready(done)
      BY <2>1, <2>2 DEF Ready, SameContext
    <2>4. done.context = room.context /\ done.schedule = room.schedule
      BY <1>1, <2>2 DEF SameContext
    <2> QED
      BY <1>1, <1>2, <2>1, <2>2, <2>3, <2>4 DEF RunInv, SameContext
  <1> HIDE DEF done
  <1>5. RoomInv(room') /\ room'.context = room.context /\ room'.schedule = room.schedule
    <2>1. CASE room' = room \/ room' = r
      BY <1>1, <2>1 DEF SameContext
    <2>2. CASE StillAwaited(r, x) /\ room' = ClearProposal(done, "COLLECTING")
      <3>1. "COLLECTING" \in Hidden
        BY DEF Hidden
      <3> QED
        BY <1>4, <2>2, <3>1, ClearKeeps DEF Answerable, RoomInv, SameRound, SameRest
    <2>3. CASE StillAwaited(r, x) /\ room' \in AfterNoAgreement(done)
      BY <1>4, <2>3, NoAgreementKeeps
    <2>4. CASE /\ StillAwaited(r, x) /\ x.result.status = "SOLVED"
               /\ room' \in AfterSolved(done, x.result)
      BY <1>4, <2>4, SolvedKeeps
    <2> QED
      BY <1>3, <2>1, <2>2, <2>3, <2>4
  <1> QED
    BY <1>2, <1>5, OneRunKeeps

(***************************************************************************)
(* The invariant.                                                          *)
(***************************************************************************)

LEMMA InitInv ==
    ASSUME Init
    PROVE  Inv
  <1>1. /\ room.schedule \in Schedules /\ room.policy \in Policies /\ room.present = Member
        /\ room.membership = [m \in Member |-> IF m \in Invited THEN "PENDING" ELSE "ACTIVE"]
        /\ room.invitation = [m \in Member |-> None]
        /\ room.context = 1 /\ room.status = "COLLECTING"
        /\ room.owner = [m \in Member |-> FreshOwner]
        /\ room.retired = 0 /\ room.proposal = None /\ room.proposalVersion = 0
        /\ room.required = {} /\ room.published = {} /\ room.receipts = 0
        /\ room.roundUsed = FALSE /\ room.solveEpoch = 0 /\ room.job = None
    BY DEF Init, CreatedRooms
  <1>2. ASSUME NEW m \in Member
        PROVE  /\ room.owner[m] = FreshOwner /\ FreshOwner \in OwnerRecord
               /\ OwnerInv(FreshOwner, m, 1, FALSE, {})
               /\ Asked(FreshOwner) = 0 /\ Told(FreshOwner, 1) = 0
               /\ FreshOwner.approval = 0 /\ FreshOwner.exceptions = {} /\ FreshOwner.offers = {}
    BY <1>1, FreshIs
  <1>3. room \in RoomRecord
    <2>1. room.owner \in [Member -> OwnerRecord]
      BY <1>1, <1>2
    <2>2. room.membership \in [Member -> {"PENDING", "ACTIVE"}]
      BY <1>1
    <2>3. room.invitation \in [Member -> {None} \cup [left : Nat, redeemed : BOOLEAN]]
      BY <1>1
    <2>4. room.status \in Shown \cup Hidden
      BY <1>1 DEF Hidden
    <2> DEFINE A == {Member}
               B == {[m \in Member |-> IF m \in Invited THEN "PENDING" ELSE "ACTIVE"]}
               C == {[m \in Member |-> None]}
               D == {[m \in Member |-> FreshOwner]}
               E == {{}}
    <2>5. room \in [schedule : Schedules, policy : Policies, present : A, membership : B,
                    invitation : C, context : {1}, status : {"COLLECTING"}, owner : D,
                    retired : {0}, proposal : {None}, proposalVersion : {0}, required : E,
                    published : E, receipts : {0}, roundUsed : {FALSE}, solveEpoch : {0},
                    job : {None}]
      BY DEF Init, CreatedRooms
    <2>6. /\ room.present \in SUBSET Member /\ room.required \in SUBSET GrantRef
          /\ room.published \in SUBSET [owner : Member, context : Nat]
      BY <1>1
    <2>7. /\ room.context \in Nat /\ room.retired \in Nat /\ room.proposalVersion \in Nat
          /\ room.receipts \in Nat /\ room.solveEpoch \in Nat
      BY <1>1
    <2>8. room.roundUsed \in BOOLEAN
      BY <1>1, Zenon
    <2>9. room.proposal \in {None} \cup Proposal
      BY <1>1, Zenon
    <2>10. room.job \in {None} \cup [epoch : Nat, context : Nat, completed : BOOLEAN]
      BY <1>1, Zenon
    <2> HIDE DEF A, B, C, D, E
    <2> QED
      BY <1>1, <2>1, <2>2, <2>3, <2>4, <2>5, <2>6, <2>7, <2>8, <2>9, <2>10
         DEF RoomRecord
  <1>4. OwnersInv(room)
    BY <1>1, <1>2 DEF OwnersInv
  <1>5. Capacity(room)
    <2>1. \A m \in Member : Asked(room.owner[m]) = 0 /\ Told(room.owner[m], room.context) = 0
      BY <1>1, <1>2
    <2> DEFINE n == [m \in Member |-> Asked(room.owner[m]) + Told(room.owner[m], room.context)]
    <2>2. \A m \in Member : n[m] = 0
      BY <2>1
    <2> HIDE DEF n
    <2>3. UNION {{m} \X (1..n[m]) : m \in Member} = {}
      BY <2>2
    <2>4. CountAll(n) = 0
      BY <2>3, FS_EmptySet DEF CountAll
    <2>5. GrantLimit \in Nat /\ HistoryLimit \in Nat
      BY RoomAssumption
    <2> QED
      BY <1>1, <2>1, <2>4, <2>5 DEF Capacity, n
  <1>6. StatusInv(room) /\ ProposalInv(room)
    BY <1>1, <1>2 DEF StatusInv, ProposalInv, Shown
  <1>7. RestInv(room)
    <2>1. PublishLimit \in Nat /\ ReceiptLimit \in Nat
      BY RoomAssumption
    <2> QED
      BY <1>1, <2>1, FS_EmptySet DEF RestInv
  <1>8. RoundInv(room)
    BY <1>1, <1>2 DEF RoundInv, RoundOver
  <1>9. run = [w \in Worker |-> None]
    BY DEF Init
  <1> QED
    BY <1>3, <1>4, <1>5, <1>6, <1>7, <1>8, <1>9 DEF Inv, RoomInv, Sound

LEMMA CommandsKeep ==
    ASSUME Inv, Commands
    PROVE  Inv'
  <1>1. UNCHANGED run
    BY DEF Commands
  <1>2. \/ \E m \in Member : Inputs(m)
        \/ \E m \in Member : Permissions(m)
        \/ \E m \in Member : Approvals(m)
        \/ \E m \in Member : \E d \in room.owner[m].disclosures : PublishDisclosure(m, d)
        \/ \E schedule \in Schedules, policy \in Policies, present \in SUBSET Member :
             ReviseDecision(schedule, policy, present)
    BY DEF Commands
  <1>3. ASSUME NEW m \in Member, Permissions(m) PROVE Inv'
    <2>1. CASE \E o \in room.owner[m].offers : AllowException(m, o)
      BY <1>1, <2>1, AllowKeeps
    <2>2. CASE \E o \in room.owner[m].offers : DeclineException(m, o)
      BY <1>1, <2>2, DeclineKeeps
    <2>3. CASE \E p \in room.owner[m].previews, status \in {"ACTIVE", "DECLINED"} :
                  DecideDisclosure(m, p, status)
      BY <1>1, <2>3, DecideDisclosureKeeps
    <2>4. CASE \E g \in room.owner[m].exceptions : RevokeException(m, g)
      BY <1>1, <2>4, RevokeKeeps
    <2>5. CASE \E d \in room.owner[m].disclosures : RevokeDisclosure(m, d)
      BY <1>1, <2>5, RevokeDisclosureKeeps
    <2> QED
      BY <1>3, <2>1, <2>2, <2>3, <2>4, <2>5 DEF Permissions
  <1> QED
    BY <1>1, <1>2, <1>3, InputsActionsKeep, ApprovalsKeep, PublishKeeps, ReviseKeeps

LEMMA NextInv ==
    ASSUME Inv, [Next]_vars
    PROVE  Inv'
  <1>1. CASE \E m \in Member : Invitation(m)
    BY <1>1, InvitationKeeps
  <1>2. CASE Commands
    BY <1>2, CommandsKeep
  <1>3. CASE CloseRoom
    BY <1>3, CloseKeeps
  <1>4. CASE \E w \in Worker : Solver(w)
    BY <1>4, StartKeeps, FinishKeeps, StopWorkerKeeps DEF Solver
  <1>5. CASE GetPublicSnapshot \/ Refuse \/ Tick
    BY <1>5, LookingKeeps
  <1>6. CASE UNCHANGED vars
    BY <1>6 DEF vars, Inv
  <1> QED
    BY <1>1, <1>2, <1>3, <1>4, <1>5, <1>6 DEF Next

\* Every room there is satisfies RoomInv, and a solver run in flight found its
\* plan for the schedule the room has if the room has kept its context.
THEOREM RoomsAreSound ==
    Spec => []Inv
  BY InitInv, NextInv, PTL DEF Spec

\* Every room that is stored passes the checks it is read and shown with,
\* whoever acts in whatever order and whatever the solver answers:
\* capacity covers every answer still owed, and job, offers, previews and
\* proposal are of the current context.
THEOREM RoomsCanBeRead ==
    Spec => []StoredRoomCanBeRead
  <1>1. Inv => StoredRoomCanBeRead
    <2> SUFFICES ASSUME Inv PROVE StoredRoomCanBeRead
      OBVIOUS
    <2>1. RoomInv(room) /\ Sound(room) /\ room \in RoomRecord /\ OwnersFinite(room)
      BY SoundFinite DEF Inv, RoomInv, Sound
    <2>2. ASSUME NEW m \in Member PROVE OwnerFits(room, m)
      <3> DEFINE o == room.owner[m]
      <3>1. OwnerInv(o, m, room.context, room.roundUsed, room.published) /\ OwnerFinite(o)
        BY <2>1 DEF Sound, OwnersInv, OwnersFinite
      <3>2. Asked(o) <= GrantLimit /\ Told(o, room.context) <= GrantLimit
        BY <2>1 DEF Sound, Capacity
      <3>3. ProspectivePreview(room, m, Cardinality(o.offers)) =
              IF o.offers # {} /\ ~Settled(o, room.context) THEN 1 ELSE 0
        BY <3>1, OwnerCounts DEF ProspectivePreview, DisclosureSettled, Settled
      <3>4. room.invitation[m] # None =>
              (room.invitation[m].redeemed <=> room.membership[m] = "ACTIVE")
        BY <2>1 DEF Sound, RestInv
      <3> QED
        BY <3>1, <3>2, <3>3, <3>4 DEF OwnerFits, OwnerInv, Asked, Told
    <2>3. CanReserve(room, Zero)
      BY <2>1, CapacityIsReserve DEF Sound
    <2>4. room.proposal # None => \A ref \in room.required : ref.owner \in room.present
      BY <2>1 DEF Sound, ProposalInv, RoomRecord, GrantRef
    <2>5. RecordFits(room)
      BY <2>1, <2>2, <2>3, <2>4 DEF RecordFits, Sound, ProposalInv, RestInv
    <2>6. SnapshotFits(Seen(room))
      <3> DEFINE r == Seen(room)
      <3>1. RoomInv(r)
        BY <2>1, SeenKeeps
      <3> HIDE DEF r
      <3>2. StatusInv(r) /\ r.status \in Shown \cup Hidden
        BY <3>1 DEF RoomInv, Sound, RoomRecord
      <3>3. SnapshotFits(r)
        BY <3>2 DEF SnapshotFits, StatusInv, Shown
      <3> QED
        BY <3>3 DEF r
    <2> QED
      BY <2>5, <2>6 DEF StoredRoomCanBeRead
  <1> QED
    BY <1>1, RoomsAreSound, PTL

\* A refusal ends the round of its context: nobody is asked any further, no
\* solver run is awaited and nothing is proposed until a new context opens,
\* though a run may be in flight and permissions expire in between.
THEOREM RefusalsEndRounds ==
    Spec => []RefusalEndsTheRound
  <1>1. Inv => RefusalEndsTheRound
    <2> SUFFICES ASSUME Inv PROVE RefusalEndsTheRound
      OBVIOUS
    <2> DEFINE r == Sweep(room)
    <2>1. RoomInv(r)
      BY SweepKeeps DEF Inv
    <2> QED
      BY <2>1 DEF RoomInv, RoundInv, RoundOver, RefusalEndsTheRound
  <1> QED
    BY <1>1, RoomsAreSound, PTL

(***************************************************************************)
(* What the solver's scan of intervals finds.                              *)
(***************************************************************************)

Bounds == [from : Int, to : Int]

\* Induction over a finite set: of its subsets that fail, one is the smallest.
LEMMA SmallestFailing ==
    ASSUME NEW S, IsFiniteSet(S), NEW bad \in SUBSET SUBSET S, bad # {}
    PROVE  \E X \in bad : \A Y \in SUBSET X : Y # X => Y \notin bad
  <1>1. IsWellFoundedOn(StrictSubsetOrdering(S), SUBSET S)
    BY FS_StrictSubsetOrderingWellFounded, FS_FiniteSubsetsOfFinite
  <1>2. PICK X \in bad : \A Y \in bad : ~(<<Y, X>> \in StrictSubsetOrdering(S))
    BY <1>1, WFMin
  <1>3. ASSUME NEW Y \in SUBSET X, Y # X PROVE Y \notin bad
    <2>1. <<Y, X>> \in StrictSubsetOrdering(S)
      BY <1>3 DEF StrictSubsetOrdering
    <2> QED
      BY <1>2, <2>1
  <1> QED
    BY <1>3

\* Of some intervals one comes last in the scan.
LEMMA LatestIs ==
    ASSUME NEW C \in SUBSET Bounds, IsFiniteSet(C), NEW S \in SUBSET C, S # {}
    PROVE  Latest(S) \in S /\ \A j \in S : j = Latest(S) \/ Before(j, Latest(S))
  <1> DEFINE IsLast(X, i) == i \in X /\ \A j \in X : j = i \/ Before(j, i)
             bad == {X \in SUBSET C : X # {} /\ \A i \in X : ~IsLast(X, i)}
  <1>1. ASSUME bad # {} PROVE FALSE
    <2>0. bad \in SUBSET SUBSET C
      OBVIOUS
    <2>1. PICK X \in bad : \A Y \in SUBSET X : Y # X => Y \notin bad
      <3> HIDE DEF bad
      <3> QED
        BY <1>1, <2>0, SmallestFailing
    <2>2. X \in SUBSET C /\ X # {}
      OBVIOUS
    <2>3. PICK x \in X : TRUE
      BY <2>2
    <2>4. X # {x}
      OBVIOUS
    <2>5. X \ {x} \notin bad /\ X \ {x} # {} /\ X \ {x} \in SUBSET C
      BY <2>1, <2>2, <2>3, <2>4
    <2>6. PICK i \in X \ {x} : IsLast(X \ {x}, i)
      BY <2>5
    <2>7. i \in Bounds /\ x \in Bounds
      BY <2>2
    <2>8. CASE Before(x, i)
      <3>1. IsLast(X, i)
        BY <2>6, <2>8
      <3> QED
        BY <2>6, <3>1
    <2>9. CASE ~Before(x, i)
      <3>1. Before(i, x) \/ x = i
        BY <2>7, <2>9 DEF Before, Bounds
      <3>2. \A j \in Bounds : Before(j, i) /\ Before(i, x) => Before(j, x)
        BY <2>7 DEF Before, Bounds
      <3>3. IsLast(X, x)
        BY <2>2, <2>3, <2>6, <3>1, <3>2
      <3> QED
        BY <2>3, <3>3
    <2> QED
      BY <2>8, <2>9
  <1>2. \E i \in S : \A j \in S : j = i \/ Before(j, i)
    BY <1>1
  <1> QED
    BY <1>2 DEF Latest

\* The scan of S that goes on from what reach says of all but the last of S.
Step(reach, start, S) ==
    IF S = {} THEN [until |-> start, gap |-> FALSE]
    ELSE Scan(reach[S \ {Latest(S)}], Latest(S))

\* There is a scan of every part of the containers.
LEMMA ReachIs ==
    ASSUME NEW C \in SUBSET Bounds, IsFiniteSet(C), NEW start
    PROVE  \A S \in SUBSET C : Reach(C, start)[S] = Step(Reach(C, start), start, S)
  <1> DEFINE Scans(f, n) == \A S \in SUBSET C : Cardinality(S) <= n => f[S] = Step(f, start, S)
             bad == {E \in SUBSET C : ~\E f : Scans(f, Cardinality(E))}
  <1>0. \A S \in SUBSET C : IsFiniteSet(S) /\ Cardinality(S) \in Nat
    BY FS_Subset, FS_CardinalityType
  <1>1. ASSUME bad # {} PROVE FALSE
    <2>0. bad \in SUBSET SUBSET C
      OBVIOUS
    <2>1. PICK E \in bad : \A Y \in SUBSET E : Y # E => Y \notin bad
      <3> HIDE DEF bad
      <3> QED
        BY <1>1, <2>0, SmallestFailing
    <2>2. E \in SUBSET C /\ ~\E f : Scans(f, Cardinality(E))
      OBVIOUS
    <2> HIDE DEF bad
    <2>3. CASE E = {}
      <3> DEFINE g == [S \in SUBSET C |-> [until |-> start, gap |-> FALSE]]
      <3>1. ASSUME NEW S \in SUBSET C, Cardinality(S) <= 0 PROVE g[S] = Step(g, start, S)
        <4>1. S = {}
          BY <1>0, <3>1, FS_EmptySet
        <4> QED
          BY <4>1 DEF Step
      <3> HIDE DEF g
      <3>2. Cardinality(E) = 0
        BY <2>3, FS_EmptySet
      <3> QED
        BY <2>2, <3>1, <3>2
    <2>4. CASE E # {}
      <3>1. PICK x \in E : TRUE
        BY <2>4
      <3> DEFINE n == Cardinality(E \ {x})
      <3>2. n \in Nat /\ Cardinality(E) = n + 1
        BY <1>0, <2>2, <3>1, FS_RemoveElement
      <3>3. PICK f : Scans(f, n)
        BY <2>1, <2>2, <3>1 DEF bad
      <3> HIDE DEF n
      <3> DEFINE g == [S \in SUBSET C |-> IF Cardinality(S) <= n THEN f[S] ELSE Step(f, start, S)]
      <3>4. ASSUME NEW S \in SUBSET C, Cardinality(S) <= n + 1 PROVE g[S] = Step(g, start, S)
        <4>1. g[S] = Step(f, start, S)
          BY <3>3
        <4>2. CASE S = {}
          BY <4>1, <4>2 DEF Step
        <4>3. CASE S # {}
          <5> DEFINE R == S \ {Latest(S)}
          <5>1. Latest(S) \in S
            BY <4>3, LatestIs
          <5>2. R \in SUBSET C /\ Cardinality(S) = Cardinality(R) + 1 /\ Cardinality(R) \in Nat
            BY <1>0, <5>1, FS_RemoveElement
          <5>3. Cardinality(R) <= n
            BY <3>2, <3>4, <5>2
          <5>4. g[R] = f[R]
            BY <5>2, <5>3
          <5> HIDE DEF g
          <5> QED
            BY <4>1, <4>3, <5>4 DEF Step
        <4> QED
          BY <4>2, <4>3
      <3> HIDE DEF g
      <3>5. Scans(g, Cardinality(E))
        BY <3>2, <3>4
      <3> QED
        BY <2>2, <3>5
    <2> QED
      BY <2>3, <2>4
  <1>2. PICK f : Scans(f, Cardinality(C))
    BY <1>1
  <1> DEFINE h == [S \in SUBSET C |-> f[S]]
  <1>3. ASSUME NEW S \in SUBSET C PROVE f[S] = Step(f, start, S)
    <2>1. Cardinality(S) <= Cardinality(C)
      BY FS_Subset
    <2> QED
      BY <1>2, <2>1
  <1>4. ASSUME NEW S \in SUBSET C PROVE h[S] = Step(h, start, S)
    <2>1. h[S] = Step(f, start, S)
      BY <1>3
    <2>2. h[S \ {Latest(S)}] = f[S \ {Latest(S)}]
      OBVIOUS
    <2> HIDE DEF h
    <2> QED
      BY <2>1, <2>2 DEF Step
  <1>5. h = [S \in SUBSET C |->
               IF S = {} THEN [until |-> start, gap |-> FALSE]
               ELSE Scan(h[S \ {Latest(S)}], Latest(S))]
    <2>1. h = [S \in SUBSET C |-> h[S]]
      OBVIOUS
    <2> HIDE DEF h
    <2> QED
      BY <1>4, <2>1 DEF Step
  <1> HIDE DEF h
  <1>6. Reach(C, start) = [S \in SUBSET C |->
               IF S = {} THEN [until |-> start, gap |-> FALSE]
               ELSE Scan(Reach(C, start)[S \ {Latest(S)}], Latest(S))]
    BY <1>5 DEF Reach
  <1> QED
    BY <1>6 DEF Step

\* What the scan of S has found.
Reached(x, start, S) ==
    /\ x \in [until : Int, gap : BOOLEAN]
    /\ x.until >= start
    /\ \A t \in start .. (x.until - 1) : Holds(S, t)
    /\ x.gap => \E k \in S : k.from > x.until
    /\ \A j \in S : j.to <= x.until \/ (x.gap /\ j.from > x.until)

\* One step of the scan, over an interval that comes after all before it.
LEMMA ScanGoesOn ==
    ASSUME NEW S \in SUBSET Bounds, NEW i \in S, \A j \in S : j = i \/ Before(j, i),
           NEW start \in Int, NEW x,
           Reached(x, start, S \ {i})
    PROVE  Reached(Scan(x, i), start, S)
  <1>1. i.from \in Int /\ i.to \in Int
    BY DEF Bounds
  <1>2. ASSUME NEW t, Holds(S \ {i}, t) PROVE Holds(S, t)
    BY <1>2 DEF Holds
  <1>3. \A j \in S : j.from \in Int /\ j.to \in Int /\ j.from <= i.from
    BY <1>1 DEF Bounds, Before
  <1>0. x \in [until : Int, gap : BOOLEAN] /\ x.until \in Int
    BY DEF Reached
  <1>4. CASE x.gap \/ i.to <= x.until
    <2>1. Scan(x, i) = x
      BY <1>4 DEF Scan
    <2>2. i.to <= x.until \/ (x.gap /\ i.from > x.until)
      BY <1>1, <1>3, <1>4 DEF Reached
    <2> QED
      BY <1>2, <2>1, <2>2 DEF Reached
  <1>5. CASE ~x.gap /\ i.to > x.until /\ i.from > x.until
    <2> DEFINE y == [x EXCEPT !.gap = TRUE]
    <2>1. Scan(x, i) = y
      BY <1>0, <1>1, <1>5 DEF Scan
    <2>2. y \in [until : Int, gap : BOOLEAN] /\ y.until = x.until /\ y.gap = TRUE
      BY <1>0
    <2> HIDE DEF y
    <2>3. Reached(y, start, S)
      BY <1>2, <1>5, <2>2 DEF Reached
    <2> QED
      BY <2>1, <2>3
  <1>6. CASE ~x.gap /\ i.to > x.until /\ i.from <= x.until
    <2> DEFINE y == [x EXCEPT !.until = i.to]
    <2>1. Scan(x, i) = y
      BY <1>0, <1>1, <1>6 DEF Scan
    <2>0. y \in [until : Int, gap : BOOLEAN] /\ y.until = i.to /\ y.gap = x.gap
      BY <1>0, <1>1
    <2> HIDE DEF y
    <2>2. ASSUME NEW t \in start .. (i.to - 1) PROVE Holds(S, t)
      <3>1. CASE t \in start .. (x.until - 1)
        BY <1>2, <3>1 DEF Reached
      <3>2. CASE t >= x.until
        BY <1>1, <1>6, <3>2 DEF Holds, Minutes, Reached
      <3> QED
        BY <1>1, <3>1, <3>2 DEF Reached
    <2>3. \A j \in S : j.to <= i.to
      BY <1>1, <1>3, <1>6 DEF Reached
    <2>4. i.to >= start
      BY <1>1, <1>6 DEF Reached
    <2>5. Reached(y, start, S)
      BY <1>6, <2>0, <2>2, <2>3, <2>4 DEF Reached
    <2> QED
      BY <2>1, <2>5
  <1> QED
    BY <1>0, <1>1, <1>4, <1>5, <1>6

LEMMA ReachedIs ==
    ASSUME NEW C \in SUBSET Bounds, IsFiniteSet(C), NEW start \in Int
    PROVE  Reached(Reach(C, start)[C], start, C)
  <1> DEFINE x(S) == Reach(C, start)[S]
             Good(S) == Reached(x(S), start, S)
             bad == {S \in SUBSET C : ~Good(S)}
  <1>1. ASSUME bad # {} PROVE FALSE
    <2>1. bad \in SUBSET SUBSET C
      OBVIOUS
    <2>2. PICK S \in bad : \A Y \in SUBSET S : Y # S => Y \notin bad
      <3> HIDE DEF bad
      <3> QED
        BY <1>1, <2>1, SmallestFailing
    <2>3. S \in SUBSET C /\ ~Good(S)
      OBVIOUS
    <2> HIDE DEF x
    <2>4. x(S) = Step(Reach(C, start), start, S)
      BY <2>3, ReachIs DEF x
    <2>5. CASE S = {}
      <3>1. x(S) = [until |-> start, gap |-> FALSE]
        BY <2>4, <2>5 DEF Step
      <3>2. /\ x(S) \in [until : Int, gap : BOOLEAN] /\ x(S).until = start /\ ~x(S).gap
            /\ \A t : t \notin start .. (start - 1)
        BY <3>1
      <3>3. Reached(x(S), start, S)
        BY <2>5, <3>2 DEF Reached
      <3> QED
        BY <2>3, <3>3
    <2>6. CASE S # {}
      <3> DEFINE i == Latest(S)
                 R == S \ {i}
      <3>1. i \in S /\ \A j \in S : j = i \/ Before(j, i)
        BY <2>3, <2>6, LatestIs
      <3>2. R \in SUBSET S /\ R # S
        BY <3>1
      <3>3. Good(R)
        BY <2>2, <2>3, <3>2
      <3>4. x(S) = Scan(x(R), i)
        BY <2>4, <2>6 DEF Step, x
      <3> HIDE DEF i
      <3>5. Reached(Scan(x(R), i), start, S)
        BY <2>3, <3>1, <3>3, ScanGoesOn
      <3> QED
        BY <2>3, <3>4, <3>5
    <2> QED
      BY <2>5, <2>6
  <1> QED
    BY <1>1

\* Containers cover a target if and only if they hold each of its minutes,
\* however they overlap or touch.
LEMMA CoverIsMinutes ==
    ASSUME NEW C \in SUBSET Bounds, IsFiniteSet(C), NEW target \in Bounds
    PROVE  IntervalsCover(C, target) <=> \A t \in Minutes(target) : Holds(C, t)
  <1> DEFINE x == Reach(C, target.from)[C]
  <1>1. target.from \in Int /\ target.to \in Int
    BY DEF Bounds
  <1>2. Reached(x, target.from, C)
    BY <1>1, ReachedIs
  <1>3. IntervalsCover(C, target) <=> x.until >= target.to
    BY DEF IntervalsCover
  <1> HIDE DEF x
  <1>4. ASSUME x.until >= target.to, NEW t \in Minutes(target) PROVE Holds(C, t)
    BY <1>1, <1>2, <1>4 DEF Reached, Minutes
  <1>5. ASSUME x.until < target.to PROVE ~Holds(C, x.until) /\ x.until \in Minutes(target)
    <2>1. \A j \in C : j.from \in Int /\ j.to \in Int
      BY DEF Bounds
    <2> QED
      BY <1>1, <1>2, <1>5, <2>1 DEF Reached, Minutes, Holds
  <1> QED
    BY <1>1, <1>2, <1>3, <1>4, <1>5 DEF Reached

\* Two intervals overlap if and only if they share a minute.
LEMMA OverlapIsMinute ==
    ASSUME NEW i \in Bounds, NEW j \in Bounds, i.from < i.to, j.from < j.to
    PROVE  Overlaps(i, j) <=> \E t \in Minutes(j) : t \in Minutes(i)
  <1>1. /\ i.from \in Int /\ i.to \in Int /\ j.from \in Int /\ j.to \in Int
    BY DEF Bounds
  <1>2. ASSUME Overlaps(i, j), i.from <= j.from PROVE j.from \in Minutes(j) /\ j.from \in Minutes(i)
    BY <1>1, <1>2 DEF Overlaps, Minutes
  <1>3. ASSUME Overlaps(i, j), j.from <= i.from PROVE i.from \in Minutes(j) /\ i.from \in Minutes(i)
    BY <1>1, <1>3 DEF Overlaps, Minutes
  <1>4. ASSUME NEW t \in Minutes(j), t \in Minutes(i) PROVE Overlaps(i, j)
    BY <1>1, <1>4 DEF Overlaps, Minutes
  <1> QED
    BY <1>1, <1>2, <1>3, <1>4

\* Whose active exception of the context a grant is.
LEMMA ActiveGrantsAre ==
    ASSUME NEW r, NEW m \in Member, NEW n, NEW s
    PROVE  [owner |-> m, name |-> n, slot |-> s] \in ActiveGrants(r)
             <=> \E g \in r.owner[m].exceptions :
                    g.status = "ACTIVE" /\ g.context = r.context /\ g.name = n /\ g.slot = s
  <1> DEFINE A(q) == {g \in r.owner[q].exceptions : g.status = "ACTIVE" /\ g.context = r.context}
             G(q) == {[owner |-> q, name |-> g.name, slot |-> g.slot] : g \in A(q)}
             x == [owner |-> m, name |-> n, slot |-> s]
  <1>1. x \in ActiveGrants(r) <=> \E q \in Member : x \in G(q)
    BY DEF ActiveGrants
  <1>2. \A q \in Member : x \in G(q)
          <=> \E g \in A(q) : m = q /\ g.name = n /\ g.slot = s
    <2> HIDE DEF A
    <2>1. \A q, g : x = [owner |-> q, name |-> g.name, slot |-> g.slot]
            <=> m = q /\ g.name = n /\ g.slot = s
      OBVIOUS
    <2> HIDE DEF x
    <2> QED
      BY <2>1
  <1> HIDE DEF G, x
  <1>3. x \in ActiveGrants(r) <=> \E g \in A(m) : g.name = n /\ g.slot = s
    BY <1>1, <1>2
  <1> QED
    BY <1>3 DEF x

\* What makes a plan feasible.
LEMMA FeasibleIsFree ==
    ASSUME NEW input, NEW p
    PROVE  EvaluateCandidate(input, p) = "FEASIBLE"
             <=> \A m \in DOMAIN input.values :
                   \A i \in RequiredIntervals(input.schedule, p, m) :
                      IntervalState(input, p, m, i) = "FREE"
  <1> DEFINE needed(m) == RequiredIntervals(input.schedule, p, m)
             members == DOMAIN input.values
  <1>1. IntervalStates(input, p) =
          UNION {{IntervalState(input, p, m, i) : i \in needed(m)} : m \in members}
    BY DEF IntervalStates
  <1>2. \A m, i : IntervalState(input, p, m, i) \in {"UNKNOWN", "FREE", "BLOCKED"}
    BY DEF IntervalState
  <1>3. EvaluateCandidate(input, p) = "FEASIBLE"
          <=> "BLOCKED" \notin IntervalStates(input, p) /\ "UNKNOWN" \notin IntervalStates(input, p)
    BY DEF EvaluateCandidate
  <1> HIDE DEF needed, members
  <1>4. ASSUME NEW x
        PROVE  x \in IntervalStates(input, p)
                 <=> \E m \in members : \E i \in needed(m) : x = IntervalState(input, p, m, i)
    BY <1>1
  <1>5. EvaluateCandidate(input, p) = "FEASIBLE"
          <=> \A m \in members : \A i \in needed(m) : IntervalState(input, p, m, i) = "FREE"
    BY <1>2, <1>3, <1>4
  <1> QED
    BY <1>5 DEF needed, members

\* What the solver says of a plan is what suits everybody, minute by minute.
LEMMA FeasibleIsSuiting ==
    ASSUME NEW r, r.schedule \in Schedules,
           \A m \in Member : r.owner[m].confirmed.values \in Values,
           NEW p \in StructuralPlans(r.schedule)
    PROVE  EvaluateCandidate(SolverInput(r), p) = "FEASIBLE" <=> Suits(r, p)
  <1> DEFINE input == SolverInput(r)
             v(m) == r.owner[m].confirmed.values
             duties == r.schedule.duties
             needed(m) == RequiredIntervals(r.schedule, p, m)
             at(m, i) == \A t \in Minutes(i) : SuitsAt(r, p, m, t)
  <1>1. /\ input.schedule = r.schedule /\ input.values = [m \in Member |-> v(m)]
        /\ input.grants = ActiveGrants(r)
    BY DEF SolverInput
  <1>2. /\ p.slot \in r.schedule.slots /\ DOMAIN p.who = DOMAIN duties
        /\ \A d \in DOMAIN duties : ~Overlaps(p.slot, duties[d].at)
    BY DEF StructuralPlans, Assignments
  <1>3. /\ IsInterval(p.slot) /\ \A d \in DOMAIN duties : IsInterval(duties[d].at)
    BY <1>2, RoomAssumption
  <1>4. ASSUME NEW m \in Member, NEW c PROVE MatchingGrant(input, p, m, c) <=> Waived(r, p, m, c)
    <2>1. [owner |-> m, name |-> c.name, slot |-> p.slot] \in ActiveGrants(r)
            <=> \E g \in r.owner[m].exceptions :
                   /\ g.status = "ACTIVE" /\ g.context = r.context
                   /\ g.name = c.name /\ g.slot = p.slot
      BY ActiveGrantsAre
    <2>2. input.grants = ActiveGrants(r)
      BY <1>1
    <2> HIDE DEF input
    <2> QED
      BY <2>1, <2>2 DEF MatchingGrant, Waived, OnDuty
  <1>5. ASSUME NEW m \in Member, NEW i, IsInterval(i)
        PROVE  IntervalState(input, p, m, i) = "FREE" <=> at(m, i)
    <2>1. /\ v(m) \in Values /\ i \in Bounds /\ i.from < i.to
          /\ v(m).review \in SUBSET Bounds /\ IsFiniteSet(v(m).review)
          /\ v(m).avail \in SUBSET Bounds /\ IsFiniteSet(v(m).avail)
          /\ \A c \in v(m).asks : c.at \in Bounds /\ c.at.from < c.at.to
      BY <1>5, RoomAssumption DEF IsInterval, Bounds
    <2>2. /\ IntervalsCover(v(m).review, i) <=> \A t \in Minutes(i) : Holds(v(m).review, t)
          /\ IntervalsCover(v(m).avail, i) <=> \A t \in Minutes(i) : Holds(v(m).avail, t)
      BY <2>1, CoverIsMinutes
    <2>3. (\A c \in Blocking(v(m), i) : MatchingGrant(input, p, m, c))
            <=> \A t \in Minutes(i) : \A c \in v(m).asks :
                   t \in Minutes(c.at) => Waived(r, p, m, c)
      <3>1. ASSUME NEW c \in v(m).asks
            PROVE  Overlaps(c.at, i) <=> \E t \in Minutes(i) : t \in Minutes(c.at)
        BY <2>1, OverlapIsMinute
      <3> HIDE DEF input, v
      <3> QED
        BY <1>4, <3>1 DEF Blocking
    <2>4. input.values[m] = v(m)
      BY <1>1
    <2>5. IntervalState(input, p, m, i) = "FREE"
            <=> /\ IntervalsCover(v(m).review, i) /\ IntervalsCover(v(m).avail, i)
                /\ \A c \in Blocking(v(m), i) : MatchingGrant(input, p, m, c)
      <3> HIDE DEF input, v
      <3> QED
        BY <2>4 DEF IntervalState
    <2>6. \A t : SuitsAt(r, p, m, t)
            <=> /\ Holds(v(m).review, t) /\ Holds(v(m).avail, t)
                /\ \A c \in v(m).asks : t \in Minutes(c.at) => Waived(r, p, m, c)
      BY DEF SuitsAt
    <2> HIDE DEF input, v
    <2> QED
      BY <2>2, <2>3, <2>5, <2>6
  <1>6. \A m \in Member : \A i \in needed(m) : IsInterval(i)
    BY <1>2, <1>3 DEF RequiredIntervals
  <1>7. EvaluateCandidate(input, p) = "FEASIBLE"
          <=> \A m \in Member : \A i \in needed(m) : IntervalState(input, p, m, i) = "FREE"
    <2>1. DOMAIN input.values = Member
      BY <1>1
    <2> HIDE DEF input
    <2> QED
      BY <1>1, <2>1, FeasibleIsFree
  <1>8. \A m \in Member : (\A i \in needed(m) : at(m, i))
          <=> /\ at(m, p.slot)
              /\ \A d \in {d \in DOMAIN p.who : p.who[d] = m} : at(m, duties[d].at)
    BY DEF RequiredIntervals
  <1>9. ASSUME NEW d \in DOMAIN duties, NEW t \in Minutes(duties[d].at) PROVE t \notin Minutes(p.slot)
    BY <1>2, <1>3, OverlapIsMinute DEF IsInterval, Bounds
  <1>10. Suits(r, p)
          <=> \A m \in Member :
                /\ at(m, p.slot)
                /\ \A d \in {d \in DOMAIN p.who : p.who[d] = m} : at(m, duties[d].at)
    BY <1>2, <1>9 DEF Suits
  <1> HIDE DEF input, needed, at
  <1> QED
    BY <1>5, <1>6, <1>7, <1>8, <1>10 DEF input

(***************************************************************************)
(* What was found for the room.                                            *)
(***************************************************************************)

Feasible(input) ==
    {p \in StructuralPlans(input.schedule) : EvaluateCandidate(input, p) = "FEASIBLE"}

AskedGrants(r) ==
    UNION {{[owner |-> m, name |-> o.name, slot |-> o.slot] : o \in r.owner[m].offers} :
            m \in Member}

\* everybody who is asked says yes
Conceding(r) == [SolverInput(r) EXCEPT !.grants = @ \cup AskedGrants(r)]

\* an offer to m is about a condition of m that stands in the way of its slot,
\* and was not given already
OfferStands(r, m, o) ==
    /\ \E c \in r.owner[m].confirmed.values.asks : c.name = o.name /\ Overlaps(c.at, o.slot)
    /\ [owner |-> m, name |-> o.name, slot |-> o.slot] \notin ActiveGrants(r)
    /\ \A q \in r.owner[m].offers : q.name = o.name /\ q.slot = o.slot => q = o

OffersFound(r) ==
    Offers(r) # {} =>
        /\ Ready(r)
        /\ r.proposal = None /\ (r.job # None => r.job.completed)
        /\ Feasible(SolverInput(r)) = {} /\ Feasible(Conceding(r)) # {}
        /\ \A m \in Member : \A o \in r.owner[m].offers :
              /\ OfferStands(r, m, o)
              /\ \A n \in Member : \A q \in r.owner[n].offers : q.slot = o.slot

ProposalFound(r) ==
    r.proposal # None =>
        /\ Ready(r)
        /\ \E x \in SolveDecision(SolverInput(r)) :
              x.status = "SOLVED" /\ x.plan = r.proposal.plan

\* the answer of a run that is awaited is one for the room as it is
RunFound(r, x) ==
    /\ x.epoch <= r.solveEpoch
    /\ r.job # None /\ ~r.job.completed /\ r.job.epoch = x.epoch
         => x.result \in SolveDecision(SolverInput(r))

FoundInv ==
    /\ OffersFound(room) /\ ProposalFound(room)
    /\ \A w \in Worker : run[w] # None => RunFound(room, run[w])

(***************************************************************************)
(* A step either stops what was found or lets it stand.                    *)
(***************************************************************************)

\* nothing is asked or proposed, and what is awaited was queued just now
Stops(e, s) ==
    /\ s.proposal = None /\ Offers(s) = {}
    /\ s.solveEpoch = e + 1
    /\ s.job # None => s.job.epoch = e + 1

\* the same values and grants, though time may pass
Stands(r, s) ==
    /\ s.schedule = r.schedule /\ s.policy = r.policy /\ s.context = r.context
    /\ s.job = r.job /\ s.solveEpoch = r.solveEpoch
    /\ s.proposal # None => r.proposal # None /\ s.proposal.plan = r.proposal.plan
    /\ r.proposal = None => s.proposal = None
    /\ Ready(r) => Ready(s)
    /\ \A m \in Member :
          /\ s.owner[m].confirmed.values = r.owner[m].confirmed.values
          /\ s.owner[m].exceptions \in {r.owner[m].exceptions, Sooner(r.owner[m].exceptions)}
          /\ s.owner[m].offers \in {r.owner[m].offers, Sooner(r.owner[m].offers)}

\* Time takes nothing from a record but time.
LEMMA NearerIs ==
    ASSUME NEW x \in Offer \cup Exception
    PROVE  /\ Nearer(x).name = x.name /\ Nearer(x).slot = x.slot
           /\ Nearer(x).context = x.context
           /\ x \in Exception => Nearer(x).status = x.status
  BY DEF Nearer, Offer, Exception

LEMMA StandingGrants ==
    ASSUME NEW r \in RoomRecord, NEW s, Stands(r, s)
    PROVE  ActiveGrants(s) = ActiveGrants(r) /\ AskedGrants(s) = AskedGrants(r)
           /\ SolverInput(s) = SolverInput(r) /\ Conceding(s) = Conceding(r)
  <1> DEFINE A(x, m) == {[owner |-> m, name |-> g.name, slot |-> g.slot] :
                 g \in {g \in x.owner[m].exceptions : g.status = "ACTIVE" /\ g.context = x.context}}
             B(x, m) == {[owner |-> m, name |-> o.name, slot |-> o.slot] : o \in x.owner[m].offers}
  <1>1. ASSUME NEW m \in Member PROVE A(s, m) = A(r, m)
    <2> DEFINE E == r.owner[m].exceptions
               T == {g \in E : g.status = "ACTIVE" /\ g.context = r.context}
    <2>1. E \in SUBSET Exception /\ s.context = r.context
      BY DEF RoomRecord, OwnerRecord, Stands
    <2>2. CASE s.owner[m].exceptions = E
      BY <2>1, <2>2
    <2>3. CASE s.owner[m].exceptions = Sooner(E)
      <3> DEFINE S == {g \in Sooner(E) : g.status = "ACTIVE" /\ g.context = r.context}
                 F(g) == [owner |-> m, name |-> g.name, slot |-> g.slot]
      <3>1. ASSUME NEW g \in S PROVE \E h \in T : F(g) = F(h)
        <4>1. PICK h \in E : g = Nearer(h)
          BY DEF Sooner
        <4> QED
          BY <2>1, <4>1, NearerIs
      <3>2. ASSUME NEW h \in T PROVE \E g \in S : F(g) = F(h)
        <4>1. Nearer(h) \in Sooner(E)
          BY DEF Sooner
        <4> QED
          BY <2>1, <4>1, NearerIs
      <3>3. A(s, m) = {F(g) : g \in S} /\ A(r, m) = {F(g) : g \in T}
        BY <2>1, <2>3
      <3> HIDE DEF S, T, F, A
      <3> QED
        BY <3>1, <3>2, <3>3
    <2> QED
      BY <2>2, <2>3 DEF Stands
  <1>2. ASSUME NEW m \in Member PROVE B(s, m) = B(r, m)
    <2> DEFINE E == r.owner[m].offers
               F(g) == [owner |-> m, name |-> g.name, slot |-> g.slot]
    <2>1. E \in SUBSET Offer
      BY DEF RoomRecord, OwnerRecord
    <2>2. CASE s.owner[m].offers = E
      BY <2>2
    <2>3. CASE s.owner[m].offers = Sooner(E)
      <3>1. \A h \in E : F(Nearer(h)) = F(h)
        BY <2>1, NearerIs
      <3>2. B(s, m) = {F(g) : g \in Sooner(E)} /\ B(r, m) = {F(g) : g \in E}
        BY <2>3
      <3> HIDE DEF F, B, E
      <3> QED
        BY <3>1, <3>2 DEF Sooner
    <2> QED
      BY <2>2, <2>3 DEF Stands
  <1>3. ActiveGrants(s) = ActiveGrants(r)
    <2>1. ActiveGrants(s) = UNION {A(s, m) : m \in Member} /\ ActiveGrants(r) = UNION {A(r, m) : m \in Member}
      BY DEF ActiveGrants
    <2> HIDE DEF A
    <2> QED
      BY <1>1, <2>1
  <1>4. AskedGrants(s) = AskedGrants(r)
    <2>1. AskedGrants(s) = UNION {B(s, m) : m \in Member} /\ AskedGrants(r) = UNION {B(r, m) : m \in Member}
      BY DEF AskedGrants
    <2> HIDE DEF B
    <2> QED
      BY <1>2, <2>1
  <1> HIDE DEF A, B
  <1>5. [m \in Member |-> s.owner[m].confirmed.values] = [m \in Member |-> r.owner[m].confirmed.values]
    BY DEF Stands
  <1>6. SolverInput(s) = SolverInput(r)
    BY <1>3, <1>5 DEF SolverInput, Stands
  <1> QED
    BY <1>3, <1>4, <1>6 DEF Conceding

\* What was found still stands.
LEMMA StandsKeeps ==
    ASSUME NEW r \in RoomRecord, NEW s, Stands(r, s)
    PROVE  /\ OffersFound(r) => OffersFound(s)
           /\ ProposalFound(r) => ProposalFound(s)
           /\ \A x : RunFound(r, x) => RunFound(s, x)
  <1>1. /\ ActiveGrants(s) = ActiveGrants(r)
        /\ SolverInput(s) = SolverInput(r) /\ Conceding(s) = Conceding(r)
    BY StandingGrants
  <1>2. ProposalFound(r) => ProposalFound(s)
    BY <1>1 DEF ProposalFound, Stands
  <1>3. \A x : RunFound(r, x) => RunFound(s, x)
    BY <1>1 DEF RunFound, Stands
  <1>4. ASSUME OffersFound(r), Offers(s) # {} PROVE OffersFound(s)
    <2>1. ASSUME NEW m \in Member, NEW o \in s.owner[m].offers
          PROVE  \E h \in r.owner[m].offers :
                    /\ o.name = h.name /\ o.slot = h.slot
                    /\ o = h \/ o = Nearer(h)
                    /\ s.owner[m].offers = r.owner[m].offers => o = h
                    /\ s.owner[m].offers # r.owner[m].offers => o = Nearer(h)
      <3>1. r.owner[m].offers \in SUBSET Offer
        BY DEF RoomRecord, OwnerRecord
      <3>2. CASE s.owner[m].offers = r.owner[m].offers
        BY <3>2
      <3>3. CASE s.owner[m].offers # r.owner[m].offers
        <4>1. PICK h \in r.owner[m].offers : o = Nearer(h)
          BY <3>3 DEF Stands, Sooner
        <4> QED
          BY <3>1, <3>3, <4>1, NearerIs
      <3> QED
        BY <3>2, <3>3
    <2>2. Offers(r) # {}
      BY <1>4, <2>1 DEF Offers
    <2>3. /\ Ready(s) /\ s.proposal = None /\ (s.job # None => s.job.completed)
          /\ Feasible(SolverInput(s)) = {} /\ Feasible(Conceding(s)) # {}
      BY <1>1, <1>4, <2>2 DEF OffersFound, Stands
    <2>4. ASSUME NEW m \in Member, NEW o \in s.owner[m].offers
          PROVE  /\ OfferStands(s, m, o)
                 /\ \A n \in Member : \A q \in s.owner[n].offers : q.slot = o.slot
      <3>1. PICK h \in r.owner[m].offers :
                    /\ o.name = h.name /\ o.slot = h.slot
                    /\ s.owner[m].offers = r.owner[m].offers => o = h
                    /\ s.owner[m].offers # r.owner[m].offers => o = Nearer(h)
        BY <2>1
      <3>2. /\ OfferStands(r, m, h)
            /\ \A n \in Member : \A q \in r.owner[n].offers : q.slot = h.slot
        BY <1>4, <2>2 DEF OffersFound
      <3>3. \A n \in Member : \A q \in s.owner[n].offers : q.slot = o.slot
        BY <2>1, <3>1, <3>2
      <3>4. ASSUME NEW q \in s.owner[m].offers, q.name = o.name, q.slot = o.slot PROVE q = o
        <4>1. PICK k \in r.owner[m].offers :
                    /\ q.name = k.name /\ q.slot = k.slot
                    /\ s.owner[m].offers = r.owner[m].offers => q = k
                    /\ s.owner[m].offers # r.owner[m].offers => q = Nearer(k)
          BY <2>1
        <4>2. k = h
          BY <3>1, <3>2, <3>4, <4>1 DEF OfferStands
        <4> QED
          BY <3>1, <4>1, <4>2
      <3>5. s.owner[m].confirmed.values = r.owner[m].confirmed.values
        BY DEF Stands
      <3>6. OfferStands(s, m, o)
        BY <1>1, <3>1, <3>2, <3>4, <3>5 DEF OfferStands
      <3> QED
        BY <3>3, <3>6
    <2> QED
      BY <2>3, <2>4 DEF OffersFound
  <1> QED
    BY <1>2, <1>3, <1>4 DEF OffersFound

\* What was found is given up, and no run that was under way is awaited.
LEMMA StopsKeeps ==
    ASSUME NEW r, r.solveEpoch \in Nat, NEW s, Stops(r.solveEpoch, s)
    PROVE  /\ OffersFound(s) /\ ProposalFound(s)
           /\ \A x \in SolverRun : RunFound(r, x) => RunFound(s, x)
  <1>1. \A x \in SolverRun : x.epoch \in Nat
    BY DEF SolverRun
  <1> QED
    BY <1>1 DEF Stops, OffersFound, ProposalFound, RunFound

\* A step of either kind that leaves the runs alone keeps what was found.
LEMMA FoundKept ==
    ASSUME Inv, FoundInv, UNCHANGED run, Stands(room, room') \/ Stops(room.solveEpoch, room')
    PROVE  FoundInv'
  <1>1. room \in RoomRecord /\ room.solveEpoch \in Nat
    BY DEF Inv, RoomInv, Sound, RoomRecord
  <1>2. \A w \in Worker : run[w] # None => run[w] \in SolverRun
    BY DEF Inv
  <1>3. OffersFound(room') /\ ProposalFound(room')
    BY <1>1, StandsKeeps, StopsKeeps DEF FoundInv
  <1>4. \A w \in Worker : run[w] # None => RunFound(room', run[w])
    BY <1>1, <1>2, StandsKeeps, StopsKeeps DEF FoundInv
  <1> QED
    BY <1>3, <1>4 DEF FoundInv

(***************************************************************************)
(* Which of the two each helper does.                                      *)
(***************************************************************************)

\* Another status changes nothing of what was found.
LEMMA RestatusStands ==
    ASSUME NEW r \in RoomRecord, NEW st
    PROVE  LET s == [r EXCEPT !.status = st] IN
           /\ Stands(r, s)
           /\ \A e : Stops(e, r) => Stops(e, s)
  <1> DEFINE s == [r EXCEPT !.status = st]
  <1>1. /\ s.schedule = r.schedule /\ s.policy = r.policy /\ s.context = r.context
        /\ s.present = r.present /\ s.owner = r.owner /\ s.proposal = r.proposal
        /\ s.job = r.job /\ s.solveEpoch = r.solveEpoch
    BY DEF RoomRecord
  <1> HIDE DEF s
  <1>2. Stands(r, s)
    BY <1>1 DEF Stands, Ready
  <1>3. \A e : Stops(e, r) => Stops(e, s)
    BY <1>1 DEF Stops, Offers
  <1> QED
    BY <1>2, <1>3 DEF s

\* s has the owners of r, but for what they approve and who was told
SameOwners(r, s) ==
    \A m \in Member :
        /\ s.owner[m].accepted = r.owner[m].accepted
        /\ s.owner[m].confirmed = r.owner[m].confirmed
        /\ s.owner[m].exceptions = r.owner[m].exceptions
        /\ s.owner[m].offers = r.owner[m].offers

\* Owners who keep what was found for them.
LEMMA OwnersStand ==
    ASSUME NEW r, NEW s, SameOwners(r, s),
           s.schedule = r.schedule, s.policy = r.policy, s.context = r.context,
           s.present = r.present, s.job = r.job, s.solveEpoch = r.solveEpoch,
           s.proposal = None \/ s.proposal = r.proposal
    PROVE  Stands(r, s)
  BY DEF Stands, SameOwners, Ready

\* clearProposal()
LEMMA ClearStands ==
    ASSUME NEW r \in RoomRecord, NEW st \in Hidden
    PROVE  LET s == ClearProposal(r, st) IN
           /\ Stands(r, s) /\ s.proposal = None /\ Offers(s) = Offers(r)
           /\ \A e : Stops(e, r) => Stops(e, s)
  <1> DEFINE s == ClearProposal(r, st)
  <1>1. /\ SameRest(r, s) /\ s.proposal = None
        /\ s.roundUsed = r.roundUsed /\ s.solveEpoch = r.solveEpoch /\ s.job = r.job
        /\ \A m \in Member : s.owner[m] = [r.owner[m] EXCEPT !.approval = 0]
    BY ClearIs
  <1> HIDE DEF s
  <1>2. \A m \in Member : r.owner[m] \in OwnerRecord
    BY DEF RoomRecord
  <1>3. SameOwners(r, s)
    BY <1>1, <1>2 DEF SameOwners, OwnerRecord
  <1>4. Stands(r, s)
    BY <1>1, <1>3, OwnersStand DEF SameRest
  <1>5. Offers(s) = Offers(r)
    BY <1>3 DEF SameOwners, Offers
  <1> QED
    BY <1>1, <1>4, <1>5 DEF s, Stops

\* Stopping the solver, and what is awaited of a new run.
LEMMA StopSolvingStops ==
    ASSUME NEW r \in RoomRecord, NEW st \in Hidden
    PROVE  Stops(r.solveEpoch, StopSolving(r, st))
  <1> DEFINE c == ClearProposal(r, st)
             d == [c EXCEPT !.solveEpoch = @ + 1, !.job = None]
             f == [m \in Member |-> [d.owner[m] EXCEPT !.offers = {}]]
             s == [d EXCEPT !.owner = f]
  <1>1. c \in RoomRecord /\ c.proposal = None /\ c.solveEpoch = r.solveEpoch
    BY ClearIs
  <1>2. s = StopSolving(r, st)
    BY DEF StopSolving, WithoutOffers, EveryOwner
  <1> HIDE DEF c
  <1>3. /\ d.proposal = None /\ d.solveEpoch = r.solveEpoch + 1 /\ d.job = None
        /\ d.owner = c.owner
        /\ d = [c EXCEPT !.solveEpoch = c.solveEpoch + 1, !.job = None]
    BY <1>1 DEF RoomRecord
  <1>4. \A m \in Member : d.owner[m] \in OwnerRecord
    BY <1>1, <1>3 DEF RoomRecord
  <1>5. \A m \in Member : f[m].offers = {}
    BY <1>4 DEF OwnerRecord
  <1>6. /\ s.proposal = None /\ s.solveEpoch = r.solveEpoch + 1 /\ s.job = None /\ s.owner = f
    <2>1. s = [c EXCEPT !.solveEpoch = c.solveEpoch + 1, !.job = None, !.owner = f]
      BY <1>3
    <2> HIDE DEF f, s, d
    <2> QED
      BY <1>1, <2>1 DEF RoomRecord
  <1> HIDE DEF s
  <1>7. Offers(s) = {}
    BY <1>5, <1>6 DEF Offers
  <1> QED
    BY <1>2, <1>6, <1>7 DEF Stops

LEMMA QueueStops ==
    ASSUME NEW r \in RoomRecord, Offers(r) = {}
    PROVE  Stops(r.solveEpoch, Queue(r))
  <1> DEFINE c == ClearProposal(r, "SOLVING")
             job == [epoch |-> r.solveEpoch + 1, context |-> r.context, completed |-> FALSE]
             s == [c EXCEPT !.solveEpoch = r.solveEpoch + 1, !.job = job]
  <1>1. "SOLVING" \in Hidden
    BY DEF Hidden
  <1>2. c \in RoomRecord /\ c.proposal = None /\ c.solveEpoch = r.solveEpoch /\ Offers(c) = {}
    BY <1>1, ClearIs, ClearStands
  <1> HIDE DEF c
  <1>3. s = Queue(r)
    BY <1>2 DEF Queue, c, RoomRecord
  <1>4. /\ s.proposal = None /\ s.solveEpoch = r.solveEpoch + 1 /\ s.job = job /\ s.owner = c.owner
    BY <1>2 DEF RoomRecord
  <1>5. job.epoch = r.solveEpoch + 1
    OBVIOUS
  <1> HIDE DEF s, job
  <1> QED
    BY <1>2, <1>3, <1>4, <1>5 DEF Stops, Offers

\* A new context.
LEMMA InvalidateStops ==
    ASSUME NEW r, Sound(r)
    PROVE  Stops(r.solveEpoch, Invalidate(r))
  <1> DEFINE s == Invalidate(r)
             c == ClearProposal(r, "SUPERSEDED")
             f == [m \in Member |-> RetiredOwner(c.owner[m])]
  <1>1. s.job = None /\ s.proposal = None /\ \A m \in Member : s.owner[m].offers = {}
    BY InvalidateKeeps
  <1>2. s.solveEpoch = r.solveEpoch + 1
    <2>1. c \in RoomRecord /\ c.solveEpoch = r.solveEpoch
      BY ClearIs DEF Sound, Hidden
    <2>2. s = [EveryOwner(c, RetiredOwner) EXCEPT !.context = @ + 1, !.roundUsed = FALSE,
                                                  !.solveEpoch = @ + 1, !.job = None]
      BY DEF Invalidate, RetiredOwner, EveryOwner
    <2> HIDE DEF c, s
    <2>3. s = [c EXCEPT !.owner = f, !.context = c.context + 1, !.roundUsed = FALSE,
                        !.solveEpoch = c.solveEpoch + 1, !.job = None]
      BY <2>1, <2>2 DEF EveryOwner, RoomRecord
    <2> HIDE DEF f
    <2> QED
      BY <2>1, <2>3 DEF RoomRecord
  <1> HIDE DEF s
  <1> QED
    BY <1>1, <1>2 DEF Stops, Offers, s

\* A sweep stops everything if something lapsed that was found with it, and
\* nothing otherwise.
LEMMA SweepStandsOrStops ==
    ASSUME NEW r, RoomInv(r)
    PROVE  /\ Stands(r, Sweep(r)) \/ Stops(r.solveEpoch, Sweep(r))
           /\ Sweep(r) = r => ~FeasibilityLapsed(r)
  <1> DEFINE w == WithoutLapsed(r)
             kept == IF r.proposal # None /\ Lapsed(r.proposal)
                     THEN ClearProposal(w, "SUPERSEDED") ELSE w
             o == SweepOpen(r)
  <1>0. r \in RoomRecord /\ r.solveEpoch \in Nat
    BY DEF RoomInv, Sound, RoomRecord
  <1>1. w \in RoomRecord /\ OwnersAside(r, w)
    BY WithoutLapsedKeeps DEF RoomInv, Sound
  <1>2. ~FeasibilityLapsed(r) => Stands(r, w)
    <2> SUFFICES ASSUME ~FeasibilityLapsed(r) PROVE Stands(r, w)
      OBVIOUS
    <2> DEFINE f == [m \in Member |-> LapsedOwner(r.owner[m])]
    <2>1. w = [r EXCEPT !.owner = f]
      BY DEF WithoutLapsed, EveryOwner, LapsedOwner
    <2>2. w.owner = f
      BY <1>0, <2>1 DEF RoomRecord
    <2>3. ASSUME NEW m \in Member
          PROVE  /\ w.owner[m].accepted = r.owner[m].accepted
                 /\ w.owner[m].confirmed = r.owner[m].confirmed
                 /\ w.owner[m].exceptions = r.owner[m].exceptions
                 /\ w.owner[m].offers = r.owner[m].offers
      <3> DEFINE x == r.owner[m]
      <3>1. x \in OwnerRecord /\ w.owner[m] = LapsedOwner(x)
        BY <1>0, <2>2 DEF RoomRecord
      <3>2. \A y \in x.offers : ~Lapsed(y)
        BY DEF FeasibilityLapsed
      <3>3. LapsedOwner(x).exceptions = x.exceptions
        <4>1. OwnerInv(x, m, r.context, r.roundUsed, r.published) /\ r.context \in Nat
          BY <1>0 DEF RoomInv, Sound, OwnersInv, RoomRecord
        <4>2. \A g \in x.exceptions : ~(g.status = "ACTIVE" /\ Lapsed(g))
          BY DEF FeasibilityLapsed
        <4> HIDE DEF x
        <4> QED
          BY <3>1, <4>1, <4>2, LapsedFollows
      <3> HIDE DEF x, w, f
      <3>4. /\ LapsedOwner(x).accepted = x.accepted /\ LapsedOwner(x).confirmed = x.confirmed
            /\ LapsedOwner(x).offers = {y \in x.offers : ~Lapsed(y)}
        BY <3>1 DEF LapsedOwner, OwnerRecord
      <3> QED
        BY <3>1, <3>2, <3>3, <3>4 DEF x
    <2> HIDE DEF w
    <2>4. SameOwners(r, w)
      BY <2>3 DEF SameOwners
    <2> QED
      BY <1>1, <2>4, OwnersStand DEF OwnersAside, SameRest
  <1> HIDE DEF w
  <1>3. /\ kept \in RoomRecord /\ kept.solveEpoch = r.solveEpoch
        /\ ~FeasibilityLapsed(r) => Stands(r, kept)
    <2>1. CASE r.proposal # None /\ Lapsed(r.proposal)
      <3> DEFINE c == ClearProposal(w, "SUPERSEDED")
      <3>1. "SUPERSEDED" \in Hidden
        BY DEF Hidden
      <3>2. c \in RoomRecord /\ c.solveEpoch = w.solveEpoch /\ Stands(w, c) /\ c.proposal = None
        BY <1>1, <3>1, ClearIs, ClearStands
      <3>3. kept = c
        BY <2>1
      <3> HIDE DEF c, kept
      <3>4. ASSUME Stands(r, w) PROVE Stands(r, c)
        <4>1. \A m \in Member : c.owner[m].exceptions = w.owner[m].exceptions
                                /\ c.owner[m].offers = w.owner[m].offers
          <5>1. \A m \in Member : w.owner[m] \in OwnerRecord
                                  /\ c.owner[m] = [w.owner[m] EXCEPT !.approval = 0]
            BY <1>1, <3>1, ClearIs DEF c, RoomRecord
          <5> QED
            BY <5>1 DEF OwnerRecord
        <4> QED
          BY <3>2, <3>4, <4>1 DEF Stands
      <3> QED
        BY <1>1, <1>2, <3>2, <3>3, <3>4 DEF OwnersAside
    <2>2. CASE ~(r.proposal # None /\ Lapsed(r.proposal))
      BY <1>1, <1>2, <2>2 DEF OwnersAside
    <2> QED
      BY <2>1, <2>2
  <1>4. o = IF FeasibilityLapsed(r)
            THEN StopSolving(kept, IF r.roundUsed THEN "NO_AGREEMENT" ELSE "SUPERSEDED")
            ELSE kept
    BY DEF SweepOpen, w
  <1> HIDE DEF kept
  <1>5. /\ FeasibilityLapsed(r) => Stops(r.solveEpoch, o)
        /\ ~FeasibilityLapsed(r) => Stands(r, o)
    <2>1. CASE FeasibilityLapsed(r)
      <3> DEFINE st == IF r.roundUsed THEN "NO_AGREEMENT" ELSE "SUPERSEDED"
      <3>1. st \in Hidden
        BY DEF Hidden
      <3>2. o = StopSolving(kept, st)
        BY <1>4, <2>1
      <3> HIDE DEF st
      <3> QED
        BY <1>3, <2>1, <3>1, <3>2, StopSolvingStops
    <2>2. CASE ~FeasibilityLapsed(r)
      BY <1>3, <1>4, <2>2
    <2> QED
      BY <2>1, <2>2
  <1>6. o \in RoomRecord
    BY SweepOpenKeeps DEF RoomInv, Sound
  <1>7. Sweep(r) = o \/ Sweep(r) = [o EXCEPT !.status = "CLOSED"]
    BY DEF Sweep
  <1> HIDE DEF o
  <1>8. Stands(o, Sweep(r)) /\ \A e : Stops(e, o) => Stops(e, Sweep(r))
    <2>1. LET s == [o EXCEPT !.status = "CLOSED"] IN
          Stands(o, s) /\ \A e : Stops(e, o) => Stops(e, s)
      BY <1>6, RestatusStands
    <2>2. Stands(o, o)
      BY DEF Stands
    <2> QED
      BY <1>7, <2>1, <2>2
  <1>9. Sweep(r).owner = o.owner /\ Sweep(r).solveEpoch = o.solveEpoch
    BY <1>6, <1>7 DEF RoomRecord
  <1>10. ~FeasibilityLapsed(r) => Stands(r, Sweep(r))
    BY <1>5, <1>8, <1>9 DEF Stands
  <1>11. FeasibilityLapsed(r) => Stops(r.solveEpoch, Sweep(r))
    BY <1>5, <1>8
  <1>12. ASSUME Sweep(r) = r, Stops(r.solveEpoch, Sweep(r)) PROVE FALSE
    BY <1>0, <1>12 DEF Stops
  <1> QED
    BY <1>10, <1>11, <1>12

LEMMA SeenStandsOrStops ==
    ASSUME NEW r, RoomInv(r)
    PROVE  Stands(r, Seen(r)) \/ Stops(r.solveEpoch, Seen(r))
  <1> DEFINE w == Sweep(r)
  <1>1. w \in RoomRecord
    BY SweepKeeps DEF RoomInv, Sound
  <1>2. Stands(r, w) \/ Stops(r.solveEpoch, w)
    BY SweepStandsOrStops
  <1>3. Seen(r) = w \/ \E st : Seen(r) = [w EXCEPT !.status = st]
    BY DEF Seen, CollectingStatus
  <1> HIDE DEF w
  <1>4. ASSUME NEW st, Seen(r) = [w EXCEPT !.status = st]
        PROVE  Stands(r, Seen(r)) \/ Stops(r.solveEpoch, Seen(r))
    <2>1. LET s == [w EXCEPT !.status = st] IN
          Stands(w, s) /\ \A e : Stops(e, w) => Stops(e, s)
      BY <1>1, RestatusStands
    <2>2. Seen(r).owner = w.owner
      BY <1>1, <1>4 DEF RoomRecord
    <2>3. Stands(w, Seen(r)) /\ \A e : Stops(e, w) => Stops(e, Seen(r))
      BY <1>4, <2>1
    <2> QED
      BY <1>2, <2>2, <2>3 DEF Stands
  <1> QED
    BY <1>2, <1>3, <1>4

\* The status a helper's caller sets afterwards.
LEMMA Restatused ==
    ASSUME NEW s \in RoomRecord, NEW st
    PROVE  LET t == [s EXCEPT !.status = st] IN
           /\ \A r : Stands(r, s) => Stands(r, t)
           /\ \A e : Stops(e, s) => Stops(e, t)
  <1> DEFINE t == [s EXCEPT !.status = st]
  <1>1. Stands(s, t) /\ \A e : Stops(e, s) => Stops(e, t)
    BY RestatusStands
  <1>2. t.owner = s.owner
    BY DEF RoomRecord
  <1> HIDE DEF t
  <1>3. \A r : Stands(r, s) => Stands(r, t)
    BY <1>1, <1>2 DEF Stands
  <1> QED
    BY <1>1, <1>3 DEF t

\* One owner changes and keeps what was found for him.
LEMMA OwnerStands ==
    ASSUME NEW r \in RoomRecord, NEW m \in Member, NEW p,
           p.confirmed.values = r.owner[m].confirmed.values,
           p.exceptions = r.owner[m].exceptions, p.offers = r.owner[m].offers,
           Ready(r) => /\ p.accepted = r.context /\ p.confirmed # None
                       /\ p.confirmed.context = r.context
    PROVE  Stands(r, [r EXCEPT !.owner[m] = p])
  <1> DEFINE s == [r EXCEPT !.owner[m] = p]
  <1>1. /\ s.schedule = r.schedule /\ s.policy = r.policy /\ s.context = r.context
        /\ s.present = r.present /\ s.job = r.job /\ s.solveEpoch = r.solveEpoch
        /\ s.proposal = r.proposal
        /\ s.owner[m] = p /\ \A n \in Member \ {m} : s.owner[n] = r.owner[n]
    BY DEF RoomRecord
  <1> HIDE DEF s
  <1>2. Ready(r) => Ready(s)
    BY <1>1 DEF Ready
  <1>3. \A n \in Member : /\ s.owner[n].confirmed.values = r.owner[n].confirmed.values
                          /\ s.owner[n].exceptions = r.owner[n].exceptions
                          /\ s.owner[n].offers = r.owner[n].offers
    BY <1>1
  <1> QED
    BY <1>1, <1>2, <1>3 DEF s, Stands

LEMMA OwnerStops ==
    ASSUME NEW r \in RoomRecord, NEW m \in Member, NEW p, p.offers = r.owner[m].offers,
           NEW e, Stops(e, r)
    PROVE  Stops(e, [r EXCEPT !.owner[m] = p])
  <1> DEFINE s == [r EXCEPT !.owner[m] = p]
  <1>1. /\ s.job = r.job /\ s.solveEpoch = r.solveEpoch /\ s.proposal = r.proposal
        /\ s.owner[m] = p /\ \A n \in Member \ {m} : s.owner[n] = r.owner[n]
    BY DEF RoomRecord
  <1> HIDE DEF s
  <1>2. \A n \in Member : s.owner[n].offers = r.owner[n].offers
    BY <1>1
  <1>3. Offers(s) = Offers(r)
    BY <1>2 DEF Offers
  <1> QED
    BY <1>1, <1>3 DEF s, Stops

\* Time takes nothing from a room but time.
LEMMA LaterStands ==
    ASSUME NEW r \in RoomRecord
    PROVE  Stands(r, Later(r))
  <1> DEFINE f == [m \in Member |-> LaterOwner(r.owner[m])]
             proposal == IF r.proposal = None THEN None ELSE Nearer(r.proposal)
             invitation == [m \in Member |->
                 IF r.invitation[m] = None THEN None ELSE Nearer(r.invitation[m])]
             s == [r EXCEPT !.owner = f, !.proposal = proposal, !.invitation = invitation]
  <1>1. s = Later(r)
    <2>1. Later(r) = [[r EXCEPT !.owner = f] EXCEPT
                         !.proposal = IF @ = None THEN None ELSE Nearer(@),
                         !.invitation = [m \in Member |-> IF @[m] = None THEN None ELSE Nearer(@[m])]]
      BY DEF Later, EveryOwner, LaterOwner
    <2> HIDE DEF f
    <2> QED
      BY <2>1 DEF RoomRecord
  <1>2. ASSUME NEW m \in Member
        PROVE  /\ f[m].accepted = r.owner[m].accepted /\ f[m].confirmed = r.owner[m].confirmed
               /\ f[m].exceptions = Sooner(r.owner[m].exceptions)
               /\ f[m].offers = Sooner(r.owner[m].offers)
    <2> DEFINE o == r.owner[m]
    <2>1. o \in OwnerRecord /\ f[m] = LaterOwner(o)
      BY DEF RoomRecord
    <2> HIDE DEF o, f
    <2>2. /\ LaterOwner(o).accepted = o.accepted /\ LaterOwner(o).confirmed = o.confirmed
          /\ LaterOwner(o).exceptions = Sooner(o.exceptions)
          /\ LaterOwner(o).offers = Sooner(o.offers)
      BY <2>1 DEF OwnerRecord, LaterOwner
    <2> QED
      BY <2>1, <2>2 DEF o
  <1>3. r.proposal # None => proposal.plan = r.proposal.plan
    BY DEF RoomRecord, Proposal, Nearer
  <1>4. r.proposal = None => proposal = None
    OBVIOUS
  <1> HIDE DEF f, proposal, invitation
  <1>5. /\ s.schedule = r.schedule /\ s.policy = r.policy /\ s.context = r.context
        /\ s.present = r.present /\ s.job = r.job /\ s.solveEpoch = r.solveEpoch
        /\ s.proposal = proposal /\ s.owner = f
    BY DEF RoomRecord
  <1> HIDE DEF s
  <1>6. Ready(r) => Ready(s)
    BY <1>2, <1>5 DEF Ready
  <1> QED
    BY <1>1, <1>2, <1>3, <1>4, <1>5, <1>6 DEF Stands

(***************************************************************************)
(* What each handler does to what was found.                               *)
(***************************************************************************)

LEMMA InvitationStands ==
    ASSUME Inv, NEW m \in Member, Invitation(m)
    PROVE  Stands(room, room')
  <1>1. room \in RoomRecord
    BY InvFacts
  <1>2. /\ room'.owner = room.owner /\ room'.schedule = room.schedule
        /\ room'.policy = room.policy /\ room'.context = room.context
        /\ room'.present = room.present /\ room'.job = room.job
        /\ room'.solveEpoch = room.solveEpoch /\ room'.proposal = room.proposal
    BY <1>1 DEF RoomRecord, Invitation, IssueRoomInvitation, RedeemRoomInvitation
  <1>3. SameOwners(room, room')
    BY <1>2 DEF SameOwners
  <1> QED
    BY <1>2, <1>3, OwnersStand

\* Before the round of a context is used nobody is asked.
LEMMA UnaskedBefore ==
    ASSUME NEW r, Sound(r), ~r.roundUsed
    PROVE  /\ Offers(r) = {}
           /\ \A m \in Member : \A g \in r.owner[m].exceptions : g.context # r.context
  BY DEF Sound, OwnersInv, OwnerInv, Offers

LEMMA InputsStandOrStop ==
    ASSUME Inv, NEW m \in Member, Inputs(m)
    PROVE  Stands(room, room') \/ Stops(room.solveEpoch, room')
  <1> DEFINE o == room.owner[m]
  <1>1. /\ RoomInv(room) /\ Sound(room) /\ room \in RoomRecord /\ room.context \in Nat
        /\ o \in OwnerRecord
    BY InvFacts
  <1>2. ASSUME NEW v \in DraftValues[m], SubmitInputDraft(m, v) PROVE Stands(room, room')
    <2> DEFINE p == [o EXCEPT !.draft = v]
    <2>1. /\ p.confirmed = o.confirmed /\ p.accepted = o.accepted
          /\ p.exceptions = o.exceptions /\ p.offers = o.offers
      BY <1>1 DEF OwnerRecord
    <2>2. room' = [room EXCEPT !.owner[m] = p]
      BY <1>1, <1>2 DEF SubmitInputDraft, RoomRecord
    <2> HIDE DEF p
    <2>3. Ready(room) => p.accepted = room.context /\ p.confirmed # None
                         /\ p.confirmed.context = room.context
      BY <2>1 DEF Ready
    <2> QED
      BY <1>1, <2>1, <2>2, <2>3, OwnerStands
  <1>3. CASE ConfirmInputs(m)
    <2> DEFINE r == Invalidate(room)
               q == r.owner[m]
               p == [q EXCEPT !.draft = None,
                              !.confirmed = [values |-> o.draft, context |-> r.context]]
               s == [r EXCEPT !.owner[m] = p]
               st == IF Ready(s) THEN "READY" ELSE "COLLECTING"
    <2>1. RoomInv(r) /\ r.context = room.context + 1 /\ Stops(room.solveEpoch, r)
      BY <1>1, InvalidateKeeps, InvalidateStops
    <2>2. o.draft # None /\ room' = CollectingStatus(
                 [r EXCEPT !.owner[m].draft = None,
                           !.owner[m].confirmed = [values |-> o.draft, context |-> r.context]])
      BY <1>3 DEF ConfirmInputs
    <2> HIDE DEF r
    <2>3. o.draft \in Values /\ r \in RoomRecord /\ q \in OwnerRecord /\ r.context \in Nat
      BY <1>1, <2>1, <2>2 DEF OwnerRecord, RoomInv, Sound, RoomRecord
    <2>4. p \in OwnerRecord /\ p.offers = q.offers
      <3>1. [values |-> o.draft, context |-> r.context] \in [values : Values, context : Nat]
        BY <2>3
      <3> QED
        BY <2>3, <3>1 DEF OwnerRecord
    <2>5. s = [r EXCEPT !.owner[m].draft = None,
                        !.owner[m].confirmed = [values |-> o.draft, context |-> r.context]]
      BY <2>3 DEF RoomRecord
    <2>6. room' = CollectingStatus(s)
      BY <2>2, <2>5
    <2> HIDE DEF p
    <2>7. s \in RoomRecord
      BY <2>3, <2>4 DEF RoomRecord
    <2>8. Stops(room.solveEpoch, s)
      BY <2>1, <2>3, <2>4, OwnerStops
    <2> HIDE DEF s, st
    <2>9. room' = [s EXCEPT !.status = st]
      BY <2>6 DEF CollectingStatus, st
    <2> QED
      BY <2>7, <2>8, <2>9, Restatused
  <1>4. CASE AcceptContext(m)
    <2> DEFINE c == [o.confirmed EXCEPT !.context = room.context]
               p == [o EXCEPT !.confirmed = c, !.accepted = room.context]
               s == [room EXCEPT !.owner[m] = p]
               st == IF Ready(s) THEN "READY" ELSE "COLLECTING"
    <2>1. o.confirmed # None
      BY <1>4 DEF AcceptContext
    <2>2. o.confirmed \in [values : Values, context : Nat]
      BY <1>1, <2>1 DEF OwnerRecord
    <2>3. /\ c \in [values : Values, context : Nat]
          /\ c.values = o.confirmed.values /\ c.context = room.context
      BY <1>1, <2>2
    <2> HIDE DEF c
    <2>4. /\ p \in OwnerRecord /\ p.offers = o.offers /\ p.exceptions = o.exceptions
          /\ p.confirmed = c /\ p.accepted = room.context
      BY <1>1, <2>3 DEF OwnerRecord
    <2>5. s = [room EXCEPT !.owner[m].confirmed.context = room.context,
                           !.owner[m].accepted = room.context]
      BY <1>1 DEF RoomRecord, c, OwnerRecord
    <2>6. room' = IF room.status \in {"COLLECTING", "SUPERSEDED", "READY"}
                  THEN CollectingStatus(s) ELSE s
      BY <1>4, <2>5 DEF AcceptContext
    <2> HIDE DEF p
    <2>7. s \in RoomRecord
      BY <1>1, <2>4 DEF RoomRecord
    <2>8. Ready(room) => p.confirmed # None
      <3>1. Ready(room) => o.confirmed.context = room.context
        BY DEF Ready
      <3>2. Ready(room) => c = o.confirmed
        BY <2>2, <3>1 DEF c
      <3> QED
        BY <2>1, <2>4, <3>2
    <2>9. Stands(room, s)
      BY <1>1, <2>3, <2>4, <2>8, OwnerStands
    <2> HIDE DEF s, st
    <2>10. room' = s \/ room' = [s EXCEPT !.status = st]
      BY <2>6 DEF CollectingStatus, st
    <2> QED
      BY <2>7, <2>9, <2>10, Restatused
  <1>5. CASE RequestSolve(m)
    <2>1. Offers(room) = {}
      BY <1>1, <1>5, UnaskedBefore DEF RequestSolve
    <2> QED
      BY <1>1, <1>5, <2>1, QueueStops DEF RequestSolve
  <1> QED
    BY <1>2, <1>3, <1>4, <1>5 DEF Inputs

LEMMA DeclineStops ==
    ASSUME Inv, NEW m \in Member, NEW o \in room.owner[m].offers, DeclineException(m, o)
    PROVE  Stops(room.solveEpoch, room')
  <1> DEFINE w == room.owner[m]
             a == Answer(m, o, "DECLINED")
  <1>1. room \in RoomRecord /\ w \in OwnerRecord
    BY InvFacts
  <1>2. PICK g \in Exception :
              /\ g.name = o.name /\ g.slot = o.slot
              /\ g.context = o.context /\ g.status = "DECLINED"
              /\ a = [room EXCEPT !.owner[m] =
                        AnsweredOwner(room.owner[m], o, g, room.owner[m].previews)]
    BY AnswerIs
  <1> DEFINE p == AnsweredOwner(room.owner[m], o, g, room.owner[m].previews)
  <1>3. p \in OwnerRecord
    BY <1>1 DEF OwnerRecord, AnsweredOwner
  <1> HIDE DEF p, w, a
  <1>4. a \in RoomRecord /\ a.solveEpoch = room.solveEpoch
    BY <1>1, <1>2, <1>3 DEF RoomRecord, p
  <1>5. "NO_AGREEMENT" \in Hidden
    BY DEF Hidden
  <1>6. room' = StopSolving(a, "NO_AGREEMENT")
    BY DEF DeclineException, a
  <1> QED
    BY <1>4, <1>5, <1>6, StopSolvingStops

LEMMA RevokeStops ==
    ASSUME Inv, NEW m \in Member, NEW g \in room.owner[m].exceptions, RevokeException(m, g)
    PROVE  Stops(room.solveEpoch, room')
  <1> DEFINE o == room.owner[m]
             x == Ended(o.exceptions, {g}, "REVOKED")
             p == [o EXCEPT !.exceptions = x]
             a == Revoked(m, g)
  <1>1. room \in RoomRecord /\ o \in OwnerRecord
    BY InvFacts
  <1>2. x \in SUBSET Exception
    BY <1>1, EndedTyped DEF Ending, OwnerRecord
  <1>3. a = [room EXCEPT !.owner[m] = p]
    BY <1>1 DEF Revoked, RoomRecord, OwnerRecord
  <1> HIDE DEF x, a
  <1>4. p \in OwnerRecord
    BY <1>1, <1>2 DEF OwnerRecord
  <1> HIDE DEF p
  <1>5. a \in RoomRecord /\ a.solveEpoch = room.solveEpoch
    BY <1>1, <1>3, <1>4 DEF RoomRecord
  <1>6. "SUPERSEDED" \in Hidden
    BY DEF Hidden
  <1>7. room' = StopSolving(a, "SUPERSEDED")
    BY DEF RevokeException, a
  <1> QED
    BY <1>5, <1>6, <1>7, StopSolvingStops

LEMMA DisclosingStands ==
    ASSUME Inv, NEW m \in Member,
           \/ \E p \in room.owner[m].previews, status \in {"ACTIVE", "DECLINED"} :
                DecideDisclosure(m, p, status)
           \/ \E d \in room.owner[m].disclosures : RevokeDisclosure(m, d) \/ PublishDisclosure(m, d)
    PROVE  Stands(room, room')
  <1> DEFINE o == room.owner[m]
  <1>1. room \in RoomRecord /\ o \in OwnerRecord
    BY InvFacts
  <1>2. \E previews, disclosures, published :
           room' = [room EXCEPT !.published = published, !.owner[m] =
                      [o EXCEPT !.previews = previews, !.disclosures = disclosures]]
    <2>1. ASSUME NEW p, NEW status, DecideDisclosure(m, p, status)
          PROVE  \E previews, disclosures :
                   room' = [room EXCEPT !.published = room.published, !.owner[m] =
                      [o EXCEPT !.previews = previews, !.disclosures = disclosures]]
      <3> DEFINE d == [context |-> p.context, status |-> status, published |-> FALSE,
                       left |-> IF status = "ACTIVE" THEN p.left ELSE 0]
      <3>1. room' = [room EXCEPT !.owner[m].previews = o.previews \ {p},
                                 !.owner[m].disclosures = o.disclosures \cup {d}]
        BY <1>1, <2>1 DEF DecideDisclosure, RoomRecord, OwnerRecord
      <3> HIDE DEF d
      <3>2. room' = [room EXCEPT !.published = room.published, !.owner[m] =
                      [o EXCEPT !.previews = o.previews \ {p},
                                !.disclosures = o.disclosures \cup {d}]]
        BY <1>1, <3>1 DEF RoomRecord, OwnerRecord
      <3> QED
        BY <3>2
    <2>2. ASSUME NEW d, RevokeDisclosure(m, d)
          PROVE  \E disclosures :
                   room' = [room EXCEPT !.published = room.published, !.owner[m] =
                      [o EXCEPT !.previews = o.previews, !.disclosures = disclosures]]
      <3> DEFINE x == Ended(o.disclosures, {d}, "REVOKED")
      <3>1. room' = [room EXCEPT !.owner[m].disclosures = x]
        BY <1>1, <2>2 DEF RevokeDisclosure, RoomRecord, OwnerRecord
      <3> HIDE DEF x
      <3>2. room' = [room EXCEPT !.published = room.published, !.owner[m] =
                      [o EXCEPT !.previews = o.previews, !.disclosures = x]]
        BY <1>1, <3>1 DEF RoomRecord, OwnerRecord
      <3> QED
        BY <3>2
    <2>3. ASSUME NEW d, PublishDisclosure(m, d)
          PROVE  \E disclosures, published :
                   room' = [room EXCEPT !.published = published, !.owner[m] =
                      [o EXCEPT !.previews = o.previews, !.disclosures = disclosures]]
      <3> DEFINE all == room.published \cup {[owner |-> m, context |-> room.context]}
                 x == (o.disclosures \ {d}) \cup {[d EXCEPT !.published = TRUE]}
      <3>1. room' = [room EXCEPT !.published = all, !.owner[m].disclosures = x]
        BY <1>1, <2>3 DEF PublishDisclosure, RoomRecord, OwnerRecord
      <3> HIDE DEF all, x
      <3>2. room' = [room EXCEPT !.published = all, !.owner[m] =
                      [o EXCEPT !.previews = o.previews, !.disclosures = x]]
        BY <1>1, <3>1 DEF RoomRecord, OwnerRecord
      <3> QED
        BY <3>2
    <2> QED
      BY <2>1, <2>2, <2>3
  <1>3. PICK previews, disclosures, published :
           room' = [room EXCEPT !.published = published, !.owner[m] =
                      [o EXCEPT !.previews = previews, !.disclosures = disclosures]]
    BY <1>2
  <1> DEFINE p == [o EXCEPT !.previews = previews, !.disclosures = disclosures]
  <1>4. /\ p.confirmed = o.confirmed /\ p.accepted = o.accepted
        /\ p.exceptions = o.exceptions /\ p.offers = o.offers
    BY <1>1 DEF OwnerRecord
  <1> HIDE DEF p
  <1>5. /\ room'.schedule = room.schedule
        /\ room'.policy = room.policy /\ room'.context = room.context
        /\ room'.present = room.present /\ room'.job = room.job
        /\ room'.solveEpoch = room.solveEpoch /\ room'.proposal = room.proposal
        /\ room'.owner[m] = p /\ \A n \in Member \ {m} : room'.owner[n] = room.owner[n]
    BY <1>1, <1>3 DEF RoomRecord, p
  <1>6. SameOwners(room, room')
    BY <1>4, <1>5 DEF SameOwners
  <1> QED
    BY <1>5, <1>6, OwnersStand

LEMMA ApprovalsStand ==
    ASSUME Inv, NEW m \in Member, Approvals(m)
    PROVE  Stands(room, room')
  <1>1. room \in RoomRecord /\ \A n \in Member : room.owner[n] \in OwnerRecord
    BY InvFacts
  <1>2. ASSUME NEW a, NEW st, NEW k,
               \/ room' = [[room EXCEPT !.owner[m].approval = a] EXCEPT !.status = st]
               \/ room' = [[room EXCEPT !.owner[m].approval = a] EXCEPT !.status = st, !.receipts = k]
        PROVE  Stands(room, room')
    <2> DEFINE p == [room.owner[m] EXCEPT !.approval = a]
    <2>0. \/ room' = [room EXCEPT !.owner[m] = p, !.status = st]
          \/ room' = [room EXCEPT !.owner[m] = p, !.status = st, !.receipts = k]
      BY <1>1, <1>2 DEF RoomRecord
    <2>1. /\ room'.schedule = room.schedule
          /\ room'.policy = room.policy /\ room'.context = room.context
          /\ room'.present = room.present /\ room'.job = room.job
          /\ room'.solveEpoch = room.solveEpoch /\ room'.proposal = room.proposal
          /\ room'.owner[m] = p /\ \A n \in Member \ {m} : room'.owner[n] = room.owner[n]
      <3> HIDE DEF p
      <3> DEFINE f == [room.owner EXCEPT ![m] = p]
      <3>1. f[m] = p /\ \A n \in Member \ {m} : f[n] = room.owner[n]
        BY <1>1 DEF RoomRecord
      <3>2. \/ room' = [room EXCEPT !.owner = f, !.status = st]
            \/ room' = [room EXCEPT !.owner = f, !.status = st, !.receipts = k]
        BY <1>1, <2>0 DEF RoomRecord
      <3> HIDE DEF f
      <3>3. /\ room'.owner = f /\ room'.schedule = room.schedule
            /\ room'.policy = room.policy /\ room'.context = room.context
            /\ room'.present = room.present /\ room'.job = room.job
            /\ room'.solveEpoch = room.solveEpoch /\ room'.proposal = room.proposal
        <4>1. CASE room' = [room EXCEPT !.owner = f, !.status = st]
          BY <1>1, <4>1 DEF RoomRecord
        <4>2. CASE room' = [room EXCEPT !.owner = f, !.status = st, !.receipts = k]
          BY <1>1, <4>2 DEF RoomRecord
        <4> QED
          BY <3>2, <4>1, <4>2
      <3> QED
        BY <3>1, <3>3
    <2>2. /\ p.confirmed = room.owner[m].confirmed /\ p.accepted = room.owner[m].accepted
          /\ p.exceptions = room.owner[m].exceptions /\ p.offers = room.owner[m].offers
      BY <1>1 DEF OwnerRecord
    <2> HIDE DEF p
    <2>3. SameOwners(room, room')
      BY <2>1, <2>2 DEF SameOwners
    <2> QED
      BY <2>1, <2>3, OwnersStand
  <1>3. CASE AcceptProposal(m)
    <2> DEFINE approved == [room EXCEPT !.owner[m].approval = room.proposal.version]
    <2>1. \/ room' = [approved EXCEPT !.status = "AGREED",
                         !.receipts = @ + IF room.status = "AGREED" THEN 0 ELSE 1]
          \/ room' = [approved EXCEPT !.status = "APPROVING"]
      BY <1>3 DEF AcceptProposal
    <2>2. \/ \E k : room' = [approved EXCEPT !.status = "AGREED", !.receipts = k]
          \/ room' = [approved EXCEPT !.status = "APPROVING"]
      BY <2>1
    <2> QED
      BY <1>2, <2>2
  <1>4. CASE WithdrawApproval(m)
    <2>1. "SUPERSEDED" \in Hidden
      BY DEF Hidden
    <2>2. \/ room' = ClearProposal(room, "SUPERSEDED")
          \/ \E st : room' = [[room EXCEPT !.owner[m].approval = 0] EXCEPT !.status = st]
      BY <1>4 DEF WithdrawApproval
    <2> QED
      BY <1>1, <1>2, <2>1, <2>2, ClearStands
  <1> QED
    BY <1>3, <1>4 DEF Approvals

LEMMA ReviseStops ==
    ASSUME Inv, NEW schedule \in Schedules, NEW policy \in Policies, NEW present \in SUBSET Member,
           ReviseDecision(schedule, policy, present)
    PROVE  Stops(room.solveEpoch, room')
  <1> DEFINE r == Invalidate(room)
             k == r.retired + RetiredWith(room.present \ present)
             f == [m \in Member |-> IF m \in present \cap room.present
                                    THEN r.owner[m] ELSE FreshOwner]
             s == [r EXCEPT !.schedule = schedule, !.policy = policy, !.present = present,
                            !.retired = k, !.owner = f]
  <1>1. Sound(room)
    BY DEF Inv, RoomInv
  <1>2. RoomInv(r) /\ Stops(room.solveEpoch, r) /\ \A m \in Member : r.owner[m].offers = {}
    BY <1>1, InvalidateKeeps, InvalidateStops
  <1>3. room' = s \/ room' = ReopenInputs(s)
    BY Zenon DEF ReviseDecision
  <1> HIDE DEF r, k
  <1>4. r \in RoomRecord
    BY <1>2 DEF RoomInv, Sound
  <1>5. \A m \in Member : f[m] \in OwnerRecord /\ f[m].offers = {}
    <2>1. FreshOwner \in OwnerRecord /\ FreshOwner.offers = {}
      BY DEF FreshOwner, OwnerRecord
    <2> QED
      BY <1>2, <1>4, <2>1 DEF RoomRecord
  <1> HIDE DEF f
  <1>6. s.owner = f /\ s.proposal = r.proposal /\ s.job = r.job /\ s.solveEpoch = r.solveEpoch
    BY <1>4 DEF RoomRecord
  <1>7. Stops(room.solveEpoch, s)
    BY <1>2, <1>5, <1>6 DEF Stops, Offers
  <1>8. Stops(room.solveEpoch, ReopenInputs(s))
    <2> DEFINE h == [m \in Member |->
                       [s.owner[m] EXCEPT !.draft = IF s.owner[m].confirmed # None
                                                    THEN s.owner[m].confirmed.values ELSE @,
                                          !.confirmed = None]]
    <2>1. ReopenInputs(s) = [s EXCEPT !.owner = h]
      BY DEF ReopenInputs, EveryOwner
    <2>2. ASSUME NEW m \in Member PROVE h[m].offers = {}
      <3>1. s.owner[m] \in OwnerRecord /\ s.owner[m].offers = {}
        BY <1>5, <1>6
      <3> HIDE DEF s
      <3> QED
        BY <3>1 DEF OwnerRecord
    <2> HIDE DEF h
    <2> DEFINE t == [s EXCEPT !.owner = h]
    <2>3. /\ t.owner = h /\ t.proposal = s.proposal /\ t.job = s.job
          /\ t.solveEpoch = s.solveEpoch
      BY <1>4 DEF RoomRecord
    <2> HIDE DEF s, t
    <2>4. ReopenInputs(s) = t
      BY <2>1 DEF t
    <2> QED
      BY <1>7, <2>2, <2>3, <2>4 DEF Stops, Offers
  <1> QED
    BY <1>3, <1>7, <1>8

LEMMA CloseStops ==
    ASSUME Inv, CloseRoom
    PROVE  Stops(room.solveEpoch, room')
  <1> DEFINE r == Invalidate(room)
  <1>1. Sound(room)
    BY DEF Inv, RoomInv
  <1>2. RoomInv(r) /\ Stops(room.solveEpoch, r)
    BY <1>1, InvalidateKeeps, InvalidateStops
  <1>3. "CLOSED" \in Hidden /\ room' = ClearProposal(r, "CLOSED")
    BY DEF Hidden, CloseRoom
  <1> HIDE DEF r
  <1> QED
    BY <1>2, <1>3, ClearStands DEF RoomInv, Sound

LEMMA LookingStandsOrStops ==
    ASSUME Inv, GetPublicSnapshot \/ Refuse \/ Tick
    PROVE  Stands(room, room') \/ Stops(room.solveEpoch, room')
  <1>1. RoomInv(room) /\ room \in RoomRecord
    BY DEF Inv, RoomInv, Sound
  <1> QED
    BY <1>1, SeenStandsOrStops, SweepStandsOrStops, LaterStands DEF GetPublicSnapshot, Refuse, Tick

\* Nobody stands in the way of a feasible plan without having given way.
LEMMA FeasibleIsGiven ==
    ASSUME NEW input, NEW p, EvaluateCandidate(input, p) = "FEASIBLE",
           NEW m \in DOMAIN input.values, NEW c \in Blocking(input.values[m], p.slot)
    PROVE  [owner |-> m, name |-> c.name, slot |-> p.slot] \in input.grants
  <1>1. p.slot \in RequiredIntervals(input.schedule, p, m)
    BY DEF RequiredIntervals
  <1>2. IntervalState(input, p, m, p.slot) = "FREE"
    BY <1>1, FeasibleIsFree
  <1>3. MatchingGrant(input, p, m, c)
    BY <1>2 DEF IntervalState
  <1> QED
    BY <1>3 DEF MatchingGrant

\* The grants for other slots than a plan's do not matter to it.
LEMMA OtherGrants ==
    ASSUME NEW i, NEW j, i.schedule = j.schedule, i.values = j.values, NEW p,
           \A m, n : [owner |-> m, name |-> n, slot |-> p.slot] \in i.grants
                       <=> [owner |-> m, name |-> n, slot |-> p.slot] \in j.grants
    PROVE  EvaluateCandidate(i, p) = "FEASIBLE" <=> EvaluateCandidate(j, p) = "FEASIBLE"
  <1>1. \A m, c : MatchingGrant(i, p, m, c) <=> MatchingGrant(j, p, m, c)
    BY DEF MatchingGrant
  <1>2. \A m, x : IntervalState(i, p, m, x) = "FREE" <=> IntervalState(j, p, m, x) = "FREE"
    BY <1>1 DEF IntervalState
  <1>3. EvaluateCandidate(i, p) = "FEASIBLE"
          <=> \A m \in DOMAIN i.values : \A x \in RequiredIntervals(i.schedule, p, m) :
                 IntervalState(i, p, m, x) = "FREE"
    BY FeasibleIsFree
  <1>4. EvaluateCandidate(j, p) = "FEASIBLE"
          <=> \A m \in DOMAIN j.values : \A x \in RequiredIntervals(j.schedule, p, m) :
                 IntervalState(j, p, m, x) = "FREE"
    BY FeasibleIsFree
  <1> QED
    BY <1>2, <1>3, <1>4

\* Whose the grants are that are in force or asked for.
LEMMA GrantsAre ==
    ASSUME NEW r, NEW x
    PROVE  /\ x \in ActiveGrants(r)
                <=> \E m \in Member : \E g \in r.owner[m].exceptions :
                      /\ g.status = "ACTIVE" /\ g.context = r.context
                      /\ x = [owner |-> m, name |-> g.name, slot |-> g.slot]
           /\ x \in AskedGrants(r)
                <=> \E m \in Member : \E o \in r.owner[m].offers :
                      x = [owner |-> m, name |-> o.name, slot |-> o.slot]
  <1>1. x \in ActiveGrants(r)
          <=> \E m \in Member : \E g \in r.owner[m].exceptions :
                /\ g.status = "ACTIVE" /\ g.context = r.context
                /\ x = [owner |-> m, name |-> g.name, slot |-> g.slot]
    BY DEF ActiveGrants
  <1>2. x \in AskedGrants(r)
          <=> \E m \in Member : \E o \in r.owner[m].offers :
                x = [owner |-> m, name |-> o.name, slot |-> o.slot]
    BY DEF AskedGrants
  <1> QED
    BY <1>1, <1>2

LEMMA ConcedingIs ==
    ASSUME NEW r
    PROVE  Conceding(r) =
             [schedule |-> r.schedule, policy |-> r.policy, load |-> PriorLoad,
              values |-> [m \in Member |-> r.owner[m].confirmed.values],
              grants |-> ActiveGrants(r) \cup AskedGrants(r)]
  <1> DEFINE values == [m \in Member |-> r.owner[m].confirmed.values]
             i == [schedule |-> r.schedule, policy |-> r.policy, load |-> PriorLoad,
                   values |-> values, grants |-> ActiveGrants(r)]
  <1>1. SolverInput(r) = i
    BY DEF SolverInput
  <1> HIDE DEF values
  <1>2. \A a, b, c, d, e, f :
           [[schedule |-> a, policy |-> b, load |-> c, values |-> d, grants |-> e]
              EXCEPT !.grants = f] =
           [schedule |-> a, policy |-> b, load |-> c, values |-> d, grants |-> f]
    OBVIOUS
  <1>3. i.grants = ActiveGrants(r)
    OBVIOUS
  <1> HIDE DEF i
  <1>4. Conceding(r) = [i EXCEPT !.grants = ActiveGrants(r) \cup AskedGrants(r)]
    BY <1>1, <1>3 DEF Conceding
  <1> QED
    BY <1>2, <1>4 DEF i, values

\* m gives way for the offer o, with grant g
Gives(r, s, m, o, g) ==
    /\ s.schedule = r.schedule /\ s.policy = r.policy /\ s.context = r.context
    /\ s.present = r.present /\ s.proposal = r.proposal /\ s.job = r.job
    /\ \A n \in Member : /\ s.owner[n].accepted = r.owner[n].accepted
                         /\ s.owner[n].confirmed = r.owner[n].confirmed
    /\ \A n \in Member \ {m} : /\ s.owner[n].exceptions = r.owner[n].exceptions
                               /\ s.owner[n].offers = r.owner[n].offers
    /\ s.owner[m].offers = r.owner[m].offers \ {o}
    /\ s.owner[m].exceptions = r.owner[m].exceptions \cup {g}
    /\ g.name = o.name /\ g.slot = o.slot /\ g.context = o.context /\ g.status = "ACTIVE"

\* One of those who are asked says yes, and others still have to: what was
\* found holds of the others.
LEMMA GivenFound ==
    ASSUME NEW r, Sound(r), OffersFound(r), NEW m \in Member, NEW o \in r.owner[m].offers,
           NEW s, NEW g, Gives(r, s, m, o, g)
    PROVE  OffersFound(s)
  <1> SUFFICES ASSUME Offers(s) # {} PROVE OffersFound(s)
    BY DEF OffersFound
  <1> USE DEF Gives
  <1> DEFINE given == [owner |-> m, name |-> o.name, slot |-> o.slot]
  <1>1. /\ Ready(r) /\ r.proposal = None /\ (r.job # None => r.job.completed)
        /\ Feasible(SolverInput(r)) = {} /\ Feasible(Conceding(r)) # {}
        /\ \A n \in Member : \A q \in r.owner[n].offers :
              OfferStands(r, n, q) /\ q.slot = o.slot
    <2>1. Offers(r) # {}
      BY DEF Offers
    <2> QED
      BY <2>1 DEF OffersFound
  <1>2. o.context = r.context
    BY DEF Sound, OwnersInv, OwnerInv
  <1>3. Ready(s)
    BY <1>1 DEF Ready
  <1>4. ASSUME NEW x PROVE x \in ActiveGrants(s) <=> x \in ActiveGrants(r) \/ x = given
    <2>1. ASSUME x \in ActiveGrants(s) PROVE x \in ActiveGrants(r) \/ x = given
      <3>1. PICK n, h :
              /\ n \in Member /\ h \in s.owner[n].exceptions
              /\ h.status = "ACTIVE" /\ h.context = r.context
              /\ x = [owner |-> n, name |-> h.name, slot |-> h.slot]
        BY <2>1, GrantsAre
      <3>2. CASE n = m /\ h = g
        BY <3>1, <3>2
      <3>3. CASE ~(n = m /\ h = g)
        <4>1. h \in r.owner[n].exceptions
          BY <3>1, <3>3
        <4> QED
          BY <3>1, <4>1, GrantsAre
      <3> QED
        BY <3>2, <3>3
    <2>2. ASSUME x \in ActiveGrants(r) PROVE x \in ActiveGrants(s)
      <3>1. PICK n, h :
              /\ n \in Member /\ h \in r.owner[n].exceptions
              /\ h.status = "ACTIVE" /\ h.context = r.context
              /\ x = [owner |-> n, name |-> h.name, slot |-> h.slot]
        BY <2>2, GrantsAre
      <3>2. h \in s.owner[n].exceptions
        BY <3>1
      <3> QED
        BY <3>1, <3>2, GrantsAre
    <2>3. ASSUME x = given PROVE x \in ActiveGrants(s)
      <3>1. g \in s.owner[m].exceptions /\ g.context = s.context
        BY <1>2
      <3>2. x = [owner |-> m, name |-> g.name, slot |-> g.slot]
        BY <2>3
      <3> QED
        BY <3>1, <3>2, GrantsAre
    <2> QED
      BY <2>1, <2>2, <2>3
  <1>5. ActiveGrants(s) \cup AskedGrants(s) = ActiveGrants(r) \cup AskedGrants(r)
    <2>1. ASSUME NEW x \in AskedGrants(s) PROVE x \in AskedGrants(r)
      <3>1. PICK n, q :
              /\ n \in Member /\ q \in s.owner[n].offers
              /\ x = [owner |-> n, name |-> q.name, slot |-> q.slot]
        BY GrantsAre
      <3>2. q \in r.owner[n].offers
        BY <3>1
      <3> QED
        BY <3>1, <3>2, GrantsAre
    <2>2. ASSUME NEW x \in AskedGrants(r) PROVE x = given \/ x \in AskedGrants(s)
      <3>1. PICK n, q :
              /\ n \in Member /\ q \in r.owner[n].offers
              /\ x = [owner |-> n, name |-> q.name, slot |-> q.slot]
        BY GrantsAre
      <3>2. CASE n = m /\ q = o
        BY <3>1, <3>2
      <3>3. CASE ~(n = m /\ q = o)
        <4>1. q \in s.owner[n].offers
          BY <3>1, <3>3
        <4> QED
          BY <3>1, <4>1, GrantsAre
      <3> QED
        BY <3>2, <3>3
    <2>3. given \in AskedGrants(r)
      BY GrantsAre
    <2> HIDE DEF given
    <2> QED
      BY <1>4, <2>1, <2>2, <2>3
  <1>6. [n \in Member |-> s.owner[n].confirmed.values] = [n \in Member |-> r.owner[n].confirmed.values]
    OBVIOUS
  <1>7. Conceding(s) = Conceding(r)
    BY <1>5, <1>6, ConcedingIs
  <1>8. ASSUME NEW n \in Member, NEW q \in s.owner[n].offers
        PROVE  /\ q \in r.owner[n].offers /\ q.slot = o.slot
               /\ [owner |-> n, name |-> q.name, slot |-> q.slot] \notin ActiveGrants(s)
               /\ OfferStands(s, n, q)
    <2>1. q \in r.owner[n].offers /\ ~(n = m /\ q = o)
      OBVIOUS
    <2>2. OfferStands(r, n, q) /\ OfferStands(r, m, o) /\ q.slot = o.slot
      BY <1>1, <2>1
    <2>3. [owner |-> n, name |-> q.name, slot |-> q.slot] # given
      <3>1. ASSUME n = m, q.name = o.name PROVE FALSE
        BY <2>1, <2>2, <3>1 DEF OfferStands
      <3> QED
        BY <3>1
    <2> HIDE DEF given
    <2>4. [owner |-> n, name |-> q.name, slot |-> q.slot] \notin ActiveGrants(s)
      BY <1>4, <2>2, <2>3 DEF OfferStands
    <2>5. s.owner[n].offers \subseteq r.owner[n].offers
      OBVIOUS
    <2> QED
      BY <2>1, <2>2, <2>4, <2>5 DEF OfferStands
  <1>9. ASSUME NEW p \in Feasible(SolverInput(s)) PROVE FALSE
    <2> DEFINE i == SolverInput(s)
               j == SolverInput(r)
    <2>1. /\ i.schedule = r.schedule /\ j.schedule = r.schedule /\ i.values = j.values
          /\ i.grants = ActiveGrants(s) /\ j.grants = ActiveGrants(r)
          /\ DOMAIN i.values = Member
          /\ \A n \in Member : i.values[n] = s.owner[n].confirmed.values
      BY <1>6 DEF SolverInput
    <2> HIDE DEF i, j
    <2>2. p \in StructuralPlans(r.schedule) /\ EvaluateCandidate(i, p) = "FEASIBLE"
      BY <2>1 DEF Feasible, i
    <2>3. CASE p.slot = o.slot
      <3>1. PICK n, q :
              /\ n \in Member /\ q \in s.owner[n].offers
        BY DEF Offers
      <3>2. /\ q.slot = p.slot /\ OfferStands(s, n, q)
            /\ [owner |-> n, name |-> q.name, slot |-> q.slot] \notin i.grants
        <4>1. /\ q.slot = o.slot /\ OfferStands(s, n, q)
              /\ [owner |-> n, name |-> q.name, slot |-> q.slot] \notin ActiveGrants(s)
          BY <1>8, <3>1
        <4> QED
          BY <2>1, <2>3, <4>1
      <3>3. PICK c \in s.owner[n].confirmed.values.asks : c.name = q.name /\ Overlaps(c.at, p.slot)
        BY <3>2 DEF OfferStands
      <3>4. c \in Blocking(i.values[n], p.slot)
        BY <2>1, <3>1, <3>3 DEF Blocking
      <3>5. [owner |-> n, name |-> c.name, slot |-> p.slot] \in i.grants
        BY <2>1, <2>2, <3>1, <3>4, FeasibleIsGiven
      <3> QED
        BY <3>2, <3>3, <3>5
    <2>4. CASE p.slot # o.slot
      <3>1. ASSUME NEW n, NEW k
            PROVE  [owner |-> n, name |-> k, slot |-> p.slot] \in i.grants
                     <=> [owner |-> n, name |-> k, slot |-> p.slot] \in j.grants
        <4>1. [owner |-> n, name |-> k, slot |-> p.slot] # given
          BY <2>4
        <4> HIDE DEF given
        <4> QED
          BY <1>4, <2>1, <4>1
      <3>2. EvaluateCandidate(j, p) = "FEASIBLE"
        BY <2>1, <2>2, <3>1, OtherGrants
      <3> QED
        BY <1>1, <2>1, <2>2, <3>2 DEF Feasible, j
    <2> QED
      BY <2>3, <2>4
  <1>10. Feasible(SolverInput(s)) = {}
    BY <1>9
  <1>11. Feasible(Conceding(s)) # {}
    BY <1>1, <1>7
  <1>12. \A n \in Member : \A q \in s.owner[n].offers :
            /\ OfferStands(s, n, q)
            /\ \A l \in Member : \A x \in s.owner[l].offers : x.slot = q.slot
    BY <1>8
  <1> QED
    BY <1>1, <1>3, <1>10, <1>11, <1>12 DEF OffersFound

LEMMA AllowFound ==
    ASSUME Inv, FoundInv, NEW m \in Member, NEW o \in room.owner[m].offers, AllowException(m, o),
           UNCHANGED run
    PROVE  FoundInv'
  <1> DEFINE w == room.owner[m]
             b == AddDisclosurePreview(Answer(m, o, "ACTIVE"), m, o.left)
  <1>1. /\ Sound(room) /\ room \in RoomRecord /\ w \in OwnerRecord
    BY InvFacts
  <1>2. PICK g \in Exception, q \in Preview, seen \in SUBSET Preview :
              /\ g.name = o.name /\ g.slot = o.slot
              /\ g.context = o.context /\ g.status = "ACTIVE"
              /\ q.context = room.context /\ seen \in {room.owner[m].previews, {q}}
              /\ seen = room.owner[m].previews \/ ~Settled(room.owner[m], room.context)
              /\ b = [room EXCEPT !.owner[m] = AnsweredOwner(room.owner[m], o, g, seen)]
    BY AllowedIs
  <1> DEFINE p == AnsweredOwner(room.owner[m], o, g, seen)
  <1>3. /\ p \in OwnerRecord /\ p.accepted = w.accepted /\ p.confirmed = w.confirmed
        /\ p.offers = w.offers \ {o} /\ p.exceptions = w.exceptions \cup {g}
    BY <1>1 DEF OwnerRecord, AnsweredOwner
  <1>4. room' = IF Offers(b) = {} THEN Queue(b) ELSE b
    BY DEF AllowException
  <1> HIDE DEF p, b
  <1>5. b \in RoomRecord
    BY <1>1, <1>2, <1>3 DEF RoomRecord, p
  <1>6. /\ b.schedule = room.schedule /\ b.policy = room.policy /\ b.context = room.context
        /\ b.present = room.present /\ b.proposal = room.proposal /\ b.job = room.job
        /\ b.solveEpoch = room.solveEpoch
        /\ b.owner[m] = p /\ \A n \in Member \ {m} : b.owner[n] = room.owner[n]
    BY <1>1, <1>2 DEF RoomRecord, p
  <1>7. CASE Offers(b) = {}
    <2>1. Stops(room.solveEpoch, room')
      BY <1>4, <1>5, <1>6, <1>7, QueueStops
    <2> QED
      BY <2>1, FoundKept
  <1>8. CASE Offers(b) # {}
    <2>1. room' = b
      BY <1>4, <1>8
    <2>2. OffersFound(b)
      <3>1. \A n \in Member : /\ b.owner[n].accepted = room.owner[n].accepted
                              /\ b.owner[n].confirmed = room.owner[n].confirmed
        BY <1>3, <1>6
      <3>2. \A n \in Member \ {m} : /\ b.owner[n].exceptions = room.owner[n].exceptions
                                    /\ b.owner[n].offers = room.owner[n].offers
        BY <1>6
      <3>3. /\ b.owner[m].offers = room.owner[m].offers \ {o}
            /\ b.owner[m].exceptions = room.owner[m].exceptions \cup {g}
        BY <1>3, <1>6
      <3>4. OffersFound(room)
        BY DEF FoundInv
      <3>5. Gives(room, b, m, o, g)
        BY <1>2, <1>6, <3>1, <3>2, <3>3 DEF Gives
      <3> QED
        BY <1>1, <3>4, <3>5, GivenFound
    <2>3. room.proposal = None /\ (room.job # None => room.job.completed)
      <3>1. Offers(room) # {}
        BY DEF Offers
      <3> QED
        BY <3>1 DEF FoundInv, OffersFound
    <2>4. ProposalFound(b)
      BY <1>6, <2>3 DEF ProposalFound
    <2>5. \A x : RunFound(room, x) => RunFound(b, x)
      BY <1>6, <2>3 DEF RunFound
    <2> QED
      BY <2>1, <2>2, <2>4, <2>5 DEF FoundInv
  <1> QED
    BY <1>7, <1>8

(***************************************************************************)
(* What the solver's worker does to what was found.                        *)
(***************************************************************************)

\* What the answers of the solver say of the plans there are.
LEMMA SolverFinds ==
    ASSUME NEW input, NEW x \in SolveDecision(input)
    PROVE  /\ x.status = "SOLVED" => x.plan \in Best(input, Feasible(input))
           /\ x.status = "NO_AGREEMENT" => Feasible(input) = {}
  <1>1. \/ x = Answered("NEEDS_CLARIFICATION")
        \/ Feasible(input) = {} /\ x = Answered("NO_AGREEMENT")
        \/ \E p \in Best(input, Feasible(input)) :
              x = [status |-> "SOLVED", plan |-> p, required |-> RequiredGrants(input, p)]
    BY DEF SolveDecision, Feasible
  <1> QED
    BY <1>1 DEF Answered

LEMMA SolvableIsFeasible ==
    ASSUME NEW input, Solvable(input)
    PROVE  Feasible(input) # {}
  BY SolverFinds DEF Solvable, Best

\* s is r for the solver
SameForSolver(r, s) ==
    /\ s.schedule = r.schedule /\ s.policy = r.policy /\ s.context = r.context
    /\ s.present = r.present
    /\ \A m \in Member : /\ s.owner[m].accepted = r.owner[m].accepted
                         /\ s.owner[m].confirmed = r.owner[m].confirmed
                         /\ s.owner[m].exceptions = r.owner[m].exceptions

LEMMA SameInput ==
    ASSUME NEW r, NEW s, SameForSolver(r, s)
    PROVE  /\ SolverInput(s) = SolverInput(r) /\ ActiveGrants(s) = ActiveGrants(r)
           /\ Ready(r) => Ready(s)
  <1>1. ASSUME NEW x PROVE x \in ActiveGrants(s) <=> x \in ActiveGrants(r)
    BY GrantsAre DEF SameForSolver
  <1>2. ActiveGrants(s) = ActiveGrants(r)
    BY <1>1
  <1>3. [m \in Member |-> s.owner[m].confirmed.values] = [m \in Member |-> r.owner[m].confirmed.values]
    BY DEF SameForSolver
  <1>4. SolverInput(s) = SolverInput(r)
    BY <1>2, <1>3 DEF SolverInput, SameForSolver
  <1> QED
    BY <1>2, <1>4 DEF SameForSolver, Ready

\* s is r asking for grants
Asks(r, s, grants) ==
    /\ SameForSolver(r, s)
    /\ s.proposal = r.proposal /\ s.job = r.job /\ s.solveEpoch = r.solveEpoch
    /\ \A m \in Member : s.owner[m].offers = OffersOf(r, grants, m)

LEMMA ConcessionIs ==
    ASSUME NEW r \in RoomRecord, NEW grants
    PROVE  Asks(r, [WithOffers([r EXCEPT !.roundUsed = TRUE], grants)
                      EXCEPT !.status = "PRIVATE_REVIEW"], grants)
  <1> DEFINE f == [m \in Member |-> [r.owner[m] EXCEPT !.offers = OffersOf(r, grants, m)]]
             u == [r EXCEPT !.roundUsed = TRUE]
             s == [u EXCEPT !.owner = f, !.status = "PRIVATE_REVIEW"]
  <1>1. /\ u.owner = r.owner /\ u.context = r.context /\ u.schedule = r.schedule
        /\ u.policy = r.policy /\ u.present = r.present /\ u.proposal = r.proposal
        /\ u.job = r.job /\ u.solveEpoch = r.solveEpoch /\ u \in RoomRecord
    BY DEF RoomRecord
  <1>2. ASSUME NEW m \in Member
        PROVE  /\ f[m].accepted = r.owner[m].accepted /\ f[m].confirmed = r.owner[m].confirmed
               /\ f[m].exceptions = r.owner[m].exceptions
               /\ f[m].offers = OffersOf(r, grants, m)
    BY DEF RoomRecord, OwnerRecord
  <1> HIDE DEF u
  <1>3. [WithOffers(u, grants) EXCEPT !.status = "PRIVATE_REVIEW"] = s
    <2>1. WithOffers(u, grants) = [u EXCEPT !.owner = f]
      BY <1>1 DEF WithOffers, OffersOf
    <2> HIDE DEF f
    <2> QED
      BY <2>1
  <1> HIDE DEF f
  <1>4. /\ s.owner = f /\ s.context = u.context /\ s.schedule = u.schedule
        /\ s.policy = u.policy /\ s.present = u.present /\ s.proposal = u.proposal
        /\ s.job = u.job /\ s.solveEpoch = u.solveEpoch
    BY <1>1 DEF RoomRecord
  <1> HIDE DEF s
  <1> QED
    BY <1>1, <1>2, <1>3, <1>4 DEF u, Asks, SameForSolver

\* What is asked for is needed, and suffices if everybody says yes.
LEMMA ConcessionFound ==
    ASSUME NEW r, Sound(r), Ready(r), ~r.roundUsed, r.proposal = None,
           r.job # None => r.job.completed, Feasible(SolverInput(r)) = {},
           NEW grants \in Alternatives(r), NEW s, Asks(r, s, grants)
    PROVE  OffersFound(s)
  <1>1. PICK slot \in r.schedule.slots, owners \in SUBSET Member :
           grants = UNION {Waivable(r, slot, m) : m \in owners}
    BY DEF Alternatives
  <1>2. Helps(r, grants)
    BY DEF Alternatives
  <1>3. ActiveGrants(r) = {}
    BY UnaskedBefore, GrantsAre
  <1>4. SolverInput(s) = SolverInput(r) /\ ActiveGrants(s) = {} /\ Ready(s)
    BY <1>3, SameInput DEF Asks
  <1>5. ASSUME NEW g \in grants
        PROVE  /\ g.owner \in Member /\ g.slot = slot
               /\ g = [owner |-> g.owner, name |-> g.name, slot |-> g.slot]
               /\ \E c \in r.owner[g.owner].confirmed.values.asks :
                     c.name = g.name /\ Overlaps(c.at, slot)
    <2>1. PICK m \in Member : g \in Waivable(r, slot, m)
      BY <1>1
    <2>2. PICK c \in r.owner[m].confirmed.values.asks :
             Overlaps(c.at, slot) /\ g = [owner |-> m, name |-> c.name, slot |-> slot]
      BY <2>1 DEF Waivable
    <2> QED
      BY <2>2
  <1>6. ASSUME NEW m \in Member, NEW o \in s.owner[m].offers
        PROVE  \E g \in grants :
                  /\ g.owner = m
                  /\ o = [name |-> g.name, slot |-> g.slot, context |-> r.context,
                          left |-> PermissionTtl]
    BY DEF Asks, OffersOf
  <1>7. AskedGrants(s) = grants
    <2>1. ASSUME NEW x \in AskedGrants(s) PROVE x \in grants
      <3>1. PICK m, o :
              /\ m \in Member /\ o \in s.owner[m].offers
              /\ x = [owner |-> m, name |-> o.name, slot |-> o.slot]
        BY GrantsAre
      <3>2. PICK g \in grants :
              /\ g.owner = m
              /\ o = [name |-> g.name, slot |-> g.slot, context |-> r.context,
                      left |-> PermissionTtl]
        BY <1>6, <3>1
      <3>3. o.name = g.name /\ o.slot = g.slot
        BY <3>2
      <3> QED
        BY <1>5, <3>1, <3>2, <3>3
    <2>2. ASSUME NEW g \in grants PROVE g \in AskedGrants(s)
      <3> DEFINE o == [name |-> g.name, slot |-> g.slot, context |-> r.context,
                       left |-> PermissionTtl]
      <3>1. g.owner \in Member /\ o \in s.owner[g.owner].offers
        BY <1>5 DEF Asks, OffersOf
      <3>2. g = [owner |-> g.owner, name |-> o.name, slot |-> o.slot]
        BY <1>5
      <3> HIDE DEF o
      <3> QED
        BY <3>1, <3>2, GrantsAre
    <2> QED
      BY <2>1, <2>2
  <1>8. Feasible(Conceding(s)) # {}
    <2>1. Conceding(s) = [SolverInput(r) EXCEPT !.grants = @ \cup grants]
      BY <1>4, <1>7 DEF Conceding
    <2>2. Solvable(Conceding(s))
      BY <1>2, <2>1 DEF Helps
    <2> QED
      BY <2>2, SolvableIsFeasible
  <1>9. ASSUME NEW m \in Member, NEW o \in s.owner[m].offers
        PROVE  OfferStands(s, m, o) /\ o.slot = slot
    <2>1. PICK g \in grants :
            /\ g.owner = m
            /\ o = [name |-> g.name, slot |-> g.slot, context |-> r.context,
                    left |-> PermissionTtl]
      BY <1>6
    <2>2. o.name = g.name /\ o.slot = slot
      BY <1>5, <2>1
    <2>3. s.owner[m].confirmed = r.owner[m].confirmed
      BY DEF Asks, SameForSolver
    <2>4. \E c \in s.owner[m].confirmed.values.asks : c.name = o.name /\ Overlaps(c.at, o.slot)
      BY <1>5, <2>1, <2>2, <2>3
    <2>5. ASSUME NEW q \in s.owner[m].offers, q.name = o.name, q.slot = o.slot PROVE q = o
      <3>1. PICK h \in grants :
              /\ h.owner = m
              /\ q = [name |-> h.name, slot |-> h.slot, context |-> r.context,
                      left |-> PermissionTtl]
        BY <1>6
      <3>2. h.name = g.name /\ h.slot = g.slot
        BY <1>5, <2>1, <2>2, <2>5, <3>1
      <3> QED
        BY <2>1, <3>1, <3>2
    <2> QED
      BY <1>4, <2>2, <2>4, <2>5 DEF OfferStands
  <1>10. s.proposal = None /\ (s.job # None => s.job.completed)
    BY DEF Asks
  <1> QED
    BY <1>4, <1>8, <1>9, <1>10 DEF OffersFound

\* The room a worker answers: its job is done, and the run was for it.
AwaitedBy(r, x) ==
    /\ Answerable(r) /\ Ready(r) /\ Offers(r) = {}
    /\ x.result \in SolveDecision(SolverInput(r))

LEMMA AwaitedFound ==
    ASSUME NEW r, RoomInv(r), OffersFound(r), NEW x, RunFound(r, x), StillAwaited(r, x)
    PROVE  LET s == [r EXCEPT !.job.completed = TRUE] IN
           AwaitedBy(s, x) /\ s.solveEpoch = r.solveEpoch
  <1> DEFINE j == [r.job EXCEPT !.completed = TRUE]
             s == [r EXCEPT !.job.completed = TRUE]
  <1>1. r \in RoomRecord /\ r.job # None /\ ~r.job.completed /\ r.job.epoch = x.epoch /\ Ready(r)
    BY DEF RoomInv, Sound, StillAwaited
  <1>2. r.job \in [epoch : Nat, context : Nat, completed : BOOLEAN]
    BY <1>1 DEF RoomRecord
  <1>3. j \in [epoch : Nat, context : Nat, completed : BOOLEAN] /\ j.completed
    BY <1>2
  <1>4. Answerable(s)
    BY <1>1, DoneKeeps
  <1>5. s = [r EXCEPT !.job = j]
    BY <1>1 DEF RoomRecord
  <1> HIDE DEF j
  <1>6. /\ s.owner = r.owner /\ s.context = r.context /\ s.schedule = r.schedule
        /\ s.policy = r.policy /\ s.present = r.present /\ s.job = j
        /\ s.solveEpoch = r.solveEpoch
    BY <1>1, <1>5 DEF RoomRecord
  <1> HIDE DEF s
  <1>7. SolverInput(s) = SolverInput(r) /\ Ready(s)
    BY <1>1, <1>6, SameInput DEF SameForSolver
  <1>8. Offers(s) = {}
    BY <1>1, <1>6 DEF Offers, OffersFound
  <1>9. x.result \in SolveDecision(SolverInput(r))
    BY <1>1 DEF RunFound
  <1> QED
    BY <1>4, <1>6, <1>7, <1>8, <1>9 DEF s, AwaitedBy

\* The room keeps its job and its count of runs, and what was found is right.
Finds(r, s) ==
    OffersFound(s) /\ ProposalFound(s) /\ s.job = r.job /\ s.solveEpoch = r.solveEpoch

LEMMA ClearFinds ==
    ASSUME NEW r \in RoomRecord, Offers(r) = {}, NEW st \in Hidden
    PROVE  Finds(r, ClearProposal(r, st))
  <1> DEFINE s == ClearProposal(r, st)
  <1>1. Stands(r, s) /\ s.proposal = None /\ Offers(s) = {}
    BY ClearStands
  <1> HIDE DEF s
  <1> QED
    BY <1>1 DEF s, Finds, OffersFound, ProposalFound, Stands

\* The room as AfterNoAgreement leaves it.
LEMMA NoAgreementFound ==
    ASSUME NEW r, NEW x, AwaitedBy(r, x), x.result.status = "NO_AGREEMENT",
           NEW s \in AfterNoAgreement(r)
    PROVE  Finds(r, s)
  <1> DEFINE u == [r EXCEPT !.roundUsed = TRUE]
  <1>1. /\ Answerable(r) /\ Sound(r) /\ r \in RoomRecord /\ Ready(r) /\ Offers(r) = {}
        /\ r.proposal = None /\ (r.job # None => r.job.completed)
    BY DEF AwaitedBy, Answerable, RoomInv, Sound
  <1>2. CASE r.roundUsed \/ Alternatives(r) = {}
    <2>1. s = ClearProposal(u, "NO_AGREEMENT")
      BY <1>2 DEF AfterNoAgreement
    <2>2. "NO_AGREEMENT" \in Hidden
      BY DEF Hidden
    <2>3. /\ u \in RoomRecord /\ u.owner = r.owner /\ u.job = r.job
          /\ u.solveEpoch = r.solveEpoch
      BY <1>1 DEF RoomRecord
    <2> HIDE DEF u
    <2>4. Offers(u) = {}
      BY <1>1, <2>3 DEF Offers
    <2>5. Finds(u, s)
      BY <2>1, <2>2, <2>3, <2>4, ClearFinds
    <2> QED
      BY <2>3, <2>5 DEF Finds
  <1>3. CASE ~r.roundUsed /\ Alternatives(r) # {}
    <2>1. PICK grants \in Smallest(Alternatives(r)) :
             s = [WithOffers(u, grants) EXCEPT !.status = "PRIVATE_REVIEW"]
      BY <1>3 DEF AfterNoAgreement
    <2>2. grants \in Alternatives(r)
      BY DEF Smallest
    <2>3. Asks(r, s, grants)
      BY <1>1, <2>1, ConcessionIs
    <2>4. Feasible(SolverInput(r)) = {}
      BY SolverFinds DEF AwaitedBy
    <2> HIDE DEF u
    <2>5. OffersFound(s)
      BY <1>1, <1>3, <2>2, <2>3, <2>4, ConcessionFound
    <2> QED
      BY <1>1, <2>3, <2>5 DEF Finds, Asks, ProposalFound
  <1> QED
    BY <1>2, <1>3

\* The room as AfterSolved leaves it, whether or not the plan came in time.
LEMMA SolvedFound ==
    ASSUME NEW r, NEW x, AwaitedBy(r, x), x.result.status = "SOLVED",
           NEW s \in AfterSolved(r, x.result)
    PROVE  Finds(r, s)
  <1> DEFINE result == x.result
             p == Proposed(r, result)
             late == Later(p)
  <1>1. /\ Answerable(r) /\ Sound(r) /\ r \in RoomRecord /\ Ready(r) /\ Offers(r) = {}
    BY DEF AwaitedBy, Answerable, RoomInv, Sound
  <1>2. result \in SolveDecision(SolverInput(r)) /\ result.status = "SOLVED"
    BY DEF AwaitedBy
  <1>3. /\ result.plan \in StructuralPlans(r.schedule) /\ result.required \subseteq GrantRef
    BY <1>1, <1>2, SolverAnswers
  <1>4. RoomInv(p) /\ p \in RoomRecord
    BY <1>1, <1>3, ProposedKeeps DEF RoomInv, Sound
  <1>5. Finds(r, p)
    <2> DEFINE f == [m \in Member |-> [r.owner[m] EXCEPT !.approval = 0]]
               proposal == [version |-> r.proposalVersion + 1, context |-> r.context,
                            policy |-> r.policy, plan |-> result.plan,
                            left |-> Min({ProposalTtl} \cup GrantLefts(r, result.required))]
               q == [r EXCEPT !.owner = f, !.proposalVersion = r.proposalVersion + 1,
                              !.required = result.required, !.proposal = proposal,
                              !.status = "PROPOSED"]
    <2>1. q = p
      <3>1. p = [[r EXCEPT !.owner = f] EXCEPT
                    !.proposalVersion = @ + 1, !.required = result.required,
                    !.proposal = proposal, !.status = "PROPOSED"]
        BY DEF Proposed, EveryOwner
      <3> HIDE DEF f, proposal, result, p
      <3> QED
        BY <1>1, <3>1 DEF RoomRecord
    <2>2. ASSUME NEW m \in Member
          PROVE  /\ f[m].accepted = r.owner[m].accepted /\ f[m].confirmed = r.owner[m].confirmed
                 /\ f[m].exceptions = r.owner[m].exceptions /\ f[m].offers = r.owner[m].offers
      BY <1>1 DEF RoomRecord, OwnerRecord
    <2>3. proposal.plan = result.plan
      OBVIOUS
    <2> HIDE DEF f, proposal, result, p
    <2>4. /\ q.owner = f /\ q.schedule = r.schedule /\ q.policy = r.policy
          /\ q.context = r.context /\ q.present = r.present /\ q.proposal = proposal
          /\ q.job = r.job /\ q.solveEpoch = r.solveEpoch
      BY <1>1 DEF RoomRecord
    <2> HIDE DEF q
    <2>5. SolverInput(q) = SolverInput(r) /\ Ready(q)
      BY <1>1, <2>2, <2>4, SameInput DEF SameForSolver
    <2>6. Offers(q) = {}
      BY <1>1, <2>2, <2>4 DEF Offers
    <2>7. ProposalFound(q)
      BY <1>2, <2>3, <2>4, <2>5 DEF ProposalFound
    <2> QED
      BY <2>1, <2>4, <2>6, <2>7 DEF Finds, OffersFound
  <1>6. \/ s = p
        \/ s = ClearProposal(p, "SUPERSEDED")
        \/ s = ClearProposal(late, "SUPERSEDED")
    BY DEF AfterSolved
  <1> HIDE DEF p, result
  <1>7. RoomInv(late) /\ late \in RoomRecord /\ Stands(p, late)
    BY <1>4, LaterKeeps, LaterStands DEF RoomInv, Sound
  <1>8. Finds(r, late)
    BY <1>4, <1>5, <1>7, StandsKeeps DEF Finds, Stands
  <1> HIDE DEF late
  <1>9. ASSUME NEW q \in RoomRecord, Finds(r, q) PROVE Finds(r, ClearProposal(q, "SUPERSEDED"))
    <2> DEFINE c == ClearProposal(q, "SUPERSEDED")
    <2>1. "SUPERSEDED" \in Hidden
      BY DEF Hidden
    <2>2. Stands(q, c)
      BY <2>1, ClearStands
    <2> HIDE DEF c
    <2>3. Finds(r, c)
      BY <1>9, <2>2, StandsKeeps DEF Finds, Stands
    <2> QED
      BY <2>3 DEF c
  <1> QED
    BY <1>4, <1>5, <1>6, <1>7, <1>8, <1>9

\* One run begins or ends, and what was found for the others stands.
LEMMA OneRunFound ==
    ASSUME Inv, FoundInv, NEW w \in Worker, NEW x, run' = [run EXCEPT ![w] = x],
           OffersFound(room'), ProposalFound(room'), x # None => RunFound(room', x),
           \A y \in SolverRun : RunFound(room, y) => RunFound(room', y)
    PROVE  FoundInv'
  <1>1. run \in [Worker -> {None} \cup SolverRun]
    BY DEF Inv
  <1>2. ASSUME NEW v \in Worker, run'[v] # None PROVE RunFound(room', run'[v])
    <2>1. CASE v = w
      BY <1>1, <1>2, <2>1
    <2>2. CASE v # w
      <3>1. run'[v] = run[v] /\ run[v] \in SolverRun
        BY <1>1, <1>2, <2>2
      <3> QED
        BY <1>2, <3>1 DEF FoundInv
    <2> QED
      BY <2>1, <2>2
  <1> QED
    BY <1>2 DEF FoundInv

\* A sweep keeps what was found, for the room and for every run.
LEMMA SweepFound ==
    ASSUME NEW r, RoomInv(r), OffersFound(r), ProposalFound(r)
    PROVE  /\ OffersFound(Sweep(r)) /\ ProposalFound(Sweep(r))
           /\ \A y \in SolverRun : RunFound(r, y) => RunFound(Sweep(r), y)
  <1>1. r \in RoomRecord /\ r.solveEpoch \in Nat
    BY DEF RoomInv, Sound, RoomRecord
  <1>2. Stands(r, Sweep(r)) \/ Stops(r.solveEpoch, Sweep(r))
    BY SweepStandsOrStops
  <1> QED
    BY <1>1, <1>2, StandsKeeps, StopsKeeps

LEMMA StartFound ==
    ASSUME Inv, FoundInv, NEW w \in Worker, StartSolve(w)
    PROVE  FoundInv'
  <1> DEFINE r == Sweep(room)
  <1>1. RoomInv(room) /\ RoomInv(r) /\ OffersFound(room) /\ ProposalFound(room)
    BY SweepKeeps DEF Inv, FoundInv
  <1>2. PICK result \in SolveDecision(SolverInput(r)) :
           run' = [run EXCEPT ![w] = [epoch |-> r.job.epoch, context |-> r.context,
                                      result |-> result]]
    BY DEF StartSolve
  <1>3. room' = r /\ r.job # None
    BY DEF StartSolve
  <1>4. /\ OffersFound(r) /\ ProposalFound(r)
        /\ \A y \in SolverRun : RunFound(room, y) => RunFound(r, y)
    BY <1>1, SweepFound
  <1> HIDE DEF r
  <1>5. r.job.epoch = r.solveEpoch /\ r.solveEpoch \in Nat
    BY <1>1, <1>3 DEF RoomInv, Sound, RestInv, RoomRecord
  <1> DEFINE x == [epoch |-> r.job.epoch, context |-> r.context, result |-> result]
  <1>6. RunFound(r, x)
    BY <1>5 DEF RunFound
  <1> HIDE DEF x
  <1>7. run' = [run EXCEPT ![w] = x]
    BY <1>2 DEF x
  <1> QED
    BY <1>3, <1>4, <1>6, <1>7, OneRunFound

LEMMA StopWorkerFound ==
    ASSUME Inv, FoundInv, NEW w \in Worker, StopWorker(w)
    PROVE  FoundInv'
  <1>1. room' = room /\ run' = [run EXCEPT ![w] = None]
    BY DEF StopWorker
  <1>2. OffersFound(room) /\ ProposalFound(room)
    BY DEF FoundInv
  <1> QED
    BY <1>1, <1>2, OneRunFound

LEMMA FinishFound ==
    ASSUME Inv, FoundInv, NEW w \in Worker, FinishSolve(w)
    PROVE  FoundInv'
  <1> DEFINE r == Sweep(room)
             done == [r EXCEPT !.job.completed = TRUE]
             x == run[w]
  <1>1. RoomInv(room) /\ RoomInv(r) /\ OffersFound(room) /\ ProposalFound(room)
    BY SweepKeeps DEF Inv, FoundInv
  <1>2. /\ run' = [run EXCEPT ![w] = None] /\ x \in SolverRun /\ RunFound(room, x)
    BY DEF FinishSolve, Inv, FoundInv
  <1>3. \/ room' = room
        \/ room' = r
        \/ /\ StillAwaited(r, x)
           /\ \/ room' = ClearProposal(done, "COLLECTING")
              \/ /\ x.result.status = "NO_AGREEMENT"
                 /\ room' \in AfterNoAgreement(done)
              \/ /\ x.result.status = "SOLVED"
                 /\ room' \in AfterSolved(done, x.result)
    BY DEF FinishSolve
  <1>4. /\ OffersFound(r) /\ ProposalFound(r)
        /\ \A y \in SolverRun : RunFound(room, y) => RunFound(r, y)
    BY <1>1, SweepFound
  <1> HIDE DEF r
  <1>5. CASE room' = room \/ room' = r
    BY <1>1, <1>2, <1>4, <1>5, OneRunFound
  <1>6. ASSUME StillAwaited(r, x) PROVE AwaitedBy(done, x) /\ done.solveEpoch = r.solveEpoch
    BY <1>1, <1>2, <1>4, <1>6, AwaitedFound
  <1> HIDE DEF done, x
  <1>7. ASSUME StillAwaited(r, x), Finds(done, room') PROVE FoundInv'
    <2>1. /\ AwaitedBy(done, x) /\ done.solveEpoch = r.solveEpoch
          /\ (done.job # None => done.job.completed)
      BY <1>6, <1>7 DEF AwaitedBy, Answerable
    <2>2. OffersFound(room') /\ ProposalFound(room')
      BY <1>7 DEF Finds
    <2>3. ASSUME NEW y \in SolverRun, RunFound(room, y) PROVE RunFound(room', y)
      <3>1. RunFound(r, y)
        BY <1>4, <2>3
      <3> QED
        BY <1>7, <2>1, <3>1 DEF RunFound, Finds
    <2> QED
      BY <1>2, <2>2, <2>3, OneRunFound
  <1>8. ASSUME StillAwaited(r, x)
        PROVE  done \in RoomRecord /\ Offers(done) = {} /\ AwaitedBy(done, x)
    BY <1>6, <1>8 DEF AwaitedBy, Answerable, RoomInv, Sound
  <1>9. CASE StillAwaited(r, x) /\ room' = ClearProposal(done, "COLLECTING")
    <2>1. "COLLECTING" \in Hidden
      BY DEF Hidden
    <2>2. Finds(done, room')
      BY <1>8, <1>9, <2>1, ClearFinds
    <2> QED
      BY <1>7, <1>9, <2>2
  <1>10. CASE /\ StillAwaited(r, x) /\ x.result.status = "NO_AGREEMENT"
              /\ room' \in AfterNoAgreement(done)
    BY <1>7, <1>8, <1>10, NoAgreementFound
  <1>11. CASE /\ StillAwaited(r, x) /\ x.result.status = "SOLVED"
              /\ room' \in AfterSolved(done, x.result)
    BY <1>7, <1>8, <1>11, SolvedFound
  <1> QED
    BY <1>3, <1>5, <1>9, <1>10, <1>11

(***************************************************************************)
(* What was found is right, and stays right.                               *)
(***************************************************************************)

LEMMA InitFound ==
    ASSUME Init
    PROVE  FoundInv
  <1>1. room.proposal = None /\ \A m \in Member : room.owner[m].offers = {}
    BY DEF Init, CreatedRooms, FreshOwner
  <1>2. \A w \in Worker : run[w] = None
    BY DEF Init
  <1> QED
    BY <1>1, <1>2 DEF FoundInv, OffersFound, ProposalFound, Offers

LEMMA CommandsFound ==
    ASSUME Inv, FoundInv, Commands
    PROVE  FoundInv'
  <1>1. UNCHANGED run
    BY DEF Commands
  <1>2. \/ \E m \in Member : Inputs(m)
        \/ \E m \in Member : Permissions(m)
        \/ \E m \in Member : Approvals(m)
        \/ \E m \in Member : \E d \in room.owner[m].disclosures : PublishDisclosure(m, d)
        \/ \E schedule \in Schedules, policy \in Policies, present \in SUBSET Member :
             ReviseDecision(schedule, policy, present)
    BY DEF Commands
  <1>3. ASSUME Stands(room, room') \/ Stops(room.solveEpoch, room') PROVE FoundInv'
    BY <1>1, <1>3, FoundKept
  <1>4. ASSUME NEW m \in Member, Permissions(m) PROVE FoundInv'
    <2>1. CASE \E o \in room.owner[m].offers : AllowException(m, o)
      BY <1>1, <2>1, AllowFound
    <2>2. CASE \E o \in room.owner[m].offers : DeclineException(m, o)
      BY <1>3, <2>2, DeclineStops
    <2>3. CASE \E p \in room.owner[m].previews, status \in {"ACTIVE", "DECLINED"} :
                  DecideDisclosure(m, p, status)
      BY <1>3, <2>3, DisclosingStands
    <2>4. CASE \E g \in room.owner[m].exceptions : RevokeException(m, g)
      BY <1>3, <2>4, RevokeStops
    <2>5. CASE \E d \in room.owner[m].disclosures : RevokeDisclosure(m, d)
      BY <1>3, <2>5, DisclosingStands
    <2> QED
      BY <1>4, <2>1, <2>2, <2>3, <2>4, <2>5 DEF Permissions
  <1> QED
    BY <1>2, <1>3, <1>4, InputsStandOrStop, ApprovalsStand, DisclosingStands, ReviseStops

LEMMA NextFound ==
    ASSUME Inv, FoundInv, [Next]_vars
    PROVE  FoundInv'
  <1>1. CASE \E m \in Member : Invitation(m)
    <2>1. UNCHANGED run
      BY <1>1 DEF Invitation, IssueRoomInvitation, RedeemRoomInvitation
    <2> QED
      BY <1>1, <2>1, InvitationStands, FoundKept
  <1>2. CASE Commands
    BY <1>2, CommandsFound
  <1>3. CASE CloseRoom
    <2>1. UNCHANGED run
      BY <1>3 DEF CloseRoom
    <2> QED
      BY <1>3, <2>1, CloseStops, FoundKept
  <1>4. CASE \E w \in Worker : Solver(w)
    BY <1>4, StartFound, FinishFound, StopWorkerFound DEF Solver
  <1>5. CASE GetPublicSnapshot \/ Refuse \/ Tick
    <2>1. UNCHANGED run
      BY <1>5 DEF GetPublicSnapshot, Refuse, Tick
    <2> QED
      BY <1>5, <2>1, LookingStandsOrStops, FoundKept
  <1>6. CASE UNCHANGED vars
    BY <1>6 DEF vars, FoundInv
  <1> QED
    BY <1>1, <1>2, <1>3, <1>4, <1>5, <1>6 DEF Next

LEMMA FoundAlways ==
    Spec => [](Inv /\ FoundInv)
  <1>1. Init => Inv /\ FoundInv
    BY InitInv, InitFound
  <1>2. (Inv /\ FoundInv) /\ [Next]_vars => (Inv /\ FoundInv)'
    BY NextInv, NextFound
  <1> QED
    BY <1>1, <1>2, PTL DEF Spec

\* What was found is right for whoever looks at the room.
LEMMA SeenFound ==
    ASSUME Inv, FoundInv
    PROVE  /\ RoomInv(Seen(room)) /\ Seen(room) \in RoomRecord
           /\ OffersFound(Seen(room)) /\ ProposalFound(Seen(room))
  <1>1. /\ RoomInv(room) /\ room \in RoomRecord /\ room.solveEpoch \in Nat
        /\ OffersFound(room) /\ ProposalFound(room)
    BY DEF Inv, FoundInv, RoomInv, Sound, RoomRecord
  <1>2. Stands(room, Seen(room)) \/ Stops(room.solveEpoch, Seen(room))
    BY <1>1, SeenStandsOrStops
  <1>3. OffersFound(Seen(room)) /\ ProposalFound(Seen(room))
    BY <1>1, <1>2, StandsKeeps, StopsKeeps
  <1>4. RoomInv(Seen(room))
    BY <1>1, SeenKeeps
  <1> QED
    BY <1>3, <1>4 DEF RoomInv, Sound

\* What the solver finds feasible is what suits everybody.
LEMMA SuitableAre ==
    ASSUME NEW r, r.schedule \in Schedules,
           \A m \in Member : r.owner[m].confirmed.values \in Values
    PROVE  Suitable(r) = Feasible(SolverInput(r))
  <1>1. SolverInput(r).schedule = r.schedule
    BY DEF SolverInput
  <1> QED
    BY <1>1, FeasibleIsSuiting DEF Suitable, Feasible

LEMMA ReadyValues ==
    ASSUME NEW r \in RoomRecord, Ready(r)
    PROVE  r.schedule \in Schedules /\ \A m \in Member : r.owner[m].confirmed.values \in Values
  <1>1. \A m \in Member : r.owner[m] \in OwnerRecord /\ r.owner[m].confirmed # None
    BY DEF RoomRecord, Ready
  <1>2. \A m \in Member : r.owner[m].confirmed \in [values : Values, context : Nat]
    BY <1>1 DEF OwnerRecord
  <1> QED
    BY <1>2 DEF RoomRecord

\* A proposal people may approve suits, minute by minute, what everybody has
\* confirmed now with the exceptions in force now, and no plan that does is
\* ranked before it, although the solver computed it from an earlier reading
\* of the room and people, other workers and the clock went on in between.
THEOREM ProposalsFitRooms ==
    Spec => []ProposalFitsRoom
  <1>1. Inv /\ FoundInv => ProposalFitsRoom
    <2> SUFFICES ASSUME Inv, FoundInv PROVE ProposalFitsRoom
      OBVIOUS
    <2> DEFINE r == Seen(room)
    <2>1. r \in RoomRecord /\ ProposalFound(r)
      BY SeenFound
    <2>2. ProposalFitsRoom <=>
            (r.proposal # None =>
                /\ Ready(r)
                /\ r.proposal.plan \in Suitable(r)
                /\ \A p \in Suitable(r) : ~Better(SolverInput(r), p, r.proposal.plan))
      BY DEF ProposalFitsRoom
    <2> HIDE DEF r
    <2>3. ASSUME r.proposal # None
          PROVE  /\ Ready(r)
                 /\ r.proposal.plan \in Suitable(r)
                 /\ \A p \in Suitable(r) : ~Better(SolverInput(r), p, r.proposal.plan)
      <3>1. Ready(r)
        BY <2>1, <2>3 DEF ProposalFound
      <3>2. PICK x \in SolveDecision(SolverInput(r)) :
               x.status = "SOLVED" /\ x.plan = r.proposal.plan
        BY <2>1, <2>3 DEF ProposalFound
      <3>3. r.proposal.plan \in Best(SolverInput(r), Feasible(SolverInput(r)))
        BY <3>2, SolverFinds
      <3>4. Suitable(r) = Feasible(SolverInput(r))
        BY <2>1, <3>1, ReadyValues, SuitableAre
      <3> QED
        BY <3>1, <3>3, <3>4 DEF Best
    <2> QED
      BY <2>2, <2>3
  <1> QED
    BY <1>1, FoundAlways, PTL

\* A member is asked to give way only if no plan suits without it, and if all
\* who are asked say yes there is one: the members who have said yes already
\* count, and neither time nor anybody's step in between makes it untrue.
THEOREM ConcessionsAreNeededAndSuffice ==
    Spec => []OffersAreNeededAndSuffice
  <1>1. Inv /\ FoundInv => OffersAreNeededAndSuffice
    <2> SUFFICES ASSUME Inv, FoundInv PROVE OffersAreNeededAndSuffice
      OBVIOUS
    <2> DEFINE r == Seen(room)
               yes(w) == {[name |-> o.name, slot |-> o.slot, context |-> o.context,
                           left |-> o.left, status |-> "ACTIVE"] : o \in w.offers}
               f == [m \in Member |->
                       [r.owner[m] EXCEPT !.exceptions = @ \cup yes(r.owner[m])]]
               s == [r EXCEPT !.owner = f]
    <2>1. RoomInv(r) /\ r \in RoomRecord /\ OffersFound(r)
      BY SeenFound
    <2>2. OffersAreNeededAndSuffice <=>
            (Offers(r) # {} => Ready(r) /\ Suitable(r) = {} /\ Suitable(s) # {})
      BY DEF OffersAreNeededAndSuffice, EveryOwner
    <2> HIDE DEF r
    <2>3. ASSUME Offers(r) # {} PROVE Ready(r) /\ Suitable(r) = {} /\ Suitable(s) # {}
      <3>1. /\ Ready(r)
            /\ Feasible(SolverInput(r)) = {} /\ Feasible(Conceding(r)) # {}
        BY <2>1, <2>3 DEF OffersFound
      <3>2. /\ r.schedule \in Schedules
            /\ \A m \in Member : r.owner[m].confirmed.values \in Values
        BY <2>1, <3>1, ReadyValues
      <3>3. ASSUME NEW m \in Member
            PROVE  /\ f[m].confirmed = r.owner[m].confirmed
                   /\ f[m].exceptions = r.owner[m].exceptions \cup yes(r.owner[m])
        <4> HIDE DEF yes
        <4> QED
          BY <2>1 DEF RoomRecord, OwnerRecord
      <3> HIDE DEF f
      <3>4. /\ s.owner = f /\ s.schedule = r.schedule /\ s.policy = r.policy
            /\ s.context = r.context
        BY <2>1 DEF RoomRecord
      <3> HIDE DEF s
      <3>5. \A m \in Member : \A o \in r.owner[m].offers : o.context = r.context
        BY <2>1 DEF RoomInv, Sound, OwnersInv, OwnerInv
      <3>6. ASSUME NEW x
            PROVE  x \in ActiveGrants(s) <=> x \in ActiveGrants(r) \cup AskedGrants(r)
        <4>1. ASSUME x \in ActiveGrants(s) PROVE x \in ActiveGrants(r) \cup AskedGrants(r)
          <5>1. PICK m, g :
                  /\ m \in Member /\ g \in s.owner[m].exceptions
                  /\ g.status = "ACTIVE" /\ g.context = r.context
                  /\ x = [owner |-> m, name |-> g.name, slot |-> g.slot]
            BY <3>4, <4>1, GrantsAre
          <5>2. CASE g \in r.owner[m].exceptions
            BY <5>1, <5>2, GrantsAre
          <5>3. CASE g \in yes(r.owner[m])
            <6>1. PICK o \in r.owner[m].offers : g.name = o.name /\ g.slot = o.slot
              BY <5>3
            <6>2. x = [owner |-> m, name |-> o.name, slot |-> o.slot]
              BY <5>1, <6>1
            <6> QED
              BY <5>1, <6>1, <6>2, GrantsAre
          <5> HIDE DEF yes
          <5> QED
            BY <3>3, <3>4, <5>1, <5>2, <5>3
        <4>2. ASSUME x \in ActiveGrants(r) PROVE x \in ActiveGrants(s)
          <5>1. PICK m, g :
                  /\ m \in Member /\ g \in r.owner[m].exceptions
                  /\ g.status = "ACTIVE" /\ g.context = r.context
                  /\ x = [owner |-> m, name |-> g.name, slot |-> g.slot]
            BY <4>2, GrantsAre
          <5> HIDE DEF yes
          <5>2. g \in s.owner[m].exceptions
            BY <3>3, <3>4, <5>1
          <5> QED
            BY <3>4, <5>1, <5>2, GrantsAre
        <4>3. ASSUME x \in AskedGrants(r) PROVE x \in ActiveGrants(s)
          <5>1. PICK m, o :
                  /\ m \in Member /\ o \in r.owner[m].offers
                  /\ x = [owner |-> m, name |-> o.name, slot |-> o.slot]
            BY <4>3, GrantsAre
          <5> DEFINE g == [name |-> o.name, slot |-> o.slot, context |-> o.context,
                           left |-> o.left, status |-> "ACTIVE"]
          <5>2. g \in yes(r.owner[m])
            BY <5>1
          <5>3. /\ g.status = "ACTIVE" /\ g.context = s.context
                /\ x = [owner |-> m, name |-> g.name, slot |-> g.slot]
            BY <3>4, <3>5, <5>1
          <5> HIDE DEF g, yes
          <5>4. g \in s.owner[m].exceptions
            BY <3>3, <3>4, <5>1, <5>2
          <5> QED
            BY <5>1, <5>3, <5>4, GrantsAre
        <4> QED
          BY <4>1, <4>2, <4>3
      <3>7. SolverInput(s) = Conceding(r)
        <4>1. ActiveGrants(s) = ActiveGrants(r) \cup AskedGrants(r)
          BY <3>6
        <4>2. [m \in Member |-> s.owner[m].confirmed.values]
                = [m \in Member |-> r.owner[m].confirmed.values]
          BY <3>3, <3>4
        <4> QED
          BY <3>4, <4>1, <4>2, ConcedingIs DEF SolverInput
      <3>8. Suitable(r) = {}
        BY <3>1, <3>2, SuitableAre
      <3>9. Suitable(s) = Feasible(Conceding(r))
        BY <3>2, <3>3, <3>4, <3>7, SuitableAre
      <3> QED
        BY <3>1, <3>8, <3>9
    <2> QED
      BY <2>2, <2>3
  <1> QED
    BY <1>1, FoundAlways, PTL

=============================================================================
