----------------------- MODULE PermissionLedgerProofs -----------------------
(***************************************************************************)
(* The reserves of the permission ledger last: for any people and limits   *)
(* whoever is asked can answer, and whoever has agreed can take it back.   *)
(*                                                                         *)
(* The argument is an account.  Every answer adds one record to the        *)
(* history, so what is still in force never exceeds what was recorded.     *)
(* Withdrawing draws on the safety reserve only once ordinary receipts are *)
(* used up; from then on nothing new is approved, and the withdrawals made *)
(* and those still possible are together covered by the records and the    *)
(* approvals there can be (ReserveLasts).                                  *)
(***************************************************************************)
EXTENDS PermissionLedger, FiniteSetTheorems, TLAPS

OwnerRecord == [pending : Nat, settled : Nat, refused : Nat, active : Nat, ended : Nat,
                asked : Nat, granted : Nat, closed : Nat, approved : BOOLEAN]
HistoryRecord == [refused : Nat, negotiation : Nat, disclosure : Nat]
DecisionRecord == [
    roster : SUBSET Participant, frame : SUBSET Participant, ready : SUBSET Participant,
    status : Status, owner : [Participant -> OwnerRecord],
    retired : [Participant -> HistoryRecord],
    candidate : [held : BOOLEAN, rests : SUBSET Participant],
    superseded : Nat, agreements : Nat]

\* What no step of the application breaks: a record rests on a settled question,
\* and disclosures and approvals belong to a candidate that stands.
Sound(d) ==
    /\ d \in DecisionRecord
    /\ \A p \in Participant :
          LET o == d.owner[p]
          IN  /\ o.refused + Negotiation(o) <= o.settled
              /\ Disclosures(o) <= PermissionLimit
              /\ ~d.candidate.held => o.asked = 0 /\ o.granted = 0 /\ ~o.approved
              /\ p \in d.candidate.rests => d.candidate.held /\ o.active > 0

\* Questions are put while every answer is in, and hold the decision there.
QuestionsWait(d) ==
    /\ \A p \in Participant :
          d.owner[p].pending > 0 => d.status \in {"PRIVATE_NEGOTIATION", "CLOSED"}
    /\ d.status \in {"REASONING", "PRIVATE_NEGOTIATION"} =>
          d.frame = d.roster /\ d.ready = d.roster

\* What may still be taken back
Withdrawable(d) == CountAll([p \in Participant |-> d.owner[p].active + d.owner[p].granted])
Approvals(d) == Cardinality({p \in Participant : d.owner[p].approved})

\* What withdrawals have drawn on the safety reserve, and may still draw
ReserveLasts(d, g) ==
    /\ g.total <= g.ordinary + g.permission + g.safety
    /\ g.ordinary < OrdinaryLimit => g.safety = 0
    /\ g.safety + Withdrawable(d) + Approvals(d) <= g.permission + Cardinality(Participant)

GuardRecord == [ordinary : 0..OrdinaryLimit, permission : Nat, safety : Nat, total : Nat]

LedgerInv ==
    /\ Sound(decision)
    /\ QuestionsWait(decision)
    /\ guard \in GuardRecord
    /\ Fits(decision, guard.permission)
    /\ ReserveLasts(decision, guard)

-----------------------------------------------------------------------------
(* Counting records *)

Count == [Participant -> Nat]
Block(n, p) == {p} \X (1..n[p])
Records(n) == UNION {Block(n, p) : p \in Participant}
Others(n, p) == UNION {Block(n, q) : q \in Participant \ {p}}

LEMMA BlockSize ==
    ASSUME NEW n \in Count, NEW p \in Participant
    PROVE  IsFiniteSet(Block(n, p)) /\ Cardinality(Block(n, p)) = n[p]
<1>1. n[p] \in Nat
  BY DEF Count
<1>2. IsFiniteSet(1..n[p]) /\ Cardinality(1..n[p]) = n[p]
  BY <1>1, FS_Interval
<1>3. IsFiniteSet({p}) /\ Cardinality({p}) = 1
  BY FS_Singleton
<1>4. IsFiniteSet(Block(n, p)) /\ Cardinality(Block(n, p)) = Cardinality({p}) * Cardinality(1..n[p])
  BY <1>2, <1>3, FS_Product DEF Block
<1> QED
  BY <1>1, <1>2, <1>3, <1>4

LEMMA RecordsFinite ==
    ASSUME NEW n \in Count, NEW people \in SUBSET Participant
    PROVE  IsFiniteSet(UNION {Block(n, p) : p \in people})
<1> DEFINE blocks == {Block(n, p) : p \in people}
           f == [p \in people |-> Block(n, p)]
<1>1. IsFiniteSet(people)
  BY LimitAssumption, FS_Subset
<1>2. f \in Surjection(people, blocks)
  BY DEF Surjection
<1>3. IsFiniteSet(blocks)
  BY <1>1, <1>2, FS_Surjection
<1>4. \A b \in blocks : IsFiniteSet(b)
  BY BlockSize
<1> HIDE DEF blocks
<1>5. IsFiniteSet(UNION blocks)
  BY <1>3, <1>4, FS_UNION
<1> QED
  BY <1>5 DEF blocks

LEMMA TotalIsNat ==
    ASSUME NEW n \in Count
    PROVE  CountAll(n) \in Nat /\ IsFiniteSet(Records(n)) /\ CountAll(n) = Cardinality(Records(n))
<1>1. IsFiniteSet(Records(n))
  BY RecordsFinite DEF Records
<1>2. CountAll(n) = Cardinality(Records(n))
  BY DEF CountAll, Records, Block
<1> QED
  BY <1>1, <1>2, FS_CardinalityType

\* fewer records of everybody are fewer records
LEMMA TotalIsMonotone ==
    ASSUME NEW m \in Count, NEW n \in Count, \A p \in Participant : m[p] <= n[p]
    PROVE  CountAll(m) <= CountAll(n)
<1>1. ASSUME NEW p \in Participant PROVE Block(m, p) \subseteq Block(n, p)
  BY DEF Block, Count
<1>2. Records(m) \subseteq Records(n)
  BY <1>1 DEF Records
<1> QED
  BY <1>2, TotalIsNat, FS_Subset

\* one owner's records next to everybody else's
LEMMA TotalSplits ==
    ASSUME NEW n \in Count, NEW p \in Participant
    PROVE  /\ CountAll(n) = Cardinality(Others(n, p)) + n[p]
           /\ Cardinality(Others(n, p)) \in Nat
<1>1. IsFiniteSet(Others(n, p)) /\ IsFiniteSet(Block(n, p)) /\ Cardinality(Block(n, p)) = n[p]
  BY RecordsFinite, BlockSize DEF Others
<1>2. Others(n, p) \cap Block(n, p) = {}
  BY DEF Others, Block
<1>3. Records(n) = Others(n, p) \cup Block(n, p)
  BY DEF Others, Records
<1>4. Cardinality(Records(n)) = Cardinality(Others(n, p)) + Cardinality(Block(n, p))
                                  - Cardinality(Others(n, p) \cap Block(n, p))
  BY <1>1, <1>3, FS_Union
<1>5. Cardinality(Others(n, p) \cap Block(n, p)) = 0
  BY <1>2, FS_EmptySet
<1>6. Cardinality(Others(n, p)) \in Nat /\ n[p] \in Nat
  BY <1>1, FS_CardinalityType DEF Count
<1> QED
  BY <1>1, <1>4, <1>5, <1>6, TotalIsNat

\* a step that concerns one owner changes the total by that owner's difference
LEMMA TotalOfOneChange ==
    ASSUME NEW m \in Count, NEW n \in Count, NEW p \in Participant,
           \A q \in Participant \ {p} : m[q] = n[q]
    PROVE  CountAll(m) - m[p] = CountAll(n) - n[p]
<1>1. \A q \in Participant \ {p} : Block(m, q) = Block(n, q)
  BY DEF Block
<1>2. Others(m, p) = Others(n, p)
  BY <1>1 DEF Others
<1>3. m[p] \in Nat /\ n[p] \in Nat /\ CountAll(m) \in Nat /\ CountAll(n) \in Nat
  BY TotalIsNat DEF Count
<1> QED
  BY <1>2, <1>3, TotalSplits

\* one owner has fewer, and nobody has more: there are fewer
LEMMA TotalIsStrict ==
    ASSUME NEW m \in Count, NEW n \in Count, NEW p \in Participant,
           \A q \in Participant : m[q] <= n[q], m[p] < n[p]
    PROVE  CountAll(m) < CountAll(n)
<1> DEFINE k == [q \in Participant |-> IF q = p THEN m[p] ELSE n[q]]
<1>1. k \in Count /\ k[p] = m[p] /\ \A q \in Participant \ {p} : k[q] = n[q]
  BY DEF Count
<1>2. \A q \in Participant : m[q] <= k[q]
  BY DEF Count
<1> HIDE DEF k
<1>3. CountAll(k) - k[p] = CountAll(n) - n[p]
  BY <1>1, TotalOfOneChange
<1>4. CountAll(m) <= CountAll(k)
  BY <1>1, <1>2, TotalIsMonotone
<1>5. CountAll(k) \in Nat /\ CountAll(m) \in Nat /\ CountAll(n) \in Nat
  BY <1>1, TotalIsNat
<1>6. m[p] \in Nat /\ n[p] \in Nat
  BY DEF Count
<1> QED
  BY <1>1, <1>3, <1>4, <1>5, <1>6

RecordsOf(d, p) == CurrentRecords(d.owner[p]) + RetiredRecords(d.retired[p])
AskedOf(d, p) == d.owner[p].pending + d.owner[p].asked
InForce(d, p) == d.owner[p].active + d.owner[p].granted

LEMMA CountsAreNat ==
    ASSUME NEW d \in DecisionRecord
    PROVE  /\ HistoryCount(d) \in Nat /\ PendingCount(d) \in Nat /\ Withdrawable(d) \in Nat
           /\ Approvals(d) \in Nat /\ Approvals(d) <= Cardinality(Participant)
           /\ Cardinality(Participant) \in Nat
           /\ [p \in Participant |-> RecordsOf(d, p)] \in Count
           /\ [p \in Participant |-> AskedOf(d, p)] \in Count
           /\ [p \in Participant |-> InForce(d, p)] \in Count
<1>1. ASSUME NEW p \in Participant
      PROVE  RecordsOf(d, p) \in Nat /\ AskedOf(d, p) \in Nat /\ InForce(d, p) \in Nat
  <2>1. d.owner[p] \in OwnerRecord /\ d.retired[p] \in HistoryRecord
    BY DEF DecisionRecord
  <2> QED
    BY <2>1 DEF RecordsOf, AskedOf, InForce, CurrentRecords, RetiredRecords, Negotiation,
                OwnerRecord, HistoryRecord
<1>2. /\ [p \in Participant |-> RecordsOf(d, p)] \in Count
      /\ [p \in Participant |-> AskedOf(d, p)] \in Count
      /\ [p \in Participant |-> InForce(d, p)] \in Count
  BY <1>1 DEF Count
<1>3. HistoryCount(d) \in Nat /\ PendingCount(d) \in Nat /\ Withdrawable(d) \in Nat
  BY <1>2, TotalIsNat DEF HistoryCount, PendingCount, Withdrawable, RecordsOf, AskedOf, InForce
<1>4. /\ Approvals(d) \in Nat /\ Approvals(d) <= Cardinality(Participant)
      /\ Cardinality(Participant) \in Nat
  BY LimitAssumption, FS_Subset, FS_CardinalityType DEF Approvals
<1> QED
  BY <1>2, <1>3, <1>4

\* Records that are only moved or relabelled are as many as before, and what is
\* asked, or in force, only less: the same of everybody's counts.
LEMMA CountsFollowOwners ==
    ASSUME NEW d \in DecisionRecord, NEW e \in DecisionRecord
    PROVE  /\ (\A p \in Participant : RecordsOf(e, p) = RecordsOf(d, p))
                 => HistoryCount(e) = HistoryCount(d)
           /\ (\A p \in Participant : AskedOf(e, p) <= AskedOf(d, p))
                 => PendingCount(e) <= PendingCount(d)
           /\ (\A p \in Participant : InForce(e, p) <= InForce(d, p))
                 => Withdrawable(e) <= Withdrawable(d)
           /\ (\A p \in Participant : e.owner[p].approved => d.owner[p].approved)
                 => Approvals(e) <= Approvals(d)
<1>1. ASSUME \A p \in Participant : RecordsOf(e, p) = RecordsOf(d, p)
      PROVE  HistoryCount(e) = HistoryCount(d)
  BY <1>1 DEF HistoryCount, RecordsOf
<1>2. ASSUME \A p \in Participant : AskedOf(e, p) <= AskedOf(d, p)
      PROVE  PendingCount(e) <= PendingCount(d)
  BY <1>2, CountsAreNat, TotalIsMonotone DEF PendingCount, AskedOf
<1>3. ASSUME \A p \in Participant : InForce(e, p) <= InForce(d, p)
      PROVE  Withdrawable(e) <= Withdrawable(d)
  BY <1>3, CountsAreNat, TotalIsMonotone DEF Withdrawable, InForce
<1>4. ASSUME \A p \in Participant : e.owner[p].approved => d.owner[p].approved
      PROVE  Approvals(e) <= Approvals(d)
  BY <1>4, LimitAssumption, FS_Subset DEF Approvals
<1> QED
  BY <1>1, <1>2, <1>3, <1>4

\* Whatever is in force was recorded.
LEMMA InForceIsRecorded ==
    ASSUME NEW d \in DecisionRecord
    PROVE  Withdrawable(d) <= HistoryCount(d)
<1>1. ASSUME NEW p \in Participant PROVE InForce(d, p) <= RecordsOf(d, p)
  <2>1. d.owner[p] \in OwnerRecord /\ d.retired[p] \in HistoryRecord
    BY DEF DecisionRecord
  <2> QED
    BY <2>1 DEF RecordsOf, InForce, CurrentRecords, RetiredRecords, Negotiation,
                OwnerRecord, HistoryRecord
<1> QED
  BY <1>1, CountsAreNat, TotalIsMonotone DEF Withdrawable, HistoryCount, RecordsOf, InForce

\* A step on the records of one owner changes the counts by that owner's part.
LEMMA CountsOfOneOwner ==
    ASSUME NEW d \in DecisionRecord, NEW e \in DecisionRecord, NEW p \in Participant,
           \A q \in Participant \ {p} : e.owner[q] = d.owner[q],
           e.retired = d.retired
    PROVE  /\ HistoryCount(e) - RecordsOf(e, p) = HistoryCount(d) - RecordsOf(d, p)
           /\ PendingCount(e) - AskedOf(e, p) = PendingCount(d) - AskedOf(d, p)
           /\ Withdrawable(e) - InForce(e, p) = Withdrawable(d) - InForce(d, p)
<1>1. ASSUME NEW q \in Participant \ {p}
      PROVE  /\ RecordsOf(e, q) = RecordsOf(d, q) /\ AskedOf(e, q) = AskedOf(d, q)
             /\ InForce(e, q) = InForce(d, q)
  BY DEF RecordsOf, AskedOf, InForce
<1>2. HistoryCount(e) - RecordsOf(e, p) = HistoryCount(d) - RecordsOf(d, p)
  <2> DEFINE m == [q \in Participant |-> RecordsOf(e, q)]
             n == [q \in Participant |-> RecordsOf(d, q)]
  <2>1. m \in Count /\ n \in Count /\ \A q \in Participant \ {p} : m[q] = n[q]
    BY <1>1, CountsAreNat
  <2>2. CountAll(m) - m[p] = CountAll(n) - n[p]
    BY <2>1, TotalOfOneChange
  <2> QED
    BY <2>2 DEF HistoryCount, RecordsOf
<1>3. PendingCount(e) - AskedOf(e, p) = PendingCount(d) - AskedOf(d, p)
  <2> DEFINE m == [q \in Participant |-> AskedOf(e, q)]
             n == [q \in Participant |-> AskedOf(d, q)]
  <2>1. m \in Count /\ n \in Count /\ \A q \in Participant \ {p} : m[q] = n[q]
    BY <1>1, CountsAreNat
  <2>2. CountAll(m) - m[p] = CountAll(n) - n[p]
    BY <2>1, TotalOfOneChange
  <2> QED
    BY <2>2 DEF PendingCount, AskedOf
<1>4. Withdrawable(e) - InForce(e, p) = Withdrawable(d) - InForce(d, p)
  <2> DEFINE m == [q \in Participant |-> InForce(e, q)]
             n == [q \in Participant |-> InForce(d, q)]
  <2>1. m \in Count /\ n \in Count /\ \A q \in Participant \ {p} : m[q] = n[q]
    BY <1>1, CountsAreNat
  <2>2. CountAll(m) - m[p] = CountAll(n) - n[p]
    BY <2>1, TotalOfOneChange
  <2> QED
    BY <2>2 DEF Withdrawable, InForce
<1> QED
  BY <1>2, <1>3, <1>4

-----------------------------------------------------------------------------
(* What the steps of the application make of a decision *)

\* What a step that only settles, ends and closes does to an owner's records
OwnerKeeps(o, n) ==
    /\ n \in OwnerRecord
    /\ n.pending + n.settled <= o.pending + o.settled /\ o.settled <= n.settled
    /\ n.refused = o.refused /\ Negotiation(n) = Negotiation(o)
    /\ Disclosures(n) <= Disclosures(o) /\ n.granted + n.closed = o.granted + o.closed
    /\ n.pending <= o.pending /\ n.asked <= o.asked
    /\ n.active <= o.active /\ n.granted <= o.granted
    /\ n.approved => o.approved

\* The records of an owner after each step, as the application writes them
LEMMA QuestionExpires ==
    ASSUME NEW o \in OwnerRecord, o.pending > 0
    PROVE  LET n == [o EXCEPT !.pending = @ - 1, !.settled = @ + 1]
           IN  /\ OwnerKeeps(o, n) /\ n.active = o.active /\ n.asked = o.asked
               /\ n.granted = o.granted /\ n.approved = o.approved
<1> DEFINE x == o.pending - 1
           y == o.settled + 1
           n == [o EXCEPT !.pending = x, !.settled = y]
<1>1. x \in Nat /\ y \in Nat /\ x + y = o.pending + o.settled /\ o.settled <= y /\ x <= o.pending
  BY DEF OwnerRecord
<1> HIDE DEF x, y
<1>2. /\ n \in OwnerRecord
      /\ n.pending = x /\ n.settled = y /\ n.refused = o.refused /\ n.active = o.active
      /\ n.ended = o.ended /\ n.asked = o.asked /\ n.granted = o.granted /\ n.closed = o.closed
      /\ n.approved = o.approved
  BY <1>1 DEF OwnerRecord
<1> HIDE DEF n
<1>3. OwnerKeeps(o, n)
  BY <1>1, <1>2 DEF OwnerRecord, OwnerKeeps, Negotiation, Disclosures
<1> QED
  BY <1>2, <1>3 DEF n, x, y

LEMMA RequestExpires ==
    ASSUME NEW o \in OwnerRecord, o.asked > 0
    PROVE  LET n == [o EXCEPT !.asked = @ - 1]
           IN  /\ OwnerKeeps(o, n) /\ n.active = o.active /\ n.asked = o.asked - 1
               /\ n.granted = o.granted /\ n.approved = o.approved
<1> DEFINE x == o.asked - 1
           n == [o EXCEPT !.asked = x]
<1>1. x \in Nat /\ x <= o.asked
  BY DEF OwnerRecord
<1> HIDE DEF x
<1>2. /\ n \in OwnerRecord
      /\ n.pending = o.pending /\ n.settled = o.settled /\ n.refused = o.refused
      /\ n.active = o.active /\ n.ended = o.ended /\ n.asked = x /\ n.granted = o.granted
      /\ n.closed = o.closed /\ n.approved = o.approved
  BY <1>1 DEF OwnerRecord
<1> HIDE DEF n
<1>3. OwnerKeeps(o, n)
  BY <1>1, <1>2 DEF OwnerRecord, OwnerKeeps, Negotiation, Disclosures
<1> QED
  BY <1>2, <1>3 DEF n, x

LEMMA PermissionEnds ==
    ASSUME NEW o \in OwnerRecord, o.active > 0
    PROVE  LET n == [o EXCEPT !.active = @ - 1, !.ended = @ + 1]
           IN  /\ OwnerKeeps(o, n) /\ n.active = o.active - 1 /\ n.asked = o.asked
               /\ n.granted = o.granted /\ n.approved = o.approved
<1> DEFINE x == o.active - 1
           y == o.ended + 1
           n == [o EXCEPT !.active = x, !.ended = y]
<1>1. x \in Nat /\ y \in Nat /\ x + y = o.active + o.ended /\ x <= o.active
  BY DEF OwnerRecord
<1> HIDE DEF x, y
<1>2. /\ n \in OwnerRecord
      /\ n.pending = o.pending /\ n.settled = o.settled /\ n.refused = o.refused
      /\ n.active = x /\ n.ended = y /\ n.asked = o.asked /\ n.granted = o.granted
      /\ n.closed = o.closed /\ n.approved = o.approved
  BY <1>1 DEF OwnerRecord
<1> HIDE DEF n
<1>3. OwnerKeeps(o, n)
  BY <1>1, <1>2 DEF OwnerRecord, OwnerKeeps, Negotiation, Disclosures
<1> QED
  BY <1>2, <1>3 DEF n, x, y

LEMMA DisclosureEnds ==
    ASSUME NEW o \in OwnerRecord, o.granted > 0
    PROVE  LET n == [o EXCEPT !.granted = @ - 1, !.closed = @ + 1]
           IN  /\ OwnerKeeps(o, n) /\ n.active = o.active /\ n.asked = o.asked
               /\ n.granted = o.granted - 1 /\ n.approved = o.approved
<1> DEFINE x == o.granted - 1
           y == o.closed + 1
           n == [o EXCEPT !.granted = x, !.closed = y]
<1>1. x \in Nat /\ y \in Nat /\ x + y = o.granted + o.closed /\ x <= o.granted
  BY DEF OwnerRecord
<1> HIDE DEF x, y
<1>2. /\ n \in OwnerRecord
      /\ n.pending = o.pending /\ n.settled = o.settled /\ n.refused = o.refused
      /\ n.active = o.active /\ n.ended = o.ended /\ n.asked = o.asked /\ n.granted = x
      /\ n.closed = y /\ n.approved = o.approved
  BY <1>1 DEF OwnerRecord
<1> HIDE DEF n
<1>3. OwnerKeeps(o, n)
  BY <1>1, <1>2 DEF OwnerRecord, OwnerKeeps, Negotiation, Disclosures
<1> QED
  BY <1>2, <1>3 DEF n, x, y

\* the end of a proposal, with the disclosures that were its own
LEMMA ProposalEnds ==
    ASSUME NEW o \in OwnerRecord
    PROVE  LET n == [DropDisclosures(o) EXCEPT !.approved = FALSE]
           IN  /\ OwnerKeeps(o, n) /\ n.active = o.active /\ n.asked = 0 /\ n.granted = 0
               /\ n.approved = FALSE
<1> DEFINE x == 0
           z == o.closed + o.granted
           m == [o EXCEPT !.asked = x, !.granted = x, !.closed = z]
           n == [m EXCEPT !.approved = FALSE]
<1>1. x \in Nat /\ z \in Nat /\ x + z = o.granted + o.closed /\ x <= o.granted /\ x <= o.asked
      /\ x = 0
  BY DEF OwnerRecord
<1> HIDE DEF x, z
<1>2. /\ m \in OwnerRecord
      /\ m.pending = o.pending /\ m.settled = o.settled /\ m.refused = o.refused
      /\ m.active = o.active /\ m.ended = o.ended /\ m.asked = x /\ m.granted = x
      /\ m.closed = z /\ m.approved = o.approved
  BY <1>1 DEF OwnerRecord
<1> HIDE DEF m
<1>3. /\ n \in OwnerRecord
      /\ n.pending = o.pending /\ n.settled = o.settled /\ n.refused = o.refused
      /\ n.active = o.active /\ n.ended = o.ended /\ n.asked = x /\ n.granted = x
      /\ n.closed = z /\ n.approved = FALSE
  BY <1>2 DEF OwnerRecord
<1> HIDE DEF n
<1>4. OwnerKeeps(o, n)
  BY <1>1, <1>3 DEF OwnerRecord, OwnerKeeps, Negotiation, Disclosures
<1> QED
  BY <1>1, <1>3, <1>4 DEF n, m, x, z, DropDisclosures

LEMMA ApprovalEnds ==
    ASSUME NEW o \in OwnerRecord
    PROVE  LET n == [o EXCEPT !.approved = FALSE]
           IN  /\ OwnerKeeps(o, n) /\ n.active = o.active /\ n.asked = o.asked
               /\ n.granted = o.granted /\ n.approved = FALSE
<1> DEFINE n == [o EXCEPT !.approved = FALSE]
<1>1. /\ n \in OwnerRecord
      /\ n.pending = o.pending /\ n.settled = o.settled /\ n.refused = o.refused
      /\ n.active = o.active /\ n.ended = o.ended /\ n.asked = o.asked /\ n.granted = o.granted
      /\ n.closed = o.closed /\ n.approved = FALSE
  BY DEF OwnerRecord
<1> HIDE DEF n
<1>2. OwnerKeeps(o, n)
  BY <1>1 DEF OwnerRecord, OwnerKeeps, Negotiation, Disclosures
<1> QED
  BY <1>1, <1>2 DEF n

\* includeDecisionGroupMembers: nothing stays in force
LEMMA EverythingEnds ==
    ASSUME NEW o \in OwnerRecord, o.asked = 0
    PROVE  LET n == [o EXCEPT !.pending = 0, !.settled = @ + o.pending,
                              !.active = 0, !.ended = @ + o.active,
                              !.asked = 0, !.granted = 0, !.closed = @ + o.asked + o.granted]
           IN  /\ OwnerKeeps(o, n) /\ n.pending = 0 /\ n.asked = 0 /\ n.granted = 0 /\ n.approved = o.approved
<1> DEFINE x == 0
           s == o.settled + o.pending
           y == o.ended + o.active
           z == o.closed + o.asked + o.granted
           n == [o EXCEPT !.pending = x, !.settled = s, !.active = x, !.ended = y,
                          !.asked = x, !.granted = x, !.closed = z]
<1>1. x \in Nat /\ s \in Nat /\ y \in Nat /\ z \in Nat /\ x = 0
  BY DEF OwnerRecord
<1>2. s = o.settled + o.pending /\ y = o.ended + o.active /\ z = o.closed + o.asked + o.granted
  OBVIOUS
<1> HIDE DEF x, s, y, z
<1>3. /\ n \in OwnerRecord
      /\ n.pending = x /\ n.settled = s /\ n.refused = o.refused
      /\ n.active = x /\ n.ended = y /\ n.asked = x /\ n.granted = x
      /\ n.closed = z /\ n.approved = o.approved
  BY <1>1 DEF OwnerRecord
<1> HIDE DEF n
<1>4. o.asked = 0 => OwnerKeeps(o, n)
  BY <1>1, <1>2, <1>3 DEF OwnerRecord, OwnerKeeps, Negotiation, Disclosures
<1> QED
  BY <1>1, <1>3, <1>4 DEF n, x, s, y, z

\* What keeps an owner's records does so one step after the other.
LEMMA OwnerKeepsTwice ==
    ASSUME NEW o \in OwnerRecord, NEW m, NEW n, OwnerKeeps(o, m), OwnerKeeps(m, n)
    PROVE  OwnerKeeps(o, n)
BY DEF OwnerRecord, OwnerKeeps, Negotiation, Disclosures

LEMMA OwnerKeepsSame ==
    ASSUME NEW o \in OwnerRecord
    PROVE  OwnerKeeps(o, o)
BY DEF OwnerRecord, OwnerKeeps, Negotiation, Disclosures

-----------------------------------------------------------------------------
(* What the steps of the application make of a decision *)

\* The limits of Fits on the owners' records
OwnersFit(d) ==
    /\ \A p \in Participant :
          LET o == d.owner[p]
          IN  /\ o.pending + o.settled <= QuestionLimit
              /\ o.refused <= RetiredLimit /\ Negotiation(o) <= RetiredLimit
              /\ Disclosures(o) <= RetiredLimit
    /\ RetiredFits(d)

LEMMA FitsMeansLimits ==
    ASSUME NEW d \in DecisionRecord, NEW n
    PROVE  Fits(d, n) <=> /\ OwnersFit(d)
                          /\ d.superseded <= ArchiveLimit /\ d.agreements <= ArchiveLimit
                          /\ (d.status \in Live <=> d.candidate.held)
                          /\ n = HistoryCount(d)
                          /\ HistoryCount(d) + PendingCount(d) <= HistoryLimit
<1>1. ASSUME NEW p \in Participant
      PROVE  /\ d.owner[p] \in OwnerRecord
             /\ Negotiation(d.owner[p]) \in Nat /\ Disclosures(d.owner[p]) \in Nat
             /\ d.owner[p].refused \in Nat
  <2>1. d.owner[p] \in OwnerRecord
    BY DEF DecisionRecord
  <2> QED
    BY <2>1 DEF OwnerRecord, Negotiation, Disclosures
<1>2. ASSUME NEW p \in Participant
      PROVE  {d.owner[p].refused, Negotiation(d.owner[p]), Disclosures(d.owner[p])} \subseteq 0..RetiredLimit
                <=> /\ d.owner[p].refused <= RetiredLimit /\ Negotiation(d.owner[p]) <= RetiredLimit
                    /\ Disclosures(d.owner[p]) <= RetiredLimit
  BY <1>1, LimitAssumption
<1>3. (\A o \in Owners(d) :
          /\ o.pending + o.settled <= QuestionLimit
          /\ {o.refused, Negotiation(o), Disclosures(o)} \subseteq 0..RetiredLimit)
        <=> (\A p \in Participant :
          LET o == d.owner[p]
          IN  /\ o.pending + o.settled <= QuestionLimit
              /\ o.refused <= RetiredLimit /\ Negotiation(o) <= RetiredLimit
              /\ Disclosures(o) <= RetiredLimit)
  BY <1>2 DEF Owners
<1> QED
  BY <1>3 DEF Fits, OwnersFit, HistoryUsage

\* The owners' records are kept, and so is what they were filed under.
Keeps(d, e) ==
    /\ Sound(e)
    /\ e.retired = d.retired
    /\ \A p \in Participant : OwnerKeeps(d.owner[p], e.owner[p])

LEMMA KeepsMeansSound ==
    ASSUME NEW d, Sound(d), NEW e \in DecisionRecord, e.retired = d.retired,
           \A p \in Participant :
              /\ OwnerKeeps(d.owner[p], e.owner[p])
              /\ ~e.candidate.held =>
                    /\ e.owner[p].asked = 0
                    /\ e.owner[p].granted = 0
                    /\ ~e.owner[p].approved
              /\ p \in e.candidate.rests => e.candidate.held /\ e.owner[p].active > 0
    PROVE  Keeps(d, e)
<1>1. ASSUME NEW p \in Participant
      PROVE  /\ e.owner[p].refused + Negotiation(e.owner[p]) <= e.owner[p].settled
             /\ Disclosures(e.owner[p]) <= PermissionLimit
  <2>1. d.owner[p] \in OwnerRecord /\ e.owner[p] \in OwnerRecord
    BY DEF Sound, DecisionRecord
  <2>2. d.owner[p].refused + Negotiation(d.owner[p]) <= d.owner[p].settled
        /\ Disclosures(d.owner[p]) <= PermissionLimit
    BY DEF Sound
  <2>3. OwnerKeeps(d.owner[p], e.owner[p])
    OBVIOUS
  <2> DEFINE o == d.owner[p]
             n == e.owner[p]
  <2> HIDE DEF o, n
  <2>4. /\ o \in OwnerRecord /\ n \in OwnerRecord /\ OwnerKeeps(o, n)
        /\ o.refused + Negotiation(o) <= o.settled /\ Disclosures(o) <= PermissionLimit
    BY <2>1, <2>2, <2>3 DEF o, n
  <2>5. n.refused + Negotiation(n) <= n.settled /\ Disclosures(n) <= PermissionLimit
    BY <2>4, LimitAssumption DEF OwnerKeeps, OwnerRecord, Negotiation, Disclosures
  <2> QED
    BY <2>5 DEF n
<1> QED
  BY <1>1 DEF Sound, Keeps

\* As many records as before, no more asked or in force, the limits as before
LEMMA KeepsTheCounts ==
    ASSUME NEW d, Sound(d), NEW e, Keeps(d, e)
    PROVE  /\ HistoryCount(e) = HistoryCount(d) /\ PendingCount(e) <= PendingCount(d)
           /\ Withdrawable(e) <= Withdrawable(d) /\ Approvals(e) <= Approvals(d)
           /\ OwnersFit(d) => OwnersFit(e)
<1>1. d \in DecisionRecord /\ e \in DecisionRecord
  BY DEF Keeps, Sound
<1>2. ASSUME NEW p \in Participant
      PROVE  /\ RecordsOf(e, p) = RecordsOf(d, p)
             /\ AskedOf(e, p) <= AskedOf(d, p)
             /\ InForce(e, p) <= InForce(d, p)
             /\ e.owner[p].approved => d.owner[p].approved
             /\ e.owner[p].pending + e.owner[p].settled <= d.owner[p].pending + d.owner[p].settled
             /\ e.owner[p].refused = d.owner[p].refused
             /\ Negotiation(e.owner[p]) = Negotiation(d.owner[p])
             /\ Disclosures(e.owner[p]) <= Disclosures(d.owner[p])
             /\ d.owner[p] \in OwnerRecord /\ e.owner[p] \in OwnerRecord
  <2>1. /\ d.owner[p] \in OwnerRecord /\ e.owner[p] \in OwnerRecord
        /\ OwnerKeeps(d.owner[p], e.owner[p]) /\ e.retired[p] = d.retired[p]
    BY <1>1 DEF Keeps, DecisionRecord
  <2> DEFINE o == d.owner[p]
             n == e.owner[p]
  <2> HIDE DEF o, n
  <2>2. o \in OwnerRecord /\ n \in OwnerRecord /\ OwnerKeeps(o, n)
    BY <2>1 DEF o, n
  <2>4. CurrentRecords(n) = CurrentRecords(o)
    BY <2>2 DEF OwnerKeeps, OwnerRecord, CurrentRecords, Negotiation
  <2>5. /\ n.pending + n.asked <= o.pending + o.asked
        /\ n.active + n.granted <= o.active + o.granted
    BY <2>2 DEF OwnerKeeps, OwnerRecord
  <2>3. /\ n.approved => o.approved
        /\ n.pending + n.settled <= o.pending + o.settled /\ n.refused = o.refused
        /\ Negotiation(n) = Negotiation(o) /\ Disclosures(n) <= Disclosures(o)
    BY <2>2 DEF OwnerKeeps
  <2> QED
    BY <2>1, <2>3, <2>4, <2>5 DEF o, n, RecordsOf, AskedOf, InForce
<1>3. /\ HistoryCount(e) = HistoryCount(d) /\ PendingCount(e) <= PendingCount(d)
      /\ Withdrawable(e) <= Withdrawable(d) /\ Approvals(e) <= Approvals(d)
  BY <1>1, <1>2, CountsFollowOwners
<1>4. RetiredFits(d) => RetiredFits(e)
  BY DEF RetiredFits, Keeps
<1>5. ASSUME OwnersFit(d), NEW p \in Participant
      PROVE  /\ e.owner[p].pending + e.owner[p].settled <= QuestionLimit
             /\ e.owner[p].refused <= RetiredLimit /\ Negotiation(e.owner[p]) <= RetiredLimit
             /\ Disclosures(e.owner[p]) <= RetiredLimit
  <2> DEFINE o == d.owner[p]
             n == e.owner[p]
             no == Negotiation(o)
             nn == Negotiation(n)
             co == Disclosures(o)
             cn == Disclosures(n)
  <2>1. /\ o.pending \in Nat /\ o.settled \in Nat /\ n.pending \in Nat /\ n.settled \in Nat
        /\ n.refused \in Nat /\ no \in Nat /\ nn \in Nat /\ co \in Nat /\ cn \in Nat
    BY <1>2 DEF OwnerRecord, Negotiation, Disclosures
  <2>2. /\ o.pending + o.settled <= QuestionLimit /\ o.refused <= RetiredLimit
        /\ no <= RetiredLimit /\ co <= RetiredLimit
    BY <1>5 DEF OwnersFit
  <2>3. /\ n.pending + n.settled <= o.pending + o.settled /\ n.refused = o.refused
        /\ nn = no /\ cn <= co
    BY <1>2
  <2> HIDE DEF o, n, no, nn, co, cn
  <2>4. /\ n.pending + n.settled <= QuestionLimit /\ n.refused <= RetiredLimit
        /\ nn <= RetiredLimit /\ cn <= RetiredLimit
    BY <2>1, <2>2, <2>3, LimitAssumption
  <2> QED
    BY <2>4 DEF o, n, no, nn, co, cn
<1> QED
  BY <1>3, <1>4, <1>5 DEF OwnersFit

LEMMA OwnerChanges ==
    ASSUME NEW d \in DecisionRecord, NEW p \in Participant, NEW n \in OwnerRecord
    PROVE  LET e == [d EXCEPT !.owner[p] = n]
           IN  /\ e \in DecisionRecord /\ e.owner[p] = n
               /\ \A q \in Participant \ {p} : e.owner[q] = d.owner[q]
               /\ e.roster = d.roster /\ e.frame = d.frame /\ e.ready = d.ready
               /\ e.status = d.status /\ e.retired = d.retired /\ e.candidate = d.candidate
               /\ e.superseded = d.superseded /\ e.agreements = d.agreements
BY DEF DecisionRecord

LEMMA StatusChanges ==
    ASSUME NEW d \in DecisionRecord, NEW s \in Status
    PROVE  LET e == [d EXCEPT !.status = s]
           IN  /\ e \in DecisionRecord /\ e.status = s /\ e.owner = d.owner
               /\ e.roster = d.roster /\ e.frame = d.frame /\ e.ready = d.ready
               /\ e.retired = d.retired /\ e.candidate = d.candidate
               /\ e.superseded = d.superseded /\ e.agreements = d.agreements
BY DEF DecisionRecord

\* One owner's records are kept, and the candidate rests on what is left.
LEMMA OneOwnerKeeps ==
    ASSUME NEW d, Sound(d), NEW e \in DecisionRecord, NEW p \in Participant,
           e.retired = d.retired, e.candidate = d.candidate,
           OwnerKeeps(d.owner[p], e.owner[p]),
           \A q \in Participant \ {p} : e.owner[q] = d.owner[q],
           p \in d.candidate.rests => e.owner[p].active > 0
    PROVE  Keeps(d, e)
<1>1. ASSUME NEW q \in Participant
      PROVE  /\ OwnerKeeps(d.owner[q], e.owner[q])
             /\ ~e.candidate.held =>
                   /\ e.owner[q].asked = 0
                   /\ e.owner[q].granted = 0
                   /\ ~e.owner[q].approved
             /\ q \in e.candidate.rests => e.candidate.held /\ e.owner[q].active > 0
  <2>1. /\ d.owner[q] \in OwnerRecord
        /\ ~d.candidate.held =>
              /\ d.owner[q].asked = 0
              /\ d.owner[q].granted = 0
              /\ ~d.owner[q].approved
        /\ q \in d.candidate.rests => d.candidate.held /\ d.owner[q].active > 0
    BY DEF Sound, DecisionRecord
  <2>2. CASE q # p
    BY <2>1, <2>2, OwnerKeepsSame
  <2>3. CASE q = p
    <3>1. OwnerKeeps(d.owner[p], e.owner[p])
      OBVIOUS
    <3>2. /\ e.owner[p].asked <= d.owner[p].asked /\ e.owner[p].granted <= d.owner[p].granted
          /\ (e.owner[p].approved => d.owner[p].approved)
          /\ e.owner[p].asked \in Nat /\ e.owner[p].granted \in Nat
      BY <3>1 DEF OwnerKeeps, OwnerRecord
    <3> QED
      BY <2>1, <2>3, <3>1, <3>2
  <2> QED
    BY <2>2, <2>3
<1> QED
  BY <1>1, KeepsMeansSound

LEMMA ReadinessIsNotLive ==
    ASSUME NEW d
    PROVE  ReadinessStatus(d) \in Status \ Live
BY DEF ReadinessStatus, Status, Live

LEMMA ApprovalIsLive ==
    ASSUME NEW d
    PROVE  ApprovalStatus(d) \in Live
BY DEF ApprovalStatus, Live

\* A step that keeps the records is stored, when candidate and status agree.
LEMMA KeepingIsStored ==
    ASSUME NEW d, Sound(d), NEW e, Keeps(d, e), NEW n, Fits(d, n),
           e.status \in Live <=> e.candidate.held,
           e.superseded <= ArchiveLimit, e.agreements <= ArchiveLimit
    PROVE  Fits(e, n) /\ HistoryCount(e) = HistoryCount(d)
<1>1. d \in DecisionRecord /\ e \in DecisionRecord
  BY DEF Keeps, Sound
<1>2. OwnersFit(d) /\ n = HistoryCount(d) /\ HistoryCount(d) + PendingCount(d) <= HistoryLimit
  BY <1>1, FitsMeansLimits
<1>3. /\ HistoryCount(e) = HistoryCount(d) /\ PendingCount(e) <= PendingCount(d)
      /\ OwnersFit(d) => OwnersFit(e)
  BY KeepsTheCounts
<1>4. PendingCount(e) \in Nat /\ PendingCount(d) \in Nat /\ HistoryCount(d) \in Nat
  BY <1>1, CountsAreNat
<1>5. HistoryCount(e) + PendingCount(e) <= HistoryLimit
  BY <1>2, <1>3, <1>4, LimitAssumption
<1> QED
  BY <1>1, <1>2, <1>3, <1>5, FitsMeansLimits

\* retireCurrentProposal: requests are dropped, what was granted is closed.
LEMMA RetireShape ==
    ASSUME NEW d \in DecisionRecord,
           ~d.candidate.held => \A p \in Participant :
               d.owner[p].asked = 0 /\ d.owner[p].granted = 0
    PROVE  LET e == AfterRetire(d)
           IN  /\ e.roster = d.roster /\ e.frame = d.frame /\ e.ready = d.ready
               /\ e.status = d.status /\ e.retired = d.retired /\ e.agreements = d.agreements
               /\ e.candidate = NoCandidate
               /\ d.superseded <= ArchiveLimit => e.superseded <= ArchiveLimit
               /\ \A p \in Participant :
                     /\ OwnerKeeps(d.owner[p], e.owner[p])
                     /\ e.owner[p].active = d.owner[p].active
                     /\ e.owner[p].asked = 0 /\ e.owner[p].granted = 0
                     /\ ~e.owner[p].approved
               /\ e \in DecisionRecord
<1> DEFINE Reset(o) == [IF d.candidate.held THEN DropDisclosures(o) ELSE o EXCEPT !.approved = FALSE]
           owner == [p \in Participant |-> Reset(d.owner[p])]
           e == AfterRetire(d)
<1>1. e = [d EXCEPT !.owner = owner, !.candidate = NoCandidate,
                    !.superseded = IF d.candidate.held THEN Lesser(@ + 1, ArchiveLimit) ELSE @]
  BY DEF AfterRetire, ForEachOwner, DecisionRecord
<1>2. ASSUME NEW p \in Participant
      PROVE  /\ OwnerKeeps(d.owner[p], owner[p])
             /\ owner[p].active = d.owner[p].active
             /\ owner[p].asked = 0 /\ owner[p].granted = 0 /\ owner[p].approved = FALSE
  <2> DEFINE o == d.owner[p]
  <2>1. o \in OwnerRecord /\ (~d.candidate.held => o.asked = 0 /\ o.granted = 0)
    BY DEF DecisionRecord
  <2>2. owner[p] = [IF d.candidate.held THEN DropDisclosures(o) ELSE o EXCEPT !.approved = FALSE]
    OBVIOUS
  <2> HIDE DEF o, owner
  <2>3. CASE d.candidate.held
    <3>1. owner[p] = [DropDisclosures(o) EXCEPT !.approved = FALSE]
      BY <2>2, <2>3
    <3>2. OwnerKeeps(o, owner[p]) /\ owner[p].active = o.active /\ owner[p].asked = 0
          /\ owner[p].granted = 0 /\ owner[p].approved = FALSE
      BY <2>1, <3>1, ProposalEnds
    <3> QED
      BY <3>2 DEF o
  <2>4. CASE ~d.candidate.held
    <3>1. owner[p] = [o EXCEPT !.approved = FALSE]
      BY <2>2, <2>4
    <3>2. OwnerKeeps(o, owner[p]) /\ owner[p].active = o.active /\ owner[p].asked = o.asked
          /\ owner[p].granted = o.granted /\ owner[p].approved = FALSE
      BY <2>1, <3>1, ApprovalEnds
    <3> QED
      BY <2>1, <2>4, <3>2 DEF o
  <2> QED BY <2>3, <2>4
<1>3. owner \in [Participant -> OwnerRecord]
  BY <1>2 DEF OwnerKeeps
<1> HIDE DEF owner
<1>4. /\ e.superseded \in Nat
      /\ d.superseded <= ArchiveLimit => e.superseded <= ArchiveLimit
      /\ e.superseded = IF d.candidate.held THEN Lesser(d.superseded + 1, ArchiveLimit) ELSE d.superseded
  BY <1>1, LimitAssumption DEF Lesser, DecisionRecord
<1>5. e.owner = owner /\ e.candidate = NoCandidate /\ e.roster = d.roster /\ e.frame = d.frame
      /\ e.ready = d.ready /\ e.status = d.status /\ e.retired = d.retired
      /\ e.agreements = d.agreements
  BY <1>1 DEF DecisionRecord
<1>6. NoCandidate \in [held : BOOLEAN, rests : SUBSET Participant]
  BY DEF NoCandidate
<1>7. e \in DecisionRecord
  BY <1>1, <1>3, <1>4, <1>6 DEF DecisionRecord
<1> QED
  BY <1>2, <1>4, <1>5, <1>7

LEMMA RetireKeeps ==
    ASSUME NEW d, Sound(d)
    PROVE  Keeps(d, AfterRetire(d))
<1> DEFINE e == AfterRetire(d)
<1>1. d \in DecisionRecord
      /\ (~d.candidate.held => \A p \in Participant : d.owner[p].asked = 0 /\ d.owner[p].granted = 0)
  BY DEF Sound
<1>2. /\ e \in DecisionRecord /\ e.retired = d.retired /\ e.candidate = NoCandidate
      /\ \A p \in Participant :
            /\ OwnerKeeps(d.owner[p], e.owner[p])
            /\ e.owner[p].asked = 0 /\ e.owner[p].granted = 0
            /\ ~e.owner[p].approved
  BY <1>1, RetireShape
<1> HIDE DEF e
<1>3. \A p \in Participant : p \notin e.candidate.rests
  BY <1>2 DEF NoCandidate
<1>4. Keeps(d, e)
  BY <1>2, <1>3, KeepsMeansSound
<1> QED
  BY <1>4 DEF e

\* a permission or its question, a request or a disclosure ends on its own
LEMMA QuestionExpiresKeeps ==
    ASSUME NEW d, Sound(d), NEW p \in Participant, d.owner[p].pending > 0
    PROVE  LET e == AfterQuestionExpires(d, p)
           IN  /\ Keeps(d, e) /\ e.candidate = d.candidate
               /\ e.superseded = d.superseded /\ e.agreements = d.agreements
               /\ e.status \in Live <=> d.status \in Live
               /\ e.roster = d.roster /\ e.frame = d.frame /\ e.ready = d.ready
               /\ \/ e.status = d.status
                  \/ /\ e.status \notin {"REASONING", "PRIVATE_NEGOTIATION"}
                     /\ \A q \in Participant : ~(e.owner[q].pending > 0)
<1> DEFINE n == [d.owner[p] EXCEPT !.pending = @ - 1, !.settled = @ + 1]
           m == [d EXCEPT !.owner[p] = n]
           s == IF d.status = "PRIVATE_NEGOTIATION" /\ ~Waiting(m) THEN ReadinessStatus(m) ELSE d.status
           e == [m EXCEPT !.status = s]
<1>1. d \in DecisionRecord /\ d.owner[p] \in OwnerRecord
      /\ (p \in d.candidate.rests => d.owner[p].active > 0)
  BY DEF Sound, DecisionRecord
<1>2. OwnerKeeps(d.owner[p], n) /\ n.active = d.owner[p].active
  BY <1>1, QuestionExpires
<1>3. AfterQuestionExpires(d, p) = e
  <2>1. m.status = d.status
    BY <1>1 DEF DecisionRecord
  <2> QED
    BY <2>1 DEF AfterQuestionExpires
<1> HIDE DEF n
<1>4. n \in OwnerRecord
  BY <1>2 DEF OwnerKeeps
<1>5. /\ m \in DecisionRecord /\ m.owner[p] = n
      /\ \A q \in Participant \ {p} : m.owner[q] = d.owner[q]
      /\ m.retired = d.retired /\ m.candidate = d.candidate
      /\ m.superseded = d.superseded /\ m.agreements = d.agreements
      /\ m.roster = d.roster /\ m.frame = d.frame /\ m.ready = d.ready
  BY <1>1, <1>4, OwnerChanges
<1>6. s \in Status /\ (s \in Live <=> d.status \in Live)
  BY <1>1, ReadinessIsNotLive DEF Live, DecisionRecord
<1>9. \/ s = d.status
      \/ /\ s \notin {"REASONING", "PRIVATE_NEGOTIATION"}
         /\ \A q \in Participant : ~(m.owner[q].pending > 0)
  BY DEF Waiting, Owners, ReadinessStatus
<1> HIDE DEF m, s
<1>7. /\ e \in DecisionRecord /\ e.status = s /\ e.owner = m.owner
      /\ e.retired = m.retired /\ e.candidate = m.candidate
      /\ e.superseded = m.superseded /\ e.agreements = m.agreements
      /\ e.roster = m.roster /\ e.frame = m.frame /\ e.ready = m.ready
  BY <1>5, <1>6, StatusChanges
<1> HIDE DEF e
<1>8. Keeps(d, e)
  BY <1>1, <1>2, <1>5, <1>7, OneOwnerKeeps
<1> QED
  BY <1>3, <1>5, <1>6, <1>7, <1>8, <1>9

LEMMA RequestExpiresKeeps ==
    ASSUME NEW d, Sound(d), NEW p \in Participant, d.owner[p].asked > 0
    PROVE  LET e == AfterRequestExpires(d, p)
           IN  /\ Keeps(d, e) /\ e.candidate = d.candidate /\ e.status = d.status
               /\ e.superseded = d.superseded /\ e.agreements = d.agreements
               /\ e.roster = d.roster /\ e.frame = d.frame /\ e.ready = d.ready
<1> DEFINE n == [d.owner[p] EXCEPT !.asked = @ - 1]
           e == [d EXCEPT !.owner[p] = n]
<1>1. d \in DecisionRecord /\ d.owner[p] \in OwnerRecord
      /\ (p \in d.candidate.rests => d.owner[p].active > 0)
  BY DEF Sound, DecisionRecord
<1>2. OwnerKeeps(d.owner[p], n) /\ n.active = d.owner[p].active
  BY <1>1, RequestExpires
<1>3. AfterRequestExpires(d, p) = e
  BY <1>1 DEF AfterRequestExpires, DecisionRecord, OwnerRecord
<1> HIDE DEF n
<1>4. n \in OwnerRecord
  BY <1>2 DEF OwnerKeeps
<1>5. /\ e \in DecisionRecord /\ e.owner[p] = n
      /\ \A q \in Participant \ {p} : e.owner[q] = d.owner[q]
      /\ e.retired = d.retired /\ e.candidate = d.candidate /\ e.status = d.status
      /\ e.superseded = d.superseded /\ e.agreements = d.agreements
      /\ e.roster = d.roster /\ e.frame = d.frame /\ e.ready = d.ready
  BY <1>1, <1>4, OwnerChanges
<1> HIDE DEF e
<1>6. Keeps(d, e)
  BY <1>1, <1>2, <1>5, OneOwnerKeeps
<1> QED
  BY <1>3, <1>5, <1>6

\* REVOKE_DISCLOSURE, publication and expiry
LEMMA DisclosureEndsKeeps ==
    ASSUME NEW d, Sound(d), NEW p \in Participant, d.owner[p].granted > 0
    PROVE  LET e == AfterDisclosureEnds(d, p)
           IN  /\ Keeps(d, e) /\ e.candidate = d.candidate /\ e.status = d.status
               /\ e.superseded = d.superseded /\ e.agreements = d.agreements
               /\ e.roster = d.roster /\ e.frame = d.frame /\ e.ready = d.ready
               /\ e.owner[p].active = d.owner[p].active
               /\ e.owner[p].granted = d.owner[p].granted - 1
               /\ \A q \in Participant \ {p} : e.owner[q] = d.owner[q]
<1> DEFINE n == [d.owner[p] EXCEPT !.granted = @ - 1, !.closed = @ + 1]
           e == [d EXCEPT !.owner[p] = n]
<1>1. d \in DecisionRecord /\ d.owner[p] \in OwnerRecord
      /\ (p \in d.candidate.rests => d.owner[p].active > 0)
  BY DEF Sound, DecisionRecord
<1>2. OwnerKeeps(d.owner[p], n) /\ n.active = d.owner[p].active
      /\ n.granted = d.owner[p].granted - 1
  BY <1>1, DisclosureEnds
<1>3. AfterDisclosureEnds(d, p) = e
  BY DEF AfterDisclosureEnds
<1> HIDE DEF n
<1>4. n \in OwnerRecord
  BY <1>2 DEF OwnerKeeps
<1>5. /\ e \in DecisionRecord /\ e.owner[p] = n
      /\ \A q \in Participant \ {p} : e.owner[q] = d.owner[q]
      /\ e.retired = d.retired /\ e.candidate = d.candidate /\ e.status = d.status
      /\ e.superseded = d.superseded /\ e.agreements = d.agreements
      /\ e.roster = d.roster /\ e.frame = d.frame /\ e.ready = d.ready
  BY <1>1, <1>4, OwnerChanges
<1> HIDE DEF e
<1>6. Keeps(d, e)
  BY <1>1, <1>2, <1>5, OneOwnerKeeps
<1> QED
  BY <1>2, <1>3, <1>5, <1>6

\* The candidate goes with a permission it used; it stands without one it did not.
LEMMA LossKeeps ==
    ASSUME NEW d, Sound(d), NEW p \in Participant, d.owner[p].active > 0, NEW used \in BOOLEAN,
           (p \in d.candidate.rests /\ d.owner[p].active = 1) => used
    PROVE  LET e == AfterRevoke(d, p, used)
           IN  /\ Keeps(d, e) /\ e.agreements = d.agreements
               /\ d.superseded <= ArchiveLimit => e.superseded <= ArchiveLimit
               /\ (d.status \in Live <=> d.candidate.held) => (e.status \in Live <=> e.candidate.held)
               /\ e.owner[p].active = d.owner[p].active - 1
               /\ used => e.status = "SUPERSEDED"
               /\ ~used => /\ e.status = d.status /\ e.roster = d.roster
                           /\ e.frame = d.frame /\ e.ready = d.ready
<1> DEFINE n == [d.owner[p] EXCEPT !.active = @ - 1, !.ended = @ + 1]
           m == [d EXCEPT !.owner[p] = n]
           r == AfterRetire(m)
           e == AfterLoss(m, used)
<1>1. d \in DecisionRecord /\ d.owner[p] \in OwnerRecord
  BY DEF Sound, DecisionRecord
<1>7. AfterRevoke(d, p, used) = e
  BY DEF AfterRevoke
<1>2. OwnerKeeps(d.owner[p], n) /\ n.active = d.owner[p].active - 1
  BY <1>1, PermissionEnds
<1> HIDE DEF n
<1>3. n \in OwnerRecord
  BY <1>2 DEF OwnerKeeps
<1>4. /\ m \in DecisionRecord /\ m.owner[p] = n
      /\ \A q \in Participant \ {p} : m.owner[q] = d.owner[q]
      /\ m.retired = d.retired /\ m.candidate = d.candidate /\ m.status = d.status
      /\ m.superseded = d.superseded /\ m.agreements = d.agreements
      /\ m.roster = d.roster /\ m.frame = d.frame /\ m.ready = d.ready
  BY <1>1, <1>3, OwnerChanges
<1> HIDE DEF m
<1>5. CASE used
  <2>1. e = [r EXCEPT !.status = "SUPERSEDED"]
    BY <1>5 DEF AfterLoss
  <2>2. \A q \in Participant : OwnerKeeps(d.owner[q], m.owner[q])
    <3>1. ASSUME NEW q \in Participant PROVE OwnerKeeps(d.owner[q], m.owner[q])
      <4>1. d.owner[q] \in OwnerRecord
        BY <1>1 DEF DecisionRecord
      <4> QED
        BY <1>2, <1>4, <4>1, OwnerKeepsSame
    <3> QED BY <3>1
  <2>3. ~m.candidate.held => \A q \in Participant : m.owner[q].asked = 0 /\ m.owner[q].granted = 0
    <3>1. ASSUME NEW q \in Participant, ~m.candidate.held
          PROVE  m.owner[q].asked = 0 /\ m.owner[q].granted = 0
      <4>1. d.owner[q].asked = 0 /\ d.owner[q].granted = 0
        BY <1>4, <3>1 DEF Sound
      <4>2. OwnerKeeps(d.owner[q], m.owner[q])
        BY <2>2
      <4> QED
        BY <4>1, <4>2 DEF OwnerKeeps, OwnerRecord
    <3> QED BY <3>1
  <2>4. /\ r \in DecisionRecord /\ r.candidate = NoCandidate
        /\ r.retired = m.retired /\ r.agreements = m.agreements
        /\ m.superseded <= ArchiveLimit => r.superseded <= ArchiveLimit
        /\ \A q \in Participant :
              /\ OwnerKeeps(m.owner[q], r.owner[q]) /\ r.owner[q].active = m.owner[q].active
              /\ r.owner[q].asked = 0 /\ r.owner[q].granted = 0
              /\ ~r.owner[q].approved
    BY <1>4, <2>3, RetireShape
  <2>5. "SUPERSEDED" \in Status \ Live
    BY DEF Status, Live
  <2> HIDE DEF r
  <2>6. /\ e \in DecisionRecord /\ e.status = "SUPERSEDED" /\ e.owner = r.owner
        /\ e.retired = r.retired /\ e.candidate = r.candidate
        /\ e.superseded = r.superseded /\ e.agreements = r.agreements
    BY <2>1, <2>4, <2>5, StatusChanges
  <2> HIDE DEF e
  <2>7. ASSUME NEW q \in Participant
        PROVE  /\ OwnerKeeps(d.owner[q], e.owner[q])
               /\ e.owner[q].asked = 0
               /\ e.owner[q].granted = 0
               /\ ~e.owner[q].approved
               /\ q \notin e.candidate.rests
    <3>1. d.owner[q] \in OwnerRecord
      BY <1>1 DEF DecisionRecord
    <3> QED
      BY <2>2, <2>4, <2>6, <3>1, OwnerKeepsTwice DEF NoCandidate
  <2>8. Keeps(d, e)
    BY <1>4, <2>4, <2>6, <2>7, KeepsMeansSound
  <2>9. e.status \notin Live /\ ~e.candidate.held
    BY <2>4, <2>5, <2>6 DEF NoCandidate
  <2> QED
    BY <1>2, <1>4, <1>5, <1>7, <2>4, <2>6, <2>8, <2>9
<1>6. CASE ~used
  <2>1. e = m
    BY <1>6 DEF AfterLoss
  <2>2. p \in d.candidate.rests => n.active > 0
    BY <1>1, <1>2, <1>6 DEF OwnerRecord
  <2>3. Keeps(d, m)
    BY <1>2, <1>4, <2>2, OneOwnerKeeps
  <2> QED
    BY <1>2, <1>4, <1>6, <1>7, <2>1, <2>3
<1> QED BY <1>5, <1>6

\* One owner takes back something: there is less to take back.
LEMMA LessIsWithdrawable ==
    ASSUME NEW d \in DecisionRecord, NEW e \in DecisionRecord, NEW p \in Participant,
           \A q \in Participant : InForce(e, q) <= InForce(d, q),
           InForce(e, p) < InForce(d, p)
    PROVE  Withdrawable(e) < Withdrawable(d)
<1> DEFINE m == [q \in Participant |-> InForce(d, q)]
           n == [q \in Participant |-> InForce(e, q)]
<1>1. m \in Count /\ n \in Count
  BY CountsAreNat
<1>2. n[p] < m[p] /\ \A q \in Participant : n[q] <= m[q]
  OBVIOUS
<1>3. Withdrawable(d) = CountAll(m) /\ Withdrawable(e) = CountAll(n)
  BY DEF Withdrawable, InForce
<1> HIDE DEF m, n
<1> QED
  BY <1>1, <1>2, <1>3, TotalIsStrict

\* WITHDRAW_APPROVAL
LEMMA WithdrawKeeps ==
    ASSUME NEW d, Sound(d), NEW p \in Participant, d.owner[p].approved
    PROVE  LET e == AfterWithdraw(d, p)
           IN  /\ Keeps(d, e) /\ e.candidate = d.candidate /\ d.candidate.held
               /\ e.status \in Live
               /\ e.superseded = d.superseded /\ e.agreements = d.agreements
               /\ e.roster = d.roster /\ e.frame = d.frame /\ e.ready = d.ready
               /\ Withdrawable(e) = Withdrawable(d)
               /\ Approvals(e) = Approvals(d) - 1
<1> DEFINE n == [d.owner[p] EXCEPT !.approved = FALSE]
           m == [d EXCEPT !.owner[p] = n]
           s == ApprovalStatus(m)
           e == [m EXCEPT !.status = s]
<1>1. d \in DecisionRecord /\ d.owner[p] \in OwnerRecord
      /\ (p \in d.candidate.rests => d.owner[p].active > 0) /\ d.candidate.held
  BY DEF Sound, DecisionRecord
<1>2. OwnerKeeps(d.owner[p], n) /\ n.active = d.owner[p].active /\ n.granted = d.owner[p].granted
      /\ n.approved = FALSE
  BY <1>1, ApprovalEnds
<1>3. AfterWithdraw(d, p) = e
  BY <1>1 DEF AfterWithdraw, DecisionRecord, OwnerRecord
<1> HIDE DEF n
<1>4. n \in OwnerRecord
  BY <1>2 DEF OwnerKeeps
<1>5. /\ m \in DecisionRecord /\ m.owner[p] = n
      /\ \A q \in Participant \ {p} : m.owner[q] = d.owner[q]
      /\ m.retired = d.retired /\ m.candidate = d.candidate
      /\ m.superseded = d.superseded /\ m.agreements = d.agreements
      /\ m.roster = d.roster /\ m.frame = d.frame /\ m.ready = d.ready
  BY <1>1, <1>4, OwnerChanges
<1>6. s \in Status /\ s \in Live
  BY ApprovalIsLive DEF Live, Status
<1> HIDE DEF m, s
<1>7. /\ e \in DecisionRecord /\ e.status = s /\ e.owner = m.owner
      /\ e.retired = m.retired /\ e.candidate = m.candidate
      /\ e.superseded = m.superseded /\ e.agreements = m.agreements
      /\ e.roster = m.roster /\ e.frame = m.frame /\ e.ready = m.ready
  BY <1>5, <1>6, StatusChanges
<1> HIDE DEF e
<1>8. Keeps(d, e)
  BY <1>1, <1>2, <1>5, <1>7, OneOwnerKeeps
<1>9. \A q \in Participant : InForce(e, q) = InForce(d, q)
  BY <1>2, <1>5, <1>7 DEF InForce
<1>10. Withdrawable(e) = Withdrawable(d)
  BY <1>9 DEF Withdrawable, InForce
<1>11. Approvals(e) = Approvals(d) - 1
  <2> DEFINE before == {q \in Participant : d.owner[q].approved}
             after == {q \in Participant : e.owner[q].approved}
  <2>1. after = before \ {p} /\ p \in before
    BY <1>2, <1>5, <1>7
  <2>2. IsFiniteSet(before)
    BY LimitAssumption, FS_Subset
  <2> HIDE DEF before, after
  <2>3. Cardinality(after) = Cardinality(before) - 1
    BY <2>1, <2>2, FS_RemoveElement
  <2> QED
    BY <2>3 DEF Approvals, before, after
<1> QED
  BY <1>1, <1>3, <1>5, <1>6, <1>7, <1>8, <1>10, <1>11

\* completeReasoning with a valid candidate
LEMMA ProposalKeeps ==
    ASSUME NEW d, Sound(d), NEW rests \in SUBSET {p \in Participant : d.owner[p].active > 0}
    PROVE  LET e == AfterProposal(d, rests)
           IN  /\ Keeps(d, e) /\ e.candidate.held /\ e.status = "PROPOSED"
               /\ e.superseded = d.superseded /\ e.agreements = d.agreements
<1> DEFINE owner == [p \in Participant |-> [DropDisclosures(d.owner[p]) EXCEPT !.approved = FALSE]]
           candidate == [held |-> TRUE, rests |-> rests]
           e == [d EXCEPT !.owner = owner, !.candidate = candidate, !.status = "PROPOSED"]
<1>1. d \in DecisionRecord
  BY DEF Sound
<1>2. AfterProposal(d, rests) = e
  BY <1>1 DEF AfterProposal, ForEachOwner, DecisionRecord
<1>3. ASSUME NEW p \in Participant
      PROVE  /\ OwnerKeeps(d.owner[p], owner[p]) /\ owner[p].active = d.owner[p].active
  <2> DEFINE o == d.owner[p]
  <2>1. o \in OwnerRecord
    BY <1>1 DEF DecisionRecord
  <2>2. owner[p] = [DropDisclosures(o) EXCEPT !.approved = FALSE]
    OBVIOUS
  <2> HIDE DEF o, owner
  <2>3. OwnerKeeps(o, owner[p]) /\ owner[p].active = o.active
    BY <2>1, <2>2, ProposalEnds
  <2> QED
    BY <2>3 DEF o
<1>4. owner \in [Participant -> OwnerRecord]
  BY <1>3 DEF OwnerKeeps
<1>5. /\ candidate \in [held : BOOLEAN, rests : SUBSET Participant]
      /\ candidate.held = TRUE /\ candidate.rests = rests
  OBVIOUS
<1> HIDE DEF owner, candidate
<1>6. "PROPOSED" \in Status /\ "PROPOSED" \in Live
  BY DEF Status, Live
<1>7. e \in DecisionRecord
  BY <1>1, <1>4, <1>5, <1>6 DEF DecisionRecord
<1>8. /\ e.owner = owner /\ e.candidate = candidate /\ e.status = "PROPOSED"
      /\ e.retired = d.retired /\ e.superseded = d.superseded /\ e.agreements = d.agreements
  BY <1>1 DEF DecisionRecord
<1> HIDE DEF e
<1>9. Keeps(d, e)
  BY <1>3, <1>5, <1>7, <1>8, KeepsMeansSound
<1> QED
  BY <1>2, <1>5, <1>6, <1>8, <1>9

\* includeDecisionGroupMembers
LEMMA JoinKeeps ==
    ASSUME NEW d, Sound(d), NEW people \in SUBSET Participant
    PROVE  LET e == AfterJoin(d, people)
           IN  /\ Keeps(d, e) /\ ~e.candidate.held /\ e.status \notin Live
               /\ e.status \notin {"REASONING", "PRIVATE_NEGOTIATION"}
               /\ \A p \in Participant : e.owner[p].pending = 0
               /\ e.agreements = d.agreements
               /\ d.superseded <= ArchiveLimit => e.superseded <= ArchiveLimit
<1> DEFINE r == AfterRetire(d)
           Suspend(o) == [o EXCEPT !.pending = 0, !.settled = @ + o.pending,
                                   !.active = 0, !.ended = @ + o.active,
                                   !.asked = 0, !.granted = 0, !.closed = @ + o.asked + o.granted]
           owner == [p \in Participant |-> Suspend(r.owner[p])]
           m == [r EXCEPT !.owner = owner, !.roster = @ \union people]
           s == ReadinessStatus(m)
           e == [m EXCEPT !.status = s]
<1>1. d \in DecisionRecord
  BY DEF Sound
<1>2. /\ r \in DecisionRecord /\ r.retired = d.retired /\ r.candidate = NoCandidate
      /\ r.agreements = d.agreements
      /\ d.superseded <= ArchiveLimit => r.superseded <= ArchiveLimit
      /\ \A p \in Participant :
            /\ OwnerKeeps(d.owner[p], r.owner[p])
            /\ r.owner[p].asked = 0 /\ ~r.owner[p].approved
  BY RetireShape DEF Sound
<1> HIDE DEF r
<1>3. AfterJoin(d, people) = e
  BY <1>2 DEF AfterJoin, ForEachOwner, r, DecisionRecord
<1>4. ASSUME NEW p \in Participant
      PROVE  /\ OwnerKeeps(d.owner[p], owner[p])
             /\ owner[p].asked = 0 /\ owner[p].granted = 0 /\ owner[p].approved = r.owner[p].approved
             /\ owner[p].pending = 0
  <2> DEFINE o == r.owner[p]
  <2>1. o \in OwnerRecord /\ o.asked = 0 /\ d.owner[p] \in OwnerRecord /\ OwnerKeeps(d.owner[p], o)
    BY <1>1, <1>2 DEF DecisionRecord
  <2>2. owner[p] = Suspend(o)
    OBVIOUS
  <2> HIDE DEF o, owner
  <2>3. /\ OwnerKeeps(o, Suspend(o)) /\ Suspend(o).asked = 0 /\ Suspend(o).granted = 0
        /\ Suspend(o).pending = 0
        /\ Suspend(o).approved = o.approved
    BY <2>1, EverythingEnds
  <2> HIDE DEF Suspend
  <2>4. /\ OwnerKeeps(o, owner[p]) /\ owner[p].asked = 0 /\ owner[p].granted = 0
        /\ owner[p].approved = o.approved /\ owner[p].pending = 0
    BY <2>2, <2>3
  <2> QED
    BY <2>1, <2>4, OwnerKeepsTwice DEF o
<1>5. owner \in [Participant -> OwnerRecord]
  BY <1>4 DEF OwnerKeeps
<1> HIDE DEF owner
<1>6. m \in DecisionRecord
  BY <1>2, <1>5 DEF DecisionRecord
<1>7. /\ m.owner = owner /\ m.candidate = r.candidate /\ m.retired = r.retired
      /\ m.superseded = r.superseded /\ m.agreements = r.agreements
  BY <1>2 DEF DecisionRecord
<1>8. s \in Status \ Live /\ s \notin {"REASONING", "PRIVATE_NEGOTIATION"}
  BY ReadinessIsNotLive DEF ReadinessStatus
<1> HIDE DEF m, s
<1>9. /\ e \in DecisionRecord /\ e.status = s /\ e.owner = m.owner
      /\ e.retired = m.retired /\ e.candidate = m.candidate
      /\ e.superseded = m.superseded /\ e.agreements = m.agreements
  BY <1>6, <1>8, StatusChanges
<1> HIDE DEF e
<1>10. ~e.candidate.held /\ e.candidate.rests = {}
  BY <1>2, <1>7, <1>9 DEF NoCandidate
<1>11. ASSUME NEW p \in Participant
       PROVE  /\ OwnerKeeps(d.owner[p], e.owner[p])
              /\ e.owner[p].asked = 0
              /\ e.owner[p].granted = 0
              /\ ~e.owner[p].approved
              /\ p \notin e.candidate.rests
              /\ e.owner[p].pending = 0
  BY <1>2, <1>4, <1>7, <1>9, <1>10
<1>12. Keeps(d, e)
  BY <1>2, <1>7, <1>9, <1>11, KeepsMeansSound
<1> QED
  BY <1>2, <1>3, <1>7, <1>8, <1>9, <1>10, <1>11, <1>12

\* closeDecision
LEMMA CloseKeeps ==
    ASSUME NEW d, Sound(d)
    PROVE  Keeps(d, AfterClose(d)) /\ AfterClose(d).status = "CLOSED"
<1> DEFINE r == AfterRetire(d)
           e == AfterClose(d)
<1>1. d \in DecisionRecord
  BY DEF Sound
<1>2. /\ r \in DecisionRecord /\ r.retired = d.retired /\ r.candidate = NoCandidate
      /\ \A p \in Participant :
            /\ OwnerKeeps(d.owner[p], r.owner[p])
            /\ r.owner[p].asked = 0 /\ r.owner[p].granted = 0 /\ ~r.owner[p].approved
  BY RetireShape DEF Sound
<1>3. r.owner = [p \in Participant |->
          [IF d.candidate.held THEN DropDisclosures(d.owner[p]) ELSE d.owner[p] EXCEPT !.approved = FALSE]]
  BY <1>1 DEF AfterRetire, ForEachOwner, DecisionRecord
<1>4. e = [d EXCEPT !.owner = r.owner, !.candidate = NoCandidate, !.status = "CLOSED",
                    !.superseded = @ + (IF d.candidate.held THEN 1 ELSE 0)]
  BY <1>1, <1>3 DEF AfterClose, ForEachOwner, DecisionRecord
<1> HIDE DEF r
<1>5. /\ NoCandidate \in [held : BOOLEAN, rests : SUBSET Participant]
      /\ d.superseded + (IF d.candidate.held THEN 1 ELSE 0) \in Nat
      /\ r.owner \in [Participant -> OwnerRecord] /\ "CLOSED" \in Status
  BY <1>1, <1>2 DEF NoCandidate, DecisionRecord, Status
<1>6. e \in DecisionRecord
  BY <1>1, <1>4, <1>5 DEF DecisionRecord
<1>7. e.owner = r.owner /\ e.candidate = NoCandidate /\ e.retired = d.retired
      /\ e.status = "CLOSED"
  BY <1>1, <1>4 DEF DecisionRecord
<1> HIDE DEF e
<1>8. \A p \in Participant : p \notin e.candidate.rests
  BY <1>7 DEF NoCandidate
<1>9. Keeps(d, e)
  BY <1>2, <1>6, <1>7, <1>8, KeepsMeansSound
<1> QED
  BY <1>7, <1>9 DEF e

\* A step that only confirms a frame, or a first answer, or changes the status
LEMMA RosterStepKeeps ==
    ASSUME NEW d, Sound(d), NEW e \in DecisionRecord,
           e.owner = d.owner, e.retired = d.retired, e.candidate = d.candidate
    PROVE  Keeps(d, e)
<1>1. ASSUME NEW p \in Participant
      PROVE  /\ OwnerKeeps(d.owner[p], e.owner[p])
             /\ ~e.candidate.held =>
                   /\ e.owner[p].asked = 0
                   /\ e.owner[p].granted = 0
                   /\ ~e.owner[p].approved
             /\ p \in e.candidate.rests => e.candidate.held /\ e.owner[p].active > 0
  <2>1. d.owner[p] \in OwnerRecord
    BY DEF Sound, DecisionRecord
  <2>2. OwnerKeeps(d.owner[p], d.owner[p])
    BY <2>1, OwnerKeepsSame
  <2> QED
    BY <2>2 DEF Sound
<1> QED
  BY <1>1, KeepsMeansSound

-----------------------------------------------------------------------------
(* Steps that add to the history, to what is asked, or to the approvals *)

\* With every record on a settled question, the limit on questions is the one
\* that matters.
LEMMA SoundFits ==
    ASSUME NEW d, Sound(d), RetiredFits(d),
           \A p \in Participant : d.owner[p].pending + d.owner[p].settled <= QuestionLimit
    PROVE  OwnersFit(d)
<1>1. ASSUME NEW p \in Participant
      PROVE  /\ d.owner[p].pending + d.owner[p].settled <= QuestionLimit
             /\ d.owner[p].refused <= RetiredLimit /\ Negotiation(d.owner[p]) <= RetiredLimit
             /\ Disclosures(d.owner[p]) <= RetiredLimit
  <2> DEFINE o == d.owner[p]
             k == Negotiation(o)
             c == Disclosures(o)
  <2>1. o \in OwnerRecord
    BY DEF Sound, DecisionRecord
  <2>2. o.pending \in Nat /\ o.settled \in Nat /\ o.refused \in Nat /\ k \in Nat /\ c \in Nat
    BY <2>1 DEF OwnerRecord, Negotiation, Disclosures
  <2>3. o.refused + k <= o.settled /\ c <= PermissionLimit /\ o.pending + o.settled <= QuestionLimit
    BY DEF Sound
  <2> HIDE DEF o, k, c
  <2>4. o.refused <= RetiredLimit /\ k <= RetiredLimit /\ c <= RetiredLimit
    BY <2>2, <2>3, LimitAssumption
  <2> QED
    BY <2>3, <2>4 DEF o, k, c
<1> QED
  BY <1>1 DEF OwnersFit

\* ANSWER_NEGOTIATION, for one owner: a permission or a refusal is recorded
LEMMA QuestionAnswered ==
    ASSUME NEW o \in OwnerRecord, o.pending > 0, NEW allow \in BOOLEAN,
           o.refused + Negotiation(o) <= o.settled
    PROVE  LET n == [o EXCEPT !.pending = @ - 1, !.settled = @ + 1,
                              !.active = @ + (IF allow THEN 1 ELSE 0),
                              !.refused = @ + (IF allow THEN 0 ELSE 1)]
           IN  /\ n \in OwnerRecord
               /\ n.refused + Negotiation(n) <= n.settled /\ Disclosures(n) = Disclosures(o)
               /\ CurrentRecords(n) = CurrentRecords(o) + 1
               /\ n.pending = o.pending - 1 /\ n.pending + n.settled = o.pending + o.settled
               /\ n.asked = o.asked /\ n.granted = o.granted
               /\ n.active >= o.active /\ n.active <= o.active + 1
               /\ n.approved = o.approved
<1> DEFINE x == o.pending - 1
           y == o.settled + 1
           z == o.active + (IF allow THEN 1 ELSE 0)
           w == o.refused + (IF allow THEN 0 ELSE 1)
           n == [o EXCEPT !.pending = x, !.settled = y, !.active = z, !.refused = w]
<1>1. /\ x \in Nat /\ y \in Nat /\ z \in Nat /\ w \in Nat
      /\ x = o.pending - 1 /\ y = o.settled + 1 /\ z + w = o.active + o.refused + 1
      /\ z >= o.active /\ z <= o.active + 1
  BY DEF OwnerRecord
<1> HIDE DEF x, y, z, w
<1>2. /\ n \in OwnerRecord
      /\ n.pending = x /\ n.settled = y /\ n.refused = w
      /\ n.active = z /\ n.ended = o.ended /\ n.asked = o.asked /\ n.granted = o.granted
      /\ n.closed = o.closed /\ n.approved = o.approved
  BY <1>1 DEF OwnerRecord
<1> HIDE DEF n
<1>3. /\ n.refused + Negotiation(n) <= n.settled /\ Disclosures(n) = Disclosures(o)
      /\ CurrentRecords(n) = CurrentRecords(o) + 1
      /\ n.pending = o.pending - 1 /\ n.pending + n.settled = o.pending + o.settled
  BY <1>1, <1>2 DEF OwnerRecord, Negotiation, Disclosures, CurrentRecords
<1> QED
  BY <1>1, <1>2, <1>3 DEF n, x, y, z, w

LEMMA RequestDecided ==
    ASSUME NEW o \in OwnerRecord, o.asked > 0, NEW allow \in BOOLEAN
    PROVE  LET n == [o EXCEPT !.asked = @ - 1,
                              !.granted = @ + (IF allow THEN 1 ELSE 0),
                              !.closed = @ + (IF allow THEN 0 ELSE 1)]
           IN  /\ n \in OwnerRecord
               /\ n.refused = o.refused /\ Negotiation(n) = Negotiation(o) /\ n.settled = o.settled
               /\ Disclosures(n) = Disclosures(o)
               /\ CurrentRecords(n) = CurrentRecords(o) + 1
               /\ n.pending = o.pending /\ n.asked = o.asked - 1 /\ n.active = o.active
               /\ n.granted >= o.granted /\ n.granted <= o.granted + 1
               /\ n.approved = o.approved
<1> DEFINE x == o.asked - 1
           z == o.granted + (IF allow THEN 1 ELSE 0)
           w == o.closed + (IF allow THEN 0 ELSE 1)
           n == [o EXCEPT !.asked = x, !.granted = z, !.closed = w]
<1>1. /\ x \in Nat /\ z \in Nat /\ w \in Nat
      /\ x = o.asked - 1 /\ z + w = o.granted + o.closed + 1
      /\ z >= o.granted /\ z <= o.granted + 1
  BY DEF OwnerRecord
<1> HIDE DEF x, z, w
<1>2. /\ n \in OwnerRecord
      /\ n.pending = o.pending /\ n.settled = o.settled /\ n.refused = o.refused
      /\ n.active = o.active /\ n.ended = o.ended /\ n.asked = x /\ n.granted = z
      /\ n.closed = w /\ n.approved = o.approved
  BY <1>1 DEF OwnerRecord
<1> HIDE DEF n
<1>3. /\ Negotiation(n) = Negotiation(o) /\ Disclosures(n) = Disclosures(o)
      /\ CurrentRecords(n) = CurrentRecords(o) + 1
  BY <1>1, <1>2 DEF OwnerRecord, Negotiation, Disclosures, CurrentRecords
<1> QED
  BY <1>1, <1>2, <1>3 DEF n, x, z, w

\* Soundness after a step on one owner's records, whatever it adds
LEMMA OneOwnerSound ==
    ASSUME NEW d, Sound(d), NEW e \in DecisionRecord, NEW p \in Participant,
           e.candidate = d.candidate,
           \A q \in Participant \ {p} : e.owner[q] = d.owner[q],
           e.owner[p].refused + Negotiation(e.owner[p]) <= e.owner[p].settled,
           Disclosures(e.owner[p]) <= PermissionLimit,
           ~d.candidate.held => /\ e.owner[p].asked = 0
                                /\ e.owner[p].granted = 0
                                /\ ~e.owner[p].approved,
           p \in d.candidate.rests => e.owner[p].active > 0
    PROVE  Sound(e)
<1>1. ASSUME NEW q \in Participant
      PROVE  /\ e.owner[q].refused + Negotiation(e.owner[q]) <= e.owner[q].settled
             /\ Disclosures(e.owner[q]) <= PermissionLimit
             /\ ~e.candidate.held =>
                   /\ e.owner[q].asked = 0
                   /\ e.owner[q].granted = 0
                   /\ ~e.owner[q].approved
             /\ q \in e.candidate.rests => e.candidate.held /\ e.owner[q].active > 0
  <2>1. CASE q = p
    BY <2>1 DEF Sound
  <2>2. CASE q # p
    BY <2>2 DEF Sound
  <2> QED BY <2>1, <2>2
<1> QED
  BY <1>1 DEF Sound

\* One more record than before: what answers and decisions do to the counts
LEMMA OneMoreRecord ==
    ASSUME NEW d \in DecisionRecord, NEW e \in DecisionRecord, NEW p \in Participant,
           \A q \in Participant \ {p} : e.owner[q] = d.owner[q], e.retired = d.retired,
           CurrentRecords(e.owner[p]) = CurrentRecords(d.owner[p]) + 1,
           AskedOf(e, p) = AskedOf(d, p) - 1,
           InForce(e, p) <= InForce(d, p) + 1,
           e.owner[p].approved = d.owner[p].approved
    PROVE  /\ HistoryCount(e) = HistoryCount(d) + 1 /\ PendingCount(e) = PendingCount(d) - 1
           /\ Withdrawable(e) <= Withdrawable(d) + 1 /\ Approvals(e) = Approvals(d)
<1>1. /\ HistoryCount(e) - RecordsOf(e, p) = HistoryCount(d) - RecordsOf(d, p)
      /\ PendingCount(e) - AskedOf(e, p) = PendingCount(d) - AskedOf(d, p)
      /\ Withdrawable(e) - InForce(e, p) = Withdrawable(d) - InForce(d, p)
  BY CountsOfOneOwner
<1>2. /\ HistoryCount(e) \in Nat /\ HistoryCount(d) \in Nat
      /\ PendingCount(e) \in Nat /\ PendingCount(d) \in Nat
      /\ Withdrawable(e) \in Nat /\ Withdrawable(d) \in Nat
      /\ RecordsOf(d, p) \in Nat /\ AskedOf(d, p) \in Nat /\ AskedOf(e, p) \in Nat
      /\ InForce(d, p) \in Nat /\ InForce(e, p) \in Nat
  BY CountsAreNat DEF Count
<1>3. RecordsOf(e, p) = RecordsOf(d, p) + 1
  <2>1. d.owner[p] \in OwnerRecord /\ d.retired[p] \in HistoryRecord
    BY DEF DecisionRecord
  <2>2. CurrentRecords(d.owner[p]) \in Nat /\ RetiredRecords(d.retired[p]) \in Nat
    BY <2>1 DEF OwnerRecord, HistoryRecord, CurrentRecords, RetiredRecords, Negotiation
  <2> QED
    BY <2>2 DEF RecordsOf
<1>4. Approvals(e) = Approvals(d)
  <2>1. \A q \in Participant : e.owner[q].approved = d.owner[q].approved
    OBVIOUS
  <2> QED
    BY <2>1 DEF Approvals
<1> QED
  BY <1>1, <1>2, <1>3, <1>4

\* ANSWER_NEGOTIATION
LEMMA AnswerAdds ==
    ASSUME NEW d, Sound(d), NEW p \in Participant, d.owner[p].pending > 0, NEW allow \in BOOLEAN
    PROVE  LET e == AfterAnswer(d, p, allow)
           IN  /\ Sound(e) /\ e.retired = d.retired /\ e.candidate = d.candidate
               /\ e.roster = d.roster /\ e.frame = d.frame /\ e.ready = d.ready
               /\ e.superseded = d.superseded /\ e.agreements = d.agreements
               /\ e.status \notin Live
               /\ \/ e.status = "PRIVATE_NEGOTIATION"
                  \/ /\ e.status \notin {"REASONING", "PRIVATE_NEGOTIATION"}
                     /\ \A q \in Participant : ~(e.owner[q].pending > 0)
               /\ \A q \in Participant : e.owner[q].pending + e.owner[q].settled
                                            = d.owner[q].pending + d.owner[q].settled
               /\ HistoryCount(e) = HistoryCount(d) + 1 /\ PendingCount(e) = PendingCount(d) - 1
               /\ Withdrawable(e) <= Withdrawable(d) + 1 /\ Approvals(e) = Approvals(d)
<1> DEFINE o == d.owner[p]
           n == [o EXCEPT !.pending = @ - 1, !.settled = @ + 1,
                          !.active = @ + (IF allow THEN 1 ELSE 0),
                          !.refused = @ + (IF allow THEN 0 ELSE 1)]
           m == [d EXCEPT !.owner[p] = n]
           s == IF Waiting(m) THEN "PRIVATE_NEGOTIATION" ELSE ReadinessStatus(m)
           e == [m EXCEPT !.status = s]
<1>1. d \in DecisionRecord /\ o \in OwnerRecord
      /\ o.refused + Negotiation(o) <= o.settled /\ Disclosures(o) <= PermissionLimit
      /\ (~d.candidate.held => o.asked = 0 /\ o.granted = 0 /\ ~o.approved)
      /\ (p \in d.candidate.rests => o.active > 0) /\ o.pending > 0
  BY DEF Sound, DecisionRecord
<1>2. AfterAnswer(d, p, allow) = e
  BY DEF AfterAnswer
<1> HIDE DEF o
<1>3. /\ n \in OwnerRecord
      /\ n.refused + Negotiation(n) <= n.settled /\ Disclosures(n) = Disclosures(o)
      /\ CurrentRecords(n) = CurrentRecords(o) + 1
      /\ n.pending = o.pending - 1 /\ n.pending + n.settled = o.pending + o.settled
      /\ n.asked = o.asked /\ n.granted = o.granted
      /\ n.active >= o.active /\ n.active <= o.active + 1
      /\ n.approved = o.approved
  BY <1>1, QuestionAnswered
<1> HIDE DEF n
<1>4. /\ m \in DecisionRecord /\ m.owner[p] = n
      /\ \A q \in Participant \ {p} : m.owner[q] = d.owner[q]
      /\ m.retired = d.retired /\ m.candidate = d.candidate
      /\ m.superseded = d.superseded /\ m.agreements = d.agreements
      /\ m.roster = d.roster /\ m.frame = d.frame /\ m.ready = d.ready
  BY <1>1, <1>3, OwnerChanges
<1>5. /\ s \in Status \ Live
      /\ \/ s = "PRIVATE_NEGOTIATION"
         \/ /\ s \notin {"REASONING", "PRIVATE_NEGOTIATION"}
            /\ \A q \in Participant : ~(m.owner[q].pending > 0)
  BY ReadinessIsNotLive DEF Waiting, Owners, ReadinessStatus, Live, Status
<1> HIDE DEF m, s
<1>6. /\ e \in DecisionRecord /\ e.status = s /\ e.owner = m.owner
      /\ e.retired = m.retired /\ e.candidate = m.candidate
      /\ e.superseded = m.superseded /\ e.agreements = m.agreements
      /\ e.roster = m.roster /\ e.frame = m.frame /\ e.ready = m.ready
  BY <1>4, <1>5, StatusChanges
<1> HIDE DEF e
<1>7. Sound(e)
  <2>1. /\ e.owner[p].refused + Negotiation(e.owner[p]) <= e.owner[p].settled
        /\ Disclosures(e.owner[p]) <= PermissionLimit
        /\ (~d.candidate.held => e.owner[p].asked = 0 /\ e.owner[p].granted = 0 /\ ~e.owner[p].approved)
    BY <1>1, <1>3, <1>4, <1>6
  <2>2. p \in d.candidate.rests => e.owner[p].active > 0
    BY <1>1, <1>3, <1>4, <1>6 DEF OwnerRecord
  <2> QED
    BY <1>4, <1>6, <2>1, <2>2, OneOwnerSound
<1>8. \A q \in Participant : e.owner[q].pending + e.owner[q].settled
                                = d.owner[q].pending + d.owner[q].settled
  <2>1. ASSUME NEW q \in Participant
        PROVE  e.owner[q].pending + e.owner[q].settled = d.owner[q].pending + d.owner[q].settled
    BY <1>3, <1>4, <1>6 DEF o
  <2> QED BY <2>1
<1>9. /\ AskedOf(e, p) = AskedOf(d, p) - 1 /\ InForce(e, p) <= InForce(d, p) + 1
      /\ CurrentRecords(e.owner[p]) = CurrentRecords(d.owner[p]) + 1
      /\ e.owner[p].approved = d.owner[p].approved
  <2>1. n.pending + n.asked = o.pending + o.asked - 1 /\ n.active + n.granted <= o.active + o.granted + 1
    BY <1>1, <1>3 DEF OwnerRecord
  <2>2. /\ AskedOf(e, p) = n.pending + n.asked /\ InForce(e, p) = n.active + n.granted
        /\ AskedOf(d, p) = o.pending + o.asked /\ InForce(d, p) = o.active + o.granted
    BY <1>4, <1>6 DEF AskedOf, InForce, o
  <2>3. CurrentRecords(e.owner[p]) = CurrentRecords(d.owner[p]) + 1
    BY <1>3, <1>4, <1>6 DEF o
  <2>4. e.owner[p].approved = d.owner[p].approved
    BY <1>3, <1>4, <1>6, Zenon DEF o
  <2>5. AskedOf(e, p) = AskedOf(d, p) - 1 /\ InForce(e, p) <= InForce(d, p) + 1
    BY <1>1, <1>3, <2>1, <2>2 DEF OwnerRecord
  <2> QED
    BY <2>3, <2>4, <2>5
<1>10. /\ HistoryCount(e) = HistoryCount(d) + 1 /\ PendingCount(e) = PendingCount(d) - 1
       /\ Withdrawable(e) <= Withdrawable(d) + 1 /\ Approvals(e) = Approvals(d)
  BY <1>1, <1>4, <1>6, <1>9, OneMoreRecord
<1> QED
  BY <1>2, <1>4, <1>5, <1>6, <1>7, <1>8, <1>10

\* DECIDE_DISCLOSURE
LEMMA DecideAdds ==
    ASSUME NEW d, Sound(d), NEW p \in Participant, d.owner[p].asked > 0, NEW allow \in BOOLEAN
    PROVE  LET e == AfterDecide(d, p, allow)
           IN  /\ Sound(e) /\ e.retired = d.retired /\ e.candidate = d.candidate /\ e.status = d.status
               /\ e.roster = d.roster /\ e.frame = d.frame /\ e.ready = d.ready
               /\ e.superseded = d.superseded /\ e.agreements = d.agreements
               /\ \A q \in Participant : /\ e.owner[q].pending = d.owner[q].pending
                                         /\ e.owner[q].settled = d.owner[q].settled
               /\ HistoryCount(e) = HistoryCount(d) + 1 /\ PendingCount(e) = PendingCount(d) - 1
               /\ Withdrawable(e) <= Withdrawable(d) + 1 /\ Approvals(e) = Approvals(d)
<1> DEFINE o == d.owner[p]
           n == [o EXCEPT !.asked = @ - 1,
                          !.granted = @ + (IF allow THEN 1 ELSE 0),
                          !.closed = @ + (IF allow THEN 0 ELSE 1)]
           e == [d EXCEPT !.owner[p] = n]
<1>1. d \in DecisionRecord /\ o \in OwnerRecord
      /\ o.refused + Negotiation(o) <= o.settled /\ Disclosures(o) <= PermissionLimit
      /\ (~d.candidate.held => o.asked = 0 /\ o.granted = 0 /\ ~o.approved)
      /\ (p \in d.candidate.rests => o.active > 0) /\ o.asked > 0
  BY DEF Sound, DecisionRecord
<1>2. AfterDecide(d, p, allow) = e
  BY DEF AfterDecide
<1> HIDE DEF o
<1>3. /\ n \in OwnerRecord
      /\ n.refused = o.refused /\ Negotiation(n) = Negotiation(o) /\ n.settled = o.settled
      /\ Disclosures(n) = Disclosures(o)
      /\ CurrentRecords(n) = CurrentRecords(o) + 1
      /\ n.pending = o.pending /\ n.asked = o.asked - 1 /\ n.active = o.active
      /\ n.granted >= o.granted /\ n.granted <= o.granted + 1
      /\ n.approved = o.approved
  BY <1>1, RequestDecided
<1> HIDE DEF n
<1>4. /\ e \in DecisionRecord /\ e.owner[p] = n
      /\ \A q \in Participant \ {p} : e.owner[q] = d.owner[q]
      /\ e.retired = d.retired /\ e.candidate = d.candidate /\ e.status = d.status
      /\ e.superseded = d.superseded /\ e.agreements = d.agreements
      /\ e.roster = d.roster /\ e.frame = d.frame /\ e.ready = d.ready
  BY <1>1, <1>3, OwnerChanges
<1> HIDE DEF e
<1>5. d.candidate.held
  BY <1>1 DEF OwnerRecord
<1>6. Sound(e)
  <2>1. /\ e.owner[p].refused + Negotiation(e.owner[p]) <= e.owner[p].settled
        /\ Disclosures(e.owner[p]) <= PermissionLimit
        /\ p \in d.candidate.rests => e.owner[p].active > 0
    BY <1>1, <1>3, <1>4
  <2> QED
    BY <1>4, <1>5, <2>1, OneOwnerSound
<1>7. \A q \in Participant : /\ e.owner[q].pending = d.owner[q].pending
                             /\ e.owner[q].settled = d.owner[q].settled
  <2>1. ASSUME NEW q \in Participant
        PROVE  e.owner[q].pending = d.owner[q].pending /\ e.owner[q].settled = d.owner[q].settled
    BY <1>3, <1>4 DEF o
  <2> QED BY <2>1
<1>8. /\ AskedOf(e, p) = AskedOf(d, p) - 1 /\ InForce(e, p) <= InForce(d, p) + 1
      /\ CurrentRecords(e.owner[p]) = CurrentRecords(d.owner[p]) + 1
      /\ e.owner[p].approved = d.owner[p].approved
  <2>1. n.pending + n.asked = o.pending + o.asked - 1 /\ n.active + n.granted <= o.active + o.granted + 1
    BY <1>1, <1>3 DEF OwnerRecord
  <2>2. /\ AskedOf(e, p) = n.pending + n.asked /\ InForce(e, p) = n.active + n.granted
        /\ AskedOf(d, p) = o.pending + o.asked /\ InForce(d, p) = o.active + o.granted
    BY <1>4 DEF AskedOf, InForce, o
  <2>3. CurrentRecords(e.owner[p]) = CurrentRecords(d.owner[p]) + 1
    BY <1>3, <1>4 DEF o
  <2>4. e.owner[p].approved = d.owner[p].approved
    BY <1>3, <1>4, Zenon DEF o
  <2>5. AskedOf(e, p) = AskedOf(d, p) - 1 /\ InForce(e, p) <= InForce(d, p) + 1
    BY <1>1, <1>3, <2>1, <2>2 DEF OwnerRecord
  <2> QED
    BY <2>3, <2>4, <2>5
<1>9. /\ HistoryCount(e) = HistoryCount(d) + 1 /\ PendingCount(e) = PendingCount(d) - 1
      /\ Withdrawable(e) <= Withdrawable(d) + 1 /\ Approvals(e) = Approvals(d)
  BY <1>1, <1>4, <1>8, OneMoreRecord
<1> QED
  BY <1>2, <1>4, <1>6, <1>7, <1>9

\* A question or a request is put to an owner: nothing is recorded yet.
LEMMA AskingAdds ==
    ASSUME NEW d, Sound(d), NEW p \in Participant,
           NEW e \in {[d EXCEPT !.owner[p].pending = @ + 1], [d EXCEPT !.owner[p].asked = @ + 1]},
           e.owner[p].asked # d.owner[p].asked =>
              d.candidate.held /\ Disclosures(d.owner[p]) < PermissionLimit
    PROVE  /\ Sound(e) /\ Withdrawable(e) = Withdrawable(d) /\ Approvals(e) = Approvals(d)
           /\ e.candidate = d.candidate /\ e.status = d.status
           /\ e.roster = d.roster /\ e.frame = d.frame /\ e.ready = d.ready
           /\ \A q \in Participant \ {p} : e.owner[q] = d.owner[q]
<1>1. d \in DecisionRecord /\ d.owner[p] \in OwnerRecord
      /\ d.owner[p].refused + Negotiation(d.owner[p]) <= d.owner[p].settled
      /\ Disclosures(d.owner[p]) <= PermissionLimit
      /\ (~d.candidate.held => d.owner[p].asked = 0 /\ d.owner[p].granted = 0 /\ ~d.owner[p].approved)
      /\ (p \in d.candidate.rests => d.owner[p].active > 0)
  BY DEF Sound, DecisionRecord
<1>2. CASE e = [d EXCEPT !.owner[p].pending = @ + 1]
  <2> DEFINE o == d.owner[p]
             x == o.pending + 1
             n == [o EXCEPT !.pending = x]
             f == [d EXCEPT !.owner[p] = n]
  <2>1. x \in Nat
    BY <1>1 DEF OwnerRecord
  <2>2. e = f
    BY <1>1, <1>2 DEF DecisionRecord, OwnerRecord
  <2> HIDE DEF x
  <2>3. /\ n \in OwnerRecord
        /\ n.settled = o.settled /\ n.refused = o.refused
        /\ n.active = o.active /\ n.ended = o.ended /\ n.asked = o.asked /\ n.granted = o.granted
        /\ n.closed = o.closed /\ n.approved = o.approved
    BY <1>1, <2>1 DEF OwnerRecord
  <2> HIDE DEF n
  <2>4. /\ f \in DecisionRecord /\ f.owner[p] = n
        /\ \A q \in Participant \ {p} : f.owner[q] = d.owner[q]
        /\ f.candidate = d.candidate /\ f.status = d.status
        /\ f.roster = d.roster /\ f.frame = d.frame /\ f.ready = d.ready
    BY <1>1, <2>3, OwnerChanges
  <2> HIDE DEF f
  <2>5. /\ f.owner[p].refused + Negotiation(f.owner[p]) <= f.owner[p].settled
        /\ Disclosures(f.owner[p]) <= PermissionLimit
        /\ (~d.candidate.held => f.owner[p].asked = 0 /\ f.owner[p].granted = 0 /\ ~f.owner[p].approved)
        /\ (p \in d.candidate.rests => f.owner[p].active > 0)
    BY <1>1, <2>3, <2>4 DEF Negotiation, Disclosures
  <2>6. Sound(f)
    BY <2>4, <2>5, OneOwnerSound
  <2>7. \A q \in Participant : /\ InForce(f, q) = InForce(d, q)
                               /\ f.owner[q].approved = d.owner[q].approved
    BY <2>3, <2>4 DEF InForce
  <2>8. Withdrawable(f) = Withdrawable(d) /\ Approvals(f) = Approvals(d)
    BY <2>7 DEF Withdrawable, Approvals, InForce
  <2> QED
    BY <2>2, <2>4, <2>6, <2>8
<1>3. CASE e = [d EXCEPT !.owner[p].asked = @ + 1]
  <2> DEFINE o == d.owner[p]
             x == o.asked + 1
             n == [o EXCEPT !.asked = x]
             f == [d EXCEPT !.owner[p] = n]
  <2>1. x \in Nat /\ x # o.asked /\ x = o.asked + 1
    BY <1>1 DEF OwnerRecord
  <2>2. e = f
    BY <1>1, <1>3 DEF DecisionRecord, OwnerRecord
  <2> HIDE DEF x
  <2>3. /\ n \in OwnerRecord
        /\ n.settled = o.settled /\ n.refused = o.refused
        /\ n.active = o.active /\ n.ended = o.ended /\ n.asked = x /\ n.granted = o.granted
        /\ n.closed = o.closed /\ n.approved = o.approved
    BY <1>1, <2>1 DEF OwnerRecord
  <2> HIDE DEF n
  <2>4. /\ f \in DecisionRecord /\ f.owner[p] = n
        /\ \A q \in Participant \ {p} : f.owner[q] = d.owner[q]
        /\ f.candidate = d.candidate /\ f.status = d.status
        /\ f.roster = d.roster /\ f.frame = d.frame /\ f.ready = d.ready
    BY <1>1, <2>3, OwnerChanges
  <2> HIDE DEF f
  <2>5. d.candidate.held /\ Disclosures(o) < PermissionLimit
    BY <2>1, <2>2, <2>3, <2>4
  <2>6. Disclosures(n) <= PermissionLimit
    BY <1>1, <2>1, <2>3, <2>5, LimitAssumption DEF OwnerRecord, Disclosures
  <2>7. n.refused + Negotiation(n) <= n.settled
    BY <1>1, <2>3 DEF Negotiation
  <2>8. Sound(f)
    BY <1>1, <2>3, <2>4, <2>5, <2>6, <2>7, OneOwnerSound
  <2>9. \A q \in Participant : /\ InForce(f, q) = InForce(d, q)
                               /\ f.owner[q].approved = d.owner[q].approved
    BY <2>3, <2>4 DEF InForce
  <2>10. Withdrawable(f) = Withdrawable(d) /\ Approvals(f) = Approvals(d)
    BY <2>9 DEF Withdrawable, Approvals, InForce
  <2> QED
    BY <2>2, <2>4, <2>8, <2>10
<1> QED BY <1>2, <1>3

\* APPROVE_PROPOSAL
LEMMA ApproveAdds ==
    ASSUME NEW d, Sound(d), NEW p \in Participant, d.candidate.held
    PROVE  LET e == AfterApprove(d, p)
           IN  /\ Sound(e) /\ Withdrawable(e) = Withdrawable(d) /\ e.status \in Live
               /\ e.roster = d.roster /\ e.frame = d.frame /\ e.ready = d.ready
               /\ \A q \in Participant : e.owner[q].pending = d.owner[q].pending
<1> DEFINE n == [d.owner[p] EXCEPT !.approved = TRUE]
           m == [d EXCEPT !.owner[p] = n]
           s == ApprovalStatus(m)
           k == m.agreements + (IF s = "AGREED" THEN 1 ELSE 0)
           e == [m EXCEPT !.status = s, !.agreements = k]
<1>1. d \in DecisionRecord /\ d.owner[p] \in OwnerRecord
      /\ d.owner[p].refused + Negotiation(d.owner[p]) <= d.owner[p].settled
      /\ Disclosures(d.owner[p]) <= PermissionLimit
      /\ (p \in d.candidate.rests => d.owner[p].active > 0)
  BY DEF Sound, DecisionRecord
<1>2. /\ n \in OwnerRecord
      /\ n.pending = d.owner[p].pending /\ n.settled = d.owner[p].settled
      /\ n.refused = d.owner[p].refused /\ n.active = d.owner[p].active
      /\ n.ended = d.owner[p].ended /\ n.asked = d.owner[p].asked
      /\ n.granted = d.owner[p].granted /\ n.closed = d.owner[p].closed
  BY <1>1 DEF OwnerRecord
<1>3. AfterApprove(d, p) = e
  <2>1. [d EXCEPT !.owner[p].approved = TRUE] = m
    BY <1>1 DEF DecisionRecord, OwnerRecord
  <2> QED
    BY <2>1 DEF AfterApprove
<1> HIDE DEF n
<1>4. /\ m \in DecisionRecord /\ m.owner[p] = n
      /\ \A q \in Participant \ {p} : m.owner[q] = d.owner[q]
      /\ m.candidate = d.candidate
      /\ m.roster = d.roster /\ m.frame = d.frame /\ m.ready = d.ready
  BY <1>1, <1>2, OwnerChanges
<1>5. s \in Status /\ s \in Live /\ k \in Nat
  BY <1>4, ApprovalIsLive DEF Live, Status, DecisionRecord
<1> HIDE DEF m, s, k
<1>6. /\ e \in DecisionRecord /\ e.status = s /\ e.owner = m.owner /\ e.candidate = m.candidate
      /\ e.roster = m.roster /\ e.frame = m.frame /\ e.ready = m.ready
  BY <1>4, <1>5 DEF DecisionRecord
<1> HIDE DEF e
<1>7. /\ e.owner[p].refused + Negotiation(e.owner[p]) <= e.owner[p].settled
      /\ Disclosures(e.owner[p]) <= PermissionLimit
      /\ (p \in d.candidate.rests => e.owner[p].active > 0)
  BY <1>1, <1>2, <1>4, <1>6 DEF Negotiation, Disclosures
<1>8. Sound(e)
  BY <1>4, <1>6, <1>7, OneOwnerSound
<1>9. \A q \in Participant : InForce(e, q) = InForce(d, q) /\ e.owner[q].pending = d.owner[q].pending
  BY <1>2, <1>4, <1>6 DEF InForce
<1>10. Withdrawable(e) = Withdrawable(d)
  BY <1>9 DEF Withdrawable, InForce
<1> QED
  BY <1>3, <1>4, <1>5, <1>6, <1>8, <1>9, <1>10

\* retireOwnerPermissions: whatever was recorded is now in the retired history.
LEMMA CopyShape ==
    ASSUME NEW d \in DecisionRecord
    PROVE  LET e == AfterCopyToRetired(d)
           IN  /\ e \in DecisionRecord /\ e.owner = d.owner
               /\ e.roster = d.roster /\ e.frame = d.frame /\ e.ready = d.ready
               /\ e.candidate = d.candidate
               /\ e.superseded = d.superseded /\ e.agreements = d.agreements
               /\ \A p \in Participant :
                     RetiredRecords(e.retired[p])
                        = RetiredRecords(d.retired[p]) + CurrentRecords(d.owner[p])
<1> DEFINE H(p) == [refused     |-> d.retired[p].refused + d.owner[p].refused,
                    negotiation |-> d.retired[p].negotiation + Negotiation(d.owner[p]),
                    disclosure  |-> d.retired[p].disclosure + d.owner[p].granted + d.owner[p].closed]
           retired == [p \in Participant |-> H(p)]
           e == [d EXCEPT !.retired = retired]
<1>1. AfterCopyToRetired(d) = e
  BY DEF AfterCopyToRetired
<1>2. ASSUME NEW p \in Participant
      PROVE  /\ H(p) \in HistoryRecord
             /\ RetiredRecords(H(p)) = RetiredRecords(d.retired[p]) + CurrentRecords(d.owner[p])
  <2> DEFINE o == d.owner[p]
             h == d.retired[p]
             k == Negotiation(o)
  <2>1. o \in OwnerRecord /\ h \in HistoryRecord
    BY DEF DecisionRecord
  <2>2. /\ o.refused \in Nat /\ o.granted \in Nat /\ o.closed \in Nat /\ k \in Nat
        /\ h.refused \in Nat /\ h.negotiation \in Nat /\ h.disclosure \in Nat
    BY <2>1 DEF OwnerRecord, HistoryRecord, Negotiation
  <2>3. /\ CurrentRecords(o) = o.refused + k + o.granted + o.closed
        /\ RetiredRecords(h) = h.refused + h.negotiation + h.disclosure
        /\ RetiredRecords(H(p)) = (h.refused + o.refused) + (h.negotiation + k)
                                     + (h.disclosure + o.granted + o.closed)
    BY DEF CurrentRecords, RetiredRecords
  <2>4. H(p) = [refused |-> h.refused + o.refused, negotiation |-> h.negotiation + k,
                disclosure |-> h.disclosure + o.granted + o.closed]
    OBVIOUS
  <2> HIDE DEF H, o, h, k
  <2>5. H(p) \in HistoryRecord
    BY <2>2, <2>4 DEF HistoryRecord
  <2>6. RetiredRecords(H(p)) = RetiredRecords(h) + CurrentRecords(o)
    BY <2>2, <2>3
  <2> QED
    BY <2>5, <2>6 DEF h, o
<1> HIDE DEF H
<1>3. retired \in [Participant -> HistoryRecord]
  BY <1>2
<1>4. \A p \in Participant : RetiredRecords(retired[p])
                                = RetiredRecords(d.retired[p]) + CurrentRecords(d.owner[p])
  BY <1>2
<1> HIDE DEF retired
<1>5. /\ e \in DecisionRecord /\ e.owner = d.owner /\ e.retired = retired
      /\ e.roster = d.roster /\ e.frame = d.frame /\ e.ready = d.ready
      /\ e.candidate = d.candidate
      /\ e.superseded = d.superseded /\ e.agreements = d.agreements
  BY <1>3 DEF DecisionRecord
<1> QED
  BY <1>1, <1>4, <1>5

LEMMA EmptyOwnerShape ==
    /\ EmptyOwner \in OwnerRecord
    /\ EmptyOwner.pending = 0 /\ EmptyOwner.settled = 0 /\ EmptyOwner.refused = 0
    /\ EmptyOwner.active = 0 /\ EmptyOwner.ended = 0 /\ EmptyOwner.asked = 0
    /\ EmptyOwner.granted = 0 /\ EmptyOwner.closed = 0 /\ EmptyOwner.approved = FALSE
BY DEF EmptyOwner, OwnerRecord

\* What CONFIRM_PRIVATE_ANSWERS keeps of an owner: the refusals
LEMMA RefusalsStay ==
    ASSUME NEW x \in Nat
    PROVE  LET n == [EmptyOwner EXCEPT !.refused = x]
           IN  /\ n \in OwnerRecord
               /\ n.pending = 0 /\ n.settled = 0 /\ n.refused = x
               /\ n.active = 0 /\ n.ended = 0 /\ n.asked = 0
               /\ n.granted = 0 /\ n.closed = 0 /\ n.approved = FALSE
BY EmptyOwnerShape DEF OwnerRecord

\* The records in force move to the retired history; refusals may stay, and are
\* then counted twice.
LEMMA Cleared ==
    ASSUME NEW d, Sound(d), NEW e \in DecisionRecord, e.candidate = NoCandidate,
           \A p \in Participant :
              LET n == e.owner[p]
              IN  /\ n.pending = 0 /\ n.settled = 0 /\ n.active = 0 /\ n.ended = 0
                  /\ n.asked = 0 /\ n.granted = 0 /\ n.closed = 0 /\ n.approved = FALSE
                  /\ RetiredRecords(e.retired[p])
                        = RetiredRecords(d.retired[p]) + CurrentRecords(d.owner[p])
    PROVE  /\ PendingCount(e) <= PendingCount(d)
           /\ Withdrawable(e) <= Withdrawable(d) /\ Approvals(e) <= Approvals(d)
           /\ (\A p \in Participant : e.owner[p].refused = 0)
                 => Sound(e) /\ HistoryCount(e) = HistoryCount(d)
           /\ HistoryCount(e) = HistoryCount(d)
                 => \A p \in Participant : e.owner[p].refused = 0
<1>1. d \in DecisionRecord
  BY DEF Sound
<1>2. ASSUME NEW p \in Participant
      PROVE  /\ e.owner[p] \in OwnerRecord /\ d.owner[p] \in OwnerRecord
             /\ d.retired[p] \in HistoryRecord /\ e.owner[p].refused \in Nat
             /\ RecordsOf(d, p) \in Nat
             /\ RecordsOf(e, p) = RecordsOf(d, p) + e.owner[p].refused
             /\ AskedOf(e, p) <= AskedOf(d, p) /\ InForce(e, p) <= InForce(d, p)
  <2> DEFINE n == e.owner[p]
             o == d.owner[p]
             h == d.retired[p]
             c == CurrentRecords(o)
             t == RetiredRecords(h)
  <2>1. n \in OwnerRecord /\ o \in OwnerRecord /\ h \in HistoryRecord
    BY <1>1 DEF DecisionRecord
  <2>2. c \in Nat /\ t \in Nat /\ n.refused \in Nat
    BY <2>1 DEF OwnerRecord, HistoryRecord, CurrentRecords, RetiredRecords, Negotiation
  <2>3. CurrentRecords(n) = n.refused
    BY <2>2 DEF CurrentRecords, Negotiation
  <2>4. RecordsOf(e, p) = n.refused + (t + c) /\ RecordsOf(d, p) = c + t
    BY <2>3 DEF RecordsOf
  <2>5. AskedOf(e, p) = 0 /\ InForce(e, p) = 0
    BY DEF AskedOf, InForce
  <2>6. AskedOf(d, p) \in Nat /\ InForce(d, p) \in Nat
    BY <1>1, CountsAreNat DEF Count
  <2> HIDE DEF n, o, h, c, t
  <2>7. /\ RecordsOf(d, p) \in Nat /\ RecordsOf(e, p) = RecordsOf(d, p) + n.refused
        /\ AskedOf(e, p) <= AskedOf(d, p) /\ InForce(e, p) <= InForce(d, p)
    BY <2>2, <2>4, <2>5, <2>6
  <2> QED
    BY <2>1, <2>2, <2>7 DEF n, o, h
<1>3. /\ PendingCount(e) <= PendingCount(d)
      /\ Withdrawable(e) <= Withdrawable(d) /\ Approvals(e) <= Approvals(d)
  <2>1. \A p \in Participant : e.owner[p].approved => d.owner[p].approved
    OBVIOUS
  <2> QED
    BY <1>1, <1>2, <2>1, CountsFollowOwners
<1>4. ASSUME \A p \in Participant : e.owner[p].refused = 0
      PROVE  Sound(e) /\ HistoryCount(e) = HistoryCount(d)
  <2>1. \A p \in Participant : RecordsOf(e, p) = RecordsOf(d, p)
    BY <1>2, <1>4
  <2>2. HistoryCount(e) = HistoryCount(d)
    BY <1>1, <2>1, CountsFollowOwners
  <2>3. ASSUME NEW p \in Participant
        PROVE  /\ e.owner[p].refused + Negotiation(e.owner[p]) <= e.owner[p].settled
               /\ Disclosures(e.owner[p]) <= PermissionLimit
               /\ e.owner[p].asked = 0 /\ e.owner[p].granted = 0 /\ ~e.owner[p].approved
               /\ p \notin e.candidate.rests
    BY <1>4, LimitAssumption DEF Negotiation, Disclosures, NoCandidate
  <2>4. Sound(e)
    BY <2>3 DEF Sound
  <2> QED
    BY <2>2, <2>4
<1>5. ASSUME HistoryCount(e) = HistoryCount(d), NEW p \in Participant, e.owner[p].refused # 0
      PROVE  FALSE
  <2> DEFINE m == [q \in Participant |-> RecordsOf(d, q)]
             n == [q \in Participant |-> RecordsOf(e, q)]
  <2>1. m \in Count /\ n \in Count
    BY <1>1, CountsAreNat
  <2>2. \A q \in Participant : RecordsOf(d, q) <= RecordsOf(e, q)
    BY <1>2
  <2>3. RecordsOf(d, p) < RecordsOf(e, p)
    BY <1>2, <1>5
  <2>4. m[p] < n[p] /\ \A q \in Participant : m[q] <= n[q]
    BY <2>2, <2>3
  <2>5. HistoryCount(d) = CountAll(m) /\ HistoryCount(e) = CountAll(n)
    BY DEF HistoryCount, RecordsOf
  <2> HIDE DEF m, n
  <2>6. CountAll(m) < CountAll(n)
    BY <2>1, <2>4, TotalIsStrict
  <2>7. CountAll(m) \in Nat /\ CountAll(n) \in Nat
    BY <2>1, TotalIsNat
  <2> QED
    BY <1>5, <2>5, <2>6, <2>7
<1> QED
  BY <1>3, <1>4, <1>5

\* The decision with everything of its owners retired, before they are cleared
LEMMA RetiredShape ==
    ASSUME NEW d, Sound(d)
    PROVE  LET c == AfterCopyToRetired(AfterRetire(d))
           IN  /\ c \in DecisionRecord /\ c.candidate = NoCandidate
               /\ c.roster = d.roster /\ c.frame = d.frame /\ c.ready = d.ready
               /\ c.agreements = d.agreements
               /\ d.superseded <= ArchiveLimit => c.superseded <= ArchiveLimit
               /\ \A p \in Participant :
                     /\ c.owner[p].refused = d.owner[p].refused
                     /\ RetiredRecords(c.retired[p])
                           = RetiredRecords(d.retired[p]) + CurrentRecords(d.owner[p])
<1> DEFINE r == AfterRetire(d)
           c == AfterCopyToRetired(r)
<1>1. d \in DecisionRecord
  BY DEF Sound
<1>2. /\ r \in DecisionRecord /\ r.retired = d.retired /\ r.candidate = NoCandidate
      /\ r.roster = d.roster /\ r.frame = d.frame /\ r.ready = d.ready
      /\ r.agreements = d.agreements
      /\ d.superseded <= ArchiveLimit => r.superseded <= ArchiveLimit
      /\ \A p \in Participant : OwnerKeeps(d.owner[p], r.owner[p])
  BY RetireShape DEF Sound
<1> HIDE DEF r
<1>3. /\ c \in DecisionRecord /\ c.owner = r.owner
      /\ c.roster = r.roster /\ c.frame = r.frame /\ c.ready = r.ready
      /\ c.candidate = r.candidate
      /\ c.superseded = r.superseded /\ c.agreements = r.agreements
      /\ \A p \in Participant :
            RetiredRecords(c.retired[p]) = RetiredRecords(r.retired[p]) + CurrentRecords(r.owner[p])
  BY <1>2, CopyShape
<1> HIDE DEF c
<1>4. ASSUME NEW p \in Participant
      PROVE  /\ c.owner[p].refused = d.owner[p].refused
             /\ RetiredRecords(c.retired[p]) = RetiredRecords(d.retired[p]) + CurrentRecords(d.owner[p])
  <2> DEFINE o == d.owner[p]
             n == r.owner[p]
  <2>1. o \in OwnerRecord /\ n \in OwnerRecord /\ OwnerKeeps(o, n)
    BY <1>1, <1>2 DEF DecisionRecord
  <2> HIDE DEF o, n
  <2>2. CurrentRecords(n) = CurrentRecords(o) /\ n.refused = o.refused
    BY <2>1 DEF OwnerKeeps, OwnerRecord, CurrentRecords, Negotiation
  <2>3. /\ c.owner[p].refused = n.refused
        /\ RetiredRecords(c.retired[p]) = RetiredRecords(d.retired[p]) + CurrentRecords(n)
    BY <1>2, <1>3 DEF n
  <2> QED
    BY <2>2, <2>3 DEF o
<1> QED
  BY <1>2, <1>3, <1>4 DEF r, c

\* CONFIRM_PRIVATE_ANSWERS
LEMMA SaveShape ==
    ASSUME NEW d, Sound(d), NEW p \in Participant
    PROVE  LET e == AfterSave(d, p)
           IN  /\ e \in DecisionRecord /\ ~e.candidate.held /\ e.status \notin Live
               /\ e.status \notin {"REASONING", "PRIVATE_NEGOTIATION"}
               /\ e.agreements = d.agreements
               /\ d.superseded <= ArchiveLimit => e.superseded <= ArchiveLimit
               /\ \A q \in Participant : /\ e.owner[q].pending = 0 /\ e.owner[q].settled = 0
                                         /\ e.owner[q].refused = d.owner[q].refused
               /\ PendingCount(e) <= PendingCount(d)
               /\ Withdrawable(e) <= Withdrawable(d) /\ Approvals(e) <= Approvals(d)
               /\ (\A q \in Participant : e.owner[q].refused = 0)
                     => Sound(e) /\ HistoryCount(e) = HistoryCount(d)
               /\ HistoryCount(e) = HistoryCount(d)
                     => \A q \in Participant : e.owner[q].refused = 0
<1> DEFINE c == AfterCopyToRetired(AfterRetire(d))
           owner == [q \in Participant |-> [EmptyOwner EXCEPT !.refused = c.owner[q].refused]]
           m == [c EXCEPT !.owner = owner, !.frame = @ \union {p}, !.ready = @ \union {p}]
           s == ReadinessStatus(m)
           e == [m EXCEPT !.status = s]
<1>1. /\ c \in DecisionRecord /\ c.candidate = NoCandidate
      /\ c.agreements = d.agreements
      /\ d.superseded <= ArchiveLimit => c.superseded <= ArchiveLimit
      /\ \A q \in Participant :
            /\ c.owner[q].refused = d.owner[q].refused
            /\ RetiredRecords(c.retired[q]) = RetiredRecords(d.retired[q]) + CurrentRecords(d.owner[q])
  BY RetiredShape
<1> HIDE DEF c
<1>2. AfterSave(d, p) = e
  BY <1>1 DEF AfterSave, ForEachOwner, c, DecisionRecord
<1>3. ASSUME NEW q \in Participant
      PROVE  LET n == owner[q]
             IN  /\ n \in OwnerRecord
                 /\ n.pending = 0 /\ n.settled = 0 /\ n.refused = d.owner[q].refused
                 /\ n.active = 0 /\ n.ended = 0 /\ n.asked = 0
                 /\ n.granted = 0 /\ n.closed = 0 /\ n.approved = FALSE
  <2> DEFINE x == c.owner[q].refused
  <2>1. x \in Nat /\ x = d.owner[q].refused
    BY <1>1 DEF DecisionRecord, OwnerRecord
  <2>2. owner[q] = [EmptyOwner EXCEPT !.refused = x]
    OBVIOUS
  <2> DEFINE k == [EmptyOwner EXCEPT !.refused = x]
  <2> HIDE DEF x
  <2>3. /\ k \in OwnerRecord
        /\ k.pending = 0 /\ k.settled = 0 /\ k.refused = x
        /\ k.active = 0 /\ k.ended = 0 /\ k.asked = 0
        /\ k.granted = 0 /\ k.closed = 0 /\ k.approved = FALSE
    BY <2>1, RefusalsStay
  <2> HIDE DEF k, owner
  <2>4. owner[q] = k
    BY <2>2 DEF k
  <2> QED
    BY <2>1, <2>3, <2>4
<1>4. owner \in [Participant -> OwnerRecord]
  BY <1>3
<1> HIDE DEF owner
<1>5. m \in DecisionRecord
  BY <1>1, <1>4 DEF DecisionRecord
<1>6. /\ m.owner = owner /\ m.candidate = c.candidate /\ m.retired = c.retired
      /\ m.superseded = c.superseded /\ m.agreements = c.agreements
  BY <1>1 DEF DecisionRecord
<1>7. s \in Status \ Live /\ s \notin {"REASONING", "PRIVATE_NEGOTIATION"}
  BY ReadinessIsNotLive DEF ReadinessStatus
<1> HIDE DEF m, s
<1>8. /\ e \in DecisionRecord /\ e.status = s /\ e.owner = m.owner
      /\ e.retired = m.retired /\ e.candidate = m.candidate
      /\ e.superseded = m.superseded /\ e.agreements = m.agreements
  BY <1>5, <1>7, StatusChanges
<1> HIDE DEF e
<1>9. \A q \in Participant :
         LET n == e.owner[q]
         IN  /\ n.pending = 0 /\ n.settled = 0 /\ n.active = 0 /\ n.ended = 0
             /\ n.asked = 0 /\ n.granted = 0 /\ n.closed = 0 /\ n.approved = FALSE
             /\ RetiredRecords(e.retired[q]) = RetiredRecords(d.retired[q]) + CurrentRecords(d.owner[q])
  <2>1. ASSUME NEW q \in Participant
        PROVE  LET n == e.owner[q]
               IN  /\ n.pending = 0 /\ n.settled = 0 /\ n.active = 0 /\ n.ended = 0
                   /\ n.asked = 0 /\ n.granted = 0 /\ n.closed = 0 /\ n.approved = FALSE
    BY <1>3, <1>6, <1>8
  <2>2. e.retired = c.retired
    BY <1>6, <1>8
  <2> QED
    BY <1>1, <2>1, <2>2
<1>10. e.candidate = NoCandidate
  BY <1>1, <1>6, <1>8
<1>11. /\ PendingCount(e) <= PendingCount(d)
       /\ Withdrawable(e) <= Withdrawable(d) /\ Approvals(e) <= Approvals(d)
       /\ (\A q \in Participant : e.owner[q].refused = 0)
             => Sound(e) /\ HistoryCount(e) = HistoryCount(d)
       /\ HistoryCount(e) = HistoryCount(d)
             => \A q \in Participant : e.owner[q].refused = 0
  BY <1>8, <1>9, <1>10, Cleared
<1>12. \A q \in Participant : e.owner[q].refused = d.owner[q].refused
  BY <1>3, <1>6, <1>8
<1> QED
  BY <1>1, <1>2, <1>6, <1>7, <1>8, <1>9, <1>10, <1>11, <1>12 DEF NoCandidate

\* invalidateConfirmedContext, reviseDecision
LEMMA NewContextShape ==
    ASSUME NEW d, Sound(d)
    PROVE  LET e == AfterNewContext(d)
           IN  /\ e \in DecisionRecord /\ ~e.candidate.held
               /\ e.status = "COLLECTING_FRAME_CONFIRMATION"
               /\ \A q \in Participant : e.owner[q].pending = 0
               /\ Sound(e) /\ HistoryCount(e) = HistoryCount(d)
               /\ Withdrawable(e) <= Withdrawable(d) /\ Approvals(e) <= Approvals(d)
<1> DEFINE c == AfterCopyToRetired(AfterRetire(d))
           owner == [q \in Participant |-> EmptyOwner]
           e == [c EXCEPT !.owner = owner, !.frame = {}, !.ready = {},
                          !.status = "COLLECTING_FRAME_CONFIRMATION"]
<1>1. /\ c \in DecisionRecord /\ c.candidate = NoCandidate
      /\ \A q \in Participant :
            RetiredRecords(c.retired[q]) = RetiredRecords(d.retired[q]) + CurrentRecords(d.owner[q])
  BY RetiredShape
<1> HIDE DEF c
<1>2. AfterNewContext(d) = e
  BY <1>1 DEF AfterNewContext, ForEachOwner, c, DecisionRecord
<1>3. owner \in [Participant -> OwnerRecord] /\ \A q \in Participant : owner[q] = EmptyOwner
  BY EmptyOwnerShape
<1> HIDE DEF owner
<1>4. "COLLECTING_FRAME_CONFIRMATION" \in Status
  BY DEF Status
<1>5. /\ e \in DecisionRecord /\ e.status = "COLLECTING_FRAME_CONFIRMATION" /\ e.owner = owner
      /\ e.retired = c.retired /\ e.candidate = c.candidate
  BY <1>1, <1>3, <1>4 DEF DecisionRecord
<1> HIDE DEF e
<1>6. \A q \in Participant :
         LET n == e.owner[q]
         IN  /\ n.pending = 0 /\ n.settled = 0 /\ n.active = 0 /\ n.ended = 0
             /\ n.asked = 0 /\ n.granted = 0 /\ n.closed = 0 /\ n.approved = FALSE
             /\ RetiredRecords(e.retired[q]) = RetiredRecords(d.retired[q]) + CurrentRecords(d.owner[q])
  BY <1>1, <1>3, <1>5, EmptyOwnerShape
<1>7. \A q \in Participant : e.owner[q].refused = 0
  BY <1>3, <1>5, EmptyOwnerShape
<1>8. e.candidate = NoCandidate
  BY <1>1, <1>5
<1>9. /\ Withdrawable(e) <= Withdrawable(d) /\ Approvals(e) <= Approvals(d)
      /\ Sound(e) /\ HistoryCount(e) = HistoryCount(d)
  BY <1>5, <1>6, <1>7, <1>8, Cleared
<1> QED
  BY <1>2, <1>5, <1>6, <1>8, <1>9 DEF NoCandidate

-----------------------------------------------------------------------------
(* The account of the guard *)

\* What the invariant says in numbers
LEMMA Account ==
    ASSUME LedgerInv
    PROVE  /\ decision \in DecisionRecord /\ guard \in GuardRecord
           /\ OwnersFit(decision)
           /\ decision.superseded <= ArchiveLimit /\ decision.agreements <= ArchiveLimit
           /\ (decision.status \in Live <=> decision.candidate.held)
           /\ guard.permission = HistoryCount(decision)
           /\ HistoryCount(decision) + PendingCount(decision) <= HistoryLimit
           /\ Withdrawable(decision) <= HistoryCount(decision)
           /\ HistoryCount(decision) \in Nat /\ PendingCount(decision) \in Nat
           /\ Withdrawable(decision) \in Nat /\ Approvals(decision) \in Nat
           /\ Approvals(decision) <= Cardinality(Participant) /\ Cardinality(Participant) \in Nat
<1>1. decision \in DecisionRecord
  BY DEF LedgerInv, Sound
<1> QED
  BY <1>1, FitsMeansLimits, CountsAreNat, InForceIsRecorded DEF LedgerInv

\* A step without a receipt takes nothing from the reserve.
LEMMA StepKeepsInv ==
    ASSUME LedgerInv, NEW e, Step(e), Sound(e), QuestionsWait(e),
           Withdrawable(e) <= Withdrawable(decision), Approvals(e) <= Approvals(decision)
    PROVE  LedgerInv'
<1>1. decision' = e /\ guard' = guard /\ Fits(e, guard.permission)
  BY DEF Step, AdmitsStep
<1>2. e \in DecisionRecord
  BY DEF Sound
<1>3. ReserveLasts(e, guard)
  <2>1. /\ Withdrawable(e) \in Nat /\ Approvals(e) \in Nat
    BY <1>2, CountsAreNat
  <2>2. /\ guard.safety \in Nat /\ guard.permission \in Nat
        /\ guard.safety + Withdrawable(decision) + Approvals(decision)
              <= guard.permission + Cardinality(Participant)
        /\ guard.total <= guard.ordinary + guard.permission + guard.safety
        /\ guard.ordinary < OrdinaryLimit => guard.safety = 0
    BY Account DEF LedgerInv, ReserveLasts, GuardRecord
  <2>3. guard.safety + Withdrawable(e) + Approvals(e) <= guard.permission + Cardinality(Participant)
    BY <2>1, <2>2, Account
  <2> QED
    BY <2>2, <2>3 DEF ReserveLasts
<1> QED
  BY <1>1, <1>3 DEF LedgerInv

\* A command with a receipt: an answer pays with its own record, a withdrawal
\* with what it takes back, anything else with an ordinary receipt.
LEMMA ExecuteKeepsInv ==
    ASSUME LedgerInv, NEW p, NEW type, NEW e, Execute(p, type, e), Sound(e), QuestionsWait(e),
           type \in PermissionCommand =>
              /\ Withdrawable(e) <= Withdrawable(decision) + 1
              /\ Approvals(e) <= Approvals(decision),
           type \in SafetyCommand =>
              Withdrawable(e) + Approvals(e) < Withdrawable(decision) + Approvals(decision)
    PROVE  LedgerInv'
<1> DEFINE delta == HistoryCount(e) - HistoryCount(decision)
           spare == guard.ordinary < OrdinaryLimit
           W == Withdrawable(decision)
           A == Approvals(decision)
           P == Cardinality(Participant)
<1>1. decision' = e /\ guard' = Charged(type, delta) /\ Admits(decision, e, type)
  BY DEF Execute
<1>2. e \in DecisionRecord
  BY DEF Sound
<1>3. /\ delta \in {0, 1} /\ Fits(e, guard.permission + delta)
      /\ ~spare => \/ Reserve(type, delta) = "permission"
                   \/ Reserve(type, delta) = "safety"
  BY <1>1 DEF Admits
<1>4. /\ guard.permission + delta = HistoryCount(e)
      /\ HistoryCount(e) + PendingCount(e) <= HistoryLimit
      /\ Withdrawable(e) <= HistoryCount(e) /\ Approvals(e) <= P
      /\ HistoryCount(e) \in Nat /\ PendingCount(e) \in Nat
      /\ Withdrawable(e) \in Nat /\ Approvals(e) \in Nat /\ P \in Nat
  BY <1>2, <1>3, FitsMeansLimits, CountsAreNat, InForceIsRecorded
<1>5. /\ guard.ordinary \in 0..OrdinaryLimit /\ guard.permission \in Nat
      /\ guard.safety \in Nat /\ guard.total \in Nat
      /\ guard.total <= guard.ordinary + guard.permission + guard.safety
      /\ spare => guard.safety = 0
      /\ guard.safety + W + A <= guard.permission + P
      /\ W \in Nat /\ A \in Nat
  BY Account DEF LedgerInv, ReserveLasts, GuardRecord
<1>6. Reserve(type, delta) = "safety" => type \in SafetyCommand
  BY DEF Reserve
<1>7. Reserve(type, delta) = "permission" => type \in PermissionCommand /\ delta = 1
  BY DEF Reserve
<1> DEFINE g == Charged(type, delta)
           drawn == IF ~spare /\ Reserve(type, delta) = "safety" THEN 1 ELSE 0
           one == IF spare THEN 1 ELSE 0
<1>8. /\ g.ordinary = guard.ordinary + one /\ g.permission = guard.permission + delta
      /\ g.safety = guard.safety + drawn /\ g.total = guard.total + 1
      /\ g = [ordinary |-> guard.ordinary + one, permission |-> guard.permission + delta,
              safety |-> guard.safety + drawn, total |-> guard.total + 1]
  BY DEF Charged
<1>9. drawn \in {0, 1} /\ one \in {0, 1} /\ (spare => one = 1 /\ drawn = 0) /\ (~spare => one = 0)
  OBVIOUS
<1>10. ~spare /\ drawn = 0 => Reserve(type, delta) = "permission"
  BY <1>3
<1>11. ~spare /\ drawn = 1 => Reserve(type, delta) = "safety"
  OBVIOUS
<1> HIDE DEF delta, drawn, one, g, W, A, P
<1>12. CASE spare
  <2>4. one = 1 /\ drawn = 0 /\ guard.safety = 0 /\ guard.ordinary < OrdinaryLimit
    BY <1>5, <1>9, <1>12
  <2>5. /\ g.ordinary = guard.ordinary + 1 /\ g.permission = guard.permission + delta
        /\ g.safety = 0 /\ g.total = guard.total + 1 /\ delta \in {0, 1}
    BY <1>3, <1>8, <2>4
  <2>6. g.permission = HistoryCount(e)
    BY <1>4, <2>5
  <2>1. /\ g.ordinary \in 0..OrdinaryLimit /\ g.permission \in Nat
        /\ g.safety = 0 /\ g.total \in Nat
        /\ g.total <= g.ordinary + g.permission + g.safety
        /\ g.permission = HistoryCount(e)
    BY <1>4, <1>5, <2>4, <2>5, <2>6, LimitAssumption
  <2>2. g.safety + Withdrawable(e) + Approvals(e) <= g.permission + P
    BY <1>4, <2>1
  <2>3. g \in GuardRecord
    BY <2>1, <1>8 DEF GuardRecord
  <2> QED
    BY <1>1, <1>3, <1>8, <2>1, <2>2, <2>3 DEF LedgerInv, ReserveLasts, P, g
<1>13. CASE ~spare /\ drawn = 0
  <2>1. type \in PermissionCommand /\ delta = 1
    BY <1>7, <1>10, <1>13
  <2>2. Withdrawable(e) <= W + 1 /\ Approvals(e) <= A
    BY <2>1 DEF W, A
  <2>3. /\ g.ordinary = guard.ordinary /\ g.permission = guard.permission + 1
        /\ g.safety = guard.safety /\ g.total = guard.total + 1
        /\ guard.ordinary = OrdinaryLimit
    BY <1>5, <1>8, <1>9, <1>13, <2>1, LimitAssumption
  <2>4. /\ g.total <= g.ordinary + g.permission + g.safety
        /\ g.safety + Withdrawable(e) + Approvals(e) <= g.permission + P
        /\ ~(g.ordinary < OrdinaryLimit)
    BY <1>4, <1>5, <2>2, <2>3, LimitAssumption
  <2>5. g \in GuardRecord
    BY <1>5, <1>8, <2>3 DEF GuardRecord
  <2> QED
    BY <1>1, <1>3, <1>8, <2>4, <2>5 DEF LedgerInv, ReserveLasts, P, g
<1>14. CASE ~spare /\ drawn = 1
  <2>1. type \in SafetyCommand
    BY <1>6, <1>11, <1>14
  <2>2. Withdrawable(e) + Approvals(e) < W + A
    BY <2>1 DEF W, A
  <2>3. /\ g.ordinary = guard.ordinary /\ g.permission = guard.permission + delta
        /\ g.safety = guard.safety + 1 /\ g.total = guard.total + 1
        /\ guard.ordinary = OrdinaryLimit
    BY <1>5, <1>8, <1>9, <1>14, LimitAssumption
  <2>4. /\ g.total <= g.ordinary + g.permission + g.safety
        /\ g.safety + Withdrawable(e) + Approvals(e) <= g.permission + P
        /\ ~(g.ordinary < OrdinaryLimit)
    BY <1>3, <1>4, <1>5, <2>2, <2>3, LimitAssumption
  <2>5. g \in GuardRecord
    BY <1>3, <1>5, <1>8, <2>3 DEF GuardRecord
  <2> QED
    BY <1>1, <1>3, <1>8, <2>4, <2>5 DEF LedgerInv, ReserveLasts, P, g
<1> QED
  BY <1>9, <1>12, <1>13, <1>14

\* A rejected command is an ordinary receipt.
LEMMA RejectKeepsInv ==
    ASSUME LedgerInv, NEW p \in Participant, Reject(p)
    PROVE  LedgerInv'
<1>1. decision' = decision /\ guard' = Charged("REJECTED", 0) /\ guard.ordinary < OrdinaryLimit
  BY DEF Reject
<1>2. guard' = [ordinary |-> guard.ordinary + 1, permission |-> guard.permission + 0,
                safety |-> guard.safety + 0, total |-> guard.total + 1]
  BY <1>1 DEF Charged
<1>3. /\ guard.ordinary \in 0..OrdinaryLimit /\ guard.permission \in Nat
      /\ guard.safety \in Nat /\ guard.total \in Nat
      /\ guard.total <= guard.ordinary + guard.permission + guard.safety
      /\ guard.safety = 0
      /\ guard.safety + Withdrawable(decision) + Approvals(decision)
            <= guard.permission + Cardinality(Participant)
  BY <1>1 DEF LedgerInv, ReserveLasts, GuardRecord
<1>4. /\ guard'.ordinary = guard.ordinary + 1 /\ guard'.permission = guard.permission
      /\ guard'.safety = 0 /\ guard'.total = guard.total + 1
  BY <1>2, <1>3
<1>5. guard' \in GuardRecord
  BY <1>1, <1>2, <1>3, LimitAssumption DEF GuardRecord
<1>6. ReserveLasts(decision, guard')
  BY <1>3, <1>4 DEF ReserveLasts
<1> QED
  BY <1>1, <1>4, <1>5, <1>6 DEF LedgerInv

\* What one owner takes back is no longer there to be taken back.
LEMMA TakenBack ==
    ASSUME NEW d, Sound(d), NEW e, Keeps(d, e), NEW p \in Participant,
           \/ e.owner[p].active < d.owner[p].active
           \/ e.owner[p].granted < d.owner[p].granted
    PROVE  Withdrawable(e) + Approvals(e) < Withdrawable(d) + Approvals(d)
<1>1. d \in DecisionRecord /\ e \in DecisionRecord
  BY DEF Keeps, Sound
<1>2. ASSUME NEW q \in Participant
      PROVE  /\ e.owner[q].active \in Nat /\ d.owner[q].active \in Nat
             /\ e.owner[q].granted \in Nat /\ d.owner[q].granted \in Nat
             /\ e.owner[q].active <= d.owner[q].active
             /\ e.owner[q].granted <= d.owner[q].granted
  <2>1. d.owner[q] \in OwnerRecord /\ e.owner[q] \in OwnerRecord
        /\ OwnerKeeps(d.owner[q], e.owner[q])
    BY <1>1 DEF DecisionRecord, Keeps
  <2> QED
    BY <2>1 DEF OwnerKeeps, OwnerRecord
<1>3. \A q \in Participant : InForce(e, q) <= InForce(d, q)
  BY <1>2 DEF InForce
<1>4. InForce(e, p) < InForce(d, p)
  BY <1>2 DEF InForce
<1>5. Withdrawable(e) < Withdrawable(d)
  BY <1>1, <1>3, <1>4, LessIsWithdrawable
<1>6. /\ Approvals(e) <= Approvals(d)
      /\ Withdrawable(e) \in Nat /\ Withdrawable(d) \in Nat
      /\ Approvals(e) \in Nat /\ Approvals(d) \in Nat
  BY <1>1, KeepsTheCounts, CountsAreNat
<1> QED
  BY <1>5, <1>6

\* Nobody is asked anything while a candidate stands, or is being looked for.
LEMMA NobodyWaits ==
    ASSUME LedgerInv,
           decision.candidate.held \/ decision.status \notin {"PRIVATE_NEGOTIATION", "CLOSED"}
    PROVE  \A p \in Participant : ~(decision.owner[p].pending > 0)
BY Account DEF LedgerInv, QuestionsWait, Live

\* Fewer are asked, and the decision stays where it was.
LEMMA StillWaits ==
    ASSUME NEW d, QuestionsWait(d), Sound(d), NEW e, Keeps(d, e),
           \/ /\ e.status = d.status
              /\ e.roster = d.roster /\ e.frame = d.frame /\ e.ready = d.ready
           \/ e.status = "CLOSED"
           \/ /\ e.status \notin {"REASONING", "PRIVATE_NEGOTIATION"}
              /\ \/ \A p \in Participant : ~(d.owner[p].pending > 0)
                 \/ \A p \in Participant : ~(e.owner[p].pending > 0)
    PROVE  QuestionsWait(e)
<1>1. \A p \in Participant : e.owner[p].pending > 0 => d.owner[p].pending > 0
  <2>1. ASSUME NEW p \in Participant PROVE e.owner[p].pending > 0 => d.owner[p].pending > 0
    <3>1. d.owner[p] \in OwnerRecord /\ e.owner[p] \in OwnerRecord
          /\ OwnerKeeps(d.owner[p], e.owner[p])
      BY DEF DecisionRecord, Keeps, Sound
    <3> QED
      BY <3>1 DEF OwnerKeeps, OwnerRecord
  <2> QED BY <2>1
<1> QED
  BY <1>1 DEF QuestionsWait

-----------------------------------------------------------------------------
(* Every step keeps the account *)

LEMMA SweepKeepsInv ==
    ASSUME LedgerInv, NEW p \in Participant, Sweep(p)
    PROVE  LedgerInv'
<1> DEFINE d == decision
<1>1. Sound(d) /\ QuestionsWait(d) /\ decision.owner[p] \in OwnerRecord
  BY Account DEF LedgerInv, DecisionRecord
<1>2. ASSUME NEW e, Step(e), Keeps(d, e), QuestionsWait(e)
      PROVE  LedgerInv'
  <2>1. Sound(e)
    BY <1>2 DEF Keeps
  <2>2. Withdrawable(e) <= Withdrawable(d) /\ Approvals(e) <= Approvals(d)
    BY <1>1, <1>2, KeepsTheCounts
  <2> QED
    BY <1>2, <2>1, <2>2, StepKeepsInv
<1>3. CASE d.owner[p].pending > 0 /\ Step(AfterQuestionExpires(d, p))
  <2> DEFINE e == AfterQuestionExpires(d, p)
  <2>1. /\ Keeps(d, e) /\ e.roster = d.roster /\ e.frame = d.frame /\ e.ready = d.ready
        /\ \/ e.status = d.status
           \/ /\ e.status \notin {"REASONING", "PRIVATE_NEGOTIATION"}
              /\ \A q \in Participant : ~(e.owner[q].pending > 0)
    BY <1>1, <1>3, QuestionExpiresKeeps
  <2> HIDE DEF e, d
  <2>2. QuestionsWait(e)
    BY <1>1, <2>1, StillWaits
  <2> QED
    BY <1>2, <1>3, <2>1, <2>2 DEF e
<1>4. CASE d.owner[p].asked > 0 /\ Step(AfterRequestExpires(d, p))
  <2> DEFINE e == AfterRequestExpires(d, p)
  <2>1. /\ Keeps(d, e) /\ e.status = d.status
        /\ e.roster = d.roster /\ e.frame = d.frame /\ e.ready = d.ready
    BY <1>1, <1>4, RequestExpiresKeeps
  <2> HIDE DEF e, d
  <2>2. QuestionsWait(e)
    BY <1>1, <2>1, StillWaits
  <2> QED
    BY <1>2, <1>4, <2>1, <2>2 DEF e
<1>5. CASE d.owner[p].granted > 0 /\ Step(AfterDisclosureEnds(d, p))
  <2> DEFINE e == AfterDisclosureEnds(d, p)
  <2>1. /\ Keeps(d, e) /\ e.status = d.status
        /\ e.roster = d.roster /\ e.frame = d.frame /\ e.ready = d.ready
    BY <1>1, <1>5, DisclosureEndsKeeps
  <2> HIDE DEF e, d
  <2>2. QuestionsWait(e)
    BY <1>1, <2>1, StillWaits
  <2> QED
    BY <1>2, <1>5, <2>1, <2>2 DEF e
<1>6. CASE d.owner[p].active > 0 /\ \E used \in MayUse(p) : Step(AfterExpiry(d, p, used))
  <2>1. PICK used \in MayUse(p) : Step(AfterExpiry(d, p, used))
    BY <1>6
  <2> DEFINE e == AfterRevoke(d, p, used)
  <2>2. AfterExpiry(d, p, used) = e
    BY DEF AfterExpiry, AfterRevoke
  <2>3. /\ used \in BOOLEAN
        /\ (used => p \in d.candidate.rests)
        /\ ((p \in d.candidate.rests /\ d.owner[p].active = 1) => used)
    BY DEF MayUse
  <2>4. /\ Keeps(d, e) /\ (used => e.status = "SUPERSEDED")
        /\ ~used => /\ e.status = d.status /\ e.roster = d.roster
                    /\ e.frame = d.frame /\ e.ready = d.ready
    BY <1>1, <1>6, <2>3, LossKeeps
  <2>5. used => \A q \in Participant : ~(d.owner[q].pending > 0)
    <3>1. used => decision.candidate.held
      BY <1>1, <2>3 DEF Sound
    <3> QED
      BY <3>1, NobodyWaits
  <2> HIDE DEF e, d
  <2>6. QuestionsWait(e)
    BY <1>1, <2>3, <2>4, <2>5, StillWaits
  <2> QED
    BY <1>2, <2>1, <2>2, <2>4, <2>6
<1> QED
  BY <1>3, <1>4, <1>5, <1>6 DEF Sweep

LEMMA AskingKeepsInv ==
    ASSUME LedgerInv, NEW p \in Participant, AskNegotiation(p) \/ RequestDisclosure(p)
    PROVE  LedgerInv'
<1>1. Sound(decision) /\ QuestionsWait(decision) /\ decision \in DecisionRecord
      /\ decision.owner[p] \in OwnerRecord
  BY Account DEF LedgerInv, DecisionRecord
<1>2. CASE AskNegotiation(p)
  <2> DEFINE e == [decision EXCEPT !.owner[p].pending = @ + 1]
  <2>1. Step(e) /\ decision.status = "PRIVATE_NEGOTIATION"
    BY <1>2 DEF AskNegotiation
  <2>2. e.owner[p].asked = decision.owner[p].asked
    BY <1>1 DEF DecisionRecord, OwnerRecord
  <2>3. /\ Sound(e) /\ Withdrawable(e) = Withdrawable(decision) /\ Approvals(e) = Approvals(decision)
        /\ e.status = decision.status
        /\ e.roster = decision.roster /\ e.frame = decision.frame /\ e.ready = decision.ready
    BY <1>1, <2>2, AskingAdds
  <2> HIDE DEF e
  <2>4. QuestionsWait(e)
    BY <1>1, <2>1, <2>3 DEF QuestionsWait
  <2>5. Withdrawable(e) <= Withdrawable(decision) /\ Approvals(e) <= Approvals(decision)
    BY <2>3, Account
  <2> QED
    BY <2>1, <2>3, <2>4, <2>5, StepKeepsInv
<1>3. CASE RequestDisclosure(p)
  <2> DEFINE e == [decision EXCEPT !.owner[p].asked = @ + 1]
  <2>1. /\ Step(e) /\ decision.candidate.held
        /\ Disclosures(decision.owner[p]) < PermissionLimit
    BY <1>3 DEF RequestDisclosure
  <2>2. /\ Sound(e) /\ Withdrawable(e) = Withdrawable(decision) /\ Approvals(e) = Approvals(decision)
        /\ e.status = decision.status
        /\ e.roster = decision.roster /\ e.frame = decision.frame /\ e.ready = decision.ready
        /\ \A q \in Participant \ {p} : e.owner[q] = decision.owner[q]
    BY <1>1, <2>1, AskingAdds
  <2>3. e.owner[p].pending = decision.owner[p].pending
    BY <1>1 DEF DecisionRecord, OwnerRecord
  <2> HIDE DEF e
  <2>4. \A q \in Participant : e.owner[q].pending = decision.owner[q].pending
    BY <2>2, <2>3
  <2>5. QuestionsWait(e)
    BY <1>1, <2>2, <2>4 DEF QuestionsWait
  <2>6. Withdrawable(e) <= Withdrawable(decision) /\ Approvals(e) <= Approvals(decision)
    BY <2>2, Account
  <2> QED
    BY <2>1, <2>2, <2>5, <2>6, StepKeepsInv
<1> QED BY <1>2, <1>3

\* A step without a receipt that only moves the records about
LEMMA MovingKeepsInv ==
    ASSUME LedgerInv, NEW e, Step(e), Keeps(decision, e),
           \/ /\ e.status = decision.status /\ e.roster = decision.roster
              /\ e.frame = decision.frame /\ e.ready = decision.ready
           \/ e.status = "CLOSED"
           \/ /\ e.status \notin {"REASONING", "PRIVATE_NEGOTIATION"}
              /\ \/ \A p \in Participant : ~(decision.owner[p].pending > 0)
                 \/ \A p \in Participant : ~(e.owner[p].pending > 0)
    PROVE  LedgerInv'
<1>1. Sound(decision) /\ QuestionsWait(decision)
  BY DEF LedgerInv
<1>2. Sound(e) /\ QuestionsWait(e)
  BY <1>1, StillWaits DEF Keeps
<1>3. Withdrawable(e) <= Withdrawable(decision) /\ Approvals(e) <= Approvals(decision)
  BY <1>1, KeepsTheCounts
<1> QED
  BY <1>2, <1>3, StepKeepsInv

LEMMA PublishKeepsInv ==
    ASSUME LedgerInv, NEW p \in Participant, PublishDisclosure(p)
    PROVE  LedgerInv'
<1> DEFINE e == AfterDisclosureEnds(decision, p)
<1>1. Step(e) /\ decision.owner[p].granted > 0 /\ Sound(decision)
  BY DEF PublishDisclosure, LedgerInv
<1>2. /\ Keeps(decision, e) /\ e.status = decision.status
      /\ e.roster = decision.roster /\ e.frame = decision.frame /\ e.ready = decision.ready
  BY <1>1, DisclosureEndsKeeps
<1> HIDE DEF e
<1> QED
  BY <1>1, <1>2, MovingKeepsInv

\* reasoning starts, ends with a verdict, or is given up
LEMMA StatusStepKeepsInv ==
    ASSUME LedgerInv, NEW s \in Status, Step([decision EXCEPT !.status = s]),
           decision.status \notin {"PRIVATE_NEGOTIATION", "CLOSED"}
              \/ \A p \in Participant : ~(decision.owner[p].pending > 0),
           s \in {"REASONING", "PRIVATE_NEGOTIATION"} =>
              decision.frame = decision.roster /\ decision.ready = decision.roster
    PROVE  LedgerInv'
<1> DEFINE e == [decision EXCEPT !.status = s]
<1>1. Sound(decision) /\ decision \in DecisionRecord
  BY DEF LedgerInv, Sound
<1>2. /\ e \in DecisionRecord /\ e.status = s /\ e.owner = decision.owner
      /\ e.roster = decision.roster /\ e.frame = decision.frame /\ e.ready = decision.ready
      /\ e.retired = decision.retired /\ e.candidate = decision.candidate
  BY <1>1, StatusChanges
<1>3. Step(e)
  OBVIOUS
<1> HIDE DEF e
<1>4. Keeps(decision, e)
  BY <1>1, <1>2, RosterStepKeeps
<1>5. \A p \in Participant : ~(decision.owner[p].pending > 0)
  BY NobodyWaits
<1>6. QuestionsWait(e)
  BY <1>2, <1>5 DEF QuestionsWait
<1>7. Sound(e) /\ Withdrawable(e) <= Withdrawable(decision) /\ Approvals(e) <= Approvals(decision)
  BY <1>1, <1>4, KeepsTheCounts DEF Keeps
<1> QED
  BY <1>3, <1>6, <1>7, StepKeepsInv

LEMMA ReasoningKeepsInv ==
    ASSUME LedgerInv,
           StartReasoning \/ CompleteReasoning \/ CancelReasoning \/ AbandonPendingReasoning
    PROVE  LedgerInv'
<1>1. Sound(decision) /\ QuestionsWait(decision)
  BY DEF LedgerInv
<1>2. CASE StartReasoning
  <2>1. /\ decision.status \in {"READY", "SUPERSEDED", "NO_AGREEMENT"}
        /\ decision.frame = decision.roster /\ decision.ready = decision.roster
        /\ Step([decision EXCEPT !.status = "REASONING"])
    BY <1>2 DEF StartReasoning, RequiredConfirmed
  <2> QED
    BY <2>1, StatusStepKeepsInv DEF Status
<1>3. CASE CompleteReasoning
  <2>1. decision.status = "REASONING"
    BY <1>3 DEF CompleteReasoning
  <2>2. ASSUME NEW rests \in SUBSET {p \in Participant : decision.owner[p].active > 0},
               Step(AfterProposal(decision, rests))
        PROVE  LedgerInv'
    <3> DEFINE e == AfterProposal(decision, rests)
    <3>1. Keeps(decision, e) /\ e.status = "PROPOSED"
      BY <1>1, ProposalKeeps
    <3>2. \A p \in Participant : ~(decision.owner[p].pending > 0)
      BY <2>1, NobodyWaits
    <3> HIDE DEF e
    <3> QED
      BY <2>2, <3>1, <3>2, MovingKeepsInv DEF e
  <2>3. ASSUME NEW verdict \in {"PRIVATE_NEGOTIATION", "NO_AGREEMENT"},
               Step([decision EXCEPT !.status = verdict])
        PROVE  LedgerInv'
    <3>1. verdict \in Status
      BY DEF Status
    <3>2. decision.frame = decision.roster /\ decision.ready = decision.roster
      BY <1>1, <2>1 DEF QuestionsWait
    <3> QED
      BY <2>1, <2>3, <3>1, <3>2, StatusStepKeepsInv
  <2> QED
    BY <1>3, <2>2, <2>3 DEF CompleteReasoning
<1>4. CASE CancelReasoning \/ AbandonPendingReasoning
  <2> DEFINE s == ReadinessStatus(decision)
  <2>1. /\ Step([decision EXCEPT !.status = s])
        /\ decision.status # "REASONING" => ~Waiting(decision)
    BY <1>4 DEF CancelReasoning, AbandonPendingReasoning
  <2>2. s \in Status /\ s \notin {"REASONING", "PRIVATE_NEGOTIATION"}
    BY ReadinessIsNotLive DEF ReadinessStatus
  <2> HIDE DEF s
  <2>3. decision.status \notin {"PRIVATE_NEGOTIATION", "CLOSED"}
          \/ \A p \in Participant : ~(decision.owner[p].pending > 0)
    BY <2>1 DEF Waiting, Owners
  <2> QED
    BY <2>1, <2>2, <2>3, StatusStepKeepsInv
<1> QED
  BY <1>2, <1>3, <1>4

LEMMA CreatorKeepsInv ==
    ASSUME LedgerInv, CreatorStep
    PROVE  LedgerInv'
<1>1. Sound(decision) /\ QuestionsWait(decision)
  BY DEF LedgerInv
<1>2. CASE ReviseDecision
  <2> DEFINE e == AfterNewContext(decision)
  <2>1. Step(e)
    BY <1>2 DEF ReviseDecision
  <2>2. /\ e.status = "COLLECTING_FRAME_CONFIRMATION"
        /\ \A q \in Participant : e.owner[q].pending = 0
        /\ Sound(e) /\ Withdrawable(e) <= Withdrawable(decision)
        /\ Approvals(e) <= Approvals(decision)
    BY <1>1, NewContextShape
  <2> HIDE DEF e
  <2>3. QuestionsWait(e)
    BY <2>2 DEF QuestionsWait
  <2> QED
    BY <2>1, <2>2, <2>3, StepKeepsInv
<1>3. CASE CloseDecision
  <2> DEFINE e == AfterClose(decision)
  <2>1. Step(e)
    BY <1>3 DEF CloseDecision
  <2>2. Keeps(decision, e) /\ e.status = "CLOSED"
    BY <1>1, CloseKeeps
  <2> HIDE DEF e
  <2> QED
    BY <2>1, <2>2, MovingKeepsInv
<1>4. ASSUME NEW people \in SUBSET Participant, IncludeDecisionGroupMembers(people)
      PROVE  LedgerInv'
  <2> DEFINE e == AfterJoin(decision, people)
  <2>1. Step(e)
    BY <1>4 DEF IncludeDecisionGroupMembers
  <2>2. /\ Keeps(decision, e) /\ e.status \notin {"REASONING", "PRIVATE_NEGOTIATION"}
        /\ \A p \in Participant : ~(e.owner[p].pending > 0)
    BY <1>1, JoinKeeps
  <2> HIDE DEF e
  <2> QED
    BY <2>1, <2>2, MovingKeepsInv
<1> QED
  BY <1>2, <1>3, <1>4 DEF CreatorStep

LEMMA ConfirmKeepsInv ==
    ASSUME LedgerInv, NEW p \in Participant,
           ConfirmFrame(p) \/ ConfirmConstraints(p) \/ ConfirmPrivateAnswers(p)
    PROVE  LedgerInv'
<1>1. Sound(decision) /\ QuestionsWait(decision) /\ decision \in DecisionRecord
  BY DEF LedgerInv, Sound
<1>2. {"CONFIRM_FRAME", "CONFIRM_CONSTRAINTS", "CONFIRM_PRIVATE_ANSWERS"}
         \cap (PermissionCommand \cup SafetyCommand) = {}
  BY DEF PermissionCommand, SafetyCommand
<1>3. p \in decision.roster /\ decision.status # "CLOSED"
  BY DEF ConfirmFrame, ConfirmConstraints, ConfirmPrivateAnswers, Execute
<1>4. CASE ConfirmFrame(p)
  <2> DEFINE e == AfterConfirmFrame(decision, p)
             m == [decision EXCEPT !.frame = @ \union {p}]
  <2>1. Execute(p, "CONFIRM_FRAME", e)
    BY <1>4 DEF ConfirmFrame
  <2>2. CASE p \in decision.frame
    <3>1. e = decision
      BY <2>2 DEF AfterConfirmFrame
    <3> QED
      BY <1>1, <1>2, <2>1, <3>1, ExecuteKeepsInv
  <2>3. CASE p \notin decision.frame
    <3>1. e = [m EXCEPT !.status = ReadinessStatus(m)]
      BY <2>3 DEF AfterConfirmFrame
    <3>2. m \in DecisionRecord /\ m.owner = decision.owner /\ m.retired = decision.retired
          /\ m.candidate = decision.candidate
      BY <1>1 DEF DecisionRecord
    <3>3. ReadinessStatus(m) \in Status /\ ReadinessStatus(m) \notin {"REASONING", "PRIVATE_NEGOTIATION"}
      BY ReadinessIsNotLive DEF ReadinessStatus
    <3> HIDE DEF m, e
    <3>4. /\ e \in DecisionRecord /\ e.owner = decision.owner /\ e.retired = decision.retired
          /\ e.candidate = decision.candidate
          /\ e.status \notin {"REASONING", "PRIVATE_NEGOTIATION"}
      BY <3>1, <3>2, <3>3, StatusChanges
    <3>5. Sound(e)
      BY <1>1, <3>4, RosterStepKeeps DEF Keeps
    <3>6. \A q \in Participant : ~(decision.owner[q].pending > 0)
      <4>1. decision.status # "PRIVATE_NEGOTIATION"
        BY <1>1, <1>3, <2>3 DEF QuestionsWait
      <4> QED
        BY <1>3, <4>1, NobodyWaits
    <3>7. QuestionsWait(e)
      BY <3>4, <3>6 DEF QuestionsWait
    <3> QED
      BY <1>2, <2>1, <3>5, <3>7, ExecuteKeepsInv
  <2> QED BY <2>2, <2>3
<1>5. CASE ConfirmConstraints(p)
  <2> DEFINE e == AfterConfirmConstraints(decision, p)
             r == AfterRetire(decision)
             m == [r EXCEPT !.ready = @ \union {p}]
  <2>1. Execute(p, "CONFIRM_CONSTRAINTS", e)
    BY <1>5 DEF ConfirmConstraints
  <2>2. CASE p \in decision.ready
    <3>1. e = AfterNewContext(decision)
      BY <2>2 DEF AfterConfirmConstraints
    <3>2. /\ e.status = "COLLECTING_FRAME_CONFIRMATION" /\ Sound(e)
          /\ \A q \in Participant : e.owner[q].pending = 0
      BY <1>1, <3>1, NewContextShape
    <3> HIDE DEF e
    <3>3. QuestionsWait(e)
      BY <3>2 DEF QuestionsWait
    <3> QED
      BY <1>2, <2>1, <3>2, <3>3, ExecuteKeepsInv
  <2>3. CASE p \notin decision.ready
    <3>1. e = [m EXCEPT !.status = ReadinessStatus(m)]
      BY <2>3 DEF AfterConfirmConstraints
    <3>2. Keeps(decision, r)
      BY <1>1, RetireKeeps
    <3> HIDE DEF r
    <3>3. /\ Sound(r) /\ r \in DecisionRecord
          /\ \A q \in Participant : OwnerKeeps(decision.owner[q], r.owner[q])
      BY <3>2 DEF Keeps, Sound
    <3>4. m \in DecisionRecord /\ m.owner = r.owner /\ m.retired = r.retired
          /\ m.candidate = r.candidate
      BY <3>3 DEF DecisionRecord
    <3>5. ReadinessStatus(m) \in Status /\ ReadinessStatus(m) \notin {"REASONING", "PRIVATE_NEGOTIATION"}
      BY ReadinessIsNotLive DEF ReadinessStatus
    <3> HIDE DEF m, e
    <3>6. /\ e \in DecisionRecord /\ e.owner = r.owner /\ e.retired = r.retired
          /\ e.candidate = r.candidate
          /\ e.status \notin {"REASONING", "PRIVATE_NEGOTIATION"}
      BY <3>1, <3>4, <3>5, StatusChanges
    <3>7. Sound(e)
      BY <3>3, <3>6, RosterStepKeeps DEF Keeps
    <3>8. \A q \in Participant : ~(decision.owner[q].pending > 0)
      <4>1. decision.status # "PRIVATE_NEGOTIATION"
        BY <1>1, <1>3, <2>3 DEF QuestionsWait
      <4> QED
        BY <1>3, <4>1, NobodyWaits
    <3>9. \A q \in Participant : ~(e.owner[q].pending > 0)
      <4>1. ASSUME NEW q \in Participant PROVE ~(e.owner[q].pending > 0)
        <5>1. decision.owner[q] \in OwnerRecord /\ r.owner[q] \in OwnerRecord
              /\ OwnerKeeps(decision.owner[q], r.owner[q]) /\ ~(decision.owner[q].pending > 0)
          BY <1>1, <3>3, <3>8 DEF DecisionRecord
        <5>2. ~(r.owner[q].pending > 0)
          BY <5>1 DEF OwnerKeeps, OwnerRecord
        <5> QED
          BY <3>6, <5>2
      <4> QED BY <4>1
    <3>10. QuestionsWait(e)
      BY <3>6, <3>9 DEF QuestionsWait
    <3> QED
      BY <1>2, <2>1, <3>7, <3>10, ExecuteKeepsInv
  <2> QED BY <2>2, <2>3
<1>6. CASE ConfirmPrivateAnswers(p)
  <2> DEFINE e == AfterSave(decision, p)
             delta == HistoryCount(e) - HistoryCount(decision)
  <2>1. Execute(p, "CONFIRM_PRIVATE_ANSWERS", e)
    BY <1>6 DEF ConfirmPrivateAnswers
  <2>2. /\ e \in DecisionRecord
        /\ e.status \notin {"REASONING", "PRIVATE_NEGOTIATION"}
        /\ \A q \in Participant : e.owner[q].pending = 0
        /\ (\A q \in Participant : e.owner[q].refused = 0) => Sound(e)
        /\ HistoryCount(e) = HistoryCount(decision) => \A q \in Participant : e.owner[q].refused = 0
    BY <1>1, SaveShape
  <2> HIDE DEF e
  <2>3. delta = 0
    <3>1. Admits(decision, e, "CONFIRM_PRIVATE_ANSWERS")
      BY <2>1 DEF Execute
    <3>2. "CONFIRM_PRIVATE_ANSWERS" \notin PermissionCommand
          /\ "CONFIRM_PRIVATE_ANSWERS" \notin SafetyCommand
      BY DEF PermissionCommand, SafetyCommand
    <3> QED
      BY <3>1, <3>2 DEF Admits, Reserve
  <2>4. HistoryCount(e) = HistoryCount(decision)
    <3>1. HistoryCount(e) \in Nat /\ HistoryCount(decision) \in Nat
      BY <1>1, <2>2, CountsAreNat
    <3>2. HistoryCount(e) - HistoryCount(decision) = 0
      BY <2>3
    <3> QED
      BY <3>1, <3>2
  <2>5. Sound(e)
    BY <2>2, <2>4
  <2>6. QuestionsWait(e)
    BY <2>2 DEF QuestionsWait
  <2> QED
    BY <1>2, <2>1, <2>5, <2>6, ExecuteKeepsInv
<1> QED
  BY <1>4, <1>5, <1>6

LEMMA AnsweringKeepsInv ==
    ASSUME LedgerInv, NEW p \in Participant, NEW allow \in BOOLEAN,
           AnswerNegotiation(p, allow) \/ DecideDisclosure(p, allow)
    PROVE  LedgerInv'
<1>1. Sound(decision) /\ QuestionsWait(decision)
  BY DEF LedgerInv
<1>2. /\ "ANSWER_NEGOTIATION" \notin SafetyCommand /\ "DECIDE_DISCLOSURE" \notin SafetyCommand
  BY DEF SafetyCommand
<1>3. CASE AnswerNegotiation(p, allow)
  <2> DEFINE e == AfterAnswer(decision, p, allow)
  <2>1. Execute(p, "ANSWER_NEGOTIATION", e) /\ decision.owner[p].pending > 0
        /\ decision.status # "CLOSED"
    BY <1>3 DEF AnswerNegotiation, Answerable, Execute
  <2>2. /\ Sound(e)
        /\ e.roster = decision.roster /\ e.frame = decision.frame /\ e.ready = decision.ready
        /\ \/ e.status = "PRIVATE_NEGOTIATION"
           \/ /\ e.status \notin {"REASONING", "PRIVATE_NEGOTIATION"}
              /\ \A q \in Participant : ~(e.owner[q].pending > 0)
        /\ Withdrawable(e) <= Withdrawable(decision) + 1 /\ Approvals(e) = Approvals(decision)
    BY <1>1, <2>1, AnswerAdds
  <2> HIDE DEF e
  <2>3. decision.status = "PRIVATE_NEGOTIATION"
    BY <1>1, <2>1 DEF QuestionsWait
  <2>4. QuestionsWait(e)
    BY <1>1, <2>2, <2>3 DEF QuestionsWait
  <2>5. Approvals(e) <= Approvals(decision)
    BY <2>2, Account
  <2> QED
    BY <1>2, <2>1, <2>2, <2>4, <2>5, ExecuteKeepsInv
<1>4. CASE DecideDisclosure(p, allow)
  <2> DEFINE e == AfterDecide(decision, p, allow)
  <2>1. Execute(p, "DECIDE_DISCLOSURE", e) /\ decision.owner[p].asked > 0
    BY <1>4 DEF DecideDisclosure
  <2>2. /\ Sound(e) /\ e.status = decision.status
        /\ e.roster = decision.roster /\ e.frame = decision.frame /\ e.ready = decision.ready
        /\ \A q \in Participant : e.owner[q].pending = decision.owner[q].pending
        /\ Withdrawable(e) <= Withdrawable(decision) + 1 /\ Approvals(e) = Approvals(decision)
    BY <1>1, <2>1, DecideAdds
  <2> HIDE DEF e
  <2>3. QuestionsWait(e)
    BY <1>1, <2>2 DEF QuestionsWait
  <2>4. Approvals(e) <= Approvals(decision)
    BY <2>2, Account
  <2> QED
    BY <1>2, <2>1, <2>2, <2>3, <2>4, ExecuteKeepsInv
<1> QED
  BY <1>3, <1>4

LEMMA ConsentKeepsInv ==
    ASSUME LedgerInv, NEW p \in Participant,
           \/ \E used \in BOOLEAN : RevokeNegotiation(p, used)
           \/ RevokeDisclosure(p) \/ ApproveProposal(p) \/ WithdrawApproval(p)
    PROVE  LedgerInv'
<1>1. Sound(decision) /\ QuestionsWait(decision)
  BY DEF LedgerInv
<1>2. /\ {"REVOKE_NEGOTIATION", "REVOKE_DISCLOSURE", "WITHDRAW_APPROVAL"}
            \cap PermissionCommand = {}
      /\ "APPROVE_PROPOSAL" \notin PermissionCommand \cup SafetyCommand
  BY DEF PermissionCommand, SafetyCommand
<1>3. ASSUME NEW type \in SafetyCommand, NEW e, Execute(p, type, e), Keeps(decision, e),
             Withdrawable(e) + Approvals(e) < Withdrawable(decision) + Approvals(decision),
             \/ /\ e.status = decision.status /\ e.roster = decision.roster
                /\ e.frame = decision.frame /\ e.ready = decision.ready
             \/ /\ e.status \notin {"REASONING", "PRIVATE_NEGOTIATION"}
                /\ \A q \in Participant : ~(decision.owner[q].pending > 0)
      PROVE  LedgerInv'
  <2>1. Sound(e) /\ QuestionsWait(e)
    BY <1>1, <1>3, StillWaits DEF Keeps
  <2>2. type \notin PermissionCommand
    BY <1>2 DEF SafetyCommand
  <2> QED
    BY <1>3, <2>1, <2>2, ExecuteKeepsInv
<1>4. ASSUME NEW used \in BOOLEAN, RevokeNegotiation(p, used)
      PROVE  LedgerInv'
  <2> DEFINE e == AfterRevoke(decision, p, used)
  <2>1. /\ Execute(p, "REVOKE_NEGOTIATION", e) /\ decision.owner[p].active > 0
        /\ (used => p \in decision.candidate.rests)
        /\ ((p \in decision.candidate.rests /\ decision.owner[p].active = 1) => used)
    BY <1>4 DEF RevokeNegotiation, MayUse
  <2>2. /\ Keeps(decision, e) /\ (used => e.status = "SUPERSEDED")
        /\ e.owner[p].active = decision.owner[p].active - 1
        /\ ~used => /\ e.status = decision.status /\ e.roster = decision.roster
                    /\ e.frame = decision.frame /\ e.ready = decision.ready
    BY <1>1, <2>1, LossKeeps
  <2>3. used => \A q \in Participant : ~(decision.owner[q].pending > 0)
    <3>1. used => decision.candidate.held
      BY <1>1, <2>1 DEF Sound
    <3> QED
      BY <3>1, NobodyWaits
  <2> HIDE DEF e
  <2>4. e.owner[p].active < decision.owner[p].active
    BY <2>2, Account DEF DecisionRecord, OwnerRecord
  <2>5. Withdrawable(e) + Approvals(e) < Withdrawable(decision) + Approvals(decision)
    BY <1>1, <2>2, <2>4, TakenBack
  <2>6. "REVOKE_NEGOTIATION" \in SafetyCommand
    BY DEF SafetyCommand
  <2> QED
    BY <1>3, <2>1, <2>2, <2>3, <2>5, <2>6
<1>5. CASE RevokeDisclosure(p)
  <2> DEFINE e == AfterDisclosureEnds(decision, p)
  <2>1. Execute(p, "REVOKE_DISCLOSURE", e) /\ decision.owner[p].granted > 0
    BY <1>5 DEF RevokeDisclosure
  <2>2. /\ Keeps(decision, e) /\ e.status = decision.status
        /\ e.roster = decision.roster /\ e.frame = decision.frame /\ e.ready = decision.ready
        /\ e.owner[p].granted = decision.owner[p].granted - 1
    BY <1>1, <2>1, DisclosureEndsKeeps
  <2> HIDE DEF e
  <2>3. e.owner[p].granted < decision.owner[p].granted
    BY <2>2, Account DEF DecisionRecord, OwnerRecord
  <2>4. Withdrawable(e) + Approvals(e) < Withdrawable(decision) + Approvals(decision)
    BY <1>1, <2>2, <2>3, TakenBack
  <2>5. "REVOKE_DISCLOSURE" \in SafetyCommand
    BY DEF SafetyCommand
  <2> QED
    BY <1>3, <2>1, <2>2, <2>4, <2>5
<1>6. CASE ApproveProposal(p)
  <2> DEFINE e == AfterApprove(decision, p)
  <2>1. Execute(p, "APPROVE_PROPOSAL", e) /\ decision.candidate.held
    BY <1>6 DEF ApproveProposal
  <2>2. /\ Sound(e) /\ e.status \in Live
        /\ \A q \in Participant : e.owner[q].pending = decision.owner[q].pending
    BY <1>1, <2>1, ApproveAdds
  <2>3. \A q \in Participant : ~(decision.owner[q].pending > 0)
    BY <2>1, NobodyWaits
  <2> HIDE DEF e
  <2>4. QuestionsWait(e)
    BY <2>2, <2>3 DEF QuestionsWait, Live
  <2> QED
    BY <1>2, <2>1, <2>2, <2>4, ExecuteKeepsInv
<1>7. CASE WithdrawApproval(p)
  <2> DEFINE e == AfterWithdraw(decision, p)
  <2>1. Execute(p, "WITHDRAW_APPROVAL", e) /\ decision.owner[p].approved
        /\ decision.candidate.held
    BY <1>7 DEF WithdrawApproval
  <2>2. /\ Keeps(decision, e) /\ e.status \in Live
        /\ Withdrawable(e) = Withdrawable(decision) /\ Approvals(e) = Approvals(decision) - 1
    BY <1>1, <2>1, WithdrawKeeps
  <2>3. \A q \in Participant : ~(decision.owner[q].pending > 0)
    BY <2>1, NobodyWaits
  <2> HIDE DEF e
  <2>4. Withdrawable(e) + Approvals(e) < Withdrawable(decision) + Approvals(decision)
    BY <2>2, Account
  <2>5. "WITHDRAW_APPROVAL" \in SafetyCommand /\ e.status \notin {"REASONING", "PRIVATE_NEGOTIATION"}
    BY <2>2 DEF SafetyCommand, Live
  <2> QED
    BY <1>3, <2>1, <2>2, <2>3, <2>4, <2>5
<1> QED
  BY <1>4, <1>5, <1>6, <1>7

-----------------------------------------------------------------------------
(* The invariant *)

LEMMA NothingIsRecordedAtFirst ==
    ASSUME NEW n \in Count, \A p \in Participant : n[p] = 0
    PROVE  CountAll(n) = 0
<1>1. ASSUME NEW p \in Participant PROVE Block(n, p) = {}
  BY DEF Block
<1>2. Records(n) = {}
  BY <1>1 DEF Records
<1> QED
  BY <1>2, TotalIsNat, FS_EmptySet

LEMMA InitHasInv ==
    ASSUME Init
    PROVE  LedgerInv
<1> DEFINE d == decision
<1>1. PICK people \in SUBSET Participant \ {{}} :
         d = [roster |-> people, frame |-> {}, ready |-> {},
              status |-> "COLLECTING_FRAME_CONFIRMATION",
              owner |-> [p \in Participant |-> EmptyOwner],
              retired |-> [p \in Participant |-> EmptyHistory],
              candidate |-> NoCandidate, superseded |-> 0, agreements |-> 0]
  BY DEF Init
<1>2. EmptyOwner \in OwnerRecord /\ EmptyHistory \in HistoryRecord
  BY DEF EmptyOwner, EmptyHistory, OwnerRecord, HistoryRecord
<1>3. "COLLECTING_FRAME_CONFIRMATION" \in Status
  BY DEF Status
<1>4. d \in DecisionRecord
  BY <1>1, <1>2, <1>3 DEF DecisionRecord, NoCandidate
<1>5. /\ \A p \in Participant : d.owner[p] = EmptyOwner /\ d.retired[p] = EmptyHistory
      /\ d.candidate.held = FALSE /\ d.candidate.rests = {}
      /\ d.status = "COLLECTING_FRAME_CONFIRMATION" /\ d.superseded = 0 /\ d.agreements = 0
  BY <1>1 DEF NoCandidate
<1> HIDE DEF d
<1>6. /\ EmptyOwner.pending = 0 /\ EmptyOwner.settled = 0 /\ EmptyOwner.refused = 0
      /\ EmptyOwner.asked = 0 /\ EmptyOwner.granted = 0 /\ EmptyOwner.active = 0
      /\ Negotiation(EmptyOwner) = 0 /\ Disclosures(EmptyOwner) = 0
      /\ CurrentRecords(EmptyOwner) = 0 /\ RetiredRecords(EmptyHistory) = 0
  BY DEF EmptyOwner, EmptyHistory, Negotiation, Disclosures, CurrentRecords, RetiredRecords
<1>7. EmptyOwner.approved = FALSE
  BY DEF EmptyOwner
<1>8. Sound(d)
  <2>1. PermissionLimit \in Nat
    BY LimitAssumption
  <2>2. ASSUME NEW p \in Participant
        PROVE  /\ d.owner[p].refused + Negotiation(d.owner[p]) <= d.owner[p].settled
               /\ Disclosures(d.owner[p]) <= PermissionLimit
               /\ d.owner[p].asked = 0 /\ d.owner[p].granted = 0
    BY <1>5, <1>6, <2>1
  <2>3. ASSUME NEW p \in Participant
        PROVE  ~d.owner[p].approved /\ p \notin d.candidate.rests
    BY <1>5, <1>7
  <2> QED
    BY <1>4, <2>2, <2>3 DEF Sound
<1>9. QuestionsWait(d)
  BY <1>5, <1>6 DEF QuestionsWait
<1>10. HistoryCount(d) = 0 /\ PendingCount(d) = 0 /\ Withdrawable(d) = 0
  <2>1. ASSUME NEW p \in Participant
        PROVE  RecordsOf(d, p) = 0 /\ AskedOf(d, p) = 0 /\ InForce(d, p) = 0
    BY <1>5, <1>6 DEF RecordsOf, AskedOf, InForce
  <2>2. CountAll([p \in Participant |-> RecordsOf(d, p)]) = 0
    BY <1>4, <2>1, CountsAreNat, NothingIsRecordedAtFirst
  <2>3. CountAll([p \in Participant |-> AskedOf(d, p)]) = 0
    BY <1>4, <2>1, CountsAreNat, NothingIsRecordedAtFirst
  <2>4. CountAll([p \in Participant |-> InForce(d, p)]) = 0
    BY <1>4, <2>1, CountsAreNat, NothingIsRecordedAtFirst
  <2> QED
    BY <2>2, <2>3, <2>4 DEF HistoryCount, PendingCount, Withdrawable, RecordsOf, AskedOf, InForce
<1>11. Approvals(d) = 0
  <2>1. {p \in Participant : d.owner[p].approved} = {}
    BY <1>5, <1>7
  <2> QED
    BY <2>1, FS_EmptySet DEF Approvals
<1>12. /\ QuestionLimit \in Nat /\ RetiredLimit \in Nat /\ HistoryLimit \in Nat
       /\ ArchiveLimit \in Nat /\ OrdinaryLimit \in Nat /\ SafetyLimit \in Nat
       /\ Cardinality(Participant) \in Nat
  BY <1>4, LimitAssumption, CountsAreNat
<1>13. /\ guard = [ordinary |-> 0, permission |-> 0, safety |-> 0, total |-> 0]
       /\ guard.ordinary = 0 /\ guard.permission = 0 /\ guard.safety = 0 /\ guard.total = 0
  BY DEF Init
<1>14. guard \in GuardRecord
  BY <1>12, <1>13 DEF GuardRecord
<1>15. RetiredFits(d)
  BY <1>5, <1>12 DEF RetiredFits, EmptyHistory
<1>16. OwnersFit(d)
  <2>1. ASSUME NEW p \in Participant PROVE d.owner[p].pending + d.owner[p].settled <= QuestionLimit
    BY <1>5, <1>6, <1>12
  <2> QED
    BY <1>8, <1>15, <2>1, SoundFits
<1>17. Fits(d, guard.permission)
  <2>1. d.status \notin Live
    BY <1>5 DEF Live
  <2>2. HistoryCount(d) + PendingCount(d) <= HistoryLimit
    BY <1>10, <1>12
  <2>3. d.superseded <= ArchiveLimit /\ d.agreements <= ArchiveLimit
    BY <1>5, <1>12
  <2> QED
    BY <1>4, <1>5, <1>10, <1>13, <1>16, <2>1, <2>2, <2>3, FitsMeansLimits
<1>18. ReserveLasts(d, guard)
  BY <1>10, <1>11, <1>12, <1>13 DEF ReserveLasts
<1> QED
  BY <1>8, <1>9, <1>14, <1>17, <1>18 DEF LedgerInv, d

\* Whatever owners, the runtime and the creator do, the records and the guard's
\* counters stay in the account that the reserves of dynamodb.ts rest upon.
THEOREM LedgerInvariant == Spec => []LedgerInv
<1>1. Init => LedgerInv
  BY InitHasInv
<1>2. LedgerInv /\ [Next]_vars => LedgerInv'
  <2> SUFFICES ASSUME LedgerInv, [Next]_vars PROVE LedgerInv'
    OBVIOUS
  <2>1. CASE UNCHANGED vars
    BY <2>1 DEF vars, LedgerInv
  <2>2. ASSUME NEW p \in Participant, OwnerStep(p) PROVE LedgerInv'
    <3>1. CASE ConfirmFrame(p) \/ ConfirmConstraints(p) \/ ConfirmPrivateAnswers(p)
      BY <3>1, ConfirmKeepsInv
    <3>2. CASE \E allow \in BOOLEAN : AnswerNegotiation(p, allow) \/ DecideDisclosure(p, allow)
      BY <3>2, AnsweringKeepsInv
    <3>3. CASE \/ \E used \in BOOLEAN : RevokeNegotiation(p, used)
               \/ RevokeDisclosure(p) \/ ApproveProposal(p) \/ WithdrawApproval(p)
      BY <3>3, ConsentKeepsInv
    <3>4. CASE Reject(p)
      BY <3>4, RejectKeepsInv
    <3> QED
      BY <2>2, <3>1, <3>2, <3>3, <3>4 DEF OwnerStep
  <2>3. CASE RuntimeStep
    <3>1. ASSUME NEW p \in Participant, AskNegotiation(p) \/ RequestDisclosure(p) PROVE LedgerInv'
      BY <3>1, AskingKeepsInv
    <3>2. ASSUME NEW p \in Participant, PublishDisclosure(p) PROVE LedgerInv'
      BY <3>2, PublishKeepsInv
    <3>3. ASSUME NEW p \in Participant, Sweep(p) PROVE LedgerInv'
      BY <3>3, SweepKeepsInv
    <3>4. CASE StartReasoning \/ CompleteReasoning \/ CancelReasoning \/ AbandonPendingReasoning
      BY <3>4, ReasoningKeepsInv
    <3> QED
      BY <2>3, <3>1, <3>2, <3>3, <3>4 DEF RuntimeStep
  <2>4. CASE CreatorStep
    BY <2>4, CreatorKeepsInv
  <2> QED
    BY <2>1, <2>2, <2>3, <2>4 DEF Next
<1> QED
  BY <1>1, <1>2, PTL DEF Spec

-----------------------------------------------------------------------------
(* What the account means for the reserves *)

LEMMA GuardLimits ==
    ASSUME LedgerInv
    PROVE  /\ guard.permission = HistoryCount(decision)
           /\ guard.permission \in 0..HistoryLimit
           /\ guard.safety \in 0..SafetyLimit /\ guard.total \in 0..TotalLimit
           /\ PendingCount(decision) > 0 => guard.permission < HistoryLimit
                                            /\ guard.total < TotalLimit
           /\ Withdrawable(decision) + Approvals(decision) > 0 =>
                 guard.safety < SafetyLimit /\ guard.total < TotalLimit
           /\ guard.ordinary < OrdinaryLimit => guard.total < TotalLimit
<1>1. decision \in DecisionRecord /\ guard \in GuardRecord
  BY DEF LedgerInv, Sound
<1>2. guard.permission = HistoryCount(decision)
      /\ HistoryCount(decision) + PendingCount(decision) <= HistoryLimit
  BY <1>1, FitsMeansLimits DEF LedgerInv
<1>3. /\ PendingCount(decision) \in Nat /\ Withdrawable(decision) \in Nat
      /\ Approvals(decision) \in Nat /\ Cardinality(Participant) \in Nat
  BY <1>1, CountsAreNat
<1>4. /\ HistoryLimit \in Nat /\ OrdinaryLimit \in Nat /\ SafetyLimit \in Nat
      /\ SafetyLimit >= HistoryLimit + Cardinality(Participant)
  BY LimitAssumption
<1>5. /\ guard.ordinary \in 0..OrdinaryLimit /\ guard.permission \in Nat
      /\ guard.safety \in Nat /\ guard.total \in Nat
  BY <1>1 DEF GuardRecord
<1>6. /\ guard.total <= guard.ordinary + guard.permission + guard.safety
      /\ guard.ordinary < OrdinaryLimit => guard.safety = 0
      /\ guard.safety + Withdrawable(decision) + Approvals(decision)
            <= guard.permission + Cardinality(Participant)
  BY DEF LedgerInv, ReserveLasts
<1> QED
  BY <1>2, <1>3, <1>4, <1>5, <1>6 DEF TotalLimit

\* An answer draws on the permission reserve, or counts against it.
LEMMA AnswerIsAdmitted ==
    ASSUME LedgerInv, NEW e, NEW type \in PermissionCommand,
           HistoryCount(e) = HistoryCount(decision) + 1, PendingCount(decision) > 0,
           Fits(e, guard.permission + 1)
    PROVE  Admits(decision, e, type)
<1>1. guard.permission < HistoryLimit /\ guard.total < TotalLimit
  BY GuardLimits
<1>2. HistoryCount(e) - HistoryCount(decision) = 1
  <2>1. HistoryCount(decision) \in Nat
    BY CountsAreNat DEF LedgerInv, Sound
  <2> QED BY <2>1
<1>3. Reserve(type, 1) = "permission"
  BY DEF Reserve, PermissionCommand, SafetyCommand
<1> QED
  BY <1>1, <1>2, <1>3 DEF Admits

\* A withdrawal counts nowhere, or draws on the safety reserve.
LEMMA WithdrawalIsAdmitted ==
    ASSUME LedgerInv, NEW e, NEW type \in SafetyCommand,
           HistoryCount(e) = HistoryCount(decision),
           Withdrawable(decision) + Approvals(decision) > 0, Fits(e, guard.permission)
    PROVE  Admits(decision, e, type)
<1>1. guard.safety < SafetyLimit /\ guard.total < TotalLimit
  BY GuardLimits
<1>2. HistoryCount(decision) \in Nat
  BY CountsAreNat DEF LedgerInv, Sound
<1>3. HistoryCount(e) - HistoryCount(decision) = 0
  BY <1>2
<1>4. Reserve(type, 0) = "safety"
  BY DEF Reserve, PermissionCommand, SafetyCommand
<1>5. guard.permission + 0 = guard.permission
  BY DEF LedgerInv, GuardRecord
<1> QED
  BY <1>1, <1>3, <1>4, <1>5 DEF Admits

-----------------------------------------------------------------------------
(* The properties of the ledger *)

LEMMA InvIsAnchored == LedgerInv => PermissionsAreAnchored
<1> SUFFICES ASSUME LedgerInv PROVE PermissionsAreAnchored
  OBVIOUS
<1>1. Sound(decision)
  BY DEF LedgerInv
<1>2. ASSUME NEW p \in Participant PROVE Negotiation(decision.owner[p]) <= decision.owner[p].settled
  <2> DEFINE o == decision.owner[p]
  <2>1. o \in OwnerRecord /\ o.refused + Negotiation(o) <= o.settled
    BY <1>1 DEF Sound, DecisionRecord
  <2> HIDE DEF o
  <2>2. o.refused \in Nat /\ Negotiation(o) \in Nat /\ o.settled \in Nat
    BY <2>1 DEF OwnerRecord, Negotiation
  <2>3. Negotiation(o) <= o.settled
    BY <2>1, <2>2
  <2> QED BY <2>3 DEF o
<1>3. \A o \in Owners(decision) : Negotiation(o) <= o.settled
  BY <1>2 DEF Owners
<1>4. \A p \in decision.candidate.rests : decision.owner[p].active > 0
  BY <1>1 DEF Sound, DecisionRecord
<1> QED
  BY <1>3, <1>4 DEF PermissionsAreAnchored

\* An owner's permissions never outnumber the settled questions they come from,
\* and a candidate rests on permissions in force, at any time and for any limits
\* (known-enough.ts retainOwnerPermissions, retireCurrentProposal).
THEOREM AnchoredPermissions == Spec => []PermissionsAreAnchored
  BY LedgerInvariant, InvIsAnchored, PTL

LEMMA InvIsTyped == LedgerInv => TypeOK
<1> SUFFICES ASSUME LedgerInv PROVE TypeOK
  OBVIOUS
<1> DEFINE d == decision
<1>1. Sound(d) /\ d \in DecisionRecord /\ guard \in GuardRecord
  BY DEF LedgerInv, Sound
<1>2. OwnersFit(d) /\ d.superseded <= ArchiveLimit /\ d.agreements <= ArchiveLimit
  BY <1>1, FitsMeansLimits DEF LedgerInv
<1>3. /\ QuestionLimit \in Nat /\ PermissionLimit \in Nat /\ RetiredLimit \in Nat
      /\ ArchiveLimit \in Nat /\ QuestionLimit <= PermissionLimit /\ PermissionLimit <= RetiredLimit
  BY LimitAssumption
<1>4. ASSUME NEW p \in Participant
      PROVE  d.owner[p] \in
                [pending : 0..QuestionLimit, settled : 0..QuestionLimit, refused : 0..RetiredLimit,
                 active : 0..PermissionLimit, ended : 0..PermissionLimit,
                 asked : 0..PermissionLimit, granted : 0..PermissionLimit,
                 closed : 0..PermissionLimit, approved : BOOLEAN]
  <2> DEFINE o == d.owner[p]
  <2>1. /\ o \in OwnerRecord /\ o.refused + Negotiation(o) <= o.settled
        /\ Disclosures(o) <= PermissionLimit
    BY <1>1 DEF Sound, DecisionRecord
  <2>2. o.pending + o.settled <= QuestionLimit /\ o.refused <= RetiredLimit
    BY <1>2 DEF OwnersFit
  <2> HIDE DEF o
  <2>3. /\ o.pending \in Nat /\ o.settled \in Nat /\ o.refused \in Nat /\ o.active \in Nat
        /\ o.ended \in Nat /\ o.asked \in Nat /\ o.granted \in Nat /\ o.closed \in Nat
    BY <2>1 DEF OwnerRecord
  <2>4. /\ o.pending \in 0..QuestionLimit /\ o.settled \in 0..QuestionLimit
        /\ o.refused \in 0..RetiredLimit
        /\ o.active \in 0..PermissionLimit /\ o.ended \in 0..PermissionLimit
        /\ o.asked \in 0..PermissionLimit /\ o.granted \in 0..PermissionLimit
        /\ o.closed \in 0..PermissionLimit
    BY <1>3, <2>1, <2>2, <2>3 DEF Negotiation, Disclosures
  <2>5. o \in [pending : 0..QuestionLimit, settled : 0..QuestionLimit, refused : 0..RetiredLimit,
               active : 0..PermissionLimit, ended : 0..PermissionLimit,
               asked : 0..PermissionLimit, granted : 0..PermissionLimit,
               closed : 0..PermissionLimit, approved : BOOLEAN]
    BY <2>1, <2>4 DEF OwnerRecord
  <2> QED BY <2>5 DEF o
<1>5. ASSUME NEW p \in Participant
      PROVE  d.retired[p] \in [refused : 0..RetiredLimit, negotiation : 0..RetiredLimit,
                               disclosure : 0..RetiredLimit]
  <2>1. d.retired[p] \in HistoryRecord
    BY <1>1 DEF DecisionRecord
  <2>2. {d.retired[p].refused, d.retired[p].negotiation, d.retired[p].disclosure}
           \subseteq 0..RetiredLimit
    BY <1>2 DEF OwnersFit, RetiredFits
  <2> QED BY <2>1, <2>2 DEF HistoryRecord
<1>6. d.superseded \in 0..ArchiveLimit /\ d.agreements \in 0..ArchiveLimit
  <2>1. d.superseded \in Nat /\ d.agreements \in Nat
    BY <1>1 DEF DecisionRecord
  <2> QED BY <1>2, <1>3, <2>1
<1>7. decision \in [
          roster : SUBSET Participant, frame : SUBSET Participant, ready : SUBSET Participant,
          status : Status,
          owner : [Participant ->
             [pending : 0..QuestionLimit, settled : 0..QuestionLimit, refused : 0..RetiredLimit,
              active : 0..PermissionLimit, ended : 0..PermissionLimit,
              asked : 0..PermissionLimit, granted : 0..PermissionLimit,
              closed : 0..PermissionLimit, approved : BOOLEAN]],
          retired : [Participant ->
             [refused : 0..RetiredLimit, negotiation : 0..RetiredLimit,
              disclosure : 0..RetiredLimit]],
          candidate : [held : BOOLEAN, rests : SUBSET Participant],
          superseded : 0..ArchiveLimit, agreements : 0..ArchiveLimit]
  BY <1>1, <1>4, <1>5, <1>6 DEF DecisionRecord
<1>8. guard \in [ordinary : 0..OrdinaryLimit, permission : 0..HistoryLimit,
                 safety : 0..SafetyLimit, total : 0..TotalLimit]
  BY <1>1, GuardLimits DEF GuardRecord
<1> QED
  BY <1>7, <1>8 DEF TypeOK

\* No count passes the limit of its schema and no receipt counter its own.
THEOREM TypeCorrect == Spec => []TypeOK
  BY LedgerInvariant, InvIsTyped, PTL

LEMMA InvReservesResponses == LedgerInv => ResponsesAreReserved
<1> SUFFICES ASSUME LedgerInv PROVE ResponsesAreReserved
  OBVIOUS
<1>1. Sound(decision) /\ decision \in DecisionRecord /\ QuestionsWait(decision)
  BY DEF LedgerInv, Sound
<1> SUFFICES ASSUME NEW p \in Participant, NEW allow \in BOOLEAN
             PROVE  /\ decision.owner[p].pending > 0 =>
                          /\ Answerable(p, allow)
                          /\ Admits(decision, AfterAnswer(decision, p, allow), "ANSWER_NEGOTIATION")
                    /\ decision.owner[p].asked > 0 =>
                          Admits(decision, AfterDecide(decision, p, allow), "DECIDE_DISCLOSURE")
  <2>1. decision.roster \subseteq Participant
    BY <1>1 DEF DecisionRecord
  <2> QED BY <2>1 DEF ResponsesAreReserved
<1>2. /\ OwnersFit(decision) /\ decision.superseded <= ArchiveLimit
      /\ decision.agreements <= ArchiveLimit /\ (decision.status \in Live <=> decision.candidate.held)
      /\ guard.permission = HistoryCount(decision)
      /\ HistoryCount(decision) + PendingCount(decision) <= HistoryLimit
  BY <1>1, FitsMeansLimits DEF LedgerInv
<1>3. \A q \in Participant :
         decision.owner[q].pending + decision.owner[q].settled <= QuestionLimit
  BY <1>2 DEF OwnersFit
<1>4. HistoryCount(decision) \in Nat /\ PendingCount(decision) \in Nat
  BY <1>1, CountsAreNat
<1>5. {"ANSWER_NEGOTIATION", "DECIDE_DISCLOSURE"} \subseteq PermissionCommand
  BY DEF PermissionCommand
<1>6. ASSUME NEW e, Sound(e), e.retired = decision.retired,
             \A q \in Participant : e.owner[q].pending + e.owner[q].settled <= QuestionLimit,
             e.status \in Live <=> e.candidate.held,
             e.superseded = decision.superseded, e.agreements = decision.agreements,
             HistoryCount(e) = HistoryCount(decision) + 1,
             PendingCount(e) = PendingCount(decision) - 1,
             NEW type \in PermissionCommand
      PROVE  Admits(decision, e, type)
  <2>1. e \in DecisionRecord
    BY <1>6 DEF Sound
  <2>2. RetiredFits(e)
    BY <1>2, <1>6 DEF OwnersFit, RetiredFits
  <2>3. OwnersFit(e)
    BY <1>6, <2>2, SoundFits
  <2>4. PendingCount(e) \in Nat
    BY <2>1, CountsAreNat
  <2>5. PendingCount(decision) > 0
        /\ HistoryCount(e) + PendingCount(e) <= HistoryLimit
        /\ guard.permission + 1 = HistoryCount(e)
    BY <1>2, <1>4, <1>6, <2>4
  <2>6. Fits(e, guard.permission + 1)
    BY <1>2, <1>6, <2>1, <2>3, <2>5, FitsMeansLimits
  <2> QED
    BY <1>6, <2>5, <2>6, AnswerIsAdmitted
<1>7. ASSUME decision.owner[p].pending > 0 PROVE Answerable(p, allow)
  <2> DEFINE o == decision.owner[p]
  <2>1. o \in OwnerRecord /\ o.refused + Negotiation(o) <= o.settled
    BY <1>1 DEF Sound, DecisionRecord
  <2>2. o.pending > 0 /\ o.pending + o.settled <= QuestionLimit
    BY <1>3, <1>7
  <2> HIDE DEF o
  <2>3. /\ o.pending \in Nat /\ o.settled \in Nat /\ o.refused \in Nat /\ Negotiation(o) \in Nat
    BY <2>1 DEF OwnerRecord, Negotiation
  <2>4. /\ QuestionLimit \in Nat /\ PermissionLimit \in Nat /\ RetiredLimit \in Nat
        /\ QuestionLimit <= PermissionLimit /\ PermissionLimit <= RetiredLimit
    BY LimitAssumption
  <2>5. Negotiation(o) < PermissionLimit /\ o.refused < RetiredLimit
    BY <2>1, <2>2, <2>3, <2>4
  <2> QED
    BY <2>2, <2>5 DEF Answerable, o
<1>8. ASSUME decision.owner[p].pending > 0
      PROVE  Admits(decision, AfterAnswer(decision, p, allow), "ANSWER_NEGOTIATION")
  <2> DEFINE e == AfterAnswer(decision, p, allow)
  <2>1. /\ Sound(e) /\ e.retired = decision.retired /\ e.candidate = decision.candidate
        /\ e.superseded = decision.superseded /\ e.agreements = decision.agreements
        /\ e.status \notin Live
        /\ \A q \in Participant : e.owner[q].pending + e.owner[q].settled
                                     = decision.owner[q].pending + decision.owner[q].settled
        /\ HistoryCount(e) = HistoryCount(decision) + 1
        /\ PendingCount(e) = PendingCount(decision) - 1
    BY <1>1, <1>8, AnswerAdds
  <2>2. decision.status \in {"PRIVATE_NEGOTIATION", "CLOSED"}
    BY <1>1, <1>8 DEF QuestionsWait
  <2>3. ~decision.candidate.held
    BY <1>2, <2>2 DEF Live
  <2> HIDE DEF e
  <2>4. Admits(decision, e, "ANSWER_NEGOTIATION")
    BY <1>3, <1>5, <1>6, <2>1, <2>3
  <2> QED BY <2>4 DEF e
<1>9. ASSUME decision.owner[p].asked > 0
      PROVE  Admits(decision, AfterDecide(decision, p, allow), "DECIDE_DISCLOSURE")
  <2> DEFINE e == AfterDecide(decision, p, allow)
  <2>1. /\ Sound(e) /\ e.retired = decision.retired /\ e.candidate = decision.candidate
        /\ e.status = decision.status
        /\ e.superseded = decision.superseded /\ e.agreements = decision.agreements
        /\ \A q \in Participant : /\ e.owner[q].pending = decision.owner[q].pending
                                  /\ e.owner[q].settled = decision.owner[q].settled
        /\ HistoryCount(e) = HistoryCount(decision) + 1
        /\ PendingCount(e) = PendingCount(decision) - 1
    BY <1>1, <1>9, DecideAdds
  <2> HIDE DEF e
  <2>2. \A q \in Participant : e.owner[q].pending + e.owner[q].settled <= QuestionLimit
    BY <1>3, <2>1
  <2>3. Admits(decision, e, "DECIDE_DISCLOSURE")
    BY <1>2, <1>5, <1>6, <2>1, <2>2
  <2> QED BY <2>3 DEF e
<1> QED
  BY <1>7, <1>8, <1>9

\* Whoever is asked can answer, either way, and the repository records it, for
\* any number of people, questions and commands spent before: the places that
\* askNegotiation and requestDisclosure count in permissionHistoryUsage are free.
THEOREM ReservedResponses == Spec => []ResponsesAreReserved
  BY LedgerInvariant, InvReservesResponses, PTL

LEMMA InvStoresSteps == LedgerInv => StepsAreStored
<1> SUFFICES ASSUME LedgerInv PROVE StepsAreStored
  OBVIOUS
<1> DEFINE d == decision
<1>1. Sound(d) /\ Fits(d, guard.permission) /\ d \in DecisionRecord
  BY DEF LedgerInv, Sound
<1>2. /\ d.superseded <= ArchiveLimit /\ d.agreements <= ArchiveLimit
      /\ (d.status \in Live <=> d.candidate.held)
  BY <1>1, FitsMeansLimits
<1>3. ASSUME NEW e, Keeps(d, e), e.status \in Live <=> e.candidate.held,
             e.superseded <= ArchiveLimit, e.agreements <= ArchiveLimit
      PROVE  AdmitsStep(d, e)
  <2>1. Fits(e, guard.permission) /\ HistoryCount(e) = HistoryCount(d)
    BY <1>1, <1>3, KeepingIsStored
  <2> QED BY <2>1 DEF AdmitsStep
<1>4. ASSUME NEW p \in Participant, d.owner[p].pending > 0
      PROVE  AdmitsStep(d, AfterQuestionExpires(d, p))
  BY <1>1, <1>2, <1>3, <1>4, QuestionExpiresKeeps
<1>5. ASSUME NEW p \in Participant, d.owner[p].asked > 0
      PROVE  AdmitsStep(d, AfterRequestExpires(d, p))
  BY <1>1, <1>2, <1>3, <1>5, RequestExpiresKeeps
<1>6. ASSUME NEW p \in Participant, d.owner[p].granted > 0
      PROVE  AdmitsStep(d, AfterDisclosureEnds(d, p))
  BY <1>1, <1>2, <1>3, <1>6, DisclosureEndsKeeps
<1>7. ASSUME NEW p \in Participant, d.owner[p].active > 0, NEW used \in MayUse(p)
      PROVE  AdmitsStep(d, AfterExpiry(d, p, used))
  <2>1. used \in BOOLEAN /\ (p \in d.candidate.rests /\ d.owner[p].active = 1 => used)
    BY <1>7 DEF MayUse
  <2>2. AfterExpiry(d, p, used) = AfterRevoke(d, p, used)
    BY DEF AfterExpiry, AfterRevoke
  <2> QED
    BY <1>1, <1>2, <1>3, <1>7, <2>1, <2>2, LossKeeps
<1>8. ASSUME NEW people \in SUBSET Participant
      PROVE  AdmitsStep(d, AfterJoin(d, people))
  BY <1>1, <1>2, <1>3, JoinKeeps
<1>9. AdmitsStep(d, AfterProposal(d, {}))
  <2>1. "PROPOSED" \in Live
    BY DEF Live
  <2> QED
    BY <1>1, <1>2, <1>3, <2>1, ProposalKeeps
<1> QED
  BY <1>4, <1>5, <1>6, <1>7, <1>8, <1>9 DEF StepsAreStored

\* A read that sweeps, a join and the verdict of a reasoning job are stored
\* whatever was recorded before: they change no count the repository compares.
THEOREM StoredSteps == Spec => []StepsAreStored
  BY LedgerInvariant, InvStoresSteps, PTL

LEMMA InvAllowsWithdrawal == LedgerInv => ConsentCanBeWithdrawn
<1> SUFFICES ASSUME LedgerInv PROVE ConsentCanBeWithdrawn
  OBVIOUS
<1> DEFINE d == decision
<1>1. Sound(d) /\ Fits(d, guard.permission) /\ d \in DecisionRecord
      /\ d.roster \subseteq Participant
  BY DEF LedgerInv, Sound, DecisionRecord
<1>2. /\ d.superseded <= ArchiveLimit /\ d.agreements <= ArchiveLimit
      /\ (d.status \in Live <=> d.candidate.held)
  BY <1>1, FitsMeansLimits
<1>3. /\ "REVOKE_NEGOTIATION" \in SafetyCommand /\ "REVOKE_DISCLOSURE" \in SafetyCommand
      /\ "WITHDRAW_APPROVAL" \in SafetyCommand
  BY DEF SafetyCommand
<1>4. ASSUME NEW e, Keeps(d, e), e.status \in Live <=> e.candidate.held,
             e.superseded <= ArchiveLimit, e.agreements <= ArchiveLimit,
             Withdrawable(e) + Approvals(e) < Withdrawable(d) + Approvals(d),
             NEW type \in SafetyCommand
      PROVE  Admits(d, e, type)
  <2>1. Fits(e, guard.permission) /\ HistoryCount(e) = HistoryCount(d)
    BY <1>1, <1>4, KeepingIsStored
  <2>2. e \in DecisionRecord
    BY <1>4 DEF Keeps, Sound
  <2>3. /\ Withdrawable(e) \in Nat /\ Approvals(e) \in Nat
        /\ Withdrawable(d) \in Nat /\ Approvals(d) \in Nat
    BY <1>1, <2>2, CountsAreNat
  <2>4. Withdrawable(d) + Approvals(d) > 0
    BY <1>4, <2>3
  <2> QED
    BY <1>4, <2>1, <2>4, WithdrawalIsAdmitted
<1>5. ASSUME NEW p \in Participant, d.owner[p].active > 0, NEW used \in MayUse(p)
      PROVE  Admits(d, AfterRevoke(d, p, used), "REVOKE_NEGOTIATION")
  <2> DEFINE e == AfterRevoke(d, p, used)
  <2>1. used \in BOOLEAN /\ (p \in d.candidate.rests /\ d.owner[p].active = 1 => used)
    BY <1>5 DEF MayUse
  <2>2. /\ Keeps(d, e) /\ e.agreements <= ArchiveLimit /\ e.superseded <= ArchiveLimit
        /\ (e.status \in Live <=> e.candidate.held)
        /\ e.owner[p].active = d.owner[p].active - 1
    BY <1>1, <1>2, <1>5, <2>1, LossKeeps
  <2>3. e.owner[p].active < d.owner[p].active
    <3>1. d.owner[p] \in OwnerRecord
      BY <1>1 DEF DecisionRecord
    <3>2. d.owner[p].active \in Nat
      BY <3>1 DEF OwnerRecord
    <3> QED BY <2>2, <3>2
  <2> HIDE DEF e
  <2>4. Withdrawable(e) + Approvals(e) < Withdrawable(d) + Approvals(d)
    BY <1>1, <2>2, <2>3, TakenBack
  <2>5. Admits(d, e, "REVOKE_NEGOTIATION")
    BY <1>3, <1>4, <2>2, <2>4
  <2> QED BY <2>5 DEF e
<1>6. ASSUME NEW p \in Participant, d.owner[p].granted > 0
      PROVE  Admits(d, AfterDisclosureEnds(d, p), "REVOKE_DISCLOSURE")
  <2> DEFINE e == AfterDisclosureEnds(d, p)
  <2>1. /\ Keeps(d, e) /\ e.candidate = d.candidate /\ e.status = d.status
        /\ e.superseded = d.superseded /\ e.agreements = d.agreements
        /\ e.owner[p].granted = d.owner[p].granted - 1
    BY <1>1, <1>6, DisclosureEndsKeeps
  <2>2. e.owner[p].granted < d.owner[p].granted
    <3>1. d.owner[p] \in OwnerRecord
      BY <1>1 DEF DecisionRecord
    <3>2. d.owner[p].granted \in Nat
      BY <3>1 DEF OwnerRecord
    <3> QED BY <2>1, <3>2
  <2> HIDE DEF e
  <2>3. Withdrawable(e) + Approvals(e) < Withdrawable(d) + Approvals(d)
    BY <1>1, <2>1, <2>2, TakenBack
  <2>4. Admits(d, e, "REVOKE_DISCLOSURE")
    BY <1>2, <1>3, <1>4, <2>1, <2>3
  <2> QED BY <2>4 DEF e
<1>7. ASSUME NEW p \in Participant, d.owner[p].approved
      PROVE  d.candidate.held /\ Admits(d, AfterWithdraw(d, p), "WITHDRAW_APPROVAL")
  <2> DEFINE e == AfterWithdraw(d, p)
  <2>1. /\ Keeps(d, e) /\ e.candidate = d.candidate /\ d.candidate.held /\ e.status \in Live
        /\ e.superseded = d.superseded /\ e.agreements = d.agreements
        /\ Withdrawable(e) = Withdrawable(d) /\ Approvals(e) = Approvals(d) - 1
    BY <1>1, <1>7, WithdrawKeeps
  <2> HIDE DEF e
  <2>2. Withdrawable(e) + Approvals(e) < Withdrawable(d) + Approvals(d)
    <3>1. Withdrawable(d) \in Nat /\ Approvals(d) \in Nat
      BY <1>1, CountsAreNat
    <3> QED BY <2>1, <3>1
  <2>3. Admits(d, e, "WITHDRAW_APPROVAL")
    BY <1>2, <1>3, <1>4, <2>1, <2>2
  <2> QED BY <2>1, <2>3 DEF e
<1> QED
  BY <1>1, <1>5, <1>6, <1>7 DEF ConsentCanBeWithdrawn

\* A permission, a disclosure not yet published and an approval can be taken
\* back whatever was spent before: SAFETY_RECEIPT_LIMIT covers every permission
\* record and one approval of everybody, which is all there is to take back once
\* ordinary receipts are used up.
THEOREM WithdrawableConsent == Spec => []ConsentCanBeWithdrawn
  BY LedgerInvariant, InvAllowsWithdrawal, PTL

LEMMA InvLetsSave == LedgerInv => OnlyRefusalsBlockSaving
<1> SUFFICES ASSUME LedgerInv PROVE OnlyRefusalsBlockSaving
  OBVIOUS
<1>1. Sound(decision) /\ decision \in DecisionRecord /\ decision.roster \subseteq Participant
  BY DEF LedgerInv, Sound, DecisionRecord
<1> SUFFICES ASSUME NEW p \in Participant,
                    guard.ordinary < OrdinaryLimit,
                    \A o \in Owners(decision) : o.refused = 0,
                    RetiredFits(AfterSave(decision, p))
             PROVE  Admits(decision, AfterSave(decision, p), "CONFIRM_PRIVATE_ANSWERS")
  BY <1>1 DEF OnlyRefusalsBlockSaving
<1> DEFINE e == AfterSave(decision, p)
<1>2. /\ e \in DecisionRecord /\ ~e.candidate.held /\ e.status \notin Live
      /\ e.agreements = decision.agreements
      /\ decision.superseded <= ArchiveLimit => e.superseded <= ArchiveLimit
      /\ \A q \in Participant : /\ e.owner[q].pending = 0 /\ e.owner[q].settled = 0
                                /\ e.owner[q].refused = decision.owner[q].refused
      /\ PendingCount(e) <= PendingCount(decision)
      /\ (\A q \in Participant : e.owner[q].refused = 0)
            => Sound(e) /\ HistoryCount(e) = HistoryCount(decision)
  BY <1>1, SaveShape
<1>3. RetiredFits(e)
  OBVIOUS
<1> HIDE DEF e
<1>4. Sound(e) /\ HistoryCount(e) = HistoryCount(decision)
  BY <1>2 DEF Owners
<1>5. /\ decision.superseded <= ArchiveLimit /\ decision.agreements <= ArchiveLimit
      /\ guard.permission = HistoryCount(decision)
      /\ HistoryCount(decision) + PendingCount(decision) <= HistoryLimit
  BY <1>1, FitsMeansLimits DEF LedgerInv
<1>6. /\ HistoryCount(decision) \in Nat /\ PendingCount(decision) \in Nat
      /\ PendingCount(e) \in Nat /\ HistoryLimit \in Nat /\ QuestionLimit \in Nat
  BY <1>1, <1>2, CountsAreNat, LimitAssumption
<1>7. HistoryCount(e) + PendingCount(e) <= HistoryLimit
  BY <1>2, <1>4, <1>5, <1>6
<1>8. OwnersFit(e)
  <2>1. \A q \in Participant : e.owner[q].pending + e.owner[q].settled <= QuestionLimit
    BY <1>2, <1>6
  <2> QED
    BY <1>3, <1>4, <2>1, SoundFits
<1>9. guard.permission = HistoryCount(e)
  BY <1>4, <1>5
<1>10. Fits(e, guard.permission)
  BY <1>2, <1>5, <1>7, <1>8, <1>9, FitsMeansLimits
<1>11. HistoryCount(e) - HistoryCount(decision) = 0 /\ guard.permission + 0 = guard.permission
  BY <1>4, <1>5, <1>6
<1>12. guard.total < TotalLimit
  BY GuardLimits
<1>13. Admits(decision, e, "CONFIRM_PRIVATE_ANSWERS")
  BY <1>10, <1>11, <1>12 DEF Admits
<1> QED
  BY <1>13 DEF e

\* Without a refusal, and while the retired history has room, an owner's answers
\* are saved, however many permissions, questions and disclosures are retired by
\* it (CONFIRM_PRIVATE_ANSWERS, retireOwnerPermissions).
THEOREM SavingAnswers == Spec => []OnlyRefusalsBlockSaving
  BY LedgerInvariant, InvLetsSave, PTL

=============================================================================
