------------------------ MODULE PartitionMigration ------------------------
(***************************************************************************)
(* Moving all groups from the legacy item (one item, one version) to       *)
(* partition rows: partition-migration-runner.ts, the transactions of      *)
(* dynamo-partition-migration.ts, and who writes meanwhile: the legacy     *)
(* service (group-repository.ts) before, the partition service             *)
(* (partition-managed.ts) afterwards.                                      *)
(*                                                                         *)
(* Operators may run at once, each with its own saved plan.  One call of   *)
(* prepare, freeze, step or activate looks at source, control and journal, *)
(* reads back the target rows one after another, and submits one           *)
(* transaction whose conditions repeat what it looked at.  A submitted     *)
(* transaction may take effect at any later time or never; the caller is   *)
(* not told (MIGRATION_COMMIT_UNKNOWN) and goes on by looking again.       *)
(* A conflict, which the code tries three times, is an attempt that is     *)
(* begun anew.  Recovery manifests are immutable and external: a plan, once *)
(* saved, can be read by everybody.                                        *)
(***************************************************************************)
EXTENDS Naturals, Sequences, FiniteSets

CONSTANTS Row,        \* the rows a plan compiles
          Batches,    \* how it cuts them into transactions, headers last
          Operator,   \* runs of the cutover workflow
          Writer,     \* requests in the legacy service
          Server,     \* requests in the partition service
          Absent,     \* no row, no journal
          NoPlan,     \* planHash null
          Nothing,    \* no call, no request
          MaxWrites,  \* bound: writes of either service
          MaxSent     \* bound: transactions under way at a time

ASSUME BatchesCut ==
  /\ Batches \in Seq(SUBSET Row)
  /\ \A row \in Row : \E i \in 1..Len(Batches) : row \in Batches[i]
  /\ \A i, j \in 1..Len(Batches) : i # j => Batches[i] \cap Batches[j] = {}
ASSUME AbsentIsApart == Absent \notin Nat
ASSUME BoundsAreNat == MaxWrites \in Nat /\ MaxSent \in Nat

VARIABLES source,     \* the legacy item: the groups, or a marker in their place
          control,    \* the claim on the target table
          journal,    \* per prepared plan, how many batches are copied
          rows,       \* the target rows
          saved,      \* the plan each operator has on disk
          attempt,    \* the call each operator is in
          sent,       \* transactions submitted and not yet decided
          held,       \* what a legacy request has read
          serving     \* what a partition request has read

vars == <<source, control, journal, rows, saved, attempt, sent, held, serving>>

Content == [Row -> Nat]
Operation == {"prepare", "freeze", "step", "activate"}
Plan == [version : Nat, rows : Content]      \* planHash: the snapshot decides it
ASSUME NoPlanIsApart == NoPlan \notin Plan
Last == Len(Batches)

(***************************************************************************)
(* The legacy item.  A marker names the snapshot by hash; `rows` stands    *)
(* for that hash, the bytes are in the manifest.                           *)
(***************************************************************************)
Live(plan) == [phase |-> "LIVE", version |-> plan.version, rows |-> plan.rows]
Frozen(plan) == [phase |-> "FROZEN", version |-> plan.version + 1, rows |-> plan.rows]
Active(plan) == [phase |-> "ACTIVE", version |-> plan.version + 2, rows |-> plan.rows]

\* The rows of the first n batches.
Done(n) == UNION {Batches[i] : i \in 1..n}

Init ==
  /\ source = Live([version |-> 1, rows |-> [row \in Row |-> 0]])
  /\ control = [revision |-> 0, active |-> FALSE, plan |-> NoPlan]
  /\ journal = << >>
  /\ rows = [row \in Row |-> Absent]
  /\ saved = [o \in Operator |-> NoPlan]
  /\ attempt = [o \in Operator |-> Nothing]
  /\ sent = {}
  /\ held = [w \in Writer |-> Nothing]
  /\ serving = [s \in Server |-> Nothing]

Progress(plan) == IF plan \in DOMAIN journal THEN journal[plan] ELSE Absent

(***************************************************************************)
(* An operator's plan: a snapshot of the source while the target is        *)
(* unclaimed, or the plan that claimed it.                                 *)
(***************************************************************************)
TakePlan(o) ==
  /\ attempt[o] = Nothing
  /\ IF control.plan = NoPlan
     THEN /\ source.phase = "LIVE"
          /\ saved' = [saved EXCEPT ![o] = [version |-> source.version, rows |-> source.rows]]
     ELSE /\ ~control.active
          /\ control.plan \in DOMAIN journal
          /\ saved' = [saved EXCEPT ![o] = control.plan]
  /\ UNCHANGED <<source, control, journal, rows, attempt, sent, held, serving>>

(***************************************************************************)
(* The four calls: what each must see to go on, which rows it then reads   *)
(* back (`left`) and what it expects of them.                              *)
(***************************************************************************)
Unclaimed == control.plan = NoPlan /\ ~control.active
Claimed(plan) == control.plan = plan /\ ~control.active

MayPrepare(plan) == source = Live(plan) /\ Unclaimed /\ Progress(plan) = Absent
MayFreeze(plan) == source = Live(plan) /\ Claimed(plan) /\ Progress(plan) = 0
MayStep(plan) ==
  /\ source \in {Live(plan), Frozen(plan)}
  /\ Claimed(plan)
  /\ plan \in DOMAIN journal
  /\ journal[plan] < Last
MayActivate(plan) == source = Frozen(plan) /\ Claimed(plan) /\ Progress(plan) = Last

May(op, plan) ==
  CASE op = "prepare"  -> MayPrepare(plan)
    [] op = "freeze"   -> MayFreeze(plan)
    [] op = "step"     -> MayStep(plan)
    [] op = "activate" -> MayActivate(plan)

ReadBack(op, plan) ==
  CASE op \in {"prepare", "freeze"} -> Row
    [] op = "step"                  -> Done(journal[plan])
    [] op = "activate"              -> Done(Last)

Expected(call, row) == IF call.op \in {"prepare", "freeze"} THEN Absent ELSE call.plan.rows[row]

Look(o, op) ==
  LET plan == saved[o] IN
  /\ plan # NoPlan
  /\ attempt[o] = Nothing
  /\ May(op, plan)
  /\ attempt' = [attempt EXCEPT ![o] =
       [op |-> op, plan |-> plan, control |-> control, progress |-> Progress(plan), left |-> ReadBack(op, plan)]]
  /\ UNCHANGED <<source, control, journal, rows, saved, sent, held, serving>>

\* One row is read back; a surprise ends the call.
CheckRow(o, row) ==
  LET call == attempt[o] IN
  /\ call # Nothing
  /\ row \in call.left
  /\ attempt' = [attempt EXCEPT ![o] =
       IF rows[row] = Expected(call, row) THEN [call EXCEPT !.left = @ \ {row}] ELSE Nothing]
  /\ UNCHANGED <<source, control, journal, rows, saved, sent, held, serving>>

\* The transaction is submitted.
Submit(o) ==
  LET call == attempt[o] IN
  /\ call # Nothing
  /\ call.left = {}
  /\ Cardinality(sent) < MaxSent
  /\ sent' = sent \cup {[op |-> call.op, plan |-> call.plan, control |-> call.control, progress |-> call.progress]}
  /\ attempt' = [attempt EXCEPT ![o] = Nothing]
  /\ UNCHANGED <<source, control, journal, rows, saved, held, serving>>

\* The workflow stops: a deadline, a lost runner.
Stop(o) ==
  /\ attempt[o] # Nothing
  /\ attempt' = [attempt EXCEPT ![o] = Nothing]
  /\ UNCHANGED <<source, control, journal, rows, saved, sent, held, serving>>

(***************************************************************************)
(* The transactions at the store.  Each repeats in its conditions what was *)
(* looked at; a batch also requires its rows to be absent.                 *)
(***************************************************************************)
\* A freeze that trusts what it looked at.
SourceStandsLoosely(tx) ==
  tx.op = "freeze" \/ source = (IF tx.op = "prepare" THEN Live(tx.plan) ELSE Frozen(tx.plan))

\* A batch copied from a source that is still written.
SourceStandsUnfrozen(tx) ==
  \/ source = (IF tx.op \in {"prepare", "freeze"} THEN Live(tx.plan) ELSE Frozen(tx.plan))
  \/ tx.op = "step" /\ source = Live(tx.plan)

SourceStands(tx) ==
  source = (IF tx.op \in {"prepare", "freeze"} THEN Live(tx.plan) ELSE Frozen(tx.plan))

RowsAreFree(tx) ==
  tx.op = "step" => \A row \in Batches[tx.progress + 1] : rows[row] = Absent

Holds(tx) ==
  /\ SourceStands(tx)
  /\ control = tx.control
  /\ Progress(tx.plan) = tx.progress
  /\ RowsAreFree(tx)

SourceAfter(tx) ==
  CASE tx.op = "freeze"   -> Frozen(tx.plan)
    [] tx.op = "activate" -> Active(tx.plan)
    [] OTHER              -> source

ControlAfter(tx) ==
  IF tx.op = "step" THEN control
  ELSE [revision |-> control.revision + 1, active |-> tx.op = "activate", plan |-> tx.plan]

JournalAfter(tx) ==
  CASE tx.op = "prepare" -> [plan \in DOMAIN journal \cup {tx.plan} |-> IF plan = tx.plan THEN 0 ELSE journal[plan]]
    [] tx.op = "step"    -> [journal EXCEPT ![tx.plan] = @ + 1]
    [] OTHER             -> journal

RowsAfter(tx) ==
  IF tx.op = "step"
  THEN [row \in Row |-> IF row \in Batches[tx.progress + 1] THEN tx.plan.rows[row] ELSE rows[row]]
  ELSE rows

Apply(tx) ==
  /\ Holds(tx)
  /\ source' = SourceAfter(tx)
  /\ control' = ControlAfter(tx)
  /\ journal' = JournalAfter(tx)
  /\ rows' = RowsAfter(tx)
  /\ sent' = sent \ {tx}
  /\ UNCHANGED <<saved, attempt, held, serving>>

\* Rejected by a condition, or lost on the way.
Refuse(tx) ==
  /\ sent' = sent \ {tx}
  /\ UNCHANGED <<source, control, journal, rows, saved, attempt, held, serving>>

(***************************************************************************)
(* The legacy service: read the item, write it back on its version alone.  *)
(* A marker is no group state: reading it fails.                           *)
(***************************************************************************)
LegacyRead(w) ==
  /\ source.phase = "LIVE"
  /\ held' = [held EXCEPT ![w] = [version |-> source.version, rows |-> source.rows]]
  /\ UNCHANGED <<source, control, journal, rows, saved, attempt, sent, serving>>

LegacyWrite(w, row) ==
  /\ held[w] # Nothing
  /\ held[w].version <= MaxWrites
  /\ source.version = held[w].version
  /\ source' = [phase |-> "LIVE", version |-> source.version + 1, rows |-> [held[w].rows EXCEPT ![row] = @ + 1]]
  /\ held' = [held EXCEPT ![w] = Nothing]
  /\ UNCHANGED <<control, journal, rows, saved, attempt, sent, serving>>

(***************************************************************************)
(* The partition service: every operation begins with the activation       *)
(* checkpoint, and every write repeats it as conditions.                   *)
(***************************************************************************)
Activated(plan) ==
  /\ source = Active(plan)
  /\ control.active
  /\ control.plan = plan
  /\ Progress(plan) = Last

Checkpoint(s) ==
  /\ serving[s] = Nothing
  /\ \E plan \in DOMAIN journal :
       /\ Activated(plan)
       /\ serving' = [serving EXCEPT ![s] = [plan |-> plan, control |-> control, row |-> Nothing, value |-> Absent]]
  /\ UNCHANGED <<source, control, journal, rows, saved, attempt, sent, held>>

ServeRead(s, row) ==
  /\ serving[s] # Nothing
  /\ serving[s].row = Nothing
  /\ rows[row] # Absent
  /\ serving' = [serving EXCEPT ![s] = [@ EXCEPT !.row = row, !.value = rows[row]]]
  /\ UNCHANGED <<source, control, journal, rows, saved, attempt, sent, held>>

ServeWrite(s) ==
  LET call == serving[s] IN
  /\ call # Nothing
  /\ call.row # Nothing
  /\ call.value < MaxWrites
  /\ Activated(call.plan)
  /\ control = call.control
  /\ rows[call.row] = call.value
  /\ rows' = [rows EXCEPT ![call.row] = call.value + 1]
  /\ serving' = [serving EXCEPT ![s] = Nothing]
  /\ UNCHANGED <<source, control, journal, saved, attempt, sent, held>>

ServeEnd(s) ==
  /\ serving[s] # Nothing
  /\ serving' = [serving EXCEPT ![s] = Nothing]
  /\ UNCHANGED <<source, control, journal, rows, saved, attempt, sent, held>>

Next ==
  \/ \E o \in Operator :
       \/ TakePlan(o)
       \/ \E op \in Operation : Look(o, op)
       \/ \E row \in Row : CheckRow(o, row)
       \/ Submit(o)
       \/ Stop(o)
  \/ \E tx \in sent : Apply(tx) \/ Refuse(tx)
  \/ \E w \in Writer : LegacyRead(w) \/ \E row \in Row : LegacyWrite(w, row)
  \/ \E s \in Server : Checkpoint(s) \/ (\E row \in Row : ServeRead(s, row)) \/ ServeWrite(s) \/ ServeEnd(s)

Spec == Init /\ [][Next]_vars

(***************************************************************************)
(* Properties                                                              *)
(***************************************************************************)
Control == [revision : Nat, active : BOOLEAN, plan : Plan \cup {NoPlan}]
Transaction == [op : Operation, plan : Plan, control : Control, progress : 0..Last \cup {Absent}]
Attempt == [op : Operation, plan : Plan, control : Control, progress : 0..Last \cup {Absent}, left : SUBSET Row]

\* The records of the migration have the shapes of their schemas.
TypeOK ==
  /\ source \in [phase : {"LIVE", "FROZEN", "ACTIVE"}, version : Nat, rows : Content]
  /\ control \in Control
  /\ DOMAIN journal \subseteq Plan
  /\ journal \in [DOMAIN journal -> 0..Last]
  /\ rows \in [Row -> Nat \cup {Absent}]
  /\ saved \in [Operator -> Plan \cup {NoPlan}]
  /\ attempt \in [Operator -> Attempt \cup {Nothing}]
  /\ sent \subseteq Transaction
  /\ held \in [Writer -> Plan \cup {Nothing}]
  /\ serving \in [Server -> [plan : Plan, control : Control, row : Row \cup {Nothing}, value : Nat \cup {Absent}]
                            \cup {Nothing}]

Copied(n, plan) == [row \in Row |-> IF row \in Done(n) THEN plan.rows[row] ELSE Absent]

\* A claim and its journal come and go together, and there is one of them.
OnePlanIsClaimed ==
  DOMAIN journal = IF control.plan = NoPlan THEN {} ELSE {control.plan}

\* No batch is copied while the legacy service can still write.
CopyFollowsFreeze ==
  \A plan \in DOMAIN journal : journal[plan] > 0 => source \in {Frozen(plan), Active(plan)}

\* Until activation the target holds the batches the journal counts and
\* nothing else.
JournalCountsRows ==
  ~control.active =>
    rows = IF control.plan = NoPlan THEN Copied(0, control.plan)
           ELSE Copied(journal[control.plan], control.plan)

\* The target is in use exactly when the legacy item says so, and then all
\* of it is there.
ActiveIsComplete ==
  /\ control.active <=> source.phase = "ACTIVE"
  /\ control.active => control.plan # NoPlan /\ Activated(control.plan)
  /\ control.active => \A row \in Row : rows[row] # Absent

\* Whatever stopped, got lost, came late or ran twice, what the next
\* operator finds is one plan whose journal tells which rows are there,
\* copied from a source that no longer changes: the ground on which
\* prepare, step and activate resume (partition-migration-runner.ts).
CopyIsAccountedFor ==
  /\ OnePlanIsClaimed
  /\ CopyFollowsFreeze
  /\ JournalCountsRows
  /\ ActiveIsComplete

\* Where people's groups are read from.
Current == IF control.active THEN rows ELSE source.rows

Store == INSTANCE GroupStore WITH store <- Current

\* The move cannot be seen: through freezing, copying and activation, with
\* requests of both services under way, every write rests on the one before
\* it, none is lost and none comes back.
ImplementsOneStore == Store!Spec

===========================================================================
