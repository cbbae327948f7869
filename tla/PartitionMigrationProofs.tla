---------------------- MODULE PartitionMigrationProofs ----------------------
(***************************************************************************)
(* The move to partition rows is invisible, for any rows, any cut into     *)
(* batches and any number of operators, requests and transactions.         *)
(***************************************************************************)
EXTENDS PartitionMigration, TLAPS

(***************************************************************************)
(* What a call has looked at, as far as its transaction relies on it.      *)
(***************************************************************************)
Sound(call) ==
  /\ call.op = "prepare" => call.control.plan = NoPlan /\ call.progress = Absent
  /\ call.op # "prepare" => call.control.plan = call.plan
  /\ ~call.control.active
  /\ call.op = "step" => call.progress \in 0..Last /\ call.progress < Last
  /\ call.op = "activate" => call.progress = Last

CallsAreSound ==
  /\ \A o \in Operator : attempt[o] # Nothing => Sound(attempt[o])
  /\ \A tx \in sent : Sound(tx)

\* A legacy request holds the present groups or a version that is gone.
HeldIsPast ==
  \A w \in Writer : held[w] # Nothing =>
    /\ held[w].version <= source.version
    /\ held[w].version = source.version => source = Live(held[w])

Inv == TypeOK /\ CallsAreSound /\ HeldIsPast /\ CopyIsAccountedFor

(***************************************************************************)
(* The batches.                                                            *)
(***************************************************************************)
LEMMA LastIsNat == Last \in Nat
BY BatchesCut DEF Last

LEMMA DoneGrows ==
  ASSUME NEW n \in Nat
  PROVE  Done(n + 1) = Done(n) \cup Batches[n + 1]
<1>1. 1..(n + 1) = 1..n \cup {n + 1}
  OBVIOUS
<1> QED BY <1>1 DEF Done

LEMMA DoneIsRows == Done(0) = {} /\ Row \subseteq Done(Last)
<1>1. Done(0) = {}
  BY DEF Done
<1>2. Row \subseteq Done(Last)
  BY BatchesCut DEF Done, Last
<1> QED BY <1>1, <1>2

LEMMA CopiedGrows ==
  ASSUME NEW n \in Nat, NEW plan \in Plan
  PROVE  Copied(n + 1, plan)
           = [row \in Row |-> IF row \in Batches[n + 1] THEN plan.rows[row] ELSE Copied(n, plan)[row]]
BY DoneGrows DEF Copied

LEMMA CopiedAll ==
  ASSUME NEW plan \in Plan
  PROVE  Copied(Last, plan) = plan.rows
BY DoneIsRows DEF Copied, Plan, Content

LEMMA CopiedNone ==
  ASSUME NEW p, NEW q
  PROVE  Copied(0, p) = Copied(0, q) /\ Copied(0, p) = [row \in Row |-> Absent]
BY DoneIsRows DEF Copied

(***************************************************************************)
(* Types.                                                                  *)
(***************************************************************************)
LEMMA TypeInit == Init => TypeOK
<1> SUFFICES ASSUME Init PROVE TypeOK
  OBVIOUS
<1>1. [row \in Row |-> 0] \in Content
  BY DEF Content
<1>2. source \in [phase : {"LIVE", "FROZEN", "ACTIVE"}, version : Nat, rows : Content]
  BY <1>1 DEF Init, Live
<1>3. control \in Control
  BY DEF Init, Control
<1>4. DOMAIN journal = {} /\ journal \in [DOMAIN journal -> 0..Last]
  BY DEF Init
<1> QED BY <1>2, <1>3, <1>4 DEF Init, TypeOK

LEMMA ProgressType ==
  ASSUME TypeOK, NEW plan \in Plan
  PROVE  Progress(plan) \in 0..Last \cup {Absent}
BY DEF TypeOK, Progress

LEMMA TypeTransaction ==
  ASSUME TypeOK, NEW tx \in sent, Apply(tx), Sound(tx)
  PROVE  TypeOK'
<1> USE DEF TypeOK
<1> tx \in Transaction
  OBVIOUS
<1>1. tx.plan \in Plan /\ tx.op \in Operation
  BY DEF Transaction
<1>2. source' \in [phase : {"LIVE", "FROZEN", "ACTIVE"}, version : Nat, rows : Content]
  BY <1>1 DEF Apply, SourceAfter, Frozen, Active, Plan, Operation
<1>3. control' \in Control
  BY <1>1 DEF Apply, ControlAfter, Control
<1>4. DOMAIN journal' \subseteq Plan /\ journal' \in [DOMAIN journal' -> 0..Last]
  <2>1. CASE tx.op = "prepare"
    <3>1. journal' = [plan \in DOMAIN journal \cup {tx.plan} |-> IF plan = tx.plan THEN 0 ELSE journal[plan]]
      BY <2>1 DEF Apply, JournalAfter
    <3>2. 0 \in 0..Last
      BY LastIsNat
    <3> QED BY <1>1, <3>1, <3>2
  <2>2. CASE tx.op = "step"
    <3>1. journal' = [journal EXCEPT ![tx.plan] = @ + 1]
      BY <2>2 DEF Apply, JournalAfter
    <3>2. Progress(tx.plan) \in 0..Last /\ Progress(tx.plan) < Last
      BY <2>2 DEF Apply, Holds, Sound
    <3>3. tx.plan \in DOMAIN journal => journal[tx.plan] + 1 \in 0..Last
      BY <3>2, LastIsNat DEF Progress
    <3> QED BY <3>1, <3>3
  <2>3. CASE tx.op \in {"freeze", "activate"}
    BY <2>3 DEF Apply, JournalAfter
  <2> QED BY <1>1, <2>1, <2>2, <2>3 DEF Operation
<1>5. rows' \in [Row -> Nat \cup {Absent}]
  BY <1>1 DEF Apply, RowsAfter, Plan, Content
<1>6. sent' \subseteq Transaction
  BY DEF Apply
<1> QED BY <1>2, <1>3, <1>4, <1>5, <1>6 DEF Apply

LEMMA TypeStep == Inv /\ [Next]_vars => TypeOK'
<1> SUFFICES ASSUME TypeOK, CallsAreSound, ActiveIsComplete, [Next]_vars PROVE TypeOK'
  BY DEF Inv, CopyIsAccountedFor
<1> USE DEF TypeOK
<1>1. ASSUME NEW o \in Operator, TakePlan(o) PROVE TypeOK'
  <2>1. saved' \in [Operator -> Plan \cup {NoPlan}]
    BY <1>1 DEF TakePlan, Plan
  <2> QED BY <1>1, <2>1 DEF TakePlan
<1>2. ASSUME NEW o \in Operator, NEW op \in Operation, Look(o, op) PROVE TypeOK'
  <2>1. saved[o] \in Plan
    BY <1>2 DEF Look
  <2>2. ReadBack(op, saved[o]) \in SUBSET Row
    <3>1. \A n \in 0..Last : Done(n) \subseteq Row
      BY BatchesCut DEF Done, Last
    <3>2. op = "step" => journal[saved[o]] \in 0..Last
      BY <1>2 DEF Look, May, MayStep
    <3>3. Last \in 0..Last
      BY LastIsNat
    <3> QED BY <3>1, <3>2, <3>3 DEF ReadBack, Operation
  <2>3. [op |-> op, plan |-> saved[o], control |-> control, progress |-> Progress(saved[o]), left |-> ReadBack(op, saved[o])] \in Attempt
    BY <2>1, <2>2, ProgressType DEF Attempt
  <2>4. attempt' \in [Operator -> Attempt \cup {Nothing}]
    BY <1>2, <2>3 DEF Look
  <2> QED BY <1>2, <2>4 DEF Look
<1>3. ASSUME NEW o \in Operator, NEW row \in Row, CheckRow(o, row) PROVE TypeOK'
  <2>1. attempt[o] \in Attempt
    BY <1>3 DEF CheckRow
  <2>2. [attempt[o] EXCEPT !.left = @ \ {row}] \in Attempt
    BY <2>1 DEF Attempt
  <2>3. attempt' \in [Operator -> Attempt \cup {Nothing}]
    BY <1>3, <2>2 DEF CheckRow
  <2> QED BY <1>3, <2>3 DEF CheckRow
<1>4. ASSUME NEW o \in Operator, Submit(o) PROVE TypeOK'
  <2>1. attempt[o] \in Attempt
    BY <1>4 DEF Submit
  <2>2. sent' \subseteq Transaction
    BY <1>4, <2>1 DEF Submit, Attempt, Transaction
  <2> QED BY <1>4, <2>2 DEF Submit
<1>5. ASSUME NEW o \in Operator, Stop(o) PROVE TypeOK'
  BY <1>5 DEF Stop
<1>6. ASSUME NEW tx \in sent, Apply(tx) PROVE TypeOK'
  BY <1>6, TypeTransaction DEF CallsAreSound
<1>7. ASSUME NEW tx \in sent, Refuse(tx) PROVE TypeOK'
  BY <1>7 DEF Refuse
<1>8. ASSUME NEW w \in Writer, LegacyRead(w) PROVE TypeOK'
  <2>1. [version |-> source.version, rows |-> source.rows] \in Plan
    BY DEF Plan
  <2> QED BY <1>8, <2>1 DEF LegacyRead
<1>9. ASSUME NEW w \in Writer, NEW row \in Row, LegacyWrite(w, row) PROVE TypeOK'
  <2>1. held[w] \in Plan
    BY <1>9 DEF LegacyWrite
  <2>2. [held[w].rows EXCEPT ![row] = @ + 1] \in Content
    BY <2>1 DEF Plan, Content
  <2>3. source' \in [phase : {"LIVE", "FROZEN", "ACTIVE"}, version : Nat, rows : Content]
    BY <1>9, <2>2 DEF LegacyWrite
  <2> QED BY <1>9, <2>3 DEF LegacyWrite
<1>10. ASSUME NEW s \in Server, Checkpoint(s) PROVE TypeOK'
  BY <1>10 DEF Checkpoint
<1> DEFINE Request == [plan : Plan, control : Control, row : Row \cup {Nothing}, value : Nat \cup {Absent}]
<1>11. ASSUME NEW s \in Server, NEW row \in Row, ServeRead(s, row) PROVE TypeOK'
  <2>1. serving[s] \in Request
    BY <1>11 DEF ServeRead
  <2>2. [serving[s] EXCEPT !.row = row, !.value = rows[row]] \in Request
    BY <2>1
  <2>3. serving' \in [Server -> Request \cup {Nothing}]
    BY <1>11, <2>2 DEF ServeRead
  <2> QED BY <1>11, <2>3 DEF ServeRead
<1>12. ASSUME NEW s \in Server, ServeWrite(s) PROVE TypeOK'
  <2>1. serving[s] \in Request /\ serving[s].row \in Row
    BY <1>12 DEF ServeWrite
  <2>2. serving[s].value \in Nat
    <3>1. rows[serving[s].row] \in Nat
      BY <1>12, <2>1 DEF ServeWrite, Activated, ActiveIsComplete
    <3> QED BY <1>12, <3>1 DEF ServeWrite
  <2>3. rows' \in [Row -> Nat \cup {Absent}]
    BY <1>12, <2>2 DEF ServeWrite
  <2>4. serving' \in [Server -> Request \cup {Nothing}]
    BY <1>12 DEF ServeWrite
  <2> QED BY <1>12, <2>3, <2>4 DEF ServeWrite
<1>13. ASSUME NEW s \in Server, ServeEnd(s) PROVE TypeOK'
  BY <1>13 DEF ServeEnd
<1>14. CASE UNCHANGED vars
  BY <1>14 DEF vars
<1> QED BY <1>1, <1>2, <1>3, <1>4, <1>5, <1>6, <1>7, <1>8, <1>9, <1>10, <1>11, <1>12, <1>13, <1>14 DEF Next

(***************************************************************************)
(* What a call looked at stays what its transaction says.                  *)
(***************************************************************************)
LEMMA LookedSoundly ==
  ASSUME TypeOK, NEW plan \in Plan, NEW op \in Operation, May(op, plan), NEW left
  PROVE  Sound([op |-> op, plan |-> plan, control |-> control, progress |-> Progress(plan), left |-> left])
<1>1. CASE op = "prepare"
  BY <1>1 DEF May, MayPrepare, Unclaimed, Sound
<1>2. CASE op = "freeze"
  BY <1>2 DEF May, MayFreeze, Claimed, Sound
<1>3. CASE op = "step"
  <2>1. Progress(plan) \in 0..Last /\ Progress(plan) < Last
    BY <1>3 DEF May, MayStep, Progress, TypeOK
  <2> QED BY <1>3, <2>1 DEF May, MayStep, Claimed, Sound
<1>4. CASE op = "activate"
  BY <1>4 DEF May, MayActivate, Claimed, Sound
<1> QED BY <1>1, <1>2, <1>3, <1>4 DEF Operation

LEMMA SoundStep == TypeOK /\ CallsAreSound /\ [Next]_vars => CallsAreSound'
<1> SUFFICES ASSUME TypeOK, CallsAreSound, [Next]_vars PROVE CallsAreSound'
  OBVIOUS
<1>1. ASSUME NEW o \in Operator, NEW op \in Operation, Look(o, op) PROVE CallsAreSound'
  <2>1. saved[o] \in Plan
    BY <1>1 DEF Look, TypeOK
  <2>2. Sound(attempt'[o])
    BY <1>1, <2>1, LookedSoundly DEF Look, TypeOK
  <2>3. \A p \in Operator \ {o} : attempt'[p] = attempt[p]
    BY <1>1 DEF Look, TypeOK
  <2> QED BY <1>1, <2>2, <2>3 DEF Look, CallsAreSound
<1>2. ASSUME NEW o \in Operator, NEW row \in Row, CheckRow(o, row) PROVE CallsAreSound'
  <2>1. attempt[o] \in Attempt /\ Sound(attempt[o])
    BY <1>2 DEF CheckRow, TypeOK, CallsAreSound
  <2>2. attempt'[o] # Nothing => attempt'[o] = [attempt[o] EXCEPT !.left = @ \ {row}]
    BY <1>2 DEF CheckRow, TypeOK
  <2>3. attempt'[o] # Nothing => Sound(attempt'[o])
    BY <2>1, <2>2 DEF Attempt, Sound
  <2>4. \A p \in Operator \ {o} : attempt'[p] = attempt[p]
    BY <1>2 DEF CheckRow, TypeOK
  <2> QED BY <1>2, <2>3, <2>4 DEF CheckRow, CallsAreSound
<1>3. ASSUME NEW o \in Operator, Submit(o) PROVE CallsAreSound'
  <2> DEFINE tx == [op |-> attempt[o].op, plan |-> attempt[o].plan, control |-> attempt[o].control,
                    progress |-> attempt[o].progress]
  <2>1. Sound(attempt[o])
    BY <1>3 DEF Submit, CallsAreSound
  <2>2. Sound(tx)
    BY <2>1 DEF Sound
  <2>3. sent' = sent \cup {tx} /\ attempt' = [attempt EXCEPT ![o] = Nothing]
    BY <1>3 DEF Submit
  <2> QED BY <2>2, <2>3 DEF CallsAreSound, TypeOK
<1>4. ASSUME NEW o \in Operator, Stop(o) PROVE CallsAreSound'
  BY <1>4 DEF Stop, CallsAreSound, TypeOK
<1>5. ASSUME NEW tx \in sent, Apply(tx) \/ Refuse(tx) PROVE CallsAreSound'
  BY <1>5 DEF Apply, Refuse, CallsAreSound
<1>6. CASE UNCHANGED <<attempt, sent>>
  BY <1>6 DEF CallsAreSound
<1> QED BY <1>1, <1>2, <1>3, <1>4, <1>5, <1>6
        DEF Next, TakePlan, LegacyRead, LegacyWrite, Checkpoint, ServeRead, ServeWrite, ServeEnd, vars

(***************************************************************************)
(* Versions of the legacy item only grow, so a request that finds its      *)
(* version finds the groups it has read, and no marker.                    *)
(***************************************************************************)
LEMMA HeldStep == TypeOK /\ HeldIsPast /\ [Next]_vars => HeldIsPast'
<1> SUFFICES ASSUME TypeOK, HeldIsPast, [Next]_vars PROVE HeldIsPast'
  OBVIOUS
<1>1. ASSUME NEW tx \in sent, Apply(tx) PROVE HeldIsPast'
  <2>1. tx.plan \in Plan
    BY DEF TypeOK, Transaction
  <2>2. source' = source \/ source'.version = source.version + 1
    BY <1>1, <2>1 DEF Apply, Holds, SourceStands, SourceAfter, Live, Frozen, Active, Plan
  <2>3. source.version \in Nat /\ \A w \in Writer : held[w] # Nothing => held[w].version \in Nat
    BY DEF TypeOK, Plan
  <2> QED BY <1>1, <2>2, <2>3 DEF Apply, HeldIsPast
<1>2. ASSUME NEW w \in Writer, LegacyRead(w) PROVE HeldIsPast'
  <2>1. source = Live([version |-> source.version, rows |-> source.rows])
    BY <1>2 DEF LegacyRead, Live, TypeOK
  <2> QED BY <1>2, <2>1 DEF LegacyRead, HeldIsPast, TypeOK
<1>3. ASSUME NEW w \in Writer, NEW row \in Row, LegacyWrite(w, row) PROVE HeldIsPast'
  <2>1. source'.version = source.version + 1
    BY <1>3 DEF LegacyWrite
  <2>2. source.version \in Nat /\ \A v \in Writer : held[v] # Nothing => held[v].version \in Nat
    BY DEF TypeOK, Plan
  <2>3. \A v \in Writer : held'[v] = Nothing \/ held'[v] = held[v]
    BY <1>3 DEF LegacyWrite, TypeOK
  <2> QED BY <2>1, <2>2, <2>3 DEF HeldIsPast
<1>4. CASE UNCHANGED <<source, held>>
  BY <1>4 DEF HeldIsPast
<1> QED BY <1>1, <1>2, <1>3, <1>4
        DEF Next, TakePlan, Look, CheckRow, Submit, Stop, Refuse, Checkpoint, ServeRead, ServeWrite, ServeEnd, vars

(***************************************************************************)
(* The journal accounts for the copy.                                      *)
(***************************************************************************)
LEMMA CopyAfterTransaction ==
  ASSUME TypeOK, CopyIsAccountedFor, NEW tx \in sent, Sound(tx), Apply(tx)
  PROVE  CopyIsAccountedFor'
<1> DEFINE plan == tx.plan
<1>1. plan \in Plan /\ tx.op \in Operation /\ plan # NoPlan
  BY NoPlanIsApart DEF TypeOK, Transaction
<1>2. control = tx.control /\ ~control.active /\ Progress(plan) = tx.progress
  BY DEF Apply, Holds, Sound
<1>3. tx.op # "prepare" => control.plan = plan /\ DOMAIN journal = {plan} /\ journal[plan] \in 0..Last
  BY <1>1, <1>2 DEF Sound, CopyIsAccountedFor, OnePlanIsClaimed, TypeOK
<1>4. tx.op # "prepare" => rows = Copied(journal[plan], plan) /\ Progress(plan) = journal[plan]
  BY <1>1, <1>2, <1>3 DEF CopyIsAccountedFor, JournalCountsRows, Progress
<1>5. CASE tx.op = "prepare"
  <2>1. control.plan = NoPlan /\ DOMAIN journal = {} /\ source = Live(plan)
    BY <1>2, <1>5 DEF Sound, CopyIsAccountedFor, OnePlanIsClaimed, Apply, Holds, SourceStands
  <2>2. control' = [revision |-> control.revision + 1, active |-> FALSE, plan |-> plan]
    BY <1>5 DEF Apply, ControlAfter
  <2>3. DOMAIN journal' = {plan} /\ journal'[plan] = 0
    BY <1>5, <2>1 DEF Apply, JournalAfter
  <2>4. source' = source /\ rows' = rows
    BY <1>5 DEF Apply, SourceAfter, RowsAfter
  <2>5. rows = Copied(0, plan)
    <3>1. rows = Copied(0, control.plan)
      BY <1>2, <2>1 DEF CopyIsAccountedFor, JournalCountsRows
    <3> QED BY <3>1, CopiedNone
  <2>6. OnePlanIsClaimed' /\ CopyFollowsFreeze'
    BY <1>1, <2>2, <2>3 DEF OnePlanIsClaimed, CopyFollowsFreeze
  <2>7. JournalCountsRows'
    BY <1>1, <2>2, <2>3, <2>4, <2>5 DEF JournalCountsRows, Copied
  <2>8. ActiveIsComplete'
    BY <2>1, <2>2, <2>4 DEF ActiveIsComplete, Live
  <2> QED BY <2>6, <2>7, <2>8 DEF CopyIsAccountedFor
<1>6. CASE tx.op = "freeze"
  <2>1. source' = Frozen(plan) /\ journal' = journal /\ rows' = rows
    BY <1>6 DEF Apply, SourceAfter, JournalAfter, RowsAfter
  <2>2. control' = [revision |-> control.revision + 1, active |-> FALSE, plan |-> plan]
    BY <1>6 DEF Apply, ControlAfter
  <2>3. OnePlanIsClaimed' /\ CopyFollowsFreeze'
    BY <1>1, <1>3, <1>6, <2>1, <2>2 DEF OnePlanIsClaimed, CopyFollowsFreeze, Frozen
  <2>4. JournalCountsRows'
    BY <1>1, <1>4, <1>6, <2>1, <2>2 DEF JournalCountsRows, Copied
  <2>5. ActiveIsComplete'
    BY <2>1, <2>2 DEF ActiveIsComplete, Frozen
  <2> QED BY <2>3, <2>4, <2>5 DEF CopyIsAccountedFor
<1>7. CASE tx.op = "step"
  <2>1. source' = source /\ source = Frozen(plan) /\ control' = control
    BY <1>7 DEF Apply, Holds, SourceStands, SourceAfter, ControlAfter
  <2>2. journal' = [journal EXCEPT ![plan] = @ + 1]
    BY <1>7 DEF Apply, JournalAfter
  <2>3. DOMAIN journal' = {plan} /\ journal'[plan] = journal[plan] + 1
    BY <1>3, <1>7, <2>2
  <2>4. rows' = Copied(journal[plan] + 1, plan)
    <3>1. tx.progress = journal[plan] /\ journal[plan] \in Nat
      BY <1>2, <1>3, <1>4, <1>7
    <3>2. rows' = [row \in Row |-> IF row \in Batches[journal[plan] + 1] THEN plan.rows[row] ELSE rows[row]]
      BY <1>7, <3>1 DEF Apply, RowsAfter
    <3> QED BY <1>1, <1>4, <1>7, <3>1, <3>2, CopiedGrows
  <2>5. OnePlanIsClaimed' /\ CopyFollowsFreeze'
    BY <1>1, <1>3, <1>7, <2>1, <2>3 DEF OnePlanIsClaimed, CopyFollowsFreeze, Frozen
  <2>6. JournalCountsRows'
    BY <1>1, <1>3, <1>7, <2>1, <2>3, <2>4 DEF JournalCountsRows, Copied
  <2>7. ActiveIsComplete'
    BY <1>2, <2>1 DEF ActiveIsComplete, Frozen
  <2> QED BY <2>5, <2>6, <2>7 DEF CopyIsAccountedFor
<1>8. CASE tx.op = "activate"
  <2>1. source' = Active(plan) /\ journal' = journal /\ rows' = rows
    BY <1>8 DEF Apply, SourceAfter, JournalAfter, RowsAfter
  <2>2. control' = [revision |-> control.revision + 1, active |-> TRUE, plan |-> plan]
    BY <1>8 DEF Apply, ControlAfter
  <2>3. journal[plan] = Last
    BY <1>2, <1>4, <1>8 DEF Sound
  <2>4. OnePlanIsClaimed' /\ CopyFollowsFreeze'
    BY <1>1, <1>3, <1>8, <2>1, <2>2 DEF OnePlanIsClaimed, CopyFollowsFreeze, Active
  <2>5. JournalCountsRows'
    BY <2>2 DEF JournalCountsRows
  <2>6. \A row \in Row : rows'[row] # Absent
    BY <1>1, <1>4, <1>8, <2>1, <2>3, CopiedAll, AbsentIsApart DEF Plan, Content
  <2>7. Activated(control.plan)'
    BY <1>3, <1>8, <2>1, <2>2, <2>3 DEF Activated, Progress, Active
  <2>8. ActiveIsComplete'
    BY <1>1, <2>1, <2>2, <2>6, <2>7 DEF ActiveIsComplete, Active
  <2> QED BY <2>4, <2>5, <2>8 DEF CopyIsAccountedFor
<1> QED BY <1>1, <1>5, <1>6, <1>7, <1>8 DEF Operation

LEMMA CopyStep == Inv /\ [Next]_vars => CopyIsAccountedFor'
<1> SUFFICES ASSUME Inv, [Next]_vars PROVE CopyIsAccountedFor'
  OBVIOUS
<1> USE DEF Inv
<1>1. ASSUME NEW tx \in sent, Apply(tx) PROVE CopyIsAccountedFor'
  BY <1>1, CopyAfterTransaction DEF CallsAreSound
<1>2. ASSUME NEW w \in Writer, NEW row \in Row, LegacyWrite(w, row) PROVE CopyIsAccountedFor'
  <2>1. source.phase = "LIVE" /\ source'.phase = "LIVE"
    BY <1>2 DEF LegacyWrite, HeldIsPast, Live, TypeOK
  <2>2. UNCHANGED <<control, journal, rows>>
    BY <1>2 DEF LegacyWrite
  <2>3. \A plan \in DOMAIN journal : ~(journal[plan] > 0)
    BY <2>1 DEF CopyIsAccountedFor, CopyFollowsFreeze, Frozen, Active
  <2>4. ~control.active
    BY <2>1 DEF CopyIsAccountedFor, ActiveIsComplete
  <2>5. OnePlanIsClaimed' /\ CopyFollowsFreeze' /\ ActiveIsComplete'
    BY <2>1, <2>2, <2>3, <2>4 DEF CopyIsAccountedFor, OnePlanIsClaimed, CopyFollowsFreeze, ActiveIsComplete
  <2>6. JournalCountsRows'
    BY <2>2 DEF CopyIsAccountedFor, JournalCountsRows, Copied
  <2> QED BY <2>5, <2>6 DEF CopyIsAccountedFor
<1>3. ASSUME NEW s \in Server, ServeWrite(s) PROVE CopyIsAccountedFor'
  <2>1. UNCHANGED <<source, control, journal>> /\ control.active
    BY <1>3 DEF ServeWrite, Activated
  <2>2. \A row \in Row : rows'[row] # Absent
    <3>1. serving[s].row \in Row
      BY <1>3 DEF ServeWrite, TypeOK
    <3>2. rows[serving[s].row] \in Nat
      BY <2>1, <3>1 DEF CopyIsAccountedFor, ActiveIsComplete, TypeOK
    <3>3. rows' = [rows EXCEPT ![serving[s].row] = serving[s].value + 1] /\ serving[s].value \in Nat
      BY <1>3, <3>2 DEF ServeWrite
    <3> QED BY <2>1, <3>1, <3>3, AbsentIsApart DEF CopyIsAccountedFor, ActiveIsComplete, TypeOK
  <2>3. OnePlanIsClaimed' /\ CopyFollowsFreeze' /\ JournalCountsRows'
    BY <2>1 DEF CopyIsAccountedFor, OnePlanIsClaimed, CopyFollowsFreeze, JournalCountsRows
  <2>4. ActiveIsComplete'
    BY <2>1, <2>2 DEF CopyIsAccountedFor, ActiveIsComplete, Activated, Progress
  <2> QED BY <2>3, <2>4 DEF CopyIsAccountedFor
<1>4. CASE UNCHANGED <<source, control, journal, rows>>
  BY <1>4 DEF CopyIsAccountedFor, OnePlanIsClaimed, CopyFollowsFreeze, JournalCountsRows, ActiveIsComplete,
              Activated, Progress, Copied
<1> QED BY <1>1, <1>2, <1>3, <1>4
        DEF Next, TakePlan, Look, CheckRow, Submit, Stop, Refuse, LegacyRead, Checkpoint, ServeRead, ServeEnd, vars

LEMMA InvInit == Init => Inv
<1> SUFFICES ASSUME Init PROVE Inv
  OBVIOUS
<1>1. TypeOK
  BY TypeInit
<1>2. CallsAreSound /\ HeldIsPast
  BY DEF Init, CallsAreSound, HeldIsPast
<1>3. control.plan = NoPlan /\ ~control.active /\ DOMAIN journal = {} /\ source.phase = "LIVE"
  BY DEF Init, Live
<1>4. rows = Copied(0, control.plan)
  BY CopiedNone DEF Init
<1> QED BY <1>1, <1>2, <1>3, <1>4
        DEF Inv, CopyIsAccountedFor, OnePlanIsClaimed, CopyFollowsFreeze, JournalCountsRows, ActiveIsComplete

LEMMA InvStep == Inv /\ [Next]_vars => Inv'
BY TypeStep, SoundStep, HeldStep, CopyStep DEF Inv

\* The migration's records are always well formed.
THEOREM TypeCorrect == Spec => []TypeOK
<1>1. Inv => TypeOK
  BY DEF Inv
<1> QED BY <1>1, InvInit, InvStep, PTL DEF Spec

\* Whatever stopped, got lost, came late or ran twice, the journal tells
\* which rows are there, and nothing is copied before the freeze or used
\* before the copy is complete (partition-migration-runner.ts,
\* dynamo-partition-migration.ts).
THEOREM CopyAccounted == Spec => []CopyIsAccountedFor
<1>1. Inv => CopyIsAccountedFor
  BY DEF Inv
<1> QED BY <1>1, InvInit, InvStep, PTL DEF Spec

(***************************************************************************)
(* The move is invisible.                                                  *)
(***************************************************************************)
LEMMA StoreInit == Init => Store!Init
BY DEF Init, Store!Init, Current, Live

LEMMA StoreStep == Inv /\ [Next]_vars => [Store!Next]_Current
<1> SUFFICES ASSUME Inv, [Next]_vars PROVE [Store!Next]_Current
  OBVIOUS
<1> USE DEF Inv
<1>1. ASSUME NEW tx \in sent, Apply(tx) PROVE Current' = Current
  <2>1. tx.plan \in Plan /\ tx.op \in Operation /\ Sound(tx)
    BY DEF TypeOK, Transaction, CallsAreSound
  <2>2. ~control.active /\ control = tx.control
    BY <1>1, <2>1 DEF Apply, Holds, Sound
  <2>3. CASE tx.op # "activate"
    <3>1. ~control'.active
      BY <1>1, <2>2, <2>3 DEF Apply, ControlAfter
    <3>2. source'.rows = source.rows
      BY <1>1, <2>1, <2>3 DEF Apply, Holds, SourceStands, SourceAfter, Live, Frozen, Operation
    <3> QED BY <2>2, <3>1, <3>2 DEF Current
  <2>4. CASE tx.op = "activate"
    <3>1. control'.active /\ rows' = rows /\ source.rows = tx.plan.rows
      BY <1>1, <2>4 DEF Apply, ControlAfter, RowsAfter, Holds, SourceStands, Frozen
    <3>2. Progress(tx.plan) = Last /\ control.plan = tx.plan /\ tx.plan # NoPlan
      BY <1>1, <2>1, <2>2, <2>4, NoPlanIsApart DEF Sound, Apply, Holds
    <3>3. journal[tx.plan] = Last
      BY <3>2 DEF CopyIsAccountedFor, OnePlanIsClaimed, Progress
    <3>4. rows = Copied(Last, tx.plan)
      BY <2>2, <3>2, <3>3 DEF CopyIsAccountedFor, JournalCountsRows
    <3> QED BY <2>1, <2>2, <3>1, <3>4, CopiedAll DEF Current
  <2> QED BY <2>3, <2>4
<1>2. ASSUME NEW w \in Writer, NEW row \in Row, LegacyWrite(w, row) PROVE Store!Write(row)
  <2>1. source = Live(held[w])
    BY <1>2 DEF LegacyWrite, HeldIsPast
  <2>2. ~control.active /\ control' = control
    BY <1>2, <2>1 DEF LegacyWrite, CopyIsAccountedFor, ActiveIsComplete, Live
  <2>3. source'.rows = [source.rows EXCEPT ![row] = @ + 1]
    BY <1>2, <2>1 DEF LegacyWrite, Live
  <2> QED BY <2>2, <2>3 DEF Store!Write, Current
<1>3. ASSUME NEW s \in Server, ServeWrite(s) PROVE \E row \in Row : Store!Write(row)
  <2>1. control.active /\ control' = control
    BY <1>3 DEF ServeWrite, Activated
  <2>2. serving[s].row \in Row
    BY <1>3 DEF ServeWrite, TypeOK
  <2>3. rows' = [rows EXCEPT ![serving[s].row] = @ + 1]
    BY <1>3 DEF ServeWrite
  <2> QED BY <2>1, <2>2, <2>3 DEF Store!Write, Current
<1>4. CASE UNCHANGED <<source, control, rows>>
  BY <1>4 DEF Current
<1> QED BY <1>1, <1>2, <1>3, <1>4
        DEF Store!Next, Next, TakePlan, Look, CheckRow, Submit, Stop, Refuse, LegacyRead, Checkpoint, ServeRead, ServeEnd, vars

\* Freezing, copying and activation cannot be seen by those who read and
\* write groups: no write is lost and none comes back.
THEOREM MoveIsInvisible == Spec => ImplementsOneStore
BY StoreInit, StoreStep, InvInit, InvStep, PTL DEF Spec, ImplementsOneStore, Store!Spec

=============================================================================
