---------------------- MODULE DecisionTransactionProofs ----------------------
(***************************************************************************)
(* What an idempotency key promises, for any number of clients, commands,  *)
(* requests and attempts.                                                  *)
(*                                                                         *)
(* The argument is about the snapshot an invocation holds: it is the       *)
(* stored decision as long as the guard has the version that was read, so  *)
(* what Write stores is the stored decision changed by one command that is *)
(* expected there.  Whatever the decision contains already rests on older  *)
(* versions than any command that can still be expected.                   *)
(***************************************************************************)
EXTENDS DecisionTransaction, TLAPS

\* Commands on their way were submitted by somebody.
CallsHaveCommands == \A i \in Invocation :
    call[i].pc # "idle" => call[i].key \in Key /\ Issuer(call[i].key) \in Client
PendingIsOwn == \A c \in Client : pending[c] # None => Issuer(pending[c]) = c

\* A snapshot is the stored decision while the guard has not moved.
SnapshotIsCurrent == \A i \in Invocation :
    call[i].pc = "loaded" =>
        /\ call[i].version <= version
        /\ call[i].version = version => call[i].read = decision

\* Receipts say what the decision contains, results and answers what receipts say.
ReceiptsAreTrue == \A k \in Key :
    /\ receipt[k] = "SAVED" <=> k \in decision.applied
    /\ effects[k] = IF k \in decision.applied THEN 1 ELSE 0
    /\ told[k] # "OPEN" => told[k] = receipt[k]
ResultIsReceipt == \A i \in Invocation :
    call[i].pc = "answering" =>
        call[i].result # "OPEN" /\ call[i].result = receipt[call[i].key]

\* What the decision contains rests on versions that are gone.
AppliedIsPast == \A k \in decision.applied :
    /\ Issuer(k) \in Client
    /\ command[k].kind = "STRICT" => command[k].control < decision.control
    /\ command[k].kind = "ANSWERS" => command[k].owner < decision.owner[Issuer(k)]

Inv ==
    /\ TypeOK /\ CallsHaveCommands /\ PendingIsOwn
    /\ SnapshotIsCurrent /\ ReceiptsAreTrue /\ ResultIsReceipt
    /\ AppliedIsPast /\ RivalsExclude

-----------------------------------------------------------------------------
(* Records *)

LEMMA NewDecisionIsDecision == NewDecision \in Decision /\ NewDecision.applied = {}
  BY DEF NewDecision, Decision

LEMMA CallAtIsCall ==
    ASSUME NEW pc \in Label, NEW k \in Key \union {None}, NEW n \in 1..MaxAttempts,
           NEW res \in Receipt
    PROVE  CallAt(pc, k, n, res) \in Call
  BY NewDecisionIsDecision DEF CallAt, Call

LEMMA CallAtFields ==
    ASSUME NEW pc, NEW k, NEW n, NEW res
    PROVE  /\ CallAt(pc, k, n, res).pc = pc
           /\ CallAt(pc, k, n, res).key = k
           /\ CallAt(pc, k, n, res).result = res
  BY DEF CallAt

LEMMA IdleIsIdle == Idle \in Call /\ Idle.pc = "idle"
  <1>1. 1 \in 1..MaxAttempts
    BY BoundAssumption
  <1> QED
    BY <1>1, CallAtIsCall, CallAtFields DEF Idle, Label, Receipt

LEMMA LoadingIsCall ==
    ASSUME NEW k \in Key, NEW n \in 1..MaxAttempts
    PROVE  /\ Loading(k, n) \in Call
           /\ Loading(k, n).pc = "loading" /\ Loading(k, n).key = k
  BY CallAtIsCall, CallAtFields DEF Loading, Label, Receipt

LEMMA AnsweringIsCall ==
    ASSUME NEW k \in Key, NEW res \in Receipt
    PROVE  /\ Answering(k, res) \in Call
           /\ Answering(k, res).pc = "answering" /\ Answering(k, res).key = k
           /\ Answering(k, res).result = res
  <1>1. 1 \in 1..MaxAttempts
    BY BoundAssumption
  <1> QED
    BY <1>1, CallAtIsCall, CallAtFields DEF Answering, Label

LEMMA InitInv == Init => Inv
  <1> SUFFICES ASSUME Init PROVE Inv
    OBVIOUS
  <1>1. NewDecision \in Decision /\ NewDecision.applied = {}
    BY NewDecisionIsDecision
  <1>2. NoCommand \in Command /\ NoCommand.client = None
    BY DEF NoCommand, Command, Kind
  <1>3. TypeOK
    BY <1>1, <1>2, IdleIsIdle, BoundAssumption DEF Init, TypeOK, Receipt
  <1>4. CallsHaveCommands /\ SnapshotIsCurrent /\ ResultIsReceipt
    BY IdleIsIdle DEF Init, CallsHaveCommands, SnapshotIsCurrent, ResultIsReceipt
  <1>5. PendingIsOwn
    BY DEF Init, PendingIsOwn
  <1>6. ReceiptsAreTrue /\ AppliedIsPast /\ RivalsExclude
    BY <1>1 DEF Init, ReceiptsAreTrue, AppliedIsPast, RivalsExclude
  <1> QED
    BY <1>3, <1>4, <1>5, <1>6 DEF Inv

-----------------------------------------------------------------------------
(* Steps that leave the store alone *)

\* One invocation moves on, and nothing is written.
LEMMA CallMoves ==
    ASSUME Inv, UNCHANGED storeVars,
           \A k \in Key : Issuer(k) \in Client => Issuer(k)' \in Client,
           NEW i \in Invocation, NEW next \in Call, call' = [call EXCEPT ![i] = next],
           next.pc # "idle" => next.key \in Key /\ Issuer(next.key)' \in Client,
           next.pc = "loaded" => next.version = version /\ next.read = decision,
           next.pc = "answering" => next.result # "OPEN" /\ next.result = receipt[next.key]
    PROVE  /\ call' \in [Invocation -> Call]
           /\ CallsHaveCommands' /\ SnapshotIsCurrent' /\ ResultIsReceipt'
  <1>1. call \in [Invocation -> Call] /\ version \in Nat
    BY DEF Inv, TypeOK
  <1>2. \A j \in Invocation : call'[j] = IF j = i THEN next ELSE call[j]
    BY <1>1
  <1>3. call' \in [Invocation -> Call]
    BY <1>1
  <1>4. CallsHaveCommands'
    BY <1>2 DEF Inv, CallsHaveCommands
  <1>5. SnapshotIsCurrent'
    BY <1>1, <1>2 DEF Inv, SnapshotIsCurrent, storeVars
  <1>6. ResultIsReceipt'
    BY <1>2 DEF Inv, ResultIsReceipt, storeVars
  <1> QED
    BY <1>3, <1>4, <1>5, <1>6

\* With the store and the commands, what was said of them stays.
LEMMA StoreKept ==
    ASSUME Inv, UNCHANGED <<storeVars, command>>,
           \A k \in Key : told'[k] # "OPEN" => told'[k] = receipt[k]
    PROVE  ReceiptsAreTrue' /\ AppliedIsPast' /\ RivalsExclude'
  <1>1. ReceiptsAreTrue'
    BY DEF Inv, ReceiptsAreTrue, storeVars
  <1>2. AppliedIsPast' /\ RivalsExclude'
    BY DEF Inv, AppliedIsPast, RivalsExclude, Rivals, Issuer, storeVars
  <1> QED
    BY <1>1, <1>2

LEMMA LatestIsSeen ==
    ASSUME TypeOK, NEW c \in Client
    PROVE  [seen EXCEPT ![c] = Latest(c)] \in [Client -> [control : Nat, owner : Nat]]
  <1>1. decision.control \in Nat /\ decision.owner[c] \in Nat
    BY DEF TypeOK, Decision
  <1> QED
    BY <1>1 DEF TypeOK, Latest

LEMMA SubmitInv ==
    ASSUME Inv, NEW c \in Client, NEW i \in Invocation, NEW k \in Key, NEW kind \in Kind,
           Submit(c, i, k, kind)
    PROVE  Inv'
  <1> DEFINE new == [client |-> c, kind |-> kind, control |-> seen[c].control,
                     owner |-> seen[c].owner]
  <1>1. TypeOK /\ Issuer(k) = None
    BY DEF Inv, Submit
  <1>2. new \in Command /\ command' = [command EXCEPT ![k] = new]
    BY <1>1 DEF Submit, TypeOK, Command
  <1>3. /\ command' \in [Key -> Command]
        /\ Issuer(k)' = c /\ \A j \in Key \ {k} : command'[j] = command[j]
    BY <1>1, <1>2 DEF TypeOK, Issuer
  <1>4. Loading(k, 1) \in Call /\ Loading(k, 1).pc = "loading" /\ Loading(k, 1).key = k
    BY LoadingIsCall, BoundAssumption
  <1>5. call' = [call EXCEPT ![i] = Loading(k, 1)] /\ waiting' = [waiting EXCEPT ![c] = i]
    BY DEF Submit, Request
  <1>6. /\ call' \in [Invocation -> Call]
        /\ CallsHaveCommands' /\ SnapshotIsCurrent' /\ ResultIsReceipt'
    BY <1>3, <1>4, <1>5, CallMoves DEF Submit, Issuer
  <1>7. TypeOK'
    BY <1>1, <1>3, <1>5, <1>6 DEF Submit, TypeOK, storeVars
  <1>8. PendingIsOwn'
    <2> SUFFICES ASSUME NEW b \in Client, pending'[b] # None
                 PROVE  command'[pending'[b]].client = b
      BY DEF PendingIsOwn, Issuer
    <2>1. CASE b = c
      BY <1>1, <1>3, <2>1 DEF Submit, TypeOK
    <2>2. CASE b # c
      <3>1. pending'[b] = pending[b] /\ Issuer(pending[b]) = b /\ pending[b] \in Key
        BY <1>1, <2>2 DEF Submit, TypeOK, Inv, PendingIsOwn
      <3>2. pending[b] # k
        BY <1>1, <3>1, NamesAssumption
      <3> QED
        BY <1>3, <3>1, <3>2 DEF Issuer
    <2> QED
      BY <2>1, <2>2
  <1>9. ReceiptsAreTrue'
    BY DEF Inv, ReceiptsAreTrue, Submit, storeVars
  <1>10. k \notin decision.applied /\ decision.applied \subseteq Key
    BY <1>1, NamesAssumption DEF Inv, AppliedIsPast, TypeOK, Decision
  <1>11. AppliedIsPast'
    BY <1>3, <1>10 DEF Inv, AppliedIsPast, Submit, storeVars, Issuer
  <1>12. RivalsExclude'
    BY <1>3, <1>10 DEF Inv, RivalsExclude, Rivals, Submit, storeVars, Issuer
  <1> QED
    BY <1>6, <1>7, <1>8, <1>9, <1>11, <1>12 DEF Inv

LEMMA RetryInv ==
    ASSUME Inv, NEW c \in Client, NEW i \in Invocation, Retry(c, i)
    PROVE  Inv'
  <1> DEFINE k == pending[c]
  <1>1. TypeOK /\ k \in Key /\ Issuer(k) = c
    BY DEF Inv, PendingIsOwn, Retry, TypeOK
  <1>2. Loading(k, 1) \in Call /\ Loading(k, 1).pc = "loading" /\ Loading(k, 1).key = k
    BY <1>1, LoadingIsCall, BoundAssumption
  <1>3. call' = [call EXCEPT ![i] = Loading(k, 1)] /\ waiting' = [waiting EXCEPT ![c] = i]
    BY DEF Retry, Request
  <1>4. /\ call' \in [Invocation -> Call]
        /\ CallsHaveCommands' /\ SnapshotIsCurrent' /\ ResultIsReceipt'
    BY <1>1, <1>2, <1>3, CallMoves DEF Retry, Issuer
  <1>5. TypeOK'
    BY <1>1, <1>3, <1>4 DEF Retry, TypeOK, storeVars
  <1>6. PendingIsOwn'
    BY DEF Inv, PendingIsOwn, Retry, Issuer
  <1>7. ReceiptsAreTrue' /\ AppliedIsPast' /\ RivalsExclude'
    BY StoreKept DEF Retry, Inv, ReceiptsAreTrue
  <1> QED
    BY <1>4, <1>5, <1>6, <1>7 DEF Inv

LEMMA RefreshInv ==
    ASSUME Inv, NEW c \in Client, Refresh(c)
    PROVE  Inv'
  <1>1. TypeOK'
    BY LatestIsSeen DEF Inv, TypeOK, Refresh, storeVars
  <1>2. PendingIsOwn'
    BY DEF Inv, PendingIsOwn, Refresh, Issuer, TypeOK
  <1>3. CallsHaveCommands' /\ SnapshotIsCurrent' /\ ResultIsReceipt'
    BY DEF Inv, CallsHaveCommands, SnapshotIsCurrent, ResultIsReceipt, Refresh, Issuer, storeVars
  <1>4. ReceiptsAreTrue' /\ AppliedIsPast' /\ RivalsExclude'
    BY StoreKept DEF Refresh, Inv, ReceiptsAreTrue
  <1> QED
    BY <1>1, <1>2, <1>3, <1>4 DEF Inv

LEMMA LoseConnectionInv ==
    ASSUME Inv, NEW c \in Client, LoseConnection(c)
    PROVE  Inv'
  <1>1. TypeOK'
    BY DEF Inv, TypeOK, LoseConnection, storeVars
  <1>2. PendingIsOwn'
    BY DEF Inv, PendingIsOwn, LoseConnection, Issuer
  <1>3. CallsHaveCommands' /\ SnapshotIsCurrent' /\ ResultIsReceipt'
    BY DEF Inv, CallsHaveCommands, SnapshotIsCurrent, ResultIsReceipt, LoseConnection,
           Issuer, storeVars
  <1>4. ReceiptsAreTrue' /\ AppliedIsPast' /\ RivalsExclude'
    BY StoreKept DEF LoseConnection, Inv, ReceiptsAreTrue
  <1> QED
    BY <1>1, <1>2, <1>3, <1>4 DEF Inv

LEMMA LoadInv ==
    ASSUME Inv, NEW i \in Invocation, Load(i)
    PROVE  Inv'
  <1> DEFINE k == call[i].key
             next == IF receipt[k] # "OPEN" THEN Answering(k, receipt[k])
                     ELSE [call[i] EXCEPT !.pc = "loaded", !.read = decision, !.version = version]
  <1>1. TypeOK /\ call[i] \in Call /\ k \in Key /\ Issuer(k) \in Client
    BY DEF Inv, CallsHaveCommands, Load, TypeOK
  <1>2. receipt[k] \in Receipt /\ decision \in Decision /\ version \in Nat
    BY <1>1 DEF TypeOK
  <1>3. call' = [call EXCEPT ![i] = next]
    BY <1>1 DEF Load, TypeOK
  <1>4. /\ next \in Call /\ next.key = k
        /\ next.pc = "loaded" => next.version = version /\ next.read = decision
        /\ next.pc = "answering" => next.result # "OPEN" /\ next.result = receipt[k]
    <2>1. CASE receipt[k] # "OPEN"
      BY <1>1, <1>2, <2>1, AnsweringIsCall
    <2>2. CASE receipt[k] = "OPEN"
      BY <1>1, <1>2, <2>2 DEF Call, Label
    <2> QED
      BY <2>1, <2>2
  <1> HIDE DEF next
  <1>5. /\ call' \in [Invocation -> Call]
        /\ CallsHaveCommands' /\ SnapshotIsCurrent' /\ ResultIsReceipt'
    BY <1>1, <1>3, <1>4, CallMoves DEF Load, clientVars, Issuer
  <1>6. TypeOK' /\ PendingIsOwn'
    BY <1>1, <1>5 DEF Load, TypeOK, storeVars, clientVars, Inv, PendingIsOwn, Issuer
  <1>7. ReceiptsAreTrue' /\ AppliedIsPast' /\ RivalsExclude'
    BY StoreKept DEF Load, Inv, ReceiptsAreTrue, clientVars
  <1> QED
    BY <1>5, <1>6, <1>7 DEF Inv

\* Ending a request or another attempt changes no command and no answer.
LEMMA ReleaseKeeps ==
    ASSUME Inv, NEW i \in Invocation, Release(i)
    PROVE  /\ call' = [call EXCEPT ![i] = Idle]
           /\ waiting' \in [Client -> Invocation \union {None}]
           /\ UNCHANGED <<command, seen, pending, told>>
  BY DEF Release, Inv, TypeOK

LEMMA AgainKeeps ==
    ASSUME Inv, NEW i \in Invocation, call[i].pc = "loaded", Again(i)
    PROVE  \E next \in Call :
              /\ call' = [call EXCEPT ![i] = next]
              /\ next.pc = "loading" /\ next.key = call[i].key
              /\ UNCHANGED <<command, seen, pending, waiting, told>>
  <1>1. call[i].key \in Key /\ call[i].attempt + 1 \in 1..MaxAttempts
    BY BoundAssumption DEF Inv, TypeOK, CallsHaveCommands, Again, Call
  <1>2. /\ Loading(call[i].key, call[i].attempt + 1) \in Call
        /\ Loading(call[i].key, call[i].attempt + 1).pc = "loading"
        /\ Loading(call[i].key, call[i].attempt + 1).key = call[i].key
    BY <1>1, LoadingIsCall
  <1> QED
    BY <1>2 DEF Again, clientVars

LEMMA TryAgainInv ==
    ASSUME Inv, NEW i \in Invocation, TryAgain(i)
    PROVE  Inv'
  <1>1. call[i].key \in Key /\ Issuer(call[i].key) \in Client
    BY DEF Inv, CallsHaveCommands, TryAgain
  <1>2. PICK next \in Call : /\ call' = [call EXCEPT ![i] = next]
                             /\ next.pc = "loading" /\ next.key = call[i].key
                             /\ UNCHANGED <<command, seen, pending, waiting, told>>
    BY AgainKeeps DEF TryAgain
  <1>3. /\ call' \in [Invocation -> Call]
        /\ CallsHaveCommands' /\ SnapshotIsCurrent' /\ ResultIsReceipt'
    BY <1>1, <1>2, CallMoves DEF TryAgain, Issuer
  <1>4. TypeOK' /\ PendingIsOwn'
    BY <1>2, <1>3 DEF TryAgain, TypeOK, storeVars, Inv, PendingIsOwn, Issuer
  <1>5. ReceiptsAreTrue' /\ AppliedIsPast' /\ RivalsExclude'
    BY <1>2, StoreKept DEF TryAgain, Inv, ReceiptsAreTrue
  <1> QED
    BY <1>3, <1>4, <1>5 DEF Inv

LEMMA FailInv ==
    ASSUME Inv, NEW i \in Invocation, Fail(i)
    PROVE  Inv'
  <1>1. /\ call' = [call EXCEPT ![i] = Idle]
        /\ waiting' \in [Client -> Invocation \union {None}]
        /\ UNCHANGED <<command, seen, pending, told>>
    BY ReleaseKeeps DEF Fail
  <1>2. /\ call' \in [Invocation -> Call]
        /\ CallsHaveCommands' /\ SnapshotIsCurrent' /\ ResultIsReceipt'
    BY <1>1, IdleIsIdle, CallMoves DEF Fail, Issuer
  <1>3. TypeOK' /\ PendingIsOwn'
    BY <1>1, <1>2 DEF Fail, TypeOK, storeVars, Inv, PendingIsOwn, Issuer
  <1>4. ReceiptsAreTrue' /\ AppliedIsPast' /\ RivalsExclude'
    BY <1>1, StoreKept DEF Fail, Inv, ReceiptsAreTrue
  <1> QED
    BY <1>2, <1>3, <1>4 DEF Inv

\* What is answered is what the receipt says, to whoever still waits.
LEMMA AnswerInv ==
    ASSUME Inv, NEW i \in Invocation, Answer(i)
    PROVE  Inv'
  <1> DEFINE k == call[i].key
             c == Issuer(k)
  <1>1. /\ TypeOK /\ k \in Key /\ c \in Client
        /\ call[i].result # "OPEN" /\ call[i].result = receipt[k]
    BY DEF Inv, CallsHaveCommands, ResultIsReceipt, Answer
  <1>2. call' = [call EXCEPT ![i] = Idle] /\ UNCHANGED <<storeVars, command, writes>>
    BY DEF Answer
  <1>3. /\ call' \in [Invocation -> Call]
        /\ CallsHaveCommands' /\ SnapshotIsCurrent' /\ ResultIsReceipt'
    BY <1>2, IdleIsIdle, CallMoves DEF Issuer
  <1>4. \/ UNCHANGED told
        \/ told' = [told EXCEPT ![k] = receipt[k]]
    BY <1>1 DEF Answer
  <1>5. told' \in [Key -> Receipt] /\ \A j \in Key : told'[j] # "OPEN" => told'[j] = receipt[j]
    BY <1>1, <1>4 DEF TypeOK, Inv, ReceiptsAreTrue
  <1>6. /\ waiting' \in [Client -> Invocation \union {None}]
        /\ seen' \in [Client -> [control : Nat, owner : Nat]]
    BY <1>1, LatestIsSeen DEF Answer, TypeOK
  <1>7. \/ UNCHANGED pending
        \/ pending' = [pending EXCEPT ![c] = None]
    BY DEF Answer
  <1>8. pending' \in [Client -> Key \union {None}] /\ PendingIsOwn'
    BY <1>1, <1>2, <1>7 DEF TypeOK, Inv, PendingIsOwn, Issuer
  <1>9. TypeOK'
    BY <1>1, <1>2, <1>3, <1>5, <1>6, <1>8 DEF TypeOK, storeVars
  <1>10. ReceiptsAreTrue' /\ AppliedIsPast' /\ RivalsExclude'
    BY <1>2, <1>5, StoreKept
  <1> QED
    BY <1>3, <1>8, <1>9, <1>10 DEF Inv

-----------------------------------------------------------------------------
(* Steps that write *)

\* A command applied to a decision where it is expected: the decision keeps what
\* it has, and the version the command rests on is gone.
LEMMA AppliedMovesOn ==
    ASSUME NEW d \in Decision, NEW k \in Key, command[k] \in Command, Issuer(k) \in Client,
           NEW t \in Swept(d), Expected(t, k), NEW bump \in Bumps(k)
    PROVE  LET next == Applied(t, k, bump)
           IN  /\ next \in Decision /\ next.applied = d.applied \union {k}
               /\ d.control < next.control
               /\ \A c \in Client : d.owner[c] <= next.owner[c]
               /\ command[k].kind = "STRICT" =>
                     d.control <= command[k].control /\ command[k].control < next.control
               /\ command[k].kind = "ANSWERS" =>
                     /\ command[k].owner = d.owner[Issuer(k)]
                     /\ command[k].owner < next.owner[Issuer(k)]
  <1> DEFINE next == Applied(t, k, bump)
  <1>1. /\ d.control \in Nat /\ d.owner \in [Client -> Nat] /\ d.applied \in SUBSET Key
        /\ command[k].control \in Nat /\ command[k].owner \in Nat
    BY DEF Decision, Command
  <1>2. /\ t.control \in Nat /\ d.control <= t.control
        /\ t.owner = d.owner /\ t.applied = d.applied
    BY <1>1 DEF Swept, Decision
  <1>3. bump \in {0, 1} /\ (command[k].kind = "ANSWERS" => bump = 1)
    BY DEF Bumps
  <1>4. /\ next.control = t.control + 1 /\ next.applied = d.applied \union {k}
        /\ next.owner = [d.owner EXCEPT ![Issuer(k)] = @ + bump]
    BY <1>2 DEF Applied
  <1>5. \A c \in Client : next.owner[c] = IF c = Issuer(k) THEN d.owner[c] + bump ELSE d.owner[c]
    BY <1>1, <1>4
  <1>6. next \in Decision
    <2>1. next.owner \in [Client -> Nat]
      BY <1>1, <1>3, <1>4
    <2>2. next.control \in Nat /\ next.applied \in SUBSET Key
      BY <1>1, <1>2, <1>4
    <2> QED
      BY <2>1, <2>2 DEF Applied, Decision
  <1>7. /\ command[k].kind = "STRICT" => command[k].control = t.control
        /\ command[k].owner = d.owner[Issuer(k)]
    BY <1>2 DEF Expected
  <1>8. ASSUME NEW c \in Client
        PROVE  d.owner[c] <= next.owner[c]
    <2>1. d.owner[c] \in Nat /\ bump \in Nat
      BY <1>1, <1>3
    <2>2. next.owner[c] = d.owner[c] + bump \/ next.owner[c] = d.owner[c]
      BY <1>5
    <2> HIDE DEF next
    <2> QED
      BY <2>1, <2>2
  <1>9. command[k].kind = "ANSWERS" => command[k].owner < next.owner[Issuer(k)]
    BY <1>1, <1>3, <1>5, <1>7
  <1> QED
    BY <1>1, <1>2, <1>4, <1>6, <1>7, <1>8, <1>9

\* Write decides one open command, on the stored decision.
LEMMA WriteDecides ==
    ASSUME Inv, NEW i \in Invocation, call[i].pc = "loaded",
           NEW out \in Outcomes(i), Write(i, out)
    PROVE  LET k == call[i].key
           IN  /\ k \in Key /\ receipt[k] = "OPEN" /\ out.result \in Result
               /\ receipt' = [receipt EXCEPT ![k] = out.result]
               /\ version' = version + 1
               /\ \/ out.result = "REFUSED" /\ decision' = decision /\ effects' = effects
                  \/ /\ out.result = "SAVED"
                     /\ effects' = [effects EXCEPT ![k] = @ + 1]
                     /\ \E t \in Swept(decision), bump \in Bumps(k) :
                           Expected(t, k) /\ decision' = Applied(t, k, bump)
  <1>1. call[i].key \in Key /\ call[i].read = decision
    BY DEF Inv, CallsHaveCommands, SnapshotIsCurrent, Write
  <1>2. CASE out = [decision |-> decision, result |-> "REFUSED"]
    BY <1>1, <1>2 DEF Write, Result
  <1>3. CASE \E t \in Swept(decision), bump \in Bumps(call[i].key) :
                /\ Expected(t, call[i].key)
                /\ out = [decision |-> Applied(t, call[i].key, bump), result |-> "SAVED"]
    BY <1>1, <1>3 DEF Write, Result
  <1> QED
    BY <1>1, <1>2, <1>3 DEF Outcomes

\* What a write does to the store, whatever the invocation learns of it.
LEMMA WriteKeeps ==
    ASSUME Inv, NEW i \in Invocation, call[i].pc = "loaded",
           NEW out \in Outcomes(i), Write(i, out), UNCHANGED <<command, told>>
    PROVE  LET k == call[i].key
           IN  /\ decision' \in Decision /\ version' \in Nat
               /\ receipt' \in [Key -> Receipt] /\ effects' \in [Key -> Nat]
               /\ ReceiptsAreTrue' /\ AppliedIsPast' /\ RivalsExclude'
               /\ decision.applied \subseteq decision'.applied
               /\ decision.control <= decision'.control
               /\ \A c \in Client : decision.owner[c] <= decision'.owner[c]
  <1> DEFINE k == call[i].key
  <1>1. /\ TypeOK /\ k \in Key /\ Issuer(k) \in Client /\ command[k] \in Command
        /\ decision \in Decision /\ decision.applied \in SUBSET Key
        /\ decision.control \in Nat /\ decision.owner \in [Client -> Nat]
    BY DEF Inv, CallsHaveCommands, TypeOK, Decision
  <1>2. /\ receipt[k] = "OPEN" /\ out.result \in Result
        /\ receipt' = [receipt EXCEPT ![k] = out.result]
        /\ version' = version + 1
    BY WriteDecides
  <1>3. version' \in Nat /\ receipt' \in [Key -> Receipt]
    BY <1>1, <1>2 DEF TypeOK, Receipt
  <1>4. \A j \in Key : receipt'[j] = IF j = k THEN out.result ELSE receipt[j]
    BY <1>1, <1>2 DEF TypeOK
  <1>5. k \notin decision.applied /\ told[k] = "OPEN" /\ effects[k] = 0
    BY <1>1, <1>2 DEF Inv, ReceiptsAreTrue
  <1>6. CASE out.result = "REFUSED" /\ decision' = decision /\ effects' = effects
    <2>1. ReceiptsAreTrue'
      BY <1>4, <1>5, <1>6 DEF Inv, ReceiptsAreTrue
    <2>2. AppliedIsPast' /\ RivalsExclude'
      BY <1>6 DEF Inv, AppliedIsPast, RivalsExclude, Rivals, Issuer
    <2> QED
      BY <1>1, <1>3, <1>6, <2>1, <2>2 DEF TypeOK
  <1>7. ASSUME out.result = "SAVED", effects' = [effects EXCEPT ![k] = @ + 1],
               NEW t \in Swept(decision), NEW bump \in Bumps(k),
               Expected(t, k), decision' = Applied(t, k, bump)
        PROVE  /\ decision' \in Decision /\ effects' \in [Key -> Nat]
               /\ ReceiptsAreTrue' /\ AppliedIsPast' /\ RivalsExclude'
               /\ decision.applied \subseteq decision'.applied
               /\ decision.control <= decision'.control
               /\ \A c \in Client : decision.owner[c] <= decision'.owner[c]
    <2>1. /\ decision' \in Decision /\ decision'.applied = decision.applied \union {k}
          /\ decision.control < decision'.control
          /\ \A c \in Client : decision.owner[c] <= decision'.owner[c]
          /\ command[k].kind = "STRICT" =>
                /\ decision.control <= command[k].control
                /\ command[k].control < decision'.control
          /\ command[k].kind = "ANSWERS" =>
                /\ command[k].owner = decision.owner[Issuer(k)]
                /\ command[k].owner < decision'.owner[Issuer(k)]
      BY <1>1, <1>7, AppliedMovesOn
    <2>2. effects' \in [Key -> Nat] /\ effects'[k] = 1
          /\ \A j \in Key \ {k} : effects'[j] = effects[j]
      BY <1>1, <1>5, <1>7 DEF TypeOK
    <2>3. ReceiptsAreTrue'
      BY <1>4, <1>5, <1>7, <2>1, <2>2 DEF Inv, ReceiptsAreTrue
    <2>4. AppliedIsPast'
      <3> SUFFICES ASSUME NEW j \in decision'.applied
                   PROVE  /\ Issuer(j) \in Client
                          /\ command[j].kind = "STRICT" => command[j].control < decision'.control
                          /\ command[j].kind = "ANSWERS" =>
                                command[j].owner < decision'.owner[Issuer(j)]
        BY DEF AppliedIsPast, Issuer
      <3>1. CASE j = k
        BY <1>1, <2>1, <3>1
      <3>2. CASE j \in decision.applied
        <4>1. /\ Issuer(j) \in Client /\ command[j].control \in Nat /\ command[j].owner \in Nat
              /\ command[j].kind = "STRICT" => command[j].control < decision.control
              /\ command[j].kind = "ANSWERS" => command[j].owner < decision.owner[Issuer(j)]
          BY <1>1, <3>2 DEF Inv, AppliedIsPast, TypeOK, Command
        <4>2. decision'.control \in Nat /\ decision.owner[Issuer(j)] \in Nat
              /\ decision'.owner[Issuer(j)] \in Nat
          BY <1>1, <2>1, <4>1 DEF Decision
        <4> QED
          BY <1>1, <2>1, <4>1, <4>2
      <3> QED
        BY <2>1, <3>1, <3>2
    <2>5. \A j \in decision.applied : ~Rivals(j, k) /\ ~Rivals(k, j)
      <3> SUFFICES ASSUME NEW j \in decision.applied, command[j].kind = command[k].kind
                   PROVE  /\ command[j].kind = "STRICT" => command[j].control # command[k].control
                          /\ command[j].kind = "ANSWERS" /\ Issuer(j) = Issuer(k) =>
                                command[j].owner # command[k].owner
        BY DEF Rivals
      <3>1. /\ command[j].control \in Nat /\ command[j].owner \in Nat
            /\ command[k].control \in Nat /\ decision.owner[Issuer(k)] \in Nat
            /\ command[j].kind = "STRICT" => command[j].control < decision.control
            /\ command[j].kind = "ANSWERS" => command[j].owner < decision.owner[Issuer(j)]
        BY <1>1 DEF Inv, AppliedIsPast, TypeOK, Command
      <3> QED
        BY <1>1, <2>1, <3>1
    <2>6. RivalsExclude'
      BY <2>1, <2>5 DEF Inv, RivalsExclude, Rivals, Issuer
    <2> QED
      BY <1>1, <2>1, <2>2, <2>3, <2>4, <2>6 DEF Decision
  <1> QED
    BY <1>3, <1>6, <1>7, WriteDecides

\* One invocation writes and moves on; the snapshots of all others are stale.
LEMMA CommitMoves ==
    ASSUME Inv, NEW i \in Invocation, call[i].pc = "loaded",
           NEW out \in Outcomes(i), Write(i, out), UNCHANGED command,
           NEW next \in Call, call' = [call EXCEPT ![i] = next],
           next.pc # "loaded", next.pc # "idle" => next.key = call[i].key,
           next.pc = "answering" => next.result = out.result
    PROVE  /\ call' \in [Invocation -> Call]
           /\ CallsHaveCommands' /\ SnapshotIsCurrent' /\ ResultIsReceipt'
  <1> DEFINE k == call[i].key
  <1>1. call \in [Invocation -> Call] /\ version \in Nat /\ receipt \in [Key -> Receipt]
    BY DEF Inv, TypeOK
  <1>2. \A j \in Invocation : call'[j] = IF j = i THEN next ELSE call[j]
    BY <1>1
  <1>3. /\ k \in Key /\ Issuer(k) \in Client /\ receipt[k] = "OPEN" /\ version' = version + 1
        /\ out.result \in Result /\ receipt' = [receipt EXCEPT ![k] = out.result]
    BY WriteDecides DEF Inv, CallsHaveCommands
  <1>4. call' \in [Invocation -> Call]
    BY <1>1
  <1>5. CallsHaveCommands'
    BY <1>2, <1>3 DEF Inv, CallsHaveCommands, Issuer
  <1>6. SnapshotIsCurrent'
    <2> SUFFICES ASSUME NEW j \in Invocation, call'[j].pc = "loaded"
                 PROVE  call'[j].version < version'
      BY <1>1, <1>3, <1>4 DEF SnapshotIsCurrent, Call
    <2>1. call'[j] = call[j] /\ call[j].version \in Nat /\ call[j].version <= version
      BY <1>1, <1>2 DEF Inv, SnapshotIsCurrent, Call
    <2> QED
      BY <1>1, <1>3, <2>1
  <1>7. ResultIsReceipt'
    <2> SUFFICES ASSUME NEW j \in Invocation, call'[j].pc = "answering"
                 PROVE  /\ call'[j].result # "OPEN"
                        /\ call'[j].result = receipt'[call'[j].key]
      BY DEF ResultIsReceipt
    <2>1. CASE j = i
      BY <1>1, <1>2, <1>3, <2>1 DEF Result
    <2>2. CASE j # i
      <3>1. /\ call'[j] = call[j] /\ call[j].key \in Key
            /\ call[j].result # "OPEN" /\ call[j].result = receipt[call[j].key]
        BY <1>2, <2>2 DEF Inv, ResultIsReceipt, CallsHaveCommands
      <3>2. call[j].key # k
        BY <1>3, <3>1
      <3> QED
        BY <1>1, <1>3, <3>1, <3>2
    <2> QED
      BY <2>1, <2>2
  <1> QED
    BY <1>4, <1>5, <1>6, <1>7

LEMMA CommitInv ==
    ASSUME Inv, NEW i \in Invocation, Commit(i)
    PROVE  Inv'
  <1>1. call[i].pc = "loaded" /\ UNCHANGED writes
    BY DEF Commit
  <1>2. PICK out \in Outcomes(i) :
          /\ Write(i, out)
          /\ \/ /\ call' = [call EXCEPT ![i] = Answering(call[i].key, out.result)]
                /\ UNCHANGED clientVars
             \/ Again(i)
             \/ Release(i)
    BY DEF Commit
  <1>3. call[i].key \in Key /\ out.result \in Receipt
    BY <1>1, <1>2, WriteDecides DEF Receipt
  <1>4. /\ UNCHANGED <<command, seen, pending, told>>
        /\ waiting' \in [Client -> Invocation \union {None}]
        /\ \E next \in Call :
              /\ call' = [call EXCEPT ![i] = next]
              /\ next.pc # "loaded" /\ (next.pc # "idle" => next.key = call[i].key)
              /\ next.pc = "answering" => next.result = out.result
    <2>1. CASE /\ call' = [call EXCEPT ![i] = Answering(call[i].key, out.result)]
               /\ UNCHANGED clientVars
      <3> DEFINE ans == Answering(call[i].key, out.result)
      <3>1. /\ ans \in Call /\ ans.pc = "answering" /\ ans.key = call[i].key
            /\ ans.result = out.result
        BY <1>3, AnsweringIsCall
      <3>2. UNCHANGED <<command, seen, pending, told>> /\ waiting' = waiting
        BY <2>1 DEF clientVars
      <3>3. waiting \in [Client -> Invocation \union {None}]
        BY DEF Inv, TypeOK
      <3> HIDE DEF ans
      <3> QED
        BY <2>1, <3>1, <3>2, <3>3 DEF ans
    <2>2. CASE Again(i)
      BY <1>1, <2>2, AgainKeeps DEF Inv, TypeOK
    <2>3. CASE Release(i)
      BY <2>3, ReleaseKeeps, IdleIsIdle
    <2> QED
      BY <1>2, <2>1, <2>2, <2>3
  <1>5. /\ decision' \in Decision /\ version' \in Nat
        /\ receipt' \in [Key -> Receipt] /\ effects' \in [Key -> Nat]
        /\ ReceiptsAreTrue' /\ AppliedIsPast' /\ RivalsExclude'
    BY <1>1, <1>2, <1>4, WriteKeeps
  <1>6. /\ call' \in [Invocation -> Call]
        /\ CallsHaveCommands' /\ SnapshotIsCurrent' /\ ResultIsReceipt'
    BY <1>1, <1>2, <1>4, CommitMoves
  <1>7. TypeOK' /\ PendingIsOwn'
    BY <1>1, <1>4, <1>5, <1>6 DEF TypeOK, Inv, PendingIsOwn, Issuer
  <1> QED
    BY <1>5, <1>6, <1>7 DEF Inv

LEMMA SystemWriteInv ==
    ASSUME Inv, SystemWrite
    PROVE  Inv'
  <1>1. /\ TypeOK /\ decision \in Decision /\ decision.control \in Nat /\ version \in Nat
        /\ decision.applied \in SUBSET Key
    BY DEF Inv, TypeOK, Decision
  <1>2. /\ decision' = [decision EXCEPT !.control = @ + 1] /\ version' = version + 1
        /\ UNCHANGED <<receipt, effects, command, seen, pending, waiting, told, call>>
    BY DEF SystemWrite, clientVars
  <1>3. /\ decision' \in Decision /\ decision'.control = decision.control + 1
        /\ decision'.owner = decision.owner /\ decision'.applied = decision.applied
    BY <1>1, <1>2 DEF Decision
  <1>4. writes' \in 0..MaxSystem
    BY BoundAssumption DEF Inv, TypeOK, SystemWrite
  <1>5. TypeOK' /\ PendingIsOwn'
    BY <1>1, <1>2, <1>3, <1>4 DEF TypeOK, Inv, PendingIsOwn, Issuer
  <1>6. CallsHaveCommands' /\ ResultIsReceipt' /\ ReceiptsAreTrue' /\ RivalsExclude'
    BY <1>2, <1>3 DEF Inv, CallsHaveCommands, ResultIsReceipt, ReceiptsAreTrue,
                      RivalsExclude, Rivals, Issuer
  <1>7. SnapshotIsCurrent'
    <2> SUFFICES ASSUME NEW j \in Invocation, call[j].pc = "loaded"
                 PROVE  call[j].version < version'
      BY <1>1, <1>2 DEF SnapshotIsCurrent, TypeOK, Call
    <2>1. call[j].version \in Nat /\ call[j].version <= version
      BY <1>1 DEF Inv, SnapshotIsCurrent, TypeOK, Call
    <2> QED
      BY <1>1, <1>2, <2>1
  <1>8. AppliedIsPast'
    <2> SUFFICES ASSUME NEW j \in decision.applied
                 PROVE  /\ Issuer(j) \in Client
                        /\ command[j].kind = "STRICT" => command[j].control < decision.control + 1
                        /\ command[j].kind = "ANSWERS" =>
                              command[j].owner < decision.owner[Issuer(j)]
      BY <1>2, <1>3 DEF AppliedIsPast, Issuer
    <2>1. command[j].control \in Nat
      BY <1>1 DEF TypeOK, Command
    <2> QED
      BY <1>1, <2>1 DEF Inv, AppliedIsPast
  <1> QED
    BY <1>5, <1>6, <1>7, <1>8 DEF Inv

-----------------------------------------------------------------------------
(* The properties *)

LEMMA NextInv == Inv /\ [Next]_vars => Inv'
  <1> SUFFICES ASSUME Inv, [Next]_vars PROVE Inv'
    OBVIOUS
  <1>1. CASE \E c \in Client : ClientStep(c)
    BY <1>1, RefreshInv, LoseConnectionInv, RetryInv, SubmitInv DEF ClientStep
  <1>2. CASE \E i \in Invocation : ServerStep(i)
    BY <1>2, LoadInv, CommitInv, TryAgainInv, FailInv, AnswerInv DEF ServerStep
  <1>3. CASE SystemWrite
    BY <1>3, SystemWriteInv
  <1>4. CASE UNCHANGED vars
    BY <1>4 DEF vars, storeVars, clientVars, Inv, TypeOK, CallsHaveCommands, PendingIsOwn,
                SnapshotIsCurrent, ReceiptsAreTrue, ResultIsReceipt, AppliedIsPast,
                RivalsExclude, Rivals, Issuer
  <1> QED
    BY <1>1, <1>2, <1>3, <1>4 DEF Next

\* The invariant holds of every reachable state.
THEOREM TransactionInvariant == Spec => []Inv
  BY InitInv, NextInv, PTL DEF Spec

\* Every variable always holds what the code keeps in it.
THEOREM TransactionTypeOK == Spec => []TypeOK
  <1>1. Inv => TypeOK
    BY DEF Inv
  <1> QED
    BY <1>1, TransactionInvariant, PTL

\* However often a command is sent and by whichever request, it takes effect at
\* most once, and the decision contains exactly what took effect.
THEOREM CommandsApplyAtMostOnce == Spec => []AtMostOnce
  <1>1. Inv => AtMostOnce
    BY DEF Inv, ReceiptsAreTrue, AtMostOnce
  <1> QED
    BY <1>1, TransactionInvariant, PTL

\* What a client is told of its command is so, and stays so.
THEOREM ClientsAreToldTheTruth == Spec => []AnswersAreTrue
  <1>1. Inv => AnswersAreTrue
    BY DEF Inv, ReceiptsAreTrue, AnswersAreTrue
  <1> QED
    BY <1>1, TransactionInvariant, PTL

\* Of two commands that rest on one version at most one takes effect, also when
\* the first was forgotten by a refresh while its request was running.
THEOREM RivalsNeverBothApply == Spec => []RivalsExclude
  <1>1. Inv => RivalsExclude
    BY DEF Inv
  <1> QED
    BY <1>1, TransactionInvariant, PTL

\* What a decision contains it keeps, and its versions never fall back, although
\* every write replaces the whole item.
THEOREM NothingIsEverLost == Spec => NothingIsLost
  <1> DEFINE Kept ==
        /\ decision.applied \subseteq decision'.applied
        /\ decision'.control >= decision.control
        /\ \A c \in Client : decision'.owner[c] >= decision.owner[c]
  <1>1. ASSUME Inv, [Next]_vars
        PROVE  Kept \/ UNCHANGED vars
    <2>1. /\ decision \in Decision /\ decision.control \in Nat
          /\ \A c \in Client : decision.owner[c] \in Nat
      BY <1>1 DEF Inv, TypeOK, Decision
    <2>2. CASE UNCHANGED decision
      BY <2>1, <2>2
    <2>3. CASE SystemWrite
      BY <2>1, <2>3 DEF SystemWrite, Decision
    <2>4. ASSUME NEW i \in Invocation, Commit(i)
          PROVE  Kept
      <3>1. PICK out \in Outcomes(i) : Write(i, out) /\ call[i].pc = "loaded"
        BY <2>4 DEF Commit
      <3>2. UNCHANGED <<command, told>>
        BY <2>4 DEF Commit, clientVars, Again, Release
      <3>3. decision' \in Decision
        BY <1>1, <3>1, <3>2, WriteKeeps
      <3>4. /\ decision.applied \subseteq decision'.applied
            /\ decision.control <= decision'.control
            /\ \A c \in Client : decision.owner[c] <= decision'.owner[c]
        BY <1>1, <3>1, <3>2, WriteKeeps
      <3>5. decision'.control \in Nat /\ \A c \in Client : decision'.owner[c] \in Nat
        BY <3>3 DEF Decision
      <3> QED
        BY <2>1, <3>4, <3>5
    <2>5. CASE \E c \in Client : ClientStep(c)
      BY <2>2, <2>5 DEF ClientStep, Refresh, LoseConnection, Retry, Submit, storeVars
    <2>6. CASE \E i \in Invocation : ServerStep(i)
      BY <2>2, <2>4, <2>6 DEF ServerStep, Load, TryAgain, Fail, Answer, storeVars
    <2> QED
      BY <1>1, <2>3, <2>5, <2>6 DEF Next
  <1>2. Inv /\ [Next]_vars => [Kept]_vars
    BY <1>1
  <1> QED
    BY <1>2, TransactionInvariant, PTL DEF Spec, NothingIsLost

-----------------------------------------------------------------------------
(* The register of final fates *)

LEMMA StepsOfRegister ==
    ASSUME Inv, [Next]_vars
    PROVE  [Register!Next]_<<receipt, told>>
  <1>1. CASE UNCHANGED <<receipt, told>>
    BY <1>1
  <1>2. ASSUME NEW i \in Invocation, Commit(i)
        PROVE  \E k \in Key : Register!Decide(k)
    <2>1. PICK out \in Outcomes(i) : Write(i, out) /\ call[i].pc = "loaded"
      BY <1>2 DEF Commit
    <2>2. UNCHANGED told
      BY <1>2 DEF Commit, clientVars, Again, Release
    <2>3. /\ call[i].key \in Key /\ receipt[call[i].key] = "OPEN" /\ out.result \in Result
          /\ receipt' = [receipt EXCEPT ![call[i].key] = out.result]
      BY <2>1, WriteDecides
    <2> QED
      BY <2>2, <2>3 DEF Register!Decide, Register!Fate, Result
  <1>3. ASSUME NEW i \in Invocation, Answer(i)
        PROVE  [\E k \in Key : Register!Tell(k)]_<<receipt, told>>
    <2>1. /\ call[i].key \in Key /\ call[i].result # "OPEN"
          /\ call[i].result = receipt[call[i].key]
      BY <1>3 DEF Inv, CallsHaveCommands, ResultIsReceipt, Answer
    <2>2. UNCHANGED receipt /\ (UNCHANGED told \/ told' = [told EXCEPT ![call[i].key] = call[i].result])
      BY <1>3 DEF Answer, storeVars
    <2> QED
      BY <2>1, <2>2 DEF Register!Tell
  <1>4. CASE \E c \in Client : ClientStep(c)
    BY <1>1, <1>4 DEF ClientStep, Refresh, LoseConnection, Retry, Submit, storeVars
  <1>5. CASE \E i \in Invocation : ServerStep(i)
    <2>1. PICK i \in Invocation : ServerStep(i)
      BY <1>5
    <2>2. CASE Load(i) \/ TryAgain(i) \/ Fail(i)
      BY <1>1, <2>2 DEF Load, TryAgain, Fail, Again, Release, storeVars, clientVars
    <2> QED
      BY <1>2, <1>3, <2>1, <2>2 DEF ServerStep, Register!Next
  <1>6. CASE SystemWrite
    BY <1>1, <1>6 DEF SystemWrite, clientVars
  <1>7. CASE UNCHANGED vars
    BY <1>1, <1>7 DEF vars, storeVars, clientVars
  <1> QED
    BY <1>4, <1>5, <1>6, <1>7 DEF Next

\* Every behaviour of clients, service and store is one of the register: a
\* command's fate is decided once, and every answer reports it.
THEOREM TransactionIsRegister == Spec => ImplementsRegister
  <1>1. Init => Register!Init
    BY DEF Init, Register!Init
  <1>2. Inv /\ [Next]_vars => [Register!Next]_<<receipt, told>>
    BY StepsOfRegister
  <1>3. Register!vars = <<receipt, told>>
    BY DEF Register!vars
  <1> QED
    BY <1>1, <1>2, <1>3, TransactionInvariant, PTL
    DEF Spec, ImplementsRegister, Register!Spec, Register!vars
=============================================================================
