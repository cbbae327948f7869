------------------------- MODULE DecisionTransaction -------------------------
(***************************************************************************)
(* One command of an owner on its way: the web client that keeps it until  *)
(* it knows the result (apps/web/src/connected-decision.tsx, command), the *)
(* service invocation that executes it (KnownEnoughApplication.execute     *)
(* over DynamoDBRoomRepository.transactionDecision), and the stored        *)
(* decision.  Requests and answers get lost, a client sends a command      *)
(* again while its first request may still be running, invocations crash,  *)
(* conflict with each other and with the runtime, and the store may fail   *)
(* to say whether it has written.                                          *)
(*                                                                         *)
(* Of the decision only what execute() compares is kept: controlVersion,   *)
(* the owners' versions and which commands it contains.  An invocation     *)
(* writes back the snapshot it read, changed; the guard's version is all   *)
(* that keeps it from overwriting what came in between.                    *)
(*                                                                         *)
(* Definitions marked "Faulty variant" are no part of Spec: each is what a *)
(* plausible mistake would make of the definition after it.                *)
(***************************************************************************)
EXTENDS Integers

CONSTANTS
    Client,       \* browsers, one owner each
    Key,          \* idempotency keys: random, so no two commands share one
    Invocation,   \* requests that may be served at the same time
    MaxAttempts,  \* transactionDecision tries 6 times
    MaxSystem,    \* bound: writes of the runtime
    None          \* no client, no key, no invocation

ASSUME NamesAssumption ==
    None \notin Client \union Key \union Invocation
ASSUME BoundAssumption == MaxAttempts \in Nat \ {0} /\ MaxSystem \in Nat

VARIABLES
    decision,  \* the state item
    version,   \* the guard's version
    receipt,   \* the replay items: the result stored under each key
    call,      \* the invocations
    command,   \* what each key was drawn for
    seen,      \* the versions a client's page shows
    pending,   \* pending.current: the command whose result is not known
    waiting,   \* the request a client waits for
    told,      \* what the client was told of each command
    effects,   \* history: how often a command was applied
    writes     \* writes of the runtime so far

storeVars  == <<decision, version, receipt, effects>>
clientVars == <<command, seen, pending, waiting, told>>
vars == <<storeVars, clientVars, call, writes>>

Result == {"SAVED", "REFUSED"}
Receipt == {"OPEN"} \union Result

\* CONFIRM_PRIVATE_ANSWERS may cross what peers did since the page was loaded;
\* every other command may not.
Kind == {"ANSWERS", "STRICT"}
Command == [client : Client \union {None}, kind : Kind, control : Nat, owner : Nat]
NoCommand == [client |-> None, kind |-> "STRICT", control |-> 0, owner |-> 0]
Issuer(k) == command[k].client

Decision == [control : Nat, owner : [Client -> Nat], applied : SUBSET Key]
NewDecision == [control |-> 0, owner |-> [c \in Client |-> 0], applied |-> {}]

\* where an invocation stands, its command, its attempt, what it has read and
\* the result it is about to answer
Label == {"idle", "loading", "loaded", "answering"}
Call == [pc : Label, key : Key \union {None}, attempt : 1..MaxAttempts,
         read : Decision, version : Nat, result : Receipt]
CallAt(pc, k, n, res) == [pc |-> pc, key |-> k, attempt |-> n,
                          read |-> NewDecision, version |-> 0, result |-> res]
Idle == CallAt("idle", None, 1, "OPEN")
Loading(k, n) == CallAt("loading", k, n, "OPEN")
Answering(k, res) == CallAt("answering", k, 1, res)

Init ==
    /\ decision = NewDecision /\ version = 0
    /\ receipt = [k \in Key |-> "OPEN"]
    /\ call = [i \in Invocation |-> Idle]
    /\ command = [k \in Key |-> NoCommand]
    /\ seen = [c \in Client |-> [control |-> 0, owner |-> 0]]
    /\ pending = [c \in Client |-> None] /\ waiting = [c \in Client |-> None]
    /\ told = [k \in Key |-> "OPEN"]
    /\ effects = [k \in Key |-> 0] /\ writes = 0

-----------------------------------------------------------------------------
(* The client *)

\* What the page of c shows once it is loaded
Latest(c) == [control |-> decision.control, owner |-> decision.owner[c]]

Request(c, i, k) ==
    /\ waiting[c] = None /\ call[i].pc = "idle"
    /\ call' = [call EXCEPT ![i] = Loading(k, 1)]
    /\ waiting' = [waiting EXCEPT ![c] = i]

\* A new command, bound to the versions the page shows, is kept and sent.
Submit(c, i, k, kind) ==
    /\ pending[c] = None
    /\ Issuer(k) = None
    /\ command' = [command EXCEPT ![k] = [client |-> c, kind |-> kind,
                                          control |-> seen[c].control,
                                          owner |-> seen[c].owner]]
    /\ pending' = [pending EXCEPT ![c] = k]
    /\ Request(c, i, k)
    /\ UNCHANGED <<storeVars, seen, told, writes>>

\* "Retry the same action": the body that was kept is sent once more.
Retry(c, i) ==
    /\ pending[c] # None
    /\ Request(c, i, pending[c])
    /\ UNCHANGED <<storeVars, command, seen, pending, told, writes>>

\* The page is loaded anew.  "Refresh decision" also forgets the command whose
\* result is not known, though its request may still be running.
Refresh(c) ==
    /\ waiting[c] = None
    /\ seen' = [seen EXCEPT ![c] = Latest(c)]
    /\ pending' \in {pending, [pending EXCEPT ![c] = None]}
    /\ UNCHANGED <<storeVars, command, waiting, told, call, writes>>

\* The connection breaks; the invocation goes on.
LoseConnection(c) ==
    /\ waiting[c] # None
    /\ waiting' = [waiting EXCEPT ![c] = None]
    /\ UNCHANGED <<storeVars, command, seen, pending, told, call, writes>>

-----------------------------------------------------------------------------
(* An invocation *)

\* loadDecision: state, guard and replay item in one TransactGetItems.  If there is
\* a replay item its result is answered and nothing is written.
Load(i) ==
    LET k == call[i].key
    IN  /\ call[i].pc = "loading"
        /\ call' = [call EXCEPT ![i] =
              IF receipt[k] # "OPEN" THEN Answering(k, receipt[k])
              ELSE [@ EXCEPT !.pc = "loaded", !.read = decision, !.version = version]]
        /\ UNCHANGED <<storeVars, clientVars, writes>>

\* Faulty variant: an answer save is not bound to its owner's version.
ExpectedLoosely(d, k) ==
    /\ command[k].kind = "STRICT" =>
          command[k].control = d.control /\ command[k].owner = d.owner[Issuer(k)]
    /\ command[k].kind = "ANSWERS" => command[k].control <= d.control

\* expected()
Expected(d, k) ==
    /\ command[k].kind = "STRICT" => command[k].control = d.control
    /\ command[k].kind = "ANSWERS" => command[k].control <= d.control
    /\ command[k].owner = d.owner[Issuer(k)]

\* sweep(): what expired may cost a version before the command is looked at.
Swept(d) == {d, [d EXCEPT !.control = @ + 1]}

\* The decision with the command applied; some strict commands leave the
\* owner's version alone.
Applied(d, k, bump) ==
    [control |-> d.control + 1,
     owner |-> [d.owner EXCEPT ![Issuer(k)] = @ + bump],
     applied |-> d.applied \union {k}]
Bumps(k) == IF command[k].kind = "ANSWERS" THEN {1} ELSE {0, 1}

\* What transition() makes of the snapshot: the next decision and the result. A
\* command that is expected may still be refused for what it asks; a refusal
\* takes the sweep back.
Outcomes(i) ==
    LET k == call[i].key
        d == call[i].read
    IN  {[decision |-> d, result |-> "REFUSED"]} \union
        {[decision |-> Applied(s, k, bump), result |-> "SAVED"] :
            s \in {t \in Swept(d) : Expected(t, k)}, bump \in Bumps(k)}

\* Faulty variants: the write does not depend on the guard; it depends on there
\* being no receipt only; a refusal is not recorded.
WriteBlindly(i, out) ==
    LET k == call[i].key
    IN  /\ decision' = out.decision
        /\ version' = version + 1
        /\ receipt' = [receipt EXCEPT ![k] = out.result]
        /\ effects' = IF out.result = "SAVED" THEN [effects EXCEPT ![k] = @ + 1] ELSE effects
WriteUnlessReplayed(i, out) == receipt[call[i].key] = "OPEN" /\ WriteBlindly(i, out)
WriteForgettingRefusals(i, out) ==
    LET k == call[i].key
    IN  /\ version = call[i].version /\ receipt[k] = "OPEN"
        /\ decision' = out.decision
        /\ version' = version + 1
        /\ receipt' = IF out.result = "SAVED" THEN [receipt EXCEPT ![k] = "SAVED"] ELSE receipt
        /\ effects' = IF out.result = "SAVED" THEN [effects EXCEPT ![k] = @ + 1] ELSE effects

\* TransactWriteItems: the state, the guard if its version is still the one that
\* was read, and the replay item if there is none
Write(i, out) ==
    LET k == call[i].key
    IN  /\ version = call[i].version /\ receipt[k] = "OPEN"
        /\ decision' = out.decision
        /\ version' = version + 1
        /\ receipt' = [receipt EXCEPT ![k] = out.result]
        /\ effects' = IF out.result = "SAVED" THEN [effects EXCEPT ![k] = @ + 1] ELSE effects

\* Without an answer the client keeps its command; what ended is the request.
Release(i) ==
    /\ call' = [call EXCEPT ![i] = Idle]
    /\ waiting' = [c \in Client |-> IF waiting[c] = i THEN None ELSE waiting[c]]
    /\ UNCHANGED <<command, seen, pending, told>>

\* Everything is read anew for another attempt.
Again(i) ==
    /\ call[i].attempt < MaxAttempts
    /\ call' = [call EXCEPT ![i] = Loading(call[i].key, call[i].attempt + 1)]
    /\ UNCHANGED clientVars

\* The write takes effect.  The invocation may learn so and answer, may be told of
\* a conflict with its own write and start again, or may fail.
Commit(i) ==
    /\ call[i].pc = "loaded"
    /\ \E out \in Outcomes(i) :
          /\ Write(i, out)
          /\ \/ /\ call' = [call EXCEPT ![i] = Answering(call[i].key, out.result)]
                /\ UNCHANGED clientVars
             \/ Again(i)
             \/ Release(i)
    /\ UNCHANGED writes

\* A conflict or throttling: nothing is written.
TryAgain(i) ==
    /\ call[i].pc = "loaded"
    /\ Again(i)
    /\ UNCHANGED <<storeVars, writes>>

\* A read or write fails otherwise, the last attempt did, or the invocation is
\* killed: a 503 or a broken connection.
Fail(i) ==
    /\ call[i].pc # "idle"
    /\ Release(i)
    /\ UNCHANGED <<storeVars, writes>>

\* The result reaches the client if it still waits: the command is settled, and
\* the page loaded anew unless that fails.
Answer(i) ==
    LET k == call[i].key
        c == Issuer(k)
    IN  /\ call[i].pc = "answering"
        /\ IF waiting[c] = i
           THEN /\ waiting' = [waiting EXCEPT ![c] = None]
                /\ told' = [told EXCEPT ![k] = call[i].result]
                /\ pending' = [pending EXCEPT ![c] = None]
                /\ seen' \in {seen, [seen EXCEPT ![c] = Latest(c)]}
           ELSE UNCHANGED <<waiting, told, pending, seen>>
        /\ call' = [call EXCEPT ![i] = Idle]
        /\ UNCHANGED <<storeVars, command, writes>>

\* A step of the runtime: a transaction without a key
SystemWrite ==
    /\ writes < MaxSystem
    /\ writes' = writes + 1
    /\ decision' = [decision EXCEPT !.control = @ + 1]
    /\ version' = version + 1
    /\ UNCHANGED <<receipt, effects, clientVars, call>>

ClientStep(c) ==
    \/ Refresh(c) \/ LoseConnection(c)
    \/ \E i \in Invocation :
          Retry(c, i) \/ \E k \in Key, kind \in Kind : Submit(c, i, k, kind)
ServerStep(i) == Load(i) \/ Commit(i) \/ TryAgain(i) \/ Fail(i) \/ Answer(i)
Next == (\E c \in Client : ClientStep(c)) \/ (\E i \in Invocation : ServerStep(i)) \/ SystemWrite

Spec == Init /\ [][Next]_vars

-----------------------------------------------------------------------------
(* Properties *)

\* Every variable holds what the code keeps in it.
TypeOK ==
    /\ decision \in Decision /\ version \in Nat
    /\ receipt \in [Key -> Receipt]
    /\ call \in [Invocation -> Call]
    /\ command \in [Key -> Command]
    /\ seen \in [Client -> [control : Nat, owner : Nat]]
    /\ pending \in [Client -> Key \union {None}]
    /\ waiting \in [Client -> Invocation \union {None}]
    /\ told \in [Key -> Receipt]
    /\ effects \in [Key -> Nat] /\ writes \in 0..MaxSystem

\* However often a command is sent, by whichever request, it takes effect at
\* most once, and the decision contains what took effect.
AtMostOnce == \A k \in Key :
    effects[k] <= 1 /\ (effects[k] = 1 <=> k \in decision.applied)

\* What a client was told is so: "saved" means the decision contains the command,
\* a refusal that it does not, and since the answer is final never will.
AnswersAreTrue == \A k \in Key :
    /\ told[k] = "SAVED" => k \in decision.applied
    /\ told[k] = "REFUSED" => k \notin decision.applied

\* Two commands that rest on one version of the decision do not both take
\* effect: strict ones on a controlVersion, answers on their owner's version.  A
\* client that forgot a command by refreshing may send another one safely.
Rivals(j, k) ==
    /\ j # k /\ None \notin {Issuer(j), Issuer(k)}
    /\ command[j].kind = command[k].kind
    /\ \/ /\ command[j].kind = "STRICT"
          /\ command[j].control = command[k].control
       \/ /\ command[j].kind = "ANSWERS"
          /\ Issuer(j) = Issuer(k) /\ command[j].owner = command[k].owner
RivalsExclude == \A j, k \in Key :
    Rivals(j, k) => ~({j, k} \subseteq decision.applied)

\* What a decision contains it keeps, and its versions never fall back.
NothingIsLost == [][
    /\ decision.applied \subseteq decision'.applied
    /\ decision'.control >= decision.control
    /\ \A c \in Client : decision'.owner[c] >= decision.owner[c]]_vars

\* To their senders the commands are a register of final fates.
Register == INSTANCE CommandRegister WITH fate <- receipt
ImplementsRegister == Register!Spec
=============================================================================
