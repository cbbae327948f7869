----------------------------- MODULE RoomStore -----------------------------
(***************************************************************************)
(* How a legacy room is kept (packages/adapters/src: dynamodb.ts,          *)
(* dynamodb-codec.ts).  A room is two items of one table, its state and    *)
(* its guard, and one item per command that was answered.  The decisions   *)
(* of Known Enough use the same keys under other schema versions.          *)
(*                                                                         *)
(* An item is [room, kind, version, ...]: its partition key, its sort key  *)
(* and its schema version.  A conditional write that loses is tried again  *)
(* by DecisionTransaction!TryAgain's rule; what is here is one attempt.    *)
(*                                                                         *)
(* Bytes: a step comes with the size its state would have, and a response  *)
(* with the most it may add (size.exception, .preview and .disclosure for  *)
(* a longest record, .overhead for what else the step may write).          *)
(***************************************************************************)
EXTENDS RoomLifecycle

OrdinaryReceiptLimit == 4096
SafetyReceiptLimit == 320
TotalReceiptLimit == OrdinaryReceiptLimit + HistoryLimit + SafetyReceiptLimit

OrdinaryStateLimit == 352 * 1024
ProtectedStateLimit == 360 * 1024

PermissionCommands == {"DECIDE_EXCEPTION", "DECIDE_DISCLOSURE"}
SafetyCommands == {"REVOKE_EXCEPTION", "REVOKE_DISCLOSURE", "WITHDRAW_APPROVAL"}
ProtectedCommands == PermissionCommands \cup SafetyCommands \cup {"REVISE_DECISION"}

RoomCommands ==
    ProtectedCommands \cup {"SUBMIT_INPUT_DRAFT", "CONFIRM_INPUTS", "ACCEPT_CONTEXT",
                            "REQUEST_SOLVE", "PUBLISH_DISCLOSURE", "ACCEPT_PROPOSAL"}

\* No command: a look at the room, an invitation, the solver's two transactions.
NoCommand == "NONE"

(***************************************************************************)
(* What the room still owes, in records and in bytes.                      *)
(***************************************************************************)

PermissionHistoryCount(r) == r.retired + CountAll([m \in Member |-> Records(r, m)])

PendingPermissionResponseCount(r) ==
    CountAll([m \in Member |->
        Cardinality(r.owner[m].offers) + Cardinality(r.owner[m].previews)
          + ProspectivePreview(r, m, Cardinality(r.owner[m].offers))])

OwnerReservation(r, m, size) ==
    LET o == r.owner[m]
        disclosure == size.disclosure + size.overhead
    IN  Cardinality(o.offers) * (size.exception + size.overhead)
        + (IF o.previews # {} THEN disclosure
           ELSE IF o.offers # {} /\ ~DisclosureSettled(r, m)
           THEN disclosure + size.preview + size.overhead ELSE 0)

PendingResponseByteReservations(r, size) ==
    MapThenSumSet(LAMBDA m : OwnerReservation(r, m, size), Member)

\* What a response makes the state grow by, at most.
ResponseBytes(r, s, m, size) ==
    LET new(kind) == Cardinality(s.owner[m][kind]) - Cardinality(r.owner[m][kind])
    IN  (IF new("exceptions") > 0 THEN size.exception + size.overhead ELSE 0)
        + (IF new("previews") > 0 THEN size.preview + size.overhead ELSE 0)
        + (IF new("disclosures") > 0 THEN size.disclosure + size.overhead ELSE 0)

(***************************************************************************)
(* Items.                                                                  *)
(***************************************************************************)

Corrupt == [corrupt |-> TRUE]

EncodeStateItem(id, r) ==
    IF ~RecordFits(r) THEN Corrupt
    ELSE [room |-> id, kind |-> "STATE", version |-> 4,
          payload |-> [version |-> 4, room |-> id, record |-> r]]

\* A decision's state: the older and the newer schema can both be read.
DecisionStateItem(id, version) ==
    [room |-> id, kind |-> "STATE", version |-> version,
     payload |-> [version |-> version, room |-> id]]

DecodeStateItem(item, id) ==
    IF /\ item.room = id /\ item.kind = "STATE" /\ item.version = 4
       /\ item.payload.version = 4 /\ item.payload.room = id
       /\ RecordFits(item.payload.record)
    THEN item.payload.record ELSE Corrupt

DecodesAsDecision(item, id) ==
    /\ item.room = id /\ item.kind = "STATE" /\ item.version \in {5, 6}
    /\ item.payload.version = item.version /\ item.payload.room = id

NewGuard(incarnation) ==
    [version |-> 0, incarnation |-> incarnation,
     ordinary |-> 0, permission |-> 0, safety |-> 0, total |-> 0]

EncodeGuardItem(id, g) == [room |-> id, kind |-> "GUARD", version |-> 1, guard |-> g]

GuardFits(g) ==
    /\ g.ordinary <= OrdinaryReceiptLimit /\ g.permission <= HistoryLimit
    /\ g.safety <= SafetyReceiptLimit /\ g.total <= TotalReceiptLimit
    /\ g.permission <= g.total
    /\ g.ordinary + g.safety <= g.total

DecodeGuardItem(item, id) ==
    IF /\ item.room = id /\ item.kind = "GUARD" /\ item.version = 1
       /\ GuardFits(item.guard)
    THEN item.guard ELSE Corrupt

\* What a receipt can say: a refusal with one of the codes of its schema, or
\* what only a room, or only a decision, says of a command it carried out.
RoomErrorCode ==
    {"UNAUTHENTICATED", "FORBIDDEN", "NOT_FOUND", "STALE_CONTEXT", "STALE_PROPOSAL",
     "IDEMPOTENCY_CONFLICT", "ROOM_CAPACITY_REACHED", "INVALID_COMMAND",
     "NEEDS_CLARIFICATION", "RETRYABLE_SERVER_ERROR"}
DecisionErrorCode ==
    (RoomErrorCode \ {"ROOM_CAPACITY_REACHED"})
      \cup {"STALE_OWNER", "STALE_DRAFT", "CAPACITY_EXCEEDED"}
Refusal(code) == [ok |-> FALSE, says |-> code]
CommandResult == {Refusal(code) : code \in RoomErrorCode}
                 \cup [ok : {TRUE}, says : {"VERSION"}]
DecisionCommandResult == {Refusal(code) : code \in DecisionErrorCode}
                         \cup [ok : {TRUE}, says : {"VERSIONS"}]

ReplayItem(id, incarnation, replay) ==
    [room |-> id, kind |-> "REPLAY", version |-> 1, incarnation |-> incarnation,
     key |-> replay.key, replay |-> replay]

EncodeReplayItem(id, incarnation, replay) ==
    IF replay.result \notin CommandResult THEN Corrupt ELSE ReplayItem(id, incarnation, replay)

EncodeDecisionReplayItem(id, incarnation, replay) ==
    IF replay.result \notin DecisionCommandResult THEN Corrupt ELSE ReplayItem(id, incarnation, replay)

\* A receipt of an earlier room of the same name is none of this room.
ReceiptOf(item, id, key, incarnation) ==
    /\ item.room = id /\ item.kind = "REPLAY" /\ item.version = 1
    /\ item.key = key /\ item.replay.key = key
    /\ item.incarnation = incarnation

DecodeReplayItem(item, id, key, incarnation) ==
    IF ReceiptOf(item, id, key, incarnation) /\ item.replay.result \in CommandResult
    THEN item.replay ELSE Corrupt

DecodeDecisionReplayItem(item, id, key, incarnation) ==
    IF ReceiptOf(item, id, key, incarnation) /\ item.replay.result \in DecisionCommandResult
    THEN item.replay ELSE Corrupt

ValidateStateGuard(r, g) ==
    /\ g.permission = PermissionHistoryCount(r)
    /\ PermissionHistoryCount(r) + PendingPermissionResponseCount(r) <= HistoryLimit

(***************************************************************************)
(* load(): a state without its guard, or a guard without its state, is no  *)
(* room; a receipt without either is overlooked.                           *)
(***************************************************************************)

Absent == [absent |-> TRUE]
LoadedRoom(r, g, replay) == [room |-> r, guard |-> g, replay |-> replay]

Load(items, id, key) ==
    LET at(kind) == {i \in items : i.room = id /\ i.kind = kind}
        state == CHOOSE i \in at("STATE") : TRUE
        guard == CHOOSE i \in at("GUARD") : TRUE
        replays == {i \in at("REPLAY") : i.key = key}
        r == DecodeStateItem(state, id)
        g == DecodeGuardItem(guard, id)
        replay == DecodeReplayItem(CHOOSE i \in replays : TRUE, id, key, g.incarnation)
    IN  IF at("STATE") = {} /\ at("GUARD") = {} THEN Absent
        ELSE IF at("STATE") = {} \/ at("GUARD") = {} THEN Corrupt
        ELSE IF Corrupt \in {r, g} THEN Corrupt
        ELSE IF ~ValidateStateGuard(r, g) THEN Corrupt
        ELSE IF replays = {} THEN LoadedRoom(r, g, Absent)
        ELSE IF replay = Corrupt THEN Corrupt
        ELSE LoadedRoom(r, g, replay)

(***************************************************************************)
(* create(): both items or neither, and only if there is none.             *)
(***************************************************************************)

TooLarge(bytes, reserved) ==
    bytes > OrdinaryStateLimit \/ bytes + reserved > ProtectedStateLimit

Create(items, id, r, incarnation, bytes, size) ==
    LET state == EncodeStateItem(id, r)
        guard == NewGuard(incarnation)
    IN  IF state = Corrupt THEN [outcome |-> "INVALID", items |-> items]
        ELSE IF TooLarge(bytes, PendingResponseByteReservations(r, size))
        THEN [outcome |-> "CAPACITY", items |-> items]
        ELSE IF ~ValidateStateGuard(r, guard) THEN [outcome |-> "INVALID", items |-> items]
        ELSE IF \E i \in items : i.room = id /\ i.kind \in {"STATE", "GUARD"}
        THEN [outcome |-> "EXISTS", items |-> items]
        ELSE [outcome |-> "CREATED",
              items |-> items \cup {state, EncodeGuardItem(id, guard)}]

(* createDecision(): the same for the state and the guard of a decision,   *)
(* but for the fence of the group that admitted it: one that only admits   *)
(* reads refuses, one that is lost is told before anything else, and one   *)
(* that holds joins the write.  d: the record parses, the new guard counts *)
(* it right, its size and what is reserved for its answers.                *)
Fence == {"NONE", "HOLDS", "READ_ONLY", "LOST"}

CreateDecision(items, id, d, incarnation, fence) ==
    LET refuse(outcome) == [outcome |-> outcome, items |-> items]
    IN  CASE fence = "READ_ONLY" -> refuse("STORAGE")
          [] fence = "LOST" -> refuse("FENCED")
          [] fence \in {"NONE", "HOLDS"} ->
                IF ~d.parses THEN refuse("INVALID")
                ELSE IF TooLarge(d.bytes, d.reserved) THEN refuse("CAPACITY")
                ELSE IF ~d.counted THEN refuse("INVALID")
                ELSE IF \E i \in items : i.room = id /\ i.kind \in {"STATE", "GUARD"}
                THEN refuse("EXISTS")
                ELSE [outcome |-> "CREATED",
                      items |-> items \cup {DecisionStateItem(id, 6),
                                            EncodeGuardItem(id, NewGuard(incarnation))}]

(***************************************************************************)
(* transaction(): what it makes of one step.                               *)
(***************************************************************************)

\* Somebody lost nothing they were asked for, and no permission or approval:
\* only a step that does may use the space that is kept free.
IsSafeTransition(r, s) ==
    \/ r.context # s.context
    \/ "CLOSED" \in {r.status, s.status}
    \/ r.membership # s.membership
    \/ r.invitation # s.invitation
    \/ \E m \in Member :
          \/ r.owner[m].approval # 0 /\ s.owner[m].approval = 0
          \/ ~(r.owner[m].offers \subseteq s.owner[m].offers)
          \/ ~(r.owner[m].previews \subseteq s.owner[m].previews)
          \/ \E kind \in {"exceptions", "disclosures"} :
                \E g \in r.owner[m][kind] :
                    /\ g.status = "ACTIVE"
                    /\ \E h \in s.owner[m][kind] :
                          /\ h.status \in {"REVOKED", "EXPIRED", "SUPERSEDED"}
                          /\ h = [g EXCEPT !.status = h.status, !.left = 0]

PromptCount(r) ==
    CountAll([m \in Member |-> Cardinality(r.owner[m].offers) + Cardinality(r.owner[m].previews)])

\* The step took more prompts on, or takes something back.
ProtectedWrite(r, s, command) ==
    \/ PromptCount(s) > PromptCount(r)
    \/ IF command = NoCommand THEN IsSafeTransition(r, s) ELSE command \in ProtectedCommands

(* A step of the application: the command whose key was given, or none;    *)
(* whether its receipt is new; whether it succeeded; whether the state     *)
(* changed, by how many permission records, and whether it fits.           *)
Step == [command : RoomCommands \cup {NoCommand}, new : BOOLEAN, ok : BOOLEAN,
         changed : BOOLEAN, delta : -1..2, protected : BOOLEAN, bytes : Nat, reserved : Nat]

\* The counters after a new receipt, one of the reserves at a time.
Charges(g, step) ==
    LET more == [g EXCEPT !.total = @ + 1]
        permission == step.command \in PermissionCommands /\ step.delta = 1
    IN  IF g.total >= TotalReceiptLimit THEN {}
        ELSE IF g.ordinary < OrdinaryReceiptLimit
        THEN IF step.delta # 1 THEN {[more EXCEPT !.ordinary = @ + 1]}
             ELSE IF permission /\ step.ok /\ g.permission < HistoryLimit
             THEN {[more EXCEPT !.ordinary = @ + 1, !.permission = @ + 1]} ELSE {}
        ELSE IF ~step.ok THEN {}
        ELSE IF permission
        THEN IF g.permission < HistoryLimit THEN {[more EXCEPT !.permission = @ + 1]} ELSE {}
        ELSE IF step.command \in SafetyCommands /\ step.changed /\ g.safety < SafetyReceiptLimit
        THEN {[more EXCEPT !.safety = @ + 1]} ELSE {}

SizeFits(step) ==
    /\ step.bytes + step.reserved <= ProtectedStateLimit
    /\ step.protected \/ step.bytes <= OrdinaryStateLimit

\* records, owed: the permission records the room has after the step, and those
\* it may still get from answers (makeGuard).
Transaction(g, step, records, owed) ==
    LET charged == IF step.new THEN Charges(g, step) ELSE {g}
        next == [(CHOOSE h \in charged : TRUE) EXCEPT !.version = @ + 1]
    IN  IF ~step.changed /\ ~step.new THEN [outcome |-> "RETURNED", guard |-> g]
        ELSE IF step.delta \notin {0, 1} \/ (~step.new /\ step.delta # 0)
        THEN [outcome |-> "STORAGE", guard |-> g]
        ELSE IF charged = {} THEN [outcome |-> "CAPACITY", guard |-> g]
        ELSE IF next.permission # records \/ records + owed > HistoryLimit THEN [outcome |-> "STORAGE", guard |-> g]
        ELSE IF ~SizeFits(step) THEN [outcome |-> "CAPACITY", guard |-> g]
        ELSE [outcome |-> "WRITTEN", guard |-> next]

(* The write of a transaction: the state is replaced if there is one, the  *)
(* guard if it is the one that was loaded, counter by counter, and the     *)
(* receipt is put if there is none under its key; all or nothing.          *)
Commit(items, id, loaded, next, state, replay) ==
    LET states == {i \in items : i.room = id /\ i.kind = "STATE"}
        guard == EncodeGuardItem(id, loaded)
        taken == {i \in items : /\ i.room = id /\ i.kind = "REPLAY"
                                /\ replay # Absent /\ i.key = replay.key}
    IN  IF states # {} /\ guard \in items /\ taken = {}
        THEN [outcome |-> "WRITTEN",
              items |-> (items \ (states \cup {guard}))
                           \cup {state, EncodeGuardItem(id, next)}
                           \cup IF replay = Absent THEN {} ELSE {replay}]
        ELSE [outcome |-> "AGAIN", items |-> items]
=============================================================================
