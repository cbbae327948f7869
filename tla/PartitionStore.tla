--------------------------- MODULE PartitionStore ---------------------------
(***************************************************************************)
(* The rows that group sessions and erasures share, and what a conditional *)
(* transaction on them sees (packages/adapters/src:                        *)
(* partitioned-group-repository.ts, partition-decision-repository.ts,      *)
(* dynamo-partition-lifecycle.ts).                                         *)
(*                                                                         *)
(* Every row carries a revision, every transaction carries the revisions   *)
(* it read, and all of it commits or none.  A revision is only ever        *)
(* compared with one read earlier and never comes back, so the model keeps *)
(* no numbers: whoever read rows remembers which of them nobody has        *)
(* written since (a request in flight: whether all of its rows are such;   *)
(* an erasure plan: which).  A group's version is kept the same way: as    *)
(* whether a draft or a binding carries the current one.                   *)
(*                                                                         *)
(* A decision belongs to the draft it was created from and has its name.   *)
(* Contents of profiles, drafts and private input are left out.            *)
(***************************************************************************)
EXTENDS Naturals, Sequences, FiniteSets

CONSTANTS
    Subject,   \* people, by their identity provider's subject
    Group,     \* group ids: one per organizer and idempotency key
    Draft,     \* draft ids, and ids of the decisions created from them
    GroupOf,   \* the group whose name is part of a draft's id
    Plan,      \* opIds of erasures
    None

(* Ids are strings of bounded length, so there are finitely many.          *)
ASSUME StoreAssumption ==
    /\ GroupOf \in [Draft -> Group]
    /\ IsFiniteSet(Group) /\ IsFiniteSet(Draft)
    /\ None \notin Subject \cup Group \cup Draft \cup Plan
    /\ None \notin {"initial", "OPEN", "ACCEPTED", "PREPARED", "ERASING", "ERASED"}
    /\ "initial" \notin Plan

VARIABLES
    account,     \* ACCOUNT#s STATE: its status, and the plan that froze it
    edges,       \* MEMBER#s rows: groups s is or was in
    group,       \* GROUP#g STATE: the header
    invitation,  \* the header's invitation of s, by s's address
    draft,       \* GROUP#g DRAFT#d, with the people its frame names
    binding,     \* GROUP#g BINDING#d: is it at the group's version?
    decision,    \* ROOM#d STATE, GUARD and REPLAY rows
    request,     \* s's decision request in flight, with the fence it holds
    plan,        \* a sealed erasure plan: its scope, the people it asks, the
                 \* steps to come, and which rows it read still stand
    journal,     \* an erasure's journal: its state, None before the first
    consent,     \* people with a valid grant for an erasure
    archive      \* an archive's sealed manifest, its journal, and which rows
                 \* its commit compares still stand

storeVars == <<account, edges, group, invitation, draft, binding, decision,
               request, plan, journal, consent, archive>>

AccountType == [status : {"ABSENT", "PENDING", "APPROVED", "ERASING",
                          "ERASED"}, by : Plan \cup {None}]

AccountRow(s) == <<"ACCOUNT", s>>
HeaderRow(g)  == <<"GROUP", g>>
DraftRow(d)   == <<"DRAFT", d>>
GuardRow(d)   == <<"GUARD", d>>
ReplayRow(d, s) == <<"REPLAY", d, s>>

Row == {AccountRow(s) : s \in Subject} \cup {HeaderRow(g) : g \in Group}
         \cup {DraftRow(d) : d \in Draft} \cup {GuardRow(d) : d \in Draft}
         \cup {ReplayRow(d, s) : d \in Draft, s \in Subject}

(* A decision as far as groups and erasures see it: LIVE stands for every  *)
(* status but AGREED, REMOVED for a guard without a state.  A receipt      *)
(* carries the incarnation of the guard it was written under; the first    *)
(* erasure of a decision starts another one.  A status that needs frame    *)
(* confirmations the record does not hold makes every snapshot fail.       *)
Incarnation == {"initial"} \cup Plan

NoDecision == [status |-> "ABSENT", readable |-> TRUE, members |-> {}, inactive |-> {},
               private |-> {}, retired |-> {}, incarnation |-> "initial",
               receipt |-> [s \in Subject |-> None]]

DecisionType == [status : {"ABSENT", "LIVE", "AGREED", "REMOVED"},
                 readable : BOOLEAN,         \* its snapshots can be parsed
                 members : SUBSET Subject,   \* active memberships
                 inactive : SUBSET Subject,  \* memberships of erased people
                 private : SUBSET Subject,   \* owners with private input
                 retired : SUBSET Subject,   \* people in retiredPermissions
                 incarnation : Incarnation,
                 receipt : [Subject -> {None} \cup Incarnation]]

DraftType == [status : {"NONE", "CURRENT", "STALE", "CREATED", "DELETED"},
              names : SUBSET Subject]

BindingType == {"NONE", "CURRENT", "STALE", "DELETED"}

NoGroup == [status |-> "ABSENT", organizer |-> None, members |-> {}]

GroupType == [status : {"ABSENT", "OPEN", "DELETED", "ARCHIVED"},
              organizer : Subject \cup {None}, members : SUBSET Subject]

\* A request holds the roster its fence was read with.  "current": nobody
\* has written a row of the fence since.
RequestType == [kind : {"CREATE", "TAKE_PART", "REVISE_ROSTER"}, on : Draft,
                roster : SUBSET Subject, current : BOOLEAN]

FenceRows(r) ==
    {HeaderRow(GroupOf[r.on])} \cup {AccountRow(s) : s \in r.roster}
      \cup (IF r.kind = "CREATE" THEN {DraftRow(r.on)} ELSE {})

ASSUME RequestAssumption == None \notin RequestType

(* What a transaction that writes "rows" does to those who read them.      *)
RequestsAfter(rows) ==
    [s \in Subject |->
        IF request[s] # None /\ FenceRows(request[s]) \cap rows # {}
        THEN [request[s] EXCEPT !.current = FALSE] ELSE request[s]]

PlansAfter(rows) ==
    [p \in Plan |-> IF plan[p] = None THEN None
                    ELSE [plan[p] EXCEPT !.fresh = @ \ rows]]

ArchivesAfter(rows) ==
    [g \in Group |-> IF archive[g] = None THEN None
                     ELSE [archive[g] EXCEPT !.fresh = @ \ rows]]

Approved(s) == account[s].status = "APPROVED"

\* Faulty variant: a frozen account reads like any other.
FaultyReadable(S) == TRUE

\* checkedRow(): a frozen account makes every read of its row fail.
Readable(S) == \A s \in S : account[s].status # "ERASING"

Members(g) == group[g].members

\* Everybody with data in a decision, current or retired.
Holders(d) == decision[d].private \cup decision[d].retired

(***************************************************************************)
(* One transaction as it is sent.  An item compares its row with what was  *)
(* read (SAME), or asks that there be one (EXISTS) or none (ABSENT); all   *)
(* but a CHECK write it as well, with next as far as anybody looks at it.  *)
(* A row is at its first revision if and only if its item asks for none.   *)
(***************************************************************************)
BindingRow(d)   == <<"BINDING", d>>
DirectoryRow(d) == <<"DIRECTORY", d>>  \* DECISION#d GROUP: the group of d
StateRow(d)     == <<"STATE", d>>

Item(op, row, cond, next) == [op |-> op, row |-> row, cond |-> cond, next |-> next]
Compared(row) == Item("CHECK", row, "SAME", None)
Vacant(row)   == Item("CHECK", row, "ABSENT", None)

\* partitionDynamoWrites(): up to a hundred items, one of each row.
Sendable(items) ==
    /\ Cardinality(items) \in 1..100
    /\ \A i, j \in items : i.row = j.row => i = j

InPartitions(row) == row[1] \in {"ACCOUNT", "GROUP", "DRAFT", "BINDING", "DIRECTORY"}
Puts(items) == {i \in items : InPartitions(i.row) /\ i.op = "PUT"}

\* The group h and binding b of a write, and its decision's rows: all new, or
\* the next state and guard.
NewDecisionWrite(d) ==
    {Item("PUT", StateRow(d), "ABSENT", None), Item("PUT", GuardRow(d), "ABSENT", None)}
NextDecisionWrite(d) ==
    {Item("PUT", StateRow(d), "EXISTS", None), Item("UPDATE", GuardRow(d), "SAME", None)}

\* A draft becomes a decision: four rows of the group, two of the decision.
CreationBundle(h, b, items) ==
    LET d == b.row[2] IN
    /\ \E r, c \in Puts(items) :
          /\ Puts(items) = {h, b, r, c}
          /\ r.row[1] = "DRAFT" /\ r.cond = "SAME" /\ r.row[2] \in h.next.drafts
          /\ r.next.created = d /\ r.next.version = h.next.version
          /\ c = Item("PUT", DirectoryRow(d), "ABSENT", h.row[2])
    /\ b.cond = "ABSENT"
    /\ {i \in items : ~InPartitions(i.row)} = NewDecisionWrite(d)

\* A binding follows the group's version: two rows of each.
RevisionBundle(h, b, items) ==
    /\ Puts(items) = {h, b}
    /\ b.cond = "SAME"
    /\ {i \in items : ~InPartitions(i.row)} = NextDecisionWrite(b.row[2])

\* Only whole bundles write to a group, under every member's account.
BundleFits(items) ==
    \E h, b \in Puts(items) :
        /\ h.row[1] = "GROUP" /\ h.cond = "SAME" /\ b.row[1] = "BINDING"
        /\ ~b.next.deleted /\ b.next.version = h.next.version
        /\ b.row[2] \in h.next.decisions
        /\ \A i \in Puts(items) : i.row[1] \in {"DRAFT", "BINDING"} => GroupOf[i.row[2]] = h.row[2]
        /\ {i \in items : InPartitions(i.row)} \ Puts(items)
              = {Compared(AccountRow(s)) : s \in h.next.members}
        /\ CreationBundle(h, b, items) \/ RevisionBundle(h, b, items)

\* checkedWrite()
CheckedWrite(items) ==
    /\ Sendable(items)
    /\ Puts(items) # {} => BundleFits(items)
    /\ \A i \in items \ Puts(items) : InPartitions(i.row) =>
          /\ i.op = "CHECK"
          /\ \/ i.row[1] \in {"ACCOUNT", "GROUP"}
             \/ i.row[1] = "DIRECTORY" /\ i.cond = "ABSENT"

\* conditions(): what a decision request may bring along.  Whoever shows a
\* decision (None: somebody who takes part) may have no account, and the
\* decision no group.
ConditionsAccepted(fence, writes, display, d) ==
    /\ Cardinality(fence) \in 2..(IF writes THEN 21 ELSE IF display # None THEN 18 ELSE 17)
    /\ Sendable(fence)
    /\ ~writes =>
          /\ \A i \in fence :
                /\ i.op = "CHECK"
                /\ i.cond = "SAME" \/ /\ display # None
                                      /\ i.row \in {AccountRow(display), DirectoryRow(d)}
          /\ CheckedWrite(fence)

\* perform(): two or three rows of the decision join the fence.
JoinedWrite(fence, rows, d) ==
    /\ Cardinality(rows) \in 2..3
    /\ \A i \in rows : i.row \in {StateRow(d), GuardRow(d)} \cup {ReplayRow(d, s) : s \in Subject}
    /\ CheckedWrite(fence \cup rows)

\* What a look publishes under: the guard it read, or that there is none.
Publication(d, found) ==
    IF found THEN {Compared(GuardRow(d))} ELSE {Vacant(StateRow(d)), Vacant(GuardRow(d))}

(***************************************************************************)
(* Reading many rows: the service answers a part and names the rest, which *)
(* is asked for again.  An answer is [returned, unprocessed].              *)
(***************************************************************************)

Asked(rows, answers, n) == IF n = 1 THEN rows ELSE answers[n - 1].unprocessed

AnswerFits(rows, answers, n) ==
    /\ answers[n].returned \cup answers[n].unprocessed \subseteq Asked(rows, answers, n)
    /\ answers[n].returned \cap answers[n].unprocessed = {}

\* readMany(): the rows there are, once nothing is left to ask.
ReadMany(rows, answers) ==
    LET last == Len(answers) IN
    IF \E n \in 1..last : ~AnswerFits(rows, answers, n)
    THEN [outcome |-> "PARTITION_INVALID", rows |-> {}]
    ELSE IF Asked(rows, answers, last + 1) # {} THEN [outcome |-> "ASKS_AGAIN", rows |-> {}]
    ELSE [outcome |-> "READ", rows |-> UNION {answers[n].returned : n \in 1..last}]

\* groups() of the membership reader gives up after three.
ReadGroups(rows, answers) ==
    LET read == ReadMany(rows, answers) IN
    CASE read.outcome = "PARTITION_INVALID" -> [read EXCEPT !.outcome = "MEMBERSHIP_INVALID"]
      [] read.outcome = "ASKS_AGAIN" /\ Len(answers) = 3 ->
            [read EXCEPT !.outcome = "MEMBERSHIP_STORAGE_UNAVAILABLE"]
      [] OTHER -> read

(***************************************************************************)
(* The calls of one request of a person: so many, and for so long.  Once   *)
(* the request is given up it stays so, and why is told only to the call   *)
(* that spent the last and to those under way.                             *)
(***************************************************************************)

MaxRequests == 64

IOContext == [requests : Nat, limit : 1..MaxRequests,
              aborted : {"NO", "PARTITION_TIMEOUT", "PARTITION_REQUEST_LIMIT"}]

NewContext(limit) == [requests |-> 0, limit |-> limit, aborted |-> "NO"]

TimeIsUp(io) == IF io.aborted = "NO" THEN [io EXCEPT !.aborted = "PARTITION_TIMEOUT"] ELSE io

\* request(), then the start of a bounded call: what it becomes, or its error.
\* The parts of a call that was counted do not count.
BeginCall(io, counts) ==
    LET counted == [io EXCEPT !.requests = @ + 1] IN
    IF io.aborted # "NO" THEN [io |-> io, result |-> "PARTITION_TIMEOUT"]
    ELSE IF ~counts THEN [io |-> io, result |-> "STARTED"]
    ELSE IF counted.requests > io.limit
    THEN [io |-> [counted EXCEPT !.aborted = "PARTITION_REQUEST_LIMIT"],
          result |-> "PARTITION_REQUEST_LIMIT"]
    ELSE [io |-> counted, result |-> "STARTED"]

\* A call that has started ends with its answer, or when the request is given up.
Ended(io) == IF io.aborted = "NO" THEN "ANSWERED" ELSE io.aborted

StoreInit ==
    /\ account = [s \in Subject |-> [status |-> "ABSENT", by |-> None]]
    /\ edges = [s \in Subject |-> {}]
    /\ group = [g \in Group |-> NoGroup]
    /\ invitation = [g \in Group |-> [s \in Subject |-> None]]
    /\ draft = [d \in Draft |-> [status |-> "NONE", names |-> {}]]
    /\ binding = [d \in Draft |-> "NONE"]
    /\ decision = [d \in Draft |-> NoDecision]
    /\ request = [s \in Subject |-> None]
    /\ plan = [p \in Plan |-> None]
    /\ journal = [p \in Plan |-> None]
    /\ consent = [p \in Plan |-> {}]
    /\ archive = [g \in Group |-> None]
=============================================================================
