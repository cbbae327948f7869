------------------------ MODULE MCPartitionedSystem ------------------------
(***************************************************************************)
(* A small instance of PartitionedSystem: two people, one group, one draft *)
(* and the decision created from it.                                       *)
(***************************************************************************)
EXTENDS PartitionedSystem, TLC

CONSTANTS s1, s2, g1, d1, e1

People == {s1, s2}
Groups == {g1}
Drafts == {d1}
Groupings == [d \in Drafts |-> g1]
OneErasure == {e1}
Names == Permutations(People)

(* A plan that has not written anything and whose first step no longer     *)
(* fits what it read takes no step any more and holds nobody up: nothing   *)
(* is lost if such states are not followed.                                *)
NoDeadPlan ==
    \A p \in Plan : plan[p] # None /\ journal[p] \in {None, "PREPARED"}
        => NextStep(p).rows \subseteq plan[p].fresh

(* Neither does a manifest whose group was changed since.                  *)
NoDeadArchive ==
    \A g \in Group : archive[g] # None /\ archive[g].state # "ARCHIVED"
        => IF archive[g].state = "CHECKED" THEN ConditionsStand(g)
           ELSE HeaderRow(g) \in archive[g].fresh

(* At most two of a decision request, an erasure with a plan, and an      *)
(* archive at once: each of them interleaved with each other one.          *)
TwoAtOnce ==
    \/ \A s \in Subject : request[s] = None
    \/ \A p \in Plan : plan[p] = None
    \/ \A g \in Group : archive[g] = None \/ archive[g].state = "ARCHIVED"

(***************************************************************************)
(* What a decision request sends, and what it is answered.                 *)
(***************************************************************************)
Rosters == SUBSET People \ {{}}
FullRoster == 1..16   \* the most members a group has
OtherVersion == 2

RequestRows(d) ==
    {NextDecisionWrite(d), NextDecisionWrite(d) \cup {Item("PUT", ReplayRow(d, s1), "ABSENT", None)}}

RequestFences(roster) ==
    {PartFence(roster, d1), RosterFence(roster, d1, 1, FALSE)}
DisplayFences(s, roster) ==
    {DisplayFence(s, known, roster, d1) : known \in BOOLEAN}
      \cup {LegacyDisplayFence(s, known, d1) : known \in BOOLEAN}

\* Nothing a session composes is refused for its shape, up to a full group:
\* a decision that is created, a command with its receipt, a binding that
\* follows its group, a look that only publishes
\* (partition-decision-repository.ts checkedWrite, conditions).
ASSUME WritesAreRecognised ==
    \A roster \in Rosters \cup {FullRoster} :
        /\ ConditionsAccepted(CreationFence(roster, d1, 1), TRUE, None, d1)
        /\ JoinedWrite(CreationFence(roster, d1, 1), NewDecisionWrite(d1), d1)
        /\ ConditionsAccepted(RosterFence(roster, d1, 1, TRUE), TRUE, None, d1)
        /\ JoinedWrite(RosterFence(roster, d1, 1, TRUE), NextDecisionWrite(d1), d1)
        /\ \A fence \in RequestFences(roster) :
              /\ ConditionsAccepted(fence, FALSE, None, d1)
              /\ \A rows \in RequestRows(d1) : JoinedWrite(fence, rows, d1)
              /\ \A found \in BOOLEAN : CheckedWrite(fence \cup Publication(d1, found))
        /\ \A s \in People : \A fence \in DisplayFences(s, roster) :
              /\ ConditionsAccepted(fence, FALSE, s, d1)
              /\ \A found \in BOOLEAN : CheckedWrite(fence \cup Publication(d1, found))

\* A group's rows change in a decision's transaction as a whole or not at
\* all: without any one item, with a member's account left unwatched for
\* somebody else's, with a receipt besides, with a row that is not compared
\* the way it was read, or with two versions, the write is refused; and what only takes part writes no row of a group.
ASSUME OnlyWholeBundlesCommit ==
    \A roster \in Rosters :
        LET creation == CreationFence(roster, d1, 1)
            revision == RosterFence(roster, d1, 1, TRUE)
            with(items, i, j) == (items \ {i}) \cup {j}
            versioned(i) == i.row \in {HeaderRow(g1), DraftRow(d1), BindingRow(d1)}
            swapped(items, s) == with(items, Compared(AccountRow(s)), Compared(AccountRow("x")))
        IN  /\ \A bundle \in {creation \cup NewDecisionWrite(d1),
                              revision \cup NextDecisionWrite(d1)} :
                  /\ CheckedWrite(bundle)
                  /\ \A i \in bundle : ~CheckedWrite(bundle \ {i})
                  /\ \A s \in roster : ~CheckedWrite(swapped(bundle, s))
                  /\ ~CheckedWrite(bundle \cup {Item("PUT", ReplayRow(d1, s1), "ABSENT", None)})
                  /\ \A i \in bundle : \A cond \in {"SAME", "EXISTS", "ABSENT"} \ {i.cond} :
                        ~CheckedWrite(with(bundle, i, [i EXCEPT !.cond = cond]))
                  /\ \A i \in {j \in bundle : versioned(j)} :
                        ~CheckedWrite(with(bundle, i, [i EXCEPT !.next.version = OtherVersion]))
            /\ ~JoinedWrite(creation, NextDecisionWrite(d1), d1)
            /\ ~JoinedWrite(revision, NewDecisionWrite(d1), d1)
            /\ \A fence \in {creation, revision} : ~ConditionsAccepted(fence, FALSE, None, d1)
            /\ \A s \in People : \A fence \in DisplayFences(s, roster) :
                  (\E i \in fence : i.cond = "ABSENT") => ~ConditionsAccepted(fence, FALSE, None, d1)

Found == [directory : {"DECISION", "NONE"}, legacy : BOOLEAN,
          account : {"ABSENT", "PENDING", "APPROVED"},
          header : {"ABSENT", "OPEN", "DELETED", "ARCHIVED"}, member : BOOLEAN,
          rosterApproved : BOOLEAN, binding : {"NONE", "CURRENT", "STALE", "DELETED"}]

\* What takes part may also be shown, and while everybody in the group is
\* approved nothing else of a group is; a finished decision is all that an
\* older binding still lets its members see, and an account that waits for
\* its approval sees nothing.
ASSUME DisplaysFollowTheGroup ==
    \A x \in Found :
        /\ PartOutcome(x, FALSE) = "FENCED" => DisplayOutcome(x) = "FENCED"
        /\ x.directory = "DECISION" /\ x.account = "APPROVED" /\ x.member /\ x.rosterApproved =>
              DisplayOutcome(x) = PartOutcome(x, FALSE)
        /\ PartOutcome(x, TRUE) = "FENCED" /\ PartOutcome(x, FALSE) # "FENCED" =>
              PartOutcome(x, FALSE) = "STALE_CONTEXT" /\ DisplayOutcome(x) = "STALE_CONTEXT"
        /\ x.account = "PENDING" => "FENCED" \notin {DisplayOutcome(x), PartOutcome(x, TRUE)}

\* Whoever may see a group may see its decisions and its members, and is
\* refused the same way where not, whoever else is asked about: a group tells a
\* stranger nothing.  Only its organizer works with a draft, and nobody with
\* one from before the group changed.
ASSUME LooksAgree ==
    \A x \in Found, organizer \in BOOLEAN, target \in {"NONE", "PENDING", "APPROVED"},
       drafted \in {"NONE", "CURRENT", "STALE", "DELETED"} :
        LET y == x @@ [organizer |-> organizer, target |-> target, draft |-> drafted]
            may == CurrentGroup(y, FALSE)
            bound == x.directory = "DECISION" /\ x.binding \in {"CURRENT", "STALE"} /\ x.rosterApproved
        IN  /\ bound => PartOutcome(x, TRUE) = (IF may = "OK" THEN "FENCED" ELSE may)
            /\ may # "OK" => {MemberProfile(y), CurrentDraft(y)} = {may}
            /\ CurrentDraft(y) = "OK" <=> may = "OK" /\ organizer /\ drafted = "CURRENT"
            /\ MemberProfile(y) = "OK" <=> may = "OK" /\ target = "APPROVED"

\* What a display shows is the public part of its own decision; a member who
\* comes back to a decision of an older group sees it only once it is finished,
\* and with their own part of it.
ASSUME LooksStayPrivate ==
    LET View == [decision : {d1, None}, viewer : {s1, s2, None}, owner : {s1, s2, None}]
    IN  \A x \in Found, view \in View, alone \in BOOLEAN :
            /\ \A room \in {d1, None} :
                  DisplayLook(x, room, d1, alone, view) = "SHOWN" =>
                      room = d1 /\ view.decision = d1 /\ {view.viewer, view.owner} = {None}
            /\ \A status \in {"READY", "AGREED", "CLOSED"} :
                  HistoricalLook(x, d1, status, alone, view) = "SHOWN" =>
                      /\ x.member /\ x.rosterApproved /\ x.account = "APPROVED"
                      /\ status # "READY" /\ view.decision = d1
                      /\ view.owner \in {s1, s2} /\ view.viewer = view.owner

\* Rows are read in as many answers as the service takes: whoever asks gets
\* all rows there are, no other, once nothing is left; a row answered that
\* was not asked, or answered and named again, is never believed.
ASSUME ReadsAreComplete ==
    LET asked == 1..3
        Answer == [returned : SUBSET (1..3), unprocessed : SUBSET (1..3)]
        answers == UNION {[1..n -> Answer] : n \in 1..2}
        honest(a, there) == \A n \in DOMAIN a :
            LET open == Asked(asked, a, n)
            IN  /\ a[n].unprocessed \subseteq open
                /\ a[n].returned = (open \ a[n].unprocessed) \cap there
    IN  \A a \in answers :
            /\ \A there \in SUBSET asked : honest(a, there) =>
                  ReadMany(asked, a)
                    = IF a[Len(a)].unprocessed = {} THEN [outcome |-> "READ", rows |-> there]
                      ELSE [outcome |-> "ASKS_AGAIN", rows |-> {}]
            /\ (\E n \in DOMAIN a : a[n].returned \cap a[n].unprocessed # {}) =>
                  ReadMany(asked, a).outcome = "PARTITION_INVALID"
            /\ ReadMany({1}, a).outcome = "READ" => ReadMany({1}, a).rows \subseteq {1}
            /\ ReadGroups(asked, a).outcome = "READ" <=> ReadMany(asked, a).outcome = "READ"

\* Page after page, a person is shown each open group they are in once, in
\* order, whatever the index still says, and the pages end; a cursor is nobody else's, serves no other page
\* size, and not after their account changed or a quarter of an hour.
ASSUME EveryGroupIsListedOnce ==
    LET ids == 1..3
        header(open, of) == [g \in ids |->
            [status |-> IF g \in open THEN "OPEN" ELSE "DELETED", organizer |-> s1,
             members |-> IF g \in of THEN {s1, s2} ELSE {s2}]]
        row(h, g) == {x \in MembershipSeeds(g, h[g]) : x.subject = s1}
        index(h) == SelectSeq([g \in ids |-> [group |-> g, active |-> \E x \in row(h, g) : x.active]],
                              LAMBDA x : row(h, x.group) # {})
        ask(old, h, limit, cursor) ==
            [subject |-> s1, limit |-> limit, cursor |-> cursor, index |-> index(old), header |-> h,
             migrated |-> TRUE, account |-> "APPROVED", revision |-> 1, now |-> 5,
             changedMeanwhile |-> FALSE]
    IN  \A open, of \in SUBSET ids, limit \in 1..4 : \A left \in SUBSET of, still \in SUBSET open :
            LET old == header(open, of)
                h == header(still, of \ left)
                page[n \in 1..4] == ListGroups(ask(old, h, limit, IF n = 1 THEN None ELSE page[n - 1].cursor))
                last == CHOOSE n \in 1..4 : page[n].cursor = None /\ \A k \in 1..(n - 1) : page[k].cursor # None
                shown[n \in 0..last] == IF n = 0 THEN <<>> ELSE shown[n - 1] \o page[n].groups
            IN  /\ [i \in DOMAIN shown[last] |-> shown[last][i].id]
                      = SelectSeq([g \in ids |-> g], LAMBDA g : g \in still \cap (of \ left))
                /\ \A n \in 1..(last - 1) :
                      LET r == ask(old, h, limit, page[n].cursor)
                          code(q) == ListGroups(q).outcome
                      IN  /\ code([r EXCEPT !.subject = s2]) = "MEMBERSHIP_INVALID"
                          /\ code([r EXCEPT !.limit = @ + 1]) = "MEMBERSHIP_INVALID"
                          /\ code([r EXCEPT !.now = @ + CursorLifetime]) = "MEMBERSHIP_INVALID"
                          /\ code([r EXCEPT !.revision = 2]) = "MEMBERSHIP_STALE"

(* What happens to the calls of one request: one begins, counted or as a   *)
(* part of another, one that is under way ends, the time is up.            *)
IOEvents == {"CALL", "PART", "END", "TIME"}

IOStep(x, event) ==
    LET begun == BeginCall(x.io, event = "CALL")
    IN  CASE event \in {"CALL", "PART"} ->
               [x EXCEPT !.io = begun.io, !.told = Append(@, begun.result),
                         !.under = @ + (IF begun.result = "STARTED" THEN 1 ELSE 0),
                         !.sent = @ + (IF begun.result = "STARTED" /\ event = "CALL" THEN 1 ELSE 0)]
          [] event = "END" -> IF x.under = 0 THEN x
               ELSE [x EXCEPT !.under = @ - 1, !.ended = @ \cup {Ended(x.io)}]
          [] event = "TIME" -> [x EXCEPT !.io = TimeIsUp(@)]

IORuns(limit) ==
    LET after[n \in 0..6] ==
          IF n = 0 THEN {[io |-> NewContext(limit), told |-> <<>>, under |-> 0, sent |-> 0, ended |-> {}]}
          ELSE after[n - 1] \cup {IOStep(x, event) : x \in after[n - 1], event \in IOEvents}
    IN  after[6]

(* A request never makes more calls than it may, whatever it does with its *)
(* errors: after the first one none begins.  Only one call, and those it   *)
(* meets under way, learn that the calls were used up; whoever comes after *)
(* is told that the time is.                                               *)
ASSUME BudgetsAreKept ==
    \A limit \in 1..3 : \A x \in IORuns(limit) :
        /\ x.sent <= limit /\ x.io.requests <= limit + 1
        /\ x.io \in IOContext
        /\ \A i \in DOMAIN x.told : x.told[i] # "STARTED" =>
              \A j \in i + 1..Len(x.told) : x.told[j] = "PARTITION_TIMEOUT"
        /\ (\E i \in DOMAIN x.told : x.told[i] = "PARTITION_REQUEST_LIMIT")
              => x.sent = limit /\ "PARTITION_TIMEOUT" \notin x.ended
        /\ x.ended \subseteq {"ANSWERED", x.io.aborted}
=============================================================================
