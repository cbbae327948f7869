--------------------------- MODULE GroupSessions ---------------------------
(***************************************************************************)
(* What people do with their groups and decisions                          *)
(* (packages/adapters/src: partition-group-session.ts,                     *)
(* partition-decision-repository.ts, partition-account-operator.ts;        *)
(* packages/application/src/known-enough.ts for what joins a decision).    *)
(*                                                                         *)
(* A session method reads its rows, decides and commits under the          *)
(* revisions of all of them, again if somebody was faster: one action, at  *)
(* its commit.  A decision request is two: it captures a fence on the      *)
(* group and every member's account, and later commits a change of the     *)
(* decision, in another table, under that fence; in between the callback   *)
(* keeps the roster it read.  A refusal changes nothing and is no step.    *)
(*                                                                         *)
(* Left out: display names, titles, the model that writes a draft (it is   *)
(* called between two transactions and the second one repeats every check  *)
(* of the first), limits on numbers; and what only looks is no step: it is *)
(* operators, before AccountStep.  Nobody closes a decision: no route      *)
(* calls closeDecision.                                                    *)
(*                                                                         *)
(* Definitions marked "Faulty variant" are no part of any specification:   *)
(* each is what a plausible mistake would make of the definition after it. *)
(***************************************************************************)
EXTENDS PartitionStore

CONSTANT InFlight  \* bound: decision requests at a time

ASSUME InFlightAssumption == InFlight \in Nat

(***************************************************************************)
(* Who may do what.                                                        *)
(***************************************************************************)

\* scope() and current(): the group is open to s, and every row can be read.
MayVisit(s, g) ==
    /\ Approved(s)
    /\ group[g].status = "OPEN"
    /\ s \in Members(g)
    /\ Readable(Members(g))

MayOrganize(s, g) == MayVisit(s, g) /\ group[g].organizer = s

\* publicRoster(): everybody in the group is approved.
RosterApproved(g) == \A s \in Members(g) : Approved(s)

(***************************************************************************)
(* Rows after a change of group g's version.                               *)
(***************************************************************************)

DraftsLeftBehind(g) ==
    [d \in Draft |-> IF GroupOf[d] = g /\ draft[d].status = "CURRENT"
                     THEN [draft[d] EXCEPT !.status = "STALE"] ELSE draft[d]]

\* Faulty variant: a removal carries bindings along as an acceptance does.
FaultyBindingsLeftBehind(g) == binding

BindingsLeftBehind(g) ==
    [d \in Draft |-> IF GroupOf[d] = g /\ binding[d] = "CURRENT"
                     THEN "STALE" ELSE binding[d]]

\* An acceptance carries along the bindings that were at the version before.
BindingsFollow(g) == binding

(***************************************************************************)
(* Accounts.                                                               *)
(***************************************************************************)

Touch(rows) ==
    /\ request' = RequestsAfter(rows)
    /\ plan' = PlansAfter(rows)
    /\ archive' = ArchivesAfter(rows)
    /\ UNCHANGED <<journal, consent>>

Register(s) ==
    /\ account[s].status = "ABSENT"
    /\ account' = [account EXCEPT ![s].status = "PENDING"]
    /\ Touch({AccountRow(s)})
    /\ UNCHANGED <<edges, group, invitation, draft, binding, decision>>

Approve(s) ==
    /\ account[s].status = "PENDING"
    /\ account' = [account EXCEPT ![s].status = "APPROVED"]
    /\ Touch({AccountRow(s)})
    /\ UNCHANGED <<edges, group, invitation, draft, binding, decision>>

UpdateProfile(s) ==
    /\ account[s].status \in {"PENDING", "APPROVED"}
    /\ Touch({AccountRow(s)})
    /\ UNCHANGED <<account, edges, group, invitation, draft, binding, decision>>

(***************************************************************************)
(* Groups and their rosters.  A change of the discovery edge of s writes   *)
(* the account of s as well.                                               *)
(***************************************************************************)

Create(s, g) ==
    /\ Approved(s)
    /\ group[g].status = "ABSENT"
    /\ group' = [group EXCEPT ![g] =
                    [status |-> "OPEN", organizer |-> s, members |-> {s}]]
    /\ edges' = [edges EXCEPT ![s] = @ \cup {g}]
    /\ Touch({AccountRow(s), HeaderRow(g)})
    /\ UNCHANGED <<account, invitation, draft, binding, decision>>

\* The address belongs to nobody yet, or to s, whose account then lists the
\* invitation.  An invitation that is there is replaced; one that expires
\* is one that nobody accepts.
Invite(o, g, s) ==
    /\ MayOrganize(o, g)
    /\ s \notin Members(g)
    /\ account[s].status \in {"ABSENT", "PENDING", "APPROVED"}
    /\ invitation' = [invitation EXCEPT ![g][s] = "OPEN"]
    /\ Touch({HeaderRow(g)} \cup (IF Approved(s) THEN {AccountRow(s)} ELSE {}))
    /\ UNCHANGED <<account, edges, group, draft, binding, decision>>

Accept(s, g) ==
    /\ Approved(s)
    /\ group[g].status = "OPEN"
    /\ Approved(group[g].organizer)
    /\ Readable(Members(g))
    /\ invitation[g][s] = "OPEN"
    /\ invitation' = [invitation EXCEPT ![g][s] = "ACCEPTED"]
    /\ group' = [group EXCEPT ![g].members = @ \cup {s}]
    /\ edges' = [edges EXCEPT ![s] = @ \cup {g}]
    /\ draft' = DraftsLeftBehind(g)
    /\ binding' = BindingsFollow(g)
    /\ Touch({AccountRow(s), HeaderRow(g)})
    /\ UNCHANGED <<account, decision>>

RemoveMember(o, g, s) ==
    /\ MayOrganize(o, g)
    /\ s \in Members(g) \ {o}
    /\ group' = [group EXCEPT ![g].members = @ \ {s}]
    /\ draft' = DraftsLeftBehind(g)
    /\ binding' = BindingsLeftBehind(g)
    /\ Touch({AccountRow(s), HeaderRow(g)})
    /\ UNCHANGED <<account, edges, invitation, decision>>

Rename(o, g) ==
    /\ MayOrganize(o, g)
    /\ Touch({HeaderRow(g)})
    /\ UNCHANGED <<account, edges, group, invitation, draft, binding, decision>>

\* The header keeps its members; their edges become inactive.
DeleteGroup(o, g) ==
    /\ MayOrganize(o, g)
    /\ group' = [group EXCEPT ![g].status = "DELETED"]
    /\ draft' = DraftsLeftBehind(g)
    /\ binding' = BindingsLeftBehind(g)
    /\ Touch({HeaderRow(g)} \cup {AccountRow(s) : s \in Members(g)})
    /\ UNCHANGED <<account, edges, invitation, decision>>

(***************************************************************************)
(* Drafts and bindings.  A commit that writes a child advances the header. *)
(***************************************************************************)

GenerateDraft(o, d) ==
    /\ MayOrganize(o, GroupOf[d])
    /\ RosterApproved(GroupOf[d])
    /\ draft[d].status = "NONE"
    /\ draft' = [draft EXCEPT ![d] = [status |-> "CURRENT",
                                      names |-> Members(GroupOf[d])]]
    /\ Touch({HeaderRow(GroupOf[d]), DraftRow(d)})
    /\ UNCHANGED <<account, edges, group, invitation, binding, decision>>

EditDraft(o, d) ==
    /\ MayOrganize(o, GroupOf[d])
    /\ draft[d].status = "CURRENT"
    /\ Touch({HeaderRow(GroupOf[d]), DraftRow(d)})
    /\ UNCHANGED <<account, edges, group, invitation, draft, binding, decision>>

RemoveDraft(o, d) ==
    /\ MayOrganize(o, GroupOf[d])
    /\ draft[d].status \in {"CURRENT", "STALE"}
    /\ draft' = [draft EXCEPT ![d].status = "DELETED"]
    /\ Touch({HeaderRow(GroupOf[d]), DraftRow(d)})
    /\ UNCHANGED <<account, edges, group, invitation, binding, decision>>

\* The decision's own rows stay; nobody but an erasure reaches them again.
RemoveDecision(o, d) ==
    /\ MayOrganize(o, GroupOf[d])
    /\ binding[d] \in {"CURRENT", "STALE"}
    /\ binding' = [binding EXCEPT ![d] = "DELETED"]
    /\ draft' = [draft EXCEPT ![d].status = "DELETED"]
    /\ Touch({HeaderRow(GroupOf[d]), DraftRow(d)})
    /\ UNCHANGED <<account, edges, group, invitation, decision>>

(***************************************************************************)
(* Decision requests.                                                      *)
(***************************************************************************)

\* prepareDraftCreation(), decisionFence(), prepareRoster()
MayFence(s, kind, d) ==
    /\ RosterApproved(GroupOf[d])
    /\ CASE kind = "CREATE"        -> /\ MayOrganize(s, GroupOf[d])
                                      /\ draft[d].status = "CURRENT"
         [] kind = "TAKE_PART"     -> /\ MayVisit(s, GroupOf[d])
                                      /\ binding[d] = "CURRENT"
         [] kind = "REVISE_ROSTER" -> /\ MayOrganize(s, GroupOf[d])
                                      /\ binding[d] \in {"CURRENT", "STALE"}

Fence(s, kind, d) ==
    /\ request[s] = None
    /\ Cardinality({t \in Subject : request[t] # None}) < InFlight
    /\ MayFence(s, kind, d)
    /\ request' = [request EXCEPT ![s] =
                      [kind |-> kind, on |-> d, roster |-> Members(GroupOf[d]),
                       current |-> TRUE]]
    /\ UNCHANGED <<account, edges, group, invitation, draft, binding, decision,
                   plan, journal, consent, archive>>

\* The fence no longer stands, the caller disconnects or the deadline passes.
GiveUp(s) ==
    /\ request[s] # None
    /\ request' = [request EXCEPT ![s] = None]
    /\ UNCHANGED <<account, edges, group, invitation, draft, binding, decision,
                   plan, journal, consent, archive>>

\* Faulty variant: the fence is checked before, and does not join the write.
FaultyFenceStands(s) == TRUE

\* The fence's revisions are conditions of the write: perform().
FenceStands(s) == request[s].current

\* includeDecisionGroupMembers(): whom it accepts, and what it adds; with
\* anybody it adds it computes the status anew.
MayInclude(D, roster) ==
    D.status = "LIVE" => D.members \subseteq roster /\ D.inactive = {}

WithMembers(D, roster) ==
    IF D.status = "LIVE" /\ D.members # roster
    THEN [D EXCEPT !.members = roster, !.readable = TRUE] ELSE D

WithReceipt(D, s) == [D EXCEPT !.receipt[s] = D.incarnation]

(* The request of s commits decision d, and forgets its fence.             *)
StoreDecision(s, d, next, rows) ==
    /\ decision' = [decision EXCEPT ![d] = next]
    /\ request' = [RequestsAfter(rows) EXCEPT ![s] = None]
    /\ plan' = PlansAfter(rows)
    /\ archive' = ArchivesAfter(rows)
    /\ UNCHANGED <<account, edges, group, invitation, journal, consent>>

\* Draft, binding, header, state and guard in one write; neither state nor
\* guard may exist.
CreateDecision(s, d) ==
    /\ request[s] # None /\ request[s].kind = "CREATE" /\ request[s].on = d
    /\ FenceStands(s)
    /\ decision[d].status = "ABSENT"
    /\ draft' = [draft EXCEPT ![d].status = "CREATED"]
    /\ binding' = [binding EXCEPT ![d] = "CURRENT"]
    /\ StoreDecision(s, d, [NoDecision EXCEPT !.status = "LIVE",
                                              !.members = request[s].roster],
                     {HeaderRow(GroupOf[d]), DraftRow(d), GuardRow(d)})

(* forParticipant(): whatever s asks for, the roster of the fence joins    *)
(* first.  A member whose seat is inactive, or who never had one, gets     *)
(* NOT_FOUND; every route reads a snapshot before anything else.           *)
TakesPart(s, d) ==
    /\ request[s] # None /\ request[s].kind = "TAKE_PART" /\ request[s].on = d
    /\ FenceStands(s)
    /\ decision[d].status \in {"LIVE", "AGREED"}
    /\ MayInclude(decision[d], request[s].roster)
    /\ LET D == WithMembers(decision[d], request[s].roster)
       IN  s \in D.members /\ D.readable

Joined(s, d) == WithMembers(decision[d], request[s].roster)

\* A command that saves private input of s.
Contribute(s, d) ==
    /\ TakesPart(s, d)
    /\ decision[d].status = "LIVE"
    /\ StoreDecision(s, d, WithReceipt([Joined(s, d) EXCEPT
                                           !.private = @ \cup {s}], s),
                     {GuardRow(d), ReplayRow(d, s)})
    /\ UNCHANGED <<draft, binding>>

\* The last approval.  Everybody's input is complete by then.
Agree(s, d) ==
    /\ TakesPart(s, d)
    /\ decision[d].status = "LIVE"
    /\ Joined(s, d).members \subseteq decision[d].private
    /\ StoreDecision(s, d, WithReceipt([Joined(s, d) EXCEPT
                                           !.status = "AGREED"], s),
                     {GuardRow(d), ReplayRow(d, s)})
    /\ UNCHANGED <<draft, binding>>

\* Or any other command that retires the outcome.
Withdraw(s, d) ==
    /\ TakesPart(s, d)
    /\ decision[d].status = "AGREED"
    /\ StoreDecision(s, d, WithReceipt([decision[d] EXCEPT
                                           !.status = "LIVE"], s),
                     {GuardRow(d), ReplayRow(d, s)})
    /\ UNCHANGED <<draft, binding>>

\* A read writes if and only if somebody joins by it.
Look(s, d) ==
    /\ TakesPart(s, d)
    /\ Joined(s, d) # decision[d]
    /\ StoreDecision(s, d, Joined(s, d), {GuardRow(d)})
    /\ UNCHANGED <<draft, binding>>

\* reviseDecision() as the roster route calls it: the same frame, one
\* version on.  Only additions join as they do for a participant; anything
\* else starts the decision again and retires what its owners had.
Revised(D, roster) ==
    CASE D.status = "AGREED"    -> D
      [] MayInclude(D, roster)  -> WithMembers(D, roster)
      [] OTHER                  -> [D EXCEPT !.members = roster,
                                             !.readable = TRUE,
                                             !.inactive = {},
                                             !.private = {},
                                             !.retired = @ \cup D.private]

\* The creator holds an active seat, and the route shows the owner's view
\* first.  The binding's update never travels alone: a revision that changes
\* nothing is refused.
MayRevise(s, D, roster) ==
    s \in D.members /\ D.readable /\ Revised(D, roster) # D

ReviseRoster(s, d) ==
    LET next == Revised(decision[d], request[s].roster) IN
    /\ request[s] # None /\ request[s].kind = "REVISE_ROSTER"
    /\ request[s].on = d
    /\ FenceStands(s)
    /\ decision[d].status \in {"LIVE", "AGREED"}
    /\ MayRevise(s, decision[d], request[s].roster)
    /\ binding' = [binding EXCEPT ![d] = "CURRENT"]
    /\ StoreDecision(s, d, next,
          {GuardRow(d)} \cup (IF binding[d] = "STALE"
                              THEN {HeaderRow(GroupOf[d])} ELSE {}))
    /\ UNCHANGED draft

(***************************************************************************)
(* The items of a fence, for a roster and decision d of group g at some    *)
(* version: mutations() of what prepareDraftCreation(), decisionFence(),   *)
(* prepareRoster() and displayFence() leave.                               *)
(***************************************************************************)
AccountItems(roster) == {Compared(AccountRow(s)) : s \in roster}

HeaderItem(g, roster, d, version) ==
    Item("PUT", HeaderRow(g), "SAME",
         [members |-> roster, drafts |-> {d}, decisions |-> {d}, version |-> version])

BindingItem(d, cond, version) ==
    Item("PUT", BindingRow(d), cond, [version |-> version, deleted |-> FALSE])

CreationFence(roster, d, version) ==
    AccountItems(roster) \cup
        {HeaderItem(GroupOf[d], roster, d, version),
         Item("PUT", DraftRow(d), "SAME", [created |-> d, version |-> version]),
         BindingItem(d, "ABSENT", version),
         Item("PUT", DirectoryRow(d), "ABSENT", GroupOf[d])}

PartFence(roster, d) == AccountItems(roster) \cup {Compared(HeaderRow(GroupOf[d]))}

\* A binding at the group's version is not written again.
RosterFence(roster, d, version, stale) ==
    IF stale THEN AccountItems(roster) \cup {HeaderItem(GroupOf[d], roster, d, version),
                                             BindingItem(d, "SAME", version)}
    ELSE PartFence(roster, d)

\* Whoever shows a decision may be a member, have an account or have none.
DisplayItem(s, known) == IF known THEN Compared(AccountRow(s)) ELSE Vacant(AccountRow(s))
DisplayFence(s, known, roster, d) ==
    PartFence(roster, d) \cup (IF s \in roster THEN {} ELSE {DisplayItem(s, known)})

\* A decision from before there were groups.
LegacyDisplayFence(s, known, d) == {DisplayItem(s, known), Vacant(DirectoryRow(d))}

(***************************************************************************)
(* Who may look, before any callback runs.  x says what is found: the      *)
(* viewer's account, the decision's directory row, header and binding, and *)
(* whether the viewer is in the group and everybody in it is approved.     *)
(***************************************************************************)
BindingOutcome(x) ==
    CASE x.binding \in {"NONE", "DELETED"} -> "NOT_FOUND"
      [] x.binding = "STALE" -> "STALE_CONTEXT"
      [] OTHER -> "FENCED"

\* decisionFence(); a historical look takes an older binding.
PartOutcome(x, historical) ==
    LET found == BindingOutcome(x) IN
    CASE x.directory = "NONE" -> "NOT_FOUND"
      [] x.directory # "NONE" /\ x.account # "APPROVED" -> "FORBIDDEN"
      [] x.directory # "NONE" /\ x.account = "APPROVED" /\ ~(x.header = "OPEN" /\ x.member) -> "NOT_FOUND"
      [] OTHER -> IF found \in {"NOT_FOUND"} \cup (IF historical THEN {} ELSE {"STALE_CONTEXT"}) THEN found
                  ELSE IF ~x.rosterApproved THEN "FORBIDDEN" ELSE "FENCED"

\* displayFence()
DisplayOutcome(x) ==
    LET allowed == x.account \in {"ABSENT", "APPROVED"} IN
    CASE x.directory = "NONE" /\ ~x.legacy -> "NOT_FOUND"
      [] x.directory = "NONE" /\ x.legacy -> IF allowed THEN "FENCED" ELSE "FORBIDDEN"
      [] x.directory # "NONE" /\ x.header # "OPEN" -> "NOT_FOUND"
      [] OTHER -> IF ~allowed THEN "FORBIDDEN" ELSE BindingOutcome(x)

\* current(), currentDraft() and memberProfile(): what a person may do in a
\* group, with a draft of it, and see of another member.
CurrentGroup(x, organizing) ==
    CASE x.account # "APPROVED" -> "FORBIDDEN"
      [] x.account = "APPROVED" /\ ~(x.header = "OPEN" /\ x.member) -> "NOT_FOUND"
      [] OTHER -> IF organizing /\ ~x.organizer THEN "FORBIDDEN" ELSE "OK"

CurrentDraft(x) ==
    LET may == CurrentGroup(x, TRUE) IN
    CASE may # "OK" -> may
      [] may = "OK" /\ x.draft \in {"NONE", "DELETED"} -> "NOT_FOUND"
      [] may = "OK" /\ x.draft = "STALE" -> "STALE_CONTEXT"
      [] OTHER -> "OK"

MemberProfile(x) ==
    LET may == CurrentGroup(x, FALSE)
    IN  IF may = "OK" /\ x.target # "APPROVED" THEN "NOT_FOUND" ELSE may

(* A look at a decision, and what it may hand out: a snapshot is           *)
(* [decision, viewer, owner], whose owner is None when it is the public    *)
(* one.  alone: the caller asks for nothing but the look.                  *)
DisplayLook(x, room, d, alone, view) ==
    IF room # d \/ ~alone THEN "FORBIDDEN"
    ELSE IF DisplayOutcome(x) # "FENCED" THEN DisplayOutcome(x)
    ELSE IF view = [decision |-> d, viewer |-> None, owner |-> None] THEN "SHOWN"
    ELSE "FORBIDDEN"

HistoricalLook(x, d, status, alone, view) ==
    IF ~alone THEN "FORBIDDEN"
    ELSE IF PartOutcome(x, TRUE) # "FENCED" THEN PartOutcome(x, TRUE)
    ELSE IF status \notin {"AGREED", "CLOSED"} THEN "STALE_CONTEXT"
    ELSE IF view.decision = d /\ view.owner # None /\ view.viewer = view.owner THEN "SHOWN"
    ELSE "FORBIDDEN"

(***************************************************************************)
(* Listing the groups of a person (partition-membership.ts).  The index    *)
(* holds [group, active] in the order of the groups' names; whoever lists  *)
(* is shown what the headers say.  A header is [status, organizer,         *)
(* members], as in group.                                                  *)
(***************************************************************************)
CursorLifetime == 900  \* seconds

\* partitionMembershipSeeds()
MembershipSeeds(g, header) ==
    {[subject |-> s, group |-> g, active |-> header.status = "OPEN"] : s \in header.members}

PageOf(index, after, limit) ==
    LET rest == SelectSeq(index, LAMBDA row : row.group > after)
    IN  SubSeq(rest, 1, IF Len(rest) < limit THEN Len(rest) ELSE limit)

\* Both reads of the headers must agree (initial, current).
Summaries(page, header, s) ==
    SelectSeq([i \in DOMAIN page |-> [id |-> page[i].group, active |-> page[i].active]],
              LAMBDA row : /\ row.active
                           /\ header[row.id].status = "OPEN" /\ s \in header[row.id].members)

\* Where to go on: the service names the last row of a page it filled.
NextCursor(s, page, limit, revision, now) ==
    IF Len(page) < limit THEN None
    ELSE [subject |-> s, limit |-> limit, after |-> page[limit].group,
          revision |-> revision, issued |-> now, expires |-> now + CursorLifetime]

\* r: what is asked, by whom, and what the reads around it found.
ListGroups(r) ==
    LET c == r.cursor
        page == PageOf(r.index, IF c = None THEN 0 ELSE c.after, r.limit)
        refused(code) == [outcome |-> code, groups |-> <<>>, cursor |-> None]
    IN  IF r.limit \notin 1..20 THEN refused("MEMBERSHIP_INVALID")
        ELSE IF c # None /\ (c.issued > r.now \/ c.expires <= r.now
                             \/ c.subject # r.subject \/ c.limit # r.limit)
        THEN refused("MEMBERSHIP_INVALID")
        ELSE IF ~r.migrated \/ r.account # "APPROVED" THEN refused("MEMBERSHIP_DENIED")
        ELSE IF c # None /\ c.revision # r.revision THEN refused("MEMBERSHIP_STALE")
        ELSE IF r.changedMeanwhile THEN refused("MEMBERSHIP_STALE")
        ELSE [outcome |-> "LISTED", groups |-> Summaries(page, r.header, r.subject),
              cursor |-> NextCursor(r.subject, page, r.limit, r.revision, r.now)]

AccountStep ==
    \E s \in Subject : Register(s) \/ Approve(s) \/ UpdateProfile(s)

GroupStep ==
    \E s \in Subject, g \in Group :
        \/ Create(s, g)
        \/ \E t \in Subject : Invite(s, g, t)
        \/ Accept(s, g)
        \/ \E t \in Subject : RemoveMember(s, g, t)
        \/ Rename(s, g)
        \/ DeleteGroup(s, g)

DraftStep ==
    \E s \in Subject, d \in Draft :
        \/ GenerateDraft(s, d)
        \/ EditDraft(s, d)
        \/ RemoveDraft(s, d)
        \/ RemoveDecision(s, d)

DecisionStep ==
    \E s \in Subject, d \in Draft :
        \/ \E kind \in {"CREATE", "TAKE_PART", "REVISE_ROSTER"} :
              Fence(s, kind, d)
        \/ CreateDecision(s, d)
        \/ Contribute(s, d)
        \/ Agree(s, d)
        \/ Withdraw(s, d)
        \/ Look(s, d)
        \/ ReviseRoster(s, d)

SessionNext ==
    \/ AccountStep
    \/ GroupStep
    \/ DraftStep
    \/ DecisionStep
    \/ \E s \in Subject : GiveUp(s)
=============================================================================
