---------------------------- MODULE GroupArchive ----------------------------
(***************************************************************************)
(* Archiving one group (packages/adapters/src: partition-archive.ts,       *)
(* dynamo-partition-archive.ts, the archive ports of partition-managed.ts).*)
(*                                                                         *)
(* prepare() preserves a manifest of all the group's rows and commits a    *)
(* journal; archive() reads every row again and replaces the header by a   *)
(* tombstone.  What was read and what the write compares is not the same:  *)
(* a commit compares the header, the authority's row, the control row and  *)
(* the journal, never the children.  An answer that got lost is read back  *)
(* from the journal, so a commit is one step.                              *)
(*                                                                         *)
(* Left out: hashes, sizes, the chunks a large manifest is kept in, the    *)
(* control row, which does not change once the partitions are active, and  *)
(* the policy that lets operators in.  One manifest per group.             *)
(*                                                                         *)
(* Definitions marked "Faulty variant" are no part of any specification:   *)
(* each is what a plausible mistake would make of the definition after it. *)
(***************************************************************************)
EXTENDS PartitionStore

Authority == {"ORGANIZER", "OPERATOR"}

ChildrenOf(g) == {d \in Draft : GroupOf[d] = g}

\* The rows of the children as they are now.
Children(g) == [d \in ChildrenOf(g) |-> <<draft[d], binding[d]>>]

(* Of a manifest only the members are read once the group is archived.     *)
ManifestType(g) ==
    [by : Authority, state : {"PREPARED", "CHECKED"}, members : SUBSET Subject,
     children : [ChildrenOf(g) -> DraftType \X BindingType], fresh : SUBSET Row]

TombstoneType == [state : {"ARCHIVED"}, members : SUBSET Subject,
                  fresh : SUBSET Row]

ASSUME ManifestAssumption ==
    \A g \in Group : None \notin ManifestType(g) \cup TombstoneType

\* authorityGuard(): an organizer's own account; an operator's policy.
GuardRows(g, by) == IF by = "ORGANIZER" THEN {AccountRow(group[g].organizer)} ELSE {}

Authorized(g, by) == by = "ORGANIZER" => Approved(group[g].organizer)

(* preparePartitionArchive() compiles the header with all of its children; *)
(* prepare() finds nothing changed, preserves the manifest and commits the *)
(* first entry of the journal.                                             *)
PrepareArchive(g, by) ==
    /\ archive[g] = None
    /\ group[g].status \in {"OPEN", "DELETED"}
    /\ Authorized(g, by)
    /\ archive' = [archive EXCEPT ![g] =
                      [by |-> by, state |-> "PREPARED", members |-> Members(g),
                       children |-> Children(g), fresh |-> {HeaderRow(g)}]]
    /\ UNCHANGED <<account, edges, group, invitation, draft, binding, decision,
                   request, plan, journal, consent>>

(* archive(), until the recovery copy has been read: current() finds every *)
(* row as the manifest has it.                                             *)
CheckArchive(g) ==
    /\ archive[g] # None /\ archive[g].state = "PREPARED"
    /\ HeaderRow(g) \in archive[g].fresh
    /\ Children(g) = archive[g].children
    /\ Authorized(g, archive[g].by)
    /\ archive' = [archive EXCEPT ![g].state = "CHECKED",
                                  ![g].fresh = @ \cup GuardRows(g, archive[g].by)]
    /\ UNCHANGED <<account, edges, group, invitation, draft, binding, decision,
                   request, plan, journal, consent>>

\* Faulty variant: what was read is not compared again.
FaultyConditionsStand(g) == TRUE

\* The conditions of archiveDynamoWrites().
ConditionsStand(g) ==
    {HeaderRow(g)} \cup GuardRows(g, archive[g].by) \subseteq archive[g].fresh

\* The tombstone.  Edges, children, directory and decisions stay; of the
\* manifest only the header is ever read again.
CommitArchive(g) ==
    /\ archive[g] # None /\ archive[g].state = "CHECKED"
    /\ ConditionsStand(g)
    /\ archive' = [archive EXCEPT ![g] = [state |-> "ARCHIVED", members |-> @.members,
                                          fresh |-> {}]]
    /\ group' = [group EXCEPT ![g].status = "ARCHIVED", ![g].members = {}]
    /\ request' = RequestsAfter({HeaderRow(g)})
    /\ plan' = PlansAfter({HeaderRow(g)})
    /\ UNCHANGED <<account, edges, invitation, draft, binding, decision,
                   journal, consent>>

ArchiveNext ==
    \E g \in Group :
        \/ \E by \in Authority : PrepareArchive(g, by)
        \/ CheckArchive(g)
        \/ CommitArchive(g)
=============================================================================
