------------------------- MODULE PartitionedSystem -------------------------
(***************************************************************************)
(* Group sessions, decision requests, archives and erasures on one store:  *)
(* every interleaving of the transactions of GroupSessions, GroupArchive   *)
(* and AccountErasure.                                                     *)
(* Nobody is obliged to do anything, so no fairness is assumed.            *)
(***************************************************************************)
EXTENDS GroupSessions, AccountErasure

Init == StoreInit

Next == SessionNext \/ ErasureNext \/ ArchiveNext

Spec == Init /\ [][Next]_storeVars

(***************************************************************************)
(* Properties.                                                             *)
(***************************************************************************)

\* Every row has its type, and an erasure is done when no step is left.
TypeOK ==
    /\ account \in [Subject -> AccountType]
    /\ edges \in [Subject -> SUBSET Group]
    /\ group \in [Group -> GroupType]
    /\ invitation \in [Group -> [Subject -> {None, "OPEN", "ACCEPTED"}]]
    /\ draft \in [Draft -> DraftType]
    /\ binding \in [Draft -> BindingType]
    /\ decision \in [Draft -> DecisionType]
    /\ request \in [Subject -> {None} \cup RequestType]
    /\ plan \in [Plan -> {None} \cup PlanType]
    /\ journal \in [Plan -> {None, "PREPARED", "ERASING", "ERASED"}]
    /\ \A p \in Plan : (journal[p] = "ERASED")
                          <=> (plan[p] # None /\ plan[p].steps = <<>>)
    /\ consent \in [Plan -> SUBSET Subject]
    /\ archive = [g \in Group |-> archive[g]]
    /\ \A g \in Group : archive[g] # None =>
          archive[g] \in ManifestType(g) \cup TombstoneType

\* Private input enters a decision only from somebody who, at the moment it
\* is stored, is an approved member of the open group: the fence a request
\* read long before joins the decision's own write (perform()).
PrivateInputComesFromMembers ==
    [][\A d \in Draft, s \in Subject :
          s \in decision'[d].private \ decision[d].private =>
              /\ Approved(s)
              /\ group[GroupOf[d]].status = "OPEN"
              /\ s \in Members(GroupOf[d])]_storeVars

\* A binding at the group's version never opens a decision in which somebody
\* outside the group still sits: acceptances carry bindings along, removals
\* leave them behind, and only a roster revision brings one back.
CurrentBindingMatchesRoster ==
    \A d \in Draft : binding[d] = "CURRENT" /\ group[GroupOf[d]].status = "OPEN"
        => Seated(d) \subseteq Members(GroupOf[d])

\* An erasure that has begun still has to remove the receipt of s.
ToBeRemoved(d, s) ==
    \E p \in Plan :
        /\ journal[p] = "ERASING"
        /\ \E i \in DOMAIN plan[p].steps :
              /\ plan[p].steps[i].kind = "REPLAYS" /\ plan[p].steps[i].on = d
              /\ ReplayRow(d, s) \in plan[p].steps[i].rows

\* After the last step of an account's plan nothing of the person is left in
\* a decision, a receipt or a draft, whatever others did between the steps:
\* only a receipt that another erasure, which passed the decision before the
\* plan was made, is about to remove.
ErasedLeavesNoTrace ==
    \A s \in Subject : account[s].status = "ERASED" =>
        \A d \in Draft : /\ s \notin Holders(d) \cup decision[d].members
                         /\ decision[d].receipt[s] = None \/ ToBeRemoved(d, s)
                         /\ s \notin draft[d].names

\* What somebody has in a decision, current or retired, disappears only
\* while a grant of theirs stands: a revision retires it, and an erasure
\* rechecks every grant with each of its commits.
DataLeavesWithConsent ==
    [][\A d \in Draft : \A s \in Holders(d) \ Holders(d)' :
          \E p \in Plan : s \in consent[p]]_storeVars

\* While a member's account is frozen their group rests: roster, drafts and
\* decisions change by erasures only; at most it is archived.
GroupRestsWhileErasing ==
    [][\A d \in Draft :
          /\ \E s \in Members(GroupOf[d]) : account[s].status = "ERASING"
          /\ \A p \in Plan : plan[p] # None => plan'[p].steps = plan[p].steps
          => /\ \/ group'[GroupOf[d]] = group[GroupOf[d]]
                \/ group'[GroupOf[d]].status = "ARCHIVED"
             /\ <<draft'[d], binding'[d], decision'[d]>>
                  = <<draft[d], binding[d], decision[d]>>]_storeVars

\* An archived group is the one its manifest describes: whatever was changed
\* between the two readings and the tombstone stops the archive, and the one
\* change that does not advance the header removes an erased person's name.
\* An organizer's archive is the act of somebody who is approved.
ArchiveIsTrue ==
    [][\A g \in Group :
          /\ group[g].status # "ARCHIVED"
          /\ archive'[g] # None /\ archive'[g].state = "ARCHIVED"
          => LET a == archive[g] IN
             /\ Members(g) = a.members
             /\ a.by = "ORGANIZER" => Approved(group[g].organizer)
             /\ \A d \in ChildrenOf(g) :
                   /\ binding[d] = a.children[d][2]
                   /\ draft[d].status = a.children[d][1].status
                   /\ \A s \in a.children[d][1].names \ draft[d].names :
                         account[s].status \in {"ERASING", "ERASED"}]_storeVars

\* Removing an erased person from the group leaves the binding stale, and the
\* organizer can bring the decision back for those whose private conditions
\* the erasure kept: partition-lifecycle.ts:202 "retain unrelated owners'
\* private conditions", partition-group-session.ts:750 "Explicit organizer
\* recovery of a stale binding".
ErasureCanBeRecovered ==
    \A d \in Draft :
        LET g == GroupOf[d]
            o == group[g].organizer
        IN  /\ binding[d] = "STALE" /\ decision[d].status = "LIVE"
            /\ decision[d].inactive # {}
            /\ group[g].status = "OPEN" /\ RosterApproved(g)
            /\ o \in decision[d].private
            => MayRevise(o, decision[d], Members(g))
=============================================================================
