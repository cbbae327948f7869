---------------------------- MODULE LegacyGroups ----------------------------
(***************************************************************************)
(* The group service on one shared record (apps/api/src: group-service.ts, *)
(* group-decisions.ts; packages/adapters/src: group-repository.ts).        *)
(*                                                                         *)
(* Every transaction reads the record, changes a copy and writes it back   *)
(* if nobody wrote in between, else it starts again: so each is one step,  *)
(* an operator from a record and what the caller carries to an answer and  *)
(* a record.  A fence is a transaction whose write joins the write of the  *)
(* decision, or which only checks that nobody wrote.                       *)
(*                                                                         *)
(* One group, one draft and the decision it is for.  s is a record:        *)
(*   account   [Subject -> None or status and email]                       *)
(*   inbox     who has the invitation in the account                       *)
(*   group     None or the group                                           *)
(*   decision  None or the decision, with the subjects it was made for     *)
(* A roster is what the organizer read of the group before an await: its   *)
(* version and its members then.                                           *)
(* Left out: profiles and their pictures, what names and frames say; a     *)
(* token is as good as the address it was sent to; when something expires  *)
(* is up to the environment (LetExpire).                                   *)
(***************************************************************************)
EXTENDS Naturals, FiniteSets

CONSTANTS Subject, Email, Name, None,
          MaxAccounts, MaxMembers        \* 256 and 16

Refused(s, code) == [code |-> code, state |-> s]
Accepted(s) == [code |-> "OK", state |-> s]

Empty == [account |-> [x \in Subject |-> None], inbox |-> {}, group |-> None,
          decision |-> None]

Registered(s) == {x \in Subject : s.account[x] # None}
IsApproved(s, x) == s.account[x] # None /\ s.account[x].status = "APPROVED"

(* group(), currentGroup(): what a caller is told about a group.           *)
Admission(s, who, organizerOnly) ==
    IF ~IsApproved(s, who) THEN "FORBIDDEN"
    ELSE IF s.group = None THEN "NOT_FOUND"
    ELSE IF s.group.deleted \/ who \notin s.group.members THEN "NOT_FOUND"
    ELSE IF organizerOnly /\ s.group.organizer # who THEN "FORBIDDEN"
    ELSE "OK"

------------------------------------------------------------ \* Accounts
Register(s, who, profile) ==
    IF ~profile.verified THEN Refused(s, "FORBIDDEN")
    ELSE IF s.account[who] # None THEN
        IF s.account[who].email = profile.email THEN Accepted(s) ELSE Refused(s, "FORBIDDEN")
    ELSE IF Cardinality(Registered(s)) >= MaxAccounts THEN Refused(s, "CAPACITY_EXCEEDED")
    ELSE IF \E x \in Registered(s) : s.account[x].email = profile.email THEN Refused(s, "FORBIDDEN")
    ELSE Accepted([s EXCEPT !.account[who] = [status |-> "PENDING", email |-> profile.email]])

\* An administrator's decision, outside this service.
Approve(s, who, status) ==
    IF s.account[who] = None THEN Refused(s, "NOT_FOUND")
    ELSE IF status = "REJECTED" /\ s.account[who].status \notin {"PENDING", "REJECTED"}
        THEN Refused(s, "INVALID_COMMAND")
    ELSE Accepted([s EXCEPT !.account[who].status = status])

\* A display has no account and is let through to its own decision only.
RequireApproved(s, principal, AuthorizeOwn) ==
    IF principal.kind = "display" THEN AuthorizeOwn
    ELSE IF IsApproved(s, principal.subject) THEN "OK" ELSE "FORBIDDEN"

-------------------------------------------------------------- \* Groups
\* The id is made of the caller and an idempotency key: a repetition finds it.
Create(s, who, name) ==
    IF ~IsApproved(s, who) THEN Refused(s, "FORBIDDEN")
    ELSE IF s.group = None THEN
        Accepted([s EXCEPT !.group =
                [name |-> name, organizer |-> who, version |-> 1, members |-> {who},
                 deleted |-> FALSE, invited |-> [e \in Email |-> "NONE"],
                 draft |-> None, binding |-> None]])
    ELSE IF s.group.deleted \/ s.group.name # name THEN Refused(s, "STALE_CONTEXT")
    ELSE Accepted(s)

Invite(s, who, email, replace) ==
    LET seats == {x \in s.group.members : s.account[x].email = email}
        target == {x \in Registered(s) : s.account[x].email = email /\ IsApproved(s, x)}
    IN  IF Admission(s, who, TRUE) # "OK" THEN Refused(s, Admission(s, who, TRUE))
        ELSE IF seats # {} THEN Refused(s, "INVALID_COMMAND")
        ELSE IF s.group.invited[email] = "OPEN" /\ ~replace THEN Refused(s, "STALE_CONTEXT")
        ELSE Accepted([s EXCEPT !.group.invited[email] = "OPEN",
                                !.inbox = @ \cup target])

\* A live binding that was current stays current when somebody joins.
Carried(binding, version) ==
    IF binding # None /\ ~binding.deleted /\ binding.version = version
    THEN [binding EXCEPT !.version = @ + 1] ELSE binding

Joined(s, who) ==
    IF who \in s.group.members THEN s
    ELSE [s EXCEPT !.group.members = @ \cup {who}, !.group.version = @ + 1,
                   !.group.binding = Carried(@, s.group.version)]

Accept(s, who) ==
    LET email == s.account[who].email
    IN  IF ~IsApproved(s, who) THEN Refused(s, "FORBIDDEN")
        ELSE IF s.group = None THEN Refused(s, "NOT_FOUND")
        ELSE IF s.group.deleted THEN Refused(s, "NOT_FOUND")
        ELSE IF s.group.invited[email] \in {"NONE", "EXPIRED"} THEN Refused(s, "NOT_FOUND")
        ELSE IF s.group.invited[email] = "ACCEPTED" THEN
            IF who \in s.group.members THEN Accepted(s) ELSE Refused(s, "NOT_FOUND")
        ELSE IF Cardinality(s.group.members) >= MaxMembers THEN Refused(s, "CAPACITY_EXCEEDED")
        ELSE Accepted([Joined(s, who) EXCEPT !.group.invited[email] = "ACCEPTED",
                                             !.inbox = @ \ {who}])

LetExpire(s, email) ==
    IF s.group # None THEN Accepted([s EXCEPT !.group.invited[email] = "EXPIRED"])
    ELSE Accepted(s)

Rename(s, who, name, previous, version) ==
    IF Admission(s, who, TRUE) # "OK" THEN Refused(s, Admission(s, who, TRUE))
    ELSE IF s.group.version # version THEN Refused(s, "STALE_CONTEXT")
    ELSE IF s.group.name \notin {previous, name} THEN Refused(s, "STALE_CONTEXT")
    ELSE Accepted([s EXCEPT !.group.name = name])

Remove(s, who, target, version) ==
    IF Admission(s, who, TRUE) # "OK" THEN Refused(s, Admission(s, who, TRUE))
    ELSE IF s.group.version # version THEN Refused(s, "STALE_CONTEXT")
    ELSE IF target = who \/ target \notin s.group.members THEN Refused(s, "INVALID_COMMAND")
    ELSE Accepted([s EXCEPT !.group.members = @ \ {target}, !.group.version = @ + 1])

\* The draft of a decision that is removed is removed with it.
RemoveItem(s, who, kind, version) ==
    IF Admission(s, who, TRUE) # "OK" THEN Refused(s, Admission(s, who, TRUE))
    ELSE IF s.group.version # version THEN Refused(s, "STALE_CONTEXT")
    ELSE IF kind = "DRAFT" /\ s.group.draft = None THEN Refused(s, "NOT_FOUND")
    ELSE IF kind = "DECISION" /\ s.group.binding = None THEN Refused(s, "NOT_FOUND")
    ELSE IF kind = "DRAFT" /\ s.group.draft # None THEN
        IF s.group.draft.created THEN Refused(s, "STALE_CONTEXT")
        ELSE Accepted([s EXCEPT !.group.draft.deleted = TRUE])
    ELSE Accepted([s EXCEPT !.group.binding.deleted = TRUE,
                            !.group.draft = IF @ # None /\ @.created
                                            THEN [@ EXCEPT !.deleted = TRUE] ELSE @])

DeleteGroup(s, who, version) ==
    IF Admission(s, who, TRUE) # "OK" THEN Refused(s, Admission(s, who, TRUE))
    ELSE IF s.group.version # version THEN Refused(s, "STALE_CONTEXT")
    ELSE Accepted([s EXCEPT
            !.group.deleted = TRUE, !.group.version = @ + 1,
            !.group.binding = IF @ = None THEN None ELSE [@ EXCEPT !.deleted = TRUE],
            !.group.draft = IF @ = None THEN None ELSE [@ EXCEPT !.deleted = TRUE]])

----------------------------------------- \* Who may read or change a decision
DisplayAuthorization(s, knownAs) ==
    IF s.account[knownAs] # None /\ ~IsApproved(s, knownAs) THEN "FORBIDDEN"
    ELSE IF s.group = None THEN "OK"
    ELSE IF s.group.binding = None THEN "OK"
    ELSE IF s.group.deleted THEN "NOT_FOUND"
    ELSE IF s.group.binding.deleted THEN "NOT_FOUND"
    ELSE IF s.group.binding.version # s.group.version THEN "STALE_CONTEXT"
    ELSE "OK"

(* authorizeDecision(): exact membership and exact group version; what no  *)
(* group has bound is left to the decision itself.                         *)
AuthorizeDecision(s, who) ==
    IF ~IsApproved(s, who) THEN "FORBIDDEN"
    ELSE IF s.group = None THEN "OK"
    ELSE IF s.group.binding = None THEN "OK"
    ELSE IF s.group.binding.deleted THEN "NOT_FOUND"
    ELSE IF Admission(s, who, FALSE) # "OK" THEN Admission(s, who, FALSE)
    ELSE IF s.group.binding.version # s.group.version THEN "STALE_CONTEXT"
    ELSE "OK"

------------------------------------------------------- \* Drafts, decisions
\* What a saved draft answers to a repetition of the request it was made for.
Replayed(d, body) ==
    IF d.deleted THEN "NOT_FOUND" ELSE IF d.body # body THEN "STALE_CONTEXT" ELSE "REPLAY"

(* draft() after its roster was read and before the architect is asked.    *)
DraftLookup(s, who, roster, body) ==
    LET d == s.group.draft
    IN  IF Admission(s, who, TRUE) # "OK" THEN Admission(s, who, TRUE)
        ELSE IF d # None /\ Replayed(d, body) # "REPLAY" THEN Replayed(d, body)
        ELSE IF s.group.version # roster.version THEN "STALE_CONTEXT"
        ELSE IF d # None THEN "REPLAY"
        ELSE "ASK"

\* The architect's answer is kept if the group is what the roster said.
SaveDraft(s, who, roster, body, questions, enabled) ==
    LET d == s.group.draft
    IN  IF ~enabled THEN Refused(s, "STALE_CONTEXT")
        ELSE IF Admission(s, who, TRUE) # "OK" THEN Refused(s, Admission(s, who, TRUE))
        ELSE IF s.group.version # roster.version THEN Refused(s, "STALE_CONTEXT")
        ELSE IF d # None THEN Refused(s, Replayed(d, body))
        ELSE Accepted([s EXCEPT !.group.draft =
                [revision |-> 1, version |-> roster.version, body |-> body,
                 people |-> roster.members, questions |-> questions,
                 created |-> FALSE, deleted |-> FALSE]])

\* Who may read the draft, and when it is one of the group as it is.
DraftRead(s, who) ==
    IF Admission(s, who, TRUE) # "OK" THEN Admission(s, who, TRUE)
    ELSE IF s.group.draft = None THEN "NOT_FOUND"
    ELSE IF s.group.draft.deleted THEN "NOT_FOUND"
    ELSE IF s.group.draft.version # s.group.version THEN "STALE_CONTEXT"
    ELSE "OK"

\* An edit may bring up a question of the catalogue; it answers none.
EditDraft(s, who, revision, question) ==
    IF DraftRead(s, who) # "OK" THEN Refused(s, DraftRead(s, who))
    ELSE IF s.group.draft.created \/ s.group.draft.revision # revision THEN Refused(s, "STALE_CONTEXT")
    ELSE Accepted([s EXCEPT !.group.draft.revision = @ + 1,
                            !.group.draft.questions = @ \/ question])

\* The first step of create(): the binding is there before the decision.
Reserve(s, who, revision, enabled) ==
    IF DraftRead(s, who) # "OK" THEN Refused(s, DraftRead(s, who))
    ELSE IF s.group.draft.revision # revision THEN Refused(s, "STALE_CONTEXT")
    ELSE IF s.group.draft.questions THEN Refused(s, "NEEDS_CLARIFICATION")
    ELSE IF ~enabled \/ \E x \in s.group.members : ~IsApproved(s, x) \/ x \notin s.group.draft.people
        THEN Refused(s, "STALE_CONTEXT")
    ELSE IF s.group.draft.created THEN Accepted(s)
    ELSE Accepted([s EXCEPT !.group.draft.created = TRUE,
                            !.group.binding = [version |-> s.group.version, deleted |-> FALSE]])

\* The fence under which the application creates it.
CreationFence(s, who, reserved) ==
    IF Admission(s, who, TRUE) # "OK" THEN Admission(s, who, TRUE)
    ELSE IF s.group.binding = None \/ s.group.draft = None THEN "NOT_FOUND"
    ELSE IF s.group.binding.deleted \/ s.group.draft.deleted THEN "NOT_FOUND"
    ELSE IF s.group.version # reserved.version THEN "STALE_CONTEXT"
    ELSE IF s.group.members # reserved.members \/ \E x \in reserved.members : ~IsApproved(s, x)
        THEN "STALE_CONTEXT"
    ELSE "OK"

CreateDecision(s, who, reserved) ==
    IF CreationFence(s, who, reserved) # "OK" THEN Refused(s, CreationFence(s, who, reserved))
    ELSE IF s.decision # None THEN Accepted(s)
    ELSE Accepted([s EXCEPT !.decision = [members |-> reserved.members]])

\* reviewRoster(): the decision must be the group's, the group as it was read.
ReviewRoster(s, who, roster) ==
    IF Admission(s, who, TRUE) # "OK" THEN Admission(s, who, TRUE)
    ELSE IF s.group.version # roster.version THEN "STALE_CONTEXT"
    ELSE IF s.group.binding = None THEN "NOT_FOUND"
    ELSE IF s.group.binding.deleted THEN "NOT_FOUND"
    ELSE IF s.decision = None THEN "NOT_FOUND"
    ELSE "OK"

(* reviseRoster(): preview and roster were read before; the binding moves  *)
(* in the same write in which the application revises the decision.        *)
ReviseRoster(s, who, preview, roster) ==
    IF ReviewRoster(s, who, preview) # "OK" THEN Refused(s, ReviewRoster(s, who, preview))
    ELSE IF \/ roster.version # preview.version
            \/ \E x \in roster.members : x \notin s.group.members \/ ~IsApproved(s, x)
        THEN Refused(s, "STALE_CONTEXT")
    ELSE Accepted([s EXCEPT !.group.binding.version = s.group.version,
                            !.decision = [members |-> roster.members]])
=============================================================================
