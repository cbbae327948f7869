# TLA+ verification of Known Enough

Known Enough lets a group take a decision without showing anybody's private
conditions: every person confirms the shared frame, saves private answers
(directly or through an AI draft they review), a model proposes a candidate,
the kernel checks it, people who would have to give way are asked in private,
and the outcome is agreed when everyone approves exactly the same proposal.
The repository is TypeScript on DynamoDB and Lambda. This directory models its
stateful core in TLA+, checks it with TLC and proves its most important
properties with TLAPS.

## 1. Inventory of the system

| Component | State it keeps | Operations | What must hold |
|---|---|---|---|
| Decision lifecycle (`packages/application/src/known-enough.ts`) | one decision record: status, definition and roster, confirmations, an owner record per person (readiness, constraints, draft, questions, permissions, refusals, approval), candidate and pending candidate, reasoning job, agreement history | owner commands (`execute`/`applyCommand`), AI runtime (`storeConstraintDraft`, `startReasoning`, `completeReasoning`, `askNegotiation`, ...), creator (`reviseDecision`, `closeDecision`), group (`includeDecisionGroupMembers`), `sweep` | a proposal honours every owner's conditions; an agreement is unanimous, about the current proposal, context and roster; a refusal is respected; questions, reasoning and proposals exclude each other |
| Validation kernel (`packages/domain/src/known-enough-kernel.ts`), contracts (`packages/contracts/src/known-enough.ts`) | none | `evaluateKnownEnoughCandidate`, `ownerRulesValid`, `publicAnswersOnlyFrame`, the schemas' refinements | VALID only if all HARD rules hold and each broken NEGOTIABLE rule is covered by a listed, current permission; what one part accepts the others can evaluate and show |
| Decision negotiator (`packages/application/src/decision-negotiator.ts`) | one request's local variables between awaits | `generate`: reason, evaluate, retry, ask, abandon | a request that gives up leaves nothing behind and never touches another one's work |
| Owner conversation (`packages/application/src`) | none between calls | read a snapshot, call the model, write under the version read | stale answers of the model are dropped |
| Repository (`packages/adapters/src/dynamodb.ts`, `dynamodb-codec.ts`) | decision, guard, audit and receipt items | optimistic transaction with six attempts, replay receipts, schema and history checks | a command takes effect at most once, and a record the codec refuses is never needed |
| Durable model jobs (`packages/adapters/src/durable-model-jobs.ts`, `dynamo-model-jobs.ts`, `apps/api/src/durable-*.ts`) | job records, control record (enabled, active, slots), totals | `enqueue`, `process`, `reconcile`, scheduled deliveries | one paid call per job, one effect, only under current authority; calls never exceed the slots; every job ends |
| Partitioned groups and decisions (`packages/adapters/src/partition-group-session.ts`, `partition-decision-repository.ts`, `partitioned-group-repository.ts`, ...) | rows of accounts, groups, drafts, bindings and directory; decision rows in another table | registration, approval, roster changes, drafts, decision requests under a fence | rows of one group change together, and a decision changes only for members of the group it belongs to |
| Partition runtimes (`apps/api/src/partition-owner-runtime.ts`, `partition-draft-runtime.ts`, `partition-chat-runtime.ts`, ...) | nothing of their own; a job record per request, named by the request's key | post (runs the paid call inside the handler), status read, close | what a tab is told of a request whose answer got lost is true; a closed request stays closed |
| Account lifecycle (`partition-lifecycle.ts`, `dynamo-partition-lifecycle.ts`) | sealed plan, consents, a journal per erasure | prepare, consent, step by step commit, recovery of an unknown outcome | an erased person has left every row, nothing goes without consent, and nobody writes meanwhile |
| Partition migration (`partition-migration*.ts`, `dynamo-partition-migration.ts`) | marker in the legacy item, control row, journal, target rows | plan, prepare, freeze, step, activate | no write is lost, none comes back, and the copy is never served half |
| Group archive (`partition-archive.ts`, `dynamo-partition-archive.ts`) | manifest, journal and tombstone of one group | prepare, archive | an archive stands for the group as it was and nobody serves the group afterwards |
| Legacy rooms and solver (`packages/application/src/index.ts`, `packages/domain/src`) | one record per room: preferences, sketch, concession round, grants, approvals, publication | room commands, the solver's run in two transactions, sweep | a stored room can be read back, an answer computed from an earlier room is not used, a refusal ends the round |
| HTTP service (`apps/api/src`), legacy groups (`group-service.ts`, `group-decisions.ts`) | none; the legacy groups keep one shared record | a table of routes, each a sequence of authority checks, parsing, writes and rereads | who is asked for before what; what a refusal hides; rosters and drafts of the shared record |
| Model adapters and assistants (`bedrock-models.ts`, `model-jobs.ts`, `decision-architect.ts`, `assistant-chat.ts`, ...) | slots and queue of one process, the chat of a decision | run, stop, draft, reply | no caller is forgotten; what a model answers becomes a frame or a reply only if the contracts accept it |
| Web client (`apps/web/src`) | the page's versions, the pending command with its idempotency key, the key of each AI helper's pending request | submit, retry, refresh; post, check, close | a retried command is the same command, and what the client shows as its result is so |
| Operations scripts, live QA, infrastructure | their own | | not part of the decision flow |

How they interact: people and the AI runtime call methods of the application;
each method is one repository transaction over the whole decision record, so
methods are atomic, and all difficulty is in their order: everything a caller
read earlier may be stale when its transaction runs. The AI runtime is either
the request itself or the durable worker, which adds a second store (job and
control records) whose last commit and the decision's change are one DynamoDB
transaction. In the partitioned service a decision request first reads a fence
(the group's header and every member's account) and later commits the decision
under the revisions of all of those rows, so that roster changes and erasures
exclude it.

The hard behaviours are listed in `PROJECT.json` under `hazards`, each at its
line, with the property that would notice it going wrong.

## 2. Modules

| Module | Models | Correspondence |
|---|---|---|
| `DecisionLifecycle` | `known-enough.ts`, the kernel's verdict, the guard of `owner-conversation.ts` | one action per method or command case; every action includes the retirement, sweep and version changes the method makes |
| `DecisionAgreement` | nothing of the code: the abstract promise (offers, votes, outcomes) | |
| `MCDecisionLifecycle` | small instances | |
| `DurableModelJobs` | `durable-model-jobs.ts`, `dynamo-model-jobs.ts`, the cancellation and result of `durable-model-worker.ts` | `process()` is cut at every `await`: one action per read, per commit and per provider call |
| `MCDurableModelJobs` | small instances | |
| `DurableModelJobsProofs` | theorems and proofs about `DurableModelJobs` and `RequestJobs` | |
| `RequestJobs` | `partition-draft-runtime.ts`, `partition-owner-runtime.ts`, `partition-chat-runtime.ts` and the tabs that wait for them, on the queue of `DurableModelJobs` | one action per step of the tab, of a post, of a status read and of a close; the job's own steps are those of `DurableModelJobs` |
| `MCRequestJobs` | a small instance | |
| `PermissionLedger` | the permission history in `known-enough.ts`, the receipt counters and history checks of `transactionDecision`, the limits of `dynamodb-codec.ts` | one action per command or runtime entry that touches a record; `After...` is what the application makes of the decision, `Admits` whether the repository stores it |
| `MCPermissionLedger` | a small instance | |
| `PermissionLedgerProofs` | theorems and proofs about `PermissionLedger` | |
| `DecisionTransaction` | `transactionDecision`, `loadDecision`, `execute`, `expected` and `command` of `connected-decision.tsx` | the client's handler is cut where it waits for the answer, the service's between its read and its write |
| `CommandRegister` | nothing of the code: what an idempotency key promises | `receipt` is a command's fate, `told` what its sender learned |
| `MCDecisionTransaction` | a small instance | |
| `DecisionTransactionProofs` | theorems and proofs about `DecisionTransaction` | |
| `DecisionSafetyProofs` | theorems and proofs about `DecisionLifecycle`, the agreement it implements and its views | |
| `ValidationKernel` | `known-enough-kernel.ts`, the refinements of the contracts, what a model may pick of a catalog, the views | pure operators, one per function; no state |
| `DecisionViews` | the refinements of `decisionRecordSchema`, `PublicDecisionSnapshot` and `OwnerDecisionSnapshot` | predicates on the states of `DecisionLifecycle` |
| `KernelChecks` | nothing of the code: enumerated inputs and the statements checked on them | |
| `DecisionVerdict` | how `completeReasoning` and the last approval call the kernel | the frame, rules and permissions of a state of `DecisionLifecycle` written out for `ValidationKernel` |
| `DecisionNegotiator` | `decision-negotiator.ts` on top of `DecisionLifecycle` | a request is cut at every `await`; its local variables are `request` |
| `MCDecisionNegotiator` | a small instance, with `DecisionVerdict` | |
| `DecisionNegotiatorProofs` | theorems and proofs about `DecisionNegotiator` | |
| `PartitionStore` | the rows and the conditional transaction | one variable per kind of row |
| `GroupSessions` | `partition-group-session.ts`, `partition-decision-repository.ts`, `partition-account-operator.ts`, `partition-membership.ts` | one action per session method at its commit; a decision request is two; who may look is a set of operators |
| `AccountErasure` | `partition-lifecycle.ts`, `dynamo-partition-lifecycle.ts` | one action per step of the plan |
| `GroupArchive` | `partition-archive.ts`, `dynamo-partition-archive.ts` | prepare and archive at their reads and at their commits |
| `PartitionedSystem`, `MCPartitionedSystem` | the three on one store | |
| `PartitionedSystemProofs` | theorems and proofs about `PartitionedSystem` | |
| `PartitionMigration`, `MCPartitionMigration` | `partition-migration-runner.ts`, its DynamoDB ports, the legacy writer and the partition writer | one action per look, per row read back, per submission and per late outcome |
| `GroupStore` | nothing of the code: one store whose rows are written one at a time | |
| `PartitionMigrationProofs` | theorems and proofs about `PartitionMigration` | |
| `PlanSolver` | `packages/domain/src` (`solve.ts`, `enumerate.ts`, `validation.ts`) | pure operators: feasible plans, their ranking, the concession search, the shape of what goes in and out |
| `HttpService` | `http-core.ts`, `partition-http.ts`, `cognito-identity.ts`, `ke13b-lambda.ts` | a table of routes: for each the steps of its handler in order; who a token names; seats and invitations; what a failure answers. No state |
| `LegacyGroups` | `group-service.ts`, `group-decisions.ts`, `group-repository.ts` | one operator per transaction on the shared record |
| `ServiceChecks` | nothing of the code: statements about the two, evaluated on small instances | |
| `ModelRuntime` | `model-jobs.ts`, `model-runtime.ts`, the attempts of `decision-architect.ts`, `bedrock-models.ts` | small transition systems whose reachable states are computed |
| `DraftArchitect` | `choice-plan.ts`, `public-choice-options.ts`, `generic-candidates.ts`, `architect-tool.ts`, `decision-architect.ts`, `scenario-service.ts` | pure operators |
| `OwnerAssistants` | `owner-conversation.ts`, `assistant-chat.ts` | pure operators on a conversation |
| `AssistantChecks` | nothing of the code: statements about the three, evaluated on small instances | |
| `RoomLifecycle`, `MCRoomLifecycle` | `packages/application/src/index.ts` | one action per room command; a solver run is two transactions |
| `RoomStore` | `packages/adapters/src/dynamodb.ts`, `dynamodb-codec.ts` for rooms | operators: the items of a room, what a load makes of them, and one attempt of a write |
| `RoomLifecycleProofs` | theorems and proofs about `RoomLifecycle` | |

Definitions marked *Faulty variant* belong to no specification. Each is what a
plausible mistake would make of the definition that follows it; replacing the
definition by it violates the property `PROJECT.json` names under `mutants`.

### DecisionLifecycle

Data are reduced to what the rules compare. The frame has one public choice
with a small set of options. An owner's active constraints are the options the
HARD rules leave (`hard`) and those a NEGOTIABLE rule accepts without asking
(`neg`); PREFERENCE rules decide nothing. An adjustment that is asked for is
one option. At most one NEGOTIABLE rule per owner is modelled.

* `context` stands for `semanticVersion`, `frameVersion` and `contextToken`,
  which always rotate together.
* `controlVersion` is not a counter here. Every owner command names the version
  it saw and is refused when it moved, so a command acts on the state its
  sender saw; the sweep that opens a command makes it stale by itself
  (`Swept`). The exception is `CONFIRM_PRIVATE_ANSWERS`, which may cross
  versions while `collectingIndependentAnswers` holds, and does so here.
* `fence` says that the version the AI runtime holds is current: steps of
  others reset it, `getReasoningContext` takes it, and its own commits hand on
  the new one.
* `solveEpoch` is not needed: every path that clears the job increases it too.
* `lapsed` is time: a question or permission whose `expiresAt` has passed and
  that no sweep has met yet.
* Confirmations are those of the current frame; refusals are those that match
  the owner's current constraint version (others are never consulted again).

Left out: disclosure requests and publication, invitations, the length limits
of the histories, replay receipts (repository), the creator's non-material
revision, and erasure (account lifecycle).

### DurableModelJobs

Every commit replaces the job and the control record together under their
revisions, and every commit moves the control revision. A worker's snapshot is
therefore `fresh` exactly until somebody commits. A fenced commit also names
the rows that give the job its authority; `pinned` says they are unchanged
since the worker's last reload. `worker` holds the local variables of one
invocation of `process()`; a crash forgets them. For each commit the model has
four ends: acknowledged, conflicting, acknowledged to nobody
(`LoseAcknowledgement`) and never received (`LoseRequest`); only the commit of
a known response is retried, as in the code.

Reasons of a DEAD job are reduced to those that leave no call in doubt and
`PROVIDER_UNCONFIRMED`; failure codes to retryable, final and uncertain.
Budgets, totals, the release's source revision and the 64 requests of the
enqueue window are left out.

### RequestJobs

A person's draft (ARCHITECT), private note (OWNER) or chat message (CHAT) is
paid for inside the handler of its post. `client` is what the tab knows of its
request: NONE, ASKING, KEEPS (the answer got lost, the key is kept), SAVED,
CLOSED, FREED. `offer` is the record the job stands for while the draft or the
note can still be used. The handler of a post enqueues, takes and runs the job
with the actions of `DurableModelJobs`; a status read and a close are one step
each, because each is one read and at most one conditional write. There is no
schedule that delivers these jobs again and nothing reconciles them, so a
handler that dies leaves its job where it was.

A draft that expired before its call is shown as FAILED and may be asked for
again; here it is closed by the tab. There is no port that cancels a request
from outside, and none in the module. Key generation, hashes and the texts are
left out.

### PermissionLedger

`DecisionLifecycle` says who may do what; this module says whether the
repository stores it. The state item is reduced to counts: an owner's
`pending` and `settled` questions, `refused` requests, negotiation permissions
`active` or `ended`, disclosures `asked`, `granted` or `closed`, and the
`retired` records of each kind. `guard` is the guard item's four receipt
counters. A command is `Execute(p, type, next)`: `next` is what
`applyCommand` makes of the decision, and the action is enabled only if
`Admits` accepts it, for a command the repository refuses leaves everything as
it was; `Reject` is a command the application refuses, whose receipt is stored.
Steps without a key (`Step`: sweep, joins, the AI runtime, the creator) must
not change the history at all.

`CountAll` counts the records of everybody as the size of a set, one element per
record, rather than as a sum: this is the same number, and can be reasoned
about with the theorems on finite sets. A candidate keeps only the owners its
permissions belong to (`rests`). `ProtectedWrite` tells which writes may use the
bytes that are kept free. `TakingBackIsProtected`, evaluated before the run, says
that every sweep, answer, withdrawal and step of the creator is among them, and
what is not: once a state has grown into the reserve an allowed disclosure cannot
be published any more. Left out: the size of an item itself, what a question asks or a disclosure says,
drafts and clarification, which touch no count.

### DecisionTransaction

`DecisionLifecycle` takes a command as one atomic step; this module justifies
that. A client keeps the body of a command until it knows the result
(`pending`); it sends it again with "Retry the same action", or forgets it with
"Refresh decision", although the first request may still be running.
`LoseConnection` breaks the connection at any moment, `Fail` stands for a 503,
a killed invocation and a failed read or write alike, since the client treats
them alike. `Commit` writes, and the invocation then answers, starts again
because the store reported a conflict although it had written, or fails.

Of the decision it keeps what `expected()` compares and which commands it
contains. A command is STRICT or an answer save (`CONFIRM_PRIVATE_ANSWERS`,
which may cross what peers did). What a command asks is left out: it is
applied or refused by choice. A refusal is stored like a success, and undoes
the sweep that came before it. `version` is the guard's; that the state item
is replaced whole is modelled by writing back the snapshot.

Left out: refusals that are not stored (capacity, authentication, a corrupt
record), a key used for two bodies (`IDEMPOTENCY_CONFLICT`; the client keeps
key and body together), the privateAnswerContext and contextToken
(`DecisionLifecycle`), and the background negotiation request, whose result
arrives by the durable queue.

### DecisionNegotiator

`generate()` reads the decision, starts the job, reads the reasoning context,
waits for the model, stores its candidate, asks the owners, and may try a second
candidate; wherever it awaits, everything else may happen. `request` holds what
one call remembers: the version it saw, the job, the excluded candidate and
where it stands. A call may fail at any await (the model, the store, a
disconnect) and then runs the code's own cleanup, or it is killed and runs none.
Parsing of the model's output, the catalog's guidance and the public explanation
write nothing and are in `ValidationKernel`.

### ValidationKernel, KernelChecks, DecisionVerdict

The kernel is translated as it is written: per rule kind the three-valued
answer, over a frame with public answers and a candidate, then the diagnostics
and the verdict. `ContractAcceptsRule`, `OwnerRuleIsValid`, `ListsAreClosed` and
`FrameIsValid` are the checks of the schemas and of `ownerRulesValid`;
`PublicFrame` is what everybody may see. Values are members of small sets; text
formats, sizes in bytes and the budget of one million comparisons, which an
input of 360 KB cannot use up, are left out.

`KernelChecks` enumerates frames, rules, candidates and permissions and has TLC
evaluate, as assumptions, that

* `EvaluationIsSound`: the evaluator agrees with a reference definition of every
  rule, and VALID means every HARD rule true;
* `SavedRulesAreAccepted`: a rule an owner may save is one the contract accepts;
* `AcceptedFramesCanBeShown`: the public form of an accepted frame is accepted;
* `ValidMeansAgreed`: no candidate is VALID against a rule nobody gave way on;
* `OrderDecidesNothing`: the order of rules and owners never changes a verdict.
  Of single rules this is not so: ALL_DIFFERENT and MUTUALLY_EXCLUSIVE stop at
  the first missing value, and answer UNKNOWN or FALSE depending on what they
  read before it; the verdict does not tell these apart;
* `QuestionsHelp`: what is asked of an owner would, if granted, make the
  candidate valid;
* `DiagnosticsOverflow`: more diagnostics than the sixty-four a verdict may
  carry ask for clarification, however harmless each is;
* `ResultsCanBeStored`: what is stored with a VALID candidate can be read again,
  and the candidate answers every question the frame asks;
* `RefusalsAreRecognised`: a refused question is known again however it is
  spelled, and one that is let through as another asks for something else;
* `OrderIsNotApproved`: two lists of facts are approved as one exactly when they
  say the same;
* `ModelsOnlyPick`: whatever a model answers, what is judged is one offer of the
  catalog with all its values and permissions in force;
* `GuidanceSuffices`: an offer that any questions would carry is carried by those
  the guidance names;
* `ViewsShowTheirShare`: every view can be opened, shows nobody another's values
  they were not to see, and owner-only values leave no trace in public;
* `SomeConsentIsIdle`: a disclosure of a variable the candidate gives no value can
  be asked for and allowed, and never published.

`PUBLIC_FACTS_MISMATCH` is one code in the source and two in the module, by what
follows from it. `DecisionVerdict` writes states of `DecisionLifecycle` out as
kernel input, with one more option that no candidate takes (`Elsewhere`), because a
rule of the contract accepts at least one; `VerdictIsKernels` says that the verdict the lifecycle computes by
sets of options is the kernel's. It holds on one option in the run, and held on
two (446,133 states) when tried by hand.

### PartitionStore, GroupSessions, AccountErasure, GroupArchive, PartitionedSystem

A revision is only compared with one read earlier and never comes back, so no
numbers are kept: a request knows whether the rows of its fence still stand
(`current`), a plan which of the rows it read do (`fresh`). A group's version is
kept as whether a draft or a binding carries the current one. Session methods
read, decide and commit under all the revisions they read, again when somebody
was faster, so one is an action. Decision requests are two actions, because the
decision is in another table and the fence is read first. The first commit of
an erasure freezes its root row, each step compares what it overwrites, and the
journal moves with the step, so a step with a lost answer is read back as one
that happened.

An archive reads all rows of a group, keeps them in a manifest, and later
replaces the header by a tombstone. What it compares at the end is the header,
the authority and the journal and not the children; `archive` keeps what was
seen and what still stands. `readable` says of a decision that it can be served.
`ArchiveIsTrue` says that the rows behind a tombstone are the manifest's.

What decides and changes nothing is a set of operators, and `MCPartitionedSystem`
states about them, over everything a request may find:

* `WritesAreRecognised`, `OnlyWholeBundlesCommit`: a decision's transaction carries
  rows of its group (`PartitionStore`: `Item`, `CheckedWrite`, `JoinedWrite`). No
  write a session composes is refused for its shape, up to a group of sixteen, and a
  bundle that lacks any one item, watches another account or compares a row
  otherwise is;
* `DisplaysFollowTheGroup`, `LooksAgree`, `LooksStayPrivate`: display, participant
  and group reads agree on who may see a decision; an older binding still shows a
  finished decision to members; a display is shown the public part of its own
  decision only;
* `ReadsAreComplete`: a batch read that comes in several answers returns all rows
  and no others, or fails;
* `EveryGroupIsListedOnce`: page after page a person gets each open group of theirs
  once, and a cursor serves nobody else, no other page size, and not after a quarter
  of an hour;
* `BudgetsAreKept`: a request makes at most the calls of its budget. The call that
  exceeds it, and those it meets under way, are told REQUEST_LIMIT; all later ones
  TIMEOUT.

### DecisionViews

The repository parses every record it writes and every view it answers with.
`DecisionRecord`, the public view and the owner's view are translated as
predicates on a state of `DecisionLifecycle`; `OnlyADraftHidesAView` says that
nothing but a draft under review ever makes one of them fail, so that a person
can always open the decision otherwise.

### HttpService, LegacyGroups, ServiceChecks

The handlers are tables of steps, which is what decides what a caller is told:
the order of authority, body, shape, provider, write and reread. `ServiceChecks`
states, among others, who gets in with which token, that nobody is told 401 or
403 for a step that says neither, which routes can refuse after their write,
that the legacy groups' records stay consistent over every sequence of their
transactions, and which reservations are left behind. Errors keep their kind on the
way up and both stores of decisions retry on the same answers of the table
(`ErrorsKeepTheirKind`, `RetriesAgree`); a production handler knows nothing but
verified tokens (`ProductionKnowsTokensOnly`); a deployment serves no route it has no
part for (`PartsGoTogether`); and over every sequence of invitations, replacements
and redemptions a seat is taken by its own person, with the last token and in time
(`SeatsAreTakenByTheirOwn`, `SeatsCanBeTaken`).

### ModelRuntime, DraftArchitect, OwnerAssistants, AssistantChecks

What happens around a model's answer inside one process. `ModelRuntime` explores
the steps of the in-process queue from its start to its stop; `DraftArchitect`
follows an idea to a plan of choices, to a frame and back; `OwnerAssistants` has
what a conversation accepts and what a chat keeps. `AssistantChecks` states that
slots, queue and callers agree, that callers get one answer, that a plan survives
its way into a frame, and what a chat may hold.

### PartitionMigration, GroupStore

The source is a single item with one version; `control`, `journal` and `rows`
are the target. A call of an operator looks, checks the rows it must find one
after another, and submits; the transaction then holds or not at any later time
(`Apply`, `Refuse`), whether or not the operator still waits. The legacy
service writes on the item's version alone and knows nothing of a migration.
`GroupStore` is what people should see: `Current` maps the whole to it.

### PlanSolver, RoomLifecycle, RoomStore

A room is one record. A command is one action, sweep included. A solver run
reads the room in one transaction, computes with no lock held, and in a second one
its answer is taken only if the room still awaits it (`StillAwaited`: the same job,
epoch and context). `Seen` is the room as somebody who looks at it is shown it. The
solver's enumeration and ranking are operators over the members' availability,
conditions and costs, BALANCE_RECENT_LOAD being the policy of the run. Its scan over
sorted intervals (`intervalsCover`) is a recursive function over sets of them
(`Reach`), which takes out the latest (`Latest`) first. Stable identifiers that break
ties, texts and hashes are left out.

`RoomStore` is how a room is kept: two items and one per receipt, with a schema
version that tells rooms from decisions, receipts in three counters, and bytes kept
free for what may still be answered. It is no state machine of its own, since one
attempt of a write is all there is to it, and `DecisionTransaction` has the attempts.
`MCRoomLifecycle` states of it, over rooms, guards and steps of the run's size:

* what was stored is read back, with the receipts of its own product and
  incarnation, and a half of it or the other product is no room (`RoomsReadBack`,
  `ReceiptsReadBack`); a decision and a room of one name exclude each other, and a
  decision is made only under a fence that holds (`DecisionsAreCreatedOnce`);
* a write fails, and changes nothing, if anybody wrote since the load
  (`OneWritePerLoad`);
* a guard that was written can be read, and the total of receipts is used up only
  when each kind is (`GuardsCanBeRead`); with the ordinary ones gone, permissions can
  still be given, refused and taken back, and nothing else (`ReservesAreForPermissions`);
* what an answer adds is never more than what it takes off the reservation
  (`AnswersFitTheirReservation`);
* the sweep that takes an expired proposal nobody approved is the only one that may
  not use the bytes kept free (`SweepsThatKeepEverything`). A look at a room that
  has grown into them, between 352 and 360 KB, is then refused for capacity;
* the solver accepts what a room hands it, and what it answers can be proposed
  (`RoomsAreAccepted`, `PlansCanBeProposed`).

## 3. Runs

| Run | Instance | Shows |
|---|---|---|
| `negotiation` | 2 people, 2 options; a second proposal or a second context | consent, approval, reasoning, expiry, joins, saves and withdrawals around a proposal and its successor; what is given in one context never counts in the next; the refinement; no step leaves a record that cannot be stored or shown |
| `negotiator` | 2 people, 1 option, 2 requests, 1 context, 1 proposal | evaluates the statements of `ServiceChecks`; two requests for an outcome at once: who gives up cleans up its own job and candidate and nobody else's; the verdict is the kernel's |
| `owner_view` | 2 people, 1 context, 1 proposal | **violation**: see findings |
| `jobs` | 2 jobs, 2 workers, 1 slot, 2 faults, clock to 2 | evaluates the statements of `AssistantChecks`; overlapping deliveries, lost messages, crashes; at most one paid call, records agree, a running call holds a slot, an effect needs authority |
| `jobs_end` | 1 scheduled negotiation and 1 request of any of the three kinds, 1 scheduled worker, 1 handler, 1 slot, 1 fault, clock to 1, fairness | what a tab is told is true, a closed request stays closed, the negotiation ends |
| `ledger` | 2 people, 3 history records, 4 ordinary and 5 safety receipts, 2 of everything an owner may hold | whoever is asked can answer and whoever consented can take it back, also after the receipts are used up; steps without a receipt are always stored; only refusals block saving; evaluates the statements of `KernelChecks` and `TakingBackIsProtected` |
| `ledger_edit` | the same | **violation**: see findings |
| `transaction` | 2 clients, 2 keys, 2 requests at a time, 2 attempts, 1 write of the runtime | a command applies at most once, answers are true, rivals exclude each other, nothing is lost; the refinement of `CommandRegister` |
| `partition` | 2 people, 1 group, 1 draft and its decision, 1 erasure, 1 archive, 1 decision request in flight | rosters, bindings and fences; the steps of an erasure of any scope and of an archive among everything people do (576,351 states); evaluates the statements about reads and transactions as sent |
| `partition_recovery` | the same | **violation**: see findings |
| `migration` | 2 rows in 2 batches, 2 operators, 1 legacy writer, 2 servers, 2 writes, 2 transactions under way | the journal accounts for the copy; the move implements one store |
| `rooms` | 3 members, one invited; 5 contexts, 1 draft, 2 solver runs at once, 2 schedules | answers, the concession round, revocations, expiry, revisions and approvals around a solver's stale answer; evaluates the statements about `RoomStore` |

Why the bounds are enough. Decision: two people are needed for a vote that is
not unanimous, a second owner's save, and a person joining; two options for a
condition that fails and one that does not; a second proposal or a second
context for anything that could leak from the first. `OneOfBoth` keeps the run
to states with at most one of the two, because all of them together exceed the
time of a run; the theorems below depend on neither. Negotiator: two requests
are what it takes to step on each other; the run starts from saved conditions,
and no draft is under review (with one, by hand, 1.07 million states without an
error). Jobs: the clock reaches the end of a lease and of a reference; two
faults allow a lost acknowledgement followed by a crash; one slot for two jobs
is the pool at its limit. `jobs_end` needs fairness and adds the tabs, so it has
no retries and one commit; those are what `jobs` covers. `MaxRetries`, `MaxCommits`, `LeaseTime`, `Life` and
`Backoff` are the code's constants scaled down to keep their order. Ledger: a
history of three records fills with one owner's consent while another is asked;
four ordinary receipts run out before that, so that both reserves are drawn on;
the limits keep the relation the code's have (320 >= 192 + 20). Transaction: two
commands are what it takes to be rivals, of one client or of two; two
invocations serve a command and its retry at once; a second attempt follows a
first one that conflicted or had written unnoticed. Partition: an erasure of any
of the four scopes meets one other person, one roster, one decision. `NoDeadPlan` and
`NoDeadArchive` do not follow plans that can take no step any more because what
their first step compares has changed; such a plan holds nobody up. `TwoAtOnce`
leaves out states in which an erasure, an archive and a request are all under way;
any two of them meet. One erasure is not enough for `ErasedLeavesNoTrace`, whose
second half is about another one (see "Seen, and no run"); the theorems are about
any number of them.
Migration: two batches make a copy that is half done; two operators with two
transactions under way let a late one arrive after its successor. Rooms: the
invited third member lets a roster change fall into a solver run; five contexts
allow a revision in every phase of a round and one after it; the limits on
grants, history, publications and receipts are small enough to be reached.

Deadlock is not checked because decisions, groups and rooms may be left alone for ever, and
because the clock, the counters, the keys and the receipts are bounded.

Fairness (`ScheduleFairness` of `RequestJobs`): the schedule of
`durable-scheduled-worker.ts` delivers all active negotiations again every
minute, so a scheduled job that can be taken is eventually taken; a scheduled
invocation that has begun goes on unless it crashes; time passes. Nothing is
assumed of people, posts, operators or the provider, and no fairness in any
other run.

## 4. Findings

* `ledger_edit`: saving answers copies everybody's refusals to the retired
  history and, unlike a revision, does not clear them
  (`known-enough.ts:1486-1490`, 1312). The history grows by a command that may
  not let it grow, and the repository refuses the save. After one declined
  question nobody can edit answers in that context, although the page says so.
  `OnlyRefusalsBlockSaving`, which holds, says that this is all that blocks a
  save while receipts last.
* `owner_view`: a draft with conditions it cannot express, stored for an owner
  whose answers are saved, leaves READY beside it (`known-enough.ts:573-577`), and
  the owner's view refuses such a draft (`contracts/src/known-enough.ts:902-908`).
  From then on the owner cannot open the decision, nor use a route that reads the
  view first. `OnlyADraftHidesAView`, which holds, says that nothing else does this.
* `partition_recovery`: erasing one person's part of a decision resets the status
  to COLLECTING_PRIVATE_INPUT and clears the confirmations
  (`partition-lifecycle.ts:203`), which the public view does not allow together.
  Every route reads a view first, so the roster revision that should bring the
  decision back is out of reach.

Seen, and no run:

* `closeDecision` archives the current candidate without cutting the archive to
  64 as every other retirement does, and the codec refuses a 65th; and
  `storeConstraintDraft` changes the status of a closed decision. No route
  closes a decision, so both are latent.
* The contract allows participants whose approval is not required. If such a
  person confirms the frame while a proposal is live, `CONFIRM_FRAME` recomputes
  the status and keeps the proposal, which the codec refuses. Everybody is
  required in every decision the repository creates.
* A draft stored while the decision is REASONING makes `startReasoning`
  forbidden until the owner reviews and saves it (`known-enough.ts:582`).
* A plan to erase an account that went stale before its first step cannot be
  replaced, because the new one has the same name.
* A request's job that is left LEASED or CALLING by a killed handler keeps its
  slot for good; two such requests leave none of the two slots.
* After a lost answer whose job SUCCEEDED, saving answers replaces the draft, the
  status is then 409 STALE_CONTEXT for ever and the request cannot be closed: the
  tab stays blocked until the context changes (`connected-decision.tsx:183-192`;
  the same after a change of the group, `partition-group-session.ts:585`).
* A status read during the first post of a chat message answers NOT_SUBMITTED
  although the post may still enqueue and pay; and a CHAT job left READY or LEASED
  stays PENDING for ever and holds the tab's conversation.
* After a declined question the next request may find the same candidate, is not
  allowed to ask for it again, and leaves the decision PRIVATE_NEGOTIATION without
  a question (`decision-negotiator.ts:357`).
* When somebody joined and left before any request of the decision included them,
  the roster revision changes nothing and is refused
  (`partition-decision-repository.ts:226`).
* An erased person's data stays in the manifest of an archive made before.
* While the erasure of a decision has removed its state but not yet its receipts,
  the plan of an account passes that decision by (`partition-lifecycle.ts:142`), so
  the account may be ERASED before a receipt of that person is; it goes with the
  other plan's next step. `ErasedLeavesNoTrace` allows for it.
* The legacy decision handler answers 503 and not 422 to a malformed or oversized
  body (`http-core.ts:446`; `MalformedBodies` of `ServiceChecks`).
* Some routes may refuse after their write: the room command, the legacy and the
  partition creation of a decision, both roster revisions, the request for a
  negotiation (`RefusalsThatHide`).
* A legacy group decision whose reservation is overtaken by a change of the group
  leaves a binding for good (`group-decisions.ts:97-131`; `OrphansStay`).
* Confirmed and proposed constraints above 64 refuse every later save of that
  owner until the decision is revised (`known-enough.ts:1453`).
* A provider call that never settles keeps its slot, also of the in-process queue,
  which counts a running job twice against its capacity (`model-jobs.ts:56`;
  `SlotsAreHeldByTheGone`).
* Text options with invalid identifiers are never remapped, and a blank topic of a
  plan can be given another topic's label (`decision-architect.ts:112,125,172`;
  `TextKeepsTheOldName`); choices that are each bounded may together be too many
  without a question being asked (`BoundedChoicesMayBeTooMany`).
* The 256 messages of a chat are shared by everybody and every scope, so one
  person's private messages can fill it for all (`RoomIsShared`).
* A migration claim whose source is written between prepare and freeze stays:
  no call releases it.
* A room between 352 and 360 KB with an expired proposal nobody approved cannot be
  looked at until a command that may use the reserve is stored
  (`SweepsThatKeepEverything`); in the same range an allowed disclosure of a decision
  cannot be published (`TakingBackIsProtected`).
* A disclosure of a variable the candidate leaves without a value can be allowed and
  never published (`SomeConsentIsIdle`).

## 5. Proofs

`TypeCorrect` needs only the assumptions on the constants. The safety theorems
assume `Optional = {}` (an optional participant breaks them, see findings):
everybody seated is required, as in every decision the repository creates.

`SafetyInv` (`DecisionSafetyProofs`) is the strengthening that makes the
safety properties inductive. None of them is by itself: that an agreement is
unanimous needs that approvals are current, which needs that every step that
rotates the context or the roster clears them; that a proposal rests on
complete input needs that questions, the job and the candidate exclude each
other and that the statuses from which reasoning can start imply complete
input. The named parts are then stated one by one: `AgreementSafety`,
`ApprovalsStayCurrent`, `InputStaysComplete`, `QuestionsHold`, `ReasoningSafety`
and `ProposalsMatchStatus`. `ConsentSafety` adds the invariant about permissions, refusals and the
kernel's verdict at the time a proposal was published. `Implementation` maps
every step to a step of `DecisionAgreement` or a stutter. `ViewsCanBeShown` is about
what the contracts refuse to show: `ViewInv` adds that the frame stays confirmed by
whoever a later round counts on and that a candidate, a proposal and what each owner
said about them are of one context, which is what the refinements of the views
compare.

`DecisionNegotiatorProofs` proves every property of the `negotiator` run that is
`DecisionNegotiator`'s own, for any requests, and that the decision stays as safe with
requests at work (`DecisionStaysSafe`). `RequestsTakeDecisionSteps` is why: whatever
fails in a request, it changes the decision by the decision's own transactions, so
the invariants above carry over. A request decides on what it read before an
`await`; `RequestInv` says what it may rely upon. The job it holds is nobody else's,
a candidate has an author, and what it judged when it chose still holds when it
commits, as long as no version has passed, because every other writer moves the
version except the clock. The clock is the subtle case: it may take a permission that
the candidate lists, and then the candidate cannot be committed (`OnlyTimePasses`).
That a negotiation is held needs that a decision that negotiates with no open question
is one some request has just committed and not yet left (`Quiet`). Only
`DecisionStaysSafe` needs that everybody seated is required.

`DecisionTransactionProofs` proves, for any number of clients, keys, requests
and attempts and with no assumption but that names differ, that commands apply
at most once, that clients are told the truth, that rivals exclude each other,
that no write loses another's, and that the whole implements
`CommandRegister`. The invariant `Inv` adds what makes these inductive: a
loaded snapshot whose version is the guard's is the stored decision
(`SnapshotIsCurrent`); receipts, results and answers agree with what the
decision contains (`ReceiptsAreTrue`, `ResultIsReceipt`); and every command the
decision contains rests on a version that is gone (`AppliedIsPast`), so a rival
can no longer be expected. `AppliedMovesOn` is the lemma about `expected()` and
the version changes of `execute()` that the last part rests on.

`PartitionMigrationProofs` proves, for any rows, batches, operators, writers and
transactions under way, that the journal accounts for the copy and that the move
implements `GroupStore`. `Inv` adds to `TypeOK` and `CopyIsAccountedFor` that
every call and every submitted transaction only ever names what was true when it
looked (`CallsAreSound`: a freeze names the claim of its own plan, a step a
progress the journal has reached) and that what a legacy writer holds is the
source's present or past (`HeldIsPast`); without them a transaction that arrives
late could not be excluded. `MoveIsInvisible` uses them to show that freeze, copy
and activation leave `Current` as it is.

`DurableModelJobsProofs` proves, for any jobs, invocations and limits, that a
job's provider is called at most once, that a result is applied once and only
under an authority that is still current, that the records agree, and that no
more calls run than there are slots. The assumptions are that the limits are
numbers and that names differ (`BoundAssumption`, `NamesAssumption`). None of
it is inductive by itself, because an invocation decides on what it read before
an `await`. `Inv` adds what an invocation may rely upon and for how long: while
nobody has committed, what it read is what is stored (`ReadingHolds`); while its
lease is its own, the job is as it left it and nobody else's (`JobIsMine`); a
call that was sent is accounted for in the record (`CallsAgree`); phase, lease,
slot and reason of a job agree (`RecordsAgree`). `RunningCallsAreBounded` then
follows by counting: running calls map to different slots.

Its second part proves both safety properties of the `jobs_end` run for any
requests, handlers, workers and limits, and that the queue is as safe with the
requests as with its scheduled deliveries alone (`SharedQueueIsSafe`): its
invariant `Inv` is shown to survive two more writers, a handler that queues its
own job and a tab that closes an attempt before its call. `RequestInv` adds that a
handler delivers the job of its own post and nobody else's, that what it read
before it queues the job holds while nobody has committed (`HandlerInv`), that
nothing cancels a request's reasoning and that a note is posted once
(`ServiceInv`), and what a tab's knowledge says of the job (`ClientInv`). The
subtle case is a note that was refused: its tab is told CLOSED although no job
records it, which is true for good only because its one post is over. The
assumptions are those of the queue, and that requests are jobs and handlers
workers (`RequestAssumption`).

`PermissionLedgerProofs` proves every property of the `ledger` run for any
people and any limits that keep the relation the code's have (`LimitAssumption`:
320 >= 192 + 20). The argument is an account (`LedgerInv`): answers are the only
steps that add to the history, so each question and request that is open is
covered by a free place; and what can still be taken back is covered by the
safety reserve, because a withdrawal draws on it only once the ordinary receipts
are used up, from when on no new approval is stored, and every permission in
force is one of the history's records (`ReserveLasts`). `Sound` is what makes a
count a count of something: permissions and refusals rest on settled questions,
disclosures and approvals on the candidate. `QuestionsWait` says that questions
are put when all input is complete, and hold the decision there. Each step of the
application is shown to keep, shrink or raise by one the records of one owner
(the `...Keeps` and `...Adds` lemmas), and the lemmas on `CountAll` carry that to
the counts the repository compares.

`PartitionedSystemProofs` proves every property of the `partition` run for any
numbers of people, groups, drafts, erasures, archives and requests in flight. The
assumptions are that group and draft ids are finitely many and that names differ
(`StoreAssumption`, and that `None` is no record). `SystemInv` has three kinds of
part. The rows agree (`StoreInv`): whoever is in a group, a decision or a draft has
an edge to the group, so that an inventory that follows the edges finds them.
Whoever read rows is right about them as long as the rows still stand: a fence
about the roster (`FenceInv`), a manifest about the group and, once checked, its
children (`ManifestInv`), a plan that has not begun about everything its first step
compares (`CoverageInv`). That is why the first step has to compare every guard: a
decision that changes or appears takes a guard or a header with it. Once an erasure
has begun it no longer depends on what it read. The row it froze keeps everybody
else out, and what is left of the person or the group is covered by the steps to
come, until at the last of them nothing is left (`NoTraceInv`). The argument for a
step is the same throughout: the rows it writes say what may have changed
(`SessionEffect`, `StoreEffect`), and who relied on one of those rows no longer
does. What a commit does to its own plan is `CommitKeepsPlan`. Receipts need a part
of their own (`ReceiptInv`), because they outlive what they are receipts of by one
step.

`RoomLifecycleProofs` proves every property of the `rooms` run for any members,
schedules, values and limits. The assumptions (`RoomAssumption`) are that members,
and the conditions and intervals a member has, are finitely many, that intervals end
after they begin, as the contracts demand, and that `None` is no proposal. That a
stored room can be read and shown and that a refusal ends its round come first.
Neither is inductive. `RoomInv` is
about one room; each helper the handlers are made of is shown to take a room that
satisfies it to one that does (the `...Keeps` lemmas), so a handler is a few of them
in a row, and the code may sweep a room at any moment. What makes it inductive is
this. Capacity is an account per owner: what was asked (`Asked`) and what was or may
still be told (`Told`) only become less, except for the offers of a concession, which
`CanReserve` counts beforehand (`ConcessionKeeps`), and those who leave take their
account with them (`SeatsFit`). An exception of the context implies that its round is
used, so nobody can be asked again (`OwnerInv`). A job that is not completed excludes
a proposal (`StatusInv`). `RunInv` is what a worker that runs unlocked may rely on: if
the context it started in still stands, so does the schedule its plan is for. The
solver enters only through the plan it selects and the grants it names
(`SolverAnswers`): these two theorems hold whatever it finds.

That a proposal suits the room (`ProposalsFitRooms`) and that offers are needed and
suffice (`ConcessionsAreNeededAndSuffice`) are about what it finds. `FoundInv` says it
of the room and of every run under way: a proposal is a plan the solver would select
now (`ProposalFound`); the answer of a run that is awaited is one it would give now
(`RunFound`); while somebody is asked, no plan is feasible, one is if everybody says
yes, and each offer is about a condition in the way of the one slot all offers are for
(`OffersFound`). A step either lets all of it stand, because values, grants and job
stay as they are though time may pass (`Stands`), or stops all of it: nothing is asked
or proposed any more, and the epoch moves so that no run under way is awaited
(`Stops`). Every helper and handler does one of the two, but for three that need an
argument of their own. When a member says yes and others still have to, what was asked
for only moves from the offers to the grants (`GivenFound`); no plan becomes feasible
before the last answer, because whoever still has to answer stands in the way of the
slot, and for other slots nothing changed (`OtherGrants`). A concession begins in a
context in which nobody was asked before (`UnaskedBefore`), and offers only what the
solver was run for (`ConcessionFound`). A plan that was found becomes the proposal
(`SolvedFound`). What is feasible for the solver is what suits everybody minute by
minute (`FeasibleIsSuiting`); that rests on the scan of intervals in order of their
starts finding a gap if and only if a minute is in none of them (`CoverIsMinutes`),
for any finite set of intervals. The induction over that set takes a smallest subset
for which the scan would be wrong (`SmallestFailing`), since the library's induction
theorems cannot be used with these provers.

Only model-checked: that the kernel agrees with the decision's verdict
(`VerdictIsKernels`), which is about what it computes by folding over data, and the
enumerated statements of
`KernelChecks`, `ServiceChecks`, `AssistantChecks`, `MCPartitionedSystem`,
`MCPermissionLedger` and `MCRoomLifecycle`, some of them recursive. Liveness (`JobsEnd`)
stays model-checked: it rests on fairness, which the prover cannot reason about here.
`ProposalsMatchStatus`, `ApprovalsStayCurrent`, `QuestionsHold`, `CallsAreBounded`,
`RowsTyped` and `RoomsAreSound` are only proved: no run asks for them.

## 6. Plan

1. Proofs: `VerdictIsKernels`, which needs the kernel's folds restated as recursive
   functions over sets, as the solver's cover of intervals is.
2. Models: the limits on numbers of the partitioned groups, invitations by
   address; a room's application and its store composed in one state machine.

## 7. Not modelled

* Prompts, tool schemas, wording, and what a model answers beyond its shape: they
  decide what is proposed, never what is accepted.
* Hashes, signatures and sizes in bytes: revisions and identities are abstract,
  and a limit on bytes is a refusal that may happen at any write.
* The page's layout, polling and sessions in the browser; the MCP tools; the local
  development server: they call the operations modelled here.
* Operations scripts (`src/scripts/operations`): they drive the migration, the
  erasure and the job control, whose steps are modelled where they commit.
* Live QA, infrastructure descriptions, generated fixtures and test support: no
  part of the running system.
