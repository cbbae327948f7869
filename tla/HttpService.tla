---------------------------- MODULE HttpService ----------------------------
(***************************************************************************)
(* The HTTP service (apps/api/src: http-core.ts, partition-http.ts,        *)
(* cognito-identity.ts, ke13b-lambda.ts).                                  *)
(*                                                                         *)
(* A handler is a table: for every route the steps it takes, in order,     *)
(* until one of them refuses.  A step is one of                            *)
(*   an authority  a read that refuses who may not see or change the thing *)
(*   BODY          the bytes of the request, parsed as JSON                *)
(*   SHAPE         the checks of that value                                *)
(*   LIVE          the request was not given up yet                        *)
(*   PROVIDER      a bounded call of the identity provider                 *)
(*   MODEL         a call that may reach a model provider                  *)
(*   WRITE         the operation of the application or of a group session  *)
(*   REREAD        the read of what was written, before it is published    *)
(* ROOM is createApiHandler(), LEGACY createKnownEnoughApiHandler() and    *)
(* PARTITION createPartitionParticipantApiHandler().                       *)
(*                                                                         *)
(* Left out: diagnostics, headers other than the origin, the contents of   *)
(* requests and answers, request ids.                                      *)
(***************************************************************************)
EXTENDS Naturals, Sequences, FiniteSets, SequencesExt, TLC

Handler == {"ROOM", "LEGACY", "PARTITION"}

------------------------------------------------------------- \* Who asks
NoPrincipal == [kind |-> "none"]
ParticipantPrincipal(s) == [kind |-> "participant", subject |-> s]
DisplayPrincipal(s, r) == [kind |-> "display", subject |-> s, room |-> r]

\* A header that is no bearer token never reaches the verifier.
BearerToken(header) == header.form = "BEARER" /\ ~header.long

DisplayRooms(claims) == SelectSeq(claims.groups, LAMBDA g : g.display)

(* Claims of a verified access token.  listed: cognito:groups is there;    *)
(* wellFormed: it is absent or a list of names.                            *)
MapVerifiedCognitoClaims(claims) ==
    LET rooms == DisplayRooms(claims)
    IN  IF claims.use # "access" \/ ~claims.validSubject \/ ~claims.wellFormed
            THEN NoPrincipal
        ELSE IF claims.client = "participant" THEN ParticipantPrincipal(claims.subject)
        ELSE IF /\ claims.client = "display" /\ claims.listed
                /\ Len(rooms) = 1 /\ rooms[1].validRoom
            THEN DisplayPrincipal(claims.subject, rooms[1].room)
        ELSE NoPrincipal

Resolve(header) ==
    IF BearerToken(header) /\ header.verifies
    THEN MapVerifiedCognitoClaims(header.claims) ELSE NoPrincipal

\* A local handler knows the fixed labels it was given, then the signed
\* test sessions; a production environment refuses to build it.
LocalPrincipal(label, identities, sessionOf) ==
    IF label \in DOMAIN identities THEN identities[label] ELSE sessionOf

LocalMayListen(environment, host) ==
    environment # "production" /\ host \in {"127.0.0.1", "::1"}

(* What a handler is made with (LocalApiOptions, CognitoApiOptions and     *)
(* their Known Enough forms): who authenticates ("LOCAL" labels or         *)
(* "COGNITO" tokens), labels, origins, the largest body, and the ports:    *)
(* the parts that are put in.                                              *)
MaxBodyBytes == 64      \* DEFAULT_MAX_BODY_BYTES, in kilobytes
Ports == {"groups", "groupDecisions", "scenarios", "architect", "ownerConversation",
          "negotiator", "testSessions"}

\* validateAllowedOrigins: exact, once each, and in the clear to loopback only
OriginsAccepted(origins) ==
    /\ origins # <<>> /\ IsInjective(origins)
    /\ \A o \in ToSet(origins) : o.exact /\ (o.scheme = "https" \/ (o.scheme = "http" /\ o.loopback))

BodyLimitAccepted(maxBody) == maxBody \in 1..1024

\* Whether a handler can be made; only a local one has labels and a fixed origin.
HandlerAccepted(options, environment) ==
    /\ BodyLimitAccepted(options.maxBody)
    /\ options.by = "LOCAL" =>
          /\ environment # "production"
          /\ \A l \in DOMAIN options.identities :
                l.nonProduction /\ options.identities[l].kind \in {"participant", "display"}
    /\ options.by = "COGNITO" => OriginsAccepted(options.origins)

\* A local Known Enough handler turns from the label to a test session.
Authenticate(options, request) ==
    IF options.by = "COGNITO" THEN Resolve(request.header)
    ELSE LocalPrincipal(request.label, options.identities,
            IF "testSessions" \in options.ports THEN request.session ELSE NoPrincipal)

\* readJson: the type first, then the size as it comes in, then the text
ReadJson(request, maxBody) ==
    request.mediaType = "application/json" /\ request.size <= maxBody /\ request.parses

\* An answer repeats an id of the body if there is one, else of the header.
RequestId(header) == IF header.validId THEN header.id ELSE "invalid-request"
BodyRequestId(body, fallback) == IF body.isRecord /\ body.validId THEN body.id ELSE fallback

(* Seats of a decision and their invitations.  A seat is active once its   *)
(* person has come with the token of its last invitation.  decision:       *)
(* creator, roster, and for every seat its subject, whether it is active   *)
(* and its invitation.                                                     *)
NoInvitation == [token |-> 0, expires |-> 0, redeemed |-> FALSE]

Seated(decision, subject) == {x \in decision.roster : decision.subject[x] = subject}

\* member(): an active seat of the roster
Member(decision, principal) ==
    IF principal.kind # "participant" THEN {}
    ELSE {x \in Seated(decision, principal.subject) : decision.active[x]}

\* readViewer(): the seat, or "" for a display of this decision, which has none
ReadViewer(decision, principal) ==
    CASE principal.kind = "none" -> "UNAUTHENTICATED"
      [] principal.kind = "participant" /\ Member(decision, principal) # {} ->
            CHOOSE x \in Member(decision, principal) : TRUE
      [] principal.kind = "display" /\ principal.room = decision.id -> ""
      [] OTHER -> "NOT_FOUND"

\* getCreatedDecision: a creation sent again is answered to its creator only
CreatedAgain(decision, principal, body) ==
    CASE principal.kind = "none" -> "UNAUTHENTICATED"
      [] Member(decision, principal) = {} -> "NOT_FOUND"
      [] principal.subject # decision.creator -> "NOT_FOUND"
      [] decision.body # body -> "IDEMPOTENCY_CONFLICT"
      [] OTHER -> "OK"

\* issueDecisionInvitation: one invitation a seat, an open one only by request
IssueAnswer(decision, principal, seat, replace, now) ==
    LET prior == decision.invitation[seat]
    IN  CASE principal.kind = "none" -> "UNAUTHENTICATED"
          [] \/ principal.kind # "participant" \/ principal.subject # decision.creator
             \/ ~\E x \in DOMAIN decision.subject :
                   decision.subject[x] = principal.subject /\ decision.active[x] -> "NOT_FOUND"
          [] \/ decision.active[seat] \/ decision.subject[seat] = decision.creator
             \/ seat \notin decision.roster -> "NOT_FOUND"
          [] ~replace /\ prior # NoInvitation /\ ~prior.redeemed /\ prior.expires > now -> "IDEMPOTENCY_CONFLICT"
          [] OTHER -> "OK"
Issue(decision, principal, seat, replace, token, now, ttl) ==
    IF IssueAnswer(decision, principal, seat, replace, now) # "OK" THEN decision
    ELSE [decision EXCEPT !.invitation[seat] =
             [token |-> token, expires |-> now + ttl, redeemed |-> FALSE]]

\* redeemDecisionInvitation: whoever holds the token takes only a seat of their own
RedeemAnswer(decision, principal, token, now) ==
    LET own == {x \in DOMAIN decision.subject : decision.subject[x] = principal.subject}
        held == {x \in own : decision.invitation[x].token = token /\ token # 0}
    IN  CASE principal.kind = "none" -> "UNAUTHENTICATED"
          [] principal.kind # "participant" \/ held = {} -> "NOT_FOUND"
          [] \E x \in held : LET i == decision.invitation[x] IN
                IF i.redeemed THEN ~decision.active[x] ELSE i.expires <= now -> "NOT_FOUND"
          [] OTHER -> "OK"
Redeem(decision, principal, token, now) ==
    IF RedeemAnswer(decision, principal, token, now) # "OK" THEN decision
    ELSE LET seat == CHOOSE x \in DOMAIN decision.subject : decision.subject[x] = principal.subject
         IN  [decision EXCEPT !.active[seat] = TRUE, !.invitation[seat].redeemed = TRUE]

------------------------------------------------- \* What an answer says
HttpStatus ==
    [UNAUTHENTICATED |-> 401, FORBIDDEN |-> 403, NOT_FOUND |-> 404,
     STALE_CONTEXT |-> 409, STALE_OWNER |-> 409, STALE_DRAFT |-> 409,
     STALE_PROPOSAL |-> 409, IDEMPOTENCY_CONFLICT |-> 409, INVALID_COMMAND |-> 422,
     NEEDS_CLARIFICATION |-> 422, CAPACITY_EXCEEDED |-> 507,
     RETRYABLE_SERVER_ERROR |-> 503]

Code == DOMAIN HttpStatus

(* What a step throws: its class and, where the class has one, its code.   *)
Thrown == [class : {"ROOM_ERROR", "APPLICATION", "ARCHITECT"}, code : Code]
          \cup [class : {"CAPACITY", "NEGOTIATOR", "OTHER"}]
          \cup [class : {"OWNER_CONVERSATION"},
                code : {"INVALID_INPUT", "FRAME_NOT_CONFIRMED", "PROVIDER_FAILURE"}]

\* applicationError() of a room.
ApplicationErrorCode(e) ==
    IF e.class = "ROOM_ERROR" THEN e.code ELSE "RETRYABLE_SERVER_ERROR"

\* knownEnoughRequestError() and the two catch blocks that know more.
KnownEnoughErrorCode(e) ==
    CASE e.class = "CAPACITY" -> "CAPACITY_EXCEEDED"
      [] e.class \in {"APPLICATION", "ARCHITECT"} -> e.code
      [] e.class = "OWNER_CONVERSATION" /\ e.code = "INVALID_INPUT" -> "INVALID_COMMAND"
      [] e.class = "OWNER_CONVERSATION" /\ e.code = "FRAME_NOT_CONFIRMED" -> "NEEDS_CLARIFICATION"
      [] OTHER -> "RETRYABLE_SERVER_ERROR"

(* What is thrown below the participant handler; the prefix of a code is    *)
(* its class.                                                              *)
StorageError(code) == [class |-> "STORAGE", code |-> code]
MembershipError(code) == [class |-> "MEMBERSHIP", code |-> code]
PartitionSessionError(code) == [class |-> "SESSION", code |-> code]
PartitionDecisionError(code) == [class |-> "DECISION", code |-> code]
Application(code) == [class |-> "APPLICATION", code |-> code]

StorageErrors == {StorageError(code) : code \in
    {"INVALID", "CAPACITY", "CONFLICT", "STALE", "TIMEOUT", "REQUEST_LIMIT", "IDENTITY_CONFLICT"}}
MembershipErrors == {MembershipError(code) : code \in
    {"INVALID", "DENIED", "STALE", "STORAGE_UNAVAILABLE", "TIMEOUT", "REQUEST_LIMIT"}}
SessionErrors == {PartitionSessionError(code) : code \in
    {"INVALID", "STORAGE_UNAVAILABLE", "TIMEOUT", "REQUEST_LIMIT", "CAPACITY"}}
DecisionErrors == {PartitionDecisionError(code) : code \in
    {"INVALID", "STORAGE_UNAVAILABLE", "TIMEOUT", "REQUEST_LIMIT", "CONFLICT"}}

Or(code, codes, other) == IF code \in codes THEN code ELSE other

\* safe() of a group session.
SessionError(e) ==
    CASE e.class \in {"APPLICATION", "SESSION"} -> e
      [] e = MembershipError("DENIED") -> Application("FORBIDDEN")
      [] e \in {MembershipError("STALE"), StorageError("STALE"), StorageError("CONFLICT")}
            -> Application("STALE_CONTEXT")
      [] e \in MembershipErrors \ {MembershipError("DENIED"), MembershipError("STALE")}
            -> PartitionSessionError(Or(e.code, {"TIMEOUT", "REQUEST_LIMIT", "INVALID"}, "STORAGE_UNAVAILABLE"))
      [] e \in StorageErrors \ {StorageError("STALE"), StorageError("CONFLICT")}
            -> PartitionSessionError(Or(e.code, {"TIMEOUT", "REQUEST_LIMIT", "CAPACITY"}, "INVALID"))
      [] OTHER -> PartitionSessionError("STORAGE_UNAVAILABLE")

\* safe() of the decisions of partitioned groups.
DecisionError(e) ==
    CASE e.class \in {"APPLICATION", "CAPACITY", "DECISION"} -> e
      [] e.class \in {"SESSION", "STORAGE"} ->
            IF e.code = "CAPACITY" THEN [class |-> "CAPACITY"]
            ELSE PartitionDecisionError(
                    Or(e.code, {"TIMEOUT", "REQUEST_LIMIT", "STORAGE_UNAVAILABLE"}, "INVALID"))
      [] OTHER -> PartitionDecisionError("STORAGE_UNAVAILABLE")

\* The catch block of the participant handler.
PartitionErrorCode(e) ==
    CASE e \in {[class |-> "CAPACITY"], PartitionSessionError("CAPACITY")} -> "CAPACITY_EXCEEDED"
      [] e.class = "APPLICATION" -> e.code
      [] OTHER -> "RETRYABLE_SERVER_ERROR"

ErrorCode(h, e) ==
    CASE h = "ROOM" -> ApplicationErrorCode(e)
      [] h = "LEGACY" -> KnownEnoughErrorCode(e)
      [] h = "PARTITION" -> PartitionErrorCode(e)

(* What DynamoDB answers to a transaction it did not carry out: the name   *)
(* of the error and, of a transaction it cancelled, a reason for each of   *)
(* its items.                                                              *)
RetryName == {"TransactionConflictException", "ConditionalCheckFailedException",
              "TransactionInProgressException", "ProvisionedThroughputExceededException",
              "ThrottlingException", "RequestLimitExceeded"}
Cancelled == "TransactionCanceledException"
RetryReason == {"ConditionalCheckFailed", "TransactionConflict",
                "ProvisionedThroughputExceeded", "ThrottlingError"}
SizeReason == {"ItemSize", "ItemCollectionSizeLimitExceeded"}

Given(x) == {x.reasons[i] : i \in DOMAIN x.reasons}

\* transactionDisposition() of the older table
Disposition(x) ==
    LET failed == Given(x) \ {"None"}
    IN  CASE x.name \in RetryName -> "retry"
          [] x.name # Cancelled /\ x.name \notin RetryName -> "other"
          [] x.name = Cancelled ->
                IF failed = {} \/ ~(failed \subseteq RetryReason \cup SizeReason) THEN "other"
                ELSE IF failed \cap SizeReason # {} THEN "capacity" ELSE "retry"

\* retryable() of the decisions of partitioned groups
Retryable(x) ==
    \/ x.name \in RetryName
    \/ /\ x.name = Cancelled /\ Given(x) \cap RetryReason # {}
       /\ Given(x) \subseteq RetryReason \cup {"None"}

\* commit() of the partitions: what is answered as a lost race
CommitLost(x) ==
    LET lost == {"ConditionalCheckFailed", "TransactionConflict"}
    IN  \/ x.name = "TransactionConflictException"
        \/ /\ x.name = Cancelled /\ Given(x) \cap lost # {}
           /\ Given(x) \subseteq lost \cup {"None"}

\* readJson() of http-core.ts, in both of its handlers; body() of the other.
BodyError(h) ==
    [class |-> IF h = "PARTITION" THEN "APPLICATION" ELSE "ROOM_ERROR",
     code |-> "INVALID_COMMAND"]

---------------------------------------------------------- \* The gateway
(* invokeHttpApi(): what it answers without the listener, or the request   *)
(* the listener sees.  Only a POST carries its body.                       *)
GatewayStatus(event) ==
    CASE ~event.wellFormed -> 503
      [] event.method \notin {"GET", "POST", "OPTIONS"} -> 404
      [] event.body \in {"MALFORMED", "TOO_LARGE"} -> 422
      [] ~event.listens -> 503
      [] OTHER -> event.listener

\* gatewayFailure() names three codes only.
GatewayCode(status) ==
    CASE status = 422 -> "INVALID_COMMAND"
      [] status = 404 -> "NOT_FOUND"
      [] OTHER -> "RETRYABLE_SERVER_ERROR"

\* An origin gets an answer of the gateway it may read only if it is the
\* configured one, and that one is https and names nobody.
GatewayAllows(event) ==
    event.configured = "HTTPS" /\ event.origin = "OURS"

\* readKe13bConfig(): nothing runs half configured, and no model without
\* every acknowledgement.
ConfigAccepted(env) ==
    /\ env.table /\ env.region /\ env.pool /\ env.originIsHttps
    /\ env.participantClient # env.displayClient
    /\ env.models # "DISABLED" =>
          env.models = "BEDROCK" /\ env.paid /\ env.loggingOff /\ env.retentionReviewed
    /\ env.groups => env.groupTable /\ env.emailKey /\ env.domainIsOurs

\* Which parts createKe13bLambdaHandler() puts together.
Composition(env) ==
    [groups |-> env.groups, negotiator |-> env.models = "BEDROCK",
     ownerConversation |-> env.models = "BEDROCK",
     groupDecisions |-> env.groups /\ env.models = "BEDROCK",
     scenarios |-> env.models = "BEDROCK" /\ env.members > 0,
     architect |-> FALSE, testSessions |-> FALSE]

(***************************************************************************)
(* The routes of the three handlers, each with its steps in order, and     *)
(* what a request does that is refused at one of them.                     *)
(***************************************************************************)

----------------------------------------------------------- \* Their steps
\* createApiHandler(): a room is asked for before its commands are read.
RoomRoutes ==
    "issueInvitation" :> <<"ISSUER", "BODY", "SHAPE", "WRITE">>
    @@ "redeemInvitation" :> <<"BODY", "SHAPE", "WRITE">>
    @@ "readPublic" :> <<"READ">>
    @@ "readOwner" :> <<"PUBLIC", "READ">>
    @@ "command" :> <<"PUBLIC", "SCOPE", "BODY", "SHAPE", "WRITE", "SOLVE">>

\* The group part of createKnownEnoughApiHandler().
LegacyGroupRoutes ==
    "status" :> <<"READ">>
    @@ "register" :> <<"PROVIDER", "BODY", "WRITE">>
    @@ [r \in {"invitations", "memberProfile", "listGroups", "getGroup", "readDraft",
               "reviewRoster"} |-> <<"APPROVED", "READ">>]
    @@ "draftRequests" :> <<"APPROVED", "MEMBER", "ORGANIZER">>
    @@ [r \in {"createGroup", "acceptInvitation", "editDraft", "changeGroup"} |->
           <<"APPROVED", "BODY", "WRITE">>]
    @@ [r \in {"createDecision", "reviseRoster"} |->
           <<"APPROVED", "BODY", "WRITE", "DECISION", "REREAD">>]
    @@ "generateDraft" :> <<"APPROVED", "BODY", "MODEL", "WRITE">>

\* What comes after it knows an approved person who may read the decision.
Fenced(steps) == <<"APPROVED", "DECISION">> \o steps

LegacyAssistantRoutes ==
    "scenario" :> <<"APPROVED", "SCOPE", "BODY", "MODEL", "WRITE">>
    @@ "architectDraft" :> Fenced(<<"SCOPE", "BODY", "SHAPE", "MODEL">>)
    @@ "reason" :> Fenced(<<"SCOPE", "BODY", "SHAPE", "MODEL", "WRITE">>)
    @@ "interpretOwner" :> Fenced(<<"SCOPE", "BODY", "SHAPE", "MODEL">>)

LegacyDecisionRoutes ==
    "issueInvitation" :> Fenced(<<"BODY", "WRITE">>)
    @@ "redeemInvitation" :> Fenced(<<"BODY", "WRITE">>)
    @@ "readPublic" :> Fenced(<<"READ">>)
    @@ "readOwner" :> Fenced(<<"READ">>)
    @@ "command" :> Fenced(<<"PUBLIC", "SCOPE", "BODY", "SHAPE", "WRITE">>)

\* A test session is for loopback only and asks nobody who they are.
LegacyTestRoutes == "testSession" :> <<"BODY", "SHAPE", "ISSUE">>

PartitionAccountRoutes ==
    "ownProfile" :> <<"READ">>
    @@ "updateProfile" :> <<"ACCOUNT", "BODY", "WRITE">>
    @@ "status" :> <<"READ">>
    @@ "invitations" :> <<"READ">>
    @@ "listGroups" :> <<"SHAPE", "READ">>
    @@ "memberProfile" :> <<"READ">>
    @@ "register" :> <<"PROVIDER", "BODY", "LIVE", "WRITE">>
    @@ "acceptInvitation" :> <<"BODY", "LIVE", "WRITE">>
    @@ "createGroup" :> <<"BODY", "LIVE", "WRITE">>

PartitionDraftRoutes ==
    "draftRequests" :> <<"ORGANIZER", "READ">>
    @@ "releaseDraftRequest" :> <<"ORGANIZER", "BODY", "SHAPE", "WRITE">>
    @@ "generateDraft" :> <<"ORGANIZER", "LIVE", "BODY", "LIVE", "MODEL", "WRITE">>
    @@ "readDraft" :> <<"READ">>
    @@ "editDraft" :> <<"ORGANIZER", "LIVE", "BODY", "LIVE", "WRITE">>
    @@ "createDecision" :> <<"ORGANIZER", "LIVE", "BODY", "LIVE", "PREPARE", "WRITE",
                             "LIVE", "REREAD", "LIVE">>

PartitionGroupRoutes ==
    "reviewRoster" :> <<"ORGANIZER", "OWNER", "LIVE">>
    @@ "reviseRoster" :> <<"ORGANIZER", "OWNER", "LIVE", "BODY", "SHAPE", "COMPARE",
                           "ORGANIZER", "COMPARE", "WRITE", "LIVE", "REREAD", "LIVE">>
    @@ "getGroup" :> <<"READ">>
    @@ "changeGroup" :> <<"BODY", "LIVE", "WRITE">>

PartitionAssistantRoutes ==
    "readChat" :> <<"OWNER", "READ">>
    @@ "postChat" :> <<"OWNER", "BODY", "SHAPE", "MODEL", "WRITE">>
    @@ "interpretOwner" :> <<"OWNER", "CONFIRMED", "BODY", "SHAPE", "MODEL", "WRITE">>
    @@ "interpretationStatus" :> <<"OWNER", "READ">>
    @@ "closeInterpretation" :> <<"OWNER", "BODY", "SHAPE", "WRITE">>

\* After a saved answer the outcome is asked for; that cannot refuse.
PartitionDecisionRoutes ==
    "readPublic" :> <<"READ">>
    @@ "readOwner" :> <<"READ">>
    @@ "requestNegotiation" :> <<"PUBLIC", "LIVE", "BODY", "SHAPE", "WRITE", "LIVE">>
    @@ "command" :> <<"PUBLIC", "LIVE", "BODY", "SHAPE", "LIVE", "WRITE">>
    @@ "confirmPrivateAnswers" :> <<"PUBLIC", "LIVE", "BODY", "SHAPE", "LIVE", "READY", "WRITE">>

Routes(h) ==
    CASE h = "ROOM" -> RoomRoutes
      [] h = "LEGACY" -> LegacyGroupRoutes @@ LegacyAssistantRoutes @@ LegacyDecisionRoutes
      [] h = "PARTITION" -> PartitionAccountRoutes @@ PartitionDraftRoutes
                            @@ PartitionGroupRoutes @@ PartitionAssistantRoutes
                            @@ PartitionDecisionRoutes

Route(h) == DOMAIN Routes(h)

\* The parts a route of the older handler needs; without them there is none.
Needs(route) ==
    CASE route \in {"readDraft", "editDraft", "generateDraft", "createDecision",
                    "reviewRoster", "reviseRoster"} -> {"groups", "groupDecisions"}
      [] route \in DOMAIN LegacyGroupRoutes -> {"groups"}
      [] route = "scenario" -> {"scenarios"}
      [] route = "architectDraft" -> {"architect"}
      [] route = "interpretOwner" -> {"ownerConversation"}
      [] route = "reason" -> {"negotiator"}
      [] route \in DOMAIN LegacyTestRoutes -> {"testSessions"}
      [] OTHER -> {}
Served(ports) ==
    {r \in Route("LEGACY") \union DOMAIN LegacyTestRoutes : Needs(r) \subseteq ports}

\* The steps that prove an authority, as opposed to reading the request.
Authorities == {"ISSUER", "APPROVED", "ACCOUNT", "MEMBER", "ORGANIZER", "DECISION",
                "PUBLIC", "OWNER", "PROVIDER", "PREPARE", "REREAD"}

------------------------------------------------ \* Who gets to a route
(* A display reads its own room or decision and nothing else.  The older   *)
(* handlers leave most of that to the application; this one does not.      *)
PartitionAdmits(principal, route, decision, displayAccess) ==
    CASE principal.kind = "participant" -> TRUE
      [] principal.kind = "display" ->
            displayAccess /\ route = "readPublic" /\ principal.room = decision
      [] principal.kind = "none" -> FALSE

\* What a request is told before any route of it is looked at.
Refusal(h, origin, method, principal) ==
    CASE h = "PARTITION" /\ origin = "FOREIGN" -> HttpStatus.FORBIDDEN
      [] method = "OPTIONS" -> 204
      [] principal.kind = "none" -> HttpStatus.UNAUTHENTICATED
      [] OTHER -> 0

\* Only the participant handler turns a foreign page away; the others merely
\* leave the header out that would let it read the answer.
OriginMayRead(origin) == origin = "OURS"

(* A roster or a decision that has moved on answers its former owner from  *)
(* the history.                                                            *)
OwnerReadOutcome(current, history) ==
    IF current = "STALE_CONTEXT" THEN history ELSE current

\* The commands after which the outcome is asked for, and when.
AsksForOutcome(type, status, hasProposal) ==
    /\ type \in {"CONFIRM_PRIVATE_ANSWERS", "CONFIRM_CONSTRAINTS", "CONFIRM_FRAME",
                 "ANSWER_NEGOTIATION"}
    /\ status = "READY" /\ ~hasProposal

------------------------------------------------------ \* What a run does
\* The steps of a route that were done when step n refuses (0: none does).
Done(h, r, n) ==
    LET steps == Routes(h)[r]
    IN  IF n = 0 THEN ToSet(steps) ELSE ToSet(SubSeq(steps, 1, n - 1))

(* The answer's status when step n throws e.                               *)
Status(h, r, n, e) == IF n = 0 THEN 200 ELSE HttpStatus[ErrorCode(h, e)]

\* What the client is told when its body is no JSON it may send.
BodyRefused(h, r) ==
    LET n == SelectInSeq(Routes(h)[r], LAMBDA s : s = "BODY")
    IN  Status(h, r, n, BodyError(h))

Writing(h) == {r \in Route(h) : "WRITE" \in ToSet(Routes(h)[r])}

Position(h, r, step) == SelectInSeq(Routes(h)[r], LAMBDA s : s = step)

(* Routes that can be refused after what was asked for has been done.      *)
DoneThoughRefused(h) ==
    {r \in Writing(h) : Position(h, r, "WRITE") < Len(Routes(h)[r])}

\* Routes that read the body of somebody they have not asked about.
BodyBeforeAuthority(h) ==
    {r \in Route(h) : LET b == Position(h, r, "BODY")
                      IN  /\ b > 0
                          /\ Done(h, r, b) \cap (Authorities \ {"REREAD"}) = {}}

---------------------------------------------------------- \* Admission
(* The counters of the participant handler.  A request holds a slot until  *)
(* its answer; a call of the identity provider, of the discovery or of the *)
(* architect holds one of the other kind until it settles, which may be    *)
(* after its request has timed out and was answered.                       *)
(*                                                                         *)
(* requests: what each request does: "NEW", "AUTH", "WORK", "CALL" or      *)
(* "DONE".  calls: calls that have not settled, some of nobody.            *)
Fresh(Requests) ==
    [requests |-> [q \in Requests |-> "NEW"], late |-> 0, active |-> 0, authenticating |-> 0]

Waiting(a) == {q \in DOMAIN a.requests : a.requests[q] \in {"AUTH", "CALL"}}

Arrive(a, q, limit) ==
    IF a.active >= limit \/ a.authenticating >= limit
    THEN [a EXCEPT !.requests[q] = "DONE"]
    ELSE [a EXCEPT !.requests[q] = "AUTH", !.active = @ + 1, !.authenticating = @ + 1]

Settle(a, q) ==
    [a EXCEPT !.requests[q] = "WORK", !.authenticating = @ - 1]

\* Registration, discovery and the architect ask for a second call.
Call(a, q, limit) ==
    IF a.authenticating >= limit
    THEN [a EXCEPT !.requests[q] = "DONE", !.active = @ - 1]
    ELSE [a EXCEPT !.requests[q] = "CALL", !.authenticating = @ + 1]

\* bounded(): the request is answered, the call goes on.
TimeOut(a, q) ==
    [a EXCEPT !.requests[q] = "DONE", !.active = @ - 1, !.late = @ + 1]

SettleLate(a) == [a EXCEPT !.late = @ - 1, !.authenticating = @ - 1]

Answered(a, q) == [a EXCEPT !.requests[q] = "DONE", !.active = @ - 1]

Following(a, limit) ==
    {Arrive(a, q, limit) : q \in {p \in DOMAIN a.requests : a.requests[p] = "NEW"}}
    \cup {Settle(a, q) : q \in Waiting(a)}
    \cup {TimeOut(a, q) : q \in Waiting(a)}
    \cup UNION {{Call(a, q, limit), Answered(a, q)} :
                   q \in {p \in DOMAIN a.requests : a.requests[p] = "WORK"}}
    \cup (IF a.late > 0 THEN {SettleLate(a)} ELSE {})

\* All admissions within n steps.
Admissions(Requests, limit, n) ==
    FoldLeft(LAMBDA A, i : A \cup UNION {Following(a, limit) : a \in A},
             {Fresh(Requests)}, [i \in 1..n |-> i])
=============================================================================
