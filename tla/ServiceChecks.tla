--------------------------- MODULE ServiceChecks ---------------------------
(***************************************************************************)
(* Statements about the HTTP service and the older group service, each     *)
(* checked by TLC over every case of a small instance.                     *)
(***************************************************************************)
EXTENDS Naturals, Sequences, FiniteSets
LOCAL INSTANCE SequencesExt
LOCAL INSTANCE FiniteSetsExt

Http == INSTANCE HttpService

Groups == INSTANCE LegacyGroups WITH
    Subject <- {"o", "m"}, Email <- {"eo", "em"}, Name <- {"n"}, None <- [none |-> TRUE],
    MaxAccounts <- 2, MaxMembers <- 2

------------------------------------------------------------ \* HTTP service
(* A token names one person, or one room of one display; whatever is wrong *)
(* with it, nobody gets in.                                                *)
RoomNames == {[display |-> d, validRoom |-> v, room |-> r] :
                 d \in BOOLEAN, v \in BOOLEAN, r \in {"r1", "r2"}}
Claims == [use : {"access", "id"}, validSubject : BOOLEAN, subject : {"s"}, listed : BOOLEAN,
           wellFormed : BOOLEAN, client : {"participant", "display", "other"},
           groups : UNION {[1..n -> RoomNames] : n \in 0..2}]

ASSUME DisplaysHaveOneRoom ==
    \A c \in Claims :
        LET p == Http!MapVerifiedCognitoClaims(c)
        IN  /\ p.kind = "display" =>
                  /\ c.client = "display"
                  /\ {g \in ToSet(c.groups) : g.display} = {[display |-> TRUE, validRoom |-> TRUE,
                                                             room |-> p.room]}
            /\ p.kind # "none" => c.use = "access" /\ c.validSubject

(* Whatever a handler's steps throw, its answer has a status; a person is  *)
(* never told 401 or 403 for a step that says neither.                     *)
ASSUME EveryErrorHasAnAnswer ==
    \A h \in Http!Handler, e \in Http!Thrown :
        LET code == Http!ErrorCode(h, e)
        IN  /\ code \in Http!Code
            /\ code \in {"UNAUTHENTICATED", "FORBIDDEN"} =>
                  e.class \in {"ROOM_ERROR", "APPLICATION", "ARCHITECT"} /\ e.code = code

(* What goes wrong below the participant handler is told by its kind.  A    *)
(* step back to what the person saw is asked for exactly where something   *)
(* changed beneath the request, and it does not matter whether the error   *)
(* passes a decision on its way.  What passes no session tells less: there *)
(* a change beneath the request is a failure of the store.                 *)
ErrorsBelow ==
    Http!StorageErrors \cup Http!MembershipErrors \cup Http!SessionErrors \cup Http!DecisionErrors
      \cup {[class |-> "CAPACITY"], [class |-> "OTHER"]}

ASSUME ErrorsKeepTheirKind ==
    LET told(e) == Http!PartitionErrorCode(e)
        session(e) == Http!SessionError(e)
        changed == {Http!StorageError("STALE"), Http!StorageError("CONFLICT"), Http!MembershipError("STALE")}
    IN  \A e \in ErrorsBelow :
            /\ told(session(e)) = "STALE_CONTEXT" <=> e \in changed
            /\ told(session(e)) = "FORBIDDEN" <=> e = Http!MembershipError("DENIED")
            /\ told(session(e)) = "CAPACITY_EXCEEDED"
                  <=> e \in {Http!StorageError("CAPACITY"), Http!PartitionSessionError("CAPACITY")}
            /\ told(Http!DecisionError(session(e))) = told(session(e))
            /\ session(session(e)) = session(e)
            /\ told(Http!DecisionError(e)) \in {"RETRYABLE_SERVER_ERROR", "CAPACITY_EXCEEDED"}
            /\ told(Http!DecisionError(e)) # told(session(e))
                  <=> e \in changed \cup {Http!MembershipError("DENIED"), [class |-> "CAPACITY"]}

(* The two stores of decisions try a transaction again for the same        *)
(* answers of the table, never one that was refused for its size; whatever *)
(* a partition takes for a lost race is one of them, and it takes          *)
(* throttling for none.                                                    *)
ASSUME RetriesAgree ==
    LET reasons == Http!RetryReason \cup Http!SizeReason \cup {"None", "ValidationError"}
        answers == {[name |-> name, reasons |-> r] :
                       name \in Http!RetryName \cup {Http!Cancelled, "AccessDeniedException"},
                       r \in UNION {[1..n -> reasons] : n \in 0..3}}
    IN  \A x \in answers :
            /\ Http!Retryable(x) <=> Http!Disposition(x) = "retry"
            /\ Http!CommitLost(x) => Http!Retryable(x)
            /\ Http!CommitLost(x) /\ x.name = Http!Cancelled =>
                  Http!Given(x) \cap {"ProvisionedThroughputExceeded", "ThrottlingError"} = {}
            /\ Http!Disposition(x) = "capacity" => Http!Given(x) \cap Http!SizeReason # {}

(* A participant handler asks who somebody is before it reads what they    *)
(* sent, but for three routes; the older one reads six bodies of people it *)
(* knows as approved only, which counts as an authority here.              *)
ASSUME BodiesOfStrangers ==
    /\ Http!BodyBeforeAuthority("PARTITION") = {"acceptInvitation", "createGroup", "changeGroup"}
    /\ Http!BodyBeforeAuthority("ROOM") = {"redeemInvitation"}
    /\ Http!BodyBeforeAuthority("LEGACY") = {}

(* These can answer with a refusal what has been done: the decision was    *)
(* created or revised, the command was stored, the job was queued.         *)
ASSUME RefusalsThatHide ==
    /\ Http!DoneThoughRefused("PARTITION") = {"createDecision", "reviseRoster", "requestNegotiation"}
    /\ Http!DoneThoughRefused("ROOM") = {"command"}
    /\ Http!DoneThoughRefused("LEGACY") = {"createDecision", "reviseRoster"}

(* A body that is no JSON is the caller's fault everywhere but in the older *)
(* Known Enough handler, which throws an error of the rooms and catches its *)
(* own only: it asks the client to try again.                              *)
ASSUME MalformedBodies ==
    \A h \in Http!Handler : \A r \in Http!Route(h) :
        Http!Position(h, r, "BODY") > 0 =>
            Http!BodyRefused(h, r) = IF h = "LEGACY" THEN 503 ELSE 422

(* Requests and calls never exceed the limit, and the counters count them: *)
(* a call that outlives its request keeps its slot and nothing else does.  *)
ASSUME AdmissionIsBounded ==
    \A limit \in 1..2 : \A a \in Http!Admissions({"q1", "q2", "q3"}, limit, 12) :
        LET At(phases) == {q \in DOMAIN a.requests : a.requests[q] \in phases}
        IN  /\ a.active = Cardinality(At({"AUTH", "WORK", "CALL"})) /\ a.active <= limit
            /\ a.authenticating = Cardinality(At({"AUTH", "CALL"})) + a.late
            /\ a.authenticating <= limit

(* Whoever a handler made for production lets in came with a token that     *)
(* verifies: neither a label nor a test session names anybody there, and    *)
(* only a page that is fetched safely reads the answers.                    *)
Labels == {[nonProduction |-> n] : n \in BOOLEAN}
People == {Http!ParticipantPrincipal("s"), Http!DisplayPrincipal("d", "r1")}
Origins == [exact : BOOLEAN, scheme : {"http", "https"}, loopback : BOOLEAN]
Handlers == [by : {"LOCAL", "COGNITO"}, maxBody : {0, Http!MaxBodyBytes},
             identities : UNION {[L -> People] : L \in SUBSET Labels},
             origins : UNION {[1..n -> Origins] : n \in 0..2}, ports : {{}, {"testSessions"}}]
Requests == [label : Labels \union {[none |-> TRUE]}, session : People \union {Http!NoPrincipal},
             header : [form : {"BEARER", "OTHER"}, long : {FALSE}, verifies : BOOLEAN,
                       claims : {[use |-> "access", validSubject |-> TRUE, subject |-> "s",
                                  listed |-> FALSE, wellFormed |-> TRUE, groups |-> <<>>,
                                  client |-> "participant"]}]]

ASSUME ProductionKnowsTokensOnly ==
    \A options \in Handlers :
        Http!HandlerAccepted(options, "production") =>
            /\ \A request \in Requests :
                  Http!Authenticate(options, request) # Http!NoPrincipal
                      => request.header.form = "BEARER" /\ request.header.verifies
            /\ \A o \in ToSet(options.origins) : o.scheme = "http" => o.loopback

(* What is deployed offers no route that nobody can serve: whoever can draft *)
(* a decision of a group can have it negotiated and its conditions           *)
(* interpreted; the frame's architect is not deployed and no test session is.*)
Environments == [table : BOOLEAN, region : {TRUE}, pool : {TRUE}, originIsHttps : {TRUE},
                 participantClient : {"a"}, displayClient : {"a", "b"},
                 models : {"DISABLED", "BEDROCK"}, paid : BOOLEAN, loggingOff : BOOLEAN,
                 retentionReviewed : BOOLEAN, groups : BOOLEAN, groupTable : BOOLEAN,
                 emailKey : {TRUE}, domainIsOurs : BOOLEAN, members : 0..1]
Parts(env) == {p \in Http!Ports : Http!Composition(env)[p]}

ASSUME PartsGoTogether ==
    /\ \A env \in Environments : Http!ConfigAccepted(env) =>
          LET served == Http!Served(Parts(env))
          IN  /\ "createDecision" \in served => {"reason", "interpretOwner", "command"} \subseteq served
              /\ "reason" \in served <=> "interpretOwner" \in served
              /\ served \intersect {"architectDraft", "testSession"} = {}
              /\ "reason" \in served => env.paid /\ env.loggingOff /\ env.retentionReviewed
    /\ \E env \in Environments : Http!ConfigAccepted(env) /\ "createDecision" \in Http!Served(Parts(env))

(* Seats: n is the number of the next token, issued what was issued and what *)
(* it was for; o made the decision and sits in "so", m is to sit in "sm",    *)
(* while x has no seat.                                                      *)
Unseated ==
    [decision |-> [id |-> "r1", creator |-> "o", body |-> "b", roster |-> {"so", "sm"},
                   subject |-> [so |-> "o", sm |-> "m"], active |-> [so |-> TRUE, sm |-> FALSE],
                   invitation |-> [so |-> Http!NoInvitation, sm |-> Http!NoInvitation]],
     now |-> 0, issued |-> <<>>]
Visitors == {Http!ParticipantPrincipal(s) : s \in {"o", "m", "x"}}
            \union {Http!DisplayPrincipal("d", "r1"), Http!NoPrincipal}
Issuing(x) ==
    {LET d == Http!Issue(x.decision, p, seat, replace, Len(x.issued) + 1, x.now, 1)
     IN  IF d = x.decision THEN x
         ELSE [x EXCEPT !.decision = d, !.issued = Append(@, [seat |-> seat, at |-> x.now])] :
        p \in Visitors, seat \in {"so", "sm"}, replace \in BOOLEAN}
Redeeming(x) ==
    {[x EXCEPT !.decision = Http!Redeem(@, p, token, x.now)] : p \in Visitors, token \in 0..3}
Seatings ==
    FoldLeft(LAMBDA X, i : X \union {y \in UNION {Issuing(x) \union Redeeming(x)
                                                 \union {[x EXCEPT !.now = @ + 1]} : x \in X} :
                                      y.now <= 2 /\ Len(y.issued) <= 3},
             {Unseated}, [i \in 1..7 |-> i])

(* Only the person of a seat takes it, with the last token issued for it and *)
(* in time; the answer to a token sent again never changes, a taken seat is  *)
(* never invited again, and who has no seat reads nothing.                   *)
ASSUME SeatsAreTakenByTheirOwn ==
    \A x \in Seatings : LET d == x.decision IN
        /\ \A p \in Visitors, token \in 0..3 :
              LET after == Http!Redeem(d, p, token, x.now) IN
              /\ after.active["sm"] /\ ~d.active["sm"] =>
                    /\ p = Http!ParticipantPrincipal("m")
                    /\ token = Max({n \in DOMAIN x.issued : x.issued[n].seat = "sm"})
                    /\ x.issued[token].at = x.now
              /\ Http!RedeemAnswer(d, p, token, x.now) = "OK" =>
                    Http!RedeemAnswer(after, p, token, x.now + 1) = "OK" /\ after.active["sm"]
        /\ d.active["sm"] => \A p \in Visitors, replace \in BOOLEAN :
              Http!IssueAnswer(d, p, "sm", replace, x.now) # "OK"
        /\ \A p \in Visitors : Http!ReadViewer(d, p) \in {"so", "sm"} =>
              d.subject[Http!ReadViewer(d, p)] = p.subject
        /\ Http!ReadViewer(d, Http!ParticipantPrincipal("x")) = "NOT_FOUND"
        /\ \A p \in Visitors : Http!CreatedAgain(d, p, "b") = "OK" => p.subject = "o"
ASSUME SeatsCanBeTaken == \E x \in Seatings : x.decision.active["sm"] /\ Len(x.issued) = 2

---------------------------------------------------- \* Older group service
NoGroup == Groups!Empty.group

(* x: a record and the members at every version so far.  What a handler    *)
(* carries over an await is one of the versions it has seen.               *)
Reservations(x) ==
    LET g == x.state.group
    IN  IF g = NoGroup \/ g.draft = NoGroup \/ ~g.draft.created THEN {}
        ELSE {[version |-> g.draft.version, members |-> x.past[g.draft.version]]}

Answers(x) ==
    LET s == x.state
        who == {"o", "m"}
        V == 1..Len(x.past)
        R(v) == [version |-> v, members |-> x.past[v]]
    IN  UNION {
          {Groups!Register(s, p, [verified |-> TRUE, email |-> e]) : p \in who, e \in {"eo", "em"}},
          {Groups!Approve(s, p, t) : p \in who, t \in {"APPROVED", "REJECTED", "DISABLED"}},
          {Groups!Create(s, "o", "n"), Groups!LetExpire(s, "em")},
          {Groups!Invite(s, p, "em", TRUE) : p \in who},
          {Groups!Accept(s, p) : p \in Groups!Registered(s)},
          {Groups!Remove(s, p, q, v) : p \in who, q \in who, v \in V},
          {Groups!RemoveItem(s, p, k, v) : p \in who, k \in {"DRAFT", "DECISION"}, v \in V},
          {Groups!DeleteGroup(s, p, v) : p \in who, v \in V},
          {Groups!SaveDraft(s, p, R(v), "b", q, TRUE) : p \in who, v \in V, q \in BOOLEAN},
          {Groups!EditDraft(s, p, 1, FALSE) : p \in who},
          {Groups!Reserve(s, p, n, TRUE) : p \in who, n \in 1..2},
          {Groups!CreateDecision(s, p, r) : p \in who, r \in Reservations(x)},
          {Groups!ReviseRoster(s, p, R(v), R(w)) : p \in who, v \in V, w \in V}}

Outcomes(x) == {a.state : a \in Answers(x)}

After(x, s) ==
    [state |-> s,
     past |-> IF s.group # Groups!Empty.group /\ s.group.version > Len(x.past)
              THEN Append(x.past, s.group.members) ELSE x.past]

\* All that is reached within n steps in which the group changes three times.
Reached(n) ==
    FoldLeft(LAMBDA X, i :
                LET new == {y \in UNION {{After(x, s) : s \in Outcomes(x)} : x \in X.last} :
                               Len(y.past) <= 4}
                IN  [all |-> X.all \cup new, last |-> new \ X.all],
             LET start == {[state |-> Groups!Empty, past |-> <<>>]}
             IN  [all |-> start, last |-> start],
             [i \in 1..n |-> i])

Bound(s) == s.group # NoGroup /\ s.group.binding # NoGroup
Current(s) == Bound(s) /\ ~s.group.binding.deleted /\ s.group.binding.version = s.group.version

\* A reserved decision that was overtaken by a change of the group.
Orphan(s) == Bound(s) /\ s.decision = NoGroup /\ s.group.binding.version # s.group.version

(* A version stands for one set of members, what is removed stays removed, *)
(* and the one who made the group is always in it.                         *)
VersionsTellMembers(x, s) ==
    x.state.group # NoGroup =>
        LET g == x.state.group
            h == s.group
        IN  /\ h.version >= g.version
            /\ h.members # g.members => h.version > g.version
            /\ g.deleted => h.deleted /\ h.version = g.version
            /\ g.binding # NoGroup /\ g.binding.deleted => h.binding.deleted
            /\ "o" \in h.members

(* Somebody who was removed from the group never reads a decision made     *)
(* with them through the group's current binding, or one made without the  *)
(* people the group had when it was made.                                  *)
FormerMembersAreOut(s) ==
    Current(s) /\ s.decision # NoGroup =>
        /\ s.decision.members \subseteq s.group.members
        /\ \A p \in {"o", "m"} :
              Groups!AuthorizeDecision(s, p) = "OK" => p \in s.group.members

(* The decision that was reserved and lost the race is listed for good and *)
(* nothing but its removal takes it away: there is no second try.          *)
OrphansStay(x, s) == Orphan(x.state) => Orphan(s)

ASSUME OlderGroupsAreConsistent ==
    LET all == Reached(24).all
    IN  /\ \A x \in all : FormerMembersAreOut(x.state)
        /\ \A x \in all : \A s \in Outcomes(x) : VersionsTellMembers(x, s) /\ OrphansStay(x, s)
        /\ \E x \in all : Orphan(x.state)
=============================================================================
