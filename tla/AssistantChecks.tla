-------------------------- MODULE AssistantChecks --------------------------
(***************************************************************************)
(* Statements about the AI helpers, each checked by TLC over every case    *)
(* of a small instance.                                                    *)
(***************************************************************************)
EXTENDS Integers, Sequences, FiniteSets, TLC
LOCAL INSTANCE SequencesExt

Calls == INSTANCE ModelRuntime

Draft == INSTANCE DraftArchitect

Chat == INSTANCE OwnerAssistants WITH Retention <- 1, MaxHistory <- 2,
    Nobody <- "nobody", NoMessage <- <<>>

None == Calls!None

--------------------------------------------------- \* Calls of a provider
Callers == {"a", "b", "c"}
Bounds == {<<1, 1>>, <<1, 2>>, <<2, 2>>, <<2, 3>>}

JobStates(b) ==
    Calls!Closure({Calls!NoJobs(Callers)}, LAMBDA s : Calls!JobsFollowing(s, b[1], b[2]), 24)

(* Slots, queue and callers agree: no more calls than slots, callers wait  *)
(* for nothing while a slot is free, the queue holds who waits and was not *)
(* started, and nobody waits who was answered.                             *)
JobsAreConsistent(s, concurrency) ==
    LET held == {j \in Callers : s.step[j] = "HELD"}
    IN  /\ Cardinality(Calls!InProcess(s)) <= concurrency
        /\ s.waiting = {j \in Callers : s.step[j] # "NEW" /\ s.answer[j] = None}
        /\ ToSet(s.queue) = held /\ Len(s.queue) = Cardinality(held)
        /\ held \subseteq s.waiting
        /\ (~s.pump /\ Cardinality(Calls!InProcess(s)) < concurrency) => held = {}
        /\ ~s.enabled => s.waiting = {}

(* The provider is called for callers who still want it, an answer stays,  *)
(* and after stop() nobody gets a value.                                   *)
JobStepIsRight(s, t) ==
    \A j \in Callers :
        /\ s.step[j] # "CALL" /\ t.step[j] = "CALL" => j \in s.waiting /\ s.enabled
        /\ s.answer[j] # None => t.answer[j] = s.answer[j]
        /\ t.answer[j] = "VALUE" /\ s.answer[j] # "VALUE" => s.enabled /\ s.step[j] = "RECHECK"

ASSUME CallsAreBounded ==
    \A b \in Bounds : \A s \in JobStates(b) :
        /\ JobsAreConsistent(s, b[1])
        /\ \A t \in Calls!JobsFollowing(s, b[1], b[2]) : JobStepIsRight(s, t)
        /\ \A j \in Callers : j \notin ToSet(s.queue) => Calls!Process(s, j, b[1]) = s

(* A caller can be refused for lack of room while fewer wait than there is *)
(* room for, since a running job is counted twice; and a call that was     *)
(* given up keeps those who wait from starting.                            *)
ASSUME SlotsAreHeldByTheGone ==
    LET S == JobStates(<<1, 2>>)
    IN  /\ \E s \in S : /\ s.enabled /\ Cardinality(s.waiting) < 2
                        /\ \E j \in Callers : Calls!RunRefusal(s, j, 2, TRUE) = "CAPACITY"
        /\ \E s \in S : /\ Calls!InProcess(s) # {} /\ Calls!InProcess(s) \cap s.waiting = {}
                        /\ s.queue # <<>>

(* What is stored after stop() was asked for was on its way before; once   *)
(* stop() has answered nothing is stored, however late it began.           *)
ASSUME StopIsFinal ==
    LET S == Calls!Closure({Calls!NoWrites({1, 2, 3})}, LAMBDA s : Calls!RuntimeFollowing(s), 16)
        Stores(s, t, w) == s.write[w] # "STORED" /\ t.write[w] = "STORED"
    IN  /\ \A s \in S : \A t \in Calls!RuntimeFollowing(s) : \A w \in {1, 2, 3} :
              Stores(s, t, w) => s.stop # "STOPPED" /\ s.write[w] = "CHECKED"
        /\ \E s \in S : \E t \in Calls!RuntimeFollowing(s) : \E w \in {1, 2, 3} :
              Stores(s, t, w) /\ s.stop = "STOPPING"

(* The last attempt of a key is the one that counts, until it ends, and it *)
(* always gives its place back; attempts that were overtaken take none.    *)
ASSUME LastAttemptCounts ==
    LET S == Calls!Closure({Calls!NoAttempts({"k", "l"})},
                           LAMBDA s : Calls!AttemptsFollowing(s, 1, 3), 8)
    IN  /\ \A s \in S :
              /\ \A k \in Calls!ActiveKeys(s) :
                    LET mine == {g \in DOMAIN s.attempts : s.attempts[g].key = k}
                    IN  /\ s.active[k] \in mine /\ \A g \in mine : g <= s.active[k]
                        /\ s.attempts[s.active[k]].end = None
              /\ \A g, h \in DOMAIN s.attempts :
                    g < h /\ s.attempts[g].key = s.attempts[h].key /\ s.attempts[h].end = "DRAFT"
                       => \A t \in Calls!AttemptsFollowing(s, 1, 3) :
                             s.attempts[g].end = None => t.attempts[g].end # "DRAFT"
        /\ \E s \in S : Cardinality({g \in DOMAIN s.attempts : s.attempts[g].end = None}) > 1

(* Whatever a model answers, the values of a proposal come from the        *)
(* catalog and a question's adjustment is ours.                            *)
ASSUME ModelsOnlyChoose ==
    LET catalog == <<<<"red">>, <<"blue">>>>
        Intent == [flat : {TRUE}, owner : {"o"}, constraint : {"c"}, variable : {"v"},
                   options : {{"x"}}]
    IN  \A index \in 0..3, intents \in UNION {[1..n -> Intent] : n \in 0..2} :
          LET r == Calls!NormalizeNegotiation([candidateIndex |-> index, dependencies |-> {},
                                               questionIntents |-> intents], catalog)
          IN  /\ r.values \in ToSet(catalog) \cup {<<>>}
              /\ \A i, j \in DOMAIN intents :
                    /\ r.questionIntents[i].adjustment.visibility = "TRUSTED_BACKEND"
                    /\ i # j => r.questionIntents[i].adjustment.id # r.questionIntents[j].adjustment.id

------------------------------------------------------ \* From idea to frame
Texts == {"", "p", "q"}
TopicKinds == {"CHOICE", "DATE"}
PlanOption(t) == [text |-> t, date |-> t = "p"]
Topics == [label : {"", "food", "day"}, kind : TopicKinds,
           options : UNION {[1..n -> {PlanOption(t) : t \in Texts}] : n \in 0..2}]
Plans(n) == UNION {[1..k -> Topics] : k \in 0..n}

(* A plan that leaves no question is a frame with every topic as a         *)
(* variable and exactly the combinations it counted, few enough to list.   *)
PlanIsComplete(plan) ==
    LET c == Draft!CompileChoicePlan(plan)
        catalog == Draft!CandidateCatalog(c.variables, c.rules, {})
    IN  c.questions = {} =>
            /\ Len(c.variables) = Len(plan) /\ plan # <<>>
            /\ catalog.question = None
            /\ Cardinality(catalog.candidates) = c.combinations

ASSUME PlansWithoutQuestionsAreComplete == \A plan \in Plans(2) : PlanIsComplete(plan)

Wide(n) == [label |-> "w", kind |-> "CHOICE",
            options |-> [i \in 1..n |-> [text |-> ToString(i), date |-> FALSE]]]

\* Sixty-four combinations are listed, sixty-five are not.
ASSUME PlansAreBounded ==
    \A a, b \in 1..16 :
        LET plan == <<Wide(a), Wide(b)>>
            c == Draft!CompileChoicePlan(plan)
        IN  /\ c.questions = {} <=> a * b <= 64
            /\ a * b > 64 => Draft!CandidateCatalog(c.variables, c.rules, {}).question = "COMBINATIONS"
            /\ a * b \in {15, 16, 63, 64} => PlanIsComplete(plan)

(* What a person wrote in a plan is not changed by a suggestion: the       *)
(* labels, the kind of a topic that has one, the options that say          *)
(* anything.  But a topic without a label can be given one that is there.  *)
ASSUME PlansKeepAnswers ==
    LET merged(p, s) == Draft!MergePlan(p, s)
        Few == {t \in Topics : t.options \in {<<>>, <<PlanOption("")>>, <<PlanOption("p")>>}}
        Short == UNION {[1..k -> Few] : k \in 1..2}
        Named == UNION {[1..k -> {t \in Few : t.kind = "CHOICE" /\ Len(t.options) = 1}] : k \in 1..2}
    IN  /\ \A p \in Short, s \in Named :
              /\ Len(merged(p, s)) = Len(p)
              /\ \A i \in DOMAIN p :
                    LET m == merged(p, s)[i]
                    IN  /\ p[i].label # "" => m.label = p[i].label /\ m.kind = p[i].kind
                        /\ (\E o \in DOMAIN p[i].options : p[i].options[o].text # "")
                              => m.options = p[i].options
        /\ \E p \in Short, s \in Named :
              /\ Len(p) = 2 /\ p[1].label # "" /\ p[1].label = merged(p, s)[2].label /\ p[2].label = ""

Rule(o, v) == [operator |-> o, value |-> v]
ScalarRules == {Rule(o, v) : o \in {"GT", "GTE", "LT", "LTE", "FROM", "ABOVE", "TO", "BELOW", "NE"},
                             v \in {-1, 0, 2}}
Follows(x, r) ==
    CASE r.operator \in {"GT", "ABOVE"} -> x > r.value
      [] r.operator \in {"GTE", "FROM"} -> x >= r.value
      [] r.operator \in {"LT", "BELOW"} -> x < r.value
      [] r.operator \in {"LTE", "TO"} -> x <= r.value
      [] r.operator = "NE" -> x # r.value
      [] OTHER -> x \in r.values

(* Every value that the rules of a variable leave is offered, and no other *)
(* than by a rule that excludes single values or a second list.            *)
ASSUME NoAllowedValueIsMissing ==
    LET lists == {[operator |-> "IN", values |-> {0, 2}], [operator |-> "EQ", values |-> {2}]}
        plain == UNION {[1..n -> ScalarRules] : n \in 0..2}
        listed == {<<l, r>> : l \in lists, r \in ScalarRules \cup lists}
                  \cup {<<r, l>> : l \in lists, r \in ScalarRules}
        Variable(t) == [type |-> t, options |-> {}, required |-> TRUE]
        Natural(t, x) == /\ t \in {"PERCENTAGE", "DURATION"} => x >= 0
                         /\ t = "PERCENTAGE" => x <= 10000
        Left(t, rules) == {x \in -10..10 : Natural(t, x) /\ \A i \in DOMAIN rules : Follows(x, rules[i])}
    IN  \A t \in {"NUMBER", "DURATION"}, rules \in plain \cup listed :
          Draft!Enumerable(Variable(t), rules) =>
              /\ Left(t, rules) \subseteq Draft!PublicChoiceOptions(Variable(t), rules)
              /\ rules \in plain /\ (\A i \in DOMAIN rules : rules[i].operator # "NE")
                    => Draft!PublicChoiceOptions(Variable(t), rules) = Left(t, rules)

(* Nothing is asked of the organizer about choices that are bounded one by *)
(* one, though together they may be too many to compare.                   *)
ASSUME BoundedChoicesMayBeTooMany ==
    LET sets == [i \in 1..2 |-> [type |-> "ENUM_SET", options |-> 1..6, required |-> TRUE]]
        rules == [i \in 1..2 |-> <<>>]
        asked == <<[purpose |-> "PUBLIC_SCOPE", about |-> 0], [purpose |-> "PUBLIC_SCOPE", about |-> 1]>>
    IN  /\ Draft!PublicQuestions(asked, sets, rules) = <<>>
        /\ \A i \in 1..2 : Draft!ChoiceCount(sets[i], rules[i]) = 64

(* However a model names its options: all of them get ids of their own, a  *)
(* name that was good stays, and what it says by a name of one option      *)
(* means that option afterwards; a name of two means nothing.              *)
Ids == {[kind |-> "GOOD", name |-> "g"], [kind |-> "BAD", name |-> "b"], [kind |-> "BAD", name |-> "c"],
        [kind |-> "NO", name |-> ""], Draft!Generated(1, 1, 0), Draft!Generated(1, 2, 0),
        Draft!Generated(1, 2, 1)}

ASSUME OptionsKeepTheirMeaning ==
    \A given \in UNION {[1..n -> Ids] : n \in 1..3} :
        LET options == [o \in DOMAIN given |-> [id |-> given[o]]]
            after == Draft!NormalizedOptions(1, options)
            good == {o \in DOMAIN given : Draft!IsId(given[o])}
            Says(id) == Draft!RewriteValue([typed |-> TRUE, option |-> id], 1, options).option
        IN  /\ \A o \in DOMAIN given : Draft!IsId(after[o].id) /\ (o \in good => after[o].id = given[o])
            /\ \A o, p \in DOMAIN given : o # p /\ after[o].id = after[p].id => {o, p} \subseteq good
            /\ \A o \in DOMAIN given :
                  given[o].kind = "BAD" =>
                      IF \E p \in DOMAIN given \ {o} : given[p] = given[o]
                      THEN ~Draft!IsId(Says(given[o])) ELSE Says(given[o]) = after[o].id

(* In text the same name means nothing: it is not read as an option, and   *)
(* what is not read is not replaced.                                       *)
ASSUME TextKeepsTheOldName ==
    LET bad == [kind |-> "BAD", name |-> "b"]
        said == [typed |-> FALSE, option |-> bad]
    IN  /\ Draft!Remap(1, <<[id |-> bad]>>) # <<>>
        /\ Draft!RewriteValue(said, 1, <<[id |-> bad]>>) = said

\* Decimal text is exact: what is stored is the number that was written.
ASSUME DecimalsAreExact ==
    LET Digit == {0, 7}
        Parts(m, n) == UNION {[1..k -> Digit] : k \in m..n}
    IN  \A whole \in Parts(1, 2), fraction \in Parts(0, 3), places \in 0..3 :
          LET amount == Draft!Scaled(FALSE, whole, fraction, places, 10000)
              Exact == 1000 * Draft!Digits(whole)
                       + Draft!Digits(fraction \o [i \in 1..(3 - Len(fraction)) |-> 0])
          IN  IF Len(fraction) > places \/ Exact * 10^places > 10000 * 1000
              THEN amount = <<>> ELSE amount[1] * 1000 = Exact * 10^places

(* Every offer of a scenario fits the frame and the totals it is given.    *)
ASSUME OffersAddUp ==
    /\ \A o \in Draft!ScenarioCandidates("CHRISTMAS") : o.duration = (o.last - o.first) * 86400
    /\ \A o \in Draft!ScenarioCandidates("SHARED_PURCHASE") : Draft!Provisioned("SHARED_PURCHASE", o)

(* A scenario is created once for a key, whoever asks again and however it *)
(* failed; who asks for something else under it gets a conflict.           *)
ASSUME ScenariosAreCreatedOnce ==
    LET Request(b) == [key |-> "k", body |-> b, valid |-> TRUE, kind |-> "CHRISTMAS"]
        Failures == {None, "READ", "STORE", "READBACK"}
        none == [i \in {} |-> "x"]
        start == {none} \cup {[i \in {<<"s", "k">>} |-> b] : b \in {"x", "y"}}
    IN  \A c \in start, b \in {"x", "y"}, f, g \in Failures :
          LET r == Draft!ReadScenario(c, "s", "maya", Request(b), f)
              s == Draft!StoreScenario(c, "s", Request(b), g)
              again == Draft!ReadScenario(s.created, "s", "maya", Request(b), None)
          IN  /\ r # None /\ f # "READ" => c # none /\ (r = "OK" <=> c = [i \in {<<"s", "k">>} |-> b])
              /\ \A i \in DOMAIN c : s.created[i] = c[i]
              /\ s.code = "OK" => again = "OK"
              /\ again = None => s.created = none

------------------------------------------------------- \* One person's help
(* The names of a prepared draft are its own and all different, and what a *)
(* model could not turn into a rule is in it.                              *)
ASSUME NothingIsDroppedFromADraft ==
    LET snapshot == [owner |-> "a", draftVersion |-> 0, ownerVersion |-> 3, context |-> "c"]
        Condition == [kind : {"HARD", "PREFERENCE"}, rule : {"model-rule"}]
        Lists(S) == UNION {[1..n -> S] : n \in 0..2}
    IN  \A c \in Lists(Condition), u \in Lists({"x"}) :
          LET d == Chat!PrepareDraft(snapshot, "d", [constraints |-> c, unsupported |-> u])
              names == [i \in DOMAIN c |-> d.constraints[i].id] \o d.unsupported
          IN  /\ Len(d.constraints) = Len(c) /\ Len(d.unsupported) = Len(u)
              /\ \A i, j \in DOMAIN names : i # j => names[i] # names[j]

People == {"a", "b"}
Requests == {<<"q">>, <<"r">>}
Posts == [id : Requests, text : {"t"}, ask : BOOLEAN, consent : {TRUE}, share : {<<>>, <<"q">>}]
Scopes == {"group", "private"}

\* expected: the version of the model's context.  reply() looks for the
\* question a second time before it commits.
ChatFollowing(s) ==
    {Chat!Post(s, who, scope, post, until).state :
        who \in People, scope \in Scopes, post \in Posts, until \in {1, 9}}
    \cup {Chat!Reply(s, ask[1], ask[2], ask[3], "r", expected, s.version).state :
            ask \in {q \in People \X Scopes \X Requests : Chat!MayContext(s, q[1], q[2], q[3])},
            expected \in {1, 2}}
    \cup {Chat!Read(s, who, scope).state : who \in People, scope \in Scopes}
    \cup {[s EXCEPT !.version = 2]}
    \cup (IF s.clock < 1 THEN {[s EXCEPT !.clock = @ + 1]} ELSE {})

(* Every message keeps its contract and is over when its author's time is; *)
(* a question is answered once, beside it and for no longer than it lasts. *)
MessagesAreOrdered(s) ==
    LET M == s.messages
    IN  /\ Chat!FitsHistory(M) /\ \A i \in DOMAIN M : Chat!IsMessage(M[i])
        /\ \A i, j \in DOMAIN M :
              M[i].replyTo # <<>> /\ M[j].replyTo = M[i].replyTo => i = j
        /\ \A i \in DOMAIN M : \A j \in DOMAIN M :
              M[j].replyTo = M[i].id =>
                  /\ i < j /\ M[i].ask
                  /\ M[j].scope = M[i].scope /\ M[j].owner = M[i].owner
                  /\ M[j].expires = M[i].expires

(* Of a conversation a model gets the question, the sender's own messages  *)
(* before it and the answers to those: of one scope, nobody else's.        *)
PromptIsOwn(s, who, scope, r) ==
    Chat!MayContext(s, who, scope, r) =>
        LET c == Chat!Context(s, who, scope, r).messages
        IN  /\ Last(c).id = r
            /\ \A i \in DOMAIN c :
                  /\ c[i].scope = scope
                  /\ c[i].author = who \/ \E j \in DOMAIN s.messages :
                        s.messages[j].id = c[i].replyTo /\ s.messages[j].author = who

\* A message that is sent again is not stored again.
NothingIsStoredTwice(s, t) ==
    \A i \in DOMAIN t.messages : \A j \in DOMAIN s.messages :
        s.messages[j].id = t.messages[i].id =>
            s.messages[j] = t.messages[i] \/ s.messages[j].expires <= s.clock

(* A question can be stored, asked and paid for, and there is no room left *)
(* for the answer; and one person's private messages leave no room for     *)
(* another's.                                                              *)
RoomIsShared(Chats) ==
    /\ \E s \in Chats : \E r \in Requests :
          /\ Chat!MayContext(s, "a", "private", r)
          /\ Chat!Reply(s, "a", "private", r, "r", s.version, s.version).code = "CAPACITY_EXCEEDED"
    /\ \E s \in Chats : \E post \in Posts :
          /\ \A i \in DOMAIN s.messages : s.messages[i].owner = "a"
          /\ Chat!Post(s, "b", "group", post, 9).code = "CAPACITY_EXCEEDED"

ASSUME ChatsAreConsistent ==
    LET Chats == Calls!Closure({Chat!NewChat(People)}, LAMBDA s : ChatFollowing(s), 8)
    IN  /\ RoomIsShared(Chats)
        /\ \A s \in Chats :
              /\ MessagesAreOrdered(s)
              /\ \A who \in People, scope \in Scopes, r \in Requests : PromptIsOwn(s, who, scope, r)
              /\ \A t \in ChatFollowing(s) : NothingIsStoredTwice(s, t)

(* What a model writes is never shown as the state of the decision, and    *)
(* the options it names are options.                                       *)
ASSUME FactsAreOurs ==
    LET Summary == {Chat!SharedDecisionSummary([status |-> status, proposal |-> proposal, people |-> People,
                        required |-> required, approved |-> approved, progress |-> progress]) :
                        status \in {"READY", "REASONING", "AGREED", "CLOSED"}, proposal \in BOOLEAN,
                        required \in SUBSET People, approved \in SUBSET People,
                        progress \in UNION {[P -> {"YES", "NO"}] : P \in SUBSET People}}
        Raw == [focus : Chat!Focus, answer : {"", "said"},
                options : UNION {[1..n -> {1, 4}] : n \in 0..4}]
    IN  /\ \A raw \in Raw, summary \in Summary :
              LET plan == Chat!DecodeAssistantChatPlan(raw)
                  out == Chat!RenderChatPlan(plan[1], summary, <<"x", "y">>)
              IN  plan # <<>> /\ out.code = "OK" =>
                      /\ out.facts # <<>> => out.prose = ""
                      /\ out.options \subseteq {1, 2}
                      /\ out.facts # <<>> =>
                            out.facts[1].approved + out.facts[1].remaining = summary.required
        /\ \A summary \in Summary :
              Chat!ProgressLine(summary).line = "EVERYONE" <=>
                  \A p \in People : summary.participants[p].answered = "YES"
=============================================================================
