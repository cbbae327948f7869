----------------------------- MODULE KernelChecks -----------------------------
(***************************************************************************)
(* ValidationKernel against definitions of what it should answer, over     *)
(* every rule, partial assignment and candidate of a small world: a shared *)
(* choice, two amounts in tenths of a kilogram, and two Booleans of Ann's. *)
(* TLC evaluates the assumptions before a run that extends this module.    *)
(***************************************************************************)
EXTENDS ValidationKernel, SequencesExt

Plain(type, data) == [type |-> type, unit |-> "", scale |-> 0, data |-> data]
Tenths(n) == [type |-> "NUMBER", unit |-> "kg", scale |-> 1, data |-> n]
Option(o) == Plain("ENUM", o)

Variable(type, options, owner) ==
    [type |-> type, options |-> options, required |-> type = "ENUM", owner |-> owner,
     unit |-> IF type = "NUMBER" THEN "kg" ELSE "", scale |-> IF type = "NUMBER" THEN 1 ELSE 0,
     visibility |-> IF owner = NoOwner THEN "PUBLIC" ELSE "OWNER_PRIVATE"]
World == [choice |-> Variable("ENUM", {"x", "y", "z"}, NoOwner), load |-> Variable("NUMBER", {}, NoOwner),
          spare |-> Variable("NUMBER", {}, "ann"), early |-> Variable("BOOLEAN", {}, "ann"),
          late |-> Variable("BOOLEAN", {}, "ann")]

Worlds == {[choice |-> Option(o), load |-> Tenths(l), spare |-> Tenths(s),
            early |-> Plain("BOOLEAN", e), late |-> Plain("BOOLEAN", t)] :
              o \in {"x", "y"}, l \in 0..2, s \in 0..2, e \in BOOLEAN, t \in BOOLEAN}

-----------------------------------------------------------------------------
(* Rules: their meaning once everything is known *)

Rule(operator) == [id |-> "rule", visibility |-> "TRUSTED_BACKEND", operator |-> operator]
CompareRules ==
    {Rule("COMPARE") @@ [variable |-> "load", comparison |-> c, value |-> Tenths(1)] :
        c \in {"EQ", "NE", "LT", "LTE", "GT", "GTE"}}
RangeRules ==
    {Rule("RANGE") @@ [variable |-> "spare", minimum |-> Tenths(n), maximum |-> Tenths(1),
                       includeMinimum |-> least, includeMaximum |-> most] :
        n \in {0, 1, 2}, least \in BOOLEAN, most \in BOOLEAN}
ListRules ==
    {Rule("IN") @@ [variable |-> "choice", values |-> list] :
        list \in {<<Option("x")>>, <<Option("x"), Option("z")>>, <<Option("x"), Option("x")>>,
                  <<Option("none")>>}}
ManyRules ==
    {Rule("SUM_EQUALS") @@ [variables |-> <<"load", "spare">>, target |-> Tenths(2)],
     Rule("SUM_EQUALS") @@ [variables |-> <<"load", "load">>, target |-> Tenths(2)],
     Rule("ALL_DIFFERENT") @@ [variables |-> <<"load", "spare">>],
     Rule("ALL_DIFFERENT") @@ [variables |-> <<"early", "late">>],
     Rule("ALL_DIFFERENT") @@ [variables |-> <<"early", "load">>],
     Rule("MUTUALLY_EXCLUSIVE") @@ [variables |-> <<"early", "late">>, maximum |-> 0],
     Rule("MUTUALLY_EXCLUSIVE") @@ [variables |-> <<"early", "late">>, maximum |-> 1],
     Rule("MUTUALLY_EXCLUSIVE") @@ [variables |-> <<"early", "late">>, maximum |-> 2],
     Rule("IMPLIES") @@ [antecedent |-> [variable |-> "early", operator |-> "EQ", value |-> Plain("BOOLEAN", TRUE)],
                         consequent |-> [variable |-> "choice", operator |-> "NE", value |-> Option("x")]]}
Rules == CompareRules \union RangeRules \union ListRules \union ManyRules
ValidRules == {rule \in Rules : RuleIsShaped(rule) /\ RuleIsValid(rule, World)}

\* what a rule says of values that are all known
Means(rule, v) ==
    LET n(id) == v[id].data IN
    CASE rule.operator = "COMPARE" ->
            n("load") \in (CASE rule.comparison = "EQ" -> {1} [] rule.comparison = "NE" -> {0, 2}
                             [] rule.comparison = "LT" -> {0} [] rule.comparison = "LTE" -> {0, 1}
                             [] rule.comparison = "GT" -> {2} [] rule.comparison = "GTE" -> {1, 2})
      [] rule.operator = "RANGE" ->
            n("spare") \in (rule.minimum.data..1) \ ((IF rule.includeMinimum THEN {} ELSE {rule.minimum.data})
                                                  \union (IF rule.includeMaximum THEN {} ELSE {1}))
      [] rule.operator = "IN" -> v.choice \in Range(rule.values)
      [] rule.operator = "SUM_EQUALS" -> n("load") + n("spare") = 2
      [] rule.operator = "ALL_DIFFERENT" -> IsInjective([k \in DOMAIN rule.variables |-> v[rule.variables[k]]])
      [] rule.operator = "MUTUALLY_EXCLUSIVE" ->
            Cardinality({id \in Range(rule.variables) : n(id)}) <= rule.maximum
      [] rule.operator = "IMPLIES" -> n("early") => n("choice") # "x"

\* What the kernel says of a rule while values are missing is true whatever they
\* turn out to be, and once nothing is missing it always says so (evaluate).
ASSUME EvaluationIsSound ==
    \A rule \in ValidRules, v \in Worlds :
        /\ Evaluate(rule, v) = Truth(Means(rule, v))
        /\ \A known \in SUBSET DOMAIN World :
              LET early == Evaluate(rule, Restrict(v, known)) IN
              /\ early # "UNKNOWN" => early = Truth(Means(rule, v))
              /\ RuleVariables(rule) \subseteq known => early # "UNKNOWN"

\* What an owner is allowed to save is what the kernel accepts of them later:
\* neither refuses a rule the other one lets pass (ownerRulesValid, validateRule).
ASSUME SavedRulesAreAccepted ==
    \A rule \in Rules \union {Rule("IN") @@ [variable |-> "gone", values |-> <<Option("x")>>]},
       owner \in {"ann", "bob"} :
        OwnerRuleIsValid(rule, owner, World)
            <=> RuleIsValid(rule, World) /\ OwnerCanReadRule(rule, owner, World)

\* Whatever frame is accepted can be shown: what publicFrame leaves of it still
\* is a public frame, no rule of which names a variable it has dropped.
ASSUME AcceptedFramesCanBeShown ==
    \A rule \in Rules, v \in DOMAIN World, visibility \in {"PUBLIC", "CONSENT_REQUIRED"} :
        LET frame == [participants |-> {"ann", "bob"}, required |-> {"ann"},
                      rules |-> {rule, [rule EXCEPT !.id = "shown", !.visibility = "PUBLIC"]},
                      variables |-> [World EXCEPT ![v].visibility = visibility,
                                                  ![v].owner = IF visibility = "PUBLIC" THEN NoOwner ELSE @]]
        IN  FrameIsValid(frame) => PublicFrameIsValid(PublicFrame(frame))

-----------------------------------------------------------------------------
(* Candidates *)

Definition(rules) ==
    [context |-> 1, participants |-> {"ann", "bob"}, required |-> {"ann", "bob"},
     variables |-> World, rules |-> rules]
Limit == Rule("COMPARE") @@ [variable |-> "load", comparison |-> "LTE", value |-> Tenths(2)]
In(options) == Rule("IN") @@ [variable |-> "choice", values |-> SetToSeq({Option(o) : o \in options})]

Constraint(owner, name, kind, rule) ==
    [owner |-> owner, constraint |-> name, kind |-> kind, version |-> 1,
     rule |-> [rule EXCEPT !.id = owner],
     context |-> 1, status |-> "ACTIVE"]
Hard == Constraint("ann", "c1", "HARD", In({"x", "y"}))
Negotiable(options) == Constraint("bob", "c1", "NEGOTIABLE", In(options))

Permission(name, options, expires) ==
    [permission |-> name, owner |-> "bob", constraint |-> "c1", constraintVersion |-> 1,
     version |-> 1, context |-> 1, status |-> "ACTIVE", expires |-> expires,
     adjustment |-> In(options)]
Permissions == {Permission("g1", {"y"}, 9), Permission("g2", {"x", "y"}, 9),
                Permission("g3", {"y"}, 5), Permission("g4", {"z"}, 9)}
Dependency(permission) ==
    [permission |-> permission.permission, version |-> 1, kind |-> "NEGOTIATION",
     expires |-> permission.expires]

Input(values, rules, constraints, granted, dependencies, unresolved) ==
    LET candidate == [context |-> 1, proposal |-> "p1", version |-> 1, values |-> values,
                      dependencies |-> dependencies, created |-> 5]
        facts == PublicFacts(Definition(rules), candidate)
    IN  [definition |-> Definition(rules), candidate |-> candidate,
         public |-> [proposal |-> "p1", facts |-> facts, hash |-> facts, created |-> 5],
         constraints |-> constraints, unresolved |-> unresolved, ready |-> {"ann", "bob"},
         confirmations |-> {[participant |-> p, context |-> 1, at |-> 1] : p \in {"ann", "bob"}},
         negotiation |-> granted, disclosures |-> {}, now |-> 5]

Inputs ==
    {Input(values, {Limit}, <<Hard, Negotiable(accepted)>>, granted,
           {Dependency(permission) : permission \in listed}, {}) :
        values \in {[choice |-> Option("x"), load |-> Tenths(1)], [choice |-> Option("y"), load |-> Tenths(2)],
                    [choice |-> Option("z"), load |-> Tenths(1)], [choice |-> Option("y")]},
        accepted \in {{"x"}, {"x", "y"}},
        granted \in UNION {SetToSeqs(S) : S \in {T \in SUBSET Permissions : Cardinality(T) <= 2}},
        listed \in SUBSET Permissions}

\* what everybody has agreed to: nothing required is open or unsaid, every rule
\* holds, and whoever gives way has allowed exactly this, and was needed
AgreedTo(input) ==
    LET definition == input.definition
        values == input.candidate.values
        active == {input.constraints[k] : k \in ActiveConstraints(input)}
        Breaks(c) == Evaluate(c.rule, values) # "TRUE"
        Allows(permission, c) ==
            /\ permission.owner = c.owner /\ permission.constraint = c.constraint
            /\ permission.expires > input.now
            /\ Evaluate(permission.adjustment, values) = "TRUE"
            /\ Dependency(permission) \in input.candidate.dependencies
    IN  /\ definition.required \subseteq input.ready /\ input.unresolved = {}
        /\ \A rule \in definition.rules : Evaluate(rule, values) = "TRUE"
        /\ \A c \in active : Breaks(c) =>
              c.kind = "NEGOTIABLE" /\ \E g \in Range(input.negotiation) : Allows(g, c)
        /\ \A d \in input.candidate.dependencies :
              \E c \in active : Breaks(c) /\ \E g \in Range(input.negotiation) :
                 /\ Dependency(g) = d /\ Allows(g, c)
                 /\ \A h \in Range(input.negotiation) : Allows(h, c) => h = g

\* VALID is what everybody has agreed to, and the order in which constraints and
\* permissions are kept decides nothing (run).
ASSUME ValidMeansAgreed ==
    \A input \in Inputs : (EvaluateCandidate(input) = "VALID") <=> AgreedTo(input)
ASSUME OrderDecidesNothing ==
    \A input \in Inputs :
        EvaluateCandidate([input EXCEPT !.negotiation = Reverse(@), !.constraints = Reverse(@)])
            = EvaluateCandidate(input)

\* What is stored with a VALID candidate can be read again, and the candidate
\* answers every question the frame asks; the result itself is no such record
\* where an owner's rule failed that somebody might have allowed.
ASSUME ResultsCanBeStored ==
    /\ \A input \in Inputs : LET result == KernelResult(input) IN
          result.status = "VALID" =>
              /\ EvaluationIsShaped(StoredEvaluation(result))
              /\ CandidateFitsDecision(input.definition, input.candidate)
              /\ Ids(input.definition.rules) \subseteq result.checked
              /\ result.failed \union result.unknown = {}
    /\ \E input \in Inputs : LET result == KernelResult(input) IN
          result.status = "NEEDS_PERMISSION" /\ ~(result.failed \subseteq result.checked)

\* A question that may be asked never repeats what the owner accepts anyway.
\* A candidate the preview finds covered by questions loses what stands in its
\* way one question after the other: each is found to help before it is put, and
\* with all of them allowed the candidate is valid (previewReasoningQuestions,
\* validatePendingNegotiationAdjustment).
ASSUME QuestionsHelp ==
    \A accepted \in {{"x"}, {"x", "z"}}, asked \in (SUBSET {"x", "y", "z"}) \ {{}}, o \in {"x", "y", "z"} :
        LET bob == Negotiable(accepted)
            intent == [owner |-> "bob", constraint |-> "c1", version |-> 1, adjustment |-> In(asked)]
            Judged(granted) ==
                Input([choice |-> Option(o), load |-> Tenths(1)], {Limit}, <<bob>>, granted,
                      {Dependency(granted[k]) : k \in DOMAIN granted}, {})
            added == AddedOptions(bob, In(asked), World)
        IN  /\ added = asked \ accepted
            /\ QuestionsCover(Judged(<<>>), {intent}) <=> o \in added
            /\ QuestionsCover(Judged(<<>>), {intent}) <=> QuestionHelps(Judged(<<>>), bob, In(asked), 9)
            /\ o \in added => /\ EvaluateCandidate(Judged(<<>>)) = "NEEDS_PERMISSION"
                               /\ EvaluateCandidate(Judged(<<Permission("g1", added, 9)>>)) = "VALID"
            /\ ~QuestionHelps(Judged(<<>>), bob, In(asked), 5)

\* More diagnostics than a result holds ask for clarification, however harmless
\* each of them is (add).
ASSUME DiagnosticsOverflow ==
    LET Grant(n) == Permission(<<"g", n>>, {"z"}, 9)
        Flooded(n) == Input([choice |-> Option("y"), load |-> Tenths(1)], {Limit},
                            <<Negotiable({"x"})>>, [k \in 1..n |-> Grant(k)],
                            {Dependency(Grant(k)) : k \in 1..n}, {})
    IN  /\ EvaluateCandidate(Flooded(31)) = "NEEDS_PERMISSION"
        /\ EvaluateCandidate(Flooded(32)) = "NEEDS_CLARIFICATION"

-----------------------------------------------------------------------------
(* One question, one list of facts *)

\* the ways to ask for the same options
Spellings(options) ==
    {In(options), [In(options) EXCEPT !.values = Reverse(@), !.id = "other"],
     [In(options) EXCEPT !.values = @ \o @]} \union
    {Rule("COMPARE") @@ [variable |-> "choice", comparison |-> "EQ", value |-> Option(o)] :
        o \in {p \in options : options = {p}}}
Orders ==
    {Rule("ALL_DIFFERENT") @@ [variables |-> list] : list \in SetToSeqs({"load", "spare", "early"})}
    \union {Rule("MUTUALLY_EXCLUSIVE") @@ [variables |-> list, maximum |-> n] :
        list \in SetToSeqs({"early", "late"}), n \in 0..1}

\* A question that was refused is known again however it is put, and questions
\* that share an identity never contradict each other; one more option makes it
\* another question (serializeNegotiationRequestIdentity).
ASSUME RefusalsAreRecognised ==
    /\ \A some, other \in (SUBSET {"x", "y", "z"}) \ {{}} :
          \A asked \in Spellings(some), again \in Spellings(other) :
              AdjustmentIdentity(asked) = AdjustmentIdentity(again) <=> some = other
    /\ \A one, other \in Rules \union Orders :
          RuleIsShaped(one) /\ RuleIsShaped(other) /\ AdjustmentIdentity(one) = AdjustmentIdentity(other) =>
             \A v \in Worlds : \A known \in {DOMAIN World, DOMAIN World \ {"load"}} :
                LET values == Restrict(v, known) IN
                {Evaluate(one, values), Evaluate(other, values)} # {"TRUE", "FALSE"}

\* Two lists of facts are approved as one exactly when they say the same of the
\* same things, in whatever order (serializeDecisionProposal, hashDecisionProposal).
Assigned == {[variable |-> "v", value |-> Plain("ENUM_SET", list)] :
                list \in {<<"x">>, <<"x", "y">>, <<"y", "x">>, <<"x", "x">>}}
            \union {[variable |-> "w", value |-> Option(o)] : o \in {"x", "y"}}
Facts == {[context |-> 1, version |-> 1, required |-> required, values |-> values] :
             required \in {<<"ann", "bob">>, <<"bob", "ann">>, <<"bob">>},
             values \in UNION {[1..n -> Assigned] : n \in 0..2}}
ASSUME OrderIsNotApproved ==
    LET Content(value) == IF value.type = "ENUM_SET" THEN Range(value.data) ELSE {<<value.data>>}
        Says(wire) == {<<a.variable, Content(a.value)>> : a \in Range(wire.values)}
        shaped == {wire \in Facts : FactsAreShaped(wire)}
    IN  \A one, other \in shaped :
            SerializeDecisionProposal(one) = SerializeDecisionProposal(other)
                <=> Range(one.required) = Range(other.required) /\ Says(one) = Says(other)

-----------------------------------------------------------------------------
(* What a model may pick *)

Entry(v, value) == [variable |-> v, value |-> value]
Offers == {<<Entry("choice", Option("y"))>>,
           <<Entry("choice", Option("y")), Entry("load", Tenths(1))>>,
           <<Entry("load", Tenths(1)), Entry("choice", Option("y"))>>,
           <<Entry("choice", Option("x")), Entry("spare", Tenths(2))>>,
           <<Entry("choice", Option("x")), Entry("spare", Tenths(1))>>}
Intent(options) == [owner |-> "bob", constraint |-> "c1", version |-> 1, adjustment |-> In(options)]
Outputs ==
    [envelope : BOOLEAN, values : Offers \union {PublicPart(offer, World) : offer \in Offers},
     dependencies : {<<>>} \union {<<Dependency(g)>> : g \in Permissions},
     intents : {<<>>, <<Intent({"y"})>>, <<Intent({"y"}), Intent({"z"})>>}]
Asked == {Input(<<>>, {Limit}, <<Hard, Negotiable({"x"})>>, granted, {}, {}) :
             granted \in {<<>>, <<Permission("g1", {"y"}, 9)>>, <<Permission("g3", {"y"}, 5)>>}}

\* Whatever a model answers, what is judged is an offer of the catalog with all its
\* values, and permissions that are in force; no answer names two offers, and each
\* can be picked (generate, parseModelOutput).
ASSUME ModelsOnlyPick ==
    \A input \in Asked, one, other \in Offers, trusted \in BOOLEAN :
        CatalogIsUsable(<<one, other>>, World, trusted) =>
            LET catalog == <<one, other>>
                accepted == {output \in Outputs : OutputRefusal(output, input) = "NONE"}
                Picks(output) == Selected(output, catalog, World)
            IN  /\ \A output \in accepted :
                      /\ Cardinality(Picks(output)) <= 1
                      /\ \A k \in Picks(output) :
                            LET candidate == Submitted(output, catalog[k], input) IN
                            /\ CandidateIsShaped(candidate)
                            /\ \A a \in Range(output.values) : candidate.values[a.variable] = a.value
                            /\ \A d \in candidate.dependencies : \E g \in Range(input.negotiation) :
                                  Dependency(g) = d /\ g.expires > input.now
                /\ \A k \in {1, 2} : \E output \in accepted : Picks(output) = {k}

\* The guidance a model gets is enough: an offer that any questions would carry
\* is carried by the ones it names, and these parse as a model's own
\* (previewReasoningCatalogGuidance, previewReasoningQuestions).
ASSUME GuidanceSuffices ==
    \A o \in {"x", "y", "z"}, anns, bobs \in {{"x"}, {"x", "z"}},
       kind \in {"HARD", "NEGOTIABLE"}, granted \in {<<>>, <<Permission("g1", {"y"}, 9)>>} :
        LET ann == Constraint("ann", "c2", kind, In(anns))
            input == Input([choice |-> Option(o), load |-> Tenths(1)], {Limit},
                           <<ann, Negotiable(bobs)>>, granted,
                           {Dependency(granted[k]) : k \in DOMAIN granted}, {})
            targets == QuestionTargets(input)
            Asking(c, options) == [owner |-> c.owner, constraint |-> c.constraint,
                                   version |-> 1, adjustment |-> In(options)]
            wishes == {Asking(c, options) : c \in {ann, Negotiable(bobs)},
                                            options \in (SUBSET {"x", "y", "z"}) \ {{}}}
        IN  /\ IntentsParse(SetToSeq(targets), input)
            /\ EvaluateCandidate(input) = "NEEDS_PERMISSION"
                  => (QuestionsCover(input, wishes) <=> QuestionsCover(input, targets))

-----------------------------------------------------------------------------
(* What everybody is shown *)

Audiences == (SUBSET {"ann", "bob"}) \ {{}}
Disclosure(kind, owner, audience, variables, status) ==
    [permission |-> "d1", version |-> 1, status |-> status, expires |-> 9, context |-> 1,
     proposal |-> "p1", proposalVersion |-> 1, owner |-> owner, audience |-> audience,
     kind |-> kind, text |-> "text", hash |-> "text", variables |-> variables]
Requests(status) ==
    {Disclosure("EXACT_TEXT", owner, audience, {}, status) : owner \in {"ann", "bob"}, audience \in Audiences}
    \union {Disclosure("VARIABLE_VALUES", owner, audience, variables, status) :
        owner \in {"ann", "bob"}, audience \in Audiences, variables \in SUBSET {"load", "spare", "early"}}

\* a valid candidate with amounts of Ann's, one of which takes her consent
Shared(spare) ==
    LET input == Input([choice |-> Option("y"), load |-> Tenths(1), early |-> Plain("BOOLEAN", TRUE)]
                        @@ spare, {Limit}, <<Hard>>, <<>>, {}, {})
    IN  [input EXCEPT !.definition.variables.spare.visibility = "CONSENT_REQUIRED"]
Shareds == {Shared([spare |-> Tenths(2)]), Shared(<<>>)}
Decision(input, disclosures, published) ==
    [definition |-> input.definition, candidate |-> input.candidate, public |-> input.public,
     disclosures |-> disclosures, published |-> published]

\* Whatever was allowed and published of a valid candidate, everybody can open
\* what they are shown: of another's values nobody sees one they were not to see,
\* and the values that are only Ann's leave no trace in what is public
\* (requestDisclosure, publishDisclosure, publicSnapshot, getOwnerSnapshot).
ASSUME ViewsShowTheirShare ==
    \A input \in Shareds, asked \in Requests("PENDING") :
        LET granted == [asked EXCEPT !.status = "ACTIVE"]
            before == Decision(input, {granted}, {})
            after == Decision(input, {[granted EXCEPT !.status = "PUBLISHED"]}, {Publication(before, granted)})
            Seen(viewer) == UNION {DOMAIN d.values : d \in PublicSnapshot(after, viewer).published}
        IN  MayRequestDisclosure(before, asked, 5) =>
              /\ EvaluateCandidate(input) = "VALID"
              /\ \A viewer \in {"ann", "bob"} : OwnerSnapshotFits(OwnerSnapshot(before, viewer))
              /\ MayPublish(before, granted, 5) =>
                    /\ \A viewer \in {"ann", "bob"} :
                          /\ OwnerSnapshotFits(OwnerSnapshot(after, viewer))
                          /\ Seen(viewer) \subseteq (IF viewer \in asked.audience THEN asked.variables ELSE {})
                    /\ SnapshotFits(PublicSnapshot(after, NoOwner))
                    /\ PublicExplanation(PublicSnapshot(after, NoOwner), "PROPOSED")
                          = after.public.facts.values
                    /\ Seen(NoOwner) # {} => asked.audience = {"ann", "bob"}
                    /\ "early" \notin Seen("ann") \union Seen("bob")

\* A disclosure can be asked for and allowed that can never be published: the
\* candidate gives the variable no value, which only publishing asks for.
ASSUME SomeConsentIsIdle ==
    \E input \in Shareds, asked \in Requests("PENDING") :
        LET granted == [asked EXCEPT !.status = "ACTIVE"] IN
        /\ MayRequestDisclosure(Decision(input, {}, {}), asked, 5)
        /\ ~MayPublish(Decision(input, {granted}, {}), granted, 5)
=============================================================================
