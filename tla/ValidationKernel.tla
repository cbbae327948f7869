--------------------------- MODULE ValidationKernel ---------------------------
(***************************************************************************)
(* The judgement on one candidate: evaluateKnownEnoughCandidate of         *)
(* packages/domain/src/known-enough-kernel.ts, the rules of the contract   *)
(* it repeats (packages/contracts/src/known-enough.ts), the questions that *)
(* may be asked about a rule (safeAdjustment) and what everybody is shown  *)
(* of the outcome.  Everything here is a function of its input.            *)
(*                                                                         *)
(* A value is [type, unit, scale, data]: unit is the unit, currency or     *)
(* display zone, scale the decimals, and data a number, a Boolean, an      *)
(* option or a set of options; dates and instants are numbers in their     *)
(* order.  decisionId, contextToken, semanticVersion and frameVersion,     *)
(* which rotate together, are one context; the hash of the public facts is *)
(* the facts themselves.  The budget of a million comparisons is left out: *)
(* an input of 360 KB has no more than a comparison for every two bytes.   *)
(***************************************************************************)
EXTENDS Integers, Sequences, FiniteSets, Functions

MaxDiagnostics == 64    \* MAX_DIAGNOSTICS
MaxConstraints == 64    \* MAX_ACTIVE_CONFIRMED_CONSTRAINTS
MaxOptions == 64        \* MAX_OPTIONS_PER_VARIABLE
MaxReferences == 20     \* MAX_RULE_REFERENCES
MaxParticipants == 20   \* MAX_DECISION_PARTICIPANTS
MaxDuration == 315360000

NoOwner == ""           \* ownerParticipantId: null

Measured == {"NUMBER", "MONEY"}            \* their unit and precision are part of the value
Summable == Measured \union {"PERCENTAGE"}
Calendar == {"DATE", "DATETIME"}           \* compared as strings
Ordered == Summable \union Calendar \union {"DURATION"}

VariableAccepts(variable, value) ==
    /\ variable.type = value.type
    /\ value.type \in Measured => value.unit = variable.unit /\ value.scale = variable.scale
    /\ value.type = "DATETIME" => value.unit = variable.unit
    /\ value.type \in {"ENUM", "PARTICIPANT"} => value.data \in variable.options
    /\ value.type = "ENUM_SET" => value.data \subseteq variable.options

SameDomain(left, right) ==
    /\ left.type = right.type
    /\ left.type \in Measured => left.unit = right.unit /\ left.scale = right.scale
    /\ left.type \in {"DATETIME", "DURATION"} => left.unit = right.unit

\* compareValues: bigint against bigint, string against string, nothing else
Comparable(left, right) ==
    /\ left.type \in Ordered /\ right.type \in Ordered
    /\ left.type \in Calendar <=> right.type \in Calendar
\* comparable: decimals are brought to one precision
Scalar(value) == IF value.type = "NUMBER" THEN value.data * 10^(6 - value.scale) ELSE value.data
\* compareEqual, canonicalValue
Same(left, right) == left.type = right.type /\ left = right

-----------------------------------------------------------------------------
(* Shapes: what the schemas ask of a value, a variable or a rule alone *)

\* DecisionValue
ValueIsShaped(value) ==
    /\ value.type \in Ordered \union {"BOOLEAN", "ENUM", "ENUM_SET", "PARTICIPANT"}
    /\ value.type = "NUMBER" => value.scale \in 0..6
    /\ value.type = "MONEY" => value.scale \in 0..4
    /\ value.type = "PERCENTAGE" => value.data \in 0..10000
    /\ value.type = "DURATION" => value.data \in 0..MaxDuration
    /\ value.type = "BOOLEAN" => value.data \in BOOLEAN
    /\ value.type = "ENUM_SET" => Cardinality(value.data) <= MaxOptions

\* what DecisionVariable and PublicDecisionVariable share
DomainIsShaped(variable) ==
    /\ variable.type \in Ordered \union {"BOOLEAN", "ENUM", "ENUM_SET", "PARTICIPANT"}
    /\ variable.type = "NUMBER" => variable.scale \in 0..6
    /\ variable.type = "MONEY" => variable.scale \in 0..4
    /\ variable.type \in {"ENUM", "ENUM_SET"} => Cardinality(variable.options) \in 1..MaxOptions
    /\ variable.type = "PARTICIPANT" => Cardinality(variable.options) \in 1..MaxParticipants

\* DecisionVariable.superRefine: what is not public has an owner, what is has none
VariableIsShaped(variable) ==
    /\ DomainIsShaped(variable)
    /\ variable.visibility \in {"PUBLIC", "OWNER_PRIVATE", "CONSENT_REQUIRED"}
    /\ variable.visibility = "PUBLIC" <=> variable.owner = NoOwner

\* PublicDecisionVariable has no field for an owner
PublicVariableIsShaped(variable) ==
    /\ DomainIsShaped(variable)
    /\ variable.visibility \in {"PUBLIC", "CONSENT_REQUIRED"}
    /\ variable.owner = NoOwner

\* AtomicCondition
ConditionIsShaped(condition) ==
    condition.operator \in {"EQ", "NE"} /\ ValueIsShaped(condition.value)

\* ValidationRule
RuleIsShaped(rule) ==
    /\ rule.visibility \in {"PUBLIC", "TRUSTED_BACKEND"}
    /\ rule.operator = "COMPARE" =>
          rule.comparison \in {"EQ", "NE", "LT", "LTE", "GT", "GTE"} /\ ValueIsShaped(rule.value)
    /\ rule.operator = "IN" =>
          Len(rule.values) \in 1..MaxOptions /\ \A k \in DOMAIN rule.values : ValueIsShaped(rule.values[k])
    /\ rule.operator = "RANGE" => ValueIsShaped(rule.minimum) /\ ValueIsShaped(rule.maximum)
    /\ rule.operator \in {"SUM_EQUALS", "ALL_DIFFERENT", "MUTUALLY_EXCLUSIVE"} =>
          Len(rule.variables) \in 2..MaxReferences /\ IsInjective(rule.variables)
    /\ rule.operator = "SUM_EQUALS" => rule.target.type \in Summable /\ ValueIsShaped(rule.target)
    /\ rule.operator = "MUTUALLY_EXCLUSIVE" => rule.maximum \in 0..(MaxReferences - 1)
    /\ rule.operator = "IMPLIES" => ConditionIsShaped(rule.antecedent) /\ ConditionIsShaped(rule.consequent)

-----------------------------------------------------------------------------
(* Rules *)

RuleVariables(rule) ==
    CASE rule.operator \in {"COMPARE", "IN", "RANGE"} -> {rule.variable}
      [] rule.operator = "IMPLIES" -> {rule.antecedent.variable, rule.consequent.variable}
      [] OTHER -> Range(rule.variables)

OwnerCanReadRule(rule, owner, variables) ==
    \A v \in RuleVariables(rule) :
        v \in DOMAIN variables /\ (variables[v].visibility = "PUBLIC" \/ variables[v].owner = owner)

\* validateRule answers null
RuleIsValid(rule, variables) ==
    LET Accepts(v, value) == VariableAccepts(variables[v], value)
        first == variables[rule.variables[1]]
    IN  /\ RuleVariables(rule) \subseteq DOMAIN variables
        /\ rule.operator = "COMPARE" =>
            /\ Accepts(rule.variable, rule.value)
            /\ rule.comparison \notin {"EQ", "NE"} => variables[rule.variable].type \in Ordered
        /\ rule.operator = "IN" =>
            /\ \A k \in DOMAIN rule.values : Accepts(rule.variable, rule.values[k])
            /\ \A k, l \in DOMAIN rule.values : Same(rule.values[k], rule.values[l]) => k = l
        /\ rule.operator = "RANGE" =>
            /\ variables[rule.variable].type \in Ordered
            /\ Accepts(rule.variable, rule.minimum) /\ Accepts(rule.variable, rule.maximum)
            /\ Comparable(rule.minimum, rule.maximum)
            /\ Scalar(rule.minimum) <= Scalar(rule.maximum)
            /\ Scalar(rule.minimum) = Scalar(rule.maximum) =>
                  rule.includeMinimum /\ rule.includeMaximum
        /\ rule.operator = "SUM_EQUALS" =>
            /\ first.type \in Summable /\ VariableAccepts(first, rule.target)
            /\ \A v \in RuleVariables(rule) : SameDomain(first, variables[v])
        /\ rule.operator = "ALL_DIFFERENT" =>
            \A v \in RuleVariables(rule) :
                variables[v].type # "ENUM_SET" /\ SameDomain(first, variables[v])
        /\ rule.operator = "MUTUALLY_EXCLUSIVE" =>
            /\ rule.maximum < Len(rule.variables)
            /\ \A v \in RuleVariables(rule) : variables[v].type = "BOOLEAN"
        /\ rule.operator = "IMPLIES" =>
            /\ Accepts(rule.antecedent.variable, rule.antecedent.value)
            /\ Accepts(rule.consequent.variable, rule.consequent.value)

\* the contract's check of a rule: issues are collected, an unknown variable is
\* one and ends what depends on it
ContractAcceptsRule(rule, variables) ==
    LET Fits(v, value) == v \in DOMAIN variables => VariableAccepts(variables[v], value)
        IsOrdered(v) == v \in DOMAIN variables => variables[v].type \in Ordered
        listed == RuleVariables(rule) \intersect DOMAIN variables
        first == variables[rule.variables[1]]
        known == rule.variables[1] \in DOMAIN variables
    IN  /\ RuleVariables(rule) \ DOMAIN variables = {}
        /\ rule.operator = "COMPARE" =>
            /\ Fits(rule.variable, rule.value)
            /\ rule.comparison \in {"EQ", "NE"} \/ IsOrdered(rule.variable)
        /\ rule.operator = "IN" =>
            /\ \A k \in DOMAIN rule.values : Fits(rule.variable, rule.values[k])
            /\ \A k, l \in DOMAIN rule.values : k # l => ~Same(rule.values[k], rule.values[l])
        /\ rule.operator = "RANGE" =>
            /\ Fits(rule.variable, rule.minimum) /\ Fits(rule.variable, rule.maximum)
            /\ IsOrdered(rule.variable)
            /\ Comparable(rule.minimum, rule.maximum) =>
                /\ ~(Scalar(rule.minimum) > Scalar(rule.maximum))
                /\ Scalar(rule.minimum) = Scalar(rule.maximum) =>
                      ~(~rule.includeMinimum \/ ~rule.includeMaximum)
        /\ rule.operator = "SUM_EQUALS" /\ known =>
            /\ first.type \in Summable
            /\ \A v \in listed : SameDomain(first, variables[v])
            /\ VariableAccepts(first, rule.target)
        /\ rule.operator = "ALL_DIFFERENT" /\ known =>
            \A v \in listed : SameDomain(first, variables[v]) /\ variables[v].type # "ENUM_SET"
        /\ rule.operator = "MUTUALLY_EXCLUSIVE" =>
            /\ \A v \in listed : variables[v].type = "BOOLEAN"
            /\ ~(rule.maximum >= Len(rule.variables))
        /\ rule.operator = "IMPLIES" =>
            \A c \in {rule.antecedent, rule.consequent} : Fits(c.variable, c.value)
        /\ rule.visibility = "PUBLIC" => \A v \in listed : variables[v].visibility = "PUBLIC"

\* ownerRulesValid: an owner's rule is judged by the variables they may see
VisibleTo(owner, variables) ==
    Restrict(variables, {v \in DOMAIN variables :
                            variables[v].visibility = "PUBLIC" \/ variables[v].owner = owner})
OwnerRuleIsValid(rule, owner, variables) ==
    ContractAcceptsRule(rule, VisibleTo(owner, variables))

ListsAreClosed(definition) ==
    /\ definition.required \subseteq definition.participants
    /\ \A v \in DOMAIN definition.variables :
          definition.variables[v].type = "PARTICIPANT" =>
              definition.variables[v].options \subseteq definition.participants

\* DecisionDefinition
FrameIsValid(definition) ==
    LET variables == definition.variables IN
    /\ ListsAreClosed(definition)
    /\ \A v \in DOMAIN variables :
          /\ VariableIsShaped(variables[v])
          /\ variables[v].visibility # "PUBLIC" => variables[v].owner \in definition.participants
    /\ \A rule \in definition.rules : RuleIsShaped(rule) /\ ContractAcceptsRule(rule, variables)
    /\ \A one, other \in definition.rules : one.id = other.id => one = other

\* publicFrame, and what PublicDecisionFrame asks of it; whose a variable is that
\* takes its owner's consent is left out
PublicFrame(definition) ==
    LET variables == definition.variables
        shown == {v \in DOMAIN variables : variables[v].visibility # "OWNER_PRIVATE"}
    IN  [definition EXCEPT
            !.variables = [v \in shown |-> [variables[v] EXCEPT !.owner = NoOwner]],
            !.rules = {rule \in @ : rule.visibility = "PUBLIC"}]
PublicFrameIsValid(frame) ==
    /\ ListsAreClosed(frame)
    /\ \A v \in DOMAIN frame.variables : PublicVariableIsShaped(frame.variables[v])
    /\ \A rule \in frame.rules :
          /\ RuleIsShaped(rule) /\ rule.visibility = "PUBLIC"
          /\ ContractAcceptsRule(rule, frame.variables)
    /\ \A one, other \in frame.rules : one.id = other.id => one = other

-----------------------------------------------------------------------------
(* The value of a rule while some variables have no value *)

Truth(holds) == IF holds THEN "TRUE" ELSE "FALSE"
Known(v, values) == v \in DOMAIN values

Compares(comparison, left, right) ==
    CASE comparison = "LT"  -> Scalar(left) < Scalar(right)
      [] comparison = "LTE" -> Scalar(left) <= Scalar(right)
      [] comparison = "GT"  -> Scalar(left) > Scalar(right)
      [] comparison = "GTE" -> Scalar(left) >= Scalar(right)

EvaluateCompare(rule, values) ==
    LET actual == values[rule.variable] IN
    IF ~Known(rule.variable, values) THEN "UNKNOWN"
    ELSE IF rule.comparison = "EQ" THEN Truth(Same(actual, rule.value))
    ELSE IF rule.comparison = "NE" THEN Truth(~Same(actual, rule.value))
    ELSE IF ~Comparable(actual, rule.value) THEN "UNKNOWN"
    ELSE Truth(Compares(rule.comparison, actual, rule.value))

EvaluateIn(rule, values) ==
    IF ~Known(rule.variable, values) THEN "UNKNOWN"
    ELSE Truth(\E k \in DOMAIN rule.values : Same(values[rule.variable], rule.values[k]))

EvaluateRange(rule, values) ==
    LET actual == values[rule.variable]
        Above(least, inclusive) ==
            Scalar(actual) > Scalar(least) \/ (inclusive /\ Scalar(actual) = Scalar(least))
        Below(most, inclusive) ==
            Scalar(actual) < Scalar(most) \/ (inclusive /\ Scalar(actual) = Scalar(most))
    IN  IF ~Known(rule.variable, values) THEN "UNKNOWN"
        ELSE IF ~Comparable(actual, rule.minimum) \/ ~Comparable(actual, rule.maximum)
        THEN "UNKNOWN"
        ELSE Truth(Above(rule.minimum, rule.includeMinimum) /\ Below(rule.maximum, rule.includeMaximum))

Total(amounts) == FoldFunction(+, 0, amounts)

EvaluateSum(rule, values) ==
    LET ids == Range(rule.variables) IN
    IF \E v \in ids : ~Known(v, values) \/ values[v].type \notin Ordered \ Calendar
    THEN "UNKNOWN"
    ELSE Truth(Total([v \in ids |-> Scalar(values[v])]) = Scalar(rule.target))

\* the variables are read in their order, and the first that decides or has no
\* value ends the reading
ReadUpTo(k, rule, values) == \A j \in 1..k : Known(rule.variables[j], values)

EvaluateDifferent(rule, values) ==
    LET At(k) == values[rule.variables[k]] IN
    IF \E k \in DOMAIN rule.variables : /\ ReadUpTo(k, rule, values)
                                       /\ \E j \in 1..(k - 1) : Same(At(j), At(k))
    THEN "FALSE"
    ELSE IF ReadUpTo(Len(rule.variables), rule, values) THEN "TRUE" ELSE "UNKNOWN"

EvaluateExclusive(rule, values) ==
    LET Chosen(k) == {j \in 1..k : values[rule.variables[j]].data = TRUE}
        Readable(k) == \A j \in 1..k : /\ Known(rule.variables[j], values)
                                       /\ values[rule.variables[j]].type = "BOOLEAN"
    IN  IF \E k \in DOMAIN rule.variables : Readable(k) /\ Cardinality(Chosen(k)) > rule.maximum
        THEN "FALSE"
        ELSE IF Readable(Len(rule.variables)) THEN "TRUE" ELSE "UNKNOWN"

EvaluateLiteral(condition, values) ==
    IF ~Known(condition.variable, values) THEN "UNKNOWN"
    ELSE Truth(Same(values[condition.variable], condition.value) <=> condition.operator = "EQ")

EvaluateImplies(rule, values) ==
    LET antecedent == EvaluateLiteral(rule.antecedent, values)
        consequent == EvaluateLiteral(rule.consequent, values)
    IN  IF antecedent = "FALSE" \/ consequent = "TRUE" THEN "TRUE"
        ELSE IF antecedent = "TRUE" /\ consequent = "FALSE" THEN "FALSE" ELSE "UNKNOWN"

Evaluate(rule, values) ==
    CASE rule.operator = "COMPARE"            -> EvaluateCompare(rule, values)
      [] rule.operator = "IN"                 -> EvaluateIn(rule, values)
      [] rule.operator = "RANGE"              -> EvaluateRange(rule, values)
      [] rule.operator = "SUM_EQUALS"         -> EvaluateSum(rule, values)
      [] rule.operator = "ALL_DIFFERENT"      -> EvaluateDifferent(rule, values)
      [] rule.operator = "MUTUALLY_EXCLUSIVE" -> EvaluateExclusive(rule, values)
      [] rule.operator = "IMPLIES"            -> EvaluateImplies(rule, values)

-----------------------------------------------------------------------------
(* The checks of one evaluation, as the diagnostics they add: what it is    *)
(* and what it is about.  input has the fields of KernelInput.              *)

ActiveConstraints(input) ==
    {k \in DOMAIN input.constraints : input.constraints[k].status = "ACTIVE"}

Finding(holds, code, subject) == IF holds THEN {<<code, subject>>} ELSE {}

\* the values the variables accept; the others count as not given
KnownValues(input) ==
    LET given == input.candidate.values
        variables == input.definition.variables
    IN  Restrict(given, {v \in DOMAIN given \intersect DOMAIN variables :
                            VariableAccepts(variables[v], given[v])})

\* checkContextAndReadiness
ContextFindings(input) ==
    LET definition == input.definition
        confirming == {c.participant : c \in input.confirmations}
    IN  UNION {
          Finding(\/ input.candidate.context # definition.context
                  \/ input.candidate.version < 1, "CONTEXT_STALE", <<>>),
          {<<"CONTEXT_STALE", <<c.participant>>>> : c \in {d \in input.confirmations :
              \/ d.participant \notin definition.participants
              \/ d.context # definition.context \/ d.at > input.now}},
          {<<"FRAME_CONFIRMATION_REQUIRED", <<p>>>> : p \in definition.required \ confirming},
          {<<"PARTICIPANT_INPUT_NOT_READY", <<p>>>> : p \in definition.required \ input.ready},
          Finding(~(input.ready \subseteq definition.participants), "INPUT_INVALID", <<>>),
          Finding(input.unresolved # {}, "UNRESOLVED_CONDITION", <<>>)}

\* checkCandidateValues
ValueFindings(input) ==
    LET variables == input.definition.variables
        known == DOMAIN KnownValues(input)
    IN  {<<"INVALID_VALUE", v>> : v \in DOMAIN input.candidate.values \ known}
        \union {<<"MISSING_REQUIRED_VALUE", v>> :
                   v \in {w \in DOMAIN variables \ known : variables[w].required}}

\* the rule a preference stands for
PreferenceRule(c) ==
    [id |-> c.constraint, visibility |-> "TRUSTED_BACKEND", operator |-> "COMPARE",
     comparison |-> "EQ", variable |-> c.preference.variable, value |-> c.preference.value]

\* validateCurrentConstraints: an owner's constraint is there once, of this
\* context, and about variables its owner may see
ConstraintFindings(input) ==
    LET definition == input.definition
        active == ActiveConstraints(input)
        at(k) == input.constraints[k]
        ruleOf(c) == IF c.kind = "PREFERENCE" THEN PreferenceRule(c) ELSE c.rule
        Listed(k) == /\ at(k).owner \in definition.participants
                     /\ \A l \in active : l < k =>
                            <<at(l).owner, at(l).constraint>> # <<at(k).owner, at(k).constraint>>
        listed == {k \in active : Listed(k)}
    IN  {<<"INVALID_RULE", <<at(k).constraint, at(k).owner>>>> : k \in active \ listed}
        \union {<<"CONTEXT_STALE", <<at(k).constraint, at(k).owner>>>> :
                   k \in {l \in listed : at(l).context # definition.context}}
        \union {<<"INVALID_RULE", <<ruleOf(at(k)).id, at(k).constraint, at(k).owner>>>> :
                   k \in {l \in listed :
                      \/ ~RuleIsValid(ruleOf(at(l)), definition.variables)
                      \/ ~OwnerCanReadRule(ruleOf(at(l)), at(l).owner, definition.variables)}}

-----------------------------------------------------------------------------
(* A NEGOTIABLE rule that fails, and the permissions that let it *)

ListedDependency(input, permission) ==
    [permission |-> permission.permission, version |-> permission.version,
     kind |-> "NEGOTIATION", expires |-> permission.expires]

\* Faulty variant: a permission counts until somebody marks it as expired.
MayCoverUnexpired(input, permission, c) ==
    /\ permission.constraint = c.constraint /\ permission.owner = c.owner
    /\ permission.constraintVersion = c.version
    /\ permission.status = "ACTIVE"
    /\ permission.context = input.definition.context
    /\ ListedDependency(input, permission) \in input.candidate.dependencies

\* granted for this very constraint, in force, and listed by the candidate as it is
MayCover(input, permission, c) ==
    /\ permission.constraint = c.constraint /\ permission.owner = c.owner
    /\ permission.constraintVersion = c.version
    /\ permission.status = "ACTIVE"
    /\ permission.context = input.definition.context
    /\ permission.expires > input.now
    /\ ListedDependency(input, permission) \in input.candidate.dependencies

AdjustmentIsValid(input, permission) ==
    /\ RuleIsValid(permission.adjustment, input.definition.variables)
    /\ OwnerCanReadRule(permission.adjustment, permission.owner, input.definition.variables)

\* what the adjustment of a permission says of the values
Adjusted(input, permission) == Evaluate(permission.adjustment, KnownValues(input))

\* the permissions that cover c, and the one the kernel takes: the first
Covering(input, c) ==
    {k \in DOMAIN input.negotiation :
        LET permission == input.negotiation[k] IN
        /\ MayCover(input, permission, c) /\ AdjustmentIsValid(input, permission)
        /\ Adjusted(input, permission) = "TRUE"}
Taken(input, c) == {k \in Covering(input, c) : \A l \in Covering(input, c) : k <= l}

\* checkNegotiationPermission reads the permissions up to the one it takes
PermissionFindings(input, c) ==
    LET at(k) == input.negotiation[k]
        read == {k \in DOMAIN input.negotiation :
                   MayCover(input, at(k), c) /\ \A l \in Covering(input, c) : k <= l}
    IN  {<<"INVALID_RULE", <<at(k).adjustment.id, at(k).permission, at(k).owner>>>> :
            k \in {l \in read : ~AdjustmentIsValid(input, at(l))}}
        \union {<<"PERMISSION_ADJUSTMENT_NOT_APPLICABLE",
                   <<at(k).adjustment.id, at(k).permission, at(k).owner>>>> :
                   k \in {l \in read : /\ AdjustmentIsValid(input, at(l))
                                        /\ Adjusted(input, at(l)) = "FALSE"}}
        \union Finding(Covering(input, c) = {}, "NEGOTIABLE_PERMISSION_REQUIRED",
                       <<c.rule.id, c.constraint, c.owner>>)

\* NEGOTIABLE rules that fail; every other rule is recorded as it is
Negotiated(input) ==
    {k \in ActiveConstraints(input) : LET c == input.constraints[k] IN
        c.kind = "NEGOTIABLE" /\ Evaluate(c.rule, KnownValues(input)) = "FALSE"}

RuleFindings(input) ==
    LET Recorded(rule, ids) ==
            LET result == Evaluate(rule, KnownValues(input)) IN
            Finding(result = "UNKNOWN", "RULE_VALUE_UNKNOWN", <<rule.id>> \o ids)
            \union Finding(result = "FALSE", "RULE_FAILED", <<rule.id>> \o ids)
        at(k) == input.constraints[k]
        decisive == {k \in ActiveConstraints(input) : at(k).kind # "PREFERENCE"}
    IN  UNION {Recorded(rule, <<>>) : rule \in input.definition.rules}
        \union UNION {Recorded(at(k).rule, <<at(k).constraint, at(k).owner>>) :
                         k \in decisive \ Negotiated(input)}
        \union UNION {PermissionFindings(input, at(k)) : k \in Negotiated(input)}

\* every negotiation permission the candidate lists was needed
DependencyFindings(input) ==
    LET listed == {d.permission : d \in {e \in input.candidate.dependencies : e.kind = "NEGOTIATION"}}
        used == {input.negotiation[k].permission :
                    k \in UNION {Taken(input, input.constraints[l]) : l \in Negotiated(input)}}
    IN  {<<"PERMISSION_DEPENDENCY_UNUSED", p>> : p \in listed \ used}

-----------------------------------------------------------------------------
(* Disclosures and the public form *)

\* the permission a listed disclosure names, in force for this very candidate
DisclosureStands(input, dependency, permission) ==
    LET definition == input.definition IN
    /\ permission.permission = dependency.permission
    /\ permission.version = dependency.version
    /\ permission.status = "ACTIVE"
    /\ permission.expires = dependency.expires /\ permission.expires > input.now
    /\ permission.context = definition.context
    /\ permission.proposal = input.candidate.proposal
    /\ permission.proposalVersion = input.candidate.version
    /\ permission.owner \in definition.participants
    /\ permission.audience \subseteq definition.participants

\* the text is the one its hash was taken of; the values are the owner's own to show
ContentStands(input, permission) ==
    IF permission.kind = "EXACT_TEXT" THEN permission.hash = permission.text
    ELSE \A v \in permission.variables :
            /\ v \in DOMAIN input.definition.variables
            /\ input.definition.variables[v].visibility = "CONSENT_REQUIRED"
            /\ input.definition.variables[v].owner = permission.owner
            /\ v \in DOMAIN input.candidate.values

DisclosureFindings(input) ==
    LET Standing(d) == {p \in input.disclosures : DisclosureStands(input, d, p)}
        listed == {d \in input.candidate.dependencies : d.kind = "DISCLOSURE"}
    IN  {<<"PERMISSION_STALE_OR_REVOKED", d.permission>> : d \in {e \in listed : Standing(e) = {}}}
        \union {<<IF p.kind = "EXACT_TEXT" THEN "DISCLOSURE_TEXT_HASH_INVALID"
                   ELSE "DISCLOSURE_SCOPE_INVALID", p.permission>> :
                   p \in {q \in UNION {Standing(d) : d \in listed} : ~ContentStands(input, q)}}

\* the facts a proposal publishes, recomputed
PublicFacts(definition, candidate) ==
    [context |-> definition.context, version |-> candidate.version,
     required |-> definition.required,
     values |-> Restrict(candidate.values,
                   {v \in DOMAIN candidate.values \intersect DOMAIN definition.variables :
                       definition.variables[v].visibility = "PUBLIC"})]

\* checkPublicProposal
PublicFindings(input) ==
    LET expected == PublicFacts(input.definition, input.candidate)
        public == input.public
    IN  UNION {
          Finding(\/ public.proposal # input.candidate.proposal
                  \/ public.facts.context # expected.context
                  \/ public.facts.version # expected.version
                  \/ public.created # input.candidate.created,
                  "PUBLIC_PROPOSAL_MISMATCH", <<>>),
          Finding(public.facts # expected, "PUBLIC_FACTS_MISMATCH", <<>>),
          Finding(public.hash # expected, "PUBLIC_HASH_MISMATCH", <<>>)}

-----------------------------------------------------------------------------
(* The verdict *)

Diagnostics(input) ==
    UNION {ContextFindings(input), ValueFindings(input), ConstraintFindings(input),
           RuleFindings(input), DependencyFindings(input), DisclosureFindings(input),
           PublicFindings(input)}

Invalidating == {"INPUT_INVALID", "INVALID_VALUE", "INVALID_RULE", "RULE_FAILED",
                 "PUBLIC_FACTS_MISMATCH", "PUBLIC_HASH_MISMATCH"}
Clarifying == {"CONTEXT_STALE", "FRAME_CONFIRMATION_REQUIRED", "PARTICIPANT_INPUT_NOT_READY",
               "UNRESOLVED_CONDITION", "MISSING_REQUIRED_VALUE", "RULE_VALUE_UNKNOWN",
               "PUBLIC_PROPOSAL_MISMATCH"}
Permitting == {"NEGOTIABLE_PERMISSION_REQUIRED", "PERMISSION_DEPENDENCY_UNUSED",
               "PERMISSION_STALE_OR_REVOKED", "DISCLOSURE_SCOPE_INVALID",
               "DISCLOSURE_TEXT_HASH_INVALID"}

\* Evaluation.run: more diagnostics than can be kept ask for clarification
Judgement(found) ==
    LET Some(codes) == \E d \in found : d[1] \in codes IN
    IF Some(Invalidating) THEN "INVALID"
    ELSE IF Some(Clarifying) \/ Cardinality(found) > MaxDiagnostics THEN "NEEDS_CLARIFICATION"
    ELSE IF Some(Permitting) THEN "NEEDS_PERMISSION"
    ELSE "VALID"

\* CandidateProposal, of which parseCandidateIgnoringClaim drops the verdict it
\* brings along
CandidateIsShaped(candidate) ==
    /\ \A v \in DOMAIN candidate.values : ValueIsShaped(candidate.values[v])
    /\ Cardinality(candidate.dependencies) <= MaxConstraints
    /\ \A d, e \in candidate.dependencies : d.permission = e.permission => d = e

\* parseKernelInput: the frame is one, owners' rules stay in the backend, and
\* what names one thing names it once
IsRead(input) ==
    /\ FrameIsValid(input.definition)
    /\ CandidateIsShaped(input.candidate)
    /\ \A k \in DOMAIN input.constraints : LET c == input.constraints[k] IN
          c.kind # "PREFERENCE" => RuleIsShaped(c.rule) /\ c.rule.visibility = "TRUSTED_BACKEND"
    /\ \A k \in DOMAIN input.negotiation : LET adjustment == input.negotiation[k].adjustment IN
          RuleIsShaped(adjustment) /\ adjustment.visibility = "TRUSTED_BACKEND"
    /\ \A c, d \in input.confirmations : c.participant = d.participant => c = d
    /\ \A c, d \in input.disclosures : c.permission = d.permission => c = d
    /\ \A k, l \in DOMAIN input.negotiation :
          input.negotiation[k].permission = input.negotiation[l].permission => k = l

\* evaluateKnownEnoughCandidate
EvaluateCandidate(input) ==
    IF Cardinality(ActiveConstraints(input)) > MaxConstraints THEN "NEEDS_CLARIFICATION"
    ELSE IF ~IsRead(input) THEN "INVALID"
    ELSE Judgement(Diagnostics(input))

-----------------------------------------------------------------------------
(* What is kept of a result: the rules it lists (recordRule, makeResult)      *)

\* the rules that are recorded as they are, by what they say of the values
RecordedAs(result, input) ==
    {rule \in input.definition.rules \union
              {input.constraints[k].rule : k \in
                 {l \in ActiveConstraints(input) : input.constraints[l].kind # "PREFERENCE"}
                 \ Negotiated(input)} :
        Evaluate(rule, KnownValues(input)) = result}
Ids(rules) == {rule.id : rule \in rules}

\* a rule that nobody allowed to break failed, though it was not checked
KernelResult(input) ==
    LET read == Cardinality(ActiveConstraints(input)) <= MaxConstraints /\ IsRead(input)
        refused == {l \in Negotiated(input) : Covering(input, input.constraints[l]) = {}}
        Listed(rules) == IF read THEN Ids(rules) ELSE {}
    IN  [status |-> EvaluateCandidate(input),
         checked |-> Listed(RecordedAs("TRUE", input) \union RecordedAs("FALSE", input)),
         failed |-> Listed(RecordedAs("FALSE", input)
                           \union {input.constraints[k].rule : k \in refused}),
         unknown |-> Listed(RecordedAs("UNKNOWN", input))]

MaxEvaluated == 128 + 64    \* MAX_EVALUATED_RULES

\* CandidateEvaluation; no condition is unsupported once answers are confirmed
EvaluationIsShaped(result) ==
    /\ result.status \in {"VALID", "INVALID", "NEEDS_CLARIFICATION"}
    /\ \A ids \in {result.checked, result.failed, result.unknown} : Cardinality(ids) <= MaxEvaluated
    /\ result.status = "VALID" => result.failed = {} /\ result.unknown = {}
    /\ result.status = "INVALID" => result.failed # {}
    /\ result.status = "NEEDS_CLARIFICATION" => result.unknown # {}
    /\ result.checked \intersect result.unknown = {}
    /\ result.failed \subseteq result.checked

\* completeReasoning keeps of a VALID result what was checked and calls the rest empty
StoredEvaluation(result) ==
    [status |-> "VALID", checked |-> result.checked, failed |-> {}, unknown |-> {}]

\* CandidateForDecision
CandidateFitsDecision(definition, candidate) ==
    LET variables == definition.variables
        values == candidate.values
    IN  /\ candidate.context = definition.context
        /\ \A v \in DOMAIN values : v \in DOMAIN variables /\ VariableAccepts(variables[v], values[v])
        /\ \A v \in DOMAIN variables : variables[v].required => v \in DOMAIN values

-----------------------------------------------------------------------------
(* Questions: a permission may only widen a choice by public options that    *)
(* the rule does not accept yet                                             *)

\* the values a rule on a choice names, and the options it accepts
Named(rule) == IF rule.operator = "IN" THEN Range(rule.values) ELSE {rule.value}
Accepted(rule, options) ==
    LET named == {value.data : value \in Named(rule)} IN
    IF rule.operator = "COMPARE" /\ rule.comparison = "NE" THEN options \ named ELSE named

\* safeAdjustment: the options a question may add, none when there is no question
AddedOptions(c, asked, variables) ==
    LET choice == variables[c.rule.variable]
        Plain(rule, comparisons) ==
            rule.operator = "IN" \/ (rule.operator = "COMPARE" /\ rule.comparison \in comparisons)
    IN  IF /\ c.kind = "NEGOTIABLE" /\ Plain(c.rule, {"EQ", "NE"}) /\ Plain(asked, {"EQ"})
           /\ asked.visibility = "TRUSTED_BACKEND" /\ asked.variable = c.rule.variable /\ asked.variable \in DOMAIN variables
           /\ choice.type = "ENUM" /\ choice.visibility = "PUBLIC"
           /\ \A value \in Named(asked) : VariableAccepts(choice, value)
        THEN Accepted(asked, choice.options) \ Accepted(c.rule, choice.options)
        ELSE {}

NeedsPermission(input, c) ==
    <<"NEGOTIABLE_PERMISSION_REQUIRED", <<c.rule.id, c.constraint, c.owner>>>> \in Diagnostics(input)

\* previewReasoningQuestions, before the candidate is stored: for every rule
\* that needs a permission there is a question that would let the candidate in
QuestionsCover(input, intents) ==
    LET values == input.candidate.values
        needing == {c \in {input.constraints[k] : k \in ActiveConstraints(input)} :
                       NeedsPermission(input, c)}
        LetsIn(intent, c) ==
            /\ <<intent.owner, intent.constraint, intent.version>> = <<c.owner, c.constraint, c.version>>
            /\ c.rule.variable \in DOMAIN values /\ values[c.rule.variable].type = "ENUM"
            /\ values[c.rule.variable].data
                  \in AddedOptions(c, intent.adjustment, input.definition.variables)
    IN  needing # {} /\ \A c \in needing : \E intent \in intents : LetsIn(intent, c)

\* the permission an owner would give, in whatever order its options are kept
Prospective(input, c, added, expires) ==
    [permission |-> "prospective", version |-> 1, context |-> input.definition.context,
     owner |-> c.owner, constraint |-> c.constraint, constraintVersion |-> c.version,
     status |-> "ACTIVE", expires |-> expires,
     adjustment |-> [id |-> "owner-choice-adjustment", visibility |-> "TRUSTED_BACKEND",
        operator |-> "IN", variable |-> c.rule.variable,
        values |-> LET Allowed(o) == [type |-> "ENUM", unit |-> "", scale |-> 0, data |-> o]
                   IN  CHOOSE list \in [1..Cardinality(added) -> {Allowed(o) : o \in added}] :
                           {list[k].data : k \in DOMAIN list} = added]]

\* validatePendingNegotiationAdjustment, before the question is put: judged as
\* if the owner had allowed it, the candidate no longer needs it
QuestionHelps(input, c, asked, expires) ==
    LET added == AddedOptions(c, asked, input.definition.variables)
        permission == Prospective(input, c, added, expires)
        preview == [input EXCEPT
            !.candidate.dependencies = @ \union {ListedDependency(input, permission)},
            !.negotiation = Append(@, permission)]
        about == {<<"PERMISSION_DEPENDENCY_UNUSED", "prospective">>} \union
                 {<<code, <<"owner-choice-adjustment", "prospective", c.owner>>>> :
                     code \in {"INVALID_RULE", "PERMISSION_ADJUSTMENT_NOT_APPLICABLE"}}
    IN  /\ added # {} /\ expires > input.now /\ NeedsPermission(input, c)
        /\ EvaluateCandidate(preview) \notin {"INVALID", "NEEDS_CLARIFICATION"}
        /\ Diagnostics(preview) \intersect about = {} /\ ~NeedsPermission(preview, c)

-----------------------------------------------------------------------------
(* When two questions are one, and two lists of facts                        *)

Listing == {"SUM_EQUALS", "ALL_DIFFERENT", "MUTUALLY_EXCLUSIVE"}

\* serializeNegotiationRequestIdentity: id and visibility are dropped, EQ is an IN
\* of one value, and what a rule lists has no order
AdjustmentIdentity(rule) ==
    LET bare == Restrict(rule, DOMAIN rule \ {"id", "visibility"}) IN
    IF rule.operator = "COMPARE" /\ rule.comparison = "EQ"
    THEN [operator |-> "IN", variable |-> rule.variable, values |-> {rule.value}]
    ELSE [field \in DOMAIN bare |->
            IF \/ field = "values" /\ rule.operator = "IN"
               \/ field = "variables" /\ rule.operator \in Listing
            THEN Range(bare[field]) ELSE bare[field]]

RequestIdentity(input, c, rule) ==
    [context |-> input.definition.context, owner |-> c.owner, constraint |-> c.constraint,
     version |-> c.version, adjustment |-> AdjustmentIdentity(rule)]

\* facts as they are sent, in lists: PublicProposalFacts ...
FactsAreShaped(wire) ==
    /\ Len(wire.required) \in 1..MaxParticipants /\ IsInjective(wire.required)
    /\ \A k, l \in DOMAIN wire.values : wire.values[k].variable = wire.values[l].variable => k = l
    /\ \A k \in DOMAIN wire.values : LET value == wire.values[k].value IN
          value.type = "ENUM_SET" => IsInjective(value.data)

\* ... and what serializeDecisionProposal keeps of them
NormalizeSetValues(value) ==
    IF value.type = "ENUM_SET" THEN [value EXCEPT !.data = Range(@)] ELSE value
Assignments(list) ==
    [v \in {a.variable : a \in Range(list)} |->
        NormalizeSetValues((CHOOSE a \in Range(list) : a.variable = v).value)]
SerializeDecisionProposal(wire) ==
    [context |-> wire.context, version |-> wire.version, required |-> Range(wire.required),
     values |-> Assignments(wire.values)]

-----------------------------------------------------------------------------
(* A model picks one offer of a catalog.  Offers and outputs are sent as lists; *)
(* an output has an envelope (its fields are the expected ones), values,        *)
(* dependencies and intents, the questions it would ask                         *)

MaxCatalog == 64
MaxIntents == MaxParticipants * 16

IsPublic(v, variables) == v \in DOMAIN variables /\ variables[v].visibility = "PUBLIC"

\* ValueAssignments
ValuesAreShaped(list) ==
    /\ \A k, l \in DOMAIN list : list[k].variable = list[l].variable => k = l
    /\ \A k \in DOMAIN list : LET value == list[k].value IN
          /\ value.type = "ENUM_SET" => IsInjective(value.data)
          /\ ValueIsShaped(NormalizeSetValues(value))

PublicPart(list, variables) == SelectSeq(list, LAMBDA a : IsPublic(a.variable, variables))

\* generate, before the model is asked; trusted offers are the server's own and may
\* have values that are not public.  What a model sees of two offers differs.
CatalogIsUsable(catalog, variables, trusted) ==
    /\ Len(catalog) \in 1..MaxCatalog
    /\ \A k \in DOMAIN catalog :
          /\ ValuesAreShaped(catalog[k])
          /\ \A a \in Range(catalog[k]) :
                a.variable \in DOMAIN variables /\ (trusted \/ IsPublic(a.variable, variables))
    /\ IsInjective([k \in DOMAIN catalog |-> Assignments(PublicPart(catalog[k], variables))])

\* parseQuestionIntents: each is about a rule that may be asked about, and is asked once
IntentsParse(intents, input) ==
    LET About(intent) == <<intent.owner, intent.constraint, intent.version>> IN
    /\ Len(intents) <= MaxIntents
    /\ IsInjective([k \in DOMAIN intents |-> About(intents[k])])
    /\ \A intent \in Range(intents) :
          /\ \E k \in ActiveConstraints(input) : LET c == input.constraints[k] IN
                c.kind = "NEGOTIABLE" /\ About(intent) = <<c.owner, c.constraint, c.version>>
          /\ RuleIsShaped(intent.adjustment) /\ intent.adjustment.visibility = "TRUSTED_BACKEND"

\* parseModelOutput: why an output is no candidate at all
OutputRefusal(output, input) ==
    LET variables == input.definition.variables
        inForce == {p \in Range(input.negotiation) : p.status = "ACTIVE" /\ p.expires > input.now}
        listed == Range(output.dependencies)
    IN  CASE ~output.envelope -> "OUTPUT_ENVELOPE"
          [] ~IntentsParse(output.intents, input) -> "QUESTION_INTENTS"
          [] \E a \in Range(output.values) : ~IsPublic(a.variable, variables) -> "PUBLIC_VALUES"
          [] ~(listed \subseteq {ListedDependency(input, p) : p \in inForce}) -> "PERMISSION_DEPENDENCIES"
          [] \/ ~ValuesAreShaped(output.values)
             \/ ~IsInjective([k \in DOMAIN output.dependencies |-> output.dependencies[k].permission])
             \/ Len(output.dependencies) > MaxConstraints -> "CANDIDATE_SCHEMA"
          [] OTHER -> "NONE"

\* the offers it names, by their public part; what it wrote itself is not used
Selected(output, catalog, variables) ==
    {k \in DOMAIN catalog : Assignments(PublicPart(catalog[k], variables)) = Assignments(output.values)}
Submitted(output, offer, input) ==
    [input.candidate EXCEPT !.values = Assignments(offer), !.dependencies = Range(output.dependencies)]

\* previewReasoningCatalogGuidance: of an offer that needs permissions, the
\* questions that would help it, each for the one option it has
QuestionTargets(input) ==
    LET values == input.candidate.values
        Chosen(c) == values[c.rule.variable]
        Guiding(c) == [id |-> "guidance", visibility |-> "TRUSTED_BACKEND", operator |-> "IN",
                       variable |-> c.rule.variable, values |-> <<Chosen(c)>>]
        Guides(c) ==
            /\ c.kind = "NEGOTIABLE" /\ NeedsPermission(input, c)
            /\ "variable" \in DOMAIN c.rule /\ c.rule.variable \in DOMAIN values
            /\ Chosen(c).type = "ENUM"
            /\ AddedOptions(c, Guiding(c), input.definition.variables) # {}
        targets == {[owner |-> c.owner, constraint |-> c.constraint, version |-> c.version,
                     adjustment |-> Guiding(c)] :
                       c \in {d \in {input.constraints[k] : k \in ActiveConstraints(input)} : Guides(d)}}
    IN  IF EvaluateCandidate(input) = "NEEDS_PERMISSION" /\ Cardinality(targets) <= MaxIntents
        THEN targets ELSE {}

-----------------------------------------------------------------------------
(* What is shown.  decision has the definition, the current candidate, its    *)
(* public form, the permissions to disclose and what has been published       *)

MaxPublished == 64

\* DisclosurePermission
DisclosureIsShaped(permission) ==
    /\ Cardinality(permission.audience) \in 1..MaxParticipants
    /\ permission.kind = "VARIABLE_VALUES" => permission.variables # {}

\* a permission, or what was published with it, is about the candidate as it is
BindsTo(decision, item) ==
    /\ item.context = decision.definition.context
    /\ item.proposal = decision.candidate.proposal
    /\ item.proposalVersion = decision.candidate.version

\* requestDisclosure
MayRequestDisclosure(decision, permission, now) ==
    LET variables == decision.definition.variables
        participants == decision.definition.participants
    IN  /\ DisclosureIsShaped(permission) /\ permission.status = "PENDING"
        /\ permission.owner \in participants /\ permission.audience \subseteq participants
        /\ BindsTo(decision, permission) /\ permission.expires > now
        /\ permission.kind = "EXACT_TEXT" => permission.hash = permission.text
        /\ permission.kind = "VARIABLE_VALUES" =>
              \A v \in permission.variables :
                  /\ v \in DOMAIN variables
                  /\ variables[v].visibility = "CONSENT_REQUIRED"
                  /\ variables[v].owner = permission.owner

\* publishDisclosure: what is let out is copied from the candidate
MayPublish(decision, permission, now) ==
    /\ permission.status = "ACTIVE" /\ BindsTo(decision, permission) /\ permission.expires > now
    /\ permission.kind = "EXACT_TEXT" => permission.hash = permission.text
    /\ permission.kind = "VARIABLE_VALUES" => permission.variables \subseteq DOMAIN decision.candidate.values
    /\ Cardinality(decision.published) < MaxPublished
Publication(decision, permission) ==
    [kind |-> permission.kind, context |-> permission.context, proposal |-> permission.proposal,
     proposalVersion |-> permission.proposalVersion, audience |-> permission.audience,
     variables |-> permission.variables,
     values |-> Restrict(decision.candidate.values, permission.variables)]

\* publicSnapshot; a display or service has no seat and sees what everybody may see
PublicSnapshot(decision, viewer) ==
    LET definition == decision.definition
        For(d) == IF viewer = NoOwner THEN definition.participants \subseteq d.audience
                  ELSE viewer \in d.audience
    IN  [frame |-> PublicFrame(definition), viewer |-> viewer, proposal |-> decision.public,
         published |-> {d \in decision.published : BindsTo(decision, d) /\ For(d)}]

\* PublicDecisionSnapshot.superRefine, about the facts of the proposal ...
FactsAreShown(snapshot) ==
    LET facts == snapshot.proposal.facts
        variables == snapshot.frame.variables
    IN  /\ facts.context = snapshot.frame.context /\ facts.version >= 1
        /\ facts.required = snapshot.frame.required
        /\ \A v \in DOMAIN facts.values :
              /\ v \in DOMAIN variables /\ variables[v].visibility = "PUBLIC"
              /\ VariableAccepts(variables[v], facts.values[v])
        /\ \A v \in DOMAIN variables :
              variables[v].visibility = "PUBLIC" /\ variables[v].required => v \in DOMAIN facts.values

\* ... and about every disclosure in it
DisclosureIsShown(snapshot, d) ==
    LET variables == snapshot.frame.variables IN
    /\ d.context = snapshot.frame.context /\ d.proposal = snapshot.proposal.proposal
    /\ d.proposalVersion = snapshot.proposal.facts.version
    /\ d.audience \subseteq snapshot.frame.participants
    /\ IF snapshot.viewer = NoOwner THEN snapshot.frame.participants \subseteq d.audience
       ELSE snapshot.viewer \in d.audience
    /\ d.kind = "VARIABLE_VALUES" =>
          /\ \A v \in DOMAIN d.values :
                /\ v \in DOMAIN variables \intersect d.variables
                /\ variables[v].visibility = "CONSENT_REQUIRED"
                /\ VariableAccepts(variables[v], d.values[v])
          /\ d.variables \subseteq DOMAIN d.values

SnapshotFits(snapshot) ==
    /\ PublicFrameIsValid(snapshot.frame)
    /\ snapshot.viewer \in snapshot.frame.participants \union {NoOwner}
    /\ FactsAreShown(snapshot)
    /\ Cardinality(snapshot.published) <= MaxPublished
    /\ \A d \in snapshot.published : DisclosureIsShown(snapshot, d)

\* publicExplanation, which tells what a proposal says once it has been made;
\* a value the frame has no name for is a dash (formatPublicValue)
Dash == "-"
FormatPublicValue(variable, value) ==
    LET Label(o) == IF variable.type = value.type /\ o \in variable.options THEN o ELSE Dash IN
    CASE value.type \in {"ENUM", "PARTICIPANT"} -> [value EXCEPT !.data = Label(@)]
      [] value.type = "ENUM_SET" -> [value EXCEPT !.data = {Label(o) : o \in @}]
      [] OTHER -> value
PublicExplanation(snapshot, status) ==
    LET variables == snapshot.frame.variables
        values == snapshot.proposal.facts.values
    IN  IF status \notin {"PROPOSED", "APPROVING", "AGREED"} THEN <<>>
        ELSE [v \in {w \in DOMAIN values : IsPublic(w, variables)} |->
                 FormatPublicValue(variables[v], values[v])]

\* getOwnerSnapshot: what is the owner's own, of the frame and of the candidate
OwnerSnapshot(decision, owner) ==
    LET variables == decision.definition.variables
        own == {v \in DOMAIN variables : variables[v].visibility # "PUBLIC" /\ variables[v].owner = owner}
    IN  [public |-> PublicSnapshot(decision, owner), owner |-> owner,
         variables |-> Restrict(variables, own),
         proposal |-> decision.candidate.proposal, version |-> decision.candidate.version,
         values |-> Restrict(decision.candidate.values, own \intersect DOMAIN decision.candidate.values),
         disclosures |-> {p \in decision.disclosures : p.owner = owner}]

\* OwnerDecisionSnapshot.superRefine, about the permissions to disclose ...
OwnDisclosureFits(snapshot, p) ==
    LET frame == snapshot.public.frame
        current == snapshot.public.proposal
    IN  /\ p.status = "ACTIVE" => /\ p.context = frame.context
                                  /\ p.proposal = current.proposal
                                  /\ p.proposalVersion = current.facts.version
        /\ p.audience \subseteq frame.participants
        /\ p.kind = "VARIABLE_VALUES" => p.variables \subseteq DOMAIN snapshot.variables

\* ... and about variables and values
OwnerSnapshotFits(snapshot) ==
    LET variables == snapshot.variables
        frame == snapshot.public.frame
        current == snapshot.public.proposal
    IN  /\ SnapshotFits(snapshot.public) /\ snapshot.public.viewer = snapshot.owner
        /\ \A v \in DOMAIN variables :
              /\ VariableIsShaped(variables[v])
              /\ variables[v].visibility # "PUBLIC" /\ variables[v].owner = snapshot.owner
              /\ v \in DOMAIN frame.variables <=> variables[v].visibility = "CONSENT_REQUIRED"
              /\ v \in DOMAIN frame.variables =>
                    frame.variables[v] = [variables[v] EXCEPT !.owner = NoOwner]
              /\ variables[v].required => v \in DOMAIN snapshot.values
        /\ snapshot.proposal = current.proposal /\ snapshot.version = current.facts.version
        /\ \A v \in DOMAIN snapshot.values :
              v \in DOMAIN variables /\ VariableAccepts(variables[v], snapshot.values[v])
        /\ \A p \in snapshot.disclosures : OwnDisclosureFits(snapshot, p)
=============================================================================
