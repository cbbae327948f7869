--------------------------- MODULE DraftArchitect ---------------------------
(***************************************************************************)
(* How an idea becomes a public frame: the plan of choices a person edits  *)
(* (contracts choice-plan.ts), the options a frame leaves open and their   *)
(* combinations (public-choice-options.ts, generic-candidates.ts), what    *)
(* the architect accepts of a model's draft (architect-tool.ts,            *)
(* decision-architect.ts), and the two scenarios that are drafted and      *)
(* created in one request (scenario-service.ts).                           *)
(*                                                                         *)
(* Text is a token; an empty one is "".  Scalars are integers in the unit  *)
(* of their variable.  Left out: titles, prompts, wording, byte limits.    *)
(***************************************************************************)
EXTENDS Integers, Sequences, FiniteSets
LOCAL INSTANCE SequencesExt

None == "NONE"
MaxCombinations == 64

----------------------------------------------------- \* The plan of choices
(* A topic has a label, a kind and options; an option is a token and, in   *)
(* an exact date, a date.                                                  *)
TopicQuestion(topic) ==
    LET n == Len(topic.options)
        Texts == {topic.options[i].text : i \in 1..n}
    IN  CASE topic.label = "" -> "LABEL"
          [] n > 16 -> "TOO_MANY"
          [] n = 0 \/ "" \in Texts -> "OPTIONS"
          [] Cardinality(Texts) # n -> "REPEATED"
          [] topic.kind = "DATE" /\ \E i \in 1..n : ~topic.options[i].date -> "DATES"
          [] OTHER -> None

\* The variable of a topic, whose options are positions, and its rules.
TopicVariable(topic, index) ==
    [id |-> index, label |-> topic.label, required |-> TRUE, options |-> DOMAIN topic.options,
     type |-> IF topic.kind = "DATE" THEN "DATE" ELSE "ENUM"]

TopicRules(topic) ==
    IF topic.kind = "DATE" THEN <<[operator |-> "IN", values |-> DOMAIN topic.options]>> ELSE <<>>

CompileChoicePlan(topics) ==
    LET good == {i \in DOMAIN topics : TopicQuestion(topics[i]) = None}
        combinations == FoldLeft(LAMBDA n, i : IF i \in good THEN n * Len(topics[i].options) ELSE n,
                                 1, [i \in DOMAIN topics |-> i])
        kept == SelectSeq([i \in DOMAIN topics |-> i], LAMBDA i : i \in good)
    IN  [variables |-> [k \in DOMAIN kept |-> TopicVariable(topics[kept[k]], kept[k])],
         rules |-> [k \in DOMAIN kept |-> TopicRules(topics[kept[k]])],
         combinations |-> combinations,
         questions |-> ({TopicQuestion(topics[i]) : i \in DOMAIN topics} \ {None})
                       \cup (IF topics = <<>> THEN {"TOPICS"} ELSE {})
                       \cup (IF combinations > MaxCombinations THEN {"COMBINATIONS"} ELSE {})]

\* normalizeChoicePlanDates(): a complete named date, else as it was.
CanonicalDate(option) ==
    IF option.named /\ option.month \in 1..12 /\ option.exists
    THEN [option EXCEPT !.named = FALSE, !.date = TRUE] ELSE option

(* A person's plan wins over what is suggested for it: a topic takes the   *)
(* suggestion of its label, or, while it has none, the one at its place.   *)
Suggestion(topic, index, suggested) ==
    LET same == {i \in DOMAIN suggested : suggested[i].label = topic.label}
    IN  IF same # {} THEN suggested[CHOOSE i \in same : \A j \in same : i <= j]
        ELSE IF topic.label = "" /\ index \in DOMAIN suggested THEN suggested[index]
        ELSE [label |-> "", kind |-> topic.kind, options |-> <<>>]

MergeTopic(topic, index, suggested) ==
    LET s == Suggestion(topic, index, suggested)
    IN  [label |-> IF topic.label # "" THEN topic.label ELSE s.label,
         kind |-> IF topic.label # "" THEN topic.kind ELSE s.kind,
         options |-> IF \E i \in DOMAIN topic.options : topic.options[i].text # ""
                     THEN topic.options ELSE s.options]

MergePlan(previous, suggested) ==
    IF previous = <<>> THEN suggested
    ELSE [i \in DOMAIN previous |-> MergeTopic(previous[i], i, suggested)]

------------------------------------------- \* Options and their combinations
Scalars == {"NUMBER", "MONEY", "PERCENTAGE", "DATE", "DATETIME", "DURATION"}

(* The first rule that lists values decides; without one, a scalar needs a *)
(* lower and an upper bound that are near.                                 *)
Listing(rules) == SelectSeq(rules, LAMBDA r : r.operator \in {"IN", "EQ"})

LowerBounds(type, rules) ==
    {r.value + (IF r.operator \in {"GT", "ABOVE"} THEN 1 ELSE 0) :
        r \in {q \in ToSet(rules) : q.operator \in {"GT", "GTE", "ABOVE", "FROM"}}}
    \cup (IF type \in {"PERCENTAGE", "DURATION"} THEN {0} ELSE {})

UpperBounds(type, rules) ==
    {r.value - (IF r.operator \in {"LT", "BELOW"} THEN 1 ELSE 0) :
        r \in {q \in ToSet(rules) : q.operator \in {"LT", "LTE", "BELOW", "TO"}}}
    \cup (IF type = "PERCENTAGE" THEN {10000} ELSE {})

Greatest(S) == CHOOSE x \in S : \A y \in S : x >= y
Least(S) == CHOOSE x \in S : \A y \in S : x <= y

\* publicChoiceOptions() answers null for what is not enumerable.
Enumerable(variable, rules) ==
    LET low == LowerBounds(variable.type, rules)
        high == UpperBounds(variable.type, rules)
    IN  \/ Listing(rules) # <<>>
        \/ variable.type = "ENUM_SET" /\ Cardinality(variable.options) <= 6
        \/ variable.type \in {"ENUM", "BOOLEAN", "PARTICIPANT"}
        \/ /\ variable.type \in Scalars /\ low # {} /\ high # {}
           /\ Least(high) - Greatest(low) + 1 <= MaxCombinations

\* The rules are those that name the variable, in order.
PublicChoiceOptions(variable, rules) ==
    CASE Listing(rules) # <<>> -> Head(Listing(rules)).values
      [] variable.type \in {"ENUM", "PARTICIPANT"} -> variable.options
      [] variable.type = "ENUM_SET" -> SUBSET variable.options
      [] variable.type = "BOOLEAN" -> BOOLEAN
      [] OTHER -> Greatest(LowerBounds(variable.type, rules))..Least(UpperBounds(variable.type, rules))

\* An optional variable has one choice more: that it is left out.
ChoiceCount(variable, rules) ==
    Cardinality(PublicChoiceOptions(variable, rules)) + (IF variable.required THEN 0 ELSE 1)

(* genericCandidateCatalog(): the combinations the contract takes, all of  *)
(* them or none; rules gives those of each variable, a combination is a    *)
(* set of places with their values.                                        *)
CandidateCatalog(variables, rules, invalid) ==
    LET at == [i \in DOMAIN variables |-> i]
        size == FoldLeft(LAMBDA n, i : n * ChoiceCount(variables[i], rules[i]), 1, at)
        all == FoldLeft(LAMBDA C, i :
                   {c \cup {<<i, v>>} : c \in C, v \in PublicChoiceOptions(variables[i], rules[i])}
                   \cup (IF variables[i].required THEN {} ELSE C),
                   {{}}, at)
    IN  CASE variables = <<>> -> [question |-> "BOUNDED", candidates |-> {}]
          [] \E i \in DOMAIN variables : ~Enumerable(variables[i], rules[i]) ->
                [question |-> "UNBOUNDED", candidates |-> {}]
          [] size > MaxCombinations -> [question |-> "COMBINATIONS", candidates |-> {}]
          [] all \ invalid = {} -> [question |-> "NOTHING_FITS", candidates |-> {}]
          [] OTHER -> [question |-> None, candidates |-> all \ invalid]

--------------------------------------------------- \* A model's draft
(* An id is one the contract takes ("GOOD"), one it does not ("BAD"), or   *)
(* generated; x counts what is appended to make it fresh.                  *)
Generated(v, o, x) == [kind |-> "GENERATED", name |-> <<v, o>>, x |-> x]
IsId(id) == id.kind \in {"GOOD", "GENERATED"}

FreshId(v, o, used) ==
    Generated(v, o, Least({x \in 0..Cardinality(used) : Generated(v, o, x) \notin used}))

\* The options of variable v with ids for those that have none.
NormalizedOptions(v, options) ==
    FoldLeft(LAMBDA done, o :
                LET used == {done[i].id : i \in DOMAIN done}
                            \cup {p.id : p \in {q \in ToSet(options) : IsId(q.id)}}
                IN  Append(done, IF IsId(options[o].id) THEN options[o]
                                 ELSE [options[o] EXCEPT !.id = FreshId(v, o, used)]),
             <<>>, [o \in DOMAIN options |-> o])

\* Where an id that was replaced went, unless two options had it.
Remap(v, options) ==
    LET bad == {o \in DOMAIN options : options[o].id.kind = "BAD"}
        clear == {o \in bad : \A p \in bad \ {o} : options[p].id # options[o].id}
    IN  [id \in {options[o].id : o \in clear} |->
            NormalizedOptions(v, options)[CHOOSE o \in clear : options[o].id = id].id]

(* A literal is text or typed.  Text is read as the type of its variable;  *)
(* what cannot be read stays text, and the contract refuses it later.      *)
PublicLiteral(literal) ==
    IF literal.typed \/ ~IsId(literal.option) THEN literal ELSE [literal EXCEPT !.typed = TRUE]

RewriteValue(literal, v, options) ==
    LET read == PublicLiteral(literal)
        remap == Remap(v, options)
    IN  IF read.typed /\ read.option \in DOMAIN remap
        THEN [read EXCEPT !.option = remap[read.option]] ELSE read

\* Values that were allowed become a rule with an id of its own.
DomainRuleId(v, used) == FreshId(v, 0, used)

(* Decimal text in units of 10^-places, digits as a sequence; too many     *)
(* digits after the point are no value.                                    *)
Digits(d) == FoldLeft(LAMBDA n, x : 10 * n + x, 0, d)
Scaled(negative, whole, fraction, places, most) ==
    LET padded == whole \o fraction \o [i \in 1..(places - Len(fraction)) |-> 0]
        amount == IF negative THEN -Digits(padded) ELSE Digits(padded)
    IN  IF Len(fraction) > places \/ amount > most \/ amount < -most THEN <<>> ELSE <<amount>>

\* Choices the catalog can list need no question.
BoundedChoice(variable, rules) ==
    \/ variable.type \in {"ENUM", "BOOLEAN", "PARTICIPANT"}
    \/ variable.type = "ENUM_SET" /\ Cardinality(variable.options) <= 6
    \/ Listing(rules) # <<>>

(* What is asked of the organizer: public, and not about a bounded choice. *)
(* about: a variable's place, or 0 for the whole.                          *)
PublicQuestions(questions, variables, rules) ==
    LET bounded == {i \in DOMAIN variables : BoundedChoice(variables[i], rules[i])}
        specified == variables # <<>> /\ bounded = DOMAIN variables
    IN  SelectSeq(questions, LAMBDA q :
            CASE q.purpose = "PRIVATE_NEED" -> FALSE
              [] q.about # 0 -> q.about \notin bounded
              [] OTHER -> ~specified)

\* decodeArchitectOutput(): groups named by type become lists; what is
\* listed already is passed on.
DecodeArchitectOutput(output, selected) ==
    CASE output.form # "OBJECT" -> "UNCHANGED"
      [] output.rulesListed /\ (selected \/ output.variablesListed) -> "UNCHANGED"
      [] ~output.wire -> "WIRE_SCHEMA"
      [] OTHER -> "FLATTENED"

\* draft(): what is refused before a model is asked.
RequestAccepted(request) ==
    /\ request.wellFormed /\ request.participants \in 1..20
    /\ request.distinctParticipants /\ request.distinctOptions
    /\ request.offersVariables =>
          request.variablesPublic /\ request.variableLabels \subseteq request.allowedOptions

(* The stage a model's draft is refused at, in the order they are tried.   *)
DraftRefusal(draft, request) ==
    CASE draft.failed -> "ARCHITECT_CALL"
      [] ~draft.current -> "STALE_CONTEXT"
      [] ~draft.fields -> "ARCHITECT_FIELDS"
      [] ~(draft.required \subseteq request.people) -> "ARCHITECT_REQUIREMENTS"
      [] ~draft.definition -> "ARCHITECT_SCHEMA"
      [] ~draft.public -> "ARCHITECT_PRIVATE_FIELDS"
      [] request.offersVariables /\ ~draft.sameVariables -> "ARCHITECT_PUBLIC_SCHEMA"
      [] ~request.generate /\ ~(draft.labels \subseteq request.allowedOptions) -> "ARCHITECT_OPTIONS"
      [] ~draft.stillCurrent -> "STALE_CONTEXT"
      [] OTHER -> None

DraftStatus(questions) ==
    IF questions = <<>> THEN "DEFINING" ELSE "NEEDS_CLARIFICATION"

------------------------------------------------------- \* The scenarios
Everyone == {"maya", "leo", "nina", "ana", "raul"}
Buyers == {"maya", "leo", "nina"}

\* The directory names each of the five once, with a subject of its own.
ReadScenarioMembers(members) ==
    /\ Len(members) = 5
    /\ {members[i].participant : i \in DOMAIN members} = Everyone
    /\ Cardinality({members[i].subject : i \in DOMAIN members}) = 5

ScenarioRoster(kind) == IF kind = "CHRISTMAS" THEN Everyone ELSE Buyers

ScenarioPublicVariables(kind) ==
    IF kind = "CHRISTMAS"
    THEN {"destination", "trip-start", "trip-end", "trip-duration", "accommodation",
          "estimated-total"}
    ELSE {"funding-structure"} \cup {<<p, "ownership">> : p \in Buyers}

(* The offers: of a trip its days, its seconds and its price, of a         *)
(* purchase what everyone pays and owns.                                   *)
ScenarioCandidates(kind) ==
    IF kind = "CHRISTMAS"
    THEN [destination : {"cancun", "mazatlan", "oaxaca"}, first : {24}, last : {29},
          duration : {432000}, total : {150000, 160000, 170000}]
    ELSE {[amounts |-> [maya |-> 1666667, leo |-> 1666667, nina |-> 1666666],
           shares |-> [maya |-> 3334, leo |-> 3333, nina |-> 3333]],
          [amounts |-> [maya |-> 2500000, leo |-> 1500000, nina |-> 1000000],
           shares |-> [maya |-> 5000, leo |-> 3000, nina |-> 2000]]}

\* provisionDefinition(): the two totals the purchase adds to the frame.
Provisioned(kind, offer) ==
    kind = "SHARED_PURCHASE" =>
        /\ offer.amounts.maya + offer.amounts.leo + offer.amounts.nina = 5000000
        /\ offer.shares.maya + offer.shares.leo + offer.shares.nina = 10000

(* create(): created: what each subject and key made, of which body.  The   *)
(* request reads, asks the architect and stores; between the first and the *)
(* last another one may have made the same.  An answer of None goes on.    *)
Found(created, id, body) ==
    CASE id \notin DOMAIN created -> None
      [] created[id] = body -> "OK"
      [] OTHER -> "IDEMPOTENCY_CONFLICT"

ReadScenario(created, who, member, request, failure) ==
    CASE member \notin Everyone -> "FORBIDDEN"
      [] ~request.valid -> "INVALID_COMMAND"
      [] member \notin ScenarioRoster(request.kind) -> "FORBIDDEN"
      [] failure = "READ" -> "RETRYABLE_SERVER_ERROR"
      [] OTHER -> Found(created, <<who, request.key>>, request.body)

DraftScenario(failure) ==
    CASE failure = "QUESTIONS" -> "NEEDS_CLARIFICATION"
      [] failure \in {"CALL", "DEFINITION"} -> "RETRYABLE_SERVER_ERROR"
      [] failure = "GUARD" -> "STALE_CONTEXT"
      [] OTHER -> None

(* What createDecision() leaves and answers: a write that fails because it *)
(* is there, or whose answer is lost, is looked up.                        *)
StoreScenario(created, who, request, failure) ==
    LET id == <<who, request.key>>
        stored == [i \in DOMAIN created \cup {id} |->
                      IF i \in DOMAIN created THEN created[i] ELSE request.body]
    IN  CASE failure = "STORE" /\ id \notin DOMAIN created ->
                [code |-> "RETRYABLE_SERVER_ERROR", created |-> created]
          [] Found(stored, id, request.body) # "OK" ->
                [code |-> Found(stored, id, request.body), created |-> stored]
          [] failure = "READBACK" -> [code |-> "RETRYABLE_SERVER_ERROR", created |-> stored]
          [] OTHER -> [code |-> "OK", created |-> stored]
=============================================================================
