--------------------------- MODULE DecisionVerdict ---------------------------
(***************************************************************************)
(* The input evaluateReasoningCandidate (application known-enough.ts)      *)
(* collects from a decision for the kernel, built from the state of        *)
(* DecisionLifecycle: the frame has one public choice, every owner one     *)
(* HARD and one NEGOTIABLE rule on it, and a permission is named after its *)
(* owner and the option it lets in.  Time is 1, and what has lapsed        *)
(* expired at 1.                                                           *)
(***************************************************************************)
EXTENDS DecisionLifecycle, Sequences

Kernel == INSTANCE ValidationKernel

\* an option no candidate takes: a rule of the contract accepts at least one
Elsewhere == "elsewhere"
Chosen(o) == [type |-> "ENUM", unit |-> "", scale |-> 0, data |-> o]
\* lists, in whatever order the people, the options and the grants are kept in
Listing(S) == CHOOSE list \in [1..Cardinality(S) -> S] : {list[k] : k \in DOMAIN list} = S
Persons == Listing(Participant)
Choices == Listing({Chosen(o) : o \in Option \union {Elsewhere}})
Grants == Listing(Participant \X Option)
Seated == SelectSeq(Persons, LAMBDA p : p \in roster)

OneOf(id, S) ==
    [id |-> id, visibility |-> "TRUSTED_BACKEND", operator |-> "IN", variable |-> "choice",
     values |-> SelectSeq(Choices, LAMBDA value : value.data \in S)]

Definition ==
    [context |-> context, participants |-> roster, required |-> required, rules |-> {},
     variables |-> [v \in {"choice"} |->
        [type |-> "ENUM", unit |-> "", scale |-> 0, options |-> Option \union {Elsewhere},
         visibility |-> "PUBLIC", owner |-> Kernel!NoOwner, required |-> TRUE]]]

Constraint(p, kind, S) ==
    [constraint |-> kind, owner |-> p, version |-> 1, context |-> context,
     status |-> "ACTIVE", kind |-> kind, rule |-> OneOf(kind, S \union {Elsewhere})]

Expires(p, o) == IF o \in lapsed[p] THEN 1 ELSE 2
NegotiationPermission(p, o) ==
    [permission |-> <<p, o>>, version |-> 1, context |-> context, owner |-> p,
     constraint |-> "NEGOTIABLE", constraintVersion |-> 1, status |-> permission[p][o],
     expires |-> Expires(p, o), adjustment |-> OneOf("owner-choice-adjustment", {o})]
Dependency(d) ==
    [permission |-> d, version |-> 1, kind |-> "NEGOTIATION", expires |-> Expires(d[1], d[2])]

\* evaluateReasoningCandidate: the candidate, its public form, and of every owner
\* what is ACTIVE
ReasoningInput(o, deps) ==
    LET offered == [context |-> context, proposal |-> "proposal", version |-> proposalVersion + 1,
                    values |-> [v \in {"choice"} |-> Chosen(o)],
                    dependencies |-> {Dependency(d) : d \in deps}, created |-> 1]
        facts == Kernel!PublicFacts(Definition, offered)
    IN  [definition |-> Definition, candidate |-> offered,
         public |-> [proposal |-> "proposal", facts |-> facts, hash |-> facts, created |-> 1],
         constraints |-> [k \in DOMAIN Seated |-> Constraint(Seated[k], "HARD", terms[Seated[k]].hard)]
                      \o [k \in DOMAIN Seated |-> Constraint(Seated[k], "NEGOTIABLE", terms[Seated[k]].neg)],
         confirmations |-> {[participant |-> p, context |-> context, at |-> 1] : p \in confirmed},
         ready |-> {p \in roster : readiness[p] = "READY"},
         unresolved |-> {p \in roster : draft[p].unsupported},
         negotiation |-> LET active == SelectSeq(Grants, LAMBDA d : permission[d[1]][d[2]] = "ACTIVE")
                         IN  [k \in DOMAIN active |-> NegotiationPermission(active[k][1], active[k][2])],
         disclosures |-> {}, now |-> 1]

\* What an owner's saved choices and permissions decide about a candidate in
\* DecisionLifecycle is what the kernel answers for the input the application
\* collects from them: expiry, coverage and listed dependencies included.
VerdictIsKernels ==
    status = "REASONING" =>
        \A o \in Option : \A deps \in SUBSET {d \in roster \X Option : permission[d[1]][d[2]] # "NONE"} :
            Verdict(o, deps) = Kernel!EvaluateCandidate(ReasoningInput(o, deps))
=============================================================================
