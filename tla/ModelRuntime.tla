---------------------------- MODULE ModelRuntime ----------------------------
(***************************************************************************)
(* The calls of a model provider that one process has under way            *)
(* (packages/adapters/src/model-jobs.ts), the runtime that stops them      *)
(* (apps/api/src/model-runtime.ts), the attempts of the draft architect    *)
(* (packages/application/src/decision-architect.ts) and what the provider  *)
(* adapter makes of an answer (packages/adapters/src/bedrock-models.ts).   *)
(*                                                                         *)
(* Each part is a state, the steps that lead from it and what is reached   *)
(* from its start; a step is all that happens until the next await.        *)
(*                                                                         *)
(* Left out: metrics, the text of prompts, tool schemas and diagnostics.   *)
(***************************************************************************)
EXTENDS Naturals, Sequences, FiniteSets
LOCAL INSTANCE SequencesExt

None == "NONE"

\* What following leads to from the states of start in at most n steps.
Closure(start, Following(_), n) ==
    FoldLeft(LAMBDA X, i :
                LET new == UNION {Following(x) : x \in X.last} \ X.all
                IN  [all |-> X.all \cup new, last |-> new],
             [all |-> start, last |-> start], [i \in 1..n |-> i]).all

----------------------------------------------- \* Calls: BoundedModelJobs
(* step: where process() is with a job ("NEW" before run(), "HELD" in the  *)
(* queue, "OVER" when it is out of it); waiting: callers without an        *)
(* answer, the entries of the map; pump: a pump() is due as a microtask.   *)
NoJobs(Jobs) ==
    [enabled |-> TRUE, step |-> [j \in Jobs |-> "NEW"], waiting |-> {}, queue |-> <<>>,
     answer |-> [j \in Jobs |-> None], pump |-> FALSE]

InProcess(s) == {j \in DOMAIN s.step : s.step[j] \in {"CHECK", "CALL", "RECHECK"}}

\* The caller is answered once; the job leaves the queue.
Finish(s, j, answer) ==
    IF j \notin s.waiting THEN s
    ELSE [s EXCEPT !.waiting = @ \ {j}, !.answer[j] = answer,
                   !.queue = SelectSeq(@, LAMBDA i : i # j),
                   !.step[j] = IF @ = "HELD" THEN "OVER" ELSE @]

(* A delivery of a job that is unknown, under way or over does nothing.    *)
Process(s, j, concurrency) ==
    IF \/ j \notin s.waiting \/ s.step[j] # "HELD"
       \/ ~s.enabled \/ Cardinality(InProcess(s)) >= concurrency
    THEN s ELSE [s EXCEPT !.step[j] = "CHECK"]

\* As many as there are slots for, in the order they came.
Pump(s, concurrency) ==
    FoldLeft(LAMBDA t, j :
                IF t.enabled /\ Cardinality(InProcess(t)) < concurrency
                THEN Process([t EXCEPT !.queue = Tail(@)], j, concurrency) ELSE t,
             s, s.queue)

\* A running job counts twice, as an entry and as a running one.
RunRefusal(s, j, capacity, inTime) ==
    CASE ~s.enabled -> "DISABLED"
      [] Cardinality(s.waiting) + Cardinality(InProcess(s)) >= capacity -> "CAPACITY"
      [] ~inTime -> "EXPIRED"
      [] OTHER -> None

Run(s, j, capacity, inTime) ==
    LET refusal == RunRefusal(s, j, capacity, inTime)
    IN  IF refusal # None
        THEN [s EXCEPT !.step[j] = "OVER", !.answer[j] = refusal]
        ELSE [s EXCEPT !.step[j] = "HELD", !.waiting = @ \cup {j},
                       !.queue = Append(@, j), !.pump = TRUE]

StopJobs(s) ==
    FoldLeft(LAMBDA t, j : Finish(t, j, "DISABLED"),
             [s EXCEPT !.enabled = FALSE], SetToSeq(s.waiting))

\* Only the end of process() gives the slot back: a call that was given up
\* keeps it until the provider settles.
Leave(s, j, answer, concurrency) ==
    Pump([Finish(s, j, answer) EXCEPT !.step[j] = "OVER"], concurrency)

(* What an awaited check or call comes back with: it rejects, or the job   *)
(* is checked for being wanted and in time and goes on.                    *)
Advance(s, j, concurrency) ==
    LET error == IF s.step[j] = "CALL" THEN {"STALE", "FAILED"} ELSE {"STALE"}
        next == CASE s.step[j] = "CHECK" -> "CALL" [] s.step[j] = "CALL" -> "RECHECK"
                  [] OTHER -> "OVER"
        checked == s.step[j] \in {"CHECK", "RECHECK"}
    IN  {Leave(s, j, e, concurrency) : e \in error}
        \cup {IF checked /\ (j \notin s.waiting \/ late) THEN Leave(s, j, "EXPIRED", concurrency)
              ELSE IF next = "OVER" THEN Leave(s, j, "VALUE", concurrency)
              ELSE [s EXCEPT !.step[j] = next] : late \in BOOLEAN}

JobsFollowing(s, concurrency, capacity) ==
    UNION {{Run(s, j, capacity, inTime) : inTime \in BOOLEAN} :
              j \in {i \in DOMAIN s.step : s.step[i] = "NEW"}}
    \cup {Finish(s, j, "EXPIRED") : j \in s.waiting}
    \cup UNION {Advance(s, j, concurrency) : j \in InProcess(s)}
    \cup {StopJobs(s)}
    \cup (IF s.pump THEN {Pump([s EXCEPT !.pump = FALSE], concurrency)} ELSE {})

----------------------------------------------- \* The runtime and its writes
(* createKnownEnoughModelRuntime(): the outputs of a model are stored by   *)
(* createDecision, completeReasoning, storeConstraintDraft and             *)
(* askNegotiation, each of which asks isEnabled before it commits; a       *)
(* transaction may lose a race and run again.                              *)

NoWrites(Writes) ==
    [enabled |-> TRUE, stop |-> "RUNS", write |-> [w \in Writes |-> "NEW"]]

OutputWrites(s) == {w \in DOMAIN s.write : s.write[w] \in {"BEGUN", "CHECKED"}}

TrackOutputWrite(s, w) == [s EXCEPT !.write[w] = "BEGUN"]

\* The transaction reads isEnabled, then commits, loses a race or fails.
CheckWrite(s, w) == [s EXCEPT !.write[w] = IF s.enabled THEN "CHECKED" ELSE "REFUSED"]
EndWrite(s, w) == {[s EXCEPT !.write[w] = e] : e \in {"STORED", "BEGUN", "REFUSED"}}

StopRuntime(s) ==
    [s EXCEPT !.enabled = FALSE, !.stop = IF @ = "RUNS" THEN "STOPPING" ELSE @]

RuntimeFollowing(s) ==
    LET At(x) == {w \in DOMAIN s.write : s.write[w] = x}
    IN  {TrackOutputWrite(s, w) : w \in At("NEW")} \cup {CheckWrite(s, w) : w \in At("BEGUN")}
        \cup UNION {EndWrite(s, w) : w \in At("CHECKED")}
        \cup {StopRuntime(s)}
        \cup (IF s.stop = "STOPPING" /\ OutputWrites(s) = {}
              THEN {[s EXCEPT !.stop = "STOPPED"]} ELSE {})

------------------------------------------- \* Attempts of DecisionArchitect
(* attempts: the key of each attempt, numbered by its generation, and what *)
(* became of it; active: the generation that counts for a key.             *)
NoAttempts(Keys) == [active |-> [k \in Keys |-> 0], attempts |-> <<>>]

ActiveKeys(s) == {k \in DOMAIN s.active : s.active[k] # 0}

BeginAttempt(s, k, maximum) ==
    IF s.active[k] = 0 /\ Cardinality(ActiveKeys(s)) >= maximum THEN s
    ELSE [attempts |-> Append(s.attempts, [key |-> k, end |-> None]),
          active |-> [s.active EXCEPT ![k] = Len(s.attempts) + 1]]

\* The answer is used only by the attempt that still counts.
EndAttempt(s, g, works) ==
    LET k == s.attempts[g].key
        counts == s.active[k] = g
    IN  [attempts |-> [s.attempts EXCEPT ![g].end =
                          IF ~works THEN "FAILED" ELSE IF counts THEN "DRAFT" ELSE "STALE"],
         active |-> IF counts THEN [s.active EXCEPT ![k] = 0] ELSE s.active]

AttemptsFollowing(s, maximum, most) ==
    {BeginAttempt(s, k, maximum) : k \in {x \in DOMAIN s.active : Len(s.attempts) < most}}
    \cup UNION {{EndAttempt(s, g, works) : works \in BOOLEAN} :
                   g \in {i \in DOMAIN s.attempts : s.attempts[i].end = None}}

--------------------------------------------------- \* The provider adapter
\* No transport without all three acknowledgements.
AuthorizedTransport(approval) ==
    approval.paid /\ approval.loggingOff /\ approval.retentionReviewed

ProviderFailureStage(error) ==
    CASE error = "MODEL_BUDGET_BLOCKED" -> "BUDGET_BLOCKED"
      [] error = "MODEL_BUDGET_EXHAUSTED" -> "BUDGET_EXHAUSTED"
      [] error \in {"ACCESS_DENIED", "INTERNAL", "MODEL_ERROR", "NOT_READY", "TIMEOUT",
                    "NOT_FOUND", "UNAVAILABLE", "THROTTLED", "VALIDATION"} -> error
      [] OTHER -> "PROVIDER"

\* The variables that are offered to choose from must be public and distinct.
PublicVariablesAccepted(variables, most) ==
    /\ Len(variables) \in 1..most
    /\ \A i \in DOMAIN variables : variables[i].visibility = "PUBLIC"
    /\ Cardinality({variables[i].id : i \in DOMAIN variables}) = Len(variables)

(* What is refused before a job is asked for.                              *)
InvokeRefusal(call) ==
    CASE ~call.enabled -> "DISABLED"
      [] ~call.invocation \/ ~call.json -> "INVALID_INPUT"
      [] call.kind = "NEGOTIATION" /\ call.candidates \notin 1..64 -> "INVALID_INPUT"
      [] call.tooLong -> "INVALID_INPUT"
      [] OTHER -> None

\* What the negotiation tool may answer with at all.
NegotiationTool(constraintKinds, permissions, candidates) ==
    [candidateIndex |-> 0..(candidates - 1), questions |-> "NEGOTIABLE" \in constraintKinds,
     dependencies |-> permissions > 0]

(* The job's task: what the answer of the provider turns into.             *)
TaskOutcome(reply, enabledBefore, enabledAfter, normalises) ==
    CASE ~enabledBefore -> "DISABLED"
      [] reply = "FAILED" -> "PROVIDER_FAILED"
      [] ~enabledAfter -> "EXPIRED"
      [] reply \in {"PROSE", "OTHER_TOOL", "SEVERAL", "NOT_OBJECT", "TOO_LONG"} -> "INVALID_OUTPUT"
      [] ~normalises -> "INVALID_OUTPUT"
      [] OTHER -> "VALUE"

\* A selection names every offered variable once; the definitions are ours.
NormalizeSelection(output, variables) ==
    IF /\ ~output.hasVariables /\ Len(output.variableIds) = Len(variables)
       /\ ToSet(output.variableIds) = {variables[i].id : i \in DOMAIN variables}
    THEN variables ELSE "INVALID_OUTPUT"

(* The values are those of the catalog entry that is named; an intent gets *)
(* its adjustment from us, one that is no intent is left for the contract. *)
NormalizeNegotiation(output, candidates) ==
    [values |-> IF output.candidateIndex \in 0..(Len(candidates) - 1)
                THEN candidates[output.candidateIndex + 1] ELSE <<>>,
     dependencies |-> output.dependencies,
     questionIntents |->
        [i \in DOMAIN output.questionIntents |->
            LET intent == output.questionIntents[i]
            IN  IF ~intent.flat THEN intent
                ELSE [owner |-> intent.owner, constraint |-> intent.constraint,
                      adjustment |-> [id |-> i, visibility |-> "TRUSTED_BACKEND",
                                      operator |-> "IN", variable |-> intent.variable,
                                      values |-> intent.options]]]]
=============================================================================
