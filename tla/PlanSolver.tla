----------------------------- MODULE PlanSolver -----------------------------
(***************************************************************************)
(* The deterministic solver of the legacy rooms (packages/domain/src:      *)
(* enumerate.ts, solve.ts, validation.ts): which meeting slot and which    *)
(* assignment of duties suit what every member confirmed, and which of     *)
(* those the room's policy ranks first.                                    *)
(*                                                                         *)
(* Times are points of one line: an interval of the code lies within one   *)
(* date and timezone, so two intervals of different dates neither overlap  *)
(* nor cover one another.  A slot or condition is known by its interval    *)
(* and name; the stable identifiers that break a tie are left out, any     *)
(* plan among the best may be selected.  Records:                          *)
(*   schedule  [slots  : set of intervals,                                 *)
(*              duties : [duty -> [at, load, qualified]]]                  *)
(*   values    [avail, review : sets of intervals,                         *)
(*              asks : set of [name, at, invite], cost : [duties -> Nat]]  *)
(*   plan      [slot, who : [duty -> member]]                              *)
(*   input     [schedule, policy, values : [member -> values],             *)
(*              load : [member -> Nat], grants : set of grants]            *)
(* A grant lets one condition of its owner yield for one slot; the input   *)
(* holds those that are active and of the room's context.                  *)
(***************************************************************************)
EXTENDS Integers, FiniteSets, FiniteSetsExt, SequencesExt

CONSTANT MeetingLength  \* the one supported length of a meeting

ASSUME MeetingLengthAssumption == MeetingLength \in Nat \ {0}

Overlaps(i, j) == i.from < j.to /\ j.from < i.to

\* One step of intervalsCover's scan over the intervals in order of start.
Scan(reach, i) ==
    IF reach.gap \/ i.to <= reach.until THEN reach
    ELSE IF i.from > reach.until THEN [reach EXCEPT !.gap = TRUE]
    ELSE [reach EXCEPT !.until = i.to]

\* Faulty variant: intervals are scanned in order of their ends.
FaultyBefore(i, j) == i.to < j.to \/ (i.to = j.to /\ i.from > j.from)

Before(i, j) == i.from < j.from \/ (i.from = j.from /\ i.to < j.to)

\* The interval of S that the scan comes to last.
Latest(S) == CHOOSE i \in S : \A j \in S : j = i \/ Before(j, i)

\* Where the scan of some of the containers, begun at start, has come to.
Reach(containers, start) ==
    LET reach[S \in SUBSET containers] ==
          IF S = {} THEN [until |-> start, gap |-> FALSE]
          ELSE Scan(reach[S \ {Latest(S)}], Latest(S))
    IN  reach

\* The target is covered by intervals that overlap or touch one another.
IntervalsCover(containers, target) ==
    Reach(containers, target.from)[containers].until >= target.to

(***************************************************************************)
(* The plans there are: a slot that overlaps no duty, and every duty given *)
(* to a qualified member of its own.                                       *)
(***************************************************************************)

Assignments(duties) ==
    {who \in [DOMAIN duties -> UNION {duties[d].qualified : d \in DOMAIN duties}] :
        /\ \A d \in DOMAIN duties : who[d] \in duties[d].qualified
        /\ \A d, e \in DOMAIN duties : who[d] = who[e] => d = e}

StructuralPlans(schedule) ==
    {[slot |-> s, who |-> who] :
        s \in {s \in schedule.slots :
                 \A d \in DOMAIN schedule.duties : ~Overlaps(s, schedule.duties[d].at)},
        who \in Assignments(schedule.duties)}

OnDuty(plan, m) == \E d \in DOMAIN plan.who : plan.who[d] = m

RequiredIntervals(schedule, plan, m) ==
    {plan.slot} \cup
    {schedule.duties[d].at : d \in {d \in DOMAIN plan.who : plan.who[d] = m}}

(***************************************************************************)
(* Whether a plan suits one member.                                        *)
(***************************************************************************)

MatchingGrant(input, plan, m, c) ==
    /\ c.invite
    /\ [owner |-> m, name |-> c.name, slot |-> plan.slot] \in input.grants
    /\ ~OnDuty(plan, m)

Blocking(values, i) == {c \in values.asks : Overlaps(c.at, i)}

IntervalState(input, plan, m, i) ==
    LET values == input.values[m] IN
    IF ~IntervalsCover(values.review, i) THEN "UNKNOWN"
    ELSE IF /\ IntervalsCover(values.avail, i)
            /\ \A c \in Blocking(values, i) : MatchingGrant(input, plan, m, c)
         THEN "FREE" ELSE "BLOCKED"

IntervalStates(input, plan) ==
    UNION {{IntervalState(input, plan, m, i) :
              i \in RequiredIntervals(input.schedule, plan, m)} : m \in DOMAIN input.values}

\* A plan somebody blocks is blocked, whatever is unknown of the others.
EvaluateCandidate(input, plan) ==
    LET states == IntervalStates(input, plan) IN
    IF "BLOCKED" \in states THEN "BLOCKED"
    ELSE IF "UNKNOWN" \in states THEN "UNKNOWN" ELSE "FEASIBLE"

RequiredGrants(input, plan) ==
    {g \in input.grants :
        /\ g.slot = plan.slot
        /\ \E c \in Blocking(input.values[g.owner], plan.slot) :
              c.name = g.name /\ MatchingGrant(input, plan, g.owner, c)}

(***************************************************************************)
(* Ranking.                                                                *)
(***************************************************************************)

CostsKnown(input, plan) ==
    \A d \in DOMAIN plan.who : d \in DOMAIN input.values[plan.who[d]].cost

Inconvenience(input, plan) ==
    MapThenSumSet(LAMBDA d : input.values[plan.who[d]].cost[d], DOMAIN plan.who)

LoadAfter(input, plan, m) ==
    input.load[m] + MapThenSumSet(LAMBDA d : input.schedule.duties[d].load,
                                  {d \in DOMAIN plan.who : plan.who[d] = m})

Loads(input, plan) == {LoadAfter(input, plan, m) : m \in DOMAIN input.load}

\* p comes strictly before q.
Better(input, p, q) ==
    LET pi == Inconvenience(input, p)        qi == Inconvenience(input, q)
        pm == Max(Loads(input, p))           qm == Max(Loads(input, q))
        ps == pm - Min(Loads(input, p))      qs == qm - Min(Loads(input, q))
    IN  IF input.policy = "LOWEST_INCONVENIENCE" THEN pi < qi
        ELSE \/ pm < qm
             \/ pm = qm /\ ps < qs
             \/ pm = qm /\ ps = qs /\ pi < qi

Best(input, plans) == {p \in plans : \A q \in plans : ~Better(input, q, p)}

(***************************************************************************)
(* solveDecision(): the results it may return.                             *)
(***************************************************************************)

NoPlan == [slot |-> [from |-> 0, to |-> 0], who |-> << >>]

Answered(status) == [status |-> status, plan |-> NoPlan, required |-> {}]

SolveDecision(input) ==
    LET plans == StructuralPlans(input.schedule)
        feasible == {p \in plans : EvaluateCandidate(input, p) = "FEASIBLE"}
    IN  IF \/ \E s \in input.schedule.slots : s.to - s.from # MeetingLength
           \/ \E p \in plans : EvaluateCandidate(input, p) = "UNKNOWN"
        THEN {Answered("NEEDS_CLARIFICATION")}
        ELSE IF feasible = {} THEN {Answered("NO_AGREEMENT")}
        ELSE IF \E p \in feasible : ~CostsKnown(input, p)
        THEN {Answered("NEEDS_CLARIFICATION")}
        ELSE {[status |-> "SOLVED", plan |-> p, required |-> RequiredGrants(input, p)] :
                 p \in Best(input, feasible)}

Solvable(input) == \E result \in SolveDecision(input) : result.status = "SOLVED"

(***************************************************************************)
(* What the solver is given and what becomes of its plan is parsed on the  *)
(* way (contracts/src/index.ts, validation.ts, enumerate.ts).  The solver  *)
(* gets lists: the roster, the owners whose values it has, and grants      *)
(* [id, owner].                                                            *)
(***************************************************************************)

\* Schedule
ScheduleFits(schedule) ==
    /\ Cardinality(schedule.slots) = 3 /\ Cardinality(DOMAIN schedule.duties) = 2
    /\ \A s \in schedule.slots : s.to - s.from \in {MeetingLength, 2 * MeetingLength}
    /\ \A d \in DOMAIN schedule.duties :
          /\ schedule.duties[d].at.from < schedule.duties[d].at.to
          /\ schedule.duties[d].load \in 1..10
          /\ schedule.duties[d].qualified # {}

QualifiedAmong(schedule, members) ==
    \A d \in DOMAIN schedule.duties : schedule.duties[d].qualified \subseteq members

InputParses(input) ==
    LET roster == Range(input.roster) IN
    /\ ScheduleFits(input.schedule)
    /\ Len(input.roster) = 3 /\ IsInjective(input.roster)
    /\ QualifiedAmong(input.schedule, roster)
    /\ IsInjective(input.owners) /\ Range(input.owners) \subseteq roster
    /\ IsInjective([i \in DOMAIN input.grants |-> input.grants[i].id])
    /\ \A i \in DOMAIN input.grants : input.grants[i].owner \in roster

\* enumerateStructuralPlans() checks again, and never more than a thousand plans.
EnumerationAccepts(schedule, roster) ==
    /\ ScheduleFits(schedule)
    /\ Len(roster) = 3 /\ IsInjective(roster)
    /\ QualifiedAmong(schedule, Range(roster))
    /\ Cardinality(StructuralPlans(schedule)) <= 1000

\* PublicPlanFacts: two duties, two people qualified for theirs.
PlanFits(schedule, plan) ==
    /\ DOMAIN plan.who = DOMAIN schedule.duties /\ Cardinality(DOMAIN plan.who) = 2
    /\ \A d, e \in DOMAIN plan.who : plan.who[d] = plan.who[e] => d = e
    /\ \A d \in DOMAIN plan.who : plan.who[d] \in schedule.duties[d].qualified

\* PublicHashPayload, and PublicRoomSnapshot of a room with this schedule.
PublicPayloadFits(schedule, members, plan) ==
    /\ PlanFits(schedule, plan)
    /\ plan.slot \in schedule.slots
    /\ \A d \in DOMAIN plan.who :
          plan.who[d] \in members /\ schedule.duties[d].qualified \subseteq members

=============================================================================
