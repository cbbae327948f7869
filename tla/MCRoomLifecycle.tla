-------------------------- MODULE MCRoomLifecycle --------------------------
(***************************************************************************)
(* A small instance of RoomLifecycle: the meeting takes two units of time, *)
(* a and b can take the duties, and the third slot overlaps one of them.   *)
(* At the end, statements about RoomStore over rooms and guards of that    *)
(* size; TLC evaluates them before the run.                                *)
(***************************************************************************)
EXTENDS RoomStore, TLC

CONSTANTS a, b, c, d1, d2, x, y, w1, w2

Three == {a, b, c}
Workers == {w1, w2}
OnlyC == {c}
Balance == {"BALANCE_RECENT_LOAD"}
Loaded == (a :> 2) @@ (b :> 1) @@ (c :> 0)

Times(from, to) == [from |-> from, to |-> to]

Main ==
    [slots |-> {Times(0, 2), Times(2, 4), Times(5, 7)},
     duties |-> (d1 :> [at |-> Times(6, 8), load |-> 1, qualified |-> {a, b}]) @@
                (d2 :> [at |-> Times(8, 9), load |-> 2, qualified |-> {a, b}])]
\* one of its slots is too long to be solved for
TooLong == [Main EXCEPT !.slots = {Times(0, 2), Times(2, 4), Times(2, 6)}]
TwoSchedules == {Main, TooLong}

Whole == {Times(0, 9)}
Costs(one, two) == (d1 :> one) @@ (d2 :> two)
Ask(name, from, to) == [name |-> name, at |-> Times(from, to), invite |-> TRUE]

\* The intervals of a overlap, touch, and lie within one another; the plan
\* that balances the load is the less convenient one.
Pieces ==
    [avail |-> {Times(0, 3), Times(0, 2), Times(1, 2), Times(3, 4), Times(4, 9)},
     review |-> Whole, asks |-> {}, cost |-> Costs(2, 0)]
Open == [avail |-> Whole, review |-> Whole, asks |-> {}, cost |-> Costs(0, 1)]
\* Two conditions overlap the first slot, and the second; one the third.
Soft == [avail |-> Whole, review |-> Whole, asks |-> {Ask(x, 0, 3), Ask(y, 1, 6)},
         cost |-> Costs(1, 1)]
\* Only the second slot does not suit.
Early == [Open EXCEPT !.asks = {Ask(x, 2, 4)}]
Menus == (a :> {Pieces}) @@ (b :> {Open}) @@ (c :> {Soft, Early})

Names == Permutations(Workers)

---------------------------------------------------------- \* How it is kept
First == Times(0, 2)
Ask1(left) == [name |-> x, slot |-> First, context |-> 1, left |-> left]
Told1(left) == [context |-> 1, left |-> left]
Given1(left, status) == [name |-> y, slot |-> First, context |-> 1, left |-> left, status |-> status]
Said1(left, status) ==
    [context |-> 1, left |-> left, published |-> FALSE, status |-> status]

SomeOwners ==
    [accepted : {1}, confirmed : {None}, draft : {None}, offers : SUBSET {Ask1(0), Ask1(1)},
     previews : {{}, {Told1(0)}, {Told1(1)}},
     exceptions : SUBSET {Given1(0, "ACTIVE"), Given1(1, "ACTIVE"), Given1(0, "DECLINED")},
     disclosures : {{}, {Said1(0, "ACTIVE")}, {Said1(1, "ACTIVE")}, {Said1(0, "DECLINED")}},
     approval : {0, 1}]

Created == CHOOSE r \in CreatedRooms : r.schedule = Main

SomeProposals ==
    {[version |-> 1, context |-> 1, policy |-> "BALANCE_RECENT_LOAD", left |-> left,
      plan |-> CHOOSE p \in StructuralPlans(Main) : TRUE] : left \in {0, 1}}

SomeRooms ==
    {[Created EXCEPT !.owner[c] = o, !.proposal = p, !.status = IF p = None THEN "SOLVING" ELSE "PROPOSED"] :
        o \in SomeOwners, p \in SomeProposals \cup {None}}

\* The sweep that finds an expired proposal nobody has approved is the one that
\* gives nothing back (isSafeTransition): a look at the room that does no more
\* may not use the space that is kept free, and is refused where a state has
\* grown into it.
ASSUME SweepsThatKeepEverything ==
    LET Nothing(r) == Sweep(r) # r /\ ~IsSafeTransition(r, Sweep(r))
        Unapproved(r) == /\ r.proposal # None /\ Lapsed(r.proposal)
                         /\ \A m \in Member : r.owner[m].approval = 0
        OnlyIt(r) == WithoutLapsed(r) = r
    IN  /\ \A r \in SomeRooms : Nothing(r) <=> Unapproved(r) /\ OnlyIt(r)
        /\ \E r \in SomeRooms : Nothing(r)

Sizes == [exception : {1, 5}, preview : {2, 7}, disclosure : {3, 6}, overhead : {0, 1}]

\* an offer that is allowed, and a preview that is answered
Allowed(r, o) ==
    AddDisclosurePreview(
        [r EXCEPT !.owner[c].offers = @ \ {o},
                  !.owner[c].exceptions = @ \cup {Given1(o.left, "ACTIVE")}], c, o.left)
Decided(r, p) ==
    [r EXCEPT !.owner[c].previews = @ \ {p}, !.owner[c].disclosures = @ \cup {Said1(1, "ACTIVE")}]

Responses(r) ==
    {Allowed(r, o) : o \in r.owner[c].offers} \cup {Decided(r, p) : p \in r.owner[c].previews}

\* Whatever may still be answered has its bytes reserved: what an answer adds
\* is never more than what it takes off the reservation, so a room that fits
\* with its reservation stays so (pendingResponseByteReservations).
ASSUME AnswersFitTheirReservation ==
    LET Waiting(r) ==
          /\ r.proposal = None /\ r.owner[c].approval = 0
          /\ r.owner[c].previews # {} => r.owner[c].disclosures = {}
          /\ Given1(0, "ACTIVE") \notin r.owner[c].exceptions
          /\ Given1(1, "ACTIVE") \notin r.owner[c].exceptions
    IN  \A r \in {r \in SomeRooms : Waiting(r)}, size \in Sizes : \A s \in Responses(r) :
            PendingResponseByteReservations(s, size) + ResponseBytes(r, s, c, size)
              <= PendingResponseByteReservations(r, size)

(* Receipts.                                                               *)
SomeGuards ==
    {g \in [version : {7}, incarnation : {"i"}, ordinary : {0, 1, 4095, 4096}, permission : 0..HistoryLimit,
            safety : {0, 1, 319, 320}, total : {0, 1, 4095, 4096} \cup 4097..4104 \cup 4414..4420] :
        GuardFits(g)}

SomeSteps ==
    {s \in [command : RoomCommands \cup {NoCommand}, new : BOOLEAN, ok : BOOLEAN, changed : BOOLEAN,
            delta : -1..2, protected : {TRUE}, bytes : {0}, reserved : {0}] :
        s.new => s.command # NoCommand}

\* the reserves are drawn on when the ordinary receipts are used up
Drawn(g) ==
    /\ g.total <= g.ordinary + g.permission + g.safety
    /\ g.ordinary < OrdinaryReceiptLimit => g.total = g.ordinary /\ g.safety = 0

Outcome(g, s) == Transaction(g, s, g.permission + s.delta, 0)

\* A guard that was written can be read again, the counters only grow, the
\* permission receipts are the records of the room, and the total is used up
\* only when each of the three limits is: 4608 = 4096 + 192 + 320.
ASSUME GuardsCanBeRead ==
    \A g \in {g \in SomeGuards : Drawn(g)} :
        /\ g.total = TotalReceiptLimit =>
              /\ g.ordinary = OrdinaryReceiptLimit
              /\ g.permission = HistoryLimit /\ g.safety = SafetyReceiptLimit
        /\ \A s \in SomeSteps :
              LET out == Outcome(g, s) IN
              /\ out.outcome = "WRITTEN" =>
                    /\ GuardFits(out.guard) /\ Drawn(out.guard)
                    /\ out.guard.total = g.total + (IF s.new THEN 1 ELSE 0)
                    /\ out.guard.permission = g.permission + s.delta
              /\ out.outcome # "WRITTEN" => out.guard = g

\* A permission can be given, refused and taken back as long as there are
\* receipts of its kind, when all ordinary ones are used up; nothing else can,
\* and what would be refused is not answered at all.
ASSUME ReservesAreForPermissions ==
    \A g \in {g \in SomeGuards : Drawn(g) /\ g.ordinary = OrdinaryReceiptLimit} :
        \A s \in {s \in SomeSteps : s.new /\ s.changed /\ s.delta \in {0, 1}} :
            Outcome(g, s).outcome = "WRITTEN" <=>
                /\ s.ok
                /\ \/ s.command \in PermissionCommands /\ s.delta = 1 /\ g.permission < HistoryLimit
                   \/ s.command \in SafetyCommands /\ s.delta = 0 /\ g.safety < SafetyReceiptLimit

(* Items.                                                                  *)
Stored(r) == Create({}, "one", r, "i", 0, [exception |-> 1, preview |-> 1, disclosure |-> 1, overhead |-> 1])
Applied == [ok |-> TRUE, says |-> "VERSION"]
Receipt(incarnation) == EncodeReplayItem("one", incarnation, [key |-> "k", result |-> Applied])

\* What was stored is read back, with the receipt asked for if it is one of
\* this room; a half of it, or a decision under the same name, is no room and
\* no room either is created over it.
ASSUME RoomsReadBack ==
    \A r \in CreatedRooms :
        LET out == Stored(r)
            items == out.items
            again == Create(items, "one", r, "j", 0, [exception |-> 1, preview |-> 1, disclosure |-> 1, overhead |-> 1])
        IN  /\ out.outcome = "CREATED"
            /\ Load(items, "one", "k") = LoadedRoom(r, NewGuard("i"), Absent)
            /\ Load(items, "two", "k") = Absent
            /\ Load(items \cup {Receipt("i")}, "one", "k").replay.result = Applied
            /\ Load(items \cup {Receipt("i")}, "one", "l").replay = Absent
            /\ Load(items \cup {Receipt("h")}, "one", "k") = Corrupt
            /\ Load({Receipt("i")}, "one", "k") = Absent
            /\ \A i \in items : Load({i}, "one", "k") = Corrupt
            /\ again = [outcome |-> "EXISTS", items |-> items]
            /\ \A version \in {5, 6} :
                  LET decision == DecisionStateItem("one", version)
                      guard == EncodeGuardItem("one", NewGuard("i"))
                  IN  /\ DecodesAsDecision(decision, "one")
                      /\ Load({decision, guard}, "one", "k") = Corrupt
                      /\ Create({decision, guard}, "one", r, "j", 0,
                                [exception |-> 1, preview |-> 1, disclosure |-> 1, overhead |-> 1]).outcome = "EXISTS"
            /\ \A i \in items : ~DecodesAsDecision(i, "one")

\* A receipt is read back as what was stored; one of the other product is
\* none, but for a refusal that both have.
ASSUME ReceiptsReadBack ==
    \A result \in CommandResult \cup DecisionCommandResult :
        LET replay == [key |-> "k", result |-> result]
            item == ReplayItem("one", "i", replay)
            rooms == DecodeReplayItem(item, "one", "k", "i")
            decisions == DecodeDecisionReplayItem(item, "one", "k", "i")
        IN  /\ EncodeReplayItem("one", "i", replay) \in {item, Corrupt}
            /\ EncodeReplayItem("one", "i", replay) = item <=> rooms = replay
            /\ EncodeDecisionReplayItem("one", "i", replay) = item <=> decisions = replay
            /\ rooms = replay /\ decisions = replay
                  <=> ~result.ok /\ result.says \in RoomErrorCode \cap DecisionErrorCode
            /\ DecodeDecisionReplayItem(item, "one", "l", "i") = Corrupt
            /\ DecodeDecisionReplayItem(item, "one", "k", "h") = Corrupt

\* A decision and a room of one name exclude each other, and a decision is made
\* under a fence only while it holds.
ASSUME DecisionsAreCreatedOnce ==
    LET some == [parses : BOOLEAN, counted : BOOLEAN, reserved : {0, 8193},
                 bytes : {0, OrdinaryStateLimit, OrdinaryStateLimit + 1}]
    IN  \A d \in some, fence \in Fence, r \in CreatedRooms :
            LET out == CreateDecision({}, "one", d, "i", fence)
                again == CreateDecision(Stored(r).items, "one", d, "i", fence)
            IN  /\ out.outcome = "CREATED"
                      <=> /\ fence \in {"NONE", "HOLDS"} /\ d.parses /\ d.counted
                          /\ d.bytes <= OrdinaryStateLimit
                          /\ d.bytes + d.reserved <= ProtectedStateLimit
                /\ out.outcome = "CREATED" =>
                      /\ Create(out.items, "one", r, "j", 0,
                                [exception |-> 1, preview |-> 1, disclosure |-> 1, overhead |-> 1]).outcome = "EXISTS"
                      /\ CreateDecision(out.items, "one", d, "j", fence).outcome = "EXISTS"
                /\ out.outcome # "CREATED" => out.items = {}
                /\ again.outcome # "CREATED" /\ again.items = Stored(r).items

(* Writes of a room that nobody refuses: a look, or a command with a       *)
(* receipt, which may say what an older one said.                          *)
Look == [command |-> NoCommand, new |-> FALSE, ok |-> TRUE, changed |-> TRUE, delta |-> 0,
         protected |-> TRUE, bytes |-> 0, reserved |-> 0]
WithReceipt == [Look EXCEPT !.command = "ACCEPT_CONTEXT", !.new = TRUE]
SomeWrites == {[step |-> Look, key |-> "none"]} \cup [step : {WithReceipt}, key : {"k", "l"}]

Written(items, g, w) ==
    LET next == Transaction(g, w.step, g.permission, 0).guard
        state == EncodeStateItem("one", (CHOOSE r \in CreatedRooms : TRUE))
        replay == EncodeReplayItem("one", "i", [key |-> w.key, result |-> Applied])
    IN  [guard |-> next,
         out |-> Commit(items, "one", g, next, state, IF w.step.new THEN replay ELSE Absent)]

\* Who loaded the room before another's write cannot write any more, however
\* many writes there were and though the receipts may be as many as before;
\* a receipt is written once, and whoever loads the room again with its key
\* finds it.
ASSUME OneWritePerLoad ==
    \A r \in CreatedRooms, u \in SomeWrites, v \in SomeWrites, w \in SomeWrites :
        LET items == Stored(r).items
            old == NewGuard("i")
            first == Written(items, old, u)
            second == Written(first.out.items, first.guard, v)
            late(left) == Written(left, old, w).out
        IN  /\ first.out.outcome = "WRITTEN"
            /\ late(first.out.items) = [outcome |-> "AGAIN", items |-> first.out.items]
            /\ late(second.out.items) = [outcome |-> "AGAIN", items |-> second.out.items]
            /\ second.out.outcome = "AGAIN" <=> u.key = v.key /\ u.step.new
            /\ u.step.new => Load(second.out.items, "one", u.key).replay.result = Applied
            /\ LET latest == IF second.out.outcome = "WRITTEN" THEN second.guard ELSE first.guard
               IN  Load(second.out.items, "one", "m").guard = latest
            /\ \A i \in items : Written({i}, old, w).out.outcome = "AGAIN"

-------------------------------------------------- \* What the solver is given
SomeSchedules ==
    {[Main EXCEPT !.slots = slots, !.duties[d1].qualified = q, !.duties[d2].at = at] :
        slots \in {Main.slots, TooLong.slots, {Times(0, 2), Times(2, 4)}, {Times(0, 2), Times(2, 4), Times(5, 6)}},
        q \in {{a}, {a, b}, {a, x}, {}}, at \in {Times(8, 9), Times(9, 8)}}

SomeInputs ==
    [schedule : SomeSchedules, roster : {<<a, b, c>>, <<a, b>>, <<a, b, b>>, <<a, b, c, x>>},
     owners : {<<>>, <<a>>, <<c, a, b>>, <<a, a>>, <<x>>},
     grants : {<<>>, <<[id |-> 1, owner |-> a], [id |-> 2, owner |-> a]>>,
               <<[id |-> 1, owner |-> a], [id |-> 1, owner |-> b]>>, <<[id |-> 1, owner |-> x]>>}]

\* What the solver accepts its enumeration accepts too, and whatever plan comes
\* out of it can be shown and hashed as a proposal of a room with that roster:
\* no solver run fails for the form of what it was given.
ASSUME PlansCanBeProposed ==
    LET accepted == {input \in SomeInputs : InputParses(input)}
    IN  /\ \A input \in accepted :
              /\ EnumerationAccepts(input.schedule, input.roster)
              /\ \A plan \in StructuralPlans(input.schedule) :
                    PublicPayloadFits(input.schedule, Range(input.roster), plan)
        /\ {input.schedule.slots : input \in accepted} = {Main.slots, TooLong.slots}

\* What a room hands to the solver it accepts: all its members, those who have
\* confirmed, and every grant they ever gave.
ASSUME RoomsAreAccepted ==
    \A r \in SomeRooms, order \in {<<a, b, c>>, <<c, b, a>>} :
        LET gave == SetToSeq(UNION {{[owner |-> m, grant |-> g] : g \in r.owner[m].exceptions} : m \in Member})
        IN  InputParses([schedule |-> r.schedule, roster |-> order,
                         owners |-> SelectSeq(order, LAMBDA m : r.owner[m].confirmed # None),
                         grants |-> [i \in DOMAIN gave |-> [id |-> i, owner |-> gave[i].owner]]])
=============================================================================
