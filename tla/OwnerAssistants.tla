-------------------------- MODULE OwnerAssistants --------------------------
(***************************************************************************)
(* The assistants of one person: the conversation that drafts conditions   *)
(* (packages/application/src/owner-conversation.ts) and the chat of a      *)
(* decision, whose messages are the group's or one person's                *)
(* (packages/application/src/assistant-chat.ts, with its contract and the  *)
(* plans a model may answer with).  Their jobs are in RequestJobs.         *)
(*                                                                         *)
(* Text is a token with a length; time counts what the retention allows.   *)
(* Left out: wording, labels of values, prompts.                           *)
(***************************************************************************)
EXTENDS Naturals, Sequences, FiniteSets
LOCAL INSTANCE SequencesExt

CONSTANTS
    Retention,  \* RETENTION_MS, in ticks of the clock
    MaxHistory, \* bound: messages a decision may hold
    Nobody,     \* no person
    NoMessage   \* the id of no message

------------------------------------------------ \* Drafting conditions
\* A conversation is a sequence of turns that ends with its owner's.
ParseMessages(turns) ==
    LET total == FoldLeft(LAMBDA n, t : n + t.length, 0, turns)
    IN  /\ Len(turns) \in 1..12
        /\ \A i \in DOMAIN turns : turns[i].role \in {"owner", "assistant"} /\ turns[i].length \in 1..2000
        /\ total <= 8000
        /\ Last(turns).role = "owner"

\* Everybody who is required has confirmed the frame, and so has the owner.
MayInterpret(snapshot) ==
    snapshot.required \cup {snapshot.owner} \subseteq snapshot.confirmed

(* assertCurrent() before and after the model: the same person of the same *)
(* context, who has saved and drafted nothing since.                       *)
StillCurrent(before, now, enabled, expired) ==
    /\ enabled /\ ~expired
    /\ \A field \in {"controlVersion", "ownerVersion", "draftVersion", "owner", "context"} :
          now[field] = before[field]

ParseInterpretation(output) ==
    output.fields /\ output.constraintsValid /\ output.unsupportedValid

\* What a model proposed under names of our own; nothing is left out and
\* nothing it wrote is kept but the rules.
PrepareDraft(snapshot, id, output) ==
    [draft |-> id, version |-> snapshot.draftVersion + 1, owner |-> snapshot.owner,
     ownerVersion |-> snapshot.ownerVersion, context |-> snapshot.context,
     constraints |-> [i \in DOMAIN output.constraints |->
                        [id |-> <<id, "condition", i>>, kind |-> output.constraints[i].kind,
                         rule |-> IF output.constraints[i].kind = "PREFERENCE"
                                  THEN output.constraints[i].rule ELSE <<id, "rule", i>>]],
     unsupported |-> [i \in DOMAIN output.unsupported |-> <<id, "clarification", i>>]]

Prepare(snapshot, now, turns, output, id, enabled, expired) ==
    CASE ~ParseMessages(turns) -> "INVALID_INPUT"
      [] ~MayInterpret(snapshot) -> "FRAME_NOT_CONFIRMED"
      [] ~StillCurrent(snapshot, now, enabled, expired) -> "INVALID_INTERPRETATION"
      [] ~ParseInterpretation(output) -> "INVALID_INTERPRETATION"
      [] OTHER -> "DRAFT"

------------------------------------------------------- \* The chat's state
(* members: who may act for the decision; version: its context and its     *)
(* public revision; messages: of every person and scope, in order.         *)
NewChat(people) == [members |-> people, version |-> 1, clock |-> 0, messages |-> <<>>]

Live(s) == SelectSeq(s.messages, LAMBDA m : m.expires > s.clock)

Visible(m, scope, who) == m.scope = scope /\ (scope = "group" \/ m.owner = who)

\* The contract of a message, and of all of them.
IsMessage(m) ==
    /\ (m.scope = "private") = (m.owner # Nobody)
    /\ (m.author = Nobody) = (m.replyTo # NoMessage)
    /\ m.scope = "private" /\ m.author # Nobody => m.author = m.owner
    /\ m.ask => m.author # Nobody /\ m.source
    /\ m.expires > m.created /\ m.expires - m.created <= Retention

FitsHistory(messages) ==
    /\ Len(messages) <= MaxHistory
    /\ Cardinality({messages[i].id : i \in DOMAIN messages}) = Len(messages)

\* read(): what is over goes, for everybody.
Read(s, who, scope) ==
    IF who \notin s.members THEN [code |-> "NOT_FOUND", state |-> s, shown |-> <<>>]
    ELSE [code |-> "OK", state |-> [s EXCEPT !.messages = Live(s)],
          shown |-> SelectSeq(Live(s), LAMBDA m : Visible(m, scope, who))]

(* Asking the assistant needs consent, and what is shared asks nobody.     *)
IsPost(post) == (post.ask => post.consent) /\ (post.share # NoMessage => ~post.ask)

\* A text may be posted to the group from one's own private message of it.
MayShare(messages, who, scope, post) ==
    /\ scope = "group"
    /\ \E i \in DOMAIN messages :
          /\ messages[i].id = post.share /\ messages[i].scope = "private"
          /\ messages[i].owner = who /\ messages[i].text = post.text

\* until: what is left of the sender's own retention.
Post(s, who, scope, post, until) ==
    LET Answer(code) == [code |-> code, created |-> FALSE, state |-> s]
        same == SelectSeq(Live(s), LAMBDA m : m.id = post.id)
        expires == IF until < s.clock + Retention THEN until ELSE s.clock + Retention
        message == [id |-> post.id, scope |-> scope, author |-> who, text |-> post.text,
                    owner |-> IF scope = "private" THEN who ELSE Nobody, ask |-> post.ask,
                    created |-> s.clock, expires |-> expires, replyTo |-> NoMessage,
                    source |-> post.ask, version |-> s.version]
    IN  CASE ~IsPost(post) -> Answer("INVALID_COMMAND")
          [] who \notin s.members -> Answer("NOT_FOUND")
          [] same # <<>> ->
                IF /\ same[1].author = who /\ Visible(same[1], scope, who)
                   /\ same[1].text = post.text /\ same[1].ask = post.ask
                THEN Answer("OK") ELSE Answer("STALE_CONTEXT")
          [] post.share # NoMessage /\ ~MayShare(Live(s), who, scope, post) -> Answer("FORBIDDEN")
          [] expires <= s.clock -> Answer("FORBIDDEN")
          [] ~FitsHistory(Append(Live(s), message)) -> Answer("CAPACITY_EXCEEDED")
          [] OTHER -> [code |-> "OK", created |-> TRUE,
                       state |-> [s EXCEPT !.messages = Append(Live(s), message)]]

(* context(): what a model is given of the conversation, up to the         *)
(* question, with the version it belongs to.                               *)
Question(s, who, scope, id) ==
    SelectInSeq(SelectSeq(Live(s), LAMBDA m : Visible(m, scope, who)),
                LAMBDA m : m.id = id /\ m.author = who /\ m.ask)

MaxContext == 8

Context(s, who, scope, id) ==
    LET history == SelectSeq(Live(s), LAMBDA m : Visible(m, scope, who))
        preceding == SubSeq(history, 1, Question(s, who, scope, id))
        asked == {preceding[i].id : i \in {j \in DOMAIN preceding : preceding[j].author = who}}
        mine == SelectSeq(preceding, LAMBDA m : m.author = who \/ m.replyTo \in asked)
        first == IF Len(mine) > MaxContext THEN Len(mine) - MaxContext + 1 ELSE 1
    IN  [version |-> s.version, messages |-> SubSeq(mine, first, Len(mine))]

MayContext(s, who, scope, id) == who \in s.members /\ Question(s, who, scope, id) > 0

\* reply(): fresh is what a second context() saw, s what is committed to.
Reply(s, who, scope, id, text, expected, fresh) ==
    LET Answer(code) == [code |-> code, state |-> s]
        at == SelectInSeq(s.messages, LAMBDA m : m.id = id /\ m.author = who /\ Visible(m, scope, who))
        reply == [s.messages[at] EXCEPT !.id = <<"reply", id>>, !.author = Nobody, !.text = text,
                                        !.created = s.clock, !.replyTo = id, !.ask = FALSE,
                                        !.source = FALSE, !.version = fresh]
    IN  CASE fresh # expected \/ s.version # fresh -> Answer("STALE_CONTEXT")
          [] who \notin s.members \/ at = 0 -> Answer("NOT_FOUND")
          [] s.messages[at].expires <= s.clock -> Answer("NOT_FOUND")
          [] \E i \in DOMAIN s.messages : s.messages[i].replyTo = id -> Answer("OK")
          [] ~FitsHistory(Append(Live(s), reply)) -> Answer("CAPACITY_EXCEEDED")
          [] OTHER -> [code |-> "OK", state |-> [s EXCEPT !.messages = Append(Live(s), reply)]]

------------------------------------------------- \* What an answer may say
Prose == {"CONVERSATION", "REFLECT", "OPTIONS"}
Focus == Prose \cup {"PROGRESS", "OUTCOME", "APPROVALS", "EXPLAIN", "PRIVACY", "ACTION", "ACKNOWLEDGE"}

\* decodeAssistantChatPlan(): <<>> is no plan.
DecodeAssistantChatPlan(raw) ==
    LET plan == [focus |-> raw.focus,
                 answer |-> IF raw.focus \in Prose THEN raw.answer ELSE "",
                 options |-> IF raw.focus = "OPTIONS" THEN raw.options ELSE <<>>]
    IN  IF Len(plan.options) > 3 \/ (plan.focus = "CONVERSATION" /\ plan.answer = "")
        THEN <<>> ELSE <<plan>>

\* sharedDecisionSummary(): from a public snapshot alone.
SharedDecisionSummary(snapshot) ==
    [status |-> snapshot.status, proposal |-> snapshot.proposal,
     required |-> Cardinality(snapshot.required),
     approved |-> Cardinality(snapshot.required \cap snapshot.approved),
     participants |-> [p \in snapshot.people |->
                         [answered |-> IF p \in DOMAIN snapshot.progress THEN snapshot.progress[p]
                                       ELSE "UNKNOWN",
                          approved |-> p \in snapshot.approved, required |-> p \in snapshot.required]]]

StatusLine(summary) ==
    CASE summary.status = "AGREED" -> "AGREED"
      [] summary.status = "CLOSED" -> "CLOSED"
      [] summary.proposal -> "READY_TO_REVIEW"
      [] summary.status = "REASONING" -> "REASONING"
      [] OTHER -> "NOTHING_YET"

ProgressLine(summary) ==
    LET Answered(a) == {p \in DOMAIN summary.participants : summary.participants[p].answered = a}
    IN  IF Answered("NO") # {} THEN [line |-> "WAITING", people |-> Answered("NO")]
        ELSE [line |-> IF Answered("UNKNOWN") = {} THEN "EVERYONE" ELSE "UNKNOWN", people |-> {}]

\* renderChatPlan(): the parts of the text; options are those of a context.
RenderChatPlan(plan, summary, options) ==
    LET facts == [status |-> StatusLine(summary), approved |-> summary.approved,
                  remaining |-> IF summary.required > summary.approved
                                THEN summary.required - summary.approved ELSE 0]
        Text(prose, fact, listed) == [code |-> "OK", prose |-> prose, facts |-> fact, options |-> listed]
    IN  CASE plan.focus \in {"PROGRESS", "OUTCOME", "APPROVALS"} -> Text("", <<facts>>, {})
          [] plan.focus = "OPTIONS" /\ \E i \in ToSet(plan.options) : i \notin DOMAIN options ->
                [code |-> "INVALID_COMMAND"]
          [] plan.focus = "OPTIONS" ->
                Text(plan.answer, <<>>,
                     IF plan.options # <<>> THEN ToSet(plan.options) ELSE {1, 2, 3} \cap DOMAIN options)
          [] plan.focus \in {"REFLECT", "CONVERSATION"} -> Text(plan.answer, <<>>, {})
          [] OTHER -> Text("", <<>>, {})
=============================================================================
