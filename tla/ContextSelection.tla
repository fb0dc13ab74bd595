-------------------------- MODULE ContextSelection --------------------------
(* The conversation context of an ask: which persisted turns, and how much of   *)
(* each, go into the prompt and into the retrieval query                        *)
(* (conversation/context.py, conversation/relevance.py and                      *)
(* _load_conversation_context of api/main.py).                                  *)
(*                                                                              *)
(* A text is the sequence of the UTF-8 widths of its characters, so its length  *)
(* is its characters and its sum its bytes; the lexical tokens of a message are *)
(* a set of words.  A size is a pair <<characters, bytes>>.                     *)
EXTENDS Integers, FiniteSets, SequencesExt, FiniteSetsExt

CONSTANTS
  MaxTurns,       \* conversation_context_max_turns
  ScanMessages,   \* conversation_context_history_scan_messages
  RelevantTurns,  \* conversation_context_relevant_turns
  Budget,         \* <<max_chars, max_bytes>> of the whole context
  MessageChars,   \* conversation_context_max_message_chars
  SummaryChars,   \* conversation_summary_max_chars
  RelevantChars,  \* relevant_max_chars plus the 70 the code allows the label
  QueryBudget,    \* <<max_chars, max_bytes>> of the retrieval query
  Heading,        \* length of each tier's heading (ASCII)
  RoleLabel,      \* lengths of "user: " and of "assistant: " (ASCII)
  QueryFrame      \* length of the retrieval query's fixed text (ASCII)

Tiers == {"summary", "relevant", "recent"}

(* Settings bounds: the newest turn's labels and one character of each message, *)
(* of up to four bytes, fit (config.py:121-124, 132-133).                       *)
ASSUME BudgetsAssumption ==
  /\ {MaxTurns, ScanMessages} \subseteq Nat \ {0}
  /\ {RelevantTurns, MessageChars, SummaryChars, RelevantChars, QueryFrame} \subseteq Nat
  /\ Budget \in Nat \X Nat /\ QueryBudget \in Nat \X Nat
  /\ Heading \in [Tiers -> Nat \ {0}] /\ RoleLabel \in (Nat \ {0}) \X (Nat \ {0})
  /\ Heading.recent + RoleLabel[1] + RoleLabel[2] + 1 + 2 <= Budget[1]
  /\ Heading.recent + RoleLabel[1] + RoleLabel[2] + 1 + 2 * 4 <= Budget[2]

-----------------------------------------------------------------------------
(* Texts and sizes *)

Text == Seq(1..4)

Plus(s, t) == <<s[1] + t[1], s[2] + t[2]>>
Less(s, t) == <<Max({0, s[1] - t[1]}), Max({0, s[2] - t[2]})>>
Flat(n) == <<n, n>>
Fits(s, m) == s[1] <= m[1] /\ s[2] <= m[2]
Ascii(n) == [i \in 1..n |-> 1]
Size(text) == <<Len(text), SumFunction(text)>>

(* truncate_text_to_budget: the longest prefix within both limits. *)
Truncated(text, m) ==
  SubSeq(text, 1, Max({n \in 0..Len(text) : Fits(Size(SubSeq(text, 1, n)), m)}))

(* _render_messages and _component: labelled lines under a tier's heading; the  *)
(* messages of turns are a user's and an assistant's by turns.                  *)
Labelled(texts) ==
  [i \in DOMAIN texts |->
     Ascii(RoleLabel[2 - (i % 2)] + (IF i = 1 THEN 0 ELSE 1)) \o texts[i]]
RenderMessages(texts) == FlattenSeq(Labelled(texts))

Component(tier, body) == Ascii(Heading[tier]) \o body
TurnsComponent(tier, pairs) == Component(tier, RenderMessages(FlattenSeq(pairs)))

(* ConversationContext.render: the tiers that are present, two newlines apart.  *)
Joined(before, part) ==
  IF part = <<>> THEN before ELSE IF before = <<>> THEN part ELSE before \o Ascii(2) \o part

Render(context) ==
  LET summary == IF context.summary = <<>> THEN <<>> ELSE Component("summary", context.summary)
      turns(tier, pairs) == IF pairs = <<>> THEN <<>> ELSE TurnsComponent(tier, pairs)
  IN Joined(Joined(summary, turns("relevant", context.relevant)), turns("recent", context.recent))

(* retrieval_query: history as a prefix of the whole question, or the question. *)
SearchText(context, question) ==
  LET fixed == Plus(Flat(QueryFrame), Size(question))
  IN IF ~Fits(fixed, QueryBudget) THEN question
     ELSE Ascii(QueryFrame) \o Truncated(Render(context), Less(QueryBudget, fixed)) \o question

-----------------------------------------------------------------------------
(* Which turns *)

Chosen(turns, set) ==
  FoldLeft(LAMBDA kept, t : IF t \in set THEN Append(kept, t) ELSE kept, <<>>, turns)

(* _complete_turns: adjacent USER and ASSISTANT messages; the rest dangles. *)
CompleteTurns(messages) ==
  LET adjacent == [k \in 1..(Len(messages) - 1) |-> <<messages[k], messages[k + 1]>>]
  IN Chosen(adjacent, {t \in ToSet(adjacent) : t[1].role = "user" /\ t[2].role = "assistant"})

Newest(turns, n) == SubSeq(turns, Max({1, Len(turns) - n + 1}), Len(turns))
Ids(turns) == UNION {{turns[k][1].id, turns[k][2].id} : k \in DOMAIN turns}

Score(turn, words) == Cardinality(words \cap (turn[1].words \cup turn[2].words))

(* select_relevant_turns: the best-scoring turns outside the recent window, a   *)
(* tie to the newer, in the order they were asked.                              *)
Best(turns, words) ==
  LET better(s, t) == \/ Score(s, words) > Score(t, words)
                      \/ Score(s, words) = Score(t, words) /\ s[2].id > t[2].id
      scored == {t \in ToSet(turns) : Score(t, words) > 0}
  IN Chosen(turns, {t \in scored : Cardinality({s \in scored : better(s, t)}) < RelevantTurns})

(* A seeded bug: the recent window is not excluded. *)
RelevantWithRecent(turns, recent, words) == Best(turns, words)

Relevant(turns, recent, words) ==
  Best(Chosen(turns, {t \in ToSet(turns) : {t[1].id, t[2].id} \cap Ids(recent) = {}}), words)

-----------------------------------------------------------------------------
(* How much of each *)

(* _message_pair: both texts of a turn, each within the per-message limit. *)
Cut(turn) == [i \in 1..2 |-> Truncated(turn[i].text, <<MessageChars, Budget[2]>>)]
Cuts(turns) == [k \in DOMAIN turns |-> Cut(turns[k])]

(* _fit_newest_pair: the longer text loses its last character until both fit.   *)
Shorter(p) ==
  IF p[1] >= p[2] /\ p[1] > 1 THEN <<p[1] - 1, p[2]>>
  ELSE IF p[2] > 1 THEN <<p[1], p[2] - 1>> ELSE p

FitNewest(pair) ==
  LET full == [i \in 1..2 |-> IF pair[i] = <<>> THEN <<3>> ELSE pair[i]]
      rounds == Len(full[1]) + Len(full[2])
      lengths[k \in 0..rounds] ==
        IF k = 0 THEN <<Len(full[1]), Len(full[2])>> ELSE Shorter(lengths[k - 1])
      part(k) == [i \in 1..2 |-> SubSeq(full[i], 1, lengths[k][i])]
      fitting == {k \in 0..rounds : Fits(Size(TurnsComponent("recent", <<part(k)>>)), Budget)}
  IN part(Min({rounds} \cup fitting))

(* The space held for the newest turn before any other tier is placed. *)
ReserveWithoutSeparator(newest) == Size(TurnsComponent("recent", <<newest>>))   \* a seeded bug
Reserve(newest) == Plus(Size(TurnsComponent("recent", <<newest>>)), Flat(2))

(* The account the code keeps of what is placed, once one more component is.     *)
Separated(used) == IF used = <<0, 0>> THEN used ELSE Plus(used, Flat(2))
With(used, component) == Plus(Separated(used), Size(component))

(* The summary, cut to what its own limit and the room before the newest leave.  *)
SummaryTier(summary, room) ==
  LET left == Less(room, Flat(Heading.summary))
  IN Truncated(summary, <<Min({SummaryChars, left[1]}), left[2]>>)

(* Relevant turns in order, up to the first that does not fit. *)
RelevantTier(relevant, used, room) ==
  LET left == Less(room, Separated(used))
      fitting == {m \in 0..Len(relevant) :
                    Fits(Size(TurnsComponent("relevant", Cuts(SubSeq(relevant, 1, m)))),
                         <<Min({left[1], RelevantChars}), left[2]>>)}
  IN SubSeq(relevant, 1, Max({0} \cup fitting))

(* The newest turn, and before it older ones up to the first that does not fit.  *)
RecentTier(older, newest, used) ==
  LET body(m) == Cuts(Newest(older, m)) \o <<newest>>
      fitting == {m \in 0..Len(older) : Fits(With(used, TurnsComponent("recent", body(m))), Budget)}
  IN body(Max({0} \cup fitting))

(* assemble_conversation_context: the newest turn is reserved, then the summary, *)
(* then relevant turns, then older recent turns.                                 *)
Assemble(turns, relevant, summary) ==
  LET candidates == Newest(turns, MaxTurns)
      newest == FitNewest(Cut(Last(candidates)))
      room == Less(Budget, Reserve(newest))
      kept == SummaryTier(summary, room)
      afterSummary == IF kept = <<>> THEN <<0, 0>> ELSE Size(Component("summary", kept))
      shown == RelevantTier(relevant, afterSummary, room)
      used == IF shown = <<>> THEN afterSummary
              ELSE With(afterSummary, TurnsComponent("relevant", Cuts(shown)))
      recent == RecentTier(Front(candidates), newest, used)
  IN [summary |-> kept, relevant |-> Cuts(shown), relevantIds |-> Ids(shown),
      recent |-> recent, recentIds |-> Ids(Newest(candidates, Len(recent))),
      size |-> With(used, TurnsComponent("recent", recent))]

NoContext == [summary |-> <<>>, relevant |-> <<>>, relevantIds |-> {},
              recent |-> <<>>, recentIds |-> {}, size |-> <<0, 0>>]

(* _load_conversation_context: the newest persisted messages, at most            *)
(* ScanMessages of them; a conversation with no complete turn gives no context.  *)
Context(history, words, summary) ==
  LET turns == CompleteTurns(Newest(history, ScanMessages))
  IN IF turns = <<>> THEN NoContext
     ELSE Assemble(turns, Relevant(turns, Newest(turns, MaxTurns), words), summary)
=============================================================================
