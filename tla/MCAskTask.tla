----------------------------- MODULE MCAskTask -----------------------------
(* AskTask on a small instance: conversations of up to four turns whose texts are    *)
(* short, longer than a message may be, or wide; four rows of evidence, of which the    *)
(* second does not fit; a web of three usable URLs on two hosts, one repeated       *)
(* under another spelling, one refused and one with a port that does not parse.        *)
EXTENDS AskTask

(* Conversations.  Budgets are such that a summary, a relevant turn and the second      *)
(* recent turn each fit or not depending on the texts.                               *)
MCBudget == <<44, 60>>
MCHeading == [summary |-> 5, relevant |-> 4, recent |-> 4]
MCRoleLabel == <<2, 3>>
MCQueryBudget == <<30, 40>>

Short == <<1>>
Long == <<1, 1, 1, 1, 1, 1, 1>>
Wide == <<3, 3, 3, 1>>
Huge == [i \in 1..25 |-> 1]     \* cut to the limit of a message, and still over the budget

MCTurn(k, text, words) ==
  <<[id |-> 3 * k, role |-> "user", text |-> text, words |-> words],
    [id |-> 3 * k + 1, role |-> "assistant", text |-> IF text = Short THEN Wide ELSE text,
     words |-> {}]>>

(* A question that was never answered dangles between two turns. *)
Dangling(k) == <<[id |-> 3 * k - 1, role |-> "user", text |-> Short, words |-> {"q"}]>>

MCHistories ==
  {<<>>, Dangling(1)} \cup {Dangling(3) \o MCTurn(3, t, {"q"}) : t \in {Short, Long, Huge}}
  \cup {MCTurn(1, t[1], {"q", "r"}) \o d \o MCTurn(2, t[2], w)
          \o MCTurn(3, t[3], {"q"}) \o MCTurn(4, t[4], {}) :
        t \in [1..4 -> {Short, Wide}] \cup {<<Short, Wide, Short, Long>>, <<Long, Short, Wide, Huge>>},
        w \in {{}, {"q", "r"}}, d \in {<<>>, Dangling(2)}}

MCConversations ==
  {[history |-> h, words |-> {"q", "r"}, summary |-> s, question |-> q] :
     h \in MCHistories, s \in {<<>>, Short, Wide \o Long \o Long \o Wide},
     q \in {Wide, Long \o Long \o Long \o Long}}

MCQuestions == {{}, {"self"}, {"current"}, {"self", "current", "compare"},
                {"tool"}, {"tool", "argument"}}

(* Evidence and what the model may make of it. *)
MCRows == {<<>>, <<[source |-> "r1", size |-> 3], [source |-> "r2", size |-> 3],
                   [source |-> "r3", size |-> 1], [source |-> "r4", size |-> 1]>>}

MCClaims == {{}, {0}, {1}, {2}, {3}, {1, 3}}
MCOutputs ==
  {[insufficient |-> i, claims |-> c, citations |-> t] :
     i \in BOOLEAN, c \in UNION {[1..n -> MCClaims] : n \in 0..2}, t \in {{}, {1}, {1, 3}}}

(* The web. *)
MCHits == {<<>>, <<"a", "a#", "b">>, <<"ftp", "b", "port">>}
MCHostOf == [u \in {"a", "a#", "b", "ftp", "port"} |-> IF u \in {"a", "a#"} THEN "A" ELSE "B"]
MCCanonicalOf == [u \in {"a", "a#", "b", "ftp", "port"} |-> IF u = "a#" THEN "a" ELSE u]
MCPageSize == [p \in {"p1", "p2", "thin"} |-> IF p = "p1" THEN 3 ELSE 2]
=============================================================================
