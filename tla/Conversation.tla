---------------------------- MODULE Conversation ----------------------------
(***************************************************************************)
(* One row id of the conversations table: the messages that asks append to *)
(* it from request threads, its deletion and the reuse of its id, and the  *)
(* summary that the single background worker of SummaryCoordinator keeps   *)
(* (conversation/repositories.py, summary.py, coordinator.py and the       *)
(* conversation part of api/main.py).                                      *)
(*                                                                         *)
(* The tables have INTEGER PRIMARY KEY ids without AUTOINCREMENT: SQLite   *)
(* gives the largest id out again once its row is gone.  The model has one *)
(* conversation whose messages are the only rows, so a message's id is its *)
(* position in messages and a new conversation starts at 1 again.  The     *)
(* order of created_at is taken to be the order of the ids.                *)
(***************************************************************************)
EXTENDS Naturals, Sequences, FiniteSets

CONSTANTS Asks,          \* asks that bind the conversation id
          MaxEpoch,      \* bound: conversations created under this id
          RecentTurns,   \* SummaryConfig.recent_turns
          TriggerTurns,  \* SummaryConfig.trigger_new_turns
          MaxBatchTurns  \* SummaryConfig.max_batch_turns

ASSUME BoundAssumption == MaxEpoch \in Nat \ {0}
ASSUME ConfigAssumption ==
  RecentTurns \in Nat \ {0} /\ TriggerTurns \in Nat \ {0} /\ MaxBatchTurns \in Nat \ {0}

VARIABLES
  live,      \* the row of the conversation exists
  epoch,     \* conversations created under the id so far
  messages,  \* its messages, by id
  summary,   \* its summary, covered = 0 when there is none
  stage,     \* progress of each ask
  boundTo,   \* history: the epoch whose row the ask was validated against
  overlap,   \* history: asks whose question was stored while another ask was open
  active,    \* SummaryCoordinator._active
  stopping,  \* progress of SummaryCoordinator.shutdown
  worker     \* the refresh that was submitted to the coordinator's executor

rows == <<live, epoch, messages, summary>>
askVars == <<stage, boundTo, overlap>>
coordinator == <<active, stopping, worker>>
vars == <<live, epoch, messages, summary, stage, boundTo, overlap, active, stopping, worker>>

AskStages == {"new", "bound", "generating", "schedule", "submit", "done"}
NoSummary == [covered |-> 0, content |-> {}]
NoWorker == [pc |-> "none", base |-> NoSummary, recent |-> {}, upto |-> 0, turns |-> {}]

\* _complete_turns: a USER message with an ASSISTANT message next to it
TurnStarts(log) ==
  {i \in 1..(Len(log) - 1) : log[i].role = "USER" /\ log[i + 1].role = "ASSISTANT"}

Turn(log, i) == <<log[i].ask, log[i + 1].ask>>

\* list_bounded_for_conversation: ids of the newest messages
Newest(log, n) == {i \in 1..Len(log) : i > Len(log) - n}

\* complete turns among list_after_message_id that are outside the recent window
Eligible(log, covered, recent) ==
  {i \in TurnStarts(log) : /\ i > covered
                           /\ i + 1 <= covered + 2 * (MaxBatchTurns + 1)
                           /\ i + 1 \notin recent}

Open(a) == stage[a] = "generating"

Goto(a, next) == stage' = [stage EXCEPT ![a] = next]
-----------------------------------------------------------------------------
Init ==
  /\ live = TRUE /\ epoch = 1
  /\ messages = <<>> /\ summary = NoSummary
  /\ stage = [a \in Asks |-> "new"]
  /\ boundTo = [a \in Asks |-> 0]
  /\ overlap = {}
  /\ active = FALSE /\ stopping = "no" /\ worker = NoWorker

\* the rows of the other tables go with it (ON DELETE CASCADE)
Delete ==
  /\ live
  /\ live' = FALSE
  /\ messages' = <<>> /\ summary' = NoSummary
  /\ UNCHANGED <<epoch, askVars, coordinator>>

\* create_conversation: the id of the deleted row is the largest again
Create ==
  /\ ~live /\ epoch < MaxEpoch
  /\ live' = TRUE
  /\ epoch' = epoch + 1
  /\ UNCHANGED <<messages, summary, askVars, coordinator>>

\* _validate_conversation_binding
Bind(a) ==
  /\ stage[a] = "new" /\ live
  /\ boundTo' = [boundTo EXCEPT ![a] = epoch]
  /\ Goto(a, "bound")
  /\ UNCHANGED <<rows, overlap, coordinator>>

\* MessageRepository.append, one transaction: None when the row is not there
AppendMessage(a, role) ==
  messages' = IF live THEN Append(messages, [role |-> role, ask |-> a]) ELSE messages

\* seeded bug: a question that could not be stored does not end the ask
AppendQuestionFailsSoft(a) ==
  /\ stage[a] = "bound"
  /\ \/ AppendMessage(a, "USER")
     \/ UNCHANGED messages
  /\ Goto(a, IF live THEN "generating" ELSE "done")
  /\ LET others == {b \in Asks : Open(b)}
     IN overlap' = IF live /\ others # {} THEN overlap \cup others \cup {a} ELSE overlap
  /\ UNCHANGED <<live, epoch, summary, boundTo, coordinator>>

AppendQuestion(a) ==
  /\ stage[a] = "bound"
  /\ AppendMessage(a, "USER")
  /\ Goto(a, IF live THEN "generating" ELSE "done")
  /\ LET others == {b \in Asks : Open(b)}
     IN overlap' = IF live /\ others # {} THEN overlap \cup others \cup {a} ELSE overlap
  /\ UNCHANGED <<live, epoch, summary, boundTo, coordinator>>

\* the answer is refused, late or an error: the question stays without an answer
NoAnswer(a) ==
  /\ stage[a] = "generating"
  /\ Goto(a, "done")
  /\ UNCHANGED <<rows, boundTo, overlap, coordinator>>

\* _persist_assistant_answer
AppendAnswer(a) ==
  /\ stage[a] = "generating"
  /\ AppendMessage(a, "ASSISTANT")
  /\ Goto(a, IF live THEN "schedule" ELSE "done")
  /\ UNCHANGED <<live, epoch, summary, boundTo, overlap, coordinator>>

\* seeded bug: the flag is set without being tested
ScheduleBlindly(a) ==
  /\ stage[a] = "schedule"
  /\ IF stopping # "no"
       THEN Goto(a, "done") /\ UNCHANGED active
       ELSE Goto(a, "submit") /\ active' = TRUE
  /\ UNCHANGED <<rows, boundTo, overlap, stopping, worker>>

\* SummaryCoordinator.schedule: drop the work unless the worker is idle
Schedule(a) ==
  /\ stage[a] = "schedule"
  /\ IF active \/ stopping # "no"
       THEN Goto(a, "done") /\ UNCHANGED active
       ELSE Goto(a, "submit") /\ active' = TRUE
  /\ UNCHANGED <<rows, boundTo, overlap, stopping, worker>>

SubmitRefresh(a) ==
  /\ stage[a] = "submit"
  /\ IF stopping = "stopped"
       THEN active' = FALSE /\ UNCHANGED worker
       ELSE worker' = [worker EXCEPT !.pc = "queued"] /\ UNCHANGED active
  /\ Goto(a, "done")
  /\ UNCHANGED <<rows, boundTo, overlap, stopping>>
-----------------------------------------------------------------------------
\* seeded bug: the refresh starts from an empty summary
ReadNoSummary ==
  /\ worker.pc = "queued"
  /\ worker' = [worker EXCEPT !.pc = "recent"]
  /\ UNCHANGED <<rows, askVars, active, stopping>>

(* ConversationSummaryService._refresh, in the coordinator's thread: three *)
(* reads that no transaction holds together, the provider call, the write. *)
ReadSummary ==
  /\ worker.pc = "queued"
  /\ worker' = [worker EXCEPT !.pc = "recent", !.base = summary]
  /\ UNCHANGED <<rows, askVars, active, stopping>>

ReadRecent ==
  /\ worker.pc = "recent"
  /\ worker' = [worker EXCEPT !.pc = "backlog", !.recent = Newest(messages, 2 * RecentTurns)]
  /\ UNCHANGED <<rows, askVars, active, stopping>>

\* the source budget may cut the batch short, after its first turn at the earliest
ReadBacklog ==
  /\ worker.pc = "backlog"
  /\ LET eligible == Eligible(messages, worker.base.covered, worker.recent)
         UpTo(i) == {j \in eligible : j <= i}
     IN /\ Cardinality(eligible) >= TriggerTurns
        /\ \E i \in eligible :
             /\ Cardinality(UpTo(i)) <= MaxBatchTurns
             /\ worker' = [worker EXCEPT !.pc = "provider", !.upto = i + 1,
                                         !.turns = {Turn(messages, j) : j \in UpTo(i)}]
  /\ UNCHANGED <<rows, askVars, active, stopping>>

\* too few turns, or a source budget below the first one
SkipRefresh ==
  /\ worker.pc = "backlog"
  /\ worker' = [worker EXCEPT !.pc = "ending"]
  /\ UNCHANGED <<rows, askVars, active, stopping>>

\* ConversationSummaryRepository.upsert, one transaction with its checks
Upsert ==
  /\ worker.pc = "provider"
  /\ IF /\ live
        /\ worker.upto \in DOMAIN messages
        /\ messages[worker.upto].role = "ASSISTANT"
        /\ worker.upto >= summary.covered
       THEN summary' = [covered |-> worker.upto, content |-> worker.base.content \cup worker.turns]
       ELSE UNCHANGED summary
  /\ worker' = [worker EXCEPT !.pc = "ending"]
  /\ UNCHANGED <<live, epoch, messages, askVars, active, stopping>>

\* provider failure, invalid JSON, blank summary, storage error
RefreshFails ==
  /\ worker.pc \in {"queued", "recent", "backlog", "provider"}
  /\ worker' = [worker EXCEPT !.pc = "ending"]
  /\ UNCHANGED <<rows, askVars, active, stopping>>

\* the finally clause of _run
RefreshEnds ==
  /\ worker.pc = "ending"
  /\ worker' = NoWorker
  /\ active' = FALSE
  /\ UNCHANGED <<rows, askVars, stopping>>

\* shutdown: the flag under the lock, then the executor with cancel_futures
StopScheduling ==
  /\ stopping = "no"
  /\ stopping' = "flagged"
  /\ UNCHANGED <<rows, askVars, active, worker>>

StopExecutor ==
  /\ stopping = "flagged"
  /\ stopping' = "stopped"
  /\ worker' = IF worker.pc = "queued" THEN NoWorker ELSE worker
  /\ UNCHANGED <<rows, askVars, active>>

\* the process has shut down and no request is left
Terminated ==
  /\ stopping = "stopped" /\ worker = NoWorker
  /\ \A a \in Asks : stage[a] \in {"new", "done"}
  /\ UNCHANGED vars
-----------------------------------------------------------------------------
Refresh ==
  \/ ReadSummary \/ ReadRecent \/ ReadBacklog \/ SkipRefresh \/ Upsert
  \/ RefreshFails \/ RefreshEnds

Serve(a) ==
  \/ AppendQuestion(a) \/ NoAnswer(a) \/ AppendAnswer(a) \/ Schedule(a) \/ SubmitRefresh(a)

Next ==
  \/ Delete \/ Create
  \/ \E a \in Asks : Bind(a) \/ Serve(a)
  \/ Refresh
  \/ StopScheduling \/ StopExecutor
  \/ Terminated

Spec == Init /\ [][Next]_vars
-----------------------------------------------------------------------------
Messages == [role : {"USER", "ASSISTANT"}, ask : Asks]
Summaries(turns) == [covered : Nat, content : SUBSET turns]
Refreshes(turns) ==
  [pc : {"none", "queued", "recent", "backlog", "provider", "ending"},
   base : Summaries(turns), recent : SUBSET Nat, upto : Nat, turns : SUBSET turns]

\* Roles, coverage and the refresh keep the types of their columns and dataclasses.
TypeOK ==
  /\ live \in BOOLEAN
  /\ epoch \in Nat
  /\ messages \in Seq(Messages)
  /\ summary \in Summaries(Asks \X Asks)
  /\ stage \in [Asks -> AskStages]
  /\ boundTo \in [Asks -> Nat]
  /\ overlap \subseteq Asks
  /\ active \in BOOLEAN
  /\ stopping \in {"no", "flagged", "stopped"}
  /\ worker \in Refreshes(Asks \X Asks)

\* A summary covers up to an answer of its own conversation and goes with it (upsert and
\* the cascade of the foreign keys), whatever was deleted while the provider worked.
CoverageIsAnAnswer ==
  /\ ~live => messages = <<>>
  /\ summary.covered # 0 => /\ summary.covered \in DOMAIN messages
                            /\ messages[summary.covered].role = "ASSISTANT"

\* A refresh never overwrites a summary it was not built from, although nothing holds the
\* row between its read and its write: the single worker does (SummaryCoordinator), and a
\* conversation under a recycled id has no summary until that worker is done.
RefreshExtendsCurrent ==
  worker.pc \in {"recent", "backlog", "provider"} /\ summary # NoSummary =>
    worker.base = summary

\* Run at most one refresh globally (SummaryCoordinator): the flag is set from the moment
\* a request wins schedule until the refresh has ended, through submit and shutdown.
OneRefreshAtATime ==
  LET submitting == {a \in Asks : stage[a] = "submit"}
  IN /\ \A a, b \in submitting : a = b
     /\ submitting # {} => active /\ worker = NoWorker
     /\ worker # NoWorker => active

\* An answer stands next to another ask's question only when the two overlapped: asks that
\* follow one another are paired correctly, with any failures between them.
MispairNeedsOverlap ==
  \A i \in TurnStarts(messages) :
    messages[i].ask # messages[i + 1].ask =>
      messages[i].ask \in overlap /\ messages[i + 1].ask \in overlap

\* The flag that drops work does not stick while the executor accepts work: whenever it is
\* set, some request is about to submit or the worker has a refresh that will clear it.
ActiveHasAWorker ==
  active /\ stopping # "stopped" =>
    worker # NoWorker \/ \E a \in Asks : stage[a] = "submit"
-----------------------------------------------------------------------------

\* api/main.py, _persist_assistant_answer: an answer whose conversation was deleted is not
\* disclosed in another.
AnswersStayHome ==
  \A i \in DOMAIN messages : boundTo[messages[i].ask] = epoch
=============================================================================
