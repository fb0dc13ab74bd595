------------------------- MODULE Conversation_proofs -------------------------
(* Invariants of a conversation and its summary worker, for any number of  *)
(* asks, conversations under the id and any batch sizes.                   *)
EXTENDS Conversation, SequenceTheorems, TLAPS

USE BoundAssumption, ConfigAssumption

\* The last question belongs to an overlap when an ask other than its own is still open.
LastQuestionOverlaps ==
  \A b \in Asks :
    /\ messages # <<>> /\ messages[Len(messages)].role = "USER"
    /\ Open(b) /\ b # messages[Len(messages)].ask
    => b \in overlap /\ messages[Len(messages)].ask \in overlap

IInv ==
  /\ TypeOK /\ CoverageIsAnAnswer /\ OneRefreshAtATime /\ ActiveHasAWorker
  /\ RefreshExtendsCurrent /\ LastQuestionOverlaps /\ MispairNeedsOverlap
-----------------------------------------------------------------------------
LEMMA EmptyRows ==
  NoSummary \in Summaries(Asks \X Asks) /\ NoWorker \in Refreshes(Asks \X Asks)
<1>1. NoSummary \in Summaries(Asks \X Asks)
  BY DEF NoSummary, Summaries
<1>2. QED
  BY <1>1 DEF NoWorker, Refreshes

LEMMA InitIInv == Init => IInv
<1> SUFFICES ASSUME Init PROVE IInv
  OBVIOUS
<1> USE DEF Init, NoSummary, NoWorker
<1>1. TypeOK
  <2>1. summary \in Summaries(Asks \X Asks) /\ worker \in Refreshes(Asks \X Asks)
    BY EmptyRows
  <2>2. messages \in Seq(Messages)
    OBVIOUS
  <2>3. QED
    BY <2>1, <2>2 DEF TypeOK, AskStages
<1>2. CoverageIsAnAnswer /\ RefreshExtendsCurrent
  BY DEF CoverageIsAnAnswer, RefreshExtendsCurrent
<1>3. OneRefreshAtATime /\ ActiveHasAWorker
  BY DEF OneRefreshAtATime, ActiveHasAWorker
<1>4. LastQuestionOverlaps /\ MispairNeedsOverlap
  BY DEF LastQuestionOverlaps, MispairNeedsOverlap, TurnStarts
<1>5. QED
  BY <1>1, <1>2, <1>3, <1>4 DEF IInv

\* What a committed append leaves: the log is longer by one message of the ask.
LEMMA Appended ==
  ASSUME TypeOK, NEW a \in Asks, NEW role \in {"USER", "ASSISTANT"},
         AppendMessage(a, role), live
  PROVE  /\ messages' \in Seq(Messages)
         /\ Len(messages') = Len(messages) + 1 /\ Len(messages) \in Nat
         /\ messages'[Len(messages')] = [role |-> role, ask |-> a]
         /\ \A i \in 1..Len(messages) : messages'[i] = messages[i]
<1>1. messages \in Seq(Messages)
  BY DEF TypeOK
<1>2. [role |-> role, ask |-> a] \in Messages
  BY DEF Messages
<1>3. messages' = Append(messages, [role |-> role, ask |-> a])
  BY DEF AppendMessage
<1>4. QED
  BY <1>1, <1>2, <1>3, AppendProperties, LenProperties

\* An append leaves a log of messages whether or not the row was there.
LEMMA AppendTyped ==
  ASSUME TypeOK, NEW a \in Asks, NEW role \in {"USER", "ASSISTANT"}, AppendMessage(a, role)
  PROVE  messages' \in Seq(Messages)
<1>1. CASE live
  BY <1>1, Appended
<1>2. CASE ~live
  BY <1>2 DEF AppendMessage, TypeOK
<1>3. QED
  BY <1>1, <1>2

LEMMA TypeStep == TypeOK /\ [Next]_vars => TypeOK'
<1> SUFFICES ASSUME TypeOK, [Next]_vars PROVE TypeOK'
  OBVIOUS
<1> USE DEF TypeOK, AskStages, rows, askVars, coordinator
<1>1. CASE Delete
  <2>1. <<>> \in Seq(Messages)
    OBVIOUS
  <2>2. messages' \in Seq(Messages)
    BY <1>1, <2>1 DEF Delete
  <2>3. summary' \in Summaries(Asks \X Asks)
    BY <1>1, EmptyRows DEF Delete
  <2>4. QED
    BY <1>1, <2>2, <2>3 DEF Delete
<1>14. CASE Create
  BY <1>14 DEF Create
<1>2. ASSUME NEW a \in Asks, Bind(a) \/ NoAnswer(a) PROVE TypeOK'
  BY <1>2 DEF Bind, NoAnswer, Goto
<1>3. ASSUME NEW a \in Asks, AppendQuestion(a) PROVE TypeOK'
  <2>1. messages' \in Seq(Messages)
    BY <1>3, AppendTyped DEF AppendQuestion
  <2>2. QED
    BY <1>3, <2>1 DEF AppendQuestion, Goto
<1>4. ASSUME NEW a \in Asks, AppendAnswer(a) PROVE TypeOK'
  <2>1. messages' \in Seq(Messages)
    BY <1>4, AppendTyped DEF AppendAnswer
  <2>2. QED
    BY <1>4, <2>1 DEF AppendAnswer, Goto
<1>5. ASSUME NEW a \in Asks, Schedule(a) \/ SubmitRefresh(a) PROVE TypeOK'
  <2>1. worker' = worker \/ worker' = [worker EXCEPT !.pc = "queued"]
    BY <1>5 DEF Schedule, SubmitRefresh
  <2>4. worker' \in Refreshes(Asks \X Asks)
    BY <2>1 DEF Refreshes
  <2>2. stage' \in [Asks -> AskStages] /\ active' \in BOOLEAN
    BY <1>5 DEF Schedule, SubmitRefresh, Goto
  <2>3. QED
    BY <1>5, <2>4, <2>2 DEF Schedule, SubmitRefresh
<1>6. CASE ReadSummary \/ SkipRefresh \/ RefreshFails
  BY <1>6 DEF ReadSummary, SkipRefresh, RefreshFails, Refreshes
<1>7. CASE ReadRecent
  <2>1. Newest(messages, 2 * RecentTurns) \in SUBSET Nat
    BY DEF Newest
  <2>2. QED
    BY <1>7, <2>1 DEF ReadRecent, Refreshes
<1>8. CASE ReadBacklog
  <2> DEFINE eligible == Eligible(messages, worker.base.covered, worker.recent)
             UpTo(i) == {j \in eligible : j <= i}
  <2>1. PICK i \in eligible :
          worker' = [worker EXCEPT !.pc = "provider", !.upto = i + 1,
                                   !.turns = {Turn(messages, j) : j \in UpTo(i)}]
    BY <1>8 DEF ReadBacklog
  <2>2. \A j \in eligible : j \in Nat /\ Turn(messages, j) \in Asks \X Asks
    <3>1. \A k \in 1..Len(messages) : messages[k] \in Messages
      OBVIOUS
    <3>2. \A j \in eligible : j \in 1..Len(messages) /\ j + 1 \in 1..Len(messages)
      BY LenProperties DEF Eligible, TurnStarts
    <3>3. \A k \in 1..Len(messages) : messages[k].ask \in Asks
      BY <3>1 DEF Messages
    <3>4. QED
      BY <3>2, <3>3 DEF Turn
  <2>3. {Turn(messages, j) : j \in UpTo(i)} \in SUBSET (Asks \X Asks) /\ i + 1 \in Nat
    BY <2>2
  <2> HIDE DEF eligible, UpTo
  <2>4. worker' \in Refreshes(Asks \X Asks)
    BY <2>1, <2>3 DEF Refreshes
  <2>5. QED
    BY <1>8, <2>4 DEF ReadBacklog
<1>9. CASE Upsert
  <2>1. worker' \in Refreshes(Asks \X Asks)
    BY <1>9 DEF Upsert, Refreshes
  <2>2. /\ worker.upto \in Nat /\ worker.turns \subseteq Asks \X Asks
        /\ worker.base.content \subseteq Asks \X Asks
    BY DEF Refreshes, Summaries
  <2>3. summary' \in Summaries(Asks \X Asks)
    BY <1>9, <2>2 DEF Upsert, Summaries
  <2>4. QED
    BY <1>9, <2>1, <2>3 DEF Upsert
<1>10. CASE RefreshEnds
  BY <1>10, EmptyRows DEF RefreshEnds
<1>11. CASE StopScheduling \/ StopExecutor
  BY <1>11, EmptyRows DEF StopScheduling, StopExecutor
<1>12. CASE Terminated \/ UNCHANGED vars
  BY <1>12 DEF Terminated, vars
<1>13. QED
  BY <1>1, <1>2, <1>3, <1>4, <1>5, <1>6, <1>7, <1>8, <1>9, <1>10, <1>11, <1>12,
     <1>14
  DEF Next, Serve, Refresh

\* Messages are only added, and a deletion takes the summary with them.
LEMMA CoverageStep == TypeOK /\ CoverageIsAnAnswer /\ [Next]_vars => CoverageIsAnAnswer'
<1> SUFFICES ASSUME TypeOK, CoverageIsAnAnswer, [Next]_vars PROVE CoverageIsAnAnswer'
  OBVIOUS
<1> USE DEF CoverageIsAnAnswer, rows, askVars, coordinator
<1>1. ASSUME NEW a \in Asks, NEW role \in {"USER", "ASSISTANT"}, AppendMessage(a, role),
             UNCHANGED <<live, summary>>
      PROVE  CoverageIsAnAnswer'
  <2>1. CASE live
    <3>1. CASE summary.covered # 0
      <4>1. summary.covered \in 1..Len(messages)
        BY <3>1 DEF TypeOK
      <4>2. /\ Len(messages') = Len(messages) + 1 /\ Len(messages) \in Nat
            /\ messages'[summary.covered] = messages[summary.covered]
            /\ messages' \in Seq(Messages)
        BY <1>1, <2>1, <4>1, Appended
      <4>3. summary.covered \in DOMAIN messages'
        BY <4>1, <4>2
      <4>4. QED
        BY <1>1, <2>1, <3>1, <4>2, <4>3
    <3>2. QED
      BY <1>1, <2>1, <3>1
  <2>2. CASE ~live
    BY <1>1, <2>2 DEF AppendMessage
  <2>3. QED
    BY <2>1, <2>2
<1>2. CASE UNCHANGED <<live, messages, summary>>
  BY <1>2
<1>3. CASE Delete \/ Create
  BY <1>3 DEF Delete, Create, NoSummary, TypeOK, Summaries
<1>4. CASE Upsert
  BY <1>4 DEF Upsert
<1>5. ASSUME NEW a \in Asks, AppendQuestion(a) \/ AppendAnswer(a) PROVE CoverageIsAnAnswer'
  BY <1>1, <1>5 DEF AppendQuestion, AppendAnswer
<1>6. QED
  BY <1>2, <1>3, <1>4, <1>5
  DEF Next, Serve, Refresh, Bind, NoAnswer, Schedule, SubmitRefresh, ReadSummary, ReadRecent,
      ReadBacklog, SkipRefresh, RefreshFails, RefreshEnds, StopScheduling, StopExecutor,
      Terminated, vars

\* The flag is taken under the lock and given back by whoever took it.
LEMMA OneRefreshStep == TypeOK /\ OneRefreshAtATime /\ [Next]_vars => OneRefreshAtATime'
<1> SUFFICES ASSUME TypeOK, OneRefreshAtATime, [Next]_vars PROVE OneRefreshAtATime'
  OBVIOUS
<1> USE DEF TypeOK, OneRefreshAtATime, rows, askVars, coordinator
<1>1. CASE Delete \/ Create \/ StopScheduling \/ Terminated \/ UNCHANGED vars
  BY <1>1 DEF Delete, Create, StopScheduling, Terminated, vars
<1>2. ASSUME NEW a \in Asks, Bind(a) \/ NoAnswer(a) \/ AppendQuestion(a) \/ AppendAnswer(a)
      PROVE  OneRefreshAtATime'
  BY <1>2 DEF Bind, NoAnswer, AppendQuestion, AppendAnswer, Goto
<1>3. ASSUME NEW a \in Asks, Schedule(a) PROVE OneRefreshAtATime'
  BY <1>3 DEF Schedule, Goto
<1>4. ASSUME NEW a \in Asks, SubmitRefresh(a) PROVE OneRefreshAtATime'
  BY <1>4 DEF SubmitRefresh, Goto
<1>5. CASE ReadSummary \/ ReadRecent \/ SkipRefresh \/ Upsert \/ RefreshFails
  BY <1>5 DEF ReadSummary, ReadRecent, SkipRefresh, Upsert, RefreshFails, NoWorker
<1>6. CASE ReadBacklog
  BY <1>6 DEF ReadBacklog, NoWorker
<1>7. CASE RefreshEnds \/ StopExecutor
  BY <1>7 DEF RefreshEnds, StopExecutor, NoWorker
<1>8. QED
  BY <1>1, <1>2, <1>3, <1>4, <1>5, <1>6, <1>7 DEF Next, Serve, Refresh

\* Whoever holds the flag is on its way to clear it.
LEMMA ActiveStep == TypeOK /\ ActiveHasAWorker /\ [Next]_vars => ActiveHasAWorker'
<1> SUFFICES ASSUME TypeOK, ActiveHasAWorker, [Next]_vars PROVE ActiveHasAWorker'
  OBVIOUS
<1> USE DEF TypeOK, ActiveHasAWorker, rows, askVars, coordinator
<1>1. CASE Delete \/ Create \/ StopScheduling \/ Terminated \/ UNCHANGED vars
  BY <1>1 DEF Delete, Create, StopScheduling, Terminated, vars
<1>2. ASSUME NEW a \in Asks, Bind(a) \/ NoAnswer(a) \/ AppendQuestion(a) \/ AppendAnswer(a)
      PROVE  ActiveHasAWorker'
  BY <1>2 DEF Bind, NoAnswer, AppendQuestion, AppendAnswer, Goto
<1>3. ASSUME NEW a \in Asks, Schedule(a) PROVE ActiveHasAWorker'
  BY <1>3 DEF Schedule, Goto
<1>4. ASSUME NEW a \in Asks, SubmitRefresh(a) PROVE ActiveHasAWorker'
  BY <1>4 DEF SubmitRefresh, NoWorker, Refreshes
<1>5. CASE ReadSummary \/ ReadRecent \/ SkipRefresh \/ Upsert \/ RefreshFails
  <2>1. worker'.pc # "none"
    BY <1>5 DEF ReadSummary, ReadRecent, SkipRefresh, Upsert, RefreshFails, Refreshes
  <2>2. worker' # NoWorker
    BY <2>1 DEF NoWorker
  <2>3. QED
    BY <2>2
<1>6. CASE ReadBacklog
  <2>1. worker'.pc # "none"
    BY <1>6 DEF ReadBacklog, Refreshes
  <2>2. worker' # NoWorker
    BY <2>1 DEF NoWorker
  <2>3. QED
    BY <2>2
<1>7. CASE RefreshEnds \/ StopExecutor
  BY <1>7 DEF RefreshEnds, StopExecutor
<1>8. QED
  BY <1>1, <1>2, <1>3, <1>4, <1>5, <1>6, <1>7 DEF Next, Serve, Refresh

\* Only the worker itself, or a deletion, changes the summary after the worker read it.
LEMMA BaseStep == TypeOK /\ RefreshExtendsCurrent /\ [Next]_vars => RefreshExtendsCurrent'
<1> SUFFICES ASSUME TypeOK, RefreshExtendsCurrent, [Next]_vars PROVE RefreshExtendsCurrent'
  OBVIOUS
<1> USE DEF RefreshExtendsCurrent, rows, askVars, coordinator
<1>1. CASE UNCHANGED <<summary, worker>>
  BY <1>1
<1>2. CASE Delete \/ RefreshEnds \/ StopExecutor
  BY <1>2 DEF Delete, RefreshEnds, StopExecutor, NoWorker
<1>3. ASSUME NEW a \in Asks, SubmitRefresh(a) PROVE RefreshExtendsCurrent'
  BY <1>3 DEF SubmitRefresh, TypeOK, Refreshes
<1>4. CASE ReadSummary \/ ReadRecent \/ SkipRefresh \/ Upsert \/ RefreshFails
  BY <1>4 DEF ReadSummary, ReadRecent, SkipRefresh, Upsert, RefreshFails, TypeOK, Refreshes
<1>5. CASE ReadBacklog
  BY <1>5 DEF ReadBacklog, TypeOK, Refreshes
<1>6. QED
  BY <1>1, <1>2, <1>3, <1>4, <1>5
  DEF Next, Serve, Refresh, Create, Bind, AppendQuestion, NoAnswer, AppendAnswer, Schedule,
      StopScheduling, Terminated, vars

\* A question is stored with the knowledge of every ask that is open then.
LEMMA QuestionStep ==
  ASSUME TypeOK, LastQuestionOverlaps, MispairNeedsOverlap, NEW a \in Asks, AppendQuestion(a)
  PROVE  LastQuestionOverlaps' /\ MispairNeedsOverlap'
<1>1. CASE ~live
  BY <1>1 DEF AppendQuestion, AppendMessage, Goto, Open, TypeOK, LastQuestionOverlaps,
              MispairNeedsOverlap, TurnStarts
<1>2. CASE live
  <2>1. /\ Len(messages') = Len(messages) + 1 /\ Len(messages) \in Nat
        /\ messages'[Len(messages')] = [role |-> "USER", ask |-> a]
        /\ \A i \in 1..Len(messages) : messages'[i] = messages[i]
    BY <1>2, Appended DEF AppendQuestion
  <2>2. \A b \in Asks : Open(b)' /\ b # a => Open(b)
    BY DEF AppendQuestion, Goto, Open, TypeOK
  <2>3. \A b \in Asks : Open(b) => b \in overlap' /\ a \in overlap'
    BY <1>2 DEF AppendQuestion
  <2>4. overlap \subseteq overlap'
    BY DEF AppendQuestion
  <2>5. LastQuestionOverlaps'
    BY <2>1, <2>2, <2>3 DEF LastQuestionOverlaps
  <2>6. TurnStarts(messages') \subseteq TurnStarts(messages)
    BY <2>1 DEF TurnStarts
  <2>7. \A i \in TurnStarts(messages) : i \in 1..Len(messages) /\ i + 1 \in 1..Len(messages)
    BY <2>1 DEF TurnStarts
  <2>8. MispairNeedsOverlap'
    BY <2>1, <2>4, <2>6, <2>7 DEF MispairNeedsOverlap
  <2>9. QED
    BY <2>5, <2>8
<1>3. QED
  BY <1>1, <1>2 DEF TypeOK

\* An answer completes a turn with the question just before it.
LEMMA AnswerStep ==
  ASSUME TypeOK, LastQuestionOverlaps, MispairNeedsOverlap, NEW a \in Asks, AppendAnswer(a)
  PROVE  LastQuestionOverlaps' /\ MispairNeedsOverlap'
<1>1. CASE ~live
  BY <1>1 DEF AppendAnswer, AppendMessage, Goto, Open, TypeOK, LastQuestionOverlaps,
              MispairNeedsOverlap, TurnStarts
<1>2. CASE live
  <2>1. /\ Len(messages') = Len(messages) + 1 /\ Len(messages) \in Nat
        /\ messages'[Len(messages')] = [role |-> "ASSISTANT", ask |-> a]
        /\ \A i \in 1..Len(messages) : messages'[i] = messages[i]
    BY <1>2, Appended DEF AppendAnswer
  <2>2. LastQuestionOverlaps'
    BY <2>1 DEF LastQuestionOverlaps
  <2>3. overlap' = overlap /\ Open(a)
    BY DEF AppendAnswer, Open
  <2>4. ASSUME NEW i \in TurnStarts(messages'), messages'[i].ask # messages'[i + 1].ask
        PROVE  messages'[i].ask \in overlap /\ messages'[i + 1].ask \in overlap
    <3>1. i \in 1..Len(messages) /\ messages'[i] = messages[i]
      BY <2>1 DEF TurnStarts
    <3>2. CASE i = Len(messages)
      <4>1. messages # <<>> /\ messages[Len(messages)].role = "USER"
        BY <3>1, <3>2 DEF TurnStarts
      <4>2. messages'[i + 1].ask = a /\ messages'[i].ask = messages[Len(messages)].ask
        BY <2>1, <3>1, <3>2
      <4>3. QED
        BY <2>3, <2>4, <4>1, <4>2 DEF LastQuestionOverlaps
    <3>3. CASE i < Len(messages)
      <4>1. i + 1 \in 1..Len(messages) /\ messages'[i + 1] = messages[i + 1]
        BY <2>1, <3>1, <3>3
      <4>2. i \in TurnStarts(messages)
        BY <2>1, <3>1, <3>3, <4>1 DEF TurnStarts
      <4>3. QED
        BY <2>4, <3>1, <4>1, <4>2 DEF MispairNeedsOverlap
    <3>4. QED
      BY <2>1, <3>1, <3>2, <3>3
  <2>5. MispairNeedsOverlap'
    BY <2>3, <2>4 DEF MispairNeedsOverlap
  <2>6. QED
    BY <2>2, <2>5
<1>3. QED
  BY <1>1, <1>2 DEF TypeOK

LEMMA PairingStep ==
  TypeOK /\ LastQuestionOverlaps /\ MispairNeedsOverlap /\ [Next]_vars =>
    LastQuestionOverlaps' /\ MispairNeedsOverlap'
<1> SUFFICES ASSUME TypeOK, LastQuestionOverlaps, MispairNeedsOverlap, [Next]_vars
             PROVE  LastQuestionOverlaps' /\ MispairNeedsOverlap'
  OBVIOUS
<1>1. CASE Delete
  BY <1>1 DEF Delete, LastQuestionOverlaps, MispairNeedsOverlap, TurnStarts
<1>2. CASE /\ UNCHANGED <<messages, overlap>>
           /\ \A b \in Asks : stage'[b] = "generating" => stage[b] = "generating"
  BY <1>2 DEF LastQuestionOverlaps, MispairNeedsOverlap, TurnStarts, Open
<1>3. ASSUME NEW a \in Asks,
             Bind(a) \/ NoAnswer(a) \/ Schedule(a) \/ SubmitRefresh(a)
      PROVE  /\ UNCHANGED <<messages, overlap>>
             /\ \A b \in Asks : stage'[b] = "generating" => stage[b] = "generating"
  BY <1>3 DEF Bind, NoAnswer, Schedule, SubmitRefresh, Goto, TypeOK, rows
<1>4. QED
  BY <1>1, <1>2, <1>3, QuestionStep, AnswerStep
  DEF Next, Serve, Refresh, Create, ReadSummary, ReadRecent, ReadBacklog, SkipRefresh, Upsert,
      RefreshFails, RefreshEnds, StopScheduling, StopExecutor, Terminated, vars, rows, askVars

LEMMA StepIInv == IInv /\ [Next]_vars => IInv'
  BY TypeStep, CoverageStep, OneRefreshStep, ActiveStep, BaseStep, PairingStep DEF IInv

\* The conversation store and its worker are safe under any overlap of asks, deletions and
\* the shutdown.
THEOREM ConversationSafe == Spec => []IInv
  BY InitIInv, StepIInv, PTL DEF Spec

\* Summaries cover up to an answer of their own conversation (upsert, ON DELETE CASCADE).
THEOREM SummariesAreAnchored == Spec => []CoverageIsAnAnswer
<1>1. IInv => CoverageIsAnAnswer
  BY DEF IInv
<1>2. QED
  BY <1>1, ConversationSafe, PTL

\* At most one refresh is submitted or running (SummaryCoordinator).
THEOREM RefreshesAreExclusive == Spec => []OneRefreshAtATime
<1>1. IInv => OneRefreshAtATime
  BY DEF IInv
<1>2. QED
  BY <1>1, ConversationSafe, PTL

\* The flag never sticks: someone who will clear it holds it (schedule, _run).
THEOREM SchedulerIsNeverStuck == Spec => []ActiveHasAWorker
<1>1. IInv => ActiveHasAWorker
  BY DEF IInv
<1>2. QED
  BY <1>1, ConversationSafe, PTL

\* No refresh overwrites a summary it was not built from (_refresh, upsert).
THEOREM NoSummaryIsLost == Spec => []RefreshExtendsCurrent
<1>1. IInv => RefreshExtendsCurrent
  BY DEF IInv
<1>2. QED
  BY <1>1, ConversationSafe, PTL

\* A question is paired with another ask's answer only if the asks overlapped
\* (_complete_turns over what the request threads appended).
THEOREM SerialAsksPairCorrectly == Spec => []MispairNeedsOverlap
<1>1. IInv => MispairNeedsOverlap
  BY DEF IInv
<1>2. QED
  BY <1>1, ConversationSafe, PTL
=============================================================================
