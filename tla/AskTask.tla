------------------------------- MODULE AskTask -------------------------------
(* What becomes of one admitted ask: the handler loads the conversation context, and  *)
(* the executor's thread runs the personal, the web or the agent path on it           *)
(* (api/main.py: _conversation_context_for_request, _execute_generation,               *)
(* _execute_web_generation, _execute_agent).  AskAdmission models the slots, the quota  *)
(* and the streams around it, Conversation what is stored of its answer.               *)
EXTENDS ContextSelection, AgentTask

CONSTANTS
  Conversations,   \* [history, words, summary, question]: what an ask may find
  Questions        \* sets of the markers "self" "current" "compare" "tool" "argument"

(* What the database holds: texts in UTF-8, and a message id is a primary key.        *)
Messages ==
  [id : Nat, role : {"user", "assistant"}, text : Text, words : SUBSET STRING]
ASSUME ConversationsAssumption ==
  \A c \in Conversations :
    /\ c.history \in Seq(Messages) /\ c.summary \in Text /\ c.question \in Text
    /\ \A i, j \in DOMAIN c.history : c.history[i].id = c.history[j].id => i = j

VARIABLES
  task,      \* [path, stage, outcome]
  context,   \* the conversation context, until the path starts
  asked,     \* the conversation's part that is still to be read
  search     \* the text that will be searched for

askTaskVars == <<task, context, asked, search>>
allVars == <<agentVars, askTaskVars>>

Paths == {"personal", "web", "agent"}

(* A conversation with its question's tokens, of which only `asked` is read. *)
Init ==
  /\ AgentInit
  /\ \E path \in Paths : task = [path |-> path, stage |-> "load", outcome |-> "none"]
  /\ asked \in Conversations
  /\ context = NoContext
  /\ search = <<>>

(* _conversation_context_for_request: an empty context is none at all. *)
LoadContext ==
  /\ task.stage = "load"
  /\ context' = Context(asked.history, asked.words, asked.summary)
  /\ search' = IF context' = NoContext THEN asked.question ELSE SearchText(context', asked.question)
  /\ task' = [task EXCEPT !.stage = "start"]
  /\ UNCHANGED <<agentVars, asked>>

LoadFails ==
  /\ task.stage = "load"
  /\ task' = [task EXCEPT !.stage = "done", !.outcome = "raised"]
  /\ UNCHANGED <<agentVars, context, asked, search>>

(* The path starts; the prompt repeats the context, and nothing else reads it.        *)
Starts ==
  /\ task' = [task EXCEPT !.stage = "run"]
  /\ context' = NoContext /\ search' = <<>>
  /\ asked' = CHOOSE c \in Conversations : TRUE

StartPersonal ==
  /\ task.stage = "start" /\ task.path = "personal"
  /\ BeginPersonal
  /\ Starts
  /\ UNCHANGED <<mcp, agent>>

(* The kill switch may have left the runtime without a web skill. *)
StartWeb ==
  /\ task.stage = "start" /\ task.path = "web"
  /\ \/ BeginWeb
     \/ capability' = "raised" /\ UNCHANGED <<generation, webVars>>
  /\ Starts
  /\ UNCHANGED <<mcp, agent>>

StartAgent ==
  /\ task.stage = "start" /\ task.path = "agent"
  /\ \E markers \in Questions : Planned(markers)
  /\ Starts

RunCapability ==
  /\ task.stage = "run" /\ task.path # "agent"
  /\ CapabilityStep
  /\ UNCHANGED <<mcp, agent, askTaskVars>>

RunAgent ==
  /\ task.stage = "run" /\ task.path = "agent"
  /\ AgentStep
  /\ UNCHANGED askTaskVars

(* _execute_generation and _execute_web_generation: a GenerationResult is returned,    *)
(* anything else is raised to the caller.                                             *)
EndsAs(outcome) == task' = [task EXCEPT !.stage = "done", !.outcome = outcome]

Finish ==
  /\ task.stage = "run"
  /\ \/ /\ task.path # "agent" /\ capability \in Results
        /\ EndsAs(IF capability = "unavailable" THEN "raised" ELSE capability)
     \/ /\ task.path = "agent" /\ agent.stage = "done"
        /\ EndsAs(agent.status)
  /\ UNCHANGED <<agentVars, context, asked, search>>

Terminated == task.stage = "done" /\ UNCHANGED allVars

Run == StartPersonal \/ StartWeb \/ StartAgent \/ RunCapability \/ RunAgent \/ Finish

Next == LoadContext \/ LoadFails \/ Run \/ Terminated

Spec == Init /\ [][Next]_allVars
(* The handler loads the context or fails, and the worker thread goes on: whatever it   *)
(* awaits has a timeout of its own, but for the close of a tool server that failed to   *)
(* start (mcp/client.py:68, mcp/runtime.py:168), which is assumed to return.            *)
Loads ==
  task.stage = "load" /\ task' \in {[task EXCEPT !.stage = "start"],
                                    [task EXCEPT !.stage = "done", !.outcome = "raised"]}

FairSpec == Spec /\ WF_task(Loads) /\ WF_allVars(Run)

-----------------------------------------------------------------------------
TypeOK ==
  /\ task \in [path : Paths, stage : {"load", "start", "run", "done"},
               outcome : Results \cup {"none", "NEEDS_INPUT"}]
  /\ asked \in Conversations
  /\ capability \in Capability
  /\ EvidenceIds \subseteq 1..MaxEvidence
  /\ repairs \in 0..MaxRepairs /\ tries \in 0..NetworkRetries
  /\ research \in Ended \cup {"idle", "searching", "fetching"}
  /\ Len(queue) \in 0..MaxCandidates /\ Len(web) \in 0..MaxCandidates
  /\ fetch # NoFetch => fetch.redirects \in 0..MaxRedirects /\ fetch.url \in Urls
  /\ McpType
  /\ Len(agent.observed) \in 0..Len(agent.plan)

(* The context is within its budget to the character and the byte, its account is the *)
(* size of what is rendered, and the search text is within its own budget unless it   *)
(* is the question alone.                                                            *)
ContextFits ==
  task.stage = "start" =>
    /\ Fits(context.size, Budget)
    /\ context.size = Size(Render(context))
    /\ search = asked.question \/ Fits(Size(search), QueryBudget)

(* Whatever else is left out, the newest complete turn is in the context with both its *)
(* messages, no message is there twice, and older history is there only for a reason: *)
(* it is recent, or it shares a word with the question.                              *)
NewestTurnKept ==
  LET turns == CompleteTurns(Newest(asked.history, ScanMessages))
  IN task.stage = "start" /\ turns # <<>> =>
       /\ Ids(<<Last(turns)>>) \subseteq context.recentIds
       /\ \A i \in 1..2 : Last(context.recent)[i] # <<>>
       /\ context.relevantIds \cap context.recentIds = {}
       /\ \A k \in DOMAIN turns :
            turns[k][1].id \in context.relevantIds =>
              asked.words \cap (turns[k][1].words \cup turns[k][2].words) # {}

(* Every ask that was admitted ends, whatever its providers, pages and tools do: no    *)
(* chain of redirects, repairs or retries goes on for ever, and no step waits for one   *)
(* that cannot come (max_redirects, max_repair_attempts, network_retries).             *)
EveryTaskEnds == <>(task.stage = "done")
=============================================================================
