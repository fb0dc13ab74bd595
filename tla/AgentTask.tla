------------------------------ MODULE AgentTask ------------------------------
(* The agent path of an ask (agent/planning.py, execution.py, observations.py,    *)
(* synthesis.py, product.py): a plan made once, its steps run in order under one    *)
(* deadline, and one answer made of their observations.  Personal and web steps run *)
(* in a worker thread that a timeout abandons but cannot stop; a tool step runs in   *)
(* the event loop and is cancelled.                                               *)
EXTENDS Capabilities, McpTools

VARIABLE agent   \* [stage, plan, observed, expired, swallowed, code, status, sources]

agentVars == <<capabilityVars, mcp, agent>>

(* stage: "idle", "planned" (between steps), "step" (awaiting one), "draining"       *)
(* (asyncio.run waits for an abandoned thread), "synthesis", "done".               *)
NoAgent == [stage |-> "idle", plan |-> <<>>, observed |-> <<>>, expired |-> FALSE,
            swallowed |-> FALSE, code |-> "none", status |-> "none", sources |-> {}]

AgentInit ==
  /\ CapabilityInit
  /\ mcp = NoCall
  /\ agent = NoAgent

Goes(stage) == agent' = [agent EXCEPT !.stage = stage]

(* BoundedPlanner.plan: a tool named in the question first, then what the question   *)
(* is about; a tool without an explicit or a labelled argument needs input.         *)
Plan(markers) ==
  IF "tool" \in markers THEN <<"tool">>
  ELSE IF {"self", "current", "compare"} \subseteq markers THEN <<"personal", "web">>
  ELSE IF "self" \notin markers /\ "current" \in markers THEN <<"web">>
  ELSE <<"personal">>

Planned(markers) ==
  /\ agent.stage = "idle"
  /\ agent' = [agent EXCEPT
       !.plan = Plan(markers),
       !.stage = IF "tool" \in markers /\ "argument" \notin markers THEN "synthesis" ELSE "planned",
       !.status = IF "tool" \in markers /\ "argument" \notin markers THEN "NEEDS_INPUT" ELSE "none"]
  /\ UNCHANGED <<capabilityVars, mcp>>

Current == agent.plan[Len(agent.observed) + 1]
Remaining == Len(agent.observed) < Len(agent.plan)

Observed(type, status, sources) ==
  [agent EXCEPT !.stage = "planned",
                !.observed = Append(@, [type |-> type, status |-> status, sources |-> sources])]

(* All steps were observed: the execution is complete, deadline or not. *)
Complete ==
  /\ agent.stage = "planned" /\ ~Remaining
  /\ Goes("synthesis")
  /\ UNCHANGED <<capabilityVars, mcp>>

Expired(stage) ==
  agent' = [agent EXCEPT !.stage = stage, !.expired = TRUE, !.code = "DEADLINE_EXCEEDED"]

(* The loop looks at the clock before each step. *)
TooLate ==
  /\ agent.stage = "planned" /\ Remaining
  /\ Expired("synthesis")
  /\ UNCHANGED <<capabilityVars, mcp>>

Begins(type) == agent.stage = "planned" /\ Remaining /\ Current = type

BeginPersonalStep ==
  /\ Begins("personal")
  /\ BeginPersonal
  /\ Goes("step")
  /\ UNCHANGED mcp

(* Without a web skill _UnavailableWeb answers at once. *)
BeginWebStep ==
  /\ Begins("web")
  /\ \/ BeginWeb /\ Goes("step")
     \/ agent' = Observed("web", "unavailable", {}) /\ UNCHANGED capabilityVars
  /\ UNCHANGED mcp

(* invoke_tool: a reusable result needs no call; with tools off there is none. *)
BeginToolStep ==
  /\ Begins("tool")
  /\ \/ BeginCall /\ Goes("step")
     \/ \E status \in {"ANSWERED", "FAILED"} :
          agent' = Observed("tool", status, {}) /\ UNCHANGED mcp
  /\ UNCHANGED capabilityVars

(* The thread goes on, whether the step still waits for it or not. *)
ThreadStep ==
  /\ agent.stage \in {"step", "draining"}
  /\ CapabilityStep
  /\ UNCHANGED <<mcp, agent>>

(* invoke_personal and invoke_web turn every outcome, an exception included, into   *)
(* an observation.                                                                *)
ThreadReturns ==
  /\ agent.stage = "step" /\ capability \in Results
  /\ agent' = Observed(Current, capability, answer.sources)
  /\ Forget /\ capability' = "none"
  /\ UNCHANGED mcp

(* wait_for's timer fires first: the thread's result is nobody's, even if it is      *)
(* there already.                                                                 *)
WaitTimesOut ==
  /\ agent.stage = "step" /\ capability # "none"
  /\ Expired("draining")
  /\ UNCHANGED <<capabilityVars, mcp>>

(* asyncio.run ends by waiting for the default executor's threads. *)
Drained ==
  /\ agent.stage = "draining" /\ capability \in Results
  /\ Goes("synthesis")
  /\ Forget /\ capability' = "none"
  /\ UNCHANGED mcp

ToolStep ==
  /\ agent.stage = "step" /\ Current = "tool"
  /\ ToolCall
  /\ UNCHANGED <<capabilityVars, agent>>

(* wait_for's timer fires: the deadline cancels the call where it is suspended. *)
CancelTool ==
  /\ agent.stage = "step" /\ Current = "tool"
  /\ Cancel
  /\ agent' = [agent EXCEPT !.expired = TRUE]
  /\ UNCHANGED capabilityVars

(* A cancelled call is wait_for's TimeoutError; a call that swallowed its            *)
(* cancellation returns like any other.                                           *)
ToolReturns ==
  /\ agent.stage = "step" /\ AtPhase("over")
  /\ agent' = IF mcp.result = "cancelled"
              THEN [agent EXCEPT !.stage = "synthesis", !.code = "DEADLINE_EXCEEDED"]
              ELSE [Observed("tool", IF mcp.result = "success" THEN "ANSWERED" ELSE "FAILED", {})
                      EXCEPT !.swallowed = mcp.cancelled = "swallowed"]
  /\ mcp' = [NoCall EXCEPT !.child = mcp.child]
  /\ UNCHANGED capabilityVars

(* AgentSynthesizer over the deterministic combination of what the capabilities      *)
(* answered; two steps are ANSWERED whatever became of them.                        *)
Synthesized ==
  LET seen == agent.observed
      only == seen[1]
  IN IF seen = <<>> THEN (IF agent.status = "NEEDS_INPUT" THEN "NEEDS_INPUT" ELSE "FAILED")
     ELSE IF Len(agent.plan) = 1
     THEN CASE only.status = "ANSWERED" -> "ANSWERED"
            [] only.type = "tool" \/ only.status \in {"raised", "unavailable"} -> "FAILED"
            [] OTHER -> "INSUFFICIENT"
     ELSE "ANSWERED"

(* execute_agent: the executor's code replaces a FAILED answer's reason. *)
CodeOfPartial(status) ==              \* a seeded bug: only a partial plan has one
  IF status = "FAILED" /\ agent.observed # <<>> THEN agent.code ELSE "none"

Code(status) == IF status = "FAILED" THEN agent.code ELSE "none"

Synthesize ==
  /\ agent.stage = "synthesis"
  /\ agent' = [agent EXCEPT !.stage = "done", !.status = Synthesized, !.code = Code(Synthesized),
                 !.sources = UNION {agent.observed[i].sources : i \in DOMAIN agent.observed}]
  /\ UNCHANGED <<capabilityVars, mcp>>

AgentStep ==
  \/ Complete \/ TooLate
  \/ BeginPersonalStep \/ BeginWebStep \/ BeginToolStep
  \/ ThreadStep \/ ThreadReturns \/ WaitTimesOut \/ Drained
  \/ ToolStep \/ CancelTool \/ ToolReturns
  \/ Synthesize

-----------------------------------------------------------------------------
(* The deadline stops the plan and is reported: the answer of an agent whose          *)
(* deadline passed says so, unless it shows a comparison cut in half, or its tool      *)
(* call swallowed the cancellation while starting and failed like any other; and the  *)
(* deadline is reported only when it passed.                                          *)
DeadlineIsReported ==
  agent.stage = "done" =>
    /\ agent.expired =>
         \/ agent.status = "FAILED" /\ agent.code = "DEADLINE_EXCEEDED"
         \/ agent.status = "FAILED" /\ agent.swallowed
         \/ agent.status = "ANSWERED" /\ Len(agent.observed) \in 1..(Len(agent.plan) - 1)
    /\ agent.code = "DEADLINE_EXCEEDED" => agent.expired
=============================================================================
