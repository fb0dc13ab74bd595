------------------------------ MODULE McpTools ------------------------------
(* One tool call through a request-scoped MCP runtime (agent/product.py,          *)
(* mcp/runtime.py and mcp/client.py): the child server is started, asked for its  *)
(* identity and its tools, called once, and closed in the `finally` of the call.  *)
(* The caller's deadline cancels the call once, at the await it is suspended in.  *)
VARIABLE mcp   \* [phase, holder, child, result, cancelled]

(* phase      where the call is suspended: "starting" the child and shaking        *)
(*            hands, "abandoning" a child that failed to start, "calling",         *)
(*            "failing" (_mark_unhealthy), "closing" (the finally), "over"         *)
(* holder     whose duty it is to close the child: of the "client" inside the      *)
(*            connection factory, of _ensure_ready while it is "unready", of the     *)
(*            "runtime" whose connection it is, or of "none"                         *)
(* child      "none", "live", "closed", or "left": its close was cut short         *)
(* result     "success", "error", "raised" or "cancelled" once known              *)
(* cancelled  "no", "raised" (CancelledError goes up), or "swallowed"              *)

NoCall == [phase |-> "idle", holder |-> "none", child |-> "none", result |-> "none",
           cancelled |-> "no"]

McpType ==
  mcp \in [phase : {"idle", "starting", "abandoning", "calling", "failing", "closing", "over"},
           holder : {"none", "client", "unready", "runtime"},
           child : {"none", "live", "closed", "left"},
           result : {"none", "success", "error", "raised", "cancelled"},
           cancelled : {"no", "raised", "swallowed"}]

AtPhase(phase) == mcp.phase = phase

(* call_tool begins: arguments over the host limit are refused at once. *)
BeginCall ==
  /\ AtPhase("idle")
  /\ mcp' \in {[mcp EXCEPT !.phase = "starting"],
               [mcp EXCEPT !.phase = "over", !.result = "error"]}

(* __aenter__ of the client spawns the child, then opens a session with it.        *)
Spawn ==
  /\ AtPhase("starting") /\ mcp.holder = "none"
  /\ mcp' = [mcp EXCEPT !.holder = "client", !.child = "live"]

OpenSession ==
  /\ AtPhase("starting") /\ mcp.holder = "client"
  /\ mcp' = [mcp EXCEPT !.holder = "unready"]

(* `except BaseException` of the client, and after it of _ensure_ready: who holds a *)
(* child closes it before the error goes up, with no time limit of its own.         *)
StartFailedLeaking(m) ==              \* a seeded bug: the client leaves it to its caller
  [m EXCEPT !.phase = IF m.holder = "unready" THEN "abandoning" ELSE "closing",
            !.result = "error"]

StartFailed(m) ==
  [m EXCEPT !.phase = IF m.holder = "none" THEN "closing" ELSE "abandoning",
            !.result = "error"]

(* Spawn error, start-up timeout, failed handshake, wrong identity or catalog. *)
StartFails == AtPhase("starting") /\ mcp' = StartFailed(mcp)

(* aclose is over and done with, the child closed or not: nobody tries again.       *)
Gone(m, child) == [m EXCEPT !.holder = "none", !.child = child]

(* The close ends, or what it raises takes the place of the error (the start-up      *)
(* timeout may fall into the client's): raised by the client it is mapped to a       *)
(* failed start like any other, raised by _ensure_ready it goes up.                  *)
Abandoned ==
  /\ AtPhase("abandoning")
  /\ \/ mcp' = [Gone(mcp, "closed") EXCEPT !.phase = "closing"]
     \/ mcp' = [Gone(mcp, "left") EXCEPT !.phase = "closing",
                  !.result = IF mcp.holder = "unready" THEN "raised" ELSE @]

Ready ==
  /\ AtPhase("starting") /\ mcp.holder = "unready"
  /\ mcp' = [mcp EXCEPT !.phase = "calling", !.holder = "runtime"]

(* The server answers: a result, or an error _to_result makes of the outcome. *)
CallReturns ==
  /\ AtPhase("calling")
  /\ \E result \in {"success", "error"} :
       mcp' = [mcp EXCEPT !.phase = "closing", !.result = result]

(* The call's own timeout, or a lost connection: _mark_unhealthy. *)
CallFails ==
  /\ AtPhase("calling")
  /\ mcp' = [mcp EXCEPT !.phase = "failing", !.result = "error"]

(* _close_connection forgets the connection, then awaits its aclose within the     *)
(* shutdown timeout; a timeout or an error is logged.                             *)
Failed ==
  /\ AtPhase("failing")
  /\ \E child \in {"closed", "left"} :
       mcp' = [Gone(mcp, child) EXCEPT !.phase = "closing"]

Closed ==
  /\ AtPhase("closing")
  /\ IF mcp.holder = "runtime"
     THEN \E child \in {"closed", "left"} :
            mcp' = [Gone(mcp, child) EXCEPT !.phase = "over"]
     ELSE mcp' = [mcp EXCEPT !.phase = "over"]

(* CancelledError at the current await goes up, after the clean-up that is due; an   *)
(* aclose it interrupts is not tried again.                                        *)
GoesUp(m, phase) ==
  [m EXCEPT !.phase = phase, !.result = "cancelled", !.cancelled = "raised"]

(* In the factory and the handshake, and in the client's own close, it is mapped to   *)
(* a failed start like any other exception and goes no further.                     *)
Cancelled ==
  CASE AtPhase("starting") -> [StartFailed(mcp) EXCEPT !.cancelled = "swallowed"]
    [] AtPhase("abandoning") /\ mcp.holder = "client" ->
         [Gone(mcp, "left") EXCEPT !.phase = "closing", !.cancelled = "swallowed"]
    [] AtPhase("abandoning") /\ mcp.holder = "unready" -> GoesUp(Gone(mcp, "left"), "closing")
    [] AtPhase("calling") -> GoesUp(mcp, "failing")
    [] AtPhase("failing") -> GoesUp(Gone(mcp, "left"), "closing")
    [] AtPhase("closing") -> GoesUp(Gone(mcp, "left"), "over")

Cancel ==
  /\ mcp.cancelled = "no"
  /\ mcp.phase \notin {"idle", "over"}
  /\ AtPhase("closing") => mcp.holder = "runtime"   \* or close awaits nothing
  /\ mcp' = Cancelled

ToolCall ==
  \/ BeginCall \/ Spawn \/ OpenSession \/ StartFails \/ Abandoned \/ Ready
  \/ CallReturns \/ CallFails \/ Failed \/ Closed

-----------------------------------------------------------------------------
(* However the call ended - an error, a timeout, a start-up that failed half way,  *)
(* a cancellation anywhere - its child was closed, or its close was begun and cut  *)
(* short; at every moment until then someone has the duty to close it.            *)
ChildIsClosed ==
  /\ AtPhase("over") => mcp.child # "live"
  /\ mcp.child = "live" => mcp.holder # "none"
=============================================================================
