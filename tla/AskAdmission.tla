---------------------------- MODULE AskAdmission ----------------------------
(***************************************************************************)
(* The life of an ask request in api/main.py, from the non-blocking        *)
(* concurrency guards through the quota charge, the stored question and    *)
(* the submission to the shared ThreadPoolExecutor, to the answer, the API *)
(* deadline, a client that disconnects or the shutdown of the executor.    *)
(*                                                                         *)
(* Three kinds of threads interleave: the event loop, which a coroutine    *)
(* keeps from one await to the next (onLoop), the threads of               *)
(* asyncio.to_thread and of the synchronous v1 endpoint, and the workers   *)
(* of the executor, which also run the done callbacks of a task.           *)
(***************************************************************************)
EXTENDS Naturals, FiniteSets

CONSTANTS Requests,   \* the requests of one run of the process
          Shapes,     \* the request shapes that arrive, a subset of AllShapes
          Capacity,   \* max_concurrent of each guard
          Workers,    \* max_workers of the executor
          MaxEmbeds,  \* bound: /internal/embeddings calls running at a time
          Limit,      \* requests of one user per bucket and quota window
          MaxFaults   \* bound: failing SQLite calls in one behaviour

Guards == {"generation", "research", "agent"}
Kinds == {"personal", "web", "agent"}

AllShapes ==
  [api : {"v1"}, stream : BOOLEAN, kind : {"personal"}, bound : {FALSE}]
    \cup [api : {"v2"}, stream : BOOLEAN, kind : Kinds, bound : BOOLEAN]

ASSUME RequestsAssumption == IsFiniteSet(Requests)
ASSUME ShapesAssumption == Shapes \subseteq AllShapes
ASSUME CapacityAssumption == Capacity \in [Guards -> Nat]
ASSUME BoundsAssumption ==
  Workers \in Nat /\ MaxEmbeds \in Nat /\ Limit \in Nat /\ MaxFaults \in Nat

VARIABLES
  shape,       \* endpoint, capability and conversation binding of a request
  pc,          \* the next step of the request's handler
  onLoop,      \* the coroutine that runs on, or blocks, the event loop
  avail,       \* counter of each guard's semaphore
  slots,       \* guards acquired for a request and not released yet
  task,        \* the generation task of a request
  executorUp,  \* the executor still accepts tasks
  embeds,      \* workers busy with an /internal/embeddings call
  usage,       \* count of each quota bucket
  charged,     \* the request is counted in its bucket
  convLive,    \* the conversation of the bound requests has not been deleted
  question,    \* the USER message of the request was stored
  answer,      \* the ASSISTANT message of the request was stored
  response,    \* what the client was sent last
  faults       \* SQLite calls that failed so far

guardVars == <<avail, slots>>
quotaVars == <<usage, charged>>
storeVars == <<convLive, question, answer>>
poolVars == <<executorUp, embeds>>
vars == <<shape, pc, onLoop, avail, slots, task, executorUp, embeds, usage, charged,
          convLive, question, answer, response, faults>>

Stages == {"arrive", "capability", "quota", "append", "resume", "submit",
           "collect", "persist", "done"}
LiveStates == {"queued", "running"}
EndStates == {"ok", "failed", "cancelled"}
Responses == {"none", "rejected", "busy", "quota", "not_found", "shutting_down",
              "answered", "timeout", "error", "aborted", "disconnected"}

V2(r) == shape[r].api = "v2"
Kind(r) == shape[r].kind
IsStream(r) == shape[r].stream
Bound(r) == shape[r].bound

\* held_guards[1:] of the handler: the guard of the capability, if it has one
ExtraGuards(r) ==
  CASE Kind(r) = "web" -> {"research"}
    [] Kind(r) = "agent" -> {"agent"}
    [] Kind(r) = "personal" -> {}

\* held_guards: what the handler releases when the request goes no further
HeldGuards(r) == {"generation"} \cup ExtraGuards(r)

Live(r) == task[r] \in LiveStates
Ended(r) == task[r] \in EndStates
-----------------------------------------------------------------------------
(* The event loop.  The v1 plain endpoint is a sync def and runs in a      *)
(* thread; every other handler needs the loop between two awaits.          *)
OffLoop(r) == shape[r].api = "v1" /\ ~shape[r].stream

HasLoop(r) == OffLoop(r) \/ onLoop \subseteq {r}

KeepLoop(r) == onLoop' = IF OffLoop(r) THEN onLoop ELSE {r}

LeaveLoop(r) == onLoop' = onLoop \ {r}

Goto(r, stage) == pc' = [pc EXCEPT ![r] = stage]

Finish(r, sent) ==
  /\ Goto(r, "done")
  /\ response' = [response EXCEPT ![r] = sent]
  /\ LeaveLoop(r)

Take(r, g) ==
  /\ avail[g] > 0
  /\ avail' = [avail EXCEPT ![g] = @ - 1]
  /\ slots' = [slots EXCEPT ![r] = @ \cup {g}]

\* release() of each guard in gs; the semaphore is unbounded and trusts the caller
Give(r, gs) ==
  /\ avail' = [g \in Guards |-> IF g \in gs THEN avail[g] + 1 ELSE avail[g]]
  /\ slots' = [slots EXCEPT ![r] = @ \ gs]

Fault == faults < MaxFaults /\ faults' = faults + 1

Monus(n) == IF n > 0 THEN n - 1 ELSE 0

\* _refund_v2_quota: fail-soft, a failing refund is logged and forgotten
Refund(r) ==
  IF V2(r)
    THEN \/ /\ usage' = [usage EXCEPT ![Kind(r)] = Monus(@)]
            /\ charged' = [charged EXCEPT ![r] = FALSE]
            /\ UNCHANGED faults
         \/ Fault /\ UNCHANGED quotaVars
    ELSE UNCHANGED <<usage, charged, faults>>
-----------------------------------------------------------------------------
Init ==
  /\ shape \in [Requests -> Shapes]
  /\ pc = [r \in Requests |-> "arrive"]
  /\ onLoop = {}
  /\ avail = Capacity
  /\ slots = [r \in Requests |-> {}]
  /\ task = [r \in Requests |-> "none"]
  /\ executorUp = TRUE
  /\ embeds = 0
  /\ usage = [k \in Kinds |-> 0]
  /\ charged = [r \in Requests |-> FALSE]
  /\ convLive = TRUE
  /\ question = [r \in Requests |-> FALSE]
  /\ answer = [r \in Requests |-> FALSE]
  /\ response = [r \in Requests |-> "none"]
  /\ faults = 0

\* retirement, kill switch, session, CSRF, length, rate limit, binding, policy
Reject(r) ==
  /\ pc[r] = "arrive"
  /\ Finish(r, "rejected")
  /\ UNCHANGED <<shape, guardVars, task, poolVars, quotaVars, storeVars, faults>>

AcquireSlot(r) ==
  /\ pc[r] = "arrive" /\ HasLoop(r)
  /\ Take(r, "generation")
  /\ Goto(r, IF ~V2(r) THEN "submit"
             ELSE IF ExtraGuards(r) = {} THEN "quota" ELSE "capability")
  /\ KeepLoop(r)
  /\ UNCHANGED <<shape, task, poolVars, quotaVars, storeVars, response, faults>>

SlotBusy(r) ==
  /\ pc[r] = "arrive" /\ HasLoop(r)
  /\ avail["generation"] = 0
  /\ Finish(r, "busy")
  /\ UNCHANGED <<shape, guardVars, task, poolVars, quotaVars, storeVars, faults>>

AcquireCapability(r) ==
  /\ pc[r] = "capability" /\ HasLoop(r)
  /\ \E g \in ExtraGuards(r) : Take(r, g)
  /\ Goto(r, "quota")
  /\ UNCHANGED <<shape, onLoop, task, poolVars, quotaVars, storeVars, response, faults>>

CapabilityBusy(r) ==
  /\ pc[r] = "capability" /\ HasLoop(r)
  /\ \E g \in ExtraGuards(r) : avail[g] = 0
  /\ Give(r, {"generation"})
  /\ Finish(r, "busy")
  /\ UNCHANGED <<shape, task, poolVars, quotaVars, storeVars, faults>>

(* check_and_record runs in one BEGIN IMMEDIATE transaction, on the loop.  *)
ChargeQuota(r) ==
  /\ pc[r] = "quota" /\ HasLoop(r)
  /\ usage[Kind(r)] < Limit
  /\ usage' = [usage EXCEPT ![Kind(r)] = @ + 1]
  /\ charged' = [charged EXCEPT ![r] = TRUE]
  /\ IF Bound(r) THEN Goto(r, "append") /\ LeaveLoop(r)
                 ELSE Goto(r, "submit") /\ UNCHANGED onLoop
  /\ UNCHANGED <<shape, guardVars, task, poolVars, storeVars, response, faults>>

\* seeded bug: only the shared guard is released
QuotaExceededKeepsSlot(r) ==
  /\ pc[r] = "quota" /\ HasLoop(r)
  /\ usage[Kind(r)] >= Limit
  /\ Give(r, {"generation"})
  /\ Finish(r, "quota")
  /\ UNCHANGED <<shape, task, poolVars, quotaVars, storeVars, faults>>

QuotaExceeded(r) ==
  /\ pc[r] = "quota" /\ HasLoop(r)
  /\ usage[Kind(r)] >= Limit
  /\ Give(r, HeldGuards(r))
  /\ Finish(r, "quota")
  /\ UNCHANGED <<shape, task, poolVars, quotaVars, storeVars, faults>>

\* only QuotaExceededError is caught: a locked database leaves through the 500 handler
QuotaFault(r) ==
  /\ pc[r] = "quota" /\ HasLoop(r)
  /\ Fault
  /\ Finish(r, "error")
  /\ UNCHANGED <<shape, guardVars, task, poolVars, quotaVars, storeVars>>

\* MessageRepository.append of the USER message, in a thread of to_thread
AppendQuestion(r) ==
  /\ pc[r] = "append"
  /\ question' = [question EXCEPT ![r] = convLive]
  /\ Goto(r, "resume")
  /\ UNCHANGED <<shape, onLoop, guardVars, task, poolVars, quotaVars, convLive,
                 answer, response, faults>>

AppendFault(r) ==
  /\ pc[r] = "append"
  /\ Fault
  /\ Finish(r, "error")
  /\ UNCHANGED <<shape, guardVars, task, poolVars, quotaVars, storeVars>>

\* append returned None: the conversation was deleted after its validation
ConversationGone(r) ==
  /\ pc[r] = "resume" /\ HasLoop(r)
  /\ ~question[r]
  /\ Refund(r)
  /\ Give(r, HeldGuards(r))
  /\ Finish(r, "not_found")
  /\ UNCHANGED <<shape, task, poolVars, storeVars>>

ReadyToSubmit(r) ==
  /\ HasLoop(r)
  /\ pc[r] = "submit" \/ (pc[r] = "resume" /\ question[r])

\* seeded bug: the handler's finally clause releases what the task still needs
SubmitReleases(r) ==
  /\ ReadyToSubmit(r)
  /\ executorUp
  /\ task' = [task EXCEPT ![r] = "queued"]
  /\ Give(r, HeldGuards(r))
  /\ Goto(r, "collect")
  /\ IF IsStream(r) THEN LeaveLoop(r) ELSE KeepLoop(r)
  /\ UNCHANGED <<shape, poolVars, quotaVars, storeVars, response, faults>>

(* executor.submit and the done callbacks that now own the slots.  A plain *)
(* v2 request goes on to future.result() without an await: it keeps the    *)
(* loop until the task or its deadline ends.                               *)
Submit(r) ==
  /\ ReadyToSubmit(r)
  /\ executorUp
  /\ task' = [task EXCEPT ![r] = "queued"]
  /\ Goto(r, "collect")
  /\ IF IsStream(r) THEN LeaveLoop(r) ELSE KeepLoop(r)
  /\ UNCHANGED <<shape, guardVars, poolVars, quotaVars, storeVars, response, faults>>

\* seeded bug: the slots are left to the callbacks of a task that does not exist
SubmitRefusedKeepsSlots(r) ==
  /\ ReadyToSubmit(r)
  /\ ~executorUp
  /\ Refund(r)
  /\ Finish(r, "shutting_down")
  /\ UNCHANGED <<shape, guardVars, task, poolVars, storeVars>>

\* seeded bug: no refund when the executor has shut down
SubmitRefusedUnrefunded(r) ==
  /\ ReadyToSubmit(r)
  /\ ~executorUp
  /\ Give(r, HeldGuards(r))
  /\ Finish(r, "shutting_down")
  /\ UNCHANGED <<shape, task, poolVars, quotaVars, storeVars, faults>>

SubmitRefused(r) ==
  /\ ReadyToSubmit(r)
  /\ ~executorUp
  /\ Refund(r)
  /\ Give(r, HeldGuards(r))
  /\ Finish(r, "shutting_down")
  /\ UNCHANGED <<shape, task, poolVars, storeVars>>
-----------------------------------------------------------------------------
(* The executor's workers.                                                 *)
Busy == Cardinality({r \in Requests : task[r] = "running"}) + embeds

StartTask(r) ==
  /\ task[r] = "queued"
  /\ Busy < Workers
  /\ task' = [task EXCEPT ![r] = "running"]
  /\ UNCHANGED <<shape, pc, onLoop, guardVars, poolVars, quotaVars, storeVars,
                 response, faults>>

\* the result is visible to waiters before the done callbacks have run
EndTask(r) ==
  /\ task[r] = "running"
  /\ \E outcome \in {"ok", "failed"} : task' = [task EXCEPT ![r] = outcome]
  /\ UNCHANGED <<shape, pc, onLoop, guardVars, poolVars, quotaVars, storeVars,
                 response, faults>>

\* the done callbacks, in the order they were added: guard, then held_guards[1:]
DoneCallback(r) ==
  /\ Ended(r)
  /\ slots[r] # {}
  /\ Give(r, IF "generation" \in slots[r] THEN {"generation"} ELSE ExtraGuards(r))
  /\ UNCHANGED <<shape, pc, onLoop, task, poolVars, quotaVars, storeVars,
                 response, faults>>

\* executor.shutdown(wait=False, cancel_futures=True) in the lifespan exit
Shutdown ==
  /\ executorUp /\ onLoop = {}
  /\ executorUp' = FALSE
  /\ task' = [r \in Requests |-> IF task[r] = "queued" THEN "cancelled" ELSE task[r]]
  /\ UNCHANGED <<shape, pc, onLoop, guardVars, embeds, quotaVars, storeVars, response,
                 faults>>

\* embedding calls share the workers and hold no slot of any guard
StartEmbedding ==
  /\ executorUp
  /\ embeds < MaxEmbeds /\ Busy < Workers
  /\ embeds' = embeds + 1
  /\ UNCHANGED <<shape, pc, onLoop, guardVars, task, executorUp, quotaVars, storeVars,
                 response, faults>>

EndEmbedding ==
  /\ embeds > 0
  /\ embeds' = embeds - 1
  /\ UNCHANGED <<shape, pc, onLoop, guardVars, task, executorUp, quotaVars, storeVars,
                 response, faults>>
-----------------------------------------------------------------------------
\* seeded bug: the answer is sent and not stored
CollectAnswerUnstored(r) ==
  /\ pc[r] = "collect" /\ ~IsStream(r)
  /\ task[r] = "ok"
  /\ Finish(r, "answered")
  /\ UNCHANGED <<shape, guardVars, task, poolVars, quotaVars, storeVars, faults>>

(* _collect_generation: the plain endpoints.                               *)
CollectAnswer(r) ==
  /\ pc[r] = "collect" /\ ~IsStream(r)
  /\ task[r] = "ok"
  /\ IF Bound(r) THEN Goto(r, "persist") /\ LeaveLoop(r) /\ UNCHANGED response
                 ELSE Finish(r, "answered")
  /\ UNCHANGED <<shape, guardVars, task, poolVars, quotaVars, storeVars, faults>>

CollectError(r) ==
  /\ pc[r] = "collect" /\ ~IsStream(r)
  /\ task[r] \in {"failed", "cancelled"}
  /\ Finish(r, "error")
  /\ UNCHANGED <<shape, guardVars, task, poolVars, quotaVars, storeVars, faults>>

\* seeded bug: the deadline releases the slots of a task that goes on
CollectTimeoutReleases(r) ==
  /\ pc[r] = "collect" /\ ~IsStream(r)
  /\ Live(r)
  /\ Give(r, slots[r])
  /\ Finish(r, "timeout")
  /\ UNCHANGED <<shape, task, poolVars, quotaVars, storeVars, faults>>

\* seeded bug: the handler that timed out keeps waiting on the event loop
CollectTimeoutBlocks(r) ==
  /\ pc[r] = "collect" /\ ~IsStream(r)
  /\ Live(r)
  /\ Goto(r, "done")
  /\ response' = [response EXCEPT ![r] = "timeout"]
  /\ UNCHANGED <<shape, onLoop, guardVars, task, poolVars, quotaVars, storeVars, faults>>

CollectTimeout(r) ==
  /\ pc[r] = "collect" /\ ~IsStream(r)
  /\ Live(r)
  /\ Finish(r, "timeout")
  /\ UNCHANGED <<shape, guardVars, task, poolVars, quotaVars, storeVars, faults>>

\* _persist_assistant_answer: a deleted conversation is not an error
PersistAnswer(r) ==
  /\ pc[r] = "persist"
  /\ answer' = [answer EXCEPT ![r] = convLive]
  /\ Finish(r, "answered")
  /\ UNCHANGED <<shape, guardVars, task, poolVars, quotaVars, convLive, question, faults>>

PersistFault(r) ==
  /\ pc[r] = "persist"
  /\ Fault
  /\ Finish(r, "error")
  /\ UNCHANGED <<shape, guardVars, task, poolVars, quotaVars, storeVars>>

(* _stream_events: the stream endpoints.  The done sentinel is put by the  *)
(* last done callback, after the slots were released.                      *)
SentinelSeen(r) ==
  /\ pc[r] = "collect" /\ IsStream(r) /\ HasLoop(r)
  /\ Ended(r) /\ slots[r] = {}

StreamAnswer(r) ==
  /\ SentinelSeen(r)
  /\ task[r] = "ok"
  /\ answer' = [answer EXCEPT ![r] = Bound(r) /\ convLive]
  /\ Finish(r, "answered")
  /\ UNCHANGED <<shape, guardVars, task, poolVars, quotaVars, convLive, question, faults>>

StreamPersistFault(r) ==
  /\ SentinelSeen(r)
  /\ task[r] = "ok" /\ Bound(r)
  /\ Fault
  /\ Finish(r, "error")
  /\ UNCHANGED <<shape, guardVars, task, poolVars, quotaVars, storeVars>>

\* future.exception() of a cancelled future raises: no terminal event is sent
StreamError(r) ==
  /\ SentinelSeen(r)
  /\ task[r] \in {"failed", "cancelled"}
  /\ Finish(r, IF task[r] = "failed" THEN "error" ELSE "aborted")
  /\ UNCHANGED <<shape, guardVars, task, poolVars, quotaVars, storeVars, faults>>

\* the deadline is tested before the bridge is read: an answer may be there already
StreamTimeout(r) ==
  /\ pc[r] = "collect" /\ IsStream(r) /\ HasLoop(r)
  /\ Finish(r, "timeout")
  /\ UNCHANGED <<shape, guardVars, task, poolVars, quotaVars, storeVars, faults>>

StreamDisconnect(r) ==
  /\ pc[r] = "collect" /\ IsStream(r) /\ HasLoop(r)
  /\ Finish(r, "disconnected")
  /\ UNCHANGED <<shape, guardVars, task, poolVars, quotaVars, storeVars, faults>>

\* the owner deletes the conversation from another tab
DeleteConversation ==
  /\ convLive
  /\ convLive' = FALSE
  /\ UNCHANGED <<shape, pc, onLoop, guardVars, task, poolVars, quotaVars, question,
                 answer, response, faults>>

\* every request was answered and its callbacks have run
Terminated ==
  /\ \A r \in Requests : pc[r] = "done" /\ ~Live(r) /\ (Ended(r) => slots[r] = {})
  /\ UNCHANGED vars
-----------------------------------------------------------------------------
Admit(r) ==
  \/ AcquireSlot(r) \/ SlotBusy(r) \/ AcquireCapability(r) \/ CapabilityBusy(r)
  \/ ChargeQuota(r) \/ QuotaExceeded(r) \/ QuotaFault(r)
  \/ AppendQuestion(r) \/ AppendFault(r) \/ ConversationGone(r)
  \/ Submit(r) \/ SubmitRefused(r)

Reply(r) ==
  \/ CollectAnswer(r) \/ CollectError(r) \/ CollectTimeout(r)
  \/ PersistAnswer(r) \/ PersistFault(r)
  \/ StreamAnswer(r) \/ StreamPersistFault(r) \/ StreamError(r)
  \/ StreamTimeout(r) \/ StreamDisconnect(r)

Generate(r) == StartTask(r) \/ EndTask(r) \/ DoneCallback(r)

Next ==
  \/ \E r \in Requests : Reject(r) \/ Admit(r) \/ Reply(r) \/ Generate(r)
  \/ Shutdown \/ StartEmbedding \/ EndEmbedding
  \/ DeleteConversation
  \/ Terminated

Spec == Init /\ [][Next]_vars

(* A request that arrived goes on; the API deadline and the provider's own *)
(* timeout bound every wait, and a worker that took a task runs it to the  *)
(* end.  The executor's queue is first in, first out, so a task that waits  *)
(* for a worker gets one of those that fall free.  Nothing makes a request *)
(* arrive, a client leave or a call fail.                                  *)
Fairness ==
  \A r \in Requests :
    /\ WF_vars(pc[r] # "arrive" /\ Admit(r))
    /\ WF_vars(Reply(r))
    /\ SF_vars(StartTask(r))
    /\ WF_vars(EndTask(r))
    /\ WF_vars(DoneCallback(r))
    /\ WF_vars(EndEmbedding)

FairSpec == Spec /\ Fairness
-----------------------------------------------------------------------------
\* Counters, sets and stages keep their types: no guard counter goes below zero.
TypeOK ==
  /\ shape \in [Requests -> Shapes]
  /\ pc \in [Requests -> Stages]
  /\ onLoop \in SUBSET Requests
  /\ avail \in [Guards -> Nat]
  /\ slots \in [Requests -> SUBSET Guards]
  /\ task \in [Requests -> {"none"} \cup LiveStates \cup EndStates]
  /\ executorUp \in BOOLEAN
  /\ embeds \in Nat
  /\ usage \in [Kinds -> Nat]
  /\ charged \in [Requests -> BOOLEAN]
  /\ convLive \in BOOLEAN
  /\ question \in [Requests -> BOOLEAN]
  /\ answer \in [Requests -> BOOLEAN]
  /\ response \in [Requests -> Responses]
  /\ faults \in Nat

Holders(g) == {r \in Requests : g \in slots[r]}
AtWork(g) == {r \in Requests : Live(r) /\ g \in HeldGuards(r)}
Charged(k) == {r \in Requests : charged[r] /\ Kind(r) = k}

(* A guard's counter and the slots acquired but not released add up to its *)
(* capacity: no path of the handlers or of the done callbacks releases a   *)
(* slot twice or one that it does not hold.                                *)
SlotsConserved ==
  \A g \in Guards : avail[g] + Cardinality(Holders(g)) = Capacity[g]

(* What a request holds and owes at each stage of its handler and its task:*)
(* the strengthening that makes the invariants above and below inductive.  *)
StageOK(r) ==
  /\ pc[r] = "arrive" => slots[r] = {}
  /\ pc[r] = "capability" => slots[r] = {"generation"} /\ ExtraGuards(r) # {}
  /\ pc[r] \in {"quota", "append", "resume", "submit"} => slots[r] = HeldGuards(r)
  /\ pc[r] \in {"capability", "quota", "append", "resume"} => V2(r)
  /\ pc[r] \notin {"collect", "persist", "done"} => task[r] = "none"
  /\ pc[r] \in {"collect", "persist"} => task[r] # "none"
  /\ Live(r) => slots[r] = HeldGuards(r)
  /\ Ended(r) => slots[r] \in {HeldGuards(r), ExtraGuards(r), {}}
  /\ pc[r] \in {"arrive", "capability", "quota"} \/ ~V2(r) => ~charged[r]
  /\ V2(r) /\ (pc[r] \in {"append", "resume", "submit"} \/ task[r] # "none")
       => charged[r]

StageInv == \A r \in Requests : StageOK(r)

(* A generation that is queued or running owns every slot of its request,  *)
(* whatever became of the HTTP side: deadline, disconnect, shutdown.       *)
LiveTaskHoldsSlots == \A r \in Requests : Live(r) => slots[r] = HeldGuards(r)

(* What the guards are for: at most Capacity[g] generations are under way. *)
GenerationBounded ==
  \A g \in Guards : Cardinality(AtWork(g)) <= Capacity[g]

(* docs/public-api.md section 7: a slot lives as long as a real generation *)
(* task.  A handler that has replied without a task left no slot behind.   *)
SlotLifetime ==
  \A r \in Requests : pc[r] = "done" /\ task[r] = "none" => slots[r] = {}

(* The same where every database call succeeds: each early return of the   *)
(* handlers gives back what was acquired so far.                           *)
SlotsFollowTasks == faults = 0 => SlotLifetime

(* A quota bucket counts the requests charged to it, never beyond Limit.   *)
UsageCountsCharges ==
  \A k \in Kinds : usage[k] = Cardinality(Charged(k)) /\ usage[k] <= Limit

(* No v2 request reaches the executor without being counted.               *)
NoUnmeteredTask ==
  \A r \in Requests : V2(r) /\ task[r] # "none" => charged[r]

(* auth/quota.py: only requests that enter the cost-bearing workflow are   *)
(* counted; one that was turned away before its task exists is refunded.   *)
ChargedForWork ==
  \A r \in Requests : pc[r] = "done" /\ charged[r] => task[r] # "none"

(* It is so where every database call succeeds, the refund included.       *)
ChargesFollowTasks == faults = 0 => ChargedForWork

(* A bound request that was answered has both its messages in the          *)
(* conversation's history, unless the conversation was deleted.            *)
AnsweredTurnStored ==
  \A r \in Requests :
    response[r] = "answered" /\ Bound(r) /\ convLive => question[r] /\ answer[r]

(* A request that arrived is answered, whatever the other requests do.     *)
EveryRequestEnds ==
  \A r \in Requests : pc[r] # "arrive" ~> pc[r] = "done"

(* Slots are always given back, after timeouts, disconnects and shutdown.  *)
SlotsComeBack ==
  \A r \in Requests : slots[r] # {} ~> slots[r] = {}
-----------------------------------------------------------------------------
(* Each guard implements the abstract pool: its counter is the pool's, and *)
(* the owners at work are the requests whose task uses the guard.          *)
Pool(g) == INSTANCE SlotPool
  WITH Owners <- Requests, Size <- Capacity[g], free <- avail[g],
       holding <- Holders(g), working <- AtWork(g)

(* Every step of the program is a step of the pool of each guard, or none. *)
PoolStep(g) == [Pool(g)!Next]_<<avail[g], Holders(g), AtWork(g)>>

ImplementsPools ==
  /\ \A g \in Guards : Pool(g)!Init
  /\ [][\A g \in Guards : PoolStep(g)]_vars
=============================================================================
