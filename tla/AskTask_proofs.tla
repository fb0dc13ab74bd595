---------------------------- MODULE AskTask_proofs ----------------------------
(* What holds of an ask for every web, every tool server, every deadline, every        *)
(* conversation and every bound: the child of a tool call is closed, connections go to   *)
(* checked addresses, usable pages are kept, a deadline that passed is reported, an      *)
(* answer cites evidence that was retrieved, every variable has its type, and the        *)
(* conversation context fits its budget and keeps the newest turn.                     *)
EXTENDS AskTask, FiniteSums, TLAPS

-----------------------------------------------------------------------------
(* The tool call *)

(* Whose child it is in each phase: the client's, then the starting call's, then the   *)
(* runtime's.                                                                        *)
ChildInv ==
  /\ McpType
  /\ ChildIsClosed
  /\ mcp.holder \in {"client", "unready"} => mcp.phase \in {"starting", "abandoning"}
  /\ mcp.holder = "runtime" => mcp.phase \in {"calling", "failing", "closing"}
  /\ mcp.phase = "abandoning" => mcp.holder # "none"
  /\ mcp.phase = "idle" => mcp.result = "none" /\ mcp.cancelled = "no"

LEMMA ToolCallKeepsChild ==
  ASSUME ChildInv, ToolCall
  PROVE  ChildInv'
<1> USE DEF ChildInv, McpType, ChildIsClosed, AtPhase
<1>1. CASE BeginCall
  BY <1>1 DEF BeginCall
<1>2. CASE Spawn
  BY <1>2 DEF Spawn
<1>10. CASE OpenSession
  BY <1>10 DEF OpenSession
<1>3. CASE StartFails
  BY <1>3 DEF StartFails, StartFailed
<1>4. CASE Abandoned
  BY <1>4 DEF Abandoned, Gone
<1>5. CASE Ready
  BY <1>5 DEF Ready
<1>6. CASE CallReturns
  BY <1>6 DEF CallReturns
<1>7. CASE CallFails
  BY <1>7 DEF CallFails
<1>8. CASE Failed
  BY <1>8 DEF Failed, Gone
<1>9. CASE Closed
  BY <1>9 DEF Closed, Gone
<1> QED
  BY <1>1, <1>2, <1>3, <1>4, <1>5, <1>6, <1>7, <1>8, <1>9, <1>10 DEF ToolCall

LEMMA CancelKeepsChild ==
  ASSUME ChildInv, Cancel
  PROVE  ChildInv'
<1> USE DEF ChildInv, McpType, ChildIsClosed, AtPhase
<1>0. mcp' = Cancelled /\ mcp.phase \in {"starting", "abandoning", "calling", "failing", "closing"}
  BY DEF Cancel
<1>1. CASE mcp.phase = "starting"
  BY <1>0, <1>1 DEF Cancelled, StartFailed
<1>2. CASE mcp.phase = "abandoning"
  BY <1>0, <1>2 DEF Cancelled, GoesUp, Gone
<1>3. CASE mcp.phase = "calling"
  BY <1>0, <1>3 DEF Cancelled, GoesUp
<1>4. CASE mcp.phase = "failing"
  BY <1>0, <1>4 DEF Cancelled, GoesUp, Gone
<1>5. CASE mcp.phase = "closing"
  BY <1>0, <1>5 DEF Cancelled, GoesUp, Gone
<1> QED
  BY <1>0, <1>1, <1>2, <1>3, <1>4, <1>5

(* A call that is over leaves a fresh runtime to the next one. *)
LEMMA ReturnKeepsChild ==
  ASSUME ChildInv, AtPhase("over"), mcp' = [NoCall EXCEPT !.child = mcp.child]
  PROVE  ChildInv'
BY DEF ChildInv, McpType, ChildIsClosed, AtPhase, NoCall

(* All a step of an ask does to the tool call. *)
LEMMA StepsOfTheCall ==
  ASSUME [Next]_allVars
  PROVE  \/ UNCHANGED mcp
         \/ ToolCall \/ Cancel
         \/ AtPhase("over") /\ mcp' = [NoCall EXCEPT !.child = mcp.child]
<1>1. CASE UNCHANGED allVars
  BY <1>1 DEF allVars, agentVars
<1>2. CASE LoadContext \/ LoadFails \/ Finish \/ Terminated
  BY <1>2 DEF LoadContext, LoadFails, Finish, Terminated, allVars, agentVars
<1>3. CASE StartPersonal \/ StartWeb \/ StartAgent \/ RunCapability
  BY <1>3 DEF StartPersonal, StartWeb, StartAgent, RunCapability, Planned
<1>4. CASE RunAgent
  <2>1. CASE \/ Complete \/ TooLate \/ BeginPersonalStep \/ BeginWebStep \/ ThreadStep
             \/ ThreadReturns \/ WaitTimesOut \/ Drained \/ Synthesize
    BY <2>1 DEF Complete, TooLate, BeginPersonalStep, BeginWebStep, ThreadStep,
                ThreadReturns, WaitTimesOut, Drained, Synthesize
  <2>2. CASE BeginToolStep
    BY <2>2 DEF BeginToolStep, ToolCall
  <2>3. CASE ToolStep \/ CancelTool \/ ToolReturns
    BY <2>3 DEF ToolStep, CancelTool, ToolReturns
  <2> QED
    BY <1>4, <2>1, <2>2, <2>3 DEF RunAgent, AgentStep
<1> QED
  BY <1>1, <1>2, <1>3, <1>4 DEF Next, Run

(* However a tool call ends - an error, a timeout, a cancellation at any await - its    *)
(* child is closed or its close was begun (mcp/runtime.py, agent/product.py:47-52).    *)
THEOREM ChildrenAreClosed == Spec => []ChildIsClosed
<1>1. Init => ChildInv
  BY DEF Init, AgentInit, ChildInv, McpType, ChildIsClosed, AtPhase, NoCall
<1>2. ChildInv /\ [Next]_allVars => ChildInv'
  <2> SUFFICES ASSUME ChildInv, [Next]_allVars
               PROVE  ChildInv'
    OBVIOUS
  <2>1. CASE UNCHANGED mcp
    BY <2>1 DEF ChildInv, McpType, ChildIsClosed, AtPhase
  <2> QED
    BY <2>1, StepsOfTheCall, ToolCallKeepsChild, CancelKeepsChild, ReturnKeepsChild
<1>3. ChildInv => ChildIsClosed
  BY DEF ChildInv
<1> QED
  BY <1>1, <1>2, <1>3, PTL DEF Spec
-----------------------------------------------------------------------------
(* The web *)

FetchShape ==
  \/ fetch = NoFetch
  \/ /\ fetch.step \in {"validate", "connect", "respond"}
     /\ fetch = [step |-> fetch.step, hit |-> fetch.hit, url |-> fetch.url,
                 redirects |-> fetch.redirects, pins |-> fetch.pins, address |-> fetch.address]
     /\ fetch.step # "respond" => fetch.address = {}

(* A connection is made only after its host was checked and pinned, and nothing was     *)
(* read before the search returned.                                                  *)
WebInv ==
  /\ FetchShape
  /\ ConnectionsArePinned
  /\ UsablePagesAreKept
  /\ research # "fetching" => fetch = NoFetch
  /\ research \in {"idle", "searching"} => web = <<>> /\ usable = {}
  /\ \E S : web \in Seq(S)

(* A fetch in progress, as a record of known fields, and what a hop makes of one.      *)
LEMMA FetchFields ==
  ASSUME WebInv, fetch.step \in {"validate", "connect", "respond"}
  PROVE  \E hit, url, redirects, pins, address :
           /\ fetch = [step |-> fetch.step, hit |-> hit, url |-> url, redirects |-> redirects,
                       pins |-> pins, address |-> address]
           /\ fetch.step # "respond" => address = {}
<1>1. fetch # NoFetch
  BY DEF NoFetch
<1>2. /\ fetch = [step |-> fetch.step, hit |-> fetch.hit, url |-> fetch.url,
                  redirects |-> fetch.redirects, pins |-> fetch.pins, address |-> fetch.address]
      /\ fetch.step # "respond" => fetch.address = {}
  BY <1>1 DEF WebInv, FetchShape
<1> QED
  BY <1>2

LEMMA ResolvedFetch ==
  ASSUME NEW f, NEW g, NEW s, NEW h, NEW u, NEW n, NEW p, NEW a, NEW pinned,
         f = [step |-> s, hit |-> h, url |-> u, redirects |-> n, pins |-> p, address |-> a],
         g = [f EXCEPT !.step = "connect", !.pins = pinned]
  PROVE  g = [step |-> "connect", hit |-> h, url |-> u, redirects |-> n, pins |-> pinned,
              address |-> a]
OBVIOUS

LEMMA ConnectedFetch ==
  ASSUME NEW f, NEW g, NEW s, NEW h, NEW u, NEW n, NEW p, NEW a, NEW used,
         f = [step |-> s, hit |-> h, url |-> u, redirects |-> n, pins |-> p, address |-> a],
         g = [f EXCEPT !.step = "respond", !.address = used]
  PROVE  g = [step |-> "respond", hit |-> h, url |-> u, redirects |-> n, pins |-> p,
              address |-> used]
OBVIOUS

LEMMA RedirectedFetch ==
  ASSUME NEW f, NEW g, NEW s, NEW h, NEW u, NEW n, NEW p, NEW a, NEW url,
         f = [step |-> s, hit |-> h, url |-> u, redirects |-> n, pins |-> p, address |-> a],
         g = [f EXCEPT !.step = "validate", !.url = url, !.address = {}, !.redirects = @ + 1]
  PROVE  g = [step |-> "validate", hit |-> h, url |-> url, redirects |-> n + 1, pins |-> p,
              address |-> {}]
OBVIOUS

(* WebInv depends on the web's variables alone, and holds when nothing was read yet. *)
LEMMA UnreadWeb ==
  ASSUME fetch' = NoFetch, web' = <<>>, usable' = {}, research' \in {"idle", "searching"}
  PROVE  WebInv'
<1>1. web' \in Seq({})
  OBVIOUS
<1> QED
  BY <1>1 DEF WebInv, FetchShape, ConnectionsArePinned, UsablePagesAreKept, Ended

(* A request that ends, before or after pages were read, keeps what it read; its status *)
(* is a success if that is anything.                                                 *)
LEMMA EndKeepsWeb ==
  ASSUME WebInv, NEW status, Ends(status), UNCHANGED <<web, usable>>,
         status \in Ended,
         status = "raised" \/ (research # "raised" /\ (usable # {} => status = "SUCCESS"))
  PROVE  WebInv'
<1>1. FetchShape' /\ ConnectionsArePinned'
  BY DEF Ends, FetchShape, ConnectionsArePinned
<1>2. UsablePagesAreKept'
  BY DEF Ends, WebInv, UsablePagesAreKept, Ended
<1> QED
  BY <1>1, <1>2 DEF WebInv, Ends, Ended

(* Between two pages only the fetch moves. *)
LEMMA HopKeepsWeb ==
  ASSUME WebInv, research = "fetching", UNCHANGED <<research, web, usable>>,
         FetchShape', ConnectionsArePinned'
  PROVE  WebInv'
BY DEF WebInv, UsablePagesAreKept

LEMMA UsableMeansEvidence ==
  ASSUME WebInv, research # "raised", usable # {}
  PROVE  web # <<>>
BY DEF WebInv, UsablePagesAreKept

LEMMA ReadPageKeepsWeb ==
  ASSUME WebInv, ReadPage
  PROVE  WebInv'
<1>1. PICK page \in Pages :
        /\ usable' = IF page \in Thin THEN usable
                     ELSE usable \cup {[canonical |-> CanonicalOf[fetch.url], page |-> page]}
        /\ web' = IF page \notin Thin /\ New(fetch.url, page)
                  THEN Append(web, [canonical |-> CanonicalOf[fetch.url], page |-> page,
                                    url |-> fetch.url])
                  ELSE web
  BY DEF ReadPage
<1>2. research' = "fetching" /\ research = "fetching" /\ fetch' = NoFetch
  BY DEF ReadPage, AtHop
<1>3. FetchShape' /\ ConnectionsArePinned'
  BY <1>2 DEF FetchShape, ConnectionsArePinned
<1>4. CASE page \in Thin
  BY <1>1, <1>2, <1>3, <1>4 DEF WebInv, UsablePagesAreKept
<1>5. CASE page \notin Thin /\ ~New(fetch.url, page)
  <2>1. web' = web
    BY <1>1, <1>5
  <2>2. PICK i \in DOMAIN web : web[i].canonical = CanonicalOf[fetch.url] \/ web[i].page = page
    BY <1>5 DEF New
  <2>3. \A p \in usable' : \E j \in DOMAIN web :
          web[j].canonical = p.canonical \/ web[j].page = p.page
    BY <1>1, <1>2, <1>5, <2>2 DEF WebInv, UsablePagesAreKept
  <2> QED
    BY <1>2, <1>3, <2>1, <2>3 DEF WebInv, UsablePagesAreKept, Ended
<1>6. CASE page \notin Thin /\ New(fetch.url, page)
  <2> DEFINE item == [canonical |-> CanonicalOf[fetch.url], page |-> page, url |-> fetch.url]
  <2>1. PICK S : web \in Seq(S)
    BY DEF WebInv
  <2>2. web' = Append(web, item)
    BY <1>1, <1>6
  <2>3. web' \in Seq(S \cup {item})
    BY <2>1, <2>2
  <2>4. /\ DOMAIN web' = 1..(Len(web) + 1) /\ Len(web) \in Nat /\ DOMAIN web = 1..Len(web)
        /\ web'[Len(web) + 1] = item
        /\ \A i \in DOMAIN web : web'[i] = web[i]
    BY <2>1, <2>2
  <2>5. \A p \in usable' : \E j \in DOMAIN web' :
          web'[j].canonical = p.canonical \/ web'[j].page = p.page
    <3> SUFFICES ASSUME NEW p \in usable'
                 PROVE  \E j \in DOMAIN web' :
                          web'[j].canonical = p.canonical \/ web'[j].page = p.page
      OBVIOUS
    <3>1. CASE p \in usable
      <4>1. PICK j \in DOMAIN web : web[j].canonical = p.canonical \/ web[j].page = p.page
        BY <1>2, <3>1 DEF WebInv, UsablePagesAreKept
      <4> QED
        BY <2>4, <4>1
    <3>2. CASE p = [canonical |-> CanonicalOf[fetch.url], page |-> page]
      BY <2>4, <3>2
    <3> QED
      BY <1>1, <1>6, <3>1, <3>2
  <2>6. \A i, j \in DOMAIN web' :
          i # j => web'[i].canonical # web'[j].canonical /\ web'[i].page # web'[j].page
    <3> SUFFICES ASSUME NEW i \in DOMAIN web', NEW j \in DOMAIN web', i # j
                 PROVE  web'[i].canonical # web'[j].canonical /\ web'[i].page # web'[j].page
      OBVIOUS
    <3>1. CASE i \in DOMAIN web /\ j \in DOMAIN web
      BY <2>4, <3>1 DEF WebInv, UsablePagesAreKept
    <3>2. CASE i \in DOMAIN web /\ j = Len(web) + 1
      BY <1>6, <2>4, <3>2 DEF New
    <3>3. CASE j \in DOMAIN web /\ i = Len(web) + 1
      BY <1>6, <2>4, <3>3 DEF New
    <3> QED
      BY <2>4, <3>1, <3>2, <3>3
  <2> QED
    BY <1>2, <1>3, <2>3, <2>5, <2>6 DEF WebInv, UsablePagesAreKept, Ended
<1> QED
  BY <1>4, <1>5, <1>6

LEMMA ResearchKeepsWeb ==
  ASSUME WebInv, Research
  PROVE  WebInv'
<1>1. CASE SearchFails
  BY <1>1, EndKeepsWeb DEF SearchFails, WebInv, Ended
<1>2. CASE SearchIsMalformed
  BY <1>2, EndKeepsWeb DEF SearchIsMalformed, Ended
<1>3. CASE SearchReturns
  <2>1. /\ research = "searching" /\ usable = {} /\ UNCHANGED <<web, usable>>
        /\ \/ Ends("NO_RESULTS") \/ Ends("raised")
           \/ research' = "fetching" /\ fetch' = fetch
    BY <1>3 DEF SearchReturns, WebInv
  <2>2. CASE Ends("NO_RESULTS")
    BY <2>1, <2>2, EndKeepsWeb DEF Ended
  <2>3. CASE Ends("raised")
    BY <2>1, <2>3, EndKeepsWeb DEF Ended
  <2>4. CASE research' = "fetching" /\ fetch' = fetch
    BY <2>1, <2>4 DEF WebInv, FetchShape, ConnectionsArePinned, UsablePagesAreKept, Ended
  <2> QED
    BY <2>1, <2>2, <2>3, <2>4
<1>4. CASE OverallTimeout
  BY <1>4, EndKeepsWeb, UsableMeansEvidence DEF OverallTimeout, Status, Ended
<1>5. CASE NoMoreCandidates
  BY <1>5, EndKeepsWeb, UsableMeansEvidence DEF NoMoreCandidates, Status, Ended
<1>6. CASE BeginFetch
  <2>1. /\ fetch' = [step |-> "validate", hit |-> Head(queue), url |-> Head(queue),
                    redirects |-> 0, pins |-> [h \in {} |-> {}], address |-> {}]
        /\ research = "fetching" /\ UNCHANGED <<research, web, usable>>
    BY <1>6 DEF BeginFetch
  <2>2. FetchShape' /\ ConnectionsArePinned'
    BY <2>1 DEF FetchShape, ConnectionsArePinned
  <2> QED
    BY <2>1, <2>2, HopKeepsWeb
<1>7. CASE RefuseUrl \/ FetchFails
  <2>1. research = "fetching" /\ fetch' = NoFetch /\ UNCHANGED <<research, web, usable>>
    BY <1>7 DEF RefuseUrl, FetchFails, GivesUp, AtHop, WebInv
  <2> QED
    BY <2>1, HopKeepsWeb DEF FetchShape, ConnectionsArePinned
<1>8. CASE PortRaises \/ ResponseRaises
  BY <1>8, EndKeepsWeb DEF PortRaises, ResponseRaises, Raises, Ended
<1>9. CASE Resolve
  <2>1. /\ research = "fetching" /\ UNCHANGED <<research, web, usable>>
        /\ fetch.step = "validate"
        /\ fetch' = NoFetch \/ \E pinned : fetch' = [fetch EXCEPT !.step = "connect",
                                                                !.pins = pinned]
    BY <1>9 DEF Resolve, GivesUp, AtHop
  <2>2. CASE fetch' = NoFetch
    BY <2>1, <2>2, HopKeepsWeb DEF FetchShape, ConnectionsArePinned
  <2>3. CASE fetch' # NoFetch
    <3>1. PICK pinned : fetch' = [fetch EXCEPT !.step = "connect", !.pins = pinned]
      BY <2>1, <2>3
    <3>2. PICK hit, url, redirects, pins :
            fetch = [step |-> "validate", hit |-> hit, url |-> url, redirects |-> redirects,
                     pins |-> pins, address |-> {}]
      BY <2>1, FetchFields
    <3>3. fetch' = [step |-> "connect", hit |-> hit, url |-> url, redirects |-> redirects,
                    pins |-> pinned, address |-> {}]
      BY <3>1, <3>2, ResolvedFetch
    <3>4. FetchShape' /\ ConnectionsArePinned'
      BY <3>3 DEF FetchShape, ConnectionsArePinned
    <3> QED
      BY <2>1, <3>4, HopKeepsWeb
  <2> QED
    BY <2>2, <2>3
<1>10. CASE Connect
  <2>1. /\ research = "fetching" /\ UNCHANGED <<research, web, usable>>
        /\ fetch.step = "connect"
    BY <1>10 DEF Connect, AtHop
  <2>2. PICK a \in fetch.pins[HostOf[fetch.url]] \cap Public :
          fetch' = [fetch EXCEPT !.step = "respond", !.address = {a}]
    BY <1>10 DEF Connect, ConnectsTo
  <2>3. PICK hit, url, redirects, pins :
          fetch = [step |-> "connect", hit |-> hit, url |-> url, redirects |-> redirects,
                   pins |-> pins, address |-> {}]
    BY <2>1, FetchFields
  <2>4. fetch' = [step |-> "respond", hit |-> hit, url |-> url, redirects |-> redirects,
                  pins |-> pins, address |-> {a}]
    BY <2>2, <2>3, ConnectedFetch
  <2>5. a \in pins[HostOf[url]] /\ a \in Public
    BY <2>2, <2>3
  <2>6. FetchShape' /\ ConnectionsArePinned'
    BY <2>4, <2>5 DEF FetchShape, ConnectionsArePinned
  <2> QED
    BY <2>1, <2>6, HopKeepsWeb
<1>11. CASE Redirect
  <2>1. /\ research = "fetching" /\ UNCHANGED <<research, web, usable>>
        /\ fetch.step = "respond"
        /\ \/ fetch' = NoFetch
           \/ \E url : fetch' = [fetch EXCEPT !.step = "validate", !.url = url, !.address = {},
                                              !.redirects = @ + 1]
    BY <1>11 DEF Redirect, GivesUp, AtHop
  <2>2. CASE fetch' = NoFetch
    BY <2>1, <2>2, HopKeepsWeb DEF FetchShape, ConnectionsArePinned
  <2>3. CASE fetch' # NoFetch
    <3>1. PICK next : fetch' = [fetch EXCEPT !.step = "validate", !.url = next,
                                             !.address = {}, !.redirects = @ + 1]
      BY <2>1, <2>3
    <3>2. PICK hit, url, redirects, pins, address :
            fetch = [step |-> "respond", hit |-> hit, url |-> url, redirects |-> redirects,
                     pins |-> pins, address |-> address]
      BY <2>1, FetchFields
    <3>3. fetch' = [step |-> "validate", hit |-> hit, url |-> next,
                    redirects |-> redirects + 1, pins |-> pins, address |-> {}]
      BY <3>1, <3>2, RedirectedFetch
    <3>4. FetchShape' /\ ConnectionsArePinned'
      BY <3>3 DEF FetchShape, ConnectionsArePinned
    <3> QED
      BY <2>1, <3>4, HopKeepsWeb
  <2> QED
    BY <2>2, <2>3
<1>12. CASE ReadPage
  BY <1>12, ReadPageKeepsWeb
<1> QED
  BY <1>1, <1>2, <1>3, <1>4, <1>5, <1>6, <1>7, <1>8, <1>9, <1>10, <1>11, <1>12 DEF Research

(* All a step of an ask does to the web's variables. *)
ForgetsWeb ==
  research' = "idle" /\ queue' = <<>> /\ fetch' = NoFetch /\ web' = <<>> /\ usable' = {}

LEMMA StepsOfACapability ==
  ASSUME CapabilityStep
  PROVE  UNCHANGED webVars \/ Research \/ BeginResearch
BY DEF CapabilityStep, GenerationRaises, Retrieve, RetrievalFails, Recall, StartResearch,
       ResearchStep, ResearchEnds, GenerateStep

LEMMA StepsOfTheWeb ==
  ASSUME [Next]_allVars
  PROVE  UNCHANGED webVars \/ Research \/ BeginResearch \/ ForgetsWeb
<1> USE DEF agentVars, capabilityVars
<1>1. CASE UNCHANGED allVars
  BY <1>1 DEF allVars
<1>2. CASE LoadContext \/ LoadFails \/ Finish \/ Terminated
  BY <1>2 DEF LoadContext, LoadFails, Finish, Terminated, allVars
<1>3. CASE StartPersonal \/ StartWeb \/ StartAgent
  BY <1>3 DEF StartPersonal, StartWeb, StartAgent, Planned, BeginPersonal, BeginWeb
<1>4. CASE RunCapability
  BY <1>4, StepsOfACapability DEF RunCapability
<1>5. CASE RunAgent
  <2>1. CASE \/ Complete \/ TooLate \/ BeginToolStep \/ WaitTimesOut \/ ToolStep
             \/ CancelTool \/ ToolReturns \/ Synthesize
    BY <2>1 DEF Complete, TooLate, BeginToolStep, WaitTimesOut, ToolStep, CancelTool,
                ToolReturns, Synthesize
  <2>2. CASE BeginPersonalStep \/ BeginWebStep
    BY <2>2 DEF BeginPersonalStep, BeginWebStep, BeginPersonal, BeginWeb
  <2>3. CASE ThreadStep
    BY <2>3, StepsOfACapability DEF ThreadStep
  <2>4. CASE ThreadReturns \/ Drained
    BY <2>4 DEF ThreadReturns, Drained, Forget, ForgetsWeb
  <2> QED
    BY <1>5, <2>1, <2>2, <2>3, <2>4 DEF RunAgent, AgentStep
<1> QED
  BY <1>1, <1>2, <1>3, <1>4, <1>5 DEF Next, Run

LEMMA WebInvariant == Spec => []WebInv
<1>1. Init => WebInv
  <2> SUFFICES ASSUME Init PROVE WebInv
    OBVIOUS
  <2>1. research = "idle" /\ fetch = NoFetch /\ web = <<>> /\ usable = {}
    BY DEF Init, AgentInit, CapabilityInit, WebInit
  <2>2. web \in Seq({})
    BY <2>1
  <2> QED
    BY <2>1, <2>2 DEF WebInv, FetchShape, ConnectionsArePinned, UsablePagesAreKept, Ended
<1>2. WebInv /\ [Next]_allVars => WebInv'
  <2> SUFFICES ASSUME WebInv, [Next]_allVars
               PROVE  WebInv'
    OBVIOUS
  <2>1. CASE UNCHANGED webVars
    BY <2>1 DEF WebInv, FetchShape, ConnectionsArePinned, UsablePagesAreKept, webVars
  <2>2. CASE BeginResearch
    BY <2>2, UnreadWeb DEF BeginResearch, WebInv
  <2>3. CASE ForgetsWeb
    BY <2>3, UnreadWeb DEF ForgetsWeb
  <2> QED
    BY <2>1, <2>2, <2>3, StepsOfTheWeb, ResearchKeepsWeb
<1> QED
  BY <1>1, <1>2, PTL DEF Spec

(* Whatever name resolution answers between the check of a host and the connection,   *)
(* the connection goes to a public address of the checked answer                      *)
(* (research/pinned_transport.py:62-88, fetch.py:88-96).                                *)
THEOREM ConnectionsStayPinned == Spec => []ConnectionsArePinned
<1>1. WebInv => ConnectionsArePinned
  BY DEF WebInv
<1> QED
  BY <1>1, WebInvariant, PTL

(* Whatever fails or times out among the pages of a request that does not raise, the   *)
(* usable pages it read are its evidence, each once (research/service.py:67-170).       *)
THEOREM PagesAreKept == Spec => []UsablePagesAreKept
<1>1. WebInv => UsablePagesAreKept
  BY DEF WebInv
<1> QED
  BY <1>1, WebInvariant, PTL
-----------------------------------------------------------------------------
(* The deadline *)

(* What a cancelled call will have returned. *)
CancelInv ==
  /\ mcp.cancelled = "no" => mcp.result # "cancelled"
  /\ mcp.phase = "abandoning" => mcp.result = "error"
  /\ mcp.cancelled = "raised" =>
       mcp.result = "cancelled" /\ mcp.phase \in {"failing", "closing", "over"}
  /\ mcp.cancelled = "swallowed" =>
       mcp.result \in {"error", "raised"} /\ mcp.phase \in {"abandoning", "closing", "over"}

LEMMA ToolCallKeepsCancel ==
  ASSUME ChildInv, CancelInv, ToolCall
  PROVE  CancelInv' /\ mcp'.cancelled = mcp.cancelled /\ mcp'.phase # "idle"
<1> USE DEF ChildInv, McpType, CancelInv, AtPhase
<1>1. CASE BeginCall
  BY <1>1 DEF BeginCall
<1>2. CASE Spawn
  BY <1>2 DEF Spawn
<1>10. CASE OpenSession
  BY <1>10 DEF OpenSession
<1>3. CASE StartFails
  BY <1>3 DEF StartFails, StartFailed
<1>4. CASE Abandoned
  BY <1>4 DEF Abandoned, Gone
<1>5. CASE Ready
  BY <1>5 DEF Ready
<1>6. CASE CallReturns
  BY <1>6 DEF CallReturns
<1>7. CASE CallFails
  BY <1>7 DEF CallFails
<1>8. CASE Failed
  BY <1>8 DEF Failed, Gone
<1>9. CASE Closed
  BY <1>9 DEF Closed, Gone
<1> QED
  BY <1>1, <1>2, <1>3, <1>4, <1>5, <1>6, <1>7, <1>8, <1>9, <1>10 DEF ToolCall

LEMMA CancelKeepsCancel ==
  ASSUME ChildInv, CancelInv, Cancel
  PROVE  CancelInv' /\ mcp'.cancelled # "no" /\ mcp'.phase # "idle" /\ mcp.phase # "idle"
<1> USE DEF ChildInv, McpType, CancelInv, AtPhase
<1>0. mcp' = Cancelled /\ mcp.phase \in {"starting", "abandoning", "calling", "failing", "closing"}
  BY DEF Cancel
<1>1. CASE mcp.phase = "starting"
  BY <1>0, <1>1 DEF Cancelled, StartFailed
<1>2. CASE mcp.phase = "abandoning"
  BY <1>0, <1>2 DEF Cancelled, GoesUp, Gone
<1>3. CASE mcp.phase = "calling"
  BY <1>0, <1>3 DEF Cancelled, GoesUp
<1>4. CASE mcp.phase = "failing"
  BY <1>0, <1>4 DEF Cancelled, GoesUp, Gone
<1>5. CASE mcp.phase = "closing"
  BY <1>0, <1>5 DEF Cancelled, GoesUp, Gone
<1> QED
  BY <1>0, <1>1, <1>2, <1>3, <1>4, <1>5

AgentShape ==
  /\ DOMAIN agent = {"stage", "plan", "observed", "expired", "swallowed", "code", "status",
                     "sources"}
  /\ agent.expired \in BOOLEAN
  /\ agent.plan \in {<<>>, <<"tool">>, <<"web">>, <<"personal">>, <<"personal", "web">>}
  /\ \E S : agent.observed \in Seq(S)
  /\ Len(agent.observed) <= Len(agent.plan)

(* Who is at work: the thread on a capability, or the call on the plan's tool, never both. *)
AtWork ==
  /\ DOMAIN task = {"path", "stage", "outcome"}
  /\ agent.stage = "idle" => agent = NoAgent
  /\ agent.stage # "idle" => task.path = "agent" /\ task.stage \notin {"load", "start"}
  /\ task.path = "agent" /\ agent.stage \in {"idle", "planned"} => capability = "none"
  /\ agent.stage = "step" => Remaining
  /\ agent.stage = "step" /\ capability # "none" => Current # "tool"
  /\ mcp.phase # "idle" => agent.stage = "step" /\ Current = "tool"

(* A deadline that passed left the plan unfinished, or is a tool call's to return, or was *)
(* swallowed by a tool call that failed.                                               *)
Interrupted == /\ agent.stage \in {"draining", "synthesis"}
               /\ agent.code = "DEADLINE_EXCEEDED" /\ Remaining
Cancelling == agent.stage = "step" /\ agent.code = "none" /\ mcp.cancelled # "no"
Swallowed == /\ agent.stage \in {"planned", "synthesis"} /\ agent.swallowed
             /\ agent.plan = <<"tool">> /\ Len(agent.observed) = 1
             /\ agent.observed[1].type = "tool" /\ agent.observed[1].status = "FAILED"

Deadline ==
  /\ agent.stage \in {"planned", "step"} => agent.code = "none" /\ agent.status = "none"
  /\ agent.stage = "draining" => agent.expired
  /\ agent.expired => agent.status # "NEEDS_INPUT"
  /\ mcp.cancelled # "no" => agent.expired
  /\ agent.code = "DEADLINE_EXCEEDED" => agent.expired
  /\ agent.expired /\ agent.stage # "done" => Interrupted \/ Cancelling \/ Swallowed
  /\ DeadlineIsReported

DeadlineInv == ChildInv /\ CancelInv /\ AgentShape /\ AtWork /\ Deadline

(* The deadline's invariant speaks of the agent, the call, the capability and the task. *)
LEMMA IdleAgentKeepsDeadline ==
  ASSUME DeadlineInv, UNCHANGED <<mcp, agent>>,
         DOMAIN task' = DOMAIN task, task'.path = task.path,
         agent.stage # "idle" => task'.stage \notin {"load", "start"},
         task.path = "agent" => UNCHANGED capability
  PROVE  DeadlineInv'
<1>1. (ChildInv /\ CancelInv /\ AgentShape)'
  BY DEF DeadlineInv, ChildInv, McpType, ChildIsClosed, AtPhase, CancelInv, AgentShape
<1>2. AtWork'
  <2>1. CASE agent.stage = "idle"
    BY <2>1 DEF DeadlineInv, AtWork, Remaining, Current
  <2>2. CASE agent.stage # "idle"
    BY <2>2 DEF DeadlineInv, AtWork, Remaining, Current
  <2> QED
    BY <2>1, <2>2
<1>3. Deadline'
  BY DEF DeadlineInv, Deadline, Interrupted, Cancelling, Swallowed, DeadlineIsReported, Remaining
<1> QED
  BY <1>1, <1>2, <1>3 DEF DeadlineInv

LEMMA PlanKeepsDeadline ==
  ASSUME DeadlineInv, StartAgent
  PROVE  DeadlineInv'
<1>1. PICK markers \in Questions : Planned(markers)
  BY DEF StartAgent
<1>2. agent = NoAgent /\ mcp.phase = "idle" /\ capability = "none" /\ task.path = "agent"
  BY <1>1 DEF Planned, StartAgent, DeadlineInv, AtWork
<1>3. UNCHANGED mcp /\ capability' = "none"
  BY <1>1, <1>2 DEF Planned, capabilityVars
<1>4. task' = [task EXCEPT !.stage = "run"]
  BY DEF StartAgent, Starts
<1>5. DOMAIN task' = DOMAIN task /\ task'.path = "agent" /\ task'.stage = "run"
  BY <1>2, <1>4 DEF DeadlineInv, AtWork
<1> DEFINE asks == "tool" \in markers /\ "argument" \notin markers
<1>6. /\ DOMAIN agent' = DOMAIN agent
      /\ agent'.plan = Plan(markers)
      /\ agent'.stage = IF asks THEN "synthesis" ELSE "planned"
      /\ agent'.status = IF asks THEN "NEEDS_INPUT" ELSE "none"
      /\ agent'.observed = <<>> /\ agent'.expired = FALSE /\ agent'.code = "none"
  BY <1>1, <1>2 DEF Planned, NoAgent
<1>7. AgentShape'
  <2>1. Plan(markers) \in {<<"tool">>, <<"web">>, <<"personal">>, <<"personal", "web">>}
    BY DEF Plan
  <2>2. <<>> \in Seq({})
    OBVIOUS
  <2>3. \E S : agent'.observed \in Seq(S)
    BY <1>6, <2>2
  <2>4. Len(agent'.observed) <= Len(agent'.plan)
    BY <1>6, <2>1
  <2> QED
    BY <1>6, <2>1, <2>3, <2>4 DEF AgentShape, DeadlineInv
<1>8. AtWork'
  BY <1>2, <1>3, <1>5, <1>6 DEF AtWork, DeadlineInv
<1>9. Deadline'
  BY <1>2, <1>3, <1>6 DEF Deadline, DeadlineIsReported, DeadlineInv, ChildInv
<1> QED
  BY <1>3, <1>7, <1>8, <1>9 DEF DeadlineInv, ChildInv, McpType, ChildIsClosed, AtPhase, CancelInv

LEMMA ACapabilityIsAtWork ==
  ASSUME CapabilityStep
  PROVE  capability # "none"
BY DEF CapabilityStep, GenerationRaises, Retrieve, RetrievalFails, Recall, StartResearch,
       ResearchStep, ResearchEnds, GenerateStep, Results

(* The only plan with a tool is that tool. *)
LEMMA ToolPlan ==
  ASSUME AgentShape, Remaining, Current = "tool"
  PROVE  agent.plan = <<"tool">> /\ Len(agent.observed) = 0
<1>1. Len(agent.observed) \in Nat
  BY DEF AgentShape
<1> QED
  BY <1>1 DEF AgentShape, Remaining, Current

(* An observation is one more, and the last. *)
LEMMA OneMore ==
  ASSUME AgentShape, Remaining, NEW type, NEW status, NEW sources,
         NEW seen, seen = Observed(type, status, sources)
  PROVE  /\ DOMAIN seen = DOMAIN agent
         /\ seen.stage = "planned" /\ seen.plan = agent.plan /\ seen.expired = agent.expired
         /\ seen.swallowed = agent.swallowed /\ seen.code = agent.code
         /\ seen.status = agent.status
         /\ \E S : seen.observed \in Seq(S)
         /\ Len(seen.observed) = Len(agent.observed) + 1
         /\ Len(seen.observed) <= Len(agent.plan)
         /\ seen.observed[Len(agent.observed) + 1].type = type
         /\ seen.observed[Len(agent.observed) + 1].status = status
<1> DEFINE o == [type |-> type, status |-> status, sources |-> sources]
<1>1. PICK S : agent.observed \in Seq(S)
  BY DEF AgentShape
<1>2. /\ DOMAIN seen = DOMAIN agent
      /\ seen.stage = "planned" /\ seen.plan = agent.plan /\ seen.expired = agent.expired
      /\ seen.swallowed = agent.swallowed /\ seen.code = agent.code
      /\ seen.status = agent.status
      /\ seen.observed = Append(agent.observed, o)
  BY DEF AgentShape, Observed
<1>3. o.type = type /\ o.status = status
  OBVIOUS
<1> HIDE DEF o
<1>4. /\ Append(agent.observed, o) \in Seq(S \cup {o})
      /\ Len(Append(agent.observed, o)) = Len(agent.observed) + 1
      /\ Append(agent.observed, o)[Len(agent.observed) + 1] = o
      /\ Len(agent.observed) \in Nat
  BY <1>1
<1>5. Len(agent.observed) + 1 <= Len(agent.plan)
  <2>1. Len(agent.plan) \in Nat
    BY DEF AgentShape
  <2> QED
    BY <1>4, <2>1 DEF Remaining
<1> QED
  BY <1>2, <1>3, <1>4, <1>5

(* A step of the agent that leaves the call alone: what is left to show of it. *)
LEMMA CallAlone ==
  ASSUME DeadlineInv, UNCHANGED <<mcp, task>>, AgentShape', AtWork', Deadline'
  PROVE  DeadlineInv'
BY DEF DeadlineInv, ChildInv, McpType, ChildIsClosed, AtPhase, CancelInv

(* While it is planning or a capability runs, an agent has no call and its deadline has  *)
(* not passed, but for a tool call that swallowed it.                                  *)
LEMMA NoCallNoDeadline ==
  ASSUME DeadlineInv, agent.stage \in {"planned", "step"}, Remaining,
         agent.stage = "step" => capability # "none"
  PROVE  mcp.phase = "idle" /\ mcp.cancelled = "no" /\ agent.expired = FALSE
<1>1. mcp.phase = "idle" /\ mcp.cancelled = "no"
  BY DEF DeadlineInv, AtWork, ChildInv
<1>2. ~Swallowed
  <2> SUFFICES ASSUME agent.plan = <<"tool">>, Len(agent.observed) = 1
               PROVE  FALSE
    BY DEF Swallowed
  <2>1. Len(agent.plan) = 1
    OBVIOUS
  <2> QED
    BY <2>1 DEF Remaining
<1> QED
  BY <1>1, <1>2 DEF DeadlineInv, Deadline, Interrupted, Cancelling, AgentShape

LEMMA ObservedKeepsDeadline ==
  ASSUME DeadlineInv, UNCHANGED <<mcp, task>>, Remaining, task.path = "agent",
         mcp.phase = "idle", mcp.cancelled = "no", agent.expired = FALSE,
         agent.stage \in {"planned", "step"}, capability' = "none",
         NEW type, NEW status, NEW sources, agent' = Observed(type, status, sources)
  PROVE  DeadlineInv'
<1>1. /\ DOMAIN agent' = DOMAIN agent
      /\ agent'.stage = "planned" /\ agent'.plan = agent.plan
      /\ agent'.expired = agent.expired /\ agent'.code = agent.code
      /\ agent'.status = agent.status
      /\ \E S : agent'.observed \in Seq(S)
      /\ Len(agent'.observed) <= Len(agent.plan)
  BY OneMore DEF DeadlineInv
<1>2. AgentShape'
  BY <1>1 DEF AgentShape, DeadlineInv
<1>3. AtWork'
  BY <1>1 DEF AtWork, DeadlineInv
<1>4. Deadline'
  BY <1>1 DEF Deadline, DeadlineIsReported, DeadlineInv
<1> QED
  BY <1>2, <1>3, <1>4, CallAlone

LEMMA PlanStepsKeepDeadline ==
  ASSUME DeadlineInv, UNCHANGED task, task.path = "agent",
         Complete \/ TooLate \/ BeginPersonalStep \/ BeginWebStep \/ BeginToolStep
  PROVE  DeadlineInv'
<1>0. agent.stage = "planned" /\ capability = "none" /\ task.stage \notin {"load", "start"}
      /\ mcp.phase = "idle" /\ mcp.cancelled = "no"
      /\ agent.code = "none" /\ agent.status = "none"
  BY DEF Complete, TooLate, BeginPersonalStep, BeginWebStep, BeginToolStep, Begins,
         DeadlineInv, AtWork, Deadline, ChildInv
<1>1. CASE Complete
  <2>1. /\ DOMAIN agent' = DOMAIN agent /\ agent'.stage = "synthesis"
        /\ agent'.plan = agent.plan /\ agent'.observed = agent.observed
        /\ agent'.expired = agent.expired /\ agent'.swallowed = agent.swallowed
        /\ agent'.code = agent.code /\ agent'.status = agent.status
        /\ UNCHANGED <<capability, mcp>>
    BY <1>1 DEF Complete, Goes, DeadlineInv, AgentShape, capabilityVars
  <2>2. AgentShape' /\ AtWork'
    BY <1>0, <2>1 DEF AgentShape, AtWork, DeadlineInv
  <2>3. Deadline'
    BY <1>0, <2>1 DEF Deadline, DeadlineIsReported, DeadlineInv, Interrupted, Cancelling,
                      Swallowed
  <2> QED
    BY <2>1, <2>2, <2>3, CallAlone
<1>2. CASE TooLate
  <2>1. /\ DOMAIN agent' = DOMAIN agent /\ agent'.stage = "synthesis"
        /\ agent'.plan = agent.plan /\ agent'.observed = agent.observed
        /\ agent'.expired = TRUE /\ agent'.code = "DEADLINE_EXCEEDED"
        /\ agent'.status = agent.status
        /\ UNCHANGED <<capability, mcp>> /\ Remaining
    BY <1>2 DEF TooLate, Expired, DeadlineInv, AgentShape, capabilityVars
  <2>2. AgentShape' /\ AtWork'
    BY <1>0, <2>1 DEF AgentShape, AtWork, DeadlineInv
  <2>3. Deadline'
    BY <1>0, <2>1 DEF Deadline, DeadlineIsReported, DeadlineInv, Interrupted, Remaining
  <2> QED
    BY <2>1, <2>2, <2>3, CallAlone
<1>3. ASSUME NEW c, capability' = c, UNCHANGED mcp, Remaining, Current # "tool", Goes("step")
      PROVE  DeadlineInv'
  <2>1. /\ DOMAIN agent' = DOMAIN agent /\ agent'.stage = "step"
        /\ agent'.plan = agent.plan /\ agent'.observed = agent.observed
        /\ agent'.expired = FALSE /\ agent'.code = agent.code /\ agent'.status = agent.status
    BY <1>0, <1>3, NoCallNoDeadline DEF Goes, DeadlineInv, AgentShape
  <2>2. AgentShape' /\ AtWork'
    BY <1>0, <1>3, <2>1 DEF AgentShape, AtWork, DeadlineInv, Remaining, Current
  <2>3. Deadline'
    BY <1>0, <1>3, <2>1 DEF Deadline, DeadlineIsReported, DeadlineInv
  <2> QED
    BY <1>3, <2>2, <2>3, CallAlone
<1>4. CASE BeginPersonalStep
  BY <1>3, <1>4 DEF BeginPersonalStep, Begins, BeginPersonal
<1>5. CASE BeginWebStep
  <2>1. CASE BeginWeb /\ Goes("step")
    BY <1>3, <1>5, <2>1 DEF BeginWebStep, Begins, BeginWeb
  <2>2. CASE agent' = Observed("web", "unavailable", {}) /\ UNCHANGED capabilityVars
    BY <1>0, <1>5, <2>2, NoCallNoDeadline, ObservedKeepsDeadline
    DEF BeginWebStep, Begins, capabilityVars
  <2> QED
    BY <1>5, <2>1, <2>2 DEF BeginWebStep
<1>6. CASE BeginToolStep
  <2>1. Remaining /\ Current = "tool" /\ UNCHANGED capability
    BY <1>6 DEF BeginToolStep, Begins, capabilityVars
  <2>2. CASE BeginCall /\ Goes("step")
    <3>1. /\ DOMAIN agent' = DOMAIN agent /\ agent'.stage = "step"
          /\ agent'.plan = agent.plan /\ agent'.observed = agent.observed
          /\ agent'.expired = FALSE /\ agent'.code = agent.code /\ agent'.status = agent.status
      BY <1>0, <2>1, <2>2, NoCallNoDeadline DEF Goes, DeadlineInv, AgentShape
    <3>2. ToolCall
      BY <2>2 DEF ToolCall
    <3>3. ChildInv' /\ CancelInv' /\ mcp'.cancelled = "no"
      BY <1>0, <3>2, ToolCallKeepsChild, ToolCallKeepsCancel DEF DeadlineInv
    <3>4. AgentShape' /\ AtWork'
      BY <1>0, <2>1, <3>1 DEF AgentShape, AtWork, DeadlineInv, Remaining, Current
    <3>5. Deadline'
      BY <1>0, <3>1, <3>3 DEF Deadline, DeadlineIsReported, DeadlineInv
    <3> QED
      BY <3>3, <3>4, <3>5 DEF DeadlineInv
  <2>3. CASE \E status \in {"ANSWERED", "FAILED"} :
               agent' = Observed("tool", status, {}) /\ UNCHANGED mcp
    BY <1>0, <2>1, <2>3, NoCallNoDeadline, ObservedKeepsDeadline
  <2> QED
    BY <1>6, <2>2, <2>3 DEF BeginToolStep
<1> QED
  BY <1>1, <1>2, <1>4, <1>5, <1>6

LEMMA ThreadStepsKeepDeadline ==
  ASSUME DeadlineInv, UNCHANGED task, task.path = "agent",
         ThreadStep \/ ThreadReturns \/ WaitTimesOut \/ Drained
  PROVE  DeadlineInv'
<1>0. UNCHANGED mcp
  BY DEF ThreadStep, ThreadReturns, WaitTimesOut, Drained
<1>1. CASE ThreadStep
  <2>1. UNCHANGED agent /\ agent.stage \in {"step", "draining"} /\ capability # "none"
    BY <1>1, ACapabilityIsAtWork DEF ThreadStep
  <2>2. AgentShape' /\ AtWork'
    BY <1>0, <2>1 DEF AgentShape, AtWork, DeadlineInv, Remaining, Current
  <2>3. Deadline'
    BY <1>0, <2>1 DEF Deadline, DeadlineIsReported, DeadlineInv, Interrupted, Cancelling,
                      Swallowed, Remaining
  <2> QED
    BY <1>0, <2>2, <2>3, CallAlone
<1>2. CASE ThreadReturns
  <2>1. /\ agent.stage = "step" /\ capability # "none" /\ capability' = "none"
        /\ agent' = Observed(Current, capability, answer.sources)
    BY <1>2 DEF ThreadReturns, Results
  <2>2. Remaining
    BY <2>1 DEF DeadlineInv, AtWork
  <2> QED
    BY <1>0, <2>1, <2>2, NoCallNoDeadline, ObservedKeepsDeadline
<1>3. CASE WaitTimesOut
  <2>1. /\ agent.stage = "step" /\ capability # "none" /\ UNCHANGED capability
        /\ agent' = [agent EXCEPT !.stage = "draining", !.expired = TRUE,
                                  !.code = "DEADLINE_EXCEEDED"]
    BY <1>3 DEF WaitTimesOut, Expired, capabilityVars
  <2>2. Remaining
    BY <2>1 DEF DeadlineInv, AtWork
  <2>3. mcp.phase = "idle" /\ agent.status = "none"
    BY <2>1, <2>2, NoCallNoDeadline DEF DeadlineInv, Deadline
  <2>4. /\ DOMAIN agent' = DOMAIN agent /\ agent'.stage = "draining"
        /\ agent'.plan = agent.plan /\ agent'.observed = agent.observed
        /\ agent'.expired = TRUE /\ agent'.code = "DEADLINE_EXCEEDED"
        /\ agent'.status = agent.status
    BY <2>1 DEF DeadlineInv, AgentShape
  <2>5. AgentShape' /\ AtWork'
    BY <1>0, <2>1, <2>3, <2>4 DEF AgentShape, AtWork, DeadlineInv
  <2>6. Deadline'
    BY <1>0, <2>2, <2>3, <2>4 DEF Deadline, DeadlineIsReported, Interrupted, Remaining
  <2> QED
    BY <1>0, <2>5, <2>6, CallAlone
<1>4. CASE Drained
  <2>1. agent.stage = "draining" /\ agent' = [agent EXCEPT !.stage = "synthesis"]
    BY <1>4 DEF Drained, Goes
  <2>2. Interrupted /\ agent.expired
    BY <2>1 DEF DeadlineInv, Deadline, Cancelling, Swallowed
  <2>3. mcp.phase = "idle"
    BY <2>1 DEF DeadlineInv, AtWork
  <2>4. /\ DOMAIN agent' = DOMAIN agent /\ agent'.stage = "synthesis"
        /\ agent'.plan = agent.plan /\ agent'.observed = agent.observed
        /\ agent'.expired = agent.expired /\ agent'.code = agent.code
        /\ agent'.status = agent.status
    BY <2>1 DEF DeadlineInv, AgentShape
  <2>5. AgentShape' /\ AtWork'
    BY <1>0, <2>1, <2>3, <2>4 DEF AgentShape, AtWork, DeadlineInv
  <2>6. Deadline'
    BY <1>0, <2>1, <2>2, <2>4 DEF Deadline, DeadlineIsReported, DeadlineInv, Interrupted,
                                  Remaining
  <2> QED
    BY <1>0, <2>5, <2>6, CallAlone
<1> QED
  BY <1>1, <1>2, <1>3, <1>4

LEMMA ToolStepsKeepDeadline ==
  ASSUME DeadlineInv, UNCHANGED task, task.path = "agent",
         ToolStep \/ CancelTool \/ ToolReturns
  PROVE  DeadlineInv'
<1>0. agent.stage = "step" /\ UNCHANGED capability
  BY DEF ToolStep, CancelTool, ToolReturns, capabilityVars
<1>1. CASE ToolStep
  <2>1. UNCHANGED agent /\ ToolCall /\ Current = "tool"
    BY <1>1 DEF ToolStep
  <2>2. ChildInv' /\ CancelInv' /\ mcp'.cancelled = mcp.cancelled
    BY <2>1, ToolCallKeepsChild, ToolCallKeepsCancel DEF DeadlineInv
  <2>3. AgentShape' /\ AtWork'
    BY <1>0, <2>1 DEF AgentShape, AtWork, DeadlineInv, Remaining, Current
  <2>4. Deadline'
    BY <1>0, <2>1, <2>2 DEF Deadline, DeadlineIsReported, DeadlineInv, Interrupted,
                            Cancelling, Swallowed, Remaining
  <2> QED
    BY <2>2, <2>3, <2>4 DEF DeadlineInv
<1>2. CASE CancelTool
  <2>1. Cancel /\ Current = "tool" /\ agent' = [agent EXCEPT !.expired = TRUE]
    BY <1>2 DEF CancelTool
  <2>2. ChildInv' /\ CancelInv' /\ mcp'.cancelled # "no"
    BY <2>1, CancelKeepsChild, CancelKeepsCancel DEF DeadlineInv
  <2>3. /\ DOMAIN agent' = DOMAIN agent /\ agent'.stage = "step"
        /\ agent'.plan = agent.plan /\ agent'.observed = agent.observed
        /\ agent'.expired = TRUE /\ agent'.code = agent.code /\ agent'.status = agent.status
    BY <1>0, <2>1 DEF DeadlineInv, AgentShape
  <2>4. AgentShape' /\ AtWork'
    BY <1>0, <2>1, <2>3 DEF AgentShape, AtWork, DeadlineInv, Remaining, Current
  <2>5. Deadline'
    BY <1>0, <2>2, <2>3 DEF Deadline, DeadlineIsReported, DeadlineInv, Cancelling
  <2> QED
    BY <2>2, <2>4, <2>5 DEF DeadlineInv
<1>3. CASE ToolReturns
  <2>0. Remaining /\ Current = "tool" /\ mcp.phase = "over" /\ capability = "none"
    BY <1>0, <1>3 DEF ToolReturns, AtPhase, DeadlineInv, AtWork
  <2>1. agent.plan = <<"tool">> /\ Len(agent.observed) = 0
    BY <2>0, ToolPlan DEF DeadlineInv
  <2>2. mcp'.phase = "idle" /\ mcp'.cancelled = "no" /\ mcp'.result = "none"
    BY <1>3 DEF ToolReturns, NoCall
  <2>3. ChildInv' /\ CancelInv'
    BY <1>3, <2>2, ReturnKeepsChild DEF ToolReturns, DeadlineInv, CancelInv
  <2>4. CASE mcp.result = "cancelled"
    <3>1. agent.expired = TRUE
      BY <2>4 DEF DeadlineInv, ChildInv, McpType, CancelInv, Deadline, AgentShape
    <3>2. agent' = [agent EXCEPT !.stage = "synthesis", !.code = "DEADLINE_EXCEEDED"]
      BY <1>3, <2>4 DEF ToolReturns
    <3>3. /\ DOMAIN agent' = DOMAIN agent /\ agent'.stage = "synthesis"
          /\ agent'.plan = agent.plan /\ agent'.observed = agent.observed
          /\ agent'.expired = TRUE /\ agent'.code = "DEADLINE_EXCEEDED"
          /\ agent'.status = agent.status
      BY <3>1, <3>2 DEF DeadlineInv, AgentShape
    <3>4. AgentShape' /\ AtWork'
      BY <1>0, <2>2, <3>3 DEF AgentShape, AtWork, DeadlineInv
    <3>5. Deadline'
      BY <1>0, <2>0, <2>2, <3>3 DEF Deadline, DeadlineIsReported, DeadlineInv, Interrupted,
                                    Remaining
    <3> QED
      BY <2>3, <3>4, <3>5 DEF DeadlineInv
  <2>5. CASE mcp.result # "cancelled"
    <3> DEFINE status == IF mcp.result = "success" THEN "ANSWERED" ELSE "FAILED"
               seen == Observed("tool", status, {})
    <3>1. agent' = [seen EXCEPT !.swallowed = mcp.cancelled = "swallowed"]
      BY <1>3, <2>5 DEF ToolReturns
    <3>2. /\ DOMAIN seen = DOMAIN agent
          /\ seen.stage = "planned" /\ seen.plan = agent.plan /\ seen.expired = agent.expired
          /\ seen.code = agent.code /\ seen.status = agent.status
          /\ \E S : seen.observed \in Seq(S)
          /\ Len(seen.observed) = 1 /\ Len(seen.observed) <= Len(agent.plan)
          /\ seen.observed[1].type = "tool" /\ seen.observed[1].status = status
      BY <2>0, <2>1, OneMore DEF DeadlineInv
    <3> HIDE DEF seen
    <3>3. /\ DOMAIN agent' = DOMAIN agent
          /\ agent'.stage = "planned" /\ agent'.plan = agent.plan
          /\ agent'.expired = agent.expired /\ agent'.code = agent.code
          /\ agent'.status = agent.status /\ agent'.observed = seen.observed
          /\ agent'.swallowed = (mcp.cancelled = "swallowed")
      BY <3>1, <3>2 DEF DeadlineInv, AgentShape
    <3>4. AgentShape' /\ AtWork'
      BY <1>0, <2>0, <2>2, <3>2, <3>3 DEF AgentShape, AtWork, DeadlineInv
    <3>5. CASE agent.expired
      <4>1. mcp.cancelled = "swallowed" /\ mcp.result \in {"error", "raised"}
        BY <1>0, <2>5, <3>5 DEF DeadlineInv, Deadline, Interrupted, Cancelling, Swallowed,
                                ChildInv, McpType, CancelInv
      <4>2. Swallowed'
        BY <2>1, <3>2, <3>3, <4>1 DEF Swallowed
      <4> QED
        BY <1>0, <2>2, <2>3, <3>3, <3>4, <4>2 DEF Deadline, DeadlineIsReported, DeadlineInv
    <3>6. CASE ~agent.expired
      BY <1>0, <2>2, <2>3, <3>3, <3>4, <3>6 DEF Deadline, DeadlineIsReported, DeadlineInv
    <3> QED
      BY <3>5, <3>6
  <2> QED
    BY <2>4, <2>5
<1> QED
  BY <1>1, <1>2, <1>3

LEMMA HalfOfTwo ==
  ASSUME NEW m \in Nat, NEW n \in 0..2, m # 0, m < n
  PROVE  m = 1 /\ n = 2
OBVIOUS

LEMMA SynthesisKeepsDeadline ==
  ASSUME DeadlineInv, UNCHANGED task, Synthesize
  PROVE  DeadlineInv'
<1>0. agent.stage = "synthesis" /\ UNCHANGED <<capability, mcp>>
  BY DEF Synthesize, capabilityVars
<1>1. /\ DOMAIN agent' = DOMAIN agent /\ agent'.stage = "done"
      /\ agent'.plan = agent.plan /\ agent'.observed = agent.observed
      /\ agent'.expired = agent.expired /\ agent'.swallowed = agent.swallowed
      /\ agent'.status = Synthesized /\ agent'.code = Code(Synthesized)
  BY DEF Synthesize, DeadlineInv, AgentShape
<1>2. mcp.phase = "idle" /\ mcp.cancelled = "no"
  BY <1>0 DEF DeadlineInv, AtWork, ChildInv
<1>3. AgentShape' /\ AtWork'
  BY <1>0, <1>1, <1>2 DEF AgentShape, AtWork, DeadlineInv
<1>4. Code(Synthesized) = "DEADLINE_EXCEEDED" => agent.expired
  BY DEF Code, DeadlineInv, Deadline
<1>5. ASSUME agent.expired
      PROVE  \/ Synthesized = "FAILED" /\ Code(Synthesized) = "DEADLINE_EXCEEDED"
             \/ Synthesized = "FAILED" /\ agent.swallowed
             \/ Synthesized = "ANSWERED" /\ Len(agent.observed) \in 1..(Len(agent.plan) - 1)
  <2>1. Interrupted \/ Swallowed
    BY <1>0, <1>5 DEF DeadlineInv, Deadline, Cancelling
  <2>2. PICK S : agent.observed \in Seq(S)
    BY DEF DeadlineInv, AgentShape
  <2>3. CASE Interrupted /\ agent.observed = <<>>
    BY <1>5, <2>3 DEF Synthesized, Code, Interrupted, DeadlineInv, Deadline
  <2>4. CASE Interrupted /\ agent.observed # <<>>
    <3>1. Len(agent.observed) \in Nat /\ Len(agent.observed) # 0
      BY <2>2, <2>4
    <3>2. Len(agent.plan) \in 0..2
      BY DEF DeadlineInv, AgentShape
    <3>3. Len(agent.observed) < Len(agent.plan)
      BY <2>4 DEF Interrupted, Remaining
    <3>4. Len(agent.observed) = 1 /\ Len(agent.plan) = 2
      BY <3>1, <3>2, <3>3, HalfOfTwo
    <3>5. Synthesized = "ANSWERED"
      BY <2>4, <3>4 DEF Synthesized
    <3> QED
      BY <3>4, <3>5
  <2>5. CASE Swallowed
    <3>1. Len(agent.plan) = 1 /\ agent.observed # <<>>
      BY <2>5 DEF Swallowed
    <3>2. Synthesized = "FAILED"
      BY <2>5, <3>1 DEF Synthesized, Swallowed
    <3> QED
      BY <2>5, <3>2 DEF Swallowed
  <2> QED
    BY <2>1, <2>3, <2>4, <2>5
<1>6. DeadlineIsReported'
  BY <1>1, <1>4, <1>5 DEF DeadlineIsReported
<1>7. Deadline'
  <2>1. agent'.expired => agent'.status # "NEEDS_INPUT"
    BY <1>1, <1>5
  <2> QED
    BY <1>0, <1>1, <1>2, <1>4, <1>6, <2>1 DEF Deadline
<1> QED
  BY <1>0, <1>3, <1>7, CallAlone

LEMMA StepsKeepDeadline ==
  ASSUME DeadlineInv, [Next]_allVars
  PROVE  DeadlineInv'
<1> USE DEF agentVars, capabilityVars
<1>1. CASE UNCHANGED allVars \/ Terminated
  BY <1>1, IdleAgentKeepsDeadline DEF Terminated, allVars, askTaskVars, DeadlineInv, AtWork
<1>2. CASE LoadContext \/ LoadFails
  <2>1. agent.stage = "idle" /\ UNCHANGED <<mcp, agent, capability>>
    BY <1>2 DEF LoadContext, LoadFails, DeadlineInv, AtWork
  <2>2. DOMAIN task' = DOMAIN task /\ task'.path = task.path
    BY <1>2 DEF LoadContext, LoadFails, DeadlineInv, AtWork
  <2> QED
    BY <2>1, <2>2, IdleAgentKeepsDeadline
<1>3. CASE StartPersonal \/ StartWeb
  <2>1. agent.stage = "idle" /\ task.path # "agent" /\ UNCHANGED <<mcp, agent>>
    BY <1>3 DEF StartPersonal, StartWeb, DeadlineInv, AtWork
  <2>2. DOMAIN task' = DOMAIN task /\ task'.path = task.path
    BY <1>3 DEF StartPersonal, StartWeb, Starts, DeadlineInv, AtWork
  <2> QED
    BY <2>1, <2>2, IdleAgentKeepsDeadline
<1>4. CASE StartAgent
  BY <1>4, PlanKeepsDeadline
<1>5. CASE RunCapability
  BY <1>5, IdleAgentKeepsDeadline DEF RunCapability, askTaskVars
<1>6. CASE RunAgent
  <2>1. UNCHANGED task /\ task.path = "agent" /\ AgentStep
    BY <1>6 DEF RunAgent, askTaskVars
  <2> QED
    BY <2>1, PlanStepsKeepDeadline, ThreadStepsKeepDeadline, ToolStepsKeepDeadline,
       SynthesisKeepsDeadline DEF AgentStep
<1>7. CASE Finish
  <2>1. UNCHANGED <<mcp, agent, capability>> /\ \E outcome : EndsAs(outcome)
    BY <1>7 DEF Finish
  <2>2. DOMAIN task' = DOMAIN task /\ task'.path = task.path /\ task'.stage = "done"
    BY <2>1 DEF EndsAs, DeadlineInv, AtWork
  <2> QED
    BY <2>1, <2>2, IdleAgentKeepsDeadline
<1> QED
  BY <1>1, <1>2, <1>3, <1>4, <1>5, <1>6, <1>7 DEF Next, Run

LEMMA DeadlineInvariant == Spec => []DeadlineInv
<1>1. Init => DeadlineInv
  <2> SUFFICES ASSUME Init PROVE DeadlineInv
    OBVIOUS
  <2>1. /\ mcp = NoCall /\ agent = NoAgent /\ capability = "none"
        /\ \E path \in Paths : task = [path |-> path, stage |-> "load", outcome |-> "none"]
    BY DEF Init, AgentInit, CapabilityInit
  <2>2. ChildInv /\ CancelInv
    BY <2>1 DEF ChildInv, McpType, ChildIsClosed, AtPhase, NoCall, CancelInv
  <2>3. AgentShape
    <3>1. <<>> \in Seq({})
      OBVIOUS
    <3>2. /\ agent.observed = <<>> /\ agent.plan = <<>> /\ agent.expired = FALSE
          /\ DOMAIN agent = {"stage", "plan", "observed", "expired", "swallowed", "code",
                             "status", "sources"}
      BY <2>1 DEF NoAgent
    <3>3. \E S : agent.observed \in Seq(S)
      BY <3>1, <3>2
    <3>4. Len(agent.observed) <= Len(agent.plan)
      BY <3>2
    <3> QED
      BY <3>2, <3>3, <3>4 DEF AgentShape
  <2>4. AtWork /\ Deadline
    BY <2>1 DEF AtWork, Deadline, DeadlineIsReported, NoAgent, NoCall
  <2> QED
    BY <2>2, <2>3, <2>4 DEF DeadlineInv
<1>2. DeadlineInv /\ [Next]_allVars => DeadlineInv'
  BY StepsKeepDeadline
<1> QED
  BY <1>1, <1>2, PTL DEF Spec

(* Wherever the deadline falls - between two steps, while a thread works, at any await  *)
(* of a tool call - it stops the plan and is reported, but for the two exceptions the   *)
(* property names (agent/execution.py:132-170, agent/product.py:76-133).              *)
THEOREM DeadlineReported == Spec => []DeadlineIsReported
<1>1. DeadlineInv => DeadlineIsReported
  BY DEF DeadlineInv, Deadline
<1> QED
  BY <1>1, DeadlineInvariant, PTL
-----------------------------------------------------------------------------
(* What a search and a budget let through *)

(* select_candidates takes from what the search returned, and no more than its budget. *)
LEMMA CandidatesAreHits ==
  ASSUME NEW hits \in Seq(Urls)
  PROVE  Candidates(hits) \in Seq(Urls) /\ Len(Candidates(hits)) <= MaxCandidates
<1> DEFINE n == Len(hits)
           V == {v \in Seq(Urls) : Len(v) <= MaxCandidates}
           Runs(g) == g = [s \in SUBSET DOMAIN hits |->
                             IF s = {} THEN <<>> ELSE Take(g[s \ {Max(s)}], hits[Max(s)])]
           run == CHOOSE g : Runs(g)
<1>1. n \in Nat /\ DOMAIN hits = 1..n
  OBVIOUS
<1>2. Candidates(hits) = run[DOMAIN hits]
  BY DEF Candidates, FoldLeft, MapThenFoldSet
<1>3. ASSUME NEW v \in V, NEW i \in 1..n
      PROVE  Take(v, hits[i]) \in V
  <2>1. hits[i] \in Urls /\ MaxCandidates \in Nat
    BY ResearchAssumption
  <2>2. Append(v, hits[i]) \in Seq(Urls) /\ Len(Append(v, hits[i])) = Len(v) + 1
        /\ Len(v) \in Nat
    BY <2>1
  <2> QED
    BY <2>1, <2>2 DEF Take
<1>4. <<>> \in V
  BY ResearchAssumption
<1>5. \E g : Runs(g)
  <2> DEFINE step == [p \in V \X (1..n) |-> Take(p[1], hits[p[2]])]
  <2>1. step \in [V \X (1..n) -> V]
    BY <1>3
  <2>2. \A v \in V, i \in 1..n : step[<<v, i>>] = Take(v, hits[i])
    OBVIOUS
  <2> HIDE DEF step, V, n
  <2>3. PICK g \in [SUBSET (1..n) -> V] : RunsBack(g, n, <<>>, step)
    BY <1>1, <1>4, <2>1, FoldAlong
  <2>4. ASSUME NEW s \in SUBSET (1..n)
        PROVE  g[s] = IF s = {} THEN <<>> ELSE Take(g[s \ {Max(s)}], hits[Max(s)])
    <3>1. CASE s = {}
      BY <2>3, <3>1 DEF RunsBack
    <3>2. CASE s # {}
      <4>1. Max(s) \in 1..n /\ s \ {Max(s)} \in SUBSET (1..n)
        BY <1>1, <3>2, GreatestOf
      <4> QED
        BY <2>2, <2>3, <3>2, <4>1 DEF RunsBack
    <3> QED
      BY <3>1, <3>2
  <2>5. Runs(g)
    BY <1>1, <2>4
  <2> QED
    BY <2>5
<1>6. Runs(run)
  BY <1>5
<1> HIDE DEF run
<1>7. \A s \in SUBSET (1..n) :
        run[s] = IF s = {} THEN <<>> ELSE Take(run[s \ {Max(s)}], hits[Max(s)])
  BY <1>1, <1>6
<1>8. ASSUME NEW i \in 1..n, run[1..(i - 1)] \in V
      PROVE  run[1..i] \in V
  <2>1. Max(1..i) = i /\ (1..i) \ {i} = 1..(i - 1) /\ 1..i \in SUBSET (1..n) /\ 1..i # {}
    BY <1>1, PrefixEnds
  <2>2. run[1..i] = Take(run[1..(i - 1)], hits[i])
    BY <1>7, <2>1
  <2> QED
    BY <1>3, <1>8, <2>2
<1>9. run[{}] \in V
  BY <1>4, <1>7
<1> HIDE DEF V
<1>10. run[1..n] \in V
  BY <1>1, <1>8, <1>9, RunEnds
<1> QED
  BY <1>1, <1>2, <1>10 DEF V

(* select_evidence keeps items as they are. *)
LEMMA KeptItems ==
  ASSUME NEW X, NEW items \in Seq(X)
  PROVE  FoldLeft(Keep, <<>>, items) \in Seq(X)
<1> DEFINE n == Len(items)
           V == Seq(X)
           Runs(g) == g = [s \in SUBSET DOMAIN items |->
                             IF s = {} THEN <<>> ELSE Keep(g[s \ {Max(s)}], items[Max(s)])]
           run == CHOOSE g : Runs(g)
<1>1. n \in Nat /\ DOMAIN items = 1..n
  OBVIOUS
<1>2. FoldLeft(Keep, <<>>, items) = run[DOMAIN items]
  BY DEF FoldLeft, MapThenFoldSet
<1>3. ASSUME NEW v \in V, NEW i \in 1..n
      PROVE  Keep(v, items[i]) \in V
  <2>1. items[i] \in X
    OBVIOUS
  <2>2. Append(v, items[i]) \in Seq(X)
    BY <2>1
  <2> QED
    BY <2>2 DEF Keep
<1>4. <<>> \in V
  OBVIOUS
<1>5. \E g : Runs(g)
  <2> DEFINE step == [p \in V \X (1..n) |-> Keep(p[1], items[p[2]])]
  <2>1. step \in [V \X (1..n) -> V]
    BY <1>3
  <2>2. \A v \in V, i \in 1..n : step[<<v, i>>] = Keep(v, items[i])
    OBVIOUS
  <2> HIDE DEF step, V, n
  <2>3. PICK g \in [SUBSET (1..n) -> V] : RunsBack(g, n, <<>>, step)
    BY <1>1, <1>4, <2>1, FoldAlong
  <2>4. ASSUME NEW s \in SUBSET (1..n)
        PROVE  g[s] = IF s = {} THEN <<>> ELSE Keep(g[s \ {Max(s)}], items[Max(s)])
    <3>1. CASE s = {}
      BY <2>3, <3>1 DEF RunsBack
    <3>2. CASE s # {}
      <4>1. Max(s) \in 1..n /\ s \ {Max(s)} \in SUBSET (1..n)
        BY <1>1, <3>2, GreatestOf
      <4> QED
        BY <2>2, <2>3, <3>2, <4>1 DEF RunsBack
    <3> QED
      BY <3>1, <3>2
  <2>5. Runs(g)
    BY <1>1, <2>4
  <2> QED
    BY <2>5
<1>6. Runs(run)
  BY <1>5
<1> HIDE DEF run
<1>7. \A s \in SUBSET (1..n) :
        run[s] = IF s = {} THEN <<>> ELSE Keep(run[s \ {Max(s)}], items[Max(s)])
  BY <1>1, <1>6
<1>8. ASSUME NEW i \in 1..n, run[1..(i - 1)] \in V
      PROVE  run[1..i] \in V
  <2>1. Max(1..i) = i /\ (1..i) \ {i} = 1..(i - 1) /\ 1..i \in SUBSET (1..n) /\ 1..i # {}
    BY <1>1, PrefixEnds
  <2>2. run[1..i] = Keep(run[1..(i - 1)], items[i])
    BY <1>7, <2>1
  <2> QED
    BY <1>3, <1>8, <2>2
<1>9. run[{}] \in V
  BY <1>4, <1>7
<1> HIDE DEF V
<1>10. run[1..n] \in V
  BY <1>1, <1>8, <1>9, RunEnds
<1> QED
  BY <1>1, <1>2, <1>10 DEF V

(* The evidence is numbered items, of the first MaxEvidence. *)
LEMMA SelectedItems ==
  ASSUME NEW X, NEW items \in Seq(X)
  PROVE  /\ Selected(items) \in Seq({items[i] : i \in DOMAIN items \cap (1..MaxEvidence)})
<1> DEFINE m == Min({Len(items), MaxEvidence})
           first == SubSeq(items, 1, m)
           Y == {items[i] : i \in DOMAIN items \cap (1..MaxEvidence)}
<1>1. Len(items) \in Nat /\ MaxEvidence \in Nat /\ DOMAIN items = 1..Len(items)
  BY GenerationAssumption
<1>2. m \in Nat /\ m <= Len(items) /\ m <= MaxEvidence
  BY <1>1 DEF Min
<1> HIDE DEF m
<1>3. first = [i \in 1..m |-> items[i]]
  BY <1>1, <1>2
<1>4. \A i \in 1..m : items[i] \in Y
  BY <1>1, <1>2
<1> HIDE DEF Y
<1>5. first \in Seq(Y)
  BY <1>2, <1>3, <1>4
<1> HIDE DEF first
<1>6. FoldLeft(Keep, <<>>, first) \in Seq(Y)
  BY <1>5, KeptItems
<1> QED
  BY <1>6 DEF Selected, first, m, Y
-----------------------------------------------------------------------------
(* Grounded answers *)

(* Until it generates a capability has no evidence, and the evidence of a research is   *)
(* what it read.                                                                     *)
GroundInv ==
  /\ task.stage \in {"load", "start"} => capability = "none"
  /\ capability \in {"none", "retrieving", "recalling"} => research = "idle"
  /\ capability \in {"none", "retrieving", "recalling", "researching"} =>
       evidence = <<>> /\ answer = NoAnswer
  /\ web # <<>> => \A i \in DOMAIN evidence :
                     evidence[i].source \in {web[j].url : j \in DOMAIN web}
  /\ AnswersAreGrounded

LEMMA StepsOfCapabilities ==
  ASSUME DeadlineInv, [Next]_allVars
  PROVE  \/ /\ UNCHANGED capabilityVars
            /\ task'.stage \in {"load", "start"} => task.stage \in {"load", "start"}
         \/ /\ task'.stage = "run"
            /\ \/ CapabilityStep
               \/ Forget /\ capability' = "none"
               \/ /\ capability' \in {"retrieving", "recalling", "raised"}
                  /\ UNCHANGED <<generation, webVars>>
                  /\ capability = "none" \/ task.stage = "start"
<1> USE DEF agentVars
<1>1. CASE UNCHANGED allVars
  BY <1>1 DEF allVars, askTaskVars
<1>2. CASE LoadContext \/ LoadFails \/ Finish \/ Terminated
  <2>1. UNCHANGED capabilityVars
    BY <1>2 DEF LoadContext, LoadFails, Finish, Terminated, allVars
  <2>2. CASE LoadContext
    BY <2>1, <2>2 DEF LoadContext, DeadlineInv, AtWork
  <2>3. CASE LoadFails
    BY <2>1, <2>3 DEF LoadFails, DeadlineInv, AtWork
  <2>4. CASE Finish
    <3>1. PICK outcome : EndsAs(outcome)
      BY <2>4 DEF Finish
    <3>2. task'.stage = "done"
      BY <3>1 DEF EndsAs, DeadlineInv, AtWork
    <3> QED
      BY <2>1, <3>2
  <2>5. CASE Terminated
    BY <2>1, <2>5 DEF Terminated, allVars, askTaskVars
  <2> QED
    BY <1>2, <2>2, <2>3, <2>4, <2>5
<1>3. CASE StartPersonal \/ StartWeb \/ StartAgent
  <2>1. task.stage = "start" /\ task'.stage = "run"
    BY <1>3 DEF StartPersonal, StartWeb, StartAgent, Starts, DeadlineInv, AtWork
  <2>2. CASE StartPersonal \/ StartWeb
    BY <2>1, <2>2 DEF StartPersonal, StartWeb, BeginPersonal, BeginWeb
  <2>3. CASE StartAgent
    BY <2>1, <2>3 DEF StartAgent, Planned
  <2> QED
    BY <1>3, <2>2, <2>3
<1>4. CASE RunCapability
  BY <1>4 DEF RunCapability, askTaskVars
<1>5. CASE RunAgent
  <2>0. task'.stage = "run" /\ task.stage = "run" /\ task.path = "agent"
    BY <1>5 DEF RunAgent, askTaskVars
  <2>1. CASE \/ Complete \/ TooLate \/ BeginToolStep \/ WaitTimesOut \/ ToolStep
             \/ CancelTool \/ ToolReturns \/ Synthesize
    BY <2>0, <2>1 DEF Complete, TooLate, BeginToolStep, WaitTimesOut, ToolStep, CancelTool,
                      ToolReturns, Synthesize
  <2>2. CASE BeginPersonalStep \/ BeginWebStep
    <3>1. capability = "none"
      BY <2>0, <2>2 DEF BeginPersonalStep, BeginWebStep, Begins, DeadlineInv, AtWork
    <3> QED
      BY <2>0, <2>2, <3>1 DEF BeginPersonalStep, BeginWebStep, BeginPersonal, BeginWeb,
                              capabilityVars
  <2>3. CASE ThreadStep
    BY <2>0, <2>3 DEF ThreadStep
  <2>4. CASE ThreadReturns \/ Drained
    BY <2>0, <2>4 DEF ThreadReturns, Drained
  <2> QED
    BY <1>5, <2>1, <2>2, <2>3, <2>4 DEF RunAgent, AgentStep
<1> QED
  BY <1>1, <1>2, <1>3, <1>4, <1>5 DEF Next, Run

(* An outcome that is no answer shows nothing. *)
LEMMA NothingShown ==
  ASSUME answer' \in {NoAnswer, Without("INSUFFICIENT"), Without("FAILED")}
  PROVE  AnswersAreGrounded'
BY DEF AnswersAreGrounded, NoAnswer, Without

LEMMA BuildShowsNothing ==
  ASSUME NEW items, Build(items)
  PROVE  AnswersAreGrounded'
BY NothingShown DEF Build

(* Evidence that was selected is the items it was selected from. *)
LEMMA EvidenceIsOfItems ==
  ASSUME NEW X, NEW items \in Seq(X), Build(items)
  PROVE  \A i \in DOMAIN evidence' :
           \E j \in DOMAIN items \cap (1..MaxEvidence) :
             evidence'[i].id = j /\ evidence'[i].source = items[j].source
<1> DEFINE numbered == Numbered(items)
           Y == {numbered[i] : i \in DOMAIN numbered \cap (1..MaxEvidence)}
<1>1. DOMAIN numbered = DOMAIN items /\ DOMAIN items = 1..Len(items) /\ Len(items) \in Nat
  BY DEF Numbered
<1>2. \A j \in DOMAIN items : numbered[j].id = j /\ numbered[j].source = items[j].source
  BY DEF Numbered
<1>3. numbered \in Seq({numbered[i] : i \in DOMAIN numbered})
  <2>1. numbered = [i \in 1..Len(items) |-> numbered[i]]
    BY <1>1 DEF Numbered
  <2> HIDE DEF numbered
  <2> QED
    BY <1>1, <2>1
<1> HIDE DEF numbered
<1>4. Selected(numbered) \in Seq(Y)
  BY <1>3, SelectedItems
<1>5. evidence' = Selected(numbered)
  BY DEF Build, numbered
<1>6. \A i \in DOMAIN evidence' : evidence'[i] \in Y
  <2> HIDE DEF Y
  <2> QED
    BY <1>4, <1>5
<1> QED
  BY <1>1, <1>2, <1>6

LEMMA ResearchEndsKeepsGround ==
  ASSUME WebInv, GroundInv, ResearchEnds, task'.stage = "run"
  PROVE  GroundInv'
<1>1. capability = "researching" /\ UNCHANGED webVars /\ evidence = <<>> /\ answer = NoAnswer
  BY DEF ResearchEnds, GroundInv
<1>2. capability' \in {"INSUFFICIENT", "generating", "unavailable", "raised"}
  BY DEF ResearchEnds, BuildsFrom
<1>3. CASE BuildsFrom(Answerable)
  <2>1. PICK S : web \in Seq(S)
    BY DEF WebInv
  <2>2. Answerable \in Seq({Answerable[i] : i \in DOMAIN web})
    <3>1. DOMAIN web = 1..Len(web) /\ Len(web) \in Nat
      BY <2>1
    <3>2. Answerable = [i \in 1..Len(web) |-> Answerable[i]]
      BY <3>1 DEF Answerable
    <3> QED
      BY <3>1, <3>2
  <2>3. \A i \in DOMAIN evidence' : \E j \in DOMAIN Answerable :
          evidence'[i].source = Answerable[j].source
    BY <1>3, <2>2, EvidenceIsOfItems DEF BuildsFrom
  <2>4. \A i \in DOMAIN evidence' : evidence'[i].source \in {web[j].url : j \in DOMAIN web}
    BY <2>3 DEF Answerable
  <2>5. AnswersAreGrounded'
    BY <1>3, BuildShowsNothing DEF BuildsFrom
  <2> QED
    BY <1>1, <1>2, <2>4, <2>5 DEF GroundInv, webVars
<1>4. CASE ~BuildsFrom(Answerable)
  <2>1. UNCHANGED evidence /\ answer' \in {NoAnswer, Without("INSUFFICIENT")}
    BY <1>1, <1>4 DEF ResearchEnds, generation
  <2>2. AnswersAreGrounded'
    BY <2>1, NothingShown
  <2> QED
    BY <1>1, <1>2, <2>1, <2>2 DEF GroundInv, webVars
<1> QED
  BY <1>3, <1>4

(* What validate_generated_answer accepts is grounded, and all else shows nothing. *)
LEMMA GenerateKeepsGround ==
  ASSUME GroundInv, Generate, UNCHANGED webVars
  PROVE  AnswersAreGrounded' /\ UNCHANGED evidence
<1>0. UNCHANGED evidence /\ answer = NoAnswer
  BY DEF Generate, Reply, Unparsable, NetworkError, ProviderRefuses, Generating
<1>1. CASE answer' \in {NoAnswer, Without("INSUFFICIENT"), Without("FAILED")}
  BY <1>0, <1>1, NothingShown
<1>2. CASE answer' \notin {NoAnswer, Without("INSUFFICIENT"), Without("FAILED")}
  <2>1. Reply
    BY <1>0, <1>2 DEF Generate, Unparsable, NetworkError, ProviderRefuses
  <2>2. PICK out \in Outputs :
          /\ Accepted(out) /\ ~out.insufficient
          /\ answer' = [status |-> "ANSWERED", claims |-> out.claims,
                        sources |-> Sources(Union(out.claims))]
    BY <1>0, <1>2, <2>1 DEF Reply
  <2>3. /\ out.claims # <<>>
        /\ \A i \in DOMAIN out.claims : out.claims[i] # {} /\ out.claims[i] \subseteq EvidenceIds
    BY <2>2 DEF Accepted
  <2>4. /\ answer'.status = "ANSWERED" /\ answer'.claims = out.claims
        /\ answer'.sources = {evidence[i].source : i \in {j \in DOMAIN evidence :
                                 evidence[j].id \in Union(out.claims)}}
    BY <2>2 DEF Sources
  <2>5. Union(out.claims) \subseteq {evidence[i].id : i \in DOMAIN evidence}
    BY <2>3 DEF Union, EvidenceIds
  <2>6. web # <<>> => answer'.sources \subseteq {web[i].url : i \in DOMAIN web}
    BY <2>4 DEF GroundInv
  <2>7. UNCHANGED <<evidence, web>>
    BY <1>0 DEF webVars
  <2>8. UNION {answer'.claims[i] : i \in DOMAIN answer'.claims} = Union(out.claims)
    BY <2>4 DEF Union
  <2>9. \A i \in DOMAIN answer'.claims : answer'.claims[i] # {}
    BY <2>3, <2>4
  <2> DEFINE cited == Union(out.claims)
  <2> HIDE DEF cited
  <2>10. /\ cited \subseteq {evidence'[i].id : i \in DOMAIN evidence'}
         /\ answer'.sources = {evidence'[i].source : i \in {j \in DOMAIN evidence' :
                                  evidence'[j].id \in cited}}
         /\ web' # <<>> => answer'.sources \subseteq {web'[i].url : i \in DOMAIN web'}
    BY <2>4, <2>5, <2>6, <2>7 DEF cited
  <2>11. AnswersAreGrounded'
    BY <2>3, <2>4, <2>8, <2>9, <2>10 DEF AnswersAreGrounded, cited
  <2> QED
    BY <1>0, <2>11
<1> QED
  BY <1>1, <1>2

LEMMA CapabilityKeepsGround ==
  ASSUME WebInv, GroundInv, CapabilityStep, task'.stage = "run"
  PROVE  GroundInv'
<1>1. CASE GenerationRaises \/ RetrievalFails
  BY <1>1 DEF GenerationRaises, RetrievalFails, GroundInv, AnswersAreGrounded, generation, webVars
<1>2. CASE Retrieve \/ Recall
  <2>1. PICK rows \in Rows : BuildsFrom(rows)
    BY <1>2 DEF Retrieve, Recall
  <2>2. research = "idle" /\ web = <<>> /\ UNCHANGED webVars
    BY <1>2 DEF Retrieve, Recall, GroundInv, WebInv
  <2>3. AnswersAreGrounded' /\ capability' \in {"INSUFFICIENT", "generating"}
    BY <2>1, BuildShowsNothing DEF BuildsFrom
  <2> QED
    BY <2>2, <2>3 DEF GroundInv, webVars
<1>3. CASE StartResearch \/ ResearchStep
  <2>1. evidence = <<>> /\ answer = NoAnswer /\ UNCHANGED generation /\ capability' = "researching"
    BY <1>3 DEF StartResearch, ResearchStep, GroundInv
  <2>2. AnswersAreGrounded'
    BY <2>1, NothingShown DEF generation
  <2> QED
    BY <2>1, <2>2 DEF GroundInv, generation
<1>4. CASE ResearchEnds
  BY <1>4, ResearchEndsKeepsGround
<1>5. CASE GenerateStep
  <2>1. Generate /\ UNCHANGED webVars /\ answer = NoAnswer /\ evidence # <<>>
    BY <1>5 DEF GenerateStep, Generate, Reply, Unparsable, NetworkError, ProviderRefuses,
                Generating
  <2>2. AnswersAreGrounded' /\ UNCHANGED evidence
    BY <2>1, GenerateKeepsGround
  <2>3. answer' = NoAnswer \/ answer'.status \in {"ANSWERED", "INSUFFICIENT", "FAILED"}
    BY <2>1 DEF Generate, Reply, Unparsable, NetworkError, ProviderRefuses, Without, NoAnswer
  <2>4. capability' \in {"generating", "ANSWERED", "INSUFFICIENT", "FAILED"}
    BY <1>5, <2>3 DEF GenerateStep
  <2> QED
    BY <2>1, <2>2, <2>4 DEF GroundInv, webVars
<1> QED
  BY <1>1, <1>2, <1>3, <1>4, <1>5 DEF CapabilityStep

LEMMA GroundInvariant == Spec => []GroundInv
<1>1. Init => GroundInv
  BY DEF Init, AgentInit, CapabilityInit, GenerationInit, WebInit, GroundInv,
         AnswersAreGrounded, NoAnswer
<1>2. DeadlineInv /\ WebInv /\ GroundInv /\ [Next]_allVars => GroundInv'
  <2> SUFFICES ASSUME DeadlineInv, WebInv, GroundInv, [Next]_allVars
               PROVE  GroundInv'
    OBVIOUS
  <2>1. CASE /\ UNCHANGED capabilityVars
             /\ task'.stage \in {"load", "start"} => task.stage \in {"load", "start"}
    BY <2>1 DEF GroundInv, AnswersAreGrounded, capabilityVars, generation, webVars
  <2>2. CASE task'.stage = "run" /\ CapabilityStep
    BY <2>2, CapabilityKeepsGround
  <2>3. CASE task'.stage = "run" /\ Forget /\ capability' = "none"
    BY <2>3, NothingShown DEF GroundInv, Forget
  <2>4. CASE /\ task'.stage = "run"
             /\ capability' \in {"retrieving", "recalling", "raised"}
             /\ UNCHANGED <<generation, webVars>>
             /\ capability = "none" \/ task.stage = "start"
    BY <2>4 DEF GroundInv, AnswersAreGrounded, generation, webVars
  <2> QED
    BY <2>1, <2>2, <2>3, <2>4, StepsOfCapabilities
<1> QED
  BY <1>1, <1>2, DeadlineInvariant, WebInvariant, PTL DEF Spec

(* Whatever the provider sends, an answer cites evidence of its request, its sources are  *)
(* what it cites, and those of a web answer are pages that were read                    *)
(* (generation/structured.py, citation.py, research/service.py).                        *)
THEOREM GroundedAnswers == Spec => []AnswersAreGrounded
<1>1. GroundInv => AnswersAreGrounded
  BY DEF GroundInv
<1> QED
  BY <1>1, GroundInvariant, PTL
-----------------------------------------------------------------------------
(* Types *)

(* A candidate is queued, being fetched, or was read. *)
FetchType ==
  /\ research \in Ended \cup {"idle", "searching", "fetching"}
  /\ queue \in Seq(Urls)
  /\ research \in {"idle", "searching"} => queue = <<>>
  /\ Len(queue) + Len(web) + (IF fetch = NoFetch THEN 0 ELSE 1) <= MaxCandidates
  /\ fetch # NoFetch => fetch.redirects \in 0..MaxRedirects /\ fetch.url \in Urls

LEMMA HopKeepsType ==
  ASSUME WebInv, FetchType, research = "fetching", fetch # NoFetch,
         UNCHANGED <<research, queue, web>>,
         fetch' # NoFetch => fetch'.redirects \in 0..MaxRedirects /\ fetch'.url \in Urls
  PROVE  FetchType'
<1>1. Len(queue) \in Nat /\ Len(web) \in Nat /\ MaxCandidates \in Nat
  BY ResearchAssumption DEF WebInv, FetchType
<1> QED
  BY <1>1 DEF FetchType

LEMMA EndKeepsType ==
  ASSUME WebInv, FetchType, NEW status \in Ended, Ends(status), UNCHANGED web
  PROVE  FetchType'
<1>1. Len(queue) \in Nat /\ Len(web) \in Nat /\ MaxCandidates \in Nat
  BY ResearchAssumption DEF WebInv, FetchType
<1>2. queue' = <<>> /\ fetch' = NoFetch /\ research' = status /\ Len(queue') = 0
  BY DEF Ends
<1> QED
  BY <1>1, <1>2 DEF FetchType, Ended

LEMMA ResearchKeepsType ==
  ASSUME WebInv, FetchType, Research
  PROVE  FetchType'
<1>0. Len(queue) \in Nat /\ Len(web) \in Nat /\ MaxCandidates \in Nat /\ MaxRedirects \in Nat
  BY ResearchAssumption DEF WebInv, FetchType
<1>1. CASE SearchFails
  BY <1>1, EndKeepsType DEF SearchFails, Ended
<1>2. CASE SearchIsMalformed
  BY <1>2, EndKeepsType DEF SearchIsMalformed, Ended
<1>3. CASE SearchReturns
  <2>1. PICK hits \in Hits :
          \/ Ends("NO_RESULTS") \/ Ends("raised")
          \/ research' = "fetching" /\ queue' = Candidates(hits) /\ UNCHANGED fetch
    BY <1>3 DEF SearchReturns
  <2>2. UNCHANGED web /\ web = <<>> /\ fetch = NoFetch
    BY <1>3 DEF SearchReturns, WebInv
  <2>3. CASE Ends("NO_RESULTS") \/ Ends("raised")
    BY <2>2, <2>3, EndKeepsType DEF Ended
  <2>4. CASE research' = "fetching" /\ queue' = Candidates(hits) /\ UNCHANGED fetch
    <3>1. queue' \in Seq(Urls) /\ Len(queue') <= MaxCandidates
      BY <2>4, CandidatesAreHits, ResearchAssumption DEF Urls
    <3>2. Len(web') = 0 /\ fetch' = NoFetch /\ Len(queue') \in Nat
      BY <2>2, <2>4, <3>1
    <3> QED
      BY <1>0, <2>4, <3>1, <3>2 DEF FetchType
  <2> QED
    BY <2>1, <2>3, <2>4
<1>4. CASE OverallTimeout
  BY <1>4, EndKeepsType DEF OverallTimeout, Status, Ended
<1>5. CASE NoMoreCandidates
  BY <1>5, EndKeepsType DEF NoMoreCandidates, Status, Ended
<1>6. CASE BeginFetch
  <2>1. /\ fetch' = [step |-> "validate", hit |-> Head(queue), url |-> Head(queue),
                    redirects |-> 0, pins |-> [h \in {} |-> {}], address |-> {}]
        /\ fetch = NoFetch /\ queue # <<>> /\ queue' = Tail(queue)
        /\ research = "fetching" /\ UNCHANGED <<research, web>>
    BY <1>6 DEF BeginFetch
  <2>2. /\ Head(queue) \in Urls /\ Tail(queue) \in Seq(Urls)
        /\ Len(Tail(queue)) = Len(queue) - 1
    BY <2>1 DEF FetchType
  <2>3. fetch' # NoFetch /\ fetch'.redirects = 0 /\ fetch'.url = Head(queue)
    BY <2>1 DEF NoFetch
  <2> QED
    BY <1>0, <2>1, <2>2, <2>3 DEF FetchType
<1>7. CASE RefuseUrl \/ FetchFails
  <2>1. research = "fetching" /\ fetch' = NoFetch /\ UNCHANGED <<research, queue, web>>
    BY <1>7 DEF RefuseUrl, FetchFails, GivesUp, AtHop, WebInv
  <2>2. CASE RefuseUrl
    <3>1. fetch.step = "validate"
      BY <2>2 DEF RefuseUrl, AtHop
    <3>2. fetch # NoFetch
      BY <3>1 DEF NoFetch
    <3> QED
      BY <2>1, <3>2, HopKeepsType
  <2>3. CASE FetchFails
    <3>1. fetch # NoFetch
      BY <2>3 DEF FetchFails
    <3> QED
      BY <2>1, <3>1, HopKeepsType
  <2> QED
    BY <1>7, <2>2, <2>3
<1>8. CASE PortRaises \/ ResponseRaises
  BY <1>8, EndKeepsType DEF PortRaises, ResponseRaises, Raises, Ended
<1>9. CASE Resolve
  <2>1. /\ research = "fetching" /\ UNCHANGED <<research, queue, web>>
        /\ fetch.step = "validate"
        /\ fetch' = NoFetch \/ \E pinned : fetch' = [fetch EXCEPT !.step = "connect",
                                                                !.pins = pinned]
    BY <1>9 DEF Resolve, GivesUp, AtHop
  <2>2. PICK hit, url, redirects, pins :
          fetch = [step |-> "validate", hit |-> hit, url |-> url, redirects |-> redirects,
                   pins |-> pins, address |-> {}]
    BY <2>1, FetchFields
  <2>3. fetch # NoFetch
    <3>1. fetch.step # "none"
      BY <2>1
    <3> QED
      BY <3>1 DEF NoFetch
  <2>4. redirects \in 0..MaxRedirects /\ url \in Urls
    BY <2>2, <2>3 DEF FetchType
  <2>5. ASSUME fetch' # NoFetch
        PROVE  fetch'.redirects = redirects /\ fetch'.url = url
    <3>1. PICK pinned : fetch' = [fetch EXCEPT !.step = "connect", !.pins = pinned]
      BY <2>1, <2>5
    <3> QED
      BY <2>2, <3>1, ResolvedFetch
  <2> QED
    BY <2>1, <2>3, <2>4, <2>5, HopKeepsType
<1>10. CASE Connect
  <2>1. /\ research = "fetching" /\ UNCHANGED <<research, queue, web>>
        /\ fetch.step = "connect"
        /\ \E used : fetch' = [fetch EXCEPT !.step = "respond", !.address = used]
    BY <1>10 DEF Connect, AtHop
  <2>2. PICK hit, url, redirects, pins :
          fetch = [step |-> "connect", hit |-> hit, url |-> url, redirects |-> redirects,
                   pins |-> pins, address |-> {}]
    BY <2>1, FetchFields
  <2>3. fetch # NoFetch
    <3>1. fetch.step # "none"
      BY <2>1
    <3> QED
      BY <3>1 DEF NoFetch
  <2>4. redirects \in 0..MaxRedirects /\ url \in Urls
    BY <2>2, <2>3 DEF FetchType
  <2>5. fetch'.redirects = redirects /\ fetch'.url = url
    <3>1. PICK used : fetch' = [fetch EXCEPT !.step = "respond", !.address = used]
      BY <2>1
    <3> QED
      BY <2>2, <3>1, ConnectedFetch
  <2> QED
    BY <2>1, <2>3, <2>4, <2>5, HopKeepsType
<1>11. CASE Redirect
  <2>1. PICK next \in Urls :
          \/ fetch' = NoFetch
          \/ /\ fetch.redirects # MaxRedirects
             /\ fetch' = [fetch EXCEPT !.step = "validate", !.url = next, !.address = {},
                                        !.redirects = @ + 1]
    BY <1>11 DEF Redirect, GivesUp
  <2>2. research = "fetching" /\ UNCHANGED <<research, queue, web>> /\ fetch.step = "respond"
    BY <1>11 DEF Redirect, GivesUp, AtHop
  <2>3. PICK hit, url, redirects, pins, address :
          fetch = [step |-> "respond", hit |-> hit, url |-> url, redirects |-> redirects,
                   pins |-> pins, address |-> address]
    BY <2>2, FetchFields
  <2>4. fetch # NoFetch
    <3>1. fetch.step # "none"
      BY <2>2
    <3> QED
      BY <3>1 DEF NoFetch
  <2>5. redirects \in 0..MaxRedirects /\ fetch.redirects = redirects
    BY <2>3, <2>4 DEF FetchType
  <2>6. fetch' # NoFetch => redirects # MaxRedirects /\ fetch'.redirects = redirects + 1
                            /\ fetch'.url = next
    BY <2>1, <2>3, RedirectedFetch
  <2> QED
    BY <1>0, <2>2, <2>4, <2>5, <2>6, HopKeepsType
<1>12. CASE ReadPage
  <2>1. PICK page \in Pages :
          \/ web' = web
          \/ web' = Append(web, [canonical |-> CanonicalOf[fetch.url], page |-> page,
                                 url |-> fetch.url])
    BY <1>12 DEF ReadPage
  <2>2. /\ fetch' = NoFetch /\ fetch # NoFetch /\ research = "fetching"
        /\ UNCHANGED <<research, queue>>
    BY <1>12 DEF ReadPage, AtHop, NoFetch
  <2>3. Len(web') \in {Len(web), Len(web) + 1}
    <3>1. PICK S : web \in Seq(S)
      BY DEF WebInv
    <3> QED
      BY <2>1, <3>1
  <2> QED
    BY <1>0, <2>2, <2>3 DEF FetchType
<1> QED
  BY <1>1, <1>2, <1>3, <1>4, <1>5, <1>6, <1>7, <1>8, <1>9, <1>10, <1>11, <1>12 DEF Research

LEMMA UnreadType ==
  ASSUME research' \in {"idle", "searching"}, queue' = <<>>, fetch' = NoFetch, web' = <<>>
  PROVE  FetchType'
<1>1. Len(queue') = 0 /\ Len(web') = 0 /\ queue' \in Seq(Urls) /\ MaxCandidates \in Nat
      /\ MaxCandidates >= 0
  BY ResearchAssumption
<1> QED
  BY <1>1 DEF FetchType

LEMMA FetchTypeInvariant == Spec => []FetchType
<1>1. Init => FetchType
  <2> SUFFICES ASSUME Init PROVE FetchType
    OBVIOUS
  <2>1. research = "idle" /\ queue = <<>> /\ fetch = NoFetch /\ web = <<>>
    BY DEF Init, AgentInit, CapabilityInit, WebInit
  <2>2. Len(queue) = 0 /\ Len(web) = 0 /\ queue \in Seq(Urls) /\ MaxCandidates \in Nat
        /\ MaxCandidates >= 0
    BY <2>1, ResearchAssumption
  <2> QED
    BY <2>1, <2>2 DEF FetchType
<1>2. WebInv /\ FetchType /\ [Next]_allVars => FetchType'
  <2> SUFFICES ASSUME WebInv, FetchType, [Next]_allVars
               PROVE  FetchType'
    OBVIOUS
  <2>1. CASE UNCHANGED webVars
    BY <2>1 DEF FetchType, webVars
  <2>2. CASE BeginResearch
    <3>1. research = "idle" /\ research' = "searching" /\ UNCHANGED <<queue, fetch, web>>
      BY <2>2 DEF BeginResearch
    <3>2. queue = <<>> /\ fetch = NoFetch /\ web = <<>>
      BY <3>1 DEF WebInv, FetchType
    <3> QED
      BY <3>1, <3>2, UnreadType
  <2>3. CASE ForgetsWeb
    BY <2>3, UnreadType DEF ForgetsWeb
  <2> QED
    BY <2>1, <2>2, <2>3, StepsOfTheWeb, ResearchKeepsType
<1> QED
  BY <1>1, <1>2, WebInvariant, PTL DEF Spec
-----------------------------------------------------------------------------
GenerationType ==
  /\ capability \in Capability
  /\ EvidenceIds \subseteq 1..MaxEvidence
  /\ repairs \in 0..MaxRepairs /\ tries \in 0..NetworkRetries
  /\ answer.status \in {"none", "ANSWERED", "INSUFFICIENT", "FAILED"}

LEMMA BuildKeepsType ==
  ASSUME GenerationType, NEW X, NEW items \in Seq(X), BuildsFrom(items)
  PROVE  GenerationType'
<1>1. EvidenceIds' \subseteq 1..MaxEvidence
  BY EvidenceIsOfItems DEF BuildsFrom, EvidenceIds
<1>2. UNCHANGED <<repairs, tries>> /\ capability' \in {"INSUFFICIENT", "generating"}
      /\ answer'.status \in {"none", "INSUFFICIENT"}
  BY DEF BuildsFrom, Build, NoAnswer, Without
<1> QED
  BY <1>1, <1>2 DEF GenerationType, Capability, Results

LEMMA CapabilityKeepsType ==
  ASSUME WebInv, GenerationType, CapabilityStep
  PROVE  GenerationType'
<1>0. /\ MaxRepairs \in Nat /\ NetworkRetries \in Nat
  BY GenerationAssumption
<1>1. CASE GenerationRaises \/ RetrievalFails \/ StartResearch \/ ResearchStep
  BY <1>1 DEF GenerationRaises, RetrievalFails, StartResearch, ResearchStep, GenerationType,
              generation, EvidenceIds, Capability, Results
<1>2. CASE Retrieve \/ Recall
  BY <1>2, BuildKeepsType, RowsAssumption DEF Retrieve, Recall
<1>3. CASE ResearchEnds /\ BuildsFrom(Answerable)
  <2>1. PICK S : web \in Seq(S)
    BY DEF WebInv
  <2>2. DOMAIN web = 1..Len(web) /\ Len(web) \in Nat
    BY <2>1
  <2>3. Answerable = [i \in 1..Len(web) |-> Answerable[i]]
    BY <2>2 DEF Answerable
  <2>4. Answerable \in Seq({Answerable[i] : i \in DOMAIN web})
    BY <2>2, <2>3
  <2> QED
    BY <1>3, <2>4, BuildKeepsType
<1>4. CASE ResearchEnds /\ ~BuildsFrom(Answerable)
  <2>1. UNCHANGED <<evidence, repairs, tries>> /\ answer' \in {answer, Without("INSUFFICIENT")}
        /\ capability' \in {"INSUFFICIENT", "unavailable", "raised"}
    BY <1>4 DEF ResearchEnds, generation
  <2> QED
    BY <2>1 DEF GenerationType, EvidenceIds, Capability, Results, Without, NoAnswer
<1>5. CASE GenerateStep
  <2>1. Generate /\ answer = NoAnswer
    BY <1>5 DEF GenerateStep, Generate, Reply, Unparsable, NetworkError, ProviderRefuses,
                Generating
  <2>2. UNCHANGED evidence /\ repairs' \in 0..MaxRepairs /\ tries' \in 0..NetworkRetries
    BY <1>0, <2>1 DEF Generate, Reply, Unparsable, NetworkError, ProviderRefuses, GenerationType
  <2>3. answer' = NoAnswer \/ answer'.status \in {"ANSWERED", "INSUFFICIENT", "FAILED"}
    BY <2>1 DEF Generate, Reply, Unparsable, NetworkError, ProviderRefuses, Without, NoAnswer
  <2>4. capability' \in {"generating", "ANSWERED", "INSUFFICIENT", "FAILED"}
    BY <1>5, <2>3 DEF GenerateStep
  <2> QED
    BY <2>2, <2>3, <2>4 DEF GenerationType, EvidenceIds, Capability, Results, NoAnswer
<1> QED
  BY <1>1, <1>2, <1>3, <1>4, <1>5 DEF CapabilityStep

LEMMA GenerationTypeInvariant == Spec => []GenerationType
<1>1. Init => GenerationType
  BY GenerationAssumption DEF Init, AgentInit, CapabilityInit, GenerationInit, GenerationType,
     EvidenceIds, Capability, NoAnswer
<1>2. DeadlineInv /\ WebInv /\ GenerationType /\ [Next]_allVars => GenerationType'
  <2> SUFFICES ASSUME DeadlineInv, WebInv, GenerationType, [Next]_allVars
               PROVE  GenerationType'
    OBVIOUS
  <2>1. CASE UNCHANGED capabilityVars
    BY <2>1 DEF GenerationType, EvidenceIds, capabilityVars, generation
  <2>2. CASE CapabilityStep
    BY <2>2, CapabilityKeepsType
  <2>3. CASE Forget /\ capability' = "none"
    BY <2>3, GenerationAssumption DEF Forget, GenerationType, EvidenceIds, Capability, NoAnswer
  <2>4. CASE /\ capability' \in {"retrieving", "recalling", "raised"}
             /\ UNCHANGED <<generation, webVars>>
    BY <2>4 DEF GenerationType, EvidenceIds, generation, Capability, Results
  <2> QED
    BY <2>1, <2>2, <2>3, <2>4, StepsOfCapabilities
<1> QED
  BY <1>1, <1>2, DeadlineInvariant, WebInvariant, PTL DEF Spec

Statuses == {"none", "NEEDS_INPUT", "ANSWERED", "INSUFFICIENT", "FAILED"}

TaskType ==
  /\ task \in [path : Paths, stage : {"load", "start", "run", "done"},
               outcome : Results \cup {"none", "NEEDS_INPUT"}]
  /\ asked \in Conversations
  /\ agent.status \in Statuses

(* All a step of an ask does to the agent's status. *)
LEMMA StepsOfTheStatus ==
  ASSUME DeadlineInv, [Next]_allVars, agent.status \in Statuses
  PROVE  agent'.status \in Statuses
<1> USE DEF Statuses
<1>1. DOMAIN agent = {"stage", "plan", "observed", "expired", "swallowed", "code", "status",
                     "sources"}
  BY DEF DeadlineInv, AgentShape
<1>2. CASE UNCHANGED allVars \/ LoadContext \/ LoadFails \/ Finish \/ Terminated
           \/ StartPersonal \/ StartWeb \/ RunCapability
  BY <1>2 DEF LoadContext, LoadFails, Finish, Terminated, StartPersonal, StartWeb, RunCapability,
              allVars, agentVars
<1>3. CASE StartAgent
  BY <1>1, <1>3 DEF StartAgent, Planned
<1>4. CASE RunAgent
  <2>1. CASE ThreadStep \/ ToolStep
    BY <2>1 DEF ThreadStep, ToolStep
  <2>2. CASE Complete \/ TooLate \/ WaitTimesOut \/ Drained \/ CancelTool
    BY <1>1, <2>2 DEF Complete, TooLate, WaitTimesOut, Drained, CancelTool, Goes, Expired
  <2>3. CASE BeginPersonalStep \/ BeginWebStep \/ BeginToolStep \/ ThreadReturns
    BY <1>1, <2>3 DEF BeginPersonalStep, BeginWebStep, BeginToolStep, ThreadReturns, Goes, Observed
  <2>4. CASE ToolReturns
    BY <1>1, <2>4 DEF ToolReturns, Observed
  <2>5. CASE Synthesize
    <3>1. agent'.status = Synthesized
      BY <1>1, <2>5 DEF Synthesize
    <3> QED
      BY <3>1 DEF Synthesized
  <2> QED
    BY <1>4, <2>1, <2>2, <2>3, <2>4, <2>5 DEF RunAgent, AgentStep
<1> QED
  BY <1>2, <1>3, <1>4 DEF Next, Run

LEMMA TaskTypeInvariant == Spec => []TaskType
<1> DEFINE Stages == {"load", "start", "run", "done"}
           Outcomes == Results \cup {"none", "NEEDS_INPUT"}
<1>1. Init => TaskType
  BY DEF Init, AgentInit, TaskType, NoAgent, Statuses, Results
<1>2. DeadlineInv /\ TaskType /\ [Next]_allVars => TaskType'
  <2> SUFFICES ASSUME DeadlineInv, TaskType, [Next]_allVars
               PROVE  TaskType'
    OBVIOUS
  <2>0. agent'.status \in Statuses
    BY StepsOfTheStatus DEF TaskType
  <2> DEFINE type == task' \in [path : Paths, stage : Stages, outcome : Outcomes]
  <2>1. ASSUME NEW stage \in Stages, NEW outcome \in Outcomes,
               task' = [task EXCEPT !.stage = stage, !.outcome = outcome]
        PROVE  type
    BY <2>1 DEF TaskType
  <2>2. ASSUME NEW stage \in Stages, task' = [task EXCEPT !.stage = stage]
        PROVE  type
    BY <2>2 DEF TaskType
  <2>3. CASE UNCHANGED allVars \/ Terminated \/ RunCapability \/ RunAgent
    BY <2>0, <2>3 DEF Terminated, RunCapability, RunAgent, allVars, askTaskVars, TaskType
  <2>4. CASE LoadContext
    <3>1. type /\ UNCHANGED asked
      BY <2>2, <2>4 DEF LoadContext
    <3> QED
      BY <2>0, <3>1 DEF TaskType
  <2>5. CASE LoadFails
    <3>1. type /\ UNCHANGED asked
      BY <2>1, <2>5 DEF LoadFails, Results
    <3> QED
      BY <2>0, <3>1 DEF TaskType
  <2>6. CASE StartPersonal \/ StartWeb \/ StartAgent
    <3>1. task' = [task EXCEPT !.stage = "run"] /\ asked' = CHOOSE c \in Conversations : TRUE
      BY <2>6 DEF StartPersonal, StartWeb, StartAgent, Starts
    <3>2. type /\ asked' \in Conversations
      BY <2>2, <3>1 DEF TaskType
    <3> QED
      BY <2>0, <3>2 DEF TaskType
  <2>7. CASE Finish
    <3>1. PICK outcome \in Outcomes : EndsAs(outcome)
      <4>1. Statuses \subseteq Outcomes
        BY DEF Statuses, Results
      <4>2. capability \in Results => capability \in Outcomes /\ "raised" \in Outcomes
        BY DEF Results
      <4> QED
        BY <2>7, <4>1, <4>2 DEF Finish, TaskType
    <3>2. type /\ UNCHANGED asked
      BY <2>1, <2>7, <3>1 DEF EndsAs, Finish
    <3> QED
      BY <2>0, <3>2 DEF TaskType
  <2> QED
    BY <2>3, <2>4, <2>5, <2>6, <2>7 DEF Next, Run
<1> QED
  BY <1>1, <1>2, DeadlineInvariant, PTL DEF Spec

(* Every variable of an ask has its type in every reachable state: repairs, retries,      *)
(* redirects, candidates and evidence within their budgets (generation/service.py,       *)
(* research/fetch.py, research/service.py, agent/execution.py).                         *)
THEOREM AskIsTyped == Spec => []TypeOK
<1>1. DeadlineInv /\ WebInv /\ FetchType /\ GenerationType /\ TaskType => TypeOK
  <2> SUFFICES ASSUME DeadlineInv, WebInv, FetchType, GenerationType, TaskType
               PROVE  TypeOK
    OBVIOUS
  <2>1. /\ Len(queue) \in 0..MaxCandidates /\ Len(web) \in 0..MaxCandidates
    <3>1. Len(queue) \in Nat /\ Len(web) \in Nat /\ MaxCandidates \in Nat
      BY ResearchAssumption DEF WebInv, FetchType
    <3> QED
      BY <3>1 DEF FetchType
  <2>2. Len(agent.observed) \in 0..Len(agent.plan)
    <3>1. Len(agent.observed) \in Nat /\ Len(agent.plan) \in Nat
      BY DEF DeadlineInv, AgentShape
    <3> QED
      BY <3>1 DEF DeadlineInv, AgentShape
  <2> QED
    BY <2>1, <2>2 DEF TypeOK, DeadlineInv, ChildInv, FetchType, GenerationType, TaskType
<1> QED
  BY <1>1, DeadlineInvariant, WebInvariant, FetchTypeInvariant, GenerationTypeInvariant,
     TaskTypeInvariant, PTL
-----------------------------------------------------------------------------
(* Texts *)

\* a character takes one to four bytes
LEMMA SizeOfText ==
  ASSUME NEW text \in Text
  PROVE  /\ Size(text) \in Nat \X Nat
         /\ Size(text)[1] = Len(text)
         /\ Len(text) <= Size(text)[2] /\ Size(text)[2] <= 4 * Len(text)
<1> DEFINE n == Len(text)
           Sum(i) == SumFunctionOnSet(text, 1..i)
           good == {i \in 0..n : Sum(i) \in Nat /\ i <= Sum(i) /\ Sum(i) <= 4 * i}
<1>1. n \in Nat /\ DOMAIN text = 1..n /\ \A i \in 1..n : text[i] \in 1..4 /\ text[i] \in Int
  BY DEF Text
<1> HIDE DEF n
<1>2. 0 \in good
  <2>1. 1..0 = {} /\ 0 \in 0..n
    BY <1>1
  <2> QED
    BY <2>1, SumEmpty
<1>3. ASSUME NEW i \in 1..n, i - 1 \in good
      PROVE  i \in good
  <2>1. Sum(i) = text[i] + Sum(i - 1)
    BY <1>1, SumOfPrefix
  <2>2. Sum(i - 1) \in Nat /\ i - 1 <= Sum(i - 1) /\ Sum(i - 1) <= 4 * (i - 1)
    BY <1>3
  <2>3. text[i] \in 1..4 /\ i \in 0..n /\ i \in Int
    BY <1>1
  <2> HIDE DEF Sum
  <2>4. Sum(i) \in Nat /\ i <= Sum(i) /\ Sum(i) <= 4 * i
    BY <2>1, <2>2, <2>3
  <2> QED
    BY <2>3, <2>4
<1> HIDE DEF good
<1>4. n \in good
  <2>1. n \in 0..n
    BY <1>1
  <2>2. \A i \in 0..n : i \in good
    BY <1>1, <1>2, <1>3, LoopEnds
  <2> QED
    BY <2>1, <2>2
<1>5. SumFunction(text) = Sum(n)
  BY <1>1 DEF SumFunction
<1> QED
  BY <1>1, <1>4, <1>5 DEF Size, good, n

\* the size of two texts put together
LEMMA TextConcat ==
  ASSUME NEW s \in Text, NEW t \in Text
  PROVE  s \o t \in Text /\ Size(s \o t) = Plus(Size(s), Size(t))
<1>1. s \in Seq(Nat) /\ t \in Seq(Nat) /\ s \o t \in Text /\ Len(s \o t) = Len(s) + Len(t)
  BY DEF Text
<1>2. SumFunction(s \o t) = SumFunction(s) + SumFunction(t)
  BY <1>1, SumOfConcat
<1> QED
  BY <1>1, <1>2 DEF Size, Plus

\* only the empty text has no size
LEMMA EmptyText ==
  /\ <<>> \in Text /\ Size(<<>>) = <<0, 0>>
  /\ \A text \in Text : Size(text) = <<0, 0>> => text = <<>>
<1>1. <<>> \in Text /\ Len(<<>>) = 0
  BY DEF Text
<1>2. Size(<<>>)[1] = 0 /\ Size(<<>>)[2] = 0 /\ Size(<<>>) \in Nat \X Nat
  BY <1>1, SizeOfText
<1>3. \A text \in Text : Size(text)[1] = 0 => text = <<>>
  BY SizeOfText DEF Text
<1> QED
  BY <1>1, <1>2, <1>3

\* fixed text: a byte a character
LEMMA AsciiText ==
  ASSUME NEW n \in Nat
  PROVE  Ascii(n) \in Text /\ Size(Ascii(n)) = Flat(n)
<1> DEFINE text == Ascii(n)
           Sum(i) == SumFunctionOnSet(text, 1..i)
           good == {i \in 0..n : Sum(i) = i}
<1>1. text \in Text /\ Len(text) = n /\ DOMAIN text = 1..n
      /\ \A i \in 1..n : text[i] = 1 /\ text[i] \in Int
  BY DEF Ascii, Text
<1> HIDE DEF text
<1>2. 0 \in good
  <2>1. 1..0 = {} /\ 0 \in 0..n
    OBVIOUS
  <2> QED
    BY <2>1, SumEmpty
<1>3. ASSUME NEW i \in 1..n, i - 1 \in good
      PROVE  i \in good
  <2>1. Sum(i) = text[i] + Sum(i - 1)
    BY <1>1, SumOfPrefix
  <2> QED
    BY <1>1, <1>3, <2>1
<1> HIDE DEF good
<1>4. n \in good
  BY <1>2, <1>3, LoopEnds
<1>5. SumFunction(text) = n
  BY <1>1, <1>4 DEF SumFunction, good
<1> QED
  BY <1>1, <1>5 DEF Size, Flat, text

(* truncate_text_to_budget keeps within its limits. *)
LEMMA TruncatedFits ==
  ASSUME NEW text \in Text, NEW m \in Nat \X Nat
  PROVE  Truncated(text, m) \in Text /\ Fits(Size(Truncated(text, m)), m)
<1> DEFINE fitting == {n \in 0..Len(text) : Fits(Size(SubSeq(text, 1, n)), m)}
<1>1. Len(text) \in Nat
  BY DEF Text
<1>2. 0 \in fitting
  <2>1. SubSeq(text, 1, 0) = <<>>
    BY DEF Text
  <2>2. Size(SubSeq(text, 1, 0)) = <<0, 0>> /\ m[1] \in Nat /\ m[2] \in Nat
    BY <2>1, EmptyText
  <2>3. Fits(Size(SubSeq(text, 1, 0)), m)
    BY <2>2 DEF Fits
  <2> QED
    BY <1>1, <2>3
<1>3. Max(fitting) \in fitting
  <2>1. fitting \in SUBSET (0..Len(text)) /\ fitting # {}
    BY <1>2
  <2> HIDE DEF fitting
  <2> QED
    BY <1>1, <2>1, GreatestUpTo
<1>4. \A n \in 0..Len(text) : SubSeq(text, 1, n) \in Text
  BY <1>1 DEF Text
<1> QED
  BY <1>3, <1>4 DEF Truncated

(* The texts of a sequence put together. *)
Growing(f, seqs) ==
  f[0] = <<>> /\ \A i \in 1..Len(seqs) : f[i] = f[i - 1] \o seqs[i]

\* FlattenSeq is the last of the texts that grow one sequence at a time
LEMMA Flattened ==
  ASSUME NEW S, NEW seqs \in Seq(Seq(S)), Len(seqs) # 0
  PROVE  \E f \in [0..Len(seqs) -> Seq(S)] :
           Growing(f, seqs) /\ f[Len(seqs)] = FlattenSeq(seqs)
<1> DEFINE n == Len(seqs)
           V == Seq(S)
           Flattens(g) == g = [i \in 1..n |-> IF i = 1 THEN seqs[i] ELSE g[i - 1] \o seqs[i]]
           flatten == CHOOSE g : Flattens(g)
           step == [p \in V \X (1..n) |-> p[1] \o seqs[p[2]]]
<1>1. n \in Nat /\ n # 0 /\ \A i \in 1..n : seqs[i] \in V
  OBVIOUS
<1>2. FlattenSeq(seqs) = flatten[n]
  BY <1>1 DEF FlattenSeq
<1>3. <<>> \in V /\ step \in [V \X (1..n) -> V]
  BY <1>1
<1>4. \A v \in V, i \in 1..n : step[<<v, i>>] = v \o seqs[i]
  OBVIOUS
<1>5. \A v \in V : <<>> \o v = v
  OBVIOUS
<1> HIDE DEF step, V, n
<1>6. PICK f \in [0..n -> V] : Iterated(f, n, <<>>, step)
  BY <1>1, <1>3, Iterates
<1>7. f[0] = <<>> /\ \A i \in 1..n : f[i] = step[<<f[i - 1], i>>]
  BY <1>6 DEF Iterated
<1>8. \A i \in 1..n : f[i - 1] \in V /\ f[i] = f[i - 1] \o seqs[i]
  <2> TAKE i \in 1..n
  <2>1. i - 1 \in 0..n
    BY <1>1
  <2> QED
    BY <1>4, <1>7, <2>1
<1>9. 1 \in 1..n /\ f[1] = seqs[1]
  <2>1. 1 \in 1..n /\ 1 - 1 = 0
    BY <1>1
  <2>2. f[1] = <<>> \o seqs[1] /\ seqs[1] \in V
    BY <1>1, <1>7, <1>8, <2>1
  <2> QED
    BY <1>5, <2>1, <2>2
<1> DEFINE g == [i \in 1..n |-> f[i]]
<1>10. Flattens(g)
  <2>1. ASSUME NEW i \in 1..n
        PROVE  g[i] = IF i = 1 THEN seqs[i] ELSE g[i - 1] \o seqs[i]
    <3>1. CASE i = 1
      BY <1>9, <3>1
    <3>2. CASE i # 1
      <4>1. i - 1 \in 1..n
        BY <1>1, <3>2
      <4> QED
        BY <1>8, <3>2, <4>1
    <3> QED
      BY <3>1, <3>2
  <2>2. g = [i \in 1..n |-> g[i]]
    OBVIOUS
  <2> HIDE DEF g
  <2> QED
    BY <2>1, <2>2
<1>11. Flattens(flatten)
  BY <1>10
<1> HIDE DEF flatten
<1>12. \A i \in 1..n : flatten[i] = IF i = 1 THEN seqs[i] ELSE flatten[i - 1] \o seqs[i]
  BY <1>11
<1> DEFINE good == {i \in 0..n : i = 0 \/ flatten[i] = f[i]}
<1>13. 0 \in good
  BY <1>1
<1>14. ASSUME NEW i \in 1..n, i - 1 \in good
       PROVE  i \in good
  <2>1. i \in 0..n /\ (i # 1 => i - 1 # 0)
    BY <1>1
  <2>2. CASE i = 1
    BY <1>12, <1>9, <2>1, <2>2
  <2>3. CASE i # 1
    BY <1>8, <1>12, <1>14, <2>1, <2>3
  <2> QED
    BY <2>2, <2>3
<1>15. flatten[n] = f[n]
  <2> HIDE DEF good
  <2>1. n \in 0..n
    BY <1>1
  <2>2. \A i \in 0..n : i \in good
    BY <1>1, <1>13, <1>14, LoopEnds
  <2> QED
    BY <1>1, <2>1, <2>2 DEF good
<1>16. Growing(f, seqs)
  BY <1>7, <1>8 DEF Growing, n
<1> QED
  BY <1>2, <1>15, <1>16 DEF V, n

\* and what it gives is a sequence of the same kind
LEMMA FlattenedType ==
  ASSUME NEW S, NEW seqs \in Seq(Seq(S))
  PROVE  FlattenSeq(seqs) \in Seq(S)
<1>1. CASE Len(seqs) = 0
  BY <1>1 DEF FlattenSeq
<1>2. CASE Len(seqs) # 0
  <2>1. PICK f \in [0..Len(seqs) -> Seq(S)] : f[Len(seqs)] = FlattenSeq(seqs)
    BY <1>2, Flattened
  <2>2. Len(seqs) \in 0..Len(seqs)
    OBVIOUS
  <2> QED
    BY <2>1, <2>2
<1> QED
  BY <1>1, <1>2

\* one sequence, and two, put together
LEMMA FlattenOne ==
  ASSUME NEW S, NEW s \in Seq(S)
  PROVE  FlattenSeq(<<s>>) = s
<1> DEFINE one == <<s>>
<1>1. one \in Seq(Seq(S)) /\ Len(one) = 1 /\ one[1] = s
  OBVIOUS
<1>2. <<>> \o s = s
  OBVIOUS
<1> HIDE DEF one
<1>3. PICK f \in [0..Len(one) -> Seq(S)] :
        Growing(f, one) /\ f[Len(one)] = FlattenSeq(one)
  <2>1. Len(one) # 0
    BY <1>1
  <2>2. one \in Seq(Seq(S))
    BY <1>1
  <2> QED
    BY <2>1, <2>2, Flattened
<1>4. 1 \in 1..Len(one) /\ 1 - 1 = 0
  BY <1>1
<1> QED
  BY <1>1, <1>2, <1>3, <1>4 DEF one, Growing

LEMMA FlattenTwo ==
  ASSUME NEW S, NEW s \in Seq(S), NEW t \in Seq(S)
  PROVE  FlattenSeq(<<s, t>>) = s \o t
<1> DEFINE two == <<s, t>>
<1>1. two \in Seq(Seq(S)) /\ Len(two) = 2 /\ two[1] = s /\ two[2] = t
  OBVIOUS
<1>2. <<>> \o s = s
  OBVIOUS
<1> HIDE DEF two
<1>3. PICK f \in [0..Len(two) -> Seq(S)] :
        Growing(f, two) /\ f[Len(two)] = FlattenSeq(two)
  <2>1. Len(two) # 0
    BY <1>1
  <2>2. two \in Seq(Seq(S))
    BY <1>1
  <2> QED
    BY <2>1, <2>2, Flattened
<1>4. 1 \in 1..Len(two) /\ 2 \in 1..Len(two) /\ 1 - 1 = 0 /\ 2 - 1 = 1
  BY <1>1
<1>5. f[1] = <<>> \o s /\ f[2] = f[1] \o t
  BY <1>1, <1>3, <1>4 DEF Growing
<1> QED
  BY <1>1, <1>2, <1>3, <1>5 DEF two, Growing

\* labelled messages, rendered, are a text
LEMMA LabelledText ==
  ASSUME NEW texts \in Seq(Text)
  PROVE  /\ Labelled(texts) \in Seq(Text) /\ Len(Labelled(texts)) = Len(texts)
         /\ RenderMessages(texts) \in Text
<1>1. /\ Len(texts) \in Nat /\ DOMAIN texts = 1..Len(texts)
      /\ \A i \in 1..Len(texts) : texts[i] \in Text
  OBVIOUS
<1>2. ASSUME NEW i \in 1..Len(texts)
      PROVE  Labelled(texts)[i] \in Text
  <2> DEFINE n == RoleLabel[2 - (i % 2)] + (IF i = 1 THEN 0 ELSE 1)
  <2>1. 2 - (i % 2) \in {1, 2}
    BY <1>1
  <2>2. RoleLabel[1] \in Nat /\ RoleLabel[2] \in Nat
    BY BudgetsAssumption
  <2>3. n \in Nat
    BY <2>1, <2>2
  <2> HIDE DEF n
  <2>4. Ascii(n) \o texts[i] \in Text
    BY <1>1, <2>3, AsciiText, TextConcat
  <2> QED
    BY <1>1, <2>4 DEF Labelled, n
<1>3. Labelled(texts) = [i \in 1..Len(texts) |-> Labelled(texts)[i]]
  BY <1>1 DEF Labelled
<1>4. Labelled(texts) \in Seq(Text) /\ Len(Labelled(texts)) = Len(texts)
  BY <1>1, <1>2, <1>3
<1>5. FlattenSeq(Labelled(texts)) \in Seq(1..4)
  BY <1>4, FlattenedType DEF Text
<1> QED
  BY <1>4, <1>5 DEF RenderMessages, Text

(* Both texts of a turn, as _message_pair returns them. *)
Pairs == {<<u, a>> : u \in Text, a \in Text}

\* its texts
LEMMA PairFields ==
  ASSUME NEW pair \in Pairs
  PROVE  /\ pair \in Seq(Text) /\ Len(pair) = 2 /\ pair = <<pair[1], pair[2]>>
         /\ pair[1] \in Text /\ pair[2] \in Text
<1>1. PICK u \in Text, a \in Text : pair = <<u, a>>
  BY DEF Pairs
<1>2. pair[1] = u /\ pair[2] = a /\ Len(pair) = 2
  BY <1>1
<1>3. pair \in Seq(Text)
  <2> HIDE DEF Text
  <2> QED
    BY <1>1
<1> QED
  BY <1>1, <1>2, <1>3

\* a function on 1..2 is a pair
LEMMA TwoOf ==
  ASSUME NEW f, NEW x, NEW y, f = [i \in 1..2 |-> f[i]], f[1] = x, f[2] = y
  PROVE  f = <<x, y>>
<1> DEFINE g == <<x, y>>
<1>1. g = [i \in 1..2 |-> g[i]] /\ g[1] = x /\ g[2] = y
  OBVIOUS
<1>2. \A i \in 1..2 : f[i] = g[i]
  BY <1>1
<1> HIDE DEF g
<1>3. f = g
  BY <1>1, <1>2
<1> QED
  BY <1>3 DEF g

\* a component is never empty: its heading is not
LEMMA ComponentText ==
  ASSUME NEW tier \in Tiers, NEW body \in Text
  PROVE  /\ Component(tier, body) \in Text /\ Component(tier, body) # <<>>
         /\ Size(Component(tier, body)) = Plus(Flat(Heading[tier]), Size(body))
         /\ 1 <= Size(Component(tier, body))[1] /\ 1 <= Size(Component(tier, body))[2]
<1>1. Heading[tier] \in Nat /\ 1 <= Heading[tier]
  BY BudgetsAssumption
<1>2. Ascii(Heading[tier]) \in Text /\ Size(Ascii(Heading[tier])) = Flat(Heading[tier])
  BY <1>1, AsciiText
<1>3. /\ Component(tier, body) \in Text
      /\ Size(Component(tier, body)) = Plus(Flat(Heading[tier]), Size(body))
  BY <1>2, TextConcat DEF Component
<1>4. Size(body)[1] \in Nat /\ Size(body)[2] \in Nat
  BY SizeOfText
<1>5. 1 <= Size(Component(tier, body))[1] /\ 1 <= Size(Component(tier, body))[2]
  BY <1>1, <1>3, <1>4 DEF Plus, Flat
<1>6. Size(<<>>)[1] = 0
  BY EmptyText
<1> QED
  BY <1>3, <1>5, <1>6

\* and neither is one of turns
LEMMA TurnsText ==
  ASSUME NEW tier \in Tiers, NEW pairs \in Seq(Pairs)
  PROVE  /\ TurnsComponent(tier, pairs) \in Text /\ TurnsComponent(tier, pairs) # <<>>
         /\ 1 <= Size(TurnsComponent(tier, pairs))[1]
         /\ 1 <= Size(TurnsComponent(tier, pairs))[2]
<1>1. pairs \in Seq(Seq(Text))
  <2>1. \A i \in 1..Len(pairs) : pairs[i] \in Seq(Text)
    BY PairFields
  <2> QED
    BY <2>1
<1>2. FlattenSeq(pairs) \in Seq(Text)
  BY <1>1, FlattenedType
<1>3. RenderMessages(FlattenSeq(pairs)) \in Text
  BY <1>2, LabelledText
<1> QED
  BY <1>3, ComponentText DEF TurnsComponent

\* one turn under its heading: labels, a newline, and its two texts
LEMMA TurnSize ==
  ASSUME NEW u \in Text, NEW a \in Text
  PROVE  Size(TurnsComponent("recent", <<<<u, a>>>>)) =
           Plus(Flat(Heading.recent + RoleLabel[1] + RoleLabel[2] + 1), Plus(Size(u), Size(a)))
<1> DEFINE texts == <<u, a>>
           h == Heading.recent
           l == RoleLabel[1]
           m == RoleLabel[2] + 1
<1>1. texts \in Seq(Text) /\ DOMAIN texts = 1..2 /\ texts[1] = u /\ texts[2] = a
  OBVIOUS
<1>2. FlattenSeq(<<texts>>) = texts
  BY <1>1, FlattenOne
<1>3. h \in Nat /\ l \in Nat /\ m \in Nat /\ RoleLabel[2] \in Nat
  BY BudgetsAssumption DEF Tiers
<1>4. Labelled(texts) = <<Ascii(l) \o u, Ascii(m) \o a>>
  <2>1. 2 - (1 % 2) = 1 /\ 2 - (2 % 2) = 2 /\ l + 0 = l
    BY <1>3
  <2>2. Labelled(texts)[1] = Ascii(l) \o u /\ Labelled(texts)[2] = Ascii(m) \o a
    <3> DEFINE label(i) == Ascii(RoleLabel[2 - (i % 2)] + (IF i = 1 THEN 0 ELSE 1))
    <3>1. label(1) = Ascii(l) /\ label(2) = Ascii(m)
      <4>1. /\ RoleLabel[2 - (1 % 2)] + (IF 1 = 1 THEN 0 ELSE 1) = l
            /\ RoleLabel[2 - (2 % 2)] + (IF 2 = 1 THEN 0 ELSE 1) = m
        BY <2>1
      <4> QED
        BY <4>1
    <3>2. Labelled(texts) = [i \in DOMAIN texts |-> label(i) \o texts[i]]
      BY DEF Labelled
    <3>3. 1 \in DOMAIN texts /\ 2 \in DOMAIN texts
      BY <1>1
    <3> HIDE DEF texts, label, l, m
    <3>4. Labelled(texts)[1] = label(1) \o texts[1] /\ Labelled(texts)[2] = label(2) \o texts[2]
      BY <3>2, <3>3
    <3> QED
      BY <1>1, <3>1, <3>4
  <2>3. DOMAIN Labelled(texts) = 1..2 /\ Labelled(texts) = [i \in 1..2 |-> Labelled(texts)[i]]
    BY <1>1 DEF Labelled
  <2> HIDE DEF texts, l, m
  <2> QED
    BY <2>2, <2>3, TwoOf
<1> HIDE DEF texts, l, m, h
<1>5. /\ Ascii(l) \in Text /\ Size(Ascii(l)) = Flat(l)
      /\ Ascii(m) \in Text /\ Size(Ascii(m)) = Flat(m)
  BY <1>3, AsciiText
<1>6. /\ Ascii(l) \o u \in Text /\ Size(Ascii(l) \o u) = Plus(Flat(l), Size(u))
      /\ Ascii(m) \o a \in Text /\ Size(Ascii(m) \o a) = Plus(Flat(m), Size(a))
  BY <1>5, TextConcat
<1>7. RenderMessages(texts) = (Ascii(l) \o u) \o (Ascii(m) \o a)
  BY <1>4, <1>6, FlattenTwo DEF RenderMessages, Text
<1>8. RenderMessages(texts) \in Text
      /\ Size(RenderMessages(texts)) = Plus(Plus(Flat(l), Size(u)), Plus(Flat(m), Size(a)))
  BY <1>6, <1>7, TextConcat
<1>9. Size(TurnsComponent("recent", <<texts>>)) =
        Plus(Flat(h), Plus(Plus(Flat(l), Size(u)), Plus(Flat(m), Size(a))))
  BY <1>2, <1>8, ComponentText DEF TurnsComponent, Tiers, h
<1>10. Size(u) \in Nat \X Nat /\ Size(a) \in Nat \X Nat
  BY SizeOfText
<1>11. Plus(Flat(h), Plus(Plus(Flat(l), Size(u)), Plus(Flat(m), Size(a))))
        = Plus(Flat(h + l + m), Plus(Size(u), Size(a)))
  BY <1>3, <1>10 DEF Plus, Flat
<1>12. h + l + m = Heading.recent + RoleLabel[1] + RoleLabel[2] + 1
  BY <1>3 DEF h, l, m
<1> QED
  BY <1>9, <1>11, <1>12 DEF texts
-----------------------------------------------------------------------------
(* _fit_newest_pair: both messages stay, and fit *)

\* a round takes a character from a text that has more than one
LEMMA ShorterStays ==
  ASSUME NEW U \in Nat, NEW A \in Nat, NEW p \in (1..U) \X (1..A)
  PROVE  Shorter(p) \in (1..U) \X (1..A)
BY DEF Shorter

\* the lengths round by round, as FitNewest defines them: one and one in the end
Lengths(U, A, n) ==
  CHOOSE g : g = [k \in 0..n |-> IF k = 0 THEN <<U, A>> ELSE Shorter(g[k - 1])]

\* every round leaves both messages a character, and the rounds end with one each
LEMMA LengthsRun ==
  ASSUME NEW U \in Nat, NEW A \in Nat, 1 <= U, 1 <= A
  PROVE  /\ \A k \in 0..(U + A) : Lengths(U, A, U + A)[k] \in (1..U) \X (1..A)
         /\ Lengths(U, A, U + A)[U + A] = <<1, 1>>
<1> DEFINE n == U + A
           V == (1..U) \X (1..A)
           Runs(g) == g = [k \in 0..n |-> IF k = 0 THEN <<U, A>> ELSE Shorter(g[k - 1])]
           run == Lengths(U, A, n)
           step == [p \in V \X (1..n) |-> Shorter(p[1])]
<1>1. n \in Nat /\ <<U, A>> \in V /\ \A p \in V : Shorter(p) \in V
  BY ShorterStays
<1>2. step \in [V \X (1..n) -> V] /\ \A v \in V, i \in 1..n : step[<<v, i>>] = Shorter(v)
  BY <1>1
<1> HIDE DEF step, V, n
<1>3. PICK f \in [0..n -> V] : Iterated(f, n, <<U, A>>, step)
  BY <1>1, <1>2, Iterates
<1>4. Runs(f)
  <2>1. ASSUME NEW k \in 0..n
        PROVE  f[k] = IF k = 0 THEN <<U, A>> ELSE Shorter(f[k - 1])
    <3>1. CASE k = 0
      BY <1>3, <3>1 DEF Iterated
    <3>2. CASE k # 0
      <4>1. k \in 1..n /\ k - 1 \in 0..n
        BY <1>1, <3>2
      <4>2. f[k] = step[<<f[k - 1], k>>] /\ f[k - 1] \in V
        BY <1>3, <4>1 DEF Iterated
      <4> QED
        BY <1>2, <3>2, <4>1, <4>2
    <3> QED
      BY <3>1, <3>2
  <2>2. f = [k \in 0..n |-> f[k]]
    OBVIOUS
  <2> QED
    BY <2>1, <2>2
<1>5. Runs(run)
  BY <1>4 DEF Lengths
<1> HIDE DEF run
<1>6. \A k \in 0..n : run[k] = IF k = 0 THEN <<U, A>> ELSE Shorter(run[k - 1])
  BY <1>5
<1> DEFINE Sum(p) == p[1] + p[2]
           good == {k \in 0..n : run[k] \in V /\ (Sum(run[k]) = 2 \/ Sum(run[k]) = n - k)}
<1>7. 0 \in good
  BY <1>1, <1>6 DEF n
<1>8. ASSUME NEW k \in 1..n, k - 1 \in good
      PROVE  k \in good
  <2> DEFINE p == run[k - 1]
             q == run[k]
  <2>1. k \in 0..n /\ q = Shorter(p) /\ p \in V /\ (Sum(p) = 2 \/ Sum(p) = n - (k - 1))
    BY <1>1, <1>6, <1>8
  <2> HIDE DEF p, q
  <2>2. p \in (1..U) \X (1..A)
    BY <2>1 DEF V
  <2>6. p[1] \in Nat /\ p[2] \in Nat /\ 2 <= Sum(p)
    BY <2>2
  <2>5. /\ 2 < Sum(p) => Sum(q) = Sum(p) - 1
        /\ ~(2 < Sum(p)) => q = p
    <3>1. PICK u \in 1..U, a \in 1..A : p = <<u, a>>
      BY <2>2
    <3>2. p[1] = u /\ p[2] = a /\ u \in Nat /\ a \in Nat /\ 1 <= u /\ 1 <= a
      BY <3>1
    <3>3. CASE u >= a /\ u > 1
      <4>1. q = <<u - 1, a>>
        BY <2>1, <3>1, <3>3 DEF Shorter
      <4> QED
        BY <3>2, <3>3, <4>1
    <3>4. CASE ~(u >= a /\ u > 1) /\ a > 1
      <4>1. q = <<u, a - 1>>
        BY <2>1, <3>1, <3>4 DEF Shorter
      <4> QED
        BY <3>2, <3>4, <4>1
    <3>5. CASE ~(u >= a /\ u > 1) /\ ~(a > 1)
      <4>1. q = p
        BY <2>1, <3>1, <3>5 DEF Shorter
      <4> QED
        BY <3>2, <3>5, <4>1
    <3> QED
      BY <3>3, <3>4, <3>5
  <2>7. q \in V
    BY <2>1, <2>2, ShorterStays DEF V
  <2>3. /\ q \in V /\ p[1] \in Nat /\ p[2] \in Nat /\ 2 <= Sum(p)
        /\ 2 < Sum(p) => Sum(q) = Sum(p) - 1
        /\ ~(2 < Sum(p)) => q = p
    BY <2>5, <2>6, <2>7
  <2>4. Sum(q) = 2 \/ Sum(q) = n - k
    <3>1. CASE 2 < Sum(p)
      BY <1>1, <2>1, <2>3, <3>1
    <3>2. CASE ~(2 < Sum(p))
      BY <2>1, <2>3, <3>2
    <3> QED
      BY <3>1, <3>2
  <2> QED
    BY <2>1, <2>3, <2>4 DEF q
<1>9. \A k \in 0..n : k \in good
  <2> HIDE DEF good
  <2> QED
    BY <1>1, <1>7, <1>8, LoopEnds
<1>10. run[n] = <<1, 1>>
  <2>1. n \in 0..n /\ n - n = 0
    BY <1>1
  <2>2. run[n] \in (1..U) \X (1..A) /\ (Sum(run[n]) = 2 \/ Sum(run[n]) = 0)
    BY <1>9, <2>1 DEF V
  <2>3. PICK u \in 1..U, a \in 1..A : run[n] = <<u, a>>
    BY <2>2
  <2> QED
    BY <2>2, <2>3
<1> QED
  BY <1>9, <1>10 DEF run, n, V

\* a nonempty set of naturals has a least element
LEMMA LeastIn ==
  ASSUME NEW S \in SUBSET Nat, S # {}
  PROVE  Min(S) \in S
<1>1. PICK x \in S : \A y \in S : x <= y
  BY LeastNat
<1> QED
  BY <1>1 DEF Min

(* Whatever the texts are, some round fits: at the latest the one that leaves a       *)
(* character of each, which the settings' bounds make room for.                       *)
LEMMA NewestFits ==
  ASSUME NEW pair \in Pairs
  PROVE  /\ FitNewest(pair) \in Pairs /\ FitNewest(pair)[1] # <<>> /\ FitNewest(pair)[2] # <<>>
         /\ Fits(Size(TurnsComponent("recent", <<FitNewest(pair)>>)), Budget)
<1> DEFINE full == [i \in 1..2 |-> IF pair[i] = <<>> THEN <<3>> ELSE pair[i]]
           U == Len(full[1])
           A == Len(full[2])
           n == U + A
           run == Lengths(U, A, n)
           part(k) == [i \in 1..2 |-> SubSeq(full[i], 1, run[k][i])]
           fitting == {k \in 0..n : Fits(Size(TurnsComponent("recent", <<part(k)>>)), Budget)}
<1>1. FitNewest(pair) = part(Min({n} \cup fitting))
  BY DEF FitNewest, Lengths
<1>2. \A i \in 1..2 : full[i] \in Text /\ full[i] # <<>>
  <2>1. <<3>> \in Text /\ <<3>> # <<>>
    BY DEF Text
  <2> QED
    BY <2>1, PairFields
<1>3. U \in Nat /\ A \in Nat /\ 1 <= U /\ 1 <= A
  <2>1. \A text \in Text : text # <<>> => Len(text) \in Nat /\ 1 <= Len(text)
    BY DEF Text
  <2> HIDE DEF full
  <2> QED
    BY <1>2, <2>1
<1> HIDE DEF full
<1>4. /\ \A k \in 0..n : run[k] \in (1..U) \X (1..A)
      /\ run[n] = <<1, 1>> /\ n \in Nat
  <2> HIDE DEF U, A
  <2>1. U + A \in Nat
    BY <1>3
  <2>2. /\ \A k \in 0..(U + A) : Lengths(U, A, U + A)[k] \in (1..U) \X (1..A)
        /\ Lengths(U, A, U + A)[U + A] = <<1, 1>>
    BY <1>3, LengthsRun
  <2> QED
    BY <2>1, <2>2
<1> HIDE DEF run, n
<1>5. ASSUME NEW k \in 0..n
      PROVE  /\ part(k) = <<SubSeq(full[1], 1, run[k][1]), SubSeq(full[2], 1, run[k][2])>>
             /\ part(k) \in Pairs /\ part(k)[1] # <<>> /\ part(k)[2] # <<>>
  <2> DEFINE u == SubSeq(full[1], 1, run[k][1])
             a == SubSeq(full[2], 1, run[k][2])
  <2>1. ASSUME NEW text \in Text, NEW m \in 1..Len(text)
        PROVE  SubSeq(text, 1, m) \in Text /\ SubSeq(text, 1, m) # <<>>
    BY DEF Text
  <2>2. run[k][1] \in 1..Len(full[1]) /\ run[k][2] \in 1..Len(full[2])
    BY <1>4
  <2>3. u \in Text /\ u # <<>> /\ a \in Text /\ a # <<>>
    <3> HIDE DEF Text
    <3>1. full[1] \in Text /\ full[2] \in Text
      BY <1>2
    <3> QED
      BY <2>1, <2>2, <3>1
  <2>4. part(k)[1] = u /\ part(k)[2] = a /\ part(k) = [i \in 1..2 |-> part(k)[i]]
    <3>1. part(k)[1] = u /\ part(k)[2] = a
      <4>1. 1 \in 1..2 /\ 2 \in 1..2
        OBVIOUS
      <4>2. \A i \in 1..2 : part(k)[i] = SubSeq(full[i], 1, run[k][i])
        OBVIOUS
      <4> HIDE DEF part
      <4> QED
        BY <4>1, <4>2
    <3>2. part(k) = [i \in 1..2 |-> part(k)[i]]
      <4> HIDE DEF u, a
      <4> QED
        OBVIOUS
    <3> HIDE DEF part, u, a
    <3> QED
      BY <3>1, <3>2
  <2> HIDE DEF u, a, part
  <2>5. part(k) = <<u, a>>
    BY <2>4, TwoOf
  <2>6. part(k) \in Pairs
    BY <2>3, <2>5 DEF Pairs
  <2> QED
    BY <2>3, <2>4, <2>5, <2>6 DEF u, a
<1>6. n \in fitting
  <2> DEFINE u == SubSeq(full[1], 1, 1)
             a == SubSeq(full[2], 1, 1)
             l == Heading.recent + RoleLabel[1] + RoleLabel[2] + 1
  <2>1. n \in 0..n
    BY <1>4
  <2>3. u \in Text /\ a \in Text /\ Len(u) = 1 /\ Len(a) = 1
    <3>1. ASSUME NEW text \in Text, 1 <= Len(text)
          PROVE  SubSeq(text, 1, 1) \in Text /\ Len(SubSeq(text, 1, 1)) = 1
      BY <3>1 DEF Text
    <3>2. full[1] \in Text /\ full[2] \in Text
      BY <1>2
    <3> QED
      BY <1>3, <3>1, <3>2
  <2> HIDE DEF part
  <2>2. part(n) = <<u, a>>
    <3>1. part(n) = <<SubSeq(full[1], 1, run[n][1]), SubSeq(full[2], 1, run[n][2])>>
      BY <1>5, <2>1
    <3>2. run[n][1] = 1 /\ run[n][2] = 1
      BY <1>4
    <3> QED
      BY <3>1, <3>2
  <2> HIDE DEF u, a
  <2>4. Size(TurnsComponent("recent", <<part(n)>>)) = Plus(Flat(l), Plus(Size(u), Size(a)))
    BY <2>2, <2>3, TurnSize
  <2>5. /\ Size(u)[1] = 1 /\ Size(a)[1] = 1
        /\ Size(u)[2] \in Nat /\ Size(u)[2] <= 4 /\ Size(a)[2] \in Nat /\ Size(a)[2] <= 4
    <3>1. ASSUME NEW text \in Text, Len(text) = 1
          PROVE  Size(text)[1] = 1 /\ Size(text)[2] \in Nat /\ Size(text)[2] <= 4
      <4>1. /\ Size(text) \in Nat \X Nat
            /\ Size(text)[1] = Len(text) /\ Size(text)[2] <= 4 * Len(text)
        BY SizeOfText
      <4>2. 4 * Len(text) = 4
        BY <3>1
      <4> QED
        BY <3>1, <4>1, <4>2
    <3> QED
      BY <2>3, <3>1
  <2>6. /\ l \in Nat /\ Budget[1] \in Nat /\ Budget[2] \in Nat
        /\ l + 2 <= Budget[1] /\ l + 2 * 4 <= Budget[2]
    BY BudgetsAssumption DEF Tiers
  <2> HIDE DEF l
  <2>7. Fits(Plus(Flat(l), Plus(Size(u), Size(a))), Budget)
    BY <2>5, <2>6 DEF Plus, Flat, Fits
  <2> QED
    BY <2>1, <2>4, <2>7
<1>7. Min({n} \cup fitting) \in fitting
  <2>1. fitting \subseteq 0..n
    <3> HIDE DEF part
    <3> QED
      OBVIOUS
  <2> HIDE DEF fitting
  <2>2. {n} \cup fitting = fitting /\ fitting # {}
    BY <1>6
  <2>3. fitting \in SUBSET Nat
    BY <1>4, <2>1
  <2> QED
    BY <2>2, <2>3, LeastIn
<1> HIDE DEF part
<1> QED
  BY <1>1, <1>5, <1>7
-----------------------------------------------------------------------------
(* What the account of the placed components stands for *)

Sizes == Nat \X Nat

\* the greater and the lesser of two numbers
LEMMA MaxOfTwo ==
  ASSUME NEW a \in Int, NEW b \in Int
  PROVE  Max({a, b}) = IF a >= b THEN a ELSE b
<1> DEFINE m == IF a >= b THEN a ELSE b
<1>1. m \in {a, b} /\ \A y \in {a, b} : m >= y
  OBVIOUS
<1>2. \A x \in {a, b} : (\A y \in {a, b} : x >= y) => x = m
  OBVIOUS
<1> HIDE DEF m
<1>3. Max({a, b}) \in {a, b} /\ \A y \in {a, b} : Max({a, b}) >= y
  BY <1>1 DEF Max
<1> QED
  BY <1>2, <1>3 DEF m

LEMMA MinOfTwo ==
  ASSUME NEW a \in Int, NEW b \in Int
  PROVE  Min({a, b}) = IF a <= b THEN a ELSE b
<1> DEFINE m == IF a <= b THEN a ELSE b
<1>1. m \in {a, b} /\ \A y \in {a, b} : m <= y
  OBVIOUS
<1>2. \A x \in {a, b} : (\A y \in {a, b} : x <= y) => x = m
  OBVIOUS
<1> HIDE DEF m
<1>3. Min({a, b}) \in {a, b} /\ \A y \in {a, b} : Min({a, b}) <= y
  BY <1>1 DEF Min
<1> QED
  BY <1>2, <1>3 DEF m

\* a difference that is not clamped to zero is exact
LEMMA LessSize ==
  ASSUME NEW s \in Sizes, NEW t \in Sizes
  PROVE  /\ Less(s, t) \in Sizes
         /\ \A i \in 1..2 : 1 <= Less(s, t)[i] => Less(s, t)[i] = s[i] - t[i]
<1>1. s[1] \in Nat /\ s[2] \in Nat /\ t[1] \in Nat /\ t[2] \in Nat
  BY DEF Sizes
<1> DEFINE a == s[1] - t[1]
           b == s[2] - t[2]
<1>2. a \in Int /\ b \in Int
  BY <1>1
<1> HIDE DEF a, b
<1>3. Max({0, a}) = (IF 0 >= a THEN 0 ELSE a) /\ Max({0, b}) = (IF 0 >= b THEN 0 ELSE b)
  BY <1>2, MaxOfTwo
<1>4. Less(s, t) = <<Max({0, a}), Max({0, b})>>
  BY DEF Less, a, b
<1>5. Less(s, t)[1] = (IF 0 >= a THEN 0 ELSE a) /\ Less(s, t)[2] = (IF 0 >= b THEN 0 ELSE b)
  BY <1>3, <1>4
<1>6. Less(s, t) \in Sizes
  BY <1>2, <1>3, <1>4 DEF Sizes
<1>7. \A i \in 1..2 : i = 1 \/ i = 2
  OBVIOUS
<1>8. (1 <= Less(s, t)[1] => Less(s, t)[1] = a) /\ (1 <= Less(s, t)[2] => Less(s, t)[2] = b)
  BY <1>2, <1>5
<1> QED
  BY <1>6, <1>7, <1>8 DEF a, b

\* sizes are added by component
LEMMA PlusSize ==
  ASSUME NEW s \in Sizes, NEW t \in Sizes
  PROVE  Plus(s, t) \in Sizes /\ Plus(s, t)[1] = s[1] + t[1] /\ Plus(s, t)[2] = s[2] + t[2]
BY DEF Plus, Sizes

\* an account is empty, or has characters and bytes
Accounts == {s \in Sizes : s = <<0, 0>> \/ (1 <= s[1] /\ 1 <= s[2])}

\* what fits the room left over fits the room together with what is placed
LEMMA WithFits ==
  ASSUME NEW used \in Accounts, NEW component \in Text, component # <<>>, NEW room \in Sizes,
         Fits(Size(component), Less(room, Separated(used)))
  PROVE  Fits(With(used, component), room)
<1> DEFINE s == Separated(used)
           c == Size(component)
<1>1. used \in Sizes /\ s \in Sizes
  <2>1. Flat(2) \in Sizes
    BY DEF Flat, Sizes
  <2>2. used \in Sizes
    BY DEF Accounts
  <2> QED
    BY <2>1, <2>2, PlusSize DEF Separated
<1>2. c \in Sizes /\ 1 <= c[1] /\ 1 <= c[2]
  <2>1. 1 <= Len(component) /\ Len(component) \in Nat
    BY DEF Text
  <2> QED
    BY <2>1, SizeOfText DEF Sizes
<1> HIDE DEF s, c
<1>3. c[1] <= Less(room, s)[1] /\ c[2] <= Less(room, s)[2]
  BY DEF Fits, s, c
<1>4. /\ Less(room, s) \in Sizes
      /\ \A i \in 1..2 : 1 <= Less(room, s)[i] => Less(room, s)[i] = room[i] - s[i]
  BY <1>1, LessSize
<1>5. c[1] <= room[1] - s[1] /\ c[2] <= room[2] - s[2]
  <2>1. Less(room, s)[1] \in Nat /\ Less(room, s)[2] \in Nat /\ c[1] \in Nat /\ c[2] \in Nat
    BY <1>2, <1>4 DEF Sizes
  <2>2. 1 <= Less(room, s)[1] /\ 1 <= Less(room, s)[2]
    BY <1>2, <1>3, <2>1
  <2> QED
    BY <1>3, <1>4, <2>2
<1>6. With(used, component) = Plus(s, c)
  BY DEF With, s, c
<1>7. s[1] + c[1] <= room[1] /\ s[2] + c[2] <= room[2]
  <2>1. /\ s[1] \in Nat /\ s[2] \in Nat /\ c[1] \in Nat /\ c[2] \in Nat
        /\ room[1] \in Nat /\ room[2] \in Nat
    BY <1>1, <1>2 DEF Sizes
  <2> QED
    BY <1>5, <2>1
<1> QED
  BY <1>1, <1>2, <1>6, <1>7, PlusSize DEF Fits

\* the size of a text is an account
LEMMA AccountOfText ==
  ASSUME NEW text \in Text
  PROVE  Size(text) \in Accounts /\ (Size(text) = <<0, 0>> <=> text = <<>>)
<1>1. /\ Size(text) \in Sizes /\ Len(text) \in Nat
      /\ Size(text)[1] = Len(text) /\ Len(text) <= Size(text)[2]
  BY SizeOfText DEF Sizes, Text
<1>2. CASE text = <<>>
  <2>1. Size(text) = <<0, 0>> /\ <<0, 0>> \in Sizes
    BY <1>2, EmptyText DEF Sizes
  <2> QED
    BY <1>2, <2>1 DEF Accounts
<1>3. CASE text # <<>>
  <2>1. 1 <= Len(text)
    BY <1>3 DEF Text
  <2>2. 1 <= Size(text)[1] /\ 1 <= Size(text)[2]
    BY <1>1, <2>1 DEF Sizes
  <2> QED
    BY <1>1, <1>3, <2>2, EmptyText DEF Accounts
<1> QED
  BY <1>2, <1>3

(* The account says what the joined components amount to.                             *)
LEMMA JoinedSize ==
  ASSUME NEW before \in Text, NEW part \in Text
  PROVE  /\ Joined(before, part) \in Text
         /\ part # <<>> => Joined(before, part) # <<>>
                           /\ Size(Joined(before, part)) = With(Size(before), part)
         /\ part = <<>> => Joined(before, part) = before
<1>1. CASE part = <<>>
  BY <1>1 DEF Joined
<1>2. CASE part # <<>> /\ before = <<>>
  <2>1. Separated(Size(before)) = <<0, 0>>
    BY <1>2, EmptyText DEF Separated
  <2>2. /\ Size(part)[1] \in Nat /\ Size(part)[2] \in Nat
        /\ Size(part) = <<Size(part)[1], Size(part)[2]>>
    BY SizeOfText
  <2>3. With(Size(before), part) = Size(part)
    BY <2>1, <2>2 DEF With, Plus
  <2> QED
    BY <1>2, <2>3 DEF Joined
<1>3. CASE part # <<>> /\ before # <<>>
  <2>1. Joined(before, part) = before \o Ascii(2) \o part
    BY <1>3 DEF Joined
  <2>2. Ascii(2) \in Text /\ Size(Ascii(2)) = Flat(2)
    BY AsciiText
  <2>3. before \o Ascii(2) \in Text /\ Size(before \o Ascii(2)) = Plus(Size(before), Flat(2))
    BY <2>2, TextConcat
  <2>4. /\ (before \o Ascii(2)) \o part \in Text
        /\ Size((before \o Ascii(2)) \o part) = Plus(Plus(Size(before), Flat(2)), Size(part))
    BY <2>3, TextConcat
  <2>5. Size(before) # <<0, 0>>
    BY <1>3, EmptyText
  <2>6. With(Size(before), part) = Plus(Plus(Size(before), Flat(2)), Size(part))
    BY <2>5 DEF With, Separated
  <2>7. (before \o Ascii(2)) \o part # <<>>
    BY <1>3, <2>3 DEF Text
  <2> QED
    BY <1>3, <2>1, <2>4, <2>6, <2>7
<1> QED
  BY <1>1, <1>2, <1>3
-----------------------------------------------------------------------------
(* How much of each turn *)

Turns == Messages \X Messages

\* a turn cut to the limit of a message
LEMMA CutPair ==
  ASSUME NEW turn \in Turns
  PROVE  Cut(turn) \in Pairs
<1> DEFINE m == <<MessageChars, Budget[2]>>
           u == Truncated(turn[1].text, m)
           a == Truncated(turn[2].text, m)
<1>1. m \in Nat \X Nat
  BY BudgetsAssumption
<1>2. turn[1].text \in Text /\ turn[2].text \in Text
  BY DEF Turns, Messages
<1> HIDE DEF m
<1>3. u \in Text /\ a \in Text
  BY <1>1, <1>2, TruncatedFits
<1>4. Cut(turn) = [i \in 1..2 |-> Cut(turn)[i]] /\ Cut(turn)[1] = u /\ Cut(turn)[2] = a
  BY DEF Cut, m
<1> HIDE DEF u, a
<1>5. Cut(turn) = <<u, a>>
  BY <1>4, TwoOf
<1> QED
  BY <1>3, <1>5 DEF Pairs

\* and a sequence of them
LEMMA CutsPairs ==
  ASSUME NEW turns \in Seq(Turns)
  PROVE  Cuts(turns) \in Seq(Pairs) /\ Len(Cuts(turns)) = Len(turns)
<1>1. /\ DOMAIN turns = 1..Len(turns) /\ Len(turns) \in Nat
      /\ \A k \in 1..Len(turns) : turns[k] \in Turns
  OBVIOUS
<1>2. Cuts(turns) = [k \in 1..Len(turns) |-> Cut(turns[k])]
  BY <1>1 DEF Cuts
<1>3. \A k \in 1..Len(turns) : Cut(turns[k]) \in Pairs
  BY <1>1, CutPair
<1> QED
  BY <1>1, <1>2, <1>3

\* what is not empty and fits a difference
LEMMA FitsLess ==
  ASSUME NEW s \in Sizes, NEW t \in Sizes, NEW room \in Sizes, 1 <= s[1], 1 <= s[2],
         Fits(s, Less(room, t))
  PROVE  s[1] + t[1] <= room[1] /\ s[2] + t[2] <= room[2]
<1>1. s[1] <= Less(room, t)[1] /\ s[2] <= Less(room, t)[2]
  BY DEF Fits
<1>2. /\ Less(room, t) \in Sizes
      /\ \A i \in 1..2 : 1 <= Less(room, t)[i] => Less(room, t)[i] = room[i] - t[i]
  BY LessSize
<1>3. /\ s[1] \in Nat /\ s[2] \in Nat /\ t[1] \in Nat /\ t[2] \in Nat
      /\ room[1] \in Nat /\ room[2] \in Nat
      /\ Less(room, t)[1] \in Nat /\ Less(room, t)[2] \in Nat
  BY <1>2 DEF Sizes
<1>4. 1 <= Less(room, t)[1] /\ 1 <= Less(room, t)[2]
  BY <1>1, <1>3
<1>5. Less(room, t)[1] = room[1] - t[1] /\ Less(room, t)[2] = room[2] - t[2]
  BY <1>2, <1>4
<1> QED
  BY <1>1, <1>3, <1>5

\* the summary tier fits the room, with its heading
LEMMA SummaryFits ==
  ASSUME NEW summary \in Text, NEW room \in Sizes
  PROVE  /\ SummaryTier(summary, room) \in Text
         /\ SummaryTier(summary, room) # <<>> =>
              Fits(Size(Component("summary", SummaryTier(summary, room))), room)
<1> DEFINE h == Heading.summary
           left == Less(room, Flat(h))
           limit == <<Min({SummaryChars, left[1]}), left[2]>>
           kept == Truncated(summary, limit)
<1>1. h \in Nat /\ SummaryChars \in Nat /\ "summary" \in Tiers /\ Heading["summary"] = h
  BY BudgetsAssumption DEF Tiers
<1>2. Flat(h) \in Sizes /\ Flat(h)[1] = h /\ Flat(h)[2] = h
  BY <1>1 DEF Flat, Sizes
<1>3. left \in Sizes /\ left[1] \in Nat /\ left[2] \in Nat
  BY <1>2, LessSize DEF Sizes
<1> HIDE DEF h, left
<1>4. Min({SummaryChars, left[1]}) \in Nat /\ Min({SummaryChars, left[1]}) <= left[1]
  BY <1>1, <1>3, MinOfTwo
<1>5. limit \in Nat \X Nat /\ limit[1] <= left[1] /\ limit[2] = left[2]
  BY <1>3, <1>4
<1> HIDE DEF limit
<1>6. kept \in Text /\ Fits(Size(kept), limit)
  BY <1>5, TruncatedFits
<1>7. SummaryTier(summary, room) = kept
  BY DEF SummaryTier, h, left, limit
<1> HIDE DEF kept
<1>8. ASSUME kept # <<>>
      PROVE  Fits(Size(Component("summary", kept)), room)
  <2>1. Len(kept) \in Nat /\ 1 <= Len(kept)
    BY <1>6, <1>8 DEF Text
  <2>2. Size(kept) \in Sizes /\ 1 <= Size(kept)[1] /\ 1 <= Size(kept)[2]
    BY <1>6, <2>1, SizeOfText DEF Sizes
  <2>3. Fits(Size(kept), left)
    <3>1. /\ Size(kept)[1] \in Nat /\ limit[1] \in Nat
      BY <1>5, <2>2 DEF Sizes
    <3>2. Size(kept)[1] <= left[1] /\ Size(kept)[2] <= left[2]
      BY <1>3, <1>5, <1>6, <3>1 DEF Fits
    <3> QED
      BY <3>2 DEF Fits
  <2>4. Size(kept)[1] + h <= room[1] /\ Size(kept)[2] + h <= room[2]
    BY <1>2, <2>2, <2>3, FitsLess DEF left
  <2>5. Size(Component("summary", kept)) = Plus(Flat(h), Size(kept))
    BY <1>1, <1>6, ComponentText
  <2>6. /\ Plus(Flat(h), Size(kept))[1] = h + Size(kept)[1]
        /\ Plus(Flat(h), Size(kept))[2] = h + Size(kept)[2]
    BY <1>2, <2>2, PlusSize
  <2>7. Size(kept)[1] \in Nat /\ Size(kept)[2] \in Nat
    BY <2>2 DEF Sizes
  <2> QED
    BY <1>1, <2>4, <2>5, <2>6, <2>7 DEF Fits
<1> QED
  BY <1>6, <1>7, <1>8

\* the relevant tier fits what the summary leaves of it
LEMMA RelevantFits ==
  ASSUME NEW relevant \in Seq(Turns), NEW used \in Accounts, NEW room \in Sizes
  PROVE  LET tier == RelevantTier(relevant, used, room)
         IN  /\ tier \in Seq(Turns)
             /\ \E m \in 0..Len(relevant) : tier = SubSeq(relevant, 1, m)
             /\ tier # <<>> => Fits(With(used, TurnsComponent("relevant", Cuts(tier))), room)
<1> DEFINE left == Less(room, Separated(used))
           limit == <<Min({left[1], RelevantChars}), left[2]>>
           shown(m) == SubSeq(relevant, 1, m)
           component(m) == TurnsComponent("relevant", Cuts(shown(m)))
           fitting == {m \in 0..Len(relevant) : Fits(Size(component(m)), limit)}
           best == Max({0} \cup fitting)
<1>1. RelevantTier(relevant, used, room) = shown(best)
  BY DEF RelevantTier
<1>2. /\ Len(relevant) \in Nat
      /\ {0} \cup fitting \in SUBSET (0..Len(relevant)) /\ {0} \cup fitting # {}
  <2> HIDE DEF component, limit
  <2> QED
    OBVIOUS
<1>3. best \in {0} \cup fitting
  <2> HIDE DEF fitting
  <2> QED
    BY <1>2, GreatestUpTo
<1>4. best \in 0..Len(relevant)
  BY <1>2, <1>3
<1> HIDE DEF best
<1>5. \A m \in 0..Len(relevant) : shown(m) \in Seq(Turns)
  <2> HIDE DEF Turns
  <2> QED
    BY <1>2
<1>6. used \in Sizes /\ Separated(used) \in Sizes
  <2>1. Flat(2) \in Sizes
    BY DEF Flat, Sizes
  <2>2. used \in Sizes
    BY DEF Accounts
  <2> QED
    BY <2>1, <2>2, PlusSize DEF Separated
<1>7. left \in Sizes /\ left[1] \in Nat /\ left[2] \in Nat
  BY <1>6, LessSize DEF Sizes
<1> HIDE DEF left
<1>8. Min({left[1], RelevantChars}) \in Nat /\ Min({left[1], RelevantChars}) <= left[1]
  <2>1. RelevantChars \in Nat
    BY BudgetsAssumption
  <2> QED
    BY <1>7, <2>1, MinOfTwo
<1>9. limit[1] \in Nat /\ limit[1] <= left[1] /\ limit[2] = left[2]
  BY <1>8
<1> HIDE DEF limit
<1>10. ASSUME shown(best) # <<>>
       PROVE  Fits(With(used, component(best)), room)
  <2>1. best # 0
    BY <1>2, <1>10
  <2>2. Fits(Size(component(best)), limit)
    BY <1>3, <2>1
  <2>3. shown(best) \in Seq(Turns)
    BY <1>4, <1>5
  <2> HIDE DEF shown
  <2>4. Cuts(shown(best)) \in Seq(Pairs) /\ "relevant" \in Tiers
    BY <2>3, CutsPairs DEF Tiers
  <2>5. component(best) \in Text /\ component(best) # <<>>
    BY <2>4, TurnsText
  <2> HIDE DEF component
  <2>6. Size(component(best))[1] \in Nat /\ Size(component(best))[2] \in Nat
    BY <2>5, SizeOfText
  <2>7. Fits(Size(component(best)), left)
    BY <1>7, <1>9, <2>2, <2>6 DEF Fits
  <2> QED
    BY <2>5, <2>7, WithFits DEF left
<1>11. \E m \in 0..Len(relevant) : RelevantTier(relevant, used, room) = SubSeq(relevant, 1, m)
  BY <1>1, <1>4
<1>12. RelevantTier(relevant, used, room) \in Seq(Turns)
  <2>1. shown(best) \in Seq(Turns)
    BY <1>4, <1>5
  <2> HIDE DEF shown
  <2> QED
    BY <1>1, <2>1
<1> HIDE DEF shown
<1> QED
  BY <1>1, <1>10, <1>11, <1>12
-----------------------------------------------------------------------------
(* The newest of a sequence are its tail. *)
LEMMA NewestOf ==
  ASSUME NEW S, NEW turns \in Seq(S), NEW n \in Nat
  PROVE  /\ Newest(turns, n) \in Seq(S)
         /\ \E d \in Nat :
              /\ Len(Newest(turns, n)) + d = Len(turns)
              /\ \A k \in DOMAIN Newest(turns, n) : Newest(turns, n)[k] = turns[k + d]
         /\ n = 0 => Newest(turns, n) = <<>>
         /\ n <= Len(turns) => Len(Newest(turns, n)) = n
         /\ n # 0 /\ turns # <<>> => Newest(turns, n) # <<>>
<1> DEFINE l == Len(turns)
           from == Max({1, l - n + 1})
           rest == Newest(turns, n)
<1>1. l \in Nat /\ l - n + 1 \in Int
  OBVIOUS
<1>2. from = IF 1 >= l - n + 1 THEN 1 ELSE l - n + 1
  BY <1>1, MaxOfTwo
<1>3. rest = SubSeq(turns, from, l)
  BY DEF Newest
<1> HIDE DEF from, rest
<1>4. from \in Nat /\ 1 <= from /\ from <= l + 1
  BY <1>1, <1>2
<1>5. /\ rest \in Seq(S) /\ Len(rest) = l - from + 1
      /\ \A k \in 1..Len(rest) : rest[k] = turns[k + (from - 1)]
  BY <1>1, <1>3, <1>4
<1>6. from - 1 \in Nat /\ Len(rest) + (from - 1) = l
  BY <1>1, <1>4, <1>5
<1>7. DOMAIN rest = 1..Len(rest)
  BY <1>5
<1>8. \E d \in Nat : /\ Len(rest) + d = l
                     /\ \A k \in DOMAIN rest : rest[k] = turns[k + d]
  BY <1>5, <1>6, <1>7
<1>9. (n = 0 => Len(rest) = 0) /\ (n <= l => Len(rest) = n) /\ (n # 0 /\ l # 0 => Len(rest) # 0)
  BY <1>1, <1>2, <1>5
<1>10. rest = <<>> <=> Len(rest) = 0
  BY <1>5
<1>11. turns = <<>> <=> l = 0
  OBVIOUS
<1> QED
  BY <1>5, <1>8, <1>9, <1>10, <1>11 DEF rest

\* and end where it ends
LEMMA NewestLast ==
  ASSUME NEW S, NEW turns \in Seq(S), NEW n \in Nat, n # 0, turns # <<>>
  PROVE  /\ Last(Newest(turns, n)) = Last(turns) /\ Last(turns) \in S
         /\ Newest(turns, n) # <<>>
<1> DEFINE rest == Newest(turns, n)
<1>1. rest \in Seq(S) /\ rest # <<>>
  BY NewestOf
<1>2. PICK d \in Nat : Len(rest) + d = Len(turns) /\ \A k \in DOMAIN rest : rest[k] = turns[k + d]
  BY NewestOf
<1> HIDE DEF rest
<1>3. Len(rest) \in DOMAIN rest /\ Len(turns) \in DOMAIN turns
  BY <1>1
<1>4. rest[Len(rest)] = turns[Len(turns)] /\ turns[Len(turns)] \in S
  BY <1>2, <1>3
<1> QED
  BY <1>1, <1>4 DEF Last, rest

(* The newest turn always fits: its place was reserved.  *)
LEMMA ReservedFits ==
  ASSUME NEW newest \in Pairs, Fits(Size(TurnsComponent("recent", <<newest>>)), Budget),
         NEW used \in Accounts,
         used # <<0, 0>> => Fits(used, Less(Budget, Reserve(newest)))
  PROVE  Fits(With(used, TurnsComponent("recent", <<newest>>)), Budget)
<1> DEFINE c == TurnsComponent("recent", <<newest>>)
           s == Size(c)
           r == Reserve(newest)
<1>1. c \in Text
  <2>1. <<newest>> \in Seq(Pairs) /\ "recent" \in Tiers
    BY DEF Tiers
  <2> QED
    BY <2>1, TurnsText
<1> HIDE DEF c
<1>2. s \in Sizes /\ Flat(2) \in Sizes /\ Flat(2)[1] = 2 /\ Flat(2)[2] = 2 /\ Budget \in Sizes
  BY <1>1, SizeOfText, BudgetsAssumption DEF Sizes, Flat
<1> HIDE DEF s
<1>3. r = Plus(s, Flat(2))
  BY DEF Reserve, c, s
<1>4. r \in Sizes /\ r[1] = s[1] + 2 /\ r[2] = s[2] + 2
  BY <1>2, <1>3, PlusSize
<1> HIDE DEF r
<1>5. used \in Sizes /\ (used = <<0, 0>> \/ (1 <= used[1] /\ 1 <= used[2]))
  BY DEF Accounts
<1>6. Separated(used) \in Sizes
  BY <1>2, <1>5, PlusSize DEF Separated
<1>7. With(used, c) = Plus(Separated(used), s)
  BY DEF With, s
<1>8. /\ Plus(Separated(used), s)[1] = Separated(used)[1] + s[1]
      /\ Plus(Separated(used), s)[2] = Separated(used)[2] + s[2]
  BY <1>2, <1>6, PlusSize
<1>9. /\ s[1] \in Nat /\ s[2] \in Nat /\ used[1] \in Nat /\ used[2] \in Nat
      /\ Budget[1] \in Nat /\ Budget[2] \in Nat
  BY <1>2, <1>5 DEF Sizes
<1>10. Separated(used)[1] + s[1] <= Budget[1] /\ Separated(used)[2] + s[2] <= Budget[2]
  <2>1. CASE used = <<0, 0>>
    <3>1. Separated(used)[1] = 0 /\ Separated(used)[2] = 0
      BY <2>1 DEF Separated
    <3> QED
      BY <1>9, <3>1 DEF Fits, c, s
  <2>2. CASE used # <<0, 0>>
    <3>1. Separated(used) = Plus(used, Flat(2))
      BY <2>2 DEF Separated
    <3>2. Separated(used)[1] = used[1] + 2 /\ Separated(used)[2] = used[2] + 2
      BY <1>2, <1>5, <3>1, PlusSize
    <3>3. 1 <= used[1] /\ 1 <= used[2] /\ Fits(used, Less(Budget, r))
      BY <1>5, <2>2 DEF r
    <3>4. used[1] + r[1] <= Budget[1] /\ used[2] + r[2] <= Budget[2]
      BY <1>2, <1>4, <1>5, <3>3, FitsLess
    <3> QED
      BY <1>4, <1>9, <3>2, <3>4
  <2> QED
    BY <2>1, <2>2
<1> QED
  BY <1>7, <1>8, <1>10 DEF Fits, c

\* the recent tier ends with the newest turn, and older ones keep within the budget
LEMMA RecentFits ==
  ASSUME NEW older \in Seq(Turns), NEW newest \in Pairs, NEW used \in Accounts,
         Fits(With(used, TurnsComponent("recent", <<newest>>)), Budget)
  PROVE  LET recent == RecentTier(older, newest, used)
         IN  /\ recent \in Seq(Pairs) /\ recent # <<>> /\ Last(recent) = newest
             /\ Len(recent) \in 1..(Len(older) + 1)
             /\ Fits(With(used, TurnsComponent("recent", recent)), Budget)
<1> DEFINE body(m) == Cuts(Newest(older, m)) \o <<newest>>
           good(m) == Fits(With(used, TurnsComponent("recent", body(m))), Budget)
           fitting == {m \in 0..Len(older) : good(m)}
           best == Max({0} \cup fitting)
<1>1. RecentTier(older, newest, used) = body(best)
  BY DEF RecentTier
<1>2. Len(older) \in Nat /\ {0} \cup fitting \in SUBSET (0..Len(older)) /\ {0} \cup fitting # {}
  <2> HIDE DEF good
  <2> QED
    OBVIOUS
<1>3. best \in {0} \cup fitting
  <2> HIDE DEF fitting
  <2> QED
    BY <1>2, GreatestUpTo
<1>4. best \in 0..Len(older)
  BY <1>2, <1>3
<1> HIDE DEF best
<1>5. ASSUME NEW m \in 0..Len(older)
      PROVE  /\ Cuts(Newest(older, m)) \in Seq(Pairs) /\ Len(Cuts(Newest(older, m))) = m
             /\ body(m) \in Seq(Pairs) /\ Len(body(m)) = m + 1 /\ body(m)[m + 1] = newest
  <2>1. m \in Nat /\ m <= Len(older)
    OBVIOUS
  <2>2. Newest(older, m) \in Seq(Turns) /\ Len(Newest(older, m)) = m
    BY <2>1, NewestOf
  <2>3. Cuts(Newest(older, m)) \in Seq(Pairs) /\ Len(Cuts(Newest(older, m))) = m
    BY <2>2, CutsPairs
  <2> QED
    BY <2>1, <2>3
<1>6. good(0)
  <2>1. 0 \in 0..Len(older)
    BY <1>2
  <2>2. Cuts(Newest(older, 0)) = <<>>
    <3>1. Cuts(Newest(older, 0)) \in Seq(Pairs) /\ Len(Cuts(Newest(older, 0))) = 0
      BY <1>5, <2>1
    <3> QED
      BY <3>1
  <2>3. body(0) = <<newest>>
    <3>1. <<newest>> \in Seq({newest})
      OBVIOUS
    <3>2. \A s \in Seq({newest}) : <<>> \o s = s
      OBVIOUS
    <3> QED
      BY <2>2, <3>1, <3>2
  <2> HIDE DEF body
  <2> QED
    BY <2>3
<1>7. good(best)
  <2>1. CASE best = 0
    <3> HIDE DEF good
    <3> QED
      BY <1>6, <2>1
  <2>2. CASE best # 0
    BY <1>3, <2>2
  <2> QED
    BY <2>1, <2>2
<1>8. body(best) \in Seq(Pairs) /\ Len(body(best)) = best + 1 /\ body(best)[best + 1] = newest
  BY <1>4, <1>5
<1> HIDE DEF body
<1>9. body(best) # <<>> /\ Last(body(best)) = newest /\ Len(body(best)) \in 1..(Len(older) + 1)
  BY <1>2, <1>4, <1>8 DEF Last
<1> QED
  BY <1>1, <1>7, <1>8, <1>9
-----------------------------------------------------------------------------
(* The whole context *)

\* the reservation is a size
LEMMA ReserveSize ==
  ASSUME NEW newest \in Pairs
  PROVE  Reserve(newest) \in Sizes
<1>1. <<newest>> \in Seq(Pairs) /\ "recent" \in Tiers
  BY DEF Tiers
<1>2. TurnsComponent("recent", <<newest>>) \in Text
  BY <1>1, TurnsText
<1>3. Size(TurnsComponent("recent", <<newest>>)) \in Sizes /\ Flat(2) \in Sizes
  BY <1>2, SizeOfText DEF Sizes, Flat
<1> QED
  BY <1>3, PlusSize DEF Reserve

(* What a context promises: within the budget, and with the newest turn.  *)
Promised(c, turns, relevant) ==
  /\ Render(c) \in Text
  /\ c.size = Size(Render(c))
  /\ Fits(c.size, Budget)
  /\ Last(c.recent)[1] # <<>> /\ Last(c.recent)[2] # <<>>
  /\ \E m \in 0..Len(relevant) : c.relevantIds = Ids(SubSeq(relevant, 1, m))
  /\ \E n \in Nat \ {0} : c.recentIds = Ids(Newest(Newest(turns, MaxTurns), n))

\* tier by tier: the account is the size of what is joined, and each tier fits
LEMMA AssembledContext ==
  ASSUME NEW turns \in Seq(Turns), turns # <<>>, NEW relevant \in Seq(Turns), NEW summary \in Text
  PROVE  Promised(Assemble(turns, relevant, summary), turns, relevant)
<1> DEFINE candidates == Newest(turns, MaxTurns)
           newest == FitNewest(Cut(Last(candidates)))
           room == Less(Budget, Reserve(newest))
           kept == SummaryTier(summary, room)
           S == IF kept = <<>> THEN <<>> ELSE Component("summary", kept)
           afterSummary == IF kept = <<>> THEN <<0, 0>> ELSE Size(Component("summary", kept))
           shown == RelevantTier(relevant, afterSummary, room)
           R == IF shown = <<>> THEN <<>> ELSE TurnsComponent("relevant", Cuts(shown))
           J == Joined(S, R)
           used == IF shown = <<>> THEN afterSummary
                   ELSE With(afterSummary, TurnsComponent("relevant", Cuts(shown)))
           older == Front(candidates)
           recent == RecentTier(older, newest, used)
           T == TurnsComponent("recent", recent)
           c == Assemble(turns, relevant, summary)
<1>1. c = [summary |-> kept, relevant |-> Cuts(shown), relevantIds |-> Ids(shown),
           recent |-> recent, recentIds |-> Ids(Newest(candidates, Len(recent))),
           size |-> With(used, TurnsComponent("recent", recent))]
  BY DEF Assemble
<1> HIDE DEF c
<1>2. /\ candidates \in Seq(Turns) /\ candidates # <<>>
      /\ Last(candidates) \in Turns /\ older \in Seq(Turns)
  <2>1. MaxTurns \in Nat /\ MaxTurns # 0
    BY BudgetsAssumption
  <2>2. candidates \in Seq(Turns)
    BY <2>1, NewestOf
  <2>3. candidates # <<>> /\ Last(candidates) \in Turns
    BY <2>1, NewestLast
  <2> HIDE DEF candidates, Turns
  <2>4. older \in Seq(Turns)
    BY <2>2, <2>3 DEF Front
  <2> QED
    BY <2>2, <2>3, <2>4
<1> HIDE DEF older, candidates
<1>3. /\ newest \in Pairs /\ newest[1] # <<>> /\ newest[2] # <<>>
      /\ Fits(Size(TurnsComponent("recent", <<newest>>)), Budget)
  <2>1. Cut(Last(candidates)) \in Pairs
    BY <1>2, CutPair
  <2> QED
    BY <2>1, NewestFits
<1> HIDE DEF newest
<1>4. room \in Sizes
  <2>1. Budget \in Sizes /\ Reserve(newest) \in Sizes
    BY <1>3, ReserveSize, BudgetsAssumption DEF Sizes
  <2> QED
    BY <2>1, LessSize
<1> HIDE DEF room
<1>5. kept \in Text /\ (kept # <<>> => Fits(Size(Component("summary", kept)), room))
  BY <1>4, SummaryFits
<1> HIDE DEF kept
<1>6. S \in Text /\ afterSummary = Size(S) /\ (S # <<>> => Fits(Size(S), room))
  <2>1. CASE kept = <<>>
    BY <2>1, EmptyText
  <2>2. CASE kept # <<>>
    <3>1. "summary" \in Tiers
      BY DEF Tiers
    <3>2. Component("summary", kept) \in Text
      BY <1>5, <3>1, ComponentText
    <3> QED
      BY <1>5, <2>2, <3>2
  <2> QED
    BY <2>1, <2>2
<1>7. afterSummary \in Accounts
  BY <1>6, AccountOfText
<1>8. S = IF kept = <<>> THEN <<>> ELSE Component("summary", kept)
  OBVIOUS
<1> HIDE DEF S, afterSummary
<1>9. /\ shown \in Seq(Turns) /\ \E m \in 0..Len(relevant) : shown = SubSeq(relevant, 1, m)
      /\ shown # <<>> => Fits(With(afterSummary, TurnsComponent("relevant", Cuts(shown))), room)
  BY <1>4, <1>7, RelevantFits
<1> HIDE DEF shown
<1>10. Cuts(shown) \in Seq(Pairs) /\ (Cuts(shown) = <<>> <=> shown = <<>>)
  <2>1. Cuts(shown) \in Seq(Pairs) /\ Len(Cuts(shown)) = Len(shown)
    BY <1>9, CutsPairs
  <2>2. (Cuts(shown) = <<>> <=> Len(Cuts(shown)) = 0) /\ (shown = <<>> <=> Len(shown) = 0)
    BY <1>9, <2>1
  <2> QED
    BY <2>1, <2>2
<1>11. /\ R \in Text /\ (R = <<>> <=> shown = <<>>)
       /\ R = IF shown = <<>> THEN <<>> ELSE TurnsComponent("relevant", Cuts(shown))
  <2>1. "relevant" \in Tiers /\ <<>> \in Text
    BY EmptyText DEF Tiers
  <2>2. /\ TurnsComponent("relevant", Cuts(shown)) \in Text
        /\ TurnsComponent("relevant", Cuts(shown)) # <<>>
    BY <1>10, <2>1, TurnsText
  <2> QED
    BY <2>1, <2>2
<1>12. used = IF shown = <<>> THEN Size(S) ELSE With(Size(S), R)
  BY <1>6, <1>11
<1> HIDE DEF R
<1>13. J \in Text /\ used = Size(J)
  BY <1>6, <1>11, <1>12, JoinedSize
<1>14. used # <<0, 0>> => Fits(used, room)
  <2>1. CASE shown = <<>>
    BY <1>6, <1>12, <2>1, EmptyText
  <2>2. CASE shown # <<>>
    BY <1>6, <1>9, <1>11, <1>12, <2>2
  <2> QED
    BY <2>1, <2>2
<1>15. used \in Accounts
  BY <1>13, AccountOfText
<1> HIDE DEF used, J
<1>16. Fits(With(used, TurnsComponent("recent", <<newest>>)), Budget)
  BY <1>3, <1>14, <1>15, ReservedFits DEF room
<1>17. /\ recent \in Seq(Pairs) /\ recent # <<>> /\ Last(recent) = newest
       /\ Len(recent) \in 1..(Len(older) + 1)
       /\ Fits(With(used, TurnsComponent("recent", recent)), Budget)
  BY <1>2, <1>3, <1>15, <1>16, RecentFits
<1> HIDE DEF recent
<1>18. T \in Text /\ T # <<>>
  <2>1. "recent" \in Tiers
    BY DEF Tiers
  <2> QED
    BY <1>17, <2>1, TurnsText
<1> HIDE DEF T
<1>19. Joined(J, T) \in Text /\ Size(Joined(J, T)) = With(used, T)
  BY <1>13, <1>18, JoinedSize
<1>20. /\ c.summary = kept /\ c.relevant = Cuts(shown) /\ c.relevantIds = Ids(shown)
       /\ c.recent = recent /\ c.recentIds = Ids(Newest(candidates, Len(recent)))
       /\ c.size = With(used, TurnsComponent("recent", recent))
  BY <1>1
<1>21. Render(c) = Joined(J, T)
  <2>1. S = IF c.summary = <<>> THEN <<>> ELSE Component("summary", c.summary)
    BY <1>8, <1>20
  <2>2. R = IF c.relevant = <<>> THEN <<>> ELSE TurnsComponent("relevant", c.relevant)
    BY <1>10, <1>11, <1>20
  <2>3. T = IF c.recent = <<>> THEN <<>> ELSE TurnsComponent("recent", c.recent)
    BY <1>17, <1>20 DEF T
  <2> QED
    BY <2>1, <2>2, <2>3 DEF Render, J
<1>22. Render(c) \in Text /\ c.size = Size(Render(c)) /\ Fits(c.size, Budget)
  BY <1>17, <1>19, <1>20, <1>21 DEF T
<1>23. Last(c.recent)[1] # <<>> /\ Last(c.recent)[2] # <<>>
  BY <1>3, <1>17, <1>20
<1>24. \E m \in 0..Len(relevant) : c.relevantIds = Ids(SubSeq(relevant, 1, m))
  BY <1>9, <1>20
<1>25. \E n \in Nat \ {0} : c.recentIds = Ids(Newest(Newest(turns, MaxTurns), n))
  <2>1. Len(recent) \in Nat \ {0}
    BY <1>17
  <2> QED
    BY <1>20, <2>1 DEF candidates
<1> QED
  BY <1>22, <1>23, <1>24, <1>25 DEF Promised, c
-----------------------------------------------------------------------------
(* Which turns *)

\* a filter keeps only elements of the set
LEMMA ChosenOf ==
  ASSUME NEW S, NEW turns \in Seq(S), NEW set
  PROVE  Chosen(turns, set) \in Seq(S \cap set)
<1> DEFINE n == Len(turns)
           V == Seq(S \cap set)
           Kept(v, t) == IF t \in set THEN Append(v, t) ELSE v
           Runs(g) == g = [s \in SUBSET DOMAIN turns |->
                             IF s = {} THEN <<>> ELSE Kept(g[s \ {Max(s)}], turns[Max(s)])]
           run == CHOOSE g : Runs(g)
<1>1. n \in Nat /\ DOMAIN turns = 1..n
  OBVIOUS
<1>2. Chosen(turns, set) = run[DOMAIN turns]
  BY DEF Chosen, FoldLeft, MapThenFoldSet
<1>3. ASSUME NEW v \in V, NEW i \in 1..n
      PROVE  Kept(v, turns[i]) \in V
  <2>1. CASE turns[i] \in set
    <3>1. turns[i] \in S \cap set
      BY <2>1
    <3>2. Append(v, turns[i]) \in Seq(S \cap set)
      BY <3>1
    <3> QED
      BY <2>1, <3>2
  <2>2. CASE turns[i] \notin set
    BY <2>2
  <2> QED
    BY <2>1, <2>2
<1>4. <<>> \in V
  OBVIOUS
<1> HIDE DEF Kept
<1>5. \E g : Runs(g)
  <2> DEFINE step == [p \in V \X (1..n) |-> Kept(p[1], turns[p[2]])]
  <2>1. step \in [V \X (1..n) -> V]
    BY <1>3
  <2>2. \A v \in V, i \in 1..n : step[<<v, i>>] = Kept(v, turns[i])
    OBVIOUS
  <2> HIDE DEF step, V, n
  <2>3. PICK g \in [SUBSET (1..n) -> V] : RunsBack(g, n, <<>>, step)
    BY <1>1, <1>4, <2>1, FoldAlong
  <2>4. ASSUME NEW s \in SUBSET (1..n)
        PROVE  g[s] = IF s = {} THEN <<>> ELSE Kept(g[s \ {Max(s)}], turns[Max(s)])
    <3>1. CASE s = {}
      BY <2>3, <3>1 DEF RunsBack
    <3>2. CASE s # {}
      <4>1. Max(s) \in 1..n /\ s \ {Max(s)} \in SUBSET (1..n)
        BY <1>1, <3>2, GreatestOf
      <4> QED
        BY <2>2, <2>3, <3>2, <4>1 DEF RunsBack
    <3> QED
      BY <3>1, <3>2
  <2>5. Runs(g)
    BY <1>1, <2>4
  <2> QED
    BY <2>5
<1>6. Runs(run)
  BY <1>5
<1> HIDE DEF run
<1>7. \A s \in SUBSET (1..n) :
        run[s] = IF s = {} THEN <<>> ELSE Kept(run[s \ {Max(s)}], turns[Max(s)])
  BY <1>1, <1>6
<1>8. ASSUME NEW i \in 1..n, run[1..(i - 1)] \in V
      PROVE  run[1..i] \in V
  <2>1. Max(1..i) = i /\ (1..i) \ {i} = 1..(i - 1) /\ 1..i \in SUBSET (1..n) /\ 1..i # {}
    BY <1>1, PrefixEnds
  <2>2. run[1..i] = Kept(run[1..(i - 1)], turns[i])
    BY <1>7, <2>1
  <2> QED
    BY <1>3, <1>8, <2>2
<1>9. run[{}] \in V
  BY <1>4, <1>7
<1> HIDE DEF V
<1>10. run[1..n] \in V
  BY <1>1, <1>8, <1>9, RunEnds
<1> QED
  BY <1>1, <1>2, <1>10 DEF V

Among(seq) == {seq[k] : k \in DOMAIN seq}

\* a sequence is one of its own elements
LEMMA AmongSeq ==
  ASSUME NEW S, NEW seq \in Seq(S)
  PROVE  /\ seq \in Seq(Among(seq)) /\ Among(seq) \subseteq S
         /\ \A T : seq \in Seq(T) => Among(seq) \subseteq T
<1>1. ASSUME NEW T, seq \in Seq(T)
      PROVE  Among(seq) \subseteq T
  BY <1>1 DEF Among
<1>2. \A k \in 1..Len(seq) : seq[k] \in Among(seq)
  BY DEF Among
<1>3. seq \in Seq(Among(seq))
  BY <1>2
<1> QED
  BY <1>1, <1>3

(* A complete turn is a question and the answer stored right after it.  *)
Adjacent(t, h) ==
  \E k \in 1..(Len(h) - 1) :
    t = <<h[k], h[k + 1]>> /\ h[k].role = "user" /\ h[k + 1].role = "assistant"

\* _complete_turns returns nothing else
LEMMA CompleteTurnsOf ==
  ASSUME NEW h \in Seq(Messages)
  PROVE  /\ CompleteTurns(h) \in Seq(Turns)
         /\ \A t \in Among(CompleteTurns(h)) : Adjacent(t, h)
<1> DEFINE adjacent == [k \in 1..(Len(h) - 1) |-> <<h[k], h[k + 1]>>]
           set == {t \in ToSet(adjacent) : t[1].role = "user" /\ t[2].role = "assistant"}
           turns == CompleteTurns(h)
           n == Len(h) - 1
<1>1. turns = Chosen(adjacent, set)
  BY DEF CompleteTurns
<1>2. n \in Int /\ \A k \in 1..n : h[k] \in Messages /\ h[k + 1] \in Messages
  OBVIOUS
<1>3. \A k \in 1..n : <<h[k], h[k + 1]>> \in Turns
  BY <1>2 DEF Turns
<1>4. adjacent \in Seq(Turns)
  <2>1. CASE n \in Nat
    BY <1>3, <2>1
  <2>2. CASE n \notin Nat
    <3>1. 1..n = 1..0 /\ \A k \in 1..0 : <<h[k], h[k + 1]>> \in Turns
      BY <1>2, <2>2
    <3>2. [k \in 1..0 |-> <<h[k], h[k + 1]>>] \in Seq(Turns)
      BY <3>1
    <3> QED
      BY <3>1, <3>2
  <2> QED
    BY <2>1, <2>2
<1>5. ASSUME NEW t \in set
      PROVE  Adjacent(t, h)
  <2>1. PICK k \in 1..n : t = <<h[k], h[k + 1]>>
    BY DEF ToSet
  <2>2. t[1] = h[k] /\ t[2] = h[k + 1]
    BY <2>1
  <2> QED
    BY <2>1, <2>2 DEF Adjacent
<1> HIDE DEF adjacent, set
<1>6. turns \in Seq(Turns \cap set)
  BY <1>1, <1>4, ChosenOf
<1> HIDE DEF turns
<1>7. Among(turns) \subseteq Turns \cap set /\ turns \in Seq(Among(turns))
  BY <1>6, AmongSeq
<1>8. \A k \in 1..Len(turns) : turns[k] \in Turns
  BY <1>6
<1>9. turns \in Seq(Turns)
  BY <1>6, <1>8
<1> QED
  BY <1>5, <1>7, <1>9 DEF turns

\* a turn is selected only if it scored
LEMMA BestOf ==
  ASSUME NEW S, NEW turns \in Seq(S), NEW words
  PROVE  /\ Best(turns, words) \in Seq(S)
         /\ \A t \in Among(Best(turns, words)) : t \in S /\ Score(t, words) > 0
<1> DEFINE better(s, t) == \/ Score(s, words) > Score(t, words)
                           \/ Score(s, words) = Score(t, words) /\ s[2].id > t[2].id
           scored == {t \in ToSet(turns) : Score(t, words) > 0}
           set == {t \in scored : Cardinality({s \in scored : better(s, t)}) < RelevantTurns}
           best == Best(turns, words)
<1>1. best = Chosen(turns, set)
  BY DEF Best
<1>2. \A t \in set : Score(t, words) > 0
  OBVIOUS
<1> HIDE DEF set
<1>3. best \in Seq(S \cap set)
  BY <1>1, ChosenOf
<1> HIDE DEF best
<1>4. Among(best) \subseteq S \cap set
  BY <1>3, AmongSeq
<1>5. best \in Seq(S)
  BY <1>3
<1> QED
  BY <1>2, <1>4, <1>5 DEF best

\* a turn that scored shares a word
LEMMA ScoredWords ==
  ASSUME NEW turn, NEW words, Score(turn, words) > 0
  PROVE  words \cap (turn[1].words \cup turn[2].words) # {}
BY FS_EmptySet DEF Score

\* relevant turns are turns outside the recent window that share a word
LEMMA RelevantOf ==
  ASSUME NEW turns \in Seq(Turns), NEW recent, NEW words
  PROVE  /\ Relevant(turns, recent, words) \in Seq(Turns)
         /\ \A t \in Among(Relevant(turns, recent, words)) :
              /\ t \in Among(turns) /\ {t[1].id, t[2].id} \cap Ids(recent) = {}
              /\ words \cap (t[1].words \cup t[2].words) # {}
<1> DEFINE set == {t \in ToSet(turns) : {t[1].id, t[2].id} \cap Ids(recent) = {}}
           A == Among(turns)
           B == A \cap set
           relevant == Relevant(turns, recent, words)
<1>1. turns \in Seq(A) /\ A \subseteq Turns
  BY AmongSeq
<1> HIDE DEF A
<1>2. Chosen(turns, set) \in Seq(B)
  BY <1>1, ChosenOf
<1>3. relevant = Best(Chosen(turns, set), words)
  BY DEF Relevant
<1>4. \A t \in B : t \in A /\ {t[1].id, t[2].id} \cap Ids(recent) = {}
  OBVIOUS
<1> HIDE DEF B, set, relevant
<1>5. relevant \in Seq(B) /\ \A t \in Among(relevant) : t \in B /\ Score(t, words) > 0
  BY <1>2, <1>3, BestOf
<1>6. B \subseteq Turns
  BY <1>1, <1>4
<1>7. relevant \in Seq(Turns)
  BY <1>5, <1>6
<1>8. \A t \in Among(relevant) : words \cap (t[1].words \cup t[2].words) # {}
  BY <1>5, ScoredWords
<1> QED
  BY <1>4, <1>5, <1>7, <1>8 DEF relevant, A
-----------------------------------------------------------------------------
(* What an ask finds *)

(* retrieval_query keeps within its budget unless it is the question alone.  *)
LEMMA SearchTextFits ==
  ASSUME NEW c, NEW question \in Text, Render(c) \in Text
  PROVE  \/ SearchText(c, question) = question
         \/ Fits(Size(SearchText(c, question)), QueryBudget)
<1> DEFINE q == Size(question)
           frame == Flat(QueryFrame)
           fixed == Plus(frame, q)
           left == Less(QueryBudget, fixed)
           history == Truncated(Render(c), left)
           text == Ascii(QueryFrame) \o history \o question
<1>1. QueryFrame \in Nat /\ QueryBudget \in Sizes
  BY BudgetsAssumption DEF Sizes
<1>2. Ascii(QueryFrame) \in Text /\ Size(Ascii(QueryFrame)) = frame /\ frame \in Sizes
  BY <1>1, AsciiText DEF Flat, Sizes
<1>3. q \in Sizes
  BY SizeOfText DEF Sizes
<1> HIDE DEF frame, q
<1>4. fixed \in Sizes /\ fixed[1] = frame[1] + q[1] /\ fixed[2] = frame[2] + q[2]
  BY <1>2, <1>3, PlusSize
<1>5. SearchText(c, question) = IF ~Fits(fixed, QueryBudget) THEN question ELSE text
  BY DEF SearchText, fixed, frame, q
<1> HIDE DEF fixed
<1>6. left \in Sizes
  BY <1>1, <1>4, LessSize
<1>7. ASSUME Fits(fixed, QueryBudget)
      PROVE  left[1] = QueryBudget[1] - fixed[1] /\ left[2] = QueryBudget[2] - fixed[2]
  <2> DEFINE a == QueryBudget[1] - fixed[1]
             b == QueryBudget[2] - fixed[2]
  <2>1. QueryBudget[1] \in Nat /\ QueryBudget[2] \in Nat /\ fixed[1] \in Nat /\ fixed[2] \in Nat
    BY <1>1, <1>4 DEF Sizes
  <2>2. a \in Nat /\ b \in Nat
    BY <1>7, <2>1 DEF Fits
  <2>3. left = <<Max({0, a}), Max({0, b})>>
    BY DEF Less
  <2> HIDE DEF a, b, left
  <2>4. Max({0, a}) = a /\ Max({0, b}) = b
    BY <2>2, MaxOfTwo
  <2>5. left[1] = a /\ left[2] = b
    BY <2>3, <2>4
  <2> QED
    BY <2>5 DEF a, b
<1> HIDE DEF left
<1>8. history \in Text /\ Fits(Size(history), left)
  BY <1>6, TruncatedFits DEF Sizes
<1> HIDE DEF history
<1>9. Ascii(QueryFrame) \o history \in Text
      /\ Size(Ascii(QueryFrame) \o history) = Plus(frame, Size(history))
  BY <1>2, <1>8, TextConcat
<1>10. Size(text) = Plus(Plus(frame, Size(history)), q)
  BY <1>9, TextConcat DEF q
<1>11. Size(history) \in Sizes
  BY <1>8, SizeOfText DEF Sizes
<1>12. /\ Size(text)[1] = frame[1] + Size(history)[1] + q[1]
       /\ Size(text)[2] = frame[2] + Size(history)[2] + q[2]
  <2>1. /\ Plus(frame, Size(history)) \in Sizes
        /\ Plus(frame, Size(history))[1] = frame[1] + Size(history)[1]
        /\ Plus(frame, Size(history))[2] = frame[2] + Size(history)[2]
    BY <1>2, <1>11, PlusSize
  <2> QED
    BY <1>3, <1>10, <2>1, PlusSize
<1>13. ASSUME Fits(fixed, QueryBudget)
       PROVE  Fits(Size(text), QueryBudget)
  <2>1. Size(history)[1] <= left[1] /\ Size(history)[2] <= left[2]
    BY <1>8 DEF Fits
  <2>2. left[1] = QueryBudget[1] - fixed[1] /\ left[2] = QueryBudget[2] - fixed[2]
    BY <1>7, <1>13
  <2>3. /\ frame[1] \in Nat /\ frame[2] \in Nat /\ q[1] \in Nat /\ q[2] \in Nat
        /\ Size(history)[1] \in Nat /\ Size(history)[2] \in Nat
        /\ QueryBudget[1] \in Nat /\ QueryBudget[2] \in Nat
    BY <1>1, <1>2, <1>3, <1>11 DEF Sizes
  <2>4. Size(text)[1] <= QueryBudget[1] /\ Size(text)[2] <= QueryBudget[2]
    BY <1>4, <1>12, <2>1, <2>2, <2>3
  <2> QED
    BY <2>4 DEF Fits
<1> HIDE DEF text
<1> QED
  BY <1>5, <1>13

\* the ids of some turns are those of the messages of each
LEMMA IdsOf ==
  ASSUME NEW turns, NEW x
  PROVE  x \in Ids(turns) <=> \E t \in Among(turns) : x = t[1].id \/ x = t[2].id
BY DEF Ids, Among

\* turns shown are turns that were selected
LEMMA AmongPart ==
  ASSUME NEW S, NEW turns \in Seq(S), NEW m \in 0..Len(turns)
  PROVE  SubSeq(turns, 1, m) \in Seq(S) /\ Among(SubSeq(turns, 1, m)) \subseteq Among(turns)
<1>1. /\ SubSeq(turns, 1, m) \in Seq(S) /\ Len(SubSeq(turns, 1, m)) = m
      /\ \A k \in 1..m : SubSeq(turns, 1, m)[k] = turns[k]
  OBVIOUS
<1>2. 1..m \subseteq DOMAIN turns /\ DOMAIN SubSeq(turns, 1, m) = 1..m
  BY <1>1
<1> QED
  BY <1>1, <1>2 DEF Among

\* turns of a window are turns of the whole
LEMMA AmongNewest ==
  ASSUME NEW S, NEW turns \in Seq(S), NEW n \in Nat
  PROVE  Among(Newest(turns, n)) \subseteq Among(turns)
<1> DEFINE rest == Newest(turns, n)
<1>1. rest \in Seq(S)
  BY NewestOf
<1>2. PICK d \in Nat : Len(rest) + d = Len(turns) /\ \A k \in DOMAIN rest : rest[k] = turns[k + d]
  BY NewestOf
<1> HIDE DEF rest
<1>3. \A k \in DOMAIN rest : k + d \in DOMAIN turns
  BY <1>1, <1>2
<1> QED
  BY <1>2, <1>3 DEF Among, rest

\* and so is the last
LEMMA LastAmong ==
  ASSUME NEW S, NEW turns \in Seq(S), turns # <<>>
  PROVE  Last(turns) \in Among(turns)
<1>1. Len(turns) \in DOMAIN turns
  OBVIOUS
<1> QED
  BY <1>1 DEF Last, Among

(* The messages of a history are told apart by their ids. *)
Distinct(h) == \A i, j \in DOMAIN h : h[i].id = h[j].id => i = j

\* an id of a turn's user message belongs to that turn alone
LEMMA TurnById ==
  ASSUME NEW h \in Seq(Messages), Distinct(h), NEW s, NEW t, Adjacent(s, h), Adjacent(t, h),
         s[1].id = t[1].id \/ s[1].id = t[2].id
  PROVE  s = t
<1>1. PICK i \in 1..(Len(h) - 1) : s = <<h[i], h[i + 1]>> /\ h[i].role = "user"
  BY DEF Adjacent
<1>2. PICK j \in 1..(Len(h) - 1) :
        t = <<h[j], h[j + 1]>> /\ h[j].role = "user" /\ h[j + 1].role = "assistant"
  BY DEF Adjacent
<1>3. /\ i \in DOMAIN h /\ j \in DOMAIN h /\ j + 1 \in DOMAIN h
      /\ s[1] = h[i] /\ t[1] = h[j] /\ t[2] = h[j + 1]
  BY <1>1, <1>2
<1>4. CASE s[1].id = t[1].id
  BY <1>1, <1>2, <1>3, <1>4 DEF Distinct
<1>5. CASE s[1].id = t[2].id
  <2>1. i = j + 1
    BY <1>3, <1>5 DEF Distinct
  <2> QED
    BY <1>1, <1>2, <2>1
<1> QED
  BY <1>4, <1>5

\* and so are those of a part of it
LEMMA DistinctNewest ==
  ASSUME NEW h \in Seq(Messages), Distinct(h), NEW n \in Nat
  PROVE  Distinct(Newest(h, n))
<1> DEFINE rest == Newest(h, n)
<1>1. rest \in Seq(Messages)
  BY NewestOf
<1>2. PICK d \in Nat : Len(rest) + d = Len(h) /\ \A k \in DOMAIN rest : rest[k] = h[k + d]
  BY NewestOf
<1> HIDE DEF rest
<1>3. \A k \in DOMAIN rest : k \in Int /\ k + d \in DOMAIN h
  BY <1>1, <1>2
<1> QED
  BY <1>2, <1>3 DEF Distinct, rest

(* What Context returns keeps the promises of AssembledContext about the history's    *)
(* turns, and what ContextFits and NewestTurnKept say of it follows.                 *)
LEMMA LoadedContext ==
  ASSUME NEW conversation \in Conversations
  PROVE  LET c == Context(conversation.history, conversation.words, conversation.summary)
             turns == CompleteTurns(Newest(conversation.history, ScanMessages))
         IN  /\ Render(c) \in Text /\ c.size = Size(Render(c)) /\ Fits(c.size, Budget)
             /\ turns # <<>> =>
                  /\ Ids(<<Last(turns)>>) \subseteq c.recentIds
                  /\ \A i \in 1..2 : Last(c.recent)[i] # <<>>
                  /\ c.relevantIds \cap c.recentIds = {}
                  /\ \A k \in DOMAIN turns :
                       turns[k][1].id \in c.relevantIds =>
                         conversation.words \cap (turns[k][1].words \cup turns[k][2].words) # {}
<1> DEFINE h == Newest(conversation.history, ScanMessages)
           words == conversation.words
           summary == conversation.summary
           turns == CompleteTurns(h)
           c == Context(conversation.history, words, summary)
           window == Newest(turns, MaxTurns)
           relevant == Relevant(turns, window, words)
           Meets(t) == words \cap (t[1].words \cup t[2].words) # {}
<1>1. /\ conversation.history \in Seq(Messages) /\ Distinct(conversation.history)
      /\ summary \in Text
  BY ConversationsAssumption DEF Distinct
<1>2. ScanMessages \in Nat /\ MaxTurns \in Nat /\ MaxTurns # 0
  BY BudgetsAssumption
<1>3. h \in Seq(Messages) /\ Distinct(h)
  BY <1>1, <1>2, NewestOf, DistinctNewest
<1>4. c = IF turns = <<>> THEN NoContext ELSE Assemble(turns, relevant, summary)
  BY DEF Context
<1> HIDE DEF h, c, summary
<1>5. turns \in Seq(Turns) /\ \A t \in Among(turns) : Adjacent(t, h)
  BY <1>3, CompleteTurnsOf
<1> HIDE DEF turns
<1>6. CASE turns = <<>>
  <2>1. Size(<<>>) = <<0, 0>> /\ <<>> \in Text /\ Fits(<<0, 0>>, Budget)
    BY EmptyText, BudgetsAssumption DEF Fits
  <2>2. Render(NoContext) = <<>> /\ NoContext.size = <<0, 0>>
    BY DEF Render, NoContext, Joined
  <2> QED
    BY <1>4, <1>6, <2>1, <2>2 DEF turns, c, h, summary
<1>7. CASE turns # <<>>
  <2>1. /\ relevant \in Seq(Turns)
        /\ \A t \in Among(relevant) :
             t \in Among(turns) /\ {t[1].id, t[2].id} \cap Ids(window) = {} /\ Meets(t)
    BY <1>5, RelevantOf
  <2>2. window \in Seq(Turns) /\ Last(window) = Last(turns) /\ window # <<>>
    BY <1>2, <1>5, <1>7, NewestOf, NewestLast
  <2> HIDE DEF relevant, Meets
  <2>3. Promised(c, turns, relevant)
    BY <1>1, <1>4, <1>5, <1>7, <2>1, AssembledContext
  <2>4. PICK m \in 0..Len(relevant) : c.relevantIds = Ids(SubSeq(relevant, 1, m))
    BY <2>3 DEF Promised
  <2>5. PICK n \in Nat \ {0} : c.recentIds = Ids(Newest(window, n))
    BY <2>3 DEF Promised
  <2> HIDE DEF window
  <2>6. n \in Nat /\ n # 0
    OBVIOUS
  <2>7. Among(SubSeq(relevant, 1, m)) \subseteq Among(relevant)
    BY <2>1, AmongPart
  <2>8. \A x \in c.relevantIds : \E t \in Among(relevant) : x = t[1].id \/ x = t[2].id
    BY <2>4, <2>7, IdsOf
  <2>9. Among(Newest(window, n)) \subseteq Among(window)
    BY <2>2, <2>6, AmongNewest
  <2>10. c.recentIds \subseteq Ids(window)
    <3> SUFFICES ASSUME NEW x \in c.recentIds
                 PROVE  x \in Ids(window)
      OBVIOUS
    <3>1. PICK t \in Among(Newest(window, n)) : x = t[1].id \/ x = t[2].id
      BY <2>5, IdsOf
    <3> QED
      BY <2>9, <3>1, IdsOf
  <2>11. Ids(<<Last(turns)>>) \subseteq c.recentIds
    <3>1. /\ Newest(window, n) \in Seq(Turns) /\ Newest(window, n) # <<>>
          /\ Last(Newest(window, n)) = Last(turns)
      BY <2>2, <2>6, NewestOf, NewestLast
    <3>2. Last(turns) \in Among(Newest(window, n))
      BY <3>1, LastAmong
    <3>3. Among(<<Last(turns)>>) = {Last(turns)}
      BY DEF Among
    <3> SUFFICES ASSUME NEW x \in Ids(<<Last(turns)>>)
                 PROVE  x \in c.recentIds
      OBVIOUS
    <3>4. x = Last(turns)[1].id \/ x = Last(turns)[2].id
      BY <3>3, IdsOf
    <3> QED
      BY <2>5, <3>2, <3>4, IdsOf
  <2>12. \A i \in 1..2 : Last(c.recent)[i] # <<>>
    BY <2>3 DEF Promised
  <2>13. c.relevantIds \cap c.recentIds = {}
    <3> SUFFICES ASSUME NEW x \in c.relevantIds
                 PROVE  x \notin Ids(window)
      BY <2>10
    <3>1. PICK t \in Among(relevant) : x = t[1].id \/ x = t[2].id
      BY <2>8
    <3> QED
      BY <2>1, <3>1
  <2>14. ASSUME NEW k \in DOMAIN turns, turns[k][1].id \in c.relevantIds
         PROVE  Meets(turns[k])
    <3>1. turns[k] \in Among(turns)
      BY DEF Among
    <3>2. PICK t \in Among(relevant) : turns[k][1].id = t[1].id \/ turns[k][1].id = t[2].id
      BY <2>8, <2>14
    <3>3. t \in Among(turns) /\ Meets(t)
      BY <2>1
    <3>4. Adjacent(turns[k], h) /\ Adjacent(t, h)
      BY <1>5, <3>1, <3>3
    <3>5. turns[k] = t
      BY <1>3, <3>2, <3>4, TurnById
    <3> QED
      BY <3>3, <3>5
  <2>15. Render(c) \in Text /\ c.size = Size(Render(c)) /\ Fits(c.size, Budget)
    BY <2>3 DEF Promised
  <2> QED
    BY <2>11, <2>12, <2>13, <2>14, <2>15 DEF Meets, turns, c, h, summary
<1> QED
  BY <1>6, <1>7

(* Until the path starts, the context and the search text are those of what was asked.  *)
Loaded ==
  task.stage = "start" =>
    /\ context = Context(asked.history, asked.words, asked.summary)
    /\ search = IF context = NoContext THEN asked.question
                ELSE SearchText(context, asked.question)

LEMMA LoadedInvariant == Spec => []Loaded
<1>1. Init => Loaded
  BY DEF Init, Loaded
<1>2. TaskType /\ Loaded /\ [Next]_allVars => Loaded'
  <2> SUFFICES ASSUME TaskType, Loaded, [Next]_allVars
               PROVE  Loaded'
    OBVIOUS
  <2>1. DOMAIN task = {"path", "stage", "outcome"}
    BY DEF TaskType
  <2>2. CASE UNCHANGED allVars \/ Terminated \/ RunCapability \/ RunAgent
    <3>1. UNCHANGED askTaskVars
      BY <2>2 DEF Terminated, RunCapability, RunAgent, allVars
    <3> QED
      BY <3>1 DEF askTaskVars, Loaded
  <2>3. CASE LoadContext
    BY <2>3 DEF LoadContext, Loaded
  <2>4. CASE LoadFails
    <3>1. task'.stage = "done"
      BY <2>1, <2>4 DEF LoadFails
    <3> QED
      BY <3>1 DEF Loaded
  <2>5. CASE StartPersonal \/ StartWeb \/ StartAgent
    <3>1. task'.stage = "run"
      BY <2>1, <2>5 DEF StartPersonal, StartWeb, StartAgent, Starts
    <3> QED
      BY <3>1 DEF Loaded
  <2>6. CASE Finish
    <3>1. PICK outcome : EndsAs(outcome)
      BY <2>6 DEF Finish
    <3>2. task'.stage = "done"
      BY <2>1, <3>1 DEF EndsAs
    <3> QED
      BY <3>2 DEF Loaded
  <2> QED
    BY <2>2, <2>3, <2>4, <2>5, <2>6 DEF Next, Run
<1> QED
  BY <1>1, <1>2, TaskTypeInvariant, PTL DEF Spec

(* For every history, every text and every budget that holds one character of each      *)
(* message of a turn: the context never exceeds its budget in characters or bytes, the    *)
(* account kept of it is the size of what is rendered, and the search text is within its  *)
(* own budget or the question alone (assemble_conversation_context, retrieval_query).     *)
THEOREM ContextsFit == Spec => []ContextFits
<1>1. TaskType /\ Loaded => ContextFits
  <2> SUFFICES ASSUME TaskType, Loaded, task.stage = "start"
               PROVE  /\ Fits(context.size, Budget) /\ context.size = Size(Render(context))
                      /\ search = asked.question \/ Fits(Size(search), QueryBudget)
    BY DEF ContextFits
  <2>1. asked \in Conversations /\ asked.question \in Text
    BY ConversationsAssumption DEF TaskType
  <2>2. /\ Render(context) \in Text
        /\ context.size = Size(Render(context)) /\ Fits(context.size, Budget)
    BY <2>1, LoadedContext DEF Loaded
  <2>3. search = asked.question \/ search = SearchText(context, asked.question)
    BY DEF Loaded
  <2>4. search = asked.question \/ Fits(Size(search), QueryBudget)
    BY <2>1, <2>2, <2>3, SearchTextFits
  <2> QED
    BY <2>2, <2>4
<1> QED
  BY <1>1, LoadedInvariant, TaskTypeInvariant, PTL

(* For every history, however its turns compete for the budget: the newest complete turn  *)
(* is in the context with both its messages, no message is there twice, and a turn is     *)
(* there as relevant only if it shares a word with the question.                         *)
THEOREM NewestTurnsAreKept == Spec => []NewestTurnKept
<1>1. TaskType /\ Loaded => NewestTurnKept
  <2> DEFINE turns == CompleteTurns(Newest(asked.history, ScanMessages))
  <2> SUFFICES ASSUME TaskType, Loaded, task.stage = "start", turns # <<>>
               PROVE  /\ Ids(<<Last(turns)>>) \subseteq context.recentIds
                      /\ \A i \in 1..2 : Last(context.recent)[i] # <<>>
                      /\ context.relevantIds \cap context.recentIds = {}
                      /\ \A k \in DOMAIN turns :
                           turns[k][1].id \in context.relevantIds =>
                             asked.words \cap (turns[k][1].words \cup turns[k][2].words) # {}
    BY DEF NewestTurnKept
  <2>1. asked \in Conversations /\ context = Context(asked.history, asked.words, asked.summary)
    BY DEF TaskType, Loaded
  <2> QED
    BY <2>1, LoadedContext
<1> QED
  BY <1>1, LoadedInvariant, TaskTypeInvariant, PTL
=============================================================================
