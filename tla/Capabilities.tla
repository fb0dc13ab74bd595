---------------------------- MODULE Capabilities ----------------------------
(* The two answering capabilities, run to their end by the thread that called     *)
(* them: personal knowledge (capabilities/personal_knowledge.py over              *)
(* GroundedAnswerService.answer) and web research (WebResearchSkill.answer).      *)
(* What a retrieval returns and what a workspace may reuse are modelled by        *)
(* Retrieval and SessionResources; here either gives rows.                        *)
EXTENDS GroundedAnswer, WebResearch

CONSTANTS
  Rows,         \* what a retrieval, or a reused one, may return: items by rank
  PageSize      \* [page -> size of its rendered evidence block]

ASSUME RowsAssumption == \A rows \in Rows : rows \in Seq(ToSet(rows))

VARIABLE capability   \* "none", what the thread is doing, or how it ended

capabilityVars == <<generation, webVars, capability>>

Results == {"ANSWERED", "INSUFFICIENT", "FAILED", "unavailable", "raised"}
Capability == {"none", "retrieving", "recalling", "researching", "generating"} \cup Results

CapabilityInit ==
  /\ GenerationInit
  /\ WebInit
  /\ capability = "none"

(* A fresh call: nothing is left of the previous capability's. *)
Forget ==
  /\ evidence' = <<>> /\ repairs' = 0 /\ tries' = 0 /\ answer' = NoAnswer
  /\ research' = "idle" /\ queue' = <<>> /\ fetch' = NoFetch /\ web' = <<>> /\ usable' = {}

BuildsFrom(items) ==
  /\ Build(items)
  /\ capability' = IF evidence' = <<>> THEN "INSUFFICIENT" ELSE "generating"

BeginPersonal ==
  /\ capability' = "retrieving"
  /\ UNCHANGED <<generation, webVars>>

BeginWeb ==
  /\ capability' = "recalling"
  /\ UNCHANGED <<generation, webVars>>

(* Evidence an earlier ask of the conversation kept is used as it is, without a     *)
(* search; anything that is not a usable entry is a miss.                          *)
Recall ==
  /\ capability = "recalling"
  /\ \E rows \in Rows \ {<<>>} : BuildsFrom(rows)
  /\ UNCHANGED webVars

StartResearch ==
  /\ capability = "recalling"
  /\ BeginResearch
  /\ capability' = "researching"
  /\ UNCHANGED generation

(* Opening the runtime or searching the index fails; the workspace never does.     *)
RetrievalFails ==
  /\ capability = "retrieving"
  /\ capability' = "raised"
  /\ UNCHANGED <<generation, webVars>>

Retrieve ==
  /\ capability = "retrieving"
  /\ \E rows \in Rows : BuildsFrom(rows)
  /\ UNCHANGED webVars

ResearchStep ==
  /\ capability = "researching"
  /\ Research
  /\ UNCHANGED <<generation, capability>>

(* WebResearchSkill.answer once research ended: evidence is adapted in order, an    *)
(* empty result is an answer without a model call, an outage is none.              *)
Answerable == [i \in DOMAIN web |-> [source |-> web[i].url, size |-> PageSize[web[i].page]]]

ResearchEnds ==
  /\ capability = "researching"
  /\ \/ /\ research = "SUCCESS"
        /\ BuildsFrom(Answerable)
     \/ /\ research \in {"NO_RESULTS", "NO_USABLE_EVIDENCE"}
        /\ capability' = "INSUFFICIENT"
        /\ answer' = Without("INSUFFICIENT")
        /\ UNCHANGED <<evidence, repairs, tries>>
     \/ /\ research \in {"TIMEOUT", "PROVIDER_UNAVAILABLE"}
        /\ capability' = "unavailable"
        /\ UNCHANGED generation
     \/ /\ research = "raised"
        /\ capability' = "raised"
        /\ UNCHANGED generation
  /\ UNCHANGED webVars

GenerateStep ==
  /\ capability = "generating"
  /\ Generate
  /\ capability' = IF answer' = NoAnswer THEN "generating" ELSE answer'.status
  /\ UNCHANGED webVars

(* A completion without text fails the response model, which is no ProviderFailure. *)
GenerationRaises ==
  /\ capability = "generating"
  /\ capability' = "raised"
  /\ UNCHANGED <<generation, webVars>>

CapabilityStep ==
  \/ GenerationRaises
  \/ Retrieve \/ RetrievalFails \/ Recall \/ StartResearch \/ ResearchStep \/ ResearchEnds
  \/ GenerateStep

-----------------------------------------------------------------------------
(* An answer that says it is one has a claim, every claim cites evidence of this    *)
(* request and nothing else, the sources shown are exactly what is cited, and a     *)
(* source of a research is a page it read; any other outcome shows no claim and no   *)
(* source.                                                                         *)
AnswersAreGrounded ==
  LET cited == UNION {answer.claims[i] : i \in DOMAIN answer.claims}
      ids == {evidence[i].id : i \in DOMAIN evidence}
  IN IF answer.status = "ANSWERED"
     THEN /\ answer.claims # <<>>
          /\ \A i \in DOMAIN answer.claims : answer.claims[i] # {}
          /\ cited \subseteq ids
          /\ answer.sources = {evidence[i].source : i \in {j \in DOMAIN evidence :
                                                            evidence[j].id \in cited}}
          /\ web # <<>> => answer.sources \subseteq {web[i].url : i \in DOMAIN web}
     ELSE answer.claims = <<>> /\ answer.sources = {}
=============================================================================
