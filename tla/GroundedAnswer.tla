--------------------------- MODULE GroundedAnswer ---------------------------
(* Structured generation over bounded evidence, shared by the personal and the  *)
(* web path (generation/service.py, context.py, citation.py, structured.py and  *)
(* openai_provider.py): evidence is selected within a budget, the provider is    *)
(* asked, its output validated and repaired at most MaxRepairs times.            *)
(*                                                                              *)
(* Evidence ids E1, E2, ... are the numbers 1, 2, ...; 0 stands for any citation *)
(* that is no evidence id of this request.  A claim is the set of its citations. *)
EXTENDS Integers, SequencesExt, FiniteSetsExt

CONSTANTS
  MaxEvidence,      \* budget.max_evidence_items
  ContextChars,     \* budget.max_context_chars
  MaxRepairs,       \* config.max_repair_attempts (0 or 1)
  NetworkRetries,   \* config.network_retries of the provider
  Outputs           \* the structured outputs the provider may send

ASSUME GenerationAssumption ==
  /\ MaxEvidence \in Nat \ {0}
  /\ MaxRepairs \in {0, 1}
  /\ NetworkRetries \in Nat

VARIABLES
  evidence,   \* selected items, [id, source, size]
  repairs,    \* index of the attempt
  tries,      \* network tries of the current attempt
  answer      \* the GenerationResult, NoAnswer while there is none

generation == <<evidence, repairs, tries, answer>>

NoAnswer == [status |-> "none", claims |-> <<>>, sources |-> {}]
Without(status) == [NoAnswer EXCEPT !.status = status]

(* build_evidence_items and adapt_external_evidence: ids in rank order. *)
Numbered(items) ==
  [i \in DOMAIN items |-> [id |-> i, source |-> items[i].source, size |-> items[i].size]]

(* select_evidence: whole items within the budget, the first one always; an item *)
(* that does not fit is skipped and the ones after it are still tried.           *)
Keep(kept, item) ==
  IF kept # <<>> /\ FoldLeft(LAMBDA sum, k : sum + k.size, item.size, kept) > ContextChars
  THEN kept ELSE Append(kept, item)

SelectedUnlimited(items) == FoldLeft(Keep, <<>>, items)   \* a seeded bug: no limit on the number

Selected(items) == FoldLeft(Keep, <<>>, SubSeq(items, 1, Min({Len(items), MaxEvidence})))

EvidenceIds == {evidence[i].id : i \in DOMAIN evidence}
Union(claims) == UNION {claims[i] : i \in DOMAIN claims}

(* validate_generated_answer accepts the output.  A citation outside the         *)
(* evidence is a violation even when another citation of the claim is valid, and *)
(* top-level citations, when there are any, are the union of the claims'.        *)
AcceptedAsAWhole(out) ==              \* a seeded bug: one cited claim is enough
  IF out.insufficient THEN out.claims = <<>> /\ out.citations = {}
  ELSE Union(out.claims) # {} /\ Union(out.claims) \subseteq EvidenceIds

Accepted(out) ==
  IF out.insufficient THEN out.claims = <<>> /\ out.citations = {}
  ELSE /\ out.claims # <<>>
       /\ \A i \in DOMAIN out.claims :
            out.claims[i] # {} /\ out.claims[i] \subseteq EvidenceIds
       /\ out.citations \in {{}, Union(out.claims)}

(* resolve_sources: a validated id stands for the provenance of its item. *)
Sources(ids) == {evidence[i].source : i \in {j \in DOMAIN evidence : evidence[j].id \in ids}}

GenerationInit ==
  /\ evidence = <<>>
  /\ repairs = 0
  /\ tries = 0
  /\ answer = NoAnswer

(* The context is built from retrieved rows or fetched pages; with no evidence   *)
(* the provider is never called.                                                *)
Build(items) ==
  /\ evidence' = Selected(Numbered(items))
  /\ answer' = IF evidence' = <<>> THEN Without("INSUFFICIENT") ELSE NoAnswer
  /\ UNCHANGED <<repairs, tries>>

Generating == evidence # <<>> /\ answer = NoAnswer

(* The provider's answer arrives: parsed, validated, and either returned or sent  *)
(* back once with the reason it was rejected.                                    *)
Reply ==
  /\ Generating
  /\ \E out \in Outputs :
       IF Accepted(out)
       THEN /\ answer' = IF out.insufficient THEN Without("INSUFFICIENT")
                         ELSE [status |-> "ANSWERED", claims |-> out.claims,
                               sources |-> Sources(Union(out.claims))]
            /\ UNCHANGED <<repairs, tries>>
       ELSE IF repairs < MaxRepairs
       THEN repairs' = repairs + 1 /\ tries' = 0 /\ UNCHANGED answer
       ELSE answer' = Without("INSUFFICIENT") /\ UNCHANGED <<repairs, tries>>
  /\ UNCHANGED evidence

(* The output is not a JSON object of the schema: repaired like a bad citation.  *)
Unparsable ==
  /\ Generating
  /\ IF repairs < MaxRepairs
     THEN repairs' = repairs + 1 /\ tries' = 0 /\ UNCHANGED answer
     ELSE answer' = Without("INSUFFICIENT") /\ UNCHANGED <<repairs, tries>>
  /\ UNCHANGED evidence

(* A transient network failure or retryable status is tried again. *)
NetworkError ==
  /\ Generating
  /\ IF tries < NetworkRetries
     THEN tries' = tries + 1 /\ UNCHANGED answer
     ELSE answer' = Without("FAILED") /\ UNCHANGED tries
  /\ UNCHANGED <<evidence, repairs>>

(* Another status or an unreadable body: ProviderFailure at once. *)
ProviderRefuses ==
  /\ Generating
  /\ answer' = Without("FAILED")
  /\ UNCHANGED <<evidence, repairs, tries>>

Generate == Reply \/ Unparsable \/ NetworkError \/ ProviderRefuses
=============================================================================
