----------------------------- MODULE WebResearch -----------------------------
(* One bounded research request (research/service.py, search.py, fetch.py,       *)
(* url_safety.py, pinned_transport.py): one search, the selection of candidate   *)
(* URLs, and for each of them a fetch whose every hop resolves and checks the    *)
(* host before it connects.  Name resolution answers anew each time it is asked. *)
(*                                                                              *)
(* A page is the text extract_html and extract_plain_text make of it; a text of  *)
(* Thin is shorter than min_evidence_chars.                                     *)
EXTENDS Integers, FiniteSets, SequencesExt

CONSTANTS
  Hits,             \* what the search may return: sequences of URLs, best first
  HostOf,           \* [URL -> host]
  CanonicalOf,      \* [URL -> canonical form]
  Refused,          \* URLs _split_checked refuses: scheme, credentials, no host
  BadPort,          \* URLs whose port does not parse
  Addresses,        \* addresses the hosts may resolve to
  Public,           \* those is_safe_address accepts
  Pages, Thin,      \* extracted texts, and those too short to be evidence
  MaxCandidates,    \* budget.max_fetch_candidates
  MaxPerHost,       \* budget.max_candidates_per_domain
  MaxRedirects      \* budget.max_redirects

ASSUME ResearchAssumption ==
  /\ Hits \subseteq Seq(DOMAIN HostOf)
  /\ Public \subseteq Addresses
  /\ Thin \subseteq Pages
  /\ MaxCandidates \in Nat \ {0}
  /\ MaxPerHost \in Nat \ {0}
  /\ MaxRedirects \in Nat

VARIABLES
  research,   \* "idle" "searching" "fetching", or how the request ended
  queue,      \* candidates not fetched yet
  fetch,      \* the fetch in progress, NoFetch between two of them
  web,        \* the external evidence so far
  usable      \* pages long enough to be evidence that were read

webVars == <<research, queue, fetch, web, usable>>

Urls == DOMAIN HostOf
NoFetch == [step |-> "none"]
Ended == {"SUCCESS", "TIMEOUT", "NO_RESULTS", "NO_USABLE_EVIDENCE",
          "PROVIDER_UNAVAILABLE", "raised"}

-----------------------------------------------------------------------------
(* select_candidates: provider order, without refused and repeated URLs and      *)
(* without more than MaxPerHost of a host.  A port that does not parse raises    *)
(* ValueError, which nothing catches, if the scan gets to it.                    *)
Takes(chosen, url) ==
  /\ url \notin Refused
  /\ \A i \in DOMAIN chosen : CanonicalOf[chosen[i]] # CanonicalOf[url]
  /\ Cardinality({i \in DOMAIN chosen : HostOf[chosen[i]] = HostOf[url]}) < MaxPerHost

Take(chosen, url) ==
  IF Len(chosen) < MaxCandidates /\ Takes(chosen, url) THEN Append(chosen, url) ELSE chosen

Candidates(hits) == FoldLeft(Take, <<>>, hits)

SelectionRaises(hits) ==
  \E i \in DOMAIN hits : /\ hits[i] \in BadPort
                         /\ Len(Candidates(SubSeq(hits, 1, i - 1))) < MaxCandidates

-----------------------------------------------------------------------------
WebInit ==
  /\ research = "idle"
  /\ queue = <<>>
  /\ fetch = NoFetch
  /\ web = <<>>
  /\ usable = {}

Ends(status) ==
  /\ research' = status
  /\ fetch' = NoFetch
  /\ queue' = <<>>

(* ResearchService.research begins: exactly one search call. *)
BeginResearch ==
  /\ research = "idle"
  /\ research' = "searching"
  /\ UNCHANGED <<queue, fetch, web, usable>>

(* TavilySearchProvider.search fails: network, status, or a body without results. *)
SearchFails ==
  /\ research = "searching"
  /\ Ends("PROVIDER_UNAVAILABLE")
  /\ UNCHANGED <<web, usable>>

(* An item that is not an object, or results that cannot be sliced. *)
SearchIsMalformed ==
  /\ research = "searching"
  /\ Ends("raised")
  /\ UNCHANGED <<web, usable>>

SearchReturns ==
  /\ research = "searching"
  /\ \E hits \in Hits :
       IF hits = <<>> THEN Ends("NO_RESULTS")
       ELSE IF SelectionRaises(hits) THEN Ends("raised")
       ELSE research' = "fetching" /\ queue' = Candidates(hits) /\ UNCHANGED fetch
  /\ UNCHANGED <<web, usable>>

(* The status once no candidate is left or the overall deadline has passed. *)
StatusTimeoutFirst(timedOut) ==        \* a seeded bug: a timeout drops the evidence
  IF timedOut THEN "TIMEOUT" ELSE IF web # <<>> THEN "SUCCESS" ELSE "NO_USABLE_EVIDENCE"

Status(timedOut) ==
  IF web # <<>> THEN "SUCCESS" ELSE IF timedOut THEN "TIMEOUT" ELSE "NO_USABLE_EVIDENCE"

(* The deadline is looked at before each candidate only. *)
OverallTimeout ==
  /\ research = "fetching" /\ fetch = NoFetch /\ queue # <<>>
  /\ Ends(Status(TRUE))
  /\ UNCHANGED <<web, usable>>

NoMoreCandidates ==
  /\ research = "fetching" /\ fetch = NoFetch /\ queue = <<>>
  /\ Ends(Status(FALSE))
  /\ UNCHANGED <<web, usable>>

BeginFetch ==
  /\ research = "fetching" /\ fetch = NoFetch /\ queue # <<>>
  /\ fetch' = [step |-> "validate", hit |-> Head(queue), url |-> Head(queue), redirects |-> 0,
               pins |-> [h \in {} |-> {}], address |-> {}]
  /\ queue' = Tail(queue)
  /\ UNCHANGED <<research, web, usable>>

-----------------------------------------------------------------------------
(* SafeFetcher.fetch, hop by hop *)

AtHop(step) == research = "fetching" /\ fetch.step = step

(* The outcome has no page: the next candidate is tried. *)
GivesUp == fetch' = NoFetch /\ UNCHANGED <<research, queue, web, usable>>

(* What fetch does not catch ends the whole request, and the evidence with it. *)
Raises == Ends("raised") /\ UNCHANGED <<web, usable>>

RefuseUrl == AtHop("validate") /\ fetch.url \in Refused /\ GivesUp
PortRaises == AtHop("validate") /\ fetch.url \in BadPort /\ Raises

(* validate_fetch_target resolves the host: one address that is not public, or no *)
(* answer, refuses it; otherwise the answer is pinned for this fetch.            *)
Resolve ==
  /\ AtHop("validate") /\ fetch.url \notin Refused \cup BadPort
  /\ \E addresses \in SUBSET Addresses :
       IF addresses = {} \/ ~(addresses \subseteq Public) THEN GivesUp
       ELSE LET host == HostOf[fetch.url]
                pinned == [h \in DOMAIN fetch.pins \cup {host} |->
                             IF h = host THEN addresses ELSE fetch.pins[h]]
            IN /\ fetch' = [fetch EXCEPT !.step = "connect", !.pins = pinned]
               /\ UNCHANGED <<research, queue, web, usable>>

(* connect_tcp takes a pinned address; the name is not resolved again.           *)
AskedAgain(host) == Addresses          \* a seeded bug: the client resolves the name
ConnectsTo(host) == fetch.pins[host] \cap Public

Connect ==
  /\ AtHop("connect")
  /\ \E a \in ConnectsTo(HostOf[fetch.url]) :
       fetch' = [fetch EXCEPT !.step = "respond", !.address = {a}]
  /\ UNCHANGED <<research, queue, web, usable>>

(* Connection errors, timeouts, statuses, media types and sizes that are refused. *)
FetchFails == fetch # NoFetch /\ fetch.step \in {"connect", "respond"} /\ GivesUp

RedirectEndlessly ==                   \* a seeded bug: hops are not counted
  /\ AtHop("respond")
  /\ \E url \in Urls :
       fetch' = [fetch EXCEPT !.step = "validate", !.url = url, !.address = {}]
  /\ UNCHANGED <<research, queue, web, usable>>

Redirect ==
  /\ AtHop("respond")
  /\ \E url \in Urls :
       IF fetch.redirects = MaxRedirects THEN GivesUp
       ELSE /\ fetch' = [fetch EXCEPT !.step = "validate", !.url = url, !.address = {},
                                      !.redirects = @ + 1]
            /\ UNCHANGED <<research, queue, web, usable>>

(* A location urljoin cannot parse, an unknown charset, a URL httpx refuses. *)
ResponseRaises == AtHop("respond") /\ Raises

(* The body: extracted, and kept unless it is too short, or its final URL or its  *)
(* text is already evidence.                                                     *)
New(url, page) == \A i \in DOMAIN web : /\ web[i].canonical # CanonicalOf[url]
                                        /\ web[i].page # page

ReadPage ==
  /\ AtHop("respond")
  /\ \E page \in Pages :
       /\ usable' = IF page \in Thin THEN usable
                    ELSE usable \cup {[canonical |-> CanonicalOf[fetch.url], page |-> page]}
       /\ web' = IF page \notin Thin /\ New(fetch.url, page)
                 THEN Append(web, [canonical |-> CanonicalOf[fetch.url], page |-> page,
                                   url |-> fetch.url])
                 ELSE web
  /\ fetch' = NoFetch
  /\ UNCHANGED <<research, queue>>

Research ==
  \/ SearchFails \/ SearchIsMalformed \/ SearchReturns
  \/ OverallTimeout \/ NoMoreCandidates \/ BeginFetch
  \/ RefuseUrl \/ PortRaises \/ Resolve \/ Connect
  \/ FetchFails \/ Redirect \/ ResponseRaises \/ ReadPage

-----------------------------------------------------------------------------
(* A connection goes to a public address of the last answer that was checked for  *)
(* its host, whatever name resolution would say by then.                         *)
ConnectionsArePinned ==
  fetch # NoFetch => fetch.address \subseteq Public
                     /\ (fetch.address # {} => fetch.address \subseteq fetch.pins[HostOf[fetch.url]])

(* "Partial success is first-class": unless the request raised, a usable page     *)
(* makes it a success, every usable page is represented in the evidence, and no   *)
(* page is there twice.                                                          *)
UsablePagesAreKept ==
  /\ research \in Ended \ {"raised"} /\ usable # {} => research = "SUCCESS"
  /\ research # "raised" => \A p \in usable : \E i \in DOMAIN web :
       web[i].canonical = p.canonical \/ web[i].page = p.page
  /\ \A i, j \in DOMAIN web :
       i # j => web[i].canonical # web[j].canonical /\ web[i].page # web[j].page
=============================================================================
