# zglab-rag in TLA+

Specifications of the parts of zglab-rag that interleave, fail half way or keep state
across calls, TLC configurations that check them on small instances, and theorems about
them whose proofs TLAPS checks. The code is the reference: every definition in a module
stands for lines of the Python sources, and `PROJECT.json` ("map") says which. Paths are
relative to `src/zglab_rag/` unless they start with `docs/`.

## 1. The system and its parts

A single FastAPI process serves questions over a personal knowledge base; a timer and an
operator keep the knowledge index up to date; an admin CLI manages accounts. State lives
in three SQLite files (`auth.db`, `conversation.db`, `knowledge.db`), each opened by more
than one process or thread, and in the memory of the serving process.

| Part | State | Operations | Where it is hard | What makes it correct |
|---|---|---|---|---|
| Concurrency guards (`api/concurrency.py`) | a semaphore per guard | acquire without waiting, release | released by done callbacks in worker threads, or by four copies of the early returns | no slot lost, made up or given away early |
| Ask endpoints (`api/main.py`, `api/sse.py`) | the event loop, the executor's queue, requests in every stage | v1 and v2, plain and stream: guards, quota, stored question, submit, collect or stream, refund | three kinds of threads; deadline, disconnect, shutdown and failing database calls between any two steps | slots live as long as tasks; quota counts work; every request ends |
| Accounts, tokens, sessions (`auth/`) | `users`, `credential_tokens`, `sessions` | provision, activate, reset, login, change password, enable, disable, revoke | read, slow hash, write; two processes; two commits in one call | one use of a token, one live token, a reset or disable cuts sessions off |
| Usage quota (`auth/quota.py`) | a row per user, table and minute | charge, deny, refund | the clock is read outside the transaction and again by the refund | counts match charges, overrun only by late refunds |
| Login throttle, rate limiter (`auth/throttle.py`, `api/rate_limit.py`) | attempts in sliding windows | check and record | an ask's clock is read before the lock; a login has two keys; a retry comes at the very end of a window | never more than the limit in a window, refusals deserved, retry times that suffice |
| Conversations (`conversation/repositories.py`) | `conversations`, `messages`, `conversation_summaries` | create, delete, append, bind | the row may be gone, or another, when the answer comes; ids are reused | answers stay in their conversation, turns are paired |
| Summary worker (`conversation/coordinator.py`, `summary.py`) | one flag, one refresh | schedule, refresh, shut down | reads apart from the write, while asks append and delete | no summary lost, no turn skipped, the flag never sticks |
| Context selection (`conversation/context.py`, `relevance.py`) | none | choose recent turns, relevant turns and a summary under a budget | three tiers and their separators share a budget in characters and bytes; the newest turn is cut, not dropped | budget kept, newest turn present |
| Session resources (`conversation/resources.py`) | `session_resources` | put, get, expire, evict | keys name an index read before the retrieval; ids are reused; stamps commit out of order | bounds kept, a hit is the owner's and not of an index older than the service |
| Index (`indexing/`, `storage/`, `knowledge_structure/`) | `knowledge.db`: documents, chunks, vectors, full text, embedding states, graph | sync, build, rebuild, search | minutes between plan and transaction, no lock between builds, reused row ids | tables agree; a later sync repairs |
| Knowledge sources, ingestion (`sources/`, `ingestion/`) | git checkouts, local files | fetch, inspect, parse, chunk | a file has no revision | content-addressed ids, sizes within limits |
| Retrieval, reranking (`retrieval/`, `reranking/`) | none | vector, lexical, hybrid, hierarchical, graph and intelligent search | each SELECT reads an index of its own moment; row ids are hydrated later; filters widen the search step by step | results were public and asked for; an undisturbed search is exact |
| Grounded generation (`generation/`) | none | budget evidence, ask with retries, validate citations, repair | an output with one good and one invented citation; a repair over the same evidence | only given evidence is cited |
| MCP runtime (`mcp/runtime.py`, `client.py`) | the connection and child process of one call | start, shake hands, call, close | a deadline cancels the call at any await, inside clean-up too | no child is forgotten |
| Agent (`agent/`) | plan and observations of one request | plan, execute steps, synthesise | a step outlives its timeout in a thread; a clean-up swallows the cancellation | the deadline stops the plan and is reported |
| Web research (`research/`) | none across requests | search, select, fetch every hop, extract | name resolution answers anew at each step; redirects; one page fails after another was read | connections pinned, usable pages kept, an end |
| Runtime, configuration, security helpers, backup, evaluation, CLIs, web client | none of their own, or pure I/O | | | |

How they interact: an ask endpoint loads the context of a conversation (`conversation.db`),
takes guards, calls the quota (`auth.db`), appends the question and submits a task to a
shared executor; the agent, personal or web path of the task reads the index and the session
workspace, calls tools through an MCP runtime of its own for each call, fetches pages, and
asks the model; its done callbacks release the guards; the endpoint stores the answer and
schedules the summary worker. Sessions authenticate each request against `auth.db`, which the admin CLI
writes at the same time. The index is replaced under the readers by the sync process.

`PROJECT.json` lists every part with its status, and under "hazards" each thing in this
code that is hard to test, at its line, with the properties about it.

## 2. Modules

`SlotPool` is the abstract promise of a concurrency guard: a pool of `Size` slots, work
that begins only in the hands of an owner, slots that come back after the work. It has
no threads, no handlers and no errors.

`AskAdmission` is the life of an ask request. `pc` is the next step of its handler; an
action is the code from one await (or one call into another thread) to the next. `onLoop`
is the coroutine that has the event loop: the plain v2 endpoint waits for its future
without giving the loop up (`_collect_generation`), so nothing else that needs the loop moves
until it ends. `task` and the actions `StartTask`, `EndTask`, `DoneCallback` are the
executor; the callbacks release one guard at a time. `Shutdown` cancels the queue.
`faults` bounds the SQLite calls that fail. It implements three `SlotPool`s, one per
guard, with the requests that hold a slot as owners and the live tasks as work.

`AuthIdentity` is one account under overlapping calls. A call reads and hashes in one
action and writes in another; `call` keeps what it read. `Crash` ends a call between its
halves. The history variables `uses`, `overtaken` and `cutOff` only record.

`UsageQuota` is the counters of one user in one table. `TakeMoment` takes the minute before
the transaction, `Refund` uses the current one.

`Conversation` is one row id: its messages, its deletion and reuse, and the refresh of its
summary, whose two reads, provider call and upsert are separate actions. The content of a
summary is the set of turns it was made from. `SummaryCoordinator`'s flag, its submit
and its shutdown are actions of their own.

`IndexSync` is `knowledge.db` under builds that overlap. `Acquire`, `Inspect`,
`CheckProfile`, `BeginRun`, `Embed` and `Apply` are the stretches between which another
process can commit; `Apply` is the whole transaction of `IndexRepository.apply`, with the
cascades of the foreign keys and the row ids SQLite may give out again. The vector and
full-text tables are keyed by row id, as in the code, so a row that outlives its chunk is
visible in the model. A document is its header (title and other frontmatter) and its
chunks; a chunk is content-addressed, so only its header changes.

`AskTask` is what an admitted ask computes: its conversation context, which the handler loads
before it takes the guards, and the work of its task. It is built in layers, each extending the one before: `GroundedAnswer` (evidence, provider, validation and
repair) and `WebResearch` (one research request, hop by hop) are the two engines;
`Capabilities` runs either to its end in the thread that called it, through a workspace that
may or may not have rows; `McpTools` is one tool call, suspended at one await at a time;
`AgentTask` executes a plan of capability and tool steps under one deadline and makes an
answer of the observations; `ContextSelection` is the pure selection of turns; and `AskTask`
loads the context and takes one of the three paths. `ContextSelection` measures a text as
the sequence of the UTF-8 widths of its characters, because the code counts characters
for one limit and bytes for another. Headings and role labels are the lengths of their fixed
text; each tier of `assemble_conversation_context` is an operator (`SummaryTier`,
`RelevantTier`, `RecentTier`) given what is placed before it, and `With` is the account the
code keeps without rendering; `FitNewest` goes through the rounds of its loop.
`ConversationsAssumption` says what the database guarantees of a history: messages have
distinct ids (a primary key) and texts are UTF-8. `GroundedAnswer` numbers evidence and keeps a claim as
the set of its citations, 0 being any that names no evidence. In `WebResearch` name resolution
is a choice made again at each look-up. In `McpTools` a cancellation is delivered at the
await the call is suspended in, which may be one of its clean-up; `holder` is whose duty the
close is, from the client that spawns the child to the runtime; a child is "left" when
its close was cut short. In `AgentTask` a thread that was given up on goes on
working, and `asyncio.run` waits for it ("draining").

`SessionResources` is the workspace of a conversation id: lookups, puts with expiry and
eviction, index builds and clock readings in any order.

`Retrieval` is one search, one SELECT after another, on an index that builds replace in
between. What a text matches is data of the instance; of chunks that are equally far from a
query, `ReadCandidates` may give any. A list in an order is defined by how many elements
stand before each, which is what the proofs reason with.

`RateWindow` is both sliding windows: an ask reads the clock in one action and is served in
another, a login does both in one and has two keys. A list holds checks, not times, so that
two checks of the same second stay two.

Modules whose name ends in `_proofs` hold the theorems. Modules whose name starts with `MC`
give TLC its instances. Operators introduced by "seeded bug" are no part of any
specification: each is the mutated form of the definition after it, and checks that the
property named with it in `PROJECT.json` ("mutants") notices such a mistake in the code.

## 3. What the runs show

Passing runs:

| Run | Instance | Shows |
|---|---|---|
| `ask_safety` | 3 requests, any mix of v1, plain v2, web stream and agent stream; 2 generation slots, 1 per capability; 3 workers; 1 failing call; deletion and shutdown | slots kept by live tasks and given back on every early return when no call fails; charges follow work; the stored turn; three guards implement `SlotPool` |
| `ask_liveness` | a plain v2 ask and an agent stream, 2 workers, 1 embedding call | every request ends and every slot comes back |
| `identity_safety` | 3 tokens, 2 sessions, 2 calls, 1 crash | single use, one live token, resets and disables cut sessions off; a reset ends with a reset token, or with an activation token of a disabled account |
| `quota_limits` | 4 requests, 5 minutes in days of 3, 1 a minute, 2 a day | a day overruns only by refunds that crossed into it |
| `conversation_safety` | 3 asks, 2 lives of the id, window 1, trigger 1, batch 1 | one refresh at a time, no summary lost, pairing of turns |
| `index_builds` | 3 builds (sync, build, profile-changing rebuild), 2 sources, 3 chunks, 1 edit | embedding states true, tables agree, builds nobody overtook are exact |
| `session_reuse` | 2 calls of 2 owners on one id, 2 builds, one deletion | bounds kept, hits stay with their owner and are no older than the index their service began with, an own row is evicted only by a later put |
| `retrieval_modes` | every mode, 4 chunks in 3 documents, a graph of 7 nodes, 4 contents of the index | results were visible; vector search exact, fusion keeps agreement, the graph walk stays near |
| `ask_task` | 3 paths; conversations of up to 4 turns and a dangling question; 4 rows, 3 fit; outputs of up to 2 claims; 5 URLs on 2 hosts, 1 redirect; 1 repair, 1 retry | context fits, citations are of given evidence, connections pinned, pages kept, children closed, the deadline reported, every task ends |
| `window_limits` | 4 asks of one client (2 in 2 s), 3 logins sharing users and addresses (1 in 3 s, 1 in 2 s), 4 seconds | limit per window, refusals deserved, retry times suffice |

Why the bounds are enough. Three requests on two slots make the first two compete and the
third be refused, and a slot freed by a timeout, a callback or a fault is there for the
third. One fault suffices for the fault paths, which do not interact. Two calls are what a
race needs, and the third token is the one that supersedes the second. Five minutes
in days of three have two minutes of a second day: a refund of the first day takes back a
charge of minute four, the request that then fits there and one of minute five make
three in a day of two, and without the allowance for late refunds the property fails. A second life of an id is the first that can receive a message
of the first. Three builds are an overtaker, the overtaken one and the one that repairs.
`conversation_safety` has `TriggerTurns = 1`, as the test suite does, so that every turn
makes a refresh possible. In `session_reuse` two calls on one key race put against put and
put against lookup, and two builds commit in either order. In `retrieval_modes` a row id
passes from one chunk to another, a document turns private and a profile changes, each in
one of the contents, and filters leave fewer matches than the limit, so that a search
widens. In `ask_task` the texts are short, over the length of a message, or wide, so that
each tier fits in characters and not in bytes or the other way round, and one newest turn is
over the whole budget after both its messages were cut, so that `FitNewest` takes several
rounds; the second row of
evidence does not fit and a later one does; one redirect is followed and the next is one
too many; a repair and a retry each happen once and run out once. In `window_limits` the
fourth ask meets a list that was pruned by one served before it, and four seconds are
longer than every window. Symmetry is used where the set's members appear only in sets and
functions, and in no run that checks liveness.

What a theorem states for every instance is not always run again: the types of `AskAdmission`,
`AuthIdentity`, `UsageQuota`, `Conversation` and `IndexSync`, the conservation of slots and usage
and the limit of generations, the rows and the limit per minute of the quota, the coverage of
a summary and the flag of its worker are in section 4 alone.

The runs that end in a violation each check a sentence of the documentation or a comment
against the code; the trace is the finding in `PROJECT.json`:

| Run | Property | Sentence | What happens |
|---|---|---|---|
| `conversation_late_answer` | `AnswersStayHome` | comment in `_persist_assistant_answer` | a late answer is stored in the conversation that took the id |
| `index_unchanged` | `UnchangedIsCurrent` | `docs/knowledge-model.md`: the stricter visibility applies | an edit of a local file's other metadata is "unchanged" and never indexed |

### Disagreements

What else the models do because the code does it, where a sentence, or the reader, expects
otherwise. No run asserts these.

Accounts. `activate_account` accepts a DISABLED account (`auth/identity.py:178`), so an
activation token that outlives a disable re-enables it; `docs/authentication.md:43-47` reserves
that to the admin. It also sets the credential VALID (`:181`), and a reset supersedes
reset tokens only. Provision, disable, reset, and then activate with the token of the
provisioning: the pending reset has ended while its own token is unused, though
`docs/authentication.md:112-113` and the docstring at `auth/identity.py:248-249` say that
only the use of the reset token ends it. `ResetIsFailClosed` names this as the one exception. A token
that was looked up before another superseded it is still consumed (`auth/identity.py:147`).
A login that read the account before a reset opens its session after it
(`OnlyOvertakenSurvive` says no other does). A disable that dies between its commits leaves
sessions open.

Asks. A failing database call between the guards and the executor leaves the slots taken
for good (`api/main.py:1479`), against `docs/public-api.md`, where a slot lives as long as
its task; `SlotsFollowTasks` says it about runs without a failing call. A failing refund
leaves a request counted. A stream whose queued task shutdown cancels ends without a
terminal event. A minute lets in more than its limit after a refund of an earlier minute
(`OverrunIsLateRefunds` counts exactly those). Asks that overtake one another between
clock and lock can exceed the rate limit's window (`LimitPerWindow` excepts exactly
those).

Conversations. The summary reads the window of recent turns and the backlog apart
(`summary.py:140`); turns stored between the two reads push others out of the
window, which are then covered and never summarized, against the comment at
`summary.py:146-147`. Overlapping asks of one conversation are paired across
(`MispairNeedsOverlap`).

Web research. `fetch.py:74` says "Never raises", but an unknown charset raises `LookupError`,
and a port or address that does not parse `ValueError` or `httpx.InvalidURL`; the request
then fails although earlier pages were usable, against "Partial success is a first-class
outcome" (`service.py:6`).

The agent. `docs/agent-executor.md:14-15` promises a code for a plan its deadline cut short;
a cancellation that arrives while the server starts, or while the client cleans up after
a start that failed, is taken for a failed start and swallowed (`mcp/runtime.py:167-170`), and
a comparison of which one half is there is ANSWERED without the code (`product.py:118`); `DeadlineIsReported` excepts these two. A two-step synthesis is
ANSWERED even if every observation failed. A FAILED generation becomes INSUFFICIENT in a
plan of one step. In a comparison personal and web sources are both numbered from E1.
`depends_on` is written and blocked steps are handled, but no plan has a dependency.

The index. An overtaken build can leave rows in `vec_chunks` and `fts_chunks` that belong to
no chunk, or documents of an older revision, until the next build of that source; a build
that acquired its sources first and applies last takes the index back to that revision
(`sync.py:134`).

### Fairness

Two runs assume any. In `ask_liveness` a handler that has begun goes on: coroutines and
threads are scheduled, and every wait has a deadline (`Admit` once it has arrived, `Reply`).
A worker finishes its task because the provider clients have timeouts (`EndTask`,
`EndEmbedding`); callbacks run in that worker (`DoneCallback`). `StartTask` is strongly
fair because the executor's queue is first in, first out: embedding calls may take a free
worker again and again, yet a waiting task gets its turn. Nothing makes a request arrive,
a client leave, a conversation be deleted, a call fail or the process shut down.

`ask_task` assumes weak fairness of the loading of the context and of the work of the task
as a whole (`Loads`, `Run`): the thread is scheduled, and every await and every request of
it has a timeout of its own, so that some answer, error or timeout comes. One does not:
the close of a tool server that failed to start (`mcp/client.py:68`, `mcp/runtime.py:168`) is
assumed to return. That a task ends is then a matter of its loops: repairs, retries, redirects,
candidates and steps run out.

## 4. What is proved

For every value of the constants that satisfies the named assumptions (finite sets of
requests, natural bounds, and the shapes the endpoints have):

* `AskAdmission_proofs`: `AdmissionSafe`, with types, conservation, stages and usage as
  the inductive invariant. Conservation alone is not inductive: a handler that releases
  must hold what it releases, and a callback must find what the handler left. `StageInv`
  says what a request holds and owes at each stage of handler and task. From it follow
  `SlotsAreConserved`, `TasksOwnSlots`, `GenerationsAreBounded`, `UsageIsExact`,
  `TasksAreMetered`, and `AdmissionImplementsPools`: each step is one of the pool of each
  guard, or leaves it alone. The pool itself conserves its slots (`PoolSafe`) and so bounds
  the work under way (`PoolBounded`). Two more inductive invariants rest on these.
  `FollowInv` says of every stage what a request that ended there has left behind if no call of
  SQLite failed, and gives `EarlyReturnsFreeSlots` and `RefundsFollowRefusals`; `TurnInv`
  follows the two messages of a turn from the reservation of its conversation to the
  answer, and gives `AnsweredTurnsAreStored`.
* `AuthIdentity_proofs`: `IdentitySafe`. The strengthening says that a token is used
  as often as it is consumed, that a PENDING account has nothing a racing call could have
  given it, and that a login under way when sessions are revoked is marked as overtaken. That a
  PENDING account has no reset is what leaves `ResetsFailClosed` one exception, a disabled
  account.
* `Limits_proofs` holds what bounds an owner's use, of three modules.
  `RateWindow`: `WindowsAreLimited`, `RefusalsAreDeserved`, `RetriesSuffice`. The bound
  on a list is not enough, since a list is pruned by each check: `ListsAreRecent` says that it
  holds every check admitted within the window of the latest check, and
  `PromisesHold` that a retry time lies past the window of all but `Limit - 1` of them.
  `UsageQuota`: `UsageSafe`, by which a row lies between its charges and those less its refunds,
  and `DayOverrunsAreLateRefunds`: the rows of a day, summed, are the charges counted
  in it less the refunds applied in it (`DayRows`), whichever day the charge was of.
  `SessionResources`: `WorkspaceSafe`, whose parts are what a call under way has read
  and checked (`CallInv`), what every row was written from (`RowInv`), and that no row or call
  is ahead of the clock and no two of them have the same moment (`StampInv`). It gives the
  bounds after every put, that hits stay with their owner and are not stale, and
  `OwnEvictionNeedsLaterUse`: a put evicts its own row only if another row was used at a later
  moment than the one it had read before the write.
* `Conversation_proofs`: `ConversationSafe`. Pairing needs to know that the last question,
  if it is unanswered by its own ask, is of an ask that overlaps.
* `AskTask_proofs`: `ChildrenAreClosed`, from `ChildInv` and `CancelInv`, which tie the phase
  of a tool call to its connection, its child and its cancellation; `ConnectionsStayPinned`
  and `PagesAreKept`, from `WebInv`, whose `FetchShape` says which candidate and which hop a
  fetch is at; and `DeadlineReported`, from `DeadlineInv`: a thread and a tool call are never at
  work together (`AtWork`), and a cancellation is under way, was swallowed, or has interrupted
  the plan (`Cancelling`, `Swallowed`, `Interrupted`). The property names the outcome
  only; the invariant says where the deadline is remembered at each stage until then.
  `GroundedAnswers` follows from `GroundInv`: until its engine has run a capability has
  neither evidence nor an answer, and evidence of the web names pages that were
  read. `AskIsTyped` adds the budgets of repairs, retries, hops and candidates
  (`FetchType`, `GenerationType`, `TaskType`).
  `ContextsFit` and `NewestTurnsAreKept` are about the selection of turns; the invariant
  (`Loaded`) only says that until a path starts the context and the search text are what was
  computed of the conversation asked about, and the work is in `LoadedContext`. The code adds
  up sizes before it renders: `JoinedSize` says that the account is the size of what is
  joined so far, `SummaryFits` and `RelevantFits` that each tier stays within the room before
  the reservation, `ReservedFits` that the newest turn then fits with its separator,
  and `AssembledContext` puts the tiers together. `NewestFits` needs the bound on the
  settings: the loop of `_fit_newest_pair` ends with a character of each message
  (`LengthsRun`), which takes at most four bytes. That no turn is both relevant and recent,
  and that a relevant one shares a word, needs more than the filter's condition: the run's
  property names messages, and only because ids are distinct and a user's message is never an
  answer does an id lead back to the turn that was scored (`TurnById`).
* `IndexSync_proofs`: `TablesAreTyped`, `EmbeddingStatesAreTrue`, `TablesAgree` and
  `FreshBuildsRepair`. `StatesAreTrue` needs to know that no two chunks share a row
  (`DistinctRows`) and that a build never deletes what it inserts (`BuildInv`, from
  `SourceInv`): with these it holds whatever plan is applied, overtaken or not. The other two are about
  builds nobody has overtaken: `PlanInv` says that the plan, the profile check and the reset
  of such a build are those it would decide on now, and that the snapshots name
  every source that has documents.
* `Retrieval_proofs`: `VisibleResults`, in every mode and whatever builds come in between.
  `StepInv` says which steps a mode takes, `WalkInv` that a descent stays within the
  filter it was given, and `FoundInv` that each list found so far has no chunk twice and
  only visible ones. `VectorSearchExact` needs `PoolInv`: the candidates are the nearest (`Nearest`),
  the pool is no larger than the index or the largest pool, and the list is exact from
  the moment it is found (`Exact`). `FusionAgrees` is arithmetic: a chunk that leads another in every list scores at
  least as much term by term, and if it scores the same its best rank is smaller. Under all
  of them lies `SortedLists`: sorting a finite set by a strict order lists each
  element once and in that order, by the cardinality of what lies before it.
  `GraphWalksAreNear` compares the walk with paths (`Near`): `NearWalk` says that each node of the queue
  ends a path no longer than its hop, and `Level` that the walk goes level by level: there is a depth for
  each node found, the queue does not fall in depth, no node is deeper than one level
  below the queue's head, and whatever left the queue has had all its edges followed.
* `FiniteSums`: sums and folds over finite sets and sequences, and what a loop builds from
  its last value (`Iterates`). The library's induction
  theorems take an operator, so each fact here is proved by a minimal counterexample:
  of the sets or prefixes it fails for, a smallest one, which loses an element. In the same
  way `Flattened` (in `AskTask_proofs`) says what `FlattenSeq` returns: the last of the
  sequences that grow one part at a time.

The theorems assume the ASSUMEs of the modules and nothing else: types and bounds the settings
check, finiteness of what exists at one time, uniqueness the schema declares, and for a fusion
a `Unit` its scores are exact in.

Every invariant and action property of a passing run is stated by a theorem. What stays with
TLC: liveness under fairness (`EveryTaskEnds` and the liveness of `ask_liveness`), which the
prover does not treat, and the violations, which are traces.

## 5. What the models leave out

Data: text but for its widths, embeddings, hashes of passwords and tokens, cookies,
audit rows, wording of errors. One user, one quota table, one account, one conversation id:
every statement of the code is keyed by them, so others do not interact. The order of
`created_at` is taken to be the order of ids. The sliding renewal of a session is part
of its staying open. SQLite transactions are atomic and `BEGIN IMMEDIATE` excludes
other writers; reads outside one are single steps. A source is acquired in one step: an
ingestion that sees two revisions of a checkout raises. The lexical profile and the migration
of the index are not in `IndexSync`; its readers are `Retrieval`, over contents of the index that
are given. `AskTask` runs one ask alone: what asks share is in `AskAdmission`, `Conversation` and
`SessionResources`, and what a retrieval or a workspace gives it is any of a few results. The
clock of `RateWindow` and `SessionResources` does not step back. A page is the text that was
extracted from it, and a provider's answer what parsing made of it. A client that was given a
pooled tool runtime would share connections; the program makes one for each call, so
`McpTools` has one call, and neither `list_tools` nor the catalog of tools.

Not modelled at all: configuration and wiring, request security helpers (stateless), the
schema migrations, the online backup, the splitting of a text into chunks, the extraction of
text from HTML, the evaluation tools, argument parsing, and the TypeScript client,
which the server sees as requests that come and connections that end.

## 6. Plan

In the order of importance; the first nine are done.

1. `SlotPool`, `AskAdmission`: admission, the core of the serving process. Proved.
2. `AuthIdentity`: accounts, tokens and sessions. Proved.
3. `UsageQuota`: the counters behind `ChargeQuota`. Proved.
4. `Conversation`: conversations and the summary worker. Proved.
5. `IndexSync`: concurrent builds of the index. Proved.
6. `AskTask` over `ContextSelection`, `GroundedAnswer`, `WebResearch`, `Capabilities`,
   `McpTools` and `AgentTask`: the work of one ask. Proved.
7. `SessionResources`: puts, lookups, expiry and eviction. Proved.
8. `Retrieval`: each mode, read by read. Proved.
9. `RateWindow`: the rate limiter and the login throttle. Proved.
10. The age of a build: which revision of a source the index holds after builds that
    overlap, and a bound on how long an old one stays.
11. `SchemaMigration`: versions of the databases read outside the migrating transaction.
12. Chunking limits as operators against a reference definition.

Theorems still worth proving: those of the modules above that are not written. What is
selected is proved to fit, not to be the most that fits: that a tier stops at the first
turn that does not fit, and which of several relevant turns are best, is what `RelevantTier`,
`RecentTier` and `Best` define, and no theorem says more of it.
