--------------------------- MODULE SessionResources ---------------------------
(***************************************************************************)
(* The session workspace of one conversation id: results of a retrieval, a *)
(* web search or a tool that a later ask of the same conversation may      *)
(* reuse (conversation/resources.py and SessionResourceRepository of       *)
(* conversation/repositories.py).                                          *)
(*                                                                         *)
(* A use of the workspace is a lookup, and after a miss a store.  Each of  *)
(* the two reads the clock first and then waits for the write lock, so     *)
(* stamps may commit in another order than they were read in; so may those *)
(* of two index builds (IndexRepository.apply).  A personal key holds two  *)
(* readings of the index, one after the other: the snapshot of the derived *)
(* structure, which names the build applied last (create_service), and the *)
(* completed run with the latest finished_at.  The retrieval that fills    *)
(* the row reads the index later still.                                    *)
(*                                                                         *)
(* The producer fingerprint of a row is a function of its key as long as   *)
(* the settings that are part of the key are, so a lookup by key never     *)
(* meets another one: the comparison is left out.  Two reads of the clock  *)
(* never give the same stamp.                                              *)
(***************************************************************************)
EXTENDS Integers, FiniteSets, FiniteSetsExt, Functions

CONSTANTS
  Calls,          \* uses of the workspace by asks
  Owners,         \* users
  Queries,        \* canonical texts: a personal query, a web query or tool arguments
  Builds,         \* index builds that reach apply
  PersonalTtl,    \* session_personal_ttl_seconds
  OtherTtl,       \* session_web_ttl_seconds, session_tool_ttl_seconds
  Sizes,          \* size_bytes of a resource within session_resource_max_item_bytes
  MaxItems, MaxBytes,
  MaxTime,        \* bound: readings and ticks of the clock
  MaxLives        \* bound: conversations that get the id one after the other

NoOwner == "none"
NoQuery == "none"

ASSUME LimitsAssumption ==
  /\ PersonalTtl \in Nat \ {0} /\ OtherTtl \in Nat \ {0}
  /\ MaxItems \in Nat \ {0} /\ MaxBytes \in Nat
  /\ Sizes \subseteq 1..MaxBytes
  /\ MaxTime \in Nat /\ MaxLives \in Nat
ASSUME OwnersAssumption == NoOwner \notin Owners

VARIABLES
  clock,
  conversation,  \* owner of the conversation with this id, and which one it is
  rows,          \* session_resources by (resource_type, resource_key)
  applied,       \* index builds applied so far: the content of the index
  latest,        \* the run ORDER BY finished_at DESC finds, and its finished_at
  building,      \* stamp a build has read before it waits for the lock, or -1
  pc, call       \* next step of each use, and what it holds

index == <<applied, latest, building>>
vars == <<clock, conversation, rows, applied, latest, building, pc, call>>

Types == {"personal", "other"}
NoRun == 0   \* no completed run

\* the index a result depends on: that of the build applied last, for a personal one
Index(type) == IF type = "personal" THEN applied ELSE 0

\* seeded bug: the structure is not part of the key
KeyWithoutStructure(type, query, structure, run) ==
  [type |-> type, query |-> query, structure |-> 0, run |-> run]

\* personal_resource_key, with mode_config in its config; web and tool keys have no index in them
Key(type, query, structure, run) ==
  [type |-> type, query |-> query, structure |-> structure, run |-> run]

Ttl(key) == IF key.type = "personal" THEN PersonalTtl ELSE OtherTtl

NoUse == [owner |-> NoOwner, type |-> "other", query |-> NoQuery,
          run |-> NoRun, seen |-> 0, moment |-> 0, made |-> 0, hit |-> {}]

KeyOf(c) == Key(call[c].type, call[c].query, call[c].seen, call[c].run)

Without(f, gone) == Restrict(f, DOMAIN f \ gone)
-----------------------------------------------------------------------------
Init ==
  /\ clock = 0
  /\ conversation \in [owner : Owners, life : {1}]
  /\ rows = [k \in {} |-> {}]
  /\ applied \in {0, 1}
  /\ latest = [run |-> applied, stamp |-> 0]
  /\ building = [b \in Builds |-> -1]
  /\ pc = [c \in Calls |-> "idle"]
  /\ call = [c \in Calls |-> NoUse]

ReadsClock == clock < MaxTime /\ clock' = clock + 1

Goes(c, from, to) == pc[c] = from /\ pc' = [pc EXCEPT ![c] = to]

\* the use ends, and the ask may make another one
Ends(c, from) == Goes(c, from, "idle") /\ call' = [call EXCEPT ![c] = NoUse]

\* time passes
Tick == ReadsClock /\ UNCHANGED <<conversation, rows, index, pc, call>>

\* seeded bug: the connection does not enforce its foreign keys
DeleteWithoutCascade ==
  /\ conversation.owner # NoOwner
  /\ conversation' = [conversation EXCEPT !.owner = NoOwner]
  /\ UNCHANGED <<clock, rows, index, pc, call>>

\* delete cascades to the resources
DeleteConversation ==
  /\ conversation.owner # NoOwner
  /\ conversation' = [conversation EXCEPT !.owner = NoOwner]
  /\ rows' = [k \in {} |-> {}]
  /\ UNCHANGED <<clock, index, pc, call>>

\* another conversation is created and gets the free id
CreateConversation(o) ==
  /\ conversation.owner = NoOwner /\ conversation.life < MaxLives
  /\ conversation' = [owner |-> o, life |-> conversation.life + 1]
  /\ UNCHANGED <<clock, rows, index, pc, call>>

\* apply: now = utc_now(), and the wait for BEGIN IMMEDIATE
BuildReadsClock(b) ==
  /\ building[b] = -1 /\ ReadsClock
  /\ building' = [building EXCEPT ![b] = clock + 1]
  /\ UNCHANGED <<conversation, rows, applied, latest, pc, call>>

\* apply: the index changes and the run is completed with finished_at = now
BuildApplies(b) ==
  /\ building[b] \in Nat
  /\ applied' = applied + 1
  /\ latest' = IF building[b] > latest.stamp
               THEN [run |-> applied + 1, stamp |-> building[b]] ELSE latest
  /\ building' = [building EXCEPT ![b] = -2]
  /\ UNCHANGED <<clock, conversation, rows, pc, call>>
-----------------------------------------------------------------------------
(* A use of the workspace.                                                 *)

\* the workspace is bound to the owner and the id; personal: create_service reads the
\* structure snapshot of the build applied last
Bind(c, type, query) ==
  /\ conversation.owner # NoOwner
  /\ Goes(c, "idle", IF type = "personal" THEN "snapshot" ELSE "lookup")
  /\ call' = [call EXCEPT ![c] = [NoUse EXCEPT !.owner = conversation.owner, !.type = type,
                                               !.query = query, !.seen = Index(type)]]
  /\ UNCHANGED <<clock, conversation, rows, index>>

\* knowledge_snapshot_fingerprint
TakeSnapshot(c) ==
  /\ latest.run # NoRun
  /\ Goes(c, "snapshot", "lookup")
  /\ call' = [call EXCEPT ![c].run = latest.run]
  /\ UNCHANGED <<clock, conversation, rows, index>>

\* and without a completed run there is no reuse
NoSnapshot(c) ==
  /\ latest.run = NoRun
  /\ Ends(c, "snapshot")
  /\ UNCHANGED <<clock, conversation, rows, index>>

\* get_valid: moment = utc_now()
LookupReadsClock(c) ==
  /\ Goes(c, "lookup", "get") /\ ReadsClock
  /\ call' = [call EXCEPT ![c].moment = clock + 1]
  /\ UNCHANGED <<conversation, rows, index>>

Found(c) == KeyOf(c) \in DOMAIN rows /\ conversation.owner = call[c].owner
Live(row, moment) == row.expires > moment

Hit(c) ==
  /\ Found(c) /\ Live(rows[KeyOf(c)], call[c].moment)
  /\ Goes(c, "get", "hit")
  /\ call' = [call EXCEPT ![c].hit = {rows[KeyOf(c)]}, ![c].moment = 0]
  /\ rows' = [rows EXCEPT ![KeyOf(c)].used = call[c].moment]
  /\ UNCHANGED <<clock, conversation, index>>

\* an expired row is deleted on sight
Expired(c) ==
  /\ Found(c) /\ ~Live(rows[KeyOf(c)], call[c].moment)
  /\ Goes(c, "get", "produce")
  /\ call' = [call EXCEPT ![c].moment = 0]
  /\ rows' = Without(rows, {KeyOf(c)})
  /\ UNCHANGED <<clock, conversation, index>>

Miss(c) ==
  /\ ~Found(c)
  /\ Goes(c, "get", "produce")
  /\ call' = [call EXCEPT ![c].moment = 0]
  /\ UNCHANGED <<clock, conversation, rows, index>>

\* the ask goes on with what it found
Reused(c) ==
  /\ Ends(c, "hit")
  /\ UNCHANGED <<clock, conversation, rows, index>>

\* SessionWorkspace.get: any failure is a miss, wherever it happens
LookupFails(c) ==
  /\ Goes(c, "lookup", "produce")
  /\ UNCHANGED <<clock, conversation, rows, index, call>>

\* the retrieval, the search or the tool runs; a personal result comes from the index of
\* now; put_bounded: moment = utc_now()
Produce(c) ==
  /\ Goes(c, "produce", "put") /\ ReadsClock
  /\ call' = [call EXCEPT ![c].made = Index(call[c].type), ![c].moment = clock + 1]
  /\ UNCHANGED <<conversation, rows, index>>

\* nothing to store: an empty, non-public or failed result, or one over the item limit
NotStored(c) ==
  /\ Ends(c, "produce")
  /\ UNCHANGED <<clock, conversation, rows, index>>

Bytes(r, keys) == MapThenSumSet(LAMBDA k : r[k].size, keys)
Fits(r, keys) == Cardinality(keys) <= MaxItems /\ Bytes(r, keys) <= MaxBytes

\* seeded bug: the order ignores the last use
KeptByAge(r) ==
  {k \in DOMAIN r : Fits(r, {j \in DOMAIN r : r[j].created >= r[k].created})}

\* the least recently used row goes first, until the rest fits: a row stays if it fits
\* with all that were used after it
Kept(r) == {k \in DOMAIN r : Fits(r, {j \in DOMAIN r : r[j].used >= r[k].used})}

Purged(moment) == {k \in DOMAIN rows : ~Live(rows[k], moment)}

\* ON CONFLICT DO UPDATE keeps created_at
Upserted(r, c, size) ==
  LET k == KeyOf(c)
      created == IF k \in DOMAIN r THEN r[k].created ELSE call[c].moment
  IN [j \in DOMAIN r \cup {k} |->
        IF j # k THEN r[j]
        ELSE [owner |-> call[c].owner, made |-> call[c].made, size |-> size, created |-> created,
              used |-> call[c].moment, expires |-> call[c].moment + Ttl(k)]]

\* seeded bug: the ownership is not checked again
PutUnchecked(c, size) ==
  /\ Ends(c, "put")
  /\ LET stored == Upserted(Without(rows, Purged(call[c].moment)), c, size)
     IN rows' = Restrict(stored, Kept(stored))
  /\ UNCHANGED <<clock, conversation, index>>

\* seeded bug: one row is evicted, not as many as it takes
PutEvictsOne(c, size) ==
  /\ conversation.owner = call[c].owner
  /\ Ends(c, "put")
  /\ LET stored == Upserted(Without(rows, Purged(call[c].moment)), c, size)
         oldest == {k \in DOMAIN stored : \A j \in DOMAIN stored : stored[k].used <= stored[j].used}
     IN rows' = IF Fits(stored, DOMAIN stored) THEN stored ELSE Without(stored, oldest)
  /\ UNCHANGED <<clock, conversation, index>>

\* put_bounded: owner check, purge, upsert and eviction in one transaction
Put(c, size) ==
  /\ conversation.owner = call[c].owner
  /\ Ends(c, "put")
  /\ LET stored == Upserted(Without(rows, Purged(call[c].moment)), c, size)
     IN rows' = Restrict(stored, Kept(stored))
  /\ UNCHANGED <<clock, conversation, index>>

\* the conversation is gone or not the owner's, or the database fails: nothing is stored
StoreFails(c) ==
  /\ Ends(c, "put")
  /\ UNCHANGED <<clock, conversation, rows, index>>
-----------------------------------------------------------------------------
Use(c) ==
  \/ \E type \in Types, query \in Queries : Bind(c, type, query)
  \/ TakeSnapshot(c) \/ NoSnapshot(c)
  \/ LookupReadsClock(c) \/ Hit(c) \/ Expired(c) \/ Miss(c) \/ Reused(c) \/ LookupFails(c)
  \/ Produce(c) \/ NotStored(c)
  \/ \E size \in Sizes : Put(c, size)
  \/ StoreFails(c)

Next ==
  \/ Tick \/ DeleteConversation \/ \E o \in Owners : CreateConversation(o)
  \/ \E b \in Builds : BuildReadsClock(b) \/ BuildApplies(b)
  \/ \E c \in Calls : Use(c)

Spec == Init /\ [][Next]_vars
-----------------------------------------------------------------------------
ResourceKeys == [type : Types, query : Queries, structure : Nat, run : Nat]
Rows == [owner : Owners, made : Nat, size : Sizes, created : Nat, used : Nat, expires : Nat]

\* The shape of the state; a row exists only in a conversation.
TypeOK ==
  /\ clock \in Nat
  /\ conversation \in [owner : Owners \cup {NoOwner}, life : Nat]
  /\ DOMAIN rows \subseteq ResourceKeys /\ \A k \in DOMAIN rows : rows[k] \in Rows
  /\ conversation.owner = NoOwner => DOMAIN rows = {}
  /\ applied \in Nat /\ latest \in [run : Nat, stamp : Nat]
  /\ building \in [Builds -> Int]
  /\ pc \in [Calls -> {"idle", "snapshot", "lookup", "get", "hit", "produce", "put"}]
  /\ call \in [Calls -> [owner : Owners \cup {NoOwner}, type : Types, query : Queries \cup {NoQuery},
                         run : Nat, seen : Nat, moment : Nat, made : Nat, hit : SUBSET Rows]]

\* docs/session-resource-reuse.md: the rows of a conversation stay within both limits after
\* every put, whatever stamps the rows of other calls carry (put_bounded).
WorkspaceBounded == Fits(rows, DOMAIN rows)

\* What a lookup returns was stored by a call of the same user, although the id may have
\* passed to another user's conversation between the two (get_valid, put_bounded).
HitsStayWithOwner ==
  \A c \in Calls : \A row \in call[c].hit : row.owner = call[c].owner

\* docs/session-resource-reuse.md: "A successful knowledge sync changes that fingerprint,
\* causing a conservative miss".  A personal hit is never older than the index that was there
\* when the service was created, not even when two builds applied in the other order than
\* they read their finished_at (personal_resource_key).
HitsAreNotStale ==
  \A c \in Calls : \A row \in call[c].hit : row.made >= call[c].seen

\* A put that succeeds keeps what it stored: its own row is the one evicted only if another
\* row was used by a call that read the clock after it and got the lock before it.
OwnEvictionIsLate ==
  [][\A c \in Calls :
       pc[c] = "put" /\ pc'[c] = "idle" /\ rows' # rows /\ KeyOf(c) \notin DOMAIN rows'
         => \E k \in DOMAIN rows : rows[k].used > call[c].moment]_vars
=============================================================================
