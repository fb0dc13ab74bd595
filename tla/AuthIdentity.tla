---------------------------- MODULE AuthIdentity ----------------------------
(***************************************************************************)
(* One account of auth.db: its status, password, credential tokens and     *)
(* sessions, under the calls of auth/identity.py and auth/session.py.      *)
(* Every statement of those modules is keyed by one user id, so accounts   *)
(* do not interact.                                                        *)
(*                                                                         *)
(* The API server and the admin CLI use auth.db at the same time.  A call  *)
(* reads the account, spends a long time hashing, and then writes: its two *)
(* halves are two actions, and other calls (or the death of the process)   *)
(* fall between them.  Only the writes between BEGIN IMMEDIATE and commit  *)
(* are one step.                                                           *)
(***************************************************************************)
EXTENDS Naturals, FiniteSets

CONSTANTS Tokens,       \* credential tokens that can be issued
          Sessions,     \* sessions that can be created
          Calls,        \* calls under way at the same time
          MaxCrashes    \* bound: calls that die between their two halves

ASSUME CrashAssumption == MaxCrashes \in Nat

VARIABLES
  status,      \* users.status, "ABSENT" before the account is created
  credential,  \* users.credential_status
  password,    \* whether users.password_hash is set
  purpose,     \* credential_tokens.purpose, "none" before the token is issued
  consumed,    \* tokens with consumed_at set
  superseded,  \* tokens with revoked_at set
  lapsed,      \* tokens past expires_at
  session,     \* "open", or "gone": revoked, timed out, or never created
  call,        \* what each call under way has read so far
  crashes,
  uses,        \* history: successful uses of each token
  overtaken,   \* history: sessions whose login read the account before the last revoke-all
  cutOff       \* history: sessions that were open when an admin disabled the account

accountVars == <<status, credential, password>>
tokenVars == <<purpose, consumed, superseded, lapsed, uses>>
sessionVars == <<session, overtaken, cutOff>>
vars == <<status, credential, password, purpose, consumed, superseded, lapsed, uses,
          session, overtaken, cutOff, call, crashes>>

Purposes == {"ACTIVATE_ACCOUNT", "RESET_PASSWORD"}
Statuses == {"ABSENT", "PENDING", "ACTIVE", "DISABLED"}

Idle == [op |-> "idle"]
CallStates ==
  {Idle} \cup [op : {"disable", "enable"}]
    \cup [op : {"login"}, overtaken : BOOLEAN]
    \cup [op : {"change"}, session : Sessions]
    \cup [op : {"consume"}, token : Tokens]
    \cup [op : {"reset"}, purpose : Purposes]

Usable(t) ==
  purpose[t] # "none" /\ t \notin consumed /\ t \notin superseded /\ t \notin lapsed

\* resolve_session: the row is valid and the account is ACTIVE, nothing else is asked
Authenticates(s) == session[s] = "open" /\ status = "ACTIVE"

Begin(c, what) == call' = [call EXCEPT ![c] = what]
Return(c) == Begin(c, Idle)

\* sessions.revoke_all_for_user; a login under way does not notice
RevokeAllBut(kept) ==
  session' = [s \in Sessions |->
                IF session[s] = "open" /\ s \notin kept THEN "gone" ELSE session[s]]

\* the logins that are under way have read the account before this revoke-all
Overtake(k) ==
  [d \in Calls |-> IF d = k THEN Idle
                   ELSE IF call[d].op = "login" THEN [op |-> "login", overtaken |-> TRUE]
                   ELSE call[d]]

\* a dead row is pruned and its place in the model used again, unless a call still names it
FreeSessions ==
  {s \in Sessions : /\ session[s] # "open"
                    /\ \A c \in Calls : call[c].op = "change" => call[c].session # s}

Unissued == {t \in Tokens : purpose[t] = "none"}

\* seeded bug: an earlier token of the purpose stays live
IssueTokenOnly(p) ==
  \E t \in Unissued :
    /\ purpose' = [purpose EXCEPT ![t] = p]
    /\ UNCHANGED <<consumed, superseded, lapsed, uses>>

\* tokens.revoke_superseded, then tokens.create
IssueToken(p) ==
  \E t \in Unissued :
    /\ purpose' = [purpose EXCEPT ![t] = p]
    /\ superseded' = superseded \cup {u \in Tokens : purpose[u] = p /\ u \notin consumed}
    /\ UNCHANGED <<consumed, lapsed, uses>>
-----------------------------------------------------------------------------
Init ==
  /\ status = "ABSENT" /\ credential = "VALID" /\ password = FALSE
  /\ purpose = [t \in Tokens |-> "none"]
  /\ consumed = {} /\ superseded = {} /\ lapsed = {}
  /\ uses = [t \in Tokens |-> 0]
  /\ session = [s \in Sessions |-> "gone"]
  /\ overtaken = {} /\ cutOff = {}
  /\ call = [c \in Calls |-> Idle]
  /\ crashes = 0

\* IdentityService.provision_user, one transaction
Provision ==
  /\ status = "ABSENT"
  /\ status' = "PENDING"
  /\ IssueToken("ACTIVATE_ACCOUNT")
  /\ UNCHANGED <<credential, password, sessionVars, call, crashes>>

\* _lookup_token of activate_account and reset_password_with_token, outside the transaction
LookupToken(c, t) ==
  /\ call[c] = Idle
  /\ Usable(t)
  /\ Begin(c, [op |-> "consume", token |-> t])
  /\ UNCHANGED <<accountVars, tokenVars, sessionVars, crashes>>

\* seeded bug: the update does not ask for consumed_at IS NULL
ConsumeBlindly(t) ==
  /\ consumed' = consumed \cup {t}
  /\ uses' = [uses EXCEPT ![t] = @ + 1]
  /\ UNCHANGED <<purpose, superseded, lapsed>>

\* _consume_token_atomic asks for consumed_at IS NULL, and for nothing else
Consume(t) ==
  /\ t \notin consumed
  /\ consumed' = consumed \cup {t}
  /\ uses' = [uses EXCEPT ![t] = @ + 1]
  /\ UNCHANGED <<purpose, superseded, lapsed>>

\* seeded bug: the status is not asked for
ActivateAnyStatus(c) ==
  /\ call[c].op = "consume" /\ purpose[call[c].token] = "ACTIVATE_ACCOUNT"
  /\ Consume(call[c].token)
  /\ password' = TRUE
  /\ credential' = "VALID"
  /\ status' = "ACTIVE"
  /\ Return(c)
  /\ UNCHANGED <<sessionVars, crashes>>

ActivateAccount(c) ==
  /\ call[c].op = "consume" /\ purpose[call[c].token] = "ACTIVATE_ACCOUNT"
  /\ Consume(call[c].token)
  /\ status \in {"PENDING", "DISABLED"}
  /\ password' = TRUE
  /\ credential' = "VALID"
  /\ status' = "ACTIVE"
  /\ Return(c)
  /\ UNCHANGED <<sessionVars, crashes>>

ResetWithToken(c) ==
  /\ call[c].op = "consume" /\ purpose[call[c].token] = "RESET_PASSWORD"
  /\ Consume(call[c].token)
  /\ status = "ACTIVE"
  /\ password' = TRUE
  /\ credential' = "VALID"
  /\ RevokeAllBut({})
  /\ call' = Overtake(c)
  /\ UNCHANGED <<status, overtaken, cutOff, crashes>>

\* the token was used meanwhile, or the status refuses it: rollback
ConsumeFails(c) ==
  /\ call[c].op = "consume"
  /\ \/ call[c].token \in consumed
     \/ purpose[call[c].token] = "ACTIVATE_ACCOUNT" /\ status \notin {"PENDING", "DISABLED"}
     \/ purpose[call[c].token] = "RESET_PASSWORD" /\ status # "ACTIVE"
  /\ Return(c)
  /\ UNCHANGED <<accountVars, tokenVars, sessionVars, crashes>>

\* admin_reset_password picks the purpose from what it reads first; the last conjunct is
\* the bound on tokens: each reset under way has one left to issue
AdminResetRead(c) ==
  /\ call[c] = Idle
  /\ status # "ABSENT"
  /\ Cardinality({d \in Calls : call[d].op = "reset"}) < Cardinality(Unissued)
  /\ Begin(c, [op |-> "reset",
               purpose |-> IF status = "PENDING" THEN "ACTIVATE_ACCOUNT"
                                                 ELSE "RESET_PASSWORD"])
  /\ UNCHANGED <<accountVars, tokenVars, sessionVars, crashes>>

\* seeded bug: the reset leaves the sessions open
AdminResetKeepsSessions(c) ==
  /\ call[c].op = "reset"
  /\ credential' = IF call[c].purpose = "RESET_PASSWORD" THEN "RESET_REQUIRED" ELSE credential
  /\ IssueToken(call[c].purpose)
  /\ Return(c)
  /\ UNCHANGED <<status, password, sessionVars, crashes>>

AdminResetCommit(c) ==
  /\ call[c].op = "reset"
  /\ RevokeAllBut({})
  /\ credential' = IF call[c].purpose = "RESET_PASSWORD" THEN "RESET_REQUIRED" ELSE credential
  /\ IssueToken(call[c].purpose)
  /\ call' = Overtake(c)
  /\ UNCHANGED <<status, password, overtaken, cutOff, crashes>>

\* set_enabled(False): two statements, each committed by itself
DisableStatus(c) ==
  /\ call[c] = Idle
  /\ status # "ABSENT"
  /\ status' = "DISABLED"
  /\ cutOff' = cutOff \cup {s \in Sessions : session[s] = "open"}
  /\ Begin(c, [op |-> "disable"])
  /\ UNCHANGED <<credential, password, tokenVars, session, overtaken, crashes>>

\* seeded bug: a disable spares a session
DisableRevokesAllButOne(c) ==
  /\ call[c].op = "disable"
  /\ \E s \in Sessions : RevokeAllBut({s})
  /\ call' = Overtake(c)
  /\ UNCHANGED <<accountVars, tokenVars, overtaken, cutOff, crashes>>

DisableRevoke(c) ==
  /\ call[c].op = "disable"
  /\ RevokeAllBut({})
  /\ call' = Overtake(c)
  /\ UNCHANGED <<accountVars, tokenVars, overtaken, cutOff, crashes>>

EnableRead(c) ==
  /\ call[c] = Idle
  /\ status = "DISABLED"
  /\ Begin(c, [op |-> "enable"])
  /\ UNCHANGED <<accountVars, tokenVars, sessionVars, crashes>>

EnableStatus(c) ==
  /\ call[c].op = "enable"
  /\ status' = "ACTIVE"
  /\ Return(c)
  /\ UNCHANGED <<credential, password, tokenVars, sessionVars, crashes>>

\* IdentityService.revoke_sessions, one statement
AdminRevoke(c) ==
  /\ call[c] = Idle
  /\ status # "ABSENT"
  /\ RevokeAllBut({})
  /\ call' = Overtake(c)
  /\ UNCHANGED <<accountVars, tokenVars, overtaken, cutOff, crashes>>

\* login: the checks on the row read before the slow password verification
LoginCheck(c) ==
  /\ call[c] = Idle
  /\ status = "ACTIVE" /\ credential = "VALID" /\ password
  /\ Begin(c, [op |-> "login", overtaken |-> FALSE])
  /\ UNCHANGED <<accountVars, tokenVars, sessionVars, crashes>>

LoginCreate(c) ==
  /\ call[c].op = "login"
  /\ \E s \in FreeSessions :
       /\ session' = [session EXCEPT ![s] = "open"]
       /\ overtaken' = IF call[c].overtaken THEN overtaken \cup {s} ELSE overtaken \ {s}
       /\ cutOff' = cutOff \ {s}
  /\ Return(c)
  /\ UNCHANGED <<accountVars, tokenVars, crashes>>

\* logout, or one of the two timeouts of a session
SessionEnds(s) ==
  /\ session[s] = "open"
  /\ session' = [session EXCEPT ![s] = "gone"]
  /\ UNCHANGED <<accountVars, tokenVars, overtaken, cutOff, call, crashes>>

\* change_password resolves the session and verifies the current password first
ChangeCheck(c, s) ==
  /\ call[c] = Idle
  /\ Authenticates(s) /\ password
  /\ Begin(c, [op |-> "change", session |-> s])
  /\ UNCHANGED <<accountVars, tokenVars, sessionVars, crashes>>

ChangeCommit(c) ==
  /\ call[c].op = "change"
  /\ password' = TRUE
  /\ RevokeAllBut({call[c].session})
  /\ call' = Overtake(c)
  /\ UNCHANGED <<status, credential, tokenVars, overtaken, cutOff, crashes>>

TokenExpires(t) ==
  /\ Usable(t)
  /\ lapsed' = lapsed \cup {t}
  /\ UNCHANGED <<accountVars, purpose, consumed, superseded, uses, sessionVars, call, crashes>>

\* the process dies, or its next statement fails: what was committed stays
Crash(c) ==
  /\ call[c] # Idle
  /\ crashes < MaxCrashes
  /\ crashes' = crashes + 1
  /\ Return(c)
  /\ UNCHANGED <<accountVars, tokenVars, sessionVars>>
-----------------------------------------------------------------------------
AdminStep(c) ==
  \/ AdminResetRead(c) \/ AdminResetCommit(c) \/ AdminRevoke(c)
  \/ DisableStatus(c) \/ DisableRevoke(c) \/ EnableRead(c) \/ EnableStatus(c)

UserStep(c) ==
  \/ \E t \in Tokens : LookupToken(c, t)
  \/ ActivateAccount(c) \/ ResetWithToken(c) \/ ConsumeFails(c)
  \/ LoginCheck(c) \/ LoginCreate(c)
  \/ \E s \in Sessions : ChangeCheck(c, s)
  \/ ChangeCommit(c)

Next ==
  \/ Provision
  \/ \E c \in Calls : AdminStep(c) \/ UserStep(c) \/ Crash(c)
  \/ \E s \in Sessions : SessionEnds(s)
  \/ \E t \in Tokens : TokenExpires(t)

Spec == Init /\ [][Next]_vars
-----------------------------------------------------------------------------
\* The tables hold what the columns allow, and a call has read rows that exist.
TypeOK ==
  /\ status \in Statuses
  /\ credential \in {"VALID", "RESET_REQUIRED"}
  /\ password \in BOOLEAN
  /\ purpose \in [Tokens -> Purposes \cup {"none"}]
  /\ consumed \subseteq Tokens /\ superseded \subseteq Tokens /\ lapsed \subseteq Tokens
  /\ uses \in [Tokens -> Nat]
  /\ session \in [Sessions -> {"open", "gone"}]
  /\ overtaken \subseteq Sessions /\ cutOff \subseteq Sessions
  /\ call \in [Calls -> CallStates]
  /\ crashes \in 0..MaxCrashes

\* Two calls that looked up the same token before either consumed it: only one of them
\* gets through (identity.py, _consume_token_atomic).
TokenUsedOnce == \A t \in Tokens : uses[t] <= 1

\* However issues, uses and expiries interleave, at most one token of a purpose is live
\* (_issue_token calls revoke_superseded in its transaction).
OneLiveToken ==
  \A t, u \in Tokens : Usable(t) /\ Usable(u) /\ purpose[t] = purpose[u] => t = u

\* A PENDING account is untouched: nothing that can race with the activation has given it
\* a password, a session or a reset (admin_reset_password chooses by a status it read
\* before its transaction).
PendingIsFresh ==
  status = "PENDING" =>
    /\ ~password /\ credential = "VALID"
    /\ \A t \in Tokens : purpose[t] # "RESET_PASSWORD"
    /\ \A s \in Sessions : session[s] # "open"

\* While a reset is pending the only sessions left are those of logins that had read the
\* account before the sessions were revoked; no later login gets in, whatever else runs.
OnlyOvertakenSurvive ==
  credential = "RESET_REQUIRED" =>
    \A s \in Sessions : session[s] = "open" => s \in overtaken

\* set_enabled(False) is two commits, but the sessions it found open end with it: one
\* that is still open belongs to a disable that is under way or that died.
DisableCutsOff ==
  \A s \in cutOff : session[s] = "open" =>
    crashes > 0 \/ \E c \in Calls : call[c].op = "disable"

\* The two uses of a credential token that set the credential VALID.
ResetTokenUsed == \E t \in Tokens : purpose[t] = "RESET_PASSWORD" /\ uses'[t] > uses[t]
ActivationTokenUsed == \E t \in Tokens : purpose[t] = "ACTIVATE_ACCOUNT" /\ uses'[t] > uses[t]

\* Fail-closed reset: an enable, a password change or a login that was under way never ends
\* a pending reset.  A reset token does, of an ACTIVE account.  docs/authentication.md:112-113
\* knows no other way, but there is one: activate_account accepts an account that an admin
\* has disabled, and with it an activation token that was never used.
ResetIsFailClosed ==
  [][credential = "RESET_REQUIRED" /\ credential' = "VALID"
       => \/ status = "ACTIVE" /\ ResetTokenUsed
          \/ status = "DISABLED" /\ ActivationTokenUsed]_vars
=============================================================================
