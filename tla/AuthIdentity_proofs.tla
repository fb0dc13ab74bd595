------------------------ MODULE AuthIdentity_proofs ------------------------
(* Proofs of the safety properties of AuthIdentity, for every number of    *)
(* tokens, sessions, overlapping calls and crashes.                        *)
EXTENDS AuthIdentity, TLAPS


\* What a token's history counter says in terms of its row.
UsesExact == \A t \in Tokens : uses[t] = IF t \in consumed THEN 1 ELSE 0

\* Before the activation nothing is under way that presumes an active account.
Fresh ==
  status \in {"ABSENT", "PENDING"} =>
    /\ ~password /\ credential = "VALID"
    /\ \A t \in Tokens : purpose[t] # "RESET_PASSWORD"
    /\ \A s \in Sessions : session[s] # "open"
    /\ \A c \in Calls :
         /\ call[c].op \notin {"login", "change", "enable", "disable"}
         /\ call[c].op = "reset" => call[c].purpose = "ACTIVATE_ACCOUNT"
    /\ status = "ABSENT" => /\ \A c \in Calls : call[c] = Idle
                            /\ \A t \in Tokens : purpose[t] = "none"

\* Sessions and logins of an account that awaits a reset are all older than the reset.
Overtaken ==
  credential = "RESET_REQUIRED" =>
    /\ \A s \in Sessions : session[s] = "open" => s \in overtaken
    /\ \A c \in Calls : call[c].op = "login" => call[c].overtaken

IInv == TypeOK /\ UsesExact /\ OneLiveToken /\ Fresh /\ Overtaken /\ DisableCutsOff
-----------------------------------------------------------------------------

\* The calls under way keep their types when a revoke-all marks the logins among them.
LEMMA OvertakeType ==
  ASSUME TypeOK, NEW c \in Calls
  PROVE  Overtake(c) \in [Calls -> CallStates]
<1>1. \A d \in Calls : call[d] \in CallStates
  BY DEF TypeOK
<1>2. Idle \in CallStates /\ [op |-> "login", overtaken |-> TRUE] \in CallStates
  BY DEF CallStates
<1>3. QED
  BY <1>1, <1>2 DEF Overtake

LEMMA ResetPurpose ==
  ASSUME TypeOK, NEW c \in Calls, call[c].op = "reset"
  PROVE  call[c].purpose \in Purposes
<1>1. call[c] \in CallStates
  BY DEF TypeOK
<1>2. QED
  BY <1>1 DEF CallStates, Idle

\* Every step keeps the types.
LEMMA TypeStep == TypeOK /\ [Next]_vars => TypeOK'
<1> SUFFICES ASSUME TypeOK, [Next]_vars PROVE TypeOK'
  OBVIOUS
<1> USE DEF TypeOK, CallStates, Idle, Purposes, Statuses, accountVars, tokenVars, sessionVars
<1>1. CASE Provision
  BY <1>1 DEF Provision, IssueToken
<1>2. ASSUME NEW c \in Calls, NEW t \in Tokens, LookupToken(c, t) PROVE TypeOK'
  BY <1>2 DEF LookupToken, Begin
<1>3. ASSUME NEW c \in Calls, ActivateAccount(c) PROVE TypeOK'
  BY <1>3 DEF ActivateAccount, Consume, Begin, Return
<1>4. ASSUME NEW c \in Calls, ResetWithToken(c) PROVE TypeOK'
  BY <1>4 DEF ResetWithToken, Consume, RevokeAllBut, Overtake
<1>5. ASSUME NEW c \in Calls, ConsumeFails(c) PROVE TypeOK'
  BY <1>5 DEF ConsumeFails, Begin, Return
<1>6. ASSUME NEW c \in Calls, AdminResetRead(c) PROVE TypeOK'
  BY <1>6 DEF AdminResetRead, Begin
<1>7. ASSUME NEW c \in Calls, AdminResetCommit(c) PROVE TypeOK'
  BY <1>7, OvertakeType, ResetPurpose DEF AdminResetCommit, RevokeAllBut, IssueToken, Overtake
<1>8. ASSUME NEW c \in Calls, AdminRevoke(c) PROVE TypeOK'
  BY <1>8 DEF AdminRevoke, RevokeAllBut, Overtake
<1>9. ASSUME NEW c \in Calls, DisableStatus(c) PROVE TypeOK'
  BY <1>9 DEF DisableStatus, Begin
<1>10. ASSUME NEW c \in Calls, DisableRevoke(c) PROVE TypeOK'
  BY <1>10 DEF DisableRevoke, RevokeAllBut, Overtake
<1>11. ASSUME NEW c \in Calls, EnableRead(c) PROVE TypeOK'
  BY <1>11 DEF EnableRead, Begin
<1>12. ASSUME NEW c \in Calls, EnableStatus(c) PROVE TypeOK'
  BY <1>12 DEF EnableStatus, Begin, Return
<1>13. ASSUME NEW c \in Calls, LoginCheck(c) PROVE TypeOK'
  BY <1>13 DEF LoginCheck, Begin
<1>14. ASSUME NEW c \in Calls, LoginCreate(c) PROVE TypeOK'
  BY <1>14 DEF LoginCreate, FreeSessions, Begin, Return
<1>15. ASSUME NEW c \in Calls, NEW s \in Sessions, ChangeCheck(c, s) PROVE TypeOK'
  BY <1>15 DEF ChangeCheck, Begin
<1>16. ASSUME NEW c \in Calls, ChangeCommit(c) PROVE TypeOK'
  BY <1>16 DEF ChangeCommit, RevokeAllBut, Overtake
<1>17. ASSUME NEW c \in Calls, Crash(c) PROVE TypeOK'
  BY <1>17, CrashAssumption DEF Crash, Begin, Return
<1>18. ASSUME NEW s \in Sessions, SessionEnds(s) PROVE TypeOK'
  BY <1>18 DEF SessionEnds
<1>19. ASSUME NEW t \in Tokens, TokenExpires(t) PROVE TypeOK'
  BY <1>19 DEF TokenExpires
<1>20. CASE UNCHANGED vars
  BY <1>20 DEF vars
<1>21. QED
  BY <1>1, <1>2, <1>3, <1>4, <1>5, <1>6, <1>7, <1>8, <1>9, <1>10, <1>11,
     <1>12, <1>13, <1>14, <1>15, <1>16, <1>17, <1>18, <1>19, <1>20
  DEF Next, AdminStep, UserStep

\* A use sets consumed_at, and needs it unset.
LEMMA UsesStep == TypeOK /\ UsesExact /\ [Next]_vars => UsesExact'
<1> SUFFICES ASSUME TypeOK /\ UsesExact, [Next]_vars PROVE UsesExact'
  OBVIOUS
<1> USE DEF TypeOK, UsesExact, accountVars, tokenVars, sessionVars
<1>1. CASE Provision
  BY <1>1 DEF Provision, IssueToken
<1>2. ASSUME NEW c \in Calls, NEW t \in Tokens, LookupToken(c, t) PROVE UsesExact'
  BY <1>2 DEF LookupToken, Begin
<1>3. ASSUME NEW c \in Calls, ActivateAccount(c) PROVE UsesExact'
  BY <1>3 DEF ActivateAccount, Consume, Begin, Return
<1>4. ASSUME NEW c \in Calls, ResetWithToken(c) PROVE UsesExact'
  BY <1>4 DEF ResetWithToken, Consume, RevokeAllBut, Overtake
<1>5. ASSUME NEW c \in Calls, ConsumeFails(c) PROVE UsesExact'
  BY <1>5 DEF ConsumeFails, Begin, Return
<1>6. ASSUME NEW c \in Calls, AdminResetRead(c) PROVE UsesExact'
  BY <1>6 DEF AdminResetRead, Begin
<1>7. ASSUME NEW c \in Calls, AdminResetCommit(c) PROVE UsesExact'
  BY <1>7 DEF AdminResetCommit, RevokeAllBut, IssueToken, Overtake
<1>8. ASSUME NEW c \in Calls, AdminRevoke(c) PROVE UsesExact'
  BY <1>8 DEF AdminRevoke, RevokeAllBut, Overtake
<1>9. ASSUME NEW c \in Calls, DisableStatus(c) PROVE UsesExact'
  BY <1>9 DEF DisableStatus, Begin
<1>10. ASSUME NEW c \in Calls, DisableRevoke(c) PROVE UsesExact'
  BY <1>10 DEF DisableRevoke, RevokeAllBut, Overtake
<1>11. ASSUME NEW c \in Calls, EnableRead(c) PROVE UsesExact'
  BY <1>11 DEF EnableRead, Begin
<1>12. ASSUME NEW c \in Calls, EnableStatus(c) PROVE UsesExact'
  BY <1>12 DEF EnableStatus, Begin, Return
<1>13. ASSUME NEW c \in Calls, LoginCheck(c) PROVE UsesExact'
  BY <1>13 DEF LoginCheck, Begin
<1>14. ASSUME NEW c \in Calls, LoginCreate(c) PROVE UsesExact'
  BY <1>14 DEF LoginCreate, FreeSessions, Begin, Return
<1>15. ASSUME NEW c \in Calls, NEW s \in Sessions, ChangeCheck(c, s) PROVE UsesExact'
  BY <1>15 DEF ChangeCheck, Begin
<1>16. ASSUME NEW c \in Calls, ChangeCommit(c) PROVE UsesExact'
  BY <1>16 DEF ChangeCommit, RevokeAllBut, Overtake
<1>17. ASSUME NEW c \in Calls, Crash(c) PROVE UsesExact'
  BY <1>17 DEF Crash, Begin, Return
<1>18. ASSUME NEW s \in Sessions, SessionEnds(s) PROVE UsesExact'
  BY <1>18 DEF SessionEnds
<1>19. ASSUME NEW t \in Tokens, TokenExpires(t) PROVE UsesExact'
  BY <1>19 DEF TokenExpires
<1>20. CASE UNCHANGED vars
  BY <1>20 DEF vars
<1>21. QED
  BY <1>1, <1>2, <1>3, <1>4, <1>5, <1>6, <1>7, <1>8, <1>9, <1>10, <1>11,
     <1>12, <1>13, <1>14, <1>15, <1>16, <1>17, <1>18, <1>19, <1>20
  DEF Next, AdminStep, UserStep

\* A new token supersedes the live one of its purpose.
LEMMA LiveStep == TypeOK /\ OneLiveToken /\ [Next]_vars => OneLiveToken'
<1> SUFFICES ASSUME TypeOK /\ OneLiveToken, [Next]_vars PROVE OneLiveToken'
  OBVIOUS
<1> USE DEF TypeOK, OneLiveToken, Usable, Unissued, accountVars, tokenVars, sessionVars
<1>1. CASE Provision
  BY <1>1 DEF Provision, IssueToken
<1>2. ASSUME NEW c \in Calls, NEW t \in Tokens, LookupToken(c, t) PROVE OneLiveToken'
  BY <1>2 DEF LookupToken, Begin
<1>3. ASSUME NEW c \in Calls, ActivateAccount(c) PROVE OneLiveToken'
  BY <1>3 DEF ActivateAccount, Consume, Begin, Return
<1>4. ASSUME NEW c \in Calls, ResetWithToken(c) PROVE OneLiveToken'
  BY <1>4 DEF ResetWithToken, Consume, RevokeAllBut, Overtake
<1>5. ASSUME NEW c \in Calls, ConsumeFails(c) PROVE OneLiveToken'
  BY <1>5 DEF ConsumeFails, Begin, Return
<1>6. ASSUME NEW c \in Calls, AdminResetRead(c) PROVE OneLiveToken'
  BY <1>6 DEF AdminResetRead, Begin
<1>7. ASSUME NEW c \in Calls, AdminResetCommit(c) PROVE OneLiveToken'
  BY <1>7 DEF AdminResetCommit, RevokeAllBut, IssueToken, Overtake
<1>8. ASSUME NEW c \in Calls, AdminRevoke(c) PROVE OneLiveToken'
  BY <1>8 DEF AdminRevoke, RevokeAllBut, Overtake
<1>9. ASSUME NEW c \in Calls, DisableStatus(c) PROVE OneLiveToken'
  BY <1>9 DEF DisableStatus, Begin
<1>10. ASSUME NEW c \in Calls, DisableRevoke(c) PROVE OneLiveToken'
  BY <1>10 DEF DisableRevoke, RevokeAllBut, Overtake
<1>11. ASSUME NEW c \in Calls, EnableRead(c) PROVE OneLiveToken'
  BY <1>11 DEF EnableRead, Begin
<1>12. ASSUME NEW c \in Calls, EnableStatus(c) PROVE OneLiveToken'
  BY <1>12 DEF EnableStatus, Begin, Return
<1>13. ASSUME NEW c \in Calls, LoginCheck(c) PROVE OneLiveToken'
  BY <1>13 DEF LoginCheck, Begin
<1>14. ASSUME NEW c \in Calls, LoginCreate(c) PROVE OneLiveToken'
  BY <1>14 DEF LoginCreate, FreeSessions, Begin, Return
<1>15. ASSUME NEW c \in Calls, NEW s \in Sessions, ChangeCheck(c, s) PROVE OneLiveToken'
  BY <1>15 DEF ChangeCheck, Begin
<1>16. ASSUME NEW c \in Calls, ChangeCommit(c) PROVE OneLiveToken'
  BY <1>16 DEF ChangeCommit, RevokeAllBut, Overtake
<1>17. ASSUME NEW c \in Calls, Crash(c) PROVE OneLiveToken'
  BY <1>17 DEF Crash, Begin, Return
<1>18. ASSUME NEW s \in Sessions, SessionEnds(s) PROVE OneLiveToken'
  BY <1>18 DEF SessionEnds
<1>19. ASSUME NEW t \in Tokens, TokenExpires(t) PROVE OneLiveToken'
  BY <1>19 DEF TokenExpires
<1>20. CASE UNCHANGED vars
  BY <1>20 DEF vars
<1>21. QED
  BY <1>1, <1>2, <1>3, <1>4, <1>5, <1>6, <1>7, <1>8, <1>9, <1>10, <1>11,
     <1>12, <1>13, <1>14, <1>15, <1>16, <1>17, <1>18, <1>19, <1>20
  DEF Next, AdminStep, UserStep

\* No step makes an account PENDING again, and none that needs more than a PENDING
\* account is enabled before the activation.
LEMMA FreshStep == TypeOK /\ Fresh /\ [Next]_vars => Fresh'
<1> SUFFICES ASSUME TypeOK /\ Fresh, [Next]_vars PROVE Fresh'
  OBVIOUS
<1> USE DEF Usable, TypeOK, CallStates, Fresh, Idle, Statuses, accountVars, tokenVars, sessionVars
<1>1. CASE Provision
  BY <1>1 DEF Provision, IssueToken
<1>2. ASSUME NEW c \in Calls, NEW t \in Tokens, LookupToken(c, t) PROVE Fresh'
  BY <1>2 DEF LookupToken, Begin
<1>3. ASSUME NEW c \in Calls, ActivateAccount(c) PROVE Fresh'
  BY <1>3 DEF ActivateAccount, Consume, Begin, Return
<1>4. ASSUME NEW c \in Calls, ResetWithToken(c) PROVE Fresh'
  BY <1>4 DEF ResetWithToken, Consume, RevokeAllBut, Overtake
<1>5. ASSUME NEW c \in Calls, ConsumeFails(c) PROVE Fresh'
  BY <1>5 DEF ConsumeFails, Begin, Return
<1>6. ASSUME NEW c \in Calls, AdminResetRead(c) PROVE Fresh'
  BY <1>6 DEF AdminResetRead, Begin
<1>7. ASSUME NEW c \in Calls, AdminResetCommit(c) PROVE Fresh'
  BY <1>7 DEF AdminResetCommit, RevokeAllBut, IssueToken, Overtake
<1>8. ASSUME NEW c \in Calls, AdminRevoke(c) PROVE Fresh'
  BY <1>8 DEF AdminRevoke, RevokeAllBut, Overtake
<1>9. ASSUME NEW c \in Calls, DisableStatus(c) PROVE Fresh'
  BY <1>9 DEF DisableStatus, Begin
<1>10. ASSUME NEW c \in Calls, DisableRevoke(c) PROVE Fresh'
  BY <1>10 DEF DisableRevoke, RevokeAllBut, Overtake
<1>11. ASSUME NEW c \in Calls, EnableRead(c) PROVE Fresh'
  BY <1>11 DEF EnableRead, Begin
<1>12. ASSUME NEW c \in Calls, EnableStatus(c) PROVE Fresh'
  BY <1>12 DEF EnableStatus, Begin, Return
<1>13. ASSUME NEW c \in Calls, LoginCheck(c) PROVE Fresh'
  BY <1>13 DEF LoginCheck, Begin
<1>14. ASSUME NEW c \in Calls, LoginCreate(c) PROVE Fresh'
  BY <1>14 DEF LoginCreate, FreeSessions, Begin, Return
<1>15. ASSUME NEW c \in Calls, NEW s \in Sessions, ChangeCheck(c, s) PROVE Fresh'
  BY <1>15 DEF ChangeCheck, Begin
<1>16. ASSUME NEW c \in Calls, ChangeCommit(c) PROVE Fresh'
  BY <1>16 DEF ChangeCommit, RevokeAllBut, Overtake
<1>17. ASSUME NEW c \in Calls, Crash(c) PROVE Fresh'
  BY <1>17 DEF Crash, Begin, Return
<1>18. ASSUME NEW s \in Sessions, SessionEnds(s) PROVE Fresh'
  BY <1>18 DEF SessionEnds
<1>19. ASSUME NEW t \in Tokens, TokenExpires(t) PROVE Fresh'
  BY <1>19 DEF TokenExpires
<1>20. CASE UNCHANGED vars
  BY <1>20 DEF vars
<1>21. QED
  BY <1>1, <1>2, <1>3, <1>4, <1>5, <1>6, <1>7, <1>8, <1>9, <1>10, <1>11,
     <1>12, <1>13, <1>14, <1>15, <1>16, <1>17, <1>18, <1>19, <1>20
  DEF Next, AdminStep, UserStep

\* A login under way is marked by the reset that overtakes it; a later one is refused.
LEMMA OvertakenStep == TypeOK /\ Overtaken /\ [Next]_vars => Overtaken'
<1> SUFFICES ASSUME TypeOK /\ Overtaken, [Next]_vars PROVE Overtaken'
  OBVIOUS
<1> USE DEF TypeOK, CallStates, Overtaken, Idle, accountVars, tokenVars, sessionVars
<1>1. CASE Provision
  BY <1>1 DEF Provision, IssueToken
<1>2. ASSUME NEW c \in Calls, NEW t \in Tokens, LookupToken(c, t) PROVE Overtaken'
  BY <1>2 DEF LookupToken, Begin
<1>3. ASSUME NEW c \in Calls, ActivateAccount(c) PROVE Overtaken'
  BY <1>3 DEF ActivateAccount, Consume, Begin, Return
<1>4. ASSUME NEW c \in Calls, ResetWithToken(c) PROVE Overtaken'
  BY <1>4 DEF ResetWithToken, Consume, RevokeAllBut, Overtake
<1>5. ASSUME NEW c \in Calls, ConsumeFails(c) PROVE Overtaken'
  BY <1>5 DEF ConsumeFails, Begin, Return
<1>6. ASSUME NEW c \in Calls, AdminResetRead(c) PROVE Overtaken'
  BY <1>6 DEF AdminResetRead, Begin
<1>7. ASSUME NEW c \in Calls, AdminResetCommit(c) PROVE Overtaken'
  BY <1>7 DEF AdminResetCommit, RevokeAllBut, IssueToken, Overtake
<1>8. ASSUME NEW c \in Calls, AdminRevoke(c) PROVE Overtaken'
  BY <1>8 DEF AdminRevoke, RevokeAllBut, Overtake
<1>9. ASSUME NEW c \in Calls, DisableStatus(c) PROVE Overtaken'
  BY <1>9 DEF DisableStatus, Begin
<1>10. ASSUME NEW c \in Calls, DisableRevoke(c) PROVE Overtaken'
  BY <1>10 DEF DisableRevoke, RevokeAllBut, Overtake
<1>11. ASSUME NEW c \in Calls, EnableRead(c) PROVE Overtaken'
  BY <1>11 DEF EnableRead, Begin
<1>12. ASSUME NEW c \in Calls, EnableStatus(c) PROVE Overtaken'
  BY <1>12 DEF EnableStatus, Begin, Return
<1>13. ASSUME NEW c \in Calls, LoginCheck(c) PROVE Overtaken'
  BY <1>13 DEF LoginCheck, Begin
<1>14. ASSUME NEW c \in Calls, LoginCreate(c) PROVE Overtaken'
  BY <1>14 DEF LoginCreate, FreeSessions, Begin, Return
<1>15. ASSUME NEW c \in Calls, NEW s \in Sessions, ChangeCheck(c, s) PROVE Overtaken'
  BY <1>15 DEF ChangeCheck, Begin
<1>16. ASSUME NEW c \in Calls, ChangeCommit(c) PROVE Overtaken'
  BY <1>16 DEF ChangeCommit, RevokeAllBut, Overtake
<1>17. ASSUME NEW c \in Calls, Crash(c) PROVE Overtaken'
  BY <1>17 DEF Crash, Begin, Return
<1>18. ASSUME NEW s \in Sessions, SessionEnds(s) PROVE Overtaken'
  BY <1>18 DEF SessionEnds
<1>19. ASSUME NEW t \in Tokens, TokenExpires(t) PROVE Overtaken'
  BY <1>19 DEF TokenExpires
<1>20. CASE UNCHANGED vars
  BY <1>20 DEF vars
<1>21. QED
  BY <1>1, <1>2, <1>3, <1>4, <1>5, <1>6, <1>7, <1>8, <1>9, <1>10, <1>11,
     <1>12, <1>13, <1>14, <1>15, <1>16, <1>17, <1>18, <1>19, <1>20
  DEF Next, AdminStep, UserStep

\* The sessions a disable found stay its own until it revokes them.
LEMMA CutOffStep == TypeOK /\ DisableCutsOff /\ [Next]_vars => DisableCutsOff'
<1> SUFFICES ASSUME TypeOK /\ DisableCutsOff, [Next]_vars PROVE DisableCutsOff'
  OBVIOUS
<1> USE DEF TypeOK, CallStates, DisableCutsOff, Idle, accountVars, tokenVars, sessionVars
<1>1. CASE Provision
  BY <1>1 DEF Provision, IssueToken
<1>2. ASSUME NEW c \in Calls, NEW t \in Tokens, LookupToken(c, t) PROVE DisableCutsOff'
  BY <1>2 DEF LookupToken, Begin
<1>3. ASSUME NEW c \in Calls, ActivateAccount(c) PROVE DisableCutsOff'
  BY <1>3 DEF ActivateAccount, Consume, Begin, Return
<1>4. ASSUME NEW c \in Calls, ResetWithToken(c) PROVE DisableCutsOff'
  BY <1>4 DEF ResetWithToken, Consume, RevokeAllBut, Overtake
<1>5. ASSUME NEW c \in Calls, ConsumeFails(c) PROVE DisableCutsOff'
  BY <1>5 DEF ConsumeFails, Begin, Return
<1>6. ASSUME NEW c \in Calls, AdminResetRead(c) PROVE DisableCutsOff'
  BY <1>6 DEF AdminResetRead, Begin
<1>7. ASSUME NEW c \in Calls, AdminResetCommit(c) PROVE DisableCutsOff'
  BY <1>7 DEF AdminResetCommit, RevokeAllBut, IssueToken, Overtake
<1>8. ASSUME NEW c \in Calls, AdminRevoke(c) PROVE DisableCutsOff'
  BY <1>8 DEF AdminRevoke, RevokeAllBut, Overtake
<1>9. ASSUME NEW c \in Calls, DisableStatus(c) PROVE DisableCutsOff'
  BY <1>9 DEF DisableStatus, Begin
<1>10. ASSUME NEW c \in Calls, DisableRevoke(c) PROVE DisableCutsOff'
  BY <1>10 DEF DisableRevoke, RevokeAllBut, Overtake
<1>11. ASSUME NEW c \in Calls, EnableRead(c) PROVE DisableCutsOff'
  BY <1>11 DEF EnableRead, Begin
<1>12. ASSUME NEW c \in Calls, EnableStatus(c) PROVE DisableCutsOff'
  BY <1>12 DEF EnableStatus, Begin, Return
<1>13. ASSUME NEW c \in Calls, LoginCheck(c) PROVE DisableCutsOff'
  BY <1>13 DEF LoginCheck, Begin
<1>14. ASSUME NEW c \in Calls, LoginCreate(c) PROVE DisableCutsOff'
  BY <1>14 DEF LoginCreate, FreeSessions, Begin, Return
<1>15. ASSUME NEW c \in Calls, NEW s \in Sessions, ChangeCheck(c, s) PROVE DisableCutsOff'
  BY <1>15 DEF ChangeCheck, Begin
<1>16. ASSUME NEW c \in Calls, ChangeCommit(c) PROVE DisableCutsOff'
  BY <1>16 DEF ChangeCommit, RevokeAllBut, Overtake
<1>17. ASSUME NEW c \in Calls, Crash(c) PROVE DisableCutsOff'
  BY <1>17, CrashAssumption DEF Crash, Begin, Return
<1>18. ASSUME NEW s \in Sessions, SessionEnds(s) PROVE DisableCutsOff'
  BY <1>18 DEF SessionEnds
<1>19. ASSUME NEW t \in Tokens, TokenExpires(t) PROVE DisableCutsOff'
  BY <1>19 DEF TokenExpires
<1>20. CASE UNCHANGED vars
  BY <1>20 DEF vars
<1>21. QED
  BY <1>1, <1>2, <1>3, <1>4, <1>5, <1>6, <1>7, <1>8, <1>9, <1>10, <1>11,
     <1>12, <1>13, <1>14, <1>15, <1>16, <1>17, <1>18, <1>19, <1>20
  DEF Next, AdminStep, UserStep

\* A call that consumes a token has one, and the use counts.
LEMMA ConsumeCounts ==
  ASSUME TypeOK, NEW c \in Calls, call[c].op = "consume", Consume(call[c].token)
  PROVE  call[c].token \in Tokens /\ uses'[call[c].token] > uses[call[c].token]
<1>1. call[c].token \in Tokens
  BY DEF TypeOK, CallStates, Idle
<1>2. QED
  BY <1>1 DEF Consume, TypeOK

\* A pending reset is ended by ResetWithToken, which asks for an ACTIVE account, or by
\* ActivateAccount; the account that is activated then was disabled, as a PENDING one has no
\* reset (Fresh).
LEMMA FailClosedStep ==
  ASSUME TypeOK, Fresh, [Next]_vars, credential = "RESET_REQUIRED", credential' = "VALID"
  PROVE  \/ status = "ACTIVE" /\ ResetTokenUsed
         \/ status = "DISABLED" /\ ActivationTokenUsed
<1>1. \E c \in Calls : ActivateAccount(c) \/ ResetWithToken(c)
  BY DEF Next, AdminStep, UserStep, vars, accountVars, Provision, LookupToken, ActivateAccount,
         ResetWithToken, ConsumeFails, AdminResetRead, AdminResetCommit, AdminRevoke,
         DisableStatus, DisableRevoke, EnableRead, EnableStatus, LoginCheck, LoginCreate,
         ChangeCheck, ChangeCommit, Crash, SessionEnds, TokenExpires
<1>2. PICK c \in Calls : ActivateAccount(c) \/ ResetWithToken(c)
  BY <1>1
<1>3. CASE ResetWithToken(c)
  BY <1>3, ConsumeCounts DEF ResetWithToken, ResetTokenUsed
<1>4. CASE ActivateAccount(c)
  <2>1. status # "PENDING"
    BY DEF Fresh
  <2>2. QED
    BY <1>4, <2>1, ConsumeCounts DEF ActivateAccount, ActivationTokenUsed
<1>5. QED
  BY <1>2, <1>3, <1>4

LEMMA InitIInv == Init => IInv
<1> SUFFICES ASSUME Init PROVE IInv
  OBVIOUS
<1> USE DEF Init
<1>1. TypeOK
  <2>1. call \in [Calls -> CallStates]
    BY DEF CallStates
  <2>2. crashes \in 0..MaxCrashes
    BY CrashAssumption
  <2>3. QED
    BY <2>1, <2>2 DEF TypeOK, Statuses
<1>2. UsesExact
  BY DEF UsesExact
<1>3. OneLiveToken
  BY DEF OneLiveToken, Usable
<1>4. Fresh
  BY DEF Fresh, Idle
<1>5. Overtaken /\ DisableCutsOff
  BY DEF Overtaken, DisableCutsOff
<1>6. QED
  BY <1>1, <1>2, <1>3, <1>4, <1>5 DEF IInv

LEMMA StepIInv == IInv /\ [Next]_vars => IInv'
  BY TypeStep, UsesStep, LiveStep, FreshStep, OvertakenStep, CutOffStep DEF IInv

\* The account tables of auth.db are safe under any overlap of calls and crashes.
THEOREM IdentitySafe == Spec => []IInv
  BY InitIInv, StepIInv, PTL DEF Spec

\* A credential token is used at most once (_consume_token_atomic).
THEOREM TokensAreUsedOnce == Spec => []TokenUsedOnce
<1>1. IInv => TokenUsedOnce
  BY DEF IInv, UsesExact, TokenUsedOnce
<1>2. QED
  BY <1>1, IdentitySafe, PTL

\* At most one token of a purpose is live (_issue_token).
THEOREM TokensAreSuperseded == Spec => []OneLiveToken
<1>1. IInv => OneLiveToken
  BY DEF IInv
<1>2. QED
  BY <1>1, IdentitySafe, PTL

\* During a pending reset only logins older than the reset leave a session behind
\* (admin_reset_password, login).
THEOREM ResetsCutLaterLogins == Spec => []OnlyOvertakenSurvive
<1>1. IInv => OnlyOvertakenSurvive
  BY DEF IInv, Overtaken, OnlyOvertakenSurvive
<1>2. QED
  BY <1>1, IdentitySafe, PTL

\* Nothing presumes an activation that has not happened (admin_reset_password, set_enabled).
THEOREM PendingAccountsAreFresh == Spec => []PendingIsFresh
<1>1. IInv => PendingIsFresh
  BY DEF IInv, Fresh, PendingIsFresh
<1>2. QED
  BY <1>1, IdentitySafe, PTL

\* A disable that does not die ends the sessions it found (set_enabled).
THEOREM DisablesCutOff == Spec => []DisableCutsOff
<1>1. IInv => DisableCutsOff
  BY DEF IInv
<1>2. QED
  BY <1>1, IdentitySafe, PTL

\* A pending reset is ended by a reset token of an ACTIVE account, or by an activation token of
\* a disabled one, and by nothing else (activate_account, reset_password_with_token).
THEOREM ResetsFailClosed == Spec => ResetIsFailClosed
<1>1. IInv /\ [Next]_vars =>
        [credential = "RESET_REQUIRED" /\ credential' = "VALID"
           => \/ status = "ACTIVE" /\ ResetTokenUsed
              \/ status = "DISABLED" /\ ActivationTokenUsed]_vars
  BY FailClosedStep DEF IInv
<1>2. QED
  BY <1>1, IdentitySafe, PTL DEF Spec, ResetIsFailClosed
=============================================================================
