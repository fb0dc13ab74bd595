----------------------------- MODULE UsageQuota -----------------------------
(***************************************************************************)
(* The usage counters of auth.db (auth/quota.py, UsageRepository): one row *)
(* per minute of one user in one table, charged by check_and_record in a   *)
(* BEGIN IMMEDIATE transaction and given back by refund.  The clock is     *)
(* read before the transaction waits for the write lock, and again by the  *)
(* refund: minutes and days can pass between any two of those moments.     *)
(* Users and tables do not interact: every statement is keyed by both.     *)
(***************************************************************************)
EXTENDS Naturals, FiniteSets, Functions

CONSTANTS Requests,    \* asks of one user and one capability
          LastMinute,  \* bound: minutes 1..LastMinute are observed
          DayLength,   \* minutes of a day
          PerMinute,   \* requests_per_minute
          PerDay       \* requests_per_day

ASSUME RequestsAssumption == IsFiniteSet(Requests)
ASSUME ClockAssumption == LastMinute \in Nat \ {0} /\ DayLength \in Nat \ {0}
ASSUME LimitAssumption == PerMinute \in Nat /\ PerDay \in Nat

VARIABLES
  minute,       \* the current minute
  requests,  \* column requests of the row of each minute, 0 when there is no row
  phase,     \* progress of each request
  moment,    \* the minute check_and_record has taken as its own, 0 before
  returned   \* the minute whose row a refund was applied to, 0 before

quotaVars == <<minute, requests, phase, moment, returned>>

Minutes == 1..LastMinute
Phases == {"new", "waiting", "charged", "denied", "working", "refunded", "forgotten"}

Day(m) == (m - 1) \div DayLength
DayOf(m) == {n \in Minutes : Day(n) = Day(m)}

\* UsageRepository.counts: the row of the minute, and the sum over its day
DayCount(rows, m) == SumFunctionOnSet(rows, DayOf(m))

\* UsageRepository.record: insert 1, or add 1 to the row
Recorded(m) == [requests EXCEPT ![m] = @ + 1]

WithinLimits(rows, m) == rows[m] <= PerMinute /\ DayCount(rows, m) <= PerDay

\* UsageRepository.refund: MAX(requests - 1, 0) in the row of the current minute, if any
Refunded(m) == [requests EXCEPT ![m] = IF @ > 0 THEN @ - 1 ELSE 0]
-----------------------------------------------------------------------------
QuotaInit ==
  /\ minute = 1
  /\ requests = [m \in Minutes |-> 0]
  /\ phase = [r \in Requests |-> "new"]
  /\ moment = [r \in Requests |-> 0]
  /\ returned = [r \in Requests |-> 0]

MinutePasses ==
  /\ minute < LastMinute
  /\ minute' = minute + 1
  /\ UNCHANGED <<requests, phase, moment, returned>>

\* check_and_record reads the clock, then BEGIN IMMEDIATE waits for the lock
TakeMoment(r) ==
  /\ phase[r] = "new"
  /\ phase' = [phase EXCEPT ![r] = "waiting"]
  /\ moment' = [moment EXCEPT ![r] = minute]
  /\ UNCHANGED <<minute, requests, returned>>

\* seeded bug: the sum over the day is not compared
ChargeMinuteOnly(r) ==
  /\ phase[r] = "waiting"
  /\ Recorded(moment[r])[moment[r]] <= PerMinute
  /\ requests' = Recorded(moment[r])
  /\ phase' = [phase EXCEPT ![r] = "charged"]
  /\ UNCHANGED <<minute, moment, returned>>

\* record, counts and commit
Charge(r) ==
  /\ phase[r] = "waiting"
  /\ WithinLimits(Recorded(moment[r]), moment[r])
  /\ requests' = Recorded(moment[r])
  /\ phase' = [phase EXCEPT ![r] = "charged"]
  /\ UNCHANGED <<minute, moment, returned>>

\* over a limit, or the database fails: rollback
Deny(r) ==
  /\ phase[r] = "waiting"
  /\ ~WithinLimits(Recorded(moment[r]), moment[r])
  /\ phase' = [phase EXCEPT ![r] = "denied"]
  /\ UNCHANGED <<minute, requests, moment, returned>>

ChargeFault(r) ==
  /\ phase[r] = "waiting"
  /\ phase' = [phase EXCEPT ![r] = "denied"]
  /\ UNCHANGED <<minute, requests, moment, returned>>

\* executor.submit accepts the task of a charged request
StartWork(r) ==
  /\ phase[r] = "charged"
  /\ phase' = [phase EXCEPT ![r] = "working"]
  /\ UNCHANGED <<minute, requests, moment, returned>>

\* _refund_v2_quota: the conversation is gone or the executor refuses the task
Refund(r) ==
  /\ phase[r] = "charged"
  /\ requests' = Refunded(minute)
  /\ returned' = [returned EXCEPT ![r] = minute]
  /\ phase' = [phase EXCEPT ![r] = "refunded"]
  /\ UNCHANGED <<minute, moment>>

\* the refund fails and is only logged, or the handler fails without one
ForgetRefund(r) ==
  /\ phase[r] = "charged"
  /\ phase' = [phase EXCEPT ![r] = "forgotten"]
  /\ UNCHANGED <<minute, requests, moment, returned>>

\* the last observed minute: every request has been decided
Terminated ==
  /\ minute = LastMinute
  /\ \A r \in Requests : phase[r] \in {"denied", "working", "refunded", "forgotten"}
  /\ UNCHANGED quotaVars

QuotaNext ==
  \/ MinutePasses
  \/ \E r \in Requests :
       \/ TakeMoment(r) \/ Charge(r) \/ Deny(r) \/ ChargeFault(r)
       \/ StartWork(r) \/ Refund(r) \/ ForgetRefund(r)
  \/ Terminated

QuotaSpec == QuotaInit /\ [][QuotaNext]_quotaVars
-----------------------------------------------------------------------------
\* The columns keep their types: no row of usage goes below zero (UsageRepository.refund).
QuotaTypeOK ==
  /\ minute \in Minutes
  /\ requests \in [Minutes -> Nat]
  /\ phase \in [Requests -> Phases]
  /\ moment \in [Requests -> Minutes \cup {0}]
  /\ returned \in [Requests -> Minutes \cup {0}]

CountedIn(m) ==
  {r \in Requests : moment[r] = m /\ phase[r] \in {"charged", "working", "refunded", "forgotten"}}
AdmittedIn(m) == {r \in Requests : moment[r] = m /\ phase[r] \in {"charged", "working"}}
ReturnedIn(m) == {r \in Requests : returned[r] = m}
LateInto(m) == {r \in ReturnedIn(m) : moment[r] # m}

\* The row of a minute never counts more than the requests charged in it, and lacks at
\* most the refunds that were applied to it (record and refund of UsageRepository).
RowMatchesCharges ==
  \A m \in Minutes :
    /\ requests[m] <= Cardinality(CountedIn(m))
    /\ Cardinality(CountedIn(m)) <= requests[m] + Cardinality(ReturnedIn(m))

\* The requests let through in a minute exceed the limit by no more than the refunds that
\* crossed into that minute: a refund of the same minute never lets an extra one in.
OverrunIsLateRefunds ==
  \A m \in Minutes :
    Cardinality(AdmittedIn(m)) <= PerMinute + Cardinality(LateInto(m))

\* The same over a day: a refund that stays within the day keeps the daily limit exact.
DayOverrunIsLateRefunds ==
  \A m \in Minutes :
    Cardinality({r \in Requests : \E n \in DayOf(m) : r \in AdmittedIn(n)})
      <= PerDay + Cardinality({r \in Requests :
                    \E n \in DayOf(m) : r \in ReturnedIn(n) /\ Day(moment[r]) # Day(m)})
=============================================================================
