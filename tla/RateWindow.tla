------------------------------- MODULE RateWindow -------------------------------
(* The sliding windows of the process: RateLimiter.check of the anonymous asks         *)
(* (api/rate_limit.py) and LoginThrottle.check_and_record of the logins                *)
(* (auth/throttle.py).  An ask is checked in a worker thread or on the event loop, and   *)
(* reads the clock before it takes the lock; a login is checked on the loop alone, so    *)
(* nothing comes between its clock and its lock.  A recorded time stamp is the check    *)
(* that recorded it.  reset and remaining are used by tests only.                      *)
EXTENDS Integers, FiniteSets, Sequences

CONSTANTS
  Asks, Logins,   \* the checks
  Keys,           \* clients, IP addresses and usernames
  KeysOf,         \* [check -> its keys, in the order they are looked at]
  Limit, Window,  \* [key -> attempts] and [key -> seconds]
  MaxTicks         \* bound: ticks of the clock

Checks == Asks \cup Logins
KeySet(c) == {KeysOf[c][i] : i \in DOMAIN KeysOf[c]}

ASSUME WindowsAssumption ==
  /\ IsFiniteSet(Checks) /\ Asks \cap Logins = {}
  /\ KeysOf \in [Checks -> Seq(Keys)]
  /\ Limit \in [Keys -> Nat \ {0}] /\ Window \in [Keys -> Nat \ {0}]
  /\ MaxTicks \in Nat

VARIABLES
  now,         \* time.time(), which does not step back here
  stamp,       \* [check -> the time it read], NotRead before
  outcome,     \* [check -> "none", "admitted" or "refused"]
  attempts,    \* [key -> checks in its list]
  lastTime,      \* history: [key -> the lastTime time that was checked]
  overtaken,   \* history: <<check, key>> of checks served after a later time
  promise      \* history: [key -> when it said to retry], 0 once it admits again

windowVars == <<now, stamp, outcome, attempts, lastTime, overtaken, promise>>

NotRead == -1

WindowInit ==
  /\ now = 0
  /\ stamp = [c \in Checks |-> NotRead]
  /\ outcome = [c \in Checks |-> "none"]
  /\ attempts = [k \in Keys |-> {}]
  /\ lastTime = [k \in Keys |-> 0]
  /\ overtaken = {}
  /\ promise = [k \in Keys |-> 0]

ClockTicks ==
  /\ now < MaxTicks
  /\ now' = now + 1
  /\ UNCHANGED <<stamp, outcome, attempts, lastTime, overtaken, promise>>

(* What is left of a key's list at time t.  It is left so even if the check is refused. *)
UnexpiredInclusive(k, t) ==                 \* a seeded bug: the window's end is in the window
  {c \in attempts[k] : stamp[c] >= t - Window[k]}
Unexpired(k, t) == {c \in attempts[k] : stamp[c] > t - Window[k]}

FullAbove(k, t) == Cardinality(Unexpired(k, t)) > Limit[k]    \* a seeded bug: off by one
Full(k, t) == Cardinality(Unexpired(k, t)) >= Limit[k]

Min0(S) == CHOOSE x \in S : \A y \in S : x <= y
RetryAt(k, t) == Min0({stamp[c] : c \in Unexpired(k, t)}) + Window[k]

RecordsEach(c, t) ==                   \* a seeded bug: a key counts what another refuses
  attempts' = [k \in Keys |->
    IF k \in KeySet(c) THEN Unexpired(k, t) \cup (IF Full(k, t) THEN {} ELSE {c}) ELSE attempts[k]]

(* All keys are looked at before any of them records the check. *)
Records(c, t) ==
  attempts' = [k \in Keys |->
    IF k \in KeySet(c)
    THEN Unexpired(k, t) \cup (IF \E q \in KeySet(c) : Full(q, t) THEN {} ELSE {c})
    ELSE attempts[k]]

(* The part under the lock, for a check that read the time t: the first full key       *)
(* refuses and says when to retry.                                                    *)
Refuser(c, t) ==
  KeysOf[c][Min0({i \in DOMAIN KeysOf[c] : Full(KeysOf[c][i], t)})]

Serve(c, t) ==
  /\ outcome[c] = "none"
  /\ Records(c, t)
  /\ IF \E k \in KeySet(c) : Full(k, t)
     THEN /\ outcome' = [outcome EXCEPT ![c] = "refused"]
          /\ promise' = [promise EXCEPT ![Refuser(c, t)] = RetryAt(Refuser(c, t), t)]
     ELSE /\ outcome' = [outcome EXCEPT ![c] = "admitted"]
          /\ promise' = [k \in Keys |-> IF k \in KeySet(c) THEN 0 ELSE promise[k]]
  /\ lastTime' = [k \in Keys |-> IF k \in KeySet(c) /\ t > lastTime[k] THEN t ELSE lastTime[k]]
  /\ overtaken' = overtaken \cup {<<c, k>> : k \in {q \in KeySet(c) : t < lastTime[q]}}
  /\ UNCHANGED now

ReadClock(c) ==
  /\ c \in Asks /\ stamp[c] = NotRead
  /\ stamp' = [stamp EXCEPT ![c] = now]
  /\ UNCHANGED <<now, outcome, attempts, lastTime, overtaken, promise>>

Check(c) ==
  /\ c \in Asks /\ stamp[c] # NotRead
  /\ Serve(c, stamp[c])
  /\ UNCHANGED stamp

Login(c) ==
  /\ c \in Logins
  /\ Serve(c, now)
  /\ stamp' = [stamp EXCEPT ![c] = now]

WindowNext == ClockTicks \/ \E c \in Checks : ReadClock(c) \/ Check(c) \/ Login(c)

WindowSpec == WindowInit /\ [][WindowNext]_windowVars

-----------------------------------------------------------------------------
WindowTypes ==
  /\ now \in 0..MaxTicks
  /\ stamp \in [Checks -> (0..MaxTicks) \cup {NotRead}]
  /\ outcome \in [Checks -> {"none", "admitted", "refused"}]
  /\ attempts \in [Keys -> SUBSET Checks]
  /\ lastTime \in [Keys -> 0..MaxTicks]
  /\ overtaken \subseteq Checks \X Keys
  /\ promise \in [Keys -> Nat]

Admitted(k) == {c \in Checks : outcome[c] = "admitted" /\ k \in KeySet(c)}
InOrder(k, t) ==
  {c \in Admitted(k) : /\ <<c, k>> \notin overtaken
                       /\ t - Window[k] < stamp[c] /\ stamp[c] <= t}

(* No window of any length of time admits more of a key than its limit, but for asks   *)
(* that read the clock and were served after one that read it later; a login never is.  *)
LimitPerWindow ==
  /\ \A k \in Keys : \A t \in 0..MaxTicks : Cardinality(InOrder(k, t)) <= Limit[k]
  /\ \A c \in Logins, k \in Keys : <<c, k>> \notin overtaken

(* A check is refused only because enough of one of its keys were admitted within the   *)
(* window before it: what was refused itself counts for nothing.                       *)
RefusalIsDeserved ==
  [][\A c \in Checks : outcome[c] = "none" /\ outcome'[c] = "refused" =>
       \E k \in KeySet(c) :
         Cardinality({d \in Admitted(k) : stamp[d] > stamp'[c] - Window[k]}) >= Limit[k]]_windowVars

(* Who comes back at the time it was told, before the key admitted anybody else, is     *)
(* not refused by that key again.                                                    *)
RetryAfterSuffices ==
  [][\A c \in Checks : outcome[c] = "none" /\ outcome'[c] = "refused" =>
       LET told == promise[Refuser(c, stamp'[c])]
       IN told = 0 \/ stamp'[c] < told]_windowVars
=============================================================================
