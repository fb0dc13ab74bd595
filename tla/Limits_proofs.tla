----------------------------- MODULE Limits_proofs -----------------------------
(* The limits on what is asked and kept, for any number of checks, requests, calls,    *)
(* keys and limits: the sliding windows of RateWindow, the usage table of UsageQuota,   *)
(* and the workspace of SessionResources.                                             *)
EXTENDS RateWindow, UsageQuota, SessionResources, FiniteSums, TLAPS

LEMMA Least ==
  ASSUME NEW S, S \subseteq Nat, S # {}
  PROVE  Min0(S) \in S /\ \A y \in S : Min0(S) <= y
BY LeastNat DEF Min0

(* Sets of checks are finite, and a part of one is no larger. *)
LEMMA Part ==
  ASSUME NEW S \in SUBSET Checks, NEW T \in SUBSET S
  PROVE  /\ Cardinality(T) \in Nat /\ Cardinality(S) \in Nat
         /\ Cardinality(T) <= Cardinality(S)
<1>1. IsFiniteSet(S)
  BY FS_Subset, WindowsAssumption
<1>2. IsFiniteSet(T) /\ Cardinality(T) <= Cardinality(S)
  BY <1>1, FS_Subset
<1> QED
  BY <1>1, <1>2, FS_CardinalityType

LEMMA OneCheckMore ==
  ASSUME NEW S \in SUBSET Checks, NEW c \in Checks
  PROVE  Cardinality(S \cup {c}) <= Cardinality(S) + 1
<1>1. IsFiniteSet(S)
  BY FS_Subset, WindowsAssumption
<1>2. Cardinality(S) \in Nat
  BY <1>1, FS_CardinalityType
<1> QED
  BY <1>1, <1>2, FS_AddElement

-----------------------------------------------------------------------------
(* A list holds what was admitted and is within the window of the lastTime check of its   *)
(* key; it is never longer than the limit, and shorter than it from the promised time on. *)
ListsAreAdmitted == \A k \in Keys : attempts[k] \subseteq Admitted(k)
StampsAreServed ==
  \A k \in Keys : \A c \in Admitted(k) : stamp[c] \in 0..MaxTicks /\ stamp[c] <= lastTime[k]
ClockIsLast == /\ \A k \in Keys : lastTime[k] <= now
               /\ \A c \in Checks : stamp[c] <= now
ListsAreRecent ==
  \A k \in Keys : \A c \in Admitted(k) : stamp[c] > lastTime[k] - Window[k] => c \in attempts[k]
ListsAreShort == \A k \in Keys : Cardinality(attempts[k]) <= Limit[k]
PromisesHold ==
  \A k \in Keys : promise[k] # 0 =>
    Cardinality({c \in attempts[k] : stamp[c] > promise[k] - Window[k]}) < Limit[k]

WindowInv ==
  /\ WindowTypes /\ ListsAreAdmitted /\ StampsAreServed /\ ClockIsLast /\ ListsAreRecent
  /\ ListsAreShort /\ PromisesHold /\ LimitPerWindow

(* A step that serves c at the time t it read. *)
Served(c, t) ==
  /\ Serve(c, t)
  /\ t \in 0..MaxTicks /\ t <= now
  /\ stamp' \in [Checks -> (0..MaxTicks) \cup {NotRead}]
  /\ stamp'[c] = t
  /\ \A d \in Checks : d # c => stamp'[d] = stamp[d]
  /\ c \in Logins => t = now

LEMMA ServesOne ==
  ASSUME WindowInv, NEW c \in Checks, Check(c) \/ Login(c)
  PROVE  \E t \in 0..MaxTicks : Served(c, t)
<1>1. CASE Check(c)
  <2>1. stamp[c] \in 0..MaxTicks /\ stamp[c] <= now
    BY <1>1 DEF Check, WindowInv, WindowTypes, ClockIsLast
  <2>2. c \notin Logins
    BY <1>1, WindowsAssumption DEF Check
  <2> QED
    BY <1>1, <2>1, <2>2 DEF Check, Served, WindowInv, WindowTypes
<1>2. CASE Login(c)
  <2>1. now \in 0..MaxTicks
    BY DEF WindowInv, WindowTypes
  <2>2. stamp' = [stamp EXCEPT ![c] = now] /\ Serve(c, now)
    BY <1>2 DEF Login
  <2> QED
    BY <2>1, <2>2 DEF Served, WindowInv, WindowTypes
<1> QED
  BY <1>1, <1>2

(* The first full key is one of the check's, and its promise lies ahead of its oldest    *)
(* attempt alone.                                                                    *)
LEMMA RefuserIsFull ==
  ASSUME NEW c \in Checks, NEW t, \E k \in KeySet(c) : Full(k, t)
  PROVE  /\ Refuser(c, t) \in KeySet(c) /\ Refuser(c, t) \in Keys
         /\ Full(Refuser(c, t), t)
<1> DEFINE S == {i \in DOMAIN KeysOf[c] : Full(KeysOf[c][i], t)}
<1>1. KeysOf[c] \in Seq(Keys)
  BY WindowsAssumption
<1>2. S \subseteq Nat /\ S # {}
  BY <1>1 DEF KeySet
<1>3. Min0(S) \in S
  BY <1>2, Least
<1>4. Min0(S) \in DOMAIN KeysOf[c] /\ Full(KeysOf[c][Min0(S)], t)
  BY <1>3
<1>5. KeysOf[c][Min0(S)] \in KeySet(c)
  BY <1>4 DEF KeySet
<1>6. KeySet(c) \subseteq Keys
  BY <1>1 DEF KeySet
<1> QED
  BY <1>4, <1>5, <1>6 DEF Refuser

(* What both outcomes have in common: c is in no list yet, time passes for its keys. *)
LEMMA ServingTime ==
  ASSUME WindowInv, NEW c \in Checks, NEW t \in 0..MaxTicks, Served(c, t)
  PROVE  /\ \A k \in Keys : c \notin attempts[k] /\ c \notin Admitted(k)
         /\ \A k \in Keys : Unexpired(k, t) \subseteq attempts[k]
         /\ \A k \in Keys : lastTime'[k] \in 0..MaxTicks /\ lastTime[k] <= lastTime'[k]
         /\ \A k \in KeySet(c) : lastTime'[k] >= t
         /\ \A k \in Keys : k \notin KeySet(c) => lastTime'[k] = lastTime[k]
         /\ \A k \in Keys : <<c, k>> \notin overtaken' => k \notin KeySet(c) \/ lastTime[k] <= t
         /\ \A k \in Keys, d \in Checks : d # c => (<<d, k>> \in overtaken' <=> <<d, k>> \in overtaken)
         /\ ClockIsLast' /\ KeySet(c) \subseteq Keys
<1>1. outcome[c] = "none"
  BY DEF Served, Serve
<1>2. \A k \in Keys : c \notin Admitted(k)
  BY <1>1 DEF Admitted
<1>3. \A k \in Keys : c \notin attempts[k]
  BY <1>2 DEF WindowInv, ListsAreAdmitted
<1>4. KeySet(c) \subseteq Keys
  BY WindowsAssumption DEF KeySet
<1>5. /\ lastTime' = [k \in Keys |-> IF k \in KeySet(c) /\ t > lastTime[k] THEN t ELSE lastTime[k]]
      /\ overtaken' = overtaken \cup {<<c, k>> : k \in {q \in KeySet(c) : t < lastTime[q]}}
      /\ now' = now
  BY DEF Served, Serve
<1>6. \A k \in Keys : lastTime[k] \in 0..MaxTicks
  BY DEF WindowInv, WindowTypes
<1>7. /\ \A k \in Keys : lastTime'[k] \in 0..MaxTicks /\ lastTime[k] <= lastTime'[k]
      /\ \A k \in KeySet(c) : lastTime'[k] >= t
      /\ \A k \in Keys : k \notin KeySet(c) => lastTime'[k] = lastTime[k]
  BY <1>4, <1>5, <1>6
<1>8. ClockIsLast'
  <2>1. now \in Nat /\ t <= now
    BY DEF WindowInv, WindowTypes, Served
  <2>2. \A k \in Keys : lastTime'[k] <= now
    BY <1>5, <1>6, <2>1 DEF WindowInv, ClockIsLast
  <2>3. \A d \in Checks : stamp'[d] <= now
    BY <2>1 DEF WindowInv, ClockIsLast, Served
  <2> QED
    BY <1>5, <2>2, <2>3 DEF ClockIsLast
<1>9. \A k \in Keys : <<c, k>> \notin overtaken' => k \notin KeySet(c) \/ lastTime[k] <= t
  BY <1>5, <1>6
<1>10. \A k \in Keys, d \in Checks :
         d # c => (<<d, k>> \in overtaken' <=> <<d, k>> \in overtaken)
  BY <1>5
<1> QED
  BY <1>2, <1>3, <1>4, <1>7, <1>8, <1>9, <1>10 DEF Unexpired

LEMMA TimesKeepTypes ==
  ASSUME WindowInv, NEW c \in Checks, NEW t \in 0..MaxTicks, Served(c, t)
  PROVE  /\ lastTime' \in [Keys -> 0..MaxTicks]
         /\ overtaken' \subseteq Checks \X Keys
<1>1. /\ lastTime' = [k \in Keys |-> IF k \in KeySet(c) /\ t > lastTime[k] THEN t ELSE lastTime[k]]
      /\ overtaken' = overtaken \cup {<<c, k>> : k \in {q \in KeySet(c) : t < lastTime[q]}}
  BY DEF Served, Serve
<1>2. lastTime \in [Keys -> 0..MaxTicks] /\ overtaken \subseteq Checks \X Keys
  BY DEF WindowInv, WindowTypes
<1>3. KeySet(c) \subseteq Keys
  BY ServingTime
<1> QED
  BY <1>1, <1>2, <1>3

(* A login reads the clock when it is served, so no check was served after a later time. *)
LEMMA LoginsKeepUp ==
  ASSUME WindowInv, NEW c \in Checks, NEW t \in 0..MaxTicks, Served(c, t),
         NEW d \in Logins, NEW k \in Keys
  PROVE  <<d, k>> \notin overtaken'
<1>1. overtaken' = overtaken \cup {<<c, q>> : q \in {r \in KeySet(c) : t < lastTime[r]}}
  BY DEF Served, Serve
<1>2. <<d, k>> \notin overtaken
  BY DEF WindowInv, LimitPerWindow
<1>3. lastTime[k] <= now /\ now \in Nat /\ lastTime[k] \in Nat
  BY DEF WindowInv, ClockIsLast, WindowTypes
<1>4. c = d => t = now
  BY DEF Served
<1> QED
  BY <1>1, <1>2, <1>3, <1>4

(* What is recent for the lastTime check is kept by this one. *)
KeptIfRecent(k, d, t) ==
  stamp[d] > lastTime'[k] - Window[k] =>
    d \in attempts[k] /\ (lastTime'[k] >= t => d \in Unexpired(k, t))

LEMMA RecentIsKept ==
  ASSUME WindowInv, NEW c \in Checks, NEW t \in 0..MaxTicks, Served(c, t),
         NEW k \in Keys, NEW d \in Admitted(k)
  PROVE  KeptIfRecent(k, d, t)
<1> SUFFICES ASSUME stamp[d] > lastTime'[k] - Window[k]
             PROVE  d \in attempts[k] /\ (lastTime'[k] >= t => d \in Unexpired(k, t))
  BY DEF KeptIfRecent
<1>1. /\ stamp[d] \in 0..MaxTicks /\ Window[k] \in Nat /\ lastTime[k] \in 0..MaxTicks
      /\ lastTime'[k] \in 0..MaxTicks /\ lastTime[k] <= lastTime'[k]
  BY ServingTime, WindowsAssumption DEF StampsAreServed, WindowInv, WindowTypes
<1>2. stamp[d] > lastTime[k] - Window[k] /\ (lastTime'[k] >= t => stamp[d] > t - Window[k])
  BY <1>1
<1>3. d \in attempts[k]
  BY <1>2 DEF ListsAreRecent, WindowInv
<1> QED
  BY <1>2, <1>3 DEF Unexpired

(* A list that is not full has room for one check more. *)
LEMMA RoomForOne ==
  ASSUME WindowInv, NEW c \in Checks, NEW k \in Keys, NEW t, ~Full(k, t)
  PROVE  /\ Cardinality(Unexpired(k, t) \cup {c}) <= Limit[k]
         /\ Unexpired(k, t) \cup {c} \in SUBSET Checks
<1>1. Unexpired(k, t) \in SUBSET Checks
  BY DEF Unexpired, WindowInv, WindowTypes
<1>2. Cardinality(Unexpired(k, t) \cup {c}) <= Cardinality(Unexpired(k, t)) + 1
  BY <1>1, OneCheckMore
<1>3. /\ Cardinality(Unexpired(k, t)) \in Nat /\ Cardinality(Unexpired(k, t) \cup {c}) \in Nat
      /\ Limit[k] \in Nat
  BY <1>1, Part, WindowsAssumption
<1> QED
  BY <1>1, <1>2, <1>3 DEF Full

(* A full key's oldest attempt leaves the window at the time it promises. *)
LEMMA PromiseIsKept ==
  ASSUME WindowInv, NEW k \in Keys, NEW t \in 0..MaxTicks, Full(k, t)
  PROVE  /\ RetryAt(k, t) \in Nat
         /\ Cardinality({d \in Unexpired(k, t) : stamp[d] > RetryAt(k, t) - Window[k]}) < Limit[k]
<1>1. /\ Unexpired(k, t) \in SUBSET Checks /\ attempts[k] \in SUBSET Checks
      /\ Unexpired(k, t) \subseteq attempts[k]
  BY DEF Unexpired, WindowInv, WindowTypes
<1>2. /\ Cardinality(Unexpired(k, t)) \in Nat /\ Cardinality(attempts[k]) \in Nat
      /\ Cardinality(Unexpired(k, t)) <= Cardinality(attempts[k])
      /\ Limit[k] \in Nat \ {0} /\ Window[k] \in Nat
  BY <1>1, Part, WindowsAssumption
<1>3. Cardinality(Unexpired(k, t)) = Limit[k]
  BY <1>2 DEF Full, ListsAreShort, WindowInv
<1>4. IsFiniteSet(Unexpired(k, t)) /\ Unexpired(k, t) # {}
  BY <1>1, <1>2, <1>3, FS_Subset, FS_EmptySet, WindowsAssumption
<1> DEFINE stamps == {stamp[d] : d \in Unexpired(k, t)}
<1>5. stamps \subseteq Nat /\ stamps # {}
  <2>1. \A d \in Unexpired(k, t) : stamp[d] \in Nat
    BY <1>1 DEF StampsAreServed, ListsAreAdmitted, WindowInv
  <2> QED
    BY <1>4, <2>1
<1>6. Min0(stamps) \in stamps
  BY <1>5, Least
<1>7. PICK oldest \in Unexpired(k, t) : stamp[oldest] = Min0(stamps)
  BY <1>6
<1>8. RetryAt(k, t) = stamp[oldest] + Window[k] /\ stamp[oldest] \in Nat
  BY <1>5, <1>6, <1>7 DEF RetryAt
<1> DEFINE T == {d \in Unexpired(k, t) : stamp[d] > RetryAt(k, t) - Window[k]}
<1>9. T \subseteq Unexpired(k, t) \ {oldest}
  BY <1>2, <1>8
<1>10. /\ IsFiniteSet(Unexpired(k, t) \ {oldest})
       /\ Cardinality(Unexpired(k, t) \ {oldest}) = Limit[k] - 1
  BY <1>3, <1>4, <1>7, FS_RemoveElement
<1>11. Cardinality(T) <= Limit[k] - 1 /\ Cardinality(T) \in Nat
  BY <1>9, <1>10, FS_Subset, FS_CardinalityType
<1> QED
  BY <1>2, <1>8, <1>11

LEMMA AdmissionKeepsWindow ==
  ASSUME WindowInv, NEW c \in Checks, NEW t \in 0..MaxTicks, Served(c, t),
         \A k \in KeySet(c) : ~Full(k, t)
  PROVE  WindowInv'
<1> USE ServingTime
<1>1. /\ outcome' = [outcome EXCEPT ![c] = "admitted"]
      /\ attempts' = [k \in Keys |-> IF k \in KeySet(c) THEN Unexpired(k, t) \cup {c}
                                     ELSE attempts[k]]
      /\ promise' = [k \in Keys |-> IF k \in KeySet(c) THEN 0 ELSE promise[k]]
  BY DEF Served, Serve, Records
<1>2. outcome'[c] = "admitted" /\ \A d \in Checks : d # c => outcome'[d] = outcome[d]
  BY <1>1 DEF WindowInv, WindowTypes
<1>3. \A k \in Keys : Admitted(k)' = IF k \in KeySet(c) THEN Admitted(k) \cup {c}
                                     ELSE Admitted(k)
  BY <1>2 DEF Admitted
<1>4. WindowTypes'
  <2>1. outcome' \in [Checks -> {"none", "admitted", "refused"}]
    BY <1>1 DEF WindowInv, WindowTypes
  <2>2. attempts' \in [Keys -> SUBSET Checks] /\ promise' \in [Keys -> Nat]
    BY <1>1 DEF WindowInv, WindowTypes
  <2>3. now' = now /\ stamp' \in [Checks -> (0..MaxTicks) \cup {NotRead}]
    BY DEF Served, Serve
  <2>4. now \in 0..MaxTicks
    BY DEF WindowInv, WindowTypes
  <2> QED
    BY <2>1, <2>2, <2>3, <2>4, TimesKeepTypes DEF WindowTypes
<1>5. ListsAreAdmitted'
  BY <1>1, <1>3 DEF ListsAreAdmitted, WindowInv
<1>6. StampsAreServed'
  <2> SUFFICES ASSUME NEW k \in Keys, NEW d \in Admitted(k)'
               PROVE  stamp'[d] \in 0..MaxTicks /\ stamp'[d] <= lastTime'[k]
    BY DEF StampsAreServed
  <2>1. CASE d = c
    BY <1>3, <2>1 DEF Served
  <2>2. CASE d # c
    <3>1. d \in Admitted(k) /\ d \in Checks /\ stamp'[d] = stamp[d]
      BY <1>3, <2>2 DEF Admitted, Served
    <3>2. stamp[d] \in 0..MaxTicks /\ stamp[d] <= lastTime[k] /\ lastTime[k] \in 0..MaxTicks
      BY <3>1 DEF StampsAreServed, WindowInv, WindowTypes
    <3> QED
      BY <3>1, <3>2
  <2> QED
    BY <2>1, <2>2
<1>7. ListsAreRecent'
  <2> SUFFICES ASSUME NEW k \in Keys, NEW d \in Admitted(k)', stamp'[d] > lastTime'[k] - Window[k]
               PROVE  d \in attempts'[k]
    BY DEF ListsAreRecent
  <2>1. CASE d = c
    BY <1>1, <1>3, <2>1
  <2>2. CASE d # c
    <3>1. d \in Admitted(k) /\ d \in Checks /\ stamp'[d] = stamp[d]
      BY <1>3, <2>2 DEF Admitted, Served
    <3>2. KeptIfRecent(k, d, t)
      BY <3>1, RecentIsKept
    <3> QED
      BY <1>1, <3>1, <3>2 DEF KeptIfRecent
  <2> QED
    BY <2>1, <2>2
<1>8. ListsAreShort'
  <2> SUFFICES ASSUME NEW k \in Keys
               PROVE  Cardinality(attempts'[k]) <= Limit[k]
    BY DEF ListsAreShort
  <2>1. CASE k \in KeySet(c)
    BY <1>1, <2>1, RoomForOne
  <2>2. CASE k \notin KeySet(c)
    BY <1>1, <2>2 DEF ListsAreShort, WindowInv
  <2> QED
    BY <2>1, <2>2
<1>9. PromisesHold'
  <2> SUFFICES ASSUME NEW k \in Keys, promise'[k] # 0
               PROVE  Cardinality({d \in attempts'[k] :
                                     stamp'[d] > promise'[k] - Window[k]}) < Limit[k]
    BY DEF PromisesHold
  <2>1. attempts'[k] = attempts[k] /\ promise'[k] = promise[k]
    BY <1>1
  <2>2. {d \in attempts'[k] : stamp'[d] > promise'[k] - Window[k]}
          = {d \in attempts[k] : stamp[d] > promise[k] - Window[k]}
    BY <2>1 DEF Served, WindowInv, WindowTypes
  <2> QED
    BY <2>1, <2>2 DEF PromisesHold, WindowInv
<1>10. LimitPerWindow'
  <2>1. ASSUME NEW k \in Keys, NEW s \in 0..MaxTicks
        PROVE  Cardinality(InOrder(k, s)') <= Limit[k]
    <3>0. Cardinality(InOrder(k, s)) <= Limit[k] /\ InOrder(k, s) \in SUBSET Checks
      BY DEF LimitPerWindow, WindowInv, InOrder, Admitted
    <3>1. InOrder(k, s)' \ {c} \subseteq InOrder(k, s)
      BY <1>3 DEF InOrder, Served, Admitted
    <3>2. CASE c \notin InOrder(k, s)'
      <4>1. InOrder(k, s)' \subseteq InOrder(k, s)
        BY <3>1, <3>2
      <4>2. /\ Cardinality(InOrder(k, s)') <= Cardinality(InOrder(k, s))
            /\ Cardinality(InOrder(k, s)') \in Nat /\ Cardinality(InOrder(k, s)) \in Nat
        BY <3>0, <4>1, Part
      <4> QED
        BY <3>0, <4>2, WindowsAssumption
    <3>3. CASE c \in InOrder(k, s)'
      <4>1. k \in KeySet(c)
        BY <3>3 DEF InOrder, Admitted
      <4>2. lastTime[k] <= t /\ s - Window[k] < t /\ t <= s
        BY <3>3, <4>1 DEF InOrder, Served
      <4>3. InOrder(k, s)' \ {c} \subseteq Unexpired(k, t)
        <5> SUFFICES ASSUME NEW d \in InOrder(k, s), d # c
                     PROVE  d \in Unexpired(k, t)
          BY <3>1
        <5>1. d \in Admitted(k) /\ s - Window[k] < stamp[d]
          BY DEF InOrder
        <5>2. stamp[d] \in 0..MaxTicks /\ Window[k] \in Nat /\ lastTime[k] \in 0..MaxTicks
          BY <5>1, WindowsAssumption DEF StampsAreServed, WindowInv, WindowTypes
        <5>3. stamp[d] > t - Window[k] /\ stamp[d] > lastTime[k] - Window[k]
          BY <4>2, <5>1, <5>2
        <5>4. d \in attempts[k]
          BY <5>1, <5>3 DEF ListsAreRecent, WindowInv
        <5> QED
          BY <5>3, <5>4 DEF Unexpired
      <4>4. InOrder(k, s)' \subseteq Unexpired(k, t) \cup {c}
        BY <4>3
      <4>5. /\ Cardinality(Unexpired(k, t) \cup {c}) <= Limit[k]
            /\ Unexpired(k, t) \cup {c} \in SUBSET Checks
        BY <4>1, RoomForOne
      <4>6. /\ Cardinality(InOrder(k, s)') <= Cardinality(Unexpired(k, t) \cup {c})
            /\ Cardinality(InOrder(k, s)') \in Nat
            /\ Cardinality(Unexpired(k, t) \cup {c}) \in Nat
        BY <4>4, <4>5, Part
      <4> QED
        BY <4>5, <4>6, WindowsAssumption
    <3> QED
      BY <3>2, <3>3
  <2>2. ASSUME NEW d \in Logins, NEW k \in Keys
        PROVE  <<d, k>> \notin overtaken'
    BY LoginsKeepUp
  <2> QED
    BY <2>1, <2>2 DEF LimitPerWindow
<1> QED
  BY <1>4, <1>5, <1>6, <1>7, <1>8, <1>9, <1>10 DEF WindowInv

(* The same for a check that is refused. *)
LEMMA RefusalKeepsWindow ==
  ASSUME WindowInv, NEW c \in Checks, NEW t \in 0..MaxTicks, Served(c, t),
         \E k \in KeySet(c) : Full(k, t)
  PROVE  WindowInv'
<1> USE ServingTime
<1> DEFINE r == Refuser(c, t)
<1>1. /\ outcome' = [outcome EXCEPT ![c] = "refused"]
      /\ attempts' = [k \in Keys |-> IF k \in KeySet(c) THEN Unexpired(k, t) ELSE attempts[k]]
      /\ promise' = [promise EXCEPT ![r] = RetryAt(r, t)]
  <2>1. outcome' = [outcome EXCEPT ![c] = "refused"]
        /\ promise' = [promise EXCEPT ![r] = RetryAt(r, t)]
    BY DEF Served, Serve
  <2>2. attempts' = [k \in Keys |->
          IF k \in KeySet(c)
          THEN Unexpired(k, t) \cup (IF \E q \in KeySet(c) : Full(q, t) THEN {} ELSE {c})
          ELSE attempts[k]]
    BY DEF Served, Serve, Records
  <2>3. \A k \in Keys :
          Unexpired(k, t) \cup (IF \E q \in KeySet(c) : Full(q, t) THEN {} ELSE {c}) = Unexpired(k, t)
    OBVIOUS
  <2> QED
    BY <2>1, <2>2, <2>3
<1>2. r \in KeySet(c) /\ r \in Keys /\ Full(r, t)
  BY RefuserIsFull
<1>3. /\ RetryAt(r, t) \in Nat
      /\ Cardinality({d \in Unexpired(r, t) : stamp[d] > RetryAt(r, t) - Window[r]}) < Limit[r]
  BY <1>2, PromiseIsKept
<1> HIDE DEF r
<1>4. \A k \in Keys : Admitted(k)' = Admitted(k)
  <2>1. outcome'[c] = "refused" /\ \A d \in Checks : d # c => outcome'[d] = outcome[d]
    BY <1>1 DEF WindowInv, WindowTypes
  <2>2. outcome[c] = "none"
    BY DEF Served, Serve
  <2> QED
    BY <2>1, <2>2 DEF Admitted
<1>5. \A k \in Keys : /\ attempts'[k] = IF k \in KeySet(c) THEN Unexpired(k, t) ELSE attempts[k]
                      /\ attempts'[k] \subseteq attempts[k]
  BY <1>1
<1>6. WindowTypes'
  <2>1. outcome' \in [Checks -> {"none", "admitted", "refused"}]
    BY <1>1 DEF WindowInv, WindowTypes
  <2>2. attempts' \in [Keys -> SUBSET Checks] /\ promise' \in [Keys -> Nat]
    BY <1>1, <1>3 DEF WindowInv, WindowTypes
  <2>3. now' = now /\ stamp' \in [Checks -> (0..MaxTicks) \cup {NotRead}]
    BY DEF Served, Serve
  <2>4. now \in 0..MaxTicks
    BY DEF WindowInv, WindowTypes
  <2> QED
    BY <2>1, <2>2, <2>3, <2>4, TimesKeepTypes DEF WindowTypes
<1>7. ListsAreAdmitted'
  BY <1>4, <1>5 DEF ListsAreAdmitted, WindowInv
<1>8. \A k \in Keys : \A d \in Admitted(k) : d # c /\ d \in Checks /\ stamp'[d] = stamp[d]
  BY DEF Admitted, Served
<1>9. StampsAreServed'
  <2> SUFFICES ASSUME NEW k \in Keys, NEW d \in Admitted(k)
               PROVE  stamp'[d] \in 0..MaxTicks /\ stamp'[d] <= lastTime'[k]
    BY <1>4 DEF StampsAreServed
  <2>1. stamp[d] \in 0..MaxTicks /\ stamp[d] <= lastTime[k] /\ lastTime[k] \in 0..MaxTicks
    BY DEF StampsAreServed, WindowInv, WindowTypes
  <2> QED
    BY <1>8, <2>1
<1>10. ListsAreRecent'
  <2> SUFFICES ASSUME NEW k \in Keys, NEW d \in Admitted(k),
                      stamp[d] > lastTime'[k] - Window[k]
               PROVE  d \in attempts'[k]
    BY <1>4, <1>8 DEF ListsAreRecent
  <2> QED
    BY <1>5, RecentIsKept DEF KeptIfRecent
<1>11. ListsAreShort'
  <2> SUFFICES ASSUME NEW k \in Keys
               PROVE  Cardinality(attempts'[k]) <= Limit[k]
    BY DEF ListsAreShort
  <2>1. attempts[k] \in SUBSET Checks /\ Cardinality(attempts[k]) <= Limit[k]
    BY DEF ListsAreShort, WindowInv, WindowTypes
  <2>2. /\ Cardinality(attempts'[k]) <= Cardinality(attempts[k])
        /\ Cardinality(attempts'[k]) \in Nat /\ Cardinality(attempts[k]) \in Nat
    BY <1>5, <2>1, Part
  <2> QED
    BY <2>1, <2>2, WindowsAssumption
<1>12. \A k \in Keys : \A d \in attempts[k] : stamp'[d] = stamp[d]
  BY <1>8 DEF ListsAreAdmitted, WindowInv
<1>13. PromisesHold'
  <2> SUFFICES ASSUME NEW k \in Keys, promise'[k] # 0
               PROVE  Cardinality({d \in attempts'[k] :
                                     stamp'[d] > promise'[k] - Window[k]}) < Limit[k]
    BY DEF PromisesHold
  <2>1. CASE k = r
    <3>1. promise'[k] = RetryAt(r, t) /\ attempts'[k] = Unexpired(r, t)
      BY <1>1, <1>2, <1>5, <2>1 DEF WindowInv, WindowTypes
    <3>2. {d \in attempts'[k] : stamp'[d] > promise'[k] - Window[k]}
            = {d \in Unexpired(r, t) : stamp[d] > RetryAt(r, t) - Window[r]}
      BY <1>2, <1>12, <2>1, <3>1
    <3> QED
      BY <1>3, <2>1, <3>2
  <2>2. CASE k # r
    <3>1. promise'[k] = promise[k]
      BY <1>1, <2>2 DEF WindowInv, WindowTypes
    <3> DEFINE T == {d \in attempts[k] : stamp[d] > promise[k] - Window[k]}
               U == {d \in attempts'[k] : stamp'[d] > promise'[k] - Window[k]}
    <3>2. U \subseteq T /\ T \in SUBSET Checks
      BY <1>5, <1>12, <3>1 DEF WindowInv, WindowTypes
    <3>3. Cardinality(T) < Limit[k]
      BY <3>1 DEF PromisesHold, WindowInv
    <3> HIDE DEF T, U
    <3>4. /\ Cardinality(U) <= Cardinality(T)
          /\ Cardinality(U) \in Nat /\ Cardinality(T) \in Nat
      BY <3>2, Part
    <3>5. Cardinality(U) < Limit[k]
      BY <3>3, <3>4, WindowsAssumption
    <3> QED
      BY <3>5 DEF U
  <2> QED
    BY <2>1, <2>2
<1>14. LimitPerWindow'
  <2>1. ASSUME NEW k \in Keys, NEW s \in 0..MaxTicks
        PROVE  Cardinality(InOrder(k, s)') <= Limit[k]
    <3>1. InOrder(k, s)' = InOrder(k, s)
      BY <1>4, <1>8 DEF InOrder
    <3> QED
      BY <3>1 DEF LimitPerWindow, WindowInv
  <2> QED
    BY <2>1, LoginsKeepUp DEF LimitPerWindow
<1> QED
  BY <1>6, <1>7, <1>9, <1>10, <1>11, <1>13, <1>14 DEF WindowInv

LEMMA TickKeepsWindow ==
  ASSUME WindowInv, ClockTicks
  PROVE  WindowInv'
<1>1. /\ now' \in 0..MaxTicks /\ now' > now
      /\ UNCHANGED <<stamp, outcome, attempts, lastTime, overtaken, promise>>
  BY WindowsAssumption DEF ClockTicks, WindowInv, WindowTypes
<1>2. ClockIsLast'
  <2>1. now \in Int /\ now' \in Int
    BY <1>1 DEF WindowInv, WindowTypes
  <2>2. \A k \in Keys : lastTime[k] \in Int
    BY DEF WindowInv, WindowTypes
  <2>3. \A c \in Checks : stamp[c] \in Int
    BY DEF WindowInv, WindowTypes, NotRead
  <2> QED
    BY <1>1, <2>1, <2>2, <2>3 DEF ClockIsLast, WindowInv
<1>3. WindowTypes'
  BY <1>1 DEF WindowInv, WindowTypes
<1>4. ListsAreAdmitted' /\ StampsAreServed' /\ ListsAreRecent'
  BY <1>1 DEF WindowInv, ListsAreAdmitted, StampsAreServed, ListsAreRecent, Admitted
<1>5. ListsAreShort' /\ PromisesHold'
  BY <1>1 DEF WindowInv, ListsAreShort, PromisesHold
<1>6. LimitPerWindow'
  BY <1>1 DEF WindowInv, LimitPerWindow, InOrder, Admitted
<1> QED
  BY <1>2, <1>3, <1>4, <1>5, <1>6 DEF WindowInv

LEMMA ReadKeepsWindow ==
  ASSUME WindowInv, NEW c \in Checks, ReadClock(c)
  PROVE  WindowInv'
<1>1. /\ stamp[c] = NotRead /\ stamp' = [stamp EXCEPT ![c] = now]
      /\ UNCHANGED <<now, outcome, attempts, lastTime, overtaken, promise>>
  BY DEF ReadClock
<1>2. \A k \in Keys : Admitted(k)' = Admitted(k)
  BY <1>1 DEF Admitted
<1>3. \A k \in Keys : \A d \in Admitted(k) : stamp'[d] = stamp[d] /\ d \in Checks
  BY <1>1 DEF StampsAreServed, WindowInv, WindowTypes, Admitted, NotRead
<1>4. WindowTypes'
  BY <1>1 DEF WindowInv, WindowTypes
<1>5. ListsAreAdmitted' /\ StampsAreServed' /\ ListsAreRecent' /\ ListsAreShort'
  BY <1>1, <1>2, <1>3 DEF ListsAreAdmitted, StampsAreServed, ListsAreRecent, ListsAreShort,
                          WindowInv
<1>6. ClockIsLast'
  BY <1>1 DEF ClockIsLast, WindowInv, WindowTypes
<1>7. PromisesHold'
  <2> SUFFICES ASSUME NEW k \in Keys, promise[k] # 0
               PROVE  Cardinality({d \in attempts[k] :
                                     stamp'[d] > promise[k] - Window[k]}) < Limit[k]
    BY <1>1 DEF PromisesHold
  <2>1. {d \in attempts[k] : stamp'[d] > promise[k] - Window[k]}
          = {d \in attempts[k] : stamp[d] > promise[k] - Window[k]}
    BY <1>3 DEF ListsAreAdmitted, WindowInv
  <2> QED
    BY <2>1 DEF PromisesHold, WindowInv
<1>8. LimitPerWindow'
  <2>1. \A k \in Keys, s \in 0..MaxTicks : InOrder(k, s)' = InOrder(k, s)
    BY <1>1, <1>2, <1>3 DEF InOrder
  <2> QED
    BY <1>1, <2>1 DEF LimitPerWindow, WindowInv
<1> QED
  BY <1>4, <1>5, <1>6, <1>7, <1>8 DEF WindowInv

LEMMA StutterKeepsWindow ==
  ASSUME WindowInv, UNCHANGED windowVars
  PROVE  WindowInv'
<1> USE DEF windowVars, WindowInv
<1>1. WindowTypes'
  BY DEF WindowTypes
<1>2. ListsAreAdmitted' /\ StampsAreServed' /\ ClockIsLast' /\ ListsAreRecent'
  BY DEF ListsAreAdmitted, StampsAreServed, ClockIsLast, ListsAreRecent, Admitted
<1>3. ListsAreShort' /\ PromisesHold'
  BY DEF ListsAreShort, PromisesHold
<1>4. LimitPerWindow'
  BY DEF LimitPerWindow, InOrder, Admitted
<1> QED
  BY <1>1, <1>2, <1>3, <1>4

LEMMA WindowInvariant == WindowSpec => []WindowInv
<1>1. WindowInit => WindowInv
  <2> SUFFICES ASSUME WindowInit PROVE WindowInv
    OBVIOUS
  <2>1. \A k \in Keys : Admitted(k) = {}
    BY DEF WindowInit, Admitted
  <2>2. WindowTypes
    BY WindowsAssumption DEF WindowInit, WindowTypes, NotRead
  <2>3. Cardinality({}) = 0
    BY FS_EmptySet
  <2>4. ListsAreShort
    BY <2>3, WindowsAssumption DEF WindowInit, ListsAreShort
  <2>5. LimitPerWindow
    <3>1. \A k \in Keys, s \in 0..MaxTicks : InOrder(k, s) = {}
      BY <2>1 DEF InOrder
    <3>2. \A k \in Keys : 0 <= Limit[k]
      BY WindowsAssumption
    <3>3. \A k \in Keys, s \in 0..MaxTicks : Cardinality(InOrder(k, s)) <= Limit[k]
      BY <2>3, <3>1, <3>2
    <3> QED
      BY <3>3 DEF WindowInit, LimitPerWindow
  <2>6. ListsAreAdmitted /\ StampsAreServed /\ ClockIsLast /\ ListsAreRecent /\ PromisesHold
    BY <2>1 DEF WindowInit, ListsAreAdmitted, StampsAreServed, ClockIsLast, ListsAreRecent,
                PromisesHold, NotRead
  <2> QED
    BY <2>2, <2>4, <2>5, <2>6 DEF WindowInv
<1>2. WindowInv /\ [WindowNext]_windowVars => WindowInv'
  <2> SUFFICES ASSUME WindowInv, [WindowNext]_windowVars
               PROVE  WindowInv'
    OBVIOUS
  <2>1. CASE UNCHANGED windowVars
    BY <2>1, StutterKeepsWindow
  <2>2. CASE ClockTicks
    BY <2>2, TickKeepsWindow
  <2>3. ASSUME NEW c \in Checks, ReadClock(c)
        PROVE  WindowInv'
    BY <2>3, ReadKeepsWindow
  <2>4. ASSUME NEW c \in Checks, Check(c) \/ Login(c)
        PROVE  WindowInv'
    BY <2>4, ServesOne, AdmissionKeepsWindow, RefusalKeepsWindow
  <2> QED
    BY <2>1, <2>2, <2>3, <2>4 DEF WindowNext
<1> QED
  BY <1>1, <1>2, PTL DEF WindowSpec

LEMMA RefusedByAFullKey ==
  ASSUME WindowInv, WindowNext, NEW c \in Checks, outcome[c] = "none", outcome'[c] = "refused"
  PROVE  \E t \in 0..MaxTicks : Served(c, t) /\ \E k \in KeySet(c) : Full(k, t)
<1>1. PICK d \in Checks : Check(d) \/ Login(d)
  BY DEF WindowNext, ClockTicks, ReadClock
<1>2. PICK t \in 0..MaxTicks : Served(d, t)
  BY <1>1, ServesOne
<1>3. /\ \/ outcome' = [outcome EXCEPT ![d] = "refused"] /\ \E k \in KeySet(d) : Full(k, t)
         \/ outcome' = [outcome EXCEPT ![d] = "admitted"]
  BY <1>2 DEF Served, Serve
<1>4. d = c
  BY <1>3 DEF WindowInv, WindowTypes
<1> QED
  BY <1>2, <1>3, <1>4 DEF WindowInv, WindowTypes

(* For any number of clients, threads and logins, and any limits: no window admits more  *)
(* than its limit, but for asks that were overtaken (rate_limit.py:41-63,                *)
(* throttle.py:39-62).                                                                *)
THEOREM WindowsAreLimited == WindowSpec => []LimitPerWindow
<1>1. WindowInv => LimitPerWindow
  BY DEF WindowInv
<1> QED
  BY <1>1, WindowInvariant, PTL

(* A refusal is never for what was refused before (throttle.py:40-44).                 *)
THEOREM RefusalsAreDeserved == WindowSpec => RefusalIsDeserved
<1>1. WindowInv /\ [WindowNext]_windowVars =>
        [\A c \in Checks : outcome[c] = "none" /\ outcome'[c] = "refused" =>
           \E k \in KeySet(c) :
             Cardinality({d \in Admitted(k) : stamp[d] > stamp'[c] - Window[k]})
               >= Limit[k]]_windowVars
  <2> SUFFICES ASSUME WindowInv, WindowNext, NEW c \in Checks,
                      outcome[c] = "none", outcome'[c] = "refused"
               PROVE  \E k \in KeySet(c) :
                        Cardinality({d \in Admitted(k) : stamp[d] > stamp'[c] - Window[k]})
                          >= Limit[k]
    OBVIOUS
  <2>1. PICK t \in 0..MaxTicks : Served(c, t) /\ \E k \in KeySet(c) : Full(k, t)
    BY RefusedByAFullKey
  <2>2. PICK k \in KeySet(c) : Full(k, t)
    BY <2>1
  <2>3. k \in Keys /\ stamp'[c] = t
    BY <2>1, WindowsAssumption DEF KeySet, Served
  <2> DEFINE T == {d \in Admitted(k) : stamp[d] > t - Window[k]}
  <2>4. T \in SUBSET Checks /\ Unexpired(k, t) \subseteq T
    BY <2>3 DEF Unexpired, ListsAreAdmitted, WindowInv, Admitted
  <2>5. /\ Cardinality(Unexpired(k, t)) <= Cardinality(T)
        /\ Cardinality(Unexpired(k, t)) \in Nat /\ Cardinality(T) \in Nat
    BY <2>4, Part
  <2>6. Cardinality(T) >= Limit[k]
    BY <2>2, <2>3, <2>5, WindowsAssumption DEF Full
  <2> QED
    BY <2>3, <2>6
<1> QED
  BY <1>1, WindowInvariant, PTL DEF WindowSpec, RefusalIsDeserved

(* retry_after is enough: the oldest attempt has left the window by then, and the list  *)
(* was never longer than the limit (rate_limit.py:57-60, throttle.py:70-73).            *)
THEOREM RetriesSuffice == WindowSpec => RetryAfterSuffices
<1>1. WindowInv /\ [WindowNext]_windowVars =>
        [\A c \in Checks : outcome[c] = "none" /\ outcome'[c] = "refused" =>
           LET told == promise[Refuser(c, stamp'[c])]
           IN told = 0 \/ stamp'[c] < told]_windowVars
  <2> SUFFICES ASSUME WindowInv, WindowNext, NEW c \in Checks,
                      outcome[c] = "none", outcome'[c] = "refused",
                      promise[Refuser(c, stamp'[c])] # 0
               PROVE  stamp'[c] < promise[Refuser(c, stamp'[c])]
    OBVIOUS
  <2>1. PICK t \in 0..MaxTicks : Served(c, t) /\ \E k \in KeySet(c) : Full(k, t)
    BY RefusedByAFullKey
  <2> DEFINE r == Refuser(c, t)
  <2>2. stamp'[c] = t /\ r \in Keys /\ Full(r, t)
    BY <2>1, RefuserIsFull DEF Served
  <2> HIDE DEF r
  <2>3. promise[r] \in Nat /\ Window[r] \in Nat /\ Limit[r] \in Nat /\ promise[r] # 0
    BY <2>2, WindowsAssumption DEF WindowInv, WindowTypes, r
  <2> DEFINE T == {d \in attempts[r] : stamp[d] > promise[r] - Window[r]}
  <2>4. Cardinality(T) < Limit[r] /\ T \in SUBSET Checks
    BY <2>2, <2>3 DEF PromisesHold, WindowInv, WindowTypes
  <2>5. SUFFICES ASSUME t >= promise[r]
                 PROVE  FALSE
    BY <2>2, <2>3 DEF r
  <2>6. \A d \in attempts[r] : stamp[d] \in Int
    BY <2>2 DEF WindowInv, WindowTypes, NotRead
  <2>7. Unexpired(r, t) \subseteq T
    BY <2>3, <2>5, <2>6 DEF Unexpired
  <2>8. /\ Cardinality(Unexpired(r, t)) <= Cardinality(T)
        /\ Cardinality(Unexpired(r, t)) \in Nat /\ Cardinality(T) \in Nat
    BY <2>4, <2>7, Part
  <2> QED
    BY <2>2, <2>3, <2>4, <2>8 DEF Full
<1> QED
  BY <1>1, WindowInvariant, PTL DEF WindowSpec, RetryAfterSuffices

-----------------------------------------------------------------------------
(* The usage table.                                                                    *)
USE RequestsAssumption, ClockAssumption, LimitAssumption

\* A refund happens once, to a charged request, and only decided requests have a minute.
PhaseInv ==
  \A r \in Requests :
    /\ returned[r] # 0 => phase[r] = "refunded"
    /\ moment[r] = 0 <=> phase[r] = "new"

RowsWithinMinute == \A m \in Minutes : requests[m] <= PerMinute

QuotaInv == QuotaTypeOK /\ PhaseInv /\ RowMatchesCharges /\ RowsWithinMinute
-----------------------------------------------------------------------------
LEMMA FiniteCounts ==
  ASSUME NEW S, S \subseteq Requests
  PROVE  IsFiniteSet(S) /\ Cardinality(S) \in Nat
  BY FS_Subset, FS_CardinalityType

\* The sets of requests that RowMatchesCharges counts are finite.
LEMMA FiniteRows ==
  ASSUME NEW m
  PROVE  /\ IsFiniteSet(CountedIn(m)) /\ Cardinality(CountedIn(m)) \in Nat
         /\ IsFiniteSet(ReturnedIn(m)) /\ Cardinality(ReturnedIn(m)) \in Nat
<1>1. CountedIn(m) \subseteq Requests /\ ReturnedIn(m) \subseteq Requests
  BY DEF CountedIn, ReturnedIn
<1>2. QED
  BY <1>1, FiniteCounts

LEMMA DisjointUnion ==
  ASSUME NEW S, NEW T, IsFiniteSet(S), IsFiniteSet(T), S \cap T = {}
  PROVE  Cardinality(S \cup T) = Cardinality(S) + Cardinality(T)
<1>1. Cardinality(S \cup T) = Cardinality(S) + Cardinality(T) - Cardinality(S \cap T)
  BY FS_Union
<1>2. Cardinality(S \cap T) = 0 /\ Cardinality(S) \in Nat /\ Cardinality(T) \in Nat
  BY FS_EmptySet, FS_CardinalityType
<1>3. QED
  BY <1>1, <1>2

LEMMA QuotaInitInv == QuotaInit => QuotaInv
<1> SUFFICES ASSUME QuotaInit PROVE QuotaInv
  OBVIOUS
<1> USE DEF QuotaInit
<1>1. QuotaTypeOK /\ PhaseInv /\ RowsWithinMinute
  BY DEF QuotaTypeOK, PhaseInv, RowsWithinMinute, Minutes, Phases
<1>2. ASSUME NEW m \in Minutes
      PROVE  CountedIn(m) = {} /\ ReturnedIn(m) = {}
  BY <1>2 DEF CountedIn, ReturnedIn, Minutes
<1>3. RowMatchesCharges
  BY <1>2, FS_EmptySet DEF RowMatchesCharges
<1>4. QED
  BY <1>1, <1>3 DEF QuotaInv

LEMMA QuotaTypeStep == QuotaTypeOK /\ PhaseInv /\ [QuotaNext]_quotaVars => QuotaTypeOK' /\ PhaseInv'
<1> SUFFICES ASSUME QuotaTypeOK, PhaseInv, [QuotaNext]_quotaVars PROVE QuotaTypeOK' /\ PhaseInv'
  OBVIOUS
<1> USE DEF QuotaTypeOK, PhaseInv, Phases
<1>1. CASE MinutePasses
  BY <1>1 DEF MinutePasses, Minutes
<1>2. ASSUME NEW r \in Requests, TakeMoment(r) PROVE QuotaTypeOK' /\ PhaseInv'
  BY <1>2 DEF TakeMoment, Minutes
<1>3. ASSUME NEW r \in Requests, Charge(r) PROVE QuotaTypeOK' /\ PhaseInv'
  <2>1. moment[r] \in Minutes
    BY <1>3 DEF Charge
  <2>2. QED
    BY <1>3, <2>1 DEF Charge, Recorded
<1>4. ASSUME NEW r \in Requests, Deny(r) \/ ChargeFault(r) PROVE QuotaTypeOK' /\ PhaseInv'
  BY <1>4 DEF Deny, ChargeFault
<1>5. ASSUME NEW r \in Requests, StartWork(r) \/ ForgetRefund(r) PROVE QuotaTypeOK' /\ PhaseInv'
  BY <1>5 DEF StartWork, ForgetRefund
<1>6. ASSUME NEW r \in Requests, Refund(r) PROVE QuotaTypeOK' /\ PhaseInv'
  BY <1>6 DEF Refund, Refunded
<1>7. CASE UNCHANGED quotaVars
  BY <1>7 DEF quotaVars
<1>8. QED
  BY <1>1, <1>2, <1>3, <1>4, <1>5, <1>6, <1>7 DEF QuotaNext, Terminated

\* A step that moves no request into or out of a set of RowMatchesCharges.
LEMMA SameRows ==
  ASSUME RowMatchesCharges, RowsWithinMinute, requests' = requests,
         \A m \in Minutes : CountedIn(m)' = CountedIn(m) /\ ReturnedIn(m)' = ReturnedIn(m)
  PROVE  RowMatchesCharges' /\ RowsWithinMinute'
  BY DEF RowMatchesCharges, RowsWithinMinute

\* A charge adds the request to the row of its minute and to no other.
LEMMA ChargeKeepsRows ==
  ASSUME QuotaInv, NEW r \in Requests, Charge(r)
  PROVE  RowMatchesCharges' /\ RowsWithinMinute'
<1>1. moment[r] \in Minutes /\ requests[moment[r]] \in Nat
  BY DEF QuotaInv, QuotaTypeOK, PhaseInv, Charge
<1>2. ASSUME NEW m \in Minutes
      PROVE  /\ requests'[m] <= Cardinality(CountedIn(m)')
             /\ Cardinality(CountedIn(m)') <= requests'[m] + Cardinality(ReturnedIn(m)')
             /\ requests'[m] <= PerMinute
  <2>1. /\ requests[m] \in Nat /\ requests[m] <= PerMinute
        /\ requests[m] <= Cardinality(CountedIn(m))
        /\ Cardinality(CountedIn(m)) <= requests[m] + Cardinality(ReturnedIn(m))
    BY DEF QuotaInv, QuotaTypeOK, RowMatchesCharges, RowsWithinMinute
  <2>2. ReturnedIn(m)' = ReturnedIn(m)
    BY DEF ReturnedIn, Charge
  <2>3. CASE m = moment[r]
    <3>1. requests'[m] = requests[m] + 1 /\ requests'[m] <= PerMinute
      BY <1>1, <2>3 DEF Charge, Recorded, WithinLimits, QuotaInv, QuotaTypeOK
    <3>2. CountedIn(m)' = CountedIn(m) \cup {r} /\ r \notin CountedIn(m)
      BY <2>3 DEF CountedIn, Charge, QuotaInv, QuotaTypeOK
    <3>3. Cardinality(CountedIn(m)') = Cardinality(CountedIn(m)) + 1
      BY <3>2, FiniteRows, FS_AddElement
    <3>4. QED
      BY <2>1, <2>2, <3>1, <3>3, FiniteRows
  <2>4. CASE m # moment[r]
    <3>1. requests'[m] = requests[m]
      BY <1>1, <2>4 DEF Charge, Recorded, QuotaInv, QuotaTypeOK
    <3>2. CountedIn(m)' = CountedIn(m)
      BY <2>4 DEF CountedIn, Charge, QuotaInv, QuotaTypeOK
    <3>3. QED
      BY <2>1, <2>2, <3>1, <3>2
  <2>5. QED
    BY <2>3, <2>4
<1>3. QED
  BY <1>2 DEF RowMatchesCharges, RowsWithinMinute

\* A refund takes one request off the current row, or none when the row is empty.
LEMMA RefundKeepsRows ==
  ASSUME QuotaInv, NEW r \in Requests, Refund(r)
  PROVE  RowMatchesCharges' /\ RowsWithinMinute'
<1>1. minute \in Minutes /\ minute # 0 /\ returned[r] = 0
  BY DEF QuotaInv, QuotaTypeOK, PhaseInv, Refund, Minutes
<1>2. ASSUME NEW m \in Minutes
      PROVE  /\ requests'[m] <= Cardinality(CountedIn(m)')
             /\ Cardinality(CountedIn(m)') <= requests'[m] + Cardinality(ReturnedIn(m)')
             /\ requests'[m] <= PerMinute
  <2>1. /\ requests[m] \in Nat /\ requests[m] <= PerMinute
        /\ requests[m] <= Cardinality(CountedIn(m))
        /\ Cardinality(CountedIn(m)) <= requests[m] + Cardinality(ReturnedIn(m))
    BY DEF QuotaInv, QuotaTypeOK, RowMatchesCharges, RowsWithinMinute
  <2>2. CountedIn(m)' = CountedIn(m)
    BY DEF CountedIn, Refund, QuotaInv, QuotaTypeOK
  <2>3. CASE m = minute
    <3>1. requests'[m] = IF requests[m] > 0 THEN requests[m] - 1 ELSE 0
      BY <1>1, <2>3 DEF Refund, Refunded, QuotaInv, QuotaTypeOK
    <3>2. ReturnedIn(m)' = ReturnedIn(m) \cup {r} /\ r \notin ReturnedIn(m)
      BY <1>1, <2>3 DEF ReturnedIn, Refund, QuotaInv, QuotaTypeOK
    <3>3. Cardinality(ReturnedIn(m)') = Cardinality(ReturnedIn(m)) + 1
      BY <3>2, FiniteRows, FS_AddElement
    <3>4. QED
      BY <2>1, <2>2, <3>1, <3>3, FiniteRows
  <2>4. CASE m # minute
    <3>1. requests'[m] = requests[m]
      BY <1>1, <2>4 DEF Refund, Refunded, QuotaInv, QuotaTypeOK
    <3>2. ReturnedIn(m)' = ReturnedIn(m)
      BY <1>1, <2>4 DEF ReturnedIn, Refund, QuotaInv, QuotaTypeOK, Minutes
    <3>3. QED
      BY <2>1, <2>2, <3>1, <3>2
  <2>5. QED
    BY <2>3, <2>4
<1>3. QED
  BY <1>2 DEF RowMatchesCharges, RowsWithinMinute

LEMMA QuotaStep == QuotaInv /\ [QuotaNext]_quotaVars => QuotaInv'
<1> SUFFICES ASSUME QuotaInv, [QuotaNext]_quotaVars PROVE RowMatchesCharges' /\ RowsWithinMinute'
  BY QuotaTypeStep DEF QuotaInv
<1>1. CASE MinutePasses \/ UNCHANGED quotaVars \/ Terminated
  BY <1>1, SameRows DEF MinutePasses, Terminated, quotaVars, CountedIn, ReturnedIn, QuotaInv
<1>2. ASSUME NEW r \in Requests,
             TakeMoment(r) \/ Deny(r) \/ ChargeFault(r) \/ StartWork(r) \/ ForgetRefund(r)
      PROVE  RowMatchesCharges' /\ RowsWithinMinute'
  <2>1. requests' = requests /\ returned' = returned
    BY <1>2 DEF TakeMoment, Deny, ChargeFault, StartWork, ForgetRefund
  <2>2. \A m \in Minutes : ReturnedIn(m)' = ReturnedIn(m)
    BY <2>1 DEF ReturnedIn
  <2>3. ASSUME NEW m \in Minutes PROVE CountedIn(m)' = CountedIn(m)
    BY <1>2 DEF CountedIn, QuotaInv, QuotaTypeOK, TakeMoment, Deny, ChargeFault, StartWork, ForgetRefund
  <2>4. QED
    BY <2>1, <2>2, <2>3, SameRows DEF QuotaInv
<1>3. QED
  BY <1>1, <1>2, ChargeKeepsRows, RefundKeepsRows DEF QuotaNext

\* The usage table accounts for every charge and refund (auth/quota.py).
THEOREM UsageSafe == QuotaSpec => []QuotaInv
  BY QuotaInitInv, QuotaStep, PTL DEF QuotaSpec

\* A row counts its charges, less at most the refunds applied to it (record, refund).
THEOREM RowsMatchCharges == QuotaSpec => []RowMatchesCharges
<1>1. QuotaInv => RowMatchesCharges
  BY DEF QuotaInv
<1>2. QED
  BY <1>1, UsageSafe, PTL

\* What was let through and what was refunded in time are disjoint parts of a row's charges.
LEMMA OverrunFromRows == QuotaInv => OverrunIsLateRefunds
<1> SUFFICES ASSUME QuotaInv, NEW m \in Minutes
             PROVE  Cardinality(AdmittedIn(m)) <= PerMinute + Cardinality(LateInto(m))
  BY DEF OverrunIsLateRefunds
<1> DEFINE OnTime == ReturnedIn(m) \ LateInto(m)
<1>1. /\ AdmittedIn(m) \subseteq Requests /\ OnTime \subseteq Requests
      /\ LateInto(m) \subseteq Requests /\ CountedIn(m) \subseteq Requests
  BY DEF AdmittedIn, ReturnedIn, LateInto, CountedIn
<1>2. /\ AdmittedIn(m) \cup OnTime \subseteq CountedIn(m) /\ AdmittedIn(m) \cap OnTime = {}
      /\ ReturnedIn(m) = OnTime \cup LateInto(m) /\ OnTime \cap LateInto(m) = {}
  BY DEF AdmittedIn, ReturnedIn, LateInto, CountedIn, QuotaInv, QuotaTypeOK, PhaseInv, Minutes
<1> HIDE DEF OnTime
<1>3. /\ IsFiniteSet(AdmittedIn(m)) /\ Cardinality(AdmittedIn(m)) \in Nat
      /\ IsFiniteSet(OnTime) /\ Cardinality(OnTime) \in Nat
      /\ IsFiniteSet(LateInto(m)) /\ Cardinality(LateInto(m)) \in Nat
      /\ IsFiniteSet(CountedIn(m)) /\ Cardinality(CountedIn(m)) \in Nat
  BY <1>1, FiniteCounts
<1>4. Cardinality(AdmittedIn(m) \cup OnTime) = Cardinality(AdmittedIn(m)) + Cardinality(OnTime)
  BY <1>2, <1>3, DisjointUnion
<1>5. Cardinality(AdmittedIn(m) \cup OnTime) <= Cardinality(CountedIn(m))
  BY <1>2, <1>3, FS_Subset
<1>6. Cardinality(ReturnedIn(m)) = Cardinality(OnTime) + Cardinality(LateInto(m))
  BY <1>2, <1>3, DisjointUnion
<1>7. /\ requests[m] \in Nat /\ requests[m] <= PerMinute
      /\ Cardinality(CountedIn(m)) <= requests[m] + Cardinality(ReturnedIn(m))
  BY DEF QuotaInv, QuotaTypeOK, RowMatchesCharges, RowsWithinMinute
<1>8. QED
  BY <1>3, <1>4, <1>5, <1>6, <1>7

\* A minute lets through more than its limit only by the refunds that came too late for
\* the minute they belong to (UsageGuard.check_and_record, refund).
THEOREM OverrunsAreLateRefunds == QuotaSpec => []OverrunIsLateRefunds
  BY UsageSafe, OverrunFromRows, PTL
-----------------------------------------------------------------------------
\* The day's sum of the rows never passes the limit, and lacks at most the refunds that
\* were applied to a row of that day.
CountedInDay(m) ==
  {r \in Requests : moment[r] \in DayOf(m)
                    /\ phase[r] \in {"charged", "working", "refunded", "forgotten"}}
ReturnedInDay(m) == {r \in Requests : returned[r] \in DayOf(m)}

DayRow(m) ==
  /\ DayCount(requests, m) <= PerDay
  /\ Cardinality(CountedInDay(m)) <= DayCount(requests, m) + Cardinality(ReturnedInDay(m))

DayRows == \A m \in Minutes : DayRow(m)

LEMMA DayIsFinite ==
  ASSUME NEW m
  PROVE  IsFiniteSet(DayOf(m)) /\ DayOf(m) \subseteq Minutes
<1>1. IsFiniteSet(Minutes)
  BY FS_Interval DEF Minutes
<1>2. QED
  BY <1>1, FS_Subset DEF DayOf

\* Two minutes of a day have the same day's sum.
LEMMA SameDay ==
  ASSUME NEW m, NEW n \in DayOf(m)
  PROVE  DayOf(n) = DayOf(m)
  BY DEF DayOf

LEMMA DayCountType ==
  ASSUME NEW counts \in [Minutes -> Nat], NEW m
  PROVE  DayCount(counts, m) \in Nat
<1>1. \A n \in DayOf(m) : counts[n] \in Nat
  BY DayIsFinite
<1>2. QED
  BY <1>1, DayIsFinite, SumIsNat DEF DayCount

\* The sum over a day follows a row of that day, and no other row.
LEMMA DayCountOfRow ==
  ASSUME NEW counts \in [Minutes -> Nat], NEW other \in [Minutes -> Nat], NEW n \in Minutes,
         \A x \in Minutes : x # n => other[x] = counts[x], NEW m
  PROVE  DayCount(other, m) = IF n \in DayOf(m) THEN DayCount(counts, m) - counts[n] + other[n]
                              ELSE DayCount(counts, m)
<1> DEFINE D == DayOf(m)
<1>1. /\ IsFiniteSet(D) /\ \A x \in D : counts[x] \in Int /\ other[x] \in Int
      /\ \A x \in D : x # n => other[x] = counts[x]
  BY DayIsFinite
<1>2. /\ DayCount(other, m) = SumFunctionOnSet(other, D)
      /\ DayCount(counts, m) = SumFunctionOnSet(counts, D)
  BY DEF DayCount
<1>3. counts[n] \in Int /\ other[n] \in Int
  OBVIOUS
<1> HIDE DEF D
<1>4. CASE n \in D
  <2>1. IsFiniteSet(D \ {n})
    BY <1>1, FS_Subset
  <2>2. SumFunctionOnSet(other, D) = other[n] + SumFunctionOnSet(other, D \ {n})
    BY <1>1, <1>4, SumRemove
  <2>3. SumFunctionOnSet(counts, D) = counts[n] + SumFunctionOnSet(counts, D \ {n})
    BY <1>1, <1>4, SumRemove
  <2>4. SumFunctionOnSet(other, D \ {n}) = SumFunctionOnSet(counts, D \ {n})
    BY <1>1, <2>1, SumAgrees
  <2>5. SumFunctionOnSet(counts, D \ {n}) \in Int
    BY <1>1, <2>1, SumType
  <2>6. DayCount(other, m) = DayCount(counts, m) - counts[n] + other[n]
    BY <1>1, <1>2, <1>3, <1>4, <2>2, <2>3, <2>4, <2>5
  <2>7. QED
    BY <1>4, <2>6 DEF D
<1>5. CASE n \notin D
  <2>1. SumFunctionOnSet(other, D) = SumFunctionOnSet(counts, D)
    <3>1. \A x \in D : other[x] = counts[x]
      BY <1>1, <1>5
    <3>2. QED
      BY <1>1, <3>1, SumAgrees
  <2>2. QED
    BY <1>2, <1>5, <2>1 DEF D
<1>6. QED
  BY <1>4, <1>5

LEMMA FiniteDays ==
  ASSUME NEW m
  PROVE  /\ IsFiniteSet(CountedInDay(m)) /\ Cardinality(CountedInDay(m)) \in Nat
         /\ IsFiniteSet(ReturnedInDay(m)) /\ Cardinality(ReturnedInDay(m)) \in Nat
<1>1. CountedInDay(m) \subseteq Requests /\ ReturnedInDay(m) \subseteq Requests
  BY DEF CountedInDay, ReturnedInDay
<1>2. QED
  BY <1>1, FiniteCounts

LEMMA InitDayRows == QuotaInit => DayRows
<1> SUFFICES ASSUME QuotaInit, NEW m \in Minutes
             PROVE  DayRow(m)
  BY DEF DayRows
<1>1. CountedInDay(m) = {} /\ 0 \notin DayOf(m)
  BY DEF QuotaInit, CountedInDay, DayOf, Minutes
<1>2. ReturnedInDay(m) = {}
  BY <1>1 DEF QuotaInit, ReturnedInDay
<1>3. DayCount(requests, m) = 0
  <2> DEFINE Sum(S) == SumFunctionOnSet(requests, S)
             Bad == {S \in SUBSET DayOf(m) : Sum(S) # 0}
  <2>1. SUFFICES ASSUME Bad # {}
                 PROVE  FALSE
    BY DEF DayCount
  <2>2. Bad \in SUBSET SUBSET DayOf(m)
    OBVIOUS
  <2> HIDE DEF Bad
  <2>3. PICK S \in Bad : \A U \in Bad : U \subseteq S => U = S
    BY <2>1, <2>2, DayIsFinite, MinimalSubset
  <2>4. S \subseteq DayOf(m) /\ Sum(S) # 0 /\ IsFiniteSet(S)
    BY DayIsFinite, FS_Subset DEF Bad
  <2>5. S # {}
    BY <2>4, SumEmpty
  <2>6. Pick(S) \in S
    BY <2>5, PickIsIn
  <2>7. Sum(S \ {Pick(S)}) = 0
    BY <2>3, <2>4, <2>6 DEF Bad
  <2>8. requests[Pick(S)] = 0
    BY <2>4, <2>6, DayIsFinite DEF QuotaInit
  <2>9. QED
    BY <2>4, <2>5, <2>7, <2>8, SumUnfolds
<1>4. QED
  BY <1>1, <1>2, <1>3, FS_EmptySet, LimitAssumption DEF DayRow

\* A step that changes no row and moves no request into or out of a day.
LEMMA SameDayRows ==
  ASSUME DayRows, requests' = requests,
         \A m \in Minutes : CountedInDay(m)' = CountedInDay(m)
                            /\ ReturnedInDay(m)' = ReturnedInDay(m)
  PROVE  DayRows'
  BY DEF DayRows, DayRow

LEMMA ChargeKeepsDays ==
  ASSUME QuotaInv, DayRows, NEW r \in Requests, Charge(r)
  PROVE  DayRows'
<1> DEFINE more == requests[moment[r]] + 1
<1>1. /\ moment[r] \in Minutes /\ requests[moment[r]] \in Nat
      /\ more = requests[moment[r]] + 1 /\ more \in Nat
      /\ requests' = [requests EXCEPT ![moment[r]] = more]
      /\ DayCount(requests', moment[r]) <= PerDay
      /\ requests \in [Minutes -> Nat]
  BY DEF QuotaInv, QuotaTypeOK, PhaseInv, Charge, Recorded, WithinLimits
<1> SUFFICES ASSUME NEW m \in Minutes
             PROVE  DayRow(m)'
  BY DEF DayRows
<1> HIDE DEF more
<1>7. /\ requests' \in [Minutes -> Nat] /\ requests'[moment[r]] = more
      /\ \A x \in Minutes : x # moment[r] => requests'[x] = requests[x]
  BY <1>1
<1>8. DayCount(requests', m) =
        IF moment[r] \in DayOf(m) THEN DayCount(requests, m) - requests[moment[r]] + requests'[moment[r]]
        ELSE DayCount(requests, m)
  <2> DEFINE after == requests'
             at == moment[r]
  <2>1. /\ requests \in [Minutes -> Nat] /\ after \in [Minutes -> Nat] /\ at \in Minutes
        /\ \A x \in Minutes : x # at => after[x] = requests[x]
    BY <1>1, <1>7
  <2> HIDE DEF after, at
  <2>2. DayCount(after, m) = IF at \in DayOf(m) THEN DayCount(requests, m) - requests[at] + after[at]
                             ELSE DayCount(requests, m)
    BY <2>1, DayCountOfRow
  <2>3. QED
    BY <2>2 DEF after, at
<1>2. DayRow(m) /\ DayCount(requests, m) \in Nat
  BY <1>1, DayCountType DEF DayRows
<1>3. ReturnedInDay(m)' = ReturnedInDay(m)
  BY DEF ReturnedInDay, Charge
<1>4. CASE moment[r] \in DayOf(m)
  <2>1. DayCount(requests', m) = DayCount(requests, m) + 1
    BY <1>1, <1>2, <1>4, <1>7, <1>8
  <2>2. DayCount(requests', m) <= PerDay
    BY <1>1, <1>4, SameDay DEF DayCount
  <2>3. CountedInDay(m)' = CountedInDay(m) \cup {r} /\ r \notin CountedInDay(m)
    BY <1>4 DEF CountedInDay, Charge, QuotaInv, QuotaTypeOK
  <2>4. Cardinality(CountedInDay(m)') = Cardinality(CountedInDay(m)) + 1
    BY <2>3, FiniteDays, FS_AddElement
  <2>5. DayCount(requests, m)' = DayCount(requests', m)
    BY DEF DayCount
  <2>6. QED
    BY <1>2, <1>3, <2>1, <2>2, <2>4, <2>5, FiniteDays DEF DayRow
<1>5. CASE moment[r] \notin DayOf(m)
  <2>1. DayCount(requests', m) = DayCount(requests, m)
    BY <1>5, <1>7, <1>8
  <2>2. CountedInDay(m)' = CountedInDay(m)
    BY <1>5 DEF CountedInDay, Charge, QuotaInv, QuotaTypeOK
  <2>3. DayCount(requests, m)' = DayCount(requests', m)
    BY DEF DayCount
  <2>4. QED
    BY <1>2, <1>3, <2>1, <2>2, <2>3 DEF DayRow
<1>6. QED
  BY <1>4, <1>5

LEMMA RefundKeepsDays ==
  ASSUME QuotaInv, DayRows, NEW r \in Requests, Refund(r)
  PROVE  DayRows'
<1> DEFINE less == IF requests[minute] > 0 THEN requests[minute] - 1 ELSE 0
<1>1. /\ minute \in Minutes /\ minute # 0 /\ returned[r] = 0
      /\ requests[minute] \in Nat /\ less \in Nat
      /\ requests[minute] - 1 <= less /\ less <= requests[minute]
      /\ requests' = [requests EXCEPT ![minute] = less]
      /\ requests \in [Minutes -> Nat]
  BY DEF QuotaInv, QuotaTypeOK, PhaseInv, Refund, Refunded, Minutes
<1> SUFFICES ASSUME NEW m \in Minutes
             PROVE  DayRow(m)'
  BY DEF DayRows
<1> HIDE DEF less
<1>2. DayRow(m) /\ DayCount(requests, m) \in Nat
  BY <1>1, DayCountType DEF DayRows
<1>3. CountedInDay(m)' = CountedInDay(m)
  BY DEF CountedInDay, Refund, QuotaInv, QuotaTypeOK
<1>4. DayCount(requests, m)' = DayCount(requests', m)
  BY DEF DayCount
<1>8. /\ requests' \in [Minutes -> Nat] /\ requests'[minute] = less
      /\ \A x \in Minutes : x # minute => requests'[x] = requests[x]
  BY <1>1
<1>9. DayCount(requests', m) =
        IF minute \in DayOf(m) THEN DayCount(requests, m) - requests[minute] + requests'[minute]
        ELSE DayCount(requests, m)
  <2> DEFINE after == requests'
  <2>1. /\ requests \in [Minutes -> Nat] /\ after \in [Minutes -> Nat] /\ minute \in Minutes
        /\ \A x \in Minutes : x # minute => after[x] = requests[x]
    BY <1>1, <1>8
  <2> HIDE DEF after
  <2>2. DayCount(after, m) = IF minute \in DayOf(m) THEN DayCount(requests, m) - requests[minute] + after[minute]
                             ELSE DayCount(requests, m)
    BY <2>1, DayCountOfRow
  <2>3. QED
    BY <2>2 DEF after
<1>5. CASE minute \in DayOf(m)
  <2>1. DayCount(requests', m) = DayCount(requests, m) - requests[minute] + less
    BY <1>5, <1>8, <1>9
  <2>2. /\ DayCount(requests, m) <= DayCount(requests', m) + 1
        /\ DayCount(requests', m) <= DayCount(requests, m)
        /\ DayCount(requests', m) \in Int
    BY <1>1, <1>2, <2>1
  <2>3. ReturnedInDay(m)' = ReturnedInDay(m) \cup {r} /\ r \notin ReturnedInDay(m)
    BY <1>1, <1>5 DEF ReturnedInDay, Refund, QuotaInv, QuotaTypeOK, DayOf, Minutes
  <2>4. Cardinality(ReturnedInDay(m)') = Cardinality(ReturnedInDay(m)) + 1
    BY <2>3, FiniteDays, FS_AddElement
  <2>5. QED
    BY <1>2, <1>3, <1>4, <2>2, <2>4, FiniteDays, LimitAssumption DEF DayRow
<1>6. CASE minute \notin DayOf(m)
  <2>1. DayCount(requests', m) = DayCount(requests, m)
    BY <1>6, <1>8, <1>9
  <2>2. ReturnedInDay(m)' = ReturnedInDay(m)
    BY <1>1, <1>6 DEF ReturnedInDay, Refund, QuotaInv, QuotaTypeOK, DayOf, Minutes
  <2>3. QED
    BY <1>2, <1>3, <1>4, <2>1, <2>2 DEF DayRow
<1>7. QED
  BY <1>5, <1>6

LEMMA StepDayRows == QuotaInv /\ DayRows /\ [QuotaNext]_quotaVars => DayRows'
<1> SUFFICES ASSUME QuotaInv, DayRows, [QuotaNext]_quotaVars PROVE DayRows'
  OBVIOUS
<1>1. CASE MinutePasses \/ UNCHANGED quotaVars \/ Terminated
  BY <1>1, SameDayRows DEF MinutePasses, Terminated, quotaVars, CountedInDay, ReturnedInDay
<1>2. ASSUME NEW r \in Requests,
             TakeMoment(r) \/ Deny(r) \/ ChargeFault(r) \/ StartWork(r) \/ ForgetRefund(r)
      PROVE  DayRows'
  <2>1. requests' = requests /\ returned' = returned
    BY <1>2 DEF TakeMoment, Deny, ChargeFault, StartWork, ForgetRefund
  <2>2. \A m \in Minutes : ReturnedInDay(m)' = ReturnedInDay(m)
    BY <2>1 DEF ReturnedInDay
  <2>3. ASSUME NEW m \in Minutes PROVE CountedInDay(m)' = CountedInDay(m)
    BY <1>2 DEF CountedInDay, QuotaInv, QuotaTypeOK, TakeMoment, Deny, ChargeFault, StartWork,
                ForgetRefund
  <2>4. QED
    BY <2>1, <2>2, <2>3, SameDayRows
<1>3. QED
  BY <1>1, <1>2, ChargeKeepsDays, RefundKeepsDays DEF QuotaNext

LEMMA DayOverrunFromRows == QuotaInv /\ DayRows => DayOverrunIsLateRefunds
<1> DEFINE LetIn(m) == {r \in Requests : \E n \in DayOf(m) : r \in AdmittedIn(n)}
           Late(m) == {r \in Requests :
                         \E n \in DayOf(m) : r \in ReturnedIn(n) /\ Day(moment[r]) # Day(m)}
           OnTime(m) == ReturnedInDay(m) \ Late(m)
<1> SUFFICES ASSUME QuotaInv, DayRows, NEW m \in Minutes
             PROVE  Cardinality(LetIn(m)) <= PerDay + Cardinality(Late(m))
  BY DEF DayOverrunIsLateRefunds
<1>1. /\ LetIn(m) \subseteq Requests /\ OnTime(m) \subseteq Requests
      /\ Late(m) \subseteq Requests
  BY DEF ReturnedInDay
<1>2. LetIn(m) \subseteq CountedInDay(m)
  BY DEF AdmittedIn, CountedInDay
<1>3. OnTime(m) \subseteq CountedInDay(m)
  <2> SUFFICES ASSUME NEW r \in OnTime(m)
               PROVE  r \in CountedInDay(m)
    OBVIOUS
  <2>1. r \in Requests /\ returned[r] \in DayOf(m) /\ r \notin Late(m)
    BY DEF ReturnedInDay
  <2>2. returned[r] # 0 /\ Day(moment[r]) = Day(m)
    BY <2>1 DEF ReturnedIn, DayOf, Minutes
  <2>3. phase[r] = "refunded" /\ moment[r] \in Minutes
    BY <2>1, <2>2 DEF QuotaInv, QuotaTypeOK, PhaseInv
  <2>4. QED
    BY <2>1, <2>2, <2>3 DEF CountedInDay, DayOf
<1>4. LetIn(m) \cap OnTime(m) = {}
  BY DEF AdmittedIn, ReturnedInDay, QuotaInv, PhaseInv, DayOf, Minutes
<1>5. ReturnedInDay(m) = OnTime(m) \cup Late(m) /\ OnTime(m) \cap Late(m) = {}
  BY DEF ReturnedInDay, ReturnedIn
<1> HIDE DEF LetIn, Late, OnTime
<1>6. /\ IsFiniteSet(LetIn(m)) /\ Cardinality(LetIn(m)) \in Nat
      /\ IsFiniteSet(OnTime(m)) /\ Cardinality(OnTime(m)) \in Nat
      /\ IsFiniteSet(Late(m)) /\ Cardinality(Late(m)) \in Nat
  BY <1>1, FiniteCounts
<1>7. Cardinality(LetIn(m) \cup OnTime(m)) = Cardinality(LetIn(m)) + Cardinality(OnTime(m))
  BY <1>4, <1>6, DisjointUnion
<1>8. Cardinality(LetIn(m) \cup OnTime(m)) <= Cardinality(CountedInDay(m))
  BY <1>2, <1>3, FiniteDays, FS_Subset
<1>9. Cardinality(ReturnedInDay(m)) = Cardinality(OnTime(m)) + Cardinality(Late(m))
  BY <1>5, <1>6, DisjointUnion
<1>10. DayRow(m) /\ DayCount(requests, m) \in Nat
  BY DayCountType DEF DayRows, QuotaInv, QuotaTypeOK
<1>11. QED
  BY <1>6, <1>7, <1>8, <1>9, <1>10, FiniteDays, LimitAssumption DEF DayRow

\* A day lets through more than its limit only by the refunds of other days' charges that
\* were applied to its rows (UsageGuard.check_and_record, refund).
THEOREM DayOverrunsAreLateRefunds == QuotaSpec => []DayOverrunIsLateRefunds
  BY UsageSafe, InitDayRows, StepDayRows, DayOverrunFromRows, PTL DEF QuotaSpec
-----------------------------------------------------------------------------
(* The workspace of a conversation.                                                   *)
USE LimitsAssumption, OwnersAssumption

CallRecords == [owner : Owners \cup {NoOwner}, type : Types, query : Queries \cup {NoQuery},
                run : Nat, seen : Nat, moment : Nat, made : Nat, hit : SUBSET Rows]
Stamped == {"get", "put"}   \* steps at which a call holds a moment it has read

\* A call under way has an owner and a query; the index it has seen is not ahead of what
\* there is, and what it has produced is not behind what it has seen.
CallInv ==
  \A c \in Calls :
    /\ pc[c] # "idle" => call[c].owner \in Owners /\ call[c].query \in Queries
    /\ call[c].seen <= Index(call[c].type)
    /\ pc[c] = "put" => call[c].made >= call[c].seen
    /\ pc[c] # "hit" => call[c].hit = {}

\* Rows are finitely many, belong to the owner of the conversation that is there, and are
\* no older than the structure their key names.
RowInv ==
  /\ IsFiniteSet(DOMAIN rows)
  /\ \A k \in DOMAIN rows : rows[k].owner = conversation.owner /\ rows[k].made >= k.structure

\* No two readings of the clock give the same stamp: the moment a call holds is neither
\* another call's nor the last use of a row.
StampInv ==
  /\ \A k \in DOMAIN rows : rows[k].used <= clock
  /\ \A c \in Calls : pc[c] \in Stamped =>
       /\ call[c].moment <= clock
       /\ \A k \in DOMAIN rows : rows[k].used # call[c].moment
       /\ \A d \in Calls : pc[d] \in Stamped /\ call[d].moment = call[c].moment => d = c

IInv ==
  /\ TypeOK /\ CallInv /\ RowInv /\ StampInv
  /\ WorkspaceBounded /\ HitsStayWithOwner /\ HitsAreNotStale
-----------------------------------------------------------------------------
(* What fits.                                                              *)

LEMMA BytesAreSum ==
  ASSUME NEW r, NEW S
  PROVE  Bytes(r, S) = SumFunctionOnSet([k \in S |-> r[k].size], S)
  BY DEF Bytes, MapThenSumSet, SumFunctionOnSet, FoldFunctionOnSet, MapThenFoldSet

LEMMA FitsPart ==
  ASSUME NEW r, NEW S, IsFiniteSet(S), \A k \in S : r[k].size \in Nat,
         Fits(r, S), NEW T \in SUBSET S
  PROVE  Fits(r, T)
<1>1. /\ IsFiniteSet(T) /\ Cardinality(T) <= Cardinality(S)
      /\ Cardinality(S) \in Nat /\ Cardinality(T) \in Nat
  BY FS_Subset, FS_CardinalityType
<1> DEFINE f == [k \in S |-> r[k].size]
           g == [k \in T |-> r[k].size]
<1>2. SumFunctionOnSet(f, T) <= SumFunctionOnSet(f, S)
  <2>1. \A k \in S : f[k] \in Nat
    OBVIOUS
  <2> HIDE DEF f
  <2> QED
    BY <2>1, SumOfPart
<1>3. SumFunctionOnSet(g, T) = SumFunctionOnSet(f, T)
  <2>1. \A k \in T : g[k] = f[k]
    OBVIOUS
  <2> HIDE DEF f, g
  <2> QED
    BY <1>1, <2>1, SumAgrees
<1>4. SumFunctionOnSet(f, S) \in Nat /\ SumFunctionOnSet(g, T) \in Nat
  <2>1. (\A k \in S : f[k] \in Nat) /\ (\A k \in T : g[k] \in Nat)
    OBVIOUS
  <2> HIDE DEF f, g
  <2> QED
    BY <1>1, <2>1, SumIsNat
<1>5. Bytes(r, T) = SumFunctionOnSet(g, T) /\ Bytes(r, S) = SumFunctionOnSet(f, S)
  BY BytesAreSum
<1> HIDE DEF f, g
<1>6. Bytes(r, T) <= Bytes(r, S) /\ Bytes(r, T) \in Nat /\ Bytes(r, S) \in Nat
  BY <1>2, <1>3, <1>4, <1>5
<1> QED
  BY <1>1, <1>6 DEF Fits

LEMMA FitsSame ==
  ASSUME NEW r, NEW q, NEW S, IsFiniteSet(S), \A k \in S : r[k].size = q[k].size, Fits(r, S)
  PROVE  Fits(q, S)
<1> DEFINE f == [k \in S |-> r[k].size]
           g == [k \in S |-> q[k].size]
<1>1. f = g
  OBVIOUS
<1>2. Bytes(r, S) = SumFunctionOnSet(f, S) /\ Bytes(q, S) = SumFunctionOnSet(g, S)
  BY BytesAreSum
<1> HIDE DEF f, g
<1> QED
  BY <1>1, <1>2 DEF Fits

LEMMA FitsNone ==
  ASSUME NEW r
  PROVE  Fits(r, {})
<1>1. Bytes(r, {}) = 0
  BY BytesAreSum, SumEmpty
<1> QED
  BY <1>1, FS_EmptySet DEF Fits

LEMMA SizeBound == \A size \in Sizes : size \in Nat /\ size <= MaxBytes
  BY DEF LimitsAssumption

LEMMA FitsAlone ==
  ASSUME NEW r, NEW k, r[k].size \in Sizes
  PROVE  Fits(r, {k})
<1> DEFINE f == [j \in {k} |-> r[j].size]
<1>1. IsFiniteSet({k}) /\ Cardinality({k}) = 1
  BY FS_Singleton, Zenon
<1>2. f[k] = r[k].size /\ \A j \in {k} : f[j] \in Int
  <2>1. \A s \in Sizes : s \in Int
    BY SizeBound
  <2>2. r[k].size \in Int
    BY <2>1, Zenon
  <2> QED
    BY <2>2, Zenon
<1>3. Bytes(r, {k}) = SumFunctionOnSet(f, {k})
  BY BytesAreSum
<1> HIDE DEF f
<1>4. SumFunctionOnSet(f, {k}) = f[k] + SumFunctionOnSet(f, {k} \ {k})
  BY <1>1, <1>2, SumRemove
<1>5. SumFunctionOnSet(f, {k} \ {k}) = 0
  <2>1. {k} \ {k} = {}
    OBVIOUS
  <2> QED
    BY <2>1, SumEmpty
<1>6. Bytes(r, {k}) = r[k].size
  BY <1>2, <1>3, <1>4, <1>5
<1>7. Cardinality({k}) <= MaxItems
  BY <1>1 DEF LimitsAssumption
<1>8. Bytes(r, {k}) <= MaxBytes
  BY <1>6, SizeBound
<1> QED
  BY <1>7, <1>8 DEF Fits

(* The eviction of put_bounded leaves no more than both limits allow: what *)
(* is kept was, as a whole, used no earlier than its least recently used   *)
(* row, which fits with all of those.                                      *)
LEMMA KeptFits ==
  ASSUME NEW r, IsFiniteSet(DOMAIN r),
         \A k \in DOMAIN r : r[k].size \in Nat /\ r[k].used \in Nat
  PROVE  Fits(r, Kept(r))
<1>1. CASE Kept(r) = {}
  BY <1>1, FitsNone
<1>2. CASE Kept(r) # {}
  <2> DEFINE stamps == {r[k].used : k \in Kept(r)}
  <2>1. Kept(r) \subseteq DOMAIN r
    BY DEF Kept
  <2>2. \E n \in stamps : \A m \in stamps : n <= m
    <3>1. stamps \subseteq Nat /\ stamps # {}
      BY <1>2, <2>1
    <3> HIDE DEF stamps
    <3> QED
      BY <3>1, LeastNat
  <2>3. PICK k \in Kept(r) : \A j \in Kept(r) : r[k].used <= r[j].used
    BY <2>2
  <2> DEFINE U == {j \in DOMAIN r : r[j].used >= r[k].used}
  <2>4. Fits(r, U)
    BY <2>3 DEF Kept
  <2>5. Kept(r) \subseteq U
    BY <2>1, <2>3
  <2>6. IsFiniteSet(U) /\ \A j \in U : r[j].size \in Nat
    BY FS_Subset
  <2> HIDE DEF U
  <2> QED
    BY <2>4, <2>5, <2>6, FitsPart
<1> QED
  BY <1>1, <1>2
-----------------------------------------------------------------------------
(* What the actions make of the rows.                                      *)

LEMMA WithoutRows ==
  ASSUME NEW f, NEW gone
  PROVE  /\ DOMAIN Without(f, gone) = DOMAIN f \ gone
         /\ \A k \in DOMAIN f \ gone : Without(f, gone)[k] = f[k]
  BY DEF Without, Restrict

LEMMA KeyType ==
  ASSUME TypeOK, CallInv, NEW c \in Calls, pc[c] # "idle"
  PROVE  KeyOf(c) \in ResourceKeys
  BY DEF TypeOK, CallInv, KeyOf, Key, ResourceKeys

LEMMA StoredRows ==
  ASSUME IInv, NEW c \in Calls, pc[c] = "put", NEW size \in Sizes, NEW stored,
         stored = Upserted(Without(rows, Purged(call[c].moment)), c, size)
  PROVE  /\ DOMAIN stored \subseteq DOMAIN rows \cup {KeyOf(c)}
         /\ KeyOf(c) \in DOMAIN stored
         /\ \A k \in DOMAIN stored : k # KeyOf(c) => k \in DOMAIN rows /\ stored[k] = rows[k]
         /\ stored[KeyOf(c)] \in Rows
         /\ stored[KeyOf(c)].owner = call[c].owner
         /\ stored[KeyOf(c)].made = call[c].made
         /\ stored[KeyOf(c)].size = size
         /\ stored[KeyOf(c)].used = call[c].moment
         /\ IsFiniteSet(DOMAIN stored)
<1> DEFINE old == Without(rows, Purged(call[c].moment))
           key == KeyOf(c)
           created == IF key \in DOMAIN old THEN old[key].created ELSE call[c].moment
           new == [owner |-> call[c].owner, made |-> call[c].made, size |-> size,
                   created |-> created, used |-> call[c].moment,
                   expires |-> call[c].moment + Ttl(key)]
<1>1. DOMAIN old \subseteq DOMAIN rows /\ \A k \in DOMAIN old : old[k] = rows[k]
  BY DEF Without, Restrict
<1>2. stored = [k \in DOMAIN old \cup {key} |-> IF k # key THEN old[k] ELSE new]
  BY DEF Upserted
<1>3. /\ call[c].owner \in Owners /\ call[c].made \in Nat /\ call[c].moment \in Nat
      /\ Ttl(key) \in Nat
  BY DEF IInv, TypeOK, CallInv, Ttl
<1>4. created \in Nat
  BY <1>1, <1>3 DEF IInv, TypeOK, Rows
<1>5. new \in Rows
  <2> HIDE DEF created, key
  <2> QED
    BY <1>3, <1>4 DEF Rows
<1>6. /\ new.owner = call[c].owner /\ new.made = call[c].made
      /\ new.size = size /\ new.used = call[c].moment
  OBVIOUS
<1>7. IsFiniteSet(DOMAIN rows \cup {key})
  BY FS_AddElement DEF IInv, RowInv
<1> HIDE DEF old, key, new
<1>8. DOMAIN stored = DOMAIN old \cup {key} /\ stored[key] = new
  BY <1>2
<1>9. \A k \in DOMAIN stored : k # key => k \in DOMAIN old /\ stored[k] = old[k]
  BY <1>2
<1>10. IsFiniteSet(DOMAIN stored)
  BY <1>1, <1>7, <1>8, FS_Subset
<1> QED
  BY <1>1, <1>5, <1>6, <1>8, <1>9, <1>10 DEF key
-----------------------------------------------------------------------------
(* Calls: what they hold.                                                  *)
CallsTyped ==
  /\ clock \in Nat /\ applied \in Nat /\ latest \in [run : Nat, stamp : Nat]
  /\ building \in [Builds -> Int]
  /\ pc \in [Calls -> {"idle", "snapshot", "lookup", "get", "hit", "produce", "put"}]
  /\ call \in [Calls -> CallRecords]

CallsOK == CallsTyped /\ CallInv /\ HitsStayWithOwner /\ HitsAreNotStale

LEMMA CallsAreOK == IInv => CallsOK
  BY DEF IInv, TypeOK, CallsOK, CallsTyped, CallRecords

\* a record that a call may hold at a step
Holds(made, to) ==
  /\ made \in CallRecords
  /\ to \in {"idle", "snapshot", "lookup", "get", "hit", "produce", "put"}
  /\ to # "idle" => made.owner \in Owners /\ made.query \in Queries
  /\ made.seen <= Index(made.type)
  /\ to = "put" => made.made >= made.seen
  /\ to # "hit" => made.hit = {}
  /\ \A row \in made.hit : row.owner = made.owner /\ row.made >= made.seen

\* a call goes on with such a record, and nothing else of it changes
LEMMA CallGoesOn ==
  ASSUME CallsOK, NEW c \in Calls, NEW to, NEW made, Holds(made, to),
         pc' = [pc EXCEPT ![c] = to], call' = [call EXCEPT ![c] = made],
         clock' \in Nat, UNCHANGED index
  PROVE  CallsOK'
<1> USE DEF Holds
<1>1. CallsTyped'
  BY DEF CallsOK, CallsTyped, index
<1>2. \A d \in Calls : d # c => pc'[d] = pc[d] /\ call'[d] = call[d]
  BY DEF CallsOK, CallsTyped
<1>3. pc'[c] = to /\ call'[c] = made
  BY DEF CallsOK, CallsTyped
<1>4. \A type \in Types : Index(type)' = Index(type)
  BY DEF Index, index
<1>5. CallInv'
  BY <1>2, <1>3, <1>4 DEF CallsOK, CallInv, CallsTyped, CallRecords, Index, index
<1>6. HitsStayWithOwner' /\ HitsAreNotStale'
  BY <1>2, <1>3 DEF CallsOK, HitsStayWithOwner, HitsAreNotStale
<1> QED
  BY <1>1, <1>5, <1>6 DEF CallsOK

LEMMA CallEnds ==
  ASSUME CallsOK, NEW c \in Calls, NEW from, Ends(c, from), clock' \in Nat, UNCHANGED index
  PROVE  CallsOK'
<1>1. /\ pc' = [pc EXCEPT ![c] = "idle"] /\ call' = [call EXCEPT ![c] = NoUse]
  BY DEF Ends, Goes
<1>2. Holds(NoUse, "idle")
  BY DEF Holds, NoUse, CallRecords, NoRun, NoQuery, Types, Index
<1> QED
  BY <1>1, <1>2, CallGoesOn

\* the step of a call that keeps who asked, for what, and on which index
LEMMA StepKeepsUse ==
  ASSUME CallsOK, NEW c \in Calls, pc[c] \notin {"idle", "hit"}, NEW made \in CallRecords,
         made.owner = call[c].owner, made.query = call[c].query, made.type = call[c].type,
         made.seen = call[c].seen, made.hit = call[c].hit,
         NEW to \in {"lookup", "get", "produce", "put"},
         to = "put" => made.made >= made.seen,
         pc' = [pc EXCEPT ![c] = to], call' = [call EXCEPT ![c] = made],
         clock' \in Nat, UNCHANGED index
  PROVE  CallsOK'
<1>1. /\ call[c].hit = {} /\ call[c].owner \in Owners /\ call[c].query \in Queries
      /\ call[c].seen <= Index(call[c].type)
  BY DEF CallsOK, CallInv
<1>2. Holds(made, to)
  BY <1>1 DEF Holds
<1> QED
  BY <1>2, CallGoesOn

LEMMA CallStep ==
  ASSUME IInv, [Next]_vars
  PROVE  CallsOK'
<1>1. CallsOK
  BY CallsAreOK
<1>2. /\ clock \in Nat /\ applied \in Nat
      /\ \A c \in Calls : call[c] \in CallRecords /\ call[c].seen <= Index(call[c].type)
  BY <1>1 DEF CallsOK, CallsTyped, CallInv
<1>4. ReadsClock => clock' \in Nat
  BY <1>2 DEF ReadsClock
<1>5. CASE UNCHANGED <<pc, call, index>> /\ clock' \in Nat
  <2>1. CallsTyped'
    BY <1>1, <1>5 DEF CallsOK, CallsTyped, index
  <2> QED
    BY <1>1, <1>5, <2>1 DEF CallsOK, CallInv, HitsStayWithOwner, HitsAreNotStale, Index, index
<1>6. ASSUME NEW b \in Builds, BuildReadsClock(b)
      PROVE  CallsOK'
  <2>1. UNCHANGED <<pc, call, applied, latest>> /\ clock' \in Nat
    BY <1>4, <1>6 DEF BuildReadsClock
  <2>2. building' \in [Builds -> Int]
    BY <1>1, <1>2, <1>6 DEF BuildReadsClock, CallsOK, CallsTyped
  <2> QED
    BY <1>1, <2>1, <2>2 DEF CallsOK, CallsTyped, CallInv, HitsStayWithOwner, HitsAreNotStale, Index
<1>7. ASSUME NEW b \in Builds, BuildApplies(b)
      PROVE  CallsOK'
  <2>1. UNCHANGED <<pc, call, clock>> /\ applied' = applied + 1
    BY <1>7 DEF BuildApplies
  <2>2. building' \in [Builds -> Int]
    BY <1>1, <1>7 DEF BuildApplies, CallsOK, CallsTyped
  <2>3. latest' \in [run : Nat, stamp : Nat]
    BY <1>1, <1>2, <1>7 DEF BuildApplies, CallsOK, CallsTyped
  <2>4. CallInv'
    <3> SUFFICES ASSUME NEW c \in Calls
                 PROVE  CallInv!(c)'
      BY DEF CallInv
    <3>1. call[c].seen \in Nat /\ call[c].seen <= Index(call[c].type)
      BY <1>2 DEF CallRecords
    <3>2. call[c].seen <= Index(call[c].type)'
      BY <1>2, <2>1, <3>1 DEF Index
    <3> QED
      BY <1>1, <2>1, <3>2 DEF CallsOK, CallInv
  <2>5. CallsTyped'
    BY <1>1, <1>2, <2>1, <2>2, <2>3 DEF CallsOK, CallsTyped
  <2> QED
    BY <1>1, <2>1, <2>4, <2>5 DEF CallsOK, HitsStayWithOwner, HitsAreNotStale
<1>8. ASSUME NEW c \in Calls, NEW type \in Types, NEW query \in Queries, Bind(c, type, query)
      PROVE  CallsOK'
  <2> DEFINE made == [NoUse EXCEPT !.owner = conversation.owner, !.type = type,
                                   !.query = query, !.seen = Index(type)]
             to == IF type = "personal" THEN "snapshot" ELSE "lookup"
  <2>1. conversation.owner \in Owners
    BY <1>8 DEF Bind, IInv, TypeOK
  <2>2. Index(type) \in Nat
    BY <1>2 DEF Index
  <2>3. NoUse \in CallRecords /\ NoUse.hit = {}
    BY DEF NoUse, CallRecords, NoRun, NoQuery, Types
  <2>4. pc' = [pc EXCEPT ![c] = to] /\ call' = [call EXCEPT ![c] = made]
    BY <1>8 DEF Bind, Goes
  <2>5. clock' \in Nat /\ UNCHANGED index
    BY <1>2, <1>8 DEF Bind
  <2>6. to \in {"snapshot", "lookup"}
    OBVIOUS
  <2>7. /\ made \in CallRecords /\ made.owner = conversation.owner /\ made.query = query
        /\ made.seen = Index(type) /\ made.type = type /\ made.hit = {}
    <3> DEFINE owner == conversation.owner
               seen == Index(type)
    <3>1. made = [NoUse EXCEPT !.owner = owner, !.type = type, !.query = query, !.seen = seen]
      OBVIOUS
    <3>2. owner \in Owners /\ seen \in Nat
      BY <2>1, <2>2
    <3> HIDE DEF made, owner, seen
    <3>3. /\ made \in CallRecords /\ made.owner = owner /\ made.query = query
          /\ made.seen = seen /\ made.type = type /\ made.hit = NoUse.hit
      BY <2>3, <3>1, <3>2 DEF CallRecords
    <3> QED
      BY <2>3, <3>3 DEF owner, seen
  <2> HIDE DEF made, to
  <2>8. Holds(made, to)
    BY <2>1, <2>2, <2>6, <2>7 DEF Holds
  <2> QED
    BY <1>1, <2>4, <2>5, <2>8, CallGoesOn
<1>9. ASSUME NEW c \in Calls, TakeSnapshot(c)
      PROVE  CallsOK'
  <2> DEFINE made == [call[c] EXCEPT !.run = latest.run]
  <2>1. /\ pc[c] = "snapshot" /\ pc' = [pc EXCEPT ![c] = "lookup"]
        /\ call' = [call EXCEPT ![c] = made]
        /\ clock' \in Nat /\ UNCHANGED index
    BY <1>2, <1>9 DEF TakeSnapshot, Goes
  <2>2. /\ made \in CallRecords /\ made.owner = call[c].owner /\ made.query = call[c].query
        /\ made.seen = call[c].seen /\ made.type = call[c].type /\ made.hit = call[c].hit
    BY <1>1, <1>2 DEF CallRecords, CallsOK, CallsTyped
  <2> HIDE DEF made
  <2> QED
    BY <1>1, <2>1, <2>2, StepKeepsUse
<1>10. ASSUME NEW c \in Calls, LookupReadsClock(c)
       PROVE  CallsOK'
  <2> DEFINE made == [call[c] EXCEPT !.moment = clock + 1]
  <2>1. /\ pc[c] = "lookup" /\ pc' = [pc EXCEPT ![c] = "get"]
        /\ call' = [call EXCEPT ![c] = made]
        /\ clock' \in Nat /\ UNCHANGED index
    BY <1>4, <1>10 DEF LookupReadsClock, Goes
  <2>2. /\ made \in CallRecords /\ made.owner = call[c].owner /\ made.query = call[c].query
        /\ made.seen = call[c].seen /\ made.type = call[c].type /\ made.hit = call[c].hit
    BY <1>2 DEF CallRecords
  <2> HIDE DEF made
  <2> QED
    BY <1>1, <2>1, <2>2, StepKeepsUse
<1>11. ASSUME NEW c \in Calls, Hit(c)
       PROVE  CallsOK'
  <2> DEFINE row == rows[KeyOf(c)]
             made == [call[c] EXCEPT !.hit = {row}, !.moment = 0]
  <2>1. /\ pc[c] = "get" /\ pc' = [pc EXCEPT ![c] = "hit"]
        /\ call' = [call EXCEPT ![c] = made]
        /\ clock' \in Nat /\ UNCHANGED index
    BY <1>2, <1>11 DEF Hit, Goes
  <2>2. KeyOf(c) \in DOMAIN rows /\ conversation.owner = call[c].owner
    BY <1>11 DEF Hit, Found
  <2>3. row \in Rows /\ row.owner = call[c].owner /\ row.made >= KeyOf(c).structure
    BY <2>2 DEF IInv, TypeOK, RowInv
  <2>4. KeyOf(c).structure = call[c].seen
    BY DEF KeyOf, Key
  <2> HIDE DEF row
  <2>5. /\ made \in CallRecords /\ made.owner = call[c].owner /\ made.query = call[c].query
        /\ made.seen = call[c].seen /\ made.type = call[c].type /\ made.hit = {row}
    BY <1>2, <2>3 DEF CallRecords
  <2>6. call[c].owner \in Owners /\ call[c].query \in Queries
    BY <1>1, <2>1 DEF CallsOK, CallInv
  <2> HIDE DEF made
  <2>7. Holds(made, "hit")
    BY <1>2, <2>3, <2>4, <2>5, <2>6 DEF Holds
  <2> QED
    BY <1>1, <2>1, <2>7, CallGoesOn
<1>12. ASSUME NEW c \in Calls, Expired(c) \/ Miss(c)
       PROVE  CallsOK'
  <2> DEFINE made == [call[c] EXCEPT !.moment = 0]
  <2>1. /\ pc[c] = "get" /\ pc' = [pc EXCEPT ![c] = "produce"]
        /\ call' = [call EXCEPT ![c] = made]
        /\ clock' \in Nat /\ UNCHANGED index
    BY <1>2, <1>12 DEF Expired, Miss, Goes
  <2>2. /\ made \in CallRecords /\ made.owner = call[c].owner /\ made.query = call[c].query
        /\ made.seen = call[c].seen /\ made.type = call[c].type /\ made.hit = call[c].hit
    BY <1>2 DEF CallRecords
  <2> HIDE DEF made
  <2> QED
    BY <1>1, <2>1, <2>2, StepKeepsUse
<1>13. ASSUME NEW c \in Calls, LookupFails(c)
       PROVE  CallsOK'
  <2>1. /\ pc[c] = "lookup" /\ pc' = [pc EXCEPT ![c] = "produce"]
        /\ call' = [call EXCEPT ![c] = call[c]]
        /\ clock' \in Nat /\ UNCHANGED index
    BY <1>1, <1>2, <1>13 DEF LookupFails, Goes, CallsOK, CallsTyped
  <2> QED
    BY <1>1, <1>2, <2>1, StepKeepsUse
<1>14. ASSUME NEW c \in Calls, Produce(c)
       PROVE  CallsOK'
  <2> DEFINE seen == Index(call[c].type)
             made == [call[c] EXCEPT !.made = seen, !.moment = clock + 1]
  <2>1. /\ pc[c] = "produce" /\ pc' = [pc EXCEPT ![c] = "put"]
        /\ call' = [call EXCEPT ![c] = made]
        /\ clock' \in Nat /\ UNCHANGED index
    BY <1>4, <1>14 DEF Produce, Goes
  <2>2. seen \in Nat /\ call[c].seen <= seen
    BY <1>2 DEF Index
  <2> HIDE DEF seen
  <2>3. /\ made \in CallRecords /\ made.owner = call[c].owner /\ made.query = call[c].query
        /\ made.seen = call[c].seen /\ made.type = call[c].type /\ made.hit = call[c].hit
        /\ made.made = seen
    <3> DEFINE read == clock + 1
    <3>1. made = [call[c] EXCEPT !.made = seen, !.moment = read]
      OBVIOUS
    <3>2. call[c] \in CallRecords /\ read \in Nat
      BY <1>2
    <3> HIDE DEF made, read
    <3> QED
      BY <2>2, <3>1, <3>2 DEF CallRecords
  <2> HIDE DEF made
  <2>4. made.made >= made.seen
    BY <2>2, <2>3 DEF CallRecords
  <2> QED
    BY <1>1, <2>1, <2>3, <2>4, StepKeepsUse
<1>15. ASSUME NEW c \in Calls,
              \/ NoSnapshot(c) \/ Reused(c) \/ NotStored(c) \/ StoreFails(c)
              \/ \E size \in Sizes : Put(c, size)
       PROVE  CallsOK'
  <2>1. \E from : Ends(c, from)
    BY <1>15 DEF NoSnapshot, Reused, NotStored, StoreFails, Put
  <2>2. clock' \in Nat /\ UNCHANGED index
    BY <1>2, <1>15 DEF NoSnapshot, Reused, NotStored, StoreFails, Put
  <2> QED
    BY <1>1, <2>1, <2>2, CallEnds
<1>16. CASE Tick \/ DeleteConversation \/ (\E o \in Owners : CreateConversation(o))
            \/ UNCHANGED vars
  <2>1. UNCHANGED <<pc, call, index>> /\ clock' \in Nat
    BY <1>2, <1>4, <1>16 DEF Tick, DeleteConversation, CreateConversation, vars, index
  <2> QED
    BY <1>5, <2>1
<1> QED
  BY <1>6, <1>7, <1>8, <1>9, <1>10, <1>11, <1>12, <1>13, <1>14, <1>15, <1>16 DEF Next, Use
-----------------------------------------------------------------------------
(* Rows: whose they are, how old, and how many.                            *)
RowsTyped ==
  /\ conversation \in [owner : Owners \cup {NoOwner}, life : Nat]
  /\ DOMAIN rows \subseteq ResourceKeys /\ \A k \in DOMAIN rows : rows[k] \in Rows
  /\ conversation.owner = NoOwner => DOMAIN rows = {}

RowsOK == RowsTyped /\ RowInv /\ WorkspaceBounded

LEMMA RowsAreOK == IInv => RowsOK
  BY DEF IInv, TypeOK, RowsOK, RowsTyped

LEMMA RowSizes == ASSUME NEW row \in Rows PROVE row.size \in Nat /\ row.used \in Nat
  BY SizeBound DEF Rows

\* rows that go, or are used, leave the rest as it was
LEMMA RowsShrink ==
  ASSUME RowsOK, UNCHANGED conversation, DOMAIN rows' \subseteq DOMAIN rows,
         \A k \in DOMAIN rows' :
           /\ rows'[k] \in Rows /\ rows'[k].owner = rows[k].owner
           /\ rows'[k].made = rows[k].made /\ rows'[k].size = rows[k].size
  PROVE  RowsOK'
<1>1. RowsTyped'
  BY DEF RowsOK, RowsTyped
<1>2. IsFiniteSet(DOMAIN rows) /\ IsFiniteSet(DOMAIN rows')
  BY FS_Subset DEF RowsOK, RowInv
<1>3. RowInv'
  BY <1>2 DEF RowsOK, RowInv
<1>4. Fits(rows, DOMAIN rows')
  <2>1. \A k \in DOMAIN rows : rows[k].size \in Nat
    BY RowSizes DEF RowsOK, RowsTyped
  <2> QED
    BY <1>2, <2>1, FitsPart DEF RowsOK, WorkspaceBounded
<1>5. Fits(rows', DOMAIN rows')
  BY <1>2, <1>4, FitsSame
<1>6. WorkspaceBounded'
  BY <1>5 DEF WorkspaceBounded
<1> QED
  BY <1>1, <1>3, <1>6 DEF RowsOK

\* what put_bounded leaves: the rows kept of those it had and its own
LEMMA PutLeaves ==
  ASSUME IInv, NEW c \in Calls, NEW size \in Sizes, Put(c, size)
  PROVE  /\ IsFiniteSet(DOMAIN rows')
         /\ DOMAIN rows' \subseteq DOMAIN rows \cup {KeyOf(c)}
         /\ \A k \in DOMAIN rows' : k # KeyOf(c) => k \in DOMAIN rows /\ rows'[k] = rows[k]
         /\ KeyOf(c) \in DOMAIN rows' =>
              /\ rows'[KeyOf(c)] \in Rows /\ rows'[KeyOf(c)].owner = call[c].owner
              /\ rows'[KeyOf(c)].made = call[c].made
              /\ rows'[KeyOf(c)].used = call[c].moment
         /\ Fits(rows', DOMAIN rows')
<1> DEFINE stored == Upserted(Without(rows, Purged(call[c].moment)), c, size)
<1>1. rows' = Restrict(stored, Kept(stored)) /\ pc[c] = "put"
  BY DEF Put, Ends, Goes
<1>2. /\ DOMAIN stored \subseteq DOMAIN rows \cup {KeyOf(c)}
      /\ KeyOf(c) \in DOMAIN stored
      /\ \A k \in DOMAIN stored : k # KeyOf(c) => k \in DOMAIN rows /\ stored[k] = rows[k]
      /\ stored[KeyOf(c)] \in Rows
      /\ stored[KeyOf(c)].owner = call[c].owner
      /\ stored[KeyOf(c)].made = call[c].made
      /\ stored[KeyOf(c)].used = call[c].moment
      /\ IsFiniteSet(DOMAIN stored)
  BY <1>1, StoredRows
<1> HIDE DEF stored
<1>3. /\ DOMAIN rows' = Kept(stored) /\ Kept(stored) \subseteq DOMAIN stored
      /\ \A k \in Kept(stored) : rows'[k] = stored[k]
  BY <1>1 DEF Restrict, Kept
<1>4. \A k \in DOMAIN stored : stored[k].size \in Nat /\ stored[k].used \in Nat
  BY <1>2, RowsAreOK, RowSizes DEF RowsOK, RowsTyped
<1>5. Fits(stored, Kept(stored))
  BY <1>2, <1>4, KeptFits
<1>6. IsFiniteSet(DOMAIN rows')
  BY <1>2, <1>3, FS_Subset
<1>7. Fits(rows', DOMAIN rows')
  BY <1>3, <1>5, <1>6, FitsSame
<1> QED
  BY <1>2, <1>3, <1>6, <1>7

LEMMA RowStep ==
  ASSUME IInv, [Next]_vars
  PROVE  RowsOK'
<1>1. RowsOK
  BY RowsAreOK
<1>2. CASE UNCHANGED <<conversation, rows>>
  BY <1>1, <1>2 DEF RowsOK, RowsTyped, RowInv, WorkspaceBounded
<1>3. CASE DeleteConversation
  <2>1. DOMAIN rows' = {} /\ conversation' \in [owner : Owners \cup {NoOwner}, life : Nat]
    BY <1>1, <1>3 DEF DeleteConversation, RowsOK, RowsTyped
  <2>2. Fits(rows', {})
    BY FitsNone
  <2> QED
    BY <2>1, <2>2, FS_EmptySet DEF RowsOK, RowsTyped, RowInv, WorkspaceBounded
<1>4. ASSUME NEW o \in Owners, CreateConversation(o)
      PROVE  RowsOK'
  <2>1. DOMAIN rows = {} /\ rows' = rows
    BY <1>1, <1>4 DEF CreateConversation, RowsOK, RowsTyped
  <2>2. conversation' \in [owner : Owners \cup {NoOwner}, life : Nat]
    BY <1>1, <1>4 DEF CreateConversation, RowsOK, RowsTyped
  <2>3. Fits(rows', {})
    BY FitsNone
  <2> QED
    BY <2>1, <2>2, <2>3, FS_EmptySet DEF RowsOK, RowsTyped, RowInv, WorkspaceBounded
<1>5. ASSUME NEW c \in Calls, Hit(c)
      PROVE  RowsOK'
  <2> DEFINE key == KeyOf(c)
             read == call[c].moment
  <2>1. key \in DOMAIN rows /\ rows' = [rows EXCEPT ![key].used = read] /\ UNCHANGED conversation
    BY <1>5 DEF Hit, Found
  <2>2. read \in Nat
    BY CallsAreOK DEF CallsOK, CallsTyped, CallRecords
  <2> HIDE DEF key, read
  <2>3. \A k \in DOMAIN rows : rows[k] \in Rows
    BY <1>1 DEF RowsOK, RowsTyped
  <2>4. DOMAIN rows' = DOMAIN rows /\ rows'[key] = [rows[key] EXCEPT !.used = read]
        /\ \A k \in DOMAIN rows : k # key => rows'[k] = rows[k]
    BY <2>1
  <2>5. /\ rows'[key] \in Rows /\ rows'[key].owner = rows[key].owner
        /\ rows'[key].made = rows[key].made /\ rows'[key].size = rows[key].size
    BY <2>1, <2>2, <2>3, <2>4 DEF Rows
  <2> QED
    BY <1>1, <2>1, <2>3, <2>4, <2>5, RowsShrink
<1>6. ASSUME NEW c \in Calls, Expired(c)
      PROVE  RowsOK'
  <2>1. DOMAIN rows' \subseteq DOMAIN rows /\ \A k \in DOMAIN rows' : rows'[k] = rows[k]
    BY <1>6 DEF Expired, Without, Restrict
  <2>2. UNCHANGED conversation /\ \A k \in DOMAIN rows : rows[k] \in Rows
    BY <1>1, <1>6 DEF Expired, RowsOK, RowsTyped
  <2> QED
    BY <1>1, <2>1, <2>2, RowsShrink
<1>7. ASSUME NEW c \in Calls, NEW size \in Sizes, Put(c, size)
      PROVE  RowsOK'
  <2>1. pc[c] = "put" /\ conversation.owner = call[c].owner /\ UNCHANGED conversation
    BY <1>7 DEF Put, Ends, Goes
  <2>2. KeyOf(c) \in ResourceKeys /\ KeyOf(c).structure = call[c].seen
    BY <2>1, KeyType DEF IInv, KeyOf, Key
  <2>3. call[c].owner \in Owners /\ call[c].made >= call[c].seen
    BY <2>1 DEF IInv, CallInv
  <2>4. /\ IsFiniteSet(DOMAIN rows')
        /\ DOMAIN rows' \subseteq DOMAIN rows \cup {KeyOf(c)}
        /\ \A k \in DOMAIN rows' : k # KeyOf(c) => k \in DOMAIN rows /\ rows'[k] = rows[k]
        /\ KeyOf(c) \in DOMAIN rows' =>
             /\ rows'[KeyOf(c)] \in Rows /\ rows'[KeyOf(c)].owner = call[c].owner
             /\ rows'[KeyOf(c)].made = call[c].made
        /\ Fits(rows', DOMAIN rows')
    BY <1>7, PutLeaves
  <2>5. RowsTyped'
    BY <1>1, <2>1, <2>2, <2>3, <2>4 DEF RowsOK, RowsTyped, OwnersAssumption
  <2>6. RowInv'
    BY <1>1, <2>1, <2>2, <2>3, <2>4 DEF RowsOK, RowInv
  <2> QED
    BY <2>4, <2>5, <2>6 DEF RowsOK, WorkspaceBounded
<1> QED
  <2>1. CASE Tick \/ \E b \in Builds : BuildReadsClock(b) \/ BuildApplies(b)
    BY <1>2, <2>1 DEF Tick, BuildReadsClock, BuildApplies
  <2>2. ASSUME NEW c \in Calls,
               \/ \E type \in Types, query \in Queries : Bind(c, type, query)
               \/ TakeSnapshot(c) \/ NoSnapshot(c) \/ LookupReadsClock(c) \/ Miss(c)
               \/ Reused(c) \/ LookupFails(c) \/ Produce(c) \/ NotStored(c) \/ StoreFails(c)
        PROVE  RowsOK'
    BY <1>2, <2>2 DEF Bind, TakeSnapshot, NoSnapshot, LookupReadsClock, Miss, Reused,
                      LookupFails, Produce, NotStored, StoreFails
  <2>3. CASE UNCHANGED vars
    BY <1>2, <2>3 DEF vars
  <2> QED
    BY <1>3, <1>4, <1>5, <1>6, <1>7, <2>1, <2>2, <2>3 DEF Next, Use
-----------------------------------------------------------------------------
(* Stamps.                                                                 *)

LEMMA StampTypes ==
  ASSUME IInv
  PROVE  /\ clock \in Nat /\ \A k \in DOMAIN rows : rows[k].used \in Nat
         /\ \A c \in Calls : call[c].moment \in Nat
<1>1. clock \in Nat /\ \A c \in Calls : call[c] \in CallRecords
  BY CallsAreOK DEF CallsOK, CallsTyped
<1>2. \A k \in DOMAIN rows : rows[k] \in Rows
  BY RowsAreOK DEF RowsOK, RowsTyped
<1> QED
  BY <1>1, <1>2, RowSizes DEF CallRecords

\* no call reads the clock, and a row is stamped only with a moment its call gives up
LEMMA StampsKept ==
  ASSUME IInv, clock' \in Nat, clock' >= clock,
         \A d \in Calls : pc'[d] \in Stamped =>
           pc[d] \in Stamped /\ call'[d].moment = call[d].moment,
         \A k \in DOMAIN rows' :
           \/ k \in DOMAIN rows /\ rows'[k].used = rows[k].used
           \/ \E c \in Calls : /\ pc[c] \in Stamped /\ pc'[c] \notin Stamped
                               /\ rows'[k].used = call[c].moment
  PROVE  StampInv'
<1>1. /\ clock \in Nat /\ \A k \in DOMAIN rows : rows[k].used \in Nat
      /\ \A c \in Calls : call[c].moment \in Nat
  BY StampTypes
<1>2. \A k \in DOMAIN rows' : rows'[k].used <= clock'
  BY <1>1 DEF IInv, StampInv
<1>3. ASSUME NEW d \in Calls, pc'[d] \in Stamped
      PROVE  /\ call'[d].moment <= clock'
             /\ \A k \in DOMAIN rows' : rows'[k].used # call'[d].moment
             /\ \A e \in Calls : pc'[e] \in Stamped /\ call'[e].moment = call'[d].moment => e = d
  <2>1. pc[d] \in Stamped /\ call'[d].moment = call[d].moment
    BY <1>3
  <2>2. call'[d].moment <= clock'
    BY <1>1, <2>1 DEF IInv, StampInv
  <2>3. ASSUME NEW k \in DOMAIN rows'
        PROVE  rows'[k].used # call'[d].moment
    <3>1. CASE k \in DOMAIN rows /\ rows'[k].used = rows[k].used
      BY <2>1, <3>1 DEF IInv, StampInv
    <3>2. ASSUME NEW c \in Calls, pc[c] \in Stamped, pc'[c] \notin Stamped,
                 rows'[k].used = call[c].moment
          PROVE  rows'[k].used # call'[d].moment
      BY <1>3, <2>1, <3>2 DEF IInv, StampInv
    <3> QED
      BY <3>1, <3>2
  <2>4. \A e \in Calls : pc'[e] \in Stamped /\ call'[e].moment = call'[d].moment => e = d
    BY <2>1 DEF IInv, StampInv
  <2> QED
    BY <2>2, <2>3, <2>4
<1> QED
  BY <1>2, <1>3 DEF StampInv

\* a call reads the clock
LEMMA StampsRead ==
  ASSUME IInv, NEW c \in Calls, clock' = clock + 1, UNCHANGED rows,
         call'[c].moment = clock + 1,
         \A d \in Calls : d # c => pc'[d] = pc[d] /\ call'[d] = call[d]
  PROVE  StampInv'
<1>1. /\ clock \in Nat /\ \A k \in DOMAIN rows : rows[k].used \in Nat
      /\ \A d \in Calls : call[d].moment \in Nat
  BY StampTypes
<1>2. \A k \in DOMAIN rows' : rows'[k].used <= clock' /\ rows'[k].used # clock'
  BY <1>1 DEF IInv, StampInv
<1>3. \A d \in Calls : d # c /\ pc'[d] \in Stamped =>
        /\ call'[d].moment <= clock' /\ call'[d].moment # clock'
        /\ \A k \in DOMAIN rows' : rows'[k].used # call'[d].moment
        /\ \A e \in Calls : e # c /\ pc'[e] \in Stamped /\ call'[e].moment = call'[d].moment => e = d
  BY <1>1 DEF IInv, StampInv
<1>4. call'[c].moment = clock' /\ clock' <= clock'
  BY <1>1
<1> QED
  BY <1>2, <1>3, <1>4 DEF StampInv

LEMMA StampStep ==
  ASSUME IInv, [Next]_vars
  PROVE  StampInv'
<1>1. /\ clock \in Nat /\ clock <= clock /\ clock + 1 \in Nat /\ clock + 1 >= clock
  BY StampTypes
<1>2. \A c \in Calls : \A to, made :
        pc' = [pc EXCEPT ![c] = to] /\ call' = [call EXCEPT ![c] = made] =>
          /\ pc'[c] = to /\ call'[c] = made
          /\ \A d \in Calls : d # c => pc'[d] = pc[d] /\ call'[d] = call[d]
  BY CallsAreOK DEF CallsOK, CallsTyped
<1>3. CASE \/ Tick \/ DeleteConversation \/ (\E o \in Owners : CreateConversation(o))
           \/ (\E b \in Builds : BuildReadsClock(b) \/ BuildApplies(b)) \/ UNCHANGED vars
  <2>1. UNCHANGED <<pc, call>> /\ clock' \in {clock, clock + 1}
    BY <1>3 DEF Tick, DeleteConversation, CreateConversation, BuildReadsClock, BuildApplies,
                ReadsClock, vars, index
  <2>2. \A k \in DOMAIN rows' : k \in DOMAIN rows /\ rows'[k].used = rows[k].used
    BY <1>3 DEF Tick, DeleteConversation, CreateConversation, BuildReadsClock, BuildApplies,
                vars, index
  <2> QED
    BY <1>1, <2>1, <2>2, StampsKept
<1>4. ASSUME NEW c \in Calls, LookupReadsClock(c) \/ Produce(c)
      PROVE  StampInv'
  <2>1. clock' = clock + 1 /\ UNCHANGED rows
    BY <1>4 DEF LookupReadsClock, Produce, ReadsClock
  <2>2. call[c] \in CallRecords /\ call' = [call EXCEPT ![c] = call'[c]]
    BY <1>4, CallsAreOK DEF LookupReadsClock, Produce, CallsOK, CallsTyped
  <2>3. call'[c].moment = clock + 1
    BY <1>4, <2>2, CallsAreOK DEF LookupReadsClock, Produce, CallsOK, CallsTyped, CallRecords
  <2>4. \A d \in Calls : d # c => pc'[d] = pc[d] /\ call'[d] = call[d]
    BY <1>4, CallsAreOK DEF LookupReadsClock, Produce, Goes, CallsOK, CallsTyped
  <2> QED
    BY <2>1, <2>3, <2>4, StampsRead
<1>5. ASSUME NEW c \in Calls,
             \/ \E type \in Types, query \in Queries : Bind(c, type, query)
             \/ TakeSnapshot(c) \/ NoSnapshot(c) \/ Miss(c) \/ Reused(c) \/ LookupFails(c)
             \/ NotStored(c) \/ StoreFails(c)
      PROVE  StampInv'
  <2>1. UNCHANGED <<clock, rows>>
    BY <1>5 DEF Bind, TakeSnapshot, NoSnapshot, Miss, Reused, LookupFails, NotStored, StoreFails
  <2>2. pc'[c] \notin Stamped /\ \A d \in Calls : d # c => pc'[d] = pc[d] /\ call'[d] = call[d]
    BY <1>5, CallsAreOK DEF Bind, TakeSnapshot, NoSnapshot, Miss, Reused, LookupFails, NotStored,
         StoreFails, Ends, Goes, CallsOK, CallsTyped, Stamped
  <2> QED
    BY <1>1, <2>1, <2>2, StampsKept
<1>6. ASSUME NEW c \in Calls, Hit(c) \/ Expired(c)
      PROVE  StampInv'
  <2>1. UNCHANGED clock /\ pc[c] \in Stamped
    BY <1>6 DEF Hit, Expired, Goes, Stamped
  <2>2. pc'[c] \notin Stamped /\ \A d \in Calls : d # c => pc'[d] = pc[d] /\ call'[d] = call[d]
    BY <1>6, CallsAreOK DEF Hit, Expired, Goes, CallsOK, CallsTyped, Stamped
  <2>3. \A k \in DOMAIN rows' :
          \/ k \in DOMAIN rows /\ rows'[k].used = rows[k].used
          \/ rows'[k].used = call[c].moment
    <3>1. CASE Expired(c)
      BY <3>1 DEF Expired, Without, Restrict
    <3>2. CASE Hit(c)
      <4> DEFINE key == KeyOf(c)
                 read == call[c].moment
      <4>1. key \in DOMAIN rows /\ rows' = [rows EXCEPT ![key].used = read]
        BY <3>2 DEF Hit, Found
      <4>2. rows[key] \in Rows
        BY <4>1, RowsAreOK DEF RowsOK, RowsTyped
      <4> HIDE DEF key, read
      <4>3. rows'[key].used = read /\ \A k \in DOMAIN rows' : k # key => k \in DOMAIN rows /\ rows'[k] = rows[k]
        BY <4>1, <4>2 DEF Rows
      <4> QED
        BY <4>3 DEF key, read
    <3> QED
      BY <1>6, <3>1, <3>2
  <2> QED
    BY <1>1, <2>1, <2>2, <2>3, StampsKept
<1>7. ASSUME NEW c \in Calls, NEW size \in Sizes, Put(c, size)
      PROVE  StampInv'
  <2>1. UNCHANGED clock /\ pc[c] \in Stamped
    BY <1>7 DEF Put, Ends, Goes, Stamped
  <2>2. pc'[c] \notin Stamped /\ \A d \in Calls : d # c => pc'[d] = pc[d] /\ call'[d] = call[d]
    BY <1>7, CallsAreOK DEF Put, Ends, Goes, CallsOK, CallsTyped, Stamped
  <2>3. \A k \in DOMAIN rows' :
          \/ k \in DOMAIN rows /\ rows'[k].used = rows[k].used
          \/ rows'[k].used = call[c].moment
    BY <1>7, PutLeaves
  <2> QED
    BY <1>1, <2>1, <2>2, <2>3, StampsKept
<1> QED
  BY <1>3, <1>4, <1>5, <1>6, <1>7 DEF Next, Use
-----------------------------------------------------------------------------
LEMMA InitIsOK == Init => IInv
<1> SUFFICES ASSUME Init PROVE IInv
  OBVIOUS
<1>1. DOMAIN rows = {} /\ clock = 0 /\ applied \in {0, 1} /\ pc = [c \in Calls |-> "idle"]
      /\ call = [c \in Calls |-> NoUse] /\ conversation \in [owner : Owners, life : {1}]
      /\ latest = [run |-> applied, stamp |-> 0] /\ building = [b \in Builds |-> -1]
  BY DEF Init
<1>2. NoUse \in CallRecords /\ NoUse.hit = {} /\ NoUse.seen <= Index(NoUse.type)
  BY DEF NoUse, CallRecords, NoRun, NoQuery, Types, Index
<1>3. TypeOK
  BY <1>1, <1>2 DEF TypeOK, CallRecords
<1>4. CallInv /\ HitsStayWithOwner /\ HitsAreNotStale
  BY <1>1, <1>2 DEF CallInv, HitsStayWithOwner, HitsAreNotStale
<1>5. RowInv /\ StampInv
  BY <1>1, FS_EmptySet DEF RowInv, StampInv, Stamped
<1>6. WorkspaceBounded
  BY <1>1, FitsNone DEF WorkspaceBounded
<1> QED
  BY <1>3, <1>4, <1>5, <1>6 DEF IInv

LEMMA StepIsOK == IInv /\ [Next]_vars => IInv'
<1> SUFFICES ASSUME IInv, [Next]_vars PROVE IInv'
  OBVIOUS
<1>1. CallsOK' /\ RowsOK' /\ StampInv'
  BY CallStep, RowStep, StampStep
<1> QED
  BY <1>1 DEF IInv, TypeOK, CallsOK, CallsTyped, CallRecords, RowsOK, RowsTyped

(* The inductive invariant of the workspace and of the calls that use it.  *)
THEOREM WorkspaceSafe == Spec => []IInv
  BY InitIsOK, StepIsOK, PTL DEF Spec

(* The rows and the calls keep their types, for every number of each.      *)
THEOREM ResourcesAreTyped == Spec => []TypeOK
<1>1. IInv => TypeOK
  BY DEF IInv
<1> QED
  BY <1>1, WorkspaceSafe, PTL

(* However lookups, puts and deletions overlap, the rows of a conversation *)
(* are never more than put_bounded allows, in number or in bytes.          *)
THEOREM WorkspaceIsBounded == Spec => []WorkspaceBounded
<1>1. IInv => WorkspaceBounded
  BY DEF IInv
<1> QED
  BY <1>1, WorkspaceSafe, PTL

(* No user is given a row that another user's call has stored.             *)
THEOREM HitsAreOwned == Spec => []HitsStayWithOwner
<1>1. IInv => HitsStayWithOwner
  BY DEF IInv
<1> QED
  BY <1>1, WorkspaceSafe, PTL

(* No hit was made on an index older than the one its call started with,   *)
(* in whatever order builds read the clock and apply.                      *)
THEOREM HitsAreFresh == Spec => []HitsAreNotStale
<1>1. IInv => HitsAreNotStale
  BY DEF IInv
<1> QED
  BY <1>1, WorkspaceSafe, PTL

(* A put that stores and does not keep its own row was overtaken by a use. *)
THEOREM OwnEvictionNeedsLaterUse == Spec => OwnEvictionIsLate
<1> DEFINE Late == \A c \in Calls :
       pc[c] = "put" /\ pc'[c] = "idle" /\ rows' # rows /\ KeyOf(c) \notin DOMAIN rows'
         => \E k \in DOMAIN rows : rows[k].used > call[c].moment
<1>1. IInv /\ [Next]_vars => [Late]_vars
  <2> SUFFICES ASSUME IInv, Next, NEW c \in Calls,
                      pc[c] = "put", pc'[c] = "idle", rows' # rows, KeyOf(c) \notin DOMAIN rows',
                      \A k \in DOMAIN rows : ~(rows[k].used > call[c].moment)
               PROVE  FALSE
    OBVIOUS
  <2>1. PICK size \in Sizes : Put(c, size)
    <3>1. \A d \in Calls : \A to : d # c /\ pc' = [pc EXCEPT ![d] = to] => pc'[c] = pc[c]
      BY CallsAreOK DEF CallsOK, CallsTyped
    <3>2. pc' # pc
      OBVIOUS
    <3>3. PICK d \in Calls : Use(d)
      BY <3>2 DEF Next, Tick, DeleteConversation, CreateConversation, BuildReadsClock, BuildApplies
    <3>4. d = c
      BY <3>1, <3>3 DEF Use, Bind, TakeSnapshot, NoSnapshot, LookupReadsClock, Hit, Expired, Miss,
           Reused, LookupFails, Produce, NotStored, Put, StoreFails, Ends, Goes
    <3> QED
      BY <3>3, <3>4 DEF Use, Bind, TakeSnapshot, NoSnapshot, LookupReadsClock, Hit, Expired, Miss,
           Reused, LookupFails, Produce, NotStored, StoreFails, Ends, Goes
  <2> DEFINE stored == Upserted(Without(rows, Purged(call[c].moment)), c, size)
             later == {j \in DOMAIN stored : stored[j].used >= stored[KeyOf(c)].used}
  <2>2. DOMAIN rows' = Kept(stored)
    BY <2>1 DEF Put, Restrict
  <2>3. /\ KeyOf(c) \in DOMAIN stored
        /\ \A k \in DOMAIN stored : k # KeyOf(c) => k \in DOMAIN rows /\ stored[k] = rows[k]
        /\ stored[KeyOf(c)].used = call[c].moment /\ stored[KeyOf(c)].size = size
    BY StoredRows
  <2>4. ~Fits(stored, later)
    BY <2>2, <2>3 DEF Kept
  <2>5. later = {KeyOf(c)}
    <3>1. \A k \in DOMAIN rows : rows[k].used # call[c].moment
      BY DEF IInv, StampInv, Stamped
    <3>2. call[c].moment \in Nat /\ \A k \in DOMAIN rows : rows[k].used \in Nat
      BY StampTypes
    <3> QED
      BY <2>3, <3>1, <3>2
  <2>6. Fits(stored, {KeyOf(c)})
    BY <2>3, FitsAlone
  <2> QED
    BY <2>4, <2>5, <2>6
<1> QED
  BY <1>1, WorkspaceSafe, PTL DEF Spec, OwnEvictionIsLate
=============================================================================
