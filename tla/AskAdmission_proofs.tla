------------------------- MODULE AskAdmission_proofs -------------------------
(* The invariants of AskAdmission for every set of requests, every capacity*)
(* of the guards, every quota and any number of failing database calls.    *)
EXTENDS AskAdmission, FiniteSetTheorems, TLAPS

USE RequestsAssumption, ShapesAssumption, CapacityAssumption, BoundsAssumption

IInv == TypeOK /\ StageInv /\ SlotsConserved

-----------------------------------------------------------------------------
(* What a request may hold, and the guards its handler would release.      *)
LEMMA GuardSets ==
  ASSUME TypeOK, NEW r \in Requests
  PROVE  /\ Kind(r) \in Kinds
         /\ ExtraGuards(r) \in {{}, {"research"}, {"agent"}}
         /\ ExtraGuards(r) \in SUBSET Guards
         /\ HeldGuards(r) \in SUBSET Guards
         /\ "generation" \in HeldGuards(r)
         /\ "generation" \notin ExtraGuards(r)
         /\ ~V2(r) => ExtraGuards(r) = {}
<1>1. shape[r] \in AllShapes
  BY DEF TypeOK
<1>2. Kind(r) \in Kinds
  BY <1>1 DEF AllShapes, Kind, Kinds
<1>3. Kind(r) \in {"personal", "web", "agent"}
  BY <1>2 DEF Kinds
<1>4. ExtraGuards(r) \in {{}, {"research"}, {"agent"}}
  BY <1>3 DEF ExtraGuards
<1>5. ~V2(r) => ExtraGuards(r) = {}
  BY <1>1 DEF AllShapes, V2, Kind, ExtraGuards
<1>6. QED
  BY <1>2, <1>4, <1>5 DEF HeldGuards, Guards

LEMMA HoldersFinite ==
  ASSUME NEW g
  PROVE  IsFiniteSet(Holders(g)) /\ Cardinality(Holders(g)) \in Nat
<1>1. Holders(g) \in SUBSET Requests
  BY DEF Holders
<1>2. QED
  BY <1>1, FS_Subset, FS_CardinalityType

(* Taking a slot that the request does not hold keeps the count.           *)
LEMMA TakeConserves ==
  ASSUME TypeOK, SlotsConserved, NEW r \in Requests, NEW g \in Guards,
         g \notin slots[r], Take(r, g)
  PROVE  SlotsConserved' /\ avail' \in [Guards -> Nat] /\ slots' \in [Requests -> SUBSET Guards]
<1> USE DEF TypeOK, SlotsConserved, Take
<1>1. avail' \in [Guards -> Nat] /\ slots' \in [Requests -> SUBSET Guards]
  OBVIOUS
<1>2. ASSUME NEW h \in Guards
      PROVE  avail'[h] + Cardinality(Holders(h)') = Capacity[h]
  <2>1. CASE h = g
    <3>1. Holders(h)' = Holders(h) \cup {r}
      BY <2>1 DEF Holders
    <3>2. r \notin Holders(h)
      BY <2>1 DEF Holders
    <3> HIDE DEF TypeOK, SlotsConserved, Take
    <3>3. IsFiniteSet(Holders(h))
      BY HoldersFinite
    <3>4. Cardinality(Holders(h)') = Cardinality(Holders(h)) + 1
      BY <3>1, <3>2, <3>3, FS_AddElement
    <3>5. avail'[h] = avail[h] - 1 /\ avail[h] \in Nat
      BY <2>1 DEF TypeOK, Take
    <3>6. Cardinality(Holders(h)) \in Nat /\ Capacity[h] \in Nat
      BY HoldersFinite
    <3>7. avail[h] + Cardinality(Holders(h)) = Capacity[h]
      BY DEF SlotsConserved
    <3>8. QED
      BY <3>4, <3>5, <3>6, <3>7
  <2>2. CASE h # g
    <3>1. Holders(h)' = Holders(h)
      BY <2>2 DEF Holders
    <3>2. QED
      BY <2>2, <3>1
  <2>3. QED
    BY <2>1, <2>2
<1>3. QED
  BY <1>1, <1>2

(* Releasing guards that the request holds keeps the count.                *)
LEMMA GiveConserves ==
  ASSUME TypeOK, SlotsConserved, NEW r \in Requests, NEW gs, gs \subseteq slots[r],
         Give(r, gs)
  PROVE  SlotsConserved' /\ avail' \in [Guards -> Nat] /\ slots' \in [Requests -> SUBSET Guards]
<1> USE DEF TypeOK, SlotsConserved, Give
<1>1. avail' \in [Guards -> Nat] /\ slots' \in [Requests -> SUBSET Guards]
  OBVIOUS
<1>2. ASSUME NEW h \in Guards
      PROVE  avail'[h] + Cardinality(Holders(h)') = Capacity[h]
  <2>1. CASE h \in gs
    <3>1. Holders(h)' = Holders(h) \ {r}
      BY <2>1 DEF Holders
    <3>2. r \in Holders(h)
      BY <2>1 DEF Holders
    <3>3. Cardinality(Holders(h)') = Cardinality(Holders(h)) - 1
      BY <3>1, <3>2, HoldersFinite, FS_RemoveElement
    <3>4. avail'[h] = avail[h] + 1
      BY <2>1
    <3>5. QED
      BY <3>3, <3>4, HoldersFinite
  <2>2. CASE h \notin gs
    <3>1. Holders(h)' = Holders(h)
      BY <2>2 DEF Holders
    <3>2. QED
      BY <2>2, <3>1
  <2>3. QED
    BY <2>1, <2>2
<1>3. QED
  BY <1>1, <1>2

(* The handler never changes the shape of a request.                       *)
LEMMA SameShape ==
  ASSUME UNCHANGED shape, NEW r
  PROVE  /\ V2(r)' = V2(r) /\ Kind(r)' = Kind(r)
         /\ Bound(r)' = Bound(r) /\ IsStream(r)' = IsStream(r)
         /\ ExtraGuards(r)' = ExtraGuards(r)
         /\ HeldGuards(r)' = HeldGuards(r)
BY DEF V2, Kind, Bound, IsStream, ExtraGuards, HeldGuards

(* A step that leaves a request's own variables alone keeps its stage.     *)
LEMMA OthersKeep ==
  ASSUME NEW q \in Requests, StageOK(q), UNCHANGED shape,
         pc'[q] = pc[q], slots'[q] = slots[q], task'[q] = task[q],
         charged'[q] = charged[q]
  PROVE  StageOK(q)'
BY SameShape DEF StageOK, Live, Ended

LEMMA SameSlots ==
  ASSUME SlotsConserved, UNCHANGED guardVars
  PROVE  SlotsConserved'
BY DEF SlotsConserved, guardVars, Holders
-----------------------------------------------------------------------------
(* A refund leaves counters that are natural numbers.                      *)
LEMMA RefundType ==
  ASSUME TypeOK, NEW r \in Requests, Refund(r)
  PROVE  /\ usage' \in [Kinds -> Nat] /\ charged' \in [Requests -> BOOLEAN]
         /\ faults' \in Nat
<1>1. CASE ~V2(r)
  BY <1>1 DEF Refund, TypeOK
<1>2. CASE Fault /\ UNCHANGED quotaVars
  BY <1>2 DEF Fault, quotaVars, TypeOK
<1>3. CASE /\ usage' = [usage EXCEPT ![Kind(r)] = Monus(@)]
           /\ charged' = [charged EXCEPT ![r] = FALSE]
           /\ UNCHANGED faults
  <2>1. \A n \in Nat : Monus(n) \in Nat
    BY DEF Monus
  <2>2. QED
    BY <1>3, <2>1, GuardSets DEF TypeOK
<1>4. QED
  BY <1>1, <1>2, <1>3 DEF Refund

(* Every variable keeps its type.                                          *)
LEMMA TypeStep ==
  ASSUME TypeOK, [Next]_vars
  PROVE  TypeOK'
<1> USE DEF TypeOK, Stages, LiveStates, EndStates, Responses,
            guardVars, quotaVars, storeVars, poolVars
<1>1. ASSUME NEW r \in Requests, Reject(r)
      PROVE  TypeOK'
  BY <1>1 DEF Reject, Finish, Goto, LeaveLoop
<1>2. ASSUME NEW r \in Requests, AcquireSlot(r)
      PROVE  TypeOK'
  BY <1>2 DEF AcquireSlot, Take, Goto, KeepLoop, Guards
<1>3. ASSUME NEW r \in Requests, SlotBusy(r)
      PROVE  TypeOK'
  BY <1>3 DEF SlotBusy, Finish, Goto, LeaveLoop
<1>4. ASSUME NEW r \in Requests, AcquireCapability(r)
      PROVE  TypeOK'
  BY <1>4, GuardSets DEF AcquireCapability, Take, Goto
<1>5. ASSUME NEW r \in Requests, CapabilityBusy(r)
      PROVE  TypeOK'
  BY <1>5, GuardSets DEF CapabilityBusy, Give, Finish, Goto, LeaveLoop
<1>6. ASSUME NEW r \in Requests, ChargeQuota(r)
      PROVE  TypeOK'
  BY <1>6, GuardSets DEF ChargeQuota, Goto, LeaveLoop
<1>7. ASSUME NEW r \in Requests, QuotaExceeded(r)
      PROVE  TypeOK'
  BY <1>7 DEF QuotaExceeded, Give, Finish, Goto, LeaveLoop
<1>8. ASSUME NEW r \in Requests, QuotaFault(r)
      PROVE  TypeOK'
  BY <1>8 DEF QuotaFault, Fault, Finish, Goto, LeaveLoop
<1>9. ASSUME NEW r \in Requests, AppendQuestion(r)
      PROVE  TypeOK'
  BY <1>9 DEF AppendQuestion, Goto
<1>10. ASSUME NEW r \in Requests, AppendFault(r)
      PROVE  TypeOK'
  BY <1>10 DEF AppendFault, Fault, Finish, Goto, LeaveLoop
<1>11. ASSUME NEW r \in Requests, ConversationGone(r)
      PROVE  TypeOK'
  BY <1>11, RefundType DEF ConversationGone, Give, Finish, Goto, LeaveLoop
<1>12. ASSUME NEW r \in Requests, Submit(r)
      PROVE  TypeOK'
  BY <1>12 DEF Submit, Goto, KeepLoop, LeaveLoop
<1>13. ASSUME NEW r \in Requests, SubmitRefused(r)
      PROVE  TypeOK'
  BY <1>13, RefundType DEF SubmitRefused, Give, Finish, Goto, LeaveLoop
<1>14. ASSUME NEW r \in Requests, CollectAnswer(r)
      PROVE  TypeOK'
  BY <1>14 DEF CollectAnswer, Finish, Goto, LeaveLoop
<1>15. ASSUME NEW r \in Requests, CollectError(r)
      PROVE  TypeOK'
  BY <1>15 DEF CollectError, Finish, Goto, LeaveLoop
<1>16. ASSUME NEW r \in Requests, CollectTimeout(r)
      PROVE  TypeOK'
  BY <1>16 DEF CollectTimeout, Finish, Goto, LeaveLoop
<1>17. ASSUME NEW r \in Requests, PersistAnswer(r)
      PROVE  TypeOK'
  BY <1>17 DEF PersistAnswer, Finish, Goto, LeaveLoop
<1>18. ASSUME NEW r \in Requests, PersistFault(r)
      PROVE  TypeOK'
  BY <1>18 DEF PersistFault, Fault, Finish, Goto, LeaveLoop
<1>19. ASSUME NEW r \in Requests, StreamAnswer(r)
      PROVE  TypeOK'
  BY <1>19 DEF StreamAnswer, Finish, Goto, LeaveLoop
<1>20. ASSUME NEW r \in Requests, StreamPersistFault(r)
      PROVE  TypeOK'
  BY <1>20 DEF StreamPersistFault, Fault, Finish, Goto, LeaveLoop
<1>21. ASSUME NEW r \in Requests, StreamError(r)
      PROVE  TypeOK'
  BY <1>21 DEF StreamError, Finish, Goto, LeaveLoop
<1>22. ASSUME NEW r \in Requests, StreamTimeout(r)
      PROVE  TypeOK'
  BY <1>22 DEF StreamTimeout, Finish, Goto, LeaveLoop
<1>23. ASSUME NEW r \in Requests, StreamDisconnect(r)
      PROVE  TypeOK'
  BY <1>23 DEF StreamDisconnect, Finish, Goto, LeaveLoop
<1>24. ASSUME NEW r \in Requests, StartTask(r)
      PROVE  TypeOK'
  BY <1>24 DEF StartTask
<1>25. ASSUME NEW r \in Requests, EndTask(r)
      PROVE  TypeOK'
  BY <1>25 DEF EndTask
<1>26. ASSUME NEW r \in Requests, DoneCallback(r)
      PROVE  TypeOK'
  BY <1>26 DEF DoneCallback, Give
<1>27. CASE Shutdown
  BY <1>27 DEF Shutdown
<1>28. CASE StartEmbedding
  BY <1>28 DEF StartEmbedding
<1>29. CASE EndEmbedding
  BY <1>29 DEF EndEmbedding
<1>30. CASE DeleteConversation
  BY <1>30 DEF DeleteConversation
<1>31. CASE UNCHANGED vars
  BY <1>31 DEF vars
<1>32. QED
  BY <1>1, <1>2, <1>3, <1>4, <1>5, <1>6, <1>7, <1>8, <1>9, <1>10, <1>11, <1>12, <1>13, <1>14, <1>15, <1>16, <1>17, <1>18, <1>19, <1>20, <1>21, <1>22, <1>23, <1>24, <1>25, <1>26, <1>27, <1>28, <1>29, <1>30, <1>31
     DEF Next, Admit, Reply, Generate, Terminated
-----------------------------------------------------------------------------
(* A handler that replies without touching slots, task or charge.          *)
LEMMA FinishKeeps ==
  ASSUME TypeOK, StageInv, NEW r \in Requests,
         UNCHANGED <<shape, slots, task, charged>>,
         pc' = [pc EXCEPT ![r] = "done"]
  PROVE  StageInv'
<1>1. ASSUME NEW q \in Requests, q # r
      PROVE  StageOK(q)'
  BY <1>1, OthersKeep DEF StageInv, TypeOK
<1>2. StageOK(r)'
  <2>1. pc'[r] = "done" /\ StageOK(r)
    BY DEF StageInv, TypeOK
  <2>2. QED
    BY <2>1, SameShape DEF StageOK, Live, Ended
<1>3. QED
  BY <1>1, <1>2 DEF StageInv

(* A handler that gives back its slots, and its charge if it has one,      *)
(* before a task exists.                                                   *)
LEMMA ReleaseKeeps ==
  ASSUME TypeOK, StageInv, NEW r \in Requests, NEW gs,
         UNCHANGED <<shape, task>>, task[r] = "none",
         slots' = [slots EXCEPT ![r] = @ \ gs],
         \/ charged' = charged
         \/ charged' = [charged EXCEPT ![r] = FALSE],
         pc' = [pc EXCEPT ![r] = "done"]
  PROVE  StageInv'
<1>1. ASSUME NEW q \in Requests, q # r
      PROVE  StageOK(q)'
  BY <1>1, OthersKeep DEF StageInv, TypeOK
<1>2. StageOK(r)'
  <2>1. pc'[r] = "done" /\ StageOK(r) /\ (charged'[r] => charged[r])
    BY DEF StageInv, TypeOK
  <2>2. QED
    BY <2>1, SameShape DEF StageOK, Live, Ended, LiveStates, EndStates
<1>3. QED
  BY <1>1, <1>2 DEF StageInv

(* A step of request r that leaves the other requests alone keeps their    *)
(* stages.                                                                 *)
LEMMA OnlyOne ==
  ASSUME TypeOK, StageInv, NEW r \in Requests, UNCHANGED shape,
         \A q \in Requests \ {r} :
           /\ pc'[q] = pc[q] /\ slots'[q] = slots[q]
           /\ task'[q] = task[q] /\ charged'[q] = charged[q],
         StageOK(r)'
  PROVE  StageInv'
BY OthersKeep DEF StageInv

(* Refund only ever takes back the charge of its own request.              *)
LEMMA RefundCharge ==
  ASSUME TypeOK, NEW r \in Requests, Refund(r)
  PROVE  \/ charged' = charged
         \/ charged' = [charged EXCEPT ![r] = FALSE]
BY DEF Refund, quotaVars

(* Every request holds and owes what its stage says.                       *)
LEMMA StageStep ==
  ASSUME TypeOK, StageInv, [Next]_vars
  PROVE  StageInv'
<1>1. ASSUME NEW r \in Requests, Reject(r)
      PROVE  StageInv'
  BY <1>1, FinishKeeps DEF Reject, Finish, Goto, guardVars, quotaVars
<1>2. ASSUME NEW r \in Requests, SlotBusy(r)
      PROVE  StageInv'
  BY <1>2, FinishKeeps DEF SlotBusy, Finish, Goto, guardVars, quotaVars
<1>3. ASSUME NEW r \in Requests, QuotaFault(r)
      PROVE  StageInv'
  BY <1>3, FinishKeeps DEF QuotaFault, Finish, Goto, guardVars, quotaVars
<1>4. ASSUME NEW r \in Requests, AppendFault(r)
      PROVE  StageInv'
  BY <1>4, FinishKeeps DEF AppendFault, Finish, Goto, guardVars, quotaVars
<1>5. ASSUME NEW r \in Requests, CollectError(r)
      PROVE  StageInv'
  BY <1>5, FinishKeeps DEF CollectError, Finish, Goto, guardVars, quotaVars
<1>6. ASSUME NEW r \in Requests, CollectTimeout(r)
      PROVE  StageInv'
  BY <1>6, FinishKeeps DEF CollectTimeout, Finish, Goto, guardVars, quotaVars
<1>7. ASSUME NEW r \in Requests, PersistAnswer(r)
      PROVE  StageInv'
  BY <1>7, FinishKeeps DEF PersistAnswer, Finish, Goto, guardVars, quotaVars
<1>8. ASSUME NEW r \in Requests, PersistFault(r)
      PROVE  StageInv'
  BY <1>8, FinishKeeps DEF PersistFault, Finish, Goto, guardVars, quotaVars
<1>9. ASSUME NEW r \in Requests, StreamAnswer(r)
      PROVE  StageInv'
  BY <1>9, FinishKeeps DEF StreamAnswer, Finish, Goto, guardVars, quotaVars
<1>10. ASSUME NEW r \in Requests, StreamPersistFault(r)
      PROVE  StageInv'
  BY <1>10, FinishKeeps DEF StreamPersistFault, Finish, Goto, guardVars, quotaVars
<1>11. ASSUME NEW r \in Requests, StreamError(r)
      PROVE  StageInv'
  BY <1>11, FinishKeeps DEF StreamError, Finish, Goto, guardVars, quotaVars
<1>12. ASSUME NEW r \in Requests, StreamTimeout(r)
      PROVE  StageInv'
  BY <1>12, FinishKeeps DEF StreamTimeout, Finish, Goto, guardVars, quotaVars
<1>13. ASSUME NEW r \in Requests, StreamDisconnect(r)
      PROVE  StageInv'
  BY <1>13, FinishKeeps DEF StreamDisconnect, Finish, Goto, guardVars, quotaVars
<1>14. ASSUME NEW r \in Requests, AcquireSlot(r)
      PROVE  StageInv'
  <2>1. pc[r] = "arrive" /\ slots[r] = {} /\ task[r] = "none" /\ ~charged[r]
    BY <1>14 DEF AcquireSlot, StageInv, StageOK
  <2>2. UNCHANGED <<shape, task, charged>>
    BY <1>14 DEF AcquireSlot, quotaVars
  <2>3. slots'[r] = {"generation"}
    BY <1>14, <2>1 DEF AcquireSlot, Take, TypeOK
  <2>4. pc'[r] = IF ~V2(r) THEN "submit"
                 ELSE IF ExtraGuards(r) = {} THEN "quota" ELSE "capability"
    BY <1>14 DEF AcquireSlot, Goto, TypeOK
  <2>5. ExtraGuards(r) = {} => HeldGuards(r) = {"generation"}
    BY DEF HeldGuards
  <2>6. StageOK(r)'
    BY <2>1, <2>2, <2>3, <2>4, <2>5, SameShape, GuardSets
       DEF StageOK, Live, Ended, LiveStates, EndStates
  <2>7. QED
    BY <1>14, <2>2, <2>6, OnlyOne DEF AcquireSlot, Take, Goto, TypeOK
<1>15. ASSUME NEW r \in Requests, AcquireCapability(r)
      PROVE  StageInv'
  <2>1. /\ pc[r] = "capability" /\ slots[r] = {"generation"}
        /\ task[r] = "none" /\ ~charged[r] /\ V2(r)
    BY <1>15 DEF AcquireCapability, StageInv, StageOK
  <2>2. UNCHANGED <<shape, task, charged>> /\ pc'[r] = "quota"
    BY <1>15 DEF AcquireCapability, Goto, quotaVars, TypeOK
  <2>3. slots'[r] = HeldGuards(r)
    BY <1>15, <2>1, GuardSets DEF AcquireCapability, Take, TypeOK, HeldGuards
  <2>4. StageOK(r)'
    BY <2>1, <2>2, <2>3, SameShape DEF StageOK, Live, Ended, LiveStates, EndStates
  <2>5. QED
    BY <1>15, <2>2, <2>4, OnlyOne DEF AcquireCapability, Take, Goto, TypeOK
<1>16. ASSUME NEW r \in Requests, CapabilityBusy(r)
      PROVE  StageInv'
  <2>1. task[r] = "none"
    BY <1>16 DEF CapabilityBusy, StageInv, StageOK
  <2>2. QED
    BY <1>16, <2>1, ReleaseKeeps DEF CapabilityBusy, Give, Finish, Goto, quotaVars
<1>17. ASSUME NEW r \in Requests, QuotaExceeded(r)
      PROVE  StageInv'
  <2>1. task[r] = "none"
    BY <1>17 DEF QuotaExceeded, StageInv, StageOK
  <2>2. QED
    BY <1>17, <2>1, ReleaseKeeps DEF QuotaExceeded, Give, Finish, Goto, quotaVars
<1>18. ASSUME NEW r \in Requests, ConversationGone(r)
      PROVE  StageInv'
  <2>1. task[r] = "none"
    BY <1>18 DEF ConversationGone, ReadyToSubmit, StageInv, StageOK
  <2>2. \/ charged' = charged
        \/ charged' = [charged EXCEPT ![r] = FALSE]
    BY <1>18, RefundCharge DEF ConversationGone
  <2>3. QED
    BY <1>18, <2>1, <2>2, ReleaseKeeps DEF ConversationGone, Give, Finish, Goto
<1>19. ASSUME NEW r \in Requests, SubmitRefused(r)
      PROVE  StageInv'
  <2>1. task[r] = "none"
    BY <1>19 DEF SubmitRefused, ReadyToSubmit, StageInv, StageOK
  <2>2. \/ charged' = charged
        \/ charged' = [charged EXCEPT ![r] = FALSE]
    BY <1>19, RefundCharge DEF SubmitRefused
  <2>3. QED
    BY <1>19, <2>1, <2>2, ReleaseKeeps DEF SubmitRefused, Give, Finish, Goto
<1>20. ASSUME NEW r \in Requests, ChargeQuota(r)
      PROVE  StageInv'
  <2>1. /\ pc[r] = "quota" /\ slots[r] = HeldGuards(r)
        /\ task[r] = "none" /\ V2(r)
    BY <1>20 DEF ChargeQuota, StageInv, StageOK
  <2>2. UNCHANGED <<shape, task, slots>> /\ pc'[r] \in {"append", "submit"}
    BY <1>20 DEF ChargeQuota, Goto, guardVars, TypeOK
  <2>3. charged'[r]
    BY <1>20 DEF ChargeQuota, TypeOK
  <2>4. StageOK(r)'
    BY <2>1, <2>2, <2>3, SameShape DEF StageOK, Live, Ended, LiveStates, EndStates
  <2>5. QED
    BY <1>20, <2>2, <2>4, OnlyOne DEF ChargeQuota, Goto, TypeOK
<1>21. ASSUME NEW r \in Requests, AppendQuestion(r)
      PROVE  StageInv'
  <2>1. pc[r] = "append" /\ StageOK(r)
    BY <1>21 DEF AppendQuestion, StageInv
  <2>2. UNCHANGED <<shape, task, slots, charged>> /\ pc'[r] = "resume"
    BY <1>21 DEF AppendQuestion, Goto, guardVars, quotaVars, TypeOK
  <2>3. StageOK(r)'
    BY <2>1, <2>2, SameShape DEF StageOK, Live, Ended, LiveStates, EndStates
  <2>4. QED
    BY <1>21, <2>2, <2>3, OnlyOne DEF AppendQuestion, Goto, TypeOK
<1>22. ASSUME NEW r \in Requests, Submit(r)
      PROVE  StageInv'
  <2>1. pc[r] \in {"submit", "resume"} /\ StageOK(r)
    BY <1>22 DEF Submit, ReadyToSubmit, StageInv
  <2>2. UNCHANGED <<shape, slots, charged>> /\ pc'[r] = "collect"
    BY <1>22 DEF Submit, Goto, guardVars, quotaVars, TypeOK
  <2>3. task'[r] = "queued"
    BY <1>22 DEF Submit, TypeOK
  <2>4. StageOK(r)'
    BY <2>1, <2>2, <2>3, SameShape DEF StageOK, Live, Ended, LiveStates, EndStates
  <2>5. QED
    BY <1>22, <2>2, <2>4, OnlyOne DEF Submit, Goto, TypeOK
<1>23. ASSUME NEW r \in Requests, StartTask(r)
      PROVE  StageInv'
  <2>1. task[r] = "queued" /\ StageOK(r)
    BY <1>23 DEF StartTask, StageInv
  <2>2. UNCHANGED <<shape, pc, slots, charged>> /\ task'[r] = "running"
    BY <1>23 DEF StartTask, guardVars, quotaVars, TypeOK
  <2>3. StageOK(r)'
    BY <2>1, <2>2, SameShape DEF StageOK, Live, Ended, LiveStates, EndStates
  <2>4. QED
    BY <1>23, <2>2, <2>3, OnlyOne DEF StartTask, TypeOK
<1>24. ASSUME NEW r \in Requests, EndTask(r)
      PROVE  StageInv'
  <2>1. task[r] = "running" /\ StageOK(r)
    BY <1>24 DEF EndTask, StageInv
  <2>2. UNCHANGED <<shape, pc, slots, charged>> /\ task'[r] \in {"ok", "failed"}
    BY <1>24 DEF EndTask, guardVars, quotaVars, TypeOK
  <2>3. StageOK(r)'
    BY <2>1, <2>2, SameShape DEF StageOK, Live, Ended, LiveStates, EndStates
  <2>4. QED
    BY <1>24, <2>2, <2>3, OnlyOne DEF EndTask, TypeOK
<1>25. ASSUME NEW r \in Requests, DoneCallback(r)
      PROVE  StageInv'
  <2>1. Ended(r) /\ slots[r] # {} /\ StageOK(r)
    BY <1>25 DEF DoneCallback, StageInv
  <2>2. UNCHANGED <<shape, pc, task, charged>>
    BY <1>25 DEF DoneCallback, quotaVars
  <2>3. slots'[r] = slots[r] \ (IF "generation" \in slots[r] THEN {"generation"}
                                ELSE ExtraGuards(r))
    BY <1>25 DEF DoneCallback, Give, TypeOK
  <2>4. slots'[r] \in {ExtraGuards(r), {}}
    BY <2>1, <2>3, GuardSets DEF StageOK, HeldGuards
  <2>5. pc[r] \in {"collect", "persist", "done"} /\ ~Live(r)
    BY <2>1 DEF StageOK, Ended, Live, LiveStates, EndStates
  <2>6. StageOK(r)'
    BY <2>1, <2>2, <2>4, <2>5, SameShape DEF StageOK, Live, Ended
  <2>7. QED
    BY <1>25, <2>2, <2>6, OnlyOne DEF DoneCallback, Give, TypeOK
<1>26. ASSUME NEW r \in Requests, CollectAnswer(r)
      PROVE  StageInv'
  <2>1. pc[r] = "collect" /\ StageOK(r)
    BY <1>26 DEF CollectAnswer, StageInv
  <2>2. UNCHANGED <<shape, task, slots, charged>> /\ pc'[r] \in {"persist", "done"}
    BY <1>26 DEF CollectAnswer, Finish, Goto, guardVars, quotaVars, TypeOK
  <2>3. StageOK(r)'
    BY <2>1, <2>2, SameShape DEF StageOK, Live, Ended
  <2>4. QED
    BY <1>26, <2>2, <2>3, OnlyOne DEF CollectAnswer, Finish, Goto, TypeOK
<1>27. CASE Shutdown
  <2>1. UNCHANGED <<shape, pc, slots, charged>>
    BY <1>27 DEF Shutdown, guardVars, quotaVars
  <2>2. ASSUME NEW q \in Requests
        PROVE  StageOK(q)'
    <3>1. StageOK(q) /\ task'[q] = IF task[q] = "queued" THEN "cancelled" ELSE task[q]
      BY <1>27 DEF Shutdown, StageInv
    <3>2. QED
      BY <2>1, <3>1, SameShape DEF StageOK, Live, Ended, LiveStates, EndStates
  <2>3. QED
    BY <2>2 DEF StageInv
<1>28. CASE StartEmbedding
  BY <1>28, OthersKeep DEF StartEmbedding, StageInv, guardVars, quotaVars
<1>29. CASE EndEmbedding
  BY <1>29, OthersKeep DEF EndEmbedding, StageInv, guardVars, quotaVars
<1>30. CASE DeleteConversation
  BY <1>30, OthersKeep DEF DeleteConversation, StageInv, guardVars, quotaVars
<1>31. CASE UNCHANGED vars
  BY <1>31, OthersKeep DEF vars, StageInv
<1>32. QED
  BY <1>1, <1>2, <1>3, <1>4, <1>5, <1>6, <1>7, <1>8, <1>9, <1>10, <1>11, <1>12, <1>13, <1>14, <1>15, <1>16, <1>17, <1>18, <1>19, <1>20, <1>21, <1>22, <1>23, <1>24, <1>25, <1>26, <1>27, <1>28, <1>29, <1>30, <1>31
     DEF Next, Admit, Reply, Generate, Terminated
-----------------------------------------------------------------------------
(* Each step takes only a slot its request does not hold and gives back    *)
(* only slots it does hold.                                                *)
LEMMA ConserveStep ==
  ASSUME IInv, [Next]_vars
  PROVE  SlotsConserved'
<1> USE DEF IInv
<1>1. ASSUME NEW r \in Requests, AcquireSlot(r)
      PROVE  SlotsConserved'
  <2>1. slots[r] = {} /\ Take(r, "generation")
    BY <1>1 DEF AcquireSlot, StageInv, StageOK
  <2>2. QED
    BY <2>1, TakeConserves DEF Guards
<1>2. ASSUME NEW r \in Requests, AcquireCapability(r)
      PROVE  SlotsConserved'
  <2>1. slots[r] = {"generation"}
    BY <1>2 DEF AcquireCapability, StageInv, StageOK
  <2>2. PICK g \in ExtraGuards(r) : Take(r, g)
    BY <1>2 DEF AcquireCapability
  <2>3. g \in Guards /\ g \notin slots[r]
    BY <2>1, <2>2, GuardSets
  <2>4. QED
    BY <2>2, <2>3, TakeConserves
<1>3. ASSUME NEW r \in Requests, CapabilityBusy(r)
      PROVE  SlotsConserved'
  <2>1. slots[r] = {"generation"} /\ Give(r, {"generation"})
    BY <1>3 DEF CapabilityBusy, StageInv, StageOK
  <2>2. QED
    BY <2>1, GiveConserves
<1>4. ASSUME NEW r \in Requests,
             QuotaExceeded(r) \/ ConversationGone(r) \/ SubmitRefused(r)
      PROVE  SlotsConserved'
  <2>1. slots[r] = HeldGuards(r) /\ Give(r, HeldGuards(r))
    BY <1>4 DEF QuotaExceeded, ConversationGone, SubmitRefused, ReadyToSubmit,
                StageInv, StageOK
  <2>2. QED
    BY <2>1, GiveConserves
<1>5. ASSUME NEW r \in Requests, DoneCallback(r)
      PROVE  SlotsConserved'
  <2>1. slots[r] \in {HeldGuards(r), ExtraGuards(r)}
    BY <1>5 DEF DoneCallback, StageInv, StageOK
  <2>2. DEFINE gs == IF "generation" \in slots[r] THEN {"generation"} ELSE ExtraGuards(r)
  <2>3. gs \subseteq slots[r] /\ Give(r, gs)
    BY <1>5, <2>1, GuardSets DEF DoneCallback
  <2>4. QED
    BY <2>3, GiveConserves
<1>6. ASSUME NEW r \in Requests,
             \/ Reject(r) \/ SlotBusy(r) \/ ChargeQuota(r) \/ QuotaFault(r)
             \/ AppendQuestion(r) \/ AppendFault(r) \/ Submit(r)
             \/ Reply(r) \/ StartTask(r) \/ EndTask(r)
      PROVE  SlotsConserved'
  <2>1. UNCHANGED guardVars
    BY <1>6 DEF Reply, Reject, SlotBusy, ChargeQuota, QuotaFault, AppendQuestion, AppendFault, Submit, CollectAnswer, CollectError, CollectTimeout,
                PersistAnswer, PersistFault, StreamAnswer, StreamPersistFault, StreamError, StreamTimeout, StreamDisconnect, StartTask, EndTask
  <2>2. QED
    BY <2>1, SameSlots
<1>7. CASE Shutdown \/ StartEmbedding \/ EndEmbedding \/ DeleteConversation
  BY <1>7, SameSlots DEF Shutdown, StartEmbedding, EndEmbedding, DeleteConversation
<1>8. CASE UNCHANGED vars
  BY <1>8, SameSlots DEF vars, guardVars
<1>9. QED
  BY <1>1, <1>2, <1>3, <1>4, <1>5, <1>6, <1>7, <1>8 DEF Next, Admit, Generate, Terminated
-----------------------------------------------------------------------------
LEMMA InitInv == Init => IInv
<1> SUFFICES ASSUME Init
             PROVE  IInv
  OBVIOUS
<1> USE DEF Init
<1>1. TypeOK
  BY DEF TypeOK, Stages, Responses
<1>2. StageInv
  BY DEF StageInv, StageOK, Live, Ended, LiveStates, EndStates
<1>3. SlotsConserved
  <2>1. ASSUME NEW g \in Guards
        PROVE  avail[g] + Cardinality(Holders(g)) = Capacity[g]
    <3>1. Holders(g) = {}
      BY DEF Holders
    <3>2. Cardinality(Holders(g)) = 0
      BY <3>1, FS_EmptySet
    <3>3. QED
      BY <3>2
  <2>2. QED
    BY <2>1 DEF SlotsConserved
<1>4. QED
  BY <1>1, <1>2, <1>3 DEF IInv

(* The inductive invariant: types, what each stage holds and owes, and the *)
(* conservation of the slots of every guard.                               *)
THEOREM AdmissionSafe == Spec => []IInv
<1>1. IInv /\ [Next]_vars => IInv'
  BY TypeStep, StageStep, ConserveStep DEF IInv
<1>2. QED
  BY <1>1, InitInv, PTL DEF Spec

(* Every variable of the admission path keeps its type.                    *)
THEOREM TypeCorrect == Spec => []TypeOK
<1>1. IInv => TypeOK
  BY DEF IInv
<1>2. QED
  BY <1>1, AdmissionSafe, PTL

(* No handler, callback, deadline, disconnect, failing database call or    *)
(* shutdown loses a slot's count or releases one twice.                    *)
THEOREM SlotsAreConserved == Spec => []SlotsConserved
<1>1. IInv => SlotsConserved
  BY DEF IInv
<1>2. QED
  BY <1>1, AdmissionSafe, PTL

(* The slot belongs to the generation task for as long as it is queued or  *)
(* running.                                                                *)
THEOREM TasksOwnSlots == Spec => []LiveTaskHoldsSlots
<1>1. IInv => LiveTaskHoldsSlots
  BY DEF IInv, StageInv, StageOK, LiveTaskHoldsSlots
<1>2. QED
  BY <1>1, AdmissionSafe, PTL

(* A v2 task only ever runs for a request that its quota bucket counted.   *)
THEOREM TasksAreMetered == Spec => []NoUnmeteredTask
<1>1. IInv => NoUnmeteredTask
  BY DEF IInv, StageInv, StageOK, NoUnmeteredTask
<1>2. QED
  BY <1>1, AdmissionSafe, PTL

(* Never more generations under way than a guard has slots.                *)
THEOREM GenerationsAreBounded == Spec => []GenerationBounded
<1>1. IInv => GenerationBounded
  <2> SUFFICES ASSUME IInv, NEW g \in Guards
               PROVE  Cardinality(AtWork(g)) <= Capacity[g]
    BY DEF GenerationBounded
  <2>1. AtWork(g) \in SUBSET Holders(g)
    BY DEF AtWork, Holders, IInv, StageInv, StageOK
  <2>2. IsFiniteSet(Holders(g)) /\ Cardinality(Holders(g)) \in Nat
    BY HoldersFinite
  <2>3. IsFiniteSet(AtWork(g)) /\ Cardinality(AtWork(g)) <= Cardinality(Holders(g))
    BY <2>1, <2>2, FS_Subset
  <2>4. Cardinality(AtWork(g)) \in Nat
    BY <2>3, FS_CardinalityType
  <2>5. avail[g] \in Nat /\ avail[g] + Cardinality(Holders(g)) = Capacity[g]
    BY DEF IInv, TypeOK, SlotsConserved
  <2>6. QED
    BY <2>2, <2>3, <2>4, <2>5
<1>2. QED
  BY <1>1, AdmissionSafe, PTL
-----------------------------------------------------------------------------
(* The owners at work change with a task, and with nothing else.           *)
LEMMA AtWorkSame ==
  ASSUME UNCHANGED <<shape, task>>, NEW g
  PROVE  AtWork(g)' = AtWork(g)
BY SameShape DEF AtWork, Live

LEMMA HoldersSame ==
  ASSUME UNCHANGED slots, NEW g
  PROVE  Holders(g)' = Holders(g)
BY DEF Holders

(* Taking guard g is the pool's Acquire, and a stutter for another guard.  *)
LEMMA TakeImplements ==
  ASSUME TypeOK, NEW r \in Requests, NEW g \in Guards, g \notin slots[r], Take(r, g),
         UNCHANGED <<shape, task>>, NEW h \in Guards
  PROVE  PoolStep(h)
<1>1. AtWork(h)' = AtWork(h)
  BY AtWorkSame
<1>2. CASE h = g
  <2>1. Holders(h)' = Holders(h) \cup {r} /\ r \notin Holders(h)
    BY <1>2 DEF Take, Holders, TypeOK
  <2>2. avail'[h] = avail[h] - 1 /\ avail[h] > 0
    BY <1>2 DEF Take, TypeOK
  <2>3. Pool(h)!Acquire(r)
    BY <1>1, <2>1, <2>2 DEF Pool!Acquire
  <2>4. QED
    BY <2>3 DEF PoolStep, Pool!Next
<1>3. CASE h # g
  <2>1. Holders(h)' = Holders(h) /\ avail'[h] = avail[h]
    BY <1>3 DEF Take, Holders, TypeOK
  <2>2. QED
    BY <1>1, <2>1 DEF PoolStep
<1>4. QED
  BY <1>2, <1>3

(* Giving back a guard is the pool's Release of an owner that is not at    *)
(* work.                                                                   *)
LEMMA GiveImplements ==
  ASSUME TypeOK, NEW r \in Requests, NEW gs, gs \subseteq slots[r], Give(r, gs), ~Live(r),
         UNCHANGED <<shape, task>>, NEW h \in Guards
  PROVE  PoolStep(h)
<1>1. AtWork(h)' = AtWork(h) /\ r \notin AtWork(h)
  BY AtWorkSame DEF AtWork
<1>2. CASE h \in gs
  <2>1. Holders(h)' = Holders(h) \ {r} /\ r \in Holders(h)
    BY <1>2 DEF Give, Holders, TypeOK
  <2>2. avail'[h] = avail[h] + 1
    BY <1>2 DEF Give, TypeOK
  <2>3. Pool(h)!Release(r)
    BY <1>1, <2>1, <2>2 DEF Pool!Release
  <2>4. QED
    BY <2>3 DEF PoolStep, Pool!Next
<1>3. CASE h \notin gs
  <2>1. Holders(h)' = Holders(h) /\ avail'[h] = avail[h]
    BY <1>3 DEF Give, Holders, TypeOK
  <2>2. QED
    BY <1>1, <2>1 DEF PoolStep
<1>4. QED
  BY <1>2, <1>3

(* A step that moves no slot and changes no task is a stutter of each pool.*)
LEMMA StutterImplements ==
  ASSUME UNCHANGED <<shape, task, avail, slots>>, NEW h \in Guards
  PROVE  PoolStep(h)
<1>1. AtWork(h)' = AtWork(h) /\ Holders(h)' = Holders(h) /\ avail'[h] = avail[h]
  BY AtWorkSame, HoldersSame
<1>2. QED
  BY <1>1 DEF PoolStep

(* Tasks that end, and nothing else, are the pool's End.                   *)
LEMMA EndImplements ==
  ASSUME UNCHANGED <<shape, avail, slots>>, NEW ended \in SUBSET Requests, NEW h \in Guards,
         \A q \in Requests : Live(q)' <=> (Live(q) /\ q \notin ended)
  PROVE  PoolStep(h)
<1>1. Holders(h)' = Holders(h) /\ avail'[h] = avail[h]
  BY HoldersSame
<1>2. AtWork(h)' = AtWork(h) \ ended
  <2>1. \A q \in Requests : HeldGuards(q)' = HeldGuards(q)
    BY SameShape
  <2>2. AtWork(h)' = {q \in Requests : Live(q)' /\ h \in HeldGuards(q)}
    BY <2>1 DEF AtWork
  <2>3. QED
    BY <2>2 DEF AtWork
<1>3. Pool(h)!End(ended)
  BY <1>1, <1>2 DEF Pool!End
<1>4. QED
  BY <1>3 DEF PoolStep, Pool!Next

(* Every step of the admission path is a step of the pool of each guard,   *)
(* or a stutter of it.                                                     *)
LEMMA StepImplements ==
  ASSUME IInv, [Next]_vars, NEW h \in Guards
  PROVE  PoolStep(h)
<1> USE DEF IInv
<1>1. ASSUME NEW r \in Requests, AcquireSlot(r)
      PROVE  PoolStep(h)
  <2>1. slots[r] = {} /\ Take(r, "generation") /\ UNCHANGED <<shape, task>>
    BY <1>1 DEF AcquireSlot, StageInv, StageOK
  <2>2. QED
    BY <2>1, TakeImplements DEF Guards
<1>2. ASSUME NEW r \in Requests, AcquireCapability(r)
      PROVE  PoolStep(h)
  <2>1. slots[r] = {"generation"} /\ UNCHANGED <<shape, task>>
    BY <1>2 DEF AcquireCapability, StageInv, StageOK
  <2>2. PICK g \in ExtraGuards(r) : Take(r, g)
    BY <1>2 DEF AcquireCapability
  <2>3. g \in Guards /\ g \notin slots[r]
    BY <2>1, <2>2, GuardSets
  <2>4. QED
    BY <2>1, <2>2, <2>3, TakeImplements
<1>3. ASSUME NEW r \in Requests, CapabilityBusy(r)
      PROVE  PoolStep(h)
  <2>1. slots[r] = {"generation"} /\ task[r] = "none" /\ Give(r, {"generation"})
    BY <1>3 DEF CapabilityBusy, StageInv, StageOK
  <2>2. ~Live(r) /\ UNCHANGED <<shape, task>>
    BY <1>3, <2>1 DEF CapabilityBusy, Live, LiveStates
  <2>3. QED
    BY <2>1, <2>2, GiveImplements
<1>4. ASSUME NEW r \in Requests,
             QuotaExceeded(r) \/ ConversationGone(r) \/ SubmitRefused(r)
      PROVE  PoolStep(h)
  <2>1. slots[r] = HeldGuards(r) /\ task[r] = "none" /\ Give(r, HeldGuards(r))
    BY <1>4 DEF QuotaExceeded, ConversationGone, SubmitRefused, ReadyToSubmit,
                StageInv, StageOK
  <2>2. ~Live(r) /\ UNCHANGED <<shape, task>>
    BY <1>4, <2>1 DEF QuotaExceeded, ConversationGone, SubmitRefused, Live, LiveStates
  <2>3. QED
    BY <2>1, <2>2, GiveImplements
<1>5. ASSUME NEW r \in Requests, DoneCallback(r)
      PROVE  PoolStep(h)
  <2>1. slots[r] \in {HeldGuards(r), ExtraGuards(r)}
    BY <1>5 DEF DoneCallback, StageInv, StageOK
  <2>2. DEFINE gs == IF "generation" \in slots[r] THEN {"generation"} ELSE ExtraGuards(r)
  <2>3. gs \subseteq slots[r] /\ Give(r, gs)
    BY <1>5, <2>1, GuardSets DEF DoneCallback
  <2>4. ~Live(r) /\ UNCHANGED <<shape, task>>
    BY <1>5 DEF DoneCallback, Live, Ended, LiveStates, EndStates
  <2>5. QED
    BY <2>3, <2>4, GiveImplements
<1>6. ASSUME NEW r \in Requests, Submit(r)
      PROVE  PoolStep(h)
  <2>1. slots[r] = HeldGuards(r) /\ task[r] = "none"
    BY <1>6 DEF Submit, ReadyToSubmit, StageInv, StageOK
  <2>2. UNCHANGED <<shape, avail, slots>> /\ task' = [task EXCEPT ![r] = "queued"]
    BY <1>6 DEF Submit, guardVars
  <2>3. Holders(h)' = Holders(h) /\ avail'[h] = avail[h]
    BY <2>2, HoldersSame
  <2>4. \A q \in Requests : Live(q)' <=> (Live(q) \/ q = r)
    BY <2>2 DEF Live, LiveStates, TypeOK
  <2>5. CASE h \in HeldGuards(r)
    <3>1. AtWork(h)' = AtWork(h) \cup {r} /\ r \in Holders(h)
      BY <2>1, <2>2, <2>4, <2>5, SameShape DEF AtWork, Holders
    <3>2. Pool(h)!Begin(r)
      BY <2>3, <3>1 DEF Pool!Begin
    <3>3. QED
      BY <3>2 DEF PoolStep, Pool!Next
  <2>6. CASE h \notin HeldGuards(r)
    <3>1. AtWork(h)' = AtWork(h)
      BY <2>2, <2>4, <2>6, SameShape DEF AtWork
    <3>2. QED
      BY <2>3, <3>1 DEF PoolStep
  <2>7. QED
    BY <2>5, <2>6
<1>7. ASSUME NEW r \in Requests, StartTask(r) \/ EndTask(r)
      PROVE  PoolStep(h)
  <2>1. UNCHANGED <<shape, avail, slots>>
    BY <1>7 DEF StartTask, EndTask, guardVars
  <2>2. PICK ended \in {{}, {r}} :
          \A q \in Requests : Live(q)' <=> (Live(q) /\ q \notin ended)
    <3>1. CASE StartTask(r)
      BY <3>1 DEF StartTask, Live, LiveStates, TypeOK
    <3>2. CASE EndTask(r)
      BY <3>2 DEF EndTask, Live, LiveStates, TypeOK
    <3>3. QED
      BY <1>7, <3>1, <3>2
  <2>3. ended \in SUBSET Requests
    OBVIOUS
  <2>4. QED
    BY <2>1, <2>2, <2>3, EndImplements
<1>8. CASE Shutdown
  <2>1. UNCHANGED <<shape, avail, slots>>
    BY <1>8 DEF Shutdown, guardVars
  <2>2. DEFINE cancelled == {q \in Requests : task[q] = "queued"}
  <2>3. \A q \in Requests : Live(q)' <=> (Live(q) /\ q \notin cancelled)
    BY <1>8 DEF Shutdown, Live, LiveStates
  <2>4. QED
    BY <2>1, <2>3, EndImplements
<1>9. ASSUME NEW r \in Requests,
             \/ Reject(r) \/ SlotBusy(r) \/ ChargeQuota(r) \/ QuotaFault(r)
             \/ AppendQuestion(r) \/ AppendFault(r) \/ Reply(r)
      PROVE  PoolStep(h)
  <2>1. UNCHANGED <<shape, task, avail, slots>>
    BY <1>9 DEF Reply, Reject, SlotBusy, ChargeQuota, QuotaFault, AppendQuestion,
                AppendFault, CollectAnswer, CollectError, CollectTimeout, PersistAnswer,
                PersistFault, StreamAnswer, StreamPersistFault, StreamError,
                StreamTimeout, StreamDisconnect, guardVars
  <2>2. QED
    BY <2>1, StutterImplements
<1>10. CASE StartEmbedding \/ EndEmbedding \/ DeleteConversation \/ UNCHANGED vars
  <2>1. UNCHANGED <<shape, task, avail, slots>>
    BY <1>10 DEF StartEmbedding, EndEmbedding, DeleteConversation, vars, guardVars
  <2>2. QED
    BY <2>1, StutterImplements
<1>11. QED
  BY <1>1, <1>2, <1>3, <1>4, <1>5, <1>6, <1>7, <1>8, <1>9, <1>10
     DEF Next, Admit, Generate, Terminated

(* Refinement: the admission path implements the pool of each guard.       *)
THEOREM AdmissionImplementsPools == Spec => ImplementsPools
<1>1. Init => \A g \in Guards : Pool(g)!Init
  <2> SUFFICES ASSUME Init, NEW g \in Guards
               PROVE  Pool(g)!Init
    OBVIOUS
  <2>1. Holders(g) = {} /\ AtWork(g) = {} /\ avail[g] = Capacity[g]
    BY DEF Init, Holders, AtWork, Live, LiveStates
  <2>2. QED
    BY <2>1 DEF Pool!Init
<1>2. IInv /\ [Next]_vars => [\A g \in Guards : PoolStep(g)]_vars
  BY StepImplements
<1>3. QED
  BY <1>1, <1>2, AdmissionSafe, PTL DEF Spec, ImplementsPools
-----------------------------------------------------------------------------
(* The pool counts its owners as this module does.                         *)
LEMMA PoolCardinality ==
  ASSUME NEW g, NEW S
  PROVE  Pool(g)!Cardinality(S) = Cardinality(S)
BY DEF Pool!Cardinality, Cardinality

(* What the pool itself promises, for every guard: free and held slots add *)
(* up to the capacity and only owners of a slot work.  ConcurrencyGuard    *)
(* never loses a slot nor makes one up.                                    *)
THEOREM PoolSafe ==
  ASSUME NEW CONSTANT g \in Guards
  PROVE  Pool(g)!Spec => []Pool(g)!PoolInv
<1>1. Pool(g)!Init => Pool(g)!PoolInv
  BY FS_EmptySet, PoolCardinality DEF Pool!Init, Pool!PoolInv, Pool!TypeOK, Pool!Conserved
<1>2. Pool(g)!PoolInv /\ [Pool(g)!Next]_(Pool(g)!vars) => Pool(g)!PoolInv'
  <2> SUFFICES ASSUME Pool(g)!PoolInv, [Pool(g)!Next]_(Pool(g)!vars)
               PROVE  Pool(g)!PoolInv'
    OBVIOUS
  <2> USE DEF Pool!PoolInv, Pool!TypeOK, Pool!Conserved
  <2>1. IsFiniteSet(Holders(g)) /\ Cardinality(Holders(g)) \in Nat
    BY FS_Subset, FS_CardinalityType
  <2>2. ASSUME NEW o \in Requests, Pool(g)!Acquire(o)
        PROVE  Pool(g)!PoolInv'
    <3>1. Cardinality(Holders(g) \cup {o}) = Cardinality(Holders(g)) + 1
      BY <2>1, <2>2, FS_AddElement DEF Pool!Acquire
    <3>2. QED
      BY <2>1, <2>2, <3>1, PoolCardinality DEF Pool!Acquire
  <2>3. ASSUME NEW o \in Requests, Pool(g)!Begin(o)
        PROVE  Pool(g)!PoolInv'
    BY <2>3 DEF Pool!Begin
  <2>4. ASSUME NEW o \in Requests, Pool(g)!Release(o)
        PROVE  Pool(g)!PoolInv'
    <3>1. Cardinality(Holders(g) \ {o}) = Cardinality(Holders(g)) - 1
      BY <2>1, <2>4, FS_RemoveElement DEF Pool!Release
    <3>2. QED
      BY <2>1, <2>4, <3>1, PoolCardinality DEF Pool!Release
  <2>5. ASSUME NEW ended \in SUBSET Requests, Pool(g)!End(ended)
        PROVE  Pool(g)!PoolInv'
    BY <2>5 DEF Pool!End
  <2>6. CASE UNCHANGED Pool(g)!vars
    BY <2>6 DEF Pool!vars
  <2>7. QED
    BY <2>2, <2>3, <2>4, <2>5, <2>6 DEF Pool!Next
<1>3. QED
  BY <1>1, <1>2, PTL DEF Pool!Spec

(* The pool's invariant bounds the work under way by its size.             *)
THEOREM PoolBounded ==
  ASSUME NEW g \in Guards
  PROVE  Pool(g)!PoolInv => Pool(g)!Bounded
<1> SUFFICES ASSUME Pool(g)!PoolInv
             PROVE  Pool(g)!Bounded
  OBVIOUS
<1> USE DEF Pool!PoolInv, Pool!TypeOK, Pool!Conserved, Pool!Bounded
<1>1. IsFiniteSet(Holders(g))
  BY FS_Subset
<1>2. Cardinality(AtWork(g)) <= Cardinality(Holders(g))
  BY <1>1, FS_Subset
<1>3. Cardinality(Holders(g)) \in Nat /\ Cardinality(AtWork(g)) \in Nat
  BY <1>1, FS_Subset, FS_CardinalityType
<1>4. QED
  BY <1>2, <1>3, PoolCardinality
-----------------------------------------------------------------------------
LEMMA ChargedFinite ==
  ASSUME NEW k
  PROVE  IsFiniteSet(Charged(k)) /\ Cardinality(Charged(k)) \in Nat
<1>1. Charged(k) \in SUBSET Requests
  BY DEF Charged
<1>2. QED
  BY <1>1, FS_Subset, FS_CardinalityType

LEMMA SameCharges ==
  ASSUME UsageCountsCharges, UNCHANGED <<shape, quotaVars>>
  PROVE  UsageCountsCharges'
<1>1. \A k \in Kinds : Charged(k)' = Charged(k)
  BY SameShape DEF Charged, quotaVars
<1>2. QED
  BY <1>1 DEF UsageCountsCharges, quotaVars

(* A refund takes back one charge that its bucket still counts.            *)
LEMMA RefundCounts ==
  ASSUME TypeOK, UsageCountsCharges, NEW r \in Requests, V2(r) => charged[r],
         Refund(r), UNCHANGED shape
  PROVE  UsageCountsCharges'
<1>1. CASE UNCHANGED quotaVars
  BY <1>1, SameCharges
<1>2. CASE /\ charged[r]
           /\ usage' = [usage EXCEPT ![Kind(r)] = Monus(@)]
           /\ charged' = [charged EXCEPT ![r] = FALSE]
  <2> SUFFICES ASSUME NEW k \in Kinds
               PROVE  usage'[k] = Cardinality(Charged(k)') /\ usage'[k] <= Limit
    BY DEF UsageCountsCharges
  <2>1. /\ usage[k] = Cardinality(Charged(k)) /\ usage[k] <= Limit
        /\ usage[k] \in Nat
    BY DEF UsageCountsCharges, TypeOK
  <2>2. \A q \in Requests : Kind(q)' = Kind(q)
    BY SameShape
  <2>3. CASE k = Kind(r)
    <3>1. r \in Charged(k) /\ Charged(k)' = Charged(k) \ {r}
      BY <1>2, <2>2, <2>3 DEF Charged, TypeOK
    <3>2. IsFiniteSet(Charged(k)) /\ Cardinality(Charged(k)) \in Nat
      BY ChargedFinite
    <3>3. Cardinality(Charged(k)') = Cardinality(Charged(k)) - 1
      BY <3>1, <3>2, FS_RemoveElement
    <3>4. Cardinality(Charged(k)) # 0
      BY <3>1, <3>2, FS_EmptySet
    <3>5. usage'[k] = usage[k] - 1
      BY <1>2, <2>1, <2>3, <3>2, <3>4 DEF Monus, TypeOK
    <3>6. QED
      BY <2>1, <3>2, <3>3, <3>5
  <2>4. CASE k # Kind(r)
    <3>1. Charged(k)' = Charged(k) /\ usage'[k] = usage[k]
      BY <1>2, <2>2, <2>4 DEF Charged, TypeOK
    <3>2. QED
      BY <2>1, <3>1
  <2>5. QED
    BY <2>3, <2>4
<1>3. QED
  BY <1>1, <1>2 DEF Refund, quotaVars

(* Recording one more request of a bucket below its limit.                 *)
LEMMA ChargeCounts ==
  ASSUME TypeOK, StageInv, UsageCountsCharges, NEW r \in Requests, ChargeQuota(r)
  PROVE  UsageCountsCharges'
<1>1. /\ ~charged[r] /\ UNCHANGED shape /\ usage[Kind(r)] < Limit
      /\ usage' = [usage EXCEPT ![Kind(r)] = @ + 1]
      /\ charged' = [charged EXCEPT ![r] = TRUE]
  BY DEF ChargeQuota, StageInv, StageOK
<1> SUFFICES ASSUME NEW k \in Kinds
             PROVE  usage'[k] = Cardinality(Charged(k)') /\ usage'[k] <= Limit
  BY DEF UsageCountsCharges
<1>2. /\ usage[k] = Cardinality(Charged(k)) /\ usage[k] <= Limit
      /\ usage[k] \in Nat
  BY DEF UsageCountsCharges, TypeOK
<1>3. \A q \in Requests : Kind(q)' = Kind(q)
  BY <1>1, SameShape
<1>4. CASE k = Kind(r)
  <2>1. r \notin Charged(k) /\ Charged(k)' = Charged(k) \cup {r}
    BY <1>1, <1>3, <1>4 DEF Charged, TypeOK
  <2>2. IsFiniteSet(Charged(k)) /\ Cardinality(Charged(k)) \in Nat
    BY ChargedFinite
  <2>3. Cardinality(Charged(k)') = Cardinality(Charged(k)) + 1
    BY <2>1, <2>2, FS_AddElement
  <2>4. usage'[k] = usage[k] + 1 /\ usage[k] < Limit
    BY <1>1, <1>4 DEF TypeOK
  <2>5. QED
    BY <1>2, <2>2, <2>3, <2>4
<1>5. CASE k # Kind(r)
  <2>1. Charged(k)' = Charged(k) /\ usage'[k] = usage[k]
    BY <1>1, <1>3, <1>5 DEF Charged, TypeOK
  <2>2. QED
    BY <1>2, <2>1
<1>6. QED
  BY <1>4, <1>5

(* A bucket's counter is the number of requests charged to it and not      *)
(* refunded, and it never passes the limit.                                *)
THEOREM UsageIsExact == Spec => []UsageCountsCharges
<1>1. Init => UsageCountsCharges
  <2> SUFFICES ASSUME Init, NEW k \in Kinds
               PROVE  usage[k] = Cardinality(Charged(k)) /\ usage[k] <= Limit
    BY DEF UsageCountsCharges
  <2>1. Charged(k) = {}
    BY DEF Init, Charged
  <2>2. Cardinality(Charged(k)) = 0
    BY <2>1, FS_EmptySet
  <2>3. QED
    BY <2>2 DEF Init
<1>2. IInv /\ UsageCountsCharges /\ [Next]_vars => UsageCountsCharges'
  <2> SUFFICES ASSUME IInv, UsageCountsCharges, [Next]_vars
               PROVE  UsageCountsCharges'
    OBVIOUS
  <2> USE DEF IInv
  <2>1. ASSUME NEW r \in Requests, ChargeQuota(r)
        PROVE  UsageCountsCharges'
    BY <2>1, ChargeCounts
  <2>2. ASSUME NEW r \in Requests, ConversationGone(r) \/ SubmitRefused(r)
        PROVE  UsageCountsCharges'
    <3>1. V2(r) => charged[r]
      BY <2>2 DEF ConversationGone, SubmitRefused, ReadyToSubmit, StageInv, StageOK
    <3>2. Refund(r) /\ UNCHANGED shape
      BY <2>2 DEF ConversationGone, SubmitRefused
    <3>3. QED
      BY <3>1, <3>2, RefundCounts
  <2>3. ASSUME NEW r \in Requests,
               \/ Reject(r) \/ AcquireSlot(r) \/ SlotBusy(r) \/ AcquireCapability(r)
               \/ CapabilityBusy(r) \/ QuotaExceeded(r) \/ QuotaFault(r)
               \/ AppendQuestion(r) \/ AppendFault(r) \/ Submit(r)
               \/ Reply(r) \/ Generate(r)
        PROVE  UsageCountsCharges'
    <3>1. UNCHANGED <<shape, quotaVars>>
      BY <2>3 DEF Reject, AcquireSlot, SlotBusy, AcquireCapability, CapabilityBusy,
                  QuotaExceeded, QuotaFault, AppendQuestion, AppendFault, Submit, Reply,
                  CollectAnswer, CollectError, CollectTimeout, PersistAnswer,
                  PersistFault, StreamAnswer, StreamPersistFault, StreamError,
                  StreamTimeout, StreamDisconnect, Generate, StartTask, EndTask,
                  DoneCallback
    <3>2. QED
      BY <3>1, SameCharges
  <2>4. CASE \/ Shutdown \/ StartEmbedding \/ EndEmbedding \/ DeleteConversation
             \/ UNCHANGED vars
    <3>1. UNCHANGED <<shape, quotaVars>>
      BY <2>4 DEF Shutdown, StartEmbedding, EndEmbedding, DeleteConversation, vars,
                  quotaVars
    <3>2. QED
      BY <3>1, SameCharges
  <2>5. QED
    BY <2>1, <2>2, <2>3, <2>4 DEF Next, Admit, Terminated
<1>3. QED
  BY <1>1, <1>2, AdmissionSafe, PTL DEF Spec
-----------------------------------------------------------------------------
(* Where no database call failed so far, a request that ended without a    *)
(* task holds nothing and owes nothing: SlotLifetime and ChargedForWork in *)
(* one formula, which a step of a single request can be checked against.   *)
LeftNothing(r) == pc[r] = "done" /\ task[r] = "none" => slots[r] = {} /\ ~charged[r]

FollowInv == faults = 0 => \A r \in Requests : LeftNothing(r)

(* A step of request r that leaves the other requests alone.               *)
LEMMA FollowOne ==
  ASSUME TypeOK, FollowInv, NEW r \in Requests, faults' # 0 \/ faults' = faults,
         \A q \in Requests \ {r} :
           /\ pc'[q] = pc[q] /\ slots'[q] = slots[q]
           /\ task'[q] = task[q] /\ charged'[q] = charged[q],
         faults' = 0 => LeftNothing(r)'
  PROVE  FollowInv'
BY DEF FollowInv, LeftNothing

(* A refund ends the charge of its request, or a call has failed.          *)
LEMMA RefundEnds ==
  ASSUME TypeOK, NEW r \in Requests, Refund(r), ~V2(r) => ~charged[r]
  PROVE  /\ faults' # 0 \/ (faults' = faults /\ ~charged'[r])
         /\ \A q \in Requests \ {r} : charged'[q] = charged[q]
<1>1. CASE ~V2(r)
  BY <1>1 DEF Refund
<1>2. CASE Fault /\ UNCHANGED quotaVars
  BY <1>2 DEF Fault, quotaVars, TypeOK
<1>3. CASE charged' = [charged EXCEPT ![r] = FALSE] /\ UNCHANGED faults
  BY <1>3 DEF TypeOK
<1>4. QED
  BY <1>1, <1>2, <1>3 DEF Refund

LEMMA FollowStep ==
  ASSUME IInv, FollowInv, [Next]_vars
  PROVE  FollowInv'
<1> USE DEF IInv
<1>1. ASSUME NEW r \in Requests, Reject(r) \/ SlotBusy(r)
      PROVE  FollowInv'
  <2>1. slots[r] = {} /\ ~charged[r]
    BY <1>1 DEF Reject, SlotBusy, StageInv, StageOK
  <2>2. UNCHANGED <<slots, task, charged, faults>> /\ pc' = [pc EXCEPT ![r] = "done"]
    BY <1>1 DEF Reject, SlotBusy, Finish, Goto, guardVars, quotaVars
  <2>3. LeftNothing(r)'
    BY <2>1, <2>2 DEF LeftNothing
  <2>4. QED
    BY <2>2, <2>3, FollowOne DEF TypeOK
<1>2. ASSUME NEW r \in Requests, CapabilityBusy(r) \/ QuotaExceeded(r)
      PROVE  FollowInv'
  <2>1. PICK gs \in SUBSET Guards : Give(r, gs) /\ slots[r] = gs
    BY <1>2, GuardSets DEF CapabilityBusy, QuotaExceeded, StageInv, StageOK
  <2>2. ~charged[r]
    BY <1>2 DEF CapabilityBusy, QuotaExceeded, StageInv, StageOK
  <2>3. /\ UNCHANGED <<task, charged, faults>> /\ pc' = [pc EXCEPT ![r] = "done"]
        /\ slots' = [slots EXCEPT ![r] = @ \ gs]
    BY <1>2, <2>1 DEF CapabilityBusy, QuotaExceeded, Finish, Goto, Give, quotaVars
  <2>4. LeftNothing(r)'
    BY <2>1, <2>2, <2>3 DEF LeftNothing, TypeOK
  <2>5. QED
    BY <2>3, <2>4, FollowOne DEF TypeOK
<1>3. ASSUME NEW r \in Requests, ConversationGone(r) \/ SubmitRefused(r)
      PROVE  FollowInv'
  <2>1. slots[r] = HeldGuards(r) /\ (~V2(r) => ~charged[r])
    BY <1>3 DEF ConversationGone, SubmitRefused, ReadyToSubmit, StageInv, StageOK
  <2>2. /\ Refund(r) /\ UNCHANGED task /\ pc' = [pc EXCEPT ![r] = "done"]
        /\ slots' = [slots EXCEPT ![r] = @ \ HeldGuards(r)]
    BY <1>3 DEF ConversationGone, SubmitRefused, Finish, Goto, Give
  <2>3. /\ faults' # 0 \/ (faults' = faults /\ ~charged'[r])
        /\ \A q \in Requests \ {r} : charged'[q] = charged[q]
    BY <2>1, <2>2, RefundEnds
  <2>4. slots'[r] = {}
    BY <2>1, <2>2 DEF TypeOK
  <2>5. faults' = 0 => LeftNothing(r)'
    BY <2>3, <2>4 DEF LeftNothing
  <2>6. QED
    BY <2>2, <2>3, <2>5, FollowOne DEF TypeOK
<1>4. ASSUME NEW r \in Requests,
             \/ QuotaFault(r) \/ AppendFault(r) \/ PersistFault(r) \/ StreamPersistFault(r)
      PROVE  FollowInv'
  BY <1>4 DEF QuotaFault, AppendFault, PersistFault, StreamPersistFault, Fault, TypeOK,
              FollowInv
<1>5. ASSUME NEW r \in Requests,
             \/ AcquireSlot(r) \/ AcquireCapability(r) \/ ChargeQuota(r)
             \/ AppendQuestion(r) \/ Submit(r)
      PROVE  FollowInv'
  <2>1. \/ /\ UNCHANGED <<task, charged>>
           /\ \E g : Take(r, g)
        \/ /\ UNCHANGED <<task, slots>>
           /\ charged' = [charged EXCEPT ![r] = TRUE]
        \/ UNCHANGED <<task, slots, charged>>
        \/ UNCHANGED <<slots, charged>> /\ task' = [task EXCEPT ![r] = "queued"]
    BY <1>5 DEF AcquireSlot, AcquireCapability, ChargeQuota, AppendQuestion, Submit,
                guardVars, quotaVars
  <2>2. /\ UNCHANGED faults
        /\ \E s \in Stages \ {"done"} : pc' = [pc EXCEPT ![r] = s]
    BY <1>5 DEF AcquireSlot, AcquireCapability, ChargeQuota, AppendQuestion, Submit,
                Goto, Stages
  <2>3. LeftNothing(r)'
    BY <2>2 DEF LeftNothing, TypeOK
  <2>4. \A q \in Requests \ {r} :
           /\ pc'[q] = pc[q] /\ slots'[q] = slots[q]
           /\ task'[q] = task[q] /\ charged'[q] = charged[q]
    BY <2>1, <2>2 DEF Take, TypeOK
  <2>5. QED
    BY <2>2, <2>3, <2>4, FollowOne
<1>6. ASSUME NEW r \in Requests,
             \/ CollectAnswer(r) \/ CollectError(r) \/ CollectTimeout(r)
             \/ PersistAnswer(r) \/ StreamAnswer(r) \/ StreamError(r)
             \/ StreamTimeout(r) \/ StreamDisconnect(r)
      PROVE  FollowInv'
  <2>1. pc[r] \in {"collect", "persist"}
    BY <1>6 DEF CollectAnswer, CollectError, CollectTimeout, PersistAnswer, StreamAnswer,
                StreamError, StreamTimeout, StreamDisconnect, SentinelSeen
  <2>2. task[r] # "none"
    BY <2>1 DEF StageInv, StageOK
  <2>3. /\ UNCHANGED <<slots, task, charged, faults>>
        /\ \E s : pc' = [pc EXCEPT ![r] = s]
    BY <1>6 DEF CollectAnswer, CollectError, CollectTimeout, PersistAnswer, StreamAnswer,
                StreamError, StreamTimeout, StreamDisconnect, Finish, Goto, guardVars,
                quotaVars
  <2>4. LeftNothing(r)'
    BY <2>2, <2>3 DEF LeftNothing
  <2>5. QED
    BY <2>3, <2>4, FollowOne DEF TypeOK
<1>7. ASSUME NEW r \in Requests, Generate(r)
      PROVE  FollowInv'
  <2>1. UNCHANGED <<pc, charged, faults>>
    BY <1>7 DEF Generate, StartTask, EndTask, DoneCallback, quotaVars
  <2>2. task[r] # "none" /\ task'[r] # "none"
    BY <1>7 DEF Generate, StartTask, EndTask, DoneCallback, Ended, EndStates, TypeOK
  <2>3. \A q \in Requests \ {r} : slots'[q] = slots[q] /\ task'[q] = task[q]
    BY <1>7 DEF Generate, StartTask, EndTask, DoneCallback, Give, guardVars, TypeOK
  <2>4. LeftNothing(r)'
    BY <2>2 DEF LeftNothing
  <2>5. QED
    BY <2>1, <2>3, <2>4, FollowOne
<1>8. CASE Shutdown
  <2>1. UNCHANGED <<pc, slots, charged, faults>>
    BY <1>8 DEF Shutdown, guardVars, quotaVars
  <2>2. \A q \in Requests : task'[q] = "none" => task[q] = "none"
    BY <1>8 DEF Shutdown
  <2>3. QED
    BY <2>1, <2>2 DEF FollowInv, LeftNothing
<1>9. CASE StartEmbedding \/ EndEmbedding \/ DeleteConversation \/ UNCHANGED vars
  <2>1. UNCHANGED <<pc, slots, task, charged, faults>>
    BY <1>9 DEF StartEmbedding, EndEmbedding, DeleteConversation, vars, guardVars,
                quotaVars
  <2>2. QED
    BY <2>1 DEF FollowInv, LeftNothing
<1>10. QED
  BY <1>1, <1>2, <1>3, <1>4, <1>5, <1>6, <1>7, <1>8, <1>9
     DEF Next, Admit, Reply, Terminated

THEOREM NothingIsLeft == Spec => []FollowInv
<1>1. Init => FollowInv
  BY DEF Init, FollowInv, LeftNothing
<1>2. IInv /\ FollowInv /\ [Next]_vars => FollowInv'
  BY FollowStep
<1>3. QED
  BY <1>1, <1>2, AdmissionSafe, PTL DEF Spec

(* Each early return of the handlers gives back the slots acquired so far, *)
(* as long as no SQLite call has failed.                                   *)
THEOREM EarlyReturnsFreeSlots == Spec => []SlotsFollowTasks
<1>1. FollowInv => SlotsFollowTasks
  BY DEF FollowInv, LeftNothing, SlotsFollowTasks, SlotLifetime
<1>2. QED
  BY <1>1, NothingIsLeft, PTL

(* A request turned away before its task exists is not left charged, as    *)
(* long as no SQLite call has failed, the refund's own included.           *)
THEOREM RefundsFollowRefusals == Spec => []ChargesFollowTasks
<1>1. FollowInv => ChargesFollowTasks
  BY DEF FollowInv, LeftNothing, ChargesFollowTasks, ChargedForWork
<1>2. QED
  BY <1>1, NothingIsLeft, PTL
-----------------------------------------------------------------------------
(* What a handler has stored by the time it goes on to the generation, and *)
(* what it has sent before it ends.                                        *)
TurnOK(r) ==
  /\ pc[r] # "done" => response[r] = "none"
  /\ pc[r] \in {"submit", "collect", "persist"} /\ Bound(r) /\ convLive => question[r]
  /\ response[r] = "answered" /\ Bound(r) /\ convLive => question[r] /\ answer[r]

TurnInv == \A r \in Requests : TurnOK(r)

(* A step of request r that leaves the other requests alone; the           *)
(* conversation may disappear, it never comes back.                        *)
LEMMA TurnOne ==
  ASSUME TurnInv, NEW r \in Requests, UNCHANGED shape, convLive' => convLive,
         \A q \in Requests \ {r} :
           /\ pc'[q] = pc[q] /\ response'[q] = response[q]
           /\ question'[q] = question[q] /\ answer'[q] = answer[q],
         TurnOK(r)'
  PROVE  TurnInv'
<1>1. ASSUME NEW q \in Requests, q # r
      PROVE  TurnOK(q)'
  BY <1>1, SameShape DEF TurnInv, TurnOK
<1>2. QED
  BY <1>1 DEF TurnInv

(* A request that is refused, fails, is timed out or left has no answer.   *)
LEMMA TurnEnds ==
  ASSUME TypeOK, TurnInv, NEW r \in Requests, NEW sent, sent # "answered", Finish(r, sent),
         UNCHANGED <<shape, storeVars>>
  PROVE  TurnInv'
<1>1. /\ UNCHANGED <<shape, convLive, question, answer>>
      /\ pc' = [pc EXCEPT ![r] = "done"]
      /\ response' = [response EXCEPT ![r] = sent]
  BY DEF Finish, Goto, storeVars
<1>2. pc'[r] = "done" /\ response'[r] = sent
  BY <1>1 DEF TypeOK
<1>3. TurnOK(r)'
  BY <1>2 DEF TurnOK
<1>4. QED
  BY <1>1, <1>3, TurnOne DEF TypeOK

LEMMA TurnStep ==
  ASSUME IInv, TurnInv, [Next]_vars
  PROVE  TurnInv'
<1> USE DEF IInv
<1>1. ASSUME NEW r \in Requests,
             \/ Reject(r) \/ SlotBusy(r) \/ CapabilityBusy(r) \/ QuotaExceeded(r)
             \/ QuotaFault(r) \/ AppendFault(r) \/ ConversationGone(r) \/ SubmitRefused(r)
             \/ CollectError(r) \/ CollectTimeout(r) \/ PersistFault(r)
             \/ StreamPersistFault(r) \/ StreamError(r) \/ StreamTimeout(r)
             \/ StreamDisconnect(r)
      PROVE  TurnInv'
  <2>1. /\ UNCHANGED <<shape, storeVars>>
        /\ \E sent : sent # "answered" /\ Finish(r, sent)
    BY <1>1 DEF Reject, SlotBusy, CapabilityBusy, QuotaExceeded, QuotaFault, AppendFault,
                ConversationGone, SubmitRefused, CollectError, CollectTimeout,
                PersistFault, StreamPersistFault, StreamError, StreamTimeout,
                StreamDisconnect
  <2>2. QED
    BY <2>1, TurnEnds
<1>2. ASSUME NEW r \in Requests, AcquireSlot(r)
      PROVE  TurnInv'
  <2>1. pc[r] = "arrive" /\ UNCHANGED <<shape, convLive, question, answer, response>>
    BY <1>2 DEF AcquireSlot, storeVars
  <2>2. pc' = [pc EXCEPT ![r] = IF ~V2(r) THEN "submit"
                                ELSE IF ExtraGuards(r) = {} THEN "quota" ELSE "capability"]
    BY <1>2 DEF AcquireSlot, Goto
  <2>3. ~V2(r) => ~Bound(r)
    <3>1. shape[r] \in AllShapes
      BY DEF TypeOK
    <3>2. QED
      BY <3>1 DEF AllShapes, V2, Bound
  <2>4. pc'[r] \in {"quota", "capability"} \/ (pc'[r] = "submit" /\ ~Bound(r))
    BY <2>2, <2>3 DEF TypeOK
  <2>5. response[r] = "none"
    BY <2>1 DEF TurnInv, TurnOK
  <2>6. TurnOK(r)'
    BY <2>1, <2>4, <2>5, SameShape DEF TurnOK
  <2>7. QED
    BY <2>1, <2>2, <2>6, TurnOne DEF TypeOK
<1>3. ASSUME NEW r \in Requests, AcquireCapability(r) \/ ChargeQuota(r)
      PROVE  TurnInv'
  <2>1. /\ pc[r] \in {"capability", "quota"}
        /\ UNCHANGED <<shape, convLive, question, answer, response>>
    BY <1>3 DEF AcquireCapability, ChargeQuota, storeVars
  <2>2. \E s : /\ pc' = [pc EXCEPT ![r] = s]
               /\ s \in {"quota", "append"} \/ (s = "submit" /\ ~Bound(r))
    BY <1>3 DEF AcquireCapability, ChargeQuota, Goto
  <2>3. response[r] = "none"
    BY <2>1 DEF TurnInv, TurnOK
  <2>4. pc'[r] \in {"quota", "append"} \/ (pc'[r] = "submit" /\ ~Bound(r))
    BY <2>2 DEF TypeOK
  <2>5. TurnOK(r)'
    BY <2>1, <2>3, <2>4, SameShape DEF TurnOK
  <2>6. QED
    BY <2>1, <2>2, <2>5, TurnOne DEF TypeOK
<1>4. ASSUME NEW r \in Requests, AppendQuestion(r)
      PROVE  TurnInv'
  <2>1. /\ pc[r] = "append" /\ pc' = [pc EXCEPT ![r] = "resume"]
        /\ UNCHANGED <<shape, convLive, answer, response>>
        /\ question' = [question EXCEPT ![r] = convLive]
    BY <1>4 DEF AppendQuestion, Goto
  <2>2. response'[r] = "none" /\ pc'[r] = "resume"
    BY <2>1 DEF TurnInv, TurnOK, TypeOK
  <2>3. TurnOK(r)'
    BY <2>2 DEF TurnOK
  <2>4. QED
    BY <2>1, <2>3, TurnOne DEF TypeOK
<1>5. ASSUME NEW r \in Requests, Submit(r)
      PROVE  TurnInv'
  <2>1. /\ pc[r] = "submit" \/ (pc[r] = "resume" /\ question[r])
        /\ pc' = [pc EXCEPT ![r] = "collect"]
        /\ UNCHANGED <<shape, convLive, question, answer, response>>
    BY <1>5 DEF Submit, ReadyToSubmit, Goto, storeVars
  <2>2. TurnOK(r)'
    BY <2>1, SameShape DEF TurnInv, TurnOK, TypeOK
  <2>3. QED
    BY <2>1, <2>2, TurnOne DEF TypeOK
<1>6. ASSUME NEW r \in Requests, CollectAnswer(r)
      PROVE  TurnInv'
  <2>1. /\ pc[r] = "collect" /\ TurnOK(r)
        /\ UNCHANGED <<shape, convLive, question, answer>>
    BY <1>6 DEF CollectAnswer, storeVars, TurnInv
  <2>2. CASE Bound(r)
    <3>1. pc' = [pc EXCEPT ![r] = "persist"] /\ UNCHANGED response
      BY <1>6, <2>2 DEF CollectAnswer, Goto
    <3>2. TurnOK(r)'
      BY <2>1, <3>1, SameShape DEF TurnOK, TypeOK
    <3>3. QED
      BY <2>1, <3>1, <3>2, TurnOne DEF TypeOK
  <2>3. CASE ~Bound(r)
    <3>1. /\ pc' = [pc EXCEPT ![r] = "done"]
          /\ response' = [response EXCEPT ![r] = "answered"]
      BY <1>6, <2>3 DEF CollectAnswer, Finish, Goto
    <3>2. TurnOK(r)'
      BY <2>1, <2>3, <3>1, SameShape DEF TurnOK, TypeOK
    <3>3. QED
      BY <2>1, <3>1, <3>2, TurnOne DEF TypeOK
  <2>4. QED
    BY <2>2, <2>3
<1>7. ASSUME NEW r \in Requests, PersistAnswer(r) \/ StreamAnswer(r)
      PROVE  TurnInv'
  <2>1. /\ pc[r] \in {"collect", "persist"} /\ TurnOK(r)
        /\ UNCHANGED <<shape, convLive, question>>
        /\ pc' = [pc EXCEPT ![r] = "done"]
        /\ response' = [response EXCEPT ![r] = "answered"]
    BY <1>7 DEF PersistAnswer, StreamAnswer, SentinelSeen, Finish, Goto, TurnInv
  <2>2. \E kept \in BOOLEAN : /\ answer' = [answer EXCEPT ![r] = kept]
                              /\ Bound(r) /\ convLive => kept
    BY <1>7 DEF PersistAnswer, StreamAnswer, TypeOK, Bound
  <2>3. Bound(r) /\ convLive => answer'[r]
    BY <2>2 DEF TypeOK
  <2>4. TurnOK(r)'
    BY <2>1, <2>3, SameShape DEF TurnOK, TypeOK
  <2>5. QED
    BY <2>1, <2>2, <2>4, TurnOne DEF TypeOK
<1>8. CASE \/ \E r \in Requests : Generate(r)
           \/ Shutdown \/ StartEmbedding \/ EndEmbedding \/ DeleteConversation
           \/ UNCHANGED vars
  <2>1. /\ UNCHANGED <<shape, pc, question, answer, response>>
        /\ convLive' => convLive
    BY <1>8 DEF Generate, StartTask, EndTask, DoneCallback, Shutdown, StartEmbedding,
                EndEmbedding, DeleteConversation, vars, storeVars
  <2>2. ASSUME NEW q \in Requests
        PROVE  TurnOK(q)'
    BY <2>1, SameShape DEF TurnInv, TurnOK
  <2>3. QED
    BY <2>2 DEF TurnInv
<1>9. QED
  BY <1>1, <1>2, <1>3, <1>4, <1>5, <1>6, <1>7, <1>8
     DEF Next, Admit, Reply, Terminated

(* Whoever was answered in a live conversation finds both messages of the  *)
(* turn in its history, whatever failed, timed out or was deleted between. *)
THEOREM AnsweredTurnsAreStored == Spec => []AnsweredTurnStored
<1>1. Init => TurnInv
  BY DEF Init, TurnInv, TurnOK
<1>2. IInv /\ TurnInv /\ [Next]_vars => TurnInv'
  BY TurnStep
<1>3. TurnInv => AnsweredTurnStored
  BY DEF TurnInv, TurnOK, AnsweredTurnStored
<1>4. QED
  BY <1>1, <1>2, <1>3, AdmissionSafe, PTL DEF Spec
=============================================================================
