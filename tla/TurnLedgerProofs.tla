--------------------------- MODULE TurnLedgerProofs ---------------------------
(* The first proofs about TurnLedger, for every set of sessions, every number *)
(* and kind of turns and every bound: its types, the session lock and the     *)
(* fence of a run.                                                            *)
EXTENDS TurnLedger, TLAPS

-----------------------------------------------------------------------------
(* Type correctness of TurnLedger, for every set of sessions, every number    *)
(* and kind of turns and every bound.                                         *)

(* Words and rows.                                                           *)

DeliveryStates == {"none", "pending", "delivered", "parked", "not_available"}
Classes == {"none"} \cup RetryClasses \cup ParkClasses

LEMMA StatusWords ==
    /\ "queued" \in Statuses /\ "running" \in Statuses /\ "delivering" \in Statuses
    /\ "done" \in Statuses /\ "error" \in Statuses /\ "cancelled" \in Statuses
    /\ "interrupted" \in Statuses /\ "parked" \in Statuses
    /\ "delivery_parked" \in Statuses
BY DEF Statuses

LEMMA ClassWords ==
    /\ "none" \in Classes /\ "backoff" \in Classes
    /\ "parked_access" \in Classes /\ "parked_terminal" \in Classes
    /\ "parked_ambiguous" \in Classes
    /\ RetryClasses \subseteq Classes
BY DEF Classes, RetryClasses, ParkClasses

LEMMA RunWords ==
    /\ "none" \in RunStates /\ "claimed" \in RunStates /\ "cleared" \in RunStates
    /\ "intended" \in RunStates /\ "provider" \in RunStates /\ "failed" \in RunStates
    /\ "result" \in RunStates /\ "delivering" \in RunStates
    /\ "confirmed" \in RunStates /\ "redeliver" \in RunStates
    /\ "resettle" \in RunStates /\ "unwind" \in RunStates
BY DEF RunStates

LEMMA FailureTypes ==
    /\ NoFailure \in Failures
    /\ \A kind \in {"cancelled", "retryable", "access", "terminal", "worked"} :
           [confirmed |-> FALSE, kind |-> kind] \in Failures
BY DEF NoFailure, Failures

\* A row stays a row when one of its fields is written.
LEMMA FieldTypes ==
    ASSUME NEW r \in TurnRow
    PROVE  /\ \A status \in Statuses : [r EXCEPT !.status = status] \in TurnRow
           /\ [r EXCEPT !.owner = NoOwner] \in TurnRow
           /\ \A flag \in BOOLEAN : /\ [r EXCEPT !.intended = flag] \in TurnRow
                                    /\ [r EXCEPT !.acked = flag] \in TurnRow
                                    /\ [r EXCEPT !.stop = flag] \in TurnRow
                                    /\ [r EXCEPT !.steered = flag] \in TurnRow
           /\ \A class \in Classes : [r EXCEPT !.class = class] \in TurnRow
           /\ \A delivery \in DeliveryStates : [r EXCEPT !.delivery = delivery] \in TurnRow
           /\ [r EXCEPT !.artifacts = "pending"] \in TurnRow
           /\ [r EXCEPT !.artifacts = "settled"] \in TurnRow
<1>1. NoOwner \in Nat
  BY DEF NoOwner
<1> QED
  BY <1>1 DEF TurnRow, Classes, DeliveryStates

LEMMA UpdateTypes ==
    ASSUME NEW r \in TurnRow
    PROVE  Abandoned(r) \in TurnRow /\ Relinquished(r) \in TurnRow
<1>1. NoOwner \in Nat
  BY DEF NoOwner
<1>2. Abandoned(r) \in TurnRow
  BY DEF Abandoned, TurnRow
<1>3. Relinquished(r) \in TurnRow
  BY <1>1 DEF Relinquished, TurnRow
<1> QED
  BY <1>2, <1>3

LEMMA EndedType ==
    ASSUME NEW t \in Turns, turn[t] \in TurnRow, NEW status \in Statuses
    PROVE  Ended(t, status) \in TurnRow
BY DEF Ended, TurnRow, NoOwner

LEMMA RequeuedType ==
    ASSUME NEW t \in Turns, turn[t] \in TurnRow, NEW class \in Classes
    PROVE  Requeued(t, class) \in TurnRow
BY StatusWords DEF Requeued, TurnRow, NoOwner, Classes

LEMMA ResumedType ==
    ASSUME NEW t \in Turns, turn[t] \in TurnRow
    PROVE  Resumed(t) \in TurnRow
BY StatusWords DEF Resumed, TurnRow

LEMMA InterruptedType ==
    ASSUME NEW t \in Turns, turn[t] \in TurnRow
    PROVE  Interrupted(t) \in TurnRow
<1>1. [turn[t] EXCEPT !.status = "interrupted", !.delivery = "not_available"] \in TurnRow
  BY StatusWords DEF TurnRow
<1> QED
  BY <1>1, UpdateTypes DEF Interrupted

LEMMA ClaimedType ==
    ASSUME NEW t \in Turns, turn[t] \in TurnRow, instance \in Nat
    PROVE  Claimed(t) \in TurnRow
<1>1. turn[t].attempt \in Nat
  BY DEF TurnRow
<1>2. turn[t].attempt + 1 \in Nat
  BY <1>1
<1>3. \A n \in Nat : [turn[t] EXCEPT !.status = "running", !.owner = instance, !.attempt = n,
                         !.class = "none", !.intended = FALSE, !.stop = FALSE] \in TurnRow
  BY StatusWords DEF TurnRow
<1> QED
  BY <1>2, <1>3 DEF Claimed

-----------------------------------------------------------------------------
(* The ledger.                                                               *)

LEMMA WriteType ==
    ASSUME turn \in [Turns -> TurnRow], NEW t \in Turns, NEW row \in TurnRow,
           turn' = [turn EXCEPT ![t] = row]
    PROVE  turn' \in [Turns -> TurnRow]
OBVIOUS

LEMMA ResumeType ==
    ASSUME turn \in [Turns -> TurnRow], NEW S
    PROVE  AfterResume(S) \in [Turns -> TurnRow]
BY ResumedType DEF AfterResume

LEMMA LedgerType == TypeOK /\ Next => turn' \in [Turns -> TurnRow]
<1> SUFFICES ASSUME TypeOK, Next PROVE turn' \in [Turns -> TurnRow]
  OBVIOUS
<1>1. turn \in [Turns -> TurnRow]
  BY DEF TypeOK
<1>2. instance \in Nat
  <2>1. instance \in Nat \ {0}
    BY DEF TypeOK
  <2> QED
    BY <2>1
<1>3. ASSUME NEW t \in Turns, AcquireRunning(t) PROVE turn' \in [Turns -> TurnRow]
  BY <1>3, <1>1, <1>2, ClaimedType DEF AcquireRunning
<1>4. ASSUME NEW t \in Turns, AcquireQueued(t) PROVE turn' \in [Turns -> TurnRow]
  <2>1. [turn EXCEPT ![t].status = "queued"] \in [Turns -> TurnRow]
    BY <1>1, FieldTypes, StatusWords
  <2>2. \A u \in Turns : Resumed(u) \in TurnRow
    BY <1>1, ResumedType
  <2> QED
    BY <1>4, <2>1, <2>2 DEF AcquireQueued
<1>5. ASSUME NEW t \in Turns, AcceptQueued(t) PROVE turn' \in [Turns -> TurnRow]
  BY <1>5, <1>1, FieldTypes, StatusWords DEF AcceptQueued
<1>6. ASSUME NEW t \in Turns, ClaimNextQueuedTurn(t) PROVE turn' \in [Turns -> TurnRow]
  BY <1>6, <1>1, <1>2, ClaimedType, EndedType, StatusWords DEF ClaimNextQueuedTurn
<1>7. ASSUME NEW t \in Turns, RecordIntent(t) PROVE turn' \in [Turns -> TurnRow]
  BY <1>7, <1>1, FieldTypes DEF RecordIntent, service
<1>8. ASSUME NEW t \in Turns, AcknowledgeInput(t) PROVE turn' \in [Turns -> TurnRow]
  BY <1>8, <1>1, FieldTypes DEF AcknowledgeInput
<1>9. ASSUME NEW t \in Turns, Steer(t) PROVE turn' \in [Turns -> TurnRow]
  BY <1>9, <1>1, FieldTypes DEF Steer
<1>10. ASSUME NEW t \in Turns, ProviderReturns(t) PROVE turn' \in [Turns -> TurnRow]
  <2>1. [turn[t] EXCEPT !.artifacts = "pending"] \in TurnRow
    BY <1>1, FieldTypes
  <2>2. turn' = [turn EXCEPT ![t].artifacts = "pending"] \/ turn' = turn
    BY <1>10 DEF ProviderReturns
  <2> QED
    BY <1>1, <2>1, <2>2
<1>11. ASSUME NEW t \in Turns, MarkDelivering(t) PROVE turn' \in [Turns -> TurnRow]
  <2>1. [turn[t] EXCEPT !.status = "delivering", !.delivery = "pending"] \in TurnRow
    BY <1>1, StatusWords DEF TurnRow
  <2> QED
    BY <1>11, <1>1, <2>1 DEF MarkDelivering
<1>12. ASSUME NEW t \in Turns, RequeueOnDrain(t) PROVE turn' \in [Turns -> TurnRow]
  <2>1. Requeued(t, "backoff") \in TurnRow /\ Requeued(t, "none") \in TurnRow
    BY <1>1, RequeuedType, ClassWords
  <2>2. [Requeued(t, "none") EXCEPT !.intended = FALSE] \in TurnRow
    BY <2>1, FieldTypes
  <2> QED
    BY <1>12, <1>1, <2>1, <2>2 DEF RequeueOnDrain
<1>13. ASSUME NEW t \in Turns, SettleCancelled(t) PROVE turn' \in [Turns -> TurnRow]
  <2>1. Abandoned(Ended(t, "cancelled")) \in TurnRow
    BY <1>1, EndedType, UpdateTypes, StatusWords
  <2> QED
    BY <1>13, <1>1, <2>1 DEF SettleCancelled, Settles
<1>14. ASSUME NEW t \in Turns, SettleRetry(t) PROVE turn' \in [Turns -> TurnRow]
  <2>1. \A class \in RetryClasses : Requeued(t, class) \in TurnRow
    BY <1>1, RequeuedType, ClassWords
  <2> QED
    BY <1>14, <1>1, <2>1 DEF SettleRetry, Settles
<1>15. ASSUME NEW t \in Turns, SettlePark(t) PROVE turn' \in [Turns -> TurnRow]
  <2>1. \A class \in ParkClasses : [Ended(t, "parked") EXCEPT !.class = class] \in TurnRow
    BY <1>1, EndedType, FieldTypes, StatusWords DEF Classes
  <2>2. \A class \in ParkClasses :
           turn' = [turn EXCEPT ![t] = [Ended(t, "parked") EXCEPT !.class = class]]
               => turn' \in [Turns -> TurnRow]
    BY <1>1, <2>1
  <2> QED
    BY <1>15, <2>2 DEF SettlePark, Settles, ParkClasses
<1>16. ASSUME NEW t \in Turns, SettleFail(t) PROVE turn' \in [Turns -> TurnRow]
  <2>1. Abandoned(Ended(t, "error")) \in TurnRow
    BY <1>1, EndedType, UpdateTypes, StatusWords
  <2> QED
    BY <1>16, <1>1, <2>1 DEF SettleFail, Settles
<1>17. ASSUME NEW t \in Turns, RunRejects(t) PROVE turn' \in [Turns -> TurnRow]
  <2>1. Requeued(t, "backoff") \in TurnRow /\ Ended(t, "error") \in TurnRow
    BY <1>1, RequeuedType, EndedType, ClassWords, StatusWords
  <2>2. /\ [Ended(t, "parked") EXCEPT !.class = "parked_terminal"] \in TurnRow
        /\ [Ended(t, "parked") EXCEPT !.class = "parked_ambiguous"] \in TurnRow
    BY <1>1, EndedType, FieldTypes, ClassWords, StatusWords
  <2>3. CASE UNCHANGED ledger
    BY <1>1, <2>3 DEF ledger
  <2>4. CASE SettleSetupFailure(t)
    BY <1>1, <2>1, <2>2, <2>4 DEF SettleSetupFailure, ledger
  <2> QED
    BY <1>17, <2>3, <2>4 DEF RunRejects
<1>18. ASSUME NEW t \in Turns, Unwind(t) PROVE turn' \in [Turns -> TurnRow]
  BY <1>18, <1>1, ResumeType DEF Unwind
<1>19. ASSUME NEW t \in Turns, Delivered(t) PROVE turn' \in [Turns -> TurnRow]
  BY <1>19, <1>1, FieldTypes DEF Delivered, DeliveryStates
<1>20. ASSUME NEW t \in Turns, DeliveryParked(t) PROVE turn' \in [Turns -> TurnRow]
  <2>1. [Ended(t, "delivery_parked") EXCEPT !.delivery = "parked"] \in TurnRow
    BY <1>1, EndedType, FieldTypes, StatusWords DEF DeliveryStates
  <2>2. Abandoned([Ended(t, "delivery_parked") EXCEPT !.delivery = "parked"]) \in TurnRow
    BY <2>1, UpdateTypes
  <2> QED
    BY <1>20, <1>1, <2>2 DEF DeliveryParked
<1>21. ASSUME NEW t \in Turns, Relinquish(t) PROVE turn' \in [Turns -> TurnRow]
  BY <1>21, <1>1, UpdateTypes DEF Relinquish
<1>22. ASSUME NEW t \in Turns, FinishDelivered(t) PROVE turn' \in [Turns -> TurnRow]
  BY <1>22, <1>1, EndedType, StatusWords DEF FinishDelivered
<1>23. ASSUME NEW t \in Turns, SettleArtifacts(t) PROVE turn' \in [Turns -> TurnRow]
  BY <1>23, <1>1, FieldTypes DEF SettleArtifacts
<1>24. ASSUME NEW t \in Turns, RecoverRunning(t) PROVE turn' \in [Turns -> TurnRow]
  <2>1. Abandoned(Ended(t, "cancelled")) \in TurnRow
    BY <1>1, EndedType, UpdateTypes, StatusWords
  <2>2. Requeued(t, "backoff") \in TurnRow /\ Interrupted(t) \in TurnRow
    BY <1>1, RequeuedType, InterruptedType, ClassWords
  <2> QED
    BY <1>24, <1>1, <2>1, <2>2 DEF RecoverRunning
<1>25. ASSUME NEW t \in Turns, RecoverDelivering(t) PROVE turn' \in [Turns -> TurnRow]
  <2>1. Ended(t, "done") \in TurnRow
    BY <1>1, EndedType, StatusWords
  <2>2. [turn[t] EXCEPT !.owner = instance] \in TurnRow
    BY <1>1, <1>2 DEF TurnRow
  <2> QED
    BY <1>25, <1>1, <2>1, <2>2 DEF RecoverDelivering
<1>26. ASSUME NEW t \in Turns, SweepGhostRunningTurn(t) PROVE turn' \in [Turns -> TurnRow]
  <2>1. Abandoned(Ended(t, "cancelled")) \in TurnRow
    BY <1>1, EndedType, UpdateTypes, StatusWords
  <2>2. Requeued(t, "backoff") \in TurnRow /\ Interrupted(t) \in TurnRow
    BY <1>1, RequeuedType, InterruptedType, ClassWords
  <2> QED
    BY <1>26, <1>1, <2>1, <2>2 DEF SweepGhostRunningTurn
<1>27. ASSUME NEW t \in Turns, ReconcileNativeResult(t) PROVE turn' \in [Turns -> TurnRow]
  <2>1. Ended(t, "done") \in TurnRow
    BY <1>1, EndedType, StatusWords
  <2>2. [turn[t] EXCEPT !.status = "delivering", !.owner = instance, !.delivery = "pending"]
            \in TurnRow
    BY <1>1, <1>2, StatusWords DEF TurnRow
  <2> QED
    BY <1>27, <1>1, <2>1, <2>2 DEF ReconcileNativeResult
<1>28. ASSUME NEW t \in Turns, ReconcileNativeFailure(t) PROVE turn' \in [Turns -> TurnRow]
  <2>1. /\ [Ended(t, "cancelled") EXCEPT !.delivery = "delivered"] \in TurnRow
        /\ [Ended(t, "error") EXCEPT !.delivery = "delivered"] \in TurnRow
    BY <1>1, EndedType, FieldTypes, StatusWords DEF DeliveryStates
  <2> QED
    BY <1>28, <1>1, <2>1 DEF ReconcileNativeFailure
<1>29. ASSUME NEW t \in Turns, RequestStop(t) PROVE turn' \in [Turns -> TurnRow]
  <2>1. [turn[t] EXCEPT !.stop = TRUE] \in TurnRow
    BY <1>1, FieldTypes
  <2>2. \A u \in Turns : [turn[u] EXCEPT !.status = "cancelled"] \in TurnRow
    BY <1>1, FieldTypes, StatusWords
  <2> QED
    BY <1>29, <1>1, <2>1, <2>2 DEF RequestStop
<1>30. ASSUME NEW t \in Turns, CancelQueued(t) PROVE turn' \in [Turns -> TurnRow]
  BY <1>30, <1>1, FieldTypes, StatusWords DEF CancelQueued
<1>31. ASSUME NEW t \in Turns, ResumeParkedSessionTurn(t) PROVE turn' \in [Turns -> TurnRow]
  BY <1>31, <1>1, ResumedType DEF ResumeParkedSessionTurn
<1>32. ASSUME NEW t \in Turns,
           CheckStop(t) \/ PreparationFails(t) \/ CallProvider(t) \/
           ProviderCancels(t) \/ ProviderFails(t) \/ SettleCut(t)
     PROVE turn' \in [Turns -> TurnRow]
  BY <1>1, <1>32 DEF ledger, CheckStop, PreparationFails, CallProvider, ProviderCancels, ProviderFails, SettleCut
<1>33. ASSUME NEW class \in {"auth_wait", "usage_wait"}, ReleaseHolds(class)
     PROVE turn' \in [Turns -> TurnRow]
  <2>1. \A t \in Turns : [turn[t] EXCEPT !.class = "backoff"] \in TurnRow
    BY <1>1, FieldTypes, ClassWords
  <2>2. AfterResume(Sessions) \in [Turns -> TurnRow]
    BY <1>1, ResumeType
  <2> QED
    BY <1>33, <1>1, <2>1, <2>2 DEF ReleaseHolds
<1>34. ASSUME \/ \E s \in Sessions : Archive(s) \/ Restore(s)
            \/ \E g \in Gates \cup {"open"} : SetGate(g)
            \/ Drain \/ Crash
     PROVE turn' \in [Turns -> TurnRow]
  BY <1>34, <1>1 DEF Archive, Restore, SetGate, Drain, Crash, ledger
<1>35. CASE StartSessionTurnQueue
  BY <1>35, <1>1, ResumeType DEF StartSessionTurnQueue
<1>36. ASSUME NEW t \in Turns, RequeueProvenUnsent(t) PROVE turn' \in [Turns -> TurnRow]
  BY <1>36, <1>1, RequeuedType, ClassWords DEF RequeueProvenUnsent
<1>37. ASSUME NEW t \in Turns, SettleSupersededParkedTurn(t) PROVE turn' \in [Turns -> TurnRow]
  <2>1. [turn[t] EXCEPT !.status = "interrupted", !.class = "none", !.delivery = "not_available"]
            \in TurnRow
    BY <1>1, StatusWords DEF TurnRow
  <2> QED
    BY <1>37, <1>1, <2>1 DEF SettleSupersededParkedTurn
<1> QED
  BY <1>3, <1>4, <1>5, <1>6, <1>7, <1>8, <1>9, <1>10, <1>11, <1>12, <1>13, <1>14, <1>15,
     <1>16, <1>17, <1>18, <1>19, <1>20, <1>21, <1>22, <1>23, <1>24, <1>25, <1>26, <1>27,
     <1>28, <1>29, <1>30, <1>31, <1>32, <1>33, <1>34, <1>35, <1>36, <1>37
     DEF Next, Admit, Runs, Settle, Deliver, Recover, Request

-----------------------------------------------------------------------------
(* The sessions.                                                             *)

SessionStatuses == {"idle", "running", "error", "archived"}

LEMMA ReleaseType ==
    ASSUME sessionStatus \in [Sessions -> SessionStatuses], NEW t \in Turns,
           NEW status \in {"idle", "error"}, Release(t, status)
    PROVE  sessionStatus' \in [Sessions -> SessionStatuses]
BY DEF Release, SessionStatuses

LEMMA SessionType == TypeOK /\ Next => sessionStatus' \in [Sessions -> SessionStatuses]
<1> SUFFICES ASSUME TypeOK, Next PROVE sessionStatus' \in [Sessions -> SessionStatuses]
  OBVIOUS
<1>1. sessionStatus \in [Sessions -> SessionStatuses]
  BY DEF TypeOK, SessionStatuses
<1>2. "running" \in SessionStatuses /\ "idle" \in SessionStatuses /\ "archived" \in SessionStatuses
  BY DEF SessionStatuses
<1> DEFINE Goal == sessionStatus' \in [Sessions -> SessionStatuses]
<1>3. ASSUME NEW t \in Turns, AcquireRunning(t) PROVE Goal
  BY <1>3, <1>1, <1>2 DEF AcquireRunning
<1>4. ASSUME NEW t \in Turns, ClaimNextQueuedTurn(t) PROVE Goal
  BY <1>4, <1>1, <1>2 DEF ClaimNextQueuedTurn
<1>5. ASSUME NEW t \in Turns,
            AcquireQueued(t) \/ AcceptQueued(t) \/ CheckStop(t) \/
            PreparationFails(t) \/ RecordIntent(t) \/ CallProvider(t) \/
            AcknowledgeInput(t) \/ Steer(t) \/ ProviderCancels(t) \/
            ProviderFails(t) \/ ProviderReturns(t) \/ MarkDelivering(t) \/
            SettleCut(t) \/ Unwind(t) \/ Delivered(t) \/ Relinquish(t) \/
            SettleArtifacts(t) \/ RequestStop(t) \/ CancelQueued(t) \/
            ResumeParkedSessionTurn(t)
     PROVE Goal
  BY <1>5, <1>1 DEF AcquireQueued, AcceptQueued, CheckStop, Step, Fails,
     PreparationFails, RecordIntent, CallProvider, AcknowledgeInput, Steer,
     ProviderCancels, ProviderFails, ProviderReturns, MarkDelivering, SettleCut, Unwind,
     Delivered, Relinquish, Leaves, SettleArtifacts, RequestStop, CancelQueued,
     ResumeParkedSessionTurn, ledger
<1>6. ASSUME NEW t \in Turns, RequeueOnDrain(t) PROVE Goal
  BY <1>6, <1>1, ReleaseType DEF RequeueOnDrain, Step
<1>7. ASSUME NEW t \in Turns, SettleCancelled(t) PROVE Goal
  BY <1>7, <1>1, ReleaseType DEF SettleCancelled, Settles, Step
<1>8. ASSUME NEW t \in Turns, SettleRetry(t) PROVE Goal
  BY <1>8, <1>1, ReleaseType DEF SettleRetry, Settles, Step
<1>9. ASSUME NEW t \in Turns, SettlePark(t) PROVE Goal
  BY <1>9, <1>1, ReleaseType DEF SettlePark, Settles, Step
<1>10. ASSUME NEW t \in Turns, SettleFail(t) PROVE Goal
  BY <1>10, <1>1, ReleaseType DEF SettleFail, Settles, Step
<1>11. ASSUME NEW t \in Turns, DeliveryParked(t) PROVE Goal
  BY <1>11, <1>1, ReleaseType DEF DeliveryParked, Leaves
<1>12. ASSUME NEW t \in Turns, FinishDelivered(t) PROVE Goal
  BY <1>12, <1>1, ReleaseType DEF FinishDelivered, Leaves
<1>13. ASSUME NEW t \in Turns, RecoverRunning(t) PROVE Goal
  BY <1>13, <1>1, ReleaseType DEF RecoverRunning, Recovers
<1>14. ASSUME NEW t \in Turns, RecoverDelivering(t) PROVE Goal
  BY <1>14, <1>1, ReleaseType DEF RecoverDelivering, Recovers
<1>15. ASSUME NEW t \in Turns, SweepGhostRunningTurn(t) PROVE Goal
  BY <1>15, <1>1, ReleaseType DEF SweepGhostRunningTurn
<1>16. ASSUME NEW t \in Turns, ReconcileNativeResult(t) PROVE Goal
  BY <1>16, <1>1, ReleaseType DEF ReconcileNativeResult
<1>17. ASSUME NEW t \in Turns, ReconcileNativeFailure(t) PROVE Goal
  BY <1>17, <1>1, ReleaseType DEF ReconcileNativeFailure
<1>18. ASSUME NEW t \in Turns, RunRejects(t) PROVE Goal
  BY <1>18, <1>1, ReleaseType DEF RunRejects, SettleSetupFailure, ledger
<1>19. ASSUME NEW s \in Sessions, Archive(s) PROVE Goal
  BY <1>19, <1>1, <1>2 DEF Archive
<1>20. ASSUME NEW s \in Sessions, Restore(s) PROVE Goal
  BY <1>20, <1>1, <1>2 DEF Restore
<1>21. ASSUME NEW g \in Gates \cup {"open"}, SetGate(g) PROVE Goal
  BY <1>21, <1>1 DEF SetGate, ledger
<1>22. ASSUME NEW class \in {"auth_wait", "usage_wait"}, ReleaseHolds(class) PROVE Goal
  BY <1>22, <1>1 DEF ReleaseHolds
<1>23. CASE Drain
  BY <1>23, <1>1 DEF Drain, ledger
<1>24. CASE Crash
  BY <1>24, <1>1 DEF Crash, ledger
<1>25. CASE StartSessionTurnQueue
  BY <1>25, <1>1 DEF StartSessionTurnQueue
<1>26. ASSUME NEW t \in Turns, RequeueProvenUnsent(t) PROVE Goal
  BY <1>26, <1>1, <1>2 DEF RequeueProvenUnsent
<1>27. ASSUME NEW t \in Turns, SettleSupersededParkedTurn(t) PROVE Goal
  BY <1>27, <1>1 DEF SettleSupersededParkedTurn
<1> QED
  BY <1>3, <1>4, <1>5, <1>6, <1>7, <1>8, <1>9, <1>10, <1>11, <1>12, <1>13, <1>14, <1>15,
     <1>16, <1>17, <1>18, <1>19, <1>20, <1>21, <1>22, <1>23, <1>24, <1>25, <1>26, <1>27
     DEF Next, Admit, Runs, Settle, Deliver, Recover, Request

-----------------------------------------------------------------------------
(* The runs.                                                                 *)

LEMMA RunType == TypeOK /\ Next => run' \in [Turns -> RunStates] /\ failure' \in [Turns -> Failures]
<1> SUFFICES ASSUME TypeOK, Next
             PROVE  run' \in [Turns -> RunStates] /\ failure' \in [Turns -> Failures]
  OBVIOUS
<1>1. run \in [Turns -> RunStates] /\ failure \in [Turns -> Failures]
  BY DEF TypeOK
<1> DEFINE Goal == run' \in [Turns -> RunStates] /\ failure' \in [Turns -> Failures]
<1>2. ASSUME NEW t \in Turns,
            AcquireQueued(t) \/ AcceptQueued(t) \/ AcknowledgeInput(t) \/
            Steer(t) \/ SettleArtifacts(t) \/ RecoverRunning(t) \/
            SweepGhostRunningTurn(t) \/ ReconcileNativeFailure(t) \/
            RequestStop(t) \/ CancelQueued(t) \/ ResumeParkedSessionTurn(t)
     PROVE Goal
  BY <1>2, <1>1 DEF AcquireQueued, AcceptQueued, AcknowledgeInput, Steer,
     SettleArtifacts, RecoverRunning, Recovers, SweepGhostRunningTurn,
     ReconcileNativeFailure, RequestStop, CancelQueued, ResumeParkedSessionTurn, process
<1>3. ASSUME NEW t \in Turns, AcquireRunning(t) PROVE Goal
  BY <1>3, <1>1, RunWords, FailureTypes DEF AcquireRunning
<1>4. ASSUME NEW t \in Turns, ClaimNextQueuedTurn(t) PROVE Goal
  BY <1>4, <1>1, RunWords, FailureTypes DEF ClaimNextQueuedTurn
<1>5. ASSUME NEW t \in Turns, CheckStop(t) PROVE Goal
  BY <1>5, <1>1, RunWords, FailureTypes DEF CheckStop, Step, Fails
<1>6. ASSUME NEW t \in Turns, PreparationFails(t) PROVE Goal
  <2>1. \A f \in Failures : Fails(t, "cleared", f) => Goal
    BY <1>1, RunWords DEF Fails, Step
  <2>2. Fails(t, "claimed", NoFailure) => Goal
    BY <1>1, RunWords, FailureTypes DEF Fails, Step
  <2> QED
    BY <1>6, <2>1, <2>2, FailureTypes DEF PreparationFails
<1>7. ASSUME NEW t \in Turns, RecordIntent(t) PROVE Goal
  BY <1>7, <1>1, RunWords, FailureTypes DEF RecordIntent, Step, Fails
<1>8. ASSUME NEW t \in Turns, CallProvider(t) PROVE Goal
  BY <1>8, <1>1, RunWords, FailureTypes DEF CallProvider, Step
<1>9. ASSUME NEW t \in Turns, ProviderCancels(t) PROVE Goal
  BY <1>9, <1>1, RunWords, FailureTypes DEF ProviderCancels, Step, Fails
<1>10. ASSUME NEW t \in Turns, ProviderFails(t) PROVE Goal
  BY <1>10, <1>1, RunWords, FailureTypes DEF ProviderFails, Step, Fails
<1>11. ASSUME NEW t \in Turns, ProviderReturns(t) PROVE Goal
  BY <1>11, <1>1, RunWords, FailureTypes DEF ProviderReturns, Step
<1>12. ASSUME NEW t \in Turns, MarkDelivering(t) PROVE Goal
  BY <1>12, <1>1, RunWords, FailureTypes DEF MarkDelivering, Step, Fails
<1>13. ASSUME NEW t \in Turns, RequeueOnDrain(t) PROVE Goal
  BY <1>13, <1>1, RunWords, FailureTypes DEF RequeueOnDrain, Step
<1>14. ASSUME NEW t \in Turns, SettleCancelled(t) PROVE Goal
  BY <1>14, <1>1, RunWords, FailureTypes DEF SettleCancelled, Settles, Step
<1>15. ASSUME NEW t \in Turns, SettleRetry(t) PROVE Goal
  BY <1>15, <1>1, RunWords, FailureTypes DEF SettleRetry, Settles, Step
<1>16. ASSUME NEW t \in Turns, SettlePark(t) PROVE Goal
  BY <1>16, <1>1, RunWords, FailureTypes DEF SettlePark, Settles, Step
<1>17. ASSUME NEW t \in Turns, SettleFail(t) PROVE Goal
  BY <1>17, <1>1, RunWords, FailureTypes DEF SettleFail, Settles, Step
<1>18. ASSUME NEW t \in Turns, SettleCut(t) PROVE Goal
  BY <1>18, <1>1, RunWords, FailureTypes DEF SettleCut, Step
<1>19. ASSUME NEW t \in Turns, RunRejects(t) PROVE Goal
  BY <1>19, <1>1, RunWords, FailureTypes DEF RunRejects
<1>20. ASSUME NEW t \in Turns, Unwind(t) PROVE Goal
  BY <1>20, <1>1, RunWords, FailureTypes DEF Unwind, Step
<1>21. ASSUME NEW t \in Turns, Delivered(t) PROVE Goal
  BY <1>21, <1>1, RunWords, FailureTypes DEF Delivered, Step
<1>22. ASSUME NEW t \in Turns, DeliveryParked(t) PROVE Goal
  BY <1>22, <1>1, RunWords, FailureTypes DEF DeliveryParked, Leaves
<1>23. ASSUME NEW t \in Turns, Relinquish(t) PROVE Goal
  BY <1>23, <1>1, RunWords, FailureTypes DEF Relinquish, Leaves
<1>24. ASSUME NEW t \in Turns, FinishDelivered(t) PROVE Goal
  BY <1>24, <1>1, RunWords, FailureTypes DEF FinishDelivered, Leaves
<1>25. ASSUME NEW t \in Turns, RecoverDelivering(t) PROVE Goal
  BY <1>25, <1>1, RunWords, FailureTypes DEF RecoverDelivering, Recovers
<1>26. ASSUME NEW t \in Turns, ReconcileNativeResult(t) PROVE Goal
  BY <1>26, <1>1, RunWords, FailureTypes DEF ReconcileNativeResult
<1>27. ASSUME NEW s \in Sessions, Archive(s) PROVE Goal
  BY <1>27, <1>1 DEF Archive, process
<1>28. ASSUME NEW s \in Sessions, Restore(s) PROVE Goal
  BY <1>28, <1>1 DEF Restore, process
<1>29. ASSUME NEW g \in Gates \cup {"open"}, SetGate(g) PROVE Goal
  BY <1>29, <1>1 DEF SetGate, process
<1>30. ASSUME NEW class \in {"auth_wait", "usage_wait"}, ReleaseHolds(class) PROVE Goal
  BY <1>30, <1>1 DEF ReleaseHolds, process
<1>31. CASE Drain
  BY <1>31, <1>1 DEF Drain
<1>32. CASE Crash
  BY <1>32, <1>1, RunWords, FailureTypes DEF Crash
<1>33. CASE StartSessionTurnQueue
  BY <1>33, <1>1 DEF StartSessionTurnQueue
<1>34. ASSUME NEW t \in Turns, RequeueProvenUnsent(t) PROVE Goal
  BY <1>34, <1>1 DEF RequeueProvenUnsent, process
<1>35. ASSUME NEW t \in Turns, SettleSupersededParkedTurn(t) PROVE Goal
  BY <1>35, <1>1 DEF SettleSupersededParkedTurn, process
<1> QED
  BY <1>2, <1>3, <1>4, <1>5, <1>6, <1>7, <1>8, <1>9, <1>10, <1>11, <1>12, <1>13, <1>14,
     <1>15, <1>16, <1>17, <1>18, <1>19, <1>20, <1>21, <1>22, <1>23, <1>24, <1>25, <1>26,
     <1>27, <1>28, <1>29, <1>30, <1>31, <1>32, <1>33, <1>34, <1>35
     DEF Next, Admit, Runs, Settle, Deliver, Recover, Request

-----------------------------------------------------------------------------
(* The rest.                                                                 *)

RestOK ==
    /\ gate \in {"open", "drain", "paused"}
    /\ instance \in Nat \ {0}
    /\ phase \in {"recovering", "serving", "stopping"}
    /\ queueRuns \subseteq Turns
    /\ grants \subseteq Sessions
    /\ toRecover \subseteq Turns
    /\ effects \in [Turns -> BOOLEAN]
    /\ revived \subseteq Turns /\ thrown \subseteq Turns

LEMMA RestType == TypeOK /\ Next => RestOK'
<1> SUFFICES ASSUME TypeOK, Next PROVE RestOK'
  OBVIOUS
<1> USE DEF history
<1>1. RestOK
  BY DEF TypeOK, RestOK
<1>2. \A t \in Turns : SessionOf[t] \in Sessions
  BY SessionOfAssumption
<1>3. ASSUME NEW t \in Turns, AcquireQueued(t) PROVE RestOK'
  BY <1>3, <1>1, <1>2 DEF AcquireQueued, service, RestOK
<1>4. ASSUME NEW t \in Turns, AcquireRunning(t) PROVE RestOK'
  BY <1>4, <1>1 DEF AcquireRunning, service, process, RestOK
<1>5. ASSUME NEW t \in Turns, AcceptQueued(t) PROVE RestOK'
  BY <1>5, <1>1 DEF AcceptQueued, service, process, RestOK
<1>6. ASSUME NEW t \in Turns, ClaimNextQueuedTurn(t) PROVE RestOK'
  BY <1>6, <1>1 DEF ClaimNextQueuedTurn, service, process, RestOK
<1>7. ASSUME NEW t \in Turns, CheckStop(t) PROVE RestOK'
  BY <1>7, <1>1 DEF CheckStop, Step, Fails, service, process, RestOK
<1>8. ASSUME NEW t \in Turns, PreparationFails(t) PROVE RestOK'
  BY <1>8, <1>1 DEF PreparationFails, Step, Fails, service, process, RestOK
<1>9. ASSUME NEW t \in Turns, RecordIntent(t) PROVE RestOK'
  BY <1>9, <1>1 DEF RecordIntent, Step, Fails, service, process, RestOK
<1>10. ASSUME NEW t \in Turns, CallProvider(t) PROVE RestOK'
  BY <1>10, <1>1 DEF CallProvider, Step, service, process, RestOK
<1>11. ASSUME NEW t \in Turns, AcknowledgeInput(t) PROVE RestOK'
  BY <1>11, <1>1 DEF AcknowledgeInput, service, process, RestOK
<1>12. ASSUME NEW t \in Turns, Steer(t) PROVE RestOK'
  BY <1>12, <1>1 DEF Steer, service, process, RestOK
<1>13. ASSUME NEW t \in Turns, ProviderCancels(t) PROVE RestOK'
  BY <1>13, <1>1 DEF ProviderCancels, Step, Fails, service, process, RestOK
<1>14. ASSUME NEW t \in Turns, ProviderFails(t) PROVE RestOK'
  BY <1>14, <1>1 DEF ProviderFails, Step, Fails, service, process, RestOK
<1>15. ASSUME NEW t \in Turns, ProviderReturns(t) PROVE RestOK'
  BY <1>15, <1>1 DEF ProviderReturns, Step, service, process, RestOK
<1>16. ASSUME NEW t \in Turns, MarkDelivering(t) PROVE RestOK'
  BY <1>16, <1>1 DEF MarkDelivering, Step, Fails, service, process, RestOK
<1>17. ASSUME NEW t \in Turns, RequeueOnDrain(t) PROVE RestOK'
  BY <1>17, <1>1 DEF RequeueOnDrain, Step, service, process, RestOK
<1>18. ASSUME NEW t \in Turns, SettleCancelled(t) PROVE RestOK'
  BY <1>18, <1>1 DEF SettleCancelled, Settles, Step, service, process, RestOK
<1>19. ASSUME NEW t \in Turns, SettleRetry(t) PROVE RestOK'
  BY <1>19, <1>1 DEF SettleRetry, Settles, Step, service, process, RestOK
<1>20. ASSUME NEW t \in Turns, SettlePark(t) PROVE RestOK'
  BY <1>20, <1>1 DEF SettlePark, Settles, Step, service, process, RestOK
<1>21. ASSUME NEW t \in Turns, SettleFail(t) PROVE RestOK'
  BY <1>21, <1>1 DEF SettleFail, Settles, Step, service, process, RestOK
<1>22. ASSUME NEW t \in Turns, SettleCut(t) PROVE RestOK'
  BY <1>22, <1>1 DEF SettleCut, Step, service, process, RestOK
<1>23. ASSUME NEW t \in Turns, RunRejects(t) PROVE RestOK'
  BY <1>23, <1>1 DEF RunRejects, service, process, RestOK
<1>24. ASSUME NEW t \in Turns, Unwind(t) PROVE RestOK'
  BY <1>24, <1>1 DEF Unwind, Step, service, process, RestOK
<1>25. ASSUME NEW t \in Turns, Delivered(t) PROVE RestOK'
  BY <1>25, <1>1 DEF Delivered, Step, service, process, RestOK
<1>26. ASSUME NEW t \in Turns, DeliveryParked(t) PROVE RestOK'
  BY <1>26, <1>1 DEF DeliveryParked, Leaves, service, process, RestOK
<1>27. ASSUME NEW t \in Turns, Relinquish(t) PROVE RestOK'
  BY <1>27, <1>1 DEF Relinquish, Leaves, service, process, RestOK
<1>28. ASSUME NEW t \in Turns, FinishDelivered(t) PROVE RestOK'
  BY <1>28, <1>1 DEF FinishDelivered, Leaves, service, process, RestOK
<1>29. ASSUME NEW t \in Turns, SettleArtifacts(t) PROVE RestOK'
  BY <1>29, <1>1 DEF SettleArtifacts, service, process, RestOK
<1>30. ASSUME NEW t \in Turns, RecoverRunning(t) PROVE RestOK'
  BY <1>30, <1>1 DEF RecoverRunning, Recovers, service, process, RestOK
<1>31. ASSUME NEW t \in Turns, RecoverDelivering(t) PROVE RestOK'
  BY <1>31, <1>1 DEF RecoverDelivering, Recovers, service, process, RestOK
<1>32. ASSUME NEW t \in Turns, SweepGhostRunningTurn(t) PROVE RestOK'
  BY <1>32, <1>1 DEF SweepGhostRunningTurn, service, process, RestOK
<1>33. ASSUME NEW t \in Turns, ReconcileNativeResult(t) PROVE RestOK'
  BY <1>33, <1>1 DEF ReconcileNativeResult, service, process, RestOK
<1>34. ASSUME NEW t \in Turns, ReconcileNativeFailure(t) PROVE RestOK'
  BY <1>34, <1>1 DEF ReconcileNativeFailure, service, process, RestOK
<1>35. ASSUME NEW t \in Turns, RequestStop(t) PROVE RestOK'
  BY <1>35, <1>1 DEF RequestStop, service, process, RestOK
<1>36. ASSUME NEW t \in Turns, CancelQueued(t) PROVE RestOK'
  BY <1>36, <1>1 DEF CancelQueued, service, process, RestOK
<1>37. ASSUME NEW t \in Turns, ResumeParkedSessionTurn(t) PROVE RestOK'
  BY <1>37, <1>1 DEF ResumeParkedSessionTurn, service, process, RestOK
<1>38. ASSUME NEW s \in Sessions, Archive(s) PROVE RestOK'
  BY <1>38, <1>1 DEF Archive, process, RestOK
<1>39. ASSUME NEW s \in Sessions, Restore(s) PROVE RestOK'
  BY <1>39, <1>1 DEF Restore, process, RestOK
<1>40. ASSUME NEW g \in Gates \cup {"open"}, SetGate(g) PROVE RestOK'
  BY <1>40, <1>1, ScopeAssumption DEF SetGate, process, RestOK
<1>41. ASSUME NEW class \in {"auth_wait", "usage_wait"}, ReleaseHolds(class) PROVE RestOK'
  BY <1>41, <1>1 DEF ReleaseHolds, process, RestOK
<1>42. CASE Drain
  BY <1>42, <1>1 DEF Drain, RestOK
<1>43. CASE Crash
  BY <1>43, <1>1 DEF Crash, RestOK
<1>44. CASE StartSessionTurnQueue
  BY <1>44, <1>1 DEF StartSessionTurnQueue, RestOK
<1>45. ASSUME NEW t \in Turns, RequeueProvenUnsent(t) PROVE RestOK'
  BY <1>45, <1>1 DEF RequeueProvenUnsent, process, RestOK
<1>46. ASSUME NEW t \in Turns, SettleSupersededParkedTurn(t) PROVE RestOK'
  BY <1>46, <1>1 DEF SettleSupersededParkedTurn, process, RestOK
<1> QED
  BY <1>3, <1>4, <1>5, <1>6, <1>7, <1>8, <1>9, <1>10, <1>11, <1>12, <1>13, <1>14, <1>15,
     <1>16, <1>17, <1>18, <1>19, <1>20, <1>21, <1>22, <1>23, <1>24, <1>25, <1>26, <1>27,
     <1>28, <1>29, <1>30, <1>31, <1>32, <1>33, <1>34, <1>35, <1>36, <1>37, <1>38, <1>39,
     <1>40, <1>41, <1>42, <1>43, <1>44, <1>45, <1>46
     DEF Next, Admit, Runs, Settle, Deliver, Recover, Request

-----------------------------------------------------------------------------
LEMMA TypeOKInit == Init => TypeOK
<1> SUFFICES ASSUME Init PROVE TypeOK
  OBVIOUS
<1>1. AbsentRow \in TurnRow
  BY DEF AbsentRow, TurnRow, Statuses, NoOwner
<1>2. NoFailure \in Failures /\ "none" \in RunStates
  BY FailureTypes, RunWords
<1> QED
  BY <1>1, <1>2 DEF Init, TypeOK

LEMMA TypeOKStep == TypeOK /\ [Next]_vars => TypeOK'
<1> SUFFICES ASSUME TypeOK, [Next]_vars PROVE TypeOK'
  OBVIOUS
<1>1. CASE Next
  <2>1. turn' \in [Turns -> TurnRow]
    BY <1>1, LedgerType
  <2>2. sessionStatus' \in [Sessions -> {"idle", "running", "error", "archived"}]
    BY <1>1, SessionType DEF SessionStatuses
  <2>3. run' \in [Turns -> RunStates] /\ failure' \in [Turns -> Failures]
    BY <1>1, RunType
  <2>4. RestOK'
    BY <1>1, RestType
  <2> QED
    BY <2>1, <2>2, <2>3, <2>4 DEF TypeOK, RestOK
<1>2. CASE UNCHANGED vars
  BY <1>2 DEF TypeOK, vars, history
<1> QED
  BY <1>1, <1>2

\* Every variable keeps its type: no handler writes a word the schema's checks
\* would refuse, or a row of a turn that does not exist.
THEOREM TypeCorrect == Spec => []TypeOK
  BY TypeOKInit, TypeOKStep, PTL DEF Spec

-----------------------------------------------------------------------------
(* The session lock and the ownership fence of TurnLedger, for every set of   *)
(* sessions, every number and kind of turns and every bound.                  *)

(* Fields of a row that its updates write or keep.                           *)

LEMMA RowFields ==
    ASSUME turn \in [Turns -> TurnRow]
    PROVE  /\ DOMAIN turn = Turns
           /\ \A u \in Turns : DOMAIN turn[u] = {"status", "owner", "attempt", "intended",
                  "acked", "stop", "class", "delivery", "steered", "artifacts"}
BY DEF TurnRow

LEMMA ResumedStatus ==
    ASSUME turn \in [Turns -> TurnRow], NEW t \in Turns
    PROVE  Resumed(t).status = "queued"
BY RowFields DEF Resumed

\* A resume sweep only queues turns that were parked.
LEMMA ResumeStatus ==
    ASSUME turn \in [Turns -> TurnRow], NEW S, NEW u \in Turns
    PROVE  \/ AfterResume(S)[u] = turn[u]
           \/ turn[u].status = "parked" /\ AfterResume(S)[u].status = "queued"
BY ResumedStatus DEF AfterResume, Resumable

\* A rejected run leaves every other row alone and its own not live, or as it was.
LEMMA SetupFailureStatus ==
    ASSUME turn \in [Turns -> TurnRow], NEW t \in Turns, SettleSetupFailure(t)
    PROVE  \/ turn' = turn
           \/ \E status \in {"queued", "error", "parked"} : \E row :
                  row.status = status /\ turn' = [turn EXCEPT ![t] = row]
<1>1. /\ DOMAIN turn = Turns
      /\ \A u \in Turns : DOMAIN turn[u] = {"status", "owner", "attempt", "intended",
             "acked", "stop", "class", "delivery", "steered", "artifacts"}
  BY RowFields
<1>2. /\ Requeued(t, "backoff").status = "queued"
      /\ Ended(t, "error").status = "error"
      /\ \A class \in ParkClasses : [Ended(t, "parked") EXCEPT !.class = class].status = "parked"
  BY <1>1 DEF Requeued, Ended
<1> QED
  BY <1>2 DEF SettleSetupFailure, ledger, ParkClasses

\* At most the session of one turn changes hands, and it was free.
HandsOver(t) ==
    /\ \A u \in Turns \ {t} : Live(u)' = Live(u)
    /\ Live(t)' => Live(t) \/ ~SessionLive(t)

KeepsHands == \A u \in Turns : Live(u)' = Live(u)

LockStep == KeepsHands \/ \E t \in Turns : HandsOver(t)

LEMMA LockStepOfNext == TypeOK /\ Next => LockStep
<1> SUFFICES ASSUME TypeOK, Next PROVE LockStep
  OBVIOUS
<1>1. turn \in [Turns -> TurnRow]
  BY DEF TypeOK
<1>2. /\ DOMAIN turn = Turns
      /\ \A u \in Turns : DOMAIN turn[u] = {"status", "owner", "attempt", "intended",
             "acked", "stop", "class", "delivery", "steered", "artifacts"}
  BY <1>1, RowFields
<1>3. ASSUME NEW t \in Turns,
            CheckStop(t) \/ PreparationFails(t) \/ CallProvider(t) \/
            ProviderCancels(t) \/ ProviderFails(t) \/ SettleCut(t)
     PROVE LockStep
  BY <1>3 DEF CheckStop, PreparationFails, CallProvider, ProviderCancels, ProviderFails,
     SettleCut, Fails, Step, ledger, LockStep, KeepsHands, Live
<1>4. ASSUME NEW t \in Turns, AcquireRunning(t) PROVE LockStep
  BY <1>4, <1>1, <1>2 DEF AcquireRunning, LockFree, Claimed, LockStep, KeepsHands,
     HandsOver, Live
<1>5. ASSUME NEW t \in Turns, AcquireQueued(t) PROVE LockStep
  <2>1. \A u \in Turns : turn[u].status \in {"absent", "parked"} => ~Live(u)
    BY DEF Live
  <2>2. \A u \in Turns : [turn EXCEPT ![t].status = "queued"][u].status \in {turn[u].status, "queued"}
    BY <1>1, <1>2
  <2>3. \A u \in Turns : [turn EXCEPT ![t].status = "queued"][u].status # turn[u].status => u = t
    BY <1>1
  <2>4. \A u \in Turns : Resumed(u).status = "queued"
    BY <1>1, ResumedStatus
  <2>5. turn[t].status = "absent"
    BY <1>5 DEF AcquireQueued, NextId
  <2>6. \A u \in Turns :
            \/ turn'[u].status = turn[u].status
            \/ turn'[u].status = "queued" /\ turn[u].status \in {"absent", "parked"}
    BY <1>5, <2>2, <2>3, <2>4, <2>5 DEF AcquireQueued, Resumable
  <2> QED
    BY <2>6 DEF LockStep, KeepsHands, Live
<1>6. ASSUME NEW t \in Turns, AcceptQueued(t) PROVE LockStep
  BY <1>6, <1>1, <1>2 DEF AcceptQueued, NextId, LockStep, KeepsHands, HandsOver, Live
<1>7. ASSUME NEW t \in Turns, ClaimNextQueuedTurn(t) PROVE LockStep
  BY <1>7, <1>1, <1>2 DEF ClaimNextQueuedTurn, Claimable, InLine, Claimed, Ended,
     LockStep, KeepsHands, HandsOver, Live
<1>8. ASSUME NEW t \in Turns, RecordIntent(t) PROVE LockStep
  BY <1>8, <1>1, <1>2 DEF RecordIntent, LockStep, KeepsHands, HandsOver, Live
<1>9. ASSUME NEW t \in Turns, AcknowledgeInput(t) PROVE LockStep
  BY <1>9, <1>1, <1>2 DEF AcknowledgeInput, LockStep, KeepsHands, HandsOver, Live
<1>10. ASSUME NEW t \in Turns, Steer(t) PROVE LockStep
  BY <1>10, <1>1, <1>2 DEF Steer, LockStep, KeepsHands, HandsOver, Live
<1>11. ASSUME NEW t \in Turns, ProviderReturns(t) PROVE LockStep
  BY <1>11, <1>1, <1>2 DEF ProviderReturns, LockStep, KeepsHands, HandsOver, Live
<1>12. ASSUME NEW t \in Turns, MarkDelivering(t) PROVE LockStep
  BY <1>12, <1>1, <1>2 DEF MarkDelivering, MayDeliver, LockStep, KeepsHands, HandsOver,
     Live
<1>13. ASSUME NEW t \in Turns, RequeueOnDrain(t) PROVE LockStep
  <2>1. turn'[t].status = "queued"
    BY <1>13, <1>1, <1>2 DEF RequeueOnDrain, Requeued
  <2>2. \A u \in Turns \ {t} : turn'[u] = turn[u]
    BY <1>13, <1>1 DEF RequeueOnDrain
  <2> QED
    BY <2>1, <2>2 DEF LockStep, HandsOver, Live
<1>14. ASSUME NEW t \in Turns, SettleCancelled(t) PROVE LockStep
  BY <1>14, <1>1, <1>2 DEF SettleCancelled, Settles, Ended, Abandoned, LockStep,
     KeepsHands, HandsOver, Live
<1>15. ASSUME NEW t \in Turns, SettleRetry(t) PROVE LockStep
  BY <1>15, <1>1, <1>2 DEF SettleRetry, Settles, Requeued, LockStep, KeepsHands,
     HandsOver, Live
<1>16. ASSUME NEW t \in Turns, SettlePark(t) PROVE LockStep
  BY <1>16, <1>1, <1>2 DEF SettlePark, Settles, Ended, LockStep, KeepsHands, HandsOver,
     Live
<1>17. ASSUME NEW t \in Turns, SettleFail(t) PROVE LockStep
  BY <1>17, <1>1, <1>2 DEF SettleFail, Settles, Ended, Abandoned, LockStep, KeepsHands,
     HandsOver, Live
<1>18. ASSUME NEW t \in Turns, RunRejects(t) PROVE LockStep
  <2>1. CASE turn' = turn
    BY <2>1 DEF LockStep, KeepsHands, Live
  <2>2. CASE SettleSetupFailure(t)
    BY <2>2, <1>1, SetupFailureStatus DEF LockStep, KeepsHands, HandsOver, Live
  <2> QED
    BY <1>18, <2>1, <2>2 DEF RunRejects, ledger
<1>19. ASSUME NEW t \in Turns, Unwind(t) PROVE LockStep
  <2>1. \A u \in Turns :
            \/ turn'[u].status = turn[u].status
            \/ turn'[u].status = "queued" /\ turn[u].status = "parked"
    BY <1>19, <1>1, ResumeStatus DEF Unwind
  <2> QED
    BY <2>1 DEF LockStep, KeepsHands, Live
<1>20. ASSUME NEW t \in Turns, Delivered(t) PROVE LockStep
  BY <1>20, <1>1, <1>2 DEF Delivered, LockStep, KeepsHands, HandsOver, Live
<1>21. ASSUME NEW t \in Turns, DeliveryParked(t) PROVE LockStep
  BY <1>21, <1>1, <1>2 DEF DeliveryParked, Ended, Abandoned, LockStep, KeepsHands,
     HandsOver, Live
<1>22. ASSUME NEW t \in Turns, Relinquish(t) PROVE LockStep
  BY <1>22, <1>1, <1>2 DEF Relinquish, Relinquished, LockStep, KeepsHands, HandsOver,
     Live
<1>23. ASSUME NEW t \in Turns, FinishDelivered(t) PROVE LockStep
  BY <1>23, <1>1, <1>2 DEF FinishDelivered, Ended, LockStep, KeepsHands, HandsOver, Live
<1>24. ASSUME NEW t \in Turns, SettleArtifacts(t) PROVE LockStep
  BY <1>24, <1>1, <1>2 DEF SettleArtifacts, LockStep, KeepsHands, HandsOver, Live
<1>25. ASSUME NEW t \in Turns, RecoverRunning(t) PROVE LockStep
  BY <1>25, <1>1, <1>2 DEF RecoverRunning, Abandoned, Ended, Requeued, Interrupted,
     LockStep, KeepsHands, HandsOver, Live
<1>26. ASSUME NEW t \in Turns, RecoverDelivering(t) PROVE LockStep
  BY <1>26, <1>1, <1>2 DEF RecoverDelivering, Ended, LockStep, KeepsHands, HandsOver,
     Live
<1>27. ASSUME NEW t \in Turns, SweepGhostRunningTurn(t) PROVE LockStep
  BY <1>27, <1>1, <1>2 DEF SweepGhostRunningTurn, Abandoned, Ended, Requeued,
     Interrupted, LockStep, KeepsHands, HandsOver, Live
<1>28. ASSUME NEW t \in Turns, ReconcileNativeResult(t) PROVE LockStep
  BY <1>28, <1>1, <1>2 DEF ReconcileNativeResult, ReconcilableResult, Ended, LockStep,
     KeepsHands, HandsOver, Live
<1>29. ASSUME NEW t \in Turns, ReconcileNativeFailure(t) PROVE LockStep
  BY <1>29, <1>1, <1>2 DEF ReconcileNativeFailure, ReconcilableResult, Ended, LockStep,
     KeepsHands, HandsOver, Live
<1>30. ASSUME NEW t \in Turns, RequestStop(t) PROVE LockStep
  BY <1>30, <1>1, <1>2 DEF RequestStop, LockStep, KeepsHands, HandsOver, Live
<1>31. ASSUME NEW t \in Turns, CancelQueued(t) PROVE LockStep
  BY <1>31, <1>1, <1>2 DEF CancelQueued, LockStep, KeepsHands, HandsOver, Live
<1>32. ASSUME NEW t \in Turns, ResumeParkedSessionTurn(t) PROVE LockStep
  BY <1>32, <1>1, <1>2 DEF ResumeParkedSessionTurn, Resumed, Resumable, LockStep,
     KeepsHands, HandsOver, Live
<1>33. ASSUME NEW s \in Sessions, Archive(s) PROVE LockStep
  BY <1>33, <1>1, <1>2 DEF Archive, LockStep, KeepsHands, HandsOver, Live
<1>34. ASSUME NEW s \in Sessions, Restore(s) PROVE LockStep
  BY <1>34, <1>1, <1>2 DEF Restore, LockStep, KeepsHands, HandsOver, Live
<1>35. ASSUME NEW g \in Gates \cup {"open"}, SetGate(g) PROVE LockStep
  BY <1>35, <1>1, <1>2 DEF SetGate, ledger, LockStep, KeepsHands, HandsOver, Live
<1>36. ASSUME NEW class \in {"auth_wait",
            "usage_wait"}, ReleaseHolds(class)
     PROVE LockStep
  <2>1. \A u \in Turns : [turn[u] EXCEPT !.class = "backoff"].status = turn[u].status
    BY <1>2
  <2>2. \A u \in Turns :
            \/ turn'[u].status = turn[u].status
            \/ turn'[u].status = "queued" /\ turn[u].status = "parked"
    BY <1>36, <1>1, <2>1, ResumeStatus DEF ReleaseHolds
  <2> QED
    BY <2>2 DEF LockStep, KeepsHands, Live
<1>37. CASE Drain
  BY <1>37, <1>1, <1>2 DEF Drain, ledger, LockStep, KeepsHands, HandsOver, Live
<1>38. CASE Crash
  BY <1>38, <1>1, <1>2 DEF Crash, ledger, LockStep, KeepsHands, HandsOver, Live
<1>39. CASE StartSessionTurnQueue
  <2>1. \A u \in Turns :
            \/ turn'[u].status = turn[u].status
            \/ turn'[u].status = "queued" /\ turn[u].status = "parked"
    BY <1>39, <1>1, ResumeStatus DEF StartSessionTurnQueue
  <2> QED
    BY <2>1 DEF LockStep, KeepsHands, Live
<1>40. ASSUME NEW t \in Turns, RequeueProvenUnsent(t) PROVE LockStep
  <2>1. turn'[t].status = "queued"
    BY <1>40, <1>1, <1>2 DEF RequeueProvenUnsent, Requeued
  <2> QED
    BY <1>40, <2>1, <1>1 DEF RequeueProvenUnsent, LockStep, HandsOver, Live
<1>41. ASSUME NEW t \in Turns, SettleSupersededParkedTurn(t) PROVE LockStep
  BY <1>41, <1>1, <1>2 DEF SettleSupersededParkedTurn, LockStep, KeepsHands, HandsOver, Live
<1> QED
  BY <1>3, <1>4, <1>5, <1>6, <1>7, <1>8, <1>9, <1>10, <1>11, <1>12, <1>13, <1>14, <1>15,
     <1>16, <1>17, <1>18, <1>19, <1>20, <1>21, <1>22, <1>23, <1>24, <1>25, <1>26, <1>27,
     <1>28, <1>29, <1>30, <1>31, <1>32, <1>33, <1>34, <1>35, <1>36, <1>37, <1>38, <1>39,
     <1>40, <1>41
     DEF Next, Admit, Runs, Settle, Deliver, Recover, Request

-----------------------------------------------------------------------------
(* The abstract lock.                                                        *)

LEMMA LockInit == Init => Lock!Init
<1> SUFFICES ASSUME Init PROVE \A t \in Turns : ~Live(t)
  BY DEF Lock!Init
<1> QED
  BY DEF Init, AbsentRow, Live

\* A step of the ledger is a step of the lock, or does not concern it.
LEMMA LockNext == TypeOK /\ [Next]_vars => [Lock!Next]_{t \in Turns : Live(t)}
<1> SUFFICES ASSUME TypeOK, [Next]_vars PROVE [Lock!Next]_{t \in Turns : Live(t)}
  OBVIOUS
<1> DEFINE H == {t \in Turns : Live(t)}
<1>1. KeepsHands => H' = H
  BY DEF KeepsHands
<1>2. ASSUME NEW t \in Turns, HandsOver(t), ~Live(t), Live(t)' PROVE Lock!Take(t)
  <2>1. \A u \in H : SessionOf[u] # SessionOf[t]
    BY <1>2 DEF HandsOver, SessionLive, Siblings
  <2>2. H' = H \cup {t}
    BY <1>2 DEF HandsOver
  <2> QED
    BY <2>1, <2>2 DEF Lock!Take, Lock!FreeFor
<1>3. ASSUME NEW t \in Turns, HandsOver(t), Live(t), ~Live(t)' PROVE Lock!GiveBack(t)
  <2>1. H' = H \ {t}
    BY <1>3 DEF HandsOver
  <2> QED
    BY <1>3, <2>1 DEF Lock!GiveBack
<1>4. ASSUME NEW t \in Turns, HandsOver(t), Live(t)' = Live(t) PROVE H' = H
  BY <1>4 DEF HandsOver
<1>5. CASE Next
  <2>1. LockStep
    BY <1>5, LockStepOfNext
  <2>2. CASE KeepsHands
    BY <2>2, <1>1
  <2>3. ASSUME NEW t \in Turns, HandsOver(t) PROVE [Lock!Next]_H
    <3>1. CASE Live(t)' = Live(t)
      BY <2>3, <3>1, <1>4
    <3>2. CASE ~Live(t) /\ Live(t)'
      BY <2>3, <3>2, <1>2 DEF Lock!Next
    <3>3. CASE Live(t) /\ ~Live(t)'
      BY <2>3, <3>3, <1>3 DEF Lock!Next
    <3> QED
      BY <3>1, <3>2, <3>3 DEF Live
  <2> QED
    BY <2>1, <2>2, <2>3 DEF LockStep
<1>6. CASE UNCHANGED vars
  BY <1>6 DEF vars, Live
<1> QED
  BY <1>5, <1>6

\* Admission, the queue's claim and the reconciliation of a native result take the
\* session lock in three places of the code; together they are one lock: the
\* ledger implements SessionLock.
THEOREM LedgerImplementsLock == Spec => ImplementsSessionLock
  BY LockInit, LockNext, TypeCorrect, PTL DEF Spec, ImplementsSessionLock, Lock!Spec

LEMMA LockStepKeepsOneHolder ==
    Lock!OneHolder /\ [Lock!Next]_{t \in Turns : Live(t)} => Lock!OneHolder'
BY DEF Lock!OneHolder, Lock!Next, Lock!Take, Lock!FreeFor, Lock!GiveBack

\* Never are two turns of one session at work or being delivered.
THEOREM OneLiveTurn == Spec => []OneLiveTurnPerSession
<1>1. Init => Lock!OneHolder
  BY LockInit DEF Lock!OneHolder, Lock!Init
<1>2. Lock!OneHolder => OneLiveTurnPerSession
  BY DEF Lock!OneHolder, OneLiveTurnPerSession
<1> QED
  BY <1>1, <1>2, LockNext, LockStepKeepsOneHolder, TypeCorrect, PTL DEF Spec

-----------------------------------------------------------------------------
(* The ownership fence.                                                      *)

Works(t) == run[t] \in {"claimed", "cleared", "intended", "provider", "failed", "result"}
Replies(t) == run[t] \in {"delivering", "confirmed", "redeliver", "resettle"}

\* Part of RunHoldsItsTurn for one turn.
Fenced(t) ==
    /\ Works(t) => turn[t].status = "running" /\ turn[t].owner = instance
    /\ Replies(t) => turn[t].status = "delivering" /\ turn[t].owner = instance

\* A turn whose row a step leaves alone stays fenced when its run goes no further,
\* and so does one that has neither a run nor work.
LEMMA FencedStays ==
    ASSUME NEW u \in Turns, Fenced(u), instance' = instance,
           \/ turn'[u] = turn[u]
           \/ turn[u].status \notin {"running", "delivering"},
           run'[u] = run[u]
    PROVE  Fenced(u)'
BY DEF Fenced, Works, Replies

LEMMA FenceStep == TypeOK /\ Next /\ (\A u \in Turns : Fenced(u)) => \A u \in Turns : Fenced(u)'
<1> SUFFICES ASSUME TypeOK, Next, \A u \in Turns : Fenced(u), NEW u \in Turns
             PROVE  Fenced(u)'
  OBVIOUS
<1>1. turn \in [Turns -> TurnRow] /\ run \in [Turns -> RunStates]
  BY DEF TypeOK
<1>2. /\ DOMAIN turn = Turns
      /\ \A v \in Turns : DOMAIN turn[v] = {"status", "owner", "attempt", "intended",
             "acked", "stop", "class", "delivery", "steered", "artifacts"}
  BY <1>1, RowFields
<1>3. Fenced(u)
  OBVIOUS
<1>4. ASSUME NEW t \in Turns, AcquireRunning(t) PROVE Fenced(u)'
  BY <1>4, <1>1, <1>2, <1>3 DEF AcquireRunning, NextId, Claimed, service, Fenced, Works,
     Replies
<1>5. ASSUME NEW t \in Turns, AcquireQueued(t) PROVE Fenced(u)'
  <2>1. turn'[u] = turn[u] \/ turn[u].status \in {"absent", "parked"}
    BY <1>5, <1>1 DEF AcquireQueued, NextId, Resumable
  <2> QED
    BY <1>5, <2>1, <1>3, FencedStays DEF AcquireQueued, service
<1>6. ASSUME NEW t \in Turns, AcceptQueued(t) PROVE Fenced(u)'
  BY <1>6, <1>1, <1>2, <1>3 DEF AcceptQueued, NextId, process, Fenced, Works, Replies
<1>7. ASSUME NEW t \in Turns, ClaimNextQueuedTurn(t) PROVE Fenced(u)'
  <2>1. Claimed(t).status = "running" /\ Claimed(t).owner = instance
    BY <1>2 DEF Claimed
  <2>2. CASE Archived(t)
    BY <1>7, <2>2, <1>1, <1>3, FencedStays DEF ClaimNextQueuedTurn, Claimable, service
  <2>3. CASE ~Archived(t)
    <3>1. CASE u = t
      BY <1>7, <2>1, <2>3, <3>1, <1>1 DEF ClaimNextQueuedTurn, service, Fenced, Works, Replies
    <3>2. CASE u # t
      BY <1>7, <2>3, <3>2, <1>1, <1>3, FencedStays DEF ClaimNextQueuedTurn, service
    <3> QED
      BY <3>1, <3>2
  <2> QED
    BY <2>2, <2>3
<1>8. ASSUME NEW t \in Turns, CheckStop(t) PROVE Fenced(u)'
  BY <1>8, <1>1, <1>2, <1>3 DEF CheckStop, Step, Fails, ledger, service, Fenced, Works,
     Replies
<1>9. ASSUME NEW t \in Turns, PreparationFails(t) PROVE Fenced(u)'
  BY <1>9, <1>1, <1>2, <1>3 DEF PreparationFails, Step, Fails, ledger, service, Fenced,
     Works, Replies
<1>10. ASSUME NEW t \in Turns, RecordIntent(t) PROVE Fenced(u)'
  BY <1>10, <1>1, <1>2, <1>3 DEF RecordIntent, Owned, Step, Fails, service, Fenced,
     Works, Replies
<1>11. ASSUME NEW t \in Turns, CallProvider(t) PROVE Fenced(u)'
  BY <1>11, <1>1, <1>2, <1>3 DEF CallProvider, Step, ledger, service, Fenced, Works,
     Replies
<1>12. ASSUME NEW t \in Turns, AcknowledgeInput(t) PROVE Fenced(u)'
  BY <1>12, <1>1, <1>2, <1>3 DEF AcknowledgeInput, process, Fenced, Works, Replies
<1>13. ASSUME NEW t \in Turns, Steer(t) PROVE Fenced(u)'
  BY <1>13, <1>1, <1>2, <1>3 DEF Steer, process, Fenced, Works, Replies
<1>14. ASSUME NEW t \in Turns, ProviderCancels(t) PROVE Fenced(u)'
  BY <1>14, <1>1, <1>2, <1>3 DEF ProviderCancels, Step, Fails, ledger, service, Fenced,
     Works, Replies
<1>15. ASSUME NEW t \in Turns, ProviderFails(t) PROVE Fenced(u)'
  BY <1>15, <1>1, <1>2, <1>3 DEF ProviderFails, Step, Fails, ledger, service, Fenced,
     Works, Replies
<1>16. ASSUME NEW t \in Turns, ProviderReturns(t) PROVE Fenced(u)'
  BY <1>16, <1>1, <1>2, <1>3 DEF ProviderReturns, Step, service, Fenced, Works, Replies
<1>17. ASSUME NEW t \in Turns, MarkDelivering(t) PROVE Fenced(u)'
  <2>1. CASE MayDeliver(t)
    <3>1. turn'[t] = [turn[t] EXCEPT !.status = "delivering", !.delivery = "pending"]
      BY <1>17, <2>1, <1>1 DEF MarkDelivering
    <3>2. /\ turn'[t].status = "delivering" /\ turn'[t].delivery = "pending"
          /\ turn'[t].owner = turn[t].owner /\ turn'[t].artifacts = turn[t].artifacts
          /\ turn'[t].intended = turn[t].intended /\ turn'[t].steered = turn[t].steered
      BY <3>1, <1>2
    <3>3. u # t => turn'[u] = turn[u]
      BY <1>17, <2>1, <1>1 DEF MarkDelivering
    <3>4. /\ run[t] = "result" /\ run' = [run EXCEPT ![t] = "delivering"]
          /\ UNCHANGED <<failure, effects, service>>
      BY <1>17, <2>1 DEF MarkDelivering, Step, history
    <3> QED
      BY <3>2, <3>3, <3>4, <2>1, <1>1, <1>3 DEF MayDeliver, service, Fenced, Works, Replies
  <2>2. CASE ~MayDeliver(t)
    BY <1>17, <2>2, <1>1, <1>2, <1>3 DEF MarkDelivering, Step, Fails, service, Fenced, Works, Replies
  <2> QED
    BY <2>1, <2>2
<1>18. ASSUME NEW t \in Turns, RequeueOnDrain(t) PROVE Fenced(u)'
  BY <1>18, <1>1, <1>2, <1>3 DEF RequeueOnDrain, Step, service, Fenced, Works, Replies
<1>19. ASSUME NEW t \in Turns, SettleCancelled(t) PROVE Fenced(u)'
  BY <1>19, <1>1, <1>2, <1>3 DEF SettleCancelled, Settles, Step, service, Fenced, Works,
     Replies
<1>20. ASSUME NEW t \in Turns, SettleRetry(t) PROVE Fenced(u)'
  BY <1>20, <1>1, <1>2, <1>3 DEF SettleRetry, Settles, Step, service, Fenced, Works,
     Replies
<1>21. ASSUME NEW t \in Turns, SettlePark(t) PROVE Fenced(u)'
  BY <1>21, <1>1, <1>2, <1>3 DEF SettlePark, Settles, Step, service, Fenced, Works,
     Replies
<1>22. ASSUME NEW t \in Turns, SettleFail(t) PROVE Fenced(u)'
  BY <1>22, <1>1, <1>2, <1>3 DEF SettleFail, Settles, Step, service, Fenced, Works,
     Replies
<1>23. ASSUME NEW t \in Turns, SettleCut(t) PROVE Fenced(u)'
  BY <1>23, <1>1, <1>2, <1>3 DEF SettleCut, Step, ledger, service, Fenced, Works,
     Replies
<1>24. ASSUME NEW t \in Turns, RunRejects(t) PROVE Fenced(u)'
  <2>1. u # t => turn'[u] = turn[u] /\ run'[u] = run[u]
    BY <1>24, <1>1, SetupFailureStatus DEF RunRejects, ledger
  <2>2. run'[t] = "none" /\ instance' = instance
    BY <1>24, <1>1 DEF RunRejects, service
  <2> QED
    BY <2>1, <2>2, <1>3 DEF Fenced, Works, Replies
<1>25. ASSUME NEW t \in Turns, Unwind(t) PROVE Fenced(u)'
  <2>1. \A v \in Turns : turn'[v] = turn[v] \/ turn[v].status = "parked"
    BY <1>25, <1>1, ResumeStatus DEF Unwind
  <2> QED
    BY <1>25, <2>1, <1>1, <1>3, FencedStays DEF Unwind, Step, service, Fenced, Works, Replies
<1>26. ASSUME NEW t \in Turns, Delivered(t) PROVE Fenced(u)'
  BY <1>26, <1>1, <1>2, <1>3 DEF Delivered, Step, service, Fenced, Works, Replies
<1>27. ASSUME NEW t \in Turns, DeliveryParked(t) PROVE Fenced(u)'
  BY <1>27, <1>1, <1>2, <1>3 DEF DeliveryParked, Leaves, service, Fenced, Works, Replies
<1>28. ASSUME NEW t \in Turns, Relinquish(t) PROVE Fenced(u)'
  BY <1>28, <1>1, <1>2, <1>3 DEF Relinquish, Leaves, Fenced, Works, Replies
<1>29. ASSUME NEW t \in Turns, FinishDelivered(t) PROVE Fenced(u)'
  BY <1>29, <1>1, <1>2, <1>3 DEF FinishDelivered, Leaves, service, Fenced, Works,
     Replies
<1>30. ASSUME NEW t \in Turns, SettleArtifacts(t) PROVE Fenced(u)'
  BY <1>30, <1>1, <1>2, <1>3 DEF SettleArtifacts, process, Fenced, Works, Replies
<1>31. ASSUME NEW t \in Turns, RecoverRunning(t) PROVE Fenced(u)'
  BY <1>31, <1>1, <1>2, <1>3 DEF RecoverRunning, Recovers, Fenced, Works, Replies
<1>32. ASSUME NEW t \in Turns, RecoverDelivering(t) PROVE Fenced(u)'
  BY <1>32, <1>1, <1>2, <1>3 DEF RecoverDelivering, Recovers, Fenced, Works, Replies
<1>33. ASSUME NEW t \in Turns, SweepGhostRunningTurn(t) PROVE Fenced(u)'
  BY <1>33, <1>1, <1>2, <1>3 DEF SweepGhostRunningTurn, Ghost, process, Fenced, Works,
     Replies
<1>34. ASSUME NEW t \in Turns, ReconcileNativeResult(t) PROVE Fenced(u)'
  <2>1. CASE turn[t].delivery = "delivered" /\ turn[t].status = "delivering"
    BY <1>34, <2>1, <1>1, <1>2, <1>3 DEF ReconcileNativeResult, service, Fenced, Works, Replies
  <2>2. CASE ~(turn[t].delivery = "delivered" /\ turn[t].status = "delivering")
    <3>1. /\ turn'[t] = [turn[t] EXCEPT !.status = "delivering", !.owner = instance, !.delivery = "pending"]
          /\ u # t => turn'[u] = turn[u]
          /\ run' = [run EXCEPT ![t] = "redeliver"] /\ instance' = instance
      BY <1>34, <2>2, <1>1 DEF ReconcileNativeResult, service
    <3>2. turn'[t].status = "delivering" /\ turn'[t].owner = instance
      BY <3>1, <1>2
    <3> QED
      BY <3>1, <3>2, <1>1, <1>3 DEF Fenced, Works, Replies
  <2> QED
    BY <2>1, <2>2
<1>35. ASSUME NEW t \in Turns, ReconcileNativeFailure(t) PROVE Fenced(u)'
  BY <1>35, <1>1, <1>2, <1>3 DEF ReconcileNativeFailure, process, Fenced, Works, Replies
<1>36. ASSUME NEW t \in Turns, RequestStop(t) PROVE Fenced(u)'
  BY <1>36, <1>1, <1>2, <1>3 DEF RequestStop, process, Fenced, Works, Replies
<1>37. ASSUME NEW t \in Turns, CancelQueued(t) PROVE Fenced(u)'
  BY <1>37, <1>1, <1>2, <1>3 DEF CancelQueued, process, Fenced, Works, Replies
<1>38. ASSUME NEW t \in Turns, ResumeParkedSessionTurn(t) PROVE Fenced(u)'
  BY <1>38, <1>1, <1>2, <1>3 DEF ResumeParkedSessionTurn, Resumable, process, Fenced,
     Works, Replies
<1>39. ASSUME NEW s \in Sessions, Archive(s) PROVE Fenced(u)'
  BY <1>39, <1>1, <1>2, <1>3 DEF Archive, process, Fenced, Works, Replies
<1>40. ASSUME NEW s \in Sessions, Restore(s) PROVE Fenced(u)'
  BY <1>40, <1>1, <1>2, <1>3 DEF Restore, process, Fenced, Works, Replies
<1>41. ASSUME NEW g \in Gates \cup {"open"}, SetGate(g) PROVE Fenced(u)'
  BY <1>41, <1>1, <1>2, <1>3 DEF SetGate, ledger, process, Fenced, Works, Replies
<1>42. ASSUME NEW class \in {"auth_wait",
            "usage_wait"}, ReleaseHolds(class)
     PROVE Fenced(u)'
  <2>1. turn'[u] = turn[u] \/ turn[u].status \in {"parked", "queued"}
    BY <1>42, <1>1, ResumeStatus DEF ReleaseHolds
  <2> QED
    BY <1>42, <2>1, <1>3, FencedStays DEF ReleaseHolds, process
<1>43. CASE Drain
  BY <1>43, <1>1, <1>2, <1>3 DEF Drain, ledger, Fenced, Works, Replies
<1>44. CASE Crash
  BY <1>44, <1>1, <1>2, <1>3 DEF Crash, Fenced, Works, Replies
<1>45. CASE StartSessionTurnQueue
  <2>1. \A v \in Turns : turn'[v] = turn[v] \/ turn[v].status = "parked"
    BY <1>45, <1>1, ResumeStatus DEF StartSessionTurnQueue
  <2> QED
    BY <1>45, <2>1, <1>1, <1>3, FencedStays DEF StartSessionTurnQueue
<1>46. ASSUME NEW t \in Turns, RequeueProvenUnsent(t) PROVE Fenced(u)'
  BY <1>46, <1>1, <1>3, FencedStays DEF RequeueProvenUnsent, process
<1>47. ASSUME NEW t \in Turns, SettleSupersededParkedTurn(t) PROVE Fenced(u)'
  BY <1>47, <1>1, <1>3, FencedStays DEF SettleSupersededParkedTurn, process
<1> QED
  BY <1>4, <1>5, <1>6, <1>7, <1>8, <1>9, <1>10, <1>11, <1>12, <1>13, <1>14, <1>15, <1>16,
     <1>17, <1>18, <1>19, <1>20, <1>21, <1>22, <1>23, <1>24, <1>25, <1>26, <1>27, <1>28,
     <1>29, <1>30, <1>31, <1>32, <1>33, <1>34, <1>35, <1>36, <1>37, <1>38, <1>39, <1>40,
     <1>41, <1>42, <1>43, <1>44, <1>45, <1>46, <1>47
     DEF Next, Admit, Runs, Settle, Deliver, Recover, Request

LEMMA FenceIsRunHolds == (\A t \in Turns : Fenced(t)) <=> RunHoldsItsTurn
BY DEF Fenced, Works, Replies, RunHoldsItsTurn, Owned

LEMMA RunHoldsStep == TypeOK /\ RunHoldsItsTurn /\ [Next]_vars => RunHoldsItsTurn'
<1> SUFFICES ASSUME TypeOK, RunHoldsItsTurn, [Next]_vars PROVE RunHoldsItsTurn'
  OBVIOUS
<1>1. CASE Next
  BY <1>1, FenceStep, FenceIsRunHolds DEF Fenced, Works, Replies, RunHoldsItsTurn, Owned
<1>2. CASE UNCHANGED vars
  BY <1>2 DEF vars, RunHoldsItsTurn, Owned
<1> QED
  BY <1>1, <1>2

\* While this process works on a turn, nothing takes the row from it: watchdog,
\* start-up recovery, reconciliation and the requests of people respect the fence.
THEOREM RunHolds == Spec => []RunHoldsItsTurn
<1>1. Init => RunHoldsItsTurn
  BY DEF Init, RunHoldsItsTurn
<1> QED
  BY <1>1, RunHoldsStep, TypeCorrect, PTL DEF Spec

-----------------------------------------------------------------------------
(* What a step of TurnLedger may do to one row, whatever action it is, and    *)
(* what follows of it: replies that stay out, uploads that strand nobody, and *)
(* a Stop that is honoured.                                                   *)

\* The histories only grow, and only a run at the provider's door changes what its
\* input may have done there.
LEMMA HistoryStep ==
    ASSUME TypeOK, Next
    PROVE  /\ revived \subseteq revived' /\ thrown \subseteq thrown'
           /\ \A u \in Turns : effects'[u] # effects[u] => run[u] \in {"intended", "provider"}
<1> DEFINE Goal == /\ revived \subseteq revived' /\ thrown \subseteq thrown'
                   /\ \A u \in Turns : effects'[u] # effects[u] => run[u] \in {"intended", "provider"}
<1>1. effects \in [Turns -> BOOLEAN]
  BY DEF TypeOK
<1>2. UNCHANGED history => Goal
  BY DEF history
<1>3. ASSUME NEW t \in Turns,
            AcquireRunning(t) \/ AcquireQueued(t) \/ AcceptQueued(t) \/
            ClaimNextQueuedTurn(t) \/ CheckStop(t) \/ PreparationFails(t) \/ RecordIntent(t)
     PROVE Goal
  BY <1>3, <1>2 DEF AcquireRunning, AcquireQueued, AcceptQueued, ClaimNextQueuedTurn,
     CheckStop, PreparationFails, RecordIntent
<1>4. ASSUME NEW t \in Turns,
            AcknowledgeInput(t) \/ Steer(t) \/ ProviderCancels(t) \/ ProviderReturns(t) \/
            MarkDelivering(t) \/ RequeueOnDrain(t)
     PROVE Goal
  BY <1>4, <1>2 DEF AcknowledgeInput, Steer, ProviderCancels, ProviderReturns,
     MarkDelivering, RequeueOnDrain
<1>5. ASSUME NEW t \in Turns,
            SettleCancelled(t) \/ SettleRetry(t) \/ SettlePark(t) \/ SettleFail(t) \/
            SettleCut(t) \/ Unwind(t)
     PROVE Goal
  BY <1>5, <1>2 DEF SettleCancelled, SettleRetry, SettlePark, SettleFail, SettleCut,
     Unwind, Settles
<1>6. ASSUME NEW t \in Turns,
            Delivered(t) \/ DeliveryParked(t) \/ Relinquish(t) \/ FinishDelivered(t) \/
            SettleArtifacts(t) \/ RequestStop(t) \/ CancelQueued(t) \/
            ResumeParkedSessionTurn(t)
     PROVE Goal
  BY <1>6, <1>2 DEF Delivered, DeliveryParked, Relinquish, FinishDelivered,
     SettleArtifacts, RequestStop, CancelQueued, ResumeParkedSessionTurn
<1>7. ASSUME NEW t \in Turns,
            RecoverRunning(t) \/ RecoverDelivering(t) \/ SweepGhostRunningTurn(t) \/
            ReconcileNativeResult(t) \/ ReconcileNativeFailure(t) \/
            SettleSupersededParkedTurn(t)
     PROVE Goal
  BY <1>7, <1>2 DEF RecoverRunning, RecoverDelivering, SweepGhostRunningTurn,
     ReconcileNativeResult, ReconcileNativeFailure, SettleSupersededParkedTurn
<1>8. ASSUME NEW t \in Turns, CallProvider(t) PROVE Goal
  BY <1>8, <1>1 DEF CallProvider, Step
<1>9. ASSUME NEW t \in Turns, ProviderFails(t) PROVE Goal
  BY <1>9, <1>1 DEF ProviderFails, Fails, Step
<1>10. ASSUME NEW t \in Turns, RunRejects(t) PROVE Goal
  BY <1>10 DEF RunRejects
<1>11. ASSUME NEW t \in Turns, RequeueProvenUnsent(t) PROVE Goal
  BY <1>11 DEF RequeueProvenUnsent
<1>12. ASSUME NEW class \in {"auth_wait", "usage_wait"}, ReleaseHolds(class) PROVE Goal
  BY <1>12, <1>2 DEF ReleaseHolds
<1>13. ASSUME \/ \E s \in Sessions : Archive(s) \/ Restore(s)
              \/ \E g \in Gates \cup {"open"} : SetGate(g)
              \/ Drain \/ Crash \/ StartSessionTurnQueue
       PROVE  Goal
  BY <1>13, <1>2 DEF Archive, Restore, SetGate, Drain, Crash, StartSessionTurnQueue
<1> QED
  BY <1>3, <1>4, <1>5, <1>6, <1>7, <1>8, <1>9, <1>10, <1>11, <1>12, <1>13
     DEF Next, Admit, Runs, Settle, Deliver, Recover, Request

\* Beside a live turn of its session, these rows stay out of the way.
Past(o) ==
    \/ turn[o].status \in {"done", "error", "cancelled", "interrupted", "delivery_parked"}
    \/ turn[o].status = "parked" /\ Native(o)
    \/ turn[o].status = "queued" /\ o \in revived

\* A reply that is out belongs to a turn that is being delivered or over, and
\* uploads to one that will settle them; native turns leave none.
RowInv(u) ==
    /\ turn[u].delivery = "delivered" => turn[u].status \in {"delivering", "done", "error", "cancelled"}
    /\ turn[u].artifacts = "pending" =>
           ~Native(u) /\ turn[u].status \in {"running", "delivering", "done"}

StopsRow(u) ==
    turn[u].status = "running" /\ turn[u].stop /\ run[u] # "failed" =>
        turn'[u].status \notin {"queued", "delivering"}

\* How far an input may come in a step, and when its outcome is first shown.
LifeStep(u) ==
    /\ \/ turn'[u].status = turn[u].status
       \/ turn[u].status = "absent" /\ turn'[u].status \in {"queued", "running"}
       \/ turn[u].status = "queued" /\ turn'[u].status \in {"running", "error", "cancelled"}
       \/ turn[u].status = "running" /\ turn'[u].status # "absent"
       \/ turn[u].status = "parked"
              /\ turn'[u].status \in {"queued", "delivering", "interrupted", "error", "cancelled"}
       \/ turn[u].status = "error" /\ turn'[u].status = "queued"
              /\ turn[u].delivery # "delivered" /\ ~effects[u]
       \/ turn[u].status = "delivering" /\ turn'[u].status \in {"done", "delivery_parked"}
       \/ turn[u].status \in {"interrupted", "delivery_parked"}
              /\ turn'[u].status \in {"delivering", "error", "cancelled"}
    /\ turn'[u].delivery = "delivered" =>
           \/ turn[u].delivery = "delivered"
           \/ turn[u].status \in {"parked", "delivering", "interrupted", "delivery_parked"}

RowStep(u) ==
    /\ LifeStep(u)
    /\ turn[u].delivery = "delivered" => turn'[u].delivery = "delivered"
    /\ StopsRow(u)
    /\ Past(u) /\ SessionLive(u) => Past(u)'
    /\ turn[u].status # "absent" => turn'[u].status # "absent"
    /\ turn[u].status = "absent" /\ turn'[u].status # "absent" => NextId(u)

\* The fields a handler's row keeps from the row it replaces.
LEMMA UpdateFields ==
    ASSUME turn \in [Turns -> TurnRow], NEW t \in Turns
    PROVE  /\ \A status : /\ Ended(t, status).status = status
                          /\ Ended(t, status).delivery = turn[t].delivery
                          /\ Ended(t, status).artifacts = turn[t].artifacts
                          /\ Abandoned(Ended(t, status)).status = status
                          /\ Abandoned(Ended(t, status)).delivery = turn[t].delivery
                          /\ Abandoned(Ended(t, status)).artifacts # "pending"
           /\ \A class : /\ Requeued(t, class).status = "queued"
                         /\ Requeued(t, class).delivery = turn[t].delivery
                         /\ Requeued(t, class).artifacts = turn[t].artifacts
           /\ \A class : /\ [Ended(t, "parked") EXCEPT !.class = class].status = "parked"
                         /\ [Ended(t, "parked") EXCEPT !.class = class].delivery = turn[t].delivery
                         /\ [Ended(t, "parked") EXCEPT !.class = class].artifacts = turn[t].artifacts
           /\ Claimed(t).status = "running"
           /\ Claimed(t).delivery = turn[t].delivery
           /\ Claimed(t).artifacts = turn[t].artifacts
           /\ Interrupted(t).status = "interrupted" /\ Interrupted(t).artifacts # "pending"
<1>1. DOMAIN turn[t] = {"status", "owner", "attempt", "intended", "acked", "stop", "class",
                        "delivery", "steered", "artifacts"}
  BY RowFields
<1>2. Interrupted(t).status = "interrupted" /\ Interrupted(t).artifacts # "pending"
  BY <1>1 DEF Interrupted, Abandoned
<1>3. /\ Claimed(t).status = "running"
      /\ Claimed(t).delivery = turn[t].delivery
      /\ Claimed(t).artifacts = turn[t].artifacts
  BY <1>1 DEF Claimed
<1>4. \A status : /\ Ended(t, status).status = status
                 /\ Ended(t, status).delivery = turn[t].delivery
                 /\ Ended(t, status).artifacts = turn[t].artifacts
                 /\ DOMAIN Ended(t, status) = DOMAIN turn[t]
  BY <1>1 DEF Ended
<1>5. \A status : /\ Abandoned(Ended(t, status)).status = status
                 /\ Abandoned(Ended(t, status)).delivery = turn[t].delivery
                 /\ Abandoned(Ended(t, status)).artifacts # "pending"
  BY <1>1, <1>4 DEF Abandoned
<1>6. \A class : /\ [Ended(t, "parked") EXCEPT !.class = class].status = "parked"
                /\ [Ended(t, "parked") EXCEPT !.class = class].delivery = turn[t].delivery
                /\ [Ended(t, "parked") EXCEPT !.class = class].artifacts = turn[t].artifacts
  BY <1>1, <1>4
<1>7. \A class : /\ Requeued(t, class).status = "queued"
                /\ Requeued(t, class).delivery = turn[t].delivery
                /\ Requeued(t, class).artifacts = turn[t].artifacts
  BY <1>1 DEF Requeued
<1> QED
  BY <1>2, <1>3, <1>4, <1>5, <1>6, <1>7

LEMMA RowStays ==
    ASSUME NEW u \in Turns, RowInv(u), turn'[u] = turn[u], u \in revived => u \in revived'
    PROVE  RowInv(u)' /\ RowStep(u)
BY DEF RowInv, RowStep, LifeStep, StopsRow, Past, Native

LEMMA RowStepOfNext ==
    ASSUME TypeOK, Next, \A u \in Turns : Fenced(u) /\ RowInv(u)
    PROVE  \A u \in Turns : RowInv(u)' /\ RowStep(u)
<1> SUFFICES ASSUME NEW u \in Turns PROVE RowInv(u)' /\ RowStep(u)
  OBVIOUS
<1> DEFINE Goal == RowInv(u)' /\ RowStep(u)
<1>1. turn \in [Turns -> TurnRow] /\ run \in [Turns -> RunStates]
  BY DEF TypeOK
<1>2. /\ DOMAIN turn = Turns
      /\ \A v \in Turns : DOMAIN turn[v] = {"status", "owner", "attempt", "intended",
             "acked", "stop", "class", "delivery", "steered", "artifacts"}
  BY <1>1, RowFields
<1>3. Fenced(u) /\ RowInv(u) /\ (u \in revived => u \in revived')
  BY HistoryStep
<1>4. ASSUME NEW t \in Turns, AcquireRunning(t) PROVE Goal
  BY <1>4, <1>1, <1>2, <1>3 DEF AcquireRunning, NextId, Claimed, LockFree, RowInv, RowStep, LifeStep,
       StopsRow, Past, Native, Fenced, Works, Replies
<1>5. ASSUME NEW t \in Turns, AcquireQueued(t) PROVE Goal
  BY <1>5, <1>1, <1>2, <1>3 DEF AcquireQueued, NextId, Resumed, Resumable, RowInv, RowStep, LifeStep,
       StopsRow, Past, Native, Fenced, Works, Replies
<1>6. ASSUME NEW t \in Turns, AcceptQueued(t) PROVE Goal
  BY <1>6, <1>1, <1>2, <1>3 DEF AcceptQueued, NextId, RowInv, RowStep, LifeStep, StopsRow, Past, Native,
       Fenced, Works, Replies
<1>7. ASSUME NEW t \in Turns, ClaimNextQueuedTurn(t) PROVE Goal
  <2>1. CASE u # t
    BY <1>7, <2>1, <1>1, <1>3, RowStays DEF ClaimNextQueuedTurn
  <2>2. CASE u = t
    <3>1. turn[t].status = "queued" /\ ~SessionLive(t)
      BY <1>7 DEF ClaimNextQueuedTurn, Claimable, InLine
    <3>2. turn'[t] = Ended(t, "error") \/ turn'[t] = Claimed(t)
      BY <1>7, <1>1 DEF ClaimNextQueuedTurn
    <3> QED
      BY <3>1, <3>2, <2>2, <1>1, <1>3, UpdateFields DEF RowInv, RowStep, LifeStep, StopsRow, Past
  <2> QED
    BY <2>1, <2>2
<1>8. ASSUME NEW t \in Turns, CheckStop(t) PROVE Goal
  BY <1>8, <1>1, <1>2, <1>3 DEF CheckStop, ledger, RowInv, RowStep, LifeStep, StopsRow, Past, Native,
       Fenced, Works, Replies
<1>9. ASSUME NEW t \in Turns, PreparationFails(t) PROVE Goal
  BY <1>9, <1>1, <1>2, <1>3 DEF PreparationFails, ledger, RowInv, RowStep, LifeStep, StopsRow, Past,
       Native, Fenced, Works, Replies
<1>10. ASSUME NEW t \in Turns, RecordIntent(t) PROVE Goal
  BY <1>10, <1>1, <1>2, <1>3 DEF RecordIntent, RowInv, RowStep, LifeStep, StopsRow, Past, Native, Fenced,
       Works, Replies
<1>11. ASSUME NEW t \in Turns, CallProvider(t) PROVE Goal
  BY <1>11, <1>1, <1>2, <1>3 DEF CallProvider, ledger, RowInv, RowStep, LifeStep, StopsRow, Past, Native,
       Fenced, Works, Replies
<1>12. ASSUME NEW t \in Turns, AcknowledgeInput(t) PROVE Goal
  BY <1>12, <1>1, <1>2, <1>3 DEF AcknowledgeInput, RowInv, RowStep, LifeStep, StopsRow, Past, Native,
       Fenced, Works, Replies
<1>13. ASSUME NEW t \in Turns, Steer(t) PROVE Goal
  BY <1>13, <1>1, <1>2, <1>3 DEF Steer, RowInv, RowStep, LifeStep, StopsRow, Past, Native, Fenced, Works,
       Replies
<1>14. ASSUME NEW t \in Turns, ProviderCancels(t) PROVE Goal
  BY <1>14, <1>1, <1>2, <1>3 DEF ProviderCancels, ledger, RowInv, RowStep, LifeStep, StopsRow, Past,
       Native, Fenced, Works, Replies
<1>15. ASSUME NEW t \in Turns, ProviderFails(t) PROVE Goal
  BY <1>15, <1>1, <1>2, <1>3 DEF ProviderFails, ledger, RowInv, RowStep, LifeStep, StopsRow, Past, Native,
       Fenced, Works, Replies
<1>16. ASSUME NEW t \in Turns, ProviderReturns(t) PROVE Goal
  BY <1>16, <1>1, <1>2, <1>3 DEF ProviderReturns, Step, RowInv, RowStep, LifeStep, StopsRow, Past, Native,
       Fenced, Works, Replies
<1>17. ASSUME NEW t \in Turns, MarkDelivering(t) PROVE Goal
  <2>1. CASE MayDeliver(t)
    <3>1. turn'[t] = [turn[t] EXCEPT !.status = "delivering", !.delivery = "pending"]
      BY <1>17, <2>1, <1>1 DEF MarkDelivering
    <3>2. /\ turn'[t].status = "delivering" /\ turn'[t].delivery = "pending"
          /\ turn'[t].owner = turn[t].owner /\ turn'[t].artifacts = turn[t].artifacts
          /\ turn'[t].intended = turn[t].intended /\ turn'[t].steered = turn[t].steered
      BY <3>1, <1>2
    <3>3. u # t => turn'[u] = turn[u]
      BY <1>17, <2>1, <1>1 DEF MarkDelivering
    <3>4. /\ run[t] = "result" /\ run' = [run EXCEPT ![t] = "delivering"]
          /\ UNCHANGED <<failure, effects, service>>
      BY <1>17, <2>1 DEF MarkDelivering, Step, history
    <3> QED
      BY <3>2, <3>3, <3>4, <2>1, <1>1, <1>3 DEF MayDeliver, RowInv, RowStep, LifeStep, StopsRow, Past, Native,
         Fenced, Works, Replies
  <2>2. CASE ~MayDeliver(t)
    BY <1>17, <2>2, <1>1, <1>2, <1>3 DEF MarkDelivering, Step, Fails, service, RowInv,
       RowStep, LifeStep, StopsRow, Past, Native, Fenced, Works, Replies
  <2> QED
    BY <2>1, <2>2
<1>18. ASSUME NEW t \in Turns, RequeueOnDrain(t) PROVE Goal
  BY <1>18, <1>1, <1>2, <1>3 DEF RequeueOnDrain, Requeued, Owned, RowInv, RowStep, LifeStep, StopsRow,
       Past, Native, Fenced, Works, Replies
<1>19. ASSUME NEW t \in Turns, SettleCancelled(t) PROVE Goal
  BY <1>19, <1>1, <1>2, <1>3 DEF SettleCancelled, Settles, Step, Ended, Abandoned, Owned,
       RowInv, RowStep, LifeStep, StopsRow, Past, Native, Fenced, Works, Replies
<1>20. ASSUME NEW t \in Turns, SettleRetry(t) PROVE Goal
  BY <1>20, <1>1, <1>2, <1>3 DEF SettleRetry, Settles, Step, Requeued, Preserved, Owned, RowInv,
       RowStep, LifeStep, StopsRow, Past, Native, Fenced, Works, Replies
<1>21. ASSUME NEW t \in Turns, SettlePark(t) PROVE Goal
  BY <1>21, <1>1, <1>2, <1>3 DEF SettlePark, Settles, Step, Ended, Preserved, Owned, RowInv,
       RowStep, LifeStep, StopsRow, Past, Native, Fenced, Works, Replies
<1>22. ASSUME NEW t \in Turns, SettleFail(t) PROVE Goal
  BY <1>22, <1>1, <1>2, <1>3 DEF SettleFail, Settles, Step, Ended, Abandoned, Owned, RowInv,
       RowStep, LifeStep, StopsRow, Past, Native, Fenced, Works, Replies
<1>23. ASSUME NEW t \in Turns, SettleCut(t) PROVE Goal
  BY <1>23, <1>1, <1>2, <1>3 DEF SettleCut, ledger, RowInv, RowStep, LifeStep, StopsRow, Past, Native,
       Fenced, Works, Replies
<1>24. ASSUME NEW t \in Turns, RunRejects(t) PROVE Goal
  <2>1. CASE turn' = turn
    BY <2>1, <1>3, RowStays
  <2>2. CASE turn' # turn
    <3>1. SettleSetupFailure(t) /\ turn[t].status = "running"
      BY <1>24, <2>2 DEF RunRejects, SettleSetupFailure, Owned, ledger
    <3>2. CASE u # t
      BY <3>1, <3>2, <2>2, <1>1, <1>3, RowStays DEF SettleSetupFailure, ledger
    <3>3. CASE u = t
      <4>1. \/ turn'[t] = [Ended(t, "parked") EXCEPT !.class = "parked_terminal"] /\ Preservable(t)
            \/ turn'[t] = [Ended(t, "parked") EXCEPT !.class = "parked_ambiguous"] /\ Native(t)
            \/ turn'[t] = Requeued(t, "backoff") /\ ~turn[t].stop /\ Native(t)
            \/ turn'[t] = Ended(t, "error") /\ Native(t)
        BY <3>1, <2>2, <1>1 DEF SettleSetupFailure, ledger
      <4>2. /\ turn'[t].delivery = turn[t].delivery /\ turn'[t].artifacts = turn[t].artifacts
            /\ turn'[t].status \in {"parked", "queued", "error"}
            /\ turn'[t].status = "queued" => ~turn[t].stop
            /\ Native(t) \/ turn[t].artifacts = "none"
        <5>1. CASE turn'[t] \in {[Ended(t, "parked") EXCEPT !.class = class] : class \in ParkClasses}
          <6>1. PICK class \in ParkClasses : turn'[t] = [Ended(t, "parked") EXCEPT !.class = class]
            BY <5>1
          <6>2. /\ turn'[t].delivery = turn[t].delivery /\ turn'[t].artifacts = turn[t].artifacts
                /\ turn'[t].status = "parked"
            BY <6>1, <1>2 DEF Ended
          <6>3. Native(t) \/ turn[t].artifacts = "none"
            BY <4>1 DEF Preservable
          <6> QED
            BY <6>2, <6>3
        <5>2. CASE turn'[t] = Requeued(t, "backoff") /\ ~turn[t].stop /\ Native(t)
          BY <5>2, <1>2 DEF Requeued
        <5>3. CASE turn'[t] = Ended(t, "error") /\ Native(t)
          BY <5>3, <1>2 DEF Ended
        <5> QED
          BY <4>1, <5>1, <5>2, <5>3 DEF ParkClasses
      <4> QED
        BY <4>2, <3>1, <3>3, <1>3 DEF RowInv, RowStep, LifeStep, StopsRow, Past, Native
    <3> QED
      BY <3>2, <3>3
  <2> QED
    BY <2>1, <2>2
<1>25. ASSUME NEW t \in Turns, Unwind(t) PROVE Goal
  BY <1>25, <1>1, <1>2, <1>3 DEF Unwind, AfterResume, Resumed, Resumable, RowInv, RowStep, LifeStep,
       StopsRow, Past, Native, Fenced, Works, Replies
<1>26. ASSUME NEW t \in Turns, Delivered(t) PROVE Goal
  BY <1>26, <1>1, <1>2, <1>3 DEF Delivered, Step, RowInv, RowStep, LifeStep, StopsRow, Past, Native,
       Fenced, Works, Replies
<1>27. ASSUME NEW t \in Turns, DeliveryParked(t) PROVE Goal
  BY <1>27, <1>1, <1>2, <1>3 DEF DeliveryParked, Ended, Abandoned, RowInv, RowStep, LifeStep, StopsRow,
       Past, Native, Fenced, Works, Replies
<1>28. ASSUME NEW t \in Turns, Relinquish(t) PROVE Goal
  BY <1>28, <1>1, <1>2, <1>3 DEF Relinquish, Relinquished, RowInv, RowStep, LifeStep, StopsRow, Past,
       Native, Fenced, Works, Replies
<1>29. ASSUME NEW t \in Turns, FinishDelivered(t) PROVE Goal
  BY <1>29, <1>1, <1>2, <1>3 DEF FinishDelivered, Ended, RowInv, RowStep, LifeStep, StopsRow, Past,
       Native, Fenced, Works, Replies
<1>30. ASSUME NEW t \in Turns, SettleArtifacts(t) PROVE Goal
  BY <1>30, <1>1, <1>2, <1>3 DEF SettleArtifacts, RowInv, RowStep, LifeStep, StopsRow, Past, Native,
       Fenced, Works, Replies
<1>31. ASSUME NEW t \in Turns, RecoverRunning(t) PROVE Goal
  <2>1. CASE u # t
    BY <1>31, <2>1, <1>1, <1>3, RowStays DEF RecoverRunning
  <2>2. CASE u = t
    <3>1. turn[t].status = "running" /\ run'[t] = run[t]
      BY <1>31 DEF RecoverRunning
    <3>2. \/ turn'[t] = Abandoned(Ended(t, "cancelled"))
          \/ turn'[t] = Requeued(t, "backoff") /\ ~turn[t].stop /\ Unattempted(t)
          \/ turn'[t] = Interrupted(t)
      BY <1>31, <1>1 DEF RecoverRunning
    <3>3. /\ turn'[t].artifacts # "pending"
          /\ turn'[t].status \in {"cancelled", "queued", "interrupted"}
          /\ turn'[t].status = "queued" => ~turn[t].stop
      BY <3>2, <1>1, UpdateFields DEF Unattempted
    <3>4. turn[t].delivery # "delivered" /\ turn'[t].delivery # "delivered"
      BY <3>1, <3>2, <2>2, <1>1, <1>2, <1>3 DEF RowInv, Interrupted, Abandoned, Ended, Requeued
    <3> QED
      BY <3>1, <3>3, <3>4, <2>2, <1>3 DEF RowInv, RowStep, LifeStep, StopsRow, Past
  <2> QED
    BY <2>1, <2>2
<1>32. ASSUME NEW t \in Turns, RecoverDelivering(t) PROVE Goal
  <2>1. CASE u # t
    BY <1>32, <2>1, <1>1, <1>3, RowStays DEF RecoverDelivering
  <2>2. CASE u = t
    <3>1. turn[t].status = "delivering"
      BY <1>32 DEF RecoverDelivering
    <3>2. turn'[t] = Ended(t, "done") \/ turn'[t] = [turn[t] EXCEPT !.owner = instance]
      BY <1>32, <1>1 DEF RecoverDelivering
    <3>3. CASE turn'[t] = Ended(t, "done")
      BY <3>1, <3>3, <2>2, <1>1, <1>3, UpdateFields DEF RowInv, RowStep, LifeStep, StopsRow, Past, Native
    <3>4. CASE turn'[t] = [turn[t] EXCEPT !.owner = instance]
      BY <3>1, <3>4, <2>2, <1>1, <1>2, <1>3 DEF RowInv, RowStep, LifeStep, StopsRow, Past, Native
    <3> QED
      BY <3>2, <3>3, <3>4
  <2> QED
    BY <2>1, <2>2
<1>33. ASSUME NEW t \in Turns, SweepGhostRunningTurn(t) PROVE Goal
  BY <1>33, <1>1, <1>2, <1>3 DEF SweepGhostRunningTurn, Ghost, Owned, Abandoned, Ended,
       Requeued, Interrupted, Unattempted, RowInv, RowStep, LifeStep, StopsRow, Past, Native, Fenced,
       Works, Replies
<1>34. ASSUME NEW t \in Turns, ReconcileNativeResult(t) PROVE Goal
  <2>1. CASE u # t
    BY <1>34, <2>1, <1>1, <1>3, RowStays DEF ReconcileNativeResult
  <2>2. CASE u = t
    <3>1. /\ Native(t)
          /\ \/ turn[t].status \in {"interrupted", "parked", "delivery_parked"} /\ ~SessionLive(t)
             \/ turn[t].status = "delivering"
      BY <1>34 DEF ReconcileNativeResult, ReconcilableResult
    <3>2. CASE turn[t].delivery = "delivered" /\ turn[t].status = "delivering"
      <4>1. turn'[t] = Ended(t, "done")
        BY <1>34, <3>2, <1>1 DEF ReconcileNativeResult
      <4> QED
        BY <3>1, <3>2, <4>1, <2>2, <1>1, <1>3, UpdateFields DEF RowInv, RowStep, LifeStep, StopsRow, Past,
             Native
    <3>3. CASE ~(turn[t].delivery = "delivered" /\ turn[t].status = "delivering")
      <4>1. /\ turn'[t].status = "delivering" /\ turn'[t].delivery = "pending"
            /\ turn'[t].artifacts = turn[t].artifacts
        <5>1. turn'[t] = [turn[t] EXCEPT !.status = "delivering", !.owner = instance, !.delivery = "pending"]
          BY <1>34, <3>3, <1>1 DEF ReconcileNativeResult
        <5> QED
          BY <5>1, <1>2
      <4> QED
        BY <3>1, <3>3, <4>1, <2>2, <1>1, <1>3 DEF RowInv, RowStep, LifeStep, StopsRow, Past, Native
    <3> QED
      BY <3>2, <3>3
  <2> QED
    BY <2>1, <2>2
<1>35. ASSUME NEW t \in Turns, ReconcileNativeFailure(t) PROVE Goal
  BY <1>35, <1>1, <1>2, <1>3 DEF ReconcileNativeFailure, ReconcilableResult, Ended, RowInv,
       RowStep, LifeStep, StopsRow, Past, Native, Fenced, Works, Replies
<1>36. ASSUME NEW t \in Turns, RequestStop(t) PROVE Goal
  BY <1>36, <1>1, <1>2, <1>3 DEF RequestStop, RowInv, RowStep, LifeStep, StopsRow, Past, Native, Fenced,
       Works, Replies
<1>37. ASSUME NEW t \in Turns, CancelQueued(t) PROVE Goal
  BY <1>37, <1>1, <1>2, <1>3 DEF CancelQueued, RowInv, RowStep, LifeStep, StopsRow, Past, Native, Fenced,
       Works, Replies
<1>38. ASSUME NEW t \in Turns, ResumeParkedSessionTurn(t) PROVE Goal
  BY <1>38, <1>1, <1>2, <1>3 DEF ResumeParkedSessionTurn, Resumed, Resumable, RowInv, RowStep, LifeStep,
       StopsRow, Past, Native, Fenced, Works, Replies
<1>39. ASSUME NEW s \in Sessions, Archive(s) PROVE Goal
  BY <1>39, <1>1, <1>2, <1>3 DEF Archive, RowInv, RowStep, LifeStep, StopsRow, Past, Native, Fenced,
       Works, Replies
<1>40. ASSUME NEW s \in Sessions, Restore(s) PROVE Goal
  BY <1>40, <1>1, <1>2, <1>3 DEF Restore, RowInv, RowStep, LifeStep, StopsRow, Past, Native, Fenced,
       Works, Replies
<1>41. ASSUME NEW g \in Gates \cup {"open"}, SetGate(g) PROVE Goal
  BY <1>41, <1>1, <1>2, <1>3 DEF SetGate, ledger, RowInv, RowStep, LifeStep, StopsRow, Past, Native,
       Fenced, Works, Replies
<1>42. ASSUME NEW class \in {"auth_wait", "usage_wait"}, ReleaseHolds(class) PROVE Goal
  BY <1>42, <1>1, <1>2, <1>3 DEF ReleaseHolds, AfterResume, Resumed, Resumable, RowInv, RowStep, LifeStep,
       StopsRow, Past, Native, Fenced, Works, Replies
<1>43. CASE Drain
  BY <1>43, <1>1, <1>2, <1>3 DEF Drain, ledger, RowInv, RowStep, LifeStep, StopsRow, Past, Native, Fenced,
       Works, Replies
<1>44. CASE Crash
  BY <1>44, <1>1, <1>2, <1>3 DEF Crash, ledger, RowInv, RowStep, LifeStep, StopsRow, Past, Native, Fenced,
       Works, Replies
<1>45. CASE StartSessionTurnQueue
  BY <1>45, <1>1, <1>2, <1>3 DEF StartSessionTurnQueue, AfterResume, Resumed, Resumable, RowInv,
       RowStep, LifeStep, StopsRow, Past, Native, Fenced, Works, Replies
<1>46. ASSUME NEW t \in Turns, RequeueProvenUnsent(t) PROVE Goal
  <2>1. turn' = [turn EXCEPT ![t] = Requeued(t, "backoff")] /\ t \in revived'
    BY <1>46 DEF RequeueProvenUnsent
  <2>2. CASE u # t
    BY <2>1, <2>2, <1>1, <1>3, RowStays
  <2>3. CASE u = t
    BY <1>46, <2>1, <2>3, <1>1, UpdateFields DEF RequeueProvenUnsent, RowInv, RowStep, LifeStep,
       StopsRow, Past
  <2> QED
    BY <2>2, <2>3
<1>47. ASSUME NEW t \in Turns, SettleSupersededParkedTurn(t) PROVE Goal
  BY <1>47, <1>1, <1>2, <1>3 DEF SettleSupersededParkedTurn, RowInv, RowStep, LifeStep, StopsRow, Past,
     Native
<1> QED
  BY <1>4, <1>5, <1>6, <1>7, <1>8, <1>9, <1>10, <1>11, <1>12, <1>13, <1>14, <1>15, <1>16,
     <1>17, <1>18, <1>19, <1>20, <1>21, <1>22, <1>23, <1>24, <1>25, <1>26, <1>27, <1>28,
     <1>29, <1>30, <1>31, <1>32, <1>33, <1>34, <1>35, <1>36, <1>37, <1>38, <1>39, <1>40,
     <1>41, <1>42, <1>43, <1>44, <1>45, <1>46, <1>47
     DEF Next, Admit, Runs, Settle, Deliver, Recover, Request

-----------------------------------------------------------------------------
(* Replies, uploads and stops.                                               *)

RowsInv == RunHoldsItsTurn /\ \A u \in Turns : RowInv(u)

LEMMA RowsInvInit == Init => RowsInv
BY DEF Init, AbsentRow, RunHoldsItsTurn, RowsInv, RowInv

LEMMA RowsInvStep ==
    ASSUME TypeOK, RowsInv, [Next]_vars
    PROVE  RowsInv' /\ \A u \in Turns : RowStep(u)
<1>1. RunHoldsItsTurn'
  BY RunHoldsStep DEF RowsInv
<1>2. CASE Next
  <2>1. \A u \in Turns : Fenced(u) /\ RowInv(u)
    BY FenceIsRunHolds DEF RowsInv
  <2> QED
    BY <1>1, <1>2, <2>1, RowStepOfNext DEF RowsInv
<1>3. CASE UNCHANGED vars
  <2>1. \A u \in Turns : RowInv(u)' /\ RowStep(u)
    BY <1>3, RowStays DEF RowsInv, vars, history
  <2> QED
    BY <1>1, <2>1 DEF RowsInv
<1> QED
  BY <1>2, <1>3

LEMMA RowsInvariant == Spec => []RowsInv
BY RowsInvInit, RowsInvStep, TypeCorrect, PTL DEF Spec

\* Whatever ends a turn with uploads owed gives them up or leaves them to the
\* finished reply: no session's queue waits for uploads nobody will make.
THEOREM UploadsStrandNobody == Spec => []UploadsNeverStrandSession
<1>1. RowsInv => UploadsNeverStrandSession
  BY DEF RowsInv, RowInv, UploadsNeverStrandSession
<1> QED
  BY <1>1, RowsInvariant, PTL

\* The rows move as the inputs of the promise do.
LEMMA PromiseInit == Init => Promise!Init
BY DEF Init, AbsentRow, Life, Promise!Init

LEMMA PromiseStep ==
    ASSUME TypeOK, RowsInv, [Next]_vars
    PROVE  [Promise!Next]_<<[t \in Turns |-> Life(t)], {t \in Turns : turn[t].delivery = "delivered"},
                             {t \in Turns : effects[t]}>>
<1> DEFINE life == [t \in Turns |-> Life(t)]
           answered == {t \in Turns : turn[t].delivery = "delivered"}
           reached == {t \in Turns : effects[t]}
<1>1. RowsInv' /\ \A u \in Turns : RowStep(u)
  BY RowsInvStep
<1>2. \A u \in Turns : turn[u].status \in Statuses /\ turn'[u].status \in Statuses
  BY TypeOKStep, RowFields DEF TypeOK, TurnRow
<1>3. ASSUME NEW u \in Turns
      PROVE  Life(u)' \in Promise!Lives
  BY <1>2 DEF Statuses, Life, Promise!Lives
<1>4. ASSUME NEW u \in Turns
      PROVE  Life(u)' = Life(u) \/ Life(u)' \in Promise!MayBecome[Life(u)]
  <2>1. LifeStep(u)
    BY <1>1 DEF RowStep
  <2> QED
    BY <2>1, <1>2 DEF LifeStep, Statuses, Life, Promise!MayBecome
<1>5. ASSUME NEW i \in Turns, NEW j \in Turns, Life(i) = "absent", Life(i)' # "absent", j < i
      PROVE  Life(j) # "absent"
  <2>1. turn[i].status = "absent" /\ turn'[i].status # "absent"
    BY <1>5, <1>2 DEF Statuses, Life
  <2>2. NextId(i)
    BY <2>1, <1>1 DEF RowStep
  <2> QED
    BY <2>2, <1>5, <1>2 DEF NextId, Statuses, Life
<1>6. ASSUME NEW i \in Turns, turn'[i].delivery = "delivered"
      PROVE  /\ Life(i)' \in {"delivering", "ended"}
             /\ turn[i].delivery # "delivered" => Life(i) \notin {"absent", "queued", "running", "ended"}
  <2>1. RowInv(i)' /\ LifeStep(i)
    BY <1>1 DEF RowsInv, RowStep
  <2> QED
    BY <2>1, <1>6, <1>2 DEF RowInv, LifeStep, Statuses, Life
<1>7. answered \subseteq answered'
  BY <1>1 DEF RowStep
<1>8. /\ \A i \in Turns : life[i] = Life(i) /\ life'[i] = Life(i)'
      /\ life' \in [Turns -> Promise!Lives]
  BY <1>3
<1>9. ASSUME NEW i \in Turns, Life(i) = "ended", Life(i)' # "ended"
      PROVE  i \notin reached \cup answered
  <2>1. LifeStep(i)
    BY <1>1 DEF RowStep
  <2> QED
    BY <2>1, <1>9, <1>2 DEF LifeStep, Statuses, Life
<1>10. ASSUME NEW i \in Turns, (i \in reached) # (i \in reached')
       PROVE  Life(i) = "running"
  <2>1. CASE Next
    <3>1. effects \in [Turns -> BOOLEAN] /\ effects' \in [Turns -> BOOLEAN]
      BY TypeOKStep DEF TypeOK
    <3>2. effects'[i] # effects[i]
      BY <1>10
    <3>3. run[i] \in {"intended", "provider"}
      BY <2>1, <3>2, HistoryStep
    <3> QED
      BY <3>3 DEF RowsInv, RunHoldsItsTurn, Owned, Life
  <2>2. CASE UNCHANGED vars
    BY <1>10, <2>2 DEF vars, history
  <2> QED
    BY <2>1, <2>2
<1>11. reached' \subseteq Turns
  OBVIOUS
<1> QED
  BY <1>4, <1>5, <1>6, <1>7, <1>8, <1>9, <1>10, <1>11
     DEF Promise!Next, Promise!Moves, Promise!AcceptedInOrder, Promise!Answers,
         Promise!EndsForGood, Promise!ReachedByRuns

\* The ledger keeps its promise about every input: none is lost, one that ended
\* stays ended unless no provider was reached and no outcome shown, and one whose
\* answer was in hand or whose outcome is unknown is answered or ended but not run
\* again, through errors, drains, crashes, the watchdog, the recovery, receipts
\* and the reconciliation of native results.
THEOREM LedgerKeepsPromise == Spec => ImplementsInputPromise
BY PromiseInit, PromiseStep, RowsInvariant, TypeCorrect, PTL
   DEF Spec, ImplementsInputPromise, Promise!Spec, Promise!promiseVars

\* Whichever of the queue, the watchdog, the recovery and the delivery reaches a
\* stopped turn first, none answers it or puts it back in line.
THEOREM StopHonoured == Spec => StopIsHonoured
<1>1. TypeOK /\ RowsInv /\ [Next]_vars =>
         [\A t \in Turns : Live(t) /\ turn[t].stop /\ run[t] # "failed" =>
             turn[t].status = "delivering" \/ turn'[t].status \notin {"queued", "delivering"}]_vars
  <2> SUFFICES ASSUME TypeOK, RowsInv, [Next]_vars,
                      NEW t \in Turns, Live(t), turn[t].stop, run[t] # "failed"
               PROVE  turn[t].status = "delivering" \/ turn'[t].status \notin {"queued", "delivering"}
    OBVIOUS
  <2> QED
    BY RowsInvStep DEF RowStep, StopsRow, Live
<1> QED
  BY <1>1, RowsInvariant, TypeCorrect, PTL DEF Spec, StopIsHonoured

-----------------------------------------------------------------------------
(* The order of a session's inputs.                                          *)

Prepares(t) == run[t] \in {"claimed", "cleared", "intended"}
Before(o, t) == o \in Siblings(t) /\ o < t /\ Priority[o] = Priority[t]

\* A run begins in a free session, with nothing of its priority before it in line.
Enters(t) ==
    /\ ~SessionLive(t)
    /\ \A o \in Turns : Before(o, t) => ~Blocks(o) /\ turn'[o] = turn[o]
    /\ NextId(t) \/ turn[t].status = "queued"

RunStep(t) ==
    /\ Prepares(t)' => Prepares(t) \/ Enters(t)
    /\ run'[t] = "provider" => run[t] \in {"intended", "provider"}

LEMMA RunStepOfNext ==
    ASSUME TypeOK, Next
    PROVE  \A u \in Turns : RunStep(u)
<1> SUFFICES ASSUME NEW u \in Turns PROVE RunStep(u)
  OBVIOUS
<1> DEFINE Goal == RunStep(u)
<1>1. turn \in [Turns -> TurnRow] /\ run \in [Turns -> RunStates]
  BY DEF TypeOK
<1>2. ASSUME run'[u] = run[u] PROVE Goal
  BY <1>2 DEF RunStep, Prepares
<1>3. ASSUME NEW t \in Turns,
            AcquireQueued(t) \/ AcceptQueued(t) \/ AcknowledgeInput(t) \/
            Steer(t) \/ SettleArtifacts(t) \/ RecoverRunning(t) \/
            SweepGhostRunningTurn(t) \/ ReconcileNativeFailure(t) \/ RequestStop(t) \/
            CancelQueued(t) \/ ResumeParkedSessionTurn(t)
     PROVE Goal
  BY <1>3, <1>2 DEF AcquireQueued, AcceptQueued, AcknowledgeInput, Steer, SettleArtifacts,
       RecoverRunning, SweepGhostRunningTurn, ReconcileNativeFailure, RequestStop, CancelQueued,
       ResumeParkedSessionTurn, process
<1>4. ASSUME NEW t \in Turns, AcquireRunning(t) PROVE Goal
  <2>1. CASE u # t
    BY <1>4, <2>1, <1>1, <1>2 DEF AcquireRunning
  <2>2. CASE u = t
    BY <1>4, <2>2, <1>1, <1>2, PriorityAssumption DEF AcquireRunning, LockFree, Before,
         Siblings, Turns, RunStep, Enters, Prepares
  <2> QED
    BY <2>1, <2>2
<1>5. ASSUME NEW t \in Turns, ClaimNextQueuedTurn(t) PROVE Goal
  <2>1. CASE u # t
    BY <1>5, <2>1, <1>1, <1>2 DEF ClaimNextQueuedTurn
  <2>2. CASE u = t
    BY <1>5, <2>2, <1>1, <1>2, PriorityAssumption DEF ClaimNextQueuedTurn, Claimable, InLine,
         Precedes, Blocks, Before, Siblings, Turns, RunStep, Enters, Prepares
  <2> QED
    BY <2>1, <2>2
<1>6. ASSUME NEW t \in Turns, CheckStop(t) PROVE Goal
  BY <1>6, <1>1 DEF CheckStop, Step, Fails, RunStep, Prepares
<1>7. ASSUME NEW t \in Turns, PreparationFails(t) PROVE Goal
  BY <1>7, <1>1 DEF PreparationFails, Step, Fails, RunStep, Prepares
<1>8. ASSUME NEW t \in Turns, RecordIntent(t) PROVE Goal
  BY <1>8, <1>1 DEF RecordIntent, Step, Fails, RunStep, Prepares
<1>9. ASSUME NEW t \in Turns, CallProvider(t) PROVE Goal
  BY <1>9, <1>1 DEF CallProvider, Step, RunStep, Prepares
<1>10. ASSUME NEW t \in Turns, ProviderCancels(t) PROVE Goal
  BY <1>10, <1>1 DEF ProviderCancels, Step, Fails, RunStep, Prepares
<1>11. ASSUME NEW t \in Turns, ProviderFails(t) PROVE Goal
  BY <1>11, <1>1 DEF ProviderFails, Step, Fails, RunStep, Prepares
<1>12. ASSUME NEW t \in Turns, ProviderReturns(t) PROVE Goal
  BY <1>12, <1>1 DEF ProviderReturns, Step, RunStep, Prepares
<1>13. ASSUME NEW t \in Turns, MarkDelivering(t) PROVE Goal
  BY <1>13, <1>1 DEF MarkDelivering, Step, Fails, RunStep, Prepares
<1>14. ASSUME NEW t \in Turns, RequeueOnDrain(t) PROVE Goal
  BY <1>14, <1>1 DEF RequeueOnDrain, Step, RunStep, Prepares
<1>15. ASSUME NEW t \in Turns, SettleCancelled(t) PROVE Goal
  BY <1>15, <1>1 DEF SettleCancelled, Settles, Step, RunStep, Prepares
<1>16. ASSUME NEW t \in Turns, SettleRetry(t) PROVE Goal
  BY <1>16, <1>1 DEF SettleRetry, Settles, Step, RunStep, Prepares
<1>17. ASSUME NEW t \in Turns, SettlePark(t) PROVE Goal
  BY <1>17, <1>1 DEF SettlePark, Settles, Step, RunStep, Prepares
<1>18. ASSUME NEW t \in Turns, SettleFail(t) PROVE Goal
  BY <1>18, <1>1 DEF SettleFail, Settles, Step, RunStep, Prepares
<1>19. ASSUME NEW t \in Turns, SettleCut(t) PROVE Goal
  BY <1>19, <1>1 DEF SettleCut, Step, RunStep, Prepares
<1>20. ASSUME NEW t \in Turns, RunRejects(t) PROVE Goal
  BY <1>20, <1>1 DEF RunRejects, RunStep, Prepares
<1>21. ASSUME NEW t \in Turns, Unwind(t) PROVE Goal
  BY <1>21, <1>1 DEF Unwind, Step, RunStep, Prepares
<1>22. ASSUME NEW t \in Turns, Delivered(t) PROVE Goal
  BY <1>22, <1>1 DEF Delivered, Step, RunStep, Prepares
<1>23. ASSUME NEW t \in Turns, DeliveryParked(t) PROVE Goal
  BY <1>23, <1>1 DEF DeliveryParked, Leaves, RunStep, Prepares
<1>24. ASSUME NEW t \in Turns, Relinquish(t) PROVE Goal
  BY <1>24, <1>1 DEF Relinquish, Leaves, RunStep, Prepares
<1>25. ASSUME NEW t \in Turns, FinishDelivered(t) PROVE Goal
  BY <1>25, <1>1 DEF FinishDelivered, Leaves, RunStep, Prepares
<1>26. ASSUME NEW t \in Turns, RecoverDelivering(t) PROVE Goal
  BY <1>26, <1>1 DEF RecoverDelivering, RunStep, Prepares
<1>27. ASSUME NEW t \in Turns, ReconcileNativeResult(t) PROVE Goal
  BY <1>27, <1>1 DEF ReconcileNativeResult, RunStep, Prepares
<1>28. ASSUME NEW s \in Sessions, Archive(s) \/ Restore(s) PROVE Goal
  BY <1>28, <1>2 DEF Archive, Restore, process
<1>29. ASSUME NEW g \in Gates \cup {"open"}, SetGate(g) PROVE Goal
  BY <1>29, <1>2 DEF SetGate, process
<1>30. ASSUME NEW class \in {"auth_wait", "usage_wait"}, ReleaseHolds(class) PROVE Goal
  BY <1>30, <1>2 DEF ReleaseHolds, process
<1>31. CASE Drain \/ StartSessionTurnQueue
  BY <1>31, <1>2 DEF Drain, StartSessionTurnQueue
<1>32. CASE Crash
  BY <1>32 DEF Crash, RunStep, Prepares
<1>33. ASSUME NEW t \in Turns, RequeueProvenUnsent(t) PROVE Goal
  BY <1>33, <1>2 DEF RequeueProvenUnsent, process
<1>34. ASSUME NEW t \in Turns, SettleSupersededParkedTurn(t) PROVE Goal
  BY <1>34, <1>2 DEF SettleSupersededParkedTurn, process
<1> QED
  BY <1>3, <1>4, <1>5, <1>6, <1>7, <1>8, <1>9, <1>10, <1>11, <1>12, <1>13, <1>14, <1>15,
     <1>16, <1>17, <1>18, <1>19, <1>20, <1>21, <1>22, <1>23, <1>24, <1>25, <1>26, <1>27,
     <1>28, <1>29, <1>30, <1>31, <1>32, <1>33, <1>34
     DEF Next, Admit, Runs, Settle, Deliver, Recover, Request


OrderInv ==
    /\ \A t \in Turns : Prepares(t) => \A o \in Turns : Before(o, t) => Past(o)
    /\ \A t, o \in Turns : o < t /\ turn[t].status # "absent" => turn[o].status # "absent"

LEMMA OrderInvInit == Init => OrderInv
BY DEF Init, AbsentRow, OrderInv, Prepares

LEMMA OrderInvStep ==
    ASSUME TypeOK, RowsInv, OrderInv, [Next]_vars
    PROVE  OrderInv'
<1>1. turn \in [Turns -> TurnRow]
  BY DEF TypeOK
<1>2. \A u \in Turns : RowStep(u)
  BY RowsInvStep
<1>3. \A u \in Turns : RunStep(u)
  <2>1. CASE Next
    BY <2>1, RunStepOfNext
  <2>2. CASE UNCHANGED vars
    BY <2>2 DEF vars, RunStep, Prepares
  <2> QED
    BY <2>1, <2>2
<1>4. ASSUME NEW t \in Turns, NEW o \in Turns, o < t, turn'[t].status # "absent"
      PROVE  turn'[o].status # "absent"
  BY <1>2, <1>4 DEF OrderInv, RowStep, NextId
<1>5. ASSUME NEW t \in Turns, Prepares(t)', NEW o \in Turns, Before(o, t)
      PROVE  Past(o)'
  <2>1. CASE Prepares(t)
    <3>1. Live(t)
      BY <2>1 DEF RowsInv, RunHoldsItsTurn, Owned, Prepares, Live
    <3>2. SessionLive(o)
      BY <3>1, <1>5 DEF SessionLive, Before, Siblings
    <3>3. Past(o)
      BY <2>1, <1>5 DEF OrderInv
    <3> QED
      BY <3>2, <3>3, <1>2 DEF RowStep
  <2>2. CASE Enters(t)
    <3>1. /\ ~Live(o) /\ ~Blocks(o) /\ turn'[o] = turn[o]
      BY <2>2, <1>5 DEF Enters, SessionLive, Before
    <3>2. turn[o].status # "absent"
      BY <2>2, <1>5 DEF Enters, NextId, OrderInv, Before
    <3>3. turn[o].status \in Statuses
      BY <1>1 DEF TurnRow
    <3>4. Past(o) /\ turn[o].status # "queued"
      BY <3>1, <3>2, <3>3 DEF Past, Live, Blocks, Statuses
    <3> QED
      BY <3>1, <3>4 DEF Past, Native
  <2> QED
    BY <1>5, <1>3, <2>1, <2>2 DEF RunStep
<1> QED
  BY <1>4, <1>5 DEF OrderInv, Before, Siblings

\* Inputs of one session and priority reach the provider in the order in which
\* they were accepted, whatever is parked, requeued, resumed or reconciled between.
THEOREM ProviderOrder == Spec => ProviderSeesInputsInOrder
<1> DEFINE Ordered ==
        \A t \in Turns : run[t] # "provider" /\ run'[t] = "provider" =>
           \A o \in Siblings(t) : o < t /\ Priority[o] = Priority[t] =>
               /\ turn[o].status \notin {"running", "delivering"}
               /\ turn[o].status = "queued" => o \in revived
               /\ turn[o].status = "parked" => Native(o)
<1>1. TypeOK /\ OrderInv /\ [Next]_vars => [Ordered]_vars
  <2> SUFFICES ASSUME TypeOK, OrderInv, Next PROVE Ordered
    OBVIOUS
  <2> SUFFICES ASSUME NEW t \in Turns, run[t] # "provider", run'[t] = "provider",
                      NEW o \in Siblings(t), o < t, Priority[o] = Priority[t]
               PROVE  /\ turn[o].status \notin {"running", "delivering"}
                      /\ turn[o].status = "queued" => o \in revived
                      /\ turn[o].status = "parked" => Native(o)
    OBVIOUS
  <2>1. Prepares(t)
    BY RunStepOfNext DEF RunStep, Prepares
  <2>2. o \in Turns /\ Before(o, t)
    BY DEF Before, Siblings
  <2>3. Past(o)
    BY <2>1, <2>2 DEF OrderInv
  <2> QED
    BY <2>3 DEF Past
<1>2. TypeOK /\ RowsInv /\ OrderInv /\ [Next]_vars => OrderInv'
  BY OrderInvStep
<1> QED
  BY <1>1, <1>2, OrderInvInit, RowsInvariant, TypeCorrect, PTL DEF Spec,
       ProviderSeesInputsInOrder

-----------------------------------------------------------------------------
(* The session's status.                                                     *)

\* A session shows as running after a step because a live turn holds it, or it
\* did before and its live turns still are.
ShowsLive(s) ==
    sessionStatus'[s] = "running" =>
        \/ \E t \in Turns : SessionOf[t] = s /\ Live(t)'
        \/ /\ sessionStatus[s] = "running"
           /\ \A t \in Turns : SessionOf[t] = s /\ Live(t) => Live(t)'

LEMMA UpdateStatus ==
    ASSUME turn \in [Turns -> TurnRow], NEW t \in Turns
    PROVE  /\ \A status : Ended(t, status).status = status
           /\ \A status : Abandoned(Ended(t, status)).status = status
           /\ \A class : Requeued(t, class).status = "queued"
           /\ Interrupted(t).status = "interrupted"
<1>1. DOMAIN turn[t] = {"status", "owner", "attempt", "intended", "acked", "stop", "class",
                        "delivery", "steered", "artifacts"}
  BY RowFields
<1>2. \A status : Abandoned(Ended(t, status)).status = status
  BY <1>1 DEF Ended, Abandoned
<1>3. Interrupted(t).status = "interrupted"
  BY <1>1 DEF Interrupted, Abandoned
<1> QED
  BY <1>1, <1>2, <1>3 DEF Ended, Requeued

LEMMA ReleaseShowsLive ==
    ASSUME sessionStatus \in [Sessions -> SessionStatuses], NEW t \in Turns,
           NEW status \in {"idle", "error"}, Release(t, status),
           \A u \in Turns \ {t} : turn'[u] = turn[u]
    PROVE  \A s \in Sessions : ShowsLive(s)
BY SessionOfAssumption DEF Release, ShowsLive, Live

LEMMA ShowsLiveOfNext ==
    ASSUME TypeOK, Next
    PROVE  \A s \in Sessions : ShowsLive(s)
<1> DEFINE Goal == \A s \in Sessions : ShowsLive(s)
<1>1. turn \in [Turns -> TurnRow] /\ sessionStatus \in [Sessions -> SessionStatuses]
  BY DEF TypeOK, SessionStatuses
<1>2. /\ DOMAIN turn = Turns
      /\ \A v \in Turns : DOMAIN turn[v] = {"status", "owner", "attempt", "intended",
             "acked", "stop", "class", "delivery", "steered", "artifacts"}
  BY <1>1, RowFields
<1>3. ASSUME sessionStatus' = sessionStatus, \A t \in Turns : Live(t) => Live(t)' PROVE Goal
  BY <1>3 DEF ShowsLive
<1>4. ASSUME NEW t \in Turns, AcquireRunning(t) PROVE Goal
  BY <1>4, <1>1, <1>2, SessionOfAssumption DEF AcquireRunning, NextId, Claimed, ShowsLive, Live
<1>5. ASSUME NEW t \in Turns, ClaimNextQueuedTurn(t) PROVE Goal
  <2>1. turn[t].status = "queued"
    BY <1>5 DEF ClaimNextQueuedTurn, Claimable
  <2>2. CASE Archived(t)
    BY <1>5, <2>1, <2>2, <1>1, <1>3 DEF ClaimNextQueuedTurn, Live
  <2>3. CASE ~Archived(t)
    <3>1. turn' = [turn EXCEPT ![t] = Claimed(t)]
          /\ sessionStatus' = [sessionStatus EXCEPT ![SessionOf[t]] = "running"]
      BY <1>5, <2>3 DEF ClaimNextQueuedTurn
    <3>2. Live(t)'
      BY <3>1, <1>1, <1>2 DEF Claimed, Live
    <3> QED
      BY <3>1, <3>2, <2>1, <1>1, SessionOfAssumption DEF ShowsLive, Live
  <2> QED
    BY <2>2, <2>3
<1>6. ASSUME NEW t \in Turns, AcquireQueued(t) PROVE Goal
  BY <1>6, <1>1, <1>2, <1>3 DEF AcquireQueued, NextId, Resumed, Resumable, Live
<1>7. ASSUME NEW t \in Turns, AcceptQueued(t) PROVE Goal
  BY <1>7, <1>1, <1>2, <1>3 DEF AcceptQueued, NextId, Live
<1>8. ASSUME NEW t \in Turns, CheckStop(t) PROVE Goal
  BY <1>8, <1>1, <1>2, <1>3 DEF CheckStop, ledger, Live
<1>9. ASSUME NEW t \in Turns, PreparationFails(t) PROVE Goal
  BY <1>9, <1>1, <1>2, <1>3 DEF PreparationFails, ledger, Live
<1>10. ASSUME NEW t \in Turns, RecordIntent(t) PROVE Goal
  BY <1>10, <1>1, <1>2, <1>3 DEF RecordIntent, Live
<1>11. ASSUME NEW t \in Turns, CallProvider(t) PROVE Goal
  BY <1>11, <1>1, <1>2, <1>3 DEF CallProvider, ledger, Live
<1>12. ASSUME NEW t \in Turns, AcknowledgeInput(t) PROVE Goal
  BY <1>12, <1>1, <1>2, <1>3 DEF AcknowledgeInput, Live
<1>13. ASSUME NEW t \in Turns, Steer(t) PROVE Goal
  BY <1>13, <1>1, <1>2, <1>3 DEF Steer, Live
<1>14. ASSUME NEW t \in Turns, ProviderCancels(t) PROVE Goal
  BY <1>14, <1>1, <1>2, <1>3 DEF ProviderCancels, ledger, Live
<1>15. ASSUME NEW t \in Turns, ProviderFails(t) PROVE Goal
  BY <1>15, <1>1, <1>2, <1>3 DEF ProviderFails, ledger, Live
<1>16. ASSUME NEW t \in Turns, ProviderReturns(t) PROVE Goal
  BY <1>16, <1>1, <1>2, <1>3 DEF ProviderReturns, Live
<1>17. ASSUME NEW t \in Turns, MarkDelivering(t) PROVE Goal
  BY <1>17, <1>1, <1>2, <1>3 DEF MarkDelivering, Live
<1>18. ASSUME NEW t \in Turns, RequeueOnDrain(t) PROVE Goal
  BY <1>18, <1>1, ReleaseShowsLive DEF RequeueOnDrain
<1>19. ASSUME NEW t \in Turns, SettleCancelled(t) PROVE Goal
  BY <1>19, <1>1, ReleaseShowsLive DEF SettleCancelled, Settles
<1>20. ASSUME NEW t \in Turns, SettleRetry(t) PROVE Goal
  BY <1>20, <1>1, ReleaseShowsLive DEF SettleRetry, Settles
<1>21. ASSUME NEW t \in Turns, SettlePark(t) PROVE Goal
  BY <1>21, <1>1, ReleaseShowsLive DEF SettlePark, Settles
<1>22. ASSUME NEW t \in Turns, SettleFail(t) PROVE Goal
  BY <1>22, <1>1, ReleaseShowsLive DEF SettleFail, Settles
<1>23. ASSUME NEW t \in Turns, SettleCut(t) PROVE Goal
  BY <1>23, <1>1, <1>2, <1>3 DEF SettleCut, ledger, Live
<1>24. ASSUME NEW t \in Turns, RunRejects(t) PROVE Goal
  <2>1. CASE UNCHANGED ledger
    BY <2>1, <1>3 DEF ledger, Live
  <2>2. CASE ~UNCHANGED ledger
    <3>1. SettleSetupFailure(t)
      BY <1>24, <2>2 DEF RunRejects
    <3>2. /\ \A u \in Turns \ {t} : turn'[u] = turn[u]
          /\ Release(t, "idle") \/ Release(t, "error")
      BY <3>1, <2>2, <1>1 DEF SettleSetupFailure
    <3> QED
      BY <3>2, <1>1, ReleaseShowsLive
  <2> QED
    BY <2>1, <2>2
<1>25. ASSUME NEW t \in Turns, Unwind(t) PROVE Goal
  BY <1>25, <1>1, <1>2, <1>3 DEF Unwind, AfterResume, Resumed, Resumable, Live
<1>26. ASSUME NEW t \in Turns, Delivered(t) PROVE Goal
  BY <1>26, <1>1, <1>2, <1>3 DEF Delivered, Live
<1>27. ASSUME NEW t \in Turns, DeliveryParked(t) PROVE Goal
  BY <1>27, <1>1, ReleaseShowsLive DEF DeliveryParked
<1>28. ASSUME NEW t \in Turns, Relinquish(t) PROVE Goal
  BY <1>28, <1>1, <1>2, <1>3 DEF Relinquish, Relinquished, Live
<1>29. ASSUME NEW t \in Turns, FinishDelivered(t) PROVE Goal
  BY <1>29, <1>1, ReleaseShowsLive DEF FinishDelivered
<1>30. ASSUME NEW t \in Turns, SettleArtifacts(t) PROVE Goal
  BY <1>30, <1>1, <1>2, <1>3 DEF SettleArtifacts, Live
<1>31. ASSUME NEW t \in Turns, RecoverRunning(t) PROVE Goal
  BY <1>31, <1>1, ReleaseShowsLive DEF RecoverRunning
<1>32. ASSUME NEW t \in Turns, RecoverDelivering(t) PROVE Goal
  <2>1. CASE Release(t, "idle")
    BY <1>32, <2>1, <1>1, ReleaseShowsLive DEF RecoverDelivering
  <2>2. CASE ~Release(t, "idle")
    BY <1>32, <2>2, <1>1, <1>2, <1>3 DEF RecoverDelivering, Live
  <2> QED
    BY <2>1, <2>2
<1>33. ASSUME NEW t \in Turns, SweepGhostRunningTurn(t) PROVE Goal
  BY <1>33, <1>1, ReleaseShowsLive DEF SweepGhostRunningTurn
<1>34. ASSUME NEW t \in Turns, ReconcileNativeResult(t) PROVE Goal
  <2>1. CASE Release(t, "idle")
    BY <1>34, <2>1, <1>1, ReleaseShowsLive DEF ReconcileNativeResult
  <2>2. CASE ~Release(t, "idle")
    BY <1>34, <2>2, <1>1, <1>2, <1>3 DEF ReconcileNativeResult, Live
  <2> QED
    BY <2>1, <2>2
<1>35. ASSUME NEW t \in Turns, ReconcileNativeFailure(t) PROVE Goal
  BY <1>35, <1>1, ReleaseShowsLive DEF ReconcileNativeFailure
<1>36. ASSUME NEW t \in Turns, RequestStop(t) PROVE Goal
  BY <1>36, <1>1, <1>2, <1>3 DEF RequestStop, Live
<1>37. ASSUME NEW t \in Turns, CancelQueued(t) PROVE Goal
  BY <1>37, <1>1, <1>2, <1>3 DEF CancelQueued, Live
<1>38. ASSUME NEW t \in Turns, ResumeParkedSessionTurn(t) PROVE Goal
  BY <1>38, <1>1, <1>2, <1>3 DEF ResumeParkedSessionTurn, Resumed, Resumable, Live
<1>39. ASSUME NEW s \in Sessions, Archive(s) PROVE Goal
  BY <1>39, <1>1 DEF Archive, ShowsLive, Live
<1>40. ASSUME NEW s \in Sessions, Restore(s) PROVE Goal
  BY <1>40, <1>1 DEF Restore, ShowsLive, Live
<1>41. ASSUME NEW g \in Gates \cup {"open"}, SetGate(g) PROVE Goal
  BY <1>41, <1>3 DEF SetGate, ledger, Live
<1>42. ASSUME NEW class \in {"auth_wait", "usage_wait"}, ReleaseHolds(class) PROVE Goal
  <2>1. \A u \in Turns : turn'[u] = turn[u] \/ turn[u].status \in {"parked", "queued"}
    BY <1>42, <1>1, ResumeStatus DEF ReleaseHolds
  <2> QED
    BY <1>42, <2>1, <1>3 DEF ReleaseHolds, Live
<1>43. CASE Drain \/ Crash
  BY <1>43, <1>3 DEF Drain, Crash, ledger, Live
<1>44. CASE StartSessionTurnQueue
  <2>1. \A u \in Turns : turn'[u] = turn[u] \/ turn[u].status = "parked"
    BY <1>44, <1>1, ResumeStatus DEF StartSessionTurnQueue
  <2> QED
    BY <1>44, <2>1, <1>3 DEF StartSessionTurnQueue, Live
<1>45. ASSUME NEW t \in Turns, RequeueProvenUnsent(t) PROVE Goal
  <2>1. \A v \in Turns : Live(v)' = Live(v)
    <3>1. turn'[t].status = "queued" /\ turn[t].status = "error"
      BY <1>45, <1>1, UpdateStatus DEF RequeueProvenUnsent
    <3> QED
      BY <1>45, <3>1, <1>1 DEF RequeueProvenUnsent, Live
  <2> QED
    BY <1>45, <2>1, <1>1 DEF RequeueProvenUnsent, ShowsLive
<1>46. ASSUME NEW t \in Turns, SettleSupersededParkedTurn(t) PROVE Goal
  BY <1>46, <1>1, <1>2, <1>3 DEF SettleSupersededParkedTurn, Live
<1> QED
  BY <1>4, <1>5, <1>6, <1>7, <1>8, <1>9, <1>10, <1>11, <1>12, <1>13, <1>14, <1>15, <1>16,
     <1>17, <1>18, <1>19, <1>20, <1>21, <1>22, <1>23, <1>24, <1>25, <1>26, <1>27, <1>28,
     <1>29, <1>30, <1>31, <1>32, <1>33, <1>34, <1>35, <1>36, <1>37, <1>38, <1>39, <1>40,
     <1>41, <1>42, <1>43, <1>44, <1>45, <1>46
     DEF Next, Admit, Runs, Settle, Deliver, Recover, Request


\* Every way in which a turn ends gives its session back: a session that shows as
\* running has a turn that holds its lock.
THEOREM RunningShowsLiveTurn == Spec => []RunningSessionHasLiveTurn
<1>1. Init => RunningSessionHasLiveTurn
  BY DEF Init, RunningSessionHasLiveTurn
<1>2. TypeOK /\ RunningSessionHasLiveTurn /\ [Next]_vars => RunningSessionHasLiveTurn'
  <2> SUFFICES ASSUME TypeOK, RunningSessionHasLiveTurn, [Next]_vars
               PROVE  RunningSessionHasLiveTurn'
    OBVIOUS
  <2>1. CASE Next
    BY <2>1, ShowsLiveOfNext DEF ShowsLive, RunningSessionHasLiveTurn
  <2>2. CASE UNCHANGED vars
    BY <2>2 DEF vars, RunningSessionHasLiveTurn, Live
  <2> QED
    BY <2>1, <2>2
<1> QED
  BY <1>1, <1>2, TypeCorrect, PTL DEF Spec

-----------------------------------------------------------------------------
(* Replay safety of TurnLedger: an input the provider may have acted on is    *)
(* put back in line only where the error handling of its run threw.  It holds *)
(* for every set of sessions, every number and kind of turns and every bound; *)
(* the run blind_replay shows what a throwing handler does.                   *)

\* What the failure in hand says about the input is what the handlers read from it.
Confirmed(t) ==
    failure[t].confirmed /\ failure[t].kind # "worked" /\ ~turn[t].steered

\* The evidence of a turn: where the provider may have acted, the row or the run
\* still says so.  A queued input and a preparing run have no effects; past the
\* intent, the intent is recorded; a parked input that may be resumed has none;
\* an error after effects says that the provider did not confirm their absence.
Evidence(t) ==
    /\ turn[t].status \in {"absent", "queued"} => ~effects[t]
    /\ turn[t].status = "running" /\ effects[t] => turn[t].intended
    /\ turn[t].status = "parked" /\ Kind[t] \in {"slack_user", "comparison"}
           /\ turn[t].class # "parked_ambiguous" => ~effects[t]
    /\ run[t] \in {"claimed", "cleared", "intended"} => ~effects[t]
    /\ run[t] \in {"intended", "provider", "result"} => turn[t].intended
    /\ run[t] = "failed" /\ effects[t] =>
           turn[t].intended /\ (failure[t].kind = "cancelled" \/ ~Confirmed(t))

\* The two ways a parked input comes back into line ask whether it may be resumed.
LEMMA ResumeLeavesRest ==
    ASSUME turn \in [Turns -> TurnRow], NEW S, NEW u \in Turns
    PROVE  \/ AfterResume(S)[u] = turn[u]
           \/ Resumable(u) /\ AfterResume(S)[u] = Resumed(u)
BY DEF AfterResume

LEMMA ResumedFields ==
    ASSUME turn \in [Turns -> TurnRow], NEW t \in Turns
    PROVE  Resumed(t).status = "queued" /\ Resumed(t).steered = turn[t].steered
BY RowFields DEF Resumed

LEMMA EvidenceStays ==
    ASSUME NEW u \in Turns, Evidence(u), turn'[u] = turn[u], run'[u] = run[u],
           effects'[u] = effects[u], failure'[u] = failure[u]
    PROVE  Evidence(u)'
BY DEF Evidence, Confirmed

\* A resumed input had no effects and nothing runs it.
LEMMA ResumedEvidence ==
    ASSUME turn \in [Turns -> TurnRow], NEW u \in Turns, Evidence(u), Fenced(u), Resumable(u),
           turn'[u] = Resumed(u), run'[u] = run[u], effects'[u] = effects[u]
    PROVE  Evidence(u)'
BY ResumedFields DEF Evidence, Confirmed, Fenced, Works, Replies, Resumable

LEMMA EvidenceStep ==
    ASSUME TypeOK, Next, \A u \in Turns : Fenced(u) /\ (u \in thrown \/ Evidence(u))
    PROVE  \A u \in Turns : u \in thrown' \/ Evidence(u)'
<1> SUFFICES ASSUME NEW u \in Turns, u \notin thrown' PROVE Evidence(u)'
  OBVIOUS
<1> USE DEF history
<1>1. /\ turn \in [Turns -> TurnRow] /\ run \in [Turns -> RunStates]
      /\ effects \in [Turns -> BOOLEAN] /\ failure \in [Turns -> Failures]
  BY DEF TypeOK
<1>2. /\ DOMAIN turn = Turns
      /\ \A v \in Turns : DOMAIN turn[v] = {"status", "owner", "attempt", "intended",
             "acked", "stop", "class", "delivery", "steered", "artifacts"}
  BY <1>1, RowFields
<1>3. Fenced(u) /\ Evidence(u)
  BY HistoryStep
<1>4. ASSUME NEW t \in Turns, AcquireRunning(t) PROVE Evidence(u)'
  BY <1>4, <1>1, <1>2, <1>3 DEF AcquireRunning, LockFree, Claimed, NextId, service,
     Evidence, Confirmed, Fenced, Works, Replies
<1>5. ASSUME NEW t \in Turns, AcquireQueued(t) PROVE Evidence(u)'
  BY <1>5, <1>1, <1>2, <1>3 DEF AcquireQueued, NextId, Resumed, Resumable, service,
     Evidence, Confirmed, Fenced, Works, Replies
<1>6. ASSUME NEW t \in Turns, AcceptQueued(t) PROVE Evidence(u)'
  BY <1>6, <1>1, <1>2, <1>3 DEF AcceptQueued, NextId, process, Evidence, Confirmed,
     Fenced, Works, Replies
<1>7. ASSUME NEW t \in Turns, ClaimNextQueuedTurn(t) PROVE Evidence(u)'
  BY <1>7, <1>1, <1>2, <1>3 DEF ClaimNextQueuedTurn, Claimable, InLine, Claimed, Ended,
     service, Evidence, Confirmed, Fenced, Works, Replies
<1>8. ASSUME NEW t \in Turns, CheckStop(t) PROVE Evidence(u)'
  BY <1>8, <1>1, <1>2, <1>3 DEF CheckStop, Step, Fails, ledger, service, Evidence,
     Confirmed, Fenced, Works, Replies
<1>9. ASSUME NEW t \in Turns, PreparationFails(t) PROVE Evidence(u)'
  BY <1>9, <1>1, <1>2, <1>3 DEF PreparationFails, Step, Fails, ledger, service,
     Evidence, Confirmed, Fenced, Works, Replies
<1>10. ASSUME NEW t \in Turns, RecordIntent(t) PROVE Evidence(u)'
  BY <1>10, <1>1, <1>2, <1>3 DEF RecordIntent, Owned, Step, Fails, service, Evidence,
     Confirmed, Fenced, Works, Replies
<1>11. ASSUME NEW t \in Turns, CallProvider(t) PROVE Evidence(u)'
  BY <1>11, <1>1, <1>2, <1>3 DEF CallProvider, Step, ledger, service, Evidence,
     Confirmed, Fenced, Works, Replies
<1>12. ASSUME NEW t \in Turns, AcknowledgeInput(t) PROVE Evidence(u)'
  BY <1>12, <1>1, <1>2, <1>3 DEF AcknowledgeInput, process, Evidence, Confirmed, Fenced,
     Works, Replies
<1>13. ASSUME NEW t \in Turns, Steer(t) PROVE Evidence(u)'
  BY <1>13, <1>1, <1>2, <1>3 DEF Steer, process, Evidence, Confirmed, Fenced, Works,
     Replies
<1>14. ASSUME NEW t \in Turns, ProviderCancels(t) PROVE Evidence(u)'
  BY <1>14, <1>1, <1>2, <1>3 DEF ProviderCancels, Step, Fails, ledger, service,
     Evidence, Confirmed, Fenced, Works, Replies
<1>15. ASSUME NEW t \in Turns, ProviderFails(t) PROVE Evidence(u)'
  BY <1>15, <1>1, <1>2, <1>3 DEF ProviderFails, Step, Fails, ledger, service, Evidence,
     Confirmed, Fenced, Works, Replies
<1>16. ASSUME NEW t \in Turns, ProviderReturns(t) PROVE Evidence(u)'
  BY <1>16, <1>1, <1>2, <1>3 DEF ProviderReturns, Step, service, Evidence, Confirmed,
     Fenced, Works, Replies
<1>17. ASSUME NEW t \in Turns, MarkDelivering(t) PROVE Evidence(u)'
  <2>1. CASE MayDeliver(t)
    <3>1. turn'[t] = [turn[t] EXCEPT !.status = "delivering", !.delivery = "pending"]
      BY <1>17, <2>1, <1>1 DEF MarkDelivering
    <3>2. /\ turn'[t].status = "delivering" /\ turn'[t].delivery = "pending"
          /\ turn'[t].owner = turn[t].owner /\ turn'[t].artifacts = turn[t].artifacts
          /\ turn'[t].intended = turn[t].intended /\ turn'[t].steered = turn[t].steered
      BY <3>1, <1>2
    <3>3. u # t => turn'[u] = turn[u]
      BY <1>17, <2>1, <1>1 DEF MarkDelivering
    <3>4. /\ run[t] = "result" /\ run' = [run EXCEPT ![t] = "delivering"]
          /\ UNCHANGED <<failure, effects, service>>
      BY <1>17, <2>1 DEF MarkDelivering, Step, history
    <3> QED
      BY <3>2, <3>3, <3>4, <2>1, <1>1, <1>3 DEF MayDeliver, service, Evidence, Confirmed, Fenced,
         Works, Replies
  <2>2. CASE ~MayDeliver(t)
    BY <1>17, <2>2, <1>1, <1>2, <1>3 DEF MarkDelivering, Step, Fails, service, Evidence,
       Confirmed, Fenced, Works, Replies
  <2> QED
    BY <2>1, <2>2
<1>18. ASSUME NEW t \in Turns, RequeueOnDrain(t) PROVE Evidence(u)'
  BY <1>18, <1>1, <1>2, <1>3 DEF RequeueOnDrain, Requeued, Step, service, Evidence,
     Confirmed, Fenced, Works, Replies
<1>19. ASSUME NEW t \in Turns, SettleCancelled(t) PROVE Evidence(u)'
  BY <1>19, <1>1, <1>2, <1>3 DEF SettleCancelled, Settles, Ended, Abandoned, Step,
     service, Evidence, Confirmed, Fenced, Works, Replies
<1>20. ASSUME NEW t \in Turns, SettleRetry(t) PROVE Evidence(u)'
  <2>1. u # t => Evidence(u)'
    BY <1>20, <1>1, <1>3, EvidenceStays DEF SettleRetry, Settles, Step, service
  <2>2. ASSUME u = t PROVE Evidence(u)'
    <3>1. ~effects[t]
      BY <1>20, <1>3, <2>2 DEF SettleRetry, Preserved, ReplaySafe, Evidence, Confirmed, Settles,
           Step
    <3>2. run'[t] = "unwind" /\ effects'[t] = effects[t]
      BY <1>20, <1>1 DEF SettleRetry, Settles, Step, service
    <3> QED
      BY <3>1, <3>2, <2>2 DEF Evidence
  <2> QED
    BY <2>1, <2>2
<1>21. ASSUME NEW t \in Turns, SettlePark(t) PROVE Evidence(u)'
  <2>1. u # t => Evidence(u)'
    BY <1>21, <1>1, <1>3, EvidenceStays DEF SettlePark, Settles, Step, service
  <2>2. ASSUME u = t PROVE Evidence(u)'
    <3>1. ReplaySafe(t) => ~effects[t]
      BY <1>21, <1>3, <2>2 DEF SettlePark, Preserved, ReplaySafe, Evidence, Confirmed, Settles,
           Step
    <3>2. run'[t] = "unwind" /\ effects'[t] = effects[t]
      BY <1>21, <1>1 DEF SettlePark, Settles, Step, service
    <3>3. turn'[t].status = "parked" /\ (~ReplaySafe(t) => turn'[t].class = "parked_ambiguous")
      BY <1>21, <1>1, <1>2 DEF SettlePark, Settles, Ended
    <3> QED
      BY <3>1, <3>2, <3>3, <2>2 DEF Evidence
  <2> QED
    BY <2>1, <2>2
<1>22. ASSUME NEW t \in Turns, SettleFail(t) PROVE Evidence(u)'
  BY <1>22, <1>1, <1>2, <1>3 DEF SettleFail, Settles, Ended, Abandoned, Step, service,
     Evidence, Confirmed, Fenced, Works, Replies
<1>23. ASSUME NEW t \in Turns, SettleCut(t) PROVE Evidence(u)'
  BY <1>23, <1>1, <1>2, <1>3 DEF SettleCut, Step, ledger, service, Evidence, Confirmed,
     Fenced, Works, Replies
<1>24. ASSUME NEW t \in Turns, RunRejects(t) PROVE Evidence(u)'
  <2>1. run'[t] = "none" /\ effects' = effects /\ (u = t => run[t] = "claimed")
    BY <1>24, <1>1 DEF RunRejects
  <2>2. u # t => turn'[u] = turn[u] /\ run'[u] = run[u] /\ failure'[u] = failure[u]
    BY <1>24, <1>1, SetupFailureStatus DEF RunRejects, ledger
  <2>3. CASE u = t
    BY <1>24, <2>1, <2>3, <1>3 DEF RunRejects, Evidence
  <2>4. CASE u # t
    BY <2>1, <2>2, <2>4, <1>3, EvidenceStays
  <2> QED
    BY <2>3, <2>4
<1>25. ASSUME NEW t \in Turns, Unwind(t) PROVE Evidence(u)'
  BY <1>25, <1>1, <1>2, <1>3 DEF Unwind, AfterResume, Resumed, Resumable, Step, service,
     Evidence, Confirmed, Fenced, Works, Replies
<1>26. ASSUME NEW t \in Turns, Delivered(t) PROVE Evidence(u)'
  BY <1>26, <1>1, <1>2, <1>3 DEF Delivered, Step, service, Evidence, Confirmed, Fenced,
     Works, Replies
<1>27. ASSUME NEW t \in Turns, DeliveryParked(t) PROVE Evidence(u)'
  BY <1>27, <1>1, <1>2, <1>3 DEF DeliveryParked, Ended, Abandoned, Leaves, service,
     Evidence, Confirmed, Fenced, Works, Replies
<1>28. ASSUME NEW t \in Turns, Relinquish(t) PROVE Evidence(u)'
  BY <1>28, <1>1, <1>2, <1>3 DEF Relinquish, Relinquished, Leaves, Evidence, Confirmed,
     Fenced, Works, Replies
<1>29. ASSUME NEW t \in Turns, FinishDelivered(t) PROVE Evidence(u)'
  BY <1>29, <1>1, <1>2, <1>3 DEF FinishDelivered, Ended, Leaves, service, Evidence,
     Confirmed, Fenced, Works, Replies
<1>30. ASSUME NEW t \in Turns, SettleArtifacts(t) PROVE Evidence(u)'
  BY <1>30, <1>1, <1>2, <1>3 DEF SettleArtifacts, process, Evidence, Confirmed, Fenced,
     Works, Replies
<1>31. ASSUME NEW t \in Turns, RecoverRunning(t) PROVE Evidence(u)'
  <2>1. u # t => Evidence(u)'
    BY <1>31, <1>1, <1>3, EvidenceStays DEF RecoverRunning
  <2>2. ASSUME u = t PROVE Evidence(u)'
    <3>1. run'[t] = "none" /\ effects'[t] = effects[t] /\ turn[t].status = "running"
      BY <1>31, <1>1 DEF RecoverRunning, Recovers
    <3>2. \/ turn'[t].status = "cancelled"
          \/ turn'[t].status = "queued" /\ Unattempted(t)
          \/ turn'[t].status = "interrupted"
      BY <1>31, <1>1, UpdateStatus DEF RecoverRunning
    <3>3. Unattempted(t) => ~effects[t]
      BY <3>1, <2>2, <1>3 DEF Unattempted, Evidence
    <3> QED
      BY <3>1, <3>2, <3>3, <2>2 DEF Evidence
  <2> QED
    BY <2>1, <2>2
<1>32. ASSUME NEW t \in Turns, RecoverDelivering(t) PROVE Evidence(u)'
  <2>1. u # t => Evidence(u)'
    BY <1>32, <1>1, <1>3, EvidenceStays DEF RecoverDelivering
  <2>2. ASSUME u = t PROVE Evidence(u)'
    <3>1. run'[t] \in {"none", "redeliver"}
      BY <1>32, <1>1 DEF RecoverDelivering, Recovers
    <3>2. turn'[t].status \in {"done", "delivering"}
      <4>1. CASE turn' = [turn EXCEPT ![t] = Ended(t, "done")]
        BY <4>1, <1>1, UpdateStatus
      <4>2. CASE turn' = [turn EXCEPT ![t].owner = instance] /\ turn[t].status = "delivering"
        BY <4>2, <1>1, <1>2
      <4> QED
        BY <1>32, <4>1, <4>2 DEF RecoverDelivering
    <3> QED
      BY <3>1, <3>2, <2>2 DEF Evidence
  <2> QED
    BY <2>1, <2>2
<1>33. ASSUME NEW t \in Turns, SweepGhostRunningTurn(t) PROVE Evidence(u)'
  <2>1. u # t => Evidence(u)'
    BY <1>33, <1>1, <1>3, EvidenceStays DEF SweepGhostRunningTurn, process
  <2>2. ASSUME u = t PROVE Evidence(u)'
    <3>1. run'[t] = "none" /\ effects'[t] = effects[t] /\ turn[t].status = "running"
      BY <1>33, <1>1 DEF SweepGhostRunningTurn, Ghost, Owned, process
    <3>2. \/ turn'[t].status = "cancelled"
          \/ turn'[t].status = "queued" /\ Unattempted(t)
          \/ turn'[t].status = "interrupted"
      BY <1>33, <1>1, UpdateStatus DEF SweepGhostRunningTurn
    <3>3. Unattempted(t) => ~effects[t]
      BY <3>1, <2>2, <1>3 DEF Unattempted, Evidence
    <3> QED
      BY <3>1, <3>2, <3>3, <2>2 DEF Evidence
  <2> QED
    BY <2>1, <2>2
<1>34. ASSUME NEW t \in Turns, ReconcileNativeResult(t) PROVE Evidence(u)'
  <2>1. u # t => Evidence(u)'
    BY <1>34, <1>1, <1>3, EvidenceStays DEF ReconcileNativeResult, service
  <2>2. ASSUME u = t PROVE Evidence(u)'
    <3>1. run'[t] \in {"none", "redeliver"}
      BY <1>34, <1>1 DEF ReconcileNativeResult
    <3>2. turn'[t].status \in {"done", "delivering"}
      <4>1. CASE turn' = [turn EXCEPT ![t] = Ended(t, "done")]
        BY <4>1, <1>1, UpdateStatus
      <4>2. CASE turn' = [turn EXCEPT ![t] = [@ EXCEPT !.status = "delivering", !.owner = instance,
                                                       !.delivery = "pending"]]
        BY <4>2, <1>1, <1>2
      <4> QED
        BY <1>34, <4>1, <4>2 DEF ReconcileNativeResult
    <3> QED
      BY <3>1, <3>2, <2>2 DEF Evidence
  <2> QED
    BY <2>1, <2>2
<1>35. ASSUME NEW t \in Turns, ReconcileNativeFailure(t) PROVE Evidence(u)'
  BY <1>35, <1>1, <1>2, <1>3 DEF ReconcileNativeFailure, ReconcilableResult, Ended,
     process, Evidence, Confirmed, Fenced, Works, Replies
<1>36. ASSUME NEW t \in Turns, RequestStop(t) PROVE Evidence(u)'
  BY <1>36, <1>1, <1>2, <1>3 DEF RequestStop, process, Evidence, Confirmed, Fenced,
     Works, Replies
<1>37. ASSUME NEW t \in Turns, CancelQueued(t) PROVE Evidence(u)'
  BY <1>37, <1>1, <1>2, <1>3 DEF CancelQueued, process, Evidence, Confirmed, Fenced,
     Works, Replies
<1>38. ASSUME NEW t \in Turns, ResumeParkedSessionTurn(t) PROVE Evidence(u)'
  BY <1>38, <1>1, <1>2, <1>3 DEF ResumeParkedSessionTurn, Resumed, Resumable, process,
     Evidence, Confirmed, Fenced, Works, Replies
<1>39. ASSUME NEW s \in Sessions, Archive(s) PROVE Evidence(u)'
  BY <1>39, <1>1, <1>2, <1>3 DEF Archive, process, Evidence, Confirmed, Fenced, Works,
     Replies
<1>40. ASSUME NEW s \in Sessions, Restore(s) PROVE Evidence(u)'
  BY <1>40, <1>1, <1>2, <1>3 DEF Restore, process, Evidence, Confirmed, Fenced, Works,
     Replies
<1>41. ASSUME NEW g \in Gates \cup {"open"}, SetGate(g) PROVE Evidence(u)'
  BY <1>41, <1>1, <1>2, <1>3 DEF SetGate, ledger, process, Evidence, Confirmed, Fenced,
     Works, Replies
<1>42. ASSUME NEW class \in {"auth_wait",
            "usage_wait"}, ReleaseHolds(class)
     PROVE Evidence(u)'
  BY <1>42, <1>1, <1>2, <1>3 DEF ReleaseHolds, AfterResume, Resumed, Resumable, process,
     Evidence, Confirmed, Fenced, Works, Replies
<1>43. CASE Drain
  BY <1>43, <1>1, <1>2, <1>3 DEF Drain, ledger, Evidence, Confirmed, Fenced, Works,
     Replies
<1>44. CASE Crash
  <2>1. run'[u] = "none" /\ turn' = turn /\ effects' = effects
    BY <1>44 DEF Crash, ledger
  <2> QED
    BY <2>1, <1>3 DEF Evidence
<1>45. CASE StartSessionTurnQueue
  <2>1. \/ turn'[u] = turn[u]
        \/ Resumable(u) /\ turn'[u] = Resumed(u)
    BY <1>45, <1>1, ResumeLeavesRest DEF StartSessionTurnQueue
  <2>2. effects'[u] = effects[u] /\ run'[u] = run[u] /\ failure'[u] = failure[u]
    BY <1>45 DEF StartSessionTurnQueue
  <2> QED
    BY <2>1, <2>2, <1>1, <1>3, EvidenceStays, ResumedEvidence
<1>46. ASSUME NEW t \in Turns, RequeueProvenUnsent(t) PROVE Evidence(u)'
  <2>1. u # t => Evidence(u)'
    BY <1>46, <1>1, <1>3, EvidenceStays DEF RequeueProvenUnsent, process
  <2>2. CASE u = t
    <3>1. turn'[t].status = "queued" /\ turn[t].status = "error" /\ ~effects'[t] /\ run'[t] = run[t]
      BY <1>46, <1>1, UpdateStatus DEF RequeueProvenUnsent, process
    <3> QED
      BY <3>1, <2>2, <1>3 DEF Evidence, Fenced, Works
  <2> QED
    BY <2>1, <2>2
<1>47. ASSUME NEW t \in Turns, SettleSupersededParkedTurn(t) PROVE Evidence(u)'
  BY <1>47, <1>1, <1>2, <1>3 DEF SettleSupersededParkedTurn, process, Evidence, Confirmed,
     Fenced, Works, Replies
<1> QED
  BY <1>4, <1>5, <1>6, <1>7, <1>8, <1>9, <1>10, <1>11, <1>12, <1>13, <1>14, <1>15, <1>16,
     <1>17, <1>18, <1>19, <1>20, <1>21, <1>22, <1>23, <1>24, <1>25, <1>26, <1>27, <1>28,
     <1>29, <1>30, <1>31, <1>32, <1>33, <1>34, <1>35, <1>36, <1>37, <1>38, <1>39, <1>40,
     <1>41, <1>42, <1>43, <1>44, <1>45, <1>46, <1>47
     DEF Next, Admit, Runs, Settle, Deliver, Recover, Request

\* Every retry rests on proof that the provider did nothing: from the admission
\* intent on, only a confirmed end without work, steering or uploads puts an
\* input back in line, through every failure, restart, watchdog and resume; what
\* is left out is the input whose run's error handling itself threw.
THEOREM ReplayNeedsProof == Spec => []ReplayIsProven
<1> DEFINE Inv == RunHoldsItsTurn /\ \A u \in Turns : u \in thrown \/ Evidence(u)
<1>1. Init => Inv
  BY DEF Init, AbsentRow, RunHoldsItsTurn, Evidence
<1>2. TypeOK /\ Inv /\ [Next]_vars => Inv'
  <2> SUFFICES ASSUME TypeOK, Inv, [Next]_vars PROVE Inv'
    OBVIOUS
  <2>1. RunHoldsItsTurn'
    BY RunHoldsStep
  <2>2. CASE Next
    <3>1. \A u \in Turns : Fenced(u)
      BY DEF RunHoldsItsTurn, Owned, Fenced, Works, Replies
    <3> QED
      BY <2>1, <2>2, <3>1, EvidenceStep
  <2>3. CASE UNCHANGED vars
    BY <2>1, <2>3 DEF vars, history, Evidence, Confirmed
  <2> QED
    BY <2>2, <2>3
<1>3. Inv => ReplayIsProven
  BY DEF Evidence, ReplayIsProven
<1> QED
  BY <1>1, <1>2, <1>3, TypeCorrect, PTL DEF Spec

=============================================================================
