---------------------------- MODULE RequestsProofs ----------------------------
(* Proofs about requests that cross a boundary: those between instances and   *)
(* forks asked of a provider, whose other side the ledger cannot lock, and    *)
(* those that a change of provider takes along to another session.            *)
EXTENDS PeerRequests, ForkRequests, SessionHandoff, FiniteSetTheorems, TLAPS

-----------------------------------------------------------------------------
(* Proofs about PeerRequests: the origin and the recipient of a request agree *)
(* on its reply, for any number of lost calls and restarts.                   *)

Ended == {"refused", "failed", "cancelled", "withdrawn"}

AskedRow == [status : {"none", "queued_offline", "recorded", "settled"}, work : BOOLEAN, read : BOOLEAN,
             outcome : {"none", "answered", "failed", "stopped", "canceled"},
             acknowledged : BOOLEAN, held : BOOLEAN, fresh : BOOLEAN]
TaskState == [step : {"rest", "asking", "accepted", "reading", "read", "fetching", "revoking"},
              seen : BOOLEAN, end : {"none", "failed", "stopped"}, reply : ReplyStates]
ReportState == [step : {"rest", "pushing", "pushed", "notice", "notifying", "waiting", "told"}, closed : BOOLEAN,
                answer : {"none", "recorded", "refused", "answered", "failed", "stopped", "canceled"}]

AskedType == asked \in AskedRow
TaskType == task \in [OriginTasks -> TaskState]
StrayType == strayAsk \in BOOLEAN
DeliveryType == delivery \in {"none", "open", "closed"} /\ target \in TurnStates
ReplyType == reply \in [status : ReplyStates, files : BOOLEAN, timely : BOOLEAN]
ReportType == report \in ReportState
NewsType == news \in BOOLEAN
LostType == lost \in 0 .. MaxLost

Typed ==
    /\ AskedType /\ TaskType /\ StrayType /\ DeliveryType
    /\ ReplyType /\ ReportType /\ NewsType /\ LostType

LEMMA SettlementType ==
    ASSUME asked \in AskedRow, NEW outcome \in {"failed", "stopped", "canceled"}, NEW seen
    PROVE  Settlement(outcome, seen) \in AskedRow
BY DEF Settlement, AskedRow

LEMMA InferredType ==
    ASSUME asked \in AskedRow, NEW end \in {"none", "failed", "stopped"}
    PROVE  Inferred(end) \in AskedRow
BY SettlementType DEF Inferred

LEMMA RecordedType ==
    ASSUME asked \in AskedRow
    PROVE  Recorded \in AskedRow
BY DEF Recorded, Unproven, AskedRow

-----------------------------------------------------------------------------
(* Every step keeps the types of both ledgers and of the tasks.               *)
LEMMA PeerTypeStep ==
    ASSUME PeerTypeOK, PeerNext
    PROVE  PeerTypeOK'
<1>0. AskedType /\ TaskType /\ StrayType /\ DeliveryType /\ ReplyType /\ ReportType /\ NewsType /\ LostType
  BY DEF PeerTypeOK, AskedType, AskedRow, TaskType, TaskState, StrayType, DeliveryType, ReplyType,
            ReportType, ReportState, NewsType, LostType
<1> SUFFICES Typed'
  BY DEF PeerTypeOK, AskedType, AskedRow, TaskType, TaskState, StrayType, DeliveryType, ReplyType,
            ReportType, ReportState, NewsType, LostType, Typed
<1>1. ASSUME Ask
      PROVE  Typed'
  <2>1. AskedType' BY <1>0, <1>1 DEF Ask, originSide, recipientSide, AskedType, AskedRow
  <2>2. (TaskType /\ StrayType /\ DeliveryType /\ ReplyType /\ ReportType /\ NewsType /\ LostType)'
    BY <1>0, <1>1 DEF Ask, originSide, recipientSide, TaskType, StrayType, DeliveryType, ReplyType,
            ReportType, NewsType, LostType
  <2> QED BY <2>1, <2>2 DEF Typed
<1>2. ASSUME CancelRequest
      PROVE  Typed'
  <2>1. AskedType' BY <1>0, <1>2 DEF CancelRequest, originSide, recipientSide, Settlement, AskedType,
            AskedRow
  <2>2. (TaskType /\ StrayType /\ DeliveryType /\ ReplyType /\ ReportType /\ NewsType /\ LostType)'
    BY <1>0, <1>2 DEF CancelRequest, originSide, recipientSide, TaskType, StrayType, DeliveryType,
            ReplyType, ReportType, NewsType, LostType
  <2> QED BY <2>1, <2>2 DEF Typed
<1>3. ASSUME DispatchStarts
      PROVE  Typed'
  <2>1. TaskType' BY <1>0, <1>3 DEF DispatchStarts, originSide, recipientSide, Begun, Idle, TaskType,
            TaskState, OriginTasks, Dispatches, ReplyStates, AskedType, AskedRow
  <2>2. (AskedType /\ StrayType /\ DeliveryType /\ ReplyType /\ ReportType /\ NewsType /\ LostType)'
    BY <1>0, <1>3 DEF DispatchStarts, originSide, recipientSide, AskedType, StrayType, DeliveryType,
            ReplyType, ReportType, NewsType, LostType
  <2> QED BY <2>1, <2>2 DEF Typed
<1>4. ASSUME StrayAskServed
      PROVE  Typed'
  <2>1. StrayType' BY <1>0, <1>4 DEF StrayAskServed, originSide, recipientSide, Accepted, StrayType
  <2>2. DeliveryType' BY <1>0, <1>4 DEF StrayAskServed, originSide, recipientSide, Accepted,
            DeliveryType, TurnStates
  <2>3. (AskedType /\ TaskType /\ ReplyType /\ ReportType /\ NewsType /\ LostType)'
    BY <1>0, <1>4 DEF StrayAskServed, originSide, recipientSide, AskedType, TaskType, ReplyType,
            ReportType, NewsType, LostType
  <2> QED BY <2>1, <2>2, <2>3 DEF Typed
<1>5. ASSUME RevocationStarts
      PROVE  Typed'
  <2>1. TaskType' BY <1>0, <1>5 DEF RevocationStarts, originSide, recipientSide, Idle, TaskType,
            TaskState, OriginTasks, Dispatches, ReplyStates
  <2>2. (AskedType /\ StrayType /\ DeliveryType /\ ReplyType /\ ReportType /\ NewsType /\ LostType)'
    BY <1>0, <1>5 DEF RevocationStarts, originSide, recipientSide, AskedType, StrayType, DeliveryType,
            ReplyType, ReportType, NewsType, LostType
  <2> QED BY <2>1, <2>2 DEF Typed
<1>6. ASSUME NEW t \in Dispatches, AskServed(t)
      PROVE  Typed'
  <2>1. TaskType' BY <1>0, <1>6 DEF AskServed, originSide, recipientSide, Accepted, TaskType,
            TaskState, OriginTasks, Dispatches, ReplyStates
  <2>2. DeliveryType' BY <1>0, <1>6 DEF AskServed, originSide, recipientSide, Accepted, DeliveryType,
            TurnStates
  <2>3. (AskedType /\ StrayType /\ ReplyType /\ ReportType /\ NewsType /\ LostType)'
    BY <1>0, <1>6 DEF AskServed, originSide, recipientSide, AskedType, StrayType, ReplyType,
            ReportType, NewsType, LostType
  <2> QED BY <2>1, <2>2, <2>3 DEF Typed
<1>7. ASSUME NEW t \in Dispatches, AskAnswered(t)
      PROVE  Typed'
  <2>1. AskedType' BY <1>0, <1>7 DEF AskAnswered, originSide, recipientSide, Idle, AskedType, AskedRow
  <2>2. TaskType' BY <1>0, <1>7 DEF AskAnswered, originSide, recipientSide, Idle, TaskType, TaskState,
            OriginTasks, Dispatches, ReplyStates, AskedType, AskedRow
  <2>3. (StrayType /\ DeliveryType /\ ReplyType /\ ReportType /\ NewsType /\ LostType)'
    BY <1>0, <1>7 DEF AskAnswered, originSide, recipientSide, StrayType, DeliveryType, ReplyType,
            ReportType, NewsType, LostType
  <2> QED BY <2>1, <2>2, <2>3 DEF Typed
<1>8. ASSUME NEW t \in Dispatches, StatusServed(t)
      PROVE  Typed'
  <2>1. TaskType'
    <3>1. TurnEnd \in {"none", "failed", "stopped"} /\ reply.status \in ReplyStates
      BY <1>0 DEF TurnEnd, ReplyType
    <3>2. task[t] \in TaskState
      BY <1>0 DEF TaskType, OriginTasks
    <3>3. [task[t] EXCEPT !.step = "read", !.end = TurnEnd, !.reply = reply.status] \in TaskState
      BY <3>1, <3>2 DEF TaskState
    <3> QED
      BY <1>0, <1>8, <3>3 DEF StatusServed, TaskType
  <2>2. (AskedType /\ StrayType /\ DeliveryType /\ ReplyType /\ ReportType /\ NewsType /\ LostType)'
    BY <1>0, <1>8 DEF StatusServed, originSide, recipientSide, AskedType, StrayType, DeliveryType,
            ReplyType, ReportType, NewsType, LostType
  <2> QED BY <2>1, <2>2 DEF Typed
<1>9. ASSUME NEW t \in Dispatches, StatusRead(t)
      PROVE  Typed'
  <2>0. task[t].end \in {"none", "failed", "stopped"}
    BY <1>0 DEF TaskType, TaskState, OriginTasks
  <2>a. Recorded \in AskedRow /\ Inferred(task[t].end) \in AskedRow
    BY <1>0, <2>0, RecordedType, InferredType DEF AskedType
  <2>1. AskedType'
    <3>1. CASE Unheld(task[t].reply) /\ ~reply.files
      BY <1>9, <3>1, <2>a, <1>0 DEF StatusRead, AskedType, AskedRow
    <3>2. CASE ~(Unheld(task[t].reply) /\ ~reply.files) /\ (Unheld(task[t].reply) \/ asked.outcome # "none")
      BY <1>9, <3>2, <1>0 DEF StatusRead, AskedType, AskedRow
    <3>3. CASE ~Unheld(task[t].reply) /\ asked.outcome = "none"
      BY <1>9, <3>3, <2>a, <1>0 DEF StatusRead, AskedType, AskedRow
    <3> QED BY <3>1, <3>2, <3>3
  <2>2. TaskType' BY <1>0, <1>9 DEF StatusRead, originSide, recipientSide, Recorded, Unproven, Inferred,
            Settlement, Idle, TaskType, TaskState, OriginTasks, Dispatches, ReplyStates
  <2>3. (StrayType /\ DeliveryType /\ ReplyType /\ ReportType /\ NewsType /\ LostType)'
    BY <1>0, <1>9 DEF StatusRead, originSide, recipientSide, StrayType, DeliveryType, ReplyType,
            ReportType, NewsType, LostType
  <2> QED BY <2>1, <2>2, <2>3 DEF Typed
<1>10. ASSUME NEW t \in Dispatches, Fetched(t)
      PROVE  Typed'
  <2>1. AskedType' BY <1>0, <1>10 DEF Fetched, originSide, recipientSide, Recorded, Unproven, Idle, AskedType,
            AskedRow
  <2>2. TaskType' BY <1>0, <1>10 DEF Fetched, originSide, recipientSide, Recorded, Unproven, Idle, TaskType,
            TaskState, OriginTasks, Dispatches, ReplyStates
  <2>3. (StrayType /\ DeliveryType /\ ReplyType /\ ReportType /\ NewsType /\ LostType)'
    BY <1>0, <1>10 DEF Fetched, originSide, recipientSide, StrayType, DeliveryType, ReplyType,
            ReportType, NewsType, LostType
  <2> QED BY <2>1, <2>2, <2>3 DEF Typed
<1>11. ASSUME NEW t \in Dispatches, FetchFails(t)
      PROVE  Typed'
  <2>0. task[t].end \in {"none", "failed", "stopped"}
    BY <1>0 DEF TaskType, TaskState, OriginTasks
  <2>a. Settlement("failed", task[t].seen) \in AskedRow /\ Inferred(task[t].end) \in AskedRow
    BY <1>0, <2>0, SettlementType, InferredType DEF AskedType
  <2>1. AskedType' BY <1>11, <2>a DEF FetchFails, AskedType
  <2>2. TaskType' BY <1>0, <1>11 DEF FetchFails, originSide, recipientSide, Settlement, Inferred,
            Idle, Loses, TaskType, TaskState, OriginTasks, Dispatches, ReplyStates
  <2>3. LostType' BY <1>0, <1>11, MaxLostAssumption DEF FetchFails, originSide, recipientSide,
            Settlement, Inferred, Idle, Loses, LostType
  <2>4. (StrayType /\ DeliveryType /\ ReplyType /\ ReportType /\ NewsType)'
    BY <1>0, <1>11 DEF FetchFails, originSide, recipientSide, StrayType, DeliveryType, ReplyType,
            ReportType, NewsType
  <2> QED BY <2>1, <2>2, <2>3, <2>4 DEF Typed
<1>12. ASSUME NEW t \in OriginTasks, CallLost(t)
      PROVE  Typed'
  <2>1. TaskType' BY <1>0, <1>12 DEF CallLost, originSide, recipientSide, Idle, Loses, TaskType,
            TaskState, OriginTasks, Dispatches, ReplyStates
  <2>2. StrayType' BY <1>0, <1>12 DEF CallLost, originSide, recipientSide, Idle, Loses, StrayType
  <2>3. LostType' BY <1>0, <1>12, MaxLostAssumption DEF CallLost, originSide, recipientSide, Idle,
            Loses, LostType
  <2>4. (AskedType /\ DeliveryType /\ ReplyType /\ ReportType /\ NewsType)'
    BY <1>0, <1>12 DEF CallLost, originSide, recipientSide, AskedType, DeliveryType, ReplyType,
            ReportType, NewsType
  <2> QED BY <2>1, <2>2, <2>3, <2>4 DEF Typed
<1>13. ASSUME NEW t \in OriginTasks, RevocationServed(t)
      PROVE  Typed'
  <2>1. AskedType' BY <1>0, <1>13 DEF RevocationServed, originSide, recipientSide, CanceledByOrigin,
            Idle, Loses, AskedType, AskedRow
  <2>2. TaskType' BY <1>0, <1>13 DEF RevocationServed, originSide, recipientSide, CanceledByOrigin,
            Idle, Loses, TaskType, TaskState, OriginTasks, Dispatches, ReplyStates
  <2>3. DeliveryType' BY <1>0, <1>13 DEF RevocationServed, originSide, recipientSide,
            CanceledByOrigin, Idle, Loses, DeliveryType, TurnStates
  <2>4. NewsType' BY <1>0, <1>13 DEF RevocationServed, originSide, recipientSide, CanceledByOrigin,
            Idle, Loses, NewsType
  <2>5. LostType' BY <1>0, <1>13, MaxLostAssumption DEF RevocationServed, originSide, recipientSide,
            CanceledByOrigin, Idle, Loses, LostType
  <2>6. (StrayType /\ ReplyType /\ ReportType)'
    BY <1>0, <1>13 DEF RevocationServed, originSide, recipientSide, StrayType, ReplyType, ReportType
  <2> QED BY <2>1, <2>2, <2>3, <2>4, <2>5, <2>6 DEF Typed
<1>14. ASSUME TargetAdmitted
      PROVE  Typed'
  <2>1. DeliveryType' BY <1>0, <1>14 DEF TargetAdmitted, originSide, recipientSide, DeliveryType,
            TurnStates
  <2>2. NewsType' BY <1>0, <1>14 DEF TargetAdmitted, originSide, recipientSide, NewsType
  <2>3. (AskedType /\ TaskType /\ StrayType /\ ReplyType /\ ReportType /\ LostType)'
    BY <1>0, <1>14 DEF TargetAdmitted, originSide, recipientSide, AskedType, TaskType, StrayType,
            ReplyType, ReportType, LostType
  <2> QED BY <2>1, <2>2, <2>3 DEF Typed
<1>15. ASSUME TargetMoves
      PROVE  Typed'
  <2>1. DeliveryType' BY <1>0, <1>15 DEF TargetMoves, originSide, recipientSide, DeliveryType,
            TurnStates
  <2>2. NewsType' BY <1>0, <1>15 DEF TargetMoves, originSide, recipientSide, NewsType
  <2>3. (AskedType /\ TaskType /\ StrayType /\ ReplyType /\ ReportType /\ LostType)'
    BY <1>0, <1>15 DEF TargetMoves, originSide, recipientSide, AskedType, TaskType, StrayType,
            ReplyType, ReportType, LostType
  <2> QED BY <2>1, <2>2, <2>3 DEF Typed
<1>16. ASSUME ReplyMade
      PROVE  Typed'
  <2>1. ReplyType' BY <1>0, <1>16 DEF ReplyMade, originSide, recipientSide, ReplyType, ReplyStates
  <2>2. NewsType' BY <1>0, <1>16 DEF ReplyMade, originSide, recipientSide, NewsType
  <2>3. (AskedType /\ TaskType /\ StrayType /\ DeliveryType /\ ReportType /\ LostType)'
    BY <1>0, <1>16 DEF ReplyMade, originSide, recipientSide, AskedType, TaskType, StrayType,
            DeliveryType, ReportType, LostType
  <2> QED BY <2>1, <2>2, <2>3 DEF Typed
<1>17. ASSUME ReportStarts
      PROVE  Typed'
  <2>1. ReportType' BY <1>0, <1>17 DEF ReportStarts, originSide, recipientSide, NoReport, ReportType,
            ReportState
  <2>2. (AskedType /\ TaskType /\ StrayType /\ DeliveryType /\ ReplyType /\ NewsType /\ LostType)'
    BY <1>0, <1>17 DEF ReportStarts, originSide, recipientSide, AskedType, TaskType, StrayType,
            DeliveryType, ReplyType, NewsType, LostType
  <2> QED BY <2>1, <2>2 DEF Typed
<1>18. ASSUME PushServed
      PROVE  Typed'
  <2>1. AskedType' BY <1>0, <1>18 DEF PushServed, originSide, recipientSide, Recorded, Unproven, AskedType,
            AskedRow
  <2>2. ReportType' BY <1>0, <1>18 DEF PushServed, originSide, recipientSide, Recorded, Unproven, ReportType,
            ReportState
  <2>3. (TaskType /\ StrayType /\ DeliveryType /\ ReplyType /\ NewsType /\ LostType)'
    BY <1>0, <1>18 DEF PushServed, originSide, recipientSide, TaskType, StrayType, DeliveryType,
            ReplyType, NewsType, LostType
  <2> QED BY <2>1, <2>2, <2>3 DEF Typed
<1>19. ASSUME PushEnds
      PROVE  Typed'
  <2>1. ReplyType' BY <1>0, <1>19 DEF PushEnds, originSide, recipientSide, PushAnswer, Loses,
            ReplyType, ReplyStates, ReportType, ReportState
  <2>2. ReportType' BY <1>0, <1>19 DEF PushEnds, originSide, recipientSide, PushAnswer, Loses,
            ReportType, ReportState
  <2>3. NewsType' BY <1>0, <1>19 DEF PushEnds, originSide, recipientSide, PushAnswer, Loses, NewsType,
            ReportType, ReportState
  <2>4. LostType' BY <1>0, <1>19, MaxLostAssumption DEF PushEnds, originSide, recipientSide,
            PushAnswer, Loses, LostType, ReportType, ReportState
  <2>5. (AskedType /\ TaskType /\ StrayType /\ DeliveryType)'
    BY <1>0, <1>19 DEF PushEnds, originSide, recipientSide, AskedType, TaskType, StrayType, DeliveryType
  <2> QED BY <2>1, <2>2, <2>3, <2>4, <2>5 DEF Typed
<1>20. ASSUME NoticeStarts
      PROVE  Typed'
  <2>1. ReportType'
    <3>1. CASE report' = NoReport
      BY <3>1 DEF NoReport, ReportType, ReportState
    <3>2. CASE report' = [report EXCEPT !.step = "notifying"]
      BY <3>2, <1>0 DEF ReportType, ReportState
    <3> QED BY <1>20, <3>1, <3>2 DEF NoticeStarts
  <2>2. NewsType' BY <1>0, <1>20 DEF NoticeStarts, originSide, recipientSide, NoReport, NewsType
  <2>3. (AskedType /\ TaskType /\ StrayType /\ DeliveryType /\ ReplyType /\ LostType)'
    BY <1>0, <1>20 DEF NoticeStarts, originSide, recipientSide, AskedType, TaskType, StrayType,
            DeliveryType, ReplyType, LostType
  <2> QED BY <2>1, <2>2, <2>3 DEF Typed
<1>21. ASSUME NoticeServed
      PROVE  Typed'
  <2>1. TaskType' BY <1>0, <1>21 DEF NoticeServed, originSide, recipientSide, Begun, Idle, TaskType,
            TaskState, OriginTasks, Dispatches, ReplyStates, AskedType, AskedRow
  <2>2. ReportType' BY <1>0, <1>21 DEF NoticeServed, originSide, recipientSide, Begun, Idle,
            ReportType, ReportState, AskedType, AskedRow
  <2>3. (AskedType /\ StrayType /\ DeliveryType /\ ReplyType /\ NewsType /\ LostType)'
    BY <1>0, <1>21 DEF NoticeServed, originSide, recipientSide, AskedType, StrayType, DeliveryType,
            ReplyType, NewsType, LostType
  <2> QED BY <2>1, <2>2, <2>3 DEF Typed
<1>22. ASSUME NoticeAnswered
      PROVE  Typed'
  <2>1. ReportType' BY <1>0, <1>22 DEF NoticeAnswered, originSide, recipientSide, ReportType,
            ReportState, AskedType, AskedRow
  <2>2. (AskedType /\ TaskType /\ StrayType /\ DeliveryType /\ ReplyType /\ NewsType /\ LostType)'
    BY <1>0, <1>22 DEF NoticeAnswered, originSide, recipientSide, AskedType, TaskType, StrayType,
            DeliveryType, ReplyType, NewsType, LostType
  <2> QED BY <2>1, <2>2 DEF Typed
<1>23. ASSUME NoticeEnds
      PROVE  Typed'
  <2>1. ReportType' BY <1>0, <1>23 DEF NoticeEnds, originSide, recipientSide, CanceledByOrigin,
            NoReport, ReportType, ReportState
  <2>2. DeliveryType' BY <1>0, <1>23 DEF NoticeEnds, originSide, recipientSide, CanceledByOrigin,
            NoReport, DeliveryType, TurnStates
  <2>3. NewsType' BY <1>0, <1>23 DEF NoticeEnds, originSide, recipientSide, CanceledByOrigin,
            NoReport, NewsType
  <2>4. (AskedType /\ TaskType /\ StrayType /\ ReplyType /\ LostType)'
    BY <1>0, <1>23 DEF NoticeEnds, originSide, recipientSide, AskedType, TaskType, StrayType,
            ReplyType, LostType
  <2> QED BY <2>1, <2>2, <2>3, <2>4 DEF Typed
<1>24. ASSUME NoticeLost
      PROVE  Typed'
  <2>1. ReportType' BY <1>0, <1>24 DEF NoticeLost, originSide, recipientSide, NoReport, Loses,
            ReportType, ReportState
  <2>2. LostType' BY <1>0, <1>24, MaxLostAssumption DEF NoticeLost, originSide, recipientSide,
            NoReport, Loses, LostType
  <2>3. (AskedType /\ TaskType /\ StrayType /\ DeliveryType /\ ReplyType /\ NewsType)'
    BY <1>0, <1>24 DEF NoticeLost, originSide, recipientSide, AskedType, TaskType, StrayType,
            DeliveryType, ReplyType, NewsType
  <2> QED BY <2>1, <2>2, <2>3 DEF Typed
<1>25. ASSUME RecipientRestarts
      PROVE  Typed'
  <2>1. ReportType' BY <1>0, <1>25 DEF RecipientRestarts, originSide, recipientSide, NoReport, Loses,
            ReportType, ReportState
  <2>2. NewsType' BY <1>0, <1>25 DEF RecipientRestarts, originSide, recipientSide, NoReport, Loses,
            NewsType
  <2>3. LostType' BY <1>0, <1>25, MaxLostAssumption DEF RecipientRestarts, originSide, recipientSide,
            NoReport, Loses, LostType
  <2>4. (AskedType /\ TaskType /\ StrayType /\ DeliveryType /\ ReplyType)'
    BY <1>0, <1>25 DEF RecipientRestarts, originSide, recipientSide, AskedType, TaskType, StrayType,
            DeliveryType, ReplyType
  <2> QED BY <2>1, <2>2, <2>3, <2>4 DEF Typed
<1> QED BY <1>1, <1>2, <1>3, <1>4, <1>5, <1>6, <1>7, <1>8, <1>9, <1>10, <1>11, <1>12, <1>13, <1>14,
            <1>15, <1>16, <1>17, <1>18, <1>19, <1>20, <1>21, <1>22, <1>23, <1>24, <1>25 DEF PeerNext

-----------------------------------------------------------------------------
(* What each side knows of the other's: a held reply is the outcome, and an   *)
(* answer on its way to the recipient is still true when it arrives.          *)
HeldIsOutcome == asked.held => asked.outcome = "answered"

AnswerStands ==
    /\ report.step = "pushed" => report.answer \in {"recorded", "refused"}
    /\ report.answer = "recorded" => asked.held
    /\ report.answer = "refused" /\ ~asked.fresh => ~asked.held /\ asked.outcome # "none"

Answered == HeldIsOutcome /\ AnswerStands /\ ForwardedIsHeld

PeerInv == PeerTypeOK /\ HeldIsOutcome /\ AnswerStands /\ ForwardedIsHeld

(* What a poll saw of the turn's end is still so, and it saw a timely reply.  *)
Unsent == delivery = "none" => target = "absent"

PollStands ==
    \A t \in OriginTasks :
        /\ task[t].step = "fetching" => reply.files
        /\ task[t].step = "read" /\ task[t].end # "none" =>
              target \in Ended /\ (reply.timely => task[t].reply # "none")

EndStands ==
    asked.outcome \in {"failed", "stopped"} /\ ~reply.files => target \in Ended /\ ~reply.timely

TimelyIsMade == reply.timely => reply.status # "none"

Stands == Unsent /\ PollStands /\ EndStands /\ TimelyIsMade

AnswerInv == PeerInv /\ Unsent /\ PollStands /\ EndStands /\ TimelyIsMade

(* Every step keeps what each side knows of the other's answer.               *)
LEMMA PeerInvStep ==
    ASSUME PeerInv, PeerNext
    PROVE  PeerInv'
<1>0. PeerTypeOK' BY PeerTypeStep DEF PeerInv
<1>a. AskedType /\ ReportType /\ ReplyType
  BY DEF PeerInv, PeerTypeOK, AskedType, AskedRow, ReplyType, ReportType, ReportState
<1>b. HeldIsOutcome /\ AnswerStands /\ ForwardedIsHeld BY DEF PeerInv
<1> SUFFICES Answered'
  BY <1>0 DEF PeerInv, Answered
<1>1. ASSUME Ask
      PROVE  Answered'
  <2>1. HeldIsOutcome' BY <1>a, <1>b, <1>1 DEF Ask, originSide, recipientSide, HeldIsOutcome,
            AskedType, AskedRow, ReportType, ReportState, ReplyType, ReplyStates
  <2>2. AnswerStands' BY <1>a, <1>b, <1>1 DEF Ask, originSide, recipientSide, AnswerStands,
            HeldIsOutcome, AskedType, AskedRow, ReportType, ReportState, ReplyType, ReplyStates
  <2>3. ForwardedIsHeld' BY <1>a, <1>b, <1>1 DEF Ask, originSide, recipientSide, ForwardedIsHeld,
            HeldIsOutcome, AskedType, AskedRow, ReportType, ReportState, ReplyType, ReplyStates
  <2> QED BY <2>1, <2>2, <2>3 DEF Answered
<1>2. ASSUME CancelRequest
      PROVE  Answered'
  <2>1. HeldIsOutcome' BY <1>a, <1>b, <1>2 DEF CancelRequest, originSide, recipientSide, Settlement,
            HeldIsOutcome, AskedType, AskedRow, ReportType, ReportState, ReplyType, ReplyStates
  <2>2. AnswerStands' BY <1>a, <1>b, <1>2 DEF CancelRequest, originSide, recipientSide, Settlement,
            AnswerStands, HeldIsOutcome, AskedType, AskedRow, ReportType, ReportState, ReplyType,
            ReplyStates
  <2>3. ForwardedIsHeld' BY <1>a, <1>b, <1>2 DEF CancelRequest, originSide, recipientSide, Settlement,
            ForwardedIsHeld, HeldIsOutcome, AskedType, AskedRow, ReportType, ReportState, ReplyType,
            ReplyStates
  <2> QED BY <2>1, <2>2, <2>3 DEF Answered
<1>3. ASSUME DispatchStarts
      PROVE  Answered'
  BY <1>b, <1>3 DEF DispatchStarts, originSide, recipientSide, HeldIsOutcome, AnswerStands,
            ForwardedIsHeld, Answered
<1>4. ASSUME StrayAskServed
      PROVE  Answered'
  BY <1>b, <1>4 DEF StrayAskServed, originSide, recipientSide, HeldIsOutcome, AnswerStands,
            ForwardedIsHeld, Accepted, Answered
<1>5. ASSUME RevocationStarts
      PROVE  Answered'
  BY <1>b, <1>5 DEF RevocationStarts, originSide, recipientSide, HeldIsOutcome, AnswerStands,
            ForwardedIsHeld, Answered
<1>6. ASSUME NEW t \in Dispatches, AskServed(t)
      PROVE  Answered'
  BY <1>b, <1>6 DEF AskServed, originSide, recipientSide, HeldIsOutcome, AnswerStands,
            ForwardedIsHeld, Accepted, Answered
<1>7. ASSUME NEW t \in Dispatches, AskAnswered(t)
      PROVE  Answered'
  <2>1. HeldIsOutcome' BY <1>a, <1>b, <1>7 DEF AskAnswered, originSide, recipientSide, HeldIsOutcome,
            AskedType, AskedRow, ReportType, ReportState, ReplyType, ReplyStates
  <2>2. AnswerStands' BY <1>a, <1>b, <1>7 DEF AskAnswered, originSide, recipientSide, AnswerStands,
            HeldIsOutcome, AskedType, AskedRow, ReportType, ReportState, ReplyType, ReplyStates
  <2>3. ForwardedIsHeld' BY <1>a, <1>b, <1>7 DEF AskAnswered, originSide, recipientSide,
            ForwardedIsHeld, HeldIsOutcome, AskedType, AskedRow, ReportType, ReportState, ReplyType,
            ReplyStates
  <2> QED BY <2>1, <2>2, <2>3 DEF Answered
<1>8. ASSUME NEW t \in Dispatches, StatusServed(t)
      PROVE  Answered'
  BY <1>b, <1>8 DEF StatusServed, originSide, recipientSide, HeldIsOutcome, AnswerStands,
            ForwardedIsHeld, Answered
<1>9. ASSUME NEW t \in Dispatches, StatusRead(t)
      PROVE  Answered'
  <2>1. HeldIsOutcome' BY <1>a, <1>b, <1>9 DEF StatusRead, originSide, recipientSide, Recorded, Unproven,
            Inferred, Settlement, Unheld, HeldIsOutcome, AskedType, AskedRow, ReportType, ReportState,
            ReplyType, ReplyStates
  <2>2. AnswerStands' BY <1>a, <1>b, <1>9 DEF StatusRead, originSide, recipientSide, Recorded, Unproven,
            Inferred, Settlement, Unheld, AnswerStands, HeldIsOutcome, AskedType, AskedRow,
            ReportType, ReportState, ReplyType, ReplyStates
  <2>3. ForwardedIsHeld' BY <1>a, <1>b, <1>9 DEF StatusRead, originSide, recipientSide, Recorded, Unproven,
            Inferred, Settlement, Unheld, ForwardedIsHeld, HeldIsOutcome, AskedType, AskedRow,
            ReportType, ReportState, ReplyType, ReplyStates
  <2> QED BY <2>1, <2>2, <2>3 DEF Answered
<1>10. ASSUME NEW t \in Dispatches, Fetched(t)
      PROVE  Answered'
  <2>1. HeldIsOutcome' BY <1>a, <1>b, <1>10 DEF Fetched, originSide, recipientSide, Recorded, Unproven,
            HeldIsOutcome, AskedType, AskedRow, ReportType, ReportState, ReplyType, ReplyStates
  <2>2. AnswerStands' BY <1>a, <1>b, <1>10 DEF Fetched, originSide, recipientSide, Recorded, Unproven,
            AnswerStands, HeldIsOutcome, AskedType, AskedRow, ReportType, ReportState, ReplyType,
            ReplyStates
  <2>3. ForwardedIsHeld' BY <1>a, <1>b, <1>10 DEF Fetched, originSide, recipientSide, Recorded, Unproven,
            ForwardedIsHeld, HeldIsOutcome, AskedType, AskedRow, ReportType, ReportState, ReplyType,
            ReplyStates
  <2> QED BY <2>1, <2>2, <2>3 DEF Answered
<1>11. ASSUME NEW t \in Dispatches, FetchFails(t)
      PROVE  Answered'
  <2>1. HeldIsOutcome' BY <1>a, <1>b, <1>11 DEF FetchFails, originSide, recipientSide, Settlement,
            Inferred, HeldIsOutcome, AskedType, AskedRow, ReportType, ReportState, ReplyType,
            ReplyStates
  <2>2. AnswerStands' BY <1>a, <1>b, <1>11 DEF FetchFails, originSide, recipientSide, Settlement,
            Inferred, AnswerStands, HeldIsOutcome, AskedType, AskedRow, ReportType, ReportState,
            ReplyType, ReplyStates
  <2>3. ForwardedIsHeld' BY <1>a, <1>b, <1>11 DEF FetchFails, originSide, recipientSide, Settlement,
            Inferred, ForwardedIsHeld, HeldIsOutcome, AskedType, AskedRow, ReportType, ReportState,
            ReplyType, ReplyStates
  <2> QED BY <2>1, <2>2, <2>3 DEF Answered
<1>12. ASSUME NEW t \in OriginTasks, CallLost(t)
      PROVE  Answered'
  BY <1>b, <1>12 DEF CallLost, originSide, recipientSide, HeldIsOutcome, AnswerStands,
            ForwardedIsHeld, Answered
<1>13. ASSUME NEW t \in OriginTasks, RevocationServed(t)
      PROVE  Answered'
  <2>1. HeldIsOutcome' BY <1>a, <1>b, <1>13 DEF RevocationServed, originSide, recipientSide,
            HeldIsOutcome, AskedType, AskedRow, ReportType, ReportState, ReplyType, ReplyStates
  <2>2. AnswerStands' BY <1>a, <1>b, <1>13 DEF RevocationServed, originSide, recipientSide,
            AnswerStands, HeldIsOutcome, AskedType, AskedRow, ReportType, ReportState, ReplyType,
            ReplyStates
  <2>3. ForwardedIsHeld' BY <1>a, <1>b, <1>13 DEF RevocationServed, originSide, recipientSide,
            ForwardedIsHeld, HeldIsOutcome, AskedType, AskedRow, ReportType, ReportState, ReplyType,
            ReplyStates
  <2> QED BY <2>1, <2>2, <2>3 DEF Answered
<1>14. ASSUME TargetAdmitted
      PROVE  Answered'
  BY <1>b, <1>14 DEF TargetAdmitted, originSide, recipientSide, HeldIsOutcome, AnswerStands,
            ForwardedIsHeld, Answered
<1>15. ASSUME TargetMoves
      PROVE  Answered'
  BY <1>b, <1>15 DEF TargetMoves, originSide, recipientSide, HeldIsOutcome, AnswerStands,
            ForwardedIsHeld, Answered
<1>16. ASSUME ReplyMade
      PROVE  Answered'
  <2>1. HeldIsOutcome' BY <1>a, <1>b, <1>16 DEF ReplyMade, originSide, recipientSide, HeldIsOutcome,
            AskedType, AskedRow, ReportType, ReportState, ReplyType, ReplyStates
  <2>2. AnswerStands' BY <1>a, <1>b, <1>16 DEF ReplyMade, originSide, recipientSide, AnswerStands,
            HeldIsOutcome, AskedType, AskedRow, ReportType, ReportState, ReplyType, ReplyStates
  <2>3. ForwardedIsHeld' BY <1>a, <1>b, <1>16 DEF ReplyMade, originSide, recipientSide,
            ForwardedIsHeld, HeldIsOutcome, AskedType, AskedRow, ReportType, ReportState, ReplyType,
            ReplyStates
  <2> QED BY <2>1, <2>2, <2>3 DEF Answered
<1>17. ASSUME ReportStarts
      PROVE  Answered'
  <2>1. HeldIsOutcome' BY <1>a, <1>b, <1>17 DEF ReportStarts, originSide, recipientSide, NoReport,
            HeldIsOutcome, AskedType, AskedRow, ReportType, ReportState, ReplyType, ReplyStates
  <2>2. AnswerStands' BY <1>a, <1>b, <1>17 DEF ReportStarts, originSide, recipientSide, NoReport,
            AnswerStands, HeldIsOutcome, AskedType, AskedRow, ReportType, ReportState, ReplyType,
            ReplyStates
  <2>3. ForwardedIsHeld' BY <1>a, <1>b, <1>17 DEF ReportStarts, originSide, recipientSide, NoReport,
            ForwardedIsHeld, HeldIsOutcome, AskedType, AskedRow, ReportType, ReportState, ReplyType,
            ReplyStates
  <2> QED BY <2>1, <2>2, <2>3 DEF Answered
<1>18. ASSUME PushServed
      PROVE  Answered'
  <2>1. HeldIsOutcome' BY <1>a, <1>b, <1>18 DEF PushServed, originSide, recipientSide, Recorded,
            Refusal, Unproven, HeldIsOutcome, AskedType, AskedRow, ReportType, ReportState, ReplyType, ReplyStates
  <2>2. AnswerStands' BY <1>a, <1>b, <1>18 DEF PushServed, originSide, recipientSide, Recorded,
            Refusal, Unproven, AnswerStands, HeldIsOutcome, AskedType, AskedRow, ReportType, ReportState,
            ReplyType, ReplyStates
  <2>3. ForwardedIsHeld' BY <1>a, <1>b, <1>18 DEF PushServed, originSide, recipientSide, Recorded,
            Refusal, Unproven, ForwardedIsHeld, HeldIsOutcome, AskedType, AskedRow, ReportType, ReportState,
            ReplyType, ReplyStates
  <2> QED BY <2>1, <2>2, <2>3 DEF Answered
<1>19. ASSUME PushEnds
      PROVE  Answered'
  <2>1. HeldIsOutcome' BY <1>a, <1>b, <1>19 DEF PushEnds, originSide, recipientSide, PushAnswer,
            HeldIsOutcome, AnswerStands, AskedType, AskedRow, ReportType, ReportState, ReplyType,
            ReplyStates
  <2>2. AnswerStands' BY <1>a, <1>b, <1>19 DEF PushEnds, originSide, recipientSide, PushAnswer,
            AnswerStands, HeldIsOutcome, AskedType, AskedRow, ReportType, ReportState, ReplyType,
            ReplyStates
  <2>3. ForwardedIsHeld' BY <1>a, <1>b, <1>19 DEF PushEnds, originSide, recipientSide, PushAnswer,
            ForwardedIsHeld, HeldIsOutcome, AnswerStands, AskedType, AskedRow, ReportType,
            ReportState, ReplyType, ReplyStates
  <2> QED BY <2>1, <2>2, <2>3 DEF Answered
<1>20. ASSUME NoticeStarts
      PROVE  Answered'
  <2>1. HeldIsOutcome' BY <1>a, <1>b, <1>20 DEF NoticeStarts, originSide, recipientSide, NoReport,
            HeldIsOutcome, AskedType, AskedRow, ReportType, ReportState, ReplyType, ReplyStates
  <2>2. AnswerStands' BY <1>a, <1>b, <1>20 DEF NoticeStarts, originSide, recipientSide, NoReport,
            AnswerStands, HeldIsOutcome, AskedType, AskedRow, ReportType, ReportState, ReplyType,
            ReplyStates
  <2>3. ForwardedIsHeld' BY <1>a, <1>b, <1>20 DEF NoticeStarts, originSide, recipientSide, NoReport,
            ForwardedIsHeld, HeldIsOutcome, AskedType, AskedRow, ReportType, ReportState, ReplyType,
            ReplyStates
  <2> QED BY <2>1, <2>2, <2>3 DEF Answered
<1>21. ASSUME NoticeServed
      PROVE  Answered'
  <2>1. HeldIsOutcome' BY <1>a, <1>b, <1>21 DEF NoticeServed, originSide, recipientSide,
            HeldIsOutcome, AskedType, AskedRow, ReportType, ReportState, ReplyType, ReplyStates
  <2>2. AnswerStands' BY <1>a, <1>b, <1>21 DEF NoticeServed, originSide, recipientSide, AnswerStands,
            HeldIsOutcome, AskedType, AskedRow, ReportType, ReportState, ReplyType, ReplyStates
  <2>3. ForwardedIsHeld' BY <1>a, <1>b, <1>21 DEF NoticeServed, originSide, recipientSide,
            ForwardedIsHeld, HeldIsOutcome, AskedType, AskedRow, ReportType, ReportState, ReplyType,
            ReplyStates
  <2> QED BY <2>1, <2>2, <2>3 DEF Answered
<1>22. ASSUME NoticeAnswered
      PROVE  Answered'
  <2>1. HeldIsOutcome' BY <1>a, <1>b, <1>22 DEF NoticeAnswered, originSide, recipientSide,
            HeldIsOutcome, AskedType, AskedRow, ReportType, ReportState, ReplyType, ReplyStates
  <2>2. AnswerStands' BY <1>a, <1>b, <1>22 DEF NoticeAnswered, originSide, recipientSide,
            AnswerStands, HeldIsOutcome, AskedType, AskedRow, ReportType, ReportState, ReplyType,
            ReplyStates
  <2>3. ForwardedIsHeld' BY <1>a, <1>b, <1>22 DEF NoticeAnswered, originSide, recipientSide,
            ForwardedIsHeld, HeldIsOutcome, AskedType, AskedRow, ReportType, ReportState, ReplyType,
            ReplyStates
  <2> QED BY <2>1, <2>2, <2>3 DEF Answered
<1>23. ASSUME NoticeEnds
      PROVE  Answered'
  <2>1. HeldIsOutcome' BY <1>a, <1>b, <1>23 DEF NoticeEnds, originSide, recipientSide, NoReport,
            HeldIsOutcome, AskedType, AskedRow, ReportType, ReportState, ReplyType, ReplyStates
  <2>2. AnswerStands' BY <1>a, <1>b, <1>23 DEF NoticeEnds, originSide, recipientSide, NoReport,
            AnswerStands, HeldIsOutcome, AskedType, AskedRow, ReportType, ReportState, ReplyType,
            ReplyStates
  <2>3. ForwardedIsHeld' BY <1>a, <1>b, <1>23 DEF NoticeEnds, originSide, recipientSide, NoReport,
            ForwardedIsHeld, HeldIsOutcome, AskedType, AskedRow, ReportType, ReportState, ReplyType,
            ReplyStates
  <2> QED BY <2>1, <2>2, <2>3 DEF Answered
<1>24. ASSUME NoticeLost
      PROVE  Answered'
  <2>1. HeldIsOutcome' BY <1>a, <1>b, <1>24 DEF NoticeLost, originSide, recipientSide, NoReport,
            HeldIsOutcome, AskedType, AskedRow, ReportType, ReportState, ReplyType, ReplyStates
  <2>2. AnswerStands' BY <1>a, <1>b, <1>24 DEF NoticeLost, originSide, recipientSide, NoReport,
            AnswerStands, HeldIsOutcome, AskedType, AskedRow, ReportType, ReportState, ReplyType,
            ReplyStates
  <2>3. ForwardedIsHeld' BY <1>a, <1>b, <1>24 DEF NoticeLost, originSide, recipientSide, NoReport,
            ForwardedIsHeld, HeldIsOutcome, AskedType, AskedRow, ReportType, ReportState, ReplyType,
            ReplyStates
  <2> QED BY <2>1, <2>2, <2>3 DEF Answered
<1>25. ASSUME RecipientRestarts
      PROVE  Answered'
  <2>1. HeldIsOutcome' BY <1>a, <1>b, <1>25 DEF RecipientRestarts, originSide, recipientSide,
            NoReport, HeldIsOutcome, AskedType, AskedRow, ReportType, ReportState, ReplyType,
            ReplyStates
  <2>2. AnswerStands' BY <1>a, <1>b, <1>25 DEF RecipientRestarts, originSide, recipientSide, NoReport,
            AnswerStands, HeldIsOutcome, AskedType, AskedRow, ReportType, ReportState, ReplyType,
            ReplyStates
  <2>3. ForwardedIsHeld' BY <1>a, <1>b, <1>25 DEF RecipientRestarts, originSide, recipientSide,
            NoReport, ForwardedIsHeld, HeldIsOutcome, AskedType, AskedRow, ReportType, ReportState,
            ReplyType, ReplyStates
  <2> QED BY <2>1, <2>2, <2>3 DEF Answered
<1> QED BY <1>1, <1>2, <1>3, <1>4, <1>5, <1>6, <1>7, <1>8, <1>9, <1>10, <1>11, <1>12, <1>13, <1>14,
            <1>15, <1>16, <1>17, <1>18, <1>19, <1>20, <1>21, <1>22, <1>23, <1>24, <1>25 DEF PeerNext

(* Every step keeps what a poll has seen of the turn and of its reply.        *)
LEMMA AnswerInvStep ==
    ASSUME AnswerInv, PeerNext
    PROVE  AnswerInv'
<1>0. PeerInv' BY PeerInvStep DEF AnswerInv
<1>a. AskedType /\ TaskType /\ DeliveryType /\ ReplyType
  BY DEF AnswerInv, PeerInv, PeerTypeOK, AskedType, AskedRow, TaskType, TaskState, DeliveryType,
            ReplyType
<1>b. Unsent /\ PollStands /\ EndStands /\ TimelyIsMade /\ HeldIsOutcome BY DEF AnswerInv, PeerInv
<1> SUFFICES Stands'
  BY <1>0 DEF AnswerInv, Stands
<1>1. ASSUME Ask
      PROVE  Stands'
  <2>1. EndStands' BY <1>a, <1>b, <1>1 DEF Ask, originSide, recipientSide, EndStands, Ended,
            AskedType, AskedRow, DeliveryType, TurnStates, ReplyType, ReplyStates
  <2>2. (Unsent /\ PollStands /\ TimelyIsMade)' BY <1>b, <1>1 DEF Ask, originSide, recipientSide,
            Unsent, PollStands, TimelyIsMade, Ended
  <2> QED BY <2>1, <2>2 DEF Stands
<1>2. ASSUME CancelRequest
      PROVE  Stands'
  <2>1. EndStands' BY <1>a, <1>b, <1>2 DEF CancelRequest, originSide, recipientSide, Settlement,
            EndStands, Ended, AskedType, AskedRow, DeliveryType, TurnStates, ReplyType, ReplyStates
  <2>2. (Unsent /\ PollStands /\ TimelyIsMade)' BY <1>b, <1>2 DEF CancelRequest, originSide,
            recipientSide, Unsent, PollStands, TimelyIsMade, Ended
  <2> QED BY <2>1, <2>2 DEF Stands
<1>3. ASSUME DispatchStarts
      PROVE  Stands'
  <2>1. PollStands' BY <1>a, <1>b, <1>3 DEF DispatchStarts, originSide, recipientSide, Begun, Idle,
            PollStands, Ended, TaskType, TaskState, OriginTasks, Dispatches, DeliveryType, TurnStates,
            ReplyType, ReplyStates
  <2>2. (Unsent /\ EndStands /\ TimelyIsMade)' BY <1>b, <1>3 DEF DispatchStarts, originSide,
            recipientSide, Unsent, EndStands, TimelyIsMade, Ended
  <2> QED BY <2>1, <2>2 DEF Stands
<1>4. ASSUME StrayAskServed
      PROVE  Stands'
  <2>1. Unsent' BY <1>a, <1>b, <1>4 DEF StrayAskServed, originSide, recipientSide, Accepted, Unsent,
            DeliveryType, TurnStates
  <2>2. PollStands' BY <1>a, <1>b, <1>4 DEF StrayAskServed, originSide, recipientSide, Accepted,
            PollStands, Ended, Unsent, TaskType, TaskState, OriginTasks, Dispatches, DeliveryType,
            TurnStates, ReplyType, ReplyStates
  <2>3. EndStands' BY <1>a, <1>b, <1>4 DEF StrayAskServed, originSide, recipientSide, Accepted,
            EndStands, Ended, Unsent, AskedType, AskedRow, DeliveryType, TurnStates, ReplyType,
            ReplyStates
  <2>4. (TimelyIsMade)' BY <1>b, <1>4 DEF StrayAskServed, originSide, recipientSide, TimelyIsMade,
            Ended, Accepted
  <2> QED BY <2>1, <2>2, <2>3, <2>4 DEF Stands
<1>5. ASSUME RevocationStarts
      PROVE  Stands'
  <2>1. PollStands' BY <1>a, <1>b, <1>5 DEF RevocationStarts, originSide, recipientSide, Idle,
            PollStands, Ended, TaskType, TaskState, OriginTasks, Dispatches, DeliveryType, TurnStates,
            ReplyType, ReplyStates
  <2>2. (Unsent /\ EndStands /\ TimelyIsMade)' BY <1>b, <1>5 DEF RevocationStarts, originSide,
            recipientSide, Unsent, EndStands, TimelyIsMade, Ended
  <2> QED BY <2>1, <2>2 DEF Stands
<1>6. ASSUME NEW t \in Dispatches, AskServed(t)
      PROVE  Stands'
  <2>1. Unsent' BY <1>a, <1>b, <1>6 DEF AskServed, originSide, recipientSide, Accepted, Unsent,
            DeliveryType, TurnStates
  <2>2. PollStands' BY <1>a, <1>b, <1>6 DEF AskServed, originSide, recipientSide, Accepted,
            PollStands, Ended, Unsent, TaskType, TaskState, OriginTasks, Dispatches, DeliveryType,
            TurnStates, ReplyType, ReplyStates
  <2>3. EndStands' BY <1>a, <1>b, <1>6 DEF AskServed, originSide, recipientSide, Accepted, EndStands,
            Ended, Unsent, AskedType, AskedRow, DeliveryType, TurnStates, ReplyType, ReplyStates
  <2>4. (TimelyIsMade)' BY <1>b, <1>6 DEF AskServed, originSide, recipientSide, TimelyIsMade, Ended,
            Accepted
  <2> QED BY <2>1, <2>2, <2>3, <2>4 DEF Stands
<1>7. ASSUME NEW t \in Dispatches, AskAnswered(t)
      PROVE  Stands'
  <2>1. PollStands' BY <1>a, <1>b, <1>7 DEF AskAnswered, originSide, recipientSide, Idle, PollStands,
            Ended, TaskType, TaskState, OriginTasks, Dispatches, DeliveryType, TurnStates, ReplyType,
            ReplyStates
  <2>2. EndStands' BY <1>a, <1>b, <1>7 DEF AskAnswered, originSide, recipientSide, EndStands, Ended,
            AskedType, AskedRow, DeliveryType, TurnStates, ReplyType, ReplyStates
  <2>3. (Unsent /\ TimelyIsMade)' BY <1>b, <1>7 DEF AskAnswered, originSide, recipientSide, Unsent,
            TimelyIsMade, Ended
  <2> QED BY <2>1, <2>2, <2>3 DEF Stands
<1>8. ASSUME NEW t \in Dispatches, StatusServed(t)
      PROVE  Stands'
  <2>1. PollStands'
    <3> SUFFICES ASSUME NEW u \in OriginTasks
                 PROVE  /\ task'[u].step = "fetching" => reply'.files
                        /\ task'[u].step = "read" /\ task'[u].end # "none" =>
                              target' \in Ended /\ (reply'.timely => task'[u].reply # "none")
      BY DEF PollStands
    <3>1. CASE u = t
      <4>1. TurnEnd # "none" => target \in Ended BY DEF TurnEnd, Ended
      <4>2. task'[u].step = "read" /\ task'[u].end = TurnEnd /\ task'[u].reply = reply.status
        BY <1>a, <1>8, <3>1 DEF StatusServed, TaskType, TaskState, OriginTasks
      <4> QED BY <4>1, <4>2, <1>b, <1>8 DEF StatusServed, recipientSide, TimelyIsMade
    <3>2. CASE u # t
      <4>1. task'[u] = task[u] BY <1>a, <1>8, <3>2 DEF StatusServed, TaskType
      <4> QED BY <4>1, <1>b, <1>8 DEF StatusServed, recipientSide, PollStands
    <3> QED BY <3>1, <3>2
  <2>2. (Unsent /\ EndStands /\ TimelyIsMade)' BY <1>b, <1>8 DEF StatusServed, originSide,
            recipientSide, Unsent, EndStands, TimelyIsMade, Ended
  <2> QED BY <2>1, <2>2 DEF Stands
<1>9. ASSUME NEW t \in Dispatches, StatusRead(t)
      PROVE  Stands'
  <2>1. PollStands' BY <1>a, <1>b, <1>9 DEF StatusRead, originSide, recipientSide, Idle, Unheld,
            PollStands, Ended, TaskType, TaskState, OriginTasks, Dispatches, DeliveryType, TurnStates,
            ReplyType, ReplyStates
  <2>2. EndStands'
    <3>1. reply' = reply /\ target' = target BY <1>9 DEF StatusRead, recipientSide
    <3>2. CASE asked'.outcome = asked.outcome
      BY <1>b, <3>1, <3>2 DEF EndStands
    <3>3. CASE asked'.outcome = "answered"
      BY <3>3 DEF EndStands
    <3>4. CASE /\ ~Unheld(task[t].reply) /\ asked.outcome = "none"
               /\ task[t].end # "none" /\ asked'.outcome = task[t].end
      <4>1. ~asked.held BY <1>b, <3>4 DEF HeldIsOutcome
      <4>2. task[t].reply = "none" BY <4>1, <3>4 DEF Unheld
      <4>3. task[t].step = "read" /\ t \in OriginTasks BY <1>9 DEF StatusRead, OriginTasks
      <4>4. target \in Ended /\ ~reply.timely BY <1>b, <3>4, <4>2, <4>3 DEF PollStands
      <4> QED BY <4>4, <3>1 DEF EndStands
    <3>5. CASE Unheld(task[t].reply) /\ ~reply.files
      <4>1. asked'.outcome = asked.outcome \/ asked'.outcome = "answered"
        BY <1>a, <1>9, <3>5 DEF StatusRead, Recorded, Unproven, AskedType, AskedRow
      <4> QED BY <4>1, <3>2, <3>3
    <3>6. CASE ~(Unheld(task[t].reply) /\ ~reply.files) /\ (Unheld(task[t].reply) \/ asked.outcome # "none")
      <4>1. asked'.outcome = asked.outcome
        BY <1>a, <1>9, <3>6 DEF StatusRead, AskedType, AskedRow
      <4> QED BY <4>1, <3>2
    <3>7. CASE ~Unheld(task[t].reply) /\ asked.outcome = "none"
      <4>1. asked'.outcome = asked.outcome \/ (task[t].end # "none" /\ asked'.outcome = task[t].end)
        BY <1>a, <1>9, <3>7 DEF StatusRead, Inferred, Settlement, AskedType, AskedRow
      <4> QED BY <4>1, <3>2, <3>4, <3>7
    <3> QED BY <3>5, <3>6, <3>7
  <2>3. (Unsent /\ TimelyIsMade)' BY <1>b, <1>9 DEF StatusRead, originSide, recipientSide, Unsent,
            TimelyIsMade, Ended
  <2> QED BY <2>1, <2>2, <2>3 DEF Stands
<1>10. ASSUME NEW t \in Dispatches, Fetched(t)
      PROVE  Stands'
  <2>1. PollStands' BY <1>a, <1>b, <1>10 DEF Fetched, originSide, recipientSide, Idle, PollStands,
            Ended, TaskType, TaskState, OriginTasks, Dispatches, DeliveryType, TurnStates, ReplyType,
            ReplyStates
  <2>2. EndStands' BY <1>a, <1>b, <1>10 DEF Fetched, originSide, recipientSide, Recorded, Unproven, EndStands,
            Ended, AskedType, AskedRow, DeliveryType, TurnStates, ReplyType, ReplyStates
  <2>3. (Unsent /\ TimelyIsMade)' BY <1>b, <1>10 DEF Fetched, originSide, recipientSide, Unsent,
            TimelyIsMade, Ended
  <2> QED BY <2>1, <2>2, <2>3 DEF Stands
<1>11. ASSUME NEW t \in Dispatches, FetchFails(t)
      PROVE  Stands'
  <2>1. PollStands' BY <1>a, <1>b, <1>11 DEF FetchFails, originSide, recipientSide, Idle, PollStands,
            Ended, TaskType, TaskState, OriginTasks, Dispatches, DeliveryType, TurnStates, ReplyType,
            ReplyStates
  <2>2. EndStands'
    <3>1. reply.files BY <1>b, <1>11 DEF FetchFails, PollStands, OriginTasks
    <3> QED BY <3>1, <1>11 DEF FetchFails, recipientSide, EndStands
  <2>3. (Unsent /\ TimelyIsMade)' BY <1>b, <1>11 DEF FetchFails, originSide, recipientSide, Unsent,
            TimelyIsMade, Ended
  <2> QED BY <2>1, <2>2, <2>3 DEF Stands
<1>12. ASSUME NEW t \in OriginTasks, CallLost(t)
      PROVE  Stands'
  <2>1. PollStands' BY <1>a, <1>b, <1>12 DEF CallLost, originSide, recipientSide, Idle, PollStands,
            Ended, TaskType, TaskState, OriginTasks, Dispatches, DeliveryType, TurnStates, ReplyType,
            ReplyStates
  <2>2. (Unsent /\ EndStands /\ TimelyIsMade)' BY <1>b, <1>12 DEF CallLost, originSide, recipientSide,
            Unsent, EndStands, TimelyIsMade, Ended
  <2> QED BY <2>1, <2>2 DEF Stands
<1>13. ASSUME NEW t \in OriginTasks, RevocationServed(t)
      PROVE  Stands'
  <2>1. Unsent' BY <1>a, <1>b, <1>13 DEF RevocationServed, originSide, recipientSide,
            CanceledByOrigin, Unsent, DeliveryType, TurnStates
  <2>2. PollStands' BY <1>a, <1>b, <1>13 DEF RevocationServed, originSide, recipientSide,
            CanceledByOrigin, Idle, PollStands, Ended, Unsent, TaskType, TaskState, OriginTasks,
            Dispatches, DeliveryType, TurnStates, ReplyType, ReplyStates
  <2>3. EndStands' BY <1>a, <1>b, <1>13 DEF RevocationServed, originSide, recipientSide,
            CanceledByOrigin, EndStands, Ended, Unsent, AskedType, AskedRow, DeliveryType, TurnStates,
            ReplyType, ReplyStates
  <2>4. (TimelyIsMade)' BY <1>b, <1>13 DEF RevocationServed, originSide, recipientSide, TimelyIsMade,
            Ended
  <2> QED BY <2>1, <2>2, <2>3, <2>4 DEF Stands
<1>14. ASSUME TargetAdmitted
      PROVE  Stands'
  <2>1. Unsent' BY <1>a, <1>b, <1>14 DEF TargetAdmitted, originSide, recipientSide, Unsent,
            DeliveryType, TurnStates
  <2>2. PollStands' BY <1>a, <1>b, <1>14 DEF TargetAdmitted, originSide, recipientSide, PollStands,
            Ended, Unsent, TaskType, TaskState, OriginTasks, Dispatches, DeliveryType, TurnStates,
            ReplyType, ReplyStates
  <2>3. EndStands' BY <1>a, <1>b, <1>14 DEF TargetAdmitted, originSide, recipientSide, EndStands,
            Ended, Unsent, AskedType, AskedRow, DeliveryType, TurnStates, ReplyType, ReplyStates
  <2>4. (TimelyIsMade)' BY <1>b, <1>14 DEF TargetAdmitted, originSide, recipientSide, TimelyIsMade,
            Ended
  <2> QED BY <2>1, <2>2, <2>3, <2>4 DEF Stands
<1>15. ASSUME TargetMoves
      PROVE  Stands'
  <2>1. Unsent' BY <1>a, <1>b, <1>15 DEF TargetMoves, originSide, recipientSide, Unsent, DeliveryType,
            TurnStates
  <2>2. PollStands' BY <1>a, <1>b, <1>15 DEF TargetMoves, originSide, recipientSide, PollStands,
            Ended, Unsent, TaskType, TaskState, OriginTasks, Dispatches, DeliveryType, TurnStates,
            ReplyType, ReplyStates
  <2>3. EndStands' BY <1>a, <1>b, <1>15 DEF TargetMoves, originSide, recipientSide, EndStands, Ended,
            Unsent, AskedType, AskedRow, DeliveryType, TurnStates, ReplyType, ReplyStates
  <2>4. (TimelyIsMade)' BY <1>b, <1>15 DEF TargetMoves, originSide, recipientSide, TimelyIsMade, Ended
  <2> QED BY <2>1, <2>2, <2>3, <2>4 DEF Stands
<1>16. ASSUME ReplyMade
      PROVE  Stands'
  <2>1. PollStands' BY <1>a, <1>b, <1>16 DEF ReplyMade, originSide, recipientSide, PollStands, Ended,
            TaskType, TaskState, OriginTasks, Dispatches, DeliveryType, TurnStates, ReplyType,
            ReplyStates, TimelyIsMade
  <2>2. EndStands' BY <1>a, <1>b, <1>16 DEF ReplyMade, originSide, recipientSide, EndStands, Ended,
            PollStands, HeldIsOutcome, AskedType, AskedRow, DeliveryType, TurnStates, ReplyType,
            ReplyStates, TimelyIsMade
  <2>3. TimelyIsMade' BY <1>a, <1>b, <1>16 DEF ReplyMade, originSide, recipientSide, TimelyIsMade,
            ReplyType, ReplyStates
  <2>4. (Unsent)' BY <1>b, <1>16 DEF ReplyMade, originSide, recipientSide, Unsent, Ended
  <2> QED BY <2>1, <2>2, <2>3, <2>4 DEF Stands
<1>17. ASSUME ReportStarts
      PROVE  Stands'
  BY <1>b, <1>17 DEF ReportStarts, originSide, recipientSide, Unsent, PollStands, EndStands,
            TimelyIsMade, Ended, Stands
<1>18. ASSUME PushServed
      PROVE  Stands'
  <2>1. EndStands' BY <1>a, <1>b, <1>18 DEF PushServed, originSide, recipientSide, Recorded, Unproven,
            EndStands, Ended, AskedType, AskedRow, DeliveryType, TurnStates, ReplyType, ReplyStates
  <2>2. (Unsent /\ PollStands /\ TimelyIsMade)' BY <1>b, <1>18 DEF PushServed, originSide,
            recipientSide, Unsent, PollStands, TimelyIsMade, Ended
  <2> QED BY <2>1, <2>2 DEF Stands
<1>19. ASSUME PushEnds
      PROVE  Stands'
  <2>1. PollStands' BY <1>a, <1>b, <1>19 DEF PushEnds, originSide, recipientSide, PushAnswer,
            PollStands, Ended, TaskType, TaskState, OriginTasks, Dispatches, DeliveryType, TurnStates,
            ReplyType, ReplyStates
  <2>2. EndStands' BY <1>a, <1>b, <1>19 DEF PushEnds, originSide, recipientSide, PushAnswer,
            EndStands, Ended, AskedType, AskedRow, DeliveryType, TurnStates, ReplyType, ReplyStates
  <2>3. TimelyIsMade' BY <1>a, <1>b, <1>19 DEF PushEnds, originSide, recipientSide, PushAnswer,
            TimelyIsMade, ReplyType, ReplyStates
  <2>4. (Unsent)' BY <1>b, <1>19 DEF PushEnds, originSide, recipientSide, Unsent, Ended
  <2> QED BY <2>1, <2>2, <2>3, <2>4 DEF Stands
<1>20. ASSUME NoticeStarts
      PROVE  Stands'
  BY <1>b, <1>20 DEF NoticeStarts, originSide, recipientSide, Unsent, PollStands, EndStands,
            TimelyIsMade, Ended, Stands
<1>21. ASSUME NoticeServed
      PROVE  Stands'
  <2>1. PollStands' BY <1>a, <1>b, <1>21 DEF NoticeServed, originSide, recipientSide, Begun, Idle,
            PollStands, Ended, TaskType, TaskState, OriginTasks, Dispatches, DeliveryType, TurnStates,
            ReplyType, ReplyStates
  <2>2. (Unsent /\ EndStands /\ TimelyIsMade)' BY <1>b, <1>21 DEF NoticeServed, originSide,
            recipientSide, Unsent, EndStands, TimelyIsMade, Ended
  <2> QED BY <2>1, <2>2 DEF Stands
<1>22. ASSUME NoticeAnswered
      PROVE  Stands'
  BY <1>b, <1>22 DEF NoticeAnswered, originSide, recipientSide, Unsent, PollStands, EndStands,
            TimelyIsMade, Ended, Stands
<1>23. ASSUME NoticeEnds
      PROVE  Stands'
  <2>1. Unsent' BY <1>a, <1>b, <1>23 DEF NoticeEnds, originSide, recipientSide, CanceledByOrigin,
            Unsent, DeliveryType, TurnStates
  <2>2. PollStands' BY <1>a, <1>b, <1>23 DEF NoticeEnds, originSide, recipientSide, CanceledByOrigin,
            PollStands, Ended, Unsent, TaskType, TaskState, OriginTasks, Dispatches, DeliveryType,
            TurnStates, ReplyType, ReplyStates
  <2>3. EndStands' BY <1>a, <1>b, <1>23 DEF NoticeEnds, originSide, recipientSide, CanceledByOrigin,
            EndStands, Ended, Unsent, AskedType, AskedRow, DeliveryType, TurnStates, ReplyType,
            ReplyStates
  <2>4. (TimelyIsMade)' BY <1>b, <1>23 DEF NoticeEnds, originSide, recipientSide, TimelyIsMade, Ended
  <2> QED BY <2>1, <2>2, <2>3, <2>4 DEF Stands
<1>24. ASSUME NoticeLost
      PROVE  Stands'
  BY <1>b, <1>24 DEF NoticeLost, originSide, recipientSide, Unsent, PollStands, EndStands,
            TimelyIsMade, Ended, Stands
<1>25. ASSUME RecipientRestarts
      PROVE  Stands'
  BY <1>b, <1>25 DEF RecipientRestarts, originSide, recipientSide, Unsent, PollStands, EndStands,
            TimelyIsMade, Ended, Stands
<1> QED BY <1>1, <1>2, <1>3, <1>4, <1>5, <1>6, <1>7, <1>8, <1>9, <1>10, <1>11, <1>12, <1>13, <1>14,
            <1>15, <1>16, <1>17, <1>18, <1>19, <1>20, <1>21, <1>22, <1>23, <1>24, <1>25 DEF PeerNext

-----------------------------------------------------------------------------
LEMMA PeerInitially == PeerInit => AnswerInv
<1> SUFFICES ASSUME PeerInit PROVE AnswerInv OBVIOUS
<1>1. PeerTypeOK
  <2>1. AskedType /\ ReplyType
    BY DEF PeerInit, AskedType, AskedRow, ReplyType, ReplyStates
  <2>2. Idle \in TaskState BY DEF Idle, TaskState, ReplyStates
  <2>3. TaskType BY <2>2 DEF PeerInit, TaskType
  <2>4. NoReport \in ReportState BY DEF NoReport, ReportState
  <2>5. StrayType /\ DeliveryType /\ NewsType
    BY DEF PeerInit, StrayType, DeliveryType, TurnStates, NewsType
  <2>6. ReportType BY <2>4 DEF PeerInit, ReportType
  <2>7. LostType BY MaxLostAssumption DEF PeerInit, LostType
  <2> QED BY <2>1, <2>3, <2>5, <2>6, <2>7 DEF PeerTypeOK, AskedType, AskedRow, TaskType, TaskState,
            StrayType, DeliveryType,
              ReplyType, ReportType, ReportState, NewsType, LostType
<1>2. HeldIsOutcome /\ AnswerStands /\ ForwardedIsHeld
  BY DEF PeerInit, HeldIsOutcome, AnswerStands, ForwardedIsHeld, NoReport
<1>3. Unsent /\ PollStands /\ EndStands /\ TimelyIsMade
  BY DEF PeerInit, Unsent, PollStands, EndStands, TimelyIsMade, Idle, OriginTasks, Dispatches
<1> QED BY <1>1, <1>2, <1>3 DEF AnswerInv, PeerInv

LEMMA PeerStutters == AnswerInv /\ UNCHANGED peerVars => AnswerInv'
<1> SUFFICES ASSUME AnswerInv, UNCHANGED peerVars PROVE AnswerInv' OBVIOUS
<1>1. PeerTypeOK'
  BY DEF AnswerInv, PeerInv, PeerTypeOK, peerVars
<1>2. (HeldIsOutcome /\ AnswerStands /\ ForwardedIsHeld)'
  BY DEF AnswerInv, PeerInv, HeldIsOutcome, AnswerStands, ForwardedIsHeld, peerVars
<1>3. (Unsent /\ PollStands /\ EndStands /\ TimelyIsMade)'
  BY DEF AnswerInv, Unsent, PollStands, EndStands, TimelyIsMade, Ended, peerVars
<1> QED BY <1>1, <1>2, <1>3 DEF AnswerInv, PeerInv

(* The inductive invariant of both ledgers and of what is on its way between  *)
(* them.                                                                      *)
THEOREM PeersAgree == PeerSpec => []AnswerInv
<1>1. PeerInit => AnswerInv BY PeerInitially
<1>2. AnswerInv /\ [PeerNext]_peerVars => AnswerInv'
  BY AnswerInvStep, PeerStutters
<1> QED BY <1>1, <1>2, PTL DEF PeerSpec

(* A reply is marked forwarded only when the origin holds it, and refused     *)
(* only when the request has ended without it (session-peers.ts:1808),        *)
(* however many calls are lost and processes die.                             *)
THEOREM RepliesAreHeld == PeerSpec => []ForwardedIsHeld
<1>1. AnswerInv => ForwardedIsHeld BY DEF AnswerInv, PeerInv
<1> QED BY PeersAgree, <1>1, PTL

(* The end of the turn never overrides a final reply without files that was   *)
(* made while the turn ran (session-peers.ts:1148-1153).                      *)
THEOREM TimelyAnswerCounts == PeerSpec => []AnswerBeforeEndCounts
<1>1. AnswerInv => AnswerBeforeEndCounts
  BY DEF AnswerInv, EndStands, AnswerBeforeEndCounts
<1> QED BY PeersAgree, <1>1, PTL

-----------------------------------------------------------------------------
(* Proofs about fork requests, for any number of flows, of calls of the       *)
(* provider and of processes: a reply to the anchor joins the fork, and a     *)
(* request is made anew only after its owner's death.                         *)

FlowPhases == {"idle", "execute", "creating", "posting", "binding", "swept", "listing", "listed"}
Row == [status : ForkStatuses, owner : Nat, child : {NoOne} \cup Children, anchored : BOOLEAN, tried : BOOLEAN]
FlowRow == [phase : FlowPhases, status : ForkStatuses, owner : Nat, call : {NoOne} \cup Children, seen : SUBSET Children]

RowType == forkRow \in Row
FlowsType == forkFlows \in [ForkFlows -> FlowRow]
ProcessType == forkProcess \in [id : Nat, up : BOOLEAN, draining : BOOLEAN]
CallsType == forkCalls \in [made : 0 .. MaxForkCalls, open : SUBSET Children, forked : SUBSET Children]
AnchorType ==
    /\ anchorPosted \in BOOLEAN /\ overlapped \in BOOLEAN
    /\ anchorSession \in {NoOne, NewConversation} \cup Children
    /\ threadReply \in [state : {"none", "waiting", "taken"}, session : {NoOne, NewConversation} \cup Children]

ForkTypes == RowType /\ FlowsType /\ ProcessType /\ CallsType /\ AnchorType

(* What the columns of the row say of each other.                             *)
RowAgrees ==
    /\ forkRow.tried => forkRow.status \in {"forked", "delivering", "binding", "delivered", "parked"}
    /\ forkRow.status \in {"forked", "delivering", "binding", "delivered"} => forkRow.child # NoOne
    /\ forkRow.status = "delivering" => forkRow.tried
    /\ forkRow.status = "binding" => forkRow.anchored

(* The anchor is posted by who has written so first, and its thread has no    *)
(* session before the request has ended.                                      *)
AnchorAgrees ==
    /\ anchorPosted => forkRow.tried
    /\ anchorSession # NoOne =>
           forkRow.status = "parked" \/ (forkRow.status = "delivered" /\ anchorSession = forkRow.child)
    /\ forkRow.status = "delivered" => anchorSession = forkRow.child
    /\ threadReply.state # "none" => anchorPosted
    /\ threadReply.state = "taken" => anchorSession # NoOne /\ threadReply.session = anchorSession

(* A pass that found the row forking under a dead owner still finds it so, or *)
(* finds it further on: nobody but another pass gives it back to be claimed.  *)
Looking == {"swept", "listing", "listed"}
FurtherOn == forkRow.status \notin {"absent", "claimed", "forking"}
Abandoned == forkRow.status = "forking" /\ forkRow.owner # forkProcess.id
FoundAbandoned(f) ==
    forkFlows[f].phase \in Looking /\ forkFlows[f].status = "forking" /\ forkFlows[f].owner # forkProcess.id

OneFlow(f) ==
    /\ ~forkProcess.up => forkFlows[f].phase = "idle"
    /\ forkFlows[f].phase = "posting" => forkRow.tried
    /\ forkFlows[f].phase = "creating" => forkFlows[f].status = "absent" /\ forkFlows[f].call # NoOne
    /\ forkFlows[f].phase \in {"listing", "listed"} /\ forkFlows[f].status = "forking" => FoundAbandoned(f)
    /\ FoundAbandoned(f) => overlapped \/ FurtherOn \/ Abandoned

FlowsAgree == \A f \in ForkFlows : OneFlow(f)

OnePass ==
    \A f, g \in ForkFlows :
        /\ f # g /\ forkFlows[f].phase \in Looking /\ forkFlows[f].status # "absent"
        /\ forkFlows[g].phase \in Looking /\ forkFlows[g].status # "absent"
        => overlapped

ForkInv == ForkTypes /\ RowAgrees /\ AnchorAgrees /\ FlowsAgree /\ OnePass

(* How the row moves in every step but one.                                   *)
RowGoesOn ==
    /\ RowType' /\ RowAgrees'
    /\ forkRow.tried => forkRow'.tried
    /\ forkRow.status \in {"delivered", "parked"} => forkRow' = forkRow
    /\ forkRow'.status = "delivered" => forkRow.status = "delivered"

RowAdvances == (FurtherOn => FurtherOn') /\ (Abandoned => Abandoned' \/ FurtherOn')

-----------------------------------------------------------------------------
LEMMA TypesAreTypeOK == ForkTypeOK <=> ForkTypes
<1>1. {anchorPosted, overlapped} \subseteq BOOLEAN <=> anchorPosted \in BOOLEAN /\ overlapped \in BOOLEAN
  OBVIOUS
<1> QED BY <1>1 DEF ForkTypeOK, ForkTypes, RowType, FlowsType, ProcessType, CallsType, AnchorType, Row, FlowRow, FlowPhases

(* The anchor keeps its word while only the row moves.                        *)
LEMMA AnchorRests ==
    ASSUME AnchorAgrees, AnchorType, RowGoesOn, UNCHANGED <<anchorPosted, anchorSession, threadReply>>
    PROVE  AnchorAgrees'
BY DEF AnchorAgrees, AnchorType, RowGoesOn

(* One flow moves.                                                            *)
LEMMA FlowMoves ==
    ASSUME ForkInv, NEW f \in ForkFlows, NEW F \in FlowRow,
           forkFlows' = [forkFlows EXCEPT ![f] = F], forkProcess.up, forkProcess' = forkProcess, overlapped' = overlapped,
           forkRow.tried => forkRow'.tried,
           RowAdvances \/ (forkFlows[f].phase \in Looking /\ forkFlows[f].status = "forking" /\ F.phase \notin Looking),
           F.phase = "posting" => forkRow'.tried,
           F.phase = "creating" => F.status = "absent" /\ F.call # NoOne,
           F.phase \in Looking =>
               \/ F.status = "absent"
               \/ /\ forkFlows[f].phase \in Looking /\ F.status = forkFlows[f].status /\ F.owner = forkFlows[f].owner
                  /\ F.status = "forking" => F.owner # forkProcess.id
    PROVE  FlowsType' /\ FlowsAgree' /\ OnePass'
<1>1. FlowsType' /\ forkFlows'[f] = F /\ \A g \in ForkFlows \ {f} : forkFlows'[g] = forkFlows[g]
  BY DEF ForkInv, ForkTypes, FlowsType
<1>2. ASSUME NEW g \in ForkFlows PROVE OneFlow(g)'
  <2>1. CASE g = f
    <3>1. FoundAbandoned(f)' => FoundAbandoned(f) /\ RowAdvances
      BY <1>1 DEF FoundAbandoned, Looking
    <3>2. RowAdvances /\ FoundAbandoned(f) => overlapped \/ FurtherOn' \/ Abandoned'
      BY DEF ForkInv, FlowsAgree, OneFlow, RowAdvances
    <3> QED BY <2>1, <1>1, <3>1, <3>2 DEF OneFlow, FoundAbandoned, Looking
  <2>2. CASE g # f
    <3>1. forkFlows'[g] = forkFlows[g] BY <1>1, <2>2
    <3>2. FoundAbandoned(g)' = FoundAbandoned(g) BY <3>1 DEF FoundAbandoned
    <3>3. FoundAbandoned(g) => overlapped \/ FurtherOn' \/ Abandoned'
      <4>1. CASE RowAdvances BY <4>1 DEF ForkInv, FlowsAgree, OneFlow, RowAdvances
      <4>2. CASE ~RowAdvances BY <4>2, <2>2 DEF ForkInv, OnePass, FoundAbandoned
      <4> QED BY <4>1, <4>2
    <3> QED BY <3>1, <3>2, <3>3 DEF ForkInv, FlowsAgree, OneFlow
  <2> QED BY <2>1, <2>2
<1>3. OnePass'
  BY <1>1 DEF ForkInv, OnePass
<1> QED BY <1>1, <1>2, <1>3 DEF FlowsAgree

(* A flow goes on to a phase, with what it read.                              *)
LEMMA FlowGoes ==
    ASSUME ForkInv, NEW f \in ForkFlows, NEW phase \in FlowPhases \ {"creating", "swept"}, Goes(f, phase),
           forkProcess.up, forkProcess' = forkProcess, overlapped' = overlapped,
           forkRow.tried => forkRow'.tried,
           RowAdvances \/ (forkFlows[f].phase \in Looking /\ forkFlows[f].status = "forking" /\ phase \notin Looking),
           phase = "posting" => forkRow'.tried,
           phase \in Looking =>
               \/ forkFlows[f].status = "absent"
               \/ /\ forkFlows[f].phase \in Looking
                  /\ forkFlows[f].status = "forking" => forkFlows[f].owner # forkProcess.id
    PROVE  FlowsType' /\ FlowsAgree' /\ OnePass'
<1> DEFINE F == IF phase = "idle" THEN IdleFlow ELSE [forkFlows[f] EXCEPT !.phase = phase]
<1>1. forkFlows[f] \in FlowRow BY DEF ForkInv, ForkTypes, FlowsType
<1>2. F \in FlowRow /\ F.phase = phase
      /\ (phase # "idle" => F.status = forkFlows[f].status /\ F.owner = forkFlows[f].owner)
  BY <1>1 DEF FlowRow, IdleFlow, FlowPhases, ForkStatuses, NoOne
<1>3. forkFlows' = [forkFlows EXCEPT ![f] = F] BY DEF Goes
<1> HIDE DEF F
<1> QED BY <1>2, <1>3, FlowMoves DEF Looking

(* A step of a flow that leaves calls, anchor and process as they are.        *)
LEMMA StepKeeps ==
    ASSUME ForkInv, RowGoesOn, FlowsType', FlowsAgree', OnePass', Same, UNCHANGED Outside
    PROVE  ForkInv'
<1>1. AnchorAgrees' BY AnchorRests DEF ForkInv, ForkTypes, Outside
<1>2. ProcessType' /\ CallsType' /\ AnchorType'
  BY DEF ForkInv, ForkTypes, ProcessType, CallsType, AnchorType, Same, Outside
<1> QED BY <1>1, <1>2 DEF ForkInv, ForkTypes, RowGoesOn

LEMMA RowRests == ASSUME ForkInv, UNCHANGED <<forkRow, forkProcess>> PROVE RowGoesOn /\ RowAdvances
BY DEF ForkInv, ForkTypes, RowGoesOn, RowAdvances, RowType, RowAgrees, FurtherOn, Abandoned

(* A flow goes on and the row stays.                                          *)
LEMMA RestKeeps ==
    ASSUME ForkInv, NEW f \in ForkFlows, NEW phase \in {"idle", "execute"}, Goes(f, phase), forkProcess.up,
           UNCHANGED forkRow, Same, UNCHANGED Outside
    PROVE  ForkInv'
<1>1. RowGoesOn /\ RowAdvances BY RowRests DEF Same
<1>2. FlowsType' /\ FlowsAgree' /\ OnePass' BY <1>1, FlowGoes DEF Same, RowGoesOn, FlowPhases, Looking
<1> QED BY <1>1, <1>2, StepKeeps

(* A row given up by its holder or by a pass.                                 *)
LEMMA ReleaseGoesOn ==
    ASSUME ForkInv, NEW status \in {"claimed", "error", "ambiguous", "forked", "parked", "binding"},
           forkRow' = Released(status), forkProcess' = forkProcess,
           \/ forkRow.status = "forking" /\ status \in {"claimed", "error", "ambiguous"}
           \/ forkRow.status = "delivering" /\ status \in {"forked", "parked"}
           \/ forkRow.status = "binding" /\ status \in {"binding", "parked"}
    PROVE  RowGoesOn /\ (status # "claimed" => RowAdvances)
<1>1. forkRow' \in Row /\ forkRow'.status = status /\ forkRow'.child = forkRow.child
      /\ forkRow'.tried = forkRow.tried /\ forkRow'.anchored = forkRow.anchored
  BY DEF ForkInv, ForkTypes, RowType, Row, Released, ForkStatuses, InHand, NoOne
<1> QED BY <1>1 DEF ForkInv, ForkTypes, RowType, RowGoesOn, RowAgrees, RowAdvances, FurtherOn, Abandoned

(* A row that has got its child.                                              *)
LEMMA ForkedGoesOn ==
    ASSUME ForkInv, NEW child \in Children, forkRow' = ForkedAs(child), forkProcess' = forkProcess,
           forkRow.status \in {"forking", "ambiguous"}
    PROVE  RowGoesOn /\ RowAdvances
<1>1. forkRow' \in Row /\ forkRow'.status = "forked" /\ forkRow'.child = child
      /\ forkRow'.tried = forkRow.tried /\ forkRow'.anchored = forkRow.anchored
  BY DEF ForkInv, ForkTypes, RowType, Row, ForkedAs, Released, ForkStatuses, InHand, NoOne
<1>2. child # NoOne BY ForkAssumption DEF Children, NoOne
<1> QED BY <1>1, <1>2 DEF ForkInv, ForkTypes, RowType, RowGoesOn, RowAgrees, RowAdvances, FurtherOn, Abandoned

-----------------------------------------------------------------------------
LEMMA WritesKeeps ==
    ASSUME ForkInv, NEW f \in ForkFlows, NEW condition \in BOOLEAN, NEW row, NEW next \in {"idle", "execute"},
           NEW thrown \in {"idle", "execute"}, WritesOr(f, condition, row, next, thrown), forkProcess.up,
           condition /\ forkRow' = row => RowGoesOn /\ RowAdvances,
           Same, UNCHANGED Outside
    PROVE  ForkInv'
<1>1. CASE condition
  <2>1. RowGoesOn /\ RowAdvances /\ Goes(f, next) BY <1>1 DEF WritesOr
  <2>2. FlowsType' /\ FlowsAgree' /\ OnePass' BY <2>1, FlowGoes DEF Same, RowGoesOn, FlowPhases, Looking
  <2> QED BY <2>1, <2>2, StepKeeps
<1>2. CASE ~condition
  <2>1. UNCHANGED forkRow /\ Goes(f, thrown) BY <1>2 DEF WritesOr
  <2> QED BY <2>1, RestKeeps
<1> QED BY <1>1, <1>2

LEMMA ForkRequestKeeps == ASSUME ForkInv, NEW f \in ForkFlows, RequestFork(f) PROVE ForkInv'
<1>1. RowGoesOn /\ RowAdvances
  <2>1. forkRow' = IF forkRow.status = "absent" THEN [forkRow EXCEPT !.status = "claimed"] ELSE forkRow
    BY DEF RequestFork
  <2>2. forkProcess' = forkProcess BY DEF RequestFork, Same
  <2>3. CASE forkRow.status = "absent"
    <3>1. forkRow' \in Row /\ forkRow'.status = "claimed" /\ forkRow'.tried = forkRow.tried
      BY <2>1, <2>3 DEF ForkInv, ForkTypes, RowType, Row, ForkStatuses
    <3> QED BY <2>2, <2>3, <3>1 DEF ForkInv, ForkTypes, RowType, RowGoesOn, RowAgrees, RowAdvances, FurtherOn, Abandoned
  <2>4. CASE forkRow.status # "absent" BY <2>1, <2>2, <2>4, RowRests
  <2> QED BY <2>3, <2>4
<1>2. FlowsType' /\ FlowsAgree' /\ OnePass'
  BY <1>1, FlowGoes DEF RequestFork, Flow, Same, RowGoesOn, FlowPhases, Looking
<1> QED BY <1>1, <1>2, StepKeeps DEF RequestFork

LEMMA BeginKeeps == ASSUME ForkInv, NEW f \in ForkFlows, BeginForkRequest(f) PROVE ForkInv'
<1> DEFINE call == forkCalls.made + 1
           F == [IdleFlow EXCEPT !.phase = "creating", !.call = call]
<1>1. call \in Children /\ call # NoOne
  BY ForkAssumption DEF BeginForkRequest, ForkInv, ForkTypes, CallsType, Children, NoOne
<1>2. F \in FlowRow /\ F.phase = "creating" /\ F.status = "absent" /\ F.call = call
  BY <1>1 DEF FlowRow, IdleFlow, FlowPhases, ForkStatuses, NoOne
<1>3. forkFlows' = [forkFlows EXCEPT ![f] = F] /\ forkProcess.up /\ forkProcess' = forkProcess /\ overlapped' = overlapped
      /\ forkRow' = Given("forking") /\ forkRow.status = "claimed"
      /\ forkCalls' = [forkCalls EXCEPT !.made = call, !.open = @ \cup {call}]
      /\ UNCHANGED <<anchorPosted, anchorSession, threadReply>>
  BY DEF BeginForkRequest, Flow, Same
<1>4. CallsType'
  <2>1. forkCalls \in [made : 0 .. MaxForkCalls, open : SUBSET Children, forked : SUBSET Children]
    BY DEF ForkInv, ForkTypes, CallsType
  <2>2. call \in 0 .. MaxForkCalls /\ forkCalls.open \cup {call} \in SUBSET Children
    BY <1>1, <2>1, ForkAssumption DEF Children
  <2> QED BY <1>3, <2>1, <2>2 DEF CallsType
<1> HIDE DEF F, call
<1>5. RowGoesOn /\ RowAdvances
  <2>1. forkRow' \in Row /\ forkRow'.status = "forking" /\ forkRow'.tried = forkRow.tried
    BY <1>3 DEF ForkInv, ForkTypes, RowType, ProcessType, Row, ForkStatuses, InHand, Given
  <2> QED BY <1>3, <2>1 DEF ForkInv, ForkTypes, RowType, RowGoesOn, RowAgrees, RowAdvances, FurtherOn, Abandoned
<1>6. FlowsType' /\ FlowsAgree' /\ OnePass'
  BY <1>1, <1>2, <1>3, <1>5, FlowMoves DEF RowGoesOn, Looking
<1>7. AnchorAgrees' BY <1>3, <1>5, AnchorRests DEF ForkInv, ForkTypes
<1> QED BY <1>3, <1>4, <1>5, <1>6, <1>7 DEF ForkInv, ForkTypes, RowGoesOn, ProcessType, AnchorType

LEMMA DeliveryKeeps == ASSUME ForkInv, NEW f \in ForkFlows, ClaimForkDelivery(f) PROVE ForkInv'
<1>1. forkRow.status = "forked" /\ forkRow' = [Given("delivering") EXCEPT !.tried = TRUE] /\ forkProcess' = forkProcess
  BY DEF ClaimForkDelivery, Same
<1>2. forkRow' \in Row /\ forkRow'.status = "delivering" /\ forkRow'.child = forkRow.child /\ forkRow'.tried
  BY <1>1 DEF ForkInv, ForkTypes, RowType, ProcessType, Row, ForkStatuses, InHand, Given
<1>3. RowGoesOn /\ RowAdvances
  BY <1>1, <1>2 DEF ForkInv, ForkTypes, RowType, RowGoesOn, RowAgrees, RowAdvances, FurtherOn, Abandoned
<1>4. FlowsType' /\ FlowsAgree' /\ OnePass'
  BY <1>2, <1>3, FlowGoes DEF ClaimForkDelivery, Flow, Same, RowGoesOn, FlowPhases, Looking
<1> QED BY <1>3, <1>4, StepKeeps DEF ClaimForkDelivery

LEMMA BindingKeeps == ASSUME ForkInv, NEW f \in ForkFlows, ClaimForkBinding(f) PROVE ForkInv'
<1>1. forkRow.status = "binding" /\ forkRow' = Given("binding") /\ forkProcess' = forkProcess
  BY DEF ClaimForkBinding, Same
<1>2. forkRow' \in Row /\ forkRow'.status = "binding" /\ forkRow'.child = forkRow.child
      /\ forkRow'.tried = forkRow.tried /\ forkRow'.anchored = forkRow.anchored
  BY <1>1 DEF ForkInv, ForkTypes, RowType, ProcessType, Row, ForkStatuses, InHand, Given
<1>3. RowGoesOn /\ RowAdvances
  BY <1>1, <1>2 DEF ForkInv, ForkTypes, RowType, RowGoesOn, RowAgrees, RowAdvances, FurtherOn, Abandoned
<1>4. FlowsType' /\ FlowsAgree' /\ OnePass'
  BY <1>3, FlowGoes DEF ClaimForkBinding, Flow, Same, RowGoesOn, FlowPhases, Looking
<1> QED BY <1>3, <1>4, StepKeeps DEF ClaimForkBinding

(* Steps that end or go on without touching the row.                          *)
LEMMA NothingKeeps == ASSUME ForkInv, NEW f \in ForkFlows, NothingToExecute(f) PROVE ForkInv'
BY RestKeeps DEF NothingToExecute, Flow, Outside

LEMMA ThrowsKeeps == ASSUME ForkInv, NEW f \in ForkFlows, FlowThrows(f) PROVE ForkInv'
BY RestKeeps DEF FlowThrows, Outside

-----------------------------------------------------------------------------
LEMMA AnsweredKeeps == ASSUME ForkInv, NEW f \in ForkFlows, ForkAnswered(f) PROVE ForkInv'
<1> DEFINE child == forkFlows[f].call
<1>1. child \in Children BY DEF ForkAnswered, ForkInv, ForkTypes, CallsType
<1>2. Leased("forking") => forkRow.status = "forking" BY DEF Leased
<1>3. WritesOr(f, Leased("forking"), ForkedAs(child), "execute", "idle") /\ forkProcess.up /\ Same /\ UNCHANGED Outside
  BY DEF ForkAnswered, Writes, Flow
<1>4. Leased("forking") \in BOOLEAN BY DEF Leased
<1>5. Leased("forking") /\ forkRow' = ForkedAs(child) => RowGoesOn /\ RowAdvances
  BY <1>1, <1>2, <1>3, ForkedGoesOn DEF Same
<1> QED BY <1>3, <1>4, <1>5, WritesKeeps

LEMMA UncertainKeeps == ASSUME ForkInv, NEW f \in ForkFlows, ForkUncertain(f) PROVE ForkInv'
<1>1. forkFlows[f].phase = "creating" /\ forkProcess.up /\ Same /\ UNCHANGED Outside /\ forkFlows[f].status = "absent"
  BY DEF ForkUncertain, Flow, ForkInv, FlowsAgree, OneFlow
<1>2. CASE Leased("forking")
  <2>1. PICK next \in {"listing", "execute"} : forkRow' = Released("ambiguous") /\ Goes(f, next)
    BY <1>2 DEF ForkUncertain, Writes, WritesOr
  <2>2. RowGoesOn /\ RowAdvances BY <1>1, <1>2, <2>1, ReleaseGoesOn DEF Leased, Same
  <2>3. FlowsType' /\ FlowsAgree' /\ OnePass'
    BY <1>1, <2>1, <2>2, FlowGoes DEF Same, RowGoesOn, FlowPhases, Looking
  <2> QED BY <1>1, <2>2, <2>3, StepKeeps
<1>3. CASE ~Leased("forking")
  <2>1. UNCHANGED forkRow /\ Goes(f, "idle") BY <1>3 DEF ForkUncertain, Writes, WritesOr
  <2> QED BY <1>1, <2>1, RestKeeps
<1> QED BY <1>2, <1>3

LEMMA RejectedKeeps == ASSUME ForkInv, NEW f \in ForkFlows, ForkRejected(f) PROVE ForkInv'
<1>1. forkProcess.up /\ Same /\ UNCHANGED <<anchorPosted, anchorSession, threadReply>>
      /\ WritesOr(f, Leased("forking"), Released("error"), "execute", "idle")
  BY DEF ForkRejected, Flow, Writes
<1>2. CallsType' BY DEF ForkRejected, ForkInv, ForkTypes, CallsType
<1>3. PICK next \in {"idle", "execute"} : Goes(f, next) /\ RowGoesOn /\ RowAdvances
  <2>1. CASE Leased("forking")
    <3>1. forkRow' = Released("error") /\ Goes(f, "execute") BY <1>1, <2>1 DEF WritesOr
    <3>2. RowGoesOn /\ RowAdvances BY <1>1, <2>1, <3>1, ReleaseGoesOn DEF Leased, Same
    <3> QED BY <3>1, <3>2
  <2>2. CASE ~Leased("forking")
    <3>1. UNCHANGED forkRow /\ Goes(f, "idle") BY <1>1, <2>2 DEF WritesOr
    <3>2. RowGoesOn /\ RowAdvances BY <1>1, <3>1, RowRests DEF Same
    <3> QED BY <3>1, <3>2
  <2> QED BY <2>1, <2>2
<1>4. FlowsType' /\ FlowsAgree' /\ OnePass' BY <1>1, <1>3, FlowGoes DEF Same, RowGoesOn, FlowPhases, Looking
<1>5. AnchorAgrees' BY <1>1, <1>3, AnchorRests DEF ForkInv, ForkTypes
<1> QED BY <1>1, <1>2, <1>3, <1>4, <1>5 DEF ForkInv, ForkTypes, RowGoesOn, ProcessType, AnchorType, Same

LEMMA ProviderKeeps == ASSUME ForkInv, NEW call \in Children, ProviderForks(call) PROVE ForkInv'
<1>1. CallsType' BY DEF ProviderForks, ForkInv, ForkTypes, CallsType
<1>2. RowGoesOn BY RowRests DEF ProviderForks, Same
<1>3. UNCHANGED <<forkRow, forkFlows, forkProcess, overlapped, anchorPosted, anchorSession, threadReply>>
  BY DEF ProviderForks, Same
<1> QED BY <1>1, <1>2, <1>3 DEF ForkInv, ForkTypes, RowType, FlowsType, ProcessType, AnchorType, RowAgrees, AnchorAgrees,
       FlowsAgree, OneFlow, FoundAbandoned, FurtherOn, Abandoned, OnePass

-----------------------------------------------------------------------------
LEMMA PostsKeeps == ASSUME ForkInv, NEW f \in ForkFlows, SlackPosts(f) PROVE ForkInv'
<1>1. anchorPosted' = TRUE /\ UNCHANGED <<forkRow, forkFlows, forkProcess, overlapped, forkCalls, anchorSession, threadReply>>
      /\ forkRow.tried
  BY DEF SlackPosts, Same, Flow, ForkInv, FlowsAgree, OneFlow
<1> QED BY <1>1 DEF ForkInv, ForkTypes, RowType, FlowsType, ProcessType, CallsType, AnchorType, RowAgrees, AnchorAgrees,
       FlowsAgree, OneFlow, FoundAbandoned, FurtherOn, Abandoned, OnePass

LEMMA AnchoredKeeps == ASSUME ForkInv, NEW f \in ForkFlows, AnchorAnswered(f) PROVE ForkInv'
<1> DEFINE row == [Released("binding") EXCEPT !.anchored = TRUE]
<1>1. forkProcess.up /\ Same /\ UNCHANGED Outside BY DEF AnchorAnswered, Flow
<1>2. CASE forkProcess.draining BY <1>1, <1>2, RestKeeps DEF AnchorAnswered
<1>3. CASE ~forkProcess.draining
  <2>1. WritesOr(f, Leased("delivering"), row, "execute", "idle") BY <1>3 DEF AnchorAnswered, Writes
  <2>2. ASSUME Leased("delivering"), forkRow' = row PROVE RowGoesOn /\ RowAdvances
    <3>1. forkRow' \in Row /\ forkRow'.status = "binding" /\ forkRow'.child = forkRow.child
          /\ forkRow'.tried = forkRow.tried /\ forkRow'.anchored
      BY <2>2 DEF ForkInv, ForkTypes, RowType, Row, Released, ForkStatuses, InHand, NoOne
    <3> QED BY <1>1, <2>2, <3>1 DEF Leased, Same, ForkInv, ForkTypes, RowType, RowGoesOn, RowAgrees, RowAdvances, FurtherOn, Abandoned
  <2>3. Leased("delivering") \in BOOLEAN BY DEF Leased
  <2> HIDE DEF row
  <2> QED BY <1>1, <2>1, <2>2, <2>3, WritesKeeps
<1> QED BY <1>2, <1>3

LEMMA ReleaseKeeps ==
    ASSUME ForkInv, NEW f \in ForkFlows, NEW held \in {"delivering", "binding"}, NEW status \in {"forked", "parked", "binding"},
           Writes(f, Leased(held), Released(status), "execute"), forkProcess.up, Same, UNCHANGED Outside,
           held = "delivering" => status \in {"forked", "parked"}, held = "binding" => status = "binding"
    PROVE  ForkInv'
<1>1. Leased(held) /\ forkRow' = Released(status) => RowGoesOn /\ RowAdvances
  BY ReleaseGoesOn DEF Leased, Same
<1>2. Leased(held) \in BOOLEAN BY DEF Leased
<1>3. WritesOr(f, Leased(held), Released(status), "execute", "idle") BY DEF Writes
<1> QED BY <1>1, <1>2, <1>3, WritesKeeps

LEMMA AttemptEnds ==
    ASSUME ForkInv, NEW f \in ForkFlows, AnchorRetried(f) \/ AnchorParked(f) \/ BindingFails(f)
    PROVE  ForkInv'
<1>1. CASE AnchorRetried(f) BY <1>1, ReleaseKeeps DEF AnchorRetried, Flow
<1>2. CASE AnchorParked(f) BY <1>2, ReleaseKeeps DEF AnchorParked, Flow
<1>3. CASE BindingFails(f) BY <1>3, ReleaseKeeps DEF BindingFails, Flow
<1> QED BY <1>1, <1>2, <1>3

LEMMA CompleteKeeps == ASSUME ForkInv, NEW f \in ForkFlows, CompleteForkDelivery(f) PROVE ForkInv'
<1>1. forkProcess.up /\ Same /\ UNCHANGED <<forkCalls, anchorPosted, threadReply>> BY DEF CompleteForkDelivery, Flow
<1>2. CASE forkProcess.draining \/ ~Leased("binding")
  BY <1>1, <1>2, RestKeeps DEF CompleteForkDelivery, Outside
<1>3. CASE ~(forkProcess.draining \/ ~Leased("binding"))
  <2>1. anchorSession = NoOne /\ forkRow.status = "binding" /\ forkRow.child # NoOne
    BY <1>3 DEF Leased, ForkInv, RowAgrees, AnchorAgrees
  <2>2. forkRow' = Released("delivered") /\ anchorSession' = forkRow.child /\ Goes(f, "execute")
    BY <1>3, <2>1 DEF CompleteForkDelivery
  <2>3. forkRow' \in Row /\ forkRow'.status = "delivered" /\ forkRow'.child = forkRow.child /\ forkRow'.tried = forkRow.tried
    BY <2>2 DEF ForkInv, ForkTypes, RowType, Row, Released, ForkStatuses, InHand, NoOne
  <2>4. RowType' /\ RowAgrees' /\ RowAdvances /\ (forkRow.tried => forkRow'.tried)
    BY <1>1, <2>1, <2>3 DEF Same, RowType, RowAgrees, RowAdvances, FurtherOn, Abandoned
  <2>5. FlowsType' /\ FlowsAgree' /\ OnePass' BY <1>1, <2>2, <2>4, FlowGoes DEF Same, FlowPhases, Looking
  <2>6. AnchorAgrees' /\ AnchorType'
    <3>1. forkRow.child \in Children BY <2>1 DEF ForkInv, ForkTypes, RowType, Row
    <3> QED BY <1>1, <2>1, <2>2, <2>3, <3>1 DEF Same, ForkInv, ForkTypes, AnchorAgrees, AnchorType
  <2> QED BY <1>1, <2>4, <2>5, <2>6 DEF Same, ForkInv, ForkTypes, ProcessType, CallsType
<1> QED BY <1>2, <1>3

-----------------------------------------------------------------------------
(* A pass.                                                                    *)
LEMMA ReadsKeeps == ASSUME ForkInv, NEW f \in ForkFlows, SweepReads(f) PROVE ForkInv'
<1> DEFINE F == [IdleFlow EXCEPT !.phase = "swept", !.status = forkRow.status, !.owner = forkRow.owner]
           other == \E g \in ForkFlows \ {f} : forkFlows[g].phase \in {"swept", "listing", "listed"}
<1>1. /\ forkFlows' = [forkFlows EXCEPT ![f] = F] /\ overlapped' = (overlapped \/ other)
      /\ UNCHANGED <<forkRow, forkProcess, forkCalls, anchorPosted, anchorSession, threadReply>> /\ forkProcess.up
  BY DEF SweepReads, Flow
<1>2. F \in FlowRow /\ F.phase = "swept" /\ F.status = forkRow.status /\ F.owner = forkRow.owner
  BY DEF FlowRow, IdleFlow, FlowPhases, NoOne, ForkInv, ForkTypes, RowType, Row
<1>3. overlapped' \in BOOLEAN /\ (overlapped => overlapped')
      /\ ((\E g \in ForkFlows \ {f} : forkFlows[g].phase \in Looking) => overlapped')
  BY <1>1 DEF Looking
<1> HIDE DEF F, other
<1>4. FlowsType' /\ forkFlows'[f] = F /\ \A g \in ForkFlows \ {f} : forkFlows'[g] = forkFlows[g]
  BY <1>1, <1>2 DEF ForkInv, ForkTypes, FlowsType
<1>5. ASSUME NEW g \in ForkFlows PROVE OneFlow(g)'
  <2>1. CASE g = f BY <1>1, <1>2, <1>4, <2>1 DEF OneFlow, FoundAbandoned, Abandoned, FurtherOn
  <2>2. CASE g # f
    BY <1>1, <1>3, <1>4, <2>2 DEF ForkInv, FlowsAgree, OneFlow, FoundAbandoned, Abandoned, FurtherOn
  <2> QED BY <2>1, <2>2
<1>6. OnePass'
  <2>1. ASSUME NEW g \in ForkFlows, NEW h \in ForkFlows, g # h,
               forkFlows'[g].phase \in Looking, forkFlows'[g].status # "absent",
               forkFlows'[h].phase \in Looking, forkFlows'[h].status # "absent"
        PROVE  overlapped'
    <3>1. CASE g = f BY <1>3, <1>4, <2>1, <3>1
    <3>2. CASE h = f BY <1>3, <1>4, <2>1, <3>2
    <3>3. CASE g # f /\ h # f BY <1>3, <1>4, <2>1, <3>3 DEF ForkInv, OnePass
    <3> QED BY <3>1, <3>2, <3>3
  <2> QED BY <2>1 DEF OnePass
<1>7. RowType' /\ ProcessType' /\ CallsType' /\ AnchorType' /\ RowAgrees' /\ AnchorAgrees'
  BY <1>1, <1>3 DEF ForkInv, ForkTypes, RowType, ProcessType, CallsType, AnchorType, RowAgrees, AnchorAgrees
<1> QED BY <1>4, <1>5, <1>6, <1>7 DEF ForkInv, ForkTypes, FlowsAgree

LEMMA HandlesKeeps == ASSUME ForkInv, NEW f \in ForkFlows, SweepHandles(f) PROVE ForkInv'
<1> DEFINE read == forkFlows[f].status
           codex == forkProvider = "codex"
<1>1. forkProcess.up /\ forkFlows[f].phase = "swept" /\ Same /\ UNCHANGED Outside
  BY DEF SweepHandles, Flow
<1>2. CASE forkProcess.draining \/ LeftToItsOwner(f)
  BY <1>1, <1>2, RestKeeps DEF SweepHandles
<1>3. CASE ~(forkProcess.draining \/ LeftToItsOwner(f))
  <2>1. CASE read \in {"forking", "ambiguous"} /\ UNCHANGED forkRow /\ Goes(f, "listing")
    <3>1. RowGoesOn /\ RowAdvances BY <1>1, <2>1, RowRests DEF Same
    <3>2. forkFlows[f].status = "forking" => forkFlows[f].owner # forkProcess.id
      BY <1>1, <1>3 DEF LeftToItsOwner, OwnerLives, InHand
    <3>3. FlowsType' /\ FlowsAgree' /\ OnePass'
      BY <1>1, <2>1, <3>1, <3>2, FlowGoes DEF Same, RowGoesOn, FlowPhases, Looking
    <3> QED BY <1>1, <3>1, <3>3, StepKeeps
  <2>2. ASSUME NEW held \in {"forking", "delivering", "binding"}, NEW status \in {"ambiguous", "forked", "binding"},
               Writes(f, forkRow.status = held, Released(status), "execute"),
               \/ held = "forking" /\ status = "ambiguous"
               \/ held = "delivering" /\ status = "forked"
               \/ held = "binding" /\ status = "binding"
        PROVE  ForkInv'
    <3>1. forkRow.status = held /\ forkRow' = Released(status) => RowGoesOn /\ RowAdvances
      BY <1>1, <2>2, ReleaseGoesOn DEF Same
    <3>2. (forkRow.status = held) \in BOOLEAN OBVIOUS
    <3>3. WritesOr(f, forkRow.status = held, Released(status), "execute", "idle") BY <2>2 DEF Writes
    <3> QED BY <1>1, <3>1, <3>2, <3>3, WritesKeeps
  <2>3. CASE UNCHANGED forkRow /\ Goes(f, "execute") BY <1>1, <2>3, RestKeeps
  <2>4. \/ read \in {"forking", "ambiguous"} /\ UNCHANGED forkRow /\ Goes(f, "listing")
        \/ Writes(f, forkRow.status = "forking", Released("ambiguous"), "execute")
        \/ Writes(f, forkRow.status = "delivering", Released("forked"), "execute")
        \/ Writes(f, forkRow.status = "binding", Released("binding"), "execute")
        \/ UNCHANGED forkRow /\ Goes(f, "execute")
    BY <1>3 DEF SweepHandles
  <2> HIDE DEF read
  <2> QED BY <2>1, <2>2, <2>3, <2>4
<1> QED BY <1>2, <1>3

LEMMA ListsKeeps == ASSUME ForkInv, NEW f \in ForkFlows, ListForks(f) PROVE ForkInv'
<1>1. forkProcess.up /\ forkFlows[f].phase = "listing" /\ Same /\ UNCHANGED <<forkRow, forkCalls, anchorPosted, anchorSession, threadReply>>
  BY DEF ListForks, Flow
<1>2. RowGoesOn /\ RowAdvances BY <1>1, RowRests DEF Same
<1>3. CASE forkFlows' = [forkFlows EXCEPT ![f] = [@ EXCEPT !.phase = "listed", !.seen = forkCalls.forked]]
  <2> DEFINE F == [forkFlows[f] EXCEPT !.phase = "listed", !.seen = forkCalls.forked]
  <2>1. forkFlows[f] \in FlowRow /\ forkCalls.forked \in SUBSET Children
    BY DEF ForkInv, ForkTypes, FlowsType, CallsType
  <2>2. F \in FlowRow /\ F.phase = "listed" /\ F.status = forkFlows[f].status /\ F.owner = forkFlows[f].owner
    BY <2>1 DEF FlowRow, FlowPhases
  <2>3. forkFlows' = [forkFlows EXCEPT ![f] = F] BY <1>3, <2>1 DEF FlowRow, ForkInv, ForkTypes, FlowsType
  <2>4. F.status = "forking" => F.owner # forkProcess.id
    BY <1>1, <2>2 DEF ForkInv, FlowsAgree, OneFlow, FoundAbandoned
  <2> HIDE DEF F
  <2>5. FlowsType' /\ FlowsAgree' /\ OnePass'
    BY <1>1, <1>2, <2>2, <2>3, <2>4, FlowMoves DEF Same, RowGoesOn, Looking
  <2> QED BY <1>1, <1>2, <2>5, StepKeeps DEF Outside
<1>4. CASE Goes(f, Thrown(f))
  <2>1. Thrown(f) \in {"idle", "execute"} BY DEF Thrown
  <2> QED BY <1>1, <1>4, <2>1, RestKeeps DEF Outside
<1> QED BY <1>3, <1>4 DEF ListForks

(* Giving the request back to be claimed is safe in the hands of the one pass *)
(* that found it abandoned.                                                   *)
LEMMA RecoversKeeps ==
    ASSUME ForkInv, NEW f \in ForkFlows, RecoverForkResult(f)
    PROVE  /\ ForkInv'
           /\ forkRow.status = "forking" /\ forkRow'.status = "claimed" => ~OwnerLives(forkRow.owner) \/ overlapped
<1> DEFINE seen == forkFlows[f].seen
<1>1. forkProcess.up /\ forkFlows[f].phase = "listed" /\ Same /\ UNCHANGED Outside /\ seen \subseteq Children
  BY DEF RecoverForkResult, Flow, ForkInv, ForkTypes, FlowsType, FlowRow
<1>2. Thrown(f) \in {"idle", "execute"} BY DEF Thrown
<1>3. ASSUME NEW child \in seen, WritesOr(f, forkRow.status \in {"forking", "ambiguous"}, ForkedAs(child), "execute", Thrown(f))
      PROVE  ForkInv' /\ (forkRow.status = "forking" => forkRow'.status # "claimed")
  <2>1. (forkRow.status \in {"forking", "ambiguous"}) \in BOOLEAN OBVIOUS
  <2>2. forkRow.status \in {"forking", "ambiguous"} /\ forkRow' = ForkedAs(child) => RowGoesOn /\ RowAdvances
    BY <1>1, ForkedGoesOn DEF Same
  <2>3. ForkInv' BY <1>1, <1>2, <1>3, <2>1, <2>2, WritesKeeps
  <2>4. forkRow.status = "forking" => forkRow'.status # "claimed"
    BY <1>3 DEF WritesOr, ForkedAs, Released, ForkInv, ForkTypes, RowType, Row
  <2> QED BY <2>3, <2>4
<1>4. CASE UNCHANGED forkRow /\ Goes(f, "execute") BY <1>1, <1>4, RestKeeps
<1>5. CASE /\ forkFlows[f].status = "forking"
           /\ Writes(f, forkRow.status = "forking", Released(IF seen = {} THEN "claimed" ELSE "ambiguous"), "execute")
  <2> DEFINE status == IF seen = {} THEN "claimed" ELSE "ambiguous"
  <2>1. CASE forkRow.status # "forking"
    BY <1>1, <1>5, <2>1, RestKeeps DEF Writes, WritesOr
  <2>2. CASE forkRow.status = "forking"
    <3>1. forkRow' = Released(status) /\ Goes(f, "execute") /\ status \in {"claimed", "ambiguous"}
      BY <1>5, <2>2 DEF Writes, WritesOr
    <3> HIDE DEF status
    <3>2. RowGoesOn BY <1>1, <2>2, <3>1, ReleaseGoesOn DEF Same
    <3>3. FlowsType' /\ FlowsAgree' /\ OnePass'
      BY <1>1, <1>5, <3>1, <3>2, FlowGoes DEF Same, RowGoesOn, FlowPhases, Looking
    <3>4. ForkInv' BY <1>1, <3>2, <3>3, StepKeeps
    <3>5. forkRow.owner # forkProcess.id \/ overlapped
      BY <1>1, <1>5, <2>2 DEF ForkInv, FlowsAgree, OneFlow, FurtherOn, Abandoned
    <3> QED BY <3>4, <3>5 DEF OwnerLives
  <2> QED BY <2>1, <2>2
<1>6. \/ \E child \in seen : WritesOr(f, forkRow.status \in {"forking", "ambiguous"}, ForkedAs(child), "execute", Thrown(f))
      \/ UNCHANGED forkRow /\ Goes(f, "execute")
      \/ /\ forkFlows[f].status = "forking"
         /\ Writes(f, forkRow.status = "forking", Released(IF seen = {} THEN "claimed" ELSE "ambiguous"), "execute")
  BY DEF RecoverForkResult
<1> QED BY <1>3, <1>4, <1>5, <1>6

-----------------------------------------------------------------------------
(* The reply and the process.                                                 *)
LEMMA ReplyKeeps == ASSUME ForkInv, ReplyComes \/ ReplyTaken \/ ReplyRefused PROVE ForkInv'
<1>1. UNCHANGED <<forkRow, forkFlows, forkProcess, overlapped, forkCalls, anchorPosted>>
  BY DEF ReplyComes, ReplyTaken, ReplyRefused, Same
<1>2. RowType' /\ FlowsType' /\ ProcessType' /\ CallsType' /\ RowAgrees' /\ FlowsAgree' /\ OnePass'
  BY <1>1 DEF ForkInv, ForkTypes, RowType, FlowsType, ProcessType, CallsType, RowAgrees, FlowsAgree, OneFlow, FoundAbandoned,
       FurtherOn, Abandoned, OnePass
<1>3. AnchorType' /\ AnchorAgrees'
  <2>1. CASE ReplyComes
    <3>1. threadReply' = [threadReply EXCEPT !.state = "waiting"] /\ anchorSession' = anchorSession /\ anchorPosted
      BY <2>1 DEF ReplyComes
    <3> QED BY <1>1, <3>1 DEF ForkInv, ForkTypes, AnchorType, AnchorAgrees
  <2>2. CASE ReplyRefused
    <3>1. threadReply' = [threadReply EXCEPT !.state = "none"] /\ anchorSession' = anchorSession
      BY <2>2 DEF ReplyRefused
    <3> QED BY <1>1, <3>1 DEF ForkInv, ForkTypes, AnchorType, AnchorAgrees
  <2>3. CASE ReplyTaken
    <3>1. /\ anchorSession' = IF anchorSession = NoOne THEN NewConversation ELSE anchorSession
          /\ threadReply' = [state |-> "taken", session |-> anchorSession']
          /\ threadReply.state = "waiting" /\ ~Barred
      BY <2>3 DEF ReplyTaken
    <3>2. NewConversation # NoOne BY ForkAssumption DEF NewConversation, NoOne
    <3>3. forkRow.status \in {"delivered", "parked"}
      BY <3>1 DEF Barred, ForkInv, RowAgrees, AnchorAgrees
    <3>4. forkRow.status = "delivered" => anchorSession # NoOne
      BY DEF ForkInv, RowAgrees, AnchorAgrees
    <3>5. anchorSession' \in {NoOne, NewConversation} \cup Children /\ anchorSession' # NoOne
      BY <3>1, <3>2 DEF ForkInv, ForkTypes, AnchorType
    <3>6. AnchorType' BY <1>1, <3>1, <3>5 DEF ForkInv, ForkTypes, AnchorType
    <3>7. AnchorAgrees' BY <1>1, <3>1, <3>3, <3>4, <3>5 DEF ForkInv, AnchorAgrees
    <3> QED BY <3>6, <3>7
  <2> QED BY <2>1, <2>2, <2>3
<1> QED BY <1>1, <1>2, <1>3 DEF ForkInv, ForkTypes

LEMMA ProcessKeeps == ASSUME ForkInv, ForkProcessDrains \/ ForkProcessEnds \/ ForkProcessStarts PROVE ForkInv'
<1>1. UNCHANGED <<forkRow, forkCalls, anchorPosted, anchorSession, threadReply>>
  BY DEF ForkProcessDrains, ForkProcessEnds, ForkProcessStarts
<1>2. RowType' /\ CallsType' /\ RowAgrees' /\ AnchorAgrees'
  BY <1>1 DEF ForkInv, ForkTypes, RowType, CallsType, RowAgrees, AnchorAgrees
<1>3. AnchorType' /\ ProcessType'
  <2>1. overlapped' = overlapped \/ overlapped' = FALSE
    BY DEF ForkProcessDrains, ForkProcessEnds, ForkProcessStarts
  <2>2. AnchorType' BY <1>1, <2>1 DEF ForkInv, ForkTypes, AnchorType
  <2>3. ProcessType'
    <3>1. CASE ForkProcessDrains BY <3>1 DEF ForkInv, ForkTypes, ProcessType, ForkProcessDrains
    <3>2. CASE ForkProcessEnds BY <3>2 DEF ForkInv, ForkTypes, ProcessType, ForkProcessEnds
    <3>3. CASE ForkProcessStarts BY <3>3 DEF ForkInv, ForkTypes, ProcessType, ForkProcessStarts
    <3> QED BY <3>1, <3>2, <3>3
  <2> QED BY <2>2, <2>3
<1>4. FlowsType' /\ FlowsAgree' /\ OnePass'
  <2>1. CASE ForkProcessDrains
    <3>1. forkFlows' = forkFlows /\ overlapped' = overlapped /\ forkProcess'.id = forkProcess.id /\ forkProcess'.up = forkProcess.up
      BY <2>1 DEF ForkProcessDrains, ForkInv, ForkTypes, ProcessType
    <3> QED BY <1>1, <3>1 DEF ForkInv, ForkTypes, FlowsType, FlowsAgree, OneFlow, FoundAbandoned, FurtherOn, Abandoned, OnePass
  <2>2. CASE ForkProcessEnds
    <3>1. forkFlows' = [f \in ForkFlows |-> IdleFlow] BY <2>2 DEF ForkProcessEnds
    <3>2. IdleFlow \in FlowRow /\ IdleFlow.phase = "idle" BY DEF IdleFlow, FlowRow, FlowPhases, ForkStatuses, NoOne
    <3> QED BY <3>1, <3>2 DEF FlowsType, FlowsAgree, OneFlow, FoundAbandoned, OnePass, Looking
  <2>3. CASE ForkProcessStarts
    <3>1. forkFlows' = forkFlows /\ \A f \in ForkFlows : forkFlows[f].phase = "idle"
      BY <2>3 DEF ForkProcessStarts, ForkInv, FlowsAgree, OneFlow
    <3> QED BY <3>1 DEF ForkInv, ForkTypes, FlowsType, FlowsAgree, OneFlow, FoundAbandoned, OnePass, Looking
  <2> QED BY <2>1, <2>2, <2>3
<1> QED BY <1>2, <1>3, <1>4 DEF ForkInv, ForkTypes

-----------------------------------------------------------------------------
LEMMA InitInv == ForkInit => ForkInv
<1> SUFFICES ASSUME ForkInit PROVE ForkInv OBVIOUS
<1>1. IdleFlow \in FlowRow /\ IdleFlow.phase = "idle" BY DEF IdleFlow, FlowRow, FlowPhases, ForkStatuses, NoOne
<1>2. FlowsType /\ FlowsAgree /\ OnePass
  BY <1>1 DEF ForkInit, FlowsType, FlowsAgree, OneFlow, FoundAbandoned, OnePass, Looking
<1>3. RowType /\ ProcessType /\ CallsType /\ AnchorType /\ RowAgrees /\ AnchorAgrees
  <2>1. RowType /\ RowAgrees BY DEF ForkInit, RowType, Row, RowAgrees, ForkStatuses, NoOne
  <2>2. CallsType BY ForkAssumption DEF ForkInit, CallsType
  <2>3. ProcessType BY DEF ForkInit, ProcessType
  <2>4. AnchorType /\ AnchorAgrees BY DEF ForkInit, AnchorType, AnchorAgrees, NoOne
  <2> QED BY <2>1, <2>2, <2>3, <2>4
<1> QED BY <1>2, <1>3 DEF ForkInv, ForkTypes

LEMMA StutterInv == ASSUME ForkInv, UNCHANGED forkVars PROVE ForkInv'
BY DEF ForkInv, ForkTypes, RowType, FlowsType, ProcessType, CallsType, AnchorType, RowAgrees, AnchorAgrees, FlowsAgree, OneFlow,
     FoundAbandoned, FurtherOn, Abandoned, OnePass, forkVars

LEMMA StepInv == ForkInv /\ [ForkNext]_forkVars => ForkInv'
<1> SUFFICES ASSUME ForkInv, [ForkNext]_forkVars PROVE ForkInv' OBVIOUS
<1>1. ASSUME NEW f \in ForkFlows,
             RequestFork(f) \/ BeginForkRequest(f) \/ ClaimForkDelivery(f) \/ ClaimForkBinding(f) \/ NothingToExecute(f)
      PROVE  ForkInv'
  BY <1>1, ForkRequestKeeps, BeginKeeps, DeliveryKeeps, BindingKeeps, NothingKeeps
<1>2. ASSUME NEW f \in ForkFlows, ForkAnswered(f) \/ ForkRejected(f) \/ ForkUncertain(f) PROVE ForkInv'
  BY <1>2, AnsweredKeeps, RejectedKeeps, UncertainKeeps
<1>3. ASSUME NEW f \in ForkFlows, SlackPosts(f) \/ AnchorAnswered(f) \/ AnchorRetried(f) \/ AnchorParked(f) PROVE ForkInv'
  BY <1>3, PostsKeeps, AnchoredKeeps, AttemptEnds
<1>4. ASSUME NEW f \in ForkFlows, CompleteForkDelivery(f) \/ BindingFails(f) \/ FlowThrows(f) PROVE ForkInv'
  BY <1>4, CompleteKeeps, AttemptEnds, ThrowsKeeps
<1>5. ASSUME NEW f \in ForkFlows, SweepReads(f) \/ SweepHandles(f) \/ ListForks(f) \/ RecoverForkResult(f) PROVE ForkInv'
  BY <1>5, ReadsKeeps, HandlesKeeps, ListsKeeps, RecoversKeeps
<1>6. CASE \E call \in Children : ProviderForks(call) BY <1>6, ProviderKeeps
<1>7. CASE ReplyComes \/ ReplyTaken \/ ReplyRefused BY <1>7, ReplyKeeps
<1>8. CASE ForkProcessDrains \/ ForkProcessEnds \/ ForkProcessStarts BY <1>8, ProcessKeeps
<1>9. CASE UNCHANGED forkVars BY <1>9, StutterInv
<1> QED BY <1>1, <1>2, <1>3, <1>4, <1>5, <1>6, <1>7, <1>8, <1>9 DEF ForkNext

LEMMA InvAlways == ForkSpec => []ForkInv
BY InitInv, StepInv, PTL DEF ForkSpec

(* The variables of a fork request keep their types.                          *)
THEOREM ForkTypeCorrect == ForkSpec => []ForkTypeOK
<1>1. ForkInv => ForkTypeOK BY TypesAreTypeOK DEF ForkInv
<1> QED BY <1>1, InvAlways, PTL

(* A reply to the anchor is taken into the child's session, unless the        *)
(* request was given up: getForkIngressBarrier holds it back from the first   *)
(* post on, however often the post is repeated and whoever dies.              *)
THEOREM ReplyReachesFork == ForkSpec => []ReplyJoinsFork
<1>1. ForkInv => ReplyJoinsFork BY DEF ForkInv, AnchorAgrees, ReplyJoinsFork
<1> QED BY <1>1, InvAlways, PTL

(* No step but a pass's gives back a request: every other one that leaves     *)
(* "forking" names another status.                                            *)
LEMMA NamesAStatus ==
    ASSUME RowType, NEW f \in ForkFlows, NEW condition, NEW status \in {"error", "ambiguous", "forked", "parked", "binding"},
           NEW next, NEW thrown,
           \/ WritesOr(f, condition, Released(status), next, thrown)
           \/ \E child : WritesOr(f, condition, ForkedAs(child), next, thrown)
           \/ WritesOr(f, condition, [Released("binding") EXCEPT !.anchored = TRUE], next, thrown),
           forkRow.status = "forking"
    PROVE  forkRow'.status # "claimed"
BY DEF RowType, Row, WritesOr, Released, ForkedAs

LEMMA StepRetries ==
    ASSUME ForkInv, [ForkNext]_forkVars, forkRow.status = "forking", forkRow'.status = "claimed"
    PROVE  ~OwnerLives(forkRow.owner) \/ overlapped
<1>1. RowType BY DEF ForkInv, ForkTypes
<1>2. ASSUME UNCHANGED forkRow PROVE FALSE BY <1>2
<1>3. ASSUME NEW f \in ForkFlows,
             RequestFork(f) \/ BeginForkRequest(f) \/ ClaimForkDelivery(f) \/ ClaimForkBinding(f) \/ NothingToExecute(f)
      PROVE  FALSE
  BY <1>2, <1>3 DEF RequestFork, BeginForkRequest, ClaimForkDelivery, ClaimForkBinding, NothingToExecute
<1>4. ASSUME NEW f \in ForkFlows, ForkAnswered(f) \/ ForkRejected(f) \/ ForkUncertain(f) PROVE FALSE
  <2>1. CASE ForkAnswered(f) BY <2>1, <1>1, NamesAStatus DEF ForkAnswered, Writes
  <2>2. CASE ForkRejected(f) BY <2>2, <1>1, NamesAStatus DEF ForkRejected, Writes
  <2>3. CASE ForkUncertain(f) BY <2>3, <1>1, NamesAStatus DEF ForkUncertain, Writes
  <2> QED BY <1>4, <2>1, <2>2, <2>3
<1>5. ASSUME NEW f \in ForkFlows, SlackPosts(f) \/ AnchorAnswered(f) \/ AnchorRetried(f) \/ AnchorParked(f) PROVE FALSE
  <2>1. CASE SlackPosts(f) BY <2>1, <1>2 DEF SlackPosts
  <2>2. CASE AnchorAnswered(f) BY <2>2, <1>1, <1>2, NamesAStatus DEF AnchorAnswered, Writes
  <2>3. CASE AnchorRetried(f) BY <2>3, <1>1, NamesAStatus DEF AnchorRetried, Writes
  <2>4. CASE AnchorParked(f) BY <2>4, <1>1, NamesAStatus DEF AnchorParked, Writes
  <2> QED BY <1>5, <2>1, <2>2, <2>3, <2>4
<1>6. ASSUME NEW f \in ForkFlows, CompleteForkDelivery(f) \/ BindingFails(f) \/ FlowThrows(f) PROVE FALSE
  <2>1. CASE CompleteForkDelivery(f) BY <2>1, <1>2 DEF CompleteForkDelivery, Leased
  <2>2. CASE BindingFails(f) BY <2>2, <1>1, NamesAStatus DEF BindingFails, Writes
  <2>3. CASE FlowThrows(f) BY <2>3, <1>2 DEF FlowThrows
  <2> QED BY <1>6, <2>1, <2>2, <2>3
<1>7. ASSUME NEW f \in ForkFlows, SweepReads(f) \/ ListForks(f) PROVE FALSE
  BY <1>2, <1>7 DEF SweepReads, ListForks
<1>8. ASSUME NEW f \in ForkFlows, SweepHandles(f) PROVE FALSE
  <2>1. \/ UNCHANGED forkRow
        \/ Writes(f, forkRow.status = "forking", Released("ambiguous"), "execute")
        \/ Writes(f, forkRow.status = "delivering", Released("forked"), "execute")
        \/ Writes(f, forkRow.status = "binding", Released("binding"), "execute")
    BY <1>8 DEF SweepHandles
  <2> QED BY <1>1, <1>2, <2>1, NamesAStatus DEF Writes
<1>9. ASSUME NEW f \in ForkFlows, RecoverForkResult(f) PROVE ~OwnerLives(forkRow.owner) \/ overlapped
  BY <1>9, RecoversKeeps
<1>10. CASE \E call \in Children : ProviderForks(call) BY <1>2, <1>10 DEF ProviderForks
<1>11. CASE \/ ReplyComes \/ ReplyTaken \/ ReplyRefused
            \/ ForkProcessDrains \/ ForkProcessEnds \/ ForkProcessStarts
  BY <1>2, <1>11 DEF ReplyComes, ReplyTaken, ReplyRefused, ForkProcessDrains, ForkProcessEnds, ForkProcessStarts
<1>12. CASE UNCHANGED forkVars BY <1>2, <1>12 DEF forkVars
<1> QED BY <1>3, <1>4, <1>5, <1>6, <1>7, <1>8, <1>9, <1>10, <1>11, <1>12 DEF ForkNext

(* While the process that called the provider lives, a request is not given   *)
(* back to be claimed (recoverCodexProviderResult), but by passes of one      *)
(* process that went over the row together.                                   *)
THEOREM RetriesAfterDeath == ForkSpec => RetriedFromDeadOwner
<1>1. ForkInv /\ [ForkNext]_forkVars =>
          [forkRow.status = "forking" /\ forkRow'.status = "claimed" => ~OwnerLives(forkRow.owner) \/ overlapped]_forkVars
  BY StepRetries
<1> QED BY <1>1, InvAlways, PTL DEF ForkSpec, RetriedFromDeadOwner

-----------------------------------------------------------------------------
(* Proofs about SessionHandoff: what a change of provider does to the open    *)
(* obligations of a session, for any number of requests and any line.         *)

HandoffRow == [state : {"none", "proposed", "accepted", "withdrawn", "recovery"},
               from : {NoSession} \cup Lineage,
               byOther : BOOLEAN]
SentRow == [state : {"none", "open", "settled", "returned"}, holder : {NoSession} \cup Lineage]
OwedRow == [state : {"none", "open", "answered", "canceled"}, holder : {NoSession} \cup Lineage,
            input : Carried \X ({NoSession} \cup Lineage)]

HandoffsType == handoffs \in [Lineage -> HandoffRow]
SuspendedType == suspendedSessions \subseteq Lineage
SentType == sent \in [SentRequests -> SentRow]
OwedType == owed \in [OwedRequests -> OwedRow]
AskingType == asking \in [Obligations -> {NoSession} \cup Lineage]
InputsType == inputs \in [Carried -> [Lineage -> InputStates]]
ShownType == shownInventory \in [Lineage -> SUBSET (Obligations \X {"sent", "owed", "movable", "tried"})]
ReachedType == reached \in [Carried -> SUBSET Lineage]
StrandedType == stranded \subseteq Obligations

HandoffTyped ==
    /\ HandoffsType /\ SuspendedType /\ SentType /\ OwedType /\ AskingType
    /\ InputsType /\ ShownType /\ ReachedType /\ StrandedType

LEMMA HandoffTypedIsTypeOK == HandoffTyped <=> HandoffTypeOK
BY DEF HandoffTyped, HandoffTypeOK, HandoffsType, SuspendedType, SentType, OwedType, AskingType, InputsType,
       ShownType, ReachedType, StrandedType, HandoffRow, SentRow, OwedRow

\* What is carried, by its kind.
LEMMA CarriedKinds ==
    /\ \A r \in OwedRequests : Request(r) \in Carried
    /\ \A q \in SentRequests : Return(q) \in Carried
    /\ \A s \in Lineage : s # 1 => Brief(s) \in Carried
    /\ \A q \in SentRequests : <<"sent", q>> \in Obligations
    /\ Carried \subseteq Obligations
    /\ \A q, r : Return(q) # Request(r)
    /\ \A q, s : Return(q) # Brief(s)
    /\ \A r, s : Request(r) # Brief(s)
    /\ \A r, s : Request(r) = Request(s) => r = s
    /\ \A r, s : Return(r) = Return(s) => r = s
    /\ \A r, s : Brief(r) = Brief(s) => r = s
    /\ \A q : <<"sent", q>> \notin Carried
    /\ \A q, r : <<"sent", q>> = <<"sent", r>> => q = r
BY DEF Carried, Obligations, Request, Return, Brief

LEMMA LineageIsNat == 1 \in Lineage /\ NoSession \notin Lineage /\ Lineage \subseteq Nat
BY LineageAssumption DEF Lineage, NoSession

\* The input i of session s takes state x, every other stays.
Takes(i, s, x) == \A j \in Carried, t \in Lineage : inputs'[j][t] = IF j = i /\ t = s THEN x ELSE inputs[j][t]

\* The inputs of Q leave session a and wait at session b.
Moves(Q, a, b) == \A j \in Carried, t \in Lineage :
    inputs'[j][t] = IF j \in Q /\ t = a THEN "canceled" ELSE IF j \in Q /\ t = b THEN "queued" ELSE inputs[j][t]

LEMMA SetInputTakes ==
    ASSUME InputsType, NEW i \in Carried, NEW s \in Lineage, NEW x \in InputStates, SetInput(i, s, x)
    PROVE  InputsType' /\ Takes(i, s, x)
BY DEF InputsType, SetInput, Takes

LEMMA DispatchTakes ==
    ASSUME InputsType, NEW i \in Carried, NEW s \in Lineage, Dispatched(i, s)
    PROVE  InputsType' /\ \E x \in {"queued", "steering"} : Takes(i, s, x)
<1>1. PICK x \in {"queued", "steering"} : SetInput(i, s, x)  BY DEF Dispatched
<1>2. x \in InputStates  BY DEF InputStates, QueuedStates
<1> QED BY <1>1, <1>2, SetInputTakes

LEMMA InventoryHas ==
    ASSUME NEW s \in Lineage
    PROVE  /\ \A q \in SentRequests : <<<<"sent", q>>, "sent">> \in Inventory(s) <=> sent[q].state = "open" /\ sent[q].holder = s
           /\ \A r \in OwedRequests : <<Request(r), "owed">> \in Inventory(s) <=> owed[r].state = "open" /\ owed[r].holder = s
           /\ \A i \in Carried : <<i, "movable">> \in Inventory(s) <=> inputs[i][s] \in QueuedStates /\ Movable(i, s)
           /\ \A i \in Carried : <<i, "tried">> \in Inventory(s) <=> inputs[i][s] \in QueuedStates /\ ~Movable(i, s)
           /\ Inventory(s) \subseteq Obligations \X {"sent", "owed", "movable", "tried"}
<1> DEFINE S == {<<<<"sent", q>>, "sent">> : q \in {q \in SentRequests : sent[q].state = "open" /\ sent[q].holder = s}}
           O == {<<Request(r), "owed">> : r \in {r \in OwedRequests : owed[r].state = "open" /\ owed[r].holder = s}}
           M == {<<i, IF Movable(i, s) THEN "movable" ELSE "tried">> : i \in {i \in Carried : inputs[i][s] \in QueuedStates}}
<1>1. Inventory(s) = S \cup O \cup M  BY DEF Inventory
<1>2. \A x \in S : x[2] = "sent" /\ \E q \in SentRequests : x = <<<<"sent", q>>, "sent">> /\ sent[q].state = "open" /\ sent[q].holder = s
  OBVIOUS
<1>3. \A x \in O : x[2] = "owed" /\ \E r \in OwedRequests : x = <<Request(r), "owed">> /\ owed[r].state = "open" /\ owed[r].holder = s
  OBVIOUS
<1>4. \A x \in M : /\ x[2] \in {"movable", "tried"}
                   /\ \E i \in Carried : /\ x = <<i, IF Movable(i, s) THEN "movable" ELSE "tried">>
                                         /\ inputs[i][s] \in QueuedStates
  OBVIOUS
<1>5. \A q \in SentRequests : sent[q].state = "open" /\ sent[q].holder = s => <<<<"sent", q>>, "sent">> \in S
  OBVIOUS
<1>6. \A r \in OwedRequests : owed[r].state = "open" /\ owed[r].holder = s => <<Request(r), "owed">> \in O
  OBVIOUS
<1>7. \A i \in Carried : inputs[i][s] \in QueuedStates => <<i, IF Movable(i, s) THEN "movable" ELSE "tried">> \in M
  OBVIOUS
<1>8. \A i \in Carried : inputs[i][s] \in QueuedStates /\ Movable(i, s) => <<i, "movable">> \in M
  BY <1>7
<1>9. \A i \in Carried : inputs[i][s] \in QueuedStates /\ ~Movable(i, s) => <<i, "tried">> \in M
  BY <1>7
<1> HIDE DEF S, O, M
<1>10. \A q \in SentRequests : <<<<"sent", q>>, "sent">> \in Inventory(s) <=> sent[q].state = "open" /\ sent[q].holder = s
  BY <1>1, <1>2, <1>3, <1>4, <1>5
<1>11. \A r \in OwedRequests : <<Request(r), "owed">> \in Inventory(s) <=> owed[r].state = "open" /\ owed[r].holder = s
  BY <1>1, <1>2, <1>3, <1>4, <1>6, CarriedKinds
<1>12. \A i \in Carried : <<i, "movable">> \in Inventory(s) <=> inputs[i][s] \in QueuedStates /\ Movable(i, s)
  BY <1>1, <1>2, <1>3, <1>4, <1>8
<1>13. \A i \in Carried : <<i, "tried">> \in Inventory(s) <=> inputs[i][s] \in QueuedStates /\ ~Movable(i, s)
  BY <1>1, <1>2, <1>3, <1>4, <1>9
<1>14. Inventory(s) \subseteq Obligations \X {"sent", "owed", "movable", "tried"}
  BY <1>1, <1>2, <1>3, <1>4, CarriedKinds
<1> QED BY <1>10, <1>11, <1>12, <1>13, <1>14

-----------------------------------------------------------------------------
(* The invariant: a line of sessions grows in order, only what was handed on  *)
(* is fenced and all of that is suspended, an input waits or ran in one place *)
(* at most, and what a session was asked or given is not given again.         *)
LineIsPrefix == \A a, b \in Lineage : a < b /\ Exists(b) => Exists(a)

RowsRise == \A s \in Lineage :
    /\ handoffs[s].state = "none" => handoffs[s].from = NoSession
    /\ handoffs[s].state # "none" => handoffs[s].from \in Lineage /\ handoffs[s].from < s

FencedRest == \A s \in Lineage : Fenced(s) => s \in suspendedSessions

SentHeld == \A q \in SentRequests :
    /\ sent[q].state # "none" => sent[q].holder \in Lineage
    /\ asking[<<"sent", q>>] # NoSession => sent[q].state = "none"
    /\ sent[q].state # "returned" => \A s \in Lineage : inputs[Return(q)][s] = "none"

OwedHeld == \A r \in OwedRequests :
    /\ owed[r].state # "none" => owed[r].holder \in Lineage
    /\ asking[Request(r)] # NoSession => owed[r].state = "none"
    /\ owed[r].state = "none" => \A s \in Lineage : inputs[Request(r)][s] = "none"

BriefsGiven == \A s \in Lineage :
    /\ handoffs[s].state \in {"proposed", "accepted", "withdrawn"} => inputs[Brief(s)][s] # "none"
    /\ s # 1 /\ handoffs[s].state = "none" => \A t \in Lineage : inputs[Brief(s)][t] = "none"

Placed(i, s) == inputs[i][s] \notin {"none", "canceled"}

OnePlace == \A i \in Carried : \A s, t \in Lineage : Placed(i, s) /\ Placed(i, t) => s = t

ReachedDone == \A i \in Carried : \A s \in reached[i] : inputs[i][s] = "done"

SentCustody == \A q \in SentRequests :
    sent[q].state \in {"open", "settled"} /\ Fenced(sent[q].holder) => <<"sent", q>> \in stranded

OwedCustody == \A r \in OwedRequests : owed[r].state = "open" =>
    /\ Fenced(owed[r].holder) => Request(r) \in stranded
    /\ owed[r].input[2] = owed[r].holder
    /\ owed[r].input[1] \in {Request(r)} \cup {Brief(s) : s \in 2 .. owed[r].holder}
    /\ inputs[owed[r].input[1]][owed[r].holder] # "none"

WaitingCustody == \A i \in Carried, s \in Lineage : inputs[i][s] \in QueuedStates /\ Fenced(s) => i \in stranded

LineInv == LineIsPrefix /\ RowsRise /\ FencedRest
HeldInv == SentHeld /\ OwedHeld /\ BriefsGiven /\ OnePlace /\ ReachedDone
CustodyParts == SentCustody /\ OwedCustody /\ WaitingCustody

HandoffInv == HandoffTyped /\ LineInv /\ HeldInv /\ CustodyParts

-----------------------------------------------------------------------------
\* Who is fenced, read off the rows.
LEMMA FencedMeans ==
    \A s \in Lineage : Fenced(s) <=> \/ handoffs[s].state = "withdrawn"
                                     \/ \E next \in Lineage : handoffs[next].from = s /\ handoffs[next].state = "accepted"
BY DEF Fenced, IsSuperseded, Successors, WithdrawnSuccessor

\* What an acceptance does to each row, where Q is all that waits at the predecessor.
AcceptRows(s, from, Q) ==
    /\ from \in Lineage /\ from < s /\ from = handoffs[s].from
    /\ Q = {i \in Carried : inputs[i][from] \in QueuedStates}
    /\ handoffs[s].state = "proposed"
    /\ handoffs'[s].state = "accepted" /\ handoffs'[s].from = from
    /\ \A t \in Lineage : t # s => handoffs'[t] = handoffs[t]
    /\ suspendedSessions' = suspendedSessions \cup {from}
    /\ \A q \in SentRequests : sent'[q] = IF sent[q].state = "open" /\ sent[q].holder = from
                                          THEN [sent[q] EXCEPT !.holder = s] ELSE sent[q]
    /\ \A r \in OwedRequests :
          IF owed[r].state = "open" /\ owed[r].holder = from
          THEN /\ owed'[r].state = "open" /\ owed'[r].holder = s
               /\ owed'[r].input = IF owed[r].input[2] = from /\ owed[r].input[1] \in Q
                                   THEN <<owed[r].input[1], s>> ELSE <<Brief(s), s>>
          ELSE owed'[r] = owed[r]
    /\ Moves(Q, from, s)
    /\ stranded \subseteq stranded'
    /\ \A q \in SentRequests : sent[q].state = "settled" /\ sent[q].holder = from => <<"sent", q>> \in stranded'
    /\ Fenced(s) => /\ \A q \in SentRequests : sent[q].state = "open" /\ sent[q].holder = from => <<"sent", q>> \in stranded'
                    /\ \A r \in OwedRequests : owed[r].state = "open" /\ owed[r].holder = from => Request(r) \in stranded'
                    /\ Q \subseteq stranded'
    /\ UNCHANGED <<asking, reached>>

LEMMA RowFrom ==
    ASSUME RowsRise, NEW s \in Lineage, handoffs[s].state # "none"
    PROVE  handoffs[s].from \in Lineage /\ handoffs[s].from < s /\ handoffs[s].from # s /\ s # 1 /\ s \in Nat
BY LineageAssumption DEF RowsRise, Lineage

LEMMA AcceptTypes ==
    ASSUME HandoffTyped, RowsRise, NEW s \in Lineage, AcceptHandoff(s)
    PROVE  HandoffTyped' /\ AcceptRows(s, handoffs[s].from, {i \in Carried : inputs[i][handoffs[s].from] \in QueuedStates})
<1> DEFINE from == handoffs[s].from
           items == {item[1] : item \in shownInventory[s]}
           queued == {item[1] : item \in {item \in shownInventory[s] : item[2] = "movable"}}
           Q == {i \in Carried : inputs[i][from] \in QueuedStates}
           newInput(r) == IF owed[r].input[2] = from /\ owed[r].input[1] \in queued THEN <<owed[r].input[1], s>> ELSE <<Brief(s), s>>
           row(r) == [owed[r] EXCEPT !.holder = s, !.input = newInput(r)]
<1>0. HandoffsType /\ SuspendedType /\ SentType /\ OwedType /\ AskingType /\ InputsType /\ ShownType /\ ReachedType /\ StrandedType
  BY DEF HandoffTyped
<1>1. handoffs[s].state = "proposed" /\ shownInventory[s] = Inventory(from) /\ \A item \in shownInventory[s] : item[2] # "tried"
  BY DEF AcceptHandoff, Acknowledges, Proposed
<1>1s. sent' = [q \in SentRequests |->
             IF <<<<"sent", q>>, "sent">> \in shownInventory[s] THEN [sent[q] EXCEPT !.holder = s] ELSE sent[q]]
  BY DEF AcceptHandoff
<1>1o. owed' = [r \in OwedRequests |-> IF <<Request(r), "owed">> \in shownInventory[s] THEN row(r) ELSE owed[r]]
  BY DEF AcceptHandoff
<1>1i. inputs' = [i \in Carried |->
             IF i \in queued THEN [inputs[i] EXCEPT ![from] = "canceled", ![s] = "queued"] ELSE inputs[i]]
  BY DEF AcceptHandoff
<1>1h. /\ suspendedSessions' = suspendedSessions \cup {from}
       /\ handoffs' = [handoffs EXCEPT ![s] = [@ EXCEPT !.state = "accepted", !.byOther = FALSE]]
       /\ shownInventory' = [shownInventory EXCEPT ![s] = {}]
       /\ UNCHANGED <<asking, reached>>
  BY DEF AcceptHandoff
<1>1t. stranded' = stranded \cup SettledAnswers(from) \cup (IF Fenced(s) THEN items ELSE {})
  BY DEF AcceptHandoff
<1>2. from \in Lineage /\ from < s /\ from # s /\ s # 1 /\ s \in Nat
  BY <1>1, LineageIsNat, RowFrom
<1>3. Brief(s) \in Carried  BY <1>2, CarriedKinds
<1>4. \A item \in shownInventory[s] : item[1] \in Obligations /\ item[2] \in {"sent", "owed", "movable"} /\ item = <<item[1], item[2]>>
  BY <1>0, <1>1 DEF ShownType
<1>5. items \subseteq Obligations  BY <1>4
<1>6. \A o, k : <<o, k>> \in shownInventory[s] => o \in items  OBVIOUS
<1>7. \A i \in queued : <<i, "movable">> \in Inventory(from) /\ i \in items
  BY <1>1, <1>4
<1>8. \A i : <<i, "movable">> \in Inventory(from) => i \in queued
  BY <1>1
<1>9. \A i \in Carried : i \in queued <=> inputs[i][from] \in QueuedStates
  <2>1. \A i \in Carried : i \in queued <=> <<i, "movable">> \in Inventory(from)  BY <1>7, <1>8
  <2>2. \A i \in Carried : <<i, "tried">> \notin Inventory(from)
    <3> SUFFICES ASSUME NEW i \in Carried, <<i, "tried">> \in Inventory(from)  PROVE FALSE  OBVIOUS
    <3>1. <<i, "tried">>[2] # "tried"  BY <1>1
    <3> QED BY <3>1
  <2> HIDE DEF queued, from
  <2> QED BY <2>1, <2>2, <1>2, InventoryHas
<1>10. queued \subseteq Carried
  <2> SUFFICES ASSUME NEW i \in queued PROVE i \in Carried  OBVIOUS
  <2>1. <<i, "movable">> \in Inventory(from)  BY <1>7
  <2>2. \A q \in SentRequests : <<i, "movable">> # <<<<"sent", q>>, "sent">>  OBVIOUS
  <2>3. \A r \in OwedRequests : <<i, "movable">> # <<Request(r), "owed">>  OBVIOUS
  <2> QED BY <2>1, <2>2, <2>3 DEF Inventory
<1>11. queued = Q  BY <1>9, <1>10
<1> HIDE DEF from, items, queued, Q, newInput, row
<1>12. \A q \in SentRequests : sent'[q] = IF sent[q].state = "open" /\ sent[q].holder = from
                                          THEN [sent[q] EXCEPT !.holder = s] ELSE sent[q]
  <2>1. \A q \in SentRequests : <<<<"sent", q>>, "sent">> \in shownInventory[s] <=> sent[q].state = "open" /\ sent[q].holder = from
    <3>1. \A q \in SentRequests : <<<<"sent", q>>, "sent">> \in Inventory(from) <=> sent[q].state = "open" /\ sent[q].holder = from
      BY <1>2, InventoryHas
    <3> QED BY <3>1, <1>1
  <2> QED BY <1>1s, <2>1
<1>13. \A r \in OwedRequests : owed'[r] = IF owed[r].state = "open" /\ owed[r].holder = from THEN row(r) ELSE owed[r]
  <2>1. \A r \in OwedRequests : <<Request(r), "owed">> \in shownInventory[s] <=> owed[r].state = "open" /\ owed[r].holder = from
    BY <1>1, <1>2, InventoryHas
  <2> QED BY <1>1o, <2>1
<1>14. \A r \in OwedRequests : owed[r] \in OwedRow  BY <1>0 DEF OwedType
<1>15. \A r \in OwedRequests :
          /\ row(r).state = owed[r].state /\ row(r).holder = s /\ row(r).input = newInput(r)
          /\ newInput(r) = IF owed[r].input[2] = from /\ owed[r].input[1] \in Q THEN <<owed[r].input[1], s>> ELSE <<Brief(s), s>>
  <2>1. \A r \in OwedRequests : row(r).state = owed[r].state /\ row(r).holder = s /\ row(r).input = newInput(r)
    BY <1>14 DEF row, OwedRow
  <2>2. \A r \in OwedRequests :
          newInput(r) = IF owed[r].input[2] = from /\ owed[r].input[1] \in Q THEN <<owed[r].input[1], s>> ELSE <<Brief(s), s>>
    BY <1>11 DEF newInput
  <2> QED BY <2>1, <2>2
<1>16. Moves(Q, from, s)
  BY <1>0, <1>1i, <1>2, <1>11 DEF Moves, InputsType
<1>17. /\ handoffs'[s].state = "accepted" /\ handoffs'[s].from = from
       /\ \A t \in Lineage : t # s => handoffs'[t] = handoffs[t]
       /\ HandoffsType'
  <2>1. handoffs[s] \in HandoffRow /\ handoffs[s].from = from  BY <1>0 DEF HandoffsType, from
  <2> DEFINE h == [handoffs[s] EXCEPT !.state = "accepted", !.byOther = FALSE]
  <2>2. h \in HandoffRow /\ h.state = "accepted" /\ h.from = from  BY <2>1 DEF HandoffRow
  <2>3. handoffs' = [handoffs EXCEPT ![s] = h]  BY <1>1h
  <2> HIDE DEF h
  <2> QED BY <1>0, <2>2, <2>3 DEF HandoffsType
<1>18. stranded \subseteq stranded' /\ (Fenced(s) => items \subseteq stranded') /\ SettledAnswers(from) \subseteq stranded'
  BY <1>1t
<1>19. \A q \in SentRequests : sent[q].state = "settled" /\ sent[q].holder = from => <<"sent", q>> \in stranded'
  BY <1>18 DEF SettledAnswers
<1>20. Q \subseteq items  BY <1>7, <1>11
<1>21. \A q \in SentRequests : sent[q].state = "open" /\ sent[q].holder = from => <<"sent", q>> \in items
  <2>1. \A q \in SentRequests : sent[q].state = "open" /\ sent[q].holder = from => <<<<"sent", q>>, "sent">> \in shownInventory[s]
    BY <1>1, <1>2, InventoryHas
  <2> QED BY <2>1, <1>6
<1>22. \A r \in OwedRequests : owed[r].state = "open" /\ owed[r].holder = from => Request(r) \in items
  <2>1. \A r \in OwedRequests : owed[r].state = "open" /\ owed[r].holder = from => <<Request(r), "owed">> \in shownInventory[s]
    BY <1>1, <1>2, InventoryHas
  <2> QED BY <2>1, <1>6
<1>23. AcceptRows(s, from, Q)
  <2>1. Q = {i \in Carried : inputs[i][from] \in QueuedStates} /\ from = handoffs[s].from
    BY DEF Q, from
  <2>2. UNCHANGED <<asking, reached>> /\ suspendedSessions' = suspendedSessions \cup {from}  BY <1>1h
  <2>3. \A r \in OwedRequests :
          IF owed[r].state = "open" /\ owed[r].holder = from
          THEN /\ owed'[r].state = "open" /\ owed'[r].holder = s
               /\ owed'[r].input = IF owed[r].input[2] = from /\ owed[r].input[1] \in Q
                                   THEN <<owed[r].input[1], s>> ELSE <<Brief(s), s>>
          ELSE owed'[r] = owed[r]
    BY <1>13, <1>15
  <2> QED BY <1>1, <1>2, <2>1, <2>3, <2>2, <1>12, <1>16, <1>17, <1>18, <1>19, <1>20, <1>21, <1>22 DEF AcceptRows
<1>24. HandoffsType'  BY <1>17
<1>25. SuspendedType'  BY <1>0, <1>1h, <1>2 DEF SuspendedType
<1>26. SentType'
  <2>1. \A q \in SentRequests : sent[q] \in SentRow /\ [sent[q] EXCEPT !.holder = s] \in SentRow
    BY <1>0 DEF SentType, SentRow
  <2> QED BY <1>1s, <2>1 DEF SentType
<1>27. OwedType'
  <2>1. \A r \in OwedRequests : owed[r].input \in Carried \X ({NoSession} \cup Lineage)
    BY <1>14 DEF OwedRow
  <2>2. \A r \in OwedRequests : newInput(r) \in Carried \X ({NoSession} \cup Lineage)
    BY <2>1, <1>3 DEF newInput
  <2>3. \A r \in OwedRequests : row(r) \in OwedRow
    BY <1>14, <2>2 DEF row, OwedRow
  <2> QED BY <1>1o, <1>14, <2>3 DEF OwedType
<1>28. InputsType'
  <2>1. \A i \in Carried : [inputs[i] EXCEPT ![from] = "canceled", ![s] = "queued"] \in [Lineage -> InputStates]
    BY <1>0, <1>2 DEF InputsType, InputStates, QueuedStates
  <2> QED BY <1>0, <1>1i, <2>1 DEF InputsType
<1>29. ShownType'  BY <1>0, <1>1h DEF ShownType
<1>30. StrandedType'
  <2>1. SettledAnswers(from) \subseteq Obligations  BY CarriedKinds DEF SettledAnswers
  <2> QED BY <1>0, <1>1t, <1>5, <2>1 DEF StrandedType
<1>31. AskingType' /\ ReachedType'  BY <1>0, <1>1h DEF AskingType, ReachedType
<1> QED BY <1>23, <1>24, <1>25, <1>26, <1>27, <1>28, <1>29, <1>30, <1>31 DEF HandoffTyped, from, Q

\* What a transfer of the waiting work does to each row.
RecoveryRows(s, next, Q) ==
    /\ s < next /\ ~Fenced(next)
    /\ Q = {i \in Carried : inputs[i][s] \in QueuedStates}
    /\ \/ handoffs[next].state = "recovery" /\ handoffs[next].from = s
       \/ UnusedSession(next)
    /\ handoffs'[next].state = "recovery" /\ handoffs'[next].from = s
    /\ \A t \in Lineage : t # next => handoffs'[t] = handoffs[t]
    /\ \A r \in OwedRequests : owed[r].state = "open" /\ owed[r].holder = s => owed[r].input[1] \in Q /\ owed[r].input[2] = s
    /\ \A r \in OwedRequests :
          IF owed[r].state = "open" /\ owed[r].input[1] \in Q /\ owed[r].input[2] = s
          THEN owed'[r].state = "open" /\ owed'[r].holder = next /\ owed'[r].input = <<owed[r].input[1], next>>
          ELSE owed'[r] = owed[r]
    /\ Moves(Q, s, next)
    /\ UNCHANGED <<suspendedSessions, sent, asking, reached, stranded>>

LEMMA RecoveryTypes ==
    ASSUME HandoffTyped, LineInv, NEW s \in Lineage, NEW next \in Lineage, RecoverElsewhere(s, next)
    PROVE  HandoffTyped' /\ RecoveryRows(s, next, {i \in Carried : inputs[i][s] \in QueuedStates})
<1> DEFINE Q == {i \in Carried : inputs[i][s] \in QueuedStates}
           earlier == {x \in Lineage : handoffs[x].state = "recovery" /\ handoffs[x].from = s /\ x \notin suspendedSessions}
           row(r) == [owed[r] EXCEPT !.holder = next, !.input = <<@[1], next>>]
<1>0. HandoffsType /\ SuspendedType /\ SentType /\ OwedType /\ AskingType /\ InputsType /\ ShownType /\ ReachedType /\ StrandedType
  BY DEF HandoffTyped
<1>1. /\ Exists(s)
      /\ \A r \in OwedRequests : owed[r].state = "open" /\ owed[r].holder = s => owed[r].input \in Q \X {s}
      /\ IF earlier = {} THEN UnusedSession(next) ELSE next \in earlier
  BY DEF RecoverElsewhere
<1>2. handoffs' = [handoffs EXCEPT ![next] = [state |-> "recovery", from |-> s, byOther |-> FALSE]]
  BY DEF RecoverElsewhere
<1>3. inputs' = [i \in Carried |-> IF i \in Q THEN [inputs[i] EXCEPT ![s] = "canceled", ![next] = "queued"] ELSE inputs[i]]
  BY DEF RecoverElsewhere
<1>4. owed' = [r \in OwedRequests |-> IF owed[r].state = "open" /\ owed[r].input \in Q \X {s} THEN row(r) ELSE owed[r]]
  BY DEF RecoverElsewhere
<1>5. UNCHANGED <<suspendedSessions, shownInventory, sent, asking, reached, stranded>>
  BY DEF RecoverElsewhere, KeepHistory
<1>6. \/ handoffs[next].state = "recovery" /\ handoffs[next].from = s /\ next \notin suspendedSessions
      \/ UnusedSession(next)
  BY <1>1
<1> HIDE DEF Q, earlier, row
<1>7. ASSUME UnusedSession(next)  PROVE s < next /\ ~Fenced(next) /\ handoffs[next].state = "none" /\ next # 1
  <2>1. ~Exists(next) /\ next # s  BY <1>1, <1>7 DEF UnusedSession
  <2>2. handoffs[next].state = "none" /\ next # 1  BY <2>1 DEF Exists
  <2>3. ~(next < s)  BY <2>1, <1>1 DEF LineInv, LineIsPrefix
  <2>4. s \in Nat /\ next \in Nat  BY LineageIsNat
  <2>5. ASSUME NEW x \in Lineage, handoffs[x].from = next, handoffs[x].state = "accepted"  PROVE FALSE
    <3>1. next < x  BY <2>5 DEF LineInv, RowsRise
    <3>2. Exists(x)  BY <2>5 DEF Exists
    <3> QED BY <3>1, <3>2, <2>1 DEF LineInv, LineIsPrefix
  <2>6. ~Fenced(next)  BY <2>2, <2>5, FencedMeans
  <2> QED BY <2>1, <2>2, <2>3, <2>4, <2>6
<1>8. ASSUME handoffs[next].state = "recovery", handoffs[next].from = s, next \notin suspendedSessions
      PROVE  s < next /\ ~Fenced(next)
  BY <1>8 DEF LineInv, RowsRise, FencedRest
<1>9. s < next /\ ~Fenced(next) /\ s # next
  BY <1>6, <1>7, <1>8, LineageIsNat
<1>10. \A r \in OwedRequests : owed[r] \in OwedRow  BY <1>0 DEF OwedType
<1>11. \A r \in OwedRequests : owed[r].input \in Q \X {s} <=> owed[r].input[1] \in Q /\ owed[r].input[2] = s
  <2>1. \A r \in OwedRequests : owed[r].input \in Carried \X ({NoSession} \cup Lineage)
    BY <1>10 DEF OwedRow
  <2> QED BY <2>1
<1>12. \A r \in OwedRequests : row(r).state = owed[r].state /\ row(r).holder = next /\ row(r).input = <<owed[r].input[1], next>>
  BY <1>10 DEF row, OwedRow
<1>13. \A r \in OwedRequests :
          IF owed[r].state = "open" /\ owed[r].input[1] \in Q /\ owed[r].input[2] = s
          THEN owed'[r].state = "open" /\ owed'[r].holder = next /\ owed'[r].input = <<owed[r].input[1], next>>
          ELSE owed'[r] = owed[r]
  BY <1>4, <1>11, <1>12
<1>14. Moves(Q, s, next)  BY <1>0, <1>3, <1>9 DEF Moves, InputsType
<1>15. RecoveryRows(s, next, Q)
  <2>1. Q = {i \in Carried : inputs[i][s] \in QueuedStates}  BY DEF Q
  <2>2. /\ handoffs'[next].state = "recovery" /\ handoffs'[next].from = s
        /\ \A t \in Lineage : t # next => handoffs'[t] = handoffs[t]
    BY <1>0, <1>2 DEF HandoffsType
  <2>3. \A r \in OwedRequests : owed[r].state = "open" /\ owed[r].holder = s => owed[r].input[1] \in Q /\ owed[r].input[2] = s
    BY <1>1, <1>11
  <2>4. UNCHANGED <<suspendedSessions, sent, asking, reached, stranded>>  BY <1>5
  <2> QED BY <1>6, <1>9, <1>13, <1>14, <2>1, <2>2, <2>3, <2>4 DEF RecoveryRows
<1>16. HandoffsType'
  <2>1. [state |-> "recovery", from |-> s, byOther |-> FALSE] \in HandoffRow  BY DEF HandoffRow
  <2> QED BY <1>0, <1>2, <2>1 DEF HandoffsType
<1>17. OwedType'
  <2>1. \A r \in OwedRequests : row(r) \in OwedRow
    <3>1. \A r \in OwedRequests : owed[r].input[1] \in Carried  BY <1>10 DEF OwedRow
    <3>2. \A r \in OwedRequests : <<owed[r].input[1], next>> \in Carried \X ({NoSession} \cup Lineage)
      BY <3>1
    <3> QED BY <1>10, <3>2 DEF row, OwedRow
  <2> QED BY <1>4, <1>10, <2>1 DEF OwedType
<1>18. InputsType'
  <2>1. \A i \in Carried : [inputs[i] EXCEPT ![s] = "canceled", ![next] = "queued"] \in [Lineage -> InputStates]
    BY <1>0, <1>9 DEF InputsType, InputStates, QueuedStates
  <2> QED BY <1>0, <1>3, <2>1 DEF InputsType
<1>19. SuspendedType' /\ SentType' /\ AskingType' /\ ShownType' /\ ReachedType' /\ StrandedType'
  BY <1>0, <1>5 DEF SuspendedType, SentType, AskingType, ShownType, ReachedType, StrandedType
<1> QED BY <1>15, <1>16, <1>17, <1>18, <1>19 DEF HandoffTyped, Q

\* What becomes of a steered input that was never sent, when its own session is suspended.
UnsentRows(i, s, end) ==
    /\ inputs[i][s] = "unsent"
    /\ end # s /\ end \notin suspendedSessions
    /\ Moves({i}, s, end)
    /\ \A r \in OwedRequests :
          IF owed[r].state = "open" /\ owed[r].holder = end /\ i = Request(r)
          THEN owed'[r].state = "open" /\ owed'[r].holder = end /\ owed'[r].input = <<i, end>>
          ELSE owed'[r] = owed[r]
    /\ UNCHANGED <<handoffs, suspendedSessions, shownInventory, sent, asking, reached, stranded>>

LEMMA UnsentTypes ==
    ASSUME HandoffTyped, NEW i \in Carried, NEW s \in Lineage, RecoverUnsentSteered(i, s)
    PROVE  /\ HandoffTyped'
           /\ \/ /\ s \notin suspendedSessions /\ inputs[i][s] = "unsent" /\ Takes(i, s, "queued")
                 /\ UNCHANGED <<handoffs, suspendedSessions, shownInventory, sent, owed, asking, reached, stranded>>
              \/ \E end : UnsentRows(i, s, end)
<1>0. HandoffsType /\ SuspendedType /\ SentType /\ OwedType /\ AskingType /\ InputsType /\ ShownType /\ ReachedType /\ StrandedType
  BY DEF HandoffTyped
<1>1. inputs[i][s] = "unsent" /\ UNCHANGED <<handoffs, suspendedSessions, shownInventory, sent, asking, reached, stranded>>
  BY DEF RecoverUnsentSteered, KeepHandoffs, KeepHistory
<1>2. HandoffsType' /\ SuspendedType' /\ SentType' /\ AskingType' /\ ShownType' /\ ReachedType' /\ StrandedType'

    BY <1>0, <1>1 DEF HandoffsType, SuspendedType, SentType, AskingType, ShownType, ReachedType, StrandedType
<1>3. CASE s \notin suspendedSessions
  <2>1. SetInput(i, s, "queued") /\ UNCHANGED owed  BY <1>3 DEF RecoverUnsentSteered
  <2>2. InputsType' /\ Takes(i, s, "queued")  BY <1>0, <2>1, SetInputTakes DEF InputStates, QueuedStates
  <2>3. OwedType'  BY <1>0, <2>1 DEF OwedType
  <2> QED BY <1>1, <1>2, <1>3, <2>1, <2>2, <2>3 DEF HandoffTyped
<1>4. CASE s \in suspendedSessions
  <2> DEFINE end == LineEnd[s]
             row(r) == [owed[r] EXCEPT !.input = <<i, end>>]
             moved == [inputs[i] EXCEPT ![s] = "canceled", ![end] = "queued"]
  <2>1. end # s /\ end \notin suspendedSessions  BY <1>4 DEF RecoverUnsentSteered
  <2>2. inputs' = [inputs EXCEPT ![i] = moved]  BY <1>4 DEF RecoverUnsentSteered
  <2>3. owed' = [r \in OwedRequests |->
            IF owed[r].state = "open" /\ owed[r].holder = end /\ i = Request(r) THEN row(r) ELSE owed[r]]
    BY <1>4 DEF RecoverUnsentSteered
  <2> HIDE DEF end, row
  <2>4. inputs[i] \in [Lineage -> InputStates]  BY <1>0 DEF InputsType
  <2>5. moved \in [Lineage -> InputStates]  BY <2>1, <2>4 DEF InputStates, QueuedStates
  <2>6. \A t \in Lineage : moved[t] = IF t = s THEN "canceled" ELSE IF t = end THEN "queued" ELSE inputs[i][t]
    BY <2>1, <2>4
  <2> HIDE DEF moved
  <2>7. InputsType'  BY <1>0, <2>2, <2>5 DEF InputsType
  <2>8. Moves({i}, s, end)  BY <1>0, <2>2, <2>6 DEF Moves, InputsType
  <2>9. \A r \in OwedRequests : owed[r] \in OwedRow  BY <1>0 DEF OwedType
  <2>10. \A r \in OwedRequests : row(r).state = owed[r].state /\ row(r).holder = owed[r].holder /\ row(r).input = <<i, end>>
    BY <2>9 DEF row, OwedRow
  <2>11. \A r \in OwedRequests :
          IF owed[r].state = "open" /\ owed[r].holder = end /\ i = Request(r)
          THEN owed'[r].state = "open" /\ owed'[r].holder = end /\ owed'[r].input = <<i, end>>
          ELSE owed'[r] = owed[r]
    BY <2>3, <2>10
  <2>12. \A r \in OwedRequests : owed[r].holder = end => row(r) \in OwedRow
    <3>1. \A r \in OwedRequests : owed[r].holder = end => <<i, end>> \in Carried \X ({NoSession} \cup Lineage)
      BY <2>9 DEF OwedRow
    <3> QED BY <2>9, <3>1 DEF row, OwedRow
  <2>13. OwedType'  BY <2>3, <2>9, <2>12 DEF OwedType
  <2>14. UnsentRows(i, s, end)  BY <1>1, <2>1, <2>8, <2>11 DEF UnsentRows
  <2> QED BY <1>2, <2>7, <2>13, <2>14 DEF HandoffTyped
<1> QED BY <1>3, <1>4

\* What a withdrawal does: the successor is suspended, and what it was given stays known.
WithdrawRows(s) ==
    /\ handoffs[s].state = "proposed"
    /\ handoffs'[s].state = "withdrawn" /\ handoffs'[s].from = handoffs[s].from
    /\ \A t \in Lineage : t # s => handoffs'[t] = handoffs[t]
    /\ suspendedSessions' = suspendedSessions \cup {s}
    /\ stranded \subseteq stranded'
    /\ \A q \in SentRequests : sent[q].state \in {"open", "settled"} /\ sent[q].holder = s => <<"sent", q>> \in stranded'
    /\ \A r \in OwedRequests : owed[r].state = "open" /\ owed[r].holder = s => Request(r) \in stranded'
    /\ \A i \in Carried : inputs[i][s] \in QueuedStates => i \in stranded'
    /\ UNCHANGED <<sent, owed, asking, inputs, reached>>

LEMMA WithdrawTypes ==
    ASSUME HandoffTyped, NEW s \in Lineage, WithdrawHandoff(s)
    PROVE  HandoffTyped' /\ WithdrawRows(s)
<1> DEFINE h == [handoffs[s] EXCEPT !.state = "withdrawn", !.byOther = FALSE]
           items == {item[1] : item \in Inventory(s)}
<1>0. HandoffsType /\ SuspendedType /\ SentType /\ OwedType /\ AskingType /\ InputsType /\ ShownType /\ ReachedType /\ StrandedType
  BY DEF HandoffTyped
<1>1. handoffs[s].state = "proposed" /\ handoffs' = [handoffs EXCEPT ![s] = h]
  BY DEF WithdrawHandoff, Proposed
<1>2. suspendedSessions' = suspendedSessions \cup {s} /\ shownInventory' = [shownInventory EXCEPT ![s] = {}]
  BY DEF WithdrawHandoff
<1>3. stranded' = stranded \cup items \cup SettledAnswers(s)  BY DEF WithdrawHandoff
<1>4. UNCHANGED <<sent, owed, asking, inputs, reached>>  BY DEF WithdrawHandoff, KeepRequests
<1>5. handoffs[s] \in HandoffRow  BY <1>0 DEF HandoffsType
<1>6. h \in HandoffRow /\ h.state = "withdrawn" /\ h.from = handoffs[s].from  BY <1>5 DEF HandoffRow
<1>7. \A o, k : <<o, k>> \in Inventory(s) => o \in items  OBVIOUS
<1>8. items \subseteq Obligations
  <2>1. Inventory(s) \subseteq Obligations \X {"sent", "owed", "movable", "tried"}  BY InventoryHas
  <2> QED BY <2>1
<1> HIDE DEF h, items
<1>9. \A q \in SentRequests : sent[q].state \in {"open", "settled"} /\ sent[q].holder = s => <<"sent", q>> \in stranded'
  <2>1. \A q \in SentRequests : sent[q].state = "open" /\ sent[q].holder = s => <<<<"sent", q>>, "sent">> \in Inventory(s)
    BY InventoryHas
  <2>2. \A q \in SentRequests : sent[q].state = "open" /\ sent[q].holder = s => <<"sent", q>> \in items
    BY <2>1, <1>7
  <2>3. \A q \in SentRequests : sent[q].state = "settled" /\ sent[q].holder = s => <<"sent", q>> \in SettledAnswers(s)
    BY DEF SettledAnswers
  <2> QED BY <1>3, <2>2, <2>3
<1>10. \A r \in OwedRequests : owed[r].state = "open" /\ owed[r].holder = s => Request(r) \in stranded'
  <2>1. \A r \in OwedRequests : owed[r].state = "open" /\ owed[r].holder = s => <<Request(r), "owed">> \in Inventory(s)
    BY InventoryHas
  <2> QED BY <2>1, <1>3, <1>7
<1>11. \A i \in Carried : inputs[i][s] \in QueuedStates => i \in stranded'
  <2>1. \A i \in Carried : inputs[i][s] \in QueuedStates => <<i, "movable">> \in Inventory(s) \/ <<i, "tried">> \in Inventory(s)
    BY InventoryHas
  <2> QED BY <2>1, <1>3, <1>7
<1>12. HandoffsType' /\ handoffs'[s] = h /\ \A t \in Lineage : t # s => handoffs'[t] = handoffs[t]
  BY <1>0, <1>1, <1>6 DEF HandoffsType
<1>13. WithdrawRows(s)  BY <1>1, <1>2, <1>3, <1>4, <1>6, <1>9, <1>10, <1>11, <1>12 DEF WithdrawRows
<1>14. StrandedType'
  <2>1. SettledAnswers(s) \subseteq Obligations  BY CarriedKinds DEF SettledAnswers
  <2> QED BY <1>0, <1>3, <1>8, <2>1 DEF StrandedType
<1>15. SuspendedType' /\ ShownType'  BY <1>0, <1>2 DEF SuspendedType, ShownType
<1>16. SentType' /\ OwedType' /\ AskingType' /\ InputsType' /\ ReachedType'
  BY <1>0, <1>4 DEF SentType, OwedType, AskingType, InputsType, ReachedType
<1> QED BY <1>12, <1>13, <1>14, <1>15, <1>16 DEF HandoffTyped

-----------------------------------------------------------------------------
(* What a step that leaves some of the rows alone keeps.                      *)
LEMMA KeptLine ==
    ASSUME LineInv, UNCHANGED <<handoffs, suspendedSessions>>
    PROVE  LineInv' /\ \A s : Fenced(s)' <=> Fenced(s)
<1>1. \A s : Fenced(s)' <=> Fenced(s)  BY DEF Fenced, IsSuperseded, Successors, WithdrawnSuccessor
<1>2. \A s : Exists(s)' <=> Exists(s)  BY DEF Exists
<1>3. LineIsPrefix' /\ RowsRise'  BY <1>2 DEF LineInv, LineIsPrefix, RowsRise
<1>4. FencedRest'  BY <1>1 DEF LineInv, FencedRest
<1> QED BY <1>1, <1>3, <1>4 DEF LineInv

LEMMA KeptPlaces ==
    ASSUME HeldInv, UNCHANGED <<handoffs, inputs, reached>>
    PROVE  BriefsGiven' /\ OnePlace' /\ ReachedDone'
BY DEF HeldInv, BriefsGiven, OnePlace, Placed, ReachedDone

LEMMA KeptSent ==
    ASSUME SentCustody, UNCHANGED <<handoffs, suspendedSessions, sent>>, LineInv, stranded \subseteq stranded'
    PROVE  SentCustody'
BY KeptLine DEF SentCustody

LEMMA KeptOwed ==
    ASSUME OwedCustody, UNCHANGED <<handoffs, suspendedSessions, owed>>, LineInv, stranded \subseteq stranded',
           OwedType, SentHeld, OwedHeld,
           \A i \in Carried, s \in Lineage : inputs'[i][s] = "none" => inputs[i][s] = "none"
    PROVE  OwedCustody'
<1> SUFFICES ASSUME NEW r \in OwedRequests, owed[r].state = "open"
             PROVE  /\ Fenced(owed[r].holder)' => Request(r) \in stranded'
                    /\ owed[r].input[2] = owed[r].holder
                    /\ owed[r].input[1] \in {Request(r)} \cup {Brief(s) : s \in 2 .. owed[r].holder}
                    /\ inputs'[owed[r].input[1]][owed[r].holder] # "none"
  BY DEF OwedCustody
<1>1. owed[r].input[1] \in Carried  BY DEF OwedType, OwedRow
<1>2. owed[r].holder \in Lineage  BY DEF OwedHeld
<1>3. /\ Fenced(owed[r].holder) => Request(r) \in stranded
      /\ owed[r].input[2] = owed[r].holder
      /\ owed[r].input[1] \in {Request(r)} \cup {Brief(s) : s \in 2 .. owed[r].holder}
      /\ inputs[owed[r].input[1]][owed[r].holder] # "none"
  BY DEF OwedCustody
<1>4. Fenced(owed[r].holder)' <=> Fenced(owed[r].holder)
  <2>1. \A s : Fenced(s)' <=> Fenced(s)  BY KeptLine
  <2>2. owed' = owed  OBVIOUS
  <2> QED BY <2>1, <2>2
<1> QED BY <1>1, <1>2, <1>3, <1>4

LEMMA KeptWaiting ==
    ASSUME WaitingCustody, UNCHANGED <<handoffs, suspendedSessions>>, LineInv, stranded \subseteq stranded',
           \A i \in Carried, s \in Lineage :
              inputs'[i][s] \in QueuedStates => inputs[i][s] \in QueuedStates \/ ~Fenced(s) \/ i \in stranded'
    PROVE  WaitingCustody'
BY KeptLine DEF WaitingCustody

\* An input that has a place, and is not done, takes another state there.
LEMMA TakesStep ==
    ASSUME HandoffInv, HandoffTyped', UNCHANGED <<handoffs, suspendedSessions, sent, owed, asking>>,
           NEW i \in Carried, NEW s \in Lineage, NEW x, x # "none", Placed(i, s), inputs[i][s] # "done", Takes(i, s, x),
           \A j \in Carried : reached'[j] = reached[j] \/ (j = i /\ x = "done" /\ reached'[j] = reached[j] \cup {s}),
           stranded \subseteq stranded', x \in QueuedStates /\ Fenced(s) => i \in stranded'
    PROVE  HandoffInv'
<1>0. HandoffTyped /\ LineInv /\ HeldInv /\ CustodyParts  BY DEF HandoffInv
<1>1. \A j \in Carried, t \in Lineage : inputs'[j][t] = IF j = i /\ t = s THEN x ELSE inputs[j][t]
  BY DEF Takes
<1>2. \A j \in Carried, t \in Lineage : inputs'[j][t] = "none" <=> inputs[j][t] = "none"
  BY <1>1 DEF Placed
<1>3. LineInv' /\ \A t : Fenced(t)' <=> Fenced(t)  BY <1>0, KeptLine
<1>4. SentHeld'
  <2>1. \A q \in SentRequests : Return(q) \in Carried  BY CarriedKinds
  <2> QED BY <1>0, <1>2, <2>1 DEF HeldInv, SentHeld
<1>5. OwedHeld'
  <2>1. \A r \in OwedRequests : Request(r) \in Carried  BY CarriedKinds
  <2> QED BY <1>0, <1>2, <2>1 DEF HeldInv, OwedHeld
<1>6. BriefsGiven'
  <2>1. \A t \in Lineage : t # 1 => Brief(t) \in Carried  BY CarriedKinds
  <2>2. \A t \in Lineage : handoffs[t].state # "none" => t # 1  BY <1>0, RowFrom DEF LineInv
  <2> QED BY <1>0, <1>2, <2>1, <2>2 DEF HeldInv, BriefsGiven
<1>7. OnePlace'  BY <1>0, <1>1 DEF HeldInv, OnePlace, Placed
<1>8. ReachedDone'
  <2> SUFFICES ASSUME NEW j \in Carried, NEW t \in reached'[j]  PROVE inputs'[j][t] = "done"
    BY DEF ReachedDone
  <2>1. reached[j] \subseteq Lineage  BY <1>0 DEF HandoffTyped, ReachedType
  <2>2. CASE t \in reached[j]
    <3>1. inputs[j][t] = "done" /\ t \in Lineage  BY <1>0, <2>1, <2>2 DEF HeldInv, ReachedDone
    <3> QED BY <3>1, <1>1
  <2>3. CASE t \notin reached[j]
    <3>1. j = i /\ x = "done" /\ t = s  BY <2>3
    <3> QED BY <3>1, <1>1
  <2> QED BY <2>2, <2>3
<1>9. SentCustody'  BY <1>0, KeptSent DEF CustodyParts
<1>10. OwedCustody'  BY <1>0, <1>2, KeptOwed DEF CustodyParts, HandoffTyped, HeldInv
<1>11. WaitingCustody'
  <2>1. \A j \in Carried, t \in Lineage :
           inputs'[j][t] \in QueuedStates => inputs[j][t] \in QueuedStates \/ ~Fenced(t) \/ j \in stranded'
    BY <1>1
  <2> QED BY <1>0, <2>1, KeptWaiting DEF CustodyParts
<1> QED BY <1>3, <1>4, <1>5, <1>6, <1>7, <1>8, <1>9, <1>10, <1>11 DEF HandoffInv, HeldInv, CustodyParts

\* A step that leaves the rows and the inputs alone.
LEMMA KeptTypes ==
    ASSUME HandoffTyped, UNCHANGED <<handoffs, suspendedSessions, shownInventory>>
    PROVE  HandoffsType' /\ SuspendedType' /\ ShownType'
BY DEF HandoffTyped, HandoffsType, SuspendedType, ShownType

LEMMA RequestsKeptTypes ==
    ASSUME HandoffTyped, UNCHANGED <<sent, owed, asking>>
    PROVE  SentType' /\ OwedType' /\ AskingType'
BY DEF HandoffTyped, SentType, OwedType, AskingType

-----------------------------------------------------------------------------
(* One lemma for each step of the line.                                       *)
LEMMA DispatchRequestStep ==
    ASSUME HandoffInv, NEW r \in OwedRequests, DispatchRequest(r)
    PROVE  HandoffInv'
<1> DEFINE i == owed[r].input[1]
           s == owed[r].input[2]
<1>0. HandoffTyped /\ HeldInv /\ CustodyParts  BY DEF HandoffInv
<1>1. owed[r].state = "open" /\ inputs[i][s] = "retained" /\ CanSend(s) /\ Dispatched(i, s)
  BY DEF DispatchRequest
<1>2. UNCHANGED <<handoffs, suspendedSessions, shownInventory, sent, owed, asking, reached, stranded>>
  BY DEF DispatchRequest, KeepHandoffs, KeepRequests, KeepHistory
<1>3. i \in Carried /\ s \in Lineage
  BY <1>0, <1>1 DEF HandoffTyped, OwedType, OwedRow, CustodyParts, OwedCustody, HeldInv, OwedHeld
<1>4. InputsType' /\ \E x \in {"queued", "steering"} : Takes(i, s, x)
  BY <1>0, <1>1, <1>3, DispatchTakes DEF HandoffTyped
<1>5. HandoffTyped'
  BY <1>0, <1>2, <1>4, KeptTypes, RequestsKeptTypes DEF HandoffTyped, ReachedType, StrandedType
<1>6. ~Fenced(s)  BY <1>1 DEF CanSend
<1>7. PICK x \in {"queued", "steering"} : Takes(i, s, x)  BY <1>4
<1> HIDE DEF i, s
<1>8. Placed(i, s) /\ inputs[i][s] # "done"  BY <1>1 DEF Placed
<1> QED BY <1>2, <1>3, <1>5, <1>6, <1>7, <1>8, TakesStep

LEMMA ClaimStep ==
    ASSUME HandoffInv, NEW i \in Carried, NEW s \in Lineage, Claim(i, s)
    PROVE  HandoffInv'
<1>0. HandoffTyped  BY DEF HandoffInv
<1>1. inputs[i][s] \in QueuedStates /\ SetInput(i, s, "running")  BY DEF Claim
<1>2. UNCHANGED <<handoffs, suspendedSessions, shownInventory, sent, owed, asking, reached, stranded>>
  BY DEF Claim, KeepHandoffs, KeepRequests, KeepHistory
<1>3. InputsType' /\ Takes(i, s, "running")  BY <1>0, <1>1, SetInputTakes DEF HandoffTyped, InputStates
<1>4. HandoffTyped'
  BY <1>0, <1>2, <1>3, KeptTypes, RequestsKeptTypes DEF HandoffTyped, ReachedType, StrandedType
<1>5. Placed(i, s) /\ inputs[i][s] # "done" /\ "running" \notin QueuedStates
  BY <1>1 DEF Placed, QueuedStates
<1> QED BY <1>2, <1>3, <1>4, <1>5, TakesStep

LEMMA RunComesBackStep ==
    ASSUME HandoffInv, NEW i \in Carried, NEW s \in Lineage, RunComesBack(i, s)
    PROVE  HandoffInv'
<1>0. HandoffTyped  BY DEF HandoffInv
<1>1. inputs[i][s] = "running" /\ Returning(i, s)  BY DEF RunComesBack
<1>2. PICK x \in QueuedStates : SetInput(i, s, x)  BY DEF RunComesBack
<1>3. UNCHANGED <<handoffs, suspendedSessions, shownInventory, sent, owed, asking, reached>>
  BY DEF RunComesBack, KeepHandoffs, KeepRequests
<1>4. x \in InputStates /\ x # "none"  BY DEF InputStates, QueuedStates
<1>5. InputsType' /\ Takes(i, s, x)  BY <1>0, <1>2, <1>4, SetInputTakes DEF HandoffTyped
<1>6. stranded \subseteq stranded' /\ (Fenced(s) => i \in stranded') /\ StrandedType'
  BY <1>0, <1>1, CarriedKinds DEF Returning, HandoffTyped, StrandedType
<1>7. HandoffTyped'
  BY <1>0, <1>3, <1>5, <1>6, KeptTypes, RequestsKeptTypes DEF HandoffTyped, ReachedType
<1>8. Placed(i, s) /\ inputs[i][s] # "done"  BY <1>1 DEF Placed
<1> QED BY <1>3, <1>4, <1>5, <1>6, <1>7, <1>8, TakesStep

LEMMA GotReached ==
    ASSUME HandoffTyped, NEW i \in Carried, NEW s \in Lineage, Got(i, s)
    PROVE  ReachedType' /\ \A j \in Carried : reached'[j] = IF j = i THEN reached[j] \cup {s} ELSE reached[j]
BY DEF Got, HandoffTyped, ReachedType

LEMMA RunEndsStep ==
    ASSUME HandoffInv, NEW i \in Carried, NEW s \in Lineage, RunEnds(i, s)
    PROVE  HandoffInv'
<1>0. HandoffTyped  BY DEF HandoffInv
<1>1. inputs[i][s] = "running" /\ SetInput(i, s, "done") /\ Got(i, s)  BY DEF RunEnds
<1>2. UNCHANGED <<handoffs, suspendedSessions, shownInventory, sent, owed, asking, stranded>>
  BY DEF RunEnds, KeepHandoffs, KeepRequests
<1>3. InputsType' /\ Takes(i, s, "done")  BY <1>0, <1>1, SetInputTakes DEF HandoffTyped, InputStates
<1>4. ReachedType' /\ \A j \in Carried : reached'[j] = IF j = i THEN reached[j] \cup {s} ELSE reached[j]
  BY <1>0, <1>1, GotReached
<1>5. HandoffTyped'
  BY <1>0, <1>2, <1>3, <1>4, KeptTypes, RequestsKeptTypes DEF HandoffTyped, StrandedType
<1>6. Placed(i, s) /\ inputs[i][s] # "done" /\ "done" \notin QueuedStates
  BY <1>1 DEF Placed, QueuedStates
<1>7. \A j \in Carried : reached'[j] = reached[j] \/ (j = i /\ "done" = "done" /\ reached'[j] = reached[j] \cup {s})
  BY <1>4
<1> QED BY <1>2, <1>3, <1>5, <1>6, <1>7, TakesStep

LEMMA SteeringSettlesStep ==
    ASSUME HandoffInv, NEW i \in Carried, NEW s \in Lineage, SteeringSettles(i, s)
    PROVE  HandoffInv'
<1>0. HandoffTyped  BY DEF HandoffInv
<1>1. inputs[i][s] = "steering"  BY DEF SteeringSettles, Steered
<1>2. UNCHANGED <<handoffs, suspendedSessions, shownInventory, sent, owed, asking, stranded>>
  BY DEF SteeringSettles, KeepHandoffs, KeepRequests
<1>3. Placed(i, s) /\ inputs[i][s] # "done"  BY <1>1 DEF Placed
<1>4. CASE SetInput(i, s, "done") /\ Got(i, s)
  <2>1. InputsType' /\ Takes(i, s, "done")  BY <1>0, <1>4, SetInputTakes DEF HandoffTyped, InputStates
  <2>2. ReachedType' /\ \A j \in Carried : reached'[j] = IF j = i THEN reached[j] \cup {s} ELSE reached[j]
    BY <1>0, <1>4, GotReached
  <2>3. HandoffTyped'
    BY <1>0, <1>2, <2>1, <2>2, KeptTypes, RequestsKeptTypes DEF HandoffTyped, StrandedType
  <2>4. \A j \in Carried : reached'[j] = reached[j] \/ (j = i /\ "done" = "done" /\ reached'[j] = reached[j] \cup {s})
    BY <2>2
  <2>5. "done" \notin QueuedStates  BY DEF QueuedStates
  <2> QED BY <1>2, <1>3, <2>1, <2>3, <2>4, <2>5, TakesStep
<1>5. CASE SetInput(i, s, "unsent") /\ UNCHANGED reached
  <2>1. InputsType' /\ Takes(i, s, "unsent")  BY <1>0, <1>5, SetInputTakes DEF HandoffTyped, InputStates
  <2>2. HandoffTyped'
    BY <1>0, <1>2, <1>5, <2>1, KeptTypes, RequestsKeptTypes DEF HandoffTyped, ReachedType, StrandedType
  <2>3. "unsent" \notin QueuedStates  BY DEF QueuedStates
  <2> QED BY <1>2, <1>3, <1>5, <2>1, <2>2, <2>3, TakesStep
<1> QED BY <1>4, <1>5 DEF SteeringSettles

\* The custody of requests after a step, by who holds them then.
LEMMA SentCustodyNext ==
    ASSUME \A q \in SentRequests : \A h :
              sent'[q].state \in {"open", "settled"} /\ h = sent'[q].holder /\ Fenced(h)' => <<"sent", q>> \in stranded'
    PROVE  SentCustody'
BY DEF SentCustody

LEMMA OwedCustodyNext ==
    ASSUME \A r \in OwedRequests : \A h, i : owed'[r].state = "open" /\ h = owed'[r].holder /\ i = owed'[r].input[1] =>
              /\ Fenced(h)' => Request(r) \in stranded'
              /\ owed'[r].input[2] = h
              /\ i \in {Request(r)} \cup {Brief(s) : s \in 2 .. h}
              /\ inputs'[i][h] # "none"
    PROVE  OwedCustody'
BY DEF OwedCustody

\* An input that had no place yet gets one.
LEMMA FreshTakes ==
    ASSUME HandoffTyped, HeldInv, NEW i \in Carried, NEW s \in Lineage, NEW x, x # "none", Takes(i, s, x),
           \A t \in Lineage : inputs[i][t] = "none", UNCHANGED reached
    PROVE  OnePlace' /\ ReachedDone'
<1>1. \A j \in Carried, t \in Lineage : inputs'[j][t] = IF j = i /\ t = s THEN x ELSE inputs[j][t]
  BY DEF Takes
<1>2. OnePlace'  BY <1>1 DEF HeldInv, OnePlace, Placed
<1>3. ReachedDone'
  <2> SUFFICES ASSUME NEW j \in Carried, NEW t \in reached[j]  PROVE inputs'[j][t] = "done"
    BY DEF ReachedDone
  <2>1. t \in Lineage /\ inputs[j][t] = "done"  BY DEF HeldInv, ReachedDone, HandoffTyped, ReachedType
  <2>2. j # i  BY <2>1
  <2> QED BY <1>1, <2>1, <2>2
<1> QED BY <1>2, <1>3

LEMMA CommitAskStep ==
    ASSUME HandoffInv, NEW q \in SentRequests, CommitAsk(q)
    PROVE  HandoffInv'
<1> DEFINE s == asking[<<"sent", q>>]
           row == [state |-> "open", holder |-> s]
<1>0. HandoffTyped /\ LineInv /\ HeldInv /\ CustodyParts  BY DEF HandoffInv
<1>1. s # NoSession /\ sent' = [sent EXCEPT ![q] = row] /\ asking' = [asking EXCEPT ![<<"sent", q>>] = NoSession]
  BY DEF CommitAsk
<1>2. stranded' = IF Fenced(s) THEN stranded \cup {<<"sent", q>>} ELSE stranded  BY DEF CommitAsk
<1>3. UNCHANGED <<handoffs, suspendedSessions, shownInventory, owed, inputs, reached>>
  BY DEF CommitAsk, KeepHandoffs
<1>4. s \in Lineage /\ sent[q].state = "none"
  BY <1>0, <1>1, CarriedKinds DEF HandoffTyped, AskingType, HeldInv, SentHeld
<1>5. row \in SentRow /\ row.state = "open" /\ row.holder = s  BY <1>4 DEF SentRow
<1> HIDE DEF s, row
<1>6. SentType' /\ \A p \in SentRequests : sent'[p] = IF p = q THEN row ELSE sent[p]
  BY <1>0, <1>1, <1>5 DEF HandoffTyped, SentType
<1>7. AskingType' /\ \A o \in Obligations : asking'[o] = IF o = <<"sent", q>> THEN NoSession ELSE asking[o]
  BY <1>0, <1>1 DEF HandoffTyped, AskingType
<1>8. StrandedType' /\ stranded \subseteq stranded' /\ (Fenced(s) => <<"sent", q>> \in stranded')
  BY <1>0, <1>2, CarriedKinds DEF HandoffTyped, StrandedType
<1>9. HandoffTyped'
  BY <1>0, <1>3, <1>6, <1>7, <1>8, KeptTypes DEF HandoffTyped, OwedType, InputsType, ReachedType
<1>10. LineInv' /\ \A t : Fenced(t)' <=> Fenced(t)  BY <1>0, <1>3, KeptLine
<1>11. SentHeld'
  <2>1. \A p \in SentRequests : <<"sent", p>> \in Obligations /\ (<<"sent", p>> = <<"sent", q>> <=> p = q)
    BY CarriedKinds
  <2>2. \A p \in SentRequests : asking'[<<"sent", p>>] = IF p = q THEN NoSession ELSE asking[<<"sent", p>>]
    BY <1>7, <2>1
  <2>3. q \in SentRequests  OBVIOUS
  <2> QED BY <1>0, <1>3, <1>4, <1>5, <1>6, <2>2, <2>3 DEF HeldInv, SentHeld
<1>12. OwedHeld'
  <2>1. \A r \in OwedRequests : Request(r) \in Obligations /\ Request(r) # <<"sent", q>>
    BY CarriedKinds
  <2> QED BY <1>0, <1>3, <1>7, <2>1 DEF HeldInv, OwedHeld
<1>13. BriefsGiven' /\ OnePlace' /\ ReachedDone'  BY <1>0, <1>3, KeptPlaces
<1>14. SentCustody'
  <2>1. \A p \in SentRequests : \A t : sent'[p].state \in {"open", "settled"} /\ t = sent'[p].holder /\ Fenced(t) => <<"sent", p>> \in stranded'
    BY <1>0, <1>5, <1>6, <1>8 DEF CustodyParts, SentCustody
  <2> QED BY <2>1, <1>10, SentCustodyNext
<1>15. OwedCustody'  BY <1>0, <1>3, <1>8, KeptOwed DEF CustodyParts, HandoffTyped, HeldInv
<1>16. WaitingCustody'  BY <1>0, <1>3, <1>8, KeptWaiting DEF CustodyParts
<1> QED BY <1>9, <1>10, <1>11, <1>12, <1>13, <1>14, <1>15, <1>16 DEF HandoffInv, HeldInv, CustodyParts


LEMMA SettleSentStep ==
    ASSUME HandoffInv, NEW q \in SentRequests, SettleSent(q)
    PROVE  HandoffInv'
<1> DEFINE row == [sent[q] EXCEPT !.state = "settled"]
<1>0. HandoffTyped /\ LineInv /\ HeldInv /\ CustodyParts  BY DEF HandoffInv
<1>1. sent[q].state = "open" /\ sent' = [sent EXCEPT ![q] = row]  BY DEF SettleSent
<1>2. UNCHANGED <<handoffs, suspendedSessions, shownInventory, owed, asking, inputs, reached, stranded>>
  BY DEF SettleSent, KeepHandoffs, KeepHistory
<1>3. row \in SentRow /\ row.state = "settled" /\ row.holder = sent[q].holder
  BY <1>0 DEF HandoffTyped, SentType, SentRow
<1> HIDE DEF row
<1>4. SentType' /\ \A p \in SentRequests : sent'[p] = IF p = q THEN row ELSE sent[p]
  BY <1>0, <1>1, <1>3 DEF HandoffTyped, SentType
<1>5. HandoffTyped'

    BY <1>0, <1>2, <1>4, KeptTypes DEF HandoffTyped, OwedType, AskingType, InputsType, ReachedType, StrandedType
<1>6. LineInv' /\ \A t : Fenced(t)' <=> Fenced(t)  BY <1>0, <1>2, KeptLine
<1>7. SentHeld'
  <2>1. sent[q].state = "open"  BY <1>1
  <2>2. \A p \in SentRequests : sent'[p].state = IF p = q THEN "settled" ELSE sent[p].state
    BY <1>3, <1>4
  <2>3. \A p \in SentRequests : sent'[p].holder = sent[p].holder  BY <1>3, <1>4
  <2>4. asking' = asking /\ inputs' = inputs  BY <1>2
  <2>5. SentHeld  BY <1>0 DEF HeldInv
  <2>6. ASSUME NEW p \in SentRequests
        PROVE  /\ sent'[p].state # "none" => sent'[p].holder \in Lineage
               /\ asking[<<"sent", p>>] # NoSession => sent'[p].state = "none"
               /\ sent'[p].state # "returned" => \A t \in Lineage : inputs[Return(p)][t] = "none"
    <3>1. /\ sent[p].state # "none" => sent[p].holder \in Lineage
          /\ asking[<<"sent", p>>] # NoSession => sent[p].state = "none"
          /\ sent[p].state # "returned" => \A t \in Lineage : inputs[Return(p)][t] = "none"
      BY <2>5 DEF SentHeld
    <3> QED BY <2>1, <2>2, <2>3, <3>1
  <2> QED BY <2>4, <2>6 DEF SentHeld
<1>8. OwedHeld'  BY <1>0, <1>2 DEF HeldInv, OwedHeld
<1>9. BriefsGiven' /\ OnePlace' /\ ReachedDone'  BY <1>0, <1>2, KeptPlaces
<1>10. SentCustody'
  <2>1. \A p \in SentRequests : \A t : sent'[p].state \in {"open", "settled"} /\ t = sent'[p].holder /\ Fenced(t) => <<"sent", p>> \in stranded'
    BY <1>0, <1>1, <1>2, <1>3, <1>4 DEF CustodyParts, SentCustody
  <2> QED BY <2>1, <1>6, SentCustodyNext
<1>11. OwedCustody'  BY <1>0, <1>2, KeptOwed DEF CustodyParts, HandoffTyped, HeldInv
<1>12. WaitingCustody'  BY <1>0, <1>2, KeptWaiting DEF CustodyParts
<1> QED BY <1>5, <1>6, <1>7, <1>8, <1>9, <1>10, <1>11, <1>12 DEF HandoffInv, HeldInv, CustodyParts

LEMMA DeliverReturnStep ==
    ASSUME HandoffInv, NEW q \in SentRequests, DeliverReturn(q)
    PROVE  HandoffInv'
<1> DEFINE row == [sent[q] EXCEPT !.state = "returned"]
           s == sent[q].holder
           i == Return(q)
<1>0. HandoffTyped /\ LineInv /\ HeldInv /\ CustodyParts  BY DEF HandoffInv
<1>1. sent[q].state = "settled" /\ CanSend(s) /\ sent' = [sent EXCEPT ![q] = row] /\ Dispatched(i, s)
  BY DEF DeliverReturn
<1>2. UNCHANGED <<handoffs, suspendedSessions, shownInventory, owed, asking, reached, stranded>>
  BY DEF DeliverReturn, KeepHandoffs, KeepHistory
<1>3. row \in SentRow /\ row.state = "returned" /\ row.holder = s
  BY <1>0 DEF HandoffTyped, SentType, SentRow
<1>4. i \in Carried /\ s \in Lineage /\ \A t \in Lineage : inputs[i][t] = "none"
  BY <1>0, <1>1, CarriedKinds DEF HeldInv, SentHeld
<1>5. InputsType' /\ \E x \in {"queued", "steering"} : Takes(i, s, x)
  BY <1>0, <1>1, <1>4, DispatchTakes DEF HandoffTyped
<1>6. PICK x \in {"queued", "steering"} : Takes(i, s, x)  BY <1>5
<1>7. ~Fenced(s)  BY <1>1 DEF CanSend
<1>8. /\ \A p \in SentRequests : Return(p) \in Carried /\ (Return(p) = i => p = q)
      /\ \A r \in OwedRequests : Request(r) \in Carried /\ Request(r) # i
      /\ \A t \in Lineage : t # 1 => Brief(t) \in Carried /\ Brief(t) # i
  BY CarriedKinds
<1> HIDE DEF row, s, i
<1>9. \A j \in Carried, t \in Lineage : inputs'[j][t] = IF j = i /\ t = s THEN x ELSE inputs[j][t]
  BY <1>6 DEF Takes
<1>10. SentType' /\ \A p \in SentRequests : sent'[p] = IF p = q THEN row ELSE sent[p]
  BY <1>0, <1>1, <1>3 DEF HandoffTyped, SentType
<1>11. HandoffTyped'

    BY <1>0, <1>2, <1>5, <1>10, KeptTypes DEF HandoffTyped, OwedType, AskingType, ReachedType, StrandedType
<1>12. LineInv' /\ \A t : Fenced(t)' <=> Fenced(t)  BY <1>0, <1>2, KeptLine
<1>13. SentHeld'
  <2>0. s = sent[q].holder  BY DEF s
  <2>1. sent[q].state = "settled"  BY <1>1
  <2>2. \A p \in SentRequests : sent'[p].state = IF p = q THEN "returned" ELSE sent[p].state
    BY <1>3, <1>10
  <2>3. \A p \in SentRequests : sent'[p].holder = sent[p].holder  BY <1>3, <1>10, <2>0
  <2>4. \A p \in SentRequests, t \in Lineage : p # q => inputs'[Return(p)][t] = inputs[Return(p)][t]
    BY <1>8, <1>9
  <2>5. asking' = asking  BY <1>2
  <2>6. SentHeld  BY <1>0 DEF HeldInv
  <2>7. ASSUME NEW p \in SentRequests
        PROVE  /\ sent'[p].state # "none" => sent'[p].holder \in Lineage
               /\ asking'[<<"sent", p>>] # NoSession => sent'[p].state = "none"
               /\ sent'[p].state # "returned" => \A t \in Lineage : inputs'[Return(p)][t] = "none"
    <3>1. /\ sent[p].state # "none" => sent[p].holder \in Lineage
          /\ asking[<<"sent", p>>] # NoSession => sent[p].state = "none"
          /\ sent[p].state # "returned" => \A t \in Lineage : inputs[Return(p)][t] = "none"
      BY <2>6 DEF SentHeld
    <3> QED BY <2>1, <2>2, <2>3, <2>4, <2>5, <3>1
  <2> QED BY <2>7 DEF SentHeld
<1>14. OwedHeld'  BY <1>0, <1>2, <1>8, <1>9 DEF HeldInv, OwedHeld
<1>15. BriefsGiven'
  <2>1. \A t \in Lineage : handoffs[t].state # "none" => t # 1  BY <1>0, RowFrom DEF LineInv
  <2> QED BY <1>0, <1>2, <1>8, <1>9, <2>1 DEF HeldInv, BriefsGiven
<1>16. OnePlace' /\ ReachedDone'  BY <1>0, <1>2, <1>4, <1>6, FreshTakes
<1>17. SentCustody'
  <2>1. \A p \in SentRequests : \A t : sent'[p].state \in {"open", "settled"} /\ t = sent'[p].holder /\ Fenced(t) => <<"sent", p>> \in stranded'
    BY <1>0, <1>2, <1>3, <1>10 DEF CustodyParts, SentCustody
  <2> QED BY <2>1, <1>12, SentCustodyNext
<1>18. OwedCustody'
  <2>1. \A j \in Carried, t \in Lineage : inputs'[j][t] = "none" => inputs[j][t] = "none"  BY <1>9
  <2> QED BY <1>0, <1>2, <2>1, KeptOwed DEF CustodyParts, HandoffTyped, HeldInv
<1>19. WaitingCustody'
  <2>1. \A j \in Carried, t \in Lineage :
           inputs'[j][t] \in QueuedStates => inputs[j][t] \in QueuedStates \/ ~Fenced(t) \/ j \in stranded'
    BY <1>7, <1>9
  <2> QED BY <1>0, <1>2, <2>1, KeptWaiting DEF CustodyParts
<1> QED BY <1>11, <1>12, <1>13, <1>14, <1>15, <1>16, <1>17, <1>18, <1>19 DEF HandoffInv, HeldInv, CustodyParts

LEMMA BeginAskStep ==
    ASSUME HandoffInv, NEW q \in SentRequests, NEW s \in Lineage, BeginAsk(q, s)
    PROVE  HandoffInv'
<1>0. HandoffTyped /\ LineInv /\ HeldInv /\ CustodyParts  BY DEF HandoffInv
<1>1. sent[q].state = "none" /\ asking' = [asking EXCEPT ![<<"sent", q>>] = s]  BY DEF BeginAsk
<1>2. UNCHANGED <<handoffs, suspendedSessions, shownInventory, sent, owed, inputs, reached, stranded>>
  BY DEF BeginAsk, KeepHandoffs, KeepHistory
<1>3. AskingType' /\ \A o \in Obligations : asking'[o] = IF o = <<"sent", q>> THEN s ELSE asking[o]
  BY <1>0, <1>1 DEF HandoffTyped, AskingType
<1>4. HandoffTyped'

    BY <1>0, <1>2, <1>3, KeptTypes DEF HandoffTyped, SentType, OwedType, InputsType, ReachedType, StrandedType
<1>5. LineInv' /\ \A t : Fenced(t)' <=> Fenced(t)  BY <1>0, <1>2, KeptLine
<1>6. SentHeld'
  <2>1. \A p \in SentRequests : <<"sent", p>> \in Obligations /\ (<<"sent", p>> = <<"sent", q>> <=> p = q)
    BY CarriedKinds
  <2>2. \A p \in SentRequests : asking'[<<"sent", p>>] = IF p = q THEN s ELSE asking[<<"sent", p>>]
    BY <1>3, <2>1
  <2> QED BY <1>0, <1>1, <1>2, <2>2 DEF HeldInv, SentHeld
<1>7. OwedHeld'
  <2>1. \A r \in OwedRequests : Request(r) \in Obligations /\ Request(r) # <<"sent", q>>
    BY CarriedKinds
  <2> QED BY <1>0, <1>2, <1>3, <2>1 DEF HeldInv, OwedHeld
<1>8. BriefsGiven' /\ OnePlace' /\ ReachedDone'  BY <1>0, <1>2, KeptPlaces
<1>9. SentCustody'  BY <1>0, <1>2, KeptSent DEF CustodyParts
<1>10. OwedCustody'  BY <1>0, <1>2, KeptOwed DEF CustodyParts, HandoffTyped, HeldInv
<1>11. WaitingCustody'  BY <1>0, <1>2, KeptWaiting DEF CustodyParts
<1> QED BY <1>4, <1>5, <1>6, <1>7, <1>8, <1>9, <1>10, <1>11 DEF HandoffInv, HeldInv, CustodyParts

LEMMA BeginAskOfStep ==
    ASSUME HandoffInv, NEW r \in OwedRequests, NEW s \in Lineage, BeginAskOf(r, s)
    PROVE  HandoffInv'
<1>0. HandoffTyped /\ LineInv /\ HeldInv /\ CustodyParts  BY DEF HandoffInv
<1>1. owed[r].state = "none" /\ asking' = [asking EXCEPT ![Request(r)] = s]  BY DEF BeginAskOf
<1>2. UNCHANGED <<handoffs, suspendedSessions, shownInventory, sent, owed, inputs, reached, stranded>>
  BY DEF BeginAskOf, KeepHandoffs, KeepHistory
<1>3. AskingType' /\ \A o \in Obligations : asking'[o] = IF o = Request(r) THEN s ELSE asking[o]
  BY <1>0, <1>1, CarriedKinds DEF HandoffTyped, AskingType
<1>4. HandoffTyped'

    BY <1>0, <1>2, <1>3, KeptTypes DEF HandoffTyped, SentType, OwedType, InputsType, ReachedType, StrandedType
<1>5. LineInv' /\ \A t : Fenced(t)' <=> Fenced(t)  BY <1>0, <1>2, KeptLine
<1>6. SentHeld'
  <2>1. \A p \in SentRequests : <<"sent", p>> \in Obligations /\ <<"sent", p>> # Request(r)
    <3>1. Request(r) \in Carried  BY CarriedKinds
    <3>2. \A p \in SentRequests : <<"sent", p>> \in Obligations  BY CarriedKinds
    <3>3. \A p \in SentRequests : <<"sent", p>> \notin Carried  BY CarriedKinds
    <3> QED BY <3>1, <3>2, <3>3
  <2> QED BY <1>0, <1>2, <1>3, <2>1 DEF HeldInv, SentHeld
<1>7. OwedHeld'
  <2>1. \A p \in OwedRequests : Request(p) \in Obligations /\ (Request(p) = Request(r) => p = r)
    BY CarriedKinds
  <2>2. \A p \in OwedRequests : p # r => asking'[Request(p)] = asking[Request(p)]  BY <1>3, <2>1
  <2> QED BY <1>0, <1>1, <1>2, <2>2 DEF HeldInv, OwedHeld
<1>8. BriefsGiven' /\ OnePlace' /\ ReachedDone'  BY <1>0, <1>2, KeptPlaces
<1>9. SentCustody'  BY <1>0, <1>2, KeptSent DEF CustodyParts
<1>10. OwedCustody'  BY <1>0, <1>2, KeptOwed DEF CustodyParts, HandoffTyped, HeldInv
<1>11. WaitingCustody'  BY <1>0, <1>2, KeptWaiting DEF CustodyParts
<1> QED BY <1>4, <1>5, <1>6, <1>7, <1>8, <1>9, <1>10, <1>11 DEF HandoffInv, HeldInv, CustodyParts

LEMMA CommitAskOfStep ==
    ASSUME HandoffInv, NEW r \in OwedRequests, CommitAskOf(r)
    PROVE  HandoffInv'
<1> DEFINE i == Request(r)
           s == asking[i]
           row == [state |-> "open", holder |-> s, input |-> <<i, s>>]
<1>0. HandoffTyped /\ LineInv /\ HeldInv /\ CustodyParts  BY DEF HandoffInv
<1>1. s # NoSession /\ owed' = [owed EXCEPT ![r] = row] /\ asking' = [asking EXCEPT ![i] = NoSession]
  BY DEF CommitAskOf
<1>2. SetInput(i, s, "retained") /\ Returning(i, s)  BY DEF CommitAskOf
<1>3. UNCHANGED <<handoffs, suspendedSessions, shownInventory, sent, reached>>
  BY DEF CommitAskOf, KeepHandoffs
<1>4. i \in Carried /\ i \in Obligations  BY CarriedKinds
<1>5. s \in Lineage /\ owed[r].state = "none"
  BY <1>0, <1>1, <1>4 DEF HandoffTyped, AskingType, HeldInv, OwedHeld
<1>6. \A t \in Lineage : inputs[i][t] = "none"  BY <1>0, <1>5 DEF HeldInv, OwedHeld
<1>7. row \in OwedRow /\ row.state = "open" /\ row.holder = s /\ row.input = <<i, s>>
  BY <1>4, <1>5 DEF OwedRow
<1>8. /\ \A p \in SentRequests : Return(p) \in Carried /\ Return(p) # i /\ <<"sent", p>> \in Obligations
      /\ \A p \in OwedRequests : Request(p) \in Carried /\ Request(p) \in Obligations /\ (Request(p) = i => p = r)
      /\ \A t \in Lineage : t # 1 => Brief(t) \in Carried /\ Brief(t) # i
  BY CarriedKinds
<1>9. \A p \in SentRequests : <<"sent", p>> # i
  <2>1. \A p \in SentRequests : <<"sent", p>> \notin Carried  BY CarriedKinds
  <2> QED BY <2>1, <1>4
<1>10. i = Request(r)  OBVIOUS
<1> HIDE DEF i, s, row
<1>11. InputsType' /\ Takes(i, s, "retained")
  BY <1>0, <1>2, <1>4, <1>5, SetInputTakes DEF HandoffTyped, InputStates
<1>12. \A j \in Carried, t \in Lineage : inputs'[j][t] = IF j = i /\ t = s THEN "retained" ELSE inputs[j][t]
  BY <1>11 DEF Takes
<1>13. OwedType' /\ \A p \in OwedRequests : owed'[p] = IF p = r THEN row ELSE owed[p]
  BY <1>0, <1>1, <1>7 DEF HandoffTyped, OwedType
<1>14. AskingType' /\ \A o \in Obligations : asking'[o] = IF o = i THEN NoSession ELSE asking[o]
  BY <1>0, <1>1, <1>4 DEF HandoffTyped, AskingType
<1>15. StrandedType' /\ stranded \subseteq stranded' /\ (Fenced(s) => i \in stranded')
  BY <1>0, <1>2, <1>4 DEF HandoffTyped, StrandedType, Returning
<1>16. HandoffTyped'
  BY <1>0, <1>3, <1>11, <1>13, <1>14, <1>15, KeptTypes DEF HandoffTyped, SentType, ReachedType
<1>17. LineInv' /\ \A t : Fenced(t)' <=> Fenced(t)  BY <1>0, <1>3, KeptLine
<1>18. SentHeld'
  <2>1. \A p \in SentRequests : asking'[<<"sent", p>>] = asking[<<"sent", p>>]  BY <1>8, <1>9, <1>14
  <2>2. \A p \in SentRequests, t \in Lineage : inputs'[Return(p)][t] = inputs[Return(p)][t]
    BY <1>8, <1>12
  <2> QED BY <1>0, <1>3, <2>1, <2>2 DEF HeldInv, SentHeld
<1>19. OwedHeld'
  <2>1. \A p \in OwedRequests : asking'[Request(p)] = IF p = r THEN NoSession ELSE asking[Request(p)]
    BY <1>8, <1>10, <1>14
  <2>2. \A p \in OwedRequests, t \in Lineage : p # r => inputs'[Request(p)][t] = inputs[Request(p)][t]
    BY <1>8, <1>12
  <2> QED BY <1>0, <1>5, <1>7, <1>13, <2>1, <2>2 DEF HeldInv, OwedHeld
<1>20. BriefsGiven'
  <2>1. \A t \in Lineage : handoffs[t].state # "none" => t # 1  BY <1>0, RowFrom DEF LineInv
  <2> QED BY <1>0, <1>3, <1>8, <1>12, <2>1 DEF HeldInv, BriefsGiven
<1>21. OnePlace' /\ ReachedDone'  BY <1>0, <1>3, <1>4, <1>5, <1>6, <1>11, FreshTakes
<1>22. SentCustody'  BY <1>0, <1>3, <1>15, KeptSent DEF CustodyParts
<1>23. OwedCustody'
  <2> SUFFICES ASSUME NEW p \in OwedRequests, NEW h, NEW j,
                      owed'[p].state = "open", h = owed'[p].holder, j = owed'[p].input[1]
               PROVE  /\ Fenced(h) => Request(p) \in stranded'
                      /\ owed'[p].input[2] = h
                      /\ j \in {Request(p)} \cup {Brief(t) : t \in 2 .. h}
                      /\ inputs'[j][h] # "none"
    BY <1>17, OwedCustodyNext
  <2>1. CASE p = r
    <3>1. owed'[p] = row /\ j = i /\ h = s  BY <1>7, <1>13, <2>1
    <3> QED BY <3>1, <2>1, <1>4, <1>5, <1>7, <1>10, <1>12, <1>15
  <2>2. CASE p # r
    <3>1. owed'[p] = owed[p]  BY <1>13, <2>2
    <3>2. h \in Lineage /\ j \in Carried
      BY <3>1, <1>0 DEF HeldInv, OwedHeld, HandoffTyped, OwedType, OwedRow
    <3>3. /\ Fenced(h) => Request(p) \in stranded
          /\ owed[p].input[2] = h
          /\ j \in {Request(p)} \cup {Brief(t) : t \in 2 .. h}
          /\ inputs[j][h] # "none"
      BY <3>1, <1>0 DEF CustodyParts, OwedCustody
    <3> QED BY <3>1, <3>2, <3>3, <1>12, <1>15
  <2> QED BY <2>1, <2>2
<1>24. WaitingCustody'
  <2>1. "retained" \notin QueuedStates  BY DEF QueuedStates
  <2>2. \A j \in Carried, t \in Lineage :
           inputs'[j][t] \in QueuedStates => inputs[j][t] \in QueuedStates \/ ~Fenced(t) \/ j \in stranded'
    BY <1>12, <2>1
  <2> QED BY <1>0, <1>3, <1>15, <2>2, KeptWaiting DEF CustodyParts
<1> QED BY <1>16, <1>17, <1>18, <1>19, <1>20, <1>21, <1>22, <1>23, <1>24 DEF HandoffInv, HeldInv, CustodyParts

\* An owed request is closed, and the input it names may be canceled with it.
LEMMA ClosedStep ==
    ASSUME HandoffInv, NEW r \in OwedRequests, owed[r].state = "open", NEW state \in {"answered", "canceled"},
           owed' = [owed EXCEPT ![r].state = state],
           UNCHANGED <<handoffs, suspendedSessions, shownInventory, sent, asking, reached, stranded>>,
           InputsType',
           \A j \in Carried, t \in Lineage : \/ inputs'[j][t] = inputs[j][t]
                                             \/ inputs[j][t] \in QueuedStates \cup {"retained"} /\ inputs'[j][t] = "canceled"
    PROVE  HandoffInv'
<1> DEFINE row == [owed[r] EXCEPT !.state = state]
<1>0. HandoffTyped /\ LineInv /\ HeldInv /\ CustodyParts  BY DEF HandoffInv
<1>1. row \in OwedRow /\ row.state = state /\ row.holder = owed[r].holder
  BY <1>0 DEF HandoffTyped, OwedType, OwedRow
<1>2. owed' = [owed EXCEPT ![r] = row]  OBVIOUS
<1> HIDE DEF row
<1>3. OwedType' /\ \A p \in OwedRequests : owed'[p] = IF p = r THEN row ELSE owed[p]
  BY <1>0, <1>1, <1>2 DEF HandoffTyped, OwedType
<1>4. HandoffTyped'
  BY <1>0, <1>3, KeptTypes DEF HandoffTyped, SentType, AskingType, ReachedType, StrandedType
<1>5. LineInv' /\ \A t : Fenced(t)' <=> Fenced(t)  BY <1>0, KeptLine
<1>6. \A j \in Carried, t \in Lineage : inputs'[j][t] = "none" <=> inputs[j][t] = "none"
  BY DEF QueuedStates
<1>7. SentHeld'
  <2>1. \A p \in SentRequests : Return(p) \in Carried  BY CarriedKinds
  <2> QED BY <1>0, <1>6, <2>1 DEF HeldInv, SentHeld
<1>8. OwedHeld'
  <2>1. \A p \in OwedRequests : Request(p) \in Carried  BY CarriedKinds
  <2>2. \A p \in OwedRequests : owed'[p].holder = owed[p].holder /\ (owed'[p].state = "none" <=> owed[p].state = "none")
    BY <1>1, <1>3
  <2> QED BY <1>0, <1>6, <2>1, <2>2 DEF HeldInv, OwedHeld
<1>9. BriefsGiven'
  <2>1. \A t \in Lineage : t # 1 => Brief(t) \in Carried  BY CarriedKinds
  <2>2. \A t \in Lineage : handoffs[t].state # "none" => t # 1  BY <1>0, RowFrom DEF LineInv
  <2> QED BY <1>0, <1>6, <2>1, <2>2 DEF HeldInv, BriefsGiven
<1>10. OnePlace'  BY <1>0 DEF HeldInv, OnePlace, Placed
<1>11. ReachedDone'
  <2> SUFFICES ASSUME NEW j \in Carried, NEW t \in reached[j]  PROVE inputs'[j][t] = "done"
    BY DEF ReachedDone
  <2>1. t \in Lineage /\ inputs[j][t] = "done"
    BY <1>0 DEF HeldInv, ReachedDone, HandoffTyped, ReachedType
  <2> QED BY <2>1 DEF QueuedStates
<1>12. SentCustody'  BY <1>0, KeptSent DEF CustodyParts
<1>13. OwedCustody'
  <2> SUFFICES ASSUME NEW p \in OwedRequests, NEW h, NEW j,
                      owed'[p].state = "open", h = owed'[p].holder, j = owed'[p].input[1]
               PROVE  /\ Fenced(h) => Request(p) \in stranded'
                      /\ owed'[p].input[2] = h
                      /\ j \in {Request(p)} \cup {Brief(t) : t \in 2 .. h}
                      /\ inputs'[j][h] # "none"
    BY <1>5, OwedCustodyNext
  <2>1. p # r  BY <1>1, <1>3
  <2>2. owed'[p] = owed[p]  BY <1>3, <2>1
  <2>3. h \in Lineage /\ j \in Carried
    BY <2>2, <1>0 DEF HeldInv, OwedHeld, HandoffTyped, OwedType, OwedRow
  <2>4. /\ Fenced(h) => Request(p) \in stranded
        /\ owed[p].input[2] = h
        /\ j \in {Request(p)} \cup {Brief(t) : t \in 2 .. h}
        /\ inputs[j][h] # "none"
    BY <2>2, <1>0 DEF CustodyParts, OwedCustody
  <2> QED BY <2>2, <2>3, <2>4, <1>6
<1>14. WaitingCustody'
  <2>1. \A j \in Carried, t \in Lineage : inputs'[j][t] \in QueuedStates => inputs[j][t] \in QueuedStates
    BY DEF QueuedStates
  <2> QED BY <1>0, <2>1, KeptWaiting DEF CustodyParts
<1> QED BY <1>4, <1>5, <1>7, <1>8, <1>9, <1>10, <1>11, <1>12, <1>13, <1>14 DEF HandoffInv, HeldInv, CustodyParts

LEMMA ReplyStep ==
    ASSUME HandoffInv, NEW r \in OwedRequests, Reply(r)
    PROVE  HandoffInv'
<1>1. owed[r].state = "open" /\ owed' = [owed EXCEPT ![r].state = "answered"]  BY DEF Reply
<1>2. UNCHANGED <<handoffs, suspendedSessions, shownInventory, sent, asking, inputs, reached, stranded>>
  BY DEF Reply, KeepHandoffs, KeepHistory
<1>3. InputsType'  BY <1>2 DEF HandoffInv, HandoffTyped, InputsType
<1> QED BY <1>1, <1>2, <1>3, ClosedStep

LEMMA CancelOwedStep ==
    ASSUME HandoffInv, NEW r \in OwedRequests, CancelOwed(r)
    PROVE  HandoffInv'
<1> DEFINE i == owed[r].input[1]
           s == owed[r].input[2]
<1>0. HandoffTyped /\ HeldInv /\ CustodyParts  BY DEF HandoffInv
<1>1. /\ owed[r].state = "open" /\ owed' = [owed EXCEPT ![r].state = "canceled"]
      /\ IF inputs[i][s] \in QueuedStates \cup {"retained"} THEN SetInput(i, s, "canceled") ELSE UNCHANGED inputs
  BY DEF CancelOwed
<1>2. UNCHANGED <<handoffs, suspendedSessions, shownInventory, sent, asking, reached, stranded>>
  BY DEF CancelOwed, KeepHandoffs, KeepHistory
<1>3. i \in Carried /\ s \in Lineage
  BY <1>0, <1>1 DEF HandoffTyped, OwedType, OwedRow, CustodyParts, OwedCustody, HeldInv, OwedHeld
<1>4. CASE inputs[i][s] \in QueuedStates \cup {"retained"}
  <2>1. InputsType' /\ Takes(i, s, "canceled")
    BY <1>0, <1>1, <1>3, <1>4, SetInputTakes DEF HandoffTyped, InputStates
  <2> QED BY <1>1, <1>2, <1>4, <2>1, ClosedStep DEF Takes
<1>5. CASE inputs[i][s] \notin QueuedStates \cup {"retained"}
  <2>1. InputsType' /\ inputs' = inputs  BY <1>0, <1>1, <1>5 DEF HandoffTyped, InputsType
  <2> QED BY <1>1, <1>2, <2>1, ClosedStep
<1> QED BY <1>4, <1>5

LEMMA ReadInventoryStep ==
    ASSUME HandoffInv, NEW s \in Lineage, ReadInventory(s)
    PROVE  HandoffInv'
<1>0. HandoffTyped /\ LineInv /\ HeldInv /\ CustodyParts  BY DEF HandoffInv
<1>1. Proposed(s) /\ shownInventory' = [shownInventory EXCEPT ![s] = Inventory(handoffs[s].from)]
  BY DEF ReadInventory
<1>2. UNCHANGED <<handoffs, suspendedSessions, inputs, sent, owed, asking, reached, stranded>>
  BY DEF ReadInventory, KeepRequests, KeepHistory
<1>3. handoffs[s].from \in Lineage  BY <1>0, <1>1, RowFrom DEF Proposed, LineInv
<1>4. Inventory(handoffs[s].from) \subseteq Obligations \X {"sent", "owed", "movable", "tried"}
  BY <1>3, InventoryHas
<1>5. ShownType'  BY <1>0, <1>1, <1>4 DEF HandoffTyped, ShownType
<1>6. HandoffTyped'

    BY <1>0, <1>2, <1>5, RequestsKeptTypes DEF HandoffTyped, HandoffsType, SuspendedType, InputsType, ReachedType, StrandedType
<1>7. LineInv'  BY <1>0, <1>2, KeptLine
<1>8. SentHeld' /\ OwedHeld'  BY <1>0, <1>2 DEF HeldInv, SentHeld, OwedHeld
<1>9. BriefsGiven' /\ OnePlace' /\ ReachedDone'  BY <1>0, <1>2, KeptPlaces
<1>10. SentCustody'  BY <1>0, <1>2, KeptSent DEF CustodyParts
<1>11. OwedCustody'  BY <1>0, <1>2, KeptOwed DEF CustodyParts, HandoffTyped, HeldInv
<1>12. WaitingCustody'  BY <1>0, <1>2, KeptWaiting DEF CustodyParts
<1> QED BY <1>6, <1>7, <1>8, <1>9, <1>10, <1>11, <1>12 DEF HandoffInv, HeldInv, CustodyParts

LEMMA RecoverUnsentStep ==
    ASSUME HandoffInv, NEW i \in Carried, NEW s \in Lineage, RecoverUnsentSteered(i, s)
    PROVE  HandoffInv'
<1>0. HandoffTyped /\ LineInv /\ HeldInv /\ CustodyParts  BY DEF HandoffInv
<1>1. HandoffTyped'  BY <1>0, UnsentTypes
<1>2. CASE /\ s \notin suspendedSessions /\ inputs[i][s] = "unsent" /\ Takes(i, s, "queued")
           /\ UNCHANGED <<handoffs, suspendedSessions, shownInventory, sent, owed, asking, reached, stranded>>
  <2>1. ~Fenced(s)  BY <1>0, <1>2 DEF LineInv, FencedRest
  <2>2. Placed(i, s) /\ inputs[i][s] # "done"  BY <1>2 DEF Placed
  <2> QED BY <1>1, <1>2, <2>1, <2>2, TakesStep
<1>3. ASSUME NEW end, UnsentRows(i, s, end)
      PROVE  HandoffInv'
  <2>1. UNCHANGED <<handoffs, suspendedSessions, shownInventory, sent, asking, reached, stranded>>
    BY <1>3 DEF UnsentRows
  <2>2. inputs[i][s] = "unsent" /\ end # s /\ end \notin suspendedSessions  BY <1>3 DEF UnsentRows
  <2>3. \A j \in Carried, t \in Lineage :
           inputs'[j][t] = IF j = i /\ t = s THEN "canceled" ELSE IF j = i /\ t = end THEN "queued" ELSE inputs[j][t]
    BY <1>3 DEF UnsentRows, Moves
  <2>4. \A r \in OwedRequests :
          IF owed[r].state = "open" /\ owed[r].holder = end /\ i = Request(r)
          THEN owed'[r].state = "open" /\ owed'[r].holder = end /\ owed'[r].input = <<i, end>>
          ELSE owed'[r] = owed[r]
    BY <1>3 DEF UnsentRows
  <2>5. LineInv' /\ \A t : Fenced(t)' <=> Fenced(t)  BY <1>0, <2>1, KeptLine
  <2>6. Placed(i, s) /\ \A t \in Lineage : t # s => ~Placed(i, t)
    BY <1>0, <2>2 DEF HeldInv, OnePlace, Placed
  <2>7. \A j \in Carried, t \in Lineage : inputs'[j][t] = "none" => inputs[j][t] = "none"  BY <2>3
  <2>8. \A j \in Carried : (\A t \in Lineage : inputs[j][t] = "none") => \A t \in Lineage : inputs'[j][t] = "none"
    BY <2>2, <2>3
  <2>9. SentHeld'
    <3>1. \A p \in SentRequests : Return(p) \in Carried  BY CarriedKinds
    <3> QED BY <1>0, <2>1, <2>8, <3>1 DEF HeldInv, SentHeld
  <2>10. OwedHeld'
    <3>1. \A p \in OwedRequests : Request(p) \in Carried  BY CarriedKinds
    <3>2. \A p \in OwedRequests : owed'[p].holder = owed[p].holder /\ owed'[p].state = owed[p].state
      BY <2>4
    <3> QED BY <1>0, <2>1, <2>8, <3>1, <3>2 DEF HeldInv, OwedHeld
  <2>11. BriefsGiven'
    <3>1. \A t \in Lineage : t # 1 => Brief(t) \in Carried  BY CarriedKinds
    <3>2. \A t \in Lineage : handoffs[t].state # "none" => t # 1  BY <1>0, RowFrom DEF LineInv
    <3> QED BY <1>0, <2>1, <2>7, <2>8, <3>1, <3>2 DEF HeldInv, BriefsGiven
  <2>12. OnePlace'
    <3> SUFFICES ASSUME NEW j \in Carried, NEW a \in Lineage, NEW b \in Lineage, Placed(j, a)', Placed(j, b)'
                 PROVE  a = b
      BY DEF OnePlace
    <3>1. CASE j = i
      <4>1. \A t \in Lineage : Placed(i, t)' => t = end  BY <2>3, <2>6 DEF Placed
      <4> QED BY <3>1, <4>1
    <3>2. CASE j # i  BY <1>0, <2>3, <3>2 DEF HeldInv, OnePlace, Placed
    <3> QED BY <3>1, <3>2
  <2>13. ReachedDone'
    <3> SUFFICES ASSUME NEW j \in Carried, NEW t \in reached[j]  PROVE inputs'[j][t] = "done"
      BY <2>1 DEF ReachedDone
    <3>1. t \in Lineage /\ inputs[j][t] = "done"
      BY <1>0 DEF HeldInv, ReachedDone, HandoffTyped, ReachedType
    <3>2. j # i  BY <3>1, <2>2, <2>6 DEF Placed
    <3> QED BY <3>1, <3>2, <2>3
  <2>14. SentCustody'  BY <1>0, <2>1, KeptSent DEF CustodyParts
  <2>15. OwedCustody'
    <3> SUFFICES ASSUME NEW p \in OwedRequests, NEW h, NEW j,
                        owed'[p].state = "open", h = owed'[p].holder, j = owed'[p].input[1]
                 PROVE  /\ Fenced(h) => Request(p) \in stranded'
                        /\ owed'[p].input[2] = h
                        /\ j \in {Request(p)} \cup {Brief(t) : t \in 2 .. h}
                        /\ inputs'[j][h] # "none"
      BY <2>5, OwedCustodyNext
    <3>1. owed[p].state = "open" /\ h = owed[p].holder  BY <2>4
    <3>2. h \in Lineage /\ owed[p].input[1] \in Carried
      BY <3>1, <1>0 DEF HeldInv, OwedHeld, HandoffTyped, OwedType, OwedRow
    <3>3. /\ Fenced(h) => Request(p) \in stranded
          /\ owed[p].input[2] = h
          /\ owed[p].input[1] \in {Request(p)} \cup {Brief(t) : t \in 2 .. h}
          /\ inputs[owed[p].input[1]][h] # "none"
      BY <3>1, <1>0 DEF CustodyParts, OwedCustody
    <3>4. CASE h = end /\ i = Request(p)
      <4>1. owed'[p].input = <<i, end>>  BY <2>4, <3>1, <3>4
      <4>2. j = i /\ owed'[p].input[2] = h  BY <4>1, <3>4
      <4>3. inputs'[i][h] = "queued"  BY <2>2, <2>3, <3>2, <3>4
      <4> QED BY <4>2, <4>3, <3>3, <3>4, <2>1
    <3>5. CASE ~(h = end /\ i = Request(p))
      <4>1. owed'[p] = owed[p]  BY <2>4, <3>1, <3>5
      <4> QED BY <4>1, <3>2, <3>3, <2>1, <2>7
    <3> QED BY <3>4, <3>5
  <2>16. WaitingCustody'
    <3>1. "canceled" \notin QueuedStates  BY DEF QueuedStates
    <3>2. \A t \in Lineage : t = end => ~Fenced(t)  BY <1>0, <2>2 DEF LineInv, FencedRest
    <3>3. \A j \in Carried, t \in Lineage :
             inputs'[j][t] \in QueuedStates => inputs[j][t] \in QueuedStates \/ ~Fenced(t) \/ j \in stranded'
      BY <2>3, <3>1, <3>2
    <3> QED BY <1>0, <2>1, <3>3, KeptWaiting DEF CustodyParts
  <2> QED BY <1>1, <2>5, <2>9, <2>10, <2>11, <2>12, <2>13, <2>14, <2>15, <2>16 DEF HandoffInv, HeldInv, CustodyParts
<1> QED BY <1>0, <1>2, <1>3, UnsentTypes

LEMMA FencedMeansNext ==
    \A s \in Lineage : Fenced(s)' <=> \/ handoffs'[s].state = "withdrawn"
                                      \/ \E next \in Lineage : handoffs'[next].from = s /\ handoffs'[next].state = "accepted"
BY DEF Fenced, IsSuperseded, Successors, WithdrawnSuccessor

\* A row that is new, or a recovery that takes more: the line stays in order, and nobody new is fenced.
LEMMA NewRowLine ==
    ASSUME LineInv, NEW s \in Lineage, NEW next \in Lineage, s < next,
           UnusedSession(next) \/ handoffs[next].state = "recovery",
           handoffs'[next].state \in {"proposed", "recovery"}, handoffs'[next].from = s,
           \A t \in Lineage : t # next => handoffs'[t] = handoffs[t], UNCHANGED suspendedSessions
    PROVE  LineInv' /\ \A t \in Lineage : Fenced(t)' <=> Fenced(t)
<1>1. handoffs[next].state \in {"none", "recovery"}  BY DEF UnusedSession, Exists
<1>2. \A t \in Lineage : Fenced(t)' <=> Fenced(t)
  <2> SUFFICES ASSUME NEW t \in Lineage  PROVE Fenced(t)' <=> Fenced(t)  OBVIOUS
  <2>1. handoffs'[t].state = "withdrawn" <=> handoffs[t].state = "withdrawn"  BY <1>1
  <2>2. \A x \in Lineage : handoffs'[x].from = t /\ handoffs'[x].state = "accepted" <=> handoffs[x].from = t /\ handoffs[x].state = "accepted"
    BY <1>1
  <2>3. Fenced(t) <=> \/ handoffs[t].state = "withdrawn"
                      \/ \E x \in Lineage : handoffs[x].from = t /\ handoffs[x].state = "accepted"
    BY FencedMeans
  <2>4. Fenced(t)' <=> \/ handoffs'[t].state = "withdrawn"
                       \/ \E x \in Lineage : handoffs'[x].from = t /\ handoffs'[x].state = "accepted"
    BY FencedMeansNext
  <2> QED BY <2>1, <2>2, <2>3, <2>4
<1>3. RowsRise'  BY DEF LineInv, RowsRise
<1>4. FencedRest'  BY <1>2 DEF LineInv, FencedRest
<1>5. LineIsPrefix'
  <2> SUFFICES ASSUME NEW a \in Lineage, NEW b \in Lineage, a < b, Exists(b)'  PROVE Exists(a)'
    BY DEF LineIsPrefix
  <2>1. a \in Nat /\ b \in Nat /\ next \in Nat /\ next > 1  BY LineageAssumption DEF Lineage
  <2>2. Exists(a)
    <3>1. CASE b # next  BY <3>1, <2>1 DEF LineInv, LineIsPrefix, Exists
    <3>2. CASE b = next /\ handoffs[next].state = "recovery"
      BY <3>2, <2>1 DEF LineInv, LineIsPrefix, Exists
    <3>3. CASE b = next /\ UnusedSession(next)
      <4>1. Exists(next - 1) /\ next - 1 \in Lineage
        <5>1. Exists(next - 1)  BY <3>3 DEF UnusedSession
        <5>2. next - 1 \in Lineage  BY <2>1, LineageAssumption DEF Lineage
        <5> QED BY <5>1, <5>2
      <4>2. a = next - 1 \/ a < next - 1  BY <3>3, <2>1
      <4> QED BY <4>1, <4>2 DEF LineInv, LineIsPrefix
    <3> QED BY <3>1, <3>2, <3>3
  <2>3. a = 1 \/ handoffs'[a].state # "none"  BY <2>2 DEF Exists
  <2> QED BY <2>3 DEF Exists
<1> QED BY <1>2, <1>3, <1>4, <1>5 DEF LineInv

LEMMA KeptSentHeld ==
    ASSUME SentHeld, UNCHANGED asking,
           \A q \in SentRequests : sent'[q].state = sent[q].state /\ (sent[q].state # "none" => sent'[q].holder \in Lineage),
           \A q \in SentRequests : (\A t \in Lineage : inputs[Return(q)][t] = "none") => \A t \in Lineage : inputs'[Return(q)][t] = "none"
    PROVE  SentHeld'
<1> SUFFICES ASSUME NEW q \in SentRequests
             PROVE  /\ sent'[q].state # "none" => sent'[q].holder \in Lineage
                    /\ asking[<<"sent", q>>] # NoSession => sent'[q].state = "none"
                    /\ sent'[q].state # "returned" => \A s \in Lineage : inputs'[Return(q)][s] = "none"
  BY DEF SentHeld
<1>1. /\ sent[q].state # "none" => sent[q].holder \in Lineage
      /\ asking[<<"sent", q>>] # NoSession => sent[q].state = "none"
      /\ sent[q].state # "returned" => \A s \in Lineage : inputs[Return(q)][s] = "none"
  BY DEF SentHeld
<1> QED BY <1>1

LEMMA ProposeStep ==
    ASSUME HandoffInv, NEW p \in Lineage, NEW next \in Lineage, NEW byOther \in BOOLEAN, ProposeHandoff(p, next, byOther)
    PROVE  HandoffInv'
<1> DEFINE i == Brief(next)
           row == [state |-> "proposed", from |-> p, byOther |-> byOther]
<1>0. HandoffTyped /\ LineInv /\ HeldInv /\ CustodyParts  BY DEF HandoffInv
<1>1. /\ Exists(p) /\ UnusedSession(next)
      /\ handoffs' = [handoffs EXCEPT ![next] = row]
      /\ shownInventory' = [shownInventory EXCEPT ![next] = Inventory(p)]
      /\ SetInput(i, next, "queued")
  BY DEF ProposeHandoff
<1>2. UNCHANGED <<suspendedSessions, sent, owed, asking, reached, stranded>>
  BY DEF ProposeHandoff, KeepRequests, KeepHistory
<1>3. ~Exists(next) /\ next # 1 /\ handoffs[next].state = "none"  BY <1>1 DEF UnusedSession, Exists
<1>4. p < next
  <2>1. ~(next < p) /\ next # p  BY <1>0, <1>1, <1>3 DEF LineInv, LineIsPrefix
  <2>2. next \in Nat /\ p \in Nat  BY LineageIsNat
  <2> QED BY <2>1, <2>2
<1>5. row \in HandoffRow /\ row.state = "proposed" /\ row.from = p  BY DEF HandoffRow
<1>6. i \in Carried /\ \A t \in Lineage : inputs[i][t] = "none"
  BY <1>0, <1>3, CarriedKinds DEF HeldInv, BriefsGiven
<1>7. /\ \A q \in SentRequests : Return(q) \in Carried /\ Return(q) # i
      /\ \A r \in OwedRequests : Request(r) \in Carried /\ Request(r) # i
      /\ \A t \in Lineage : t # 1 => Brief(t) \in Carried /\ (Brief(t) = i => t = next)
  BY CarriedKinds
<1>8. i = Brief(next)  OBVIOUS
<1> HIDE DEF i, row
<1>9. HandoffsType' /\ handoffs'[next] = row /\ \A t \in Lineage : t # next => handoffs'[t] = handoffs[t]
  BY <1>0, <1>1, <1>5 DEF HandoffTyped, HandoffsType
<1>10. LineInv' /\ \A t \in Lineage : Fenced(t)' <=> Fenced(t)
  BY <1>0, <1>1, <1>2, <1>4, <1>5, <1>9, NewRowLine
<1>11. InputsType' /\ Takes(i, next, "queued")
  BY <1>0, <1>1, <1>6, SetInputTakes DEF HandoffTyped, InputStates, QueuedStates
<1>12. \A j \in Carried, t \in Lineage : inputs'[j][t] = IF j = i /\ t = next THEN "queued" ELSE inputs[j][t]
  BY <1>11 DEF Takes
<1>13. ShownType'
  <2>1. Inventory(p) \subseteq Obligations \X {"sent", "owed", "movable", "tried"}  BY InventoryHas
  <2> QED BY <1>0, <1>1, <2>1 DEF HandoffTyped, ShownType
<1>14. HandoffTyped'

    BY <1>0, <1>2, <1>9, <1>11, <1>13, RequestsKeptTypes DEF HandoffTyped, SuspendedType, ReachedType, StrandedType
<1>15. SentHeld'
  <2>1. \A q \in SentRequests, t \in Lineage : inputs'[Return(q)][t] = inputs[Return(q)][t]
    BY <1>7, <1>12
  <2>2. SentHeld /\ \A q \in SentRequests : sent[q].state # "none" => sent[q].holder \in Lineage
    BY <1>0 DEF HeldInv, SentHeld
  <2>3. sent' = sent /\ asking' = asking  BY <1>2
  <2> QED BY <2>1, <2>2, <2>3, KeptSentHeld
<1>16. OwedHeld'
  <2>1. \A r \in OwedRequests, t \in Lineage : inputs'[Request(r)][t] = inputs[Request(r)][t]
    BY <1>7, <1>12
  <2> QED BY <1>0, <1>2, <2>1 DEF HeldInv, OwedHeld
<1>17. BriefsGiven'
  <2> SUFFICES ASSUME NEW t \in Lineage
               PROVE  /\ handoffs'[t].state \in {"proposed", "accepted", "withdrawn"} => inputs'[Brief(t)][t] # "none"
                      /\ t # 1 /\ handoffs'[t].state = "none" => \A x \in Lineage : inputs'[Brief(t)][x] = "none"
    BY DEF BriefsGiven
  <2>1. CASE t = next  BY <2>1, <1>5, <1>6, <1>8, <1>9, <1>12
  <2>2. CASE t # next
    <3>1. handoffs'[t] = handoffs[t] /\ (handoffs[t].state # "none" => t # 1)
      BY <2>2, <1>0, <1>9, RowFrom DEF LineInv
    <3>2. t # 1 => \A x \in Lineage : inputs'[Brief(t)][x] = inputs[Brief(t)][x]  BY <2>2, <1>7, <1>12
    <3> QED BY <3>1, <3>2, <1>0 DEF HeldInv, BriefsGiven
  <2> QED BY <2>1, <2>2
<1>18. OnePlace' /\ ReachedDone'  BY <1>0, <1>2, <1>6, <1>11, FreshTakes
<1>19. SentCustody'
  <2>1. \A q \in SentRequests : sent[q].state \in {"open", "settled"} => sent[q].holder \in Lineage
    BY <1>0 DEF HeldInv, SentHeld
  <2>2. \A q \in SentRequests : \A t : sent'[q].state \in {"open", "settled"} /\ t = sent'[q].holder /\ Fenced(t)' => <<"sent", q>> \in stranded'
    BY <2>1, <1>0, <1>2, <1>10 DEF CustodyParts, SentCustody
  <2> QED BY <2>2, SentCustodyNext
<1>20. OwedCustody'
  <2> SUFFICES ASSUME NEW r \in OwedRequests, NEW h, NEW j,
                      owed'[r].state = "open", h = owed'[r].holder, j = owed'[r].input[1]
               PROVE  /\ Fenced(h)' => Request(r) \in stranded'
                      /\ owed'[r].input[2] = h
                      /\ j \in {Request(r)} \cup {Brief(t) : t \in 2 .. h}
                      /\ inputs'[j][h] # "none"
    BY OwedCustodyNext
  <2>1. owed' = owed  BY <1>2
  <2>2. h \in Lineage /\ j \in Carried
    BY <2>1, <1>0 DEF HeldInv, OwedHeld, HandoffTyped, OwedType, OwedRow
  <2>3. /\ Fenced(h) => Request(r) \in stranded
        /\ owed[r].input[2] = h
        /\ j \in {Request(r)} \cup {Brief(t) : t \in 2 .. h}
        /\ inputs[j][h] # "none"
    BY <2>1, <1>0 DEF CustodyParts, OwedCustody
  <2> QED BY <2>1, <2>2, <2>3, <1>2, <1>10, <1>12
<1>21. WaitingCustody'
  <2>1. ~Fenced(next)
    <3>1. \A t \in Lineage : handoffs[t].from = next => handoffs[t].state = "none"
      BY <1>0, <1>3 DEF LineInv, RowsRise, LineIsPrefix, Exists
    <3> QED BY <3>1, <1>3, FencedMeans
  <2> QED BY <2>1, <1>0, <1>2, <1>10, <1>12 DEF CustodyParts, WaitingCustody
<1> QED BY <1>10, <1>14, <1>15, <1>16, <1>17, <1>18, <1>19, <1>20, <1>21 DEF HandoffInv, HeldInv, CustodyParts

\* What waits moves from one session to another.
LEMMA MovesPlaces ==
    ASSUME HandoffTyped, HeldInv, NEW a \in Lineage, NEW b, b # a, NEW Q \in SUBSET Carried,
           \A i \in Q : inputs[i][a] \in QueuedStates, Moves(Q, a, b), UNCHANGED reached
    PROVE  /\ OnePlace' /\ ReachedDone'
           /\ \A j \in Carried, t \in Lineage : inputs'[j][t] = "none" => inputs[j][t] = "none"
           /\ \A j \in Carried : (\A t \in Lineage : inputs[j][t] = "none") => \A t \in Lineage : inputs'[j][t] = "none"
<1>1. \A j \in Carried, t \in Lineage :
         inputs'[j][t] = IF j \in Q /\ t = a THEN "canceled" ELSE IF j \in Q /\ t = b THEN "queued" ELSE inputs[j][t]
  BY DEF Moves
<1>2. \A i \in Q : Placed(i, a) /\ inputs[i][a] # "done" /\ \A t \in Lineage : t # a => ~Placed(i, t)
  BY DEF HeldInv, OnePlace, Placed, QueuedStates
<1>3. OnePlace'
  <2> SUFFICES ASSUME NEW j \in Carried, NEW c \in Lineage, NEW d \in Lineage, Placed(j, c)', Placed(j, d)'
               PROVE  c = d
    BY DEF OnePlace
  <2>1. CASE j \in Q
    <3>1. \A t \in Lineage : Placed(j, t)' => t = b  BY <1>1, <1>2, <2>1 DEF Placed
    <3> QED BY <3>1
  <2>2. CASE j \notin Q  BY <1>1, <2>2 DEF HeldInv, OnePlace, Placed
  <2> QED BY <2>1, <2>2
<1>4. ReachedDone'
  <2> SUFFICES ASSUME NEW j \in Carried, NEW t \in reached[j]  PROVE inputs'[j][t] = "done"
    BY DEF ReachedDone
  <2>1. t \in Lineage /\ inputs[j][t] = "done"  BY DEF HeldInv, ReachedDone, HandoffTyped, ReachedType
  <2>2. j \notin Q  BY <2>1, <1>2 DEF Placed
  <2> QED BY <1>1, <2>1, <2>2
<1>5. \A j \in Carried, t \in Lineage : inputs'[j][t] = "none" => inputs[j][t] = "none"  BY <1>1
<1>6. \A j \in Carried : (\A t \in Lineage : inputs[j][t] = "none") => j \notin Q  BY <1>2 DEF Placed
<1>7. \A j \in Carried : (\A t \in Lineage : inputs[j][t] = "none") => \A t \in Lineage : inputs'[j][t] = "none"
  BY <1>1, <1>6
<1> QED BY <1>3, <1>4, <1>5, <1>7

\* A proposal that is answered: its successor is accepted, which fences the predecessor, or withdrawn.
LEMMA AnsweredLine ==
    ASSUME LineInv, NEW s \in Lineage, NEW f \in Lineage, handoffs[s].state = "proposed",
           handoffs'[s].from = handoffs[s].from,
           \/ handoffs'[s].state = "accepted" /\ f = handoffs[s].from
           \/ handoffs'[s].state = "withdrawn" /\ f = s,
           \A t \in Lineage : t # s => handoffs'[t] = handoffs[t],
           suspendedSessions' = suspendedSessions \cup {f}
    PROVE  LineInv' /\ \A t \in Lineage : Fenced(t)' <=> Fenced(t) \/ t = f
<1>1. \A t \in Lineage : Fenced(t)' <=> Fenced(t) \/ t = f
  <2> SUFFICES ASSUME NEW t \in Lineage  PROVE Fenced(t)' <=> Fenced(t) \/ t = f  OBVIOUS
  <2>1. Fenced(t) <=> \/ handoffs[t].state = "withdrawn"
                      \/ \E x \in Lineage : handoffs[x].from = t /\ handoffs[x].state = "accepted"
    BY FencedMeans
  <2>2. Fenced(t)' <=> \/ handoffs'[t].state = "withdrawn"
                       \/ \E x \in Lineage : handoffs'[x].from = t /\ handoffs'[x].state = "accepted"
    BY FencedMeansNext
  <2>3. CASE handoffs'[s].state = "accepted" /\ f = handoffs[s].from
    <3>1. handoffs'[t].state = "withdrawn" <=> handoffs[t].state = "withdrawn"  BY <2>3
    <3>2. \A x \in Lineage : handoffs'[x].from = t /\ handoffs'[x].state = "accepted" <=>
                                \/ handoffs[x].from = t /\ handoffs[x].state = "accepted"
                                \/ x = s /\ t = f
      BY <2>3
    <3> QED BY <2>1, <2>2, <3>1, <3>2
  <2>4. CASE handoffs'[s].state = "withdrawn" /\ f = s
    <3>1. handoffs'[t].state = "withdrawn" <=> handoffs[t].state = "withdrawn" \/ t = f  BY <2>4
    <3>2. \A x \in Lineage : handoffs'[x].from = t /\ handoffs'[x].state = "accepted" <=>
                                handoffs[x].from = t /\ handoffs[x].state = "accepted"
      BY <2>4
    <3> QED BY <2>1, <2>2, <3>1, <3>2
  <2> QED BY <2>3, <2>4
<1>2. \A t \in Lineage : handoffs'[t].from = handoffs[t].from /\ (handoffs'[t].state = "none" <=> handoffs[t].state = "none")
  OBVIOUS
<1>3. RowsRise' /\ LineIsPrefix'  BY <1>2 DEF LineInv, RowsRise, LineIsPrefix, Exists
<1>4. FencedRest'  BY <1>1 DEF LineInv, FencedRest
<1> QED BY <1>1, <1>3, <1>4 DEF LineInv

LEMMA WithdrawStep ==
    ASSUME HandoffInv, NEW s \in Lineage, WithdrawHandoff(s)
    PROVE  HandoffInv'
<1>0. HandoffTyped /\ LineInv /\ HeldInv /\ CustodyParts  BY DEF HandoffInv
<1>1. HandoffTyped' /\ WithdrawRows(s)  BY <1>0, WithdrawTypes
<1>2. UNCHANGED <<sent, owed, asking, inputs, reached>> /\ stranded \subseteq stranded'
  BY <1>1 DEF WithdrawRows
<1>3. LineInv' /\ \A t \in Lineage : Fenced(t)' <=> Fenced(t) \/ t = s
  BY <1>0, <1>1, AnsweredLine DEF WithdrawRows
<1>4. SentHeld' /\ OwedHeld'  BY <1>0, <1>2 DEF HeldInv, SentHeld, OwedHeld
<1>5. BriefsGiven'  BY <1>0, <1>1, <1>2 DEF HeldInv, BriefsGiven, WithdrawRows
<1>6. OnePlace' /\ ReachedDone'  BY <1>0, <1>2 DEF HeldInv, OnePlace, Placed, ReachedDone
<1>7. SentCustody'
  <2>1. \A q \in SentRequests : sent[q].state \in {"open", "settled"} => sent[q].holder \in Lineage
    BY <1>0 DEF HeldInv, SentHeld
  <2>2. \A q \in SentRequests : sent[q].state \in {"open", "settled"} /\ sent[q].holder = s => <<"sent", q>> \in stranded'
    BY <1>1 DEF WithdrawRows
  <2>3. \A q \in SentRequests : \A t : sent'[q].state \in {"open", "settled"} /\ t = sent'[q].holder /\ Fenced(t)' => <<"sent", q>> \in stranded'
    BY <2>1, <2>2, <1>0, <1>2, <1>3 DEF CustodyParts, SentCustody
  <2> QED BY <2>3, SentCustodyNext
<1>8. OwedCustody'
  <2> SUFFICES ASSUME NEW r \in OwedRequests, NEW h, NEW j,
                      owed'[r].state = "open", h = owed'[r].holder, j = owed'[r].input[1]
               PROVE  /\ Fenced(h)' => Request(r) \in stranded'
                      /\ owed'[r].input[2] = h
                      /\ j \in {Request(r)} \cup {Brief(t) : t \in 2 .. h}
                      /\ inputs'[j][h] # "none"
    BY OwedCustodyNext
  <2>1. owed' = owed /\ inputs' = inputs  BY <1>2
  <2>2. h \in Lineage  BY <2>1, <1>0 DEF HeldInv, OwedHeld
  <2>3. /\ Fenced(h) => Request(r) \in stranded
        /\ owed[r].input[2] = h
        /\ j \in {Request(r)} \cup {Brief(t) : t \in 2 .. h}
        /\ inputs[j][h] # "none"
    BY <2>1, <1>0 DEF CustodyParts, OwedCustody
  <2>4. h = s => Request(r) \in stranded'  BY <1>1, <2>1 DEF WithdrawRows
  <2> QED BY <2>1, <2>2, <2>3, <2>4, <1>2, <1>3
<1>9. WaitingCustody'
  <2>1. \A i \in Carried : inputs[i][s] \in QueuedStates => i \in stranded'  BY <1>1 DEF WithdrawRows
  <2> QED BY <2>1, <1>0, <1>2, <1>3 DEF CustodyParts, WaitingCustody
<1> QED BY <1>1, <1>3, <1>4, <1>5, <1>6, <1>7, <1>8, <1>9 DEF HandoffInv, HeldInv, CustodyParts

LEMMA AcceptStep ==
    ASSUME HandoffInv, NEW s \in Lineage, AcceptHandoff(s)
    PROVE  HandoffInv'
<1> DEFINE from == handoffs[s].from
           Q == {i \in Carried : inputs[i][from] \in QueuedStates}
<1>0. HandoffTyped /\ LineInv /\ HeldInv /\ CustodyParts  BY DEF HandoffInv
<1>1. HandoffTyped' /\ AcceptRows(s, from, Q)  BY <1>0, AcceptTypes DEF LineInv
<1>2. Q \in SUBSET Carried /\ \A i \in Carried : i \in Q <=> inputs[i][from] \in QueuedStates  OBVIOUS
<1> HIDE DEF from, Q
<1>3. from \in Lineage /\ from < s /\ from # s /\ s # 1 /\ s \in Nat
  <2>1. from = handoffs[s].from /\ handoffs[s].state = "proposed"  BY <1>1 DEF AcceptRows
  <2> QED BY <2>1, <1>0, RowFrom DEF LineInv
<1>4. /\ handoffs[s].state = "proposed" /\ handoffs[s].from = from
      /\ handoffs'[s].state = "accepted" /\ handoffs'[s].from = from
      /\ \A t \in Lineage : t # s => handoffs'[t] = handoffs[t]
      /\ suspendedSessions' = suspendedSessions \cup {from}
  BY <1>1 DEF AcceptRows
<1>5. Moves(Q, from, s) /\ UNCHANGED <<asking, reached>> /\ stranded \subseteq stranded'
  BY <1>1 DEF AcceptRows
<1>6. \A q \in SentRequests : sent'[q] = IF sent[q].state = "open" /\ sent[q].holder = from
                                         THEN [sent[q] EXCEPT !.holder = s] ELSE sent[q]
  BY <1>1 DEF AcceptRows
<1>7. \A q \in SentRequests : /\ sent'[q].state = sent[q].state
                              /\ sent'[q].holder = IF sent[q].state = "open" /\ sent[q].holder = from THEN s ELSE sent[q].holder
  <2>1. \A q \in SentRequests : sent[q] \in SentRow  BY <1>0 DEF HandoffTyped, SentType
  <2> QED BY <1>6, <2>1 DEF SentRow
<1>8. \A r \in OwedRequests :
          IF owed[r].state = "open" /\ owed[r].holder = from
          THEN /\ owed'[r].state = "open" /\ owed'[r].holder = s
               /\ owed'[r].input = IF owed[r].input[2] = from /\ owed[r].input[1] \in Q
                                   THEN <<owed[r].input[1], s>> ELSE <<Brief(s), s>>
          ELSE owed'[r] = owed[r]
  BY <1>1 DEF AcceptRows
<1>9. /\ \A q \in SentRequests : sent[q].state = "settled" /\ sent[q].holder = from => <<"sent", q>> \in stranded'
      /\ Fenced(s) => /\ \A q \in SentRequests : sent[q].state = "open" /\ sent[q].holder = from => <<"sent", q>> \in stranded'
                      /\ \A r \in OwedRequests : owed[r].state = "open" /\ owed[r].holder = from => Request(r) \in stranded'
                      /\ Q \subseteq stranded'
  BY <1>1 DEF AcceptRows
<1>10. LineInv' /\ \A t \in Lineage : Fenced(t)' <=> Fenced(t) \/ t = from
  BY <1>0, <1>3, <1>4, AnsweredLine
<1>11. /\ OnePlace' /\ ReachedDone'
       /\ \A j \in Carried, t \in Lineage : inputs'[j][t] = "none" => inputs[j][t] = "none"
       /\ \A j \in Carried : (\A t \in Lineage : inputs[j][t] = "none") => \A t \in Lineage : inputs'[j][t] = "none"
  BY <1>0, <1>2, <1>3, <1>5, MovesPlaces
<1>12. \A j \in Carried, t \in Lineage :
          inputs'[j][t] = IF j \in Q /\ t = from THEN "canceled" ELSE IF j \in Q /\ t = s THEN "queued" ELSE inputs[j][t]
  BY <1>5 DEF Moves
<1>13. /\ \A q \in SentRequests : Return(q) \in Carried
       /\ \A r \in OwedRequests : Request(r) \in Carried
       /\ \A t \in Lineage : t # 1 => Brief(t) \in Carried
  BY CarriedKinds
<1>14. SentHeld'
  <2>1. SentHeld  BY <1>0 DEF HeldInv
  <2>2. \A q \in SentRequests : sent'[q].state = sent[q].state /\ (sent[q].state # "none" => sent'[q].holder \in Lineage)
    BY <1>7, <2>1 DEF SentHeld
  <2>3. \A q \in SentRequests : (\A t \in Lineage : inputs[Return(q)][t] = "none") => \A t \in Lineage : inputs'[Return(q)][t] = "none"
    BY <1>11, <1>13
  <2> QED BY <1>5, <2>1, <2>2, <2>3, KeptSentHeld
<1>15. OwedHeld'
  <2>1. \A r \in OwedRequests : owed'[r].state = owed[r].state /\ owed'[r].holder \in {owed[r].holder, s}
    BY <1>8
  <2> QED BY <1>0, <1>5, <1>11, <1>13, <2>1 DEF HeldInv, OwedHeld
<1>16. BriefsGiven'
  <2> SUFFICES ASSUME NEW t \in Lineage
               PROVE  /\ handoffs'[t].state \in {"proposed", "accepted", "withdrawn"} => inputs'[Brief(t)][t] # "none"
                      /\ t # 1 /\ handoffs'[t].state = "none" => \A x \in Lineage : inputs'[Brief(t)][x] = "none"
    BY DEF BriefsGiven
  <2>1. handoffs'[t].state # "none" => t # 1  BY <1>4, <1>0, RowFrom DEF LineInv
  <2>2. /\ handoffs[t].state \in {"proposed", "accepted", "withdrawn"} => inputs[Brief(t)][t] # "none"
        /\ t # 1 /\ handoffs[t].state = "none" => \A x \in Lineage : inputs[Brief(t)][x] = "none"
    BY <1>0 DEF HeldInv, BriefsGiven
  <2>3. /\ handoffs'[t].state \in {"proposed", "accepted", "withdrawn"} => handoffs[t].state \in {"proposed", "accepted", "withdrawn"}
        /\ handoffs'[t].state = "none" => handoffs[t].state = "none"
    BY <1>4
  <2> QED BY <2>1, <2>2, <2>3, <1>11, <1>13
<1>17. SentCustody'
  <2>1. SentCustody /\ \A q \in SentRequests : sent[q].state \in {"open", "settled"} => sent[q].holder \in Lineage
    BY <1>0 DEF HeldInv, SentHeld, CustodyParts
  <2>2. ASSUME NEW q \in SentRequests, NEW t, sent'[q].state \in {"open", "settled"}, t = sent'[q].holder, Fenced(t)'
        PROVE  <<"sent", q>> \in stranded'
    <3>1. CASE sent[q].state = "open" /\ sent[q].holder = from
      <4>1. t = s  BY <2>2, <3>1, <1>7
      <4>2. Fenced(s)  BY <4>1, <2>2, <1>3, <1>10
      <4> QED BY <4>2, <3>1, <1>9
    <3>2. CASE ~(sent[q].state = "open" /\ sent[q].holder = from)
      <4>1. t = sent[q].holder /\ sent[q].state \in {"open", "settled"}  BY <2>2, <3>2, <1>7
      <4>2. t \in Lineage  BY <2>1, <4>1
      <4>3. CASE t = from  BY <4>1, <4>3, <3>2, <1>9
      <4>4. CASE t # from
        <5>1. Fenced(sent[q].holder)  BY <4>1, <4>2, <4>4, <2>2, <1>10
        <5> QED BY <5>1, <4>1, <2>1, <1>5 DEF SentCustody
      <4> QED BY <4>3, <4>4
    <3> QED BY <3>1, <3>2
  <2> QED BY <2>2, SentCustodyNext
<1>18. OwedCustody'
  <2> SUFFICES ASSUME NEW r \in OwedRequests, NEW h, NEW j,
                      owed'[r].state = "open", h = owed'[r].holder, j = owed'[r].input[1]
               PROVE  /\ Fenced(h)' => Request(r) \in stranded'
                      /\ owed'[r].input[2] = h
                      /\ j \in {Request(r)} \cup {Brief(t) : t \in 2 .. h}
                      /\ inputs'[j][h] # "none"
    BY OwedCustodyNext
  <2>1. owed[r].state = "open"  BY <1>8
  <2>2. owed[r].holder \in Lineage /\ owed[r].input[1] \in Carried
    BY <2>1, <1>0 DEF HeldInv, OwedHeld, HandoffTyped, OwedType, OwedRow
  <2>3. /\ Fenced(owed[r].holder) => Request(r) \in stranded
        /\ owed[r].input[2] = owed[r].holder
        /\ owed[r].input[1] \in {Request(r)} \cup {Brief(t) : t \in 2 .. owed[r].holder}
        /\ inputs[owed[r].input[1]][owed[r].holder] # "none"
    BY <2>1, <1>0 DEF CustodyParts, OwedCustody
  <2>4. CASE owed[r].holder = from
    <3>1. /\ h = s
          /\ owed'[r].input = IF owed[r].input[2] = from /\ owed[r].input[1] \in Q
                              THEN <<owed[r].input[1], s>> ELSE <<Brief(s), s>>
      BY <1>8, <2>1, <2>4
    <3>2. Fenced(s)' => Request(r) \in stranded'  BY <1>3, <1>9, <1>10, <2>1, <2>4
    <3>3. CASE owed[r].input[1] \in Q
      <4>1. j = owed[r].input[1] /\ owed'[r].input[2] = s  BY <3>1, <3>3, <2>3, <2>4
      <4>2. inputs'[j][s] = "queued"  BY <4>1, <3>3, <2>2, <1>3, <1>12
      <4>3. 2 .. from \subseteq 2 .. s  BY <1>3 DEF Lineage
      <4>4. j \in {Request(r)} \cup {Brief(t) : t \in 2 .. s}  BY <4>1, <4>3, <2>3, <2>4
      <4> QED BY <3>1, <3>2, <4>1, <4>2, <4>4
    <3>4. CASE owed[r].input[1] \notin Q
      <4>1. j = Brief(s) /\ owed'[r].input[2] = s  BY <3>1, <3>4
      <4>2. s \in 2 .. s  BY <1>3 DEF Lineage
      <4>3. inputs[Brief(s)][s] # "none"  BY <1>0, <1>4 DEF HeldInv, BriefsGiven
      <4>4. inputs'[Brief(s)][s] # "none"  BY <4>3, <1>3, <1>11, <1>13
      <4> QED BY <3>1, <3>2, <4>1, <4>2, <4>4
    <3> QED BY <3>3, <3>4
  <2>5. CASE owed[r].holder # from
    <3>1. owed'[r] = owed[r]  BY <1>8, <2>5
    <3>2. h = owed[r].holder /\ j = owed[r].input[1]  BY <3>1
    <3>3. Fenced(h)' => Request(r) \in stranded'  BY <3>2, <2>2, <2>3, <2>5, <1>5, <1>10
    <3>4. inputs'[j][h] # "none"  BY <3>2, <2>2, <2>3, <1>11
    <3> QED BY <3>1, <3>2, <3>3, <3>4, <2>3
  <2> QED BY <2>4, <2>5
<1>19. WaitingCustody'
  <2> SUFFICES ASSUME NEW i \in Carried, NEW t \in Lineage, inputs'[i][t] \in QueuedStates, Fenced(t)'
               PROVE  i \in stranded'
    BY DEF WaitingCustody
  <2>1. "canceled" \notin QueuedStates  BY DEF QueuedStates
  <2>2. t # from  BY <2>1, <1>2, <1>3, <1>12
  <2>3. Fenced(t)  BY <2>2, <1>10
  <2>4. CASE i \in Q /\ t = s  BY <2>3, <2>4, <1>9
  <2>5. CASE ~(i \in Q /\ t = s)
    <3>1. inputs[i][t] \in QueuedStates  BY <2>2, <2>5, <1>12
    <3> QED BY <3>1, <2>3, <1>0, <1>5 DEF CustodyParts, WaitingCustody
  <2> QED BY <2>4, <2>5
<1> QED BY <1>1, <1>10, <1>11, <1>14, <1>15, <1>16, <1>17, <1>18, <1>19 DEF HandoffInv, HeldInv, CustodyParts

LEMMA RecoveryStep ==
    ASSUME HandoffInv, NEW s \in Lineage, NEW next \in Lineage, RecoverElsewhere(s, next)
    PROVE  HandoffInv'
<1> DEFINE Q == {i \in Carried : inputs[i][s] \in QueuedStates}
<1>0. HandoffTyped /\ LineInv /\ HeldInv /\ CustodyParts  BY DEF HandoffInv
<1>1. HandoffTyped' /\ RecoveryRows(s, next, Q)  BY <1>0, RecoveryTypes
<1>2. Q \in SUBSET Carried /\ \A i \in Carried : i \in Q <=> inputs[i][s] \in QueuedStates  OBVIOUS
<1> HIDE DEF Q
<1>3. s < next /\ ~Fenced(next) /\ s # next /\ s \in Nat /\ next \in Nat
  BY <1>1, LineageIsNat DEF RecoveryRows
<1>4. /\ handoffs[next].state = "recovery" \/ UnusedSession(next)
      /\ handoffs'[next].state = "recovery" /\ handoffs'[next].from = s
      /\ \A t \in Lineage : t # next => handoffs'[t] = handoffs[t]
  BY <1>1 DEF RecoveryRows
<1>5. UNCHANGED <<suspendedSessions, sent, asking, reached, stranded>> /\ Moves(Q, s, next)
  BY <1>1 DEF RecoveryRows
<1>6. \A r \in OwedRequests :
          IF owed[r].state = "open" /\ owed[r].input[1] \in Q /\ owed[r].input[2] = s
          THEN owed'[r].state = "open" /\ owed'[r].holder = next /\ owed'[r].input = <<owed[r].input[1], next>>
          ELSE owed'[r] = owed[r]
  BY <1>1 DEF RecoveryRows
<1>7. LineInv' /\ \A t \in Lineage : Fenced(t)' <=> Fenced(t)  BY <1>0, <1>3, <1>4, <1>5, NewRowLine
<1>8. /\ OnePlace' /\ ReachedDone'
      /\ \A j \in Carried, t \in Lineage : inputs'[j][t] = "none" => inputs[j][t] = "none"
      /\ \A j \in Carried : (\A t \in Lineage : inputs[j][t] = "none") => \A t \in Lineage : inputs'[j][t] = "none"
  BY <1>0, <1>2, <1>3, <1>5, MovesPlaces
<1>9. \A j \in Carried, t \in Lineage :
         inputs'[j][t] = IF j \in Q /\ t = s THEN "canceled" ELSE IF j \in Q /\ t = next THEN "queued" ELSE inputs[j][t]
  BY <1>5 DEF Moves
<1>10. /\ \A q \in SentRequests : Return(q) \in Carried
       /\ \A r \in OwedRequests : Request(r) \in Carried
       /\ \A t \in Lineage : t # 1 => Brief(t) \in Carried
  BY CarriedKinds
<1>11. SentHeld'
  <2>1. SentHeld /\ sent' = sent /\ asking' = asking  BY <1>0, <1>5 DEF HeldInv
  <2>2. \A q \in SentRequests : sent[q].state # "none" => sent[q].holder \in Lineage
    BY <2>1 DEF SentHeld
  <2>3. \A q \in SentRequests : (\A t \in Lineage : inputs[Return(q)][t] = "none") => \A t \in Lineage : inputs'[Return(q)][t] = "none"
    BY <1>8, <1>10
  <2> QED BY <2>1, <2>2, <2>3, KeptSentHeld
<1>12. OwedHeld'
  <2>1. \A r \in OwedRequests : owed'[r].state = owed[r].state /\ owed'[r].holder \in {owed[r].holder, next}
    BY <1>6
  <2> QED BY <1>0, <1>5, <1>8, <1>10, <2>1 DEF HeldInv, OwedHeld
<1>13. BriefsGiven'
  <2> SUFFICES ASSUME NEW t \in Lineage
               PROVE  /\ handoffs'[t].state \in {"proposed", "accepted", "withdrawn"} => inputs'[Brief(t)][t] # "none"
                      /\ t # 1 /\ handoffs'[t].state = "none" => \A x \in Lineage : inputs'[Brief(t)][x] = "none"
    BY DEF BriefsGiven
  <2>1. CASE t = next  BY <2>1, <1>4
  <2>2. CASE t # next
    <3>1. handoffs'[t] = handoffs[t] /\ (handoffs[t].state # "none" => t # 1)
      BY <2>2, <1>0, <1>4, RowFrom DEF LineInv
    <3>2. /\ handoffs[t].state \in {"proposed", "accepted", "withdrawn"} => inputs[Brief(t)][t] # "none"
          /\ t # 1 /\ handoffs[t].state = "none" => \A x \in Lineage : inputs[Brief(t)][x] = "none"
      BY <1>0 DEF HeldInv, BriefsGiven
    <3> QED BY <3>1, <3>2, <1>8, <1>10
  <2> QED BY <2>1, <2>2
<1>14. SentCustody'
  <2>1. \A q \in SentRequests : sent[q].state \in {"open", "settled"} => sent[q].holder \in Lineage
    BY <1>0 DEF HeldInv, SentHeld
  <2>2. \A q \in SentRequests : \A t : sent'[q].state \in {"open", "settled"} /\ t = sent'[q].holder /\ Fenced(t)' => <<"sent", q>> \in stranded'
    BY <2>1, <1>0, <1>5, <1>7 DEF CustodyParts, SentCustody
  <2> QED BY <2>2, SentCustodyNext
<1>15. OwedCustody'
  <2> SUFFICES ASSUME NEW r \in OwedRequests, NEW h, NEW j,
                      owed'[r].state = "open", h = owed'[r].holder, j = owed'[r].input[1]
               PROVE  /\ Fenced(h)' => Request(r) \in stranded'
                      /\ owed'[r].input[2] = h
                      /\ j \in {Request(r)} \cup {Brief(t) : t \in 2 .. h}
                      /\ inputs'[j][h] # "none"
    BY OwedCustodyNext
  <2>1. owed[r].state = "open"  BY <1>6
  <2>2. owed[r].holder \in Lineage /\ owed[r].input[1] \in Carried
    BY <2>1, <1>0 DEF HeldInv, OwedHeld, HandoffTyped, OwedType, OwedRow
  <2>3. /\ Fenced(owed[r].holder) => Request(r) \in stranded
        /\ owed[r].input[2] = owed[r].holder
        /\ owed[r].input[1] \in {Request(r)} \cup {Brief(t) : t \in 2 .. owed[r].holder}
        /\ inputs[owed[r].input[1]][owed[r].holder] # "none"
    BY <2>1, <1>0 DEF CustodyParts, OwedCustody
  <2>4. CASE owed[r].input[1] \in Q /\ owed[r].input[2] = s
    <3>1. h = next /\ j = owed[r].input[1] /\ owed'[r].input[2] = h  BY <1>6, <2>1, <2>4
    <3>2. ~Fenced(h)'  BY <3>1, <1>3, <1>7
    <3>3. inputs'[j][h] = "queued"  BY <3>1, <2>2, <2>4, <1>3, <1>9
    <3>4. 2 .. s \subseteq 2 .. h  BY <3>1, <1>3
    <3>5. owed[r].holder = s  BY <2>3, <2>4
    <3> QED BY <3>1, <3>2, <3>3, <3>4, <3>5, <2>3
  <2>5. CASE ~(owed[r].input[1] \in Q /\ owed[r].input[2] = s)
    <3>1. owed'[r] = owed[r]  BY <1>6, <2>5
    <3>2. h = owed[r].holder /\ j = owed[r].input[1]  BY <3>1
    <3>3. Fenced(h)' => Request(r) \in stranded'  BY <3>2, <2>2, <2>3, <1>5, <1>7
    <3>4. inputs'[j][h] # "none"  BY <3>2, <2>2, <2>3, <1>8
    <3> QED BY <3>1, <3>2, <3>3, <3>4, <2>3
  <2> QED BY <2>4, <2>5
<1>16. WaitingCustody'
  <2> SUFFICES ASSUME NEW i \in Carried, NEW t \in Lineage, inputs'[i][t] \in QueuedStates, Fenced(t)'
               PROVE  i \in stranded'
    BY DEF WaitingCustody
  <2>1. "canceled" \notin QueuedStates  BY DEF QueuedStates
  <2>2. Fenced(t) /\ t # next  BY <1>3, <1>7
  <2>3. inputs[i][t] \in QueuedStates  BY <2>1, <2>2, <1>9
  <2> QED BY <2>2, <2>3, <1>0, <1>5 DEF CustodyParts, WaitingCustody
<1> QED BY <1>1, <1>7, <1>8, <1>11, <1>12, <1>13, <1>14, <1>15, <1>16 DEF HandoffInv, HeldInv, CustodyParts

-----------------------------------------------------------------------------
LEMMA HandoffInvInit ==
    ASSUME HandoffInit
    PROVE  HandoffInv
<1>1. HandoffTyped
  <2>1. /\ [state |-> "none", from |-> NoSession, byOther |-> FALSE] \in HandoffRow
        /\ [state |-> "none", holder |-> NoSession] \in SentRow
        /\ \A r \in OwedRequests : [state |-> "none", holder |-> NoSession, input |-> <<Request(r), NoSession>>] \in OwedRow
    BY CarriedKinds DEF HandoffRow, SentRow, OwedRow
  <2> QED BY <2>1 DEF HandoffInit, HandoffTyped, HandoffsType, SuspendedType, SentType, OwedType, AskingType,
         InputsType, ShownType, ReachedType, StrandedType, InputStates
<1>2. \A s \in Lineage : handoffs[s].state = "none" /\ handoffs[s].from = NoSession  BY DEF HandoffInit
<1>3. \A s \in Lineage : ~Fenced(s)  BY <1>2, FencedMeans
<1>4. LineInv
  <2>1. \A a, b \in Lineage : a < b => b # 1  BY DEF Lineage
  <2>2. LineIsPrefix  BY <1>2, <2>1 DEF LineIsPrefix, Exists
  <2>3. RowsRise /\ FencedRest  BY <1>2, <1>3 DEF RowsRise, FencedRest
  <2> QED BY <2>2, <2>3 DEF LineInv
<1>5. \A i \in Carried, s \in Lineage : inputs[i][s] = "none"  BY DEF HandoffInit
<1>6. \A q \in SentRequests : sent[q].state = "none" /\ asking[<<"sent", q>>] = NoSession
  BY CarriedKinds DEF HandoffInit
<1>7. \A r \in OwedRequests : owed[r].state = "none" /\ asking[Request(r)] = NoSession
  BY CarriedKinds DEF HandoffInit
<1>8. SentHeld
  <2>1. \A q \in SentRequests : Return(q) \in Carried  BY CarriedKinds
  <2> QED BY <2>1, <1>5, <1>6 DEF SentHeld
<1>9. OwedHeld
  <2>1. \A r \in OwedRequests : Request(r) \in Carried  BY CarriedKinds
  <2> QED BY <2>1, <1>5, <1>7 DEF OwedHeld
<1>10. BriefsGiven
  <2>1. \A t \in Lineage : t # 1 => Brief(t) \in Carried  BY CarriedKinds
  <2> QED BY <2>1, <1>2, <1>5 DEF BriefsGiven
<1>11. OnePlace  BY <1>5 DEF OnePlace, Placed
<1>12. ReachedDone  BY DEF HandoffInit, ReachedDone
<1>13. SentCustody /\ OwedCustody  BY <1>6, <1>7 DEF SentCustody, OwedCustody
<1>14. WaitingCustody  BY <1>3 DEF WaitingCustody
<1> QED BY <1>1, <1>4, <1>8, <1>9, <1>10, <1>11, <1>12, <1>13, <1>14 DEF HandoffInv, HeldInv, CustodyParts

LEMMA HandoffInvStep ==
    ASSUME HandoffInv, [HandoffNext]_handoffVars
    PROVE  HandoffInv'
<1>1. CASE UNCHANGED handoffVars
  <2>1. UNCHANGED <<handoffs, suspendedSessions, sent, owed, asking, inputs, shownInventory, reached, stranded>>
    BY <1>1 DEF handoffVars
  <2>2. HandoffTyped /\ LineInv /\ HeldInv /\ CustodyParts  BY DEF HandoffInv
  <2>3. HandoffTyped'
  
      BY <2>1, <2>2 DEF HandoffTyped, HandoffsType, SuspendedType, SentType, OwedType, AskingType, InputsType,
           ShownType, ReachedType, StrandedType
  <2>4. LineInv'  BY <2>1, <2>2, KeptLine
  <2>5. SentHeld' /\ OwedHeld'  BY <2>1, <2>2 DEF HeldInv, SentHeld, OwedHeld
  <2>6. BriefsGiven' /\ OnePlace' /\ ReachedDone'  BY <2>1, <2>2, KeptPlaces
  <2>7. SentCustody'  BY <2>1, <2>2, KeptSent DEF CustodyParts
  <2>8. OwedCustody'  BY <2>1, <2>2, KeptOwed DEF CustodyParts, HandoffTyped, HeldInv
  <2>9. WaitingCustody'  BY <2>1, <2>2, KeptWaiting DEF CustodyParts
  <2> QED BY <2>3, <2>4, <2>5, <2>6, <2>7, <2>8, <2>9 DEF HandoffInv, HeldInv, CustodyParts
<1>2. CASE \E q \in SentRequests : CommitAsk(q) \/ SettleSent(q) \/ DeliverReturn(q)
  BY <1>2, CommitAskStep, SettleSentStep, DeliverReturnStep
<1>3. CASE \E r \in OwedRequests : CommitAskOf(r) \/ DispatchRequest(r) \/ Reply(r) \/ CancelOwed(r)
  BY <1>3, CommitAskOfStep, DispatchRequestStep, ReplyStep, CancelOwedStep
<1>4. CASE \E s \in Lineage : (\E q \in SentRequests : BeginAsk(q, s)) \/ (\E r \in OwedRequests : BeginAskOf(r, s))
  BY <1>4, BeginAskStep, BeginAskOfStep
<1>5. CASE \E s \in Lineage, i \in Carried : \/ Claim(i, s) \/ RunComesBack(i, s) \/ RunEnds(i, s)
                                             \/ SteeringSettles(i, s) \/ RecoverUnsentSteered(i, s)
  BY <1>5, ClaimStep, RunComesBackStep, RunEndsStep, SteeringSettlesStep, RecoverUnsentStep
<1>6. CASE \E s, next \in Lineage : RecoverElsewhere(s, next) \/ \E byOther \in BOOLEAN : ProposeHandoff(s, next, byOther)
  BY <1>6, RecoveryStep, ProposeStep
<1>7. CASE \E s \in Lineage : ReadInventory(s) \/ AcceptHandoff(s) \/ WithdrawHandoff(s)
  BY <1>7, ReadInventoryStep, AcceptStep, WithdrawStep
<1> QED BY <1>1, <1>2, <1>3, <1>4, <1>5, <1>6, <1>7 DEF HandoffNext

LEMMA HandoffAlways == HandoffSpec => []HandoffInv
<1>1. HandoffInit => HandoffInv  BY HandoffInvInit
<1>2. HandoffInv /\ [HandoffNext]_handoffVars => HandoffInv'  BY HandoffInvStep
<1> QED BY <1>1, <1>2, PTL DEF HandoffSpec

\* An input that came to a provider is done at the session that ran it, and it has one place only.
LEMMA OneProvider ==
    ASSUME HandoffTyped, OnePlace, ReachedDone, NEW i \in Carried
    PROVE  Cardinality(reached[i]) <= 1
<1>1. \A s, t \in reached[i] : s = t
  BY DEF HandoffTyped, ReachedType, OnePlace, ReachedDone, Placed
<1>2. CASE reached[i] = {}  BY <1>2, FS_EmptySet
<1>3. CASE reached[i] # {}
  <2>1. PICK s \in reached[i] : TRUE  BY <1>3
  <2>2. reached[i] = {s}  BY <1>1, <2>1
  <2>3. Cardinality({s}) = 1  BY FS_Singleton
  <2> QED BY <2>2, <2>3
<1> QED BY <1>2, <1>3

LEMMA InvKeepsCustody ==
    ASSUME HandoffInv
    PROVE  HandoffTypeOK /\ HandoffKeepsCustody
<1>0. HandoffTyped /\ HeldInv /\ CustodyParts  BY DEF HandoffInv
<1>1. HandoffTypeOK  BY <1>0, HandoffTypedIsTypeOK
<1>2. \A i \in Carried : Cardinality(reached[i]) <= 1  BY <1>0, OneProvider DEF HeldInv
<1> QED BY <1>0, <1>1, <1>2 DEF HandoffKeepsCustody, CustodyParts, SentCustody, OwedCustody, WaitingCustody

(* The rows of a hand-off keep their types, for any line of sessions and any  *)
(* requests (session_handoffs, session_communication_requests,                *)
(* session_inputs).                                                           *)
THEOREM HandoffTypeCorrect == HandoffSpec => []HandoffTypeOK
<1>1. HandoffInv => HandoffTypeOK  BY InvKeepsCustody
<1> QED BY <1>1, HandoffAlways, PTL

(* No change of provider loses an obligation: an open request is with a       *)
(* session that may act on it and names an input of that session, what waits  *)
(* can be taken up, and no input comes to two providers; what crossed with a  *)
(* hand-off is known by name (acceptHandoff, withdrawHandoff,                 *)
(* transferSession, recoverUnsentSteeredInput).                               *)
THEOREM CustodyThroughHandoff == HandoffSpec => []HandoffKeepsCustody
<1>1. HandoffInv => HandoffKeepsCustody  BY InvKeepsCustody
<1> QED BY <1>1, HandoffAlways, PTL

===============================================================================
