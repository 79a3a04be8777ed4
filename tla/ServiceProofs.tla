----------------------------- MODULE ServiceProofs -----------------------------
(* Proofs about the parts of the service together.  Only one of them moves in *)
(* a behaviour of ServiceParts, and whichever it is, each behaves as its own  *)
(* specification says; so what is proved of the parts holds of the service.   *)
EXTENDS ServiceParts, InputPartsProofs, WorkProofs, RequestsProofs

-----------------------------------------------------------------------------
(* Every step is one of a part, and the other parts rest.                     *)

LEMMA PartsStart ==
    PartsInit => /\ CaptureInit /\ SteeringInit /\ BreakerInit /\ CommandInit /\ CustodyInit /\ DeployInit
                 /\ WatchInit /\ PeerInit /\ ForkInit /\ SavedInit /\ HandoffInit
BY DEF PartsInit

LEMMA PartsMove ==
    [PartsNext]_partsVars =>
        /\ [CaptureNext]_captureVars
        /\ [SteeringNext]_steeringVars
        /\ [BreakerNext]_breakerVars
        /\ [CommandNext]_commandVars
        /\ [CustodyNext]_custodyVars
        /\ [DeployNext]_deployVars
        /\ [WatchNext]_watchVars
        /\ [PeerNext]_peerVars
        /\ [ForkNext]_forkVars
        /\ [SavedNext]_savedVars
        /\ [HandoffNext]_handoffVars
<1> SUFFICES ASSUME [PartsNext]_partsVars
             PROVE  /\ [CaptureNext]_captureVars
                    /\ [SteeringNext]_steeringVars
                    /\ [BreakerNext]_breakerVars
                    /\ [CommandNext]_commandVars
                    /\ [CustodyNext]_custodyVars
                    /\ [DeployNext]_deployVars
                    /\ [WatchNext]_watchVars
                    /\ [PeerNext]_peerVars
                    /\ [ForkNext]_forkVars
                    /\ [SavedNext]_savedVars
                    /\ [HandoffNext]_handoffVars
  OBVIOUS
<1>1. CASE UNCHANGED partsVars
  BY <1>1 DEF partsVars
<1>2. CASE PartsNext
  BY <1>2 DEF PartsNext
<1> QED
  BY <1>1, <1>2

(* Each part keeps to its own specification: the parts share no state.        *)
THEOREM PartsKeepTheirSpecs ==
    PartsSpec => /\ CaptureSpec /\ SteeringSpec /\ BreakerSpec /\ CommandSpec /\ CustodySpec /\ DeploySpec
                 /\ WatchSpec /\ PeerSpec /\ ForkSpec /\ SavedSpec /\ HandoffSpec
BY PartsStart, PartsMove, PTL
   DEF PartsSpec, CaptureSpec, SteeringSpec, BreakerSpec, CommandSpec, CustodySpec, DeploySpec, WatchSpec, PeerSpec,
       ForkSpec, SavedSpec, HandoffSpec

-----------------------------------------------------------------------------
(* Types that are parts of inductive invariants.                              *)

LEMMA InputTypes ==
    /\ CaptureInv => CaptureTypeOK
    /\ SteeringTypes => SteeringTypeOK
    /\ BreakerInv => BreakerTypeOK
    /\ CommandInv => CommandTypeOK
<1>1. CaptureInv => CaptureTypeOK
  BY DEF CaptureInv, CapturesType, RowStatus, CaptureRow, WorkerType, WorkerRow, GateType, GateRow, ClaimsType,
     CaptureTypeOK
<1>2. SteeringTypes => SteeringTypeOK
  BY DEF SteeringTypes, ControlRecord, MessageStates, SteeringTypeOK
<1>3. BreakerInv => BreakerTypeOK
  BY DEF BreakerInv
<1>4. CommandInv => CommandTypeOK
  BY DEF CommandInv, CommandTypes, CommandRowType, CommandStatus, CommandWorkerType, WorkerPhase, Decisions, CommandTypeOK
<1> QED
  BY <1>1, <1>2, <1>3, <1>4

LEMMA PeerTypes == AnswerInv => PeerTypeOK
BY DEF AnswerInv, PeerInv

(* The rows, processes and messages of every part keep their types.           *)
THEOREM PartsTypeCorrect == PartsSpec => []PartsTypeOK
<1>1. CaptureTypeOK /\ SteeringTypeOK /\ BreakerTypeOK /\ CommandTypeOK /\ CustodyTypeOK /\ DeployTypeOK /\ WatchTypeOK
         /\ PeerTypeOK /\ ForkTypeOK /\ SavedTypeOK /\ HandoffTypeOK => PartsTypeOK
  BY DEF PartsTypeOK
<1> QED
  BY <1>1, PartsKeepTheirSpecs, CapturesAreKept, HandOffInvariant, BreakerHolds, CommandsAgree, InputTypes, CustodyTypeCorrect,
     DeployTypeCorrect, WatchTypeCorrect, PeersAgree, PeerTypes, ForkTypeCorrect, ScheduleTypeCorrect, HandoffTypeCorrect, PTL

(* What the parts promise, of the service: no part needs another to move or   *)
(* to rest for it.                                                            *)
THEOREM PartsAreSafe ==
    PartsSpec => []/\ HeldWhileDelivering /\ DrainedIsQuiet /\ AcknowledgementWins /\ NeverReceivedTwice
                   /\ NoticeIsCurrent /\ ToldTheOutcome /\ AgentHasCustody /\ LatestEntrantRuns /\ AnsweredTruly
                   /\ ActivatesWhatIsDesired /\ RunningIsKnown /\ AnswerBeforeEndCounts /\ ForwardedIsHeld
                   /\ ReplyJoinsFork /\ HandoffKeepsCustody
BY PartsKeepTheirSpecs, CaptureStaysHeld, ClosedGateIsQuiet, AcknowledgementStands, InputsReachAgentOnce,
   NoticesAreCurrent, OutcomeIsTold, WorkingAgentsAreHeld, RunsAreLatest, AskedAreAnswered, DesiredIsActivated,
   CommandsAreKnown, TimelyAnswerCounts, RepliesAreHeld, ReplyReachesFork, CustodyThroughHandoff, PTL

(* And so of what no step of the service does.                                *)
THEOREM PartsMoveSafely ==
    PartsSpec => /\ CarriedOutInOrder /\ QueueWaitsForAgent /\ WatchEndsOnce /\ RetriedFromDeadOwner
                 /\ EndedStaysEnded /\ OneFiringAhead
BY PartsKeepTheirSpecs, InOrderAlways, QueueWaits, WatchesEndOnce, RetriesAfterDeath, EndedScheduleIsFinal,
   PassLeavesOneAhead

=============================================================================
