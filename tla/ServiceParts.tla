----------------------------- MODULE ServiceParts -----------------------------
(* The parts of the service that stand beside the turn ledger, its claim pump *)
(* and the runners.  They share no state, so each is looked at alone: "part"  *)
(* is the one that moves, and the others rest where they began.               *)
EXTENDS CaptureQueue, Steering, RetryBreaker, HumanCommands, ExecutionCustody, Deployment, Watches,
    PeerRequests, ForkRequests, SavedSchedules, SessionHandoff

VARIABLE part

partsVars == <<part, captureVars, steeringVars, breakerVars, commandVars, custodyVars, deployVars, watchVars, peerVars, forkVars, savedVars,
    handoffVars>>

PartsInit ==
    /\ part \in {"captures", "steering", "breaker", "commands", "custody", "deployment", "watches", "peers", "forks",
             "schedules", "handoff"}
    /\ CaptureInit /\ SteeringInit /\ BreakerInit /\ CommandInit /\ CustodyInit /\ DeployInit /\ HandoffInit
    /\ WatchInit /\ (part # "watches" => watchedKind = "file")
    /\ PeerInit /\ (part # "peers" => ~asked.work /\ ~asked.fresh /\ ~reply.files)
    /\ ForkInit /\ (part # "forks" => forkProvider = "codex")
    /\ SavedInit /\ (part # "schedules" => firing = <<Booked(0, 2, NoInstant)>>)
    /\ part # "commands" => commandKind = CHOOSE kinds \in CommandStreams : TRUE

PartsNext ==
    \/ /\ part = "captures" /\ CaptureNext
       /\ UNCHANGED <<part, steeringVars, breakerVars, commandVars, custodyVars, deployVars, watchVars, peerVars, forkVars, savedVars, handoffVars>>
    \/ /\ part = "steering" /\ SteeringNext
       /\ UNCHANGED <<part, captureVars, breakerVars, commandVars, custodyVars, deployVars, watchVars, peerVars, forkVars, savedVars, handoffVars>>
    \/ /\ part = "breaker" /\ BreakerNext
       /\ UNCHANGED <<part, captureVars, steeringVars, commandVars, custodyVars, deployVars, watchVars, peerVars, forkVars, savedVars, handoffVars>>
    \/ /\ part = "commands" /\ CommandNext
       /\ UNCHANGED <<part, captureVars, steeringVars, breakerVars, custodyVars, deployVars, watchVars, peerVars, forkVars, savedVars, handoffVars>>
    \/ /\ part = "custody" /\ CustodyNext
       /\ UNCHANGED <<part, captureVars, steeringVars, breakerVars, commandVars, deployVars, watchVars, peerVars, forkVars, savedVars, handoffVars>>
    \/ /\ part = "deployment" /\ DeployNext
       /\ UNCHANGED <<part, captureVars, steeringVars, breakerVars, commandVars, custodyVars, watchVars, peerVars, forkVars, savedVars, handoffVars>>
    \/ /\ part = "watches" /\ WatchNext
       /\ UNCHANGED <<part, captureVars, steeringVars, breakerVars, commandVars, custodyVars, deployVars, peerVars, forkVars, savedVars, handoffVars>>
    \/ /\ part = "peers" /\ PeerNext
       /\ UNCHANGED <<part, captureVars, steeringVars, breakerVars, commandVars, custodyVars, deployVars, watchVars, forkVars, savedVars, handoffVars>>
    \/ /\ part = "forks" /\ ForkNext
       /\ UNCHANGED <<part, captureVars, steeringVars, breakerVars, commandVars, custodyVars, deployVars, watchVars, peerVars, savedVars, handoffVars>>
    \/ /\ part = "schedules" /\ SavedNext
       /\ UNCHANGED <<part, captureVars, steeringVars, breakerVars, commandVars, custodyVars, deployVars, watchVars, peerVars, forkVars, handoffVars>>
    \/ /\ part = "handoff" /\ HandoffNext
       /\ UNCHANGED <<part, captureVars, steeringVars, breakerVars, commandVars, custodyVars, deployVars, watchVars, peerVars, forkVars, savedVars>>

PartsSpec == PartsInit /\ [][PartsNext]_partsVars

(* The rows, processes and messages of the part that moves keep their types;  *)
(* those of the others are as they began.                                     *)
PartsTypeOK ==
    /\ part = "captures" => CaptureTypeOK
    /\ part = "steering" => SteeringTypeOK
    /\ part = "breaker" => BreakerTypeOK
    /\ part = "commands" => CommandTypeOK
    /\ part = "custody" => CustodyTypeOK
    /\ part = "deployment" => DeployTypeOK
    /\ part = "watches" => WatchTypeOK
    /\ part = "peers" => PeerTypeOK
    /\ part = "forks" => ForkTypeOK
    /\ part = "schedules" => SavedTypeOK
    /\ part = "handoff" => HandoffTypeOK

=============================================================================
