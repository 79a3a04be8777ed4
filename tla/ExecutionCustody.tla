--------------------------- MODULE ExecutionCustody ---------------------------
(* Custody of the agents that outlive their coordinator (executions.ts): one  *)
(* session, its turns in the order of their ids, the row of each turn's       *)
(* execution, what its host really does, and the coordinators that follow one *)
(* another.  Taking runs back reads the ledger, awaits a probe of each host,  *)
(* and acts: at startup over all open runs, every minute over parked ones.    *)
(* A message in Slack may enter the conversation at once, in a child of the   *)
(* coordinator and past the claim's look at held executions.                  *)
EXTENDS Naturals

CONSTANTS
    CustodyRuns,        \* turn ids
    MaxCoordinators     \* bound: coordinators, one after the other

ASSUME CustodyAssumption == CustodyRuns \subseteq Nat /\ MaxCoordinators \in Nat \ {0}

VARIABLES
    runTurn,            \* the turn: kind, status, owner, and whether it was admitted to the provider
    execution,          \* the row of its execution
    agentHost,          \* what is there: nothing, a working agent, a record of its exit, or neither
    coordinator,        \* the living coordinator: its number, and whether it recovers or serves
    following,          \* runs with a task in the coordinator
    watched,            \* held executions it probes again and again
    sweep               \* claimAdoptableExecutions: its stage, what is left, what it read of the run it probes, what it took

custodyVars == <<runTurn, execution, agentHost, coordinator, following, watched, sweep>>

NoSweep == [stage |-> "off", left |-> {}, run |-> {}, seen |-> {}, adopted |-> {}, held |-> {}]
Unaccepted == [native |-> TRUE, status |-> "absent", owner |-> 0, entered |-> FALSE]
TurnRecord == [native : BOOLEAN, owner : 0..MaxCoordinators, entered : BOOLEAN,
               status : {"absent", "queued", "running", "parked", "ended", "interrupted"}]

CustodyTypeOK ==
    /\ runTurn \in [CustodyRuns -> TurnRecord]
    /\ execution \in [CustodyRuns -> {"none", "intended", "live", "exited", "released", "lost"}]
    /\ agentHost \in [CustodyRuns -> {"none", "working", "exited", "gone"}]
    /\ coordinator \in [id : 0..MaxCoordinators, phase : {"down", "recovering", "serving"}]
    /\ following \subseteq CustodyRuns /\ watched \subseteq CustodyRuns
    /\ sweep \in [stage : {"off", "superseded", "open", "probing"}, left : SUBSET CustodyRuns, run : SUBSET CustodyRuns,
                  seen : SUBSET TurnRecord, adopted : SUBSET CustodyRuns, held : SUBSET CustodyRuns]

CustodyInit ==
    /\ runTurn = [r \in CustodyRuns |-> Unaccepted]
    /\ execution = [r \in CustodyRuns |-> "none"] /\ agentHost = [r \in CustodyRuns |-> "none"]
    /\ coordinator = [id |-> 1, phase |-> "serving"]
    /\ following = {} /\ watched = {} /\ sweep = NoSweep

-----------------------------------------------------------------------------
TurnStatus(r) == runTurn[r].status
HeldOnceLaunched(r) == execution[r] \in {"live", "exited"}
Held(r) == execution[r] \in {"intended", "live", "exited"}
Mine(r) == TurnStatus(r) = "running" /\ runTurn[r].owner = coordinator.id
LaterEntered(r) == \E later \in CustodyRuns : later > r /\ runTurn[later].entered
LiveBeside(r) == \E other \in CustodyRuns \ {r} : TurnStatus(other) = "running"
Blocked(r) == \E older \in CustodyRuns : older < r /\ (TurnStatus(older) = "queued" \/ (TurnStatus(older) = "parked" /\ ~runTurn[older].native))
LiveParked == \E r \in CustodyRuns : TurnStatus(r) = "parked" /\ execution[r] = "live"
HeldParked == \E r \in CustodyRuns : TurnStatus(r) = "parked" /\ Held(r)

Serving == coordinator.phase = "serving"

AcceptInput(r) ==
    /\ Serving /\ TurnStatus(r) = "absent" /\ \A older \in CustodyRuns : older < r => TurnStatus(older) # "absent"
    /\ runTurn' = [runTurn EXCEPT ![r].status = "queued"]
    /\ UNCHANGED <<execution, agentHost, coordinator, following, watched, sweep>>

\* acquireSessionTurn: a Slack message starts at once or joins the queue.
AcquireSessionTurn(r) ==
    /\ Serving /\ TurnStatus(r) = "absent" /\ \A older \in CustodyRuns : older < r => TurnStatus(older) # "absent"
    /\ IF LiveBeside(r) \/ Blocked(r)
       THEN runTurn' = [runTurn EXCEPT ![r] = [@ EXCEPT !.native = FALSE, !.status = "queued"]] /\ UNCHANGED following
       ELSE /\ runTurn' = [runTurn EXCEPT ![r] = [Unaccepted EXCEPT !.native = FALSE, !.status = "running",
                                                                    !.owner = coordinator.id]]
            /\ following' = following \cup {r}
    /\ UNCHANGED <<execution, agentHost, coordinator, watched, sweep>>

ClaimQueuedTurn(r) ==
    /\ Serving /\ TurnStatus(r) = "queued" /\ following = {}
    /\ ~LiveBeside(r) /\ ~Blocked(r) /\ ~HeldParked
    /\ runTurn' = [runTurn EXCEPT ![r] = [@ EXCEPT !.status = "running", !.owner = coordinator.id, !.entered = FALSE]]
    /\ following' = following \cup {r}
    /\ UNCHANGED <<execution, agentHost, coordinator, watched, sweep>>

-----------------------------------------------------------------------------
\* The admission is retained first, then the intent of an execution, then the host is started.
AdmitToProvider(r) ==
    /\ r \in following /\ Mine(r) /\ ~runTurn[r].entered
    /\ runTurn' = [runTurn EXCEPT ![r].entered = TRUE]
    /\ UNCHANGED <<execution, agentHost, coordinator, following, watched, sweep>>

RetainExecutionIntent(r) ==
    /\ r \in following /\ Mine(r) /\ runTurn[r].entered /\ runTurn[r].native /\ execution[r] = "none"
    /\ execution' = [execution EXCEPT ![r] = "intended"]
    /\ UNCHANGED <<runTurn, agentHost, coordinator, following, watched, sweep>>

\* The supervisor starts the host; its answer may be lost.
Launch(r) ==
    /\ r \in following /\ Mine(r) /\ agentHost[r] = "none"
    /\ IF runTurn[r].native THEN execution[r] = "intended" ELSE runTurn[r].entered
    /\ agentHost' = [agentHost EXCEPT ![r] = "working"]
    /\ UNCHANGED <<runTurn, execution, coordinator, following, watched, sweep>>

RecordExecutionLaunched(r) ==
    /\ r \in following /\ execution[r] = "intended" /\ agentHost[r] # "none"
    /\ execution' = [execution EXCEPT ![r] = "live"]
    /\ UNCHANGED <<runTurn, agentHost, coordinator, following, watched, sweep>>

AgentStops(r) ==
    /\ agentHost[r] = "working"
    /\ \E left \in {"exited", "gone"} : agentHost' = [agentHost EXCEPT ![r] = left]
    /\ UNCHANGED <<runTurn, execution, coordinator, following, watched, sweep>>

RecordExecutionExited(r) ==
    /\ r \in following /\ execution[r] \in {"intended", "live"} /\ agentHost[r] = "exited"
    /\ execution' = [execution EXCEPT ![r] = "exited"]
    /\ UNCHANGED <<runTurn, agentHost, coordinator, following, watched, sweep>>

\* The outcome is the owner's, by the answer or by the record.
FinishRun(r) ==
    /\ r \in following /\ Mine(r) /\ agentHost[r] = "exited"
    /\ runTurn' = [runTurn EXCEPT ![r] = [@ EXCEPT !.status = "ended", !.owner = 0]]
    /\ UNCHANGED <<execution, agentHost, coordinator, following, watched, sweep>>

\* An error that says nothing of the agent parks an admitted turn and ends one that never got there.
RunFails(r) ==
    /\ r \in following /\ Mine(r)
    /\ agentHost[r] = "working" => runTurn[r].native
    /\ runTurn' = [runTurn EXCEPT ![r] = [@ EXCEPT !.status = IF runTurn[r].entered THEN "parked" ELSE "ended", !.owner = 0]]
    /\ UNCHANGED <<execution, agentHost, coordinator, following, watched, sweep>>

\* A host lets go of its record, or is found gone; one that works keeps it.
Releasable(r) == execution[r] \in {"live", "exited"} /\ agentHost[r] # "working"
ReleasedRows(S) == [r \in CustodyRuns |-> IF r \in S THEN "released" ELSE execution[r]]

UnwindRun(r) ==
    /\ r \in following /\ ~Mine(r)
    /\ following' = following \ {r}
    /\ \E S \in SUBSET {run \in {r} : Releasable(run)} : execution' = ReleasedRows(S)
    /\ UNCHANGED <<runTurn, agentHost, coordinator, watched, sweep>>

-----------------------------------------------------------------------------
Superseded == {r \in CustodyRuns : TurnStatus(r) = "parked" /\ Held(r) /\ LaterEntered(r)}

BeginSweep ==
    /\ sweep.stage = "off" /\ coordinator.phase # "down"
    /\ sweep' = [NoSweep EXCEPT !.stage = "superseded", !.left = Superseded]
    /\ UNCHANGED <<runTurn, execution, agentHost, coordinator, following, watched>>

\* An old host is stopped, or it cannot be; only one that has stopped settles its turn.
StopSuperseded(r) ==
    /\ sweep.stage = "superseded" /\ r \in sweep.left
    /\ sweep' = [sweep EXCEPT !.left = @ \ {r}]
    /\ \/ agentHost[r] = "working" /\ UNCHANGED <<runTurn, execution, agentHost>>
       \/ /\ agentHost' = [agentHost EXCEPT ![r] = IF @ = "working" THEN "exited" ELSE @]
          /\ runTurn' = IF TurnStatus(r) = "parked" /\ LaterEntered(r) THEN [runTurn EXCEPT ![r].status = "interrupted"] ELSE runTurn
          /\ execution' \in IF agentHost[r] \in {"none", "gone"} THEN {[execution EXCEPT ![r] = "lost"]}
                             ELSE {execution, ReleasedRows({r})}
    /\ UNCHANGED <<coordinator, following, watched>>

\* At startup also the runs that were still going; each is read again, and then its host is probed.
ReadOpen ==
    /\ sweep.stage = "superseded" /\ sweep.left = {}
    /\ sweep' = [NoSweep EXCEPT !.stage = "open",
                     !.left = {r \in CustodyRuns : /\ Held(r)
                                                   /\ \/ TurnStatus(r) = "running" /\ ~Serving
                                                      \/ TurnStatus(r) = "parked" /\ runTurn[r].native /\ ~LaterEntered(r)}]
    /\ UNCHANGED <<runTurn, execution, agentHost, coordinator, following, watched>>

BeginProbe(r) ==
    /\ sweep.stage = "open" /\ r \in sweep.left
    /\ sweep' = IF Mine(r) THEN [sweep EXCEPT !.left = @ \ {r}]
                ELSE [sweep EXCEPT !.stage = "probing", !.left = @ \ {r}, !.run = {r}, !.seen = {runTurn[r]}]
    /\ UNCHANGED <<runTurn, execution, agentHost, coordinator, following, watched>>

TakesBackParked(r, seen) ==
    IF seen.status = "parked"
    THEN TurnStatus(r) = "parked" /\ ~LiveBeside(r)
    ELSE TurnStatus(r) = "running" /\ runTurn[r].owner = seen.owner

\* claimExecutionTurn: what was read before the probe must still hold.
MayTakeBack(r, seen) ==
    IF seen.status = "parked"
    THEN TurnStatus(r) = "parked" /\ ~LaterEntered(r) /\ ~LiveBeside(r)
    ELSE TurnStatus(r) = "running" /\ runTurn[r].owner = seen.owner

TakenBack(r) == [runTurn EXCEPT ![r] = [@ EXCEPT !.status = "running", !.owner = coordinator.id]]

NextOpen(adopts, holds) ==
    sweep' = [sweep EXCEPT !.stage = "open", !.run = {}, !.seen = {}, !.adopted = @ \cup adopts, !.held = @ \cup holds]

EndProbe(r, seen) ==
    /\ sweep.stage = "probing" /\ r \in sweep.run /\ seen \in sweep.seen
    /\ \/ /\ agentHost[r] \in {"none", "gone"}
          /\ execution' = IF execution[r] \in {"intended", "live"} THEN [execution EXCEPT ![r] = "lost"] ELSE execution
          /\ NextOpen({}, {}) /\ UNCHANGED runTurn
       \/ /\ agentHost[r] \in {"working", "exited"} /\ ~MayTakeBack(r, seen)
          /\ NextOpen({}, {}) /\ UNCHANGED <<runTurn, execution>>
       \/ /\ agentHost[r] \in {"working", "exited"} /\ MayTakeBack(r, seen)
          /\ runTurn' = TakenBack(r) /\ NextOpen({r}, {})
          /\ execution' = IF execution[r] = "intended" /\ agentHost[r] = "working" THEN [execution EXCEPT ![r] = "live"]
                          ELSE execution
       \* It runs and does not answer, or speaks a protocol that nothing here can adopt and nobody probes again.
       \/ /\ agentHost[r] = "working" /\ MayTakeBack(r, seen)
          /\ runTurn' = TakenBack(r) /\ UNCHANGED execution
          /\ NextOpen({}, {r}) \/ NextOpen({}, {})
    /\ UNCHANGED <<agentHost, coordinator, following, watched>>

\* What was taken back goes to work.  At startup settled hosts are let go, and turns that nothing took back are
\* requeued if they were never admitted and interrupted otherwise.
EndSweep ==
    /\ sweep.stage = "open" /\ sweep.left = {}
    /\ sweep' = NoSweep
    /\ following' = following \cup sweep.adopted /\ watched' = watched \cup sweep.held
    /\ IF Serving THEN UNCHANGED <<runTurn, execution, coordinator>>
       ELSE /\ \E S \in SUBSET {r \in CustodyRuns : Releasable(r) /\ TurnStatus(r) # "running"} : execution' = ReleasedRows(S)
            /\ runTurn' = [r \in CustodyRuns |->
                   IF TurnStatus(r) # "running" \/ Mine(r) THEN runTurn[r]
                   ELSE [runTurn[r] EXCEPT !.status = IF runTurn[r].entered THEN "interrupted" ELSE "queued", !.owner = 0]]
            /\ coordinator' = [coordinator EXCEPT !.phase = "serving"]
    /\ UNCHANGED agentHost

\* watchHeldExecution: the probe of a held run that has answered, has exited, or is gone.
HeldAttempt(r) ==
    /\ r \in watched /\ agentHost[r] # "none"
    /\ watched' = watched \ {r}
    /\ IF agentHost[r] = "gone"
       THEN /\ execution' = IF execution[r] \in {"intended", "live"} THEN [execution EXCEPT ![r] = "lost"] ELSE execution
            /\ runTurn' = IF Mine(r) THEN [runTurn EXCEPT ![r] = [@ EXCEPT !.status = "interrupted", !.owner = 0]] ELSE runTurn
            /\ UNCHANGED following
       ELSE following' = following \cup {r} /\ UNCHANGED <<runTurn, execution>>
    /\ UNCHANGED <<agentHost, coordinator, sweep>>

CoordinatorDies ==
    /\ coordinator.phase # "down"
    /\ coordinator' = [coordinator EXCEPT !.phase = "down"]
    /\ following' = {} /\ watched' = {} /\ sweep' = NoSweep
    /\ agentHost' = [r \in CustodyRuns |-> IF agentHost[r] = "working" /\ ~runTurn[r].native THEN "gone" ELSE agentHost[r]]
    /\ UNCHANGED <<runTurn, execution>>

CoordinatorStarts ==
    /\ coordinator.phase = "down" /\ coordinator.id < MaxCoordinators
    /\ coordinator' = [id |-> coordinator.id + 1, phase |-> "recovering"]
    /\ sweep' = [NoSweep EXCEPT !.stage = "superseded", !.left = Superseded]
    /\ UNCHANGED <<runTurn, execution, agentHost, following, watched>>

CustodyNext ==
    \/ \E r \in CustodyRuns :
        \/ AcceptInput(r) \/ AcquireSessionTurn(r) \/ ClaimQueuedTurn(r)
        \/ AdmitToProvider(r) \/ RetainExecutionIntent(r) \/ Launch(r) \/ RecordExecutionLaunched(r)
        \/ AgentStops(r) \/ RecordExecutionExited(r) \/ FinishRun(r) \/ RunFails(r) \/ UnwindRun(r)
        \/ StopSuperseded(r) \/ BeginProbe(r) \/ HeldAttempt(r)
        \/ \E seen \in sweep.seen : EndProbe(r, seen)
    \/ BeginSweep \/ ReadOpen \/ EndSweep \/ CoordinatorDies \/ CoordinatorStarts

CustodySpec == CustodyInit /\ [][CustodyNext]_custodyVars

-----------------------------------------------------------------------------
(* An agent that may act is in someone's custody: its turn is running, or it  *)
(* is parked with an execution that the next sweep will find.  No death of a  *)
(* coordinator, probe or error makes the ledger take a working agent's turn   *)
(* for one that is over.                                                      *)
AgentHasCustody ==
    \A r \in CustodyRuns : agentHost[r] = "working" =>
        IF runTurn[r].native THEN TurnStatus(r) \in {"running", "parked"} /\ execution[r] \in {"intended", "live"}
        ELSE TurnStatus(r) = "running"

(* A run is not taken back into a conversation that a later turn has entered. *)
LatestEntrantRuns ==
    \A r \in CustodyRuns : TurnStatus(r) = "running" => ~LaterEntered(r)

(* "A queued later turn waits behind the parked host" (EXECUTION-HOST.md):    *)
(* no turn leaves the queue while another agent of its conversation may act.  *)
QueueWaitsForAgent ==
    [][\A r \in CustodyRuns : TurnStatus(r) = "queued" /\ TurnStatus(r)' = "running" =>
          \A other \in CustodyRuns \ {r} : agentHost[other] # "working"]_custodyVars

=============================================================================
