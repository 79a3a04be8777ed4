----------------------------- MODULE WorkProofs -------------------------------
(* Proofs about the processes a coordinator looks after and the work it finds *)
(* for itself: the custody of the agents that run its turns, its deployment,  *)
(* its watches and its saved schedules, for every value of their constants.   *)
EXTENDS ExecutionCustody, Deployment, Watches, SavedSchedules, FiniteSetTheorems, WellFoundedInduction, TLAPS

-----------------------------------------------------------------------------
(* Proofs about the custody of agents: a working agent is held by a run or by *)
(* the custody of its turn, the latest input of a conversation is the one     *)
(* that runs, and the queue waits for an agent of an earlier turn, for every  *)
(* set of runs and any number of coordinators.                                *)

AgentWorks(r) == agentHost[r] = "working"

\* One turn runs, and none ran before an older one in line; turns are accepted in
\* the order of their ids.
OneRuns == \A r, q \in CustodyRuns : TurnStatus(r) = "running" /\ TurnStatus(q) = "running" => r = q
AcceptedInOrder ==
    \A r, later \in CustodyRuns : r < later /\ TurnStatus(r) = "absent" => TurnStatus(later) = "absent"
RunsInOrder ==
    \A older, r \in CustodyRuns : older < r /\ TurnStatus(r) = "running" => TurnStatus(older) # "queued"

\* What is still to run has no later turn in the conversation.
ToRun == {"absent", "queued", "running"}
NoneEnteredLater == \A r \in CustodyRuns : TurnStatus(r) \in ToRun => ~LaterEntered(r)

\* How far a turn came shows in its row.
Reached ==
    \A r \in CustodyRuns :
        /\ TurnStatus(r) \in {"absent", "queued"} => ~runTurn[r].entered /\ execution[r] = "none"
        /\ TurnStatus(r) = "parked" => runTurn[r].entered
        /\ execution[r] # "none" => runTurn[r].entered

\* Without a serving coordinator nothing is followed, and only agents with a host
\* of their own are left; without any, nothing sweeps.
Alone ==
    /\ coordinator.phase = "down" => sweep.stage = "off"
    /\ coordinator.phase # "serving" =>
           /\ following = {} /\ watched = {}
           /\ \A r \in CustodyRuns : AgentWorks(r) => runTurn[r].native

\* The start-up sweep still has every working agent before it that a predecessor
\* ran, and what it read of the one it probes is so.
Recovers ==
    coordinator.phase = "recovering" =>
        /\ sweep.stage # "off"
        /\ sweep.stage = "probing" =>
               \E r \in CustodyRuns : sweep.run = {r} /\ sweep.seen = {runTurn[r]}
        /\ sweep.stage \in {"open", "probing"} =>
               \A r \in CustodyRuns : AgentWorks(r) /\ TurnStatus(r) = "running" /\ ~Mine(r) =>
                   r \in sweep.left \/ (sweep.stage = "probing" /\ r \in sweep.run)

\* What the sweep has listed had an execution.
Listed == \A r \in sweep.left : execution[r] # "none"

OrderInv == OneRuns /\ AcceptedInOrder /\ RunsInOrder /\ NoneEnteredLater /\ Reached
CustodyInv == OrderInv /\ Listed /\ Alone /\ Recovers /\ AgentHasCustody

SweepRecord == [stage : {"off", "superseded", "open", "probing"}, left : SUBSET CustodyRuns, run : SUBSET CustodyRuns,
                seen : SUBSET TurnRecord, adopted : SUBSET CustodyRuns, held : SUBSET CustodyRuns]
TurnStatuses == {"absent", "queued", "running", "parked", "ended", "interrupted"}
Owners == 0..MaxCoordinators

LEMMA CustodyTypeInit == CustodyInit => CustodyTypeOK
BY CustodyAssumption DEF CustodyInit, CustodyTypeOK, Unaccepted, TurnRecord, NoSweep

\* A row stays a row when its status, owner or entry is written.
LEMMA TurnRowWrites ==
    ASSUME NEW row \in TurnRecord
    PROVE  \A status \in TurnStatuses : \A owner \in Owners : \A flag \in BOOLEAN :
               /\ [row EXCEPT !.status = status] \in TurnRecord
               /\ [row EXCEPT !.entered = flag] \in TurnRecord
               /\ [row EXCEPT !.native = flag, !.status = status] \in TurnRecord
               /\ [row EXCEPT !.status = status, !.owner = owner] \in TurnRecord
               /\ [row EXCEPT !.status = status, !.owner = owner, !.entered = flag] \in TurnRecord
BY DEF TurnRecord, TurnStatuses, Owners

LEMMA TurnRowsType ==
    ASSUME CustodyTypeOK, CustodyNext
    PROVE  runTurn' \in [CustodyRuns -> TurnRecord]
<1> DEFINE Goal == runTurn' \in [CustodyRuns -> TurnRecord]
<1>1. runTurn \in [CustodyRuns -> TurnRecord] /\ coordinator.id \in Owners /\ 0 \in Owners
  BY CustodyAssumption DEF CustodyTypeOK, Owners
<1>2. \A word \in TurnStatuses : word \in {"absent", "queued", "running", "parked", "ended", "interrupted"}
  BY DEF TurnStatuses
<1>3. /\ "queued" \in TurnStatuses /\ "running" \in TurnStatuses /\ "parked" \in TurnStatuses
      /\ "ended" \in TurnStatuses /\ "interrupted" \in TurnStatuses
  BY DEF TurnStatuses
<1>4. ASSUME NEW r \in CustodyRuns, NEW row \in TurnRecord, runTurn' = [runTurn EXCEPT ![r] = row]
      PROVE  Goal
  BY <1>1, <1>4
<1>5. ASSUME NEW r \in CustodyRuns, AcceptInput(r) PROVE Goal
  <2>1. [runTurn[r] EXCEPT !.status = "queued"] \in TurnRecord
    BY <1>1, <1>3, TurnRowWrites
  <2> QED
    BY <1>5, <2>1, <1>1, <1>4 DEF AcceptInput
<1>6. ASSUME NEW r \in CustodyRuns, AcquireSessionTurn(r) PROVE Goal
  <2>1. [runTurn[r] EXCEPT !.native = FALSE, !.status = "queued"] \in TurnRecord
    BY <1>1, <1>3, TurnRowWrites
  <2>2. [Unaccepted EXCEPT !.native = FALSE, !.status = "running", !.owner = coordinator.id] \in TurnRecord
    BY <1>1 DEF Unaccepted, TurnRecord, Owners
  <2> QED
    BY <1>6, <2>1, <2>2, <1>1, <1>4 DEF AcquireSessionTurn
<1>7. ASSUME NEW r \in CustodyRuns, ClaimQueuedTurn(r) PROVE Goal
  <2>1. [runTurn[r] EXCEPT !.status = "running", !.owner = coordinator.id, !.entered = FALSE] \in TurnRecord
    BY <1>1, <1>3, TurnRowWrites
  <2> QED
    BY <1>7, <2>1, <1>1, <1>4 DEF ClaimQueuedTurn
<1>8. ASSUME NEW r \in CustodyRuns, AdmitToProvider(r) PROVE Goal
  <2>1. [runTurn[r] EXCEPT !.entered = TRUE] \in TurnRecord
    BY <1>1, <1>3, TurnRowWrites
  <2> QED
    BY <1>8, <2>1, <1>1, <1>4 DEF AdmitToProvider
<1>9. ASSUME NEW r \in CustodyRuns, FinishRun(r) PROVE Goal
  <2>1. [runTurn[r] EXCEPT !.status = "ended", !.owner = 0] \in TurnRecord
    BY <1>1, <1>3, TurnRowWrites
  <2> QED
    BY <1>9, <2>1, <1>1, <1>4 DEF FinishRun
<1>10. ASSUME NEW r \in CustodyRuns, RunFails(r) PROVE Goal
  <2>1. [runTurn[r] EXCEPT !.status = IF runTurn[r].entered THEN "parked" ELSE "ended", !.owner = 0]
            \in TurnRecord
    BY <1>1, <1>3, TurnRowWrites
  <2> QED
    BY <1>10, <2>1, <1>1, <1>4 DEF RunFails
<1>11. ASSUME NEW r \in CustodyRuns, StopSuperseded(r) PROVE Goal
  <2>1. [runTurn[r] EXCEPT !.status = "interrupted"] \in TurnRecord
    BY <1>1, <1>3, TurnRowWrites
  <2> QED
    BY <1>11, <2>1, <1>1, <1>4 DEF StopSuperseded
<1>12. ASSUME NEW r \in CustodyRuns, HeldAttempt(r) PROVE Goal
  <2>1. [runTurn[r] EXCEPT !.status = "interrupted", !.owner = 0] \in TurnRecord
    BY <1>1, <1>3, TurnRowWrites
  <2> QED
    BY <1>12, <2>1, <1>1, <1>4 DEF HeldAttempt
<1>13. ASSUME NEW r \in CustodyRuns, NEW seen \in sweep.seen, EndProbe(r, seen) PROVE Goal
  <2>1. [runTurn[r] EXCEPT !.status = "running", !.owner = coordinator.id] \in TurnRecord
    BY <1>1, <1>3, TurnRowWrites
  <2> QED
    BY <1>13, <2>1, <1>1, <1>4 DEF EndProbe, TakenBack
<1>14. CASE EndSweep
  <2>1. \A r \in CustodyRuns :
           [runTurn[r] EXCEPT !.status = IF runTurn[r].entered THEN "interrupted" ELSE "queued", !.owner = 0]
               \in TurnRecord
    BY <1>1, <1>3, TurnRowWrites
  <2>2. CASE Serving
    BY <1>14, <2>2, <1>1 DEF EndSweep
  <2>3. CASE ~Serving
    <3>1. runTurn' = [r \in CustodyRuns |->
              IF TurnStatus(r) # "running" \/ Mine(r) THEN runTurn[r]
              ELSE [runTurn[r] EXCEPT !.status = IF runTurn[r].entered THEN "interrupted" ELSE "queued",
                                      !.owner = 0]]
      BY <1>14, <2>3 DEF EndSweep
    <3> QED
      BY <2>1, <3>1, <1>1
  <2> QED
    BY <2>2, <2>3
<1>15. ASSUME NEW r \in CustodyRuns,
            RetainExecutionIntent(r) \/ Launch(r) \/ RecordExecutionLaunched(r) \/
            AgentStops(r) \/ RecordExecutionExited(r) \/ UnwindRun(r) \/ BeginProbe(r)
     PROVE Goal
  BY <1>15, <1>1 DEF RetainExecutionIntent, Launch, RecordExecutionLaunched, AgentStops,
       RecordExecutionExited,
     UnwindRun, BeginProbe
<1>16. CASE BeginSweep \/ ReadOpen \/ CoordinatorDies \/ CoordinatorStarts
  BY <1>16, <1>1 DEF BeginSweep, ReadOpen, CoordinatorDies, CoordinatorStarts
<1> QED
  BY <1>5, <1>6, <1>7, <1>8, <1>9, <1>10, <1>11, <1>12, <1>13, <1>14, <1>15, <1>16
       DEF CustodyNext

LEMMA SweepType ==
    ASSUME CustodyTypeOK, CustodyNext
    PROVE  sweep' \in SweepRecord
<1> DEFINE Goal == sweep' \in SweepRecord
<1>1. sweep \in SweepRecord /\ runTurn \in [CustodyRuns -> TurnRecord]
  BY DEF CustodyTypeOK, SweepRecord
<1>2. ASSUME NEW r \in CustodyRuns, StopSuperseded(r) PROVE Goal
  BY <1>2, <1>1 DEF StopSuperseded, SweepRecord
<1>3. ASSUME NEW r \in CustodyRuns, BeginProbe(r) PROVE Goal
  BY <1>3, <1>1 DEF BeginProbe, SweepRecord
<1>4. ASSUME NEW r \in CustodyRuns, NEW seen \in sweep.seen, EndProbe(r, seen) PROVE Goal
  <2>1. PICK adopts \in SUBSET CustodyRuns, holds \in SUBSET CustodyRuns : NextOpen(adopts, holds)
    BY <1>4 DEF EndProbe
  <2> QED
    BY <2>1, <1>1 DEF NextOpen, SweepRecord
<1>5. CASE BeginSweep
  BY <1>5, <1>1 DEF BeginSweep, NoSweep, Superseded, SweepRecord
<1>6. CASE ReadOpen
  BY <1>6, <1>1 DEF ReadOpen, NoSweep, SweepRecord
<1>7. CASE EndSweep
  BY <1>7, <1>1 DEF EndSweep, NoSweep, SweepRecord
<1>8. CASE CoordinatorDies
  BY <1>8, <1>1 DEF CoordinatorDies, NoSweep, SweepRecord
<1>9. CASE CoordinatorStarts
  BY <1>9, <1>1 DEF CoordinatorStarts, NoSweep, Superseded, SweepRecord
<1>10. ASSUME NEW r \in CustodyRuns,
            AcceptInput(r) \/ AcquireSessionTurn(r) \/ ClaimQueuedTurn(r) \/
            AdmitToProvider(r) \/ RetainExecutionIntent(r) \/ Launch(r) \/
            RecordExecutionLaunched(r) \/ AgentStops(r) \/
            RecordExecutionExited(r) \/ FinishRun(r) \/ RunFails(r) \/
            UnwindRun(r) \/ HeldAttempt(r)
     PROVE Goal
  BY <1>10, <1>1 DEF AcceptInput, AcquireSessionTurn, ClaimQueuedTurn, AdmitToProvider,
       RetainExecutionIntent,
     Launch, RecordExecutionLaunched, AgentStops, RecordExecutionExited, FinishRun,
     RunFails, UnwindRun, HeldAttempt
<1> QED
  BY <1>2, <1>3, <1>4, <1>5, <1>6, <1>7, <1>8, <1>9, <1>10 DEF CustodyNext

PlainOK ==
    /\ execution \in [CustodyRuns -> {"none", "intended", "live", "exited", "released", "lost"}]
    /\ agentHost \in [CustodyRuns -> {"none", "working", "exited", "gone"}]
    /\ coordinator \in [id : 0..MaxCoordinators, phase : {"down", "recovering", "serving"}]
    /\ following \subseteq CustodyRuns /\ watched \subseteq CustodyRuns

LEMMA ReleasedType ==
    ASSUME PlainOK, NEW S
    PROVE  ReleasedRows(S) \in [CustodyRuns -> {"none", "intended", "live", "exited", "released", "lost"}]
BY DEF PlainOK, ReleasedRows

LEMMA PlainType ==
    ASSUME CustodyTypeOK, CustodyNext
    PROVE  PlainOK'
<1>1. PlainOK /\ sweep.adopted \subseteq CustodyRuns /\ sweep.held \subseteq CustodyRuns
  BY DEF CustodyTypeOK, PlainOK
<1>2. ASSUME NEW r \in CustodyRuns, AcceptInput(r) PROVE PlainOK'
  BY <1>2, <1>1 DEF AcceptInput, PlainOK
<1>3. ASSUME NEW r \in CustodyRuns, AcquireSessionTurn(r) PROVE PlainOK'
  BY <1>3, <1>1 DEF AcquireSessionTurn, PlainOK
<1>4. ASSUME NEW r \in CustodyRuns, ClaimQueuedTurn(r) PROVE PlainOK'
  BY <1>4, <1>1 DEF ClaimQueuedTurn, PlainOK
<1>5. ASSUME NEW r \in CustodyRuns, AdmitToProvider(r) PROVE PlainOK'
  BY <1>5, <1>1 DEF AdmitToProvider, PlainOK
<1>6. ASSUME NEW r \in CustodyRuns, RetainExecutionIntent(r) PROVE PlainOK'
  BY <1>6, <1>1 DEF RetainExecutionIntent, PlainOK
<1>7. ASSUME NEW r \in CustodyRuns, Launch(r) PROVE PlainOK'
  BY <1>7, <1>1 DEF Launch, PlainOK
<1>8. ASSUME NEW r \in CustodyRuns, RecordExecutionLaunched(r) PROVE PlainOK'
  BY <1>8, <1>1 DEF RecordExecutionLaunched, PlainOK
<1>9. ASSUME NEW r \in CustodyRuns, AgentStops(r) PROVE PlainOK'
  BY <1>9, <1>1 DEF AgentStops, PlainOK
<1>10. ASSUME NEW r \in CustodyRuns, RecordExecutionExited(r) PROVE PlainOK'
  BY <1>10, <1>1 DEF RecordExecutionExited, PlainOK
<1>11. ASSUME NEW r \in CustodyRuns, FinishRun(r) PROVE PlainOK'
  BY <1>11, <1>1 DEF FinishRun, PlainOK
<1>12. ASSUME NEW r \in CustodyRuns, RunFails(r) PROVE PlainOK'
  BY <1>12, <1>1 DEF RunFails, PlainOK
<1>13. ASSUME NEW r \in CustodyRuns, UnwindRun(r) PROVE PlainOK'
  BY <1>13, <1>1 DEF UnwindRun, ReleasedRows, PlainOK
<1>14. ASSUME NEW r \in CustodyRuns, StopSuperseded(r) PROVE PlainOK'
  BY <1>14, <1>1 DEF StopSuperseded, ReleasedRows, PlainOK
<1>15. ASSUME NEW r \in CustodyRuns, BeginProbe(r) PROVE PlainOK'
  BY <1>15, <1>1 DEF BeginProbe, PlainOK
<1>16. ASSUME NEW r \in CustodyRuns, HeldAttempt(r) PROVE PlainOK'
  BY <1>16, <1>1 DEF HeldAttempt, PlainOK
<1>17. ASSUME NEW r \in CustodyRuns, NEW seen \in sweep.seen, EndProbe(r, seen) PROVE PlainOK'
  BY <1>17, <1>1 DEF EndProbe, PlainOK
<1>18. CASE BeginSweep
  BY <1>18, <1>1, CustodyAssumption DEF BeginSweep, PlainOK
<1>19. CASE ReadOpen
  BY <1>19, <1>1, CustodyAssumption DEF ReadOpen, PlainOK
<1>20. CASE EndSweep
  <2>1. execution' = execution \/ \E S \in SUBSET CustodyRuns : execution' = ReleasedRows(S)
    BY <1>20 DEF EndSweep
  <2>2. execution' \in [CustodyRuns -> {"none", "intended", "live", "exited", "released", "lost"}]
    BY <2>1, <1>1, ReleasedType DEF PlainOK
  <2>3. /\ agentHost' = agentHost /\ following' = following \cup sweep.adopted /\ watched' = watched \cup sweep.held
        /\ coordinator' = coordinator \/ coordinator' = [coordinator EXCEPT !.phase = "serving"]
    BY <1>20 DEF EndSweep
  <2> QED
    BY <2>2, <2>3, <1>1 DEF PlainOK
<1>21. CASE CoordinatorDies
  BY <1>21, <1>1, CustodyAssumption DEF CoordinatorDies, PlainOK
<1>22. CASE CoordinatorStarts
  BY <1>22, <1>1, CustodyAssumption DEF CoordinatorStarts, PlainOK
<1> QED
  BY <1>2, <1>3, <1>4, <1>5, <1>6, <1>7, <1>8, <1>9, <1>10, <1>11, <1>12, <1>13, <1>14, <1>15,
     <1>16, <1>17, <1>18, <1>19, <1>20, <1>21, <1>22 DEF CustodyNext

LEMMA CustodyTypeStep == CustodyTypeOK /\ [CustodyNext]_custodyVars => CustodyTypeOK'
<1> SUFFICES ASSUME CustodyTypeOK, [CustodyNext]_custodyVars PROVE CustodyTypeOK'
  OBVIOUS
<1>1. CASE CustodyNext
  BY <1>1, TurnRowsType, SweepType, PlainType DEF CustodyTypeOK, SweepRecord, PlainOK
<1>2. CASE UNCHANGED custodyVars
  BY <1>2 DEF CustodyTypeOK, custodyVars
<1> QED
  BY <1>1, <1>2

\* Rows, hosts, coordinators and sweeps keep their types.
THEOREM CustodyTypeCorrect == CustodySpec => []CustodyTypeOK
BY CustodyTypeInit, CustodyTypeStep, PTL DEF CustodySpec

-----------------------------------------------------------------------------
(* What a step may do to the rows.                                           *)

Keeps(r) == runTurn'[r].entered = runTurn[r].entered
Becomes(r, status) == runTurn'[r].status = status

\* An accepted input is the next id.
ComesIn(r) ==
    /\ TurnStatus(r) = "absent" /\ \A older \in CustodyRuns : older < r => TurnStatus(older) # "absent"
    /\ ~runTurn'[r].entered

\* A turn starts: at once, or out of the queue.
Starts(r) ==
    /\ ComesIn(r) \/ (TurnStatus(r) = "queued" /\ ~HeldParked)
    /\ ~LiveBeside(r) /\ ~Blocked(r)
    /\ Becomes(r, "running") /\ ~runTurn'[r].entered

TakesBack(r) ==
    /\ TurnStatus(r) = "parked" /\ ~LaterEntered(r) /\ ~LiveBeside(r)
    /\ Becomes(r, "running") /\ Keeps(r)

TurnEnds(r) ==
    /\ TurnStatus(r) \in {"running", "parked"} /\ Keeps(r)
    /\ \/ Becomes(r, "ended") \/ Becomes(r, "interrupted")
       \/ Becomes(r, "parked") /\ runTurn[r].entered

Requeues(r) == TurnStatus(r) = "running" /\ Becomes(r, "queued") /\ ~runTurn[r].entered /\ Keeps(r)

Stays(r) == runTurn'[r].status = runTurn[r].status /\ Keeps(r)

OneRowMoves(r) ==
    /\ \A other \in CustodyRuns \ {r} : Stays(other)
    /\ \/ Stays(r) \/ Starts(r) \/ TakesBack(r) \/ TurnEnds(r)
       \/ ComesIn(r) /\ Becomes(r, "queued")
       \/ TurnStatus(r) = "running" /\ Becomes(r, "running") /\ runTurn'[r].entered

TurnRowsMove ==
    \/ \A r \in CustodyRuns : Stays(r) \/ TurnEnds(r) \/ Requeues(r)
    \/ \E r \in CustodyRuns : OneRowMoves(r)

LEMMA RowFields ==
    ASSUME CustodyTypeOK
    PROVE  /\ DOMAIN runTurn = CustodyRuns
           /\ \A r \in CustodyRuns : DOMAIN runTurn[r] = {"native", "status", "owner", "entered"}
BY DEF CustodyTypeOK, TurnRecord

\* Writing one row leaves the others.
LEMMA OneRowIsWritten ==
    ASSUME CustodyTypeOK, NEW r \in CustodyRuns, NEW row, runTurn' = [runTurn EXCEPT ![r] = row]
    PROVE  runTurn'[r] = row /\ \A other \in CustodyRuns \ {r} : Stays(other)
BY RowFields DEF Stays, Keeps

LEMMA TurnRowsMoveOfNext ==
    ASSUME CustodyTypeOK, Reached, CustodyNext
    PROVE  TurnRowsMove
<1>1. /\ DOMAIN runTurn = CustodyRuns /\ runTurn \in [CustodyRuns -> TurnRecord]
      /\ \A r \in CustodyRuns : DOMAIN runTurn[r] = {"native", "status", "owner", "entered"}
  BY RowFields DEF CustodyTypeOK
<1>2. ASSUME runTurn' = runTurn PROVE TurnRowsMove
  BY <1>2 DEF TurnRowsMove, Stays, Keeps
<1>3. ASSUME NEW r \in CustodyRuns, AcceptInput(r) PROVE TurnRowsMove
  <2>1. OneRowMoves(r)
    BY <1>3, <1>1 DEF AcceptInput, OneRowMoves, Stays, Keeps, ComesIn, Becomes, TurnStatus,
         Reached
  <2> QED
    BY <2>1 DEF TurnRowsMove
<1>4. ASSUME NEW r \in CustodyRuns, AcquireSessionTurn(r) PROVE TurnRowsMove
  <2>1. CASE LiveBeside(r) \/ Blocked(r)
    <3>1. runTurn' = [runTurn EXCEPT ![r] = [runTurn[r] EXCEPT !.native = FALSE, !.status = "queued"]]
      BY <1>4, <1>1, <2>1 DEF AcquireSessionTurn
    <3>2. runTurn'[r].status = "queued" /\ runTurn'[r].entered = runTurn[r].entered
      BY <3>1, <1>1, OneRowIsWritten
    <3>3. \A other \in CustodyRuns \ {r} : Stays(other)
      BY <3>1, OneRowIsWritten
    <3>4. ComesIn(r) /\ Becomes(r, "queued")
      BY <1>4, <3>2 DEF AcquireSessionTurn, ComesIn, Becomes, Reached
    <3>5. OneRowMoves(r)
      BY <3>3, <3>4 DEF OneRowMoves
    <3> QED
      BY <3>5 DEF TurnRowsMove
  <2>2. CASE ~(LiveBeside(r) \/ Blocked(r))
    <3> DEFINE row == [Unaccepted EXCEPT !.native = FALSE, !.status = "running", !.owner = coordinator.id]
    <3>1. runTurn' = [runTurn EXCEPT ![r] = row]
      BY <1>4, <1>1, <2>2 DEF AcquireSessionTurn
    <3>2. row.status = "running" /\ ~row.entered
      BY DEF Unaccepted
    <3> HIDE DEF row
    <3>3. runTurn'[r].status = "running" /\ ~runTurn'[r].entered
      BY <3>1, <3>2, OneRowIsWritten
    <3>4. \A other \in CustodyRuns \ {r} : Stays(other)
      BY <3>1, OneRowIsWritten
    <3>5. Starts(r)
      BY <1>4, <2>2, <3>3 DEF AcquireSessionTurn, ComesIn, Starts, Becomes
    <3>6. OneRowMoves(r)
      BY <3>4, <3>5 DEF OneRowMoves
    <3> QED
      BY <3>6 DEF TurnRowsMove
  <2> QED
    BY <2>1, <2>2
<1>5. ASSUME NEW r \in CustodyRuns, ClaimQueuedTurn(r) PROVE TurnRowsMove
  <2>1. OneRowMoves(r)
    BY <1>5, <1>1 DEF ClaimQueuedTurn, OneRowMoves, Stays, Keeps, Starts, Becomes, TurnStatus
  <2> QED
    BY <2>1 DEF TurnRowsMove
<1>6. ASSUME NEW r \in CustodyRuns, AdmitToProvider(r) PROVE TurnRowsMove
  <2>1. OneRowMoves(r)
    BY <1>6, <1>1 DEF AdmitToProvider, OneRowMoves, Stays, Keeps, Mine, Becomes, TurnStatus
  <2> QED
    BY <2>1 DEF TurnRowsMove
<1>7. ASSUME NEW r \in CustodyRuns, FinishRun(r) PROVE TurnRowsMove
  <2>1. OneRowMoves(r)
    BY <1>7, <1>1 DEF FinishRun, OneRowMoves, Stays, Keeps, Mine, TurnEnds, Becomes, TurnStatus
  <2> QED
    BY <2>1 DEF TurnRowsMove
<1>8. ASSUME NEW r \in CustodyRuns, RunFails(r) PROVE TurnRowsMove
  <2>1. OneRowMoves(r)
    BY <1>8, <1>1 DEF RunFails, OneRowMoves, Stays, Keeps, Mine, TurnEnds, Becomes, TurnStatus
  <2> QED
    BY <2>1 DEF TurnRowsMove
<1>9. ASSUME NEW r \in CustodyRuns, StopSuperseded(r) PROVE TurnRowsMove
  <2>1. \/ runTurn' = runTurn
        \/ TurnStatus(r) = "parked" /\ runTurn' = [runTurn EXCEPT ![r].status = "interrupted"]
    BY <1>9, Zenon DEF StopSuperseded
  <2>2. CASE TurnStatus(r) = "parked" /\ runTurn' = [runTurn EXCEPT ![r].status = "interrupted"]
    <3>1. OneRowMoves(r)
      BY <2>2, <1>1 DEF OneRowMoves, Stays, Keeps, TurnEnds, Becomes, TurnStatus
    <3> QED
      BY <3>1 DEF TurnRowsMove
  <2> QED
    BY <2>1, <2>2, <1>2
<1>10. ASSUME NEW r \in CustodyRuns, HeldAttempt(r) PROVE TurnRowsMove
  <2>1. \/ runTurn' = runTurn
        \/ Mine(r) /\ runTurn' = [runTurn EXCEPT ![r] = [@ EXCEPT !.status = "interrupted", !.owner = 0]]
    BY <1>10 DEF HeldAttempt
  <2>2. CASE Mine(r) /\ runTurn' = [runTurn EXCEPT ![r] = [@ EXCEPT !.status = "interrupted", !.owner = 0]]
    <3>1. OneRowMoves(r)
      BY <2>2, <1>1 DEF OneRowMoves, Stays, Keeps, Mine, TurnEnds, Becomes, TurnStatus
    <3> QED
      BY <3>1 DEF TurnRowsMove
  <2> QED
    BY <2>1, <2>2, <1>2
<1>11. ASSUME NEW r \in CustodyRuns, NEW seen \in sweep.seen, EndProbe(r, seen) PROVE TurnRowsMove
  <2>1. CASE MayTakeBack(r, seen) /\ runTurn' = TakenBack(r)
    <3>1. runTurn' = [runTurn EXCEPT ![r] = [runTurn[r] EXCEPT !.status = "running", !.owner = coordinator.id]]
      BY <2>1, <1>1 DEF TakenBack
    <3>2. runTurn'[r].status = "running" /\ runTurn'[r].entered = runTurn[r].entered
      BY <3>1, <1>1, OneRowIsWritten
    <3>3. \/ TurnStatus(r) = "running"
          \/ TurnStatus(r) = "parked" /\ ~LaterEntered(r) /\ ~LiveBeside(r)
      BY <2>1 DEF MayTakeBack
    <3>4. Stays(r) \/ TakesBack(r)
      BY <3>2, <3>3 DEF Stays, TakesBack, Keeps, Becomes, TurnStatus
    <3>5. \A other \in CustodyRuns \ {r} : Stays(other)
      BY <3>1, OneRowIsWritten
    <3>6. OneRowMoves(r)
      BY <3>4, <3>5 DEF OneRowMoves
    <3> QED
      BY <3>6 DEF TurnRowsMove
  <2> QED
    BY <1>11, <2>1, <1>2 DEF EndProbe
<1>12. CASE EndSweep
  <2>1. CASE Serving
    BY <1>12, <2>1, <1>2 DEF EndSweep
  <2>2. CASE ~Serving
    <3>1. runTurn' = [r \in CustodyRuns |->
              IF TurnStatus(r) # "running" \/ Mine(r) THEN runTurn[r]
              ELSE [runTurn[r] EXCEPT !.status = IF runTurn[r].entered THEN "interrupted" ELSE "queued",
                                      !.owner = 0]]
      BY <1>12, <2>2 DEF EndSweep
    <3>2. \A r \in CustodyRuns : Stays(r) \/ TurnEnds(r) \/ Requeues(r)
      BY <3>1, <1>1 DEF Stays, TurnEnds, Requeues, Keeps, Becomes, TurnStatus
    <3> QED
      BY <3>2 DEF TurnRowsMove
  <2> QED
    BY <2>1, <2>2
<1>13. ASSUME NEW r \in CustodyRuns,
            RetainExecutionIntent(r) \/ Launch(r) \/ RecordExecutionLaunched(r) \/
            AgentStops(r) \/ RecordExecutionExited(r) \/ UnwindRun(r) \/ BeginProbe(r)
     PROVE TurnRowsMove
  BY <1>13, <1>2 DEF RetainExecutionIntent, Launch, RecordExecutionLaunched, AgentStops,
       RecordExecutionExited,
     UnwindRun, BeginProbe
<1>14. CASE BeginSweep \/ ReadOpen \/ CoordinatorDies \/ CoordinatorStarts
  BY <1>14, <1>2 DEF BeginSweep, ReadOpen, CoordinatorDies, CoordinatorStarts
<1> QED
  BY <1>3, <1>4, <1>5, <1>6, <1>7, <1>8, <1>9, <1>10, <1>11, <1>12, <1>13, <1>14 DEF CustodyNext

\* An execution, once there, never counts as not begun, and one begins only while
\* an entered turn runs.
Began(r) == execution[r] # "none"

ExecutionMoves(r) ==
    /\ Began(r) => Began(r)'
    /\ Began(r)' /\ ~Began(r) => TurnStatus(r) = "running" /\ runTurn[r].entered /\ runTurn' = runTurn

LEMMA ExecutionMovesOfNext ==
    ASSUME CustodyTypeOK, Listed, CustodyNext
    PROVE  \A q \in CustodyRuns : ExecutionMoves(q)
<1> SUFFICES ASSUME NEW q \in CustodyRuns PROVE ExecutionMoves(q)
  OBVIOUS
<1>1. execution \in [CustodyRuns -> {"none", "intended", "live", "exited", "released", "lost"}]
  BY DEF CustodyTypeOK
<1>2. ASSUME execution' = execution PROVE ExecutionMoves(q)
  BY <1>2 DEF ExecutionMoves, Began
<1>3. ASSUME NEW S, \A r \in S : execution[r] # "none" PROVE ReleasedRows(S)[q] # "none" <=> execution[q] # "none"
  BY <1>3 DEF ReleasedRows
<1>4. ASSUME NEW r \in CustodyRuns, RetainExecutionIntent(r) PROVE ExecutionMoves(q)
  BY <1>4, <1>1 DEF RetainExecutionIntent, Mine, ExecutionMoves, Began
<1>5. ASSUME NEW r \in CustodyRuns, RecordExecutionLaunched(r) PROVE ExecutionMoves(q)
  BY <1>5, <1>1 DEF RecordExecutionLaunched, ExecutionMoves, Began
<1>6. ASSUME NEW r \in CustodyRuns, RecordExecutionExited(r) PROVE ExecutionMoves(q)
  BY <1>6, <1>1 DEF RecordExecutionExited, ExecutionMoves, Began
<1>7. ASSUME NEW r \in CustodyRuns, HeldAttempt(r) PROVE ExecutionMoves(q)
  BY <1>7, <1>1 DEF HeldAttempt, ExecutionMoves, Began
<1>8. ASSUME NEW r \in CustodyRuns, UnwindRun(r) PROVE ExecutionMoves(q)
  BY <1>8, <1>3 DEF UnwindRun, Releasable, ExecutionMoves, Began
<1>9. ASSUME NEW r \in CustodyRuns, StopSuperseded(r) PROVE ExecutionMoves(q)
  <2>1. execution[r] # "none"
    BY <1>9 DEF StopSuperseded, Listed
  <2>2. \/ execution' = execution \/ execution' = [execution EXCEPT ![r] = "lost"]
        \/ execution' = ReleasedRows({r})
    BY <1>9 DEF StopSuperseded
  <2> QED
    BY <2>1, <2>2, <1>1, <1>3 DEF ExecutionMoves, Began
<1>10. ASSUME NEW r \in CustodyRuns, NEW seen \in sweep.seen, EndProbe(r, seen) PROVE ExecutionMoves(q)
  BY <1>10, <1>1 DEF EndProbe, ExecutionMoves, Began
<1>11. CASE EndSweep
  <2>1. CASE Serving
    BY <1>11, <2>1, <1>2 DEF EndSweep
  <2>2. CASE ~Serving
    <3>1. PICK S \in SUBSET {r \in CustodyRuns : Releasable(r) /\ TurnStatus(r) # "running"} :
              execution' = ReleasedRows(S)
      BY <1>11, <2>2 DEF EndSweep
    <3> QED
      BY <3>1, <1>3 DEF Releasable, ExecutionMoves, Began
  <2> QED
    BY <2>1, <2>2
<1>12. ASSUME NEW r \in CustodyRuns,
            AcceptInput(r) \/ AcquireSessionTurn(r) \/ ClaimQueuedTurn(r) \/
            AdmitToProvider(r) \/ Launch(r) \/ AgentStops(r) \/ FinishRun(r) \/
            RunFails(r) \/ BeginProbe(r)
     PROVE ExecutionMoves(q)
  BY <1>12, <1>2 DEF AcceptInput, AcquireSessionTurn, ClaimQueuedTurn, AdmitToProvider, Launch,
       AgentStops,
     FinishRun, RunFails, BeginProbe
<1>13. CASE BeginSweep \/ ReadOpen \/ CoordinatorDies \/ CoordinatorStarts
  BY <1>13, <1>2 DEF BeginSweep, ReadOpen, CoordinatorDies, CoordinatorStarts
<1> QED
  BY <1>4, <1>5, <1>6, <1>7, <1>8, <1>9, <1>10, <1>11, <1>12, <1>13 DEF CustodyNext

LEMMA OrderInvInit == CustodyInit => OrderInv
BY DEF CustodyInit, Unaccepted, OrderInv, OneRuns, AcceptedInOrder, RunsInOrder,
     NoneEnteredLater, Reached,
   ToRun, LaterEntered, TurnStatus

LEMMA OrderInvStep ==
    ASSUME CustodyTypeOK, OrderInv, Listed, CustodyNext
    PROVE  OrderInv'
<1>1. \A r \in CustodyRuns : r \in Nat
  BY CustodyAssumption
<1>2. TurnRowsMove /\ \A q \in CustodyRuns : ExecutionMoves(q)
  BY TurnRowsMoveOfNext, ExecutionMovesOfNext DEF OrderInv
<1>3. /\ \A r \in CustodyRuns : TurnStatus(r)' = runTurn'[r].status
      /\ \A r \in CustodyRuns : TurnStatus(r) = runTurn[r].status
      /\ \A r \in CustodyRuns : runTurn[r].entered \in BOOLEAN /\ runTurn[r].status \in TurnStatuses
  BY DEF TurnStatus, CustodyTypeOK, TurnRecord, TurnStatuses
<1>4. CASE \A r \in CustodyRuns : Stays(r) \/ TurnEnds(r) \/ Requeues(r)
  <2>1. OneRuns' /\ AcceptedInOrder'
    BY <1>3, <1>4 DEF OrderInv, OneRuns, AcceptedInOrder, Stays, TurnEnds, Requeues, Keeps, Becomes
  <2>2. RunsInOrder'
    BY <1>1, <1>3, <1>4 DEF OrderInv, OneRuns, RunsInOrder, Stays, TurnEnds, Requeues, Keeps,
         Becomes
  <2>3. NoneEnteredLater'
    BY <1>1, <1>3, <1>4 DEF OrderInv, NoneEnteredLater, LaterEntered, ToRun, Stays, TurnEnds,
         Requeues, Keeps, Becomes
  <2>4. Reached'
    BY <1>2, <1>3, <1>4 DEF OrderInv, Reached, ExecutionMoves, Began, Stays, TurnEnds, Requeues,
         Keeps, Becomes
  <2> QED
    BY <2>1, <2>2, <2>3, <2>4 DEF OrderInv
<1>5. ASSUME NEW r \in CustodyRuns, OneRowMoves(r) PROVE OrderInv'
  <2>1. OneRuns'
    BY <1>3, <1>5 DEF OrderInv, OneRuns, OneRowMoves, ComesIn, Starts, TakesBack, Stays, TurnEnds,
         Keeps, Becomes,
       LiveBeside
  <2>2. AcceptedInOrder'
    BY <1>1, <1>3, <1>5 DEF OrderInv, AcceptedInOrder, OneRowMoves, ComesIn, Starts, TakesBack,
         Stays, TurnEnds, Keeps,
       Becomes
  <2>3. RunsInOrder'
    BY <1>1, <1>3, <1>5 DEF OrderInv, AcceptedInOrder, RunsInOrder, NoneEnteredLater, Reached,
         ToRun, LaterEntered,
       OneRowMoves, ComesIn, Starts, TakesBack, Stays, TurnEnds, Keeps, Becomes, Blocked
  <2>4. NoneEnteredLater'
    BY <1>1, <1>3, <1>5 DEF OrderInv, OneRuns, AcceptedInOrder, RunsInOrder, NoneEnteredLater,
         Reached, ToRun,
       LaterEntered, OneRowMoves, ComesIn, Starts, TakesBack, Stays, TurnEnds, Keeps, Becomes, Blocked
  <2>5. Reached'
    BY <1>2, <1>3, <1>5 DEF OrderInv, Reached, ExecutionMoves, Began, OneRowMoves, ComesIn,
         Starts, TakesBack, Stays,
       TurnEnds, Keeps, Becomes
  <2> QED
    BY <2>1, <2>2, <2>3, <2>4, <2>5 DEF OrderInv
<1> QED
  BY <1>2, <1>4, <1>5 DEF TurnRowsMove

LEMMA ListedStep ==
    ASSUME CustodyTypeOK, Listed, CustodyNext
    PROVE  Listed'
<1>1. \A q \in CustodyRuns : Began(q) => Began(q)'
  BY ExecutionMovesOfNext DEF ExecutionMoves
<1>9. /\ sweep \in SweepRecord /\ sweep.left \subseteq CustodyRuns
      /\ DOMAIN sweep = {"stage", "left", "run", "seen", "adopted", "held"}
  BY DEF CustodyTypeOK, SweepRecord
<1>2. ASSUME sweep'.left \subseteq sweep.left PROVE Listed'
  BY <1>1, <1>2, <1>9 DEF Listed, Began
<1>3. CASE BeginSweep \/ CoordinatorStarts
  BY <1>3 DEF BeginSweep, CoordinatorStarts, NoSweep, Superseded, Held, Listed
<1>4. CASE ReadOpen
  BY <1>4 DEF ReadOpen, NoSweep, Held, Listed
<1>5. CASE EndSweep \/ CoordinatorDies
  <2>1. sweep' = NoSweep
    BY <1>5 DEF EndSweep, CoordinatorDies
  <2> QED
    BY <2>1 DEF NoSweep, Listed
<1>6. ASSUME NEW r \in CustodyRuns, StopSuperseded(r) \/ BeginProbe(r) PROVE Listed'
  <2>1. \/ sweep' = [sweep EXCEPT !.left = sweep.left \ {r}]
        \/ sweep' = [sweep EXCEPT !.stage = "probing", !.left = sweep.left \ {r}, !.run = {r},
                                  !.seen = {runTurn[r]}]
    BY <1>6 DEF StopSuperseded, BeginProbe
  <2>2. sweep'.left = sweep.left \ {r}
    BY <2>1, <1>9
  <2>3. sweep'.left \subseteq sweep.left
    BY <2>2
  <2> QED
    BY <2>3, <1>2
<1>7. ASSUME NEW r \in CustodyRuns, NEW seen \in sweep.seen, EndProbe(r, seen) PROVE Listed'
  <2>1. sweep'.left \subseteq sweep.left
    BY <1>7, <1>9 DEF EndProbe, NextOpen
  <2> QED
    BY <2>1, <1>2
<1>8. ASSUME NEW r \in CustodyRuns,
            AcceptInput(r) \/ AcquireSessionTurn(r) \/ ClaimQueuedTurn(r) \/
            AdmitToProvider(r) \/ RetainExecutionIntent(r) \/ Launch(r) \/
            RecordExecutionLaunched(r) \/ AgentStops(r) \/
            RecordExecutionExited(r) \/ FinishRun(r) \/ RunFails(r) \/
            UnwindRun(r) \/ HeldAttempt(r)
     PROVE Listed'
  BY <1>8, <1>2 DEF AcceptInput, AcquireSessionTurn, ClaimQueuedTurn, AdmitToProvider,
       RetainExecutionIntent,
     Launch, RecordExecutionLaunched, AgentStops, RecordExecutionExited, FinishRun,
     RunFails, UnwindRun, HeldAttempt
<1> QED
  BY <1>3, <1>4, <1>5, <1>6, <1>7, <1>8 DEF CustodyNext

-----------------------------------------------------------------------------
(* What happens while no coordinator serves.                                 *)

\* The steps that only a serving coordinator takes, or that are about a run it follows.
ServingStep ==
    \/ \E r \in CustodyRuns : AcceptInput(r) \/ AcquireSessionTurn(r) \/ ClaimQueuedTurn(r)
    \/ \E r \in CustodyRuns : AdmitToProvider(r) \/ RetainExecutionIntent(r) \/ Launch(r)
    \/ \E r \in CustodyRuns : RecordExecutionLaunched(r) \/ RecordExecutionExited(r)
    \/ \E r \in CustodyRuns : FinishRun(r) \/ RunFails(r) \/ UnwindRun(r) \/ HeldAttempt(r)

LEMMA ServesOnlyServing ==
    ASSUME Alone, ServingStep
    PROVE  Serving /\ coordinator' = coordinator
<1>1. CASE \E r \in CustodyRuns : AcceptInput(r) \/ AcquireSessionTurn(r) \/ ClaimQueuedTurn(r)
  BY <1>1 DEF AcceptInput, AcquireSessionTurn, ClaimQueuedTurn
<1>2. CASE \E r \in CustodyRuns : AdmitToProvider(r) \/ RetainExecutionIntent(r) \/ Launch(r)
  BY <1>2 DEF AdmitToProvider, RetainExecutionIntent, Launch, Alone, Serving
<1>3. CASE \E r \in CustodyRuns : RecordExecutionLaunched(r) \/ RecordExecutionExited(r)
  BY <1>3 DEF RecordExecutionLaunched, RecordExecutionExited, Alone, Serving
<1>4. CASE \E r \in CustodyRuns : FinishRun(r) \/ RunFails(r) \/ UnwindRun(r) \/ HeldAttempt(r)
  BY <1>4 DEF FinishRun, RunFails, UnwindRun, HeldAttempt, Alone, Serving
<1> QED
  BY <1>1, <1>2, <1>3, <1>4 DEF ServingStep

LEMMA StepsOfNext ==
    ASSUME CustodyNext
    PROVE  \/ ServingStep
           \/ \E r \in CustodyRuns : AgentStops(r)
           \/ \E r \in CustodyRuns : StopSuperseded(r)
           \/ \E r \in CustodyRuns : BeginProbe(r)
           \/ \E r \in CustodyRuns, seen \in sweep.seen : EndProbe(r, seen)
           \/ BeginSweep \/ ReadOpen \/ EndSweep \/ CoordinatorDies \/ CoordinatorStarts
BY DEF CustodyNext, ServingStep

LEMMA HostsWhileSwept ==
    ASSUME CustodyTypeOK, NEW r \in CustodyRuns, AgentStops(r) \/ StopSuperseded(r)
    PROVE  \A q \in CustodyRuns : AgentWorks(q)' => AgentWorks(q)
<1>1. agentHost \in [CustodyRuns -> {"none", "working", "exited", "gone"}]
  BY DEF CustodyTypeOK
<1>2. CASE AgentStops(r)
  BY <1>1, <1>2 DEF AgentStops, AgentWorks
<1>3. CASE StopSuperseded(r)
  <2>1. \/ agentHost' = agentHost
        \/ agentHost' = [agentHost EXCEPT ![r] = IF agentHost[r] = "working" THEN "exited" ELSE agentHost[r]]
    BY <1>3, Zenon DEF StopSuperseded
  <2> QED
    BY <1>1, <2>1 DEF AgentWorks
<1> QED
  BY <1>2, <1>3

\* The kind of a turn is settled when it is accepted.
LEMMA KindStays ==
    ASSUME CustodyTypeOK, NEW r \in CustodyRuns, NEW seen \in sweep.seen, StopSuperseded(r) \/ EndProbe(r, seen)
    PROVE  \A q \in CustodyRuns : runTurn'[q].native = runTurn[q].native
<1>1. /\ DOMAIN runTurn = CustodyRuns
      /\ \A q \in CustodyRuns : DOMAIN runTurn[q] = {"native", "status", "owner", "entered"}
  BY RowFields
<1>2. \/ runTurn' = runTurn
      \/ runTurn' = [runTurn EXCEPT ![r].status = "interrupted"]
      \/ runTurn' = TakenBack(r)
  <2>1. CASE StopSuperseded(r)
    BY <2>1, Zenon DEF StopSuperseded
  <2>2. CASE EndProbe(r, seen)
    BY <2>2, Zenon DEF EndProbe
  <2> QED
    BY <2>1, <2>2
<1>3. CASE runTurn' = TakenBack(r)
  <2>1. /\ runTurn'[r] = [runTurn[r] EXCEPT !.status = "running", !.owner = coordinator.id]
        /\ \A q \in CustodyRuns : q # r => runTurn'[q] = runTurn[q]
    BY <1>1, <1>3 DEF TakenBack
  <2>2. runTurn'[r].native = runTurn[r].native
    BY <1>1, <2>1
  <2> QED
    BY <2>1, <2>2
<1> QED
  BY <1>1, <1>2, <1>3

LEMMA AloneStep ==
    ASSUME CustodyTypeOK, Alone, CustodyNext
    PROVE  Alone'
<1>1. CASE ServingStep
  BY <1>1, ServesOnlyServing DEF Alone, Serving
<1>2. ASSUME NEW r \in CustodyRuns, AgentStops(r) PROVE Alone'
  <2>1. UNCHANGED <<runTurn, coordinator, following, watched, sweep>>
    BY <1>2 DEF AgentStops
  <2> QED
    BY <2>1, <1>2, HostsWhileSwept DEF Alone
<1>3. ASSUME NEW r \in CustodyRuns, StopSuperseded(r) PROVE Alone'
  <2>1. sweep.stage = "superseded" /\ UNCHANGED <<coordinator, following, watched>>
    BY <1>3 DEF StopSuperseded
  <2>2. \/ runTurn' = runTurn
        \/ runTurn' = [runTurn EXCEPT ![r].status = "interrupted"]
    BY <1>3, Zenon DEF StopSuperseded
  <2>3. \A q \in CustodyRuns : runTurn'[q].native = runTurn[q].native
    BY <2>2, RowFields
  <2> QED
    BY <2>1, <2>3, <1>3, HostsWhileSwept DEF Alone
<1>4. ASSUME NEW r \in CustodyRuns, BeginProbe(r) PROVE Alone'
  <2>1. sweep.stage = "open" /\ UNCHANGED <<runTurn, agentHost, coordinator, following, watched>>
    BY <1>4 DEF BeginProbe
  <2> QED
    BY <2>1 DEF Alone, AgentWorks
<1>5. ASSUME NEW r \in CustodyRuns, NEW seen \in sweep.seen, EndProbe(r, seen) PROVE Alone'
  <2>1. sweep.stage = "probing" /\ UNCHANGED <<agentHost, coordinator, following, watched>>
    BY <1>5 DEF EndProbe
  <2> QED
    BY <2>1, <1>5, KindStays DEF Alone, AgentWorks
<1>6. CASE BeginSweep \/ ReadOpen
  <2>1. (coordinator.phase # "down" \/ sweep.stage = "superseded")
          /\ UNCHANGED <<runTurn, agentHost, coordinator, following, watched>>
    BY <1>6 DEF BeginSweep, ReadOpen
  <2> QED
    BY <2>1 DEF Alone, AgentWorks
<1>7. CASE EndSweep
  <2>1. Serving' /\ (Serving => coordinator' = coordinator)
    BY <1>7 DEF EndSweep, Serving, CustodyTypeOK
  <2> QED
    BY <2>1 DEF Alone, Serving
<1>8. CASE CoordinatorDies
  <2>1. sweep'.stage = "off"
    BY <1>8 DEF CoordinatorDies, NoSweep
  <2>2. following' = {} /\ watched' = {} /\ runTurn' = runTurn
    BY <1>8 DEF CoordinatorDies
  <2>3. \A q \in CustodyRuns : AgentWorks(q)' => runTurn[q].native
    BY <1>8 DEF CoordinatorDies, AgentWorks
  <2> QED
    BY <2>1, <2>2, <2>3 DEF Alone
<1>9. CASE CoordinatorStarts
  BY <1>9 DEF CoordinatorStarts, Alone, AgentWorks
<1> QED
  BY <1>1, <1>2, <1>3, <1>4, <1>5, <1>6, <1>7, <1>8, <1>9, StepsOfNext

LEMMA RecoversStep ==
    ASSUME CustodyTypeOK, Alone, Recovers, AgentHasCustody, CustodyNext
    PROVE  Recovers'
<1>1. /\ sweep \in SweepRecord /\ DOMAIN sweep = {"stage", "left", "run", "seen", "adopted", "held"}
      /\ runTurn \in [CustodyRuns -> TurnRecord]
  BY DEF CustodyTypeOK, SweepRecord
<1>2. CASE ServingStep
  BY <1>2, ServesOnlyServing DEF Recovers, Serving
<1>3. ASSUME NEW r \in CustodyRuns, AgentStops(r) PROVE Recovers'
  <2>1. UNCHANGED <<runTurn, coordinator, sweep>>
    BY <1>3 DEF AgentStops
  <2> QED
    BY <2>1, <1>3, HostsWhileSwept DEF Recovers, Mine, TurnStatus
<1>4. ASSUME NEW r \in CustodyRuns, StopSuperseded(r) PROVE Recovers'
  <2>1. sweep' = [sweep EXCEPT !.left = sweep.left \ {r}] /\ sweep.stage = "superseded"
    BY <1>4 DEF StopSuperseded
  <2>2. sweep'.stage = "superseded"
    BY <2>1, <1>1
  <2> QED
    BY <2>2 DEF Recovers
<1>5. ASSUME NEW r \in CustodyRuns, BeginProbe(r), coordinator.phase = "recovering" PROVE Recovers'
  <2>1. sweep.stage = "open" /\ UNCHANGED <<runTurn, execution, agentHost, coordinator>>
    BY <1>5 DEF BeginProbe
  <2>2. CASE Mine(r)
    <3>1. sweep' = [sweep EXCEPT !.left = sweep.left \ {r}]
      BY <1>5, <2>2 DEF BeginProbe
    <3>2. sweep'.stage = "open" /\ sweep'.left = sweep.left \ {r}
      BY <3>1, <2>1, <1>1
    <3> QED
      BY <3>2, <2>1, <2>2, <1>5 DEF Recovers, AgentWorks, Mine, TurnStatus
  <2>3. CASE ~Mine(r)
    <3>1. sweep' = [sweep EXCEPT !.stage = "probing", !.left = sweep.left \ {r}, !.run = {r},
                                 !.seen = {runTurn[r]}]
      BY <1>5, <2>3 DEF BeginProbe
    <3>2. /\ sweep'.stage = "probing" /\ sweep'.left = sweep.left \ {r}
          /\ sweep'.run = {r} /\ sweep'.seen = {runTurn[r]}
      BY <3>1, <1>1
    <3> QED
      BY <3>2, <2>1, <1>5 DEF Recovers, AgentWorks, Mine, TurnStatus
  <2> QED
    BY <2>2, <2>3
<1>6. ASSUME NEW r \in CustodyRuns, NEW seen \in sweep.seen, EndProbe(r, seen), coordinator.phase = "recovering"
      PROVE  Recovers'
  <2>1. PICK adopts \in SUBSET CustodyRuns, holds \in SUBSET CustodyRuns : NextOpen(adopts, holds)
    BY <1>6 DEF EndProbe
  <2>2. sweep'.stage = "open" /\ sweep'.left = sweep.left
    BY <2>1, <1>1 DEF NextOpen
  <2>3. sweep.stage = "probing" /\ r \in sweep.run /\ UNCHANGED <<agentHost, coordinator>>
    BY <1>6 DEF EndProbe
  <2>4. seen = runTurn[r] /\ sweep.run = {r}
    BY <2>3, <1>6 DEF Recovers
  <2>5. AgentWorks(r) /\ TurnStatus(r) = "running" => runTurn' = TakenBack(r)
    BY <1>6, <2>4 DEF EndProbe, MayTakeBack, AgentWorks, TurnStatus
  <2>6. runTurn' = runTurn \/ runTurn' = TakenBack(r)
    BY <1>6, Zenon DEF EndProbe
  <2>7. runTurn' = TakenBack(r) => Mine(r)' /\ \A q \in CustodyRuns \ {r} : runTurn'[q] = runTurn[q]
    BY <2>3, RowFields DEF TakenBack, Mine, TurnStatus
  <2>8. \A q \in CustodyRuns : AgentWorks(q)' /\ TurnStatus(q)' = "running" /\ ~Mine(q)' => q \in sweep'.left
    <3> SUFFICES ASSUME NEW q \in CustodyRuns, AgentWorks(q)', TurnStatus(q)' = "running", ~Mine(q)'
                 PROVE  q \in sweep.left
      BY <2>2
    <3>1. q # r
      BY <2>3, <2>5, <2>6, <2>7 DEF AgentWorks, TurnStatus
    <3>2. runTurn'[q] = runTurn[q]
      BY <3>1, <2>6, <2>7
    <3>3. AgentWorks(q) /\ TurnStatus(q) = "running" /\ ~Mine(q)
      BY <3>2, <2>3 DEF AgentWorks, TurnStatus, Mine
    <3> QED
      BY <3>1, <3>3, <2>3, <2>4, <1>6 DEF Recovers
  <2> QED
    BY <2>2, <2>8 DEF Recovers
<1>7. CASE ReadOpen /\ coordinator.phase = "recovering"
  <2>1. sweep'.stage = "open" /\ UNCHANGED <<runTurn, execution, agentHost, coordinator>>
    BY <1>7 DEF ReadOpen, NoSweep
  <2>2. sweep'.left = {r \in CustodyRuns :
                          /\ Held(r)
                          /\ \/ TurnStatus(r) = "running" /\ ~Serving
                             \/ TurnStatus(r) = "parked" /\ runTurn[r].native /\ ~LaterEntered(r)}
    BY <1>7 DEF ReadOpen, NoSweep
  <2>3. \A q \in CustodyRuns : AgentWorks(q) => Held(q)
    BY <1>7 DEF Alone, AgentHasCustody, AgentWorks, Held
  <2>4. \A q \in CustodyRuns : AgentWorks(q) /\ TurnStatus(q) = "running" => q \in sweep'.left
    BY <2>2, <2>3, <1>7 DEF Serving
  <2> QED
    BY <2>1, <2>4 DEF Recovers, AgentWorks, TurnStatus
<1>8. CASE BeginSweep
  BY <1>8 DEF BeginSweep, Recovers
<1>9. CASE EndSweep
  <2>1. Serving' /\ (Serving => coordinator' = coordinator)
    BY <1>9 DEF EndSweep, Serving, CustodyTypeOK
  <2> QED
    BY <2>1 DEF Recovers, Serving
<1>10. CASE CoordinatorDies
  <2>1. coordinator'.phase = "down"
    BY <1>10 DEF CoordinatorDies, CustodyTypeOK
  <2> QED
    BY <2>1 DEF Recovers
<1>11. CASE CoordinatorStarts
  <2>1. sweep'.stage = "superseded"
    BY <1>11 DEF CoordinatorStarts, NoSweep
  <2> QED
    BY <2>1 DEF Recovers
<1>12. ASSUME coordinator' = coordinator, coordinator.phase # "recovering" PROVE Recovers'
  BY <1>12 DEF Recovers
<1>13. ASSUME NEW r \in CustodyRuns, NEW seen \in sweep.seen, BeginProbe(r) \/ EndProbe(r, seen) \/ ReadOpen
       PROVE  coordinator' = coordinator
  BY <1>13 DEF BeginProbe, EndProbe, ReadOpen
<1>14. ASSUME NEW r \in CustodyRuns, BeginProbe(r) PROVE coordinator' = coordinator
  BY <1>14 DEF BeginProbe
<1>15. CASE ReadOpen
  <2>1. coordinator' = coordinator
    BY <1>15 DEF ReadOpen
  <2> QED
    BY <2>1, <1>7, <1>12, <1>15
<1> QED
  BY <1>2, <1>3, <1>4, <1>5, <1>6, <1>8, <1>9, <1>10, <1>11, <1>12, <1>13, <1>14, <1>15,
       StepsOfNext

-----------------------------------------------------------------------------
(* Custody.                                                                  *)

InCustody(q) ==
    AgentWorks(q) =>
        IF runTurn[q].native THEN TurnStatus(q) \in {"running", "parked"} /\ execution[q] \in {"intended", "live"}
        ELSE TurnStatus(q) = "running"

\* Nothing changes for an agent whose row and execution stay.
LEMMA CustodyStays ==
    ASSUME NEW q, InCustody(q), AgentWorks(q)' => AgentWorks(q),
           AgentWorks(q)' => runTurn'[q] = runTurn[q] /\ execution'[q] = execution[q]
    PROVE  InCustody(q)'
BY DEF InCustody, TurnStatus

LEMMA AgentHasCustodyStep ==
    ASSUME CustodyTypeOK, Reached, Alone, Recovers, AgentHasCustody, CustodyNext
    PROVE  AgentHasCustody'
<1>1. AgentHasCustody <=> \A q \in CustodyRuns : InCustody(q)
  BY DEF AgentHasCustody, InCustody, AgentWorks
<1>2. (\A q \in CustodyRuns : InCustody(q)') => AgentHasCustody'
  BY DEF AgentHasCustody, InCustody, AgentWorks
<1> SUFFICES ASSUME NEW q \in CustodyRuns PROVE InCustody(q)'
  BY <1>2
<1>3. InCustody(q)
  BY <1>1
<1>4. /\ DOMAIN runTurn = CustodyRuns
      /\ \A r \in CustodyRuns : DOMAIN runTurn[r] = {"native", "status", "owner", "entered"}
      /\ execution \in [CustodyRuns -> {"none", "intended", "live", "exited", "released", "lost"}]
      /\ agentHost \in [CustodyRuns -> {"none", "working", "exited", "gone"}]
  BY RowFields DEF CustodyTypeOK
<1>5. ASSUME NEW r \in CustodyRuns, NEW row, runTurn' = [runTurn EXCEPT ![r] = row], ~AgentWorks(r),
             UNCHANGED <<execution, agentHost>>
      PROVE  InCustody(q)'
  BY <1>3, <1>4, <1>5, CustodyStays DEF AgentWorks
<1>6. ASSUME UNCHANGED <<runTurn, execution, agentHost>> PROVE InCustody(q)'
  BY <1>3, <1>6, CustodyStays DEF AgentWorks
<1>7. ASSUME NEW S, \A r \in S : agentHost[r] # "working", execution' = ReleasedRows(S) PROVE AgentWorks(q) => execution'[q] = execution[q]
  BY <1>7 DEF ReleasedRows, AgentWorks
<1>8. ASSUME NEW r \in CustodyRuns, AcceptInput(r) \/ AcquireSessionTurn(r) \/ ClaimQueuedTurn(r) PROVE InCustody(q)'
  <2>1. TurnStatus(r) \in {"absent", "queued"} /\ UNCHANGED <<execution, agentHost>>
    BY <1>8 DEF AcceptInput, AcquireSessionTurn, ClaimQueuedTurn
  <2>2. ~AgentWorks(r)
    BY <2>1, <1>1 DEF InCustody
  <2>3. q # r => runTurn'[q] = runTurn[q]
    <3>1. CASE AcceptInput(r)
      BY <3>1, <1>4 DEF AcceptInput
    <3>2. CASE AcquireSessionTurn(r)
      BY <3>2, <1>4 DEF AcquireSessionTurn
    <3>3. CASE ClaimQueuedTurn(r)
      BY <3>3, <1>4 DEF ClaimQueuedTurn
    <3> QED
      BY <3>1, <3>2, <3>3, <1>8
  <2> QED
    BY <2>1, <2>2, <2>3, <1>3, CustodyStays DEF AgentWorks
<1>9. ASSUME NEW r \in CustodyRuns, AdmitToProvider(r) PROVE InCustody(q)'
  BY <1>3, <1>4, <1>9 DEF AdmitToProvider, InCustody, AgentWorks, TurnStatus
<1>10. ASSUME NEW r \in CustodyRuns, RetainExecutionIntent(r) PROVE InCustody(q)'
  BY <1>3, <1>4, <1>10 DEF RetainExecutionIntent, InCustody, AgentWorks, TurnStatus
<1>11. ASSUME NEW r \in CustodyRuns, Launch(r) PROVE InCustody(q)'
  BY <1>3, <1>4, <1>11 DEF Launch, Mine, InCustody, AgentWorks, TurnStatus
<1>12. ASSUME NEW r \in CustodyRuns, RecordExecutionLaunched(r) PROVE InCustody(q)'
  BY <1>3, <1>4, <1>12 DEF RecordExecutionLaunched, InCustody, AgentWorks, TurnStatus
<1>13. ASSUME NEW r \in CustodyRuns, AgentStops(r) PROVE InCustody(q)'
  BY <1>3, <1>4, <1>13 DEF AgentStops, InCustody, AgentWorks, TurnStatus
<1>14. ASSUME NEW r \in CustodyRuns, RecordExecutionExited(r) PROVE InCustody(q)'
  BY <1>3, <1>4, <1>14 DEF RecordExecutionExited, InCustody, AgentWorks, TurnStatus
<1>15. ASSUME NEW r \in CustodyRuns, FinishRun(r) PROVE InCustody(q)'
  BY <1>3, <1>4, <1>15 DEF FinishRun, InCustody, AgentWorks, TurnStatus
<1>16. ASSUME NEW r \in CustodyRuns, RunFails(r) PROVE InCustody(q)'
  <2>1. AgentWorks(r) => runTurn[r].native /\ runTurn[r].entered
    BY <1>1, <1>16 DEF RunFails, InCustody, AgentWorks, Reached
  <2> QED
    BY <1>3, <1>4, <1>16, <2>1 DEF RunFails, Mine, InCustody, AgentWorks, TurnStatus
<1>17. ASSUME NEW r \in CustodyRuns, UnwindRun(r) PROVE InCustody(q)'
  <2>1. PICK S \in SUBSET {run \in {r} : Releasable(run)} : execution' = ReleasedRows(S)
    BY <1>17 DEF UnwindRun
  <2>2. AgentWorks(q) => execution'[q] = execution[q]
    BY <2>1, <1>7 DEF Releasable
  <2>3. UNCHANGED <<runTurn, agentHost>>
    BY <1>17 DEF UnwindRun
  <2> QED
    BY <2>2, <2>3, <1>3, CustodyStays DEF AgentWorks
<1>18. ASSUME NEW r \in CustodyRuns, StopSuperseded(r) PROVE InCustody(q)'
  <2>1. CASE UNCHANGED <<runTurn, execution, agentHost>>
    BY <2>1, <1>6
  <2>2. CASE agentHost' = [agentHost EXCEPT ![r] = IF agentHost[r] = "working" THEN "exited" ELSE agentHost[r]]
    <3>1. ~AgentWorks(r)' /\ (AgentWorks(q)' => AgentWorks(q))
      BY <2>2, <1>4 DEF AgentWorks
    <3>2. \/ runTurn' = runTurn
          \/ runTurn' = [runTurn EXCEPT ![r].status = "interrupted"]
          \/ UNCHANGED <<runTurn, execution, agentHost>>
      BY <1>18, Zenon DEF StopSuperseded
    <3>3. \/ execution' = execution \/ execution' = [execution EXCEPT ![r] = "lost"]
          \/ execution' = ReleasedRows({r})
      BY <1>18 DEF StopSuperseded
    <3>4. q # r => runTurn'[q] = runTurn[q] /\ execution'[q] = execution[q]
      BY <3>2, <3>3, <1>4 DEF ReleasedRows
    <3> QED
      BY <3>1, <3>4, <1>3, CustodyStays
  <2> QED
    BY <1>18, <2>1, <2>2, Zenon DEF StopSuperseded
<1>19. ASSUME NEW r \in CustodyRuns, BeginProbe(r) PROVE InCustody(q)'
  BY <1>19, <1>6 DEF BeginProbe
<1>20. ASSUME NEW r \in CustodyRuns, NEW seen \in sweep.seen, EndProbe(r, seen) PROVE InCustody(q)'
  <2>1. agentHost' = agentHost /\ (runTurn' = runTurn \/ runTurn' = TakenBack(r))
    BY <1>20, Zenon DEF EndProbe
  <2>2. /\ q # r => runTurn'[q] = runTurn[q]
        /\ runTurn'[q].native = runTurn[q].native
        /\ TurnStatus(q)' = TurnStatus(q) \/ TurnStatus(q)' = "running"
    <3>1. CASE runTurn' = runTurn
      BY <3>1 DEF TurnStatus
    <3>2. CASE runTurn' = TakenBack(r)
      <4>1. /\ runTurn'[r] = [runTurn[r] EXCEPT !.status = "running", !.owner = coordinator.id]
            /\ q # r => runTurn'[q] = runTurn[q]
        BY <1>4, <3>2 DEF TakenBack
      <4>2. runTurn'[r].native = runTurn[r].native /\ runTurn'[r].status = "running"
        BY <1>4, <4>1
      <4> QED
        BY <4>1, <4>2 DEF TurnStatus
    <3> QED
      BY <2>1, <3>1, <3>2
  <2>3. \/ execution' = execution
        \/ agentHost[r] \in {"none", "gone"} /\ execution' = [execution EXCEPT ![r] = "lost"]
        \/ execution[r] = "intended" /\ execution' = [execution EXCEPT ![r] = "live"]
    BY <1>20 DEF EndProbe
  <2>4. AgentWorks(q) => execution'[q] = execution[q] \/ execution'[q] = "live"
    BY <2>3, <1>4 DEF AgentWorks
  <2> QED
    BY <2>1, <2>2, <2>4, <1>3 DEF InCustody, AgentWorks
<1>21. CASE EndSweep
  <2>1. CASE Serving
    BY <2>1, <1>21, <1>6 DEF EndSweep
  <2>2. CASE ~Serving
    <3>1. PICK S \in SUBSET {r \in CustodyRuns : Releasable(r) /\ TurnStatus(r) # "running"} :
              execution' = ReleasedRows(S)
      BY <1>21, <2>2 DEF EndSweep
    <3>2. AgentWorks(q) => execution'[q] = execution[q]
      BY <3>1, <1>7 DEF Releasable
    <3>3. sweep.stage = "open" /\ sweep.left = {} /\ agentHost' = agentHost
      BY <1>21 DEF EndSweep
    <3>4. coordinator.phase = "recovering"
      BY <3>3, <2>2 DEF Alone, Serving, CustodyTypeOK
    <3>5. AgentWorks(q) => TurnStatus(q) # "running" \/ Mine(q)
      BY <3>3, <3>4 DEF Recovers
    <3>6. runTurn' = [r \in CustodyRuns |->
              IF TurnStatus(r) # "running" \/ Mine(r) THEN runTurn[r]
              ELSE [runTurn[r] EXCEPT !.status = IF runTurn[r].entered THEN "interrupted" ELSE "queued",
                                      !.owner = 0]]
      BY <1>21, <2>2 DEF EndSweep
    <3>7. AgentWorks(q) => runTurn'[q] = runTurn[q]
      BY <3>5, <3>6
    <3> QED
      BY <3>2, <3>3, <3>7, <1>3, CustodyStays DEF AgentWorks
  <2> QED
    BY <2>1, <2>2
<1>22. ASSUME NEW r \in CustodyRuns, HeldAttempt(r) PROVE InCustody(q)'
  <2>1. CASE agentHost[r] = "gone"
    <3>1. \/ runTurn' = runTurn
          \/ runTurn' = [runTurn EXCEPT ![r] = [@ EXCEPT !.status = "interrupted", !.owner = 0]]
      BY <1>22, <2>1 DEF HeldAttempt
    <3>2. execution' = execution \/ execution' = [execution EXCEPT ![r] = "lost"]
      BY <1>22, <2>1 DEF HeldAttempt
    <3>3. agentHost' = agentHost /\ (AgentWorks(q) => q # r)
      BY <1>22, <2>1 DEF HeldAttempt, AgentWorks
    <3>4. q # r => runTurn'[q] = runTurn[q] /\ execution'[q] = execution[q]
      BY <3>1, <3>2, <1>4
    <3> QED
      BY <3>3, <3>4, <1>3, CustodyStays DEF AgentWorks
  <2>2. CASE agentHost[r] # "gone"
    BY <1>22, <2>2, <1>6 DEF HeldAttempt
  <2> QED
    BY <2>1, <2>2
<1>23. CASE CoordinatorDies
  <2>1. AgentWorks(q)' => AgentWorks(q)
    BY <1>23 DEF CoordinatorDies, AgentWorks
  <2>2. UNCHANGED <<runTurn, execution>>
    BY <1>23 DEF CoordinatorDies
  <2> QED
    BY <2>1, <2>2, <1>3, CustodyStays
<1>24. CASE BeginSweep \/ ReadOpen \/ CoordinatorStarts
  BY <1>24, <1>6 DEF BeginSweep, ReadOpen, CoordinatorStarts
<1> QED
  BY <1>8, <1>9, <1>10, <1>11, <1>12, <1>13, <1>14, <1>15, <1>16, <1>17, <1>18, <1>19, <1>20,
       <1>21,
     <1>22, <1>23, <1>24 DEF CustodyNext

LEMMA CustodyInvStep == CustodyTypeOK /\ CustodyInv /\ [CustodyNext]_custodyVars => CustodyInv'
<1> SUFFICES ASSUME CustodyTypeOK, CustodyInv, [CustodyNext]_custodyVars PROVE CustodyInv'
  OBVIOUS
<1>1. CASE CustodyNext
  BY <1>1, OrderInvStep, ListedStep, AloneStep, RecoversStep, AgentHasCustodyStep
       DEF CustodyInv, OrderInv
<1>2. CASE UNCHANGED custodyVars
  BY <1>2 DEF custodyVars, CustodyInv, OrderInv, OneRuns, AcceptedInOrder, RunsInOrder,
       NoneEnteredLater, Reached,
     ToRun, LaterEntered, TurnStatus, Listed, Alone, Recovers, AgentHasCustody, AgentWorks, Mine
<1> QED
  BY <1>1, <1>2

LEMMA CustodyInvInit == CustodyInit => CustodyInv
<1> SUFFICES ASSUME CustodyInit PROVE CustodyInv
  OBVIOUS
<1>1. OrderInv
  BY OrderInvInit
<1>2. Listed /\ Alone /\ Recovers
  BY DEF CustodyInit, NoSweep, Listed, Alone, Recovers, AgentWorks
<1>3. AgentHasCustody
  BY DEF CustodyInit, AgentHasCustody
<1> QED
  BY <1>1, <1>2, <1>3 DEF CustodyInv

LEMMA CustodyInvariant == CustodySpec => [](CustodyTypeOK /\ CustodyInv)
BY CustodyTypeInit, CustodyTypeStep, CustodyInvInit, CustodyInvStep, PTL DEF CustodySpec

\* No death of a coordinator, probe or error, in whatever order, leaves an agent at work whose
\* turn the ledger takes for one that is over or never began (executions.ts).
THEOREM WorkingAgentsAreHeld == CustodySpec => []AgentHasCustody
<1>1. CustodyTypeOK /\ CustodyInv => AgentHasCustody
  BY DEF CustodyInv
<1> QED
  BY <1>1, CustodyInvariant, PTL

\* A run that is going is the latest turn of its conversation: none is taken back, at startup or
\* from parking, behind a turn that came after it.
THEOREM RunsAreLatest == CustodySpec => []LatestEntrantRuns
<1>1. CustodyTypeOK /\ CustodyInv => LatestEntrantRuns
  BY DEF CustodyInv, OrderInv, NoneEnteredLater, ToRun, LatestEntrantRuns
<1> QED
  BY <1>1, CustodyInvariant, PTL

LEMMA QueueWaitsStep ==
    ASSUME CustodyTypeOK, CustodyInv, CustodyNext,
           NEW r \in CustodyRuns, TurnStatus(r) = "queued", TurnStatus(r)' = "running"
    PROVE  \A other \in CustodyRuns \ {r} : agentHost[other] # "working"
<1>1. TurnRowsMove
  BY TurnRowsMoveOfNext DEF CustodyInv, OrderInv
<1>2. ~LiveBeside(r) /\ ~HeldParked
  <2>1. runTurn[r].status = "queued" /\ runTurn'[r].status = "running"
    BY DEF TurnStatus
  <2>2. ~Stays(r) /\ ~TurnEnds(r) /\ ~Requeues(r) /\ ~TakesBack(r) /\ ~ComesIn(r)
    BY <2>1 DEF Stays, TurnEnds, Requeues, TakesBack, ComesIn, TurnStatus
  <2>3. PICK q \in CustodyRuns : OneRowMoves(q)
    BY <1>1, <2>2 DEF TurnRowsMove
  <2>4. q = r
    BY <2>2, <2>3 DEF OneRowMoves
  <2>5. Starts(r)
    BY <2>1, <2>2, <2>3, <2>4 DEF OneRowMoves, TurnStatus
  <2> QED
    BY <2>2, <2>5 DEF Starts
<1> SUFFICES ASSUME NEW other \in CustodyRuns \ {r}, agentHost[other] = "working" PROVE FALSE
  OBVIOUS
<1>3. TurnStatus(other) # "running"
  BY <1>2 DEF LiveBeside
<1>4. TurnStatus(other) = "parked" /\ execution[other] \in {"intended", "live"}
  BY <1>3 DEF CustodyInv, AgentHasCustody
<1> QED
  BY <1>2, <1>4 DEF HeldParked, Held

\* A turn that leaves the queue finds no other agent of its conversation at work, held by another
\* process or by none (claimQueuedSessionTurn).
THEOREM QueueWaits == CustodySpec => QueueWaitsForAgent
<1>1. CustodyTypeOK /\ CustodyInv /\ [CustodyNext]_custodyVars
        => [\A r \in CustodyRuns : TurnStatus(r) = "queued" /\ TurnStatus(r)' = "running" =>
              \A other \in CustodyRuns \ {r} : agentHost[other] # "working"]_custodyVars
  BY QueueWaitsStep DEF custodyVars, TurnStatus
<1> QED
  BY <1>1, CustodyInvariant, PTL DEF CustodySpec, QueueWaitsForAgent

-----------------------------------------------------------------------------
(* Proofs about deployment: a turn that asked for one is answered truly, and  *)
(* what a run activates is what it desires, for any number of runs, requests  *)
(* and commits and whatever runner or supervisor dies.                        *)

RunStatus == {"prepared", "draining", "updating", "restarting", "verifying", "releasing", "absent", "succeeded", "failed",
              "ambiguous"}
DeployRow == [status : RunStatus, desired : Nat, owner : {"none", "runner", "supervisor"},
              activation : {"none", "intended", "active"}, candidate : Nat, deployed : Nat,
              repair : {"none", "restored", "repairing", "retrying", "parked"}, incident : {"none", "open", "closed"},
              failed : Nat, same : Nat, fix : Nat, attempts : Nat]
RequestRow == [run : DeployRuns \cup {NoRun}, expected : Nat,
               status : {"none", "pending", "included", "not_included", "failed"}]
RunnerSteps == {"gone", "claim", "drain", "recover", "checkout", "build", "intend", "refused", "activate", "restart",
                "verify", "release", "promote", "succeed", "answer", "fail"}
RunnerRow == [run : DeployRuns \cup {NoRun}, step : RunnerSteps, commit : Nat]
SupervisorRow == [run : DeployRuns \cup {NoRun}, step : {"gone", "claim", "repair", "integrated", "retry"}]

DeployTypes ==
    /\ mainHead \in Nat /\ desiredCommit \in Nat
    /\ deployRun \in [DeployRuns -> DeployRow] /\ deployRequest \in [DeployRequests -> RequestRow]
    /\ deployRunner \in RunnerRow /\ supervisor \in SupervisorRow
    /\ completion \subseteq [run : DeployRuns, commit : Nat, asked : SUBSET DeployRequests]

RunActive(r) == Status(r) \in ActiveStatuses

(* What a run of the ledger shows.                                            *)
RunOK(r) ==
    /\ Status(r) = "absent" => deployRun[r].activation = "none"
    /\ Status(r) = "succeeded" => deployRun[r].incident # "open"
    /\ RunActive(r) /\ deployRun[r].activation # "none" /\ deployRun[r].desired # NoCommit =>
          deployRun[r].candidate = deployRun[r].desired

(* A request waits exactly while its run goes on.                             *)
RequestOK(q) ==
    LET r == deployRequest[q].run
    IN  r # NoRun => /\ Status(r) # "absent"
                     /\ deployRequest[q].status = "pending" <=> RunActive(r)
                     /\ Status(r) = "succeeded" =>
                           (deployRequest[q].status = "included" <=> deployRequest[q].expected <= deployRun[r].deployed)

(* A runner past its claim owns its run until it goes, and what it builds in  *)
(* a repair is what the run desires.                                          *)
RunnerOK ==
    LET r == deployRunner.run
    IN  deployRunner.step # "gone" =>
            /\ r \in DeployRuns /\ Status(r) # "absent"
            /\ RunActive(r) /\ deployRunner.step # "claim" => deployRun[r].owner = "runner"
            /\ RunActive(r) /\ deployRunner.step \in {"build", "intend"} /\ deployRun[r].repair # "none" =>
                  deployRun[r].desired \in {NoCommit, deployRunner.commit}
            /\ RunActive(r) /\ deployRunner.step = "activate" => deployRun[r].activation # "none"

SupervisorOK ==
    LET r == supervisor.run
    IN  supervisor.step # "gone" =>
            /\ r \in DeployRuns /\ Status(r) # "absent"
            /\ RunActive(r) /\ supervisor.step \in {"repair", "integrated"} => deployRun[r].owner = "supervisor"

DeployInv ==
    /\ DeployTypes /\ RunnerOK /\ SupervisorOK
    /\ \A r \in DeployRuns : RunOK(r)
    /\ \A q \in DeployRequests : RequestOK(q)

-----------------------------------------------------------------------------
(* Rows and their fields.                                                     *)

LEMMA ActiveAre ==
    ActiveStatuses = {"prepared", "draining", "updating", "restarting", "verifying", "releasing"}
BY DEF ActiveStatuses, Phases

LEMMA RunFields ==
    ASSUME DeployTypes, NEW r \in DeployRuns
    PROVE  /\ deployRun[r] \in DeployRow /\ r # NoRun /\ r \in Nat
           /\ deployRun[r].status \in RunStatus /\ deployRun[r].desired \in Nat /\ deployRun[r].candidate \in Nat
           /\ deployRun[r].deployed \in Nat /\ deployRun[r].failed \in Nat /\ deployRun[r].fix \in Nat
           /\ deployRun[r].same \in Nat /\ deployRun[r].attempts \in Nat
<1>1. deployRun[r] \in DeployRow
  BY DEF DeployTypes
<1>2. r \in Nat \ {0}
  BY DeploymentAssumption
<1> QED
  BY <1>1, <1>2 DEF DeployRow, NoRun

LEMMA DeployRowFields ==
    ASSUME NEW row \in DeployRow
    PROVE  DOMAIN row = {"status", "desired", "owner", "activation", "candidate", "deployed", "repair", "incident", "failed",
                         "same", "fix", "attempts"}
BY DEF DeployRow

LEMMA RunWritten ==
    ASSUME DeployTypes, NEW r \in DeployRuns, NEW row \in DeployRow, deployRun' = [deployRun EXCEPT ![r] = row]
    PROVE  /\ deployRun' \in [DeployRuns -> DeployRow] /\ deployRun'[r] = row
           /\ \A s \in DeployRuns : s # r => deployRun'[s] = deployRun[s]
BY DEF DeployTypes

LEMMA DriverFields ==
    ASSUME DeployTypes
    PROVE  /\ deployRunner.step \in RunnerSteps /\ deployRunner.run \in DeployRuns \cup {NoRun} /\ deployRunner.commit \in Nat
           /\ supervisor.run \in DeployRuns \cup {NoRun}
           /\ supervisor.step \in {"gone", "claim", "repair", "integrated", "retry"}
           /\ DOMAIN deployRunner = {"run", "step", "commit"} /\ DOMAIN supervisor = {"run", "step"}
BY DEF DeployTypes, RunnerRow, SupervisorRow

LEMMA RunnerMoves ==
    ASSUME DeployTypes, NEW step \in RunnerSteps, RunnerGoes(step)
    PROVE  /\ deployRunner' \in RunnerRow /\ deployRunner'.step = step
           /\ deployRunner'.run = deployRunner.run /\ deployRunner'.commit = deployRunner.commit
BY DriverFields DEF DeployTypes, RunnerGoes, RunnerRow

LEMMA SupervisorMoves ==
    ASSUME DeployTypes, NEW step \in {"gone", "claim", "repair", "integrated", "retry"}, Supervisor(step)
    PROVE  supervisor' \in SupervisorRow /\ supervisor'.step = step /\ supervisor'.run = supervisor.run
BY DriverFields DEF DeployTypes, Supervisor, SupervisorRow

LEMMA Alive ==
    ASSUME DeployInv, NEW r \in DeployRuns, ~DriverAlive(r), RunActive(r)
    PROVE  /\ deployRunner.run = r => deployRunner.step \in {"gone", "claim"}
           /\ supervisor.run = r => supervisor.step \notin {"repair", "integrated"}
BY DEF DeployInv, RunnerOK, SupervisorOK, DriverAlive, RunnerHolds, SupervisorHolds

-----------------------------------------------------------------------------
(* A row is written and every request stays as it is.                         *)

LEMMA RowMoves ==
    ASSUME DeployInv, DeployTypes', UNCHANGED deployRequest, NEW r \in DeployRuns, NEW row \in DeployRow,
           deployRun' = [deployRun EXCEPT ![r] = row],
           row.status # "absent", row.status # "succeeded" \/ (row.incident # "open" /\ row.deployed = deployRun[r].deployed),
           row.status = "succeeded" => Status(r) = "succeeded",
           Status(r) # "absent" => (row.status \in ActiveStatuses <=> RunActive(r)),
           row.status \in ActiveStatuses /\ row.activation # "none" /\ row.desired # NoCommit => row.candidate = row.desired,
           RunnerOK', SupervisorOK'
    PROVE  DeployInv'
<1>t. DeployTypes
  BY DEF DeployInv
<1>1. deployRun'[r] = row /\ \A s \in DeployRuns : s # r => deployRun'[s] = deployRun[s]
  BY <1>t, RunWritten
<1>2. ASSUME NEW s \in DeployRuns PROVE RunOK(s)'
  <2>1. RunOK(s)
    BY DEF DeployInv
  <2>2. CASE s = r
    BY <1>1, <2>2 DEF RunOK, Status, RunActive
  <2>3. CASE s # r
    BY <1>1, <2>1, <2>3 DEF RunOK, Status, RunActive
  <2> QED
    BY <2>2, <2>3
<1>3. ASSUME NEW q \in DeployRequests PROVE RequestOK(q)'
  <2>1. RequestOK(q) /\ deployRequest[q].run \in DeployRuns \cup {NoRun}
    BY <1>t DEF DeployInv, DeployTypes, RequestRow
  <2>2. CASE deployRequest[q].run = r
    BY <1>t, <1>1, <2>1, <2>2, RunFields DEF RequestOK, Status, RunActive
  <2>3. CASE deployRequest[q].run # r
    BY <1>1, <2>1, <2>3 DEF RequestOK, Status, RunActive
  <2> QED
    BY <2>2, <2>3
<1> QED
  BY <1>2, <1>3 DEF DeployInv

\* Nothing of the rows changes.
LEMMA RowsRest ==
    ASSUME DeployInv, DeployTypes', UNCHANGED <<deployRequest, deployRun>>, RunnerOK', SupervisorOK'
    PROVE  DeployInv'
<1>1. ASSUME NEW s \in DeployRuns PROVE RunOK(s)'
  BY DEF DeployInv, RunOK, Status, RunActive
<1>2. ASSUME NEW q \in DeployRequests PROVE RequestOK(q)'
  BY DEF DeployInv, RequestOK, Status, RunActive
<1> QED
  BY <1>1, <1>2 DEF DeployInv

(* A run ends badly, and its requests with it.                                *)

Rests ==
    /\ deployRunner' = deployRunner \/ RunnerGoes("gone")
    /\ supervisor' = supervisor \/ Supervisor("gone")

LEMMA FailKeeps ==
    ASSUME DeployInv, NEW r \in DeployRuns, NEW row \in DeployRow, NEW outcome \in {"failed", "ambiguous"},
           Fail(r, row, outcome), Status(r) # "absent",
           Rests, UNCHANGED <<mainHead, desiredCommit, completion>>
    PROVE  DeployInv'
<1>t. DeployTypes
  BY DEF DeployInv
<1> DEFINE over == [row EXCEPT !.status = outcome]
<1>1. over \in DeployRow /\ over.status = outcome
  BY DeployRowFields DEF DeployRow, RunStatus
<1>2. deployRun' = [deployRun EXCEPT ![r] = over]
  BY DEF Fail
<1> HIDE DEF over
<1>3. /\ deployRun' \in [DeployRuns -> DeployRow] /\ deployRun'[r] = over
      /\ \A s \in DeployRuns : s # r => deployRun'[s] = deployRun[s]
  BY <1>t, <1>1, <1>2, RunWritten
<1>4. ~RunActive(r)' /\ Status(r)' = outcome /\ \A s \in DeployRuns : s # r => Status(s)' = Status(s)
  BY <1>1, <1>3, ActiveAre DEF RunActive, Status
<1>5. ASSUME NEW q \in DeployRequests
      PROVE  deployRequest'[q] = IF deployRequest[q].run = r /\ deployRequest[q].status = "pending"
                                 THEN [deployRequest[q] EXCEPT !.status = "failed"] ELSE deployRequest[q]
  BY DEF Fail, SettleRequests, JoinedTo
<1>6. ASSUME NEW q \in DeployRequests
      PROVE  /\ deployRequest'[q] \in RequestRow /\ deployRequest'[q].run = deployRequest[q].run
             /\ deployRequest'[q].expected = deployRequest[q].expected
             /\ IF deployRequest[q].run = r /\ deployRequest[q].status = "pending" THEN deployRequest'[q].status = "failed"
                ELSE deployRequest'[q].status = deployRequest[q].status
  <2>1. deployRequest[q] \in RequestRow
    BY <1>t DEF DeployTypes
  <2> QED
    BY <1>5, <2>1 DEF RequestRow
<1>7. deployRequest' \in [DeployRequests -> RequestRow]
  <2>1. deployRequest' = [q \in DeployRequests |-> deployRequest'[q]]
    BY DEF Fail, SettleRequests
  <2> QED
    BY <1>6, <2>1
<1>8. /\ deployRunner' \in RunnerRow /\ deployRunner'.run = deployRunner.run /\ deployRunner'.commit = deployRunner.commit
      /\ deployRunner'.step \in {deployRunner.step, "gone"}
      /\ supervisor' \in SupervisorRow /\ supervisor'.run = supervisor.run /\ supervisor'.step \in {supervisor.step, "gone"}
  <2>1. "gone" \in RunnerSteps
    BY DEF RunnerSteps
  <2> QED
    BY <1>t, <2>1, RunnerMoves, SupervisorMoves DEF Rests, DeployTypes
<1>9. DeployTypes'
  BY <1>t, <1>3, <1>7, <1>8 DEF DeployTypes
<1>10. RunnerOK'
  BY <1>3, <1>4, <1>8 DEF DeployInv, RunnerOK, RunActive, Status
<1>11. SupervisorOK'
  BY <1>3, <1>4, <1>8 DEF DeployInv, SupervisorOK, RunActive, Status
<1>12. ASSUME NEW s \in DeployRuns PROVE RunOK(s)'
  BY <1>3, <1>4 DEF DeployInv, RunOK, RunActive, Status
<1>13. ASSUME NEW q \in DeployRequests PROVE RequestOK(q)'
  <2>1. RequestOK(q) /\ deployRequest[q].run \in DeployRuns \cup {NoRun}
    BY <1>t DEF DeployInv, DeployTypes, RequestRow
  <2>2. CASE deployRequest[q].run = r
    BY <1>4, <1>6, <2>1, <2>2 DEF RequestOK, RunActive, Status
  <2>3. CASE deployRequest[q].run # r
    BY <1>3, <1>6, <2>1, <2>3 DEF RequestOK, RunActive, Status
  <2> QED
    BY <2>2, <2>3
<1> QED
  BY <1>9, <1>10, <1>11, <1>12, <1>13 DEF DeployInv

LEMMA ParkKeeps ==
    ASSUME DeployInv, NEW r \in DeployRuns, NEW row \in DeployRow, Park(r, row), Status(r) # "absent",
           Rests, UNCHANGED <<mainHead, desiredCommit, completion>>
    PROVE  DeployInv'
<1> DEFINE parked == [row EXCEPT !.repair = "parked", !.incident = "closed"]
<1>1. parked \in DeployRow
  BY DEF DeployRow
<1>2. Fail(r, parked, "failed")
  BY DEF Park
<1> HIDE DEF parked
<1> QED
  BY <1>1, <1>2, FailKeeps

(* A candidate failed: its run is restored, or parked.  No runner builds it.  *)
LEMMA RepairBegins ==
    ASSUME DeployInv, NEW r \in DeployRuns, NEW failedCommit \in Nat, BeginRepair(r, failedCommit),
           Rests, deployRunner.run = r => deployRunner'.step \in {"gone", "claim"},
           UNCHANGED <<mainHead, desiredCommit, completion>>
    PROVE  DeployInv'
<1>t. DeployTypes
  BY DEF DeployInv
<1>a. RunActive(r) /\ Status(r) # "absent" /\ r # NoRun
  BY <1>t, ActiveAre, RunFields DEF BeginRepair, ActiveRuns, RunActive
<1>1. PICK same \in {1, deployRun[r].same + 1} :
        LET row == [deployRun[r] EXCEPT !.status = "releasing", !.repair = "restored", !.incident = "open",
                                        !.failed = failedCommit, !.same = same, !.fix = NoCommit]
        IN  IF same >= 3 THEN Park(r, row)
            ELSE deployRun' = [deployRun EXCEPT ![r] = row] /\ UNCHANGED deployRequest
  BY DEF BeginRepair
<1>2. PICK row \in DeployRow :
         /\ row = [deployRun[r] EXCEPT !.status = "releasing", !.repair = "restored", !.incident = "open",
                                       !.failed = failedCommit, !.same = same, !.fix = NoCommit]
  <2>1. deployRun[r] \in DeployRow /\ same \in Nat /\ NoCommit \in Nat
    BY <1>t, RunFields DEF NoCommit
  <2>2. [deployRun[r] EXCEPT !.status = "releasing", !.repair = "restored", !.incident = "open",
                             !.failed = failedCommit, !.same = same, !.fix = NoCommit] \in DeployRow
    BY <2>1 DEF DeployRow, RunStatus
  <2> QED
    BY <2>2
<1>3. CASE Park(r, row)
  BY <1>a, <1>3, ParkKeeps
<1>4. CASE deployRun' = [deployRun EXCEPT ![r] = row] /\ UNCHANGED deployRequest
  <2>1. DOMAIN deployRun[r] = {"status", "desired", "owner", "activation", "candidate", "deployed", "repair", "incident",
                               "failed", "same", "fix", "attempts"}
    BY <1>t, RunFields, DeployRowFields
  <2>2. /\ row.status = "releasing" /\ row.incident = "open" /\ row.deployed = deployRun[r].deployed
        /\ row.activation = deployRun[r].activation /\ row.desired = deployRun[r].desired
        /\ row.candidate = deployRun[r].candidate /\ row.owner = deployRun[r].owner
    BY <1>2, <2>1
  <2>3. /\ deployRun' \in [DeployRuns -> DeployRow] /\ deployRun'[r] = row
        /\ \A s \in DeployRuns : s # r => deployRun'[s] = deployRun[s]
    BY <1>t, <1>4, RunWritten
  <2>4. /\ deployRunner' \in RunnerRow /\ deployRunner'.run = deployRunner.run /\ deployRunner'.commit = deployRunner.commit
        /\ deployRunner'.step \in {deployRunner.step, "gone"}
        /\ supervisor' \in SupervisorRow /\ supervisor'.run = supervisor.run /\ supervisor'.step \in {supervisor.step, "gone"}
    <3>1. "gone" \in RunnerSteps
      BY DEF RunnerSteps
    <3> QED
      BY <1>t, <3>1, RunnerMoves, SupervisorMoves DEF Rests, DeployTypes
  <2>5. DeployTypes'
    BY <1>t, <1>4, <2>3, <2>4 DEF DeployTypes
  <2>6. "releasing" \in ActiveStatuses
    BY ActiveAre
  <2>7. RunnerOK'
    <3>1. CASE deployRunner.run = r
      BY <2>2, <2>3, <2>4, <3>1 DEF RunnerOK, RunActive, Status
    <3>2. CASE deployRunner.run # r
      BY <2>3, <2>4, <3>2 DEF DeployInv, RunnerOK, RunActive, Status
    <3> QED
      BY <3>1, <3>2
  <2>8. SupervisorOK'
    <3>1. CASE supervisor.run = r
      BY <1>a, <2>2, <2>3, <2>4, <3>1 DEF DeployInv, SupervisorOK, RunActive, Status
    <3>2. CASE supervisor.run # r
      BY <2>3, <2>4, <3>2 DEF DeployInv, SupervisorOK, RunActive, Status
    <3> QED
      BY <3>1, <3>2
  <2>9. RunOK(r)
    BY DEF DeployInv
  <2> QED
    BY <1>a, <1>4, <2>2, <2>5, <2>6, <2>7, <2>8, <2>9, RowMoves DEF RunOK
<1> QED
  BY <1>1, <1>2, <1>3, <1>4

-----------------------------------------------------------------------------
(* scripts/deploy.sh.                                                         *)

\* The runner goes on, and no row changes.
LEMMA RunnerGoesOn ==
    ASSUME DeployInv,
           \/ \E r \in DeployRuns : LaunchRunner(r)
           \/ Checkout \/ PrepareRelease \/ Promote \/ ProveCompletion \/ AnswerArrives \/ RunnerDies
    PROVE  DeployInv'
<1>t. DeployTypes
  BY DEF DeployInv
<1>f. /\ deployRunner.step \in RunnerSteps /\ deployRunner.run \in DeployRuns \cup {NoRun} /\ deployRunner.commit \in Nat
      /\ DOMAIN deployRunner = {"run", "step", "commit"} /\ deployRunner \in RunnerRow
  BY <1>t, DriverFields DEF DeployTypes
<1>r. RunnerOK /\ SupervisorOK
  BY DEF DeployInv
<1>u. UNCHANGED <<deployRequest, deployRun, supervisor, mainHead, desiredCommit>>
  BY DEF LaunchRunner, Checkout, PrepareRelease, Promote, ProveCompletion, AnswerArrives,
       RunnerDies, ledgerRest
<1>s. SupervisorOK'
  BY <1>r, <1>u DEF SupervisorOK, RunActive, Status
<1>q. ASSUME RunnerOK', deployRunner' \in RunnerRow, completion' \subseteq [run : DeployRuns, commit : Nat, asked : SUBSET DeployRequests]
      PROVE  DeployInv'
  <2>1. DeployTypes'
    BY <1>t, <1>u, <1>q DEF DeployTypes
  <2> QED
    BY <1>u, <1>s, <1>q, <2>1, RowsRest
<1>c. completion \subseteq [run : DeployRuns, commit : Nat, asked : SUBSET DeployRequests]
  BY <1>t DEF DeployTypes
<1>1. ASSUME NEW r \in DeployRuns, LaunchRunner(r) PROVE DeployInv'
  <2>1. deployRunner' = [deployRunner EXCEPT !.run = r, !.step = "claim"] /\ UNCHANGED completion /\ Status(r) = "prepared"
    BY <1>1 DEF LaunchRunner
  <2>2. deployRunner' \in RunnerRow /\ deployRunner'.run = r /\ deployRunner'.step = "claim"
    BY <1>f, <2>1 DEF RunnerRow, RunnerSteps
  <2>3. RunnerOK'
    BY <1>u, <2>1, <2>2 DEF RunnerOK, RunActive, Status
  <2> QED
    BY <1>q, <1>c, <2>1, <2>2, <2>3
<1>2. CASE Checkout
  <2> DEFINE desired == deployRun[deployRunner.run].desired
  <2>1. /\ deployRunner' = [deployRunner EXCEPT !.step = "build",
                                                !.commit = IF desired = NoCommit THEN mainHead ELSE desired]
        /\ UNCHANGED completion /\ deployRunner.step = "checkout"
    BY <1>2 DEF Checkout
  <2>2. deployRunner.run \in DeployRuns /\ desired \in Nat
    BY <1>t, <1>r, <2>1, RunFields DEF RunnerOK
  <2> HIDE DEF desired
  <2>3. PICK commit \in Nat : commit = IF desired = NoCommit THEN mainHead ELSE desired
    BY <1>t, <2>2 DEF DeployTypes
  <2>4. deployRunner' = [deployRunner EXCEPT !.step = "build", !.commit = commit]
    BY <2>1, <2>3
  <2>5. /\ deployRunner' \in RunnerRow /\ deployRunner'.run = deployRunner.run /\ deployRunner'.step = "build"
        /\ deployRunner'.commit = commit
    BY <1>f, <2>4 DEF RunnerRow, RunnerSteps
  <2>6. desired \in {NoCommit, commit}
    BY <2>3
  <2>7. RunnerOK'
    BY <1>r, <1>u, <2>1, <2>5, <2>6 DEF RunnerOK, RunActive, Status, desired
  <2> QED
    BY <1>q, <1>c, <2>1, <2>5, <2>7
<1>3. ASSUME NEW step \in RunnerSteps, RunnerGoes(step), step \notin {"build", "activate", "claim"}, deployRunner.step # "claim",
             step = "intend" => deployRunner.step = "build", step # "gone" => deployRunner.step # "gone",
             completion' \subseteq [run : DeployRuns, commit : Nat, asked : SUBSET DeployRequests]
      PROVE  DeployInv'
  <2>1. /\ deployRunner' \in RunnerRow /\ deployRunner'.step = step
        /\ deployRunner'.run = deployRunner.run /\ deployRunner'.commit = deployRunner.commit
    BY <1>t, <1>3, RunnerMoves
  <2>2. RunnerOK'
    BY <1>r, <1>u, <1>3, <2>1 DEF RunnerOK, RunActive, Status
  <2> QED
    BY <1>q, <1>3, <2>1, <2>2
<1>4. {"intend", "succeed", "answer", "gone", "fail"} \subseteq RunnerSteps
  BY DEF RunnerSteps
<1>5. CASE PrepareRelease
  BY <1>3, <1>4, <1>5, <1>c DEF PrepareRelease
<1>6. CASE Promote
  BY <1>3, <1>4, <1>6, <1>c DEF Promote
<1>7. CASE ProveCompletion
  <2>1. deployRunner.run \in DeployRuns
    BY <1>r, <1>7 DEF ProveCompletion, RunnerOK
  <2>2. [run |-> deployRunner.run, commit |-> deployRunner.commit, asked |-> JoinedTo(deployRunner.run)]
            \in [run : DeployRuns, commit : Nat, asked : SUBSET DeployRequests]
    BY <1>f, <2>1 DEF JoinedTo
  <2>3. completion' \subseteq [run : DeployRuns, commit : Nat, asked : SUBSET DeployRequests]
    BY <1>7, <2>2 DEF ProveCompletion
  <2> QED
    BY <1>3, <1>4, <1>7, <2>3 DEF ProveCompletion
<1>8. CASE AnswerArrives
  <2>1. PICK step \in {"gone", "fail"} : RunnerGoes(step)
    BY <1>8 DEF AnswerArrives
  <2> QED
    BY <1>3, <1>4, <1>8, <1>c, <2>1 DEF AnswerArrives
<1>9. CASE RunnerDies
  <2>1. RunnerGoes("gone") /\ UNCHANGED completion
    BY <1>9 DEF RunnerDies
  <2>2. deployRunner' \in RunnerRow /\ deployRunner'.step = "gone"
    BY <1>t, <1>4, <2>1, RunnerMoves
  <2>3. RunnerOK'
    BY <2>2 DEF RunnerOK
  <2> QED
    BY <1>q, <1>c, <2>1, <2>2, <2>3
<1> QED
  BY <1>1, <1>2, <1>5, <1>6, <1>7, <1>8, <1>9

\* The runner writes the row of its run.
LEMMA RunnerWrites ==
    ASSUME DeployInv, deployRunner.step # "gone", NEW row \in DeployRow, NEW step \in RunnerSteps,
           deployRun' = [deployRun EXCEPT ![deployRunner.run] = row], RunnerGoes(step),
           UNCHANGED <<deployRequest, supervisor, mainHead, desiredCommit, completion>>,
           row.status \in ActiveStatuses <=> RunActive(deployRunner.run),
           row.status \notin ActiveStatuses => row.status = Status(deployRunner.run),
           row.incident = deployRun[deployRunner.run].incident, row.deployed = deployRun[deployRunner.run].deployed,
           row.owner = deployRun[deployRunner.run].owner \/ SupervisorOK',
           row.status \in ActiveStatuses /\ row.activation # "none" /\ row.desired # NoCommit => row.candidate = row.desired,
           step \notin {"build", "intend"}, row.owner = "runner" \/ step = "gone" \/ ~RunActive(deployRunner.run),
           step = "activate" => row.activation # "none"
    PROVE  DeployInv'
<1>t. DeployTypes
  BY DEF DeployInv
<1> DEFINE r == deployRunner.run
<1>r. r \in DeployRuns /\ Status(r) # "absent" /\ RunOK(r)
  BY DEF DeployInv, RunnerOK
<1>1. /\ deployRun' \in [DeployRuns -> DeployRow] /\ deployRun'[r] = row
      /\ \A s \in DeployRuns : s # r => deployRun'[s] = deployRun[s]
  BY <1>t, <1>r, RunWritten
<1>2. /\ deployRunner' \in RunnerRow /\ deployRunner'.step = step
      /\ deployRunner'.run = deployRunner.run /\ deployRunner'.commit = deployRunner.commit
  BY <1>t, RunnerMoves
<1>3. DeployTypes'
  BY <1>t, <1>1, <1>2 DEF DeployTypes
<1>a. "absent" \notin ActiveStatuses /\ "succeeded" \notin ActiveStatuses
  BY ActiveAre
<1>b. row.status # "absent"
  BY <1>a, <1>r DEF RunActive
<1>4. RunnerOK'
  BY <1>1, <1>2, <1>r, <1>b DEF RunnerOK, RunActive, Status
<1>5. SupervisorOK'
  <2>1. SupervisorOK
    BY DEF DeployInv
  <2>2. CASE row.owner = deployRun[r].owner /\ supervisor.run = r
    BY <1>1, <1>b, <2>1, <2>2 DEF SupervisorOK, RunActive, Status
  <2>3. CASE supervisor.run # r
    BY <1>1, <2>1, <2>3 DEF SupervisorOK, RunActive, Status
  <2> QED
    BY <2>2, <2>3
<1>6. row.status = "succeeded" => Status(r) = "succeeded" /\ row.incident # "open"
  BY <1>a, <1>r DEF RunOK
<1>7. Status(r) # "absent" => (row.status \in ActiveStatuses <=> RunActive(r))
  OBVIOUS
<1> HIDE DEF r
<1>8. deployRun' = [deployRun EXCEPT ![r] = row] /\ row.deployed = deployRun[r].deployed
  BY DEF r
<1>9. row.status # "succeeded" \/ (row.incident # "open" /\ row.deployed = deployRun[r].deployed)
  BY <1>6, <1>8
<1> QED
  BY <1>3, <1>4, <1>5, <1>6, <1>7, <1>8, <1>9, <1>b, <1>r, RowMoves

LEMMA PhaseFollows ==
    ASSUME DeployInv, NEW step \in RunnerSteps \ {"gone", "claim"}, NEW phase, NEW next \in RunnerSteps,
           next \notin {"gone", "build", "intend", "activate"}, RecordPhase(step, phase, next)
    PROVE  DeployInv'
<1>t. DeployTypes
  BY DEF DeployInv
<1> DEFINE r == deployRunner.run
           row == [deployRun[r] EXCEPT !.status = phase]
<1>r. r \in DeployRuns /\ RunOK(r) /\ (RunActive(r) => deployRun[r].owner = "runner") /\ deployRunner.step # "gone"
  BY DEF DeployInv, RunnerOK, RecordPhase
<1>1. RunActive(r) /\ phase \in ActiveStatuses
  <2>1. PICK i \in 1..5 : Status(r) = Phases[i] /\ phase = Phases[i + 1]
    BY DEF RecordPhase
  <2>2. i \in DOMAIN Phases /\ i + 1 \in DOMAIN Phases
    BY DEF Phases
  <2> QED
    BY <2>1, <2>2 DEF RunActive, ActiveStatuses
<1>2. phase \in RunStatus
  BY <1>1, ActiveAre DEF RunStatus
<1>3. deployRun[r] \in DeployRow
  BY <1>t, <1>r, RunFields
<1>4. /\ row \in DeployRow /\ row.status = phase /\ row.owner = deployRun[r].owner /\ row.incident = deployRun[r].incident
      /\ row.deployed = deployRun[r].deployed /\ row.activation = deployRun[r].activation
      /\ row.desired = deployRun[r].desired /\ row.candidate = deployRun[r].candidate
  BY <1>2, <1>3 DEF DeployRow
<1>5. deployRun' = [deployRun EXCEPT ![r] = row] /\ RunnerGoes(next)
      /\ UNCHANGED <<deployRequest, supervisor, mainHead, desiredCommit, completion>>
  BY <1>t DEF RecordPhase, ledgerRest, DeployTypes
<1> HIDE DEF row
<1> QED
  BY <1>1, <1>r, <1>4, <1>5, RunnerWrites DEF RunOK, RunActive

\* A runner claims its run when nobody drives it.
LEMMA ClaimKeeps ==
    ASSUME DeployInv, NEW r \in DeployRuns, ClaimDeploymentRun(r)
    PROVE  DeployInv'
<1>t. DeployTypes
  BY DEF DeployInv
<1>u. /\ UNCHANGED <<deployRequest, supervisor, mainHead, desiredCommit, completion>>
      /\ deployRunner.step = "claim" /\ deployRunner.run = r
  BY DEF ClaimDeploymentRun, ledgerRest
<1>s. {"gone", "drain", "recover"} \subseteq RunnerSteps
  BY DEF RunnerSteps
<1>1. CASE RunnerGoes("gone") /\ UNCHANGED deployRun
  <2>1. deployRunner' \in RunnerRow /\ deployRunner'.step = "gone"
    BY <1>t, <1>s, <1>1, RunnerMoves
  <2>2. RunnerOK'
    BY <2>1 DEF RunnerOK
  <2>3. SupervisorOK'
    BY <1>u, <1>1 DEF DeployInv, SupervisorOK, RunActive, Status
  <2>4. DeployTypes'
    BY <1>t, <1>u, <1>1, <2>1 DEF DeployTypes
  <2> QED
    BY <1>u, <1>1, <2>2, <2>3, <2>4, RowsRest
<1>2. ASSUME NEW step \in {"drain", "recover"}, RunnerGoes(step),
             deployRun' = [deployRun EXCEPT ![r] = [deployRun[r] EXCEPT !.status = "draining", !.owner = "runner"]],
             \/ Status(r) = "prepared" /\ deployRun[r].owner = "none"
             \/ RunActive(r) /\ ~DriverAlive(r)
      PROVE  DeployInv'
  <2> DEFINE row == [deployRun[r] EXCEPT !.status = "draining", !.owner = "runner"]
  <2>1. deployRun[r] \in DeployRow
    BY <1>t, RunFields
  <2>2. /\ row \in DeployRow /\ row.status = "draining" /\ row.owner = "runner" /\ row.incident = deployRun[r].incident
        /\ row.deployed = deployRun[r].deployed /\ row.activation = deployRun[r].activation
        /\ row.desired = deployRun[r].desired /\ row.candidate = deployRun[r].candidate
    BY <2>1 DEF DeployRow, RunStatus
  <2>3. RunActive(r) /\ "draining" \in ActiveStatuses /\ RunOK(r) /\ SupervisorOK
    BY <1>2, ActiveAre DEF RunActive, DeployInv
  <2>4. ~(supervisor.run = r /\ supervisor.step \in {"repair", "integrated"})
    BY <1>2, <2>3, Alive DEF SupervisorOK
  <2>5. deployRun' = [deployRun EXCEPT ![r] = row]
    BY <1>2
  <2> HIDE DEF row
  <2>6. deployRun'[r] = row /\ \A s \in DeployRuns : s # r => deployRun'[s] = deployRun[s]
    BY <1>t, <2>2, <2>5, RunWritten
  <2>7. SupervisorOK'
    BY <1>u, <2>2, <2>3, <2>4, <2>6 DEF SupervisorOK, RunActive, Status
  <2> QED
    BY <1>s, <1>u, <1>2, <2>2, <2>3, <2>5, <2>7, RunnerWrites DEF RunOK, RunActive
<1>3. PICK step \in {"drain", "recover"} : step = IF deployRun[r].activation = "none" THEN "drain" ELSE "recover"
  OBVIOUS
<1> QED
  BY <1>1, <1>2, <1>3 DEF ClaimDeploymentRun, ActiveRuns, RunActive, Status

\* A candidate is named: it is what the run desires, unless nothing is.
LEMMA IntentKeeps ==
    ASSUME DeployInv, IntendActivation
    PROVE  DeployInv'
<1>t. DeployTypes
  BY DEF DeployInv
<1> DEFINE r == deployRunner.run
           c == deployRunner.commit
           row == [deployRun[r] EXCEPT !.candidate = c, !.activation = "intended"]
<1>u. /\ UNCHANGED <<deployRequest, supervisor, mainHead, desiredCommit, completion>> /\ deployRunner.step = "intend"
      /\ \/ RunnerGoes("checkout") /\ UNCHANGED deployRun
         \/ RunnerGoes("refused") /\ UNCHANGED deployRun
         \/ ~SupersededBy(r, c) /\ deployRun' = [deployRun EXCEPT ![r] = row] /\ RunnerGoes("activate")
  BY DEF IntendActivation, ledgerRest
<1>s. {"checkout", "refused", "activate"} \subseteq RunnerSteps
  BY DEF RunnerSteps
<1>r. r \in DeployRuns /\ RunOK(r) /\ RunnerOK
  BY <1>u DEF DeployInv, RunnerOK
<1>1. ASSUME NEW step \in {"checkout", "refused"}, RunnerGoes(step), UNCHANGED deployRun PROVE DeployInv'
  <2>1. /\ deployRunner' \in RunnerRow /\ deployRunner'.step = step
        /\ deployRunner'.run = deployRunner.run /\ deployRunner'.commit = deployRunner.commit
    BY <1>t, <1>s, <1>1, RunnerMoves
  <2>2. RunnerOK'
    BY <1>u, <1>r, <1>1, <2>1 DEF RunnerOK, RunActive, Status
  <2>3. SupervisorOK'
    BY <1>u, <1>1 DEF DeployInv, SupervisorOK, RunActive, Status
  <2>4. DeployTypes'
    BY <1>t, <1>u, <1>1, <2>1 DEF DeployTypes
  <2> QED
    BY <1>u, <1>1, <2>2, <2>3, <2>4, RowsRest
<1>2. CASE ~SupersededBy(r, c) /\ deployRun' = [deployRun EXCEPT ![r] = row] /\ RunnerGoes("activate")
  <2>1. deployRun[r] \in DeployRow /\ c \in Nat
    BY <1>t, <1>r, RunFields, DriverFields
  <2>2. /\ row \in DeployRow /\ row.status = deployRun[r].status /\ row.owner = deployRun[r].owner
        /\ row.incident = deployRun[r].incident /\ row.deployed = deployRun[r].deployed /\ row.activation = "intended"
        /\ row.desired = deployRun[r].desired /\ row.candidate = c
    BY <2>1 DEF DeployRow
  <2>3. RunActive(r) => deployRun[r].owner = "runner" /\ deployRun[r].desired \in {NoCommit, c}
    BY <1>r, <1>u, <1>2 DEF RunnerOK, SupersededBy
  <2> HIDE DEF row
  <2> QED
    BY <1>r, <1>s, <1>u, <1>2, <2>2, <2>3, RunnerWrites DEF RunActive, Status
<1> QED
  BY <1>u, <1>1, <1>2

LEMMA ActivationKeeps ==
    ASSUME DeployInv, Activate
    PROVE  DeployInv'
<1>t. DeployTypes
  BY DEF DeployInv
<1> DEFINE r == deployRunner.run
           row == [deployRun[r] EXCEPT !.activation = "active"]
<1>r. r \in DeployRuns /\ RunOK(r) /\ RunnerOK /\ deployRunner.step = "activate"
  BY DEF DeployInv, RunnerOK, Activate
<1>1. deployRun' = [deployRun EXCEPT ![r] = row] /\ RunnerGoes("restart") /\ "restart" \in RunnerSteps
      /\ UNCHANGED <<deployRequest, supervisor, mainHead, desiredCommit, completion>>
  BY <1>t DEF Activate, DeployTypes, RunnerSteps
<1>2. deployRun[r] \in DeployRow
  BY <1>t, <1>r, RunFields
<1>3. /\ row \in DeployRow /\ row.status = deployRun[r].status /\ row.owner = deployRun[r].owner
      /\ row.incident = deployRun[r].incident /\ row.deployed = deployRun[r].deployed /\ row.activation = "active"
      /\ row.desired = deployRun[r].desired /\ row.candidate = deployRun[r].candidate
  BY <1>2 DEF DeployRow
<1>4. RunActive(r) => /\ deployRun[r].owner = "runner"
                      /\ deployRun[r].desired # NoCommit => deployRun[r].candidate = deployRun[r].desired
  BY <1>r DEF RunnerOK, RunOK
<1> HIDE DEF row
<1> QED
  BY <1>r, <1>1, <1>3, <1>4, RunnerWrites DEF RunActive, Status

LEMMA RunnerFailureKeeps ==
    ASSUME DeployInv, RunnerFails
    PROVE  DeployInv'
<1>t. DeployTypes
  BY DEF DeployInv
<1> DEFINE r == deployRunner.run
<1>r. r \in DeployRuns /\ Status(r) # "absent" /\ deployRunner.step # "gone" /\ deployRun[r] \in DeployRow
  BY <1>t, RunFields DEF DeployInv, RunnerOK, RunnerFails
<1>u. RunnerGoes("gone") /\ UNCHANGED <<supervisor, mainHead, desiredCommit, completion>>
  BY DEF RunnerFails, ledgerRest
<1>s. "gone" \in RunnerSteps
  BY DEF RunnerSteps
<1>v. Rests /\ deployRunner' \in RunnerRow /\ deployRunner'.step = "gone"
  BY <1>t, <1>u, <1>s, RunnerMoves DEF Rests
<1>1. ASSUME NEW failedCommit \in Nat, BeginRepair(r, failedCommit) PROVE DeployInv'
  BY <1>r, <1>u, <1>v, <1>1, RepairBegins
<1>2. ASSUME NEW outcome \in {"failed", "ambiguous"}, Fail(r, deployRun[r], outcome) PROVE DeployInv'
  BY <1>r, <1>u, <1>v, <1>2, FailKeeps
<1>3. CASE UNCHANGED <<deployRun, deployRequest>>
  <2>1. RunnerOK'
    BY <1>v DEF RunnerOK
  <2>2. SupervisorOK'
    BY <1>u, <1>3 DEF DeployInv, SupervisorOK, RunActive, Status
  <2>3. DeployTypes'
    BY <1>t, <1>u, <1>v, <1>3 DEF DeployTypes
  <2> QED
    BY <1>3, <2>1, <2>2, <2>3, RowsRest
<1>4. deployRun[r].candidate \in Nat /\ deployRunner.commit \in Nat
  BY <1>t, <1>r, RunFields, DriverFields
<1>5. PICK failedCommit \in Nat :
          failedCommit = IF deployRunner.step = "recover" THEN deployRun[r].candidate ELSE deployRunner.commit
  BY <1>4
<1> QED
  BY <1>1, <1>2, <1>3, <1>5 DEF RunnerFails

\* A completion whose questions cover every request ends its run and answers them.
LEMMA CompletionKeeps ==
    ASSUME DeployInv, CompleteDeploymentRun
    PROVE  DeployInv'
<1>t. DeployTypes
  BY DEF DeployInv
<1>u. UNCHANGED <<mainHead, supervisor, deployRunner>>
  BY DEF CompleteDeploymentRun
<1>1. PICK p \in completion :
        \/ completion' = {} /\ UNCHANGED <<deployRun, deployRequest, desiredCommit>>
        \/ /\ completion' = {[p EXCEPT !.asked = JoinedTo(p.run)]}
           /\ UNCHANGED <<deployRun, deployRequest, desiredCommit>>
        \/ /\ Status(p.run) = "releasing" /\ JoinedTo(p.run) = p.asked /\ completion' = {}
           /\ deployRun' = [deployRun EXCEPT ![p.run] =
                  [deployRun[p.run] EXCEPT
                      !.status = "succeeded", !.deployed = p.commit, !.repair = "none",
                      !.incident = IF deployRun[p.run].incident = "open" THEN "closed" ELSE deployRun[p.run].incident]]
           /\ SettleRequests(p.run, LAMBDA q : IF q \in p.asked /\ deployRequest[q].expected <= p.commit
                                               THEN "included" ELSE "not_included")
           /\ desiredCommit' = IF desiredCommit < p.commit THEN p.commit ELSE desiredCommit
  BY DEF CompleteDeploymentRun, Status
<1>2. p \in [run : DeployRuns, commit : Nat, asked : SUBSET DeployRequests] /\ p.run \in DeployRuns /\ p.commit \in Nat
  BY <1>t DEF DeployTypes
<1>3. CASE /\ UNCHANGED <<deployRun, deployRequest, desiredCommit>>
           /\ completion' \in {{}, {[p EXCEPT !.asked = JoinedTo(p.run)]}}
  <2>1. [p EXCEPT !.asked = JoinedTo(p.run)] \in [run : DeployRuns, commit : Nat, asked : SUBSET DeployRequests]
    BY <1>2 DEF JoinedTo
  <2>2. DeployTypes'
    BY <1>t, <1>u, <1>3, <2>1 DEF DeployTypes
  <2>3. RunnerOK' /\ SupervisorOK'
    BY <1>u, <1>3 DEF DeployInv, RunnerOK, SupervisorOK, RunActive, Status
  <2> QED
    BY <1>3, <2>2, <2>3, RowsRest
<1>4. CASE /\ Status(p.run) = "releasing" /\ JoinedTo(p.run) = p.asked /\ completion' = {}
           /\ deployRun' = [deployRun EXCEPT ![p.run] =
                  [deployRun[p.run] EXCEPT
                      !.status = "succeeded", !.deployed = p.commit, !.repair = "none",
                      !.incident = IF deployRun[p.run].incident = "open" THEN "closed" ELSE deployRun[p.run].incident]]
           /\ SettleRequests(p.run, LAMBDA q : IF q \in p.asked /\ deployRequest[q].expected <= p.commit
                                               THEN "included" ELSE "not_included")
           /\ desiredCommit' = IF desiredCommit < p.commit THEN p.commit ELSE desiredCommit
  <2> DEFINE r == p.run
             over == [deployRun[r] EXCEPT !.status = "succeeded", !.deployed = p.commit, !.repair = "none",
                            !.incident = IF deployRun[r].incident = "open" THEN "closed" ELSE deployRun[r].incident]
  <2>1. deployRun[r] \in DeployRow
    BY <1>t, <1>2, RunFields
  <2>2. /\ over \in DeployRow /\ over.status = "succeeded" /\ over.incident # "open" /\ over.deployed = p.commit
    BY <1>2, <2>1 DEF DeployRow, RunStatus
  <2>3. deployRun' = [deployRun EXCEPT ![r] = over]
    BY <1>4
  <2> HIDE DEF over
  <2>4. /\ deployRun' \in [DeployRuns -> DeployRow] /\ deployRun'[r] = over
        /\ \A s \in DeployRuns : s # r => deployRun'[s] = deployRun[s]
    BY <1>t, <1>2, <2>2, <2>3, RunWritten
  <2>5. "releasing" \in ActiveStatuses /\ "succeeded" \notin ActiveStatuses /\ "absent" \notin ActiveStatuses
    BY ActiveAre
  <2>6. ASSUME NEW q \in DeployRequests
        PROVE  deployRequest'[q] =
                   IF q \in p.asked /\ deployRequest[q].status = "pending"
                   THEN [deployRequest[q] EXCEPT
                            !.status = IF q \in p.asked /\ deployRequest[q].expected <= p.commit
                                       THEN "included" ELSE "not_included"]
                   ELSE deployRequest[q]
    BY <1>4 DEF SettleRequests
  <2>7. ASSUME NEW q \in DeployRequests
        PROVE  /\ deployRequest'[q] \in RequestRow /\ deployRequest'[q].run = deployRequest[q].run
               /\ deployRequest'[q].expected = deployRequest[q].expected
               /\ IF q \in p.asked /\ deployRequest[q].status = "pending"
                  THEN deployRequest'[q].status = IF deployRequest[q].expected <= p.commit THEN "included" ELSE "not_included"
                  ELSE deployRequest'[q].status = deployRequest[q].status
    <3>1. deployRequest[q] \in RequestRow
      BY <1>t DEF DeployTypes
    <3>2. PICK status \in {"included", "not_included"} :
              status = IF q \in p.asked /\ deployRequest[q].expected <= p.commit THEN "included" ELSE "not_included"
      OBVIOUS
    <3>3. deployRequest'[q] = IF q \in p.asked /\ deployRequest[q].status = "pending"
                              THEN [deployRequest[q] EXCEPT !.status = status] ELSE deployRequest[q]
      BY <2>6, <3>2
    <3>4. CASE q \in p.asked /\ deployRequest[q].status = "pending"
      <4>1. deployRequest'[q] = [deployRequest[q] EXCEPT !.status = status]
        BY <3>3, <3>4
      <4>2. status = IF deployRequest[q].expected <= p.commit THEN "included" ELSE "not_included"
        BY <3>2, <3>4
      <4>3. /\ deployRequest'[q] \in RequestRow /\ deployRequest'[q].run = deployRequest[q].run
            /\ deployRequest'[q].expected = deployRequest[q].expected /\ deployRequest'[q].status = status
        BY <3>1, <4>1 DEF RequestRow
      <4> QED
        BY <3>4, <4>2, <4>3
    <3>5. CASE ~(q \in p.asked /\ deployRequest[q].status = "pending")
      BY <3>1, <3>3, <3>5
    <3> QED
      BY <3>4, <3>5
  <2>8. deployRequest' \in [DeployRequests -> RequestRow]
    <3>1. deployRequest' = [q \in DeployRequests |-> deployRequest'[q]]
      BY <1>4 DEF SettleRequests
    <3> QED
      BY <2>7, <3>1
  <2>9. DeployTypes'
    BY <1>t, <1>u, <1>2, <1>4, <2>4, <2>8 DEF DeployTypes
  <2>10. RunnerOK'
    BY <1>u, <2>2, <2>4, <2>5 DEF DeployInv, RunnerOK, RunActive, Status
  <2>11. SupervisorOK'
    BY <1>u, <2>2, <2>4, <2>5 DEF DeployInv, SupervisorOK, RunActive, Status
  <2>12. ASSUME NEW s \in DeployRuns PROVE RunOK(s)'
    BY <2>2, <2>4, <2>5 DEF DeployInv, RunOK, RunActive, Status
  <2>13. ASSUME NEW q \in DeployRequests PROVE RequestOK(q)'
    <3>1. RequestOK(q) /\ deployRequest[q].run \in DeployRuns \cup {NoRun}
      BY <1>t DEF DeployInv, DeployTypes, RequestRow
    <3>2. CASE deployRequest[q].run = r
      <4>1. q \in p.asked /\ r # NoRun
        BY <1>t, <1>2, <1>4, <3>2, RunFields DEF JoinedTo
      <4>2. deployRequest[q].status = "pending"
        BY <1>4, <2>5, <3>1, <3>2, <4>1 DEF RequestOK, RunActive
      <4> QED
        BY <2>2, <2>4, <2>5, <2>7, <3>2, <4>1, <4>2 DEF RequestOK, RunActive, Status
    <3>3. CASE deployRequest[q].run # r
      <4>1. q \notin p.asked
        BY <1>4, <3>3 DEF JoinedTo
      <4> QED
        BY <2>4, <2>7, <3>1, <3>3, <4>1 DEF RequestOK, RunActive, Status
    <3> QED
      BY <3>2, <3>3
  <2> QED
    BY <2>9, <2>10, <2>11, <2>12, <2>13 DEF DeployInv
<1> QED
  BY <1>1, <1>3, <1>4

-----------------------------------------------------------------------------
(* Recovery and repair.                                                       *)

LEMMA DeployRecoveryKeeps ==
    ASSUME DeployInv, NEW r \in DeployRuns, RecoverDeadRun(r) \/ RecoverInterruptedCandidate(r) \/ LaunchFails(r)
    PROVE  DeployInv'
<1>t. DeployTypes
  BY DEF DeployInv
<1>u. UNCHANGED <<deployRunner, supervisor, mainHead, desiredCommit, completion>>
  BY DEF RecoverDeadRun, RecoverInterruptedCandidate, LaunchFails, ledgerRest
<1>v. Rests
  BY <1>u DEF Rests
<1>f. deployRun[r] \in DeployRow /\ deployRun[r].candidate \in Nat /\ deployRun[r].desired \in Nat
  BY <1>t, RunFields
<1>1. CASE RecoverInterruptedCandidate(r)
  <2>1. deployRunner.run = r => deployRunner'.step \in {"gone", "claim"}
    BY <1>u, <1>1, Alive DEF RecoverInterruptedCandidate, ActiveRuns, RunActive
  <2> QED
    BY <1>u, <1>v, <1>f, <1>1, <2>1, RepairBegins DEF RecoverInterruptedCandidate
<1>2. CASE LaunchFails(r)
  <2>1. deployRunner.step = "gone" /\ Status(r) = "prepared"
    BY <1>2 DEF LaunchFails
  <2>2. CASE Fail(r, deployRun[r], "failed")
    BY <1>u, <1>v, <1>f, <2>1, <2>2, FailKeeps
  <2>3. CASE BeginRepair(r, deployRun[r].desired)
    BY <1>u, <1>v, <1>f, <2>1, <2>3, RepairBegins
  <2> QED
    BY <1>2, <2>2, <2>3 DEF LaunchFails
<1>3. CASE RecoverDeadRun(r)
  <2>1. RunActive(r) /\ ~DriverAlive(r) /\ Status(r) # "prepared" /\ UNCHANGED deployRequest
    BY <1>3 DEF RecoverDeadRun, ActiveRuns, RunActive
  <2>2. /\ deployRunner.run = r => deployRunner.step \in {"gone", "claim"}
        /\ supervisor.run = r => supervisor.step \notin {"repair", "integrated"}
    BY <2>1, Alive
  <2>3. PICK row : /\ deployRun' = [deployRun EXCEPT ![r] = row]
                   /\ row \in {deployRun[r], [deployRun[r] EXCEPT !.status = "prepared", !.owner = "none"],
                               [deployRun[r] EXCEPT !.status = "releasing", !.repair = "repairing", !.owner = "none"]}
    BY <1>3 DEF RecoverDeadRun
  <2>4. /\ row \in DeployRow /\ row.status \in {Status(r), "prepared", "releasing"} /\ row.deployed = deployRun[r].deployed
        /\ row.activation = deployRun[r].activation /\ row.desired = deployRun[r].desired
        /\ row.candidate = deployRun[r].candidate
    BY <1>f, <2>3 DEF DeployRow, RunStatus, Status
  <2>5. /\ deployRun' \in [DeployRuns -> DeployRow] /\ deployRun'[r] = row
        /\ \A s \in DeployRuns : s # r => deployRun'[s] = deployRun[s]
    BY <1>t, <2>3, <2>4, RunWritten
  <2>6. row.status \in ActiveStatuses /\ row.status # "absent" /\ row.status # "succeeded"
    BY <2>1, <2>4, ActiveAre DEF RunActive
  <2>7. RunnerOK'
    <3>1. CASE deployRunner.run = r
      BY <1>u, <2>2, <2>5, <2>6, <3>1 DEF RunnerOK, RunActive, Status
    <3>2. CASE deployRunner.run # r
      BY <1>u, <2>5, <3>2 DEF DeployInv, RunnerOK, RunActive, Status
    <3> QED
      BY <3>1, <3>2
  <2>8. SupervisorOK'
    <3>1. CASE supervisor.run = r
      BY <1>u, <2>2, <2>5, <2>6, <3>1 DEF SupervisorOK, RunActive, Status
    <3>2. CASE supervisor.run # r
      BY <1>u, <2>5, <3>2 DEF DeployInv, SupervisorOK, RunActive, Status
    <3> QED
      BY <3>1, <3>2
  <2>9. DeployTypes'
    BY <1>t, <1>u, <2>1, <2>5 DEF DeployTypes
  <2>10. RunOK(r)
    BY DEF DeployInv
  <2> QED
    BY <2>1, <2>3, <2>4, <2>6, <2>7, <2>8, <2>9, <2>10, RowMoves DEF RunOK
<1> QED
  BY <1>1, <1>2, <1>3

\* The supervisor writes the row of the run it has.
LEMMA SupervisorWrites ==
    ASSUME DeployInv, supervisor.step # "gone", RunActive(supervisor.run), NEW row \in DeployRow,
           NEW step \in {"gone", "claim", "repair", "integrated", "retry"}, Supervisor(step),
           deployRun' = [deployRun EXCEPT ![supervisor.run] = row],
           UNCHANGED <<deployRequest, deployRunner, desiredCommit, completion>>, mainHead' \in Nat,
           row.status \in ActiveStatuses,
           row.activation # "none" /\ row.desired # NoCommit => row.candidate = row.desired,
           deployRunner.run = supervisor.run => \/ deployRunner.step \in {"gone", "claim"}
                                                \/ /\ row.owner = "runner" /\ row.repair = deployRun[supervisor.run].repair
                                                   /\ row.desired = deployRun[supervisor.run].desired
                                                   /\ row.activation = deployRun[supervisor.run].activation,
           step \in {"repair", "integrated"} => row.owner = "supervisor"
    PROVE  DeployInv'
<1>t. DeployTypes
  BY DEF DeployInv
<1> DEFINE r == supervisor.run
<1>r. r \in DeployRuns /\ Status(r) # "absent"
  BY DEF DeployInv, SupervisorOK
<1>1. /\ deployRun' \in [DeployRuns -> DeployRow] /\ deployRun'[r] = row
      /\ \A s \in DeployRuns : s # r => deployRun'[s] = deployRun[s]
  BY <1>t, <1>r, RunWritten
<1>2. supervisor' \in SupervisorRow /\ supervisor'.step = step /\ supervisor'.run = r
  BY <1>t, SupervisorMoves
<1>a. row.status # "absent" /\ row.status # "succeeded"
  BY ActiveAre
<1>3. DeployTypes'
  BY <1>t, <1>1, <1>2 DEF DeployTypes
<1>4. RunnerOK'
  <2>1. RunnerOK
    BY DEF DeployInv
  <2>2. CASE deployRunner.run = r
    BY <1>1, <1>a, <2>1, <2>2 DEF RunnerOK, RunActive, Status
  <2>3. CASE deployRunner.run # r
    BY <1>1, <2>1, <2>3 DEF RunnerOK, RunActive, Status
  <2> QED
    BY <2>2, <2>3
<1>5. SupervisorOK'
  BY <1>1, <1>2, <1>a, <1>r DEF SupervisorOK, RunActive, Status
<1>6. RunActive(r) /\ deployRun' = [deployRun EXCEPT ![r] = row]
  OBVIOUS
<1>7. Status(r) # "absent" => (row.status \in ActiveStatuses <=> RunActive(r))
  BY <1>6
<1> HIDE DEF r
<1>8. row.status = "succeeded" => Status(r) = "succeeded"
  BY <1>a
<1>9. row.status # "succeeded" \/ (row.incident # "open" /\ row.deployed = deployRun[r].deployed)
  BY <1>a
<1> QED
  BY <1>3, <1>4, <1>5, <1>6, <1>7, <1>8, <1>9, <1>a, <1>r, RowMoves

\* No runner holds the run that the supervisor repairs.
LEMMA RepairIsAlone ==
    ASSUME DeployInv, supervisor.step \in {"repair", "integrated"}, RunActive(supervisor.run),
           deployRunner.run = supervisor.run
    PROVE  deployRunner.step \in {"gone", "claim"}
BY DEF DeployInv, RunnerOK, SupervisorOK

\* The supervisor is launched, finds nothing to do, or dies; no row changes.
LEMMA SupervisorGoesOn ==
    ASSUME DeployInv, (\E r \in DeployRuns : LaunchRepair(r)) \/ SupervisorDies \/
                      (ClaimRepair /\ Supervisor("gone") /\ UNCHANGED <<deployRun, deployRequest>>)
    PROVE  DeployInv'
<1>t. DeployTypes /\ RunnerOK /\ SupervisorOK
  BY DEF DeployInv
<1>u. UNCHANGED <<deployRun, deployRequest, mainHead, desiredCommit, completion>>
  BY DEF LaunchRepair, SupervisorDies, ClaimRepair, ledgerRest
<1>1. ASSUME deployRunner' = deployRunner \/ RunnerGoes("gone"), supervisor' \in SupervisorRow, SupervisorOK'
      PROVE  DeployInv'
  <2>1. deployRunner' \in RunnerRow /\ (deployRunner' = deployRunner \/ deployRunner'.step = "gone")
    <3>1. "gone" \in RunnerSteps
      BY DEF RunnerSteps
    <3> QED
      BY <1>t, <1>1, <3>1, RunnerMoves DEF DeployTypes
  <2>2. RunnerOK'
    BY <1>t, <1>u, <2>1 DEF RunnerOK, RunActive, Status
  <2>3. DeployTypes'
    BY <1>t, <1>u, <1>1, <2>1 DEF DeployTypes
  <2> QED
    BY <1>u, <1>1, <2>2, <2>3, RowsRest
<1>2. ASSUME NEW r \in DeployRuns, LaunchRepair(r) PROVE DeployInv'
  <2>1. supervisor' = [run |-> r, step |-> "claim"] /\ deployRunner' = deployRunner /\ Status(r) # "absent"
    BY <1>2 DEF LaunchRepair, Repairable
  <2>2. supervisor' \in SupervisorRow /\ supervisor'.run = r /\ supervisor'.step = "claim"
    BY <2>1 DEF SupervisorRow
  <2>3. SupervisorOK'
    BY <1>u, <2>1, <2>2 DEF SupervisorOK, Status
  <2> QED
    BY <1>1, <2>1, <2>2, <2>3
<1>3. ASSUME Supervisor("gone"), deployRunner' = deployRunner \/ RunnerGoes("gone") PROVE DeployInv'
  <2>1. supervisor' \in SupervisorRow /\ supervisor'.step = "gone"
    BY <1>t, <1>3, SupervisorMoves
  <2>2. SupervisorOK'
    BY <2>1 DEF SupervisorOK
  <2> QED
    BY <1>1, <1>3, <2>1, <2>2
<1> QED
  BY <1>2, <1>3 DEF SupervisorDies, ClaimRepair, RunnerGoes

LEMMA RepairClaimKeeps ==
    ASSUME DeployInv, ClaimRepair
    PROVE  DeployInv'
<1>t. DeployTypes
  BY DEF DeployInv
<1> DEFINE r == supervisor.run
           over == [deployRun[r] EXCEPT !.attempts = deployRun[r].attempts + 1,
                        !.repair = IF deployRun[r].status = "prepared" THEN deployRun[r].repair ELSE "repairing",
                        !.owner = IF deployRun[r].status = "prepared" THEN deployRun[r].owner ELSE "supervisor"]
<1>r. r \in DeployRuns /\ Status(r) # "absent" /\ RunOK(r) /\ supervisor.step = "claim"
  BY DEF DeployInv, SupervisorOK, ClaimRepair
<1>u. UNCHANGED <<deployRunner, mainHead, desiredCommit, completion>>
  BY DEF ClaimRepair, ledgerRest
<1>f. deployRun[r] \in DeployRow /\ deployRun[r].attempts \in Nat
  BY <1>t, <1>r, RunFields
<1>1. \/ Supervisor("gone") /\ UNCHANGED <<deployRun, deployRequest>>
      \/ Park(r, deployRun[r]) /\ Supervisor("gone")
      \/ /\ Repairable(r) /\ ~DriverAlive(r) /\ deployRun' = [deployRun EXCEPT ![r] = over] /\ UNCHANGED deployRequest
         /\ Supervisor(IF deployRun[r].status = "prepared" THEN "retry" ELSE "repair")
  BY DEF ClaimRepair
<1>2. CASE Park(r, deployRun[r]) /\ Supervisor("gone")
  BY <1>r, <1>u, <1>f, <1>2, ParkKeeps DEF Rests
<1>3. CASE /\ Repairable(r) /\ ~DriverAlive(r) /\ deployRun' = [deployRun EXCEPT ![r] = over] /\ UNCHANGED deployRequest
           /\ Supervisor(IF deployRun[r].status = "prepared" THEN "retry" ELSE "repair")
  <2>1. RunActive(r) /\ Status(r) \in {"releasing", "prepared"}
    BY <1>3, ActiveAre DEF Repairable, RunActive
  <2>2. /\ over \in DeployRow /\ over.status = Status(r) /\ over.activation = deployRun[r].activation
        /\ over.desired = deployRun[r].desired /\ over.candidate = deployRun[r].candidate
        /\ over.owner = IF deployRun[r].status = "prepared" THEN deployRun[r].owner ELSE "supervisor"
    <3>1. PICK attempts \in Nat : attempts = deployRun[r].attempts + 1
      BY <1>f
    <3>2. PICK repair \in {"none", "restored", "repairing", "retrying", "parked"} :
            repair = IF deployRun[r].status = "prepared" THEN deployRun[r].repair ELSE "repairing"
      BY <1>f DEF DeployRow
    <3>3. PICK owner \in {"none", "runner", "supervisor"} :
            owner = IF deployRun[r].status = "prepared" THEN deployRun[r].owner ELSE "supervisor"
      BY <1>f DEF DeployRow
    <3>4. over = [deployRun[r] EXCEPT !.attempts = attempts, !.repair = repair, !.owner = owner]
      BY <3>1, <3>2, <3>3
    <3> HIDE DEF over
    <3>5. /\ over \in DeployRow /\ over.status = Status(r) /\ over.activation = deployRun[r].activation
          /\ over.desired = deployRun[r].desired /\ over.candidate = deployRun[r].candidate /\ over.owner = owner
      BY <1>f, <3>4 DEF DeployRow, Status
    <3> QED
      BY <3>3, <3>5
  <2>3. deployRun' = [deployRun EXCEPT ![r] = over]
    BY <1>3
  <2> HIDE DEF over
  <2>4. PICK step \in {"retry", "repair"} : /\ step = IF deployRun[r].status = "prepared" THEN "retry" ELSE "repair"
                                            /\ Supervisor(step)
    BY <1>3
  <2>5. deployRunner.run = r => deployRunner.step \in {"gone", "claim"}
    BY <1>r, <1>3, <2>1, Alive
  <2>6. step \in {"repair", "integrated"} => over.owner = "supervisor"
    BY <2>2, <2>4
  <2>7. over.status \in ActiveStatuses /\ (over.activation # "none" /\ over.desired # NoCommit => over.candidate = over.desired)
    BY <1>r, <2>1, <2>2 DEF RunOK, RunActive
  <2>8. mainHead' \in Nat
    BY <1>t, <1>u DEF DeployTypes
  <2> QED
    BY <1>r, <1>u, <1>3, <2>1, <2>2, <2>3, <2>4, <2>5, <2>6, <2>7, <2>8, SupervisorWrites
<1> QED
  BY <1>1, <1>2, <1>3, SupervisorGoesOn

\* A repair is put on main.
LEMMA RepairCommitKeeps ==
    ASSUME DeployInv, RecordRepairCommit
    PROVE  DeployInv'
<1>t. DeployTypes
  BY DEF DeployInv
<1> DEFINE r == supervisor.run
<1>r. /\ r \in DeployRuns /\ Status(r) # "absent" /\ RunOK(r) /\ supervisor.step = "repair" /\ Repairable(r)
      /\ RunActive(r) => deployRun[r].owner = "supervisor"
  BY DEF DeployInv, SupervisorOK, RecordRepairCommit
<1>u. UNCHANGED <<deployRequest, deployRunner, desiredCommit, completion>> /\ Supervisor("integrated")
  BY DEF RecordRepairCommit
<1>f. deployRun[r] \in DeployRow /\ deployRun[r].attempts \in Nat /\ deployRun[r].failed \in Nat /\ mainHead \in Nat
  BY <1>t, <1>r, RunFields DEF DeployTypes
<1>1. PICK fix \in deployRun[r].failed + 1..mainHead + 1 :
         /\ deployRun' = [deployRun EXCEPT ![r] = [deployRun[r] EXCEPT
                !.fix = fix, !.repair = "repairing", !.attempts = IF deployRun[r].fix # fix THEN 1 ELSE deployRun[r].attempts]]
         /\ mainHead' = IF fix > mainHead THEN fix ELSE mainHead
  BY DEF RecordRepairCommit
<1>2. fix \in Nat /\ mainHead' \in Nat
  BY <1>f, <1>1
<1>3. PICK attempts \in Nat : attempts = IF deployRun[r].fix # fix THEN 1 ELSE deployRun[r].attempts
  BY <1>f
<1> DEFINE over == [deployRun[r] EXCEPT !.fix = fix, !.repair = "repairing", !.attempts = attempts]
<1>4. deployRun' = [deployRun EXCEPT ![r] = over]
  BY <1>1, <1>3
<1>5. /\ over \in DeployRow /\ over.status = Status(r) /\ over.activation = deployRun[r].activation
      /\ over.desired = deployRun[r].desired /\ over.candidate = deployRun[r].candidate /\ over.owner = deployRun[r].owner
  BY <1>f, <1>2 DEF DeployRow, Status
<1> HIDE DEF over
<1>6. RunActive(r) /\ over.status \in ActiveStatuses
  BY <1>r, <1>5, ActiveAre DEF Repairable, RunActive
<1>7. deployRunner.run = r => deployRunner.step \in {"gone", "claim"}
  BY <1>r, <1>6, RepairIsAlone
<1>8. over.activation # "none" /\ over.desired # NoCommit => over.candidate = over.desired
  BY <1>r, <1>5, <1>6 DEF RunOK
<1>9. over.owner = "supervisor"
  BY <1>r, <1>5, <1>6
<1> QED
  BY <1>r, <1>u, <1>2, <1>4, <1>5, <1>6, <1>7, <1>8, <1>9, SupervisorWrites

LEMMA RetryKeeps ==
    ASSUME DeployInv, PrepareRetry
    PROVE  DeployInv'
<1>t. DeployTypes
  BY DEF DeployInv
<1> DEFINE r == supervisor.run
           over == Retried(deployRun[r])
<1>r. /\ r \in DeployRuns /\ RunOK(r) /\ supervisor.step = "integrated" /\ Status(r) = "releasing" /\ Supervisor("retry")
      /\ deployRun' = [deployRun EXCEPT ![r] = over]
  BY DEF DeployInv, SupervisorOK, PrepareRetry
<1>u. UNCHANGED <<deployRequest, deployRunner, mainHead, desiredCommit, completion>>
  BY DEF PrepareRetry, ledgerRest
<1>f. deployRun[r] \in DeployRow /\ deployRun[r].fix \in Nat
  BY <1>t, <1>r, RunFields
<1>1. over \in DeployRow /\ over.status = "prepared" /\ over.activation = "none"
  BY <1>f DEF DeployRow, RunStatus, Retried, NoCommit
<1> HIDE DEF over
<1>2. RunActive(r) /\ over.status \in ActiveStatuses
  BY <1>r, <1>1, ActiveAre DEF RunActive
<1>3. deployRunner.run = r => deployRunner.step \in {"gone", "claim"}
  BY <1>r, <1>2, RepairIsAlone
<1>4. mainHead' \in Nat
  BY <1>t, <1>u DEF DeployTypes
<1> QED
  BY <1>r, <1>u, <1>1, <1>2, <1>3, <1>4, SupervisorWrites

\* The retry's runner has ended.
LEMMA RetryEndKeeps ==
    ASSUME DeployInv, RetryEnded
    PROVE  DeployInv'
<1>t. DeployTypes
  BY DEF DeployInv
<1> DEFINE r == supervisor.run
           taken == [deployRun[r] EXCEPT !.repair = "repairing", !.owner = "supervisor"]
           again == [deployRun[r] EXCEPT !.status = "prepared", !.owner = "none"]
           closed == [deployRun[r] EXCEPT !.incident = "closed"]
<1>r. /\ r \in DeployRuns /\ Status(r) # "absent" /\ RunOK(r)
      /\ supervisor.step = "retry" /\ deployRunner.step = "gone"
  BY DEF DeployInv, SupervisorOK, RetryEnded
<1>u. UNCHANGED <<deployRunner, mainHead, desiredCommit, completion>> /\ mainHead' \in Nat
  BY <1>t DEF RetryEnded, ledgerRest, DeployTypes
<1>f. deployRun[r] \in DeployRow /\ deployRun[r].candidate \in Nat
  BY <1>t, <1>r, RunFields
<1>1. \/ /\ Status(r) = "releasing" /\ Supervisor("repair") /\ UNCHANGED deployRequest
         /\ deployRun' = [deployRun EXCEPT ![r] = taken]
      \/ Supervisor("retry") /\ BeginRepair(r, deployRun[r].candidate)
      \/ /\ RunActive(r) /\ deployRun[r].activation = "none" /\ Supervisor("gone") /\ UNCHANGED deployRequest
         /\ deployRun' = [deployRun EXCEPT ![r] = again]
      \/ Supervisor("gone") /\ Park(r, deployRun[r])
      \/ /\ ~RunActive(r) /\ Supervisor("gone") /\ UNCHANGED deployRequest
         /\ deployRun' = [deployRun EXCEPT ![r] = closed]
  <2>1. deployRun' = [deployRun EXCEPT ![r].incident = "closed"] => deployRun' = [deployRun EXCEPT ![r] = closed]
    BY <1>t DEF DeployTypes
  <2> HIDE DEF closed
  <2>2. CASE Status(r) = "releasing" /\ deployRun[r].repair = "restored"
    BY <2>2 DEF RetryEnded, Status
  <2>3. CASE deployRun[r].repair = "retrying" /\ RunActive(r) /\ deployRun[r].activation # "none"
    BY <2>3 DEF RetryEnded, Status, RunActive
  <2>4. CASE deployRun[r].repair = "retrying" /\ RunActive(r) /\ deployRun[r].activation = "none"
    BY <2>4 DEF RetryEnded, Status, RunActive
  <2>5. CASE /\ ~(Status(r) = "releasing" /\ deployRun[r].repair = "restored")
             /\ ~(deployRun[r].repair = "retrying" /\ RunActive(r))
    BY <2>1, <2>5 DEF RetryEnded, Status, RunActive
  <2> QED
    BY <2>2, <2>3, <2>4, <2>5
<1>2. CASE /\ Status(r) = "releasing" /\ Supervisor("repair") /\ UNCHANGED deployRequest
           /\ deployRun' = [deployRun EXCEPT ![r] = taken]
  <2>1. /\ taken \in DeployRow /\ taken.status = Status(r) /\ taken.activation = deployRun[r].activation
        /\ taken.desired = deployRun[r].desired /\ taken.candidate = deployRun[r].candidate /\ taken.owner = "supervisor"
    BY <1>f DEF DeployRow, Status
  <2> HIDE DEF taken
  <2>2. RunActive(r) /\ taken.status \in ActiveStatuses
    BY <1>2, <2>1, ActiveAre DEF RunActive
  <2>3. taken.activation # "none" /\ taken.desired # NoCommit => taken.candidate = taken.desired
    BY <1>r, <2>1, <2>2 DEF RunOK
  <2> QED
    BY <1>r, <1>u, <1>2, <2>1, <2>2, <2>3, SupervisorWrites
<1>3. CASE Supervisor("retry") /\ BeginRepair(r, deployRun[r].candidate)
  <2>1. supervisor' = supervisor
    BY <1>t, <1>r, <1>3 DEF Supervisor, DeployTypes, SupervisorRow
  <2> QED
    BY <1>r, <1>u, <1>f, <1>3, <2>1, RepairBegins DEF Rests
<1>4. CASE /\ RunActive(r) /\ deployRun[r].activation = "none" /\ Supervisor("gone") /\ UNCHANGED deployRequest
           /\ deployRun' = [deployRun EXCEPT ![r] = again]
  <2>1. again \in DeployRow /\ again.status = "prepared" /\ again.activation = "none"
    BY <1>f, <1>4 DEF DeployRow, RunStatus
  <2> HIDE DEF again
  <2>2. again.status \in ActiveStatuses
    BY <2>1, ActiveAre
  <2> QED
    BY <1>r, <1>u, <1>4, <2>1, <2>2, SupervisorWrites
<1>5. CASE Supervisor("gone") /\ Park(r, deployRun[r])
  BY <1>r, <1>u, <1>f, <1>5, ParkKeeps DEF Rests
<1>6. CASE /\ ~RunActive(r) /\ Supervisor("gone") /\ UNCHANGED deployRequest
           /\ deployRun' = [deployRun EXCEPT ![r] = closed]
  <2>1. /\ closed \in DeployRow /\ closed.status = Status(r) /\ closed.incident = "closed"
        /\ closed.deployed = deployRun[r].deployed
    BY <1>f DEF DeployRow, Status
  <2> HIDE DEF closed
  <2>2. /\ deployRun' \in [DeployRuns -> DeployRow] /\ deployRun'[r] = closed
        /\ \A s \in DeployRuns : s # r => deployRun'[s] = deployRun[s]
    BY <1>t, <1>r, <1>6, <2>1, RunWritten
  <2>3. supervisor' \in SupervisorRow /\ supervisor'.step = "gone"
    BY <1>t, <1>6, SupervisorMoves
  <2>4. RunnerOK' /\ SupervisorOK'
    BY <1>r, <1>u, <2>3 DEF RunnerOK, SupervisorOK
  <2>5. DeployTypes'
    BY <1>t, <1>u, <1>6, <2>2, <2>3 DEF DeployTypes
  <2>6. ~(closed.status \in ActiveStatuses)
    BY <1>6, <2>1 DEF RunActive
  <2> QED
    BY <1>r, <1>6, <2>1, <2>4, <2>5, <2>6, RowMoves
<1> QED
  BY <1>1, <1>2, <1>3, <1>4, <1>5, <1>6

LEMMA StopKeeps ==
    ASSUME DeployInv, SupervisorStops
    PROVE  DeployInv'
<1>t. DeployTypes
  BY DEF DeployInv
<1>1. supervisor.run \in DeployRuns /\ Status(supervisor.run) # "absent"
  BY DEF DeployInv, SupervisorOK, SupervisorStops
<1>2. deployRun[supervisor.run] \in DeployRow
  BY <1>t, <1>1, RunFields
<1>3. Rests /\ UNCHANGED <<mainHead, desiredCommit, completion>> /\ Park(supervisor.run, deployRun[supervisor.run])
  BY DEF Rests, SupervisorStops, ledgerRest
<1> QED
  BY <1>1, <1>2, <1>3, ParkKeeps

-----------------------------------------------------------------------------
(* What is asked for.                                                         *)

\* Commits are pushed, and the runs that follow them desire the last one.
LEMMA PushKeeps ==
    ASSUME DeployInv, Push
    PROVE  DeployInv'
<1>t. DeployTypes
  BY DEF DeployInv
<1>1. UNCHANGED <<desiredCommit, deployRun, deployRequest, deployRunner, supervisor, completion>> /\ mainHead' \in Nat
  BY <1>t DEF Push, DeployTypes
<1>2. DeployTypes'
  BY <1>t, <1>1 DEF DeployTypes
<1>3. RunnerOK' /\ SupervisorOK'
  BY <1>1 DEF DeployInv, RunnerOK, SupervisorOK, RunActive, Status
<1> QED
  BY <1>1, <1>2, <1>3, RowsRest

LEMMA ObservationKeeps ==
    ASSUME DeployInv, NEW c \in Commits, ObserveDesiredCommit(c)
    PROVE  DeployInv'
<1>t. DeployTypes
  BY DEF DeployInv
<1>u. UNCHANGED <<mainHead, deployRequest, deployRunner, supervisor, completion>> /\ desiredCommit' = c /\ c \in Nat
  BY DEF ObserveDesiredCommit, Commits
<1>1. ASSUME NEW r \in DeployRuns
      PROVE  /\ deployRun'[r] \in DeployRow /\ deployRun'[r].status = Status(r) /\ deployRun'[r].owner = deployRun[r].owner
             /\ deployRun'[r].activation = deployRun[r].activation /\ deployRun'[r].candidate = deployRun[r].candidate
             /\ deployRun'[r].deployed = deployRun[r].deployed /\ deployRun'[r].repair = deployRun[r].repair
             /\ deployRun'[r].incident = deployRun[r].incident
             /\ \/ deployRun'[r].desired = deployRun[r].desired
                \/ RunActive(r) /\ deployRun[r].activation = "none" /\ deployRun[r].repair = "none"
  <2>1. deployRun[r] \in DeployRow
    BY <1>t, RunFields
  <2>2. deployRun'[r] = IF RunActive(r) /\ Follows(r) THEN [deployRun[r] EXCEPT !.desired = c] ELSE deployRun[r]
    BY DEF ObserveDesiredCommit, ActiveRuns, RunActive
  <2>3. CASE RunActive(r) /\ Follows(r)
    BY <1>u, <2>1, <2>2, <2>3 DEF DeployRow, Follows, Status
  <2>4. CASE ~(RunActive(r) /\ Follows(r))
    BY <2>1, <2>2, <2>4 DEF Status
  <2> QED
    BY <2>3, <2>4
<1>2. deployRun' \in [DeployRuns -> DeployRow]
  <2>1. deployRun' = [r \in DeployRuns |-> deployRun'[r]]
    BY DEF ObserveDesiredCommit
  <2> QED
    BY <1>1, <2>1
<1>3. DeployTypes'
  BY <1>t, <1>u, <1>2 DEF DeployTypes
<1>4. \A r \in DeployRuns : Status(r)' = Status(r) /\ (RunActive(r)' <=> RunActive(r))
  BY <1>1 DEF Status, RunActive
<1>5. RunnerOK'
  BY <1>1, <1>4, <1>u DEF DeployInv, RunnerOK
<1>6. SupervisorOK'
  BY <1>1, <1>4, <1>u DEF DeployInv, SupervisorOK
<1>7. ASSUME NEW r \in DeployRuns PROVE RunOK(r)'
  BY <1>1, <1>4 DEF DeployInv, RunOK
<1>8. ASSUME NEW q \in DeployRequests PROVE RequestOK(q)'
  <2>1. RequestOK(q) /\ deployRequest[q].run \in DeployRuns \cup {NoRun}
    BY <1>t DEF DeployInv, DeployTypes, RequestRow
  <2> QED
    BY <1>1, <1>4, <1>u, <2>1 DEF RequestOK
<1> QED
  BY <1>3, <1>5, <1>6, <1>7, <1>8 DEF DeployInv

\* A run is prepared: nothing was joined to it.
LEMMA PreparationKeeps ==
    ASSUME DeployInv, NEW r \in DeployRuns, Status(r) = "absent", NEW c \in Nat, deployRun' = PreparedRun(r, c),
           UNCHANGED <<mainHead, desiredCommit, deployRunner, supervisor, completion>>
    PROVE  /\ RunnerOK' /\ SupervisorOK' /\ deployRun' \in [DeployRuns -> DeployRow]
           /\ UNCHANGED deployRequest => DeployInv'
           /\ RunActive(r)' /\ \A s \in DeployRuns : RunOK(s)'
           /\ \A s \in DeployRuns : s # r => deployRun'[s] = deployRun[s]
<1>t. DeployTypes
  BY DEF DeployInv
<1> DEFINE over == [deployRun[r] EXCEPT !.status = "prepared", !.desired = c]
<1>1. deployRun[r] \in DeployRow /\ RunOK(r)
  BY <1>t, RunFields DEF DeployInv
<1>2. over \in DeployRow /\ over.status = "prepared" /\ over.activation = "none"
  BY <1>1 DEF DeployRow, RunStatus, RunOK
<1>3. deployRun' = [deployRun EXCEPT ![r] = over]
  BY DEF PreparedRun
<1> HIDE DEF over
<1>4. /\ deployRun' \in [DeployRuns -> DeployRow] /\ deployRun'[r] = over
      /\ \A s \in DeployRuns : s # r => deployRun'[s] = deployRun[s]
  BY <1>t, <1>2, <1>3, RunWritten
<1>5. "prepared" \in ActiveStatuses
  BY ActiveAre
<1>6. RunnerOK'
  BY <1>4 DEF DeployInv, RunnerOK, RunActive, Status
<1>7. SupervisorOK'
  BY <1>4 DEF DeployInv, SupervisorOK, RunActive, Status
<1>8. UNCHANGED deployRequest => DeployInv'
  <2> SUFFICES ASSUME UNCHANGED deployRequest PROVE DeployInv'
    OBVIOUS
  <2>1. DeployTypes'
    BY <1>t, <1>4 DEF DeployTypes
  <2> QED
    BY <1>2, <1>3, <1>5, <1>6, <1>7, <2>1, RowMoves
<1>9. ASSUME NEW s \in DeployRuns PROVE RunOK(s)'
  BY <1>2, <1>4 DEF DeployInv, RunOK, RunActive, Status
<1> QED
  BY <1>2, <1>4, <1>5, <1>6, <1>7, <1>8, <1>9 DEF RunActive, Status

LEMMA DeploymentAskedKeeps ==
    ASSUME DeployInv, NEW r \in DeployRuns, RequestOperatorDeployment(r) \/ RequestAutomaticDeployment(r)
    PROVE  DeployInv'
<1>t. DeployTypes
  BY DEF DeployInv
<1>1. PICK c \in Nat : deployRun' = PreparedRun(r, c)
  BY <1>t DEF RequestOperatorDeployment, RequestAutomaticDeployment, DeployTypes, NoCommit
<1>2. Status(r) = "absent" /\ UNCHANGED <<mainHead, desiredCommit, deployRequest, deployRunner, supervisor, completion>>
  BY DEF RequestOperatorDeployment, RequestAutomaticDeployment, NextRun, ledgerRest
<1> QED
  BY <1>1, <1>2, PreparationKeeps

\* A turn joins the active run, or the one prepared for it.
LEMMA DeployRequestKeeps ==
    ASSUME DeployInv, NEW q \in DeployRequests, RequestDeployment(q)
    PROVE  DeployInv'
<1>t. DeployTypes
  BY DEF DeployInv
<1>u. UNCHANGED <<mainHead, desiredCommit, deployRunner, supervisor, completion>>
  BY DEF RequestDeployment, ledgerRest
<1>1. PICK r \in DeployRuns, c \in 1..mainHead :
        /\ IF ActiveRuns = {} THEN Status(r) = "absent" /\ deployRun' = PreparedRun(r, NoCommit)
           ELSE r \in ActiveRuns /\ UNCHANGED deployRun
        /\ deployRequest' = [deployRequest EXCEPT ![q] = [run |-> r, expected |-> c, status |-> "pending"]]
  BY DEF RequestDeployment, NextRun
<1>2. /\ RunnerOK' /\ SupervisorOK' /\ deployRun' \in [DeployRuns -> DeployRow]
      /\ RunActive(r)' /\ \A s \in DeployRuns : RunOK(s)'
      /\ \A s \in DeployRuns : deployRun'[s] = deployRun[s] \/ (s = r /\ Status(r) = "absent")
  <2>1. CASE ActiveRuns = {}
    <3>1. NoCommit \in Nat
      BY DEF NoCommit
    <3> QED
      BY <1>1, <1>u, <2>1, <3>1, PreparationKeeps
  <2>2. CASE ActiveRuns # {}
    <3>1. RunActive(r) /\ UNCHANGED deployRun
      BY <1>1, <2>2 DEF ActiveRuns, RunActive
    <3> QED
      BY <1>t, <1>u, <3>1 DEF DeployInv, DeployTypes, RunnerOK, SupervisorOK, RunOK, RunActive,
           Status
  <2> QED
    BY <2>1, <2>2
<1>3. c \in Nat /\ r # NoRun
  BY <1>t, RunFields DEF DeployTypes
<1> DEFINE asked == [run |-> r, expected |-> c, status |-> "pending"]
<1>4. asked \in RequestRow /\ asked.run = r /\ asked.status = "pending"
  BY <1>3 DEF RequestRow
<1>5. deployRequest' = [deployRequest EXCEPT ![q] = asked]
  BY <1>1
<1> HIDE DEF asked
<1>6. /\ deployRequest' \in [DeployRequests -> RequestRow] /\ deployRequest'[q] = asked
      /\ \A p \in DeployRequests : p # q => deployRequest'[p] = deployRequest[p]
  BY <1>t, <1>4, <1>5 DEF DeployTypes
<1>7. DeployTypes'
  BY <1>t, <1>u, <1>2, <1>6 DEF DeployTypes
<1>8. "absent" \notin ActiveStatuses /\ "succeeded" \notin ActiveStatuses
  BY ActiveAre
<1>9. ASSUME NEW p \in DeployRequests PROVE RequestOK(p)'
  <2>1. CASE p = q
    BY <1>2, <1>3, <1>4, <1>6, <1>8, <2>1 DEF RequestOK, RunActive
  <2>2. CASE p # q
    <3>1. RequestOK(p) /\ deployRequest[p].run \in DeployRuns \cup {NoRun}
      BY <1>t DEF DeployInv, DeployTypes, RequestRow
    <3> QED
      BY <1>2, <1>6, <2>2, <3>1 DEF RequestOK, RunActive, Status
  <2> QED
    BY <2>1, <2>2
<1> QED
  BY <1>2, <1>7, <1>9 DEF DeployInv

-----------------------------------------------------------------------------
(* The invariant of every run, and what follows from it.                      *)

LEMMA DeployStarts == DeployInit => DeployInv
<1> SUFFICES ASSUME DeployInit PROVE DeployInv
  OBVIOUS
<1> DEFINE blank == [status |-> "absent", desired |-> NoCommit, owner |-> "none", activation |-> "none",
                     candidate |-> NoCommit, deployed |-> NoCommit, repair |-> "none", incident |-> "none",
                     failed |-> NoCommit, same |-> 0, fix |-> NoCommit, attempts |-> 0]
<1>1. blank \in DeployRow /\ blank.status = "absent" /\ blank.activation = "none"
  BY DEF DeployRow, RunStatus, NoCommit
<1>2. deployRun = [r \in DeployRuns |-> blank]
  BY DEF DeployInit
<1> HIDE DEF blank
<1>3. \A q \in DeployRequests : deployRequest[q] = [run |-> NoRun, expected |-> NoCommit, status |-> "none"]
  BY DEF DeployInit
<1>4. [run |-> NoRun, expected |-> NoCommit, status |-> "none"] \in RequestRow
  BY DEF RequestRow, NoRun, NoCommit
<1>5. deployRunner \in RunnerRow /\ supervisor \in SupervisorRow /\ deployRunner.step = "gone" /\ supervisor.step = "gone"
  BY DEF DeployInit, RunnerRow, RunnerSteps, SupervisorRow
<1>6. DeployTypes
  BY <1>1, <1>2, <1>4, <1>5 DEF DeployInit, DeployTypes
<1>7. "absent" \notin ActiveStatuses
  BY ActiveAre
<1> QED
  BY <1>1, <1>2, <1>3, <1>5, <1>6, <1>7 DEF DeployInv, RunnerOK, SupervisorOK, RunOK, RequestOK,
       RunActive, Status

LEMMA DeployNextKeeps == DeployInv /\ [DeployNext]_deployVars => DeployInv'
<1> SUFFICES ASSUME DeployInv, [DeployNext]_deployVars PROVE DeployInv'
  OBVIOUS
<1>1. CASE UNCHANGED deployVars
  BY <1>1 DEF deployVars, DeployInv, DeployTypes, RunnerOK, SupervisorOK, RunOK, RequestOK,
       RunActive, Status
<1>2. ASSUME NEW r \in DeployRuns,
             \/ RequestOperatorDeployment(r) \/ RequestAutomaticDeployment(r)
             \/ LaunchRunner(r) \/ LaunchFails(r) \/ ClaimDeploymentRun(r)
             \/ RecoverDeadRun(r) \/ RecoverInterruptedCandidate(r) \/ LaunchRepair(r)
      PROVE  DeployInv'
  BY <1>2, DeploymentAskedKeeps, RunnerGoesOn, DeployRecoveryKeeps, ClaimKeeps, SupervisorGoesOn
<1>3. CASE \/ RecordPhase("drain", "updating", "checkout") \/ RecordPhase("restart", "restarting", "verify")
           \/ RecordPhase("verify", "verifying", "release") \/ RecordPhase("release", "releasing", "promote")
  <2>1. /\ {"drain", "restart", "verify", "release"} \subseteq RunnerSteps \ {"gone", "claim"}
        /\ {"checkout", "verify", "release", "promote"} \subseteq RunnerSteps
    BY DEF RunnerSteps
  <2> QED
    BY <1>3, <2>1, PhaseFollows
<1>4. CASE Checkout \/ PrepareRelease \/ Promote \/ ProveCompletion \/ AnswerArrives \/ RunnerDies
  BY <1>4, RunnerGoesOn
<1>5. CASE IntendActivation \/ Activate \/ CompleteDeploymentRun \/ RunnerFails
  BY <1>5, IntentKeeps, ActivationKeeps, CompletionKeeps, RunnerFailureKeeps
<1>6. CASE ClaimRepair \/ RecordRepairCommit \/ PrepareRetry \/ RetryEnded \/ SupervisorStops \/ SupervisorDies
  BY <1>6, RepairClaimKeeps, RepairCommitKeeps, RetryKeeps, RetryEndKeeps, StopKeeps,
       SupervisorGoesOn
<1>7. CASE Push \/ (\E c \in Commits : ObserveDesiredCommit(c)) \/ \E q \in DeployRequests : RequestDeployment(q)
  BY <1>7, PushKeeps, ObservationKeeps, DeployRequestKeeps
<1> QED
  BY <1>1, <1>2, <1>3, <1>4, <1>5, <1>6, <1>7 DEF DeployNext

(* In every state of a deployment, a runner past its claim owns the run it    *)
(* carries out and a supervisor at work the run it repairs, and what a run    *)
(* has intended is what it desires (deployment-state.ts).                     *)
THEOREM DeploymentHolds == DeploySpec => []DeployInv
<1>1. DeployInit => DeployInv
  BY DeployStarts
<1>2. DeployInv /\ [DeployNext]_deployVars => DeployInv'
  BY DeployNextKeeps
<1> QED
  BY <1>1, <1>2, PTL DEF DeploySpec

-----------------------------------------------------------------------------
(* The bounds of what the ledger of deployments records: a run that goes on   *)
(* has failed the same way at most twice, and what is recorded of commits is  *)
(* a commit of main.                                                          *)

LooseRow(row) ==
    /\ row.desired \in 0..MaxCommit /\ row.candidate \in 0..MaxCommit /\ row.deployed \in 0..MaxCommit
    /\ row.failed \in 0..MaxCommit /\ row.fix \in 0..MaxCommit
    /\ row.same \in 0..3 /\ row.attempts \in 0..3

BoundRow(row) == LooseRow(row) /\ (row.status \in ActiveStatuses \cup {"absent"} => row.same \in 0..2)

RowsBound == \A r \in DeployRuns : BoundRow(deployRun[r])
RequestsBound == \A q \in DeployRequests : deployRequest[q].expected \in 0..MaxCommit
MarksBound ==
    /\ lastKnownGood \in Commits
    /\ releaseRun \in [Commits -> DeployRuns \cup {NoRun}] /\ lastActivation \in [Commits -> DeployRuns \cup {NoRun}]

DeployBounds ==
    /\ mainHead \in Commits /\ desiredCommit \in Commits /\ MarksBound
    /\ RowsBound /\ RequestsBound
    /\ deployRunner.commit \in Commits /\ \A p \in completion : p.commit \in Commits

LEMMA RowIsBound ==
    ASSUME DeployTypes, RowsBound, NEW r \in DeployRuns, NEW row, BoundRow(row), deployRun' = [deployRun EXCEPT ![r] = row]
    PROVE  RowsBound'
<1>1. ASSUME NEW s \in DeployRuns PROVE deployRun'[s] = row \/ deployRun'[s] = deployRun[s]
  BY DEF DeployTypes
<1> QED
  BY <1>1 DEF RowsBound, BoundRow, LooseRow

\* A run that ends badly keeps what it recorded, and its requests what they expect.
LEMMA FailureIsBound ==
    ASSUME DeployTypes, RowsBound, RequestsBound, NEW r \in DeployRuns, NEW row \in DeployRow, LooseRow(row),
           NEW outcome \in {"failed", "ambiguous"}, Fail(r, row, outcome)
    PROVE  RowsBound' /\ RequestsBound'
<1> DEFINE ended == [row EXCEPT !.status = outcome]
<1>1. BoundRow(ended)
  BY DeployRowFields, ActiveAre DEF BoundRow, LooseRow
<1>2. deployRun' = [deployRun EXCEPT ![r] = ended]
  BY DEF Fail
<1> HIDE DEF ended
<1>3. RowsBound'
  BY <1>1, <1>2, RowIsBound
<1>4. ASSUME NEW q \in DeployRequests PROVE deployRequest'[q].expected = deployRequest[q].expected
  BY DEF Fail, SettleRequests, DeployTypes, RequestRow
<1> QED
  BY <1>3, <1>4 DEF RequestsBound

LEMMA ParkIsBound ==
    ASSUME DeployTypes, RowsBound, RequestsBound, NEW r \in DeployRuns, NEW row \in DeployRow, LooseRow(row), Park(r, row)
    PROVE  RowsBound' /\ RequestsBound'
<1> DEFINE parked == [row EXCEPT !.repair = "parked", !.incident = "closed"]
<1>1. parked \in DeployRow /\ LooseRow(parked)
  BY DeployRowFields DEF DeployRow, LooseRow
<1>2. Fail(r, parked, "failed")
  BY DEF Park
<1> HIDE DEF parked
<1> QED
  BY <1>1, <1>2, FailureIsBound

\* The third failure of the same kind parks the run, so one that goes on had two.
LEMMA RepairIsBound ==
    ASSUME DeployTypes, RowsBound, RequestsBound, NEW r \in DeployRuns, NEW c \in 0..MaxCommit, BeginRepair(r, c)
    PROVE  RowsBound' /\ RequestsBound'
<1>1. deployRun[r] \in DeployRow /\ LooseRow(deployRun[r]) /\ deployRun[r].same \in 0..2
  BY RunFields DEF BeginRepair, ActiveRuns, Status, RowsBound, BoundRow
<1>2. PICK same \in {1, deployRun[r].same + 1} :
          LET row == [deployRun[r] EXCEPT !.status = "releasing", !.repair = "restored", !.incident = "open",
                                          !.failed = c, !.same = same, !.fix = NoCommit]
          IN  IF same >= 3 THEN Park(r, row)
              ELSE deployRun' = [deployRun EXCEPT ![r] = row] /\ UNCHANGED deployRequest
  BY DEF BeginRepair
<1> DEFINE row == [deployRun[r] EXCEPT !.status = "releasing", !.repair = "restored", !.incident = "open",
                                       !.failed = c, !.same = same, !.fix = NoCommit]
<1>3. same \in 1..3 /\ c \in Nat /\ MaxCommit \in Nat
  BY <1>1, <1>2, DeploymentAssumption
<1>4. row \in DeployRow
  <2> DEFINE restored == [deployRun[r] EXCEPT !.status = "releasing", !.repair = "restored", !.incident = "open"]
  <2>1. restored \in DeployRow
    BY <1>1 DEF DeployRow, RunStatus
  <2>2. row = [restored EXCEPT !.failed = c, !.same = same, !.fix = NoCommit]
    OBVIOUS
  <2>3. same \in Nat /\ NoCommit \in Nat
    BY <1>3 DEF NoCommit
  <2> HIDE DEF restored, row
  <2> QED
    BY <1>3, <2>1, <2>2, <2>3 DEF DeployRow
<1>5. LooseRow(row) /\ row.same = same
  BY <1>1, <1>3, DeployRowFields DEF LooseRow, NoCommit
<1>6. IF same >= 3 THEN Park(r, row) ELSE deployRun' = [deployRun EXCEPT ![r] = row] /\ UNCHANGED deployRequest
  BY <1>2
<1> HIDE DEF row
<1>7. CASE same >= 3
  BY <1>4, <1>5, <1>6, <1>7, ParkIsBound
<1>8. CASE ~(same >= 3)
  <2>1. BoundRow(row)
    BY <1>3, <1>5, <1>8 DEF BoundRow
  <2> QED
    BY <1>6, <1>8, <2>1, RowIsBound DEF RequestsBound
<1> QED
  BY <1>7, <1>8

LEMMA BoundsStart == DeployInit => DeployBounds
<1>1. MaxCommit \in Nat /\ MaxCommit >= 1
  BY DeploymentAssumption
<1> QED
  BY <1>1, ActiveAre DEF DeployInit, DeployBounds, MarksBound, RowsBound, RequestsBound, BoundRow, LooseRow, Commits,
       NoRun, NoCommit

LEMMA BoundsStay == DeployInv /\ DeployBounds /\ [DeployNext]_deployVars => DeployBounds'
<1> SUFFICES ASSUME DeployInv, DeployBounds, [DeployNext]_deployVars PROVE DeployBounds'
  OBVIOUS
<1>t. DeployTypes /\ RunnerOK /\ SupervisorOK
  BY DEF DeployInv
<1>b. /\ mainHead \in Commits /\ desiredCommit \in Commits /\ MarksBound /\ RowsBound /\ RequestsBound
      /\ deployRunner.commit \in Commits /\ \A p \in completion : p.commit \in Commits
  BY DEF DeployBounds
<1>n. MaxCommit \in Nat /\ MaxCommit >= 1 /\ \A c \in Commits : c \in 0..MaxCommit /\ c \in Nat
  BY DeploymentAssumption DEF Commits
<1>f. ASSUME NEW r \in DeployRuns
      PROVE  /\ deployRun[r] \in DeployRow /\ BoundRow(deployRun[r]) /\ LooseRow(deployRun[r])
             /\ r \in ActiveRuns <=> deployRun[r].status \in ActiveStatuses
  BY <1>t, <1>b, RunFields DEF RowsBound, BoundRow, ActiveRuns, Status
<1>g. ASSUME NEW step, RunnerGoes(step) PROVE deployRunner'.commit = deployRunner.commit
  BY <1>g, <1>t, DriverFields DEF RunnerGoes
<1>m. UNCHANGED <<lastKnownGood, releaseRun, lastActivation>> => MarksBound'
  BY <1>b DEF MarksBound
<1>1. CASE UNCHANGED deployVars
  BY <1>1, <1>b, <1>m DEF deployVars, DeployBounds, RowsBound, RequestsBound, BoundRow, LooseRow
<1>2. CASE Push
  BY <1>2, <1>b, <1>m, <1>n DEF Push, Commits, DeployBounds, RowsBound, RequestsBound, BoundRow, LooseRow
<1>3. ASSUME NEW c \in Commits, ObserveDesiredCommit(c) PROVE DeployBounds'
  <2>1. ASSUME NEW r \in DeployRuns PROVE BoundRow(deployRun'[r])
    <3>1. deployRun'[r] = deployRun[r] \/ deployRun'[r] = [deployRun[r] EXCEPT !.desired = c]
      BY <1>3 DEF ObserveDesiredCommit
    <3> QED
      BY <3>1, <1>f, <1>n, DeployRowFields DEF BoundRow, LooseRow
  <2> QED
    BY <1>3, <2>1, <1>b, <1>m DEF ObserveDesiredCommit, DeployBounds, RowsBound, RequestsBound
<1>4. ASSUME NEW r \in DeployRuns, NEW c \in 0..MaxCommit, NextRun(r), deployRun' = PreparedRun(r, c)
      PROVE  RowsBound'
  <2> DEFINE row == [deployRun[r] EXCEPT !.status = "prepared", !.desired = c]
  <2>1. deployRun' = [deployRun EXCEPT ![r] = row]
    BY <1>4, <1>t DEF PreparedRun, DeployTypes
  <2>2. BoundRow(row)
    BY <1>4, <1>f, DeployRowFields DEF NextRun, Status, BoundRow, LooseRow
  <2> HIDE DEF row
  <2> QED
    BY <2>1, <2>2, <1>t, <1>b, RowIsBound
<1>q. ASSUME RowsBound', RequestsBound', UNCHANGED <<ledgerRest, completion>>, deployRunner'.commit = deployRunner.commit
      PROVE  DeployBounds'
  BY <1>q, <1>b DEF ledgerRest, DeployBounds, MarksBound
<1>r. ASSUME NEW r \in DeployRuns, NEW row, BoundRow(row), deployRun' = [deployRun EXCEPT ![r] = row]
      PROVE  RowsBound'
  BY <1>r, <1>t, <1>b, RowIsBound
<1>u. UNCHANGED deployRun => RowsBound'
  BY <1>b DEF RowsBound, BoundRow, LooseRow
<1>v. UNCHANGED deployRequest => RequestsBound'
  BY <1>b DEF RequestsBound
<1>p. ASSUME NEW r \in DeployRuns, Park(r, deployRun[r]) PROVE RowsBound' /\ RequestsBound'
  BY <1>p, <1>t, <1>b, <1>f, ParkIsBound
<1>5. ASSUME NEW q \in DeployRequests, RequestDeployment(q) PROVE DeployBounds'
  <2>1. PICK r \in DeployRuns, c \in 1..mainHead :
            /\ IF ActiveRuns = {} THEN NextRun(r) /\ deployRun' = PreparedRun(r, NoCommit)
               ELSE r \in ActiveRuns /\ UNCHANGED deployRun
            /\ deployRequest' = [deployRequest EXCEPT ![q] = [run |-> r, expected |-> c, status |-> "pending"]]
    BY <1>5 DEF RequestDeployment
  <2>2. c \in 0..MaxCommit /\ NoCommit \in 0..MaxCommit
    BY <1>b, <1>n DEF Commits, NoCommit
  <2>3. ASSUME NEW p \in DeployRequests PROVE deployRequest'[p].expected \in {c, deployRequest[p].expected}
    BY <2>1, <1>t DEF DeployTypes
  <2>4. RequestsBound'
    BY <2>2, <2>3, <1>b DEF RequestsBound
  <2> QED
    BY <2>1, <2>2, <2>4, <1>4, <1>5, <1>q, <1>u DEF RequestDeployment
<1>6. ASSUME NEW r \in DeployRuns, RequestOperatorDeployment(r) \/ RequestAutomaticDeployment(r) PROVE DeployBounds'
  <2>1. NoCommit \in 0..MaxCommit /\ desiredCommit \in 0..MaxCommit
    BY <1>b, <1>n DEF NoCommit
  <2> QED
    BY <2>1, <1>4, <1>6, <1>q, <1>v DEF RequestOperatorDeployment, RequestAutomaticDeployment
<1>7. CASE \/ \E r \in DeployRuns : LaunchRunner(r) \/ LaunchRepair(r)
           \/ AnswerArrives \/ RunnerDies \/ SupervisorDies
  <2>1. deployRunner'.commit = deployRunner.commit
    BY <1>7, <1>g, <1>t, DriverFields DEF LaunchRunner, LaunchRepair, AnswerArrives, RunnerDies, SupervisorDies
  <2> QED
    BY <1>7, <2>1, <1>q, <1>u, <1>v DEF LaunchRunner, LaunchRepair, AnswerArrives, RunnerDies, SupervisorDies
<1>8. ASSUME NEW r \in DeployRuns, LaunchFails(r) PROVE DeployBounds'
  <2>1. CASE Fail(r, deployRun[r], "failed")
    <3>1. RowsBound' /\ RequestsBound'
      BY <2>1, <1>t, <1>b, <1>f, FailureIsBound
    <3> QED
      BY <3>1, <1>8, <1>q DEF LaunchFails
  <2>2. CASE BeginRepair(r, deployRun[r].desired)
    <3>1. deployRun[r].desired \in 0..MaxCommit
      BY <1>f DEF LooseRow
    <3>2. RowsBound' /\ RequestsBound'
      BY <2>2, <3>1, <1>t, <1>b, RepairIsBound
    <3> QED
      BY <3>2, <1>8, <1>q DEF LaunchFails
  <2> QED
    BY <2>1, <2>2, <1>8 DEF LaunchFails
<1>9. ASSUME NEW r \in DeployRuns, ClaimDeploymentRun(r) PROVE DeployBounds'
  <2>1. deployRunner'.commit = deployRunner.commit
    BY <1>9, <1>g DEF ClaimDeploymentRun
  <2>2. \/ UNCHANGED deployRun
        \/ /\ deployRun[r].status \in ActiveStatuses
           /\ deployRun' = [deployRun EXCEPT ![r] = [deployRun[r] EXCEPT !.status = "draining", !.owner = "runner"]]
    BY <1>9, <1>t, <1>f, ActiveAre DEF ClaimDeploymentRun, DeployTypes
  <2>3. RowsBound'
    <3>1. deployRun[r].status \in ActiveStatuses => BoundRow([deployRun[r] EXCEPT !.status = "draining", !.owner = "runner"])
      BY <1>f, DeployRowFields DEF BoundRow, LooseRow
    <3> QED
      BY <2>2, <3>1, <1>r, <1>u
  <2> QED
    BY <2>1, <2>3, <1>9, <1>q, <1>v DEF ClaimDeploymentRun
<1>10. ASSUME NEW step, NEW phase, NEW next, step # "gone", RecordPhase(step, phase, next) PROVE DeployBounds'
  <2> DEFINE r == deployRunner.run
  <2>1. r \in DeployRuns
    BY <1>10, <1>t DEF RecordPhase, RunnerOK
  <2>2. deployRun' = [deployRun EXCEPT ![r] = [deployRun[r] EXCEPT !.status = phase]]
    BY <1>10, <1>t, <2>1 DEF RecordPhase, DeployTypes
  <2>3. deployRun[r].status \in ActiveStatuses
    <3>1. PICK i \in 1..5 : Status(r) = Phases[i]
      BY <1>10 DEF RecordPhase
    <3>2. i \in DOMAIN Phases
      BY DEF Phases
    <3> QED
      BY <3>1, <3>2 DEF ActiveStatuses, Status
  <2>4. BoundRow([deployRun[r] EXCEPT !.status = phase])
    BY <2>1, <2>3, <1>f, DeployRowFields DEF BoundRow, LooseRow
  <2>5. RowsBound'
    BY <2>1, <2>2, <2>4, <1>r
  <2> QED
    BY <2>5, <1>10, <1>g, <1>q, <1>v DEF RecordPhase
<1>11. CASE Checkout
  <2> DEFINE r == deployRunner.run
             desired == deployRun[r].desired
  <2>1. r \in DeployRuns
    BY <1>11, <1>t DEF Checkout, RunnerOK
  <2>2. desired \in 0..MaxCommit
    BY <2>1, <1>f DEF LooseRow
  <2>3. deployRunner'.commit = IF desired = NoCommit THEN mainHead ELSE desired
    BY <1>11, <1>t, DriverFields DEF Checkout
  <2>4. deployRunner'.commit \in Commits
    BY <2>2, <2>3, <1>b, <1>n DEF NoCommit, Commits
  <2> QED
    BY <2>4, <1>11, <1>b, <1>m, <1>u, <1>v DEF Checkout, ledgerRest, DeployBounds
<1>12. CASE PrepareRelease
  <2>1. deployRunner.run \in DeployRuns
    BY <1>12, <1>t DEF PrepareRelease, RunnerOK
  <2>2. MarksBound'
    BY <1>12, <2>1, <1>b DEF PrepareRelease, MarksBound
  <2>3. deployRunner'.commit = deployRunner.commit
    BY <1>12, <1>g DEF PrepareRelease
  <2> QED
    BY <1>12, <2>2, <2>3, <1>b, <1>u, <1>v DEF PrepareRelease, DeployBounds
<1>13. CASE IntendActivation
  <2> DEFINE r == deployRunner.run
             row == [deployRun[r] EXCEPT !.candidate = deployRunner.commit, !.activation = "intended"]
  <2>1. r \in DeployRuns
    BY <1>13, <1>t DEF IntendActivation, RunnerOK
  <2>2. UNCHANGED deployRun \/ deployRun' = [deployRun EXCEPT ![r] = row]
    BY <1>13, <1>t DEF IntendActivation, DeployTypes
  <2>3. BoundRow(row)
    BY <2>1, <1>b, <1>f, <1>n, DeployRowFields DEF BoundRow, LooseRow
  <2>4. RowsBound'
    BY <2>1, <2>2, <2>3, <1>r, <1>u
  <2>5. deployRunner'.commit = deployRunner.commit
    BY <1>13, <1>g DEF IntendActivation
  <2> QED
    BY <1>13, <2>4, <2>5, <1>q, <1>v DEF IntendActivation
<1>14. CASE Activate
  <2> DEFINE r == deployRunner.run
             row == [deployRun[r] EXCEPT !.activation = "active"]
  <2>1. r \in DeployRuns
    BY <1>14, <1>t DEF Activate, RunnerOK
  <2>2. deployRun' = [deployRun EXCEPT ![r] = row]
    BY <1>14, <1>t, <2>1 DEF Activate, DeployTypes
  <2>3. BoundRow(row)
    BY <2>1, <1>b, <1>f, <1>n, DeployRowFields DEF BoundRow, LooseRow
  <2>4. RowsBound'
    BY <2>1, <2>2, <2>3, <1>r
  <2>5. MarksBound'
    BY <1>14, <2>1, <1>b DEF Activate, MarksBound
  <2>6. deployRunner'.commit = deployRunner.commit
    BY <1>14, <1>g DEF Activate
  <2> QED
    BY <1>14, <2>4, <2>5, <2>6, <1>b, <1>v DEF Activate, DeployBounds
<1>15. CASE Promote
  <2>1. MarksBound'
    BY <1>15, <1>b DEF Promote, MarksBound
  <2>2. deployRunner'.commit = deployRunner.commit
    BY <1>15, <1>g DEF Promote
  <2> QED
    BY <1>15, <2>1, <2>2, <1>b, <1>u, <1>v DEF Promote, DeployBounds
<1>16. CASE ProveCompletion
  <2>1. deployRunner'.commit = deployRunner.commit
    BY <1>16, <1>g DEF ProveCompletion
  <2>2. \A p \in completion' : p.commit \in Commits
    BY <1>16, <1>b DEF ProveCompletion
  <2> QED
    BY <1>16, <2>1, <2>2, <1>b, <1>m, <1>u, <1>v DEF ProveCompletion, ledgerRest, DeployBounds
<1>17. CASE CompleteDeploymentRun
  <2>1. PICK p \in completion :
        LET r == p.run
            row == deployRun[r]
        IN  IF row.status # "releasing" THEN completion' = {} /\ UNCHANGED <<deployRun, deployRequest, desiredCommit>>
            ELSE IF JoinedTo(r) # p.asked THEN
                 completion' = {[p EXCEPT !.asked = JoinedTo(r)]} /\ UNCHANGED <<deployRun, deployRequest, desiredCommit>>
            ELSE /\ completion' = {}
                 /\ deployRun' = [deployRun EXCEPT ![r] =
                        [row EXCEPT !.status = "succeeded", !.deployed = p.commit, !.repair = "none",
                                    !.incident = IF row.incident = "open" THEN "closed" ELSE row.incident]]
                 /\ SettleRequests(r, LAMBDA q : IF q \in p.asked /\ deployRequest[q].expected <= p.commit
                                                 THEN "included" ELSE "not_included")
                 /\ desiredCommit' = IF desiredCommit < p.commit THEN p.commit ELSE desiredCommit
    BY <1>17 DEF CompleteDeploymentRun
  <2>u. UNCHANGED <<mainHead, lastKnownGood, releaseRun, supervisor, lastActivation, runnerDeaths, deployRunner>>
    BY <1>17 DEF CompleteDeploymentRun
  <2> DEFINE r == p.run
             row == deployRun[r]
             i == IF row.incident = "open" THEN "closed" ELSE row.incident
             done == [row EXCEPT !.status = "succeeded", !.deployed = p.commit, !.repair = "none", !.incident = i]
  <2>2. r \in DeployRuns /\ p.commit \in Commits /\ DOMAIN p = {"run", "commit", "asked"}
    BY <1>t, <1>b DEF DeployTypes
  <2>3. CASE UNCHANGED <<deployRun, deployRequest, desiredCommit>>
    <3>1. \A x \in completion' : x.commit = p.commit
      BY <2>1, <2>2, <2>3
    <3> QED
      BY <2>2, <2>3, <2>u, <3>1, <1>b, <1>m, <1>u, <1>v DEF DeployBounds
  <2>4. CASE ~UNCHANGED <<deployRun, deployRequest, desiredCommit>>
    <3>1. /\ completion' = {} /\ deployRun' = [deployRun EXCEPT ![r] = done]
          /\ SettleRequests(r, LAMBDA q : IF q \in p.asked /\ deployRequest[q].expected <= p.commit
                                          THEN "included" ELSE "not_included")
          /\ desiredCommit' = IF desiredCommit < p.commit THEN p.commit ELSE desiredCommit
      BY <2>1, <2>4
    <3>2. BoundRow(done)
      <4>1. p.commit \in 0..MaxCommit /\ "succeeded" \notin ActiveStatuses \cup {"absent"}
        BY <2>2, <1>n, ActiveAre
      <4>2. row \in DeployRow /\ LooseRow(row)
        BY <2>2, <1>f
      <4> HIDE DEF i, row
      <4> QED
        BY <4>1, <4>2, DeployRowFields DEF BoundRow, LooseRow
    <3>3. RowsBound'
      BY <2>2, <3>1, <3>2, <1>r
    <3>4. ASSUME NEW q \in DeployRequests PROVE deployRequest'[q].expected = deployRequest[q].expected
      BY <3>1, <1>t DEF SettleRequests, DeployTypes, RequestRow
    <3>5. RequestsBound'
      BY <3>4, <1>b DEF RequestsBound
    <3>6. desiredCommit' \in Commits
      BY <2>2, <3>1, <1>b
    <3> QED
      BY <2>u, <3>1, <3>3, <3>5, <3>6, <1>b, <1>m DEF DeployBounds
  <2> QED
    BY <2>3, <2>4
<1>18. CASE RunnerFails
  <2> DEFINE r == deployRunner.run
             row == deployRun[r]
             c == IF deployRunner.step = "recover" THEN row.candidate ELSE deployRunner.commit
  <2>1. r \in DeployRuns
    BY <1>18, <1>t DEF RunnerFails, RunnerOK
  <2>2. c \in 0..MaxCommit
    BY <2>1, <1>b, <1>f, <1>n DEF LooseRow
  <2>3. \/ BeginRepair(r, c)
        \/ \E outcome \in {"failed", "ambiguous"} : Fail(r, row, outcome)
        \/ UNCHANGED <<deployRun, deployRequest>>
    BY <1>18 DEF RunnerFails
  <2>4. RowsBound' /\ RequestsBound'
    BY <2>1, <2>2, <2>3, <1>t, <1>b, <1>f, <1>u, <1>v, RepairIsBound, FailureIsBound
  <2> QED
    BY <1>18, <2>4, <1>g, <1>q DEF RunnerFails
<1>19. ASSUME NEW r \in DeployRuns, RecoverDeadRun(r) PROVE DeployBounds'
  <2>1. deployRun[r].status \in ActiveStatuses
    BY <1>19, <1>f DEF RecoverDeadRun
  <2>2. PICK row : /\ deployRun' = [deployRun EXCEPT ![r] = row]
                   /\ row \in {deployRun[r], [deployRun[r] EXCEPT !.status = "prepared", !.owner = "none"],
                               [deployRun[r] EXCEPT !.status = "releasing", !.repair = "repairing", !.owner = "none"]}
    BY <1>19 DEF RecoverDeadRun
  <2>3. BoundRow(row)
    BY <2>1, <2>2, <1>f, DeployRowFields DEF BoundRow, LooseRow
  <2>4. RowsBound'
    BY <2>2, <2>3, <1>r
  <2> QED
    BY <1>19, <2>4, <1>q, <1>v DEF RecoverDeadRun
<1>20. ASSUME NEW r \in DeployRuns, RecoverInterruptedCandidate(r) PROVE DeployBounds'
  <2>1. RowsBound' /\ RequestsBound'
    <3>1. deployRun[r].candidate \in 0..MaxCommit
      BY <1>f DEF LooseRow
    <3> QED
      BY <3>1, <1>20, <1>t, <1>b, RepairIsBound DEF RecoverInterruptedCandidate
  <2> QED
    BY <1>20, <2>1, <1>q DEF RecoverInterruptedCandidate
<1>s. supervisor.step # "gone" => supervisor.run \in DeployRuns
  BY <1>t DEF SupervisorOK
<1>21. CASE ClaimRepair
  <2> DEFINE r == supervisor.run
             row == deployRun[r]
             repair == IF row.status = "prepared" THEN row.repair ELSE "repairing"
             owner == IF row.status = "prepared" THEN row.owner ELSE "supervisor"
             next == [row EXCEPT !.attempts = row.attempts + 1, !.repair = repair, !.owner = owner]
  <2>1. r \in DeployRuns
    BY <1>21, <1>s DEF ClaimRepair
  <2>2. \/ UNCHANGED <<deployRun, deployRequest>>
        \/ Park(r, row)
        \/ ~(row.attempts >= 3) /\ deployRun' = [deployRun EXCEPT ![r] = next] /\ UNCHANGED deployRequest
    BY <1>21 DEF ClaimRepair
  <2>3. ~(row.attempts >= 3) => BoundRow(next)
    <3>1. ~(row.attempts >= 3) => row.attempts + 1 \in 0..3
      BY <2>1, <1>f DEF LooseRow
    <3> QED
      BY <2>1, <3>1, <1>f, DeployRowFields DEF BoundRow, LooseRow
  <2>4. RowsBound' /\ RequestsBound'
    BY <2>1, <2>2, <2>3, <1>p, <1>r, <1>u, <1>v
  <2> QED
    BY <1>21, <2>4, <1>q DEF ClaimRepair
<1>22. CASE RecordRepairCommit
  <2> DEFINE r == supervisor.run
             row == deployRun[r]
  <2>1. r \in DeployRuns
    BY <1>22, <1>s DEF RecordRepairCommit
  <2>2. PICK fix \in row.failed + 1..mainHead + 1 :
            /\ fix <= MaxCommit
            /\ deployRun' = [deployRun EXCEPT ![r] = [row EXCEPT !.fix = fix, !.repair = "repairing",
                                                                 !.attempts = IF row.fix # fix THEN 1 ELSE row.attempts]]
            /\ mainHead' = IF fix > mainHead THEN fix ELSE mainHead
    BY <1>22 DEF RecordRepairCommit
  <2>3. LooseRow(row)
    BY <2>1, <1>f
  <2>4. fix \in 0..MaxCommit /\ mainHead' \in Commits
    BY <2>2, <2>3, <1>b, <1>n DEF LooseRow, Commits
  <2> DEFINE n == IF row.fix # fix THEN 1 ELSE row.attempts
             next == [row EXCEPT !.fix = fix, !.repair = "repairing", !.attempts = n]
  <2>5. BoundRow(next)
    <3>1. n \in 0..3
      BY <2>3 DEF LooseRow
    <3> HIDE DEF n
    <3> QED
      BY <2>1, <2>4, <3>1, <1>f, DeployRowFields DEF BoundRow, LooseRow
  <2>6. RowsBound'
    BY <2>1, <2>2, <2>5, <1>r
  <2> QED
    BY <1>22, <2>4, <2>6, <1>b, <1>m, <1>v DEF RecordRepairCommit, DeployBounds
<1>23. CASE PrepareRetry
  <2> DEFINE r == supervisor.run
  <2>1. r \in DeployRuns
    BY <1>23, <1>s DEF PrepareRetry
  <2>2. BoundRow(Retried(deployRun[r]))
    BY <1>23, <2>1, <1>f, <1>n, ActiveAre, DeployRowFields DEF PrepareRetry, Status, Retried, NoCommit, BoundRow, LooseRow
  <2>3. RowsBound'
    BY <1>23, <2>1, <2>2, <1>r DEF PrepareRetry
  <2> QED
    BY <1>23, <2>3, <1>q, <1>v DEF PrepareRetry
<1>24. CASE RetryEnded
  <2> DEFINE r == supervisor.run
             row == deployRun[r]
  <2>1. r \in DeployRuns
    BY <1>24, <1>s DEF RetryEnded
  <2>2. \/ deployRun' = [deployRun EXCEPT ![r] = [row EXCEPT !.repair = "repairing", !.owner = "supervisor"]] /\ UNCHANGED deployRequest
        \/ BeginRepair(r, row.candidate)
        \/ /\ row.status \in ActiveStatuses /\ UNCHANGED deployRequest
           /\ deployRun' = [deployRun EXCEPT ![r] = [row EXCEPT !.status = "prepared", !.owner = "none"]]
        \/ Park(r, row)
        \/ deployRun' = [deployRun EXCEPT ![r] = [row EXCEPT !.incident = "closed"]] /\ UNCHANGED deployRequest
    BY <1>24, <1>t DEF RetryEnded, DeployTypes
  <2>3. /\ BoundRow([row EXCEPT !.repair = "repairing", !.owner = "supervisor"])
        /\ row.status \in ActiveStatuses => BoundRow([row EXCEPT !.status = "prepared", !.owner = "none"])
        /\ BoundRow([row EXCEPT !.incident = "closed"])
    BY <2>1, <1>f, DeployRowFields DEF BoundRow, LooseRow
  <2>4. BeginRepair(r, row.candidate) => RowsBound' /\ RequestsBound'
    <3>1. row.candidate \in 0..MaxCommit
      BY <2>1, <1>f DEF LooseRow
    <3> QED
      BY <2>1, <3>1, <1>t, <1>b, RepairIsBound
  <2>5. RowsBound' /\ RequestsBound'
    BY <2>1, <2>2, <2>3, <2>4, <1>p, <1>r, <1>v
  <2> QED
    BY <1>24, <2>5, <1>q DEF RetryEnded
<1>25. CASE SupervisorStops
  <2>1. supervisor.run \in DeployRuns
    BY <1>25, <1>s DEF SupervisorStops
  <2>2. RowsBound' /\ RequestsBound'
    BY <1>25, <2>1, <1>p DEF SupervisorStops
  <2> QED
    BY <1>25, <2>2, <1>q DEF SupervisorStops
<1> QED
  BY <1>1, <1>2, <1>3, <1>5, <1>6, <1>7, <1>8, <1>9, <1>10, <1>11, <1>12, <1>13, <1>14, <1>15, <1>16, <1>17, <1>18, <1>19,
     <1>20, <1>21, <1>22, <1>23, <1>24, <1>25 DEF DeployNext

\* The ledger of deployments and its runs keep their types: commits are commits
\* of main, and a repair that has failed three times or was claimed three times
\* in vain is over.
THEOREM DeployTypeCorrect == DeploySpec => []DeployTypeOK
<1>1. DeployInv /\ DeployBounds => DeployTypeOK
  <2> SUFFICES ASSUME DeployInv, DeployBounds PROVE DeployTypeOK
    OBVIOUS
  <2>1. DeployTypes /\ MarksBound /\ RowsBound /\ RequestsBound
    BY DEF DeployInv, DeployBounds
  <2>2. ASSUME NEW r \in DeployRuns
        PROVE  deployRun[r] \in
           [status : ActiveStatuses \cup {"absent", "succeeded", "failed", "ambiguous"}, desired : 0..MaxCommit,
            owner : {"none", "runner", "supervisor"}, activation : {"none", "intended", "active"},
            candidate : 0..MaxCommit, deployed : 0..MaxCommit,
            repair : {"none", "restored", "repairing", "retrying", "parked"}, incident : {"none", "open", "closed"},
            failed : 0..MaxCommit, same : 0..3, fix : 0..MaxCommit, attempts : 0..3]
    <3>1. deployRun[r] \in DeployRow /\ LooseRow(deployRun[r])
      BY <2>1, RunFields DEF RowsBound, BoundRow
    <3> QED
      BY <3>1, ActiveAre DEF DeployRow, RunStatus, LooseRow
  <2>3. ASSUME NEW q \in DeployRequests
        PROVE  deployRequest[q] \in [run : DeployRuns \cup {NoRun}, expected : 0..MaxCommit,
                                     status : {"none", "pending", "included", "not_included", "failed"}]
    BY <2>1 DEF DeployTypes, RequestRow, RequestsBound
  <2> QED
    BY <2>1, <2>2, <2>3 DEF DeployTypes, DeployBounds, MarksBound, DeployTypeOK
<1> QED
  BY <1>1, BoundsStart, BoundsStay, DeploymentHolds, PTL DEF DeploySpec

(* Whatever dies, is recovered or joins late, a turn that asked for a         *)
(* deployment waits as long as its run goes on, and is then answered truly    *)
(* (completeDeploymentRun and the failures of deployment-state.ts).           *)
THEOREM AskedAreAnswered == DeploySpec => []AnsweredTruly
<1>1. DeployInv => AnsweredTruly
  <2> SUFFICES ASSUME DeployInv, NEW q \in DeployRequests, deployRequest[q].run # NoRun
               PROVE  LET row == deployRun[deployRequest[q].run]
                      IN  /\ deployRequest[q].status = "pending" <=> row.status \in ActiveStatuses
                          /\ row.status = "succeeded" =>
                                (deployRequest[q].status = "included" <=> deployRequest[q].expected <= row.deployed)
    BY DEF AnsweredTruly
  <2> QED
    BY DEF DeployInv, RequestOK, RunActive, Status
<1> QED
  BY <1>1, DeploymentHolds, PTL

(* What a run activates is what it desires, through every push, death,        *)
(* recovery and retry of a repair (intendActivation).                         *)
THEOREM DesiredIsActivated == DeploySpec => []ActivatesWhatIsDesired
<1>1. DeployInv => ActivatesWhatIsDesired
  BY DEF DeployInv, RunOK, ActivatesWhatIsDesired, ActiveRuns, RunActive
<1> QED
  BY <1>1, DeploymentHolds, PTL

-----------------------------------------------------------------------------
(* Watches.                                                                  *)

LEMMA LeastNat ==
    ASSUME NEW S \in SUBSET Nat, S # {}
    PROVE  Min(S) \in S
<1>1. IsWellFoundedOn(OpToRel(<, Nat), Nat)
  BY NatLessThanWellFounded
<1>2. PICK x \in S : \A y \in S : ~(<<y, x>> \in OpToRel(<, Nat))
  BY <1>1, WFMin
<1>3. \A y \in S : ~(y < x)
  BY <1>2 DEF OpToRel
<1>4. \E z \in S : \A y \in S : z <= y
  BY <1>3
<1> QED
  BY <1>4 DEF Min

WatchStates == {"none", "open", "fired", "expired", "failed", "cancelled"}
HostStates == {"none", "intended", "live", "stopping", "released", "gone"}
WatchRecord == [state : WatchStates, session : Watchers, series : Watches, runner : BOOLEAN,
                host : HostStates, execution : {NoHost} \cup Launches]

WatchTypes == WatchTypeOK /\ watchedKind \in {"file", "command"}

LEMMA RecordFields ==
    ASSUME NEW rows \in [Watches -> WatchRecord]
    PROVE  /\ DOMAIN rows = Watches
           /\ \A w \in Watches :
                 /\ DOMAIN rows[w] = {"state", "session", "series", "runner", "host", "execution"}
                 /\ rows[w].state \in WatchStates /\ rows[w].session \in Watchers /\ rows[w].series \in Watches
                 /\ rows[w].runner \in BOOLEAN /\ rows[w].host \in HostStates
                 /\ rows[w].execution \in {NoHost} \cup Launches
BY DEF WatchRecord

LEMMA RowWrites ==
    ASSUME NEW row \in WatchRecord
    PROVE  /\ \A x \in {NoHost} \cup Launches, host \in HostStates :
                 /\ [row EXCEPT !.execution = x, !.host = host] \in WatchRecord
                 /\ [row EXCEPT !.host = host, !.execution = x] \in WatchRecord
           /\ \A s \in Watchers, onRunner \in BOOLEAN :
                 [row EXCEPT !.state = "open", !.session = s, !.runner = onRunner] \in WatchRecord
BY DEF WatchRecord, WatchStates

LEMMA FirstUnused == Unused # {} => Min(Unused) \in Unused
<1>1. Unused \subseteq Nat
  BY WatchAssumption DEF Unused, Watches
<1> QED
  BY <1>1, LeastNat

LEMMA FirstLeft == poll.left \subseteq Watches /\ poll.left # {} => Min(poll.left) \in poll.left
<1>1. Watches \subseteq Nat
  BY WatchAssumption DEF Watches
<1> QED
  BY <1>1, LeastNat

\* The rows after row w has ended with event and row m continues its series.
Renewed(rows, w, m, event) ==
    [v \in Watches |-> IF v = w THEN [rows[w] EXCEPT !.state = event]
                       ELSE IF v = m THEN [rows[w] EXCEPT !.state = "open"]
                       ELSE rows[v]]

\* One settled row ends, or is renewed into the first unused one.
LEMMA SettleWrites ==
    ASSUME NEW rows \in [Watches -> WatchRecord], NEW w \in Watches, NEW event \in WatchStates,
           Settle(rows, w, event)
    PROVE  /\ watchRow' \in [Watches -> WatchRecord]
           /\ \/ watchRow' = rows
              \/ /\ rows[w].state = "open"
                 /\ \E end \in {event, "cancelled"} : watchRow' = [rows EXCEPT ![w].state = end]
                 /\ watchedKind = "file" =>
                        event = "cancelled" \/ watchRow' = [rows EXCEPT ![w].state = "cancelled"]
              \/ /\ rows[w].state = "open" /\ watchedKind # "command" /\ event # "cancelled"
                 /\ Unused # {}
                 /\ watchRow' = Renewed(rows, w, Min(Unused), event)
<1>1. rows[w] \in WatchRecord /\ [rows[w] EXCEPT !.state = "open"] \in WatchRecord
  BY DEF WatchRecord, WatchStates
<1>2. [rows EXCEPT ![w].state = event] \in [Watches -> WatchRecord]
      /\ [rows EXCEPT ![w].state = "cancelled"] \in [Watches -> WatchRecord]
  BY DEF WatchRecord, WatchStates
<1>3. Renewed(rows, w, Min(Unused), event) \in [Watches -> WatchRecord]
  <2>1. [rows[w] EXCEPT !.state = event] \in WatchRecord
    BY <1>1 DEF WatchRecord, WatchStates
  <2> QED
    BY <1>1, <2>1 DEF Renewed
<1>4. CASE rows[w].state # "open" /\ watchRow' = rows
  BY <1>4
<1>5. CASE rows[w].state = "open" /\ (watchedKind = "command" \/ event = "cancelled")
  BY <1>5, <1>2 DEF Settle
<1>6. CASE rows[w].state = "open" /\ ~(watchedKind = "command" \/ event = "cancelled")
           /\ waits[rows[w].series] = "closed"
  BY <1>6, <1>2 DEF Settle
<1>7. CASE rows[w].state = "open" /\ ~(watchedKind = "command" \/ event = "cancelled")
           /\ waits[rows[w].series] # "closed"
  BY <1>7, <1>3 DEF Settle, Renew, Renewed
<1> QED
  BY <1>4, <1>5, <1>6, <1>7 DEF Settle


PollRecord == [step : {"rest", "open", "launch", "state", "ended"}, left : SUBSET Watches]

LEMMA TypesUnfold ==
    WatchTypes <=>
        /\ watchRow \in [Watches -> WatchRecord] /\ poll \in PollRecord /\ registering \subseteq Watchers
        /\ waits \in [Watches -> {"none", "open", "closed"}]
        /\ process \in [Launches -> {"none", "starting", "running", "exited", "over", "lost"}]
        /\ watchedKind \in {"file", "command"}
BY DEF WatchTypes, WatchTypeOK, WatchRecord, WatchStates, HostStates, PollRecord

LEMMA WatchTypeInit == WatchInit => WatchTypes
<1> SUFFICES ASSUME WatchInit PROVE WatchTypes
  OBVIOUS
<1>1. (CHOOSE s \in Watchers : TRUE) \in Watchers
  BY WatchAssumption
<1>2. watchRow \in [Watches -> WatchRecord]
  BY <1>1 DEF WatchInit, WatchRecord, WatchStates, HostStates, NoHost
<1> QED
  BY <1>2, TypesUnfold DEF WatchInit, PollRecord

LEMMA WatchTypeStep == WatchTypes /\ [WatchNext]_watchVars => WatchTypes'
<1> SUFFICES ASSUME WatchTypes, [WatchNext]_watchVars PROVE WatchTypes'
  OBVIOUS
<1> DEFINE Goal == /\ watchRow' \in [Watches -> WatchRecord] /\ poll' \in PollRecord /\ registering' \subseteq Watchers
                   /\ waits' \in [Watches -> {"none", "open", "closed"}]
                   /\ process' \in [Launches -> {"none", "starting", "running", "exited", "over", "lost"}]
                   /\ watchedKind' \in {"file", "command"}
<1>g. Goal => WatchTypes'
  BY DEF WatchTypes, WatchTypeOK, WatchRecord, WatchStates, HostStates, PollRecord
<1>t. /\ watchRow \in [Watches -> WatchRecord] /\ poll \in PollRecord /\ registering \subseteq Watchers
      /\ waits \in [Watches -> {"none", "open", "closed"}]
      /\ process \in [Launches -> {"none", "starting", "running", "exited", "over", "lost"}]
      /\ watchedKind \in {"file", "command"}
  BY TypesUnfold
<1>i. ASSUME NEW s \in Watchers, NEW onRunner \in BOOLEAN, Insert(s, onRunner)
      PROVE  watchRow' \in [Watches -> WatchRecord]
  <2>1. PICK m \in Watches : watchRow' = [watchRow EXCEPT ![m] = [@ EXCEPT !.state = "open", !.session = s, !.runner = onRunner]]
    BY <1>i, FirstUnused DEF Insert, Unused
  <2>2. [watchRow[m] EXCEPT !.state = "open", !.session = s, !.runner = onRunner] \in WatchRecord
    BY <1>t, RowWrites
  <2>3. watchRow' = [watchRow EXCEPT ![m] = [watchRow[m] EXCEPT !.state = "open", !.session = s, !.runner = onRunner]]
    BY <1>t, <2>1
  <2> QED
    BY <1>t, <2>2, <2>3
<1>s. ASSUME NEW rows \in [Watches -> WatchRecord], NEW w \in Watches,
             NEW event \in {"fired", "expired", "failed", "cancelled"}, Settle(rows, w, event)
      PROVE  watchRow' \in [Watches -> WatchRecord]
  BY <1>s, SettleWrites DEF WatchStates
<1>h. ASSUME NEW w \in Watches, NEW host \in HostStates
      PROVE  [watchRow EXCEPT ![w].host = host] \in [Watches -> WatchRecord]
  BY <1>t DEF WatchRecord
<1>p. \A w : Passed(w) => poll' \in PollRecord
  BY <1>t DEF Passed, PollRecord
<1>1. ASSUME NEW s \in Watchers, RegisterFile(s) PROVE Goal
  <2>1. watchRow' \in [Watches -> WatchRecord]
    <3>1. CASE Active(s) # {}
      <4>1. PICK w \in Watches : watchRow' = [watchRow EXCEPT ![w].session = s]
        BY <1>1, <3>1 DEF RegisterFile, Active, OwnOnly, OpenWatches
      <4> QED
        BY <1>t, <4>1 DEF WatchRecord
    <3>2. CASE Active(s) = {}
      BY <1>1, <3>2, <1>t, <1>i DEF RegisterFile
    <3> QED
      BY <3>1, <3>2
  <2>2. registering' \subseteq Watchers /\ poll' = poll /\ waits' = waits /\ process' = process /\ watchedKind' = watchedKind
    BY <1>1, <1>t DEF RegisterFile
  <2> QED
    BY <2>1, <2>2, <1>t
<1>2. ASSUME NEW s \in Watchers, RegisterOnRunner(s) PROVE Goal
  BY <1>2, <1>t, <1>i DEF RegisterOnRunner
<1>3. ASSUME NEW s \in Watchers, NEW w \in Watches, CancelWatch(s, w) PROVE Goal
  <2>1. PICK v \in Watches : Settle(watchRow, v, "cancelled")
    BY <1>3 DEF CancelWatch, OwnOnly, OpenWatches
  <2> QED
    BY <1>3, <2>1, <1>t, <1>s DEF CancelWatch
<1>4. ASSUME NEW onRunner \in BOOLEAN, RegisterCommand(onRunner) PROVE Goal
  <2>1. (CHOOSE s \in Watchers : TRUE) \in Watchers
    BY WatchAssumption
  <2> QED
    BY <1>4, <2>1, <1>t, <1>i DEF RegisterCommand
<1>5. ASSUME NEW x \in Launches, HostStarts(x) \/ HostMoves(x) PROVE Goal
  BY <1>5, <1>t DEF HostStarts, HostMoves
<1>6. ASSUME NEW w \in Watches, RequestWaits(w) PROVE Goal
  BY <1>6, <1>t DEF RequestWaits
<1>7. ASSUME NEW w \in Watches, RunnerAway(w) PROVE Goal
  BY <1>7, <1>t, <1>s, <1>p DEF RunnerAway, AtRest
<1>8. ASSUME NEW w \in Watches, ObserveFile(w) PROVE Goal
  BY <1>8, <1>t, <1>s, <1>p DEF ObserveFile, AtRest
<1>9. ASSUME NEW w \in Watches, LaunchCommand(w) PROVE Goal
  <2>1. CASE \E event \in {"expired", "failed"} : Settle(watchRow, w, event) /\ Passed(w) /\ UNCHANGED process
    BY <1>9, <2>1, <1>t, <1>s, <1>p DEF LaunchCommand, AtRest
  <2>2. ASSUME NEW x \in Launches,
               watchRow' = [watchRow EXCEPT ![w] = [@ EXCEPT !.execution = x, !.host = "intended"]],
               process' \in {process, [process EXCEPT ![x] = "starting"]},
               poll' = [poll EXCEPT !.step = "launch"]
        PROVE  Goal
    <3>1. watchRow' \in [Watches -> WatchRecord]
      <4>1. [watchRow[w] EXCEPT !.execution = x, !.host = "intended"] \in WatchRecord
        BY <1>t, RowWrites DEF HostStates
      <4>2. watchRow' = [watchRow EXCEPT ![w] = [watchRow[w] EXCEPT !.execution = x, !.host = "intended"]]
        BY <1>t, <2>2
      <4> QED
        BY <1>t, <4>1, <4>2
    <3>2. poll' \in PollRecord
      BY <2>2, <1>t DEF PollRecord
    <3> QED
      BY <1>9, <2>2, <3>1, <3>2, <1>t DEF LaunchCommand, AtRest
  <2> QED
    BY <1>9, <2>1, <2>2 DEF LaunchCommand
<1>10. ASSUME NEW w \in Watches, LaunchAnswered(w) PROVE Goal
  BY <1>10, <1>t, <1>s, <1>h, <1>p DEF LaunchAnswered, AtRest, HostStates
<1>11. ASSUME NEW w \in Watches, CheckStart(w) PROVE Goal
  <2>1. [watchRow EXCEPT ![w] = [@ EXCEPT !.host = "none", !.execution = NoHost]] \in [Watches -> WatchRecord]
    <3>1. [watchRow[w] EXCEPT !.host = "none", !.execution = NoHost] \in WatchRecord
      BY <1>t, RowWrites DEF HostStates
    <3>2. [watchRow EXCEPT ![w] = [@ EXCEPT !.host = "none", !.execution = NoHost]]
            = [watchRow EXCEPT ![w] = [watchRow[w] EXCEPT !.host = "none", !.execution = NoHost]]
      BY <1>t
    <3> QED
      BY <1>t, <3>1, <3>2
  <2>2. poll' \in PollRecord
    BY <1>11, <1>t, <1>p DEF CheckStart, PollRecord
  <2>3. [watchRow EXCEPT ![w].host = "gone"] \in [Watches -> WatchRecord]
        /\ [watchRow EXCEPT ![w].host = "live"] \in [Watches -> WatchRecord]
    BY <1>h DEF HostStates
  <2>4. watchRow' \in [Watches -> WatchRecord]
    <3>1. CASE watchRow' = watchRow \/ watchRow' = [watchRow EXCEPT ![w].host = "live"]
               \/ watchRow' = [watchRow EXCEPT ![w] = [@ EXCEPT !.host = "none", !.execution = NoHost]]
      BY <3>1, <1>t, <2>1, <2>3
    <3>2. CASE Settle([watchRow EXCEPT ![w].host = "gone"], w, "failed")
      BY <3>2, <1>s, <2>3
    <3> QED
      BY <1>11, <3>1, <3>2 DEF CheckStart
  <2> QED
    BY <1>11, <1>t, <2>2, <2>4 DEF CheckStart, AtRest
<1>12. ASSUME NEW w \in Watches, CheckCommand(w) PROVE Goal
  BY <1>12, <1>t, <1>s, <1>h, <1>p DEF CheckCommand, AtRest, HostStates
<1>13. ASSUME NEW w \in Watches, CleanUpHost(w) PROVE Goal
  <2>1. watchRow' \in [Watches -> WatchRecord]
    BY <1>13, <1>t, <1>h DEF CleanUpHost, HostStates
  <2>2. process' \in [Launches -> {"none", "starting", "running", "exited", "over", "lost"}]
    BY <1>13, <1>t DEF CleanUpHost
  <2> QED
    BY <1>13, <1>t, <1>p, <2>1, <2>2 DEF CleanUpHost, AtRest
<1>14. ASSUME PollStarts \/ CleanUp \/ PollEnds PROVE Goal
  BY <1>14, <1>t DEF PollStarts, CleanUp, PollEnds, AtRest, PollRecord, OpenWatches,
       EndedCommands
<1>15. ASSUME WatchWorkerRestarts PROVE Goal
  BY <1>15, <1>t DEF WatchWorkerRestarts, PollRecord
<1>16. CASE UNCHANGED watchVars
  BY <1>16, <1>t, <1>g DEF watchVars
<1> QED
  BY <1>1, <1>2, <1>3, <1>4, <1>5, <1>6, <1>7, <1>8, <1>9, <1>10, <1>11, <1>12, <1>13, <1>14,
       <1>15, <1>16, <1>g
     DEF WatchNext

-----------------------------------------------------------------------------
(* Hosts of commands.                                                        *)

HasHost(w) == watchRow[w].host \in {"intended", "live", "stopping"}

\* A file has no host; a host of a command is named by one row, which gives the
\* name up only for a start that is known not to have happened.
HostsAreNamed ==
    /\ watchedKind = "file" =>
           (\A w \in Watches : watchRow[w].host = "none") /\ (\A x \in Launches : process[x] = "none")
    /\ \A w \in Watches : watchRow[w].execution = NoHost <=> watchRow[w].host = "none"
    /\ \A v, w \in Watches :
           watchRow[v].execution = watchRow[w].execution /\ watchRow[v].execution # NoHost => v = w

\* What the worker found of a row's host before an await is so after it.
PollKnows ==
    /\ poll.step = "launch" => poll.left # {} /\ watchRow[Min(poll.left)].host = "intended"
    /\ poll.step = "state" => poll.left # {} /\ watchRow[Min(poll.left)].host = "live"
    /\ poll.step = "ended" => \A w \in poll.left : HasHost(w)

HostInv == HostsAreNamed /\ PollKnows /\ RunningIsKnown

SameHosts ==
    \A v \in Watches : watchRow'[v].host = watchRow[v].host /\ watchRow'[v].execution = watchRow[v].execution

LEMMA SettleKeepsHosts ==
    ASSUME WatchTypes, NEW rows \in [Watches -> WatchRecord], NEW w \in Watches,
           NEW event \in {"fired", "expired", "failed", "cancelled"}, Settle(rows, w, event),
           watchedKind = "file" => \A v \in Watches : rows[v].host = "none" /\ rows[v].execution = NoHost
    PROVE  \A v \in Watches : watchRow'[v].host = rows[v].host /\ watchRow'[v].execution = rows[v].execution
<1>1. event \in WatchStates
  BY DEF WatchStates
<1>2. CASE watchRow' = rows
  BY <1>2
<1>3. ASSUME NEW end, watchRow' = [rows EXCEPT ![w].state = end] 
      PROVE  \A v \in Watches : watchRow'[v].host = rows[v].host /\ watchRow'[v].execution = rows[v].execution
  BY <1>3, RecordFields
<1>4. CASE /\ watchedKind = "file" /\ Unused # {}
           /\ watchRow' = Renewed(rows, w, Min(Unused), event)
  <2>1. Min(Unused) \in Watches
    BY <1>4, FirstUnused DEF Unused
  <2> QED
    BY <1>4, <2>1, RecordFields DEF Renewed
<1> QED
  BY <1>1, <1>2, <1>3, <1>4, SettleWrites DEF WatchTypes

LEMMA KeptHosts ==
    ASSUME WatchTypes, HostInv, SameHosts, process' = process, watchedKind' = watchedKind
    PROVE  HostsAreNamed' /\ RunningIsKnown'
BY DEF HostInv, HostsAreNamed, RunningIsKnown, SameHosts

\* A row whose host is written: the rest keep theirs, and no name is given twice.
LEMMA OneHostWritten ==
    ASSUME WatchTypes, HostInv, watchedKind' = watchedKind, NEW w \in Watches, HasHost(w),
           \A v \in Watches \ {w} : /\ watchRow'[v].host = watchRow[v].host
                                    /\ watchRow'[v].execution = watchRow[v].execution,
           watchRow'[w].execution = watchRow[w].execution /\ watchRow'[w].host # "none",
           \A x \in Launches : process'[x] \in {"starting", "running"} => process[x] \in {"starting", "running"},
           watchRow'[w].host \in {"released", "gone"} =>
               process'[watchRow[w].execution] \notin {"starting", "running"},
           watchRow'[w].host \in HostStates
    PROVE  HostsAreNamed' /\ RunningIsKnown'
<1>1. watchedKind # "file"
  BY DEF HostInv, HostsAreNamed, HasHost
<1>2. HostsAreNamed'
  BY <1>1 DEF HostInv, HostsAreNamed, HasHost
<1>3. RunningIsKnown'
  BY DEF HostInv, HostsAreNamed, RunningIsKnown, HasHost, HostStates
<1> QED
  BY <1>2, <1>3

LEMMA PassedKnows ==
    ASSUME WatchTypes, PollKnows, NEW w \in Watches, Passed(w), NEW step, AtHand(step, w),
           step = "ended" => \A v \in Watches \ {w} : watchRow'[v].host = watchRow[v].host
    PROVE  PollKnows'
<1>1. poll'.step = (IF poll.step = "ended" THEN "ended" ELSE "open") /\ poll'.left = poll.left \ {w}
      /\ poll.left \subseteq Watches
  BY TypesUnfold DEF Passed, PollRecord
<1>2. CASE poll.step = "ended"
  BY <1>1, <1>2 DEF PollKnows, HasHost, AtHand
<1>3. CASE poll.step # "ended"
  BY <1>1, <1>3 DEF PollKnows
<1> QED
  BY <1>2, <1>3

LEMMA HostInvStep == WatchTypes /\ HostInv /\ [WatchNext]_watchVars => HostInv'
<1> SUFFICES ASSUME WatchTypes, HostInv, [WatchNext]_watchVars PROVE HostInv'
  OBVIOUS
<1> DEFINE Goal == HostsAreNamed' /\ PollKnows' /\ RunningIsKnown'
<1>t. /\ watchRow \in [Watches -> WatchRecord] /\ poll \in PollRecord
      /\ process \in [Launches -> {"none", "starting", "running", "exited", "over", "lost"}]
  BY TypesUnfold
<1>r. HostsAreNamed /\ PollKnows /\ RunningIsKnown
  BY DEF HostInv
<1>l. poll.left \subseteq Watches /\ (poll.left # {} => Min(poll.left) \in poll.left)
  BY <1>t, FirstLeft DEF PollRecord
<1>k. ASSUME SameHosts, process' = process, watchedKind' = watchedKind, poll' = poll PROVE Goal
  BY <1>k, <1>l, <1>r, KeptHosts DEF PollKnows, SameHosts, HasHost
<1>p. ASSUME SameHosts, process' = process, watchedKind' = watchedKind,
             NEW w \in Watches, Passed(w), NEW step, AtHand(step, w)
      PROVE  Goal
  BY <1>p, <1>r, KeptHosts, PassedKnows DEF SameHosts
<1>s. ASSUME NEW w \in Watches, NEW event \in {"fired", "expired", "failed", "cancelled"},
             Settle(watchRow, w, event) \/ watchRow' = watchRow
      PROVE  SameHosts
  BY <1>s, <1>t, <1>r, SettleKeepsHosts DEF SameHosts, HostsAreNamed
<1>i. ASSUME NEW s, NEW onRunner, Insert(s, onRunner) PROVE SameHosts
  <2>1. PICK m \in Watches : watchRow' = [watchRow EXCEPT ![m] = [@ EXCEPT !.state = "open", !.session = s, !.runner = onRunner]]
    BY <1>i, FirstUnused DEF Insert, Unused
  <2>2. /\ watchRow' = [watchRow EXCEPT ![m] = [watchRow[m] EXCEPT !.state = "open", !.session = s, !.runner = onRunner]]
        /\ DOMAIN watchRow[m] = {"state", "session", "series", "runner", "host", "execution"}
    BY <1>t, <2>1, RecordFields
  <2>3. \A v \in Watches \ {m} : watchRow'[v] = watchRow[v]
    BY <1>t, <2>2
  <2>4. watchRow'[m] = [watchRow[m] EXCEPT !.state = "open", !.session = s, !.runner = onRunner]
    BY <1>t, <2>2
  <2>5. watchRow'[m].host = watchRow[m].host /\ watchRow'[m].execution = watchRow[m].execution
    BY <2>2, <2>4
  <2> QED
    BY <2>3, <2>5 DEF SameHosts
<1>1. ASSUME NEW s \in Watchers, RegisterFile(s) PROVE Goal
  <2>1. CASE Active(s) # {}
    <3>1. PICK w \in Watches : watchRow' = [watchRow EXCEPT ![w].session = s]
      BY <1>1, <2>1 DEF RegisterFile, Active, OwnOnly, OpenWatches
    <3>2. SameHosts
      BY <3>1, <1>t, RecordFields DEF SameHosts
    <3> QED
      BY <1>1, <3>2, <1>k DEF RegisterFile
  <2>2. CASE Active(s) = {}
    <3>1. SameHosts
      BY <1>1, <2>2, <1>i DEF RegisterFile, SameHosts
    <3> QED
      BY <1>1, <3>1, <1>k DEF RegisterFile
  <2> QED
    BY <2>1, <2>2
<1>2. ASSUME NEW s \in Watchers, RegisterOnRunner(s) PROVE Goal
  <2>1. SameHosts
    BY <1>2, <1>i DEF RegisterOnRunner, SameHosts
  <2> QED
    BY <1>2, <2>1, <1>k DEF RegisterOnRunner
<1>3. ASSUME NEW s \in Watchers, NEW w \in Watches, CancelWatch(s, w) PROVE Goal
  <2>1. PICK v \in Watches : Settle(watchRow, v, "cancelled")
    BY <1>3 DEF CancelWatch, OwnOnly, OpenWatches
  <2> QED
    BY <1>3, <2>1, <1>s, <1>k DEF CancelWatch
<1>4. ASSUME NEW onRunner \in BOOLEAN, RegisterCommand(onRunner) PROVE Goal
  BY <1>4, <1>i, <1>k DEF RegisterCommand
<1>5. ASSUME NEW x \in Launches, HostStarts(x) PROVE Goal
  BY <1>5, <1>t, <1>r DEF HostStarts, HostsAreNamed, PollKnows, RunningIsKnown, HasHost
<1>6. ASSUME NEW x \in Launches, HostMoves(x) PROVE Goal
  BY <1>6, <1>t, <1>r DEF HostMoves, HostsAreNamed, PollKnows, RunningIsKnown, HasHost
<1>7. ASSUME NEW w \in Watches, RequestWaits(w) PROVE Goal
  BY <1>7, <1>k DEF RequestWaits, SameHosts
<1>8. ASSUME NEW w \in Watches, RunnerAway(w) PROVE Goal
  BY <1>8, <1>s, <1>p DEF RunnerAway, AtRest
<1>9. ASSUME NEW w \in Watches, ObserveFile(w) PROVE Goal
  BY <1>9, <1>s, <1>p DEF ObserveFile, AtRest
<1>10. ASSUME NEW w \in Watches, LaunchCommand(w) PROVE Goal
  <2>1. CASE \E event \in {"expired", "failed"} : Settle(watchRow, w, event) /\ Passed(w) /\ UNCHANGED process
    BY <1>10, <2>1, <1>s, <1>p DEF LaunchCommand, AtRest
  <2>2. ASSUME NEW x \in Launches, process[x] = "none", \A v \in Watches : watchRow[v].execution # x,
               watchRow' = [watchRow EXCEPT ![w] = [@ EXCEPT !.execution = x, !.host = "intended"]],
               process' \in {process, [process EXCEPT ![x] = "starting"]},
               poll' = [poll EXCEPT !.step = "launch"]
        PROVE  Goal
    <3>1. /\ watchRow'[w].execution = x /\ watchRow'[w].host = "intended"
          /\ \A v \in Watches \ {w} : watchRow'[v] = watchRow[v]
      BY <2>2, <1>t, RecordFields
    <3>2. /\ poll.step = "open" /\ poll.left # {} /\ w = Min(poll.left) /\ poll'.step = "launch"
          /\ poll'.left = poll.left /\ watchedKind = "command" /\ watchedKind' = watchedKind
          /\ watchRow[w].execution = NoHost
      BY <1>10, <2>2, <1>t DEF LaunchCommand, AtHand, AtRest, PollRecord
    <3>3. x # NoHost
      BY WatchAssumption DEF Launches, NoHost
    <3>4. HostsAreNamed'
      <4>1. \A v \in Watches : watchRow'[v].execution = NoHost <=> watchRow'[v].host = "none"
        BY <3>1, <3>3, <1>r DEF HostsAreNamed
      <4>2. ASSUME NEW u \in Watches, NEW v \in Watches,
                   watchRow'[u].execution = watchRow'[v].execution, watchRow'[u].execution # NoHost
            PROVE  u = v
        <5>1. CASE u = w \/ v = w
          <6>1. \A z \in Watches \ {w} : watchRow'[z].execution # x /\ watchRow'[w].execution = x
            BY <2>2, <3>1
          <6> QED
            BY <4>2, <5>1, <6>1
        <5>2. CASE u # w /\ v # w
          BY <4>2, <5>2, <3>1, <1>r DEF HostsAreNamed
        <5> QED
          BY <5>1, <5>2
      <4> QED
        BY <3>2, <4>1, <4>2 DEF HostsAreNamed
    <3>5. PollKnows'
      BY <3>1, <3>2 DEF PollKnows
    <3>6. RunningIsKnown'
      <4> SUFFICES ASSUME NEW y \in Launches, process'[y] \in {"starting", "running"}
                   PROVE  \E v \in Watches : watchRow'[v].execution = y /\ HasHost(v)'
        BY DEF RunningIsKnown, HasHost
      <4>1. CASE y = x
        BY <4>1, <3>1 DEF HasHost
      <4>2. CASE y # x
        <5>1. PICK v \in Watches : watchRow[v].execution = y /\ HasHost(v)
          BY <4>2, <2>2, <1>t, <1>r DEF RunningIsKnown, HasHost
        <5>2. v # w
          BY <5>1, <3>2 DEF NoHost, Launches
        <5> QED
          BY <5>1, <5>2, <3>1 DEF HasHost
      <4> QED
        BY <4>1, <4>2
    <3> QED
      BY <3>4, <3>5, <3>6
  <2> QED
    BY <1>10, <2>1, <2>2 DEF LaunchCommand
<1>11. ASSUME NEW w \in Watches, LaunchAnswered(w) PROVE Goal
  <2>1. HasHost(w) /\ watchRow[w].host = "intended" /\ watchedKind # "file" /\ watchRow[w].execution \in Launches
    BY <1>11, <1>r, <1>t, RecordFields DEF LaunchAnswered, AtHand, PollKnows, HasHost,
         HostsAreNamed
  <2>2. CASE watchRow' = watchRow
    BY <1>11, <2>2, <1>p DEF LaunchAnswered, AtRest, SameHosts
  <2>3. ASSUME NEW host \in {"live", "gone"},
               host = "gone" => process[watchRow[w].execution] = "none",
               \A v \in Watches : /\ watchRow'[v].host = [watchRow EXCEPT ![w].host = host][v].host
                                  /\ watchRow'[v].execution = [watchRow EXCEPT ![w].host = host][v].execution
        PROVE  Goal
    <3>1. /\ watchRow'[w].host = host /\ watchRow'[w].execution = watchRow[w].execution
          /\ \A v \in Watches \ {w} : /\ watchRow'[v].host = watchRow[v].host
                                      /\ watchRow'[v].execution = watchRow[v].execution
      BY <2>3, <1>t, RecordFields
    <3>2. process' = process /\ watchedKind' = watchedKind /\ AtHand("launch", w) /\ Passed(w)
      BY <1>11 DEF LaunchAnswered, AtRest
    <3> QED
      BY <2>1, <2>3, <3>1, <3>2, <1>r, OneHostWritten, PassedKnows DEF HostStates
  <2>4. CASE process[watchRow[w].execution] \notin {"none", "starting"}
             /\ watchRow' = [watchRow EXCEPT ![w].host = "live"]
    BY <2>4, <2>3
  <2>5. CASE process[watchRow[w].execution] = "none" /\ Settle([watchRow EXCEPT ![w].host = "gone"], w, "failed")
    <3>1. [watchRow EXCEPT ![w].host = "gone"] \in [Watches -> WatchRecord]
      BY <1>t DEF WatchRecord, HostStates
    <3> QED
      BY <2>1, <2>3, <2>5, <3>1, SettleKeepsHosts
  <2> QED
    BY <1>11, <2>2, <2>4, <2>5 DEF LaunchAnswered
<1>w. ASSUME NEW w \in Watches, NEW host \in {"live", "gone", "stopping", "released"}, HasHost(w),
             host \in {"gone", "released"} => process'[watchRow[w].execution] \notin {"starting", "running"},
             \A x \in Launches : process'[x] \in {"starting", "running"} => process[x] \in {"starting", "running"},
             \A v \in Watches : /\ watchRow'[v].host = [watchRow EXCEPT ![w].host = host][v].host
                                /\ watchRow'[v].execution = [watchRow EXCEPT ![w].host = host][v].execution,
             watchedKind' = watchedKind
      PROVE  /\ HostsAreNamed' /\ RunningIsKnown' /\ watchRow'[w].host = host
             /\ \A v \in Watches \ {w} : watchRow'[v].host = watchRow[v].host
  <2>1. /\ watchRow'[w].host = host /\ watchRow'[w].execution = watchRow[w].execution
        /\ \A v \in Watches \ {w} : /\ watchRow'[v].host = watchRow[v].host
                                    /\ watchRow'[v].execution = watchRow[v].execution
    BY <1>w, <1>t, RecordFields
  <2> QED
    BY <1>w, <2>1, OneHostWritten DEF HostStates
<1>12. ASSUME NEW w \in Watches, CheckStart(w) PROVE Goal
  <2>1. /\ HasHost(w) /\ watchRow[w].host = "intended" /\ watchedKind # "file" /\ watchRow[w].execution \in Launches
        /\ AtHand("open", w) /\ process' = process /\ watchedKind' = watchedKind
    BY <1>12, <1>r, <1>t, RecordFields DEF CheckStart, AtRest, HasHost, HostsAreNamed
  <2>2. CASE UNCHANGED watchRow /\ Passed(w)
    BY <2>1, <2>2, <1>p DEF SameHosts
  <2>3. CASE /\ process[watchRow[w].execution] = "none" /\ Passed(w)
             /\ watchRow' = [watchRow EXCEPT ![w] = [@ EXCEPT !.host = "none", !.execution = NoHost]]
    <3>1. /\ watchRow'[w].host = "none" /\ watchRow'[w].execution = NoHost
          /\ \A v \in Watches \ {w} : watchRow'[v] = watchRow[v]
      BY <2>3, <1>t, RecordFields
    <3>2. HostsAreNamed'
      BY <3>1, <2>1, <1>r DEF HostsAreNamed
    <3>3. RunningIsKnown'
      <4> SUFFICES ASSUME NEW y \in Launches, process[y] \in {"starting", "running"}
                   PROVE  \E v \in Watches : watchRow'[v].execution = y /\ HasHost(v)'
        BY <2>1 DEF RunningIsKnown, HasHost
      <4>1. PICK v \in Watches : watchRow[v].execution = y /\ HasHost(v)
        BY <1>r DEF RunningIsKnown, HasHost
      <4>2. v # w
        BY <4>1, <2>3
      <4> QED
        BY <4>1, <4>2, <3>1 DEF HasHost
    <3> QED
      BY <2>1, <2>3, <3>1, <3>2, <3>3, <1>r, PassedKnows
  <2>4. CASE /\ process[watchRow[w].execution] = "none" /\ Passed(w)
             /\ Settle([watchRow EXCEPT ![w].host = "gone"], w, "failed")
    <3>1. [watchRow EXCEPT ![w].host = "gone"] \in [Watches -> WatchRecord]
      BY <1>t DEF WatchRecord, HostStates
    <3>2. \A v \in Watches : /\ watchRow'[v].host = [watchRow EXCEPT ![w].host = "gone"][v].host
                             /\ watchRow'[v].execution = [watchRow EXCEPT ![w].host = "gone"][v].execution
      BY <2>1, <2>4, <3>1, SettleKeepsHosts
    <3>3. HostsAreNamed' /\ RunningIsKnown' /\ \A v \in Watches \ {w} : watchRow'[v].host = watchRow[v].host
      BY <1>w, <2>1, <2>4, <3>2
    <3> QED
      BY <2>1, <2>4, <3>3, <1>r, PassedKnows
  <2>5. CASE watchRow' = [watchRow EXCEPT ![w].host = "live"] /\ poll' = [poll EXCEPT !.step = "state"]
    <3>1. HostsAreNamed' /\ RunningIsKnown' /\ watchRow'[w].host = "live"
      BY <1>w, <2>1, <2>5
    <3>2. poll'.step = "state" /\ poll'.left = poll.left /\ poll.left # {} /\ w = Min(poll.left)
      BY <2>1, <2>5, <1>t DEF PollRecord, AtHand
    <3> QED
      BY <3>1, <3>2 DEF PollKnows
  <2>6. ASSUME NEW outcome, outcome \in {StartOutcome(watchRow[w].execution), "unknown"}, outcome = "never-ran"
        PROVE  process[watchRow[w].execution] = "none"
    BY <2>1, <2>6, <1>t DEF StartOutcome, HostOutcome
  <2> QED
    BY <1>12, <2>2, <2>3, <2>4, <2>5, <2>6 DEF CheckStart
<1>13. ASSUME NEW w \in Watches, CheckCommand(w) PROVE Goal
  <2>1. /\ HasHost(w) /\ watchedKind # "file" /\ watchRow[w].execution \in Launches
        /\ \E step : AtHand(step, w)
        /\ process' = process /\ watchedKind' = watchedKind /\ Passed(w)
    BY <1>13, <1>r, <1>t, RecordFields DEF CheckCommand, AtRest, AtHand, PollKnows, HasHost,
         HostsAreNamed
  <2>2. CASE UNCHANGED watchRow \/ \E event \in {"fired", "expired"} : Settle(watchRow, w, event)
    BY <2>1, <2>2, <1>s, <1>p
  <2>3. CASE /\ process[watchRow[w].execution] \notin {"starting", "running"}
             /\ Settle([watchRow EXCEPT ![w].host = "gone"], w, "failed")
    <3>1. [watchRow EXCEPT ![w].host = "gone"] \in [Watches -> WatchRecord]
      BY <1>t DEF WatchRecord, HostStates
    <3>2. \A v \in Watches : /\ watchRow'[v].host = [watchRow EXCEPT ![w].host = "gone"][v].host
                             /\ watchRow'[v].execution = [watchRow EXCEPT ![w].host = "gone"][v].execution
      BY <2>1, <2>3, <3>1, SettleKeepsHosts
    <3>3. HostsAreNamed' /\ RunningIsKnown' /\ \A v \in Watches \ {w} : watchRow'[v].host = watchRow[v].host
      BY <1>w, <2>1, <2>3, <3>2
    <3> QED
      BY <2>1, <3>3, <1>r, PassedKnows
  <2>4. CommandState(watchRow[w].execution) = "lost" => process[watchRow[w].execution] \notin {"starting", "running"}
    BY <2>1, <1>t DEF CommandState
  <2> QED
    BY <1>13, <2>2, <2>3, <2>4 DEF CheckCommand
<1>14. ASSUME NEW w \in Watches, CleanUpHost(w) PROVE Goal
  <2> DEFINE x == watchRow[w].execution
  <2>1. /\ HasHost(w) /\ AtHand("ended", w) /\ watchedKind' = watchedKind /\ Passed(w)
    BY <1>14, <1>r, <1>l DEF CleanUpHost, AtRest, AtHand, PollKnows
  <2>2. x \in Launches
    BY <2>1, <1>r, <1>t, RecordFields DEF HasHost, HostsAreNamed
  <2>3. CASE UNCHANGED <<watchRow, process>>
    BY <2>1, <2>3, <1>p DEF SameHosts
  <2>4. ASSUME NEW host \in {"gone", "stopping"}, watchRow' = [watchRow EXCEPT ![w].host = host], process' = process,
               host = "gone" => process[x] \notin {"starting", "running"}
        PROVE  Goal
    <3>1. HostsAreNamed' /\ RunningIsKnown' /\ \A v \in Watches \ {w} : watchRow'[v].host = watchRow[v].host
      BY <1>w, <2>1, <2>4
    <3> QED
      BY <2>1, <3>1, <1>r, PassedKnows
  <2>5. CASE /\ process[x] = "exited" /\ watchRow' = [watchRow EXCEPT ![w].host = "released"]
             /\ process' = [process EXCEPT ![x] = "over"]
    <3>0. /\ process'[x] = "over"
          /\ \A y \in Launches : process'[y] \in {"starting", "running"} => process[y] \in {"starting", "running"}
      BY <2>2, <2>5, <1>t
    <3>1. HostsAreNamed' /\ RunningIsKnown' /\ \A v \in Watches \ {w} : watchRow'[v].host = watchRow[v].host
      BY <1>w, <2>1, <2>5, <3>0
    <3> QED
      BY <2>1, <3>1, <1>r, PassedKnows
  <2>6. CommandState(x) = "lost" => process[x] \notin {"starting", "running"}
    BY <2>2, <1>t DEF CommandState
  <2> QED
    BY <1>14, <2>3, <2>4, <2>5, <2>6 DEF CleanUpHost
<1>15. ASSUME PollStarts PROVE Goal
  <2>1. poll'.step = "open"
    BY <1>15 DEF PollStarts
  <2> QED
    BY <1>15, <2>1, <1>r, KeptHosts DEF PollStarts, PollKnows, SameHosts
<1>16. ASSUME CleanUp PROVE Goal
  <2>1. poll'.step = "ended" /\ poll'.left = EndedCommands
    BY <1>16 DEF CleanUp
  <2>2. PollKnows'
    BY <1>16, <2>1 DEF CleanUp, PollKnows, EndedCommands, HasHost
  <2> QED
    BY <1>16, <2>2, <1>r, KeptHosts DEF CleanUp, AtRest, SameHosts
<1>17. ASSUME PollEnds PROVE Goal
  <2>1. poll'.step = "rest"
    BY <1>17 DEF PollEnds
  <2> QED
    BY <1>17, <2>1, <1>r, KeptHosts DEF PollEnds, AtRest, PollKnows, SameHosts
<1>18. ASSUME WatchWorkerRestarts PROVE Goal
  <2>1. poll'.step = "rest" /\ watchRow' = watchRow /\ watchedKind' = watchedKind
    BY <1>18 DEF WatchWorkerRestarts
  <2>2. \A x \in Launches : /\ process'[x] \in {"starting", "running"} => process[x] \in {"starting", "running"}
                            /\ process[x] = "none" => process'[x] = "none"
    BY <1>18, <1>t DEF WatchWorkerRestarts
  <2> QED
    <3>1. HostsAreNamed'
      BY <2>1, <2>2, <1>r DEF HostsAreNamed
    <3>2. PollKnows'
      BY <2>1 DEF PollKnows
    <3>3. RunningIsKnown'
      BY <2>1, <2>2, <1>r DEF RunningIsKnown
    <3> QED
      BY <3>1, <3>2, <3>3
<1>19. CASE UNCHANGED watchVars
  BY <1>19, <1>k DEF watchVars, SameHosts, HostInv
<1> QED
  BY <1>1, <1>2, <1>3, <1>4, <1>5, <1>6, <1>7, <1>8, <1>9, <1>10, <1>11, <1>12, <1>13, <1>14,
       <1>15, <1>16,
     <1>17, <1>18, <1>19 DEF WatchNext, HostInv

-----------------------------------------------------------------------------
(* Series of a file's watches.                                               *)

LastOf(w) == {v \in SeriesOf(w) : watchRow[v].state \in {"open", "cancelled"}}

SeriesInv ==
    /\ \A w \in Watches : watchRow[w].state = "none" => watchRow[w].series = w /\ ~watchRow[w].runner
    /\ \A w \in Watches : watchRow[w].state # "none" => watchRow[watchRow[w].series].state # "none"
    /\ watchedKind = "file" =>
           /\ \A w \in Watches : SeriesOf(w) # {} => \E v \in Watches : LastOf(w) = {v}
           /\ (\A w \in Watches : ~watchRow[w].runner) => \A v, w \in OpenWatches : v = w

\* What a step may do to the rows: nothing, open an unused one, end an open one, or renew it.
RowKept(v) ==
    /\ watchRow'[v].state = watchRow[v].state /\ watchRow'[v].series = watchRow[v].series
    /\ watchRow'[v].runner = watchRow[v].runner

RestKept(S) == \A v \in Watches \ S : RowKept(v)

Opens ==
    \E m \in Unused :
        /\ RestKept({m})
        /\ watchRow'[m].state = "open" /\ watchRow'[m].series = watchRow[m].series
        /\ watchedKind = "file" => OpenWatches = {} \/ watchRow'[m].runner

Ends ==
    \E w \in OpenWatches :
        /\ RestKept({w})
        /\ watchRow'[w].state \in {"fired", "expired", "failed", "cancelled"}
        /\ watchedKind = "file" => watchRow'[w].state = "cancelled"
        /\ watchRow'[w].series = watchRow[w].series /\ watchRow'[w].runner = watchRow[w].runner

Renews ==
    \E w \in OpenWatches, m \in Unused :
        /\ RestKept({w, m})
        /\ watchRow'[w].state \in {"fired", "expired", "failed"}
        /\ watchRow'[w].series = watchRow[w].series /\ watchRow'[w].runner = watchRow[w].runner
        /\ watchRow'[m].state = "open"
        /\ watchRow'[m].series = watchRow[w].series /\ watchRow'[m].runner = watchRow[w].runner

RowsMove == RestKept({}) \/ Opens \/ Ends \/ Renews

LEMMA SettleMoves ==
    ASSUME WatchTypes, NEW rows \in [Watches -> WatchRecord], NEW w \in Watches,
           NEW event \in {"fired", "expired", "failed", "cancelled"}, Settle(rows, w, event),
           \A v \in Watches : /\ rows[v].state = watchRow[v].state /\ rows[v].series = watchRow[v].series
                              /\ rows[v].runner = watchRow[v].runner
    PROVE  RowsMove
<1>1. event \in WatchStates
  BY DEF WatchStates
<1>2. CASE watchRow' = rows
  BY <1>2 DEF RowsMove, RestKept, RowKept
<1>3. ASSUME NEW end \in {event, "cancelled"}, rows[w].state = "open", watchRow' = [rows EXCEPT ![w].state = end],
             watchedKind = "file" => end = "cancelled"
      PROVE  RowsMove
  <2>1. w \in OpenWatches
    BY <1>3 DEF OpenWatches
  <2>2. /\ watchRow'[w].state = end /\ watchRow'[w].series = watchRow[w].series /\ watchRow'[w].runner = watchRow[w].runner
        /\ RestKept({w})
    BY <1>3, RecordFields DEF RestKept, RowKept
  <2> QED
    BY <1>3, <2>1, <2>2 DEF RowsMove, Ends
<1>4. CASE /\ rows[w].state = "open" /\ event # "cancelled" /\ Unused # {}
           /\ watchRow' = Renewed(rows, w, Min(Unused), event)
  <2> DEFINE m == Min(Unused)
  <2>1. w \in OpenWatches /\ m \in Unused /\ m \in Watches /\ m # w
    BY <1>4, FirstUnused DEF OpenWatches, Unused
  <2>2. /\ watchRow'[w].state = event /\ watchRow'[w].series = watchRow[w].series /\ watchRow'[w].runner = watchRow[w].runner
        /\ watchRow'[m].state = "open" /\ watchRow'[m].series = watchRow[w].series /\ watchRow'[m].runner = watchRow[w].runner
        /\ RestKept({w, m})
    <3> HIDE DEF m
    <3>1. watchRow' = Renewed(rows, w, m, event)
      BY <1>4 DEF m
    <3>2. /\ DOMAIN rows = Watches
          /\ DOMAIN rows[w] = {"state", "session", "series", "runner", "host", "execution"}
      BY RecordFields
    <3>3. /\ watchRow'[w] = [rows[w] EXCEPT !.state = event] /\ watchRow'[m] = [rows[w] EXCEPT !.state = "open"]
          /\ \A v \in Watches \ {w, m} : watchRow'[v] = rows[v]
      BY <3>1, <3>2, <2>1 DEF Renewed
    <3> QED
      BY <3>2, <3>3 DEF RestKept, RowKept
  <2> HIDE DEF m
  <2> QED
    BY <1>4, <2>1, <2>2 DEF RowsMove, Renews
<1> QED
  BY <1>1, <1>2, <1>3, <1>4, SettleWrites

LEMMA RowsMoveOfNext == WatchTypes /\ HostInv /\ [WatchNext]_watchVars => RowsMove /\ watchedKind' = watchedKind
<1> SUFFICES ASSUME WatchTypes, HostInv, [WatchNext]_watchVars PROVE RowsMove /\ watchedKind' = watchedKind
  OBVIOUS
<1>t. watchRow \in [Watches -> WatchRecord]
  BY TypesUnfold
<1>k. watchRow' = watchRow => RowsMove
  BY DEF RowsMove, RestKept, RowKept
<1>s. ASSUME NEW w \in Watches, NEW event \in {"fired", "expired", "failed", "cancelled"},
             Settle(watchRow, w, event)
      PROVE  RowsMove
  BY <1>s, <1>t, SettleMoves
<1>g. ASSUME NEW w \in Watches, NEW event \in {"fired", "expired", "failed", "cancelled"},
             Settle([watchRow EXCEPT ![w].host = "gone"], w, event)
      PROVE  RowsMove
  <2>1. [watchRow EXCEPT ![w].host = "gone"] \in [Watches -> WatchRecord]
    BY <1>t DEF WatchRecord, HostStates
  <2> DEFINE rows == [watchRow EXCEPT ![w].host = "gone"]
  <2>2. \A v \in Watches : /\ rows[v].state = watchRow[v].state /\ rows[v].series = watchRow[v].series
                           /\ rows[v].runner = watchRow[v].runner
    BY <1>t, RecordFields
  <2> HIDE DEF rows
  <2> QED
    BY <1>g, <2>1, <2>2, SettleMoves DEF rows
<1>h. ASSUME NEW w \in Watches, NEW host, watchRow' = [watchRow EXCEPT ![w].host = host] PROVE RowsMove
  <2>1. \A v \in Watches : RowKept(v)
    BY <1>h, <1>t, RecordFields DEF RowKept
  <2> QED
    BY <2>1 DEF RowsMove, RestKept
<1>i. ASSUME NEW s, NEW onRunner, Insert(s, onRunner), watchedKind = "file" => OpenWatches = {} \/ onRunner
      PROVE  RowsMove
  <2>1. PICK m \in Unused : watchRow' = [watchRow EXCEPT ![m] = [@ EXCEPT !.state = "open", !.session = s, !.runner = onRunner]]
    BY <1>i, FirstUnused DEF Insert
  <2>2. m \in Watches /\ DOMAIN watchRow[m] = {"state", "session", "series", "runner", "host", "execution"}
    BY <1>t, <2>1, RecordFields DEF Unused
  <2>3. watchRow' = [watchRow EXCEPT ![m] = [watchRow[m] EXCEPT !.state = "open", !.session = s, !.runner = onRunner]]
    BY <1>t, <2>1, <2>2
  <2>4. \A v \in Watches \ {m} : watchRow'[v] = watchRow[v]
    BY <1>t, <2>3
  <2>5. watchRow'[m] = [watchRow[m] EXCEPT !.state = "open", !.session = s, !.runner = onRunner]
    BY <1>t, <2>2, <2>3
  <2>6. watchRow'[m].state = "open" /\ watchRow'[m].series = watchRow[m].series /\ watchRow'[m].runner = onRunner
    BY <2>2, <2>5
  <2> QED
    BY <1>i, <2>4, <2>6 DEF RowsMove, Opens, RestKept, RowKept
<1>1. ASSUME NEW s \in Watchers, RegisterFile(s) PROVE RowsMove
  <2>1. CASE Active(s) # {}
    <3>1. PICK w \in Watches : watchRow' = [watchRow EXCEPT ![w].session = s]
      BY <1>1, <2>1 DEF RegisterFile, Active, OwnOnly, OpenWatches
    <3>2. \A v \in Watches : RowKept(v)
      BY <3>1, <1>t, RecordFields DEF RowKept
    <3> QED
      BY <3>2 DEF RowsMove, RestKept
  <2>2. CASE Active(s) = {}
    <3>1. OpenWatches = {}
      BY <2>2 DEF Active
    <3> QED
      BY <1>1, <2>2, <3>1, <1>i, <1>k DEF RegisterFile
  <2> QED
    BY <2>1, <2>2
<1>2. ASSUME NEW s \in Watchers, RegisterOnRunner(s) PROVE RowsMove
  BY <1>2, <1>i, <1>k DEF RegisterOnRunner
<1>3. ASSUME NEW s \in Watchers, NEW w \in Watches, CancelWatch(s, w) PROVE RowsMove
  <2>1. PICK v \in Watches : Settle(watchRow, v, "cancelled")
    BY <1>3 DEF CancelWatch, OwnOnly, OpenWatches
  <2> QED
    BY <2>1, <1>s
<1>4. ASSUME NEW onRunner \in BOOLEAN, RegisterCommand(onRunner) PROVE RowsMove
  BY <1>4, <1>i DEF RegisterCommand
<1>5. ASSUME NEW x \in Launches, HostStarts(x) \/ HostMoves(x) PROVE RowsMove
  BY <1>5, <1>k DEF HostStarts, HostMoves
<1>6. ASSUME NEW w \in Watches, RequestWaits(w) PROVE RowsMove
  BY <1>6, <1>k DEF RequestWaits
<1>7. ASSUME NEW w \in Watches, RunnerAway(w) \/ ObserveFile(w) PROVE RowsMove
  BY <1>7, <1>k, <1>s DEF RunnerAway, ObserveFile
<1>8. ASSUME NEW w \in Watches, LaunchCommand(w) PROVE RowsMove
  <2>1. ASSUME NEW x \in Launches, watchRow' = [watchRow EXCEPT ![w] = [@ EXCEPT !.execution = x, !.host = "intended"]]
        PROVE  RowsMove
    <3>1. \A v \in Watches : RowKept(v)
      BY <2>1, <1>t, RecordFields DEF RowKept
    <3> QED
      BY <3>1 DEF RowsMove, RestKept
  <2> QED
    BY <1>8, <2>1, <1>s DEF LaunchCommand
<1>9. ASSUME NEW w \in Watches, LaunchAnswered(w) PROVE RowsMove
  BY <1>9, <1>k, <1>g, <1>h DEF LaunchAnswered
<1>10. ASSUME NEW w \in Watches, CheckStart(w) PROVE RowsMove
  <2>1. ASSUME watchRow' = [watchRow EXCEPT ![w] = [@ EXCEPT !.host = "none", !.execution = NoHost]]
        PROVE  RowsMove
    <3>1. \A v \in Watches : RowKept(v)
      BY <2>1, <1>t, RecordFields DEF RowKept
    <3> QED
      BY <3>1 DEF RowsMove, RestKept
  <2> QED
    BY <1>10, <2>1, <1>k, <1>g, <1>h DEF CheckStart
<1>11. ASSUME NEW w \in Watches, CheckCommand(w) PROVE RowsMove
  BY <1>11, <1>k, <1>g, <1>s DEF CheckCommand
<1>12. ASSUME NEW w \in Watches, CleanUpHost(w) PROVE RowsMove
  BY <1>12, <1>k, <1>h DEF CleanUpHost
<1>13. ASSUME PollStarts \/ CleanUp \/ PollEnds \/ WatchWorkerRestarts PROVE RowsMove
  BY <1>13, <1>k DEF PollStarts, CleanUp, PollEnds, WatchWorkerRestarts
<1>14. CASE UNCHANGED watchVars
  BY <1>14, <1>k DEF watchVars
<1>15. watchedKind' = watchedKind
  BY DEF WatchNext, watchVars, RegisterFile, RegisterOnRunner, CancelWatch, RegisterCommand,
       HostStarts, HostMoves,
     RequestWaits, RunnerAway, ObserveFile, LaunchCommand, LaunchAnswered, CheckStart, CheckCommand, CleanUpHost,
     PollStarts, CleanUp, PollEnds, WatchWorkerRestarts, AtRest
<1> QED
  BY <1>1, <1>2, <1>3, <1>4, <1>5, <1>6, <1>7, <1>8, <1>9, <1>10, <1>11, <1>12, <1>13, <1>14,
       <1>15 DEF WatchNext

LEMMA SeriesInvStep ==
    ASSUME WatchTypes, SeriesInv, RowsMove, watchedKind' = watchedKind, WatchTypes'
    PROVE  SeriesInv'
<1> DEFINE Named == /\ \A v \in Watches : watchRow[v].state = "none" => watchRow[v].series = v /\ ~watchRow[v].runner
                    /\ \A v \in Watches : watchRow[v].state # "none" => watchRow[watchRow[v].series].state # "none"
           OneLast == \A v \in Watches : SeriesOf(v) # {} => \E u \in Watches : LastOf(v) = {u}
           OneOpen == (\A v \in Watches : ~watchRow[v].runner) => \A u, v \in OpenWatches : u = v
<1>t. \A v \in Watches : watchRow[v].series \in Watches /\ watchRow'[v].series \in Watches
  BY TypesUnfold, RecordFields DEF WatchTypes, WatchTypeOK, WatchRecord
<1>n. Named /\ (watchedKind = "file" => OneLast /\ OneOpen)
  BY DEF SeriesInv
<1>1. CASE RestKept({})
  <2>1. \A v \in Watches : RowKept(v)
    BY <1>1 DEF RestKept
  <2>2. \A v \in Watches : SeriesOf(v)' = SeriesOf(v) /\ LastOf(v)' = LastOf(v)
    BY <2>1 DEF RowKept, SeriesOf, LastOf
  <2>3. OpenWatches' = OpenWatches
    BY <2>1 DEF RowKept, OpenWatches
  <2>4. Named'
    BY <2>1, <1>n, <1>t DEF RowKept
  <2> QED
    BY <2>1, <2>2, <2>3, <2>4, <1>n DEF SeriesInv, RowKept
<1>2. CASE Opens
  <2>1. PICK m \in Unused : /\ RestKept({m})
                            /\ watchRow'[m].state = "open" /\ watchRow'[m].series = watchRow[m].series
                            /\ watchedKind = "file" => OpenWatches = {} \/ watchRow'[m].runner
    BY <1>2 DEF Opens
  <2>2. /\ m \in Watches /\ watchRow[m].state = "none" /\ watchRow'[m].series = m
        /\ \A v \in Watches \ {m} : RowKept(v)
        /\ \A v \in Watches : watchRow[v].state # "none" => watchRow[v].series # m
    BY <2>1, <1>n DEF Unused, RestKept
  <2>3. Named'
    BY <2>1, <2>2, <1>n, <1>t DEF RowKept
  <2>4. SeriesOf(m)' = {m} /\ LastOf(m)' = {m}
    BY <2>1, <2>2 DEF SeriesOf, LastOf, RowKept
  <2>5. \A v \in Watches \ {m} : SeriesOf(v)' = SeriesOf(v) /\ LastOf(v)' = LastOf(v)
    BY <2>1, <2>2 DEF SeriesOf, LastOf, RowKept
  <2>6. watchedKind = "file" => OneLast'
    BY <2>2, <2>4, <2>5, <1>n
  <2>7. watchedKind = "file" => OneOpen'
    BY <2>1, <2>2 DEF OpenWatches, RowKept
  <2> QED
    BY <2>3, <2>6, <2>7 DEF SeriesInv
<1>3. CASE Ends
  <2>1. PICK w \in OpenWatches :
          /\ RestKept({w})
          /\ watchRow'[w].state \in {"fired", "expired", "failed", "cancelled"}
          /\ watchedKind = "file" => watchRow'[w].state = "cancelled"
          /\ watchRow'[w].series = watchRow[w].series /\ watchRow'[w].runner = watchRow[w].runner
    BY <1>3 DEF Ends
  <2>2. w \in Watches /\ watchRow[w].state = "open" /\ \A v \in Watches \ {w} : RowKept(v)
    BY <2>1 DEF OpenWatches, RestKept
  <2>3. Named'
    BY <2>1, <2>2, <1>n, <1>t DEF RowKept
  <2>4. \A v \in Watches : /\ SeriesOf(v)' = SeriesOf(v)
                           /\ watchedKind = "file" => LastOf(v)' = LastOf(v)
    BY <2>1, <2>2 DEF SeriesOf, LastOf, RowKept
  <2>5. OpenWatches' \subseteq OpenWatches /\ \A v \in Watches : watchRow'[v].runner = watchRow[v].runner
    BY <2>1, <2>2 DEF OpenWatches, RowKept
  <2> QED
    BY <2>3, <2>4, <2>5, <1>n DEF SeriesInv
<1>4. CASE Renews
  <2>1. PICK w \in OpenWatches, m \in Unused :
          /\ RestKept({w, m})
          /\ watchRow'[w].state \in {"fired", "expired", "failed"}
          /\ watchRow'[w].series = watchRow[w].series /\ watchRow'[w].runner = watchRow[w].runner
          /\ watchRow'[m].state = "open"
          /\ watchRow'[m].series = watchRow[w].series /\ watchRow'[m].runner = watchRow[w].runner
    BY <1>4 DEF Renews
  <2>s. PICK s : s = watchRow[w].series
    OBVIOUS
  <2>2. /\ w \in Watches /\ watchRow[w].state = "open" /\ m \in Watches /\ watchRow[m].state = "none"
        /\ \A v \in Watches \ {w, m} : RowKept(v)
    BY <2>s, <2>1 DEF OpenWatches, Unused, RestKept
  <2>3. s \in Watches /\ watchRow[s].state # "none" /\ s # m
    BY <2>s, <2>2, <1>n, <1>t
  <2>4. Named'
    BY <2>s, <2>1, <2>2, <2>3, <1>n, <1>t DEF RowKept
  <2>5. SeriesOf(s)' = SeriesOf(s) \cup {m} /\ \A v \in Watches \ {s} : SeriesOf(v)' = SeriesOf(v)
    BY <2>s, <2>1, <2>2 DEF SeriesOf, RowKept
  <2>6. ASSUME watchedKind = "file" PROVE LastOf(s)' = {m}
    <3>1. LastOf(s) = {w}
      BY <2>s, <2>2, <2>3, <2>6, <1>n DEF LastOf, SeriesOf
    <3>2. ASSUME NEW v \in LastOf(s)' PROVE v = m
      <4>1. v \in Watches /\ watchRow'[v].series = s /\ watchRow'[v].state \in {"open", "cancelled"}
        BY <3>2 DEF LastOf, SeriesOf
      <4>2. CASE v \notin {w, m}
        BY <2>s, <3>1, <4>1, <4>2, <2>2 DEF LastOf, SeriesOf, RowKept
      <4> QED
        BY <4>1, <4>2, <2>1
    <3>3. m \in LastOf(s)'
      BY <2>s, <2>1, <2>2 DEF LastOf, SeriesOf
    <3> QED
      BY <3>2, <3>3
  <2>7. \A v \in Watches \ {s} : LastOf(v)' = LastOf(v)
    BY <2>s, <2>1, <2>2 DEF LastOf, SeriesOf, RowKept
  <2>8. watchedKind = "file" => OneLast'
    BY <2>s, <2>2, <2>3, <2>5, <2>6, <2>7, <1>n
  <2>9. watchedKind = "file" => OneOpen'
    <3> SUFFICES ASSUME watchedKind = "file", \A v \in Watches : ~watchRow'[v].runner
                 PROVE  \A u \in OpenWatches' : u = m
      OBVIOUS
    <3>1. \A v \in Watches : ~watchRow[v].runner
      BY <2>s, <2>1, <2>2, <1>n DEF RowKept
    <3>2. \A u \in OpenWatches : u = w
      BY <3>1, <2>1, <1>n
    <3> QED
      BY <3>2, <2>1, <2>2 DEF OpenWatches, RowKept
  <2> QED
    BY <2>4, <2>8, <2>9 DEF SeriesInv
<1> QED
  BY <1>1, <1>2, <1>3, <1>4 DEF RowsMove

LEMMA SeriesInvInit == WatchInit => SeriesInv
<1> SUFFICES ASSUME WatchInit PROVE SeriesInv
  OBVIOUS
<1>1. \A w \in Watches : watchRow[w].state = "none" /\ watchRow[w].series = w /\ ~watchRow[w].runner
  BY DEF WatchInit
<1>2. \A w \in Watches : SeriesOf(w) = {}
  BY <1>1 DEF SeriesOf
<1> QED
  BY <1>1, <1>2 DEF SeriesInv, OpenWatches

LEMMA HostInvInit == WatchInit => HostInv
BY DEF WatchInit, HostInv, HostsAreNamed, PollKnows, RunningIsKnown

WatchInv == WatchTypes /\ HostInv /\ SeriesInv

LEMMA WatchInvStep == WatchInv /\ [WatchNext]_watchVars => WatchInv'
BY WatchTypeStep, HostInvStep, RowsMoveOfNext, SeriesInvStep DEF WatchInv

LEMMA WatchInvariant == WatchSpec => []WatchInv
<1>1. WatchInit => WatchInv
  BY WatchTypeInit, HostInvInit, SeriesInvInit DEF WatchInv
<1> QED
  BY <1>1, WatchInvStep, PTL DEF WatchSpec

\* The variables of the watches keep their types.
THEOREM WatchTypeCorrect == WatchSpec => []WatchTypeOK
<1>1. WatchInv => WatchTypeOK
  BY DEF WatchInv, WatchTypes
<1> QED
  BY <1>1, WatchInvariant, PTL

\* No command runs that its row has lost, whatever calls, polls and coordinators were cut off in
\* the middle of a start: so none is started beside an earlier start of it (watches.ts).
THEOREM CommandsAreKnown == WatchSpec => []RunningIsKnown
<1>1. WatchInv => RunningIsKnown
  BY DEF WatchInv, HostInv
<1> QED
  BY <1>1, WatchInvariant, PTL

LEMMA OneLastOfSeries == WatchInv /\ watchedKind = "file" => OneLastWatch
<1> SUFFICES ASSUME WatchInv, watchedKind = "file" PROVE OneLastWatch
  OBVIOUS
<1>1. ASSUME NEW w \in Watches, SeriesOf(w) # {} PROVE Cardinality(LastOf(w)) = 1
  <2>1. PICK v : LastOf(w) = {v}
    BY <1>1 DEF WatchInv, SeriesInv
  <2>2. Cardinality({v}) = 1
    BY FS_Singleton
  <2> QED
    BY <2>1, <2>2
<1>2. ASSUME \A w \in Watches : ~watchRow[w].runner PROVE Cardinality(OpenWatches) <= 1
  <2>1. CASE OpenWatches = {}
    BY <2>1, FS_EmptySet
  <2>2. ASSUME NEW w \in OpenWatches PROVE Cardinality(OpenWatches) <= 1
    <3>1. OpenWatches = {w}
      BY <1>2, <2>2 DEF WatchInv, SeriesInv
    <3>2. Cardinality({w}) = 1
      BY FS_Singleton
    <3> QED
      BY <3>1, <3>2
  <2> QED
    BY <2>1, <2>2
<1> QED
  BY <1>1, <1>2 DEF OneLastWatch, LastOf

\* A watch ends in one terminal event, whatever a poll does from rows that were settled, taken over
\* or cancelled since, and one watch of a series is its last (watches.ts).
THEOREM WatchesEndOnce == WatchSpec => WatchEndsOnce
<1> DEFINE Once ==
        /\ \A w \in Watches \ OpenWatches : watchRow[w].state # "none" => watchRow'[w].state = watchRow[w].state
        /\ watchedKind = "file" => OneLastWatch'
<1>1. WatchInv /\ [WatchNext]_watchVars => [Once]_watchVars
  <2> SUFFICES ASSUME WatchInv, [WatchNext]_watchVars PROVE Once
    OBVIOUS
  <2>1. RowsMove /\ watchedKind' = watchedKind
    BY RowsMoveOfNext DEF WatchInv
  <2>2. WatchInv'
    BY WatchInvStep
  <2>3. \A w \in Watches \ OpenWatches : watchRow[w].state # "none" => watchRow'[w].state = watchRow[w].state
    BY <2>1 DEF RowsMove, Opens, Ends, Renews, RestKept, RowKept, Unused
  <2>4. (WatchInv /\ watchedKind = "file" => OneLastWatch)'
    BY OneLastOfSeries, PTL
  <2> QED
    BY <2>1, <2>2, <2>3, <2>4
<1> QED
  BY <1>1, WatchInvariant, PTL DEF WatchSpec, WatchEndsOnce

-----------------------------------------------------------------------------
(* Saved schedules.                                                          *)

FiringStates == {"queued", "running", "done", "error", "cancelled"}
FiringRecord == [status : FiringStates, seq : Nat, fire : Nat, next : Nat, expires : Nat,
                 manual : BOOLEAN, begun : BOOLEAN]

SavedTypes ==
    /\ firing \in Seq(FiringRecord) /\ Latest \in 1..MaxFirings /\ now \in Instants
    /\ dropped \subseteq 1..MaxFirings /\ markedOn \in 0..MaxFirings
    /\ request \in {"open", "settled", "canceled"} /\ suspended \in BOOLEAN /\ byHand \in 0..MaxByHand

\* An ended schedule holds nothing back that has not begun; a firing keeps its time of grace; one that
\* has not begun waits for its own instant, or for none; and one such waits behind the latest.
EndIsFinal == markedOn # NoFiring => markedOn = Latest /\ \A i \in Queued : firing[i].begun
RowsAgree ==
    \A i \in Firings :
        /\ firing[i].status = "running" => firing[i].begun
        /\ firing[i].expires \in Expiries(firing[i].fire)
        /\ firing[i].status = "queued" /\ ~firing[i].begun => firing[i].next \in {firing[i].fire, NoInstant}
OneWaits ==
    \A i, j \in Queued \ {Latest} : ~firing[i].begun /\ ~firing[j].begun => i = j

ScheduleInv == SavedTypes /\ EndIsFinal /\ RowsAgree /\ OneWaits

LEMMA Division ==
    ASSUME NEW a \in Int, NEW d \in Nat \ {0}
    PROVE  a \div d \in Int /\ (a \div d) * d <= a /\ a < (a \div d + 1) * d
OBVIOUS

LEMMA Larger ==
    ASSUME NEW x \in Int
    PROVE  Max({1, x}) \in {1, x} /\ Max({1, x}) >= 1 /\ Max({1, x}) >= x
<1>1. \E y \in {1, x} : \A z \in {1, x} : y >= z
  <2>1. CASE x >= 1
    BY <2>1
  <2>2. CASE x < 1
    BY <2>2
  <2> QED
    BY <2>1, <2>2
<1> QED
  BY <1>1 DEF Max

LEMMA FiringFields ==
    ASSUME NEW row \in FiringRecord
    PROVE  /\ row.status \in FiringStates /\ {row.seq, row.fire, row.next, row.expires} \subseteq Nat
           /\ {row.manual, row.begun} \subseteq BOOLEAN
           /\ \A end \in FiringStates :
                 /\ [row EXCEPT !.status = end] \in FiringRecord
                 /\ [row EXCEPT !.status = end].status = end /\ [row EXCEPT !.status = end].fire = row.fire
                 /\ [row EXCEPT !.status = end].next = row.next /\ [row EXCEPT !.status = end].begun = row.begun
                 /\ [row EXCEPT !.status = end].expires = row.expires
BY DEF FiringRecord

LEMMA BeginWrites ==
    ASSUME NEW row \in FiringRecord
    PROVE  LET q == [row EXCEPT !.status = "running", !.next = NoInstant, !.begun = TRUE]
           IN  q \in FiringRecord /\ q.status = "running" /\ q.begun /\ q.fire = row.fire /\ q.expires = row.expires
BY DEF FiringRecord, FiringStates, NoInstant

LEMMA AgainWrites ==
    ASSUME NEW row \in FiringRecord, NEW at \in Nat
    PROVE  LET q == [row EXCEPT !.status = "queued", !.next = at]
           IN  q \in FiringRecord /\ q.begun = row.begun /\ q.fire = row.fire /\ q.expires = row.expires
BY DEF FiringRecord, FiringStates

LEMMA StartWrites ==
    ASSUME NEW row \in FiringRecord
    PROVE  LET q == [row EXCEPT !.manual = TRUE, !.next = NoInstant]
           IN  /\ q \in FiringRecord /\ q.status = row.status /\ q.begun = row.begun /\ q.fire = row.fire
               /\ q.next = NoInstant /\ q.expires = row.expires
BY DEF FiringRecord, NoInstant

LEMMA SequenceOf ==
    ASSUME NEW S, NEW n \in Nat, NEW f \in [1..n -> S]
    PROVE  f \in Seq(S) /\ Len(f) = n /\ DOMAIN f = 1..n
OBVIOUS

LEMMA FunctionOf ==
    ASSUME NEW S, NEW f \in Seq(S)
    PROVE  Len(f) \in Nat /\ DOMAIN f = 1..Len(f) /\ f \in [1..Len(f) -> S]
OBVIOUS

LEMMA Appended ==
    ASSUME NEW S, NEW f \in Seq(S), NEW e \in S
    PROVE  /\ Append(f, e) \in Seq(S) /\ Len(Append(f, e)) = Len(f) + 1
           /\ DOMAIN Append(f, e) = 1..(Len(f) + 1)
           /\ \A i \in 1..Len(f) : Append(f, e)[i] = f[i]
           /\ Append(f, e)[Len(f) + 1] = e
OBVIOUS

-----------------------------------------------------------------------------
\* What any operation but a booking makes of one firing.
FiringMove(row, after) ==
    /\ after \in FiringRecord
    /\ after.begun = row.begun \/ (row.status = "queued" /\ after.status = "running" /\ after.begun)
    /\ after.status = "queued" => row.status = "queued" \/ (row.status = "running" /\ after.begun = row.begun)
    /\ after.status = "running" => after.begun \/ (row.status = "running" /\ after.begun = row.begun)
    /\ after.expires \in Expiries(after.fire)
    /\ after.status = "queued" /\ ~after.begun => after.next \in {after.fire, NoInstant}

FiringsMove ==
    /\ firing' \in Seq(FiringRecord) /\ Latest' = Latest
    /\ \A i \in Firings : FiringMove(firing[i], firing'[i])

LEMMA FiringsAre == SavedTypes => /\ Latest \in Nat /\ Latest >= 1 /\ Firings = 1..Latest
                                  /\ firing \in [1..Latest -> FiringRecord]
                                  /\ \A i \in Firings : firing[i] \in FiringRecord
<1> SUFFICES ASSUME SavedTypes PROVE /\ Latest \in Nat /\ Latest >= 1 /\ Firings = 1..Latest
                                     /\ firing \in [1..Latest -> FiringRecord]
                                     /\ \A i \in Firings : firing[i] \in FiringRecord
  OBVIOUS
<1>1. firing \in Seq(FiringRecord) /\ Latest \in 1..MaxFirings
  BY DEF SavedTypes
<1> QED
  BY <1>1, FunctionOf, ScheduleAssumption DEF Latest, Firings

\* A function over the firings that moves each row is a move of the schedule.
LEMMA MoveAll ==
    ASSUME SavedTypes, NEW rows \in [Firings -> FiringRecord], firing' = rows,
           \A i \in Firings : FiringMove(firing[i], rows[i])
    PROVE  FiringsMove
<1>1. firing' \in Seq(FiringRecord) /\ Len(firing') = Latest
  BY FiringsAre, SequenceOf
<1> QED
  BY <1>1 DEF FiringsMove, Latest

LEMMA KeptRow ==
    ASSUME SavedTypes, RowsAgree, NEW i \in Firings
    PROVE  FiringMove(firing[i], firing[i])
BY FiringsAre DEF RowsAgree, FiringMove

LEMMA EndedRow ==
    ASSUME SavedTypes, RowsAgree, NEW i \in Firings, NEW end \in {"done", "cancelled", "error"}
    PROVE  FiringMove(firing[i], [firing[i] EXCEPT !.status = end])
<1>1. firing[i] \in FiringRecord /\ end \in FiringStates
  BY FiringsAre DEF FiringStates
<1>2. firing[i].expires \in Expiries(firing[i].fire)
  BY DEF RowsAgree
<1> DEFINE q == [firing[i] EXCEPT !.status = end]
<1>3. /\ q \in FiringRecord /\ q.status = end /\ q.fire = firing[i].fire /\ q.begun = firing[i].begun
      /\ q.expires = firing[i].expires
  BY <1>1, FiringFields
<1> HIDE DEF q
<1>4. FiringMove(firing[i], q)
  BY <1>2, <1>3 DEF FiringMove
<1> QED
  BY <1>4 DEF q

\* A change of one row moves the schedule if it moves that row.
LEMMA MoveOne ==
    ASSUME SavedTypes, RowsAgree, NEW i \in Firings, NEW row, FiringMove(firing[i], row),
           firing' = [firing EXCEPT ![i] = row]
    PROVE  FiringsMove
<1>1. row \in FiringRecord
  BY DEF FiringMove
<1>2. firing \in [Firings -> FiringRecord]
  BY FiringsAre
<1>3. firing' \in [Firings -> FiringRecord]
  BY <1>1, <1>2
<1>4. \A j \in Firings : FiringMove(firing[j], firing'[j])
  <2> TAKE j \in Firings
  <2>1. CASE j = i
    BY <2>1, <1>2
  <2>2. CASE j # i
    BY <2>2, <1>2, KeptRow
  <2> QED
    BY <2>1, <2>2
<1> QED
  BY <1>3, <1>4, MoveAll

LEMMA EndScheduleMoves ==
    ASSUME SavedTypes, RowsAgree, EndSchedule
    PROVE  FiringsMove /\ \A i \in Firings : firing'[i].status # "queued" /\ firing'[i].begun = firing[i].begun
<1> DEFINE rows == [i \in Firings |-> IF i \in Queued THEN [firing[i] EXCEPT !.status = "cancelled"] ELSE firing[i]]
<1>1. \A i \in Firings : firing[i] \in FiringRecord
  BY FiringsAre
<1>2. \A i \in Firings : FiringMove(firing[i], rows[i])
  <2> TAKE i \in Firings
  <2>1. CASE i \in Queued
    BY <2>1, EndedRow
  <2>2. CASE i \notin Queued
    BY <2>2, KeptRow
  <2> QED
    BY <2>1, <2>2
<1>3. rows \in [Firings -> FiringRecord]
  BY <1>2 DEF FiringMove
<1>4. firing' = rows
  BY DEF EndSchedule
<1>5. \A i \in Firings : rows[i].status # "queued" /\ rows[i].begun = firing[i].begun
  <2> TAKE i \in Firings
  <2>1. CASE i \in Queued
    BY <2>1, <1>1, FiringFields DEF FiringStates
  <2>2. CASE i \notin Queued
    BY <2>2 DEF Queued
  <2> QED
    BY <2>1, <2>2
<1> HIDE DEF rows
<1> QED
  BY <1>2, <1>3, <1>4, <1>5, MoveAll

\* Work that missed its expiry ends; the rest is as it was.
LEMMA MissedRows ==
    ASSUME NEW n \in Nat, NEW rows \in [1..n -> FiringRecord], NEW held \in BOOLEAN
    PROVE  /\ Missed(rows, held) \in [1..n -> FiringRecord]
           /\ \A i \in 1..n :
                 \/ Missed(rows, held)[i] = rows[i]
                 \/ /\ Missed(rows, held)[i] = [rows[i] EXCEPT !.status = "error"]
                    /\ rows[i].status = "queued" /\ rows[i].expires # NoInstant /\ rows[i].expires <= now
<1>1. DOMAIN rows = 1..n /\ \A i \in 1..n : rows[i] \in FiringRecord
  OBVIOUS
<1>2. \A i \in 1..n : [rows[i] EXCEPT !.status = "error"] \in FiringRecord
  BY <1>1, FiringFields DEF FiringStates
<1> QED
  BY <1>1, <1>2 DEF Missed

LEMMA MissedMoves ==
    ASSUME SavedTypes, RowsAgree, NEW held \in BOOLEAN, firing' = Missed(firing, held)
    PROVE  FiringsMove
<1>1. Firings = 1..Latest /\ Latest \in Nat /\ firing \in [1..Latest -> FiringRecord]
  BY FiringsAre
<1>2. firing' \in [Firings -> FiringRecord]
  BY <1>1, MissedRows
<1>3. \A i \in Firings : FiringMove(firing[i], firing'[i])
  <2> TAKE i \in Firings
  <2>1. CASE firing'[i] = firing[i]
    BY <2>1, KeptRow
  <2>2. CASE firing'[i] = [firing[i] EXCEPT !.status = "error"]
    BY <2>2, EndedRow
  <2> QED
    BY <2>1, <2>2, <1>1, MissedRows
<1> QED
  BY <1>2, <1>3, MoveAll

-----------------------------------------------------------------------------
(* The booking.                                                              *)

Books ==
    /\ DueForAdvance /\ MayBook /\ Latest < MaxFirings
    /\ \E held \in BOOLEAN : firing' = Missed(WithSuccessor, held)
    /\ UNCHANGED <<markedOn, now, dropped, request, suspended, byHand>>

\* The successor is a firing that has not begun, of an instant to come, with its predecessor's grace.
LEMMA SuccessorWaits ==
    ASSUME SavedTypes, RowsAgree
    PROVE  /\ Successor \in FiringRecord /\ Successor.status = "queued" /\ ~Successor.begun
           /\ Successor.next = Successor.fire /\ Successor.next > now
           /\ Successor.expires \in Expiries(Successor.fire)
           /\ Successor.expires # NoInstant => Successor.expires > now
<1> DEFINE row == firing[Latest]
           since == now - row.fire
           k == since \div Interval
           later == Ahead * Interval
<1>1. Latest \in Firings /\ row \in FiringRecord
  BY FiringsAre
<1>2. row.fire \in Nat /\ row.seq \in Nat /\ row.expires \in {NoInstant, row.fire + Lasts}
  BY <1>1, FiringFields DEF RowsAgree, Expiries
<1>3. now \in Nat /\ Interval \in Nat \ {0} /\ Lasts \in Nat \ {0}
  BY ScheduleAssumption DEF SavedTypes, Instants
<1>4. k \in Int /\ now - row.fire < (k + 1) * Interval
  <2>1. since \in Int
    BY <1>2, <1>3
  <2>2. k \in Int /\ since < (k + 1) * Interval
    <3> HIDE DEF since
    <3> QED
      BY <1>3, <2>1, Division
  <2> QED
    BY <2>2
<1> HIDE DEF k
<1>5. Ahead \in Nat /\ Ahead >= 1 /\ Ahead >= k + 1
  BY <1>4, Larger DEF Ahead, k
<1>6. later \in Nat /\ later >= (k + 1) * Interval
  BY <1>3, <1>4, <1>5
<1>7. row.fire + later > now
  BY <1>2, <1>3, <1>4, <1>6
<1> HIDE DEF row, later
<1>8. Successor = Booked(row.seq + Ahead, row.fire + later,
                         IF row.expires = NoInstant THEN NoInstant ELSE row.expires + later)
  BY DEF Successor, row, later
<1>9. CASE row.expires = NoInstant
  BY <1>2, <1>3, <1>5, <1>6, <1>7, <1>8, <1>9 DEF Booked, FiringRecord, FiringStates, Expiries,
       NoInstant
<1>10. CASE row.expires # NoInstant
  <2>1. row.expires + later = row.fire + later + Lasts
    BY <1>2, <1>3, <1>6, <1>10
  <2>2. Successor = Booked(row.seq + Ahead, row.fire + later, row.fire + later + Lasts)
    BY <1>8, <1>10, <2>1
  <2>3. row.fire + later + Lasts > now /\ row.fire + later + Lasts \in Nat
    BY <1>2, <1>3, <1>6, <1>7
  <2> QED
    BY <1>2, <1>3, <1>5, <1>6, <1>7, <2>2, <2>3 DEF Booked, FiringRecord, FiringStates, Expiries
<1> QED
  BY <1>9, <1>10

\* After a booking the schedule is one longer, the successor waits, and a waiting latest firing is
\* cancelled if an earlier one is in progress.
LEMMA BookedRows ==
    ASSUME SavedTypes, RowsAgree, Books
    PROVE  /\ firing' \in Seq(FiringRecord) /\ Latest' = Latest + 1 /\ Firings' = 1..(Latest + 1)
           /\ firing'[Latest + 1] = Successor
           /\ \A i \in Firings : FiringMove(firing[i], firing'[i]) /\ firing'[i].begun = firing[i].begun
           /\ firing'[Latest].status = "queued" => ~Overlaps
<1> DEFINE before == IF Overlaps THEN [firing EXCEPT ![Latest].status = "cancelled"] ELSE firing
           n == Latest + 1
<1>1. /\ Latest \in Nat /\ Latest >= 1 /\ Firings = 1..Latest /\ firing \in [1..Latest -> FiringRecord]
      /\ \A i \in Firings : firing[i] \in FiringRecord
  BY FiringsAre
<1>2. /\ before \in [1..Latest -> FiringRecord]
      /\ \A i \in 1..Latest : before[i] = firing[i] \/ before[i] = [firing[i] EXCEPT !.status = "cancelled"]
      /\ Overlaps => before[Latest].status = "cancelled"
  <2>1. CASE Overlaps
    <3>1. [firing[Latest] EXCEPT !.status = "cancelled"] \in FiringRecord
          /\ [firing[Latest] EXCEPT !.status = "cancelled"].status = "cancelled"
      <4>1. firing[Latest] \in FiringRecord /\ "cancelled" \in FiringStates
        BY <1>1 DEF FiringStates
      <4> QED
        BY <4>1, FiringFields
    <3>2. before = [firing EXCEPT ![Latest] = [firing[Latest] EXCEPT !.status = "cancelled"]]
      BY <1>1, <2>1
    <3> QED
      BY <1>1, <3>1, <3>2
  <2>2. CASE ~Overlaps
    BY <1>1, <2>2
  <2> QED
    BY <2>1, <2>2
<1> HIDE DEF before
<1>3. before \in Seq(FiringRecord) /\ Len(before) = Latest
  BY <1>1, <1>2, SequenceOf
<1>4. WithSuccessor = Append(before, Successor)
  BY DEF WithSuccessor, before
<1>5. Successor \in FiringRecord
  BY SuccessorWaits
<1>6. /\ WithSuccessor \in Seq(FiringRecord) /\ Len(WithSuccessor) = n
      /\ \A i \in 1..Latest : WithSuccessor[i] = before[i]
      /\ WithSuccessor[n] = Successor
  BY <1>3, <1>4, <1>5, Appended
<1>7. WithSuccessor \in [1..n -> FiringRecord] /\ n \in Nat
  BY <1>1, <1>6, FunctionOf
<1>n. n = Latest + 1 /\ \A i \in 1..Latest : i \in 1..n
  BY <1>1
<1> HIDE DEF n
<1>8. PICK held \in BOOLEAN : firing' = Missed(WithSuccessor, held)
  BY DEF Books
<1>9. /\ firing' \in [1..n -> FiringRecord]
      /\ \A i \in 1..n :
            \/ firing'[i] = WithSuccessor[i]
            \/ /\ firing'[i] = [WithSuccessor[i] EXCEPT !.status = "error"]
               /\ WithSuccessor[i].expires # NoInstant /\ WithSuccessor[i].expires <= now
  BY <1>7, <1>8, MissedRows
<1>10. firing' \in Seq(FiringRecord) /\ Len(firing') = n /\ DOMAIN firing' = 1..n
  BY <1>7, <1>9, SequenceOf
<1>11. firing'[n] = Successor
  <2>1. n \in 1..n
    BY <1>1, <1>n
  <2>2. ~(Successor.expires # NoInstant /\ Successor.expires <= now)
    <3>1. Successor.expires \in Nat /\ now \in Nat
      BY <1>5, FiringFields, ScheduleAssumption DEF SavedTypes, Instants
    <3> QED
      BY <3>1, SuccessorWaits
  <2> QED
    BY <1>6, <1>9, <2>1, <2>2
<1>12. ASSUME NEW i \in Firings
       PROVE  /\ FiringMove(firing[i], firing'[i]) /\ firing'[i].begun = firing[i].begun
              /\ firing'[i].status \in {before[i].status, "error"}
  <2>1. i \in 1..n /\ i \in 1..Latest /\ WithSuccessor[i] = before[i] /\ before[i] \in FiringRecord
        /\ firing[i] \in FiringRecord
    BY <1>1, <1>2, <1>6, <1>n
  <2>2. firing'[i] \in {before[i], [before[i] EXCEPT !.status = "error"]}
    BY <2>1, <1>9
  <2>3. firing'[i].status \in {before[i].status, "error"}
    <3>1. [before[i] EXCEPT !.status = "error"].status = "error"
      BY <2>1, FiringFields DEF FiringStates
    <3> QED
      BY <2>2, <3>1
  <2>4. firing'[i] = firing[i] \/ \E end \in {"error", "cancelled"} : firing'[i] = [firing[i] EXCEPT !.status = end]
    <3>1. [[firing[i] EXCEPT !.status = "cancelled"] EXCEPT !.status = "error"] = [firing[i] EXCEPT !.status = "error"]
      BY <2>1 DEF FiringRecord
    <3> QED
      BY <1>2, <2>1, <2>2, <3>1
  <2>5. CASE firing'[i] = firing[i]
    BY <2>3, <2>5, KeptRow
  <2>6. CASE \E end \in {"error", "cancelled"} : firing'[i] = [firing[i] EXCEPT !.status = end]
    <3>1. PICK end \in {"error", "cancelled"} : firing'[i] = [firing[i] EXCEPT !.status = end]
      BY <2>6
    <3>2. firing'[i].begun = firing[i].begun
      BY <2>1, <3>1, FiringFields DEF FiringStates
    <3> QED
      BY <2>3, <3>1, <3>2, EndedRow
  <2> QED
    BY <2>4, <2>5, <2>6
<1>13. Latest' = Latest + 1 /\ Firings' = 1..(Latest + 1)
  BY <1>10, <1>n DEF Latest, Firings
<1>14. firing'[Latest].status = "queued" => ~Overlaps
  <2>1. Latest \in Firings
    BY <1>1
  <2> QED
    BY <2>1, <1>2, <1>12
<1> QED
  BY <1>10, <1>11, <1>12, <1>13, <1>14, <1>n

-----------------------------------------------------------------------------
\* Every operation books, or moves the rows and keeps the marks, or ends the schedule.
Marks == markedOn' = markedOn \/ (EndSchedule /\ \A i \in Firings : firing'[i].status # "queued")

LEMMA Operations ==
    ASSUME SavedTypes, RowsAgree, [SavedNext]_savedVars
    PROVE  \/ Books
           \/ FiringsMove /\ Marks
<1> DEFINE Goal == Books \/ (FiringsMove /\ Marks)
<1>0. ASSUME firing' = firing, markedOn' = markedOn PROVE Goal
  <2>1. firing \in [Firings -> FiringRecord]
    BY FiringsAre
  <2> QED
    BY <1>0, <2>1, KeptRow, MoveAll DEF Marks
<1>1. CASE PrepareSavedWorkForClaims
  <2>1. CASE EndSchedule
    BY <2>1, EndScheduleMoves DEF Marks
  <2>2. CASE DueForAdvance /\ MayBook /\ Latest < MaxFirings
             /\ (\E held \in BOOLEAN : firing' = Missed(WithSuccessor, held)) /\ UNCHANGED markedOn
    BY <1>1, <2>2 DEF PrepareSavedWorkForClaims, Books
  <2>3. CASE (\E held \in BOOLEAN : firing' = Missed(firing, held)) /\ UNCHANGED markedOn
    BY <2>3, MissedMoves DEF Marks
  <2> QED
    BY <1>1, <2>1, <2>2, <2>3 DEF PrepareSavedWorkForClaims
<1>2. CASE InspectSavedWork
  BY <1>2, MissedMoves DEF InspectSavedWork, Marks
<1>3. CASE ClaimFiring
  <2> DEFINE claimable == {i \in Firings : ClaimableFiring(i)}
             i == Min(claimable)
  <2>1. claimable # {} /\ firing' = [firing EXCEPT ![i] =
            [@ EXCEPT !.status = "running", !.next = NoInstant, !.begun = TRUE]]
    BY <1>3 DEF ClaimFiring
  <2>2. i \in claimable
    <3>1. claimable \subseteq Nat
      BY FiringsAre
    <3> HIDE DEF claimable
    <3> QED
      BY <3>1, <2>1, LeastNat
  <2>3. i \in Firings /\ firing[i].status = "queued"
    BY <2>2 DEF ClaimableFiring, Queued
  <2> HIDE DEF i, claimable
  <2> DEFINE q == [firing[i] EXCEPT !.status = "running", !.next = NoInstant, !.begun = TRUE]
  <2>4. firing' = [firing EXCEPT ![i] = q]
    BY <2>1, <2>3
  <2>5. firing[i] \in FiringRecord /\ firing[i].expires \in Expiries(firing[i].fire)
    BY <2>3, FiringsAre DEF RowsAgree
  <2>6. q \in FiringRecord /\ q.status = "running" /\ q.begun /\ q.fire = firing[i].fire /\ q.expires = firing[i].expires
    BY <2>5, BeginWrites
  <2> HIDE DEF q
  <2>7. FiringMove(firing[i], q)
    BY <2>3, <2>5, <2>6 DEF FiringMove
  <2> QED
    BY <2>3, <2>4, <2>7, <1>3, MoveOne DEF ClaimFiring, Marks
<1>4. ASSUME NEW i \in Firings, NEW status \in {"done", "cancelled"}, FinishFiring(i, status) PROVE Goal
  <2>1. firing' = [firing EXCEPT ![i] = [firing[i] EXCEPT !.status = status]]
    BY <1>4, FiringsAre DEF FinishFiring
  <2> QED
    BY <1>4, <2>1, EndedRow, MoveOne DEF FinishFiring, Marks
<1>5. ASSUME NEW i \in Firings, RetryFiring(i) PROVE Goal
  <2> DEFINE q == [firing[i] EXCEPT !.status = "queued", !.next = now + 1]
  <2>1. firing' = [firing EXCEPT ![i] = q]
    BY <1>5, FiringsAre DEF RetryFiring
  <2>2. /\ firing[i] \in FiringRecord /\ firing[i].expires \in Expiries(firing[i].fire)
        /\ firing[i].status = "running" /\ firing[i].begun /\ now + 1 \in Nat
    BY <1>5, FiringsAre, ScheduleAssumption DEF RowsAgree, RetryFiring, SavedTypes, Instants
  <2>3. q \in FiringRecord /\ q.begun = firing[i].begun /\ q.fire = firing[i].fire /\ q.expires = firing[i].expires
    BY <2>2, AgainWrites
  <2>4. q.status = "queued"
    BY <2>2 DEF FiringRecord
  <2> HIDE DEF q
  <2>5. FiringMove(firing[i], q)
    BY <2>2, <2>3, <2>4 DEF FiringMove
  <2> QED
    BY <1>5, <2>1, <2>5, MoveOne DEF RetryFiring, Marks
<1>6. ASSUME NEW i \in Firings, NEW at \in Instants, NEW expires \in Expiries(at), MoveFiring(i, at, expires) PROVE Goal
  <2> DEFINE q == [firing[i] EXCEPT !.next = at, !.fire = at, !.expires = expires, !.manual = FALSE]
  <2>1. firing' = [firing EXCEPT ![i] = q]
    BY <1>6, FiringsAre DEF MoveFiring
  <2>2. /\ firing[i] \in FiringRecord /\ firing[i].status = "queued" /\ at \in Nat /\ expires \in Nat
    BY <1>6, FiringsAre, ScheduleAssumption DEF MoveFiring, Queued, Instants, Expiries,
         NoInstant
  <2>3. /\ q \in FiringRecord /\ q.status = firing[i].status /\ q.begun = firing[i].begun /\ q.fire = at
        /\ q.next = at /\ q.expires = expires
    BY <2>2 DEF FiringRecord
  <2> HIDE DEF q
  <2>4. FiringMove(firing[i], q)
    BY <2>2, <2>3 DEF FiringMove
  <2> QED
    BY <1>6, <2>1, <2>4, MoveOne DEF MoveFiring, Marks
<1>7. ASSUME NEW i \in Firings, StartFiring(i) PROVE Goal
  <2> DEFINE q == [firing[i] EXCEPT !.manual = TRUE, !.next = NoInstant]
  <2>1. firing' = [firing EXCEPT ![i] = q]
    BY <1>7, FiringsAre DEF StartFiring
  <2>2. /\ firing[i] \in FiringRecord /\ firing[i].status = "queued" /\ firing[i].expires \in Expiries(firing[i].fire)
    BY <1>7, FiringsAre DEF StartFiring, Queued, RowsAgree
  <2>3. /\ q \in FiringRecord /\ q.status = firing[i].status /\ q.begun = firing[i].begun /\ q.fire = firing[i].fire
        /\ q.next = NoInstant /\ q.expires = firing[i].expires
    BY <2>2, StartWrites
  <2> HIDE DEF q
  <2>4. FiringMove(firing[i], q)
    BY <2>2, <2>3 DEF FiringMove
  <2> QED
    BY <1>7, <2>1, <2>4, MoveOne DEF StartFiring, Marks
<1>8. ASSUME NEW i \in Firings, DropFiring(i) \/ CancelFiringInput(i) PROVE Goal
  <2>1. firing' = [firing EXCEPT ![i] = [firing[i] EXCEPT !.status = "cancelled"]] /\ markedOn' = markedOn
    BY <1>8, FiringsAre DEF DropFiring, CancelFiringInput
  <2> QED
    BY <2>1, EndedRow, MoveOne DEF Marks
<1>9. CASE CancelSchedule \/ ReconcileCanceled
  BY <1>9, EndScheduleMoves DEF CancelSchedule, ReconcileCanceled, Marks
<1>10. CASE Suspend \/ AnswerRequest \/ SettleRequest \/ Tick \/ UNCHANGED savedVars
  BY <1>0, <1>10 DEF Suspend, AnswerRequest, SettleRequest, Tick, savedVars
<1> QED
  BY <1>1, <1>2, <1>3, <1>4, <1>5, <1>6, <1>7, <1>8, <1>9, <1>10 DEF SavedNext

-----------------------------------------------------------------------------
LEMMA ScheduleInit == SavedInit => ScheduleInv
<1> SUFFICES ASSUME SavedInit PROVE ScheduleInv
  OBVIOUS
<1>1. PICK at \in Instants \ {1} : \E expires \in Expiries(at) : firing = <<Booked(0, at, expires)>>
  BY DEF SavedInit
<1>2. PICK expires \in Expiries(at) : firing = <<Booked(0, at, expires)>>
  BY <1>1
<1>3. at \in Nat /\ expires \in Nat
  BY ScheduleAssumption DEF Instants, Expiries, NoInstant
<1> DEFINE row == Booked(0, at, expires)
<1>4. /\ row \in FiringRecord /\ row.status = "queued" /\ row.fire = at /\ row.next = at
      /\ row.expires = expires
  BY <1>3 DEF Booked, FiringRecord, FiringStates
<1> HIDE DEF row
<1>5. firing = << row >>
  BY <1>2 DEF row
<1>6. firing \in Seq(FiringRecord) /\ Latest = 1 /\ Firings = {1} /\ firing[1] = row
  BY <1>4, <1>5 DEF Latest, Firings
<1>7. SavedTypes
  <2>1. 1 \in 1..MaxFirings /\ now \in Instants /\ byHand \in 0..MaxByHand /\ 0 \in 0..MaxFirings
    BY ScheduleAssumption DEF SavedInit, Instants
  <2> QED
    BY <1>6, <2>1 DEF SavedInit, SavedTypes, NoFiring
<1>8. EndIsFinal
  BY DEF SavedInit, EndIsFinal
<1>9. RowsAgree
  BY <1>4, <1>6 DEF RowsAgree
<1>10. OneWaits
  BY <1>6 DEF OneWaits, Queued
<1> QED
  BY <1>7, <1>8, <1>9, <1>10 DEF ScheduleInv

LEMMA BooksTypes == SavedTypes /\ RowsAgree /\ Books => SavedTypes'
<1> SUFFICES ASSUME SavedTypes, RowsAgree, Books PROVE SavedTypes'
  OBVIOUS
<1>1. firing' \in Seq(FiringRecord) /\ Latest' = Latest + 1
  BY BookedRows
<1>2. Latest' \in 1..MaxFirings
  BY <1>1, FiringsAre, ScheduleAssumption DEF Books, SavedTypes
<1> QED
  BY <1>1, <1>2 DEF SavedTypes, Books, Instants

LEMMA OtherTypes == SavedTypes /\ FiringsMove /\ Marks /\ [SavedNext]_savedVars => SavedTypes'
<1> SUFFICES ASSUME SavedTypes, FiringsMove, Marks, [SavedNext]_savedVars PROVE SavedTypes'
  OBVIOUS
<1>1. firing' \in Seq(FiringRecord) /\ Latest' \in 1..MaxFirings
  BY DEF SavedTypes, FiringsMove
<1>2. markedOn' \in 0..MaxFirings
  BY FiringsAre, ScheduleAssumption DEF SavedTypes, Marks, EndSchedule
<1> DEFINE Goal == /\ now' \in Instants /\ dropped' \subseteq 1..MaxFirings
                   /\ request' \in {"open", "settled", "canceled"} /\ suspended' \in BOOLEAN
                   /\ byHand' \in 0..MaxByHand
<1>3. Goal
  <2>1. CASE PrepareSavedWorkForClaims \/ InspectSavedWork \/ ClaimFiring \/ ReconcileCanceled
             \/ UNCHANGED savedVars
    BY <2>1 DEF SavedTypes, Instants, PrepareSavedWorkForClaims, InspectSavedWork, ClaimFiring,
         ReconcileCanceled, savedVars
  <2>2. ASSUME NEW i \in Firings, NEW status \in {"done", "cancelled"}, FinishFiring(i, status) PROVE Goal
    BY <2>2 DEF SavedTypes, Instants, FinishFiring
  <2>3. ASSUME NEW i \in Firings, RetryFiring(i) \/ CancelFiringInput(i) PROVE Goal
    BY <2>3 DEF SavedTypes, Instants, RetryFiring, CancelFiringInput
  <2>4. ASSUME NEW i \in Firings, DropFiring(i) PROVE Goal
    <3>1. i \in 1..MaxFirings
      BY FiringsAre, ScheduleAssumption DEF SavedTypes
    <3> QED
      BY <2>4, <3>1 DEF SavedTypes, Instants, DropFiring
  <2>5. ASSUME NEW i \in Firings,
               StartFiring(i) \/ \E at \in Instants : \E expires \in Expiries(at) : MoveFiring(i, at, expires)
        PROVE  Goal
    <3>1. byHand < MaxByHand /\ byHand' = byHand + 1 /\ UNCHANGED <<now, dropped, request, suspended>>
      BY <2>5 DEF StartFiring, MoveFiring
    <3> QED
      BY <3>1, ScheduleAssumption DEF SavedTypes, Instants
  <2>6. CASE Suspend \/ AnswerRequest \/ SettleRequest \/ CancelSchedule
    BY <2>6 DEF SavedTypes, Instants, Suspend, AnswerRequest, SettleRequest, CancelSchedule
  <2>7. CASE Tick
    BY <2>7, ScheduleAssumption DEF SavedTypes, Instants, Tick
  <2> QED
    BY <2>1, <2>2, <2>3, <2>4, <2>5, <2>6, <2>7 DEF SavedNext
<1> QED
  BY <1>1, <1>2, <1>3 DEF SavedTypes, Instants

LEMMA ScheduleStep == ScheduleInv /\ [SavedNext]_savedVars => ScheduleInv'
<1> SUFFICES ASSUME ScheduleInv, [SavedNext]_savedVars PROVE ScheduleInv'
  OBVIOUS
<1> USE DEF ScheduleInv
<1>f. Latest \in Nat /\ Latest >= 1 /\ Firings = 1..Latest
  BY FiringsAre
<1>1. CASE Books
  <2>1. /\ Latest' = Latest + 1 /\ Firings' = 1..(Latest + 1)
        /\ \A i \in Firings : FiringMove(firing[i], firing'[i]) /\ firing'[i].begun = firing[i].begun
        /\ firing'[Latest'] = Successor
        /\ firing'[Latest].status = "queued" => ~Overlaps
    BY <1>1, BookedRows
  <2>2. SavedTypes'
    BY <1>1, BooksTypes
  <2>3. EndIsFinal'
    BY <1>1 DEF Books, MayBook, RepeatingScheduleEnded, EndIsFinal
  <2>4. RowsAgree'
    <3> SUFFICES ASSUME NEW i \in Firings'
                 PROVE  /\ firing'[i].status = "running" => firing'[i].begun
                        /\ firing'[i].expires \in Expiries(firing'[i].fire)
                        /\ firing'[i].status = "queued" /\ ~firing'[i].begun
                               => firing'[i].next \in {firing'[i].fire, NoInstant}
      BY DEF RowsAgree, Expiries, NoInstant
    <3>1. CASE i \in Firings
      BY <2>1, <3>1 DEF RowsAgree, FiringMove
    <3>2. CASE i = Latest'
      BY <2>1, <3>2, SuccessorWaits
    <3> QED
      BY <1>f, <2>1, <3>1, <3>2
  <2>5. OneWaits'
    <3> SUFFICES ASSUME NEW i \in Queued' \ {Latest'}, NEW j \in Queued' \ {Latest'},
                        ~firing'[i].begun, ~firing'[j].begun
                 PROVE  i = j
      BY DEF OneWaits
    <3>1. ASSUME NEW k \in Queued' \ {Latest'}, ~firing'[k].begun
          PROVE  k \in Queued /\ ~firing[k].begun /\ k <= Latest /\ k \in Nat
                 /\ (k = Latest => \A m \in InProgress : ~(m < Latest))
      <4>1. k \in Firings /\ firing'[k].status = "queued"
        BY <1>f, <2>1, <3>1 DEF Queued
      <4>2. firing[k].status = "queued" /\ ~firing[k].begun
        BY <2>1, <3>1, <4>1 DEF FiringMove, RowsAgree
      <4> QED
        BY <1>f, <2>1, <4>1, <4>2 DEF Queued, Overlaps
    <3>2. i \in Queued /\ j \in Queued /\ ~firing[i].begun /\ ~firing[j].begun
      BY <3>1
    <3>3. CASE i # Latest /\ j # Latest
      BY <3>2, <3>3 DEF OneWaits
    <3>4. CASE i = Latest /\ j # Latest
      BY <3>1, <3>2, <3>4, <1>f DEF InProgress, Queued
    <3>5. CASE j = Latest /\ i # Latest
      BY <3>1, <3>2, <3>5, <1>f DEF InProgress, Queued
    <3> QED
      BY <3>3, <3>4, <3>5
  <2> QED
    BY <2>2, <2>3, <2>4, <2>5
<1>2. CASE FiringsMove /\ Marks
  <2>1. SavedTypes'
    BY <1>2, OtherTypes
  <2>2. Latest' = Latest /\ Firings' = Firings /\ \A i \in Firings : FiringMove(firing[i], firing'[i])
    <3>1. Firings' = 1..Latest'
      BY <1>2, FunctionOf DEF FiringsMove, Firings, Latest
    <3> QED
      BY <1>2, <1>f, <3>1 DEF FiringsMove
  <2>3. EndIsFinal'
    <3>1. CASE markedOn' = markedOn
      BY <2>2, <3>1 DEF EndIsFinal, Queued, FiringMove, RowsAgree
    <3>2. CASE EndSchedule /\ \A i \in Firings : firing'[i].status # "queued"
      BY <2>2, <3>2 DEF EndIsFinal, Queued, EndSchedule
    <3> QED
      BY <1>2, <3>1, <3>2 DEF Marks
  <2>4. RowsAgree'
    <3> SUFFICES ASSUME NEW i \in Firings
                 PROVE  /\ firing'[i].status = "running" => firing'[i].begun
                        /\ firing'[i].expires \in Expiries(firing'[i].fire)
                        /\ firing'[i].status = "queued" /\ ~firing'[i].begun
                               => firing'[i].next \in {firing'[i].fire, NoInstant}
      BY <2>2 DEF RowsAgree, Expiries, NoInstant
    <3> QED
      BY <2>2 DEF RowsAgree, FiringMove
  <2>5. OneWaits'
    BY <2>2 DEF OneWaits, Queued, FiringMove, RowsAgree
  <2> QED
    BY <2>1, <2>3, <2>4, <2>5
<1> QED
  BY <1>1, <1>2, Operations

\* The variables of a repeating schedule keep their types.
THEOREM ScheduleTypeCorrect == SavedSpec => []SavedTypeOK
<1>1. ScheduleInv => SavedTypeOK
  <2> SUFFICES ASSUME ScheduleInv PROVE SavedTypeOK
    OBVIOUS
  <2>1. \A i \in Firings : firing[i] \in FiringRecord
    BY FiringsAre DEF ScheduleInv
  <2>2. \A i \in Firings :
           /\ firing[i].status \in {"queued", "running", "done", "error", "cancelled"}
           /\ {firing[i].seq, firing[i].fire, firing[i].next, firing[i].expires} \subseteq Nat
           /\ {firing[i].manual, firing[i].begun} \subseteq BOOLEAN
    <3> TAKE i \in Firings
    <3>1. firing[i] \in FiringRecord
      BY <2>1
    <3> QED
      BY <3>1 DEF FiringRecord, FiringStates
  <2> QED
    BY <2>2 DEF ScheduleInv, SavedTypes, SavedTypeOK
<1> QED
  BY <1>1, ScheduleInit, ScheduleStep, PTL DEF SavedSpec

\* However a repeating schedule was ended and wherever its firings were, no later one is booked, and
\* after a cancel none begins that had not begun (saved-work.ts, repeatingScheduleEnded).
THEOREM EndedScheduleIsFinal == SavedSpec => EndedStaysEnded
<1>1. ScheduleInv /\ [SavedNext]_savedVars =>
          [/\ ScheduleEnded => ScheduleEnded' /\ Latest' = Latest
           /\ markedOn # NoFiring => \A i \in Firings : firing[i].begun = firing'[i].begun]_savedVars
  <2> SUFFICES ASSUME ScheduleInv, [SavedNext]_savedVars
               PROVE  /\ ScheduleEnded => ScheduleEnded' /\ Latest' = Latest
                      /\ markedOn # NoFiring => \A i \in Firings : firing[i].begun = firing'[i].begun
    OBVIOUS
  <2>1. CASE Books
    BY <2>1 DEF Books, MayBook, RepeatingScheduleEnded, ScheduleEnded, ScheduleInv, EndIsFinal
  <2>2. CASE FiringsMove /\ Marks
    <3>1. Latest' = Latest /\ \A i \in Firings : FiringMove(firing[i], firing'[i])
      BY <2>2 DEF FiringsMove
    <3>2. markedOn # NoFiring => markedOn' # NoFiring
      BY <2>2 DEF Marks, EndSchedule
    <3>3. request = "canceled" => request' = "canceled"
      BY DEF SavedNext, PrepareSavedWorkForClaims, InspectSavedWork, ClaimFiring, FinishFiring,
           RetryFiring,
             StartFiring, DropFiring, CancelFiringInput, MoveFiring, Suspend, AnswerRequest, SettleRequest,
             CancelSchedule, ReconcileCanceled, Tick, savedVars
    <3>4. dropped \subseteq dropped'
      BY DEF SavedNext, PrepareSavedWorkForClaims, InspectSavedWork, ClaimFiring, FinishFiring,
           RetryFiring,
             StartFiring, DropFiring, CancelFiringInput, MoveFiring, Suspend, AnswerRequest, SettleRequest,
             CancelSchedule, ReconcileCanceled, Tick, savedVars
    <3>5. markedOn # NoFiring => \A i \in Firings : firing[i].begun = firing'[i].begun
      <4>1. \A i \in Firings : {firing[i].begun, firing'[i].begun} \subseteq BOOLEAN
        BY <3>1, FiringsAre, FiringFields DEF FiringMove, ScheduleInv
      <4> QED
        BY <3>1, <4>1 DEF FiringMove, ScheduleInv, EndIsFinal, Queued
    <3> QED
      BY <3>1, <3>2, <3>3, <3>4, <3>5 DEF ScheduleEnded
  <2> QED
    BY <2>1, <2>2, Operations DEF ScheduleInv
<1> QED
  BY <1>1, ScheduleInit, ScheduleStep, PTL DEF SavedSpec, EndedStaysEnded

LEMMA AtMostOne ==
    ASSUME NEW S, \A i, j \in S : i = j
    PROVE  Cardinality(S) <= 1
<1>1. CASE S = {}
  BY <1>1, FS_EmptySet
<1>2. CASE S # {}
  <2>1. PICK x \in S : S = {x}
    BY <1>2
  <2>2. Cardinality({x}) = 1
    BY FS_Singleton
  <2> QED
    BY <2>1, <2>2
<1> QED
  BY <1>1, <1>2

\* A pass over a schedule that was not ended leaves its latest firing waiting for an instant to come,
\* whatever claims, moves, drops and pauses went before, and at most one other that has not begun
\* (saved-work.ts, prepareSavedWorkForClaims).
THEOREM PassLeavesOneAhead == SavedSpec => OneFiringAhead
<1> DEFINE Waits == \/ Latest' \in Queued' /\ firing'[Latest'].next > now
                    \/ Latest \in Queued /\ firing[Latest].begun /\ firing'[Latest].status = "error"
           Behind == {i \in Queued' : i # Latest' /\ ~firing'[i].begun}
<1>1. ASSUME ScheduleInv, ScheduleInv', PrepareSavedWorkForClaims, ~ScheduleEnded, ~suspended PROVE Waits
  <2> USE <1>1 DEF ScheduleInv
  <2>f. Latest \in Firings /\ Latest \in Nat /\ Latest >= 1 /\ firing[Latest] \in FiringRecord
    BY FiringsAre
  <2>1. MayBook /\ ~RepeatingScheduleEnded(Latest)
    BY <2>f DEF MayBook, RepeatingScheduleEnded, ScheduleEnded, NoFiring
  <2>2. CASE Books
    <3>1. Latest' \in Firings' /\ firing'[Latest'] = Successor
      BY <2>2, <2>f, BookedRows
    <3> QED
      BY <3>1, SuccessorWaits DEF Queued
  <2>3. CASE ~DueForAdvance /\ \E held \in BOOLEAN : firing' = Missed(firing, held)
    <3>1. PICK held \in BOOLEAN : firing' = Missed(firing, held)
      BY <2>3
    <3>2. firing[Latest].status = "queued" /\ ~(firing[Latest].next <= now)
      BY <2>3 DEF DueForAdvance
    <3>3. firing[Latest].next > now
      <4>1. firing[Latest].next \in Nat /\ now \in Nat
        BY <2>f, FiringFields, ScheduleAssumption DEF SavedTypes, Instants
      <4> QED
        BY <3>2, <4>1
    <3>4. /\ \/ firing'[Latest] = firing[Latest]
             \/ /\ firing'[Latest] = [firing[Latest] EXCEPT !.status = "error"]
                /\ firing[Latest].expires # NoInstant /\ firing[Latest].expires <= now
          /\ Len(firing') = Latest /\ Firings' = Firings
      <4>1. firing \in [1..Latest -> FiringRecord] /\ Firings = 1..Latest
        BY FiringsAre
      <4>2. firing' \in [1..Latest -> FiringRecord]
        BY <2>f, <3>1, <4>1, MissedRows
      <4> QED
        <5>1. Len(firing') = Latest /\ Firings' = Firings
          BY <2>f, <4>1, <4>2, SequenceOf DEF Firings
        <5>2. Latest \in 1..Latest
          BY <2>f
        <5>3. \A i \in 1..Latest :
                  \/ firing'[i] = firing[i]
                  \/ /\ firing'[i] = [firing[i] EXCEPT !.status = "error"]
                     /\ firing[i].expires # NoInstant /\ firing[i].expires <= now
          BY <2>f, <3>1, <4>1, MissedRows
        <5> QED
          BY <5>1, <5>2, <5>3
    <3>5. CASE firing'[Latest] = firing[Latest]
      BY <2>f, <3>2, <3>3, <3>4, <3>5 DEF Latest, Queued
    <3>6. CASE /\ firing'[Latest] = [firing[Latest] EXCEPT !.status = "error"]
               /\ firing[Latest].expires # NoInstant /\ firing[Latest].expires <= now
      <4>1. firing'[Latest].status = "error"
        BY <2>f, <3>6, FiringFields DEF FiringStates
      <4>2. firing[Latest].begun
        <5> SUFFICES ASSUME ~firing[Latest].begun PROVE FALSE
          OBVIOUS
        <5>1. firing[Latest].fire \in Nat /\ now \in Nat /\ now >= 1 /\ Lasts \in Nat \ {0}
          BY <2>f, FiringFields, ScheduleAssumption DEF SavedTypes, Instants
        <5>2. firing[Latest].next = firing[Latest].fire
          BY <2>f, <3>2, <3>3, <5>1 DEF RowsAgree, NoInstant
        <5>3. firing[Latest].expires = firing[Latest].fire + Lasts
          BY <2>f, <3>6 DEF RowsAgree, Expiries
        <5> QED
          BY <3>3, <3>6, <5>1, <5>2, <5>3
      <4> QED
        BY <2>f, <3>2, <4>1, <4>2 DEF Queued
    <3> QED
      BY <3>4, <3>5, <3>6
  <2> QED
    BY <2>1, <2>2, <2>3 DEF PrepareSavedWorkForClaims, Books
<1>2. ASSUME ScheduleInv' PROVE Cardinality(Behind) <= 1
  <2>1. \A i, j \in Behind : i = j
    BY <1>2 DEF ScheduleInv, OneWaits
  <2> HIDE DEF Behind
  <2> QED
    BY <2>1, AtMostOne
<1>3. ScheduleInv /\ ScheduleInv' /\ [SavedNext]_savedVars =>
          [PrepareSavedWorkForClaims /\ ~ScheduleEnded /\ ~suspended =>
               Waits /\ Cardinality(Behind) <= 1]_savedVars
  BY <1>1, <1>2
<1> QED
  BY <1>3, ScheduleInit, ScheduleStep, PTL DEF SavedSpec, OneFiringAhead

=============================================================================
