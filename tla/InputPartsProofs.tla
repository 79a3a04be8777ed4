--------------------------- MODULE InputPartsProofs ---------------------------
(* Proofs about the parts that take inputs in and try again: the queue of     *)
(* captures, steering, the retry breaker and the commands of a person, for    *)
(* every value of their constants.                                            *)
EXTENDS CaptureQueue, Steering, RetryBreaker, HumanCommands, FiniteSetTheorems, WellFoundedInduction, TLAPS

-----------------------------------------------------------------------------
(* Proofs about the queue of captures: a capture that is being delivered is   *)
(* held, and a closed gate is quiet, for any number of captures, claims and   *)
(* processes and whatever requests are repeated, delayed or lost.             *)

RowStatus == {"absent", "pending", "sending", "delivered", "parked"}
CaptureRow == [status : RowStatus, claim : Nat, owner : Nat]
WorkerRow == [process : Nat, phase : {"down", "idle", "claim", "deliver", "settle", "stopping"},
              claim : Nat, event : SUBSET Captures, verdict : {"none", "delivered", "retry", "park"}]
GateRow == [mode : {"none", "live", "held"}, alive : BOOLEAN]
ClaimRequest == [kind : {"claim"}, claim : Nat, process : Nat]
VerdictRequest == [kind : {"verdict"}, claim : Nat, process : Nat, event : Captures,
                   verdict : {"delivered", "retry", "park"}]

CapturesType == captureRow \in [Captures -> CaptureRow]
WorkerType == worker \in WorkerRow
GateType == gate \in GateRow
ClaimsType == claims \in Nat /\ requests \subseteq ClaimRequest \cup VerdictRequest

(* Claims are named once: a request that has the worker's claim was sent by   *)
(* its process, and carries the verdict that the worker is settling.          *)
ClaimsBound == worker.claim <= claims /\ \A r \in requests : r.claim <= claims

OwnClaim ==
    worker.phase \in {"claim", "deliver", "settle"} =>
        \A r \in requests : r.claim = worker.claim =>
            /\ r.process = worker.process
            /\ r.kind = "verdict" => worker.phase = "settle" /\ r.verdict = worker.verdict

(* HeldWhileDelivering for one capture.                                       *)
ClaimIsHeld(e) == captureRow[e].claim = worker.claim /\ captureRow[e].owner = worker.process

HeldOne(e) ==
    /\ worker.phase = "deliver" => ClaimIsHeld(e) /\ captureRow[e].status = "sending"
    /\ worker.phase = "settle" /\ worker.verdict # "retry" =>
           ClaimIsHeld(e) /\ captureRow[e].status \in {"sending", StatusOf(worker.verdict)}

CaptureTypes == CapturesType /\ WorkerType /\ GateType /\ ClaimsType

CaptureInv ==
    /\ CapturesType /\ WorkerType /\ GateType /\ ClaimsType
    /\ ClaimsBound /\ OwnClaim /\ HeldWhileDelivering /\ DrainedIsQuiet

-----------------------------------------------------------------------------
LEMMA HeldByParts == HeldWhileDelivering <=> \A e \in worker.event : HeldOne(e)
BY DEF HeldWhileDelivering, HeldOne, ClaimIsHeld

(* Recovery leaves the rows of a living process alone, and makes none sent.   *)
LEMMA CaptureRecoveryKeeps ==
    ASSUME CapturesType
    PROVE  /\ Recovered \in [Captures -> CaptureRow] /\ DrainRecovered \in [Captures -> CaptureRow]
           /\ \A e \in Captures :
                 /\ ~Interrupted(e) => Recovered[e] = captureRow[e] /\ DrainRecovered[e] = captureRow[e]
                 /\ Recovered[e].status = "sending" => captureRow[e].status = "sending"
                 /\ DrainRecovered[e].status = "sending" => captureRow[e].status = "sending"
<1>1. ASSUME NEW e \in Captures
      PROVE  /\ (IF ~Interrupted(e) THEN captureRow[e]
                 ELSE [status |-> IF e \in InspectOnly THEN "parked" ELSE "pending",
                       claim |-> Nobody, owner |-> Nobody]) \in CaptureRow
             /\ (IF ~Interrupted(e) THEN captureRow[e]
                 ELSE [captureRow[e] EXCEPT !.status = "pending", !.owner = Nobody]) \in CaptureRow
  BY DEF CapturesType, CaptureRow, RowStatus, Nobody
<1>2. Recovered \in [Captures -> CaptureRow]
  BY <1>1, Zenon DEF Recovered
<1>3. DrainRecovered \in [Captures -> CaptureRow]
  BY <1>1, Zenon DEF DrainRecovered
<1>4. ASSUME NEW e \in Captures
      PROVE  /\ ~Interrupted(e) => Recovered[e] = captureRow[e] /\ DrainRecovered[e] = captureRow[e]
             /\ Recovered[e].status = "sending" => captureRow[e].status = "sending"
             /\ DrainRecovered[e].status = "sending" => captureRow[e].status = "sending"
  BY DEF CapturesType, CaptureRow, Recovered, DrainRecovered, Interrupted
<1> QED BY <1>2, <1>3, <1>4

(* The capture in a worker's hands is not taken by a recovery.                *)
LEMMA InHandAlive ==
    ASSUME NEW e \in worker.event, HeldOne(e),
           worker.phase = "deliver" \/ (worker.phase = "settle" /\ worker.verdict # "retry")
    PROVE  ~Interrupted(e)
BY DEF HeldOne, ClaimIsHeld, Interrupted, OwnerAlive

(* An answer is lost, or leaves the worker with what its claim got.           *)
LEMMA AnswerGives ==
    ASSUME WorkerType, NEW request, NEW event \in SUBSET Captures, Answer(request, event)
    PROVE  \/ worker' = worker
           \/ /\ worker.phase = "claim" /\ worker.claim = request.claim /\ worker' \in WorkerRow
              /\ worker'.process = worker.process /\ worker'.claim = worker.claim
              /\ worker'.event = event /\ worker'.verdict = worker.verdict
              /\ worker'.phase \in {"idle", "deliver"}
BY DEF Answer, WorkerType, WorkerRow

(* The invariant of one step follows for a worker that stays as it is from    *)
(* what the step does to the captures in its hands.                           *)
LEMMA SameWorker ==
    ASSUME CaptureInv, worker' = worker, CapturesType', GateType', requests' = requests, claims' = claims,
           DrainedIsQuiet',
           \A e \in worker.event : HeldOne(e)'
    PROVE  CaptureInv'
<1>1. WorkerType' /\ ClaimsType' /\ ClaimsBound' /\ OwnClaim'
  BY DEF CaptureInv, WorkerType, ClaimsType, ClaimsBound, OwnClaim
<1>2. HeldWhileDelivering'
  BY DEF HeldWhileDelivering, HeldOne, ClaimIsHeld
<1> QED BY <1>1, <1>2 DEF CaptureInv

(* A worker whose hands are empty, or that has given up what they held.       *)
LEMMA EmptyHands ==
    ASSUME CaptureInv, WorkerType', worker'.phase \in {"down", "idle", "stopping"}, worker'.claim = worker.claim,
           CapturesType', GateType', requests' = requests, claims' = claims, DrainedIsQuiet'
    PROVE  CaptureInv'
BY DEF CaptureInv, ClaimsType, ClaimsBound, OwnClaim, HeldWhileDelivering

-----------------------------------------------------------------------------
LEMMA AcceptKeeps ==
    ASSUME CaptureInv, NEW e \in Captures, Accept(e)
    PROVE  CaptureInv'
<1>1. captureRow' = [captureRow EXCEPT ![e].status = "pending"] /\ captureRow[e].status = "absent"
      /\ worker' = worker /\ requests' = requests /\ claims' = claims /\ gate' = gate
  BY DEF Accept
<1>2. CapturesType' BY <1>1 DEF CaptureInv, CapturesType, CaptureRow, RowStatus
<1>3. GateType' BY <1>1 DEF CaptureInv, GateType
<1>4. DrainedIsQuiet'
  BY <1>1 DEF CaptureInv, DrainedIsQuiet, Quiet, CapturesType
<1>5. ASSUME NEW f \in worker.event
      PROVE  HeldOne(f)'
  <2>1. HeldOne(f) /\ f \in Captures BY HeldByParts DEF CaptureInv, WorkerType, WorkerRow
  <2>2. CASE f # e
    <3>1. captureRow'[f] = captureRow[f] BY <1>1, <2>1, <2>2 DEF CaptureInv, CapturesType
    <3> QED BY <1>1, <2>1, <3>1 DEF HeldOne, ClaimIsHeld
  <2>3. CASE f = e
    <3>1. StatusOf(worker.verdict) # "absent" BY DEF StatusOf
    <3> QED BY <1>1, <2>1, <2>3, <3>1 DEF HeldOne
  <2> QED BY <2>2, <2>3
<1> QED BY <1>1, <1>2, <1>3, <1>4, <1>5, SameWorker

LEMMA ServeClaimKeeps ==
    ASSUME CaptureInv, NEW request \in requests, ServeClaim(request)
    PROVE  CaptureInv'
<1> DEFINE mine == ClaimedBy(request, Recovered)
           free == Claimable(Recovered)
           Given(e) == [Recovered EXCEPT ![e] =
                           [status |-> "sending", claim |-> request.claim, owner |-> request.process]]
<1>1. /\ requests' = requests /\ claims' = claims /\ gate' = gate
      /\ request.kind = "claim" /\ request \in ClaimRequest
  BY DEF ServeClaim, CaptureInv, ClaimsType, ClaimRequest, VerdictRequest
<1>2. CapturesType /\ WorkerType BY DEF CaptureInv
<1>3. mine \subseteq Captures /\ free \subseteq Captures BY DEF ClaimedBy, Claimable
<1>4. GateType' BY <1>1 DEF CaptureInv, GateType
<1>5. \A e \in worker.event : e \in Captures /\ HeldOne(e)
  BY HeldByParts DEF CaptureInv, WorkerType, WorkerRow
<1>6. ASSUME worker' # worker, NEW event \in SUBSET Captures, Answer(request, event), CapturesType', DrainedIsQuiet',
             \A e \in event : /\ captureRow'[e].status = "sending" /\ captureRow'[e].claim = request.claim
                              /\ captureRow'[e].owner = request.process
      PROVE  CaptureInv'
  <2>1. /\ worker.phase = "claim" /\ worker.claim = request.claim /\ worker' \in WorkerRow
        /\ worker'.process = worker.process /\ worker'.claim = worker.claim
        /\ worker'.event = event /\ worker'.phase \in {"idle", "deliver"}
    BY <1>2, <1>6, AnswerGives
  <2>2. request.process = worker.process /\ \A r \in requests : r.claim = worker.claim =>
            r.process = worker.process /\ r.kind # "verdict"
    BY <2>1 DEF CaptureInv, OwnClaim
  <2>3. WorkerType' /\ ClaimsType' /\ ClaimsBound'
    BY <1>1, <2>1 DEF CaptureInv, WorkerType, ClaimsType, ClaimsBound
  <2>4. OwnClaim' BY <1>1, <2>1, <2>2 DEF OwnClaim
  <2>5. HeldWhileDelivering' BY <1>6, <2>1, <2>2 DEF HeldWhileDelivering
  <2> QED BY <1>4, <1>6, <2>3, <2>4, <2>5 DEF CaptureInv
<1>7. CASE captureRow' = Recovered /\ Answer(request, mine)
  <2>1. CapturesType' BY <1>2, <1>7, CaptureRecoveryKeeps DEF CapturesType
  <2>2. DrainedIsQuiet' BY <1>1, <1>2, <1>7, CaptureRecoveryKeeps DEF CaptureInv, DrainedIsQuiet, Quiet
  <2>3. CASE worker' = worker
    <3>1. ASSUME NEW e \in worker.event PROVE HeldOne(e)'
      BY <1>2, <1>5, <1>7, <2>3, <3>1, CaptureRecoveryKeeps, InHandAlive DEF HeldOne, ClaimIsHeld
    <3> QED BY <1>1, <1>4, <2>1, <2>2, <2>3, <3>1, SameWorker
  <2>4. CASE worker' # worker
    BY <1>3, <1>6, <1>7, <2>1, <2>2, <2>4 DEF ClaimedBy
  <2> QED BY <2>3, <2>4
<1>8. ASSUME NEW e \in free, captureRow' = Given(e), Answer(request, {e})
      PROVE  CaptureInv'
  <2>1. [status |-> "sending", claim |-> request.claim, owner |-> request.process] \in CaptureRow
    BY <1>1 DEF ClaimRequest, CaptureRow, RowStatus
  <2>2. CapturesType' BY <1>2, <1>8, <2>1, CaptureRecoveryKeeps DEF CapturesType
  <2>3. gate.mode = "none" /\ Recovered[e].status = "pending" /\ e \in Captures
    BY <1>8 DEF Claimable
  <2>4. DrainedIsQuiet' BY <1>1, <2>3 DEF DrainedIsQuiet
  <2>5. /\ captureRow'[e] = [status |-> "sending", claim |-> request.claim, owner |-> request.process]
        /\ \A f \in Captures \ {e} : captureRow'[f] = Recovered[f]
    BY <1>2, <1>8, <2>3, CaptureRecoveryKeeps
  <2>6. CASE worker' = worker
    <3>1. ASSUME NEW f \in worker.event PROVE HeldOne(f)'
      <4>1. CASE ~(worker.phase = "deliver" \/ (worker.phase = "settle" /\ worker.verdict # "retry"))
        BY <2>6, <4>1 DEF HeldOne
      <4>2. CASE worker.phase = "deliver" \/ (worker.phase = "settle" /\ worker.verdict # "retry")
        <5>1. ~Interrupted(f) /\ f \in Captures BY <1>5, <3>1, <4>2, InHandAlive
        <5>2. Recovered[f] = captureRow[f] BY <1>2, <5>1, CaptureRecoveryKeeps
        <5>3. captureRow[f].status # "pending"
          BY <1>2, <1>5, <3>1, <4>2 DEF HeldOne, StatusOf, WorkerType, WorkerRow
        <5>4. captureRow'[f] = captureRow[f] BY <2>3, <2>5, <5>1, <5>2, <5>3
        <5> QED BY <1>5, <2>6, <3>1, <5>4 DEF HeldOne, ClaimIsHeld
      <4> QED BY <4>1, <4>2
    <3> QED BY <1>1, <1>4, <2>2, <2>4, <2>6, <3>1, SameWorker
  <2>7. CASE worker' # worker
    BY <1>6, <1>8, <2>2, <2>3, <2>4, <2>5, <2>7
  <2> QED BY <2>6, <2>7
<1> QED BY <1>7, <1>8 DEF ServeClaim

LEMMA ServeVerdictKeeps ==
    ASSUME CaptureInv, NEW request \in requests, ServeVerdict(request)
    PROVE  CaptureInv'
<1> DEFINE e == request.event
           target == StatusOf(request.verdict)
           settles == captureRow[e].status \in {"sending", target} /\ SameClaim(captureRow[e], request)
<1>1. /\ requests' = requests /\ claims' = claims /\ gate' = gate
      /\ request.kind = "verdict" /\ request \in VerdictRequest
  BY DEF ServeVerdict, CaptureInv, ClaimsType, ClaimRequest, VerdictRequest
<1>2. CapturesType /\ WorkerType /\ GateType BY DEF CaptureInv
<1>3. e \in Captures /\ target \in {"delivered", "pending", "parked"}
  BY <1>1 DEF VerdictRequest, StatusOf
<1>4. /\ settles => captureRow' = [captureRow EXCEPT ![e].status = target]
      /\ ~settles => captureRow' = captureRow
      /\ \/ worker' = worker
         \/ worker' = [worker EXCEPT !.phase = "idle", !.event = {}, !.verdict = "none"]
         \/ worker' = [worker EXCEPT !.phase = "stopping"]
  BY DEF ServeVerdict
<1> HIDE DEF target
<1>5. CapturesType' BY <1>2, <1>3, <1>4 DEF CapturesType, CaptureRow, RowStatus
<1>6. GateType' BY <1>1, <1>2 DEF GateType
<1>7. DrainedIsQuiet'
  BY <1>1, <1>2, <1>3, <1>4 DEF CaptureInv, DrainedIsQuiet, Quiet, CapturesType, CaptureRow
<1>8. CASE worker' = worker
  <2>1. ASSUME NEW f \in worker.event PROVE HeldOne(f)'
    <3>1. f \in Captures /\ HeldOne(f) BY <2>1, HeldByParts DEF CaptureInv, WorkerType, WorkerRow
    <3>2. CASE captureRow'[f] = captureRow[f] BY <1>8, <3>1, <3>2 DEF HeldOne, ClaimIsHeld
    <3>3. CASE f = e /\ settles
      <4>1. /\ captureRow'[f].status = target /\ captureRow'[f].claim = captureRow[f].claim
            /\ captureRow'[f].owner = captureRow[f].owner
        BY <1>2, <1>3, <1>4, <3>3 DEF CapturesType, CaptureRow
      <4>2. request.claim = captureRow[f].claim BY <3>3 DEF SameClaim
      <4>3. ClaimIsHeld(f) /\ worker.phase \in {"deliver", "settle"} =>
                worker.phase = "settle" /\ request.verdict = worker.verdict
        BY <1>1, <4>2 DEF ClaimIsHeld, CaptureInv, OwnClaim
      <4> QED BY <1>8, <3>1, <4>1, <4>3 DEF HeldOne, ClaimIsHeld, target
    <3> QED BY <1>2, <1>3, <1>4, <3>1, <3>2, <3>3 DEF CapturesType
  <2> QED BY <1>1, <1>5, <1>6, <1>7, <1>8, <2>1, SameWorker
<1>9. CASE worker' = [worker EXCEPT !.phase = "idle", !.event = {}, !.verdict = "none"]
  <2>1. WorkerType' /\ worker'.phase = "idle" /\ worker'.claim = worker.claim
    BY <1>2, <1>9 DEF WorkerType, WorkerRow
  <2> QED BY <1>1, <1>5, <1>6, <1>7, <2>1, EmptyHands
<1>10. CASE worker' = [worker EXCEPT !.phase = "stopping"]
  <2>1. WorkerType' /\ worker'.phase = "stopping" /\ worker'.claim = worker.claim
    BY <1>2, <1>10 DEF WorkerType, WorkerRow
  <2> QED BY <1>1, <1>5, <1>6, <1>7, <2>1, EmptyHands
<1> QED BY <1>4, <1>8, <1>9, <1>10

LEMMA NameClaimKeeps ==
    ASSUME CaptureInv, NameClaim
    PROVE  CaptureInv'
<1>1. /\ claims' = claims + 1 /\ captureRow' = captureRow /\ gate' = gate
      /\ worker' = [worker EXCEPT !.phase = "claim", !.claim = claims', !.event = {}, !.verdict = "none"]
      /\ requests' = requests \cup {[kind |-> "claim", claim |-> claims', process |-> worker.process]}
  BY DEF NameClaim
<1>2. claims \in Nat /\ claims' \in Nat /\ WorkerType /\ ClaimsBound /\ requests \subseteq ClaimRequest \cup VerdictRequest
  BY <1>1 DEF CaptureInv, ClaimsType
<1>3. WorkerType' BY <1>1, <1>2 DEF WorkerType, WorkerRow
<1>4. worker'.phase = "claim" /\ worker'.claim = claims' /\ worker'.process = worker.process
  BY <1>1, <1>2 DEF WorkerType, WorkerRow
<1>5. [kind |-> "claim", claim |-> claims', process |-> worker.process] \in ClaimRequest
  BY <1>2 DEF ClaimRequest, WorkerType, WorkerRow
<1>6. ClaimsType' BY <1>1, <1>2, <1>5 DEF ClaimsType
<1>7. ASSUME NEW r \in requests PROVE r.claim \in Nat /\ r.claim <= claims
  BY <1>2, <1>7 DEF ClaimsBound, ClaimRequest, VerdictRequest
<1>8. \A r \in requests : r.claim <= claims' /\ r.claim # claims' BY <1>1, <1>2, <1>7
<1>9. ClaimsBound' BY <1>1, <1>2, <1>4, <1>8 DEF ClaimsBound
<1>10. OwnClaim' BY <1>1, <1>4, <1>8 DEF OwnClaim
<1>11. HeldWhileDelivering' BY <1>4 DEF HeldWhileDelivering
<1>12. CapturesType' /\ GateType' /\ DrainedIsQuiet'
  BY <1>1 DEF CaptureInv, CapturesType, GateType, DrainedIsQuiet
<1> QED BY <1>3, <1>6, <1>9, <1>10, <1>11, <1>12 DEF CaptureInv

LEMMA DeliverKeeps ==
    ASSUME CaptureInv, NEW e \in Captures, Deliver(e)
    PROVE  CaptureInv'
<1>1. PICK verdict \in {"delivered", "retry", "park"} :
        /\ worker' = [worker EXCEPT !.phase = "settle", !.verdict = verdict]
        /\ requests' = requests \cup {[kind |-> "verdict", claim |-> worker.claim, process |-> worker.process,
                                       event |-> e, verdict |-> verdict]}
  BY DEF Deliver
<1>2. /\ worker.phase = "deliver" /\ captureRow' = captureRow /\ claims' = claims /\ gate' = gate
  BY DEF Deliver
<1>3. WorkerType /\ ClaimsType /\ ClaimsBound /\ OwnClaim /\ HeldWhileDelivering BY DEF CaptureInv
<1>4. WorkerType' BY <1>1, <1>3 DEF WorkerType, WorkerRow
<1>5. /\ worker'.phase = "settle" /\ worker'.verdict = verdict /\ worker'.claim = worker.claim
      /\ worker'.process = worker.process /\ worker'.event = worker.event
  BY <1>1, <1>3 DEF WorkerType, WorkerRow
<1>6. [kind |-> "verdict", claim |-> worker.claim, process |-> worker.process, event |-> e, verdict |-> verdict]
        \in VerdictRequest
  BY <1>3 DEF VerdictRequest, WorkerType, WorkerRow
<1>7. ClaimsType' BY <1>1, <1>2, <1>3, <1>6 DEF ClaimsType
<1>8. ClaimsBound' BY <1>1, <1>2, <1>3, <1>5 DEF ClaimsBound
<1>9. OwnClaim' BY <1>1, <1>2, <1>3, <1>5 DEF OwnClaim
<1>10. HeldWhileDelivering' BY <1>2, <1>3, <1>5 DEF HeldWhileDelivering
<1>11. CapturesType' /\ GateType' /\ DrainedIsQuiet'
  BY <1>2 DEF CaptureInv, CapturesType, GateType, DrainedIsQuiet
<1> QED BY <1>4, <1>7, <1>8, <1>9, <1>10, <1>11 DEF CaptureInv

(* The loop's ends, and the start of the next process.                        *)
LEMMA LoopKeeps ==
    ASSUME CaptureInv, Fatal \/ QueueUnavailable \/ Exit \/ Start
    PROVE  CaptureInv'
<1>1. /\ captureRow' = captureRow /\ requests' = requests /\ claims' = claims /\ gate' = gate
      /\ \/ worker' = [worker EXCEPT !.phase = "stopping"]
         \/ worker' = [worker EXCEPT !.phase = "idle", !.event = {}, !.verdict = "none"]
         \/ worker' = [worker EXCEPT !.phase = "down", !.event = {}, !.verdict = "none"]
         \/ worker' = [worker EXCEPT !.process = @ + 1, !.phase = "idle"]
  BY DEF Fatal, QueueUnavailable, Exit, Start
<1>2. WorkerType BY DEF CaptureInv
<1>3. /\ WorkerType' /\ worker'.phase \in {"down", "idle", "stopping"} /\ worker'.claim = worker.claim
  <2>1. CASE worker' = [worker EXCEPT !.phase = "stopping"]
    BY <1>2, <2>1 DEF WorkerType, WorkerRow
  <2>2. CASE worker' = [worker EXCEPT !.phase = "idle", !.event = {}, !.verdict = "none"]
    BY <1>2, <2>2 DEF WorkerType, WorkerRow
  <2>3. CASE worker' = [worker EXCEPT !.phase = "down", !.event = {}, !.verdict = "none"]
    BY <1>2, <2>3 DEF WorkerType, WorkerRow
  <2>4. CASE worker' = [worker EXCEPT !.process = @ + 1, !.phase = "idle"]
    <3> DEFINE next == worker.process + 1
    <3>1. next \in Nat BY <1>2 DEF WorkerType, WorkerRow
    <3>2. worker' = [worker EXCEPT !.process = next, !.phase = "idle"] BY <2>4
    <3> HIDE DEF next
    <3> QED BY <1>2, <3>1, <3>2 DEF WorkerType, WorkerRow
  <2> QED BY <1>1, <2>1, <2>2, <2>3, <2>4
<1>4. CapturesType' /\ GateType' /\ DrainedIsQuiet'
  BY <1>1 DEF CaptureInv, CapturesType, GateType, DrainedIsQuiet
<1> QED BY <1>1, <1>3, <1>4, EmptyHands

(* The gate: it closes only over a quiet queue.                               *)
LEMMA ClaimGateKeeps ==
    ASSUME CaptureInv, ClaimGate
    PROVE  CaptureInv'
<1> DEFINE cleared == IF StaleGate THEN [mode |-> "none", alive |-> FALSE] ELSE gate
           granted == Quiet(DrainRecovered) /\ (cleared.mode = "none" \/ (cleared.mode = "held" /\ ~cleared.alive))
<1>1. /\ captureRow' = DrainRecovered /\ worker' = worker /\ requests' = requests /\ claims' = claims
      /\ gate' = IF granted THEN [mode |-> "live", alive |-> TRUE] ELSE cleared
  BY DEF ClaimGate
<1>2. CapturesType /\ GateType BY DEF CaptureInv
<1>3. CapturesType' BY <1>1, <1>2, CaptureRecoveryKeeps DEF CapturesType
<1>4. cleared \in GateRow BY <1>2 DEF GateType, GateRow
<1>5. GateType' BY <1>1, <1>4 DEF GateType, GateRow
<1>6. DrainedIsQuiet'
  <2>1. CASE granted BY <1>1, <2>1 DEF DrainedIsQuiet
  <2>2. CASE ~granted
    <3>1. gate'.mode # "none" => gate.mode # "none" BY <1>1, <2>2
    <3> QED BY <1>1, <1>2, <3>1, CaptureRecoveryKeeps DEF CaptureInv, DrainedIsQuiet, Quiet
  <2> QED BY <2>1, <2>2
<1>7. ASSUME NEW e \in worker.event PROVE HeldOne(e)'
  <2>1. HeldOne(e) /\ e \in Captures BY <1>7, HeldByParts DEF CaptureInv, WorkerType, WorkerRow
  <2> QED BY <1>1, <1>2, <2>1, CaptureRecoveryKeeps, InHandAlive DEF HeldOne, ClaimIsHeld
<1> QED BY <1>1, <1>3, <1>5, <1>6, <1>7, SameWorker

LEMMA GateKeeps ==
    ASSUME CaptureInv, HoldGate \/ GateOwnerExits \/ OpenGate
    PROVE  CaptureInv'
<1>1. /\ captureRow' = captureRow /\ worker' = worker /\ requests' = requests /\ claims' = claims
      /\ \/ gate.mode = "live" /\ gate' = [gate EXCEPT !.mode = "held"]
         \/ gate' = [gate EXCEPT !.alive = FALSE]
         \/ gate' = [mode |-> "none", alive |-> FALSE]
  BY DEF HoldGate, GateOwnerExits, OpenGate
<1>2. GateType BY DEF CaptureInv
<1>3. GateType' /\ (gate'.mode # "none" => gate.mode # "none")
  <2>1. CASE gate.mode = "live" /\ gate' = [gate EXCEPT !.mode = "held"]
    BY <1>2, <2>1 DEF GateType, GateRow
  <2>2. CASE gate' = [gate EXCEPT !.alive = FALSE]
    BY <1>2, <2>2 DEF GateType, GateRow
  <2>3. CASE gate' = [mode |-> "none", alive |-> FALSE]
    BY <2>3 DEF GateType, GateRow
  <2> QED BY <1>1, <2>1, <2>2, <2>3
<1>4. CapturesType' BY <1>1 DEF CaptureInv, CapturesType
<1>5. DrainedIsQuiet' BY <1>1, <1>3 DEF CaptureInv, DrainedIsQuiet, Quiet
<1>6. \A e \in worker.event : HeldOne(e)'
  BY <1>1, HeldByParts DEF CaptureInv, HeldOne, ClaimIsHeld
<1> QED BY <1>1, <1>3, <1>4, <1>5, <1>6, SameWorker

LEMMA CaptureInitially == CaptureInit => CaptureInv
<1> SUFFICES ASSUME CaptureInit PROVE CaptureInv OBVIOUS
<1>1. CaptureTypes BY DEF CaptureInit, CaptureTypes, CapturesType, CaptureRow, RowStatus, WorkerType, WorkerRow, GateType,
    GateRow, ClaimsType, Nobody
<1>2. ClaimsBound /\ OwnClaim /\ HeldWhileDelivering /\ DrainedIsQuiet
  BY DEF CaptureInit, ClaimsBound, OwnClaim, HeldWhileDelivering, DrainedIsQuiet, Nobody
<1> QED BY <1>1, <1>2 DEF CaptureInv, CaptureTypes

LEMMA CaptureStutters ==
    ASSUME CaptureInv, UNCHANGED captureVars
    PROVE  CaptureInv'
<1>1. captureRow' = captureRow /\ worker' = worker /\ requests' = requests /\ claims' = claims /\ gate' = gate
  BY DEF captureVars
<1>2. (CapturesType /\ WorkerType /\ GateType /\ ClaimsType)'
  BY <1>1 DEF CaptureInv, CapturesType, WorkerType, GateType, ClaimsType
<1>3. (ClaimsBound /\ OwnClaim)' BY <1>1 DEF CaptureInv, ClaimsBound, OwnClaim
<1>4. (HeldWhileDelivering /\ DrainedIsQuiet)'
  BY <1>1 DEF CaptureInv, HeldWhileDelivering, DrainedIsQuiet, Quiet
<1> QED BY <1>2, <1>3, <1>4 DEF CaptureInv

LEMMA CapturesAreKept == CaptureSpec => []CaptureInv
<1>1. CaptureInv /\ CaptureNext => CaptureInv'
  BY AcceptKeeps, DeliverKeeps, ServeClaimKeeps, ServeVerdictKeeps, NameClaimKeeps, LoopKeeps,
       ClaimGateKeeps, GateKeeps
  DEF CaptureNext
<1>2. CaptureInv /\ [CaptureNext]_captureVars => CaptureInv' BY <1>1, CaptureStutters
<1> QED BY <1>2, CaptureInitially, PTL DEF CaptureSpec

(* What a worker delivers stays with its claim until that claim's verdict     *)
(* (capture-state.ts:303), whatever requests are repeated or come late and    *)
(* however often a deployment or a claim recovers rows.                       *)
THEOREM CaptureStaysHeld == CaptureSpec => []HeldWhileDelivering
<1>1. CaptureInv => HeldWhileDelivering BY DEF CaptureInv
<1> QED BY CapturesAreKept, <1>1, PTL

(* A gate that was granted is quiet until it opens                            *)
(* (capture-drain-status.ts:55).                                              *)
THEOREM ClosedGateIsQuiet == CaptureSpec => []DrainedIsQuiet
<1>1. CaptureInv => DrainedIsQuiet BY DEF CaptureInv
<1> QED BY CapturesAreKept, <1>1, PTL

-----------------------------------------------------------------------------
(* Steering.                                                                 *)

ControlRecord == [up : BOOLEAN, open : BOOLEAN, ready : BOOLEAN, waiting : Seq(Inputs), current : SUBSET Inputs,
                  phase : {"idle", "attaching", "preparing", "marked", "delivering"}]

WaitingInputs == ToSet(control.waiting)
NoneTwice(s) == \A a, b \in 1..Len(s) : s[a] = s[b] => a = b

\* The controller has at most one input in hand, and only with a run; a closed one
\* has none waiting.
OneInHand ==
    /\ control.phase \in {"idle", "attaching"} => control.current = {}
    /\ control.phase \in {"preparing", "marked", "delivering"} => \E i \in Inputs : control.current = {i}
    /\ ~control.open => control.waiting = <<>>
    /\ ~control.up => control.phase = "idle" /\ control.waiting = <<>>
    /\ control.phase # "idle" => agent # "none"
    /\ agent = "none" => control.waiting = <<>>
    /\ NoneTwice(control.waiting) /\ WaitingInputs \cap control.current = {}

\* How far the row of an input in hand came.
RowsInHand ==
    /\ \A i \in WaitingInputs : message[i] = "queued"
    /\ \A i \in control.current :
          /\ control.phase = "preparing" /\ control.open => message[i] = "queued"
          /\ control.phase = "marked" /\ control.open => message[i] \in {"sending", "sent"}
          /\ control.phase = "delivering" => message[i] \in {"sending", "ambiguous", "sent"}

\* Only an input attached to the run has a row that may have reached the agent.
Attached == \A i \in Inputs : MayHaveReachedProvider(i) => place[i] = "attached"

HostAtRest ==
    agent = "none" => submitted = {} /\ stdin = {} /\ \A i \in Inputs : journal[i] = "none"

\* Nothing of the input is on its way to the agent, nor was it ever there.
Untouched(i) ==
    received[i] = 0 /\ i \notin stdin /\ journal[i] \in {"none", "failed"} /\ (i \in submitted => journal[i] = "failed")

\* What may yet be sent again, or be given a turn of its own.
MayBeSent(i) ==
    \/ place[i] \in {"new", "queued"}
    \/ place[i] = "attached" /\ message[i] \in {"queued", "failed"}
    \/ i \in control.current /\ control.phase \in {"preparing", "marked"}

\* An input whose write was on its way when its host's record was read is out of the account.
SentOnce ==
    \A i \in Inputs \ raced :
        /\ received[i] \in {0, 1}
        /\ MayBeSent(i) => Untouched(i)
        /\ i \in stdin => received[i] = 0 /\ journal[i] = "written"
        /\ journal[i] \in {"attempted", "failed"} => received[i] = 0
        /\ i \in submitted /\ journal[i] = "none" => received[i] = 0
        /\ message[i] = "sending" /\ journal[i] = "none" => received[i] = 0

MessageStates == {"none", "queued", "sending", "sent", "failed", "ambiguous"}

SteeringTypes ==
    /\ control \in ControlRecord
    /\ place \in [Inputs -> {"new", "queued", "attached", "turn"}]
    /\ message \in [Inputs -> MessageStates]
    /\ submitted \subseteq Inputs /\ stdin \subseteq Inputs /\ acknowledged \subseteq Inputs
    /\ journal \in [Inputs -> {"none", "attempted", "written", "failed"}]
    /\ agent \in {"none", "running", "ended"}
    /\ received \in [Inputs -> Nat]
    /\ raced \subseteq Inputs

HandOffInv == OneInHand /\ RowsInHand /\ Attached /\ HostAtRest /\ AcknowledgementWins

\* What the operations on the queue of the controller do to it.
LEMMA AppendWaits ==
    ASSUME NEW S, NEW s \in Seq(S), NEW i \in S, i \notin ToSet(s), NoneTwice(s)
    PROVE  ToSet(Append(s, i)) = ToSet(s) \cup {i} /\ NoneTwice(Append(s, i)) /\ Append(s, i) # <<>>
<1>1. /\ Len(Append(s, i)) = Len(s) + 1 /\ Append(s, i)[Len(s) + 1] = i /\ Len(s) \in Nat
      /\ \A a \in 1..Len(s) : Append(s, i)[a] = s[a]
      /\ DOMAIN Append(s, i) = 1..(Len(s) + 1) /\ DOMAIN s = 1..Len(s)
  OBVIOUS
<1>2. ToSet(Append(s, i)) = ToSet(s) \cup {i}
  <2>1. \A b \in 1..(Len(s) + 1) : b \in 1..Len(s) \/ b = Len(s) + 1
    BY <1>1
  <2> QED
    BY <1>1, <2>1 DEF ToSet
<1>3. NoneTwice(Append(s, i))
  BY <1>1 DEF NoneTwice, ToSet
<1> QED
  BY <1>1, <1>2, <1>3

LEMMA TailWaits ==
    ASSUME NEW S, NEW s \in Seq(S), s # <<>>, NoneTwice(s)
    PROVE  /\ Head(s) \in ToSet(s) /\ Head(s) \in S /\ Tail(s) \in Seq(S)
           /\ ToSet(Tail(s)) \subseteq ToSet(s) \ {Head(s)} /\ NoneTwice(Tail(s))
BY DEF ToSet, NoneTwice

LEMMA NoneWaits == ToSet(<<>>) = {} /\ NoneTwice(<<>>)
BY DEF ToSet, NoneTwice

\* A mark writes one row, and only from where it may.
LEMMA MarkWrites ==
    ASSUME NEW row \in [Inputs -> MessageStates], NEW i \in Inputs, NEW from, NEW to \in MessageStates
    PROVE  /\ Mark(row, i, from, to) \in [Inputs -> MessageStates]
           /\ \A j \in Inputs : Mark(row, i, from, to)[j] = IF j = i /\ row[i] \in from THEN to ELSE row[j]
BY DEF Mark, MessageStates

LEMMA ControlFields ==
    ASSUME SteeringTypes
    PROVE  /\ DOMAIN control = {"up", "open", "ready", "waiting", "current", "phase"}
           /\ control.up \in BOOLEAN /\ control.open \in BOOLEAN /\ control.ready \in BOOLEAN
           /\ control.waiting \in Seq(Inputs) /\ control.current \subseteq Inputs
           /\ control.phase \in {"idle", "attaching", "preparing", "marked", "delivering"}
           /\ WaitingInputs \subseteq Inputs
BY DEF SteeringTypes, ControlRecord, WaitingInputs, ToSet

LEMMA SteeringTypeStep ==
    ASSUME SteeringTypes, SteeringNext
    PROVE  SteeringTypes'
<1> DEFINE Goal == SteeringTypes'
<1>1. /\ message \in [Inputs -> MessageStates] /\ place \in [Inputs -> {"new", "queued", "attached", "turn"}]
      /\ journal \in [Inputs -> {"none", "attempted", "written", "failed"}] /\ received \in [Inputs -> Nat]
  BY DEF SteeringTypes
<1>2. "none" \in MessageStates /\ "queued" \in MessageStates /\ "sending" \in MessageStates
        /\ "sent" \in MessageStates /\ "failed" \in MessageStates /\ "ambiguous" \in MessageStates
  BY DEF MessageStates
<1>a. <<>> \in Seq(Inputs)
  OBVIOUS
<1>b. \A i \in Inputs : Append(control.waiting, i) \in Seq(Inputs)
  BY ControlFields
<1>c. {} \subseteq Inputs /\ [i \in Inputs |-> "none"] \in [Inputs -> {"none", "attempted", "written", "failed"}]
  OBVIOUS
<1>3. Empty \in ControlRecord /\ Rest \in ControlRecord
  <2>1. Empty \in ControlRecord
    BY <1>a DEF ControlRecord, Empty
  <2>2. Rest \in ControlRecord
    BY DEF SteeringTypes, ControlRecord, Rest
  <2> QED
    BY <2>1, <2>2
<1>4. \A i \in Inputs : /\ MarkSending(message, i) \in [Inputs -> MessageStates]
                        /\ MarkSent(message, i) \in [Inputs -> MessageStates]
                        /\ MarkFailed(message, i) \in [Inputs -> MessageStates]
                        /\ MarkAmbiguous(message, i) \in [Inputs -> MessageStates]
  BY <1>1, <1>2, MarkWrites DEF MarkSending, MarkSent, MarkFailed, MarkAmbiguous
<1>5. ASSUME NEW i \in Inputs, Offer(i) PROVE Goal
  <2>1. control' \in ControlRecord
    BY <1>5, <1>b DEF Offer, SteeringTypes, ControlRecord
  <2>2. /\ place' \in [Inputs -> {"new", "queued", "attached", "turn"}]
        /\ message' \in [Inputs -> MessageStates]
    BY <1>5, <1>1, <1>2 DEF Offer
  <2> QED
    BY <1>5, <1>1, <2>1, <2>2 DEF Offer, SteeringTypes, hostVars
<1>6. ASSUME NEW i \in Inputs, Enqueue(i) PROVE Goal
  BY <1>6, <1>1, <1>2, <1>3, <1>4 DEF Enqueue, SteeringTypes, ControlRecord, coordinatorVars,
       hostVars
<1>7. ASSUME NEW i \in Inputs, RecoverUnsent(i) PROVE Goal
  BY <1>7, <1>1, <1>2, <1>3, <1>4 DEF RecoverUnsent, SteeringTypes, ControlRecord,
       coordinatorVars, hostVars
<1>8. ASSUME NEW i \in Inputs, PreparationEnds(i) PROVE Goal
  BY <1>8, <1>1, <1>2, <1>3, <1>4 DEF PreparationEnds, SteeringTypes, ControlRecord,
       coordinatorVars, hostVars
<1>9. ASSUME NEW i \in Inputs, Send(i) PROVE Goal
  BY <1>9, <1>1, <1>2, <1>3, <1>4 DEF Send, SteeringTypes, ControlRecord, coordinatorVars,
       hostVars
<1>10. ASSUME NEW i \in Inputs, Acknowledged(i) PROVE Goal
  BY <1>10, <1>1, <1>2, <1>3, <1>4 DEF Acknowledged, SteeringTypes, ControlRecord,
       coordinatorVars, hostVars
<1>11. ASSUME NEW i \in Inputs, Refused(i) PROVE Goal
  BY <1>11, <1>1, <1>2, <1>3, <1>4 DEF Refused, SteeringTypes, ControlRecord, coordinatorVars,
       hostVars
<1>12. ASSUME NEW i \in Inputs, Unconfirmed(i) PROVE Goal
  BY <1>12, <1>1, <1>2, <1>3, <1>4 DEF Unconfirmed, SteeringTypes, ControlRecord,
       coordinatorVars, hostVars
<1>13. ASSUME NEW i \in Inputs, HostAttempts(i) PROVE Goal
  BY <1>13, <1>1, <1>2, <1>3, <1>4 DEF HostAttempts, SteeringTypes, ControlRecord,
       coordinatorVars, hostVars
<1>14. ASSUME NEW i \in Inputs, HostWrites(i) PROVE Goal
  BY <1>14, <1>1, <1>2, <1>3, <1>4 DEF HostWrites, SteeringTypes, ControlRecord,
       coordinatorVars, hostVars
<1>15. ASSUME NEW i \in Inputs, PickUp(i) PROVE Goal
  BY <1>15, <1>1, <1>2, <1>3, <1>4 DEF PickUp, SteeringTypes, ControlRecord, coordinatorVars,
       hostVars
<1>16. ASSUME NEW i \in Inputs, StartTurn(i) PROVE Goal
  BY <1>16, <1>1, <1>2, <1>3, <1>4 DEF StartTurn, SteeringTypes, ControlRecord, coordinatorVars,
       hostVars
<1>17. ASSUME NEW i \in Inputs, RecoveredSteering(i) PROVE Goal
  BY <1>17, <1>1, <1>2, <1>3, <1>4 DEF RecoveredSteering, SteeringTypes, ControlRecord,
       coordinatorVars, hostVars
<1>18. CASE RegisterSender
  BY <1>18, <1>1 DEF RegisterSender, SteeringTypes, ControlRecord, coordinatorVars, hostVars
<1>19. CASE Take
  <2>1. Tail(control.waiting) \in Seq(Inputs) /\ Head(control.waiting) \in Inputs
    BY <1>19 DEF Take, SteeringTypes, ControlRecord
  <2> QED
    BY <1>19, <2>1 DEF Take, SteeringTypes, ControlRecord, coordinatorVars, hostVars
<1>20. CASE CloseSteering
  <2>1. message' \in [Inputs -> MessageStates]
    BY <1>20, <1>1, <1>4 DEF CloseSteering
  <2> QED
    BY <1>20, <2>1, <1>a DEF CloseSteering, SteeringTypes, ControlRecord, coordinatorVars,
         hostVars
<1>21. CASE AgentEnds
  BY <1>21, <1>1 DEF AgentEnds, SteeringTypes, ControlRecord, coordinatorVars, hostVars
<1>22. CASE SettleOutcome
  <2>1. message' \in [Inputs -> MessageStates]
    BY <1>22, <1>1, <1>4 DEF SettleOutcome
  <2> QED
    BY <1>22, <2>1, <1>c DEF SettleOutcome, SteeringTypes, ControlRecord, coordinatorVars,
         hostVars
<1>23. CASE Die
  BY <1>23, <1>1, <1>a DEF Die, Empty, SteeringTypes, ControlRecord, coordinatorVars, hostVars
<1>24. CASE Adopt
  <2>1. message' \in [Inputs -> MessageStates]
    BY <1>24, <1>1, <1>2 DEF Adopt, Judged
  <2> QED
    BY <1>24, <2>1, <1>a DEF Adopt, Empty, SteeringTypes, ControlRecord, coordinatorVars,
         hostVars
<1>25. CASE Attach
  BY <1>25, <1>1 DEF Attach, SteeringTypes, ControlRecord, coordinatorVars, hostVars
<1>26. CASE Orphaned
  <2>1. message' \in [Inputs -> MessageStates]
    BY <1>26, <1>1, <1>2 DEF Orphaned
  <2> QED
    BY <1>26, <1>3, <1>c, <2>1 DEF Orphaned, SteeringTypes, ControlRecord, coordinatorVars,
         hostVars
<1> QED
  BY <1>5, <1>6, <1>7, <1>8, <1>9, <1>10, <1>11, <1>12, <1>13, <1>14, <1>15, <1>16, <1>17,
     <1>18, <1>19, <1>20, <1>21, <1>22, <1>23, <1>24, <1>25, <1>26 DEF SteeringNext

\* What a step may do to the controller: it keeps what it has in hand, lets go of it, or takes
\* the input that waited longest.
LEMMA InHandStep ==
    ASSUME SteeringTypes, OneInHand, HostAtRest, RowsInHand, SteeringNext
    PROVE  OneInHand'
<1> DEFINE Goal == OneInHand'
<1>1. /\ DOMAIN control = {"up", "open", "ready", "waiting", "current", "phase"}
      /\ control.up \in BOOLEAN /\ control.open \in BOOLEAN /\ control.ready \in BOOLEAN
      /\ control.waiting \in Seq(Inputs) /\ control.current \subseteq Inputs
      /\ control.phase \in {"idle", "attaching", "preparing", "marked", "delivering"}
  BY ControlFields
<1>2. /\ Empty.up /\ Empty.open /\ Empty.waiting = <<>> /\ Empty.current = {} /\ Empty.phase = "idle"
      /\ DOMAIN Empty = {"up", "open", "ready", "waiting", "current", "phase"}
  BY DEF Empty
<1>3. /\ Rest.up = control.up /\ Rest.open = control.open /\ Rest.waiting = control.waiting
      /\ Rest.current = {} /\ Rest.phase = "idle"
  BY <1>1 DEF Rest
<1>4. ASSUME control' = control, agent' = agent PROVE Goal
  BY <1>4 DEF OneInHand, WaitingInputs
<1>5. ASSUME control' = Rest, agent' = agent PROVE Goal
  BY <1>5, <1>3 DEF OneInHand, WaitingInputs
<1>6. ASSUME control' = Empty PROVE Goal
  BY <1>6, <1>2, NoneWaits DEF OneInHand, WaitingInputs
<1>7. ASSUME NEW i \in Inputs, Offer(i) PROVE Goal
  <2>1. CASE control.open
    <3>1. control' = [control EXCEPT !.waiting = Append(control.waiting, i)] /\ agent' = agent /\ control.up
            /\ agent # "none"
      BY <1>7, <2>1 DEF Offer, hostVars
    <3>2. /\ control'.waiting = Append(control.waiting, i)
          /\ control'.up = control.up /\ control'.open = control.open /\ control'.current = control.current
          /\ control'.phase = control.phase
      BY <3>1, <1>1
    <3>3. i \notin WaitingInputs /\ i \notin control.current
      BY <1>7, <2>1, <1>1 DEF Offer, MayHaveReachedProvider, RowsInHand, OneInHand
    <3>4. WaitingInputs' = WaitingInputs \cup {i} /\ NoneTwice(control'.waiting)
      BY <3>2, <3>3, <1>1, AppendWaits DEF OneInHand, WaitingInputs
    <3> QED
      BY <3>1, <3>2, <3>3, <3>4, <2>1 DEF OneInHand
  <2>2. CASE ~control.open
    BY <1>7, <2>2, <1>4 DEF Offer, hostVars
  <2> QED
    BY <2>1, <2>2
<1>8. ASSUME NEW i \in Inputs, Enqueue(i) PROVE Goal
  BY <1>8, <1>4 DEF Enqueue, coordinatorVars, hostVars
<1>9. ASSUME NEW i \in Inputs, RecoverUnsent(i) PROVE Goal
  BY <1>9, <1>4 DEF RecoverUnsent, coordinatorVars, hostVars
<1>10. ASSUME NEW i \in Inputs, PreparationEnds(i) PROVE Goal
  <2>1. agent' = agent /\ (control' = Rest \/ control' = [control EXCEPT !.phase = "marked"])
          /\ control.phase = "preparing"
    BY <1>10 DEF PreparationEnds, hostVars
  <2>2. CASE control' = [control EXCEPT !.phase = "marked"]
    BY <2>1, <2>2, <1>1 DEF OneInHand, WaitingInputs
  <2> QED
    BY <2>1, <2>2, <1>5
<1>11. ASSUME NEW i \in Inputs, Send(i) PROVE Goal
  <2>1. agent' = agent /\ (control' = Rest \/ control' = [control EXCEPT !.phase = "delivering"])
          /\ control.phase = "marked"
    BY <1>11 DEF Send, hostVars
  <2>2. CASE control' = [control EXCEPT !.phase = "delivering"]
    BY <2>1, <2>2, <1>1 DEF OneInHand, WaitingInputs
  <2> QED
    BY <2>1, <2>2, <1>5
<1>12. ASSUME NEW i \in Inputs, Acknowledged(i) PROVE Goal
  BY <1>12, <1>5 DEF Acknowledged, hostVars
<1>13. ASSUME NEW i \in Inputs, Refused(i) PROVE Goal
  BY <1>13, <1>5 DEF Refused, hostVars
<1>14. ASSUME NEW i \in Inputs, Unconfirmed(i) PROVE Goal
  BY <1>14, <1>5 DEF Unconfirmed, hostVars
<1>15. ASSUME NEW i \in Inputs, HostAttempts(i) PROVE Goal
  BY <1>15, <1>4 DEF HostAttempts, coordinatorVars, hostVars
<1>16. ASSUME NEW i \in Inputs, HostWrites(i) PROVE Goal
  BY <1>16, <1>4 DEF HostWrites, coordinatorVars, hostVars
<1>17. ASSUME NEW i \in Inputs, PickUp(i) PROVE Goal
  BY <1>17, <1>4 DEF PickUp, coordinatorVars, hostVars
<1>18. ASSUME NEW i \in Inputs, StartTurn(i) PROVE Goal
  BY <1>18, <1>6 DEF StartTurn
<1>19. ASSUME NEW i \in Inputs, RecoveredSteering(i) PROVE Goal
  BY <1>19, <1>4 DEF RecoveredSteering, coordinatorVars, hostVars
<1>20. CASE RegisterSender
  BY <1>20, <1>1 DEF RegisterSender, hostVars, OneInHand, WaitingInputs
<1>21. CASE Take
  <2> DEFINE head == Head(control.waiting)
  <2>1. /\ control.up /\ control.open /\ control.phase = "idle" /\ control.waiting # <<>> /\ agent' = agent
        /\ control' = [control EXCEPT !.waiting = Tail(control.waiting), !.current = {head}, !.phase = "preparing"]
    BY <1>21 DEF Take, hostVars
  <2>2. /\ head \in WaitingInputs /\ head \in Inputs /\ ToSet(Tail(control.waiting)) \subseteq WaitingInputs \ {head}
        /\ NoneTwice(Tail(control.waiting))
    BY <2>1, <1>1, TailWaits DEF OneInHand, WaitingInputs
  <2> HIDE DEF head
  <2>3. /\ control'.up = control.up /\ control'.open = control.open /\ control'.waiting = Tail(control.waiting)
        /\ control'.current = {head} /\ control'.phase = "preparing"
    BY <2>1, <1>1
  <2> QED
    BY <2>1, <2>2, <2>3 DEF OneInHand, WaitingInputs
<1>22. CASE CloseSteering
  <2>1. control' = [control EXCEPT !.open = FALSE, !.waiting = <<>>] /\ agent' = agent
    BY <1>22 DEF CloseSteering, hostVars
  <2> QED
    BY <2>1, <1>1, NoneWaits DEF OneInHand, WaitingInputs
<1>23. CASE AgentEnds
  BY <1>23 DEF AgentEnds, coordinatorVars, OneInHand, WaitingInputs
<1>24. CASE SettleOutcome
  BY <1>24, <1>1 DEF SettleOutcome, OneInHand, WaitingInputs
<1>25. CASE Die
  <2>1. control' = [Empty EXCEPT !.up = FALSE] /\ agent' = agent
    BY <1>25 DEF Die, hostVars
  <2> QED
    BY <2>1, <1>2, NoneWaits DEF OneInHand, WaitingInputs
<1>26. CASE Adopt
  <2>1. control' = [Empty EXCEPT !.phase = "attaching"] /\ agent' = agent /\ agent # "none"
    BY <1>26 DEF Adopt, hostVars
  <2> QED
    BY <2>1, <1>2, NoneWaits DEF OneInHand, WaitingInputs
<1>27. CASE Attach
  BY <1>27, <1>1 DEF Attach, OneInHand, WaitingInputs
<1>28. CASE Orphaned
  BY <1>28, <1>6 DEF Orphaned
<1> QED
  BY <1>7, <1>8, <1>9, <1>10, <1>11, <1>12, <1>13, <1>14, <1>15, <1>16, <1>17, <1>18, <1>19,
     <1>20, <1>21, <1>22, <1>23, <1>24, <1>25, <1>26, <1>27, <1>28 DEF SteeringNext

LEMMA RowsInHandStep ==
    ASSUME SteeringTypes, HandOffInv, SteeringNext
    PROVE  RowsInHand' /\ Attached' /\ AcknowledgementWins'
<1> DEFINE Goal == RowsInHand' /\ Attached' /\ AcknowledgementWins'
<1>1. /\ DOMAIN control = {"up", "open", "ready", "waiting", "current", "phase"}
      /\ control.up \in BOOLEAN /\ control.open \in BOOLEAN /\ control.ready \in BOOLEAN
      /\ control.waiting \in Seq(Inputs) /\ control.current \subseteq Inputs /\ WaitingInputs \subseteq Inputs
      /\ control.phase \in {"idle", "attaching", "preparing", "marked", "delivering"}
      /\ acknowledged \subseteq Inputs
      /\ message \in [Inputs -> MessageStates] /\ place \in [Inputs -> {"new", "queued", "attached", "turn"}]
  BY ControlFields DEF SteeringTypes
<1>2. /\ Empty.waiting = <<>> /\ Empty.current = {} /\ DOMAIN Empty = {"up", "open", "ready", "waiting", "current", "phase"}
      /\ Empty.open
  BY DEF Empty
<1>3. Rest.waiting = control.waiting /\ Rest.current = {}
  BY <1>1 DEF Rest
<1>4. /\ \A i \in WaitingInputs : message[i] = "queued"
      /\ \A i \in Inputs : message[i] \notin {"none", "failed"} => place[i] = "attached"
      /\ \A i \in acknowledged : message[i] = "sent"
      /\ WaitingInputs \cap control.current = {}
  BY DEF HandOffInv, OneInHand, RowsInHand, Attached, AcknowledgementWins, MayHaveReachedProvider
<1>5. ASSUME control' = control, UNCHANGED <<place, message, acknowledged>> PROVE Goal
  BY <1>5 DEF HandOffInv, RowsInHand, Attached, AcknowledgementWins, MayHaveReachedProvider,
       WaitingInputs
\* With nothing in hand, what counts is where the rows went.
<1>6. ASSUME control'.current = {}, WaitingInputs' \subseteq WaitingInputs, UNCHANGED <<place, acknowledged>>,
             \A j \in Inputs :
                 /\ message'[j] = message[j] \/ message'[j] \in {"failed", "ambiguous", "sent"}
                 /\ message[j] = "sent" => message'[j] = "sent"
                 /\ message[j] \in {"none", "failed"} => message'[j] \in {"none", "failed"}
                 /\ j \in WaitingInputs' => message'[j] = message[j]
      PROVE Goal
  <2>1. RowsInHand'
    BY <1>1, <1>4, <1>6 DEF RowsInHand
  <2>2. Attached'
    BY <1>1, <1>4, <1>6 DEF Attached, MayHaveReachedProvider
  <2>3. AcknowledgementWins'
    BY <1>1, <1>4, <1>6 DEF AcknowledgementWins
  <2> QED
    BY <2>1, <2>2, <2>3
<1>7. ASSUME NEW i \in Inputs, NEW from \in SUBSET {"queued", "sending", "ambiguous"}, NEW to \in {"failed", "ambiguous", "sent"},
             to = "ambiguous" => from = {"sending"}, message' = Mark(message, i, from, to)
      PROVE  \A j \in Inputs :
                 /\ message'[j] = message[j] \/ message'[j] \in {"failed", "ambiguous", "sent"}
                 /\ message[j] = "sent" => message'[j] = "sent"
                 /\ message[j] \in {"none", "failed"} => message'[j] \in {"none", "failed"}
                 /\ j # i => message'[j] = message[j]
  BY <1>1, <1>7, MarkWrites DEF MessageStates
<1>8. ToSet(<<>>) = {}
  BY NoneWaits
<1>9. ASSUME NEW i \in Inputs, Offer(i) PROVE Goal
  <2>1. i \notin WaitingInputs /\ i \notin acknowledged
    BY <1>9, <1>4 DEF Offer, MayHaveReachedProvider
  <2>2. CASE control.open
    <3>1. /\ control' = [control EXCEPT !.waiting = Append(control.waiting, i)] /\ acknowledged' = acknowledged
          /\ message' = [message EXCEPT ![i] = "queued"] /\ place' = [place EXCEPT ![i] = "attached"]
      BY <1>9, <2>2 DEF Offer
    <3>2. /\ control'.waiting = Append(control.waiting, i) /\ control'.open = control.open
          /\ control'.current = control.current /\ control'.phase = control.phase
      BY <3>1, <1>1
    <3>3. i \notin control.current
      BY <1>9, <2>2, <1>1 DEF Offer, MayHaveReachedProvider, HandOffInv, RowsInHand, OneInHand
    <3>4. WaitingInputs' = WaitingInputs \cup {i}
      BY <2>1, <3>2, <1>1, AppendWaits DEF HandOffInv, OneInHand, WaitingInputs
    <3>5. \A j \in Inputs \ {i} : message'[j] = message[j] /\ place'[j] = place[j]
      BY <3>1, <1>1
    <3>6. message'[i] = "queued" /\ place'[i] = "attached"
      BY <3>1, <1>1
    <3>7. RowsInHand'
      BY <3>2, <3>3, <3>4, <3>5, <3>6, <1>1 DEF HandOffInv, RowsInHand
    <3> QED
      BY <3>1, <3>5, <3>6, <3>7, <2>1, <1>1, <1>4 DEF Attached, AcknowledgementWins,
           MayHaveReachedProvider
  <2>3. CASE ~control.open
    <3>1. /\ control' = control /\ acknowledged' = acknowledged
          /\ message' = [message EXCEPT ![i] = "failed"] /\ place' = [place EXCEPT ![i] = "queued"]
      BY <1>9, <2>3 DEF Offer
    <3>2. message[i] \in {"none", "failed"}
      BY <1>9, <1>1 DEF Offer, MayHaveReachedProvider
    <3>3. RowsInHand'
      BY <3>1, <3>2, <2>1, <2>3, <1>1 DEF HandOffInv, RowsInHand, WaitingInputs
    <3> QED
      BY <3>1, <3>3, <2>1, <1>1, <1>4 DEF Attached, AcknowledgementWins, MayHaveReachedProvider
  <2> QED
    BY <2>2, <2>3
<1>10. ASSUME NEW i \in Inputs, Enqueue(i) PROVE Goal
  <2>1. /\ control' = control /\ UNCHANGED <<message, acknowledged>>
        /\ place' = [place EXCEPT ![i] = "queued"]
        /\ place[i] = "new" \/ message[i] = "failed"
    BY <1>10 DEF Enqueue
  <2> QED
    BY <2>1, <1>1, <1>4 DEF HandOffInv, RowsInHand, Attached, AcknowledgementWins,
         MayHaveReachedProvider, WaitingInputs
<1>11. ASSUME NEW i \in Inputs, RecoverUnsent(i) PROVE Goal
  <2>1. /\ control' = control /\ UNCHANGED <<message, acknowledged>>
        /\ place' = [place EXCEPT ![i] = "queued"]
        /\ place[i] = "new" \/ message[i] = "failed"
    BY <1>11 DEF RecoverUnsent
  <2> QED
    BY <2>1, <1>1, <1>4 DEF HandOffInv, RowsInHand, Attached, AcknowledgementWins,
         MayHaveReachedProvider, WaitingInputs
<1>12. ASSUME NEW i \in Inputs, PreparationEnds(i) PROVE Goal
  <2>1. control.current = {i} /\ control.phase = "preparing" /\ UNCHANGED <<place, acknowledged>>
    BY <1>12 DEF PreparationEnds
  <2>2. CASE control' = Rest /\ UNCHANGED message
    BY <2>1, <2>2, <1>1, <1>3, <1>6 DEF WaitingInputs
  <2>3. CASE control' = Rest /\ message' = MarkFailed(message, i)
    <3>1. message' = Mark(message, i, {"queued", "sending"}, "failed")
      BY <2>3 DEF MarkFailed
    <3>2. i \notin WaitingInputs /\ WaitingInputs' = WaitingInputs
      BY <2>1, <2>3, <1>3, <1>4 DEF WaitingInputs
    <3> QED
      BY <3>1, <3>2, <2>1, <2>3, <1>3, <1>6, <1>7
  <2>4. CASE control.open /\ message' = MarkSending(message, i) /\ control' = [control EXCEPT !.phase = "marked"]
    <3>1. message[i] = "queued" /\ i \notin WaitingInputs
      BY <2>1, <2>4, <1>4 DEF HandOffInv, RowsInHand
    <3>2. message' = Mark(message, i, {"queued"}, "sending")
      BY <2>4 DEF MarkSending
    <3>3. \A j \in Inputs : message'[j] = IF j = i THEN "sending" ELSE message[j]
      BY <3>1, <3>2, <1>1, MarkWrites DEF MessageStates
    <3>4. control'.current = {i} /\ WaitingInputs' = WaitingInputs /\ control'.phase = "marked"
      BY <2>1, <2>4, <1>1 DEF WaitingInputs
    <3> QED
      BY <3>1, <3>3, <3>4, <2>1, <1>1, <1>4 DEF RowsInHand, Attached, AcknowledgementWins,
           MayHaveReachedProvider
  <2> QED
    BY <1>12, <2>2, <2>3, <2>4 DEF PreparationEnds
<1>13. ASSUME NEW i \in Inputs, Send(i) PROVE Goal
  <2>1. control.current = {i} /\ control.phase = "marked" /\ UNCHANGED <<place, acknowledged>>
    BY <1>13 DEF Send
  <2>2. CASE control' = Rest /\ UNCHANGED message
    BY <2>1, <2>2, <1>1, <1>3, <1>6 DEF WaitingInputs
  <2>3. CASE control' = Rest /\ message' = MarkFailed(message, i)
    <3>1. message' = Mark(message, i, {"queued", "sending"}, "failed")
      BY <2>3 DEF MarkFailed
    <3>2. i \notin WaitingInputs /\ WaitingInputs' = WaitingInputs
      BY <2>1, <2>3, <1>3, <1>4 DEF WaitingInputs
    <3> QED
      BY <3>1, <3>2, <2>1, <2>3, <1>3, <1>6, <1>7
  <2>4. CASE control.open /\ control' = [control EXCEPT !.phase = "delivering"] /\ UNCHANGED message
    <3>1. message[i] \in {"sending", "sent"} /\ i \notin WaitingInputs
      BY <2>1, <2>4, <1>4 DEF HandOffInv, RowsInHand
    <3>2. control'.current = {i} /\ WaitingInputs' = WaitingInputs /\ control'.phase = "delivering"
      BY <2>1, <2>4, <1>1 DEF WaitingInputs
    <3> QED
      BY <3>1, <3>2, <2>1, <2>4, <1>1, <1>4 DEF RowsInHand, Attached, AcknowledgementWins,
           MayHaveReachedProvider
  <2> QED
    BY <1>13, <2>2, <2>3, <2>4 DEF Send
<1>14. ASSUME NEW i \in Inputs, Acknowledged(i) PROVE Goal
  <2>1. control.current = {i} /\ control' = Rest /\ place' = place /\ control.phase = "delivering"
    BY <1>14 DEF Acknowledged, Delivering
  <2>2. message' = Mark(message, i, {"sending", "ambiguous"}, "sent")
    BY <1>14 DEF Acknowledged, MarkSent
  <2>3. i \notin WaitingInputs /\ WaitingInputs' = WaitingInputs
    BY <2>1, <1>3, <1>4 DEF WaitingInputs
  <2>4. message[i] \in {"sending", "ambiguous", "sent"}
    BY <2>1 DEF HandOffInv, RowsInHand
  <2>5. \A j \in Inputs : message'[j] = IF j = i THEN "sent" ELSE message[j]
    BY <2>2, <2>4, <1>1, MarkWrites DEF MessageStates
  <2>6. acknowledged' = acknowledged \cup {i}
    BY <1>14 DEF Acknowledged
  <2> QED
    BY <2>1, <2>3, <2>4, <2>5, <2>6, <1>1, <1>3, <1>4 DEF RowsInHand, Attached,
         AcknowledgementWins,
       MayHaveReachedProvider
<1>15. ASSUME NEW i \in Inputs, Refused(i) PROVE Goal
  <2>1. control.current = {i} /\ control' = Rest /\ place' = place /\ control.phase = "delivering"
    BY <1>15 DEF Refused, Delivering
  <2>2. message' = message \/ message' = Mark(message, i, {"queued", "sending"}, "failed")
    BY <1>15 DEF Refused, MarkFailed
  <2>3. i \notin WaitingInputs /\ WaitingInputs' = WaitingInputs
    BY <2>1, <1>3, <1>4 DEF WaitingInputs
  <2>4. acknowledged' = acknowledged
    BY <1>15 DEF Refused
  <2> QED
    BY <2>1, <2>2, <2>3, <2>4, <1>1, <1>3, <1>6, <1>7
<1>16. ASSUME NEW i \in Inputs, Unconfirmed(i) PROVE Goal
  <2>1. control.current = {i} /\ control' = Rest /\ place' = place /\ control.phase = "delivering"
    BY <1>16 DEF Unconfirmed, Delivering
  <2>2. message' = Mark(message, i, {"sending"}, "ambiguous")
    BY <1>16 DEF Unconfirmed, MarkAmbiguous
  <2>3. i \notin WaitingInputs /\ WaitingInputs' = WaitingInputs
    BY <2>1, <1>3, <1>4 DEF WaitingInputs
  <2>4. acknowledged' = acknowledged
    BY <1>16 DEF Unconfirmed
  <2> QED
    BY <2>1, <2>2, <2>3, <2>4, <1>1, <1>3, <1>6, <1>7
<1>17. ASSUME NEW i \in Inputs, HostAttempts(i) PROVE Goal
  BY <1>17, <1>5 DEF HostAttempts, coordinatorVars
<1>18. ASSUME NEW i \in Inputs, HostWrites(i) PROVE Goal
  BY <1>18, <1>5 DEF HostWrites, coordinatorVars
<1>19. ASSUME NEW i \in Inputs, PickUp(i) PROVE Goal
  BY <1>19, <1>5 DEF PickUp, coordinatorVars
<1>20. ASSUME NEW i \in Inputs, StartTurn(i) PROVE Goal
  <2>1. /\ control' = Empty /\ UNCHANGED <<message, acknowledged>>
        /\ place[i] = "queued" /\ place' = [place EXCEPT ![i] = "turn"]
    BY <1>20 DEF StartTurn
  <2> QED
    BY <2>1, <1>1, <1>2, <1>4, <1>8 DEF RowsInHand, Attached, AcknowledgementWins,
         MayHaveReachedProvider, WaitingInputs
<1>21. ASSUME NEW i \in Inputs, RecoveredSteering(i) PROVE Goal
  <2>1. /\ UNCHANGED <<control, place, acknowledged>> /\ message[i] \in {"sending", "ambiguous"}
        /\ message' = Mark(message, i, {"sending", "ambiguous"}, "sent") /\ place[i] = "attached"
    BY <1>21 DEF RecoveredSteering, MarkSent
  <2>2. \A j \in Inputs : message'[j] = IF j = i THEN "sent" ELSE message[j]
    BY <2>1, <1>1, MarkWrites DEF MessageStates
  <2>3. i \notin WaitingInputs /\ ~(i \in control.current /\ control.phase = "preparing" /\ control.open)
    BY <2>1, <1>4 DEF HandOffInv, RowsInHand
  <2> QED
    BY <2>1, <2>2, <2>3, <1>1, <1>4 DEF HandOffInv, RowsInHand, Attached, AcknowledgementWins,
       MayHaveReachedProvider, WaitingInputs
<1>22. CASE RegisterSender
  <2>1. control' = [control EXCEPT !.ready = TRUE] /\ UNCHANGED <<place, message, acknowledged>>
    BY <1>22 DEF RegisterSender
  <2> QED
    BY <2>1, <1>1, <1>4 DEF HandOffInv, RowsInHand, Attached, AcknowledgementWins,
         MayHaveReachedProvider, WaitingInputs
<1>23. CASE Take
  <2> DEFINE head == Head(control.waiting)
  <2>1. /\ control.waiting # <<>> /\ UNCHANGED <<place, message, acknowledged>>
        /\ control' = [control EXCEPT !.waiting = Tail(control.waiting), !.current = {head}, !.phase = "preparing"]
    BY <1>23 DEF Take
  <2>2. head \in WaitingInputs /\ ToSet(Tail(control.waiting)) \subseteq WaitingInputs
    BY <2>1, <1>1, TailWaits DEF HandOffInv, OneInHand, WaitingInputs
  <2> HIDE DEF head
  <2>3. control'.waiting = Tail(control.waiting) /\ control'.current = {head} /\ control'.phase = "preparing"
    BY <2>1, <1>1
  <2> QED
    BY <2>1, <2>2, <2>3, <1>1, <1>4 DEF RowsInHand, Attached, AcknowledgementWins,
         MayHaveReachedProvider, WaitingInputs
<1>24. CASE CloseSteering
  <2>1. control' = [control EXCEPT !.open = FALSE, !.waiting = <<>>] /\ UNCHANGED <<place, acknowledged>>
    BY <1>24 DEF CloseSteering
  <2>2. /\ control'.current = control.current /\ control'.phase = control.phase /\ ~control'.open
        /\ WaitingInputs' = {}
    BY <2>1, <1>1, <1>8 DEF WaitingInputs
  <2>3. ASSUME NEW j \in Inputs
        PROVE  /\ message'[j] = message[j] \/ message'[j] \in {"failed", "ambiguous"}
               /\ message[j] \in {"none", "failed", "sent", "ambiguous"} => message'[j] = message[j]
               /\ j \in control.current /\ control.phase = "delivering" /\ message[j] = "sending"
                      => message'[j] = "ambiguous"
    <3>1. message'[j] \in {message[j], MarkAmbiguous(message, j)[j], MarkFailed(message, j)[j]}
      BY <1>24 DEF CloseSteering
    <3>2. j \in control.current /\ control.phase = "delivering" => message'[j] = MarkAmbiguous(message, j)[j]
      BY <1>24 DEF CloseSteering
    <3>3. /\ MarkAmbiguous(message, j)[j] = IF message[j] \in {"sending"} THEN "ambiguous" ELSE message[j]
          /\ MarkFailed(message, j)[j] = IF message[j] \in {"queued", "sending"} THEN "failed" ELSE message[j]
      BY <1>1, MarkWrites DEF MarkAmbiguous, MarkFailed, MessageStates
    <3> QED
      BY <3>1, <3>2, <3>3
  <2>4. RowsInHand'
    BY <2>2, <2>3, <1>1 DEF HandOffInv, RowsInHand
  <2> QED
    BY <2>1, <2>3, <2>4, <1>1, <1>4 DEF Attached, AcknowledgementWins, MayHaveReachedProvider
<1>25. CASE AgentEnds
  BY <1>25, <1>5 DEF AgentEnds, coordinatorVars
<1>26. CASE SettleOutcome
  <2>1. UNCHANGED <<control, place, acknowledged>> /\ control.phase = "idle" /\ ~control.open
    BY <1>26 DEF SettleOutcome
  <2>2. control.current = {} /\ WaitingInputs' = {}
    BY <2>1, <1>8 DEF HandOffInv, OneInHand, WaitingInputs
  <2>3. \A j \in Inputs : message'[j] \in {message[j], Mark(message, j, {"sending"}, "ambiguous")[j]}
    BY <1>26 DEF SettleOutcome, MarkAmbiguous
  <2>4. \A j \in Inputs : message'[j] = message[j] \/ (message[j] = "sending" /\ message'[j] = "ambiguous")
    BY <2>3, <1>1, MarkWrites DEF MessageStates
  <2> QED
    BY <2>1, <2>2, <2>4, <1>6
<1>27. CASE Die
  <2>1. control' = [Empty EXCEPT !.up = FALSE] /\ UNCHANGED <<place, acknowledged>>
    BY <1>27 DEF Die
  <2>2. control'.current = {} /\ WaitingInputs' = {}
    BY <2>1, <1>2, <1>8 DEF WaitingInputs
  <2>3. message' = message
    BY <1>27 DEF Die
  <2> QED
    BY <2>1, <2>2, <2>3, <1>6
<1>28. CASE Adopt
  <2>1. control' = [Empty EXCEPT !.phase = "attaching"] /\ UNCHANGED <<place, acknowledged>>
    BY <1>28 DEF Adopt
  <2>2. control'.current = {} /\ WaitingInputs' = {}
    BY <2>1, <1>2, <1>8 DEF WaitingInputs
  <2>3. \A j \in Inputs : /\ message'[j] = message[j] \/ message'[j] \in {"failed", "ambiguous"}
                          /\ message[j] \notin {"queued", "sending"} => message'[j] = message[j]
    BY <1>28 DEF Adopt, Judged
  <2> QED
    BY <2>1, <2>2, <2>3, <1>6
<1>29. CASE Attach
  <2>1. control' = [control EXCEPT !.phase = "idle"] /\ UNCHANGED <<place, message, acknowledged>>
          /\ control.phase = "attaching"
    BY <1>29 DEF Attach
  <2>2. control'.current = {} /\ WaitingInputs' = WaitingInputs
    BY <2>1, <1>1 DEF HandOffInv, OneInHand, WaitingInputs
  <2> QED
    BY <2>1, <2>2, <1>6
<1>30. CASE Orphaned
  <2>1. control' = Empty /\ UNCHANGED <<place, acknowledged>>
    BY <1>30 DEF Orphaned
  <2>2. control'.current = {} /\ WaitingInputs' = {}
    BY <2>1, <1>2, <1>8 DEF WaitingInputs
  <2>3. \A j \in Inputs : /\ message'[j] = message[j] \/ message'[j] \in {"failed", "ambiguous"}
                          /\ message[j] \notin {"queued", "sending"} => message'[j] = message[j]
    BY <1>30 DEF Orphaned
  <2> QED
    BY <2>1, <2>2, <2>3, <1>6
<1> QED
  BY <1>9, <1>10, <1>11, <1>12, <1>13, <1>14, <1>15, <1>16, <1>17, <1>18, <1>19, <1>20, <1>21,
     <1>22, <1>23, <1>24, <1>25, <1>26, <1>27, <1>28, <1>29, <1>30 DEF SteeringNext

LEMMA HostAtRestStep ==
    ASSUME SteeringTypes, HandOffInv, SteeringNext
    PROVE  HostAtRest'
<1> DEFINE Goal == HostAtRest'
<1>1. /\ agent = "none" => submitted = {} /\ stdin = {} /\ \A i \in Inputs : journal[i] = "none"
      /\ control.phase # "idle" => agent # "none"
      /\ journal \in [Inputs -> {"none", "attempted", "written", "failed"}]
  BY DEF HandOffInv, HostAtRest, OneInHand, SteeringTypes
<1>2. ASSUME UNCHANGED hostVars PROVE Goal
  BY <1>1, <1>2 DEF HostAtRest, hostVars
<1>3. ASSUME NEW i \in Inputs, Offer(i) PROVE Goal
  BY <1>3, <1>2 DEF Offer
<1>4. ASSUME NEW i \in Inputs, Enqueue(i) PROVE Goal
  BY <1>4, <1>2 DEF Enqueue
<1>5. ASSUME NEW i \in Inputs, RecoverUnsent(i) PROVE Goal
  BY <1>5, <1>2 DEF RecoverUnsent
<1>6. ASSUME NEW i \in Inputs, PreparationEnds(i) PROVE Goal
  BY <1>6, <1>2 DEF PreparationEnds
<1>7. ASSUME NEW i \in Inputs, Send(i) PROVE Goal
  BY <1>7, <1>1 DEF Send, HostAtRest
<1>8. ASSUME NEW i \in Inputs, Acknowledged(i) PROVE Goal
  BY <1>8, <1>2 DEF Acknowledged
<1>9. ASSUME NEW i \in Inputs, Refused(i) PROVE Goal
  BY <1>9, <1>2 DEF Refused
<1>10. ASSUME NEW i \in Inputs, Unconfirmed(i) PROVE Goal
  BY <1>10, <1>2 DEF Unconfirmed
<1>11. ASSUME NEW i \in Inputs, HostAttempts(i) PROVE Goal
  BY <1>11, <1>1 DEF HostAttempts, HostAtRest
<1>12. ASSUME NEW i \in Inputs, HostWrites(i) PROVE Goal
  BY <1>12, <1>1 DEF HostWrites, HostAtRest
<1>13. ASSUME NEW i \in Inputs, PickUp(i) PROVE Goal
  BY <1>13, <1>1 DEF PickUp, HostAtRest
<1>14. ASSUME NEW i \in Inputs, StartTurn(i) PROVE Goal
  BY <1>14, <1>1 DEF StartTurn, HostAtRest
<1>15. ASSUME NEW i \in Inputs, RecoveredSteering(i) PROVE Goal
  BY <1>15, <1>2 DEF RecoveredSteering
<1>16. CASE RegisterSender
  BY <1>16, <1>2 DEF RegisterSender
<1>17. CASE Take
  BY <1>17, <1>2 DEF Take
<1>18. CASE CloseSteering
  BY <1>18, <1>2 DEF CloseSteering
<1>19. CASE AgentEnds
  BY <1>19, <1>1 DEF AgentEnds, HostAtRest
<1>20. CASE SettleOutcome
  BY <1>20, <1>1 DEF SettleOutcome, HostAtRest
<1>21. CASE Die
  BY <1>21, <1>2 DEF Die
<1>22. CASE Adopt
  BY <1>22, <1>2 DEF Adopt
<1>23. CASE Attach
  BY <1>23, <1>1 DEF Attach, HostAtRest
<1>24. CASE Orphaned
  BY <1>24, <1>1 DEF Orphaned, HostAtRest
<1> QED
  BY <1>3, <1>4, <1>5, <1>6, <1>7, <1>8, <1>9, <1>10, <1>11, <1>12, <1>13, <1>14, <1>15, <1>16,
     <1>17, <1>18, <1>19, <1>20, <1>21, <1>22, <1>23, <1>24 DEF SteeringNext

OnceFor(j) ==
    /\ received[j] \in {0, 1}
    /\ MayBeSent(j) => Untouched(j)
    /\ j \in stdin => received[j] = 0 /\ journal[j] = "written"
    /\ journal[j] \in {"attempted", "failed"} => received[j] = 0
    /\ j \in submitted /\ journal[j] = "none" => received[j] = 0
    /\ message[j] = "sending" /\ journal[j] = "none" => received[j] = 0

\* What the host and the agent have of an input stays, and it is sent again only untouched.
LEMMA OnceStays ==
    ASSUME NEW j, OnceFor(j), received'[j] = received[j], j \in stdin' <=> j \in stdin,
           journal'[j] = journal[j], j \in submitted' => j \in submitted,
           MayBeSent(j)' => Untouched(j),
           message'[j] = "sending" => message[j] = "sending" \/ Untouched(j)
    PROVE  OnceFor(j)'
BY DEF OnceFor, Untouched

LEMMA RacedStays ==
    ASSUME SteeringNext
    PROVE  raced \subseteq raced'
<1>1. CASE Adopt
  BY <1>1 DEF Adopt
<1>2. CASE RegisterSender \/ Take \/ CloseSteering \/ AgentEnds \/ SettleOutcome \/ Die \/ Attach \/ Orphaned
  BY <1>2 DEF RegisterSender, Take, CloseSteering, AgentEnds, SettleOutcome, Die, Attach, Orphaned
<1>3. ASSUME NEW i \in Inputs,
             Offer(i) \/ Enqueue(i) \/ RecoverUnsent(i) \/ PreparationEnds(i) \/ Send(i) \/ StartTurn(i)
      PROVE  raced' = raced
  BY <1>3 DEF Offer, Enqueue, RecoverUnsent, PreparationEnds, Send, StartTurn
<1>4. ASSUME NEW i \in Inputs,
             \/ Acknowledged(i) \/ Refused(i) \/ Unconfirmed(i) \/ RecoveredSteering(i)
             \/ HostAttempts(i) \/ HostWrites(i) \/ PickUp(i)
      PROVE  raced' = raced
  BY <1>4 DEF Acknowledged, Refused, Unconfirmed, RecoveredSteering, HostAttempts, HostWrites, PickUp
<1> QED
  BY <1>1, <1>2, <1>3, <1>4 DEF SteeringNext

LEMMA SentOnceStep ==
    ASSUME SteeringTypes, HandOffInv, SentOnce, SteeringNext
    PROVE  SentOnce'
<1>1. /\ SentOnce <=> \A j \in Inputs \ raced : OnceFor(j)
      /\ (\A j \in Inputs : j \notin raced' => OnceFor(j)') => SentOnce'
  BY DEF SentOnce, OnceFor
<1> SUFFICES ASSUME NEW j \in Inputs, j \notin raced' PROVE OnceFor(j)'
  BY <1>1
<1> DEFINE Goal == OnceFor(j)'
<1>2. OnceFor(j)
  BY <1>1, RacedStays
<1>3. /\ DOMAIN control = {"up", "open", "ready", "waiting", "current", "phase"}
      /\ control.waiting \in Seq(Inputs) /\ WaitingInputs \subseteq Inputs
      /\ message \in [Inputs -> MessageStates] /\ place \in [Inputs -> {"new", "queued", "attached", "turn"}]
      /\ journal \in [Inputs -> {"none", "attempted", "written", "failed"}] /\ received \in [Inputs -> Nat]
  BY ControlFields DEF SteeringTypes
<1>4. Rest.current = {} /\ Empty.current = {} /\ DOMAIN Empty = {"up", "open", "ready", "waiting", "current", "phase"}
  BY <1>3 DEF Rest, Empty
<1>5. /\ \A i \in WaitingInputs : message[i] = "queued"
      /\ \A i \in Inputs : message[i] \notin {"none", "failed"} => place[i] = "attached"
      /\ control.phase \in {"idle", "attaching"} => control.current = {}
  BY DEF HandOffInv, OneInHand, RowsInHand, Attached, MayHaveReachedProvider
\* A step of the coordinator alone.
<1>6. ASSUME UNCHANGED <<hostVars, received>>, MayBeSent(j)' => Untouched(j),
             message'[j] = "sending" => message[j] = "sending" \/ Untouched(j)
      PROVE  Goal
  BY <1>2, <1>6, OnceStays DEF hostVars
<1>7. MayBeSent(j) => Untouched(j)
  BY <1>2 DEF OnceFor
<1>8. ASSUME NEW i \in Inputs PROVE
             /\ MarkSending(message, i)[j] = IF j = i /\ message[i] = "queued" THEN "sending" ELSE message[j]
             /\ MarkFailed(message, i)[j] = IF j = i /\ message[i] \in {"queued", "sending"} THEN "failed" ELSE message[j]
             /\ MarkAmbiguous(message, i)[j] = IF j = i /\ message[i] = "sending" THEN "ambiguous" ELSE message[j]
             /\ MarkSent(message, i)[j] = IF j = i /\ message[i] \in {"sending", "ambiguous"} THEN "sent" ELSE message[j]
  BY <1>3, MarkWrites DEF MarkSending, MarkFailed, MarkAmbiguous, MarkSent, MessageStates
\* Nothing is in hand after the step, and the row went no way back.
<1>9. ASSUME UNCHANGED <<hostVars, received, place>>, control'.current = {},
             \/ message'[j] = message[j] \/ message'[j] \in {"sent", "ambiguous"}
             \/ message'[j] = "failed" /\ Untouched(j)
      PROVE  Goal
  <2>1. MayBeSent(j)' => MayBeSent(j) \/ Untouched(j)
    BY <1>9 DEF MayBeSent
  <2> QED
    BY <2>1, <1>6, <1>7, <1>9
<1>10. ASSUME NEW i \in Inputs, Offer(i) PROVE Goal
  <2>1. UNCHANGED <<hostVars, received>> /\ place[i] \in {"new", "queued"}
    BY <1>10 DEF Offer
  <2>2. control'.current = control.current /\ control'.phase = control.phase
    BY <1>10, <1>3 DEF Offer
  <2>3. j # i => place'[j] = place[j] /\ message'[j] = message[j]
    BY <1>10, <1>3 DEF Offer
  <2>4. message'[i] # "sending"
    BY <1>10, <1>3 DEF Offer
  <2>5. MayBeSent(j)' => MayBeSent(j)
    BY <2>1, <2>2, <2>3 DEF MayBeSent
  <2> QED
    BY <2>1, <2>3, <2>4, <2>5, <1>6, <1>7
<1>11. ASSUME NEW i \in Inputs, Enqueue(i) PROVE Goal
  <2>1. UNCHANGED <<hostVars, received, control, message>> /\ MayBeSent(i) /\ place' = [place EXCEPT ![i] = "queued"]
    BY <1>11 DEF Enqueue, MayBeSent
  <2>2. MayBeSent(j)' => MayBeSent(j)
    BY <2>1, <1>3 DEF MayBeSent
  <2> QED
    BY <2>1, <2>2, <1>6, <1>7
<1>12. ASSUME NEW i \in Inputs, RecoverUnsent(i) PROVE Goal
  <2>1. UNCHANGED <<hostVars, received, control, message>> /\ MayBeSent(i) /\ place' = [place EXCEPT ![i] = "queued"]
    BY <1>12 DEF RecoverUnsent, MayBeSent
  <2>2. MayBeSent(j)' => MayBeSent(j)
    BY <2>1, <1>3 DEF MayBeSent
  <2> QED
    BY <2>1, <2>2, <1>6, <1>7
<1>13. ASSUME NEW i \in Inputs, PreparationEnds(i) PROVE Goal
  <2>1. UNCHANGED <<hostVars, received, place>> /\ control.current = {i} /\ control.phase = "preparing"
    BY <1>13 DEF PreparationEnds
  <2>2. MayBeSent(i) /\ (j = i => Untouched(j))
    BY <2>1, <1>7 DEF MayBeSent
  <2>3. CASE control' = Rest /\ (message' = message \/ message' = MarkFailed(message, i))
    BY <2>1, <2>2, <2>3, <1>4, <1>8, <1>9
  <2>4. CASE message' = MarkSending(message, i) /\ control' = [control EXCEPT !.phase = "marked"]
    <3>1. control'.current = {i} /\ (j # i => message'[j] = message[j])
      BY <2>1, <2>4, <1>3, <1>8
    <3>2. MayBeSent(j)' => MayBeSent(j) \/ j = i
      BY <2>1, <3>1 DEF MayBeSent
    <3> QED
      BY <2>1, <2>2, <3>1, <3>2, <1>6, <1>7
  <2> QED
    BY <1>13, <2>3, <2>4 DEF PreparationEnds
<1>14. ASSUME NEW i \in Inputs, Send(i) PROVE Goal
  <2>1. UNCHANGED <<place, journal, stdin, received>> /\ control.current = {i} /\ control.phase = "marked"
    BY <1>14 DEF Send
  <2>2. MayBeSent(i) /\ (j = i => Untouched(j))
    BY <2>1, <1>7 DEF MayBeSent
  <2>3. CASE control' = Rest /\ UNCHANGED hostVars /\ (message' = message \/ message' = MarkFailed(message, i))
    BY <2>1, <2>2, <2>3, <1>4, <1>8, <1>9
  <2>4. CASE control.open /\ message' = message /\ control' = [control EXCEPT !.phase = "delivering"]
               /\ submitted' = submitted \cup {i}
    <3>1. control'.phase = "delivering" /\ message[i] \in {"sending", "sent"} /\ place[i] = "attached"
      BY <2>1, <2>4, <1>3, <1>5 DEF HandOffInv, RowsInHand
    <3>2. MayBeSent(j)' => MayBeSent(j) /\ j # i
      BY <2>1, <2>4, <3>1 DEF MayBeSent
    <3>3. CASE j = i
      BY <2>1, <2>2, <2>4, <3>2, <3>3, <1>2 DEF OnceFor, Untouched
    <3>4. CASE j # i
      BY <2>1, <2>4, <3>2, <3>4, <1>2, <1>7, OnceStays
    <3> QED
      BY <3>3, <3>4
  <2> QED
    BY <1>14, <2>1, <2>3, <2>4 DEF Send, hostVars
<1>15. ASSUME NEW i \in Inputs, Acknowledged(i) PROVE Goal
  <2>1. UNCHANGED <<hostVars, received, place>> /\ control' = Rest
        /\ (message' = MarkSent(message, i))
    BY <1>15 DEF Acknowledged
  <2> QED
    BY <2>1, <1>4, <1>8, <1>9
<1>16. ASSUME NEW i \in Inputs, Refused(i) PROVE Goal
  <2>1. UNCHANGED <<hostVars, received, place>> /\ control' = Rest
        /\ (message' = MarkFailed(message, i) \/ message' = message)
    BY <1>16 DEF Refused
  <2>2. journal[i] = "failed"
    BY <1>16 DEF Refused
  <2>3. j = i => Untouched(j)
    BY <2>2, <1>2 DEF OnceFor, Untouched
  <2> QED
    BY <2>1, <2>3, <1>4, <1>8, <1>9
<1>17. ASSUME NEW i \in Inputs, Unconfirmed(i) PROVE Goal
  <2>1. UNCHANGED <<hostVars, received, place>> /\ control' = Rest
        /\ (message' = MarkAmbiguous(message, i))
    BY <1>17 DEF Unconfirmed
  <2> QED
    BY <2>1, <1>4, <1>8, <1>9
<1>18. ASSUME NEW i \in Inputs, HostAttempts(i) PROVE Goal
  <2>1. /\ i \in submitted /\ submitted' = submitted \ {i}
        /\ UNCHANGED <<place, message, control, stdin, received>>
        /\ journal' = IF journal[i] = "none" THEN [journal EXCEPT ![i] = "attempted"] ELSE journal
    BY <1>18 DEF HostAttempts, coordinatorVars
  <2>2. MayBeSent(j)' => MayBeSent(j)
    BY <2>1 DEF MayBeSent
  <2> QED
    BY <2>1, <2>2, <1>2, <1>3 DEF OnceFor, Untouched
<1>19. ASSUME NEW i \in Inputs, HostWrites(i) PROVE Goal
  <2>1. /\ journal[i] = "attempted" /\ UNCHANGED <<place, message, control, submitted, received>>
        /\ \/ journal' = [journal EXCEPT ![i] = "written"] /\ stdin' = stdin \cup {i}
           \/ journal' = [journal EXCEPT ![i] = "failed"] /\ stdin' = stdin
    BY <1>19 DEF HostWrites, coordinatorVars
  <2>2. MayBeSent(j)' => MayBeSent(j)
    BY <2>1 DEF MayBeSent
  <2> QED
    BY <2>1, <2>2, <1>2, <1>3 DEF OnceFor, Untouched
<1>20. ASSUME NEW i \in Inputs, PickUp(i) PROVE Goal
  <2>1. /\ i \in stdin /\ stdin' = stdin \ {i} /\ received' = [received EXCEPT ![i] = received[i] + 1]
        /\ UNCHANGED <<place, message, control, submitted, journal>>
    BY <1>20 DEF PickUp, coordinatorVars
  <2>2. MayBeSent(j)' => MayBeSent(j)
    BY <2>1 DEF MayBeSent
  <2> QED
    BY <2>1, <2>2, <1>2, <1>3 DEF OnceFor, Untouched
<1>21. ASSUME NEW i \in Inputs, StartTurn(i) PROVE Goal
  <2>1. /\ agent = "none" /\ place[i] = "queued" /\ control' = Empty /\ place' = [place EXCEPT ![i] = "turn"]
        /\ received' = [received EXCEPT ![i] = received[i] + 1] /\ UNCHANGED <<message, submitted, journal, stdin>>
    BY <1>21 DEF StartTurn
  <2>2. submitted = {} /\ stdin = {} /\ journal[j] = "none"
    BY <2>1 DEF HandOffInv, HostAtRest
  <2>3. MayBeSent(j)' => MayBeSent(j) /\ j # i
    BY <2>1, <1>3, <1>4 DEF MayBeSent
  <2>4. j = i => received[j] = 0 /\ message[j] # "sending"
    BY <2>1, <1>3, <1>5, <1>7 DEF MayBeSent, Untouched
  <2> QED
    BY <2>1, <2>2, <2>3, <2>4, <1>2, <1>3 DEF OnceFor, Untouched
<1>22. ASSUME NEW i \in Inputs, RecoveredSteering(i) PROVE Goal
  <2>1. /\ UNCHANGED <<hostVars, received, place, control>> /\ message[i] \in {"sending", "ambiguous"}
        /\ message' = MarkSent(message, i) /\ journal[i] = "written"
    BY <1>22 DEF RecoveredSteering
  <2>2. MayBeSent(j)' => MayBeSent(j)
    BY <2>1, <1>8 DEF MayBeSent
  <2> QED
    BY <2>1, <2>2, <1>6, <1>7, <1>8
<1>23. CASE RegisterSender
  <2>1. UNCHANGED <<hostVars, received, place, message>> /\ control' = [control EXCEPT !.ready = TRUE]
    BY <1>23 DEF RegisterSender
  <2>2. MayBeSent(j)' => MayBeSent(j)
    BY <2>1, <1>3 DEF MayBeSent
  <2> QED
    BY <2>1, <2>2, <1>6, <1>7
<1>24. CASE Take
  <2> DEFINE head == Head(control.waiting)
  <2>1. /\ control.waiting # <<>> /\ UNCHANGED <<hostVars, received, place, message>>
        /\ control' = [control EXCEPT !.waiting = Tail(control.waiting), !.current = {head}, !.phase = "preparing"]
    BY <1>24 DEF Take
  <2>2. head \in WaitingInputs
    BY <2>1, <1>3, TailWaits DEF HandOffInv, OneInHand, WaitingInputs
  <2> HIDE DEF head
  <2>3. control'.current = {head}
    BY <2>1, <1>3
  <2>4. j = head => MayBeSent(j)
    BY <2>2, <1>5 DEF MayBeSent
  <2>5. MayBeSent(j)' => MayBeSent(j)
    BY <2>1, <2>3, <2>4 DEF MayBeSent
  <2> QED
    BY <2>1, <2>5, <1>6, <1>7
<1>25. CASE CloseSteering
  <2>1. UNCHANGED <<hostVars, received, place>> /\ control' = [control EXCEPT !.open = FALSE, !.waiting = <<>>]
    BY <1>25 DEF CloseSteering
  <2>2. control'.current = control.current /\ control'.phase = control.phase
    BY <2>1, <1>3
  <2>3. \/ message'[j] = message[j] \/ message'[j] = "ambiguous"
        \/ message'[j] = "failed" /\ (j \in WaitingInputs \/ (j \in control.current /\ control.phase # "delivering"))
    BY <1>25, <1>8 DEF CloseSteering, WaitingInputs
  <2>4. j \in WaitingInputs \/ (j \in control.current /\ control.phase # "delivering") => MayBeSent(j)
    BY <1>3, <1>5, ControlFields DEF MayBeSent
  <2>5. MayBeSent(j)' => MayBeSent(j)
    BY <2>1, <2>2, <2>3, <2>4 DEF MayBeSent
  <2> QED
    BY <2>1, <2>3, <2>5, <1>6, <1>7
<1>26. CASE AgentEnds
  <2>1. UNCHANGED <<place, message, control, submitted, journal, stdin, received>>
    BY <1>26 DEF AgentEnds, coordinatorVars
  <2>2. MayBeSent(j)' => MayBeSent(j)
    BY <2>1 DEF MayBeSent
  <2> QED
    BY <2>1, <2>2, <1>2, <1>7, OnceStays
<1>27. CASE SettleOutcome
  <2>1. /\ UNCHANGED <<place, control, received>> /\ submitted' = {} /\ stdin' = {} /\ journal'[j] = "none"
    BY <1>27 DEF SettleOutcome
  <2>2. message'[j] = IF place[j] = "attached" THEN MarkAmbiguous(message, j)[j] ELSE message[j]
    BY <1>27 DEF SettleOutcome
  <2>3. message'[j] # "sending" /\ (message'[j] = message[j] \/ message'[j] = "ambiguous")
    BY <2>2, <1>5, <1>8
  <2>4. MayBeSent(j)' => MayBeSent(j)
    BY <2>1, <2>3 DEF MayBeSent
  <2> QED
    BY <2>1, <2>3, <2>4, <1>2 DEF OnceFor, Untouched
<1>28. CASE Die
  <2>1. UNCHANGED <<hostVars, received, place, message>> /\ control' = [Empty EXCEPT !.up = FALSE]
    BY <1>28 DEF Die
  <2> QED
    BY <2>1, <1>4, <1>9
<1>29. CASE Adopt
  <2>1. /\ UNCHANGED <<hostVars, received, place>> /\ control' = [Empty EXCEPT !.phase = "attaching"]
        /\ raced' = raced \cup {i \in submitted : message[i] = "sending" /\ message'[i] = "failed"}
    BY <1>29 DEF Adopt
  <2>2. PICK readable \in BOOLEAN : message' = [i \in Inputs |-> Judged(i, readable)]
    BY <1>29 DEF Adopt
  <2>3. message'[j] = "failed" => \/ message[j] \in {"queued", "failed"}
                                  \/ message[j] = "sending" /\ journal[j] \in {"none", "failed"}
    BY <2>2, <1>3 DEF Judged
  <2>4. message'[j] = message[j] \/ message'[j] \in {"failed", "ambiguous"}
    BY <2>2 DEF Judged
  <2>a. message[j] = "sending" /\ message'[j] = "failed" => j \notin submitted
    BY <2>1
  <2>5. message[j] = "sending" /\ message'[j] = "failed" => Untouched(j)
    BY <2>a, <2>3, <1>2 DEF OnceFor, Untouched
  <2>6. message[j] = "queued" => Untouched(j)
    BY <1>5, <1>7 DEF MayBeSent
  <2> QED
    BY <2>1, <2>3, <2>4, <2>5, <2>6, <1>4, <1>9
<1>30. CASE Attach
  <2>1. /\ UNCHANGED <<place, message, journal, stdin, received>> /\ submitted' = {}
        /\ control' = [control EXCEPT !.phase = "idle"]
    BY <1>30 DEF Attach
  <2>2. MayBeSent(j)' => MayBeSent(j)
    BY <2>1, <1>3 DEF MayBeSent
  <2> QED
    BY <2>1, <2>2, <1>2, <1>7, OnceStays
<1>31. CASE Orphaned
  <2>1. /\ UNCHANGED <<place, received>> /\ control' = Empty /\ submitted' = {} /\ stdin' = {}
        /\ journal'[j] = "none"
    BY <1>31 DEF Orphaned
  <2>2. message'[j] # "sending" /\ (message'[j] = "failed" => message[j] \in {"queued", "failed"})
          /\ (message'[j] = "queued" => message[j] = "queued")
    BY <1>31 DEF Orphaned
  <2>3. MayBeSent(j)' => MayBeSent(j)
    BY <2>1, <2>2, <1>4 DEF MayBeSent
  <2> QED
    BY <2>1, <2>2, <2>3, <1>2 DEF OnceFor, Untouched
<1> QED
  BY <1>10, <1>11, <1>12, <1>13, <1>14, <1>15, <1>16, <1>17, <1>18, <1>19, <1>20, <1>21, <1>22,
     <1>23, <1>24, <1>25, <1>26, <1>27, <1>28, <1>29, <1>30, <1>31 DEF SteeringNext

LEMMA SteeringStarts == SteeringInit => SteeringTypes /\ HandOffInv /\ SentOnce
<1> SUFFICES ASSUME SteeringInit PROVE SteeringTypes /\ HandOffInv /\ SentOnce
  OBVIOUS
<1>1. Empty \in ControlRecord /\ Empty.current = {} /\ Empty.waiting = <<>> /\ Empty.open /\ Empty.up /\ Empty.phase = "idle"
  <2>1. <<>> \in Seq(Inputs)
    OBVIOUS
  <2> QED
    BY <2>1 DEF Empty, ControlRecord
<1>2. SteeringTypes
  BY <1>1 DEF SteeringInit, SteeringTypes, MessageStates
<1>3. HandOffInv
  BY <1>1, NoneWaits DEF SteeringInit, HandOffInv, OneInHand, RowsInHand, Attached, HostAtRest,
       AcknowledgementWins,
     WaitingInputs, MayHaveReachedProvider
<1>4. SentOnce
  BY <1>1 DEF SteeringInit, SentOnce, MayBeSent, Untouched
<1> QED
  BY <1>2, <1>3, <1>4

LEMMA HandOffInvStep == SteeringTypes /\ HandOffInv /\ [SteeringNext]_steeringVars => (SteeringTypes /\ HandOffInv)'
<1>1. SteeringTypes /\ HandOffInv /\ SteeringNext => (SteeringTypes /\ HandOffInv)'
  BY SteeringTypeStep, InHandStep, RowsInHandStep, HostAtRestStep DEF HandOffInv
<1>2. SteeringTypes /\ HandOffInv /\ UNCHANGED steeringVars => (SteeringTypes /\ HandOffInv)'
  BY DEF steeringVars, coordinatorVars, hostVars, SteeringTypes, HandOffInv, OneInHand, RowsInHand,
       Attached, HostAtRest,
     AcknowledgementWins, WaitingInputs, MayHaveReachedProvider
<1> QED
  BY <1>1, <1>2

LEMMA HandOffInvariant == SteeringSpec => [](SteeringTypes /\ HandOffInv)
BY SteeringStarts, HandOffInvStep, PTL DEF SteeringSpec

\* An input whose acknowledgement reached the coordinator is shown as sent for good: no refusal,
\* close, settlement or successor that judges by the record makes it failed or uncertain.
THEOREM AcknowledgementStands == SteeringSpec => []AcknowledgementWins
<1>1. SteeringTypes /\ HandOffInv => AcknowledgementWins
  BY DEF HandOffInv
<1> QED
  BY <1>1, HandOffInvariant, PTL

\* No input is given to the agent twice, in the run it was handed to, in a run that a successor took
\* back, or in a turn of its own; but for one whose write was still on its way to the host when a
\* successor read the host's record and judged it unsent.
THEOREM InputsReachAgentOnce == SteeringSpec => []NeverReceivedTwice
<1>1. SteeringTypes /\ HandOffInv /\ SentOnce /\ [SteeringNext]_steeringVars => SentOnce'
  <2>1. SteeringTypes /\ HandOffInv /\ SentOnce /\ SteeringNext => SentOnce'
    BY SentOnceStep
  <2>2. SentOnce /\ UNCHANGED steeringVars => SentOnce'
    BY DEF steeringVars, coordinatorVars, hostVars, SentOnce, MayBeSent, Untouched
  <2> QED
    BY <2>1, <2>2
<1>2. SentOnce => NeverReceivedTwice
  BY DEF SentOnce, NeverReceivedTwice
<1> QED
  BY <1>1, <1>2, SteeringStarts, HandOffInvariant, PTL DEF SteeringSpec

-----------------------------------------------------------------------------
(* The retry breaker.  An outage's notice is between its publication and its  *)
(* mark only in the step "mark", and between the end of the outage and its    *)
(* own end only in the step "resolve".                                        *)

CountsOutages == outages \in 0..MaxOutages

NoticeInv ==
    /\ step \in {"publish", "mark"} => breaker.outage \in Outages /\ breaker.tripped
    /\ step # "resolve" =>
          \A o \in Open \ astray :
              breaker.outage = o /\ breaker.tripped /\ (step # "mark" => breaker.noticeSent)

BreakerInv == BreakerTypeOK /\ CountsOutages /\ NoticeInv

BreakerRow == [outage : 0..MaxOutages, tripped : BOOLEAN, noticeSent : BOOLEAN]

LEMMA BreakerInvInit == BreakerInit => BreakerInv
BY BreakerAssumption DEF BreakerInit, BreakerInv, BreakerTypeOK, CountsOutages, NoticeInv,
     NoRow, Open, Outages

LEMMA FailureIsCounted ==
    ASSUME BreakerInv, RecordRetryFailure
    PROVE  BreakerInv'
<1>1. /\ breaker.outage \in 0..MaxOutages /\ outages \in 0..MaxOutages /\ MaxOutages \in Nat
      /\ breaker.tripped \in BOOLEAN /\ breaker.noticeSent \in BOOLEAN
  BY BreakerAssumption DEF BreakerInv, BreakerTypeOK, CountsOutages
<1> DEFINE counted == IF breaker.outage = 0 THEN outages + 1 ELSE breaker.outage
<1>2. counted \in Outages /\ (breaker.outage # 0 => counted = breaker.outage)
  BY <1>1 DEF RecordRetryFailure, FirstFailure, Outages
<1>3. CountsOutages'
  BY <1>1 DEF RecordRetryFailure, FirstFailure, CountsOutages
<1>4. PICK trips \in BOOLEAN :
          /\ breaker' = [outage |-> counted, tripped |-> breaker.tripped \/ trips, noticeSent |-> breaker.noticeSent]
          /\ step' = IF breaker'.tripped /\ ~breaker.noticeSent THEN "publish" ELSE "rest"
  BY DEF RecordRetryFailure
<1> HIDE DEF counted
<1>5. /\ breaker'.outage = counted /\ breaker'.noticeSent = breaker.noticeSent
      /\ breaker.tripped => breaker'.tripped
  BY <1>4
<1>6. step' \in {"publish", "rest"} /\ (step' = "publish" => breaker'.tripped)
  BY <1>4
<1>7. breaker' \in BreakerRow
  BY <1>1, <1>2, <1>4 DEF BreakerRow, Outages
<1>8. BreakerTypeOK'
  BY <1>6, <1>7 DEF RecordRetryFailure, BreakerInv, BreakerTypeOK, BreakerRow
<1>9. step = "rest" /\ notice' = notice /\ astray' = astray
  BY DEF RecordRetryFailure
<1>10. \A o \in Open \ astray : o # 0
  BY <1>1 DEF Open, Outages
<1>11. NoticeInv'
  BY <1>2, <1>5, <1>6, <1>9, <1>10 DEF BreakerInv, NoticeInv, Open
<1> QED
  BY <1>3, <1>8, <1>11 DEF BreakerInv

LEMMA BreakerInvStep == BreakerInv /\ [BreakerNext]_breakerVars => BreakerInv'
<1> SUFFICES ASSUME BreakerInv, [BreakerNext]_breakerVars PROVE BreakerInv'
  OBVIOUS
<1>1. /\ breaker \in BreakerRow /\ DOMAIN breaker = {"outage", "tripped", "noticeSent"}
      /\ notice \in [Outages -> {"none", "open", "settled"}]
      /\ MaxOutages \in Nat
  BY BreakerAssumption DEF BreakerInv, BreakerTypeOK, BreakerRow
<1>2. CASE RecordRetryFailure
  BY <1>2, FailureIsCounted
<1>3. CASE PublishNotice
  <2>1. breaker.outage \in Outages /\ breaker.tripped
    BY <1>3 DEF PublishNotice, BreakerInv, NoticeInv
  <2>2. /\ BreakerTypeOK' /\ CountsOutages'
    BY <1>1, <1>3, <2>1 DEF PublishNotice, BreakerInv, BreakerTypeOK, CountsOutages
  <2>3. Open' \subseteq Open \cup {breaker.outage}
    BY <1>1, <1>3, <2>1 DEF PublishNotice, Open
  <2>4. \/ step' = "mark" /\ astray' = astray
        \/ step' = "rest" /\ astray' = astray \cup {breaker.outage}
        \/ step' = "rest" /\ UNCHANGED <<notice, astray>>
    BY <1>3 DEF PublishNotice
  <2>5. breaker' = breaker /\ step = "publish"
    BY <1>3 DEF PublishNotice
  <2>6. step' = "rest" => Open' \ astray' \subseteq Open \ astray
    BY <2>3, <2>4 DEF Open
  <2>7. step' # "rest" => astray' = astray
    BY <2>4
  <2>8. NoticeInv'
    BY <2>1, <2>3, <2>4, <2>5, <2>6, <2>7 DEF BreakerInv, NoticeInv
  <2> QED
    BY <2>2, <2>8 DEF BreakerInv
<1>4. CASE MarkNoticeSent
  <2>1. breaker'.outage = breaker.outage /\ breaker'.tripped = breaker.tripped /\ breaker'.noticeSent
    BY <1>1, <1>4 DEF MarkNoticeSent
  <2>2. breaker' \in BreakerRow
    BY <1>1, <1>4 DEF MarkNoticeSent, BreakerRow
  <2>3. step = "mark" /\ step' = "rest" /\ astray' = astray \ {breaker.outage} /\ UNCHANGED <<notice, outages>>
    BY <1>4 DEF MarkNoticeSent
  <2>4. BreakerTypeOK' /\ CountsOutages'
    BY <2>2, <2>3 DEF BreakerInv, BreakerTypeOK, BreakerRow, CountsOutages
  <2>5. NoticeInv'
    BY <2>1, <2>3 DEF BreakerInv, NoticeInv, Open
  <2> QED
    BY <2>4, <2>5 DEF BreakerInv
<1>5. CASE ClearRetryBreaker
  BY <1>1, <1>5 DEF ClearRetryBreaker, NoRow, BreakerInv, BreakerTypeOK, CountsOutages,
       NoticeInv, Open, Outages
<1>6. ASSUME NEW S \in SUBSET Open, notice' = Settled(S) PROVE Open' = Open \ S /\ notice' \in [Outages -> {"none", "open", "settled"}]
  BY <1>1, <1>6 DEF Settled, Open
<1>7. CASE ResolveRetryNotices
  <2>1. PICK S \in SUBSET Open : notice' = Settled(S) /\ astray' = (astray \ S) \cup (Open \ S)
    BY <1>7 DEF ResolveRetryNotices
  <2>2. Open' = Open \ S /\ notice' \in [Outages -> {"none", "open", "settled"}]
    BY <2>1, <1>6
  <2>3. UNCHANGED <<breaker, outages>> /\ step' = "rest"
    BY <1>7 DEF ResolveRetryNotices
  <2>4. BreakerTypeOK' /\ CountsOutages'
    BY <2>1, <2>2, <2>3 DEF BreakerInv, BreakerTypeOK, CountsOutages, Open
  <2>5. Open' \ astray' = {}
    BY <2>1, <2>2
  <2> QED
    BY <2>3, <2>4, <2>5 DEF BreakerInv, NoticeInv
<1>8. CASE Crash
  <2>1. /\ step # "down" /\ step' = "down" /\ UNCHANGED <<breaker, notice, outages>>
        /\ astray' = astray \cup CASE step = "resolve" -> Open [] step = "mark" -> {breaker.outage} [] OTHER -> {}
    BY <1>8 DEF Crash
  <2>2. /\ step = "resolve" => astray' = astray \cup Open
        /\ step = "mark" => astray' = astray \cup {breaker.outage}
        /\ step \notin {"resolve", "mark"} => astray' = astray
    BY <2>1
  <2>3. BreakerTypeOK' /\ CountsOutages'
    BY <2>1, <2>2 DEF BreakerInv, BreakerTypeOK, CountsOutages, NoticeInv, Open
  <2>4. NoticeInv'
    BY <2>1, <2>2 DEF BreakerInv, NoticeInv, Open
  <2> QED
    BY <2>3, <2>4 DEF BreakerInv
<1>9. CASE Restart
  <2>1. step = "down" /\ step' = "rest" /\ UNCHANGED <<breaker, outages>>
    BY <1>9 DEF Restart
  <2>2. CASE breaker.outage > 0
    BY <1>9, <2>1, <2>2 DEF Restart, BreakerInv, BreakerTypeOK, CountsOutages, NoticeInv, Open
  <2>3. CASE ~(breaker.outage > 0)
    <3>1. PICK S \in SUBSET Open : notice' = Settled(S) /\ astray' = Open \ S
      BY <1>9, <2>3 DEF Restart
    <3>2. Open' = Open \ S /\ notice' \in [Outages -> {"none", "open", "settled"}]
      BY <3>1, <1>6
    <3>3. BreakerTypeOK' /\ CountsOutages'
      BY <3>1, <3>2, <2>1 DEF BreakerInv, BreakerTypeOK, CountsOutages, Open
    <3>4. Open' \ astray' = {}
      BY <3>1, <3>2
    <3> QED
      BY <2>1, <3>3, <3>4 DEF BreakerInv, NoticeInv
  <2> QED
    BY <2>2, <2>3
<1>10. CASE UNCHANGED breakerVars
  BY <1>10 DEF breakerVars, BreakerInv, BreakerTypeOK, CountsOutages, NoticeInv, Open
<1> QED
  BY <1>2, <1>3, <1>4, <1>5, <1>7, <1>8, <1>9, <1>10 DEF BreakerNext

LEMMA BreakerHolds == BreakerSpec => []BreakerInv
BY BreakerInvInit, BreakerInvStep, PTL DEF BreakerSpec

\* Whatever dies or throws between a breaker's row, its notice and the mark, a notice that is open
\* and did not go astray is about the outage that is still counted (retry-breaker-notice.ts).
THEOREM NoticesAreCurrent == BreakerSpec => []NoticeIsCurrent
<1>1. BreakerInv => NoticeIsCurrent
  BY DEF BreakerInv, NoticeInv, NoticeIsCurrent
<1> QED
  BY <1>1, BreakerHolds, PTL

-----------------------------------------------------------------------------
(* Proofs about the commands of a person: what is shown of a command is what   *)
(* its owner did, and the owner carries commands out in the order of their    *)
(* stream, for any stream and any number of claims and processes.             *)

CommandStatus == {"absent", "pending", "delivering"} \cup Terminal
CommandRowType == [status : CommandStatus, holder : [claim : Nat, worker : Nat], prepared : BOOLEAN,
                   heldAfterGap : BOOLEAN]
WorkerPhase == {"down", "idle", "asking", "prepare", "preparing", "prepared", "delivering", "settling"}
CommandWorkerType == [id : Nat, phase : WorkerPhase, claim : Nat, command : SUBSET Commands]
AskType == [kind : {"claim"}, claim : Nat, worker : Nat]
VerdictType == [kind : {"prepare", "delivered", "refused", "retry"}, claim : Nat, command : Commands]
Decisions == {"none", "accepted", "canceled"}

CommandTypes ==
    /\ commandKind \in [Commands -> {"input", "creation", "stop", "cancel"}]
    /\ commandRow \in [Commands -> CommandRowType]
    /\ nextSequence \in Nat /\ missingSlots \subseteq Commands /\ lateReleases \subseteq Commands
    /\ commandWorker \in CommandWorkerType
    /\ commandRequests \subseteq AskType \cup VerdictType
    /\ deliveries \subseteq [command : Commands, claim : Nat]
    /\ ownerDecision \in [Commands -> Decisions] /\ turnedDown \subseteq Commands
    /\ applied \subseteq Commands /\ commandClaims \in Nat

(* What has no preparation was never on its way to the owner.                 *)
Untried(c) ==
    /\ commandRow[c].status = "absent" => ~commandRow[c].prepared
    /\ ~commandRow[c].prepared =>
          /\ ownerDecision[c] \in {"none", "canceled"} /\ c \notin applied \cup turnedDown
          /\ \A delivery \in deliveries : delivery.command # c
          /\ commandWorker.phase \in {"prepared", "delivering"} => c \notin commandWorker.command

(* What a row shows is final.                                                 *)
Shown(c) ==
    /\ commandRow[c].status = "delivered" => ownerDecision[c] # "none"
    /\ commandRow[c].status = "refused" => ~commandRow[c].prepared \/ c \in turnedDown

(* Whatever came into a worker's hands was the head of the stream, or was let *)
(* through late.                                                              *)
InPlace(c) ==
    /\ commandRow[c].status = "delivering" \/ commandRow[c].prepared =>
          /\ c \in missingSlots => c \in lateReleases
          /\ Overtakes(c) \/ c <= nextSequence
    /\ c < nextSequence => commandRow[c].status \in Terminal \/ c \in missingSlots
    /\ c \in missingSlots => c < nextSequence
    /\ commandRow[c].heldAfterGap \/ c \in lateReleases => c \in missingSlots

AtCommand == commandWorker.phase \in {"prepare", "preparing", "prepared", "delivering"}

(* A claim is asked for once, and nothing of it is known before it is served. *)
ClaimKnown(request) ==
    /\ request.claim <= commandClaims
    /\ request.kind = "claim" =>
          /\ \A other \in commandRequests : other.claim = request.claim => other = request
          /\ \A c \in Commands : commandRow[c].status = "delivering" => commandRow[c].holder.claim # request.claim
          /\ commandWorker.claim = request.claim => ~AtCommand

(* A verdict on its way is true of the command its claim still holds.         *)
VerdictTrue(request) ==
    /\ request.kind = "delivered" => ownerDecision[request.command] # "none"
    /\ request.kind = "refused" =>
          /\ \/ request.command \in turnedDown
             \/ ~HeldBy(request) \/ ~commandRow[request.command].prepared
          /\ \A other \in commandRequests : other.kind = "prepare" => other.claim # request.claim
    /\ AtCommand /\ request.claim = commandWorker.claim =>
          /\ request.kind = "prepare" /\ commandWorker.phase = "preparing"
          /\ commandWorker.command = {request.command}

WorkerKnown ==
    /\ commandWorker.claim = commandClaims
    /\ \A c, d \in commandWorker.command : c = d
    /\ \A c \in Commands : commandRow[c].status = "delivering" => commandRow[c].holder.claim <= commandClaims
    /\ \A c \in commandWorker.command :
          commandWorker.phase = "prepare" /\ commandRow[c].status = "delivering"
              /\ commandRow[c].holder.claim = commandWorker.claim => ~commandRow[c].prepared

CommandInv ==
    /\ CommandTypes /\ WorkerKnown
    /\ \A c \in Commands : Untried(c) /\ Shown(c) /\ InPlace(c)
    /\ \A request \in commandRequests : ClaimKnown(request) /\ VerdictTrue(request)

-----------------------------------------------------------------------------
(* The fields of rows, workers and requests.                                  *)

LEMMA CommandFields ==
    ASSUME CommandTypes, NEW c \in Commands
    PROVE  /\ c \in Nat /\ commandRow[c] \in CommandRowType /\ ownerDecision[c] \in Decisions
           /\ commandRow[c].status \in CommandStatus /\ commandRow[c].prepared \in BOOLEAN
           /\ commandRow[c].heldAfterGap \in BOOLEAN
           /\ commandRow[c].holder \in [claim : Nat, worker : Nat] /\ commandRow[c].holder.claim \in Nat
           /\ DOMAIN commandRow[c] = {"status", "holder", "prepared", "heldAfterGap"}
<1>1. c \in Nat /\ commandRow[c] \in CommandRowType /\ ownerDecision[c] \in Decisions
  BY CommandAssumption DEF CommandTypes
<1> QED
  BY <1>1 DEF CommandRowType

LEMMA CommandUpdates ==
    ASSUME NEW row \in CommandRowType, NEW status \in CommandStatus, NEW holder \in [claim : Nat, worker : Nat],
           NEW held \in BOOLEAN
    PROVE  /\ [row EXCEPT !.status = status] \in CommandRowType
           /\ [row EXCEPT !.status = status, !.heldAfterGap = held] \in CommandRowType
           /\ [row EXCEPT !.status = status, !.holder = holder] \in CommandRowType
           /\ [row EXCEPT !.heldAfterGap = FALSE] \in CommandRowType
           /\ [row EXCEPT !.prepared = TRUE] \in CommandRowType
BY DEF CommandRowType

LEMMA WorkerFields ==
    ASSUME CommandTypes
    PROVE  /\ commandWorker.id \in Nat /\ commandWorker.phase \in WorkerPhase /\ commandWorker.claim \in Nat
           /\ commandWorker.command \subseteq Commands
           /\ DOMAIN commandWorker = {"id", "phase", "claim", "command"}
BY DEF CommandTypes, CommandWorkerType

LEMMA WorkerUpdates ==
    ASSUME CommandTypes, NEW phase \in WorkerPhase, NEW claim \in Nat, NEW command \in SUBSET Commands, NEW id \in Nat
    PROVE  /\ [commandWorker EXCEPT !.phase = phase] \in CommandWorkerType
           /\ [commandWorker EXCEPT !.phase = phase, !.command = command] \in CommandWorkerType
           /\ [commandWorker EXCEPT !.phase = phase, !.claim = claim, !.command = command] \in CommandWorkerType
           /\ [commandWorker EXCEPT !.id = id, !.phase = phase] \in CommandWorkerType
BY DEF CommandTypes, CommandWorkerType

LEMMA RequestFields ==
    ASSUME CommandTypes, NEW request \in commandRequests
    PROVE  /\ request.claim \in Nat
           /\ request.kind \in {"claim", "prepare", "delivered", "refused", "retry"}
           /\ request.kind = "claim" => request.worker \in Nat
           /\ request.kind # "claim" => request.command \in Commands
<1>1. CASE request \in AskType
  BY <1>1 DEF AskType
<1>2. CASE request \in VerdictType
  BY <1>2 DEF VerdictType
<1> QED
  BY <1>1, <1>2 DEF CommandTypes

(* The head of the stream.                                                    *)

LEMMA LeastOf ==
    ASSUME NEW T \in SUBSET Nat, T # {}
    PROVE  \E n \in T : \A m \in T : n <= m
<1>1. PICK n \in T : \A m \in T : ~(<<m, n>> \in OpToRel(<, Nat))
  BY WFMin, NatLessThanWellFounded
<1>2. \A m \in T : ~(m < n)
  BY <1>1 DEF OpToRel
<1> QED
  BY <1>2

LEMMA AdvancedIs ==
    ASSUME CommandTypes, NEW row, NEW missing
    PROVE  /\ Advanced(row, missing) \in Nat /\ nextSequence <= Advanced(row, missing)
           /\ \A c \in Commands : nextSequence <= c /\ c < Advanced(row, missing) => Passable(row, missing, c)
           /\ Advanced(row, missing) \in Commands => ~Passable(row, missing, Advanced(row, missing))
<1> DEFINE Stands(n) == ~(n \in Commands /\ Passable(row, missing, n))
           T == {n \in Nat : nextSequence <= n /\ Stands(n)}
           IsHead(n) == /\ nextSequence <= n
                        /\ \A c \in nextSequence..(n - 1) : c \in Commands /\ Passable(row, missing, c)
                        /\ n \in Commands => ~Passable(row, missing, n)
           Heads == {nextSequence} \cup {c + 1 : c \in Commands}
<1>n. nextSequence \in Nat /\ Commands \subseteq Nat /\ IsFiniteSet(Commands)
  BY CommandAssumption DEF CommandTypes
<1>1. T # {}
  <2> SUFFICES ASSUME T = {} PROVE FALSE
    OBVIOUS
  <2> DEFINE size == Cardinality(Commands)
  <2>1. size \in Nat
    BY <1>n, FS_CardinalityType
  <2>2. Cardinality(nextSequence..(nextSequence + size)) = size + 1
    BY <1>n, <2>1, FS_Interval
  <2>3. nextSequence..(nextSequence + size) \subseteq Commands
    BY <1>n, <2>1
  <2>4. Cardinality(nextSequence..(nextSequence + size)) <= size
    BY <1>n, <2>3, FS_Subset
  <2> QED
    BY <2>1, <2>2, <2>4
<1>2. PICK n \in T : \A m \in T : n <= m
  BY <1>1, LeastOf
<1>3. IsHead(n)
  <2>1. \A c \in nextSequence..(n - 1) : c \in Nat /\ nextSequence <= c /\ c < n
    BY <1>n, <1>2
  <2> QED
    BY <1>2, <2>1
<1>4. n \in Heads
  <2>1. CASE n = nextSequence
    BY <2>1
  <2>2. CASE n # nextSequence
    <3>1. n - 1 \in nextSequence..(n - 1) /\ n = (n - 1) + 1
      BY <1>n, <1>2, <2>2
    <3>2. n - 1 \in Commands
      BY <1>3, <3>1
    <3> QED
      BY <3>1, <3>2
  <2> QED
    BY <2>1, <2>2
<1>5. Advanced(row, missing) = CHOOSE m \in Heads : IsHead(m)
  BY DEF Advanced
<1>6. Advanced(row, missing) \in Heads /\ IsHead(Advanced(row, missing))
  BY <1>3, <1>4, <1>5
<1>7. Advanced(row, missing) \in Nat
  BY <1>6, <1>n
<1>8. \A c \in Commands : nextSequence <= c /\ c < Advanced(row, missing) =>
          c \in nextSequence..(Advanced(row, missing) - 1)
  BY <1>7, <1>n
<1> QED
  BY <1>6, <1>7, <1>8

-----------------------------------------------------------------------------
(* The ingress alone: what it does to a row no worker holds.                  *)

LEMMA HeadMoves ==
    ASSUME CommandTypes,
           nextSequence' = Advanced(commandRow', missingSlots') \/ UNCHANGED nextSequence
    PROVE  /\ nextSequence' \in Nat /\ nextSequence <= nextSequence'
           /\ \A c \in Commands : nextSequence <= c /\ c < nextSequence' =>
                  commandRow'[c].status \in Terminal \/ c \in missingSlots'
<1>n. nextSequence \in Nat /\ Commands \subseteq Nat
  BY CommandAssumption DEF CommandTypes
<1>1. CASE UNCHANGED nextSequence
  BY <1>1, <1>n
<1>2. CASE nextSequence' = Advanced(commandRow', missingSlots')
  <2>1. /\ nextSequence' \in Nat /\ nextSequence <= nextSequence'
        /\ \A c \in Commands : nextSequence <= c /\ c < nextSequence' => Passable(commandRow', missingSlots', c)
    BY <1>2, AdvancedIs
  <2> QED
    BY <2>1 DEF Passable
<1> QED
  BY <1>1, <1>2

IngressRow(c) ==
    /\ commandRow'[c].prepared = commandRow[c].prepared /\ commandRow'[c].holder = commandRow[c].holder
    /\ \/ commandRow'[c].status = commandRow[c].status
          /\ commandRow'[c].heldAfterGap \in {commandRow[c].heldAfterGap, FALSE}
       \/ commandRow[c].status = "absent" /\ commandRow'[c].status \in {"pending", "refused"}
          /\ (commandRow'[c].heldAfterGap => commandRow[c].heldAfterGap \/ c \in missingSlots)
       \/ commandRow[c].status = "pending" /\ commandRow'[c].status = "canceled"
          /\ commandRow'[c].heldAfterGap = commandRow[c].heldAfterGap

LEMMA IngressKeeps ==
    ASSUME CommandInv, CommandTypes', \A c \in Commands : IngressRow(c),
           UNCHANGED <<commandKind, commandWorker, commandRequests, deliveries, ownerDecision, turnedDown, applied,
                       commandClaims>>,
           missingSlots \subseteq missingSlots', lateReleases \subseteq lateReleases',
           lateReleases' \subseteq missingSlots',
           \A c \in missingSlots' \ missingSlots : commandRow[c].status = "absent" /\ c < nextSequence',
           nextSequence' = Advanced(commandRow', missingSlots') \/ UNCHANGED nextSequence
    PROVE  CommandInv'
<1>t. CommandTypes
  BY DEF CommandInv
<1>h. /\ nextSequence' \in Nat /\ nextSequence <= nextSequence' /\ nextSequence \in Nat
      /\ \A c \in Commands : nextSequence <= c /\ c < nextSequence' =>
             commandRow'[c].status \in Terminal \/ c \in missingSlots'
  BY <1>t, HeadMoves DEF CommandTypes
<1>r. \A c \in Commands : /\ commandRow'[c].prepared = commandRow[c].prepared
                          /\ commandRow'[c].holder = commandRow[c].holder
                          /\ commandRow'[c].status = "delivering" <=> commandRow[c].status = "delivering"
                          /\ commandRow'[c].status = "absent" => commandRow[c].status = "absent"
  BY DEF IngressRow
<1>1. \A c \in Commands : Untried(c)'
  BY <1>r DEF CommandInv, Untried
<1>2. \A c \in Commands : Shown(c)'
  <2> SUFFICES ASSUME NEW c \in Commands PROVE Shown(c)'
    OBVIOUS
  <2>1. Shown(c) /\ Untried(c) /\ IngressRow(c)
    BY DEF CommandInv
  <2> QED
    BY <2>1 DEF Shown, Untried, IngressRow
<1>3. \A c \in Commands : InPlace(c)'
  <2> SUFFICES ASSUME NEW c \in Commands PROVE InPlace(c)'
    OBVIOUS
  <2>1. InPlace(c) /\ Untried(c) /\ IngressRow(c) /\ c \in Nat
    BY <1>t, CommandFields DEF CommandInv
  <2>2. commandRow'[c].status = "delivering" \/ commandRow'[c].prepared =>
            /\ c \in missingSlots' => c \in lateReleases'
            /\ Overtakes(c)' \/ c <= nextSequence'
    <3> SUFFICES ASSUME commandRow[c].status = "delivering" \/ commandRow[c].prepared
                 PROVE  (c \in missingSlots' => c \in lateReleases') /\ (Overtakes(c)' \/ c <= nextSequence')
      BY <1>r
    <3>1. (c \in missingSlots => c \in lateReleases) /\ (Overtakes(c) \/ c <= nextSequence)
      BY <2>1 DEF InPlace
    <3>2. c \in missingSlots' => c \in missingSlots
      BY <2>1 DEF Untried
    <3> QED
      BY <1>h, <2>1, <3>1, <3>2 DEF Overtakes
  <2>3. c < nextSequence' => commandRow'[c].status \in Terminal \/ c \in missingSlots'
    <3>1. CASE nextSequence <= c
      BY <1>h, <3>1
    <3>2. CASE c < nextSequence
      BY <2>1, <3>2 DEF InPlace, IngressRow, Terminal
    <3> QED
      BY <1>h, <2>1, <3>1, <3>2
  <2>4. c \in missingSlots' => c < nextSequence'
    BY <1>h, <2>1 DEF InPlace
  <2>5. commandRow'[c].heldAfterGap \/ c \in lateReleases' => c \in missingSlots'
    BY <2>1 DEF InPlace, IngressRow
  <2> QED
    BY <2>2, <2>3, <2>4, <2>5 DEF InPlace
<1>4. WorkerKnown'
  BY <1>r, <1>t, WorkerFields DEF CommandInv, WorkerKnown
<1>5. \A request \in commandRequests' : ClaimKnown(request)' /\ VerdictTrue(request)'
  <2> SUFFICES ASSUME NEW request \in commandRequests PROVE ClaimKnown(request)' /\ VerdictTrue(request)'
    OBVIOUS
  <2>1. ClaimKnown(request) /\ VerdictTrue(request) /\ (request.kind = "refused" => request.command \in Commands)
    BY <1>t, RequestFields DEF CommandInv
  <2>2. ClaimKnown(request)'
    BY <1>r, <2>1 DEF ClaimKnown, AtCommand
  <2>3. VerdictTrue(request)'
    BY <1>r, <2>1 DEF VerdictTrue, AtCommand, HeldBy
  <2> QED
    BY <2>2, <2>3
<1> QED
  BY <1>1, <1>2, <1>3, <1>4, <1>5 DEF CommandInv

LEMMA InvOfRetained ==
    ASSUME CommandInv, UNCHANGED commandKind, NEW c \in Commands,
           RetainHumanCommand(c) \/ RetainPreCustodyRefusal(c) \/ WithdrawPendingCreation(c)
    PROVE  CommandInv'
<1>t. CommandTypes
  BY DEF CommandInv
<1>u. /\ UNCHANGED <<commandKind, missingSlots, lateReleases, commandWorker, commandRequests, deliveries,
                     ownerDecision,
                     turnedDown, applied, commandClaims>>
      /\ nextSequence' = Advanced(commandRow', missingSlots')
  BY DEF RetainHumanCommand, RetainPreCustodyRefusal, WithdrawPendingCreation
<1>1. commandRow' \in [Commands -> CommandRowType] /\ \A d \in Commands : IngressRow(d)
  <2>1. CASE RetainHumanCommand(c)
    <3>1. PICK target \in Commands, freezes \in BOOLEAN :
              /\ commandRow[c].status = "absent" /\ (freezes => commandRow[target].status = "pending")
              /\ commandRow' = [d \in Commands |->
                     IF d = c THEN [commandRow[c] EXCEPT !.status = "pending", !.heldAfterGap = c \in missingSlots]
                     ELSE IF freezes /\ d = target THEN [commandRow[d] EXCEPT !.status = "canceled"]
                     ELSE commandRow[d]]
      BY <2>1, CommandAssumption DEF RetainHumanCommand
    <3>2. \A d \in Commands :
              /\ [commandRow[d] EXCEPT !.status = "pending", !.heldAfterGap = c \in missingSlots] \in CommandRowType
              /\ [commandRow[d] EXCEPT !.status = "canceled"] \in CommandRowType /\ commandRow[d] \in CommandRowType
      <4> SUFFICES ASSUME NEW d \in Commands
                   PROVE  /\ [commandRow[d] EXCEPT !.status = "pending", !.heldAfterGap = c \in missingSlots]
                                \in CommandRowType
                          /\ [commandRow[d] EXCEPT !.status = "canceled"] \in CommandRowType
                          /\ commandRow[d] \in CommandRowType
        OBVIOUS
      <4> DEFINE held == c \in missingSlots
      <4>1. held \in BOOLEAN /\ commandRow[d] \in CommandRowType
        BY <1>t, CommandFields
      <4>2. \A status \in CommandStatus : [commandRow[d] EXCEPT !.status = status] \in CommandRowType
        BY <4>1 DEF CommandRowType
      <4>3. [commandRow[d] EXCEPT !.status = "pending", !.heldAfterGap = held] \in CommandRowType
        <5> HIDE DEF held
        <5> QED
          BY <4>1 DEF CommandRowType, CommandStatus
      <4> QED
        BY <4>1, <4>2, <4>3 DEF CommandStatus, Terminal
    <3>3. commandRow' \in [Commands -> CommandRowType]
      BY <3>1, <3>2
    <3>4. ASSUME NEW d \in Commands PROVE IngressRow(d)
      <4>1. DOMAIN commandRow[d] = {"status", "holder", "prepared", "heldAfterGap"}
        BY <1>t, CommandFields
      <4>2. CASE d = c
        <5>1. commandRow'[d] = [commandRow[d] EXCEPT !.status = "pending", !.heldAfterGap = c \in missingSlots]
          BY <3>1, <4>2
        <5> QED
          BY <3>1, <4>1, <4>2, <5>1 DEF IngressRow
      <4>3. CASE d # c /\ freezes /\ d = target
        <5>1. commandRow'[d] = [commandRow[d] EXCEPT !.status = "canceled"]
          BY <3>1, <4>3
        <5> QED
          BY <3>1, <4>1, <4>3, <5>1 DEF IngressRow
      <4>4. CASE d # c /\ ~(freezes /\ d = target)
        <5>1. commandRow'[d] = commandRow[d]
          BY <3>1, <4>4
        <5> QED
          BY <5>1 DEF IngressRow
      <4> QED
        BY <4>2, <4>3, <4>4
    <3> QED
      BY <3>3, <3>4
  <2>2. CASE RetainPreCustodyRefusal(c) \/ WithdrawPendingCreation(c)
    <3>1. PICK status \in {"refused", "canceled"} :
              /\ commandRow' = [commandRow EXCEPT ![c] = [commandRow[c] EXCEPT !.status = status]]
              /\ \/ status = "refused" /\ commandRow[c].status = "absent"
                 \/ status = "canceled" /\ commandRow[c].status = "pending"
      BY <1>t, <2>2 DEF RetainPreCustodyRefusal, WithdrawPendingCreation, CommandTypes
    <3>2. [commandRow[c] EXCEPT !.status = status] \in CommandRowType
      BY <1>t, CommandFields, CommandUpdates DEF CommandStatus, Terminal
    <3>3. commandRow' \in [Commands -> CommandRowType]
      BY <1>t, <3>1, <3>2 DEF CommandTypes
    <3>4. ASSUME NEW d \in Commands PROVE IngressRow(d)
      <4>1. CASE d = c
        <5>1. commandRow'[d] = [commandRow[d] EXCEPT !.status = status]
          BY <1>t, <3>1, <4>1 DEF CommandTypes
        <5>2. DOMAIN commandRow[d] = {"status", "holder", "prepared", "heldAfterGap"}
          BY <1>t, CommandFields
        <5> QED
          BY <3>1, <4>1, <5>1, <5>2 DEF IngressRow
      <4>2. CASE d # c
        <5>1. commandRow'[d] = commandRow[d]
          BY <1>t, <3>1, <4>2 DEF CommandTypes
        <5> QED
          BY <5>1 DEF IngressRow
      <4> QED
        BY <4>1, <4>2
    <3> QED
      BY <3>3, <3>4
  <2> QED
    BY <2>1, <2>2
<1>2. CommandTypes'
  <2>1. nextSequence' \in Nat
    BY <1>t, <1>u, HeadMoves
  <2> QED
    BY <1>t, <1>u, <1>1, <2>1 DEF CommandTypes
<1>3. lateReleases' \subseteq missingSlots'
  BY <1>t, <1>u DEF CommandInv, InPlace, CommandTypes
<1> QED
  BY <1>u, <1>1, <1>2, <1>3, IngressKeeps

LEMMA InvOfReleased ==
    ASSUME CommandInv, UNCHANGED commandKind, NEW c \in Commands, ReleaseMissingSlot(c) \/ ReleaseHeldLate(c)
    PROVE  CommandInv'
<1>t. CommandTypes
  BY DEF CommandInv
<1>u. UNCHANGED <<commandKind, commandWorker, commandRequests, deliveries, ownerDecision, turnedDown, applied,
                  commandClaims>>
  BY DEF ReleaseMissingSlot, ReleaseHeldLate
<1>l. lateReleases \subseteq missingSlots
  BY <1>t DEF CommandInv, InPlace, CommandTypes
<1>1. CASE ReleaseMissingSlot(c)
  <2>1. /\ nextSequence = c /\ commandRow[c].status = "absent" /\ missingSlots' = missingSlots \cup {c}
        /\ nextSequence' = Advanced(commandRow, missingSlots') /\ UNCHANGED <<commandRow, lateReleases>>
    BY <1>1 DEF ReleaseMissingSlot
  <2>2. nextSequence' \in Nat /\ nextSequence <= nextSequence' /\ nextSequence' # c
    <3>1. /\ nextSequence' \in Nat /\ nextSequence <= nextSequence'
          /\ nextSequence' \in Commands => ~Passable(commandRow, missingSlots', nextSequence')
      BY <1>t, <2>1, AdvancedIs
    <3>2. Passable(commandRow, missingSlots', c)
      BY <2>1 DEF Passable
    <3> QED
      BY <3>1, <3>2
  <2>3. c < nextSequence'
    BY <1>t, <2>1, <2>2, CommandFields
  <2>4. CommandTypes'
    BY <1>t, <1>u, <2>1, <2>2 DEF CommandTypes
  <2>5. \A d \in Commands : IngressRow(d)
    BY <2>1 DEF IngressRow
  <2> QED
    BY <1>u, <1>l, <2>1, <2>3, <2>4, <2>5, IngressKeeps
<1>2. CASE ReleaseHeldLate(c)
  <2>1. /\ commandRow' = [commandRow EXCEPT ![c] = [commandRow[c] EXCEPT !.heldAfterGap = FALSE]]
        /\ lateReleases' = lateReleases \cup {c} /\ commandRow[c].heldAfterGap
        /\ UNCHANGED <<nextSequence, missingSlots>>
    BY <1>t, <1>2 DEF ReleaseHeldLate, CommandTypes
  <2>2. [commandRow[c] EXCEPT !.heldAfterGap = FALSE] \in CommandRowType
    BY <1>t, CommandFields, CommandUpdates DEF CommandStatus
  <2>3. CommandTypes'
    BY <1>t, <1>u, <2>1, <2>2 DEF CommandTypes
  <2>4. ASSUME NEW d \in Commands PROVE IngressRow(d)
    <3>1. DOMAIN commandRow[d] = {"status", "holder", "prepared", "heldAfterGap"}
      BY <1>t, CommandFields
    <3>2. CASE d = c
      <4>1. commandRow'[d] = [commandRow[d] EXCEPT !.heldAfterGap = FALSE]
        BY <1>t, <2>1, <3>2 DEF CommandTypes
      <4> QED
        BY <3>1, <4>1 DEF IngressRow
    <3>3. CASE d # c
      <4>1. commandRow'[d] = commandRow[d]
        BY <1>t, <2>1, <3>3 DEF CommandTypes
      <4> QED
        BY <4>1 DEF IngressRow
    <3> QED
      BY <3>2, <3>3
  <2>5. c \in missingSlots
    BY <2>1 DEF CommandInv, InPlace
  <2> QED
    BY <1>u, <1>l, <2>1, <2>3, <2>4, <2>5, IngressKeeps
<1> QED
  BY <1>1, <1>2

-----------------------------------------------------------------------------
(* The worker alone: rows and decisions rest.                                 *)

rowsAndDecisions == <<commandKind, commandRow, nextSequence, missingSlots, lateReleases, ownerDecision, turnedDown, applied>>

LEMMA WorkerKeeps ==
    ASSUME CommandInv, CommandTypes', WorkerKnown', UNCHANGED rowsAndDecisions,
           \A delivery \in deliveries' : delivery \in deliveries \/ commandRow[delivery.command].prepared,
           commandWorker'.phase \in {"prepared", "delivering"} =>
               \A c \in commandWorker'.command : commandRow[c].prepared,
           \A request \in commandRequests' : ClaimKnown(request)' /\ VerdictTrue(request)'
    PROVE  CommandInv'
<1>u. UNCHANGED <<commandKind, commandRow, nextSequence, missingSlots, lateReleases, ownerDecision, turnedDown,
                  applied>>
  BY DEF rowsAndDecisions
<1>1. ASSUME NEW c \in Commands PROVE Untried(c)' /\ Shown(c)' /\ InPlace(c)'
  <2>1. Untried(c) /\ Shown(c) /\ InPlace(c)
    BY DEF CommandInv
  <2>2. Untried(c)'
    BY <1>u, <2>1 DEF Untried
  <2>3. Shown(c)'
    BY <1>u, <2>1 DEF Shown
  <2>4. InPlace(c)'
    BY <1>u, <2>1 DEF InPlace, Overtakes
  <2> QED
    BY <2>2, <2>3, <2>4
<1> QED
  BY <1>1 DEF CommandInv

LEMMA InvOfPause ==
    ASSUME CommandInv, UNCHANGED commandKind, RoundFails \/ WorkerDies \/ WorkerStarts
    PROVE  CommandInv'
<1>t. CommandTypes
  BY DEF CommandInv
<1>1. /\ commandWorker' \in CommandWorkerType /\ commandWorker'.claim = commandWorker.claim
      /\ commandWorker'.phase \in {"idle", "down"} /\ commandWorker'.command \subseteq commandWorker.command
  <2>1. CASE RoundFails
    <3>1. commandWorker' = [commandWorker EXCEPT !.phase = "idle", !.command = {}]
      BY <2>1 DEF RoundFails
    <3>2. [commandWorker EXCEPT !.phase = "idle", !.command = {}] \in CommandWorkerType
      BY <1>t, WorkerFields, WorkerUpdates DEF WorkerPhase
    <3> QED
      BY <1>t, <3>1, <3>2, WorkerFields
  <2>2. CASE WorkerDies
    <3>1. commandWorker' = [commandWorker EXCEPT !.phase = "down", !.command = {}]
      BY <2>2 DEF WorkerDies
    <3>2. [commandWorker EXCEPT !.phase = "down", !.command = {}] \in CommandWorkerType
      BY <1>t, WorkerFields, WorkerUpdates DEF WorkerPhase
    <3> QED
      BY <1>t, <3>1, <3>2, WorkerFields
  <2>3. CASE WorkerStarts
    <3>1. commandWorker' = [commandWorker EXCEPT !.id = @ + 1, !.phase = "idle"]
      BY <2>3 DEF WorkerStarts
    <3>2. commandWorker.id + 1 \in Nat
      BY <1>t, WorkerFields
    <3>3. [commandWorker EXCEPT !.id = commandWorker.id + 1, !.phase = "idle"] \in CommandWorkerType
      BY <1>t, <3>2, WorkerFields, WorkerUpdates DEF WorkerPhase
    <3> QED
      BY <1>t, <3>1, <3>3, WorkerFields
  <2> QED
    BY <2>1, <2>2, <2>3
<1>2. UNCHANGED rowsAndDecisions /\ UNCHANGED <<commandRequests, deliveries, commandClaims>>
  BY DEF RoundFails, WorkerDies, WorkerStarts, rowsAndDecisions
<1>u. UNCHANGED <<commandKind, commandRow, nextSequence, missingSlots, lateReleases, ownerDecision, turnedDown,
                  applied>>
  BY <1>2 DEF rowsAndDecisions
<1>3. CommandTypes'
  BY <1>t, <1>1, <1>2, <1>u DEF CommandTypes
<1>4. WorkerKnown'
  BY <1>1, <1>2, <1>u DEF CommandInv, WorkerKnown
<1>5. ~AtCommand'
  BY <1>1 DEF AtCommand
<1>6. ASSUME NEW request \in commandRequests PROVE ClaimKnown(request)' /\ VerdictTrue(request)'
  <2>1. ClaimKnown(request) /\ VerdictTrue(request)
    BY DEF CommandInv
  <2>2. ClaimKnown(request)'
    BY <1>1, <1>2, <1>u, <1>5, <2>1 DEF ClaimKnown
  <2>3. VerdictTrue(request)'
    BY <1>1, <1>2, <1>u, <1>5, <2>1 DEF VerdictTrue, HeldBy
  <2> QED
    BY <2>2, <2>3
<1> QED
  BY <1>1, <1>2, <1>3, <1>4, <1>6, WorkerKeeps

LEMMA InvOfAsk ==
    ASSUME CommandInv, UNCHANGED commandKind, AskForCommand
    PROVE  CommandInv'
<1>t. CommandTypes
  BY DEF CommandInv
<1> DEFINE k == commandClaims + 1
           ask == [kind |-> "claim", claim |-> k, worker |-> commandWorker.id]
<1>1. /\ commandClaims' = k /\ commandWorker' = [commandWorker EXCEPT !.phase = "asking", !.claim = k, !.command = {}]
      /\ commandRequests' = commandRequests \cup {ask} /\ UNCHANGED rowsAndDecisions /\ UNCHANGED deliveries
  BY DEF AskForCommand, rowsAndDecisions
<1>u. UNCHANGED <<commandKind, commandRow, nextSequence, missingSlots, lateReleases, ownerDecision, turnedDown,
                  applied>>
  BY <1>1 DEF rowsAndDecisions
<1>2. k \in Nat /\ commandClaims \in Nat /\ commandClaims < k
  BY <1>t DEF CommandTypes
<1>3. ask \in AskType /\ ask.kind = "claim" /\ ask.claim = k
  BY <1>t, <1>2, WorkerFields DEF AskType
<1>4. /\ commandWorker' \in CommandWorkerType /\ commandWorker'.claim = k /\ commandWorker'.phase = "asking"
      /\ commandWorker'.command = {}
  <2>1. [commandWorker EXCEPT !.phase = "asking", !.claim = k, !.command = {}] \in CommandWorkerType
    <3> HIDE DEF k
    <3> QED
      BY <1>t, <1>2, WorkerFields, WorkerUpdates DEF WorkerPhase
  <2> QED
    BY <1>t, <1>1, <2>1, WorkerFields
<1> HIDE DEF k, ask
<1>5. CommandTypes'
  BY <1>t, <1>1, <1>2, <1>3, <1>4, <1>u DEF CommandTypes
<1>6. \A c \in Commands : commandRow[c].status = "delivering" =>
          commandRow[c].holder.claim <= commandClaims /\ commandRow[c].holder.claim \in Nat
  BY <1>t, CommandFields DEF CommandInv, WorkerKnown
<1>7. WorkerKnown'
  BY <1>1, <1>2, <1>4, <1>6, <1>u DEF WorkerKnown
<1>8. ~AtCommand'
  BY <1>4 DEF AtCommand
<1>9. \A request \in commandRequests : request.claim <= commandClaims /\ request.claim \in Nat
  BY <1>t, RequestFields DEF CommandInv, ClaimKnown
<1>10. ASSUME NEW request \in commandRequests' PROVE ClaimKnown(request)' /\ VerdictTrue(request)'
  <2>1. CASE request = ask
    BY <1>1, <1>2, <1>3, <1>6, <1>8, <1>9, <1>u, <2>1 DEF ClaimKnown, VerdictTrue
  <2>2. CASE request \in commandRequests
    <3>1. ClaimKnown(request) /\ VerdictTrue(request) /\ request.claim <= commandClaims /\ request.claim \in Nat
      BY <1>9, <2>2 DEF CommandInv
    <3>2. ClaimKnown(request)'
      BY <1>1, <1>2, <1>3, <1>8, <1>u, <3>1 DEF ClaimKnown
    <3>3. VerdictTrue(request)'
      BY <1>1, <1>3, <1>8, <1>u, <3>1 DEF VerdictTrue, HeldBy
    <3> QED
      BY <3>2, <3>3
  <2> QED
    BY <1>1, <2>1, <2>2
<1> QED
  BY <1>1, <1>4, <1>5, <1>7, <1>10, WorkerKeeps

\* The worker tells the ingress of the command in its hands.
LEMMA InvOfConclude ==
    ASSUME CommandInv, UNCHANGED rowsAndDecisions, UNCHANGED <<deliveries, commandClaims>>,
           NEW c \in commandWorker.command, AtCommand, NEW kind \in {"refused", "retry"}, Conclude(c, kind),
           kind = "refused" => commandWorker.phase = "prepare"
    PROVE  CommandInv'
<1>t. CommandTypes
  BY DEF CommandInv
<1>u. UNCHANGED <<commandKind, commandRow, nextSequence, missingSlots, lateReleases, ownerDecision, turnedDown,
                  applied>>
  BY DEF rowsAndDecisions
<1> DEFINE told == Verdict(c, kind)
<1>1. told \in VerdictType /\ told.kind = kind /\ told.claim = commandWorker.claim /\ told.command = c
  BY <1>t, WorkerFields DEF Verdict, VerdictType
<1>2. commandRequests' = commandRequests \cup {told} /\ commandWorker' = [commandWorker EXCEPT !.phase = "settling"]
  BY DEF Conclude
<1> HIDE DEF told
<1>3. /\ commandWorker' \in CommandWorkerType /\ commandWorker'.claim = commandWorker.claim
      /\ commandWorker'.phase = "settling" /\ commandWorker'.command = commandWorker.command
  <2>1. [commandWorker EXCEPT !.phase = "settling"] \in CommandWorkerType
    BY <1>t, WorkerFields, WorkerUpdates DEF WorkerPhase
  <2> QED
    BY <1>t, <1>2, <2>1, WorkerFields
<1>4. CommandTypes'
  BY <1>t, <1>1, <1>2, <1>3, <1>u DEF CommandTypes
<1>5. WorkerKnown'
  BY <1>3, <1>u DEF CommandInv, WorkerKnown
<1>6. ~AtCommand'
  BY <1>3 DEF AtCommand
<1>7. commandWorker.claim = commandClaims /\ commandWorker.claim \in Nat /\ c \in Commands
  BY <1>t, WorkerFields DEF CommandInv, WorkerKnown
<1>8. ASSUME NEW request \in commandRequests' PROVE ClaimKnown(request)' /\ VerdictTrue(request)'
  <2>1. CASE request = told
    <3>1. kind = "refused" => /\ ~HeldBy(told) \/ ~commandRow[c].prepared
                              /\ \A other \in commandRequests : other.kind = "prepare" => other.claim # told.claim
      BY <1>1 DEF CommandInv, WorkerKnown, HeldBy, VerdictTrue, AtCommand
    <3>2. ClaimKnown(request)'
      BY <1>1, <1>7, <2>1 DEF ClaimKnown
    <3>3. VerdictTrue(request)'
      BY <1>1, <1>2, <1>6, <1>u, <2>1, <3>1 DEF VerdictTrue, HeldBy
    <3> QED
      BY <3>2, <3>3
  <2>2. CASE request \in commandRequests
    <3>1. ClaimKnown(request) /\ VerdictTrue(request)
      BY <2>2 DEF CommandInv
    <3>2. ClaimKnown(request)'
      BY <1>1, <1>2, <1>6, <1>u, <3>1 DEF ClaimKnown
    <3>3. VerdictTrue(request)'
      BY <1>1, <1>2, <1>6, <1>u, <3>1 DEF VerdictTrue, HeldBy
    <3> QED
      BY <3>2, <3>3
  <2> QED
    BY <1>2, <2>1, <2>2
<1> QED
  BY <1>3, <1>4, <1>5, <1>8, WorkerKeeps

LEMMA InvOfPrepare ==
    ASSUME CommandInv, UNCHANGED commandKind, NEW c \in Commands, PrepareCommand(c) \/ Uncertain(c)
    PROVE  CommandInv'
<1>t. CommandTypes
  BY DEF CommandInv
<1>u. UNCHANGED rowsAndDecisions /\ UNCHANGED <<deliveries,
                                                commandClaims>> /\ c \in commandWorker.command /\ AtCommand
  BY DEF PrepareCommand, Uncertain, rowsAndDecisions, AtCommand
<1>1. CASE \E kind \in {"refused", "retry"} : Conclude(c, kind) /\ (kind = "refused" => commandWorker.phase = "prepare")
  BY <1>u, <1>1, InvOfConclude
<1>2. CASE /\ commandWorker.phase = "prepare"
           /\ commandRequests' = commandRequests \cup {Verdict(c, "prepare")}
           /\ commandWorker' = [commandWorker EXCEPT !.phase = "preparing"]
  <2>u. UNCHANGED <<commandKind, commandRow, nextSequence, missingSlots, lateReleases, ownerDecision, turnedDown,
                    applied>>
    BY <1>u DEF rowsAndDecisions
  <2> DEFINE told == Verdict(c, "prepare")
  <2>1. told \in VerdictType /\ told.kind = "prepare" /\ told.claim = commandWorker.claim /\ told.command = c
    BY <1>t, WorkerFields DEF Verdict, VerdictType
  <2>2. commandRequests' = commandRequests \cup {told}
    BY <1>2
  <2> HIDE DEF told
  <2>3. /\ commandWorker' \in CommandWorkerType /\ commandWorker'.claim = commandWorker.claim
        /\ commandWorker'.phase = "preparing" /\ commandWorker'.command = commandWorker.command
    <3>1. [commandWorker EXCEPT !.phase = "preparing"] \in CommandWorkerType
      BY <1>t, WorkerFields, WorkerUpdates DEF WorkerPhase
    <3> QED
      BY <1>t, <1>2, <3>1, WorkerFields
  <2>4. CommandTypes'
    BY <1>t, <1>u, <2>u, <2>1, <2>2, <2>3 DEF CommandTypes
  <2>5. WorkerKnown' /\ commandWorker.command = {c}
    BY <1>u, <2>3, <2>u DEF CommandInv, WorkerKnown
  <2>6. commandWorker.claim = commandClaims /\ commandWorker.claim \in Nat
    BY <1>t, WorkerFields DEF CommandInv, WorkerKnown
  <2>7. ASSUME NEW request \in commandRequests' PROVE ClaimKnown(request)' /\ VerdictTrue(request)'
    <3>1. CASE request = told
      BY <1>u, <2>1, <2>3, <2>5, <2>6, <3>1 DEF ClaimKnown, VerdictTrue
    <3>2. CASE request \in commandRequests
      <4>1. ClaimKnown(request) /\ VerdictTrue(request)
        BY <3>2 DEF CommandInv
      <4>2. request.claim # commandWorker.claim
        BY <1>u, <1>2, <4>1 DEF VerdictTrue
      <4>3. ClaimKnown(request)'
        BY <1>u, <2>u, <2>1, <2>2, <2>3, <4>1, <4>2 DEF ClaimKnown
      <4>4. VerdictTrue(request)'
        BY <2>u, <2>1, <2>2, <2>3, <4>1, <4>2 DEF VerdictTrue, HeldBy
      <4> QED
        BY <4>3, <4>4
    <3> QED
      BY <2>2, <3>1, <3>2
  <2> QED
    BY <1>u, <2>3, <2>4, <2>5, <2>7, WorkerKeeps
<1> QED
  BY <1>1, <1>2 DEF PrepareCommand, Uncertain

LEMMA InvOfDeliver ==
    ASSUME CommandInv, UNCHANGED commandKind, NEW c \in Commands, DeliverCommand(c)
    PROVE  CommandInv'
<1>t. CommandTypes
  BY DEF CommandInv
<1> DEFINE delivery == [command |-> c, claim |-> commandWorker.claim]
<1>1. /\ commandWorker.phase = "prepared" /\ c \in commandWorker.command /\ deliveries' = deliveries \cup {delivery}
      /\ commandWorker' = [commandWorker EXCEPT !.phase = "delivering"]
      /\ UNCHANGED rowsAndDecisions /\ UNCHANGED <<commandRequests, commandClaims>>
  BY DEF DeliverCommand, rowsAndDecisions
<1>u. UNCHANGED <<commandKind, commandRow, nextSequence, missingSlots, lateReleases, ownerDecision, turnedDown,
                  applied>>
  BY <1>1 DEF rowsAndDecisions
<1>2. delivery \in [command : Commands, claim : Nat] /\ delivery.command = c
  BY <1>t, WorkerFields
<1> HIDE DEF delivery
<1>3. /\ commandWorker' \in CommandWorkerType /\ commandWorker'.claim = commandWorker.claim
      /\ commandWorker'.phase = "delivering" /\ commandWorker'.command = commandWorker.command
  <2>1. [commandWorker EXCEPT !.phase = "delivering"] \in CommandWorkerType
    BY <1>t, WorkerFields, WorkerUpdates DEF WorkerPhase
  <2> QED
    BY <1>t, <1>1, <2>1, WorkerFields
<1>4. \A d \in commandWorker.command : commandRow[d].prepared
  BY <1>t, <1>1, WorkerFields DEF CommandInv, Untried
<1>5. CommandTypes'
  BY <1>t, <1>1, <1>2, <1>3, <1>u DEF CommandTypes
<1>6. WorkerKnown'
  BY <1>1, <1>3, <1>u DEF CommandInv, WorkerKnown
<1>7. ASSUME NEW request \in commandRequests PROVE ClaimKnown(request)' /\ VerdictTrue(request)'
  <2>1. ClaimKnown(request) /\ VerdictTrue(request)
    BY DEF CommandInv
  <2>2. request.claim # commandWorker.claim
    BY <1>1, <2>1 DEF VerdictTrue, AtCommand
  <2>3. ClaimKnown(request)'
    BY <1>1, <1>3, <1>u, <2>1, <2>2 DEF ClaimKnown
  <2>4. VerdictTrue(request)'
    BY <1>1, <1>3, <1>u, <2>1, <2>2 DEF VerdictTrue, HeldBy
  <2> QED
    BY <2>3, <2>4
<1> QED
  BY <1>1, <1>2, <1>3, <1>4, <1>5, <1>6, <1>7, WorkerKeeps

-----------------------------------------------------------------------------
(* A claim is served: rows come back to the stream, and one of them goes out. *)

ClaimedRow(claim, d) ==
    /\ commandRow'[d].prepared = commandRow[d].prepared /\ commandRow'[d].heldAfterGap = commandRow[d].heldAfterGap
    /\ \/ commandRow'[d].status = commandRow[d].status /\ commandRow'[d].holder = commandRow[d].holder
       \/ commandRow[d].status = "delivering" /\ commandRow'[d].status = "pending"
       \/ /\ commandRow[d].status \in {"pending", "delivering"} /\ commandRow'[d].status = "delivering"
          /\ commandRow'[d].holder.claim = claim
          /\ d \in missingSlots => d \in lateReleases
          /\ Overtakes(d) \/ d = nextSequence \/ d \in lateReleases

Waits(claim) == commandWorker.phase = "asking" /\ commandWorker.claim = claim

Handed(c) ==
    /\ commandWorker'.command = {c}
    /\ commandWorker'.phase = IF commandRow[c].prepared THEN "prepared" ELSE "prepare"

LEMMA CommandsRecovered ==
    ASSUME CommandTypes, NEW asker
    PROVE  /\ RecoveredCommands(asker) \in [Commands -> CommandRowType]
           /\ \A d \in Commands :
                 /\ RecoveredCommands(asker)[d].prepared = commandRow[d].prepared
                 /\ RecoveredCommands(asker)[d].heldAfterGap = commandRow[d].heldAfterGap
                 /\ \/ RecoveredCommands(asker)[d] = commandRow[d]
                    \/ commandRow[d].status = "delivering" /\ RecoveredCommands(asker)[d].status = "pending"
<1>1. ASSUME NEW d \in Commands
      PROVE  \/ RecoveredCommands(asker)[d] = commandRow[d]
             \/ /\ commandRow[d].status = "delivering"
                /\ RecoveredCommands(asker)[d] = [commandRow[d] EXCEPT !.status = "pending", !.holder = Unclaimed]
  BY DEF RecoveredCommands
<1>2. ASSUME NEW d \in Commands
      PROVE  /\ RecoveredCommands(asker)[d] \in CommandRowType
             /\ RecoveredCommands(asker)[d].prepared = commandRow[d].prepared
             /\ RecoveredCommands(asker)[d].heldAfterGap = commandRow[d].heldAfterGap
             /\ \/ RecoveredCommands(asker)[d] = commandRow[d]
                \/ commandRow[d].status = "delivering" /\ RecoveredCommands(asker)[d].status = "pending"
  <2>1. commandRow[d] \in CommandRowType /\ DOMAIN commandRow[d] = {"status", "holder", "prepared", "heldAfterGap"}
    BY CommandFields
  <2>2. CASE RecoveredCommands(asker)[d] = commandRow[d]
    BY <2>1, <2>2
  <2>3. CASE /\ commandRow[d].status = "delivering"
             /\ RecoveredCommands(asker)[d] = [commandRow[d] EXCEPT !.status = "pending", !.holder = Unclaimed]
    <3>1. Unclaimed \in [claim : Nat, worker : Nat] /\ "pending" \in CommandStatus
      BY DEF Unclaimed, CommandStatus
    <3>2. [commandRow[d] EXCEPT !.status = "pending", !.holder = Unclaimed] \in CommandRowType
      BY <2>1, <3>1, CommandUpdates
    <3> QED
      BY <2>1, <2>3, <3>2
  <2> QED
    BY <1>1, <2>2, <2>3
<1>3. RecoveredCommands(asker) = [d \in Commands |-> RecoveredCommands(asker)[d]]
  BY DEF RecoveredCommands
<1> QED
  BY <1>2, <1>3

LEMMA ClaimServed ==
    ASSUME CommandInv, NEW request \in commandRequests, ServeCommandClaim(request)
    PROVE  /\ commandRow' \in [Commands -> CommandRowType] /\ commandWorker' \in CommandWorkerType
           /\ \A d \in Commands : ClaimedRow(request.claim, d)
           /\ commandWorker'.claim = commandWorker.claim
           /\ \/ commandWorker' = commandWorker
              \/ Waits(request.claim) /\ commandWorker'.phase = "idle" /\ commandWorker'.command = commandWorker.command
              \/ Waits(request.claim) /\ \E c \in Commands : Handed(c)
<1>t. CommandTypes
  BY DEF CommandInv
<1> DEFINE row == RecoveredCommands(request.worker)
           first == Foremost(ClaimableCommands(row))
           taken == [claim |-> request.claim, worker |-> request.worker]
<1>r. /\ row \in [Commands -> CommandRowType]
      /\ \A d \in Commands : /\ row[d].prepared = commandRow[d].prepared
                             /\ row[d].heldAfterGap = commandRow[d].heldAfterGap
                             /\ \/ row[d] = commandRow[d]
                                \/ commandRow[d].status = "delivering" /\ row[d].status = "pending"
  BY <1>t, CommandsRecovered
<1>f. /\ DOMAIN commandWorker = {"id", "phase", "claim", "command"} /\ commandWorker \in CommandWorkerType
      /\ commandWorker.command \subseteq Commands
  BY <1>t, WorkerFields DEF CommandTypes
<1>k. request.kind = "claim" /\ request.claim \in Nat /\ request.worker \in Nat
  BY <1>t, RequestFields DEF ServeCommandClaim
<1>1. CASE /\ commandRow' = row
           /\ commandWorker' = IF Waits(request.claim) THEN [commandWorker EXCEPT !.phase = "idle"] ELSE commandWorker
  <2>1. \A d \in Commands : ClaimedRow(request.claim, d)
    BY <1>1, <1>r DEF ClaimedRow
  <2>2. [commandWorker EXCEPT !.phase = "idle"] \in CommandWorkerType
    BY <1>t, <1>f, WorkerUpdates, WorkerFields DEF WorkerPhase
  <2>3. CASE Waits(request.claim)
    BY <1>1, <1>r, <1>f, <2>1, <2>2, <2>3
  <2>4. CASE ~Waits(request.claim)
    BY <1>1, <1>r, <1>f, <2>1, <2>4
  <2> QED
    BY <2>3, <2>4
<1>2. ASSUME NEW c \in first,
             commandRow' = [row EXCEPT ![c] = [row[c] EXCEPT !.status = "delivering", !.holder = taken]],
             \/ commandWorker' = commandWorker
             \/ /\ Waits(request.claim)
                /\ commandWorker' = [commandWorker EXCEPT !.phase = IF row[c].prepared THEN "prepared" ELSE "prepare",
                                                          !.command = {c}]
      PROVE  /\ commandRow' \in [Commands -> CommandRowType] /\ commandWorker' \in CommandWorkerType
             /\ \A d \in Commands : ClaimedRow(request.claim, d)
             /\ commandWorker'.claim = commandWorker.claim
             /\ \/ commandWorker' = commandWorker
                \/ Waits(request.claim) /\ \E e \in Commands : Handed(e)
  <2>1. /\ c \in Commands /\ row[c].status = "pending" /\ (c \in missingSlots => c \in lateReleases)
        /\ Overtakes(c) \/ c = nextSequence \/ c \in lateReleases
    BY <1>2 DEF Foremost, ClaimableCommands
  <2>2. taken \in [claim : Nat, worker : Nat] /\ taken.claim = request.claim
    BY <1>k
  <2> HIDE DEF row, taken
  <2>3. row[c] \in CommandRowType
    BY <1>r, <2>1
  <2>d. DOMAIN row[c] = {"status", "holder", "prepared", "heldAfterGap"}
    BY <2>3 DEF CommandRowType
  <2>4. [row[c] EXCEPT !.status = "delivering", !.holder = taken] \in CommandRowType
    BY <2>2, <2>3, CommandUpdates DEF CommandStatus
  <2>5. commandRow' \in [Commands -> CommandRowType]
    BY <1>2, <1>r, <2>1, <2>4
  <2>6. ASSUME NEW d \in Commands PROVE ClaimedRow(request.claim, d)
    <3>1. CASE d = c
      <4>1. commandRow'[d] = [row[c] EXCEPT !.status = "delivering", !.holder = taken]
        BY <1>2, <1>r, <3>1
      <4>2. /\ commandRow'[d].status = "delivering" /\ commandRow'[d].holder = taken
            /\ commandRow'[d].prepared = row[c].prepared /\ commandRow'[d].heldAfterGap = row[c].heldAfterGap
        BY <2>d, <4>1
      <4>3. commandRow[c].status \in {"pending", "delivering"}
        BY <1>r, <2>1
      <4> QED
        BY <1>r, <2>1, <2>2, <3>1, <4>2, <4>3 DEF ClaimedRow
    <3>2. CASE d # c
      <4>1. commandRow'[d] = row[d]
        BY <1>2, <1>r, <3>2
      <4> QED
        BY <1>r, <4>1 DEF ClaimedRow
    <3> QED
      BY <3>1, <3>2
  <2>7. PICK phase \in WorkerPhase : phase = IF row[c].prepared THEN "prepared" ELSE "prepare"
    BY DEF WorkerPhase
  <2>8. CASE /\ Waits(request.claim)
             /\ commandWorker' = [commandWorker EXCEPT !.phase = IF row[c].prepared THEN "prepared" ELSE "prepare",
                                                       !.command = {c}]
    <3>1. commandWorker' = [commandWorker EXCEPT !.phase = phase, !.command = {c}]
      BY <2>7, <2>8
    <3>2. [commandWorker EXCEPT !.phase = phase, !.command = {c}] \in CommandWorkerType
      BY <1>t, <2>1, WorkerUpdates, WorkerFields
    <3>3. commandWorker'.phase = phase /\ commandWorker'.command = {c} /\ commandWorker'.claim = commandWorker.claim
      BY <1>f, <3>1
    <3>4. Handed(c)
      BY <1>r, <2>1, <2>7, <3>3 DEF Handed
    <3> QED
      BY <2>1, <2>5, <2>6, <2>8, <3>1, <3>2, <3>3, <3>4
  <2> QED
    BY <1>2, <1>f, <2>5, <2>6, <2>8
<1> QED
  BY <1>1, <1>2 DEF ServeCommandClaim, Waits

LEMMA InvOfServeClaim ==
    ASSUME CommandInv, UNCHANGED commandKind, NEW request \in commandRequests, ServeCommandClaim(request)
    PROVE  CommandInv'
<1>t. CommandTypes
  BY DEF CommandInv
<1>u. /\ UNCHANGED <<commandKind, nextSequence, missingSlots, lateReleases, deliveries, ownerDecision, turnedDown,
                     applied, commandClaims>>
      /\ commandRequests' = commandRequests \ {request} /\ request.kind = "claim"
  BY DEF ServeCommandClaim
<1>1. /\ commandRow' \in [Commands -> CommandRowType] /\ commandWorker' \in CommandWorkerType
      /\ \A d \in Commands : ClaimedRow(request.claim, d)
      /\ commandWorker'.claim = commandWorker.claim
      /\ \/ commandWorker' = commandWorker
         \/ Waits(request.claim) /\ commandWorker'.phase = "idle" /\ commandWorker'.command = commandWorker.command
         \/ Waits(request.claim) /\ \E c \in Commands : Handed(c)
  BY ClaimServed
<1>k. /\ \A other \in commandRequests : other.claim = request.claim => other = request
      /\ \A c \in Commands : commandRow[c].status = "delivering" => commandRow[c].holder.claim # request.claim
      /\ commandWorker.claim = request.claim => ~AtCommand
      /\ request.claim <= commandClaims
  BY <1>u DEF CommandInv, ClaimKnown
<1>2. CommandTypes'
  BY <1>t, <1>u, <1>1 DEF CommandTypes
<1>3. ASSUME NEW c \in Commands PROVE Untried(c)' /\ Shown(c)' /\ InPlace(c)'
  <2>1. Untried(c) /\ Shown(c) /\ InPlace(c) /\ ClaimedRow(request.claim, c) /\ c \in Nat /\ nextSequence \in Nat
    BY <1>t, <1>1, CommandFields DEF CommandInv, CommandTypes
  <2>2. commandWorker'.phase \in {"prepared", "delivering"} =>
            \/ commandWorker' = commandWorker
            \/ commandWorker'.command \subseteq {d \in Commands : commandRow[d].prepared}
    BY <1>1 DEF Handed
  <2>3. Untried(c)'
    BY <1>u, <2>1, <2>2 DEF Untried, ClaimedRow
  <2>4. Shown(c)'
    BY <1>u, <2>1 DEF Shown, ClaimedRow
  <2>5. InPlace(c)'
    BY <1>u, <2>1 DEF InPlace, ClaimedRow, Overtakes, Terminal
  <2> QED
    BY <2>3, <2>4, <2>5
<1>4. WorkerKnown'
  <2>0. WorkerKnown
    BY DEF CommandInv
  <2>1. \A c, d \in commandWorker'.command : c = d
    BY <1>1, <2>0 DEF Handed, WorkerKnown
  <2>2. \A c \in Commands : commandRow'[c].status = "delivering" => commandRow'[c].holder.claim <= commandClaims
    BY <1>1, <1>k, <2>0 DEF ClaimedRow, WorkerKnown
  <2>3. ASSUME NEW c \in commandWorker'.command, commandWorker'.phase = "prepare", commandRow'[c].status = "delivering",
               commandRow'[c].holder.claim = commandWorker.claim
        PROVE  ~commandRow'[c].prepared
    <3>1. c \in Commands /\ ClaimedRow(request.claim, c)
      BY <1>1, <1>2, WorkerFields DEF CommandWorkerType
    <3>2. CASE commandWorker' = commandWorker
      BY <1>k, <2>0, <2>3, <3>1, <3>2 DEF ClaimedRow, WorkerKnown, AtCommand
    <3>3. CASE \E d \in Commands : Handed(d)
      BY <2>3, <3>1, <3>3 DEF ClaimedRow, Handed
    <3> QED
      BY <1>1, <2>3, <3>2, <3>3
  <2> QED
    BY <1>u, <1>1, <2>0, <2>1, <2>2, <2>3 DEF WorkerKnown
<1>5. AtCommand' => commandWorker' = commandWorker \/ commandWorker.claim = request.claim
  BY <1>1 DEF AtCommand, Waits
<1>6. ASSUME NEW r \in commandRequests' PROVE ClaimKnown(r)' /\ VerdictTrue(r)'
  <2>1. ClaimKnown(r) /\ VerdictTrue(r) /\ r \in commandRequests /\ r.claim # request.claim
    BY <1>u, <1>k DEF CommandInv
  <2>2. ClaimKnown(r)'
    BY <1>u, <1>1, <1>5, <2>1 DEF ClaimKnown, ClaimedRow, AtCommand
  <2>3. r.kind = "refused" => r.command \in Commands
    BY <1>t, <2>1, RequestFields
  <2>4. VerdictTrue(r)'
    BY <1>u, <1>1, <1>5, <2>1, <2>3 DEF VerdictTrue, ClaimedRow, AtCommand, HeldBy
  <2> QED
    BY <2>2, <2>4
<1> QED
  BY <1>2, <1>3, <1>4, <1>6 DEF CommandInv

\* What was prepared is kept with the row, for the claim that holds it.
LEMMA InvOfKeepPreparation ==
    ASSUME CommandInv, UNCHANGED commandKind, NEW request \in commandRequests, KeepPreparation(request)
    PROVE  CommandInv'
<1>t. CommandTypes
  BY DEF CommandInv
<1> DEFINE c == request.command
<1>u. /\ UNCHANGED <<commandKind, nextSequence, missingSlots, lateReleases, deliveries, ownerDecision, turnedDown,
                     applied, commandClaims>>
      /\ commandRequests' = commandRequests \ {request} /\ request.kind = "prepare"
      /\ commandRow' = IF HeldBy(request) THEN [commandRow EXCEPT ![c] = [commandRow[c] EXCEPT !.prepared = TRUE]]
                       ELSE commandRow
  BY DEF KeepPreparation
<1>w. /\ commandWorker' \in CommandWorkerType /\ commandWorker'.claim = commandWorker.claim
      /\ commandWorker'.command = commandWorker.command
      /\ \/ commandWorker' = commandWorker
         \/ /\ HeldBy(request) /\ commandWorker.phase = "preparing" /\ commandWorker.claim = request.claim
            /\ commandWorker'.phase = "prepared"
  <2>1. [commandWorker EXCEPT !.phase = "prepared"] \in CommandWorkerType
    BY <1>t, WorkerFields, WorkerUpdates DEF WorkerPhase
  <2>2. commandWorker \in CommandWorkerType /\ DOMAIN commandWorker = {"id", "phase", "claim", "command"}
    BY <1>t, WorkerFields DEF CommandTypes
  <2>3. \/ commandWorker' = commandWorker
        \/ /\ HeldBy(request) /\ commandWorker.phase = "preparing" /\ commandWorker.claim = request.claim
           /\ commandWorker' = [commandWorker EXCEPT !.phase = "prepared"]
    BY DEF KeepPreparation
  <2> QED
    BY <2>1, <2>2, <2>3
<1>c. c \in Commands /\ request.claim \in Nat /\ request \in VerdictType
  <2>1. request \in VerdictType
    BY <1>t, <1>u DEF CommandTypes, AskType
  <2> QED
    BY <2>1 DEF VerdictType
<1>v. ClaimKnown(request) /\ VerdictTrue(request)
  BY DEF CommandInv
<1> HIDE DEF c
<1>1. /\ commandRow' \in [Commands -> CommandRowType]
      /\ \A d \in Commands : /\ commandRow'[d].status = commandRow[d].status
                             /\ commandRow'[d].holder = commandRow[d].holder
                             /\ commandRow'[d].heldAfterGap = commandRow[d].heldAfterGap
                             /\ \/ commandRow'[d].prepared = commandRow[d].prepared
                                \/ d = c /\ HeldBy(request) /\ commandRow'[d].prepared
  <2>1. CASE HeldBy(request)
    <3>1. [commandRow[c] EXCEPT !.prepared = TRUE] \in CommandRowType
      BY <1>t, <1>c, CommandFields, CommandUpdates
    <3>2. commandRow' = [commandRow EXCEPT ![c] = [commandRow[c] EXCEPT !.prepared = TRUE]]
      BY <1>u, <2>1
    <3>3. commandRow' \in [Commands -> CommandRowType]
      BY <1>t, <3>1, <3>2 DEF CommandTypes
    <3>4. ASSUME NEW d \in Commands
          PROVE  /\ commandRow'[d].status = commandRow[d].status
                 /\ commandRow'[d].holder = commandRow[d].holder
                 /\ commandRow'[d].heldAfterGap = commandRow[d].heldAfterGap
                 /\ \/ commandRow'[d].prepared = commandRow[d].prepared
                    \/ d = c /\ HeldBy(request) /\ commandRow'[d].prepared
      <4>1. CASE d = c
        <5>1. commandRow'[d] = [commandRow[d] EXCEPT !.prepared = TRUE]
          BY <1>t, <1>c, <3>2, <4>1 DEF CommandTypes
        <5>2. DOMAIN commandRow[d] = {"status", "holder", "prepared", "heldAfterGap"}
          BY <1>t, CommandFields
        <5> QED
          BY <2>1, <4>1, <5>1, <5>2
      <4>2. CASE d # c
        <5>1. commandRow'[d] = commandRow[d]
          BY <1>t, <1>c, <3>2, <4>2 DEF CommandTypes
        <5> QED
          BY <5>1
      <4> QED
        BY <4>1, <4>2
    <3> QED
      BY <3>3, <3>4
  <2>2. CASE ~HeldBy(request)
    BY <1>t, <1>u, <2>2 DEF CommandTypes
  <2> QED
    BY <2>1, <2>2
<1>2. CommandTypes'
  BY <1>t, <1>u, <1>w, <1>1 DEF CommandTypes
<1>h. HeldBy(request) => commandRow[c].status = "delivering" /\ commandRow[c].holder.claim = request.claim
  BY DEF HeldBy, c
<1>p. commandWorker' = commandWorker \/ commandWorker.command = {c}
  BY <1>w, <1>v DEF VerdictTrue, AtCommand, c
<1>3. ASSUME NEW d \in Commands PROVE Untried(d)' /\ Shown(d)' /\ InPlace(d)'
  <2>1. Untried(d) /\ Shown(d) /\ InPlace(d)
    BY DEF CommandInv
  <2>2. Untried(d)'
    <3>1. CASE commandRow'[d].prepared
      BY <1>1, <1>h, <2>1, <3>1 DEF Untried
    <3>2. CASE ~commandRow'[d].prepared
      <4>1. ~commandRow[d].prepared /\ (d = c => ~HeldBy(request))
        BY <1>t, <1>1, <1>u, <3>2, CommandFields
      <4>2. commandWorker'.phase \in {"prepared", "delivering"} => d \notin commandWorker'.command
        BY <1>w, <1>p, <2>1, <4>1 DEF Untried
      <4> QED
        BY <1>u, <2>1, <3>2, <4>1, <4>2 DEF Untried
    <3> QED
      BY <3>1, <3>2
  <2>3. Shown(d)'
    BY <1>1, <1>h, <1>u, <2>1 DEF Shown
  <2>4. InPlace(d)'
    BY <1>1, <1>h, <1>u, <2>1 DEF InPlace, Overtakes
  <2> QED
    BY <2>2, <2>3, <2>4
<1>4. WorkerKnown'
  <2>0. WorkerKnown
    BY DEF CommandInv
  <2>1. ASSUME NEW d \in commandWorker'.command, commandWorker'.phase = "prepare", commandRow'[d].status = "delivering",
               commandRow'[d].holder.claim = commandWorker.claim
        PROVE  ~commandRow'[d].prepared
    <3>1. d \in Commands /\ commandWorker' = commandWorker
      BY <1>t, <1>w, <2>1, WorkerFields
    <3>2. ~commandRow[d].prepared
      BY <1>1, <2>0, <2>1, <3>1 DEF WorkerKnown
    <3>3. ~(d = c /\ HeldBy(request))
      BY <1>1, <1>h, <1>v, <2>1, <3>1 DEF VerdictTrue, AtCommand
    <3> QED
      BY <1>1, <3>1, <3>2, <3>3
  <2> QED
    BY <1>u, <1>w, <1>1, <2>0, <2>1 DEF WorkerKnown
<1>5. AtCommand' => AtCommand
  BY <1>w DEF AtCommand
<1>6. ASSUME NEW r \in commandRequests' PROVE ClaimKnown(r)' /\ VerdictTrue(r)'
  <2>1. ClaimKnown(r) /\ VerdictTrue(r) /\ r \in commandRequests /\ r # request
    BY <1>u DEF CommandInv
  <2>2. ClaimKnown(r)'
    BY <1>u, <1>w, <1>1, <1>5, <2>1 DEF ClaimKnown
  <2>3. r.kind = "refused" => r.command \in Commands
    BY <1>t, <2>1, RequestFields
  <2>4. r.kind = "refused" =>
            /\ r.command \in turnedDown \/ ~HeldBy(r)' \/ ~commandRow'[r.command].prepared
            /\ \A other \in commandRequests' : other.kind = "prepare" => other.claim # r.claim
    <3> SUFFICES ASSUME r.kind = "refused"
                 PROVE  /\ \/ r.command \in turnedDown
                           \/ ~HeldBy(r)' \/ ~commandRow'[r.command].prepared
                        /\ \A other \in commandRequests' : other.kind = "prepare" => other.claim # r.claim
      OBVIOUS
    <3>1. request.claim # r.claim
      BY <1>u, <2>1 DEF VerdictTrue
    <3>2. HeldBy(r)' => HeldBy(r) /\ ~(r.command = c /\ HeldBy(request))
      BY <1>1, <1>h, <2>3, <3>1 DEF HeldBy
    <3>3. ~commandRow[r.command].prepared /\ HeldBy(r)' => ~commandRow'[r.command].prepared
      BY <1>1, <2>3, <3>2
    <3> QED
      BY <1>u, <2>1, <3>2, <3>3 DEF VerdictTrue
  <2>5. commandWorker' # commandWorker => r.claim # commandWorker.claim
    <3> SUFFICES ASSUME commandWorker' # commandWorker, r.claim = commandWorker.claim PROVE FALSE
      OBVIOUS
    <3>1. r.kind = "prepare" /\ commandWorker.command = {r.command} /\ commandWorker.claim = request.claim
      BY <1>w, <2>1 DEF VerdictTrue, AtCommand
    <3>2. r \in VerdictType
      BY <1>t, <2>1, <3>1 DEF CommandTypes, AskType
    <3>3. r.command = request.command
      BY <1>p, <3>1 DEF c
    <3>4. r = request
      BY <1>c, <1>u, <3>1, <3>2, <3>3 DEF VerdictType
    <3> QED
      BY <2>1, <3>4
  <2>6. VerdictTrue(r)'
    BY <1>u, <1>w, <2>1, <2>4, <2>5 DEF VerdictTrue, AtCommand
  <2> QED
    BY <2>2, <2>6
<1> QED
  BY <1>2, <1>3, <1>4, <1>6 DEF CommandInv

\* A verdict settles the row its claim holds, or nothing.
LEMMA InvOfServeVerdict ==
    ASSUME CommandInv, UNCHANGED commandKind, NEW request \in commandRequests, ServeVerdictOn(request)
    PROVE  CommandInv'
<1>t. CommandTypes
  BY DEF CommandInv
<1> DEFINE c == request.command
           status == IF request.kind = "retry" THEN "pending" ELSE request.kind
<1>u. /\ UNCHANGED <<commandKind, missingSlots, lateReleases, deliveries, ownerDecision, turnedDown, applied,
                     commandClaims>>
      /\ commandRequests' = commandRequests \ {request} /\ request.kind \in {"delivered", "refused", "retry"}
      /\ IF HeldBy(request)
         THEN /\ commandRow' = [commandRow EXCEPT ![c] = [commandRow[c] EXCEPT !.status = status, !.holder = Unclaimed]]
              /\ nextSequence' = Advanced(commandRow', missingSlots)
         ELSE UNCHANGED <<commandRow, nextSequence>>
  BY DEF ServeVerdictOn
<1>w. /\ commandWorker' \in CommandWorkerType /\ commandWorker'.claim = commandWorker.claim
      /\ commandWorker'.command \subseteq commandWorker.command
      /\ commandWorker' = commandWorker \/ commandWorker'.phase = "idle"
  <2>1. [commandWorker EXCEPT !.phase = "idle", !.command = {}] \in CommandWorkerType
    BY <1>t, WorkerFields, WorkerUpdates DEF WorkerPhase
  <2>2. commandWorker \in CommandWorkerType /\ DOMAIN commandWorker = {"id", "phase", "claim", "command"}
    BY <1>t, WorkerFields DEF CommandTypes
  <2>3. commandWorker' = commandWorker \/ commandWorker' = [commandWorker EXCEPT !.phase = "idle", !.command = {}]
    BY DEF ServeVerdictOn
  <2> QED
    BY <2>1, <2>2, <2>3
<1>c. c \in Commands /\ status \in {"pending", "delivered", "refused"} /\ Unclaimed \in [claim : Nat, worker : Nat]
  BY <1>t, <1>u, RequestFields DEF Unclaimed
<1>v. ClaimKnown(request) /\ VerdictTrue(request)
  BY DEF CommandInv
<1>h. HeldBy(request) => commandRow[c].status = "delivering" /\ commandRow[c].holder.claim = request.claim
  BY DEF HeldBy
<1>s. /\ HeldBy(request) /\ status = "delivered" => ownerDecision[c] # "none"
      /\ HeldBy(request) /\ status = "refused" =>
            c \in turnedDown \/ ~commandRow[c].prepared
  BY <1>u, <1>v DEF VerdictTrue
<1> HIDE DEF c, status
<1>1. /\ commandRow' \in [Commands -> CommandRowType]
      /\ \A d \in Commands : /\ commandRow'[d].prepared = commandRow[d].prepared
                             /\ commandRow'[d].heldAfterGap = commandRow[d].heldAfterGap
                             /\ \/ commandRow'[d] = commandRow[d]
                                \/ d = c /\ HeldBy(request) /\ commandRow'[d].status = status
  <2>1. CASE HeldBy(request)
    <3>1. [commandRow[c] EXCEPT !.status = status, !.holder = Unclaimed] \in CommandRowType
      BY <1>t, <1>c, CommandFields, CommandUpdates DEF CommandStatus, Terminal
    <3>2. commandRow' = [commandRow EXCEPT ![c] = [commandRow[c] EXCEPT !.status = status, !.holder = Unclaimed]]
      BY <1>u, <2>1
    <3>3. commandRow' \in [Commands -> CommandRowType]
      BY <1>t, <3>1, <3>2 DEF CommandTypes
    <3>4. ASSUME NEW d \in Commands
          PROVE  /\ commandRow'[d].prepared = commandRow[d].prepared
                 /\ commandRow'[d].heldAfterGap = commandRow[d].heldAfterGap
                 /\ \/ commandRow'[d] = commandRow[d]
                    \/ d = c /\ HeldBy(request) /\ commandRow'[d].status = status
      <4>1. CASE d = c
        <5>1. commandRow'[d] = [commandRow[d] EXCEPT !.status = status, !.holder = Unclaimed]
          BY <1>t, <1>c, <3>2, <4>1 DEF CommandTypes
        <5>2. DOMAIN commandRow[d] = {"status", "holder", "prepared", "heldAfterGap"}
          BY <1>t, CommandFields
        <5> QED
          BY <2>1, <4>1, <5>1, <5>2
      <4>2. CASE d # c
        <5>1. commandRow'[d] = commandRow[d]
          BY <1>t, <1>c, <3>2, <4>2 DEF CommandTypes
        <5> QED
          BY <5>1
      <4> QED
        BY <4>1, <4>2
    <3> QED
      BY <3>3, <3>4
  <2>2. CASE ~HeldBy(request)
    BY <1>t, <1>u, <2>2 DEF CommandTypes
  <2> QED
    BY <2>1, <2>2
<1>n. /\ nextSequence' \in Nat /\ nextSequence <= nextSequence' /\ nextSequence \in Nat
      /\ \A d \in Commands : nextSequence <= d /\ d < nextSequence' =>
             commandRow'[d].status \in Terminal \/ d \in missingSlots'
  <2>1. nextSequence' = Advanced(commandRow', missingSlots') \/ UNCHANGED nextSequence
    BY <1>u
  <2> QED
    BY <1>t, <2>1, HeadMoves DEF CommandTypes
<1>2. CommandTypes'
  BY <1>t, <1>u, <1>w, <1>1, <1>n DEF CommandTypes
<1>3. ASSUME NEW d \in Commands PROVE Untried(d)' /\ Shown(d)' /\ InPlace(d)'
  <2>1. Untried(d) /\ Shown(d) /\ InPlace(d) /\ d \in Nat
    BY <1>t, CommandFields DEF CommandInv
  <2>2. Untried(d)'
    BY <1>1, <1>c, <1>u, <1>w, <2>1 DEF Untried
  <2>3. Shown(d)'
    BY <1>1, <1>c, <1>s, <1>u, <2>1 DEF Shown
  <2>4. InPlace(d)'
    <3>1. commandRow'[d].status = "delivering" \/ commandRow'[d].prepared =>
            /\ d \in missingSlots' => d \in lateReleases'
            /\ Overtakes(d)' \/ d <= nextSequence'
      BY <1>1, <1>c, <1>n, <1>u, <2>1 DEF InPlace, Overtakes
    <3>2. d < nextSequence' => commandRow'[d].status \in Terminal \/ d \in missingSlots'
      <4>1. CASE nextSequence <= d
        BY <1>n, <4>1
      <4>2. CASE d < nextSequence
        BY <1>1, <1>h, <1>u, <2>1, <4>2 DEF InPlace, Terminal
      <4> QED
        BY <1>n, <2>1, <4>1, <4>2
    <3>3. /\ d \in missingSlots' => d < nextSequence'
          /\ commandRow'[d].heldAfterGap \/ d \in lateReleases' => d \in missingSlots'
      BY <1>1, <1>n, <1>u, <2>1 DEF InPlace
    <3> QED
      BY <3>1, <3>2, <3>3 DEF InPlace
  <2> QED
    BY <2>2, <2>3, <2>4
<1>4. \A d \in Commands : commandRow'[d].status = "delivering" =>
          commandRow[d].status = "delivering" /\ commandRow'[d].holder = commandRow[d].holder
  BY <1>1, <1>c
<1>5. WorkerKnown'
  BY <1>t, <1>u, <1>w, <1>1, <1>4, WorkerFields DEF CommandInv, WorkerKnown
<1>6. AtCommand' => commandWorker' = commandWorker
  BY <1>w DEF AtCommand
<1>7. ASSUME NEW r \in commandRequests' PROVE ClaimKnown(r)' /\ VerdictTrue(r)'
  <2>1. ClaimKnown(r) /\ VerdictTrue(r) /\ r \in commandRequests
    BY <1>u DEF CommandInv
  <2>2. ClaimKnown(r)'
    BY <1>u, <1>w, <1>4, <1>6, <2>1 DEF ClaimKnown, AtCommand
  <2>3. r.kind = "refused" => r.command \in Commands
    BY <1>t, <2>1, RequestFields
  <2>4. VerdictTrue(r)'
    BY <1>u, <1>w, <1>1, <1>4, <1>6, <2>1, <2>3 DEF VerdictTrue, AtCommand, HeldBy
  <2> QED
    BY <2>2, <2>4
<1> QED
  BY <1>2, <1>3, <1>5, <1>7 DEF CommandInv

-----------------------------------------------------------------------------
(* The owner decides.                                                         *)

LEMMA OwnerDecides ==
    ASSUME CommandTypes, NEW delivery \in deliveries, OwnerTakes(delivery)
    PROVE  /\ ownerDecision' \in [Commands -> Decisions] /\ applied' \subseteq applied \cup {delivery.command}
           /\ turnedDown \subseteq turnedDown' /\ turnedDown' \subseteq turnedDown \cup {delivery.command}
           /\ applied \subseteq applied' /\ (applied' # applied => ownerDecision[delivery.command] = "none")
           /\ \A d \in Commands : \/ ownerDecision'[d] = ownerDecision[d]
                                  \/ /\ ownerDecision[d] = "none" /\ ownerDecision'[d] # "none"
                                     /\ d = delivery.command \/ ownerDecision'[d] = "canceled"
           /\ \E told \in {"delivered", "refused"} :
                 /\ told = "delivered" => ownerDecision'[delivery.command] # "none"
                 /\ told = "refused" => delivery.command \in turnedDown'
                 /\ \/ commandWorker.phase = "delivering" /\ Conclude(delivery.command, told)
                    \/ UNCHANGED <<commandWorker, commandRequests>>
<1> DEFINE c == delivery.command
<1>1. c \in Commands /\ ownerDecision \in [Commands -> Decisions]
  BY DEF CommandTypes
<1>2. PICK told \in {"delivered", "refused"} :
         /\ IF told = "delivered" THEN Accepts(c) \/ Repeats(c) ELSE Refuses(c)
         /\ \/ commandWorker.phase = "delivering" /\ Conclude(c, told)
            \/ UNCHANGED <<commandWorker, commandRequests>>
  BY DEF OwnerTakes
<1> HIDE DEF c
<1>3. CASE told = "delivered" /\ Accepts(c)
  <2>1. ASSUME NEW d \in Commands
        PROVE  /\ ownerDecision'[d] \in Decisions /\ ownerDecision'[c] = "accepted"
               /\ \/ ownerDecision'[d] = ownerDecision[d]
                  \/ /\ ownerDecision[d] = "none" /\ ownerDecision'[d] # "none"
                     /\ d = c \/ ownerDecision'[d] = "canceled"
    BY <1>1, <1>3 DEF Accepts, MayAccept, Decisions
  <2>2. ownerDecision' \in [Commands -> Decisions]
    BY <1>3, <2>1 DEF Accepts
  <2>3. applied' = applied \cup {c} /\ UNCHANGED turnedDown /\ ownerDecision[c] = "none"
    BY <1>3 DEF Accepts, MayAccept
  <2>4. ownerDecision'[c] # "none"
    BY <1>1, <2>1
  <2> QED
    BY <1>2, <1>3, <2>1, <2>2, <2>3, <2>4 DEF c
<1>4. CASE told = "delivered" /\ Repeats(c)
  <2>1. UNCHANGED <<ownerDecision, turnedDown, applied>> /\ ownerDecision[c] # "none"
    BY <1>4 DEF Repeats
  <2> QED
    BY <1>1, <1>2, <1>4, <2>1 DEF c
<1>5. CASE told = "refused" /\ Refuses(c)
  <2>1. UNCHANGED <<ownerDecision, applied>> /\ turnedDown' = turnedDown \cup {c}
    BY <1>5 DEF Refuses
  <2> QED
    BY <1>1, <1>2, <1>5, <2>1 DEF c
<1> QED
  BY <1>2, <1>3, <1>4, <1>5

LEMMA InvOfOwner ==
    ASSUME CommandInv, UNCHANGED commandKind, NEW delivery \in deliveries, OwnerTakes(delivery)
    PROVE  CommandInv'
<1>t. CommandTypes
  BY DEF CommandInv
<1> DEFINE c == delivery.command
<1>u. /\ UNCHANGED <<commandKind, commandRow, nextSequence, missingSlots, lateReleases, commandClaims>>
      /\ deliveries' = deliveries \ {delivery}
  BY DEF OwnerTakes
<1>c. c \in Commands
  BY <1>t DEF CommandTypes
<1>p. commandRow[c].prepared
  BY <1>c DEF CommandInv, Untried
<1>d. /\ ownerDecision' \in [Commands -> Decisions] /\ applied' \subseteq applied \cup {c}
      /\ turnedDown \subseteq turnedDown' /\ turnedDown' \subseteq turnedDown \cup {c}
      /\ \A d \in Commands : \/ ownerDecision'[d] = ownerDecision[d]
                             \/ /\ ownerDecision[d] = "none" /\ ownerDecision'[d] # "none"
                                /\ d = c \/ ownerDecision'[d] = "canceled"
  BY <1>t, OwnerDecides
<1>k. PICK kind \in {"delivered", "refused"} :
         /\ kind = "delivered" => ownerDecision'[c] # "none"
         /\ kind = "refused" => c \in turnedDown'
         /\ \/ commandWorker.phase = "delivering" /\ Conclude(c, kind)
            \/ UNCHANGED <<commandWorker, commandRequests>>
  BY <1>t, OwnerDecides
<1>v. PICK told \in VerdictType : /\ told = Verdict(c, kind) /\ told.kind = kind
                                  /\ told.claim = commandWorker.claim /\ told.command = c
  <2>1. Verdict(c, kind) \in VerdictType
    BY <1>t, <1>c, <1>k, WorkerFields DEF Verdict, VerdictType
  <2>2. Verdict(c, kind).kind = kind /\ Verdict(c, kind).claim = commandWorker.claim /\ Verdict(c, kind).command = c
    BY DEF Verdict
  <2> QED
    BY <2>1, <2>2
<1>f. commandWorker \in CommandWorkerType /\ DOMAIN commandWorker = {"id", "phase", "claim", "command"}
  BY <1>t, WorkerFields DEF CommandTypes
<1>w. /\ commandWorker' \in CommandWorkerType /\ commandWorker'.claim = commandWorker.claim
      /\ commandWorker'.command = commandWorker.command
      /\ \/ UNCHANGED <<commandWorker, commandRequests>>
         \/ /\ commandWorker.phase = "delivering" /\ commandWorker'.phase = "settling"
            /\ commandRequests' = commandRequests \cup {told}
  <2>1. [commandWorker EXCEPT !.phase = "settling"] \in CommandWorkerType
    BY <1>t, WorkerFields, WorkerUpdates DEF WorkerPhase
  <2>2. CASE UNCHANGED <<commandWorker, commandRequests>>
    BY <1>f, <2>2
  <2>3. CASE commandWorker.phase = "delivering" /\ Conclude(c, kind)
    <3>1. commandWorker' = [commandWorker EXCEPT !.phase = "settling"] /\ commandRequests' = commandRequests \cup {told}
      BY <1>v, <2>3 DEF Conclude
    <3> QED
      BY <1>f, <2>1, <2>3, <3>1
  <2> QED
    BY <1>k, <2>2, <2>3
<1>s. told.kind = "delivered" => ownerDecision'[c] # "none"
  BY <1>k, <1>v
<1>r. told.kind = "refused" => c \in turnedDown'
  BY <1>k, <1>v
<1> HIDE DEF c
<1>1. commandRequests' \subseteq commandRequests \cup {told}
  BY <1>w
<1>2. CommandTypes'
  BY <1>t, <1>u, <1>c, <1>d, <1>v, <1>w, <1>1 DEF CommandTypes
<1>3. ASSUME NEW d \in Commands PROVE Untried(d)' /\ Shown(d)' /\ InPlace(d)'
  <2>1. Untried(d) /\ Shown(d) /\ InPlace(d)
    BY DEF CommandInv
  <2>2. Untried(d)'
    <3>1. ~commandRow[d].prepared =>
             /\ ownerDecision'[d] \in {"none", "canceled"} /\ d \notin applied' \cup turnedDown'
             /\ \A other \in deliveries' : other.command # d
      BY <1>d, <1>p, <1>u, <2>1 DEF Untried
    <3>2. commandWorker'.phase \in {"prepared", "delivering"} => commandWorker' = commandWorker
      BY <1>w
    <3> QED
      BY <1>u, <2>1, <3>1, <3>2 DEF Untried
  <2>3. Shown(d)'
    BY <1>d, <1>u, <2>1 DEF Shown
  <2>4. InPlace(d)'
    BY <1>u, <2>1 DEF InPlace, Overtakes
  <2> QED
    BY <2>2, <2>3, <2>4
<1>4. WorkerKnown'
  BY <1>u, <1>w DEF CommandInv, WorkerKnown
<1>5. AtCommand' => commandWorker' = commandWorker
  BY <1>w DEF AtCommand
<1>6. ASSUME NEW r \in commandRequests', r \in commandRequests PROVE ClaimKnown(r)' /\ VerdictTrue(r)'
  <2>1. ClaimKnown(r) /\ VerdictTrue(r) /\ (r.kind # "claim" => r.command \in Commands)
    BY <1>t, <1>6, RequestFields DEF CommandInv
  <2>2. CASE UNCHANGED <<commandWorker, commandRequests>>
    <3>1. ClaimKnown(r)'
      BY <1>u, <2>1, <2>2 DEF ClaimKnown, AtCommand
    <3>2. VerdictTrue(r)'
      BY <1>d, <1>u, <2>1, <2>2 DEF VerdictTrue, AtCommand, HeldBy
    <3> QED
      BY <3>1, <3>2
  <2>3. CASE /\ commandWorker.phase = "delivering" /\ commandWorker'.phase = "settling"
             /\ commandRequests' = commandRequests \cup {told}
    <3>w. AtCommand /\ ~AtCommand'
      BY <2>3 DEF AtCommand
    <3>1. ClaimKnown(r)'
      BY <1>u, <1>v, <1>w, <2>1, <2>3, <3>w DEF ClaimKnown
    <3>2. told.kind # "prepare"
      BY <1>v, <1>k
    <3>3. VerdictTrue(r)'
      BY <1>d, <1>u, <2>1, <2>3, <3>w, <3>2 DEF VerdictTrue, HeldBy
    <3> QED
      BY <3>1, <3>3
  <2> QED
    BY <1>w, <2>2, <2>3
<1>7. ASSUME told \in commandRequests', told \notin commandRequests PROVE ClaimKnown(told)' /\ VerdictTrue(told)'
  <2>1. commandWorker.phase = "delivering" /\ commandWorker'.phase = "settling" /\ AtCommand /\ ~AtCommand'
    BY <1>w, <1>7 DEF AtCommand
  <2>2. told.claim <= commandClaims /\ told.claim = commandWorker.claim /\ told.kind \in {"delivered", "refused"}
    BY <1>f, <1>v, <1>k DEF CommandInv, WorkerKnown, CommandWorkerType
  <2>3. ClaimKnown(told)'
    BY <1>u, <2>2 DEF ClaimKnown
  <2>4. \A other \in commandRequests' : other.kind = "prepare" => other.claim # told.claim
    BY <1>1, <2>1, <2>2 DEF CommandInv, VerdictTrue
  <2>5. VerdictTrue(told)'
    BY <1>r, <1>s, <1>v, <2>1, <2>4 DEF VerdictTrue
  <2> QED
    BY <2>3, <2>5
<1>8. \A r \in commandRequests' : ClaimKnown(r)' /\ VerdictTrue(r)'
  <2> SUFFICES ASSUME NEW r \in commandRequests' PROVE ClaimKnown(r)' /\ VerdictTrue(r)'
    OBVIOUS
  <2>1. CASE r \in commandRequests
    BY <1>6, <2>1
  <2>2. CASE r \notin commandRequests
    <3>1. r = told
      BY <1>1, <2>2
    <3> QED
      BY <1>7, <2>2, <3>1
  <2> QED
    BY <2>1, <2>2
<1> QED
  BY <1>2, <1>3, <1>4, <1>8 DEF CommandInv

-----------------------------------------------------------------------------
(* Every step.                                                                *)

LEMMA InvOfNext ==
    ASSUME CommandInv, [CommandNext]_commandVars
    PROVE  CommandInv'
<1>1. CASE UNCHANGED commandVars
  <2>1. UNCHANGED <<commandKind, commandRow, nextSequence, missingSlots, lateReleases, commandWorker, commandRequests,
                    deliveries, ownerDecision, turnedDown, applied, commandClaims>>
    BY <1>1 DEF commandVars
  <2>2. CommandTypes' /\ WorkerKnown'
    BY <2>1 DEF CommandInv, CommandTypes, WorkerKnown
  <2>3. ASSUME NEW c \in Commands PROVE Untried(c)' /\ Shown(c)' /\ InPlace(c)'
    BY <2>1 DEF CommandInv, Untried, Shown, InPlace, Overtakes
  <2>4. ASSUME NEW r \in commandRequests PROVE ClaimKnown(r)' /\ VerdictTrue(r)'
    BY <2>1 DEF CommandInv, ClaimKnown, VerdictTrue, AtCommand, HeldBy
  <2> QED
    BY <2>1, <2>2, <2>3, <2>4 DEF CommandInv
<1>2. CASE CommandNext
  <2>k. UNCHANGED commandKind
    BY <1>2 DEF CommandNext
  <2>1. ASSUME NEW c \in Commands,
               \/ RetainHumanCommand(c) \/ RetainPreCustodyRefusal(c) \/ ReleaseMissingSlot(c) \/ ReleaseHeldLate(c)
               \/ WithdrawPendingCreation(c) \/ PrepareCommand(c) \/ DeliverCommand(c) \/ Uncertain(c)
        PROVE  CommandInv'
    BY <2>k, <2>1, InvOfRetained, InvOfReleased, InvOfPrepare, InvOfDeliver
  <2>2. ASSUME NEW request \in commandRequests,
               ServeCommandClaim(request) \/ KeepPreparation(request) \/ ServeVerdictOn(request)
        PROVE  CommandInv'
    BY <2>k, <2>2, InvOfServeClaim, InvOfKeepPreparation, InvOfServeVerdict
  <2>3. ASSUME NEW delivery \in deliveries, OwnerTakes(delivery) PROVE CommandInv'
    BY <2>k, <2>3, InvOfOwner
  <2>4. CASE AskForCommand \/ RoundFails \/ WorkerDies \/ WorkerStarts
    BY <2>k, <2>4, InvOfAsk, InvOfPause
  <2> QED
    BY <1>2, <2>1, <2>2, <2>3, <2>4 DEF CommandNext
<1> QED
  BY <1>1, <1>2

LEMMA InvOfInit ==
    ASSUME CommandInit PROVE CommandInv
<1> DEFINE row == [status |-> "absent", holder |-> Unclaimed, prepared |-> FALSE, heldAfterGap |-> FALSE]
           hands == [id |-> 1, phase |-> "idle", claim |-> 0, command |-> {}]
<1>1. /\ commandRow = [c \in Commands |-> row] /\ commandWorker = hands /\ commandRequests = {} /\ deliveries = {}
      /\ nextSequence = 1 /\ missingSlots = {} /\ lateReleases = {} /\ applied = {} /\ commandClaims = 0
      /\ turnedDown = {}
      /\ ownerDecision = [c \in Commands |-> "none"]
      /\ commandKind \in [Commands -> {"input", "creation", "stop", "cancel"}]
  BY CommandAssumption DEF CommandInit
<1>2. row \in CommandRowType
  BY DEF CommandRowType, CommandStatus, Unclaimed
<1>3. hands \in CommandWorkerType /\ hands.phase = "idle" /\ hands.claim = 0 /\ hands.command = {}
  BY DEF CommandWorkerType, WorkerPhase
<1>4. row.status = "absent" /\ ~row.prepared /\ ~row.heldAfterGap
  OBVIOUS
<1> HIDE DEF row, hands
<1>5. CommandTypes
  BY <1>1, <1>2, <1>3 DEF CommandTypes, Decisions
<1>6. WorkerKnown
  BY <1>1, <1>3, <1>4 DEF WorkerKnown
<1>7. ASSUME NEW c \in Commands PROVE Untried(c) /\ Shown(c) /\ InPlace(c)
  <2>1. commandRow[c] = row /\ ownerDecision[c] = "none" /\ ~(c < nextSequence)
    BY <1>1, CommandAssumption
  <2> QED
    BY <1>1, <1>3, <1>4, <2>1 DEF Untried, Shown, InPlace
<1> QED
  BY <1>1, <1>5, <1>6, <1>7 DEF CommandInv

(* Whatever claims, verdicts and deliveries are lost, late or repeated: rows, *)
(* the worker's hands and what is on its way agree as CommandInv says.        *)
THEOREM CommandsAgree == CommandSpec => []CommandInv
BY InvOfInit, InvOfNext, PTL DEF CommandSpec

(* What the ingress shows of a command is what its owner did with it.         *)
THEOREM OutcomeIsTold == CommandSpec => []ToldTheOutcome
<1>1. CommandInv => ToldTheOutcome
  <2> SUFFICES ASSUME CommandInv, NEW c \in Commands
               PROVE  /\ commandRow[c].status = "delivered" => ownerDecision[c] \in {"accepted", "canceled"}
                      /\ commandRow[c].status = "refused" => ownerDecision[c] # "accepted" \/ c \in turnedDown
    BY DEF ToldTheOutcome
  <2>1. Untried(c) /\ Shown(c) /\ ownerDecision[c] \in Decisions
    BY DEF CommandInv, CommandTypes
  <2> QED
    BY <2>1 DEF Untried, Shown, Decisions
<1> QED
  BY <1>1, CommandsAgree, PTL

(* The owner carries commands out in the order of their stream.               *)
THEOREM InOrderAlways == CommandSpec => CarriedOutInOrder
<1> DEFINE Order == \A c \in applied' \ applied : \A d \in applied :
                       ~Overtakes(c) /\ ~Overtakes(d) /\ c < d =>
                          c \in lateReleases \/ commandRow[c].status \in {"canceled", "refused"}
<1>1. ASSUME CommandInv, [CommandNext]_commandVars PROVE [Order]_commandVars
  <2> SUFFICES ASSUME NEW c \in applied' \ applied, NEW d \in applied, ~Overtakes(c), ~Overtakes(d), c < d
               PROVE  c \in lateReleases \/ commandRow[c].status \in {"canceled", "refused"}
    OBVIOUS
  <2>t. CommandInv /\ CommandTypes
    BY <1>1 DEF CommandInv
  <2>1. PICK delivery \in deliveries : OwnerTakes(delivery)
    BY <1>1 DEF CommandNext, commandVars, RetainHumanCommand, RetainPreCustodyRefusal,
         ReleaseMissingSlot, ReleaseHeldLate,
                WithdrawPendingCreation, PrepareCommand, DeliverCommand, Uncertain, ServeCommandClaim, KeepPreparation,
                ServeVerdictOn, AskForCommand, RoundFails, WorkerDies, WorkerStarts
  <2>2. c = delivery.command /\ c \in Commands /\ d \in Commands /\ ownerDecision[c] = "none"
    BY <2>t, <2>1, OwnerDecides DEF CommandTypes
  <2>3. Untried(c) /\ Shown(c) /\ InPlace(c) /\ Untried(d) /\ InPlace(d) /\ c \in Nat /\ d \in Nat /\ nextSequence \in Nat
    BY <2>t, <2>2, CommandFields DEF CommandInv, CommandTypes
  <2>4. commandRow[c].prepared /\ commandRow[d].prepared
    BY <2>2, <2>3 DEF Untried
  <2>5. c < nextSequence
    BY <2>3, <2>4 DEF InPlace
  <2>6. CASE commandRow[c].status \in Terminal
    BY <2>2, <2>3, <2>4, <2>6 DEF Shown, Terminal
  <2>7. CASE c \in missingSlots
    BY <2>3, <2>4, <2>7 DEF InPlace
  <2> QED
    BY <2>3, <2>5, <2>6, <2>7 DEF InPlace
<1>2. CarriedOutInOrder <=> [][Order]_commandVars
  BY PTL DEF CarriedOutInOrder
<1> HIDE DEF Order
<1> QED
  BY <1>1, <1>2, CommandsAgree, PTL DEF CommandSpec

===============================================================================
