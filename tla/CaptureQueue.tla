---------------------------- MODULE CaptureQueue ----------------------------
(* The queue of captures and the worker that delivers them.  The rows live in *)
(* the ingress process (capture-state.ts) behind an HTTP API; the worker      *)
(* (capture-delivery-worker.ts) lives in the coordinator, names every claim   *)
(* anew and repeats a request that is not answered, so that an answer may be  *)
(* lost and a copy of a request may arrive late.  A deployment closes a gate  *)
(* over the queue while it replaces either process.                           *)
EXTENDS Naturals, FiniteSets

CONSTANTS
    Captures,
    InspectOnly,        \* rows of the retired Slack route, never delivered again
    MaxClaims,          \* bound: claims the workers name
    MaxIncarnations     \* bound: coordinator processes, one after the other

ASSUME CaptureAssumption == InspectOnly \subseteq Captures /\ {MaxClaims, MaxIncarnations} \subseteq Nat

VARIABLES
    captureRow,         \* a row: its status, the claim it was last given to and that claim's process
    worker,             \* the delivery loop of the living process
    requests,           \* requests sent, every one of which may (again) reach the queue
    claims,             \* claims named so far
    gate                \* capture_delivery_gate: its mode, and whether its owner lives

captureVars == <<captureRow, worker, requests, claims, gate>>

Nobody == 0

CaptureTypeOK ==
    /\ captureRow \in [Captures -> [status : {"absent", "pending", "sending", "delivered", "parked"},
                                    claim : Nat, owner : Nat]]
    /\ worker \in [process : Nat, phase : {"down", "idle", "claim", "deliver", "settle", "stopping"},
                   claim : Nat, event : SUBSET Captures, verdict : {"none", "delivered", "retry", "park"}]
    /\ claims \in Nat
    /\ gate \in [mode : {"none", "live", "held"}, alive : BOOLEAN]

CaptureInit ==
    /\ captureRow = [e \in Captures |-> [status |-> "absent", claim |-> Nobody, owner |-> Nobody]]
    /\ worker = [process |-> 1, phase |-> "idle", claim |-> Nobody, event |-> {}, verdict |-> "none"]
    /\ requests = {} /\ claims = 0
    /\ gate = [mode |-> "none", alive |-> FALSE]

(* Processes follow one another; pid, boot and start tick tell them apart.    *)
OwnerAlive(process) == process = worker.process /\ worker.phase # "down"

Interrupted(e) == captureRow[e].status = "sending" /\ ~OwnerAlive(captureRow[e].owner)

-----------------------------------------------------------------------------
\* The ingress accepts a webhook; a repeated one finds its row.
Accept(e) ==
    /\ captureRow[e].status = "absent"
    /\ captureRow' = [captureRow EXCEPT ![e].status = "pending"]
    /\ UNCHANGED <<worker, requests, claims, gate>>

\* Rows of a dead process go back into the queue; what a Slack post did must be looked at.
Recovered ==
    [e \in Captures |->
        IF ~Interrupted(e) THEN captureRow[e]
        ELSE [status |-> IF e \in InspectOnly THEN "parked" ELSE "pending", claim |-> Nobody, owner |-> Nobody]]

ClaimedBy(request, row) ==
    {e \in Captures : /\ row[e].status = "sending"
                      /\ row[e].claim = request.claim /\ row[e].owner = request.process}

ClaimableBehindGate(row) == {e \in Captures : row[e].status = "pending"}

Claimable(row) == IF gate.mode = "none" THEN {e \in Captures : row[e].status = "pending"} ELSE {}

Answer(request, event) ==
    IF worker.phase = "claim" /\ worker.claim = request.claim
    THEN worker' \in {worker, [worker EXCEPT !.phase = IF event = {} THEN "idle" ELSE "deliver", !.event = event]}
    ELSE UNCHANGED worker

\* POST /claim; the answer may be lost after the commit.
ServeClaim(request) ==
    /\ request.kind = "claim"
    /\ LET mine == ClaimedBy(request, Recovered)
           free == Claimable(Recovered)
       IN  IF mine # {} \/ free = {} THEN captureRow' = Recovered /\ Answer(request, mine)
           ELSE \E e \in free :
                /\ captureRow' = [Recovered EXCEPT ![e] =
                       [status |-> "sending", claim |-> request.claim, owner |-> request.process]]
                /\ Answer(request, {e})
    /\ UNCHANGED <<requests, claims, gate>>

SameProcess(row, request) == row.owner = request.process

SameClaim(row, request) == row.claim = request.claim /\ row.owner = request.process

StatusAsAsked(verdict) == verdict

StatusOf(verdict) == CASE verdict = "delivered" -> "delivered" [] verdict = "retry" -> "pending" [] OTHER -> "parked"

Waiting(request) == worker.phase = "settle" /\ worker.claim = request.claim

\* POST /events/:id/:verdict: applied once, confirmed when repeated, refused to any other claim (409).
ServeVerdict(request) ==
    /\ request.kind = "verdict"
    /\ LET row == captureRow[request.event]
           target == StatusOf(request.verdict)
       IN  IF SameClaim(row, request) /\ row.status \in {"sending", target}
           THEN /\ captureRow' = [captureRow EXCEPT ![request.event].status = target]
                /\ IF Waiting(request)
                   THEN worker' \in {worker, [worker EXCEPT !.phase = "idle", !.event = {}, !.verdict = "none"]}
                   ELSE UNCHANGED worker
           ELSE /\ UNCHANGED captureRow
                /\ IF Waiting(request) THEN worker' \in {worker, [worker EXCEPT !.phase = "stopping"]}
                   ELSE UNCHANGED worker
    /\ UNCHANGED <<requests, claims, gate>>

-----------------------------------------------------------------------------
\* The loop's next round: a claim id of its own.
NameClaim ==
    /\ worker.phase = "idle" /\ claims < MaxClaims
    /\ claims' = claims + 1
    /\ worker' = [worker EXCEPT !.phase = "claim", !.claim = claims', !.event = {}, !.verdict = "none"]
    /\ requests' = requests \cup {[kind |-> "claim", claim |-> claims', process |-> worker.process]}
    /\ UNCHANGED <<captureRow, gate>>

\* The note is written or the inbox takes the input, both known by the capture's id; or that fails.
Deliver(e) ==
    /\ worker.phase = "deliver" /\ e \in worker.event
    /\ \E verdict \in IF e \in InspectOnly THEN {"park"} ELSE {"delivered", "retry", "park"} :
        /\ worker' = [worker EXCEPT !.phase = "settle", !.verdict = verdict]
        /\ requests' = requests \cup {[kind |-> "verdict", claim |-> worker.claim, process |-> worker.process,
                                       event |-> e, verdict |-> verdict]}
    /\ UNCHANGED <<captureRow, claims, gate>>

\* Anything but a delivery error ends the loop, and with it the process.
Fatal ==
    /\ worker.phase = "deliver"
    /\ worker' = [worker EXCEPT !.phase = "stopping"]
    /\ UNCHANGED <<captureRow, requests, claims, gate>>

\* Five attempts without an answer: the loop goes on with another claim.
QueueUnavailable ==
    /\ worker.phase \in {"claim", "settle"}
    /\ worker' = [worker EXCEPT !.phase = "idle", !.event = {}, !.verdict = "none"]
    /\ UNCHANGED <<captureRow, requests, claims, gate>>

Exit ==
    /\ worker.phase # "down"
    /\ worker' = [worker EXCEPT !.phase = "down", !.event = {}, !.verdict = "none"]
    /\ UNCHANGED <<captureRow, requests, claims, gate>>

Start ==
    /\ worker.phase = "down" /\ worker.process < MaxIncarnations
    /\ worker' = [worker EXCEPT !.process = @ + 1, !.phase = "idle"]
    /\ UNCHANGED <<captureRow, requests, claims, gate>>

-----------------------------------------------------------------------------
(* scripts/capture-drain-status.ts, which a deployment runs.                  *)
StaleGate == gate.mode = "live" /\ ~gate.alive

\* Its recovery puts every row of a dead process back, and keeps the claim's name.
DrainRecovered ==
    [e \in Captures |-> IF ~Interrupted(e) THEN captureRow[e]
                        ELSE [captureRow[e] EXCEPT !.status = "pending", !.owner = Nobody]]

Quiet(row) == \A e \in Captures : row[e].status # "sending"

ClaimGate ==
    /\ captureRow' = DrainRecovered
    /\ LET cleared == IF StaleGate THEN [mode |-> "none", alive |-> FALSE] ELSE gate
           granted == Quiet(DrainRecovered) /\ (cleared.mode = "none" \/ (cleared.mode = "held" /\ ~cleared.alive))
       IN  gate' = IF granted THEN [mode |-> "live", alive |-> TRUE] ELSE cleared
    /\ UNCHANGED <<worker, requests, claims>>

HoldGate ==
    /\ gate.mode = "live" /\ gate.alive
    /\ gate' = [gate EXCEPT !.mode = "held"]
    /\ UNCHANGED <<captureRow, worker, requests, claims>>

GateOwnerExits ==
    /\ gate.alive
    /\ gate' = [gate EXCEPT !.alive = FALSE]
    /\ UNCHANGED <<captureRow, worker, requests, claims>>

\* release by its token, recover after its owner, or the clearing of a stale gate.
OpenGate ==
    /\ gate.mode # "none"
    /\ gate' = [mode |-> "none", alive |-> FALSE]
    /\ UNCHANGED <<captureRow, worker, requests, claims>>

CaptureNext ==
    \/ \E e \in Captures : Accept(e) \/ Deliver(e)
    \/ \E request \in requests : ServeClaim(request) \/ ServeVerdict(request)
    \/ NameClaim \/ Fatal \/ QueueUnavailable \/ Exit \/ Start
    \/ ClaimGate \/ HoldGate \/ GateOwnerExits \/ OpenGate

CaptureSpec == CaptureInit /\ [][CaptureNext]_captureVars

-----------------------------------------------------------------------------
(* What a worker is delivering is its own: whatever repeated and late request *)
(* arrives, whoever recovers rows, the row stays with the claim in hand until *)
(* that claim's verdict, and a final verdict stands.                          *)
HeldWhileDelivering ==
    \A e \in worker.event :
        LET mine == captureRow[e].claim = worker.claim /\ captureRow[e].owner = worker.process
        IN  /\ worker.phase = "deliver" => mine /\ captureRow[e].status = "sending"
            /\ worker.phase = "settle" /\ worker.verdict # "retry" =>
                   mine /\ captureRow[e].status \in {"sending", StatusOf(worker.verdict)}

(* A deployment that was told the queue is drained replaces processes while   *)
(* no capture is being delivered: none is given out until the gate opens.     *)
DrainedIsQuiet == gate.mode # "none" => Quiet(captureRow)

(* "... repeating that claim or acknowledgement returns the already committed *)
(* result rather than stranding a live-owned row"                             *)
(* (docs/plans/2026-08-19-pebble-concierge-handoff.md:46-48): a row that is   *)
(* being sent by a living process is the one in its worker's hands.           *)
NoStrandedRow ==
    \A e \in Captures :
        captureRow[e].status = "sending" /\ OwnerAlive(captureRow[e].owner) =>
            worker.claim = captureRow[e].claim /\ worker.phase # "idle"

=============================================================================
