------------------------------ MODULE TurnLedger ------------------------------
(***************************************************************************)
(* The turn ledger of the coordinator: one row of the table `turns` per    *)
(* accepted input, the status of its session, and the in-process runs that *)
(* move the rows (bot/src/state.ts, turn-execution.ts, turn-recovery.ts,   *)
(* the callbacks of index.ts and session-execution-host.ts).               *)
(*                                                                         *)
(* Every action is one synchronous stretch of the code: a SQLite           *)
(* transaction with the statements around it up to the next `await`.       *)
(* Awaits are where actions of other turns, the owner's requests and a     *)
(* crash come in.  A crash loses what the process holds (`run`, `failure`, *)
(* `grants`); the tables survive it.                                       *)
(*                                                                         *)
(* Abstractions.  Text, attachments, projections to Slack and wall-clock   *)
(* times are left out: a turn waiting for an instant may be claimed at any *)
(* time.  Account, focus, saved-work and dependency holds are left out.    *)
(* The four pieces of provider evidence written after the admission intent *)
(* (provider_started_at, provider_turn_id) are represented by the intent.  *)
(***************************************************************************)
EXTENDS Integers, FiniteSets

CONSTANTS
    Sessions,        \* rows of the table `sessions`
    NTurns,          \* turn ids are 1..NTurns, given out in order
    SessionOf,       \* the session an input addresses
    Kind,            \* turn_kind
    Priority,        \* queue_priority
    MaxAttempts,     \* bound: the last attempt meets no failure, and none
                     \* after it a Stop
    MaxInstances,    \* bound: number of coordinator processes, crashes + 1
    Stoppable,       \* turns a human may stop
    Steerable,       \* turns that may receive a steering message
    Attaching,       \* turns whose provider may leave files to upload
    Refusing,        \* turns whose error handling may itself throw: Slack
                     \* refuses the last progress update, or a drain cuts it off
    Receipted,       \* turns whose provider keeps receipts of what it sent (ChatGPT)
    Archivable,      \* sessions that may be archived
    Gates            \* values the admission gate may take

Turns == 1..NTurns
Kinds == {"slack_user", "comparison", "machine_alert", "native"}
RetryClasses == {"backoff", "auth_wait", "usage_wait"}
ParkClasses == {"parked_access", "parked_terminal", "parked_ambiguous"}

ASSUME NTurnsAssumption == NTurns \in Nat
ASSUME SessionOfAssumption == SessionOf \in [Turns -> Sessions]
ASSUME KindAssumption == Kind \in [Turns -> Kinds]
ASSUME PriorityAssumption == Priority \in [Turns -> Int]
ASSUME BoundsAssumption == MaxAttempts \in Nat /\ MaxInstances \in Nat \ {0}
ASSUME ScopeAssumption ==
    /\ Stoppable \subseteq Turns /\ Steerable \subseteq Turns
    /\ Attaching \subseteq Turns /\ Refusing \subseteq Turns /\ Receipted \subseteq Turns
    /\ Archivable \subseteq Sessions
    /\ Gates \subseteq {"open", "drain", "paused"}

VARIABLES
    turn,            \* the rows of `turns` (durable)
    sessionStatus,   \* sessions.status (durable)
    gate,            \* deployment_drain / global_pause (durable)
    instance,        \* the coordinator's instance id
    phase,           \* of the coordinator: recovering, serving or stopping
    run,             \* how far the coordinator's run of a turn has come
    queueRuns,       \* turns the queue coordinator runs (the rest were run at
                     \* admission by the Slack handler)
    failure,         \* the error a run is handling
    grants,          \* sessionsAwaitingParkedResume
    toRecover,       \* rows the start-up recovery has listed and not yet settled
    effects,         \* history: the provider may have acted on the input and
                     \* has not confirmed that it did nothing
    revived,         \* history: turns put back in line after they ended in an error
    thrown           \* history: turns whose error handling itself threw

ledger == <<turn, sessionStatus>>
service == <<gate, instance, phase, toRecover>>
history == <<effects, revived, thrown>>
process == <<instance, phase, run, queueRuns, failure, grants, toRecover>>
vars == <<turn, sessionStatus, gate, instance, phase, run, queueRuns, failure,
          grants, toRecover, history>>

NoOwner == 0

Statuses == {"absent", "queued", "running", "delivering", "done", "error",
             "cancelled", "interrupted", "parked", "delivery_parked"}

TurnRow == [status    : Statuses,
            owner     : Nat,            \* owner_instance_id
            attempt   : Nat,            \* dispatch_attempt
            intended  : BOOLEAN,        \* provider_admission_intended_at
            acked     : BOOLEAN,        \* provider_input_acknowledged_at
            stop      : BOOLEAN,        \* stop_requested_at
            class     : {"none"} \cup RetryClasses \cup ParkClasses,
            delivery  : {"none", "pending", "delivered", "parked", "not_available"},
            steered   : BOOLEAN,        \* a steering message sent, sending or ambiguous
            artifacts : {"none", "pending", "settled"}]

RunStates == {"none",        \* no promise runs this turn
              "claimed",     \* preparation: files, links, prompt
              "cleared",     \* past the stop check, reading accounts and runners
              "intended",    \* admission intent persisted, provider not yet called
              "provider",    \* awaiting the provider
              "failed",      \* in the catch block
              "result",      \* provider output in hand, artifact intents registered
              "delivering",  \* sending the reply
              "confirmed",   \* the reply is out, terminal accounting remains
              "redeliver",   \* recovery sends a reply saved earlier; like "resettle",
              "resettle",    \* its "confirmed", not in the dispatch registry
              "unwind"}      \* leaving the dispatch registry

\* What an error says: whether the provider confirmed a terminal zero-work end,
\* and how the attempt failed ("worked": it had used tools or produced output).
Failures == [confirmed : BOOLEAN,
             kind : {"cancelled", "retryable", "access", "terminal", "worked"}]
NoFailure == [confirmed |-> FALSE, kind |-> "terminal"]

AbsentRow == [status |-> "absent", owner |-> NoOwner, attempt |-> 0,
              intended |-> FALSE, acked |-> FALSE, stop |-> FALSE,
              class |-> "none", delivery |-> "none", steered |-> FALSE,
              artifacts |-> "none"]

Init ==
    /\ turn = [t \in Turns |-> AbsentRow]
    /\ sessionStatus = [s \in Sessions |-> "idle"]
    /\ gate = "open"
    /\ instance = 1
    /\ phase = "recovering"
    /\ run = [t \in Turns |-> "none"]
    /\ queueRuns = {}
    /\ failure = [t \in Turns |-> NoFailure]
    /\ grants = {}
    /\ toRecover = {}
    /\ effects = [t \in Turns |-> FALSE]
    /\ revived = {}
    /\ thrown = {}

-----------------------------------------------------------------------------
(* Conditions the SQL shares.                                              *)

Native(t) == Kind[t] = "native"
Siblings(t) == {u \in Turns \ {t} : SessionOf[u] = SessionOf[t]}
Live(t) == turn[t].status \in {"running", "delivering"}
SessionLive(t) == \E u \in Siblings(t) : Live(u)
Archived(t) == sessionStatus[SessionOf[t]] = "archived"
ActiveSession(t) == \E u \in Turns : SessionOf[u] = SessionOf[t]
                       /\ run[u] \notin {"none", "redeliver", "resettle"}

\* Defect: a turn cut off by a crash holds its session back.
BlocksWhenInterrupted(o) ==
    \/ turn[o].status \in {"queued", "interrupted"}
    \/ turn[o].status = "parked" /\ ~Native(o)

\* An earlier turn that holds back the session's later inputs.
Blocks(o) ==
    \/ turn[o].status = "queued"
    \/ turn[o].status = "parked" /\ ~Native(o)

\* Defect: inputs of one priority have no order.
PrecedesByPriorityOnly(o, t) ==
    IF turn[o].status = "parked" THEN o < t ELSE Priority[o] > Priority[t]

\* queuePrecedesSql: a parked turn keeps its place, the rest go by priority.
Precedes(o, t) ==
    IF turn[o].status = "parked" THEN o < t
    ELSE \/ Priority[o] > Priority[t]
         \/ Priority[o] = Priority[t] /\ o < t

ArtifactsOwed(t) == \E u \in Turns : SessionOf[u] = SessionOf[t] /\ turn[u].artifacts = "pending"

\* getRunningTurnDispatchBoundary's fence: this process still runs the turn.
Owned(t) == turn[t].status = "running" /\ turn[t].owner = instance

\* Defect: the recorded intent is not taken as evidence.
UnattemptedUntilAcknowledged(t) ==
    /\ ~turn[t].acked /\ ~turn[t].steered
    /\ turn[t].artifacts = "none"

\* neverAdmittedWithoutEffects, and the guard of requeueOrphanedPreAdmissionTurn.
Unattempted(t) ==
    /\ ~turn[t].intended /\ ~turn[t].acked /\ ~turn[t].steered
    /\ turn[t].artifacts = "none"

\* Failures of the environment stop with attempt MaxAttempts, so that a run ends.
MayFail(t) == turn[t].attempt < MaxAttempts

-----------------------------------------------------------------------------
(* Row updates several handlers share.                                     *)

\* Defect: the session is not given back.
ReleaseForgotten(t, status) == UNCHANGED sessionStatus

\* `status=CASE WHEN status='archived' THEN status ELSE 'idle' END`
Release(t, status) ==
    sessionStatus' = [sessionStatus EXCEPT ![SessionOf[t]] =
                          IF @ = "archived" THEN @ ELSE status]

Requeued(t, class) ==
    [turn[t] EXCEPT !.status = "queued", !.owner = NoOwner, !.class = class]

Claimed(t) ==
    [turn[t] EXCEPT !.status = "running", !.owner = instance, !.attempt = @ + 1,
                    !.class = "none", !.intended = FALSE, !.stop = FALSE]

Ended(t, status) == [turn[t] EXCEPT !.status = status, !.owner = NoOwner]

\* Defect: the uploads stay owed.
AbandonedLater(row) == row

\* abandonTurnArtifactBatch: uploads not yet started are given up.
Abandoned(row) ==
    [row EXCEPT !.artifacts = IF @ = "pending" THEN "settled" ELSE @]

\* Defect: every relinquished reply is pending again.
RelinquishedAsPending(row) == [row EXCEPT !.owner = NoOwner, !.delivery = "pending"]

\* relinquishTurnDelivery.
Relinquished(row) ==
    [row EXCEPT !.owner = NoOwner,
                !.delivery = IF @ = "delivered" THEN @ ELSE "pending"]

Interrupted(t) ==
    Abandoned([turn[t] EXCEPT !.status = "interrupted", !.delivery = "not_available"])

\* A parked turn that may be tried again: resumeParkedSessionTurn's checks.
Resumable(t) ==
    /\ turn[t].status = "parked"
    /\ Kind[t] \in {"slack_user", "comparison"}
    /\ ~Archived(t)
    /\ ~turn[t].steered
    /\ turn[t].class # "parked_ambiguous"
    /\ turn[t].artifacts = "none"

Resumed(t) == [turn[t] EXCEPT !.status = "queued", !.intended = FALSE]

\* resumeBlockedParkedHeadTurns: a parked turn with nothing unfinished before
\* it and a queued successor.
ParkedHead(t) ==
    /\ \A u \in Siblings(t) : u < t =>
           turn[u].status \notin {"queued", "parked", "running", "delivering"}
    /\ \E u \in Siblings(t) : u > t /\ turn[u].status = "queued"

\* The rows after a resume sweep over the sessions of S.
AfterResume(S) ==
    [t \in Turns |-> IF SessionOf[t] \in S /\ Resumable(t) /\ ParkedHead(t)
                     THEN Resumed(t) ELSE turn[t]]

-----------------------------------------------------------------------------
(* Admission.                                                              *)

NextId(t) == /\ turn[t].status = "absent"
             /\ \A u \in Turns : u < t => turn[u].status # "absent"

\* acquireSessionTurn's lock: nothing live, nothing in line, no upload owed.
LockFree(t) ==
    /\ ~SessionLive(t)
    /\ \A o \in Siblings(t) : o < t => ~Blocks(o)
    /\ ~ArtifactsOwed(t)

\* A Slack message or comparison.  It runs at once when the process is ready
\* (not draining, not admission-only, no active run of the session), the gate
\* is open and the session lock is free; this process has just inserted the
\* turn, so `Claimed` starts from the absent row.
AcquireRunning(t) ==
    /\ phase = "serving" /\ gate = "open"
    /\ NextId(t) /\ Kind[t] \in {"slack_user", "comparison"} /\ ~Archived(t)
    /\ ~ActiveSession(t) /\ LockFree(t)
    /\ turn' = [turn EXCEPT ![t] = Claimed(t)]
    /\ sessionStatus' = [sessionStatus EXCEPT ![SessionOf[t]] = "running"]
    /\ run' = [run EXCEPT ![t] = "claimed"]
    /\ UNCHANGED <<queueRuns, failure, grants, history, service>>

\* Otherwise it is queued, and the parked head it waits behind may be resumed:
\* now, or once when the session's next run settles.
AcquireQueued(t) ==
    LET queued == [turn EXCEPT ![t].status = "queued"]
        heads  == {h \in Siblings(t) : Resumable(h)
                     /\ \A u \in Siblings(h) : u < h =>
                          turn[u].status \notin {"queued", "parked", "running", "delivering"}}
    IN
    /\ NextId(t) /\ Kind[t] \in {"slack_user", "comparison"} /\ ~Archived(t)
    /\ ~(phase = "serving" /\ gate = "open" /\ ~ActiveSession(t) /\ LockFree(t))
    /\ turn' = [u \in Turns |-> IF u \in heads THEN Resumed(u) ELSE queued[u]]
    /\ grants' = IF heads = {} THEN grants \cup {SessionOf[t]} ELSE grants
    /\ UNCHANGED <<sessionStatus, run, queueRuns, failure, history, service>>

\* A machine alert or a native input is always queued, for the queue to claim.
AcceptQueued(t) ==
    /\ NextId(t) /\ Kind[t] \in {"machine_alert", "native"} /\ ~Archived(t)
    /\ turn' = [turn EXCEPT ![t].status = "queued"]
    /\ UNCHANGED <<sessionStatus, gate, process, history>>

\* CLAIMABLE_QUEUED_TURN_WHERE.
InLine(t) ==
    /\ \A o \in Siblings(t) : ~(Precedes(o, t) /\ Blocks(o))
    /\ ~SessionLive(t)
    /\ ~ArtifactsOwed(t)

Claimable(t) ==
    /\ turn[t].status = "queued"
    /\ turn[t].class \notin {"auth_wait", "usage_wait"}
    /\ Native(t) => ~Archived(t)
    /\ gate = "open" \/ (gate = "drain" /\ Native(t))
    /\ InLine(t)
    /\ ~ActiveSession(t)

\* claimNextQueuedTurn: the lowest claimable id of all sessions runs; in an
\* archived session it is ended instead.  (The code ends archived candidates
\* and claims the first other one in one transaction; here each is a step.)
ClaimNextQueuedTurn(t) ==
    /\ phase = "serving"
    /\ Claimable(t) /\ \A u \in Turns : Claimable(u) => t <= u
    /\ IF Archived(t)
       THEN /\ turn' = [turn EXCEPT ![t] = Ended(t, "error")]
            /\ UNCHANGED <<sessionStatus, run, queueRuns>>
       ELSE /\ turn' = [turn EXCEPT ![t] = Claimed(t)]
            /\ sessionStatus' = [sessionStatus EXCEPT ![SessionOf[t]] = "running"]
            /\ run' = [run EXCEPT ![t] = "claimed"]
            /\ queueRuns' = queueRuns \cup {t}
    /\ UNCHANGED <<failure, grants, history, service>>

-----------------------------------------------------------------------------
(* A run: preparation, admission, the provider.                            *)

Step(t, from, to) == run[t] = from /\ run' = [run EXCEPT ![t] = to]

Fails(t, from, f) ==
    /\ Step(t, from, "failed")
    /\ failure' = [failure EXCEPT ![t] = f]

\* turn-execution.ts:602, after files, links and prompt are ready.
CheckStop(t) ==
    /\ IF turn[t].stop
       THEN Fails(t, "claimed", [confirmed |-> FALSE, kind |-> "cancelled"])
       ELSE Step(t, "claimed", "cleared") /\ UNCHANGED failure
    /\ UNCHANGED <<ledger, queueRuns, grants, history, service>>

\* Preparation or the account and runner readings throw before admission.
PreparationFails(t) ==
    /\ MayFail(t)
    /\ \/ Fails(t, "claimed", NoFailure)
       \/ \E kind \in {"retryable", "terminal"} :
              Fails(t, "cleared", [confirmed |-> FALSE, kind |-> kind])
    /\ UNCHANGED <<ledger, queueRuns, grants, history, service>>

\* markTurnProviderAdmissionIntended; losing the fence is an error.
RecordIntent(t) ==
    /\ IF Owned(t)
       THEN /\ Step(t, "cleared", "intended")
            /\ turn' = [turn EXCEPT ![t].intended = TRUE]
            /\ UNCHANGED failure
       ELSE /\ Fails(t, "cleared", NoFailure)
            /\ UNCHANGED turn
    /\ UNCHANGED <<sessionStatus, queueRuns, grants, history, service>>

CallProvider(t) ==
    /\ Step(t, "intended", "provider")
    /\ effects' = [effects EXCEPT ![t] = TRUE]
    /\ UNCHANGED <<ledger, queueRuns, failure, grants, revived, thrown, service>>

AcknowledgeInput(t) ==
    /\ run[t] = "provider" /\ Owned(t) /\ ~turn[t].acked
    /\ turn' = [turn EXCEPT ![t].acked = TRUE]
    /\ UNCHANGED <<sessionStatus, gate, process, history>>

Steer(t) ==
    /\ t \in Steerable /\ run[t] = "provider" /\ Owned(t) /\ ~turn[t].stop
    /\ turn' = [turn EXCEPT ![t].steered = TRUE]
    /\ UNCHANGED <<sessionStatus, gate, process, history>>

\* The provider ends a run whose cancellation was requested.
ProviderCancels(t) ==
    /\ turn[t].stop
    /\ Fails(t, "provider", [confirmed |-> FALSE, kind |-> "cancelled"])
    /\ UNCHANGED <<ledger, queueRuns, grants, history, service>>

\* The provider refuses or breaks.  A confirmed end without work means that the
\* input had no effect, unless a steering message had gone in after it.
ProviderFails(t) ==
    /\ MayFail(t)
    /\ \E f \in Failures :
          /\ f.kind # "cancelled"
          /\ Fails(t, "provider", f)
          /\ effects' = [effects EXCEPT ![t] =
                 ~(f.confirmed /\ f.kind # "worked" /\ ~turn[t].steered)]
    /\ UNCHANGED <<ledger, queueRuns, grants, revived, thrown, service>>

\* provider.run returns: files it left become artifact intents.
ProviderReturns(t) ==
    /\ Step(t, "provider", "result")
    /\ \E files \in BOOLEAN :
          /\ files => t \in Attaching /\ ~Native(t)
          /\ turn' = IF files THEN [turn EXCEPT ![t].artifacts = "pending"] ELSE turn
    /\ UNCHANGED <<sessionStatus, queueRuns, failure, grants, history, service>>

\* Defect: the reply of a stopped turn goes out.
MayDeliverStopped(t) == turn[t].status = "running"
MayDeliver(t) == turn[t].status = "running" /\ ~turn[t].stop

\* markTurnDelivering; a Stop that came first wins.
MarkDelivering(t) ==
    /\ IF MayDeliver(t)
       THEN /\ Step(t, "result", "delivering")
            /\ turn' = [turn EXCEPT ![t] = [@ EXCEPT !.status = "delivering", !.delivery = "pending"]]
            /\ UNCHANGED failure
       ELSE /\ Fails(t, "result", [confirmed |-> FALSE, kind |-> "cancelled"])
            /\ UNCHANGED turn
    /\ UNCHANGED <<sessionStatus, queueRuns, grants, history, service>>

\* A drain withdraws a native turn before its provider is asked: at the account
\* check, or a runner job no machine had taken although the intent is recorded.
RequeueOnDrain(t) ==
    /\ phase = "stopping" /\ Native(t) /\ Owned(t)
    /\ ~turn[t].stop /\ ~turn[t].acked /\ ~turn[t].steered /\ turn[t].artifacts = "none"
    /\ \/ /\ Step(t, "cleared", "unwind")
          /\ turn' = [turn EXCEPT ![t] = Requeued(t, "backoff")]
       \/ /\ Step(t, "intended", "unwind")
          /\ turn' = [turn EXCEPT ![t] = [Requeued(t, "none") EXCEPT !.intended = FALSE]]
    /\ Release(t, "idle")
    /\ UNCHANGED <<queueRuns, failure, grants, history, service>>

-----------------------------------------------------------------------------
(* The catch block of executeAgentTurn.                                    *)

\* preserveDispatchFailure: the input may be kept for another attempt.
Preserved(t) ==
    /\ Owned(t)
    /\ Kind[t] \in {"slack_user", "comparison", "native"}
    /\ failure[t].kind # "worked"
    /\ turn[t].artifacts = "none"

ReplaySafe(t) ==
    /\ ~turn[t].steered
    /\ ~turn[t].intended \/ failure[t].confirmed

Settles(t, row, status) ==
    /\ Step(t, "failed", "unwind")
    /\ turn' = [turn EXCEPT ![t] = row]
    /\ Release(t, status)
    /\ failure' = [failure EXCEPT ![t] = NoFailure]
    /\ UNCHANGED <<queueRuns, grants, history, service>>

SettleCancelled(t) ==
    /\ failure[t].kind = "cancelled" /\ Owned(t)
    /\ Settles(t, Abandoned(Ended(t, "cancelled")), "idle")

\* retryRunningTurnAfterProviderFailure.
SettleRetry(t) ==
    /\ failure[t].kind = "retryable" /\ Preserved(t) /\ ReplaySafe(t)
    /\ \E class \in RetryClasses : Settles(t, Requeued(t, class), "idle")

\* parkRunningTurnAfterProviderFailure; a retryable failure parks when its
\* retry breaker is exhausted.  A confirmed native failure is an error instead.
SettlePark(t) ==
    /\ failure[t].kind # "cancelled" /\ Preserved(t)
    /\ ~(Native(t) /\ ReplaySafe(t))
    /\ LET class == IF ~ReplaySafe(t) THEN "parked_ambiguous"
                    ELSE IF failure[t].kind = "access" THEN "parked_access"
                    ELSE "parked_terminal"
       IN Settles(t, [Ended(t, "parked") EXCEPT !.class = class], "idle")

\* failRunningTurnAndReleaseSession.
SettleFail(t) ==
    /\ failure[t].kind # "cancelled" /\ Owned(t)
    /\ ~Preserved(t) \/ (Native(t) /\ ReplaySafe(t))
    /\ Settles(t, Abandoned(Ended(t, "error")), "error")

\* A drain stops the last Slack projection: the row is left for recovery.
SettleCut(t) ==
    /\ phase = "stopping" /\ ~Native(t)
    /\ failure[t].kind = "cancelled" \/ ~Preserved(t)
    /\ Step(t, "failed", "unwind")
    /\ failure' = [failure EXCEPT ![t] = NoFailure]
    /\ UNCHANGED <<ledger, queueRuns, grants, history, service>>

Preservable(t) == ~turn[t].steered /\ turn[t].artifacts = "none"

\* settleClaimedTurnSetupFailure: what the queue does with a run that rejected.
\* A native turn whose runner is unreachable is queued again.
SettleSetupFailure(t) ==
    IF ~Owned(t) THEN UNCHANGED ledger
    ELSE IF ~Native(t)
    THEN IF Preservable(t)
         THEN /\ turn' = [turn EXCEPT ![t] = [Ended(t, "parked") EXCEPT !.class = "parked_terminal"]]
              /\ Release(t, "idle")
         ELSE UNCHANGED ledger
    ELSE IF ~turn[t].intended /\ Preservable(t)
    THEN \E unreachable \in BOOLEAN :
            IF unreachable /\ ~turn[t].stop /\ ~turn[t].acked
            THEN turn' = [turn EXCEPT ![t] = Requeued(t, "backoff")] /\ Release(t, "idle")
            ELSE turn' = [turn EXCEPT ![t] = Ended(t, "error")] /\ Release(t, "error")
    ELSE /\ turn' = [turn EXCEPT ![t] = [Ended(t, "parked") EXCEPT !.class = "parked_ambiguous"]]
         /\ Release(t, "idle")

\* The promise of a run rejects: its set-up throws, or the catch block does.
\* The session's resume grant is spent first, while the turn still runs.  A run
\* started at admission has no one to settle it and becomes a ghost.
RunRejects(t) ==
    /\ \/ run[t] = "claimed" /\ MayFail(t)
       \/ run[t] = "failed" /\ t \in Refusing /\ ~Native(t)
    /\ IF t \in queueRuns THEN SettleSetupFailure(t) ELSE UNCHANGED ledger
    /\ run' = [run EXCEPT ![t] = "none"]
    /\ queueRuns' = queueRuns \ {t}
    /\ grants' = grants \ {SessionOf[t]}
    /\ failure' = [failure EXCEPT ![t] = NoFailure]
    /\ thrown' = IF run[t] = "failed" THEN thrown \cup {t} ELSE thrown
    /\ UNCHANGED <<effects, revived, service>>

\* The dispatch registry lets go of a settled run (onSettled).
Unwind(t) ==
    /\ Step(t, "unwind", "none")
    /\ queueRuns' = queueRuns \ {t}
    /\ grants' = grants \ {SessionOf[t]}
    /\ turn' = IF SessionOf[t] \in grants THEN AfterResume({SessionOf[t]}) ELSE turn
    /\ UNCHANGED <<sessionStatus, failure, history, service>>

-----------------------------------------------------------------------------
(* Delivery of a saved reply, by the run or by recovery.                   *)

Leaves(t) == IF run[t] \in {"redeliver", "resettle"} THEN "none" ELSE "unwind"

\* markTurnResponseDelivered after every chunk was accepted.
Delivered(t) ==
    /\ \/ Step(t, "delivering", "confirmed")
       \/ Step(t, "redeliver", "resettle")
    /\ turn' = [turn EXCEPT ![t].delivery = "delivered"]
    /\ UNCHANGED <<sessionStatus, queueRuns, failure, grants, history, service>>

\* Slack refuses the reply for good: parkTurnDelivery.
DeliveryParked(t) ==
    /\ MayFail(t) /\ run[t] \in {"delivering", "redeliver"}
    /\ turn[t].delivery = "pending" /\ (run[t] = "redeliver" => phase = "recovering")
    /\ turn' = [turn EXCEPT ![t] =
           Abandoned([Ended(t, "delivery_parked") EXCEPT !.delivery = "parked"])]
    /\ Release(t, "idle")
    /\ run' = [run EXCEPT ![t] = Leaves(t)]
    /\ UNCHANGED <<queueRuns, failure, grants, history, service>>

\* relinquishTurnDelivery after an error or in a drain.  An error in the start-up
\* recovery ends the process; a Slack reply whose progress message cannot be
\* closed is passed over.
Relinquish(t) ==
    /\ run[t] \in {"delivering", "confirmed", "redeliver", "resettle"}
    /\ phase = "stopping" \/ MayFail(t)
    /\ turn' = [turn EXCEPT ![t] = Relinquished(turn[t])]
    /\ run' = [run EXCEPT ![t] = Leaves(t)]
    /\ IF phase = "recovering"
       THEN \/ phase' = "stopping" /\ instance < MaxInstances
            \/ phase' = phase /\ run[t] = "redeliver" /\ ~Native(t)
       ELSE phase' = phase
    /\ UNCHANGED <<sessionStatus, gate, instance, queueRuns, failure, grants, history, toRecover>>

\* finishDeliveredTurn.
FinishDelivered(t) ==
    /\ run[t] \in {"confirmed", "resettle"}
    /\ turn[t].status = "delivering" /\ turn[t].delivery = "delivered"
    /\ turn' = [turn EXCEPT ![t] = Ended(t, "done")]
    /\ Release(t, "idle")
    /\ run' = [run EXCEPT ![t] = Leaves(t)]
    /\ UNCHANGED <<queueRuns, failure, grants, history, service>>

\* The uploads of a finished turn succeed or are parked.
SettleArtifacts(t) ==
    /\ phase # "recovering"
    /\ turn[t].status = "done" /\ turn[t].artifacts = "pending"
    /\ turn' = [turn EXCEPT ![t].artifacts = "settled"]
    /\ UNCHANGED <<sessionStatus, gate, process, history>>

-----------------------------------------------------------------------------
(* What people ask of the ledger.                                          *)

\* A Stop of the run.  The owner's surface also cancels the native inputs that
\* wait in the session (clearWaitingHumanInputs).
RequestStop(t) ==
    /\ t \in Stoppable /\ phase # "recovering"
    /\ turn[t].status = "running" /\ ~turn[t].stop /\ turn[t].attempt <= MaxAttempts
    /\ turn' = [u \in Turns |->
           IF u = t THEN [turn[t] EXCEPT !.stop = TRUE]
           ELSE IF Native(t) /\ u \in Siblings(t) /\ Native(u) /\ turn[u].status = "queued"
           THEN [turn[u] EXCEPT !.status = "cancelled"]
           ELSE turn[u]]
    /\ UNCHANGED <<sessionStatus, gate, process, history>>

\* cancelQueuedInput.
CancelQueued(t) ==
    /\ t \in Stoppable /\ Native(t)
    /\ turn[t].status = "queued" /\ ~turn[t].intended /\ ~turn[t].acked
    /\ turn' = [turn EXCEPT ![t].status = "cancelled"]
    /\ UNCHANGED <<sessionStatus, gate, process, history>>

\* The Retry button of the App Home.
ResumeParkedSessionTurn(t) ==
    /\ phase # "recovering" /\ Resumable(t)
    /\ turn' = [turn EXCEPT ![t] = Resumed(t)]
    /\ UNCHANGED <<sessionStatus, gate, process, history>>

\* A later turn of the session has been offered to the provider.
LaterEntered(t) == \E u \in Siblings(t) : u > t /\ (turn[u].intended \/ turn[u].acked)

\* requeueProvenUnsentNativeChatGptTurn: the receipt of the provider proves that
\* a turn that ended in an error was never sent (a row with a result to deliver
\* is refused).  A later turn may have been claimed and not yet offered.
RequeueProvenUnsent(t) ==
    /\ phase # "recovering" /\ Native(t) /\ t \in Receipted /\ ~Archived(t)
    /\ turn[t].status = "error" /\ turn[t].owner = NoOwner /\ ~turn[t].stop /\ ~turn[t].acked
    /\ turn[t].delivery = "none" /\ turn[t].artifacts = "none"
    /\ ~effects[t] /\ ~LaterEntered(t)
    /\ turn' = [turn EXCEPT ![t] = Requeued(t, "backoff")]
    /\ sessionStatus' = [sessionStatus EXCEPT ![SessionOf[t]] = IF @ = "error" THEN "idle" ELSE @]
    /\ revived' = revived \cup {t}
    /\ UNCHANGED <<gate, process, effects, thrown>>

\* Sign-in or allowance returns: held turns are released.  After a sign-in the
\* parked heads of every session are resumed as well.
ReleaseHolds(class) ==
    LET released == [t \in Turns |->
            IF turn[t].status = "queued" /\ turn[t].class = class
            THEN [turn[t] EXCEPT !.class = "backoff"] ELSE turn[t]]
        resumed == AfterResume(Sessions)
    IN
    /\ \E t \in Turns : turn[t].status = "queued" /\ turn[t].class = class
    /\ turn' = IF class = "auth_wait"
               THEN [t \in Turns |-> IF turn[t].status = "parked" THEN resumed[t] ELSE released[t]]
               ELSE released
    /\ UNCHANGED <<sessionStatus, gate, process, history>>

Archive(s) ==
    /\ s \in Archivable /\ sessionStatus[s] # "archived"
    /\ sessionStatus' = [sessionStatus EXCEPT ![s] = "archived"]
    /\ UNCHANGED <<turn, gate, process, history>>

Restore(s) ==
    /\ sessionStatus[s] = "archived"
    /\ sessionStatus' = [sessionStatus EXCEPT ![s] =
           IF \E t \in Turns : SessionOf[t] = s /\ Live(t) THEN "running" ELSE "idle"]
    /\ UNCHANGED <<turn, gate, process, history>>

\* A deployment drain or the global pause starts or ends.
SetGate(g) ==
    /\ g \in Gates \cup {"open"} /\ g # gate
    /\ gate' = g
    /\ UNCHANGED <<ledger, process, history>>

-----------------------------------------------------------------------------
(* The process: drain, crash, recovery, watchdog.                          *)

Drain ==
    /\ phase = "serving" /\ instance < MaxInstances
    /\ phase' = "stopping"
    /\ UNCHANGED <<ledger, gate, instance, run, queueRuns, failure, grants, toRecover, history>>

\* The process ends, in a drain or not, and a new instance starts.
Crash ==
    /\ instance < MaxInstances
    /\ instance' = instance + 1
    /\ phase' = "recovering"
    /\ run' = [t \in Turns |-> "none"]
    /\ failure' = [t \in Turns |-> NoFailure]
    /\ queueRuns' = {}
    /\ grants' = {}
    /\ toRecover' = {t \in Turns : Live(t)}
    /\ UNCHANGED <<ledger, gate, history>>

\* reconcileRecoverableTurns: one row after the other, by id.
Recovers(t) ==
    /\ phase = "recovering" /\ t \in toRecover /\ \A u \in toRecover : t <= u
    /\ \A u \in Turns : run[u] = "none"
    /\ toRecover' = toRecover \ {t}

\* A Slack turn is shown in agent mode, where a recorded Stop is final.
RecoverRunning(t) ==
    /\ Recovers(t) /\ turn[t].status = "running"
    /\ IF turn[t].stop /\ (~Native(t) \/ Unattempted(t))
       THEN turn' = [turn EXCEPT ![t] = Abandoned(Ended(t, "cancelled"))]
       ELSE IF ~turn[t].stop /\ Unattempted(t)
       THEN turn' = [turn EXCEPT ![t] = Requeued(t, "backoff")]
       ELSE turn' = [turn EXCEPT ![t] = Interrupted(t)]
    /\ Release(t, "idle")
    /\ UNCHANGED <<gate, instance, phase, run, queueRuns, failure, grants, history>>

\* claimOrphanedDelivery; a delivered native result needs no second delivery.
RecoverDelivering(t) ==
    /\ Recovers(t) /\ turn[t].status = "delivering"
    /\ IF Native(t) /\ turn[t].delivery = "delivered"
       THEN /\ turn' = [turn EXCEPT ![t] = Ended(t, "done")]
            /\ Release(t, "idle")
            /\ UNCHANGED run
       ELSE /\ turn' = [turn EXCEPT ![t].owner = instance]
            /\ run' = [run EXCEPT ![t] = "redeliver"]
            /\ UNCHANGED sessionStatus
    /\ UNCHANGED <<gate, instance, phase, queueRuns, failure, grants, history>>

\* startSessionTurnQueue, with the start-up resume sweep.
StartSessionTurnQueue ==
    /\ phase = "recovering" /\ toRecover = {}
    /\ \A t \in Turns : run[t] = "none"
    /\ phase' = "serving"
    /\ turn' = AfterResume(Sessions)
    /\ UNCHANGED <<sessionStatus, gate, instance, run, queueRuns, failure, grants, toRecover,
                   history>>

\* Defects: a turn is a ghost by its row alone; only if it was never admitted.
GhostByRow(t) == Owned(t)
GhostIfUnattempted(t) == run[t] = "none" /\ Owned(t) /\ Unattempted(t)
Ghost(t) == run[t] = "none" /\ Owned(t)

\* The watchdog finds a turn this process owns and does not run.
SweepGhostRunningTurn(t) ==
    /\ phase = "serving" /\ Ghost(t)
    /\ turn' = [turn EXCEPT ![t] =
           IF ~Unattempted(t) THEN Interrupted(t)
           ELSE IF turn[t].stop THEN Abandoned(Ended(t, "cancelled"))
           ELSE Requeued(t, "backoff")]
    /\ Release(t, "idle")
    /\ UNCHANGED <<process, gate, history>>

\* Defect: a result may come back while a later turn of the session is live.
ReconcilableBesideLive(t) ==
    /\ Native(t) /\ turn[t].status \in {"interrupted", "parked", "delivery_parked"}
    /\ \A o \in Siblings(t) : ~(Precedes(o, t) /\ Blocks(o))

\* claimNativeResultReconciliation: the session has nothing live and nothing
\* before this turn.
ReconcilableResult(t) ==
    /\ Native(t) /\ turn[t].status \in {"interrupted", "parked", "delivery_parked"}
    /\ ~SessionLive(t)
    /\ \A o \in Siblings(t) : ~(Precedes(o, t) /\ Blocks(o))

\* The provider turns out to have finished a native turn whose outcome was
\* unknown: its result is delivered, or its failure recorded.  A delivery that
\* was given up is taken again here too.
ReconcileNativeResult(t) ==
    /\ phase = "serving" /\ run[t] = "none" /\ turn[t].owner # instance
    /\ \/ ReconcilableResult(t)
       \/ Native(t) /\ turn[t].status = "delivering"
    /\ IF turn[t].delivery = "delivered" /\ turn[t].status = "delivering"
       THEN /\ turn' = [turn EXCEPT ![t] = Ended(t, "done")]
            /\ Release(t, "idle")
            /\ UNCHANGED run
       ELSE /\ turn' = [turn EXCEPT ![t] = [@ EXCEPT !.status = "delivering", !.owner = instance,
                                                     !.delivery = "pending"]]
            /\ run' = [run EXCEPT ![t] = "redeliver"]
            /\ UNCHANGED sessionStatus
    /\ UNCHANGED <<queueRuns, failure, grants, history, service>>

ReconcileNativeFailure(t) ==
    /\ phase = "serving" /\ run[t] = "none" /\ turn[t].owner # instance
    /\ ReconcilableResult(t)
    /\ \E canceled \in BOOLEAN :
          /\ turn' = [turn EXCEPT ![t] =
                 [Ended(t, IF canceled THEN "cancelled" ELSE "error")
                     EXCEPT !.delivery = "delivered"]]
          /\ Release(t, IF canceled THEN "idle" ELSE "error")
    /\ UNCHANGED <<process, gate, history>>

\* The agent of a parked turn is stopped once a later turn has gone to the
\* provider; its turn is over, without a reply.
SettleSupersededParkedTurn(t) ==
    /\ turn[t].status = "parked" /\ turn[t].class = "parked_ambiguous" /\ LaterEntered(t)
    /\ turn' = [turn EXCEPT ![t] = [@ EXCEPT !.status = "interrupted", !.class = "none",
                                             !.delivery = "not_available"]]
    /\ UNCHANGED <<sessionStatus, gate, process, history>>

-----------------------------------------------------------------------------
Admit(t) == AcquireRunning(t) \/ AcquireQueued(t) \/ AcceptQueued(t) \/ ClaimNextQueuedTurn(t)

Runs(t) ==
    \/ CheckStop(t) \/ PreparationFails(t) \/ RecordIntent(t) \/ CallProvider(t)
    \/ AcknowledgeInput(t) \/ Steer(t)
    \/ ProviderCancels(t) \/ ProviderFails(t) \/ ProviderReturns(t)
    \/ MarkDelivering(t) \/ RequeueOnDrain(t)

Settle(t) ==
    \/ SettleCancelled(t) \/ SettleRetry(t) \/ SettlePark(t) \/ SettleFail(t)
    \/ SettleCut(t) \/ RunRejects(t) \/ Unwind(t)

Deliver(t) ==
    \/ Delivered(t) \/ DeliveryParked(t) \/ Relinquish(t) \/ FinishDelivered(t)
    \/ SettleArtifacts(t)

Request ==
    \/ \E t \in Turns : RequestStop(t) \/ CancelQueued(t) \/ ResumeParkedSessionTurn(t)
                        \/ RequeueProvenUnsent(t)
    \/ \E class \in {"auth_wait", "usage_wait"} : ReleaseHolds(class)
    \/ \E s \in Sessions : Archive(s) \/ Restore(s)
    \/ \E g \in Gates \cup {"open"} : SetGate(g)

Recover(t) ==
    \/ RecoverRunning(t) \/ RecoverDelivering(t) \/ SweepGhostRunningTurn(t)
    \/ ReconcileNativeResult(t) \/ ReconcileNativeFailure(t) \/ SettleSupersededParkedTurn(t)

Next ==
    \/ \E t \in Turns : Admit(t) \/ Runs(t) \/ Settle(t) \/ Deliver(t) \/ Recover(t)
    \/ Request
    \/ Drain \/ Crash \/ StartSessionTurnQueue

Spec == Init /\ [][Next]_vars

-----------------------------------------------------------------------------
(* Safety.                                                                 *)

TypeOK ==
    /\ turn \in [Turns -> TurnRow]
    /\ sessionStatus \in [Sessions -> {"idle", "running", "error", "archived"}]
    /\ gate \in {"open", "drain", "paused"}
    /\ instance \in Nat \ {0}
    /\ phase \in {"recovering", "serving", "stopping"}
    /\ run \in [Turns -> RunStates]
    /\ queueRuns \subseteq Turns
    /\ failure \in [Turns -> Failures]
    /\ grants \subseteq Sessions
    /\ toRecover \subseteq Turns
    /\ effects \in [Turns -> BOOLEAN]
    /\ revived \subseteq Turns /\ thrown \subseteq Turns

\* The session lock: admission, the queue's claim and the reconciliation of a
\* native result take it in three places, and never two turns of one session hold it.
OneLiveTurnPerSession ==
    \A t, u \in Turns : t # u /\ SessionOf[t] = SessionOf[u] => ~(Live(t) /\ Live(u))

\* The ledger as a lock on sessions: whichever of the three places hands a session
\* to a turn, it was free, and only that turn's end gives it back.
Lock == INSTANCE SessionLock WITH held <- {t \in Turns : Live(t)}
ImplementsSessionLock == Lock!Spec

\* The ownership fence: while this process works on a turn, no watchdog, recovery
\* or reconciliation has taken the row from it.
RunHoldsItsTurn ==
    \A t \in Turns :
        /\ run[t] \in {"claimed", "cleared", "intended", "provider", "failed", "result"}
               => Owned(t)
        /\ run[t] \in {"delivering", "confirmed", "redeliver", "resettle"}
               => turn[t].status = "delivering" /\ turn[t].owner = instance

\* An input that the provider may have acted on is never in line for another
\* attempt (TURN-LIFECYCLE.md: replay requires a confirmed terminal result).
NoBlindReplay == \A t \in Turns : turn[t].status = "queued" => ~effects[t]

\* What the code keeps of it: only an input whose error handling threw may be in
\* line for another attempt without proof that the provider did nothing.
ReplayIsProven == \A t \in Turns : turn[t].status = "queued" /\ effects[t] => t \in thrown

\* A session that shows as running has a turn that holds its lock; every way a
\* turn ends gives the session back.
RunningSessionHasLiveTurn ==
    \A s \in Sessions : sessionStatus[s] = "running" =>
        \E t \in Turns : SessionOf[t] = s /\ Live(t)

\* Uploads are owed only by a turn that will still settle them: one that ended
\* any other way would hold its session's queue back for ever.
UploadsNeverStrandSession ==
    \A t \in Turns : turn[t].artifacts = "pending" =>
        turn[t].status \in {"running", "delivering", "done"}

\* Of a session's inputs with the same priority, the earlier reaches the provider
\* first: none is waiting, held or at work when a later one is sent, but for one
\* that had ended and was put back in line when the later one was at its start.
ProviderSeesInputsInOrder ==
    [][\A t \in Turns : run[t] # "provider" /\ run'[t] = "provider" =>
           \A o \in Siblings(t) : o < t /\ Priority[o] = Priority[t] =>
               /\ turn[o].status \notin {"running", "delivering"}
               /\ turn[o].status = "queued" => o \in revived
               /\ turn[o].status = "parked" => Native(o)]_vars

\* Outside the error handling of its run, a stopped turn is neither answered nor
\* put back in line: not by the watchdog, not by the recovery, not by a drain.
StopIsHonoured ==
    [][\A t \in Turns : Live(t) /\ turn[t].stop /\ run[t] # "failed" =>
           turn[t].status = "delivering" \/ turn'[t].status \notin {"queued", "delivering"}]_vars

\* SESSION-OWNER.md: a deliberate Stop cannot become an automatic retry.
StopNeverBecomesRetry ==
    [][\A t \in Turns : turn[t].status = "running" /\ turn[t].stop =>
           turn'[t].status # "queued"]_vars

\* The life of an input as its sender knows it, and the promise the ledger keeps
\* about it through errors, drains, crashes, the watchdog and reconciliations.
Life(t) ==
    IF turn[t].status \in {"done", "error", "cancelled"} THEN "ended"
    ELSE IF turn[t].status \in {"interrupted", "delivery_parked"} THEN "unknown"
    ELSE turn[t].status

Promise == INSTANCE InputPromise WITH
    Inputs <- Turns,
    life <- [t \in Turns |-> Life(t)],
    answered <- {t \in Turns : turn[t].delivery = "delivered"},
    reached <- {t \in Turns : effects[t]}
ImplementsInputPromise == Promise!Spec

-----------------------------------------------------------------------------
(* Liveness.  The event loop runs what is due; the provider and Slack answer  *)
(* in the end; a stopping process ends and is started again by its supervisor. *)

Proceeds(t) ==
    \/ CheckStop(t) \/ RecordIntent(t) \/ CallProvider(t) \/ ProviderReturns(t)
    \/ ProviderCancels(t) \/ MarkDelivering(t) \/ Settle(t)
    \/ Delivered(t) \/ FinishDelivered(t) \/ SettleArtifacts(t)

Fairness ==
    /\ \A t \in Turns :
          /\ WF_vars(Proceeds(t))
          /\ WF_vars(ClaimNextQueuedTurn(t))
          /\ WF_vars(RecoverRunning(t) \/ RecoverDelivering(t))
          /\ WF_vars(SweepGhostRunningTurn(t))
    /\ WF_vars(StartSessionTurnQueue)
    /\ WF_vars(phase = "stopping" /\ Crash)

FairSpec == Spec /\ Fairness

\* A turn nobody runs does not stay running: the watchdog or the next process
\* settles it.
GhostsAreRecovered ==
    \A t \in Turns : turn[t].status = "running" /\ run[t] = "none" ~> turn[t].status # "running"

\* What a person can see holding a session: an earlier parked turn, a sign-in or
\* allowance hold, a reply that could not be delivered.
Held(t) ==
    \E o \in Turns : SessionOf[o] = SessionOf[t] /\
        \/ turn[o].status = "parked"
        \/ turn[o].status = "queued" /\ turn[o].class \in {"auth_wait", "usage_wait"}
        \/ turn[o].status = "delivering" /\ turn[o].owner = NoOwner

\* An accepted input never waits in silence: it leaves the queue or its session
\* is visibly held.
NoSilentStall == \A t \in Turns : turn[t].status = "queued" ~> turn[t].status # "queued" \/ Held(t)

=============================================================================
