-------------------------- MODULE SessionTurnQueue --------------------------
(* The coordinator's claim pump (session-turn-queue.ts) over the queue of     *)
(* turns in the ledger.  The program is single threaded: a slice of the pump  *)
(* is one action, and while one is on the stack nothing else moves.  The      *)
(* clock is not: a waiting turn may become due between a slice's last claim   *)
(* and the look for the next instant to come back at.                         *)
EXTENDS Naturals, FiniteSets

CONSTANTS
    Turns,              \* numbered in the order the claim takes them
    ClaimsPerSlice,     \* CLAIMS_PER_SLICE, 4 in the source
    MaxThrows,          \* bound: how often a claim or the preparation throws
    MaxRequeues         \* bound: how often a settled turn is put back in the queue

(* What the timer is armed for: the back-off of failed claims, or a turn.     *)
Backoff == 0

ASSUME TurnQueueAssumption ==
    Turns \subseteq Nat \ {Backoff} /\ ClaimsPerSlice \in Nat \ {0} /\ {MaxThrows, MaxRequeues} \subseteq Nat

VARIABLES
    pump,               \* the coordinator object
    queueRow,           \* a turn's row in the ledger, as the claim reads it
    activeTurnIds,      \* turns whose run has not unwound
    deadline,           \* the timer: {}, {Backoff} or the turn whose instant it is set for
    missed,             \* history: turns the last look for a deadline did not see
    thrown, requeued    \* bounds

queueVars == <<pump, queueRow, activeTurnIds, deadline, missed, thrown, requeued>>

TurnQueueTypeOK ==
    /\ pump \in [pumping : BOOLEAN, onStack : BOOLEAN, continuation : BOOLEAN, wakeRequested : BOOLEAN,
                 needsPreparation : BOOLEAN, claimFailures : Nat, stopped : BOOLEAN, draining : BOOLEAN]
    /\ queueRow \in [Turns -> {"absent", "deferred", "queued", "running", "ended"}]
    /\ activeTurnIds \subseteq Turns /\ missed \subseteq Turns
    /\ deadline \in {{}} \cup {{t} : t \in Turns \cup {Backoff}}

TurnQueueInit ==
    /\ pump = [pumping |-> FALSE, onStack |-> FALSE, continuation |-> FALSE, wakeRequested |-> FALSE,
               needsPreparation |-> TRUE, claimFailures |-> 0, stopped |-> FALSE, draining |-> FALSE]
    /\ queueRow = [t \in Turns |-> "absent"]
    /\ activeTurnIds = {} /\ missed = {} /\ deadline = {} /\ thrown = 0 /\ requeued = 0

ShouldStop == pump.stopped \/ pump.draining

-----------------------------------------------------------------------------
Wake(p) ==
    IF p.stopped \/ p.draining THEN p
    ELSE IF p.pumping THEN [p EXCEPT !.wakeRequested = TRUE]
    ELSE [p EXCEPT !.pumping = TRUE, !.onStack = TRUE, !.needsPreparation = TRUE]

Deferred(row) == {t \in Turns : row[t] = "deferred"}

(* finishPump: the timer is set anew for the failed claims' back-off or for   *)
(* the soonest waiting turn.  Turns in "passed" become due before the look.   *)
FinishPump(p, row) ==
    \E passed \in SUBSET Deferred(row), lookupFails \in BOOLEAN :
        LET waiting == Deferred(row) \ passed
            found == IF lookupFails THEN {} ELSE waiting
        IN  /\ Cardinality(passed) <= 1
            /\ pump' = [p EXCEPT !.pumping = FALSE, !.onStack = FALSE]
            /\ queueRow' = [t \in Turns |-> IF t \in passed THEN "queued" ELSE row[t]]
            /\ missed' = Deferred(row) \ found
            /\ IF p.stopped \/ p.draining THEN deadline' = {}
               ELSE IF p.claimFailures > 0 THEN \E t \in found \cup {Backoff} : deadline' = {t}
               ELSE IF found = {} THEN deadline' = {}
               ELSE \E t \in found : deadline' = {t}

ContinueOnNextTurn(p, row) ==
    /\ pump' = [p EXCEPT !.onStack = FALSE, !.continuation = TRUE]
    /\ queueRow' = row
    /\ UNCHANGED <<deadline, missed>>

Free == {t \in Turns \ activeTurnIds : queueRow[t] = "queued"}

FirstOf(S) == \A t \in S, u \in Free \ S : t < u

PreparationThrowsOut ==
    /\ pump.onStack /\ pump.needsPreparation /\ thrown < MaxThrows
    /\ thrown' = thrown + 1
    /\ pump' = [pump EXCEPT !.onStack = FALSE, !.wakeRequested = FALSE, !.needsPreparation = FALSE]
    /\ UNCHANGED <<queueRow, activeTurnIds, deadline, missed, requeued>>

\* A slice whose preparation throws claims nothing.
PreparationThrows ==
    /\ pump.onStack /\ pump.needsPreparation /\ thrown < MaxThrows
    /\ thrown' = thrown + 1
    /\ FinishPump([pump EXCEPT !.wakeRequested = FALSE, !.needsPreparation = FALSE, !.claimFailures = @ + 1], queueRow)
    /\ UNCHANGED <<activeTurnIds, requeued>>

\* A slice claims until nothing is free, a claim throws, or the slice is full; a run it starts may wake the queue.
Slice ==
    /\ pump.onStack
    /\ \E S \in SUBSET Free, throws \in BOOLEAN, beckons \in BOOLEAN :
        LET requested == (pump.wakeRequested /\ ~pump.needsPreparation) \/ beckons
            failures == (IF S = {} THEN pump.claimFailures ELSE 0) + 1
            full == Cardinality(S) = ClaimsPerSlice
            row == [t \in Turns |-> IF t \in S THEN "running" ELSE queueRow[t]]
            p == [pump EXCEPT !.needsPreparation = FALSE, !.wakeRequested = requested,
                              !.claimFailures = IF throws THEN failures ELSE 0]
        IN  /\ FirstOf(S) /\ Cardinality(S) <= ClaimsPerSlice
            /\ beckons => S # {}
            /\ throws => ~full /\ thrown < MaxThrows
            /\ throws \/ full \/ S = Free
            /\ thrown' = IF throws THEN thrown + 1 ELSE thrown
            /\ activeTurnIds' = activeTurnIds \cup S
            /\ IF full THEN ContinueOnNextTurn(p, row)
               ELSE IF requested THEN ContinueOnNextTurn([p EXCEPT !.needsPreparation = TRUE], row)
               ELSE FinishPump(p, row)
    /\ UNCHANGED requeued

Continue ==
    /\ pump.continuation
    /\ LET p == [pump EXCEPT !.continuation = FALSE]
       IN  IF ShouldStop THEN FinishPump(p, queueRow)
           ELSE /\ pump' = [p EXCEPT !.onStack = TRUE, !.needsPreparation = @ \/ p.wakeRequested]
                /\ UNCHANGED <<queueRow, deadline, missed>>
    /\ UNCHANGED <<activeTurnIds, thrown, requeued>>

-----------------------------------------------------------------------------
\* An input is accepted for now or for later; the owner wakes the queue.
Admit(t) ==
    /\ queueRow[t] = "absent"
    /\ \E state \in {"queued", "deferred"} : queueRow' = [queueRow EXCEPT ![t] = state]
    /\ pump' = Wake(pump)
    /\ UNCHANGED <<activeTurnIds, deadline, missed, thrown, requeued>>

\* The run records its outcome: an end, another attempt at once, or one after a back-off.
SettleTurn(t) ==
    /\ t \in activeTurnIds /\ queueRow[t] = "running"
    /\ \/ queueRow' = [queueRow EXCEPT ![t] = "ended"] /\ UNCHANGED requeued
       \/ /\ requeued < MaxRequeues /\ requeued' = requeued + 1
          /\ \E state \in {"queued", "deferred"} : queueRow' = [queueRow EXCEPT ![t] = state]
    /\ UNCHANGED <<pump, activeTurnIds, deadline, missed, thrown>>

UnwoundQuietly(t) ==
    /\ activeTurnIds' = activeTurnIds \ {t}
    /\ UNCHANGED <<pump, queueRow>>

\* What the promise of a run does last.
Unwound(t) ==
    /\ activeTurnIds' = activeTurnIds \ {t}
    /\ pump' = Wake(pump)
    /\ UNCHANGED queueRow

Unwind(t) ==
    /\ t \in activeTurnIds /\ queueRow[t] # "running"
    /\ Unwound(t)
    /\ UNCHANGED <<deadline, missed, thrown, requeued>>

Due(t) ==
    /\ queueRow[t] = "deferred"
    /\ queueRow' = [queueRow EXCEPT ![t] = "queued"]
    /\ UNCHANGED <<pump, activeTurnIds, deadline, missed, thrown, requeued>>

Timer ==
    /\ deadline # {}
    /\ deadline \cap Deferred(queueRow) = {}
    /\ deadline' = {} /\ pump' = Wake(pump)
    /\ UNCHANGED <<queueRow, activeTurnIds, missed, thrown, requeued>>

\* The minute's round of the coordinator, which stops with the drain.
Periodic ==
    /\ ~pump.draining
    /\ pump' = Wake(pump)
    /\ UNCHANGED <<queueRow, activeTurnIds, deadline, missed, thrown, requeued>>

Drain ==
    /\ pump' = [pump EXCEPT !.draining = TRUE]
    /\ UNCHANGED <<queueRow, activeTurnIds, deadline, missed, thrown, requeued>>

Stop ==
    /\ pump' = [pump EXCEPT !.stopped = TRUE, !.wakeRequested = FALSE, !.continuation = FALSE,
                            !.pumping = @ /\ ~pump.continuation]
    /\ deadline' = {}
    /\ UNCHANGED <<queueRow, activeTurnIds, missed, thrown, requeued>>

TurnQueueNext ==
    \/ PreparationThrows
    \/ Slice
    \/ /\ ~pump.onStack
       /\ \/ Continue \/ Timer \/ Periodic \/ Drain \/ Stop
          \/ \E t \in Turns : Admit(t) \/ SettleTurn(t) \/ Unwind(t) \/ Due(t)

TurnQueueSpec == TurnQueueInit /\ [][TurnQueueNext]_queueVars

-----------------------------------------------------------------------------
(* No wake-up is lost: while the pump rests, a turn that could be claimed has *)
(* a timer coming for it, unless it fell due between the last claim and the   *)
(* look for the next instant, or that look failed.                            *)
NoLostWakeUp ==
    ~pump.pumping /\ ~ShouldStop => \A t \in Free : deadline # {} \/ t \in missed

(* The queue comes back on its own: whatever throws in it, a turn that can be *)
(* claimed is claimed, unless the process is going away.                      *)
EveryTurnIsClaimed ==
    \A t \in Turns : queueRow[t] = "queued" ~> queueRow[t] # "queued" \/ ShouldStop

=============================================================================
