--------------------------- MODULE ProgressProofs -----------------------------
(* Proofs about the two parts that must get on: the claim pump of the         *)
(* coordinator and the journal that a runner ships, for every value of their  *)
(* constants.                                                                 *)
EXTENDS ProgressParts, RunnerLeasesProofs, FiniteSetTheorems, WellFoundedInduction

-----------------------------------------------------------------------------
(* The claim pump.                                                           *)

PumpRow == [pumping : BOOLEAN, onStack : BOOLEAN, continuation : BOOLEAN, wakeRequested : BOOLEAN,
            needsPreparation : BOOLEAN, claimFailures : Nat, stopped : BOOLEAN, draining : BOOLEAN]

Rows == {"absent", "deferred", "queued", "running", "ended"}

(* A slice or the callback that continues it belongs to a pump that runs.     *)
AtWork == pump.onStack \/ pump.continuation => pump.pumping

(* While the pump rests, a waiting turn that no run holds has a timer coming, *)
(* as has one that could be claimed.                                          *)
Waiting(row, active) == {t \in Turns \ active : row[t] \in {"queued", "deferred"}}

Awaited ==
    ~pump.pumping /\ ~ShouldStop =>
        \A t \in Waiting(queueRow, activeTurnIds) : deadline # {} \/ t \in missed

(* The callback is only asked for by a slice that leaves the stack.           *)
OneAtATime == ~(pump.onStack /\ pump.continuation)

QueueInv == TurnQueueTypeOK /\ AtWork /\ OneAtATime /\ Awaited

GoesAway(p) == p.stopped \/ p.draining

-----------------------------------------------------------------------------
(* A wake leaves a pump that runs, or one of a process that is going away.    *)
LEMMA WakeRuns ==
    ASSUME NEW p \in PumpRow
    PROVE  /\ Wake(p) \in PumpRow
           /\ Wake(p).stopped = p.stopped /\ Wake(p).draining = p.draining
           /\ Wake(p).continuation = p.continuation
           /\ (p.onStack \/ p.continuation => p.pumping) =>
                 (Wake(p).onStack \/ Wake(p).continuation => Wake(p).pumping)
           /\ GoesAway(p) \/ Wake(p).pumping
<1>1. CASE GoesAway(p)
  BY <1>1 DEF Wake, GoesAway
<1>2. CASE ~GoesAway(p) /\ p.pumping
  BY <1>2 DEF Wake, GoesAway, PumpRow
<1>3. CASE ~GoesAway(p) /\ ~p.pumping
  BY <1>3 DEF Wake, GoesAway, PumpRow
<1> QED BY <1>1, <1>2, <1>3

(* A wake starts a slice only when none runs and no callback is to come.      *)
LEMMA WakeWaits ==
    ASSUME NEW p \in PumpRow, p.continuation => p.pumping, ~p.onStack
    PROVE  ~(Wake(p).onStack /\ Wake(p).continuation)
BY DEF Wake, PumpRow

(* The end of a pump looks for the next instant to come back at: it sets the  *)
(* timer for failed claims, and otherwise every waiting turn has the timer or *)
(* was missed, if no turn was left to claim.                                  *)
LEMMA FinishAwaits ==
    ASSUME TurnQueueTypeOK, NEW p \in PumpRow, NEW row \in [Turns -> Rows], FinishPump(p, row)
    PROVE  /\ pump' \in PumpRow /\ ~pump'.pumping /\ ~pump'.onStack
           /\ pump'.continuation = p.continuation
           /\ pump'.stopped = p.stopped /\ pump'.draining = p.draining
           /\ queueRow' \in [Turns -> Rows] /\ missed' \subseteq Turns
           /\ deadline' \in {{}} \cup {{t} : t \in Turns \cup {Backoff}}
           /\ ~GoesAway(p) /\ p.claimFailures > 0 => deadline' # {}
           /\ ~GoesAway(p) => \A t \in Turns :
                 queueRow'[t] \in {"queued", "deferred"} =>
                    deadline' # {} \/ t \in missed' \/ row[t] = "queued"
<1>1. PICK passed \in SUBSET Deferred(row), lookupFails \in BOOLEAN :
        LET waiting == Deferred(row) \ passed
            found == IF lookupFails THEN {} ELSE waiting
        IN  /\ Cardinality(passed) <= 1
            /\ pump' = [p EXCEPT !.pumping = FALSE, !.onStack = FALSE]
            /\ queueRow' = [t \in Turns |-> IF t \in passed THEN "queued" ELSE row[t]]
            /\ missed' = Deferred(row) \ found
            /\ IF p.stopped \/ p.draining THEN deadline' = {}
               ELSE IF p.claimFailures > 0 THEN \E t \in found \cup {Backoff} : deadline' = {t}
               ELSE IF found = {} THEN deadline' = {}
               ELSE \E t \in found : deadline' = {t}
  BY DEF FinishPump
<1> DEFINE found == IF lookupFails THEN {} ELSE Deferred(row) \ passed
<1>2. /\ pump' = [p EXCEPT !.pumping = FALSE, !.onStack = FALSE]
      /\ queueRow' = [t \in Turns |-> IF t \in passed THEN "queued" ELSE row[t]]
      /\ missed' = Deferred(row) \ found
  BY <1>1
<1>3. IF p.stopped \/ p.draining THEN deadline' = {}
      ELSE IF p.claimFailures > 0 THEN \E t \in found \cup {Backoff} : deadline' = {t}
      ELSE IF found = {} THEN deadline' = {}
      ELSE \E t \in found : deadline' = {t}
  BY <1>1
<1>4. found \subseteq Turns /\ found \subseteq Deferred(row)
  BY DEF Deferred
<1> HIDE DEF found
<1>5. /\ pump' \in PumpRow /\ ~pump'.pumping /\ ~pump'.onStack
      /\ pump'.continuation = p.continuation
      /\ pump'.stopped = p.stopped /\ pump'.draining = p.draining
  BY <1>2 DEF PumpRow
<1>6. queueRow' \in [Turns -> Rows] /\ missed' \subseteq Turns
  BY <1>2 DEF Rows, Deferred
<1>7. deadline' = {} \/ \E t \in Turns \cup {Backoff} : deadline' = {t}
  BY <1>3, <1>4
<1>8. ~GoesAway(p) /\ p.claimFailures > 0 => deadline' # {}
  BY <1>3 DEF GoesAway
<1>9. ~GoesAway(p) /\ found # {} => deadline' # {}
  BY <1>3 DEF GoesAway
<1>10. ASSUME NEW t \in Turns, queueRow'[t] \in {"queued", "deferred"}, row[t] # "queued"
       PROVE  t \in found \/ t \in missed'
  BY <1>2, <1>10 DEF Deferred
<1> QED BY <1>5, <1>6, <1>7, <1>8, <1>9, <1>10

(* What FinishAwaits gives for the invariant.                                 *)
LEMMA FinishKeeps ==
    ASSUME TurnQueueTypeOK, NEW p \in PumpRow, NEW row \in [Turns -> Rows], FinishPump(p, row),
           activeTurnIds' \subseteq Turns, ~p.continuation,
           GoesAway(p) \/ p.claimFailures > 0 \/ \A t \in Turns \ activeTurnIds' : row[t] # "queued"
    PROVE  QueueInv'
<1>1. TurnQueueTypeOK'
  BY FinishAwaits DEF TurnQueueTypeOK, PumpRow, Rows
<1>2. AtWork'
  BY FinishAwaits DEF AtWork
<1>3. Awaited'
  BY FinishAwaits DEF Awaited, ShouldStop, GoesAway, Waiting
<1>4. OneAtATime' BY FinishAwaits DEF OneAtATime
<1> QED BY <1>1, <1>2, <1>3, <1>4 DEF QueueInv

(* A wake keeps the invariant whatever else changes in the queue.             *)
LEMMA WakeKeeps ==
    ASSUME QueueInv, ~pump.onStack, pump' = Wake(pump), queueRow' \in [Turns -> Rows], activeTurnIds' \subseteq Turns,
           deadline' \in {{}, deadline}, missed' = missed
    PROVE  QueueInv'
<1>1. pump \in PumpRow /\ AtWork BY DEF QueueInv, TurnQueueTypeOK, PumpRow
<1>2. pump' \in PumpRow BY <1>1, WakeRuns
<1>3. TurnQueueTypeOK'
  BY <1>2 DEF QueueInv, TurnQueueTypeOK, PumpRow, Rows
<1>4. AtWork'
  BY <1>1, WakeRuns DEF AtWork
<1>5. Awaited'
  BY <1>1, WakeRuns DEF Awaited, ShouldStop, GoesAway
<1>6. OneAtATime' BY <1>1, WakeWaits DEF OneAtATime, AtWork
<1> QED BY <1>3, <1>4, <1>5, <1>6 DEF QueueInv

LEMMA SliceKeeps ==
    ASSUME QueueInv, Slice
    PROVE  QueueInv'
<1>1. PICK S \in SUBSET Free, throws \in BOOLEAN, beckons \in BOOLEAN :
        LET requested == (pump.wakeRequested /\ ~pump.needsPreparation) \/ beckons
            failures == (IF S = {} THEN pump.claimFailures ELSE 0) + 1
            full == Cardinality(S) = ClaimsPerSlice
            row == [t \in Turns |-> IF t \in S THEN "running" ELSE queueRow[t]]
            p == [pump EXCEPT !.needsPreparation = FALSE, !.wakeRequested = requested,
                              !.claimFailures = IF throws THEN failures ELSE 0]
        IN  /\ FirstOf(S) /\ Cardinality(S) <= ClaimsPerSlice
            /\ beckons => S # {}
            /\ throws => ~full /\ thrown < MaxThrows
            /\ throws \/ full \/ S = Free
            /\ thrown' = IF throws THEN thrown + 1 ELSE thrown
            /\ activeTurnIds' = activeTurnIds \cup S
            /\ IF full THEN ContinueOnNextTurn(p, row)
               ELSE IF requested THEN ContinueOnNextTurn([p EXCEPT !.needsPreparation = TRUE], row)
               ELSE FinishPump(p, row)
  BY DEF Slice
<1> DEFINE requested == (pump.wakeRequested /\ ~pump.needsPreparation) \/ beckons
           failures == (IF S = {} THEN pump.claimFailures ELSE 0) + 1
           full == Cardinality(S) = ClaimsPerSlice
           row == [t \in Turns |-> IF t \in S THEN "running" ELSE queueRow[t]]
           p == [pump EXCEPT !.needsPreparation = FALSE, !.wakeRequested = requested,
                             !.claimFailures = IF throws THEN failures ELSE 0]
           q == [p EXCEPT !.needsPreparation = TRUE]
<1>2. /\ throws \/ full \/ S = Free
      /\ activeTurnIds' = activeTurnIds \cup S
      /\ IF full THEN ContinueOnNextTurn(p, row)
         ELSE IF requested THEN ContinueOnNextTurn(q, row)
         ELSE FinishPump(p, row)
  BY <1>1
<1>3. pump \in PumpRow /\ queueRow \in [Turns -> Rows] /\ activeTurnIds \subseteq Turns
  BY DEF QueueInv, TurnQueueTypeOK, PumpRow, Rows
<1>4. pump.onStack /\ pump.pumping BY DEF Slice, QueueInv, AtWork
<1>5. failures \in Nat /\ failures > 0 BY <1>3 DEF PumpRow
<1>6. requested \in BOOLEAN BY <1>3 DEF PumpRow
<1> HIDE DEF requested, failures, full
<1>7. p \in PumpRow /\ q \in PumpRow BY <1>3, <1>5, <1>6 DEF PumpRow
<1>8. /\ p.pumping /\ q.pumping /\ p.claimFailures = (IF throws THEN failures ELSE 0)
      /\ p.continuation = pump.continuation
  BY <1>3, <1>4 DEF PumpRow
<1>9. row \in [Turns -> Rows] /\ \A t \in S : row[t] = "running"
  BY <1>3 DEF Rows, Free
<1>10. activeTurnIds' \subseteq Turns BY <1>2, <1>3 DEF Free
<1>11. S = Free => \A t \in Turns \ activeTurnIds' : row[t] # "queued"
  BY <1>2, <1>3 DEF Free
<1> HIDE DEF p, q, row
<1>12. ASSUME NEW r \in {p, q}, ContinueOnNextTurn(r, row)
       PROVE  QueueInv'
  <2>1. r \in PumpRow /\ r.pumping BY <1>7, <1>8
  <2>2. pump' = [r EXCEPT !.onStack = FALSE, !.continuation = TRUE]
        /\ queueRow' = row /\ deadline' = deadline /\ missed' = missed
    BY <1>12 DEF ContinueOnNextTurn
  <2>3. pump' \in PumpRow /\ pump'.pumping BY <2>1, <2>2 DEF PumpRow
  <2>4. TurnQueueTypeOK'
    BY <2>2, <2>3, <1>9, <1>10 DEF QueueInv, TurnQueueTypeOK, PumpRow, Rows
  <2>5. ~pump'.onStack BY <2>1, <2>2 DEF PumpRow
  <2> QED BY <2>3, <2>4, <2>5 DEF QueueInv, AtWork, Awaited, OneAtATime
<1>13. ASSUME ~full, ~requested
       PROVE  QueueInv'
  <2>1. FinishPump(p, row) BY <1>2, <1>13
  <2>2. TurnQueueTypeOK /\ ~p.continuation BY <1>8, <1>4 DEF QueueInv, OneAtATime
  <2>3. p.claimFailures > 0 \/ \A t \in Turns \ activeTurnIds' : row[t] # "queued"
    BY <1>2, <1>5, <1>8, <1>11, <1>13
  <2> QED BY <2>1, <2>2, <2>3, <1>7, <1>9, <1>10, FinishKeeps
<1> QED BY <1>2, <1>12, <1>13

LEMMA PreparationKeeps ==
    ASSUME QueueInv, PreparationThrows
    PROVE  QueueInv'
<1> DEFINE failures == pump.claimFailures + 1
           p == [pump EXCEPT !.wakeRequested = FALSE, !.needsPreparation = FALSE,
                             !.claimFailures = failures]
<1>1. FinishPump(p, queueRow) /\ activeTurnIds' = activeTurnIds BY DEF PreparationThrows
<1>2. /\ TurnQueueTypeOK /\ pump \in PumpRow /\ queueRow \in [Turns -> Rows]
      /\ activeTurnIds \subseteq Turns
  BY DEF QueueInv, TurnQueueTypeOK, PumpRow, Rows
<1>3. ~pump.continuation BY DEF QueueInv, OneAtATime, PreparationThrows
<1>4. failures \in Nat /\ failures > 0 BY <1>2 DEF PumpRow
<1> HIDE DEF failures
<1>5. p \in PumpRow /\ p.continuation = pump.continuation /\ p.claimFailures = failures
  BY <1>2, <1>4 DEF PumpRow
<1> HIDE DEF p
<1> QED BY <1>1, <1>2, <1>3, <1>4, <1>5, FinishKeeps

LEMMA ContinueKeeps ==
    ASSUME QueueInv, Continue, ~pump.onStack
    PROVE  QueueInv'
<1> DEFINE p == [pump EXCEPT !.continuation = FALSE]
<1>1. /\ TurnQueueTypeOK /\ pump \in PumpRow /\ queueRow \in [Turns -> Rows]
      /\ activeTurnIds' = activeTurnIds /\ activeTurnIds \subseteq Turns /\ pump.pumping
  BY DEF QueueInv, TurnQueueTypeOK, PumpRow, Rows, AtWork, Continue
<1>2. p \in PumpRow /\ ~p.continuation /\ p.pumping /\ (GoesAway(p) <=> ShouldStop)
  BY <1>1 DEF PumpRow, GoesAway, ShouldStop
<1>3. CASE ShouldStop
  <2>1. FinishPump(p, queueRow) BY <1>3 DEF Continue
  <2> HIDE DEF p
  <2> QED BY <2>1, <1>1, <1>2, <1>3, FinishKeeps
<1>4. CASE ~ShouldStop
  <2>1. /\ pump' = [p EXCEPT !.onStack = TRUE, !.needsPreparation = @ \/ p.wakeRequested]
        /\ queueRow' = queueRow /\ deadline' = deadline /\ missed' = missed
    BY <1>4 DEF Continue
  <2>2. (p.needsPreparation \/ p.wakeRequested) \in BOOLEAN BY <1>2 DEF PumpRow
  <2>3. pump' \in PumpRow /\ pump'.pumping /\ ~pump'.continuation
    <3> HIDE DEF p
    <3> QED BY <2>1, <2>2, <1>2 DEF PumpRow
  <2>4. TurnQueueTypeOK'
    BY <2>1, <2>3, <1>1 DEF TurnQueueTypeOK, PumpRow, Rows
  <2> QED BY <2>3, <2>4 DEF QueueInv, AtWork, Awaited, OneAtATime
<1> QED BY <1>3, <1>4

-----------------------------------------------------------------------------
(* Every step of the pump, of its timer and of the queue keeps the invariant. *)
LEMMA QueueStep ==
    ASSUME QueueInv, TurnQueueNext
    PROVE  QueueInv'
<1>0. /\ pump \in PumpRow /\ queueRow \in [Turns -> Rows] /\ activeTurnIds \subseteq Turns
      /\ deadline \in {{}} \cup {{t} : t \in Turns \cup {Backoff}} /\ missed \subseteq Turns
  BY DEF QueueInv, TurnQueueTypeOK, PumpRow, Rows
<1>1. CASE PreparationThrows BY <1>1, PreparationKeeps
<1>2. CASE Slice BY <1>2, SliceKeeps
<1>3. CASE ~pump.onStack /\ Continue BY <1>3, ContinueKeeps
<1>4. CASE ~pump.onStack /\ Timer
  BY <1>0, <1>4, WakeKeeps DEF Timer
<1>5. CASE ~pump.onStack /\ Periodic
  BY <1>0, <1>5, WakeKeeps DEF Periodic
<1>6. CASE Drain
  <2>1. /\ pump' = [pump EXCEPT !.draining = TRUE]
        /\ UNCHANGED <<queueRow, activeTurnIds, deadline, missed>>
    BY <1>6 DEF Drain
  <2>2. /\ pump' \in PumpRow /\ pump'.draining /\ pump'.onStack = pump.onStack
        /\ pump'.continuation = pump.continuation /\ pump'.pumping = pump.pumping
    BY <1>0, <2>1 DEF PumpRow
  <2>3. TurnQueueTypeOK' BY <1>0, <2>1, <2>2 DEF TurnQueueTypeOK, PumpRow, Rows
  <2>4. AtWork' /\ OneAtATime' BY <2>2 DEF QueueInv, AtWork, OneAtATime
  <2>5. Awaited' BY <2>2 DEF Awaited, ShouldStop
  <2> QED BY <2>3, <2>4, <2>5 DEF QueueInv
<1>7. CASE ~pump.onStack /\ Stop
  <2>1. /\ pump' = [pump EXCEPT !.stopped = TRUE, !.wakeRequested = FALSE, !.continuation = FALSE,
                                !.pumping = @ /\ ~pump.continuation]
        /\ deadline' = {} /\ UNCHANGED <<queueRow, activeTurnIds, missed>>
    BY <1>7 DEF Stop
  <2>2. (pump.pumping /\ ~pump.continuation) \in BOOLEAN BY <1>0 DEF PumpRow
  <2>3. /\ pump' \in PumpRow /\ pump'.stopped /\ ~pump'.continuation
        /\ pump'.onStack = pump.onStack
    BY <1>0, <2>1, <2>2 DEF PumpRow
  <2>4. TurnQueueTypeOK' BY <1>0, <2>1, <2>3 DEF TurnQueueTypeOK, PumpRow, Rows
  <2>5. AtWork' /\ OneAtATime' BY <2>3, <1>7 DEF AtWork, OneAtATime
  <2>6. Awaited' BY <2>3 DEF Awaited, ShouldStop
  <2> QED BY <2>4, <2>5, <2>6 DEF QueueInv
<1>8. ASSUME NEW t \in Turns, ~pump.onStack, Admit(t)
      PROVE  QueueInv'
  <2>1. queueRow' \in [Turns -> Rows] BY <1>0, <1>8 DEF Admit, Rows
  <2> QED BY <1>0, <1>8, <2>1, WakeKeeps DEF Admit
<1>9. ASSUME NEW t \in Turns, ~pump.onStack, SettleTurn(t)
      PROVE  QueueInv'
  <2>1. queueRow' \in [Turns -> Rows] /\ \A u \in Turns \ {t} : queueRow'[u] = queueRow[u]
    BY <1>0, <1>9 DEF SettleTurn, Rows
  <2>2. t \in activeTurnIds /\ UNCHANGED <<pump, activeTurnIds, deadline, missed>>
    BY <1>9 DEF SettleTurn
  <2>3. TurnQueueTypeOK' BY <1>0, <2>1, <2>2 DEF TurnQueueTypeOK, PumpRow, Rows
  <2>4. AtWork' /\ OneAtATime' BY <2>2 DEF QueueInv, AtWork, OneAtATime
  <2>5. Waiting(queueRow, activeTurnIds)' = Waiting(queueRow, activeTurnIds)
    BY <2>1, <2>2 DEF Waiting
  <2>6. Awaited' BY <2>1, <2>2 DEF QueueInv, Awaited, ShouldStop, Waiting
  <2> QED BY <2>3, <2>4, <2>6 DEF QueueInv
<1>10. ASSUME NEW t \in Turns, ~pump.onStack, Unwind(t)
       PROVE  QueueInv'
  BY <1>0, <1>10, WakeKeeps DEF Unwind, Unwound
<1>11. ASSUME NEW t \in Turns, ~pump.onStack, Due(t)
       PROVE  QueueInv'
  <2>1. /\ queueRow' \in [Turns -> Rows] /\ \A u \in Turns \ {t} : queueRow'[u] = queueRow[u]
        /\ queueRow[t] = "deferred"
    BY <1>0, <1>11 DEF Due, Rows
  <2>2. UNCHANGED <<pump, activeTurnIds, deadline, missed>> BY <1>11 DEF Due
  <2>3. TurnQueueTypeOK' BY <1>0, <2>1, <2>2 DEF TurnQueueTypeOK, PumpRow, Rows
  <2>4. AtWork' /\ OneAtATime' BY <2>2 DEF QueueInv, AtWork, OneAtATime
  <2>5. Awaited' BY <2>1, <2>2 DEF QueueInv, Awaited, ShouldStop, Waiting
  <2> QED BY <2>3, <2>4, <2>5 DEF QueueInv
<1> QED BY <1>1, <1>2, <1>3, <1>4, <1>5, <1>6, <1>7, <1>8, <1>9, <1>10, <1>11 DEF TurnQueueNext

LEMMA QueueStutters == QueueInv /\ UNCHANGED queueVars => QueueInv'
BY DEF QueueInv, TurnQueueTypeOK, AtWork, OneAtATime, Awaited, ShouldStop, Waiting, queueVars

LEMMA QueueInitially == TurnQueueInit => QueueInv
BY DEF TurnQueueInit, QueueInv, TurnQueueTypeOK, AtWork, OneAtATime, Awaited, ShouldStop,
     Waiting

(* The inductive invariant of the pump, its timer and the queue.              *)
LEMMA QueueIsSound == TurnQueueSpec => []QueueInv
<1>1. QueueInv /\ [TurnQueueNext]_queueVars => QueueInv'
  BY QueueStep, QueueStutters
<1> QED BY <1>1, QueueInitially, PTL DEF TurnQueueSpec

(* The pump, the rows and the timer keep their types.                         *)
THEOREM TurnQueueTypeCorrect == TurnQueueSpec => []TurnQueueTypeOK
<1>1. QueueInv => TurnQueueTypeOK BY DEF QueueInv
<1> QED BY QueueIsSound, <1>1, PTL

(* While the pump rests, a turn that could be claimed has a timer coming for  *)
(* it, unless it was missed by the last look at the clock                     *)
(* (session-turn-queue.ts:118-170).                                           *)
THEOREM WakeUpsAreKept == TurnQueueSpec => []NoLostWakeUp
<1>1. QueueInv => NoLostWakeUp
  BY DEF QueueInv, Awaited, NoLostWakeUp, Waiting, Free
<1> QED BY QueueIsSound, <1>1, PTL

-----------------------------------------------------------------------------
(* Proofs about the journal of a turn on its way to the owner: its events are *)
(* stored in order, whichever copies of the daemon send them, and a turn that *)
(* is reported with its exit is complete at the owner; for any number of      *)
(* copies, frames and lost answers.                                           *)

Frame == [kind : {"attached", "host", "pickup"}, h : Nat]
HostRow == [state : {"none", "running", "exited", "gone"}, journal : Nat, exit : BOOLEAN]
CopyRow == [state : {"absent", "reading", "following", "finishing", "calling", "ended"},
            hostSeq : Nat, acked : Nat, result : Results \cup {"none"}]
WireRow == [answer : {"none", "ok", "refused"}, cursor : Nat]

ShippingTypes ==
    /\ TypeOK /\ host \in HostRow /\ copy \in [Epochs -> CopyRow]
    /\ emitted \in [Epochs -> Seq(Frame)] /\ wire \in [Epochs -> WireRow]

\* Frames in step: each says how much of the journal came so far.
One(f) == IF f.kind = "host" THEN 1 ELSE 0
InStep(s) ==
    \A n \in 1 .. Len(s) : /\ s[n].h = (IF n = 1 THEN 0 ELSE s[n - 1].h) + One(s[n])
                           /\ \A m \in 1 .. n : s[m].h <= s[n].h
LastH(s) == IF s = <<>> THEN 0 ELSE s[Len(s)].h
Extends(s, t) == Len(s) <= Len(t) /\ \A n \in 1 .. Len(s) : t[n] = s[n]

Epoch == attempt[Only].epoch
Acked == attempt[Only].acked

\* What the owner has.
Log == [n \in 1 .. Acked |-> StoredFrame(n)]

Unread == {"absent", "reading"}
Reporting == {"following", "finishing", "calling"}

\* One attempt of the turn, on one machine; its events were made by its copies.
LedgerOK ==
    /\ attempt[Only].state = "absent" =>
           Epoch = 0 /\ Acked = 0 /\ host = [state |-> "none", journal |-> 0, exit |-> FALSE]
    /\ attempt[Only].state # "absent" => attempt[Only].runner = Machine
       /\ attempt[Only].job = Turn
    /\ EventsInOrder
    /\ \A x \in events[Only] :
           /\ x[2] \in Epochs /\ x[2] <= Epoch
           /\ x[1] <= Len(emitted[x[2]]) /\ copy[x[2]].state \notin Unread

LogOK == Log \in Seq(Frame) /\ InStep(Log) /\ LastH(Log) <= host.journal

CompleteAtOwner == host.exit /\ host.state = "gone" /\ LastH(Log) = host.journal

Done == job[Turn].result = "exitRecorded" => attempt[Only].state = "finished" /\ CompleteAtOwner

(* The newest copy starts from what the owner has, and reports what follows.  *)
Newest(e) ==
    /\ copy[e].state = "reading" => copy[e].acked = Acked
    /\ copy[e].state \in Reporting =>
           Extends(Log, emitted[e]) /\ InStep(emitted[e]) /\ LastH(emitted[e]) = copy[e].hostSeq
    /\ copy[e].state \in {"finishing", "calling"} /\ copy[e].result = "exitRecorded" =>
           host.exit /\ host.state = "gone" /\ copy[e].hostSeq = host.journal
    /\ copy[e].state = "calling" /\ copy[e].result = "exitRecorded" => CompleteAtOwner

CopyOK(e) ==
    /\ copy[e].acked <= Acked /\ wire[e].cursor <= Acked /\ copy[e].hostSeq <= host.journal
    /\ copy[e].state \in {"finishing", "calling"} => copy[e].result \in Results
    /\ copy[e].state \in Unread => emitted[e] = <<>> /\ wire[e] = Silence
    /\ e > Epoch => copy[e].state = "absent"
    /\ e = Epoch => Newest(e)

ShippingInv == ShippingTypes /\ LedgerOK /\ LogOK /\ Done /\ \A e \in Epochs : CopyOK(e)

-----------------------------------------------------------------------------
(* Frames, one after the other.                                               *)

LEMMA AppendedFrame ==
    ASSUME NEW s \in Seq(Frame), InStep(s), NEW f \in Frame, f.h = LastH(s) + One(f)
    PROVE  /\ Append(s, f) \in Seq(Frame) /\ Extends(s, Append(s, f)) /\ InStep(Append(s, f))
           /\ LastH(Append(s, f)) = f.h
<1> DEFINE t == Append(s, f)
<1>1. /\ t \in Seq(Frame) /\ Len(t) = Len(s) + 1 /\ Len(s) \in Nat /\ t[Len(s) + 1] = f
      /\ \A n \in 1 .. Len(s) : t[n] = s[n] /\ s[n] \in Frame
  OBVIOUS
<1>2. f.h \in Nat /\ One(f) \in {0, 1} /\ \A n \in 1 .. Len(s) : s[n].h \in Nat
  BY <1>1 DEF Frame, One
<1> HIDE DEF t
<1>3. t # <<>>
  BY <1>1
<1>4. LastH(t) = f.h
  BY <1>1, <1>3 DEF LastH
<1>5. ASSUME NEW n \in 1 .. Len(t)
      PROVE  /\ t[n].h = (IF n = 1 THEN 0 ELSE t[n - 1].h) + One(t[n])
             /\ \A m \in 1 .. n : t[m].h <= t[n].h
  <2>1. CASE n \in 1 .. Len(s)
    BY <1>1, <2>1 DEF InStep
  <2>2. CASE n = Len(s) + 1
    <3>1. CASE s = <<>>
      BY <1>1, <1>2, <2>2, <3>1 DEF LastH
    <3>2. CASE s # <<>>
      <4>1. Len(s) \in 1 .. Len(s) /\ LastH(s) = s[Len(s)].h
        BY <1>1, <3>2 DEF LastH
      <4>2. \A m \in 1 .. Len(s) : s[m].h <= f.h
        BY <1>2, <4>1 DEF InStep
      <4> QED
        BY <1>1, <1>2, <2>2, <4>1, <4>2
    <3> QED
      BY <3>1, <3>2
  <2> QED
    BY <1>1, <2>1, <2>2
<1> QED
  BY <1>1, <1>4, <1>5 DEF Extends, InStep, t

\* The rest of a journal behind what was reported of it.
LEMMA AppendedRest ==
    ASSUME NEW s \in Seq(Frame), InStep(s), NEW k \in Nat, LastH(s) \in Nat,
           NEW rest, rest = [i \in 1 .. k |-> [kind |-> "host", h |-> LastH(s) + i]]
    PROVE  /\ s \o rest \in Seq(Frame) /\ Extends(s, s \o rest) /\ InStep(s \o rest)
           /\ LastH(s \o rest) = LastH(s) + k
<1> DEFINE t == s \o rest
           b == LastH(s)
           l == Len(s)
<1>1. \A i \in 1 .. k : rest[i] = [kind |-> "host", h |-> b + i] /\ rest[i] \in Frame
      /\ rest[i].h = b + i /\ One(rest[i]) = 1
  BY DEF Frame, One
<1>2. rest \in Seq(Frame) /\ Len(rest) = k
  BY <1>1
<1>3. /\ t \in Seq(Frame) /\ Len(t) = l + k /\ l \in Nat
      /\ \A n \in 1 .. l : t[n] = s[n] /\ s[n] \in Frame
      /\ \A n \in l + 1 .. l + k : t[n] = rest[n - l]
  BY <1>2
<1>4. \A n \in 1 .. l : s[n].h \in Nat
  BY <1>3 DEF Frame
<1>5. \A n \in 1 .. l : s[n].h <= b
  <2>1. CASE s = <<>>
    BY <2>1
  <2>2. CASE s # <<>>
    <3>1. l \in 1 .. l /\ b = s[l].h
      BY <1>3, <2>2 DEF LastH
    <3> QED
      BY <3>1 DEF InStep
  <2> QED
    BY <2>1, <2>2
<1>6. \A n \in l + 1 .. l + k : t[n].h = b + (n - l) /\ One(t[n]) = 1
  BY <1>1, <1>3
<1>7. l = 0 => b = 0
  BY <1>3 DEF LastH
<1>8. l # 0 => b = s[l].h /\ t[l] = s[l]
  BY <1>3 DEF LastH
<1> HIDE DEF t, b
<1>9. ASSUME NEW n \in 1 .. l + k
      PROVE  /\ t[n].h = (IF n = 1 THEN 0 ELSE t[n - 1].h) + One(t[n])
             /\ \A m \in 1 .. n : t[m].h <= t[n].h
  <2>1. CASE n \in 1 .. l
    <3>1. /\ s[n].h = (IF n = 1 THEN 0 ELSE s[n - 1].h) + One(s[n])
          /\ \A m \in 1 .. n : s[m].h <= s[n].h
      BY <2>1 DEF InStep
    <3>a. n \in 1 .. l /\ (n # 1 => n - 1 \in 1 .. l) /\ \A m \in 1 .. n : m \in 1 .. l
      BY <1>3, <2>1
    <3>2. t[n] = s[n] /\ (n # 1 => t[n - 1] = s[n - 1]) /\ \A m \in 1 .. n : t[m] = s[m]
      BY <1>3, <3>a
    <3>3. t[n].h = (IF n = 1 THEN 0 ELSE t[n - 1].h) + One(t[n])
      <4>1. CASE n = 1
        BY <3>1, <3>2, <4>1
      <4>2. CASE n # 1
        BY <3>1, <3>2, <4>2
      <4> QED
        BY <4>1, <4>2
    <3>4. \A m \in 1 .. n : t[m].h <= t[n].h
      BY <3>1, <3>2
    <3> QED
      BY <3>3, <3>4
  <2>2. CASE n \in l + 1 .. l + k
    <3>1. t[n].h = b + (n - l) /\ One(t[n]) = 1
      BY <1>6, <2>2
    <3>2. CASE n = l + 1
      <4>1. t[n].h = b + 1
        BY <1>3, <3>1, <3>2
      <4>2. \A m \in 1 .. n : t[m].h <= t[n].h
        <5> TAKE m \in 1 .. n
        <5>1. CASE m \in 1 .. l
          <6>1. t[m].h \in Nat /\ t[m].h <= b /\ b \in Nat
            BY <1>3, <1>4, <1>5, <5>1 DEF b
          <6> QED
            BY <4>1, <6>1
        <5>2. CASE m = l + 1
          BY <3>2, <4>1, <5>2, b \in Nat DEF b
        <5> QED
          BY <1>3, <3>2, <5>1, <5>2
      <4> QED
        BY <1>3, <1>7, <1>8, <3>1, <3>2, <4>1, <4>2, b \in Nat DEF b
    <3>3. CASE n # l + 1
      <4>1. n - 1 \in l + 1 .. l + k
        BY <1>3, <2>2, <3>3
      <4>2. t[n - 1].h = b + (n - 1 - l)
        BY <1>6, <4>1
      <4>3. ASSUME NEW m \in 1 .. n PROVE t[m].h <= t[n].h
        <5>1. CASE m \in 1 .. l
          BY <1>3, <1>4, <1>5, <2>2, <3>1, <5>1, b \in Nat DEF b
        <5>2. CASE m \in l + 1 .. l + k
          BY <1>3, <1>6, <3>1, <5>2, b \in Nat DEF b
        <5> QED
          BY <1>3, <2>2, <5>1, <5>2
      <4> QED
        BY <1>3, <2>2, <3>1, <4>1, <4>2, <4>3, b \in Nat DEF b
    <3> QED
      BY <3>2, <3>3
  <2> QED
    BY <1>3, <2>1, <2>2
<1>10. LastH(t) = b + k
  <2>1. CASE k = 0
    <3>1. t = s
      BY <1>2, <2>1 DEF t
    <3> QED
      BY <2>1, <3>1, b \in Nat DEF b
  <2>2. CASE k # 0
    <3>1. t # <<>> /\ l + k \in l + 1 .. l + k
      BY <1>3, <2>2
    <3> QED
      BY <1>3, <1>6, <3>1 DEF LastH
  <2> QED
    BY <2>1, <2>2
<1>11. Extends(s, t)
  BY <1>3 DEF Extends
<1>12. InStep(t)
  BY <1>3, <1>9 DEF InStep
<1> QED
  BY <1>3, <1>10, <1>11, <1>12 DEF t, b

\* What the owner has of a copy's frames is in step, and no further than the copy.
LEMMA HeadOfFrames ==
    ASSUME NEW s \in Seq(Frame), InStep(s), NEW n \in Nat, n <= Len(s),
           NEW log, log = [m \in 1 .. n |-> s[m]]
    PROVE  /\ log \in Seq(Frame) /\ Len(log) = n /\ InStep(log) /\ Extends(log, s)
           /\ LastH(log) <= LastH(s)
           /\ LastH(log) \in Nat /\ LastH(s) \in Nat
<1>0. \A m \in 1 .. Len(s) : s[m] \in Frame
  OBVIOUS
<1>1. \A m \in 1 .. Len(s) : s[m] \in Frame /\ s[m].h \in Nat
  BY <1>0 DEF Frame
<1>2. log \in Seq(Frame) /\ Len(log) = n /\ Len(s) \in Nat
  BY <1>1
<1>3. InStep(log) /\ Extends(log, s)
  BY <1>1, <1>2 DEF InStep, Extends
<1>4. LastH(s) \in Nat
  BY <1>1, <1>2 DEF LastH
<1>5. CASE n = 0
  <2>1. log = <<>>
    BY <1>2, <1>5
  <2> QED
    BY <1>2, <1>3, <1>4, <2>1 DEF LastH
<1>6. CASE n # 0
  <2>1. n \in 1 .. Len(s) /\ Len(s) \in 1 .. Len(s) /\ log # <<>> /\ s # <<>>
    BY <1>2, <1>6
  <2>2. LastH(log) = s[n].h /\ LastH(s) = s[Len(s)].h
    BY <1>2, <2>1 DEF LastH
  <2>3. s[n].h <= s[Len(s)].h
    BY <2>1 DEF InStep
  <2> QED
    BY <1>1, <1>2, <1>3, <1>4, <2>1, <2>2, <2>3
<1> QED
  BY <1>5, <1>6

\* Frames in step count the journal.
LEMMA FramesCount ==
    ASSUME NEW s \in Seq(Frame), InStep(s), NEW n \in 1 .. Len(s)
    PROVE  s[n].h = Cardinality({k \in 1 .. n : s[k].kind = "host"})
<1> DEFINE hosts(m) == {k \in 1 .. m : s[k].kind = "host"}
           Bad == {m \in 1 .. Len(s) : s[m].h # Cardinality(hosts(m))}
<1>0. \A m \in 1 .. Len(s) : s[m] \in Frame
  OBVIOUS
<1>1. \A m \in 1 .. Len(s) : s[m] \in Frame /\ s[m].h \in Nat
  BY <1>0 DEF Frame
<1>2. \A m \in Nat : IsFiniteSet(hosts(m))
  <2> SUFFICES ASSUME NEW m \in Nat PROVE IsFiniteSet(hosts(m))
    OBVIOUS
  <2>1. IsFiniteSet(1 .. m)
    BY FS_Interval
  <2> QED
    BY <2>1, FS_Subset
<1>3. SUFFICES ASSUME Bad # {} PROVE FALSE
  OBVIOUS
<1>4. PICK m \in Bad : \A k \in Bad : ~(k < m)
  <2>1. Bad \subseteq Nat
    OBVIOUS
  <2>2. PICK m \in Bad : \A k \in Bad : ~(<<k, m>> \in OpToRel(<, Nat))
    BY <1>3, <2>1, WFMin, NatLessThanWellFounded
  <2> QED
    BY <2>1, <2>2 DEF OpToRel
<1>5. m \in 1 .. Len(s) /\ m \in Nat
  OBVIOUS
<1>6. s[m].h = (IF m = 1 THEN 0 ELSE s[m - 1].h) + One(s[m])
  BY <1>5 DEF InStep
<1>7. (IF m = 1 THEN 0 ELSE s[m - 1].h) = Cardinality(hosts(m - 1))
  <2>1. CASE m = 1
    <3>1. hosts(m - 1) = {}
      BY <2>1
    <3> QED
      BY <2>1, <3>1, FS_EmptySet
  <2>2. CASE m # 1
    <3>1. m - 1 \in 1 .. Len(s) /\ m - 1 < m
      BY <1>5, <2>2
    <3>2. m - 1 \notin Bad
      BY <1>4, <3>1
    <3> QED
      BY <2>2, <3>1, <3>2
  <2> QED
    BY <2>1, <2>2
<1>b. s[m].h = Cardinality(hosts(m - 1)) + One(s[m]) /\ s[m].h # Cardinality(hosts(m))
  BY <1>6, <1>7
<1>8. CASE s[m].kind = "host"
  <2>1. hosts(m) = hosts(m - 1) \cup {m} /\ m \notin hosts(m - 1) /\ m - 1 \in Nat
    BY <1>5, <1>8
  <2>2. Cardinality(hosts(m)) = Cardinality(hosts(m - 1)) + 1
    BY <1>2, <2>1, FS_AddElement
  <2> QED
    BY <1>b, <1>8, <2>2 DEF One
<1>9. CASE s[m].kind # "host"
  <2>1. hosts(m) = hosts(m - 1) /\ m - 1 \in Nat
    BY <1>5, <1>9
  <2>2. Cardinality(hosts(m - 1)) \in Nat
    BY <1>2, <2>1, FS_CardinalityType
  <2> QED
    <3>1. s[m].h = Cardinality(hosts(m - 1)) + 0
      BY <1>b, <1>9 DEF One
    <3>2. Cardinality(hosts(m)) = Cardinality(hosts(m - 1))
      BY <2>1
    <3> HIDE DEF hosts
    <3> QED
      BY <1>b, <2>2, <3>1, <3>2
<1> QED
  BY <1>8, <1>9

-----------------------------------------------------------------------------
(* What the owner has.                                                        *)

LEMMA OnlyAttempt ==
    /\ Jobs = {Turn} /\ Attempts = {Only} /\ Machine \in Runners
    /\ {"notStarted", "exitRecorded", "dead", "released"} \subseteq Results
    /\ "lease_expired" # "exitRecorded" /\ "withdrawn" # "exitRecorded"
BY ShippingAssumption

\* One event is stored at each sequence, so it is the one that is read there.
LEMMA StoredIs ==
    ASSUME EventsInOrder
    PROVE  \A x \in events[Only] : StoredFrame(x[1]) = emitted[x[2]][x[1]]
<1> SUFFICES ASSUME NEW x \in events[Only] PROVE StoredFrame(x[1]) = emitted[x[2]][x[1]]
  OBVIOUS
<1> DEFINE y == CHOOSE z \in events[Only] : z[1] = x[1]
<1>1. y \in events[Only] /\ y[1] = x[1]
  OBVIOUS
<1>2. y = x
  BY <1>1, OnlyAttempt DEF EventsInOrder
<1> QED
  BY <1>2 DEF StoredFrame

StoredAsMade == \A x \in events[Only] : StoredFrame(x[1]) = emitted[x[2]][x[1]]

LEMMA StoredIsNext == EventsInOrder' =>
    \A x \in events'[Only] : StoredFrame(x[1])' = emitted'[x[2]][x[1]]
<1>1. EventsInOrder => StoredAsMade
  BY StoredIs DEF StoredAsMade
<1>2. EventsInOrder' => StoredAsMade'
  BY <1>1, PTL
<1> QED
  BY <1>2 DEF StoredAsMade

\* What a step may do to the ledger besides storing events.
LedgerStands ==
    /\ TypeOK' /\ events' = events
    /\ attempt[Only].state = "absent" => attempt'[Only] = attempt[Only]
    /\ attempt[Only].state # "absent" =>
           /\ attempt'[Only].state # "absent" /\ attempt'[Only].runner = attempt[Only].runner
           /\ attempt'[Only].job = attempt[Only].job
    /\ attempt[Only].state = "finished" => attempt'[Only].state = "finished"
    /\ attempt'[Only].acked = Acked /\ Epoch <= attempt'[Only].epoch
    /\ job'[Turn].result = "exitRecorded" =>
           \/ job[Turn].result = "exitRecorded"
           \/ attempt'[Only].state = "finished" /\ CompleteAtOwner

HostAdvances ==
    /\ host' \in HostRow /\ host.journal <= host'.journal
    /\ host.state = "gone" => host' = host
    /\ attempt[Only].state = "absent" => host' = host

\* What a step may do to the copies' frames.
FramesGrow ==
    \A e \in Epochs : /\ copy[e].state \notin Unread => Extends(emitted[e], emitted'[e])
                      /\ copy[e].state \notin Unread => copy'[e].state \notin Unread

LEMMA LedgerKeeps ==
    ASSUME ShippingInv, LedgerStands, HostAdvances, FramesGrow, copy' \in [Epochs -> CopyRow],
           emitted' \in [Epochs -> Seq(Frame)], wire' \in [Epochs -> WireRow]
    PROVE  Log' = Log /\ ShippingTypes' /\ LedgerOK' /\ LogOK' /\ Done'
           /\ (CompleteAtOwner => CompleteAtOwner')
<1> USE OnlyAttempt
<1>1. EventsInOrder'
  BY DEF ShippingInv, LedgerOK, EventsInOrder, LedgerStands, Acked
<1>2. \A x \in events[Only] : StoredFrame(x[1])' = StoredFrame(x[1])
  <2>1. \A x \in events[Only] : StoredFrame(x[1]) = emitted[x[2]][x[1]]
    BY StoredIs DEF ShippingInv, LedgerOK
  <2>2. \A x \in events[Only] : StoredFrame(x[1])' = emitted'[x[2]][x[1]]
    BY <1>1, StoredIsNext DEF LedgerStands
  <2>3. ASSUME NEW x \in events[Only] PROVE emitted'[x[2]][x[1]] = emitted[x[2]][x[1]]
    <3>1. x[1] \in 1 .. Acked
      BY DEF ShippingInv, LedgerOK, EventsInOrder, Acked
    <3>2. x[2] \in Epochs /\ x[1] <= Len(emitted[x[2]]) /\ copy[x[2]].state \notin Unread
      BY DEF ShippingInv, LedgerOK
    <3>3. x[1] \in 1 .. Len(emitted[x[2]])
      <4>1. emitted[x[2]] \in Seq(Frame)
        BY <3>2 DEF ShippingInv, ShippingTypes
      <4>2. Len(emitted[x[2]]) \in Nat
        BY <4>1
      <4> QED
        BY <3>1, <3>2, <4>2
    <3>4. Extends(emitted[x[2]], emitted'[x[2]])
      BY <3>2 DEF FramesGrow
    <3> QED
      BY <3>3, <3>4 DEF Extends
  <2> QED
    BY <2>1, <2>2, <2>3
<1>3. attempt'[Only].acked = attempt[Only].acked
  BY DEF LedgerStands, Acked
<1>4. \A n \in 1 .. attempt[Only].acked : StoredFrame(n)' = StoredFrame(n)
  <2> TAKE n \in 1 .. attempt[Only].acked
  <2>1. PICK x \in events[Only] : x[1] = n
    BY DEF ShippingInv, LedgerOK, EventsInOrder
  <2> QED
    BY <1>2, <2>1
<1>5. Log' = Log
  BY <1>3, <1>4 DEF Log, Acked
<1>6. ShippingTypes'
  BY DEF ShippingTypes, LedgerStands, HostAdvances
<1>7. CompleteAtOwner => CompleteAtOwner'
  BY <1>5 DEF CompleteAtOwner, HostAdvances, LastH
<1>8. LogOK'
  <2>1. Log \in Seq(Frame) /\ InStep(Log) /\ LastH(Log) <= host.journal
    BY DEF ShippingInv, LogOK
  <2>2. host.journal \in Nat /\ host'.journal \in Nat /\ host.journal <= host'.journal
    BY DEF ShippingInv, ShippingTypes, HostAdvances, HostRow
  <2>3. LastH(Log) \in Nat
    <3>1. CASE Log = <<>>
      BY <3>1 DEF LastH
    <3>2. CASE Log # <<>>
      <4>1. Log[Len(Log)] \in Frame
        BY <2>1, <3>2
      <4> QED
        BY <3>2, <4>1 DEF LastH, Frame
    <3> QED
      BY <3>1, <3>2
  <2>4. LastH(Log) <= host'.journal
    BY <2>1, <2>2, <2>3
  <2> QED
    BY <1>5, <2>1, <2>4 DEF LogOK, InStep, LastH
<1>9. Done'
  BY <1>7 DEF ShippingInv, Done, LedgerStands
<1>10. LedgerOK'
  <2>1. attempt'[Only].state = "absent" => /\ Epoch' = 0 /\ Acked' = 0
                                           /\ host' = [state |-> "none", journal |-> 0,
                                                  exit |-> FALSE]
    BY DEF ShippingInv, LedgerOK, LedgerStands, HostAdvances, Epoch, Acked
  <2>2. attempt'[Only].state # "absent" => attempt'[Only].runner = Machine
        /\ attempt'[Only].job = Turn
    BY DEF ShippingInv, LedgerOK, LedgerStands
  <2>3. ASSUME NEW x \in events[Only]
        PROVE  x[2] \in Epochs /\ x[2] <= Epoch' /\ x[1] <= Len(emitted'[x[2]])
               /\ copy'[x[2]].state \notin Unread
    <3>1. x[2] \in Epochs /\ x[2] <= Epoch /\ x[1] <= Len(emitted[x[2]])
          /\ copy[x[2]].state \notin Unread
      BY DEF ShippingInv, LedgerOK
    <3>2. Extends(emitted[x[2]], emitted'[x[2]]) /\ copy'[x[2]].state \notin Unread
      BY <3>1 DEF FramesGrow
    <3>3. emitted[x[2]] \in Seq(Frame) /\ emitted'[x[2]] \in Seq(Frame)
      BY <3>1 DEF ShippingInv, ShippingTypes
    <3>4. Len(emitted[x[2]]) \in Nat /\ Len(emitted'[x[2]]) \in Nat
      BY <3>3
    <3>5. x[1] \in Nat
      BY DEF ShippingInv, ShippingTypes, TypeOK
    <3>6. x[1] <= Len(emitted'[x[2]])
      BY <3>1, <3>2, <3>4, <3>5 DEF Extends
    <3>7. Epoch \in Nat /\ Epoch' \in Nat /\ Epoch <= Epoch'
      BY AttemptFields DEF ShippingInv, ShippingTypes, TypeOK, LedgerStands, Epoch
    <3>8. x[2] <= Epoch'
      BY <3>1, <3>7 DEF Epochs
    <3> QED
      BY <3>1, <3>2, <3>6, <3>8
  <2>4. events' = events
    BY DEF LedgerStands
  <2> QED
    BY <1>1, <2>1, <2>2, <2>3, <2>4 DEF LedgerOK
<1> QED
  BY <1>5, <1>6, <1>7, <1>8, <1>9, <1>10

-----------------------------------------------------------------------------
(* The copies a step leaves alone.                                            *)

LEMMA EpochIsNat ==
    ASSUME TypeOK
    PROVE  Epoch \in Nat /\ Acked \in Nat
BY OnlyAttempt, AttemptFields DEF TypeOK, Epoch, Acked

LEMMA EpochIsNatNext == TypeOK' => Epoch' \in Nat /\ Acked' \in Nat
BY OnlyAttempt, AttemptFields DEF TypeOK, Epoch, Acked

LEMMA CopyStands ==
    ASSUME ShippingInv, LedgerStands, HostAdvances, Log' = Log,
           CompleteAtOwner => CompleteAtOwner',
           NEW e \in Epochs, copy'[e] = copy[e], emitted'[e] = emitted[e],
           \/ wire'[e] \in {wire[e], Silence}
           \/ copy[e].state \notin Unread /\ wire'[e].cursor = 0
    PROVE  CopyOK(e)'
<1>1. CopyOK(e) /\ copy[e] \in CopyRow /\ wire[e] \in WireRow
  BY DEF ShippingInv, ShippingTypes
<1>2. Epoch \in Nat /\ Acked \in Nat /\ Epoch' \in Nat /\ Acked' = Acked /\ Epoch <= Epoch'
      /\ e \in Nat
  BY EpochIsNat, EpochIsNatNext DEF ShippingInv, ShippingTypes, LedgerStands, Epoch, Acked,
       Epochs
<1>3. host.journal \in Nat /\ host'.journal \in Nat /\ host.journal <= host'.journal
  BY DEF ShippingInv, ShippingTypes, HostAdvances, HostRow
<1>4. copy[e].hostSeq \in Nat /\ copy[e].acked \in Nat /\ wire[e].cursor \in Nat
  BY <1>1 DEF CopyRow, WireRow
<1>5. copy'[e].hostSeq <= host'.journal
  BY <1>1, <1>3, <1>4 DEF CopyOK
<1>6. e > Epoch' => copy'[e].state = "absent"
  BY <1>1, <1>2 DEF CopyOK
<1>7. ASSUME e = Epoch' PROVE Newest(e)'
  <2>1. CASE e = Epoch
    <3>1. Newest(e)
      BY <1>1, <2>1 DEF CopyOK
    <3>2. copy[e].state = "reading" => copy'[e].acked = Acked'
      BY <1>2, <3>1 DEF Newest
    <3>3. copy[e].state \in Reporting =>
              Extends(Log', emitted'[e]) /\ InStep(emitted'[e])
              /\ LastH(emitted'[e]) = copy'[e].hostSeq
      BY <3>1 DEF Newest
    <3>4. copy[e].state \in {"finishing", "calling"} /\ copy[e].result = "exitRecorded" =>
              host'.exit /\ host'.state = "gone" /\ copy'[e].hostSeq = host'.journal
      BY <3>1 DEF Newest, HostAdvances
    <3>5. copy[e].state = "calling" /\ copy[e].result = "exitRecorded" => CompleteAtOwner'
      BY <3>1 DEF Newest
    <3> QED
      BY <3>2, <3>3, <3>4, <3>5 DEF Newest, Extends, InStep, LastH
  <2>2. CASE e # Epoch
    <3>1. copy'[e].state = "absent"
      BY <1>1, <1>2, <1>7, <2>2 DEF CopyOK
    <3> QED
      BY <3>1 DEF Newest, Reporting
  <2> QED
    BY <2>1, <2>2
<1>8. copy'[e].acked <= Acked' /\ wire'[e].cursor <= Acked'
  BY <1>1, <1>2, <1>4 DEF CopyOK, Silence
<1>9. copy[e].state \in Unread => wire'[e] = Silence
  BY <1>1 DEF CopyOK
<1> QED
  BY <1>1, <1>5, <1>6, <1>7, <1>8, <1>9 DEF CopyOK

\* A step of no copy.
LEMMA CopiesStand ==
    ASSUME ShippingInv, LedgerStands, HostAdvances, copy' = copy, emitted' = emitted, wire' = wire
    PROVE  ShippingInv'
<1>1. FramesGrow
  <2> SUFFICES ASSUME NEW e \in Epochs PROVE Extends(emitted[e], emitted[e])
    BY DEF FramesGrow
  <2>1. emitted[e] \in Seq(Frame)
    BY DEF ShippingInv, ShippingTypes
  <2> QED
    BY <2>1 DEF Extends
<1>2. Log' = Log /\ ShippingTypes' /\ LedgerOK' /\ LogOK' /\ Done'
      /\ (CompleteAtOwner => CompleteAtOwner')
  BY <1>1, LedgerKeeps DEF ShippingInv, ShippingTypes
<1>3. \A e \in Epochs : CopyOK(e)'
  BY <1>2, CopyStands
<1> QED
  BY <1>2, <1>3 DEF ShippingInv

\* A step of one copy.
LEMMA CopySteps ==
    ASSUME ShippingInv, LedgerStands, HostAdvances, NEW e \in Epochs,
           NEW row \in CopyRow, NEW s \in Seq(Frame), NEW w \in WireRow,
           copy' = [copy EXCEPT ![e] = row], emitted' = [emitted EXCEPT ![e] = s],
           wire' = [wire EXCEPT ![e] = w],
           copy[e].state \notin Unread => Extends(emitted[e], s) /\ row.state \notin Unread,
           Log' = Log /\ (CompleteAtOwner => CompleteAtOwner') /\ LogOK' => CopyOK(e)'
    PROVE  ShippingInv'
<1>1. /\ copy' \in [Epochs -> CopyRow] /\ emitted' \in [Epochs -> Seq(Frame)]
      /\ wire' \in [Epochs -> WireRow]
      /\ copy'[e] = row /\ emitted'[e] = s
      /\ \A f \in Epochs \ {e} :
             copy'[f] = copy[f] /\ emitted'[f] = emitted[f] /\ wire'[f] = wire[f]
  BY DEF ShippingInv, ShippingTypes
<1>2. FramesGrow
  <2> SUFFICES ASSUME NEW f \in Epochs, copy[f].state \notin Unread
               PROVE  Extends(emitted[f], emitted'[f]) /\ copy'[f].state \notin Unread
    BY DEF FramesGrow
  <2>1. CASE f = e
    BY <1>1, <2>1
  <2>2. CASE f # e
    <3>1. emitted[f] \in Seq(Frame)
      BY DEF ShippingInv, ShippingTypes
    <3> QED
      BY <1>1, <2>2, <3>1 DEF Extends
  <2> QED
    BY <2>1, <2>2
<1>3. Log' = Log /\ ShippingTypes' /\ LedgerOK' /\ LogOK' /\ Done'
      /\ (CompleteAtOwner => CompleteAtOwner')
  BY <1>1, <1>2, LedgerKeeps
<1>4. \A f \in Epochs \ {e} : CopyOK(f)'
  BY <1>1, <1>3, CopyStands
<1> QED
  BY <1>3, <1>4 DEF ShippingInv

-----------------------------------------------------------------------------
(* The host and the ledger on their own.                                      *)

LEMMA HostRests ==
    ASSUME ShippingInv, host' = host
    PROVE  HostAdvances
BY DEF ShippingInv, ShippingTypes, HostAdvances, HostRow

LEMMA StopAdvances ==
    ASSUME ShippingInv, StopHost
    PROVE  HostAdvances
<1>1. host \in HostRow /\ host.journal \in Nat
  BY DEF ShippingInv, ShippingTypes, HostRow
<1>2. CASE Answering
  <2>1. host.state # "gone" /\ attempt[Only].state # "absent"
    BY <1>2 DEF Answering, ShippingInv, LedgerOK
  <2>2. CASE host' = [host EXCEPT !.state = "gone"]
    <3>1. host' \in HostRow /\ host'.journal = host.journal
      BY <1>1, <2>2 DEF HostRow
    <3> QED
      BY <1>1, <2>1, <3>1 DEF HostAdvances
  <2>3. ASSUME NEW x \in BOOLEAN,
               host' = [state |-> "gone", journal |-> host.journal + 1, exit |-> x]
        PROVE  HostAdvances
    BY <1>1, <2>1, <2>3 DEF HostAdvances, HostRow
  <2> QED
    BY <1>2, <2>2, <2>3 DEF StopHost, Stopped
<1>3. CASE ~Answering
  BY <1>3, HostRests DEF StopHost
<1> QED
  BY <1>2, <1>3

LEMMA LedgerRests ==
    ASSUME ShippingInv, UNCHANGED ledgerVars
    PROVE  LedgerStands
<1>1. TypeOK' /\ Epoch \in Nat
  BY EpochIsNat DEF ShippingInv, ShippingTypes, TypeOK, ledgerVars
<1> QED
  BY <1>1 DEF LedgerStands, ledgerVars, Epoch, Acked

\* What any transaction writes of leases that have passed.
LEMMA SettledRow ==
    ASSUME TypeOK
    PROVE  /\ SettledAttempts[Only].state =
                  (IF Passed(Only) THEN "expired" ELSE attempt[Only].state)
           /\ SettledAttempts[Only].job = attempt[Only].job
           /\ SettledAttempts[Only].runner = attempt[Only].runner
           /\ SettledAttempts[Only].epoch = Epoch /\ SettledAttempts[Only].acked = Acked
           /\ attempt[Only].state = "absent" => SettledAttempts[Only] = attempt[Only]
           /\ SettledJobs[Turn].result \in {job[Turn].result, "lease_expired"}
<1> USE OnlyAttempt
<1>1. attempt[Only] \in AttemptRow /\ DOMAIN attempt[Only] =
          {"state", "job", "runner", "epoch", "lease", "contact", "started", "acked"}
  BY AttemptFields DEF TypeOK
<1>2. SettledAttempts[Only] = IF Passed(Only) THEN [attempt[Only] EXCEPT !.state = "expired"]
                              ELSE attempt[Only]
  BY DEF SettledAttempts
<1>3. attempt[Only].state = "absent" => ~Passed(Only)
  BY DEF Passed
<1>4. SettledJobs[Turn].result \in {job[Turn].result, "lease_expired"}
  BY SettledFields
<1> QED
  BY <1>1, <1>2, <1>3, <1>4 DEF Epoch, Acked

LEMMA SettleStands ==
    ASSUME ShippingInv, TypeOK', Settle, events' = events
    PROVE  LedgerStands
<1>1. Epoch \in Nat /\ TypeOK
  BY EpochIsNat DEF ShippingInv, ShippingTypes
<1>2. attempt' = SettledAttempts /\ job' = SettledJobs
  BY DEF Settle
<1>3. attempt[Only].state = "finished" => ~Passed(Only)
  BY DEF Passed
<1> QED
  BY <1>1, <1>2, <1>3, SettledRow, OnlyAttempt DEF LedgerStands, Epoch, Acked

-----------------------------------------------------------------------------
(* Steps of the host, the owner and one copy.                                 *)

LEMMA InvOfHost ==
    ASSUME ShippingInv, HostWrites \/ HostGoes
    PROVE  ShippingInv'
<1>1. LedgerStands
  BY LedgerRests DEF HostWrites, HostGoes
<1>2. CASE HostGoes
  BY <1>1, <1>2, StopAdvances, CopiesStand DEF HostGoes
<1>3. CASE HostWrites
  <2>1. host \in HostRow /\ host.journal \in Nat
    BY DEF ShippingInv, ShippingTypes, HostRow
  <2>2. host.state # "gone" /\ attempt[Only].state # "absent"
    BY <1>3 DEF HostWrites, Answering, ShippingInv, LedgerOK
  <2>3. HostAdvances
    <3>1. CASE host' = [host EXCEPT !.journal = @ + 1]
      BY <2>1, <2>2, <3>1 DEF HostAdvances, HostRow
    <3>2. CASE host' = [state |-> "exited", journal |-> host.journal + 1, exit |-> TRUE]
      BY <2>1, <2>2, <3>2 DEF HostAdvances, HostRow
    <3> QED
      BY <1>3, <3>1, <3>2 DEF HostWrites
  <2> QED
    BY <1>1, <1>3, <2>3, CopiesStand DEF HostWrites
<1> QED
  BY <1>2, <1>3

LEMMA InvOfOwner ==
    ASSUME ShippingInv, OwnerAlone
    PROVE  ShippingInv'
<1> USE OnlyAttempt
<1>1. TypeOK /\ Epoch \in Nat /\ job \in [Jobs -> JobRow] /\ attempt \in [Attempts -> AttemptRow]
  BY EpochIsNat DEF ShippingInv, ShippingTypes, TypeOK
<1>2. CASE Enqueue(Turn)
  <2>1. TypeOK'
    BY <1>1, <1>2, TypesOfCoordinator
  <2>2. job'[Turn].result = job[Turn].result
    BY <1>1, <1>2, JobFields DEF Enqueue
  <2>3. LedgerStands
    BY <1>1, <1>2, <2>1, <2>2 DEF Enqueue, LedgerStands, Epoch, Acked
  <2> QED
    BY <2>3, HostRests, CopiesStand DEF OwnerAlone
<1>3. CASE Withdraw(Turn)
  <2>1. TypeOK'
    BY <1>1, <1>3, TypesOfCoordinator
  <2>2. job'[Turn].result = "withdrawn"
    BY <1>1, <1>3, JobFields DEF Withdraw
  <2>3. LedgerStands
    BY <1>1, <1>3, <2>1, <2>2 DEF Withdraw, LedgerStands, Epoch, Acked
  <2> QED
    BY <2>3, HostRests, CopiesStand DEF OwnerAlone
<1>4. CASE ExtendLiveLeases
  <2>1. TypeOK'
    BY <1>1, <1>4, TypesOfCoordinator
  <2>2. \/ attempt'[Only] = attempt[Only]
        \/ attempt[Only].state = "live"
           /\ attempt'[Only] = [attempt[Only] EXCEPT !.lease = now + Lease]
    BY <1>1, <1>4 DEF ExtendLiveLeases
  <2>3. attempt[Only].state = "absent" => attempt'[Only] = attempt[Only]
    BY <2>2
  <2>4. /\ attempt'[Only].state = attempt[Only].state
        /\ attempt'[Only].runner = attempt[Only].runner
        /\ attempt'[Only].job = attempt[Only].job /\ attempt'[Only].epoch = attempt[Only].epoch
        /\ attempt'[Only].acked = attempt[Only].acked
    BY <1>1, <2>2, AttemptFields
  <2>5. LedgerStands
    BY <1>1, <1>4, <2>1, <2>3, <2>4 DEF ExtendLiveLeases, LedgerStands, Epoch, Acked
  <2> QED
    BY <2>5, HostRests, CopiesStand DEF OwnerAlone
<1>5. CASE Tick
  <2>1. TypeOK'
    BY <1>1, <1>5, TypesOfCoordinator
  <2>2. LedgerStands
    BY <1>1, <1>5, <2>1 DEF Tick, LedgerStands, Epoch, Acked
  <2> QED
    BY <2>2, HostRests, CopiesStand DEF OwnerAlone
<1>6. CASE ~(\E j \in Jobs : Oldest(Machine, j)) /\ Claim(Machine)
  <2>1. TypeOK'
    BY <1>1, <1>6, TypesOfCustody
  <2>2. Settle /\ events' = events
    BY <1>6 DEF Claim
  <2>3. LedgerStands
    BY <2>1, <2>2, SettleStands
  <2> QED
    BY <2>3, HostRests, CopiesStand DEF OwnerAlone
<1> QED
  BY <1>2, <1>3, <1>4, <1>5, <1>6 DEF OwnerAlone

\* The parts of the invariant a copy's step starts from.
LEMMA CopyFacts ==
    ASSUME ShippingInv, NEW e \in Epochs
    PROVE  /\ copy \in [Epochs -> CopyRow] /\ emitted \in [Epochs -> Seq(Frame)]
           /\ wire \in [Epochs -> WireRow]
           /\ copy[e] \in CopyRow /\ emitted[e] \in Seq(Frame) /\ wire[e] \in WireRow
           /\ copy = [copy EXCEPT ![e] = copy[e]] /\ emitted = [emitted EXCEPT ![e] = emitted[e]]
           /\ wire = [wire EXCEPT ![e] = wire[e]]
           /\ copy[e].state \in {"absent", "reading", "following", "finishing", "calling",
                  "ended"}
           /\ copy[e].hostSeq \in Nat /\ copy[e].acked \in Nat
           /\ copy[e].result \in Results \cup {"none"}
           /\ DOMAIN copy[e] = {"state", "hostSeq", "acked", "result"}
           /\ wire[e].cursor \in Nat /\ wire[e].answer \in {"none", "ok", "refused"}
           /\ Silence \in WireRow /\ Extends(emitted[e], emitted[e])
           /\ host \in HostRow /\ host.journal \in Nat /\ host.exit \in BOOLEAN
           /\ Epoch \in Nat /\ Acked \in Nat /\ TypeOK /\ CopyOK(e) /\ LedgerOK /\ LogOK
<1>1. copy \in [Epochs -> CopyRow] /\ emitted \in [Epochs -> Seq(Frame)]
      /\ wire \in [Epochs -> WireRow]
  BY DEF ShippingInv, ShippingTypes
<1>2. copy[e] \in CopyRow /\ emitted[e] \in Seq(Frame) /\ wire[e] \in WireRow
  BY <1>1
<1>3. Extends(emitted[e], emitted[e])
  BY <1>2 DEF Extends
<1>4. Silence \in WireRow
  BY DEF Silence, WireRow
<1>5. /\ copy[e].state \in {"absent", "reading", "following", "finishing", "calling", "ended"}
      /\ copy[e].hostSeq \in Nat /\ copy[e].acked \in Nat
      /\ copy[e].result \in Results \cup {"none"}
      /\ DOMAIN copy[e] = {"state", "hostSeq", "acked", "result"}
  BY <1>2 DEF CopyRow
<1>6. wire[e].cursor \in Nat /\ wire[e].answer \in {"none", "ok", "refused"}
  BY <1>2 DEF WireRow
<1>7. host \in HostRow /\ host.journal \in Nat /\ host.exit \in BOOLEAN
  BY DEF ShippingInv, ShippingTypes, HostRow
<1>8. Epoch \in Nat /\ Acked \in Nat /\ TypeOK
  BY EpochIsNat DEF ShippingInv, ShippingTypes
<1>9. copy = [copy EXCEPT ![e] = copy[e]] /\ emitted = [emitted EXCEPT ![e] = emitted[e]]
      /\ wire = [wire EXCEPT ![e] = wire[e]]
  BY <1>1
<1> QED
  BY <1>1, <1>2, <1>3, <1>4, <1>5, <1>6, <1>7, <1>8, <1>9 DEF ShippingInv

LEMMA ExtendsTransitive ==
    ASSUME NEW a \in Seq(Frame), NEW b \in Seq(Frame), NEW c \in Seq(Frame), Extends(a, b),
           Extends(b, c)
    PROVE  Extends(a, c)
<1>1. Len(a) \in Nat /\ Len(b) \in Nat /\ Len(c) \in Nat
  OBVIOUS
<1> QED
  BY <1>1 DEF Extends

\* A reporting copy goes on: what it must have then, the newest one above all.
LEMMA CopyMoves ==
    ASSUME ShippingInv, UNCHANGED ledgerVars, HostAdvances, NEW e \in Epochs,
           copy[e].state \notin Unread,
           NEW row \in CopyRow, NEW s \in Seq(Frame), NEW w \in WireRow,
           copy' = [copy EXCEPT ![e] = row], emitted' = [emitted EXCEPT ![e] = s],
           wire' = [wire EXCEPT ![e] = w],
           Extends(emitted[e], s), row.state \notin Unread,
           row.acked <= Acked, w.cursor <= Acked, row.hostSeq <= host'.journal,
           row.state \in {"finishing", "calling"} => row.result \in Results,
           e = Epoch /\ row.state \in Reporting =>
               copy[e].state \in Reporting /\ InStep(s) /\ LastH(s) = row.hostSeq,
           e = Epoch /\ row.state \in {"finishing", "calling"} /\ row.result = "exitRecorded" =>
               host'.exit /\ host'.state = "gone" /\ row.hostSeq = host'.journal,
           e = Epoch /\ row.state = "calling" /\ row.result = "exitRecorded" => CompleteAtOwner
    PROVE  ShippingInv'
<1>1. LedgerStands
  BY LedgerRests
<1>2. ASSUME Log' = Log, CompleteAtOwner => CompleteAtOwner' PROVE CopyOK(e)'
  <2>1. copy'[e] = row /\ emitted'[e] = s /\ wire'[e] = w
    BY CopyFacts
  <2>2. Epoch' = Epoch /\ Acked' = Acked
    BY DEF ledgerVars, Epoch, Acked
  <2>3. e <= Epoch
    BY CopyFacts DEF CopyOK, Epochs, Unread
  <2>4. ASSUME e = Epoch, row.state \in Reporting PROVE Extends(Log, s)
    <3>1. Extends(Log, emitted[e])
      BY <2>4, CopyFacts DEF CopyOK, Newest
    <3>2. Log \in Seq(Frame) /\ emitted[e] \in Seq(Frame)
      BY CopyFacts DEF LogOK
    <3> QED
      BY <3>1, <3>2, ExtendsTransitive
  <2>5. e = Epoch' => Newest(e)'
    BY <1>2, <2>1, <2>2, <2>4 DEF Newest, Unread, Extends, InStep, LastH
  <2>6. ~(e > Epoch')
    BY <2>2, <2>3, CopyFacts DEF Epochs
  <2> QED
    BY <2>1, <2>2, <2>5, <2>6 DEF CopyOK
<1> QED
  BY <1>1, <1>2, CopySteps

LEMMA CopyEnds ==
    ASSUME ShippingInv, LedgerStands, HostAdvances, NEW e \in Epochs, copy[e].state # "absent",
           copy' = [copy EXCEPT ![e].state = "ended"], emitted' = emitted,
           wire' = [wire EXCEPT ![e] = Silence]
    PROVE  ShippingInv'
<1>1. /\ copy' = [copy EXCEPT ![e] = [copy[e] EXCEPT !.state = "ended"]]
      /\ [copy[e] EXCEPT !.state = "ended"] \in CopyRow
  BY CopyFacts DEF CopyRow
<1>2. ASSUME Log' = Log PROVE CopyOK(e)'
  <2>1. /\ copy'[e].state = "ended" /\ copy'[e].acked = copy[e].acked
        /\ copy'[e].hostSeq = copy[e].hostSeq
        /\ wire'[e] = Silence
    BY <1>1, CopyFacts
  <2>2. copy[e].acked <= Acked /\ Acked' = Acked
    BY CopyFacts DEF CopyOK, LedgerStands, Acked
  <2>3. copy[e].hostSeq <= host'.journal
    <3>1. copy[e].hostSeq <= host.journal /\ host.journal <= host'.journal
          /\ host'.journal \in Nat
      BY CopyFacts DEF CopyOK, HostAdvances, HostRow
    <3> QED
      BY <3>1, CopyFacts
  <2>4. ~(e > Epoch')
    <3>1. e <= Epoch
      BY CopyFacts DEF CopyOK, Epochs
    <3>2. Epoch \in Nat /\ Epoch' \in Nat /\ Epoch <= Epoch' /\ e \in Nat
      BY EpochIsNat, EpochIsNatNext DEF ShippingInv, ShippingTypes, LedgerStands, Epoch, Epochs
    <3> QED
      BY <3>1, <3>2
  <2>5. Newest(e)'
    BY <2>1 DEF Newest, Reporting
  <2>6. 0 <= Acked /\ wire'[e].cursor = 0
    BY <2>1, CopyFacts DEF Silence
  <2> QED
    BY <2>1, <2>2, <2>3, <2>4, <2>5, <2>6 DEF CopyOK, Unread
<1>3. Extends(emitted[e], emitted[e]) /\ emitted[e] \in Seq(Frame)
      /\ emitted = [emitted EXCEPT ![e] = emitted[e]]
      /\ Silence \in WireRow
  BY CopyFacts
<1>4. [copy[e] EXCEPT !.state = "ended"].state = "ended"
  BY CopyFacts
<1> QED
  BY <1>1, <1>2, <1>3, <1>4, CopySteps DEF Unread

\* The newest copy, while it reports.
LEMMA ReportingFacts ==
    ASSUME ShippingInv, NEW e \in Epochs, copy[e].state \in Reporting
    PROVE  /\ copy[e].acked <= Acked /\ wire[e].cursor <= Acked /\ copy[e].hostSeq <= host.journal
           /\ copy[e].state \in {"finishing", "calling"} => copy[e].result \in Results
           /\ e = Epoch =>
                  /\ Extends(Log, emitted[e]) /\ InStep(emitted[e])
                  /\ LastH(emitted[e]) = copy[e].hostSeq
                  /\ copy[e].state \in {"finishing", "calling"}
                     /\ copy[e].result = "exitRecorded" =>
                         host.exit /\ host.state = "gone" /\ copy[e].hostSeq = host.journal
                  /\ copy[e].state = "calling"
                     /\ copy[e].result = "exitRecorded" => CompleteAtOwner
BY CopyFacts DEF CopyOK, Newest

\* A frame more, after a copy's hostSeq.
LEMMA FrameMore ==
    ASSUME NEW s \in Seq(Frame), NEW f \in Frame
    PROVE  /\ Append(s, f) \in Seq(Frame) /\ Extends(s, Append(s, f))
           /\ InStep(s) /\ f.h = LastH(s) + One(f) => InStep(Append(s, f))
              /\ LastH(Append(s, f)) = f.h
<1>1. Append(s, f) \in Seq(Frame) /\ Extends(s, Append(s, f))
  BY DEF Extends
<1> QED
  BY <1>1, AppendedFrame

LEMMA InvOfAttach ==
    ASSUME ShippingInv, NEW e \in Epochs, Attach(e)
    PROVE  ShippingInv'
<1> DEFINE f == [kind |-> "attached", h |-> 0]
<1>1. copy[e].state = "following" /\ emitted[e] = <<>>
  BY DEF Attach
<1>2. f \in Frame /\ One(f) = 0 /\ f.h = 0
  BY DEF Frame, One
<1>3. emitted' = [emitted EXCEPT ![e] = Append(emitted[e], f)]
      /\ copy' = [copy EXCEPT ![e] = copy[e]]
      /\ wire' = [wire EXCEPT ![e] = wire[e]] /\ UNCHANGED ledgerVars /\ host' = host
  BY CopyFacts DEF Attach, Emit
<1> HIDE DEF f
<1>4. Append(emitted[e], f) \in Seq(Frame) /\ Extends(emitted[e], Append(emitted[e], f))
  BY <1>2, FrameMore, CopyFacts
<1>5. e = Epoch => InStep(Append(emitted[e], f)) /\ LastH(Append(emitted[e], f)) = copy[e].hostSeq
  <2> SUFFICES ASSUME e = Epoch
               PROVE  InStep(Append(emitted[e], f)) /\ LastH(Append(emitted[e], f)) = copy[e].hostSeq
    OBVIOUS
  <2>1. InStep(emitted[e]) /\ LastH(emitted[e]) = copy[e].hostSeq
    BY <1>1, ReportingFacts DEF Reporting
  <2>2. LastH(emitted[e]) = 0
    BY <1>1 DEF LastH
  <2> QED
    BY <1>2, <2>1, <2>2, FrameMore, CopyFacts
<1>6. /\ HostAdvances /\ copy[e] \in CopyRow /\ wire[e] \in WireRow /\ copy[e].state \in Reporting
      /\ copy[e].acked <= Acked /\ wire[e].cursor <= Acked /\ copy[e].hostSeq <= host'.journal
      /\ copy[e].state \in {"finishing", "calling"} => copy[e].result \in Results
  <2>1. HostAdvances /\ copy[e] \in CopyRow /\ wire[e] \in WireRow
    BY <1>3, HostRests, CopyFacts
  <2>2. copy[e].state \in Reporting
    BY <1>1 DEF Reporting
  <2> QED
    BY <1>3, <2>1, <2>2, ReportingFacts
<1> QED
  BY <1>1, <1>3, <1>4, <1>5, <1>6, CopyMoves DEF Unread

LEMMA InvOfFollow ==
    ASSUME ShippingInv, NEW e \in Epochs, Follow(e)
    PROVE  ShippingInv'
<1> DEFINE f == [kind |-> "host", h |-> copy[e].hostSeq + 1]
           row == [copy[e] EXCEPT !.hostSeq = copy[e].hostSeq + 1]
<1>1. copy[e].state = "following" /\ copy[e].hostSeq < host.journal
  BY DEF Follow
<1>2. f \in Frame /\ One(f) = 1 /\ f.h = copy[e].hostSeq + 1
  BY CopyFacts DEF Frame, One
<1>3. row \in CopyRow /\ row.hostSeq = copy[e].hostSeq + 1 /\ row.state = "following"
      /\ row.acked = copy[e].acked
  <2>1. copy[e] \in CopyRow /\ copy[e].hostSeq + 1 \in Nat
    BY CopyFacts
  <2> QED
    BY <1>1, <2>1 DEF CopyRow
<1>4. emitted' = [emitted EXCEPT ![e] = Append(emitted[e], f)] /\ copy' = [copy EXCEPT ![e] = row]
      /\ wire' = [wire EXCEPT ![e] = wire[e]] /\ UNCHANGED ledgerVars /\ host' = host
  BY CopyFacts DEF Follow, Emit
<1> HIDE DEF f, row
<1>5. Append(emitted[e], f) \in Seq(Frame) /\ Extends(emitted[e], Append(emitted[e], f))
  BY <1>2, FrameMore, CopyFacts
<1>6. e = Epoch => InStep(Append(emitted[e], f)) /\ LastH(Append(emitted[e], f)) = row.hostSeq
  BY <1>1, <1>2, <1>3, FrameMore, CopyFacts, ReportingFacts DEF Reporting
<1>7. row.hostSeq <= host'.journal
  BY <1>1, <1>3, <1>4, CopyFacts
<1>8. /\ HostAdvances /\ copy[e] \in CopyRow /\ wire[e] \in WireRow /\ copy[e].state \in Reporting
      /\ copy[e].acked <= Acked /\ wire[e].cursor <= Acked /\ copy[e].hostSeq <= host'.journal
      /\ copy[e].state \in {"finishing", "calling"} => copy[e].result \in Results
  <2>1. HostAdvances /\ copy[e] \in CopyRow /\ wire[e] \in WireRow
    BY <1>4, HostRests, CopyFacts
  <2>2. copy[e].state \in Reporting
    BY <1>1 DEF Reporting
  <2> QED
    BY <1>4, <2>1, <2>2, ReportingFacts
<1> QED
  BY <1>1, <1>3, <1>4, <1>5, <1>6, <1>7, <1>8, CopyMoves DEF Unread

LEMMA InvOfPickup ==
    ASSUME ShippingInv, NEW e \in Epochs, Pickup(e)
    PROVE  ShippingInv'
<1> DEFINE f == [kind |-> "pickup", h |-> copy[e].hostSeq]
<1>1. copy[e].state \in Reporting
  BY DEF Pickup, Reporting
<1>2. f \in Frame /\ One(f) = 0 /\ f.h = copy[e].hostSeq
  BY CopyFacts DEF Frame, One
<1>3. emitted' = [emitted EXCEPT ![e] = Append(emitted[e], f)]
      /\ copy' = [copy EXCEPT ![e] = copy[e]]
      /\ wire' = [wire EXCEPT ![e] = wire[e]] /\ UNCHANGED ledgerVars /\ host' = host
  BY CopyFacts DEF Pickup, Emit
<1> HIDE DEF f
<1>4. Append(emitted[e], f) \in Seq(Frame) /\ Extends(emitted[e], Append(emitted[e], f))
  BY <1>2, FrameMore, CopyFacts
<1>5. e = Epoch => InStep(Append(emitted[e], f)) /\ LastH(Append(emitted[e], f)) = copy[e].hostSeq
  BY <1>1, <1>2, FrameMore, CopyFacts, ReportingFacts
<1>6. copy[e].state \notin Unread
  BY <1>1 DEF Reporting, Unread
<1>7. /\ HostAdvances /\ copy[e] \in CopyRow /\ wire[e] \in WireRow /\ copy[e].state \in Reporting
      /\ copy[e].acked <= Acked /\ wire[e].cursor <= Acked /\ copy[e].hostSeq <= host'.journal
      /\ copy[e].state \in {"finishing", "calling"} => copy[e].result \in Results
  <2>1. HostAdvances /\ copy[e] \in CopyRow /\ wire[e] \in WireRow
    BY <1>3, HostRests, CopyFacts
  <2>2. copy[e].state \in Reporting
    BY <1>1 DEF Reporting
  <2> QED
    BY <1>3, <2>1, <2>2, ReportingFacts
<1>8. e = Epoch =>
          /\ copy[e].state \in {"finishing", "calling"} /\ copy[e].result = "exitRecorded" =>
                 host'.exit /\ host'.state = "gone" /\ copy[e].hostSeq = host'.journal
          /\ copy[e].state = "calling" /\ copy[e].result = "exitRecorded" => CompleteAtOwner
  BY <1>1, <1>3, ReportingFacts
<1> QED
  BY <1>3, <1>4, <1>5, <1>6, <1>7, <1>8, CopyMoves

LEMMA InvOfHostGone ==
    ASSUME ShippingInv, NEW e \in Epochs, HostGone(e)
    PROVE  ShippingInv'
<1>1. copy[e].state = "following" /\ host.state = "gone" /\ wire' = [wire EXCEPT ![e] = wire[e]]
      /\ UNCHANGED ledgerVars /\ host' = host
  BY CopyFacts DEF HostGone
<1>2. ASSUME host.exit,
             emitted' = [emitted EXCEPT ![e] = emitted[e] \o
                 [i \in 1 .. host.journal - copy[e].hostSeq |->
                     [kind |-> "host", h |-> copy[e].hostSeq + i]]],
             copy' = [copy EXCEPT ![e] = [copy[e] EXCEPT !.state = "finishing", !.result = "exitRecorded",
                                                         !.hostSeq = host.journal]]
      PROVE  ShippingInv'
  <2> DEFINE k == host.journal - copy[e].hostSeq
             rest == [i \in 1 .. k |-> [kind |-> "host", h |-> copy[e].hostSeq + i]]
             row == [copy[e] EXCEPT !.state = "finishing", !.result = "exitRecorded",
                 !.hostSeq = host.journal]
  <2>1. k \in Nat /\ copy[e].hostSeq + k = host.journal
    BY <1>1, CopyFacts, ReportingFacts DEF Reporting
  <2>2. row \in CopyRow /\ row.state = "finishing" /\ row.result = "exitRecorded"
        /\ row.hostSeq = host.journal
        /\ row.acked = copy[e].acked /\ row.result \in Results
    BY CopyFacts, OnlyAttempt DEF CopyRow
  <2>3. rest \in Seq(Frame)
    <3>1. copy[e].hostSeq \in Nat
      BY CopyFacts
    <3>2. \A i \in 1 .. k : [kind |-> "host", h |-> copy[e].hostSeq + i] \in Frame
      BY <2>1, <3>1 DEF Frame
    <3> HIDE DEF k
    <3> QED
      BY <2>1, <3>2
  <2>4. emitted[e] \o rest \in Seq(Frame) /\ Extends(emitted[e], emitted[e] \o rest)
    <3>1. emitted[e] \in Seq(Frame)
      BY CopyFacts
    <3> HIDE DEF rest
    <3> QED
      BY <2>3, <3>1 DEF Extends
  <2>5. ASSUME e = Epoch
        PROVE  InStep(emitted[e] \o rest) /\ LastH(emitted[e] \o rest) = host.journal
    <3>1. InStep(emitted[e]) /\ LastH(emitted[e]) = copy[e].hostSeq
      BY <1>1, <2>5, ReportingFacts DEF Reporting
    <3>2. rest = [i \in 1 .. k |-> [kind |-> "host", h |-> LastH(emitted[e]) + i]]
          /\ LastH(emitted[e]) \in Nat
      BY <3>1, CopyFacts
    <3> HIDE DEF rest, k
    <3>3. InStep(emitted[e] \o rest) /\ LastH(emitted[e] \o rest) = LastH(emitted[e]) + k
      BY <2>1, <3>1, <3>2, AppendedRest, CopyFacts
    <3> QED
      BY <2>1, <3>1, <3>3
  <2>6. emitted' = [emitted EXCEPT ![e] = emitted[e] \o rest] /\ copy' = [copy EXCEPT ![e] = row]
    BY <1>2
  <2>7. host.journal <= host'.journal
    BY <1>1, CopyFacts
  <2> HIDE DEF rest, k, row
  <2>8. row.state \notin Unread /\ copy[e].state \notin Unread /\ copy[e].state \in Reporting
    BY <1>1, <2>2 DEF Reporting, Unread
  <2>9. HostAdvances /\ wire[e] \in WireRow
    BY <1>1, HostRests, CopyFacts
  <2>10. copy[e].acked <= Acked /\ wire[e].cursor <= Acked
    BY <2>8, ReportingFacts
  <2> QED
    BY <1>1, <1>2, <2>2, <2>4, <2>5, <2>6, <2>7, <2>8, <2>9, <2>10, CopyMoves
<1>3. ASSUME copy' = [copy EXCEPT ![e] = [copy[e] EXCEPT !.state = "finishing", !.result = "dead"]],
             emitted' = emitted
      PROVE  ShippingInv'
  <2> DEFINE row == [copy[e] EXCEPT !.state = "finishing", !.result = "dead"]
  <2>1. row \in CopyRow /\ row.state = "finishing" /\ row.result = "dead"
        /\ row.hostSeq = copy[e].hostSeq
        /\ row.acked = copy[e].acked /\ row.result \in Results
    BY CopyFacts, OnlyAttempt DEF CopyRow
  <2>2. emitted' = [emitted EXCEPT ![e] = emitted[e]] /\ copy' = [copy EXCEPT ![e] = row]
    BY <1>3, CopyFacts
  <2> HIDE DEF row
  <2>3. row.state \notin Unread /\ copy[e].state \notin Unread /\ copy[e].state \in Reporting
    BY <1>1, <2>1 DEF Reporting, Unread
  <2>4. /\ HostAdvances /\ wire[e] \in WireRow /\ emitted[e] \in Seq(Frame)
        /\ Extends(emitted[e], emitted[e])
    BY <1>1, HostRests, CopyFacts
  <2>5. copy[e].acked <= Acked /\ wire[e].cursor <= Acked /\ row.hostSeq <= host'.journal
    BY <1>1, <2>1, <2>3, ReportingFacts
  <2>6. e = Epoch => InStep(emitted[e]) /\ LastH(emitted[e]) = row.hostSeq
    BY <2>1, <2>3, ReportingFacts
  <2> QED
    BY <1>1, <2>1, <2>2, <2>3, <2>4, <2>5, <2>6, CopyMoves
<1> QED
  BY <1>2, <1>3 DEF HostGone

LEMMA InvOfRelease ==
    ASSUME ShippingInv, NEW e \in Epochs, Release(e)
    PROVE  ShippingInv'
<1> DEFINE row == [copy[e] EXCEPT !.state = "finishing", !.result = "released"]
<1>1. copy[e].state = "following" /\ UNCHANGED ledgerVars /\ StopHost
  BY DEF Release
<1>2. row \in CopyRow /\ row.state = "finishing" /\ row.result = "released"
      /\ row.hostSeq = copy[e].hostSeq
      /\ row.acked = copy[e].acked /\ row.result \in Results
  BY CopyFacts, OnlyAttempt DEF CopyRow
<1>3. emitted' = [emitted EXCEPT ![e] = emitted[e]] /\ copy' = [copy EXCEPT ![e] = row]
      /\ wire' = [wire EXCEPT ![e] = wire[e]]
  BY CopyFacts DEF Release
<1> HIDE DEF row
<1>4. HostAdvances /\ row.hostSeq <= host'.journal
  <2>1. HostAdvances /\ copy[e].hostSeq <= host.journal
    BY <1>1, StopAdvances, ReportingFacts DEF Reporting
  <2> QED
    BY <1>2, <2>1, CopyFacts DEF HostAdvances, HostRow
<1>5. row.state \notin Unread /\ copy[e].state \notin Unread /\ copy[e].state \in Reporting
  BY <1>1, <1>2 DEF Reporting, Unread
<1>6. /\ wire[e] \in WireRow /\ emitted[e] \in Seq(Frame) /\ Extends(emitted[e], emitted[e])
      /\ copy[e].acked <= Acked /\ wire[e].cursor <= Acked
  BY <1>5, CopyFacts, ReportingFacts
<1>7. e = Epoch => InStep(emitted[e]) /\ LastH(emitted[e]) = row.hostSeq
  BY <1>2, <1>5, ReportingFacts
<1> QED
  BY <1>1, <1>2, <1>3, <1>4, <1>5, <1>6, <1>7, CopyMoves

LEMMA InvOfAnswerLost ==
    ASSUME ShippingInv, NEW e \in Epochs, AnswerLost(e)
    PROVE  ShippingInv'
<1>1. LedgerStands /\ HostAdvances
  BY LedgerRests, HostRests DEF AnswerLost
<1>2. wire' = [wire EXCEPT ![e] = Silence] /\ copy' = copy /\ emitted' = emitted
      /\ wire'[e] = Silence
  BY CopyFacts DEF AnswerLost
<1>3. Log' = Log /\ (CompleteAtOwner => CompleteAtOwner') => CopyOK(e)'
  BY <1>1, <1>2, CopyStands
<1>4. /\ copy' = [copy EXCEPT ![e] = copy[e]] /\ emitted' = [emitted EXCEPT ![e] = emitted[e]]
      /\ copy[e] \in CopyRow /\ emitted[e] \in Seq(Frame) /\ Silence \in WireRow
      /\ Extends(emitted[e], emitted[e])
  BY <1>2, CopyFacts
<1>5. wire' = [wire EXCEPT ![e] = Silence]
  BY <1>2
<1> QED
  BY <1>1, <1>3, <1>4, <1>5, CopySteps

LEMMA InvOfSyncAnswered ==
    ASSUME ShippingInv, NEW e \in Epochs, SyncAnswered(e)
    PROVE  ShippingInv'
<1>0. emitted' = emitted
  BY DEF SyncAnswered
<1>1. wire[e] # Silence /\ wire' = [wire EXCEPT ![e] = Silence] /\ UNCHANGED ledgerVars
  BY DEF SyncAnswered
<1>2. copy[e].state \notin Unread
  BY <1>1, CopyFacts DEF CopyOK
<1>3. CASE copy' = [copy EXCEPT ![e].acked = wire[e].cursor] /\ UNCHANGED <<host, held>>
  <2> DEFINE row == [copy[e] EXCEPT !.acked = wire[e].cursor]
  <2>1. row \in CopyRow /\ row.acked = wire[e].cursor /\ row.state = copy[e].state
        /\ row.hostSeq = copy[e].hostSeq
        /\ row.result = copy[e].result
    BY CopyFacts DEF CopyRow
  <2>2. copy' = [copy EXCEPT ![e] = row] /\ emitted' = [emitted EXCEPT ![e] = emitted[e]]
    BY <1>0, <1>3, CopyFacts
  <2>3. wire[e].cursor <= Acked /\ copy[e].hostSeq <= host.journal /\ Silence.cursor <= Acked
        /\ (copy[e].state \in {"finishing", "calling"} => copy[e].result \in Results)
    BY CopyFacts DEF CopyOK, Silence
  <2> HIDE DEF row
  <2>4. copy[e].state \in {"finishing", "calling"} => copy[e].state \in Reporting
    BY DEF Reporting
  <2>5. /\ HostAdvances /\ emitted[e] \in Seq(Frame) /\ Silence \in WireRow
        /\ Extends(emitted[e], emitted[e]) /\ row.hostSeq <= host'.journal
    BY <1>3, <2>1, <2>3, HostRests, CopyFacts
  <2>6. ASSUME row.state \in Reporting, e = Epoch
        PROVE  /\ copy[e].state \in Reporting /\ InStep(emitted[e])
               /\ LastH(emitted[e]) = row.hostSeq
               /\ row.state \in {"finishing", "calling"} /\ row.result = "exitRecorded" =>
                      host'.exit /\ host'.state = "gone" /\ row.hostSeq = host'.journal
               /\ row.state = "calling" /\ row.result = "exitRecorded" => CompleteAtOwner
    BY <1>3, <2>1, <2>6, ReportingFacts
  <2> QED
    BY <1>1, <1>2, <2>1, <2>2, <2>3, <2>4, <2>5, <2>6, CopyMoves
<1>4. CASE Lose(e)
  <2>1. HostAdvances
    BY <1>4, StopAdvances, HostRests DEF Lose
  <2> QED
    BY <1>0, <1>1, <1>2, <1>4, <2>1, LedgerRests, CopyEnds DEF Lose, Unread
<1> QED
  BY <1>3, <1>4 DEF SyncAnswered

LEMMA InvOfFinishStarts ==
    ASSUME ShippingInv, NEW e \in Epochs, FinishStarts(e)
    PROVE  ShippingInv'
<1> DEFINE row == [copy[e] EXCEPT !.state = "calling"]
<1>1. copy[e].state = "finishing" /\ UNCHANGED ledgerVars /\ host' = host
      /\ Len(emitted[e]) = copy[e].acked
  BY DEF FinishStarts, Drained
<1>2. row \in CopyRow /\ row.state = "calling" /\ row.result = copy[e].result
      /\ row.hostSeq = copy[e].hostSeq
      /\ row.acked = copy[e].acked
  BY CopyFacts DEF CopyRow
<1>3. emitted' = [emitted EXCEPT ![e] = emitted[e]] /\ copy' = [copy EXCEPT ![e] = row]
      /\ wire' = [wire EXCEPT ![e] = wire[e]]
  BY CopyFacts DEF FinishStarts
<1> HIDE DEF row
<1>4. row.state \notin Unread /\ copy[e].state \notin Unread /\ copy[e].state \in Reporting
  BY <1>1, <1>2 DEF Reporting, Unread
<1>5. ASSUME e = Epoch, row.result = "exitRecorded" PROVE CompleteAtOwner
  <2>1. host.exit /\ host.state = "gone" /\ LastH(emitted[e]) = host.journal
        /\ Extends(Log, emitted[e])
    BY <1>1, <1>2, <1>4, <1>5, ReportingFacts
  <2>2. Len(emitted[e]) <= Acked
    BY <1>1, <1>4, ReportingFacts
  <2>3. Log \in Seq(Frame) /\ Len(Log) = Acked
    BY CopyFacts DEF LogOK, Log
  <2>4. Len(Log) = Len(emitted[e])
    <3>1. Len(Log) <= Len(emitted[e]) /\ Len(emitted[e]) \in Nat /\ Acked \in Nat
      BY <2>1, CopyFacts DEF Extends
    <3> QED
      BY <2>2, <2>3, <3>1
  <2>5. Log = emitted[e]
    <3>1. emitted[e] \in Seq(Frame)
      BY CopyFacts
    <3>2. \A n \in 1 .. Len(Log) : emitted[e][n] = Log[n]
      BY <2>1 DEF Extends
    <3> QED
      BY <2>3, <2>4, <3>1, <3>2
  <2> QED
    BY <2>1, <2>5 DEF CompleteAtOwner
<1>6. /\ HostAdvances /\ wire[e] \in WireRow /\ emitted[e] \in Seq(Frame)
      /\ Extends(emitted[e], emitted[e])
  BY <1>1, HostRests, CopyFacts
<1>7. /\ copy[e].acked <= Acked /\ wire[e].cursor <= Acked /\ row.hostSeq <= host'.journal
      /\ row.result \in Results
  BY <1>1, <1>2, <1>4, ReportingFacts
<1>8. e = Epoch =>
          /\ InStep(emitted[e]) /\ LastH(emitted[e]) = row.hostSeq
          /\ row.result = "exitRecorded" => host'.exit /\ host'.state = "gone"
             /\ row.hostSeq = host'.journal
  BY <1>1, <1>2, <1>4, ReportingFacts
<1> QED
  BY <1>1, <1>2, <1>3, <1>4, <1>5, <1>6, <1>7, <1>8, CopyMoves

LEMMA InvOfCrash ==
    ASSUME ShippingInv, NEW e \in Epochs, Crash(e)
    PROVE  ShippingInv'
BY LedgerRests, HostRests, CopyEnds DEF Crash, Running

LEMMA InvOfRead ==
    ASSUME ShippingInv, NEW e \in Epochs, Read(e)
    PROVE  ShippingInv'
<1> DEFINE last == IF attempt[Only].acked = 0 THEN 0 ELSE StoredFrame(attempt[Only].acked).h
           row == [copy[e] EXCEPT !.state = "following", !.hostSeq = last]
           s == [n \in 1 .. copy[e].acked |-> StoredFrame(n)]
<1>1. copy[e].state = "reading" /\ UNCHANGED ledgerVars /\ host' = host
      /\ emitted' = [emitted EXCEPT ![e] = s] /\ copy' = [copy EXCEPT ![e] = row]
  BY DEF Read
<1>2. wire' = [wire EXCEPT ![e] = wire[e]] /\ wire[e] \in WireRow
  BY CopyFacts DEF Read
<1>3. Log \in Seq(Frame) /\ Len(Log) = Acked /\ \A n \in 1 .. Acked : Log[n] = StoredFrame(n)
      /\ Log[n] \in Frame
  <2>1. Log \in Seq(Frame) /\ Acked \in Nat
    BY CopyFacts DEF LogOK
  <2>2. Len(Log) = Acked /\ \A n \in 1 .. Acked : Log[n] = StoredFrame(n)
    BY <2>1 DEF Log
  <2> QED
    BY <2>1, <2>2
<1>4. copy[e].acked <= Acked /\ copy[e].acked \in Nat /\ Acked \in Nat
  BY CopyFacts DEF CopyOK
<1>5. s \in Seq(Frame)
  <2>1. \A n \in 1 .. copy[e].acked : StoredFrame(n) \in Frame
    BY <1>3, <1>4
  <2> QED
    BY <1>4, <2>1
<1>6. last = LastH(Log) /\ last \in Nat /\ last <= host.journal
  <2>1. last = LastH(Log)
    <3>1. CASE Acked = 0
      <4>1. Log = <<>>
        BY <1>3, <3>1
      <4> QED
        BY <3>1, <4>1 DEF LastH, Acked
    <3>2. CASE Acked # 0
      <4>1. Acked \in 1 .. Acked /\ Log # <<>>
        BY <1>3, <1>4, <3>2
      <4>2. LastH(Log) = StoredFrame(Acked).h
        BY <1>3, <4>1 DEF LastH
      <4> QED
        BY <3>2, <4>2 DEF Acked
    <3> QED
      BY <3>1, <3>2
  <2>2. LastH(Log) \in Nat
    <3>1. InStep(Log)
      BY CopyFacts DEF LogOK
    <3>2. Log = [m \in 1 .. Acked |-> Log[m]] /\ Acked <= Len(Log)
      BY <1>3, <1>4
    <3> QED
      BY <1>3, <1>4, <3>1, <3>2, HeadOfFrames
  <2>3. LastH(Log) <= host.journal
    BY CopyFacts DEF LogOK
  <2> HIDE DEF last
  <2> QED
    BY <2>1, <2>2, <2>3
<1> HIDE DEF last
<1>7. row \in CopyRow /\ row.state = "following" /\ row.hostSeq = last
      /\ row.acked = copy[e].acked
  <2>1. copy[e] \in CopyRow
    BY CopyFacts
  <2> QED
    BY <1>6, <2>1 DEF CopyRow
<1> HIDE DEF row
<1>8. LedgerStands /\ HostAdvances
  BY <1>1, LedgerRests, HostRests
<1>9. ASSUME Log' = Log PROVE CopyOK(e)'
  <2>1. copy'[e] = row /\ emitted'[e] = s /\ wire'[e] = wire[e]
    <3> HIDE DEF s
    <3> QED
      BY <1>1, <1>2, CopyFacts
  <2>2. Epoch' = Epoch /\ Acked' = Acked
    BY <1>1 DEF ledgerVars, Epoch, Acked
  <2>3. wire[e].cursor <= Acked /\ ~(e > Epoch) /\ (e = Epoch => copy[e].acked = Acked)
    BY <1>1, CopyFacts DEF CopyOK, Newest
  <2>4. ASSUME e = Epoch PROVE Newest(e)'
    <3>1. s = Log
      BY <2>3, <2>4 DEF Log
    <3>2. Extends(Log, Log) /\ InStep(Log)
      BY <1>3, CopyFacts DEF Extends, LogOK
    <3>3. Extends(Log', emitted'[e]) /\ InStep(emitted'[e])
          /\ LastH(emitted'[e]) = copy'[e].hostSeq
      BY <1>6, <1>7, <1>9, <2>1, <3>1, <3>2
    <3> HIDE DEF s
    <3> QED
      BY <1>7, <2>1, <3>3 DEF Newest, Extends, InStep, LastH
  <2>5. last <= host'.journal
    BY <1>1, <1>6
  <2> HIDE DEF s
  <2> QED
    BY <1>4, <1>7, <2>1, <2>2, <2>3, <2>4, <2>5 DEF CopyOK, Unread
<1> HIDE DEF s
<1> QED
  BY <1>1, <1>2, <1>5, <1>7, <1>8, <1>9, CopySteps DEF Unread

LEMMA LeaseIsNat ==
    ASSUME ShippingInv
    PROVE  attempt[Only].lease \in Nat /\ now \in Nat
BY OnlyAttempt, AttemptFields DEF ShippingInv, ShippingTypes, TypeOK

LEMMA InvOfFinishCalls ==
    ASSUME ShippingInv, NEW e \in Epochs, FinishCalls(e)
    PROVE  ShippingInv'
<1> USE OnlyAttempt
<1>1. copy[e].state = "calling" /\ HostAdvances /\ emitted' = emitted
  BY HostRests DEF FinishCalls
<1>2. CASE Forget(e) /\ UNCHANGED ledgerVars
  BY <1>1, <1>2, LedgerRests, CopyEnds DEF Forget
<1>3. CASE Finish(Machine, Only, e, copy[e].result)
      /\ (Forget(e) \/ UNCHANGED <<copy, held, wire>>)
  <2>1. copy[e].state \in Reporting /\ copy[e].result \in Results
    BY <1>1, ReportingFacts DEF Reporting
  <2>2. TypeOK /\ Epoch \in Nat
    BY CopyFacts
  <2>3. TypeOK'
    BY <1>3, <2>1, <2>2, TypesOfAnswers DEF Epochs
  <2>4. Holding(Machine, Only, e)
        /\ attempt' = [SettledAttempts EXCEPT ![Only].state = "finished"]
        /\ job' = [SettledJobs EXCEPT ![attempt[Only].job] = [@ EXCEPT !.state = "finished",
               !.result = copy[e].result]]
        /\ events' = events
    BY <1>3 DEF Finish
  <2>5. attempt[Only].state = "live" /\ Epoch = e /\ ~Passed(Only)
    BY <2>4, LeaseIsNat DEF Holding, Live, Passed, Epoch
  <2>6. attempt[Only].job = Turn
    BY <2>5, CopyFacts DEF LedgerOK
  <2>7. job'[Turn].result = copy[e].result
    <3>1. SettledJobs \in [Jobs -> JobRow]
      BY <2>2, SettledTypes
    <3> QED
      BY <2>4, <2>6, <3>1, JobFields
  <2>8. /\ attempt'[Only].state = "finished"
        /\ attempt'[Only].runner = SettledAttempts[Only].runner
        /\ attempt'[Only].job = SettledAttempts[Only].job
        /\ attempt'[Only].epoch = SettledAttempts[Only].epoch
        /\ attempt'[Only].acked = SettledAttempts[Only].acked
    <3>1. SettledAttempts \in [Attempts -> AttemptRow]
      BY <2>2, SettledTypes
    <3> QED
      BY <2>4, <3>1, AttemptFields
  <2>9. copy[e].result = "exitRecorded" => CompleteAtOwner
    BY <1>1, <2>1, <2>5, ReportingFacts
  <2>10. LedgerStands
    BY <2>2, <2>3, <2>4, <2>5, <2>7, <2>8, <2>9, SettledRow DEF LedgerStands, Epoch, Acked
  <2> QED
    BY <1>1, <1>3, <2>10, CopyEnds, CopiesStand DEF Forget
<1> QED
  BY <1>2, <1>3 DEF FinishCalls

LEMMA InvOfRestart ==
    ASSUME ShippingInv, Restart
    PROVE  ShippingInv'
<1> USE OnlyAttempt
<1>1. TypeOK /\ Epoch \in Nat /\ Acked \in Nat /\ MaxEpoch \in Nat /\ attempt[Only] \in AttemptRow
  BY EpochIsNat, LeasesAssumption DEF ShippingInv, ShippingTypes, TypeOK
<1>2. Reacquire(Machine, {Only}) /\ Epoch < MaxEpoch /\ emitted' = emitted /\ wire' = wire
  BY DEF Restart, Epoch
<1>3. TypeOK'
  BY <1>1, <1>2, TypesOfCustody
<1>4. /\ attempt'[Only] = IF attempt[Only].runner = Machine /\ Live(Only)
                          THEN [attempt[Only] EXCEPT !.epoch = Epoch + 1, !.lease = now + Lease,
                              !.contact = now]
                          ELSE SettledAttempts[Only]
      /\ job' = SettledJobs /\ events' = events
  BY <1>1, <1>2 DEF Reacquire, TypeOK, Epoch
<1>5. job'[Turn].result = "exitRecorded" => job[Turn].result = "exitRecorded"
  BY <1>1, <1>4, SettledRow
<1>6. CASE Live(Only)
  <2>1. attempt[Only].state = "live" /\ attempt[Only].runner = Machine
    BY <1>6 DEF Live, ShippingInv, LedgerOK
  <2>2. /\ attempt'[Only].state = "live" /\ attempt'[Only].runner = attempt[Only].runner
        /\ attempt'[Only].job = attempt[Only].job /\ attempt'[Only].epoch = Epoch + 1
        /\ attempt'[Only].acked = Acked
    BY <1>1, <1>4, <1>6, <2>1, AttemptFields DEF Acked
  <2>3. LedgerStands
    BY <1>1, <1>3, <1>4, <1>5, <2>1, <2>2 DEF LedgerStands
  <2>4. CASE UNCHANGED <<copy, host>>
    BY <1>2, <2>3, <2>4, HostRests, CopiesStand
  <2>5. ASSUME copy' = [copy EXCEPT ![Epoch + 1] = [@ EXCEPT !.state = "reading",
                   !.acked = attempt[Only].acked]],
               host' = host
        PROVE  ShippingInv'
    <3>1. PICK e \in Epochs : e = Epoch + 1
      BY <1>1, <1>2 DEF Epochs
    <3> DEFINE row == [copy[e] EXCEPT !.state = "reading", !.acked = Acked]
    <3>2. copy[e] \in CopyRow /\ copy[e].state = "absent" /\ emitted[e] = <<>>
          /\ wire[e] = Silence
          /\ copy[e].hostSeq <= host.journal
      BY <1>1, <3>1, CopyFacts DEF CopyOK, Unread
    <3>3. row \in CopyRow /\ row.state = "reading" /\ row.acked = Acked
          /\ row.hostSeq = copy[e].hostSeq
      BY <1>1, <3>2 DEF CopyRow
    <3>4. copy' = [copy EXCEPT ![e] = row] /\ emitted' = [emitted EXCEPT ![e] = emitted[e]]
          /\ wire' = [wire EXCEPT ![e] = wire[e]] /\ emitted[e] \in Seq(Frame)
          /\ wire[e] \in WireRow
      BY <1>2, <2>5, <3>1, CopyFacts DEF Acked
    <3> HIDE DEF row
    <3>5. CopyOK(e)'
      <4>1. copy'[e] = row /\ emitted'[e] = <<>> /\ wire'[e] = Silence /\ host' = host
        BY <2>5, <3>2, <3>4, CopyFacts
      <4>2. Epoch' = e /\ Acked' = Acked
        BY <2>2, <3>1 DEF Epoch, Acked
      <4>3. Newest(e)'
        BY <3>3, <4>1, <4>2 DEF Newest, Reporting
      <4>4. wire'[e].cursor <= Acked /\ Acked <= Acked /\ ~(e > e)
        BY <1>1, <3>1, <4>1 DEF Silence
      <4> QED
        BY <3>2, <3>3, <4>1, <4>2, <4>3, <4>4 DEF CopyOK, Unread
    <3> QED
      BY <2>3, <2>5, <3>2, <3>3, <3>4, <3>5, HostRests, CopySteps DEF Unread
  <2> QED
    <3>1. CASE held' = attempt[Only].epoch + 1 /\ UNCHANGED host
               /\ copy' = [copy EXCEPT ![held'] = [@ EXCEPT !.state = "reading",
                      !.acked = attempt[Only].acked]]
      BY <2>5, <3>1 DEF Epoch
    <3> QED
      BY <1>6, <2>4, <3>1 DEF Restart
<1>7. CASE ~Live(Only)
  <2>1. attempt'[Only] = SettledAttempts[Only]
    BY <1>4, <1>7
  <2>2. attempt[Only].state = "finished" => ~Passed(Only)
    BY DEF Passed
  <2>3. LedgerStands
    BY <1>1, <1>3, <1>4, <1>5, <2>1, <2>2, SettledRow DEF LedgerStands, Epoch, Acked
  <2>4. copy' = copy /\ HostAdvances
    BY <1>7, StopAdvances, HostRests DEF Restart
  <2> QED
    BY <1>2, <2>3, <2>4, CopiesStand
<1> QED
  BY <1>6, <1>7

\* Before the claim there is nothing of the turn yet.
LEMMA Unclaimed ==
    ASSUME ShippingInv, attempt[Only].state = "absent"
    PROVE  /\ Epoch = 0 /\ Acked = 0 /\ events[Only] = {}
           /\ host = [state |-> "none", journal |-> 0, exit |-> FALSE]
           /\ Log = <<>>
           /\ \A e \in Epochs :
                  /\ copy[e].state = "absent" /\ copy[e].hostSeq = 0 /\ copy[e].acked = 0
                  /\ emitted[e] = <<>> /\ wire[e] = Silence
<1>1. Epoch = 0 /\ Acked = 0 /\ host = [state |-> "none", journal |-> 0, exit |-> FALSE]
  BY DEF ShippingInv, LedgerOK
<1>2. events[Only] = {}
  <2>1. \A x \in events[Only] : x[1] \in 1 .. 0
    BY <1>1, OnlyAttempt DEF ShippingInv, LedgerOK, EventsInOrder, Acked
  <2> QED
    BY <2>1
<1>3. Log = <<>>
  BY <1>1 DEF Log
<1>4. ASSUME NEW e \in Epochs
      PROVE  /\ copy[e].state = "absent" /\ copy[e].hostSeq = 0 /\ copy[e].acked = 0
             /\ emitted[e] = <<>> /\ wire[e] = Silence
  <2>1. CopyOK(e) /\ copy[e].hostSeq \in Nat /\ copy[e].acked \in Nat
    BY CopyFacts
  <2>2. copy[e].state = "absent"
    BY <1>1, <2>1 DEF CopyOK, Epochs
  <2> QED
    BY <1>1, <2>1, <2>2 DEF CopyOK, Unread
<1> QED
  BY <1>1, <1>2, <1>3, <1>4

LEMMA InvOfClaimTurn ==
    ASSUME ShippingInv, ClaimTurn
    PROVE  ShippingInv'
<1> USE OnlyAttempt
<1>1. TypeOK /\ TypeOK'
  <2>1. TypeOK
    BY DEF ShippingInv, ShippingTypes
  <2> QED
    BY <2>1, TypesOfCustody DEF ClaimTurn
<1>2. /\ attempt[Only].state = "absent" /\ events' = events
      /\ job' = [SettledJobs EXCEPT ![Turn].state = "leased"]
      /\ attempt' = [SettledAttempts EXCEPT ![Only] =
             [state |-> "live", job |-> Turn, runner |-> Machine, epoch |-> 1,
                 lease |-> now + Lease,
              contact |-> 0, started |-> now, acked |-> 0]]
  BY DEF ClaimTurn, Claim
<1>3. attempt'[Only] = [state |-> "live", job |-> Turn, runner |-> Machine, epoch |-> 1,
          lease |-> now + Lease,
                        contact |-> 0, started |-> now, acked |-> 0]
  BY <1>1, <1>2, SettledTypes
<1>4. Epoch' = 1 /\ Acked' = 0 /\ Log' = <<>>
  <2>1. attempt'[Only].epoch = 1 /\ attempt'[Only].acked = 0
    BY <1>3
  <2> QED
    BY <2>1 DEF Epoch, Acked, Log
<1>5. job'[Turn].result # "exitRecorded"
  <2>1. SettledJobs \in [Jobs -> JobRow]
    BY <1>1, SettledTypes
  <2>2. job'[Turn].result = SettledJobs[Turn].result
    BY <1>2, <2>1, JobFields
  <2>3. job[Turn].result # "exitRecorded"
    BY <1>2 DEF ShippingInv, Done
  <2> QED
    BY <1>1, <2>2, <2>3, SettledRow
<1>6. host.journal = 0 /\ host'.journal = 0 /\ host' \in HostRow
  <2>1. host = [state |-> "none", journal |-> 0, exit |-> FALSE]
    BY <1>2, Unclaimed
  <2>2. host' = host \/ host' = [host EXCEPT !.state = "running"]
    BY DEF ClaimTurn
  <2>3. host \in HostRow /\ host.journal = 0
    BY <2>1 DEF ShippingInv, ShippingTypes
  <2>4. [host EXCEPT !.state = "running"] \in HostRow
        /\ [host EXCEPT !.state = "running"].journal = host.journal
    BY <2>3 DEF HostRow
  <2> QED
    BY <2>2, <2>3, <2>4
<1>7. ASSUME NEW e \in Epochs
      PROVE  /\ copy'[e] \in CopyRow /\ copy'[e].hostSeq = 0 /\ copy'[e].acked = 0
             /\ copy'[e].state \in {"absent", "following", "finishing"}
                /\ (e # 1 => copy'[e].state = "absent")
             /\ copy'[e].state = "finishing" => copy'[e].result = "notStarted"
  <2>1. copy[e] \in CopyRow /\ copy[e].hostSeq = 0 /\ copy[e].acked = 0
        /\ copy[e].state = "absent"
    BY <1>2, CopyFacts, Unclaimed
  <2>2. \/ copy'[e] = copy[e]
        \/ e = 1 /\ copy'[e] = [copy[e] EXCEPT !.state = "following"]
        \/ e = 1 /\ copy'[e] = [copy[e] EXCEPT !.state = "finishing", !.result = "notStarted"]
    <3>1. copy \in [Epochs -> CopyRow]
      BY DEF ShippingInv, ShippingTypes
    <3>2. \/ copy' = copy
          \/ copy' = [copy EXCEPT ![1] = [copy[1] EXCEPT !.state = "following"]]
          \/ copy' = [copy EXCEPT ![1] = [copy[1] EXCEPT !.state = "finishing",
                 !.result = "notStarted"]]
      BY DEF ClaimTurn
    <3>3. CASE e = 1
      BY <3>1, <3>2, <3>3
    <3>4. CASE e # 1
      BY <3>1, <3>2, <3>4
    <3> QED
      BY <3>3, <3>4
  <2>3. CASE copy'[e] = copy[e]
    BY <2>1, <2>3
  <2>4. CASE e = 1 /\ copy'[e] = [copy[e] EXCEPT !.state = "following"]
    <3> DEFINE row == [copy[e] EXCEPT !.state = "following"]
    <3>1. row \in CopyRow /\ row.state = "following" /\ row.hostSeq = copy[e].hostSeq
          /\ row.acked = copy[e].acked
      BY <2>1 DEF CopyRow
    <3> HIDE DEF row
    <3>2. copy'[e] = row
      BY <2>4 DEF row
    <3> QED
      BY <2>1, <2>4, <3>1, <3>2
  <2>5. CASE e = 1 /\ copy'[e] = [copy[e] EXCEPT !.state = "finishing", !.result = "notStarted"]
    <3> DEFINE row == [copy[e] EXCEPT !.state = "finishing", !.result = "notStarted"]
    <3>1. row \in CopyRow /\ row.state = "finishing" /\ row.result = "notStarted"
          /\ row.hostSeq = copy[e].hostSeq
          /\ row.acked = copy[e].acked
      BY <2>1 DEF CopyRow
    <3> HIDE DEF row
    <3>2. copy'[e] = row
      BY <2>5 DEF row
    <3> QED
      BY <2>1, <2>5, <3>1, <3>2
  <2> QED
    BY <2>2, <2>3, <2>4, <2>5
<1>8. DOMAIN copy' = Epochs /\ copy' = [e \in Epochs |-> copy'[e]]
  BY DEF ClaimTurn, ShippingInv, ShippingTypes
<1>9. emitted' = emitted /\ wire' = wire
  BY DEF ClaimTurn
<1>10. ShippingTypes'
  <2>1. copy' \in [Epochs -> CopyRow]
    BY <1>7, <1>8
  <2> QED
    BY <1>1, <1>6, <1>9, <2>1 DEF ShippingInv, ShippingTypes
<1>11. events'[Only] = {}
  BY <1>2, Unclaimed
<1>12. LedgerOK'
  <2>1. EventsInOrder'
    BY <1>3, <1>11 DEF EventsInOrder
  <2> QED
    BY <1>3, <1>11, <2>1 DEF LedgerOK
<1>13. LogOK'
  <2>1. Len(<<>>) = 0 /\ <<>> \in Seq(Frame)
    OBVIOUS
  <2>2. Log' \in Seq(Frame) /\ InStep(Log')
    BY <1>4, <2>1 DEF InStep
  <2>3. LastH(Log') = 0
    BY <1>4 DEF LastH
  <2> QED
    BY <1>6, <2>2, <2>3 DEF LogOK, InStep, LastH
<1>14. ASSUME NEW e \in Epochs PROVE CopyOK(e)'
  <2>1. emitted'[e] = <<>> /\ wire'[e] = Silence
    BY <1>2, <1>9, Unclaimed
  <2>2. Newest(e)'
    <3>1. Extends(Log', emitted'[e]) /\ InStep(emitted'[e])
          /\ LastH(emitted'[e]) = copy'[e].hostSeq
      <4>1. Log' = <<>> /\ emitted'[e] = <<>> /\ Len(<<>>) = 0
        BY <1>4, <2>1
      <4>2. Extends(<<>>, <<>>) /\ InStep(<<>>) /\ LastH(<<>>) = 0
        BY DEF Extends, InStep, LastH
      <4> QED
        BY <1>7, <4>1, <4>2
    <3> QED
      BY <1>7, <3>1 DEF Newest, Extends, InStep, LastH
  <2>3. e \in Nat /\ (e > 1 => e # 1)
    BY DEF Epochs
  <2>4. "notStarted" \in Results
    OBVIOUS
  <2> QED
    BY <1>4, <1>6, <1>7, <2>1, <2>2, <2>3, <2>4 DEF CopyOK, Silence
<1> QED
  BY <1>5, <1>10, <1>12, <1>13, <1>14 DEF ShippingInv, Done

-----------------------------------------------------------------------------
(* A sync.                                                                    *)

LEMMA TypesOfSync ==
    ASSUME TypeOK, NEW e \in Epochs, NEW batch \in SUBSET Nat, Sync(Machine, Only, e, batch)
    PROVE  TypeOK'
<1> USE LeasesAssumption, OnlyAttempt
<1>0. now \in Nat /\ now + Lease \in Nat /\ attempt \in [Attempts -> AttemptRow]
      /\ attempt[Only].acked \in Nat /\ e \in Nat
  BY AttemptFields DEF TypeOK, Epochs
<1>1. CASE Settle /\ UNCHANGED <<now, events, command>>
  BY <1>1, SettledTypes DEF Settle, TypeOK
<1>2. ASSUME NEW cursor \in batch \cup {attempt[Only].acked},
             events' = Stored(Only, e, cursor), job' = SettledJobs, UNCHANGED <<now, command>>,
             \/ attempt' = [SettledAttempts EXCEPT ![Only].acked = cursor]
             \/ attempt' = [SettledAttempts EXCEPT ![Only] = [@ EXCEPT !.acked = cursor,
                    !.lease = now + Lease,
                                                                       !.contact = now]]
      PROVE  TypeOK'
  <2>1. cursor \in Nat
    BY <1>0
  <2>2. events[Only] \cup ((attempt[Only].acked + 1 .. cursor) \X {e}) \in SUBSET (Nat \X Nat)
    <3>1. (attempt[Only].acked + 1 .. cursor) \X {e} \subseteq Nat \X Nat
      BY <1>0, <2>1
    <3> QED
      BY <3>1 DEF TypeOK
  <2>3. events' \in [Attempts -> SUBSET (Nat \X Nat)]
    BY <1>2, <2>2 DEF Stored, TypeOK
  <2>4. SettledAttempts[Only] \in AttemptRow
    BY SettledTypes
  <2>5. /\ [SettledAttempts[Only] EXCEPT !.acked = cursor] \in AttemptRow
        /\ [SettledAttempts[Only] EXCEPT !.acked = cursor, !.lease = now + Lease,
               !.contact = now] \in AttemptRow
    BY <1>0, <2>1, <2>4, AttemptUpdates
  <2>6. attempt' \in [Attempts -> AttemptRow]
    BY <1>2, <2>5, SettledTypes
  <2> QED
    BY <1>2, <2>3, <2>6, SettledTypes DEF TypeOK
<1> QED
  BY <1>1, <1>2 DEF Sync

\* What the owner stores of a batch it accepts.
LEMMA SyncStores ==
    ASSUME ShippingInv, NEW e \in Epochs, OwnerSyncs(e), Holding(Machine, Only, e)
    PROVE  \E c \in Nat :
               /\ Acked <= c /\ c <= Len(emitted[e]) /\ e = Epoch /\ TypeOK'
               /\ events'[Only] = events[Only] \cup ((Acked + 1 .. c) \X {e})
               /\ attempt[Only].state = "live" /\ attempt'[Only].state = "live"
               /\ attempt'[Only].job = attempt[Only].job
               /\ attempt'[Only].runner = attempt[Only].runner
               /\ attempt'[Only].epoch = Epoch /\ attempt'[Only].acked = c
               /\ job'[Turn].result \in {job[Turn].result, "lease_expired"}
<1> USE OnlyAttempt
<1>1. PICK last \in copy[e].acked .. Len(emitted[e]) : Sync(Machine, Only, e,
          copy[e].acked + 1 .. last)
  BY DEF OwnerSyncs
<1> DEFINE batch == copy[e].acked + 1 .. last
<1>2. emitted[e] \in Seq(Frame) /\ Len(emitted[e]) \in Nat /\ copy[e].acked \in Nat
      /\ Acked \in Nat /\ TypeOK
  BY CopyFacts
<1>3. last \in Nat /\ last <= Len(emitted[e]) /\ batch \in SUBSET Nat
  BY <1>2
<1>4. TypeOK'
  BY <1>1, <1>2, <1>3, TypesOfSync
<1>5. PICK c \in batch \cup {attempt[Only].acked} :
          /\ Contiguous(Only, batch, c) /\ events' = Stored(Only, e, c) /\ job' = SettledJobs
          /\ \/ attempt' = [SettledAttempts EXCEPT ![Only] = [@ EXCEPT !.acked = c,
                    !.lease = now + Lease,
                                                                       !.contact = now]]
             \/ attempt' = [SettledAttempts EXCEPT ![Only].acked = c]
  BY <1>1 DEF Sync
<1>6. attempt[Only].state = "live" /\ e = Epoch /\ ~Passed(Only)
  BY LeaseIsNat DEF Holding, Live, Passed, Epoch
<1>7. c \in Nat /\ Acked <= c /\ c <= Len(emitted[e])
  <2>1. Acked <= Len(emitted[e])
    <3>1. Extends(Log, emitted[e]) /\ Log \in Seq(Frame)
      BY <1>6, ReportingFacts, CopyFacts DEF OwnerSyncs, Reporting, LogOK
    <3>2. Len(Log) = Acked
      BY <1>2, <3>1 DEF Log
    <3> QED
      BY <3>1, <3>2 DEF Extends
  <2>2. c \in batch \/ c = Acked
    BY <1>5 DEF Acked
  <2>3. Acked <= c
    BY <1>5 DEF Contiguous, Acked
  <2> QED
    BY <1>2, <1>3, <2>1, <2>2, <2>3
<1>8. /\ attempt'[Only].state = SettledAttempts[Only].state
      /\ attempt'[Only].job = SettledAttempts[Only].job
      /\ attempt'[Only].runner = SettledAttempts[Only].runner
      /\ attempt'[Only].epoch = SettledAttempts[Only].epoch /\ attempt'[Only].acked = c
  <2>1. SettledAttempts \in [Attempts -> AttemptRow]
    BY <1>2, SettledTypes
  <2>2. DOMAIN SettledAttempts[Only] = {"state", "job", "runner", "epoch", "lease", "contact",
            "started", "acked"}
    BY <2>1, AttemptFields
  <2>3. \/ attempt'[Only] = [SettledAttempts[Only] EXCEPT !.acked = c, !.lease = now + Lease,
               !.contact = now]
        \/ attempt'[Only] = [SettledAttempts[Only] EXCEPT !.acked = c]
    BY <1>5, <2>1
  <2> QED
    BY <2>2, <2>3
<1>9. events'[Only] = events[Only] \cup ((Acked + 1 .. c) \X {e})
  BY <1>2, <1>5 DEF Stored, TypeOK, Acked
<1>10. job'[Turn].result \in {job[Turn].result, "lease_expired"}
  BY <1>2, <1>5, SettledRow
<1> QED
  BY <1>2, <1>4, <1>6, <1>7, <1>8, <1>9, <1>10, SettledRow

LEMMA InvOfStored ==
    ASSUME ShippingInv, NEW e \in Epochs, OwnerSyncs(e), Holding(Machine, Only, e)
    PROVE  ShippingInv'
<1> USE OnlyAttempt
<1>1. PICK c \in Nat :
          /\ Acked <= c /\ c <= Len(emitted[e]) /\ e = Epoch /\ TypeOK'
          /\ events'[Only] = events[Only] \cup ((Acked + 1 .. c) \X {e})
          /\ attempt[Only].state = "live" /\ attempt'[Only].state = "live"
          /\ attempt'[Only].job = attempt[Only].job
          /\ attempt'[Only].runner = attempt[Only].runner
          /\ attempt'[Only].epoch = Epoch /\ attempt'[Only].acked = c
          /\ job'[Turn].result \in {job[Turn].result, "lease_expired"}
  BY SyncStores
<1>2. host' = host /\ copy' = copy /\ emitted' = emitted /\ Acked' = c /\ Epoch' = Epoch
      /\ wire' = [wire EXCEPT ![e] = [answer |-> "ok", cursor |-> c]]
  BY <1>1 DEF OwnerSyncs, Acked, Epoch
<1>3. copy[e].state \in Reporting /\ copy[e].state \notin Unread
  BY DEF OwnerSyncs, Reporting, Unread
<1>4. /\ emitted[e] \in Seq(Frame) /\ Len(emitted[e]) \in Nat /\ Acked \in Nat /\ Epoch \in Nat
      /\ e \in Nat
      /\ copy[e].hostSeq \in Nat /\ host.journal \in Nat
      /\ Log \in Seq(Frame) /\ InStep(Log) /\ LastH(Log) <= host.journal
  BY CopyFacts DEF Epochs, LogOK
<1>5. Len(Log) = Acked /\ Log = [n \in 1 .. Acked |-> Log[n]]
      /\ \A n \in 1 .. Acked : Log[n] = StoredFrame(n)
  BY <1>4 DEF Log
<1>6. Extends(Log, emitted[e]) /\ InStep(emitted[e]) /\ LastH(emitted[e]) = copy[e].hostSeq
      /\ copy[e].hostSeq <= host.journal
  BY <1>1, <1>3, ReportingFacts
<1>7. LedgerOK
  BY DEF ShippingInv
<1>8. EventsInOrder'
  <2>1. \A n \in 1 .. c : \E x \in events'[Only] : x[1] = n
    <3> TAKE n \in 1 .. c
    <3>1. CASE n <= Acked
      <4>1. PICK x \in events[Only] : x[1] = n
        BY <1>4, <1>7, <3>1 DEF LedgerOK, EventsInOrder, Acked
      <4> QED
        BY <1>1, <4>1
    <3>2. CASE ~(n <= Acked)
      <4>1. <<n, e>> \in (Acked + 1 .. c) \X {e}
        BY <1>4, <3>2
      <4> QED
        BY <1>1, <4>1
    <3> QED
      BY <3>1, <3>2
  <2>2. \A x \in events[Only] : x[1] \in 1 .. Acked /\ x[2] <= e /\ x[2] \in Nat
    BY <1>1, <1>7 DEF LedgerOK, EventsInOrder, Acked, Epochs
  <2>3. \A x \in (Acked + 1 .. c) \X {e} : x[1] \in Acked + 1 .. c /\ x[2] = e /\ x = <<x[1], e>>
    OBVIOUS
  <2>4. \A x \in events'[Only] : x[1] \in 1 .. c
    BY <1>1, <1>4, <2>2, <2>3
  <2>5. \A x, y \in events[Only] : (x[1] = y[1] => x = y) /\ (x[1] < y[1] => x[2] <= y[2])
    BY <1>7 DEF LedgerOK, EventsInOrder
  <2>6. ASSUME NEW x \in events'[Only], NEW y \in events'[Only]
        PROVE  (x[1] = y[1] => x = y) /\ (x[1] < y[1] => x[2] <= y[2])
    <3>1. CASE x \in events[Only] /\ y \in events[Only]
      BY <2>5, <3>1
    <3>2. CASE x \in events[Only] /\ y \in (Acked + 1 .. c) \X {e}
      <4>1. x[1] \in 1 .. Acked /\ x[2] <= e /\ y[1] \in Acked + 1 .. c /\ y[2] = e
        BY <2>2, <2>3, <3>2
      <4> QED
        BY <1>4, <4>1
    <3>3. CASE x \in (Acked + 1 .. c) \X {e} /\ y \in events[Only]
      <4>1. y[1] \in 1 .. Acked /\ x[1] \in Acked + 1 .. c
        BY <2>2, <2>3, <3>3
      <4> QED
        BY <1>4, <4>1
    <3>4. CASE x \in (Acked + 1 .. c) \X {e} /\ y \in (Acked + 1 .. c) \X {e}
      <4>1. x = <<x[1], e>> /\ y = <<y[1], e>> /\ x[2] = e /\ y[2] = e /\ e <= e
        BY <1>4, <2>3, <3>4
      <4> QED
        BY <4>1
    <3> QED
      BY <1>1, <3>1, <3>2, <3>3, <3>4
  <2> QED
    BY <1>1, <2>1, <2>4, <2>6 DEF EventsInOrder
<1>9. ASSUME NEW n \in 1 .. c PROVE StoredFrame(n)' = emitted[e][n]
  <2>1. \A x \in events'[Only] : StoredFrame(x[1])' = emitted[x[2]][x[1]]
    BY <1>2, <1>8, StoredIsNext
  <2>2. CASE n <= Acked
    <3>1. n \in 1 .. Acked
      BY <1>4, <2>2
    <3>2. PICK x \in events[Only] : x[1] = n
      BY <1>7, <3>1 DEF LedgerOK, EventsInOrder, Acked
    <3>3. StoredFrame(n) = emitted[x[2]][n]
      BY <1>7, <3>2, StoredIs DEF LedgerOK
    <3>4. StoredFrame(n)' = emitted[x[2]][n]
      BY <1>1, <2>1, <3>2
    <3>5. Log[n] = StoredFrame(n) /\ emitted[e][n] = Log[n]
      BY <1>5, <1>6, <3>1 DEF Extends
    <3> QED
      BY <3>3, <3>4, <3>5
  <2>3. CASE ~(n <= Acked)
    <3>1. <<n, e>> \in events'[Only]
      <4>1. <<n, e>> \in (Acked + 1 .. c) \X {e}
        BY <1>4, <2>3
      <4> QED
        BY <1>1, <4>1
    <3> QED
      BY <2>1, <3>1
  <2> QED
    BY <2>2, <2>3
<1>10. Log' = [n \in 1 .. c |-> emitted[e][n]]
  BY <1>2, <1>9 DEF Log
<1>11. /\ Log' \in Seq(Frame) /\ Len(Log') = c /\ InStep(Log') /\ Extends(Log', emitted[e])
       /\ LastH(Log') <= copy[e].hostSeq /\ LastH(Log') \in Nat
  <2> DEFINE log == [n \in 1 .. c |-> emitted[e][n]]
  <2>1. /\ log \in Seq(Frame) /\ Len(log) = c /\ InStep(log) /\ Extends(log, emitted[e])
        /\ LastH(log) <= LastH(emitted[e]) /\ LastH(log) \in Nat
    BY <1>1, <1>4, <1>6, HeadOfFrames
  <2> HIDE DEF log
  <2>2. Log' = log
    BY <1>10 DEF log
  <2> QED
    BY <1>6, <2>1, <2>2 DEF Extends, InStep, LastH
<1>12. LastH(Log) <= LastH(Log') /\ LastH(Log) \in Nat
  <2>1. \A n \in 1 .. Acked : Log[n] = emitted[e][n] /\ n \in 1 .. c
    BY <1>1, <1>4, <1>5, <1>6 DEF Extends
  <2>2. \A n \in 1 .. Acked : Log[n] = Log'[n]
    BY <1>10, <2>1
  <2>3. PICK all \in Seq(Frame) : all = Log'
    BY <1>11
  <2>4. Log = [n \in 1 .. Acked |-> all[n]]
    BY <1>5, <2>2, <2>3
  <2>5. InStep(all) /\ Acked <= Len(all)
    BY <1>1, <1>11, <2>3 DEF InStep
  <2>6. LastH(Log) <= LastH(all) /\ LastH(Log) \in Nat
    BY <1>4, <2>4, <2>5, HeadOfFrames
  <2> QED
    BY <2>3, <2>6 DEF LastH
<1>13. LogOK'
  BY <1>2, <1>4, <1>6, <1>11 DEF LogOK, InStep, LastH
<1>14. CompleteAtOwner => CompleteAtOwner'
  <2> SUFFICES ASSUME CompleteAtOwner PROVE CompleteAtOwner'
    OBVIOUS
  <2>1. LastH(Log) = host.journal
    BY DEF CompleteAtOwner
  <2>2. LastH(Log') = host.journal
    BY <1>4, <1>6, <1>11, <1>12, <2>1
  <2> QED
    BY <1>2, <2>2 DEF CompleteAtOwner, LastH
<1>15. ShippingTypes'
  <2>1. [answer |-> "ok", cursor |-> c] \in WireRow
    BY DEF WireRow
  <2> QED
    BY <1>1, <1>2, <2>1 DEF ShippingInv, ShippingTypes
<1>16. LedgerOK'
  <2>1. attempt'[Only].runner = Machine /\ attempt'[Only].job = Turn
    BY <1>1, <1>7 DEF LedgerOK
  <2>2. ASSUME NEW x \in events'[Only]
        PROVE  x[2] \in Epochs /\ x[2] <= Epoch /\ x[1] <= Len(emitted[x[2]])
               /\ copy[x[2]].state \notin Unread
    <3>1. CASE x \in events[Only]
      BY <1>7, <3>1 DEF LedgerOK
    <3>2. CASE x \in (Acked + 1 .. c) \X {e}
      <4>1. x[1] \in Acked + 1 .. c /\ x[2] = e
        BY <3>2
      <4>2. x[1] <= Len(emitted[e])
        BY <1>1, <1>4, <4>1
      <4> QED
        BY <1>1, <1>3, <1>4, <4>1, <4>2
    <3> QED
      BY <1>1, <3>1, <3>2
  <2> QED
    BY <1>1, <1>2, <1>8, <2>1, <2>2 DEF LedgerOK
<1>17. Done'
  <2>1. job'[Turn].result # "exitRecorded"
    BY <1>1 DEF ShippingInv, Done
  <2> QED
    BY <2>1 DEF Done
<1>18. ASSUME NEW f \in Epochs PROVE CopyOK(f)'
  <2>1. CopyOK(f) /\ copy[f].acked \in Nat /\ wire[f].cursor \in Nat
    BY CopyFacts
  <2>2. copy[f].acked <= c /\ wire[f].cursor <= c
    BY <1>1, <1>4, <2>1 DEF CopyOK
  <2>3. CASE f = e
    <3>1. wire'[e] = [answer |-> "ok", cursor |-> c]
      BY <1>2, CopyFacts
    <3>2. Newest(e)'
      <4>1. copy[e].state \in {"finishing", "calling"} /\ copy[e].result = "exitRecorded" =>
                host.exit /\ host.state = "gone" /\ copy[e].hostSeq = host.journal
        BY <1>1, <1>3, ReportingFacts
      <4>2. copy[e].state = "calling" /\ copy[e].result = "exitRecorded" => CompleteAtOwner'
        BY <1>1, <1>3, <1>14, ReportingFacts
      <4> QED
        BY <1>2, <1>3, <1>6, <1>11, <4>1, <4>2 DEF Newest, Unread, Extends, InStep, LastH
    <3>3. wire'[e].cursor <= c /\ ~(e > Epoch)
      BY <1>1, <1>4, <3>1
    <3> QED
      BY <1>2, <1>3, <2>1, <2>2, <2>3, <3>2, <3>3 DEF CopyOK
  <2>4. CASE f # e
    <3>1. wire'[f] = wire[f]
      BY <1>2, <2>4, CopyFacts
    <3> QED
      BY <1>1, <1>2, <2>1, <2>2, <2>4, <3>1 DEF CopyOK
  <2> QED
    BY <2>3, <2>4
<1> QED
  BY <1>13, <1>15, <1>16, <1>17, <1>18 DEF ShippingInv

LEMMA InvOfOwnerSyncs ==
    ASSUME ShippingInv, NEW e \in Epochs, OwnerSyncs(e)
    PROVE  ShippingInv'
<1> USE OnlyAttempt
<1>1. CASE Holding(Machine, Only, e)
  BY <1>1, InvOfStored
<1>2. CASE ~Holding(Machine, Only, e)
  <2>1. PICK last \in copy[e].acked .. Len(emitted[e]) : Sync(Machine, Only, e,
            copy[e].acked + 1 .. last)
    BY DEF OwnerSyncs
  <2>2. TypeOK'
    <3>1. Len(emitted[e]) \in Nat /\ copy[e].acked \in Nat /\ TypeOK
      BY CopyFacts
    <3>2. copy[e].acked + 1 .. last \in SUBSET Nat
      BY <3>1
    <3> QED
      BY <2>1, <3>1, <3>2, TypesOfSync
  <2>3. LedgerStands
    BY <1>2, <2>1, <2>2, SettleStands DEF Sync
  <2>4. wire' = [wire EXCEPT ![e] = [answer |-> "refused", cursor |-> 0]]
        /\ HostAdvances /\ [answer |-> "refused", cursor |-> 0] \in WireRow
    BY <1>2, HostRests DEF OwnerSyncs, WireRow
  <2>a. copy' = copy /\ emitted' = emitted
    BY DEF OwnerSyncs
  <2>5. copy[e].state \notin Unread /\ wire'[e].cursor = 0
    BY <2>4, CopyFacts DEF OwnerSyncs, Unread
  <2>6. Log' = Log /\ (CompleteAtOwner => CompleteAtOwner') => CopyOK(e)'
    BY <2>3, <2>4, <2>5, <2>a, CopyStands
  <2>7. /\ copy' = [copy EXCEPT ![e] = copy[e]] /\ emitted' = [emitted EXCEPT ![e] = emitted[e]]
        /\ copy[e] \in CopyRow /\ emitted[e] \in Seq(Frame) /\ Extends(emitted[e], emitted[e])
    BY <2>a, CopyFacts
  <2> QED
    BY <2>3, <2>4, <2>6, <2>7, CopySteps
<1> QED
  BY <1>1, <1>2

-----------------------------------------------------------------------------
(* The journal at the owner.                                                  *)

LEMMA InvOfShippingInit == ShippingInit => ShippingInv
<1> SUFFICES ASSUME ShippingInit PROVE ShippingInv
  OBVIOUS
<1> USE OnlyAttempt
<1>1. TypeOK
  BY LeasesAssumption DEF ShippingInit, Init, TypeOK, JobRow, JobStates, AttemptRow, CommandRow
<1>2. /\ attempt[Only].state = "absent" /\ attempt[Only].epoch = 0 /\ attempt[Only].acked = 0
      /\ events[Only] = {} /\ job[Turn].result = "none"
  BY DEF ShippingInit, Init
<1>3. Epoch = 0 /\ Acked = 0 /\ Log = <<>>
  BY <1>2 DEF Epoch, Acked, Log
<1>4. Len(<<>>) = 0 /\ InStep(<<>>) /\ LastH(<<>>) = 0 /\ <<>> \in Seq(Frame)
  BY DEF InStep, LastH
<1>5. ShippingTypes
  <2>1. host \in HostRow
    BY DEF ShippingInit, HostRow
  <2>2. copy \in [Epochs -> CopyRow]
    BY DEF ShippingInit, CopyRow
  <2>3. wire \in [Epochs -> WireRow] /\ emitted \in [Epochs -> Seq(Frame)]
    BY <1>4 DEF ShippingInit, WireRow, Silence
  <2> QED
    BY <1>1, <2>1, <2>2, <2>3 DEF ShippingTypes
<1>6. LedgerOK
  BY <1>2, <1>3 DEF LedgerOK, EventsInOrder, ShippingInit
<1>7. LogOK
  BY <1>3, <1>4 DEF LogOK, ShippingInit
<1>8. Done
  <2>1. "none" # "exitRecorded"
    OBVIOUS
  <2> QED
    BY <1>2, <2>1 DEF Done
<1>9. ASSUME NEW e \in Epochs PROVE CopyOK(e)
  BY <1>3 DEF ShippingInit, CopyOK, Newest, Silence, Reporting, Epochs, Unread
<1> QED
  BY <1>5, <1>6, <1>7, <1>8, <1>9 DEF ShippingInv

LEMMA InvOfShippingNext == ShippingInv /\ [ShippingNext]_shippingVars => ShippingInv'
<1> SUFFICES ASSUME ShippingInv, [ShippingNext]_shippingVars PROVE ShippingInv'
  OBVIOUS
<1>1. CASE UNCHANGED shippingVars
  <2>1. LedgerStands /\ HostAdvances /\ copy' = copy /\ emitted' = emitted /\ wire' = wire
    BY <1>1, LedgerRests, HostRests DEF shippingVars, ledgerVars
  <2> QED
    BY <2>1, CopiesStand
<1>2. CASE OwnerAlone
  BY <1>2, InvOfOwner
<1>3. CASE HostWrites \/ HostGoes
  BY <1>3, InvOfHost
<1>4. CASE ClaimTurn
  BY <1>4, InvOfClaimTurn
<1>5. CASE Restart
  BY <1>5, InvOfRestart
<1>6. ASSUME NEW e \in Epochs,
             Attach(e) \/ Follow(e) \/ Pickup(e) \/ HostGone(e) \/ Release(e) \/ Read(e)
      PROVE  ShippingInv'
  BY <1>6, InvOfAttach, InvOfFollow, InvOfPickup, InvOfHostGone, InvOfRelease, InvOfRead
<1>7. ASSUME NEW e \in Epochs,
             \/ OwnerSyncs(e) \/ SyncAnswered(e) \/ AnswerLost(e)
             \/ FinishStarts(e) \/ FinishCalls(e) \/ Crash(e)
      PROVE  ShippingInv'
  BY <1>7, InvOfOwnerSyncs, InvOfSyncAnswered, InvOfAnswerLost, InvOfFinishStarts,
       InvOfFinishCalls, InvOfCrash
<1> QED
  BY <1>1, <1>2, <1>3, <1>4, <1>5, <1>6, <1>7 DEF ShippingNext

\* Each stored event says how many frames of the journal came so far.
LEMMA LogCounts ==
    ASSUME ShippingInv, NEW n \in 1 .. Acked
    PROVE  StoredFrame(n).h = Cardinality(Shipped(n))
<1>1. Log \in Seq(Frame) /\ InStep(Log) /\ Len(Log) = Acked
      /\ \A k \in 1 .. Acked : Log[k] = StoredFrame(k)
  <2>1. Log \in Seq(Frame) /\ InStep(Log) /\ Acked \in Nat
    BY EpochIsNat DEF ShippingInv, ShippingTypes, LogOK
  <2> QED
    BY <2>1 DEF Log
<1>2. \A k \in 1 .. n : k \in 1 .. Acked
  <2>1. Acked \in Nat
    BY EpochIsNat DEF ShippingInv, ShippingTypes
  <2> QED
    BY <2>1
<1>3. Log[n].h = Cardinality({k \in 1 .. n : Log[k].kind = "host"})
  BY <1>1, FramesCount
<1>4. {k \in 1 .. n : Log[k].kind = "host"} = Shipped(n)
  BY <1>1, <1>2 DEF Shipped
<1> QED
  BY <1>1, <1>3, <1>4

\* The stored events hold the journal in order and without a gap, and each names how much of it
\* came, whichever copies sent them (shipping of a runner's events, and what a restarted daemon
\* resumes from).
THEOREM ShippingKeepsOrder == ShippingSpec => []ShippedInOrder
<1>1. ShippingInv => ShippedInOrder
  BY LogCounts DEF ShippedInOrder, ShippingInv, LedgerOK, Acked
<1> QED
  BY <1>1, InvOfShippingInit, InvOfShippingNext, PTL DEF ShippingSpec

\* A turn that is reported with the exit of its provider has its whole journal at the owner.
THEOREM ReportIsComplete == ShippingSpec => []EndedIsComplete
<1>1. ASSUME ShippingInv, job[Turn].result = "exitRecorded"
      PROVE  host.exit /\ Cardinality(Shipped(attempt[Only].acked)) = host.journal
  <2>1. host.exit /\ LastH(Log) = host.journal
    BY <1>1 DEF ShippingInv, Done, CompleteAtOwner
  <2>2. Log \in Seq(Frame) /\ Len(Log) = Acked /\ Acked \in Nat
        /\ \A k \in 1 .. Acked : Log[k] = StoredFrame(k)
    <3>1. Log \in Seq(Frame) /\ Acked \in Nat
      BY <1>1, EpochIsNat DEF ShippingInv, ShippingTypes, LogOK
    <3> QED
      BY <3>1 DEF Log
  <2>3. CASE Acked = 0
    <3>1. Log = <<>> /\ Shipped(Acked) = {}
      BY <2>2, <2>3 DEF Shipped
    <3>2. LastH(Log) = 0 /\ Cardinality(Shipped(Acked)) = 0
      BY <3>1, FS_EmptySet DEF LastH
    <3> QED
      BY <2>1, <3>2 DEF Acked
  <2>4. CASE Acked # 0
    <3>1. Acked \in 1 .. Acked /\ Log # <<>>
      BY <2>2, <2>4
    <3>2. LastH(Log) = StoredFrame(Acked).h
      BY <2>2, <3>1 DEF LastH
    <3>3. StoredFrame(Acked).h = Cardinality(Shipped(Acked))
      BY <1>1, <3>1, LogCounts
    <3> QED
      BY <2>1, <3>2, <3>3 DEF Acked
  <2> QED
    BY <2>3, <2>4
<1>2. ShippingInv => EndedIsComplete
  BY <1>1 DEF EndedIsComplete
<1> QED
  BY <1>2, InvOfShippingInit, InvOfShippingNext, PTL DEF ShippingSpec
-----------------------------------------------------------------------------
(* The ledger under the copies of the daemon.                                 *)

\* Whatever the copies, their restarts and the lost answers do, they do to the ledger by calls.
LEMMA ShippingCallsLedger == ShippingInv /\ [ShippingNext]_shippingVars => [AnyCall]_vars
<1> SUFFICES ASSUME ShippingInv, [ShippingNext]_shippingVars PROVE [AnyCall]_vars
  OBVIOUS
<1>0. Turn \in Jobs /\ Only \in Attempts /\ Machine \in Runners
  BY ShippingAssumption
<1>1. ASSUME NEW e \in Epochs
      PROVE  /\ e \in Nat /\ copy[e].acked \in Nat
             /\ copy[e].state = "calling" => copy[e].result \in Results
  BY LeasesAssumption DEF ShippingInv, ShippingTypes, CopyRow, CopyOK, Epochs
<1>2. CASE OwnerAlone
  BY <1>0, <1>2 DEF OwnerAlone, AnyCall
<1>3. CASE ClaimTurn
  BY <1>0, <1>3 DEF ClaimTurn, AnyCall
<1>4. CASE Restart
  <2>1. Reacquire(Machine, {Only}) /\ {Only} \in SUBSET Attempts
    BY <1>0, <1>4 DEF Restart
  <2> QED
    BY <1>0, <2>1, Zenon DEF AnyCall
<1>5. ASSUME NEW e \in Epochs, OwnerSyncs(e) PROVE AnyCall
  <2>1. PICK last \in copy[e].acked .. Len(emitted[e]) :
            Sync(Machine, Only, e, copy[e].acked + 1 .. last)
    BY <1>5 DEF OwnerSyncs
  <2>2. copy[e].acked + 1 .. last \in SUBSET Nat
    BY <1>1
  <2> QED
    BY <1>0, <1>1, <2>1, <2>2, Zenon DEF AnyCall
<1>6. ASSUME NEW e \in Epochs, FinishCalls(e) PROVE AnyCall \/ UNCHANGED vars
  <2>1. \/ copy[e].state = "calling" /\ Finish(Machine, Only, e, copy[e].result)
        \/ UNCHANGED vars
    BY <1>6 DEF FinishCalls, ledgerVars, vars
  <2> QED
    BY <1>0, <1>1, <2>1, Zenon DEF AnyCall
<1>7. ASSUME NEW e \in Epochs,
             \/ Attach(e) \/ Follow(e) \/ Pickup(e) \/ HostGone(e) \/ Release(e) \/ SyncAnswered(e)
             \/ AnswerLost(e) \/ FinishStarts(e) \/ Crash(e) \/ Read(e)
      PROVE  UNCHANGED vars
  BY <1>7 DEF vars, ledgerVars, Attach, Follow, Pickup, HostGone, Release, SyncAnswered, AnswerLost,
       FinishStarts, Crash, Read
<1>8. CASE HostWrites \/ HostGoes \/ UNCHANGED shippingVars
  BY <1>8 DEF HostWrites, HostGoes, shippingVars, ledgerVars, vars
<1> QED
  BY <1>2, <1>3, <1>4, <1>5, <1>6, <1>7, <1>8 DEF ShippingNext

\* Composed with the copies of a daemon that restart, overlap and send again, the ledger still
\* implements RunnerCustody: what a coordinator reads of the turn obeys the custody it relies on, the
\* turn starts once, and its lease follows its last contact.
THEOREM ShippedTurnKeepsCustody ==
    ShippingSpec => ImplementsCustody /\ []TurnNeverStartsTwice /\ []LeaseFollowsContact
<1>1. ShippingInit => Init
  BY DEF ShippingInit
<1> QED
  BY <1>1, ShippingCallsLedger, InvOfShippingInit, InvOfShippingNext, CallsKeepCustody, PTL DEF ShippingSpec

-----------------------------------------------------------------------------
(* The two parts together.                                                    *)

\* Moved by themselves or kept still, the pump and the journal each behave as they do alone; so both
\* keep what was proved of them, however their steps fall together.
THEOREM ProgressKeepsSpecs ==
    ProgressSpec => TurnQueueSpec /\ ShippingSpec /\ []NoLostWakeUp
<1>1. ProgressInit => TurnQueueInit /\ ShippingInit
  BY DEF ProgressInit
<1>2. [ProgressNext]_progressVars => [TurnQueueNext]_queueVars /\ [ShippingNext]_shippingVars
  BY DEF ProgressNext, progressVars, Pump, Journal
<1>3. TurnQueueSpec <=> TurnQueueInit /\ [][TurnQueueNext]_queueVars
  BY DEF TurnQueueSpec
<1> QED
  BY <1>1, <1>2, <1>3, WakeUpsAreKept, PTL DEF ProgressSpec, ShippingSpec

=============================================================================
