--------------------------- MODULE SavedSchedules ---------------------------
(* Repeating saved work (saved-work.ts): a schedule is a chain of turns of    *)
(* one session, its firings, each of which books the next.  A firing waits    *)
(* for its instant, is claimed, held, moved, started by hand, dropped or too  *)
(* late, and its successor is booked by whatever pass of the queue comes      *)
(* next.  The schedule is ended by a drop of its latest firing, by a cancel   *)
(* of the request it came from, or because that request was settled so.       *)
EXTENDS Integers, Sequences, FiniteSets, FiniteSetsExt

CONSTANTS
    Interval,           \* saved_repeat_ms
    Lasts,              \* how long after its instant a firing expires, if it does
    MaxFirings,         \* bound: firings booked
    MaxInstant,         \* bound: the clock
    MaxByHand           \* bound: firings moved and started by hand

ASSUME ScheduleAssumption ==
    {Interval, Lasts, MaxFirings, MaxInstant} \subseteq Nat \ {0} /\ MaxByHand \in Nat

Instants == 1..MaxInstant
NoInstant == 0          \* NULL, and the instant of a firing started by hand

VARIABLES
    now,                \* the clock
    firing,             \* the turns of the schedule in the order they were booked
    dropped,            \* firings with a "drop" event
    markedOn,           \* the firing with the "schedule_ended" event
    request,            \* the request that created the schedule
    suspended,          \* its session is suspended or archived
    byHand              \* bound: how often a firing was moved or started

savedVars == <<now, firing, dropped, markedOn, request, suspended, byHand>>

Firings == DOMAIN firing
Latest == Len(firing)
NoFiring == 0

SavedTypeOK ==
    /\ now \in Instants /\ Latest \in 1..MaxFirings
    /\ \A i \in Firings :
          /\ firing[i].status \in {"queued", "running", "done", "error", "cancelled"}
          /\ {firing[i].seq, firing[i].fire, firing[i].next, firing[i].expires} \subseteq Nat
          /\ {firing[i].manual, firing[i].begun} \subseteq BOOLEAN
    /\ dropped \subseteq 1..MaxFirings /\ markedOn \in 0..MaxFirings
    /\ request \in {"open", "settled", "canceled"} /\ suspended \in BOOLEAN /\ byHand \in 0..MaxByHand

\* A new firing; "begun" remembers that the queue gave it out.
Booked(seq, at, expires) ==
    [status |-> "queued", seq |-> seq, fire |-> at, next |-> at, expires |-> expires,
     manual |-> FALSE, begun |-> FALSE]

Expiries(at) == {NoInstant, at + Lasts}

SavedInit ==
    /\ now = 1
    /\ \E at \in Instants \ {1} : \E expires \in Expiries(at) : firing = <<Booked(0, at, expires)>>
    /\ dropped = {} /\ markedOn = NoFiring /\ request = "open" /\ suspended = FALSE /\ byHand = 0

Queued == {i \in Firings : firing[i].status = "queued"}
InProgress == {i \in Firings : firing[i].status \in {"queued", "running"}}

-----------------------------------------------------------------------------
(* The pass before the queue's claims.                                        *)
RequestAlone(i) == request = "canceled"

\* Asked of the latest firing.
RepeatingScheduleEnded(i) == i \in dropped \/ markedOn = i \/ request = "canceled"

\* Every waiting firing is withdrawn, and the end is noted on the latest, once.
EndSchedule ==
    /\ firing' = [i \in Firings |-> IF i \in Queued THEN [firing[i] EXCEPT !.status = "cancelled"] ELSE firing[i]]
    /\ markedOn' = IF markedOn = NoFiring THEN Latest ELSE markedOn

DueWhileQueued == Latest \in Queued /\ firing[Latest].next <= now /\ ~suspended

\* The latest firing is due, or has left the queue by any path.  One that waits in a session that is
\* suspended or archived stays as it is.
DueForAdvance ==
    firing[Latest].status = "queued" => firing[Latest].next <= now /\ ~suspended

\* The next instant of the schedule after now.
Ahead == Max({1, (now - firing[Latest].fire) \div Interval + 1})

Successor ==
    LET row == firing[Latest]
        later == Ahead * Interval
    IN  Booked(row.seq + Ahead, row.fire + later, IF row.expires = NoInstant THEN NoInstant ELSE row.expires + later)

OverlapsRun == Latest \in Queued /\ \E i \in Firings : i < Latest /\ firing[i].status = "running"

\* A firing that comes due while an earlier one is in progress is skipped.
Overlaps == Latest \in Queued /\ \E i \in InProgress : i < Latest

WithSuccessor ==
    Append(IF Overlaps THEN [firing EXCEPT ![Latest].status = "cancelled"] ELSE firing, Successor)

\* Waiting work that missed its expiry ends, unless a global pause holds it.  (A pause also keeps the
\* queue from claiming; it comes and goes at any time.)
Missed(rows, held) ==
    [i \in DOMAIN rows |->
        IF rows[i].status = "queued" /\ rows[i].expires # NoInstant /\ rows[i].expires <= now /\ ~held
        THEN [rows[i] EXCEPT !.status = "error"] ELSE rows[i]]

MayBook == ~RepeatingScheduleEnded(Latest) /\ (Latest \in Queued \/ ~suspended)

PrepareSavedWorkForClaims ==
    /\ \/ /\ DueForAdvance /\ RepeatingScheduleEnded(Latest) /\ Latest \in Queued
          /\ EndSchedule
       \/ /\ DueForAdvance /\ MayBook /\ Latest < MaxFirings
          /\ \E held \in BOOLEAN : firing' = Missed(WithSuccessor, held)
          /\ UNCHANGED markedOn
       \/ /\ DueForAdvance => ~MayBook /\ Latest \notin Queued
          /\ \E held \in BOOLEAN : firing' = Missed(firing, held)
          /\ UNCHANGED markedOn
    /\ UNCHANGED <<now, dropped, request, suspended, byHand>>

\* The watch over saved work settles missed work too.
InspectSavedWork ==
    (\E held \in BOOLEAN : firing' = Missed(firing, held)) /\ UNCHANGED <<now, dropped, markedOn, request, suspended, byHand>>

-----------------------------------------------------------------------------
(* The queue, which claims on an instant of its own, and a firing's run.      *)
ClaimableFiring(i) ==
    /\ i \in Queued /\ firing[i].next <= now
    /\ firing[i].manual \/ firing[i].fire <= now
    /\ firing[i].manual \/ firing[i].expires = NoInstant \/ firing[i].expires > now
    /\ i = 1 => request # "canceled"
    /\ \A j \in Queued : j < i => ~firing[j].manual

ClaimFiring ==
    /\ ~suspended
    /\ \A i \in Firings : firing[i].status # "running"
    /\ LET claimable == {i \in Firings : ClaimableFiring(i)}
       IN  /\ claimable # {}
           /\ firing' = [firing EXCEPT ![Min(claimable)] =
                            [@ EXCEPT !.status = "running", !.next = NoInstant, !.begun = TRUE]]
    /\ UNCHANGED <<now, dropped, markedOn, request, suspended, byHand>>

\* Done stands for every end but a Stop, which cancels.
FinishFiring(i, status) ==
    /\ firing[i].status = "running" /\ firing' = [firing EXCEPT ![i].status = status]
    /\ UNCHANGED <<now, dropped, markedOn, request, suspended, byHand>>

RetryFiring(i) ==
    /\ firing[i].status = "running"
    /\ firing' = [firing EXCEPT ![i] = [@ EXCEPT !.status = "queued", !.next = now + 1]]
    /\ UNCHANGED <<now, dropped, markedOn, request, suspended, byHand>>

-----------------------------------------------------------------------------
(* What a person does with a waiting firing.                                  *)
MoveFiring(i, at, expires) ==
    /\ i \in Queued /\ at > now
    /\ firing' = [firing EXCEPT ![i] = [@ EXCEPT !.next = at, !.fire = at, !.expires = expires, !.manual = FALSE]]
    /\ byHand < MaxByHand /\ byHand' = byHand + 1
    /\ UNCHANGED <<now, dropped, markedOn, request, suspended>>

StartFiring(i) ==
    /\ i \in Queued /\ firing' = [firing EXCEPT ![i] = [@ EXCEPT !.manual = TRUE, !.next = NoInstant]]
    /\ byHand < MaxByHand /\ byHand' = byHand + 1
    /\ UNCHANGED <<now, dropped, markedOn, request, suspended>>

DropFiring(i) ==
    /\ i \in Queued /\ firing' = [firing EXCEPT ![i].status = "cancelled"]
    /\ dropped' = dropped \cup {i}
    /\ UNCHANGED <<now, markedOn, request, suspended, byHand>>

\* The input of one firing is withdrawn from the session's queue.
CancelFiringInput(i) ==
    /\ i \in Queued /\ firing' = [firing EXCEPT ![i].status = "cancelled"]
    /\ UNCHANGED <<now, dropped, markedOn, request, suspended, byHand>>

Suspend == suspended' = ~suspended /\ UNCHANGED <<now, firing, dropped, markedOn, request, byHand>>

-----------------------------------------------------------------------------
(* The request, which names only the first firing.                            *)
AnswerRequest ==
    /\ request = "open" /\ firing[1].begun /\ request' = "settled"
    /\ UNCHANGED <<now, firing, dropped, markedOn, suspended, byHand>>

SettleRequest ==
    /\ request = "open" /\ firing[1].status \in {"cancelled", "error"}
    /\ request' = IF firing[1].status = "cancelled" THEN "canceled" ELSE "settled"
    /\ UNCHANGED <<now, firing, dropped, markedOn, suspended, byHand>>

CancelSchedule ==
    /\ request' = IF request = "open" THEN "canceled" ELSE request
    /\ EndSchedule /\ UNCHANGED <<now, dropped, suspended, byHand>>

\* The reconciliation of canceled requests whose turn is still queued.
ReconcileCanceled ==
    /\ request = "canceled" /\ 1 \in Queued
    /\ EndSchedule /\ UNCHANGED <<now, dropped, request, suspended, byHand>>

Tick == now < MaxInstant /\ now' = now + 1 /\ UNCHANGED <<firing, dropped, markedOn, request, suspended, byHand>>

SavedNext ==
    \/ PrepareSavedWorkForClaims \/ InspectSavedWork \/ ClaimFiring
    \/ \E i \in Firings :
          \/ \E status \in {"done", "cancelled"} : FinishFiring(i, status)
          \/ RetryFiring(i) \/ StartFiring(i) \/ DropFiring(i) \/ CancelFiringInput(i)
          \/ \E at \in Instants : \E expires \in Expiries(at) : MoveFiring(i, at, expires)
    \/ Suspend \/ AnswerRequest \/ SettleRequest \/ CancelSchedule \/ ReconcileCanceled \/ Tick

SavedSpec == SavedInit /\ [][SavedNext]_savedVars

-----------------------------------------------------------------------------
(* An ended schedule stays ended, however it was ended and wherever its       *)
(* firings are: no later one is booked ("2026-11-06: a cancelled 15-minute    *)
(* schedule kept firing", saved-work.ts:391-396), and after a cancel no       *)
(* firing begins that had not begun before.                                   *)
ScheduleEnded == request = "canceled" \/ markedOn # NoFiring \/ Latest \in dropped

EndedStaysEnded ==
    [][/\ ScheduleEnded => ScheduleEnded' /\ Latest' = Latest
       /\ markedOn # NoFiring => \A i \in Firings : firing[i].begun = firing'[i].begun]_savedVars

(* A schedule that was not ended goes on whatever became of its latest        *)
(* firing, also if it was claimed before its successor was booked ("Repeating *)
(* schedules stopped after their first firing", docs/incidents/               *)
(* 2026-10-07-repeating-schedules-stopped-after-first-firing.md:8), and its   *)
(* firings do not pile up however long they are held: after a pass in a       *)
(* session that is not suspended its latest firing waits for an instant to    *)
(* come, and at most one other waits that has not begun.  Only a firing that  *)
(* is to be tried again may miss its expiry in the pass; the next pass then   *)
(* books after it.                                                            *)
OneFiringAhead ==
    [][PrepareSavedWorkForClaims /\ ~ScheduleEnded /\ ~suspended =>
           /\ \/ Latest' \in Queued' /\ firing'[Latest'].next > now
              \/ Latest \in Queued /\ firing[Latest].begun /\ firing'[Latest].status = "error"
           /\ Cardinality({i \in Queued' : i # Latest' /\ ~firing'[i].begun}) <= 1]_savedVars

(* "A schedule ended while this firing waited (a cancellation recorded on     *)
(* another path) withdraws it" (saved-work.ts:341): a firing of a schedule    *)
(* whose request is canceled does not begin.  The pass withdraws it when it   *)
(* is due, but the claim looks at the clock again after the pass.             *)
CanceledNeverBegins ==
    [][request = "canceled" => \A i \in Firings : firing'[i].begun = firing[i].begun]_savedVars

=============================================================================
