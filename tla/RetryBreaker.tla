---------------------------- MODULE RetryBreaker ----------------------------
(* One dependency's breaker (retry-breaker-core.ts) and the notices that tell *)
(* the owner of the machine about its outages (retry-breaker-notice.ts).  The *)
(* program is single threaded, but the row, the notice and the mark that the  *)
(* notice went out are three transactions: the process may die between them,  *)
(* and each of the two that publish may throw.                                *)
EXTENDS Naturals

CONSTANTS
    MaxOutages,         \* bound: outages of the dependency
    MaxCrashes          \* bound: deaths of the process

ASSUME BreakerAssumption == {MaxOutages, MaxCrashes} \subseteq Nat

Outages == 1..MaxOutages

VARIABLES
    breaker,            \* the row: the outage it counts (0 for no row), whether it tripped, notice_sent
    notice,             \* each outage's notice, known by the breaker's key and the first failure's instant
    step,               \* where in a call the process is
    outages, crashes,   \* bounds
    astray              \* history: outages whose notice a death or an error kept from its mark or its end

breakerVars == <<breaker, notice, step, outages, crashes, astray>>

NoRow == [outage |-> 0, tripped |-> FALSE, noticeSent |-> FALSE]

BreakerTypeOK ==
    /\ breaker \in [outage : 0..MaxOutages, tripped : BOOLEAN, noticeSent : BOOLEAN]
    /\ notice \in [Outages -> {"none", "open", "settled"}]
    /\ step \in {"rest", "publish", "mark", "resolve", "down"}
    /\ astray \subseteq Outages

BreakerInit ==
    /\ breaker = NoRow /\ notice = [o \in Outages |-> "none"] /\ step = "rest"
    /\ outages = 0 /\ crashes = 0 /\ astray = {}

-----------------------------------------------------------------------------
FirstFailure == breaker.outage = 0 /\ outages < MaxOutages

RecordRetryFailureAnew ==
    /\ step = "rest" /\ (FirstFailure \/ breaker.outage > 0)
    /\ \E trips \in BOOLEAN :
        /\ breaker' = [outage |-> IF breaker.outage = 0 THEN outages + 1 ELSE breaker.outage,
                       tripped |-> breaker.tripped \/ trips, noticeSent |-> FALSE]
        /\ step' = IF breaker'.tripped /\ ~breaker.noticeSent THEN "publish" ELSE "rest"
    /\ outages' = IF breaker.outage = 0 THEN outages + 1 ELSE outages
    /\ UNCHANGED <<notice, crashes, astray>>

\* A failure is counted; it trips the breaker once the site's budget is spent, and then for good.
RecordRetryFailure ==
    /\ step = "rest" /\ (FirstFailure \/ breaker.outage > 0)
    /\ \E trips \in BOOLEAN :
        /\ breaker' = [outage |-> IF breaker.outage = 0 THEN outages + 1 ELSE breaker.outage,
                       tripped |-> breaker.tripped \/ trips, noticeSent |-> breaker.noticeSent]
        /\ step' = IF breaker'.tripped /\ ~breaker.noticeSent THEN "publish" ELSE "rest"
    /\ outages' = IF breaker.outage = 0 THEN outages + 1 ELSE outages
    /\ UNCHANGED <<notice, crashes, astray>>

\* Recorded once under its key, so that a second publication finds it; only a first one is filed in a
\* thread, and it is not marked as sent when that throws.
PublishNotice ==
    /\ step = "publish"
    /\ \/ /\ notice' = [notice EXCEPT ![breaker.outage] = IF @ = "none" THEN "open" ELSE @]
          /\ step' = "mark" /\ UNCHANGED astray
       \/ /\ notice[breaker.outage] = "none"
          /\ notice' = [notice EXCEPT ![breaker.outage] = "open"]
          /\ step' = "rest" /\ astray' = astray \cup {breaker.outage}
       \/ UNCHANGED <<notice, astray>> /\ step' = "rest"
    /\ UNCHANGED <<breaker, outages, crashes>>

MarkNoticeSent ==
    /\ step = "mark"
    /\ breaker' = [breaker EXCEPT !.noticeSent = TRUE] /\ step' = "rest"
    /\ astray' = astray \ {breaker.outage}
    /\ UNCHANGED <<notice, outages, crashes>>

Open == {o \in Outages : notice[o] = "open"}

\* A success.  Only a breaker that announced itself looks for notices to settle.
ClearRetryBreaker ==
    /\ step = "rest" /\ breaker.outage > 0
    /\ breaker' = NoRow
    /\ step' = IF breaker.noticeSent THEN "resolve" ELSE "rest"
    /\ UNCHANGED <<notice, outages, crashes, astray>>

Settled(S) == [o \in Outages |-> IF o \in S THEN "settled" ELSE notice[o]]

\* Every notice of the key is settled on its own, so that one which cannot be is left alone.
ResolveRetryNotices ==
    /\ step = "resolve"
    /\ \E S \in SUBSET Open : notice' = Settled(S) /\ astray' = (astray \ S) \cup (Open \ S)
    /\ step' = "rest"
    /\ UNCHANGED <<breaker, outages, crashes>>

Crash ==
    /\ step # "down" /\ crashes < MaxCrashes
    /\ crashes' = crashes + 1 /\ step' = "down"
    /\ astray' = astray \cup CASE step = "resolve" -> Open [] step = "mark" -> {breaker.outage} [] OTHER -> {}
    /\ UNCHANGED <<breaker, notice, outages>>

\* At startup the notices of a key that has no breaker are settled.
Restart ==
    /\ step = "down" /\ step' = "rest"
    /\ IF breaker.outage > 0 THEN UNCHANGED <<notice, astray>>
       ELSE \E S \in SUBSET Open : notice' = Settled(S) /\ astray' = Open \ S
    /\ UNCHANGED <<breaker, outages, crashes>>

BreakerNext ==
    \/ RecordRetryFailure \/ PublishNotice \/ MarkNoticeSent
    \/ ClearRetryBreaker \/ ResolveRetryNotices \/ Crash \/ Restart

BreakerSpec == BreakerInit /\ [][BreakerNext]_breakerVars

-----------------------------------------------------------------------------
(* What the notices say is so: an open notice is about the outage that is     *)
(* still counted, unless a death or an error kept its end from it; then it    *)
(* is settled at the next start, or with the next announced outage.           *)
NoticeIsCurrent ==
    step = "rest" => \A o \in Open \ astray : breaker.outage = o /\ breaker.tripped

=============================================================================
