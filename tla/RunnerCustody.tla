---------------------------- MODULE RunnerCustody ----------------------------
(* What the runner ledger promises whoever queued a job: it is with one       *)
(* attempt at a time, an attempt that lost it never has it again, and only a  *)
(* replay safe job is offered a second time.                                  *)
CONSTANTS Jobs, Attempts, ReplaySafe

VARIABLES
    phase,      \* phase[j]: how far job j is, as its coordinator reads it
    holders,    \* holders[j]: the attempts that may act for j now
    tried       \* tried[j]: the attempts that ever held j

vars == <<phase, holders, tried>>

Init ==
    /\ phase = [j \in Jobs |-> "absent"]
    /\ holders = [j \in Jobs |-> {}]
    /\ tried = [j \in Jobs |-> {}]

Offer(j) ==
    /\ phase[j] = "absent"
    /\ phase' = [phase EXCEPT ![j] = "queued"]
    /\ UNCHANGED <<holders, tried>>

Take(j, a) ==
    /\ phase[j] = "queued"
    /\ \A k \in Jobs : a \notin tried[k]
    /\ phase' = [phase EXCEPT ![j] = "leased"]
    /\ holders' = [holders EXCEPT ![j] = {a}]
    /\ tried' = [tried EXCEPT ![j] = @ \cup {a}]

\* Its holder ends it, or the coordinator does while nobody holds it.
Close(j) ==
    /\ phase[j] \in {"queued", "leased"}
    /\ phase' = [phase EXCEPT ![j] = "finished"]
    /\ holders' = [holders EXCEPT ![j] = {}]
    /\ UNCHANGED tried

\* The leases of some jobs pass at one instant.
Lose(S) ==
    /\ \A j \in S : phase[j] = "leased"
    /\ phase' = [j \in Jobs |-> IF j \notin S THEN phase[j]
                                ELSE IF j \in ReplaySafe THEN "queued" ELSE "unconfirmed"]
    /\ holders' = [j \in Jobs |-> IF j \in S THEN {} ELSE holders[j]]
    /\ UNCHANGED tried

Next ==
    \/ \E j \in Jobs : Offer(j) \/ Close(j)
    \/ \E j \in Jobs, a \in Attempts : Take(j, a)
    \/ \E S \in SUBSET Jobs : Lose(S)

Spec == Init /\ [][Next]_vars

=============================================================================
