---------------------------- MODULE RunnerShipping ----------------------------
(* The journal of one turn's host on its way to the owner: the host, the      *)
(* copies of the runner daemon that follow it one after another (or, for a    *)
(* while, together), their syncs, and the ledger (RunnerLeases).  A copy is   *)
(* named by the epoch it holds.                                               *)
EXTENDS RunnerLeases, Sequences

CONSTANTS
    Turn, Only, Machine,        \* the turn job, its attempt, the runner
    Overlap,                    \* whether a copy starts while an older one still runs
    MaxFrames, MaxPickups

ASSUME ShippingAssumption ==
    /\ Jobs = {Turn} /\ Attempts = {Only} /\ Machine \in Runners /\ Turn \in Serves[Machine]
    /\ Turn \notin ReplaySafe /\ Overlap \in BOOLEAN
    /\ {"notStarted", "exitRecorded", "dead", "released"} \subseteq Results
    /\ MaxFrames \in Nat /\ MaxPickups \in Nat

VARIABLES
    host,       \* the host process, the length of its journal and whether that holds the exit
    copy,       \* copy[e]: the Turn object of the daemon that holds epoch e
    emitted,    \* emitted[e]: the events that Turn object has made, by their sequence
    held,       \* file attempts.json: the epoch in it, 0 when the turn is not in it
    wire        \* wire[e]: the owner's answer to a sync of e, on its way

shippingVars == <<now, job, attempt, events, command, host, copy, emitted, held, wire>>

ledgerVars == <<now, job, attempt, events, command>>

Epochs == 1 .. MaxEpoch

Silence == [answer |-> "none", cursor |-> 0]

ShippingInit ==
    /\ Init
    /\ host = [state |-> "none", journal |-> 0, exit |-> FALSE]
    /\ copy = [e \in Epochs |-> [state |-> "absent", hostSeq |-> 0, acked |-> 0, result |-> "none"]]
    /\ emitted = [e \in Epochs |-> <<>>]
    /\ held = 0
    /\ wire = [e \in Epochs |-> Silence]

Running(e) == copy[e].state \in {"reading", "following", "finishing", "calling"}

Answering == host.state \in {"running", "exited"}

\* The queue of a copy is what it made and the owner has not acknowledged to it.
Drained(e) == Len(emitted[e]) = copy[e].acked

-----------------------------------------------------------------------------
(* The host.                                                                 *)

HostWrites ==
    /\ Answering /\ host.journal < MaxFrames
    /\ \/ host' = [host EXCEPT !.journal = @ + 1]
       \/ /\ host.state = "running"
          /\ host' = [state |-> "exited", journal |-> host.journal + 1, exit |-> TRUE]
    /\ UNCHANGED <<ledgerVars, copy, emitted, held, wire>>

\* A crash of the host or a stop of its unit: a last frame, the exit among them, may or may not make
\* it into the record.
Stopped(h) ==
    {[h EXCEPT !.state = "gone"]} \cup
    {[state |-> "gone", journal |-> h.journal + 1, exit |-> x] :
        x \in {y \in BOOLEAN : h.journal < MaxFrames /\ (h.exit => y)}}

StopHost == host' \in IF Answering THEN Stopped(host) ELSE {host}

HostGoes ==
    /\ Answering /\ StopHost
    /\ UNCHANGED <<ledgerVars, copy, emitted, held, wire>>

-----------------------------------------------------------------------------
(* A copy of the daemon.                                                     *)

\* The claim; its answer may be lost, and then no copy knows of the attempt.
ClaimTurn ==
    /\ \E j \in Jobs : Oldest(Machine, j)
    /\ Claim(Machine)
    /\ \/ /\ held' = 1
          /\ \/ copy' = [copy EXCEPT ![1].state = "following"] /\ host' = [host EXCEPT !.state = "running"]
             \/ copy' = [copy EXCEPT ![1] = [@ EXCEPT !.state = "finishing", !.result = "notStarted"]] /\ UNCHANGED host
       \/ UNCHANGED <<copy, host, held>>
    /\ UNCHANGED <<emitted, wire>>

Emit(e, frame) == emitted' = [emitted EXCEPT ![e] = Append(@, frame)]

\* The attachment is reported before any frame, by a copy that has made no event yet.
Attach(e) ==
    /\ copy[e].state = "following" /\ Answering /\ emitted[e] = <<>>
    /\ Emit(e, [kind |-> "attached", h |-> 0])
    /\ UNCHANGED <<ledgerVars, host, copy, held, wire>>

Follow(e) ==
    /\ copy[e].state = "following" /\ Answering /\ emitted[e] # <<>>
    /\ copy[e].hostSeq < host.journal
    /\ copy' = [copy EXCEPT ![e].hostSeq = @ + 1]
    /\ Emit(e, [kind |-> "host", h |-> copy[e].hostSeq + 1])
    /\ UNCHANGED <<ledgerVars, host, held, wire>>

\* A transcript watch reports a message the provider took, at any time until the turn ends.
Pickup(e) ==
    /\ copy[e].state \in {"following", "finishing", "calling"} /\ emitted[e] # <<>>
    /\ Cardinality({n \in DOMAIN emitted[e] : emitted[e][n].kind = "pickup"}) < MaxPickups
    /\ Emit(e, [kind |-> "pickup", h |-> copy[e].hostSeq])
    /\ UNCHANGED <<ledgerVars, host, copy, held, wire>>

\* Bug: a host that went without recording an exit is waited for.
HostGoneWithExit(e) ==
    /\ copy[e].state = "following" /\ host.state = "gone" /\ host.exit
    /\ emitted' = [emitted EXCEPT ![e] = @ \o
           [i \in 1 .. host.journal - copy[e].hostSeq |->
               [kind |-> "host", h |-> copy[e].hostSeq + i]]]
    /\ copy' = [copy EXCEPT ![e] = [@ EXCEPT !.state = "finishing", !.result = "exitRecorded",
                                             !.hostSeq = host.journal]]
    /\ UNCHANGED <<ledgerVars, host, held, wire>>

\* The host is gone: ship what its record still has when that holds the exit, and finish.
HostGone(e) ==
    /\ copy[e].state = "following" /\ host.state = "gone"
    /\ \/ /\ host.exit
          /\ emitted' = [emitted EXCEPT ![e] = @ \o
                 [i \in 1 .. host.journal - copy[e].hostSeq |->
                     [kind |-> "host", h |-> copy[e].hostSeq + i]]]
          /\ copy' = [copy EXCEPT ![e] = [@ EXCEPT !.state = "finishing", !.result = "exitRecorded",
                                                   !.hostSeq = host.journal]]
       \/ /\ ~host.exit
          /\ copy' = [copy EXCEPT ![e] = [@ EXCEPT !.state = "finishing", !.result = "dead"]]
          /\ UNCHANGED emitted
    /\ UNCHANGED <<ledgerVars, host, held, wire>>

\* The owner has settled the turn and releases the host, which refuses before its provider's exit.
Release(e) ==
    /\ copy[e].state = "following" /\ host.state = "exited"
    /\ StopHost
    /\ copy' = [copy EXCEPT ![e] = [@ EXCEPT !.state = "finishing", !.result = "released"]]
    /\ UNCHANGED <<ledgerVars, emitted, held, wire>>

OwnerSyncs(e) ==
    /\ copy[e].state \in {"following", "finishing", "calling"} /\ wire[e] = Silence
    /\ \E last \in copy[e].acked .. Len(emitted[e]) :
          /\ last = copy[e].acked => Drained(e)
          /\ Sync(Machine, Only, e, copy[e].acked + 1 .. last)
    /\ wire' = [wire EXCEPT ![e] = IF Holding(Machine, Only, e)
                                  THEN [answer |-> "ok", cursor |-> attempt'[Only].acked]
                                  ELSE [answer |-> "refused", cursor |-> 0]]
    /\ UNCHANGED <<host, copy, emitted, held>>

\* Custody is lost: the host is stopped unless a newer copy holds the turn.
Lose(e) ==
    /\ copy' = [copy EXCEPT ![e].state = "ended"]
    /\ held' = 0
    /\ IF held <= e THEN StopHost ELSE UNCHANGED host

SyncAnswered(e) ==
    /\ wire[e] # Silence
    /\ wire' = [wire EXCEPT ![e] = Silence]
    /\ \/ /\ wire[e].answer = "ok"
          /\ copy' = [copy EXCEPT ![e].acked = wire[e].cursor]
          /\ UNCHANGED <<host, held>>
       \/ wire[e].answer = "refused" /\ Lose(e)
    /\ UNCHANGED <<ledgerVars, emitted>>

AnswerLost(e) ==
    /\ wire[e] # Silence
    /\ wire' = [wire EXCEPT ![e] = Silence]
    /\ UNCHANGED <<ledgerVars, host, copy, emitted, held>>

\* Bug: the finish does not wait for the queue.
FinishStartsAtOnce(e) ==
    /\ copy[e].state = "finishing"
    /\ copy' = [copy EXCEPT ![e].state = "calling"]
    /\ UNCHANGED <<ledgerVars, host, emitted, held, wire>>

\* Every event is acknowledged before the finish is sent.
FinishStarts(e) ==
    /\ copy[e].state = "finishing" /\ Drained(e)
    /\ copy' = [copy EXCEPT ![e].state = "calling"]
    /\ UNCHANGED <<ledgerVars, host, emitted, held, wire>>

Forget(e) ==
    /\ copy' = [copy EXCEPT ![e].state = "ended"]
    /\ wire' = [wire EXCEPT ![e] = Silence]
    /\ held' = 0

\* The finish, whose answer may be lost; a repeated or refused one ends the copy as well.
FinishCalls(e) ==
    /\ copy[e].state = "calling"
    /\ \/ /\ Finish(Machine, Only, e, copy[e].result)
          /\ Forget(e) \/ UNCHANGED <<copy, held, wire>>
       \/ /\ ~Holding(Machine, Only, e)
          /\ Forget(e)
          /\ UNCHANGED ledgerVars
    /\ UNCHANGED <<host, emitted>>

-----------------------------------------------------------------------------
(* The daemon process stops, and starts again with what its file names.      *)

\* The last copy of the bound does not stop.
Crash(e) ==
    /\ Running(e) /\ attempt[Only].epoch < MaxEpoch
    /\ copy' = [copy EXCEPT ![e].state = "ended"]
    /\ wire' = [wire EXCEPT ![e] = Silence]
    /\ UNCHANGED <<ledgerVars, host, emitted, held>>

Restart ==
    /\ held # 0
    /\ Overlap \/ ~\E e \in Epochs : Running(e)
    /\ attempt[Only].epoch < MaxEpoch
    /\ Reacquire(Machine, {Only})
    /\ \/ /\ Live(Only)
          /\ held' = attempt[Only].epoch + 1
          /\ copy' = [copy EXCEPT ![held'] = [@ EXCEPT !.state = "reading", !.acked = attempt[Only].acked]]
          /\ UNCHANGED host
       \/ /\ ~Live(Only)
          /\ StopHost
          /\ held' = 0
          /\ UNCHANGED copy
       \/ /\ attempt[Only].epoch + 1 < MaxEpoch         \* the answer is lost
          /\ UNCHANGED <<copy, host, held>>
    /\ UNCHANGED <<emitted, wire>>

\* What the owner stored at a sequence.
StoredFrame(n) == LET x == CHOOSE x \in events[Only] : x[1] = n IN emitted[x[2]][n]

\* Bug: the journal resumes after as many frames as there are stored events.
ReadByCursor(e) ==
    /\ copy[e].state = "reading"
    /\ emitted' = [emitted EXCEPT ![e] = [n \in 1 .. copy[e].acked |-> StoredFrame(n)]]
    /\ copy' = [copy EXCEPT ![e] = [@ EXCEPT !.state = "following", !.hostSeq = copy[e].acked]]
    /\ UNCHANGED <<ledgerVars, host, held, wire>>

\* The last stored event names the host sequence it covered; the journal resumes after it.
Read(e) ==
    /\ copy[e].state = "reading"
    /\ emitted' = [emitted EXCEPT ![e] = [n \in 1 .. copy[e].acked |-> StoredFrame(n)]]
    /\ copy' = [copy EXCEPT ![e] = [@ EXCEPT !.state = "following",
                                             !.hostSeq = IF attempt[Only].acked = 0 THEN 0
                                                         ELSE StoredFrame(attempt[Only].acked).h]]
    /\ UNCHANGED <<ledgerVars, host, held, wire>>

-----------------------------------------------------------------------------
OwnerAlone ==
    /\ \/ Enqueue(Turn) \/ Withdraw(Turn) \/ ExtendLiveLeases \/ Tick
       \/ ~(\E j \in Jobs : Oldest(Machine, j)) /\ Claim(Machine)
    /\ UNCHANGED <<host, copy, emitted, held, wire>>

ShippingNext ==
    \/ OwnerAlone \/ HostWrites \/ HostGoes \/ ClaimTurn \/ Restart
    \/ \E e \in Epochs :
          \/ Attach(e) \/ Follow(e) \/ Pickup(e) \/ HostGone(e) \/ Release(e)
          \/ OwnerSyncs(e) \/ SyncAnswered(e) \/ AnswerLost(e)
          \/ FinishStarts(e) \/ FinishCalls(e) \/ Crash(e) \/ Read(e)

ShippingSpec == ShippingInit /\ [][ShippingNext]_shippingVars

\* The daemon's loops and timers run, a sync is answered in the end, and the supervisor starts the
\* daemon again.  Nothing else is promised.
Fairness ==
    /\ WF_shippingVars(Restart)
    /\ \A e \in Epochs :
          /\ WF_shippingVars(Read(e)) /\ WF_shippingVars(Attach(e)) /\ WF_shippingVars(Follow(e))
          /\ WF_shippingVars(HostGone(e)) /\ WF_shippingVars(OwnerSyncs(e))
          /\ SF_shippingVars(SyncAnswered(e))
          /\ WF_shippingVars(FinishStarts(e)) /\ WF_shippingVars(FinishCalls(e))

FairShippingSpec == ShippingSpec /\ Fairness

-----------------------------------------------------------------------------
(* Properties.                                                               *)

Shipped(n) == {k \in 1 .. n : StoredFrame(k).kind = "host"}

\* The stored events hold the host's journal without a gap or a repetition, whichever copies sent
\* them, and each names how much of it they have so far: what a restarted daemon resumes from.
ShippedInOrder ==
    /\ EventsInOrder
    /\ \A n \in 1 .. attempt[Only].acked : StoredFrame(n).h = Cardinality(Shipped(n))

\* A turn reported with its provider's exit has its whole journal at the owner.
EndedIsComplete ==
    job[Turn].result = "exitRecorded" =>
        host.exit /\ Cardinality(Shipped(attempt[Only].acked)) = host.journal

\* The turn of a host that is gone is reported to the owner in the end, through restarts of the daemon
\* and lost answers, as long as one daemon runs at a time and its lease holds.
GoneHostIsReported ==
    host.state = "gone" /\ held # 0 ~> View(Turn) \in {"finished", "unconfirmed"}

\* A newer copy keeps the turn: the file still names it, so it is found after another restart.
NewerCopyKeepsTurn ==
    \A e \in Epochs : Running(e) /\ Holding(Machine, Only, e) => held = e

=============================================================================
