---------------------------- MODULE ProgressParts ----------------------------
(* Two parts that must get on: the coordinator's claim pump and the shipping  *)
(* of a turn's journal from its runner.  They share no state, so each is      *)
(* looked at alone: "moving" is the one that moves, and the other rests where *)
(* it began.                                                                  *)
EXTENDS RunnerShipping, SessionTurnQueue

VARIABLE moving

progressVars == <<moving, shippingVars, queueVars>>

Pump(Action) == moving = "pump" /\ Action /\ UNCHANGED <<moving, shippingVars>>
Journal(Action) == moving = "journal" /\ Action /\ UNCHANGED <<moving, queueVars>>

ProgressInit == moving \in {"pump", "journal"} /\ ShippingInit /\ TurnQueueInit

ProgressNext == Pump(TurnQueueNext) \/ Journal(ShippingNext)

(* The event loop takes every callback that is ready, however many others     *)
(* come: strong fairness, for a callback waits while a slice is on the stack. *)
PumpRuns ==
    /\ WF_progressVars(Pump(Slice))
    /\ SF_progressVars(Pump(~pump.onStack /\ Continue))
    /\ WF_progressVars(Pump(~pump.onStack /\ Periodic))
    /\ \A t \in Turns : SF_progressVars(Pump(~pump.onStack /\ Unwind(t)))

(* The daemon's loops and timers run, a sync is answered in the end, and the  *)
(* supervisor starts the daemon again.  Nothing else is promised.             *)
JournalIsShipped ==
    /\ WF_progressVars(Journal(Restart))
    /\ \A e \in Epochs :
          /\ WF_progressVars(Journal(Read(e))) /\ WF_progressVars(Journal(Attach(e)))
          /\ WF_progressVars(Journal(Follow(e))) /\ WF_progressVars(Journal(HostGone(e)))
          /\ WF_progressVars(Journal(OwnerSyncs(e))) /\ SF_progressVars(Journal(SyncAnswered(e)))
          /\ WF_progressVars(Journal(FinishStarts(e))) /\ WF_progressVars(Journal(FinishCalls(e)))

ProgressSpec == ProgressInit /\ [][ProgressNext]_progressVars /\ PumpRuns /\ JournalIsShipped

=============================================================================
