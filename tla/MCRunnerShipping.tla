-------------------------- MODULE MCRunnerShipping --------------------------
(* One turn on one runner.                                                   *)
EXTENDS RunnerShipping, TLC

ServesTurn == Machine :> {Turn}

NoCommands == [c \in Commands |-> Turn]

Outcomes == {"notStarted", "exitRecorded", "dead", "released"}

=============================================================================
