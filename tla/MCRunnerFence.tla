---------------------------- MODULE MCRunnerFence ----------------------------
(* One turn on one runner.                                                   *)
EXTENDS RunnerFence, TLC

ServesTurn == Machine :> {Turn}

NoCommands == [c \in Commands |-> Turn]

=============================================================================
