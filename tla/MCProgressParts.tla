--------------------------- MODULE MCProgressParts ---------------------------
(* One turn on one runner, and a queue of two turns.                         *)
EXTENDS ProgressParts, TLC

ServesTurn == Machine :> {Turn}

NoCommands == [c \in Commands |-> Turn]

Outcomes == {"notStarted", "exitRecorded", "dead", "released"}

=============================================================================
