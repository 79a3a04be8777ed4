--------------------------- MODULE MCRunnerLeases ---------------------------
(* A turn and a replay safe job on two runners; one of them serves both.     *)
EXTENDS RunnerLeases, TLC

CONSTANTS Turn, Build, Fast, Slow

MCServes == Fast :> {Turn, Build} @@ Slow :> {Build}

Both == {Turn, Build}

AnyAttempt == Permutations(Attempts)

ForTurn == [c \in Commands |-> Turn]

=============================================================================
