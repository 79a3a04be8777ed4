---------------------------- MODULE MCTurnLedger ----------------------------
(* Instances of TurnLedger for TLC.  Turn ids are numbers, so the functions  *)
(* over them are defined here and named in the .cfg files.                   *)
EXTENDS TurnLedger

CONSTANTS a, b       \* sessions

OneSession == [t \in Turns |-> a]
AllSlack == [t \in Turns |-> "slack_user"]
NativeSlackNative == [t \in Turns |-> IF t = 2 THEN "slack_user" ELSE "native"]
Equal == [t \in Turns |-> 0]
LastFirst == [t \in Turns |-> IF t = NTurns THEN 1 ELSE 0]

=============================================================================
