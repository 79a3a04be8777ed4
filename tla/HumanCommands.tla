---------------------------- MODULE HumanCommands ----------------------------
(* What a person does in a browser, from the ingress that retains it to the   *)
(* owner that carries it out: the rows (human-command-state.ts), the worker   *)
(* in the coordinator that claims one at a time, delivers it and settles it   *)
(* (human-command-worker.ts), and requests between them that may be lost or   *)
(* arrive after their sender gave up.  One stream of one client: a command's  *)
(* number is its place in the stream.                                         *)
EXTENDS Naturals, FiniteSets

CONSTANTS
    Commands,           \* the stream: 1..n
    CommandStreams,     \* streams to look at: the kind of each command, input, creation, stop or cancel
    CancelTarget,       \* the command a cancel names
    MaxCommandClaims,   \* bound: claims the workers name
    MaxWorkers          \* bound: coordinator processes, one after the other

ASSUME CommandAssumption ==
    /\ IsFiniteSet(Commands) /\ Commands \subseteq Nat \ {0} /\ {MaxCommandClaims, MaxWorkers} \subseteq Nat
    /\ CommandStreams \subseteq [Commands -> {"input", "creation", "stop", "cancel"}]
    /\ CancelTarget \in [Commands -> Commands]

VARIABLES
    commandKind,        \* the stream; it never changes
    commandRow,         \* a row: status, holder (claim and worker), whether its preparation is kept, whether it is held back
    nextSequence,       \* the stream's head
    missingSlots,       \* places declared missing, so that later ones could go on
    lateReleases,       \* commands that came to such a place and were let through by a decision
    commandWorker,      \* the worker of the living process
    commandRequests,    \* requests to the ingress that have not arrived
    deliveries,         \* requests to the owner that have not arrived
    ownerDecision,      \* what the owner retained of a command: accepted, or canceled before it came
    turnedDown,         \* history: commands the owner has refused; it keeps no refusal itself
    applied,            \* history: commands the owner has carried out
    commandClaims       \* bound

commandVars == <<commandKind, commandRow, nextSequence, missingSlots, lateReleases, commandWorker, commandRequests, deliveries,
                 ownerDecision, turnedDown, applied, commandClaims>>

Unclaimed == [claim |-> 0, worker |-> 0]
Terminal == {"delivered", "refused", "canceled"}

CommandTypeOK ==
    /\ commandRow \in [Commands -> [status : {"absent", "pending", "delivering"} \cup Terminal,
                                    holder : [claim : Nat, worker : Nat], prepared : BOOLEAN, heldAfterGap : BOOLEAN]]
    /\ nextSequence \in Nat /\ missingSlots \subseteq Commands /\ lateReleases \subseteq Commands
    /\ commandWorker \in [id : Nat, phase : {"down", "idle", "asking", "prepare", "preparing", "prepared", "delivering",
                                              "settling"},
                          claim : Nat, command : SUBSET Commands]
    /\ ownerDecision \in [Commands -> {"none", "accepted", "canceled"}]
    /\ turnedDown \subseteq Commands /\ applied \subseteq Commands

CommandInit ==
    /\ commandKind \in CommandStreams
    /\ commandRow = [c \in Commands |-> [status |-> "absent", holder |-> Unclaimed, prepared |-> FALSE,
                                        heldAfterGap |-> FALSE]]
    /\ nextSequence = 1 /\ missingSlots = {} /\ lateReleases = {}
    /\ commandWorker = [id |-> 1, phase |-> "idle", claim |-> 0, command |-> {}]
    /\ commandRequests = {} /\ deliveries = {}
    /\ ownerDecision = [c \in Commands |-> "none"] /\ turnedDown = {} /\ applied = {} /\ commandClaims = 0

-----------------------------------------------------------------------------
Overtakes(c) == commandKind[c] \in {"stop", "cancel"}

\* advanceStream: the head passes what is settled and what was declared missing.
PassableOnceTaken(row, missing, c) ==
    row[c].status \in Terminal \cup {"delivering"} \/ (row[c].status = "absent" /\ c \in missing)

Passable(row, missing, c) == row[c].status \in Terminal \/ (row[c].status = "absent" /\ c \in missing)

Advanced(row, missing) ==
    CHOOSE n \in {nextSequence} \cup {c + 1 : c \in Commands} :
        /\ nextSequence <= n
        /\ \A c \in nextSequence..(n - 1) : c \in Commands /\ Passable(row, missing, c)
        /\ n \in Commands => ~Passable(row, missing, n)

\* A cancel that finds its target still waiting freezes it in the transaction that retains the cancel.
RetainHumanCommand(c) ==
    /\ commandRow[c].status = "absent"
    /\ LET target == CancelTarget[c]
           freezes == commandKind[c] = "cancel" /\ c \notin missingSlots /\ commandRow[target].status = "pending"
       IN  commandRow' = [d \in Commands |->
               IF d = c THEN [commandRow[c] EXCEPT !.status = "pending", !.heldAfterGap = c \in missingSlots]
               ELSE IF freezes /\ d = target THEN [commandRow[d] EXCEPT !.status = "canceled"]
               ELSE commandRow[d]]
    /\ nextSequence' = Advanced(commandRow', missingSlots)
    /\ UNCHANGED <<missingSlots, lateReleases, commandWorker, commandRequests, deliveries, ownerDecision,
                   turnedDown, applied, commandClaims>>

\* Refused for its route or its size before its body arrived: it only takes its place.
RetainPreCustodyRefusal(c) ==
    /\ commandRow[c].status = "absent"
    /\ commandRow' = [commandRow EXCEPT ![c].status = "refused"]
    /\ nextSequence' = Advanced(commandRow', missingSlots)
    /\ UNCHANGED <<missingSlots, lateReleases, commandWorker, commandRequests, deliveries, ownerDecision,
                   turnedDown, applied, commandClaims>>

\* An audited decision that a place will not be filled, while something waits behind it.
ReleaseMissingSlot(c) ==
    /\ nextSequence = c /\ commandRow[c].status = "absent"
    /\ \E d \in Commands : d > c /\ commandRow[d].status = "pending" /\ ~commandRow[d].heldAfterGap /\ ~Overtakes(d)
    /\ missingSlots' = missingSlots \cup {c}
    /\ nextSequence' = Advanced(commandRow, missingSlots')
    /\ UNCHANGED <<commandRow, lateReleases, commandWorker, commandRequests, deliveries, ownerDecision, turnedDown,
                   applied, commandClaims>>

ReleaseHeldLate(c) ==
    /\ commandRow[c].status = "pending" /\ commandRow[c].heldAfterGap
    /\ commandRow' = [commandRow EXCEPT ![c].heldAfterGap = FALSE]
    /\ lateReleases' = lateReleases \cup {c}
    /\ UNCHANGED <<nextSequence, missingSlots, commandWorker, commandRequests, deliveries, ownerDecision,
                   turnedDown, applied, commandClaims>>

WithdrawPendingCreation(c) ==
    /\ commandKind[c] = "creation" /\ commandRow[c].status = "pending"
    /\ commandRow' = [commandRow EXCEPT ![c].status = "canceled"]
    /\ nextSequence' = Advanced(commandRow', missingSlots)
    /\ UNCHANGED <<missingSlots, lateReleases, commandWorker, commandRequests, deliveries, ownerDecision,
                   turnedDown, applied, commandClaims>>

-----------------------------------------------------------------------------
WorkerAlive(worker) == worker = commandWorker.id /\ commandWorker.phase # "down"

\* What a claim by a worker puts back first: its own earlier claims, and those of processes that are gone.
RecoveredCommands(worker) ==
    [c \in Commands |->
        IF commandRow[c].status = "delivering" /\ (commandRow[c].holder.worker = worker \/ ~WorkerAlive(commandRow[c].holder.worker))
        THEN [commandRow[c] EXCEPT !.status = "pending", !.holder = Unclaimed] ELSE commandRow[c]]

ClaimableCommands(row) ==
    {c \in Commands : /\ row[c].status = "pending" /\ ~row[c].heldAfterGap
                      /\ c \in missingSlots => c \in lateReleases
                      /\ Overtakes(c) \/ c = nextSequence \/ c \in lateReleases}

\* Stop and cancel go before everything else.
Foremost(S) == {c \in S : Overtakes(c) \/ ~(\E d \in S : Overtakes(d))}

ServeCommandClaim(request) ==
    /\ request.kind = "claim"
    /\ commandRequests' = commandRequests \ {request}
    /\ LET row == RecoveredCommands(request.worker)
           waits == commandWorker.phase = "asking" /\ commandWorker.claim = request.claim
           first == Foremost(ClaimableCommands(row))
       IN  IF first = {} THEN /\ commandRow' = row
                              /\ commandWorker' = IF waits THEN [commandWorker EXCEPT !.phase = "idle"] ELSE commandWorker
           ELSE \E c \in first :
                /\ commandRow' = [row EXCEPT ![c] = [@ EXCEPT !.status = "delivering",
                                                              !.holder = [claim |-> request.claim, worker |-> request.worker]]]
                /\ commandWorker' \in IF waits THEN {commandWorker, 
                                          [commandWorker EXCEPT !.phase = IF row[c].prepared THEN "prepared" ELSE "prepare",
                                                                !.command = {c}]}
                                      ELSE {commandWorker}
    /\ UNCHANGED <<nextSequence, missingSlots, lateReleases, deliveries, ownerDecision, turnedDown, applied,
                   commandClaims>>

HeldByAny(request) == commandRow[request.command].status = "delivering"

HeldBy(request) == commandRow[request.command].status = "delivering" /\ commandRow[request.command].holder.claim = request.claim

KeepPreparation(request) ==
    /\ request.kind = "prepare"
    /\ commandRequests' = commandRequests \ {request}
    /\ commandRow' = IF HeldBy(request) THEN [commandRow EXCEPT ![request.command].prepared = TRUE] ELSE commandRow
    /\ commandWorker' \in IF HeldBy(request) /\ commandWorker.phase = "preparing" /\ commandWorker.claim = request.claim
                          THEN {commandWorker, [commandWorker EXCEPT !.phase = "prepared"]} ELSE {commandWorker}
    /\ UNCHANGED <<nextSequence, missingSlots, lateReleases, deliveries, ownerDecision, turnedDown, applied,
                   commandClaims>>

\* settle and retry act for the claim that holds the command and for no other.
ServeVerdictOn(request) ==
    /\ request.kind \in {"delivered", "refused", "retry"}
    /\ commandRequests' = commandRequests \ {request}
    /\ LET c == request.command
       IN  IF ~HeldBy(request) THEN UNCHANGED <<commandRow, nextSequence>>
           ELSE /\ commandRow' = [commandRow EXCEPT ![c] = [@ EXCEPT !.status = IF request.kind = "retry" THEN "pending"
                                                                                ELSE request.kind,
                                                                     !.holder = Unclaimed]]
                /\ nextSequence' = Advanced(commandRow', missingSlots)
    /\ commandWorker' \in IF commandWorker.phase = "settling" /\ commandWorker.claim = request.claim
                          THEN {commandWorker, [commandWorker EXCEPT !.phase = "idle", !.command = {}]}
                          ELSE {commandWorker}
    /\ UNCHANGED <<missingSlots, lateReleases, deliveries, ownerDecision, turnedDown, applied, commandClaims>>

-----------------------------------------------------------------------------
AskForCommand ==
    /\ commandWorker.phase = "idle" /\ commandClaims < MaxCommandClaims
    /\ commandClaims' = commandClaims + 1
    /\ commandWorker' = [commandWorker EXCEPT !.phase = "asking", !.claim = commandClaims', !.command = {}]
    /\ commandRequests' = commandRequests \cup {[kind |-> "claim", claim |-> commandClaims', worker |-> commandWorker.id]}
    /\ UNCHANGED <<commandRow, nextSequence, missingSlots, lateReleases, deliveries, ownerDecision, turnedDown,
                   applied>>

Verdict(c, kind) == [kind |-> kind, claim |-> commandWorker.claim, command |-> c]

Conclude(c, kind) ==
    /\ commandRequests' = commandRequests \cup {Verdict(c, kind)}
    /\ commandWorker' = [commandWorker EXCEPT !.phase = "settling"]

\* Preparation refuses, is unavailable, or its result is sent to be kept with the row.
PrepareCommand(c) ==
    /\ commandWorker.phase = "prepare" /\ c \in commandWorker.command
    /\ \/ \E kind \in {"refused", "retry"} : Conclude(c, kind)
       \/ /\ commandRequests' = commandRequests \cup {Verdict(c, "prepare")}
          /\ commandWorker' = [commandWorker EXCEPT !.phase = "preparing"]
    /\ UNCHANGED <<commandRow, nextSequence, missingSlots, lateReleases, deliveries, ownerDecision, turnedDown,
                   applied, commandClaims>>

DeliverCommand(c) ==
    /\ commandWorker.phase = "prepared" /\ c \in commandWorker.command
    /\ deliveries' = deliveries \cup {[command |-> c, claim |-> commandWorker.claim]}
    /\ commandWorker' = [commandWorker EXCEPT !.phase = "delivering"]
    /\ UNCHANGED <<commandRow, nextSequence, missingSlots, lateReleases, commandRequests, ownerDecision,
                   turnedDown, applied, commandClaims>>

\* No answer, or one that proves nothing.
Uncertain(c) ==
    /\ commandWorker.phase \in {"preparing", "delivering"} /\ c \in commandWorker.command
    /\ Conclude(c, "retry")
    /\ UNCHANGED <<commandRow, nextSequence, missingSlots, lateReleases, deliveries, ownerDecision, turnedDown,
                   applied, commandClaims>>

\* A request to the ingress that fails ends the round.
RoundFails ==
    /\ commandWorker.phase \in {"asking", "settling"}
    /\ commandWorker' = [commandWorker EXCEPT !.phase = "idle", !.command = {}]
    /\ UNCHANGED <<commandRow, nextSequence, missingSlots, lateReleases, commandRequests, deliveries,
                   ownerDecision, turnedDown, applied, commandClaims>>

WorkerDies ==
    /\ commandWorker.phase # "down"
    /\ commandWorker' = [commandWorker EXCEPT !.phase = "down", !.command = {}]
    /\ UNCHANGED <<commandRow, nextSequence, missingSlots, lateReleases, commandRequests, deliveries,
                   ownerDecision, turnedDown, applied, commandClaims>>

WorkerStarts ==
    /\ commandWorker.phase = "down" /\ commandWorker.id < MaxWorkers
    /\ commandWorker' = [commandWorker EXCEPT !.id = @ + 1, !.phase = "idle"]
    /\ UNCHANGED <<commandRow, nextSequence, missingSlots, lateReleases, commandRequests, deliveries,
                   ownerDecision, turnedDown, applied, commandClaims>>

(* The owner (session-owner.ts).  It retains what it accepts, and decides     *)
(* anew about everything else, a command that it refused before included.     *)
Cancels(c, t) == commandKind[c] = "cancel" /\ t = CancelTarget[c]

\* A cancel stops an input that has not begun, or one that has yet to come; never a stop, a cancel or itself.
MayAccept(c) ==
    /\ ownerDecision[c] = "none"
    /\ \A t \in Commands : Cancels(c, t) => t # c /\ (ownerDecision[t] = "accepted" => ~Overtakes(t))

Accepts(c) ==
    /\ MayAccept(c)
    /\ ownerDecision' = [d \in Commands |-> IF d = c THEN "accepted"
                                            ELSE IF Cancels(c, d) /\ ownerDecision[d] = "none" THEN "canceled"
                                            ELSE ownerDecision[d]]
    /\ applied' = applied \cup {c} /\ UNCHANGED turnedDown

\* What is retained is answered as before; an input canceled before it came is retained as canceled.
Repeats(c) ==
    /\ ownerDecision[c] = "accepted" \/ (ownerDecision[c] = "canceled" /\ commandKind[c] = "input")
    /\ UNCHANGED <<ownerDecision, turnedDown, applied>>

\* What is checked before the retained row is looked up may refuse even that; stops and cancels are looked up first.
Refuses(c) ==
    /\ ownerDecision[c] = "accepted" => ~Overtakes(c)
    /\ turnedDown' = turnedDown \cup {c} /\ UNCHANGED <<ownerDecision, applied>>

OwnerTakes(delivery) ==
    /\ deliveries' = deliveries \ {delivery}
    /\ \E told \in {"delivered", "refused"} :
          /\ IF told = "delivered" THEN Accepts(delivery.command) \/ Repeats(delivery.command)
             ELSE Refuses(delivery.command)
          /\ \/ /\ commandWorker.phase = "delivering" /\ commandWorker.claim = delivery.claim
                /\ Conclude(delivery.command, told)
             \/ UNCHANGED <<commandWorker, commandRequests>>
    /\ UNCHANGED <<commandRow, nextSequence, missingSlots, lateReleases, commandClaims>>

CommandNext ==
    /\ UNCHANGED commandKind
    /\ \/ \E c \in Commands :
           \/ RetainHumanCommand(c) \/ RetainPreCustodyRefusal(c) \/ ReleaseMissingSlot(c) \/ ReleaseHeldLate(c)
           \/ WithdrawPendingCreation(c) \/ PrepareCommand(c) \/ DeliverCommand(c) \/ Uncertain(c)
       \/ \E request \in commandRequests : ServeCommandClaim(request) \/ KeepPreparation(request) \/ ServeVerdictOn(request)
       \/ \E delivery \in deliveries : OwnerTakes(delivery)
       \/ AskForCommand \/ RoundFails \/ WorkerDies \/ WorkerStarts

CommandSpec == CommandInit /\ [][CommandNext]_commandVars

-----------------------------------------------------------------------------
(* What a person did in one order happens in that order, however requests are *)
(* repeated and delayed: the owner carries out an ordinary command after a    *)
(* later one only if it was let through late, or its sender was told it was   *)
(* canceled or refused and a delivery that nobody waits for came after that.  *)
CarriedOutInOrder ==
    [][\A c \in applied' \ applied : \A d \in applied :
          ~Overtakes(c) /\ ~Overtakes(d) /\ c < d =>
             c \in lateReleases \/ commandRow[c].status \in {"canceled", "refused"}]_commandVars

(* What the person is told is what the owner did.  A command shown delivered  *)
(* was accepted, or its own cancel had come before it; one shown refused was  *)
(* not accepted, unless the owner answered two deliveries of it differently.  *)
ToldTheOutcome ==
    \A c \in Commands :
        /\ commandRow[c].status = "delivered" => ownerDecision[c] \in {"accepted", "canceled"}
        /\ commandRow[c].status = "refused" => ownerDecision[c] # "accepted" \/ c \in turnedDown

(* "A session creation still held only by ingress can be withdrawn with no    *)
(* invented owner effect" (human-command-state.ts:508): a creation shown as   *)
(* canceled has not been made.                                                *)
WithdrawnWasNotMade ==
    \A c \in Commands : commandKind[c] = "creation" /\ commandRow[c].status = "canceled" => c \notin applied

=============================================================================
