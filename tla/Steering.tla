------------------------------ MODULE Steering ------------------------------
(* Messages handed to a run that is already working: one session, its inputs, *)
(* the run's steering controller in the coordinator (steering.ts), the rows   *)
(* that say how far each hand-off came (session-inputs.ts, state.ts), and the *)
(* host that writes to the agent and keeps the record a restarted coordinator *)
(* judges by (session-execution-host.ts).  Callbacks of native inputs are     *)
(* synchronous, so a settlement and the write of its row are one step.        *)
EXTENDS Naturals, Sequences, SequencesExt

CONSTANTS
    Inputs,
    MaxHandOffs,        \* bound: attempts to hand an input to a run
    MaxDeaths           \* bound: deaths of the coordinator

ASSUME SteeringAssumption == {MaxHandOffs, MaxDeaths} \subseteq Nat

VARIABLES
    place,              \* where an input stands: new, queued for a turn, attached to the run, or a turn's own
    message,            \* the row of its latest hand-off
    control,            \* the run's controller
    submitted,          \* writes on their way to the host
    journal,            \* the host's record of each write in the present run
    stdin,              \* written and not picked up
    agent,              \* the run: none, running, or ended with its outcome still to settle
    received,           \* history: how often the agent was given an input
    acknowledged,       \* history: inputs whose acknowledgement reached the coordinator
    raced,              \* history: inputs judged unsent while their write was on its way to the host
    handOffs, deaths    \* bounds

coordinatorVars == <<place, message, control>>
hostVars == <<submitted, journal, stdin, agent>>
steeringVars == <<coordinatorVars, hostVars, received, acknowledged, raced, handOffs, deaths>>

Empty == [up |-> TRUE, open |-> TRUE, ready |-> FALSE, waiting |-> <<>>, current |-> {}, phase |-> "idle"]

SteeringTypeOK ==
    /\ place \in [Inputs -> {"new", "queued", "attached", "turn"}]
    /\ message \in [Inputs -> {"none", "queued", "sending", "sent", "failed", "ambiguous"}]
    /\ control.up \in BOOLEAN /\ control.open \in BOOLEAN /\ control.ready \in BOOLEAN
    /\ control.waiting \in Seq(Inputs) /\ control.current \subseteq Inputs
    /\ control.phase \in {"idle", "attaching", "preparing", "marked", "delivering"}
    /\ submitted \subseteq Inputs /\ stdin \subseteq Inputs
    /\ acknowledged \subseteq Inputs /\ raced \subseteq Inputs
    /\ journal \in [Inputs -> {"none", "attempted", "written", "failed"}]
    /\ agent \in {"none", "running", "ended"}
    /\ received \in [Inputs -> Nat]

SteeringInit ==
    /\ place = [i \in Inputs |-> "new"] /\ message = [i \in Inputs |-> "none"]
    /\ control = Empty
    /\ submitted = {} /\ stdin = {} /\ journal = [i \in Inputs |-> "none"]
    /\ agent = "running"
    /\ received = [i \in Inputs |-> 0] /\ acknowledged = {} /\ raced = {}
    /\ handOffs = 0 /\ deaths = 0

-----------------------------------------------------------------------------
(* Marks on the row; each takes effect only in the states it may move.        *)
Mark(row, i, from, to) == IF row[i] \in from THEN [row EXCEPT ![i] = to] ELSE row
MarkSending(row, i)   == Mark(row, i, {"queued"}, "sending")
MarkSentOnce(row, i)  == Mark(row, i, {"sending"}, "sent")
MarkSent(row, i)      == Mark(row, i, {"sending", "ambiguous"}, "sent")
MarkFailed(row, i)    == Mark(row, i, {"queued", "sending"}, "failed")
MarkAmbiguous(row, i) == Mark(row, i, {"sending"}, "ambiguous")

MayHaveReachedProvider(i) == message[i] \notin {"none", "failed"}

Rest == [control EXCEPT !.current = {}, !.phase = "idle"]

\* An input joins the run, from its owner or out of the queue; refused, it goes back to the queue.
Offer(i) ==
    /\ control.up /\ agent # "none" /\ handOffs < MaxHandOffs
    /\ place[i] \in {"new", "queued"} /\ ~MayHaveReachedProvider(i)
    /\ handOffs' = handOffs + 1
    /\ IF control.open
       THEN /\ place' = [place EXCEPT ![i] = "attached"] /\ message' = [message EXCEPT ![i] = "queued"]
            /\ control' = [control EXCEPT !.waiting = Append(@, i)]
       ELSE /\ place' = [place EXCEPT ![i] = "queued"] /\ message' = [message EXCEPT ![i] = "failed"]
            /\ UNCHANGED control
    /\ UNCHANGED <<hostVars, received, acknowledged, raced, deaths>>

Enqueue(i) ==
    /\ control.up /\ place[i] = "new"
    /\ place' = [place EXCEPT ![i] = "queued"]
    /\ UNCHANGED <<message, control, hostVars, received, acknowledged, raced, handOffs, deaths>>

\* A hand-off that provably never reached the agent returns its input to the queue.
RecoverUnsent(i) ==
    /\ control.up /\ place[i] = "attached" /\ message[i] = "failed"
    /\ place' = [place EXCEPT ![i] = "queued"]
    /\ UNCHANGED <<message, control, hostVars, received, acknowledged, raced, handOffs, deaths>>

RegisterSender ==
    /\ control.up /\ control.open /\ ~control.ready /\ agent = "running" /\ control.phase # "attaching"
    /\ control' = [control EXCEPT !.ready = TRUE]
    /\ UNCHANGED <<place, message, hostVars, received, acknowledged, raced, handOffs, deaths>>

Take ==
    /\ control.up /\ control.open /\ control.ready /\ control.phase = "idle" /\ control.waiting # <<>>
    /\ control' = [control EXCEPT !.waiting = Tail(@), !.current = {Head(control.waiting)}, !.phase = "preparing"]
    /\ UNCHANGED <<place, message, hostVars, received, acknowledged, raced, handOffs, deaths>>

PreparationEnds(i) ==
    /\ control.up /\ control.current = {i} /\ control.phase = "preparing"
    /\ \/ ~control.open /\ control' = Rest /\ UNCHANGED message
       \/ control.open /\ message' = MarkFailed(message, i) /\ control' = Rest
       \/ control.open /\ message' = MarkSending(message, i) /\ control' = [control EXCEPT !.phase = "marked"]
    /\ UNCHANGED <<place, hostVars, received, acknowledged, raced, handOffs, deaths>>

\* The sender: a run that has ended takes nothing; otherwise the line goes to the host.
Send(i) ==
    /\ control.up /\ control.current = {i} /\ control.phase = "marked"
    /\ IF ~control.open THEN control' = Rest /\ UNCHANGED <<message, submitted>>
       ELSE IF agent # "running" THEN message' = MarkFailed(message, i) /\ control' = Rest /\ UNCHANGED submitted
       ELSE /\ submitted' = submitted \cup {i} /\ control' = [control EXCEPT !.phase = "delivering"]
            /\ UNCHANGED message
    /\ UNCHANGED <<place, journal, stdin, agent, received, acknowledged, raced, handOffs, deaths>>

Delivering(i) == control.up /\ control.current = {i} /\ control.phase = "delivering"

\* The agent picked it up; this wins over an ambiguity the close has already written.
Acknowledged(i) ==
    /\ Delivering(i) /\ journal[i] = "written" /\ i \notin stdin
    /\ message' = MarkSent(message, i) /\ control' = Rest
    /\ acknowledged' = acknowledged \cup {i}
    /\ UNCHANGED <<place, hostVars, received, raced, handOffs, deaths>>

\* The host's answer that the line was never written.  A close has settled it before: it stays ambiguous.
Refused(i) ==
    /\ Delivering(i) /\ journal[i] = "failed"
    /\ message' = IF control.open THEN MarkFailed(message, i) ELSE message
    /\ control' = Rest
    /\ UNCHANGED <<place, hostVars, received, acknowledged, raced, handOffs, deaths>>

\* The link to the host broke, or the run ended without a sign that the line was picked up.
Unconfirmed(i) ==
    /\ Delivering(i)
    /\ message' = MarkAmbiguous(message, i) /\ control' = Rest
    /\ UNCHANGED <<place, hostVars, received, acknowledged, raced, handOffs, deaths>>

\* Stop, or the run's end: what is being delivered turns ambiguous, all else has not been sent.
CloseSteering ==
    /\ control.up /\ control.open
    /\ control' = [control EXCEPT !.open = FALSE, !.waiting = <<>>]
    /\ message' = [i \in Inputs |->
           IF i \in control.current /\ control.phase = "delivering" THEN MarkAmbiguous(message, i)[i]
           ELSE IF i \in control.current \cup ToSet(control.waiting) THEN MarkFailed(message, i)[i]
           ELSE message[i]]
    /\ UNCHANGED <<place, hostVars, received, acknowledged, raced, handOffs, deaths>>

-----------------------------------------------------------------------------
\* The host records a write before making it; a command id it has seen is not acted on again.
HostAttempts(i) ==
    /\ i \in submitted
    /\ submitted' = submitted \ {i}
    /\ journal' = IF journal[i] = "none" THEN [journal EXCEPT ![i] = "attempted"] ELSE journal
    /\ UNCHANGED <<coordinatorVars, stdin, agent, received, acknowledged, raced, handOffs, deaths>>

HostWrites(i) ==
    /\ journal[i] = "attempted"
    /\ \/ agent = "running" /\ journal' = [journal EXCEPT ![i] = "written"] /\ stdin' = stdin \cup {i}
       \/ agent = "ended" /\ journal' = [journal EXCEPT ![i] = "failed"] /\ UNCHANGED stdin
    /\ UNCHANGED <<coordinatorVars, submitted, agent, received, acknowledged, raced, handOffs, deaths>>

PickUp(i) ==
    /\ agent = "running" /\ i \in stdin
    /\ stdin' = stdin \ {i} /\ received' = [received EXCEPT ![i] = @ + 1]
    /\ UNCHANGED <<coordinatorVars, submitted, journal, agent, acknowledged, raced, handOffs, deaths>>

AgentEnds ==
    /\ agent = "running"
    /\ agent' = "ended"
    /\ UNCHANGED <<coordinatorVars, submitted, journal, stdin, received, acknowledged, raced, handOffs, deaths>>

\* The outcome is settled: what replay left undecided was never seen picked up; the host lets go.
SettleOutcome ==
    /\ control.up /\ agent = "ended" /\ ~control.open /\ control.phase = "idle"
    /\ \A i \in Inputs : journal[i] # "attempted"
    /\ agent' = "none" /\ submitted' = {} /\ stdin' = {} /\ journal' = [i \in Inputs |-> "none"]
    /\ message' = [i \in Inputs |-> IF place[i] = "attached" THEN MarkAmbiguous(message, i)[i] ELSE message[i]]
    /\ UNCHANGED <<place, control, received, acknowledged, raced, handOffs, deaths>>

\* A queued input's own turn.
StartTurn(i) ==
    /\ control.up /\ agent = "none" /\ place[i] = "queued"
    /\ place' = [place EXCEPT ![i] = "turn"] /\ received' = [received EXCEPT ![i] = @ + 1]
    /\ agent' = "running" /\ control' = Empty
    /\ UNCHANGED <<message, submitted, journal, stdin, acknowledged, raced, handOffs, deaths>>

-----------------------------------------------------------------------------
Die ==
    /\ control.up /\ deaths < MaxDeaths
    /\ control' = [Empty EXCEPT !.up = FALSE]
    /\ deaths' = deaths + 1
    /\ UNCHANGED <<place, message, hostVars, received, acknowledged, raced, handOffs>>

JudgedUnwritten(i, readable) ==
    CASE message[i] = "queued" -> "failed"
      [] message[i] = "sending" /\ ~readable -> "ambiguous"
      [] message[i] = "sending" /\ readable /\ journal[i] \in {"none", "attempted", "failed"} -> "failed"
      [] OTHER -> message[i]

\* What a successor makes of a row, by the host's record if it can be read.
Judged(i, readable) ==
    CASE message[i] = "queued" -> "failed"
      [] message[i] = "sending" /\ ~readable -> "ambiguous"
      [] message[i] = "sending" /\ readable /\ journal[i] \in {"none", "failed"} -> "failed"
      [] message[i] = "sending" /\ readable /\ journal[i] = "attempted" -> "ambiguous"
      [] OTHER -> message[i]

\* A successor takes the run back: first it settles what was not sent, by the record as it
\* stands, then it attaches to the host.
Adopt ==
    /\ ~control.up /\ agent # "none"
    /\ control' = [Empty EXCEPT !.phase = "attaching"]
    /\ \E readable \in BOOLEAN : message' = [i \in Inputs |-> Judged(i, readable)]
    /\ raced' = raced \cup {i \in submitted : message[i] = "sending" /\ message'[i] = "failed"}
    /\ UNCHANGED <<place, hostVars, received, acknowledged, handOffs, deaths>>

\* A newer attachment fences the older one: whatever that one still had on the way is refused.
Attach ==
    /\ control.up /\ control.phase = "attaching"
    /\ control' = [control EXCEPT !.phase = "idle"] /\ submitted' = {}
    /\ UNCHANGED <<place, message, journal, stdin, agent, received, acknowledged, raced, handOffs, deaths>>

\* The record shows that a predecessor's write was picked up.
RecoveredSteering(i) ==
    /\ control.up /\ control.phase # "attaching" /\ place[i] = "attached" /\ ~(Delivering(i))
    /\ journal[i] = "written" /\ i \notin stdin /\ message[i] \in {"sending", "ambiguous"}
    /\ message' = MarkSent(message, i)
    /\ UNCHANGED <<place, control, hostVars, received, acknowledged, raced, handOffs, deaths>>

\* The run is beyond recovery: its turn is interrupted and nothing is resent that may have been written.
Orphaned ==
    /\ ~control.up /\ agent # "running"
    /\ control' = Empty /\ agent' = "none" /\ submitted' = {} /\ stdin' = {}
    /\ journal' = [i \in Inputs |-> "none"]
    /\ message' = [i \in Inputs |-> CASE message[i] = "queued" -> "failed" [] message[i] = "sending" -> "ambiguous"
                                      [] OTHER -> message[i]]
    /\ UNCHANGED <<place, received, acknowledged, raced, handOffs, deaths>>

SteeringNext ==
    \/ \E i \in Inputs :
        \/ Offer(i) \/ Enqueue(i) \/ RecoverUnsent(i) \/ PreparationEnds(i) \/ Send(i)
        \/ Acknowledged(i) \/ Refused(i) \/ Unconfirmed(i)
        \/ HostAttempts(i) \/ HostWrites(i) \/ PickUp(i) \/ StartTurn(i) \/ RecoveredSteering(i)
    \/ RegisterSender \/ Take \/ CloseSteering \/ AgentEnds \/ SettleOutcome
    \/ Die \/ Adopt \/ Attach \/ Orphaned

SteeringSpec == SteeringInit /\ [][SteeringNext]_steeringVars

-----------------------------------------------------------------------------
(* A message reaches the agent once: neither a close that races with the      *)
(* write, nor a restart that judges by the record, lets an input that was     *)
(* written go back to the queue and be given to the agent again.  The one     *)
(* exception is an input whose write was still on its way to the host when a  *)
(* successor read that host's record (session-execution-host.ts:1409): the    *)
(* record had no attempt, and the attempt came after.                         *)
NeverReceivedTwice == \A i \in Inputs : received[i] <= 1 \/ i \in raced

(* The provider's acknowledgement always wins (steering.ts:117): an input the *)
(* coordinator saw acknowledged is never shown as failed or uncertain.        *)
AcknowledgementWins == \A i \in acknowledged : message[i] = "sent"

=============================================================================
