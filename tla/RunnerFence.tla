----------------------------- MODULE RunnerFence -----------------------------
(* One turn on a runner, composed of the owner's ledger (RunnerLeases), the   *)
(* runner daemon, the daemon's two files, the agent's host and the calls      *)
(* between them, under a clock.  It is about the fence: an agent is told to    *)
(* stop by its own machine before the owner can count its turn as lost.       *)
(* A deadline of the code is a bound on Tick: time does not pass it before    *)
(* what it is a deadline for has happened.                                    *)
EXTENDS RunnerLeases

CONSTANTS
    Turn, Only, Machine,    \* the turn job, its attempt, the runner
    Fence,          \* RUNNER_FENCE_MS
    Answer,         \* the time limit of a call
    Check,          \* the longest a due fence of the daemon waits for its timer
    HostCheck,      \* the same for the host's own fence
    Grace,          \* what the margins leave an agent that was told to stop
    Launching,      \* the longest from a claim to its agent
    Reading,        \* the longest a restarted daemon reads its jobs
    OtherCalls,     \* whether calls that carry no turn are answered
    MaxCrashes

ASSUME FenceAssumption ==
    /\ Jobs = {Turn} /\ Attempts = {Only} /\ Machine \in Runners /\ Turn \in Serves[Machine]
    /\ Turn \notin ReplaySafe
    /\ {Fence, Answer, Check, HostCheck, Grace, Launching, Reading, MaxCrashes} \subseteq Nat
    /\ OtherCalls \in BOOLEAN

\* The source's 30 s for an answer, 240 s of silence, 5 s or 15 s until a timer looks and 5 s of
\* resolution leave a Grace of 10 s of the lease's 300 s.  No bound is put on how long an agent takes
\* to be gone: its host kills it only 30 s after SIGTERM, and systemctl stop may take longer.
ASSUME MarginAssumption ==
    /\ Answer + Fence + Check + Grace + Resolution <= Lease
    /\ Answer + Fence + HostCheck + Grace + Resolution <= Lease
    /\ Launching < Fence

VARIABLES
    contactFile,    \* file owner-contact: the instant in it, 0 when there is none
    carried,        \* history: the answer that wrote it said the turn is held
    held,           \* file attempts.json: the instant written with the turn, 0 when it is not in it
    daemon,         \* the daemon process and its Turn object
    agent,          \* the host of the turn and the provider in it
    wire,           \* an answer of the owner on its way
    crashes

turnVars == <<now, job, attempt, events, command, contactFile, carried, held, daemon, agent, wire, crashes>>

runnerVars == <<contactFile, carried, held, daemon, agent, wire, crashes>>

Silence == [what |-> "nothing", at |-> 0, ok |-> FALSE]

TurnInit ==
    /\ Init
    /\ contactFile = 0 /\ carried = TRUE /\ held = 0 /\ crashes = 0
    /\ daemon = [state |-> "idle", epoch |-> 0, contact |-> 0, fenced |-> FALSE]
    /\ agent = [state |-> "none", since |-> 0]
    /\ wire = Silence

-----------------------------------------------------------------------------
\* Written with each answer, at most once per resolution.
RecordOwnerContact(names) ==
    \/ contactFile' = now /\ carried' = names
    \/ now < contactFile + Resolution /\ UNCHANGED <<contactFile, carried>>

\* systemctl stop: nothing happens to a unit that does not run.
StopAgent == agent' = IF agent.state = "acting" THEN [state |-> "stopping", since |-> now] ELSE agent

Answered(kind) == wire.what = kind /\ wire' = Silence

Reply(kind, ok) == wire.what = "nothing" /\ wire' = [what |-> kind, at |-> now, ok |-> ok]

(* The daemon's calls: the owner's transaction, then its answer or none.     *)

OwnerClaims ==
    /\ daemon.state = "idle"
    /\ \E j \in Jobs : Oldest(Machine, j)
    /\ Claim(Machine)
    /\ Reply("claim", TRUE)
    /\ UNCHANGED <<contactFile, carried, held, daemon, agent, crashes>>

ClaimAnswered ==
    /\ Answered("claim")
    /\ RecordOwnerContact(TRUE)
    /\ daemon' = [state |-> "running", epoch |-> 1, contact |-> now, fenced |-> FALSE]
    /\ held' = now
    /\ agent' = [state |-> "launching", since |-> now]
    /\ UNCHANGED <<now, job, attempt, events, command, crashes>>

HostStarts ==
    /\ agent.state = "launching"
    /\ agent' = [state |-> "acting", since |-> now]
    /\ UNCHANGED <<now, job, attempt, events, command, contactFile, carried, held, daemon, wire, crashes>>

OwnerSyncs ==
    /\ daemon.state = "running"
    /\ Sync(Machine, Only, daemon.epoch, {})
    /\ Reply("sync", Holding(Machine, Only, daemon.epoch))
    /\ UNCHANGED <<contactFile, carried, held, daemon, agent, crashes>>

SyncAnswered ==
    /\ Answered("sync")
    /\ RecordOwnerContact(wire.ok)
    /\ \/ /\ wire.ok
          /\ daemon' = [daemon EXCEPT !.contact = now]
          /\ UNCHANGED <<held, agent>>
       \/ /\ ~wire.ok                        \* custody is lost
          /\ daemon' = [daemon EXCEPT !.state = "idle"]
          /\ held' = 0
          /\ StopAgent
    /\ UNCHANGED <<now, job, attempt, events, command, crashes>>

\* Any other answered call of this runner: a heartbeat of a project job, a claim of another job, a
\* machine call of the owner.
OtherCallAnswered ==
    /\ OtherCalls /\ daemon.state \in {"idle", "running"}
    /\ RecordOwnerContact(FALSE)
    /\ UNCHANGED <<now, job, attempt, events, command, held, daemon, agent, wire, crashes>>

AnswerLost ==
    /\ wire # Silence
    /\ wire' = Silence
    /\ UNCHANGED <<now, job, attempt, events, command, contactFile, carried, held, daemon, agent, crashes>>

\* The host is gone: the turn is finished and forgotten once the owner has answered.
TurnFinishes ==
    /\ daemon.state = "running" /\ agent.state = "gone" /\ wire.what = "nothing"
    /\ \/ \E result \in Results : Finish(Machine, Only, daemon.epoch, result)
       \/ ~Holding(Machine, Only, daemon.epoch) /\ UNCHANGED <<now, job, attempt, events, command>>
    /\ daemon' = [daemon EXCEPT !.state = "idle"]
    /\ held' = 0
    /\ UNCHANGED <<contactFile, carried, agent, wire, crashes>>

-----------------------------------------------------------------------------
(* The fences, of the daemon, of a restarted daemon and of the host itself.  *)

Silent(contact) == contact + Fence <= now

FenceIfSilent ==
    /\ daemon.state = "running" /\ ~daemon.fenced /\ Silent(daemon.contact)
    /\ daemon' = [daemon EXCEPT !.fenced = TRUE]
    /\ StopAgent
    /\ UNCHANGED <<now, job, attempt, events, command, contactFile, carried, held, wire, crashes>>

HeardAt == IF held < contactFile THEN contactFile ELSE held

FenceStale ==
    /\ daemon.state = "starting" /\ ~daemon.fenced /\ Silent(HeardAt)
    /\ daemon' = [daemon EXCEPT !.fenced = TRUE]
    /\ StopAgent
    /\ UNCHANGED <<now, job, attempt, events, command, contactFile, carried, held, wire, crashes>>

\* Bug: the host takes the file's existence for a contact.
HostContactUnread == IF contactFile = 0 THEN agent.since ELSE now

HostContact == IF contactFile = 0 THEN agent.since ELSE contactFile

HostFences ==
    /\ agent.state = "acting" /\ Silent(HostContact)
    /\ StopAgent
    /\ UNCHANGED <<now, job, attempt, events, command, contactFile, carried, held, daemon, wire, crashes>>

AgentGone ==
    /\ agent.state \in {"acting", "stopping"}
    /\ agent' = [agent EXCEPT !.state = "gone"]
    /\ UNCHANGED <<now, job, attempt, events, command, contactFile, carried, held, daemon, wire, crashes>>

(* The daemon stops and starts again.                                        *)

Crash ==
    /\ daemon.state # "down" /\ crashes < MaxCrashes
    /\ crashes' = crashes + 1
    /\ daemon' = [daemon EXCEPT !.state = "down"]
    /\ wire' = Silence
    /\ agent' \in {agent} \cup IF agent.state = "launching" THEN {[agent EXCEPT !.state = "gone"]} ELSE {}
    /\ UNCHANGED <<now, job, attempt, events, command, contactFile, carried, held>>

DaemonStarts ==
    /\ daemon.state = "down"
    /\ daemon' = [state |-> IF held = 0 THEN "idle" ELSE "starting", epoch |-> 0, contact |-> 0,
                  fenced |-> FALSE]
    /\ UNCHANGED <<now, job, attempt, events, command, contactFile, carried, held, agent, wire, crashes>>

\* The check before the call may be as old as the call.
OwnerReacquires ==
    /\ daemon.state = "starting"
    /\ attempt[Only].epoch < MaxEpoch
    /\ Reacquire(Machine, {Only})
    /\ Reply("reacquire", Live(Only) /\ attempt[Only].runner = Machine)
    /\ UNCHANGED <<contactFile, carried, held, daemon, agent, crashes>>

ReacquireAnswered ==
    /\ Answered("reacquire")
    /\ RecordOwnerContact(wire.ok)
    /\ \/ /\ wire.ok
          /\ daemon' = [daemon EXCEPT !.state = "reading", !.epoch = attempt[Only].epoch]
          /\ held' = now
          /\ UNCHANGED agent
       \/ /\ ~wire.ok
          /\ daemon' = [daemon EXCEPT !.state = "idle"]
          /\ held' = 0
          /\ StopAgent
    /\ UNCHANGED <<now, job, attempt, events, command, crashes>>

\* The Turn object is made when its job has been read; its silence counts from then.
TurnResumes ==
    /\ daemon.state = "reading"
    /\ daemon' = [daemon EXCEPT !.state = "running", !.contact = now, !.fenced = FALSE]
    /\ UNCHANGED <<now, job, attempt, events, command, contactFile, carried, held, agent, wire, crashes>>

-----------------------------------------------------------------------------
\* What is due now happens before time goes on.
InTime ==
    /\ wire # Silence => now < wire.at + Answer
    /\ daemon.state = "running" /\ ~daemon.fenced => now < daemon.contact + Fence + Check
    /\ daemon.state = "starting" /\ ~daemon.fenced => now < HeardAt + Fence + Answer + Check
    /\ daemon.state = "reading" => now < held + Reading
    /\ agent.state = "launching" => now < agent.since + Launching
    /\ agent.state = "acting" => now < HostContact + Fence + HostCheck

TimePasses == InTime /\ Tick /\ UNCHANGED runnerVars

OwnerAlone ==
    /\ \/ Enqueue(Turn) \/ Withdraw(Turn) \/ ExtendLiveLeases
       \/ ~(\E j \in Jobs : Oldest(Machine, j)) /\ Claim(Machine)
    /\ UNCHANGED runnerVars

TurnNext ==
    \/ TimePasses \/ OwnerAlone
    \/ OwnerClaims \/ ClaimAnswered \/ HostStarts
    \/ OwnerSyncs \/ SyncAnswered \/ OtherCallAnswered \/ AnswerLost \/ TurnFinishes
    \/ FenceIfSilent \/ FenceStale \/ HostFences \/ AgentGone
    \/ Crash \/ DaemonStarts \/ OwnerReacquires \/ ReacquireAnswered \/ TurnResumes

TurnSpec == TurnInit /\ [][TurnNext]_turnVars

-----------------------------------------------------------------------------
\* An agent at work has its turn; one that was told to stop was told Grace or more before the lease
\* could pass.
ToldInTime ==
    /\ agent.state = "acting" => Live(Only)
    /\ agent.state = "stopping" => agent.since + Grace < attempt[Only].lease

\* As runner-leases.ts says of the fence, and less: an agent never acts after its turn was settled as
\* lost, one that is being stopped set aside.
NeverActsAfterLost == agent.state = "acting" => Live(Only)

\* What the code ensures: an agent is told to stop too late only where the daemon died after a call
\* that did not name the turn had refreshed the contact its host looks at.
LateOnlyWhenUncarried == ToldInTime \/ (crashes > 0 /\ ~carried)

=============================================================================
