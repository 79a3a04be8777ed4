# slack-concierge: specifications

TLA+ modules of the coordinator in `bot/src`, checked with TLC and proved with TLAPS.
`PROJECT.json` maps every definition to the lines it stands for.

## 1. Inventory

The program is one coordinator process (TypeScript on Bun) over SQLite ledgers. Every
`db.transaction` is atomic and survives a crash; everything between two `await`s is one
uninterrupted stretch. Provider calls (Codex, Claude Code, Antigravity), Slack posts, runner
machines and child processes are asynchronous and may fail, answer late or not at all. A
supervisor restarts the process; a deployment drains it first.

| component | state it keeps | operations | what makes it correct |
|---|---|---|---|
| turn ledger (`state.ts`, `turn-execution.ts`, `turn-recovery.ts`) | table `turns`, `sessions.status`; in-process run per turn | admit, queue, claim, admission intent, acknowledge, steer, settle (cancel, retry, park, fail), deliver, finish, recover, sweep ghosts | one live turn per session; order of inputs; no replay of an input that may have had effects; a Stop is final; a reply goes out once; the session is always given back |
| dispatch registry, cancellation (`turn-dispatch-seams.ts`) | active runs, drain flag | begin, settle, stop | nothing new starts in a drain; a cancelled run ends |
| session queue (`session-turn-queue.ts`) | active ids, wake flag, callback asked for, deadline | wake, pump, claim, arm the deadline, stop | no lost wake-up; a failed claim is tried again |
| session owner, execution host (`session-owner.ts`, `session-inputs.ts`, `session-execution-host.ts`) | accepted inputs, session status, global pause | accept, cancel, stop, archive, restore, pause, reconcile native results | an archived session stays archived; a lost result is found again exactly once |
| execution custody (`executions.ts`) | table `executions`; the sweep of a starting coordinator | retain intent, launched, exited, adopt, release | one coordinator holds a provider process; a turn is adopted or recovered, never both |
| steering (`steering.ts`) | queue of inputs into a running turn; rows of hand-offs; the host's record | offer, deliver, close, judge after a restart | each message is sent, failed or ambiguous, once; none reaches the agent twice |
| runner leases (`runner-leases.ts`, `runner-host-access.ts`, `scripts/runner.ts`) | jobs, attempts with epochs and leases, events, commands | enqueue, claim, reacquire, sync, finish, withdraw, expire, fence | one custody per job; events stored once and in order; an agent is told to stop before its turn can be settled as lost |
| capture queue (`capture-*.ts`) | captured inputs, claims, attachments, drain gate | accept, claim, take over, settle, close the gate | a capture being delivered is held by one claim; a closed gate is quiet |
| artifact and notice delivery | batches, deliveries, notices | register, send, park, abandon | uploads neither lost nor blocking for ever |
| deployment (`deployment-*.ts`) | desired commit, runs, incidents, releases, requests | push, request, claim, phases, activate, complete, restore, repair, retry | what is activated is what is desired; each request gets a true answer |
| retry breaker (`retry-breaker-core.ts`, `retry-breaker-notice.ts`) | failures and notices per key | record, trip, publish, mark, clear, settle | a notice is about an outage that lasts |
| human commands (`human-command-*.ts`) | a client's ordered commands, slots, claims | retain, claim, prepare, deliver, settle, withdraw, release a missing slot | carried out in order; the client is told what the owner decided |
| watches (`watches.ts`, `watch-machine.ts`) | open watches, series, hosts of commands | register, observe, renew, launch, settle, clean up | settles once, never after a cancel; no command runs unknown |
| requests between instances (`session-peers.ts`) | requests at their origin, deliveries at their recipient | ask, poll, push the reply, notify, cancel, revoke | a reply is held before it counts as forwarded; a timely answer is the outcome |
| fork requests (`fork-requests.ts`) | rows of requests, the anchor's thread | request, begin, recover, post the anchor, bind | a reply to the anchor reaches the copy; a fork is not made anew while its caller may still be making it |
| saved work (`saved-work.ts`) | scheduled and banked turns, the chain of a repeating schedule | save, claim, book the next, skip, move, start, drop, end | a schedule goes on until it is ended, and no longer |
| session hand-off (`session-handoff.ts`, `session-communication.ts`, `provider-exhaustion-recovery.ts`) | hand-offs with their inventories, requests and inputs with the session that holds them, suspension | propose, read, accept, withdraw, ask, reply, cancel, steer, recover elsewhere | an open obligation is with one session that may act on it; nothing reaches two providers |
| dependencies, inbox, routed requests | holds and receipts in the ledger | hold, release, send, answer | nothing waits for ever, nothing is answered twice |
| accounts and allowance (`provider-account-*.ts`) | account choice, holds | choose, hold, release | held work comes back |
| project set-up, todo and list sync, speech jobs, ChatGPT obligations | phases, files | step, merge, spool | a half-done step is resumed |
| read models and rendering (`prepared-*`, `presentation-*`, `session-topics.ts`, `app-home.ts`, `final-reply-blocks.ts`, history) | derived tables, text | rebuild, render | equal to what the ledger says |

Components meet in the ledger: each writes rows under a compare-and-set on status, owner and
attempt, and reads what the others wrote. Callbacks run from the dispatch registry
(`onSettled`), the provider (acknowledgement, steering) and timers (watchdog, queue deadline).

The hard behaviours: runs of several turns interleave at every `await`; a Stop, an archive, a
drain or a crash comes between any two steps; a provider may have acted although its answer was
lost; the error handling of a run may itself fail; recovery, watchdog and reconciliation write
rows a run might hold. PROJECT.json `hazards` lists them with their lines.

## 2. Plan

Done, in this order: **TurnLedger** with the abstract **SessionLock** and **InputPromise**; **RunnerLeases** with the
abstract **RunnerCustody**, composed with the daemon in **RunnerFence** (clocks and fences) and
**RunnerShipping** (copies and the journal); **SessionTurnQueue**, **ExecutionCustody**,
**Steering**, **CaptureQueue**, **RetryBreaker**, **Deployment**, **HumanCommands**, **Watches**,
**PeerRequests**, **ForkRequests**, **SavedSchedules**, **SessionHandoff**. **ProgressParts** and **ServiceParts** put parts side by side for TLC.

Next, by weight:

1. Banked work and dependency holds as an extension of the claim condition of TurnLedger, with the
   liveness of the sweep that releases them.
2. The turn links of the coordinator to a runner (`runner-host-access.ts`, apply side of commands).
3. The sending state of artifacts and notices, project set-up.

## 3. TurnLedger

One row per accepted input, `turn[t]`; the columns of `turns` that decide something are fields
(`status`, `owner`, `attempt`, `intended`, `acked`, `stop`, `class`, `delivery`, `steered`,
`artifacts`). `run[t]` is how far this process's run of the turn has come: it stands for the
program counter of `executeAgentTurn` and its callers, and a crash sets it to "none".
`effects[t]` is a history variable: the provider may have acted on the input and has not
confirmed that it did nothing. So are `thrown`, the turns whose error handling itself threw, and
`revived`, those put back in line after they ended in an error. `Receipted` are the turns whose
provider (ChatGPT) keeps receipts that prove whether it sent what it was given.

| part of the code | actions |
|---|---|
| `acquireSessionTurn`, `handleTurn`, `acceptSessionInput` | AcquireRunning, AcquireQueued, AcceptQueued |
| `claimNextQueuedTurn` | ClaimNextQueuedTurn |
| `executeAgentTurn`, up to the provider | CheckStop, PreparationFails, RecordIntent, CallProvider |
| provider callbacks | AcknowledgeInput, Steer, ProviderCancels, ProviderFails, ProviderReturns |
| its catch block | SettleCancelled, SettleRetry, SettlePark, SettleFail, SettleCut, RunRejects |
| reply | MarkDelivering, Delivered, DeliveryParked, Relinquish, FinishDelivered, SettleArtifacts |
| dispatch registry | Unwind, Drain, RequeueOnDrain |
| requests | RequestStop, CancelQueued, ResumeParkedSessionTurn, ReleaseHolds, Archive, Restore, SetGate |
| start-up, watchdog, reconciliation | Crash, RecoverRunning, RecoverDelivering, StartSessionTurnQueue, SweepGhostRunningTurn, ReconcileNativeResult, ReconcileNativeFailure, RequeueProvenUnsent, SettleSupersededParkedTurn |

`SessionLock` is the abstract specification of what the ledger promises a session: a turn takes it
only while no other holds it. `TurnLedger` implements it with the live turns as the holders
(`ImplementsSessionLock`).

`InputPromise` is the abstract specification of what the ledger promises whoever sent an input. Inputs
are taken in in order and none is lost; one whose answer was in hand, or whose outcome is unknown, is
not put before a provider again, and an answer that is out stays out. An ended one is put back in
line only if no provider acted on it and its sender was shown no outcome (`EndsForGood`): that is what
`requeueProvenUnsentNativeChatGptTurn` does with a turn that ended in an error, once a receipt proves
it was never sent. `TurnLedger` implements the promise with `Life(t)`, read off the status, as the
life of input t, the delivered marks as the answers and `effects` as what a provider was reached by
(`ImplementsInputPromise`). An interrupted turn and a delivery that was
parked both count as "unknown": the one may have had effects, of the other nobody knows whether it
arrived.

Left out: text, attachments, projections and clock instants (a turn waiting for an instant may
be claimed at any time); account, focus, saved-work and dependency holds; adoption of a surviving
process, by which the turn of a parked native run comes back to a run, and the claim's held-execution
guard (ExecutionCustody has both); the yield of banked native turns. A batch of
artifacts that is still collecting blocks nobody, so `artifacts` is "none" until the provider
returns. Archiving also discards saved work, which is not modelled.

## 4. The runners

A runner is another machine that runs turns for the owner. It polls the owner for jobs, keeps each
agent in a host process of its own, and reports over calls that may fail or lose their answer.

**RunnerLeases** is the owner's ledger of it, one action per transaction of `runner-leases.ts`.
`now` is the owner's clock, `job`, `attempt`, `events` and `command` are the four tables.

| part of the code | actions |
|---|---|
| coordinator | Enqueue, Withdraw, RecordCommand, ExtendLiveLeases (at the owner's start) |
| runner calls | Claim, Reacquire, Sync, AppendEvents, Heartbeat, CommandResult, Finish |
| `settleExpired`, `holding`, `job` | the operators Settle, Holding, View they are built from |

An expired lease is written only by the next transition, so what counts is the coordinator's view.
`RunnerCustody` says what that view promises (one holder at a time, no attempt twice, only a replay
safe job offered again), and `ImplementsCustody` that every step of the ledger, the passing of time
included, is one of its steps. Nothing an epoch allows is left out: a runner calls with any epoch
its attempt has had. A call that the ledger refuses rolls its transaction back and is no step.
Contents of events and commands, malformed sequences and a finish under another operation id
(`scripts/runner.ts` derives the id from the attempt) are left out. A sync is about one attempt,
because the items of a sync share nothing but the expiry they all settle.

**RunnerFence** follows one turn: the ledger, the daemon, its files `owner-contact` (`contactFile`)
and `attempts.json` (`held`), the host with its agent, and an answer on its way (`wire`; the daemon
awaits one of these calls at a time). Every wait of the code that has a limit is a bound on Tick, so
timers may be late by their period and no more, and answers by their time limit. The three fences
are FenceIfSilent (the daemon's timer), FenceStale (a restarted daemon) and HostFences; each of them
tells the agent to stop, and no bound is put on how long it takes to be gone (AgentGone). One clock
stands for both machines: the code compares instants of one machine only, so what is assumed is
that both clocks run at the same rate. `carried` remembers whether the last contact written
came from an answer that named the turn as held. `MarginAssumption` is the arithmetic behind
`RUNNER_FENCE_MS`; its `Grace` is what that arithmetic leaves of the lease once an agent was told
to stop, with the source's numbers 20 s on the daemon's fence and 10 s on the host's own. An agent
that answers SIGTERM is gone in that time. One that ignores it is killed by its host only 30 s later
(execution-host.ts:222-227), and `systemctl stop` may take longer still, so it may be at work after
the lease has passed: section 7.

**RunnerShipping** follows the journal of one host: `host`, the copies of the daemon (`copy[e]` is
the Turn object that holds epoch e), the events each has made (`emitted`), `held` and the answers on
their way. Its ledger half is RunnerLeases; the events a copy sends are read off `emitted`.
A frame is only its number; an event is its kind and the host sequence `h` written into it.

## 5. The queue, and the parts beside the ledger

**SessionTurnQueue** is the coordinator's pump over the rows of the ledger. The program is single
threaded: a slice of the pump is one action, and `onStack` keeps everything else out while one has
begun. What is not single threaded is the clock: a waiting turn may become due between a slice's
last claim and the look for the next instant (`FinishPump`, `passed`), or that look may fail. Such
turns are remembered in the history variable `missed`; the wake of every minute finds them
(`index.ts:4065`), which is why NoLostWakeUp excepts them and EveryTurnIsClaimed does not.

| part of the code | actions |
|---|---|
| `wake`, `pump`, `continueOnNextTurn`, `finishPump` | Wake, Slice, PreparationThrows, Continue, Timer |
| `stop`, the coordinator's drain and its minute's round | Stop, Drain, Periodic |
| what the ledger and its runs do meanwhile | Admit, SettleTurn, Unwind, Due |

**ExecutionCustody** follows the executions of one conversation through its coordinators, one
after the other. `execution[r]` is the row, `agentHost[r]` what is really there, `runTurn[r]` the
turn. `sweep` is where `claimAdoptableExecutions` is: each host is probed between two awaits, and
`sweep.seen` is what was read of the turn before the probe.

| part of the code | actions |
|---|---|
| admission and claim of the ledger | AcceptInput, AcquireSessionTurn, ClaimQueuedTurn |
| a run | AdmitToProvider, RetainExecutionIntent, Launch, RecordExecutionLaunched, RecordExecutionExited, FinishRun, RunFails, UnwindRun |
| the sweep at startup and every minute | BeginSweep, StopSuperseded, ReadOpen, BeginProbe, EndProbe, EndSweep |
| held executions | HeldAttempt |
| the processes | AgentStops, CoordinatorDies, CoordinatorStarts |

**Steering** is about messages handed to a run that is already working. `place` says where an
input stands, `message` is the row of its latest hand-off, `control` the controller of
`steering.ts`, `journal` the host's record by which a restarted coordinator judges what was
written. The record is judged as it stands: a write that a dead coordinator sent may still be on
its way to the host (`submitted`), and the history variable `raced` holds the inputs of which that
was so when they were judged unsent. See section 7.

| part of the code | actions |
|---|---|
| offering, returning | Offer, Enqueue, RecoverUnsent, StartTurn |
| controller | RegisterSender, Take, PreparationEnds, Send, Acknowledged, Refused, Unconfirmed, CloseSteering, SettleOutcome |
| host and agent | HostAttempts, HostWrites, PickUp, AgentEnds |
| the next coordinator | Die, Adopt, Attach, RecoveredSteering, Orphaned |

**CaptureQueue** has the rows of the ingress process, the delivery loop of the coordinator, and
the requests between them. `requests` only grows: a request may reach the queue again, or after its
sender has given up or died, and its answer may be lost. The gate is the one that a deployment
closes (`capture-drain-status.ts`).

| part of the code | actions |
|---|---|
| `capture-ingress.ts`, `capture-state.ts` behind its API | Accept, ServeClaim, ServeVerdict |
| `capture-delivery-worker.ts` | NameClaim, Deliver, Fatal, QueueUnavailable, Exit, Start |
| `capture-drain-status.ts` | ClaimGate, HoldGate, GateOwnerExits, OpenGate |

**RetryBreaker** is one dependency's row with its notices. Counting, publishing and marking are
three transactions, and `step` is the place between them at which the process may die or the
publication throw. The history variable `astray` holds the outages whose notice was kept from its
mark or its end by such an accident, until the next start or settlement looks at them again.

**HumanCommands** is one client's stream: the rows at the ingress, the worker, and requests to the
ingress and to the owner that may be lost or arrive late. The owner (`session-owner.ts`) retains
what it accepts and the cancels of what is yet to come (`ownerDecision`), and nothing of what it
refuses: a delivery that comes after a refusal is decided anew. It answers a repeated command as
before, unless one of the checks that come before the look at the retained row refuses it. The
history variable `turnedDown` holds the commands it has refused. What refuses is a choice; what
becomes of an input after it was accepted is the ledger's. `commandKind` ranges over the streams of
the configuration.

| part of the code | actions |
|---|---|
| `human-command-state.ts`, the client's side | RetainHumanCommand, RetainPreCustodyRefusal, WithdrawPendingCreation |
| decisions on missing places | ReleaseMissingSlot, ReleaseHeldLate |
| its side for the worker | ServeCommandClaim, KeepPreparation, ServeVerdictOn |
| `human-command-worker.ts` | AskForCommand, PrepareCommand, DeliverCommand, Uncertain, RoundFails, WorkerDies, WorkerStarts |
| the owner: `create`, `submit`, `stop`, `cancelAction` | OwnerTakes (Accepts, Repeats, Refuses) |

**Deployment** has the ledger of `deployment-state.ts` and the two processes that act on it by its
commands, each of which may die between two of them: `deployRunner` is `scripts/deploy.sh`,
`supervisor` is `deployment-repair-supervisor.ts`. Commits are numbers along main. The three writes
that park a repair (deployment-state.ts:1355-1383) are one step: no death is looked at between them.
`completion` is a completion whose questions to git are answered while further requests may join.

| part of the code | actions |
|---|---|
| pushes and requests | Push, ObserveDesiredCommit, RequestDeployment, RequestOperatorDeployment, RequestAutomaticDeployment |
| the runner's commands | LaunchRunner, LaunchFails, ClaimDeploymentRun, RecordPhase, Checkout, PrepareRelease, IntendActivation, Activate, Promote, ProveCompletion, CompleteDeploymentRun, AnswerArrives, RunnerFails, RunnerDies |
| recovery | RecoverDeadRun, RecoverInterruptedCandidate |
| repair | LaunchRepair, ClaimRepair, RecordRepairCommit, PrepareRetry, RetryEnded, SupervisorStops, SupervisorDies |

**Watches** has the rows, the poll of the worker and the hosts of commands. `poll` is how far one
poll is, holding rows as they were when it began; `process[x]` is what the watched machine would
say of a launch; a start that the supervisor or the runner does not confirm in time stays "intended".

| part of the code | actions |
|---|---|
| registrations, cancels, waiting requests | RegisterFile, RegisterOnRunner, RegisterCommand, CancelWatch, RequestWaits |
| the poll | PollStarts, RunnerAway, ObserveFile, LaunchCommand, LaunchAnswered, CheckStart, CheckCommand, CleanUp, CleanUpHost, PollEnds |
| the machine and the worker | HostStarts, HostMoves, WatchWorkerRestarts |

**PeerRequests** follows one request from a session of one instance to a session of another. Both
have durable ledgers (`asked`; `delivery`, `target`, `reply`) and tasks that are not (`task`,
`report`), each of which holds what it read before an await. A call may be lost before or after it
was served, and an ask that was given up may still arrive (`strayAsk`). `news` stands for the
fingerprint of the last notice: a turn and a reply never return to an earlier state, so whether
something changed is all that a comparison can find. A push that is repeated after a lost answer is
not counted as a loss. The turn that answers an obligation is assumed ready (`answerTaskReady`).
The origin refuses a reply when something else ended the request, and also when its proof names a
session that the row does not: it learns the name of a new session (`fresh`) from the answer to its
ask, which may be lost or late (`Unproven`). A refused reply is still read by a later poll.

| part of the code | actions |
|---|---|
| the origin | Ask, CancelRequest, DispatchStarts, AskAnswered, StatusRead, Fetched, FetchFails, RevocationStarts |
| its calls at the recipient | AskServed, StrayAskServed, StatusServed, RevocationServed, CallLost |
| the recipient's turn | TargetAdmitted, TargetMoves, ReplyMade |
| its report | ReportStarts, PushServed, PushEnds, NoticeStarts, NoticeServed, NoticeAnswered, NoticeEnds, NoticeLost, RecipientRestarts |

**ForkRequests** follows one request to fork a session. A flow (`forkFlows[f]`) is a handler of the
person's action, which Slack may repeat, or a recovery pass; `status` and `owner` in it are the row
as the pass read it, `seen` the forks that Codex listed. External are the provider, which may fork
after its caller is gone (`forkCalls.open`), and Slack, which shows one message per client_msg_id
however often it is posted (`anchorPosted`). `overlapped` remembers that two passes of one process
went over the row together.

| part of the code | actions |
|---|---|
| `executeForkRequest` and its stages | RequestFork, BeginForkRequest, ClaimForkDelivery, ClaimForkBinding, NothingToExecute, CompleteForkDelivery, BindingFails, FlowThrows |
| answers of the provider and of Slack | ProviderForks, ForkAnswered, ForkRejected, ForkUncertain, SlackPosts, AnchorAnswered, AnchorRetried, AnchorParked |
| `reconcileForkRequests` | SweepReads, SweepHandles, ListForks, RecoverForkResult |
| the barrier for replies in the thread | ReplyComes, ReplyTaken, ReplyRefused |
| the process | ForkProcessDrains, ForkProcessEnds, ForkProcessStarts |

**SavedSchedules** follows one repeating schedule of saved work: the chain of its turns (`firing`), of
which each books the next, the clock, the events that end it (`dropped`, `markedOn`) and the request
that created it, which names the first firing only. The queue claims at an instant of its own, after
the pass that books, so a firing may leave the queue before its successor is there; a retried run
goes back to the queue with a later instant; a global pause is a choice of each pass and of the
claims that do not come.

| part of the code | actions |
|---|---|
| `prepareSavedWorkForClaims` (booking, overlaps, expiry), `inspectSavedWork` | PrepareSavedWorkForClaims, InspectSavedWork |
| the queue and the run | ClaimFiring, FinishFiring, RetryFiring |
| `updateSavedTurn`, `cancelQueuedInput`, pause and archive | MoveFiring, StartFiring, DropFiring, CancelFiringInput, Suspend |
| the request | AnswerRequest, SettleRequest, CancelSchedule, ReconcileCanceled |

**SessionHandoff** follows the sessions of one line of work (`Lineage`), each made by a hand-off or by
a recovery elsewhere from an earlier one (`handoffs`). Its predecessor keeps the obligations until a
run of the successor acknowledges the exact inventory (`shownInventory`, compared by its digest);
the transaction then moves the requests that were sent (`sent`) and are owed (`owed`, with the input
that each names) and the inputs that no provider can have seen, and suspends the predecessor. A run
of the predecessor goes on, but is fenced. Everything that may cross with this is an action of its
own: an ask between its checks and its transaction (`asking`), answers that settle and return,
cancels, claims, runs that come back, steered inputs. `stranded` is the list, by name, of what
crossed with a hand-off and stayed behind; the property excepts those and nothing else. An input has
one row for each session that has a copy of it; a brief is the first input of a successor.

| part of the code | actions |
|---|---|
| `ask`, both ways | BeginAsk, CommitAsk, BeginAskOf, CommitAskOf |
| `settle`, `deliver`, `dispatch`, `reply`, `cancel` | SettleSent, DeliverReturn, DispatchRequest, Reply, CancelOwed |
| the queue, the run and steering | Claim, RunComesBack, RunEnds, SteeringSettles, RecoverUnsentSteered |
| `proposeHandoff`, `acceptHandoff`, `withdrawHandoff` | ProposeHandoff, ReadInventory, AcceptHandoff, WithdrawHandoff |
| `transferSession` | RecoverElsewhere |

**ProgressParts** and **ServiceParts** put parts side by side so that one run looks at all of them.
The parts share no state, so each behaviour moves one of them (`moving`, `part`) while the others rest
at one initial state. That each part then behaves as its own specification says is proved
(*ProgressKeepsSpecs*, *PartsKeepTheirSpecs*).

## 6. Runs

| run | shows |
|---|---|
| `ledger_slack` | two Slack messages in one session, with a Stop, a steering message, files, an archive, a drain gate and a restart: an input in line for another attempt is one the provider did not act on, unless its error handling threw (`ReplayIsProven`), session status (`RunningSessionHasLiveTurn`), uploads (`UploadsNeverStrandSession`) |
| `ledger_kinds` | a Slack message between two native inputs, the last with a higher priority, the first with receipts: the session lock (`ImplementsSessionLock`, and with it one live turn per session), and order at the provider, a turn put back in line after its end excepted (`ProviderSeesInputsInOrder`) |
| `ledger_live` | a native input with receipts and a Slack message with files and a refusable progress update, a Stop of either, one restart: the promise about an input (`ImplementsInputPromise`: among the rest, an end is taken back only where no provider acted and no outcome was shown), the ownership fence against watchdog, recovery and reconciliation (`RunHoldsItsTurn`), Stop (`StopIsHonoured`), and under fairness `GhostsAreRecovered`, and nothing waits in silence (`NoSilentStall`) |
| `stop_retry` | expected violation, see section 7 |
| `blind_replay` | expected violation, see section 7 |
| `runner_leases` | a turn and a replay safe job, two runners, two attempts, a command: custody as the coordinator reads it (`ImplementsCustody`, and with it one start per turn), the bounds of a lease (`LeaseFollowsContact`) |
| `runner_fence` | one turn with its fences, one crash of the daemon, any number of lost answers and other calls: an agent at work has its turn, and one that is stopping was told so a Grace before the lease could pass, unless the daemon died and the last contact did not name the turn (`LateOnlyWhenUncarried`). How long an agent that was told takes to be gone is not claimed |
| `fence_other_calls` | expected violation, see section 7 |
| `runner_shipping` | two overlapping copies of the daemon, two frames, a transcript event: the stored events are the journal in order (`ShippedInOrder`), and a finish with an exit means all of it (`EndedIsComplete`) |
| `progress` | the pump with two turns: `NoLostWakeUp`, and every turn that can be claimed is claimed (`EveryTurnIsClaimed`); the journal with three daemons one after another: a host that went is reported (`GoneHostIsReported`) |
| `service_parts` | every part of section 5 but the pump, one at a time, as the next table says |
| `overlap_forgets` | expected violation, see section 7 |

| part of `service_parts` | property | says |
|---|---|---|
| captures | `HeldWhileDelivering` | what a worker delivers stays with its claim until that claim's verdict |
| | `DrainedIsQuiet` | nothing is claimed or delivered behind a gate that a deployment was granted |
| steering | `NeverReceivedTwice` | no message reaches the agent twice, whichever coordinator judges it, unless its write was still on its way to the host when it was judged unsent |
| | `AcknowledgementWins` | what the provider acknowledged is not settled as failed by a close that races with it |
| breaker | `NoticeIsCurrent` | a notice that stands is about an outage that lasts |
| commands | `CarriedOutInOrder` | a client's commands are carried out in their order, unless one was let through late, or its sender was told that it was canceled or refused and a late delivery came after |
| | `ToldTheOutcome` | a command shown delivered is retained by the owner; one shown refused was not accepted, unless the owner answered two deliveries of it differently |
| custody | `AgentHasCustody` | an agent that may act is in someone's custody: its turn runs, or is parked with an execution that the next sweep finds |
| | `LatestEntrantRuns` | no run is taken back past a later one |
| | `QueueWaitsForAgent` | the queue claims nothing beside an agent that still works |
| deployment | `AnsweredTruly` | a request of a run that succeeded is answered "included" exactly if its commit was |
| | `ActivatesWhatIsDesired` | a run activates what it desires, through pushes, deaths, recoveries and repairs |
| watches | `WatchEndsOnce` | a watch settles once, and not after a cancel |
| | `RunningIsKnown` | no command runs that no row knows of |
| peers | `AnswerBeforeEndCounts` | an answer made before its turn ended is not written off |
| | `ForwardedIsHeld` | a reply that counts as forwarded is held by who asked; one that counts as refused is not held because the request ended without it, or comes from a new session |
| forks | `ReplyJoinsFork` | a reply to the anchor reaches the copy |
| | `RetriedFromDeadOwner` | a fork is made anew only after its owner's death |
| schedules | `EndedStaysEnded` | an ended schedule books nothing more |
| | `OneFiringAhead` | after each pass one that is not ended has a firing ahead, and at most one other waits |
| hand-off | `HandoffKeepsCustody` | an open obligation is with a session that may act on it and names an input it has, and no input reaches two providers, but for what crossed with a hand-off and is known by name |

Bounds of the turn ledger. `MaxAttempts` = 2: one attempt meets failures, the next runs clean; what an attempt
leaves behind for the next is one row, so a third adds no new kind of row. `MaxInstances` = 2:
one crash at any point, whose recovery may itself be interleaved with requests. Two turns of one
session are the smallest queue; three are needed for order across kinds and priorities, and a Stop,
uploads and refused updates are in the runs with two. Sessions
share nothing but the gate and the process, so one session suffices, and the theorems hold for
all. Progress updates that throw (`Refusing`) are in `ledger_slack`, `ledger_live` and `blind_replay`,
receipts (`Receipted`) in `ledger_kinds` and `ledger_live`. Deadlock is not checked because the ledger
rests when every turn has ended.

Bounds of the runners. In `runner_leases` a lease is two ticks and the clock makes three, so a lease
is extended, passes and is taken again; two attempts are one retry of the replay safe job, or one of
each. In `runner_fence` every limit is one tick but the fence (2) and the lease (6, the least the
margin allows), and the clock runs past two leases; `fence_other_calls` needs a longer fence for the
late contact to matter. In `runner_shipping` two epochs are one restart with overlap, and the lease
is one tick so that it can pass at any point; the journal of `progress` has a third copy that does
not crash. The daemon's queue and its batches need no bound beyond that of the journal. Deadlock is
not checked: a bounded clock stops.

Bounds of the parts. The pump: two turns and a slice of one claim make the queue continue after a
full slice; one throw and one requeue can fall at any point of either. Captures: two, the second of
the retired route; two claims and two processes are one repetition or take-over of each. Steering:
two inputs, a third hand-off is one that is offered again, one death. Breaker: three outages, so
that one's notice can meet the next and the one after, two crashes. Commands: two, the second a
cancel of the first or dependent on it, two claims, two workers. Custody: two runs, two
coordinators, which is one adoption, refusal or supersession. Deployment: one run (its repairs and
retries start it again), one request that may join at any point, three commits (failed, repaired,
pushed meanwhile), one death; the properties relate a run to its own commits and requests, and only
the one of section 7 that fails needs two runs. Watches: two rows are one renewal or two series, two
launches one restart of a command. Peers: one lost call; two give no violation either (two million
states). Forks: two flows are two overlapping passes, or a handler and a pass; two calls, the
second a retry, since the theorems of ForkRequests hold for any number; two processes. Schedules: three instants and firings, an interval and an expiry of
one: a firing can be late by more than an interval, overlap the next, be tried again and expire; one
firing is moved or started by hand. Hand-off: sessions and requests together at most four, so three
sessions with one request, or two with a sent and an owed one; three sessions are two hand-offs in a
row, one after a withdrawal, or a recovery elsewhere followed by one (a load of five, three million
states, gave no violation either). Deadlock is not checked: a request or a part that has ended rests.

Fairness. `FairSpec` of the turn ledger assumes weak fairness of what the event loop runs when it is due: the steps
of a run, the claim (the queue is woken by every settled run), recovery and watchdog; that the
provider and Slack answer in the end (their calls have time limits); and that a stopping process
is restarted by its supervisor. Requests, failures and crashes are never forced.
`PumpRuns` assumes that the event loop takes every callback that is ready, however many others come:
weak fairness of a slice that has begun and of the minute's round, strong fairness of the
continuation and of the end of a run, since they wait while a slice is on the stack. Timers, due
instants and admissions are not forced.
`JournalIsShipped` assumes that the daemon's loops run (reading, attaching, following, syncing,
finishing), that its supervisor restarts it, and that of the syncs sent again and again one is
answered: the strong fairness of SyncAnswered, the one promise the network makes. It does not assume
that the clock moves, that a host ends, or that a refused finish is avoided.

## 7. Findings and disagreements

Shown by a run: `stop_retry`: `retryRunningTurnAfterProviderFailure` does not look at
`stop_requested_at`, so a Stop recorded while a retryable failure is handled becomes a retry,
against SESSION-OWNER.md:52. `blind_replay`: a queue-run Slack turn whose catch block rejects is
parked as resumable whatever its admission evidence, against TURN-LIFECYCLE.md:617.
`fence_other_calls`: a call that does not carry the turn (a machine call, a project job's heartbeat)
refreshes the contact its host fences by; when the daemon then dies, the agent acts after its lease
has passed, against runner-leases.ts:33. `overlap_forgets`: a copy of the daemon that lost custody to
a newer one deletes the newer copy's record of the turn, against runner.ts:292.

Stated in a module and found violated by TLC, without a run of their own here:

* `CaptureQueue!NoStrandedRow`: a request whose answer is lost five times is given up, and the next
  round names a new claim; the row stays "sending" under the old one until the process ends
  (capture-delivery-worker.ts:317-351, 378-381, against
  docs/plans/2026-08-19-pebble-concierge-handoff.md:46-48).
* `HumanCommands!WithdrawnWasNotMade`: a creation that waits for its retry after a lost answer of the
  owner is withdrawn as one that was never made (human-command-state.ts:508-517).
* `Deployment!FailedCommitStaysOut` with two runs and `ReproducibleBuilds` = TRUE: a release found
  again under its digest is given to the new run (deployment-state.ts:913-915), which hides the
  incident of the run that activated it (comment at 974-976).
* `ForkRequests!RetriesOnlyFromDeadOwner`: two recovery passes of one process overlap (the pass of
  the start, index.ts:4000, and that of the minute, index.ts:4049): one claims the request and calls
  the provider, the other still holds the row of a dead owner and gives it back to be claimed,
  against docs/architecture/PROVIDER-SESSIONS.md:861. `RetriedFromDeadOwner`, which a run checks,
  excepts such passes.
* `SavedSchedules!CanceledNeverBegins`: when the first firing of a schedule is stopped or withdrawn, its
  request is settled as canceled, and the later firings wait for the pass at their instant to be
  withdrawn (saved-work.ts:340-345); a claim whose clock has just passed that instant takes one first
  (state.ts:5504), since only the first firing's own input is looked up (state.ts:5488).

Excepted by name in a property, because the code does not exclude it:

* `NeverReceivedTwice` excepts the inputs in `raced`: a steered input whose write is still on its way
  to the host when a successor reads that host's record is judged unsent, offered again, and then
  written as well (session-execution-host.ts:1404-1432, which reads without waiting).
* `ProviderSeesInputsInOrder` excepts the turns in `revived`: a turn that a receipt puts back in line
  after it ended (state.ts:4160-4195) may meet a later one that has been claimed and not yet offered,
  which then comes first. The code looks for later turns that were admitted, not for claimed ones.
* `ReplayIsProven` excepts the turns whose error handling threw, which `blind_replay` shows.
* `LateOnlyWhenUncarried` excepts what `fence_other_calls` shows. It speaks of when an agent is told to
  stop, since that is all the arithmetic of `RUNNER_FENCE_MS` reaches: it leaves 20 s of the lease on
  the daemon's fence and 10 s on the host's own, while a host kills an agent that ignores SIGTERM only
  after 30 s (src/bot/scripts/execution-host.ts:222-227) and `systemctl stop` has no limit of its own
  (execution-host-client.ts:278-286), which is systemd's 90 s. Such an agent can be at work when its
  turn has been settled as lost.
* `ToldTheOutcome` and `CarriedOutInOrder` except what a late delivery does to a command that is shown
  canceled or refused: the owner keeps what it accepted and nothing of what it refused
  (session-owner.ts:1090-1109, 2413-2533), so a second delivery of the same action may be accepted when
  its sender was already told it was refused; and a repetition of what was accepted can be refused
  by checks that come before the lookup.
* `ForwardedIsHeld` excepts an ask that opens a new session: the origin refuses a final whose proof names
  a session that its row does not (session-peers.ts:870-883), and the row names none until the
  acceptance is recorded (722-726, 1095-1097). The push is then refused although the request is open,
  and the answer is held only after a later poll.

Met while modelling, not stated as properties: admission of a Slack message lacks the claim's guard
on held executions (state.ts:5674; EXECUTION-HOST.md:125-141). `retryBreakerDueForProbe`
(retry-breaker-core.ts:90) has no caller outside tests. A watch's clean-up writes "stopping" and
"killed" although the signal failed, so two lost signals leave a command running; a host that
went after recording its exit is polled for ever; concurrent registrations on a runner can make two
series of one file (watches.ts:235-241). A cancel while an ask is on its way is acknowledged by a
peer that does not have the delivery yet, which then opens it (session-peers.ts:696-788; only the
recipient's notice ends it); a work request cancelled between its acceptance and its first status is
left open; a reply with files that cannot be fetched yields to a failure of its turn (953-958).

Of the hand-off, the ways in which "every open obligation is owned by exactly one live session at
every instant" (docs/plans/2026-10-13-provider-change-handoff.md:18) is not kept, which are the exceptions
that `HandoffKeepsCustody` lists by name: the fence and the reach of the target are checked before
`ask` awaits (session-communication.ts:1501, 1772) and not in the transaction that inserts the
request (1781); acceptance is not fenced (1403), so a successor that was itself superseded and still
runs takes what the first hand-off moves; only requests without an outcome move (session-handoff.ts:288),
so an answer that is settled and not delivered stays held at the suspended predecessor; a withdrawal
suspends a successor that may have been asked something itself; a run at acceptance that comes back to
the queue stays there. A request bound to the brief of a successor takes the brief with it when it is
canceled (request-liveness.ts:202-222, state.ts:5488).

## 8. Proofs

All theorems hold for every set of sessions, turns, jobs, attempts and runners and every value of
the bounds; they rest on the named assumptions of the modules.

One convention of the models is for the proofs: several fields of one row change as
`[rows EXCEPT ![r] = [@ EXCEPT !.a = .., !.b = ..]]`, never as `![r].a = .., ![r].b = ..`, and two
rows never change in one EXCEPT unless they are known to differ. The SMT translation of tlapm 1.4.5
takes the updates of one EXCEPT, and of one nested in another, to be of different indices: with
equal ones it contradicts itself and proves anything. Nor does an update nested in another use `@`
for its own field, which tlapm takes for a field of that field.

`TurnLedgerProofs` proves *TypeCorrect* (TypeOK is inductive; the proof goes variable by variable,
with lemmas for the row updates that several actions share), the session lock, the ownership fence,
the promise about an input, and what one step may do to one row.

* *LedgerImplementsLock* and *OneLiveTurn*. Each action either leaves the set of live turns as it
  is (`KeepsHands`) or changes one turn of a session that was free (`HandsOver`). Either way the
  step is a step of `SessionLock`, or a stutter. `OneHolder` is inductive in the abstract lock, and
  the refinement carries it down.
* *RunHolds*. `RunHoldsItsTurn` is not inductive: a run that has been released must be known not to
  come back, and a row that recovery takes must be known to have no run. The strengthening adds,
  per turn, what its run, its row and the present instance say of each other.
* *UploadsStrandNobody*, *LedgerKeepsPromise* and *StopHonoured*. `RowStep` says what any action leaves
  of a row; it holds of every action where `RowInv` does: a delivered mark is only on a turn that is
  being delivered or over, and uploads are owed only by a Slack turn that will settle them. Without
  that, an error handler that abandons uploads or gives a row back could meet a reply that is out.
  Its conjunct `LifeStep` is the step of one input in `InputPromise`; `PromiseStep` puts the rows together,
  with `HistoryStep` for what reached a provider: only a run that is at its provider, or about to be,
  changes that. A turn comes back from an error only where LifeStep finds no effects and no mark.
* *ProviderOrder*. `OrderInv` keeps, for a turn that is live and has not reached its provider, that
  no earlier one of its session and priority is in the way: every admission looks at the rows of
  the session, and beside a live turn a row that is out of the way stays there (`Past`).
* *RunningShowsLiveTurn*. The property is inductive beside TypeOK: an action that makes a session
  show running makes a turn of it live, and one that ends a live turn also releases its session
  (`ShowsLive`, action by action).
* *ReplayNeedsProof* proves `ReplayIsProven`: an input in line has no effects unless its error handling
  threw. The strengthening `Evidence` relates the row's admission columns to the history variable
  `effects` and to how far the run is; without it a requeued row could carry effects that only its
  run knew of. It holds of every turn but those in `thrown`; `blind_replay` shows why not of them.

`RunnerLeasesProofs` proves the runner ledger.

* *LeasesTypeCorrect*: TypeOK is inductive, from lemmas on what an update does to a row.
* *TurnStartsOnce* and *LedgerImplementsCustody* rest on `LedgerInv`: an attempt has a job exactly
  when it exists, a leased job has a live attempt and a live attempt a leased job, a job has at most
  one live attempt, and an open job has no result. Every call settles expired leases before it acts,
  so `SettledInv` first shows what the settlement leaves, and claims and finishes are judged from
  there. The calls that do no more than settle share one lemma (`Quiet`). `ViewIsSettled` says that
  a coordinator reads what a settlement would write: that makes the settlement a stutter, the
  passing of time the step `Lose` and the other calls one step each of RunnerCustody.
* *LeaseBounded* rests on `LeaseInv`: no attempt was heard of later than now. A step keeps a lease,
  moves it with a contact, starts it, or extends it when the last contact is less than one lease
  old (`LeaseStep`). That an owner's start is a stutter of RunnerCustody follows from it: what is
  extended was still held.
* The calls are also proved of without the bounds of RunnerLeases on epochs and batches (`AnyCall`).
  `CallsKeepCustody` says that whoever acts on the ledger by such calls only, leaves custody, the one
  start of a turn and the bounds of a lease as they are; the two compositions use it.

`RunnerFenceProofs` proves the fence of a runner, for every lease and every limit of time that
satisfy `MarginAssumption`.

* *FenceStands* and *AgentsAreToldInTime* rest on `FenceInv`. A call that is answered "held" has left the
  lease at least `Lease - Resolution` ahead, and its answer comes within `Answer`: so the lease reaches
  `Lease - Resolution - Answer` beyond every contact that was recorded (`Covers`), and a fence that
  tells the agent to stop `Fence` and one look of a timer after that contact leaves `Grace`. The
  daemon's own contact is good for this until the daemon first dies (`DaemonFences`), the file's as
  long as the answer that wrote it named the turn (`HostIsFenced`). What an agent does with its grace
  is not assumed: nothing bounds how long it takes to be gone, and the theorem says only when it was
  told (`AgentInTime`).
* *FencedTurnKeepsCustody*. Each step of the composition is a call on the ledger or leaves it alone
  (`TurnCallsLedger`), so what the coordinator relies on in RunnerLeases holds beside a runner that
  fences, dies and restarts.

`ProgressProofs` proves the claim pump and the shipping of a runner's journal.

* *WakeUpsAreKept* and *TurnQueueTypeCorrect* rest on `QueueInv`. NoLostWakeUp is not inductive: a
  turn that waits for an instant becomes due without anybody being told, and one whose run has
  settled is held back until that run unwinds. `Awaited` therefore promises a timer to every turn
  that waits or is due and is in no run's hands; `AtWork` and `OneAtATime` say that a slice or its
  callback belongs to a pump that runs, and never both at once. `FinishAwaits` is the one place
  where the promise is made anew; a wake needs only that it leaves a pump that runs (`WakeRuns`).
* *ShippingKeepsOrder* and *ReportIsComplete* rest on `ShippingInv`. It reads the stored events as the
  frames they are (`Log`): frames in step say how much of the journal came so far (`InStep`), and
  `FramesCount` shows, by the least place that would not, that this is their number. The newest copy
  starts from that log or has made a continuation of it that ends at its place in the journal
  (`Newest`); what older copies still send is refused, and their frames matter no more. A copy that
  finishes with an exit has the whole record of a host that is gone, and calls only when all of it
  is acknowledged, so the log ends where the journal does (`CompleteAtOwner`).
* *ShippedTurnKeepsCustody*. The copies of a daemon, each under an epoch of its own, act on the ledger
  by calls only (`ShippingCallsLedger`).
* *ProgressKeepsSpecs*: side by side, each of the two behaves as its own specification says.

`WorkProofs` proves the custody of agents, the deployment, the watches and the repeating schedules.

* *CustodyTypeCorrect*: the type invariant is inductive.
* *WorkingAgentsAreHeld*, *RunsAreLatest* and *QueueWaits* rest on `CustodyInv`. A coordinator that
  starts does not serve before its sweep is through, so the working agents of its predecessor that
  have no host of their own are still before the sweep (`Recovers`), and what the sweep read of the
  one it probes still holds. A turn that is still to run has no later turn in its conversation
  (`NoneEnteredLater`), since turns are accepted and claimed in order and a parked one comes back
  only if none came after it.
* *AskedAreAnswered* and *DesiredIsActivated* rest on *DeploymentHolds* (`DeployInv`). A request has its
  state from its run (`RequestOK`), so whatever ends a run must answer every request that joined it,
  those too that came while git was being asked. A runner past its claim owns its run
  and a supervisor at work the run it repairs, unless the run is over (`RunnerOK`, `SupervisorOK`):
  so a claim, a recovery or a retry finds no other driver in the middle of a candidate, and a runner
  that has taken a repair's commit still builds what the run desires.
* *DeployTypeCorrect* needs bounds beside it (`DeployBounds`), on the commits that rows, requests and
  marks name and on how often a repair met the same failure: what is counted up to its bound is over.
* *WatchTypeCorrect*, *CommandsAreKnown* and *WatchesEndOnce* rest on `WatchInv`. For a command it says
  that a host past its intent has a name (`HostsAreNamed`) and that a poll which is to launch or to
  clean up still knows what became of the process it read about (`PollKnows`). For a file it says
  that a series has one last watch: rows move only by opening a first watch, by renewing the last
  into the next, or by ending (`RowsMove`), and a poll that settles a row which ended does nothing.
* *ScheduleTypeCorrect*, *EndedScheduleIsFinal* and *PassLeavesOneAhead* rest on `ScheduleInv`: what an
  ended schedule has waiting had begun (`EndIsFinal`), a firing that has not begun waits for its own
  instant and keeps its time of grace (`RowsAgree`), and one such waits behind the latest
  (`OneWaits`). Every operation either books or moves single firings (`Operations`); what a booking
  adds lies after now, which is the one argument about division (`SuccessorWaits`).

`RequestsProofs` proves the requests between instances, the fork requests and the hand-off of a session.

* *RepliesAreHeld*, *TimelyAnswerCounts* and *PeersAgree* rest on `AnswerInv`. It relates the two
  ledgers through what is on its way: a push that was answered "recorded" means that the origin
  holds the reply, a status that was read is still true of a turn that ended, and a reply read as
  absent was made later than the end read with it. A reply made while its turn runs is seen by every
  read that sees the end of that turn, which is what makes a timely answer count.
* *ForkTypeCorrect*, *ReplyReachesFork* and *RetriesAfterDeath* rest on `ForkInv`. The anchor is
  posted only by who wrote so into the row first (`tried`), and such a row is behind the barrier until
  it is bound or given up: so its thread gets no session before (`AnchorAgrees`). A pass that read the
  row as forking under a dead owner still finds it so, or finds it in a status that is never claimed
  again (`FoundAbandoned`), unless another pass was there; and a second one is noticed (`OnePass`).
* *HandoffTypeCorrect* and *CustodyThroughHandoff* rest on `HandoffInv`. A line grows in order and every
  session comes from an earlier one (`LineIsPrefix`, `RowsRise`), so a successor that is new, or that
  takes more, has no successor of its own, and whoever is fenced is suspended (`FencedRest`). What was
  never asked or delivered has no input yet (`SentHeld`, `OwedHeld`, `BriefsGiven`), and an input waits, runs
  or ended in one place at most (`OnePlace`), where it also was if a provider got it (`ReachedDone`).
  Given these, `AcceptRows` reads off the acknowledged inventory that everything open and everything
  that waits goes along: this is where the second comparison of the digest, inside the transaction, is
  needed. Where the line ends (`LineEnd`, a recursion the provers cannot follow) does not matter: it is
  enough that the code asks whether that session is suspended, which a fenced one is.

`InputPartsProofs` proves the parts that take inputs in and try again.

* *CaptureStaysHeld* and *ClosedGateIsQuiet* rest on `CaptureInv`. A request that bears the worker's
  claim was sent by the worker's process and carries no verdict but the one being settled (`OwnClaim`,
  from claims being named once): so no other request can move the row in hand, and a recovery only
  touches rows whose process is gone.
* *AcknowledgementStands* and *InputsReachAgentOnce* rest on what ties the controller to the rows
  (`OneInHand`, `RowsInHand`: how far the row of an input in hand came), on an input having a row that
  may have reached the agent only while it is attached to a run (`Attached`), and on the host's
  record: what is on its way to the agent was neither received nor given up (`Untouched`).
  All of this is said of the inputs that are not in `raced` (`SentOnce`); what becomes of those is in
  section 7.
* *CommandsAgree*, *OutcomeIsTold* and *InOrderAlways* rest on `CommandInv`. A command without a kept
  preparation was never on its way to the owner (`Untried`), and a worker that has claimed one finds it
  prepared or not as the row says; a "delivered" on its way follows a decision the owner keeps, a
  "refused" a refusal it gave (`turnedDown`) or one for which its claim no longer counts, and a claim
  that was refused has no preparation on its way (`VerdictTrue`). Whatever came
  into a worker's hands was the head of the stream or let through late, and what lies behind the head
  is settled or was declared missing (`InPlace`); that the head moves only over such places is the one
  argument that needs the stream to be finite (`AdvancedIs`).
* *NoticesAreCurrent* rests on `BreakerInv`: between the publication of a notice and its mark, and
  between the end of an outage and the end of its notices, the open notice is known by the step.

`ServiceProofs` proves of the parts together what is proved of each. *PartsKeepTheirSpecs*: a step of
the composition is a step of one part and a stutter of the others, so every part behaves as its own
specification says. *PartsTypeCorrect*, *PartsAreSafe* and *PartsMoveSafely* state the properties of the
run `service_parts` of `PartsSpec` itself.

Every safety and action property of the passing runs is thus a theorem, and so are the three
refinements. Only model-checked is what rests on fairness: `NoSilentStall`, `GhostsAreRecovered`,
`EveryTurnIsClaimed` and `GoneHostIsReported`. The prover handles neither liveness and ENABLED nor
induction over data. No theorem has a hypothesis beside those
named assumptions; what the code does not ensure is excepted in the property (section 7).

## 9. Not modelled

Left out of the modules of section 5. ExecutionCustody: the protocols of hosts, the supervisors of
Codex and ChatGPT, launchd's files. Steering: attachments, images, model switches, Codex's own
history. CaptureQueue: what a capture says, the instants of retries. RetryBreaker: the schedule of
a policy, which is a choice. HumanCommands: giving up after too many attempts and resuming,
cancelPending, the terminal outbox, why the owner refuses (a choice). Deployment: a death between the
three writes of `parkDeploymentRepair` (deployment-state.ts:1355-1383, one step here), a rewritten main, the instant an automatic run
starts, the recovery of the control files, reactions, notices and wakes, the gates meanwhile; the
two places that launch a repair are one action. Watches: watches of a file that do not renew, the
delivery of a wake (known by its input id), gaps and cursors of observations, pruning, a runner that
restarts in the middle of a start. PeerRequests: progress replies and questions of a turn, ChatGPT
obligations and corrections, peers of older versions with their holds and receipts, reminders, stalls, catalogues, final replies that
are inferred and superseded, answers by a turn of their own.
ForkRequests: the choice of the parent's point and the configuration that the copy inherits.
SavedSchedules: banked work with its allowance windows, quiet hours and continuations, alerts, a
change of the interval, the one schedule of a standing role, other work of the session (the claim
need not come). SessionHandoff: worktrees and Lab records (only referenced), watches in the inventory,
requests of peers and from outside, schedules, which move in place, continuations that are obsolete,
banked work (which blocks an acceptance as evidence of an admission does), the Inbox role, pauses.

Components without a module are listed in PROJECT.json with their reason: read models, history and
rendering derive text from the ledger; the durability of SQLite is taken as given;
routed requests, project set-up, list sync, speech jobs and ChatGPT obligations are
candidates of the plan or, where their steps are files and text, of little use to TLC.
