----------------------------- MODULE Deployment -----------------------------
(* Deployment of the service (deployment-state.ts): pushes move the commit    *)
(* that is desired, one run at a time installs a commit, and a repair         *)
(* supervisor owns a run whose candidate failed.  The runner (scripts/        *)
(* deploy.sh) and the supervisor are processes of their own, each of which    *)
(* may die between two of its commands; the ledger sees only the commands.    *)
(* Commits are numbered along main, which is never rewritten here.            *)
EXTENDS Naturals, FiniteSets

CONSTANTS
    DeployRuns,         \* 1..n, in the order they are prepared
    DeployRequests,     \* turns that ask for a deployment
    MaxCommit,          \* bound: commits of main
    MaxRunnerDeaths,    \* bound: how often a runner or a supervisor dies
    ReproducibleBuilds  \* whether a commit built again has the digest it had

ASSUME DeploymentAssumption ==
    /\ DeployRuns \subseteq Nat \ {0} /\ MaxCommit \in Nat \ {0} /\ MaxRunnerDeaths \in Nat
    /\ ReproducibleBuilds \in BOOLEAN

VARIABLES
    mainHead,           \* the last commit pushed to main
    desiredCommit,      \* deployment_desired_state
    lastKnownGood,      \* the commit of the release in state 'lkg'
    deployRun,          \* deployment_runs, each with its repair incident
    deployRequest,      \* deployment_requests
    releaseRun,         \* the run named by the row of a commit's last activated release
    deployRunner,       \* the process that carries a run out
    supervisor,         \* the repair supervisor
    completion,         \* a completion whose ancestry questions git has answered
    lastActivation,     \* history: the run that last activated a commit
    runnerDeaths        \* bound

deployVars == <<mainHead, desiredCommit, lastKnownGood, deployRun, deployRequest, releaseRun, deployRunner,
                supervisor, completion, lastActivation, runnerDeaths>>
ledgerRest == <<mainHead, desiredCommit, lastKnownGood, releaseRun, lastActivation>>

NoRun == 0
NoCommit == 0
Commits == 1..MaxCommit
Phases == <<"prepared", "draining", "updating", "restarting", "verifying", "releasing">>
ActiveStatuses == {Phases[i] : i \in DOMAIN Phases}

DeployTypeOK ==
    /\ {mainHead, desiredCommit, lastKnownGood} \subseteq Commits
    /\ deployRun \in [DeployRuns ->
           [status : ActiveStatuses \cup {"absent", "succeeded", "failed", "ambiguous"}, desired : 0..MaxCommit,
            owner : {"none", "runner", "supervisor"}, activation : {"none", "intended", "active"},
            candidate : 0..MaxCommit, deployed : 0..MaxCommit,
            repair : {"none", "restored", "repairing", "retrying", "parked"}, incident : {"none", "open", "closed"},
            failed : 0..MaxCommit, same : 0..3, fix : 0..MaxCommit, attempts : 0..3]]
    /\ deployRequest \in [DeployRequests -> [run : DeployRuns \cup {NoRun}, expected : 0..MaxCommit,
                                             status : {"none", "pending", "included", "not_included", "failed"}]]
    /\ releaseRun \in [Commits -> DeployRuns \cup {NoRun}] /\ lastActivation \in [Commits -> DeployRuns \cup {NoRun}]

DeployInit ==
    /\ mainHead = 1 /\ desiredCommit = 1 /\ lastKnownGood = 1
    /\ deployRun = [r \in DeployRuns |->
           [status |-> "absent", desired |-> NoCommit, owner |-> "none", activation |-> "none", candidate |-> NoCommit,
            deployed |-> NoCommit, repair |-> "none", incident |-> "none", failed |-> NoCommit, same |-> 0,
            fix |-> NoCommit, attempts |-> 0]]
    /\ deployRequest = [q \in DeployRequests |-> [run |-> NoRun, expected |-> NoCommit, status |-> "none"]]
    /\ releaseRun = [c \in Commits |-> NoRun] /\ lastActivation = [c \in Commits |-> NoRun]
    /\ deployRunner = [run |-> NoRun, step |-> "gone", commit |-> 1]
    /\ supervisor = [run |-> NoRun, step |-> "gone"]
    /\ completion = {} /\ runnerDeaths = 0

Status(r) == deployRun[r].status
ActiveRuns == {r \in DeployRuns : Status(r) \in ActiveStatuses}
RunnerHolds(r) == deployRunner.run = r /\ deployRunner.step \notin {"gone", "claim"}
SupervisorHolds(r) == supervisor.run = r /\ supervisor.step \notin {"gone", "claim"}
DriverAlive(r) == (deployRun[r].owner = "runner" /\ RunnerHolds(r)) \/ (deployRun[r].owner = "supervisor" /\ SupervisorHolds(r))
JoinedTo(r) == {q \in DeployRequests : deployRequest[q].run = r}

SettleRequests(r, StatusFor(_)) ==
    deployRequest' = [q \in DeployRequests |->
        IF q \in JoinedTo(r) /\ deployRequest[q].status = "pending"
        THEN [deployRequest[q] EXCEPT !.status = StatusFor(q)] ELSE deployRequest[q]]

-----------------------------------------------------------------------------
(* What is asked for.                                                         *)
Push ==
    /\ mainHead < MaxCommit /\ mainHead' = mainHead + 1
    /\ UNCHANGED <<desiredCommit, lastKnownGood, deployRun, deployRequest, releaseRun, deployRunner, supervisor,
                   completion, lastActivation, runnerDeaths>>

FollowsUnlessRepaired(r) == deployRun[r].repair = "none"

\* A run that has neither intended an activation nor entered a repair follows the push.
Follows(r) == deployRun[r].activation = "none" /\ deployRun[r].repair = "none"

ObserveDesiredCommit(c) ==
    /\ c \in desiredCommit + 1..mainHead
    /\ desiredCommit' = c
    /\ deployRun' = [r \in DeployRuns |-> IF r \in ActiveRuns /\ Follows(r) THEN [deployRun[r] EXCEPT !.desired = c]
                                          ELSE deployRun[r]]
    /\ UNCHANGED <<mainHead, lastKnownGood, deployRequest, releaseRun, deployRunner, supervisor, completion,
                   lastActivation, runnerDeaths>>

NextRun(r) == Status(r) = "absent" /\ \A s \in DeployRuns : s < r => Status(s) # "absent"

PreparedRun(r, c) == [deployRun EXCEPT ![r] = [@ EXCEPT !.status = "prepared", !.desired = c]]

\* A turn's request joins the active run, whatever its phase, or prepares one.
RequestDeployment(q) ==
    /\ deployRequest[q].status = "none"
    /\ \E r \in DeployRuns, c \in 1..mainHead :
        /\ IF ActiveRuns = {} THEN NextRun(r) /\ deployRun' = PreparedRun(r, NoCommit)
           ELSE r \in ActiveRuns /\ UNCHANGED deployRun
        /\ deployRequest' = [deployRequest EXCEPT ![q] = [run |-> r, expected |-> c, status |-> "pending"]]
    /\ UNCHANGED <<ledgerRest, deployRunner, supervisor, completion, runnerDeaths>>

RequestOperatorDeployment(r) ==
    /\ ActiveRuns = {} /\ NextRun(r)
    /\ deployRun' = PreparedRun(r, NoCommit)
    /\ UNCHANGED <<ledgerRest, deployRequest, deployRunner, supervisor, completion, runnerDeaths>>

RequestAutomaticDeployment(r) ==
    /\ ActiveRuns = {} /\ NextRun(r) /\ desiredCommit # lastKnownGood
    /\ ~\E s \in DeployRuns : Status(s) \in {"failed", "ambiguous"} /\ deployRun[s].desired = desiredCommit
    /\ deployRun' = PreparedRun(r, desiredCommit)
    /\ UNCHANGED <<ledgerRest, deployRequest, deployRunner, supervisor, completion, runnerDeaths>>

-----------------------------------------------------------------------------
(* How a run ends badly, or passes to its repair.                             *)
Fail(r, row, outcome) ==
    /\ deployRun' = [deployRun EXCEPT ![r] = [row EXCEPT !.status = outcome]]
    /\ SettleRequests(r, LAMBDA q : "failed")

\* Three writes in the code, of the incident, the run's repair state and the run; taken as one.
Park(r, row) == Fail(r, [row EXCEPT !.repair = "parked", !.incident = "closed"], "failed")

\* The same failure for the third time parks the repair.
BeginRepair(r, failedCommit) ==
    /\ r \in ActiveRuns
    /\ \E same \in {1, deployRun[r].same + 1} :
        LET row == [deployRun[r] EXCEPT !.status = "releasing", !.repair = "restored", !.incident = "open",
                                        !.failed = failedCommit, !.same = same, !.fix = NoCommit]
        IN  IF same >= 3 THEN Park(r, row)
            ELSE deployRun' = [deployRun EXCEPT ![r] = row] /\ UNCHANGED deployRequest

RunnerGoes(step) == deployRunner' = [deployRunner EXCEPT !.step = step]

-----------------------------------------------------------------------------
(* scripts/deploy.sh: its commands, one after the other.                      *)
LaunchRunner(r) ==
    /\ deployRunner.step = "gone" /\ Status(r) = "prepared"
    /\ deployRun[r].repair = "none" \/ (deployRun[r].repair = "retrying" /\ supervisor = [run |-> r, step |-> "retry"])
    /\ deployRunner' = [deployRunner EXCEPT !.run = r, !.step = "claim"]
    /\ UNCHANGED <<ledgerRest, deployRun, deployRequest, supervisor, completion, runnerDeaths>>

LaunchFails(r) ==
    /\ deployRunner.step = "gone" /\ Status(r) = "prepared" /\ deployRun[r].repair = "none"
    /\ IF deployRun[r].desired = NoCommit THEN Fail(r, deployRun[r], "failed") ELSE BeginRepair(r, deployRun[r].desired)
    /\ UNCHANGED <<ledgerRest, deployRunner, supervisor, completion, runnerDeaths>>

ClaimDeploymentRun(r) ==
    /\ deployRunner.step = "claim" /\ deployRunner.run = r
    /\ LET row == deployRun[r]
           free == row.status = "prepared" /\ row.owner = "none"
           reclaimed == r \in ActiveRuns /\ row.repair \in {"none", "retrying"} /\ ~DriverAlive(r)
       IN  IF ~free /\ ~reclaimed THEN RunnerGoes("gone") /\ UNCHANGED deployRun
           ELSE /\ deployRun' = [deployRun EXCEPT ![r] = [@ EXCEPT !.status = "draining", !.owner = "runner"]]
                /\ RunnerGoes(IF row.activation = "none" THEN "drain" ELSE "recover")
    /\ UNCHANGED <<ledgerRest, deployRequest, supervisor, completion, runnerDeaths>>

\* A phase follows the one before it; what the runner does next.
RecordPhase(step, phase, next) ==
    /\ deployRunner.step = step
    /\ LET r == deployRunner.run
       IN  /\ \E i \in 1..5 : Status(r) = Phases[i] /\ phase = Phases[i + 1]
           /\ deployRun' = [deployRun EXCEPT ![r].status = phase]
    /\ RunnerGoes(next)
    /\ UNCHANGED <<ledgerRest, deployRequest, supervisor, completion, runnerDeaths>>

Checkout ==
    /\ deployRunner.step = "checkout"
    /\ LET desired == deployRun[deployRunner.run].desired
       IN  deployRunner' = [deployRunner EXCEPT !.step = "build", !.commit = IF desired = NoCommit THEN mainHead ELSE desired]
    /\ UNCHANGED <<ledgerRest, deployRun, deployRequest, supervisor, completion, runnerDeaths>>

\* A release found again under its digest is given to this run.
PrepareRelease ==
    /\ deployRunner.step = "build"
    /\ LET c == deployRunner.commit
       IN  releaseRun' = IF ReproducibleBuilds /\ releaseRun[c] # NoRun THEN [releaseRun EXCEPT ![c] = deployRunner.run]
                         ELSE releaseRun
    /\ RunnerGoes("intend")
    /\ UNCHANGED <<mainHead, desiredCommit, lastKnownGood, deployRun, deployRequest, supervisor, completion,
                   lastActivation, runnerDeaths>>

SupersededBy(r, c) == deployRun[r].repair = "none" /\ deployRun[r].desired \notin {NoCommit, c}

FailedBefore(c) == \E s \in DeployRuns : s = releaseRun[c] /\ deployRun[s].incident # "none" /\ deployRun[s].failed = c

IntendActivation ==
    /\ deployRunner.step = "intend"
    /\ LET r == deployRunner.run
           c == deployRunner.commit
       IN  IF SupersededBy(r, c) THEN RunnerGoes("checkout") /\ UNCHANGED deployRun
           ELSE IF FailedBefore(c) THEN RunnerGoes("refused") /\ UNCHANGED deployRun
           ELSE /\ deployRun' = [deployRun EXCEPT ![r] = [@ EXCEPT !.candidate = c, !.activation = "intended"]]
                /\ RunnerGoes("activate")
    /\ UNCHANGED <<ledgerRest, deployRequest, supervisor, completion, runnerDeaths>>

Activate ==
    /\ deployRunner.step = "activate"
    /\ LET r == deployRunner.run
           c == deployRunner.commit
       IN  /\ deployRun' = [deployRun EXCEPT ![r].activation = "active"]
           /\ releaseRun' = [releaseRun EXCEPT ![c] = r] /\ lastActivation' = [lastActivation EXCEPT ![c] = r]
    /\ RunnerGoes("restart")
    /\ UNCHANGED <<mainHead, desiredCommit, lastKnownGood, deployRequest, supervisor, completion, runnerDeaths>>

Promote ==
    /\ deployRunner.step = "promote"
    /\ lastKnownGood' = deployRunner.commit
    /\ RunnerGoes("succeed")
    /\ UNCHANGED <<mainHead, desiredCommit, deployRun, deployRequest, releaseRun, supervisor, completion,
                   lastActivation, runnerDeaths>>

\* The owner asks git about the requests it sees; the runner waits for the answer.
ProveCompletion ==
    /\ deployRunner.step = "succeed" /\ completion = {}
    /\ completion' = {[run |-> deployRunner.run, commit |-> deployRunner.commit, asked |-> JoinedTo(deployRunner.run)]}
    /\ RunnerGoes("answer")
    /\ UNCHANGED <<ledgerRest, deployRun, deployRequest, supervisor, runnerDeaths>>

CompleteWithoutAskingAgain ==
    /\ \E p \in completion :
        LET r == p.run
            row == deployRun[r]
        IN  IF row.status # "releasing" THEN completion' = {} /\ UNCHANGED <<deployRun, deployRequest, desiredCommit>>
            ELSE /\ completion' = {}
                 /\ deployRun' = [deployRun EXCEPT ![r] =
                        [row EXCEPT !.status = "succeeded", !.deployed = p.commit, !.repair = "none",
                                    !.incident = IF row.incident = "open" THEN "closed" ELSE row.incident]]
                 /\ SettleRequests(r, LAMBDA q : IF q \in p.asked /\ deployRequest[q].expected <= p.commit
                                                 THEN "included" ELSE "not_included")
                 /\ desiredCommit' = IF desiredCommit < p.commit THEN p.commit ELSE desiredCommit
    /\ UNCHANGED <<mainHead, lastKnownGood, releaseRun, supervisor, lastActivation, runnerDeaths, deployRunner>>

\* Requests that joined meanwhile are asked about before the run ends.
CompleteDeploymentRun ==
    /\ \E p \in completion :
        LET r == p.run
            row == deployRun[r]
        IN  IF row.status # "releasing" THEN completion' = {} /\ UNCHANGED <<deployRun, deployRequest, desiredCommit>>
            ELSE IF JoinedTo(r) # p.asked THEN
                 completion' = {[p EXCEPT !.asked = JoinedTo(r)]} /\ UNCHANGED <<deployRun, deployRequest, desiredCommit>>
            ELSE /\ completion' = {}
                 /\ deployRun' = [deployRun EXCEPT ![r] =
                        [row EXCEPT !.status = "succeeded", !.deployed = p.commit, !.repair = "none",
                                    !.incident = IF row.incident = "open" THEN "closed" ELSE row.incident]]
                 /\ SettleRequests(r, LAMBDA q : IF q \in p.asked /\ deployRequest[q].expected <= p.commit
                                                 THEN "included" ELSE "not_included")
                 /\ desiredCommit' = IF desiredCommit < p.commit THEN p.commit ELSE desiredCommit
    /\ UNCHANGED <<mainHead, lastKnownGood, releaseRun, supervisor, lastActivation, runnerDeaths, deployRunner>>

AnswerArrives ==
    /\ deployRunner.step = "answer" /\ completion = {}
    /\ RunnerGoes(IF Status(deployRunner.run) = "succeeded" THEN "gone" ELSE "fail")
    /\ UNCHANGED <<ledgerRest, deployRun, deployRequest, supervisor, completion, runnerDeaths>>

\* Any command may fail: the last known good release is restored and the run handed to its repair, or it is failed.
RunnerFails ==
    /\ deployRunner.step \notin {"gone", "claim"}
    /\ LET r == deployRunner.run
           row == deployRun[r]
       IN  \/ BeginRepair(r, IF deployRunner.step = "recover" THEN row.candidate ELSE deployRunner.commit)
           \/ r \in ActiveRuns /\ \E outcome \in {"failed", "ambiguous"} : Fail(r, row, outcome)
           \/ r \notin ActiveRuns /\ UNCHANGED <<deployRun, deployRequest>>
    /\ RunnerGoes("gone")
    /\ UNCHANGED <<ledgerRest, supervisor, completion, runnerDeaths>>

RunnerDies ==
    /\ deployRunner.step # "gone" /\ runnerDeaths < MaxRunnerDeaths
    /\ RunnerGoes("gone") /\ runnerDeaths' = runnerDeaths + 1
    /\ UNCHANGED <<ledgerRest, deployRun, deployRequest, supervisor, completion>>

-----------------------------------------------------------------------------
(* Recovery of a run whose driver died: by the coordinator, and before the    *)
(* service starts (scripts/recover-deployment.ts).                            *)
RecoverDeadRun(r) ==
    /\ r \in ActiveRuns /\ Status(r) # "prepared" /\ ~DriverAlive(r)
    /\ LET row == deployRun[r]
       IN  deployRun' = [deployRun EXCEPT ![r] =
               IF row.repair = "retrying" /\ row.activation # "none" THEN row
               ELSE IF row.repair \in {"none", "retrying"} THEN [row EXCEPT !.status = "prepared", !.owner = "none"]
               ELSE [row EXCEPT !.status = "releasing", !.repair = "repairing", !.owner = "none"]]
    /\ UNCHANGED <<ledgerRest, deployRequest, deployRunner, supervisor, completion, runnerDeaths>>

RecoverInterruptedCandidate(r) ==
    /\ r \in ActiveRuns /\ Status(r) # "prepared" /\ ~DriverAlive(r)
    /\ deployRun[r].repair \in {"none", "retrying"} /\ deployRun[r].activation # "none"
    /\ BeginRepair(r, deployRun[r].candidate)
    /\ UNCHANGED <<ledgerRest, deployRunner, supervisor, completion, runnerDeaths>>

-----------------------------------------------------------------------------
(* deployment-repair-supervisor.ts.                                           *)
Supervisor(step) == supervisor' = [supervisor EXCEPT !.step = step]

Repairable(r) ==
    deployRun[r].incident = "open"
    /\ (Status(r) = "releasing" \/ (Status(r) = "prepared" /\ deployRun[r].repair = "retrying"))

LaunchRepair(r) ==
    /\ supervisor.step = "gone" /\ Repairable(r)
    /\ supervisor' = [run |-> r, step |-> "claim"]
    /\ UNCHANGED <<ledgerRest, deployRun, deployRequest, deployRunner, completion, runnerDeaths>>

\* Another process's claim; the third that leads nowhere is the last.
ClaimRepair ==
    /\ supervisor.step = "claim"
    /\ LET r == supervisor.run
           row == deployRun[r]
       IN  IF ~Repairable(r) \/ DriverAlive(r) THEN Supervisor("gone") /\ UNCHANGED <<deployRun, deployRequest>>
           ELSE IF row.attempts >= 3 THEN Park(r, row) /\ Supervisor("gone")
           ELSE /\ deployRun' = [deployRun EXCEPT ![r] =
                       [row EXCEPT !.attempts = row.attempts + 1,
                                   !.repair = IF row.status = "prepared" THEN row.repair ELSE "repairing",
                                   !.owner = IF row.status = "prepared" THEN row.owner ELSE "supervisor"]]
                /\ Supervisor(IF row.status = "prepared" THEN "retry" ELSE "repair")
                /\ UNCHANGED deployRequest
    /\ UNCHANGED <<ledgerRest, deployRunner, completion, runnerDeaths>>

\* A commit that follows the failed one, new or already pushed, is put on main.
RecordRepairCommit ==
    /\ supervisor.step = "repair" /\ Repairable(supervisor.run)
    /\ LET r == supervisor.run
           row == deployRun[r]
       IN  \E fix \in row.failed + 1..mainHead + 1 :
            /\ fix <= MaxCommit
            /\ deployRun' = [deployRun EXCEPT ![r] = [row EXCEPT !.fix = fix, !.repair = "repairing",
                                                                 !.attempts = IF row.fix # fix THEN 1 ELSE row.attempts]]
            /\ mainHead' = IF fix > mainHead THEN fix ELSE mainHead
    /\ Supervisor("integrated")
    /\ UNCHANGED <<desiredCommit, lastKnownGood, releaseRun, lastActivation, deployRequest, deployRunner, completion,
                   runnerDeaths>>

\* The run goes back to the start with the repair as what is desired.
Retried(row) == [row EXCEPT !.status = "prepared", !.repair = "retrying", !.owner = "none", !.deployed = NoCommit,
                            !.candidate = NoCommit, !.activation = "none", !.desired = row.fix]

PrepareRetry ==
    /\ supervisor.step = "integrated" /\ deployRun[supervisor.run].incident = "open"
    /\ Status(supervisor.run) = "releasing"
    /\ deployRun' = [deployRun EXCEPT ![supervisor.run] = Retried(deployRun[supervisor.run])]
    /\ Supervisor("retry")
    /\ UNCHANGED <<ledgerRest, deployRequest, deployRunner, completion, runnerDeaths>>

\* The retry's runner has ended: the repair goes on with the new failure, or is over.
RetryEnded ==
    /\ supervisor.step = "retry" /\ deployRunner.step = "gone"
    /\ LET r == supervisor.run
           row == deployRun[r]
       IN  CASE row.status = "releasing" /\ row.repair = "restored" ->
                  Supervisor("repair") /\ UNCHANGED deployRequest
                  /\ deployRun' = [deployRun EXCEPT ![r] = [@ EXCEPT !.repair = "repairing", !.owner = "supervisor"]]
             [] row.repair = "retrying" /\ row.status \in ActiveStatuses /\ row.activation # "none" ->
                  Supervisor("retry") /\ BeginRepair(r, row.candidate)
             [] row.repair = "retrying" /\ row.status \in ActiveStatuses /\ row.activation = "none" ->
                  Supervisor("gone") /\ UNCHANGED deployRequest
                  /\ deployRun' = [deployRun EXCEPT ![r] = [@ EXCEPT !.status = "prepared", !.owner = "none"]]
             [] OTHER -> /\ Supervisor("gone")
                         /\ IF row.status \in ActiveStatuses THEN Park(r, row)
                            ELSE deployRun' = [deployRun EXCEPT ![r].incident = "closed"] /\ UNCHANGED deployRequest
    /\ UNCHANGED <<ledgerRest, deployRunner, completion, runnerDeaths>>

\* Its attempt stops for good, or its process dies with the runner it started.
SupervisorStops ==
    /\ supervisor.step \in {"repair", "integrated"} /\ deployRun[supervisor.run].incident = "open"
    /\ Park(supervisor.run, deployRun[supervisor.run]) /\ Supervisor("gone")
    /\ UNCHANGED <<ledgerRest, deployRunner, completion, runnerDeaths>>

SupervisorDies ==
    /\ supervisor.step # "gone" /\ runnerDeaths < MaxRunnerDeaths
    /\ Supervisor("gone") /\ runnerDeaths' = runnerDeaths + 1
    /\ deployRunner' = IF supervisor.step = "retry" THEN [deployRunner EXCEPT !.step = "gone"] ELSE deployRunner
    /\ UNCHANGED <<ledgerRest, deployRun, deployRequest, completion>>

DeployNext ==
    \/ Push
    \/ \E c \in Commits : ObserveDesiredCommit(c)
    \/ \E q \in DeployRequests : RequestDeployment(q)
    \/ \E r \in DeployRuns :
        \/ RequestOperatorDeployment(r) \/ RequestAutomaticDeployment(r)
        \/ LaunchRunner(r) \/ LaunchFails(r) \/ ClaimDeploymentRun(r)
        \/ RecoverDeadRun(r) \/ RecoverInterruptedCandidate(r) \/ LaunchRepair(r)
    \/ RecordPhase("drain", "updating", "checkout") \/ RecordPhase("restart", "restarting", "verify")
    \/ RecordPhase("verify", "verifying", "release") \/ RecordPhase("release", "releasing", "promote")
    \/ Checkout \/ PrepareRelease \/ IntendActivation \/ Activate \/ Promote
    \/ ProveCompletion \/ CompleteDeploymentRun \/ AnswerArrives \/ RunnerFails \/ RunnerDies
    \/ ClaimRepair \/ RecordRepairCommit \/ PrepareRetry \/ RetryEnded \/ SupervisorStops \/ SupervisorDies

DeploySpec == DeployInit /\ [][DeployNext]_deployVars

-----------------------------------------------------------------------------
(* Every turn that asked for a deployment is answered when its run ends, and  *)
(* truly: whatever joined while git was being asked about the others, a       *)
(* request of a run that succeeded is "included" exactly if its commit was.   *)
AnsweredTruly ==
    \A q \in DeployRequests : deployRequest[q].run # NoRun =>
        LET row == deployRun[deployRequest[q].run]
        IN  /\ deployRequest[q].status = "pending" <=> row.status \in ActiveStatuses
            /\ row.status = "succeeded" => (deployRequest[q].status = "included" <=> deployRequest[q].expected <= row.deployed)

(* A push that comes while a candidate is built sends the run back to build   *)
(* it; one that comes later waits: what a run activates is what it desires,   *)
(* through deaths of its runner, recoveries and retries of a repair.          *)
ActivatesWhatIsDesired ==
    \A r \in ActiveRuns : deployRun[r].activation # "none" /\ deployRun[r].desired # NoCommit =>
        deployRun[r].candidate = deployRun[r].desired

(* "A commit whose most recent activation, in any run, failed (its run's      *)
(* incident names it) is never activated again unchanged"                     *)
(* (deployment-state.ts:974-976).                                             *)
FailedCommitStaysOut ==
    [][\A c \in Commits :
        LET s == lastActivation[c]
        IN  s # NoRun /\ deployRun[s].incident # "none" /\ deployRun[s].failed = c =>
                ~\E r \in DeployRuns : deployRun[r].activation # "active" /\ deployRun'[r].activation = "active"
                                       /\ deployRun'[r].candidate = c]_deployVars

=============================================================================
