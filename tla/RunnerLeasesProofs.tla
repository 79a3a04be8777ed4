------------------------- MODULE RunnerLeasesProofs -------------------------
(* The runner ledger for every set of jobs, attempts, runners and commands,   *)
(* every lease and every bound: types, one start of a turn, the bounds of a   *)
(* lease, and the refinement of RunnerCustody.                                *)
EXTENDS RunnerLeases, TLAPS

-----------------------------------------------------------------------------
(* Rows and what a settlement writes into them.                              *)

LEMMA AttemptFields ==
    ASSUME NEW row \in AttemptRow
    PROVE  /\ row.state \in {"absent", "live", "finished", "expired"}
           /\ row.job \in Jobs \cup {"none"}
           /\ row.epoch \in Nat /\ row.lease \in Nat /\ row.contact \in Nat
           /\ row.started \in Nat /\ row.acked \in Nat
           /\ DOMAIN row = {"state", "job", "runner", "epoch", "lease", "contact", "started", "acked"}
BY DEF AttemptRow

LEMMA AttemptUpdates ==
    ASSUME NEW row \in AttemptRow, NEW n \in Nat, NEW m \in Nat, NEW k \in Nat
    PROVE  /\ [row EXCEPT !.state = "expired"] \in AttemptRow
           /\ [row EXCEPT !.state = "finished"] \in AttemptRow
           /\ [row EXCEPT !.lease = n] \in AttemptRow
           /\ [row EXCEPT !.acked = n] \in AttemptRow
           /\ [row EXCEPT !.lease = n, !.contact = m] \in AttemptRow
           /\ [row EXCEPT !.acked = k, !.lease = n, !.contact = m] \in AttemptRow
           /\ [row EXCEPT !.epoch = k, !.lease = n, !.contact = m] \in AttemptRow
BY DEF AttemptRow

LEMMA JobFields ==
    ASSUME NEW row \in JobRow
    PROVE  /\ row.state \in JobStates /\ row.created \in Nat
           /\ row.result \in Results \cup {"none", "withdrawn", "lease_expired"}
           /\ DOMAIN row = {"state", "created", "result"}
BY DEF JobRow

LEMMA JobUpdates ==
    ASSUME NEW row \in JobRow, NEW state \in JobStates, NEW n \in Nat,
           NEW result \in Results \cup {"none", "withdrawn", "lease_expired"}
    PROVE  /\ [row EXCEPT !.state = state] \in JobRow
           /\ [row EXCEPT !.state = state, !.created = n] \in JobRow
           /\ [row EXCEPT !.state = state, !.result = result] \in JobRow
BY DEF JobRow

LEMMA SettledTypes ==
    ASSUME TypeOK
    PROVE  SettledJobs \in [Jobs -> JobRow] /\ SettledAttempts \in [Attempts -> AttemptRow]
<1>1. \A j \in Jobs : Expired(j) \in JobRow
  BY JobUpdates DEF TypeOK, Expired, JobStates
<1>2. SettledJobs \in [Jobs -> JobRow]
  BY <1>1 DEF SettledJobs, TypeOK
<1>3. SettledAttempts \in [Attempts -> AttemptRow]
  BY AttemptUpdates DEF SettledAttempts, TypeOK
<1> QED
  BY <1>2, <1>3

-----------------------------------------------------------------------------
(* Types, action by action.                                                  *)

LEMMA TypesOfCoordinator ==
    ASSUME TypeOK,
           \/ \E j \in Jobs : Enqueue(j) \/ Withdraw(j)
           \/ \E c \in Commands : RecordCommand(c)
           \/ ExtendLiveLeases \/ Tick
    PROVE  TypeOK'
<1> USE LeasesAssumption
<1>1. ASSUME NEW j \in Jobs, Enqueue(j) PROVE TypeOK'
  <2>1. [job[j] EXCEPT !.state = "queued", !.created = now] \in JobRow
    BY JobUpdates DEF TypeOK, JobStates
  <2>2. job' = [job EXCEPT ![j] = [job[j] EXCEPT !.state = "queued", !.created = now]]
    BY <1>1 DEF Enqueue, TypeOK
  <2>3. job' \in [Jobs -> JobRow]
    BY <2>1, <2>2 DEF TypeOK
  <2>4. UNCHANGED <<now, attempt, events, command>>
    BY <1>1 DEF Enqueue
  <2> QED
    BY <2>3, <2>4 DEF TypeOK
<1>2. ASSUME NEW j \in Jobs, Withdraw(j) PROVE TypeOK'
  <2>1. [job[j] EXCEPT !.state = "finished", !.result = "withdrawn"] \in JobRow
    BY JobUpdates DEF TypeOK, JobStates
  <2> QED
    BY <1>2, <2>1 DEF Withdraw, TypeOK
<1>3. ASSUME NEW c \in Commands, RecordCommand(c) PROVE TypeOK'
  <2>1. [command[c] EXCEPT !.state = "open"] \in CommandRow
    BY DEF TypeOK, CommandRow
  <2> QED
    BY <1>3, <2>1 DEF RecordCommand, TypeOK
<1>4. ASSUME ExtendLiveLeases PROVE TypeOK'
  <2>1. now + Lease \in Nat
    BY DEF TypeOK
  <2>2. \A a \in Attempts : [attempt[a] EXCEPT !.lease = now + Lease] \in AttemptRow
    BY <2>1, AttemptUpdates DEF TypeOK
  <2>3. attempt' \in [Attempts -> AttemptRow]
    BY <1>4, <2>2 DEF ExtendLiveLeases, TypeOK
  <2> QED
    BY <1>4, <2>3 DEF ExtendLiveLeases, TypeOK
<1>5. ASSUME Tick PROVE TypeOK'
  BY <1>5 DEF Tick, TypeOK
<1> QED
  BY <1>1, <1>2, <1>3, <1>4, <1>5

LEMMA TypesOfCustody ==
    ASSUME TypeOK,
           \E r \in Runners : Claim(r) \/ \E A \in SUBSET Attempts : Reacquire(r, A)
    PROVE  TypeOK'
<1> USE LeasesAssumption
<1>0. now \in Nat /\ now + Lease \in Nat /\ attempt \in [Attempts -> AttemptRow]
  BY DEF TypeOK
<1>1. ASSUME NEW r \in Runners, Claim(r) PROVE TypeOK'
  <2>1. ASSUME NEW j \in Jobs, NEW a \in Attempts,
               job' = [SettledJobs EXCEPT ![j].state = "leased"],
               attempt' = [SettledAttempts EXCEPT ![a] =
                   [state |-> "live", job |-> j, runner |-> r, epoch |-> 1, lease |-> now + Lease,
                    contact |-> 0, started |-> now, acked |-> 0]]
        PROVE  job' \in [Jobs -> JobRow] /\ attempt' \in [Attempts -> AttemptRow]
    <3>1. [state |-> "live", job |-> j, runner |-> r, epoch |-> 1, lease |-> now + Lease,
           contact |-> 0, started |-> now, acked |-> 0] \in AttemptRow
      BY <1>0 DEF AttemptRow
    <3>2. [SettledJobs[j] EXCEPT !.state = "leased"] \in JobRow
      BY SettledTypes, JobUpdates DEF JobStates
    <3> QED
      BY <2>1, <3>1, <3>2, SettledTypes
  <2>2. CASE Settle /\ UNCHANGED <<now, events, command>>
    BY <2>2, SettledTypes DEF Settle, TypeOK
  <2> QED
    BY <1>1, <2>1, <2>2 DEF Claim, TypeOK
<1>2. ASSUME NEW r \in Runners, NEW A \in SUBSET Attempts, Reacquire(r, A) PROVE TypeOK'
  <2>1. \A a \in Attempts : attempt[a].epoch + 1 \in Nat
    BY <1>0, AttemptFields
  <2>2. \A a \in Attempts :
            [attempt[a] EXCEPT !.epoch = attempt[a].epoch + 1, !.lease = now + Lease,
                               !.contact = now] \in AttemptRow
    BY <1>0, <2>1, AttemptUpdates
  <2>3. attempt' \in [Attempts -> AttemptRow]
    BY <1>2, <2>2, SettledTypes DEF Reacquire
  <2> QED
    BY <1>2, <2>3, SettledTypes DEF Reacquire, TypeOK
<1> QED
  BY <1>1, <1>2

LEMMA TypesOfEvents ==
    ASSUME TypeOK, NEW r \in Runners, NEW a \in Attempts, NEW e \in Nat,
           NEW batch \in SUBSET Nat,
           Sync(r, a, e, batch) \/ AppendEvents(r, a, e, batch)
    PROVE  TypeOK'
<1> USE LeasesAssumption
<1>0. now \in Nat /\ now + Lease \in Nat /\ attempt \in [Attempts -> AttemptRow]
  BY DEF TypeOK
<1>1. CASE Settle /\ UNCHANGED <<now, events, command>>
  BY <1>1, SettledTypes DEF Settle, TypeOK
<1>2. ASSUME NEW cursor \in batch \cup {attempt[a].acked}
      PROVE  cursor \in Nat /\ Stored(a, e, cursor) \in [Attempts -> SUBSET (Nat \X Nat)]
  <2>1. attempt[a].acked \in Nat /\ cursor \in Nat
    BY <1>0, AttemptFields
  <2>2. (attempt[a].acked + 1 .. cursor) \X {e} \subseteq Nat \X Nat
    BY <2>1
  <2>3. events[a] \cup ((attempt[a].acked + 1 .. cursor) \X {e}) \in SUBSET (Nat \X Nat)
    BY <2>2 DEF TypeOK
  <2> QED
    BY <2>1, <2>3 DEF Stored, TypeOK
<1>3. ASSUME NEW cursor \in batch \cup {attempt[a].acked},
             events' = Stored(a, e, cursor), job' = SettledJobs, UNCHANGED <<now, command>>,
             \/ attempt' = [SettledAttempts EXCEPT ![a].acked = cursor]
             \/ attempt' = [SettledAttempts EXCEPT ![a] = [@ EXCEPT !.acked = cursor, !.lease = now + Lease,
                                                                    !.contact = now]]
      PROVE  TypeOK'
  <2>1. SettledAttempts[a] \in AttemptRow
    BY SettledTypes
  <2>2. /\ [SettledAttempts[a] EXCEPT !.acked = cursor] \in AttemptRow
        /\ [SettledAttempts[a] EXCEPT !.acked = cursor, !.lease = now + Lease, !.contact = now]
               \in AttemptRow
    BY <1>0, <1>2, <2>1, AttemptUpdates
  <2>3. attempt' \in [Attempts -> AttemptRow]
    BY <1>3, <2>2, SettledTypes
  <2> QED
    BY <1>2, <1>3, <2>3, SettledTypes DEF TypeOK
<1> QED
  BY <1>1, <1>3 DEF Sync, AppendEvents

LEMMA TypesOfAnswers ==
    ASSUME TypeOK, NEW r \in Runners, NEW a \in Attempts, NEW e \in Nat,
           \/ Heartbeat(r, a, e)
           \/ \E result \in Results : \/ Finish(r, a, e, result)
                                      \/ \E c \in Commands : CommandResult(r, a, e, c, result)
    PROVE  TypeOK'
<1> USE LeasesAssumption
<1>0. /\ now \in Nat /\ now + Lease \in Nat /\ attempt \in [Attempts -> AttemptRow]
      /\ SettledAttempts[a] \in AttemptRow
  BY SettledTypes DEF TypeOK
<1>1. CASE Heartbeat(r, a, e)
  <2>1. [SettledAttempts[a] EXCEPT !.lease = now + Lease, !.contact = now] \in AttemptRow
    BY <1>0, AttemptUpdates
  <2> QED
    BY <1>1, <2>1, SettledTypes DEF Heartbeat, TypeOK
<1>2. ASSUME NEW result \in Results, Finish(r, a, e, result) PROVE TypeOK'
  <2>1. [SettledAttempts[a] EXCEPT !.state = "finished"] \in AttemptRow
    BY <1>0, AttemptUpdates
  <2>2. ASSUME NEW j \in Jobs
        PROVE  [SettledJobs[j] EXCEPT !.state = "finished", !.result = result] \in JobRow
    BY SettledTypes, JobUpdates DEF JobStates
  <2>3. job' \in [Jobs -> JobRow]
    BY <1>2, <2>2, SettledTypes DEF Finish
  <2> QED
    BY <1>2, <2>1, <2>3, SettledTypes DEF Finish, TypeOK
<1>3. ASSUME NEW result \in Results, NEW c \in Commands, CommandResult(r, a, e, c, result)
      PROVE  TypeOK'
  <2>1. [command[c] EXCEPT !.state = "answered", !.result = result] \in CommandRow
    BY DEF TypeOK, CommandRow
  <2> QED
    BY <1>3, <2>1, SettledTypes DEF CommandResult, Settle, TypeOK
<1> QED
  BY <1>1, <1>2, <1>3

\* The transactions of the ledger without the bounds of RunnerLeases: called with any epoch and any
\* batch, whoever composes it.
AnyCall ==
    \/ Tick \/ ExtendLiveLeases
    \/ \E j \in Jobs : Enqueue(j) \/ Withdraw(j)
    \/ \E c \in Commands : RecordCommand(c)
    \/ \E r \in Runners : Claim(r)
    \/ \E r \in Runners, A \in SUBSET Attempts : Reacquire(r, A)
    \/ \E r \in Runners, a \in Attempts, e \in Nat :
          \/ Heartbeat(r, a, e)
          \/ \E batch \in SUBSET Nat : Sync(r, a, e, batch) \/ AppendEvents(r, a, e, batch)
          \/ \E result \in Results :
                \/ Finish(r, a, e, result)
                \/ \E c \in Commands : CommandResult(r, a, e, c, result)

LEMMA NextIsCall == [Next]_vars => [AnyCall]_vars
<1>1. 1 .. MaxEpoch \subseteq Nat /\ 1 .. MaxSeq \subseteq Nat
  OBVIOUS
<1>2. ASSUME NEW r \in Runners, NEW a \in Attempts, NEW e \in 1 .. MaxEpoch,
             NEW batch \in SUBSET (1 .. MaxSeq), Sync(r, a, e, batch) \/ AppendEvents(r, a, e, batch)
      PROVE  AnyCall
  <2>1. e \in Nat /\ batch \in SUBSET Nat
    BY <1>1
  <2> QED
    BY <1>2, <2>1, Zenon DEF AnyCall
<1>3. ASSUME NEW r \in Runners, NEW a \in Attempts, NEW e \in 1 .. MaxEpoch,
             \/ Heartbeat(r, a, e)
             \/ \E result \in Results :
                   \/ Finish(r, a, e, result)
                   \/ \E c \in Commands : CommandResult(r, a, e, c, result)
      PROVE  AnyCall
  <2>1. e \in Nat
    BY <1>1
  <2> QED
    BY <1>3, <2>1, Zenon DEF AnyCall
<1>4. Next => AnyCall
  BY <1>2, <1>3, Zenon DEF Next, AnyCall
<1> QED
  BY <1>4

LEMMA TypesOfCalls == TypeOK /\ AnyCall => TypeOK'
BY TypesOfCoordinator, TypesOfCustody, TypesOfEvents, TypesOfAnswers DEF AnyCall

\* Every table and every row keeps its type: TypeOK of the runner ledger.
THEOREM LeasesTypeCorrect == Spec => []TypeOK
<1>1. Init => TypeOK
  BY LeasesAssumption DEF Init, TypeOK, JobRow, JobStates, AttemptRow, CommandRow
<1>2. TypeOK /\ [AnyCall]_vars => TypeOK'
  <2> SUFFICES ASSUME TypeOK, [AnyCall]_vars PROVE TypeOK'
    OBVIOUS
  <2>1. CASE UNCHANGED vars
    BY <2>1 DEF vars, TypeOK
  <2>2. CASE AnyCall
    BY <2>2, TypesOfCalls
  <2> QED
    BY <2>1, <2>2
<1> QED
  BY <1>1, <1>2, NextIsCall, PTL DEF Spec

-----------------------------------------------------------------------------
(* The ledger invariant: how attempts and jobs stand to each other.          *)

AttemptsHaveJobs ==
    \A a \in Attempts :
        /\ attempt[a].state = "absent" <=> attempt[a].job = "none"
        /\ attempt[a].state # "absent" => job[attempt[a].job].state # "absent"
        /\ attempt[a].state = "live" => job[attempt[a].job].state = "leased"

LeasedIsHeld ==
    \A j \in Jobs : job[j].state = "leased" =>
        \E a \in Attempts : attempt[a].state = "live" /\ attempt[a].job = j

OneLiveAttempt ==
    \A a, b \in Attempts :
        attempt[a].state = "live" /\ attempt[b].state = "live" /\ attempt[a].job = attempt[b].job => a = b

OpenHasNoResult ==
    \A j \in Jobs : job[j].state \in {"absent", "queued", "leased"} => job[j].result = "none"

LedgerInv ==
    /\ TypeOK /\ AttemptsHaveJobs /\ LeasedIsHeld /\ OneLiveAttempt /\ OpenHasNoResult
    /\ TurnNeverStartsTwice

\* The calls that settle and otherwise leave custody as it is.
Quiet ==
    /\ now' = now /\ job' = SettledJobs
    /\ \A a \in Attempts :
           /\ attempt'[a].job = attempt[a].job
           /\ attempt'[a].state = SettledAttempts[a].state
           /\ Live(a)' <=> Live(a)

LEMMA Fields ==
    ASSUME TypeOK
    PROVE  /\ \A a \in Attempts : attempt[a] \in AttemptRow /\ attempt[a].job \in Jobs \cup {"none"}
           /\ \A j \in Jobs : job[j] \in JobRow /\ job[j].state \in JobStates
           /\ DOMAIN attempt = Attempts /\ DOMAIN job = Jobs
           /\ now \in Nat
BY AttemptFields, JobFields DEF TypeOK

\* What a settlement makes of each attempt and of each job.
LEMMA SettledFields ==
    ASSUME TypeOK
    PROVE  /\ DOMAIN SettledAttempts = Attempts /\ DOMAIN SettledJobs = Jobs
           /\ \A a \in Attempts :
                  /\ SettledAttempts[a].state = IF Passed(a) THEN "expired" ELSE attempt[a].state
                  /\ SettledAttempts[a].job = attempt[a].job
                  /\ SettledAttempts[a].lease = attempt[a].lease
                  /\ SettledAttempts[a].contact = attempt[a].contact
                  /\ SettledAttempts[a].started = attempt[a].started
                  /\ Live(a) <=> SettledAttempts[a].state = "live"
           /\ \A j \in Jobs :
                  /\ job[j].state = "leased" /\ HasPassed(j) =>
                         /\ SettledJobs[j].state = IF j \in ReplaySafe THEN "queued" ELSE "unconfirmed"
                         /\ SettledJobs[j].result = IF j \in ReplaySafe THEN job[j].result
                                                    ELSE "lease_expired"
                  /\ ~(job[j].state = "leased" /\ HasPassed(j)) => SettledJobs[j] = job[j]
<1>1. \A a \in Attempts : DOMAIN attempt[a] = {"state", "job", "runner", "epoch", "lease", "contact", "started", "acked"}
                          /\ attempt[a].lease \in Nat
  BY AttemptFields DEF TypeOK
<1>2. \A j \in Jobs : DOMAIN job[j] = {"state", "created", "result"}
  BY JobFields DEF TypeOK
<1>3. now \in Nat
  BY DEF TypeOK
<1>4. ASSUME NEW a \in Attempts
      PROVE  /\ SettledAttempts[a].state = IF Passed(a) THEN "expired" ELSE attempt[a].state
             /\ SettledAttempts[a].job = attempt[a].job
             /\ SettledAttempts[a].lease = attempt[a].lease
             /\ SettledAttempts[a].contact = attempt[a].contact
             /\ SettledAttempts[a].started = attempt[a].started
  BY <1>1 DEF SettledAttempts
<1>5. ASSUME NEW a \in Attempts PROVE Live(a) <=> SettledAttempts[a].state = "live"
  BY <1>1, <1>3, <1>4 DEF Live, Passed
<1>6. ASSUME NEW j \in Jobs
      PROVE  /\ job[j].state = "leased" /\ HasPassed(j) =>
                    /\ SettledJobs[j].state = IF j \in ReplaySafe THEN "queued" ELSE "unconfirmed"
                    /\ SettledJobs[j].result = IF j \in ReplaySafe THEN job[j].result
                                               ELSE "lease_expired"
             /\ ~(job[j].state = "leased" /\ HasPassed(j)) => SettledJobs[j] = job[j]
  BY <1>2 DEF SettledJobs, Expired
<1> QED
  BY <1>4, <1>5, <1>6 DEF SettledAttempts, SettledJobs

LEMMA QuietCalls ==
    ASSUME TypeOK, NEW r \in Runners,
           \/ Claim(r) /\ ~\E j \in Jobs : Oldest(r, j)
           \/ \E A \in SUBSET Attempts : Reacquire(r, A)
           \/ \E a \in Attempts, e \in Nat :
                 \/ Heartbeat(r, a, e)
                 \/ \E batch \in SUBSET Nat : Sync(r, a, e, batch) \/ AppendEvents(r, a, e, batch)
                 \/ \E result \in Results, c \in Commands : CommandResult(r, a, e, c, result)
    PROVE  Quiet
<1> USE LeasesAssumption
<1>0. /\ now \in Nat /\ Lease \in Nat /\ 0 < Lease
      /\ SettledAttempts \in [Attempts -> AttemptRow]
  BY SettledTypes DEF TypeOK
<1>1. \A a \in Attempts :
          /\ DOMAIN attempt[a] = {"state", "job", "runner", "epoch", "lease", "contact", "started", "acked"}
          /\ DOMAIN SettledAttempts[a] = {"state", "job", "runner", "epoch", "lease", "contact", "started", "acked"}
          /\ attempt[a].lease \in Nat
  BY <1>0, AttemptFields DEF TypeOK
\* A settlement, of which one live row gets a later lease, or keeps it.
<1>2. ASSUME NEW a \in Attempts, now' = now, job' = SettledJobs, Live(a),
             \A b \in Attempts \ {a} : attempt'[b] = SettledAttempts[b],
             attempt'[a].job = SettledAttempts[a].job, attempt'[a].state = SettledAttempts[a].state,
             attempt'[a].lease \in {SettledAttempts[a].lease, now + Lease}
      PROVE  Quiet
  BY <1>0, <1>1, <1>2, SettledFields DEF Quiet, Live, Passed
<1>3. ASSUME Settle, now' = now PROVE Quiet
  BY <1>0, <1>1, <1>3, SettledFields DEF Settle, Quiet, Live, Passed
<1>4. CASE Claim(r) /\ ~\E j \in Jobs : Oldest(r, j)
  BY <1>3, <1>4 DEF Claim
<1>5. ASSUME NEW A \in SUBSET Attempts, Reacquire(r, A) PROVE Quiet
  <2>1. ASSUME NEW a \in Attempts
        PROVE  \/ attempt'[a] = SettledAttempts[a]
               \/ /\ Live(a)
                  /\ attempt'[a] = [attempt[a] EXCEPT !.epoch = attempt[a].epoch + 1,
                                                      !.lease = now + Lease, !.contact = now]
    BY <1>5 DEF Reacquire
  <2>2. ASSUME NEW a \in Attempts
        PROVE  /\ attempt'[a].job = attempt[a].job /\ attempt'[a].state = SettledAttempts[a].state
               /\ \/ attempt'[a].lease = attempt[a].lease
                  \/ Live(a) /\ attempt'[a].lease = now + Lease
    <3>1. CASE attempt'[a] = SettledAttempts[a]
      BY <3>1, SettledFields
    <3>2. CASE /\ Live(a)
               /\ attempt'[a] = [attempt[a] EXCEPT !.epoch = attempt[a].epoch + 1,
                                                   !.lease = now + Lease, !.contact = now]
      <4>1. attempt'[a].job = attempt[a].job /\ attempt'[a].lease = now + Lease
            /\ attempt'[a].state = attempt[a].state
        BY <1>1, <3>2
      <4> QED
        BY <3>2, <4>1, SettledFields DEF Live
    <3> QED
      BY <2>1, <3>1, <3>2
  <2>3. now' = now
    BY <1>5 DEF Reacquire
  <2>4. ASSUME NEW a \in Attempts PROVE Live(a)' <=> Live(a)
    BY <1>0, <1>1, <2>2, <2>3, SettledFields DEF Live
  <2> QED
    BY <1>5, <2>2, <2>4 DEF Reacquire, Quiet
<1>6. ASSUME NEW a \in Attempts, NEW e \in Nat, Heartbeat(r, a, e) PROVE Quiet
  <2>1. attempt' = [SettledAttempts EXCEPT ![a] =
            [SettledAttempts[a] EXCEPT !.lease = now + Lease, !.contact = now]]
    BY <1>0, <1>6 DEF Heartbeat
  <2> QED
    BY <1>0, <1>1, <1>2, <1>6, <2>1 DEF Heartbeat, Holding
<1>7. ASSUME NEW a \in Attempts, NEW e \in Nat, NEW batch \in SUBSET Nat,
             Sync(r, a, e, batch) \/ AppendEvents(r, a, e, batch)
      PROVE  Quiet
  <2>1. ASSUME NEW cursor, Holding(r, a, e), now' = now, job' = SettledJobs,
               \/ attempt' = [SettledAttempts EXCEPT ![a].acked = cursor]
               \/ attempt' = [SettledAttempts EXCEPT ![a] = [@ EXCEPT !.acked = cursor, !.lease = now + Lease,
                                                                      !.contact = now]]
        PROVE  Quiet
    <3>1. \/ attempt' = [SettledAttempts EXCEPT ![a] = [SettledAttempts[a] EXCEPT !.acked = cursor]]
          \/ attempt' = [SettledAttempts EXCEPT ![a] =
                 [SettledAttempts[a] EXCEPT !.acked = cursor, !.lease = now + Lease, !.contact = now]]
      BY <1>0, <2>1
    <3>2. CASE attempt' = [SettledAttempts EXCEPT ![a] = [SettledAttempts[a] EXCEPT !.acked = cursor]]
      BY <1>0, <1>1, <1>2, <2>1, <3>2 DEF Holding
    <3>3. CASE attempt' = [SettledAttempts EXCEPT ![a] =
                 [SettledAttempts[a] EXCEPT !.acked = cursor, !.lease = now + Lease, !.contact = now]]
      BY <1>0, <1>1, <1>2, <2>1, <3>3 DEF Holding
    <3> QED
      BY <3>1, <3>2, <3>3
  <2> QED
    BY <1>3, <1>7, <2>1 DEF Sync, AppendEvents
<1>8. ASSUME NEW a \in Attempts, NEW e \in Nat, NEW c \in Commands,
             NEW result \in Results, CommandResult(r, a, e, c, result)
      PROVE  Quiet
  BY <1>3, <1>8 DEF CommandResult
<1> QED
  BY <1>4, <1>5, <1>6, <1>7, <1>8

\* A settlement keeps the invariant; claims and finishes change what it leaves.
LEMMA SettledInv ==
    ASSUME LedgerInv
    PROVE  /\ \A a \in Attempts :
                  /\ SettledAttempts[a].state = "absent" <=> attempt[a].job = "none"
                  /\ SettledAttempts[a].state # "absent" => SettledJobs[attempt[a].job].state # "absent"
                  /\ SettledAttempts[a].state = "live" => SettledJobs[attempt[a].job].state = "leased"
           /\ \A j \in Jobs : SettledJobs[j].state = "leased" =>
                  \E a \in Attempts : SettledAttempts[a].state = "live" /\ attempt[a].job = j
           /\ \A a, b \in Attempts :
                  SettledAttempts[a].state = "live" /\ SettledAttempts[b].state = "live"
                  /\ attempt[a].job = attempt[b].job => a = b
           /\ \A j \in Jobs : SettledJobs[j].state \in {"absent", "queued", "leased"} =>
                  SettledJobs[j].result = "none"
           /\ \A a, b \in Attempts : \A j \in Jobs \ ReplaySafe : attempt[a].job = j =>
                  /\ attempt[b].job = j => a = b
                  /\ SettledJobs[j].state \notin {"absent", "queued"}
                  /\ SettledJobs[j].result # "withdrawn"
<1> USE LeasesAssumption
<1>0. TypeOK
  BY DEF LedgerInv
<1>1. \A a \in Attempts : SettledAttempts[a].state = "live" <=> attempt[a].state = "live" /\ ~Passed(a)
  BY <1>0, SettledFields DEF Passed
\* The one live attempt of a job decides whether the job is settled.
<1>2. ASSUME NEW a \in Attempts, attempt[a].state = "live"
      PROVE  /\ attempt[a].job \in Jobs /\ job[attempt[a].job].state = "leased"
             /\ HasPassed(attempt[a].job) <=> Passed(a)
  <2>1. attempt[a].job \in Jobs /\ job[attempt[a].job].state = "leased"
    BY <1>0, <1>2, Fields DEF LedgerInv, AttemptsHaveJobs
  <2>2. ASSUME HasPassed(attempt[a].job) PROVE Passed(a)
    <3>1. PICK b \in Attempts : Passed(b) /\ attempt[b].job = attempt[a].job
      BY <2>2 DEF HasPassed
    <3>2. b = a
      BY <1>2, <3>1 DEF Passed, LedgerInv, OneLiveAttempt
    <3> QED
      BY <3>1, <3>2
  <2> QED
    BY <1>2, <2>1, <2>2 DEF HasPassed
<1>3. ASSUME NEW a \in Attempts
      PROVE  /\ SettledAttempts[a].state = "absent" <=> attempt[a].job = "none"
             /\ SettledAttempts[a].state # "absent" => SettledJobs[attempt[a].job].state # "absent"
             /\ SettledAttempts[a].state = "live" => SettledJobs[attempt[a].job].state = "leased"
  <2>1. SettledAttempts[a].state = "absent" <=> attempt[a].state = "absent"
    BY <1>0, SettledFields DEF Passed
  <2>2. attempt[a].state # "absent" => attempt[a].job \in Jobs
    BY <1>0, Fields DEF LedgerInv, AttemptsHaveJobs
  <2>3. ASSUME attempt[a].state # "absent" PROVE SettledJobs[attempt[a].job].state # "absent"
    BY <1>0, <2>2, <2>3, SettledFields DEF LedgerInv, AttemptsHaveJobs
  <2>4. ASSUME SettledAttempts[a].state = "live"
        PROVE  SettledJobs[attempt[a].job].state = "leased"
    <3>1. attempt[a].state = "live" /\ ~Passed(a)
      BY <1>1, <2>4
    <3> QED
      BY <1>0, <1>2, <3>1, SettledFields
  <2> QED
    BY <2>1, <2>3, <2>4 DEF LedgerInv, AttemptsHaveJobs
<1>4. ASSUME NEW j \in Jobs, SettledJobs[j].state = "leased"
      PROVE  \E a \in Attempts : SettledAttempts[a].state = "live" /\ attempt[a].job = j
  <2>1. job[j].state = "leased" /\ ~HasPassed(j)
    BY <1>0, <1>4, SettledFields
  <2>2. PICK a \in Attempts : attempt[a].state = "live" /\ attempt[a].job = j
    BY <2>1 DEF LedgerInv, LeasedIsHeld
  <2> QED
    BY <1>1, <2>1, <2>2 DEF HasPassed
<1>5. ASSUME NEW j \in Jobs, SettledJobs[j].state \in {"absent", "queued", "leased"}
      PROVE  SettledJobs[j].result = "none"
  <2>1. CASE job[j].state = "leased" /\ HasPassed(j)
    BY <1>0, <1>5, <2>1, SettledFields DEF LedgerInv, OpenHasNoResult
  <2>2. CASE ~(job[j].state = "leased" /\ HasPassed(j))
    BY <1>0, <1>5, <2>2, SettledFields DEF LedgerInv, OpenHasNoResult
  <2> QED
    BY <2>1, <2>2
<1>6. ASSUME NEW a \in Attempts, NEW b \in Attempts, NEW j \in Jobs \ ReplaySafe, attempt[a].job = j
      PROVE  /\ attempt[b].job = j => a = b
             /\ SettledJobs[j].state \notin {"absent", "queued"}
             /\ SettledJobs[j].result # "withdrawn"
  <2>1. CASE job[j].state = "leased" /\ HasPassed(j)
    BY <1>0, <1>6, <2>1, SettledFields DEF LedgerInv, TurnNeverStartsTwice
  <2>2. CASE ~(job[j].state = "leased" /\ HasPassed(j))
    BY <1>0, <1>6, <2>2, SettledFields DEF LedgerInv, TurnNeverStartsTwice
  <2> QED
    BY <2>1, <2>2
<1>7. ASSUME NEW a \in Attempts, NEW b \in Attempts,
             SettledAttempts[a].state = "live", SettledAttempts[b].state = "live",
             attempt[a].job = attempt[b].job
      PROVE  a = b
  <2>1. attempt[a].state = "live" /\ attempt[b].state = "live"
    BY <1>1, <1>7
  <2>2. OneLiveAttempt
    BY DEF LedgerInv
  <2> QED
    BY <1>7, <2>1, <2>2 DEF OneLiveAttempt
<1>8. \A a, b \in Attempts :
          SettledAttempts[a].state = "live" /\ SettledAttempts[b].state = "live"
          /\ attempt[a].job = attempt[b].job => a = b
  BY <1>7
<1>9. \A a, b \in Attempts : \A j \in Jobs \ ReplaySafe : attempt[a].job = j =>
          /\ attempt[b].job = j => a = b
          /\ SettledJobs[j].state \notin {"absent", "queued"}
          /\ SettledJobs[j].result # "withdrawn"
  BY <1>6
<1> QED
  BY <1>3, <1>4, <1>5, <1>8, <1>9, Zenon

LEMMA InvOfQuiet ==
    ASSUME LedgerInv, TypeOK', Quiet
    PROVE  LedgerInv'
<1>1. AttemptsHaveJobs'
  BY SettledInv DEF Quiet, AttemptsHaveJobs
<1>2. LeasedIsHeld'
  BY SettledInv DEF Quiet, LeasedIsHeld
<1>3. OneLiveAttempt'
  BY SettledInv DEF Quiet, OneLiveAttempt
<1>4. OpenHasNoResult'
  BY SettledInv DEF Quiet, OpenHasNoResult
<1>5. TurnNeverStartsTwice'
  BY SettledInv DEF Quiet, TurnNeverStartsTwice
<1> QED
  BY <1>1, <1>2, <1>3, <1>4, <1>5 DEF LedgerInv

\* The clock, the commands and the owner's start leave jobs and attempts where they are.
LEMMA InvOfStill ==
    ASSUME LedgerInv, TypeOK', job' = job,
           \A a \in Attempts : attempt'[a].state = attempt[a].state /\ attempt'[a].job = attempt[a].job
    PROVE  LedgerInv'
BY DEF LedgerInv, AttemptsHaveJobs, LeasedIsHeld, OneLiveAttempt, OpenHasNoResult, TurnNeverStartsTwice

\* Enqueue and Withdraw: a job nobody holds gets another row.
LEMMA InvOfOffer ==
    ASSUME LedgerInv, TypeOK', NEW j \in Jobs, NEW row, attempt' = attempt,
           job' = [job EXCEPT ![j] = row],
           \/ job[j].state = "absent" /\ row.state = "queued" /\ row.result = job[j].result
           \/ job[j].state = "queued" /\ row.state = "finished" /\ j \notin ReplaySafe
    PROVE  LedgerInv'
<1>0. /\ DOMAIN job = Jobs /\ job'[j] = row /\ \A k \in Jobs \ {j} : job'[k] = job[k]
      /\ \A a \in Attempts : attempt[a].state # "absent" => attempt[a].job \in Jobs
  BY Fields DEF LedgerInv, AttemptsHaveJobs
<1>1. AttemptsHaveJobs'
  BY <1>0 DEF LedgerInv, AttemptsHaveJobs
<1>2. LeasedIsHeld'
  BY <1>0 DEF LedgerInv, LeasedIsHeld
<1>3. OneLiveAttempt'
  BY DEF LedgerInv, OneLiveAttempt
<1>4. OpenHasNoResult'
  BY <1>0 DEF LedgerInv, OpenHasNoResult
<1>5. \A a \in Attempts : j \notin ReplaySafe => attempt[a].job # j
  BY DEF LedgerInv, TurnNeverStartsTwice
<1>6. ASSUME j \in ReplaySafe \/ \A a \in Attempts : attempt[a].job # j
      PROVE  TurnNeverStartsTwice'
  BY <1>0, <1>6 DEF LedgerInv, TurnNeverStartsTwice
<1> QED
  BY <1>1, <1>2, <1>3, <1>4, <1>5, <1>6 DEF LedgerInv

LEMMA InvOfClaim ==
    ASSUME LedgerInv, TypeOK', NEW r \in Runners, NEW j \in Jobs, NEW a \in Attempts,
           Oldest(r, j), attempt[a].state = "absent",
           job' = [SettledJobs EXCEPT ![j].state = "leased"],
           attempt' = [SettledAttempts EXCEPT ![a] =
               [state |-> "live", job |-> j, runner |-> r, epoch |-> 1, lease |-> now + Lease,
                contact |-> 0, started |-> now, acked |-> 0]]
    PROVE  LedgerInv'
<1> USE LeasesAssumption
<1>0. /\ SettledJobs \in [Jobs -> JobRow] /\ SettledAttempts \in [Attempts -> AttemptRow]
      /\ SettledJobs[j].state = "queued"
  BY SettledTypes DEF LedgerInv, Oldest
<1>1. /\ attempt'[a].state = "live" /\ attempt'[a].job = j
      /\ \A b \in Attempts \ {a} : attempt'[b].state = SettledAttempts[b].state
                                   /\ attempt'[b].job = attempt[b].job
  BY <1>0, SettledFields DEF LedgerInv
<1>2. /\ job'[j].state = "leased" /\ job'[j].result = SettledJobs[j].result
      /\ \A k \in Jobs \ {j} : job'[k] = SettledJobs[k]
  <2>1. DOMAIN SettledJobs[j] = {"state", "created", "result"}
    BY <1>0, JobFields
  <2> QED
    BY <1>0, <2>1
<1>3. \A b \in Attempts : attempt[b].job = j => SettledAttempts[b].state # "live"
  BY <1>0, SettledInv
<1>4. attempt[a].job = "none"
  BY DEF LedgerInv, AttemptsHaveJobs
<1>5. AttemptsHaveJobs'
  BY <1>1, <1>2, SettledInv, Fields DEF LedgerInv, AttemptsHaveJobs
<1>6. LeasedIsHeld'
  <2>1. ASSUME NEW k \in Jobs, job'[k].state = "leased"
        PROVE  \E b \in Attempts : attempt'[b].state = "live" /\ attempt'[b].job = k
    <3>1. CASE k = j
      BY <1>1, <3>1
    <3>2. CASE k # j
      <4>1. PICK b \in Attempts : SettledAttempts[b].state = "live" /\ attempt[b].job = k
        BY <1>2, <2>1, <3>2, SettledInv
      <4> QED
        BY <1>1, <1>4, <4>1
    <3> QED
      BY <3>1, <3>2
  <2> QED
    BY <2>1 DEF LeasedIsHeld
<1>7. OneLiveAttempt'
  BY <1>1, <1>3, SettledInv DEF OneLiveAttempt
<1>8. OpenHasNoResult'
  BY <1>0, <1>2, SettledInv DEF OpenHasNoResult
<1>9. TurnNeverStartsTwice'
  <2>1. j \notin ReplaySafe => \A b \in Attempts : attempt[b].job # j
    BY <1>0, SettledInv
  <2>2. SettledJobs[j].result = "none"
    BY <1>0, SettledInv
  <2> QED
    BY <1>1, <1>2, <2>1, <2>2, SettledInv DEF TurnNeverStartsTwice
<1> QED
  BY <1>5, <1>6, <1>7, <1>8, <1>9 DEF LedgerInv

LEMMA InvOfFinish ==
    ASSUME LedgerInv, TypeOK', NEW r \in Runners, NEW a \in Attempts, NEW e \in Nat,
           NEW result \in Results, Finish(r, a, e, result)
    PROVE  LedgerInv'
<1> USE LeasesAssumption
<1> DEFINE j == attempt[a].job
<1>0. /\ SettledJobs \in [Jobs -> JobRow] /\ SettledAttempts \in [Attempts -> AttemptRow]
      /\ SettledAttempts[a].state = "live" /\ j \in Jobs
  <2>1. TypeOK /\ Live(a)
    BY DEF LedgerInv, Finish, Holding
  <2> QED
    BY <2>1, SettledTypes, SettledFields, Fields DEF LedgerInv, AttemptsHaveJobs, Live
<1>1. /\ attempt'[a].state = "finished" /\ attempt'[a].job = j
      /\ \A b \in Attempts \ {a} : attempt'[b].state = SettledAttempts[b].state
                                   /\ attempt'[b].job = attempt[b].job
  <2>1. DOMAIN SettledAttempts[a] = {"state", "job", "runner", "epoch", "lease", "contact", "started", "acked"}
    BY <1>0, AttemptFields
  <2> QED
    BY <1>0, <2>1, SettledFields DEF LedgerInv, Finish
<1>2. /\ job'[j].state = "finished" /\ job'[j].result = result
      /\ \A k \in Jobs \ {j} : job'[k] = SettledJobs[k]
  <2>1. DOMAIN SettledJobs[j] = {"state", "created", "result"}
    BY <1>0, JobFields
  <2> QED
    BY <1>0, <2>1 DEF Finish
<1>3. \A b \in Attempts \ {a} : attempt[b].job = j => SettledAttempts[b].state # "live"
  BY <1>0, SettledInv
<1>4. AttemptsHaveJobs'
  BY <1>0, <1>1, <1>2, <1>3, SettledInv, Fields DEF LedgerInv, AttemptsHaveJobs
<1>5. LeasedIsHeld'
  BY <1>1, <1>2, SettledInv DEF LeasedIsHeld
<1>6. OneLiveAttempt'
  BY <1>1, SettledInv DEF OneLiveAttempt
<1>7. OpenHasNoResult'
  BY <1>2, SettledInv DEF OpenHasNoResult
<1>8. TurnNeverStartsTwice'
  BY <1>0, <1>1, <1>2, SettledInv DEF TurnNeverStartsTwice
<1> QED
  BY <1>4, <1>5, <1>6, <1>7, <1>8 DEF LedgerInv

-----------------------------------------------------------------------------
(* The invariant of the ledger, and one start of a turn.                     *)

LEMMA LedgerInvOfInit == Init => LedgerInv
<1> SUFFICES ASSUME Init PROVE LedgerInv
  OBVIOUS
<1>1. TypeOK
  BY LeasesAssumption DEF Init, TypeOK, JobRow, JobStates, AttemptRow, CommandRow
<1>2. /\ \A a \in Attempts : attempt[a].state = "absent" /\ attempt[a].job = "none"
      /\ \A j \in Jobs : job[j].state = "absent" /\ job[j].result = "none"
  BY DEF Init
<1> QED
  BY <1>1, <1>2, LeasesAssumption
     DEF LedgerInv, AttemptsHaveJobs, LeasedIsHeld, OneLiveAttempt, OpenHasNoResult,
         TurnNeverStartsTwice

LEMMA LedgerInvOfCalls == LedgerInv /\ AnyCall => LedgerInv'
<1> SUFFICES ASSUME LedgerInv, AnyCall PROVE LedgerInv'
  OBVIOUS
<1>0. TypeOK /\ TypeOK'
  BY TypesOfCalls DEF LedgerInv
<1>1. CASE Tick
  BY <1>0, <1>1, InvOfStill DEF Tick
<1>2. CASE ExtendLiveLeases
  <2>1. ASSUME NEW a \in Attempts
        PROVE  attempt'[a].state = attempt[a].state /\ attempt'[a].job = attempt[a].job
    <3>1. DOMAIN attempt[a] = {"state", "job", "runner", "epoch", "lease", "contact", "started", "acked"}
      BY <1>0, Fields, AttemptFields
    <3>2. attempt'[a] \in {attempt[a], [attempt[a] EXCEPT !.lease = now + Lease]}
      BY <1>2 DEF ExtendLiveLeases
    <3> QED
      BY <3>1, <3>2
  <2> QED
    BY <1>0, <1>2, <2>1, InvOfStill DEF ExtendLiveLeases
<1>3. ASSUME NEW c \in Commands, RecordCommand(c) PROVE LedgerInv'
  BY <1>0, <1>3, InvOfStill DEF RecordCommand
<1>4. ASSUME NEW j \in Jobs, Enqueue(j) PROVE LedgerInv'
  <2> DEFINE row == [job[j] EXCEPT !.state = "queued", !.created = now]
  <2>1. DOMAIN job[j] = {"state", "created", "result"}
    BY <1>0, Fields, JobFields
  <2>2. row.state = "queued" /\ row.result = job[j].result
    BY <2>1
  <2>3. job' = [job EXCEPT ![j] = row] /\ attempt' = attempt /\ job[j].state = "absent"
    BY <1>0, <1>4, Fields DEF Enqueue
  <2> HIDE DEF row
  <2> QED
    BY <1>0, <2>2, <2>3, InvOfOffer
<1>5. ASSUME NEW j \in Jobs, Withdraw(j) PROVE LedgerInv'
  <2> DEFINE row == [job[j] EXCEPT !.state = "finished", !.result = "withdrawn"]
  <2>1. DOMAIN job[j] = {"state", "created", "result"}
    BY <1>0, Fields, JobFields
  <2>2. row.state = "finished"
    BY <2>1
  <2>3. /\ job' = [job EXCEPT ![j] = row] /\ attempt' = attempt
        /\ job[j].state = "queued" /\ j \notin ReplaySafe
    BY <1>0, <1>5, Fields DEF Withdraw
  <2> HIDE DEF row
  <2> QED
    BY <1>0, <2>2, <2>3, InvOfOffer
<1>6. ASSUME NEW r \in Runners, Claim(r) PROVE LedgerInv'
  <2>1. CASE \E j \in Jobs : Oldest(r, j)
    BY <1>0, <1>6, <2>1, InvOfClaim DEF Claim
  <2>2. CASE ~\E j \in Jobs : Oldest(r, j)
    BY <1>0, <1>6, <2>2, QuietCalls, InvOfQuiet
  <2> QED
    BY <2>1, <2>2
<1>7. ASSUME NEW r \in Runners, NEW A \in SUBSET Attempts, Reacquire(r, A) PROVE LedgerInv'
  BY <1>0, <1>7, QuietCalls, InvOfQuiet
<1>8. ASSUME NEW r \in Runners, NEW a \in Attempts, NEW e \in Nat,
             \/ Heartbeat(r, a, e)
             \/ \E batch \in SUBSET Nat : Sync(r, a, e, batch) \/ AppendEvents(r, a, e, batch)
             \/ \E result \in Results, c \in Commands : CommandResult(r, a, e, c, result)
      PROVE  LedgerInv'
  BY <1>0, <1>8, QuietCalls, InvOfQuiet
<1>9. ASSUME NEW r \in Runners, NEW a \in Attempts, NEW e \in Nat, NEW result \in Results,
             Finish(r, a, e, result)
      PROVE  LedgerInv'
  BY <1>0, <1>9, InvOfFinish
<1> QED
  BY <1>1, <1>2, <1>3, <1>4, <1>5, <1>6, <1>7, <1>8, <1>9 DEF AnyCall

LEMMA LedgerInvOfStep == LedgerInv /\ [AnyCall]_vars => LedgerInv'
<1>1. LedgerInv /\ UNCHANGED vars => LedgerInv'
  BY DEF vars, LedgerInv, TypeOK, AttemptsHaveJobs, LeasedIsHeld, OneLiveAttempt, OpenHasNoResult,
         TurnNeverStartsTwice
<1> QED
  BY <1>1, LedgerInvOfCalls

\* A turn job is given to one attempt in its life, and a withdrawn one to none: TurnNeverStartsTwice.
THEOREM TurnStartsOnce == Spec => []TurnNeverStartsTwice
<1>1. LedgerInv => TurnNeverStartsTwice
  BY DEF LedgerInv
<1> QED
  BY <1>1, NextIsCall, LedgerInvOfInit, LedgerInvOfStep, PTL DEF Spec

-----------------------------------------------------------------------------
(* The bounds of a lease.                                                    *)

\* The bounds need to know that the ledger heard of no attempt later than now.
LeaseInv ==
    /\ TypeOK /\ LeaseFollowsContact /\ Lease <= now
    /\ \A a \in Attempts : attempt[a].state = "live" => Heard(a) <= now

\* What a step may do to the lease of an attempt that is live after it.
Kept(a) ==
    /\ attempt[a].state = "live" /\ attempt'[a].lease = attempt[a].lease
    /\ attempt'[a].contact = attempt[a].contact /\ attempt'[a].started = attempt[a].started

Extended(a) ==
    /\ attempt[a].state = "live" /\ now < Heard(a) + Lease /\ attempt[a].lease < now + Lease
    /\ attempt'[a].lease = now + Lease
    /\ attempt'[a].contact = attempt[a].contact /\ attempt'[a].started = attempt[a].started

Contacted(a) == attempt'[a].lease = now + Lease /\ attempt'[a].contact = now

Started(a) ==
    attempt'[a].lease = now + Lease /\ attempt'[a].contact = 0 /\ attempt'[a].started = now

LeaseStep ==
    /\ now' \in {now, now + 1}
    /\ \A a \in Attempts : attempt'[a].state = "live" =>
           \/ Kept(a)
           \/ now' = now /\ (Extended(a) \/ Contacted(a) \/ Started(a))

LEMMA LeaseInvOfStep ==
    ASSUME LeaseInv, TypeOK', LeaseStep
    PROVE  LeaseInv'
<1>1. /\ now \in Nat /\ Lease \in Nat /\ 0 < Lease /\ Lease <= now
      /\ now' \in Nat /\ now <= now'
  BY LeasesAssumption DEF LeaseInv, TypeOK, LeaseStep
<1>2. ASSUME NEW a \in Attempts, attempt'[a].state = "live"
      PROVE  /\ Heard(a)' <= now'
             /\ Heard(a)' + Lease <= attempt'[a].lease
             /\ attempt'[a].lease < Heard(a)' + 2 * Lease
  <2>1. /\ attempt[a].lease \in Nat /\ attempt[a].contact \in Nat /\ attempt[a].started \in Nat
        /\ attempt[a].state = "live" =>
               /\ Heard(a) <= now /\ Heard(a) + Lease <= attempt[a].lease
               /\ attempt[a].lease < Heard(a) + 2 * Lease
    BY AttemptFields DEF LeaseInv, TypeOK, LeaseFollowsContact
  <2>2. CASE Kept(a)
    <3>1. Heard(a)' = Heard(a) /\ Heard(a) \in Nat
      BY <2>1, <2>2 DEF Kept, Heard
    <3> QED
      BY <1>1, <2>1, <2>2, <3>1 DEF Kept
  <2>3. CASE now' = now /\ Extended(a)
    <3>1. Heard(a)' = Heard(a) /\ Heard(a) \in Nat
      BY <2>1, <2>3 DEF Extended, Heard
    <3> QED
      BY <1>1, <2>1, <2>3, <3>1 DEF Extended
  <2>4. CASE now' = now /\ Contacted(a)
    BY <1>1, <2>4 DEF Contacted, Heard
  <2>5. CASE now' = now /\ Started(a)
    BY <1>1, <2>5 DEF Started, Heard
  <2> QED
    BY <1>2, <2>2, <2>3, <2>4, <2>5 DEF LeaseStep
<1> QED
  BY <1>1, <1>2 DEF LeaseInv, LeaseFollowsContact

LEMMA LeaseStepOfCalls == TypeOK /\ AnyCall => LeaseStep
<1> SUFFICES ASSUME TypeOK, AnyCall PROVE LeaseStep
  OBVIOUS
<1>0. /\ now \in Nat /\ DOMAIN attempt = Attempts /\ DOMAIN SettledAttempts = Attempts
      /\ \A a \in Attempts :
             /\ DOMAIN attempt[a] = {"state", "job", "runner", "epoch", "lease", "contact", "started", "acked"}
             /\ DOMAIN SettledAttempts[a] = {"state", "job", "runner", "epoch", "lease", "contact", "started", "acked"}
  BY SettledTypes, AttemptFields DEF TypeOK
<1>1. \A a \in Attempts :
          /\ SettledAttempts[a].state = "live" => attempt[a].state = "live"
          /\ SettledAttempts[a].lease = attempt[a].lease
          /\ SettledAttempts[a].contact = attempt[a].contact
          /\ SettledAttempts[a].started = attempt[a].started
  BY SettledFields DEF Passed
\* Most steps settle and touch one row at most.
<1>2. ASSUME NEW a \in Attempts, now' = now,
             \A b \in Attempts \ {a} : attempt'[b] = SettledAttempts[b],
             attempt'[a].state = "live" => Contacted(a) \/ Started(a) \/
                 /\ SettledAttempts[a].state = "live" /\ attempt'[a].lease = SettledAttempts[a].lease
                 /\ attempt'[a].contact = SettledAttempts[a].contact
                 /\ attempt'[a].started = SettledAttempts[a].started
      PROVE  LeaseStep
  BY <1>1, <1>2 DEF LeaseStep, Kept
<1>3. ASSUME now' = now, attempt' \in {attempt, SettledAttempts} PROVE LeaseStep
  BY <1>1, <1>3 DEF LeaseStep, Kept
<1>4. CASE Tick
  BY <1>4 DEF Tick, LeaseStep, Kept
<1>5. CASE ExtendLiveLeases
  <2>1. ASSUME NEW a \in Attempts, attempt'[a].state = "live" PROVE Kept(a) \/ Extended(a)
    BY <1>0, <1>5, <2>1 DEF ExtendLiveLeases, Kept, Extended
  <2> QED
    BY <1>5, <2>1 DEF ExtendLiveLeases, LeaseStep
<1>6. ASSUME NEW j \in Jobs, Enqueue(j) \/ Withdraw(j) PROVE LeaseStep
  BY <1>3, <1>6 DEF Enqueue, Withdraw
<1>7. ASSUME NEW c \in Commands, RecordCommand(c) PROVE LeaseStep
  BY <1>3, <1>7 DEF RecordCommand
<1>8. ASSUME NEW r \in Runners, Claim(r) PROVE LeaseStep
  <2>1. ASSUME NEW a \in Attempts, NEW j \in Jobs, now' = now,
               attempt' = [SettledAttempts EXCEPT ![a] =
                   [state |-> "live", job |-> j, runner |-> r, epoch |-> 1, lease |-> now + Lease,
                    contact |-> 0, started |-> now, acked |-> 0]]
        PROVE  LeaseStep
    BY <1>0, <1>2, <2>1 DEF Started
  <2> QED
    BY <1>3, <1>8, <2>1 DEF Claim, Settle
<1>9. ASSUME NEW r \in Runners, NEW A \in SUBSET Attempts, Reacquire(r, A) PROVE LeaseStep
  <2>1. now' = now /\ \A a \in Attempts :
            \/ attempt'[a] = SettledAttempts[a]
            \/ attempt'[a] = [attempt[a] EXCEPT !.epoch = attempt[a].epoch + 1,
                                                !.lease = now + Lease, !.contact = now]
    BY <1>9 DEF Reacquire
  <2>2. ASSUME NEW a \in Attempts, attempt'[a].state = "live" PROVE Kept(a) \/ Contacted(a)
    <3>1. CASE attempt'[a] = SettledAttempts[a]
      BY <1>1, <2>2, <3>1 DEF Kept
    <3>2. CASE attempt'[a] = [attempt[a] EXCEPT !.epoch = attempt[a].epoch + 1,
                                                !.lease = now + Lease, !.contact = now]
      BY <1>0, <3>2 DEF Contacted
    <3> QED
      BY <2>1, <3>1, <3>2
  <2> QED
    BY <2>1, <2>2 DEF LeaseStep
<1>10. ASSUME NEW r \in Runners, NEW a \in Attempts, NEW e \in Nat, Heartbeat(r, a, e)
       PROVE  LeaseStep
  <2>1. attempt' = [SettledAttempts EXCEPT ![a] =
            [SettledAttempts[a] EXCEPT !.lease = now + Lease, !.contact = now]]
    BY <1>0, <1>10 DEF Heartbeat
  <2> QED
    BY <1>0, <1>2, <1>10, <2>1 DEF Heartbeat, Contacted
<1>11. ASSUME NEW r \in Runners, NEW a \in Attempts, NEW e \in Nat,
              NEW batch \in SUBSET Nat, Sync(r, a, e, batch) \/ AppendEvents(r, a, e, batch)
       PROVE  LeaseStep
  <2>1. ASSUME NEW cursor, now' = now,
               \/ attempt' = [SettledAttempts EXCEPT ![a].acked = cursor]
               \/ attempt' = [SettledAttempts EXCEPT ![a] = [@ EXCEPT !.acked = cursor, !.lease = now + Lease,
                                                                      !.contact = now]]
        PROVE  LeaseStep
    <3>1. \/ attempt' = [SettledAttempts EXCEPT ![a] = [SettledAttempts[a] EXCEPT !.acked = cursor]]
          \/ attempt' = [SettledAttempts EXCEPT ![a] =
                 [SettledAttempts[a] EXCEPT !.acked = cursor, !.lease = now + Lease, !.contact = now]]
      BY <1>0, <2>1
    <3> QED
      BY <1>0, <1>2, <2>1, <3>1 DEF Contacted
  <2> QED
    BY <1>3, <1>11, <2>1 DEF Sync, AppendEvents, Settle
<1>12. ASSUME NEW r \in Runners, NEW a \in Attempts, NEW e \in Nat, NEW result \in Results,
              Finish(r, a, e, result)
       PROVE  LeaseStep
  <2>1. attempt' = [SettledAttempts EXCEPT ![a] = [SettledAttempts[a] EXCEPT !.state = "finished"]]
    BY <1>0, <1>12 DEF Finish
  <2> QED
    BY <1>0, <1>2, <1>12, <2>1 DEF Finish
<1>13. ASSUME NEW r \in Runners, NEW a \in Attempts, NEW e \in Nat, NEW result \in Results,
              NEW c \in Commands, CommandResult(r, a, e, c, result)
       PROVE  LeaseStep
  BY <1>3, <1>13 DEF CommandResult, Settle
<1> QED
  BY <1>4, <1>5, <1>6, <1>7, <1>8, <1>9, <1>10, <1>11, <1>12, <1>13 DEF AnyCall

LEMMA LeaseInvOfInit == Init => LeaseInv
<1> SUFFICES ASSUME Init PROVE LeaseInv
  OBVIOUS
<1>1. TypeOK
  BY LedgerInvOfInit DEF LedgerInv
<1> QED
  BY <1>1, LeasesAssumption DEF Init, LeaseInv, LeaseFollowsContact

LEMMA LeaseInvOfCalls == LeaseInv /\ [AnyCall]_vars => LeaseInv'
<1>1. CASE UNCHANGED vars
  BY <1>1 DEF vars, LeaseInv, TypeOK, LeaseFollowsContact, Heard
<1>2. LeaseInv => TypeOK
  BY DEF LeaseInv
<1> QED
  BY <1>1, <1>2, LeaseInvOfStep, LeaseStepOfCalls, TypesOfCalls

\* A lease covers the last contact by one lease and by less than two: LeaseFollowsContact.
THEOREM LeaseBounded == Spec => []LeaseFollowsContact
<1>1. LeaseInv => LeaseFollowsContact
  BY DEF LeaseInv
<1> QED
  BY <1>1, NextIsCall, LeaseInvOfInit, LeaseInvOfCalls, PTL DEF Spec

-----------------------------------------------------------------------------
(* The ledger implements RunnerCustody.                                      *)

Holders(j) == {a \in Attempts : attempt[a].job = j /\ Live(a)}

Tried(j) == {a \in Attempts : attempt[a].job = j}

\* What a coordinator reads is what a settlement would write.
LEMMA ViewIsSettled ==
    ASSUME LedgerInv, NEW j \in Jobs
    PROVE  View(j) = SettledJobs[j].state
<1>0. TypeOK
  BY DEF LedgerInv
<1>1. CASE job[j].state # "leased"
  BY <1>0, <1>1, SettledFields DEF View
<1>2. CASE job[j].state = "leased"
  <2>1. PICK a \in Attempts : attempt[a].state = "live" /\ attempt[a].job = j
    BY <1>2 DEF LedgerInv, LeasedIsHeld
  <2>2. \A b \in Attempts : attempt[b].state = "live" /\ attempt[b].job = j => b = a
    BY <2>1 DEF LedgerInv, OneLiveAttempt
  <2>3. HasPassed(j) <=> Passed(a)
    BY <2>1, <2>2 DEF HasPassed, Passed
  <2>4. (\E b \in Attempts : attempt[b].job = j /\ Live(b)) <=> Live(a)
    BY <2>1, <2>2 DEF Live
  <2>5. Live(a) <=> ~Passed(a)
    BY <1>0, <2>1, SettledFields
  <2> QED
    BY <1>0, <1>2, <2>3, <2>4, <2>5, SettledFields DEF View
<1> QED
  BY <1>1, <1>2

\* A transition leaves the jobs settled: they are read as they are written.
LEMMA ViewAfter ==
    ASSUME NEW j \in Jobs,
           job'[j].state = "leased" => \E a \in Attempts : attempt'[a].job = j /\ Live(a)'
    PROVE  View(j)' = job'[j].state
BY DEF View

LEMMA CustodyStutters ==
    ASSUME \A j \in Jobs : View(j)' = View(j) /\ Holders(j)' = Holders(j) /\ Tried(j)' = Tried(j)
    PROVE  Custody!vars' = Custody!vars
<1>1. [j \in Jobs |-> View(j)]' = [j \in Jobs |-> View(j)]
  OBVIOUS
<1>2. [j \in Jobs |-> Holders(j)]' = [j \in Jobs |-> Holders(j)]
  OBVIOUS
<1>3. [j \in Jobs |-> Tried(j)]' = [j \in Jobs |-> Tried(j)]
  OBVIOUS
<1> QED
  BY <1>1, <1>2, <1>3 DEF Custody!vars, Holders, Tried

LEMMA CustodyOfQuiet ==
    ASSUME LedgerInv, Quiet
    PROVE  Custody!vars' = Custody!vars
<1>0. TypeOK
  BY DEF LedgerInv
<1>1. ASSUME NEW j \in Jobs PROVE View(j)' = View(j)
  <2>1. job'[j].state = "leased" => \E a \in Attempts : attempt'[a].job = j /\ Live(a)'
    BY <1>0, SettledInv, SettledFields DEF Quiet
  <2> QED
    BY <2>1, ViewAfter, ViewIsSettled DEF Quiet
<1>2. ASSUME NEW j \in Jobs PROVE Holders(j)' = Holders(j) /\ Tried(j)' = Tried(j)
  BY DEF Holders, Tried, Quiet
<1> QED
  BY <1>1, <1>2, CustodyStutters

\* Commands, a starting owner and stuttering: jobs, custody and the clock stay.
LEMMA CustodyOfStill ==
    ASSUME job' = job, \A a \in Attempts : attempt'[a].job = attempt[a].job /\ (Live(a)' <=> Live(a))
    PROVE  Custody!vars' = Custody!vars
<1>1. \A j \in Jobs : View(j)' = View(j) /\ Holders(j)' = Holders(j) /\ Tried(j)' = Tried(j)
  BY DEF View, Holders, Tried
<1> QED
  BY <1>1, CustodyStutters

LEMMA CustodyOfTick ==
    ASSUME LedgerInv, Tick
    PROVE  \E S \in SUBSET Jobs : Custody!Lose(S)
<1> DEFINE Stays(a) == attempt[a].state = "live" /\ now + 1 < attempt[a].lease
           S == {j \in Jobs : View(j) = "leased" /\ \A a \in Attempts : attempt[a].job = j => ~Stays(a)}
<1>0. /\ TypeOK /\ job' = job /\ attempt' = attempt
      /\ \A a \in Attempts : (Live(a)' <=> Stays(a)) /\ (Stays(a) => Live(a))
  BY AttemptFields DEF LedgerInv, TypeOK, Tick, Live
<1>1. ASSUME NEW j \in S
      PROVE  /\ View(j)' = IF j \in ReplaySafe THEN "queued" ELSE "unconfirmed"
             /\ Holders(j)' = {}
  BY <1>0 DEF View, Holders
<1>2. ASSUME NEW j \in Jobs \ S PROVE View(j)' = View(j) /\ Holders(j)' = Holders(j)
  <2>1. CASE View(j) = "leased"
    <3>1. PICK a \in Attempts : attempt[a].job = j /\ Stays(a)
      BY <1>2, <2>1
    <3>2. \A b \in Attempts : attempt[b].job = j /\ Live(b) => b = a
      BY <1>0, <3>1 DEF LedgerInv, OneLiveAttempt, Live
    <3>3. View(j)' = View(j)
      BY <1>0, <2>1, <3>1 DEF View
    <3>4. Holders(j) = {a} /\ Holders(j)' = {a}
      BY <1>0, <3>1, <3>2 DEF Holders
    <3> QED
      BY <3>3, <3>4
  <2>2. CASE View(j) # "leased"
    <3>1. \A a \in Attempts : ~(attempt[a].job = j /\ Live(a))
      BY <2>2 DEF LedgerInv, AttemptsHaveJobs, View, Live
    <3>2. View(j)' = View(j)
      BY <1>0, <3>1 DEF View
    <3> QED
      BY <1>0, <3>1, <3>2 DEF Holders
  <2> QED
    BY <2>1, <2>2
<1>3. Custody!Lose(S)
  <2>1. \A j \in S : [k \in Jobs |-> View(k)][j] = "leased"
    OBVIOUS
  <2>2. [j \in Jobs |-> View(j)]' =
        [j \in Jobs |-> IF j \notin S THEN [k \in Jobs |-> View(k)][j]
                        ELSE IF j \in ReplaySafe THEN "queued" ELSE "unconfirmed"]
    BY <1>1, <1>2
  <2>3. [j \in Jobs |-> Holders(j)]' =
        [j \in Jobs |-> IF j \in S THEN {} ELSE [k \in Jobs |-> Holders(k)][j]]
    BY <1>1, <1>2
  <2>4. [j \in Jobs |-> Tried(j)]' = [j \in Jobs |-> Tried(j)]
    BY <1>0 DEF Tried
  <2> HIDE DEF S
  <2> QED
    BY <2>1, <2>2, <2>3, <2>4 DEF Custody!Lose, Holders, Tried
<1>4. S \in SUBSET Jobs
  OBVIOUS
<1> HIDE DEF S
<1> QED
  BY <1>3, <1>4, Zenon DEF Custody!Lose

\* One job changes its phase and its holders; what the others show stays.
LEMMA CustodyChanges ==
    ASSUME NEW j \in Jobs,
           \A k \in Jobs \ {j} :
               View(k)' = View(k) /\ Holders(k)' = Holders(k) /\ Tried(k)' = Tried(k)
    PROVE  /\ [k \in Jobs |-> View(k)]' = [[k \in Jobs |-> View(k)] EXCEPT ![j] = View(j)']
           /\ [k \in Jobs |-> Holders(k)]' = [[k \in Jobs |-> Holders(k)] EXCEPT ![j] = Holders(j)']
           /\ [k \in Jobs |-> Tried(k)]' = [[k \in Jobs |-> Tried(k)] EXCEPT ![j] = Tried(j)']
OBVIOUS

LEMMA CustodyOfOffer ==
    ASSUME LedgerInv, NEW j \in Jobs, Enqueue(j) \/ Withdraw(j)
    PROVE  Custody!Offer(j) \/ Custody!Close(j)
<1>0. /\ TypeOK /\ attempt' = attempt /\ now' = now
      /\ job[j].state \in {"absent", "queued"}
      /\ \A k \in Jobs \ {j} : job'[k] = job[k]
  BY Fields DEF LedgerInv, Enqueue, Withdraw
<1>1. \A k \in Jobs : Holders(k)' = Holders(k) /\ Tried(k)' = Tried(k)
  BY <1>0 DEF Holders, Tried, Live
<1>2. \A k \in Jobs \ {j} : View(k)' = View(k)
  BY <1>0 DEF View, Live
<1>3. Holders(j) = {}
  BY <1>0 DEF Holders, Live, LedgerInv, AttemptsHaveJobs
<1>4. View(j) = job[j].state
  BY <1>0 DEF View
<1>5. DOMAIN job[j] = {"state", "created", "result"}
  BY <1>0, Fields, JobFields
<1>6. [k \in Jobs |-> Tried(k)]' = [k \in Jobs |-> Tried(k)]
  BY <1>1
<1>7. [k \in Jobs |-> Holders(k)]' = [k \in Jobs |-> Holders(k)]
  BY <1>1
<1>8. CASE Enqueue(j)
  <2>1. View(j) = "absent" /\ View(j)' = "queued"
    BY <1>0, <1>4, <1>5, <1>8, Fields DEF Enqueue, View
  <2> QED
    BY <1>1, <1>2, <1>6, <1>7, <2>1, CustodyChanges DEF Custody!Offer, Holders, Tried
<1>9. CASE Withdraw(j)
  <2>1. View(j) = "queued" /\ View(j)' = "finished" /\ Holders(j)' = {}
    BY <1>0, <1>1, <1>3, <1>4, <1>5, <1>9, Fields DEF Withdraw, View
  <2> QED
    BY <1>1, <1>2, <1>6, <2>1, CustodyChanges DEF Custody!Close, Holders, Tried
<1> QED
  BY <1>8, <1>9

LEMMA CustodyOfClaim ==
    ASSUME LedgerInv, NEW r \in Runners, NEW j \in Jobs, NEW a \in Attempts,
           Oldest(r, j), attempt[a].state = "absent", now' = now,
           job' = [SettledJobs EXCEPT ![j].state = "leased"],
           attempt' = [SettledAttempts EXCEPT ![a] =
               [state |-> "live", job |-> j, runner |-> r, epoch |-> 1, lease |-> now + Lease,
                contact |-> 0, started |-> now, acked |-> 0]]
    PROVE  Custody!Take(j, a)
<1> USE LeasesAssumption
<1>0. /\ TypeOK /\ SettledJobs \in [Jobs -> JobRow] /\ SettledAttempts \in [Attempts -> AttemptRow]
      /\ SettledJobs[j].state = "queued" /\ now \in Nat /\ attempt[a].job = "none"
  BY SettledTypes, Fields DEF LedgerInv, AttemptsHaveJobs, Oldest
<1>1. /\ attempt'[a].job = j /\ Live(a)'
      /\ \A b \in Attempts \ {a} : attempt'[b].job = attempt[b].job /\ (Live(b)' <=> Live(b))
  <2>1. /\ attempt'[a].job = j /\ attempt'[a].state = "live" /\ attempt'[a].lease = now + Lease
        /\ \A b \in Attempts \ {a} : attempt'[b] = SettledAttempts[b]
    BY <1>0
  <2>2. \A b \in Attempts : Live(b) => SettledAttempts[b].state = "live"
    BY <1>0, SettledFields
  <2>3. \A b \in Attempts \ {a} : Live(b)' <=> Live(b)
    BY <1>0, <2>1, <2>2, SettledFields DEF Live, Passed
  <2> QED
    BY <1>0, <2>1, <2>3, SettledFields DEF Live
<1>2. job'[j].state = "leased" /\ \A k \in Jobs \ {j} : job'[k] = SettledJobs[k]
  <2>1. DOMAIN SettledJobs[j] = {"state", "created", "result"}
    BY <1>0, JobFields
  <2> QED
    BY <1>0, <2>1
<1>3. ASSUME NEW k \in Jobs \ {j}
      PROVE  View(k)' = View(k) /\ Holders(k)' = Holders(k) /\ Tried(k)' = Tried(k)
  <2>1. job'[k].state = "leased" => \E b \in Attempts : attempt'[b].job = k /\ Live(b)'
    <3>1. SUFFICES ASSUME SettledJobs[k].state = "leased"
                   PROVE  \E b \in Attempts : attempt'[b].job = k /\ Live(b)'
      BY <1>2
    <3>2. PICK b \in Attempts : SettledAttempts[b].state = "live" /\ attempt[b].job = k
      BY <3>1, SettledInv
    <3> QED
      BY <1>0, <1>1, <3>2, SettledFields
  <2>2. View(k)' = View(k)
    BY <1>2, <2>1, ViewAfter, ViewIsSettled
  <2>3. Holders(k)' = Holders(k) /\ Tried(k)' = Tried(k)
    BY <1>0, <1>1 DEF Holders, Tried
  <2> QED
    BY <2>2, <2>3
<1>4. View(j) = "queued" /\ View(j)' = "leased"
  BY <1>0, <1>1, <1>2, ViewAfter, ViewIsSettled
<1>5. Holders(j)' = {a} /\ Tried(j)' = Tried(j) \cup {a}
  <2>1. \A b \in Attempts : attempt[b].job = j => ~Live(b)
    BY <1>0, SettledInv, SettledFields
  <2> QED
    BY <1>0, <1>1, <2>1 DEF Holders, Tried
<1>6. \A k \in Jobs : a \notin Tried(k)
  BY <1>0 DEF Tried
<1> QED
  BY <1>3, <1>4, <1>5, <1>6, CustodyChanges DEF Custody!Take, Holders, Tried

LEMMA CustodyOfFinish ==
    ASSUME LedgerInv, NEW r \in Runners, NEW a \in Attempts, NEW e \in Nat,
           NEW result \in Results, Finish(r, a, e, result), NEW j, attempt[a].job = j
    PROVE  j \in Jobs /\ Custody!Close(j)
<1> USE LeasesAssumption
<1>0. /\ TypeOK /\ SettledJobs \in [Jobs -> JobRow] /\ SettledAttempts \in [Attempts -> AttemptRow]
      /\ now \in Nat /\ Live(a) /\ j \in Jobs /\ job[j].state = "leased" /\ now' = now
  BY SettledTypes, Fields DEF LedgerInv, AttemptsHaveJobs, Finish, Holding, Live
<1>1. /\ attempt'[a].job = j /\ ~Live(a)'
      /\ \A b \in Attempts \ {a} : attempt'[b].job = attempt[b].job /\ (Live(b)' <=> Live(b))
  <2>1. DOMAIN SettledAttempts[a] = {"state", "job", "runner", "epoch", "lease", "contact", "started", "acked"}
    BY <1>0, AttemptFields
  <2>2. /\ attempt'[a].job = SettledAttempts[a].job /\ attempt'[a].state = "finished"
        /\ \A b \in Attempts \ {a} : attempt'[b] = SettledAttempts[b]
    BY <1>0, <2>1 DEF Finish
  <2>3. \A b \in Attempts \ {a} : Live(b)' <=> Live(b)
    BY <1>0, <2>2, SettledFields DEF Live, Passed
  <2> QED
    BY <1>0, <2>2, <2>3, SettledFields DEF Live
<1>2. job'[j].state = "finished" /\ \A k \in Jobs \ {j} : job'[k] = SettledJobs[k]
  <2>1. DOMAIN SettledJobs[j] = {"state", "created", "result"}
    BY <1>0, JobFields
  <2> QED
    BY <1>0, <2>1 DEF Finish
<1>3. ASSUME NEW k \in Jobs \ {j}
      PROVE  View(k)' = View(k) /\ Holders(k)' = Holders(k) /\ Tried(k)' = Tried(k)
  <2>1. job'[k].state = "leased" => \E b \in Attempts : attempt'[b].job = k /\ Live(b)'
    <3>1. SUFFICES ASSUME SettledJobs[k].state = "leased"
                   PROVE  \E b \in Attempts : attempt'[b].job = k /\ Live(b)'
      BY <1>2
    <3>2. PICK b \in Attempts : SettledAttempts[b].state = "live" /\ attempt[b].job = k
      BY <3>1, SettledInv
    <3> QED
      BY <1>0, <1>1, <3>2, SettledFields
  <2>2. View(k)' = View(k)
    BY <1>2, <2>1, ViewAfter, ViewIsSettled
  <2>3. Holders(k)' = Holders(k) /\ Tried(k)' = Tried(k)
    BY <1>0, <1>1 DEF Holders, Tried
  <2> QED
    BY <2>2, <2>3
<1>4. View(j) = "leased" /\ View(j)' = "finished"
  BY <1>0, <1>2 DEF View
<1>5. Holders(j)' = {} /\ Tried(j)' = Tried(j)
  <2>1. \A b \in Attempts \ {a} : attempt[b].job = j => ~Live(b)
    BY <1>0 DEF LedgerInv, OneLiveAttempt, Live
  <2> QED
    BY <1>0, <1>1, <2>1 DEF Holders, Tried
<1>6. [k \in Jobs |-> Tried(k)]' = [k \in Jobs |-> Tried(k)]
  BY <1>3, <1>5
<1>7. Custody!Close(j)
  BY <1>0, <1>3, <1>4, <1>5, <1>6, CustodyChanges DEF Custody!Close, Holders, Tried
<1> QED
  BY <1>0, <1>7

LEMMA CustodyOfInit == Init => Custody!Init
BY LeasesAssumption DEF Init, Custody!Init, View, Live

LEMMA CustodyOfCalls == LedgerInv /\ LeaseInv /\ AnyCall => [Custody!Next]_(Custody!vars)
<1> SUFFICES ASSUME LedgerInv, LeaseInv, AnyCall PROVE Custody!Next \/ Custody!vars' = Custody!vars
  OBVIOUS
<1>1. CASE Tick
  BY <1>1, CustodyOfTick DEF Custody!Next
<1>2. CASE ExtendLiveLeases
  <2>0. now \in Nat /\ Lease \in Nat /\ 0 < Lease
    BY LeasesAssumption DEF LeaseInv, TypeOK
  <2>1. ASSUME NEW a \in Attempts
        PROVE  attempt'[a].job = attempt[a].job /\ (Live(a)' <=> Live(a))
    <3>1. /\ DOMAIN attempt[a] = {"state", "job", "runner", "epoch", "lease", "contact", "started", "acked"}
          /\ attempt[a].lease \in Nat /\ Heard(a) \in Nat
      BY AttemptFields DEF LeaseInv, TypeOK, Heard
    <3>2. CASE attempt[a].state = "live" /\ now < Heard(a) + Lease /\ attempt[a].lease < now + Lease
      <4>1. attempt'[a] = [attempt[a] EXCEPT !.lease = now + Lease]
        BY <1>2, <3>2 DEF ExtendLiveLeases
      <4>2. Heard(a) + Lease <= attempt[a].lease
        BY <3>2 DEF LeaseInv, LeaseFollowsContact
      <4>3. Live(a) /\ Live(a)'
        BY <1>2, <2>0, <3>1, <3>2, <4>1, <4>2 DEF Live, ExtendLiveLeases
      <4> QED
        BY <3>1, <4>1, <4>3
    <3>3. CASE ~(attempt[a].state = "live" /\ now < Heard(a) + Lease /\ attempt[a].lease < now + Lease)
      <4>1. attempt'[a] = attempt[a]
        BY <1>2, <3>3 DEF ExtendLiveLeases
      <4> QED
        BY <1>2, <4>1 DEF Live, ExtendLiveLeases
    <3> QED
      BY <3>2, <3>3
  <2> QED
    BY <1>2, <2>1, CustodyOfStill DEF ExtendLiveLeases
<1>3. ASSUME NEW c \in Commands, RecordCommand(c) PROVE Custody!vars' = Custody!vars
  BY <1>3, CustodyOfStill DEF RecordCommand, Live
<1>4. ASSUME NEW j \in Jobs, Enqueue(j) \/ Withdraw(j) PROVE Custody!Next
  BY <1>4, CustodyOfOffer DEF Custody!Next
<1>5. ASSUME NEW r \in Runners, Claim(r) PROVE Custody!Next \/ Custody!vars' = Custody!vars
  <2>1. CASE \E j \in Jobs : Oldest(r, j)
    BY <1>5, <2>1, CustodyOfClaim DEF Claim, Custody!Next
  <2>2. CASE ~\E j \in Jobs : Oldest(r, j)
    BY <1>5, <2>2, QuietCalls, CustodyOfQuiet DEF LedgerInv
  <2> QED
    BY <2>1, <2>2
<1>6. ASSUME NEW r \in Runners, NEW A \in SUBSET Attempts, Reacquire(r, A)
      PROVE  Custody!vars' = Custody!vars
  BY <1>6, QuietCalls, CustodyOfQuiet DEF LedgerInv
<1>7. ASSUME NEW r \in Runners, NEW a \in Attempts, NEW e \in Nat,
             \/ Heartbeat(r, a, e)
             \/ \E batch \in SUBSET Nat : Sync(r, a, e, batch) \/ AppendEvents(r, a, e, batch)
             \/ \E result \in Results, c \in Commands : CommandResult(r, a, e, c, result)
      PROVE  Custody!vars' = Custody!vars
  BY <1>7, QuietCalls, CustodyOfQuiet DEF LedgerInv
<1>8. ASSUME NEW r \in Runners, NEW a \in Attempts, NEW e \in Nat, NEW result \in Results,
             Finish(r, a, e, result)
      PROVE  Custody!Next
  BY <1>8, CustodyOfFinish DEF Custody!Next
<1> QED
  BY <1>1, <1>2, <1>3, <1>4, <1>5, <1>6, <1>7, <1>8 DEF AnyCall

\* What the ledger's own model and every model composed with it say of each transaction.
LEMMA CustodyOfStep == LedgerInv /\ LeaseInv /\ [AnyCall]_vars => [Custody!Next]_(Custody!vars)
<1>1. UNCHANGED vars => UNCHANGED Custody!vars
  <2> SUFFICES ASSUME UNCHANGED vars PROVE Custody!vars' = Custody!vars
    OBVIOUS
  <2> QED
    BY CustodyOfStill DEF vars, Live
<1> QED
  BY <1>1, CustodyOfCalls

\* Whatever makes the calls, the ledger keeps custody.
LEMMA CallsKeepCustody ==
    Init /\ [][AnyCall]_vars =>
        ImplementsCustody /\ []TurnNeverStartsTwice /\ []LeaseFollowsContact
<1>1. LedgerInv => TurnNeverStartsTwice
  BY DEF LedgerInv
<1>2. LeaseInv => LeaseFollowsContact
  BY DEF LeaseInv
<1> QED
  BY <1>1, <1>2, CustodyOfStep, CustodyOfInit, LedgerInvOfInit, LedgerInvOfStep, LeaseInvOfInit,
     LeaseInvOfCalls, PTL DEF ImplementsCustody, Custody!Spec

\* Step by step, what a coordinator reads of the ledger is a behaviour of RunnerCustody:
\* ImplementsCustody.
THEOREM LedgerImplementsCustody == Spec => ImplementsCustody
BY NextIsCall, CallsKeepCustody, PTL DEF Spec

=============================================================================
