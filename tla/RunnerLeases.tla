----------------------------- MODULE RunnerLeases -----------------------------
(* The runner protocol's ledger: jobs, the attempts that hold them under a    *)
(* lease and an epoch, the events and the command results attempts write.     *)
(* Each operation is one transaction.  A call the ledger refuses throws and   *)
(* its transaction is rolled back, so it is no step here.                     *)
EXTENDS Naturals, FiniteSets

CONSTANTS
    Jobs, Attempts, Runners, Commands, Results,
    ReplaySafe,     \* the jobs that declared it
    Serves,         \* Serves[r]: the jobs of a kind r runs that name no other runner
    CommandJob,     \* CommandJob[c]: the job command c is for
    Lease,          \* LEASE_MS
    Resolution,     \* CONTACT_RESOLUTION_MS
    MaxTime, MaxEpoch, MaxSeq      \* bounds of the model

ASSUME LeasesAssumption ==
    /\ ReplaySafe \subseteq Jobs /\ "none" \notin Jobs
    /\ Serves \in [Runners -> SUBSET Jobs]
    /\ CommandJob \in [Commands -> Jobs]
    /\ Lease \in Nat /\ Resolution \in Nat /\ 0 < Resolution /\ Resolution <= Lease
    /\ MaxTime \in Nat /\ MaxEpoch \in Nat /\ MaxSeq \in Nat
    /\ Results \cap {"none", "withdrawn", "lease_expired"} = {}

VARIABLES
    now,        \* the owner's clock
    job,        \* table runner_jobs
    attempt,    \* table runner_attempts
    events,     \* table runner_events: events[a] holds <<seq, epoch of the writer>>
    command     \* table runner_commands

vars == <<now, job, attempt, events, command>>

JobStates == {"absent", "queued", "leased", "finished", "unconfirmed"}

JobRow == [state : JobStates, created : Nat,
           result : Results \cup {"none", "withdrawn", "lease_expired"}]

\* contact = 0 stands for a last_contact_at_ms that is NULL.
AttemptRow == [state : {"absent", "live", "finished", "expired"}, job : Jobs \cup {"none"},
               runner : Runners \cup {"none"}, epoch : Nat, lease : Nat, contact : Nat,
               started : Nat, acked : Nat]

CommandRow == [state : {"absent", "open", "answered"}, result : Results \cup {"none"}]

TypeOK ==
    /\ now \in Nat
    /\ job \in [Jobs -> JobRow]
    /\ attempt \in [Attempts -> AttemptRow]
    /\ events \in [Attempts -> SUBSET (Nat \X Nat)]
    /\ command \in [Commands -> CommandRow]

\* The clock starts far enough from zero for "a lease ago" to be an instant.
Init ==
    /\ now = Lease
    /\ job = [j \in Jobs |-> [state |-> "absent", created |-> 0, result |-> "none"]]
    /\ attempt = [a \in Attempts |->
           [state |-> "absent", job |-> "none", runner |-> "none", epoch |-> 0, lease |-> 0,
            contact |-> 0, started |-> 0, acked |-> 0]]
    /\ events = [a \in Attempts |-> {}]
    /\ command = [c \in Commands |-> [state |-> "absent", result |-> "none"]]

-----------------------------------------------------------------------------
(* Liveness is computed: an attempt whose lease has passed holds nothing,     *)
(* whether or not a transition has written so yet.                            *)

Passed(a) == attempt[a].state = "live" /\ attempt[a].lease <= now

Live(a) == attempt[a].state = "live" /\ now < attempt[a].lease

HasPassed(j) == \E a \in Attempts : Passed(a) /\ attempt[a].job = j

\* What settleExpired writes.
SettledAttempts ==
    [a \in Attempts |-> IF Passed(a) THEN [attempt[a] EXCEPT !.state = "expired"] ELSE attempt[a]]

Expired(j) == IF j \in ReplaySafe THEN [job[j] EXCEPT !.state = "queued"]
              ELSE [job[j] EXCEPT !.state = "unconfirmed", !.result = "lease_expired"]

SettledJobs ==
    [j \in Jobs |-> IF job[j].state = "leased" /\ HasPassed(j) THEN Expired(j) ELSE job[j]]

Settle == job' = SettledJobs /\ attempt' = SettledAttempts

\* Bug: a passed lease still holds until a transition has settled it.
HoldingUnswept(r, a, e) ==
    attempt[a].state = "live" /\ attempt[a].runner = r /\ attempt[a].epoch = e

\* The custody check of every call that names an attempt and the epoch it holds.
Holding(r, a, e) == Live(a) /\ attempt[a].runner = r /\ attempt[a].epoch = e

\* The latest sign of life the ledger has of an attempt.
Heard(a) == IF attempt[a].contact = 0 THEN attempt[a].started ELSE attempt[a].contact

\* The coordinator's read of a job: a passed lease counts as settled.
View(j) == IF job[j].state = "leased" /\ ~\E a \in Attempts : attempt[a].job = j /\ Live(a)
           THEN IF j \in ReplaySafe THEN "queued" ELSE "unconfirmed"
           ELSE job[j].state

-----------------------------------------------------------------------------
(* The coordinator.                                                          *)

Enqueue(j) ==
    /\ job[j].state = "absent"
    /\ job' = [job EXCEPT ![j] = [@ EXCEPT !.state = "queued", !.created = now]]
    /\ UNCHANGED <<now, attempt, events, command>>

Withdraw(j) ==
    /\ j \notin ReplaySafe          \* only turn jobs are withdrawn
    /\ job[j].state = "queued"
    /\ job' = [job EXCEPT ![j] = [@ EXCEPT !.state = "finished", !.result = "withdrawn"]]
    /\ UNCHANGED <<now, attempt, events, command>>

RecordCommand(c) ==
    /\ job[CommandJob[c]].state # "absent"
    /\ command[c].state = "absent"
    /\ command' = [command EXCEPT ![c].state = "open"]
    /\ UNCHANGED <<now, job, attempt, events>>

\* Bug: every live lease is extended, heard from or not.
ExtendEveryLease ==
    /\ attempt' = [a \in Attempts |->
           IF attempt[a].state = "live" THEN [attempt[a] EXCEPT !.lease = now + Lease] ELSE attempt[a]]
    /\ UNCHANGED <<now, job, events, command>>

\* The owner starts: the time it was down does not count against a runner it heard from.
ExtendLiveLeases ==
    /\ attempt' = [a \in Attempts |->
           IF /\ attempt[a].state = "live"
              /\ now < Heard(a) + Lease
              /\ attempt[a].lease < now + Lease
           THEN [attempt[a] EXCEPT !.lease = now + Lease] ELSE attempt[a]]
    /\ UNCHANGED <<now, job, events, command>>

-----------------------------------------------------------------------------
(* The runners.                                                              *)

Oldest(r, j) ==
    /\ j \in Serves[r] /\ SettledJobs[j].state = "queued"
    /\ \A k \in Serves[r] : SettledJobs[k].state = "queued" => job[j].created <= job[k].created

Claim(r) ==
    \/ \E j \in Jobs, a \in Attempts :
           /\ Oldest(r, j)
           /\ attempt[a].state = "absent"
           /\ job' = [SettledJobs EXCEPT ![j].state = "leased"]
           /\ attempt' = [SettledAttempts EXCEPT ![a] =
                  [state |-> "live", job |-> j, runner |-> r, epoch |-> 1, lease |-> now + Lease,
                   contact |-> 0, started |-> now, acked |-> 0]]
           /\ UNCHANGED <<now, events, command>>
    \/ /\ ~\E j \in Jobs : Oldest(r, j)
       /\ Settle
       /\ UNCHANGED <<now, events, command>>

\* A restarted daemon takes back what it still holds; each attempt gets a new epoch.
Reacquire(r, A) ==
    /\ attempt' = [a \in Attempts |->
           IF a \in A /\ attempt[a].runner = r /\ Live(a)
           THEN [attempt[a] EXCEPT !.epoch = @ + 1, !.lease = now + Lease, !.contact = now]
           ELSE SettledAttempts[a]]
    /\ job' = SettledJobs
    /\ UNCHANGED <<now, events, command>>

\* The rows appendEvents adds for a batch of sequences, and the cursor they end at.
Contiguous(a, batch, cursor) ==
    /\ cursor \in batch \cup {attempt[a].acked} /\ attempt[a].acked <= cursor
    /\ attempt[a].acked + 1 .. cursor \subseteq batch
    /\ cursor + 1 \notin batch

Stored(a, e, cursor) ==
    [events EXCEPT ![a] = @ \cup ((attempt[a].acked + 1 .. cursor) \X {e})]

\* The lease moves only when the last contact is a few seconds old.
ContactDue(a) == attempt[a].contact + Resolution <= now

\* One attempt's part of a sync: an attempt that is not held is answered with its refusal alone.
Sync(r, a, e, batch) ==
    \/ /\ Holding(r, a, e)
       /\ \E cursor \in batch \cup {attempt[a].acked} :
             /\ Contiguous(a, batch, cursor)
             /\ events' = Stored(a, e, cursor)
             /\ attempt' = IF ContactDue(a)
                           THEN [SettledAttempts EXCEPT ![a] = [@ EXCEPT !.acked = cursor,
                                                                         !.lease = now + Lease, !.contact = now]]
                           ELSE [SettledAttempts EXCEPT ![a].acked = cursor]
       /\ job' = SettledJobs
       /\ UNCHANGED <<now, command>>
    \/ /\ ~Holding(r, a, e)
       /\ Settle
       /\ UNCHANGED <<now, events, command>>

AppendEvents(r, a, e, batch) ==
    /\ Holding(r, a, e)
    /\ \E cursor \in batch \cup {attempt[a].acked} :
          /\ Contiguous(a, batch, cursor)
          /\ events' = Stored(a, e, cursor)
          /\ attempt' = [SettledAttempts EXCEPT ![a].acked = cursor]
    /\ job' = SettledJobs
    /\ UNCHANGED <<now, command>>

Heartbeat(r, a, e) ==
    /\ Holding(r, a, e)
    /\ attempt' = [SettledAttempts EXCEPT ![a] = [@ EXCEPT !.lease = now + Lease, !.contact = now]]
    /\ job' = SettledJobs
    /\ UNCHANGED <<now, events, command>>

\* The first result of a command stands.
CommandResult(r, a, e, c, result) ==
    /\ Holding(r, a, e)
    /\ command' = IF CommandJob[c] = attempt[a].job /\ command[c].state = "open"
                  THEN [command EXCEPT ![c] = [@ EXCEPT !.state = "answered", !.result = result]]
                  ELSE command
    /\ Settle
    /\ UNCHANGED <<now, events>>

\* A repeated finish only reads the first answer, so it is no step.
Finish(r, a, e, result) ==
    /\ Holding(r, a, e)
    /\ attempt' = [SettledAttempts EXCEPT ![a].state = "finished"]
    /\ job' = [SettledJobs EXCEPT ![attempt[a].job] = [@ EXCEPT !.state = "finished",
                                                                !.result = result]]
    /\ UNCHANGED <<now, events, command>>

Tick ==
    /\ now < MaxTime
    /\ now' = now + 1
    /\ UNCHANGED <<job, attempt, events, command>>

\* Runners call with any epoch an attempt has had: answers and restarts overlap.
Next ==
    \/ Tick \/ ExtendLiveLeases
    \/ \E j \in Jobs : Enqueue(j) \/ Withdraw(j)
    \/ \E c \in Commands : RecordCommand(c)
    \/ \E r \in Runners : Claim(r)
    \/ \E r \in Runners, A \in SUBSET Attempts :
          /\ \A a \in A : attempt[a].runner = r /\ attempt[a].epoch < MaxEpoch
          /\ Reacquire(r, A)
    \/ \E r \in Runners, a \in Attempts, e \in 1 .. MaxEpoch :
          /\ attempt[a].runner = r /\ e <= attempt[a].epoch
          /\ \/ Heartbeat(r, a, e)
             \/ \E batch \in SUBSET (1 .. MaxSeq) : Sync(r, a, e, batch) \/ AppendEvents(r, a, e, batch)
             \/ \E result \in Results :
                   \/ Finish(r, a, e, result)
                   \/ \E c \in Commands : CommandResult(r, a, e, c, result)

Spec == Init /\ [][Next]_vars

-----------------------------------------------------------------------------
(* Properties.                                                               *)

Custody == INSTANCE RunnerCustody WITH
    phase <- [j \in Jobs |-> View(j)],
    holders <- [j \in Jobs |-> {a \in Attempts : attempt[a].job = j /\ Live(a)}],
    tried <- [j \in Jobs |-> {a \in Attempts : attempt[a].job = j}]

\* What a coordinator reads of the jobs obeys the custody it relies on, although expired leases are
\* written only by whatever transition comes next, and although a starting owner extends leases.
ImplementsCustody == Custody!Spec

\* A turn job is held by one attempt in its life, and a withdrawn one by none: the coordinator takes
\* a withdrawal as proof that nothing started.
TurnNeverStartsTwice ==
    \A a, b \in Attempts : \A j \in Jobs \ ReplaySafe :
        attempt[a].job = j =>
            /\ attempt[b].job = j => a = b
            /\ job[j].state \notin {"absent", "queued"} /\ job[j].result # "withdrawn"

\* Every sequence up to the acknowledged one is stored exactly once, whatever is sent again, and a
\* copy of the daemon with an older epoch stores nothing after a newer one did.
EventsInOrder ==
    \A a \in Attempts :
        /\ \A n \in 1 .. attempt[a].acked : \E x \in events[a] : x[1] = n
        /\ \A x \in events[a] : x[1] \in 1 .. attempt[a].acked
        /\ \A x, y \in events[a] : (x[1] = y[1] => x = y) /\ (x[1] < y[1] => x[2] <= y[2])

\* A lease covers its runner's last contact by at least one lease, so the fence of the runner comes
\* first, and by less than two, so an owner that restarts again and again still gives the turn up.
LeaseFollowsContact ==
    \A a \in Attempts : attempt[a].state = "live" =>
        /\ Heard(a) + Lease <= attempt[a].lease
        /\ attempt[a].lease < Heard(a) + 2 * Lease

=============================================================================
