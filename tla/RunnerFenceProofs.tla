-------------------------- MODULE RunnerFenceProofs --------------------------
(* Proofs about the fence of a runner: whenever the margins of the source     *)
(* hold between the fences, the answers and the lease, an agent is told to    *)
(* stop before its turn can be lost, but in the one case the property names.  *)
EXTENDS RunnerFence, RunnerLeasesProofs

DaemonRecord == [state : {"idle", "running", "down", "starting", "reading"}, epoch : Nat, contact : Nat,
                 fenced : BOOLEAN]
AgentRecord == [state : {"none", "launching", "acting", "stopping", "gone"}, since : Nat]
WireRecord == [what : {"nothing", "claim", "sync", "reacquire"}, at : Nat, ok : BOOLEAN]

(* The clock starts at Lease; a live lease covers the last contact, and no    *)
(* more than one from now; an agent's step is not ahead of the clock.         *)
TurnTypes ==
    /\ now \in Nat /\ Lease <= now /\ agent.since <= now
    /\ attempt \in [Attempts -> AttemptRow]
    /\ contactFile \in Nat /\ carried \in BOOLEAN /\ held \in Nat /\ crashes \in Nat
    /\ daemon \in DaemonRecord /\ agent \in AgentRecord /\ wire \in WireRecord
    /\ attempt[Only].state = "live" =>
          attempt[Only].contact + Lease <= attempt[Only].lease /\ attempt[Only].lease <= now + Lease

(* The agent is, or will be, at work, and nobody has told it to stop.         *)
AtLarge == agent.state \in {"launching", "acting"}

(* Before the claim is answered there is nothing to fence.                    *)
BeforeClaim ==
    /\ agent.state = "none" =>
          /\ held = 0 /\ daemon.state \in {"idle", "down"} /\ wire.what \in {"nothing", "claim"}
          /\ carried => contactFile = 0
    /\ agent.state # "none" => wire.what # "claim" /\ attempt[Only].state # "absent" /\ attempt[Only].runner = Machine
    /\ wire.what = "claim" =>
          attempt[Only].state # "absent" /\ attempt[Only].runner = Machine /\ attempt[Only].epoch = 1 /\ wire.ok

(* A call that was answered "held" moved the lease, or found it moved a       *)
(* moment ago; and its answer comes in time.                                  *)
AnswerInTime ==
    wire.what # "nothing" =>
        /\ wire.at <= now /\ now <= wire.at + Answer
        /\ wire.ok => attempt[Only].state = "live" /\ wire.at + Lease < attempt[Only].lease + Resolution

(* The lease reaches beyond a contact by what the margins need.               *)
Covers(contact) == attempt[Only].state = "live" /\ contact + Lease < attempt[Only].lease + Resolution + Answer

(* The contact that the host fences by, where it was about this turn.         *)
HostIsFenced ==
    AtLarge /\ carried =>
        /\ contactFile # 0 /\ contactFile <= now /\ Covers(contactFile)
        /\ agent.state = "launching" => agent.since <= contactFile
        /\ agent.state = "acting" => now <= contactFile + Fence + HostCheck

(* The contact that the daemon fences by, until it first dies.                *)
DaemonFences ==
    crashes = 0 =>
        /\ daemon.state \in {"idle", "running"} /\ wire.what # "reacquire"
        /\ AtLarge =>
              /\ daemon.state = "running" /\ attempt[Only].epoch = daemon.epoch
              /\ wire.what # "nothing" => wire.ok
              /\ daemon.contact <= now /\ Covers(daemon.contact)
              /\ agent.state = "launching" => agent.since <= daemon.contact
              /\ ~daemon.fenced /\ now <= daemon.contact + Fence + Check

(* An agent starts, and is told to stop, in time.                             *)
AgentInTime ==
    /\ agent.state = "launching" => now <= agent.since + Launching
    /\ agent.state = "stopping" /\ (crashes = 0 \/ carried) => agent.since + Grace < attempt[Only].lease

FenceInv ==
    TurnTypes /\ BeforeClaim /\ AnswerInTime /\ HostIsFenced /\ DaemonFences /\ AgentInTime

-----------------------------------------------------------------------------
(* What the calls leave of the attempt.                                       *)

CallKeeps ==
    /\ attempt' \in [Attempts -> AttemptRow] /\ now' = now
    /\ attempt'[Only].runner = attempt[Only].runner /\ attempt[Only].lease <= attempt'[Only].lease
    /\ attempt[Only].state # "absent" => attempt'[Only].state # "absent"
    /\ Live(Only) => attempt'[Only].state = "live"
    /\ attempt'[Only].state = "live" =>
          attempt'[Only].contact + Lease <= attempt'[Only].lease /\ attempt'[Only].lease <= now + Lease

LEMMA RowIs ==
    ASSUME TurnTypes
    PROVE  /\ Only \in Attempts /\ attempt[Only] \in AttemptRow /\ now \in Nat /\ Lease \in Nat /\ now + Lease \in Nat
           /\ attempt[Only].lease \in Nat /\ attempt[Only].contact \in Nat /\ attempt[Only].epoch \in Nat
           /\ SettledAttempts \in [Attempts -> AttemptRow]
           /\ SettledAttempts[Only] =
                  IF Passed(Only) THEN [attempt[Only] EXCEPT !.state = "expired"] ELSE attempt[Only]
           /\ DOMAIN attempt[Only] = {"state", "job", "runner", "epoch", "lease", "contact", "started", "acked"}
           /\ DOMAIN SettledAttempts[Only] = {"state", "job", "runner", "epoch", "lease", "contact", "started", "acked"}
<1>1. Only \in Attempts /\ attempt[Only] \in AttemptRow /\ now \in Nat /\ Lease \in Nat
  BY FenceAssumption, LeasesAssumption DEF TurnTypes
<1>2. \A a \in Attempts : attempt[a] \in AttemptRow /\ [attempt[a] EXCEPT !.state = "expired"] \in AttemptRow
  BY AttemptUpdates DEF TurnTypes
<1>3. SettledAttempts \in [Attempts -> AttemptRow]
  BY <1>2 DEF SettledAttempts
<1>4. SettledAttempts[Only] = IF Passed(Only) THEN [attempt[Only] EXCEPT !.state = "expired"] ELSE attempt[Only]
  BY <1>1 DEF SettledAttempts
<1> QED
  BY <1>1, <1>3, <1>4, AttemptFields

LEMMA SettledRow ==
    ASSUME TurnTypes
    PROVE  /\ SettledAttempts[Only].runner = attempt[Only].runner /\ SettledAttempts[Only].epoch = attempt[Only].epoch
           /\ SettledAttempts[Only].lease = attempt[Only].lease /\ SettledAttempts[Only].contact = attempt[Only].contact
           /\ attempt[Only].state # "absent" => SettledAttempts[Only].state # "absent"
           /\ Live(Only) => SettledAttempts[Only].state = "live"
           /\ SettledAttempts[Only].state = "live" => attempt[Only].state = "live"
<1>1. CASE Passed(Only)
  BY <1>1, RowIs DEF Live, Passed
<1>2. CASE ~Passed(Only)
  BY <1>2, RowIs DEF Live
<1> QED
  BY <1>1, <1>2

LEMMA SettleKeeps ==
    ASSUME TurnTypes, attempt' = SettledAttempts, now' = now
    PROVE  CallKeeps /\ attempt'[Only].epoch = attempt[Only].epoch
BY RowIs, SettledRow DEF CallKeeps, TurnTypes

LEMMA ExtendKeeps ==
    ASSUME TurnTypes, ExtendLiveLeases
    PROVE  CallKeeps /\ attempt'[Only].epoch = attempt[Only].epoch
<1>1. \A a \in Attempts : attempt[a] \in AttemptRow /\ [attempt[a] EXCEPT !.lease = now + Lease] \in AttemptRow
  BY RowIs, AttemptUpdates DEF TurnTypes
<1>2. attempt' \in [Attempts -> AttemptRow]
  BY <1>1 DEF ExtendLiveLeases
<1>3. \/ attempt'[Only] = attempt[Only]
      \/ attempt[Only].lease < now + Lease /\ attempt'[Only] = [attempt[Only] EXCEPT !.lease = now + Lease]
  BY RowIs DEF ExtendLiveLeases
<1>4. now' = now
  BY DEF ExtendLiveLeases
<1>5. CASE attempt'[Only] = attempt[Only]
  BY <1>2, <1>4, <1>5, RowIs DEF CallKeeps, TurnTypes, Live
<1>6. CASE attempt[Only].lease < now + Lease /\ attempt'[Only] = [attempt[Only] EXCEPT !.lease = now + Lease]
  <2>1. /\ attempt'[Only].runner = attempt[Only].runner /\ attempt'[Only].state = attempt[Only].state
        /\ attempt'[Only].lease = now + Lease /\ attempt'[Only].contact = attempt[Only].contact
        /\ attempt'[Only].epoch = attempt[Only].epoch
    BY <1>6, RowIs
  <2> QED
    BY <1>2, <1>4, <1>6, <2>1, RowIs DEF CallKeeps, TurnTypes, Live
<1> QED
  BY <1>3, <1>5, <1>6

\* The lease after a sync that was accepted: moved, or moved less than a resolution ago.
LEMMA SyncKeeps ==
    ASSUME TurnTypes, NEW e, Sync(Machine, Only, e, {})
    PROVE  /\ CallKeeps /\ attempt'[Only].epoch = attempt[Only].epoch
           /\ Holding(Machine, Only, e) => now + Lease < attempt'[Only].lease + Resolution
<1>1. CASE ~Holding(Machine, Only, e)
  BY <1>1, SettleKeeps DEF Sync, Settle
<1>2. CASE Holding(Machine, Only, e)
  <2>1. PICK cursor \in {} \cup {attempt[Only].acked} :
            /\ now' = now
            /\ attempt' = IF ContactDue(Only)
                          THEN [SettledAttempts EXCEPT ![Only] = [@ EXCEPT !.acked = cursor,
                                                                           !.lease = now + Lease, !.contact = now]]
                          ELSE [SettledAttempts EXCEPT ![Only].acked = cursor]
    BY <1>2 DEF Sync
  <2>2. cursor \in Nat
    BY RowIs, AttemptFields
  <2>3. Live(Only) /\ SettledAttempts[Only] \in AttemptRow
    BY <1>2, RowIs DEF Holding
  <2>4. CASE ContactDue(Only)
    <3>1. attempt' = [SettledAttempts EXCEPT ![Only] =
              [SettledAttempts[Only] EXCEPT !.acked = cursor, !.lease = now + Lease, !.contact = now]]
      BY <2>1, <2>4, RowIs
    <3>2. [SettledAttempts[Only] EXCEPT !.acked = cursor, !.lease = now + Lease, !.contact = now] \in AttemptRow
      BY <2>2, <2>3, RowIs, AttemptUpdates
    <3>3. attempt' \in [Attempts -> AttemptRow]
      BY <3>1, <3>2, RowIs
    <3>4. /\ attempt'[Only].runner = SettledAttempts[Only].runner /\ attempt'[Only].state = SettledAttempts[Only].state
          /\ attempt'[Only].lease = now + Lease /\ attempt'[Only].contact = now
          /\ attempt'[Only].epoch = SettledAttempts[Only].epoch
      BY <3>1, RowIs
    <3>5. attempt[Only].lease <= now + Lease
      BY <2>3 DEF TurnTypes, Live
    <3> QED
      BY <2>1, <2>3, <3>3, <3>4, <3>5, SettledRow, RowIs, LeasesAssumption DEF CallKeeps
  <2>5. CASE ~ContactDue(Only)
    <3>1. attempt' = [SettledAttempts EXCEPT ![Only] = [SettledAttempts[Only] EXCEPT !.acked = cursor]]
      BY <2>1, <2>5, RowIs
    <3>2. [SettledAttempts[Only] EXCEPT !.acked = cursor] \in AttemptRow
      BY <2>2, <2>3, RowIs, AttemptUpdates
    <3>3. attempt' \in [Attempts -> AttemptRow]
      BY <3>1, <3>2, RowIs
    <3>4. /\ attempt'[Only].runner = SettledAttempts[Only].runner /\ attempt'[Only].state = SettledAttempts[Only].state
          /\ attempt'[Only].lease = SettledAttempts[Only].lease /\ attempt'[Only].contact = SettledAttempts[Only].contact
          /\ attempt'[Only].epoch = SettledAttempts[Only].epoch
      BY <3>1, RowIs
    <3>5. now + Lease < attempt[Only].lease + Resolution
      BY <2>3, <2>5, RowIs, LeasesAssumption DEF TurnTypes, ContactDue, Live
    <3> QED
      BY <2>1, <2>3, <3>3, <3>4, <3>5, SettledRow, RowIs DEF CallKeeps, TurnTypes, Live
  <2> QED
    BY <2>4, <2>5
<1> QED
  BY <1>1, <1>2

\* A claim that finds the turn makes its attempt; nothing held the turn before.
LEMMA ClaimBegins ==
    ASSUME TurnTypes, \E j \in Jobs : Oldest(Machine, j), Claim(Machine)
    PROVE  /\ attempt[Only].state = "absent"
           /\ attempt' \in [Attempts -> AttemptRow] /\ now' = now
           /\ attempt'[Only].state = "live" /\ attempt'[Only].runner = Machine /\ attempt'[Only].epoch = 1
           /\ attempt'[Only].lease = now + Lease /\ attempt'[Only].contact = 0
<1>1. PICK j \in Jobs, a \in Attempts :
          /\ attempt[a].state = "absent" /\ now' = now
          /\ attempt' = [SettledAttempts EXCEPT ![a] =
                 [state |-> "live", job |-> j, runner |-> Machine, epoch |-> 1, lease |-> now + Lease,
                  contact |-> 0, started |-> now, acked |-> 0]]
  BY DEF Claim
<1>2. a = Only
  BY FenceAssumption
<1>3. [state |-> "live", job |-> j, runner |-> Machine, epoch |-> 1, lease |-> now + Lease,
       contact |-> 0, started |-> now, acked |-> 0] \in AttemptRow
  BY RowIs, FenceAssumption DEF AttemptRow
<1>4. attempt' \in [Attempts -> AttemptRow]
  BY <1>1, <1>3, RowIs
<1>5. attempt'[Only] = [state |-> "live", job |-> j, runner |-> Machine, epoch |-> 1, lease |-> now + Lease,
                        contact |-> 0, started |-> now, acked |-> 0]
  BY <1>1, <1>2, RowIs
<1> QED
  BY <1>1, <1>2, <1>4, <1>5

\* A reacquire that takes the turn back gives it a lease from now.
LEMMA ReacquireKeeps ==
    ASSUME TurnTypes, Reacquire(Machine, {Only})
    PROVE  /\ CallKeeps
           /\ Live(Only) /\ attempt[Only].runner = Machine =>
                  attempt'[Only].state = "live" /\ attempt'[Only].lease = now + Lease
<1> DEFINE Taken(a) == [attempt[a] EXCEPT !.epoch = attempt[a].epoch + 1, !.lease = now + Lease, !.contact = now]
<1>1. /\ now' = now
      /\ \A a \in Attempts : attempt'[a] = IF a \in {Only} /\ attempt[a].runner = Machine /\ Live(a)
                                           THEN Taken(a) ELSE SettledAttempts[a]
  BY DEF Reacquire
<1>2. \A a \in Attempts : Taken(a) \in AttemptRow /\ Taken(a).runner = attempt[a].runner
          /\ Taken(a).state = attempt[a].state /\ Taken(a).lease = now + Lease /\ Taken(a).contact = now
  <2>1. ASSUME NEW a \in Attempts PROVE Taken(a) \in AttemptRow
    <3>1. attempt[a] \in AttemptRow /\ attempt[a].epoch + 1 \in Nat /\ now + Lease \in Nat /\ now \in Nat
      BY RowIs, AttemptFields DEF TurnTypes
    <3> QED
      BY <3>1, AttemptUpdates
  <2>2. ASSUME NEW a \in Attempts
        PROVE  Taken(a).runner = attempt[a].runner /\ Taken(a).state = attempt[a].state
               /\ Taken(a).lease = now + Lease /\ Taken(a).contact = now
    BY RowIs, AttemptFields DEF TurnTypes
  <2> QED
    BY <2>1, <2>2
<1> HIDE DEF Taken
<1>4. attempt' \in [Attempts -> AttemptRow]
  <2>1. attempt' = [a \in Attempts |-> attempt'[a]]
    BY DEF Reacquire
  <2>2. \A a \in Attempts : attempt'[a] \in AttemptRow
    BY <1>1, <1>2, RowIs
  <2> QED
    BY <2>1, <2>2
<1>5. CASE attempt[Only].runner = Machine /\ Live(Only)
  <2>1. attempt'[Only] = Taken(Only)
    BY <1>1, <1>5, RowIs
  <2> QED
    BY <1>1, <1>2, <1>4, <1>5, <2>1, RowIs DEF CallKeeps, TurnTypes, Live
<1>6. CASE ~(attempt[Only].runner = Machine /\ Live(Only))
  <2>1. attempt'[Only] = SettledAttempts[Only]
    BY <1>1, <1>6, RowIs
  <2> QED
    BY <1>1, <1>4, <1>6, <2>1, SettledRow, RowIs DEF CallKeeps, TurnTypes
<1> QED
  BY <1>5, <1>6

\* A finish only ends the attempt.
LEMMA FinishKeeps ==
    ASSUME TurnTypes, NEW e, NEW result, Finish(Machine, Only, e, result)
    PROVE  /\ attempt' \in [Attempts -> AttemptRow] /\ now' = now
           /\ attempt'[Only].state = "finished" /\ attempt'[Only].runner = attempt[Only].runner
<1>1. attempt' = [SettledAttempts EXCEPT ![Only].state = "finished"] /\ now' = now
  BY DEF Finish
<1>2. attempt' = [SettledAttempts EXCEPT ![Only] = [SettledAttempts[Only] EXCEPT !.state = "finished"]]
  BY <1>1, RowIs
<1>3. [SettledAttempts[Only] EXCEPT !.state = "finished"] \in AttemptRow
  BY RowIs, AttemptUpdates
<1>4. attempt' \in [Attempts -> AttemptRow]
  BY <1>2, <1>3, RowIs
<1>5. attempt'[Only] = [SettledAttempts[Only] EXCEPT !.state = "finished"]
  BY <1>2, RowIs
<1> QED
  BY <1>1, <1>4, <1>5, RowIs, SettledRow

-----------------------------------------------------------------------------
(* The margins.                                                               *)

\* What the fields hold.
LEMMA TypesUnfold ==
    ASSUME TurnTypes
    PROVE  /\ now \in Nat /\ Lease <= now /\ agent.since <= now /\ contactFile \in Nat
           /\ held \in Nat /\ crashes \in Nat /\ carried \in BOOLEAN
           /\ daemon.contact \in Nat /\ daemon.epoch \in Nat /\ daemon.fenced \in BOOLEAN
           /\ daemon.state \in {"idle", "running", "down", "starting", "reading"}
           /\ agent.since \in Nat /\ agent.state \in {"none", "launching", "acting", "stopping", "gone"}
           /\ wire.at \in Nat /\ wire.ok \in BOOLEAN /\ wire.what \in {"nothing", "claim", "sync", "reacquire"}
           /\ attempt[Only].lease \in Nat
           /\ DOMAIN daemon = {"state", "epoch", "contact", "fenced"} /\ DOMAIN agent = {"state", "since"}
           /\ DOMAIN wire = {"what", "at", "ok"}
BY RowIs DEF TurnTypes, DaemonRecord, AgentRecord, WireRecord

LEMMA Margins ==
    /\ Lease \in Nat /\ Resolution \in Nat /\ 0 < Resolution /\ Resolution <= Lease
    /\ Fence \in Nat /\ Answer \in Nat /\ Check \in Nat /\ HostCheck \in Nat /\ Grace \in Nat /\ Launching \in Nat
    /\ Answer + Fence + Check + Grace + Resolution <= Lease
    /\ Answer + Fence + HostCheck + Grace + Resolution <= Lease
    /\ Launching < Fence
BY LeasesAssumption, FenceAssumption, MarginAssumption

\* While an agent is at large and its fence stands, its turn is held, and a stop from now on comes
\* in time.
LEMMA HeldWhileFenced ==
    ASSUME FenceInv, AtLarge, crashes = 0 \/ carried
    PROVE  Live(Only) /\ now + Grace < attempt[Only].lease
<1> DEFINE lease == attempt[Only].lease
<1>t. TurnTypes
  BY DEF FenceInv
<1>1. CASE carried
  <2>1. /\ contactFile <= now /\ attempt[Only].state = "live" /\ contactFile + Lease < lease + Resolution + Answer
        /\ agent.state = "launching" => agent.since <= contactFile
        /\ agent.state = "acting" => now <= contactFile + Fence + HostCheck
    BY <1>1 DEF FenceInv, HostIsFenced, Covers
  <2>2. agent.state = "launching" => now <= agent.since + Launching
    BY DEF FenceInv, AgentInTime
  <2>3. now <= contactFile + Fence + HostCheck
    BY <1>t, <2>1, <2>2, TypesUnfold, Margins DEF AtLarge
  <2>4. now + Grace < lease
    BY <1>t, <2>1, <2>3, TypesUnfold, Margins
  <2> QED
    BY <1>t, <2>1, <2>4, TypesUnfold, Margins DEF Live
<1>2. CASE crashes = 0
  <2>1. /\ attempt[Only].state = "live" /\ daemon.contact + Lease < lease + Resolution + Answer
        /\ now <= daemon.contact + Fence + Check
    BY <1>2 DEF FenceInv, DaemonFences, Covers
  <2>2. now + Grace < lease
    BY <1>t, <2>1, TypesUnfold, Margins
  <2> QED
    BY <1>t, <2>1, <2>2, TypesUnfold, Margins DEF Live
<1> QED
  BY <1>1, <1>2

\* An answer that is on its way and says "held" is true.
LEMMA AnswerIsTrue ==
    ASSUME FenceInv, wire.what # "nothing", wire.ok
    PROVE  Live(Only) /\ now + Lease < attempt[Only].lease + Resolution + Answer
<1>1. /\ wire.at <= now /\ now <= wire.at + Answer
      /\ attempt[Only].state = "live" /\ wire.at + Lease < attempt[Only].lease + Resolution
  BY DEF FenceInv, AnswerInTime
<1>t. TurnTypes
  BY DEF FenceInv
<1>2. Answer + Resolution <= Lease
  BY Margins
<1>3. now < attempt[Only].lease
  BY <1>1, <1>2, <1>t, TypesUnfold, Margins
<1> QED
  BY <1>1, <1>3, <1>t, TypesUnfold, Margins DEF Live

-----------------------------------------------------------------------------
(* The invariant, action by action.                                           *)

LEMMA SameLedger ==
    ASSUME TurnTypes, attempt' = attempt, now' = now
    PROVE  CallKeeps /\ attempt'[Only].epoch = attempt[Only].epoch
BY RowIs DEF CallKeeps, TurnTypes, Live

\* What a call leaves of the promises to an agent at large and of an answer on its way.
LEMMA PromisesKept ==
    ASSUME FenceInv, CallKeeps
    PROVE  /\ AtLarge /\ (crashes = 0 \/ carried) =>
                  attempt'[Only].state = "live" /\ attempt[Only].lease <= attempt'[Only].lease
           /\ wire.what # "nothing" /\ wire.ok =>
                  attempt'[Only].state = "live" /\ attempt[Only].lease <= attempt'[Only].lease
           /\ attempt'[Only].lease \in Nat
<1>1. attempt'[Only].lease \in Nat
  BY FenceAssumption DEF CallKeeps, AttemptRow
<1> QED
  BY <1>1, HeldWhileFenced, AnswerIsTrue DEF CallKeeps

LEMMA FenceOfOwnCalls ==
    ASSUME FenceInv, CallKeeps, attempt'[Only].epoch = attempt[Only].epoch, UNCHANGED runnerVars
    PROVE  FenceInv'
<1>t. TurnTypes
  BY DEF FenceInv
<1>u. UNCHANGED <<contactFile, carried, held, daemon, agent, wire, crashes>>
  BY DEF runnerVars
<1>1. TurnTypes'
  BY <1>t, <1>u DEF TurnTypes, CallKeeps
<1>2. BeforeClaim'
  BY <1>u DEF FenceInv, BeforeClaim, CallKeeps
<1>3. AnswerInTime'
  <2>1. wire.what # "nothing" => wire.at <= now /\ now <= wire.at + Answer
                                  /\ (wire.ok => wire.at + Lease < attempt[Only].lease + Resolution)
    BY DEF FenceInv, AnswerInTime
  <2> QED
    BY <1>t, <1>u, <2>1, PromisesKept, TypesUnfold, Margins DEF AnswerInTime, CallKeeps
<1>4. HostIsFenced'
  <2>1. AtLarge /\ carried => Covers(contactFile)'
    <3>1. AtLarge /\ carried => contactFile + Lease < attempt[Only].lease + Resolution + Answer
      BY DEF FenceInv, HostIsFenced, Covers
    <3> QED
      BY <1>t, <1>u, <3>1, PromisesKept, TypesUnfold, Margins DEF Covers
  <2> QED
    BY <1>u, <2>1 DEF FenceInv, HostIsFenced, AtLarge, CallKeeps
<1>5. DaemonFences'
  <2>1. AtLarge /\ crashes = 0 => Covers(daemon.contact)'
    <3>1. AtLarge /\ crashes = 0 => daemon.contact + Lease < attempt[Only].lease + Resolution + Answer
      BY DEF FenceInv, DaemonFences, Covers
    <3> QED
      BY <1>t, <1>u, <3>1, PromisesKept, TypesUnfold, Margins DEF Covers
  <2> QED
    BY <1>u, <2>1 DEF FenceInv, DaemonFences, AtLarge, CallKeeps
<1>6. AgentInTime'
  BY <1>t, <1>u, PromisesKept, TypesUnfold, Margins DEF FenceInv, AgentInTime, AtLarge,
       CallKeeps
<1> QED
  BY <1>1, <1>2, <1>3, <1>4, <1>5, <1>6 DEF FenceInv

\* The owner's own transactions.
LEMMA FenceOfOwner ==
    ASSUME FenceInv, OwnerAlone
    PROVE  FenceInv'
<1>t. TurnTypes
  BY DEF FenceInv
<1>u. UNCHANGED runnerVars
  BY DEF OwnerAlone
<1>1. CASE Enqueue(Turn) \/ Withdraw(Turn)
  <2>1. attempt' = attempt /\ now' = now
    BY <1>1 DEF Enqueue, Withdraw
  <2> QED
    BY <1>t, <1>u, <2>1, SameLedger, FenceOfOwnCalls
<1>2. CASE ExtendLiveLeases
  BY <1>t, <1>u, <1>2, ExtendKeeps, FenceOfOwnCalls
<1>3. CASE ~(\E j \in Jobs : Oldest(Machine, j)) /\ Claim(Machine)
  <2>1. attempt' = SettledAttempts /\ now' = now
    BY <1>3 DEF Claim, Settle
  <2> QED
    BY <1>t, <1>u, <2>1, SettleKeeps, FenceOfOwnCalls
<1> QED
  BY <1>1, <1>2, <1>3 DEF OwnerAlone

LEMMA FenceOfTime ==
    ASSUME FenceInv, TimePasses
    PROVE  FenceInv'
<1>t. TurnTypes
  BY DEF FenceInv
<1>u. /\ UNCHANGED <<contactFile, carried, held, daemon, agent, wire, crashes, attempt>> /\ now' = now + 1 /\ InTime
  BY DEF TimePasses, Tick, runnerVars
<1>1. TurnTypes'
  BY <1>t, <1>u, RowIs, TypesUnfold DEF TurnTypes
<1>2. BeforeClaim'
  BY <1>u DEF FenceInv, BeforeClaim
<1>3. AnswerInTime'
  <2>1. wire.what # "nothing" => now < wire.at + Answer
    BY <1>u DEF InTime, Silence
  <2> QED
    BY <1>t, <1>u, <2>1, TypesUnfold, Margins DEF FenceInv, AnswerInTime
<1>4. HostIsFenced'
  <2>1. agent.state = "acting" /\ carried => now < contactFile + Fence + HostCheck
    BY <1>u DEF FenceInv, HostIsFenced, AtLarge, InTime, HostContact
  <2> QED
    BY <1>t, <1>u, <2>1, TypesUnfold, Margins DEF FenceInv, HostIsFenced, AtLarge, Covers
<1>5. DaemonFences'
  <2>1. daemon.state = "running" /\ ~daemon.fenced => now < daemon.contact + Fence + Check
    BY <1>u DEF InTime
  <2> QED
    BY <1>t, <1>u, <2>1, TypesUnfold, Margins DEF FenceInv, DaemonFences, AtLarge, Covers
<1>6. AgentInTime'
  <2>1. agent.state = "launching" => now < agent.since + Launching
    BY <1>u DEF InTime
  <2> QED
    BY <1>t, <1>u, <2>1, TypesUnfold, Margins DEF FenceInv, AgentInTime
<1> QED
  BY <1>1, <1>2, <1>3, <1>4, <1>5, <1>6 DEF FenceInv

\* The claim, and what its answer begins.
LEMMA FenceOfClaim ==
    ASSUME FenceInv, OwnerClaims \/ ClaimAnswered
    PROVE  FenceInv'
<1>t. TurnTypes
  BY DEF FenceInv
<1>1. CASE OwnerClaims
  <2>1. /\ attempt[Only].state = "absent"
        /\ attempt' \in [Attempts -> AttemptRow] /\ now' = now
        /\ attempt'[Only].state = "live" /\ attempt'[Only].runner = Machine /\ attempt'[Only].epoch = 1
        /\ attempt'[Only].lease = now + Lease /\ attempt'[Only].contact = 0
    BY <1>t, <1>1, ClaimBegins DEF OwnerClaims
  <2>2. /\ wire' = [what |-> "claim", at |-> now, ok |-> TRUE] /\ daemon.state = "idle"
        /\ UNCHANGED <<contactFile, carried, held, daemon, agent, crashes>>
    BY <1>1 DEF OwnerClaims, Reply
  <2>3. agent.state = "none"
    BY <1>t, <2>1, TypesUnfold DEF FenceInv, BeforeClaim
  <2>4. wire'.what = "claim" /\ wire'.at = now /\ wire'.ok = TRUE /\ wire' \in WireRecord
    BY <1>t, <2>2 DEF TurnTypes, WireRecord
  <2>5. TurnTypes'
    BY <1>t, <2>1, <2>2, <2>4, Margins DEF TurnTypes
  <2>6. BeforeClaim'
    BY <2>1, <2>2, <2>3, <2>4 DEF FenceInv, BeforeClaim
  <2>7. AnswerInTime'
    BY <1>t, <2>1, <2>4, TypesUnfold, Margins DEF AnswerInTime
  <2>8. HostIsFenced' /\ AgentInTime'
    BY <2>2, <2>3 DEF HostIsFenced, AgentInTime, AtLarge
  <2>9. DaemonFences'
    BY <2>2, <2>3, <2>4 DEF FenceInv, DaemonFences, AtLarge
  <2> QED
    BY <2>5, <2>6, <2>7, <2>8, <2>9 DEF FenceInv
<1>2. CASE ClaimAnswered
  <2>1. /\ wire.what = "claim" /\ wire' = Silence /\ held' = now
        /\ daemon' = [state |-> "running", epoch |-> 1, contact |-> now, fenced |-> FALSE]
        /\ agent' = [state |-> "launching", since |-> now]
        /\ UNCHANGED <<now, attempt, crashes>> /\ RecordOwnerContact(TRUE)
    BY <1>2 DEF ClaimAnswered, Answered
  <2>2. /\ agent.state = "none" /\ (carried => contactFile = 0)
        /\ attempt[Only].state # "absent" /\ attempt[Only].runner = Machine /\ attempt[Only].epoch = 1 /\ wire.ok
    BY <2>1 DEF FenceInv, BeforeClaim
  <2>3. Live(Only) /\ now + Lease < attempt[Only].lease + Resolution + Answer
    BY <2>1, <2>2, AnswerIsTrue
  <2>4. contactFile' \in Nat /\ carried' \in BOOLEAN /\ (carried' => contactFile' = now)
    <3>1. CASE contactFile' = now /\ carried' = TRUE
      BY <1>t, <3>1, TypesUnfold
    <3>2. CASE now < contactFile + Resolution /\ contactFile' = contactFile /\ carried' = carried
      <4>1. contactFile # 0
        BY <1>t, <3>2, TypesUnfold, Margins
      <4> QED
        BY <1>t, <2>2, <3>2, <4>1, TypesUnfold, Zenon
    <3> QED
      BY <2>1, <3>1, <3>2 DEF RecordOwnerContact
  <2>5. /\ daemon' \in DaemonRecord /\ agent' \in AgentRecord /\ wire' \in WireRecord
        /\ daemon'.state = "running" /\ daemon'.epoch = 1 /\ daemon'.contact = now /\ daemon'.fenced = FALSE
        /\ agent'.state = "launching" /\ agent'.since = now /\ wire'.what = "nothing"
    <3>1. daemon' \in DaemonRecord
      BY <1>t, <2>1, TypesUnfold DEF DaemonRecord
    <3>2. agent' \in AgentRecord
      BY <1>t, <2>1, TypesUnfold DEF AgentRecord
    <3>3. wire' \in WireRecord
      BY <2>1 DEF WireRecord, Silence
    <3> QED
      BY <2>1, <3>1, <3>2, <3>3 DEF Silence
  <2>6. TurnTypes'
    BY <1>t, <2>1, <2>4, <2>5 DEF TurnTypes
  <2>7. BeforeClaim' /\ AnswerInTime'
    BY <2>1, <2>2, <2>5 DEF BeforeClaim, AnswerInTime
  <2>8. HostIsFenced'
    BY <1>t, <2>1, <2>3, <2>4, <2>5, TypesUnfold, Margins DEF HostIsFenced, Covers, Live
  <2>9. DaemonFences'
    BY <1>t, <2>1, <2>2, <2>3, <2>5, TypesUnfold, Margins DEF FenceInv, DaemonFences, Covers,
         Live
  <2>10. AgentInTime'
    BY <1>t, <2>1, <2>5, TypesUnfold, Margins DEF AgentInTime
  <2> QED
    BY <2>6, <2>7, <2>8, <2>9, <2>10 DEF FenceInv
<1> QED
  BY <1>1, <1>2

\* A call that the owner answers about the turn leaves an answer on its way.
LEMMA FenceOfReply ==
    ASSUME FenceInv, CallKeeps, NEW kind \in {"sync", "reacquire"}, NEW ok \in BOOLEAN,
           wire.what = "nothing", wire' = [what |-> kind, at |-> now, ok |-> ok],
           ok => attempt'[Only].state = "live" /\ now + Lease < attempt'[Only].lease + Resolution,
           agent.state # "none",
           crashes = 0 => attempt'[Only].epoch = attempt[Only].epoch /\ kind = "sync" /\ (AtLarge => ok),
           UNCHANGED <<contactFile, carried, held, daemon, agent, crashes>>
    PROVE  FenceInv'
<1>t. TurnTypes
  BY DEF FenceInv
<1>u. wire'.what = kind /\ wire'.at = now /\ wire'.ok = ok /\ wire' \in WireRecord
  BY <1>t, TypesUnfold DEF WireRecord
<1>1. TurnTypes'
  BY <1>t, <1>u DEF TurnTypes, CallKeeps
<1>2. BeforeClaim'
  BY <1>u DEF FenceInv, BeforeClaim, CallKeeps
<1>3. AnswerInTime'
  BY <1>t, <1>u, TypesUnfold, Margins DEF AnswerInTime, CallKeeps
<1>4. HostIsFenced'
  <2>1. AtLarge /\ carried => Covers(contactFile)'
    <3>1. AtLarge /\ carried => contactFile + Lease < attempt[Only].lease + Resolution + Answer
      BY DEF FenceInv, HostIsFenced, Covers
    <3> QED
      BY <1>t, <3>1, PromisesKept, TypesUnfold, Margins DEF Covers
  <2> QED
    BY <2>1 DEF FenceInv, HostIsFenced, AtLarge, CallKeeps
<1>5. DaemonFences'
  <2>1. AtLarge /\ crashes = 0 => Covers(daemon.contact)'
    <3>1. AtLarge /\ crashes = 0 => daemon.contact + Lease < attempt[Only].lease + Resolution + Answer
      BY DEF FenceInv, DaemonFences, Covers
    <3> QED
      BY <1>t, <3>1, PromisesKept, TypesUnfold, Margins DEF Covers
  <2> QED
    BY <1>u, <2>1 DEF FenceInv, DaemonFences, AtLarge, CallKeeps
<1>6. AgentInTime'
  BY <1>t, PromisesKept, TypesUnfold, Margins DEF FenceInv, AgentInTime, AtLarge, CallKeeps
<1> QED
  BY <1>1, <1>2, <1>3, <1>4, <1>5, <1>6 DEF FenceInv

LEMMA FenceOfCalls ==
    ASSUME FenceInv, OwnerSyncs \/ OwnerReacquires
    PROVE  FenceInv'
<1>t. TurnTypes
  BY DEF FenceInv
<1>1. CASE OwnerSyncs
  <2> DEFINE ok == Holding(Machine, Only, daemon.epoch)
  <2>1. /\ daemon.state = "running" /\ Sync(Machine, Only, daemon.epoch, {}) /\ wire.what = "nothing"
        /\ wire' = [what |-> "sync", at |-> now, ok |-> ok]
        /\ UNCHANGED <<contactFile, carried, held, daemon, agent, crashes>>
    BY <1>1 DEF OwnerSyncs, Reply
  <2>2. /\ CallKeeps /\ attempt'[Only].epoch = attempt[Only].epoch
        /\ ok => now + Lease < attempt'[Only].lease + Resolution
    BY <1>t, <2>1, SyncKeeps
  <2>3. agent.state # "none"
    BY <2>1 DEF FenceInv, BeforeClaim
  <2>4. ok \in BOOLEAN /\ (ok => attempt'[Only].state = "live")
    BY <2>2 DEF Holding, CallKeeps, Live
  <2>5. crashes = 0 /\ AtLarge => ok
    BY <2>3, HeldWhileFenced DEF FenceInv, BeforeClaim, DaemonFences, Holding
  <2> HIDE DEF ok
  <2> QED
    BY <2>1, <2>2, <2>3, <2>4, <2>5, FenceOfReply
<1>2. CASE OwnerReacquires
  <2> DEFINE ok == Live(Only) /\ attempt[Only].runner = Machine
  <2>1. /\ daemon.state = "starting" /\ Reacquire(Machine, {Only}) /\ wire.what = "nothing"
        /\ wire' = [what |-> "reacquire", at |-> now, ok |-> ok]
        /\ UNCHANGED <<contactFile, carried, held, daemon, agent, crashes>>
    BY <1>2 DEF OwnerReacquires, Reply
  <2>2. CallKeeps /\ (ok => attempt'[Only].state = "live" /\ attempt'[Only].lease = now + Lease)
    BY <1>t, <2>1, ReacquireKeeps
  <2>3. agent.state # "none" /\ crashes # 0
    BY <2>1 DEF FenceInv, BeforeClaim, DaemonFences
  <2>4. ok \in BOOLEAN
    BY DEF Live
  <2> HIDE DEF ok
  <2>5. ok => attempt'[Only].state = "live" /\ now + Lease < attempt'[Only].lease + Resolution
    BY <1>t, <2>2, TypesUnfold, Margins
  <2> QED
    BY <2>1, <2>2, <2>3, <2>4, <2>5, FenceOfReply
<1> QED
  BY <1>1, <1>2

\* An answered call records its contact, now or less than a resolution ago.
LEMMA ContactRecorded ==
    ASSUME TurnTypes, NEW names \in BOOLEAN, RecordOwnerContact(names)
    PROVE  /\ contactFile' \in Nat /\ carried' \in BOOLEAN
           /\ \/ contactFile' = now /\ carried' = names
              \/ contactFile' = contactFile /\ carried' = carried
BY TypesUnfold DEF RecordOwnerContact

LEMMA StopLeaves ==
    ASSUME TurnTypes, StopAgent
    PROVE  /\ agent' \in AgentRecord
           /\ \/ agent.state = "acting" /\ agent'.state = "stopping" /\ agent'.since = now
              \/ agent.state # "acting" /\ agent' = agent
BY TypesUnfold DEF TurnTypes, AgentRecord, StopAgent

LEMMA SilenceIs == Silence \in WireRecord /\ Silence.what = "nothing"
BY DEF Silence, WireRecord

\* The daemon and its host, while the ledger rests: whatever else they do, an agent is at large only
\* if it was, and the contacts that count are kept or moved to now by an answer that held.
Refreshed == wire.what # "nothing" /\ wire.ok

AgentMoves ==
    \/ agent' = agent
    \/ agent'.state = "gone"
    \/ agent.state = "launching" /\ agent'.state = "acting"
    \/ agent.state = "acting" /\ agent'.state = "stopping" /\ agent'.since = now

ContactMoves ==
    \/ contactFile' = contactFile /\ carried' = carried
    \/ carried' = FALSE
    \/ contactFile' = now /\ Refreshed

DaemonMoves ==
    \/ daemon'.epoch = daemon.epoch /\ daemon'.contact = daemon.contact
    \/ daemon'.epoch = daemon.epoch /\ daemon'.contact = now /\ Refreshed

LEMMA FenceOfLocalSteps ==
    ASSUME FenceInv, UNCHANGED <<now, attempt>>, TurnTypes', agent.state # "none", agent'.state # "none",
           wire' = wire \/ wire'.what = "nothing",
           AgentMoves, ContactMoves,
           crashes' = 0 =>
               /\ crashes = 0 /\ DaemonMoves /\ daemon'.state \in {"idle", "running"}
               /\ AtLarge' => daemon'.state = "running"
               /\ agent'.state \in {"launching", "acting"} => daemon'.fenced = FALSE
    PROVE  FenceInv'
<1>t. TurnTypes /\ TurnTypes'
  BY DEF FenceInv
<1>h. AtLarge' => AtLarge
  BY DEF AgentMoves, AtLarge
<1>1. BeforeClaim'
  BY DEF FenceInv, BeforeClaim
<1>2. AnswerInTime'
  BY DEF FenceInv, AnswerInTime
<1>3. ASSUME carried' PROVE carried \/ Refreshed
  BY <1>3 DEF ContactMoves
<1>r. Refreshed => Live(Only) /\ now + Lease < attempt[Only].lease + Resolution + Answer
  BY AnswerIsTrue DEF Refreshed
<1>4. HostIsFenced'
  <2> SUFFICES ASSUME AtLarge', carried'
               PROVE  /\ contactFile' # 0 /\ contactFile' <= now /\ Covers(contactFile')
                      /\ agent'.state = "launching" => agent'.since <= contactFile'
                      /\ agent'.state = "acting" => now <= contactFile' + Fence + HostCheck
    BY DEF HostIsFenced, Covers
  <2>1. CASE contactFile' = contactFile /\ carried' = carried
    <3>1. /\ contactFile # 0 /\ contactFile <= now /\ Covers(contactFile)
          /\ agent.state = "launching" => agent.since <= contactFile
          /\ agent.state = "acting" => now <= contactFile + Fence + HostCheck
      BY <1>h, <2>1 DEF FenceInv, HostIsFenced
    <3>2. agent.state = "launching" => now <= contactFile + Fence + HostCheck
      BY <1>t, <3>1, TypesUnfold, Margins DEF FenceInv, AgentInTime
    <3> QED
      BY <2>1, <3>1, <3>2 DEF AgentMoves
  <2>2. CASE contactFile' = now /\ Refreshed
    <3>1. agent.state = "launching" => agent.since <= now
      BY <1>t, TypesUnfold
    <3> QED
      BY <1>t, <1>r, <2>2, <3>1, TypesUnfold, Margins DEF AgentMoves, Covers, Live
  <2> QED
    BY <2>1, <2>2 DEF ContactMoves
<1>5. DaemonFences'
  <2> SUFFICES ASSUME crashes' = 0
               PROVE  /\ daemon'.state \in {"idle", "running"} /\ wire'.what # "reacquire"
                      /\ AtLarge' =>
                            /\ daemon'.state = "running" /\ attempt[Only].epoch = daemon'.epoch
                            /\ wire'.what # "nothing" => wire'.ok
                            /\ daemon'.contact <= now /\ Covers(daemon'.contact)
                            /\ agent'.state = "launching" => agent'.since <= daemon'.contact
                            /\ ~daemon'.fenced /\ now <= daemon'.contact + Fence + Check
    BY DEF DaemonFences, Covers
  <2>1. /\ daemon'.state \in {"idle", "running"} /\ wire'.what # "reacquire"
        /\ AtLarge' => daemon'.state = "running" /\ (wire'.what # "nothing" => wire'.ok)
    BY <1>h DEF FenceInv, DaemonFences
  <2>2. ASSUME AtLarge'
        PROVE  /\ attempt[Only].epoch = daemon'.epoch /\ daemon'.contact <= now /\ Covers(daemon'.contact)
               /\ agent'.state = "launching" => agent'.since <= daemon'.contact
               /\ ~daemon'.fenced /\ now <= daemon'.contact + Fence + Check
    <3>1. /\ attempt[Only].epoch = daemon.epoch /\ daemon.contact <= now /\ Covers(daemon.contact)
          /\ agent.state = "launching" => agent.since <= daemon.contact
          /\ ~daemon'.fenced /\ now <= daemon.contact + Fence + Check
      BY <1>h, <2>2 DEF FenceInv, DaemonFences, AtLarge
    <3>2. CASE daemon'.epoch = daemon.epoch /\ daemon'.contact = daemon.contact
      BY <3>1, <3>2 DEF AgentMoves
    <3>3. CASE daemon'.epoch = daemon.epoch /\ daemon'.contact = now /\ Refreshed
      BY <1>t, <1>r, <3>1, <3>3, TypesUnfold, Margins DEF AgentMoves, Covers, Live
    <3> QED
      BY <3>2, <3>3 DEF DaemonMoves
  <2> QED
    BY <2>1, <2>2
<1>6. AgentInTime'
  <2>1. agent'.state = "launching" => now <= agent'.since + Launching
    BY DEF FenceInv, AgentInTime, AgentMoves
  <2>2. ASSUME agent'.state = "stopping", crashes' = 0 \/ carried'
        PROVE  agent'.since + Grace < attempt[Only].lease
    <3>1. CASE Refreshed
      BY <1>t, <1>r, <3>1, TypesUnfold, Margins DEF TurnTypes, AgentRecord
    <3>2. CASE crashes = 0 \/ carried
      <4>1. CASE agent' = agent
        BY <2>2, <3>2, <4>1 DEF FenceInv, AgentInTime
      <4>2. CASE agent.state = "acting" /\ agent'.since = now
        BY <3>2, <4>2, HeldWhileFenced DEF AtLarge
      <4> QED
        BY <2>2, <4>1, <4>2 DEF AgentMoves
    <3> QED
      BY <1>3, <2>2, <3>1, <3>2
  <2> QED
    BY <2>1, <2>2 DEF AgentInTime
<1> QED
  BY <1>t, <1>1, <1>2, <1>4, <1>5, <1>6 DEF FenceInv

\* The same before any claim was answered.
LEMMA FenceOfIdleSteps ==
    ASSUME FenceInv, UNCHANGED <<now, attempt, held, agent>>, TurnTypes', agent.state = "none",
           wire' = wire \/ wire'.what = "nothing",
           carried' = FALSE \/ UNCHANGED <<contactFile, carried>>,
           daemon'.state \in {"idle", "down"},
           crashes' = 0 => crashes = 0 /\ daemon'.state = "idle"
    PROVE  FenceInv'
<1>1. BeforeClaim'
  BY DEF FenceInv, BeforeClaim
<1>2. AnswerInTime'
  BY DEF FenceInv, AnswerInTime
<1>3. HostIsFenced' /\ AgentInTime'
  BY DEF HostIsFenced, AgentInTime, AtLarge
<1>4. DaemonFences'
  BY DEF FenceInv, DaemonFences, AtLarge
<1> QED
  BY <1>1, <1>2, <1>3, <1>4 DEF FenceInv

\* The calls answered, or not.
LEMMA FenceOfSyncAnswered ==
    ASSUME FenceInv, SyncAnswered
    PROVE  FenceInv'
<1>t. TurnTypes
  BY DEF FenceInv
<1>1. /\ wire.what = "sync" /\ wire' = Silence /\ RecordOwnerContact(wire.ok)
      /\ UNCHANGED <<now, attempt, crashes>>
      /\ \/ wire.ok /\ daemon' = [daemon EXCEPT !.contact = now] /\ UNCHANGED <<held, agent>>
         \/ ~wire.ok /\ daemon' = [daemon EXCEPT !.state = "idle"] /\ held' = 0 /\ StopAgent
  BY DEF SyncAnswered, Answered
<1>2. agent.state # "none"
  BY <1>1 DEF FenceInv, BeforeClaim
<1>3. wire'.what = "nothing" /\ wire' \in WireRecord
  BY <1>1 DEF Silence, WireRecord
<1>4. /\ contactFile' \in Nat /\ carried' \in BOOLEAN
      /\ \/ contactFile' = now /\ carried' = wire.ok
         \/ contactFile' = contactFile /\ carried' = carried
  BY <1>t, <1>1, TypesUnfold, ContactRecorded
<1>5. CASE wire.ok
  <2>1. /\ daemon' \in DaemonRecord /\ daemon'.contact = now /\ daemon'.epoch = daemon.epoch
        /\ daemon'.state = daemon.state /\ daemon'.fenced = daemon.fenced /\ UNCHANGED <<held, agent>>
    BY <1>t, <1>1, <1>5, TypesUnfold DEF DaemonRecord
  <2>2. TurnTypes'
    BY <1>t, <1>1, <1>3, <1>4, <2>1 DEF TurnTypes
  <2>3. AgentMoves /\ ContactMoves /\ DaemonMoves
    BY <1>1, <1>4, <1>5, <2>1 DEF AgentMoves, ContactMoves, DaemonMoves, Refreshed
  <2>4. crashes' = 0 =>
            /\ daemon'.state \in {"idle", "running"} /\ (AtLarge' => daemon'.state = "running")
            /\ agent'.state \in {"launching", "acting"} => daemon'.fenced = FALSE
    BY <1>1, <2>1 DEF FenceInv, DaemonFences, AtLarge
  <2> QED
    BY <1>1, <1>2, <1>3, <2>1, <2>2, <2>3, <2>4, FenceOfLocalSteps
<1>6. CASE ~wire.ok
  <2>1. /\ daemon' \in DaemonRecord /\ daemon'.contact = daemon.contact /\ daemon'.epoch = daemon.epoch
        /\ daemon'.state = "idle" /\ held' = 0 /\ StopAgent
    BY <1>t, <1>1, <1>6, TypesUnfold DEF DaemonRecord
  <2>2. /\ agent' \in AgentRecord
        /\ \/ agent.state = "acting" /\ agent'.state = "stopping" /\ agent'.since = now
           \/ agent.state # "acting" /\ agent' = agent
    BY <1>t, <2>1, StopLeaves
  <2>3. agent'.since <= now
    BY <1>t, <2>2, TypesUnfold
  <2>4. TurnTypes'
    BY <1>t, <1>1, <1>3, <1>4, <2>1, <2>2, <2>3 DEF TurnTypes
  <2>5. AgentMoves /\ ContactMoves /\ DaemonMoves /\ agent'.state # "none"
    BY <1>1, <1>2, <1>4, <1>6, <2>1, <2>2 DEF AgentMoves, ContactMoves, DaemonMoves
  <2>6. crashes = 0 => ~AtLarge /\ ~AtLarge'
    BY <1>1, <1>6, <2>2 DEF FenceInv, DaemonFences, AtLarge
  <2> QED
    BY <1>1, <1>2, <1>3, <2>1, <2>4, <2>5, <2>6, FenceOfLocalSteps DEF AtLarge
<1> QED
  BY <1>5, <1>6

LEMMA FenceOfReacquireAnswered ==
    ASSUME FenceInv, ReacquireAnswered
    PROVE  FenceInv'
<1>t. TurnTypes
  BY DEF FenceInv
<1>1. /\ wire.what = "reacquire" /\ wire' = Silence /\ RecordOwnerContact(wire.ok)
      /\ UNCHANGED <<now, attempt, crashes>>
      /\ \/ /\ wire.ok /\ daemon' = [daemon EXCEPT !.state = "reading", !.epoch = attempt[Only].epoch]
            /\ held' = now /\ agent' = agent
         \/ ~wire.ok /\ daemon' = [daemon EXCEPT !.state = "idle"] /\ held' = 0 /\ StopAgent
  BY DEF ReacquireAnswered, Answered
<1>2. agent.state # "none" /\ crashes # 0
  BY <1>1 DEF FenceInv, BeforeClaim, DaemonFences
<1>3. wire'.what = "nothing" /\ wire' \in WireRecord
  BY <1>1 DEF Silence, WireRecord
<1>4. /\ contactFile' \in Nat /\ carried' \in BOOLEAN
      /\ \/ contactFile' = now /\ carried' = wire.ok
         \/ contactFile' = contactFile /\ carried' = carried
  BY <1>t, <1>1, TypesUnfold, ContactRecorded
<1>5. daemon' \in DaemonRecord /\ held' \in Nat
  <2>1. CASE wire.ok
    <3>1. attempt[Only].epoch \in Nat /\ daemon \in DaemonRecord
      BY <1>t, RowIs DEF TurnTypes
    <3>2. daemon' = [daemon EXCEPT !.state = "reading", !.epoch = attempt[Only].epoch] /\ held' = now
      BY <1>1, <2>1
    <3> QED
      BY <1>t, <3>1, <3>2, TypesUnfold DEF DaemonRecord
  <2>2. CASE ~wire.ok
    <3>1. daemon' = [daemon EXCEPT !.state = "idle"] /\ held' = 0 /\ daemon \in DaemonRecord
      BY <1>t, <1>1, <2>2 DEF TurnTypes
    <3> QED
      BY <3>1 DEF DaemonRecord
  <2> QED
    BY <2>1, <2>2
<1>6. /\ agent' \in AgentRecord
      /\ \/ agent.state = "acting" /\ agent'.state = "stopping" /\ agent'.since = now
         \/ agent' = agent
  BY <1>t, <1>1, StopLeaves DEF TurnTypes
<1>7. agent'.since <= now
  BY <1>t, <1>6, TypesUnfold
<1>8. TurnTypes'
  BY <1>t, <1>1, <1>3, <1>4, <1>5, <1>6, <1>7 DEF TurnTypes
<1>9. AgentMoves /\ agent'.state # "none"
  BY <1>2, <1>6 DEF AgentMoves
<1>10. ContactMoves
  BY <1>1, <1>4, <1>t, TypesUnfold DEF ContactMoves, Refreshed
<1> QED
  BY <1>1, <1>2, <1>3, <1>8, <1>9, <1>10, FenceOfLocalSteps

\* An answer that names no turn takes the host's fence away from it.
LEMMA FenceOfOtherCalls ==
    ASSUME FenceInv, OtherCallAnswered \/ AnswerLost
    PROVE  FenceInv'
<1>t. TurnTypes
  BY DEF FenceInv
<1>1. /\ UNCHANGED <<now, attempt, held, daemon, agent, crashes>>
      /\ (RecordOwnerContact(FALSE) \/ UNCHANGED <<contactFile, carried>>)
      /\ (wire' = wire \/ wire' = Silence)
  BY DEF OtherCallAnswered, AnswerLost
<1>2. /\ contactFile' \in Nat /\ carried' \in BOOLEAN
      /\ carried' = FALSE \/ UNCHANGED <<contactFile, carried>>
  BY <1>t, <1>1, TypesUnfold, ContactRecorded
<1>3. (wire' = wire \/ wire'.what = "nothing") /\ wire' \in WireRecord
  BY <1>t, <1>1, SilenceIs DEF TurnTypes
<1>4. TurnTypes'
  BY <1>t, <1>1, <1>2, <1>3 DEF TurnTypes
<1>5. CASE agent.state = "none"
  <2>1. daemon'.state \in {"idle", "down"} /\ (crashes' = 0 => crashes = 0 /\ daemon'.state = "idle")
    BY <1>1, <1>5 DEF FenceInv, BeforeClaim, DaemonFences
  <2> QED
    BY <1>1, <1>2, <1>3, <1>4, <1>5, <2>1, FenceOfIdleSteps
<1>6. CASE agent.state # "none"
  <2>1. AgentMoves /\ ContactMoves /\ DaemonMoves
    BY <1>1, <1>2 DEF AgentMoves, ContactMoves, DaemonMoves
  <2>2. crashes' = 0 =>
            /\ daemon'.state \in {"idle", "running"} /\ (AtLarge' => daemon'.state = "running")
            /\ agent'.state \in {"launching", "acting"} => daemon'.fenced = FALSE
    BY <1>t, <1>1, TypesUnfold DEF FenceInv, DaemonFences, AtLarge
  <2> QED
    BY <1>1, <1>2, <1>3, <1>4, <1>6, <2>1, <2>2, FenceOfLocalSteps
<1> QED
  BY <1>5, <1>6

\* The agent: it starts, ends, or is stopped by its own host.
LEMMA FenceOfAgent ==
    ASSUME FenceInv, HostStarts \/ HostFences \/ AgentGone
    PROVE  FenceInv'
<1>t. TurnTypes
  BY DEF FenceInv
<1>1. UNCHANGED <<now, attempt, contactFile, carried, held, daemon, wire, crashes>>
  BY DEF HostStarts, HostFences, AgentGone
<1>2. /\ agent' \in AgentRecord /\ agent'.since <= now /\ agent.state # "none" /\ agent'.state # "none"
      /\ AgentMoves
  <2>1. CASE HostStarts
    <3>1. agent.state = "launching" /\ agent' = [state |-> "acting", since |-> now]
      BY <2>1 DEF HostStarts
    <3> QED
      BY <1>t, <3>1, TypesUnfold DEF AgentRecord, AgentMoves
  <2>2. CASE HostFences
    <3>1. agent.state = "acting" /\ StopAgent
      BY <2>2 DEF HostFences
    <3> QED
      BY <1>t, <3>1, StopLeaves, TypesUnfold DEF AgentMoves
  <2>3. CASE AgentGone
    <3>1. agent.state \in {"acting", "stopping"} /\ agent' = [agent EXCEPT !.state = "gone"]
      BY <2>3 DEF AgentGone
    <3> QED
      BY <1>t, <3>1, TypesUnfold DEF AgentRecord, AgentMoves, TurnTypes
  <2> QED
    BY <2>1, <2>2, <2>3
<1>3. TurnTypes'
  BY <1>t, <1>1, <1>2 DEF TurnTypes
<1>4. ContactMoves /\ DaemonMoves
  BY <1>1 DEF ContactMoves, DaemonMoves
<1>5. crashes' = 0 =>
          /\ daemon'.state \in {"idle", "running"} /\ (AtLarge' => daemon'.state = "running")
          /\ agent'.state \in {"launching", "acting"} => daemon'.fenced = FALSE
  BY <1>t, <1>1, <1>2, TypesUnfold DEF FenceInv, DaemonFences, AtLarge, AgentMoves
<1> QED
  BY <1>1, <1>2, <1>3, <1>4, <1>5, FenceOfLocalSteps

\* The fences of the daemon. While an agent is launched the running daemon is not silent yet.
LEMMA FenceOfDaemonFences ==
    ASSUME FenceInv, FenceIfSilent \/ FenceStale
    PROVE  FenceInv'
<1>t. TurnTypes
  BY DEF FenceInv
<1>1. /\ UNCHANGED <<now, attempt, contactFile, carried, held, wire, crashes>>
      /\ daemon.state \in {"running", "starting"} /\ daemon' = [daemon EXCEPT !.fenced = TRUE] /\ StopAgent
  BY DEF FenceIfSilent, FenceStale
<1>2. agent.state # "none"
  BY <1>1 DEF FenceInv, BeforeClaim
<1>3. /\ agent' \in AgentRecord
      /\ \/ agent.state = "acting" /\ agent'.state = "stopping" /\ agent'.since = now
         \/ agent.state # "acting" /\ agent' = agent
  BY <1>t, <1>1, StopLeaves
<1>4. /\ daemon' \in DaemonRecord /\ daemon'.state = daemon.state
      /\ daemon'.contact = daemon.contact /\ daemon'.epoch = daemon.epoch
  BY <1>t, <1>1, TypesUnfold DEF DaemonRecord
<1>5. TurnTypes'
  <2>1. agent'.since <= now
    BY <1>t, <1>3, TypesUnfold
  <2> QED
    BY <1>t, <1>1, <1>3, <1>4, <2>1 DEF TurnTypes
<1>6. AgentMoves /\ ContactMoves /\ DaemonMoves /\ agent'.state # "none"
  BY <1>1, <1>2, <1>3, <1>4 DEF AgentMoves, ContactMoves, DaemonMoves
<1>7. crashes = 0 => agent.state # "launching"
  <2> SUFFICES ASSUME crashes = 0, agent.state = "launching" PROVE FALSE
    OBVIOUS
  <2>1. daemon.contact + Fence <= now
    BY DEF FenceIfSilent, FenceStale, Silent, FenceInv, DaemonFences
  <2>2. agent.since <= daemon.contact /\ now <= agent.since + Launching
    BY DEF FenceInv, DaemonFences, AgentInTime, AtLarge
  <2> QED
    BY <1>t, <2>1, <2>2, TypesUnfold, Margins
<1>8. crashes' = 0 =>
          /\ daemon'.state \in {"idle", "running"} /\ (AtLarge' => daemon'.state = "running")
          /\ agent'.state \notin {"launching", "acting"}
  BY <1>1, <1>3, <1>4, <1>7 DEF FenceInv, DaemonFences, AtLarge
<1> QED
  BY <1>1, <1>2, <1>5, <1>6, <1>8, FenceOfLocalSteps

\* The daemon dies, starts again and takes its turn up; what follows a death the host alone fences.
LEMMA FenceOfRestarts ==
    ASSUME FenceInv, Crash \/ DaemonStarts \/ TurnResumes
    PROVE  FenceInv'
<1>t. TurnTypes
  BY DEF FenceInv
<1>1. /\ UNCHANGED <<now, attempt, contactFile, carried, held>> /\ wire' \in {wire, Silence}
      /\ crashes' \in {crashes, crashes + 1}
      /\ \/ agent' = agent
         \/ agent.state = "launching" /\ agent' = [agent EXCEPT !.state = "gone"]
  BY DEF Crash, DaemonStarts, TurnResumes
<1>2. crashes' # 0
  <2>1. CASE Crash
    BY <1>t, <2>1, TypesUnfold DEF Crash
  <2>2. CASE DaemonStarts \/ TurnResumes
    BY <2>2 DEF DaemonStarts, TurnResumes, FenceInv, DaemonFences
  <2> QED
    BY <2>1, <2>2
<1>3. daemon' \in DaemonRecord
  <2>1. CASE Crash
    BY <1>t, <2>1 DEF DaemonRecord, Crash, TurnTypes
  <2>2. CASE DaemonStarts
    BY <2>2 DEF DaemonRecord, DaemonStarts
  <2>3. CASE TurnResumes
    BY <1>t, <2>3, TypesUnfold DEF DaemonRecord, TurnResumes, TurnTypes
  <2> QED
    BY <2>1, <2>2, <2>3
<1>4. agent' \in AgentRecord /\ agent'.since = agent.since /\ AgentMoves
  BY <1>t, <1>1, TypesUnfold DEF AgentRecord, TurnTypes, AgentMoves
<1>5. (wire' = wire \/ wire'.what = "nothing") /\ wire' \in WireRecord
  BY <1>t, <1>1, SilenceIs DEF TurnTypes
<1>6. TurnTypes'
  BY <1>t, <1>1, <1>3, <1>4, <1>5 DEF TurnTypes
<1>7. CASE agent.state = "none"
  <2>1. agent' = agent
    BY <1>1, <1>7
  <2>2. daemon'.state \in {"idle", "down"}
    BY <1>7, <1>t, TypesUnfold DEF FenceInv, BeforeClaim, Crash, DaemonStarts, TurnResumes
  <2> QED
    BY <1>1, <1>2, <1>5, <1>6, <1>7, <2>1, <2>2, FenceOfIdleSteps
<1>8. CASE agent.state # "none"
  <2>1. agent'.state # "none" /\ ContactMoves
    BY <1>t, <1>1, <1>8, TypesUnfold DEF ContactMoves
  <2> QED
    BY <1>1, <1>2, <1>4, <1>5, <1>6, <1>8, <2>1, FenceOfLocalSteps
<1> QED
  BY <1>7, <1>8

\* The agent is gone and the daemon forgets the turn.
LEMMA FenceOfFinish ==
    ASSUME FenceInv, TurnFinishes
    PROVE  FenceInv'
<1>t. TurnTypes
  BY DEF FenceInv
<1>1. /\ daemon.state = "running" /\ agent.state = "gone" /\ wire.what = "nothing"
      /\ daemon' = [daemon EXCEPT !.state = "idle"] /\ held' = 0
      /\ UNCHANGED <<contactFile, carried, agent, wire, crashes>>
  BY DEF TurnFinishes
<1>2. /\ attempt' \in [Attempts -> AttemptRow] /\ now' = now
      /\ attempt'[Only].runner = attempt[Only].runner
      /\ attempt' = attempt \/ attempt'[Only].state = "finished"
  <2>1. CASE \E result \in Results : Finish(Machine, Only, daemon.epoch, result)
    BY <1>t, <2>1, FinishKeeps
  <2>2. CASE UNCHANGED <<now, job, attempt, events, command>>
    BY <1>t, <2>2 DEF TurnTypes
  <2> QED
    BY <2>1, <2>2 DEF TurnFinishes
<1>3. daemon' \in DaemonRecord /\ daemon'.state = "idle"
  BY <1>t, <1>1, TypesUnfold DEF DaemonRecord
<1>4. TurnTypes'
  BY <1>t, <1>1, <1>2, <1>3 DEF TurnTypes
<1>5. BeforeClaim'
  BY <1>1, <1>2 DEF FenceInv, BeforeClaim
<1>6. AnswerInTime' /\ HostIsFenced' /\ AgentInTime'
  BY <1>1 DEF AnswerInTime, HostIsFenced, AgentInTime, AtLarge
<1>7. DaemonFences'
  BY <1>1, <1>3 DEF FenceInv, DaemonFences, AtLarge
<1> QED
  BY <1>4, <1>5, <1>6, <1>7 DEF FenceInv

-----------------------------------------------------------------------------
(* The theorems.                                                              *)

LEMMA FenceAtFirst == TurnInit => FenceInv
<1> SUFFICES ASSUME TurnInit PROVE FenceInv
  OBVIOUS
<1>1. attempt \in [Attempts -> AttemptRow] /\ attempt[Only].state = "absent"
  BY FenceAssumption, LeasesAssumption DEF TurnInit, Init, AttemptRow
<1>2. now = Lease /\ contactFile = 0 /\ carried = TRUE /\ held = 0 /\ crashes = 0
  BY DEF TurnInit, Init
<1>3. /\ daemon \in DaemonRecord /\ daemon.state = "idle" /\ agent \in AgentRecord /\ agent.state = "none"
      /\ agent.since = 0 /\ wire \in WireRecord /\ wire.what = "nothing"
  BY DEF TurnInit, Silence, DaemonRecord, AgentRecord, WireRecord
<1>4. TurnTypes
  BY <1>1, <1>2, <1>3, Margins DEF TurnTypes
<1> QED
  BY <1>1, <1>2, <1>3, <1>4
     DEF FenceInv, BeforeClaim, AnswerInTime, HostIsFenced, DaemonFences, AgentInTime, AtLarge

\* The fence of a runner, for every length of a lease and of its margins that the source's satisfy:
\* FenceInv is an invariant of the turn, its runner and its owner (runner-daemon.ts, turn-host.ts,
\* runner-leases.ts).
THEOREM FenceStands == TurnSpec => []FenceInv
<1>1. TurnInit => FenceInv
  BY FenceAtFirst
<1>2. FenceInv /\ [TurnNext]_turnVars => FenceInv'
  <2> SUFFICES ASSUME FenceInv, [TurnNext]_turnVars PROVE FenceInv'
    OBVIOUS
  <2>1. CASE TimePasses
    BY <2>1, FenceOfTime
  <2>2. CASE OwnerAlone
    BY <2>2, FenceOfOwner
  <2>3. CASE OwnerClaims \/ ClaimAnswered
    BY <2>3, FenceOfClaim
  <2>4. CASE OwnerSyncs \/ OwnerReacquires
    BY <2>4, FenceOfCalls
  <2>5. CASE SyncAnswered
    BY <2>5, FenceOfSyncAnswered
  <2>6. CASE ReacquireAnswered
    BY <2>6, FenceOfReacquireAnswered
  <2>7. CASE OtherCallAnswered \/ AnswerLost
    BY <2>7, FenceOfOtherCalls
  <2>8. CASE TurnFinishes
    BY <2>8, FenceOfFinish
  <2>9. CASE FenceIfSilent \/ FenceStale
    BY <2>9, FenceOfDaemonFences
  <2>10. CASE HostStarts \/ HostFences \/ AgentGone
    BY <2>10, FenceOfAgent
  <2>11. CASE Crash \/ DaemonStarts \/ TurnResumes
    BY <2>11, FenceOfRestarts
  <2>12. CASE UNCHANGED turnVars
    <3>1. UNCHANGED runnerVars /\ attempt' = attempt /\ now' = now
      BY <2>12 DEF turnVars, runnerVars
    <3> QED
      BY <3>1, SameLedger, FenceOfOwnCalls DEF FenceInv
  <2> QED
    BY <2>1, <2>2, <2>3, <2>4, <2>5, <2>6, <2>7, <2>8, <2>9, <2>10, <2>11, <2>12 DEF TurnNext
<1> QED
  BY <1>1, <1>2, PTL DEF TurnSpec

\* An agent is told to stop too late for its turn only where its daemon has died and the last contact
\* that its host looks at came of a call that did not name the turn (turn-host.ts, owner-contact).
THEOREM AgentsAreToldInTime == TurnSpec => []LateOnlyWhenUncarried
<1>1. FenceInv => LateOnlyWhenUncarried
  <2> SUFFICES ASSUME FenceInv, ~(crashes > 0 /\ ~carried) PROVE ToldInTime
    BY DEF LateOnlyWhenUncarried
  <2>1. crashes = 0 \/ carried
    BY TypesUnfold DEF FenceInv
  <2>2. agent.state = "acting" => Live(Only)
    BY <2>1, HeldWhileFenced DEF AtLarge
  <2> QED
    BY <2>1, <2>2 DEF ToldInTime, FenceInv, AgentInTime
<1> QED
  BY <1>1, FenceStands, PTL

-----------------------------------------------------------------------------
(* The ledger under the fenced runner.                                        *)

\* Whatever this runner, its restarts and its lost answers do, it does to the ledger by calls.
LEMMA TurnCallsLedger == FenceInv /\ [TurnNext]_turnVars => [AnyCall]_vars
<1> SUFFICES ASSUME FenceInv, [TurnNext]_turnVars PROVE [AnyCall]_vars
  OBVIOUS
<1>0. Turn \in Jobs /\ Only \in Attempts /\ Machine \in Runners /\ daemon.epoch \in Nat /\ {} \in SUBSET Nat
  BY FenceAssumption DEF FenceInv, TurnTypes, DaemonRecord
<1>1. CASE UNCHANGED vars
  BY <1>1
<1>2. CASE TimePasses
  BY <1>2 DEF TimePasses, AnyCall
<1>3. CASE OwnerAlone
  BY <1>0, <1>3 DEF OwnerAlone, AnyCall
<1>4. CASE OwnerClaims
  BY <1>0, <1>4 DEF OwnerClaims, AnyCall
<1>5. CASE OwnerSyncs
  <2>1. Sync(Machine, Only, daemon.epoch, {})
    BY <1>5 DEF OwnerSyncs
  <2> QED
    BY <1>0, <2>1, Zenon DEF AnyCall
<1>6. CASE OwnerReacquires
  <2>1. Reacquire(Machine, {Only}) /\ {Only} \in SUBSET Attempts
    BY <1>0, <1>6 DEF OwnerReacquires
  <2> QED
    BY <1>0, <2>1, Zenon DEF AnyCall
<1>7. CASE TurnFinishes
  <2>1. (\E result \in Results : Finish(Machine, Only, daemon.epoch, result)) \/ UNCHANGED vars
    BY <1>7 DEF TurnFinishes, vars
  <2> QED
    BY <1>0, <2>1, Zenon DEF AnyCall
<1>8. CASE \/ UNCHANGED turnVars \/ ClaimAnswered \/ HostStarts \/ SyncAnswered \/ OtherCallAnswered
          \/ AnswerLost \/ FenceIfSilent \/ FenceStale \/ HostFences \/ AgentGone \/ Crash \/ DaemonStarts
          \/ ReacquireAnswered \/ TurnResumes
  BY <1>8 DEF turnVars, vars, ClaimAnswered, HostStarts, SyncAnswered, OtherCallAnswered, AnswerLost,
       FenceIfSilent, FenceStale, HostFences, AgentGone, Crash, DaemonStarts, ReacquireAnswered, TurnResumes
<1> QED
  BY <1>2, <1>3, <1>4, <1>5, <1>6, <1>7, <1>8 DEF TurnNext

\* Composed with a runner that fences, dies and restarts, the ledger still implements RunnerCustody:
\* what a coordinator reads of the turn obeys the custody it relies on, the turn starts once, and its
\* lease follows its last contact.
THEOREM FencedTurnKeepsCustody ==
    TurnSpec => ImplementsCustody /\ []TurnNeverStartsTwice /\ []LeaseFollowsContact
<1>1. TurnInit => Init
  BY DEF TurnInit
<1> QED
  BY <1>1, TurnCallsLedger, FenceStands, CallsKeepCustody, PTL DEF TurnSpec

=============================================================================
