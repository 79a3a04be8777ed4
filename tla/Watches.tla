------------------------------ MODULE Watches ------------------------------
(* Durable watches (watches.ts, watch-machine.ts): a session is woken when a  *)
(* file changes or a command ends.  One worker polls the open rows, which it  *)
(* reads once per poll and uses after every await; a cancel, a registration   *)
(* and the watched machine go on meanwhile.  A file watch here renews itself  *)
(* and is followed by another in one series; a command runs in a host of its  *)
(* own, on the owner's machine or on a runner, and survives the coordinator.  *)
EXTENDS Naturals, FiniteSets, FiniteSetsExt

CONSTANTS
    Watchers,           \* the sessions of one recovery lineage
    MaxWatches,         \* bound: rows
    MaxLaunches         \* bound: hosts started for commands

ASSUME WatchAssumption == {MaxWatches, MaxLaunches} \subseteq Nat /\ Watchers # {}

Watches == 1..MaxWatches
Launches == 1..MaxLaunches

VARIABLES
    watchedKind,        \* what is watched: rows share nothing but the poll, so one kind at a time
    watchRow,           \* a row: its state, owner, series (its first row) and machine; a command's host
    waits,              \* whether requests wait on a series
    process,            \* a command's host: what the watched machine would say of it
    poll,               \* the worker: which list it is going through, and what is left of it
    registering         \* sessions whose registration waits for a runner to read the file

watchVars == <<watchedKind, watchRow, waits, process, poll, registering>>

NoHost == 0

WatchTypeOK ==
    /\ watchRow \in [Watches -> [state : {"none", "open", "fired", "expired", "failed", "cancelled"},
                                 session : Watchers, series : Watches, runner : BOOLEAN,
                                 host : {"none", "intended", "live", "stopping", "released", "gone"},
                                 execution : {NoHost} \cup Launches]]
    /\ waits \in [Watches -> {"none", "open", "closed"}]
    /\ process \in [Launches -> {"none", "starting", "running", "exited", "over", "lost"}]
    /\ poll \in [step : {"rest", "open", "launch", "state", "ended"}, left : SUBSET Watches]
    /\ registering \subseteq Watchers

WatchInit ==
    /\ watchedKind \in {"file", "command"}
    /\ watchRow = [w \in Watches |-> [state |-> "none", session |-> CHOOSE s \in Watchers : TRUE, series |-> w,
                                      runner |-> FALSE, host |-> "none", execution |-> NoHost]]
    /\ waits = [w \in Watches |-> "none"] /\ process = [x \in Launches |-> "none"]
    /\ poll = [step |-> "rest", left |-> {}] /\ registering = {}

OpenWatches == {w \in Watches : watchRow[w].state = "open"}
Unused == {w \in Watches : watchRow[w].state = "none"}
SeriesOf(w) == {v \in Watches : watchRow[v].state # "none" /\ watchRow[v].series = w}

-----------------------------------------------------------------------------
(* Settling: one transaction, which looks at the row again.                   *)
\* The renewal of a row that is taken for open.
Renew(rows, w, event) ==
    /\ Unused # {}
    /\ watchRow' = [v \in Watches |-> IF v = w THEN [rows[w] EXCEPT !.state = event]
                                     ELSE IF v = Min(Unused) THEN [rows[w] EXCEPT !.state = "open"]
                                     ELSE rows[v]]

SettleUnseen(rows, w, event) ==
    IF watchedKind = "command" \/ event = "cancelled" \/ waits[rows[w].series] = "closed"
    THEN watchRow' = [rows EXCEPT ![w].state = IF watchedKind = "command" THEN event ELSE "cancelled"]
    ELSE Renew(rows, w, event)

\* A renewing watch is followed by the next of its series, unless it was cancelled or the requests
\* that waited on it have all closed: then it ends quietly.
Settle(rows, w, event) ==
    \/ rows[w].state # "open" /\ watchRow' = rows
    \/ /\ rows[w].state = "open"
       /\ IF watchedKind = "command" \/ event = "cancelled"
          THEN watchRow' = [rows EXCEPT ![w].state = event]
          ELSE IF waits[rows[w].series] = "closed"
          THEN watchRow' = [rows EXCEPT ![w].state = "cancelled"]
          ELSE Renew(rows, w, event)

-----------------------------------------------------------------------------
(* Registrations and cancels.                                                 *)
Insert(s, onRunner) ==
    /\ Unused # {}
    /\ watchRow' = [watchRow EXCEPT ![Min(Unused)] = [@ EXCEPT !.state = "open", !.session = s,
                                                               !.runner = onRunner]]

OwnOnly(s) == {w \in OpenWatches : watchRow[w].session = s}

\* The open series of the file: the session's own before one of its lineage.
Active(s) == IF OwnOnly(s) # {} THEN OwnOnly(s) ELSE OpenWatches

\* A series of the lineage is taken over.  Otherwise the file is read first, on a runner after an await.
RegisterFile(s) ==
    /\ watchedKind = "file"
    /\ IF Active(s) # {}
       THEN /\ \E w \in Active(s) : watchRow' = [watchRow EXCEPT ![w].session = s]
            /\ UNCHANGED registering
       ELSE \/ Insert(s, FALSE) /\ UNCHANGED registering
            \/ registering' = registering \cup {s} /\ UNCHANGED watchRow
    /\ UNCHANGED <<watchedKind, waits, process, poll>>

\* A unique index refuses a second renewing watch of one session and file.
RegisterOnRunner(s) ==
    /\ s \in registering /\ registering' = registering \ {s}
    /\ IF OwnOnly(s) # {} THEN UNCHANGED watchRow ELSE Insert(s, TRUE)
    /\ UNCHANGED <<watchedKind, waits, process, poll>>

RegisterCommand(onRunner) ==
    /\ watchedKind = "command"
    /\ Insert(CHOOSE s \in Watchers : TRUE, onRunner)
    /\ UNCHANGED <<watchedKind, waits, process, poll, registering>>

\* Cancelling an earlier watch of a series cancels the open one.
CancelWatch(s, w) ==
    /\ watchRow[w].state # "none" /\ watchRow[w].session = s
    /\ LET successor == {v \in OwnOnly(s) : watchRow[v].series = watchRow[w].series}
       IN  \E v \in IF w \in OpenWatches \/ successor = {} THEN {w} ELSE successor :
               Settle(watchRow, v, "cancelled")
    /\ UNCHANGED <<watchedKind, waits, process, poll, registering>>

\* A partial reply names a watch its request waits on; the request closes.
RequestWaits(w) ==
    /\ SeriesOf(w) # {} /\ waits' = [waits EXCEPT ![w] = IF @ = "open" THEN "closed" ELSE "open"]
    /\ watchedKind = "file"
    /\ UNCHANGED <<watchedKind, watchRow, process, poll, registering>>

-----------------------------------------------------------------------------
(* The watched machine.                                                       *)
HostStarts(x) ==
    /\ process[x] = "starting"
    /\ \E started \in {"running", "none"} : process' = [process EXCEPT ![x] = started]
    /\ UNCHANGED <<watchedKind, watchRow, waits, poll, registering>>

\* A command ends, by itself or on a signal; its host waits to be released, and may go at any time.
HostMoves(x) ==
    /\ \/ process[x] = "running" /\ \E to \in {"exited", "lost"} : process' = [process EXCEPT ![x] = to]
       \/ process[x] = "exited" /\ process' = [process EXCEPT ![x] = "over"]
    /\ UNCHANGED <<watchedKind, watchRow, waits, poll, registering>>

\* The supervisor and the journal, when the host does not answer.
CommandState(x) ==
    CASE process[x] = "starting" -> "unknown"
      [] process[x] = "running" -> "running"
      [] process[x] \in {"exited", "over"} -> "exited"
      [] OTHER -> "lost"

\* The supervisor's view and, without a host, whether there is a journal.
HostOutcome(x) ==
    CASE process[x] \in {"running", "exited"} -> "alive"
      [] process[x] \in {"none", "starting"} -> "never-ran"
      [] OTHER -> "ran"

StartOutcomeUnguarded(x) == HostOutcome(x)

\* A start in flight is known to the runner that serves the call; its outcome is not.  On the owner's
\* machine the supervisor says what became of the start it was asked for before.
StartOutcome(x) == IF process[x] = "starting" THEN "unknown" ELSE HostOutcome(x)

-----------------------------------------------------------------------------
(* One poll.  It holds the rows as they were when it began: what it knows of  *)
(* a row's state may have passed.  Only the poll writes a row's host.         *)
PollStarts ==
    /\ poll.step = "rest"
    /\ \E paused \in BOOLEAN : poll' = [step |-> "open", left |-> IF paused THEN {} ELSE OpenWatches]
    /\ UNCHANGED <<watchedKind, watchRow, waits, process, registering>>

AtHand(step, w) == poll.step = step /\ poll.left # {} /\ w = Min(poll.left)

Passed(w) == poll' = [step |-> IF poll.step = "ended" THEN "ended" ELSE "open", left |-> poll.left \ {w}]

AtRest == UNCHANGED <<watchedKind, waits, registering>>

\* The runner did not answer this poll's ping: only the deadline counts.
RunnerAway(w) ==
    /\ AtHand("open", w) /\ watchRow[w].runner
    /\ UNCHANGED watchRow \/ Settle(watchRow, w, "expired")
    /\ Passed(w) /\ UNCHANGED process /\ AtRest

\* A change counts before the deadline does; an unreadable file tells nothing.
ObserveFile(w) ==
    /\ AtHand("open", w) /\ watchedKind = "file"
    /\ UNCHANGED watchRow \/ \E event \in {"fired", "expired"} : Settle(watchRow, w, event)
    /\ Passed(w) /\ UNCHANGED process /\ AtRest

\* The intent is written before the supervisor is asked; a call to a runner may be lost on its way.
LaunchCommand(w) ==
    /\ AtHand("open", w) /\ watchedKind = "command" /\ watchRow[w].execution = NoHost
    /\ \/ \E event \in {"expired", "failed"} : Settle(watchRow, w, event) /\ Passed(w) /\ UNCHANGED process
       \/ \E x \in Launches :
           /\ process[x] = "none" /\ \A v \in Watches : watchRow[v].execution # x
           /\ watchRow' = [watchRow EXCEPT ![w] = [@ EXCEPT !.execution = x, !.host = "intended"]]
           /\ \E reached \in {TRUE} \cup (IF watchRow[w].runner THEN {FALSE} ELSE {}) :
                 process' = IF reached THEN [process EXCEPT ![x] = "starting"] ELSE process
           /\ poll' = [poll EXCEPT !.step = "launch"]
    /\ AtRest

\* A lost call, or a supervisor that does not answer in time, leaves the start unconfirmed.
LaunchAnswered(w) ==
    /\ AtHand("launch", w)
    /\ LET said == process[watchRow[w].execution] IN
       \/ said \notin {"none", "starting"} /\ watchRow' = [watchRow EXCEPT ![w].host = "live"]
       \/ said = "none" /\ Settle([watchRow EXCEPT ![w].host = "gone"], w, "failed")
       \/ UNCHANGED watchRow
    /\ Passed(w) /\ UNCHANGED process /\ AtRest

\* After an unanswered start, or the death of the coordinator that asked for it.
CheckStart(w) ==
    /\ AtHand("open", w) /\ watchRow[w].host = "intended"
    /\ \E outcome \in {StartOutcome(watchRow[w].execution), "unknown"} :
       \/ outcome = "unknown" /\ UNCHANGED watchRow /\ Passed(w)
       \/ /\ outcome = "never-ran"
          /\ \/ /\ watchRow[w].runner
                /\ watchRow' = [watchRow EXCEPT ![w] = [@ EXCEPT !.host = "none", !.execution = NoHost]]
             \/ Settle([watchRow EXCEPT ![w].host = "gone"], w, "failed")
          /\ Passed(w)
       \/ /\ outcome \in {"alive", "ran"}
          /\ watchRow' = [watchRow EXCEPT ![w].host = "live"]
          /\ poll' = [poll EXCEPT !.step = "state"]
    /\ UNCHANGED process /\ AtRest

CheckCommand(w) ==
    /\ AtHand("state", w) \/ (AtHand("open", w) /\ watchRow[w].host = "live")
    /\ \E state \in {CommandState(watchRow[w].execution), "unknown"} :
       \/ state = "exited" /\ (UNCHANGED watchRow \/ Settle(watchRow, w, "fired"))
       \/ state = "lost" /\ Settle([watchRow EXCEPT ![w].host = "gone"], w, "failed")
       \/ state \in {"running", "unknown"} /\ (UNCHANGED watchRow \/ Settle(watchRow, w, "expired"))
    /\ Passed(w) /\ UNCHANGED process /\ AtRest

EndedCommands ==
    {w \in Watches : watchRow[w].state \notin {"none", "open"} /\ watchRow[w].host \in {"intended", "live", "stopping"}}

CleanUp ==
    /\ poll.step = "open" /\ poll.left = {}
    /\ poll' = [step |-> "ended", left |-> EndedCommands]
    /\ UNCHANGED <<watchRow, process>> /\ AtRest

\* A command that runs gets its signals (SIGKILL later; what they do is an exit like any other), one
\* that ended is released when its host still answers.
CleanUpHost(w) ==
    /\ AtHand("ended", w)
    /\ LET x == watchRow[w].execution IN
       \E state \in {CommandState(x), "unknown"} :
       \/ state = "running" /\ watchRow' = [watchRow EXCEPT ![w].host = "stopping"] /\ UNCHANGED process
       \/ /\ state = "exited" /\ process[x] = "exited"
          /\ watchRow' = [watchRow EXCEPT ![w].host = "released"]
          /\ process' = [process EXCEPT ![x] = "over"]
       \/ state \in {"exited", "unknown"} /\ UNCHANGED <<watchRow, process>>
       \/ state = "lost" /\ watchRow' = [watchRow EXCEPT ![w].host = "gone"] /\ UNCHANGED process
    /\ Passed(w) /\ AtRest

PollEnds ==
    /\ poll.step = "ended" /\ poll.left = {}
    /\ poll' = [step |-> "rest", left |-> {}]
    /\ UNCHANGED <<watchRow, process>> /\ AtRest

\* The coordinator starts again.  A start it had asked for on its own machine has happened or not.
WatchWorkerRestarts ==
    /\ poll' = [step |-> "rest", left |-> {}] /\ registering' = {}
    /\ LET asked == {x \in Launches : /\ process[x] = "starting"
                                      /\ \E w \in Watches : watchRow[w].execution = x /\ ~watchRow[w].runner}
       IN  \E started \in SUBSET asked :
               process' = [x \in Launches |-> IF x \notin asked THEN process[x]
                                              ELSE IF x \in started THEN "running" ELSE "none"]
    /\ UNCHANGED <<watchedKind, watchRow, waits>>

WatchNext ==
    \/ \E s \in Watchers : RegisterFile(s) \/ RegisterOnRunner(s) \/ \E w \in Watches : CancelWatch(s, w)
    \/ \E onRunner \in BOOLEAN : RegisterCommand(onRunner)
    \/ \E x \in Launches : HostStarts(x) \/ HostMoves(x)
    \/ \E w \in Watches :
          \/ RequestWaits(w) \/ RunnerAway(w) \/ ObserveFile(w) \/ LaunchCommand(w) \/ LaunchAnswered(w)
          \/ CheckStart(w) \/ CheckCommand(w) \/ CleanUpHost(w)
    \/ PollStarts \/ CleanUp \/ PollEnds \/ WatchWorkerRestarts

WatchSpec == WatchInit /\ [][WatchNext]_watchVars

-----------------------------------------------------------------------------
OneLastWatch ==
    /\ \A w \in Watches : SeriesOf(w) # {} =>
          Cardinality({v \in SeriesOf(w) : watchRow[v].state \in {"open", "cancelled"}}) = 1
    /\ (\A w \in Watches : ~watchRow[w].runner) => Cardinality(OpenWatches) <= 1

(* "A watch ends in exactly one terminal event" (watches.ts:12), whatever a   *)
(* poll does from rows that were cancelled, taken over or settled since: an   *)
(* ended watch stays as it ended; one watch of a series is open or cancelled  *)
(* and every other has one successor.  And while the file is read on the      *)
(* owner's machine, the sessions of a lineage share one series, so that one   *)
(* change wakes one of them.                                                  *)
WatchEndsOnce ==
    [][/\ \A w \in Watches \ OpenWatches : watchRow[w].state # "none" => watchRow'[w].state = watchRow[w].state
       /\ watchedKind = "file" => OneLastWatch']_watchVars

(* No command runs that its row does not know of: after lost calls, restarts  *)
(* in the middle of a start and cancels during a poll, a host that runs or    *)
(* may yet start is the one its row names, and the row is not done with it.   *)
(* So a command is not started while an earlier start of it may run.          *)
RunningIsKnown ==
    \A x \in Launches : process[x] \in {"starting", "running"} =>
        \E w \in Watches : watchRow[w].execution = x /\ watchRow[w].host \in {"intended", "live", "stopping"}

=============================================================================
