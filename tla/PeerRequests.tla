---------------------------- MODULE PeerRequests ----------------------------
(* One request of a session to a session of another instance, its peer        *)
(* (session-peers.ts).  The origin asks, polls and revokes, the recipient     *)
(* runs the turn, pushes its final reply and notifies; each holds what it     *)
(* read before an await while the other goes on, and any call may be lost     *)
(* before or after it was served.  Ledgers are durable, tasks are not.        *)

EXTENDS Naturals

CONSTANT MaxLost    \* how many calls may be lost and processes die

ASSUME MaxLostAssumption == MaxLost \in Nat

VARIABLES
    asked,          \* the origin's request: its row, whether it is for a session that is not there
                    \* yet, and whether the origin holds the final reply
    task,           \* the origin's tasks: a dispatch, the dispatch a notice runs, a revocation
    strayAsk,       \* an ask its sender gave up may still arrive
    delivery,       \* the recipient's record of the request: none, open or closed
    target,         \* the turn that does the work
    reply,          \* its final reply, and whether it was made while that turn ran
    report,         \* the recipient's task: pushing the reply, then a notice
    news,           \* the recipient's record changed since the last notice was about it
    lost            \* how many calls were lost and processes died

peerVars == <<asked, task, strayAsk, delivery, target, reply, report, news, lost>>

Dispatches == {"dispatch", "notice"}
OriginTasks == Dispatches \cup {"revocation"}
TurnStates == {"absent", "waiting", "queued", "running", "done", "failed", "cancelled", "withdrawn", "refused"}
ReplyStates == {"none", "pending", "forwarded", "refused", "failed"}

Idle == [step |-> "rest", seen |-> FALSE, end |-> "none", reply |-> "none"]
NoReport == [step |-> "rest", closed |-> FALSE, answer |-> "none"]

PeerTypeOK ==
    /\ asked \in [status : {"none", "queued_offline", "recorded", "settled"}, work : BOOLEAN, read : BOOLEAN,
                  outcome : {"none", "answered", "failed", "stopped", "canceled"},
                  acknowledged : BOOLEAN, held : BOOLEAN, fresh : BOOLEAN]
    /\ task \in [OriginTasks -> [step : {"rest", "asking", "accepted", "reading", "read", "fetching", "revoking"},
                           seen : BOOLEAN, end : {"none", "failed", "stopped"}, reply : ReplyStates]]
    /\ strayAsk \in BOOLEAN /\ delivery \in {"none", "open", "closed"} /\ target \in TurnStates
    /\ reply \in [status : ReplyStates, files : BOOLEAN, timely : BOOLEAN]
    /\ report \in [step : {"rest", "pushing", "pushed", "notice", "notifying", "waiting", "told"}, closed : BOOLEAN,
                   answer : {"none", "recorded", "refused", "answered", "failed", "stopped", "canceled"}]
    /\ news \in BOOLEAN /\ lost \in 0..MaxLost

PeerInit ==
    /\ asked \in [status : {"none"}, work : BOOLEAN, read : {FALSE}, outcome : {"none"},
                  acknowledged : {FALSE}, held : {FALSE}, fresh : BOOLEAN]
    /\ task = [t \in OriginTasks |-> Idle] /\ strayAsk = FALSE
    /\ delivery = "none" /\ target = "absent"
    /\ reply \in [status : {"none"}, files : BOOLEAN, timely : {FALSE}]
    /\ report = NoReport /\ news = TRUE /\ lost = 0

originSide == <<asked, task, strayAsk>>
recipientSide == <<delivery, target, reply, report, news>>

Loses == lost < MaxLost /\ lost' = lost + 1

\* The outcomes that the row calls canceled: by its requester, or because the turn was.
Revocable == asked.outcome \in {"canceled", "stopped"}

-----------------------------------------------------------------------------
(* The origin's ledger.                                                       *)
\* A work request that the peer has, and whose status was never read, cannot be settled.
Settlement(outcome, read) ==
    IF asked.outcome # "none" \/ (asked.work /\ asked.status # "queued_offline" /\ ~read)
    THEN asked
    ELSE [asked EXCEPT !.outcome = outcome, !.status = "settled"]

\* The proof of a final names the session that worked; the origin of an ask for a
\* new session learns its name from the acceptance.
Unproven == asked.fresh /\ asked.status = "queued_offline"

\* A reply is held once, and refused when something else ended the request or its
\* proof names a session that the row does not.
Recorded ==
    IF asked.held \/ asked.outcome # "none" \/ Unproven THEN asked
    ELSE [asked EXCEPT !.held = TRUE, !.outcome = "answered", !.status = "settled"]

Refusal == ~asked.held /\ (asked.outcome # "none" \/ Unproven)

\* The request is retained before any contact with the peer.
Ask ==
    /\ asked.status = "none" /\ asked' = [asked EXCEPT !.status = "queued_offline"]
    /\ UNCHANGED <<task, strayAsk, recipientSide, lost>>

\* A work request is not canceled before its first status was read; the requester may try again.
CancelRequest ==
    /\ asked.status # "none" /\ asked.outcome = "none"
    /\ asked' = Settlement("canceled", asked.read)
    /\ UNCHANGED <<task, strayAsk, recipientSide, lost>>

-----------------------------------------------------------------------------
(* A dispatch: the ask, then a read of the status, then what it says.         *)
Begun == [Idle EXCEPT !.step = IF asked.status = "queued_offline" THEN "asking" ELSE "reading", !.seen = asked.read]

DispatchStarts ==
    /\ asked.status # "none" /\ asked.outcome = "none" /\ task["dispatch"].step = "rest"
    /\ task' = [task EXCEPT !["dispatch"] = Begun]
    /\ UNCHANGED <<asked, strayAsk, recipientSide, lost>>

\* The recipient retains the request once, whoever's ask arrives and whenever.
Accepted ==
    IF delivery = "none" THEN delivery' = "open" /\ target' = "waiting" ELSE UNCHANGED <<delivery, target>>

AskServed(t) ==
    /\ task[t].step = "asking" /\ Accepted
    /\ task' = [task EXCEPT ![t].step = "accepted"]
    /\ UNCHANGED <<asked, strayAsk, reply, report, news, lost>>

StrayAskServed ==
    /\ strayAsk /\ strayAsk' = FALSE /\ Accepted
    /\ UNCHANGED <<asked, task, reply, report, news, lost>>

AskAnswered(t) ==
    /\ task[t].step = "accepted"
    /\ asked' = IF asked.status = "queued_offline" THEN [asked EXCEPT !.status = "recorded"] ELSE asked
    /\ task' = [task EXCEPT ![t] =
                    IF ~Revocable THEN [Idle EXCEPT !.step = "reading", !.seen = asked.read]
                    ELSE IF asked.acknowledged THEN Idle ELSE [Idle EXCEPT !.step = "revoking"]]
    /\ UNCHANGED <<strayAsk, recipientSide, lost>>

TurnEnd ==
    CASE target \in {"refused", "failed"} -> "failed"
      [] target \in {"cancelled", "withdrawn"} -> "stopped"
      [] OTHER -> "none"

StatusServed(t) ==
    /\ task[t].step = "reading"
    /\ task' = [task EXCEPT ![t] = [@ EXCEPT !.step = "read", !.end = TurnEnd, !.reply = reply.status]]
    /\ UNCHANGED <<asked, strayAsk, recipientSide, lost>>

\* What the turn's end alone says of the request.
Inferred(end) == IF end = "none" THEN asked ELSE Settlement(end, asked.read)

\* Bug: a reply whose push was given up is not looked at.
UnheldUnlessGivenUp(r) == r \notin {"none", "failed"} /\ ~asked.held

\* A reply whose push was given up is still the answer, and this read carries it.
Unheld(r) == r # "none" /\ ~asked.held

StatusRead(t) ==
    /\ task[t].step = "read"
    /\ asked' = IF Unheld(task[t].reply) /\ ~reply.files THEN [Recorded EXCEPT !.read = @ \/ asked.outcome = "none"]
                ELSE IF Unheld(task[t].reply) \/ asked.outcome # "none"
                     THEN [asked EXCEPT !.read = @ \/ asked.outcome = "none"]
                     ELSE [Inferred(task[t].end) EXCEPT !.read = TRUE]
    /\ task' = [task EXCEPT ![t] = IF Unheld(task[t].reply) /\ reply.files THEN [@ EXCEPT !.step = "fetching"] ELSE Idle]
    /\ UNCHANGED <<strayAsk, recipientSide, lost>>

Fetched(t) ==
    /\ task[t].step = "fetching"
    /\ asked' = Recorded /\ task' = [task EXCEPT ![t] = Idle]
    /\ UNCHANGED <<strayAsk, recipientSide, lost>>

\* Without its files the reply is left to its push, and the turn's end is looked at.
FetchFails(t) ==
    /\ task[t].step = "fetching"
    /\ asked' = IF task[t].reply = "failed" THEN Settlement("failed", task[t].seen) ELSE Inferred(task[t].end)
    /\ task' = [task EXCEPT ![t] = Idle] /\ Loses
    /\ UNCHANGED <<strayAsk, recipientSide>>

\* No answer, or the process that waited for it is gone.
CallLost(t) ==
    /\ task[t].step # "rest" /\ task' = [task EXCEPT ![t] = Idle]
    /\ strayAsk' = (strayAsk \/ task[t].step = "asking") /\ Loses
    /\ UNCHANGED <<asked, recipientSide>>

-----------------------------------------------------------------------------
(* Revocation.                                                                *)
RevocationStarts ==
    /\ Revocable /\ ~asked.acknowledged /\ task["revocation"].step = "rest"
    /\ task' = [task EXCEPT !["revocation"] = [Idle EXCEPT !.step = "revoking"]]
    /\ UNCHANGED <<asked, strayAsk, recipientSide, lost>>

\* A turn that has not begun is withdrawn; the worker of another is told.
CanceledByOrigin ==
    /\ delivery' = "closed"
    /\ target' = IF target \in {"waiting", "queued"} THEN "withdrawn" ELSE target
    /\ news' = (news \/ target' # target)

\* A peer without the delivery says so, which is an acknowledgement too.
RevocationServed(t) ==
    /\ task[t].step = "revoking"
    /\ IF delivery = "none" THEN UNCHANGED <<delivery, target, news>> ELSE CanceledByOrigin
    /\ \/ asked' = [asked EXCEPT !.acknowledged = TRUE] /\ UNCHANGED lost
       \/ Loses /\ UNCHANGED asked
    /\ task' = [task EXCEPT ![t] = Idle]
    /\ UNCHANGED <<strayAsk, reply, report>>

-----------------------------------------------------------------------------
(* The recipient: its turn and its reply.                                     *)
TargetAdmitted ==
    /\ target = "waiting" /\ delivery = "open" /\ target' \in {"queued", "refused"} /\ news' = TRUE
    /\ UNCHANGED <<originSide, delivery, reply, report, lost>>

\* The life of a turn is that of TurnLedger; a person may withdraw a queued one.
TargetMoves ==
    /\ \/ target = "queued" /\ target' \in {"running", "withdrawn"}
       \/ target = "running" /\ target' \in {"done", "failed", "cancelled"}
    /\ news' = TRUE
    /\ UNCHANGED <<originSide, delivery, reply, report, lost>>

\* The session may answer after the turn has ended, and after the delivery was closed.
ReplyMade ==
    /\ target \in {"running", "done", "failed", "cancelled"} /\ reply.status = "none"
    /\ reply' = [reply EXCEPT !.status = "pending", !.timely = (target = "running")]
    /\ news' = TRUE
    /\ UNCHANGED <<originSide, delivery, target, report, lost>>

-----------------------------------------------------------------------------
(* The recipient's report: the push, with its retries, and then a notice.     *)
ReportStarts ==
    /\ report.step = "rest" /\ (delivery = "open" \/ reply.status = "pending")
    /\ report' = [NoReport EXCEPT !.step = IF reply.status = "pending" THEN "pushing" ELSE "notice",
                                  !.closed = (delivery = "closed")]
    /\ UNCHANGED <<originSide, delivery, target, reply, news, lost>>

\* The origin's answer may be lost; the push is then made again.
PushServed ==
    /\ report.step = "pushing" /\ asked' = Recorded
    /\ \/ report' = [report EXCEPT !.step = "pushed", !.answer = IF Refusal THEN "refused" ELSE "recorded"]
       \/ UNCHANGED report
    /\ UNCHANGED <<task, strayAsk, delivery, target, reply, news, lost>>

\* Bug: any answer of the origin counts as delivery.
PushAnsweredAnyhow == "forwarded"

\* What an answer of the origin makes of the reply: only a confirmed one is forwarded.
PushAnswer == IF report.answer = "refused" THEN "refused" ELSE "forwarded"

PushEnds ==
    /\ \/ report.step = "pushed" /\ reply' = [reply EXCEPT !.status = PushAnswer] /\ UNCHANGED lost
       \/ report.step = "pushing" /\ reply' = [reply EXCEPT !.status = "failed"] /\ Loses
    /\ report' = [report EXCEPT !.step = "notice", !.answer = "none"] /\ news' = TRUE
    /\ UNCHANGED <<originSide, delivery, target>>

\* One notice per state of the request, and one per round while its turn waits in the queue.
NoticeStarts ==
    /\ report.step = "notice"
    /\ IF report.closed \/ (~news /\ target # "queued")
       THEN report' = NoReport /\ UNCHANGED news
       ELSE report' = [report EXCEPT !.step = "notifying"] /\ news' = FALSE
    /\ UNCHANGED <<originSide, delivery, target, reply, lost>>

\* The origin dispatches before it answers.
NoticeServed ==
    /\ report.step = "notifying" /\ task["notice"].step = "rest"
    /\ task' = IF asked.outcome = "none" THEN [task EXCEPT !["notice"] = Begun] ELSE task
    /\ report' = [report EXCEPT !.step = "waiting"]
    /\ UNCHANGED <<asked, strayAsk, delivery, target, reply, news, lost>>

NoticeAnswered ==
    /\ report.step = "waiting" /\ task["notice"].step = "rest"
    /\ report' = [report EXCEPT !.step = "told", !.answer = asked.outcome]
    /\ UNCHANGED <<originSide, delivery, target, reply, news, lost>>

\* A delivery is closed with its request; a reply made meanwhile keeps the turn.
NoticeEnds ==
    /\ report.step = "told" /\ report' = NoReport
    /\ IF report.answer \in {"canceled", "stopped"} /\ reply.status = "none"
       THEN CanceledByOrigin
       ELSE /\ delivery' = IF report.answer = "none" THEN delivery ELSE "closed"
            /\ UNCHANGED <<target, news>>
    /\ UNCHANGED <<originSide, reply, lost>>

\* A notice that got no answer was still given, unless its sender died.
NoticeLost ==
    /\ report.step \in {"notifying", "waiting"} /\ report' = NoReport /\ Loses
    /\ UNCHANGED <<originSide, delivery, target, reply, news>>

\* The row in the ledger outlives the task.
RecipientRestarts ==
    /\ report.step # "rest" /\ report' = NoReport /\ Loses
    /\ news' = (news \/ report.step \in {"notifying", "waiting", "told"})
    /\ UNCHANGED <<originSide, delivery, target, reply>>

PeerNext ==
    \/ Ask \/ CancelRequest \/ DispatchStarts \/ StrayAskServed \/ RevocationStarts
    \/ \E t \in Dispatches :
          \/ AskServed(t) \/ AskAnswered(t) \/ StatusServed(t) \/ StatusRead(t) \/ Fetched(t) \/ FetchFails(t)
    \/ \E t \in OriginTasks : CallLost(t) \/ RevocationServed(t)
    \/ TargetAdmitted \/ TargetMoves \/ ReplyMade
    \/ ReportStarts \/ PushServed \/ PushEnds
    \/ NoticeStarts \/ NoticeServed \/ NoticeAnswered \/ NoticeEnds \/ NoticeLost \/ RecipientRestarts

PeerSpec == PeerInit /\ [][PeerNext]_peerVars

-----------------------------------------------------------------------------
(* A final reply made while its turn ran is the request's answer, whatever    *)
(* that turn comes to: the origin does not read a failure or a stop of the    *)
(* turn as the outcome, although the push of the reply may be late, lost or   *)
(* given up.  Unless the reply has files that could not be fetched.           *)
AnswerBeforeEndCounts ==
    reply.timely /\ ~reply.files => asked.outcome \notin {"failed", "stopped"}

(* "Forwarded means the origin confirmed it holds this exact event"           *)
(* (session-peers.ts:1808): a push that succeeded is not enough.  A reply     *)
(* from a session that the origin named in its ask is only refused when the   *)
(* request has ended without it; one from a new session may also be refused   *)
(* because the origin did not know that session yet, and may be read later.   *)
ForwardedIsHeld ==
    /\ reply.status = "forwarded" => asked.held
    /\ reply.status = "refused" /\ ~asked.fresh => ~asked.held /\ asked.outcome # "none"

=============================================================================
