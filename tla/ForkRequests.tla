---------------------------- MODULE ForkRequests ----------------------------
(* A fork of a session: a copy of its provider's conversation and a message   *)
(* in Slack whose thread continues the copy.  The request's row (state.ts)    *)
(* is carried forward by whoever holds it (fork-requests.ts): the handler of  *)
(* the person's action, which Slack may repeat, and the recovery passes of    *)
(* the start and of every minute, which may overlap.  The provider may fork   *)
(* without answering, and later than its caller lives; Slack may post without *)
(* answering; and a reply may come to the new thread at any time.             *)
EXTENDS Naturals, FiniteSets

CONSTANTS
    ForkFlows,          \* handlers and passes of one process that run at once
    MaxForkCalls,       \* bound: calls of the provider
    MaxForkProcesses    \* bound: coordinator processes, one after the other

ASSUME ForkAssumption == {MaxForkCalls, MaxForkProcesses} \subseteq Nat \ {0}

VARIABLES
    forkProvider,       \* provider_id; it never changes
    forkRow,            \* the row: status, owner, child, whether the anchor's instant is kept, whether delivery was tried
    forkFlows,          \* what each flow of the living process waits for, the row as its pass read it, the children it was shown
    forkProcess,        \* the coordinator
    forkCalls,          \* calls of the provider so far, those that may still fork, and the children there are (external)
    anchorPosted,       \* external: Slack shows the anchor; one client_msg_id, one message
    anchorSession,      \* the session of the anchor's thread: a child, a new conversation or none
    threadReply,        \* a reply in that thread, and the session it was taken into
    overlapped          \* history: two passes of this process have gone over the row together

forkVars == <<forkProvider, forkRow, forkFlows, forkProcess, forkCalls, anchorPosted, anchorSession, threadReply, overlapped>>

NoOne == 0
Children == 1 .. MaxForkCalls
NewConversation == MaxForkCalls + 1

InHand == {"forking", "delivering", "binding"}
ForkStatuses == {"absent", "claimed", "forked", "delivered", "ambiguous", "error", "parked"} \cup InHand

ForkTypeOK ==
    /\ forkRow \in [status : ForkStatuses, owner : Nat, child : {NoOne} \cup Children, anchored : BOOLEAN, tried : BOOLEAN]
    /\ forkFlows \in [ForkFlows -> [phase : {"idle", "execute", "creating", "posting", "binding", "swept", "listing", "listed"},
                                    status : ForkStatuses, owner : Nat, call : {NoOne} \cup Children, seen : SUBSET Children]]
    /\ forkProcess \in [id : Nat, up : BOOLEAN, draining : BOOLEAN]
    /\ forkCalls \in [made : 0 .. MaxForkCalls, open : SUBSET Children, forked : SUBSET Children]
    /\ {anchorPosted, overlapped} \subseteq BOOLEAN
    /\ anchorSession \in {NoOne, NewConversation} \cup Children
    /\ threadReply \in [state : {"none", "waiting", "taken"}, session : {NoOne, NewConversation} \cup Children]

IdleFlow == [phase |-> "idle", status |-> "absent", owner |-> NoOne, call |-> NoOne, seen |-> {}]

ForkInit ==
    /\ forkProvider \in {"codex", "claude-code"}
    /\ forkRow = [status |-> "absent", owner |-> NoOne, child |-> NoOne, anchored |-> FALSE, tried |-> FALSE]
    /\ forkFlows = [f \in ForkFlows |-> IdleFlow]
    /\ forkProcess = [id |-> 1, up |-> TRUE, draining |-> FALSE]
    /\ forkCalls = [made |-> 0, open |-> {}, forked |-> {}]
    /\ anchorPosted = FALSE /\ anchorSession = NoOne
    /\ threadReply = [state |-> "none", session |-> NoOne]
    /\ overlapped = FALSE

-----------------------------------------------------------------------------
OwnerLives(owner) == forkProcess.up /\ owner = forkProcess.id

Flow(f, phase) == forkProcess.up /\ forkFlows[f].phase = phase

Goes(f, phase) ==
    forkFlows' = [forkFlows EXCEPT ![f] = IF phase = "idle" THEN IdleFlow ELSE [@ EXCEPT !.phase = phase]]

\* A statement of this process: one that finds no row to change throws.
WritesOr(f, condition, row, next, thrown) ==
    IF condition THEN forkRow' = row /\ Goes(f, next) ELSE UNCHANGED forkRow /\ Goes(f, thrown)

Writes(f, condition, row, next) == WritesOr(f, condition, row, next, "idle")

Leased(status) == forkRow.status = status /\ forkRow.owner = forkProcess.id

Given(status) == [forkRow EXCEPT !.status = status, !.owner = forkProcess.id]

Released(status) == [forkRow EXCEPT !.status = status, !.owner = NoOne]

ForkedAs(child) == [Released("forked") EXCEPT !.child = child]

Outside == <<forkCalls, anchorPosted, anchorSession, threadReply>>

Same == UNCHANGED <<forkProvider, forkProcess, overlapped>>

-----------------------------------------------------------------------------
\* The person's action, or a copy of it: claimForkRequest finds the row of the first.
RequestFork(f) ==
    /\ Flow(f, "idle")
    /\ forkRow' = IF forkRow.status = "absent" THEN [forkRow EXCEPT !.status = "claimed"] ELSE forkRow
    /\ Goes(f, "execute")
    /\ Same /\ UNCHANGED Outside

\* executeForkRequest takes the next stage of a row that nobody holds; a draining process posts and binds nothing.
BeginForkRequest(f) ==
    /\ Flow(f, "execute") /\ forkRow.status = "claimed" /\ forkFlows[f].call = NoOne
    /\ forkCalls.made < MaxForkCalls
    /\ LET call == forkCalls.made + 1
       IN  /\ forkCalls' = [forkCalls EXCEPT !.made = call, !.open = @ \cup {call}]
           /\ forkFlows' = [forkFlows EXCEPT ![f] = [IdleFlow EXCEPT !.phase = "creating", !.call = call]]
    /\ forkRow' = Given("forking")
    /\ Same /\ UNCHANGED <<anchorPosted, anchorSession, threadReply>>

ClaimForkDelivery(f) ==
    /\ Flow(f, "execute") /\ forkRow.status = "forked" /\ ~forkProcess.draining
    /\ forkRow' = [Given("delivering") EXCEPT !.tried = TRUE]
    /\ Goes(f, "posting")
    /\ Same /\ UNCHANGED Outside

ClaimForkBinding(f) ==
    /\ Flow(f, "execute") /\ forkRow.status = "binding" /\ forkRow.owner = NoOne /\ ~forkProcess.draining
    /\ forkRow' = Given("binding")
    /\ Goes(f, "binding")
    /\ Same /\ UNCHANGED Outside

NothingToExecute(f) ==
    /\ Flow(f, "execute")
    /\ forkRow.status # "claimed" \/ forkFlows[f].call # NoOne
    /\ ~forkProcess.draining =>
           forkRow.status # "forked" /\ ~(forkRow.status = "binding" /\ forkRow.owner = NoOne)
    /\ Goes(f, "idle")
    /\ Same /\ UNCHANGED <<forkRow, forkCalls, anchorPosted, anchorSession, threadReply>>

-----------------------------------------------------------------------------
\* External: an open call forks, whether or not its caller still waits for it.
ProviderForks(call) ==
    /\ call \in forkCalls.open
    /\ forkCalls' = [forkCalls EXCEPT !.open = @ \ {call}, !.forked = @ \cup {call}]
    /\ Same /\ UNCHANGED <<forkRow, forkFlows, anchorPosted, anchorSession, threadReply>>

ForkAnswered(f) ==
    /\ Flow(f, "creating") /\ forkFlows[f].call \in forkCalls.forked
    /\ Writes(f, Leased("forking"), ForkedAs(forkFlows[f].call), "execute")
    /\ Same /\ UNCHANGED Outside

\* Only Codex rejects for certain.
ForkRejected(f) ==
    /\ Flow(f, "creating") /\ forkFlows[f].call \in forkCalls.open /\ forkProvider = "codex"
    /\ forkCalls' = [forkCalls EXCEPT !.open = @ \ {forkFlows[f].call}]
    /\ Writes(f, Leased("forking"), Released("error"), "execute")
    /\ Same /\ UNCHANGED <<anchorPosted, anchorSession, threadReply>>

\* No answer, or an error that proves nothing; Codex is asked which forks carry the request's marker.
ForkUncertain(f) ==
    /\ Flow(f, "creating")
    /\ Writes(f, Leased("forking"), Released("ambiguous"), IF forkProvider = "codex" THEN "listing" ELSE "execute")
    /\ Same /\ UNCHANGED Outside

-----------------------------------------------------------------------------
\* The answers of Slack: post, refuse for now, refuse for good.  It may have posted and not answered.
SlackPosts(f) ==
    /\ Flow(f, "posting") /\ ~anchorPosted
    /\ anchorPosted' = TRUE
    /\ Same /\ UNCHANGED <<forkRow, forkFlows, forkCalls, anchorSession, threadReply>>

AnchorAnswered(f) ==
    /\ Flow(f, "posting") /\ anchorPosted
    /\ IF forkProcess.draining THEN UNCHANGED forkRow /\ Goes(f, "idle")
       ELSE Writes(f, Leased("delivering"), [Released("binding") EXCEPT !.anchored = TRUE], "execute")
    /\ Same /\ UNCHANGED Outside

AnchorRetried(f) ==
    /\ Flow(f, "posting")
    /\ Writes(f, Leased("delivering"), Released("forked"), "execute")
    /\ Same /\ UNCHANGED Outside

AnchorParked(f) ==
    /\ Flow(f, "posting")
    /\ Writes(f, Leased("delivering"), Released("parked"), "execute")
    /\ Same /\ UNCHANGED Outside

\* completeForkRequestDelivery: the thread's session is the child's, or it is another's and stays so.
CompleteForkDelivery(f) ==
    /\ Flow(f, "binding")
    /\ IF forkProcess.draining \/ ~Leased("binding")
       THEN UNCHANGED <<forkRow, anchorSession>> /\ Goes(f, "idle")
       ELSE LET free == anchorSession \in {NoOne, forkRow.child}
            IN  /\ forkRow' = Released(IF free THEN "delivered" ELSE "parked")
                /\ anchorSession' = IF free THEN forkRow.child ELSE anchorSession
                /\ Goes(f, "execute")
    /\ Same /\ UNCHANGED <<forkCalls, anchorPosted, threadReply>>

\* The database refuses a statement for good: the flow ends where it is, and the row stays its process's.
FlowThrows(f) ==
    /\ forkProcess.up /\ forkFlows[f].phase # "idle"
    /\ Goes(f, "idle")
    /\ Same /\ UNCHANGED <<forkRow, forkCalls, anchorPosted, anchorSession, threadReply>>

BindingFails(f) ==
    /\ Flow(f, "binding")
    /\ Writes(f, Leased("binding"), Released("binding"), "execute")
    /\ Same /\ UNCHANGED Outside

-----------------------------------------------------------------------------
(* reconcileForkRequests reads the rows once and comes to each of them later. *)

SweepReads(f) ==
    /\ Flow(f, "idle") /\ ~forkProcess.draining
    /\ forkRow.status \in InHand \cup {"claimed", "forked", "ambiguous"}
    /\ forkFlows' = [forkFlows EXCEPT ![f] = [IdleFlow EXCEPT !.phase = "swept", !.status = forkRow.status, !.owner = forkRow.owner]]
    /\ overlapped' = (overlapped \/ \E g \in ForkFlows \ {f} : forkFlows[g].phase \in {"swept", "listing", "listed"})
    /\ UNCHANGED <<forkProvider, forkRow, forkProcess, forkCalls, anchorPosted, anchorSession, threadReply>>

\* Bug: the row is taken for abandoned whoever owns it.
LeftToNobody(f) == FALSE

LeftToItsOwner(f) == forkFlows[f].status \in InHand /\ OwnerLives(forkFlows[f].owner)

SweepHandles(f) ==
    /\ Flow(f, "swept")
    /\ LET read == forkFlows[f].status
           codex == forkProvider = "codex"
       IN  IF forkProcess.draining \/ LeftToItsOwner(f) THEN UNCHANGED forkRow /\ Goes(f, "idle")
           ELSE \/ read \in {"forking", "ambiguous"} /\ codex /\ UNCHANGED forkRow /\ Goes(f, "listing")
                \/ read = "forking" /\ ~codex /\ Writes(f, forkRow.status = "forking", Released("ambiguous"), "execute")
                \/ read = "delivering" /\ Writes(f, forkRow.status = "delivering", Released("forked"), "execute")
                \/ /\ read = "binding" /\ forkFlows[f].owner # NoOne
                   /\ Writes(f, forkRow.status = "binding", Released("binding"), "execute")
                \/ /\ \/ read \in {"claimed", "forked"} \/ (read = "ambiguous" /\ ~codex)
                      \/ (read = "binding" /\ forkFlows[f].owner = NoOne)
                   /\ UNCHANGED forkRow /\ Goes(f, "execute")
    /\ Same /\ UNCHANGED Outside

\* What goes wrong after a flow's own call is logged, and the flow goes on.
Thrown(f) == IF forkFlows[f].call = NoOne THEN "idle" ELSE "execute"

\* findCodexForksByThreadSource, which may fail.
ListForks(f) ==
    /\ Flow(f, "listing")
    /\ \/ forkFlows' = [forkFlows EXCEPT ![f] = [@ EXCEPT !.phase = "listed", !.seen = forkCalls.forked]]
       \/ Goes(f, Thrown(f))
    /\ Same /\ UNCHANGED <<forkRow, forkCalls, anchorPosted, anchorSession, threadReply>>

\* recoverCodexProviderResult; only a request read as forking is retried, or made ambiguous by several forks.
RecoverForkResult(f) ==
    /\ Flow(f, "listed")
    /\ LET seen == forkFlows[f].seen
           pending == forkRow.status = "forking"
       IN  \/ \E child \in seen :
                 /\ seen = {child}
                 /\ WritesOr(f, forkRow.status \in {"forking", "ambiguous"}, ForkedAs(child), "execute", Thrown(f))
           \/ /\ Cardinality(seen) # 1 /\ forkFlows[f].status = "forking"
              /\ Writes(f, pending, Released(IF seen = {} THEN "claimed" ELSE "ambiguous"), "execute")
           \/ Cardinality(seen) # 1 /\ forkFlows[f].status # "forking" /\ UNCHANGED forkRow /\ Goes(f, "execute")
    /\ Same /\ UNCHANGED Outside

-----------------------------------------------------------------------------
\* getForkIngressBarrier, for a message in the anchor's thread.
BarredOnceAnchored == forkRow.status = "binding" /\ forkRow.anchored

Barred ==
    \/ forkRow.status = "delivering"
    \/ forkRow.status = "forked" /\ forkRow.tried
    \/ forkRow.status = "binding" /\ forkRow.anchored

ReplyComes ==
    /\ anchorPosted /\ threadReply.state = "none"
    /\ threadReply' = [threadReply EXCEPT !.state = "waiting"]
    /\ Same /\ UNCHANGED <<forkRow, forkFlows, forkCalls, anchorPosted, anchorSession>>

\* waitForForkBinding, then handleTurn up to the session it finds or makes.
ReplyTaken ==
    /\ forkProcess.up /\ threadReply.state = "waiting" /\ ~Barred
    /\ anchorSession' = IF anchorSession = NoOne THEN NewConversation ELSE anchorSession
    /\ threadReply' = [state |-> "taken", session |-> anchorSession']
    /\ Same /\ UNCHANGED <<forkRow, forkFlows, forkCalls, anchorPosted>>

\* Thirty seconds behind the barrier, or a process that drains: the person is asked to send it again.
ReplyRefused ==
    /\ forkProcess.up /\ threadReply.state = "waiting" /\ Barred
    /\ threadReply' = [threadReply EXCEPT !.state = "none"]
    /\ Same /\ UNCHANGED <<forkRow, forkFlows, forkCalls, anchorPosted, anchorSession>>

ForkProcessDrains ==
    /\ forkProcess.up /\ ~forkProcess.draining
    /\ forkProcess' = [forkProcess EXCEPT !.draining = TRUE]
    /\ UNCHANGED <<forkProvider, forkRow, forkFlows, forkCalls, anchorPosted, anchorSession, threadReply, overlapped>>

ForkProcessEnds ==
    /\ forkProcess.up
    /\ forkProcess' = [forkProcess EXCEPT !.up = FALSE]
    /\ forkFlows' = [f \in ForkFlows |-> IdleFlow] /\ overlapped' = FALSE
    /\ UNCHANGED <<forkProvider, forkRow, forkCalls, anchorPosted, anchorSession, threadReply>>

ForkProcessStarts ==
    /\ ~forkProcess.up /\ forkProcess.id < MaxForkProcesses
    /\ forkProcess' = [id |-> forkProcess.id + 1, up |-> TRUE, draining |-> FALSE]
    /\ UNCHANGED <<forkProvider, forkRow, forkFlows, forkCalls, anchorPosted, anchorSession, threadReply, overlapped>>

ForkNext ==
    \/ \E f \in ForkFlows :
        \/ RequestFork(f) \/ BeginForkRequest(f) \/ ClaimForkDelivery(f) \/ ClaimForkBinding(f) \/ NothingToExecute(f)
        \/ ForkAnswered(f) \/ ForkRejected(f) \/ ForkUncertain(f)
        \/ SlackPosts(f) \/ AnchorAnswered(f) \/ AnchorRetried(f) \/ AnchorParked(f)
        \/ CompleteForkDelivery(f) \/ BindingFails(f) \/ FlowThrows(f)
        \/ SweepReads(f) \/ SweepHandles(f) \/ ListForks(f) \/ RecoverForkResult(f)
    \/ \E call \in Children : ProviderForks(call)
    \/ ReplyComes \/ ReplyTaken \/ ReplyRefused
    \/ ForkProcessDrains \/ ForkProcessEnds \/ ForkProcessStarts

ForkSpec == ForkInit /\ [][ForkNext]_forkVars

-----------------------------------------------------------------------------
(* Who answers the anchor talks to the copy: however late Slack's answer is,  *)
(* whichever process dies between posting, recording and binding, a reply is  *)
(* taken into the child's session, unless the request was given up.           *)
ReplyJoinsFork ==
    threadReply.state = "taken" => threadReply.session = forkRow.child \/ forkRow.status = "parked"

(* "Zero matches may retry only from a dead owner" (PROVIDER-SESSIONS.md:861):*)
(* while the process that called the provider lives, nobody has it called     *)
(* again, except where two passes of that process went over the row together. *)
RetriedFromDeadOwner ==
    [][forkRow.status = "forking" /\ forkRow'.status = "claimed" =>
           ~OwnerLives(forkRow.owner) \/ overlapped]_forkVars

(* The sentence as it stands, which two overlapping passes break.             *)
RetriesOnlyFromDeadOwner ==
    [][forkRow.status = "forking" /\ forkRow'.status = "claimed" => ~OwnerLives(forkRow.owner)]_forkVars

=============================================================================
