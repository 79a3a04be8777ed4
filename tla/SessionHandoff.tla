---------------------------- MODULE SessionHandoff ----------------------------
(* A change of provider: a session's open obligations move to a successor     *)
(* session (session-handoff.ts).  The predecessor keeps them until a run of   *)
(* the successor acknowledges the exact inventory; the transaction of the     *)
(* acceptance then moves the requests it sent, the requests it owes, and the  *)
(* inputs that no provider can have seen, and suspends it; a run of it that   *)
(* is under way goes on, but may no longer write.  Questions cross with that: *)
(* ask (session-communication.ts) passes its fence before it awaits, answers  *)
(* return when the asker can be reached, and an input may be steered into a   *)
(* run, refused by the provider, or put back on the queue.  When all accounts *)
(* of a provider are spent, waiting work alone moves to a session of another  *)
(* provider (provider-exhaustion-recovery.ts).                                *)
EXTENDS Naturals, FiniteSets

CONSTANTS
    SentRequests,       \* requests the line of sessions sends to another agent
    OwedRequests,       \* requests another agent sends to the line
    MaxLineage,         \* bound: sessions of the line
    MaxHandoffLoad      \* bound: sessions and requests together

ASSUME LineageAssumption == MaxLineage \in Nat \ {0} /\ MaxHandoffLoad \in Nat

VARIABLES
    handoffs,           \* how each session but the first came about: session_handoffs, or a row of provider_recovery_sessions
    suspendedSessions,  \* sessions whose metadata says suspended
    sent,               \* session_communication_requests whose source is in the line
    owed,               \* session_communication_requests whose target is in the line, with target_input_id
    asking,             \* asks that have passed their checks and await, and the session each will name
    inputs,             \* session_inputs and their turns, by what they carry and the session that has them
    shownInventory,     \* the inventory each successor was last shown
    reached,            \* history: the sessions whose provider may have got an input
    stranded            \* history: what a hand-off did not take along

handoffVars == <<handoffs, suspendedSessions, sent, owed, asking, inputs, shownInventory, reached, stranded>>

Lineage == 1 .. MaxLineage
NoSession == 0

Request(r) == <<"request", r>>      \* what the input of an owed request carries
Return(q) == <<"return", q>>        \* what the input that returns an answer carries
Brief(s) == <<"brief", s>>          \* what the first input of a successor carries
Carried == {Request(r) : r \in OwedRequests} \cup {Return(q) : q \in SentRequests} \cup {Brief(s) : s \in Lineage \ {1}}
Obligations == Carried \cup {<<"sent", q>> : q \in SentRequests}

\* "held" is queued with dispatch_hold 'usage', "tried" queued with the evidence of an admission.
QueuedStates == {"queued", "held", "tried"}
InputStates == {"none", "retained", "running", "steering", "unsent", "done", "canceled"} \cup QueuedStates

HandoffTypeOK ==
    /\ handoffs \in [Lineage -> [state : {"none", "proposed", "accepted", "withdrawn", "recovery"},
                              from : {NoSession} \cup Lineage,
                              byOther : BOOLEAN]]
    /\ suspendedSessions \subseteq Lineage
    /\ sent \in [SentRequests -> [state : {"none", "open", "settled", "returned"}, holder : {NoSession} \cup Lineage]]
    /\ owed \in [OwedRequests -> [state : {"none", "open", "answered", "canceled"}, holder : {NoSession} \cup Lineage,
                                  input : Carried \X ({NoSession} \cup Lineage)]]
    /\ asking \in [Obligations -> {NoSession} \cup Lineage]
    /\ inputs \in [Carried -> [Lineage -> InputStates]]
    /\ shownInventory \in [Lineage -> SUBSET (Obligations \X {"sent", "owed", "movable", "tried"})]
    /\ reached \in [Carried -> SUBSET Lineage]
    /\ stranded \subseteq Obligations

HandoffInit ==
    /\ handoffs = [s \in Lineage |-> [state |-> "none", from |-> NoSession, byOther |-> FALSE]]
    /\ suspendedSessions = {}
    /\ sent = [q \in SentRequests |-> [state |-> "none", holder |-> NoSession]]
    /\ owed = [r \in OwedRequests |-> [state |-> "none", holder |-> NoSession, input |-> <<Request(r), NoSession>>]]
    /\ asking = [o \in Obligations |-> NoSession]
    /\ inputs = [i \in Carried |-> [s \in Lineage |-> "none"]]
    /\ shownInventory = [s \in Lineage |-> {}]
    /\ reached = [i \in Carried |-> {}]
    /\ stranded = {}

-----------------------------------------------------------------------------
Exists(s) == s = 1 \/ handoffs[s].state # "none"

Successors(s) == {next \in Lineage : handoffs[next].from = s /\ handoffs[next].state = "accepted"}

IsSuperseded(s) == Successors(s) # {}

HandoffLoad == Cardinality({s \in Lineage : Exists(s)})
    + Cardinality({q \in SentRequests : sent[q].state # "none" \/ asking[<<"sent", q>>] # NoSession})
    + Cardinality({r \in OwedRequests : owed[r].state # "none" \/ asking[Request(r)] # NoSession})

WithdrawnSuccessor(s) == handoffs[s].state = "withdrawn"

\* fenced: such a session may read and end its run, and no more.
Fenced(s) == IsSuperseded(s) \/ WithdrawnSuccessor(s)

CanSend(s) == Exists(s) /\ s \notin suspendedSessions /\ ~Fenced(s)

Live(s) == \E i \in Carried : inputs[i][s] = "running"

HasTurn(i, s) == inputs[i][s] \notin {"none", "retained"}

\* safeTurn: the provider provably has not got it.
Movable(i, s) == inputs[i][s] \in {"queued", "held"}

\* ledgerItems: an input is listed while its own turn is queued, with the evidence that decides whether it moves.
Inventory(s) ==
    {<<<<"sent", q>>, "sent">> : q \in {q \in SentRequests : sent[q].state = "open" /\ sent[q].holder = s}}
    \cup {<<Request(r), "owed">> : r \in {r \in OwedRequests : owed[r].state = "open" /\ owed[r].holder = s}}
    \cup {<<i, IF Movable(i, s) THEN "movable" ELSE "tried">> : i \in {i \in Carried : inputs[i][s] \in QueuedStates}}

SetInput(i, s, state) == inputs' = [inputs EXCEPT ![i][s] = state]

Returning(i, s) == stranded' = IF Fenced(s) THEN stranded \cup {i} ELSE stranded

KeepHandoffs == UNCHANGED <<handoffs, suspendedSessions, shownInventory>>
KeepRequests == UNCHANGED <<sent, owed, asking>>
KeepHistory == UNCHANGED <<reached, stranded>>

-----------------------------------------------------------------------------
\* ask of a run of the line: fenced and checked, then earlierWork is awaited.
BeginAsk(q, s) ==
    /\ Live(s) /\ ~Fenced(s)
    /\ HandoffLoad < MaxHandoffLoad
    /\ sent[q].state = "none" /\ asking[<<"sent", q>>] = NoSession
    /\ asking' = [asking EXCEPT ![<<"sent", q>>] = s]
    /\ UNCHANGED <<sent, owed, inputs>> /\ KeepHandoffs /\ KeepHistory

\* The transaction of ask does not look at the fence again.
CommitAsk(q) ==
    LET s == asking[<<"sent", q>>]
    IN  /\ s # NoSession
        /\ sent' = [sent EXCEPT ![q] = [state |-> "open", holder |-> s]]
        /\ asking' = [asking EXCEPT ![<<"sent", q>>] = NoSession]
        /\ stranded' = IF Fenced(s) THEN stranded \cup {<<"sent", q>>} ELSE stranded
        /\ UNCHANGED <<owed, inputs, reached>> /\ KeepHandoffs

\* The other agent answers, or its work fails, or the request is canceled: the final event waits for delivery.
SettleSent(q) ==
    /\ sent[q].state = "open"
    /\ sent' = [sent EXCEPT ![q].state = "settled"]
    /\ UNCHANGED <<owed, asking, inputs>> /\ KeepHandoffs /\ KeepHistory

\* dispatch of the owner: an input goes into the live run or onto the queue.
Dispatched(i, s) == \E state \in {"queued"} \cup (IF Live(s) THEN {"steering"} ELSE {}) : SetInput(i, s, state)

\* deliver: the answer returns to whoever holds the request, once that session can be reached.
DeliverReturn(q) ==
    /\ sent[q].state = "settled" /\ CanSend(sent[q].holder)
    /\ sent' = [sent EXCEPT ![q].state = "returned"]
    /\ Dispatched(Return(q), sent[q].holder)
    /\ UNCHANGED <<owed, asking>> /\ KeepHandoffs /\ KeepHistory

-----------------------------------------------------------------------------
\* ask of another agent: the address leads to the session that continues the one it names.
BeginAskOf(r, s) ==
    /\ CanSend(s)
    /\ HandoffLoad < MaxHandoffLoad
    /\ owed[r].state = "none" /\ asking[Request(r)] = NoSession
    /\ asking' = [asking EXCEPT ![Request(r)] = s]
    /\ UNCHANGED <<sent, owed, inputs>> /\ KeepHandoffs /\ KeepHistory

CommitAskOf(r) ==
    LET s == asking[Request(r)]
    IN  /\ s # NoSession
        /\ owed' = [owed EXCEPT ![r] = [state |-> "open", holder |-> s, input |-> <<Request(r), s>>]]
        /\ asking' = [asking EXCEPT ![Request(r)] = NoSession]
        /\ SetInput(Request(r), s, "retained")
        /\ Returning(Request(r), s)
        /\ UNCHANGED <<sent, reached>> /\ KeepHandoffs

\* dispatch of the communication: the retained input the request names, at a session that takes messages.
DispatchRequest(r) ==
    LET i == owed[r].input[1] s == owed[r].input[2]
    IN  /\ owed[r].state = "open" /\ inputs[i][s] = "retained" /\ CanSend(s)
        /\ Dispatched(i, s)
        /\ KeepRequests /\ KeepHandoffs /\ KeepHistory

\* reply: any live run of the session that holds the request may close it.
Reply(r) ==
    LET s == owed[r].holder
    IN  /\ owed[r].state = "open" /\ Live(s) /\ ~Fenced(s)
        /\ HasTurn(owed[r].input[1], owed[r].input[2])
        /\ owed' = [owed EXCEPT ![r].state = "answered"]
        /\ UNCHANGED <<sent, asking, inputs>> /\ KeepHandoffs /\ KeepHistory

\* cancel, with the queued turn of the input that the request names.
CancelOwed(r) ==
    LET i == owed[r].input[1] s == owed[r].input[2]
    IN  /\ owed[r].state = "open"
        /\ owed' = [owed EXCEPT ![r].state = "canceled"]
        /\ IF inputs[i][s] \in QueuedStates \cup {"retained"} THEN SetInput(i, s, "canceled") ELSE UNCHANGED inputs
        /\ UNCHANGED <<sent, asking>> /\ KeepHandoffs /\ KeepHistory

-----------------------------------------------------------------------------
\* The claim, one turn of a session at a time; a canceled request keeps the input it names from running.
Claim(i, s) ==
    /\ inputs[i][s] \in QueuedStates /\ s \notin suspendedSessions /\ ~Live(s)
    /\ \A r \in OwedRequests : owed[r].input = <<i, s>> => owed[r].state # "canceled"
    /\ SetInput(i, s, "running")
    /\ KeepRequests /\ KeepHandoffs /\ KeepHistory

Got(i, s) == reached' = [reached EXCEPT ![i] = @ \cup {s}]

Steered(s) == {i \in Carried : inputs[i][s] = "steering"}

\* A refusal that is proved replay safe, a failure that may be retried, or a start that is proved not to have happened
\* (TurnLedger says which runs may come back: none whose provider has the input).
RunComesBack(i, s) ==
    /\ inputs[i][s] = "running" /\ Steered(s) = {}
    /\ \E state \in QueuedStates : SetInput(i, s, state)
    /\ Returning(i, s)
    /\ UNCHANGED reached /\ KeepRequests /\ KeepHandoffs

RunEnds(i, s) ==
    /\ inputs[i][s] = "running" /\ Steered(s) = {}
    /\ SetInput(i, s, "done") /\ Got(i, s)
    /\ UNCHANGED stranded /\ KeepRequests /\ KeepHandoffs

\* An input steered into a run is taken, or proved unsent, before the run is over.
SteeringSettles(i, s) ==
    /\ i \in Steered(s)
    /\ \/ SetInput(i, s, "done") /\ Got(i, s)
       \/ SetInput(i, s, "unsent") /\ UNCHANGED reached
    /\ UNCHANGED stranded /\ KeepRequests /\ KeepHandoffs

\* The session that continues the line, past every accepted hand-off.
LineEnd[s \in Lineage] == IF IsSuperseded(s) THEN LineEnd[CHOOSE next \in Successors(s) : TRUE] ELSE s

\* recoverUnsentSteeredInput: back to its own queue, or, for some providers, to the line's end when its own session is suspended.
RecoverUnsentSteered(i, s) ==
    /\ inputs[i][s] = "unsent"
    /\ IF s \notin suspendedSessions
       THEN SetInput(i, s, "queued") /\ UNCHANGED owed
       ELSE LET end == LineEnd[s]
            IN  /\ end # s /\ end \notin suspendedSessions
                /\ inputs' = [inputs EXCEPT ![i] = [@ EXCEPT ![s] = "canceled", ![end] = "queued"]]
                /\ owed' = [r \in OwedRequests |->
                       IF owed[r].state = "open" /\ owed[r].holder = end /\ i = Request(r)
                       THEN [owed[r] EXCEPT !.input = <<i, end>>] ELSE owed[r]]
    /\ UNCHANGED <<sent, asking>> /\ KeepHandoffs /\ KeepHistory

-----------------------------------------------------------------------------
\* createNativeSession
UnusedSession(s) == ~Exists(s) /\ Exists(s - 1) /\ HandoffLoad < MaxHandoffLoad

\* proposeHandoff, by a run of the predecessor or by an agent with an open request to it.
ProposeHandoff(p, next, byOther) ==
    /\ Exists(p) /\ ~IsSuperseded(p)
    /\ \/ ~byOther /\ Live(p) /\ ~Fenced(p)
       \/ byOther /\ \E r \in OwedRequests : owed[r].state = "open" /\ owed[r].holder = p
    /\ \A s \in Lineage : handoffs[s].from = p => handoffs[s].state # "proposed"
    /\ UnusedSession(next)
    /\ handoffs' = [handoffs EXCEPT ![next] = [state |-> "proposed", from |-> p, byOther |-> byOther]]
    /\ shownInventory' = [shownInventory EXCEPT ![next] = Inventory(p)]
    /\ SetInput(Brief(next), next, "queued")
    /\ UNCHANGED suspendedSessions /\ KeepRequests /\ KeepHistory

Proposed(s) == handoffs[s].state = "proposed"

\* An acceptance that names another inventory is answered with the one there is.
ReadInventory(s) ==
    /\ Proposed(s) /\ Live(s)
    /\ shownInventory' = [shownInventory EXCEPT ![s] = Inventory(handoffs[s].from)]
    /\ UNCHANGED <<handoffs, suspendedSessions, inputs>> /\ KeepRequests /\ KeepHistory

\* Defect: the digest was compared before the awaits, and the transaction trusts that.
AcknowledgesAnything(s) == TRUE

\* The digest, compared once more in the transaction.
Acknowledges(s) == shownInventory[s] = Inventory(handoffs[s].from)

SettledAnswers(s) == {<<"sent", q>> : q \in {q \in SentRequests : sent[q].state = "settled" /\ sent[q].holder = s}}

\* The transaction of acceptHandoff.  It asks for a live run of the successor and does not look at the fence.
AcceptHandoff(s) ==
    /\ Proposed(s) /\ Live(s) /\ Acknowledges(s)
    /\ LET from == handoffs[s].from
           items == {item[1] : item \in shownInventory[s]}
           queued == {item[1] : item \in {item \in shownInventory[s] : item[2] = "movable"}}
       IN  /\ \A item \in shownInventory[s] : item[2] # "tried"
           /\ queued = {} \/ s \notin suspendedSessions
           /\ sent' = [q \in SentRequests |->
                  IF <<<<"sent", q>>, "sent">> \in shownInventory[s] THEN [sent[q] EXCEPT !.holder = s] ELSE sent[q]]
           /\ owed' = [r \in OwedRequests |->
                  IF <<Request(r), "owed">> \in shownInventory[s]
                  THEN [owed[r] EXCEPT !.holder = s,
                                       !.input = IF @[2] = from /\ @[1] \in queued THEN <<@[1], s>> ELSE <<Brief(s), s>>]
                  ELSE owed[r]]
           /\ inputs' = [i \in Carried |->
                  IF i \in queued THEN [inputs[i] EXCEPT ![from] = "canceled", ![s] = "queued"] ELSE inputs[i]]
           /\ suspendedSessions' = suspendedSessions \cup {from}
           /\ handoffs' = [handoffs EXCEPT ![s] = [@ EXCEPT !.state = "accepted", !.byOther = FALSE]]
           /\ shownInventory' = [shownInventory EXCEPT ![s] = {}]
           /\ stranded' = stranded \cup SettledAnswers(from) \cup (IF Fenced(s) THEN items ELSE {})
    /\ UNCHANGED <<asking, reached>>

\* withdrawHandoff, by the caller or the predecessor: the successor is suspended with what it was given meanwhile.
WithdrawHandoff(s) ==
    /\ Proposed(s) /\ (handoffs[s].byOther \/ Live(handoffs[s].from))
    /\ handoffs' = [handoffs EXCEPT ![s] = [@ EXCEPT !.state = "withdrawn", !.byOther = FALSE]]
    /\ suspendedSessions' = suspendedSessions \cup {s}
    /\ shownInventory' = [shownInventory EXCEPT ![s] = {}]
    /\ stranded' = stranded \cup {item[1] : item \in Inventory(s)} \cup SettledAnswers(s)
    /\ UNCHANGED <<inputs, reached>> /\ KeepRequests

\* transferSession: all that waits, if it may all move, the first for its allowance, and nothing else is unresolved.
RecoverElsewhere(s, next) ==
    LET queued == {i \in Carried : inputs[i][s] \in QueuedStates}
        earlier == {x \in Lineage : handoffs[x].state = "recovery" /\ handoffs[x].from = s /\ x \notin suspendedSessions}
    IN  /\ Exists(s) /\ s \notin suspendedSessions /\ handoffs[s].state # "recovery"
        /\ \E i \in queued : inputs[i][s] = "held"
        /\ \A i \in queued : Movable(i, s)
        /\ ~Live(s)
        /\ \A r \in OwedRequests : owed[r].state = "open" /\ owed[r].holder = s => owed[r].input \in queued \X {s}
        /\ \A q \in SentRequests : sent[q].state = "open" => sent[q].holder # s
        /\ IF earlier = {} THEN UnusedSession(next) ELSE next \in earlier
        /\ handoffs' = [handoffs EXCEPT ![next] = [state |-> "recovery", from |-> s, byOther |-> FALSE]]
        /\ inputs' = [i \in Carried |->
               IF i \in queued THEN [inputs[i] EXCEPT ![s] = "canceled", ![next] = "queued"] ELSE inputs[i]]
        /\ owed' = [r \in OwedRequests |->
               IF owed[r].state = "open" /\ owed[r].input \in queued \X {s}
               THEN [owed[r] EXCEPT !.holder = next, !.input = <<@[1], next>>] ELSE owed[r]]
    /\ UNCHANGED <<suspendedSessions, shownInventory, sent, asking>> /\ KeepHistory

-----------------------------------------------------------------------------
HandoffNext ==
    \/ \E q \in SentRequests : CommitAsk(q) \/ SettleSent(q) \/ DeliverReturn(q)
    \/ \E r \in OwedRequests : CommitAskOf(r) \/ DispatchRequest(r) \/ Reply(r) \/ CancelOwed(r)
    \/ \E s \in Lineage :
          \/ \E q \in SentRequests : BeginAsk(q, s)
          \/ \E r \in OwedRequests : BeginAskOf(r, s)
          \/ \E i \in Carried : \/ Claim(i, s) \/ RunComesBack(i, s) \/ RunEnds(i, s)
                              \/ SteeringSettles(i, s) \/ RecoverUnsentSteered(i, s)
          \/ \E next \in Lineage : RecoverElsewhere(s, next) \/ \E byOther \in BOOLEAN : ProposeHandoff(s, next, byOther)
          \/ ReadInventory(s) \/ AcceptHandoff(s) \/ WithdrawHandoff(s)

HandoffSpec == HandoffInit /\ [][HandoffNext]_handoffVars

-----------------------------------------------------------------------------
(* Custody through a change of provider: while a request that the line sent   *)
(* or owes is open it is with a session that may act on it, an owed one names *)
(* an input of that session, an input that still waits is where it can be     *)
(* taken up, and no input may have come to two providers. Only what crossed   *)
(* with a hand-off is excepted, and stays known by name: an ask past its      *)
(* checks, an answer not delivered yet, a run that comes back, what is moved  *)
(* to a successor that has been succeeded, and what a successor was given     *)
(* before its hand-off was withdrawn (acceptHandoff, withdrawHandoff, fenced, *)
(* safeTurn).                                                                 *)
HandoffKeepsCustody ==
    /\ \A q \in SentRequests :
          sent[q].state \in {"open", "settled"} /\ Fenced(sent[q].holder) => <<"sent", q>> \in stranded
    /\ \A r \in OwedRequests : owed[r].state = "open" =>
          /\ Fenced(owed[r].holder) => Request(r) \in stranded
          /\ owed[r].input[2] = owed[r].holder /\ owed[r].input[1] \in {Request(r)} \cup {Brief(s) : s \in 2 .. owed[r].holder}
          /\ inputs[owed[r].input[1]][owed[r].holder] # "none"
    /\ \A i \in Carried :
          /\ Cardinality(reached[i]) <= 1
          /\ \A s \in Lineage : inputs[i][s] \in QueuedStates /\ Fenced(s) => i \in stranded

=============================================================================
