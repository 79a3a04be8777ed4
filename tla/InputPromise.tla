---------------------------- MODULE InputPromise ----------------------------
(* What the coordinator promises about an input from the moment it accepted   *)
(* it: inputs are taken in in order and never lost; one whose answer was once *)
(* in hand, or whose outcome is unknown, is not put before a provider again;  *)
(* an ended one stays ended, unless no provider was reached and nobody was    *)
(* shown an outcome; and an answer that is out stays out.                     *)
EXTENDS Integers

CONSTANT Inputs      \* numbered in the order they are accepted

VARIABLES
    life,            \* life[i]: how far input i has come
    answered,        \* the inputs whose outcome their sender has been shown
    reached          \* the inputs a provider may have acted on

promiseVars == <<life, answered, reached>>

Lives == {"absent", "queued", "running", "delivering", "parked", "unknown", "ended"}

\* A parked input may be tried again, one of unknown outcome only be answered.
MayBecome ==
    [absent     |-> {"queued", "running"},
     queued     |-> {"running", "ended"},
     running    |-> {"queued", "delivering", "parked", "unknown", "ended"},
     parked     |-> {"queued", "delivering", "unknown", "ended"},
     delivering |-> {"unknown", "ended"},
     unknown    |-> {"delivering", "ended"},
     ended      |-> {"queued"}]

Init ==
    /\ life = [i \in Inputs |-> "absent"]
    /\ answered = {} /\ reached = {}

\* Several inputs may move at once: a Stop takes back what waits behind it, a
\* sign-in releases what is held.
Moves == \A i \in Inputs : life'[i] = life[i] \/ life'[i] \in MayBecome[life[i]]

AcceptedInOrder ==
    \A i, j \in Inputs : life[i] = "absent" /\ life'[i] # "absent" /\ j < i => life[j] # "absent"

\* An end is taken back only where it kept nothing from anyone.
EndsForGood ==
    \A i \in Inputs : life[i] = "ended" /\ life'[i] # "ended" => i \notin reached \cup answered

\* A provider is reached, and found not to have been, by a run of the input.
ReachedByRuns ==
    /\ reached' \subseteq Inputs
    /\ \A i \in Inputs : (i \in reached) # (i \in reached') => life[i] = "running"

\* An outcome is shown while it is delivered, or with the end of the input; then
\* nothing is left but to end it.
Answers ==
    /\ answered \subseteq answered' /\ answered' \subseteq Inputs
    /\ \A i \in answered' : life'[i] \in {"delivering", "ended"}
    /\ \A i \in answered' \ answered : life[i] \notin {"absent", "queued", "running", "ended"}

Next ==
    /\ life' \in [Inputs -> Lives]
    /\ Moves /\ AcceptedInOrder /\ EndsForGood /\ ReachedByRuns /\ Answers

Spec == Init /\ [][Next]_promiseVars

=============================================================================
