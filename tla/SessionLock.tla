----------------------------- MODULE SessionLock -----------------------------
(* What the ledger promises about a session: its turns take turns.  At most   *)
(* one of them holds the session, whatever way it got it, and it gives it     *)
(* back before another may take it.                                           *)
CONSTANTS Turns, SessionOf

VARIABLE held        \* the turns that hold their session

FreeFor(t) == \A u \in held : SessionOf[u] # SessionOf[t]

Init == held = {}

Take(t) == FreeFor(t) /\ held' = held \cup {t}

GiveBack(t) == t \in held /\ held' = held \ {t}

Next == \E t \in Turns : Take(t) \/ GiveBack(t)

Spec == Init /\ [][Next]_held

\* Two turns of one session never hold it together.
OneHolder == \A t, u \in held : t # u => SessionOf[t] # SessionOf[u]

=============================================================================
