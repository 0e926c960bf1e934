--------------------------------- MODULE Gate ---------------------------------
(***************************************************************************)
(* What one listening port promises its clients and the service control,   *)
(* without loops, locks or sockets: a gate.  Clients come in while it is    *)
(* open; told to pause or to stop it is closed, waits until the last client *)
(* has left, and only then reports back.  GpsServer implements it.          *)
(***************************************************************************)
CONSTANT Client

VARIABLES
    ask,     \* what the control waits for: a request, "none", or how it ended
    serving, \* clients are let in
    inside   \* clients the server has let in and not yet seen off

vars == <<ask, serving, inside>>

Requests == {"pause", "stop", "resume"}

TypeOK ==
    /\ ask \in Requests \cup {"none", "stopped", "crashed"}
    /\ serving \in BOOLEAN
    /\ inside \subseteq Client

Init == ask = "none" /\ serving = TRUE /\ inside = {}

Request(r) ==
    /\ ask = "none" /\ ask' = r
    /\ UNCHANGED <<serving, inside>>

Admit(c) ==
    /\ serving
    /\ c \notin inside /\ inside' = inside \cup {c}
    /\ UNCHANGED <<ask, serving>>

Leave(c) ==
    /\ c \in inside /\ inside' = inside \ {c}
    /\ UNCHANGED <<ask, serving>>

Closing == ask \in {"pause", "stop"}

\* From here on nobody is let in until the gate is opened again.
Close ==
    /\ Closing
    /\ serving /\ serving' = FALSE
    /\ UNCHANGED <<ask, inside>>

\* The gate is closed and everybody has left.
Finish ==
    /\ Closing /\ ~serving /\ inside = {}
    /\ ask' = IF ask = "stop" THEN "stopped" ELSE "none"
    /\ UNCHANGED <<serving, inside>>

Resume ==
    /\ ask = "resume" /\ ask' = "none"
    /\ serving' = TRUE
    /\ UNCHANGED inside

\* The process may die while this gate, or another one of it, is being closed.
Crash ==
    /\ ask \notin {"stopped", "crashed"} /\ ask' = "crashed"
    /\ UNCHANGED <<serving, inside>>

Next ==
    \/ \E r \in Requests : Request(r)
    \/ \E c \in Client : Admit(c) \/ Leave(c)
    \/ Close \/ Finish \/ Resume \/ Crash

\* Clients may stay as long as the gate is open; behind a closed gate each of
\* them is seen off in the end.
Evict(c) == Closing /\ ~serving /\ Leave(c)
Fairness ==
    /\ WF_vars(Close) /\ WF_vars(Finish) /\ WF_vars(Resume)
    /\ \A c \in Client : WF_vars(Evict(c))

Spec == Init /\ [][Next]_vars
FairSpec == Spec /\ Fairness
=============================================================================
