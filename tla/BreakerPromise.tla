--------------------------- MODULE BreakerPromise ---------------------------
(***************************************************************************)
(* What a circuit breaker promises its callers: once it has opened it gets *)
(* half open before it closes, and from its opening until its timeout no   *)
(* call begins.  A half-open breaker may also open again.                  *)
(***************************************************************************)
CONSTANT Calls

VARIABLES
    phase,    \* "closed", "open" or "half_open"
    waiting,  \* the timeout of the last opening has not passed
    active    \* calls under way

vars == <<phase, waiting, active>>

Init ==
    /\ phase = "closed"
    /\ waiting = FALSE
    /\ active = {}

Opens ==
    /\ phase # "open"
    /\ phase' = "open"
    /\ waiting' = TRUE
    /\ active' \subseteq active

TimeoutPasses ==
    /\ phase = "open"
    /\ waiting' = FALSE
    /\ UNCHANGED <<phase, active>>

(* The first call after the timeout is the one that finds out. *)
Probe ==
    /\ phase = "open"
    /\ ~waiting
    /\ phase' = "half_open"
    /\ \E c \in Calls \ active : active' = active \cup {c}
    /\ UNCHANGED waiting

Closes ==
    /\ phase = "half_open"
    /\ phase' = "closed"
    /\ active' \subseteq active
    /\ UNCHANGED waiting

Begins ==
    /\ phase # "open"
    /\ \E c \in Calls \ active : active' = active \cup {c}
    /\ UNCHANGED <<phase, waiting>>

Ends ==
    /\ active' \subseteq active
    /\ UNCHANGED <<phase, waiting>>

Next == Opens \/ TimeoutPasses \/ Probe \/ Closes \/ Begins \/ Ends

Spec == Init /\ [][Next]_vars
=============================================================================
