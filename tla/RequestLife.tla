---------------------------- MODULE RequestLife ----------------------------
(***************************************************************************)
(* What the server promises of its requests, whatever the database does:   *)
(* each one it takes is over after a while, none is taken after the signal *)
(* to stop, and the process ends once the last one is over, not before.    *)
(***************************************************************************)
CONSTANT Requests

VARIABLES
    accepting, \* no signal to stop yet
    life,      \* request -> "none", "open" or "over"
    ended      \* the process has returned

vars == <<accepting, life, ended>>

Init ==
    /\ accepting = TRUE
    /\ life = [r \in Requests |-> "none"]
    /\ ended = FALSE

Take(r) ==
    /\ accepting
    /\ life[r] = "none"
    /\ life' = [life EXCEPT ![r] = "open"]
    /\ UNCHANGED <<accepting, ended>>

Over(r) ==
    /\ life[r] = "open"
    /\ life' = [life EXCEPT ![r] = "over"]
    /\ UNCHANGED <<accepting, ended>>

Stop ==
    /\ accepting
    /\ accepting' = FALSE
    /\ UNCHANGED <<life, ended>>

End ==
    /\ ~ accepting
    /\ ~ ended
    /\ \A r \in Requests : life[r] # "open"
    /\ ended' = TRUE
    /\ UNCHANGED <<accepting, life>>

Next == Stop \/ End \/ \E r \in Requests : Take(r) \/ Over(r)

Spec == Init /\ [][Next]_vars
FairSpec == Spec /\ WF_vars(End) /\ \A r \in Requests : WF_vars(Over(r))
=============================================================================
