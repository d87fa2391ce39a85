----------------------------- MODULE SingleEffect -----------------------------
(***************************************************************************)
(* What a caller may rely on when it asks the exchange to create, change   *)
(* or refill an order: the order is touched once at most; "done" means it  *)
(* was, "refused" that it was not and will not be.  After an unknown       *)
(* outcome it may still come to it, when nobody waits any more.            *)
(***************************************************************************)
EXTENDS Naturals

VARIABLES
    effect,     \* how often the exchange has carried the call out
    outcome     \* what the caller knows

vars == <<effect, outcome>>

Init == effect = 0 /\ outcome = "pending"

TakeEffect ==
    /\ effect = 0 /\ outcome \in {"pending", "unknown"}
    /\ effect' = 1
    /\ UNCHANGED outcome

End ==
    /\ outcome = "pending"
    /\ \/ outcome' = "done" /\ effect = 1
       \/ outcome' = "refused" /\ effect = 0
       \/ outcome' = "unknown"
    /\ UNCHANGED effect

Spec == Init /\ [][TakeEffect \/ End]_vars
=============================================================================
