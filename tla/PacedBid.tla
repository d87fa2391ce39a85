------------------------------ MODULE PacedBid ------------------------------
(***************************************************************************)
(* What the controller promises an observer of the order's price on the    *)
(* exchange, with walk-up on: the price rises by at most one escalation    *)
(* step, and by at most one raise per escalation interval (less the time a *)
(* tick itself may take); it falls by at most the exchange's decrease      *)
(* limit.  Only an upset may forgive the wait: a restart, the answer to an *)
(* edit that was lost, or somebody else editing the order.                 *)
(***************************************************************************)
EXTENDS Integers

CONSTANTS
    MaxRaise,   \* the most one raise may add
    MaxDrop,    \* the most one decrease may take off
    Period,     \* time between two raises
    Slack,      \* time between the start of a tick and its edit
    Upsets      \* upsets the environment may cause

VARIABLES
    price,
    wait,       \* time until the next raise
    stale,      \* an edit chosen for a price that has changed since is on its way
    upsets      \* upsets left

vars == <<price, wait, stale, upsets>>

Init ==
    /\ price \in Int
    /\ wait = 0 /\ stale = FALSE /\ upsets = Upsets

UseUpset == upsets > 0 /\ upsets' = upsets - 1

Raise ==
    /\ ~stale /\ wait = 0
    /\ price < price' /\ price' <= price + MaxRaise
    /\ \/ wait' >= Period - Slack /\ wait' <= Period /\ UNCHANGED upsets
       \/ wait' = 0 /\ UseUpset
    /\ UNCHANGED stale

Lower ==
    /\ ~stale
    /\ price - MaxDrop <= price' /\ price' < price
    /\ \/ UNCHANGED upsets
       \/ UseUpset
    /\ UNCHANGED <<wait, stale>>

\* The stale edit lands, or is refused.
Overwrite ==
    /\ stale /\ stale' = FALSE
    /\ wait' <= Period /\ wait' >= 0
    /\ upsets' <= upsets

Pass ==
    /\ wait > 0 /\ wait' = wait - 1
    /\ UNCHANGED <<price, stale, upsets>>

\* Somebody else edits the order.
Intrude ==
    /\ UseUpset
    /\ stale' \in BOOLEAN
    /\ UNCHANGED wait

Forget ==
    /\ UseUpset
    /\ wait' = 0 /\ stale' = FALSE
    /\ UNCHANGED price

\* An upset that does not concern the price.
Spend == UseUpset /\ UNCHANGED <<price, wait, stale>>

Next == Raise \/ Lower \/ Overwrite \/ Pass \/ Intrude \/ Forget \/ Spend

Spec == Init /\ [][Next]_vars
=============================================================================
