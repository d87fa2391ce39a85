----------------------------- MODULE StillMarket -----------------------------
(***************************************************************************)
(* BidControl in a market that holds still: one floor, one ceiling, and a  *)
(* clearing price from which the order is filled.  What the bid converges  *)
(* to is only defined in such a market; the upsets still come at any time. *)
(* Walk-up is on or off for a whole behaviour: it enters the tick through  *)
(* decide() alone, so a second instance of BidControl without it gives the *)
(* observations of a daemon that only follows the floor.                   *)
(***************************************************************************)
EXTENDS BidControl

CONSTANTS
    ClearingPrices,  \* where the market may clear, under or over the ceiling
    FirstPrices      \* the prices the order may start at

VARIABLES
    clearing,
    walkUp           \* walk_up_enabled

ASSUME StillAssumption == WalkUp

Following == INSTANCE BidControl WITH WalkUp <- FALSE

stillVars == <<vars, clearing, walkUp>>

Cap == CHOOSE c \in {effectiveCapBtc(h) : h \in Hashprices} : TRUE
Floor == CHOOSE f \in {a + Overpay : a \in Anchors} : TRUE

Filled == price >= clearing

StillPriced ==
    \E a \in Anchors, h \in Hashprices :
        \/ walkUp /\ ObservePriced(a, h, Filled)
        \/ ~walkUp /\ Following!ObservePriced(a, h, Filled)

\* A failed book read under-reports our own fill.
StillObserve ==
    \/ ObserveBlind
    \/ \E filled \in {Filled, FALSE} : ObserveUnpriced(filled)
    \/ StillPriced

StillInit ==
    Init /\ price \in FirstPrices /\ clearing \in ClearingPrices /\ walkUp \in BOOLEAN

StillNext ==
    /\ \/ StartTick \/ StillObserve \/ Send \/ Persist \/ Elapse
       \/ \E m \in Modes : SetMode(m)
       \/ \E p \in StartPrices : ManualEdit(p)
       \/ Restart
    /\ UNCHANGED <<clearing, walkUp>>

\* The loop of main-nicehash.ts ticks for ever, time passes, and each call it
\* awaits returns.  Reads and edits may fail any number of times, but not always.
Fairness ==
    /\ WF_vars(StartTick) /\ WF_vars(StillObserve) /\ WF_vars(Send)
    /\ WF_vars(Persist) /\ WF_vars(Elapse)
    /\ SF_vars(StillPriced) /\ SF_vars(SendApplied)

StillSpec == StillInit /\ [][StillNext]_stillVars /\ Fairness

-----------------------------------------------------------------------------
(* Properties.  The run mode is the operator's: they are about a daemon that *)
(* is left in LIVE.                                                          *)

LiveForGood == <>[](mode = "LIVE")

Affordable == clearing <= decPrice(Cap)

\* With walk-up on, when the market clears at or under the ceiling, the ladder keeps
\* reaching the clearing price: the order never starves for good.
KeepsReachingClearing == LiveForGood /\ walkUp /\ Affordable => []<>Filled

\* And when it clears above the floor the bid never parks at a price that fills:
\* it keeps probing for a cheaper one.
KeepsProbingDown == LiveForGood /\ walkUp /\ Affordable /\ clearing > Floor => []<>~Filled

\* A bid above the ceiling is brought back under it (decide.ts: a bid above the
\* effective cap "is never acceptable"), and when nothing at or under the ceiling fills
\* the order, the bid ends up at the ceiling and stays there.
ClimbsToCap ==
    LiveForGood => /\ price > Cap ~> price <= Cap
                   /\ walkUp /\ ~Affordable => <>[](price = decPrice(Cap))

\* With walk-up off the bid settles within a grid step of the floor, or of the ceiling
\* below it, after any upsets: of an off-grid floor the neighbour it comes to first.
SettlesOnFloor ==
    LET target == Lesser(Floor, Cap)
    IN  LiveForGood /\ ~walkUp => <>[](price - target < Grid /\ target - price < Grid)
=============================================================================
