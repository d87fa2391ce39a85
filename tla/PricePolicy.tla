----------------------------- MODULE PricePolicy -----------------------------
(***************************************************************************)
(* The pure pricing rules of the NiceHash controller: the effective price  *)
(* ceiling, one update of the escalation ladder, and the price the decision*)
(* layer asks for.  Prices are integers in an arbitrary sub-unit of the    *)
(* BTC/unit/day price; Grid of them make one 0.0001 step of the order book.*)
(* The epsilons of the source only absorb binary rounding and have no      *)
(* counterpart here, where arithmetic is exact.                            *)
(*                                                                         *)
(* A stamp of the source (epoch ms) is represented by the time REMAINING   *)
(* until the instant it stands for, or by its AGE; both saturate at the    *)
(* largest value any comparison in the source can tell apart.              *)
(***************************************************************************)
EXTENDS Integers

CONSTANTS
    Grid,         \* sub-units in one 0.0001 step of the book
    WalkUp,       \* walk_up_enabled
    EscStep,      \* escalation_step_btc, at least one grid step
    DownStep,     \* price_down_step_btc: NiceHash's limit on one decrease
    Interval,     \* escalation_interval_seconds
    Cooldown,     \* priceDecreaseCooldownMs: 10 minutes after any price change
    Overpay,      \* overpay_btc_per_unit_day
    FixedCap,     \* max_price_btc_per_unit_day
    Premium,      \* max_overpay_vs_hashprice_btc_per_unit_day, or NotSet
    DynamicCapOn, \* dynamic_cap_enabled
    FeePct,       \* nicehash_fee_pct + pool_fee_pct
    Buffer        \* dynamic_cap_buffer_btc

\* The null of an optional setting, of an unknown hashprice and of a map entry
\* that is absent.
NotSet == -1

ASSUME PolicyAssumption ==
    /\ Grid \in Nat \ {0}
    /\ WalkUp \in BOOLEAN
    /\ EscStep \in Nat /\ EscStep >= Grid
    /\ DownStep \in Nat \ {0}
    /\ Interval \in Nat \ {0}
    /\ Cooldown \in Nat \ {0}
    /\ Overpay \in Nat
    /\ FixedCap \in Nat
    /\ Premium \in Nat \cup {NotSet}
    /\ DynamicCapOn \in BOOLEAN
    /\ FeePct \in Nat
    /\ Buffer \in Nat

\* A price the order book can hold.
OnGrid(p) == p % Grid = 0

Lesser(a, b) == IF a <= b THEN a ELSE b
Greater(a, b) == IF a >= b THEN a ELSE b

-----------------------------------------------------------------------------
(* The price ceiling. *)

\* execute.ts floors every submitted price to the 4-decimal grid, so that a bid
\* clamped to its ceiling never creeps above it.
decPrice(p) == (p \div Grid) * Grid

\* hashprice / (1 + fees) - buffer, rounded UP to the grid.
dynamicCapPrice(hashprice) ==
    LET netOfFees == hashprice * 100 - Buffer * (100 + FeePct)
    IN  -((-netOfFees) \div ((100 + FeePct) * Grid)) * Grid

effectiveCapBtc(hashprice) ==
    LET premiumCap == IF Premium # NotSet /\ hashprice # NotSet
                        THEN Lesser(FixedCap, hashprice + Premium)
                        ELSE FixedCap
    IN  IF DynamicCapOn /\ hashprice # NotSet
          THEN Lesser(premiumCap, dynamicCapPrice(hashprice))
          ELSE premiumCap

\* A premium cap with no hashprice blocks pricing instead of falling back.
CanPrice(hashprice) == Premium = NotSet \/ hashprice # NotSet

-----------------------------------------------------------------------------
(* The escalation ladder: an offset above the floor, and the age of its last *)
(* move.  The source keeps no entry at all for an offset of 0.               *)

DecayInterval == Greater(Interval, Cooldown)
DecayStep == Greater(EscStep, DownStep)

NoLadder == [offset |-> 0, age |-> 0]

\* Mutant: every tick stamps the ladder, so its interval never elapses.
Climb_Restamps(prev, room) ==
    [offset |-> IF prev.offset = 0 THEN Lesser(EscStep, room)
                ELSE IF prev.age >= Interval THEN prev.offset + EscStep
                ELSE prev.offset,
     age |-> 0]

\* The first rung is bounded by the room under the ceiling, the later ones come
\* once per interval.
Climb(prev, room) ==
    IF prev.offset = 0 THEN [offset |-> Lesser(EscStep, room), age |-> 0]
    ELSE IF prev.age >= Interval THEN [offset |-> prev.offset + EscStep, age |-> 0]
    ELSE prev

\* Mutant: no decay.
Decay_Never(prev) == prev

Decay(prev) ==
    IF prev.offset > DecayStep THEN [offset |-> prev.offset - DecayStep, age |-> 0]
                               ELSE NoLadder

nextEscalation(prev, underFilled, gracePassed, room) ==
    IF ~WalkUp THEN NoLadder
    ELSE IF underFilled /\ prev.offset < room
      THEN IF gracePassed THEN Climb(prev, room) ELSE prev
    ELSE IF ~underFilled /\ prev.offset > 0 /\ prev.age >= DecayInterval
      THEN Decay(prev)
    ELSE prev

-----------------------------------------------------------------------------
(* The price decide() asks for; the current price means "no edit". *)

\* Mutant: the ceiling is left out.
TrackTarget_Uncapped(floor, cap, offset) == floor + (IF WalkUp THEN offset ELSE 0)

\* Mutant: the ladder is left out.
TrackTarget_FloorOnly(floor, cap, offset) == Lesser(floor, cap)

\* The floor plus the part of the offset that fits under the ceiling.
TrackTarget(floor, cap, offset) ==
    LET usable == IF WalkUp THEN Lesser(offset, Greater(0, cap - floor)) ELSE 0
    IN  Lesser(floor + usable, cap)

walkDownTo(cur, target) == Greater(target, cur - DownStep)

walkUpTo(cur, target, cap) ==
    IF WalkUp THEN Lesser(target, cur + EscStep) ELSE Lesser(cap, target)

\* Mutant: raises are not rate-limited.
MayRaise_Unpaced(underFilled, gracePassed, raisePaced) ==
    WalkUp => underFilled /\ gracePassed

\* wantWalkUp, and the raise pacing.
MayRaise(underFilled, gracePassed, raisePaced) ==
    WalkUp => underFilled /\ gracePassed /\ ~raisePaced

\* Mutant: the bid moves only while the order is under-filled.
EditTarget_OnlyWhenStarved(cur, floor, cap, offset, underFilled, gracePassed, raisePaced) ==
    LET target == TrackTarget(floor, cap, offset)
    IN  IF ~underFilled THEN cur
        ELSE IF cur - target >= Grid \/ cur > cap THEN walkDownTo(cur, target)
        ELSE IF target - cur >= Grid /\ MayRaise(underFilled, gracePassed, raisePaced)
          THEN walkUpTo(cur, target, cap)
        ELSE cur

EditTarget(cur, floor, cap, offset, underFilled, gracePassed, raisePaced) ==
    LET target == TrackTarget(floor, cap, offset)
    IN  IF cur - target >= Grid \/ cur > cap THEN walkDownTo(cur, target)
        ELSE IF target - cur >= Grid /\ MayRaise(underFilled, gracePassed, raisePaced)
          THEN walkUpTo(cur, target, cap)
        ELSE cur

=============================================================================
