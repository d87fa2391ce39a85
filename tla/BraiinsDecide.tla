---------------------------- MODULE BraiinsDecide ----------------------------
(***************************************************************************)
(* What a tick of the Braiins controller proposes and what its gate lets   *)
(* through, as functions of the observed state: controller/decide.ts,      *)
(* gate.ts and orderbook.ts.  Prices are in one unit (sat/EH/day) and      *)
(* speeds in another (PH/s).                                               *)
(***************************************************************************)
EXTENDS Integers, FiniteSets, SequencesExt, Ascending

CONSTANTS
    NotSet,             \* null: a price or a setting that is not there
    Overpay,            \* overpay_sat_per_eh_day
    MaxBid,             \* max_bid_sat_per_eh_day
    MaxOverHashprice,   \* max_overpay_vs_hashprice_sat_per_eh_day, or NotSet
    TickSize,           \* settings.tick_size_sat
    DeadbandPct,        \* bid_edit_deadband_pct
    MinSpeed,           \* settings.min_bid_speed_limit_ph
    TargetPh,           \* target_hashrate_ph
    CheapTargetPh,      \* cheap_target_hashrate_ph
    CheapPct,           \* cheap_threshold_pct
    Sustained           \* cheap_sustained_window_minutes > 0

ASSUME DecideAssumption ==
    /\ {Overpay, MaxBid, DeadbandPct, MinSpeed, TargetPh, CheapTargetPh, CheapPct}
           \subseteq Nat
    /\ TickSize \in Nat \ {0}
    /\ MaxOverHashprice \in Nat \cup {NotSet} /\ NotSet \notin Nat
    /\ Sustained \in BOOLEAN

-----------------------------------------------------------------------------
(* The order book. *)

unmatchedPh(ask) == Max({0, ask.available - ask.matched})

\* The walk up the asks: the first price at which the open supply covers the need, or
\* else the highest price with any.
cheapestAskForDepth(asks, needed) ==
    LET sorted == SortSeq(asks, LAMBDA a, b : a.price < b.price)
        Walk(acc, ask) ==
            IF unmatchedPh(ask) = 0 \/ (acc.price # NotSet /\ acc.sum >= needed) THEN acc
            ELSE [sum |-> acc.sum + unmatchedPh(ask), price |-> ask.price]
    IN  FoldLeft(Walk, [sum |-> 0, price |-> NotSet], sorted).price

-----------------------------------------------------------------------------
(* Price and speed.  hash is the hashprice or NotSet. *)

EffectiveCap(hash) ==
    IF MaxOverHashprice = NotSet THEN MaxBid ELSE Min({MaxBid, hash + MaxOverHashprice})

TargetPrice(fillable, hash) == Min({fillable + Overpay, EffectiveCap(hash)})

\* A price can be named: a dynamic cap needs the hashprice it is relative to.
Priceable(fillable, hash) ==
    fillable # NotSet /\ (MaxOverHashprice = NotSet \/ hash # NotSet)

\* engage: every tick of the sustained window was below the threshold.
CheapMode(fillable, hash, engage) ==
    /\ CheapPct > 0 /\ CheapTargetPh > TargetPh
    /\ IF Sustained THEN engage
       ELSE hash # NotSet /\ hash > 0 /\ 100 * (fillable + Overpay) < hash * CheapPct

SpeedLimit(fillable, hash, engage) ==
    Max({1, MinSpeed, IF CheapMode(fillable, hash, engage) THEN CheapTargetPh ELSE TargetPh})

\* What the market quotes a tick: the price and the speed our bid should have, if any.
Quote(fillable, hash, engage) ==
    [price |-> TargetPrice(fillable, hash), speed |-> SpeedLimit(fillable, hash, engage)]

Quotes(fillables, hashes) ==
    {Quote(q[1], q[2], q[3]) :
        q \in {p \in fillables \X hashes \X (IF Sustained THEN BOOLEAN ELSE {FALSE}) :
                  Priceable(p[1], p[2])}}

EditDeadband == Max({TickSize, (Overpay * DeadbandPct) \div 100})

-----------------------------------------------------------------------------
(* The proposals.  A view is what observe() assembled: are there strangers,   *)
(* the owned bids of the account (id -> status, price, speed), whether Datum was  *)
(* down three times in a row, the quote (NotSet without a pool URL, a market  *)
(* snapshot or a price), and whether there is money for a bid.                *)

Proposal(kind, bid, old, price, speed) ==
    [kind |-> kind, bid |-> bid, old |-> old, price |-> price, speed |-> speed]

Pause == Proposal("PAUSE", 0, 0, 0, 0)
Cancel(b) == Proposal("CANCEL_BID", b, 0, 0, 0)
Cancels(bids) ==
    LET ordered == InOrder(bids) IN [i \in DOMAIN ordered |-> Cancel(ordered[i])]

Abs(n) == IF n < 0 THEN -n ELSE n

\* Bids Braiins is not unwinding yet.
Actionable(owned) == {b \in DOMAIN owned : owned[b].status # "dying"}

EditJobs(b, bid, price, speed) ==
    (IF Abs(bid.price - price) >= EditDeadband
     THEN <<Proposal("EDIT_PRICE", b, bid.price, price, 0)>> ELSE <<>>)
    \o (IF bid.speed # speed THEN <<Proposal("EDIT_SPEED", b, 0, 0, speed)>> ELSE <<>>)

\* Mutant: a bid that is being unwound no longer gates the create.
Maintain_DyingForgotten(v) ==
    LET keep == Actionable(v.owned)
    IN  IF keep = {}
        THEN IF v.funded THEN <<Proposal("CREATE_BID", 0, 0, v.quote.price, v.quote.speed)>>
             ELSE <<>>
        ELSE Cancels(keep \ {Min(keep)})
                 \o EditJobs(Min(keep), v.owned[Min(keep)], v.quote.price, v.quote.speed)

\* With a price: create when the account holds none of our bids, or else keep the first
\* and cancel the rest.
Maintain(v) ==
    LET price == v.quote.price
        speed == v.quote.speed
        primary == Min(Actionable(v.owned))
    IN  IF DOMAIN v.owned = {}
        THEN IF v.funded THEN <<Proposal("CREATE_BID", 0, 0, price, speed)>> ELSE <<>>
        ELSE IF Actionable(v.owned) = {} THEN <<>>
        ELSE Cancels(Actionable(v.owned) \ {primary})
                 \o EditJobs(primary, v.owned[primary], price, speed)

\* Mutant: Datum is looked at before the strangers.
decide_DatumFirst(v) ==
    IF v.datumDown THEN Cancels(Actionable(v.owned))
    ELSE IF v.strangers THEN <<Pause>>
    ELSE IF v.quote # NotSet THEN Maintain(v)
    ELSE <<>>

decide(v) ==
    IF v.strangers THEN <<Pause>>
    ELSE IF v.datumDown THEN Cancels(Actionable(v.owned))
    ELSE IF v.quote # NotSet THEN Maintain(v)
    ELSE <<>>

-----------------------------------------------------------------------------
(* The gate.  feeOver: a live bid of ours charges more than                  *)
(* max_acceptable_fee_pct; cooling: bids lowered within the decrease period. *)

Lowers(p) == p.kind = "EDIT_PRICE" /\ p.price < p.old

\* Mutant: no cooldown.
Allowed_NoCooldown(p, mode, feeOver, cooling) ==
    p.kind = "PAUSE" \/ (mode = "LIVE" /\ (p.kind = "CANCEL_BID" \/ ~feeOver))

\* Mutant: the fee halt blocks cancels too.
Allowed_FeeBlocksCancel(p, mode, feeOver, cooling) ==
    \/ p.kind = "PAUSE"
    \/ mode = "LIVE" /\ ~feeOver /\ (Lowers(p) => p.bid \notin cooling)

Allowed(p, mode, feeOver, cooling) ==
    \/ p.kind = "PAUSE"
    \/ /\ mode = "LIVE"
       /\ p.kind = "CANCEL_BID" \/ ~feeOver
       /\ Lowers(p) => p.bid \notin cooling

\* The proposals that are allowed, in their order.
gate(proposals, mode, feeOver, cooling) ==
    LET kept == InOrder({i \in DOMAIN proposals :
                            Allowed(proposals[i], mode, feeOver, cooling)})
    IN  [k \in DOMAIN kept |-> proposals[kept[k]]]
=============================================================================
