----------------------------- MODULE BidControl -----------------------------
(***************************************************************************)
(* The NiceHash controller pricing ONE managed order: the tick pipeline    *)
(* (observe, decide, gate, execute, persist) against the exchange's own    *)
(* order rules, with time passing, the operator, other users of the        *)
(* account, API failures and restarts interleaved between its steps.       *)
(*                                                                         *)
(* A tick is cut where the code awaits something another actor can race:   *)
(* StartTick captures the run mode, an Observe action is the (atomic)      *)
(* reading of the exchange together with the synchronous decide and gate,  *)
(* an exchange action handles the edit, a Persist action handles its       *)
(* answer.  Which floor the book gives, and how many orders are ours, is   *)
(* the business of FloorAnchor and OrderLifecycle.                         *)
(***************************************************************************)
EXTENDS PricePolicy

CONSTANTS
    Grace,          \* walk_up_grace_seconds
    SettleTime,     \* the exchange's change-settle window (error 5110)
    SettleFallback, \* the wait assumed when a 5110 answer has no countdown
    MaxLatency,     \* bound: time a tick may take once it has started
    MaxUpsets,      \* bound: restarts, manual edits, lost answers, mode switches
    StartPrices,    \* prices the order may have, initially and by manual edits
    Anchors,        \* floor anchors the book may give
    Hashprices,     \* hashprices the oracle may give, NotSet among them or not
    Reads,          \* read outcomes that occur: "full", "nomarket", "blind"
    Modes,          \* run modes that occur; all but LIVE are gated alike
    AdoptedStart    \* whether the order may be absent from our ledger

ASSUME ControlAssumption ==
    /\ Grace \in Nat
    /\ SettleTime \in Nat /\ SettleFallback \in Nat
    /\ MaxLatency \in Nat /\ MaxUpsets \in Nat
    /\ StartPrices \subseteq {p \in Int : OnGrid(p)}
    /\ Anchors \subseteq Nat
    /\ Hashprices \subseteq Nat \cup {NotSet}
    /\ Reads \subseteq {"full", "nomarket", "blind"}
    /\ Modes \subseteq {"LIVE", "DRY_RUN", "PAUSED"}
    /\ AdoptedStart \in BOOLEAN

VARIABLES
    \* The exchange.
    price,      \* the order's price
    exWait,     \* time until it accepts a price decrease
    exSettle,   \* time until it accepts any edit
    \* The controller's per-order maps; a restart loses them.
    graceWait,  \* underFilledSince: grace left, NotSet = no entry
    ladder,     \* escalationByOrder
    decWait,    \* decreaseAvailableAt: time left, NotSet = no entry
    editWait,   \* editAvailableAt: time left
    raiseWait,  \* lastRaiseAt: time left of the raise interval
    \* The ledger row.
    inLedger,   \* FALSE for an order adopted by its pool worker
    stampWait,  \* last_price_change_at + cooldown: time left, NotSet = null
    \* The operator's switch and the tick in progress.
    mode, pc, startAge, tickLive, job, reply,
    \* Bookkeeping of the model.
    upsets,     \* upsets the environment may still cause
    probeDue,   \* something happened since our clock last matched the exchange's
    recorded,   \* the last price change is in the ledger
    fedAge      \* time since the order was last seen filled

exchange == <<price, exWait, exSettle>>
memory == <<graceWait, ladder, decWait, editWait, raiseWait>>
ledger == <<inLedger, stampWait>>
tick == <<pc, startAge, tickLive, job, reply>>
history == <<upsets, probeDue, recorded, fedAge>>
vars == <<exchange, memory, ledger, mode, tick, history>>

NoJob == [from |-> 0, to |-> 0, cap |-> 0]
NoReply == [kind |-> "none", secs |-> NotSet]

ExchangeType ==
    /\ price \in Int /\ OnGrid(price)
    /\ exWait \in 0..Cooldown
    /\ exSettle \in 0..SettleTime

MemoryType ==
    /\ graceWait \in 0..Grace \cup {NotSet}
    /\ ladder \in [offset : Nat, age : 0..DecayInterval]
    /\ decWait \in 0..Cooldown \cup {NotSet}
    /\ editWait \in Nat
    /\ raiseWait \in 0..Interval

LedgerType == stampWait \in 0..Cooldown \cup {NotSet}

TickType ==
    /\ mode \in Modes
    /\ pc \in {"idle", "observe", "send", "persist"}
    /\ startAge \in 0..MaxLatency

JobType ==
    /\ job \in [from : Int, to : Int, cap : Int]
    /\ reply \in [kind : {"none", "ok", "error", "5061", "5110"},
                  secs : Nat \cup {NotSet}]
    /\ reply.kind = "5061" => reply.secs <= Cooldown

HistoryType ==
    /\ upsets \in 0..MaxUpsets
    /\ fedAge \in 0..Grace

FlagType ==
    /\ inLedger \in BOOLEAN /\ tickLive \in BOOLEAN
    /\ probeDue \in BOOLEAN /\ recorded \in BOOLEAN

TypeOK == ExchangeType /\ MemoryType /\ LedgerType /\ TickType /\ JobType
          /\ HistoryType /\ FlagType

Init ==
    /\ price \in StartPrices
    /\ exWait \in 0..Cooldown /\ exSettle = 0
    /\ graceWait = NotSet /\ ladder = NoLadder
    /\ decWait = NotSet /\ editWait = 0 /\ raiseWait = 0
    /\ inLedger \in {TRUE, ~AdoptedStart} /\ stampWait = NotSet
    /\ mode \in Modes
    /\ pc = "idle" /\ startAge = 0 /\ tickLive = FALSE
    /\ job = NoJob /\ reply = NoReply
    /\ upsets = MaxUpsets /\ probeDue = TRUE /\ recorded = FALSE
    /\ fedAge = 0

-----------------------------------------------------------------------------
(* The tick. *)

\* No edit is on its way once the tick is over.
EndTick ==
    /\ pc' = "idle" /\ startAge' = 0 /\ tickLive' = FALSE
    /\ job' = NoJob /\ reply' = NoReply

\* NiceHashController.tick reads the ledger and the run mode, and stamps the
\* instant every raise of this tick will be paced from.
StartTick ==
    /\ pc = "idle"
    /\ pc' = "observe" /\ startAge' = 0 /\ tickLive' = (mode = "LIVE")
    /\ UNCHANGED <<exchange, memory, ledger, mode, job, reply, history>>

\* Mutant: a filled reading does not clear the clock.
GraceAfter_KeepsRunning(filled) ==
    IF graceWait = NotSet /\ ~filled THEN Grace ELSE graceWait

\* The grace clock after an observation: cleared by a filled reading, started
\* by the first under-filled one.
GraceAfter(filled) ==
    IF filled THEN NotSet
    ELSE IF graceWait = NotSet THEN Grace ELSE graceWait

GracePassed(wait) == Grace = 0 \/ wait = 0

\* types.ts effectiveDecreaseAvailableAt: the in-memory clock when there is one,
\* else the ledger's stamp, else no throttle.
EffectiveDecreaseWait ==
    IF decWait # NotSet THEN decWait
    ELSE IF stampWait # NotSet THEN stampWait ELSE 0

\* gate(): a run mode that may not mutate, the decrease clock, the settle clock.
Allowed(from, to) ==
    /\ tickLive
    /\ to < from => EffectiveDecreaseWait = 0
    /\ editWait = 0

\* The orders read failed: no market, no proposal, and every map keeps its
\* entries.
ObserveBlind ==
    /\ pc = "observe" /\ "blind" \in Reads
    /\ EndTick
    /\ UNCHANGED <<exchange, memory, ledger, mode, history>>

\* Orders known but nothing to price from: the book read failed (our own fill is
\* then under-reported) or is empty, or the premium cap lacks a hashprice.  The
\* grace clock advances, the ladder is frozen.
ObserveUnpriced(filled) ==
    /\ pc = "observe" /\ "nomarket" \in Reads
    /\ graceWait' = GraceAfter(filled)
    /\ fedAge' = IF filled THEN 0 ELSE fedAge
    /\ EndTick
    /\ UNCHANGED <<exchange, ladder, decWait, editWait, raiseWait, ledger, mode,
                   upsets, probeDue, recorded>>

\* A full observation, followed without an await by decide() and gate().
ObservePriced(anchor, hashprice, filled) ==
    LET floor == anchor + Overpay
        cap == effectiveCapBtc(hashprice)
        wait == GraceAfter(filled)
        rung == nextEscalation(ladder, ~filled, GracePassed(wait),
                               Greater(0, cap - floor))
        to == EditTarget(price, floor, cap, rung.offset, ~filled,
                         GracePassed(wait), raiseWait > 0)
    IN  /\ pc = "observe" /\ "full" \in Reads /\ CanPrice(hashprice)
        /\ graceWait' = wait
        /\ ladder' = rung
        /\ fedAge' = IF filled THEN 0 ELSE fedAge
        /\ IF to # price /\ Allowed(price, to)
             THEN /\ job' = [from |-> price, to |-> to, cap |-> cap]
                  /\ pc' = "send"
                  /\ UNCHANGED <<startAge, tickLive, reply>>
             ELSE EndTick
        /\ UNCHANGED <<exchange, decWait, editWait, raiseWait, ledger, mode,
                       upsets, probeDue, recorded>>

-----------------------------------------------------------------------------
(* The exchange handling updatePriceAndLimit. *)

IsRaise == job.to > job.from
IsDecrease == job.to < job.from

Answer(kind, secs) ==
    /\ pc' = "persist"
    /\ reply' = [kind |-> kind, secs |-> secs]
    /\ UNCHANGED <<memory, ledger, mode, startAge, tickLive, job, fedAge>>

\* The exchange lets a price rise at any time, and fall only when its cooldown
\* is over; no edit while the previous one settles.
ExchangeAccepts ==
    /\ decPrice(job.to) < price => exWait = 0
    /\ exSettle = 0

ApplyEdit ==
    /\ price' = decPrice(job.to)
    /\ exWait' = Cooldown
    /\ exSettle' = SettleTime

SendApplied ==
    /\ pc = "send" /\ ExchangeAccepts
    /\ ApplyEdit
    /\ recorded' = FALSE
    /\ Answer("ok", NotSet)
    /\ UNCHANGED <<upsets, probeDue>>

\* Applied, but the answer never arrived: 5xx and network errors of a mutation
\* are not retried, they surface as FAILED.
SendAppliedUnanswered ==
    /\ pc = "send" /\ ExchangeAccepts
    /\ upsets > 0 /\ upsets' = upsets - 1
    /\ ApplyEdit
    /\ recorded' = FALSE
    /\ probeDue' = TRUE
    /\ Answer("error", NotSet)

\* 5061 with its countdown; a countdown that cannot be parsed reads as NotSet.
SendTooSoonToDecrease ==
    /\ pc = "send" /\ decPrice(job.to) < price /\ exWait > 0
    /\ \E secs \in {exWait, NotSet} : Answer("5061", secs)
    /\ probeDue' = (probeDue /\ ~IsDecrease)
    /\ UNCHANGED <<exchange, upsets, recorded>>

SendTooSoonToEdit ==
    /\ pc = "send" /\ exSettle > 0
    /\ \E secs \in {exSettle, NotSet} : Answer("5110", secs)
    /\ UNCHANGED <<exchange, upsets, probeDue, recorded>>

\* Any other failure: the exchange never saw the edit.
SendFailed ==
    /\ pc = "send"
    /\ Answer("error", NotSet)
    /\ UNCHANGED <<exchange, upsets, probeDue, recorded>>

-----------------------------------------------------------------------------
(* NiceHashController.persist. *)

Wait(secs, fallback) == IF secs # NotSet THEN secs ELSE fallback

\* Mutant: the answer 5061 does not correct the decrease clock.
PersistFailed_NoResync ==
    /\ pc = "persist" /\ reply.kind \in {"error", "5061", "5110"}
    /\ editWait' = IF reply.kind = "5110"
                     THEN Wait(reply.secs, SettleFallback) ELSE editWait
    /\ EndTick
    /\ UNCHANGED <<exchange, graceWait, ladder, decWait, raiseWait, ledger, mode,
                   history>>

PersistFailed ==
    /\ pc = "persist" /\ reply.kind \in {"error", "5061", "5110"}
    /\ decWait' = IF reply.kind = "5061" /\ IsDecrease
                    THEN Wait(reply.secs, Cooldown) ELSE decWait
    /\ editWait' = IF reply.kind = "5110"
                     THEN Wait(reply.secs, SettleFallback) ELSE editWait
    /\ EndTick
    /\ UNCHANGED <<exchange, graceWait, ladder, raiseWait, ledger, mode, history>>

\* The part of an executed edit's bookkeeping that precedes the ledger write.
ArmClocks ==
    /\ pc = "persist" /\ reply.kind = "ok"
    /\ decWait' = Cooldown
    /\ raiseWait' = IF IsRaise THEN Greater(0, Interval - startAge) ELSE raiseWait
    /\ probeDue' = FALSE
    /\ EndTick

\* Mutant: only a decrease is stamped in the ledger.
PersistExecuted_StampsDecreases ==
    /\ ArmClocks
    /\ stampWait' = IF inLedger /\ IsDecrease THEN Cooldown ELSE stampWait
    /\ recorded' = inLedger
    /\ graceWait' = IF IsRaise /\ ladder.offset = 0 THEN Grace ELSE graceWait
    /\ UNCHANGED <<exchange, ladder, editWait, inLedger, mode, upsets, fedAge>>

\* The ledger UPDATE matches no row for an adopted order.  A raise that is not
\* the ladder's restarts the grace.
PersistExecuted ==
    /\ ArmClocks
    /\ stampWait' = IF inLedger THEN Cooldown ELSE stampWait
    /\ recorded' = inLedger
    /\ graceWait' = IF IsRaise /\ ladder.offset = 0 THEN Grace ELSE graceWait
    /\ UNCHANGED <<exchange, ladder, editWait, inLedger, mode, upsets, fedAge>>

\* The ledger write throws: the tick aborts with only the maps updated.
PersistWriteFails ==
    /\ ArmClocks
    /\ UNCHANGED <<exchange, graceWait, ladder, editWait, ledger, mode,
                   upsets, recorded, fedAge>>

-----------------------------------------------------------------------------
(* The world around the tick. *)

Shorter(wait) == IF wait > 0 THEN wait - 1 ELSE wait

\* One unit of time passes.
Elapse ==
    /\ pc # "idle" => startAge < MaxLatency
    /\ startAge' = IF pc = "idle" THEN 0 ELSE startAge + 1
    /\ exWait' = Shorter(exWait) /\ exSettle' = Shorter(exSettle)
    /\ graceWait' = Shorter(graceWait)
    /\ ladder' = IF ladder.offset = 0 THEN ladder
                 ELSE [ladder EXCEPT !.age = Lesser(@ + 1, DecayInterval)]
    /\ decWait' = Shorter(decWait) /\ editWait' = Shorter(editWait)
    /\ raiseWait' = Shorter(raiseWait) /\ stampWait' = Shorter(stampWait)
    /\ fedAge' = Lesser(fedAge + 1, Grace)
    /\ UNCHANGED <<price, inLedger, mode, pc, tickLive, job, reply,
                   upsets, probeDue, recorded>>

Upset == upsets > 0 /\ upsets' = upsets - 1

\* The operator switches the run mode; a tick in progress keeps the old one.
SetMode(m) ==
    /\ Upset /\ m # mode /\ mode' = m
    /\ UNCHANGED <<exchange, memory, ledger, tick, probeDue, recorded, fedAge>>

\* The operator edits the order on the exchange's own site.
ManualEdit(p) ==
    /\ Upset /\ p # price /\ exSettle = 0 /\ (p < price => exWait = 0)
    /\ price' = p /\ exWait' = Cooldown /\ exSettle' = SettleTime
    /\ probeDue' = TRUE /\ recorded' = FALSE
    /\ UNCHANGED <<memory, ledger, mode, tick, fedAge>>

\* The process dies anywhere and comes back with empty maps, in any run mode
\* its boot resolution can give.  Only a change the ledger has not seen can
\* make its decrease clock wrong.
Restart ==
    /\ Upset
    /\ graceWait' = NotSet /\ ladder' = NoLadder
    /\ decWait' = NotSet /\ editWait' = 0 /\ raiseWait' = 0
    /\ mode' \in Modes
    /\ EndTick
    /\ probeDue' = (probeDue \/ ~recorded)
    /\ UNCHANGED <<exchange, ledger, recorded, fedAge>>

\* The order may read as filled or not at any price.
PricedObservation ==
    \E filled \in BOOLEAN, a \in Anchors, h \in Hashprices :
        ObservePriced(a, h, filled)

Observe ==
    \/ ObserveBlind
    \/ \E filled \in BOOLEAN : ObserveUnpriced(filled)
    \/ PricedObservation

Send == \/ SendApplied \/ SendAppliedUnanswered
        \/ SendTooSoonToDecrease \/ SendTooSoonToEdit \/ SendFailed

Persist == PersistFailed \/ PersistExecuted \/ PersistWriteFails

Next ==
    \/ StartTick
    \/ Observe
    \/ Send
    \/ Persist
    \/ Elapse
    \/ \E m \in Modes : SetMode(m)
    \/ \E p \in StartPrices : ManualEdit(p)
    \/ Restart

Spec == Init /\ [][Next]_vars

-----------------------------------------------------------------------------
(* Safety. *)

\* A raise never asks for more than its tick's ceiling, and an edit that leaves
\* the bid above the ceiling lowers it by the full decrease NiceHash allows
\* (decide.ts: "paying above the ceiling is never acceptable").
CeilingRespected ==
    pc \in {"send", "persist"} =>
        \/ decPrice(job.to) <= job.cap
        \/ job.to = job.from - DownStep

\* What reaches the exchange always moves the price, by at most one escalation
\* step up (walk-up on) and at most the exchange's decrease limit down, also
\* after execute() floors it to the grid.
EditsMoveWithinSteps ==
    pc = "send" =>
        /\ decPrice(job.to) # job.from
        /\ WalkUp => decPrice(job.to) <= job.from + EscStep
        /\ DownStep % Grid = 0 => decPrice(job.to) >= job.from - DownStep

\* With walk-up on, a raise is only ever asked for when the order has not been
\* seen filled for the whole grace period, across restarts, blind ticks and
\* ticks without a market (decide.ts: "ALL raises wait for under-fill + grace").
RaiseOnlyWhenStarved ==
    WalkUp /\ pc = "send" /\ IsRaise => fedAge >= Grace

\* The decrease clock the next tick will gate with is never ahead of the
\* exchange's, once the clock has been synchronised and until a lost answer, a
\* manual edit or an unrecorded restart; and a change the ledger recorded
\* survives any restart.
ClockCovers ==
    /\ ~probeDue /\ pc # "persist" => EffectiveDecreaseWait >= exWait
    /\ recorded => stampWait >= exWait

\* controller.ts: a disagreement with the exchange about the decrease cooldown
\* "costs at most one probe": a second 5061 needs a new cause.
OneProbePerDisagreement ==
    [][SendTooSoonToDecrease /\ IsDecrease => probeDue]_vars

-----------------------------------------------------------------------------
(* The controller implements PacedBid (walk-up on, the decrease limit a      *)
(* multiple of the grid).                                                    *)

\* The raise clock as the exchange's customer knows it: armed when the raise
\* is applied, although the daemon stamps it one step later.
RaiseClock ==
    IF pc = "persist" /\ reply.kind = "ok" /\ IsRaise
      THEN Greater(0, Interval - startAge) ELSE raiseWait

Paced == INSTANCE PacedBid WITH
    MaxRaise <- EscStep, MaxDrop <- DownStep, Period <- Interval,
    Slack <- MaxLatency, Upsets <- MaxUpsets,
    wait <- RaiseClock, stale <- (pc = "send" /\ price # job.from)

\* decide.ts: with walk-up on every raise "is (a) SLEW-LIMITED to one escalation
\* step per edit and (b) RATE-LIMITED to one edit per escalation interval"; a
\* restart "forgives at most one immediate raise" (controller.ts).
RaisesArePaced == Paced!Spec

=============================================================================
