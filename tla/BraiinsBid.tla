------------------------------ MODULE BraiinsBid ------------------------------
(***************************************************************************)
(* The bids of the Braiins controller: which bids of the account it takes  *)
(* for its own, when it creates, edits and cancels them, and when it       *)
(* pauses itself.  Ticks come from the loop and from the dashboard's       *)
(* "tick now", which does not wait for the loop's; every call they await   *)
(* lets the others, the operator and Braiins in between.                   *)
(***************************************************************************)
EXTENDS BraiinsDecide

CONSTANTS
    Bids,        \* order ids, handed out in no order
    Ticks,       \* "loop" and "now"
    Books,       \* ask sides the order book may show
    Hashprices,  \* hashprices, NotSet when unknown
    Prices,      \* prices and speeds a bid of ours may show
    Speeds,
    BootModes,   \* boot_mode settings a restart may find
    Datum,       \* a Datum Gateway is configured
    DatumDown,   \* DATUM_DOWN_CANCEL_THRESHOLD
    Modes,       \* run modes the operator switches between
    MaxUpsets    \* bound: failed and lagging lists, lost answers and writes, crashes,
                 \* manual bids and ticks from the dashboard

RunModes == {"DRY_RUN", "LIVE", "PAUSED"}

ASSUME BidAssumption ==
    /\ Bids \subseteq Nat \ {0} /\ IsFiniteSet(Bids)
    /\ Ticks \subseteq {"loop", "now"} /\ Hashprices \subseteq Nat \cup {NotSet}
    /\ Prices \subseteq Nat /\ Speeds \subseteq Nat
    /\ BootModes \subseteq {"ALWAYS_LIVE", "LAST_MODE", "ALWAYS_DRY_RUN"}
    /\ Modes \subseteq RunModes /\ Datum \in BOOLEAN /\ MaxUpsets \in Nat
    /\ DatumDown \in Nat \ {0}

VARIABLES
    \* Braiins.
    bids,      \* id -> status, of the bids ever placed
    recent,    \* bids lowered within the decrease period
    \* The database.
    mode,      \* runtime_state.run_mode
    ledger,    \* owned_bids: the ids of its rows
    stamps,    \* rows with last_price_decrease_at within the decrease period
    \* The process.
    tick,      \* tick -> [pc, mode, own, cooling, todo, excuse]
    misses,    \* consecutive failures of the Datum poller, counted to DatumDown
    \* Bookkeeping of the model.
    placed,    \* bid the daemon posted -> what its tick could not know
    priced,    \* the last observation came with a price to bid
    upsets

vars == <<bids, recent, mode, ledger, stamps, tick, misses, placed, priced, upsets>>
braiins == <<bids, recent, placed>>
process == <<tick, misses, priced>>
database == <<mode, ledger, stamps>>

With(f, k, v) == [x \in DOMAIN f \cup {k} |-> IF x = k THEN v ELSE f[x]]

Idle == [pc |-> "idle", mode |-> "DRY_RUN", own |-> {}, cooling |-> {}, todo |-> <<>>,
         excuse |-> {}]

Standing == {b \in DOMAIN bids : bids[b] # "gone"}
Listed == {b \in Standing : bids[b] # "unlisted"}
Running(t) == tick[t].pc # "idle"

\* A fresh installation the operator put in LIVE, on an empty account.
Init ==
    /\ bids = [b \in {} |-> 0] /\ recent = {} /\ placed = [b \in {} |-> 0]
    /\ mode = "LIVE" /\ ledger = {} /\ stamps = {}
    /\ tick = [t \in Ticks |-> Idle] /\ misses = 0 /\ priced = FALSE
    /\ upsets = 0

Upset == upsets < MaxUpsets /\ upsets' = upsets + 1

-----------------------------------------------------------------------------
(* observe(). *)

\* Mutant: a row is ours only until its bid is cancelled.
getIds_NotCancelled == {b \in ledger : bids[b] = "live"}

\* Every row there ever was says that a bid is ours.
getIds == ledger

\* The database is read first.  Ticks that run at the same time know it of each other
\* only in the model.  The loop waits for its own tick; the dashboard asks rarely.
StartTick(t) ==
    LET others == {u \in Ticks \ {t} : Running(u)}
        mark == IF others = {} THEN {} ELSE {"overlap"}
    IN  /\ ~Running(t)
        /\ tick' = [u \in Ticks |->
               IF u = t
               THEN [pc |-> "observe", mode |-> mode, own |-> getIds,
                     cooling |-> stamps, todo |-> <<>>, excuse |-> mark]
               ELSE [tick[u] EXCEPT !.excuse = @ \cup (IF u \in others THEN mark ELSE {})]]
        /\ IF t = "now" THEN Upset ELSE UNCHANGED upsets
        /\ UNCHANGED <<braiins, database, misses, priced>>

\* The poller counts only when a gateway is configured.
PollDatum ==
    \E ok \in BOOLEAN :
        /\ ok \/ Datum
        /\ misses' = IF ok THEN 0 ELSE Min({misses + 1, DatumDown})

\* What the model keeps of a proposal: the price is in the book's hands, the direction of
\* an edit decides whether it is stamped.
Kept(p) == [kind |-> p.kind, bid |-> p.bid, down |-> Lowers(p)]
JobsOf(proposals) == [i \in DOMAIN proposals |-> Kept(proposals[i])]

AfterObserve(t, todo, excuse) ==
    tick' = [tick EXCEPT ![t] =
        IF todo = <<>> THEN Idle
        ELSE [pc |-> "execute", mode |-> "LIVE", own |-> {}, cooling |-> {},
              todo |-> todo, excuse |-> @.excuse \cup excuse]]

\* What the other reads of observe() may bring.
Fillables == {cheapestAskForDepth(asks, TargetPh) : asks \in Books}
Trading == [quote : Quotes(Fillables, Hashprices), funded : BOOLEAN,
            price : Prices, speed : Speeds]
Unpriced == [quote : {NotSet}, funded : {FALSE}, price : {0}, speed : {0}]

\* The plans of a tick, by the bids it owns and what else it knows: whether the account
\* holds strangers, whether Datum is down, and which bids are cooling.
Holdings == UNION {[S -> {"live", "dying"}] : S \in SUBSET Bids}
Knowledge == [strangers : BOOLEAN, datumDown : BOOLEAN, cooling : SUBSET Bids]

Plan(owned, k, r, fee) ==
    JobsOf(gate(decide([strangers |-> k.strangers, datumDown |-> k.datumDown,
                        owned |-> [b \in DOMAIN owned |-> [status |-> owned[b],
                                        price |-> r.price, speed |-> r.speed]],
                        quote |-> r.quote, funded |-> r.funded]),
                "LIVE", fee, k.cooling))

\* Only a live bid of ours can charge too much.
Fees(owned) == {FALSE, "live" \in Range(owned)}

PlansOn(readings) ==
    [owned \in Holdings |-> [k \in Knowledge |->
        {Plan(owned, k, r, fee) : r \in readings, fee \in Fees(owned)}]]
TradingPlans == PlansOn(Trading)
UnpricedPlans == PlansOn(Unpriced)

\* Mutant: whatever the account holds is ours.
Decide_AdoptsAll(t, seen, excuse) ==
    LET known == [strangers |-> FALSE, datumDown |-> FALSE, cooling |-> tick[t].cooling]
    IN  \E todo \in (IF tick[t].mode # "LIVE" \/ ~(priced') THEN {<<>>}
                     ELSE TradingPlans[[b \in seen |-> bids[b]]][known]) :
            AfterObserve(t, todo, excuse)

\* Decide on a list that shows the bids in seen; a failed list reads as an empty one.  In
\* DRY_RUN and PAUSED every proposal is only logged.
Decide(t, seen, excuse) ==
    LET plans == IF priced' THEN TradingPlans ELSE UnpricedPlans
        owned == seen \cap tick[t].own
        known == [strangers |-> seen # owned, datumDown |-> misses' = DatumDown,
                  cooling |-> tick[t].cooling]
    IN  \E todo \in (IF tick[t].mode # "LIVE" THEN {<<>>}
                     ELSE plans[[b \in owned |-> bids[b]]][known]) :
            AfterObserve(t, todo, excuse)

Unlisted == {b \in DOMAIN placed : bids[b] = "unlisted"}

Observe(t) ==
    /\ tick[t].pc = "observe"
    /\ PollDatum
    /\ priced' \in BOOLEAN
    /\ Decide(t, Listed, IF Unlisted = {} THEN {} ELSE {"lag"})
    /\ UNCHANGED <<braiins, database, upsets>>

\* GET /spot/bid/current fails and the other reads do not.
ObserveBlind(t) ==
    /\ tick[t].pc = "observe"
    /\ Upset
    /\ PollDatum
    /\ priced' \in BOOLEAN
    /\ Decide(t, {}, {"blind"})
    /\ UNCHANGED <<braiins, database>>

-----------------------------------------------------------------------------
(* execute(), one proposal after the other.  A call that Braiins answers may *)
(* be followed by a write; the write is the next job of the tick.            *)

Job(t) == Head(tick[t].todo)
Executing(t, kind) == tick[t].pc = "execute" /\ Job(t).kind = kind

DropJob(t) ==
    tick' = [tick EXCEPT ![t] = IF Len(@.todo) = 1 THEN Idle
                                ELSE [@ EXCEPT !.todo = Tail(tick[t].todo)]]
ThenWrite(t, kind, b) ==
    tick' = [tick EXCEPT ![t].todo[1] = [@ EXCEPT !.kind = kind, !.bid = b]]

\* The answer comes back, or it is lost and the proposal counts as failed.
Answered(t, kind, b) ==
    \/ ThenWrite(t, kind, b) /\ UNCHANGED upsets
    \/ DropJob(t) /\ Upset

PlaceBid(t) ==
    /\ Executing(t, "CREATE_BID")
    /\ \E b \in Bids \ DOMAIN bids :
           /\ placed' = With(placed, b, tick[t].excuse)
           /\ \/ bids' = With(bids, b, "live") /\ Answered(t, "INSERT", b)
              \/ bids' = With(bids, b, "unlisted") /\ ThenWrite(t, "INSERT", b) /\ Upset
    /\ UNCHANGED <<recent, database, misses, priced>>

EditPrice(t) ==
    LET b == Job(t).bid IN
    /\ Executing(t, "EDIT_PRICE") /\ b \in Listed
    /\ IF Job(t).down THEN recent' = recent \cup {b} /\ Answered(t, "STAMP", b)
       ELSE DropJob(t) /\ UNCHANGED <<recent, upsets>>
    /\ UNCHANGED <<bids, placed, database, misses, priced>>

EditSpeed(t) ==
    LET b == Job(t).bid IN
    /\ Executing(t, "EDIT_SPEED") /\ b \in Listed
    /\ DropJob(t)
    /\ UNCHANGED <<braiins, database, misses, priced, upsets>>

\* Braiins unwinds a cancelled bid in its own time.
CancelBid(t) ==
    LET b == Job(t).bid IN
    /\ Executing(t, "CANCEL_BID") /\ b \in Listed
    /\ bids' = [bids EXCEPT ![b] = "dying"]
    /\ DropJob(t)
    /\ UNCHANGED <<recent, placed, database, misses, priced, upsets>>

\* A refused call, or one on a bid that is gone, changes nothing.
Refused(t) ==
    /\ \E kind \in {"CREATE_BID", "EDIT_PRICE", "EDIT_SPEED", "CANCEL_BID"} :
           Executing(t, kind)
    /\ DropJob(t)
    /\ UNCHANGED <<braiins, database, misses, priced, upsets>>

InsertRow(t) ==
    LET b == Job(t).bid IN
    /\ Executing(t, "INSERT")
    /\ ledger' = ledger \cup {b}
    /\ DropJob(t)
    /\ UNCHANGED <<braiins, mode, stamps, misses, priced, upsets>>

SetLastPriceDecrease(t) ==
    /\ Executing(t, "STAMP")
    /\ stamps' = stamps \cup {Job(t).bid}
    /\ DropJob(t)
    /\ UNCHANGED <<braiins, mode, ledger, misses, priced, upsets>>

WriteFails(t) ==
    /\ \E kind \in {"INSERT", "STAMP"} : Executing(t, kind)
    /\ Upset /\ DropJob(t)
    /\ UNCHANGED <<braiins, database, misses, priced>>

PauseDaemon(t) ==
    /\ Executing(t, "PAUSE")
    /\ mode' = "PAUSED"
    /\ DropJob(t)
    /\ UNCHANGED <<braiins, ledger, stamps, misses, priced, upsets>>

Execute(t) ==
    \/ PlaceBid(t) \/ EditPrice(t) \/ EditSpeed(t) \/ CancelBid(t) \/ Refused(t)
    \/ InsertRow(t) \/ SetLastPriceDecrease(t) \/ WriteFails(t)
    \/ PauseDaemon(t)

-----------------------------------------------------------------------------
(* The operator, Braiins, time and crashes. *)

SetMode(m) ==
    /\ mode' = m /\ m # mode
    /\ UNCHANGED <<braiins, ledger, stamps, process, upsets>>

\* The operator cancels a bid of ours from the dashboard (POST /api/stale-urls/cancel) or
\* at Braiins.
OperatorCancel(b) ==
    /\ b \in ledger \cap Listed /\ bids[b] = "live"
    /\ bids' = [bids EXCEPT ![b] = "dying"]
    /\ UNCHANGED <<recent, placed, database, process, upsets>>

\* The operator places a bid by hand.
ManualBid(b) ==
    /\ b \notin DOMAIN bids /\ Upset
    /\ bids' = With(bids, b, "live")
    /\ UNCHANGED <<recent, placed, database, process>>

Surface(b) ==
    /\ b \in Standing \ Listed
    /\ bids' = [bids EXCEPT ![b] = "live"]
    /\ UNCHANGED <<recent, placed, database, process, upsets>>

\* A bid is used up, deleted by the operator, or done with being cancelled.
Finish(b) ==
    /\ b \in Listed
    /\ bids' = [bids EXCEPT ![b] = "gone"]
    /\ recent' = recent \ {b}
    /\ UNCHANGED <<placed, database, process, upsets>>

\* The decrease period of a bid ends.
Expire(b) ==
    /\ b \in recent \cup stamps
    /\ recent' = recent \ {b} /\ stamps' = stamps \ {b}
    /\ UNCHANGED <<bids, placed, mode, ledger, process, upsets>>

bootMode(setting) ==
    CASE setting = "ALWAYS_LIVE" -> "LIVE"
      [] setting = "LAST_MODE" -> IF mode = "PAUSED" THEN "DRY_RUN" ELSE mode
      [] OTHER -> "DRY_RUN"

Restart ==
    /\ Upset
    /\ \E setting \in BootModes : mode' = bootMode(setting)
    /\ tick' = [t \in Ticks |-> Idle] /\ misses' = 0 /\ priced' = FALSE
    /\ UNCHANGED <<braiins, ledger, stamps>>

-----------------------------------------------------------------------------

Next ==
    \/ \E t \in Ticks : StartTick(t) \/ Observe(t) \/ ObserveBlind(t) \/ Execute(t)
    \/ \E m \in Modes : SetMode(m)
    \/ \E b \in Bids : OperatorCancel(b) \/ ManualBid(b) \/ Surface(b) \/ Finish(b)
                           \/ Expire(b)
    \/ Restart

Spec == Init /\ [][Next]_vars

\* A tick of the loop reads the market with success.
ReadsMarket == tick["loop"].pc = "observe" /\ tick'["loop"].pc # "observe" /\ priced'

\* The loop ticks for ever and every call it awaits returns.  Cancels, Datum, the order book
\* and the oracle may fail any number of times, but not always.
Fairness ==
    /\ WF_vars(StartTick("loop")) /\ WF_vars(Execute("loop")) /\ SF_vars(CancelBid("loop"))
    /\ []<>(tick["loop"].pc = "observe") => []<><<ReadsMarket>>_vars

FairSpec == Spec /\ Fairness

-----------------------------------------------------------------------------
(* Properties. *)

Kinds == {"CREATE_BID", "EDIT_PRICE", "EDIT_SPEED", "CANCEL_BID", "PAUSE", "INSERT",
          "STAMP"}
Excuses == {"overlap", "blind", "lag"}

TypeOK ==
    /\ DOMAIN bids \subseteq Bids /\ Range(bids) \subseteq {"unlisted", "live", "dying", "gone"}
    /\ recent \subseteq Standing /\ stamps \subseteq ledger
    /\ ledger \subseteq DOMAIN placed /\ DOMAIN placed \subseteq DOMAIN bids
    /\ Range(placed) \subseteq SUBSET Excuses
    /\ mode \in RunModes /\ misses \in 0..DatumDown /\ priced \in BOOLEAN /\ upsets \in 0..MaxUpsets
    /\ \A t \in Ticks :
           /\ tick[t].pc \in {"idle", "observe", "execute"} /\ tick[t].mode \in RunModes
           /\ tick[t].own \subseteq ledger /\ tick[t].cooling \subseteq ledger
           /\ tick[t].excuse \subseteq Excuses
           /\ \A i \in DOMAIN tick[t].todo : tick[t].todo[i] \in
                  [kind : Kinds, bid : Bids \cup {0}, down : BOOLEAN]
           /\ (tick[t].pc = "execute") = (tick[t].todo # <<>>)

Ours == {b \in Standing : b \in DOMAIN placed}

\* Lost answers, failed ledger writes, crashes, restarts into LIVE, an asynchronous cancel
\* and the operator never give the account a second bid of ours: for that, a tick must have
\* run beside another, been blind to the list, or met a list that lagged.
TwinsHaveExcuse ==
    \A a, b \in Ours : a # b => placed[a] \cup placed[b] # {}

\* A bid the ledger does not know is never cancelled by the daemon, not by a tick that read
\* the ledger before a manual bid was placed either.
BidsInv ==
    /\ TypeOK
    /\ \A b \in Standing : bids[b] = "dying" => b \in ledger

\* The daemon pauses itself only over a bid that is not on its books, unless two ticks ran
\* at once: its own bids, dying ones included, never make it do so.
NoFalseAlarm ==
    [][\A t \in Ticks :
           PauseDaemon(t) => DOMAIN bids # ledger \/ "overlap" \in tick[t].excuse]_vars

\* A bid is not lowered twice within the decrease period, across ticks and restarts,
\* unless the stamp of the first time was lost or two ticks ran at once.
DecreasesPaced ==
    [][\A t \in Ticks :
           EditPrice(t) /\ Job(t).down /\ Job(t).bid \in recent
               => \/ "overlap" \in tick[t].excuse
                  \/ Job(t).bid \notin stamps /\ upsets > 0]_vars

\* A bid nobody recorded is noticed: the daemon does not go on trading beside it.
StrangersStopTrading ==
    \A b \in Bids :
        b \in Listed \ ledger ~> mode # "LIVE" \/ b \notin Listed \/ b \in ledger

\* However the account came to hold several of our bids, a daemon in LIVE gets rid of the
\* ones it does not keep.
Keepers == {b \in Ours \cap ledger : bids[b] = "live"}
ExtrasGo == Cardinality(Keepers) > 1 ~> Cardinality(Keepers) <= 1 \/ mode # "LIVE"
=============================================================================
