-------------------------------- MODULE Payouts --------------------------------
(***************************************************************************)
(* The ledger of on-chain payouts (reward_events) and the "payout          *)
(* confirmed" messages.  The observer's scans and the historical backfill  *)
(* write the ledger, a change of the payout address wipes it, the alert    *)
(* evaluator announces what is new in it.  All of them live in one process *)
(* and share the configuration holder, which the controller's tick also    *)
(* writes; every call they await lets the others in between.               *)
(***************************************************************************)
EXTENDS Integers, FiniteSets, SequencesExt, Ascending

CONSTANTS
    Outs,       \* transaction outputs that pay one of the addresses
    PaysTo,     \* output -> address
    TxOf,       \* output -> transaction
    History,    \* outputs confirmed before the daemon was installed
    Scans,      \* "main", and "side" when bitcoind is there as well
    Addresses,  \* what the operator may set btc_payout_address to
    NotSet,     \* null
    Evals,      \* bound: evaluations in flight
    MaxUpsets   \* bound: address changes, restarts, failed calls, payouts moved on,
                \* evaluations that overlap

ASSUME PayoutsAssumption ==
    /\ Outs \subseteq Nat /\ IsFiniteSet(Outs) /\ History \subseteq Outs
    /\ \A o \in History : {p \in Outs : TxOf[p] = TxOf[o]} \subseteq History
    /\ "main" \in Scans /\ Scans \subseteq {"main", "side"}
    /\ PaysTo \in [Outs -> Addresses] /\ DOMAIN TxOf = Outs
    /\ NotSet \notin Addresses \cup Int /\ IsFiniteSet(Evals) /\ MaxUpsets \in Nat

VARIABLES
    \* The chain.
    chain,     \* confirmed outputs
    spent,     \* of them, those the operator has moved on
    \* The database.
    setting,   \* config.btc_payout_address
    rows,      \* reward_events: id -> output
    lastId,    \* the last id AUTOINCREMENT gave
    stamped,   \* runtime_state.last_backfilled_payout_address
    \* The process.
    held,      \* cfgRefHolder.value.btc_payout_address
    tick,      \* the address a controller tick in flight has read, or NotSet
    scans,     \* scan -> [pc, addr, found]; the side scan is the one by bitcoind
    fill,      \* the backfill: [pc, addr, found], found are its transactions
    job,       \* the address of a refresh that waits for its backfill, or NotSet
    mark,      \* lastNotifiedRewardEventId
    reaching,  \* the evaluations that have not come to the payouts yet
    queues,    \* evaluation -> the new rows it has still to announce, <<id, output>> each
    \* Bookkeeping of the model.
    told,      \* output -> messages sent for it
    due,       \* outputs that were confirmed under the eyes of this process
    wipes,     \* times the ledger was wiped
    overlaps,  \* evaluations that read the ledger while another was announcing from it
    overtaken, \* an address change found a tick, a scan or a backfill in flight, or went
               \* back to the stamped address and its refresh failed
    upsets

world == <<chain, spent>>
config == <<setting, held, tick>>
ledger == <<rows, lastId, stamped, wipes>>
observer == <<scans, fill, job>>
evaluator == <<mark, reaching, queues, told, overlaps>>
vars == <<world, config, ledger, observer, evaluator, due, overtaken, upsets>>

Idle == [pc |-> "idle", addr |-> NotSet, found |-> {}]

Upset == upsets < MaxUpsets /\ upsets' = upsets + 1

Recorded == Range(rows)
TxsOf(outs) == {TxOf[o] : o \in outs}
MaxId == Max(DOMAIN rows)

-----------------------------------------------------------------------------
(* The process starts, or the address changes. *)

\* scanOnce() joins a scan that runs; the side scan looks at nothing.
Started(s) == [scans EXCEPT ![s] = [@ EXCEPT !.pc = "ask", !.addr = held']]
StartedFill == [fill EXCEPT !.pc = "ask", !.addr = held']

\* Mutant: the ledger is kept.
RefreshLedger_Keeps(address) ==
    /\ rows' = rows /\ wipes' = wipes + 1 /\ job' = address
    /\ scans' = IF scans["main"].pc = "idle" THEN Started("main") ELSE scans
    /\ fill' = IF fill.pc = "idle" THEN StartedFill ELSE fill

\* The rows of the old address go; a scan and a backfill that run already are joined,
\* whatever address they are for.  The database answers at once: nothing gets in between.
RefreshLedger(address) ==
    /\ rows' = << >> /\ wipes' = wipes + 1 /\ job' = address
    /\ scans' = IF scans["main"].pc = "idle" THEN Started("main") ELSE scans
    /\ fill' = IF fill.pc = "idle" THEN StartedFill ELSE fill

\* The address is stamped when the backfill is over, whatever came of it.
StampAddress ==
    /\ job # NotSet /\ fill.pc = "idle"
    /\ stamped' = job /\ job' = NotSet
    /\ UNCHANGED <<world, config, rows, lastId, wipes, scans, fill, evaluator, due, overtaken,
                   upsets>>

\* A fresh installation, up to its first step: nothing was stamped, so the (empty) ledger is
\* wiped and filled.
Init ==
    /\ chain = History /\ spent \in SUBSET History
    /\ setting \in Addresses /\ held = setting /\ tick = NotSet
    /\ rows = << >> /\ lastId = 0 /\ stamped = NotSet /\ wipes = 1
    /\ scans = [s \in Scans |-> IF s = "main" THEN [Idle EXCEPT !.pc = "ask", !.addr = setting]
                                ELSE Idle]
    /\ fill = [Idle EXCEPT !.pc = "ask", !.addr = setting] /\ job = setting
    /\ mark = NotSet /\ reaching = {} /\ queues = [e \in Evals |-> << >>] /\ overlaps = 0
    /\ told = [o \in Outs |-> 0] /\ due = {} /\ overtaken = FALSE /\ upsets = 0

\* A boot that finds another address stamped than the one configured refreshes the ledger.
\* The evaluator takes every row that is there for announced.
Restart ==
    LET main == IF stamped = setting THEN Idle
                ELSE [Idle EXCEPT !.pc = "ask", !.addr = setting]
    IN  /\ Upset
        /\ held' = setting /\ tick' = NotSet
        /\ rows' = (IF stamped = setting THEN rows ELSE << >>)
        /\ wipes' = (IF stamped = setting THEN wipes ELSE wipes + 1)
        /\ job' = (IF stamped = setting THEN NotSet ELSE setting)
        /\ scans' = [s \in Scans |-> IF s = "main" THEN main ELSE Idle] /\ fill' = main
        /\ mark' = (IF DOMAIN rows' = {} THEN NotSet ELSE MaxId)
        /\ reaching' = {} /\ queues' = [e \in Evals |-> << >>] /\ due' = {}
        /\ UNCHANGED <<world, setting, lastId, stamped, told, overlaps, overtaken>>

\* POST /api/config with another address: the holder is updated at once.  The refresh may
\* fail before it wipes anything; it is then left to the next boot.
SaveAddress(a) ==
    /\ a # setting /\ job = NotSet /\ Upset
    /\ setting' = a /\ held' = a
    /\ LET busy == tick # NotSet \/ fill.pc # "idle" \/ \E s \in Scans : scans[s].pc # "idle"
       IN  \/ RefreshLedger(a) /\ overtaken' = (overtaken \/ busy)
           \/ UNCHANGED <<rows, wipes, job, scans, fill>>
                 /\ overtaken' = (overtaken \/ busy \/ a = stamped)
    /\ due' = {}
    /\ UNCHANGED <<world, tick, lastId, stamped, evaluator>>

-----------------------------------------------------------------------------
(* The observer. *)

\* INSERT ... ON CONFLICT DO NOTHING: the outputs that have no row get one, with the
\* next ids.
Insert(outs) ==
    LET new == InOrder(outs \ Recorded)
        last == lastId + Cardinality(outs \ Recorded)
    IN  /\ rows' = [id \in DOMAIN rows \cup (lastId + 1)..last |->
                       IF id \in DOMAIN rows THEN rows[id] ELSE new[id - lastId]]
        /\ lastId' = last

StartScan(s) ==
    /\ scans[s].pc = "idle"
    /\ UNCHANGED config /\ scans' = Started(s)
    /\ UNCHANGED <<world, ledger, fill, job, evaluator, due, overtaken, upsets>>

\* What is unspent at the address now.
ReadUnspent(s) ==
    /\ scans[s].pc = "ask"
    /\ scans' = [scans EXCEPT ![s].pc = "write",
                     ![s].found = {o \in chain \ spent : PaysTo[o] = scans[s].addr}]
    /\ UNCHANGED <<world, config, ledger, fill, job, evaluator, due, overtaken, upsets>>

WriteUnspent(s) ==
    /\ scans[s].pc = "write"
    /\ Insert(scans[s].found)
    /\ scans' = [scans EXCEPT ![s] = Idle]
    /\ UNCHANGED <<world, config, stamped, wipes, fill, job, evaluator, due, overtaken, upsets>>

ScanFails(s) ==
    /\ scans[s].pc # "idle" /\ Upset
    /\ scans' = [scans EXCEPT ![s] = Idle]
    /\ UNCHANGED <<world, config, ledger, fill, job, evaluator, due, overtaken>>

\* The timer, the boot, or "Backfill now".
StartBackfill ==
    /\ fill.pc = "idle"
    /\ UNCHANGED config /\ fill' = StartedFill
    /\ UNCHANGED <<world, ledger, scans, job, evaluator, due, overtaken, upsets>>

\* Mutant: transactions that are spent are left out, as a scan does.
ReadHistory_Unspent ==
    /\ fill.pc = "ask"
    /\ fill' = [fill EXCEPT !.pc = "write",
                    !.found = TxsOf({o \in chain \ spent : PaysTo[o] = fill.addr})
                              \ TxsOf(Recorded)]
    /\ UNCHANGED <<world, config, ledger, scans, job, evaluator, due, overtaken, upsets>>

\* Every transaction of the address, spent or not, except those with any row.
ReadHistory ==
    /\ fill.pc = "ask"
    /\ fill' = [fill EXCEPT !.pc = "write",
                    !.found = TxsOf({o \in chain : PaysTo[o] = fill.addr})
                              \ TxsOf(Recorded)]
    /\ UNCHANGED <<world, config, ledger, scans, job, evaluator, due, overtaken, upsets>>

InspectTx ==
    /\ fill.pc = "write"
    /\ \E tx \in fill.found :
           /\ Insert({o \in chain : TxOf[o] = tx /\ PaysTo[o] = fill.addr})
           /\ fill' = [fill EXCEPT !.found = @ \ {tx}]
    /\ UNCHANGED <<world, config, stamped, wipes, scans, job, evaluator, due, overtaken, upsets>>

BackfillEnds ==
    /\ fill.pc = "write" /\ fill.found = {}
    /\ fill' = Idle
    /\ UNCHANGED <<world, config, ledger, scans, job, evaluator, due, overtaken, upsets>>

\* A transaction cannot be read, and the backfill goes on with the next; or the history cannot,
\* or a row not be written, and the backfill ends there.  It never throws.
BackfillFails ==
    /\ Upset
    /\ \/ fill.pc # "idle" /\ fill' = Idle
       \/ fill.pc = "write" /\ \E tx \in fill.found : fill' = [fill EXCEPT !.found = @ \ {tx}]
    /\ UNCHANGED <<world, config, ledger, scans, job, evaluator, due, overtaken>>

-----------------------------------------------------------------------------
(* The controller's tick and the evaluation that follows it. *)

StartTick ==
    /\ tick = NotSet
    /\ tick' = setting
    /\ UNCHANGED <<world, setting, held, ledger, observer, evaluator, due, overtaken, upsets>>

Announcing == {e \in Evals : queues[e] # << >>}
Free == Evals \ (reaching \cup Announcing)

\* onTick puts the configuration the tick has read into the holder and starts an evaluation
\* that nobody waits for: the evaluations of earlier ticks may still be at it.  (One that would
\* exceed the bound is left out.)
EndTick ==
    /\ tick # NotSet
    /\ held' = tick /\ tick' = NotSet
    /\ reaching' = IF Free = {} THEN reaching ELSE reaching \cup {CHOOSE e \in Free : TRUE}
    /\ UNCHANGED <<world, setting, ledger, observer, mark, queues, told, overlaps, due,
                   overtaken, upsets>>

\* The rows above the mark, in the order of their ids.
NewRows ==
    LET ids == InOrder({id \in DOMAIN rows : id > mark})
    IN  [i \in DOMAIN ids |-> <<ids[i], rows[ids[i]]>>]

\* Mutant: the mark moves when the rows are read, before they are announced.
ReadRows_Marks(e) ==
    /\ e \in reaching /\ reaching' = reaching \ {e}
    /\ mark' = (IF DOMAIN rows = {} THEN -1 ELSE MaxId)
    /\ queues' = (IF mark = NotSet THEN queues ELSE [queues EXCEPT ![e] = NewRows])
    /\ UNCHANGED <<world, config, ledger, observer, told, overlaps, due, overtaken, upsets>>

\* evaluatePayoutConfirmed, when the evaluation gets to it: the first one only takes its mark.
ReadRows(e) ==
    /\ e \in reaching /\ reaching' = reaching \ {e}
    /\ IF mark = NotSet
       THEN /\ mark' = (IF DOMAIN rows = {} THEN -1 ELSE MaxId)
            /\ UNCHANGED <<queues, overlaps, upsets>>
       ELSE /\ queues' = [queues EXCEPT ![e] = NewRows] /\ UNCHANGED mark
            /\ IF Announcing = {} THEN UNCHANGED <<overlaps, upsets>>
               ELSE Upset /\ overlaps' = overlaps + 1
    /\ UNCHANGED <<world, config, ledger, observer, told, due, overtaken>>

\* Mutant: the mark is not moved.
Tell_MarkStays(e) ==
    /\ queues[e] # << >>
    /\ told' = [told EXCEPT ![Head(queues[e])[2]] = @ + 1]
    /\ queues' = [queues EXCEPT ![e] = Tail(@)]
    /\ UNCHANGED <<world, config, ledger, observer, mark, reaching, overlaps, due, overtaken,
                   upsets>>

Tell(e) ==
    /\ queues[e] # << >>
    /\ told' = [told EXCEPT ![Head(queues[e])[2]] = @ + 1]
    /\ mark' = Max({mark, Head(queues[e])[1]})
    /\ queues' = [queues EXCEPT ![e] = Tail(@)]
    /\ UNCHANGED <<world, config, ledger, observer, reaching, overlaps, due, overtaken, upsets>>

\* recordAlert() throws: the rows from here on are new to the next evaluation.
TellFails(e) ==
    /\ queues[e] # << >> /\ Upset
    /\ queues' = [queues EXCEPT ![e] = << >>]
    /\ UNCHANGED <<world, config, ledger, observer, mark, reaching, told, overlaps, due,
                   overtaken>>

-----------------------------------------------------------------------------
(* The chain. *)

\* A transaction is confirmed with all its outputs.
Confirm(tx) ==
    LET outs == {o \in Outs : TxOf[o] = tx} IN
    /\ outs \cap chain = {}
    /\ chain' = chain \cup outs
    /\ due' = (IF mark = NotSet THEN due ELSE due \cup {o \in outs : PaysTo[o] = setting})
    /\ UNCHANGED <<spent, config, ledger, observer, evaluator, overtaken, upsets>>

Spend(o) ==
    /\ o \in chain \ spent /\ Upset
    /\ spent' = spent \cup {o}
    /\ UNCHANGED <<chain, config, ledger, observer, evaluator, due, overtaken>>

-----------------------------------------------------------------------------

Next ==
    \/ \E s \in Scans : StartScan(s) \/ ReadUnspent(s) \/ WriteUnspent(s) \/ ScanFails(s)
    \/ StartBackfill \/ ReadHistory \/ InspectTx \/ BackfillEnds \/ BackfillFails
    \/ \E a \in Addresses : SaveAddress(a)
    \/ StampAddress
    \/ StartTick \/ EndTick
    \/ \E e \in Evals : ReadRows(e) \/ Tell(e) \/ TellFails(e)
    \/ \E tx \in TxsOf(Outs) : Confirm(tx)
    \/ \E o \in Outs : Spend(o)
    \/ Restart

Spec == Init /\ [][Next]_vars

\* The timers fire for ever, every call returns and ticks go on.
Fairness ==
    /\ WF_vars(StartBackfill \/ ReadHistory \/ InspectTx \/ BackfillEnds)
    /\ WF_vars(StartTick \/ EndTick)
    /\ \A e \in Evals : WF_vars(ReadRows(e) \/ Tell(e))

FairSpec == Spec /\ Fairness

-----------------------------------------------------------------------------
(* Properties. *)

TypeOK ==
    /\ spent \subseteq chain /\ chain \subseteq Outs /\ due \subseteq chain
    /\ {setting, held} \subseteq Addresses /\ {stamped, tick} \subseteq Addresses \cup {NotSet}
    /\ lastId \in Nat /\ DOMAIN rows \subseteq 1..lastId /\ Recorded \subseteq Outs
    /\ Cardinality(Recorded) = Cardinality(DOMAIN rows)
    /\ mark = NotSet \/ mark \in -1..lastId
    /\ job \in Addresses \cup {NotSet} /\ fill.pc \in {"idle", "ask", "write"}

\* main.ts: the rows of the old address are wiped when the address changes, or else by the
\* boot that finds another address stamped.  So the ledger of a stamped address holds its
\* payouts only, unless the change met a tick, a scan or a backfill in flight, which write
\* the old address's rows after the wipe, or went back to the stamped address and its wipe
\* failed, which no boot can see.
LedgerInv ==
    /\ TypeOK
    /\ stamped = setting /\ ~overtaken => \A o \in Recorded : PaysTo[o] = setting

\* alert-evaluator.ts: what was confirmed before the daemon was there is not announced.
HistoryIsSilent == \A o \in History : told[o] = 0

\* alert-evaluator.ts: "fire one INFO per row; advance the watermark".  No payout is announced
\* again, whatever is scanned, backfilled and restarted, but for two causes, each worth one
\* message more: the ledger was wiped, which makes its payouts new; and an evaluation read the
\* ledger while another, that had outlasted its tick, was still announcing from it.
ToldOnce == \A o \in Outs : told[o] <= wipes + overlaps

\* The backfill passes over a transaction that has any row: an output of it that was moved on
\* before a scan saw it stays out.
Skipped(o) == o \in spent /\ TxOf[o] \in TxsOf(Recorded \ {o})

\* Every payout to the configured address gets into the ledger and stays there, spent or not,
\* but for a skipped one, once the changes of the address and the failures are over.
EveryPayoutRecorded ==
    <>[](\A o \in chain : PaysTo[o] = setting => o \in Recorded \/ Skipped(o))

\* A payout confirmed while the daemon runs is announced, unless it is skipped, or the daemon
\* is restarted or the address changed before it is.
PayoutsAreTold == <>[](\A o \in due : told[o] > 0 \/ Skipped(o))
=============================================================================
