---------------------------- MODULE OrderLifecycle ----------------------------
(***************************************************************************)
(* The orders the NiceHash daemon owns, from create to cancel: which of    *)
(* the account's orders a tick takes for its own, when it creates, tops up *)
(* and cancels, and the pool the orders mine to.  The price of the order   *)
(* is BidControl's subject; here an order is a worker and an escrow.       *)
(***************************************************************************)
EXTENDS Integers, FiniteSets, SequencesExt, Ascending

CONSTANTS
    Ids,            \* order ids; the exchange hands them out in no order
    Workers,        \* pool users the operator may configure
    NoWorker,       \* '' in the settings; no registered pool
    Budget,         \* order_budget_btc, 0 for the whole balance
    RefillAmount,   \* refill_amount_btc, 0 for never
    MinAmount,      \* min_order_amount_btc
    LowEscrow,      \* an escrow up to this runs dry within refill_when_runway_hours
    StartBalance,   \* bound: the money in the account
    MaxUpsets       \* bound: lost answers, crashes, lags, edits and manual orders

ASSUME LifecycleAssumption ==
    /\ Ids \subseteq Nat /\ IsFiniteSet(Ids)
    /\ NoWorker \notin Workers
    /\ {Budget, RefillAmount, LowEscrow, StartBalance, MaxUpsets} \subseteq Nat
    /\ MinAmount \in Nat \ {0}

VARIABLES
    \* NiceHash.
    orders,     \* id -> [live, worker, escrow], of the orders ever created
    fresh,      \* orders the myOrders list does not show yet
    balance,    \* the free balance
    \* The database of the daemon.
    ledger,     \* nicehash_orders: the ids it recorded
    worker,     \* the pool user in the saved settings
    \* The memory of the daemon.
    poolKey,    \* poolKey: the pool settings the last reload acted on
    pool,       \* poolId: the worker of the registered pool it orders to
    known,      \* ledger.getIds() at the start of the tick
    jobs,       \* the proposals of the tick that are still to be executed
    pc,         \* "reload", "observe", "execute" or "persist"
    \* Bookkeeping of the model.
    placed,     \* the orders the daemon created
    misreads,   \* the ticks that read a wrong escrow
    upsets

vars == <<orders, fresh, balance, ledger, worker, poolKey, pool, known, jobs, pc,
          placed, misreads, upsets>>

daemon == <<poolKey, pool, known, jobs, pc>>

Created == DOMAIN orders
Live == {o \in Created : orders[o].live}

Jobs ==
    [kind : {"create"}, id : {0} \cup Ids, amount : Nat]
        \cup [kind : {"cancel"}, id : Ids, amount : {0}]
        \cup [kind : {"refill"}, id : Ids, amount : Nat]

TypeOK ==
    /\ Created \subseteq Ids
    /\ \A o \in Created :
           orders[o] \in [live : BOOLEAN, worker : Workers, escrow : Nat]
    /\ fresh \subseteq Created /\ balance \in Nat
    /\ ledger \subseteq Created /\ known \subseteq ledger /\ placed \subseteq Created
    /\ {worker, poolKey, pool} \subseteq Workers \cup {NoWorker}
    /\ \A i \in DOMAIN jobs : jobs[i] \in Jobs
    /\ pc \in {"reload", "observe", "execute", "persist"}
    /\ pc \in {"execute", "persist"} => jobs # <<>>
    /\ upsets \in 0..MaxUpsets /\ misreads \in 0..upsets

\* A fresh installation that registered its pool.
Init ==
    /\ orders = [o \in {} |-> 0] /\ fresh = {} /\ balance = StartBalance
    /\ ledger = {} /\ known = {} /\ placed = {}
    /\ worker \in Workers /\ poolKey = worker /\ pool = worker
    /\ jobs = <<>> /\ pc = "reload"
    /\ upsets = 0 /\ misreads = 0

Upset == upsets < MaxUpsets /\ upsets' = upsets + 1

-----------------------------------------------------------------------------
(* Between ticks. *)

\* applyLiveSettings: a changed pool worker is registered; when that fails, or the
\* worker was cleared, the old pool stays.
applyLiveSettings ==
    \/ /\ worker # poolKey /\ worker # NoWorker
       /\ pool' = worker /\ UNCHANGED upsets
    \/ /\ worker # poolKey /\ worker # NoWorker
       /\ UNCHANGED pool /\ Upset
    \/ /\ worker = poolKey \/ worker = NoWorker
       /\ UNCHANGED <<pool, upsets>>

Reload ==
    /\ pc = "reload" /\ pc' = "observe"
    /\ applyLiveSettings
    /\ poolKey' = worker
    /\ known' = ledger
    /\ UNCHANGED <<orders, fresh, balance, ledger, worker, jobs, placed, misreads>>

\* A tick started from the dashboard runs on the settings of the last reload.
RunNow ==
    /\ pc = "reload" /\ pc' = "observe"
    /\ known' = ledger
    /\ UNCHANGED <<orders, fresh, balance, ledger, worker, poolKey, pool, jobs, placed,
                   misreads, upsets>>

-----------------------------------------------------------------------------
(* observe() and decide(). *)

\* Mutant: only the ledger says what is ours.
reconcileOrders_LedgerOnly(list) == {o \in list : orders[o].live /\ o \in known}

\* Ours: live, and recorded or on the configured worker.
reconcileOrders(list) ==
    {o \in list : orders[o].live /\ (o \in known \/ orders[o].worker = poolKey)}

\* An absent balance read.
NotRead == -1

\* The create a tick without an order proposes: none below the minimum.
CreateJobs(free) ==
    LET amount == IF Budget = 0 THEN free
                  ELSE IF free = NotRead THEN Budget ELSE Min({Budget, free})
    IN  IF amount < MinAmount THEN <<>>
        ELSE <<[kind |-> "create", id |-> 0, amount |-> amount]>>

Primary(owned) == Min(owned)

\* All but the primary are cancelled.
CancelJobs(owned) ==
    LET extras == InOrder(owned \ {Primary(owned)})
    IN  [i \in DOMAIN extras |-> [kind |-> "cancel", id |-> extras[i], amount |-> 0]]

\* A top-up of an escrow that reads low: the configured amount, or all there is.
RefillJobs(o, free, low) ==
    LET amount == Min({RefillAmount, free})
    IN  IF RefillAmount > 0 /\ low /\ free > 0 /\ (amount >= MinAmount \/ amount = free)
        THEN <<[kind |-> "refill", id |-> o, amount |-> amount]>>
        ELSE <<>>

IsLow(o) == orders[o].escrow <= LowEscrow

decide(owned, free, low) ==
    IF owned = {} THEN CreateJobs(free)
    ELSE CancelJobs(owned) \o RefillJobs(Primary(owned), free, low)

\* The list shows every order but the fresh ones.
Owned == reconcileOrders(Created \ fresh)

\* What a tick proposes that read our orders; without a pool, nothing.
ReadProposals(free) ==
    IF pool = NoWorker THEN <<>>
    ELSE decide(Owned, free, Owned # {} /\ IsLow(Primary(Owned)))

\* The same when the detail read failed and the list lags the escrow, or the served
\* amount is frozen: an escrow reads low that is not, or the other way round.
MisreadProposals ==
    IF pool = NoWorker THEN <<>>
    ELSE decide(Owned, balance, Owned # {} /\ ~IsLow(Primary(Owned)))

\* Mutant: a tick that could not read our orders goes on with none.
BlindProposals_Decides == decide({}, balance, FALSE)

\* A read that fails, a market without an anchor or a run mode other than LIVE
\* leaves nothing to execute.
BlindProposals == <<>>

ObserveAs(proposals) ==
    /\ pc = "observe"
    /\ jobs' = proposals
    /\ pc' = IF proposals = <<>> THEN "reload" ELSE "execute"
    /\ UNCHANGED <<orders, fresh, balance, ledger, worker, poolKey, pool, known, placed>>

ObserveFully == ObserveAs(ReadProposals(balance)) /\ UNCHANGED <<misreads, upsets>>

Observe ==
    \/ ObserveFully
    \/ ObserveAs(ReadProposals(NotRead)) /\ UNCHANGED <<misreads, upsets>>
    \/ ObserveAs(BlindProposals) /\ UNCHANGED <<misreads, upsets>>
    \/ ObserveAs(MisreadProposals) /\ Upset /\ misreads' = misreads + 1

-----------------------------------------------------------------------------
(* executeProposal() and persist(). *)

Job == Head(jobs)

\* The tick goes on with the next proposal, or ends.
NextJob ==
    /\ jobs' = Tail(jobs)
    /\ pc' = IF Tail(jobs) = <<>> THEN "reload" ELSE "execute"

AbortTick == pc' = "reload" /\ jobs' = <<>>

\* NiceHash takes the order and its escrow; the list may lag.
CreateOrder(o, amount, on, lag) ==
    /\ balance >= amount
    /\ orders' = [p \in Created \cup {o} |->
           IF p = o THEN [live |-> TRUE, worker |-> on, escrow |-> amount] ELSE orders[p]]
    /\ balance' = balance - amount
    /\ fresh' = IF lag THEN fresh \cup {o} ELSE fresh

\* The order is created and the answer arrives.
ExecuteCreate(o) ==
    /\ CreateOrder(o, Job.amount, pool, FALSE)
    /\ jobs' = [jobs EXCEPT ![1].id = o] /\ pc' = "persist"
    /\ placed' = placed \cup {o} /\ UNCHANGED upsets

\* The order is created, but its answer is lost (creates are not retried), or it
\* is answered while the list lags behind.
ExecuteCreateUpset(o) ==
    /\ Upset
    /\ placed' = placed \cup {o}
    /\ \/ CreateOrder(o, Job.amount, pool, FALSE) /\ NextJob
       \/ /\ CreateOrder(o, Job.amount, pool, TRUE)
          /\ jobs' = [jobs EXCEPT ![1].id = o] /\ pc' = "persist"

\* NiceHash ends the order and returns what is left in escrow.
CancelOrder(o) ==
    IF orders[o].live
      THEN /\ orders' = [orders EXCEPT ![o].live = FALSE, ![o].escrow = 0]
           /\ balance' = balance + orders[o].escrow
      ELSE UNCHANGED <<orders, balance>>

\* A cancel is idempotent and retried: whether its answer arrives or not, the
\* ledger keeps the id.  Recording its status may fail, which aborts the tick.
ExecuteCancel ==
    /\ CancelOrder(Job.id)
    /\ \/ NextJob /\ UNCHANGED upsets
       \/ Upset /\ AbortTick
    /\ UNCHANGED <<fresh, placed>>

\* NiceHash moves the amount from the balance to the escrow.
RefillOrder(o, amount) ==
    IF orders[o].live /\ balance >= amount
      THEN /\ orders' = [orders EXCEPT ![o].escrow = @ + amount]
           /\ balance' = balance - amount
      ELSE UNCHANGED <<orders, balance>>

\* Mutant: a refill whose answer is lost is sent again, like a read.
ExecuteRefill_Retried ==
    /\ \/ RefillOrder(Job.id, Job.amount) /\ UNCHANGED upsets
       \/ /\ Upset /\ orders[Job.id].live /\ balance >= 2 * Job.amount
          /\ orders' = [orders EXCEPT ![Job.id].escrow = @ + 2 * Job.amount]
          /\ balance' = balance - 2 * Job.amount
    /\ NextJob /\ UNCHANGED <<fresh, placed>>

\* A refill is sent once, answered or not.
ExecuteRefill ==
    /\ RefillOrder(Job.id, Job.amount)
    /\ NextJob /\ UNCHANGED <<fresh, placed, upsets>>

\* The request does not reach NiceHash, or is refused.
ExecuteFailed ==
    /\ Upset /\ NextJob /\ UNCHANGED <<orders, fresh, balance, placed>>

Execute ==
    /\ pc = "execute"
    /\ CASE Job.kind = "create" ->
              \/ \E o \in Ids \ Created : ExecuteCreate(o) \/ ExecuteCreateUpset(o)
              \/ ExecuteFailed
              \/ /\ Job.amount > balance \/ Ids = Created
                 /\ NextJob /\ UNCHANGED <<orders, fresh, balance, placed, upsets>>
         [] Job.kind = "cancel" -> ExecuteCancel \/ ExecuteFailed
         [] Job.kind = "refill" -> ExecuteRefill \/ ExecuteFailed
    /\ UNCHANGED <<ledger, worker, poolKey, pool, known, misreads>>

\* The answered create is recorded; a failing write aborts the tick.
Persist ==
    /\ pc = "persist"
    /\ \/ ledger' = ledger \cup {Job.id} /\ NextJob /\ UNCHANGED upsets
       \/ Upset /\ AbortTick /\ UNCHANGED ledger
    /\ UNCHANGED <<orders, fresh, balance, worker, poolKey, pool, known, placed, misreads>>

-----------------------------------------------------------------------------
(* The world around the daemon. *)

\* The process dies and boots: the ledger and the settings survive, and the pool is
\* registered again, or is not.
Restart ==
    /\ Upset
    /\ pool' \in {worker, NoWorker} /\ poolKey' = worker
    /\ known' = {} /\ jobs' = <<>> /\ pc' = "reload"
    /\ UNCHANGED <<orders, fresh, balance, ledger, worker, placed, misreads>>

\* The operator edits the pool worker on the config page.
EditWorker ==
    /\ Upset /\ worker' \in (Workers \cup {NoWorker}) \ {worker}
    /\ UNCHANGED <<orders, fresh, balance, ledger, daemon, placed, misreads>>

\* The operator places an order by hand, on any worker.
OperatorCreates ==
    /\ Upset
    /\ \E o \in Ids \ Created, on \in Workers : CreateOrder(o, MinAmount, on, FALSE)
    /\ UNCHANGED <<ledger, worker, daemon, placed, misreads>>

\* The operator cancels an order by hand.
OperatorCancels ==
    /\ Upset
    /\ \E o \in Live : CancelOrder(o)
    /\ UNCHANGED <<fresh, ledger, worker, daemon, placed, misreads>>

\* An order spends a unit of its escrow; an empty one is completed.
Drain ==
    /\ \E o \in Live :
           orders' = [orders EXCEPT ![o].escrow = @ - 1, ![o].live = orders[o].escrow > 1]
    /\ UNCHANGED <<fresh, balance, ledger, worker, daemon, placed, misreads, upsets>>

\* The list catches up.
CatchUp ==
    /\ \E o \in fresh : fresh' = fresh \ {o}
    /\ UNCHANGED <<orders, balance, ledger, worker, daemon, placed, misreads, upsets>>

Tick == Reload \/ Observe \/ Execute \/ Persist

Next ==
    \/ Tick \/ RunNow \/ Restart
    \/ EditWorker \/ OperatorCreates \/ OperatorCancels \/ Drain \/ CatchUp

Spec == Init /\ [][Next]_vars

\* The loop never stops ticking and reloads before each of its ticks, however often
\* the dashboard starts one in between; reads do not fail for ever, and the list
\* catches up.
FairSpec ==
    /\ Spec /\ WF_vars(Tick) /\ SF_vars(Reload) /\ SF_vars(ObserveFully)
    /\ WF_vars(CatchUp)

-----------------------------------------------------------------------------
(* Properties. *)

\* The daemon's live orders: at most one, and one more for every lost answer, crash,
\* lag or edit there has been.  In an undisturbed account there are never two.
DuplicatesNeedUpset == Cardinality(placed \cap Live) <= 1 + upsets

\* An order is topped up at most to one top-up above the low-escrow mark, and one
\* more for every wrong reading of it there has been: neither a lost answer nor a
\* crash nor a repeated tick pays twice.
EscrowBounded ==
    \A o \in placed :
        orders[o].escrow <= Max({LowEscrow + RefillAmount, Budget})
                                + misreads * RefillAmount

\* execute.ts: escrow is spent once, on orders the exchange really has.
OrdersInv == TypeOK /\ EscrowBounded

\* The orders a tick would find its own.
Managed == {o \in Live : o \in ledger \/ orders[o].worker = worker}

\* Nothing to create an order from; the second disjunct is the model's bound.
CannotCreate == balance < MinAmount \/ Created = Ids

\* When the upsets are over the daemon runs exactly one order, for as long as the
\* money lasts, whatever doubles lost answers, crashes and edits left behind
\* (decide.ts: "Keep one order").
SettlesOnOne ==
    <>[](\/ pool = NoWorker
         \/ Cardinality(Managed) = 1
         \/ Managed = {} /\ CannotCreate)

=============================================================================
