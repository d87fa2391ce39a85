---------------------------- MODULE AlertLifecycle ----------------------------
(***************************************************************************)
(* One class of alerts of the Braiins daemon, from the tick that sees the  *)
(* bad state to the Telegram message: the detector's transitions, the      *)
(* alerts table, and the deliveries and retries that every tick starts and *)
(* nobody waits for.                                                       *)
(***************************************************************************)
EXTENDS Integers, Sequences, FiniteSets

CONSTANTS
    Evals,          \* bound: evaluations in flight
    Sweeps,         \* bound: retry sweeps in flight
    Threshold,      \* the alert threshold of the class, in ticks
    Retry,          \* notification_retry_interval_minutes, in ticks
    MaxAttempts,    \* MAX_TOTAL_ATTEMPTS
    MaxOutages,     \* bound: bad episodes
    MaxUpsets       \* bound: restarts, acknowledgements, config edits, and overlapping
                    \* ticks, which count twice

ASSUME AlertAssumption ==
    /\ IsFiniteSet(Evals) /\ IsFiniteSet(Sweeps) /\ Evals \cap Sweeps = {}
    /\ {Threshold, MaxOutages, MaxUpsets} \subseteq Nat
    /\ {Retry, MaxAttempts} \subseteq Nat \ {0}

VARIABLES
    rows,       \* the alerts table, in the order of its ids
    ev,         \* EventState: [age of the bad state, active alert]
    tasks,      \* the evaluations and sweeps in flight
    muted,      \* notifications_muted
    enabled,    \* the class is not in notification_disabled_event_classes
    outage,     \* the bad state holds
    \* Bookkeeping of the model.
    outages,    \* the bad episodes so far
    epoch,      \* how often the class was disabled
    restarts,
    overlaps,   \* ticks that found an evaluation or a sweep of an earlier one in flight
    upsets

vars == <<rows, ev, tasks, muted, enabled, outage, outages, epoch, restarts, overlaps, upsets>>

world == <<muted, enabled, outage, outages, epoch, restarts, overlaps, upsets>>

None == -1
INITIAL == [age |-> None, active |-> 0]

\* sends and late count the messages of a row, and those after it was seen.
Row == [kind : {"firing", "recovery"}, pairs : Nat,
        status : {"pending", "sent", "failed", "muted", "gave_up"},
        attempts : Nat, wait : {None} \cup 0..Retry, acked : BOOLEAN,
        episode : Nat, epoch : Nat, sends : Nat, late : Nat]

Idle == [at |-> "idle"]

TypeOK ==
    /\ \A i \in DOMAIN rows : rows[i] \in Row
    /\ ev.age \in {None} \cup 0..Threshold /\ ev.active \in 0..Len(rows)
    /\ DOMAIN tasks = Evals \cup Sweeps
    /\ \A t \in DOMAIN tasks : tasks[t].at \in {"send", "mark"} => rows[tasks[t].row] \in Row
    /\ {muted, enabled, outage} \subseteq BOOLEAN
    /\ outages \in 0..MaxOutages /\ upsets \in 0..MaxUpsets
    /\ restarts \in 0..upsets /\ overlaps \in 0..upsets /\ epoch \in 0..upsets

Init ==
    /\ rows = <<>> /\ ev = INITIAL
    /\ tasks = [t \in Evals \cup Sweeps |-> Idle]
    /\ muted = FALSE /\ enabled = TRUE /\ outage = FALSE
    /\ outages = 0 /\ epoch = 0 /\ restarts = 0 /\ overlaps = 0
    /\ upsets = 0

-----------------------------------------------------------------------------
(* The queries of the alerts table. *)

\* The rows to retry.
nextDueRetries(rs) ==
    {i \in DOMAIN rs : /\ rs[i].wait = 0
                       /\ rs[i].status \in {"pending", "failed", "muted"}
                       /\ ~rs[i].acked}

Paired(rs, i) == \E j \in DOMAIN rs : rs[j].pairs = i
Open(rs) == {i \in DOMAIN rs : rs[i].kind = "firing" /\ ~Paired(rs, i)}

\* Mutant: a boot starts from nothing.
hydrate_Forgets == INITIAL

\* A boot inherits the most recent open alert.
hydrate ==
    IF Open(rows) = {} THEN INITIAL
    ELSE [age |-> Threshold, active |-> CHOOSE i \in Open(rows) : \A j \in Open(rows) : j <= i]

-----------------------------------------------------------------------------
(* A tick starts an evaluation and a sweep and waits for neither. *)

\* A tick's length passes for every timer.
Aged(n, most) == IF n = None \/ n = most THEN n ELSE n + 1
Sooner(n) == IF n \in {None, 0} THEN n ELSE n - 1

InFlight == {t \in DOMAIN tasks : tasks[t] # Idle}
Free(ts) == {t \in ts : tasks[t] = Idle}

\* A sweep that finds nothing to retry is over.
Sweeping(due, m) == IF due = {} THEN Idle ELSE [at |-> "next", due |-> due, muted |-> m]

\* Those of earlier ticks may still be in flight.
Overlaps ==
    IF InFlight = {} THEN UNCHANGED <<overlaps, upsets>>
    ELSE /\ upsets + 2 <= MaxUpsets /\ upsets' = upsets + 2
         /\ overlaps' = overlaps + 1

\* A tick beyond the bounds is left out.
Tick ==
    /\ Free(Evals) # {} /\ Free(Sweeps) # {}
    /\ Overlaps
    /\ rows' = [i \in DOMAIN rows |-> [rows[i] EXCEPT !.wait = Sooner(@)]]
    /\ ev' = [ev EXCEPT !.age = Aged(@, Threshold)]
    /\ tasks' = [tasks EXCEPT
           ![CHOOSE e \in Free(Evals) : TRUE] =
               [at |-> "reach", bad |-> outage, off |-> ~enabled,
                episode |-> outages, epoch |-> epoch],
           ![CHOOSE s \in Free(Sweeps) : TRUE] =
               Sweeping(nextDueRetries(rows'), muted)]
    /\ UNCHANGED <<muted, enabled, outage, outages, epoch, restarts>>

\* Mutant: the state is armed anew on every tick.
Fires_Rearmed(t) == t.bad /\ ev.active = 0 /\ Threshold = 0

\* How long the bad state holds, from this tick on if it was good before.
Since == IF ev.age = None THEN 0 ELSE ev.age

\* The bad state has held for the threshold and has no alert yet.
Fires(t) == t.bad /\ ev.active = 0 /\ Since >= Threshold

\* The bad state that was alerted is over.
Recovers(t) == ~t.bad /\ ev.active # 0

\* runTransition, when the evaluation gets to the class: the cases that write no
\* alert.
Reach(e) ==
    LET t == tasks[e]
    IN  /\ t.at = "reach"
        /\ t.off \/ ~(Fires(t) \/ Recovers(t))
        /\ ev' = IF t.off \/ ~t.bad THEN INITIAL ELSE [ev EXCEPT !.age = Since]
        /\ tasks' = [tasks EXCEPT ![e] = Idle]
        /\ UNCHANGED <<rows, world>>

\* The same, when an alert or a recovery is to be recorded; the mute switch is read
\* now.
Decide(e) ==
    LET t == tasks[e]
    IN  /\ t.at = "reach" /\ ~t.off
        /\ Fires(t) \/ Recovers(t)
        /\ tasks' = [tasks EXCEPT ![e] =
               [at |-> "insert", muted |-> muted, episode |-> t.episode, epoch |-> t.epoch,
                kind |-> IF Fires(t) THEN "firing" ELSE "recovery", pairs |-> ev.active]]
        /\ UNCHANGED <<rows, ev, world>>

\* recordAlert: the row, with its first retry far enough away.
Insert(e) ==
    LET t == tasks[e]
    IN  /\ t.at = "insert"
        /\ rows' = Append(rows,
               [kind |-> t.kind, pairs |-> t.pairs, status |-> "pending", attempts |-> 0,
                wait |-> Retry, acked |-> FALSE, episode |-> t.episode, epoch |-> t.epoch,
                sends |-> 0, late |-> 0])
        /\ tasks' = [tasks EXCEPT ![e] =
               [at |-> "get", row |-> Len(rows) + 1, muted |-> t.muted]]
        /\ UNCHANGED <<ev, world>>

-----------------------------------------------------------------------------
(* attemptDelivery, of an evaluation or a sweep. *)

\* The row is read again, for the number of its attempts.
Attempt(i, m, due) ==
    [at |-> IF m THEN "mark" ELSE "send", row |-> i, muted |-> m, due |-> due,
     attempts |-> rows[i].attempts, ok |-> FALSE]

Get(e) ==
    LET t == tasks[e]
    IN  /\ t.at = "get"
        /\ tasks' = [tasks EXCEPT ![e] = Attempt(t.row, t.muted, {})]
        /\ UNCHANGED <<rows, ev, world>>

\* The same, when a sweep turns to its next row.
NextDue(s) ==
    LET t == tasks[s]
    IN  /\ t.at = "next"
        /\ \E i \in t.due : tasks' = [tasks EXCEPT ![s] = Attempt(i, t.muted, t.due \ {i})]
        /\ UNCHANGED <<rows, ev, world>>

\* The message is sent, and accepted or not.
Send(d, ok) ==
    LET t == tasks[d]
    IN  /\ t.at = "send"
        /\ rows' = [rows EXCEPT ![t.row].sends = @ + 1,
                                ![t.row].late = IF rows[t.row].acked THEN @ + 1 ELSE @]
        /\ tasks' = [tasks EXCEPT ![d].at = "mark", ![d].ok = ok]
        /\ UNCHANGED <<ev, world>>

computeNextRetry(attemptsAfter) == IF attemptsAfter >= MaxAttempts THEN None ELSE Retry

\* Mutant: a failed attempt is not counted.
Marked_Uncounted(r, t) ==
    IF t.ok THEN [r EXCEPT !.status = "sent", !.wait = None, !.attempts = @ + 1]
    ELSE [r EXCEPT !.status = IF t.muted THEN "muted" ELSE "failed", !.wait = Retry]

\* The row after the attempt: sent, muted, failed or given up; counted by the
\* table, scheduled by the count that was read.
Marked(r, t) ==
    LET next == computeNextRetry(t.attempts + 1)
        status == IF t.ok THEN "sent" ELSE IF t.muted THEN "muted"
                  ELSE IF next = None THEN "gave_up" ELSE "failed"
    IN  [r EXCEPT !.status = status, !.wait = IF t.ok THEN None ELSE next,
                  !.attempts = @ + 1]

\* What an evaluation makes of the class: its alert becomes the active one, its
\* recovery ends the bad state, delivered or not.
Settled(t) ==
    IF rows[t.row].kind = "firing" THEN [age |-> Threshold, active |-> t.row] ELSE INITIAL

\* The attempt is recorded, and the evaluation or the sweep goes on.
Mark(d) ==
    LET t == tasks[d]
    IN  /\ t.at = "mark"
        /\ rows' = [rows EXCEPT ![t.row] = Marked(@, t)]
        /\ ev' = IF d \in Evals THEN Settled(t) ELSE ev
        /\ tasks' = [tasks EXCEPT ![d] =
               IF d \in Evals THEN Idle ELSE Sweeping(t.due, t.muted)]
        /\ UNCHANGED world

-----------------------------------------------------------------------------
(* The world around the daemon. *)

OutageBegins ==
    /\ ~outage /\ outages < MaxOutages
    /\ outage' = TRUE /\ outages' = outages + 1
    /\ UNCHANGED <<rows, ev, tasks, muted, enabled, epoch, restarts, overlaps, upsets>>

OutageEnds ==
    /\ outage /\ outage' = FALSE
    /\ UNCHANGED <<rows, ev, tasks, muted, enabled, outages, epoch, restarts, overlaps,
                   upsets>>

Upset == upsets < MaxUpsets /\ upsets' = upsets + 1

\* "Mark as seen", for one row (the dashboard or Telegram) or for all of them.
Acknowledge ==
    /\ Upset
    /\ \E seen \in {DOMAIN rows} \cup {{i} : i \in DOMAIN rows} :
           rows' = [i \in DOMAIN rows |-> [rows[i] EXCEPT !.acked = @ \/ i \in seen]]
    /\ UNCHANGED <<ev, tasks, muted, enabled, outage, outages, epoch, restarts, overlaps>>

EditMute ==
    /\ Upset /\ muted' = ~muted
    /\ UNCHANGED <<rows, ev, tasks, enabled, outage, outages, epoch, restarts, overlaps>>

EditClass ==
    /\ Upset /\ enabled' = ~enabled
    /\ epoch' = IF enabled THEN epoch + 1 ELSE epoch
    /\ UNCHANGED <<rows, ev, tasks, muted, outage, outages, restarts, overlaps>>

\* The process dies, with all it had in flight, and boots.
Restart ==
    /\ Upset /\ restarts' = restarts + 1
    /\ ev' = hydrate
    /\ tasks' = [t \in DOMAIN tasks |-> Idle]
    /\ UNCHANGED <<rows, muted, enabled, outage, outages, epoch, overlaps>>

Deliver(d) == (\E ok \in BOOLEAN : Send(d, ok)) \/ Mark(d)

EvalStep(e) == Reach(e) \/ Decide(e) \/ Insert(e) \/ Get(e) \/ Deliver(e)
SweepStep(s) == NextDue(s) \/ Deliver(s)

Next ==
    \/ Tick
    \/ \E e \in Evals : EvalStep(e)
    \/ \E s \in Sweeps : SweepStep(s)
    \/ OutageBegins \/ OutageEnds
    \/ Acknowledge \/ EditMute \/ EditClass \/ Restart

Spec == Init /\ [][Next]_vars

\* Ticks go on, and what they start ends: every send has a time limit.
FairSpec ==
    /\ Spec /\ WF_vars(Tick)
    /\ WF_vars((\E e \in Evals : EvalStep(e)) \/ \E s \in Sweeps : SweepStep(s))

-----------------------------------------------------------------------------
(* Properties. *)

Firing == {i \in DOMAIN rows : rows[i].kind = "firing"}

\* The alerts of the same outage.
Twins(i) == {j \in Firing : rows[j].episode = rows[i].episode /\ rows[j].epoch = rows[i].epoch}

\* The recoveries of an alert.
Pairing(i) == {j \in DOMAIN rows : rows[j].pairs = i}

\* An outage is alerted once, and once more at most for every overlapping tick.
OneAlertPerOutage == \A i \in Firing : Cardinality(Twins(i)) <= 1 + overlaps

\* So does an alert recover.
OneRecoveryPerAlert == \A i \in DOMAIN rows : Cardinality(Pairing(i)) <= 1 + overlaps

\* A row is not sent without end.
AttemptsBounded == \A i \in DOMAIN rows : rows[i].sends <= MaxAttempts + restarts + overlaps

\* What was in flight when a row was seen may still come.
SeenIsQuiet == \A i \in DOMAIN rows : rows[i].late <= 1 + overlaps

\* alerts.ts, alert-manager.ts, alert-evaluator.ts: the table never holds two alerts of one
\* outage or two recoveries of one alert, and nothing is sent without end or again after it
\* was seen, wherever a restart or an edit falls. An evaluation or a sweep that outlasts its
\* tick can break each of these promises, but only once for every tick that overlaps it.
AlertsInv ==
    TypeOK /\ OneAlertPerOutage /\ OneRecoveryPerAlert /\ AttemptsBounded /\ SeenIsQuiet

\* Every alert comes to rest: delivered, given up or seen; none is retried for ever.
EveryAlertSettles ==
    <>[](\A i \in DOMAIN rows : rows[i].wait = None \/ rows[i].acked)

\* An outage that lasts is alerted.
LastingOutageAlerts == <>[](outage /\ enabled) => <>[](Open(rows) # {})

\* When the outages are over, every alert has its recovery, through any restart, unless
\* the class was disabled; but for one alert for every overlapping tick.
RecoveryFollows ==
    <>[](~outage /\ enabled /\ epoch = 0) => <>[](Cardinality(Open(rows)) <= overlaps)

=============================================================================
