-------------------------------- MODULE Deposits --------------------------------
(***************************************************************************)
(* The watcher of on-chain deposits at Braiins.  A poll walks the page of  *)
(* deposits and announces what its row has no flag for: seen, available,   *)
(* returned.  The database answers at once, Braiins and Telegram do not:   *)
(* between an alert and its flag the process may die, deposits move on,    *)
(* and the timer may start a poll beside the one that still waits.         *)
(***************************************************************************)
EXTENDS Integers, SequencesExt

CONSTANTS
    Txs,        \* deposits
    Polls,      \* polls that may run at the same time
    MaxUpsets   \* bound: restarts, overlapping polls, failed calls and writes,
                \* notifications switched on and off

ASSUME DepositsAssumption == Polls # {} /\ MaxUpsets \in Nat

VARIABLES
    \* Braiins.
    status,     \* deposit -> where it is in its life
    \* The database.
    rows,       \* deposits that have a row
    flags,      \* <<deposit, kind>> of the notified_* flags that are set
    enabled,    \* notify_on_braiins_deposit, and the event class is not disabled
    \* The process.
    hydrated,   \* the first poll is behind us
    polls,      \* poll -> [pc, page, notify, jobs]
    \* Bookkeeping of the model.
    alerts,     \* deposit -> kind -> alerts recorded
    silenced,   \* <<deposit, kind>> flagged without an alert
    backlog,    \* <<deposit, kind>> that were true when an empty table met the first page
    overlapped, \* two polls have run at the same time
    hushed,     \* notifications were off, or the table could not be counted
    upsets

bookkeeping == <<alerts, silenced, backlog, overlapped, hushed>>
vars == <<status, rows, flags, enabled, hydrated, polls, bookkeeping, upsets>>

Kinds == {"detected", "available", "returned"}
Statuses == {"unknown", "detected", "credited", "returned"}

Idle == [pc |-> "idle", page |-> << >>, notify |-> FALSE, jobs |-> << >>]
Upset == upsets < MaxUpsets /\ upsets' = upsets + 1

\* The events a status stands for.
EventsOf(s) ==
    CASE s = "unknown" -> {}
      [] s = "detected" -> {"detected"}
      [] s = "credited" -> {"detected", "available"}
      [] s = "returned" -> {"detected", "returned"}

\* The account may have a history, the table has none.
Init ==
    /\ status \in [Txs -> Statuses]
    /\ rows = {} /\ flags = {} /\ enabled = TRUE
    /\ hydrated = FALSE /\ polls = [p \in Polls |-> Idle]
    /\ alerts = [tx \in Txs |-> [k \in Kinds |-> 0]] /\ silenced = {} /\ backlog = {}
    /\ overlapped = FALSE /\ hushed = FALSE /\ upsets = 0

-----------------------------------------------------------------------------
(* tick(). *)

Alone == \A p \in Polls : polls[p].pc = "idle"
Page == {tx \in Txs : status[tx] # "unknown"}

\* Mutant: every first page of a process is taken for a backlog.
IsBaseline_EveryBoot(counted) == ~hydrated /\ Page # {}

\* The first poll finds deposits and an empty table, or one it cannot count.
IsBaseline(counted) == ~hydrated /\ Page # {} /\ (rows = {} \/ ~counted)

\* Braiins has answered: from here on the page is what the poll believes.  A poll that
\* fails does nothing.
StartPoll(p) ==
    /\ polls[p].pc = "idle"
    /\ \E counted \in BOOLEAN :
           /\ IF counted /\ Alone THEN UNCHANGED upsets ELSE Upset
           /\ ~counted => ~hydrated
           /\ hushed' = (hushed \/ ~counted)
           /\ overlapped' = (overlapped \/ ~Alone)
           /\ polls' = [polls EXCEPT ![p] =
                  IF Page = {} THEN Idle
                  ELSE [@ EXCEPT !.pc = "walk", !.page = [tx \in Page |-> status[tx]],
                                 !.notify = enabled /\ ~IsBaseline(counted)]]
    /\ backlog' = (IF rows = {} /\ ~hydrated
                   THEN UNION {{tx} \X EventsOf(status[tx]) : tx \in Txs} ELSE backlog)
    /\ hydrated' = TRUE
    /\ UNCHANGED <<status, rows, flags, enabled, alerts, silenced>>

\* Mutant: a credit counts even when the deposit was returned.
JobsFor_CreditAnyway(tx, seen) ==
    LET due(k) == IF <<tx, k>> \in flags THEN << >> ELSE <<k>>
    IN  due("detected")
            \o (IF seen = "returned" THEN due("returned") \o due("available") ELSE << >>)
            \o (IF seen = "credited" THEN due("available") ELSE << >>)

\* What the poll will do for a deposit, by the flags its row has now.  "settle" flags the
\* credit of a returned deposit, which will not come.
JobsFor(tx, seen) ==
    LET due(k) == IF <<tx, k>> \in flags THEN << >> ELSE <<k>>
    IN  due("detected")
            \o (IF seen = "returned" /\ due("returned") # << >>
                THEN <<"returned">> \o (IF due("available") # << >> THEN <<"settle">> ELSE << >>)
                ELSE << >>)
            \o (IF seen = "credited" THEN due("available") ELSE << >>)

\* The poll goes on with these jobs and this page, or ends.
Goes(p, jobs, page) ==
    polls' = [polls EXCEPT ![p] =
                 IF jobs = << >> /\ page = << >> THEN Idle
                 ELSE [@ EXCEPT !.pc = "walk", !.jobs = jobs, !.page = page]]

\* The next deposit of the page, in whatever order Braiins lists them: its row is written
\* and read back.
Visit(p) ==
    /\ polls[p].pc = "walk" /\ polls[p].jobs = << >>
    /\ \E tx \in DOMAIN polls[p].page :
           LET page == polls[p].page
               jobs == JobsFor(tx, page[tx])
           IN  /\ rows' = rows \cup {tx}
               /\ Goes(p, [i \in DOMAIN jobs |-> <<tx, jobs[i]>>],
                       Restrict(page, DOMAIN page \ {tx}))
    /\ UNCHANGED <<status, flags, enabled, hydrated, bookkeeping, upsets>>

Job(p) == Head(polls[p].jobs)
AtJob(p, pc) == polls[p].pc = pc /\ polls[p].jobs # << >>
JobDone(p) == Goes(p, Tail(polls[p].jobs), polls[p].page)
IsLoud(p) == Job(p)[2] # "settle" /\ polls[p].notify /\ enabled

\* The flag is set without a message: notifications are off, this is the baseline, or a
\* credit that will not come is settled.
Absorb(p) ==
    LET flag == IF Job(p)[2] = "settle" THEN <<Job(p)[1], "available">> ELSE Job(p)
    IN  /\ AtJob(p, "walk") /\ ~IsLoud(p)
        /\ flags' = flags \cup {flag}
        /\ silenced' = (IF Job(p)[2] = "settle" THEN silenced ELSE silenced \cup {flag})
        /\ JobDone(p)
        /\ UNCHANGED <<status, rows, enabled, hydrated, alerts, backlog, overlapped, hushed,
                       upsets>>

\* recordAlert() writes the alert and waits for Telegram.
RecordAlert(p) ==
    /\ AtJob(p, "walk") /\ IsLoud(p)
    /\ alerts' = [alerts EXCEPT ![Job(p)[1]][Job(p)[2]] = @ + 1]
    /\ polls' = [polls EXCEPT ![p].pc = "tell"]
    /\ UNCHANGED <<status, rows, flags, enabled, hydrated, silenced, backlog, overlapped,
                   hushed, upsets>>

\* Mutant: every message flags the deposit as seen.
MarkNotified_Detected(p) ==
    /\ AtJob(p, "tell")
    /\ flags' = flags \cup {<<Job(p)[1], "detected">>}
    /\ JobDone(p)
    /\ UNCHANGED <<status, rows, enabled, hydrated, bookkeeping, upsets>>

MarkNotified(p) ==
    /\ AtJob(p, "tell")
    /\ flags' = flags \cup {Job(p)}
    /\ JobDone(p)
    /\ UNCHANGED <<status, rows, enabled, hydrated, bookkeeping, upsets>>

\* Mutant: the flag is set when the alert could not be recorded.
NotifyFails_Flags(p) ==
    /\ AtJob(p, "walk") /\ IsLoud(p)
    /\ Upset /\ JobDone(p)
    /\ flags' = flags \cup {Job(p)}
    /\ UNCHANGED <<status, rows, enabled, hydrated, bookkeeping>>

\* The alert or its flag cannot be written: the next poll has another try.
NotifyFails(p) ==
    /\ \/ AtJob(p, "walk") /\ IsLoud(p)
       \/ AtJob(p, "tell")
    /\ Upset /\ JobDone(p)
    /\ UNCHANGED <<status, rows, flags, enabled, hydrated, bookkeeping>>

Poll(p) ==
    StartPoll(p) \/ Visit(p) \/ Absorb(p) \/ RecordAlert(p) \/ MarkNotified(p)

-----------------------------------------------------------------------------
(* Braiins, the operator, the process. *)

\* A deposit is seen, credited and perhaps sent back.
Moves == {<<"unknown", "detected">>, <<"detected", "credited">>, <<"detected", "returned">>,
          <<"credited", "returned">>}

Move(tx) ==
    /\ \E to \in Statuses :
           <<status[tx], to>> \in Moves /\ status' = [status EXCEPT ![tx] = to]
    /\ UNCHANGED <<rows, flags, enabled, hydrated, polls, bookkeeping, upsets>>

Switch ==
    /\ Upset /\ enabled' = ~enabled /\ hushed' = TRUE
    /\ UNCHANGED <<status, rows, flags, hydrated, polls, alerts, silenced, backlog, overlapped>>

\* Also what a failed write of a row or of a silent flag comes to: nobody catches it.
Restart ==
    /\ Upset
    /\ hydrated' = FALSE /\ polls' = [p \in Polls |-> Idle]
    /\ UNCHANGED <<status, rows, flags, enabled, bookkeeping>>

-----------------------------------------------------------------------------

Next ==
    \/ \E p \in Polls : Poll(p) \/ NotifyFails(p)
    \/ \E tx \in Txs : Move(tx)
    \/ Switch \/ Restart

Spec == Init /\ [][Next]_vars

\* The timer fires for ever and every call returns.
FairSpec == Spec /\ \A p \in Polls : WF_vars(Poll(p))

-----------------------------------------------------------------------------
(* Properties. *)

TypeOK ==
    /\ status \in [Txs -> Statuses] /\ rows \subseteq Txs /\ flags \subseteq rows \X Kinds
    /\ silenced \subseteq flags /\ enabled \in BOOLEAN /\ hydrated \in BOOLEAN
    /\ \A p \in Polls :
           /\ polls[p].pc \in {"idle", "walk", "tell"}
           /\ polls[p].pc = "idle" => polls[p] = Idle
           /\ polls[p].pc = "walk" => polls[p].jobs # << >> \/ polls[p].page # << >>
           /\ polls[p].pc = "tell" => polls[p].jobs # << >>

\* "each event fires exactly once": twice takes an upset (a crash or a failed write between
\* the alert and its flag, or polls that overlap), and an upset costs one message at most.
AlertedOnce ==
    TypeOK /\ \A tx \in Txs : \A k \in Kinds : alerts[tx][k] <= 1 + upsets

\* "Returned cancels the available path": money that was announced as sent back is not
\* announced as available, unless a poll that overlapped still believed so.
NoCreditAfterReturn ==
    [][\A tx \in Txs :
          alerts'[tx]["available"] > alerts[tx]["available"] /\ ~overlapped
              => alerts[tx]["returned"] = 0]_vars

\* Silence is for the backlog of a new installation: nothing else is passed over, not by a
\* later restart and not by the baseline of a table that has rows; and the backlog is announced
\* only when an upset broke the baseline off.
SilenceIsForBacklog ==
    /\ ~hushed => silenced \subseteq backlog
    /\ upsets = 0 => \A e \in backlog : alerts[e[1]][e[2]] = 0

\* Money that comes back is announced, or was passed over on purpose.
ReturnsAreTold ==
    \A tx \in Txs : status[tx] = "returned"
        ~> alerts[tx]["returned"] > 0 \/ <<tx, "returned">> \in silenced
=============================================================================
