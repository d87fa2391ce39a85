------------------------- MODULE AlertLifecycleProofs -------------------------
(***************************************************************************)
(* The alerts, for any evaluations and sweeps in flight, threshold, retry  *)
(* interval, number of attempts, outages and upsets: one alert and one     *)
(* recovery per outage, and bounded, quiet delivery, up to one more of     *)
(* each for every tick that overlaps an earlier one.                       *)
(***************************************************************************)
EXTENDS AlertLifecycle, FiniteSetTheorems, WellFoundedInduction, TLAPS

Waits == {None} \cup 0..Retry

\* What a task may be while the table has n rows.
Reaching == [at : {"reach"}, bad : BOOLEAN, off : BOOLEAN, episode : Nat, epoch : Nat]
Inserting(n) == [at : {"insert"}, muted : BOOLEAN, episode : Nat, epoch : Nat,
                 kind : {"firing", "recovery"}, pairs : 0..n]
Choosing(n) == [at : {"next"}, due : SUBSET (1..n), muted : BOOLEAN]
Getting(n) == [at : {"get"}, row : 1..n, muted : BOOLEAN]
Sending(n) == [at : {"send", "mark"}, row : 1..n, muted : BOOLEAN, due : SUBSET (1..n),
               attempts : Nat, ok : BOOLEAN]

EvalTask(n) ==
    {Idle} \cup Reaching \cup Inserting(n) \cup Getting(n) \cup {t \in Sending(n) : t.due = {}}
SweepTask(n) == {Idle} \cup Choosing(n) \cup Sending(n)

RowsTyped == rows \in Seq(Row)

TasksTyped ==
    /\ DOMAIN tasks = Evals \cup Sweeps
    /\ \A e \in Evals : tasks[e] \in EvalTask(Len(rows))
    /\ \A s \in Sweeps : tasks[s] \in SweepTask(Len(rows))

EvTyped == ev \in [age : {None} \cup 0..Threshold, active : 0..Len(rows)]

WorldTyped ==
    /\ muted \in BOOLEAN /\ enabled \in BOOLEAN /\ outage \in BOOLEAN
    /\ outages \in 0..MaxOutages /\ upsets \in 0..MaxUpsets
    /\ restarts \in 0..upsets /\ overlaps \in 0..upsets /\ epoch \in 0..upsets

Typed == RowsTyped /\ TasksTyped /\ EvTyped /\ WorldTyped

-----------------------------------------------------------------------------
(* The invariant: what is in flight counts with what was done. *)

\* The evaluations in flight.
Busy == {e \in Evals : tasks[e] # Idle}

\* d is delivering row i.
Holds(d, i) == tasks[d].at \in {"get", "send", "mark"} /\ tasks[d].row = i

\* d is to deliver it later.
Plans(d, i) == tasks[d].at \in {"next", "send", "mark"} /\ i \in tasks[d].due

Taken(i) == \E d \in Evals \cup Sweeps : Holds(d, i) \/ Plans(d, i)

\* The tasks that have yet to send row i.
Unsent(i) ==
    {d \in Evals \cup Sweeps : \/ tasks[d].at \in {"get", "send"} /\ tasks[d].row = i
                               \/ Plans(d, i)}

\* d has read row i, and attempts it.
Reads(d, i) == tasks[d].at \in {"send", "mark"} /\ tasks[d].row = i

\* A row is sent once by each task that has it, and counted as often but for the restarts
\* and the overlapping ticks.
Delivered(i) ==
    LET r == rows[i]
        u == Cardinality(Unsent(i))
    IN  /\ r.late + u <= 1 + overlaps
        /\ ~r.acked => r.late = 0
        /\ r.sends + u <= r.attempts + 1 + overlaps + restarts
        /\ r.sends + u <= MaxAttempts + overlaps + restarts
        /\ ~Taken(i) =>
               /\ r.sends <= r.attempts + overlaps + restarts
               /\ r.wait # None => r.sends + 1 <= MaxAttempts + overlaps + restarts
        /\ \A d \in Evals \cup Sweeps :
               Reads(d, i) => r.sends + u <= tasks[d].attempts + 1 + overlaps + restarts

\* A task does not come back to the row it has.
Apart ==
    \A d \in Evals \cup Sweeps :
        tasks[d].at \in {"send", "mark"} => tasks[d].row \notin tasks[d].due

DeliveryInv ==
    /\ Apart
    /\ \A i \in 1..Len(rows) : Delivered(i)

\* The evaluations about to record a recovery of row i.
Carrying(i) == {e \in Evals : tasks[e].at = "insert" /\ tasks[e].pairs = i}

\* The recoveries of row i, recorded or about to be.
Recoveries(i) == Cardinality(Pairing(i)) + Cardinality(Carrying(i))

\* The evaluations that have not finished one.
Recovering(i) ==
    {e \in Evals : \/ tasks[e].at = "insert" /\ tasks[e].pairs = i
                   \/ /\ tasks[e].at \in {"get", "send", "mark"}
                      /\ rows[tasks[e].row].pairs = i}

Recovered(i) ==
    /\ Recoveries(i) <= 1 + overlaps
    /\ ev.active = i => Recoveries(i) <= Cardinality(Recovering(i))
    /\ \A e \in Evals :
           Holds(e, i) /\ rows[i].kind = "firing" => Recoveries(i) = 0 /\ ev.active # i

RecoveryInv ==
    /\ Cardinality(Busy) <= 1 + overlaps
    /\ \A i \in 1..Len(rows) : rows[i].pairs <= Len(rows)
    /\ \A e \in Evals : tasks[e].at = "insert" /\ tasks[e].kind = "firing" => tasks[e].pairs = 0
    /\ \A e, f \in Evals, i \in 1..Len(rows) : Holds(e, i) /\ Holds(f, i) => e = f
    /\ \A i \in 1..Len(rows) : Recovered(i)

\* The alerts of an episode k of a class disabled c times, recorded or about to be.
Alerts(k, c) ==
    {i \in 1..Len(rows) : rows[i].kind = "firing" /\ rows[i].episode = k /\ rows[i].epoch = c}

Telling(k, c) ==
    {e \in Evals : /\ tasks[e].at = "insert" /\ tasks[e].kind = "firing"
                   /\ tasks[e].episode = k /\ tasks[e].epoch = c}

Told(k, c) == Cardinality(Alerts(k, c)) + Cardinality(Telling(k, c))

\* An evaluation that is past the decision to alert it.
Decided(e, k, c) ==
    \/ e \in Telling(k, c)
    \/ tasks[e].at \in {"get", "send", "mark"} /\ tasks[e].row \in Alerts(k, c)

\* The evaluations in flight that are not.
Ahead(k, c) == {e \in Busy : ~Decided(e, k, c)}

\* One that may still decide it.
Sees(e, k, c) ==
    /\ tasks[e].at = "reach" /\ tasks[e].bad /\ ~tasks[e].off
    /\ tasks[e].episode = k /\ tasks[e].epoch = c

Current(k, c) == outage /\ enabled /\ outages = k /\ epoch = c

\* An evaluation older than the episode is in flight.
Stale(k, c) == \E e \in Ahead(k, c) : ~Sees(e, k, c)

Alertable(k, c) == Current(k, c) \/ \E e \in Evals : Sees(e, k, c)

\* An evaluation in flight may add an alert, or clear the active one for another to add one,
\* but not both; one that is older than the episode has cleared nothing yet.
AlertedOnce(k, c) ==
    LET n == Told(k, c) + Cardinality(Ahead(k, c))
    IN  /\ Told(k, c) <= 1 + overlaps
        /\ Alertable(k, c) /\ Ahead(k, c) # {} => n <= 2 + overlaps
        /\ Alertable(k, c) /\ ev.active = 0 => n <= 1 + overlaps
        /\ Current(k, c) /\ Stale(k, c) => n <= 1 + overlaps
        /\ Current(k, c) /\ ev.active = 0 /\ Busy = {} => Told(k, c) <= overlaps
        /\ Current(k, c) /\ (\A i \in Alerts(k, c) : Paired(rows, i)) =>
               Cardinality(Alerts(k, c)) <= overlaps

\* Nothing is told of an episode to come, and nothing new of a disabled class.
Known(k, c) == k <= outages /\ c <= epoch /\ (~enabled => c < epoch)

AlertInv ==
    \A k \in Nat : \A c \in Nat :
        /\ AlertedOnce(k, c)
        /\ \/ Alerts(k, c) # {} \/ Telling(k, c) # {}
           \/ \E e \in Evals : Sees(e, k, c)
           => Known(k, c)

IInv == Typed /\ DeliveryInv /\ RecoveryInv /\ AlertInv

-----------------------------------------------------------------------------
(* Counting. *)

LEMMA LeastOf ==
    ASSUME NEW T \in SUBSET Nat, T # {} PROVE \E x \in T : \A y \in T : x <= y
<1>1. IsWellFoundedOn(OpToRel(<, Nat), Nat)
  BY NatLessThanWellFounded
<1>2. PICK x \in T : \A y \in T : ~(<<y, x>> \in OpToRel(<, Nat))
  BY <1>1, WFMin
<1>3. \A y \in T : ~(y < x)
  BY <1>2 DEF OpToRel
<1> QED BY <1>3

LEMMA GreatestOf ==
    ASSUME NEW n \in Nat, NEW S \in SUBSET (1..n), S # {}
    PROVE  \E x \in S : \A y \in S : y <= x
<1> DEFINE T == {n - x : x \in S}
<1>1. PICK z \in S : TRUE
  OBVIOUS
<1>2. n - z \in T
  BY <1>1
<1>3. T \in SUBSET Nat
  OBVIOUS
<1> HIDE DEF T
<1>4. PICK t \in T : \A u \in T : t <= u
  BY <1>2, <1>3, LeastOf
<1> USE DEF T
<1>5. PICK x \in S : t = n - x
  BY <1>4
<1>6. \A y \in S : t <= n - y
  BY <1>4
<1> QED BY <1>5, <1>6

\* A set that loses nothing but what another keeps is no larger.
LEMMA SubsetCount ==
    ASSUME NEW S, IsFiniteSet(S), NEW T \in SUBSET S
    PROVE  /\ IsFiniteSet(T) /\ Cardinality(S) \in Nat /\ Cardinality(T) \in Nat
           /\ Cardinality(T) <= Cardinality(S)
BY FS_Subset, FS_CardinalityType

LEMMA AddedCount ==
    ASSUME NEW S, IsFiniteSet(S), NEW x, NEW T \in SUBSET (S \cup {x})
    PROVE  /\ Cardinality(S) \in Nat /\ Cardinality(T) \in Nat
           /\ Cardinality(T) <= Cardinality(S) + 1
<1>1. Cardinality(S) \in Nat
  BY FS_CardinalityType
<1>2. /\ IsFiniteSet(S \cup {x})
      /\ Cardinality(S \cup {x}) = IF x \in S THEN Cardinality(S) ELSE Cardinality(S) + 1
  BY FS_AddElement
<1>3. Cardinality(T) <= Cardinality(S \cup {x}) /\ Cardinality(T) \in Nat
  BY <1>2, SubsetCount
<1> QED BY <1>1, <1>2, <1>3

LEMMA RemovedCount ==
    ASSUME NEW S, IsFiniteSet(S), NEW x \in S, NEW T \in SUBSET (S \ {x})
    PROVE  /\ Cardinality(S) \in Nat /\ Cardinality(T) \in Nat
           /\ Cardinality(T) + 1 <= Cardinality(S)
<1>1. Cardinality(S) \in Nat
  BY FS_CardinalityType
<1>2. IsFiniteSet(S \ {x}) /\ Cardinality(S \ {x}) = Cardinality(S) - 1
  BY FS_RemoveElement
<1>3. Cardinality(T) <= Cardinality(S \ {x}) /\ Cardinality(T) \in Nat
  BY <1>2, SubsetCount
<1> QED BY <1>1, <1>2, <1>3

LEMMA EmptyCount == ASSUME NEW S, S = {} PROVE Cardinality(S) = 0
BY FS_EmptySet

LEMMA ZeroCount ==
    ASSUME NEW S, IsFiniteSet(S), Cardinality(S) = 0 PROVE S = {}
BY FS_EmptySet

-----------------------------------------------------------------------------
(* What each action does to the rows and the tasks. *)

\* A table with some rows changed by an operator is a table of the same length.
LEMMA Remade ==
    ASSUME NEW R, NEW q \in Seq(R), NEW q2,
           DOMAIN q2 = DOMAIN q, q2 = [i \in DOMAIN q2 |-> q2[i]],
           \A i \in DOMAIN q : q2[i] \in R
    PROVE  q2 \in Seq(R) /\ Len(q2) = Len(q)
<1>1. Len(q) \in Nat /\ DOMAIN q = 1..Len(q)
  OBVIOUS
<1>2. q2 \in [1..Len(q) -> R]
  BY <1>1
<1> QED BY <1>1, <1>2

\* The table keeps its rows, what they are about, and who saw them.
Kept ==
    /\ RowsTyped' /\ Len(rows') = Len(rows)
    /\ \A i \in 1..Len(rows) :
           /\ rows'[i].kind = rows[i].kind /\ rows'[i].pairs = rows[i].pairs
           /\ rows'[i].episode = rows[i].episode /\ rows'[i].epoch = rows[i].epoch

LEMMA KeptRows == ASSUME RowsTyped, UNCHANGED rows PROVE Kept
BY DEF Kept, RowsTyped

\* One task turns to something else.
Turned(d, new) ==
    /\ DOMAIN tasks' = DOMAIN tasks /\ tasks'[d] = new
    /\ \A x \in DOMAIN tasks : x # d => tasks'[x] = tasks[x]

LEMMA TaskTurned ==
    ASSUME NEW d \in DOMAIN tasks, NEW new, tasks' = [tasks EXCEPT ![d] = new]
    PROVE  Turned(d, new)
BY DEF Turned

\* A tick makes an idle evaluation reach, and an idle sweep go through what is due.
Started(e, s) ==
    /\ tasks[e] = Idle /\ tasks[s] = Idle /\ DOMAIN tasks' = DOMAIN tasks
    /\ tasks'[e] = [at |-> "reach", bad |-> outage, off |-> ~enabled,
                    episode |-> outages, epoch |-> epoch]
    /\ tasks'[s] = Sweeping(nextDueRetries(rows'), muted)
    /\ \A d \in DOMAIN tasks : d \notin {e, s} => tasks'[d] = tasks[d]

LEMMA TickTasks ==
    ASSUME AlertAssumption, TasksTyped, Tick PROVE \E e \in Evals, s \in Sweeps : Started(e, s)
<1> DEFINE e == CHOOSE x \in Free(Evals) : TRUE
           s == CHOOSE x \in Free(Sweeps) : TRUE
           new == [at |-> "reach", bad |-> outage, off |-> ~enabled,
                   episode |-> outages, epoch |-> epoch]
           next == Sweeping(nextDueRetries(rows'), muted)
<1>1. e \in Evals /\ tasks[e] = Idle /\ s \in Sweeps /\ tasks[s] = Idle
  BY DEF Tick, Free
<1>2. tasks' = [tasks EXCEPT ![e] = new, ![s] = next]
  BY DEF Tick
<1>3. e # s /\ DOMAIN tasks = Evals \cup Sweeps
  BY <1>1 DEF AlertAssumption, TasksTyped
<1> HIDE DEF e, s, new, next
<1>4. /\ DOMAIN tasks' = DOMAIN tasks /\ tasks'[e] = new /\ tasks'[s] = next
      /\ \A d \in DOMAIN tasks : d \notin {e, s} => tasks'[d] = tasks[d]
  BY <1>1, <1>2, <1>3
<1> QED BY <1>1, <1>4 DEF Started, new, next

LEMMA TickRows ==
    ASSUME AlertAssumption, RowsTyped, Tick
    PROVE  /\ Kept
           /\ \A i \in 1..Len(rows) :
                  /\ rows'[i].attempts = rows[i].attempts /\ rows'[i].acked = rows[i].acked
                  /\ rows'[i].sends = rows[i].sends /\ rows'[i].late = rows[i].late
                  /\ rows'[i].wait = Sooner(rows[i].wait)
<1>1. rows' = [i \in DOMAIN rows |-> [rows[i] EXCEPT !.wait = Sooner(@)]]
  BY DEF Tick
<1>2. DOMAIN rows = 1..Len(rows) /\ Len(rows) \in Nat /\ \A i \in 1..Len(rows) : rows[i] \in Row
  BY DEF RowsTyped
<1>3. \A w \in Waits : Sooner(w) \in Waits
  BY DEF Sooner, Waits, None, AlertAssumption
<1>4. ASSUME NEW i \in 1..Len(rows)
      PROVE  /\ rows'[i] \in Row
             /\ rows'[i].kind = rows[i].kind /\ rows'[i].pairs = rows[i].pairs
             /\ rows'[i].episode = rows[i].episode /\ rows'[i].epoch = rows[i].epoch
             /\ rows'[i].attempts = rows[i].attempts /\ rows'[i].acked = rows[i].acked
             /\ rows'[i].sends = rows[i].sends /\ rows'[i].late = rows[i].late
             /\ rows'[i].wait = Sooner(rows[i].wait)
  <2>1. rows[i] \in Row /\ rows'[i] = [rows[i] EXCEPT !.wait = Sooner(rows[i].wait)]
    BY <1>1, <1>2
  <2>2. Sooner(rows[i].wait) \in Waits
    BY <2>1, <1>3 DEF Row, Waits
  <2> QED BY <2>1, <2>2 DEF Row, Waits
<1>5. DOMAIN rows' = DOMAIN rows /\ rows' = [i \in DOMAIN rows' |-> rows'[i]]
  BY <1>1
<1>6. rows' \in Seq(Row) /\ Len(rows') = Len(rows)
  BY <1>2, <1>4, <1>5, Remade DEF RowsTyped
<1> QED BY <1>4, <1>6 DEF RowsTyped, Kept

LEMMA InsertRows ==
    ASSUME NEW e \in Evals, AlertAssumption, RowsTyped, TasksTyped, Insert(e)
    PROVE  /\ RowsTyped' /\ Len(rows') = Len(rows) + 1
           /\ \A i \in 1..Len(rows) : rows'[i] = rows[i]
           /\ LET r == rows'[Len(rows) + 1] IN
              /\ r.kind = tasks[e].kind /\ r.pairs = tasks[e].pairs
              /\ r.episode = tasks[e].episode /\ r.epoch = tasks[e].epoch
              /\ r.attempts = 0 /\ r.acked = FALSE /\ r.sends = 0 /\ r.late = 0
              /\ r.wait = Retry
<1> DEFINE new == [kind |-> tasks[e].kind, pairs |-> tasks[e].pairs, status |-> "pending",
                   attempts |-> 0, wait |-> Retry, acked |-> FALSE,
                   episode |-> tasks[e].episode, epoch |-> tasks[e].epoch,
                   sends |-> 0, late |-> 0]
<1>1. rows' = Append(rows, new) /\ tasks[e].at = "insert"
  BY DEF Insert
<1>2. tasks[e] \in Inserting(Len(rows))
  BY <1>1 DEF TasksTyped, EvalTask, Idle, Reaching, Getting, Sending
<1>3. Retry \in Waits
  BY DEF Waits, AlertAssumption
<1>4. new \in Row
  BY <1>2, <1>3 DEF Row, Waits, Inserting
<1> HIDE DEF new
<1>5. /\ rows' \in Seq(Row) /\ Len(rows') = Len(rows) + 1
      /\ \A i \in 1..Len(rows) : rows'[i] = rows[i]
      /\ rows'[Len(rows) + 1] = new
  BY <1>1, <1>4 DEF RowsTyped
<1> QED BY <1>5 DEF new, RowsTyped

\* What a message does to the row it is about.
LEMMA SendRows ==
    ASSUME NEW d, NEW ok, RowsTyped, tasks[d].row \in 1..Len(rows), Send(d, ok)
    PROVE  /\ Kept
           /\ \A i \in 1..Len(rows) :
                  /\ rows'[i].attempts = rows[i].attempts /\ rows'[i].acked = rows[i].acked
                  /\ rows'[i].wait = rows[i].wait
                  /\ i # tasks[d].row => rows'[i] = rows[i]
           /\ LET i == tasks[d].row IN
              /\ rows'[i].sends = rows[i].sends + 1
              /\ rows'[i].late = IF rows[i].acked THEN rows[i].late + 1 ELSE rows[i].late
<1> DEFINE i == tasks[d].row
           r == rows[i]
           late == IF r.acked THEN r.late + 1 ELSE r.late
           r2 == [r EXCEPT !.sends = r.sends + 1, !.late = late]
<1>1. DOMAIN rows = 1..Len(rows) /\ Len(rows) \in Nat /\ r \in Row
  BY DEF RowsTyped
<1>2. rows' = [rows EXCEPT ![i] = r2]
  BY <1>1 DEF Send, Row
<1>3. late \in Nat
  BY <1>1 DEF Row, Waits
<1> HIDE DEF late
<1>4. /\ r2 \in Row /\ r2.kind = r.kind /\ r2.pairs = r.pairs /\ r2.episode = r.episode
      /\ r2.epoch = r.epoch /\ r2.attempts = r.attempts /\ r2.acked = r.acked
      /\ r2.wait = r.wait /\ r2.sends = r.sends + 1 /\ r2.late = late
  <2>1. r \in Row
    BY <1>1
  <2> HIDE DEF r
  <2> DEFINE n == r.sends + 1
  <2>2. n \in Nat
    BY <2>1 DEF Row, Waits
  <2> HIDE DEF n
  <2> QED BY <1>3, <2>1, <2>2 DEF Row, Waits, n
<1> HIDE DEF r2
<1>5. rows' \in Seq(Row) /\ Len(rows') = Len(rows)
  BY <1>2, <1>4 DEF RowsTyped
<1>6. rows'[i] = r2 /\ \A k \in 1..Len(rows) : k # i => rows'[k] = rows[k]
  BY <1>1, <1>2
<1> QED BY <1>4, <1>5, <1>6 DEF RowsTyped, Kept, late

\* The record of an attempt.
LEMMA MarkRows ==
    ASSUME NEW d, AlertAssumption, RowsTyped, tasks[d].row \in 1..Len(rows),
           tasks[d].attempts \in Nat, Mark(d)
    PROVE  /\ Kept
           /\ \A i \in 1..Len(rows) :
                  /\ rows'[i].sends = rows[i].sends /\ rows'[i].late = rows[i].late
                  /\ rows'[i].acked = rows[i].acked
                  /\ i # tasks[d].row => rows'[i] = rows[i]
           /\ LET i == tasks[d].row IN
              /\ rows'[i].attempts = rows[i].attempts + 1
              /\ rows'[i].wait # None => tasks[d].attempts + 1 < MaxAttempts
<1> DEFINE t == tasks[d]
           i == t.row
           r == rows[i]
           next == computeNextRetry(t.attempts + 1)
           status == IF t.ok THEN "sent" ELSE IF t.muted THEN "muted"
                     ELSE IF next = None THEN "gave_up" ELSE "failed"
           wait == IF t.ok THEN None ELSE next
           r2 == [r EXCEPT !.status = status, !.wait = wait, !.attempts = r.attempts + 1]
<1>1. DOMAIN rows = 1..Len(rows) /\ Len(rows) \in Nat /\ r \in Row
  BY DEF RowsTyped
<1>2. rows' = [rows EXCEPT ![i] = r2]
  BY <1>1 DEF Mark, Marked, Row
<1>3. next \in Waits /\ (next # None => t.attempts + 1 < MaxAttempts)
  BY DEF computeNextRetry, Waits, AlertAssumption
<1>4. wait \in Waits /\ (wait # None => t.attempts + 1 < MaxAttempts)
  BY <1>3 DEF Waits
<1>5. status \in {"pending", "sent", "failed", "muted", "gave_up"}
  OBVIOUS
<1> HIDE DEF wait, status, next
<1>6. /\ r2 \in Row /\ r2.kind = r.kind /\ r2.pairs = r.pairs /\ r2.episode = r.episode
      /\ r2.epoch = r.epoch /\ r2.attempts = r.attempts + 1 /\ r2.acked = r.acked
      /\ r2.wait = wait /\ r2.sends = r.sends /\ r2.late = r.late
  <2>1. r \in Row
    BY <1>1
  <2> HIDE DEF r
  <2> DEFINE n == r.attempts + 1
  <2>2. n \in Nat
    BY <2>1 DEF Row, Waits
  <2> HIDE DEF n
  <2> QED BY <1>4, <1>5, <2>1, <2>2 DEF Row, Waits, n
<1> HIDE DEF r2
<1>7. rows' \in Seq(Row) /\ Len(rows') = Len(rows)
  BY <1>2, <1>6 DEF RowsTyped
<1>8. rows'[i] = r2 /\ \A k \in 1..Len(rows) : k # i => rows'[k] = rows[k]
  BY <1>1, <1>2
<1> QED BY <1>4, <1>6, <1>7, <1>8 DEF RowsTyped, Kept

LEMMA AckRows ==
    ASSUME RowsTyped, Acknowledge
    PROVE  /\ Kept
           /\ \A i \in 1..Len(rows) :
                  /\ rows'[i].attempts = rows[i].attempts /\ rows'[i].wait = rows[i].wait
                  /\ rows'[i].sends = rows[i].sends /\ rows'[i].late = rows[i].late
                  /\ rows[i].acked => rows'[i].acked
<1>1. PICK seen : rows' = [i \in DOMAIN rows |-> [rows[i] EXCEPT !.acked = @ \/ i \in seen]]
  BY DEF Acknowledge
<1>2. DOMAIN rows = 1..Len(rows) /\ Len(rows) \in Nat /\ \A i \in 1..Len(rows) : rows[i] \in Row
  BY DEF RowsTyped
<1>3. ASSUME NEW i \in 1..Len(rows)
      PROVE  /\ rows'[i] \in Row
             /\ rows'[i].kind = rows[i].kind /\ rows'[i].pairs = rows[i].pairs
             /\ rows'[i].episode = rows[i].episode /\ rows'[i].epoch = rows[i].epoch
             /\ rows'[i].attempts = rows[i].attempts /\ rows'[i].wait = rows[i].wait
             /\ rows'[i].sends = rows[i].sends /\ rows'[i].late = rows[i].late
             /\ rows[i].acked => rows'[i].acked
  <2> DEFINE a == rows[i].acked \/ i \in seen
  <2>1. rows[i] \in Row /\ rows'[i] = [rows[i] EXCEPT !.acked = a]
    BY <1>1, <1>2
  <2>2. a \in BOOLEAN /\ (rows[i].acked => a)
    OBVIOUS
  <2> HIDE DEF a
  <2> QED BY <2>1, <2>2 DEF Row, Waits
<1>4. DOMAIN rows' = DOMAIN rows /\ rows' = [i \in DOMAIN rows' |-> rows'[i]]
  BY <1>1
<1>5. rows' \in Seq(Row) /\ Len(rows') = Len(rows)
  BY <1>2, <1>3, <1>4, Remade DEF RowsTyped
<1> QED BY <1>3, <1>5 DEF RowsTyped, Kept

-----------------------------------------------------------------------------
(* Type correctness. *)

LEMMA TaskFacts ==
    ASSUME TasksTyped
    PROVE  /\ \A e \in Evals :
                  /\ tasks[e].at \in {"idle", "reach", "insert", "get", "send", "mark"}
                  /\ tasks[e].at = "reach" => tasks[e] \in Reaching
                  /\ tasks[e].at = "insert" => tasks[e] \in Inserting(Len(rows))
                  /\ tasks[e].at = "get" => tasks[e] \in Getting(Len(rows))
                  /\ tasks[e].at \in {"send", "mark"} => tasks[e].due = {}
           /\ \A s \in Sweeps :
                  /\ tasks[s].at \in {"idle", "next", "send", "mark"}
                  /\ tasks[s].at = "next" => tasks[s] \in Choosing(Len(rows))
           /\ \A d \in Evals \cup Sweeps :
                  /\ tasks[d].at \in {"send", "mark"} => tasks[d] \in Sending(Len(rows))
                  /\ tasks[d].at = "idle" <=> tasks[d] = Idle
BY DEF TasksTyped, EvalTask, SweepTask, Idle, Reaching, Inserting, Choosing, Getting, Sending

LEMMA Actions ==
    ASSUME [Next]_vars
    PROVE  \/ Tick
           \/ \E e \in Evals : Reach(e) \/ Decide(e) \/ Insert(e) \/ Get(e)
           \/ \E s \in Sweeps : NextDue(s)
           \/ \E d \in Evals \cup Sweeps : (\E ok \in BOOLEAN : Send(d, ok)) \/ Mark(d)
           \/ OutageBegins \/ OutageEnds
           \/ Acknowledge \/ EditMute \/ EditClass \/ Restart
           \/ UNCHANGED vars
BY DEF Next, EvalStep, SweepStep, Deliver

\* A table that does not shrink keeps the tasks typed.
LEMMA TasksGrow ==
    ASSUME NEW m \in Nat, NEW n \in Nat, m <= n
    PROVE  EvalTask(m) \subseteq EvalTask(n) /\ SweepTask(m) \subseteq SweepTask(n)
<1>1. 1..m \subseteq 1..n /\ 0..m \subseteq 0..n
  OBVIOUS
<1>2. /\ Getting(m) \subseteq Getting(n) /\ Sending(m) \subseteq Sending(n)
      /\ Choosing(m) \subseteq Choosing(n) /\ Inserting(m) \subseteq Inserting(n)
  BY <1>1 DEF Getting, Sending, Choosing, Inserting
<1> QED BY <1>2 DEF EvalTask, SweepTask

LEMMA TurnedTyped ==
    ASSUME TasksTyped, NEW d \in Evals \cup Sweeps, NEW new, Turned(d, new),
           Len(rows) \in Nat, Len(rows') \in Nat, Len(rows) <= Len(rows'),
           d \in Evals => new \in EvalTask(Len(rows')),
           d \in Sweeps => new \in SweepTask(Len(rows'))
    PROVE  TasksTyped'
<1>1. /\ EvalTask(Len(rows)) \subseteq EvalTask(Len(rows'))
      /\ SweepTask(Len(rows)) \subseteq SweepTask(Len(rows'))
  BY TasksGrow
<1> QED BY <1>1 DEF TasksTyped, Turned

LEMMA SameTasksTyped ==
    ASSUME TasksTyped, UNCHANGED tasks, Len(rows') = Len(rows) PROVE TasksTyped'
BY DEF TasksTyped

\* An attempt at a row of the table.
LEMMA AttemptTyped ==
    ASSUME RowsTyped, NEW i \in 1..Len(rows), NEW m \in BOOLEAN,
           NEW due \in SUBSET (1..Len(rows))
    PROVE  Attempt(i, m, due) \in Sending(Len(rows))
<1>1. rows[i] \in Row
  BY DEF RowsTyped
<1>2. rows[i].attempts \in Nat
  BY <1>1 DEF Row
<1> QED BY <1>2 DEF Attempt, Sending

LEMMA SweepingTyped ==
    ASSUME NEW n \in Nat, NEW due \in SUBSET (1..n), NEW m \in BOOLEAN
    PROVE  Sweeping(due, m) \in SweepTask(n)
BY DEF Sweeping, SweepTask, Choosing

LEMMA TasksTypedNext ==
    ASSUME AlertAssumption, Typed, [Next]_vars
    PROVE  RowsTyped' /\ TasksTyped' /\ Len(rows') \in {Len(rows), Len(rows) + 1}
<1>0. /\ RowsTyped /\ TasksTyped /\ EvTyped /\ WorldTyped /\ Len(rows) \in Nat
      /\ DOMAIN tasks = Evals \cup Sweeps /\ DOMAIN rows = 1..Len(rows)
      /\ Evals \cap Sweeps = {}
  BY DEF Typed, RowsTyped, TasksTyped, AlertAssumption
<1> USE <1>0
<1>1. CASE Tick
  <2>1. RowsTyped' /\ Len(rows') = Len(rows)
    BY <1>1, TickRows DEF Kept
  <2>2. PICK e \in Evals, s \in Sweeps : Started(e, s)
    BY <1>1, TickTasks
  <2>3. outages \in Nat /\ epoch \in Nat /\ outage \in BOOLEAN /\ muted \in BOOLEAN
        /\ enabled \in BOOLEAN
    BY DEF WorldTyped, AlertAssumption
  <2>4. nextDueRetries(rows') \in SUBSET (1..Len(rows'))
    BY <2>1 DEF nextDueRetries, RowsTyped
  <2>5. tasks'[s] \in SweepTask(Len(rows'))
    BY <2>1, <2>2, <2>3, <2>4, SweepingTyped DEF Started
  <2>6. tasks'[e] \in Reaching
    BY <2>2, <2>3 DEF Started, Reaching
  <2> QED BY <2>1, <2>2, <2>5, <2>6 DEF TasksTyped, EvalTask, Started
<1>2. ASSUME NEW e \in Evals, Reach(e) PROVE TasksTyped' /\ UNCHANGED rows
  <2>1. UNCHANGED rows /\ Turned(e, Idle)
    BY <1>2, TaskTurned DEF Reach
  <2> QED BY <2>1, TurnedTyped DEF EvalTask
<1>3. ASSUME NEW e \in Evals, Decide(e) PROVE TasksTyped' /\ UNCHANGED rows
  <2> DEFINE new == [at |-> "insert", muted |-> muted, episode |-> tasks[e].episode,
                     epoch |-> tasks[e].epoch,
                     kind |-> IF Fires(tasks[e]) THEN "firing" ELSE "recovery",
                     pairs |-> ev.active]
  <2>1. UNCHANGED rows /\ Turned(e, new) /\ tasks[e].at = "reach"
    BY <1>3, TaskTurned DEF Decide
  <2>2. ev.active \in 0..Len(rows) /\ muted \in BOOLEAN
    BY DEF EvTyped, WorldTyped
  <2>3. tasks[e].episode \in Nat /\ tasks[e].epoch \in Nat
    BY <2>1, TaskFacts DEF Reaching
  <2>4. new \in Inserting(Len(rows))
    BY <2>2, <2>3 DEF Inserting
  <2> HIDE DEF new
  <2> QED BY <2>1, <2>4, TurnedTyped DEF EvalTask
<1>4. ASSUME NEW e \in Evals, Insert(e)
      PROVE  RowsTyped' /\ TasksTyped' /\ Len(rows') = Len(rows) + 1
  <2>1. RowsTyped' /\ Len(rows') = Len(rows) + 1
    BY <1>4, InsertRows
  <2> DEFINE new == [at |-> "get", row |-> Len(rows) + 1, muted |-> tasks[e].muted]
  <2>2. Turned(e, new) /\ tasks[e].at = "insert"
    BY <1>4, TaskTurned DEF Insert
  <2>3. tasks[e].muted \in BOOLEAN
    BY <2>2, TaskFacts DEF Inserting
  <2>4. Len(rows) + 1 \in 1..Len(rows')
    BY <2>1
  <2>5. new \in Getting(Len(rows'))
    BY <2>3, <2>4 DEF Getting
  <2> HIDE DEF new
  <2>6. Len(rows') \in Nat /\ Len(rows) <= Len(rows')
    BY <2>1
  <2> QED BY <2>1, <2>2, <2>5, <2>6, TurnedTyped DEF EvalTask
<1>5. ASSUME NEW e \in Evals, Get(e) PROVE TasksTyped' /\ UNCHANGED rows
  <2> DEFINE new == Attempt(tasks[e].row, tasks[e].muted, {})
  <2>1. UNCHANGED rows /\ Turned(e, new) /\ tasks[e].at = "get"
    BY <1>5, TaskTurned DEF Get
  <2>2. tasks[e].row \in 1..Len(rows) /\ tasks[e].muted \in BOOLEAN
    BY <2>1, TaskFacts DEF Getting
  <2>3. new \in Sending(Len(rows)) /\ new.due = {}
    BY <2>2, AttemptTyped DEF Attempt
  <2> HIDE DEF new
  <2> QED BY <2>1, <2>3, TurnedTyped DEF EvalTask
<1>6. ASSUME NEW s \in Sweeps, NextDue(s) PROVE TasksTyped' /\ UNCHANGED rows
  <2>1. PICK i \in tasks[s].due :
            tasks' = [tasks EXCEPT ![s] = Attempt(i, tasks[s].muted, tasks[s].due \ {i})]
    BY <1>6 DEF NextDue
  <2> DEFINE new == Attempt(i, tasks[s].muted, tasks[s].due \ {i})
  <2>2. UNCHANGED rows /\ Turned(s, new) /\ tasks[s].at = "next"
    BY <1>6, <2>1, TaskTurned DEF NextDue
  <2>3. tasks[s].due \in SUBSET (1..Len(rows)) /\ tasks[s].muted \in BOOLEAN
    BY <2>2, TaskFacts DEF Choosing
  <2>4. new \in Sending(Len(rows))
    BY <2>1, <2>3, AttemptTyped
  <2> HIDE DEF new
  <2> QED BY <2>2, <2>4, TurnedTyped DEF SweepTask
<1>7. ASSUME NEW d \in Evals \cup Sweeps, NEW ok \in BOOLEAN, Send(d, ok)
      PROVE  RowsTyped' /\ TasksTyped' /\ Len(rows') = Len(rows)
  <2>1. tasks[d] \in Sending(Len(rows))
    BY <1>7, TaskFacts DEF Send
  <2>2. RowsTyped' /\ Len(rows') = Len(rows)
    BY <1>7, <2>1, SendRows DEF Sending, Kept
  <2> DEFINE new == [tasks[d] EXCEPT !.at = "mark", !.ok = ok]
  <2>3. Turned(d, new)
    BY <1>7, TaskTurned DEF Send
  <2>4. new \in Sending(Len(rows)) /\ new.due = tasks[d].due
    BY <2>1 DEF Sending
  <2>5. d \in Evals => tasks[d].due = {}
    BY <1>7, TaskFacts DEF Send
  <2> HIDE DEF new
  <2> QED BY <2>2, <2>3, <2>4, <2>5, TurnedTyped DEF EvalTask, SweepTask
<1>8. ASSUME NEW d \in Evals \cup Sweeps, Mark(d)
      PROVE  RowsTyped' /\ TasksTyped' /\ Len(rows') = Len(rows)
  <2>1. tasks[d] \in Sending(Len(rows))
    BY <1>8, TaskFacts DEF Mark
  <2>2. RowsTyped' /\ Len(rows') = Len(rows)
    BY <1>8, <2>1, MarkRows DEF Sending, Kept
  <2> DEFINE next == Sweeping(tasks[d].due, tasks[d].muted)
             new == IF d \in Evals THEN Idle ELSE next
  <2>3. Turned(d, new)
    BY <1>8, TaskTurned DEF Mark
  <2>4. next \in SweepTask(Len(rows))
    BY <2>1, SweepingTyped DEF Sending
  <2> HIDE DEF next
  <2>5. /\ d \in Evals => new \in EvalTask(Len(rows))
        /\ d \in Sweeps => new \in SweepTask(Len(rows))
    BY <2>4 DEF EvalTask
  <2> HIDE DEF new
  <2> QED BY <2>2, <2>3, <2>5, TurnedTyped
<1>9. CASE Acknowledge
  <2>1. RowsTyped' /\ Len(rows') = Len(rows) /\ UNCHANGED tasks
    BY <1>9, AckRows DEF Acknowledge, Kept
  <2> QED BY <2>1, SameTasksTyped
<1>10. CASE Restart
  BY <1>10 DEF Restart, TasksTyped, RowsTyped, EvalTask, SweepTask
<1>11. CASE OutageBegins \/ OutageEnds \/ EditMute \/ EditClass \/ UNCHANGED vars
  <2>1. UNCHANGED <<rows, tasks>>
    BY <1>11 DEF OutageBegins, OutageEnds, EditMute, EditClass, vars
  <2> QED BY <2>1, SameTasksTyped DEF RowsTyped
<1>12. UNCHANGED rows => RowsTyped' /\ Len(rows') = Len(rows)
  BY DEF RowsTyped
<1> QED BY Actions, <1>1, <1>2, <1>3, <1>4, <1>5, <1>6, <1>7, <1>8, <1>9, <1>10, <1>11,
           <1>12

\* A boot takes over an open alert whenever there is one.
LEMMA HydrateOpens ==
    ASSUME RowsTyped
    PROVE  /\ Open(rows) = {} => hydrate = INITIAL
           /\ Open(rows) # {} => hydrate.active \in Open(rows) /\ hydrate.age = Threshold
           /\ hydrate = [age |-> hydrate.age, active |-> hydrate.active]
<1>1. CASE Open(rows) = {}
  BY <1>1 DEF hydrate, INITIAL
<1>2. CASE Open(rows) # {}
  <2> DEFINE last == CHOOSE i \in Open(rows) : \A j \in Open(rows) : j <= i
  <2>1. Open(rows) \in SUBSET (1..Len(rows)) /\ Len(rows) \in Nat
    BY DEF Open, RowsTyped
  <2>2. \E i \in Open(rows) : \A j \in Open(rows) : j <= i
    BY <1>2, <2>1, GreatestOf
  <2>3. last \in Open(rows)
    BY <2>2
  <2>4. hydrate = [age |-> Threshold, active |-> last]
    BY <1>2 DEF hydrate
  <2> HIDE DEF last
  <2> QED BY <1>2, <2>3, <2>4
<1> QED BY <1>1, <1>2

LEMMA EvTypedNext ==
    ASSUME AlertAssumption, Typed, [Next]_vars PROVE EvTyped'
<1> DEFINE Ages == {None} \cup 0..Threshold
<1>0. /\ Len(rows) \in Nat /\ Len(rows') \in {Len(rows), Len(rows) + 1}
      /\ ev \in [age : Ages, active : 0..Len(rows)] /\ TasksTyped /\ RowsTyped
      /\ Threshold \in Nat
  BY TasksTypedNext DEF Typed, RowsTyped, EvTyped, AlertAssumption
<1>1. 0..Len(rows) \subseteq 0..Len(rows')
  BY <1>0
<1>2. ASSUME UNCHANGED ev PROVE EvTyped'
  BY <1>0, <1>1, <1>2 DEF EvTyped
<1>3. INITIAL \in [age : Ages, active : 0..Len(rows)]
  BY <1>0 DEF INITIAL
<1>4. CASE Tick
  <2>1. ev' = [ev EXCEPT !.age = Aged(ev.age, Threshold)]
    BY <1>4 DEF Tick
  <2>2. Aged(ev.age, Threshold) \in Ages
    BY <1>0 DEF Aged
  <2> QED BY <1>0, <1>1, <2>1, <2>2 DEF EvTyped
<1>5. ASSUME NEW e \in Evals, Reach(e) PROVE EvTyped'
  <2>1. \/ ev' = INITIAL
        \/ ev' = [ev EXCEPT !.age = Since]
    BY <1>5 DEF Reach
  <2>2. Since \in Ages
    BY <1>0 DEF Since
  <2> QED BY <1>0, <1>1, <1>3, <2>1, <2>2 DEF EvTyped
<1>6. ASSUME NEW d \in Evals \cup Sweeps, Mark(d) PROVE EvTyped'
  <2>1. ev' = IF d \in Evals THEN Settled(tasks[d]) ELSE ev
    BY <1>6 DEF Mark
  <2>2. tasks[d] \in Sending(Len(rows))
    BY <1>0, <1>6, TaskFacts DEF Mark
  <2>3. tasks[d].row \in 0..Len(rows)
    BY <1>0, <2>2 DEF Sending
  <2>4. Settled(tasks[d]) \in [age : Ages, active : 0..Len(rows)]
    BY <1>0, <1>3, <2>3 DEF Settled
  <2> QED BY <1>0, <1>1, <1>2, <2>1, <2>4 DEF EvTyped
<1>7. CASE Restart
  <2>1. ev' = hydrate
    BY <1>7 DEF Restart
  <2>2. CASE Open(rows) = {}
    BY <1>0, <1>1, <1>3, <2>1, <2>2, HydrateOpens DEF EvTyped
  <2>3. CASE Open(rows) # {}
    <3>1. hydrate.active \in 0..Len(rows) /\ hydrate.age \in Ages
      BY <1>0, <2>3, HydrateOpens DEF Open, RowsTyped
    <3>2. hydrate = [age |-> hydrate.age, active |-> hydrate.active]
      BY <1>0, HydrateOpens
    <3> QED BY <1>1, <2>1, <3>1, <3>2 DEF EvTyped
  <2> QED BY <2>2, <2>3
<1>8. \/ OutageBegins \/ OutageEnds \/ Acknowledge \/ EditMute \/ EditClass \/ UNCHANGED vars
      \/ \E e \in Evals : Decide(e) \/ Insert(e) \/ Get(e)
      \/ \E s \in Sweeps : NextDue(s)
      \/ \E d \in Evals \cup Sweeps, ok \in BOOLEAN : Send(d, ok)
      => UNCHANGED ev
  BY DEF Decide, Insert, NextDue, OutageBegins, OutageEnds, Acknowledge, EditMute, EditClass,
         vars, Get, Send
<1> QED BY Actions, <1>2, <1>4, <1>5, <1>6, <1>7, <1>8

LEMMA WorldTypedNext ==
    ASSUME AlertAssumption, Typed, [Next]_vars PROVE WorldTyped'
<1>1. WorldTyped /\ MaxOutages \in Nat /\ MaxUpsets \in Nat
  BY DEF Typed, AlertAssumption
<1>2. UNCHANGED world => WorldTyped'
  BY <1>1 DEF world, WorldTyped
<1>3. \/ UNCHANGED vars
      \/ \E e \in Evals : Reach(e) \/ Decide(e) \/ Insert(e) \/ Get(e)
      \/ \E s \in Sweeps : NextDue(s)
      \/ \E d \in Evals \cup Sweeps : (\E ok \in BOOLEAN : Send(d, ok)) \/ Mark(d)
      => UNCHANGED world
  BY DEF Reach, Decide, Insert, NextDue, vars, Get, Send, Mark, world
<1>4. CASE Tick
  BY <1>1, <1>4 DEF Tick, Overlaps, WorldTyped
<1>5. CASE OutageBegins
  BY <1>1, <1>5 DEF OutageBegins, WorldTyped
<1>6. CASE OutageEnds
  BY <1>1, <1>6 DEF OutageEnds, WorldTyped
<1>7. CASE Acknowledge
  BY <1>1, <1>7 DEF Acknowledge, Upset, WorldTyped
<1>8. CASE EditMute
  BY <1>1, <1>8 DEF EditMute, Upset, WorldTyped
<1>9. CASE EditClass
  BY <1>1, <1>9 DEF EditClass, Upset, WorldTyped
<1>10. CASE Restart
  BY <1>1, <1>10 DEF Restart, Upset, WorldTyped
<1> QED BY Actions, <1>2, <1>3, <1>4, <1>5, <1>6, <1>7, <1>8, <1>9, <1>10

LEMMA TypedNext ==
    ASSUME AlertAssumption, Typed, [Next]_vars PROVE Typed'
BY TasksTypedNext, EvTypedNext, WorldTypedNext DEF Typed

-----------------------------------------------------------------------------
(* Delivery. *)

LEMMA RowNumbers ==
    ASSUME RowsTyped, NEW i \in 1..Len(rows)
    PROVE  /\ rows[i].sends \in Nat /\ rows[i].late \in Nat /\ rows[i].attempts \in Nat
           /\ rows[i].wait \in Waits /\ rows[i].acked \in BOOLEAN
           /\ rows[i].episode \in Nat /\ rows[i].epoch \in Nat /\ rows[i].pairs \in Nat
<1>1. rows[i] \in Row
  BY DEF RowsTyped
<1> QED BY <1>1 DEF Row, Waits

LEMMA WorldNumbers ==
    ASSUME AlertAssumption, WorldTyped
    PROVE  overlaps \in Nat /\ restarts \in Nat /\ outages \in Nat /\ epoch \in Nat
BY DEF AlertAssumption, WorldTyped

LEMMA UnsentFinite ==
    AlertAssumption => \A i : IsFiniteSet(Unsent(i)) /\ Cardinality(Unsent(i)) \in Nat
<1> SUFFICES ASSUME AlertAssumption, NEW i
             PROVE  IsFiniteSet(Unsent(i)) /\ Cardinality(Unsent(i)) \in Nat
  OBVIOUS
<1>1. IsFiniteSet(Evals \cup Sweeps) /\ Unsent(i) \subseteq Evals \cup Sweeps
  BY FS_Union DEF AlertAssumption, Unsent
<1> QED BY <1>1, SubsetCount

LEMMA UnsentFiniteNext ==
    AlertAssumption => \A i : IsFiniteSet(Unsent(i)') /\ Cardinality(Unsent(i)') \in Nat
<1> SUFFICES ASSUME AlertAssumption, NEW i
             PROVE  IsFiniteSet(Unsent(i)') /\ Cardinality(Unsent(i)') \in Nat
  OBVIOUS
<1>1. IsFiniteSet(Evals \cup Sweeps) /\ Unsent(i)' \subseteq Evals \cup Sweeps
  BY FS_Union DEF AlertAssumption, Unsent
<1> QED BY <1>1, SubsetCount

\* The delivery of row i did not advance.
SameRow(i) ==
    /\ rows'[i].sends = rows[i].sends /\ rows'[i].late = rows[i].late
    /\ rows'[i].attempts = rows[i].attempts
    /\ rows'[i].wait # None => rows[i].wait # None
    /\ rows[i].acked => rows'[i].acked

\* What is in flight for row i goes on, and no more is.
SameFlight(i) ==
    /\ Unsent(i)' \subseteq Unsent(i)
    /\ Taken(i) => Taken(i)'
    /\ \A d \in Evals \cup Sweeps :
           Reads(d, i)' => \/ Reads(d, i) /\ tasks'[d].attempts = tasks[d].attempts
                           \/ tasks'[d].attempts = rows[i].attempts

LEMMA Fewer ==
    ASSUME NEW x \in Nat, NEW u \in Nat, NEW v \in Nat, v <= u, NEW b \in Int, x + u <= b
    PROVE  x + v <= b
OBVIOUS

LEMMA Sums ==
    ASSUME NEW a \in Nat, NEW o \in Nat, NEW r \in Nat
    PROVE  1 + o \in Int /\ a + 1 + o + r \in Int /\ a + o + r \in Int
OBVIOUS

LEMMA DeliveredKept ==
    ASSUME AlertAssumption, Typed, Typed', NEW i \in 1..Len(rows), i \in 1..Len(rows'),
           Delivered(i), SameRow(i), SameFlight(i), UNCHANGED <<overlaps, restarts>>
    PROVE  Delivered(i)'
<1> DEFINE u == Cardinality(Unsent(i))
           v == Cardinality(Unsent(i)')
<1>1. u \in Nat /\ v \in Nat /\ v <= u
  BY UnsentFinite, SubsetCount DEF SameFlight
<1>2. /\ rows[i].sends \in Nat /\ rows[i].late \in Nat /\ rows[i].attempts \in Nat
      /\ overlaps \in Nat /\ restarts \in Nat
  BY RowNumbers, WorldNumbers DEF Typed
<1>3. \A d \in Evals \cup Sweeps : Reads(d, i) => tasks[d].attempts \in Nat
  BY TaskFacts DEF Typed, Reads, Sending
<1>4. /\ rows[i].late + u <= 1 + overlaps
      /\ ~rows[i].acked => rows[i].late = 0
      /\ rows[i].sends + u <= rows[i].attempts + 1 + overlaps + restarts
      /\ rows[i].sends + u <= MaxAttempts + overlaps + restarts
  BY DEF Delivered
<1>9. /\ ~Taken(i) => /\ rows[i].sends <= rows[i].attempts + overlaps + restarts
                      /\ rows[i].wait # None =>
                             rows[i].sends + 1 <= MaxAttempts + overlaps + restarts
      /\ \A d \in Evals \cup Sweeps :
             Reads(d, i) => rows[i].sends + u <= tasks[d].attempts + 1 + overlaps + restarts
  BY DEF Delivered
<1>5. MaxAttempts \in Nat
  BY DEF AlertAssumption
<1> HIDE DEF u, v
<1>6. /\ rows[i].late + v <= 1 + overlaps
      /\ rows[i].sends + v <= rows[i].attempts + 1 + overlaps + restarts
      /\ rows[i].sends + v <= MaxAttempts + overlaps + restarts
  <2>1. 1 + overlaps \in Int /\ rows[i].attempts + 1 + overlaps + restarts \in Int
        /\ MaxAttempts + overlaps + restarts \in Int
    BY <1>2, <1>5, Sums
  <2>2. rows[i].late + v <= 1 + overlaps
    BY <1>1, <1>2, <1>4, <2>1, Fewer
  <2>3. rows[i].sends + v <= rows[i].attempts + 1 + overlaps + restarts
    <3> DEFINE b == rows[i].attempts + 1 + overlaps + restarts
    <3>1. b \in Int /\ rows[i].sends + u <= b /\ rows[i].sends \in Nat
      BY <1>2, <1>4, <2>1
    <3> HIDE DEF b
    <3>2. rows[i].sends + v <= b
      BY <1>1, <3>1, Fewer
    <3> QED BY <3>2 DEF b
  <2>4. rows[i].sends + v <= MaxAttempts + overlaps + restarts
    BY <1>1, <1>2, <1>4, <2>1, Fewer
  <2> QED BY <2>2, <2>3, <2>4
<1>7. ASSUME NEW d \in Evals \cup Sweeps, Reads(d, i)'
      PROVE  rows[i].sends + v <= tasks'[d].attempts + 1 + overlaps + restarts
  <2>1. CASE Reads(d, i) /\ tasks'[d].attempts = tasks[d].attempts
    <3> DEFINE a == tasks[d].attempts
    <3>1. a \in Nat /\ rows[i].sends + u <= a + 1 + overlaps + restarts
      BY <1>3, <1>9, <2>1
    <3> HIDE DEF a
    <3>2. a + 1 + overlaps + restarts \in Int
      BY <1>2, <3>1, Sums
    <3>3. rows[i].sends + v <= a + 1 + overlaps + restarts
      BY <1>1, <1>2, <3>1, <3>2, Fewer
    <3> QED BY <2>1, <3>3 DEF a
  <2>2. CASE tasks'[d].attempts = rows[i].attempts
    BY <1>6, <2>2
  <2> QED BY <1>7, <2>1, <2>2 DEF SameFlight
<1>8. ~Taken(i)' => ~Taken(i)
  BY DEF SameFlight
<1> QED BY <1>4, <1>6, <1>7, <1>8, <1>9 DEF Delivered, SameRow, v

\* What holds of every task, when one turns.
LEMMA TurnedFlight ==
    ASSUME TasksTyped, NEW d \in Evals \cup Sweeps, NEW new, Turned(d, new), NEW i,
           Holds(d, i)' \/ Plans(d, i)' \/ ~(Holds(d, i) \/ Plans(d, i)),
           d \in Unsent(i)' => d \in Unsent(i),
           Reads(d, i)' => \/ Reads(d, i) /\ new.attempts = tasks[d].attempts
                           \/ new.attempts = rows[i].attempts
    PROVE  SameFlight(i)
<1>1. \A x \in Evals \cup Sweeps : x # d => tasks'[x] = tasks[x]
  BY DEF TasksTyped, Turned
<1>2. tasks'[d] = new
  BY DEF Turned
<1>3. Unsent(i)' \subseteq Unsent(i)
  BY <1>1 DEF Unsent, Plans
<1>4. Taken(i) => Taken(i)'
  BY <1>1 DEF Taken, Holds, Plans
<1>5. \A x \in Evals \cup Sweeps : x # d /\ Reads(x, i)' =>
          Reads(x, i) /\ tasks'[x].attempts = tasks[x].attempts
  BY <1>1 DEF Reads
<1> QED BY <1>2, <1>3, <1>4, <1>5 DEF SameFlight

\* A step that turns one task and changes no row.
LEMMA DeliveryTurned ==
    ASSUME AlertAssumption, Typed, Typed', DeliveryInv, NEW d \in Evals \cup Sweeps, NEW new,
           Turned(d, new), UNCHANGED <<rows, overlaps, restarts>>,
           new.at \in {"send", "mark"} => new.row \notin new.due,
           \A i \in 1..Len(rows) :
               /\ Holds(d, i)' \/ Plans(d, i)' \/ ~(Holds(d, i) \/ Plans(d, i))
               /\ d \in Unsent(i)' => d \in Unsent(i)
               /\ Reads(d, i)' => new.attempts = rows[i].attempts
    PROVE  DeliveryInv'
<1>1. Apart'
  BY DEF DeliveryInv, Apart, Turned, Typed, TasksTyped
<1>2. ASSUME NEW i \in 1..Len(rows) PROVE Delivered(i)'
  <2>1. SameFlight(i)
    BY TurnedFlight DEF Typed
  <2>2. SameRow(i)
    BY DEF SameRow
  <2> QED BY <2>1, <2>2, DeliveredKept DEF DeliveryInv
<1> QED BY <1>1, <1>2 DEF DeliveryInv

LEMMA DeliveryFromReach ==
    ASSUME AlertAssumption, Typed, Typed', DeliveryInv, NEW e \in Evals, Reach(e)
    PROVE  DeliveryInv'
<1>1. /\ Turned(e, Idle) /\ UNCHANGED <<rows, overlaps, restarts>> /\ tasks[e].at = "reach"
      /\ tasks'[e] = Idle
  BY TaskTurned DEF Reach, world, Typed, TasksTyped, Turned
<1>2. Idle.at \notin {"send", "mark"}
  BY DEF Idle
<1>3. \A i : ~Holds(e, i) /\ ~Plans(e, i) /\ e \notin Unsent(i)' /\ ~Reads(e, i)'
  BY <1>1 DEF Idle, Holds, Plans, Unsent, Reads
<1> QED BY <1>1, <1>2, <1>3, DeliveryTurned

LEMMA DeliveryFromDecide ==
    ASSUME AlertAssumption, Typed, Typed', DeliveryInv, NEW e \in Evals, Decide(e)
    PROVE  DeliveryInv'
<1> DEFINE new == [at |-> "insert", muted |-> muted, episode |-> tasks[e].episode,
                   epoch |-> tasks[e].epoch,
                   kind |-> IF Fires(tasks[e]) THEN "firing" ELSE "recovery",
                   pairs |-> ev.active]
<1>1. /\ Turned(e, new) /\ UNCHANGED <<rows, overlaps, restarts>> /\ tasks[e].at = "reach"
      /\ new.at = "insert"
  BY TaskTurned DEF Decide, world, Typed, TasksTyped
<1> HIDE DEF new
<1>2. tasks'[e] = new
  BY <1>1 DEF Turned
<1>3. \A i : ~Holds(e, i) /\ ~Plans(e, i) /\ e \notin Unsent(i)' /\ ~Reads(e, i)'
  BY <1>1, <1>2 DEF Holds, Plans, Unsent, Reads
<1> QED BY <1>1, <1>3, DeliveryTurned

\* An attempt that starts has read the count of its row.
LEMMA DeliveryAttempt ==
    ASSUME AlertAssumption, Typed, Typed', DeliveryInv, NEW d \in Evals \cup Sweeps,
           NEW j \in 1..Len(rows), NEW m, NEW due \in SUBSET (1..Len(rows)),
           Turned(d, Attempt(j, m, due)), UNCHANGED <<rows, overlaps, restarts>>,
           j \notin due,
           d \in Unsent(j) /\ \A i \in due : d \in Unsent(i),
           \A i \in 1..Len(rows) : Holds(d, i) \/ Plans(d, i) => i = j \/ i \in due
    PROVE  DeliveryInv'
<1> DEFINE new == Attempt(j, m, due)
<1>1. /\ new.at \in {"send", "mark"} /\ new.row = j /\ new.due = due
      /\ new.attempts = rows[j].attempts
  BY DEF Attempt
<1> HIDE DEF new
<1>2. tasks'[d] = new /\ Turned(d, new)
  BY DEF Turned, new
<1>3. ASSUME NEW i \in 1..Len(rows)
      PROVE  /\ Holds(d, i)' \/ Plans(d, i)' \/ ~(Holds(d, i) \/ Plans(d, i))
             /\ d \in Unsent(i)' => d \in Unsent(i)
             /\ Reads(d, i)' => new.attempts = rows[i].attempts
  BY <1>1, <1>2 DEF Holds, Plans, Unsent, Reads
<1> QED BY <1>1, <1>2, <1>3, DeliveryTurned

LEMMA DeliveryFromGet ==
    ASSUME AlertAssumption, Typed, Typed', DeliveryInv, NEW e \in Evals, Get(e)
    PROVE  DeliveryInv'
<1> DEFINE j == tasks[e].row
           m == tasks[e].muted
<1>1. /\ Turned(e, Attempt(j, m, {})) /\ UNCHANGED <<rows, overlaps, restarts>>
      /\ tasks[e].at = "get" /\ j \in 1..Len(rows)
  BY TaskTurned, TaskFacts DEF Get, world, Typed, TasksTyped, Getting
<1>2. e \in Unsent(j) /\ \A i : Holds(e, i) \/ Plans(e, i) => i = j
  BY <1>1 DEF Unsent, Holds, Plans
<1> HIDE DEF j, m
<1> QED BY <1>1, <1>2, DeliveryAttempt

LEMMA DeliveryFromNextDue ==
    ASSUME AlertAssumption, Typed, Typed', DeliveryInv, NEW s \in Sweeps, NextDue(s)
    PROVE  DeliveryInv'
<1> DEFINE m == tasks[s].muted
<1>1. PICK j \in tasks[s].due : tasks' = [tasks EXCEPT ![s] = Attempt(j, m, tasks[s].due \ {j})]
  BY DEF NextDue
<1> DEFINE due == tasks[s].due \ {j}
<1>2. /\ Turned(s, Attempt(j, m, due)) /\ UNCHANGED <<rows, overlaps, restarts>>
      /\ tasks[s].at = "next"
  BY <1>1, TaskTurned DEF NextDue, world, Typed, TasksTyped
<1>3. j \in 1..Len(rows) /\ due \in SUBSET (1..Len(rows)) /\ j \notin due
  BY <1>2, TaskFacts DEF Typed, Choosing
<1>4. /\ s \in Unsent(j) /\ \A i \in due : s \in Unsent(i)
      /\ \A i : Holds(s, i) \/ Plans(s, i) => i = j \/ i \in due
  BY <1>2 DEF Unsent, Holds, Plans
<1> HIDE DEF due, m
<1> QED BY <1>2, <1>3, <1>4, DeliveryAttempt

LEMMA DeliveryFromSend ==
    ASSUME AlertAssumption, Typed, Typed', DeliveryInv, NEW d \in Evals \cup Sweeps,
           NEW ok \in BOOLEAN, Send(d, ok)
    PROVE  DeliveryInv'
<1>0. tasks[d] \in Sending(Len(rows)) /\ tasks[d].at = "send"
  BY TaskFacts DEF Send, Typed
<1> PICK j \in 1..Len(rows) : j = tasks[d].row
  BY <1>0 DEF Sending
<1> DEFINE new == [tasks[d] EXCEPT !.at = "mark", !.ok = ok]
<1>1. /\ Turned(d, new) /\ UNCHANGED <<overlaps, restarts>> /\ tasks[d].at = "send"
      /\ tasks[d] \in Sending(Len(rows)) /\ j \notin tasks[d].due
  BY <1>0, TaskTurned DEF Send, world, Typed, TasksTyped, DeliveryInv, Apart
<1>2. /\ new.at = "mark" /\ new.row = j /\ new.due = tasks[d].due
      /\ new.attempts = tasks[d].attempts
  BY <1>1 DEF Sending
<1> HIDE DEF new
<1>3. tasks'[d] = new
  BY <1>1 DEF Turned
<1>4. /\ Len(rows') = Len(rows)
      /\ \A i \in 1..Len(rows) :
             /\ rows'[i].attempts = rows[i].attempts /\ rows'[i].acked = rows[i].acked
             /\ rows'[i].wait = rows[i].wait
             /\ i # j => rows'[i] = rows[i]
      /\ rows'[j].sends = rows[j].sends + 1
      /\ rows'[j].late = IF rows[j].acked THEN rows[j].late + 1 ELSE rows[j].late
  BY <1>1, SendRows DEF Typed, Kept
<1>5. Apart'
  BY <1>1, <1>2, <1>3 DEF DeliveryInv, Apart, Turned, Typed, TasksTyped
<1>6. ASSUME NEW i \in 1..Len(rows) PROVE SameFlight(i)
  <2>1. Holds(d, i)' \/ Plans(d, i)' \/ ~(Holds(d, i) \/ Plans(d, i))
    BY <1>1, <1>2, <1>3 DEF Holds, Plans
  <2>2. d \in Unsent(i)' => d \in Unsent(i)
    BY <1>1, <1>2, <1>3 DEF Unsent, Plans
  <2>3. Reads(d, i)' => Reads(d, i) /\ new.attempts = tasks[d].attempts
    BY <1>1, <1>2, <1>3 DEF Reads
  <2> QED BY <1>1, <2>1, <2>2, <2>3, TurnedFlight DEF Typed
<1>7. ASSUME NEW i \in 1..Len(rows), i # j PROVE Delivered(i)'
  <2>1. SameRow(i)
    BY <1>4, <1>7 DEF SameRow
  <2> QED BY <1>1, <1>4, <1>6, <2>1, DeliveredKept DEF DeliveryInv
<1>8. Delivered(j)'
  <2>1. /\ rows[j].sends \in Nat /\ rows[j].late \in Nat /\ rows[j].attempts \in Nat
        /\ overlaps \in Nat /\ restarts \in Nat
    BY RowNumbers, WorldNumbers DEF Typed
  <2> PICK n \in Nat, l \in Nat, a \in Nat, o \in Nat, r \in Nat :
          /\ rows[j].sends = n /\ rows[j].late = l /\ rows[j].attempts = a
          /\ overlaps = o /\ restarts = r
    BY <2>1
  <2>2. d \in Unsent(j) /\ d \notin Unsent(j)' /\ Unsent(j)' \subseteq Unsent(j)
    BY <1>1, <1>2, <1>3, <1>6 DEF Unsent, Plans, SameFlight
  <2>3. /\ Cardinality(Unsent(j)) \in Nat /\ Cardinality(Unsent(j)') \in Nat
        /\ Cardinality(Unsent(j)') + 1 <= Cardinality(Unsent(j))
    BY <2>2, UnsentFinite, RemovedCount
  <2> PICK u \in Nat, v \in Nat :
          Cardinality(Unsent(j)) = u /\ Cardinality(Unsent(j)') = v /\ v + 1 <= u
    BY <2>3
  <2>4. /\ l + u <= 1 + o /\ (~rows[j].acked => l = 0)
        /\ n + u <= a + 1 + o + r /\ n + u <= MaxAttempts + o + r
        /\ \A x \in Evals \cup Sweeps : Reads(x, j) => n + u <= tasks[x].attempts + 1 + o + r
    BY DEF DeliveryInv, Delivered
  <2>5. rows'[j].late = IF rows[j].acked THEN l + 1 ELSE l
    BY <1>4
  <2>13. l \in Nat /\ l + 1 \in Nat /\ l <= l + 1 /\ l + 1 <= l + 1
    OBVIOUS
  <2> PICK m \in Nat : rows'[j].late = m /\ m <= l + 1
    <3>1. CASE rows[j].acked
      BY <2>5, <2>13, <3>1
    <3>2. CASE ~rows[j].acked
      BY <2>5, <2>13, <3>2
    <3> QED BY <3>1, <3>2
  <2>6. m + v <= 1 + o
    BY <2>4
  <2>7. n + 1 + v <= a + 1 + o + r
    BY <2>4
  <2>8. n + 1 + v <= MaxAttempts + o + r
    <3>1. MaxAttempts \in Nat /\ n + u <= MaxAttempts + o + r
      BY <2>4 DEF AlertAssumption
    <3> QED BY <3>1
  <2>9. ASSUME NEW x \in Evals \cup Sweeps, Reads(x, j)'
        PROVE  n + 1 + v <= tasks'[x].attempts + 1 + o + r
    <3>1. CASE Reads(x, j) /\ tasks'[x].attempts = tasks[x].attempts
      <4>1. tasks[x].attempts \in Nat
        BY <3>1, TaskFacts DEF Typed, Reads, Sending
      <4> PICK c \in Nat : tasks[x].attempts = c
        BY <4>1
      <4>2. n + u <= c + 1 + o + r
        BY <2>4, <3>1
      <4>3. n + 1 + v <= c + 1 + o + r
        BY <4>2
      <4> QED BY <3>1, <4>3
    <3>2. CASE tasks'[x].attempts = rows[j].attempts
      BY <2>7, <3>2
    <3> QED BY <1>1, <1>6, <2>9, <3>1, <3>2 DEF SameFlight
  <2>10. Taken(j)'
    BY <1>2, <1>3 DEF Taken, Holds
  <2>11. ~rows'[j].acked => rows'[j].late = 0
    BY <1>4, <2>4
  <2>12. /\ rows'[j].sends = n + 1 /\ rows'[j].attempts = a /\ overlaps' = o /\ restarts' = r
    BY <1>1, <1>4
  <2> QED BY <2>6, <2>7, <2>8, <2>9, <2>10, <2>11, <2>12 DEF Delivered
<1> QED BY <1>4, <1>5, <1>7, <1>8 DEF DeliveryInv

LEMMA DeliveryFromMark ==
    ASSUME AlertAssumption, Typed, Typed', DeliveryInv, NEW d \in Evals \cup Sweeps, Mark(d)
    PROVE  DeliveryInv'
<1>0. tasks[d] \in Sending(Len(rows)) /\ tasks[d].at = "mark"
  BY TaskFacts DEF Mark, Typed
<1> PICK j \in 1..Len(rows) : j = tasks[d].row
  BY <1>0 DEF Sending
<1> DEFINE new == IF d \in Evals THEN Idle ELSE Sweeping(tasks[d].due, tasks[d].muted)
<1>1. /\ Turned(d, new) /\ UNCHANGED <<overlaps, restarts>> /\ j \notin tasks[d].due
      /\ tasks[d].attempts \in Nat
  BY <1>0, TaskTurned DEF Mark, world, Typed, TasksTyped, DeliveryInv, Apart, Sending
<1>2. /\ d \in Evals => tasks[d].at # "next" /\ d \notin Sweeps
      /\ new = Idle \/ (new.at = "next" /\ new.due = tasks[d].due /\ d \in Sweeps)
      /\ d \in Sweeps /\ tasks[d].due # {} => new.at = "next" /\ new.due = tasks[d].due
  BY <1>0 DEF Sweeping, AlertAssumption
<1> HIDE DEF new
<1>3. tasks'[d] = new /\ Idle.at = "idle"
  BY <1>1 DEF Turned, Idle
<1>4. /\ Len(rows') = Len(rows)
      /\ \A i \in 1..Len(rows) :
             /\ rows'[i].sends = rows[i].sends /\ rows'[i].late = rows[i].late
             /\ rows'[i].acked = rows[i].acked
             /\ i # j => rows'[i] = rows[i]
      /\ rows'[j].attempts = rows[j].attempts + 1
      /\ rows'[j].wait # None => tasks[d].attempts + 1 < MaxAttempts
  BY <1>1, MarkRows DEF Typed, Kept
<1>5. Apart'
  BY <1>1, <1>2, <1>3 DEF DeliveryInv, Apart, Turned, Typed, TasksTyped
<1>6. /\ \A i : d \in Unsent(i)' => d \in Unsent(i)
      /\ \A i : ~Reads(d, i)'
  BY <1>0, <1>2, <1>3 DEF Unsent, Plans, Reads
<1>7. ASSUME NEW i \in 1..Len(rows), i # j PROVE Delivered(i)'
  <2>1. Holds(d, i)' \/ Plans(d, i)' \/ ~(Holds(d, i) \/ Plans(d, i))
    BY <1>0, <1>2, <1>3, <1>7, TaskFacts DEF Typed, Holds, Plans
  <2>2. SameFlight(i)
    BY <1>1, <1>6, <2>1, TurnedFlight DEF Typed
  <2>3. SameRow(i)
    BY <1>4, <1>7 DEF SameRow
  <2> QED BY <1>1, <1>4, <2>2, <2>3, DeliveredKept DEF DeliveryInv
<1>8. Delivered(j)'
  <2>1. /\ rows[j].sends \in Nat /\ rows[j].late \in Nat /\ rows[j].attempts \in Nat
        /\ overlaps \in Nat /\ restarts \in Nat
    BY RowNumbers, WorldNumbers DEF Typed
  <2> PICK n \in Nat, l \in Nat, a \in Nat, o \in Nat, r \in Nat, c \in Nat :
          /\ rows[j].sends = n /\ rows[j].late = l /\ rows[j].attempts = a
          /\ overlaps = o /\ restarts = r /\ tasks[d].attempts = c
    BY <1>1, <2>1
  <2>2. Unsent(j)' \subseteq Unsent(j)
    BY <1>1, <1>6 DEF Unsent, Plans, Turned, Typed, TasksTyped
  <2>3. /\ Cardinality(Unsent(j)) \in Nat /\ Cardinality(Unsent(j)') \in Nat
        /\ Cardinality(Unsent(j)') <= Cardinality(Unsent(j))
    BY <2>2, UnsentFinite, SubsetCount
  <2> PICK u \in Nat, v \in Nat :
          Cardinality(Unsent(j)) = u /\ Cardinality(Unsent(j)') = v /\ v <= u
    BY <2>3
  <2>4. /\ l + u <= 1 + o /\ (~rows[j].acked => l = 0)
        /\ n + u <= a + 1 + o + r /\ n + u <= MaxAttempts + o + r
        /\ \A x \in Evals \cup Sweeps : Reads(x, j) => n + u <= tasks[x].attempts + 1 + o + r
    BY DEF DeliveryInv, Delivered
  <2>5. Reads(d, j)
    BY <1>0 DEF Reads
  <2>6. n + u <= c + 1 + o + r
    BY <2>4, <2>5
  <2> PICK k \in Nat : k = MaxAttempts
    BY DEF AlertAssumption
  <2>7. /\ l + v <= 1 + o /\ n + v <= a + 1 + 1 + o + r /\ n + v <= k + o + r
        /\ n <= a + 1 + o + r
        /\ c + 1 < k => n + 1 <= k + o + r
    BY <2>4, <2>6
  <2>8. ASSUME NEW x \in Evals \cup Sweeps, Reads(x, j)'
        PROVE  n + v <= tasks'[x].attempts + 1 + o + r
    <3>1. Reads(x, j) /\ tasks'[x].attempts = tasks[x].attempts
      BY <1>1, <1>6, <2>8 DEF Reads, Turned, Typed, TasksTyped
    <3>2. tasks[x].attempts \in Nat
      BY <3>1, TaskFacts DEF Typed, Reads, Sending
    <3> PICK b \in Nat : tasks[x].attempts = b
      BY <3>2
    <3>3. n + u <= b + 1 + o + r
      BY <2>4, <3>1
    <3>4. n + v <= b + 1 + o + r
      BY <3>3
    <3> QED BY <3>1, <3>4
  <2>9. ~rows'[j].acked => rows'[j].late = 0
    BY <1>4, <2>4
  <2>10. /\ rows'[j].sends = n /\ rows'[j].late = l /\ rows'[j].attempts = a + 1
         /\ overlaps' = o /\ restarts' = r
    BY <1>1, <1>4
  <2>11. rows'[j].wait # None => n + 1 <= MaxAttempts + o + r
    BY <1>4, <2>7
  <2> QED BY <2>7, <2>8, <2>9, <2>10, <2>11 DEF Delivered
<1> QED BY <1>4, <1>5, <1>7, <1>8 DEF DeliveryInv

LEMMA DeliveryFromInsert ==
    ASSUME AlertAssumption, Typed, Typed', DeliveryInv, NEW e \in Evals, Insert(e)
    PROVE  DeliveryInv'
<1> DEFINE new == [at |-> "get", row |-> Len(rows) + 1, muted |-> tasks[e].muted]
<1>1. /\ Turned(e, new) /\ UNCHANGED <<overlaps, restarts>> /\ tasks[e].at = "insert"
      /\ new.at = "get" /\ new.row = Len(rows) + 1
  BY TaskTurned DEF Insert, world, Typed, TasksTyped
<1> HIDE DEF new
<1> PICK z \in Nat : z = Len(rows)
  BY DEF Typed, RowsTyped
<1>2. tasks'[e] = new /\ new.row = z + 1 /\ Len(rows') = z + 1
  BY <1>1, InsertRows DEF Turned, Typed
<1>3. /\ \A i \in 1..z : rows'[i] = rows[i]
      /\ rows'[z + 1].attempts = 0 /\ rows'[z + 1].acked = FALSE /\ rows'[z + 1].sends = 0
      /\ rows'[z + 1].late = 0
  BY InsertRows DEF Typed
<1>4. Apart'
  BY <1>1, <1>2 DEF DeliveryInv, Apart, Turned, Typed, TasksTyped
<1>5. ASSUME NEW i \in 1..z PROVE Delivered(i)'
  <2>1. \A x : ~Holds(e, x) /\ ~Plans(e, x)
    BY <1>1 DEF Holds, Plans
  <2>2. e \notin Unsent(i)' /\ ~Reads(e, i)'
    BY <1>1, <1>2 DEF Unsent, Plans, Reads
  <2>3. SameFlight(i)
    BY <1>1, <2>1, <2>2, TurnedFlight DEF Typed
  <2>4. SameRow(i)
    BY <1>3 DEF SameRow
  <2>5. i \in 1..Len(rows) /\ i \in 1..Len(rows')
    BY <1>2
  <2> QED BY <1>1, <2>3, <2>4, <2>5, DeliveredKept DEF DeliveryInv
<1>6. Delivered(z + 1)'
  <2>1. \A d \in Evals \cup Sweeps :
            tasks[d].at \in {"get", "send", "mark"} => tasks[d].row \in 1..z
    BY TaskFacts DEF Typed, Getting, Sending
  <2>2. \A d \in Evals \cup Sweeps :
            tasks[d].at \in {"next", "send", "mark"} => tasks[d].due \subseteq 1..z
    BY TaskFacts DEF Typed, Choosing, Sending
  <2>3. \A d \in Evals \cup Sweeps : d # e => tasks'[d] = tasks[d]
    BY <1>1 DEF Turned, Typed, TasksTyped
  <2>4. z + 1 \notin 1..z
    OBVIOUS
  <2>5. Unsent(z + 1)' \subseteq {} \cup {e} /\ \A d \in Evals \cup Sweeps : ~Reads(d, z + 1)'
    BY <1>1, <1>2, <2>1, <2>2, <2>3, <2>4 DEF Unsent, Plans, Reads
  <2>6. Cardinality({}) = 0 /\ IsFiniteSet({})
    BY FS_EmptySet
  <2>7. Cardinality(Unsent(z + 1)') \in Nat /\ Cardinality(Unsent(z + 1)') <= 0 + 1
    BY <2>5, <2>6, AddedCount
  <2>8. Taken(z + 1)'
    BY <1>1, <1>2 DEF Taken, Holds
  <2> PICK v \in Nat, o \in Nat, r \in Nat, k \in Nat :
          /\ Cardinality(Unsent(z + 1)') = v /\ overlaps = o /\ restarts = r
          /\ MaxAttempts = k /\ v <= 1 /\ k >= 1
    BY <2>7, WorldNumbers DEF Typed, AlertAssumption
  <2>9. 0 + v <= 1 + o /\ 0 + v <= 0 + 1 + o + r /\ 0 + v <= k + o + r
    OBVIOUS
  <2> QED BY <1>1, <1>3, <2>5, <2>8, <2>9 DEF Delivered
<1>7. \A i \in 1..(z + 1) : i \in 1..z \/ i = z + 1
  OBVIOUS
<1> QED BY <1>2, <1>4, <1>5, <1>6, <1>7 DEF DeliveryInv

LEMMA DeliveryFromTick ==
    ASSUME AlertAssumption, Typed, Typed', DeliveryInv, Tick PROVE DeliveryInv'
<1>1. PICK e \in Evals, s \in Sweeps : Started(e, s)
  BY TickTasks DEF Typed
<1> DEFINE due == nextDueRetries(rows')
<1>2. /\ tasks'[e].at = "reach"
      /\ tasks'[s] = Idle \/ tasks'[s].at = "next"
      /\ due # {} => tasks'[s].at = "next" /\ tasks'[s].due = due
      /\ tasks'[s].at = "next" => tasks'[s].due = due
      /\ Idle.at = "idle"
  BY <1>1 DEF Started, Sweeping, Idle
<1>3. /\ \A d \in Evals \cup Sweeps : d # e /\ d # s => tasks'[d] = tasks[d]
      /\ tasks[e].at = "idle" /\ tasks[s].at = "idle"
  BY <1>1 DEF Started, Typed, TasksTyped, Idle
<1>4. /\ Len(rows') = Len(rows)
      /\ \A i \in 1..Len(rows) :
             /\ rows'[i].attempts = rows[i].attempts /\ rows'[i].acked = rows[i].acked
             /\ rows'[i].sends = rows[i].sends /\ rows'[i].late = rows[i].late
             /\ rows'[i].wait = Sooner(rows[i].wait)
  BY TickRows DEF Typed, Kept
<1>5. \A i \in due : rows'[i].wait = 0 /\ ~rows'[i].acked
  BY DEF nextDueRetries
<1> HIDE DEF due
<1>6. Apart'
  BY <1>2, <1>3 DEF DeliveryInv, Apart
<1>7. restarts' = restarts
  BY DEF Tick
<1>8. ASSUME NEW i \in 1..Len(rows) PROVE Delivered(i)'
  <2>1. /\ rows[i].sends \in Nat /\ rows[i].late \in Nat /\ rows[i].attempts \in Nat
        /\ overlaps \in Nat /\ restarts \in Nat
    BY RowNumbers, WorldNumbers DEF Typed
  <2> PICK n \in Nat, l \in Nat, a \in Nat, o \in Nat, r \in Nat :
          /\ rows[i].sends = n /\ rows[i].late = l /\ rows[i].attempts = a
          /\ overlaps = o /\ restarts = r
    BY <2>1
  <2>2. Unsent(i)' \subseteq Unsent(i) \cup {s}
    BY <1>2, <1>3 DEF Unsent, Plans
  <2>3. Cardinality(Unsent(i)) \in Nat /\ Cardinality(Unsent(i)') \in Nat
        /\ Cardinality(Unsent(i)') <= Cardinality(Unsent(i)) + 1
    BY <2>2, UnsentFinite, AddedCount
  <2> PICK u \in Nat, v \in Nat :
          Cardinality(Unsent(i)) = u /\ Cardinality(Unsent(i)') = v /\ v <= u + 1
    BY <2>3
  <2> PICK k \in Nat : k = MaxAttempts
    BY DEF AlertAssumption
  <2>4. /\ l + u <= 1 + o /\ (~rows[i].acked => l = 0)
        /\ n + u <= a + 1 + o + r /\ n + u <= k + o + r
        /\ ~Taken(i) => n <= a + o + r /\ (rows[i].wait # None => n + 1 <= k + o + r)
    BY DEF DeliveryInv, Delivered
  <2>5. \A x \in Evals \cup Sweeps : Reads(x, i) => n + u <= tasks[x].attempts + 1 + o + r
    BY DEF DeliveryInv, Delivered
  <2>6. rows'[i].wait # None => rows[i].wait # None
    BY <1>4 DEF Sooner
  <2>7. \A x \in Evals \cup Sweeps : Reads(x, i)' =>
            Reads(x, i) /\ tasks'[x].attempts = tasks[x].attempts
    BY <1>2, <1>3 DEF Reads
  <2>8. /\ rows'[i].sends = n /\ rows'[i].late = l /\ rows'[i].attempts = a
        /\ rows'[i].acked = rows[i].acked
    BY <1>4
  <2>9. CASE InFlight = {}
    <3>1. overlaps' = o
      BY <2>9 DEF Tick, Overlaps
    <3>2. \A d \in Evals \cup Sweeps : tasks[d].at = "idle"
      BY <2>9 DEF InFlight, Typed, TasksTyped, Idle
    <3>3. ~Taken(i) /\ Unsent(i) = {} /\ \A x \in Evals \cup Sweeps : ~Reads(x, i)
      BY <3>2 DEF Taken, Holds, Plans, Unsent, Reads
    <3>4. u = 0
      BY <3>3, FS_EmptySet
    <3>5. CASE i \in due
      <4>1. Taken(i)'
        BY <1>2, <3>5 DEF Taken, Plans
      <4>2. l = 0 /\ rows'[i].wait = 0 /\ rows'[i].wait # None
        <5>1. rows'[i].wait = 0 /\ ~rows'[i].acked
          BY <1>5, <3>5
        <5>2. ~rows[i].acked
          BY <2>8, <5>1
        <5> QED BY <2>4, <5>1, <5>2 DEF None
      <4>3. n <= a + o + r /\ n + 1 <= k + o + r
        BY <2>4, <2>6, <3>3, <4>2
      <4>4. l + v <= 1 + o /\ n + v <= a + 1 + o + r /\ n + v <= k + o + r
        <5>1. v <= 1 /\ l = 0
          BY <3>4, <4>2
        <5>2. l + v <= 1 + o
          BY <5>1
        <5>3. n + v <= (a + o + r) + 1
          BY <4>3, <5>1
        <5>4. n + v <= n + 1
          BY <5>1
        <5>5. n + v <= k + o + r
          BY <4>3, <5>4
        <5> QED BY <5>2, <5>3, <5>5
      <4>5. ~rows'[i].acked => rows'[i].late = 0
        BY <2>8, <4>2
      <4> QED BY <1>7, <2>7, <2>8, <3>1, <3>3, <4>1, <4>4, <4>5 DEF Delivered
    <3>6. CASE i \notin due
      <4>1. SameFlight(i)
        BY <1>2, <1>3, <2>7, <3>3, <3>6 DEF SameFlight, Unsent, Plans
      <4>2. SameRow(i)
        BY <1>4, <2>6 DEF SameRow
      <4> QED BY <1>4, <1>7, <3>1, <4>1, <4>2, DeliveredKept DEF DeliveryInv
    <3> QED BY <3>5, <3>6
  <2>10. CASE InFlight # {}
    <3>1. overlaps' = o + 1
      BY <2>10 DEF Tick, Overlaps
    <3>2. /\ l + v <= 1 + (o + 1) /\ n + v <= a + 1 + (o + 1) + r /\ n + v <= k + (o + 1) + r
      <4>1. l + v <= 1 + (o + 1)
        <5>1. l + u <= 1 + o
          BY <2>4
        <5> QED BY <5>1
      <4>2. n + v <= a + 1 + (o + 1) + r
        BY <2>4
      <4>3. n + v <= k + (o + 1) + r
        BY <2>4
      <4> QED BY <4>1, <4>2, <4>3
    <3>3. Taken(i) => Taken(i)'
      BY <1>3 DEF Taken, Holds, Plans
    <3>4. ~Taken(i)' => /\ n <= a + (o + 1) + r
                        /\ rows'[i].wait # None => n + 1 <= k + (o + 1) + r
      BY <2>4, <2>6, <3>3
    <3>5. ASSUME NEW x \in Evals \cup Sweeps, Reads(x, i)'
          PROVE  n + v <= tasks'[x].attempts + 1 + (o + 1) + r
      <4>1. Reads(x, i) /\ tasks'[x].attempts = tasks[x].attempts
        BY <2>7, <3>5
      <4>2. tasks[x].attempts \in Nat
        BY <4>1, TaskFacts DEF Typed, Reads, Sending
      <4> PICK b \in Nat : tasks[x].attempts = b
        BY <4>2
      <4>3. n + u <= b + 1 + o + r
        BY <2>5, <4>1
      <4>4. n + v <= b + 1 + (o + 1) + r
        <5>1. n + v <= (n + u) + 1
          OBVIOUS
        <5> QED BY <4>3, <5>1
      <4> QED BY <4>1, <4>4
    <3> QED BY <1>7, <2>4, <2>8, <3>1, <3>2, <3>4, <3>5 DEF Delivered
  <2> QED BY <2>9, <2>10
<1> QED BY <1>4, <1>6, <1>8 DEF DeliveryInv

LEMMA DeliveryFromRestart ==
    ASSUME AlertAssumption, Typed, Typed', DeliveryInv, Restart PROVE DeliveryInv'
<1>1. /\ UNCHANGED <<rows, overlaps>> /\ restarts' = restarts + 1
      /\ \A d \in Evals \cup Sweeps : tasks'[d].at = "idle"
  BY DEF Restart, Typed, TasksTyped, Idle
<1>2. Apart'
  BY <1>1 DEF Apart
<1>3. ASSUME NEW i \in 1..Len(rows) PROVE Delivered(i)'
  <2>1. /\ rows[i].sends \in Nat /\ rows[i].late \in Nat /\ rows[i].attempts \in Nat
        /\ overlaps \in Nat /\ restarts \in Nat /\ Cardinality(Unsent(i)) \in Nat
    BY RowNumbers, WorldNumbers, UnsentFinite DEF Typed
  <2> PICK n \in Nat, l \in Nat, a \in Nat, o \in Nat, r \in Nat, u \in Nat :
          /\ rows[i].sends = n /\ rows[i].late = l /\ rows[i].attempts = a
          /\ overlaps = o /\ restarts = r /\ Cardinality(Unsent(i)) = u
    BY <2>1
  <2> PICK k \in Nat : k = MaxAttempts
    BY DEF AlertAssumption
  <2>2. /\ l + u <= 1 + o /\ (~rows[i].acked => l = 0)
        /\ n + u <= a + 1 + o + r /\ n + u <= k + o + r
    BY DEF DeliveryInv, Delivered
  <2>3. Unsent(i)' = {} /\ \A x \in Evals \cup Sweeps : ~Reads(x, i)'
    BY <1>1 DEF Unsent, Plans, Reads
  <2>4. Cardinality(Unsent(i)') = 0
    BY <2>3, FS_EmptySet
  <2>5. /\ l + 0 <= 1 + o /\ n + 0 <= a + 1 + o + (r + 1) /\ n + 0 <= k + o + (r + 1)
        /\ n <= a + o + (r + 1) /\ n + 1 <= k + o + (r + 1)
    BY <2>2
  <2> QED BY <1>1, <2>2, <2>3, <2>4, <2>5 DEF Delivered
<1> QED BY <1>1, <1>2, <1>3 DEF DeliveryInv

\* The steps that leave the tasks alone.
LEMMA DeliveryFromOutside ==
    ASSUME AlertAssumption, Typed, Typed', DeliveryInv,
           OutageBegins \/ OutageEnds \/ Acknowledge \/ EditMute \/ EditClass \/ UNCHANGED vars
    PROVE  DeliveryInv'
<1>1. UNCHANGED <<tasks, overlaps, restarts>>
  BY DEF OutageBegins, OutageEnds, Acknowledge, EditMute, EditClass, vars
<1>2. Len(rows') = Len(rows) /\ \A i \in 1..Len(rows) : SameRow(i)
  <2>1. CASE Acknowledge
    BY <2>1, AckRows DEF Typed, Kept, SameRow
  <2>2. CASE UNCHANGED rows
    BY <2>2 DEF SameRow
  <2> QED BY <2>1, <2>2 DEF OutageBegins, OutageEnds, EditMute, EditClass, vars
<1>3. Apart'
  BY <1>1 DEF DeliveryInv, Apart
<1>4. ASSUME NEW i \in 1..Len(rows) PROVE Delivered(i)'
  <2>1. SameFlight(i)
    BY <1>1 DEF SameFlight, Unsent, Taken, Holds, Plans, Reads
  <2> QED BY <1>1, <1>2, <2>1, DeliveredKept DEF DeliveryInv
<1> QED BY <1>2, <1>3, <1>4 DEF DeliveryInv

LEMMA DeliveryNext ==
    ASSUME AlertAssumption, Typed, Typed', DeliveryInv, [Next]_vars PROVE DeliveryInv'
BY Actions, DeliveryFromTick, DeliveryFromReach, DeliveryFromDecide, DeliveryFromInsert,
   DeliveryFromGet, DeliveryFromNextDue, DeliveryFromSend, DeliveryFromMark,
   DeliveryFromRestart, DeliveryFromOutside

-----------------------------------------------------------------------------
(* Recoveries. *)

\* An evaluation that stays where it is, or goes on with the delivery of its row.
Steady(e) ==
    \/ tasks'[e] = tasks[e]
    \/ /\ tasks[e].at \in {"get", "send", "mark"} /\ tasks'[e].at \in {"get", "send", "mark"}
       /\ tasks'[e].row = tasks[e].row

\* A step that only delivers, or happens outside.
Quiet == Kept /\ ev' = ev /\ (\A e \in Evals : Steady(e))

LEMMA QuietSteps ==
    ASSUME AlertAssumption, Typed,
           \/ \E e \in Evals : Get(e)
           \/ \E s \in Sweeps : NextDue(s) \/ Mark(s)
           \/ \E d \in Evals \cup Sweeps, ok \in BOOLEAN : Send(d, ok)
           \/ OutageBegins \/ OutageEnds \/ Acknowledge \/ EditMute \/ EditClass
           \/ UNCHANGED vars
    PROVE  Quiet
<1>0. RowsTyped /\ TasksTyped /\ DOMAIN tasks = Evals \cup Sweeps /\ Evals \cap Sweeps = {}
  BY DEF Typed, TasksTyped, AlertAssumption
<1>1. ASSUME NEW e \in Evals, Get(e) PROVE Quiet
  <2> DEFINE new == Attempt(tasks[e].row, tasks[e].muted, {})
  <2>1. /\ Turned(e, new) /\ UNCHANGED <<rows, ev>> /\ tasks[e].at = "get"
        /\ new.at \in {"send", "mark"} /\ new.row = tasks[e].row
    BY <1>0, <1>1, TaskTurned DEF Get, Attempt
  <2> HIDE DEF new
  <2> QED BY <1>0, <2>1, KeptRows DEF Quiet, Steady, Turned
<1>2. ASSUME NEW s \in Sweeps, NextDue(s) PROVE Quiet
  <2>1. PICK i \in tasks[s].due :
            tasks' = [tasks EXCEPT ![s] = Attempt(i, tasks[s].muted, tasks[s].due \ {i})]
    BY <1>2 DEF NextDue
  <2>2. UNCHANGED <<rows, ev>> /\ \A e \in Evals : tasks'[e] = tasks[e]
    BY <1>0, <1>2, <2>1 DEF NextDue
  <2> QED BY <1>0, <2>2, KeptRows DEF Quiet, Steady
<1>3. ASSUME NEW s \in Sweeps, Mark(s) PROVE Quiet
  <2>1. tasks[s] \in Sending(Len(rows))
    BY <1>0, <1>3, TaskFacts DEF Mark
  <2>2. Kept
    BY <1>0, <1>3, <2>1, MarkRows DEF Sending
  <2>3. ev' = ev /\ \A e \in Evals : tasks'[e] = tasks[e]
    BY <1>0, <1>3 DEF Mark
  <2> QED BY <2>2, <2>3 DEF Quiet, Steady
<1>4. ASSUME NEW d \in Evals \cup Sweeps, NEW ok \in BOOLEAN, Send(d, ok) PROVE Quiet
  <2>1. tasks[d] \in Sending(Len(rows))
    BY <1>0, <1>4, TaskFacts DEF Send
  <2>2. Kept
    BY <1>0, <1>4, <2>1, SendRows DEF Sending
  <2> DEFINE new == [tasks[d] EXCEPT !.at = "mark", !.ok = ok]
  <2>3. Turned(d, new) /\ ev' = ev /\ tasks[d].at = "send"
    BY <1>0, <1>4, TaskTurned DEF Send
  <2>4. new.at = "mark" /\ new.row = tasks[d].row
    BY <2>1 DEF Sending
  <2> HIDE DEF new
  <2> QED BY <1>0, <2>2, <2>3, <2>4 DEF Quiet, Steady, Turned
<1>5. CASE Acknowledge
  BY <1>0, <1>5, AckRows DEF Acknowledge, Quiet, Steady
<1>6. CASE OutageBegins \/ OutageEnds \/ EditMute \/ EditClass \/ UNCHANGED vars
  <2>1. UNCHANGED <<rows, ev, tasks>>
    BY <1>6 DEF OutageBegins, OutageEnds, EditMute, EditClass, vars
  <2> QED BY <1>0, <2>1, KeptRows DEF Quiet, Steady
<1> QED BY <1>1, <1>2, <1>3, <1>4, <1>5, <1>6

LEMMA BusyFinite ==
    AlertAssumption => IsFiniteSet(Busy) /\ Cardinality(Busy) \in Nat
BY FS_Subset, FS_CardinalityType DEF Busy, AlertAssumption

LEMMA BusyNext ==
    ASSUME AlertAssumption, Typed, Typed', Cardinality(Busy) <= 1 + overlaps, [Next]_vars
    PROVE  (Cardinality(Busy) <= 1 + overlaps)'
<1>0. TasksTyped /\ DOMAIN tasks = Evals \cup Sweeps /\ Evals \cap Sweeps = {}
  BY DEF Typed, TasksTyped, AlertAssumption
<1>1. overlaps \in Nat /\ IsFiniteSet(Busy) /\ Cardinality(Busy) \in Nat /\ Idle.at = "idle"
  BY WorldNumbers, BusyFinite DEF Typed, Idle
<1> PICK o \in Nat, n \in Nat : overlaps = o /\ Cardinality(Busy) = n /\ n <= 1 + o
  BY <1>1
<1>2. ASSUME Busy' \subseteq Busy, overlaps' = overlaps PROVE (Cardinality(Busy) <= 1 + overlaps)'
  <2>1. Cardinality(Busy') \in Nat /\ Cardinality(Busy') <= n
    BY <1>1, <1>2, SubsetCount
  <2> QED BY <1>2, <2>1
<1>3. CASE Tick
  <2>1. PICK e \in Evals, s \in Sweeps : Started(e, s)
    BY <1>0, <1>3, TickTasks
  <2>2. Busy' \subseteq Busy \cup {e}
    BY <1>0, <2>1 DEF Busy, Started
  <2>3. CASE InFlight = {}
    <3>1. Busy = {} /\ overlaps' = o
      BY <1>0, <1>3, <2>3 DEF InFlight, Busy, Tick, Overlaps
    <3>2. n = 0
      BY <3>1, FS_EmptySet
    <3>3. Cardinality(Busy') \in Nat /\ Cardinality(Busy') <= 0 + 1
      BY <1>1, <2>2, <3>2, AddedCount
    <3> QED BY <3>1, <3>3
  <2>4. CASE InFlight # {}
    <3>1. overlaps' = o + 1
      BY <1>3, <2>4 DEF Tick, Overlaps
    <3>2. Cardinality(Busy') \in Nat /\ Cardinality(Busy') <= n + 1
      BY <1>1, <2>2, AddedCount
    <3> QED BY <3>1, <3>2
  <2> QED BY <2>3, <2>4
<1>4. ASSUME NEW e \in Evals, tasks[e].at # "idle", overlaps' = overlaps,
             \A x \in Evals : x # e => tasks'[x] = tasks[x]
      PROVE  (Cardinality(Busy) <= 1 + overlaps)'
  <2>1. Busy' \subseteq Busy
    BY <1>0, <1>1, <1>4, TaskFacts DEF Busy
  <2> QED BY <1>2, <1>4, <2>1
<1>5. ASSUME NEW e \in Evals, Reach(e) \/ Decide(e) \/ Insert(e) \/ Mark(e)
      PROVE  (Cardinality(Busy) <= 1 + overlaps)'
  <2>1. \A x \in Evals : x # e => tasks'[x] = tasks[x]
    BY <1>0, <1>5 DEF Reach, Decide, Insert, Mark
  <2>2. tasks[e].at # "idle" /\ overlaps' = overlaps
    BY <1>5 DEF Reach, Decide, Insert, Mark, world
  <2> QED BY <1>4, <2>1, <2>2
<1>6. ASSUME Quiet, overlaps' = overlaps PROVE (Cardinality(Busy) <= 1 + overlaps)'
  <2>1. Busy' \subseteq Busy
    BY <1>0, <1>1, <1>6, TaskFacts DEF Busy, Quiet, Steady
  <2> QED BY <1>2, <1>6, <2>1
<1>7. CASE Restart
  <2>1. Busy' = {} /\ overlaps' = overlaps
    BY <1>0, <1>7 DEF Restart, Busy
  <2> QED BY <1>2, <2>1
<1>8. ASSUME \/ \E e \in Evals : Get(e)
             \/ \E s \in Sweeps : NextDue(s) \/ Mark(s)
             \/ \E d \in Evals \cup Sweeps, ok \in BOOLEAN : Send(d, ok)
             \/ OutageBegins \/ OutageEnds \/ Acknowledge \/ EditMute \/ EditClass
             \/ UNCHANGED vars
      PROVE  Quiet /\ overlaps' = overlaps
  <2>1. overlaps' = overlaps
    BY <1>8 DEF Get, NextDue, Mark, Send, OutageBegins, OutageEnds, Acknowledge, EditMute,
                EditClass, vars, world
  <2> QED BY <1>8, <2>1, QuietSteps
<1> QED BY Actions, <1>3, <1>5, <1>6, <1>7, <1>8

LEMMA RecoveryFinite ==
    AlertAssumption /\ RowsTyped =>
        \A i : /\ IsFiniteSet(Pairing(i)) /\ IsFiniteSet(Carrying(i)) /\ IsFiniteSet(Recovering(i))
               /\ Cardinality(Pairing(i)) \in Nat /\ Cardinality(Carrying(i)) \in Nat
               /\ Cardinality(Recovering(i)) \in Nat /\ Recoveries(i) \in Nat
<1> SUFFICES ASSUME AlertAssumption, RowsTyped, NEW i
             PROVE  /\ IsFiniteSet(Pairing(i)) /\ IsFiniteSet(Carrying(i))
                    /\ IsFiniteSet(Recovering(i))
                    /\ Cardinality(Pairing(i)) \in Nat /\ Cardinality(Carrying(i)) \in Nat
                    /\ Cardinality(Recovering(i)) \in Nat /\ Recoveries(i) \in Nat
  OBVIOUS
<1>1. IsFiniteSet(1..Len(rows)) /\ Pairing(i) \subseteq 1..Len(rows)
  <2>1. 1 \in Int /\ Len(rows) \in Int /\ DOMAIN rows = 1..Len(rows)
    BY DEF RowsTyped
  <2> QED BY <2>1, FS_Interval DEF Pairing
<1>2. IsFiniteSet(Evals) /\ Carrying(i) \subseteq Evals /\ Recovering(i) \subseteq Evals
  BY DEF AlertAssumption, Carrying, Recovering
<1>3. /\ IsFiniteSet(Pairing(i)) /\ IsFiniteSet(Carrying(i)) /\ IsFiniteSet(Recovering(i))
      /\ Cardinality(Pairing(i)) \in Nat /\ Cardinality(Carrying(i)) \in Nat
      /\ Cardinality(Recovering(i)) \in Nat
  BY <1>1, <1>2, SubsetCount
<1> QED BY <1>3 DEF Recoveries

LEMMA RecoveryFiniteNext ==
    AlertAssumption /\ RowsTyped' =>
        \A i : /\ Cardinality(Pairing(i)') \in Nat /\ Cardinality(Carrying(i)') \in Nat
               /\ Cardinality(Recovering(i)') \in Nat /\ Recoveries(i)' \in Nat
<1> SUFFICES ASSUME AlertAssumption, RowsTyped', NEW i
             PROVE  /\ Cardinality(Pairing(i)') \in Nat /\ Cardinality(Carrying(i)') \in Nat
                    /\ Cardinality(Recovering(i)') \in Nat /\ Recoveries(i)' \in Nat
  OBVIOUS
<1>1. IsFiniteSet(1..Len(rows')) /\ Pairing(i)' \subseteq 1..Len(rows')
  <2>1. 1 \in Int /\ Len(rows') \in Int /\ DOMAIN rows' = 1..Len(rows')
    BY DEF RowsTyped
  <2> QED BY <2>1, FS_Interval DEF Pairing
<1>2. IsFiniteSet(Evals) /\ Carrying(i)' \subseteq Evals /\ Recovering(i)' \subseteq Evals
  BY DEF AlertAssumption, Carrying, Recovering
<1>3. /\ Cardinality(Pairing(i)') \in Nat /\ Cardinality(Carrying(i)') \in Nat
      /\ Cardinality(Recovering(i)') \in Nat
  BY <1>1, <1>2, SubsetCount
<1> QED BY <1>3 DEF Recoveries

\* Nothing new is recorded about row i, nor started, while it stays the active alert.
LEMMA RecoveredKept ==
    ASSUME AlertAssumption, Typed, Typed', NEW i \in 1..Len(rows), Recovered(i),
           Pairing(i)' \subseteq Pairing(i), Carrying(i)' \subseteq Carrying(i),
           rows'[i].kind = rows[i].kind,
           overlaps' \in {overlaps, overlaps + 1},
           ev'.active = i => ev.active = i /\ Recovering(i) \subseteq Recovering(i)',
           \A e \in Evals : Holds(e, i)' => Holds(e, i)
    PROVE  Recovered(i)'
<1>1. /\ Recoveries(i) \in Nat /\ Recoveries(i)' \in Nat /\ Recoveries(i)' <= Recoveries(i)
  <2>1. /\ Cardinality(Pairing(i)') \in Nat /\ Cardinality(Pairing(i)) \in Nat
        /\ Cardinality(Pairing(i)') <= Cardinality(Pairing(i))
        /\ Cardinality(Carrying(i)') \in Nat /\ Cardinality(Carrying(i)) \in Nat
        /\ Cardinality(Carrying(i)') <= Cardinality(Carrying(i))
    BY RecoveryFinite, SubsetCount DEF Typed
  <2>2. \A a, b, c, d \in Nat : a <= b /\ c <= d => a + c \in Nat /\ b + d \in Nat /\ a + c <= b + d
    OBVIOUS
  <2> QED BY <2>1, <2>2 DEF Recoveries
<1> PICK n \in Nat, m \in Nat, o \in Nat :
        Recoveries(i) = n /\ Recoveries(i)' = m /\ m <= n /\ overlaps = o
  BY <1>1, WorldNumbers DEF Typed
<1>2. m <= 1 + overlaps'
  <2>1. n <= 1 + o
    BY DEF Recovered
  <2> QED BY <2>1
<1>3. ASSUME ev'.active = i PROVE m <= Cardinality(Recovering(i)')
  <2>1. n <= Cardinality(Recovering(i)) /\ Recovering(i) \subseteq Recovering(i)'
    BY <1>3 DEF Recovered
  <2>2. IsFiniteSet(Recovering(i)')
    <3>1. Recovering(i)' \subseteq Evals
      BY DEF Recovering
    <3> QED BY <3>1, SubsetCount DEF AlertAssumption
  <2>3. /\ Cardinality(Recovering(i)) \in Nat /\ Cardinality(Recovering(i)') \in Nat
        /\ Cardinality(Recovering(i)) <= Cardinality(Recovering(i)')
    BY <2>1, <2>2, SubsetCount
  <2> QED BY <2>1, <2>3
<1>4. ASSUME NEW e \in Evals, Holds(e, i)', rows'[i].kind = "firing"
      PROVE  m = 0 /\ ev'.active # i
  <2>1. n = 0 /\ ev.active # i
    BY <1>4 DEF Recovered
  <2> QED BY <2>1
<1> QED BY <1>2, <1>3, <1>4 DEF Recovered

\* The rest of the invariant of the recoveries.
RecoveryRest ==
    /\ \A i \in 1..Len(rows) : rows[i].pairs <= Len(rows)
    /\ \A e \in Evals : tasks[e].at = "insert" /\ tasks[e].kind = "firing" => tasks[e].pairs = 0
    /\ \A e \in Evals : \A f \in Evals :
           \A i \in 1..Len(rows) : Holds(e, i) /\ Holds(f, i) => e = f

LEMMA RestFollows ==
    RecoveryInv => RecoveryRest /\ \A i \in 1..Len(rows) : Recovered(i)
BY DEF RecoveryInv, RecoveryRest

\* A step that keeps the rows, and where no evaluation takes up a delivery or an alert.
LEMMA RestKept ==
    ASSUME RecoveryRest, Kept,
           \A e \in Evals :
               /\ \A i : Holds(e, i)' => Holds(e, i)
               /\ tasks'[e].at = "insert" => tasks'[e] = tasks[e]
    PROVE  RecoveryRest'
<1>1. Len(rows') = Len(rows) /\ \A i \in 1..Len(rows) : rows'[i].pairs = rows[i].pairs
  BY DEF Kept
<1> QED BY <1>1 DEF RecoveryRest

LEMMA PairingKept == ASSUME RowsTyped, Kept PROVE \A i : Pairing(i)' = Pairing(i)
BY DEF Kept, RowsTyped, Pairing

LEMMA RecoveryFromQuiet ==
    ASSUME AlertAssumption, Typed, Typed', RecoveryInv, Quiet, overlaps' = overlaps
    PROVE  RecoveryRest' /\ \A i \in 1..Len(rows') : Recovered(i)'
<1>1. Kept /\ ev' = ev /\ Len(rows') = Len(rows)
  BY DEF Quiet, Kept
<1>2. ASSUME NEW e \in Evals
      PROVE  /\ \A i : Holds(e, i)' <=> Holds(e, i)
             /\ tasks'[e].at = "insert" \/ tasks[e].at = "insert" => tasks'[e] = tasks[e]
  BY DEF Quiet, Steady, Holds
<1>3. RecoveryRest'
  BY <1>1, <1>2, RestFollows, RestKept
<1>4. ASSUME NEW i \in 1..Len(rows) PROVE Recovered(i)'
  <2>1. Pairing(i)' = Pairing(i) /\ rows'[i].kind = rows[i].kind
    BY <1>1, PairingKept DEF Typed, Kept
  <2>2. Carrying(i)' = Carrying(i)
    BY <1>2 DEF Carrying
  <2>3. Recovering(i) \subseteq Recovering(i)'
    <3> SUFFICES ASSUME NEW e \in Recovering(i) PROVE e \in Recovering(i)'
      OBVIOUS
    <3>1. CASE tasks[e].at = "insert"
      BY <1>2, <3>1 DEF Recovering
    <3>2. CASE tasks[e].at \in {"get", "send", "mark"} /\ rows[tasks[e].row].pairs = i
      <4>1. e \in Evals /\ tasks[e].row \in 1..Len(rows)
        BY <3>2, TaskFacts DEF Typed, Getting, Sending, Recovering
      <4>2. tasks'[e].at \in {"get", "send", "mark"} /\ tasks'[e].row = tasks[e].row
        BY <3>2, <4>1 DEF Quiet, Steady
      <4>3. rows'[tasks[e].row].pairs = i
        BY <1>1, <3>2, <4>1 DEF Kept
      <4> QED BY <4>1, <4>2, <4>3 DEF Recovering
    <3> QED BY <3>1, <3>2 DEF Recovering
  <2>4. \A e \in Evals : Holds(e, i)' => Holds(e, i)
    BY <1>2
  <2> QED BY <1>1, <2>1, <2>2, <2>3, <2>4, RestFollows, RecoveredKept
<1> QED BY <1>1, <1>3, <1>4

LEMMA RecoveryFromTick ==
    ASSUME AlertAssumption, Typed, Typed', RecoveryInv, Tick
    PROVE  RecoveryRest' /\ \A i \in 1..Len(rows') : Recovered(i)'
<1>1. Kept /\ Len(rows') = Len(rows)
  BY TickRows DEF Typed, Kept
<1>2. PICK e \in Evals, s \in Sweeps : Started(e, s)
  BY TickTasks DEF Typed
<1>3. /\ \A x \in Evals : x # e => tasks'[x] = tasks[x]
      /\ tasks'[e].at = "reach" /\ tasks[e].at = "idle"
  BY <1>2 DEF Started, Typed, TasksTyped, Idle, AlertAssumption
<1>4. ev'.active = ev.active
  BY DEF Tick, Typed, EvTyped
<1>5. overlaps' \in {overlaps, overlaps + 1}
  BY DEF Tick, Overlaps
<1>6. RecoveryRest'
  BY <1>1, <1>3, RestFollows, RestKept DEF Holds
<1>7. ASSUME NEW i \in 1..Len(rows) PROVE Recovered(i)'
  <2>1. Pairing(i)' = Pairing(i) /\ rows'[i].kind = rows[i].kind
    BY <1>1, PairingKept DEF Typed, Kept
  <2>2. Carrying(i)' = Carrying(i)
    BY <1>3 DEF Carrying
  <2>3. Recovering(i) \subseteq Recovering(i)'
    <3> SUFFICES ASSUME NEW x \in Recovering(i) PROVE x \in Recovering(i)'
      OBVIOUS
    <3>1. x \in Evals /\ tasks'[x] = tasks[x]
      BY <1>3 DEF Recovering
    <3>2. tasks[x].at \in {"get", "send", "mark"} => tasks[x].row \in 1..Len(rows)
      BY <3>1, TaskFacts DEF Typed, Getting, Sending
    <3> QED BY <1>1, <3>1, <3>2 DEF Recovering, Kept
  <2>4. \A x \in Evals : Holds(x, i)' => Holds(x, i)
    BY <1>3 DEF Holds
  <2> QED BY <1>4, <1>5, <2>1, <2>2, <2>3, <2>4, RestFollows, RecoveredKept
<1> QED BY <1>1, <1>6, <1>7

\* The evaluation that finishes with the class was none that records a recovery.
LEMMA RecoveryFromReach ==
    ASSUME AlertAssumption, Typed, Typed', RecoveryInv, NEW e \in Evals, Reach(e)
    PROVE  RecoveryRest' /\ \A i \in 1..Len(rows') : Recovered(i)'
<1>1. Kept /\ Len(rows') = Len(rows) /\ UNCHANGED <<rows, overlaps>>
  BY KeptRows DEF Reach, Typed, Kept, world
<1>2. /\ \A x \in Evals : x # e => tasks'[x] = tasks[x]
      /\ tasks'[e].at = "idle" /\ tasks[e].at = "reach"
  BY DEF Reach, Typed, TasksTyped, Idle
<1>3. ev'.active \in {ev.active, 0}
  BY DEF Reach, INITIAL, Typed, EvTyped
<1>4. RecoveryRest'
  BY <1>1, <1>2, RestFollows, RestKept DEF Holds
<1>5. ASSUME NEW i \in 1..Len(rows) PROVE Recovered(i)'
  <2>1. Pairing(i)' = Pairing(i)
    BY <1>1, PairingKept DEF Typed
  <2>2. Carrying(i)' = Carrying(i) /\ Recovering(i)' = Recovering(i)
    BY <1>1, <1>2 DEF Carrying, Recovering
  <2>3. \A x \in Evals : Holds(x, i)' => Holds(x, i)
    BY <1>2 DEF Holds
  <2>4. ev'.active = i => ev.active = i
    BY <1>3 DEF Typed, RowsTyped
  <2> QED BY <1>1, <2>1, <2>2, <2>3, <2>4, RestFollows, RecoveredKept
<1> QED BY <1>1, <1>4, <1>5

LEMMA DecideTasks ==
    ASSUME Typed, NEW e \in Evals, Decide(e)
    PROVE  /\ UNCHANGED <<rows, ev, outage, enabled, outages, epoch, overlaps>>
           /\ \A x \in Evals : x # e => tasks'[x] = tasks[x]
           /\ tasks[e].at = "reach" /\ ~tasks[e].off /\ tasks'[e].at = "insert"
           /\ tasks'[e].episode = tasks[e].episode /\ tasks'[e].epoch = tasks[e].epoch
           /\ tasks'[e].pairs = ev.active
           /\ \/ tasks'[e].kind = "firing" /\ tasks[e].bad /\ ev.active = 0
              \/ tasks'[e].kind = "recovery" /\ ~tasks[e].bad /\ ev.active # 0
BY DEF Decide, Fires, Recovers, world, Typed, TasksTyped

LEMMA RecoveryFromDecide ==
    ASSUME AlertAssumption, Typed, Typed', RecoveryInv, NEW e \in Evals, Decide(e)
    PROVE  RecoveryRest' /\ \A i \in 1..Len(rows') : Recovered(i)'
<1>1. Kept /\ Len(rows') = Len(rows) /\ UNCHANGED <<rows, ev, overlaps>>
  BY KeptRows, DecideTasks DEF Typed, Kept
<1>2. /\ \A x \in Evals : x # e => tasks'[x] = tasks[x]
      /\ tasks[e].at = "reach" /\ tasks'[e].at = "insert" /\ tasks'[e].pairs = ev.active
      /\ tasks'[e].kind = "firing" => ev.active = 0
  BY DecideTasks
<1>3. \A x \in Evals : \A i : Holds(x, i)' => Holds(x, i)
  BY <1>2 DEF Holds
<1>4. RecoveryRest'
  BY <1>1, <1>2, <1>3, RestFollows DEF RecoveryRest
<1>5. ASSUME NEW i \in 1..Len(rows) PROVE Recovered(i)'
  <2>1. Pairing(i)' = Pairing(i)
    BY <1>1, PairingKept DEF Typed
  <2>2. Recovering(i) \subseteq Recovering(i)'
    BY <1>1, <1>2 DEF Recovering
  <2>3. CASE i # ev.active
    <3>1. Carrying(i)' = Carrying(i)
      BY <1>2, <2>3 DEF Carrying
    <3> QED BY <1>1, <1>3, <2>1, <2>2, <3>1, RestFollows, RecoveredKept
  <2>4. CASE i = ev.active
    <3>1. Recoveries(i) <= Cardinality(Recovering(i))
      BY <2>4, RestFollows DEF Recovered
    <3>2. /\ IsFiniteSet(Carrying(i)) /\ IsFiniteSet(Recovering(i)) /\ IsFiniteSet(Busy)
          /\ IsFiniteSet(Recovering(i)')
          /\ Cardinality(Pairing(i)) \in Nat /\ Cardinality(Carrying(i)) \in Nat
          /\ Cardinality(Recovering(i)) \in Nat /\ Cardinality(Busy) \in Nat
      <4>1. Recovering(i)' \subseteq Evals
        BY DEF Recovering
      <4> QED BY <4>1, RecoveryFinite, BusyFinite, SubsetCount DEF Typed, AlertAssumption
    <3>3. Carrying(i)' \subseteq Carrying(i) \cup {e}
      BY <1>2 DEF Carrying
    <3>4. /\ Cardinality(Carrying(i)') \in Nat
          /\ Cardinality(Carrying(i)') <= Cardinality(Carrying(i)) + 1
      BY <3>2, <3>3, AddedCount
    <3>5. e \in Busy /\ Recovering(i) \in SUBSET (Busy \ {e})
      BY <1>2, TaskFacts DEF Typed, Busy, Recovering, Idle
    <3>6. Cardinality(Recovering(i)) + 1 <= Cardinality(Busy)
      BY <3>2, <3>5, RemovedCount
    <3>7. e \in Recovering(i)' /\ e \notin Recovering(i)
      BY <1>2, <2>4 DEF Recovering
    <3>8. /\ Cardinality(Recovering(i)') \in Nat
          /\ Cardinality(Recovering(i)) + 1 <= Cardinality(Recovering(i)')
      <4>1. Recovering(i) \in SUBSET (Recovering(i)' \ {e})
        BY <2>2, <3>7
      <4> QED BY <3>2, <3>7, <4>1, RemovedCount
    <3> PICK p \in Nat, c \in Nat, d \in Nat, n \in Nat, m \in Nat, b \in Nat, o \in Nat :
            /\ Cardinality(Pairing(i)) = p /\ Cardinality(Carrying(i)) = c
            /\ Cardinality(Carrying(i)') = d /\ Cardinality(Recovering(i)) = n
            /\ Cardinality(Recovering(i)') = m /\ Cardinality(Busy) = b /\ overlaps = o
            /\ d <= c + 1 /\ n + 1 <= b /\ n + 1 <= m
      BY <3>2, <3>4, <3>6, <3>8, WorldNumbers DEF Typed
    <3>9. p + c <= n /\ b <= 1 + o
      BY <3>1 DEF Recoveries, RecoveryInv
    <3>10. p + d <= 1 + o /\ p + d <= m
      BY <3>9
    <3>11. Recoveries(i)' = p + d
      BY <2>1 DEF Recoveries
    <3>12. \A x \in Evals : ~(Holds(x, i)' /\ rows'[i].kind = "firing")
      BY <1>1, <1>3, <2>4, RestFollows DEF Recovered
    <3> QED BY <1>1, <3>10, <3>11, <3>12 DEF Recovered
  <2> QED BY <2>3, <2>4
<1> QED BY <1>1, <1>4, <1>5

\* What an evaluation inserts it holds.
LEMMA InsertTasks ==
    ASSUME Typed, NEW e \in Evals, Insert(e)
    PROVE  /\ UNCHANGED <<ev, outage, enabled, outages, epoch, overlaps>>
           /\ \A x \in Evals : x # e => tasks'[x] = tasks[x]
           /\ tasks[e].at = "insert" /\ tasks[e] \in Inserting(Len(rows))
           /\ tasks'[e].at = "get" /\ tasks'[e].row = Len(rows) + 1
BY TaskFacts DEF Insert, world, Typed, TasksTyped

LEMMA RecoveryFromInsert ==
    ASSUME AlertAssumption, Typed, Typed', RecoveryInv, NEW e \in Evals, Insert(e)
    PROVE  RecoveryRest' /\ \A i \in 1..Len(rows') : Recovered(i)'
<1> PICK z \in Nat : z = Len(rows)
  BY DEF Typed, RowsTyped
<1>1. /\ UNCHANGED <<ev, overlaps>>
      /\ \A x \in Evals : x # e => tasks'[x] = tasks[x]
      /\ tasks[e].at = "insert" /\ tasks[e] \in Inserting(z)
      /\ tasks'[e].at = "get" /\ tasks'[e].row = z + 1
  BY InsertTasks
<1> PICK q \in 0..z : q = tasks[e].pairs
  BY <1>1 DEF Inserting
<1>2. /\ Len(rows') = z + 1 /\ DOMAIN rows' = 1..(z + 1) /\ DOMAIN rows = 1..z
      /\ \A i \in 1..z : rows'[i] = rows[i]
      /\ rows'[z + 1].pairs = q /\ rows'[z + 1].kind = tasks[e].kind
  <2>1. /\ RowsTyped' /\ Len(rows') = z + 1 /\ \A i \in 1..z : rows'[i] = rows[i]
        /\ rows'[z + 1].pairs = q /\ rows'[z + 1].kind = tasks[e].kind
    BY InsertRows DEF Typed
  <2>2. DOMAIN rows' = 1..(z + 1) /\ DOMAIN rows = 1..z
    BY <2>1 DEF Typed, RowsTyped
  <2> QED BY <2>1, <2>2
<1>3. \A x \in Evals : tasks[x].at \in {"get", "send", "mark"} => tasks[x].row \in 1..z
  BY TaskFacts DEF Typed, Getting, Sending
<1>4. ev.active \in 0..z /\ z + 1 \notin 1..z /\ z + 1 \notin 0..z
      /\ \A i \in 1..(z + 1) : i \in 1..z \/ i = z + 1
  BY DEF Typed, EvTyped
<1>5. RecoveryRest /\ \A i \in 1..z : Recovered(i)
  BY RestFollows
<1>6. \A x \in Evals, i \in 1..(z + 1) :
          Holds(x, i)' <=> (x = e /\ i = z + 1) \/ (x # e /\ i \in 1..z /\ Holds(x, i))
  BY <1>1, <1>3, <1>4 DEF Holds
<1>7. RecoveryRest'
  <2>1. \A i \in 1..z : rows[i].pairs \in Nat /\ rows[i].pairs <= z
    BY <1>5, RowNumbers DEF RecoveryRest, Typed
  <2>2. \A i \in 1..(z + 1) : rows'[i].pairs <= z + 1
    BY <1>2, <1>4, <2>1
  <2>3. \A x \in Evals : tasks'[x].at = "insert" /\ tasks'[x].kind = "firing" =>
            tasks'[x].pairs = 0
    BY <1>1, <1>5 DEF RecoveryRest
  <2>4. \A x \in Evals : \A y \in Evals : \A i \in 1..(z + 1) :
            Holds(x, i)' /\ Holds(y, i)' => x = y
    BY <1>4, <1>5, <1>6 DEF RecoveryRest
  <2> QED BY <1>2, <2>2, <2>3, <2>4 DEF RecoveryRest
<1>8. ASSUME NEW i \in 1..z, i # q PROVE Recovered(i)'
  <2>1. Pairing(i)' = Pairing(i)
    BY <1>2, <1>4, <1>8 DEF Pairing
  <2>2. Carrying(i)' = Carrying(i)
    BY <1>1, <1>8 DEF Carrying
  <2>3. Recovering(i) \subseteq Recovering(i)'
    <3> SUFFICES ASSUME NEW x \in Recovering(i) PROVE x \in Recovering(i)'
      OBVIOUS
    <3>1. x \in Evals /\ x # e
      BY <1>1, <1>8 DEF Recovering
    <3> QED BY <1>1, <1>2, <1>3, <3>1 DEF Recovering
  <2>4. /\ \A x \in Evals : Holds(x, i)' => Holds(x, i)
        /\ rows'[i].kind = rows[i].kind
    BY <1>2, <1>4, <1>6
  <2> QED BY <1>1, <1>5, <2>1, <2>2, <2>3, <2>4, RecoveredKept
<1>9. ASSUME q \in 1..z PROVE Recovered(q)'
  <2>1. z + 1 \notin Pairing(q) /\ Pairing(q)' = Pairing(q) \cup {z + 1}
    BY <1>2, <1>4 DEF Pairing
  <2>2. e \in Carrying(q) /\ Carrying(q)' = Carrying(q) \ {e}
    BY <1>1 DEF Carrying
  <2>3. Recovering(q) \subseteq Recovering(q)'
    <3> SUFFICES ASSUME NEW x \in Recovering(q) PROVE x \in Recovering(q)'
      OBVIOUS
    <3>1. CASE x = e
      BY <1>1, <1>2, <3>1 DEF Recovering
    <3>2. CASE x # e
      BY <1>1, <1>2, <1>3, <3>2 DEF Recovering
    <3> QED BY <3>1, <3>2
  <2>4. /\ IsFiniteSet(Pairing(q)) /\ IsFiniteSet(Carrying(q))
        /\ Cardinality(Pairing(q)) \in Nat /\ Cardinality(Carrying(q)) \in Nat
    BY RecoveryFinite DEF Typed
  <2>5. /\ Cardinality(Pairing(q)') = Cardinality(Pairing(q)) + 1
        /\ Cardinality(Carrying(q)') = Cardinality(Carrying(q)) - 1
    <3>1. Cardinality(Pairing(q) \cup {z + 1}) = Cardinality(Pairing(q)) + 1
      BY <2>1, <2>4, FS_AddElement
    <3>2. Cardinality(Carrying(q) \ {e}) = Cardinality(Carrying(q)) - 1
      BY <2>2, <2>4, FS_RemoveElement
    <3> QED BY <2>1, <2>2, <3>1, <3>2
  <2>6. Recoveries(q)' = Recoveries(q) /\ Recoveries(q) \in Nat
    <3> PICK a \in Nat, b \in Nat : Cardinality(Pairing(q)) = a /\ Cardinality(Carrying(q)) = b
      BY <2>4
    <3>1. (a + 1) + (b - 1) = a + b /\ a + b \in Nat
      OBVIOUS
    <3> QED BY <2>5, <3>1 DEF Recoveries
  <2>7. /\ Cardinality(Recovering(q)) \in Nat /\ Cardinality(Recovering(q)') \in Nat
        /\ Cardinality(Recovering(q)) <= Cardinality(Recovering(q)')
    <3>1. IsFiniteSet(Recovering(q)')
      <4>1. Recovering(q)' \subseteq Evals
        BY DEF Recovering
      <4> QED BY <4>1, SubsetCount DEF AlertAssumption
    <3> QED BY <2>3, <3>1, SubsetCount
  <2>8. Recovered(q)
    BY <1>5, <1>9
  <2>9. Recoveries(q)' <= 1 + overlaps'
    BY <1>1, <2>6, <2>8 DEF Recovered
  <2>10. ev'.active = q => Recoveries(q)' <= Cardinality(Recovering(q)')
    BY <1>1, <2>6, <2>7, <2>8 DEF Recovered
  <2>11. \A x \in Evals : Holds(x, q)' /\ rows'[q].kind = "firing" =>
            Recoveries(q)' = 0 /\ ev'.active # q
    BY <1>1, <1>2, <1>4, <1>6, <1>9, <2>6, <2>8 DEF Recovered
  <2> QED BY <2>9, <2>10, <2>11 DEF Recovered
<1>10. Recovered(z + 1)'
  <2>1. \A i \in 1..z : rows[i].pairs # z + 1
    <3>1. \A i \in 1..z : rows[i].pairs \in Nat /\ rows[i].pairs <= z
      BY <1>5, RowNumbers DEF RecoveryRest, Typed
    <3> QED BY <3>1
  <2>2. Pairing(z + 1)' = {}
    BY <1>2, <1>4, <2>1 DEF Pairing
  <2>3. \A x \in Evals : tasks[x].at = "insert" => tasks[x].pairs \in 0..z
    BY TaskFacts DEF Typed, Inserting
  <2>4. Carrying(z + 1)' = {}
    BY <1>1, <1>4, <2>3 DEF Carrying
  <2>5. Recoveries(z + 1)' = 0
    <3>1. Cardinality(Pairing(z + 1)') = 0 /\ Cardinality(Carrying(z + 1)') = 0
      BY <2>2, <2>4, EmptyCount
    <3> QED BY <3>1 DEF Recoveries
  <2>6. ev'.active # z + 1 /\ overlaps' \in Nat
    BY <1>1, <1>4, WorldNumbers DEF Typed
  <2> QED BY <2>5, <2>6 DEF Recovered
<1> QED BY <1>2, <1>4, <1>7, <1>8, <1>9, <1>10

\* An evaluation that is done with a row: an alert is the active one then, and a recovery
\* leaves none.
LEMMA MarkTasks ==
    ASSUME AlertAssumption, Typed, NEW e \in Evals, Mark(e)
    PROVE  /\ Kept /\ UNCHANGED <<outage, enabled, outages, epoch, overlaps>>
           /\ \A x \in Evals : x # e => tasks'[x] = tasks[x]
           /\ tasks[e].at = "mark" /\ tasks'[e] = Idle /\ tasks'[e].at = "idle"
           /\ tasks[e].row \in 1..Len(rows) /\ Holds(e, tasks[e].row)
           /\ ev'.active = IF rows[tasks[e].row].kind = "firing" THEN tasks[e].row ELSE 0
<1>1. tasks[e] \in Sending(Len(rows)) /\ tasks[e].at = "mark"
  BY TaskFacts DEF Mark, Typed
<1>2. tasks[e].row \in 1..Len(rows) /\ tasks[e].attempts \in Nat
  BY <1>1 DEF Sending
<1>3. Kept
  BY <1>2, MarkRows DEF Typed
<1>4. /\ UNCHANGED <<outage, enabled, outages, epoch, overlaps>>
      /\ \A x \in Evals : x # e => tasks'[x] = tasks[x]
      /\ tasks'[e] = Idle /\ tasks'[e].at = "idle"
  BY DEF Mark, world, Typed, TasksTyped, Idle
<1>5. ev'.active = IF rows[tasks[e].row].kind = "firing" THEN tasks[e].row ELSE 0
  BY DEF Mark, Settled, INITIAL
<1> QED BY <1>1, <1>2, <1>3, <1>4, <1>5 DEF Holds

LEMMA RecoveryFromMark ==
    ASSUME AlertAssumption, Typed, Typed', RecoveryInv, NEW e \in Evals, Mark(e)
    PROVE  RecoveryRest' /\ \A i \in 1..Len(rows') : Recovered(i)'
<1> PICK j \in 1..Len(rows) : j = tasks[e].row
  BY MarkTasks
<1>1. /\ Kept /\ Len(rows') = Len(rows) /\ overlaps' = overlaps
      /\ \A x \in Evals : x # e => tasks'[x] = tasks[x]
      /\ tasks[e].at = "mark" /\ tasks'[e].at = "idle" /\ Holds(e, j)
      /\ ev'.active = IF rows[j].kind = "firing" THEN j ELSE 0
  BY MarkTasks DEF Kept
<1>2. \A x \in Evals : \A i : Holds(x, i)' => x # e /\ Holds(x, i)
  BY <1>1 DEF Holds
<1>3. RecoveryRest'
  BY <1>1, <1>2, RestFollows, RestKept
<1>4. \A i : Pairing(i)' = Pairing(i) /\ Carrying(i)' = Carrying(i)
  BY <1>1, PairingKept DEF Typed, Carrying
<1>5. ASSUME NEW i \in 1..Len(rows), ev'.active # i PROVE Recovered(i)'
  BY <1>1, <1>2, <1>4, <1>5, RestFollows, RecoveredKept DEF Kept
<1>6. ASSUME NEW i \in 1..Len(rows), ev'.active = i PROVE Recovered(i)'
  <2>1. i = j /\ rows[j].kind = "firing"
    BY <1>1, <1>6 DEF Typed, RowsTyped
  <2>2. Recoveries(i) = 0 /\ Recoveries(i)' = Recoveries(i)
    BY <1>1, <1>4, <2>1, RestFollows DEF Recovered, Recoveries
  <2>3. \A x \in Evals : ~Holds(x, i)'
    BY <1>1, <1>2, <2>1, RestFollows DEF RecoveryRest
  <2>4. Cardinality(Recovering(i)') \in Nat /\ overlaps' \in Nat
    BY RecoveryFiniteNext, WorldNumbers, <1>1 DEF Typed
  <2> QED BY <2>2, <2>3, <2>4 DEF Recovered
<1> QED BY <1>1, <1>3, <1>5, <1>6

LEMMA RestartTasks ==
    ASSUME Typed, Restart
    PROVE  /\ Kept /\ UNCHANGED <<rows, outage, enabled, outages, epoch, overlaps>>
           /\ \A x \in Evals : tasks'[x] = Idle /\ tasks'[x].at = "idle"
           /\ \A i \in 1..Len(rows) :
                  ev'.active = i => rows[i].kind = "firing" /\ Pairing(i) = {}
           /\ ev'.active = 0 => \A i \in 1..Len(rows) : rows[i].kind = "firing" => Paired(rows, i)
<1>1. /\ Kept /\ UNCHANGED <<rows, outage, enabled, outages, epoch, overlaps>>
      /\ \A x \in Evals : tasks'[x] = Idle /\ tasks'[x].at = "idle"
  BY KeptRows DEF Restart, Typed, TasksTyped, Idle
<1>2. ev' = hydrate /\ DOMAIN rows = 1..Len(rows) /\ RowsTyped
  BY DEF Restart, Typed, RowsTyped
<1>3. CASE Open(rows) = {}
  <2>1. ev'.active = 0
    BY <1>2, <1>3, HydrateOpens DEF INITIAL
  <2> QED BY <1>1, <1>2, <1>3, <2>1 DEF Open
<1>4. CASE Open(rows) # {}
  <2>1. ev'.active \in Open(rows)
    BY <1>2, <1>4, HydrateOpens
  <2>2. ev'.active \in 1..Len(rows)
    BY <1>2, <2>1 DEF Open
  <2>3. ev'.active # 0
    BY <2>2
  <2> QED BY <1>1, <2>1, <2>3 DEF Open, Paired, Pairing
<1> QED BY <1>3, <1>4

LEMMA RecoveryFromRestart ==
    ASSUME AlertAssumption, Typed, Typed', RecoveryInv, Restart
    PROVE  RecoveryRest' /\ \A i \in 1..Len(rows') : Recovered(i)'
<1>1. /\ Kept /\ Len(rows') = Len(rows) /\ overlaps' = overlaps /\ UNCHANGED rows
      /\ \A x \in Evals : tasks'[x].at = "idle"
      /\ \A i \in 1..Len(rows) : ev'.active = i => Pairing(i) = {}
  BY RestartTasks DEF Kept
<1>2. /\ \A x \in Evals : \A i : ~Holds(x, i)'
      /\ \A i : Carrying(i)' = {} /\ Pairing(i)' = Pairing(i)
  BY <1>1 DEF Holds, Carrying, Pairing
<1>3. RecoveryRest'
  BY <1>1, <1>2, RestFollows, RestKept
<1>4. ASSUME NEW i \in 1..Len(rows), ev'.active # i PROVE Recovered(i)'
  BY <1>1, <1>2, <1>4, RestFollows, RecoveredKept
<1>5. ASSUME NEW i \in 1..Len(rows), ev'.active = i PROVE Recovered(i)'
  <2>1. Cardinality(Pairing(i)') = 0 /\ Cardinality(Carrying(i)') = 0
    BY <1>1, <1>2, <1>5, EmptyCount
  <2>2. Recoveries(i)' = 0
    BY <2>1 DEF Recoveries
  <2>3. Cardinality(Recovering(i)') \in Nat /\ overlaps' \in Nat
    BY <1>1, RecoveryFiniteNext, WorldNumbers DEF Typed
  <2> QED BY <1>2, <2>2, <2>3 DEF Recovered
<1> QED BY <1>1, <1>3, <1>4, <1>5

LEMMA RecoveryNext ==
    ASSUME AlertAssumption, Typed, Typed', RecoveryInv, [Next]_vars PROVE RecoveryInv'
<1>1. (Cardinality(Busy) <= 1 + overlaps)'
  BY BusyNext DEF RecoveryInv
<1>2. RecoveryRest' /\ \A i \in 1..Len(rows') : Recovered(i)'
  <2>1. ASSUME \/ \E e \in Evals : Get(e)
               \/ \E s \in Sweeps : NextDue(s) \/ Mark(s)
               \/ \E d \in Evals \cup Sweeps, ok \in BOOLEAN : Send(d, ok)
               \/ OutageBegins \/ OutageEnds \/ Acknowledge \/ EditMute \/ EditClass
               \/ UNCHANGED vars
        PROVE  RecoveryRest' /\ \A i \in 1..Len(rows') : Recovered(i)'
    <3>1. overlaps' = overlaps
      BY <2>1 DEF Get, NextDue, Mark, Send, OutageBegins, OutageEnds, Acknowledge, EditMute,
                  EditClass, vars, world
    <3> QED BY <2>1, <3>1, QuietSteps, RecoveryFromQuiet
  <2> QED BY Actions, <2>1, RecoveryFromTick, RecoveryFromReach, RecoveryFromDecide,
             RecoveryFromInsert, RecoveryFromMark, RecoveryFromRestart
<1> QED BY <1>1, <1>2 DEF RecoveryInv, RecoveryRest

-----------------------------------------------------------------------------
(* Alerts. *)

LEMMA AlertFinite ==
    AlertAssumption /\ RowsTyped =>
        \A k, c : /\ IsFiniteSet(Alerts(k, c)) /\ IsFiniteSet(Telling(k, c))
                  /\ IsFiniteSet(Ahead(k, c))
                  /\ Cardinality(Alerts(k, c)) \in Nat /\ Cardinality(Telling(k, c)) \in Nat
                  /\ Cardinality(Ahead(k, c)) \in Nat /\ Told(k, c) \in Nat
<1> SUFFICES ASSUME AlertAssumption, RowsTyped, NEW k, NEW c
             PROVE  /\ IsFiniteSet(Alerts(k, c)) /\ IsFiniteSet(Telling(k, c))
                    /\ IsFiniteSet(Ahead(k, c))
                    /\ Cardinality(Alerts(k, c)) \in Nat /\ Cardinality(Telling(k, c)) \in Nat
                    /\ Cardinality(Ahead(k, c)) \in Nat /\ Told(k, c) \in Nat
  OBVIOUS
<1>1. IsFiniteSet(1..Len(rows)) /\ Alerts(k, c) \subseteq 1..Len(rows)
  <2>1. 1 \in Int /\ Len(rows) \in Int
    BY DEF RowsTyped
  <2> QED BY <2>1, FS_Interval DEF Alerts
<1>2. IsFiniteSet(Evals) /\ Telling(k, c) \subseteq Evals /\ Ahead(k, c) \subseteq Evals
  BY DEF AlertAssumption, Telling, Ahead, Busy
<1>3. /\ IsFiniteSet(Alerts(k, c)) /\ IsFiniteSet(Telling(k, c)) /\ IsFiniteSet(Ahead(k, c))
      /\ Cardinality(Alerts(k, c)) \in Nat /\ Cardinality(Telling(k, c)) \in Nat
      /\ Cardinality(Ahead(k, c)) \in Nat
  BY <1>1, <1>2, SubsetCount
<1> QED BY <1>3 DEF Told

LEMMA AlertFiniteNext ==
    AlertAssumption /\ RowsTyped' =>
        \A k, c : /\ Cardinality(Alerts(k, c)') \in Nat /\ Cardinality(Telling(k, c)') \in Nat
                  /\ Cardinality(Ahead(k, c)') \in Nat /\ Told(k, c)' \in Nat
<1> SUFFICES ASSUME AlertAssumption, RowsTyped', NEW k, NEW c
             PROVE  /\ Cardinality(Alerts(k, c)') \in Nat /\ Cardinality(Telling(k, c)') \in Nat
                    /\ Cardinality(Ahead(k, c)') \in Nat /\ Told(k, c)' \in Nat
  OBVIOUS
<1>1. IsFiniteSet(1..Len(rows')) /\ Alerts(k, c)' \subseteq 1..Len(rows')
  <2>1. 1 \in Int /\ Len(rows') \in Int
    BY DEF RowsTyped
  <2> QED BY <2>1, FS_Interval DEF Alerts
<1>2. IsFiniteSet(Evals) /\ Telling(k, c)' \subseteq Evals /\ Ahead(k, c)' \subseteq Evals
  BY DEF AlertAssumption, Telling, Ahead, Busy
<1>3. /\ Cardinality(Alerts(k, c)') \in Nat /\ Cardinality(Telling(k, c)') \in Nat
      /\ Cardinality(Ahead(k, c)') \in Nat
  BY <1>1, <1>2, SubsetCount
<1> QED BY <1>3 DEF Told

\* What an evaluation in flight may do to the alerts of an episode, seen from the counts.
Count(k, c) == Told(k, c) + Cardinality(Ahead(k, c))

AllPaired(k, c) == \A i \in Alerts(k, c) : Paired(rows, i)

\* A step that makes the evaluations ahead no more, and the counts no larger.
LEMMA AlertedKept ==
    ASSUME AlertAssumption, Typed, Typed', NEW k, NEW c, AlertedOnce(k, c),
           overlaps' = overlaps, Told(k, c)' <= 1 + overlaps,
           Ahead(k, c)' \subseteq Ahead(k, c), Count(k, c)' <= Count(k, c),
           Alertable(k, c)' => Alertable(k, c), Current(k, c)' => Current(k, c),
           Current(k, c)' /\ Stale(k, c)' => Stale(k, c),
           Alertable(k, c)' /\ ev'.active = 0 =>
               ev.active = 0 \/ Count(k, c)' <= 1 + overlaps,
           Current(k, c)' /\ ev'.active = 0 /\ Busy' = {} => Told(k, c)' <= overlaps,
           Current(k, c)' /\ AllPaired(k, c)' => Cardinality(Alerts(k, c)') <= overlaps
    PROVE  AlertedOnce(k, c)'
<1>1. Count(k, c) \in Nat /\ Count(k, c)' \in Nat
  BY AlertFinite, AlertFiniteNext DEF Typed, Count
<1> PICK o \in Nat, n \in Nat, m \in Nat :
        overlaps = o /\ Count(k, c) = n /\ Count(k, c)' = m /\ m <= n
  BY <1>1, WorldNumbers DEF Typed
<1>2. Alertable(k, c)' /\ Ahead(k, c)' # {} => m <= 2 + o
  <2>1. Alertable(k, c) /\ Ahead(k, c) # {} => n <= 2 + o
    BY DEF AlertedOnce, Count
  <2>2. n <= 2 + o => m <= 2 + o
    OBVIOUS
  <2> QED BY <2>1, <2>2
<1>3. n <= 1 + o => m <= 1 + o
  OBVIOUS
<1>4. Alertable(k, c)' /\ ev'.active = 0 => m <= 1 + o
  <2>1. Alertable(k, c) /\ ev.active = 0 => n <= 1 + o
    BY DEF AlertedOnce, Count
  <2> QED BY <1>3, <2>1
<1>5. Current(k, c)' /\ Stale(k, c)' => m <= 1 + o
  <2>1. Current(k, c) /\ Stale(k, c) => n <= 1 + o
    BY DEF AlertedOnce, Count
  <2> QED BY <1>3, <2>1
<1> QED BY <1>2, <1>4, <1>5 DEF AlertedOnce, Count, AllPaired

\* A step of one evaluation that is ahead of the decision, and leaves.
LEMMA AlertedLeft ==
    ASSUME AlertAssumption, Typed, Typed', NEW k, NEW c, AlertedOnce(k, c),
           NEW e \in Ahead(k, c), Ahead(k, c)' = Ahead(k, c) \ {e},
           Told(k, c)' = Told(k, c), Alerts(k, c)' = Alerts(k, c), overlaps' = overlaps,
           Alertable(k, c)' => Alertable(k, c), Current(k, c)' => Current(k, c),
           Current(k, c)' /\ Stale(k, c)' => Stale(k, c),
           \/ ev'.active # 0
           \/ ev'.active = ev.active
           \/ ~Sees(e, k, c),
           AllPaired(k, c)' => AllPaired(k, c)
    PROVE  AlertedOnce(k, c)'
<1>1. /\ Told(k, c) \in Nat /\ Cardinality(Ahead(k, c)) \in Nat
      /\ Cardinality(Ahead(k, c)') \in Nat
      /\ Cardinality(Ahead(k, c)') + 1 <= Cardinality(Ahead(k, c))
      /\ overlaps \in Nat
  BY AlertFinite, RemovedCount, WorldNumbers DEF Typed
<1> PICK o \in Nat, t \in Nat, g \in Nat, h \in Nat :
        /\ overlaps = o /\ Told(k, c) = t /\ Cardinality(Ahead(k, c)) = g
        /\ Cardinality(Ahead(k, c)') = h /\ h + 1 <= g
  BY <1>1
<1>2. Count(k, c) = t + g /\ Count(k, c)' = t + h /\ t + h <= t + g
  BY DEF Count
<1>3. t <= 1 + o
  BY DEF AlertedOnce
<1>4. Alertable(k, c)' => t + h <= 1 + o
  <2>1. Alertable(k, c) => t + g <= 2 + o
    BY DEF AlertedOnce
  <2>2. t + g <= 2 + o => t + h <= 1 + o
    OBVIOUS
  <2> QED BY <2>1, <2>2
<1>5. Current(k, c)' /\ ev'.active = 0 /\ Busy' = {} => t <= o
  <2>1. Current(k, c) => Alertable(k, c)
    BY DEF Alertable
  <2>2. ~Sees(e, k, c) => Stale(k, c)
    BY DEF Stale
  <2>3. Current(k, c) /\ (ev.active = 0 \/ Stale(k, c)) => t + g <= 1 + o
    BY <2>1 DEF AlertedOnce
  <2>4. t + g <= 1 + o => t <= o
    OBVIOUS
  <2> QED BY <2>2, <2>3, <2>4
<1>6. Current(k, c)' /\ AllPaired(k, c)' => Cardinality(Alerts(k, c)') <= overlaps
  BY DEF AlertedOnce, AllPaired
<1> QED BY <1>2, <1>3, <1>4, <1>5, <1>6, AlertedKept

LEMMA AlertsSame ==
    ASSUME RowsTyped, Kept PROVE \A k, c : Alerts(k, c)' = Alerts(k, c)
BY DEF Kept, Alerts

LEMMA PairedSame ==
    ASSUME RowsTyped, Kept PROVE \A k, c : AllPaired(k, c)' <=> AllPaired(k, c)
<1>1. \A i : Paired(rows', i) <=> Paired(rows, i)
  BY DEF Kept, RowsTyped, Paired
<1> QED BY <1>1, AlertsSame DEF AllPaired

\* An evaluation that does not move is where it was for every episode.
Unmoved(x, k, c) ==
    /\ x \in Busy' <=> x \in Busy
    /\ x \in Telling(k, c)' <=> x \in Telling(k, c)
    /\ x \in Ahead(k, c)' <=> x \in Ahead(k, c)
    /\ Sees(x, k, c)' <=> Sees(x, k, c)

LEMMA OthersUnmoved ==
    ASSUME Typed, NEW k, NEW c, NEW x \in Evals, tasks'[x] = tasks[x],
           \A i \in 1..Len(rows) : i \in Alerts(k, c)' <=> i \in Alerts(k, c)
    PROVE  Unmoved(x, k, c)
<1>1. /\ x \in Busy' <=> x \in Busy
      /\ x \in Telling(k, c)' <=> x \in Telling(k, c)
      /\ Sees(x, k, c)' <=> Sees(x, k, c)
  BY DEF Busy, Telling, Sees
<1>2. tasks[x].at \in {"get", "send", "mark"} => tasks[x].row \in 1..Len(rows)
  BY TaskFacts DEF Typed, Getting, Sending
<1>3. Decided(x, k, c)' <=> Decided(x, k, c)
  BY <1>1, <1>2 DEF Decided
<1> QED BY <1>1, <1>3 DEF Unmoved, Ahead

LEMMA SteadyUnmoved ==
    ASSUME Typed, Kept, NEW k, NEW c, NEW x \in Evals, Steady(x) PROVE Unmoved(x, k, c)
<1>1. Alerts(k, c)' = Alerts(k, c)
  BY AlertsSame DEF Typed
<1>2. CASE tasks'[x] = tasks[x]
  BY <1>1, <1>2, OthersUnmoved
<1>3. CASE /\ tasks[x].at \in {"get", "send", "mark"} /\ tasks'[x].at \in {"get", "send", "mark"}
           /\ tasks'[x].row = tasks[x].row
  BY <1>1, <1>3 DEF Unmoved, Busy, Idle, Telling, Ahead, Decided, Sees
<1> QED BY <1>2, <1>3 DEF Steady

\* When no evaluation moves, only the world can make a difference.
LEMMA AllUnmoved ==
    ASSUME Typed, NEW k, NEW c, \A x \in Evals : Unmoved(x, k, c), Alerts(k, c)' = Alerts(k, c)
    PROVE  /\ Busy' = Busy /\ Telling(k, c)' = Telling(k, c) /\ Ahead(k, c)' = Ahead(k, c)
           /\ Told(k, c)' = Told(k, c) /\ Count(k, c)' = Count(k, c)
           /\ Stale(k, c)' <=> Stale(k, c)
           /\ (\E x \in Evals : Sees(x, k, c)') <=> (\E x \in Evals : Sees(x, k, c))
<1>1. Busy' = Busy
  BY DEF Unmoved, Busy
<1>2. Telling(k, c)' = Telling(k, c)
  BY DEF Unmoved, Telling
<1>3. Ahead(k, c)' = Ahead(k, c)
  BY DEF Unmoved, Ahead, Busy
<1>4. Told(k, c)' = Told(k, c)
  BY <1>2 DEF Told
<1>5. Count(k, c)' = Count(k, c)
  BY <1>3, <1>4 DEF Count
<1>6. \A x \in Ahead(k, c) : x \in Evals
  BY DEF Ahead, Busy
<1>7. Stale(k, c)' <=> Stale(k, c)
  BY <1>3, <1>6 DEF Unmoved, Stale
<1> QED BY <1>1, <1>2, <1>3, <1>4, <1>5, <1>7 DEF Unmoved

\* What was known of an episode stays known.
LEMMA KnownKept ==
    ASSUME AlertAssumption, Typed, NEW k \in Nat, NEW c \in Nat, Known(k, c), [Next]_vars
    PROVE  Known(k, c)'
<1>1. outages \in Nat /\ epoch \in Nat
  BY WorldNumbers DEF Typed
<1>2. /\ outages' \in {outages, outages + 1}
      /\ \/ epoch' = epoch /\ (enabled' = enabled \/ enabled')
         \/ epoch' = epoch + 1
  BY Actions DEF Tick, Reach, Decide, Insert, Get, NextDue, Send, Mark, OutageBegins,
                 OutageEnds, Acknowledge, EditMute, EditClass, Restart, vars, world
<1> QED BY <1>1, <1>2 DEF Known

\* What is told of an episode, or may be decided of it.
Spoken(k, c) ==
    \/ Alerts(k, c) # {} \/ Telling(k, c) # {}
    \/ \E e \in Evals : Sees(e, k, c)

LEMMA InvOf ==
    AlertInv => \A k \in Nat : \A c \in Nat :
                    AlertedOnce(k, c) /\ (Spoken(k, c) => Known(k, c))
BY DEF AlertInv, Spoken

\* An episode that begins, or a class that is enabled, has nothing told of it.
LEMMA AlertedAnew ==
    ASSUME AlertAssumption, Typed, Typed', NEW k, NEW c, ~Spoken(k, c),
           \A x \in Evals : Unmoved(x, k, c), Alerts(k, c)' = Alerts(k, c),
           Cardinality(Busy) <= 1 + overlaps, overlaps' = overlaps
    PROVE  AlertedOnce(k, c)'
<1>1. /\ Alerts(k, c)' = {} /\ Telling(k, c)' = {} /\ Busy' = Busy
      /\ Ahead(k, c)' = Ahead(k, c)
  BY AllUnmoved DEF Spoken
<1>2. Cardinality(Alerts(k, c)') = 0 /\ Cardinality(Telling(k, c)') = 0
  BY <1>1, EmptyCount
<1>3. Told(k, c)' = 0
  BY <1>2 DEF Told
<1>4. /\ Cardinality(Ahead(k, c)') \in Nat /\ Cardinality(Busy) \in Nat
      /\ Cardinality(Ahead(k, c)') <= Cardinality(Busy)
  BY <1>1, BusyFinite, SubsetCount DEF Ahead
<1> PICK o \in Nat, g \in Nat : overlaps = o /\ Cardinality(Ahead(k, c)') = g /\ g <= 1 + o
  BY <1>4, WorldNumbers DEF Typed
<1>5. 0 + g <= 1 + o /\ 0 + g <= 2 + o /\ 0 <= o /\ 0 <= 1 + o
  OBVIOUS
<1> QED BY <1>2, <1>3, <1>5 DEF AlertedOnce

\* Steps that only deliver, or happen outside.
LEMMA AlertFromQuiet ==
    ASSUME AlertAssumption, Typed, Typed', AlertInv, Cardinality(Busy) <= 1 + overlaps,
           Quiet, overlaps' = overlaps, [Next]_vars,
           \A k \in Nat : \A c \in Nat :
               Current(k, c)' => Current(k, c) \/ ~Known(k, c)
    PROVE  AlertInv'
<1> SUFFICES ASSUME NEW k \in Nat, NEW c \in Nat
             PROVE  AlertedOnce(k, c)' /\ (Spoken(k, c)' => Known(k, c)')
  BY DEF AlertInv, Spoken
<1>1. \A x \in Evals : Unmoved(x, k, c)
  BY SteadyUnmoved DEF Quiet
<1>2. Alerts(k, c)' = Alerts(k, c) /\ (AllPaired(k, c)' <=> AllPaired(k, c))
  BY AlertsSame, PairedSame DEF Quiet, Typed
<1>3. Spoken(k, c)' => Spoken(k, c)
  BY <1>1, <1>2, AllUnmoved DEF Spoken
<1>4. Spoken(k, c)' => Known(k, c)'
  BY <1>3, InvOf, KnownKept
<1>5. CASE Current(k, c)' => Current(k, c)
  <2>1. Alertable(k, c)' => Alertable(k, c)
    BY <1>1, <1>5 DEF Alertable, Unmoved
  <2>2. AlertedOnce(k, c) /\ ev' = ev
    BY InvOf DEF Quiet
  <2>3. /\ Busy' = Busy /\ Ahead(k, c)' = Ahead(k, c)
        /\ Told(k, c)' = Told(k, c) /\ Count(k, c)' = Count(k, c)
        /\ Stale(k, c)' <=> Stale(k, c)
    BY <1>1, <1>2, AllUnmoved
  <2>4. Count(k, c) \in Nat
    BY AlertFinite DEF Count, Typed
  <2>5. /\ Told(k, c)' <= 1 + overlaps
        /\ Current(k, c)' /\ ev'.active = 0 /\ Busy' = {} => Told(k, c)' <= overlaps
        /\ Current(k, c)' /\ AllPaired(k, c)' => Cardinality(Alerts(k, c)') <= overlaps
    BY <1>2, <1>5, <2>2, <2>3 DEF AlertedOnce, AllPaired
  <2>6. Count(k, c)' <= Count(k, c)
    BY <2>3, <2>4
  <2>7. /\ Ahead(k, c)' \subseteq Ahead(k, c)
        /\ Current(k, c)' /\ Stale(k, c)' => Stale(k, c)
        /\ Alertable(k, c)' /\ ev'.active = 0 =>
               ev.active = 0 \/ Count(k, c)' <= 1 + overlaps
    BY <2>2, <2>3
  <2>8. AlertedOnce(k, c)
    BY <2>2
  <2>9. AlertedOnce(k, c)'
    BY <1>5, <2>1, <2>5, <2>6, <2>7, <2>8, AlertedKept
  <2> QED BY <1>4, <2>9
<1>6. CASE Current(k, c)' /\ ~Current(k, c)
  <2>1. ~Spoken(k, c)
    BY <1>6, InvOf
  <2>2. Alerts(k, c)' = Alerts(k, c)
    BY <1>2
  <2>3. AlertedOnce(k, c)'
    BY <1>1, <2>1, <2>2, AlertedAnew
  <2> QED BY <1>4, <2>3
<1> QED BY <1>4, <1>5, <1>6

\* An episode that becomes the current one was not known.
LEMMA CurrentAnew ==
    ASSUME AlertAssumption, Typed,
           \/ \E e \in Evals : Get(e)
           \/ \E s \in Sweeps : NextDue(s) \/ Mark(s)
           \/ \E d \in Evals \cup Sweeps, ok \in BOOLEAN : Send(d, ok)
           \/ OutageBegins \/ OutageEnds \/ Acknowledge \/ EditMute \/ EditClass
           \/ UNCHANGED vars
    PROVE  /\ overlaps' = overlaps
           /\ \A k \in Nat : \A c \in Nat : Current(k, c)' => Current(k, c) \/ ~Known(k, c)
<1>1. outages \in Nat /\ epoch \in Nat /\ outage \in BOOLEAN /\ enabled \in BOOLEAN
  BY WorldNumbers DEF Typed, WorldTyped
<1>2. CASE OutageBegins
  BY <1>1, <1>2 DEF OutageBegins, Current, Known
<1>3. CASE EditClass
  BY <1>1, <1>3 DEF EditClass, Current, Known
<1>4. CASE OutageEnds
  BY <1>4 DEF OutageEnds, Current
<1>5. CASE ~(OutageBegins \/ OutageEnds \/ EditClass)
  <2>1. UNCHANGED <<outage, enabled, outages, epoch, overlaps>>
    BY <1>5 DEF Get, NextDue, Mark, Send, Acknowledge, EditMute, vars, world
  <2> QED BY <2>1 DEF Current
<1> QED BY <1>2, <1>3, <1>4, <1>5

LEMMA AlertFromTick ==
    ASSUME AlertAssumption, Typed, Typed', AlertInv, Tick PROVE AlertInv'
<1> SUFFICES ASSUME NEW k \in Nat, NEW c \in Nat
             PROVE  AlertedOnce(k, c)' /\ (Spoken(k, c)' => Known(k, c)')
  BY DEF AlertInv, Spoken
<1>1. Kept /\ UNCHANGED <<outage, enabled, outages, epoch>> /\ ev'.active = ev.active
  BY TickRows DEF Typed, Tick, EvTyped
<1>2. PICK e \in Evals, s \in Sweeps : Started(e, s)
  BY TickTasks DEF Typed
<1>3. /\ \A x \in Evals : x # e => tasks'[x] = tasks[x]
      /\ tasks[e] = Idle /\ tasks[e].at = "idle" /\ tasks'[e].at = "reach"
      /\ Sees(e, k, c)' <=> Current(k, c)
  <2>1. /\ \A x \in Evals : x # e => tasks'[x] = tasks[x]
        /\ tasks[e] = Idle /\ tasks[e].at = "idle"
    BY <1>2 DEF Started, Typed, TasksTyped, Idle, AlertAssumption
  <2>2. /\ tasks'[e].at = "reach" /\ tasks'[e].bad = outage /\ tasks'[e].off = ~enabled
        /\ tasks'[e].episode = outages /\ tasks'[e].epoch = epoch
    BY <1>2 DEF Started
  <2>3. Sees(e, k, c)' <=> /\ tasks'[e].at = "reach" /\ tasks'[e].bad /\ ~tasks'[e].off
                           /\ tasks'[e].episode = k /\ tasks'[e].epoch = c
    BY DEF Sees
  <2>4. Current(k, c) <=> outage /\ enabled /\ outages = k /\ epoch = c
    BY DEF Current
  <2>5. Sees(e, k, c)' <=> Current(k, c)
    BY <2>2, <2>3, <2>4
  <2> QED BY <2>1, <2>2, <2>5
<1>4. \A x \in Evals : x # e => Unmoved(x, k, c)
  BY <1>1, <1>3, SteadyUnmoved DEF Steady
<1>5. /\ Alerts(k, c)' = Alerts(k, c) /\ (AllPaired(k, c)' <=> AllPaired(k, c))
      /\ Current(k, c)' <=> Current(k, c)
  BY <1>1, AlertsSame, PairedSame DEF Typed, Current
<1>6. /\ e \notin Busy /\ e \notin Ahead(k, c) /\ e \notin Telling(k, c) /\ ~Sees(e, k, c)
      /\ e \in Busy' /\ e \in Ahead(k, c)' /\ e \notin Telling(k, c)'
  BY <1>3 DEF Busy, Idle, Ahead, Telling, Decided, Sees
<1>7. Telling(k, c)' = Telling(k, c)
  BY <1>4, <1>6 DEF Unmoved, Telling
<1>8. Ahead(k, c)' = Ahead(k, c) \cup {e}
  BY <1>4, <1>6 DEF Unmoved, Ahead, Busy
<1>9. Spoken(k, c)' => Spoken(k, c) \/ Current(k, c)
  BY <1>3, <1>4, <1>5, <1>7 DEF Spoken, Unmoved
<1>10. Current(k, c) => Known(k, c)
  BY WorldNumbers DEF Current, Known, Typed
<1>11. Spoken(k, c)' => Known(k, c)'
  <2>1. Known(k, c)' <=> Known(k, c)
    BY <1>1 DEF Known
  <2> QED BY <1>9, <1>10, <2>1, InvOf
<1>12. Alertable(k, c)' => Alertable(k, c)
  BY <1>3, <1>4, <1>5 DEF Alertable, Unmoved
<1>13. /\ Told(k, c) \in Nat /\ Cardinality(Ahead(k, c)) \in Nat /\ overlaps \in Nat
       /\ Cardinality(Ahead(k, c)') = Cardinality(Ahead(k, c)) + 1
  BY <1>6, <1>8, AlertFinite, FS_AddElement, WorldNumbers DEF Typed
<1> PICK t \in Nat, g \in Nat, o \in Nat :
        Told(k, c) = t /\ Cardinality(Ahead(k, c)) = g /\ overlaps = o
  BY <1>13
<1>14. Told(k, c)' = t /\ Cardinality(Ahead(k, c)') = g + 1
  BY <1>5, <1>7, <1>13 DEF Told
<1>15. AlertedOnce(k, c)
  BY InvOf
<1>16. CASE InFlight = {}
  <2>1. overlaps' = o
    BY <1>16 DEF Tick, Overlaps
  <2>2. Busy = {} /\ Ahead(k, c) = {} /\ \A x \in Evals : ~Sees(x, k, c)
    BY <1>16 DEF InFlight, Busy, Typed, TasksTyped, Ahead, Sees, Idle
  <2>3. g = 0
    BY <2>2, EmptyCount
  <2>4. Alertable(k, c)' => Current(k, c)
    BY <1>12, <2>2 DEF Alertable
  <2>5. t <= 1 + o /\ t + (g + 1) <= 2 + o
    BY <1>15, <2>3 DEF AlertedOnce
  <2>6. Alertable(k, c)' /\ ev'.active = 0 => t + (g + 1) <= 1 + o
    <3>1. Current(k, c) /\ ev.active = 0 => t <= o
      BY <1>15, <2>2 DEF AlertedOnce
    <3>2. t <= o => t + (g + 1) <= 1 + o
      BY <2>3
    <3> QED BY <1>1, <2>4, <3>1, <3>2
  <2>7. ~(Current(k, c)' /\ Stale(k, c)')
    BY <1>3, <1>5, <1>8, <2>2 DEF Stale
  <2>8. Current(k, c)' /\ AllPaired(k, c)' => Cardinality(Alerts(k, c)') <= o
    BY <1>5, <1>15 DEF AlertedOnce, AllPaired
  <2>9. AlertedOnce(k, c)'
    BY <1>6, <1>14, <2>1, <2>5, <2>6, <2>7, <2>8 DEF AlertedOnce, AllPaired
  <2> QED BY <1>11, <2>9
<1>17. CASE InFlight # {}
  <2>1. overlaps' = o + 1
    BY <1>17 DEF Tick, Overlaps
  <2>2. t <= 1 + o
    BY <1>15 DEF AlertedOnce
  <2>3. t <= 1 + (o + 1)
    BY <2>2
  <2>4. Alertable(k, c)' => t + (g + 1) <= 2 + (o + 1)
    <3>1. CASE Ahead(k, c) = {}
      <4>1. g = 0
        BY <3>1, EmptyCount
      <4> QED BY <2>2, <4>1
    <3>2. CASE Ahead(k, c) # {}
      <4>1. Alertable(k, c) => t + g <= 2 + o
        BY <1>15, <3>2 DEF AlertedOnce
      <4>2. t + g <= 2 + o => t + (g + 1) <= 2 + (o + 1)
        OBVIOUS
      <4> QED BY <1>12, <4>1, <4>2
    <3> QED BY <3>1, <3>2
  <2>5. t + g <= 1 + o => t + (g + 1) <= 1 + (o + 1)
    OBVIOUS
  <2>6. Alertable(k, c)' /\ ev'.active = 0 => t + (g + 1) <= 1 + (o + 1)
    <3>1. Alertable(k, c) /\ ev.active = 0 => t + g <= 1 + o
      BY <1>15 DEF AlertedOnce
    <3> QED BY <1>1, <1>12, <2>5, <3>1
  <2>7. Current(k, c)' /\ Stale(k, c)' => t + (g + 1) <= 1 + (o + 1)
    <3>1. Current(k, c) /\ Stale(k, c) => t + g <= 1 + o
      BY <1>15 DEF AlertedOnce
    <3>2. Current(k, c)' /\ Stale(k, c)' => Current(k, c) /\ Stale(k, c)
      <4>1. \A x \in Ahead(k, c) : x \in Evals /\ x # e
        BY <1>6 DEF Ahead, Busy
      <4> QED BY <1>3, <1>4, <1>5, <1>8, <4>1 DEF Stale, Unmoved
    <3> QED BY <2>5, <3>1, <3>2
  <2>8. Current(k, c)' /\ AllPaired(k, c)' => Cardinality(Alerts(k, c)') <= o + 1
    <3>1. Current(k, c)' /\ AllPaired(k, c)' => Cardinality(Alerts(k, c)) <= o
      BY <1>5, <1>15 DEF AlertedOnce, AllPaired
    <3>2. Cardinality(Alerts(k, c)) \in Nat
      BY AlertFinite DEF Typed
    <3> QED BY <1>5, <3>1, <3>2
  <2>9. AlertedOnce(k, c)'
    BY <1>6, <1>14, <2>1, <2>3, <2>4, <2>6, <2>7, <2>8 DEF AlertedOnce, AllPaired
  <2> QED BY <1>11, <2>9
<1> QED BY <1>16, <1>17

LEMMA AlertFromReach ==
    ASSUME AlertAssumption, Typed, Typed', AlertInv, NEW e \in Evals, Reach(e) PROVE AlertInv'
<1> SUFFICES ASSUME NEW k \in Nat, NEW c \in Nat
             PROVE  AlertedOnce(k, c)' /\ (Spoken(k, c)' => Known(k, c)')
  BY DEF AlertInv, Spoken
<1>1. /\ Kept /\ UNCHANGED <<outage, enabled, outages, epoch, overlaps>>
      /\ \A x \in Evals : x # e => tasks'[x] = tasks[x]
      /\ tasks'[e] = Idle /\ tasks'[e].at = "idle" /\ tasks[e].at = "reach" /\ tasks[e] # Idle
      /\ ev'.active = ev.active \/ tasks[e].off \/ ~tasks[e].bad
  BY KeptRows DEF Reach, world, Typed, TasksTyped, EvTyped, Idle
<1>2. \A x \in Evals : x # e => Unmoved(x, k, c)
  BY <1>1, SteadyUnmoved DEF Steady
<1>3. /\ Alerts(k, c)' = Alerts(k, c) /\ (AllPaired(k, c)' <=> AllPaired(k, c))
      /\ Current(k, c)' <=> Current(k, c)
      /\ Known(k, c)' <=> Known(k, c)
  BY <1>1, AlertsSame, PairedSame DEF Typed, Current, Known
<1>4. /\ e \in Ahead(k, c) /\ e \notin Telling(k, c) /\ e \notin Busy'
      /\ e \notin Telling(k, c)' /\ ~Sees(e, k, c)'
  BY <1>1 DEF Busy, Ahead, Telling, Decided, Sees
<1>5. Telling(k, c)' = Telling(k, c)
  BY <1>2, <1>4 DEF Unmoved, Telling
<1>6. Ahead(k, c)' = Ahead(k, c) \ {e}
  BY <1>2, <1>4 DEF Unmoved, Ahead, Busy
<1>7. /\ Alertable(k, c)' => Alertable(k, c)
      /\ Spoken(k, c)' => Spoken(k, c)
  BY <1>2, <1>3, <1>4, <1>5 DEF Alertable, Unmoved, Spoken
<1>8. Stale(k, c)' => Stale(k, c)
  <2>1. \A x \in Ahead(k, c) : x \in Evals
    BY DEF Ahead, Busy
  <2> QED BY <1>2, <1>6, <2>1 DEF Stale, Unmoved
<1>9. ev'.active = ev.active \/ ~Sees(e, k, c)
  BY <1>1 DEF Sees
<1>10. Told(k, c)' = Told(k, c)
  BY <1>3, <1>5 DEF Told
<1>11. AlertedOnce(k, c) /\ (Spoken(k, c) => Known(k, c))
  BY InvOf
<1>12. AlertedOnce(k, c)'
  BY <1>1, <1>3, <1>4, <1>6, <1>7, <1>8, <1>9, <1>10, <1>11, AlertedLeft
<1> QED BY <1>3, <1>7, <1>11, <1>12


LEMMA AlertFromDecide ==
    ASSUME AlertAssumption, Typed, Typed', AlertInv, NEW e \in Evals, Decide(e) PROVE AlertInv'
<1> SUFFICES ASSUME NEW k \in Nat, NEW c \in Nat
             PROVE  AlertedOnce(k, c)' /\ (Spoken(k, c)' => Known(k, c)')
  BY DEF AlertInv, Spoken
<1>1. /\ Kept /\ UNCHANGED <<rows, ev, outage, enabled, outages, epoch, overlaps>>
      /\ \A x \in Evals : x # e => tasks'[x] = tasks[x]
      /\ tasks[e].at = "reach" /\ ~tasks[e].off /\ tasks'[e].at = "insert"
      /\ tasks'[e].episode = tasks[e].episode /\ tasks'[e].epoch = tasks[e].epoch
      /\ \/ tasks'[e].kind = "firing" /\ tasks[e].bad /\ ev.active = 0
         \/ tasks'[e].kind = "recovery" /\ ~tasks[e].bad
  BY DecideTasks, KeptRows DEF Typed
<1>2. \A x \in Evals : x # e => Unmoved(x, k, c)
  BY <1>1, SteadyUnmoved DEF Steady
<1>3. /\ Alerts(k, c)' = Alerts(k, c) /\ (AllPaired(k, c)' <=> AllPaired(k, c))
      /\ Current(k, c)' <=> Current(k, c)
      /\ Known(k, c)' <=> Known(k, c)
  BY <1>1, AlertsSame, PairedSame DEF Typed, Current, Known
<1>4. /\ e \in Ahead(k, c) /\ e \notin Telling(k, c) /\ ~Sees(e, k, c)' /\ e \in Busy'
  BY <1>1 DEF Busy, Idle, Ahead, Telling, Decided, Sees
<1>5. /\ Alertable(k, c)' => Alertable(k, c)
  BY <1>2, <1>3, <1>4 DEF Alertable, Unmoved
<1>6. AlertedOnce(k, c) /\ (Spoken(k, c) => Known(k, c))
  BY InvOf
<1>7. \A x \in Ahead(k, c) : x \in Evals
  BY DEF Ahead, Busy
<1>8. Current(k, c)' /\ AllPaired(k, c)' => Cardinality(Alerts(k, c)') <= overlaps
  BY <1>3, <1>6 DEF AlertedOnce, AllPaired
<1>9. /\ Told(k, c) \in Nat /\ Cardinality(Ahead(k, c)) \in Nat /\ overlaps \in Nat
      /\ Cardinality(Telling(k, c)) \in Nat /\ Cardinality(Alerts(k, c)) \in Nat
      /\ IsFiniteSet(Telling(k, c)) /\ IsFiniteSet(Ahead(k, c))
      /\ Told(k, c) = Cardinality(Alerts(k, c)) + Cardinality(Telling(k, c))
  BY AlertFinite, WorldNumbers DEF Typed, Told
<1> PICK a \in Nat, t \in Nat, g \in Nat, o \in Nat :
        /\ Cardinality(Alerts(k, c)) = a /\ Cardinality(Telling(k, c)) = t
        /\ Cardinality(Ahead(k, c)) = g /\ overlaps = o
  BY <1>9
<1>10. CASE e \in Telling(k, c)'
  <2>1. Sees(e, k, c) /\ ev.active = 0
    BY <1>1, <1>10 DEF Telling, Sees
  <2>2. Alertable(k, c) /\ Spoken(k, c)
    BY <2>1 DEF Alertable, Spoken
  <2>3. Telling(k, c)' = Telling(k, c) \cup {e}
    BY <1>2, <1>10 DEF Unmoved, Telling
  <2>4. e \notin Ahead(k, c)'
    BY <1>10 DEF Ahead, Decided
  <2>5. Ahead(k, c)' = Ahead(k, c) \ {e}
    BY <1>2, <2>4 DEF Unmoved, Ahead, Busy
  <2>6. /\ Cardinality(Telling(k, c) \cup {e}) = t + 1
        /\ Cardinality(Ahead(k, c) \ {e}) = g - 1
    BY <1>4, <1>9, FS_AddElement, FS_RemoveElement
  <2>7. Cardinality(Ahead(k, c)') \in Nat
    BY AlertFiniteNext DEF Typed
  <2>8. g - 1 \in Nat /\ a + t + g <= 1 + o
    BY <1>6, <2>1, <2>2, <2>5, <2>6, <2>7 DEF AlertedOnce, Told
  <2>9. Told(k, c)' = a + (t + 1)
    BY <1>3, <2>3, <2>6 DEF Told
  <2>10. Count(k, c)' = a + (t + 1) + (g - 1) /\ Count(k, c) = a + t + g
    BY <2>5, <2>6, <2>9 DEF Count, Told
  <2>11. Told(k, c)' <= 1 + overlaps /\ Count(k, c)' <= Count(k, c)
    BY <2>8, <2>9, <2>10
  <2>12. Stale(k, c)' => Stale(k, c)
    BY <1>2, <1>7, <2>5 DEF Stale, Unmoved
  <2>13. /\ Alertable(k, c)' /\ ev'.active = 0 =>
                ev.active = 0 \/ Count(k, c)' <= 1 + overlaps
         /\ Current(k, c)' /\ ev'.active = 0 /\ Busy' = {} => Told(k, c)' <= overlaps
         /\ Ahead(k, c)' \subseteq Ahead(k, c)
         /\ Current(k, c)' => Current(k, c)
         /\ Current(k, c)' /\ Stale(k, c)' => Stale(k, c)
    BY <1>1, <1>3, <1>4, <2>5, <2>12
  <2>14. AlertedOnce(k, c)'
    BY <1>1, <1>5, <1>6, <1>8, <2>11, <2>13, AlertedKept
  <2> QED BY <1>3, <1>6, <2>2, <2>14
<1>11. CASE e \notin Telling(k, c)'
  <2>1. ~Sees(e, k, c)
    BY <1>1, <1>11 DEF Telling, Sees
  <2>2. Telling(k, c)' = Telling(k, c)
    BY <1>2, <1>4, <1>11 DEF Unmoved, Telling
  <2>3. e \in Ahead(k, c)'
    BY <1>1, <1>4, <1>11 DEF Ahead, Decided
  <2>4. Ahead(k, c)' = Ahead(k, c)
    BY <1>2, <1>4, <2>3 DEF Unmoved, Ahead, Busy
  <2>5. Told(k, c)' = Told(k, c) /\ Count(k, c)' = Count(k, c)
    BY <1>3, <2>2, <2>4 DEF Told, Count
  <2>6. Stale(k, c)' => Stale(k, c)
    BY <1>2, <1>7, <2>1, <2>4 DEF Stale, Unmoved
  <2>7. Spoken(k, c)' => Spoken(k, c)
    BY <1>2, <1>3, <1>4, <2>2 DEF Spoken, Unmoved
  <2>8. Told(k, c)' <= 1 + overlaps
    BY <1>6, <2>5 DEF AlertedOnce
  <2>9. Count(k, c)' <= Count(k, c)
    <3>1. Count(k, c) \in Nat
      BY <1>9 DEF Count
    <3> QED BY <2>5, <3>1
  <2>10. /\ Alertable(k, c)' /\ ev'.active = 0 =>
                ev.active = 0 \/ Count(k, c)' <= 1 + overlaps
         /\ Current(k, c)' /\ ev'.active = 0 /\ Busy' = {} => Told(k, c)' <= overlaps
         /\ Ahead(k, c)' \subseteq Ahead(k, c)
         /\ Current(k, c)' => Current(k, c)
         /\ Current(k, c)' /\ Stale(k, c)' => Stale(k, c)
    BY <1>1, <1>3, <1>4, <2>4, <2>6
  <2>11. AlertedOnce(k, c)'
    BY <1>1, <1>5, <1>6, <1>8, <2>8, <2>9, <2>10, AlertedKept
  <2> QED BY <1>3, <1>6, <2>7, <2>11
<1> QED BY <1>10, <1>11

LEMMA AlertFromInsert ==
    ASSUME AlertAssumption, Typed, Typed', RecoveryInv, AlertInv, NEW e \in Evals, Insert(e)
    PROVE  AlertInv'
<1> SUFFICES ASSUME NEW k \in Nat, NEW c \in Nat
             PROVE  AlertedOnce(k, c)' /\ (Spoken(k, c)' => Known(k, c)')
  BY DEF AlertInv, Spoken
<1> PICK z \in Nat : z = Len(rows)
  BY DEF Typed, RowsTyped
<1>1. /\ UNCHANGED <<ev, outage, enabled, outages, epoch, overlaps>>
      /\ \A x \in Evals : x # e => tasks'[x] = tasks[x]
      /\ tasks[e].at = "insert" /\ tasks[e] \in Inserting(z)
      /\ tasks'[e].at = "get" /\ tasks'[e].row = z + 1
  BY InsertTasks
<1>2. /\ Len(rows') = z + 1 /\ DOMAIN rows' = 1..(z + 1) /\ DOMAIN rows = 1..z
      /\ \A i \in 1..z : rows'[i] = rows[i]
      /\ rows'[z + 1].pairs = tasks[e].pairs /\ rows'[z + 1].kind = tasks[e].kind
      /\ rows'[z + 1].episode = tasks[e].episode /\ rows'[z + 1].epoch = tasks[e].epoch
  <2>1. /\ RowsTyped' /\ Len(rows') = z + 1 /\ \A i \in 1..z : rows'[i] = rows[i]
        /\ rows'[z + 1].pairs = tasks[e].pairs /\ rows'[z + 1].kind = tasks[e].kind
        /\ rows'[z + 1].episode = tasks[e].episode /\ rows'[z + 1].epoch = tasks[e].epoch
    BY InsertRows DEF Typed
  <2>2. DOMAIN rows' = 1..(z + 1) /\ DOMAIN rows = 1..z
    BY <2>1 DEF Typed, RowsTyped
  <2> QED BY <2>1, <2>2
<1>3. z + 1 \notin 1..z /\ \A i \in 1..(z + 1) : i \in 1..z \/ i = z + 1
  OBVIOUS
<1>4. \A i \in 1..Len(rows) : i \in Alerts(k, c)' <=> i \in Alerts(k, c)
  BY <1>2, <1>3 DEF Alerts
<1>5. \A x \in Evals : x # e => Unmoved(x, k, c)
  BY <1>1, <1>4, OthersUnmoved
<1>6. /\ Current(k, c)' <=> Current(k, c)
      /\ Known(k, c)' <=> Known(k, c)
  BY <1>1 DEF Current, Known
<1>7. /\ ~Sees(e, k, c) /\ ~Sees(e, k, c)' /\ e \in Busy /\ e \in Busy'
      /\ e \notin Telling(k, c)'
  BY <1>1 DEF Busy, Idle, Telling, Sees
<1>8. z + 1 \in Alerts(k, c)' <=> e \in Telling(k, c)
  BY <1>1, <1>2 DEF Alerts, Telling
<1>9. /\ Decided(e, k, c) <=> e \in Telling(k, c)
      /\ Decided(e, k, c)' <=> z + 1 \in Alerts(k, c)'
  BY <1>1, <1>7 DEF Decided
<1>10. Ahead(k, c)' = Ahead(k, c)
  <2>1. e \in Ahead(k, c)' <=> e \in Ahead(k, c)
    BY <1>7, <1>8, <1>9 DEF Ahead
  <2> QED BY <1>5, <2>1 DEF Unmoved, Ahead, Busy
<1>11. /\ Alertable(k, c)' => Alertable(k, c)
       /\ Stale(k, c)' => Stale(k, c)
  <2>1. \A x \in Ahead(k, c) : x \in Evals
    BY DEF Ahead, Busy
  <2> QED BY <1>5, <1>6, <1>7, <1>10, <2>1 DEF Alertable, Unmoved, Stale
<1>12. AlertedOnce(k, c) /\ (Spoken(k, c) => Known(k, c))
  BY InvOf
<1>13. /\ Told(k, c) \in Nat /\ Cardinality(Ahead(k, c)) \in Nat /\ overlaps \in Nat
       /\ Cardinality(Telling(k, c)) \in Nat /\ Cardinality(Alerts(k, c)) \in Nat
       /\ IsFiniteSet(Telling(k, c)) /\ IsFiniteSet(Alerts(k, c)) /\ IsFiniteSet(Ahead(k, c))
       /\ Count(k, c) \in Nat
  BY AlertFinite, WorldNumbers DEF Typed, Count
<1> PICK a \in Nat, t \in Nat, g \in Nat, o \in Nat :
        /\ Cardinality(Alerts(k, c)) = a /\ Cardinality(Telling(k, c)) = t
        /\ Cardinality(Ahead(k, c)) = g /\ overlaps = o
  BY <1>13
<1>14. ASSUME Told(k, c)' = Told(k, c),
              Current(k, c) /\ AllPaired(k, c)' => Cardinality(Alerts(k, c)') <= o
       PROVE  AlertedOnce(k, c)'
  <2>1. Told(k, c)' <= 1 + overlaps
    BY <1>12, <1>14 DEF AlertedOnce
  <2>2. Count(k, c)' <= Count(k, c)
    BY <1>10, <1>13, <1>14 DEF Count
  <2>3. /\ Alertable(k, c)' /\ ev'.active = 0 =>
               ev.active = 0 \/ Count(k, c)' <= 1 + overlaps
        /\ Current(k, c)' /\ ev'.active = 0 /\ Busy' = {} => Told(k, c)' <= overlaps
        /\ Ahead(k, c)' \subseteq Ahead(k, c)
        /\ Current(k, c)' => Current(k, c)
        /\ Current(k, c)' /\ Stale(k, c)' => Stale(k, c)
        /\ Current(k, c)' /\ AllPaired(k, c)' => Cardinality(Alerts(k, c)') <= overlaps
    BY <1>1, <1>6, <1>7, <1>10, <1>11, <1>14
  <2> QED BY <1>1, <1>11, <1>12, <2>1, <2>2, <2>3, AlertedKept
<1>15. \A i \in 1..z : rows[i].pairs \in Nat /\ rows[i].pairs <= z
  BY RowNumbers DEF RecoveryInv, Typed
<1>16. CASE e \in Telling(k, c)
  <2>1. Telling(k, c)' = Telling(k, c) \ {e}
    BY <1>5, <1>7 DEF Unmoved, Telling
  <2>2. Alerts(k, c)' = Alerts(k, c) \cup {z + 1} /\ z + 1 \notin Alerts(k, c)
    BY <1>2, <1>3, <1>4, <1>8, <1>16 DEF Alerts
  <2>3. /\ Cardinality(Telling(k, c) \ {e}) = t - 1
        /\ Cardinality(Alerts(k, c) \cup {z + 1}) = a + 1
    BY <1>13, <1>16, <2>2, FS_AddElement, FS_RemoveElement
  <2>4. (a + 1) + (t - 1) = a + t
    OBVIOUS
  <2>5. Told(k, c)' = Told(k, c)
    BY <2>1, <2>2, <2>3, <2>4 DEF Told
  <2>6. tasks[e].pairs = 0
    BY <1>1, <1>16 DEF RecoveryInv, Telling
  <2>7. \A j \in 1..(z + 1) : rows'[j].pairs # z + 1
    <3>1. rows'[z + 1].pairs # z + 1
      BY <1>2, <2>6
    <3>2. \A j \in 1..z : rows'[j].pairs \in Nat /\ rows'[j].pairs <= z
      BY <1>2, <1>15
    <3>3. \A n \in Nat : n <= z => n # z + 1
      OBVIOUS
    <3> QED BY <1>3, <3>1, <3>2, <3>3
  <2>8. ~Paired(rows', z + 1)
    BY <1>2, <2>7 DEF Paired
  <2>9. ~AllPaired(k, c)'
    BY <2>2, <2>8 DEF AllPaired
  <2>10. AlertedOnce(k, c)'
    BY <1>14, <2>5, <2>9
  <2>11. Spoken(k, c)
    BY <1>16 DEF Spoken
  <2> QED BY <1>6, <1>12, <2>10, <2>11
<1>17. CASE e \notin Telling(k, c)
  <2>1. Telling(k, c)' = Telling(k, c)
    BY <1>5, <1>7, <1>17 DEF Unmoved, Telling
  <2>2. Alerts(k, c)' = Alerts(k, c)
    BY <1>2, <1>3, <1>4, <1>8, <1>17 DEF Alerts
  <2>3. Told(k, c)' = Told(k, c)
    BY <2>1, <2>2 DEF Told
  <2>4. Spoken(k, c)' => Spoken(k, c)
    BY <1>5, <1>7, <2>1, <2>2 DEF Spoken, Unmoved
  <2>5. Current(k, c) /\ AllPaired(k, c)' => Cardinality(Alerts(k, c)') <= o
    <3>1. CASE tasks[e].kind = "firing"
      <4>1. tasks[e].pairs = 0
        BY <1>1, <3>1 DEF RecoveryInv
      <4>2. \A i \in 1..z : Paired(rows', i) => Paired(rows, i)
        BY <1>2, <1>3, <4>1 DEF Paired
      <4>3. \A i \in Alerts(k, c) : i \in 1..z
        BY DEF Alerts
      <4>4. AllPaired(k, c)' => AllPaired(k, c)
        BY <2>2, <4>2, <4>3 DEF AllPaired
      <4> QED BY <1>12, <2>2, <4>4 DEF AlertedOnce, AllPaired
    <3>2. CASE tasks[e].kind # "firing"
      <4>1. e \in Ahead(k, c)
        BY <1>7, <1>9, <1>17 DEF Ahead
      <4>2. Stale(k, c)
        BY <1>7, <4>1 DEF Stale
      <4>3. g >= 1
        <5>1. Cardinality(Ahead(k, c) \ {e}) \in Nat
          BY <1>13, SubsetCount
        <5>2. Cardinality(Ahead(k, c) \ {e}) = g - 1
          BY <1>13, <4>1, FS_RemoveElement
        <5> QED BY <5>1, <5>2
      <4>4. Current(k, c) => a + t + g <= 1 + o
        BY <1>12, <4>2 DEF AlertedOnce, Told
      <4>5. a + t + g <= 1 + o => a <= o
        BY <4>3
      <4> QED BY <2>2, <4>4, <4>5
    <3> QED BY <3>1, <3>2
  <2>6. AlertedOnce(k, c)'
    BY <1>14, <2>3, <2>5
  <2> QED BY <1>6, <1>12, <2>4, <2>6
<1> QED BY <1>16, <1>17

LEMMA AlertFromMark ==
    ASSUME AlertAssumption, Typed, Typed', AlertInv, NEW e \in Evals, Mark(e) PROVE AlertInv'
<1> SUFFICES ASSUME NEW k \in Nat, NEW c \in Nat
             PROVE  AlertedOnce(k, c)' /\ (Spoken(k, c)' => Known(k, c)')
  BY DEF AlertInv, Spoken
<1> PICK j \in 1..Len(rows) : j = tasks[e].row
  BY MarkTasks
<1>1. /\ Kept /\ UNCHANGED <<outage, enabled, outages, epoch, overlaps>>
      /\ \A x \in Evals : x # e => tasks'[x] = tasks[x]
      /\ tasks[e].at = "mark" /\ tasks'[e] = Idle /\ tasks'[e].at = "idle"
      /\ ev'.active = IF rows[j].kind = "firing" THEN j ELSE 0
  BY MarkTasks
<1>2. \A x \in Evals : x # e => Unmoved(x, k, c)
  BY <1>1, SteadyUnmoved DEF Steady
<1>3. /\ Alerts(k, c)' = Alerts(k, c) /\ (AllPaired(k, c)' <=> AllPaired(k, c))
      /\ Current(k, c)' <=> Current(k, c)
      /\ Known(k, c)' <=> Known(k, c)
  BY <1>1, AlertsSame, PairedSame DEF Typed, Current, Known
<1>4. /\ e \in Busy /\ e \notin Busy' /\ e \notin Ahead(k, c)' /\ ~Sees(e, k, c)
      /\ ~Sees(e, k, c)' /\ e \notin Telling(k, c) /\ e \notin Telling(k, c)'
  BY <1>1 DEF Busy, Idle, Ahead, Sees, Telling
<1>5. Telling(k, c)' = Telling(k, c)
  BY <1>2, <1>4 DEF Unmoved, Telling
<1>6. Told(k, c)' = Told(k, c)
  BY <1>3, <1>5 DEF Told
<1>7. /\ Alertable(k, c)' => Alertable(k, c)
      /\ Spoken(k, c)' => Spoken(k, c)
  BY <1>2, <1>3, <1>4, <1>5 DEF Alertable, Unmoved, Spoken
<1>8. AlertedOnce(k, c) /\ (Spoken(k, c) => Known(k, c))
  BY InvOf
<1>9. \A x \in Ahead(k, c) : x \in Evals
  BY DEF Ahead, Busy
<1>10. CASE Decided(e, k, c)
  <2>1. j \in Alerts(k, c)
    BY <1>4, <1>10 DEF Decided
  <2>2. ev'.active # 0
    BY <1>1, <2>1 DEF Alerts
  <2>3. Ahead(k, c)' = Ahead(k, c)
    <3>1. e \notin Ahead(k, c)
      BY <1>10 DEF Ahead
    <3> QED BY <1>2, <1>4, <3>1 DEF Unmoved, Ahead, Busy
  <2>4. Stale(k, c)' => Stale(k, c)
    BY <1>2, <1>4, <1>9, <2>3 DEF Stale, Unmoved
  <2>5. Told(k, c)' <= 1 + overlaps
    BY <1>6, <1>8 DEF AlertedOnce
  <2>6. Count(k, c)' <= Count(k, c)
    <3>1. Count(k, c) \in Nat
      BY AlertFinite DEF Count, Typed
    <3> QED BY <1>6, <2>3, <3>1 DEF Count
  <2>7. Current(k, c)' /\ AllPaired(k, c)' => Cardinality(Alerts(k, c)') <= overlaps
    BY <1>3, <1>8 DEF AlertedOnce, AllPaired
  <2>8. /\ Alertable(k, c)' /\ ev'.active = 0 =>
               ev.active = 0 \/ Count(k, c)' <= 1 + overlaps
        /\ Current(k, c)' /\ ev'.active = 0 /\ Busy' = {} => Told(k, c)' <= overlaps
        /\ Ahead(k, c)' \subseteq Ahead(k, c)
        /\ Current(k, c)' => Current(k, c)
        /\ Current(k, c)' /\ Stale(k, c)' => Stale(k, c)
    BY <1>3, <2>2, <2>3, <2>4
  <2>9. AlertedOnce(k, c)'
    BY <1>1, <1>7, <1>8, <2>5, <2>6, <2>7, <2>8, AlertedKept
  <2> QED BY <1>3, <1>7, <1>8, <2>9
<1>11. CASE ~Decided(e, k, c)
  <2>1. e \in Ahead(k, c)
    BY <1>4, <1>11 DEF Ahead
  <2>2. Ahead(k, c)' = Ahead(k, c) \ {e}
    BY <1>2, <1>4 DEF Unmoved, Ahead, Busy
  <2>3. Stale(k, c)' => Stale(k, c)
    BY <1>2, <1>9, <2>2 DEF Stale, Unmoved
  <2>4. AlertedOnce(k, c)'
    BY <1>1, <1>3, <1>4, <1>6, <1>7, <1>8, <2>1, <2>2, <2>3, AlertedLeft
  <2> QED BY <1>3, <1>7, <1>8, <2>4
<1> QED BY <1>10, <1>11

LEMMA AlertFromRestart ==
    ASSUME AlertAssumption, Typed, Typed', AlertInv, Restart PROVE AlertInv'
<1> SUFFICES ASSUME NEW k \in Nat, NEW c \in Nat
             PROVE  AlertedOnce(k, c)' /\ (Spoken(k, c)' => Known(k, c)')
  BY DEF AlertInv, Spoken
<1>1. /\ Kept /\ UNCHANGED <<rows, outage, enabled, outages, epoch, overlaps>>
      /\ \A x \in Evals : tasks'[x] = Idle /\ tasks'[x].at = "idle"
      /\ ev'.active = 0 => \A i \in 1..Len(rows) : rows[i].kind = "firing" => Paired(rows, i)
  BY RestartTasks
<1>2. /\ Alerts(k, c)' = Alerts(k, c) /\ (AllPaired(k, c)' <=> AllPaired(k, c))
      /\ Current(k, c)' <=> Current(k, c)
      /\ Known(k, c)' <=> Known(k, c)
  BY <1>1, AlertsSame, PairedSame DEF Typed, Current, Known
<1>3. Busy' = {} /\ Ahead(k, c)' = {} /\ Telling(k, c)' = {} /\ \A x \in Evals : ~Sees(x, k, c)'
  BY <1>1 DEF Busy, Ahead, Telling, Sees
<1>4. Spoken(k, c)' => Spoken(k, c)
  BY <1>2, <1>3 DEF Spoken
<1>5. AlertedOnce(k, c) /\ (Spoken(k, c) => Known(k, c))
  BY InvOf
<1>6. /\ Cardinality(Telling(k, c)) \in Nat /\ Cardinality(Alerts(k, c)) \in Nat
      /\ overlaps \in Nat
  BY AlertFinite, WorldNumbers DEF Typed
<1> PICK a \in Nat, t \in Nat, o \in Nat :
        /\ Cardinality(Alerts(k, c)) = a /\ Cardinality(Telling(k, c)) = t /\ overlaps = o
  BY <1>6
<1>7. a + t <= 1 + o
  BY <1>5 DEF AlertedOnce, Told
<1>8. Cardinality(Ahead(k, c)') = 0 /\ Cardinality(Telling(k, c)') = 0
  BY <1>3, EmptyCount
<1>9. Told(k, c)' = a
  BY <1>2, <1>8 DEF Told
<1>10. a + 0 <= 1 + o /\ a <= 1 + o
  BY <1>7
<1>11. Current(k, c)' /\ AllPaired(k, c)' => Cardinality(Alerts(k, c)') <= o
  BY <1>2, <1>5 DEF AlertedOnce, AllPaired
<1>12. ev'.active = 0 => AllPaired(k, c)'
  BY <1>1, <1>2 DEF AllPaired, Alerts
<1>13. Current(k, c)' /\ ev'.active = 0 /\ Busy' = {} => a <= o
  BY <1>2, <1>11, <1>12
<1>14. ~Stale(k, c)'
  BY <1>3 DEF Stale
<1>15. overlaps' = o
  BY <1>1
<1>16. AlertedOnce(k, c)'
  BY <1>3, <1>8, <1>9, <1>10, <1>11, <1>13, <1>14, <1>15 DEF AlertedOnce, AllPaired
<1> QED BY <1>2, <1>4, <1>5, <1>16

LEMMA AlertNext ==
    ASSUME AlertAssumption, Typed, Typed', RecoveryInv, AlertInv, [Next]_vars PROVE AlertInv'
<1>1. ASSUME \/ \E e \in Evals : Get(e)
             \/ \E s \in Sweeps : NextDue(s) \/ Mark(s)
             \/ \E d \in Evals \cup Sweeps, ok \in BOOLEAN : Send(d, ok)
             \/ OutageBegins \/ OutageEnds \/ Acknowledge \/ EditMute \/ EditClass
             \/ UNCHANGED vars
      PROVE  AlertInv'
  <2>1. Quiet
    BY <1>1, QuietSteps
  <2>2. /\ overlaps' = overlaps
        /\ \A k \in Nat : \A c \in Nat : Current(k, c)' => Current(k, c) \/ ~Known(k, c)
    BY <1>1, CurrentAnew
  <2>3. Cardinality(Busy) <= 1 + overlaps
    BY DEF RecoveryInv
  <2> QED BY <2>1, <2>2, <2>3, AlertFromQuiet
<1> QED BY Actions, <1>1, AlertFromTick, AlertFromReach, AlertFromDecide, AlertFromInsert,
           AlertFromMark, AlertFromRestart

-----------------------------------------------------------------------------
(* The theorem. *)

LEMMA AlertsInit == ASSUME AlertAssumption, Init PROVE IInv
<1>1. /\ rows = << >> /\ Len(rows) = 0 /\ DOMAIN rows = {} /\ 1..Len(rows) = {}
      /\ rows \in Seq(Row)
  BY DEF Init
<1>2. /\ DOMAIN tasks = Evals \cup Sweeps
      /\ \A d \in Evals \cup Sweeps : tasks[d] = Idle /\ tasks[d].at = "idle"
  BY DEF Init, Idle
<1>3. Typed
  <2>1. RowsTyped /\ TasksTyped
    BY <1>1, <1>2 DEF RowsTyped, TasksTyped, EvalTask, SweepTask
  <2>2. EvTyped
    BY <1>1 DEF Init, EvTyped, INITIAL
  <2>3. WorldTyped
    <3>1. muted \in BOOLEAN /\ enabled \in BOOLEAN /\ outage \in BOOLEAN
      BY DEF Init
    <3>2. MaxOutages \in Nat /\ MaxUpsets \in Nat
      BY DEF AlertAssumption
    <3>3. /\ outages \in 0..MaxOutages /\ upsets \in 0..MaxUpsets
          /\ restarts \in 0..upsets /\ overlaps \in 0..upsets /\ epoch \in 0..upsets
      BY <3>2 DEF Init
    <3> QED BY <3>1, <3>3 DEF WorldTyped
  <2> QED BY <2>1, <2>2, <2>3 DEF Typed
<1>4. DeliveryInv
  BY <1>1, <1>2 DEF DeliveryInv, Apart
<1>5. Busy = {} /\ Cardinality(Busy) = 0 /\ overlaps = 0
  BY <1>2, EmptyCount DEF Busy, Init
<1>6. RecoveryInv
  BY <1>1, <1>2, <1>5 DEF RecoveryInv, Holds
<1>7. AlertInv
  <2> SUFFICES ASSUME NEW k \in Nat, NEW c \in Nat
               PROVE  AlertedOnce(k, c) /\ ~Spoken(k, c)
    BY DEF AlertInv, Spoken
  <2>1. /\ Alerts(k, c) = {} /\ Telling(k, c) = {} /\ Ahead(k, c) = {}
        /\ \A x \in Evals : ~Sees(x, k, c)
    BY <1>1, <1>2 DEF Alerts, Telling, Ahead, Busy, Sees
  <2>2. ~Current(k, c) /\ ~Alertable(k, c)
    BY <2>1 DEF Init, Current, Alertable
  <2>3. Cardinality(Alerts(k, c)) = 0 /\ Cardinality(Telling(k, c)) = 0
    BY <2>1, EmptyCount
  <2>4. Told(k, c) <= 1 + overlaps
    BY <1>5, <2>3 DEF Told
  <2> QED BY <2>1, <2>2, <2>4 DEF AlertedOnce, Spoken
<1> QED BY <1>3, <1>4, <1>6, <1>7 DEF IInv

LEMMA AlertsFollow == ASSUME AlertAssumption, IInv PROVE AlertsInv
<1>0. /\ RowsTyped /\ TasksTyped /\ EvTyped /\ WorldTyped
      /\ DOMAIN rows = 1..Len(rows) /\ Len(rows) \in Nat /\ MaxAttempts \in Nat
      /\ restarts \in Nat /\ overlaps \in Nat
      /\ \A i \in 1..Len(rows) : rows[i] \in Row
  BY WorldNumbers DEF IInv, Typed, RowsTyped, AlertAssumption
<1>1. TypeOK
  <2>1. \A t \in DOMAIN tasks : tasks[t].at \in {"send", "mark"} => rows[tasks[t].row] \in Row
    <3>1. \A t \in Evals \cup Sweeps :
              tasks[t].at \in {"send", "mark"} => tasks[t].row \in 1..Len(rows)
      BY <1>0, TaskFacts DEF Sending
    <3> QED BY <1>0, <3>1 DEF TasksTyped
  <2>2. DOMAIN tasks = Evals \cup Sweeps
    BY <1>0 DEF TasksTyped
  <2>3. ev.age \in {None} \cup 0..Threshold /\ ev.active \in 0..Len(rows)
    BY <1>0 DEF EvTyped
  <2>4. {muted, enabled, outage} \subseteq BOOLEAN
    BY <1>0 DEF WorldTyped
  <2>5. /\ outages \in 0..MaxOutages /\ upsets \in 0..MaxUpsets
        /\ restarts \in 0..upsets /\ overlaps \in 0..upsets /\ epoch \in 0..upsets
    BY <1>0 DEF WorldTyped
  <2> QED BY <1>0, <2>1, <2>2, <2>3, <2>4, <2>5 DEF TypeOK
<1>2. ASSUME NEW i \in Firing PROVE Cardinality(Twins(i)) <= 1 + overlaps
  <2> DEFINE k == rows[i].episode
             c == rows[i].epoch
  <2>1. k \in Nat /\ c \in Nat
    BY <1>0 DEF Firing, Row
  <2>2. Twins(i) = Alerts(k, c)
    BY <1>0 DEF Twins, Firing, Alerts
  <2> HIDE DEF k, c
  <2>3. Told(k, c) <= 1 + overlaps
    BY <2>1 DEF IInv, AlertInv, AlertedOnce
  <2>4. Cardinality(Alerts(k, c)) \in Nat /\ Cardinality(Telling(k, c)) \in Nat
    BY <1>0, AlertFinite
  <2> PICK a \in Nat, t \in Nat, o \in Nat :
          /\ Cardinality(Alerts(k, c)) = a /\ Cardinality(Telling(k, c)) = t /\ overlaps = o
    BY <1>0, <2>4
  <2>5. a + t <= 1 + o
    BY <2>3 DEF Told
  <2>6. a <= 1 + o
    BY <2>5
  <2> QED BY <2>2, <2>6
<1>3. ASSUME NEW i \in 1..Len(rows) PROVE Cardinality(Pairing(i)) <= 1 + overlaps
  <2>1. Recoveries(i) <= 1 + overlaps
    BY DEF IInv, RecoveryInv, Recovered
  <2>2. Cardinality(Pairing(i)) \in Nat /\ Cardinality(Carrying(i)) \in Nat
    BY <1>0, RecoveryFinite
  <2> PICK p \in Nat, d \in Nat, o \in Nat :
          Cardinality(Pairing(i)) = p /\ Cardinality(Carrying(i)) = d /\ overlaps = o
    BY <1>0, <2>2
  <2>3. p + d <= 1 + o
    BY <2>1 DEF Recoveries
  <2>4. p <= 1 + o
    BY <2>3
  <2> QED BY <2>4
<1>4. ASSUME NEW i \in 1..Len(rows)
      PROVE  rows[i].sends <= MaxAttempts + restarts + overlaps /\ rows[i].late <= 1 + overlaps
  <2>1. /\ rows[i].late + Cardinality(Unsent(i)) <= 1 + overlaps
        /\ rows[i].sends + Cardinality(Unsent(i)) <= MaxAttempts + overlaps + restarts
    BY DEF IInv, DeliveryInv, Delivered
  <2>2. rows[i].late \in Nat /\ rows[i].sends \in Nat /\ Cardinality(Unsent(i)) \in Nat
    BY <1>0, UnsentFinite DEF Row
  <2> PICK l \in Nat, n \in Nat, u \in Nat, m \in Nat, o \in Nat, r \in Nat :
          /\ rows[i].late = l /\ rows[i].sends = n /\ Cardinality(Unsent(i)) = u
          /\ MaxAttempts = m /\ overlaps = o /\ restarts = r
    BY <1>0, <2>2
  <2>3. l <= 1 + o
    BY <2>1
  <2>4. n <= m + r + o
    BY <2>1
  <2> QED BY <2>3, <2>4
<1> QED BY <1>0, <1>1, <1>2, <1>3, <1>4 DEF AlertsInv, OneAlertPerOutage,
        OneRecoveryPerAlert, AttemptsBounded, SeenIsQuiet

\* alert-evaluator.ts, alert-manager.ts, main.ts:872-898: for any number of evaluations and
\* sweeps in flight, no outage is alerted twice and no alert has two recoveries, but for one
\* more for every tick that overlapped an earlier one; a row is sent no more often than its
\* attempts, the restarts and the overlaps allow, and once and the overlaps at most after it
\* was seen -- for any threshold, interval, number of attempts, outages, restarts and edits.
THEOREM AlertsTheorem == Spec => []AlertsInv
<1> USE AlertAssumption
<1>1. Init => IInv
  BY AlertsInit
<1>2. IInv /\ [Next]_vars => IInv'
  <2> SUFFICES ASSUME IInv, [Next]_vars PROVE IInv'
    OBVIOUS
  <2>1. Typed'
    BY TypedNext DEF IInv
  <2>2. DeliveryInv'
    BY <2>1, DeliveryNext DEF IInv
  <2>3. RecoveryInv'
    BY <2>1, RecoveryNext DEF IInv
  <2>4. AlertInv'
    BY <2>1, AlertNext DEF IInv
  <2> QED BY <2>1, <2>2, <2>3, <2>4 DEF IInv
<1>3. IInv => AlertsInv
  BY AlertsFollow
<1> QED BY <1>1, <1>2, <1>3, PTL DEF Spec

=============================================================================
