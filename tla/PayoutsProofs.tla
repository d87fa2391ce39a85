---------------------------- MODULE PayoutsProofs ----------------------------
(***************************************************************************)
(* The ledger of payouts, for any outputs, addresses and number of upsets: *)
(* a ledger that nothing overtook holds the payouts of its own address,    *)
(* and no payout is announced more often than the ledger was wiped or read *)
(* while another evaluation was announcing.                                *)
(***************************************************************************)
EXTENDS Payouts, AscendingProofs

-----------------------------------------------------------------------------
(* The inductive invariant. *)

Work(found) ==
    [pc : {"idle", "ask", "write"}, addr : Addresses \cup {NotSet}, found : SUBSET found]

Typed ==
    /\ chain \in SUBSET Outs /\ spent \in SUBSET chain /\ due \in SUBSET chain
    /\ setting \in Addresses /\ held \in Addresses
    /\ tick \in Addresses \cup {NotSet}
    /\ stamped \in Addresses \cup {NotSet} /\ job \in Addresses \cup {NotSet}
    /\ lastId \in Nat /\ wipes \in Nat
    /\ scans \in [Scans -> Work(Outs)] /\ fill \in Work(TxsOf(Outs))
    /\ mark = NotSet \/ mark \in -1..lastId
    /\ reaching \in SUBSET Evals /\ queues \in [Evals -> Seq(Nat \X Outs)]
    /\ overlaps \in Nat /\ told \in [Outs -> Nat]
    /\ overtaken \in BOOLEAN

\* The ids of the rows were given, and no output has two of them.
OneRow ==
    /\ rows \in [DOMAIN rows -> Outs] /\ DOMAIN rows \in SUBSET (1..lastId)
    /\ \A i, j \in DOMAIN rows : rows[i] = rows[j] => i = j

\* An output waits in a queue at most once.  A row that waits may be gone from the ledger;
\* while it is there, it is the row that was read.
QueueOK(q) ==
    /\ q # << >> => mark # NotSet
    /\ \A i, j \in 1..Len(q) : q[i][2] = q[j][2] => i = j
    /\ \A i \in 1..Len(q) : q[i][1] \in 1..lastId
    /\ \A i \in 1..Len(q) : q[i][1] \in DOMAIN rows => rows[q[i][1]] = q[i][2]

QueueInv == \A e \in Evals : QueueOK(queues[e])

Waits(e, o) == \E i \in 1..Len(queues[e]) : queues[e][i][2] = o
Reads(e, id) == \E i \in 1..Len(queues[e]) : queues[e][i][1] = id

\* The evaluations that are about to announce o.
Waiting(o) == {e \in Evals : Waits(e, o)}

\* No row of o is announced or about to be, so that one may still come.
Fresh(o) ==
    \A id \in DOMAIN rows :
        rows[id] = o => (\A e \in Evals : ~Reads(e, id)) /\ (mark = NotSet \/ id > mark)

Cause == wipes + overlaps

\* The messages sent and about to be sent are at most as many as the wipes and the overlaps,
\* and fewer while another one can come.
Counted(o) == told[o] + Cardinality(Waiting(o))

ToldInv ==
    \A o \in Outs : Counted(o) <= Cause /\ (Fresh(o) => Counted(o) < Cause)

\* Unless an address change overtook one of them, everything in flight is for the
\* configured address, and the ledger of a stamped or refreshed address is its own.
Steady ==
    ~overtaken =>
        /\ held = setting /\ tick \in {NotSet, setting} /\ job \in {NotSet, setting}
        /\ \A s \in Scans :
               /\ scans[s].pc # "idle" => scans[s].addr = setting
               /\ \A o \in scans[s].found :
                      scans[s].pc # "idle" /\ PaysTo[o] = setting
        /\ fill.pc # "idle" => fill.addr = setting
        /\ stamped = setting \/ job = setting => \A o \in Recorded : PaysTo[o] = setting

-----------------------------------------------------------------------------
(* Helpers. *)

LEMMA IdleWork == \A S : Idle \in Work(S)
BY DEF Idle, Work

\* An empty ledger.
LEMMA Wiped ==
    ASSUME rows' = << >>
    PROVE  /\ DOMAIN rows' = {} /\ Recorded' = {}
           /\ OneRow'
           /\ \A o : Fresh(o)'
<1>1. DOMAIN rows' = {}
  OBVIOUS
<1> QED BY <1>1 DEF OneRow, Recorded, Fresh, Range

LEMMA GreatestId ==
    ASSUME lastId \in Nat, OneRow, DOMAIN rows # {}
    PROVE  MaxId \in DOMAIN rows /\ \A id \in DOMAIN rows : id <= MaxId
<1> DEFINE T == {lastId - id : id \in DOMAIN rows}
<1>1. DOMAIN rows \in SUBSET (1..lastId)
  BY DEF OneRow
<1>2. T \in SUBSET Nat /\ T # {}
  BY <1>1
<1>3. PICK x \in T : \A y \in T : x <= y
  BY <1>2, LeastNumber
<1>4. PICK m \in DOMAIN rows : x = lastId - m
  BY <1>3
<1>5. \A id \in DOMAIN rows : m >= id
  <2> TAKE id \in DOMAIN rows
  <2>1. lastId - m <= lastId - id
    BY <1>3, <1>4
  <2> QED BY <1>1, <2>1
<1>6. MaxId \in DOMAIN rows /\ \A id \in DOMAIN rows : MaxId >= id
  BY <1>5 DEF MaxId, Max
<1> QED BY <1>1, <1>6

\* INSERT ... ON CONFLICT DO NOTHING: the rows that are there stay, the new ids are above
\* every id given before, and an output gets a row only if it has none.
LEMMA Inserted ==
    ASSUME lastId \in Nat, OneRow, NEW outs \in SUBSET Outs, Insert(outs)
    PROVE  /\ lastId' \in Nat /\ lastId <= lastId'
           /\ DOMAIN rows' = DOMAIN rows \cup (lastId + 1)..lastId'
           /\ \A id \in DOMAIN rows : rows'[id] = rows[id]
           /\ \A id \in (lastId + 1)..lastId' : rows'[id] \in outs \ Recorded
           /\ Recorded' \subseteq Recorded \cup outs
           /\ OneRow'
<1> DEFINE S == outs \ Recorded
           n == Cardinality(S)
           new == InOrder(S)
           D == DOMAIN rows \cup (lastId + 1)..(lastId + n)
<1>1. S \in SUBSET Nat /\ IsFiniteSet(S)
  <2>1. Outs \subseteq Nat /\ IsFiniteSet(Outs)
    BY PayoutsAssumption
  <2>2. S \in SUBSET Outs
    OBVIOUS
  <2>3. IsFiniteSet(S)
    BY <2>1, <2>2, FS_Subset
  <2> QED BY <2>1, <2>2, <2>3
<1>2. n \in Nat /\ new \in Bijection(1..n, S)
  BY <1>1, InOrderSorts
<1>3. (\A i \in 1..n : new[i] \in S) /\ \A i, j \in 1..n : new[i] = new[j] => i = j
  BY <1>2 DEF Bijection, Injection, IsInjective
<1>4. /\ rows' = [id \in D |-> IF id \in DOMAIN rows THEN rows[id] ELSE new[id - lastId]]
      /\ lastId' = lastId + n
  BY DEF Insert
<1>5. /\ rows \in [DOMAIN rows -> Outs] /\ DOMAIN rows \in SUBSET (1..lastId)
      /\ \A i, j \in DOMAIN rows : rows[i] = rows[j] => i = j
      /\ \A i \in DOMAIN rows : rows[i] \in Recorded
  BY DEF OneRow, Recorded, Range
<1> HIDE DEF n, new
<1>6. /\ lastId' \in Nat /\ lastId <= lastId' /\ DOMAIN rows' = D
      /\ D \in SUBSET (1..lastId')
      /\ \A id \in DOMAIN rows : rows'[id] = rows[id]
  BY <1>2, <1>4, <1>5
<1>7. \A id \in (lastId + 1)..(lastId + n) :
          id \notin DOMAIN rows /\ id - lastId \in 1..n /\ rows'[id] = new[id - lastId]
  BY <1>2, <1>4, <1>5
<1>8. \A id \in (lastId + 1)..(lastId + n) : rows'[id] \in S
  BY <1>3, <1>7
<1>9. \A i, j \in D : rows'[i] = rows'[j] => i = j
  <2> SUFFICES ASSUME NEW i \in D, NEW j \in D, rows'[i] = rows'[j] PROVE i = j
    OBVIOUS
  <2>1. CASE i \in DOMAIN rows /\ j \in DOMAIN rows
    BY <2>1, <1>5, <1>6
  <2>2. CASE i \in DOMAIN rows /\ j \notin DOMAIN rows
    <3>1. rows'[i] \in Recorded
      BY <2>2, <1>5, <1>6
    <3> QED BY <2>2, <3>1, <1>8
  <2>3. CASE i \notin DOMAIN rows /\ j \in DOMAIN rows
    <3>1. rows'[j] \in Recorded
      BY <2>3, <1>5, <1>6
    <3> QED BY <2>3, <3>1, <1>8
  <2>4. CASE i \notin DOMAIN rows /\ j \notin DOMAIN rows
    <3>1. /\ i \in (lastId + 1)..(lastId + n) /\ j \in (lastId + 1)..(lastId + n)
      BY <2>4
    <3>2. /\ i - lastId \in 1..n /\ j - lastId \in 1..n
          /\ new[i - lastId] = new[j - lastId]
      BY <3>1, <1>7
    <3>3. i - lastId = j - lastId
      BY <3>2, <1>3
    <3> QED BY <3>1, <3>3, <1>2
  <2> QED BY <2>1, <2>2, <2>3, <2>4
<1>10. \A id \in D : rows'[id] \in Outs
  BY <1>5, <1>6, <1>8
<1>11. rows' \in [DOMAIN rows' -> Outs]
  BY <1>4, <1>6, <1>10
<1>12. Recorded' \subseteq Recorded \cup outs
  <2> SUFFICES ASSUME NEW id \in D PROVE rows'[id] \in Recorded \cup outs
    BY <1>6 DEF Recorded, Range
  <2> QED BY <1>5, <1>6, <1>8
<1>13. OneRow'
  BY <1>6, <1>9, <1>11 DEF OneRow
<1> QED BY <1>4, <1>6, <1>8, <1>12, <1>13

\* The rows above the mark are announced once each.
LEMMA NewRowsQueue ==
    ASSUME lastId \in Nat, OneRow, mark \in -1..lastId
    PROVE  /\ NewRows \in Seq(Nat \X Outs)
           /\ \A i \in 1..Len(NewRows) :
                  /\ NewRows[i][1] \in DOMAIN rows /\ NewRows[i][1] > mark
                  /\ NewRows[i][2] = rows[NewRows[i][1]]
           /\ \A i, j \in 1..Len(NewRows) : NewRows[i][1] = NewRows[j][1] => i = j
<1> DEFINE S == {id \in DOMAIN rows : id > mark}
           n == Cardinality(S)
           ids == InOrder(S)
<1>1. rows \in [DOMAIN rows -> Outs] /\ DOMAIN rows \in SUBSET (1..lastId)
  BY DEF OneRow
<1>2. S \in SUBSET Nat /\ IsFiniteSet(S)
  <2>1. IsFiniteSet(1..lastId)
    BY FS_Interval
  <2>2. S \in SUBSET (1..lastId)
    BY <1>1
  <2>3. IsFiniteSet(S)
    BY <2>1, <2>2, FS_Subset
  <2> QED BY <2>2, <2>3
<1>3. n \in Nat /\ ids \in Bijection(1..n, S)
  BY <1>2, InOrderSorts
<1>4. ids \in [1..n -> S] /\ \A i, j \in 1..n : ids[i] = ids[j] => i = j
  BY <1>3 DEF Bijection, Injection, IsInjective
<1>5. NewRows = [i \in DOMAIN ids |-> <<ids[i], rows[ids[i]]>>]
  BY DEF NewRows
<1> HIDE DEF n, ids
<1>6. NewRows = [i \in 1..n |-> <<ids[i], rows[ids[i]]>>]
  BY <1>4, <1>5
<1>7. \A i \in 1..n : ids[i] \in S /\ ids[i] \in Nat /\ rows[ids[i]] \in Outs
  BY <1>1, <1>2, <1>4
<1>8. NewRows \in Seq(Nat \X Outs) /\ Len(NewRows) = n
  <2>1. \A i \in 1..n : <<ids[i], rows[ids[i]]>> \in Nat \X Outs
    BY <1>7
  <2> QED BY <1>3, <1>6, <2>1
<1>9. \A i \in 1..n : NewRows[i][1] = ids[i] /\ NewRows[i][2] = rows[ids[i]]
  BY <1>6
<1> QED BY <1>4, <1>7, <1>8, <1>9

\* The parts of the state that most steps leave alone.
LEMMA KeptRows ==
    ASSUME UNCHANGED <<rows, lastId>>
    PROVE  /\ OneRow => OneRow'
           /\ Recorded' = Recorded
BY DEF OneRow, Recorded

LEMMA KeptQueue ==
    ASSUME UNCHANGED <<rows, lastId, mark, queues>>, QueueInv PROVE QueueInv'
BY DEF QueueInv, QueueOK

LEMMA KeptTold ==
    ASSUME UNCHANGED <<rows, mark, queues, told, wipes, overlaps>>, ToldInv PROVE ToldInv'
BY DEF ToldInv, Counted, Cause, Waiting, Waits, Fresh, Reads

LEMMA SubsetCount ==
    ASSUME NEW S \in SUBSET Evals, NEW T \in SUBSET S
    PROVE  /\ Cardinality(S) \in Nat /\ Cardinality(T) \in Nat
           /\ Cardinality(T) <= Cardinality(S)
<1>1. IsFiniteSet(S)
  BY PayoutsAssumption, FS_Subset
<1>2. IsFiniteSet(T) /\ Cardinality(T) <= Cardinality(S)
  BY <1>1, FS_Subset
<1> QED BY <1>1, <1>2, FS_CardinalityType

LEMMA AddedCount ==
    ASSUME NEW S \in SUBSET Evals, NEW e \in Evals, NEW T \in SUBSET (S \cup {e})
    PROVE  Cardinality(T) <= Cardinality(S) + 1
<1>1. IsFiniteSet(S) /\ Cardinality(S) \in Nat
  BY PayoutsAssumption, FS_Subset, FS_CardinalityType
<1>2. Cardinality(S \cup {e}) <= Cardinality(S) + 1
  <2>1. Cardinality(S \cup {e}) = IF e \in S THEN Cardinality(S) ELSE Cardinality(S) + 1
    BY <1>1, FS_AddElement
  <2> QED BY <1>1, <2>1
<1>3. Cardinality(T) <= Cardinality(S \cup {e}) /\ Cardinality(T) \in Nat
      /\ Cardinality(S \cup {e}) \in Nat
  BY SubsetCount
<1> QED BY <1>1, <1>2, <1>3

LEMMA RemovedCount ==
    ASSUME NEW S \in SUBSET Evals, NEW e \in S, NEW T \in SUBSET (S \ {e})
    PROVE  Cardinality(T) + 1 <= Cardinality(S)
<1>1. IsFiniteSet(S) /\ Cardinality(S) \in Nat
  BY PayoutsAssumption, FS_Subset, FS_CardinalityType
<1>2. Cardinality(S \ {e}) = Cardinality(S) - 1
  BY <1>1, FS_RemoveElement
<1>3. Cardinality(T) <= Cardinality(S \ {e}) /\ Cardinality(T) \in Nat
  BY SubsetCount
<1> QED BY <1>1, <1>2, <1>3

\* The counts are numbers, before the step and after it.
LEMMA Numbers ==
    Typed =>
        /\ told \in [Outs -> Nat] /\ wipes \in Nat /\ overlaps \in Nat /\ Cause \in Nat
        /\ \A o : Waiting(o) \in SUBSET Evals /\ Cardinality(Waiting(o)) \in Nat
        /\ \A o \in Outs : Counted(o) \in Nat
<1> SUFFICES ASSUME Typed
             PROVE  /\ told \in [Outs -> Nat] /\ wipes \in Nat /\ overlaps \in Nat
                    /\ Cause \in Nat
                    /\ \A o : Waiting(o) \in SUBSET Evals /\ Cardinality(Waiting(o)) \in Nat
                    /\ \A o \in Outs : Counted(o) \in Nat
  OBVIOUS
<1>1. told \in [Outs -> Nat] /\ wipes \in Nat /\ overlaps \in Nat
  BY DEF Typed
<1>2. \A o : Waiting(o) \in SUBSET Evals
  BY DEF Waiting
<1>3. \A o : Cardinality(Waiting(o)) \in Nat
  BY <1>2, SubsetCount
<1> QED BY <1>1, <1>2, <1>3 DEF Cause, Counted

LEMMA NumbersNext ==
    Typed' =>
        /\ \A o : Waiting(o)' \in SUBSET Evals /\ Cardinality(Waiting(o)') \in Nat
        /\ Cause' \in Nat
<1>1. \A o : Waiting(o)' \in SUBSET Evals
  BY DEF Waiting
<1>2. \A o : Cardinality(Waiting(o)') \in Nat
  BY <1>1, SubsetCount
<1>3. ASSUME Typed' PROVE Cause' \in Nat
  <2>1. wipes' \in Nat /\ overlaps' \in Nat
    BY <1>3 DEF Typed
  <2>2. \A m, n \in Nat : m + n \in Nat
    OBVIOUS
  <2>3. wipes' + overlaps' \in Nat
    BY <2>1, <2>2
  <2> QED BY <2>3 DEF Cause
<1> QED BY <1>1, <1>2, <1>3

\* A step after which no more evaluations wait for an output than before, and it is new only
\* if it was.
LEMMA LessWait ==
    ASSUME Typed, ToldInv, UNCHANGED told, Cause' = Cause,
           \A o \in Outs : Waiting(o)' \subseteq Waiting(o) /\ (Fresh(o)' => Fresh(o))
    PROVE  ToldInv'
<1> SUFFICES ASSUME NEW o \in Outs
             PROVE  Counted(o)' <= Cause' /\ (Fresh(o)' => Counted(o)' < Cause')
  BY DEF ToldInv
<1>1. Waiting(o) \in SUBSET Evals /\ Waiting(o)' \in SUBSET Waiting(o)
  BY Numbers
<1>2. /\ Cardinality(Waiting(o)') \in Nat /\ Cardinality(Waiting(o)) \in Nat
      /\ Cardinality(Waiting(o)') <= Cardinality(Waiting(o))
  BY <1>1, SubsetCount
<1>3. told[o] \in Nat /\ Cause \in Nat
  BY Numbers
<1>4. Counted(o)' = told[o] + Cardinality(Waiting(o)')
      /\ Counted(o) = told[o] + Cardinality(Waiting(o))
  BY DEF Counted
<1>5. Counted(o) <= Cause /\ (Fresh(o) => Counted(o) < Cause)
  BY DEF ToldInv
<1> QED BY <1>2, <1>3, <1>4, <1>5

\* A new row keeps the queues, and takes nothing that is not there to be announced.
LEMMA InsertKeeps ==
    ASSUME Typed, OneRow, QueueInv, ToldInv, NEW outs \in SUBSET Outs, Insert(outs),
           UNCHANGED <<mark, queues, told, wipes, overlaps>>
    PROVE  OneRow' /\ QueueInv' /\ ToldInv'
<1>1. /\ lastId \in Nat /\ lastId' \in Nat /\ lastId <= lastId'
      /\ DOMAIN rows' = DOMAIN rows \cup (lastId + 1)..lastId'
      /\ \A id \in DOMAIN rows : rows'[id] = rows[id]
      /\ OneRow'
  BY Inserted DEF Typed
<1>2. QueueInv'
  <2> SUFFICES ASSUME NEW e \in Evals PROVE QueueOK(queues[e])'
    BY DEF QueueInv
  <2> DEFINE q == queues[e]
  <2>1. /\ q # << >> => mark # NotSet
        /\ \A i, j \in 1..Len(q) : q[i][2] = q[j][2] => i = j
        /\ \A i \in 1..Len(q) : q[i][1] \in 1..lastId
        /\ \A i \in 1..Len(q) : q[i][1] \in DOMAIN rows => rows[q[i][1]] = q[i][2]
    BY DEF QueueInv, QueueOK
  <2>2. q' = q /\ mark' = mark
    OBVIOUS
  <2> HIDE DEF q
  <2>3. \A i \in 1..Len(q) :
            /\ q[i][1] \in 1..lastId'
            /\ q[i][1] \in DOMAIN rows' => q[i][1] \in DOMAIN rows
    BY <1>1, <2>1
  <2>4. \A i \in 1..Len(q) : q[i][1] \in DOMAIN rows' => rows'[q[i][1]] = q[i][2]
    BY <1>1, <2>1, <2>3
  <2>5. QueueOK(q)'
    BY <2>1, <2>2, <2>3, <2>4 DEF QueueOK
  <2> QED BY <2>5 DEF q
<1>3. \A o : Waiting(o)' = Waiting(o)
  BY DEF Waiting, Waits
<1>4. \A o : Fresh(o)' => Fresh(o)
  BY <1>1 DEF Fresh, Reads
<1>5. ToldInv'
  BY <1>3, <1>4, LessWait DEF Cause
<1> QED BY <1>1, <1>2, <1>5

\* A wiped ledger makes every payout new again, and is counted.
LEMMA WipeKeeps ==
    ASSUME Typed, ToldInv, rows' = << >>, wipes' = wipes + 1, UNCHANGED <<told, overlaps>>,
           \A o \in Outs : Waiting(o)' \subseteq Waiting(o)
    PROVE  ToldInv'
<1> SUFFICES ASSUME NEW o \in Outs PROVE Counted(o)' < Cause' /\ Counted(o)' <= Cause'
  BY DEF ToldInv
<1>1. Waiting(o) \in SUBSET Evals /\ Waiting(o)' \in SUBSET Waiting(o)
  BY Numbers
<1>2. /\ Cardinality(Waiting(o)') \in Nat /\ Cardinality(Waiting(o)) \in Nat
      /\ Cardinality(Waiting(o)') <= Cardinality(Waiting(o))
  BY <1>1, SubsetCount
<1>3. told[o] \in Nat /\ Cause \in Nat /\ Cause' = Cause + 1
  BY Numbers DEF Cause
<1>4. Counted(o)' = told[o] + Cardinality(Waiting(o)')
      /\ Counted(o) = told[o] + Cardinality(Waiting(o))
  BY DEF Counted
<1>5. Counted(o) <= Cause
  BY DEF ToldInv
<1> QED BY <1>2, <1>3, <1>4, <1>5

-----------------------------------------------------------------------------
(* Every step keeps the types and the rows. *)

LEMMA TypedInit == Init => Typed /\ OneRow
<1> SUFFICES ASSUME Init PROVE Typed /\ OneRow
  OBVIOUS
<1> USE DEF Init
<1>1. rows \in [DOMAIN rows -> Outs] /\ DOMAIN rows = {}
  OBVIOUS
<1>2. OneRow
  BY <1>1 DEF OneRow
<1>3. chain \in SUBSET Outs /\ spent \in SUBSET chain /\ due \in SUBSET chain
  BY PayoutsAssumption
<1>4. scans \in [Scans -> Work(Outs)] /\ fill \in Work(TxsOf(Outs))
  BY DEF Idle, Work
<1>5. reaching \in SUBSET Evals /\ queues \in [Evals -> Seq(Nat \X Outs)] /\ overlaps \in Nat
  OBVIOUS
<1> QED BY <1>2, <1>3, <1>4, <1>5 DEF Typed

\* What the world, the configuration and the evaluator are made of, for the steps of the
\* observer.
LEMMA ObserverTyped ==
    ASSUME Typed, UNCHANGED <<world, config, evaluator, due, overtaken>>,
           stamped' \in Addresses \cup {NotSet}, job' \in Addresses \cup {NotSet},
           lastId' \in Nat, lastId <= lastId', wipes' \in Nat,
           scans' \in [Scans -> Work(Outs)], fill' \in Work(TxsOf(Outs))
    PROVE  Typed'
<1>1. mark' = NotSet \/ mark' \in -1..lastId'
  BY DEF Typed, evaluator
<1> QED BY <1>1 DEF Typed, world, config, evaluator

LEMMA StartedTyped ==
    ASSUME Typed, held' \in Addresses
    PROVE  /\ \A s \in Scans : Started(s) \in [Scans -> Work(Outs)]
           /\ StartedFill \in Work(TxsOf(Outs))
BY DEF Typed, Work, Started, StartedFill

LEMMA ScanTyped ==
    ASSUME Typed, OneRow, NEW s \in Scans,
           StartScan(s) \/ ReadUnspent(s) \/ WriteUnspent(s) \/ ScanFails(s)
    PROVE  Typed' /\ OneRow'
<1> USE DEF ledger
<1>1. CASE StartScan(s)
  <2>1. scans' \in [Scans -> Work(Outs)]
    BY <1>1, StartedTyped DEF StartScan, Typed, config
  <2> QED BY <1>1, <2>1, ObserverTyped, KeptRows DEF StartScan, Typed
<1>2. CASE ReadUnspent(s)
  <2>1. {o \in chain \ spent : PaysTo[o] = scans[s].addr} \in SUBSET Outs
    BY DEF Typed
  <2>2. scans' \in [Scans -> Work(Outs)]
    BY <1>2, <2>1 DEF ReadUnspent, Typed, Work
  <2> QED BY <1>2, <2>2, ObserverTyped, KeptRows DEF ReadUnspent, Typed
<1>3. CASE WriteUnspent(s)
  <2>1. scans[s].found \in SUBSET Outs
    BY DEF Typed, Work
  <2>2. lastId' \in Nat /\ lastId <= lastId' /\ OneRow'
    BY <1>3, <2>1, Inserted DEF WriteUnspent, Typed
  <2>3. scans' \in [Scans -> Work(Outs)]
    BY <1>3, IdleWork DEF WriteUnspent, Typed
  <2> QED BY <1>3, <2>2, <2>3, ObserverTyped DEF WriteUnspent, Typed
<1>4. CASE ScanFails(s)
  <2>1. scans' \in [Scans -> Work(Outs)]
    BY <1>4, IdleWork DEF ScanFails, Typed
  <2> QED BY <1>4, <2>1, ObserverTyped, KeptRows DEF ScanFails, Typed
<1> QED BY <1>1, <1>2, <1>3, <1>4

LEMMA FillTyped ==
    ASSUME Typed, OneRow,
           StartBackfill \/ ReadHistory \/ InspectTx \/ BackfillEnds \/ BackfillFails
    PROVE  Typed' /\ OneRow'
<1> USE DEF ledger
<1>1. CASE StartBackfill
  <2>1. fill' \in Work(TxsOf(Outs))
    BY <1>1, StartedTyped DEF StartBackfill, Typed, config
  <2> QED BY <1>1, <2>1, ObserverTyped, KeptRows DEF StartBackfill, Typed
<1>2. CASE ReadHistory
  <2>1. TxsOf({o \in chain : PaysTo[o] = fill.addr}) \ TxsOf(Recorded) \in SUBSET TxsOf(Outs)
    BY DEF Typed, TxsOf
  <2>2. fill' \in Work(TxsOf(Outs))
    BY <1>2, <2>1 DEF ReadHistory, Typed, Work
  <2> QED BY <1>2, <2>2, ObserverTyped, KeptRows DEF ReadHistory, Typed
<1>3. CASE InspectTx
  <2>1. PICK tx \in fill.found :
            /\ Insert({o \in chain : TxOf[o] = tx /\ PaysTo[o] = fill.addr})
            /\ fill' = [fill EXCEPT !.found = @ \ {tx}]
    BY <1>3 DEF InspectTx
  <2>2. {o \in chain : TxOf[o] = tx /\ PaysTo[o] = fill.addr} \in SUBSET Outs
    BY DEF Typed
  <2>3. lastId' \in Nat /\ lastId <= lastId' /\ OneRow'
    BY <2>1, <2>2, Inserted DEF Typed
  <2>4. fill' \in Work(TxsOf(Outs))
    BY <2>1 DEF Typed, Work
  <2> QED BY <1>3, <2>3, <2>4, ObserverTyped DEF InspectTx, Typed
<1>4. CASE BackfillEnds \/ BackfillFails
  <2>1. fill' \in Work(TxsOf(Outs))
    <3>1. CASE fill' = Idle
      BY <3>1, IdleWork
    <3>2. CASE \E tx \in fill.found : fill' = [fill EXCEPT !.found = @ \ {tx}]
      BY <3>2 DEF Typed, Work
    <3> QED BY <1>4, <3>1, <3>2 DEF BackfillEnds, BackfillFails
  <2> QED BY <1>4, <2>1, ObserverTyped, KeptRows DEF BackfillEnds, BackfillFails, Typed
<1> QED BY <1>1, <1>2, <1>3, <1>4

LEMMA AddressTyped ==
    ASSUME Typed, OneRow, StampAddress \/ Restart \/ \E a \in Addresses : SaveAddress(a)
    PROVE  Typed' /\ OneRow'
<1>1. CASE StampAddress
  BY <1>1, ObserverTyped, KeptRows DEF StampAddress, Typed
<1>2. CASE Restart
  <2> DEFINE main == IF stamped = setting THEN Idle
                     ELSE [Idle EXCEPT !.pc = "ask", !.addr = setting]
  <2>1. /\ UNCHANGED <<chain, spent, setting, lastId, stamped, told, overtaken>>
        /\ held' = setting /\ tick' = NotSet /\ due' = {} /\ reaching' = {}
        /\ queues' = [e \in Evals |-> << >>] /\ overlaps' = overlaps
        /\ rows' = (IF stamped = setting THEN rows ELSE << >>)
        /\ wipes' = (IF stamped = setting THEN wipes ELSE wipes + 1)
        /\ job' = (IF stamped = setting THEN NotSet ELSE setting)
        /\ mark' = (IF DOMAIN rows' = {} THEN NotSet ELSE MaxId)
        /\ scans' = [s \in Scans |-> IF s = "main" THEN main ELSE Idle] /\ fill' = main
    BY <1>2 DEF Restart, world
  <2>2. OneRow'
    <3>1. CASE stamped = setting
      BY <2>1, <3>1, KeptRows
    <3>2. CASE stamped # setting
      BY <2>1, <3>2, Wiped
    <3> QED BY <3>1, <3>2
  <2>3. mark' = NotSet \/ mark' \in -1..lastId'
    <3> SUFFICES ASSUME DOMAIN rows' # {} PROVE MaxId \in -1..lastId
      BY <2>1
    <3>1. rows' = rows
      BY <2>1, Wiped
    <3>2. MaxId \in DOMAIN rows
      BY <3>1, GreatestId DEF Typed
    <3> QED BY <3>2 DEF OneRow
  <2>4. main \in Work(Outs) /\ main \in Work(TxsOf(Outs))
    BY DEF Typed, Work, Idle
  <2>5. scans' \in [Scans -> Work(Outs)] /\ fill' \in Work(TxsOf(Outs))
    BY <2>1, <2>4, IdleWork
  <2>6. /\ reaching' \in SUBSET Evals /\ queues' \in [Evals -> Seq(Nat \X Outs)]
        /\ wipes' \in Nat /\ job' \in Addresses \cup {NotSet}
    BY <2>1 DEF Typed
  <2> QED BY <2>1, <2>2, <2>3, <2>5, <2>6 DEF Typed
<1>3. ASSUME NEW a \in Addresses, SaveAddress(a) PROVE Typed' /\ OneRow'
  <2>1. /\ setting' = a /\ held' = a /\ due' = {}
        /\ UNCHANGED <<chain, spent, tick, lastId, stamped, mark, reaching, queues, told,
                       overlaps>>
        /\ overtaken' \in BOOLEAN
    BY <1>3 DEF SaveAddress, world, evaluator, Typed
  <2>2. CASE RefreshLedger(a)
    <3>1. wipes' \in Nat /\ job' \in Addresses /\ OneRow'
      BY <2>2, Wiped DEF RefreshLedger, Typed
    <3>2. "main" \in Scans
      BY PayoutsAssumption
    <3>3. scans' \in [Scans -> Work(Outs)] /\ fill' \in Work(TxsOf(Outs))
      BY <2>1, <2>2, <3>2, StartedTyped DEF RefreshLedger, Typed
    <3> QED BY <2>1, <3>1, <3>3 DEF Typed
  <2>3. CASE UNCHANGED <<rows, wipes, job, scans, fill>>
    <3>1. OneRow'
      BY <2>1, <2>3, KeptRows
    <3> QED BY <2>1, <2>3, <3>1 DEF Typed
  <2> QED BY <1>3, <2>2, <2>3 DEF SaveAddress
<1> QED BY <1>1, <1>2, <1>3

LEMMA EvalTyped ==
    ASSUME Typed, OneRow, QueueInv, NEW e \in Evals, ReadRows(e) \/ Tell(e) \/ TellFails(e)
    PROVE  Typed' /\ OneRow'
<1> DEFINE q == queues[e]
<1>1. /\ UNCHANGED <<world, config, ledger, observer, due, overtaken>>
      /\ reaching' \in SUBSET Evals
  BY DEF ReadRows, Tell, TellFails, Typed
<1>2. OneRow'
  BY <1>1, KeptRows DEF ledger
<1>3. ASSUME mark' = NotSet \/ mark' \in -1..lastId, queues' \in [Evals -> Seq(Nat \X Outs)],
             told' \in [Outs -> Nat], overlaps' \in Nat
      PROVE  Typed'
  BY <1>1, <1>3 DEF Typed, world, config, ledger, observer
<1>4. CASE ReadRows(e)
  <2>1. CASE mark = NotSet
    <3>1. mark' \in -1..lastId
      <4>1. CASE DOMAIN rows = {}
        BY <1>4, <2>1, <4>1 DEF ReadRows, Typed
      <4>2. CASE DOMAIN rows # {}
        BY <1>4, <2>1, <4>2, GreatestId DEF ReadRows, Typed, OneRow
      <4> QED BY <4>1, <4>2
    <3>2. UNCHANGED <<queues, told, overlaps>>
      BY <1>4, <2>1 DEF ReadRows
    <3> QED BY <1>2, <1>3, <3>1, <3>2 DEF Typed
  <2>2. CASE mark # NotSet
    <3>1. NewRows \in Seq(Nat \X Outs)
      BY <2>2, NewRowsQueue DEF Typed
    <3>2. /\ queues' = [queues EXCEPT ![e] = NewRows] /\ UNCHANGED <<mark, told>>
          /\ overlaps' = overlaps \/ overlaps' = overlaps + 1
      BY <1>4, <2>2 DEF ReadRows
    <3>3. queues' \in [Evals -> Seq(Nat \X Outs)]
      BY <3>1, <3>2 DEF Typed
    <3> QED BY <1>2, <1>3, <3>2, <3>3 DEF Typed
  <2> QED BY <2>1, <2>2
<1>5. CASE Tell(e)
  <2>1. /\ q # << >> /\ q \in Seq(Nat \X Outs) /\ told \in [Outs -> Nat]
        /\ mark \in -1..lastId /\ lastId \in Nat
    BY <1>5 DEF Tell, Typed, QueueInv, QueueOK
  <2>2. 1 \in 1..Len(q) /\ Head(q) = q[1]
    BY <2>1
  <2>3. Head(q)[1] \in 1..lastId /\ Head(q)[2] \in Outs
    BY <2>1, <2>2 DEF QueueInv, QueueOK
  <2>4. mark' \in -1..lastId
    <3>1. Head(q)[1] \in Int /\ mark \in Int
      BY <2>1, <2>3
    <3>2. \E x \in {mark, Head(q)[1]} : \A y \in {mark, Head(q)[1]} : x >= y
      BY <3>1
    <3>3. mark' \in {mark, Head(q)[1]}
      BY <1>5, <3>2 DEF Tell, Max
    <3> QED BY <2>1, <2>3, <3>3
  <2>5. queues' \in [Evals -> Seq(Nat \X Outs)]
    <3>1. Tail(q) \in Seq(Nat \X Outs) /\ queues' = [queues EXCEPT ![e] = Tail(q)]
      BY <1>5, <2>1 DEF Tell
    <3> HIDE DEF q
    <3> QED BY <3>1 DEF Typed
  <2>6. told' \in [Outs -> Nat] /\ overlaps' = overlaps
    BY <1>5, <2>1, <2>3 DEF Tell
  <2> QED BY <1>2, <1>3, <2>4, <2>5, <2>6 DEF Typed
<1>6. CASE TellFails(e)
  <2>1. UNCHANGED <<mark, told, overlaps>> /\ queues' = [queues EXCEPT ![e] = << >>]
    BY <1>6 DEF TellFails
  <2>2. queues' \in [Evals -> Seq(Nat \X Outs)]
    BY <2>1 DEF Typed
  <2> QED BY <1>2, <1>3, <2>1, <2>2 DEF Typed
<1> QED BY <1>4, <1>5, <1>6

LEMMA TickTyped ==
    ASSUME Typed, OneRow,
           StartTick \/ EndTick
             \/ (\E tx \in TxsOf(Outs) : Confirm(tx)) \/ (\E o \in Outs : Spend(o))
    PROVE  Typed' /\ OneRow'
<1> USE DEF world, config, ledger, observer, evaluator
<1>1. CASE StartTick
  BY <1>1, KeptRows DEF StartTick, Typed
<1>2. CASE EndTick
  <2>1. reaching' \in SUBSET Evals
    <3>1. CASE Free = {}
      BY <1>2, <3>1 DEF EndTick, Typed
    <3>2. CASE Free # {}
      <4>1. (CHOOSE e \in Free : TRUE) \in Free
        BY <3>2
      <4> QED BY <1>2, <3>2, <4>1 DEF EndTick, Typed, Free
    <3> QED BY <3>1, <3>2
  <2> QED BY <1>2, <2>1, KeptRows DEF EndTick, Typed
<1>3. ASSUME NEW tx \in TxsOf(Outs), Confirm(tx) PROVE Typed' /\ OneRow'
  BY <1>3, KeptRows DEF Confirm, Typed
<1>4. ASSUME NEW o \in Outs, Spend(o) PROVE Typed' /\ OneRow'
  BY <1>4, KeptRows DEF Spend, Typed
<1> QED BY <1>1, <1>2, <1>3, <1>4

-----------------------------------------------------------------------------
(* Every step keeps the queues and the count of the messages. *)

\* No evaluation has anything to announce.
LEMMA NothingWaits ==
    (\A e \in Evals : queues[e] = << >>) =>
        /\ QueueInv
        /\ \A o : Waiting(o) = {} /\ Cardinality(Waiting(o)) = 0
        /\ \A e \in Evals : \A id : ~Reads(e, id)
<1> SUFFICES ASSUME \A e \in Evals : queues[e] = << >>
             PROVE  /\ QueueInv
                    /\ \A o : Waiting(o) = {} /\ Cardinality(Waiting(o)) = 0
                    /\ \A e \in Evals : \A id : ~Reads(e, id)
  OBVIOUS
<1>1. ASSUME NEW e \in Evals PROVE Len(queues[e]) = 0 /\ \A i \in 1..Len(queues[e]) : FALSE
  OBVIOUS
<1>2. QueueInv
  BY <1>1 DEF QueueInv, QueueOK
<1>3. \A e \in Evals : (\A o : ~Waits(e, o)) /\ (\A id : ~Reads(e, id))
  BY <1>1 DEF Waits, Reads
<1>4. \A o : Waiting(o) = {}
  BY <1>3 DEF Waiting
<1> QED BY <1>2, <1>3, <1>4, FS_EmptySet

LEMMA NothingWaitsNext ==
    ASSUME \A e \in Evals : queues'[e] = << >>
    PROVE  QueueInv' /\ (\A o : Waiting(o)' = {}) /\ \A e \in Evals : \A id : ~Reads(e, id)'
<1>1. ASSUME NEW e \in Evals PROVE Len(queues'[e]) = 0 /\ \A i \in 1..Len(queues'[e]) : FALSE
  OBVIOUS
<1>2. QueueInv'
  BY <1>1 DEF QueueInv, QueueOK
<1>3. \A e \in Evals : (\A o : ~Waits(e, o)') /\ (\A id : ~Reads(e, id)')
  BY <1>1 DEF Waits, Reads
<1>4. \A o : Waiting(o)' = {}
  BY <1>3 DEF Waiting
<1> QED BY <1>2, <1>3, <1>4

LEMMA ToldInit == Init => QueueInv /\ ToldInv
<1> SUFFICES ASSUME Init PROVE QueueInv /\ ToldInv
  OBVIOUS
<1>1. /\ \A e \in Evals : queues[e] = << >>
      /\ wipes = 1 /\ overlaps = 0 /\ told = [o \in Outs |-> 0]
  BY DEF Init
<1>2. QueueInv /\ \A o : Cardinality(Waiting(o)) = 0
  BY <1>1, NothingWaits
<1> QED BY <1>1, <1>2 DEF ToldInv, Counted, Cause

LEMMA ScanTold ==
    ASSUME Typed, OneRow, QueueInv, ToldInv, NEW s \in Scans,
           StartScan(s) \/ ReadUnspent(s) \/ WriteUnspent(s) \/ ScanFails(s)
    PROVE  QueueInv' /\ ToldInv'
<1> USE DEF ledger, evaluator
<1>1. CASE WriteUnspent(s)
  <2>1. scans[s].found \in SUBSET Outs
    BY DEF Typed, Work
  <2> QED BY <1>1, <2>1, InsertKeeps DEF WriteUnspent
<1>2. CASE StartScan(s) \/ ReadUnspent(s) \/ ScanFails(s)
  BY <1>2, KeptQueue, KeptTold DEF StartScan, ReadUnspent, ScanFails
<1> QED BY <1>1, <1>2

LEMMA FillTold ==
    ASSUME Typed, OneRow, QueueInv, ToldInv,
           StartBackfill \/ ReadHistory \/ InspectTx \/ BackfillEnds \/ BackfillFails
    PROVE  QueueInv' /\ ToldInv'
<1> USE DEF ledger, evaluator
<1>1. CASE InspectTx
  <2>1. PICK tx \in fill.found : Insert({o \in chain : TxOf[o] = tx /\ PaysTo[o] = fill.addr})
    BY <1>1 DEF InspectTx
  <2>2. {o \in chain : TxOf[o] = tx /\ PaysTo[o] = fill.addr} \in SUBSET Outs
    BY DEF Typed
  <2> QED BY <1>1, <2>1, <2>2, InsertKeeps DEF InspectTx
<1>2. CASE StartBackfill \/ ReadHistory \/ BackfillEnds \/ BackfillFails
  BY <1>2, KeptQueue, KeptTold DEF StartBackfill, ReadHistory, BackfillEnds, BackfillFails
<1> QED BY <1>1, <1>2

LEMMA AddressTold ==
    ASSUME Typed, OneRow, QueueInv, ToldInv,
           StampAddress \/ Restart \/ \E a \in Addresses : SaveAddress(a)
    PROVE  QueueInv' /\ ToldInv'
<1> USE DEF evaluator
<1>1. CASE StampAddress
  BY <1>1, KeptQueue, KeptTold DEF StampAddress
<1>2. CASE Restart
  <2>1. /\ UNCHANGED <<lastId, told, overlaps>> /\ queues' = [e \in Evals |-> << >>]
        /\ mark' = (IF DOMAIN rows' = {} THEN NotSet ELSE MaxId)
    BY <1>2 DEF Restart
  <2>2. \A e \in Evals : queues'[e] = << >>
    BY <2>1
  <2>3. /\ QueueInv' /\ \A o : Waiting(o)' = {}
        /\ \A e \in Evals : \A id : ~Reads(e, id)'
    BY <2>2, NothingWaitsNext
  <2>4. CASE stamped = setting
    <3>1. rows' = rows /\ wipes' = wipes
      BY <1>2, <2>4 DEF Restart
    <3>2. \A o : Fresh(o)' => Fresh(o)
      <4>1. CASE DOMAIN rows = {}
        BY <4>1 DEF Fresh
      <4>2. CASE DOMAIN rows # {}
        <5>1. mark' = MaxId /\ MaxId \in Nat /\ \A id \in DOMAIN rows : id \in Nat /\ id <= MaxId
          BY <2>1, <3>1, <4>2, GreatestId DEF Typed, OneRow
        <5>2. mark' # NotSet /\ \A id \in DOMAIN rows : ~(id > mark')
          BY <5>1, PayoutsAssumption
        <5>3. \A o : Fresh(o)' => \A id \in DOMAIN rows : rows[id] # o
          BY <3>1, <5>2 DEF Fresh
        <5> QED BY <5>3 DEF Fresh
      <4> QED BY <4>1, <4>2
    <3>3. Cause' = Cause /\ told' = told
      BY <2>1, <3>1 DEF Cause
    <3> QED BY <2>3, <3>2, <3>3, LessWait
  <2>5. CASE stamped # setting
    <3>1. rows' = << >> /\ wipes' = wipes + 1
      BY <1>2, <2>5 DEF Restart
    <3> QED BY <2>1, <2>3, <3>1, WipeKeeps
  <2> QED BY <2>4, <2>5
<1>3. ASSUME NEW a \in Addresses, SaveAddress(a) PROVE QueueInv' /\ ToldInv'
  <2>1. UNCHANGED <<lastId, mark, queues, told, overlaps>>
    BY <1>3 DEF SaveAddress
  <2>2. CASE RefreshLedger(a)
    <3>1. rows' = << >> /\ wipes' = wipes + 1
      BY <2>2 DEF RefreshLedger
    <3>2. \A o : Waiting(o)' = Waiting(o)
      BY <2>1 DEF Waiting, Waits
    <3>3. ToldInv'
      BY <2>1, <3>1, <3>2, WipeKeeps
    <3>4. QueueInv'
      BY <2>1, <3>1, Wiped DEF QueueInv, QueueOK
    <3> QED BY <3>3, <3>4
  <2>3. CASE UNCHANGED <<rows, wipes, job, scans, fill>>
    BY <2>1, <2>3, KeptQueue, KeptTold
  <2> QED BY <1>3, <2>2, <2>3 DEF SaveAddress
<1> QED BY <1>1, <1>2, <1>3

\* What one evaluation does leaves what the others announce alone.
LEMMA OtherQueues ==
    ASSUME Typed, NEW e \in Evals, NEW q, queues' = [queues EXCEPT ![e] = q]
    PROVE  /\ queues'[e] = q
           /\ \A o : Waiting(o)' \subseteq Waiting(o) \cup {e}
           /\ \A o : ~Waits(e, o)' => Waiting(o)' \subseteq Waiting(o) \ {e}
           /\ \A f \in Evals \ {e} : queues'[f] = queues[f]
           /\ \A f \in Evals \ {e} : \A id : Reads(f, id)' <=> Reads(f, id)
<1>1. queues'[e] = q /\ \A f \in Evals \ {e} : queues'[f] = queues[f]
  BY DEF Typed
<1>2. /\ \A f \in Evals \ {e} : \A o : Waits(f, o)' <=> Waits(f, o)
      /\ \A f \in Evals \ {e} : \A id : Reads(f, id)' <=> Reads(f, id)
  BY <1>1 DEF Waits, Reads
<1> QED BY <1>1, <1>2 DEF Waiting

\* Rows that are read were above the mark.  If no other evaluation waits, none of their outputs
\* could be announced as often as the ledger was wiped and overlapped before; if one does, this
\* is an overlap.
LEMMA ReadRowsTold ==
    ASSUME Typed, OneRow, QueueInv, ToldInv, NEW e \in Evals, ReadRows(e), Typed'
    PROVE  QueueInv' /\ ToldInv'
<1>1. UNCHANGED <<rows, lastId, told, wipes>> /\ lastId \in Nat
  BY DEF ReadRows, ledger, Typed
<1>2. CASE mark = NotSet
  <2>1. UNCHANGED <<queues, overlaps>>
    BY <1>2 DEF ReadRows
  <2>2. \A f \in Evals : queues[f] = << >>
    BY <1>2 DEF QueueInv, QueueOK
  <2>3. \A f \in Evals : queues'[f] = << >>
    BY <2>1, <2>2
  <2>4. QueueInv' /\ \A o : Waiting(o)' = {}
    BY <2>3, NothingWaitsNext
  <2>5. \A o : Fresh(o)' => Fresh(o)
    BY <1>1, <1>2, <2>1 DEF Fresh, Reads
  <2>6. Cause' = Cause
    BY <1>1, <2>1 DEF Cause
  <2> QED BY <1>1, <2>4, <2>5, <2>6, LessWait
<1>3. CASE mark # NotSet
  <2>1. queues' = [queues EXCEPT ![e] = NewRows] /\ mark' = mark /\ mark \in -1..lastId
    BY <1>3 DEF ReadRows, Typed
  <2> DEFINE q == NewRows
             n == Len(q)
  <2>2. /\ \A i \in 1..n : /\ q[i][1] \in DOMAIN rows /\ q[i][1] > mark
                           /\ q[i][2] = rows[q[i][1]]
        /\ \A i, j \in 1..n : q[i][1] = q[j][1] => i = j
    BY <1>1, <2>1, NewRowsQueue
  <2>3. queues' = [queues EXCEPT ![e] = q]
    BY <2>1
  <2> HIDE DEF q
  <2>4. /\ queues'[e] = q
        /\ \A o : Waiting(o)' \subseteq Waiting(o) \cup {e}
        /\ \A o : ~Waits(e, o)' => Waiting(o)' \subseteq Waiting(o) \ {e}
        /\ \A f \in Evals \ {e} : queues'[f] = queues[f]
        /\ \A f \in Evals \ {e} : \A id : Reads(f, id)' <=> Reads(f, id)
    BY <2>3, OtherQueues
  <2>5. QueueInv'
    <3>1. \A i, j \in 1..n : q[i][2] = q[j][2] => i = j
      <4> SUFFICES ASSUME NEW i \in 1..n, NEW j \in 1..n, q[i][2] = q[j][2] PROVE i = j
        OBVIOUS
      <4>1. q[i][1] = q[j][1]
        BY <2>2 DEF OneRow
      <4> QED BY <2>2, <4>1
    <3>2. \A i \in 1..n : q[i][1] \in 1..lastId
      BY <2>2 DEF OneRow
    <3>3. QueueOK(queues[e])'
      BY <1>1, <1>3, <2>1, <2>2, <2>4, <3>1, <3>2 DEF QueueOK
    <3>4. \A f \in Evals \ {e} : QueueOK(queues[f])'
      BY <1>1, <2>1, <2>4 DEF QueueInv, QueueOK
    <3> QED BY <3>3, <3>4 DEF QueueInv
  <2>6. \A o : Waits(e, o)' => ~Fresh(o)' /\ \E id \in DOMAIN rows : rows[id] = o /\ id > mark
    <3> SUFFICES ASSUME NEW o, Waits(e, o)'
                 PROVE  ~Fresh(o)' /\ \E id \in DOMAIN rows : rows[id] = o /\ id > mark
      OBVIOUS
    <3>1. PICK i \in 1..n : q[i][2] = o
      BY <2>4 DEF Waits
    <3>2. PICK id \in DOMAIN rows : id = q[i][1] /\ rows[id] = o /\ id > mark
      BY <2>2, <3>1
    <3>3. Reads(e, id)'
      BY <2>4, <3>2 DEF Reads
    <3>4. id \in DOMAIN rows' /\ rows'[id] = o
      BY <1>1, <3>2
    <3>5. ~Fresh(o)'
      BY <3>3, <3>4 DEF Fresh
    <3> QED BY <3>2, <3>5
  <2>7. CASE Announcing = {}
    <3>1. UNCHANGED overlaps /\ \A f \in Evals : queues[f] = << >>
      BY <1>3, <2>7 DEF ReadRows, Announcing
    <3>2. /\ \A o : Waiting(o) = {} /\ Cardinality(Waiting(o)) = 0
          /\ \A f \in Evals : \A id : ~Reads(f, id)
      BY <3>1, NothingWaits
    <3>3. \A o : Fresh(o)' => Fresh(o)
      BY <1>1, <2>1, <3>2 DEF Fresh
    <3>4. \A o : Waits(e, o)' => Fresh(o)
      <4> SUFFICES ASSUME NEW o, Waits(e, o)' PROVE Fresh(o)
        OBVIOUS
      <4>1. PICK id \in DOMAIN rows : rows[id] = o /\ id > mark
        BY <2>6
      <4>2. \A k \in DOMAIN rows : rows[k] = o => k = id
        BY <4>1 DEF OneRow
      <4> QED BY <3>2, <4>1, <4>2 DEF Fresh
    <3>5. ASSUME NEW o \in Outs
          PROVE  Counted(o)' <= Cause' /\ (Fresh(o)' => Counted(o)' < Cause')
      <4>1. told[o] \in Nat /\ Cause \in Nat /\ Cause' = Cause
        BY <1>1, <3>1, Numbers DEF Cause
      <4>2. told[o] <= Cause /\ (Fresh(o) => told[o] < Cause)
        BY <3>2, <4>1 DEF ToldInv, Counted
      <4>3. Cardinality(Waiting(o)') \in Nat /\ Cardinality(Waiting(o)') <= 1
        BY <2>4, <3>2, AddedCount, NumbersNext
      <4>4. Counted(o)' = told[o] + Cardinality(Waiting(o)')
        BY <1>1 DEF Counted
      <4>5. CASE Waits(e, o)'
        BY <2>6, <3>4, <4>1, <4>2, <4>3, <4>4, <4>5
      <4>6. CASE ~Waits(e, o)'
        <5>1. Waiting(o)' = {}
          BY <2>4, <3>2, <4>6
        <5>2. Cardinality(Waiting(o)') = 0
          BY <5>1, FS_EmptySet
        <5> QED BY <3>3, <4>1, <4>2, <4>4, <5>2
      <4> QED BY <4>5, <4>6
    <3> QED BY <2>5, <3>5 DEF ToldInv
  <2>8. CASE Announcing # {}
    <3>1. overlaps' = overlaps + 1
      BY <1>3, <2>8 DEF ReadRows
    <3>2. ASSUME NEW o \in Outs
          PROVE  Counted(o)' <= Cause' /\ (Fresh(o)' => Counted(o)' < Cause')
      <4>1. told[o] \in Nat /\ Cause \in Nat /\ Cause' = Cause + 1
        BY <1>1, <3>1, Numbers DEF Cause
      <4>2. Counted(o) <= Cause /\ Counted(o) = told[o] + Cardinality(Waiting(o))
        BY DEF ToldInv, Counted
      <4>3. /\ Cardinality(Waiting(o)') \in Nat /\ Cardinality(Waiting(o)) \in Nat
            /\ Waiting(o) \in SUBSET Evals
        BY Numbers, NumbersNext
      <4>4. Counted(o)' = told[o] + Cardinality(Waiting(o)')
        BY <1>1 DEF Counted
      <4>5. Cardinality(Waiting(o)') <= Cardinality(Waiting(o)) + 1
        BY <2>4, <4>3, AddedCount
      <4>6. ASSUME Fresh(o)' PROVE Counted(o)' < Cause'
        <5>1. Waiting(o)' \in SUBSET Waiting(o)
          BY <2>4, <2>6, <4>6
        <5>2. Cardinality(Waiting(o)') <= Cardinality(Waiting(o))
          BY <4>3, <5>1, SubsetCount
        <5> QED BY <4>1, <4>2, <4>3, <4>4, <5>2
      <4> QED BY <4>1, <4>2, <4>3, <4>4, <4>5, <4>6
    <3> QED BY <2>5, <3>2 DEF ToldInv
  <2> QED BY <2>7, <2>8
<1> QED BY <1>2, <1>3

\* The message of the head of a queue is sent, and no other row of its output can be new:
\* the row it was read from is at the mark.
LEMMA TellTold ==
    ASSUME Typed, OneRow, QueueInv, ToldInv, NEW e \in Evals, Tell(e), Typed'
    PROVE  QueueInv' /\ ToldInv'
<1> DEFINE q == queues[e]
           h == Head(q)
           t == Tail(q)
           n == Len(q)
<1>1. /\ q # << >> /\ q \in Seq(Nat \X Outs) /\ queues' = [queues EXCEPT ![e] = t]
      /\ told' = [told EXCEPT ![h[2]] = @ + 1] /\ mark' = Max({mark, h[1]})
      /\ UNCHANGED <<rows, lastId, wipes, overlaps>>
      /\ told \in [Outs -> Nat] /\ lastId \in Nat
  BY DEF Tell, Typed, ledger
<1>2. /\ n \in Nat \ {0} /\ h = q[1] /\ 1 \in 1..n /\ Len(t) = n - 1
      /\ \A i \in 1..(n - 1) : t[i] = q[i + 1] /\ i + 1 \in 1..n /\ i + 1 # 1
      /\ \A i \in 1..n : i # 1 => i - 1 \in 1..(n - 1) /\ t[i - 1] = q[i]
  <2>1. q \in Seq(Nat \X Outs) /\ q # << >>
    BY <1>1
  <2> HIDE DEF q
  <2>2. /\ Len(q) \in Nat \ {0} /\ Head(q) = q[1] /\ Len(Tail(q)) = Len(q) - 1
        /\ \A i \in 1..(Len(q) - 1) : Tail(q)[i] = q[i + 1]
    BY <2>1
  <2> HIDE DEF n
  <2>3. \A i \in 1..n : i # 1 => i - 1 \in 1..(n - 1) /\ i - 1 + 1 = i
    BY <2>2 DEF n
  <2> QED BY <2>2, <2>3 DEF n
<1>3. /\ \A i, j \in 1..n : q[i][2] = q[j][2] => i = j
      /\ \A i \in 1..n : q[i][1] \in 1..lastId
      /\ \A i \in 1..n : q[i][1] \in DOMAIN rows => rows[q[i][1]] = q[i][2]
      /\ mark # NotSet /\ mark \in -1..lastId
  BY <1>1 DEF QueueInv, QueueOK, Typed
<1>4. Waits(e, h[2]) /\ h[1] \in 1..lastId /\ h[2] \in Outs
  BY <1>1, <1>2, <1>3 DEF Waits
<1>5. /\ queues'[e] = t
      /\ \A o : ~Waits(e, o)' => Waiting(o)' \subseteq Waiting(o) \ {e}
      /\ \A o : Waiting(o)' \subseteq Waiting(o) \cup {e}
      /\ \A f \in Evals \ {e} : queues'[f] = queues[f]
      /\ \A f \in Evals \ {e} : \A id : Reads(f, id)' <=> Reads(f, id)
  BY <1>1, OtherQueues
<1>6. /\ \A o : Waits(e, o) <=> \E i \in 1..n : q[i][2] = o
      /\ \A id : Reads(e, id) <=> \E i \in 1..n : q[i][1] = id
      /\ \A o : Waits(e, o)' <=> \E i \in 1..(n - 1) : t[i][2] = o
      /\ \A id : Reads(e, id)' <=> \E i \in 1..(n - 1) : t[i][1] = id
  BY <1>2, <1>5 DEF Waits, Reads
<1> HIDE DEF q, h, t, n
<1>7. mark' \in Int /\ mark' # NotSet /\ mark <= mark' /\ h[1] <= mark'
  <2>1. h[1] \in Int /\ mark \in Int
    BY <1>1, <1>3, <1>4
  <2>2. \E x \in {mark, h[1]} : \A y \in {mark, h[1]} : x >= y
    BY <2>1
  <2>3. mark' \in {mark, h[1]} /\ \A y \in {mark, h[1]} : mark' >= y
    BY <1>1, <2>2 DEF Max
  <2> QED BY <2>1, <2>3, PayoutsAssumption
<1>8. QueueInv'
  <2>1. \A i, j \in 1..(n - 1) : t[i][2] = t[j][2] => i = j
    <3> SUFFICES ASSUME NEW i \in 1..(n - 1), NEW j \in 1..(n - 1), t[i][2] = t[j][2]
                 PROVE  i = j
      OBVIOUS
    <3>1. i + 1 \in 1..n /\ j + 1 \in 1..n /\ q[i + 1][2] = q[j + 1][2]
      BY <1>2
    <3>2. i + 1 = j + 1
      BY <1>3, <3>1
    <3> QED BY <3>2, <1>2
  <2>2. \A i \in 1..(n - 1) :
            /\ t[i][1] \in 1..lastId
            /\ t[i][1] \in DOMAIN rows => rows[t[i][1]] = t[i][2]
    <3> SUFFICES ASSUME NEW i \in 1..(n - 1)
                 PROVE  /\ t[i][1] \in 1..lastId
                        /\ t[i][1] \in DOMAIN rows => rows[t[i][1]] = t[i][2]
      OBVIOUS
    <3>1. t[i] = q[i + 1] /\ i + 1 \in 1..n
      BY <1>2
    <3> QED BY <1>3, <3>1
  <2>3. QueueOK(queues[e])'
    <3>1. queues'[e] = t /\ Len(t) = n - 1 /\ mark' # NotSet /\ UNCHANGED <<rows, lastId>>
      BY <1>1, <1>2, <1>5, <1>7
    <3> QED BY <2>1, <2>2, <3>1 DEF QueueOK
  <2>4. \A f \in Evals \ {e} : QueueOK(queues[f])'
    BY <1>1, <1>5, <1>7 DEF QueueInv, QueueOK
  <2> QED BY <2>3, <2>4 DEF QueueInv
<1>9. \A o : o = h[2] => ~Waits(e, o)'
  <2> SUFFICES ASSUME NEW o, o = h[2], NEW i \in 1..(n - 1), t[i][2] = o PROVE FALSE
    BY <1>6
  <2>1. q[i + 1][2] = q[1][2] /\ i + 1 \in 1..n /\ i + 1 # 1
    BY <1>2
  <2> QED BY <1>2, <1>3, <2>1
<1>10. \A o : Waiting(o)' \subseteq Waiting(o)
  <2>1. ASSUME NEW o, Waits(e, o)' PROVE Waits(e, o)
    <3>1. PICK i \in 1..(n - 1) : t[i][2] = o
      BY <1>6, <2>1
    <3>2. t[i] = q[i + 1] /\ i + 1 \in 1..n
      BY <1>2, <3>1
    <3> QED BY <1>6, <3>1, <3>2
  <2>2. \A o : Waits(e, o) => e \in Waiting(o)
    BY DEF Waiting
  <2> QED BY <1>5, <2>1, <2>2
<1>11. \A o : Fresh(o)' => Fresh(o)
  <2> SUFFICES ASSUME NEW o, Fresh(o)', NEW id \in DOMAIN rows, rows[id] = o
               PROVE  (\A f \in Evals : ~Reads(f, id)) /\ id > mark
    BY DEF Fresh
  <2>1. id \in 1..lastId /\ (\A f \in Evals : ~Reads(f, id)') /\ id > mark'
    <3>1. id \in DOMAIN rows' /\ rows'[id] = o
      BY <1>1
    <3> QED BY <1>7, <3>1 DEF Fresh, OneRow
  <2>2. id > mark /\ id # h[1]
    BY <1>3, <1>4, <1>7, <2>1
  <2>3. ASSUME Reads(e, id) PROVE FALSE
    <3>1. PICK i \in 1..n : q[i][1] = id
      BY <1>6, <2>3
    <3>2. i # 1 /\ i - 1 \in 1..(n - 1) /\ i = (i - 1) + 1
      BY <1>2, <2>2, <3>1
    <3>3. t[i - 1] = q[i]
      BY <1>2, <3>2
    <3> QED BY <1>6, <2>1, <3>1, <3>2, <3>3
  <2> QED BY <1>5, <2>1, <2>2, <2>3
<1>12. ASSUME NEW o \in Outs
       PROVE  Counted(o)' <= Cause' /\ (Fresh(o)' => Counted(o)' < Cause')
  <2>1. /\ Counted(o) <= Cause /\ (Fresh(o) => Counted(o) < Cause)
        /\ Counted(o) = told[o] + Cardinality(Waiting(o))
    BY DEF ToldInv, Counted
  <2>2. /\ told[o] \in Nat /\ Cause \in Nat /\ Cause' = Cause
        /\ Cardinality(Waiting(o)) \in Nat /\ Waiting(o) \in SUBSET Evals
        /\ Cardinality(Waiting(o)') \in Nat
    BY <1>1, Numbers, NumbersNext DEF Cause
  <2>3. CASE o = h[2]
    <3>1. told'[o] = told[o] + 1
      BY <1>1, <2>3
    <3>2. e \in Waiting(o) /\ Waiting(o)' \in SUBSET (Waiting(o) \ {e})
      BY <1>4, <1>5, <1>9, <2>3 DEF Waiting
    <3>3. Cardinality(Waiting(o)') + 1 <= Cardinality(Waiting(o))
      BY <2>2, <3>2, RemovedCount
    <3>4. Counted(o)' = told[o] + 1 + Cardinality(Waiting(o)')
      BY <3>1 DEF Counted
    <3> QED BY <1>11, <2>1, <2>2, <3>3, <3>4
  <2>4. CASE o # h[2]
    <3>1. told'[o] = told[o]
      BY <1>1, <2>4
    <3>2. Cardinality(Waiting(o)') <= Cardinality(Waiting(o))
      BY <1>10, <2>2, SubsetCount
    <3>3. Counted(o)' = told[o] + Cardinality(Waiting(o)')
      BY <3>1 DEF Counted
    <3> QED BY <1>11, <2>1, <2>2, <3>2, <3>3
  <2> QED BY <2>3, <2>4
<1> QED BY <1>8, <1>12 DEF ToldInv

\* The rows that are left in the queue were not announced: they are new to the next
\* evaluation, if the ledger still has them.
LEMMA TellFailsTold ==
    ASSUME Typed, OneRow, QueueInv, ToldInv, NEW e \in Evals, TellFails(e), Typed'
    PROVE  QueueInv' /\ ToldInv'
<1>1. /\ queues' = [queues EXCEPT ![e] = << >>]
      /\ UNCHANGED <<rows, lastId, mark, told, wipes, overlaps>>
  BY DEF TellFails, ledger
<1>2. /\ queues'[e] = << >>
      /\ \A o : ~Waits(e, o)' => Waiting(o)' \subseteq Waiting(o) \ {e}
      /\ \A f \in Evals \ {e} : queues'[f] = queues[f]
      /\ \A f \in Evals \ {e} : \A id : Reads(f, id)' <=> Reads(f, id)
  BY <1>1, OtherQueues
<1>3. Len(queues'[e]) = 0 /\ \A i \in 1..Len(queues'[e]) : FALSE
  BY <1>2
<1>4. \A o : ~Waits(e, o)'
  BY <1>3 DEF Waits
<1>5. QueueInv'
  <2>1. QueueOK(queues[e])'
    BY <1>2, <1>3 DEF QueueOK
  <2>2. \A f \in Evals \ {e} : QueueOK(queues[f])'
    BY <1>1, <1>2 DEF QueueInv, QueueOK
  <2> QED BY <2>1, <2>2 DEF QueueInv
<1>6. ASSUME NEW o, Fresh(o)', ~Waits(e, o) PROVE Fresh(o)
  <2> SUFFICES ASSUME NEW id \in DOMAIN rows, rows[id] = o
               PROVE  (\A f \in Evals : ~Reads(f, id)) /\ (mark = NotSet \/ id > mark)
    BY DEF Fresh
  <2>1. id \in DOMAIN rows' /\ rows'[id] = o /\ mark' = mark
    BY <1>1
  <2>2. (\A f \in Evals : ~Reads(f, id)') /\ (mark = NotSet \/ id > mark)
    BY <1>6, <2>1 DEF Fresh
  <2>3. ~Reads(e, id)
    BY <1>6 DEF QueueInv, QueueOK, Waits, Reads
  <2> QED BY <1>2, <2>2, <2>3
<1>7. ASSUME NEW o \in Outs
      PROVE  Counted(o)' <= Cause' /\ (Fresh(o)' => Counted(o)' < Cause')
  <2>1. /\ Counted(o) <= Cause /\ (Fresh(o) => Counted(o) < Cause)
        /\ Counted(o) = told[o] + Cardinality(Waiting(o))
    BY DEF ToldInv, Counted
  <2>2. /\ told[o] \in Nat /\ Cause \in Nat /\ Cause' = Cause
        /\ Cardinality(Waiting(o)) \in Nat /\ Waiting(o) \in SUBSET Evals
        /\ Cardinality(Waiting(o)') \in Nat
    BY <1>1, Numbers, NumbersNext DEF Cause
  <2>3. Counted(o)' = told[o] + Cardinality(Waiting(o)')
    BY <1>1 DEF Counted
  <2>4. Waiting(o)' \in SUBSET (Waiting(o) \ {e})
    BY <1>2, <1>4
  <2>5. CASE Waits(e, o)
    <3>1. e \in Waiting(o)
      BY <2>5 DEF Waiting
    <3>2. Cardinality(Waiting(o)') + 1 <= Cardinality(Waiting(o))
      BY <2>2, <2>4, <3>1, RemovedCount
    <3> QED BY <2>1, <2>2, <2>3, <3>2
  <2>6. CASE ~Waits(e, o)
    <3>1. Cardinality(Waiting(o)') <= Cardinality(Waiting(o))
      BY <2>2, <2>4, SubsetCount
    <3> QED BY <1>6, <2>1, <2>2, <2>3, <2>6, <3>1
  <2> QED BY <2>5, <2>6
<1> QED BY <1>5, <1>7 DEF ToldInv

LEMMA TickTold ==
    ASSUME QueueInv, ToldInv,
           StartTick \/ EndTick
             \/ (\E tx \in TxsOf(Outs) : Confirm(tx)) \/ (\E o \in Outs : Spend(o))
    PROVE  QueueInv' /\ ToldInv'
BY KeptQueue, KeptTold DEF StartTick, EndTick, Confirm, Spend, ledger, evaluator

-----------------------------------------------------------------------------
(* Every step keeps the ledger to its address, but for a change that overtakes. *)

LEMMA SteadyInit == Init => Steady
<1> SUFFICES ASSUME Init PROVE Steady
  OBVIOUS
<1>1. Recorded = {}
  BY DEF Init, Recorded, Range
<1> QED BY <1>1 DEF Init, Steady, Idle

LEMMA ScanSteady ==
    ASSUME Typed, OneRow, Steady, NEW s \in Scans,
           StartScan(s) \/ ReadUnspent(s) \/ WriteUnspent(s) \/ ScanFails(s)
    PROVE  Steady'
<1> SUFFICES ASSUME ~overtaken' PROVE Steady'
  BY DEF Steady
<1>1. /\ ~overtaken
      /\ UNCHANGED <<setting, held, tick, stamped, fill, job>>
      /\ scans \in [Scans -> Work(Outs)]
  BY DEF StartScan, ReadUnspent, WriteUnspent, ScanFails, config, ledger, Typed
<1>2. /\ held = setting /\ tick \in {NotSet, setting} /\ job \in {NotSet, setting}
      /\ \A r \in Scans : /\ scans[r].pc # "idle" => scans[r].addr = setting
                          /\ \A o \in scans[r].found : scans[r].pc # "idle" /\ PaysTo[o] = setting
      /\ fill.pc # "idle" => fill.addr = setting
      /\ stamped = setting \/ job = setting => \A o \in Recorded : PaysTo[o] = setting
  BY <1>1 DEF Steady
<1>3. ASSUME UNCHANGED Recorded \/ Recorded' \subseteq Recorded \cup scans[s].found,
             \A r \in Scans : /\ scans'[r].pc # "idle" => scans'[r].addr = setting
                              /\ \A o \in scans'[r].found :
                                     scans'[r].pc # "idle" /\ PaysTo[o] = setting
      PROVE  Steady'
  <2>1. stamped = setting \/ job = setting => \A o \in Recorded' : PaysTo[o] = setting
    BY <1>2, <1>3
  <2> QED BY <1>1, <1>2, <1>3, <2>1 DEF Steady
<1>4. CASE StartScan(s)
  <2>1. UNCHANGED Recorded
    BY <1>4, KeptRows DEF StartScan, ledger
  <2>2. held' = setting /\ scans' = [scans EXCEPT ![s] = [@ EXCEPT !.pc = "ask", !.addr = held']]
    BY <1>1, <1>2, <1>4 DEF StartScan, Started
  <2>3. \A r \in Scans : /\ scans'[r].pc # "idle" => scans'[r].addr = setting
                         /\ \A o \in scans'[r].found : scans'[r].pc # "idle" /\ PaysTo[o] = setting
    BY <1>1, <1>2, <2>2 DEF Work
  <2> QED BY <1>3, <2>1, <2>3
<1>5. CASE ReadUnspent(s)
  <2>1. UNCHANGED Recorded
    BY <1>5, KeptRows DEF ReadUnspent, ledger
  <2>2. /\ scans[s].pc = "ask"
        /\ scans' = [scans EXCEPT ![s].pc = "write",
                         ![s].found = {o \in chain \ spent : PaysTo[o] = scans[s].addr}]
    BY <1>5 DEF ReadUnspent
  <2>3. \A r \in Scans : /\ scans'[r].pc # "idle" => scans'[r].addr = setting
                         /\ \A o \in scans'[r].found : scans'[r].pc # "idle" /\ PaysTo[o] = setting
    BY <1>1, <1>2, <2>2 DEF Work
  <2> QED BY <1>3, <2>1, <2>3
<1>6. CASE WriteUnspent(s)
  <2>1. scans[s].found \in SUBSET Outs
    BY <1>1 DEF Work
  <2>2. Recorded' \subseteq Recorded \cup scans[s].found
    BY <1>6, <2>1, Inserted DEF WriteUnspent, Typed
  <2>3. \A r \in Scans : /\ scans'[r].pc # "idle" => scans'[r].addr = setting
                         /\ \A o \in scans'[r].found : scans'[r].pc # "idle" /\ PaysTo[o] = setting
    BY <1>1, <1>2, <1>6 DEF WriteUnspent, Idle
  <2> QED BY <1>3, <2>2, <2>3
<1>7. CASE ScanFails(s)
  <2>1. UNCHANGED Recorded
    BY <1>7, KeptRows DEF ScanFails, ledger
  <2>2. \A r \in Scans : /\ scans'[r].pc # "idle" => scans'[r].addr = setting
                         /\ \A o \in scans'[r].found : scans'[r].pc # "idle" /\ PaysTo[o] = setting
    BY <1>1, <1>2, <1>7 DEF ScanFails, Idle
  <2> QED BY <1>3, <2>1, <2>2
<1> QED BY <1>4, <1>5, <1>6, <1>7

LEMMA FillSteady ==
    ASSUME Typed, OneRow, Steady,
           StartBackfill \/ ReadHistory \/ InspectTx \/ BackfillEnds \/ BackfillFails
    PROVE  Steady'
<1> SUFFICES ASSUME ~overtaken' PROVE Steady'
  BY DEF Steady
<1>1. /\ ~overtaken
      /\ UNCHANGED <<setting, held, tick, stamped, scans, job>>
      /\ fill \in Work(TxsOf(Outs))
  BY DEF StartBackfill, ReadHistory, InspectTx, BackfillEnds, BackfillFails, config, ledger,
         Typed
<1>2. /\ held = setting /\ tick \in {NotSet, setting} /\ job \in {NotSet, setting}
      /\ \A r \in Scans : /\ scans[r].pc # "idle" => scans[r].addr = setting
                          /\ \A o \in scans[r].found : scans[r].pc # "idle" /\ PaysTo[o] = setting
      /\ fill.pc # "idle" => fill.addr = setting
      /\ stamped = setting \/ job = setting => \A o \in Recorded : PaysTo[o] = setting
  BY <1>1 DEF Steady
<1>3. CASE InspectTx
  <2>1. PICK tx \in fill.found :
            /\ Insert({o \in chain : TxOf[o] = tx /\ PaysTo[o] = fill.addr})
            /\ fill' = [fill EXCEPT !.found = @ \ {tx}]
    BY <1>3 DEF InspectTx
  <2> DEFINE outs == {o \in chain : TxOf[o] = tx /\ PaysTo[o] = fill.addr}
  <2>2. outs \in SUBSET Outs /\ \A o \in outs : PaysTo[o] = fill.addr
    BY DEF Typed
  <2>3. Recorded' \subseteq Recorded \cup outs
    BY <2>1, <2>2, Inserted DEF Typed
  <2>4. fill.addr = setting /\ fill'.addr = fill.addr
    BY <1>1, <1>2, <1>3, <2>1 DEF InspectTx, Work
  <2> HIDE DEF outs
  <2>5. stamped = setting \/ job = setting => \A o \in Recorded' : PaysTo[o] = setting
    BY <1>2, <2>2, <2>3, <2>4
  <2> QED BY <1>1, <1>2, <2>4, <2>5 DEF Steady
<1>4. CASE StartBackfill \/ ReadHistory \/ BackfillEnds \/ BackfillFails
  <2>1. UNCHANGED Recorded
    BY <1>4, KeptRows DEF StartBackfill, ReadHistory, BackfillEnds, BackfillFails, ledger
  <2>2. fill'.pc # "idle" => fill'.addr = setting
    <3>1. CASE StartBackfill
      BY <1>1, <1>2, <3>1 DEF StartBackfill, StartedFill, Work, config
    <3>2. CASE ReadHistory
      BY <1>1, <1>2, <3>2 DEF ReadHistory, Work
    <3>3. CASE BackfillEnds \/ BackfillFails
      <4>1. CASE fill' = Idle
        BY <4>1 DEF Idle
      <4>2. CASE /\ fill.pc = "write"
                 /\ \E tx \in fill.found : fill' = [fill EXCEPT !.found = @ \ {tx}]
        BY <1>1, <1>2, <4>2 DEF Work
      <4> QED BY <3>3, <4>1, <4>2 DEF BackfillEnds, BackfillFails
    <3> QED BY <1>4, <3>1, <3>2, <3>3
  <2> QED BY <1>1, <1>2, <2>1, <2>2 DEF Steady
<1> QED BY <1>3, <1>4

\* A boot reads the configuration anew and wipes what is not stamped with its address.  A
\* change of the address wipes too, or leaves a stamp that is not the new address.
LEMMA AddressSteady ==
    ASSUME Typed, OneRow, Steady,
           StampAddress \/ Restart \/ \E a \in Addresses : SaveAddress(a)
    PROVE  Steady'
<1> SUFFICES ASSUME ~overtaken' PROVE Steady'
  BY DEF Steady
<1>1. ~overtaken /\ overtaken \in BOOLEAN
  BY DEF StampAddress, Restart, SaveAddress, Typed
<1>2. /\ held = setting /\ tick \in {NotSet, setting} /\ job \in {NotSet, setting}
      /\ \A r \in Scans : /\ scans[r].pc # "idle" => scans[r].addr = setting
                          /\ \A o \in scans[r].found : scans[r].pc # "idle" /\ PaysTo[o] = setting
      /\ fill.pc # "idle" => fill.addr = setting
      /\ stamped = setting \/ job = setting => \A o \in Recorded : PaysTo[o] = setting
  BY <1>1 DEF Steady
<1>3. setting \in Addresses /\ NotSet \notin Addresses
  BY PayoutsAssumption DEF Typed
<1>4. CASE StampAddress
  <2>1. UNCHANGED <<setting, held, tick, scans, fill, rows, lastId>> /\ UNCHANGED Recorded
    BY <1>4 DEF StampAddress, config, Recorded
  <2>2. job # NotSet /\ stamped' = job /\ job' = NotSet
    BY <1>4 DEF StampAddress
  <2> QED BY <1>2, <1>3, <2>1, <2>2 DEF Steady
<1>5. CASE Restart
  <2> DEFINE main == IF stamped = setting THEN Idle
                     ELSE [Idle EXCEPT !.pc = "ask", !.addr = setting]
  <2>1. /\ UNCHANGED <<setting, stamped>> /\ held' = setting /\ tick' = NotSet
        /\ rows' = (IF stamped = setting THEN rows ELSE << >>)
        /\ job' = (IF stamped = setting THEN NotSet ELSE setting)
        /\ scans' = [s \in Scans |-> IF s = "main" THEN main ELSE Idle] /\ fill' = main
    BY <1>5 DEF Restart
  <2>2. main.found = {} /\ Idle.found = {} /\ Idle.pc = "idle"
        /\ (main.pc # "idle" => main.addr = setting)
    BY DEF Idle
  <2>3. \A r \in Scans : /\ scans'[r].pc # "idle" => scans'[r].addr = setting
                         /\ \A o \in scans'[r].found : scans'[r].pc # "idle" /\ PaysTo[o] = setting
    BY <2>1, <2>2
  <2>4. stamped = setting \/ job' = setting => \A o \in Recorded' : PaysTo[o] = setting
    <3>1. CASE stamped = setting
      BY <1>2, <2>1, <3>1 DEF Recorded
    <3>2. CASE stamped # setting
      BY <2>1, <3>2, Wiped
    <3> QED BY <3>1, <3>2
  <2> QED BY <2>1, <2>2, <2>3, <2>4 DEF Steady
<1>6. ASSUME NEW a \in Addresses, SaveAddress(a) PROVE Steady'
  <2> DEFINE busy == tick # NotSet \/ fill.pc # "idle" \/ \E s \in Scans : scans[s].pc # "idle"
  <2>1. setting' = a /\ held' = a /\ UNCHANGED <<tick, stamped>> /\ job = NotSet
    BY <1>6 DEF SaveAddress
  <2>2. \/ RefreshLedger(a) /\ overtaken' = (overtaken \/ busy)
        \/ /\ UNCHANGED <<rows, wipes, job, scans, fill>>
           /\ overtaken' = (overtaken \/ busy \/ a = stamped)
    BY <1>6 DEF SaveAddress
  <2>3. ~busy
    BY <2>2
  <2>4. tick = NotSet /\ fill.pc = "idle" /\ \A r \in Scans : scans[r].pc = "idle"
    BY <2>3
  <2> HIDE DEF busy
  <2>5. CASE RefreshLedger(a)
    <3>1. Recorded' = {} /\ job' = a
      BY <2>5, Wiped DEF RefreshLedger
    <3>2. "main" \in Scans /\ scans \in [Scans -> Work(Outs)] /\ fill \in Work(TxsOf(Outs))
      BY PayoutsAssumption DEF Typed
    <3>3. scans' = [scans EXCEPT !["main"] = [@ EXCEPT !.pc = "ask", !.addr = a]]
      BY <2>1, <2>4, <2>5, <3>2 DEF RefreshLedger, Started
    <3>4. fill' = [fill EXCEPT !.pc = "ask", !.addr = a]
      BY <2>1, <2>4, <2>5 DEF RefreshLedger, StartedFill
    <3>5. fill'.addr = a
      BY <3>2, <3>4 DEF Work
    <3>6. \A r \in Scans : /\ scans'[r].pc # "idle" => scans'[r].addr = a
                           /\ scans'[r].found = {}
      BY <1>2, <2>4, <3>2, <3>3 DEF Work
    <3> QED BY <2>1, <2>4, <3>1, <3>5, <3>6 DEF Steady
  <2>6. CASE UNCHANGED <<rows, wipes, job, scans, fill>> /\ a # stamped
    <3>1. \A r \in Scans : scans'[r].pc = "idle" /\ scans'[r].found = {}
      BY <1>2, <2>4, <2>6
    <3>2. job' = NotSet /\ stamped' # a /\ NotSet # a
      BY <1>3, <2>1, <2>6
    <3> QED BY <2>1, <2>4, <2>6, <3>1, <3>2 DEF Steady
  <2> QED BY <2>2, <2>3, <2>5, <2>6
<1> QED BY <1>4, <1>5, <1>6

LEMMA TickSteady ==
    ASSUME Typed, Steady,
           StartTick \/ EndTick
             \/ (\E e \in Evals : ReadRows(e) \/ Tell(e) \/ TellFails(e))
             \/ (\E tx \in TxsOf(Outs) : Confirm(tx)) \/ (\E o \in Outs : Spend(o))
    PROVE  Steady'
<1> USE DEF config, ledger, observer
<1>1. /\ UNCHANGED <<overtaken, setting, rows, lastId, stamped, scans, fill, job>>
      /\ tick' \in {tick, setting, NotSet} /\ held' \in {held, tick}
      /\ held' # held => tick # NotSet
  BY DEF StartTick, EndTick, ReadRows, Tell, TellFails, Confirm, Spend
<1>2. UNCHANGED Recorded
  BY <1>1 DEF Recorded
<1> QED BY <1>1, <1>2 DEF Steady

-----------------------------------------------------------------------------
(* The invariant, and what it is for. *)

PayoutsInv == Typed /\ OneRow /\ QueueInv /\ ToldInv /\ Steady

LEMMA PayoutsStart == Init => PayoutsInv
BY TypedInit, ToldInit, SteadyInit DEF PayoutsInv

LEMMA PayoutsSteps == PayoutsInv /\ [Next]_vars => PayoutsInv'
<1> SUFFICES ASSUME PayoutsInv, [Next]_vars PROVE PayoutsInv'
  OBVIOUS
<1> USE DEF PayoutsInv
<1>1. ASSUME NEW s \in Scans,
             StartScan(s) \/ ReadUnspent(s) \/ WriteUnspent(s) \/ ScanFails(s)
      PROVE  PayoutsInv'
  BY <1>1, ScanTyped, ScanTold, ScanSteady
<1>2. CASE StartBackfill \/ ReadHistory \/ InspectTx \/ BackfillEnds \/ BackfillFails
  BY <1>2, FillTyped, FillTold, FillSteady
<1>3. CASE StampAddress \/ Restart \/ \E a \in Addresses : SaveAddress(a)
  BY <1>3, AddressTyped, AddressTold, AddressSteady
<1>4. ASSUME NEW e \in Evals, ReadRows(e) \/ Tell(e) \/ TellFails(e) PROVE PayoutsInv'
  <2>1. Typed' /\ OneRow'
    BY <1>4, EvalTyped
  <2>2. QueueInv' /\ ToldInv'
    BY <1>4, <2>1, ReadRowsTold, TellTold, TellFailsTold
  <2>3. Steady'
    BY <1>4, TickSteady
  <2> QED BY <2>1, <2>2, <2>3
<1>5. CASE StartTick \/ EndTick
             \/ (\E tx \in TxsOf(Outs) : Confirm(tx)) \/ (\E o \in Outs : Spend(o))
  BY <1>5, TickTyped, TickTold, TickSteady
<1>6. CASE UNCHANGED vars
  <2> USE <1>6 DEF vars, world, config, ledger, observer, evaluator
  <2>1. Typed' /\ OneRow'
    BY KeptRows DEF Typed
  <2>2. QueueInv' /\ ToldInv'
    BY KeptQueue, KeptTold
  <2>3. Steady'
    BY KeptRows DEF Steady
  <2> QED BY <2>1, <2>2, <2>3
<1> QED BY <1>1, <1>2, <1>3, <1>4, <1>5, <1>6 DEF Next

LEMMA PayoutsSafe == PayoutsInv => LedgerInv /\ ToldOnce
<1> SUFFICES ASSUME PayoutsInv PROVE LedgerInv /\ ToldOnce
  OBVIOUS
<1> USE DEF PayoutsInv
<1>1. /\ rows \in [DOMAIN rows -> Outs] /\ DOMAIN rows \in SUBSET (1..lastId)
      /\ \A i, j \in DOMAIN rows : rows[i] = rows[j] => i = j
  BY DEF OneRow
<1>2. Cardinality(Recorded) = Cardinality(DOMAIN rows)
  <2>1. IsFiniteSet(DOMAIN rows)
    <3>1. IsFiniteSet(1..lastId)
      BY FS_Interval DEF Typed
    <3> QED BY <1>1, <3>1, FS_Subset
  <2>2. /\ rows \in [DOMAIN rows -> Recorded]
        /\ \A o \in Recorded : \E id \in DOMAIN rows : rows[id] = o
    BY <1>1 DEF Recorded, Range
  <2>3. rows \in Bijection(DOMAIN rows, Recorded)
    BY <1>1, <2>2 DEF Bijection, Injection, Surjection, IsInjective
  <2>4. ExistsBijection(DOMAIN rows, Recorded)
    BY <2>3 DEF ExistsBijection
  <2> QED BY <2>1, <2>4, FS_Bijection
<1>3. Recorded \subseteq Outs
  BY <1>1 DEF Recorded, Range
<1>4. TypeOK
  BY <1>1, <1>2, <1>3 DEF TypeOK, Typed, Work
<1>5. stamped = setting /\ ~overtaken => \A o \in Recorded : PaysTo[o] = setting
  BY DEF Steady
<1>6. ASSUME NEW o \in Outs PROVE told[o] <= wipes + overlaps
  <2>1. told[o] \in Nat /\ Cause \in Nat /\ Cardinality(Waiting(o)) \in Nat
    BY Numbers
  <2>2. told[o] + Cardinality(Waiting(o)) <= Cause
    BY DEF ToldInv, Counted
  <2>3. told[o] <= Cause
    BY <2>1, <2>2
  <2> QED BY <2>3 DEF Cause
<1> QED BY <1>4, <1>5, <1>6 DEF LedgerInv, ToldOnce

\* main.ts: the rows of the old address are wiped when the address changes, or else by the
\* boot that finds another address stamped: the ledger of a stamped address holds its payouts
\* only, for any number of changes, restarts and failed calls, unless a change overtook
\* something in flight or its refresh failed on the way back to the stamped address.
THEOREM LedgerTheorem == Spec => []LedgerInv
<1>1. PayoutsInv => LedgerInv
  BY PayoutsSafe
<1> QED BY <1>1, PayoutsStart, PayoutsSteps, PTL DEF Spec

\* alert-evaluator.ts: a payout is announced at most once for every time the ledger was wiped
\* or read by an evaluation while another was announcing from it, for any number of
\* evaluations in flight, whatever is scanned, backfilled, restarted or fails in between.
THEOREM ToldTheorem == Spec => []ToldOnce
<1>1. PayoutsInv => ToldOnce
  BY PayoutsSafe
<1> QED BY <1>1, PayoutsStart, PayoutsSteps, PTL DEF Spec
=============================================================================
