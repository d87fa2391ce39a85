------------------------- MODULE OrderLifecycleProofs -------------------------
(***************************************************************************)
(* What the NiceHash daemon has in its orders, for any number of orders,   *)
(* workers and upsets and for any amounts: an escrow is topped up by no    *)
(* more than its readings justify, and there are no more live orders of    *)
(* the daemon than one and one for every upset.                            *)
(***************************************************************************)
EXTENDS OrderLifecycle, AscendingProofs

-----------------------------------------------------------------------------
(* Numbers and jobs. *)

LEMMA MinOfTwo ==
    ASSUME NEW a \in Int, NEW b \in Int
    PROVE  Min({a, b}) = IF a <= b THEN a ELSE b
<1> DEFINE m == IF a <= b THEN a ELSE b
<1>1. m \in {a, b} /\ \A y \in {a, b} : m <= y
  OBVIOUS
<1>2. \A x \in {a, b} : (\A y \in {a, b} : x <= y) => x = m
  OBVIOUS
<1> HIDE DEF m
<1>3. Min({a, b}) = m
  BY <1>1, <1>2 DEF Min
<1> QED BY <1>3 DEF m

LEMMA MaxOfTwo ==
    ASSUME NEW a \in Int, NEW b \in Int
    PROVE  Max({a, b}) = IF a <= b THEN b ELSE a
<1> DEFINE m == IF a <= b THEN b ELSE a
<1>1. m \in {a, b} /\ \A y \in {a, b} : m >= y
  OBVIOUS
<1>2. \A x \in {a, b} : (\A y \in {a, b} : x >= y) => x = m
  OBVIOUS
<1> HIDE DEF m
<1>3. Max({a, b}) = m
  BY <1>1, <1>2 DEF Max
<1> QED BY <1>3 DEF m

LEMMA PrimaryOwned ==
    ASSUME NEW owned \in SUBSET Ids, owned # {} PROVE Primary(owned) \in owned
<1>1. PICK x \in owned : \A y \in owned : x <= y
  BY LeastNumber, LifecycleAssumption
<1> QED BY <1>1 DEF Primary, Min

LEMMA JobShape ==
    /\ \A j \in Jobs : /\ j.kind \in {"create", "cancel", "refill"}
                       /\ j.amount \in Nat /\ j.id \in {0} \cup Ids
                       /\ j.kind # "create" => j.id \in Ids
    /\ \A id \in {0} \cup Ids, amount \in Nat :
           [kind |-> "create", id |-> id, amount |-> amount] \in Jobs
    /\ \A id \in Ids : [kind |-> "cancel", id |-> id, amount |-> 0] \in Jobs
    /\ \A id \in Ids, amount \in Nat :
           [kind |-> "refill", id |-> id, amount |-> amount] \in Jobs
BY DEF Jobs

\* What a tick may propose that found the orders in owned.
Proposed(p, owned, low) ==
    /\ p \in Seq(Jobs)
    /\ \A i \in 1..Len(p) :
           /\ p[i].kind = "create" =>
                  /\ Len(p) = 1 /\ owned = {} /\ p[i].amount >= MinAmount
                  /\ Budget > 0 => p[i].amount <= Budget
           /\ p[i].kind # "create" => p[i].id \in owned
           /\ p[i].kind = "refill" => i = Len(p) /\ low /\ p[i].amount <= RefillAmount

LEMMA CreateProposed ==
    ASSUME NEW free \in Nat \cup {NotRead}, NEW low
    PROVE  Proposed(CreateJobs(free), {}, low)
<1> DEFINE amount == IF Budget = 0 THEN free
                     ELSE IF free = NotRead THEN Budget ELSE Min({Budget, free})
           job == [kind |-> "create", id |-> 0, amount |-> amount]
<1>1. Budget \in Nat /\ MinAmount \in Nat \ {0}
  BY LifecycleAssumption
<1>2. CreateJobs(free) = IF amount < MinAmount THEN <<>> ELSE <<job>>
  BY DEF CreateJobs
<1>3. amount \in Int /\ (Budget > 0 => amount <= Budget)
  <2>1. free \in Int
    BY DEF NotRead
  <2>2. Min({Budget, free}) = IF Budget <= free THEN Budget ELSE free
    BY <1>1, <2>1, MinOfTwo
  <2> QED BY <1>1, <2>1, <2>2
<1> HIDE DEF amount
<1>4. CASE amount < MinAmount
  BY <1>2, <1>4 DEF Proposed
<1>5. CASE amount >= MinAmount
  <2>1. amount \in Nat /\ CreateJobs(free) = <<job>>
    BY <1>1, <1>2, <1>3, <1>5
  <2>2. job \in Jobs
    BY <2>1, JobShape
  <2>3. job.kind = "create" /\ job.amount = amount
    OBVIOUS
  <2> HIDE DEF job
  <2> QED BY <1>3, <1>5, <2>1, <2>2, <2>3 DEF Proposed
<1> QED BY <1>1, <1>3, <1>4, <1>5

LEMMA CancelsProposed ==
    ASSUME NEW owned \in SUBSET Ids, owned # {}
    PROVE  /\ CancelJobs(owned) \in Seq(Jobs)
           /\ \A i \in 1..Len(CancelJobs(owned)) :
                 CancelJobs(owned)[i].kind = "cancel" /\ CancelJobs(owned)[i].id \in owned
<1> DEFINE others == owned \ {Primary(owned)}
           extras == InOrder(others)
           n == Cardinality(others)
           jobsOf == [i \in DOMAIN extras |-> [kind |-> "cancel", id |-> extras[i], amount |-> 0]]
<1>1. IsFiniteSet(others) /\ others \in SUBSET Nat
  BY FS_Subset, LifecycleAssumption
<1>2. n \in Nat /\ extras \in [1..n -> others]
  BY <1>1, InOrderSorts DEF Sorts
<1>3. CancelJobs(owned) = jobsOf
  BY DEF CancelJobs
<1> HIDE DEF extras, n
<1>4. \A i \in 1..n : jobsOf[i] = [kind |-> "cancel", id |-> extras[i], amount |-> 0]
  BY <1>2
<1>5. \A i \in 1..n : extras[i] \in owned /\ jobsOf[i] \in Jobs
  BY <1>2, <1>4, JobShape
<1>6. jobsOf \in Seq(Jobs) /\ Len(jobsOf) = n
  <2>1. DOMAIN jobsOf = 1..n
    BY <1>2
  <2>2. jobsOf \in [1..n -> Jobs]
    BY <1>5, <2>1
  <2> HIDE DEF jobsOf
  <2> QED BY <1>2, <2>2
<1> QED BY <1>3, <1>4, <1>5, <1>6

LEMMA RefillProposed ==
    ASSUME NEW o \in Ids, NEW free \in Nat \cup {NotRead}, NEW low \in BOOLEAN
    PROVE  LET r == RefillJobs(o, free, low)
           IN  \/ r = <<>>
               \/ /\ low
                  /\ \E amount \in Nat : /\ amount <= RefillAmount
                                         /\ r = <<[kind |-> "refill", id |-> o, amount |-> amount]>>
<1> DEFINE amount == Min({RefillAmount, free})
<1>1. RefillAmount \in Nat /\ free \in Int
  BY LifecycleAssumption DEF NotRead
<1>2. amount = IF RefillAmount <= free THEN RefillAmount ELSE free
  BY <1>1, MinOfTwo
<1>3. RefillAmount > 0 /\ free > 0 => amount \in Nat /\ amount <= RefillAmount
  BY <1>1, <1>2
<1> HIDE DEF amount
<1> QED BY <1>3 DEF RefillJobs, amount

\* A tick creates only when it found none of its orders, and tops up only the one it keeps.
LEMMA DecideProposed ==
    ASSUME NEW owned \in SUBSET Ids, NEW free \in Nat \cup {NotRead}, NEW low \in BOOLEAN
    PROVE  /\ Proposed(decide(owned, free, low), owned, low)
           /\ \A i \in 1..Len(decide(owned, free, low)) :
                 decide(owned, free, low)[i].kind = "refill"
                     => decide(owned, free, low)[i].id = Primary(owned)
<1>1. CASE owned = {}
  <2>1. decide(owned, free, low) = CreateJobs(free)
    BY <1>1 DEF decide
  <2>2. Proposed(CreateJobs(free), owned, low)
    BY <1>1, CreateProposed
  <2> QED BY <1>1, <2>1, <2>2 DEF Proposed
<1>2. CASE owned # {}
  <2> DEFINE c == CancelJobs(owned)
             r == RefillJobs(Primary(owned), free, low)
  <2>1. decide(owned, free, low) = c \o r
    BY <1>2 DEF decide
  <2>2. Primary(owned) \in owned
    BY <1>2, PrimaryOwned
  <2>3. /\ c \in Seq(Jobs)
        /\ \A i \in 1..Len(c) : c[i].kind = "cancel" /\ c[i].id \in owned
    BY <1>2, CancelsProposed
  <2>4. \/ r = <<>>
        \/ /\ low
           /\ \E amount \in Nat : /\ amount <= RefillAmount
                                  /\ r = <<[kind |-> "refill", id |-> Primary(owned),
                                            amount |-> amount]>>
    BY <2>2, RefillProposed
  <2> HIDE DEF c, r
  <2>5. CASE r = <<>>
    <3>1. c \o r = c
      BY <2>3, <2>5
    <3> QED BY <1>2, <2>1, <2>3, <3>1 DEF Proposed
  <2>6. CASE r # <<>>
    <3>1. low
      BY <2>4, <2>6
    <3>2. PICK amount \in Nat : /\ amount <= RefillAmount
                                /\ r = <<[kind |-> "refill", id |-> Primary(owned),
                                          amount |-> amount]>>
      BY <2>4, <2>6
    <3> DEFINE job == [kind |-> "refill", id |-> Primary(owned), amount |-> amount]
    <3>3. job \in Jobs
      BY <2>2, JobShape
    <3>4. job.kind = "refill" /\ job.id = Primary(owned) /\ job.amount = amount /\ r = <<job>>
      BY <3>2
    <3> HIDE DEF job
    <3>5. /\ c \o r \in Seq(Jobs) /\ Len(c \o r) = Len(c) + 1
          /\ \A i \in 1..Len(c) : (c \o r)[i] = c[i]
          /\ (c \o r)[Len(c) + 1] = job
      BY <2>3, <3>3, <3>4
    <3>6. \A i \in 1..(Len(c) + 1) : i \in 1..Len(c) \/ i = Len(c) + 1
      BY <2>3
    <3>7. ASSUME NEW i \in 1..Len(c \o r)
          PROVE  \/ (c \o r)[i].kind = "cancel" /\ (c \o r)[i].id \in owned
                 \/ i = Len(c \o r) /\ (c \o r)[i] = job
      BY <2>3, <3>5, <3>6, <3>7
    <3>8. \A i \in 1..Len(c \o r) :
              /\ (c \o r)[i].kind # "create" /\ (c \o r)[i].id \in owned
              /\ (c \o r)[i].kind = "refill" =>
                     /\ i = Len(c \o r) /\ (c \o r)[i].amount <= RefillAmount
                     /\ (c \o r)[i].id = Primary(owned)
      BY <2>2, <3>2, <3>4, <3>7
    <3> HIDE DEF Jobs
    <3> QED BY <2>1, <3>1, <3>5, <3>8 DEF Proposed
  <2> QED BY <2>5, <2>6
<1> QED BY <1>1, <1>2

-----------------------------------------------------------------------------
(* The invariant. *)

Cap == Max({LowEscrow + RefillAmount, Budget}) + misreads * RefillAmount

\* What holds of a proposal until it is executed.
Fits(j) ==
    /\ j.kind = "create" =>
           /\ pool \in Workers /\ j.amount >= MinAmount
           /\ Budget > 0 => j.amount <= Budget
    /\ j.kind # "create" => j.id \in Created
    /\ j.kind = "refill" /\ j.id \in placed /\ Budget > 0 =>
           orders[j.id].escrow + j.amount <= Cap

\* A create is the only proposal of its tick, and a top-up the last.
JobsInv ==
    /\ jobs \in Seq(Jobs)
    /\ \A i \in 1..Len(jobs) :
           /\ Fits(jobs[i])
           /\ jobs[i].kind = "create" => Len(jobs) = 1
           /\ jobs[i].kind = "refill" => i = Len(jobs)
    /\ pc \in {"reload", "observe"} => jobs = <<>>
    /\ pc = "persist" => Len(jobs) = 1 /\ Job.kind = "create" /\ Job.id \in placed

\* An order without escrow is over.
AliveInv == \A o \in Live : orders[o].escrow > 0

LifeInv == TypeOK /\ JobsInv /\ AliveInv /\ (Budget > 0 => EscrowBounded)

Numbers ==
    /\ {Budget, RefillAmount, LowEscrow, StartBalance, MaxUpsets, MinAmount} \subseteq Nat
    /\ MinAmount > 0 /\ Ids \subseteq Nat /\ NoWorker \notin Workers

LEMMA NumbersFacts == Numbers
BY LifecycleAssumption DEF Numbers

LEMMA CapFacts ==
    ASSUME NEW m \in Nat
    PROVE  /\ m * RefillAmount \in Nat /\ (m + 1) * RefillAmount = m * RefillAmount + RefillAmount
           /\ Max({LowEscrow + RefillAmount, Budget}) \in Nat
           /\ LowEscrow + RefillAmount <= Max({LowEscrow + RefillAmount, Budget})
           /\ Budget <= Max({LowEscrow + RefillAmount, Budget})
<1>1. Budget \in Nat /\ RefillAmount \in Nat /\ LowEscrow \in Nat
  BY LifecycleAssumption
<1>2. Max({LowEscrow + RefillAmount, Budget}) =
          IF LowEscrow + RefillAmount <= Budget THEN Budget ELSE LowEscrow + RefillAmount
  BY <1>1, MaxOfTwo
<1>3. m * RefillAmount \in Nat /\ (m + 1) * RefillAmount = m * RefillAmount + RefillAmount
  BY <1>1
<1> QED BY <1>1, <1>2, <1>3

LEMMA CapKept ==
    ASSUME misreads \in Nat, misreads' = misreads PROVE Cap' = Cap /\ Cap \in Nat
<1>1. Cap' = Cap
  BY DEF Cap
<1>2. Cap \in Nat
  <2> DEFINE most == Max({LowEscrow + RefillAmount, Budget})
             extra == misreads * RefillAmount
  <2>1. most \in Nat /\ extra \in Nat
    BY CapFacts
  <2>2. Cap = most + extra
    BY DEF Cap
  <2> HIDE DEF most, extra
  <2> QED BY <2>1, <2>2
<1> QED BY <1>1, <1>2

OrderType == [live : BOOLEAN, worker : Workers, escrow : Nat]

\* The type invariant in the terms the proofs use.
LEMMA TypeFacts ==
    ASSUME TypeOK
    PROVE  /\ \A o \in Created : /\ orders[o] \in OrderType /\ orders[o].live \in BOOLEAN
                                 /\ orders[o].worker \in Workers /\ orders[o].escrow \in Nat
           /\ misreads \in Nat /\ upsets \in Nat /\ balance \in Nat
           /\ Created \subseteq Ids
BY LifecycleAssumption DEF TypeOK, OrderType

LEMMA TailFacts ==
    ASSUME NEW s \in Seq(Jobs), s # <<>>
    PROVE  /\ Head(s) = s[1] /\ s[1] \in Jobs /\ Len(s) \in Nat /\ Len(s) > 0
           /\ Tail(s) \in Seq(Jobs) /\ Len(Tail(s)) = Len(s) - 1
           /\ \A i \in 1..(Len(s) - 1) : Tail(s)[i] = s[i + 1] /\ i + 1 \in 1..Len(s)
           /\ Len(s) = 1 => Tail(s) = <<>>
<1> HIDE DEF Jobs
<1>1. /\ Head(s) = s[1] /\ s[1] \in Jobs /\ Len(s) \in Nat /\ Len(s) > 0
      /\ Tail(s) \in Seq(Jobs) /\ Len(Tail(s)) = Len(s) - 1
  OBVIOUS
<1>2. \A i \in 1..(Len(s) - 1) : Tail(s)[i] = s[i + 1] /\ i + 1 \in 1..Len(s)
  BY <1>1
<1>3. Len(s) = 1 => Tail(s) = <<>>
  <2>1. \A t \in Seq(Jobs) : Len(t) = 0 => t = <<>>
    OBVIOUS
  <2>2. Len(s) = 1 => Len(Tail(s)) = 0
    BY <1>1
  <2> QED BY <1>1, <2>1, <2>2, Zenon
<1> QED BY <1>1, <1>2, <1>3

LEMMA LifeInit == Init => LifeInv
<1> SUFFICES ASSUME Init PROVE LifeInv
  OBVIOUS
<1>1. TypeOK
  BY LifecycleAssumption DEF Init, TypeOK, Created
<1>2. JobsInv
  BY DEF Init, JobsInv
<1>3. AliveInv /\ EscrowBounded
  BY DEF Init, AliveInv, EscrowBounded, Live, Created
<1> QED BY <1>1, <1>2, <1>3 DEF LifeInv

-----------------------------------------------------------------------------
(* What the steps of the exchange change. *)

LEMMA CreateFacts ==
    ASSUME TypeOK, NEW o \in Ids \ Created, NEW amount \in Nat, amount > 0, NEW on \in Workers,
           NEW lag \in BOOLEAN, CreateOrder(o, amount, on, lag)
    PROVE  /\ Created' = Created \cup {o}
           /\ orders'[o] = [live |-> TRUE, worker |-> on, escrow |-> amount]
           /\ \A p \in Created : orders'[p] = orders[p]
           /\ \A p \in Created' : orders'[p] \in OrderType
           /\ Live' = Live \cup {o}
           /\ balance' \in Nat /\ Created' \subseteq Ids
           /\ fresh' \subseteq Created' /\ fresh \subseteq Created'
<1>1. /\ Created' = Created \cup {o}
      /\ orders'[o] = [live |-> TRUE, worker |-> on, escrow |-> amount]
      /\ \A p \in Created : orders'[p] = orders[p]
  BY DEF CreateOrder, Created
<1>2. [live |-> TRUE, worker |-> on, escrow |-> amount] \in OrderType
  BY DEF OrderType
<1>3. \A p \in Created' : orders'[p] \in OrderType
  BY <1>1, <1>2, TypeFacts
<1>4. Live' = Live \cup {o}
  <2>1. \A p \in Created : orders'[p].live <=> orders[p].live
    BY <1>1
  <2>2. orders'[o].live
    BY <1>1
  <2> QED BY <1>1, <2>1, <2>2 DEF Live
<1>5. balance' \in Nat
  BY DEF CreateOrder, TypeOK
<1>6. fresh' \subseteq Created' /\ fresh \subseteq Created'
  BY <1>1 DEF CreateOrder, TypeOK
<1> QED BY <1>1, <1>3, <1>4, <1>5, <1>6, TypeFacts

\* Every other step leaves the orders there are, and gives none life or (but for a top-up)
\* escrow.
Fades ==
    /\ Created' = Created
    /\ \A p \in Created : /\ orders'[p] \in OrderType
                          /\ orders'[p].escrow <= orders[p].escrow
                          /\ orders'[p].live => orders[p].live /\ orders'[p].escrow > 0
    /\ balance' \in Nat

LEMMA UntouchedFades ==
    ASSUME TypeOK, AliveInv, NEW p \in Created, orders'[p] = orders[p]
    PROVE  /\ orders'[p] \in OrderType
           /\ orders'[p].escrow <= orders[p].escrow
           /\ orders'[p].live => orders[p].live /\ orders'[p].escrow > 0
<1>1. orders[p] \in OrderType /\ orders[p].escrow \in Nat
  BY TypeFacts
<1>2. orders[p].live => orders[p].escrow > 0
  BY DEF AliveInv, Live
<1>3. orders[p].escrow <= orders[p].escrow
  BY <1>1
<1> QED BY <1>1, <1>2, <1>3

LEMMA CancelFacts ==
    ASSUME TypeOK, AliveInv, NEW o \in Created, CancelOrder(o)
    PROVE  Fades
<1>1. CASE orders[o].live
  <2>1. /\ orders' = [orders EXCEPT ![o].live = FALSE, ![o].escrow = 0]
        /\ balance' = balance + orders[o].escrow
    BY <1>1 DEF CancelOrder
  <2>2. Created' = Created /\ \A p \in Created \ {o} : orders'[p] = orders[p]
    BY <2>1 DEF Created
  <2>3. orders[o] \in OrderType
    BY TypeFacts
  <2>4. orders'[o] \in OrderType /\ orders'[o].escrow = 0 /\ orders'[o].live = FALSE
    BY <2>1, <2>3 DEF Created, OrderType
  <2>5. /\ orders'[o].escrow <= orders[o].escrow
        /\ orders'[o].live => orders[o].live /\ orders'[o].escrow > 0
    BY <2>4, TypeFacts
  <2>6. balance' \in Nat
    BY <2>1, TypeFacts
  <2> QED BY <2>2, <2>4, <2>5, <2>6, UntouchedFades DEF Fades
<1>2. CASE ~orders[o].live
  <2>1. orders' = orders /\ balance' = balance
    BY <1>2 DEF CancelOrder
  <2>2. Created' = Created /\ \A p \in Created : orders'[p] = orders[p]
    BY <2>1 DEF Created
  <2> QED BY <2>1, <2>2, TypeFacts, UntouchedFades DEF Fades
<1> QED BY <1>1, <1>2

LEMMA DrainFacts ==
    ASSUME TypeOK, AliveInv, NEW o \in Live,
           orders' = [orders EXCEPT ![o].escrow = @ - 1, ![o].live = orders[o].escrow > 1],
           balance' = balance
    PROVE  Fades
<1>1. o \in Created /\ orders[o] \in OrderType /\ orders[o].escrow > 0 /\ orders[o].escrow \in Nat
  BY TypeFacts DEF Live, AliveInv
<1>2. Created' = Created /\ \A p \in Created \ {o} : orders'[p] = orders[p]
  BY DEF Created
<1>3. /\ orders'[o] \in OrderType /\ orders'[o].escrow = orders[o].escrow - 1
      /\ orders'[o].live => orders[o].escrow > 1
  <2> DEFINE e == orders[o].escrow
  <2>1. orders'[o] = [orders[o] EXCEPT !.escrow = e - 1, !.live = (e > 1)]
    BY <1>1 DEF Created
  <2>2. (e > 1) \in BOOLEAN /\ e - 1 \in Nat
    BY <1>1
  <2>3. orders[o].live
    BY DEF Live
  <2> HIDE DEF e
  <2>4. orders'[o].escrow = e - 1 /\ (orders'[o].live <=> e > 1)
    BY <1>1, <2>1 DEF OrderType
  <2>5. orders'[o] \in OrderType
    BY <1>1, <2>1, <2>2 DEF OrderType
  <2> QED BY <2>4, <2>5 DEF e
<1>4. orders[o].live
  BY DEF Live
<1>5. /\ orders'[o].escrow <= orders[o].escrow
      /\ orders'[o].live => orders[o].live /\ orders'[o].escrow > 0
  BY <1>1, <1>3, <1>4
<1> QED BY <1>2, <1>3, <1>5, UntouchedFades, TypeFacts DEF Fades

-----------------------------------------------------------------------------
(* What the steps of the daemon change. *)

\* No order there was holds more than before.
Shrinks == \A p \in Created : /\ p \in Created' /\ orders'[p].escrow \in Nat
                              /\ orders'[p].escrow <= orders[p].escrow

LEMMA FadesShrinks ==
    ASSUME TypeOK, Fades
    PROVE  /\ Shrinks /\ AliveInv' /\ Created' = Created
           /\ \A p \in Created' : orders'[p] \in OrderType
BY TypeFacts DEF Fades, Shrinks, AliveInv, Live, OrderType

LEMMA SameShrinks ==
    ASSUME TypeOK, orders' = orders
    PROVE  Shrinks /\ Created' = Created /\ Live' = Live /\ (AliveInv => AliveInv')
<1>1. Created' = Created /\ Live' = Live
  BY DEF Created, Live
<1>2. Shrinks
  BY <1>1, TypeFacts DEF Shrinks
<1>3. AliveInv => AliveInv'
  BY <1>1 DEF AliveInv
<1> QED BY <1>1, <1>2, <1>3

LEMMA NoJobs ==
    ASSUME jobs' = <<>>, pc' \in {"reload", "observe"} PROVE JobsInv'
BY DEF JobsInv

LEMMA EscrowKept ==
    ASSUME TypeOK, Budget > 0 => EscrowBounded, Shrinks, placed' = placed, misreads' = misreads
    PROVE  Budget > 0 => EscrowBounded'
<1> SUFFICES ASSUME Budget > 0, NEW o \in placed'
             PROVE  orders'[o].escrow <= Cap'
  BY DEF EscrowBounded, Cap
<1>1. o \in placed /\ o \in Created
  BY DEF TypeOK
<1>2. orders[o].escrow <= Cap
  BY <1>1 DEF EscrowBounded, Cap
<1>3. Cap' = Cap /\ Cap \in Nat
  BY TypeFacts, CapKept
<1>4. orders'[o].escrow <= orders[o].escrow /\ orders'[o].escrow \in Nat
  BY <1>1 DEF Shrinks
<1>5. orders[o].escrow \in Nat
  BY <1>1, TypeFacts
<1> QED BY <1>2, <1>3, <1>4, <1>5

LEMMA FitsKept ==
    ASSUME TypeOK, Shrinks, pool' = pool, placed' = placed, misreads' = misreads,
           NEW j \in Jobs, Fits(j)
    PROVE  Fits(j)'
<1>1. j.kind # "create" => j.id \in Created /\ j.id \in Created'
  BY DEF Fits, Shrinks
<1>2. Cap' = Cap /\ Cap \in Nat
  BY TypeFacts, CapKept
<1>3. j.kind = "refill" /\ j.id \in placed /\ Budget > 0 => orders'[j.id].escrow + j.amount <= Cap
  <2> SUFFICES ASSUME j.kind = "refill", j.id \in placed, Budget > 0
               PROVE  orders'[j.id].escrow + j.amount <= Cap
    OBVIOUS
  <2>1. orders[j.id].escrow + j.amount <= Cap /\ j.amount \in Nat
    BY JobShape DEF Fits
  <2>2. orders'[j.id].escrow <= orders[j.id].escrow /\ orders'[j.id].escrow \in Nat
    BY <1>1 DEF Shrinks
  <2>3. orders[j.id].escrow \in Nat
    BY <1>1, TypeFacts
  <2> QED BY <1>2, <2>1, <2>2, <2>3
<1> QED BY <1>1, <1>2, <1>3 DEF Fits

\* The proposals wait while the world moves on.
LEMMA JobsWait ==
    ASSUME TypeOK, JobsInv, Shrinks, UNCHANGED <<jobs, pc, pool, placed, misreads>>
    PROVE  JobsInv'
<1>1. \A j \in Jobs : Fits(j) => Fits(j)'
  BY FitsKept
<1>2. \A i \in 1..Len(jobs) : Fits(jobs[i]) /\ jobs[i] \in Jobs
  <2> HIDE DEF Jobs
  <2> QED BY DEF JobsInv
<1>3. \A i \in 1..Len(jobs') : Fits(jobs[i])'
  <2> HIDE DEF Jobs
  <2> QED BY <1>1, <1>2 DEF Fits
<1> HIDE DEF Jobs
<1> QED BY <1>3 DEF JobsInv, Job

\* The tick goes on with the next proposal.
LEMMA JobDone ==
    ASSUME TypeOK, JobsInv, jobs # <<>>, Shrinks, NextJob,
           UNCHANGED <<pool, placed, misreads>>
    PROVE  /\ JobsInv' /\ pc' \in {"reload", "execute"}
           /\ pc' = "execute" => jobs' # <<>>
<1>1. jobs \in Seq(Jobs) /\ jobs' = Tail(jobs)
  BY DEF JobsInv, NextJob
<1>2. /\ jobs' \in Seq(Jobs) /\ Len(jobs') = Len(jobs) - 1 /\ Len(jobs) \in Nat
      /\ \A i \in 1..(Len(jobs) - 1) : jobs'[i] = jobs[i + 1] /\ i + 1 \in 1..Len(jobs)
  BY <1>1, TailFacts
<1>3. \A j \in Jobs : Fits(j) => Fits(j)'
  BY FitsKept
<1>4. \A i \in 1..Len(jobs) : jobs[i] \in Jobs /\ Fits(jobs[i])
  <2> HIDE DEF Jobs
  <2> QED BY DEF JobsInv
<1>5. ASSUME NEW i \in 1..Len(jobs')
      PROVE  /\ i + 1 \in 1..Len(jobs) /\ jobs'[i] = jobs[i + 1]
             /\ jobs[i + 1].kind # "create"
             /\ jobs[i + 1].kind = "refill" => i = Len(jobs')
  <2>1. i \in 1..(Len(jobs) - 1) /\ i + 1 \in 1..Len(jobs) /\ Len(jobs) # 1
    BY <1>2, <1>5
  <2>2. /\ jobs[i + 1].kind = "create" => Len(jobs) = 1
        /\ jobs[i + 1].kind = "refill" => i + 1 = Len(jobs)
    BY <2>1 DEF JobsInv
  <2> QED BY <1>2, <2>1, <2>2
<1>6. ASSUME NEW i \in 1..Len(jobs') PROVE Fits(jobs[i])'
  <2>1. jobs'[i] = jobs[i + 1] /\ i + 1 \in 1..Len(jobs)
    BY <1>5
  <2>2. jobs'[i] \in Jobs /\ Fits(jobs'[i])
    BY <1>4, <2>1
  <2> HIDE DEF Jobs
  <2> QED BY <1>3, <2>2 DEF Fits
<1>8. pc' \in {"reload", "execute"} /\ (pc' = "execute" <=> jobs' # <<>>)
  BY DEF NextJob
<1>9. \A i \in 1..Len(jobs') : /\ Fits(jobs[i])'
                               /\ jobs'[i].kind # "create"
                               /\ jobs'[i].kind = "refill" => i = Len(jobs')
  BY <1>5, <1>6
<1> HIDE DEF Jobs
<1> QED BY <1>2, <1>8, <1>9 DEF JobsInv

-----------------------------------------------------------------------------
(* The steps. *)

LEMMA ReloadKeeps == ASSUME LifeInv, Reload \/ RunNow PROVE LifeInv'
<1>1. orders' = orders /\ placed' = placed /\ misreads' = misreads /\ pc' = "observe"
  BY DEF Reload, RunNow
<1>2. jobs' = <<>>
  BY DEF Reload, RunNow, LifeInv, JobsInv
<1>3. JobsInv'
  BY <1>1, <1>2, NoJobs
<1>4. Shrinks /\ Created' = Created /\ AliveInv'
  BY <1>1, SameShrinks DEF LifeInv
<1>5. Budget > 0 => EscrowBounded'
  BY <1>1, <1>4, EscrowKept DEF LifeInv
<1>6. TypeOK'
  <2>1. UNCHANGED <<orders, fresh, balance, ledger, worker, placed, misreads>>
    BY DEF Reload, RunNow
  <2>2. poolKey' \in {poolKey, worker} /\ pool' \in {pool, worker}
        /\ (upsets' = upsets \/ Upset)
    BY DEF Reload, RunNow, applyLiveSettings
  <2>3. known' = ledger
    BY DEF Reload, RunNow
  <2>4. upsets' \in 0..MaxUpsets /\ misreads' \in 0..upsets'
    BY <2>1, <2>2, LifecycleAssumption DEF Upset, LifeInv, TypeOK
  <2> QED BY <1>1, <1>2, <1>4, <2>1, <2>2, <2>3, <2>4 DEF LifeInv, TypeOK
<1> QED BY <1>3, <1>4, <1>5, <1>6 DEF LifeInv

\* A tick proposes a top-up only for an order that reads low.
LEMMA ObserveKeeps ==
    ASSUME LifeInv, NEW owned \in SUBSET Live, NEW free \in Nat \cup {NotRead},
           NEW low \in BOOLEAN, NEW p,
           p = <<>> \/ (pool # NoWorker /\ p = decide(owned, free, low)),
           ObserveAs(p),
           \/ UNCHANGED <<misreads, upsets>> /\ (low => owned # {} /\ IsLow(Primary(owned)))
           \/ Upset /\ misreads' = misreads + 1
    PROVE  LifeInv'
<1>1. /\ UNCHANGED <<orders, fresh, balance, ledger, worker, poolKey, pool, known, placed>>
      /\ jobs' = p /\ pc' = IF p = <<>> THEN "reload" ELSE "execute"
  BY DEF ObserveAs
<1>2. misreads \in Nat /\ upsets \in Nat /\ misreads' \in Nat
      /\ (misreads' = misreads \/ misreads' = misreads + 1)
  BY TypeFacts DEF LifeInv
<1>3. upsets' \in 0..MaxUpsets /\ misreads' \in 0..upsets'
  BY LifecycleAssumption DEF Upset, LifeInv, TypeOK
<1>4. Shrinks /\ Created' = Created /\ AliveInv'
  BY <1>1, SameShrinks DEF LifeInv
<1>5. /\ Cap \in Nat /\ Cap' \in Nat /\ Cap <= Cap' /\ LowEscrow + RefillAmount <= Cap
      /\ misreads' = misreads + 1 => Cap' = Cap + RefillAmount
  <2> DEFINE most == Max({LowEscrow + RefillAmount, Budget})
             extra == misreads * RefillAmount
             more == (misreads + 1) * RefillAmount
  <2>1. /\ most \in Nat /\ extra \in Nat /\ more = extra + RefillAmount /\ RefillAmount \in Nat
        /\ LowEscrow + RefillAmount <= most /\ LowEscrow \in Nat
    BY <1>2, CapFacts, NumbersFacts DEF Numbers
  <2>2. Cap = most + extra
    BY DEF Cap
  <2>3. misreads' = misreads => Cap' = most + extra
    BY DEF Cap
  <2>4. misreads' = misreads + 1 => Cap' = most + more
    BY DEF Cap
  <2> HIDE DEF most, extra, more
  <2> QED BY <1>2, <2>1, <2>2, <2>3, <2>4
<1>6. Budget > 0 => EscrowBounded'
  <2> SUFFICES ASSUME Budget > 0, NEW o \in placed'
               PROVE  orders'[o].escrow <= Cap'
    BY DEF EscrowBounded, Cap
  <2>1. o \in placed /\ o \in Created /\ orders'[o] = orders[o]
    BY <1>1 DEF LifeInv, TypeOK
  <2>2. orders[o].escrow <= Cap
    BY <2>1 DEF LifeInv, EscrowBounded, Cap
  <2>3. orders[o].escrow \in Nat
    BY <2>1, TypeFacts DEF LifeInv
  <2> QED BY <1>5, <2>1, <2>2, <2>3
<1>7. CASE p = <<>>
  <2>1. JobsInv'
    BY <1>1, <1>7, NoJobs
  <2> QED BY <1>1, <1>3, <1>4, <1>6, <1>7, <2>1 DEF LifeInv, TypeOK
<1>8. CASE p # <<>>
  <2>1. pool \in Workers /\ p = decide(owned, free, low) /\ pc' = "execute"
    BY <1>1, <1>8 DEF LifeInv, TypeOK
  <2>2. owned \in SUBSET Ids /\ owned \subseteq Created
    BY TypeFacts DEF LifeInv, Live
  <2>3. /\ Proposed(p, owned, low)
        /\ \A i \in 1..Len(p) : p[i].kind = "refill" => p[i].id = Primary(owned)
    BY <2>1, <2>2, DecideProposed
  <2>4. p \in Seq(Jobs)
    BY <2>3 DEF Proposed
  <2>5. ASSUME NEW i \in 1..Len(p) PROVE Fits(p[i])'
    <3> DEFINE j == p[i]
    <3>1. j \in Jobs
      <4> HIDE DEF Jobs
      <4> QED BY <2>4
    <3>2. /\ j.kind = "create" => j.amount >= MinAmount /\ (Budget > 0 => j.amount <= Budget)
          /\ j.kind # "create" => j.id \in owned
          /\ j.kind = "refill" => low /\ j.amount <= RefillAmount /\ j.id = Primary(owned)
      BY <2>3 DEF Proposed
    <3>3. j.amount \in Nat
      BY <3>1, JobShape
    <3> HIDE DEF j
    <3>4. j.kind = "refill" /\ j.id \in placed /\ Budget > 0 => orders[j.id].escrow + j.amount <= Cap'
      <4> SUFFICES ASSUME j.kind = "refill", j.id \in placed, Budget > 0
                   PROVE  orders[j.id].escrow + j.amount <= Cap'
        OBVIOUS
      <4>1. orders[j.id].escrow \in Nat /\ RefillAmount \in Nat /\ LowEscrow \in Nat
        BY <2>2, <3>2, TypeFacts, NumbersFacts DEF LifeInv, Numbers
      <4>2. CASE misreads' = misreads + 1
        <5>1. orders[j.id].escrow <= Cap
          BY DEF LifeInv, EscrowBounded, Cap
        <5> QED BY <1>5, <3>2, <3>3, <4>1, <4>2, <5>1
      <4>3. CASE misreads' = misreads
        <5>1. IsLow(j.id)
          BY <1>2, <3>2, <4>3
        <5>2. orders[j.id].escrow <= LowEscrow
          BY <5>1 DEF IsLow
        <5> QED BY <1>5, <3>2, <3>3, <4>1, <5>2
      <4> QED BY <1>2, <4>2, <4>3
    <3>5. /\ j.kind = "create" => /\ pool' \in Workers /\ j.amount >= MinAmount
                                  /\ Budget > 0 => j.amount <= Budget
          /\ j.kind # "create" => j.id \in Created'
          /\ j.kind = "refill" /\ j.id \in placed' /\ Budget > 0 =>
                 orders'[j.id].escrow + j.amount <= Cap'
      BY <1>1, <1>4, <2>1, <2>2, <3>2, <3>4
    <3> QED BY <3>5 DEF Fits, j
  <2>6. \A i \in 1..Len(p) : /\ p[i].kind = "create" => Len(p) = 1
                             /\ p[i].kind = "refill" => i = Len(p)
    BY <2>3 DEF Proposed
  <2>7. JobsInv'
    <3>1. \A i \in 1..Len(jobs') : Fits(jobs[i])'
      BY <1>1, <2>5 DEF Fits
    <3> HIDE DEF Jobs
    <3> QED BY <1>1, <2>1, <2>4, <2>6, <3>1 DEF JobsInv
  <2>8. \A i \in DOMAIN jobs' : jobs'[i] \in Jobs
    <3> HIDE DEF Jobs
    <3> QED BY <1>1, <2>4
  <2> QED BY <1>1, <1>3, <1>4, <1>6, <1>8, <2>1, <2>7, <2>8 DEF LifeInv, TypeOK
<1> QED BY <1>7, <1>8

LEMMA ObserveStep == ASSUME LifeInv, Observe PROVE LifeInv'
<1> DEFINE low == Owned # {} /\ IsLow(Primary(Owned))
           high == Owned # {} /\ ~IsLow(Primary(Owned))
<1>1. Owned \in SUBSET Live
  BY DEF Owned, reconcileOrders, Live
<1>2. balance \in Nat \cup {NotRead} /\ NotRead \in Nat \cup {NotRead}
  BY TypeFacts DEF LifeInv
<1>3. low \in BOOLEAN /\ high \in BOOLEAN
  OBVIOUS
<1>4. ASSUME NEW free \in Nat \cup {NotRead}, ObserveAs(ReadProposals(free)),
             UNCHANGED <<misreads, upsets>>
      PROVE  LifeInv'
  <2>1. ReadProposals(free) = <<>>
        \/ (pool # NoWorker /\ ReadProposals(free) = decide(Owned, free, low))
    BY DEF ReadProposals
  <2> HIDE DEF low
  <2>2. low => Owned # {} /\ IsLow(Primary(Owned))
    BY DEF low
  <2> QED BY <1>1, <1>3, <1>4, <2>1, <2>2, ObserveKeeps
<1>5. CASE ObserveFully
  BY <1>2, <1>4, <1>5 DEF ObserveFully
<1>6. CASE ObserveAs(ReadProposals(NotRead)) /\ UNCHANGED <<misreads, upsets>>
  BY <1>2, <1>4, <1>6
<1>7. CASE ObserveAs(BlindProposals) /\ UNCHANGED <<misreads, upsets>>
  BY <1>1, <1>2, <1>7, ObserveKeeps DEF BlindProposals
<1>8. CASE ObserveAs(MisreadProposals) /\ Upset /\ misreads' = misreads + 1
  <2>1. MisreadProposals = <<>>
        \/ (pool # NoWorker /\ MisreadProposals = decide(Owned, balance, high))
    BY DEF MisreadProposals
  <2> HIDE DEF high
  <2> QED BY <1>1, <1>2, <1>3, <1>8, <2>1, ObserveKeeps
<1> QED BY <1>5, <1>6, <1>7, <1>8 DEF Observe

\* The proposal at the head of the list.
LEMMA JobFacts ==
    ASSUME LifeInv, jobs # <<>>
    PROVE  /\ Job = jobs[1] /\ Job \in Jobs /\ Fits(Job) /\ Len(jobs) \in Nat /\ Len(jobs) > 0
           /\ Job.kind = "create" \/ Job.kind = "refill" => Tail(jobs) = <<>> /\ Len(jobs) = 1
<1>1. jobs \in Seq(Jobs)
  BY DEF LifeInv, JobsInv
<1>2. /\ Head(jobs) = jobs[1] /\ jobs[1] \in Jobs /\ Len(jobs) \in Nat /\ Len(jobs) > 0
      /\ Len(jobs) = 1 => Tail(jobs) = <<>>
  BY <1>1, TailFacts
<1>3. 1 \in 1..Len(jobs)
  BY <1>2
<1>4. /\ Fits(jobs[1]) /\ (jobs[1].kind = "create" => Len(jobs) = 1)
      /\ jobs[1].kind = "refill" => 1 = Len(jobs)
  BY <1>3 DEF LifeInv, JobsInv
<1> QED BY <1>2, <1>4 DEF Job

\* A create whose answer is lost ends the tick.
LEMMA LastJobDone ==
    ASSUME LifeInv, jobs # <<>>, Job.kind # "cancel", NextJob
    PROVE  jobs' = <<>> /\ pc' = "reload" /\ JobsInv'
<1>1. Tail(jobs) = <<>>
  BY JobFacts, JobShape
<1>2. jobs' = <<>> /\ pc' = "reload"
  BY <1>1 DEF NextJob
<1> QED BY <1>2, NoJobs

LEMMA CreateKeeps ==
    ASSUME LifeInv, pc = "execute", Job.kind = "create",
           UNCHANGED <<ledger, worker, poolKey, pool, known, misreads>>,
           NEW o \in Ids \ Created, ExecuteCreate(o) \/ ExecuteCreateUpset(o)
    PROVE  LifeInv'
<1>1. jobs # <<>>
  BY DEF LifeInv, TypeOK
<1>2. /\ Job = jobs[1] /\ Job \in Jobs /\ Fits(Job) /\ Len(jobs) = 1 /\ Tail(jobs) = <<>>
      /\ Len(jobs) > 0
  BY <1>1, JobFacts
<1>3. Job.amount \in Nat /\ Job.amount > 0 /\ pool \in Workers /\ (Budget > 0 => Job.amount <= Budget)
  BY <1>2, JobShape, NumbersFacts DEF Fits, Numbers
<1>4. PICK lag \in BOOLEAN : CreateOrder(o, Job.amount, pool, lag)
  BY DEF ExecuteCreate, ExecuteCreateUpset
<1>5. placed' = placed \cup {o} /\ (upsets' = upsets \/ Upset)
  BY DEF ExecuteCreate, ExecuteCreateUpset
<1>6. /\ Created' = Created \cup {o}
      /\ orders'[o] = [live |-> TRUE, worker |-> pool, escrow |-> Job.amount]
      /\ \A p \in Created : orders'[p] = orders[p]
      /\ \A p \in Created' : orders'[p] \in OrderType
      /\ Live' = Live \cup {o}
      /\ balance' \in Nat /\ Created' \subseteq Ids
      /\ fresh' \subseteq Created' /\ fresh \subseteq Created'
  <2> HIDE DEF CreateOrder, Live, OrderType
  <2> QED BY <1>3, <1>4, CreateFacts DEF LifeInv
<1>7. AliveInv'
  <2>1. orders'[o].escrow > 0
    BY <1>3, <1>6
  <2>2. \A p \in Live : orders'[p].escrow > 0
    BY <1>6 DEF LifeInv, AliveInv, Live
  <2> QED BY <1>6, <2>1, <2>2 DEF AliveInv
<1>8. Budget > 0 => EscrowBounded'
  <2> SUFFICES ASSUME Budget > 0, NEW p \in placed'
               PROVE  orders'[p].escrow <= Cap'
    BY DEF EscrowBounded, Cap
  <2>1. Cap' = Cap /\ Cap \in Nat
    BY CapKept, TypeFacts DEF LifeInv
  <2>2. CASE p \in placed
    <3>1. orders'[p] = orders[p]
      BY <1>6, <2>2 DEF LifeInv, TypeOK
    <3> QED BY <2>1, <2>2, <3>1 DEF LifeInv, EscrowBounded, Cap
  <2>3. CASE p = o
    <3> DEFINE most == Max({LowEscrow + RefillAmount, Budget})
               extra == misreads * RefillAmount
    <3>1. most \in Nat /\ extra \in Nat /\ Budget <= most /\ Budget \in Nat
      BY TypeFacts, CapFacts, NumbersFacts DEF LifeInv, Numbers
    <3>2. Cap = most + extra
      BY DEF Cap
    <3>3. orders'[p].escrow = Job.amount
      BY <1>6, <2>3
    <3> HIDE DEF most, extra
    <3> QED BY <1>3, <2>1, <3>1, <3>2, <3>3
  <2> QED BY <1>5, <2>2, <2>3
<1>9. (jobs' = <<>> /\ pc' = "reload") \/ (jobs' # <<>> /\ pc' = "persist") =>
          (JobsInv' => TypeOK')
  <2>1. upsets' \in 0..MaxUpsets /\ misreads' \in 0..upsets'
    BY <1>5, LifecycleAssumption DEF Upset, LifeInv, TypeOK
  <2>2. JobsInv' => \A i \in DOMAIN jobs' : jobs'[i] \in Jobs
    <3> HIDE DEF Jobs
    <3> QED BY DEF JobsInv
  <2>3. \A p \in Created' : orders'[p] \in [live : BOOLEAN, worker : Workers, escrow : Nat]
    BY <1>6 DEF OrderType
  <2> QED BY <1>5, <1>6, <2>1, <2>2, <2>3 DEF LifeInv, TypeOK
<1>10. CASE NextJob
  <2>1. jobs' = <<>> /\ pc' = "reload" /\ JobsInv'
    BY <1>1, <1>10, LastJobDone
  <2> QED BY <1>7, <1>8, <1>9, <2>1 DEF LifeInv
<1>11. CASE jobs' = [jobs EXCEPT ![1].id = o] /\ pc' = "persist"
  <2>1. jobs \in Seq(Jobs) /\ 1 \in 1..Len(jobs) /\ o \in Ids
    BY <1>2 DEF LifeInv, JobsInv
  <2>2. /\ [Job EXCEPT !.id = o] \in Jobs /\ [Job EXCEPT !.id = o].kind = "create"
        /\ [Job EXCEPT !.id = o].id = o /\ [Job EXCEPT !.id = o].amount = Job.amount
    BY <1>2, <2>1 DEF Jobs
  <2> DEFINE job == [Job EXCEPT !.id = o]
  <2>3. jobs' = [jobs EXCEPT ![1] = job]
    BY <1>2, <1>11
  <2> HIDE DEF job, Jobs
  <2>4. /\ jobs' \in Seq(Jobs) /\ Len(jobs') = 1 /\ jobs'[1] = job /\ Head(jobs') = job
        /\ jobs' # <<>>
    <3>1. \A t \in Seq(Jobs), j \in Jobs : 1 \in 1..Len(t) =>
              LET u == [t EXCEPT ![1] = j]
              IN  u \in Seq(Jobs) /\ Len(u) = Len(t) /\ u[1] = j
      OBVIOUS
    <3>2. jobs' \in Seq(Jobs) /\ Len(jobs') = 1 /\ jobs'[1] = job
      BY <1>2, <2>1, <2>2, <2>3, <3>1 DEF job
    <3>3. jobs' # <<>>
      <4>1. Len(<<>>) = 0
        OBVIOUS
      <4>2. Len(jobs') # 0
        BY <3>2
      <4> QED BY <4>1, <4>2, Zenon
    <3> QED BY <3>2, <3>3, TailFacts
  <2>5. Fits(jobs[1])'
    BY <1>2, <1>3, <2>2, <2>4 DEF Fits, job
  <2>6. JobsInv'
    <3>1. \A i \in 1..Len(jobs') : /\ Fits(jobs[i])' /\ Len(jobs') = 1
                                   /\ jobs'[i].kind = "create"
      <4> SUFFICES ASSUME NEW i \in 1..Len(jobs')
                   PROVE  Fits(jobs[i])' /\ jobs'[i].kind = "create"
        BY <2>4
      <4>1. i = 1
        BY <2>4
      <4> QED BY <2>2, <2>4, <2>5, <4>1 DEF job
    <3>2. Job' = job /\ job.kind = "create" /\ job.id = o /\ o \in placed'
      BY <1>5, <2>2, <2>4 DEF Job, job
    <3> QED BY <1>11, <2>4, <3>1, <3>2 DEF JobsInv
  <2> QED BY <1>7, <1>8, <1>9, <1>11, <2>4, <2>6 DEF LifeInv
<1> QED BY <1>10, <1>11 DEF ExecuteCreate, ExecuteCreateUpset

\* A step that places no order of the daemon keeps the invariant when it keeps these parts.
LEMMA PartsKept ==
    ASSUME LifeInv, JobsInv', AliveInv', Shrinks,
           Created' \subseteq Ids, \A p \in Created' : orders'[p] \in OrderType,
           balance' \in Nat, fresh' \subseteq Created', ledger' \subseteq Created',
           known' \subseteq ledger', placed' = placed, misreads' = misreads,
           worker' \in Workers \cup {NoWorker}, poolKey' \in {poolKey, worker'},
           pool' \in {pool, worker', NoWorker},
           pc' \in {"reload", "observe", "execute", "persist"},
           pc' \in {"execute", "persist"} => jobs' # <<>>,
           upsets' = upsets \/ Upset
    PROVE  LifeInv'
<1>1. Budget > 0 => EscrowBounded'
  BY EscrowKept DEF LifeInv
<1>2. upsets' \in 0..MaxUpsets /\ misreads' \in 0..upsets'
  BY LifecycleAssumption DEF Upset, LifeInv, TypeOK
<1>3. \A i \in DOMAIN jobs' : jobs'[i] \in Jobs
  <2> HIDE DEF Jobs
  <2> QED BY DEF JobsInv
<1>4. placed' \subseteq Created'
  BY DEF LifeInv, TypeOK, Shrinks
<1>5. \A p \in Created' : orders'[p] \in [live : BOOLEAN, worker : Workers, escrow : Nat]
  BY DEF OrderType
<1>6. {worker', poolKey', pool'} \subseteq Workers \cup {NoWorker}
  BY DEF LifeInv, TypeOK
<1>7. TypeOK'
  BY <1>2, <1>3, <1>4, <1>5, <1>6 DEF TypeOK
<1> QED BY <1>1, <1>7 DEF LifeInv

\* A call that changes nothing at NiceHash.
LEMMA SkipKeeps ==
    ASSUME LifeInv, pc = "execute", NextJob, upsets' = upsets \/ Upset,
           UNCHANGED <<orders, fresh, balance, placed, ledger, worker, poolKey, pool, known,
                       misreads>>
    PROVE  LifeInv'
<1>1. jobs # <<>>
  BY DEF LifeInv, TypeOK
<1>2. Shrinks /\ Created' = Created /\ AliveInv'
  BY SameShrinks DEF LifeInv
<1>3. JobsInv' /\ pc' \in {"reload", "execute"} /\ (pc' = "execute" => jobs' # <<>>)
  BY <1>1, <1>2, JobDone DEF LifeInv
<1>4. Created' \subseteq Ids /\ \A p \in Created' : orders'[p] \in OrderType
  BY <1>2, TypeFacts DEF LifeInv
<1> QED BY <1>2, <1>3, <1>4, PartsKept DEF LifeInv, TypeOK

LEMMA CancelKeeps ==
    ASSUME LifeInv, pc = "execute", Job.kind = "cancel", ExecuteCancel,
           UNCHANGED <<ledger, worker, poolKey, pool, known, misreads>>
    PROVE  LifeInv'
<1>1. jobs # <<>>
  BY DEF LifeInv, TypeOK
<1>2. Job.id \in Created
  BY <1>1, JobFacts DEF Fits
<1>3. CancelOrder(Job.id) /\ UNCHANGED <<fresh, placed>>
  BY DEF ExecuteCancel
<1>4. Fades
  BY <1>2, <1>3, CancelFacts DEF LifeInv
<1>5. Shrinks /\ AliveInv' /\ Created' = Created /\ \A p \in Created' : orders'[p] \in OrderType
  BY <1>4, FadesShrinks DEF LifeInv
<1>6. balance' \in Nat
  BY <1>4 DEF Fades
<1>7. Created' \subseteq Ids
  BY <1>5, TypeFacts DEF LifeInv
<1>8. /\ JobsInv' /\ pc' \in {"reload", "execute"}
      /\ pc' = "execute" => jobs' # <<>>
      /\ upsets' = upsets \/ Upset
  <2>1. CASE NextJob /\ UNCHANGED upsets
    BY <1>1, <1>3, <1>5, <2>1, JobDone DEF LifeInv
  <2>2. CASE Upset /\ AbortTick
    BY <2>2, NoJobs DEF AbortTick
  <2> QED BY <2>1, <2>2 DEF ExecuteCancel
<1> QED BY <1>3, <1>5, <1>6, <1>7, <1>8, PartsKept DEF LifeInv, TypeOK

\* The one step that adds to an escrow: as much as the proposal left room for.
LEMMA RefillKeeps ==
    ASSUME LifeInv, pc = "execute", Job.kind = "refill", ExecuteRefill,
           UNCHANGED <<ledger, worker, poolKey, pool, known, misreads>>
    PROVE  LifeInv'
<1>1. jobs # <<>>
  BY DEF LifeInv, TypeOK
<1> DEFINE o == Job.id
           amount == Job.amount
<1>2. /\ o \in Created /\ amount \in Nat
      /\ o \in placed /\ Budget > 0 => orders[o].escrow + amount <= Cap
  BY <1>1, JobFacts, JobShape DEF Fits
<1>3. /\ RefillOrder(o, amount) /\ NextJob
      /\ UNCHANGED <<fresh, placed, upsets>>
  BY DEF ExecuteRefill
<1>4. jobs' = <<>> /\ pc' = "reload" /\ JobsInv'
  BY <1>1, <1>3, LastJobDone
<1>5. CASE orders' = orders /\ balance' = balance
  BY <1>3, <1>5, SkipKeeps
<1>6. CASE /\ orders[o].live /\ balance >= amount
           /\ orders' = [orders EXCEPT ![o].escrow = @ + amount]
           /\ balance' = balance - amount
  <2> HIDE DEF o, amount
  <2>1. /\ orders[o] \in OrderType /\ orders[o].escrow \in Nat /\ balance \in Nat
        /\ Created \subseteq Ids /\ misreads \in Nat
    BY <1>2, TypeFacts DEF LifeInv
  <2>2. Created' = Created /\ \A p \in Created \ {o} : orders'[p] = orders[p]
    BY <1>6 DEF Created
  <2>3. /\ orders'[o].escrow = orders[o].escrow + amount /\ orders'[o] \in OrderType
        /\ orders'[o].live = orders[o].live
    <3> DEFINE e == orders[o].escrow
    <3>1. orders'[o] = [orders[o] EXCEPT !.escrow = e + amount]
      BY <1>2, <1>6 DEF Created
    <3>2. e + amount \in Nat
      BY <1>2, <2>1
    <3> HIDE DEF e
    <3>3. orders'[o].escrow = e + amount /\ orders'[o].live = orders[o].live
          /\ orders'[o] \in OrderType
      BY <2>1, <3>1, <3>2 DEF OrderType
    <3> QED BY <3>3 DEF e
  <2>4. orders[o].escrow > 0
    BY <1>2, <1>6 DEF LifeInv, AliveInv, Live
  <2>5. AliveInv'
    <3>1. orders'[o].escrow > 0
      BY <1>2, <2>1, <2>3, <2>4
    <3>2. \A p \in Created \ {o} : orders'[p].live => orders'[p].escrow > 0
      BY <2>2 DEF LifeInv, AliveInv, Live
    <3> QED BY <2>2, <3>1, <3>2 DEF AliveInv, Live
  <2>6. Budget > 0 => EscrowBounded'
    <3> SUFFICES ASSUME Budget > 0, NEW p \in placed'
                 PROVE  orders'[p].escrow <= Cap'
      BY DEF EscrowBounded, Cap
    <3>1. Cap' = Cap
      BY <2>1, CapKept
    <3>2. CASE p = o
      BY <1>2, <1>3, <2>3, <3>1, <3>2
    <3>3. CASE p # o
      <4>1. p \in placed /\ orders'[p] = orders[p]
        BY <1>3, <2>2, <3>3 DEF LifeInv, TypeOK
      <4> QED BY <3>1, <4>1 DEF LifeInv, EscrowBounded, Cap
    <3> QED BY <3>2, <3>3
  <2>7. \A p \in Created' : orders'[p] \in [live : BOOLEAN, worker : Workers, escrow : Nat]
    BY <2>2, <2>3, TypeFacts DEF LifeInv, OrderType
  <2>8. balance' \in Nat
    BY <1>2, <1>6, <2>1
  <2>9. TypeOK'
    BY <1>3, <1>4, <2>2, <2>7, <2>8 DEF LifeInv, TypeOK
  <2> QED BY <1>4, <2>5, <2>6, <2>9 DEF LifeInv
<1> QED BY <1>3, <1>5, <1>6 DEF RefillOrder

LEMMA ExecuteKeeps == ASSUME LifeInv, Execute PROVE LifeInv'
<1>1. /\ pc = "execute" /\ jobs # <<>>
      /\ UNCHANGED <<ledger, worker, poolKey, pool, known, misreads>>
  BY DEF Execute, LifeInv, TypeOK
<1>2. Job.kind \in {"create", "cancel", "refill"}
  BY <1>1, JobFacts, JobShape
<1>3. CASE ExecuteFailed
  BY <1>1, <1>3, SkipKeeps DEF ExecuteFailed
<1>4. CASE Job.kind = "create" /\ ~ExecuteFailed
  <2>1. CASE \E o \in Ids \ Created : ExecuteCreate(o) \/ ExecuteCreateUpset(o)
    BY <1>1, <1>4, <2>1, CreateKeeps
  <2>2. CASE NextJob /\ UNCHANGED <<orders, fresh, balance, placed, upsets>>
    BY <1>1, <2>2, SkipKeeps
  <2> HIDE DEF ExecuteCreate, ExecuteCreateUpset, ExecuteFailed, NextJob
  <2> QED BY <1>4, <2>1, <2>2 DEF Execute
<1>5. CASE Job.kind = "cancel" /\ ~ExecuteFailed
  <2>1. ExecuteCancel
    BY <1>5 DEF Execute
  <2> QED BY <1>1, <1>5, <2>1, CancelKeeps
<1>6. CASE Job.kind = "refill" /\ ~ExecuteFailed
  <2>1. ExecuteRefill
    BY <1>6 DEF Execute
  <2> QED BY <1>1, <1>6, <2>1, RefillKeeps
<1> QED BY <1>2, <1>3, <1>4, <1>5, <1>6

LEMMA PersistKeeps == ASSUME LifeInv, Persist PROVE LifeInv'
<1>1. /\ pc = "persist"
      /\ UNCHANGED <<orders, fresh, balance, worker, poolKey, pool, known, placed, misreads>>
  BY DEF Persist
<1>2. jobs # <<>> /\ Job.kind = "create" /\ Job.id \in placed
  BY <1>1 DEF LifeInv, TypeOK, JobsInv
<1>3. Shrinks /\ Created' = Created /\ AliveInv'
  BY <1>1, SameShrinks DEF LifeInv
<1>4. JobsInv' /\ jobs' = <<>> /\ pc' = "reload"
  BY <1>2, LastJobDone, NoJobs DEF Persist, AbortTick
<1>5. ledger' \in {ledger, ledger \cup {Job.id}} /\ (upsets' = upsets \/ Upset)
  BY DEF Persist
<1>6. ledger' \subseteq Created' /\ known' \subseteq ledger'
  BY <1>1, <1>2, <1>3, <1>5 DEF LifeInv, TypeOK
<1>7. Created' \subseteq Ids /\ \A p \in Created' : orders'[p] \in OrderType
  BY <1>1, <1>3, TypeFacts DEF LifeInv
<1> QED BY <1>1, <1>3, <1>4, <1>5, <1>6, <1>7, PartsKept DEF LifeInv, TypeOK

LEMMA RestartKeeps == ASSUME LifeInv, Restart PROVE LifeInv'
<1>1. UNCHANGED <<orders, fresh, balance, ledger, worker, placed, misreads>> /\ Upset
  BY DEF Restart
<1>2. Shrinks /\ Created' = Created /\ AliveInv'
  BY <1>1, SameShrinks DEF LifeInv
<1>3. JobsInv' /\ pc' = "reload"
  BY NoJobs DEF Restart
<1>4. Created' \subseteq Ids /\ \A p \in Created' : orders'[p] \in OrderType
  BY <1>1, <1>2, TypeFacts DEF LifeInv
<1>5. known' = {} /\ poolKey' = worker' /\ pool' \in {worker', NoWorker}
  BY <1>1 DEF Restart
<1> QED BY <1>1, <1>2, <1>3, <1>4, <1>5, PartsKept DEF LifeInv, TypeOK

\* Steps that leave the daemon alone.
LEMMA WorldKeeps ==
    ASSUME LifeInv, UNCHANGED daemon, UNCHANGED <<ledger, placed, misreads>>,
           worker' \in Workers \cup {NoWorker}, upsets' = upsets \/ Upset,
           Shrinks, AliveInv', Created' \subseteq Ids,
           \A p \in Created' : orders'[p] \in OrderType,
           balance' \in Nat, fresh' \subseteq Created'
    PROVE  LifeInv'
<1>1. UNCHANGED <<poolKey, pool, known, jobs, pc>>
  BY DEF daemon
<1>2. JobsInv'
  BY <1>1, JobsWait DEF LifeInv
<1>3. ledger' \subseteq Created' /\ known' \subseteq ledger'
  BY <1>1 DEF Shrinks, LifeInv, TypeOK
<1>4. pc' \in {"reload", "observe", "execute", "persist"}
      /\ (pc' \in {"execute", "persist"} => jobs' # <<>>)
  BY <1>1 DEF LifeInv, TypeOK
<1> QED BY <1>1, <1>2, <1>3, <1>4, PartsKept

LEMMA LifeNext == LifeInv /\ [Next]_vars => LifeInv'
<1> SUFFICES ASSUME LifeInv, [Next]_vars PROVE LifeInv'
  OBVIOUS
<1>1. CASE Tick \/ RunNow
  BY <1>1, ReloadKeeps, ObserveStep, ExecuteKeeps, PersistKeeps DEF Tick
<1>2. CASE Restart
  BY <1>2, RestartKeeps
<1>3. ASSUME orders' = orders, balance' = balance, fresh' \subseteq fresh,
             UNCHANGED daemon, UNCHANGED <<ledger, placed, misreads>>,
             worker' \in Workers \cup {NoWorker}, upsets' = upsets \/ Upset
      PROVE  LifeInv'
  <2>1. Shrinks /\ Created' = Created /\ AliveInv'
    BY <1>3, SameShrinks DEF LifeInv
  <2>2. /\ Created' \subseteq Ids /\ \A p \in Created' : orders'[p] \in OrderType
        /\ balance' \in Nat /\ fresh' \subseteq Created'
    BY <1>3, <2>1, TypeFacts DEF LifeInv, TypeOK
  <2> QED BY <1>3, <2>1, <2>2, WorldKeeps
<1>4. CASE EditWorker
  BY <1>3, <1>4 DEF EditWorker
<1>5. CASE OperatorCreates
  <2>1. PICK o \in Ids \ Created, on \in Workers : CreateOrder(o, MinAmount, on, FALSE)
    BY <1>5 DEF OperatorCreates
  <2>2. /\ UNCHANGED daemon /\ UNCHANGED <<ledger, placed, misreads>>
        /\ worker' = worker /\ Upset
    BY <1>5 DEF OperatorCreates
  <2>3. MinAmount \in Nat /\ MinAmount > 0
    BY NumbersFacts DEF Numbers
  <2>4. /\ Created' = Created \cup {o}
        /\ orders'[o] = [live |-> TRUE, worker |-> on, escrow |-> MinAmount]
        /\ \A p \in Created : orders'[p] = orders[p]
        /\ \A p \in Created' : orders'[p] \in OrderType
        /\ Live' = Live \cup {o}
        /\ balance' \in Nat /\ Created' \subseteq Ids /\ fresh' \subseteq Created'
    <3> HIDE DEF CreateOrder, Live, OrderType
    <3> QED BY <2>1, <2>3, CreateFacts DEF LifeInv
  <2>5. Shrinks
    <3> SUFFICES ASSUME NEW p \in Created
                 PROVE  /\ p \in Created' /\ orders'[p].escrow \in Nat
                        /\ orders'[p].escrow <= orders[p].escrow
      BY DEF Shrinks
    <3>1. orders'[p] = orders[p] /\ orders[p].escrow \in Nat /\ p \in Created'
      BY <2>4, TypeFacts DEF LifeInv
    <3> QED BY <3>1
  <2>6. AliveInv'
    <3>1. orders'[o].escrow > 0
      BY <2>3, <2>4
    <3>2. \A p \in Live : orders'[p].escrow > 0
      BY <2>4 DEF LifeInv, AliveInv, Live
    <3> QED BY <2>4, <3>1, <3>2 DEF AliveInv
  <2>7. worker' \in Workers \cup {NoWorker}
    BY <2>2 DEF LifeInv, TypeOK
  <2> QED BY <2>2, <2>4, <2>5, <2>6, <2>7, WorldKeeps
<1>6. ASSUME Fades, UNCHANGED daemon, UNCHANGED <<fresh, worker, ledger, placed, misreads>>,
             upsets' = upsets \/ Upset
      PROVE  LifeInv'
  <2>1. /\ Shrinks /\ AliveInv' /\ Created' = Created
        /\ \A p \in Created' : orders'[p] \in OrderType
    BY <1>6, FadesShrinks DEF LifeInv
  <2>2. /\ Created' \subseteq Ids /\ balance' \in Nat /\ fresh' \subseteq Created'
        /\ worker' \in Workers \cup {NoWorker}
    BY <1>6, <2>1, TypeFacts DEF LifeInv, TypeOK, Fades
  <2> QED BY <1>6, <2>1, <2>2, WorldKeeps
<1>7. CASE OperatorCancels
  <2>1. PICK o \in Live : CancelOrder(o)
    BY <1>7 DEF OperatorCancels
  <2>2. o \in Created
    BY DEF Live
  <2>3. Fades
    BY <2>1, <2>2, CancelFacts DEF LifeInv
  <2> QED BY <1>6, <1>7, <2>3 DEF OperatorCancels
<1>8. CASE Drain
  <2>1. PICK o \in Live :
            orders' = [orders EXCEPT ![o].escrow = @ - 1, ![o].live = orders[o].escrow > 1]
    BY <1>8 DEF Drain
  <2>2. UNCHANGED <<fresh, balance, ledger, worker, daemon, placed, misreads, upsets>>
    BY <1>8 DEF Drain
  <2>3. Fades
    BY <2>1, <2>2, DrainFacts DEF LifeInv
  <2> QED BY <1>6, <2>2, <2>3
<1>9. CASE CatchUp
  <2>1. /\ fresh' \subseteq fresh
        /\ UNCHANGED <<orders, balance, ledger, worker, daemon, placed, misreads, upsets>>
    BY <1>9 DEF CatchUp
  <2> QED BY <1>3, <2>1 DEF LifeInv, TypeOK
<1>10. CASE UNCHANGED vars
  BY <1>3, <1>10 DEF vars, daemon, LifeInv, TypeOK
<1> QED BY <1>1, <1>2, <1>4, <1>5, <1>7, <1>8, <1>9, <1>10 DEF Next

THEOREM LifeTheorem == Spec => []LifeInv
BY LifeInit, LifeNext, PTL DEF Spec

\* With a budget set, no order of the daemon holds more than the larger of its budget and one
\* top-up above the low-escrow mark, and a top-up for every wrong reading of its escrow.
THEOREM OrdersTheorem ==
    ASSUME Budget > 0 PROVE Spec => []OrdersInv
<1>1. LifeInv => OrdersInv
  BY DEF LifeInv, OrdersInv
<1> QED BY <1>1, LifeTheorem, PTL

-----------------------------------------------------------------------------
(* The number of live orders. *)

Creating == pc = "execute" /\ Job.kind = "create"

\* Of the daemon's live orders but those in C, each of which an upset accounts for, there is
\* one at most, the daemon finds it its own (or is about to record it), and none is being
\* created beside it.
Accounts(C) ==
    LET plain == (placed \cap Live) \ C
    IN  /\ \A o, p \in plain : o = p
        /\ \A o \in plain : o \notin fresh /\ (o \in ledger \/ (pc = "persist" /\ Job.id = o))
        /\ Creating => plain = {}

DuplicatesInv ==
    /\ \E C \in SUBSET placed : Cardinality(C) <= upsets /\ Accounts(C)
    /\ pc = "observe" => known = ledger

LEMMA DuplicatesInit == Init => DuplicatesInv
<1> SUFFICES ASSUME Init PROVE DuplicatesInv
  OBVIOUS
<1>1. {} \in SUBSET placed /\ Cardinality({}) = 0 /\ placed = {} /\ upsets = 0 /\ pc = "reload"
  BY FS_EmptySet DEF Init
<1>2. Accounts({})
  BY <1>1 DEF Accounts
<1> QED BY <1>1, <1>2 DEF DuplicatesInv

\* The same orders stay accounted for while none is placed or forgotten.
LEMMA AccountsKept ==
    ASSUME TypeOK, NEW C, Accounts(C),
           placed' = placed, \A o \in placed : o \in Live' => o \in Live,
           fresh' \subseteq fresh, ledger \subseteq ledger',
           Creating' => Creating,
           pc = "persist" /\ Job.id \notin C =>
               \/ Job.id \in ledger'
               \/ pc' = "persist" /\ Job' = Job
    PROVE  Accounts(C)'
<1>1. ASSUME NEW o \in placed', o \in Live', o \notin C
      PROVE  /\ o \in (placed \cap Live) \ C /\ o \notin fresh'
             /\ o \in ledger' \/ (pc' = "persist" /\ (Job.id)' = o)
  BY <1>1 DEF Accounts
<1> QED BY <1>1 DEF Accounts

\* An upset may account for one order more.
LEMMA AccountsMore ==
    ASSUME TypeOK, NEW C \in SUBSET placed, Accounts(C), Cardinality(C) <= upsets, Upset,
           NEW o \in placed'
    PROVE  /\ Accounts(C \cup {o})
           /\ Cardinality(C \cup {o}) <= upsets'
<1>1. Accounts(C \cup {o})
  BY DEF Accounts
<1>2. IsFiniteSet(C)
  BY FS_Subset, LifecycleAssumption DEF TypeOK
<1>3. /\ Cardinality(C) \in Nat /\ upsets \in Nat
      /\ o \in C \/ Cardinality(C \cup {o}) = Cardinality(C) + 1
  BY <1>2, FS_CardinalityType, FS_AddElement, TypeFacts
<1>4. upsets' = upsets + 1
  BY DEF Upset
<1>5. CASE o \in C
  <2>1. C \cup {o} = C
    BY <1>5
  <2> QED BY <1>1, <1>3, <1>4, <2>1
<1>6. CASE o \notin C
  BY <1>1, <1>3, <1>4, <1>6
<1> QED BY <1>5, <1>6

LEMMA NoneCreated ==
    ASSUME LifeInv, jobs # <<>>, NextJob PROVE ~Creating' /\ pc' # "observe" /\ pc' # "persist"
<1>1. pc' \in {"reload", "execute"} /\ (pc' = "execute" => Tail(jobs) # <<>>) /\ jobs' = Tail(jobs)
  BY DEF NextJob
<1>2. CASE pc' = "reload"
  BY <1>2 DEF Creating
<1>3. CASE pc' = "execute"
  <2>1. jobs \in Seq(Jobs) /\ Tail(jobs) # <<>>
    BY <1>1, <1>3 DEF LifeInv, JobsInv
  <2>2. /\ Tail(jobs) \in Seq(Jobs) /\ Len(Tail(jobs)) = Len(jobs) - 1 /\ Len(jobs) \in Nat
        /\ \A i \in 1..(Len(jobs) - 1) : Tail(jobs)[i] = jobs[i + 1] /\ i + 1 \in 1..Len(jobs)
    BY <2>1, TailFacts
  <2>3. Head(Tail(jobs)) = Tail(jobs)[1] /\ Len(Tail(jobs)) > 0
    BY <2>1, <2>2, TailFacts
  <2>4. 1 \in 1..(Len(jobs) - 1) /\ Len(jobs) # 1
    BY <2>2, <2>3
  <2>5. Tail(jobs)[1] = jobs[2] /\ 2 \in 1..Len(jobs)
    BY <2>2, <2>4
  <2>6. jobs[2].kind # "create"
    BY <2>4, <2>5 DEF LifeInv, JobsInv
  <2> QED BY <1>1, <1>3, <2>3, <2>5, <2>6 DEF Creating, Job
<1> QED BY <1>1, <1>2, <1>3

\* A tick that proposes a create has found none of the daemon's orders.
LEMMA ObserveFindsNone ==
    ASSUME LifeInv, Observe, Creating' PROVE Owned = {}
<1>1. Owned \in SUBSET Ids
  BY TypeFacts DEF Owned, reconcileOrders, LifeInv
<1>2. balance \in Nat \cup {NotRead} /\ NotRead \in Nat \cup {NotRead}
  BY TypeFacts DEF LifeInv
<1>3. ASSUME NEW free \in Nat \cup {NotRead}, NEW low \in BOOLEAN,
             jobs' = decide(Owned, free, low)
      PROVE  Owned = {}
  <2> DEFINE p == decide(Owned, free, low)
  <2>1. Proposed(p, Owned, low)
    BY <1>1, DecideProposed
  <2> HIDE DEF p
  <2>2. jobs' = p /\ p \in Seq(Jobs)
    BY <1>3, <2>1 DEF p, Proposed
  <2>3. p # <<>>
    <3>1. pc' = "execute"
      BY DEF Creating
    <3>2. pc' = IF jobs' = <<>> THEN "reload" ELSE "execute"
      BY DEF Observe, ObserveFully, ObserveAs
    <3> QED BY <2>2, <3>1, <3>2
  <2>4. Head(p) = p[1] /\ 1 \in 1..Len(p)
    BY <2>2, <2>3, TailFacts
  <2>5. p[1].kind = "create"
    BY <2>2, <2>4 DEF Creating, Job
  <2> QED BY <2>1, <2>4, <2>5 DEF Proposed
<1>4. ASSUME jobs' = <<>> PROVE FALSE
  <2>1. pc' = "reload"
    BY <1>4 DEF Observe, ObserveFully, ObserveAs
  <2> QED BY <2>1 DEF Creating
<1> DEFINE low == Owned # {} /\ IsLow(Primary(Owned))
           high == Owned # {} /\ ~IsLow(Primary(Owned))
<1>5. \E free \in Nat \cup {NotRead} : jobs' = ReadProposals(free) \/ jobs' = MisreadProposals
                                       \/ jobs' = <<>>
  BY <1>2 DEF Observe, ObserveFully, ObserveAs, BlindProposals
<1>6. PICK free \in Nat \cup {NotRead} : jobs' = ReadProposals(free) \/ jobs' = MisreadProposals
  BY <1>4, <1>5
<1>7. low \in BOOLEAN /\ high \in BOOLEAN
  OBVIOUS
<1>8. \/ jobs' = <<>> \/ jobs' = decide(Owned, free, low)
      \/ jobs' = decide(Owned, balance, high)
  BY <1>6 DEF ReadProposals, MisreadProposals
<1> HIDE DEF low, high
<1> QED BY <1>2, <1>3, <1>4, <1>7, <1>8

LEMMA DuplicatesNext ==
    ASSUME LifeInv, DuplicatesInv, [Next]_vars PROVE DuplicatesInv'
<1> PICK C \in SUBSET placed : Cardinality(C) <= upsets /\ Accounts(C)
  BY DEF DuplicatesInv
<1>0. TypeOK /\ upsets \in Nat /\ placed \subseteq Created /\ fresh \subseteq Created
  BY TypeFacts DEF LifeInv, TypeOK
<1>1. ASSUME upsets' = upsets \/ Upset, placed' = placed,
             \A o \in placed : o \in Live' => o \in Live,
             fresh' \subseteq fresh, ledger \subseteq ledger', Creating' => Creating,
             pc = "persist" => \/ Job.id \in ledger'
                               \/ pc' = "persist" /\ Job' = Job,
             pc' = "observe" => known' = ledger'
      PROVE  DuplicatesInv'
  <2>1. Accounts(C)'
    BY <1>0, <1>1, AccountsKept
  <2>2. Cardinality(C) <= upsets'
    <3>1. IsFiniteSet(C)
      BY <1>0, FS_Subset, LifecycleAssumption DEF TypeOK
    <3>2. Cardinality(C) \in Nat
      BY <3>1, FS_CardinalityType
    <3> QED BY <1>0, <1>1, <3>2 DEF Upset
  <2> QED BY <1>1, <2>1, <2>2 DEF DuplicatesInv
<1>2. ASSUME pc = "persist", pc' = "reload", Upset,
             UNCHANGED <<orders, fresh, ledger, placed>>
      PROVE  DuplicatesInv'
  <2>1. Job.id \in placed
    BY <1>2 DEF LifeInv, JobsInv
  <2>2. PICK D \in SUBSET placed : D = C \cup {Job.id}
    BY <2>1
  <2>3. Accounts(D) /\ Cardinality(D) <= upsets'
    BY <1>0, <1>2, <2>1, <2>2, AccountsMore
  <2>4. Accounts(D)'
    <3>1. Live' = Live
      BY <1>2 DEF Live, Created
    <3>2. Job.id \in D /\ ~Creating'
      BY <1>2, <2>2 DEF Creating
    <3> QED BY <1>0, <1>2, <2>3, <3>1, <3>2, AccountsKept
  <2> QED BY <1>2, <2>3, <2>4 DEF DuplicatesInv
<1>3. CASE Reload \/ RunNow
  <2>1. /\ UNCHANGED <<orders, fresh, ledger, placed>> /\ pc = "reload" /\ pc' = "observe"
        /\ known' = ledger /\ (upsets' = upsets \/ Upset)
    BY <1>3 DEF Reload, RunNow, applyLiveSettings
  <2>2. Live' = Live /\ ~Creating'
    BY <2>1 DEF Live, Created, Creating
  <2> QED BY <1>1, <2>1, <2>2
<1>4. CASE Observe
  <2>1. /\ UNCHANGED <<orders, fresh, ledger, known, placed>> /\ pc = "observe"
        /\ pc' \in {"reload", "execute"} /\ (upsets' = upsets \/ Upset)
    BY <1>4 DEF Observe, ObserveFully, ObserveAs
  <2>2. Live' = Live
    BY <2>1 DEF Live, Created
  <2>3. CASE ~Creating'
    BY <1>1, <2>1, <2>2, <2>3
  <2>4. CASE Creating'
    <3>1. Owned = {}
      BY <1>4, <2>4, ObserveFindsNone
    <3>2. known = ledger
      BY <2>1 DEF DuplicatesInv
    <3>3. (placed \cap Live) \ C = {}
      <4> SUFFICES ASSUME NEW o \in (placed \cap Live) \ C PROVE FALSE
        OBVIOUS
      <4>1. o \notin fresh /\ o \in ledger
        BY <2>1 DEF Accounts
      <4>2. o \in Owned
        BY <3>2, <4>1 DEF Owned, reconcileOrders, Live
      <4> QED BY <3>1, <4>2
    <3>4. Accounts(C)'
      BY <2>1, <2>2, <3>3 DEF Accounts
    <3>5. IsFiniteSet(C)
      BY <1>0, FS_Subset, LifecycleAssumption DEF TypeOK
    <3>6. Cardinality(C) \in Nat
      BY <3>5, FS_CardinalityType
    <3>7. Cardinality(C) <= upsets'
      BY <1>0, <2>1, <3>6 DEF Upset
    <3> QED BY <2>1, <3>4, <3>7 DEF DuplicatesInv
  <2> QED BY <2>3, <2>4
<1>5. CASE Execute
  <2>1. pc = "execute" /\ UNCHANGED <<ledger, known>> /\ jobs # <<>>
    BY <1>5 DEF Execute, LifeInv, TypeOK
  <2>2. ASSUME placed' = placed, \A o \in placed : o \in Live' => o \in Live, fresh' = fresh,
               \/ NextJob /\ (upsets' = upsets \/ Upset)
               \/ Upset /\ AbortTick
        PROVE  DuplicatesInv'
    <3>1. ~Creating' /\ pc' # "observe"
      BY <2>1, <2>2, NoneCreated DEF AbortTick, Creating
    <3> QED BY <1>1, <2>1, <2>2, <3>1
  <2>3. ASSUME orders' = orders, placed' = placed, fresh' = fresh, NextJob,
               upsets' = upsets \/ Upset
        PROVE  DuplicatesInv'
    <3>1. Live' = Live
      BY <2>3 DEF Live, Created
    <3> QED BY <2>2, <2>3, <3>1
  <2>4. CASE ExecuteFailed
    BY <2>3, <2>4 DEF ExecuteFailed
  <2>5. CASE Job.kind = "create" /\ ~ExecuteFailed
    <3>1. (placed \cap Live) \ C = {}
      BY <2>1, <2>5 DEF Accounts, Creating
    <3>2. CASE NextJob /\ UNCHANGED <<orders, fresh, balance, placed, upsets>>
      BY <2>3, <3>2
    <3>3. ASSUME NEW o \in Ids \ Created, ExecuteCreate(o) \/ ExecuteCreateUpset(o)
          PROVE  DuplicatesInv'
      <4>1. PICK lag \in BOOLEAN : CreateOrder(o, Job.amount, pool, lag)
        BY <3>3 DEF ExecuteCreate, ExecuteCreateUpset
      <4>2. /\ Job.amount \in Nat /\ Job.amount > 0 /\ pool \in Workers
            /\ Job = jobs[1] /\ Len(jobs) = 1
        BY <2>1, <2>5, JobFacts, JobShape, NumbersFacts DEF Fits, Numbers
      <4>3. Live' = Live \cup {o}
        <5> HIDE DEF CreateOrder, Live, OrderType
        <5>1. /\ Created' = Created \cup {o}
              /\ orders'[o] = [live |-> TRUE, worker |-> pool, escrow |-> Job.amount]
              /\ \A p \in Created : orders'[p] = orders[p]
              /\ \A p \in Created' : orders'[p] \in OrderType
              /\ Live' = Live \cup {o}
              /\ balance' \in Nat /\ Created' \subseteq Ids
              /\ fresh' \subseteq Created' /\ fresh \subseteq Created'
          BY <1>0, <3>3, <4>1, <4>2, CreateFacts
        <5> QED BY <5>1
      <4>4. placed' = placed \cup {o} /\ ~Creating' /\ pc' # "observe"
        BY <2>1, <3>3, NoneCreated DEF ExecuteCreate, ExecuteCreateUpset, Creating
      <4>5. CASE ExecuteCreate(o)
        <5>1. fresh' = fresh /\ pc' = "persist" /\ jobs' = [jobs EXCEPT ![1].id = o]
              /\ upsets' = upsets
          BY <4>5 DEF ExecuteCreate, CreateOrder
        <5>2. (Job.id)' = o
          <6>1. JobsInv'
            BY LifeNext, <1>0 DEF LifeInv
          <6>2. jobs' \in Seq(Jobs) /\ jobs' # <<>>
            <7>1. Len(<<>>) = 0 /\ Len(jobs') = 1
              BY <5>1, <6>1 DEF JobsInv
            <7> QED BY <6>1, <7>1 DEF JobsInv
          <6>3. Job' = jobs'[1]
            BY <6>2, TailFacts DEF Job
          <6>4. jobs \in Seq(Jobs) /\ 1 \in 1..Len(jobs) /\ Job \in Jobs
            BY <2>1, <4>2, JobFacts DEF LifeInv, JobsInv
          <6>5. jobs'[1] = [Job EXCEPT !.id = o]
            <7> HIDE DEF Jobs
            <7> QED BY <4>2, <5>1, <6>4
          <6>6. [Job EXCEPT !.id = o].id = o
            BY <6>4 DEF Jobs
          <6> QED BY <6>3, <6>5, <6>6
        <5>3. (placed' \cap Live') \ C = {o} /\ o \notin fresh'
          BY <1>0, <3>1, <3>3, <4>3, <4>4, <5>1
        <5>4. Accounts(C)'
          BY <4>4, <5>1, <5>2, <5>3 DEF Accounts
        <5> QED BY <4>4, <5>1, <5>4 DEF DuplicatesInv
      <4>6. CASE ExecuteCreateUpset(o)
        <5>1. PICK D \in SUBSET placed' : D = C \cup {o}
          BY <4>4
        <5>2. Upset
          BY <4>6 DEF ExecuteCreateUpset
        <5>3. Cardinality(D) <= upsets'
          BY <1>0, <4>4, <5>1, <5>2, AccountsMore
        <5>4. (placed' \cap Live') \ D = {}
          BY <3>1, <4>3, <4>4, <5>1
        <5>5. Accounts(D)'
          BY <5>4 DEF Accounts
        <5> QED BY <4>4, <5>3, <5>5 DEF DuplicatesInv
      <4> QED BY <3>3, <4>5, <4>6
    <3> HIDE DEF ExecuteCreate, ExecuteCreateUpset, ExecuteFailed, NextJob
    <3> QED BY <1>5, <2>5, <3>2, <3>3 DEF Execute
  <2>6. CASE Job.kind = "cancel" /\ ~ExecuteFailed
    <3>1. ExecuteCancel
      BY <1>5, <2>6 DEF Execute
    <3>2. Job.id \in Created
      BY <2>1, <2>6, JobFacts DEF Fits
    <3>3. Fades
      BY <3>1, <3>2, CancelFacts DEF ExecuteCancel, LifeInv
    <3>4. \A o \in placed : o \in Live' => o \in Live
      BY <3>3 DEF Fades, Live
    <3> QED BY <2>2, <3>1, <3>4 DEF ExecuteCancel
  <2>7. CASE Job.kind = "refill" /\ ~ExecuteFailed
    <3>1. ExecuteRefill
      BY <1>5, <2>7 DEF Execute
    <3>2. Job.id \in Created
      BY <2>1, <2>7, JobFacts DEF Fits
    <3>3. \A o \in placed : o \in Live' => o \in Live
      <4>1. \A o \in Created : o \in Created' /\ orders'[o].live = orders[o].live
        <5>1. CASE orders' = orders
          BY <5>1 DEF Created
        <5>2. CASE orders' = [orders EXCEPT ![Job.id].escrow = @ + Job.amount]
          <6>1. Created' = Created /\ \A o \in Created \ {Job.id} : orders'[o] = orders[o]
            BY <5>2 DEF Created
          <6>2. orders[Job.id] \in OrderType
            BY <1>0, <3>2, TypeFacts
          <6>3. orders'[Job.id].live = orders[Job.id].live
            BY <3>2, <5>2, <6>2 DEF Created, OrderType
          <6> QED BY <6>1, <6>3
        <5> QED BY <3>1, <5>1, <5>2 DEF ExecuteRefill, RefillOrder
      <4>2. placed \subseteq Created
        BY <1>0
      <4> QED BY <4>1, <4>2 DEF Live
    <3> QED BY <2>2, <3>1, <3>3 DEF ExecuteRefill
  <2>8. Job.kind \in {"create", "cancel", "refill"}
    BY <2>1, JobFacts, JobShape
  <2> QED BY <2>4, <2>5, <2>6, <2>7, <2>8
<1>6. CASE Persist
  <2>1. pc = "persist" /\ UNCHANGED <<orders, fresh, known, placed>> /\ jobs # <<>>
    BY <1>6 DEF Persist, LifeInv, TypeOK
  <2>2. CASE Upset /\ AbortTick /\ UNCHANGED ledger
    BY <1>2, <2>1, <2>2 DEF AbortTick
  <2>3. CASE ledger' = ledger \cup {Job.id} /\ NextJob /\ UNCHANGED upsets
    <3>1. ~Creating' /\ pc' # "observe"
      BY <2>1, <2>3, NoneCreated
    <3>2. Live' = Live
      BY <2>1 DEF Live, Created
    <3> QED BY <1>1, <2>1, <2>3, <3>1, <3>2
  <2> QED BY <1>6, <2>2, <2>3 DEF Persist
<1>7. CASE Restart
  <2>1. /\ Upset /\ pc' = "reload" /\ UNCHANGED <<orders, fresh, ledger, placed>>
    BY <1>7 DEF Restart
  <2>2. CASE pc = "persist"
    BY <1>2, <2>1, <2>2
  <2>3. CASE pc # "persist"
    <3>1. Live' = Live /\ ~Creating'
      BY <2>1 DEF Live, Created, Creating
    <3> QED BY <1>1, <2>1, <2>3, <3>1
  <2> QED BY <2>2, <2>3
<1>8. ASSUME UNCHANGED daemon, UNCHANGED <<ledger, placed>>, fresh' \subseteq fresh,
             upsets' = upsets \/ Upset, \A o \in placed : o \in Live' => o \in Live
      PROVE  DuplicatesInv'
  <2>1. pc' = pc /\ Job' = Job /\ known' = known /\ (Creating' => Creating)
    BY <1>8 DEF daemon, Job, Creating
  <2> QED BY <1>1, <1>8, <2>1 DEF DuplicatesInv
<1>9. CASE EditWorker \/ CatchUp \/ UNCHANGED vars
  <2>1. /\ UNCHANGED daemon /\ UNCHANGED <<ledger, placed, orders>> /\ fresh' \subseteq fresh
        /\ upsets' = upsets \/ Upset
    BY <1>9 DEF EditWorker, CatchUp, vars, daemon
  <2>2. Live' = Live
    BY <2>1 DEF Live, Created
  <2> QED BY <1>8, <2>1, <2>2
<1>10. CASE OperatorCreates
  <2>1. PICK o \in Ids \ Created, on \in Workers : CreateOrder(o, MinAmount, on, FALSE)
    BY <1>10 DEF OperatorCreates
  <2>2. MinAmount \in Nat /\ MinAmount > 0
    BY NumbersFacts DEF Numbers
  <2>3. Live' = Live \cup {o}
    <3> HIDE DEF CreateOrder, Live
    <3> QED BY <1>0, <2>1, <2>2, CreateFacts
  <2>4. fresh' = fresh
    BY <2>1 DEF CreateOrder
  <2> QED BY <1>0, <1>8, <1>10, <2>1, <2>3, <2>4 DEF OperatorCreates
<1>11. CASE OperatorCancels \/ Drain
  <2>1. Fades
    <3>1. CASE OperatorCancels
      BY <1>0, <3>1, CancelFacts DEF OperatorCancels, LifeInv, Live
    <3>2. CASE Drain
      BY <1>0, <3>2, DrainFacts DEF Drain, LifeInv
    <3> QED BY <1>11, <3>1, <3>2
  <2>2. \A o \in placed : o \in Live' => o \in Live
    BY <2>1 DEF Fades, Live
  <2> QED BY <1>8, <1>11, <2>2 DEF OperatorCancels, Drain
<1> QED BY <1>3, <1>4, <1>5, <1>6, <1>7, <1>9, <1>10, <1>11 DEF Next, Tick

\* Lost answers, crashes, lags, edits and orders placed by hand may each leave the daemon with
\* one live order more than the one it keeps, and nothing else may.
THEOREM DuplicatesTheorem == Spec => []DuplicatesNeedUpset
<1>1. LifeInv /\ DuplicatesInv => DuplicatesNeedUpset
  <2> SUFFICES ASSUME LifeInv, DuplicatesInv PROVE Cardinality(placed \cap Live) <= 1 + upsets
    BY DEF DuplicatesNeedUpset
  <2>1. PICK C \in SUBSET placed : Cardinality(C) <= upsets /\ Accounts(C)
    BY DEF DuplicatesInv
  <2> DEFINE plain == (placed \cap Live) \ C
  <2>2. IsFiniteSet(placed) /\ upsets \in Nat
    <3>1. placed \subseteq Ids /\ upsets \in Nat
      BY TypeFacts DEF LifeInv, TypeOK
    <3> QED BY <3>1, FS_Subset, LifecycleAssumption
  <2>3. IsFiniteSet(C) /\ IsFiniteSet(placed \cap Live)
    BY <2>2, FS_Subset
  <2>4. Cardinality(C) \in Nat /\ Cardinality(placed \cap Live) \in Nat
    BY <2>3, FS_CardinalityType
  <2>5. CASE plain = {}
    <3>1. placed \cap Live \subseteq C
      BY <2>5
    <3>2. Cardinality(placed \cap Live) <= Cardinality(C)
      BY <2>3, <3>1, FS_Subset
    <3> QED BY <2>1, <2>2, <2>4, <3>2
  <2>6. CASE plain # {}
    <3>1. PICK o \in plain : TRUE
      BY <2>6
    <3>2. placed \cap Live \subseteq C \cup {o}
      BY <2>1, <3>1 DEF Accounts
    <3>3. /\ IsFiniteSet(C \cup {o}) /\ Cardinality(C \cup {o}) = Cardinality(C) + 1
      BY <2>3, <3>1, FS_AddElement
    <3>4. Cardinality(placed \cap Live) <= Cardinality(C \cup {o})
      BY <3>2, <3>3, FS_Subset
    <3> QED BY <2>1, <2>2, <2>4, <3>3, <3>4
  <2> QED BY <2>5, <2>6
<1>2. LifeInv /\ DuplicatesInv /\ [Next]_vars => LifeInv' /\ DuplicatesInv'
  BY LifeNext, DuplicatesNext
<1>3. Init => LifeInv /\ DuplicatesInv
  BY LifeInit, DuplicatesInit
<1> QED BY <1>1, <1>2, <1>3, PTL DEF Spec
=============================================================================
