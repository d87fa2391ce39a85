---------------------------- MODULE ServicesProofs ----------------------------
(***************************************************************************)
(* Proofs about the services around the two controllers, each by an        *)
(* invariant of its own: the calls to NiceHash, the walk through its order *)
(* book, the loop that drives the ticks and the Dynamic DNS updater.       *)
(***************************************************************************)
EXTENDS NiceHashCall, OrderBookWalk, TickLoop, DynamicDns, RunModes, FiniteSetTheorems, TLAPS

-----------------------------------------------------------------------------
(* NiceHashCall: a call that mutates takes effect once at most and its refusal *)
(* is final, for any number of attempts: it implements SingleEffect.         *)

Definite == {"refused", "limited", "auth"}

\* A mutation is tried again only when the exchange has not touched the order and holds
\* no request of it any more.
OnceInv ==
    /\ callPc \in {"send", "wait", "asleep", "returned", "threw"}
    /\ request \in {"held", "applied"}
    /\ stray \in {0, 1} /\ applied \in {0, 1}
    /\ callPc \in {"send", "asleep"} => stray = 0 /\ applied = 0
    /\ callPc = "wait" => stray = 0 /\ (applied = 1 <=> request = "applied")
    /\ callPc = "returned" => stray = 0 /\ applied = 1
    /\ callPc = "threw" /\ error \in Definite => stray = 0 /\ applied = 0
    /\ callPc = "threw" => (stray = 0 \/ applied = 0)

LEMMA OnceInit == CallInit => OnceInv
BY DEF CallInit, OnceInv

LEMMA OnceNext ==
    ASSUME Class = "mutate"
    PROVE  OnceInv /\ [CallNext]_callVars => OnceInv'
<1> SUFFICES ASSUME OnceInv, [CallNext]_callVars PROVE OnceInv'
  OBVIOUS
<1> USE DEF OnceInv, Definite
<1>1. CASE Attempt
  BY <1>1 DEF Attempt
<1>2. CASE Unauthorized
  BY <1>2 DEF Unauthorized
<1>3. CASE Retry
  BY <1>3 DEF Retry
<1>4. CASE CarryOut
  BY <1>4 DEF CarryOut
<1>5. CASE StrayEnds
  BY <1>5 DEF StrayEnds
<1>6. CASE Succeeds
  BY <1>6 DEF Succeeds
<1>7. CASE Refuses
  BY <1>7 DEF Refuses, Fails, IsTransient
<1>8. CASE Breaks
  BY <1>8 DEF Breaks, Fails, IsTransient
<1>9. CASE BodyLost
  BY <1>9 DEF BodyLost, Fails, IsTransient
<1>10. CASE UNCHANGED callVars
  BY <1>10 DEF callVars
<1> QED
  BY <1>1, <1>2, <1>3, <1>4, <1>5, <1>6, <1>7, <1>8, <1>9, <1>10 DEF CallNext

\* Every step of a mutating call is one of the promise, or changes nothing it speaks of.
LEMMA OnceStep ==
    ASSUME Class = "mutate", OnceInv, [CallNext]_callVars
    PROVE  [Once!TakeEffect \/ Once!End]_(Once!vars)
<1> USE DEF Once!vars, Outcome
<1>1. CASE Attempt
  BY <1>1 DEF Attempt
<1>2. CASE Unauthorized
  BY <1>2 DEF Unauthorized, OnceInv, Once!End
<1>3. CASE Retry
  BY <1>3 DEF Retry
<1>4. CASE CarryOut
  BY <1>4 DEF CarryOut, OnceInv, Once!TakeEffect
<1>5. CASE StrayEnds
  BY <1>5 DEF StrayEnds, OnceInv, Definite, Once!TakeEffect
<1>6. CASE Succeeds
  BY <1>6 DEF Succeeds, OnceInv, Once!End
<1>7. CASE Refuses
  BY <1>7 DEF Refuses, Fails, IsTransient, OnceInv, Once!End
<1>8. CASE Breaks
  BY <1>8 DEF Breaks, Fails, IsTransient, OnceInv, Once!End
<1>9. CASE BodyLost
  BY <1>9 DEF BodyLost, Fails, IsTransient, OnceInv, Once!End
<1>10. CASE UNCHANGED callVars
  BY <1>10 DEF callVars
<1> QED
  BY <1>1, <1>2, <1>3, <1>4, <1>5, <1>6, <1>7, <1>8, <1>9, <1>10 DEF CallNext

\* client.ts: "a 5xx or dropped connection on a create/update/refill may have committed
\* server-side, so we surface it rather than risk a double-apply": a create, an edit or a
\* refill is applied once at most, however it is retried, and one that failed with an error of
\* NiceHash's below 500 was not applied and will not be.
THEOREM MutationOnce ==
    ASSUME Class = "mutate"
    PROVE  CallSpec => Once!Spec
<1>1. CallInit => Once!Init
  BY DEF CallInit, Once!Init, Outcome
<1>2. OnceInv /\ [CallNext]_callVars => [Once!TakeEffect \/ Once!End]_(Once!vars)
  BY OnceStep
<1> QED BY <1>1, <1>2, OnceInit, OnceNext, PTL DEF CallSpec, Once!Spec

CountInv ==
    /\ attempt \in Nat
    /\ callPc \in {"send", "wait", "asleep", "returned", "threw"}
    /\ attempt <= MaxRetries
    /\ callPc \in {"send", "asleep"} => attempt < MaxRetries

\* "Max attempts for retryable failures": no call, of whatever class, makes more.
THEOREM AttemptsBounded ==
    ASSUME MaxRetries \in Nat \ {0}
    PROVE  CallSpec => [](attempt <= MaxRetries)
<1>1. CallInit => CountInv
  BY DEF CallInit, CountInv
<1>2. CountInv /\ [CallNext]_callVars => CountInv'
  BY DEF CountInv, CallNext, callVars, Attempt, Unauthorized, Retry, CarryOut, StrayEnds,
         Succeeds, Refuses,
     Breaks, BodyLost, Fails
<1>3. CountInv => attempt <= MaxRetries
  BY DEF CountInv
<1> QED BY <1>1, <1>2, <1>3, PTL DEF CallSpec

-----------------------------------------------------------------------------
(* OrderBookWalk: a walk through the order book has every order, for books,  *)
(* pages and orders of any number.                                           *)

\* The bounds the code fixes.
Bounds == PageSize \in Nat \ {0} /\ MaxPages \in Nat

WalkTyped ==
    /\ listing \in Seq(Ids)
    /\ \A i, j \in 1..Len(listing) : listing[i] = listing[j] => i = j
    /\ page \in Nat /\ came \in Nat
    /\ crowded \in BOOLEAN /\ left \in BOOLEAN

\* While nothing but few arrivals disturbs the walk: what it has not read of the book it began
\* with lies behind the pages it has read, and what it has read was pushed back by the arrivals
\* at most.
WalkInv ==
    walkPc = "reading" /\ ~left /\ ~crowded =>
        /\ came < PageSize
        /\ start \subseteq Range(listing) /\ merged \subseteq Range(listing)
        /\ \A i \in 1..Len(listing) :
               listing[i] \in start \ merged => page * PageSize < i
        /\ \A i \in 1..Len(listing) :
               listing[i] \in merged => i <= page * PageSize + came

BookInv == WalkTyped /\ WalkInv /\ Whole

-----------------------------------------------------------------------------

LEMMA ConcatFacts ==
    ASSUME NEW s \in Seq(Ids), NEW t \in Seq(Ids)
    PROVE  /\ s \o t \in Seq(Ids) /\ Len(s \o t) = Len(s) + Len(t)
           /\ \A i \in 1..(Len(s) + Len(t)) :
                 (s \o t)[i] = IF i <= Len(s) THEN s[i] ELSE t[i - Len(s)]
OBVIOUS

\* An order that comes pushes those behind it back by one.
LEMMA InsertFacts ==
    ASSUME NEW s \in Seq(Ids), NEW k \in 1..Len(s) + 1, NEW o \in Ids
    PROVE  LET t == InsertAt(s, k, o)
           IN  /\ t \in Seq(Ids) /\ Len(t) = Len(s) + 1
               /\ \A i \in 1..Len(t) :
                     t[i] = IF i < k THEN s[i] ELSE IF i = k THEN o ELSE s[i - 1]
<1> DEFINE front == SubSeq(s, 1, k - 1)
           back == SubSeq(s, k, Len(s))
           half == front \o <<o>>
           t == InsertAt(s, k, o)
<1>1. /\ front \in Seq(Ids) /\ Len(front) = k - 1
      /\ \A i \in 1..(k - 1) : front[i] = s[i]
  OBVIOUS
<1>2. /\ back \in Seq(Ids) /\ Len(back) = Len(s) - k + 1
      /\ \A i \in 1..(Len(s) - k + 1) : back[i] = s[k + i - 1]
  OBVIOUS
<1> HIDE DEF front, back
<1>3. /\ half \in Seq(Ids) /\ Len(half) = k
      /\ \A i \in 1..k : half[i] = IF i < k THEN s[i] ELSE o
  BY <1>1
<1>4. t = half \o back
  BY DEF InsertAt, front, back
<1> HIDE DEF half
<1>5. /\ t \in Seq(Ids) /\ Len(t) = Len(s) + 1
      /\ \A i \in 1..Len(t) : t[i] = IF i <= k THEN half[i] ELSE back[i - k]
  <2>1. /\ half \o back \in Seq(Ids) /\ Len(half \o back) = Len(half) + Len(back)
        /\ \A i \in 1..(Len(half) + Len(back)) :
              (half \o back)[i] = IF i <= Len(half) THEN half[i] ELSE back[i - Len(half)]
    BY <1>2, <1>3, ConcatFacts
  <2>2. Len(half) + Len(back) = Len(s) + 1 /\ Len(half) = k
    BY <1>2, <1>3
  <2> HIDE DEF t
  <2> QED BY <1>4, <2>1, <2>2
<1> HIDE DEF t
<1>6. ASSUME NEW i \in 1..Len(t)
      PROVE  t[i] = IF i < k THEN s[i] ELSE IF i = k THEN o ELSE s[i - 1]
  <2>1. CASE i <= k
    BY <1>3, <1>5, <2>1
  <2>2. CASE i > k
    <3>1. i - k \in 1..(Len(s) - k + 1) /\ k + (i - k) - 1 = i - 1
      BY <1>5, <2>2
    <3> QED BY <1>2, <1>5, <2>2, <3>1
  <2> QED BY <2>1, <2>2
<1> QED BY <1>5, <1>6 DEF t

LEMMA RemoveFacts ==
    ASSUME NEW s \in Seq(Ids), NEW k \in 1..Len(s)
    PROVE  LET t == RemoveAt(s, k)
           IN  /\ t \in Seq(Ids) /\ Len(t) = Len(s) - 1
               /\ \A i \in 1..Len(t) : t[i] = IF i < k THEN s[i] ELSE s[i + 1]
<1> DEFINE front == SubSeq(s, 1, k - 1)
           back == SubSeq(s, k + 1, Len(s))
           t == RemoveAt(s, k)
<1>1. /\ front \in Seq(Ids) /\ Len(front) = k - 1
      /\ \A i \in 1..(k - 1) : front[i] = s[i]
  OBVIOUS
<1>2. /\ back \in Seq(Ids) /\ Len(back) = Len(s) - k
      /\ \A i \in 1..(Len(s) - k) : back[i] = s[k + i]
  OBVIOUS
<1> HIDE DEF front, back
<1>3. t = front \o back
  BY DEF RemoveAt, front, back
<1>4. /\ t \in Seq(Ids) /\ Len(t) = Len(s) - 1
      /\ \A i \in 1..Len(t) : t[i] = IF i <= k - 1 THEN front[i] ELSE back[i - (k - 1)]
  <2>1. /\ front \o back \in Seq(Ids) /\ Len(front \o back) = Len(front) + Len(back)
        /\ \A i \in 1..(Len(front) + Len(back)) :
              (front \o back)[i] = IF i <= Len(front) THEN front[i] ELSE back[i - Len(front)]
    BY <1>1, <1>2, ConcatFacts
  <2>2. Len(front) + Len(back) = Len(s) - 1 /\ Len(front) = k - 1
    BY <1>1, <1>2
  <2> HIDE DEF t
  <2> QED BY <1>3, <2>1, <2>2
<1> HIDE DEF t
<1>5. ASSUME NEW i \in 1..Len(t) PROVE t[i] = IF i < k THEN s[i] ELSE s[i + 1]
  <2>1. CASE i < k
    BY <1>1, <1>4, <2>1
  <2>2. CASE i >= k
    <3>1. i - (k - 1) \in 1..(Len(s) - k) /\ k + (i - (k - 1)) = i + 1
      BY <1>4, <2>2
    <3> QED BY <1>2, <1>4, <2>2, <3>1
  <2> QED BY <2>1, <2>2
<1> QED BY <1>4, <1>5 DEF t

LEMMA SeqRange ==
    ASSUME NEW s \in Seq(Ids)
    PROVE  /\ \A i \in 1..Len(s) : s[i] \in Range(s)
           /\ \A x \in Range(s) : \E i \in 1..Len(s) : x = s[i]
BY DEF Range

LEMMA WalkStarts == Bounds /\ WalkInit => BookInv
<1> SUFFICES ASSUME Bounds, WalkInit PROVE BookInv
  OBVIOUS
<1>1. WalkTyped
  <2>1. listing \in Seq(Ids) /\ \A i, j \in 1..Len(listing) : listing[i] = listing[j] => i = j
    BY DEF WalkInit, Books
  <2> QED BY <2>1 DEF WalkInit, WalkTyped
<1>2. WalkInv /\ Whole
  BY DEF WalkInit, WalkInv, Whole
<1> QED BY <1>1, <1>2 DEF BookInv

LEMMA WalkSteps == Bounds /\ BookInv /\ [WalkNext]_walkVars => BookInv'
<1> SUFFICES ASSUME Bounds, BookInv, [WalkNext]_walkVars PROVE BookInv'
  OBVIOUS
<1>0. WalkTyped /\ WalkInv /\ Whole
  BY DEF BookInv
<1>1. CASE Begin
  <2>1. WalkTyped'
    BY <1>0, <1>1 DEF Begin, WalkTyped
  <2>2. WalkInv'
    BY <1>0, <1>1 DEF Begin, WalkTyped, WalkInv, Bounds
  <2> QED BY <1>1, <2>1, <2>2 DEF BookInv, Whole, Begin
<1>2. CASE ReadPage
  <2>1. /\ listing' = listing /\ start' = start /\ crowded' = crowded /\ left' = left
        /\ merged' = merged \cup Shown(page) /\ page' = page + 1 /\ came' = 0
        /\ walkPc = "reading"
    BY <1>2 DEF ReadPage
  <2>2. WalkTyped'
    BY <1>0, <2>1 DEF WalkTyped
  <2>3. /\ (page + 1) * PageSize = page * PageSize + PageSize
        /\ page * PageSize \in Nat /\ PageSize \in Nat \ {0}
    BY <1>0 DEF WalkTyped, Bounds
  <2> DEFINE from == page * PageSize
  <2>4. \A i \in 1..Len(listing) : from < i /\ i <= from + PageSize => listing[i] \in Shown(page)
    BY <2>3 DEF Shown
  <2>5. \A x \in Shown(page) : \E i \in 1..Len(listing) :
             x = listing[i] /\ from < i /\ i <= from + PageSize
    BY <2>3 DEF Shown
  <2> HIDE DEF from
  <2>6. from \in Nat /\ (page + 1) * PageSize = from + PageSize
    BY <2>3 DEF from
  <2>7. ASSUME ~left, ~crowded
        PROVE  /\ came < PageSize /\ came \in Nat /\ listing \in Seq(Ids)
               /\ start \subseteq Range(listing) /\ merged \subseteq Range(listing)
               /\ \A i \in 1..Len(listing) : listing[i] \in start \ merged => from < i
               /\ \A i \in 1..Len(listing) : listing[i] \in merged => i <= from + came
    BY <1>0, <2>1, <2>7 DEF WalkInv, WalkTyped, from
  <2>8. WalkInv'
    <3> SUFFICES ASSUME ~left, ~crowded
                 PROVE  /\ came' < PageSize
                        /\ start \subseteq Range(listing) /\ merged' \subseteq Range(listing)
                        /\ \A i \in 1..Len(listing) :
                               listing[i] \in start \ merged' => from + PageSize < i
                        /\ \A i \in 1..Len(listing) :
                               listing[i] \in merged' => i <= from + PageSize + came'
      BY <2>1, <2>6 DEF WalkInv
    <3>1. merged' \subseteq Range(listing)
      BY <2>1, <2>5, <2>7, SeqRange
    <3>2. ASSUME NEW i \in 1..Len(listing), listing[i] \in start \ merged'
          PROVE  from + PageSize < i
      BY <2>1, <2>3, <2>4, <2>6, <2>7, <3>2
    <3>3. ASSUME NEW i \in 1..Len(listing), listing[i] \in merged'
          PROVE  i <= from + PageSize + came'
      <4>1. CASE listing[i] \in merged
        BY <2>1, <2>3, <2>6, <2>7, <4>1
      <4>2. CASE listing[i] \in Shown(page)
        <5>1. PICK j \in 1..Len(listing) : listing[i] = listing[j] /\ j <= from + PageSize
          BY <2>5, <4>2
        <5>2. i = j
          BY <1>0, <5>1 DEF WalkTyped
        <5> QED BY <2>1, <2>3, <2>6, <5>1, <5>2
      <4> QED BY <2>1, <3>3, <4>1, <4>2
    <3> QED BY <2>1, <2>3, <2>7, <3>1, <3>2, <3>3
  <2>9. Whole'
    <3> SUFFICES ASSUME walkPc' = "done", page' < MaxPages, ~left, ~crowded
                 PROVE  start \subseteq merged'
      BY <2>1 DEF Whole
    <3>1. MustEnd(page) \/ CountedLast(page)
      BY <1>2, <2>1 DEF ReadPage
    <3>2. Len(listing) <= from + PageSize
      <4>1. CASE Shown(page) \subseteq merged
        <5> SUFFICES ASSUME Len(listing) > from + PageSize PROVE FALSE
          BY <2>3, <2>6, <2>7
        <5>1. from + PageSize \in 1..Len(listing)
          BY <2>3, <2>6, <2>7
        <5>2. listing[from + PageSize] \in merged
          BY <2>3, <2>4, <2>6, <4>1, <5>1
        <5>3. from + PageSize <= from + came
          BY <2>7, <5>1, <5>2
        <5> QED BY <2>3, <2>6, <2>7, <5>3
      <4>2. CASE ~(Shown(page) \subseteq merged)
        BY <1>0, <2>1, <2>3, <2>6, <2>7, <3>1, <4>2 DEF MustEnd, CountedLast, Bounds, WalkTyped
      <4> QED BY <4>1, <4>2
    <3>3. ASSUME NEW x \in start, x \notin merged' PROVE FALSE
      <4>1. PICK i \in 1..Len(listing) : x = listing[i]
        BY <2>7, <3>3, SeqRange
      <4>2. from < i /\ i <= from + PageSize
        BY <2>1, <2>3, <2>6, <2>7, <3>2, <3>3, <4>1
      <4> QED BY <2>1, <2>4, <3>3, <4>1, <4>2
    <3> QED BY <3>3
  <2> QED BY <2>2, <2>8, <2>9 DEF BookInv
<1>3. CASE ReadFails
  BY <1>0, <1>3 DEF ReadFails, bookkeeping, BookInv, WalkTyped, WalkInv, Whole
<1>4. ASSUME NEW k \in 1..Len(listing) + 1, NEW o \in Ids, Come(k, o) PROVE BookInv'
  <2>1. /\ o \notin Range(listing)
        /\ UNCHANGED <<walkPc, page, merged, start, left>>
        /\ walkPc = "reading" => came' = came + 1 /\ crowded' = (crowded \/ came + 1 >= PageSize)
        /\ walkPc # "reading" => came' = came /\ crowded' = crowded
    BY <1>4 DEF Come
  <2>2. /\ listing' \in Seq(Ids) /\ Len(listing') = Len(listing) + 1
        /\ \A i \in 1..Len(listing') :
              listing'[i] = IF i < k THEN listing[i] ELSE IF i = k THEN o ELSE listing[i - 1]
    <3>1. listing \in Seq(Ids) /\ listing' = InsertAt(listing, k, o)
      BY <1>0, <1>4 DEF Come, WalkTyped
    <3>2. /\ InsertAt(listing, k, o) \in Seq(Ids)
          /\ Len(InsertAt(listing, k, o)) = Len(listing) + 1
          /\ \A i \in 1..Len(InsertAt(listing, k, o)) :
                InsertAt(listing, k, o)[i] =
                   IF i < k THEN listing[i] ELSE IF i = k THEN o ELSE listing[i - 1]
      BY <3>1, InsertFacts
    <3> QED BY <3>1, <3>2
  <2>3. listing \in Seq(Ids) /\ Len(listing) \in Nat
    BY <1>0 DEF WalkTyped
  \* Where the order at a place comes from.
  <2>4. ASSUME NEW i \in 1..Len(listing'), listing'[i] # o
        PROVE  \E j \in 1..Len(listing) :
                  listing'[i] = listing[j] /\ (i = j \/ i = j + 1) /\ (i = IF j < k THEN j ELSE j + 1)
    <3>1. CASE i < k
      BY <2>2, <2>3, <3>1
    <3>2. CASE i > k
      <4>1. i - 1 \in 1..Len(listing) /\ listing'[i] = listing[i - 1] /\ i = (i - 1) + 1
            /\ ~(i - 1 < k)
        BY <2>2, <2>3, <3>2
      <4> QED BY <4>1
    <3>3. i # k
      BY <2>2, <2>4
    <3> QED BY <2>2, <2>3, <3>1, <3>2, <3>3
  <2>5. \A j \in 1..Len(listing) : listing[j] # o
    BY <2>1, <2>3, SeqRange
  <2>6. ASSUME NEW i \in 1..Len(listing'), NEW j \in 1..Len(listing'), listing'[i] = listing'[j]
        PROVE  i = j
    <3>1. CASE listing'[i] = o
      <4>1. \A m \in 1..Len(listing') : listing'[m] = o => m = k
        <5> TAKE m \in 1..Len(listing')
        <5>1. CASE m < k
          BY <2>2, <2>3, <2>5, <5>1
        <5>2. CASE m > k
          <6>1. m - 1 \in 1..Len(listing)
            BY <2>2, <2>3, <5>2
          <6> QED BY <2>2, <2>5, <5>2, <6>1
        <5> QED BY <5>1, <5>2
      <4> QED BY <2>6, <3>1, <4>1
    <3>2. CASE listing'[i] # o
      <4>1. PICK a \in 1..Len(listing) : listing'[i] = listing[a] /\ (i = IF a < k THEN a ELSE a + 1)
        BY <2>4, <3>2
      <4>2. PICK b \in 1..Len(listing) : listing'[j] = listing[b] /\ (j = IF b < k THEN b ELSE b + 1)
        BY <2>4, <2>6, <3>2
      <4>3. a = b
        BY <1>0, <2>6, <4>1, <4>2 DEF WalkTyped
      <4> QED BY <4>1, <4>2, <4>3
    <3> QED BY <3>1, <3>2
  <2>7. WalkTyped'
    <3>1. crowded' \in BOOLEAN
      BY <1>0, <2>1 DEF WalkTyped
    <3>2. came' \in Nat
      BY <1>0, <2>1 DEF WalkTyped
    <3> QED BY <1>0, <2>1, <2>2, <2>6, <3>1, <3>2 DEF WalkTyped
  <2>8. Range(listing) \subseteq Range(listing')
    <3>1. ASSUME NEW j \in 1..Len(listing) PROVE listing[j] \in Range(listing')
      <4>1. CASE j < k
        <5>1. j \in 1..Len(listing') /\ listing'[j] = listing[j]
          BY <2>2, <2>3, <4>1
        <5> QED BY <2>2, <5>1, SeqRange
      <4>2. CASE j >= k
        <5>1. j + 1 \in 1..Len(listing') /\ listing'[j + 1] = listing[j]
          BY <2>2, <2>3, <4>2
        <5> QED BY <2>2, <5>1, SeqRange
      <4> QED BY <4>1, <4>2
    <3> QED BY <2>3, <3>1, SeqRange
  <2>9. WalkInv'
    <3> SUFFICES ASSUME walkPc = "reading", ~left, ~crowded'
                 PROVE  /\ came' < PageSize
                        /\ start \subseteq Range(listing') /\ merged \subseteq Range(listing')
                        /\ \A i \in 1..Len(listing') :
                               listing'[i] \in start \ merged => page * PageSize < i
                        /\ \A i \in 1..Len(listing') :
                               listing'[i] \in merged => i <= page * PageSize + came'
      BY <2>1 DEF WalkInv
    <3>0. came' = came + 1 /\ ~crowded /\ ~(came + 1 >= PageSize)
      BY <2>1
    <3>1. ~crowded /\ came' = came + 1 /\ came' < PageSize
      <4>1. came \in Nat /\ PageSize \in Nat
        BY <1>0 DEF WalkTyped, Bounds
      <4> QED BY <3>0, <4>1
    <3> DEFINE from == page * PageSize
    <3>2. /\ start \subseteq Range(listing) /\ merged \subseteq Range(listing)
          /\ \A i \in 1..Len(listing) : listing[i] \in start \ merged => from < i
          /\ \A i \in 1..Len(listing) : listing[i] \in merged => i <= from + came
      BY <1>0, <2>1, <3>1 DEF WalkInv
    <3>3. from \in Nat /\ came \in Nat
      BY <1>0 DEF WalkTyped, Bounds
    <3> HIDE DEF from
    <3>4. ASSUME NEW i \in 1..Len(listing'), listing'[i] \in start \cup merged
          PROVE  \E j \in 1..Len(listing) : listing'[i] = listing[j] /\ (i = j \/ i = j + 1)
      <4>1. listing'[i] # o
        BY <2>1, <3>2, <3>4
      <4> QED BY <2>4, <4>1
    <3>5. ASSUME NEW i \in 1..Len(listing'), listing'[i] \in start \ merged PROVE from < i
      BY <3>2, <3>3, <3>4, <3>5
    <3>6. ASSUME NEW i \in 1..Len(listing'), listing'[i] \in merged PROVE i <= from + came'
      BY <3>1, <3>2, <3>3, <3>4, <3>6
    <3> QED BY <2>8, <3>1, <3>2, <3>5, <3>6 DEF from
  <2>10. Whole'
    BY <1>0, <2>1 DEF Whole
  <2> QED BY <2>7, <2>9, <2>10 DEF BookInv
<1>5. ASSUME NEW k \in 1..Len(listing), Leave(k) PROVE BookInv'
  <2>1. /\ UNCHANGED <<walkPc, page, merged, start, came, crowded>>
        /\ left' = (left \/ walkPc = "reading")
    BY <1>5 DEF Leave
  <2>2. /\ listing' \in Seq(Ids) /\ Len(listing') = Len(listing) - 1
        /\ \A i \in 1..Len(listing') : listing'[i] = IF i < k THEN listing[i] ELSE listing[i + 1]
    BY <1>0, <1>5, RemoveFacts DEF Leave, WalkTyped
  <2>3. Len(listing) \in Nat
    BY <1>0 DEF WalkTyped
  <2>4. ASSUME NEW i \in 1..Len(listing'), NEW j \in 1..Len(listing'), listing'[i] = listing'[j]
        PROVE  i = j
    <3> DEFINE old(m) == IF m < k THEN m ELSE m + 1
    <3>1. \A m \in 1..Len(listing') : old(m) \in 1..Len(listing) /\ listing'[m] = listing[old(m)]
      BY <2>2, <2>3
    <3>2. old(i) = old(j)
      BY <1>0, <2>4, <3>1 DEF WalkTyped
    <3> QED BY <3>2
  <2>5. WalkTyped'
    BY <1>0, <2>1, <2>2, <2>4 DEF WalkTyped
  <2>6. WalkInv'
    BY <2>1 DEF WalkInv
  <2>7. Whole'
    BY <1>0, <2>1 DEF Whole, WalkTyped
  <2> QED BY <2>5, <2>6, <2>7 DEF BookInv
<1>6. CASE UNCHANGED walkVars
  BY <1>0, <1>6 DEF walkVars, bookkeeping, BookInv, WalkTyped, WalkInv, Whole
<1> QED BY <1>1, <1>2, <1>3, <1>4, <1>5, <1>6 DEF WalkNext

\* "Fetch the whole order book so the marginal can be found reliably": true of every walk that
\* ends before its cap, while no order leaves or moves and arrivals stay below a page.
THEOREM WholeBook ==
    ASSUME PageSize \in Nat \ {0}, MaxPages \in Nat
    PROVE  WalkSpec => []Whole
<1>1. Bounds
  BY DEF Bounds
<1>2. BookInv => Whole
  BY DEF BookInv
<1> QED BY <1>1, <1>2, WalkStarts, WalkSteps, PTL DEF WalkSpec

-----------------------------------------------------------------------------
(* TickLoop: its ticks do not overlap, and the shutdown closes the database  *)
(* under none of them, however long anything takes.                          *)

\* inFlight is pending exactly while a tick of the loop runs; from stop() on none
\* begins, and none is pending once the shutdown has gone past it.
LoopInv ==
    /\ asked \in Nat
    /\ running = IF inFlight = "pending" THEN 1 ELSE 0
    /\ phase \in {"loop", "http", "database"} => stopping
    /\ phase \in {"http", "database", "exited"} => inFlight # "pending"
    /\ phase = "database" => asked = 0 \/ httpFailed

LEMMA LoopInvInit == LoopInit => LoopInv
BY DEF LoopInit, LoopInv

\* A step of the loop itself.
LEMMA LoopSteps ==
    ASSUME LoopInv, Start \/ Interval \/ TickEnds \/ Release
    PROVE  LoopInv'
<1>1. CASE Start
  BY <1>1 DEF LoopInv, Start, RunOnce, http, ending, telegram
<1>2. CASE Interval
  BY <1>2 DEF LoopInv, Interval, RunOnce, Alive, http, ending, telegram
<1>3. CASE TickEnds
  BY <1>3 DEF LoopInv, TickEnds, http, ending, telegram
<1>4. CASE Release
  BY <1>4 DEF LoopInv, Release, http, ending, telegram
<1> QED BY <1>1, <1>2, <1>3, <1>4

\* A step of the shutdown.
LEMMA ShutdownSteps ==
    ASSUME LoopInv,
           Signal \/ StopLoop \/ LoopStopped \/ HttpStopped \/ Exit \/ ForcedExit
    PROVE  LoopInv'
<1>1. CASE Signal
  BY <1>1 DEF LoopInv, Signal, loop, http, telegram
<1>2. CASE StopLoop
  BY <1>2 DEF LoopInv, StopLoop, http, telegram
<1>3. CASE LoopStopped
  BY <1>3 DEF LoopInv, LoopStopped, loop, http, telegram
<1>4. CASE HttpStopped
  BY <1>4 DEF LoopInv, HttpStopped, loop, telegram
<1>5. CASE Exit \/ ForcedExit
  <2>1. /\ phase' = "exited" /\ inFlight' = "null"
        /\ running' = 0 /\ asked' = 0
    BY <1>5 DEF Exit, ForcedExit, Exits
  <2> QED BY <2>1 DEF LoopInv
<1> QED BY <1>1, <1>2, <1>3, <1>4, <1>5

\* A step of the receiver, the dashboard or the clock.
LEMMA OtherSteps ==
    ASSUME LoopInv,
           \/ Receive \/ PollAnswered \/ PollFails \/ Wake
           \/ Ask \/ AskedEnds \/ Second
    PROVE  LoopInv'
<1>1. CASE Receive \/ PollAnswered \/ PollFails \/ Wake
  BY <1>1 DEF LoopInv, Receive, PollAnswered, PollFails, Wake, loop, ending, http
<1>2. CASE Ask
  BY <1>2 DEF LoopInv, Ask, loop, ending
<1>3. CASE AskedEnds
  BY <1>3 DEF LoopInv, AskedEnds, loop, ending
<1>4. CASE Second
  BY <1>4 DEF LoopInv, Second, loop, http
<1> QED BY <1>1, <1>2, <1>3, <1>4

\* Every step keeps the invariant.
LEMMA LoopInvNext == LoopInv /\ [LoopNext]_loopVars => LoopInv'
<1> SUFFICES ASSUME LoopInv, [LoopNext]_loopVars PROVE LoopInv'
  OBVIOUS
<1>1. CASE Start \/ Interval \/ TickEnds \/ Release
  BY <1>1, LoopSteps
<1>2. CASE Signal \/ StopLoop \/ LoopStopped \/ HttpStopped \/ Exit \/ ForcedExit
  BY <1>2, ShutdownSteps
<1>3. CASE \/ Receive \/ PollAnswered \/ PollFails \/ Wake
           \/ Ask \/ AskedEnds \/ Second
  BY <1>3, OtherSteps
<1>4. CASE UNCHANGED loopVars
  BY <1>4 DEF LoopInv, loopVars, loop, ending, http
<1> QED BY <1>1, <1>2, <1>3, <1>4 DEF LoopNext

\* Two ticks of the loop never run at the same time.
THEOREM OverlapFree == LoopSpec => []NoOverlap
<1>1. LoopInv => NoOverlap
  BY DEF LoopInv, NoOverlap
<1> QED BY <1>1, LoopInvInit, LoopInvNext, PTL DEF LoopSpec

\* When stop() has resolved no tick of the loop runs or ever begins, and the database is
\* closed under no tick at all, unless the HTTP server could not be stopped.
THEOREM Flushed == LoopSpec => []FlushedBeforeClose
<1>1. LoopInv => FlushedBeforeClose
  BY DEF LoopInv, FlushedBeforeClose
<1> QED BY <1>1, LoopInvInit, LoopInvNext, PTL DEF LoopSpec

-----------------------------------------------------------------------------
(* DynamicDns: the snapshot of the updater is honest, for any number of      *)
(* hostnames, addresses and disturbances.                                    *)

\* What is known of a request in flight: one that has flown alone has met no other, and
\* once it is applied nothing has touched the record since.
PushOk(by) ==
    Flying(by) =>
        /\ pushes[by].host \in Hosts
        /\ pushes[by].pc = "done" => pushes[by].ip \in IPs
        /\ pushes[by].alone => \A c \in Callers : c # by => ~Flying(c)
        /\ pushes[by].alone /\ pushes[by].pc = "done"
              => records[pushes[by].host] = pushes[by].ip

PushInv == \A by \in Callers : PushOk(by)

\* What the last lone push left at the provider is there, or an applied request is on its
\* way back whose answer takes the claim with it.
ClaimInv ==
    claim # None => \/ records[claim] = snapshot.ip
                    \/ \E by \in Callers : pushes[by].pc = "done"

DnsInv == TypeOK /\ PushInv /\ ClaimInv

Pushes == [pc : {"idle", "sent", "done"}, host : Hosts \cup {None},
             ip : IPs \cup {None}, alone : BOOLEAN]
Snapshots == [ip : IPs \cup {None}, recent : BOOLEAN, ok : BOOLEAN]

\* The requests after a step are as they may be, and none that was applied is lost.
Kept ==
    /\ pushes' \in [Callers -> Pushes]
    /\ PushInv'
    /\ \A c \in Callers : pushes[c].pc = "done" => pushes'[c].pc = "done"

-----------------------------------------------------------------------------
(* Sending. *)

\* A request that leaves takes the others' claim to have flown alone.
LEMMA Sent ==
    ASSUME DnsInv, records' = records,
           NEW by \in Callers, ~Flying(by),
           NEW host \in Hosts, NEW ip \in IPs \cup {None}, Send(by, host, ip)
    PROVE  Kept
<1> DEFINE lone == \A c \in Callers : ~Flying(c)
<1>1. /\ pushes \in [Callers -> Pushes] /\ lone \in BOOLEAN
  BY DEF DnsInv, TypeOK, Pushes
<1>2. pushes' = [c \in Callers |->
                  IF c = by
                  THEN [pc |-> "sent", host |-> host, ip |-> ip, alone |-> lone]
                  ELSE [pushes[c] EXCEPT !.alone = @ /\ ~Flying(c)]]
  BY DEF Send
<1>3. pushes'[by] = [pc |-> "sent", host |-> host, ip |-> ip, alone |-> lone]
  BY <1>2
<1>4. ASSUME NEW c \in Callers, c # by
      PROVE  /\ pushes'[c] \in Pushes
             /\ pushes'[c].pc = pushes[c].pc
             /\ pushes'[c].host = pushes[c].host
             /\ pushes'[c].ip = pushes[c].ip
             /\ Flying(c) => ~pushes'[c].alone
  <2>1. pushes[c] \in Pushes
    BY <1>1
  <2>2. pushes'[c] = [pushes[c] EXCEPT !.alone = @ /\ ~Flying(c)]
    BY <1>2, <1>4
  <2> QED BY <2>1, <2>2 DEF Pushes
<1>5. pushes'[by] \in Pushes
  BY <1>1, <1>3 DEF Pushes
<1>6. pushes' \in [Callers -> Pushes]
  <2>1. \A c \in Callers : pushes'[c] \in Pushes
    BY <1>4, <1>5
  <2> QED BY <1>2, <2>1
<1>7. \A c \in Callers : pushes[c].pc = "done" => pushes'[c].pc = "done"
  BY <1>4 DEF Flying
<1>8. PushOk(by)'
  <2>1. pushes'[by].alone => \A c \in Callers : c # by => pushes'[c].pc = "idle"
    BY <1>3, <1>4 DEF Flying
  <2> QED BY <1>3, <2>1 DEF PushOk, Flying
<1>9. ASSUME NEW c \in Callers, c # by PROVE PushOk(c)'
  BY <1>4, <1>9 DEF DnsInv, PushInv, PushOk, Flying
<1> QED BY <1>6, <1>7, <1>8, <1>9 DEF Kept, PushInv

\* tick() sends at most, and touches no more of the snapshot than its error.
LEMMA Consulted ==
    ASSUME DnsInv, records' = records,
           NEW by \in Callers, ~Flying(by),
           NEW host \in Hosts \cup {None}, NEW ip \in IPs \cup {None},
           Consult(by, host, ip)
    PROVE  Kept /\ snapshot' \in Snapshots /\ snapshot'.ip = snapshot.ip
<1>1. /\ pushes \in [Callers -> Pushes] /\ snapshot \in Snapshots
  BY DEF DnsInv, TypeOK, Pushes, Snapshots
<1>2. ASSUME UNCHANGED pushes PROVE Kept
  <2>1. PushInv'
    BY <1>2 DEF DnsInv, PushInv, PushOk, Flying
  <2> QED BY <1>1, <1>2, <2>1 DEF Kept
<1>3. ASSUME host # None, Send(by, host, ip) PROVE Kept
  <2>1. host \in Hosts /\ Send(by, host, ip)
    BY <1>3
  <2> QED BY <2>1, Sent
<1>4. snapshot' = snapshot \/ snapshot' = [snapshot EXCEPT !.ok = FALSE]
  BY DEF Consult
<1>5. snapshot' \in Snapshots /\ snapshot'.ip = snapshot.ip
  BY <1>1, <1>4 DEF Snapshots
<1> QED BY <1>2, <1>3, <1>5 DEF Consult

\* Nothing that keeps the record, the claim and the address of the snapshot breaks the
\* claim, as long as no applied request is lost.
LEMMA ClaimKept ==
    ASSUME ClaimInv, Kept, records' = records, claim' = claim,
           snapshot'.ip = snapshot.ip
    PROVE  ClaimInv'
BY DEF ClaimInv, Kept

-----------------------------------------------------------------------------
(* Every action keeps the invariant. *)

LEMMA InitOk == Init => DnsInv
<1> SUFFICES ASSUME Init PROVE DnsInv
  OBVIOUS
<1>1. pushes = [c \in Callers |-> Idle] /\ claim = None
  BY DEF Init
<1>2. Idle \in Pushes
  BY DEF Idle, Pushes
<1>3. pushes \in [Callers -> Pushes]
  BY <1>1, <1>2
<1>4. snapshot \in Snapshots
  BY DEF Init, NoSnapshot, Snapshots
<1>5. TypeOK
  BY <1>3, <1>4, DdnsAssumption DEF Init, TypeOK, Pushes, Snapshots
<1>6. PushInv
  BY <1>1 DEF PushInv, PushOk, Flying, Idle
<1> QED BY <1>1, <1>5, <1>6 DEF DnsInv, ClaimInv

\* What the sending actions have in common.
LEMMA SendSteps ==
    ASSUME DnsInv, Kept, records' = records, claim' = claim, wan' = wan, tick' = tick,
           snapshot' \in Snapshots, snapshot'.ip = snapshot.ip,
           cached' \in IPs \cup {None},
           setting' \in Hosts \cup {None}, held' \in Hosts \cup {None},
           upsets' \in 0..MaxUpsets
    PROVE  DnsInv'
<1>1. TypeOK'
  BY DEF DnsInv, TypeOK, Kept, Pushes, Snapshots
<1>2. ClaimInv'
  BY ClaimKept DEF DnsInv
<1> QED BY <1>1, <1>2 DEF DnsInv, Kept

LEMMA TimerOk == DnsInv /\ Timer => DnsInv'
<1> SUFFICES ASSUME DnsInv, Timer PROVE DnsInv'
  OBVIOUS
<1>1. TypeOK
  BY DEF DnsInv
<1>2. Kept /\ snapshot' \in Snapshots /\ snapshot'.ip = snapshot.ip
  <2>1. held \in Hosts \cup {None} /\ cached \in IPs \cup {None}
    BY <1>1 DEF TypeOK
  <2>2. /\ "timer" \in Callers /\ ~Flying("timer") /\ records' = records
        /\ Consult("timer", held, cached)
    BY DEF Timer, Callers
  <2> QED BY <2>1, <2>2, Consulted
<1> QED BY <1>1, <1>2, SendSteps DEF Timer, TypeOK

LEMMA RefreshOk == DnsInv /\ Refresh => DnsInv'
<1> SUFFICES ASSUME DnsInv, Refresh PROVE DnsInv'
  OBVIOUS
<1>1. TypeOK
  BY DEF DnsInv
<1>2. Kept /\ snapshot' \in Snapshots /\ snapshot'.ip = snapshot.ip
  <2>1. held \in Hosts \cup {None} /\ wan \in IPs \cup {None}
    BY <1>1 DEF TypeOK
  <2>2. "ip" \in Callers /\ ~Flying("ip") /\ records' = records
    BY DEF Refresh, Callers
  <2>3. CASE cached = None
    <3>1. UNCHANGED <<snapshot, pushes>>
      BY <2>3 DEF Refresh
    <3>2. PushInv'
      BY <2>2, <3>1 DEF DnsInv, PushInv, PushOk, Flying
    <3> QED BY <1>1, <3>1, <3>2 DEF Kept, TypeOK, Pushes, Snapshots
  <2>4. CASE cached # None
    <3>1. Consult("ip", held, wan)
      BY <2>4 DEF Refresh
    <3> QED BY <2>1, <2>2, <3>1, Consulted
  <2> QED BY <2>3, <2>4
<1> QED BY <1>1, <1>2, SendSteps DEF Refresh, TypeOK

LEMMA SaveConfigOk ==
    ASSUME DnsInv, NEW h \in Hosts \cup {None}, SaveConfig(h) PROVE DnsInv'
<1>1. TypeOK
  BY DEF DnsInv
<1>2. Kept /\ snapshot' \in Snapshots /\ snapshot'.ip = snapshot.ip
  <2>1. cached \in IPs \cup {None}
    BY <1>1 DEF TypeOK
  <2>2. /\ "save" \in Callers /\ ~Flying("save") /\ records' = records
        /\ Consult("save", h, cached)
    BY DEF SaveConfig, Callers
  <2> QED BY <2>1, <2>2, Consulted
<1>3. upsets' \in 0..MaxUpsets
  BY <1>1, DdnsAssumption DEF SaveConfig, Upset, TypeOK
<1> QED BY <1>1, <1>2, <1>3, SendSteps DEF SaveConfig, TypeOK

LEMMA TestOk == ASSUME DnsInv, NEW h \in Hosts, Test(h) PROVE DnsInv'
<1>1. TypeOK
  BY DEF DnsInv
<1>2. Kept
  <2>1. /\ "test" \in Callers /\ ~Flying("test") /\ records' = records
        /\ None \in IPs \cup {None} /\ Send("test", h, None)
    BY DEF Test, Callers
  <2> QED BY <2>1, Sent
<1>3. upsets' \in 0..MaxUpsets
  BY <1>1, DdnsAssumption DEF Test, Upset, TypeOK
<1> QED BY <1>1, <1>2, <1>3, SendSteps DEF Test, TypeOK, Snapshots

LEMMA ApplyOk == ASSUME DnsInv, NEW by \in Callers, Apply(by) PROVE DnsInv'
<1> DEFINE ip == IF pushes[by].ip = None THEN wan ELSE pushes[by].ip
<1>1. /\ pushes \in [Callers -> Pushes] /\ pushes[by] \in Pushes
      /\ ip \in IPs /\ pushes[by].host \in Hosts
  BY DEF DnsInv, TypeOK, PushInv, PushOk, Apply, Flying, Pushes
<1>2. /\ records' = [records EXCEPT ![pushes[by].host] = ip]
      /\ pushes' = [pushes EXCEPT ![by].pc = "done", ![by].ip = ip]
  BY DEF Apply
<1>3. pushes'[by] \in Pushes
  BY <1>1, <1>2 DEF Pushes
<1>4. pushes' \in [Callers -> Pushes]
  BY <1>1, <1>2, <1>3 DEF Pushes
<1>5. /\ pushes'[by].pc = "done" /\ pushes'[by].ip = ip
      /\ pushes'[by].host = pushes[by].host
      /\ pushes'[by].alone = pushes[by].alone
      /\ \A c \in Callers : c # by => pushes'[c] = pushes[c]
  BY <1>1, <1>2 DEF Pushes
<1>6. TypeOK'
  <2>1. records' \in [Hosts -> IPs \cup {None}]
    BY <1>1, <1>2 DEF DnsInv, TypeOK
  <2> QED BY <1>4, <2>1 DEF DnsInv, TypeOK, Apply, Pushes
<1>7. PushOk(by)'
  <2>1. pushes[by].alone => \A c \in Callers : c # by => ~Flying(c)
    BY DEF DnsInv, PushInv, PushOk, Apply, Flying
  <2>2. records'[pushes[by].host] = ip
    BY <1>1, <1>2 DEF DnsInv, TypeOK
  <2> QED BY <1>1, <1>5, <2>1, <2>2 DEF PushOk, Flying
<1>8. ASSUME NEW c \in Callers, c # by PROVE PushOk(c)'
  <2>1. Flying(by) /\ Flying(by)'
    BY <1>5 DEF Apply, Flying
  <2>2. Flying(c) => ~pushes[c].alone
    BY <1>8, <2>1 DEF DnsInv, PushInv, PushOk
  <2> QED BY <1>5, <1>8, <2>2 DEF DnsInv, PushInv, PushOk, Flying
<1>9. ClaimInv'
  BY <1>5 DEF ClaimInv
<1> QED BY <1>6, <1>7, <1>8, <1>9 DEF DnsInv, PushInv

\* A request that is over leaves the others as they are.
LEMMA Returned ==
    ASSUME DnsInv, records' = records, NEW by \in Callers,
           pushes' = [pushes EXCEPT ![by] = Idle]
    PROVE  /\ pushes' \in [Callers -> Pushes]
           /\ PushInv'
           /\ \A c \in Callers : c # by => pushes'[c] = pushes[c]
<1>1. pushes \in [Callers -> Pushes] /\ Idle \in Pushes
  BY DEF DnsInv, TypeOK, Idle, Pushes
<1>2. /\ pushes' \in [Callers -> Pushes]
      /\ pushes'[by] = Idle
      /\ \A c \in Callers : c # by => pushes'[c] = pushes[c]
  BY <1>1
<1>3. ~Flying(by)'
  BY <1>2 DEF Flying, Idle
<1>4. PushOk(by)'
  BY <1>3 DEF PushOk
<1>5. ASSUME NEW c \in Callers, c # by PROVE PushOk(c)'
  BY <1>2, <1>3, <1>5 DEF DnsInv, PushInv, PushOk, Flying
<1> QED BY <1>2, <1>4, <1>5 DEF PushInv

LEMMA LandOk == ASSUME DnsInv, NEW by \in Callers, Land(by) PROVE DnsInv'
<1>1. /\ pushes[by] \in Pushes /\ pushes[by].pc = "done" /\ Flying(by)
      /\ pushes[by].host \in Hosts /\ pushes[by].ip \in IPs
      /\ pushes[by].alone => records[pushes[by].host] = pushes[by].ip
  BY DEF DnsInv, TypeOK, PushInv, PushOk, Land, Flying, Pushes
<1>2. pushes' \in [Callers -> Pushes] /\ PushInv'
  BY Returned DEF Land
<1>3. /\ snapshot' \in Snapshots /\ claim' \in Hosts \cup {None}
      /\ claim' # None => records'[claim'] = snapshot'.ip
  <2>1. CASE /\ snapshot' = Accepted(pushes[by].ip)
             /\ claim' = IF pushes[by].alone THEN pushes[by].host ELSE None
    BY <1>1, <2>1 DEF Land, Accepted, Snapshots
  <2>2. CASE cached # None /\ snapshot' = Accepted(cached) /\ claim' = None
    BY <2>2 DEF DnsInv, TypeOK, Accepted, Snapshots
  <2>3. CASE claim' = None /\ UNCHANGED snapshot
    BY <2>3 DEF DnsInv, TypeOK, Snapshots
  <2> QED BY <2>1, <2>2, <2>3 DEF Land
<1>4. TypeOK'
  BY <1>2, <1>3 DEF DnsInv, TypeOK, Land, Pushes, Snapshots
<1> QED BY <1>2, <1>3, <1>4 DEF DnsInv, ClaimInv

LEMMA FailOk == ASSUME DnsInv, NEW by \in Callers, Fail(by) PROVE DnsInv'
<1>1. /\ pushes' \in [Callers -> Pushes] /\ PushInv'
      /\ \A c \in Callers : c # by => pushes'[c] = pushes[c]
  BY Returned DEF Fail
<1>2. snapshot' \in Snapshots /\ snapshot'.ip = snapshot.ip
  BY DEF DnsInv, TypeOK, Fail, Failed, Snapshots
<1>3. TypeOK'
  <2>1. upsets' \in 0..MaxUpsets
    BY DdnsAssumption DEF DnsInv, TypeOK, Fail, Upset
  <2> QED BY <1>1, <1>2, <2>1 DEF DnsInv, TypeOK, Fail, Pushes, Snapshots
<1>4. ClaimInv'
  <2>1. CASE pushes[by].pc = "done"
    BY <2>1 DEF Fail, ClaimInv
  <2>2. CASE pushes[by].pc # "done"
    BY <1>1, <1>2, <2>2 DEF DnsInv, ClaimInv, Fail
  <2> QED BY <2>1, <2>2
<1> QED BY <1>1, <1>3, <1>4 DEF DnsInv

\* The clock, the provider's rotation and the controller's tick touch no request.
LEMMA WorldOk ==
    ASSUME DnsInv, Expire \/ Rotate \/ StartTick \/ EndTick PROVE DnsInv'
<1>1. UNCHANGED <<records, pushes, claim>>
  BY DEF Expire, Rotate, StartTick, EndTick
<1>2. snapshot' \in Snapshots /\ snapshot'.ip = snapshot.ip
  BY DEF DnsInv, TypeOK, Expire, Rotate, StartTick, EndTick, Snapshots
<1>3. PushInv'
  BY <1>1 DEF DnsInv, PushInv, PushOk, Flying
<1>4. ClaimInv'
  BY <1>1, <1>2 DEF DnsInv, ClaimInv
<1>5. TypeOK'
  <2>1. CASE Expire
    BY <1>1, <1>2, <2>1 DEF DnsInv, TypeOK, Expire, Snapshots
  <2>2. CASE Rotate
    BY <1>1, <2>2, DdnsAssumption DEF DnsInv, TypeOK, Rotate, Upset
  <2>3. CASE StartTick
    BY <1>1, <2>3 DEF DnsInv, TypeOK, StartTick
  <2>4. CASE EndTick
    BY <1>1, <2>4 DEF DnsInv, TypeOK, EndTick
  <2> QED BY <2>1, <2>2, <2>3, <2>4
<1> QED BY <1>3, <1>4, <1>5 DEF DnsInv

LEMMA RestartOk == DnsInv /\ Restart => DnsInv'
<1> SUFFICES ASSUME DnsInv, Restart PROVE DnsInv'
  OBVIOUS
<1>1. pushes' = [c \in Callers |-> Idle] /\ claim' = None
  BY DEF Restart
<1>2. pushes' \in [Callers -> Pushes]
  BY <1>1 DEF Idle, Pushes
<1>3. snapshot' \in Snapshots
  BY DEF Restart, NoSnapshot, Snapshots
<1>4. upsets' \in 0..MaxUpsets
  BY DdnsAssumption DEF DnsInv, TypeOK, Restart, Upset
<1>5. TypeOK'
  BY <1>1, <1>2, <1>3, <1>4 DEF DnsInv, TypeOK, Restart, Pushes, Snapshots
<1>6. PushInv'
  BY <1>1 DEF PushInv, PushOk, Flying, Idle
<1> QED BY <1>1, <1>5, <1>6 DEF DnsInv, ClaimInv

LEMMA NextOk == DnsInv /\ [Next]_vars => DnsInv'
<1> SUFFICES ASSUME DnsInv, [Next]_vars PROVE DnsInv'
  OBVIOUS
<1>1. CASE Timer \/ Refresh
  BY <1>1, TimerOk, RefreshOk
<1>2. CASE \E h \in Hosts \cup {None} : SaveConfig(h)
  BY <1>2, SaveConfigOk
<1>3. CASE \E h \in Hosts : Test(h)
  BY <1>3, TestOk
<1>4. CASE \E by \in Callers : Apply(by) \/ Land(by) \/ Fail(by)
  BY <1>4, ApplyOk, LandOk, FailOk
<1>5. CASE Expire \/ Rotate \/ StartTick \/ EndTick
  BY <1>5, WorldOk
<1>6. CASE Restart
  BY <1>6, RestartOk
<1>7. CASE UNCHANGED vars
  BY <1>7 DEF vars, DnsInv, TypeOK, PushInv, PushOk, ClaimInv, Flying
<1> QED BY <1>1, <1>2, <1>3, <1>4, <1>5, <1>6, <1>7 DEF Next

\* The last successful push that the dashboard shows is what the provider has, for any
\* number of hostnames, addresses, edits, overlaps, failures and restarts.
THEOREM HonestTheorem == Spec => []SnapshotHonest
<1>1. DnsInv => SnapshotHonest
  <2> SUFFICES ASSUME DnsInv, \A by \in Callers : ~Flying(by), snapshot.ok, claim # None
               PROVE  records[claim] = snapshot.ip
    BY DEF DnsInv, SnapshotHonest
  <2>1. \A by \in Callers : pushes[by].pc # "done"
    BY DEF Flying
  <2> QED BY <2>1 DEF DnsInv, ClaimInv
<1> QED BY <1>1, InitOk, NextOk, PTL DEF Spec

-----------------------------------------------------------------------------
(* RunModes: two ticks never overlap; and the run mode in memory and the saved   *)
(* one follow the operator's choice, for requests in any number and order: what  *)
(* a choice is excused from is that it crossed another request or was not saved. *)

USE RunModesAssumption

LEMMA BootModesAreNames == BootModes \subseteq {"DRY_RUN", "RESUME", "LIVE"}
  OBVIOUS

\* A boot always chooses a run mode.
LEMMA BootChoosesMode ==
    ASSUME NEW s \in Settings PROVE resolveBootRunMode(s) \in Modes
  BY DEF Settings, Modes, resolveBootRunMode

-----------------------------------------------------------------------------
(* Types. *)

\* What a request holds at each of its awaits.
LEMMA RequestHolds ==
    ASSUME ModesTypeOK, NEW q \in Requests
    PROVE  /\ requests[q].at = "getMode" => requests[q].asked \in Modes
           /\ requests[q].at = "getConfig" => requests[q].boot \in BootModes
           /\ requests[q].at \in {"putMode", "putConfig", "apply"}
                => requests[q].write \in Settings
  BY DEF ModesTypeOK, NoRequest, ModeRequest, ConfigRequest

LEMMA InitType == ModesInit => ModesTypeOK
<1> SUFFICES ASSUME ModesInit PROVE ModesTypeOK
    OBVIOUS
<1>1. mode \in Modes /\ wanted \in Modes
    BY BootChoosesMode DEF ModesInit
<1> QED
    BY <1>1 DEF ModesInit, ModesTypeOK

LEMMA RestartType == ModesTypeOK /\ Reboot => ModesTypeOK'
<1> SUFFICES ASSUME ModesTypeOK, Reboot PROVE ModesTypeOK'
    OBVIOUS
<1>1. stored \in Settings /\ stored' = stored
    BY DEF ModesTypeOK, Reboot
<1>2. resolveBootRunMode(stored) \in Modes
    BY <1>1, BootChoosesMode
<1> QED
    BY <1>1, <1>2 DEF Reboot, Boot, ModesTypeOK

\* A step that turns one request into another leaves the requests well typed.
LEMMA RequestTurns ==
    ASSUME ModesTypeOK, NEW q \in Requests,
           NEW r \in {NoRequest} \cup ModeRequest \cup ConfigRequest,
           requests' = [requests EXCEPT ![q] = r]
    PROVE  requests' \in [Requests -> {NoRequest} \cup ModeRequest \cup ConfigRequest]
<1> DEFINE Kinds == {NoRequest} \cup ModeRequest \cup ConfigRequest
<1>1. requests \in [Requests -> Kinds] /\ r \in Kinds
    BY DEF ModesTypeOK
<1> HIDE DEF Kinds
<1>2. requests' \in [Requests -> Kinds]
    BY <1>1
<1> QED
    BY <1>2 DEF Kinds

LEMMA AskType ==
    ASSUME ModesTypeOK, NEW q \in Requests,
           \/ \E m \in Modes : AskMode(q, m)
           \/ \E b \in BootModes : AskConfig(q, b)
    PROVE  ModesTypeOK'
<1>1. ASSUME NEW m \in Modes, AskMode(q, m) PROVE ModesTypeOK'
    <2>1. [at |-> "getMode", asked |-> m] \in ModeRequest
        BY DEF ModeRequest
    <2>2. crossed' \in BOOLEAN
        BY <1>1 DEF AskMode
    <2> QED
        BY <1>1, <2>1, <2>2, RequestTurns DEF AskMode, ModesTypeOK, ticks
<1>2. ASSUME NEW b \in BootModes, AskConfig(q, b) PROVE ModesTypeOK'
    <2>1. [at |-> "getConfig", boot |-> b] \in ConfigRequest
        BY DEF ConfigRequest
    <2>2. crossed' \in BOOLEAN
        BY <1>2 DEF AskConfig
    <2> QED
        BY <1>2, <2>1, <2>2, RequestTurns DEF AskConfig, ModesTypeOK, ticks
<1> QED
    BY <1>1, <1>2

LEMMA HandlersType ==
    ASSUME ModesTypeOK, NEW q \in Requests, HandlerStep(q) \/ RequestFails(q)
    PROVE  ModesTypeOK'
<1>1. stored \in Settings
    BY DEF ModesTypeOK
<1>2. CASE ReadForMode(q)
    <2>1. [stored EXCEPT !.runMode = requests[q].asked] \in Settings
        BY <1>1, <1>2, RequestHolds DEF ReadForMode, Settings
    <2>2. [at |-> "putMode", write |-> [stored EXCEPT !.runMode = requests[q].asked]]
              \in ModeRequest
        BY <2>1 DEF ModeRequest
    <2> QED
        BY <1>2, <2>2, RequestTurns DEF ReadForMode, ModesTypeOK, ticks, asking
<1>3. CASE StoreMode(q)
    BY <1>3, RequestHolds, RequestTurns DEF StoreMode, ModesTypeOK, ticks, asking
<1>4. CASE ReadForConfig(q)
    <2>1. [stored EXCEPT !.bootMode = requests[q].boot] \in Settings
        BY <1>1, <1>4, RequestHolds DEF ReadForConfig, Settings
    <2>2. [at |-> "putConfig", write |-> [stored EXCEPT !.bootMode = requests[q].boot]]
              \in ConfigRequest
        BY <2>1 DEF ConfigRequest
    <2> QED
        BY <1>4, <2>2, RequestTurns DEF ReadForConfig, ModesTypeOK, ticks, asking
<1>5. CASE StoreConfig(q)
    <2>1. requests[q].write \in Settings
        BY <1>5, RequestHolds DEF StoreConfig
    <2>2. [at |-> "apply", write |-> requests[q].write] \in ConfigRequest
        BY <2>1 DEF ConfigRequest
    <2> QED
        BY <1>5, <2>1, <2>2, RequestTurns DEF StoreConfig, ModesTypeOK, ticks, asking
<1>6. CASE ApplyConfig(q)
    <2>1. requests[q].write.runMode \in Modes
        BY <1>6, RequestHolds DEF ApplyConfig, Settings
    <2> QED
        BY <1>6, <2>1, RequestTurns DEF ApplyConfig, ModesTypeOK, ticks, asking
<1>7. CASE RequestFails(q)
    <2>1. crossed' \in BOOLEAN
        BY <1>7 DEF RequestFails
    <2> QED
        BY <1>7, <2>1, RequestTurns DEF RequestFails, ModesTypeOK, ticks
<1> QED
    BY <1>2, <1>3, <1>4, <1>5, <1>6, <1>7 DEF HandlerStep

LEMMA TicksType ==
    ASSUME ModesTypeOK, FinishTick \/ \E c \in TickCallers : BeginTick(c) PROVE ModesTypeOK'
<1>1. CASE FinishTick
    BY <1>1 DEF ModesTypeOK, FinishTick, TickReturns, TickThrows, asking
<1>2. ASSUME NEW c \in TickCallers, BeginTick(c) PROVE ModesTypeOK'
    BY <1>2 DEF ModesTypeOK, BeginTick, asking
<1> QED
    BY <1>1, <1>2

LEMMA NextType == ModesTypeOK /\ [ModesNext]_modesVars => ModesTypeOK'
<1> SUFFICES ASSUME ModesTypeOK, [ModesNext]_modesVars PROVE ModesTypeOK'
    OBVIOUS
<1>1. ASSUME NEW q \in Requests, \/ \E m \in Modes : AskMode(q, m)
                                 \/ \E b \in BootModes : AskConfig(q, b)
      PROVE  ModesTypeOK'
    BY <1>1, AskType
<1>2. ASSUME NEW q \in Requests, HandlerStep(q) \/ RequestFails(q) PROVE ModesTypeOK'
    BY <1>2, HandlersType
<1>3. CASE FinishTick \/ \E c \in TickCallers : BeginTick(c)
    BY <1>3, TicksType
<1>4. CASE Reboot
    BY <1>4, RestartType
<1>5. CASE UNCHANGED modesVars
    BY <1>5 DEF ModesTypeOK, modesVars, ticks, asking
<1> QED
    BY <1>1, <1>2, <1>3, <1>4, <1>5 DEF ModesNext

\* Memory, the saved settings and the requests in flight stay well typed, whatever the
\* order of requests, ticks and restarts.
THEOREM ModesTyped == ModesSpec => []ModesTypeOK
  BY InitType, NextType, PTL DEF ModesSpec

-----------------------------------------------------------------------------
(* The tick guard. *)

\* The guard is set exactly while one tick runs.
GuardInv ==
    \/ ticking = TRUE /\ \E r : inside = {r}
    \/ ticking = FALSE /\ inside = {}

LEMMA GuardStep == GuardInv /\ [ModesNext]_modesVars => GuardInv'
<1> SUFFICES ASSUME GuardInv, [ModesNext]_modesVars PROVE GuardInv'
    OBVIOUS
<1>1. CASE UNCHANGED <<ticking, inside>>
    BY <1>1 DEF GuardInv
<1>2. ASSUME NEW c \in TickCallers, BeginTick(c) PROVE GuardInv'
    <2>1. inside' = {[caller |-> c, mode |-> mode]} /\ ticking' = TRUE
        BY <1>2 DEF BeginTick, GuardInv
    <2> QED
        BY <2>1 DEF GuardInv
<1>3. CASE FinishTick
    <2>1. inside' = {} /\ ticking' = FALSE
        BY <1>3 DEF FinishTick, TickReturns, TickThrows, GuardInv
    <2> QED
        BY <2>1 DEF GuardInv
<1>4. CASE Reboot
    BY <1>4 DEF Reboot, Boot, GuardInv
<1>5. ASSUME NEW q \in Requests, HandlerStep(q) \/ RequestFails(q) PROVE GuardInv'
    BY <1>1, <1>5 DEF HandlerStep, ReadForMode, StoreMode, ReadForConfig, StoreConfig,
                      ApplyConfig, RequestFails, ticks
<1>6. ASSUME NEW q \in Requests, NEW m \in Modes, AskMode(q, m) PROVE GuardInv'
    BY <1>1, <1>6 DEF AskMode, ticks
<1>7. ASSUME NEW q \in Requests, NEW b \in BootModes, AskConfig(q, b) PROVE GuardInv'
    BY <1>1, <1>7 DEF AskConfig, ticks
<1>8. CASE UNCHANGED modesVars
    BY <1>1, <1>8 DEF modesVars, ticks
<1> QED
    BY <1>2, <1>3, <1>4, <1>5, <1>6, <1>7, <1>8 DEF ModesNext

\* The loop and the dashboard never run two ticks at once, however often the button
\* is pressed and whatever the ticks throw (doTick).
THEOREM OverlapTheorem == ModesSpec => []TicksNeverOverlap
<1>1. ModesInit => GuardInv
    BY DEF ModesInit, GuardInv
<1>2. GuardInv => TicksNeverOverlap
    <2>1. ASSUME inside = {} PROVE TicksNeverOverlap
        BY <2>1, FS_EmptySet DEF TicksNeverOverlap
    <2>2. ASSUME NEW r, inside = {r} PROVE TicksNeverOverlap
        <3>1. Cardinality({r}) = 1
            BY FS_Singleton
        <3> QED BY <2>2, <3>1 DEF TicksNeverOverlap
    <2> QED
        BY <2>1, <2>2 DEF GuardInv
<1> QED
    BY <1>1, <1>2, GuardStep, PTL DEF ModesSpec

-----------------------------------------------------------------------------
(* The operator's choice. *)

\* Nothing else is in flight beside q.
Alone(q) == \A p \in Requests \ {q} : requests[p] = NoRequest

\* A request of the operator's choice is alone and carries it; a config request holds the run
\* mode that is saved.
CarriesInv(q) ==
    /\ requests[q].at = "getMode" => requests[q].asked = wanted /\ chose /\ Alone(q)
    /\ requests[q].at = "putMode" => requests[q].write.runMode = wanted /\ chose /\ Alone(q)
    /\ requests[q].at \in {"putConfig", "apply"} => requests[q].write.runMode = stored.runMode

\* Memory holds the choice, and the settings do once its request is over; until the operator
\* chooses, memory holds what the boot chose or, once a setting was saved, what is stored.
ChoiceInv ==
    /\ chose => mode = wanted
    /\ chose /\ ~Choosing => stored.runMode = wanted
    /\ ~chose => mode = wanted \/ mode = stored.runMode

ModeInv ==
    /\ ModesTypeOK
    /\ ~crossed => ChoiceInv /\ \A q \in Requests : CarriesInv(q)

LEMMA InitMode == ModesInit => ModeInv
<1> SUFFICES ASSUME ModesInit PROVE ModeInv
    OBVIOUS
<1>1. ModesTypeOK
    BY InitType
<1>2. ASSUME NEW q \in Requests PROVE requests[q].at = "idle"
    BY DEF ModesInit, NoRequest
<1>3. ChoiceInv
    BY DEF ModesInit, ChoiceInv
<1> QED
    BY <1>1, <1>2, <1>3 DEF ModeInv, CarriesInv

\* While one request turns into another, the others are what they were.
LEMMA OthersKept ==
    ASSUME ModesTypeOK, NEW q \in Requests, NEW r, requests' = [requests EXCEPT ![q] = r]
    PROVE  /\ requests'[q] = r
           /\ \A p \in Requests \ {q} : requests'[p] = requests[p]
           /\ Alone(q)' <=> Alone(q)
  BY DEF ModesTypeOK, Alone

\* No request of a choice is in flight beside another request.
LEMMA NoneBeside ==
    ASSUME \A p \in Requests : CarriesInv(p), NEW q \in Requests, requests[q] # NoRequest,
           NEW p \in Requests \ {q}
    PROVE  requests[p].at \notin {"getMode", "putMode"}
  BY DEF CarriesInv, Alone

LEMMA AskModeStep ==
    ASSUME ModeInv, NEW q \in Requests, NEW m \in Modes, AskMode(q, m), ~crossed'
    PROVE  ChoiceInv' /\ \A p \in Requests : CarriesInv(p)'
<1>1. ModesTypeOK
    BY DEF ModeInv
<1>2. /\ requests'[q] = [at |-> "getMode", asked |-> m]
      /\ \A p \in Requests \ {q} : requests'[p] = NoRequest
    BY <1>1, OthersKept DEF AskMode
<1>3. mode' = m /\ wanted' = m /\ chose' = TRUE
    BY DEF AskMode
<1>4. ChoiceInv'
    <2>1. Choosing'
        BY <1>2 DEF Choosing
    <2> QED
        BY <1>3, <2>1 DEF ChoiceInv
<1>5. ASSUME NEW p \in Requests PROVE CarriesInv(p)'
    <2>1. CASE p = q
        BY <1>2, <1>3, <2>1 DEF CarriesInv, Alone
    <2>2. CASE p # q
        BY <1>2, <2>2 DEF CarriesInv, NoRequest
    <2> QED
        BY <2>1, <2>2
<1> QED
    BY <1>4, <1>5

\* A config request that turns into another, or into none, while it holds the stored run mode.
LEMMA ConfigTurns ==
    ASSUME ModesTypeOK, \A p \in Requests : CarriesInv(p), NEW q \in Requests, NEW r,
           requests' = [requests EXCEPT ![q] = r],
           requests[q].at \in {"idle", "getConfig", "putConfig", "apply"},
           r.at \in {"idle", "getConfig", "putConfig", "apply"},
           requests[q] # NoRequest \/ ~Choosing,
           r.at \in {"putConfig", "apply"} => r.write.runMode = stored.runMode,
           stored'.runMode = stored.runMode, wanted' = wanted, chose' = chose
    PROVE  /\ \A p \in Requests : CarriesInv(p)'
           /\ ~Choosing /\ ~Choosing'
<1>1. /\ requests'[q] = r
      /\ \A p \in Requests \ {q} : requests'[p] = requests[p]
    BY OthersKept
<1>2. ASSUME NEW p \in Requests \ {q} PROVE requests[p].at \notin {"getMode", "putMode"}
    BY NoneBeside DEF Choosing
<1>3. ASSUME NEW p \in Requests PROVE CarriesInv(p)'
    <2>1. CASE p = q
        BY <1>1, <2>1 DEF CarriesInv
    <2>2. CASE p # q
        BY <1>1, <1>2, <2>2 DEF CarriesInv
    <2> QED
        BY <2>1, <2>2
<1>4. ~Choosing /\ ~Choosing'
    BY <1>1, <1>2 DEF Choosing
<1> QED
    BY <1>3, <1>4

LEMMA ConfigStep ==
    ASSUME ModeInv, NEW q \in Requests, ~crossed',
           \/ \E b \in BootModes : AskConfig(q, b)
           \/ ReadForConfig(q) \/ StoreConfig(q) \/ ApplyConfig(q) \/ RequestFails(q)
    PROVE  ChoiceInv' /\ \A p \in Requests : CarriesInv(p)'
<1>1. ~crossed
    BY DEF AskConfig, ReadForConfig, StoreConfig, ApplyConfig, RequestFails, asking
<1>2. ModesTypeOK /\ ChoiceInv /\ \A p \in Requests : CarriesInv(p)
    BY <1>1 DEF ModeInv
<1>3. ASSUME NEW b \in BootModes, AskConfig(q, b)
      PROVE  ChoiceInv' /\ \A p \in Requests : CarriesInv(p)'
    <2>1. /\ UNCHANGED <<stored, mode, wanted, chose>>
          /\ requests' = [requests EXCEPT ![q] = [at |-> "getConfig", boot |-> b]]
        BY <1>3 DEF AskConfig
    <2>2. requests[q].at = "idle"
        BY <1>3 DEF AskConfig, NoRequest
    <2>3. ~Choosing
        BY <1>3 DEF AskConfig
    <2>4. (\A p \in Requests : CarriesInv(p)') /\ ~Choosing'
        BY <1>2, <2>1, <2>2, <2>3, ConfigTurns
    <2> QED
        BY <1>2, <2>1, <2>3, <2>4 DEF ChoiceInv
<1>4. CASE ReadForConfig(q)
    <2> DEFINE row == [stored EXCEPT !.bootMode = requests[q].boot]
    <2>1. /\ requests[q].at = "getConfig" /\ UNCHANGED <<stored, mode, wanted, chose>>
          /\ requests' = [requests EXCEPT ![q] = [at |-> "putConfig", write |-> row]]
        BY <1>4 DEF ReadForConfig, asking
    <2>2. row.runMode = stored.runMode
        BY <1>2 DEF ModesTypeOK, Settings
    <2>3. requests[q] # NoRequest
        BY <2>1 DEF NoRequest
    <2> HIDE DEF row
    <2>4. (\A p \in Requests : CarriesInv(p)') /\ ~Choosing /\ ~Choosing'
        BY <1>2, <2>1, <2>2, <2>3, ConfigTurns
    <2> QED
        BY <1>2, <2>1, <2>4 DEF ChoiceInv
<1>5. CASE StoreConfig(q)
    <2>1. /\ requests[q].at = "putConfig" /\ stored' = requests[q].write
          /\ UNCHANGED <<mode, wanted, chose>>
          /\ requests' = [requests EXCEPT ![q] = [at |-> "apply", write |-> requests[q].write]]
        BY <1>5 DEF StoreConfig, asking
    <2>2. requests[q].write.runMode = stored.runMode
        BY <1>2, <2>1 DEF CarriesInv
    <2>3. requests[q] # NoRequest
        BY <2>1 DEF NoRequest
    <2>4. (\A p \in Requests : CarriesInv(p)') /\ ~Choosing /\ ~Choosing'
        BY <1>2, <2>1, <2>2, <2>3, ConfigTurns
    <2> QED
        BY <1>2, <2>1, <2>2, <2>4 DEF ChoiceInv
<1>6. CASE ApplyConfig(q)
    <2>1. /\ requests[q].at = "apply" /\ mode' = requests[q].write.runMode
          /\ UNCHANGED <<stored, wanted, chose>>
          /\ requests' = [requests EXCEPT ![q] = NoRequest]
        BY <1>6 DEF ApplyConfig, asking
    <2>2. requests[q].write.runMode = stored.runMode
        BY <1>2, <2>1 DEF CarriesInv
    <2>3. requests[q] # NoRequest /\ NoRequest.at = "idle"
        BY <2>1 DEF NoRequest
    <2>4. (\A p \in Requests : CarriesInv(p)') /\ ~Choosing /\ ~Choosing'
        BY <1>2, <2>1, <2>3, ConfigTurns
    <2> QED
        BY <1>2, <2>1, <2>2, <2>4 DEF ChoiceInv
<1>7. CASE RequestFails(q)
    <2>1. /\ requests[q].at \in {"getConfig", "putConfig"}
          /\ UNCHANGED <<stored, mode, wanted, chose>>
          /\ requests' = [requests EXCEPT ![q] = NoRequest]
        BY <1>7 DEF RequestFails
    <2>2. requests[q] # NoRequest /\ NoRequest.at = "idle"
        BY <2>1 DEF NoRequest
    <2>3. (\A p \in Requests : CarriesInv(p)') /\ ~Choosing /\ ~Choosing'
        BY <1>2, <2>1, <2>2, ConfigTurns
    <2> QED
        BY <1>2, <2>1, <2>3 DEF ChoiceInv
<1> QED
    BY <1>3, <1>4, <1>5, <1>6, <1>7

\* The request of a choice is alone until it has saved it.
LEMMA SaveStep ==
    ASSUME ModeInv, NEW q \in Requests, ReadForMode(q) \/ StoreMode(q), ~crossed'
    PROVE  ChoiceInv' /\ \A p \in Requests : CarriesInv(p)'
<1>1. ~crossed
    BY DEF ReadForMode, StoreMode, asking
<1>2. ModesTypeOK /\ ChoiceInv /\ CarriesInv(q)
    BY <1>1 DEF ModeInv
<1>3. Alone(q) /\ chose
    BY <1>2 DEF CarriesInv, ReadForMode, StoreMode
<1>4. CASE ReadForMode(q)
    <2> DEFINE row == [stored EXCEPT !.runMode = requests[q].asked]
    <2>1. /\ requests[q].at = "getMode" /\ UNCHANGED <<stored, mode, wanted, chose>>
          /\ requests' = [requests EXCEPT ![q] = [at |-> "putMode", write |-> row]]
        BY <1>4 DEF ReadForMode, asking
    <2>2. row.runMode = wanted
        BY <1>2, <2>1 DEF ModesTypeOK, Settings, CarriesInv
    <2> HIDE DEF row
    <2>3. /\ requests'[q] = [at |-> "putMode", write |-> row]
          /\ \A p \in Requests \ {q} : requests'[p] = NoRequest
          /\ Alone(q)'
        BY <1>2, <1>3, <2>1, OthersKept DEF Alone
    <2>4. ASSUME NEW p \in Requests PROVE CarriesInv(p)'
        <3>1. CASE p = q
            BY <1>3, <2>1, <2>2, <2>3, <3>1 DEF CarriesInv
        <3>2. CASE p # q
            BY <2>3, <3>2 DEF CarriesInv, NoRequest
        <3> QED
            BY <3>1, <3>2
    <2>5. Choosing'
        BY <2>3 DEF Choosing
    <2> QED
        BY <1>2, <1>3, <2>1, <2>4, <2>5 DEF ChoiceInv
<1>5. CASE StoreMode(q)
    <2>1. /\ stored'.runMode = wanted /\ UNCHANGED <<mode, wanted, chose>>
          /\ requests' = [requests EXCEPT ![q] = NoRequest]
        BY <1>2, <1>5 DEF StoreMode, asking, CarriesInv
    <2>2. \A p \in Requests : requests'[p] = NoRequest
        BY <1>2, <1>3, <2>1, OthersKept DEF Alone
    <2> QED
        BY <1>2, <1>3, <2>1, <2>2 DEF ChoiceInv, CarriesInv, NoRequest
<1> QED
    BY <1>4, <1>5

LEMMA RestartModeStep ==
    ASSUME Reboot PROVE ChoiceInv' /\ \A p \in Requests : CarriesInv(p)'
<1>1. \A p \in Requests : requests'[p].at = "idle"
    BY DEF Reboot, Boot, NoRequest
<1> QED
    BY <1>1 DEF Reboot, Boot, ChoiceInv, CarriesInv

LEMMA ModeStep == ModeInv /\ [ModesNext]_modesVars => ModeInv'
<1> SUFFICES ASSUME ModeInv, [ModesNext]_modesVars PROVE ModeInv'
    OBVIOUS
<1>1. ModesTypeOK'
    BY NextType DEF ModeInv
<1> SUFFICES ASSUME ~crossed' PROVE ChoiceInv' /\ \A p \in Requests : CarriesInv(p)'
    BY <1>1 DEF ModeInv
<1>2. CASE UNCHANGED <<stored, mode, requests, asking>>
    BY <1>2 DEF ModeInv, ChoiceInv, CarriesInv, Choosing, Alone, asking
<1>3. ASSUME NEW q \in Requests, NEW m \in Modes, AskMode(q, m)
      PROVE  ChoiceInv' /\ \A p \in Requests : CarriesInv(p)'
    BY <1>3, AskModeStep
<1>4. ASSUME NEW q \in Requests,
             \/ \E b \in BootModes : AskConfig(q, b)
             \/ HandlerStep(q) \/ RequestFails(q)
      PROVE  ChoiceInv' /\ \A p \in Requests : CarriesInv(p)'
    BY <1>4, ConfigStep, SaveStep DEF HandlerStep
<1>5. CASE Reboot
    BY <1>5, RestartModeStep
<1>6. CASE FinishTick \/ \E c \in TickCallers : BeginTick(c)
    BY <1>2, <1>6 DEF BeginTick, FinishTick, TickReturns, TickThrows
<1>7. CASE UNCHANGED modesVars
    BY <1>2, <1>7 DEF modesVars, asking
<1> QED
    BY <1>3, <1>4, <1>5, <1>6, <1>7 DEF ModesNext

LEMMA ModeAlways == ModesSpec => []ModeInv
  BY InitMode, ModeStep, PTL DEF ModesSpec

\* For any requests, boot modes and restarts, and whatever fails: the daemon is LIVE only when
\* the operator, or the boot, last chose LIVE, but for a choice that crossed another request
\* or was not saved, and for a stored LIVE the boot did not take up (POST config).
THEOREM LiveTheorem == ModesSpec => []NeverLiveUnasked
<1>1. ModeInv => NeverLiveUnasked
    BY DEF ModeInv, ChoiceInv, NeverLiveUnasked
<1> QED
    BY <1>1, ModeAlways, PTL

\* An answered choice that crossed no other request is what memory holds and what the next
\* boot finds, whatever settings are saved after it (POST run-mode, POST config).
THEOREM ChoiceTheorem == ModesSpec => []ChoiceIsStored
<1>1. ModeInv => ChoiceIsStored
    BY DEF ModeInv, ChoiceInv, ChoiceIsStored
<1> QED
    BY <1>1, ModeAlways, PTL

\* Such a pause survives a restart, unless the daemon is set to boot LIVE
\* (resolveBootRunMode).
THEOREM PauseTheorem == ModesSpec => PauseSurvivesRestart
<1> DEFINE Paused == /\ chose /\ ~crossed /\ ~Choosing /\ wanted = "PAUSED"
                     /\ stored.bootMode # "LIVE"
<1>1. ASSUME ModeInv, Reboot, Paused PROVE mode' # "LIVE"
    <2>1. stored \in Settings /\ stored.runMode = "PAUSED"
        BY <1>1 DEF ModeInv, ModesTypeOK, ChoiceInv
    <2>2. resolveBootRunMode(stored) = "DRY_RUN"
        BY <1>1, <2>1 DEF Settings, resolveBootRunMode
    <2> QED
        BY <1>1, <2>2 DEF Reboot, Boot
<1>2. ModeInv /\ [ModesNext]_modesVars =>
        [Reboot /\ chose /\ ~crossed /\ ~Choosing /\ wanted = "PAUSED"
             /\ stored.bootMode # "LIVE"
            => mode' # "LIVE"]_modesVars
    BY <1>1
<1> QED
    BY <1>2, ModeAlways, PTL DEF ModesSpec, PauseSurvivesRestart
=============================================================================
