--------------------------- MODULE BraiinsBidProofs ---------------------------
(***************************************************************************)
(* What the Braiins controller does to its bids, for any number of bids    *)
(* and upsets and for whatever the market quotes: only a tick that could   *)
(* not know better gives the account a second bid, the daemon cancels      *)
(* nothing that is not in its ledger, does not take its own bids for       *)
(* strangers, and keeps the pause between two decreases.                   *)
(***************************************************************************)
EXTENDS BraiinsBid, AscendingProofs

-----------------------------------------------------------------------------
(* Sequences. *)

LEMMA SameElements ==
    ASSUME NEW S, NEW s \in Seq(S), NEW t \in Seq(S), Len(s) = Len(t),
           \A i \in 1..Len(s) : s[i] = t[i]
    PROVE  s = t
OBVIOUS

LEMMA Joined ==
    ASSUME NEW S, NEW d \in S, NEW f \in S
    PROVE  /\ <<d>> \o <<f>> = <<d, f>>
           /\ <<d>> \o <<>> = <<d>> /\ <<>> \o <<f>> = <<f>> /\ <<>> \o <<>> = <<>>
<1> DEFINE s == <<d>> \o <<f>>
           t == <<d, f>>
<1>1. <<d>> \in Seq(S) /\ <<f>> \in Seq(S) /\ t \in Seq(S)
  OBVIOUS
<1>2. Len(s) = 2 /\ s \in Seq(S) /\ s[1] = d /\ s[2] = f
  BY <1>1
<1>3. Len(t) = 2 /\ t[1] = d /\ t[2] = f
  OBVIOUS
<1> HIDE DEF s, t
<1>4. \A i \in 1..Len(s) : s[i] = t[i]
  BY <1>2, <1>3
<1>5. s \in Seq(S) /\ t \in Seq(S) /\ Len(s) = Len(t)
  BY <1>1, <1>2, <1>3
<1>6. s = t
  BY <1>4, <1>5, SameElements
<1>7. <<d>> \o <<>> = <<d>> /\ <<>> \o <<f>> = <<f>> /\ <<>> \o <<>> = <<>>
  OBVIOUS
<1> QED BY <1>6, <1>7 DEF s, t

-----------------------------------------------------------------------------
(* The proposals of a tick. *)

Proposals(v) ==
    [kind : {"PAUSE", "CREATE_BID", "CANCEL_BID", "EDIT_PRICE", "EDIT_SPEED"},
     bid : Bids \cup {0}, old : {0} \cup {v.owned[b].price : b \in DOMAIN v.owned},
     price : {0, v.quote.price}, speed : {0, v.quote.speed}]

\* Pauses and creates stand alone, and only the price and then the speed of the bid that is
\* kept are edited, after the cancels.
Proposed(p, v) ==
    /\ p \in Seq(Proposals(v))
    /\ \A i \in 1..Len(p) :
           /\ p[i].kind = "PAUSE" => Len(p) = 1 /\ v.strangers
           /\ p[i].kind = "CREATE_BID" => Len(p) = 1 /\ ~v.strangers /\ DOMAIN v.owned = {}
           /\ p[i].kind \notin {"PAUSE", "CREATE_BID"} => p[i].bid \in DOMAIN v.owned
           /\ p[i].kind = "EDIT_PRICE" =>
                  \A j \in 1..Len(p) : i < j => p[j].kind = "EDIT_SPEED"

LEMMA ProposalShape ==
    ASSUME NEW v, DOMAIN v.owned \subseteq Bids
    PROVE  /\ Pause \in Proposals(v) /\ Pause.kind = "PAUSE"
           /\ \A b \in Bids : Cancel(b) \in Proposals(v) /\ Cancel(b).kind = "CANCEL_BID"
                              /\ Cancel(b).bid = b
           /\ LET c == Proposal("CREATE_BID", 0, 0, v.quote.price, v.quote.speed)
              IN  c \in Proposals(v) /\ c.kind = "CREATE_BID"
           /\ \A b \in DOMAIN v.owned :
                  LET e == Proposal("EDIT_PRICE", b, v.owned[b].price, v.quote.price, 0)
                      f == Proposal("EDIT_SPEED", b, 0, 0, v.quote.speed)
                  IN  /\ e \in Proposals(v) /\ e.kind = "EDIT_PRICE" /\ e.bid = b
                      /\ f \in Proposals(v) /\ f.kind = "EDIT_SPEED" /\ f.bid = b
<1>1. Pause \in Proposals(v) /\ Pause.kind = "PAUSE"
  BY DEF Pause, Proposal, Proposals
<1>2. \A b \in Bids : Cancel(b) \in Proposals(v) /\ Cancel(b).kind = "CANCEL_BID"
                      /\ Cancel(b).bid = b
  BY DEF Cancel, Proposal, Proposals
<1>3. LET c == Proposal("CREATE_BID", 0, 0, v.quote.price, v.quote.speed)
      IN  c \in Proposals(v) /\ c.kind = "CREATE_BID"
  BY DEF Proposal, Proposals
<1>4. ASSUME NEW b \in DOMAIN v.owned
      PROVE  LET e == Proposal("EDIT_PRICE", b, v.owned[b].price, v.quote.price, 0)
                 f == Proposal("EDIT_SPEED", b, 0, 0, v.quote.speed)
             IN  /\ e \in Proposals(v) /\ e.kind = "EDIT_PRICE" /\ e.bid = b
                 /\ f \in Proposals(v) /\ f.kind = "EDIT_SPEED" /\ f.bid = b
  BY DEF Proposal, Proposals
<1> QED BY <1>1, <1>2, <1>3, <1>4

LEMMA CancelsFacts ==
    ASSUME NEW v, DOMAIN v.owned \subseteq Bids, NEW S \in SUBSET DOMAIN v.owned
    PROVE  /\ Cancels(S) \in Seq(Proposals(v))
           /\ \A i \in 1..Len(Cancels(S)) :
                 Cancels(S)[i].kind = "CANCEL_BID" /\ Cancels(S)[i].bid \in S
<1> DEFINE ordered == InOrder(S)
           n == Cardinality(S)
           p == [i \in DOMAIN ordered |-> Cancel(ordered[i])]
<1>1. IsFiniteSet(S) /\ S \in SUBSET Nat /\ S \subseteq Bids
  BY FS_Subset, BidAssumption
<1>2. n \in Nat /\ ordered \in [1..n -> S]
  BY <1>1, InOrderSorts DEF Sorts
<1>3. Cancels(S) = p
  BY DEF Cancels
<1> HIDE DEF ordered, n
<1>4. \A i \in 1..n : /\ p[i] = Cancel(ordered[i]) /\ ordered[i] \in S
                      /\ p[i] \in Proposals(v) /\ p[i].kind = "CANCEL_BID" /\ p[i].bid \in S
  BY <1>1, <1>2, ProposalShape
<1>5. DOMAIN p = 1..n
  BY <1>2
<1>6. p \in [1..n -> Proposals(v)]
  BY <1>4, <1>5
<1> HIDE DEF p
<1>7. p \in Seq(Proposals(v)) /\ Len(p) = n
  BY <1>2, <1>6
<1> QED BY <1>3, <1>4, <1>7

\* What the price and the speed of the kept bid may need.
LEMMA EditFacts ==
    ASSUME NEW v, DOMAIN v.owned \subseteq Bids, NEW b \in DOMAIN v.owned
    PROVE  LET e == EditJobs(b, v.owned[b], v.quote.price, v.quote.speed)
               d == Proposal("EDIT_PRICE", b, v.owned[b].price, v.quote.price, 0)
               f == Proposal("EDIT_SPEED", b, 0, 0, v.quote.speed)
           IN  e = <<>> \/ e = <<d>> \/ e = <<f>> \/ e = <<d, f>>
<1> DEFINE d == Proposal("EDIT_PRICE", b, v.owned[b].price, v.quote.price, 0)
           f == Proposal("EDIT_SPEED", b, 0, 0, v.quote.speed)
           e == EditJobs(b, v.owned[b], v.quote.price, v.quote.speed)
           x == IF Abs(v.owned[b].price - v.quote.price) >= EditDeadband THEN <<d>> ELSE <<>>
           y == IF v.owned[b].speed # v.quote.speed THEN <<f>> ELSE <<>>
<1>1. e = x \o y
  BY DEF EditJobs
<1>2. (x = <<d>> \/ x = <<>>) /\ (y = <<f>> \/ y = <<>>)
  OBVIOUS
<1> HIDE DEF d, f, e, x, y
<1>3. <<d>> \o <<f>> = <<d, f>> /\ <<d>> \o <<>> = <<d>> /\ <<>> \o <<f>> = <<f>>
      /\ <<>> \o <<>> = <<>>
  <2>1. d \in {d, f} /\ f \in {d, f}
    OBVIOUS
  <2> QED BY <2>1, Joined
<1>4. e = <<>> \/ e = <<d>> \/ e = <<f>> \/ e = <<d, f>>
  BY <1>1, <1>2, <1>3
<1> QED BY <1>4 DEF d, f, e

LEMMA MaintainFacts ==
    ASSUME NEW v, DOMAIN v.owned \subseteq Bids, ~v.strangers
    PROVE  Proposed(Maintain(v), v)
<1>0. DOMAIN v.owned \subseteq Nat
  BY BidAssumption
<1>1. CASE DOMAIN v.owned = {}
  <2> DEFINE c == Proposal("CREATE_BID", 0, 0, v.quote.price, v.quote.speed)
  <2>1. c \in Proposals(v) /\ c.kind = "CREATE_BID"
    BY ProposalShape
  <2>2. Maintain(v) = <<c>> \/ Maintain(v) = <<>>
    BY <1>1 DEF Maintain
  <2> HIDE DEF c, Proposals
  <2>3. CASE Maintain(v) = <<c>>
    <3>1. <<c>> \in Seq(Proposals(v)) /\ Len(<<c>>) = 1 /\ <<c>>[1] = c
      BY <2>1
    <3> QED BY <1>1, <2>1, <2>3, <3>1 DEF Proposed
  <2>4. CASE Maintain(v) = <<>>
    BY <2>4 DEF Proposed
  <2> QED BY <2>2, <2>3, <2>4
<1>2. CASE DOMAIN v.owned # {} /\ Actionable(v.owned) = {}
  BY <1>2 DEF Maintain, Proposed
<1>3. CASE Actionable(v.owned) # {}
  <2> DEFINE keep == Actionable(v.owned)
             b == Min(keep)
             c == Cancels(keep \ {b})
             e == EditJobs(b, v.owned[b], v.quote.price, v.quote.speed)
             d == Proposal("EDIT_PRICE", b, v.owned[b].price, v.quote.price, 0)
             f == Proposal("EDIT_SPEED", b, 0, 0, v.quote.speed)
  <2>1. keep \subseteq DOMAIN v.owned /\ DOMAIN v.owned # {}
    BY <1>3 DEF Actionable
  <2>2. b \in keep
    <3>1. PICK m \in keep : \A y \in keep : m <= y
      BY <1>0, <1>3, <2>1, LeastNumber
    <3> HIDE DEF keep
    <3> QED BY <3>1 DEF Min
  <2>3. Maintain(v) = c \o e
    BY <1>3, <2>1 DEF Maintain
  <2>4. /\ c \in Seq(Proposals(v))
        /\ \A i \in 1..Len(c) : c[i].kind = "CANCEL_BID" /\ c[i].bid \in DOMAIN v.owned
    <3>1. keep \ {b} \in SUBSET DOMAIN v.owned
      BY <2>1
    <3> HIDE DEF keep, b
    <3> QED BY <2>1, <3>1, CancelsFacts
  <2>5. e = <<>> \/ e = <<d>> \/ e = <<f>> \/ e = <<d, f>>
    BY <2>1, <2>2, EditFacts
  <2>6. /\ d \in Proposals(v) /\ d.kind = "EDIT_PRICE" /\ d.bid \in DOMAIN v.owned
        /\ f \in Proposals(v) /\ f.kind = "EDIT_SPEED" /\ f.bid \in DOMAIN v.owned
    BY <2>1, <2>2, ProposalShape
  <2> HIDE DEF keep, b, c, e, d, f, Proposals
  <2>7. /\ e \in Seq(Proposals(v)) /\ Len(e) \in Nat
        /\ \A i \in 1..Len(e) :
               /\ e[i].kind \in {"EDIT_PRICE", "EDIT_SPEED"} /\ e[i].bid \in DOMAIN v.owned
               /\ e[i].kind = "EDIT_PRICE" => i = 1
               /\ \A j \in 1..Len(e) : i < j => e[j].kind = "EDIT_SPEED"
    <3>1. CASE e = <<>>
      BY <3>1
    <3>2. CASE e = <<d>>
      BY <2>6, <3>2
    <3>3. CASE e = <<f>>
      BY <2>6, <3>3
    <3>4. CASE e = <<d, f>>
      <4>1. e \in Seq(Proposals(v)) /\ Len(e) = 2 /\ e[1] = d /\ e[2] = f
        BY <2>6, <3>4
      <4>2. \A i \in 1..Len(e) : i = 1 \/ i = 2
        BY <4>1
      <4> QED BY <2>6, <4>1, <4>2
    <3> QED BY <2>5, <3>1, <3>2, <3>3, <3>4
  <2> DEFINE p == c \o e
             n == Len(c)
  <2>8. /\ p \in Seq(Proposals(v)) /\ Len(p) = n + Len(e) /\ n \in Nat
        /\ \A i \in 1..Len(p) : p[i] = IF i <= n THEN c[i] ELSE e[i - n]
    BY <2>4, <2>7
  <2>9. \A i \in 1..Len(p) : IF i <= n THEN i \in 1..n ELSE i - n \in 1..Len(e)
    BY <2>7, <2>8
  <2> HIDE DEF p, n
  <2>10. ASSUME NEW i \in 1..Len(p)
         PROVE  /\ p[i].kind \in {"CANCEL_BID", "EDIT_PRICE", "EDIT_SPEED"}
                /\ p[i].bid \in DOMAIN v.owned
                /\ p[i].kind = "EDIT_PRICE" =>
                       \A j \in 1..Len(p) : i < j => p[j].kind = "EDIT_SPEED"
    <3>1. CASE i <= n
      <4>1. p[i] = c[i] /\ i \in 1..n
        BY <2>8, <2>9, <3>1
      <4> QED BY <2>4, <4>1 DEF n
    <3>2. CASE ~(i <= n)
      <4>1. p[i] = e[i - n] /\ i - n \in 1..Len(e)
        BY <2>8, <2>9, <3>2
      <4>2. ASSUME NEW j \in 1..Len(p), i < j PROVE p[j].kind = "EDIT_SPEED"
        <5>1. ~(j <= n)
          BY <2>7, <2>8, <3>2, <4>2
        <5>2. p[j] = e[j - n] /\ j - n \in 1..Len(e)
          BY <2>8, <2>9, <5>1
        <5>3. i - n < j - n
          BY <2>7, <2>8, <4>2
        <5> QED BY <2>7, <4>1, <5>2, <5>3
      <4> QED BY <2>7, <4>1, <4>2
    <3> QED BY <3>1, <3>2
  <2>11. Proposed(p, v)
    BY <2>8, <2>10 DEF Proposed
  <2> QED BY <2>3, <2>11 DEF p
<1> QED BY <1>1, <1>2, <1>3

LEMMA DecideFacts ==
    ASSUME NEW v, DOMAIN v.owned \subseteq Bids PROVE Proposed(decide(v), v)
<1>1. CASE v.strangers
  <2>1. decide(v) = <<Pause>>
    BY <1>1 DEF decide
  <2>2. Pause \in Proposals(v) /\ Pause.kind = "PAUSE"
    BY ProposalShape
  <2> HIDE DEF Proposals
  <2>3. <<Pause>> \in Seq(Proposals(v)) /\ Len(<<Pause>>) = 1 /\ <<Pause>>[1] = Pause
    BY <2>2
  <2> QED BY <1>1, <2>1, <2>2, <2>3 DEF Proposed
<1>2. CASE ~v.strangers /\ v.datumDown
  <2> DEFINE c == Cancels(Actionable(v.owned))
  <2>1. decide(v) = c
    BY <1>2 DEF decide
  <2>2. Actionable(v.owned) \in SUBSET DOMAIN v.owned
    BY DEF Actionable
  <2>3. /\ c \in Seq(Proposals(v))
        /\ \A i \in 1..Len(c) : c[i].kind = "CANCEL_BID" /\ c[i].bid \in DOMAIN v.owned
    BY <2>2, CancelsFacts
  <2> HIDE DEF c
  <2> QED BY <2>1, <2>3 DEF Proposed
<1>3. CASE ~v.strangers /\ ~v.datumDown /\ v.quote # NotSet
  BY <1>3, MaintainFacts DEF decide
<1>4. CASE ~v.strangers /\ ~v.datumDown /\ v.quote = NotSet
  BY <1>4 DEF decide, Proposed
<1> QED BY <1>1, <1>2, <1>3, <1>4
\* A gate selects: what passes keeps its order, and each proposal that passes is allowed.
LEMMA GateFacts ==
    ASSUME NEW P, NEW p \in Seq(P), NEW fee, NEW cooling
    PROVE  \E m \in Nat : \E h \in [1..m -> 1..Len(p)] :
               /\ gate(p, "LIVE", fee, cooling) = [k \in 1..m |-> p[h[k]]]
               /\ \A k \in 1..m : Allowed(p[h[k]], "LIVE", fee, cooling)
               /\ \A k, l \in 1..m : k < l => h[k] < h[l]
<1> DEFINE I == {i \in DOMAIN p : Allowed(p[i], "LIVE", fee, cooling)}
           h == InOrder(I)
           m == Cardinality(I)
<1>1. DOMAIN p = 1..Len(p) /\ Len(p) \in Nat
  OBVIOUS
<1>2. I \in SUBSET Nat /\ I \subseteq 1..Len(p) /\ IsFiniteSet(I)
  <2>1. IsFiniteSet(1..Len(p))
    BY <1>1, FS_Interval
  <2>2. I \subseteq 1..Len(p)
    BY <1>1
  <2> QED BY <1>1, <2>1, <2>2, FS_Subset
<1>3. \A i \in I : Allowed(p[i], "LIVE", fee, cooling)
  OBVIOUS
<1>4. gate(p, "LIVE", fee, cooling) = [k \in DOMAIN h |-> p[h[k]]]
  BY DEF gate
<1> HIDE DEF I, h, m
<1>5. m \in Nat /\ h \in [1..m -> I] /\ \A k, l \in 1..m : k < l => h[k] < h[l]
  BY <1>2, InOrderSorts DEF Sorts, h, m
<1>6. DOMAIN h = 1..m /\ h \in [1..m -> 1..Len(p)]
  BY <1>2, <1>5
<1>7. \A k \in 1..m : Allowed(p[h[k]], "LIVE", fee, cooling)
  BY <1>3, <1>5
<1>8. gate(p, "LIVE", fee, cooling) = [k \in 1..m |-> p[h[k]]]
  BY <1>4, <1>6
<1> QED BY <1>5, <1>6, <1>7, <1>8

-----------------------------------------------------------------------------
(* The jobs of a tick. *)

JobType == [kind : Kinds, bid : Bids \cup {0}, down : BOOLEAN]

\* A create, a pause and the insert that follows a create are the only job of their tick,
\* a write is the first one, and after a price is edited only a speed is.
Shape(s) ==
    \A i \in 1..Len(s) :
        /\ s[i].kind \in {"CREATE_BID", "PAUSE", "INSERT"} => Len(s) = 1
        /\ s[i].kind \in {"EDIT_PRICE", "STAMP"} =>
               \A j \in 1..Len(s) : i < j => s[j].kind = "EDIT_SPEED"
        /\ s[i].kind \in {"INSERT", "STAMP"} => i = 1

\* The jobs of a tick that owns the bids S and knows k.
Planned(s, S, k) ==
    /\ s \in Seq(JobType) /\ Shape(s)
    /\ \A i \in 1..Len(s) :
           /\ s[i].kind \notin {"INSERT", "STAMP"}
           /\ s[i].kind = "PAUSE" => k.strangers
           /\ s[i].kind = "CREATE_BID" => ~k.strangers /\ S = {}
           /\ s[i].kind \in {"CANCEL_BID", "EDIT_PRICE", "EDIT_SPEED"} => s[i].bid \in S
           /\ s[i].kind = "EDIT_PRICE" /\ s[i].down => s[i].bid \notin k.cooling

LEMMA KeptFacts ==
    ASSUME NEW v, NEW p \in Proposals(v)
    PROVE  /\ Kept(p) \in JobType /\ Kept(p).kind = p.kind /\ Kept(p).bid = p.bid
           /\ Kept(p).down = Lowers(p)
           /\ p.kind \in {"PAUSE", "CREATE_BID", "CANCEL_BID", "EDIT_PRICE", "EDIT_SPEED"}
<1>1. p.kind \in {"PAUSE", "CREATE_BID", "CANCEL_BID", "EDIT_PRICE", "EDIT_SPEED"}
      /\ p.bid \in Bids \cup {0}
  BY DEF Proposals
<1>2. p.kind \in Kinds
  BY <1>1 DEF Kinds
<1>3. Lowers(p) \in BOOLEAN
  BY DEF Lowers
<1> QED BY <1>1, <1>2, <1>3 DEF Kept, JobType

LEMMA GatedFacts ==
    ASSUME NEW v, NEW p, Proposed(p, v), NEW fee, NEW cooling
    PROVE  /\ JobsOf(gate(p, "LIVE", fee, cooling)) \in Seq(JobType)
           /\ Planned(JobsOf(gate(p, "LIVE", fee, cooling)), DOMAIN v.owned,
                      [strangers |-> v.strangers, cooling |-> cooling])
<1> DEFINE q == gate(p, "LIVE", fee, cooling)
           s == JobsOf(q)
           k == [strangers |-> v.strangers, cooling |-> cooling]
<1>1. p \in Seq(Proposals(v)) /\ Len(p) \in Nat
  BY DEF Proposed
<1>2. PICK m \in Nat : \E h \in [1..m -> 1..Len(p)] :
          /\ q = [i \in 1..m |-> p[h[i]]]
          /\ \A i \in 1..m : Allowed(p[h[i]], "LIVE", fee, cooling)
          /\ \A i, l \in 1..m : i < l => h[i] < h[l]
  BY <1>1, GateFacts
<1>3. PICK h \in [1..m -> 1..Len(p)] :
          /\ q = [i \in 1..m |-> p[h[i]]]
          /\ \A i \in 1..m : Allowed(p[h[i]], "LIVE", fee, cooling)
          /\ \A i, l \in 1..m : i < l => h[i] < h[l]
  BY <1>2
<1>4. s = [i \in 1..m |-> Kept(p[h[i]])]
  BY <1>3 DEF JobsOf
<1>5. \A i \in 1..m :
          /\ h[i] \in 1..Len(p) /\ p[h[i]] \in Proposals(v)
          /\ s[i] = Kept(p[h[i]]) /\ s[i] \in JobType
          /\ s[i].kind = p[h[i]].kind /\ s[i].bid = p[h[i]].bid
          /\ s[i].down = Lowers(p[h[i]])
          /\ s[i].kind \in {"PAUSE", "CREATE_BID", "CANCEL_BID", "EDIT_PRICE", "EDIT_SPEED"}
  <2> TAKE i \in 1..m
  <2>1. h[i] \in 1..Len(p)
    BY <1>3
  <2>2. p[h[i]] \in Proposals(v)
    BY <1>1, <2>1
  <2>3. s[i] = Kept(p[h[i]])
    BY <1>4
  <2> HIDE DEF s, Proposals
  <2> QED BY <2>1, <2>2, <2>3, KeptFacts
<1> HIDE DEF q, s
<1>6. s \in Seq(JobType) /\ Len(s) = m
  <2>1. s \in [1..m -> JobType]
    BY <1>4, <1>5
  <2> QED BY <1>2, <2>1
<1>7. ASSUME NEW i \in 1..m, s[i].kind \in {"PAUSE", "CREATE_BID"} PROVE m = 1
  <2>1. Len(p) = 1
    BY <1>5, <1>7 DEF Proposed
  <2>2. CASE m >= 2
    <3>1. 1 \in 1..m /\ 2 \in 1..m
      BY <1>2, <2>2
    <3>2. h[1] < h[2] /\ h[1] \in 1..1 /\ h[2] \in 1..1
      BY <1>3, <2>1, <3>1
    <3> QED BY <3>2
  <2> QED BY <1>2, <1>7, <2>2
<1>8. ASSUME NEW i \in 1..m, NEW j \in 1..m, i < j, s[i].kind = "EDIT_PRICE"
      PROVE  s[j].kind = "EDIT_SPEED"
  <2>1. h[i] < h[j] /\ h[i] \in 1..Len(p) /\ h[j] \in 1..Len(p)
    BY <1>3, <1>8
  <2> QED BY <1>5, <1>8, <2>1 DEF Proposed
<1>9. Shape(s)
  BY <1>5, <1>6, <1>7, <1>8 DEF Shape
<1>10. ASSUME NEW i \in 1..m
       PROVE  /\ s[i].kind \notin {"INSERT", "STAMP"}
              /\ s[i].kind = "PAUSE" => v.strangers
              /\ s[i].kind = "CREATE_BID" => ~v.strangers /\ DOMAIN v.owned = {}
              /\ s[i].kind \in {"CANCEL_BID", "EDIT_PRICE", "EDIT_SPEED"} =>
                     s[i].bid \in DOMAIN v.owned
  <2> DEFINE o == p[h[i]]
  <2>1. /\ o.kind = "PAUSE" => v.strangers
        /\ o.kind = "CREATE_BID" => ~v.strangers /\ DOMAIN v.owned = {}
        /\ o.kind \notin {"PAUSE", "CREATE_BID"} => o.bid \in DOMAIN v.owned
    BY <1>5 DEF Proposed
  <2>2. s[i].kind = o.kind /\ s[i].bid = o.bid
        /\ s[i].kind \in {"PAUSE", "CREATE_BID", "CANCEL_BID", "EDIT_PRICE", "EDIT_SPEED"}
    BY <1>5
  <2> HIDE DEF o
  <2> QED BY <2>1, <2>2
<1>11. ASSUME NEW i \in 1..m, s[i].kind = "EDIT_PRICE", s[i].down
       PROVE  s[i].bid \notin cooling
  <2>1. Allowed(p[h[i]], "LIVE", fee, cooling) /\ Lowers(p[h[i]])
    BY <1>3, <1>5, <1>11
  <2>2. p[h[i]].bid \notin cooling
    BY <1>5, <1>11, <2>1 DEF Allowed
  <2> QED BY <1>5, <2>2
<1>12. k.strangers = v.strangers /\ k.cooling = cooling
  OBVIOUS
<1> HIDE DEF k
<1>13. Planned(s, DOMAIN v.owned, k)
  BY <1>6, <1>9, <1>10, <1>11, <1>12 DEF Planned
<1> QED BY <1>6, <1>13 DEF s, q, k
LEMMA PlanFacts ==
    ASSUME NEW S \in SUBSET Bids, NEW status, NEW k \in Knowledge, NEW r, NEW fee
    PROVE  Planned(Plan([b \in S |-> status[b]], k, r, fee), S, k)
<1> DEFINE owned == [b \in S |-> status[b]]
           o == [b \in DOMAIN owned |-> [status |-> owned[b],
                                         price |-> r.price, speed |-> r.speed]]
           v == [strangers |-> k.strangers, datumDown |-> k.datumDown, owned |-> o,
                 quote |-> r.quote, funded |-> r.funded]
           p == decide(v)
           l == [strangers |-> v.strangers, cooling |-> k.cooling]
           s == JobsOf(gate(p, "LIVE", fee, k.cooling))
<1>1. DOMAIN v.owned = S /\ v.strangers = k.strangers
  OBVIOUS
<1>2. Plan(owned, k, r, fee) = s
  BY DEF Plan
<1> HIDE DEF v, s
<1>3. Proposed(p, v)
  BY <1>1, DecideFacts
<1>4. Planned(s, DOMAIN v.owned, l)
  BY <1>3, GatedFacts DEF s
<1>5. l.strangers = k.strangers /\ l.cooling = k.cooling
  BY <1>1
<1> HIDE DEF l
<1>6. Planned(s, S, k)
  BY <1>1, <1>4, <1>5 DEF Planned
<1> QED BY <1>2, <1>6
-----------------------------------------------------------------------------
(* The invariant. *)

Statuses == {"unlisted", "live", "dying", "gone"}
TickType == [pc : {"idle", "observe", "execute"}, mode : RunModes, own : SUBSET Bids,
             cooling : SUBSET Bids, todo : Seq(JobType), excuse : SUBSET Excuses]

Typed ==
    /\ DOMAIN bids \subseteq Bids /\ \A b \in DOMAIN bids : bids[b] \in Statuses
    /\ recent \subseteq Standing /\ stamps \subseteq ledger
    /\ ledger \subseteq DOMAIN placed /\ DOMAIN placed \subseteq DOMAIN bids
    /\ \A b \in DOMAIN placed : placed[b] \in SUBSET Excuses
    /\ mode \in RunModes /\ misses \in 0..DatumDown /\ priced \in BOOLEAN
    /\ upsets \in 0..MaxUpsets
    /\ tick \in [Ticks -> TickType]

Recorded == \A b \in Standing : bids[b] = "dying" => b \in ledger

Alone(t) == "overlap" \notin tick[t].excuse

\* What is behind a job of a tick: its bid is on the books; a tick that ran alone pauses
\* over a bid that is not, and lowers none within the period; a tick with nothing to
\* excuse it creates on an account without a bid of ours.
Fits(t, j) ==
    /\ j.kind \in {"CANCEL_BID", "EDIT_PRICE", "EDIT_SPEED", "STAMP"} => j.bid \in ledger
    /\ j.kind = "INSERT" => j.bid \in DOMAIN placed
    /\ j.kind = "PAUSE" /\ Alone(t) => DOMAIN bids # ledger
    /\ j.kind = "CREATE_BID" /\ tick[t].excuse = {} => Ours = {}
    /\ j.kind = "EDIT_PRICE" /\ j.down /\ Alone(t) => j.bid \notin stamps

\* A tick that runs alone still has the ledger it read.
TickInv(t) ==
    /\ tick[t].own \subseteq ledger /\ tick[t].cooling \subseteq ledger
    /\ tick[t].pc = "execute" <=> Len(tick[t].todo) > 0
    /\ Shape(tick[t].todo)
    /\ tick[t].pc = "observe" /\ Alone(t) =>
           tick[t].own = ledger /\ stamps \subseteq tick[t].cooling
    /\ \A i \in 1..Len(tick[t].todo) : Fits(t, tick[t].todo[i])

Overlapped ==
    \A t, u \in Ticks : t # u /\ Running(t) /\ Running(u) => ~Alone(t)

\* A decrease without its stamp: the write is the next job of a tick, or something was lost.
LostStamps ==
    \A b \in recent \ stamps :
        upsets > 0 \/ \E t \in Ticks : Executing(t, "STAMP") /\ Job(t).bid = b

BraiinsInv ==
    /\ Typed /\ Recorded
    /\ \A t \in Ticks : TickInv(t)
    /\ Overlapped /\ LostStamps /\ TwinsHaveExcuse

-----------------------------------------------------------------------------
(* Ticks. *)

LEMMA IdleTick ==
    /\ Idle \in TickType /\ Idle.pc = "idle" /\ Idle.own = {} /\ Idle.cooling = {}
    /\ Idle.todo = <<>> /\ Len(Idle.todo) = 0 /\ Idle.excuse = {}
BY DEF Idle, TickType, RunModes

\* The first job of a tick that executes.
LEMMA JobFacts ==
    ASSUME Typed, NEW t \in Ticks, TickInv(t), tick[t].pc = "execute"
    PROVE  /\ tick[t].todo \in Seq(JobType) /\ Len(tick[t].todo) \in Nat
           /\ Len(tick[t].todo) >= 1 /\ Job(t) = tick[t].todo[1] /\ Job(t) \in JobType
           /\ Fits(t, Job(t)) /\ Running(t)
<1>1. tick[t].todo \in Seq(JobType) /\ Len(tick[t].todo) \in Nat
  BY DEF Typed, TickType
<1>2. Len(tick[t].todo) > 0
  BY DEF TickInv
<1>3. Len(tick[t].todo) >= 1 /\ 1 \in 1..Len(tick[t].todo) /\ tick[t].todo # <<>>
  BY <1>1, <1>2
<1>4. Job(t) = tick[t].todo[1] /\ Job(t) \in JobType
  BY <1>1, <1>3 DEF Job
<1>5. Fits(t, Job(t))
  BY <1>3, <1>4 DEF TickInv
<1> QED BY <1>1, <1>3, <1>4, <1>5 DEF Running

\* What a step of tick t does to the ticks.
Acts(t) ==
    /\ Running(t)
    /\ tick' \in [Ticks -> TickType]
    /\ \A u \in Ticks : u # t => tick'[u] = tick[u]
    /\ tick'[t].pc # "idle" => tick[t].excuse \subseteq tick'[t].excuse

\* The others are not alone, so the books may grow under them.
LEMMA Beside ==
    ASSUME BraiinsInv, NEW t \in Ticks, Acts(t),
           ledger \subseteq ledger', DOMAIN placed \subseteq DOMAIN placed'
    PROVE  /\ \A u \in Ticks : u # t => TickInv(u)'
           /\ Overlapped'
<1>1. ASSUME NEW u \in Ticks, u # t PROVE TickInv(u)'
  <2>1. tick'[u] = tick[u] /\ TickInv(u)
    BY <1>1 DEF Acts, BraiinsInv
  <2>2. tick[u] \in TickType
    BY DEF BraiinsInv, Typed
  <2>3. CASE tick[u].pc = "idle"
    <3>1. Len(tick[u].todo) \in Nat /\ ~(Len(tick[u].todo) > 0)
      BY <2>1, <2>2, <2>3 DEF TickInv, TickType
    <3>2. \A i \in 1..Len(tick[u].todo) : FALSE
      BY <3>1
    <3> QED BY <2>1, <2>3, <3>1, <3>2 DEF TickInv
  <2>4. CASE tick[u].pc # "idle"
    <3>1. ~Alone(u) /\ ~Alone(u)'
      BY <1>1, <2>1, <2>4 DEF BraiinsInv, Overlapped, Running, Acts, Alone
    <3>2. tick'[u].excuse # {}
      BY <2>1, <3>1 DEF Alone
    <3>3. \A j \in JobType : Fits(u, j) => Fits(u, j)'
      BY <3>1, <3>2 DEF Fits
    <3>4. \A i \in 1..Len(tick[u].todo) : tick[u].todo[i] \in JobType
      BY <2>2 DEF TickType
    <3>5. \A i \in 1..Len(tick'[u].todo) : Fits(u, tick[u].todo[i])'
      BY <2>1, <3>3, <3>4 DEF TickInv, Fits, Alone
    <3> QED BY <2>1, <3>1, <3>5 DEF TickInv
  <2> QED BY <2>3, <2>4
<1>2. Overlapped'
  <2> SUFFICES ASSUME NEW u \in Ticks, NEW w \in Ticks, u # w,
                      tick'[u].pc # "idle", tick'[w].pc # "idle"
               PROVE  "overlap" \in tick'[u].excuse
    BY DEF Overlapped, Running, Alone
  <2>1. tick[u].pc # "idle" /\ tick[w].pc # "idle"
    BY DEF Acts, Running
  <2>2. "overlap" \in tick[u].excuse
    BY <2>1 DEF BraiinsInv, Overlapped, Running, Alone
  <2> QED BY <2>2 DEF Acts
<1> QED BY <1>1, <1>2

\* A step that leaves the ticks and the books alone.
LEMMA Around ==
    ASSUME BraiinsInv, NEW t \in Ticks,
           tick'[t].pc = tick[t].pc, tick'[t].own = tick[t].own,
           tick'[t].cooling = tick[t].cooling, tick'[t].todo = tick[t].todo,
           tick[t].excuse \subseteq tick'[t].excuse,
           ledger' = ledger, placed' = placed, stamps' \subseteq stamps,
           DOMAIN bids \subseteq DOMAIN bids', Ours' \subseteq Ours
    PROVE  TickInv(t)'
<1>1. TickInv(t) /\ tick[t] \in TickType /\ ledger \subseteq DOMAIN bids
  BY DEF BraiinsInv, Typed
<1>2. Alone(t)' => Alone(t)
  BY DEF Alone
<1>3. tick'[t].excuse = {} => tick[t].excuse = {}
  OBVIOUS
<1>4. DOMAIN bids # ledger => DOMAIN bids' # ledger'
  BY <1>1
<1>5. \A j \in JobType : Fits(t, j) => Fits(t, j)'
  BY <1>2, <1>3, <1>4 DEF Fits
<1>6. \A i \in 1..Len(tick[t].todo) : tick[t].todo[i] \in JobType
  BY <1>1 DEF TickType
<1>7. \A i \in 1..Len(tick'[t].todo) : Fits(t, tick[t].todo[i])'
  BY <1>1, <1>5, <1>6 DEF TickInv, Fits, Alone
<1> QED BY <1>1, <1>2, <1>7 DEF TickInv
\* A tick is done with its first job.  A STAMP is followed by nothing that lowers a bid.
LEMMA Dropped ==
    ASSUME BraiinsInv, NEW t \in Ticks, tick[t].pc = "execute", DropJob(t),
           ledger \subseteq ledger', DOMAIN placed \subseteq DOMAIN placed',
           stamps' \subseteq stamps \/ Job(t).kind = "STAMP"
    PROVE  Acts(t) /\ TickInv(t)'
<1> DEFINE s == tick[t].todo
           n == Len(s)
<1>1. /\ TickInv(t) /\ Typed /\ tick[t] \in TickType /\ tick \in [Ticks -> TickType]
      /\ s \in Seq(JobType) /\ n \in Nat /\ n >= 1 /\ Job(t) = s[1] /\ Running(t)
  BY JobFacts DEF BraiinsInv, Typed
<1>2. CASE n = 1
  <2>1. tick' = [tick EXCEPT ![t] = Idle]
    BY <1>1, <1>2 DEF DropJob
  <2>2. tick'[t] = Idle /\ tick' \in [Ticks -> TickType]
        /\ \A u \in Ticks : u # t => tick'[u] = tick[u]
    BY <1>1, <2>1, IdleTick
  <2>3. \A i \in 1..Len(tick'[t].todo) : FALSE
    BY <2>2, IdleTick
  <2>4. TickInv(t)'
    BY <2>2, <2>3, IdleTick DEF TickInv, Shape
  <2> QED BY <1>1, <2>2, <2>4, IdleTick DEF Acts
<1>3. CASE n # 1
  <2> DEFINE r == Tail(s)
  <2>1. tick' = [tick EXCEPT ![t] = [@ EXCEPT !.todo = r]]
    BY <1>1, <1>3 DEF DropJob
  <2>2. r \in Seq(JobType) /\ Len(r) = n - 1 /\ \A i \in 1..Len(r) : r[i] = s[i + 1]
    BY <1>1
  <2>3. \A i \in 1..Len(r) : i + 1 \in 1..n
    BY <1>1, <2>2
  <2> HIDE DEF r, s, n
  <2>4. tick'[t] = [tick[t] EXCEPT !.todo = r]
        /\ \A u \in Ticks : u # t => tick'[u] = tick[u]
    BY <1>1, <2>1
  <2>5. tick'[t] \in TickType /\ tick' \in [Ticks -> TickType]
    <3>1. tick'[t] \in TickType
      BY <1>1, <2>2, <2>4 DEF TickType
    <3> QED BY <1>1, <2>1, <3>1
  <2>6. /\ tick'[t].pc = tick[t].pc /\ tick'[t].own = tick[t].own
        /\ tick'[t].cooling = tick[t].cooling /\ tick'[t].todo = r
        /\ tick'[t].excuse = tick[t].excuse
    BY <1>1, <2>4 DEF TickType
  <2>7. Shape(s) /\ \A i \in 1..n : Fits(t, s[i]) /\ s[i] \in JobType
    BY <1>1 DEF TickInv, s, n
  <2>8. ASSUME NEW i \in 1..Len(r)
        PROVE  /\ r[i].kind \notin {"CREATE_BID", "PAUSE", "INSERT", "STAMP"}
               /\ r[i].kind = "EDIT_PRICE" =>
                      \A j \in 1..Len(r) : i < j => r[j].kind = "EDIT_SPEED"
               /\ r[i].kind = "EDIT_PRICE" => Job(t).kind # "STAMP"
               /\ Fits(t, r[i]) /\ r[i] \in JobType
    <3>0. n \in Nat /\ n >= 1 /\ Len(r) = n - 1
      BY <1>1, <2>2
    <3>1. r[i] = s[i + 1] /\ i + 1 \in 1..n /\ i + 1 # 1 /\ 1 \in 1..n /\ 1 < i + 1
      BY <2>2, <2>3, <3>0
    <3>2. r[i].kind \notin {"CREATE_BID", "PAUSE", "INSERT", "STAMP"}
      BY <1>3, <2>7, <3>1 DEF Shape, n
    <3>3. ASSUME r[i].kind = "EDIT_PRICE", NEW j \in 1..Len(r), i < j
          PROVE  r[j].kind = "EDIT_SPEED"
      <4>1. r[j] = s[j + 1] /\ j + 1 \in 1..n /\ i + 1 < j + 1
        BY <2>2, <2>3, <3>3
      <4> QED BY <2>7, <3>1, <3>3, <4>1 DEF Shape, n
    <3>4. ASSUME r[i].kind = "EDIT_PRICE" PROVE Job(t).kind # "STAMP"
      <4>1. CASE s[1].kind = "STAMP"
        <5>1. s[i + 1].kind = "EDIT_SPEED"
          BY <2>7, <3>1, <4>1 DEF Shape, n
        <5> QED BY <3>1, <3>4, <5>1
      <4> QED BY <1>1, <4>1
    <3> QED BY <2>7, <3>1, <3>2, <3>3, <3>4
  <2>9. Shape(r)
    BY <2>8 DEF Shape
  <2>10. \A j \in JobType :
            Fits(t, j) /\ j.kind \notin {"CREATE_BID", "PAUSE", "INSERT", "STAMP"}
            /\ (j.kind = "EDIT_PRICE" => Job(t).kind # "STAMP")
                => Fits(t, j)'
    BY <2>6 DEF Fits, Alone
  <2>11. ASSUME NEW i \in 1..Len(r) PROVE \E j \in JobType : j = r[i] /\ Fits(t, j)'
    BY <2>8, <2>10
  <2>12. \A i \in 1..Len(tick'[t].todo) : Fits(t, tick[t].todo[i])'
    BY <2>6, <2>11 DEF Fits, Alone
  <2>13. Len(tick'[t].todo) > 0 /\ tick'[t].pc = "execute"
    BY <1>1, <1>3, <2>2, <2>6
  <2>14. TickInv(t)'
    BY <1>1, <2>6, <2>9, <2>12, <2>13 DEF TickInv
  <2> QED BY <1>1, <2>4, <2>5, <2>6, <2>14 DEF Acts
<1> QED BY <1>2, <1>3

\* The answer to a create or to a decrease is followed by a write.
LEMMA Written ==
    ASSUME BraiinsInv, NEW t \in Ticks, tick[t].pc = "execute", NEW b \in Bids,
           NEW kind, ThenWrite(t, kind, b),
           \/ Job(t).kind = "CREATE_BID" /\ kind = "INSERT" /\ b \in DOMAIN placed'
           \/ Job(t).kind = "EDIT_PRICE" /\ kind = "STAMP" /\ b \in ledger,
           ledger' = ledger, stamps' = stamps
    PROVE  /\ Acts(t) /\ TickInv(t)'
           /\ tick'[t].pc = "execute" /\ Job(t)'.kind = kind /\ Job(t)'.bid = b
<1> DEFINE s == tick[t].todo
           n == Len(s)
           w == [s[1] EXCEPT !.kind = kind, !.bid = b]
           r == [s EXCEPT ![1] = w]
<1>1. /\ TickInv(t) /\ Typed /\ tick[t] \in TickType /\ tick \in [Ticks -> TickType]
      /\ s \in Seq(JobType) /\ n \in Nat /\ n >= 1 /\ Job(t) = s[1] /\ Running(t)
      /\ s[1] \in JobType
  BY JobFacts DEF BraiinsInv, Typed
<1>2. w \in JobType /\ w.kind = kind /\ w.bid = b
  BY <1>1 DEF JobType, Kinds
<1>3. tick' = [tick EXCEPT ![t] = [@ EXCEPT !.todo = r]]
  BY <1>1 DEF ThenWrite
<1> HIDE DEF w
<1>4. r \in Seq(JobType) /\ Len(r) = n /\ r[1] = w /\ \A i \in 1..n : i # 1 => r[i] = s[i]
  BY <1>1, <1>2
<1>5. Shape(s) /\ \A i \in 1..n : Fits(t, s[i]) /\ s[i] \in JobType
  BY <1>1 DEF TickInv
<1> HIDE DEF s, n, r
<1>6. tick'[t] = [tick[t] EXCEPT !.todo = r]
      /\ \A u \in Ticks : u # t => tick'[u] = tick[u]
  BY <1>1, <1>3
<1>7. tick'[t] \in TickType /\ tick' \in [Ticks -> TickType]
  <2>1. tick'[t] \in TickType
    BY <1>1, <1>4, <1>6 DEF TickType
  <2> QED BY <1>1, <1>3, <2>1
<1>8. /\ tick'[t].pc = tick[t].pc /\ tick'[t].own = tick[t].own
      /\ tick'[t].cooling = tick[t].cooling /\ tick'[t].todo = r
      /\ tick'[t].excuse = tick[t].excuse
  BY <1>1, <1>6 DEF TickType
<1>9. ASSUME NEW i \in 1..n, i # 1
      PROVE  /\ r[i] = s[i] /\ s[1].kind = "EDIT_PRICE" /\ r[i].kind = "EDIT_SPEED"
             /\ r[i].bid \in ledger
  <2>1. r[i] = s[i] /\ 1 \in 1..n /\ 1 < i
    BY <1>1, <1>4, <1>9
  <2>2. s[1].kind # "CREATE_BID"
    BY <1>5, <2>1, <1>1, <1>9 DEF Shape, n
  <2>3. s[1].kind = "EDIT_PRICE"
    BY <1>1, <2>2
  <2>4. s[i].kind = "EDIT_SPEED"
    BY <1>5, <2>1, <2>3 DEF Shape, n
  <2>5. s[i].bid \in ledger
    BY <1>5, <2>4 DEF Fits
  <2> QED BY <2>1, <2>3, <2>4, <2>5
<1>10. Shape(r)
  <2>1. kind = "INSERT" => n = 1
    BY <1>1, <1>5 DEF Shape, n
  <2> SUFFICES ASSUME NEW i \in 1..n
               PROVE  /\ r[i].kind \in {"CREATE_BID", "PAUSE", "INSERT"} => n = 1
                      /\ r[i].kind \in {"EDIT_PRICE", "STAMP"} =>
                             \A j \in 1..n : i < j => r[j].kind = "EDIT_SPEED"
                      /\ r[i].kind \in {"INSERT", "STAMP"} => i = 1
    BY <1>4 DEF Shape
  <2>2. CASE i = 1
    <3>1. r[i].kind = kind /\ kind \in {"INSERT", "STAMP"}
      BY <1>2, <1>4, <2>2
    <3>2. \A j \in 1..n : i < j => j # 1
      BY <2>2
    <3> QED BY <1>9, <2>1, <2>2, <3>1, <3>2
  <2>3. CASE i # 1
    BY <1>9, <2>3
  <2> QED BY <2>2, <2>3
<1>11. ASSUME NEW i \in 1..n PROVE \E j \in JobType : j = r[i] /\ Fits(t, j)'
  <2>1. CASE i = 1
    <3>1. \A j \in JobType : j.kind = kind /\ j.bid = b => Fits(t, j)'
      BY <1>8 DEF Fits
    <3> QED BY <1>2, <1>4, <2>1, <3>1
  <2>2. CASE i # 1
    <3>1. \A j \in JobType : j.kind = "EDIT_SPEED" /\ j.bid \in ledger => Fits(t, j)'
      BY DEF Fits
    <3> QED BY <1>5, <1>9, <2>2, <3>1
  <2> QED BY <2>1, <2>2
<1>12. \A i \in 1..Len(tick'[t].todo) : Fits(t, tick[t].todo[i])'
  BY <1>4, <1>8, <1>11 DEF Fits, Alone
<1>13. TickInv(t)'
  BY <1>1, <1>4, <1>8, <1>10, <1>12 DEF TickInv
<1>14. Job(t)' = w
  <2>1. r # <<>>
    BY <1>1, <1>4
  <2> QED BY <1>4, <1>8, <2>1 DEF Job
<1> QED BY <1>1, <1>2, <1>6, <1>7, <1>8, <1>13, <1>14 DEF Acts
-----------------------------------------------------------------------------
(* What a tick decides. *)

LEMMA PlansFacts ==
    ASSUME NEW R, NEW f \in Holdings, NEW k \in Knowledge,
           NEW todo \in PlansOn(R)[f][k]
    PROVE  Planned(todo, DOMAIN f, k)
<1>1. PlansOn(R)[f][k] = {Plan(f, k, r, fee) : r \in R, fee \in Fees(f)}
  BY DEF PlansOn
<1>2. PICK r, fee : todo = Plan(f, k, r, fee)
  BY <1>1
<1>3. PICK S \in SUBSET Bids : f \in [S -> {"live", "dying"}]
  BY DEF Holdings
<1>4. f = [b \in S |-> f[b]] /\ DOMAIN f = S
  BY <1>3
<1>5. Planned(Plan([b \in S |-> f[b]], k, r, fee), S, k)
  BY PlanFacts
<1> QED BY <1>2, <1>4, <1>5

LEMMA DecidedFacts ==
    ASSUME Typed, NEW t \in Ticks, NEW seen \in SUBSET Listed, NEW excuse,
           Decide(t, seen, excuse), priced' \in BOOLEAN, misses' \in 0..DatumDown
    PROVE  \E todo, k :
               /\ AfterObserve(t, todo, excuse)
               /\ todo = <<>> \/ Planned(todo, seen \cap tick[t].own, k)
               /\ k.strangers <=> seen # seen \cap tick[t].own
               /\ k.cooling = tick[t].cooling
<1> DEFINE owned == seen \cap tick[t].own
           f == [b \in owned |-> bids[b]]
           k == [strangers |-> seen # owned, datumDown |-> misses' = DatumDown,
                 cooling |-> tick[t].cooling]
           plans == IF priced' THEN TradingPlans ELSE UnpricedPlans
<1>1. PICK todo \in (IF tick[t].mode # "LIVE" THEN {<<>>} ELSE plans[f][k]) :
          AfterObserve(t, todo, excuse)
  BY DEF Decide
<1>2. todo = <<>> \/ todo \in plans[f][k]
  BY <1>1
<1>3. /\ owned \subseteq Bids /\ \A b \in owned : bids[b] \in {"live", "dying"}
      /\ tick[t].cooling \in SUBSET Bids
  BY DEF Typed, Listed, Standing, Statuses, TickType
<1>4. k \in Knowledge /\ (k.strangers <=> seen # owned) /\ k.cooling = tick[t].cooling
  <2>1. (seen # owned) \in BOOLEAN /\ (misses' = DatumDown) \in BOOLEAN
    OBVIOUS
  <2> HIDE DEF owned
  <2> QED BY <1>3, <2>1 DEF Knowledge
<1> HIDE DEF k, owned
<1>5. f \in Holdings /\ DOMAIN f = owned
  <2>1. f \in [owned -> {"live", "dying"}] /\ owned \in SUBSET Bids
    BY <1>3
  <2> QED BY <2>1 DEF Holdings
<1> HIDE DEF f
<1>6. plans = PlansOn(Trading) \/ plans = PlansOn(Unpriced)
  BY DEF TradingPlans, UnpricedPlans
<1> HIDE DEF plans
<1>7. todo = <<>> \/ Planned(todo, owned, k)
  <2>1. CASE todo \in plans[f][k]
    <3>1. todo \in PlansOn(Trading)[f][k] \/ todo \in PlansOn(Unpriced)[f][k]
      BY <1>6, <2>1
    <3> QED BY <1>4, <1>5, <3>1, PlansFacts
  <2> QED BY <1>2, <2>1
<1> QED BY <1>1, <1>4, <1>7 DEF owned

\* The jobs of a tick that has observed fit what it knew.
LEMMA Decided ==
    ASSUME BraiinsInv, NEW t \in Ticks, tick[t].pc = "observe",
           NEW seen \in SUBSET Listed, NEW excuse \in SUBSET Excuses,
           Decide(t, seen, excuse), priced' \in BOOLEAN, misses' \in 0..DatumDown,
           seen = Listed \/ (seen = {} /\ excuse # {}),
           excuse = {} => Unlisted = {},
           bids' = bids, placed' = placed, ledger' = ledger, stamps' = stamps
    PROVE  Acts(t) /\ TickInv(t)'
<1>1. /\ Typed /\ TickInv(t) /\ tick[t] \in TickType /\ tick \in [Ticks -> TickType]
      /\ Running(t) /\ tick[t].own \subseteq ledger
  BY DEF BraiinsInv, Typed, Running, TickInv
<1>2. PICK todo, k :
          /\ AfterObserve(t, todo, excuse)
          /\ todo = <<>> \/ Planned(todo, seen \cap tick[t].own, k)
          /\ k.strangers <=> seen # seen \cap tick[t].own
          /\ k.cooling = tick[t].cooling
  BY <1>1, DecidedFacts
<1>3. CASE todo = <<>>
  <2>1. tick' = [tick EXCEPT ![t] = Idle]
    BY <1>2, <1>3 DEF AfterObserve
  <2>2. tick'[t] = Idle /\ tick' \in [Ticks -> TickType]
        /\ \A u \in Ticks : u # t => tick'[u] = tick[u]
    BY <1>1, <2>1, IdleTick
  <2>3. \A i \in 1..Len(tick'[t].todo) : FALSE
    BY <2>2, IdleTick
  <2>4. TickInv(t)'
    BY <2>2, <2>3, IdleTick DEF TickInv, Shape
  <2> QED BY <1>1, <2>2, <2>4, IdleTick DEF Acts
<1>4. CASE todo # <<>>
  <2> DEFINE owned == seen \cap tick[t].own
             new == [pc |-> "execute", mode |-> "LIVE", own |-> {}, cooling |-> {},
                     todo |-> todo, excuse |-> tick[t].excuse \cup excuse]
  <2>1. tick' = [tick EXCEPT ![t] = new]
    BY <1>2, <1>4 DEF AfterObserve
  <2>2. Planned(todo, owned, k) /\ todo \in Seq(JobType) /\ Shape(todo)
        /\ Len(todo) \in Nat /\ Len(todo) > 0
    <3>1. Planned(todo, owned, k) /\ todo \in Seq(JobType) /\ Shape(todo)
      BY <1>2, <1>4 DEF Planned
    <3> QED BY <1>4, <3>1
  <2>3. new \in TickType
    BY <1>1, <2>2 DEF TickType, RunModes
  <2>4. /\ new.pc = "execute" /\ new.own = {} /\ new.cooling = {} /\ new.todo = todo
        /\ new.excuse = tick[t].excuse \cup excuse
    OBVIOUS
  <2> HIDE DEF new
  <2>5. tick'[t] = new /\ tick' \in [Ticks -> TickType]
        /\ \A u \in Ticks : u # t => tick'[u] = tick[u]
    BY <1>1, <2>1, <2>3
  <2>6. ~("overlap" \in new.excuse) => tick[t].own = ledger /\ stamps \subseteq k.cooling
    BY <1>1, <1>2, <2>4 DEF TickInv, Alone
  <2>7. k.strangers /\ ~("overlap" \in new.excuse) => DOMAIN bids # ledger
    BY <1>2, <2>6 DEF Listed, Standing
  <2>8. ~k.strangers /\ owned = {} /\ new.excuse = {} => Ours = {}
    <3> SUFFICES ASSUME ~k.strangers, owned = {}, new.excuse = {} PROVE Ours = {}
      OBVIOUS
    <3>1. seen = Listed /\ Unlisted = {} /\ Listed = {}
      BY <1>2, <2>4
    <3> QED BY <3>1 DEF Ours, Listed, Unlisted, Standing
  <2>9. ASSUME NEW i \in 1..Len(todo) PROVE \E j \in JobType : j = todo[i] /\ Fits(t, j)'
    <3>1. /\ todo[i].kind \notin {"INSERT", "STAMP"} /\ todo[i] \in JobType
          /\ todo[i].kind = "PAUSE" => k.strangers
          /\ todo[i].kind = "CREATE_BID" => ~k.strangers /\ owned = {}
          /\ todo[i].kind \in {"CANCEL_BID", "EDIT_PRICE", "EDIT_SPEED"} =>
                 todo[i].bid \in owned
          /\ todo[i].kind = "EDIT_PRICE" /\ todo[i].down => todo[i].bid \notin k.cooling
      BY <2>2 DEF Planned
    <3>2. Ours' = Ours
      BY DEF Ours, Standing
    <3>3. owned \subseteq ledger
      BY <1>1
    <3> HIDE DEF owned
    <3>4. \A j \in JobType :
             j.kind \notin {"INSERT", "STAMP"}
             /\ (j.kind = "PAUSE" => k.strangers)
             /\ (j.kind = "CREATE_BID" => ~k.strangers /\ owned = {})
             /\ (j.kind \in {"CANCEL_BID", "EDIT_PRICE", "EDIT_SPEED"} => j.bid \in owned)
             /\ (j.kind = "EDIT_PRICE" /\ j.down => j.bid \notin k.cooling)
                 => Fits(t, j)'
      BY <2>5, <2>6, <2>7, <2>8, <3>2, <3>3 DEF Fits, Alone
    <3> QED BY <3>1, <3>4
  <2>10. \A i \in 1..Len(tick'[t].todo) : Fits(t, tick[t].todo[i])'
    BY <2>4, <2>5, <2>9 DEF Fits, Alone
  <2>11. TickInv(t)'
    BY <2>2, <2>4, <2>5, <2>10 DEF TickInv
  <2> QED BY <1>1, <2>4, <2>5, <2>11 DEF Acts
<1> QED BY <1>3, <1>4
-----------------------------------------------------------------------------
(* The steps. *)

\* A decrease stays accounted for: no tick is done with a stamp it did not write.
LEMMA StampsKept ==
    ASSUME BraiinsInv, NEW t \in Ticks, \A u \in Ticks : u # t => tick'[u] = tick[u],
           upsets' \in Nat, upsets' >= upsets,
           recent' \ stamps' \subseteq recent \ stamps,
           Executing(t, "STAMP") => upsets' > 0 \/ Job(t).bid \in stamps'
    PROVE  LostStamps'
<1> SUFFICES ASSUME NEW b \in recent' \ stamps', ~(upsets' > 0)
             PROVE  \E u \in Ticks : Executing(u, "STAMP")' /\ Job(u)'.bid = b
  BY DEF LostStamps
<1>1. upsets \in Nat /\ ~(upsets > 0)
  BY BidAssumption DEF BraiinsInv, Typed
<1>2. b \in recent \ stamps
  OBVIOUS
<1>3. PICK u \in Ticks : Executing(u, "STAMP") /\ Job(u).bid = b
  BY <1>1, <1>2 DEF BraiinsInv, LostStamps
<1>4. u # t
  BY <1>3
<1>5. Executing(u, "STAMP")' /\ Job(u)'.bid = b
  BY <1>3, <1>4 DEF Executing, Job
<1> QED BY <1>5

LEMMA TwinsKept ==
    ASSUME BraiinsInv, placed' = placed, Ours' \subseteq Ours
    PROVE  TwinsHaveExcuse'
BY DEF BraiinsInv, TwinsHaveExcuse

LEMMA UpsetFacts ==
    ASSUME Typed, Upset \/ UNCHANGED upsets
    PROVE  /\ upsets \in Nat /\ upsets' \in 0..MaxUpsets /\ upsets' \in Nat
           /\ upsets' >= upsets /\ (Upset => upsets' > 0)
BY BidAssumption DEF Typed, Upset

\* The rest of a step of tick t that leaves Braiins alone.
LEMMA Quiet ==
    ASSUME BraiinsInv, NEW t \in Ticks, Acts(t), TickInv(t)', UNCHANGED braiins,
           ledger \subseteq ledger', ledger' \subseteq DOMAIN placed,
           stamps \subseteq stamps', stamps' \subseteq ledger',
           mode' \in RunModes, misses' \in 0..DatumDown, priced' \in BOOLEAN,
           Upset \/ UNCHANGED upsets,
           Executing(t, "STAMP") => Upset \/ Job(t).bid \in stamps'
    PROVE  BraiinsInv'
<1>1. Standing' = Standing /\ Ours' = Ours /\ placed' = placed /\ bids' = bids
      /\ recent' = recent
  BY DEF braiins, Standing, Ours
<1>2. Typed'
  BY <1>1, UpsetFacts DEF BraiinsInv, Typed, Acts
<1>3. Recorded'
  BY <1>1 DEF BraiinsInv, Recorded
<1>4. (\A u \in Ticks : TickInv(u)') /\ Overlapped'
  BY <1>1, Beside
<1>5. LostStamps'
  <2>1. upsets' \in Nat /\ upsets' >= upsets /\ (Upset => upsets' > 0)
    BY UpsetFacts DEF BraiinsInv
  <2>2. \A u \in Ticks : u # t => tick'[u] = tick[u]
    BY DEF Acts
  <2>3. recent' \ stamps' \subseteq recent \ stamps
    BY <1>1
  <2> QED BY <2>1, <2>2, <2>3, StampsKept
<1>6. TwinsHaveExcuse'
  BY <1>1, TwinsKept
<1> QED BY <1>2, <1>3, <1>4, <1>5, <1>6 DEF BraiinsInv

LEMMA ObserveStep ==
    ASSUME BraiinsInv, NEW t \in Ticks, Observe(t) \/ ObserveBlind(t)
    PROVE  BraiinsInv'
<1>1. /\ tick[t].pc = "observe" /\ PollDatum /\ priced' \in BOOLEAN
      /\ UNCHANGED <<braiins, database>> /\ (Upset \/ UNCHANGED upsets)
  BY DEF Observe, ObserveBlind
<1>2. misses' \in 0..DatumDown
  <2>1. misses' = 0 \/ misses' = Min({misses + 1, DatumDown})
    BY <1>1 DEF PollDatum
  <2>2. misses \in 0..DatumDown /\ DatumDown \in Nat
    BY BidAssumption DEF BraiinsInv, Typed
  <2>3. Min({misses + 1, DatumDown}) \in 0..DatumDown
    <3>1. misses + 1 \in Nat /\ \E x \in {misses + 1, DatumDown} :
              \A y \in {misses + 1, DatumDown} : x <= y
      BY <2>2
    <3>2. Min({misses + 1, DatumDown}) \in {misses + 1, DatumDown}
          /\ Min({misses + 1, DatumDown}) <= DatumDown
      BY <3>1 DEF Min
    <3> QED BY <2>2, <3>2
  <2> QED BY <2>1, <2>2, <2>3
<1>3. bids' = bids /\ placed' = placed /\ ledger' = ledger /\ stamps' = stamps
      /\ mode' = mode
  BY <1>1 DEF braiins, database
<1>4. Acts(t) /\ TickInv(t)'
  <2>1. CASE Observe(t)
    <3> DEFINE e == IF Unlisted = {} THEN {} ELSE {"lag"}
    <3>1. Decide(t, Listed, e)
      BY <2>1 DEF Observe
    <3>2. e \in SUBSET Excuses /\ (e = {} => Unlisted = {})
      BY DEF Excuses
    <3> HIDE DEF e
    <3> QED BY <1>1, <1>2, <1>3, <3>1, <3>2, Decided
  <2>2. CASE ObserveBlind(t)
    <3>1. Decide(t, {}, {"blind"})
      BY <2>2 DEF ObserveBlind
    <3>2. {"blind"} \in SUBSET Excuses /\ {"blind"} # {} /\ {} \in SUBSET Listed
      BY DEF Excuses
    <3> QED BY <1>1, <1>2, <1>3, <3>1, <3>2, Decided
  <2> QED BY <2>1, <2>2
<1>5. ~Executing(t, "STAMP")
  BY <1>1 DEF Executing
<1>6. ledger \subseteq DOMAIN placed /\ stamps \subseteq ledger /\ mode \in RunModes
  BY DEF BraiinsInv, Typed
<1> QED BY <1>1, <1>2, <1>3, <1>4, <1>5, <1>6, Quiet

\* The jobs that do not change a bid.
LEMMA WriteStep ==
    ASSUME BraiinsInv, NEW t \in Ticks,
           \/ EditSpeed(t) \/ Refused(t) \/ InsertRow(t) \/ SetLastPriceDecrease(t)
           \/ WriteFails(t) \/ PauseDaemon(t)
    PROVE  BraiinsInv'
<1>1. /\ tick[t].pc = "execute" /\ DropJob(t) /\ UNCHANGED braiins
      /\ misses' = misses /\ priced' = priced /\ (Upset \/ UNCHANGED upsets)
  BY DEF EditSpeed, Refused, InsertRow, SetLastPriceDecrease, WriteFails, PauseDaemon,
         Executing
<1>2. /\ Fits(t, Job(t)) /\ Typed
  BY <1>1, JobFacts DEF BraiinsInv
<1>3. /\ ledger' = ledger \/ (Job(t).kind = "INSERT" /\ ledger' = ledger \cup {Job(t).bid})
      /\ stamps' = stamps \/ (Job(t).kind = "STAMP" /\ stamps' = stamps \cup {Job(t).bid})
      /\ mode' = mode \/ mode' = "PAUSED"
      /\ Job(t).kind = "STAMP" => (Upset \/ Job(t).bid \in stamps')
  <2>1. CASE EditSpeed(t)
    BY <2>1 DEF EditSpeed, Executing, database
  <2>2. CASE Refused(t)
    BY <2>2 DEF Refused, Executing, database
  <2>3. CASE InsertRow(t)
    BY <2>3 DEF InsertRow, Executing
  <2>4. CASE SetLastPriceDecrease(t)
    BY <2>4 DEF SetLastPriceDecrease, Executing
  <2>5. CASE WriteFails(t)
    BY <2>5 DEF WriteFails, Executing, database
  <2>6. CASE PauseDaemon(t)
    BY <2>6 DEF PauseDaemon, Executing
  <2> QED BY <2>1, <2>2, <2>3, <2>4, <2>5, <2>6
<1>4. /\ ledger \subseteq ledger' /\ ledger' \subseteq DOMAIN placed
      /\ stamps \subseteq stamps' /\ stamps' \subseteq ledger' /\ mode' \in RunModes
  BY <1>2, <1>3 DEF Fits, Typed, RunModes
<1>5. placed' = placed
  BY <1>1 DEF braiins
<1>6. Acts(t) /\ TickInv(t)'
  BY <1>1, <1>3, <1>4, <1>5, Dropped
<1>7. misses' \in 0..DatumDown /\ priced' \in BOOLEAN
  BY <1>1, <1>2 DEF Typed
<1>8. Executing(t, "STAMP") => Upset \/ Job(t).bid \in stamps'
  BY <1>3 DEF Executing
<1> QED BY <1>1, <1>4, <1>6, <1>7, <1>8, Quiet
LEMMA CancelStep ==
    ASSUME BraiinsInv, NEW t \in Ticks, CancelBid(t) PROVE BraiinsInv'
<1> DEFINE c == Job(t).bid
<1>1. /\ tick[t].pc = "execute" /\ Job(t).kind = "CANCEL_BID" /\ c \in Listed
      /\ bids' = [bids EXCEPT ![c] = "dying"] /\ DropJob(t)
      /\ UNCHANGED <<recent, placed, database, misses, priced, upsets>>
  BY DEF CancelBid, Executing
<1>2. Typed /\ Fits(t, Job(t))
  BY <1>1, JobFacts DEF BraiinsInv
<1>3. c \in ledger
  BY <1>1, <1>2 DEF Fits
<1> HIDE DEF c
<1>4. /\ DOMAIN bids' = DOMAIN bids /\ \A b \in DOMAIN bids : b # c => bids'[b] = bids[b]
      /\ bids'[c] = "dying" /\ c \in DOMAIN bids
  BY <1>1 DEF Listed, Standing
<1>5. Standing' = Standing
  BY <1>1, <1>4 DEF Listed, Standing
<1>6. /\ Ours' = Ours /\ ledger' = ledger /\ stamps' = stamps /\ placed' = placed
      /\ recent' = recent /\ mode' = mode /\ misses' = misses /\ priced' = priced
      /\ upsets' = upsets
  BY <1>1, <1>5 DEF Ours, database
<1>7. Acts(t) /\ TickInv(t)'
  BY <1>1, <1>6, Dropped
<1>8. (\A u \in Ticks : TickInv(u)') /\ Overlapped'
  BY <1>6, <1>7, Beside
<1>9. Typed'
  BY <1>2, <1>4, <1>5, <1>6, <1>7 DEF Typed, Acts, Statuses
<1>10. Recorded'
  BY <1>3, <1>4, <1>5, <1>6 DEF BraiinsInv, Recorded, Standing
<1>11. LostStamps'
  <2>1. upsets' \in Nat /\ upsets' >= upsets
    BY <1>2, <1>6, UpsetFacts
  <2> QED BY <1>1, <1>6, <1>7, <2>1, StampsKept DEF Acts, Executing
<1>12. TwinsHaveExcuse'
  BY <1>6, TwinsKept
<1> QED BY <1>8, <1>9, <1>10, <1>11, <1>12 DEF BraiinsInv

LEMMA EditPriceStep ==
    ASSUME BraiinsInv, NEW t \in Ticks, EditPrice(t) PROVE BraiinsInv'
<1> DEFINE c == Job(t).bid
<1>1. /\ tick[t].pc = "execute" /\ Job(t).kind = "EDIT_PRICE" /\ c \in Listed
      /\ UNCHANGED <<bids, placed, database, misses, priced>>
      /\ \/ recent' = recent \cup {c} /\ ThenWrite(t, "STAMP", c) /\ UNCHANGED upsets
         \/ recent' = recent \cup {c} /\ DropJob(t) /\ Upset
         \/ recent' = recent /\ DropJob(t) /\ UNCHANGED upsets
  BY DEF EditPrice, Executing, Answered
<1>2. Typed /\ Fits(t, Job(t)) /\ c \in ledger
  <2>1. Typed /\ Fits(t, Job(t))
    BY <1>1, JobFacts DEF BraiinsInv
  <2> QED BY <1>1, <2>1 DEF Fits
<1>3. c \in Bids /\ c \in Standing
  BY <1>1, <1>2 DEF Typed, Listed, Standing
<1> HIDE DEF c
<1>4. /\ bids' = bids /\ Standing' = Standing /\ Ours' = Ours /\ ledger' = ledger
      /\ stamps' = stamps /\ placed' = placed /\ mode' = mode /\ misses' = misses
      /\ priced' = priced
  BY <1>1 DEF Ours, Standing, database
<1>5. /\ Acts(t) /\ TickInv(t)'
      /\ ThenWrite(t, "STAMP", c) => Executing(t, "STAMP")' /\ Job(t)'.bid = c
  <2>1. CASE ThenWrite(t, "STAMP", c)
    BY <1>1, <1>2, <1>3, <1>4, <2>1, Written DEF Executing
  <2>2. CASE DropJob(t) /\ ~ThenWrite(t, "STAMP", c)
    BY <1>1, <1>4, <2>2, Dropped
  <2> QED BY <1>1, <2>1, <2>2
<1>6. (\A u \in Ticks : TickInv(u)') /\ Overlapped'
  BY <1>4, <1>5, Beside
<1>7. upsets' \in 0..MaxUpsets /\ upsets' \in Nat /\ upsets' >= upsets
      /\ (Upset => upsets' > 0)
  BY <1>1, <1>2, UpsetFacts
<1>8. Typed'
  BY <1>1, <1>2, <1>3, <1>4, <1>5, <1>7 DEF Typed, Acts
<1>9. Recorded'
  BY <1>4 DEF BraiinsInv, Recorded
<1>10. LostStamps'
  <2>1. CASE upsets' > 0
    BY <2>1 DEF LostStamps
  <2>2. CASE recent' = recent
    BY <1>1, <1>4, <1>5, <1>7, <2>2, StampsKept DEF Acts, Executing
  <2>3. CASE recent' = recent \cup {c} /\ ThenWrite(t, "STAMP", c) /\ ~(upsets' > 0)
    <3> SUFFICES ASSUME NEW b \in recent' \ stamps'
                 PROVE  \E u \in Ticks : Executing(u, "STAMP")' /\ Job(u)'.bid = b
      BY DEF LostStamps
    <3>1. CASE b = c
      BY <1>5, <2>3, <3>1
    <3>2. CASE b # c
      <4>1. b \in recent \ stamps /\ ~(upsets > 0)
        BY <1>2, <1>4, <1>7, <2>3, <3>2, UpsetFacts, <1>1
      <4>2. PICK u \in Ticks : Executing(u, "STAMP") /\ Job(u).bid = b
        BY <4>1 DEF BraiinsInv, LostStamps
      <4>3. u # t
        BY <1>1, <4>2 DEF Executing
      <4>4. tick'[u] = tick[u]
        BY <1>5, <4>3 DEF Acts
      <4> QED BY <4>2, <4>4 DEF Executing, Job
    <3> QED BY <3>1, <3>2
  <2> QED BY <1>1, <1>7, <2>1, <2>2, <2>3
<1>11. TwinsHaveExcuse'
  BY <1>4, TwinsKept
<1> QED BY <1>6, <1>8, <1>9, <1>10, <1>11 DEF BraiinsInv

\* A bid is created on an account without one, or by a tick that has an excuse.
LEMMA PlaceStep ==
    ASSUME BraiinsInv, NEW t \in Ticks, PlaceBid(t) PROVE BraiinsInv'
<1>1. PICK b \in Bids \ DOMAIN bids :
          /\ tick[t].pc = "execute" /\ Job(t).kind = "CREATE_BID"
          /\ placed' = With(placed, b, tick[t].excuse)
          /\ \/ bids' = With(bids, b, "live")
             \/ bids' = With(bids, b, "unlisted")
          /\ ThenWrite(t, "INSERT", b) \/ DropJob(t)
          /\ Upset \/ UNCHANGED upsets
          /\ UNCHANGED <<recent, database, misses, priced>>
  BY DEF PlaceBid, Executing, Answered
<1>2. Typed /\ Fits(t, Job(t)) /\ tick[t].excuse \in SUBSET Excuses
  <2>1. Typed /\ Fits(t, Job(t))
    BY <1>1, JobFacts DEF BraiinsInv
  <2> QED BY <2>1 DEF Typed, TickType
<1>3. /\ DOMAIN bids' = DOMAIN bids \cup {b} /\ bids'[b] \in {"live", "unlisted"}
      /\ \A x \in DOMAIN bids : bids'[x] = bids[x]
  BY <1>1 DEF With
<1>4. /\ DOMAIN placed' = DOMAIN placed \cup {b} /\ placed'[b] = tick[t].excuse
      /\ \A x \in DOMAIN placed : placed'[x] = placed[x]
  <2>1. b \notin DOMAIN placed
    BY <1>2 DEF Typed
  <2> QED BY <1>1, <2>1 DEF With
<1>5. Standing' = Standing \cup {b} /\ Ours' = Ours \cup {b} /\ b \notin Ours
  <2>1. Standing' = Standing \cup {b}
    BY <1>3 DEF Standing
  <2>2. DOMAIN placed \subseteq DOMAIN bids
    BY <1>2 DEF Typed
  <2> QED BY <1>1, <1>4, <2>1, <2>2 DEF Ours, Standing
<1>6. /\ ledger' = ledger /\ stamps' = stamps /\ recent' = recent /\ mode' = mode
      /\ misses' = misses /\ priced' = priced
  BY <1>1 DEF database
<1>7. Acts(t) /\ TickInv(t)'
  <2>1. CASE ThenWrite(t, "INSERT", b)
    BY <1>1, <1>4, <1>6, <2>1, Written
  <2>2. CASE DropJob(t)
    BY <1>1, <1>4, <1>6, <2>2, Dropped
  <2> QED BY <1>1, <2>1, <2>2
<1>8. (\A u \in Ticks : TickInv(u)') /\ Overlapped'
  BY <1>4, <1>6, <1>7, Beside
<1>9. upsets' \in 0..MaxUpsets /\ upsets' \in Nat /\ upsets' >= upsets
  BY <1>1, <1>2, UpsetFacts
<1>10. Typed'
  BY <1>1, <1>2, <1>3, <1>4, <1>5, <1>6, <1>7, <1>9 DEF Typed, Acts, Statuses
<1>11. Recorded'
  BY <1>3, <1>5, <1>6 DEF BraiinsInv, Recorded, Standing
<1>12. LostStamps'
  BY <1>1, <1>6, <1>7, <1>9, StampsKept DEF Acts, Executing
<1>13. TwinsHaveExcuse'
  <2> SUFFICES ASSUME NEW x \in Ours', NEW y \in Ours', x # y
               PROVE  placed'[x] \cup placed'[y] # {}
    BY DEF TwinsHaveExcuse
  <2>1. CASE x # b /\ y # b
    <3>1. x \in Ours /\ y \in Ours /\ x \in DOMAIN placed /\ y \in DOMAIN placed
      BY <1>5, <2>1 DEF Ours
    <3> QED BY <1>4, <3>1 DEF BraiinsInv, TwinsHaveExcuse
  <2>2. CASE x = b \/ y = b
    <3>1. Ours # {}
      BY <1>5, <2>2
    <3>2. tick[t].excuse # {}
      BY <1>1, <1>2, <3>1 DEF Fits
    <3> QED BY <1>4, <2>2, <3>2
  <2> QED BY <2>1, <2>2
<1> QED BY <1>8, <1>10, <1>11, <1>12, <1>13 DEF BraiinsInv
LEMMA StartStep ==
    ASSUME BraiinsInv, NEW t \in Ticks, StartTick(t) PROVE BraiinsInv'
<1> DEFINE others == {u \in Ticks \ {t} : Running(u)}
           mark == IF others = {} THEN {} ELSE {"overlap"}
           new == [pc |-> "observe", mode |-> mode, own |-> ledger, cooling |-> stamps,
                   todo |-> <<>>, excuse |-> mark]
           more(u) == [tick[u] EXCEPT !.excuse = tick[u].excuse \cup
                                                     (IF u \in others THEN mark ELSE {})]
<1>1. /\ ~Running(t)
      /\ tick' = [u \in Ticks |-> IF u = t THEN new ELSE more(u)]
      /\ Upset \/ UNCHANGED upsets
      /\ UNCHANGED <<braiins, database, misses, priced>>
  BY DEF StartTick, getIds
<1>2. /\ Typed /\ tick \in [Ticks -> TickType] /\ mark \in SUBSET Excuses
      /\ ledger \subseteq Bids /\ stamps \subseteq ledger /\ mode \in RunModes
  BY DEF BraiinsInv, Typed, Excuses
<1>3. new \in TickType
  <2>1. <<>> \in Seq(JobType)
    OBVIOUS
  <2> HIDE DEF mark
  <2> QED BY <1>2, <2>1 DEF TickType
<1>4. ASSUME NEW u \in Ticks
      PROVE  /\ more(u) \in TickType
             /\ more(u).pc = tick[u].pc /\ more(u).own = tick[u].own
             /\ more(u).cooling = tick[u].cooling /\ more(u).todo = tick[u].todo
             /\ more(u).excuse = tick[u].excuse \cup (IF u \in others THEN mark ELSE {})
  <2>1. tick[u] \in TickType
    BY <1>2
  <2> HIDE DEF mark, others
  <2> QED BY <1>2, <2>1 DEF TickType
<1>5. new.pc = "observe" /\ new.own = ledger /\ new.cooling = stamps /\ new.todo = <<>>
      /\ new.excuse = mark /\ Len(new.todo) = 0
  OBVIOUS
<1> HIDE DEF new, more
<1>6. /\ tick' \in [Ticks -> TickType] /\ tick'[t] = new
      /\ \A u \in Ticks : u # t => tick'[u] = more(u)
  BY <1>1, <1>3, <1>4
<1>7. /\ bids' = bids /\ Standing' = Standing /\ Ours' = Ours /\ ledger' = ledger
      /\ stamps' = stamps /\ placed' = placed /\ mode' = mode /\ misses' = misses
      /\ priced' = priced /\ recent' = recent
  BY <1>1 DEF Ours, Standing, database, braiins
<1>8. upsets' \in 0..MaxUpsets /\ upsets' \in Nat /\ upsets' >= upsets
  BY <1>1, <1>2, UpsetFacts
<1>9. Typed'
  BY <1>2, <1>6, <1>7, <1>8 DEF Typed
<1>10. Recorded'
  BY <1>7 DEF BraiinsInv, Recorded
<1>11. ASSUME NEW u \in Ticks PROVE TickInv(u)'
  <2>1. CASE u = t
    <3>1. \A i \in 1..Len(tick'[u].todo) : FALSE
      BY <1>5, <1>6, <2>1
    <3> QED BY <1>2, <1>5, <1>6, <1>7, <2>1, <3>1 DEF TickInv, Shape
  <2>2. CASE u # t
    <3>1. /\ tick'[u].pc = tick[u].pc /\ tick'[u].own = tick[u].own
          /\ tick'[u].cooling = tick[u].cooling /\ tick'[u].todo = tick[u].todo
          /\ tick[u].excuse \subseteq tick'[u].excuse
      BY <1>4, <1>6, <2>2
    <3> QED BY <1>7, <3>1, Around
  <2> QED BY <2>1, <2>2
<1>12. Overlapped'
  <2> SUFFICES ASSUME NEW u \in Ticks, NEW w \in Ticks, u # w,
                      tick'[u].pc # "idle", tick'[w].pc # "idle"
               PROVE  "overlap" \in tick'[u].excuse
    BY DEF Overlapped, Running, Alone
  <2>1. CASE u = t
    <3>1. w \in others
      BY <1>4, <1>6, <2>1 DEF Running
    <3> QED BY <1>5, <1>6, <2>1, <3>1
  <2>2. CASE u # t /\ w = t
    <3>1. u \in others
      BY <1>4, <1>6, <2>2 DEF Running
    <3>2. "overlap" \in more(u).excuse
      BY <1>4, <3>1
    <3> QED BY <1>6, <2>2, <3>2
  <2>3. CASE u # t /\ w # t
    <3>1. tick[u].pc # "idle" /\ tick[w].pc # "idle"
      BY <1>4, <1>6, <2>3
    <3>2. "overlap" \in tick[u].excuse
      BY <3>1 DEF BraiinsInv, Overlapped, Running, Alone
    <3> QED BY <1>4, <1>6, <2>3, <3>2
  <2> QED BY <2>1, <2>2, <2>3
<1>13. LostStamps'
  <2> SUFFICES ASSUME NEW b \in recent \ stamps, ~(upsets' > 0)
               PROVE  \E u \in Ticks : Executing(u, "STAMP")' /\ Job(u)'.bid = b
    BY <1>7 DEF LostStamps
  <2>1. ~(upsets > 0)
    BY <1>1, <1>2, <1>8, UpsetFacts
  <2>2. PICK u \in Ticks : Executing(u, "STAMP") /\ Job(u).bid = b
    BY <2>1 DEF BraiinsInv, LostStamps
  <2>3. u # t
    BY <1>1, <2>2 DEF Executing, Running
  <2>4. tick'[u].pc = tick[u].pc /\ tick'[u].todo = tick[u].todo
    BY <1>4, <1>6, <2>3
  <2> QED BY <2>2, <2>4 DEF Executing, Job
<1>14. TwinsHaveExcuse'
  BY <1>7, TwinsKept
<1> QED BY <1>9, <1>10, <1>11, <1>12, <1>13, <1>14 DEF BraiinsInv

\* The steps of the operator, of Braiins and of time leave the ticks and the books alone.
LEMMA OutsideStep ==
    ASSUME BraiinsInv,
           \/ \E m \in Modes : SetMode(m)
           \/ \E b \in Bids : OperatorCancel(b) \/ ManualBid(b) \/ Surface(b) \/ Finish(b)
                                 \/ Expire(b)
    PROVE  BraiinsInv'
<1>1. /\ tick' = tick /\ misses' = misses /\ priced' = priced /\ placed' = placed
      /\ ledger' = ledger /\ (Upset \/ UNCHANGED upsets) /\ mode' \in RunModes
  <2>1. mode \in RunModes /\ Modes \subseteq RunModes
    BY BidAssumption DEF BraiinsInv, Typed
  <2>2. CASE \E m \in Modes : SetMode(m)
    BY <2>1, <2>2 DEF SetMode, process, braiins
  <2>3. CASE \E b \in Bids : OperatorCancel(b) \/ ManualBid(b) \/ Surface(b) \/ Finish(b)
                                \/ Expire(b)
    BY <2>1, <2>3 DEF OperatorCancel, ManualBid, Surface, Finish, Expire, process, database
  <2> QED BY <2>2, <2>3
<1>2. Typed /\ DOMAIN placed \subseteq DOMAIN bids
  BY DEF BraiinsInv, Typed
<1> DEFINE Moves ==
          /\ DOMAIN bids \subseteq DOMAIN bids' /\ DOMAIN bids' \subseteq Bids
          /\ \A b \in DOMAIN bids' : bids'[b] \in Statuses
          /\ recent' \subseteq Standing' /\ stamps' \subseteq stamps
          /\ recent' \ stamps' \subseteq recent \ stamps
          /\ \A b \in DOMAIN bids : bids[b] = "gone" => bids'[b] = "gone"
          /\ \A b \in DOMAIN bids' : bids'[b] = "dying" =>
                 b \in ledger \/ (b \in DOMAIN bids /\ bids[b] = "dying")
<1>3. Moves
  <2>0. /\ DOMAIN bids \subseteq Bids /\ \A b \in DOMAIN bids : bids[b] \in Statuses
        /\ recent \subseteq Standing
    BY <1>2 DEF Typed
  <2>1. CASE \E m \in Modes : SetMode(m)
    BY <2>0, <2>1 DEF SetMode, braiins, Standing
  <2>2. ASSUME NEW b \in Bids, OperatorCancel(b) PROVE Moves
    BY <2>0, <2>2 DEF OperatorCancel, database, Standing, Listed, Statuses
  <2>3. ASSUME NEW b \in Bids, ManualBid(b) PROVE Moves
    BY <2>0, <2>3 DEF ManualBid, database, Standing, Statuses, With
  <2>4. ASSUME NEW b \in Bids, Surface(b) PROVE Moves
    BY <2>0, <2>4 DEF Surface, database, Standing, Listed, Statuses
  <2>5. ASSUME NEW b \in Bids, Finish(b) PROVE Moves
    BY <2>0, <2>5 DEF Finish, database, Standing, Listed, Statuses
  <2>6. ASSUME NEW b \in Bids, Expire(b) PROVE Moves
    BY <2>0, <2>6 DEF Expire, Standing
  <2> QED BY <2>1, <2>2, <2>3, <2>4, <2>5, <2>6
<1>4. Ours' \subseteq Ours
  BY <1>1, <1>2, <1>3 DEF Ours, Standing
<1>5. upsets' \in 0..MaxUpsets /\ upsets' \in Nat /\ upsets' >= upsets
  BY <1>1, <1>2, UpsetFacts
<1>6. Typed'
  BY <1>1, <1>2, <1>3, <1>5 DEF Typed
<1>7. Recorded'
  BY <1>1, <1>3 DEF BraiinsInv, Recorded, Standing
<1>8. \A u \in Ticks : TickInv(u)'
  BY <1>1, <1>3, <1>4, Around
<1>9. Overlapped'
  BY <1>1 DEF BraiinsInv, Overlapped, Running, Alone
<1>10. LostStamps'
  <2>1. upsets > 0 => upsets' > 0
    BY <1>2, <1>5, <1>1, UpsetFacts
  <2> QED BY <1>1, <1>3, <2>1 DEF BraiinsInv, LostStamps, Executing, Job
<1>11. TwinsHaveExcuse'
  BY <1>1, <1>4, TwinsKept
<1> QED BY <1>6, <1>7, <1>8, <1>9, <1>10, <1>11 DEF BraiinsInv

LEMMA RestartStep == ASSUME BraiinsInv, Restart PROVE BraiinsInv'
<1>1. /\ Upset /\ tick' = [t \in Ticks |-> Idle] /\ misses' = 0 /\ priced' = FALSE
      /\ bids' = bids /\ recent' = recent /\ placed' = placed /\ ledger' = ledger
      /\ stamps' = stamps /\ \E setting \in BootModes : mode' = bootMode(setting)
  BY DEF Restart, braiins
<1>2. Typed /\ DatumDown \in Nat
  BY BidAssumption DEF BraiinsInv
<1>3. mode' \in RunModes
  BY <1>1, <1>2 DEF bootMode, Typed, RunModes
<1>4. Standing' = Standing /\ Ours' = Ours
  BY <1>1 DEF Standing, Ours
<1>5. upsets' \in 0..MaxUpsets /\ upsets' > 0
  BY <1>1, <1>2, UpsetFacts
<1>6. \A t \in Ticks : tick'[t] = Idle
  BY <1>1
<1>7. tick' \in [Ticks -> TickType]
  BY <1>1, IdleTick
<1>8. Typed'
  <2>1. misses' = 0 /\ priced' = FALSE
    BY <1>1
  <2>2. misses' \in 0..DatumDown
    BY <1>2, <2>1
  <2>3. priced' \in BOOLEAN
    BY <2>1
  <2> QED BY <1>1, <1>2, <1>3, <1>4, <1>5, <1>7, <2>2, <2>3 DEF Typed
<1>9. Recorded'
  BY <1>1, <1>4 DEF BraiinsInv, Recorded
<1>10. ASSUME NEW t \in Ticks PROVE TickInv(t)'
  <2>1. \A i \in 1..Len(tick'[t].todo) : FALSE
    BY <1>6, IdleTick
  <2> QED BY <1>6, <2>1, IdleTick DEF TickInv, Shape
<1>11. Overlapped'
  BY <1>6, IdleTick DEF Overlapped, Running
<1>12. LostStamps'
  BY <1>5 DEF LostStamps
<1>13. TwinsHaveExcuse'
  BY <1>1, <1>4, TwinsKept
<1> QED BY <1>8, <1>9, <1>10, <1>11, <1>12, <1>13 DEF BraiinsInv
-----------------------------------------------------------------------------

LEMMA InitInv == Init => BraiinsInv
<1> SUFFICES ASSUME Init PROVE BraiinsInv
  OBVIOUS
<1>1. /\ DOMAIN bids = {} /\ recent = {} /\ DOMAIN placed = {} /\ ledger = {}
      /\ stamps = {} /\ mode = "LIVE" /\ misses = 0 /\ priced = FALSE /\ upsets = 0
      /\ tick = [t \in Ticks |-> Idle]
  BY DEF Init
<1>2. tick \in [Ticks -> TickType] /\ \A t \in Ticks : tick[t] = Idle
  BY <1>1, IdleTick
<1>3. Typed
  <2>1. misses \in 0..DatumDown /\ upsets \in 0..MaxUpsets
    BY <1>1, BidAssumption
  <2>2. priced \in BOOLEAN
    BY <1>1
  <2> QED BY <1>1, <1>2, <2>1, <2>2 DEF Typed, RunModes
<1>4. Standing = {}
  BY <1>1 DEF Standing
<1>5. ASSUME NEW t \in Ticks PROVE TickInv(t)
  <2>1. \A i \in 1..Len(tick[t].todo) : FALSE
    BY <1>2, IdleTick
  <2> QED BY <1>2, <2>1, IdleTick DEF TickInv, Shape
<1>6. Overlapped
  BY <1>2, IdleTick DEF Overlapped, Running
<1> QED BY <1>1, <1>3, <1>4, <1>5, <1>6
        DEF BraiinsInv, Recorded, LostStamps, TwinsHaveExcuse, Ours

LEMMA NextInv == BraiinsInv /\ [Next]_vars => BraiinsInv'
<1> SUFFICES ASSUME BraiinsInv, [Next]_vars PROVE BraiinsInv'
  OBVIOUS
<1>1. ASSUME NEW t \in Ticks, StartTick(t) PROVE BraiinsInv'
  BY <1>1, StartStep
<1>2. ASSUME NEW t \in Ticks, Observe(t) \/ ObserveBlind(t) PROVE BraiinsInv'
  BY <1>2, ObserveStep
<1>3. ASSUME NEW t \in Ticks, Execute(t) PROVE BraiinsInv'
  BY <1>3, PlaceStep, EditPriceStep, CancelStep, WriteStep DEF Execute
<1>4. CASE Restart
  BY <1>4, RestartStep
<1>5. CASE \/ \E m \in Modes : SetMode(m)
           \/ \E b \in Bids : OperatorCancel(b) \/ ManualBid(b) \/ Surface(b) \/ Finish(b)
                                 \/ Expire(b)
  BY <1>5, OutsideStep
<1>6. CASE UNCHANGED vars
  BY <1>6 DEF vars, BraiinsInv, Typed, Recorded, TickInv, Fits, Overlapped, LostStamps,
              TwinsHaveExcuse, Ours, Standing, Running, Alone, Executing, Job, Shape
<1> QED BY <1>1, <1>2, <1>3, <1>4, <1>5, <1>6 DEF Next

LEMMA InvGivesBids == BraiinsInv => BidsInv
<1> SUFFICES ASSUME BraiinsInv PROVE BidsInv
  OBVIOUS
<1>1. Typed /\ Recorded
  BY DEF BraiinsInv
<1>2. /\ Range(bids) \subseteq {"unlisted", "live", "dying", "gone"}
      /\ Range(placed) \subseteq SUBSET Excuses
  BY <1>1 DEF Typed, Statuses, Range
<1>3. ASSUME NEW t \in Ticks
      PROVE  /\ tick[t].pc \in {"idle", "observe", "execute"} /\ tick[t].mode \in RunModes
             /\ tick[t].own \subseteq ledger /\ tick[t].cooling \subseteq ledger
             /\ tick[t].excuse \subseteq Excuses
             /\ \A i \in DOMAIN tick[t].todo : tick[t].todo[i] \in
                    [kind : Kinds, bid : Bids \cup {0}, down : BOOLEAN]
             /\ (tick[t].pc = "execute") = (tick[t].todo # <<>>)
  <2>1. TickInv(t) /\ tick[t] \in TickType
    BY DEF BraiinsInv, Typed
  <2>2. tick[t].todo \in Seq(JobType) /\ Len(tick[t].todo) \in Nat
    BY <2>1 DEF TickType
  <2>3. \A i \in DOMAIN tick[t].todo : tick[t].todo[i] \in JobType
    BY <2>2
  <2>4. (Len(tick[t].todo) > 0) <=> (tick[t].todo # <<>>)
    BY <2>2
  <2> QED BY <2>1, <2>3, <2>4 DEF TickInv, TickType, JobType
<1>4. TypeOK
  BY <1>1, <1>2, <1>3 DEF TypeOK, Typed
<1> QED BY <1>1, <1>4 DEF BidsInv, Recorded

THEOREM BraiinsTheorem == Spec => []BraiinsInv
BY InitInv, NextInv, PTL DEF Spec

\* The daemon cancels no bid that is not in its ledger, whatever is placed by hand, cancelled
\* or lost around it (BidsInv, with the type invariant).
THEOREM BidsTheorem == Spec => []BidsInv
BY BraiinsTheorem, InvGivesBids, PTL

\* Two bids of ours stand only if a tick that placed one ran beside another, could not read
\* the list, or read one that lagged.
THEOREM TwinsTheorem == Spec => []TwinsHaveExcuse
<1>1. BraiinsInv => TwinsHaveExcuse
  BY DEF BraiinsInv
<1> QED BY <1>1, BraiinsTheorem, PTL

\* The daemon does not pause itself over its own bids.
THEOREM AlarmTheorem == Spec => NoFalseAlarm
<1>1. ASSUME BraiinsInv, NEW t \in Ticks, PauseDaemon(t)
      PROVE  DOMAIN bids # ledger \/ "overlap" \in tick[t].excuse
  <2>1. tick[t].pc = "execute" /\ Job(t).kind = "PAUSE"
    BY <1>1 DEF PauseDaemon, Executing
  <2>2. Fits(t, Job(t))
    BY <1>1, <2>1, JobFacts DEF BraiinsInv
  <2> QED BY <2>1, <2>2 DEF Fits, Alone
<1>2. BraiinsInv /\ [Next]_vars =>
          [\A t \in Ticks :
              PauseDaemon(t) => DOMAIN bids # ledger \/ "overlap" \in tick[t].excuse]_vars
  BY <1>1
<1> QED BY <1>2, BraiinsTheorem, PTL DEF Spec, NoFalseAlarm

\* A bid is not lowered twice within the decrease period, unless a stamp was lost or two
\* ticks ran at once.
THEOREM DecreasesTheorem == Spec => DecreasesPaced
<1>1. ASSUME BraiinsInv, NEW t \in Ticks, EditPrice(t), Job(t).down, Job(t).bid \in recent
      PROVE  \/ "overlap" \in tick[t].excuse
             \/ Job(t).bid \notin stamps /\ upsets > 0
  <2>1. tick[t].pc = "execute" /\ Job(t).kind = "EDIT_PRICE"
    BY <1>1 DEF EditPrice, Executing
  <2>2. Fits(t, Job(t))
    BY <1>1, <2>1, JobFacts DEF BraiinsInv
  <2>3. CASE Alone(t)
    <3>1. Job(t).bid \notin stamps
      BY <1>1, <2>1, <2>2, <2>3 DEF Fits
    <3>2. CASE ~(upsets > 0)
      <4>1. PICK u \in Ticks : Executing(u, "STAMP")
        BY <1>1, <3>1, <3>2 DEF BraiinsInv, LostStamps
      <4>2. u # t /\ Running(u) /\ Running(t)
        BY <2>1, <4>1 DEF Executing, Running
      <4> QED BY <1>1, <2>3, <4>2 DEF BraiinsInv, Overlapped
    <3> QED BY <3>1, <3>2
  <2> QED BY <2>3 DEF Alone
<1>2. BraiinsInv /\ [Next]_vars =>
          [\A t \in Ticks :
              EditPrice(t) /\ Job(t).down /\ Job(t).bid \in recent
                  => \/ "overlap" \in tick[t].excuse
                     \/ Job(t).bid \notin stamps /\ upsets > 0]_vars
  BY <1>1
<1> QED BY <1>2, BraiinsTheorem, PTL DEF Spec, DecreasesPaced
=============================================================================
