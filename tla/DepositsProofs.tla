---------------------------- MODULE DepositsProofs ----------------------------
(***************************************************************************)
(* Proofs about the deposit watcher, for any number of deposits, polls and *)
(* upsets: what is passed over silently, and that money announced as sent  *)
(* back is not announced as available.                                     *)
(***************************************************************************)
EXTENDS Deposits, FiniteSetTheorems, TLAPS

JobKinds == Kinds \cup {"settle"}
Jobs == Txs \X JobKinds
Pages == UNION {[S -> Statuses] : S \in SUBSET Txs}
PollType == [pc : {"idle", "walk", "tell"}, page : Pages, notify : BOOLEAN,
             jobs : Seq(Jobs)]

\* The jobs a poll still has.
JobSet(p) == Range(polls[p].jobs)
Busy(p) == polls[p].pc # "idle"

\* What TypeOK says, and the types of the rest.
Typed ==
    /\ TypeOK
    /\ polls \in [Polls -> PollType]
    /\ alerts \in [Txs -> [Kinds -> Nat]]
    /\ backlog \subseteq Txs \X Kinds
    /\ overlapped \in BOOLEAN /\ hushed \in BOOLEAN /\ upsets \in Nat
    /\ \A p \in Polls :
           /\ \A e \in JobSet(p) : e[1] \in rows
           /\ \A tx \in DOMAIN polls[p].page : polls[p].page[tx] # "unknown"
           /\ polls[p].pc = "tell" => Job(p)[2] # "settle"

\* Polls one at a time, and none before the first.
OneByOne ==
    /\ ~overlapped => \A p, q \in Polls : Busy(p) /\ Busy(q) => p = q
    /\ ~hydrated => \A p \in Polls : ~Busy(p)

\* A deposit that was sent back stays so, on the page of a poll and in its jobs; and once it
\* was announced, no poll has its credit left to announce.
ReturnOk(p) ==
    /\ \A tx \in DOMAIN polls[p].page :
           polls[p].page[tx] = "returned" => status[tx] = "returned"
    /\ \A e \in JobSet(p) : e[1] \notin DOMAIN polls[p].page
    /\ \A tx \in Txs :
           <<tx, "returned">> \in JobSet(p)
               => status[tx] = "returned" /\ <<tx, "available">> \notin JobSet(p)
    /\ \A tx \in Txs :
           ~overlapped /\ alerts[tx]["returned"] > 0
               => /\ tx \in DOMAIN polls[p].page => polls[p].page[tx] = "returned"
                  /\ <<tx, "available">> \notin JobSet(p)

ReturnInv ==
    /\ \A tx \in Txs : alerts[tx]["returned"] > 0 => status[tx] = "returned"
    /\ \A p \in Polls : ReturnOk(p)

\* A quiet poll has nothing but the backlog before it.
QuietOk(p) ==
    ~hushed /\ Busy(p) /\ ~polls[p].notify
        => /\ \A tx \in DOMAIN polls[p].page :
                  \A k \in EventsOf(polls[p].page[tx]) : <<tx, k>> \in backlog
           /\ \A e \in JobSet(p) : e[2] # "settle" => e \in backlog

\* The event is still before the poll.
Ahead(p, e) ==
    \/ e \in JobSet(p)
    \/ e[1] \in DOMAIN polls[p].page /\ e[2] \in EventsOf(polls[p].page[e[1]])

\* As long as nothing has gone wrong: the backlog is flagged, or before a quiet poll; a poll
\* that speaks has none of it.
BaselineInv ==
    upsets = 0 =>
        /\ ~overlapped /\ ~hushed
        /\ ~hydrated => rows = {} /\ \A tx \in Txs : \A k \in Kinds : alerts[tx][k] = 0
        /\ \A e \in backlog : alerts[e[1]][e[2]] = 0
        /\ \A e \in backlog \ flags :
               \E p \in Polls : Busy(p) /\ ~polls[p].notify /\ Ahead(p, e)
        /\ \A p \in Polls : Busy(p) /\ polls[p].notify => JobSet(p) \cap backlog = {}

SilenceInv ==
    /\ ~hushed => enabled /\ silenced \subseteq backlog
    /\ \A p \in Polls : QuietOk(p)
    /\ BaselineInv

IInv == Typed /\ OneByOne /\ ReturnInv /\ SilenceInv

-----------------------------------------------------------------------------
(* Sequences and pages. *)

LEMMA TailRange ==
    ASSUME NEW S, NEW s \in Seq(S), s # << >>
    PROVE  /\ Tail(s) \in Seq(S)
           /\ Head(s) \in Range(s)
           /\ Range(s) = Range(Tail(s)) \cup {Head(s)}
<1>1. /\ Tail(s) \in Seq(S) /\ Len(Tail(s)) = Len(s) - 1
      /\ \A i \in 1..Len(Tail(s)) : Tail(s)[i] = s[i + 1]
      /\ Head(s) = s[1] /\ Len(s) \in Nat \ {0} /\ DOMAIN s = 1..Len(s)
      /\ DOMAIN Tail(s) = 1..Len(Tail(s))
  OBVIOUS
<1>2. Range(Tail(s)) \subseteq Range(s)
  BY <1>1 DEF Range
<1>3. Head(s) \in Range(s)
  BY <1>1 DEF Range
<1>4. ASSUME NEW x \in Range(s) PROVE x \in Range(Tail(s)) \cup {Head(s)}
  <2>1. PICK i \in 1..Len(s) : x = s[i]
    BY <1>1, <1>4 DEF Range
  <2>2. CASE i = 1
    BY <1>1, <2>1, <2>2
  <2>3. CASE i # 1
    <3>1. i - 1 \in 1..Len(Tail(s)) /\ Tail(s)[i - 1] = s[i]
      BY <1>1, <2>1, <2>3
    <3> QED BY <1>1, <2>1, <3>1 DEF Range
  <2> QED BY <2>2, <2>3
<1> QED BY <1>1, <1>2, <1>3, <1>4

LEMMA EmptyRange == Range(<< >>) = {} /\ DOMAIN << >> = {}
BY DEF Range

LEMMA OneRange == ASSUME NEW a PROVE Range(<<a>>) = {a}
BY DEF Range

LEMMA ConcatRange ==
    ASSUME NEW S, NEW s \in Seq(S), NEW t \in Seq(S)
    PROVE  s \o t \in Seq(S) /\ Range(s \o t) = Range(s) \cup Range(t)
<1> DEFINE u == s \o t
<1>1. /\ u \in Seq(S) /\ Len(u) = Len(s) + Len(t)
      /\ Len(s) \in Nat /\ Len(t) \in Nat
      /\ DOMAIN s = 1..Len(s) /\ DOMAIN t = 1..Len(t) /\ DOMAIN u = 1..Len(u)
      /\ \A i \in 1..Len(u) : u[i] = IF i <= Len(s) THEN s[i] ELSE t[i - Len(s)]
  OBVIOUS
<1>2. ASSUME NEW x \in Range(u) PROVE x \in Range(s) \cup Range(t)
  <2>1. PICK i \in 1..Len(u) : x = u[i]
    BY <1>1, <1>2 DEF Range
  <2>2. CASE i <= Len(s)
    BY <1>1, <2>1, <2>2 DEF Range
  <2>3. CASE ~(i <= Len(s))
    <3>1. i - Len(s) \in 1..Len(t) /\ x = t[i - Len(s)]
      BY <1>1, <2>1, <2>3
    <3> QED BY <1>1, <3>1 DEF Range
  <2> QED BY <2>2, <2>3
<1>3. ASSUME NEW x \in Range(s) PROVE x \in Range(u)
  <2>1. PICK i \in 1..Len(s) : x = s[i]
    BY <1>1, <1>3 DEF Range
  <2>2. i \in 1..Len(u) /\ u[i] = s[i]
    BY <1>1, <2>1
  <2> QED BY <1>1, <2>1, <2>2 DEF Range
<1>4. ASSUME NEW x \in Range(t) PROVE x \in Range(u)
  <2>1. PICK i \in 1..Len(t) : x = t[i]
    BY <1>1, <1>4 DEF Range
  <2>2. i + Len(s) \in 1..Len(u) /\ u[i + Len(s)] = t[i]
    BY <1>1, <2>1
  <2> QED BY <1>1, <2>1, <2>2 DEF Range
<1> QED BY <1>1, <1>2, <1>3, <1>4

\* What is left of a page.
LEMMA RestrictPage ==
    ASSUME NEW page \in Pages, NEW S \in SUBSET DOMAIN page
    PROVE  /\ Restrict(page, S) \in Pages
           /\ DOMAIN Restrict(page, S) = S
           /\ \A x \in S : Restrict(page, S)[x] = page[x]
<1>1. PICK D \in SUBSET Txs : page \in [D -> Statuses]
  BY DEF Pages
<1>2. /\ DOMAIN Restrict(page, S) = S
      /\ \A x \in S : Restrict(page, S)[x] = page[x]
  BY DEF Restrict
<1>3. Restrict(page, S) \in [S -> Statuses]
  BY <1>1 DEF Restrict
<1>4. S \in SUBSET Txs
  BY <1>1
<1> QED BY <1>2, <1>3, <1>4 DEF Pages

LEMMA EmptyPage == << >> \in Pages
<1>1. << >> \in [{} -> Statuses]
  OBVIOUS
<1> QED BY <1>1 DEF Pages

LEMMA PageTypes ==
    ASSUME NEW page \in Pages
    PROVE  DOMAIN page \subseteq Txs /\ \A tx \in DOMAIN page : page[tx] \in Statuses
BY DEF Pages

\* What a deposit's jobs are: what its status stands for and its row has no flag for.
LEMMA JobsForRange ==
    ASSUME NEW tx \in Txs, NEW seen \in Statuses \ {"unknown"}
    PROVE  /\ JobsFor(tx, seen) \in Seq(JobKinds)
           /\ \A k \in Range(JobsFor(tx, seen)) : k \in EventsOf(seen) \cup {"settle"}
           /\ \A k \in Range(JobsFor(tx, seen)) : <<tx, k>> \notin flags \/ k = "settle"
           /\ \A k \in EventsOf(seen) :
                  <<tx, k>> \notin flags => k \in Range(JobsFor(tx, seen))
<1> DEFINE due(k) == IF <<tx, k>> \in flags THEN << >> ELSE <<k>>
           settle == IF due("available") # << >> THEN <<"settle">> ELSE << >>
           back == IF seen = "returned" /\ due("returned") # << >>
                   THEN <<"returned">> \o settle ELSE << >>
           credit == IF seen = "credited" THEN due("available") ELSE << >>
           first == due("detected") \o back
<1>0. JobsFor(tx, seen) = first \o credit
  BY DEF JobsFor
<1>1. \A k \in Kinds :
          /\ due(k) \in Seq(JobKinds)
          /\ Range(due(k)) = (IF <<tx, k>> \in flags THEN {} ELSE {k})
          /\ (due(k) # << >>) <=> <<tx, k>> \notin flags
  <2> TAKE k \in Kinds
  <2>1. << >> \in Seq(JobKinds) /\ <<k>> \in Seq(JobKinds) /\ <<k>> # << >>
    BY DEF JobKinds
  <2> QED BY <2>1, EmptyRange, OneRange
<1>2. settle \in Seq(JobKinds) /\ Range(settle) \subseteq {"settle"}
  <2>1. << >> \in Seq(JobKinds) /\ <<"settle">> \in Seq(JobKinds)
    BY DEF JobKinds
  <2> HIDE DEF due
  <2> QED BY <2>1, EmptyRange, OneRange
<1>3. /\ back \in Seq(JobKinds)
      /\ seen # "returned" => Range(back) = {}
      /\ seen = "returned" /\ <<tx, "returned">> \notin flags
            => Range(back) = {"returned"} \cup Range(settle)
      /\ seen = "returned" /\ <<tx, "returned">> \in flags => Range(back) = {}
  <2>1. << >> \in Seq(JobKinds) /\ <<"returned">> \in Seq(JobKinds)
        /\ "returned" \in Kinds
    BY DEF JobKinds, Kinds
  <2>3. due("returned") # << >> <=> <<tx, "returned">> \notin flags
    BY <1>1, <2>1
  <2> HIDE DEF due, settle
  <2>2. /\ <<"returned">> \o settle \in Seq(JobKinds)
        /\ Range(<<"returned">> \o settle) = {"returned"} \cup Range(settle)
    <3>1. Range(<<"returned">>) = {"returned"}
      BY OneRange
    <3>2. PICK r \in Seq(JobKinds) : r = <<"returned">>
      BY <2>1
    <3>3. r \o settle \in Seq(JobKinds) /\ Range(r \o settle) = Range(r) \cup Range(settle)
      BY <1>2, ConcatRange
    <3> QED BY <3>1, <3>2, <3>3
  <2> QED BY <2>1, <2>2, <2>3, EmptyRange
<1>4. /\ credit \in Seq(JobKinds)
      /\ seen = "credited" => Range(credit) = Range(due("available"))
      /\ seen # "credited" => Range(credit) = {}
  <2>1. << >> \in Seq(JobKinds) /\ "available" \in Kinds
    BY DEF JobKinds, Kinds
  <2> HIDE DEF due
  <2> QED BY <1>1, <2>1, EmptyRange
<1>5. /\ JobsFor(tx, seen) \in Seq(JobKinds)
      /\ Range(JobsFor(tx, seen)) =
            Range(due("detected")) \cup Range(back) \cup Range(credit)
  <2>1. "detected" \in Kinds
    BY DEF Kinds
  <2> HIDE DEF due, back, credit
  <2>2. first \in Seq(JobKinds) /\ Range(first) = Range(due("detected")) \cup Range(back)
    <3>1. due("detected") \in Seq(JobKinds) /\ back \in Seq(JobKinds)
      BY <1>1, <1>3, <2>1
    <3> QED BY <3>1, ConcatRange
  <2> HIDE DEF first
  <2> QED BY <1>0, <1>4, <2>2, ConcatRange
<1> HIDE DEF due, settle, back, credit, first
<1>6. /\ Range(due("detected")) = IF <<tx, "detected">> \in flags THEN {} ELSE {"detected"}
      /\ Range(due("available")) = IF <<tx, "available">> \in flags THEN {} ELSE {"available"}
  <2>1. "detected" \in Kinds /\ "available" \in Kinds
    BY DEF Kinds
  <2> USE <1>1
  <2>2. Range(due("detected")) = IF <<tx, "detected">> \in flags THEN {} ELSE {"detected"}
    BY <2>1
  <2>3. Range(due("available")) = IF <<tx, "available">> \in flags THEN {} ELSE {"available"}
    BY <2>1
  <2> QED BY <2>2, <2>3
<1>7. CASE seen = "detected"
  <2>1. Range(JobsFor(tx, seen)) = Range(due("detected"))
    BY <1>3, <1>4, <1>5, <1>7
  <2>2. EventsOf(seen) = {"detected"}
    BY <1>7 DEF EventsOf
  <2> QED BY <1>5, <1>6, <2>1, <2>2
<1>8. CASE seen = "credited"
  <2>1. Range(JobsFor(tx, seen)) = Range(due("detected")) \cup Range(due("available"))
    BY <1>3, <1>4, <1>5, <1>8
  <2>2. EventsOf(seen) = {"detected", "available"}
    BY <1>8 DEF EventsOf
  <2> QED BY <1>5, <1>6, <2>1, <2>2
<1>9. CASE seen = "returned"
  <2>1. EventsOf(seen) = {"detected", "returned"}
    BY <1>9 DEF EventsOf
  <2>2. CASE <<tx, "returned">> \in flags
    <3>1. Range(JobsFor(tx, seen)) = Range(due("detected"))
      BY <1>3, <1>4, <1>5, <1>9, <2>2
    <3> QED BY <1>5, <1>6, <2>1, <2>2, <3>1
  <2>3. CASE <<tx, "returned">> \notin flags
    <3>1. Range(JobsFor(tx, seen)) =
             Range(due("detected")) \cup {"returned"} \cup Range(settle)
      BY <1>3, <1>4, <1>5, <1>9, <2>3
    <3> QED BY <1>2, <1>5, <1>6, <2>1, <2>3, <3>1
  <2> QED BY <2>2, <2>3
<1> QED BY <1>7, <1>8, <1>9 DEF Statuses

\* The jobs of one deposit.
LEMMA PairRange ==
    ASSUME NEW tx \in Txs, NEW jobs \in Seq(JobKinds)
    PROVE  LET pairs == [i \in DOMAIN jobs |-> <<tx, jobs[i]>>]
           IN  /\ pairs \in Seq(Jobs)
               /\ Range(pairs) = {<<tx, k>> : k \in Range(jobs)}
<1> DEFINE pairs == [i \in DOMAIN jobs |-> <<tx, jobs[i]>>]
<1>1. /\ Len(jobs) \in Nat /\ DOMAIN jobs = 1..Len(jobs)
      /\ \A i \in 1..Len(jobs) : jobs[i] \in JobKinds
  OBVIOUS
<1>2. pairs \in [1..Len(jobs) -> Jobs]
  BY <1>1 DEF Jobs
<1>3. pairs \in Seq(Jobs)
  BY <1>1, <1>2
<1>4. Range(pairs) = {<<tx, k>> : k \in Range(jobs)}
  BY <1>1 DEF Range
<1> QED BY <1>3, <1>4

-----------------------------------------------------------------------------
(* How a poll moves on. *)

LEMMA IdleType == Idle \in PollType
BY EmptyPage DEF Idle, PollType

\* What a poll that goes on with some jobs and a page looks like; the others do not move.
LEMMA GoesFacts ==
    ASSUME polls \in [Polls -> PollType], NEW p \in Polls, NEW jobs \in Seq(Jobs),
           NEW page \in Pages, Goes(p, jobs, page)
    PROVE  /\ polls' \in [Polls -> PollType]
           /\ \A q \in Polls \ {p} : polls'[q] = polls[q]
           /\ polls'[p].jobs = jobs /\ polls'[p].page = page
           /\ jobs = << >> /\ page = << >> => polls'[p] = Idle
           /\ jobs # << >> \/ page # << >>
                 => polls'[p].pc = "walk" /\ polls'[p].notify = polls[p].notify
<1>1. polls[p] \in PollType
  OBVIOUS
<1> DEFINE next == [polls[p] EXCEPT !.pc = "walk", !.jobs = jobs, !.page = page]
<1>2. /\ next \in PollType
      /\ next.pc = "walk" /\ next.jobs = jobs /\ next.page = page
      /\ next.notify = polls[p].notify
  BY <1>1 DEF PollType
<1> HIDE DEF next
<1>3. CASE jobs = << >> /\ page = << >>
  <2>1. polls' = [polls EXCEPT ![p] = Idle]
    BY <1>3 DEF Goes
  <2>2. Idle.jobs = << >> /\ Idle.page = << >>
    BY DEF Idle
  <2> QED BY <1>3, <2>1, <2>2, IdleType
<1>4. CASE ~(jobs = << >> /\ page = << >>)
  <2>1. polls' = [polls EXCEPT ![p] = next]
    BY <1>4 DEF Goes, next
  <2> QED BY <1>2, <1>4, <2>1
<1> QED BY <1>3, <1>4

\* A poll has done the job at hand.
LEMMA JobDoneFacts ==
    ASSUME Typed, NEW p \in Polls, polls[p].jobs # << >>, JobDone(p)
    PROVE  /\ polls' \in [Polls -> PollType]
           /\ \A q \in Polls \ {p} : polls'[q] = polls[q]
           /\ polls'[p].page = polls[p].page
           /\ Job(p) \in Jobs
           /\ JobSet(p) = JobSet(p)' \cup {Job(p)}
           /\ ~Busy(p)' => polls'[p] = Idle
           /\ Busy(p)' => /\ polls'[p].pc = "walk" /\ polls'[p].notify = polls[p].notify
                          /\ polls'[p].jobs # << >> \/ polls'[p].page # << >>
<1>1. polls[p] \in PollType /\ polls \in [Polls -> PollType]
  BY DEF Typed
<1>2. polls[p].jobs \in Seq(Jobs) /\ polls[p].page \in Pages
  BY <1>1 DEF PollType
<1> DEFINE jobs == Tail(polls[p].jobs)
<1>3. /\ jobs \in Seq(Jobs) /\ Job(p) \in Range(polls[p].jobs)
      /\ Range(polls[p].jobs) = Range(jobs) \cup {Job(p)}
  BY <1>2, TailRange DEF Job
<1>4. Job(p) \in Jobs
  BY <1>2 DEF Job
<1>5. Goes(p, jobs, polls[p].page)
  BY DEF JobDone
<1> HIDE DEF jobs
<1>6. /\ polls' \in [Polls -> PollType]
      /\ \A q \in Polls \ {p} : polls'[q] = polls[q]
      /\ polls'[p].jobs = jobs /\ polls'[p].page = polls[p].page
      /\ jobs = << >> /\ polls[p].page = << >> => polls'[p] = Idle
      /\ jobs # << >> \/ polls[p].page # << >>
            => polls'[p].pc = "walk" /\ polls'[p].notify = polls[p].notify
  BY <1>1, <1>2, <1>3, <1>5, GoesFacts
<1>7. JobSet(p) = JobSet(p)' \cup {Job(p)}
  BY <1>3, <1>6 DEF JobSet
<1>8. "idle" # "walk" /\ Idle.pc = "idle"
  BY DEF Idle
<1>9. CASE jobs = << >> /\ polls[p].page = << >>
  BY <1>4, <1>6, <1>7, <1>8, <1>9 DEF Busy
<1>10. CASE ~(jobs = << >> /\ polls[p].page = << >>)
  BY <1>4, <1>6, <1>7, <1>8, <1>10 DEF Busy
<1> QED BY <1>9, <1>10

\* A poll has looked at a deposit of its page.
LEMMA VisitFacts ==
    ASSUME Typed, NEW p \in Polls, Visit(p)
    PROVE  /\ polls' \in [Polls -> PollType]
           /\ \A q \in Polls \ {p} : polls'[q] = polls[q]
           /\ polls[p].pc = "walk" /\ JobSet(p) = {}
           /\ ~Busy(p)' => polls'[p] = Idle
           /\ Busy(p)' => /\ polls'[p].pc = "walk" /\ polls'[p].notify = polls[p].notify
                          /\ polls'[p].jobs # << >> \/ polls'[p].page # << >>
           /\ \E tx \in DOMAIN polls[p].page :
                 LET seen == polls[p].page[tx]
                 IN  /\ tx \in Txs /\ seen \in Statuses \ {"unknown"}
                     /\ rows' = rows \cup {tx}
                     /\ DOMAIN polls'[p].page = DOMAIN polls[p].page \ {tx}
                     /\ \A x \in DOMAIN polls'[p].page : polls'[p].page[x] = polls[p].page[x]
                     /\ \A e \in JobSet(p)' :
                           /\ e[1] = tx /\ e = <<tx, e[2]>>
                           /\ e[2] \in EventsOf(seen) \cup {"settle"}
                           /\ e \notin flags \/ e[2] = "settle"
                     /\ \A k \in EventsOf(seen) :
                           <<tx, k>> \notin flags => <<tx, k>> \in JobSet(p)'
<1>1. polls[p] \in PollType /\ polls \in [Polls -> PollType]
  BY DEF Typed
<1>2. polls[p].page \in Pages /\ polls[p].pc = "walk" /\ polls[p].jobs = << >>
  BY <1>1 DEF PollType, Visit
<1> DEFINE page == polls[p].page
<1>3. PICK tx \in DOMAIN page :
         /\ rows' = rows \cup {tx}
         /\ Goes(p, [i \in DOMAIN JobsFor(tx, page[tx]) |-> <<tx, JobsFor(tx, page[tx])[i]>>],
                 Restrict(page, DOMAIN page \ {tx}))
  BY DEF Visit
<1> DEFINE seen == page[tx]
           kinds == JobsFor(tx, seen)
           jobs == [i \in DOMAIN kinds |-> <<tx, kinds[i]>>]
           rest == Restrict(page, DOMAIN page \ {tx})
<1>4. tx \in Txs /\ seen \in Statuses \ {"unknown"}
  BY <1>2, PageTypes DEF Typed
<1>5. /\ kinds \in Seq(JobKinds)
      /\ \A k \in Range(kinds) : k \in EventsOf(seen) \cup {"settle"}
      /\ \A k \in Range(kinds) : <<tx, k>> \notin flags \/ k = "settle"
      /\ \A k \in EventsOf(seen) : <<tx, k>> \notin flags => k \in Range(kinds)
  BY <1>4, JobsForRange
<1>6. /\ rest \in Pages /\ DOMAIN rest = DOMAIN page \ {tx}
      /\ \A x \in DOMAIN rest : rest[x] = page[x]
  <2>1. DOMAIN page \ {tx} \in SUBSET DOMAIN page
    OBVIOUS
  <2> HIDE DEF page
  <2>2. page \in Pages
    BY <1>2 DEF page
  <2> QED BY <2>1, <2>2, RestrictPage
<1> HIDE DEF kinds
<1>7. jobs \in Seq(Jobs) /\ Range(jobs) = {<<tx, k>> : k \in Range(kinds)}
  BY <1>4, <1>5, PairRange
<1>8. Goes(p, jobs, rest)
  BY <1>3 DEF kinds
<1> HIDE DEF jobs, rest
<1>9. /\ polls' \in [Polls -> PollType]
      /\ \A q \in Polls \ {p} : polls'[q] = polls[q]
      /\ polls'[p].jobs = jobs /\ polls'[p].page = rest
      /\ jobs = << >> /\ rest = << >> => polls'[p] = Idle
      /\ jobs # << >> \/ rest # << >>
            => polls'[p].pc = "walk" /\ polls'[p].notify = polls[p].notify
  BY <1>1, <1>6, <1>7, <1>8, GoesFacts
<1>10. JobSet(p)' = {<<tx, k>> : k \in Range(kinds)} /\ JobSet(p) = {}
  BY <1>2, <1>7, <1>9, EmptyRange DEF JobSet
<1>11. /\ ~Busy(p)' => polls'[p] = Idle
       /\ Busy(p)' => /\ polls'[p].pc = "walk" /\ polls'[p].notify = polls[p].notify
                      /\ polls'[p].jobs # << >> \/ polls'[p].page # << >>
  <2>1. "idle" # "walk" /\ Idle.pc = "idle"
    BY DEF Idle
  <2>2. CASE jobs = << >> /\ rest = << >>
    BY <1>9, <2>1, <2>2 DEF Busy
  <2>3. CASE ~(jobs = << >> /\ rest = << >>)
    BY <1>9, <2>1, <2>3 DEF Busy
  <2> QED BY <2>2, <2>3
<1>12. /\ \A e \in JobSet(p)' :
             /\ e[1] = tx /\ e = <<tx, e[2]>>
             /\ e[2] \in EventsOf(seen) \cup {"settle"}
             /\ e \notin flags \/ e[2] = "settle"
       /\ \A k \in EventsOf(seen) : <<tx, k>> \notin flags => <<tx, k>> \in JobSet(p)'
  BY <1>5, <1>10
<1> QED BY <1>2, <1>3, <1>4, <1>6, <1>9, <1>10, <1>11, <1>12

LEMMA IdleFacts ==
    /\ Idle.pc = "idle" /\ Idle.page = << >> /\ Idle.jobs = << >>
    /\ DOMAIN Idle.page = {} /\ Range(Idle.jobs) = {}
BY EmptyRange DEF Idle

\* A poll that starts has the statuses of the moment for its page.
LEMMA StartFacts ==
    ASSUME Typed, NEW p \in Polls, StartPoll(p)
    PROVE  /\ polls' \in [Polls -> PollType]
           /\ \A q \in Polls \ {p} : polls'[q] = polls[q]
           /\ ~Busy(p) /\ JobSet(p)' = {}
           /\ Page = {} => polls'[p] = Idle
           /\ Page # {} => /\ polls'[p].pc = "walk" /\ polls'[p].page # << >>
                           /\ polls'[p].page = [tx \in Page |-> status[tx]]
           /\ \E counted \in BOOLEAN :
                 /\ IF counted /\ Alone THEN UNCHANGED upsets ELSE Upset
                 /\ ~counted => ~hydrated
                 /\ hushed' = (hushed \/ ~counted)
                 /\ Page # {} => polls'[p].notify = (enabled /\ ~IsBaseline(counted))
<1>1. polls[p] = Idle /\ polls \in [Polls -> PollType] /\ enabled \in BOOLEAN /\ ~Busy(p)
  BY DEF Typed, TypeOK, StartPoll, Busy
<1>2. PICK counted \in BOOLEAN :
         /\ IF counted /\ Alone THEN UNCHANGED upsets ELSE Upset
         /\ ~counted => ~hydrated
         /\ hushed' = (hushed \/ ~counted)
         /\ polls' = [polls EXCEPT ![p] =
                IF Page = {} THEN Idle
                ELSE [@ EXCEPT !.pc = "walk", !.page = [tx \in Page |-> status[tx]],
                               !.notify = enabled /\ ~IsBaseline(counted)]]
  BY DEF StartPoll
<1>3. CASE Page = {}
  <2>1. polls' = [polls EXCEPT ![p] = Idle]
    BY <1>2, <1>3
  <2> QED BY <1>1, <1>2, <1>3, <2>1, IdleType, IdleFacts DEF JobSet
<1>4. CASE Page # {}
  <2> DEFINE page == [tx \in Page |-> status[tx]]
             loud == (enabled /\ ~IsBaseline(counted))
             first == [Idle EXCEPT !.pc = "walk", !.page = page, !.notify = loud]
  <2>1. page \in Pages /\ DOMAIN page = Page
    <3>1. status \in [Txs -> Statuses]
      BY DEF Typed, TypeOK
    <3>2. page \in [Page -> Statuses] /\ Page \in SUBSET Txs
      BY <3>1 DEF Page
    <3> QED BY <3>2 DEF Pages
  <2>2. page # << >>
    BY <1>4, <2>1, EmptyRange
  <2>3. loud \in BOOLEAN
    BY <1>1
  <2>4. polls' = [polls EXCEPT ![p] = first]
    BY <1>1, <1>2, <1>4
  <2> HIDE DEF page, loud
  <2>5. /\ first \in PollType /\ first.pc = "walk" /\ first.page = page
        /\ first.notify = loud /\ first.jobs = << >>
    BY <2>1, <2>3, IdleType, IdleFacts DEF PollType
  <2> HIDE DEF first
  <2>6. polls' \in [Polls -> PollType] /\ polls'[p] = first
        /\ \A q \in Polls \ {p} : polls'[q] = polls[q]
    BY <1>1, <2>4, <2>5
  <2>7. JobSet(p)' = {}
    BY <2>5, <2>6, EmptyRange DEF JobSet
  <2> QED BY <1>1, <1>2, <1>4, <2>2, <2>5, <2>6, <2>7 DEF page, loud
<1> QED BY <1>3, <1>4

-----------------------------------------------------------------------------
(* Types. *)

PollTyped(p) ==
    /\ polls[p].pc \in {"idle", "walk", "tell"}
    /\ polls[p].pc = "idle" => polls[p] = Idle
    /\ polls[p].pc = "walk" => polls[p].jobs # << >> \/ polls[p].page # << >>
    /\ polls[p].pc = "tell" => polls[p].jobs # << >>
    /\ \A e \in JobSet(p) : e[1] \in rows
    /\ \A tx \in DOMAIN polls[p].page : polls[p].page[tx] # "unknown"
    /\ polls[p].pc = "tell" => Job(p)[2] # "settle"

DataTyped ==
    /\ status \in [Txs -> Statuses] /\ rows \subseteq Txs /\ flags \subseteq rows \X Kinds
    /\ silenced \subseteq flags /\ enabled \in BOOLEAN /\ hydrated \in BOOLEAN
    /\ alerts \in [Txs -> [Kinds -> Nat]]
    /\ backlog \subseteq Txs \X Kinds
    /\ overlapped \in BOOLEAN /\ hushed \in BOOLEAN /\ upsets \in Nat

LEMMA TypedParts ==
    Typed <=> DataTyped /\ polls \in [Polls -> PollType] /\ \A p \in Polls : PollTyped(p)
BY DEF Typed, TypeOK, DataTyped, PollTyped

LEMMA TypedPartsNext ==
    Typed' <=> DataTyped' /\ polls' \in [Polls -> PollType] /\ \A p \in Polls : PollTyped(p)'
BY DEF Typed, TypeOK, DataTyped, PollTyped, JobSet, Job

LEMMA StillTyped ==
    ASSUME NEW q \in Polls, polls'[q] = polls[q], rows \subseteq rows', PollTyped(q)
    PROVE  PollTyped(q)'
BY DEF PollTyped, JobSet, Job

LEMMA IdleTyped ==
    ASSUME NEW q \in Polls, polls'[q] = Idle
    PROVE  PollTyped(q)'
BY IdleFacts DEF PollTyped, JobSet

LEMMA EventsAreKinds == \A s \in Statuses : EventsOf(s) \subseteq Kinds
BY DEF Statuses, EventsOf, Kinds

\* A job done leaves a poll well typed.
LEMMA DoneTyped ==
    ASSUME Typed, NEW p \in Polls, polls[p].jobs # << >>, JobDone(p), rows' = rows
    PROVE  polls' \in [Polls -> PollType] /\ \A q \in Polls : PollTyped(q)'
<1> USE JobDoneFacts
<1>1. /\ polls' \in [Polls -> PollType]
      /\ \A q \in Polls \ {p} : polls'[q] = polls[q]
      /\ polls'[p].page = polls[p].page
      /\ JobSet(p) = JobSet(p)' \cup {Job(p)}
      /\ ~Busy(p)' => polls'[p] = Idle
      /\ Busy(p)' => /\ polls'[p].pc = "walk"
                     /\ polls'[p].jobs # << >> \/ polls'[p].page # << >>
  OBVIOUS
<1>2. \A q \in Polls : PollTyped(q)
  BY TypedParts
<1>3. PollTyped(p)'
  <2>1. CASE Busy(p)'
    BY <1>1, <1>2, <2>1 DEF PollTyped
  <2>2. CASE ~Busy(p)'
    BY <1>1, <2>2, IdleTyped
  <2> QED BY <2>1, <2>2
<1>4. \A q \in Polls \ {p} : PollTyped(q)'
  BY <1>1, <1>2, StillTyped
<1> QED BY <1>1, <1>3, <1>4

LEMMA TypedInit == Init => Typed
<1> SUFFICES ASSUME Init PROVE Typed
  OBVIOUS
<1>1. DataTyped
  BY DEF Init, DataTyped
<1>2. polls \in [Polls -> PollType] /\ \A p \in Polls : polls[p] = Idle
  BY IdleType DEF Init
<1>3. \A p \in Polls : PollTyped(p)
  BY <1>2, IdleFacts DEF PollTyped, JobSet
<1> QED BY <1>1, <1>2, <1>3, TypedParts

LEMMA TypedNext == Typed /\ [Next]_vars => Typed'
<1> SUFFICES ASSUME Typed, [Next]_vars PROVE Typed'
  OBVIOUS
<1> USE DepositsAssumption
<1>0. DataTyped /\ polls \in [Polls -> PollType] /\ \A q \in Polls : PollTyped(q)
  BY TypedParts
<1>1. ASSUME NEW p \in Polls, StartPoll(p) PROVE Typed'
  <2>1. DataTyped'
    <3>1. upsets' \in Nat /\ hushed' \in BOOLEAN
      BY <1>0, <1>1 DEF StartPoll, Upset, DataTyped
    <3>2. overlapped' \in BOOLEAN /\ hydrated' \in BOOLEAN
      BY <1>0, <1>1 DEF StartPoll, DataTyped
    <3>3. backlog' \subseteq Txs \X Kinds
      BY <1>0, <1>1, EventsAreKinds DEF StartPoll, DataTyped
    <3> QED BY <1>0, <1>1, <3>1, <3>2, <3>3 DEF StartPoll, DataTyped
  <2>2. \A q \in Polls \ {p} : PollTyped(q)'
    BY <1>0, <1>1, StartFacts, StillTyped DEF StartPoll
  <2>3. PollTyped(p)'
    <3>1. CASE Page = {}
      BY <1>1, <3>1, StartFacts, IdleTyped
    <3>2. CASE Page # {}
      <4>1. /\ polls'[p].pc = "walk" /\ polls'[p].page # << >>
            /\ polls'[p].page = [tx \in Page |-> status[tx]] /\ JobSet(p)' = {}
        BY <1>1, <3>2, StartFacts
      <4> QED BY <4>1 DEF PollTyped, Page
    <3> QED BY <3>1, <3>2
  <2> QED BY <1>1, <2>1, <2>2, <2>3, StartFacts, TypedPartsNext
<1>2. ASSUME NEW p \in Polls, Visit(p) PROVE Typed'
  <2>1. PICK tx \in DOMAIN polls[p].page :
           /\ tx \in Txs /\ rows' = rows \cup {tx}
           /\ DOMAIN polls'[p].page = DOMAIN polls[p].page \ {tx}
           /\ \A x \in DOMAIN polls'[p].page : polls'[p].page[x] = polls[p].page[x]
           /\ \A e \in JobSet(p)' : e[1] = tx
    BY <1>2, VisitFacts
  <2>2. DataTyped'
    BY <1>0, <1>2, <2>1 DEF Visit, DataTyped, bookkeeping
  <2>3. \A q \in Polls \ {p} : PollTyped(q)'
    BY <1>0, <1>2, <2>1, VisitFacts, StillTyped
  <2>4. PollTyped(p)'
    <3>1. CASE Busy(p)'
      <4>1. polls'[p].pc = "walk" /\ (polls'[p].jobs # << >> \/ polls'[p].page # << >>)
        BY <1>2, <3>1, VisitFacts
      <4> QED BY <1>0, <2>1, <4>1 DEF PollTyped
    <3>2. CASE ~Busy(p)'
      BY <1>2, <3>2, VisitFacts, IdleTyped
    <3> QED BY <3>1, <3>2
  <2> QED BY <1>2, <2>2, <2>3, <2>4, VisitFacts, TypedPartsNext
<1>3. ASSUME NEW p \in Polls, polls[p].jobs # << >> PROVE Job(p) \in JobSet(p) /\ Job(p) \in Jobs /\ Job(p)[1] \in rows
  <2>1. polls[p].jobs \in Seq(Jobs)
    BY <1>0 DEF PollType
  <2>2. Job(p) \in JobSet(p) /\ Job(p) \in Jobs
    BY <1>3, <2>1, TailRange DEF Job, JobSet
  <2> QED BY <1>0, <2>2 DEF PollTyped
<1>4. ASSUME NEW p \in Polls, Absorb(p) PROVE Typed'
  <2>1. polls[p].jobs # << >> /\ JobDone(p) /\ rows' = rows
    BY <1>4 DEF Absorb, AtJob
  <2>2. DataTyped'
    <3>1. <<Job(p)[1], "available">> \in rows \X Kinds
      BY <1>3, <2>1 DEF Kinds
    <3>2. Job(p)[2] # "settle" => Job(p) \in rows \X Kinds
      BY <1>3, <2>1 DEF Jobs, JobKinds
    <3> QED BY <1>0, <1>4, <3>1, <3>2 DEF Absorb, DataTyped
  <2> QED BY <2>1, <2>2, DoneTyped, TypedPartsNext
<1>5. ASSUME NEW p \in Polls, RecordAlert(p) PROVE Typed'
  <2>1. polls[p].jobs # << >> /\ polls' = [polls EXCEPT ![p].pc = "tell"] /\ rows' = rows
    BY <1>5 DEF RecordAlert, AtJob
  <2>2. Job(p)[1] \in Txs /\ Job(p)[2] \in Kinds
    BY <1>3, <1>5, <2>1 DEF Jobs, JobKinds, RecordAlert, IsLoud
  <2>3. DataTyped'
    BY <1>0, <1>5, <2>2 DEF RecordAlert, DataTyped
  <2>4. polls' \in [Polls -> PollType]
    BY <1>0, <2>1 DEF PollType
  <2>5. \A q \in Polls \ {p} : PollTyped(q)'
    BY <1>0, <2>1, StillTyped
  <2>6. PollTyped(p)'
    <3>1. /\ polls'[p].pc = "tell" /\ polls'[p].jobs = polls[p].jobs
          /\ polls'[p].page = polls[p].page
      BY <1>0, <2>1 DEF PollType
    <3>2. Job(p)[2] # "settle"
      BY <1>5 DEF RecordAlert, IsLoud
    <3> QED BY <1>0, <2>1, <3>1, <3>2 DEF PollTyped, JobSet, Job
  <2> QED BY <2>3, <2>4, <2>5, <2>6, TypedPartsNext
<1>6. ASSUME NEW p \in Polls, MarkNotified(p) PROVE Typed'
  <2>1. polls[p].jobs # << >> /\ JobDone(p) /\ rows' = rows
    BY <1>6 DEF MarkNotified, AtJob, bookkeeping
  <2>2. DataTyped'
    <3>1. Job(p)[2] # "settle"
      BY <1>0, <1>6 DEF PollTyped, MarkNotified, AtJob
    <3>2. Job(p) \in rows \X Kinds
      BY <1>3, <2>1, <3>1 DEF Jobs, JobKinds
    <3> QED BY <1>0, <1>6, <3>2 DEF MarkNotified, DataTyped, bookkeeping
  <2> QED BY <2>1, <2>2, DoneTyped, TypedPartsNext
<1>7. ASSUME NEW p \in Polls, NotifyFails(p) PROVE Typed'
  <2>1. polls[p].jobs # << >> /\ JobDone(p) /\ rows' = rows
    BY <1>7 DEF NotifyFails, AtJob
  <2>2. DataTyped'
    BY <1>0, <1>7 DEF NotifyFails, DataTyped, bookkeeping, Upset
  <2> QED BY <2>1, <2>2, DoneTyped, TypedPartsNext
<1>8. ASSUME polls' = polls, rows' = rows PROVE \A q \in Polls : PollTyped(q)'
  BY <1>0, <1>8, StillTyped
<1>9. ASSUME NEW tx \in Txs, Move(tx) PROVE Typed'
  <2>1. DataTyped'
    BY <1>0, <1>9 DEF Move, DataTyped, bookkeeping
  <2> QED BY <1>0, <1>8, <1>9, <2>1, TypedPartsNext DEF Move
<1>10. ASSUME Switch PROVE Typed'
  <2>1. DataTyped'
    BY <1>0, <1>10 DEF Switch, DataTyped, Upset
  <2> QED BY <1>0, <1>8, <1>10, <2>1, TypedPartsNext DEF Switch
<1>11. ASSUME Restart PROVE Typed'
  <2>1. DataTyped'
    <3>1. upsets' \in Nat
      BY <1>0, <1>11 DEF Restart, DataTyped, Upset
    <3>2. hydrated' \in BOOLEAN
      BY <1>11 DEF Restart
    <3> QED BY <1>0, <1>11, <3>1, <3>2 DEF Restart, DataTyped, bookkeeping
  <2>2. \A q \in Polls : polls'[q] = Idle
    BY <1>11 DEF Restart
  <2>3. polls' \in [Polls -> PollType]
    BY <1>11, IdleType DEF Restart
  <2> QED BY <2>1, <2>2, <2>3, IdleTyped, TypedPartsNext
<1>12. CASE UNCHANGED vars
  <2>1. DataTyped'
    BY <1>0, <1>12 DEF vars, DataTyped, bookkeeping
  <2> QED BY <1>0, <1>8, <1>12, <2>1, TypedPartsNext DEF vars
<1> QED
  BY <1>1, <1>2, <1>4, <1>5, <1>6, <1>7, <1>9, <1>10, <1>11, <1>12 DEF Next, Poll

\* The sets stay what they are, for every deposit, poll and upset.
THEOREM TypeTheorem == Spec => []TypeOK
<1>1. Typed => TypeOK
  BY DEF Typed
<1> QED BY <1>1, TypedInit, TypedNext, PTL DEF Spec

-----------------------------------------------------------------------------
(* Polls one at a time. *)

\* What the steps of a poll at work leave alone.
LEMMA BusySteps ==
    ASSUME Typed, NEW p \in Polls,
           Visit(p) \/ Absorb(p) \/ RecordAlert(p) \/ MarkNotified(p) \/ NotifyFails(p)
    PROVE  /\ Busy(p) /\ \A q \in Polls \ {p} : polls'[q] = polls[q]
           /\ UNCHANGED <<status, hydrated, overlapped, hushed, backlog, enabled>>
<1>1. CASE Visit(p)
  <2>1. \A q \in Polls \ {p} : polls'[q] = polls[q]
    BY <1>1, VisitFacts
  <2> QED BY <1>1, <2>1 DEF Visit, Busy, bookkeeping
<1>2. ASSUME polls[p].jobs # << >>, JobDone(p) PROVE \A q \in Polls \ {p} : polls'[q] = polls[q]
  BY <1>2, JobDoneFacts
<1>3. CASE Absorb(p)
  BY <1>2, <1>3 DEF Absorb, AtJob, Busy, bookkeeping
<1>4. CASE RecordAlert(p)
  BY <1>4 DEF RecordAlert, AtJob, Busy, Typed
<1>5. CASE MarkNotified(p)
  BY <1>2, <1>5 DEF MarkNotified, AtJob, Busy, bookkeeping
<1>6. CASE NotifyFails(p)
  BY <1>2, <1>6 DEF NotifyFails, AtJob, Busy, bookkeeping
<1> QED BY <1>1, <1>3, <1>4, <1>5, <1>6

LEMMA OneByOneInit == Init => OneByOne
BY IdleFacts DEF Init, OneByOne, Busy

LEMMA OneByOneNext == Typed /\ OneByOne /\ [Next]_vars => OneByOne'
<1> SUFFICES ASSUME Typed, OneByOne, [Next]_vars PROVE OneByOne'
  OBVIOUS
<1>1. ASSUME \A q \in Polls : Busy(q)' => Busy(q), UNCHANGED <<overlapped, hydrated>>
      PROVE  OneByOne'
  BY <1>1 DEF OneByOne
<1>2. ASSUME NEW p \in Polls, StartPoll(p) PROVE OneByOne'
  <2>1. \A q \in Polls \ {p} : polls'[q] = polls[q]
    BY <1>2, StartFacts
  <2>2. hydrated' = TRUE /\ overlapped' = (overlapped \/ ~Alone)
    BY <1>2 DEF StartPoll
  <2>3. ASSUME ~overlapped', NEW q \in Polls, NEW r \in Polls, Busy(q)', Busy(r)' PROVE q = r
    <3>1. \A x \in Polls : ~Busy(x)
      BY <2>2, <2>3 DEF Alone, Busy
    <3> QED BY <2>1, <2>3, <3>1 DEF Busy
  <2> QED BY <2>2, <2>3 DEF OneByOne
<1>3. ASSUME NEW p \in Polls,
             Visit(p) \/ Absorb(p) \/ RecordAlert(p) \/ MarkNotified(p) \/ NotifyFails(p)
      PROVE  OneByOne'
  <2>1. /\ Busy(p) /\ \A q \in Polls \ {p} : polls'[q] = polls[q]
        /\ UNCHANGED <<overlapped, hydrated>>
    BY <1>3, BusySteps
  <2>2. \A q \in Polls : Busy(q)' => Busy(q)
    BY <2>1 DEF Busy
  <2> QED BY <1>1, <2>1, <2>2
<1>4. ASSUME NEW tx \in Txs, Move(tx) PROVE OneByOne'
  BY <1>1, <1>4 DEF Move, Busy, bookkeeping
<1>5. CASE Switch
  BY <1>1, <1>5 DEF Switch, Busy
<1>6. CASE Restart
  BY <1>6, IdleFacts DEF Restart, OneByOne, Busy
<1>7. CASE UNCHANGED vars
  BY <1>1, <1>7 DEF vars, Busy, bookkeeping
<1> QED BY <1>2, <1>3, <1>4, <1>5, <1>6, <1>7 DEF Next, Poll

-----------------------------------------------------------------------------
(* Money that was sent back. *)

LEMMA ReturnInit == Init => ReturnInv
<1> SUFFICES ASSUME Init PROVE ReturnInv
  OBVIOUS
<1>1. \A p \in Polls : JobSet(p) = {} /\ DOMAIN polls[p].page = {}
  BY IdleFacts DEF Init, JobSet
<1>2. \A tx \in Txs : alerts[tx]["returned"] = 0
  BY DEF Init, Kinds
<1> QED BY <1>1, <1>2 DEF ReturnInv, ReturnOk

\* A poll that stands still, or has less before it, stays right as long as nothing new was
\* announced as sent back.
LEMMA LessReturnOk ==
    ASSUME NEW q \in Polls, ReturnOk(q),
           JobSet(q)' \subseteq JobSet(q),
           DOMAIN polls'[q].page \subseteq DOMAIN polls[q].page,
           \A x \in DOMAIN polls'[q].page : polls'[q].page[x] = polls[q].page[x],
           \A tx \in Txs : status[tx] = "returned" => status'[tx] = "returned",
           overlapped' = overlapped,
           \A tx \in Txs : alerts'[tx]["returned"] > 0 => alerts[tx]["returned"] > 0,
           DOMAIN polls[q].page \subseteq Txs
    PROVE  ReturnOk(q)'
BY DEF ReturnOk

LEMMA ReturnNext == Typed /\ OneByOne /\ ReturnInv /\ [Next]_vars => ReturnInv'
<1> SUFFICES ASSUME Typed, OneByOne, ReturnInv, [Next]_vars PROVE ReturnInv'
  OBVIOUS
<1>0. /\ \A q \in Polls : ReturnOk(q) /\ polls[q] \in PollType
      /\ \A q \in Polls : DOMAIN polls[q].page \subseteq Txs
      /\ \A tx \in Txs : alerts[tx]["returned"] > 0 => status[tx] = "returned"
  <2>1. \A q \in Polls : polls[q].page \in Pages
    BY DEF Typed, PollType
  <2> QED BY <2>1, PageTypes DEF Typed, ReturnInv
<1>1. ASSUME alerts' = alerts, status' = status, overlapped' = overlapped, NEW q \in Polls,
             polls'[q] = polls[q]
      PROVE  ReturnOk(q)'
  BY <1>0, <1>1, LessReturnOk DEF JobSet
<1>2. ASSUME NEW p \in Polls, StartPoll(p) PROVE ReturnInv'
  <2>1. alerts' = alerts /\ status' = status /\ (~overlapped' => ~overlapped)
    BY <1>2 DEF StartPoll
  <2>2. /\ \A q \in Polls \ {p} : polls'[q] = polls[q]
        /\ JobSet(p)' = {}
    BY <1>2, StartFacts
  <2>3. \A q \in Polls \ {p} : ReturnOk(q)'
    BY <1>0, <2>1, <2>2 DEF ReturnOk, JobSet
  <2>4. ReturnOk(p)'
    <3>1. \A tx \in DOMAIN polls'[p].page : polls'[p].page[tx] = status[tx]
      <4>1. CASE Page = {}
        BY <1>2, <4>1, StartFacts, IdleFacts
      <4>2. CASE Page # {}
        BY <1>2, <4>2, StartFacts
      <4> QED BY <4>1, <4>2
    <3> QED BY <1>0, <2>1, <2>2, <3>1 DEF ReturnOk
  <2> QED BY <1>0, <2>1, <2>3, <2>4 DEF ReturnInv
<1>3. ASSUME NEW p \in Polls, Visit(p) PROVE ReturnInv'
  <2>1. PICK tx \in DOMAIN polls[p].page :
           LET seen == polls[p].page[tx]
           IN  /\ tx \in Txs
               /\ DOMAIN polls'[p].page = DOMAIN polls[p].page \ {tx}
               /\ \A x \in DOMAIN polls'[p].page : polls'[p].page[x] = polls[p].page[x]
               /\ \A e \in JobSet(p)' :
                     /\ e[1] = tx /\ e = <<tx, e[2]>>
                     /\ e[2] \in EventsOf(seen) \cup {"settle"}
    BY <1>3, VisitFacts
  <2>2. alerts' = alerts /\ status' = status /\ overlapped' = overlapped
    BY <1>3 DEF Visit, bookkeeping
  <2>3. \A q \in Polls \ {p} : ReturnOk(q)'
    BY <1>1, <1>3, <2>2, VisitFacts
  <2> DEFINE seen == polls[p].page[tx]
  <2>4. seen \in Statuses
    BY <1>3, <2>1, PageTypes DEF Typed, PollType
  <2>5. /\ "returned" \in EventsOf(seen) => seen = "returned"
        /\ seen = "returned" => "available" \notin EventsOf(seen)
    BY <2>4 DEF EventsOf, Statuses
  <2>6. \A e \in JobSet(p)' : e[1] = tx /\ e[2] \in EventsOf(seen) \cup {"settle"}
    BY <2>1
  <2>7. seen = "returned" => status[tx] = "returned"
    BY <1>0, <2>1 DEF ReturnOk
  <2> HIDE DEF seen
  <2>8. \A x \in Txs : <<x, "returned">> \in JobSet(p)' => x = tx /\ seen = "returned"
    BY <2>5, <2>6
  <2>9. \A x \in Txs : <<x, "available">> \in JobSet(p)' => x = tx /\ seen # "returned"
    BY <2>5, <2>6
  <2>10. \A x \in DOMAIN polls'[p].page :
            polls'[p].page[x] = "returned" => status'[x] = "returned"
    BY <1>0, <2>1, <2>2 DEF ReturnOk
  <2>11. \A e \in JobSet(p)' : e[1] \notin DOMAIN polls'[p].page
    BY <2>1
  <2>12. ASSUME NEW x \in Txs, <<x, "returned">> \in JobSet(p)'
         PROVE  status'[x] = "returned" /\ <<x, "available">> \notin JobSet(p)'
    BY <2>2, <2>7, <2>8, <2>9, <2>12
  <2>13. ASSUME NEW x \in Txs, ~overlapped', alerts'[x]["returned"] > 0
         PROVE  /\ x \in DOMAIN polls'[p].page => polls'[p].page[x] = "returned"
                /\ <<x, "available">> \notin JobSet(p)'
    <3>1. x \in DOMAIN polls[p].page => polls[p].page[x] = "returned"
      BY <1>0, <2>2, <2>13 DEF ReturnOk
    <3> QED BY <2>1, <2>9, <3>1 DEF seen
  <2>14. ReturnOk(p)'
    BY <2>10, <2>11, <2>12, <2>13 DEF ReturnOk
  <2> QED BY <1>0, <2>2, <2>3, <2>14 DEF ReturnInv
<1>4. ASSUME NEW p \in Polls, polls[p].jobs # << >>, JobDone(p),
             alerts' = alerts, status' = status, overlapped' = overlapped
      PROVE  ReturnInv'
  <2>1. /\ \A q \in Polls \ {p} : polls'[q] = polls[q]
        /\ polls'[p].page = polls[p].page
        /\ JobSet(p) = JobSet(p)' \cup {Job(p)}
    BY <1>4, JobDoneFacts
  <2>2. \A q \in Polls \ {p} : ReturnOk(q)'
    BY <1>1, <1>4, <2>1
  <2>3. ReturnOk(p)'
    BY <1>0, <1>4, <2>1, LessReturnOk
  <2> QED BY <1>0, <1>4, <2>2, <2>3 DEF ReturnInv
<1>5. ASSUME NEW p \in Polls, Absorb(p) PROVE ReturnInv'
  BY <1>4, <1>5 DEF Absorb, AtJob
<1>6. ASSUME NEW p \in Polls, MarkNotified(p) PROVE ReturnInv'
  BY <1>4, <1>6 DEF MarkNotified, AtJob, bookkeeping
<1>7. ASSUME NEW p \in Polls, NotifyFails(p) PROVE ReturnInv'
  BY <1>4, <1>7 DEF NotifyFails, AtJob, bookkeeping
<1>8. ASSUME NEW p \in Polls, RecordAlert(p) PROVE ReturnInv'
  <2>1. /\ polls[p].jobs # << >> /\ polls' = [polls EXCEPT ![p].pc = "tell"]
        /\ alerts' = [alerts EXCEPT ![Job(p)[1]][Job(p)[2]] = @ + 1]
        /\ status' = status /\ overlapped' = overlapped /\ Busy(p) /\ Job(p)[2] # "settle"
    BY <1>8 DEF RecordAlert, AtJob, Busy, IsLoud
  <2>2. \A q \in Polls : JobSet(q)' = JobSet(q) /\ polls'[q].page = polls[q].page
    BY <1>0, <2>1 DEF JobSet, PollType, Typed
  <2>3. Job(p) \in JobSet(p) /\ Job(p) \in Jobs
    <3>1. polls[p].jobs \in Seq(Jobs)
      BY <1>0 DEF PollType
    <3> QED BY <2>1, <3>1, TailRange DEF Job, JobSet
  <2>4. /\ Job(p)[1] \in Txs /\ Job(p)[2] \in Kinds /\ Job(p) = <<Job(p)[1], Job(p)[2]>>
        /\ alerts \in [Txs -> [Kinds -> Nat]]
    BY <2>1, <2>3 DEF Jobs, JobKinds, Typed
  <2>5. ASSUME NEW x \in Txs, alerts'[x]["returned"] > 0, ~(alerts[x]["returned"] > 0)
        PROVE  Job(p) = <<x, "returned">>
    BY <2>1, <2>4, <2>5 DEF Kinds
  <2>6. ASSUME NEW x \in Txs, Job(p) = <<x, "returned">>
        PROVE  status[x] = "returned" /\ <<x, "available">> \notin JobSet(p)
               /\ x \notin DOMAIN polls[p].page
    BY <1>0, <2>3, <2>6 DEF ReturnOk
  <2>7. ASSUME NEW q \in Polls \ {p}, ~overlapped
        PROVE  DOMAIN polls[q].page = {} /\ JobSet(q) = {}
    <3>1. ~Busy(q)
      BY <2>1, <2>7 DEF OneByOne
    <3>2. polls[q] = Idle
      BY <3>1 DEF Busy, Typed, TypeOK
    <3> QED BY <3>2, IdleFacts DEF JobSet
  <2>8. ASSUME NEW q \in Polls PROVE ReturnOk(q)'
    <3>1. ASSUME NEW x \in Txs, ~overlapped', alerts'[x]["returned"] > 0
          PROVE  /\ x \in DOMAIN polls[q].page => polls[q].page[x] = "returned"
                 /\ <<x, "available">> \notin JobSet(q)
      <4>1. CASE alerts[x]["returned"] > 0
        BY <1>0, <2>1, <3>1, <4>1 DEF ReturnOk
      <4>2. CASE ~(alerts[x]["returned"] > 0)
        <5>1. Job(p) = <<x, "returned">>
          BY <2>5, <3>1, <4>2
        <5>2. CASE q = p
          BY <2>6, <5>1, <5>2
        <5>3. CASE q # p
          BY <2>1, <2>7, <3>1, <5>3
        <5> QED BY <5>2, <5>3
      <4> QED BY <4>1, <4>2
    <3>2. ReturnOk(q)
      BY <1>0
    <3> QED BY <2>1, <2>2, <3>1, <3>2 DEF ReturnOk
  <2>9. ASSUME NEW x \in Txs, alerts'[x]["returned"] > 0 PROVE status'[x] = "returned"
    BY <1>0, <2>1, <2>5, <2>6, <2>9
  <2> QED BY <2>8, <2>9 DEF ReturnInv
<1>9. ASSUME NEW tx \in Txs, Move(tx) PROVE ReturnInv'
  <2>1. /\ polls' = polls /\ alerts' = alerts /\ overlapped' = overlapped
        /\ status[tx] # "returned"
        /\ \A x \in Txs \ {tx} : status'[x] = status[x]
    BY <1>9 DEF Move, Moves, bookkeeping, Typed, TypeOK
  <2>2. \A x \in Txs : status[x] = "returned" => status'[x] = "returned"
    BY <2>1
  <2>3. \A q \in Polls : ReturnOk(q)'
    BY <1>0, <2>1, <2>2, LessReturnOk DEF JobSet
  <2> QED BY <1>0, <2>1, <2>2, <2>3 DEF ReturnInv
<1>10. ASSUME polls' = polls, alerts' = alerts, overlapped' = overlapped, status' = status
       PROVE  ReturnInv'
  <2>1. \A q \in Polls : ReturnOk(q)'
    BY <1>1, <1>10
  <2> QED BY <1>0, <1>10, <2>1 DEF ReturnInv
<1>11. CASE Switch
  BY <1>10, <1>11 DEF Switch
<1>12. CASE Restart
  <2>1. /\ alerts' = alerts /\ status' = status
        /\ \A q \in Polls : polls'[q] = Idle
    BY <1>12 DEF Restart, bookkeeping
  <2>2. \A q \in Polls : ReturnOk(q)'
    BY <2>1, IdleFacts DEF ReturnOk, JobSet
  <2> QED BY <1>0, <2>1, <2>2 DEF ReturnInv
<1>13. CASE UNCHANGED vars
  BY <1>10, <1>13 DEF vars, bookkeeping
<1> QED
  BY <1>2, <1>3, <1>5, <1>6, <1>7, <1>8, <1>9, <1>11, <1>12, <1>13 DEF Next, Poll

LEMMA SafeInv == Spec => [](Typed /\ OneByOne /\ ReturnInv)
BY TypedInit, TypedNext, OneByOneInit, OneByOneNext, ReturnInit, ReturnNext, PTL DEF Spec

\* "Returned cancels the available path": without overlapping polls, money announced as sent
\* back is never announced as available.
THEOREM ReturnTheorem == Spec => NoCreditAfterReturn
<1> DEFINE Quiet == \A tx \in Txs :
               alerts'[tx]["available"] > alerts[tx]["available"] /\ ~overlapped
                   => alerts[tx]["returned"] = 0
<1>1. Typed /\ ReturnInv /\ [Next]_vars => [Quiet]_vars
  <2> SUFFICES ASSUME Typed, ReturnInv, Next PROVE Quiet
    OBVIOUS
  <2> SUFFICES ASSUME NEW tx \in Txs, alerts'[tx]["available"] > alerts[tx]["available"],
                      ~overlapped
               PROVE  alerts[tx]["returned"] = 0
    OBVIOUS
  <2>1. alerts[tx] \in [Kinds -> Nat] /\ alerts \in [Txs -> [Kinds -> Nat]]
    BY DEF Typed
  <2>2. alerts' # alerts
    BY <2>1 DEF Kinds
  <2>3. PICK p \in Polls : RecordAlert(p)
    BY <2>2 DEF Next, Poll, StartPoll, Visit, Absorb, MarkNotified, NotifyFails, Move, Switch,
                Restart, bookkeeping
  <2>4. /\ polls[p].jobs # << >> /\ polls[p].jobs \in Seq(Jobs) /\ Job(p)[2] # "settle"
        /\ alerts' = [alerts EXCEPT ![Job(p)[1]][Job(p)[2]] = @ + 1]
    BY <2>3 DEF RecordAlert, AtJob, IsLoud, Typed, PollType
  <2>5. Job(p) \in JobSet(p) /\ Job(p) \in Jobs
    BY <2>4, TailRange DEF Job, JobSet
  <2>6. Job(p)[1] \in Txs /\ Job(p)[2] \in Kinds /\ Job(p) = <<Job(p)[1], Job(p)[2]>>
    BY <2>4, <2>5 DEF Jobs, JobKinds
  <2>7. Job(p) = <<tx, "available">>
    BY <2>1, <2>4, <2>6 DEF Kinds
  <2>8. ~(alerts[tx]["returned"] > 0)
    BY <2>5, <2>7 DEF ReturnInv, ReturnOk
  <2> QED BY <2>1, <2>8 DEF Kinds
<1> QED BY <1>1, SafeInv, PTL DEF Spec, NoCreditAfterReturn

-----------------------------------------------------------------------------
(* Silence. *)

LEMMA SilenceInit == Init => SilenceInv
<1> SUFFICES ASSUME Init PROVE SilenceInv
  OBVIOUS
<1>1. \A p \in Polls : ~Busy(p)
  BY IdleFacts DEF Init, Busy
<1>2. \A tx \in Txs : \A k \in Kinds : alerts[tx][k] = 0
  BY DEF Init
<1>3. silenced = {} /\ backlog = {} /\ rows = {} /\ enabled = TRUE /\ ~overlapped /\ ~hushed
  BY DEF Init
<1> QED BY <1>1, <1>2, <1>3 DEF SilenceInv, QuietOk, BaselineInv

\* A poll with something before it is at work.
LEMMA AheadBusy == ASSUME Typed', NEW p \in Polls, NEW e, Ahead(p, e)' PROVE Busy(p)'
<1> SUFFICES ASSUME ~Busy(p)' PROVE FALSE
  OBVIOUS
<1>1. polls'[p] = Idle
  BY DEF Busy, Typed, TypeOK
<1> QED BY <1>1, IdleFacts DEF Ahead, JobSet

\* With no upset so far there was none before.
LEMMA UpsetsCount == ASSUME Typed, Upset PROVE upsets' # 0
BY DEF Typed, Upset

\* A quiet poll stays right while it stands still or does a job.
LEMMA LessQuietOk ==
    ASSUME NEW q \in Polls, QuietOk(q), Busy(q),
           JobSet(q)' \subseteq JobSet(q), polls'[q].page = polls[q].page,
           polls'[q].notify = polls[q].notify, hushed' = hushed, backlog' = backlog
    PROVE  QuietOk(q)'
BY DEF QuietOk

LEMMA QuietStart ==
    ASSUME Typed, OneByOne, SilenceInv, NEW p \in Polls, StartPoll(p)
    PROVE  \A q \in Polls : QuietOk(q)'
<1>1. PICK counted \in BOOLEAN :
         /\ hushed' = (hushed \/ ~counted)
         /\ Page # {} => polls'[p].notify = (enabled /\ ~IsBaseline(counted))
  BY StartFacts
<1>2. backlog' = (IF rows = {} /\ ~hydrated
                  THEN UNION {{tx} \X EventsOf(status[tx]) : tx \in Txs} ELSE backlog)
  BY DEF StartPoll
<1>3. ASSUME NEW q \in Polls \ {p} PROVE QuietOk(q)'
  <2>1. polls'[q] = polls[q]
    BY StartFacts
  <2>2. Busy(q) => backlog' = backlog
    BY <1>2 DEF OneByOne
  <2>3. QuietOk(q)
    BY DEF SilenceInv
  <2> QED BY <1>1, <2>1, <2>2, <2>3 DEF QuietOk, Busy, JobSet
<1>4. QuietOk(p)'
  <2>1. CASE Page = {}
    BY <2>1, StartFacts, IdleFacts DEF QuietOk, Busy
  <2>2. CASE Page # {}
    <3>1. polls'[p].page = [tx \in Page |-> status[tx]] /\ JobSet(p)' = {}
      BY <2>2, StartFacts
    <3>2. ASSUME ~hushed', ~polls'[p].notify
          PROVE  backlog' = UNION {{tx} \X EventsOf(status[tx]) : tx \in Txs}
      <4>1. ~hushed /\ counted /\ enabled
        BY <1>1, <3>2 DEF SilenceInv
      <4> QED BY <1>1, <1>2, <2>2, <3>2, <4>1 DEF IsBaseline
    <3>3. Page \subseteq Txs
      BY DEF Page
    <3> QED BY <3>1, <3>2, <3>3 DEF QuietOk
  <2> QED BY <2>1, <2>2
<1> QED BY <1>3, <1>4

LEMMA QuietNext ==
    ASSUME Typed, OneByOne, SilenceInv, Next
    PROVE  \A q \in Polls : QuietOk(q)'
<1>0. \A q \in Polls : QuietOk(q)
  BY DEF SilenceInv
<1>1. ASSUME NEW q \in Polls, polls'[q] = polls[q], hushed' = hushed, backlog' = backlog
      PROVE  QuietOk(q)'
  BY <1>0, <1>1 DEF QuietOk, Busy, JobSet
<1>2. ASSUME NEW p \in Polls, Visit(p) PROVE \A q \in Polls : QuietOk(q)'
  <2>1. /\ \A q \in Polls \ {p} : polls'[q] = polls[q]
        /\ Busy(p) /\ hushed' = hushed /\ backlog' = backlog
    BY <1>2, BusySteps
  <2>2. QuietOk(p)'
    <3>1. PICK tx \in DOMAIN polls[p].page :
             LET seen == polls[p].page[tx]
             IN  /\ DOMAIN polls'[p].page = DOMAIN polls[p].page \ {tx}
                 /\ \A x \in DOMAIN polls'[p].page : polls'[p].page[x] = polls[p].page[x]
                 /\ \A e \in JobSet(p)' :
                       /\ e[1] = tx /\ e = <<tx, e[2]>>
                       /\ e[2] \in EventsOf(seen) \cup {"settle"}
      BY <1>2, VisitFacts
    <3> SUFFICES ASSUME ~hushed', Busy(p)', ~polls'[p].notify PROVE QuietOk(p)'
      BY DEF QuietOk
    <3>2. ~polls[p].notify
      BY <1>2, VisitFacts
    <3>3. \A x \in DOMAIN polls[p].page :
             \A k \in EventsOf(polls[p].page[x]) : <<x, k>> \in backlog
      BY <1>0, <2>1, <3>2 DEF QuietOk
    <3>4. \A e \in JobSet(p)' : e[2] # "settle" => e \in backlog
      BY <3>1, <3>3
    <3> QED BY <2>1, <3>1, <3>3, <3>4 DEF QuietOk
  <2> QED BY <1>1, <2>1, <2>2
<1>3. ASSUME NEW p \in Polls, polls[p].jobs # << >>, JobDone(p), Busy(p),
             hushed' = hushed, backlog' = backlog
      PROVE  \A q \in Polls : QuietOk(q)'
  <2>1. /\ \A q \in Polls \ {p} : polls'[q] = polls[q]
        /\ polls'[p].page = polls[p].page /\ JobSet(p)' \subseteq JobSet(p)
        /\ Busy(p)' => polls'[p].notify = polls[p].notify
    BY <1>3, JobDoneFacts
  <2>2. QuietOk(p)'
    <3>1. CASE Busy(p)'
      BY <1>0, <1>3, <2>1, <3>1, LessQuietOk
    <3>2. CASE ~Busy(p)'
      BY <3>2 DEF QuietOk
    <3> QED BY <3>1, <3>2
  <2> QED BY <1>1, <1>3, <2>1, <2>2
<1>4. ASSUME NEW p \in Polls, Absorb(p) \/ MarkNotified(p) \/ NotifyFails(p)
      PROVE  \A q \in Polls : QuietOk(q)'
  <2>1. Busy(p) /\ hushed' = hushed /\ backlog' = backlog
    BY <1>4, BusySteps
  <2>2. polls[p].jobs # << >> /\ JobDone(p)
    BY <1>4 DEF Absorb, MarkNotified, NotifyFails, AtJob
  <2> QED BY <1>3, <2>1, <2>2
<1>5. ASSUME NEW p \in Polls, RecordAlert(p) PROVE \A q \in Polls : QuietOk(q)'
  <2>1. /\ \A q \in Polls \ {p} : polls'[q] = polls[q]
        /\ hushed' = hushed /\ backlog' = backlog
    BY <1>5, BusySteps
  <2>2. polls'[p].notify
    BY <1>5 DEF RecordAlert, IsLoud, Typed, PollType
  <2>3. QuietOk(p)'
    BY <2>2 DEF QuietOk
  <2> QED BY <1>1, <2>1, <2>3
<1>6. ASSUME NEW tx \in Txs, Move(tx) PROVE \A q \in Polls : QuietOk(q)'
  BY <1>1, <1>6 DEF Move, bookkeeping
<1>7. CASE Switch
  BY <1>7 DEF Switch, QuietOk
<1>8. CASE Restart
  BY <1>8, IdleFacts DEF Restart, QuietOk, Busy
<1> QED
  BY <1>2, <1>4, <1>5, <1>6, <1>7, <1>8, QuietStart DEF Next, Poll

\* What is passed over silently.
LEMMA SilencedNext ==
    ASSUME Typed, OneByOne, SilenceInv, Next
    PROVE  ~hushed' => enabled' /\ silenced' \subseteq backlog'
<1>1. ~hushed => enabled /\ silenced \subseteq backlog
  BY DEF SilenceInv
<1>2. ASSUME NEW p \in Polls, StartPoll(p)
      PROVE  ~hushed' => enabled' /\ silenced' \subseteq backlog'
  <2>1. enabled' = enabled /\ silenced' = silenced /\ (~hushed' => ~hushed)
    BY <1>2 DEF StartPoll
  <2>2. backlog' = backlog \/ rows = {}
    BY <1>2 DEF StartPoll
  <2>3. rows = {} => silenced = {}
    BY DEF Typed, TypeOK
  <2> QED BY <1>1, <2>1, <2>2, <2>3
<1>3. ASSUME NEW p \in Polls, Absorb(p)
      PROVE  ~hushed' => enabled' /\ silenced' \subseteq backlog'
  <2>1. enabled' = enabled /\ hushed' = hushed /\ backlog' = backlog /\ Busy(p)
    BY <1>3, BusySteps
  <2>2. CASE Job(p)[2] = "settle"
    BY <1>1, <1>3, <2>1, <2>2 DEF Absorb
  <2>3. CASE Job(p)[2] # "settle"
    <3>1. silenced' = silenced \cup {Job(p)} /\ polls[p].jobs # << >>
          /\ ~(polls[p].notify /\ enabled)
      BY <1>3, <2>3 DEF Absorb, AtJob, IsLoud
    <3>2. Job(p) \in JobSet(p)
      <4>1. polls[p].jobs \in Seq(Jobs)
        BY DEF Typed, PollType
      <4> QED BY <3>1, <4>1, TailRange DEF Job, JobSet
    <3>3. ~hushed => Job(p) \in backlog
      BY <1>1, <2>1, <2>3, <3>1, <3>2 DEF SilenceInv, QuietOk
    <3> QED BY <1>1, <2>1, <3>1, <3>3
  <2> QED BY <2>2, <2>3
<1>4. ASSUME UNCHANGED <<enabled, silenced, backlog, hushed>>
      PROVE  ~hushed' => enabled' /\ silenced' \subseteq backlog'
  BY <1>1, <1>4
<1>5. CASE Switch
  BY <1>5 DEF Switch
<1> QED
  BY <1>2, <1>3, <1>4, <1>5 DEF Next, Poll, Visit, RecordAlert, MarkNotified, NotifyFails,
     Move, Restart, bookkeeping

\* The first poll of an undisturbed process takes the backlog silently, a later one starts
\* when all of it is flagged.
LEMMA BaselineStart ==
    ASSUME Typed, OneByOne, SilenceInv, NEW p \in Polls, StartPoll(p), upsets' = 0
    PROVE  BaselineInv'
<1>1. PICK counted \in BOOLEAN :
         /\ IF counted /\ Alone THEN UNCHANGED upsets ELSE Upset
         /\ hushed' = (hushed \/ ~counted)
         /\ Page # {} => polls'[p].notify = (enabled /\ ~IsBaseline(counted))
  BY StartFacts
<1>2. counted /\ Alone /\ upsets = 0
  BY <1>1, UpsetsCount
<1>3. /\ ~overlapped /\ ~hushed
      /\ ~hydrated => rows = {} /\ \A tx \in Txs : \A k \in Kinds : alerts[tx][k] = 0
      /\ \A e \in backlog : alerts[e[1]][e[2]] = 0
      /\ \A e \in backlog \ flags :
            \E q \in Polls : Busy(q) /\ ~polls[q].notify /\ Ahead(q, e)
  BY <1>2 DEF SilenceInv, BaselineInv
<1>4. ~overlapped' /\ ~hushed' /\ hydrated' /\ alerts' = alerts /\ flags' = flags
  BY <1>1, <1>2, <1>3 DEF StartPoll
<1>5. /\ \A q \in Polls : ~Busy(q)
      /\ \A q \in Polls \ {p} : ~Busy(q)'
      /\ JobSet(p)' = {}
  BY <1>2, StartFacts DEF Alone, Busy
<1>6. \A q \in Polls : Busy(q)' /\ polls'[q].notify => JobSet(q)' \cap backlog' = {}
  BY <1>5
<1>7. CASE hydrated
  <2>1. backlog' = backlog
    BY <1>7 DEF StartPoll
  <2>2. backlog' \ flags' = {}
    BY <1>3, <1>4, <1>5, <2>1
  <2> QED BY <1>3, <1>4, <1>6, <2>1, <2>2 DEF BaselineInv
<1>8. CASE ~hydrated
  <2>1. backlog' = UNION {{tx} \X EventsOf(status[tx]) : tx \in Txs}
    BY <1>3, <1>8 DEF StartPoll
  <2>2. ASSUME NEW e \in backlog'
        PROVE  e[1] \in Page /\ e[2] \in EventsOf(status[e[1]]) /\ e[2] \in Kinds
    <3>1. PICK tx \in Txs : e \in {tx} \X EventsOf(status[tx])
      BY <2>1, <2>2
    <3>2. status[tx] \in Statuses
      BY DEF Typed, TypeOK
    <3>3. status[tx] # "unknown"
      BY <3>1 DEF EventsOf
    <3> QED BY <3>1, <3>2, <3>3, EventsAreKinds DEF Page
  <2>3. \A e \in backlog' : alerts'[e[1]][e[2]] = 0
    BY <1>3, <1>4, <1>8, <2>2 DEF Page
  <2>4. ASSUME NEW e \in backlog' \ flags' PROVE Busy(p)' /\ ~polls'[p].notify /\ Ahead(p, e)'
    <3>1. Page # {}
      BY <2>2, <2>4
    <3>2. polls'[p].pc = "walk" /\ polls'[p].page = [tx \in Page |-> status[tx]]
      BY <3>1, StartFacts
    <3>3. ~polls'[p].notify
      BY <1>1, <1>3, <1>8, <3>1 DEF IsBaseline
    <3>4. Ahead(p, e)'
      BY <2>2, <2>4, <3>2 DEF Ahead
    <3> QED BY <3>2, <3>3, <3>4 DEF Busy
  <2> QED BY <1>4, <1>6, <2>3, <2>4 DEF BaselineInv
<1> QED BY <1>7, <1>8

LEMMA BaselineVisit ==
    ASSUME Typed, OneByOne, SilenceInv, Typed', NEW p \in Polls, Visit(p), upsets' = 0
    PROVE  BaselineInv'
<1>1. /\ UNCHANGED <<hydrated, overlapped, hushed, backlog, alerts, flags, upsets>>
      /\ Busy(p) /\ \A q \in Polls \ {p} : polls'[q] = polls[q]
  BY BusySteps DEF Visit, bookkeeping
<1>2. hydrated
  BY <1>1 DEF OneByOne
<1>3. /\ ~overlapped /\ ~hushed
      /\ \A e \in backlog : alerts[e[1]][e[2]] = 0
      /\ \A e \in backlog \ flags :
            \E q \in Polls : Busy(q) /\ ~polls[q].notify /\ Ahead(q, e)
  BY <1>1 DEF SilenceInv, BaselineInv
<1>4. PICK tx \in DOMAIN polls[p].page :
         LET seen == polls[p].page[tx]
         IN  /\ DOMAIN polls'[p].page = DOMAIN polls[p].page \ {tx}
             /\ \A x \in DOMAIN polls'[p].page : polls'[p].page[x] = polls[p].page[x]
             /\ \A e \in JobSet(p)' : e = <<tx, e[2]>> /\ (e \notin flags \/ e[2] = "settle")
             /\ \A k \in EventsOf(seen) : <<tx, k>> \notin flags => <<tx, k>> \in JobSet(p)'
  BY VisitFacts
<1>5. JobSet(p) = {} /\ (Busy(p)' => polls'[p].notify = polls[p].notify)
  BY VisitFacts
<1>6. backlog \subseteq Txs \X Kinds
  BY DEF Typed
<1>7. ASSUME NEW e \in backlog' \ flags'
      PROVE  \E q \in Polls : Busy(q)' /\ ~polls'[q].notify /\ Ahead(q, e)'
  <2>1. PICK q \in Polls : Busy(q) /\ ~polls[q].notify /\ Ahead(q, e)
    BY <1>1, <1>3, <1>7
  <2>2. CASE q = p
    <3>1. e[1] \in DOMAIN polls[p].page /\ e[2] \in EventsOf(polls[p].page[e[1]])
      BY <1>5, <2>1, <2>2 DEF Ahead
    <3>2. e = <<e[1], e[2]>> /\ e \notin flags
      BY <1>1, <1>6, <1>7
    <3>3. Ahead(p, e)'
      <4>1. CASE e[1] = tx
        BY <1>4, <3>1, <3>2, <4>1 DEF Ahead
      <4>2. CASE e[1] # tx
        BY <1>4, <3>1, <4>2 DEF Ahead
      <4> QED BY <4>1, <4>2
    <3>4. Busy(p)'
      BY <3>3, AheadBusy
    <3> QED BY <1>5, <2>1, <2>2, <3>3, <3>4
  <2>3. CASE q # p
    BY <1>1, <2>1, <2>3 DEF Busy, Ahead, JobSet
  <2> QED BY <2>2, <2>3
<1>8. ASSUME NEW q \in Polls, Busy(q)', polls'[q].notify PROVE JobSet(q)' \cap backlog' = {}
  <2>1. CASE q = p
    <3>1. polls[p].notify
      BY <1>5, <1>8, <2>1
    <3>2. backlog \subseteq flags
      BY <1>1, <1>3, <3>1 DEF OneByOne
    <3>3. \A e \in JobSet(p)' : e \notin flags \/ e[2] = "settle"
      BY <1>4
    <3>4. \A e \in backlog : e[2] # "settle"
      BY <1>6 DEF Kinds
    <3> QED BY <1>1, <2>1, <3>2, <3>3, <3>4
  <2>2. CASE q # p
    BY <1>1, <1>8, <2>2 DEF Busy, JobSet, SilenceInv, BaselineInv
  <2> QED BY <2>1, <2>2
<1> QED BY <1>1, <1>2, <1>3, <1>7, <1>8 DEF BaselineInv

\* A job that flags what it is for takes nothing from the backlog unseen.
LEMMA BaselineJob ==
    ASSUME Typed, OneByOne, SilenceInv, Typed', NEW p \in Polls, polls[p].jobs # << >>,
           JobDone(p), Busy(p), UNCHANGED <<hydrated, overlapped, hushed, backlog, alerts, upsets>>,
           flags \subseteq flags', Job(p)[2] = "settle" \/ Job(p) \in flags', upsets' = 0
    PROVE  BaselineInv'
<1>1. hydrated
  BY DEF OneByOne
<1>2. /\ ~overlapped /\ ~hushed
      /\ \A e \in backlog : alerts[e[1]][e[2]] = 0
      /\ \A e \in backlog \ flags :
            \E q \in Polls : Busy(q) /\ ~polls[q].notify /\ Ahead(q, e)
      /\ \A q \in Polls : Busy(q) /\ polls[q].notify => JobSet(q) \cap backlog = {}
  BY DEF SilenceInv, BaselineInv
<1>3. /\ \A q \in Polls \ {p} : polls'[q] = polls[q]
      /\ polls'[p].page = polls[p].page
      /\ JobSet(p) = JobSet(p)' \cup {Job(p)}
      /\ Busy(p)' => polls'[p].notify = polls[p].notify
  BY JobDoneFacts
<1>4. ASSUME NEW e \in backlog' \ flags'
      PROVE  \E q \in Polls : Busy(q)' /\ ~polls'[q].notify /\ Ahead(q, e)'
  <2>1. PICK q \in Polls : Busy(q) /\ ~polls[q].notify /\ Ahead(q, e)
    BY <1>2, <1>4
  <2>2. e # Job(p)
    BY <1>4 DEF Typed, Kinds
  <2>3. CASE q = p
    <3>1. Ahead(p, e)'
      BY <1>3, <2>1, <2>2, <2>3 DEF Ahead
    <3> QED BY <1>3, <2>1, <2>3, <3>1, AheadBusy
  <2>4. CASE q # p
    BY <1>3, <2>1, <2>4 DEF Busy, Ahead, JobSet
  <2> QED BY <2>3, <2>4
<1>5. ASSUME NEW q \in Polls, Busy(q)', polls'[q].notify PROVE JobSet(q)' \cap backlog' = {}
  <2>1. CASE q = p
    BY <1>2, <1>3, <1>5, <2>1
  <2>2. CASE q # p
    BY <1>2, <1>3, <1>5, <2>2 DEF Busy, JobSet
  <2> QED BY <2>1, <2>2
<1> QED BY <1>1, <1>2, <1>4, <1>5 DEF BaselineInv

LEMMA BaselineRecord ==
    ASSUME Typed, OneByOne, SilenceInv, NEW p \in Polls, RecordAlert(p), upsets' = 0
    PROVE  BaselineInv'
<1>1. /\ UNCHANGED <<hydrated, overlapped, hushed, backlog, flags, upsets>>
      /\ Busy(p) /\ \A q \in Polls \ {p} : polls'[q] = polls[q]
      /\ alerts' = [alerts EXCEPT ![Job(p)[1]][Job(p)[2]] = @ + 1]
      /\ polls[p].notify /\ polls[p].jobs # << >> /\ Job(p)[2] # "settle"
  BY BusySteps DEF RecordAlert, AtJob, IsLoud
<1>2. hydrated
  BY <1>1 DEF OneByOne
<1>3. /\ ~overlapped /\ ~hushed
      /\ \A e \in backlog : alerts[e[1]][e[2]] = 0
      /\ \A e \in backlog \ flags :
            \E q \in Polls : Busy(q) /\ ~polls[q].notify /\ Ahead(q, e)
      /\ \A q \in Polls : Busy(q) /\ polls[q].notify => JobSet(q) \cap backlog = {}
  BY <1>1 DEF SilenceInv, BaselineInv
<1>4. /\ JobSet(p)' = JobSet(p) /\ polls'[p].page = polls[p].page
      /\ polls'[p].notify = polls[p].notify /\ Busy(p)'
  BY DEF RecordAlert, JobSet, Busy, Typed, PollType
<1>5. Job(p) \in JobSet(p) /\ Job(p) \in Jobs
  <2>1. polls[p].jobs \in Seq(Jobs)
    BY DEF Typed, PollType
  <2> QED BY <1>1, <2>1, TailRange DEF Job, JobSet
<1>6. Job(p) \notin backlog
  BY <1>1, <1>3, <1>5
<1>7. ASSUME NEW e \in backlog' PROVE alerts'[e[1]][e[2]] = 0
  <2>1. /\ alerts \in [Txs -> [Kinds -> Nat]] /\ e \in Txs \X Kinds
        /\ Job(p) = <<Job(p)[1], Job(p)[2]>> /\ Job(p)[1] \in Txs /\ Job(p)[2] \in Kinds
    BY <1>1, <1>5, <1>7 DEF Typed, Jobs, JobKinds
  <2>2. ~(e[1] = Job(p)[1] /\ e[2] = Job(p)[2])
    <3>1. e = <<e[1], e[2]>> /\ e \in backlog
      BY <1>1, <1>7, <2>1
    <3>2. ASSUME e[1] = Job(p)[1], e[2] = Job(p)[2] PROVE FALSE
      <4>1. e = Job(p)
        BY <2>1, <3>1, <3>2 DEF Job
      <4> QED BY <1>6, <3>1, <4>1
    <3> QED BY <3>2
  <2>3. alerts'[e[1]][e[2]] = alerts[e[1]][e[2]]
    BY <1>1, <2>1, <2>2
  <2> QED BY <1>1, <1>3, <1>7, <2>3
<1>8. \A q \in Polls : \A e :
         Busy(q) /\ ~polls[q].notify /\ Ahead(q, e)
             => Busy(q)' /\ ~polls'[q].notify /\ Ahead(q, e)'
  BY <1>1 DEF Busy, Ahead, JobSet
<1>9. \A q \in Polls : Busy(q)' /\ polls'[q].notify => JobSet(q)' \cap backlog' = {}
  <2> TAKE q \in Polls
  <2>1. CASE q = p
    BY <1>1, <1>3, <1>4, <2>1
  <2>2. CASE q # p
    BY <1>1, <1>3, <2>2 DEF Busy, JobSet
  <2> QED BY <2>1, <2>2
<1> QED BY <1>1, <1>2, <1>3, <1>7, <1>8, <1>9 DEF BaselineInv

LEMMA SilenceNext == Typed /\ OneByOne /\ SilenceInv /\ [Next]_vars => SilenceInv'
<1> SUFFICES ASSUME Typed, OneByOne, SilenceInv, [Next]_vars PROVE SilenceInv'
  OBVIOUS
<1>1. CASE UNCHANGED vars
  BY <1>1 DEF vars, bookkeeping, SilenceInv, QuietOk, BaselineInv, Busy, JobSet, Ahead
<1>2. CASE Next
  <2>0. Typed'
    BY TypedNext
  <2>1. ASSUME upsets' = 0 PROVE BaselineInv'
    <3>1. ASSUME NEW p \in Polls, StartPoll(p) PROVE BaselineInv'
      BY <2>1, <3>1, BaselineStart
    <3>2. ASSUME NEW p \in Polls, Visit(p) PROVE BaselineInv'
      BY <2>0, <2>1, <3>2, BaselineVisit
    <3>3. ASSUME NEW p \in Polls, Absorb(p) PROVE BaselineInv'
      <4>1. Busy(p) /\ UNCHANGED <<hydrated, overlapped, hushed, backlog, alerts, upsets>>
        BY <3>3, BusySteps DEF Absorb
      <4>2. polls[p].jobs # << >> /\ JobDone(p) /\ flags \subseteq flags'
            /\ (Job(p)[2] = "settle" \/ Job(p) \in flags')
        BY <3>3 DEF Absorb, AtJob
      <4> QED BY <2>0, <2>1, <4>1, <4>2, BaselineJob
    <3>4. ASSUME NEW p \in Polls, RecordAlert(p) PROVE BaselineInv'
      BY <2>1, <3>4, BaselineRecord
    <3>5. ASSUME NEW p \in Polls, MarkNotified(p) PROVE BaselineInv'
      <4>1. Busy(p) /\ UNCHANGED <<hydrated, overlapped, hushed, backlog, alerts, upsets>>
        BY <3>5, BusySteps DEF MarkNotified, bookkeeping
      <4>2. polls[p].jobs # << >> /\ JobDone(p) /\ flags \subseteq flags' /\ Job(p) \in flags'
        BY <3>5 DEF MarkNotified, AtJob
      <4> QED BY <2>0, <2>1, <4>1, <4>2, BaselineJob
    <3>6. ASSUME NEW p \in Polls, NotifyFails(p) PROVE FALSE
      BY <2>1, <3>6, UpsetsCount DEF NotifyFails
    <3>7. ASSUME NEW tx \in Txs, Move(tx) PROVE BaselineInv'
      <4>1. UNCHANGED <<rows, flags, hydrated, polls, alerts, backlog, overlapped, hushed, upsets>>
        BY <3>7 DEF Move, bookkeeping
      <4>2. BaselineInv
        BY DEF SilenceInv
      <4> QED BY <4>1, <4>2 DEF BaselineInv, Busy, Ahead, JobSet
    <3>8. CASE Switch \/ Restart
      BY <2>1, <3>8, UpsetsCount DEF Switch, Restart
    <3> QED
      BY <1>2, <3>1, <3>2, <3>3, <3>4, <3>5, <3>6, <3>7, <3>8 DEF Next, Poll
  <2> QED BY <1>2, <2>1, QuietNext, SilencedNext DEF SilenceInv, BaselineInv
<1> QED BY <1>1, <1>2

\* Nothing but the backlog is passed over silently, however often the process restarts, and an
\* undisturbed watcher announces none of it.
THEOREM SilenceTheorem == Spec => []SilenceIsForBacklog
<1>1. Typed /\ SilenceInv => SilenceIsForBacklog
  BY DEF SilenceInv, BaselineInv, SilenceIsForBacklog
<1>2. Init => Typed /\ OneByOne /\ SilenceInv
  BY TypedInit, OneByOneInit, SilenceInit
<1>3. Typed /\ OneByOne /\ SilenceInv /\ [Next]_vars => (Typed /\ OneByOne /\ SilenceInv)'
  BY TypedNext, OneByOneNext, SilenceNext
<1> QED BY <1>1, <1>2, <1>3, PTL DEF Spec

-----------------------------------------------------------------------------
(* No event is announced more often than upsets explain. *)

Distinct(s) == \A i, j \in DOMAIN s : s[i] = s[j] => i = j

\* The poll has announced the event and has not set its flag.
Telling(p, e) == polls[p].pc = "tell" /\ Job(p) = e

\* The poll may still announce the event.
MayTell(p, e) ==
    \/ e \in JobSet(p) /\ ~Telling(p, e)
    \/ e \notin flags /\ e[1] \in DOMAIN polls[p].page

Pending(e) == {p \in Polls : MayTell(p, e)}
BusyPolls == {p \in Polls : Busy(p)}

\* A poll does each job once, and not for the deposits it has yet to look at.
JobsApart(p) ==
    Distinct(polls[p].jobs) /\ \A e \in JobSet(p) : e[1] \notin DOMAIN polls[p].page

\* Every message told or still to be told beyond the first is paid for by an upset, and the
\* first one too while the event has no flag and nobody is about to set it.
OnceAt(tx, k) ==
    /\ alerts[tx][k] + Cardinality(Pending(<<tx, k>>)) <= 1 + upsets
    /\ <<tx, k>> \notin flags /\ (\A p \in Polls : ~Telling(p, <<tx, k>>))
          => alerts[tx][k] <= upsets

OnceInv ==
    /\ IsFiniteSet(BusyPolls)
    /\ \A p \in Polls : JobsApart(p)
    /\ \A tx \in Txs : \A k \in Kinds : OnceAt(tx, k)

LEMMA DistinctTail ==
    ASSUME NEW S, NEW s \in Seq(S), s # << >>, Distinct(s)
    PROVE  Distinct(Tail(s)) /\ Head(s) \notin Range(Tail(s))
<1>1. /\ Tail(s) \in Seq(S) /\ Len(Tail(s)) = Len(s) - 1
      /\ \A i \in 1..Len(Tail(s)) : Tail(s)[i] = s[i + 1]
      /\ Head(s) = s[1] /\ Len(s) \in Nat \ {0} /\ DOMAIN s = 1..Len(s)
      /\ DOMAIN Tail(s) = 1..Len(Tail(s))
  OBVIOUS
<1>2. \A i \in DOMAIN Tail(s) : i \in Int /\ i + 1 \in DOMAIN s /\ Tail(s)[i] = s[i + 1]
  BY <1>1
<1>3. Distinct(Tail(s))
  BY <1>2 DEF Distinct
<1>4. ASSUME NEW i \in DOMAIN Tail(s), Tail(s)[i] = Head(s) PROVE FALSE
  <2>1. 1 \in DOMAIN s /\ s[i + 1] = s[1] /\ i + 1 # 1
    BY <1>1, <1>4
  <2> QED BY <1>2, <2>1 DEF Distinct
<1> QED BY <1>3, <1>4 DEF Range

LEMMA DistinctConcat ==
    ASSUME NEW S, NEW s \in Seq(S), NEW t \in Seq(S), Distinct(s), Distinct(t),
           Range(s) \cap Range(t) = {}
    PROVE  Distinct(s \o t)
<1> DEFINE u == s \o t
<1>1. /\ Len(s) \in Nat /\ Len(t) \in Nat
      /\ DOMAIN s = 1..Len(s) /\ DOMAIN t = 1..Len(t) /\ DOMAIN u = 1..Len(s) + Len(t)
      /\ \A i \in DOMAIN u : u[i] = IF i <= Len(s) THEN s[i] ELSE t[i - Len(s)]
  OBVIOUS
<1> SUFFICES ASSUME NEW i \in DOMAIN u, NEW j \in DOMAIN u, u[i] = u[j] PROVE i = j
  BY DEF Distinct
<1>2. ASSUME NEW m \in DOMAIN u, m <= Len(s) PROVE m \in DOMAIN s /\ u[m] = s[m] /\ u[m] \in Range(s)
  BY <1>1, <1>2 DEF Range
<1>3. ASSUME NEW m \in DOMAIN u, ~(m <= Len(s))
      PROVE  m \in Int /\ m - Len(s) \in DOMAIN t /\ u[m] = t[m - Len(s)] /\ u[m] \in Range(t)
  <2>1. m \in Int /\ m - Len(s) \in DOMAIN t /\ u[m] = t[m - Len(s)]
    BY <1>1, <1>3
  <2> QED BY <2>1 DEF Range
<1>7. i \in Int /\ j \in Int
  BY <1>1
<1> HIDE DEF u
<1>4. CASE i <= Len(s) /\ j <= Len(s)
  BY <1>2, <1>4 DEF Distinct
<1>5. CASE ~(i <= Len(s)) /\ ~(j <= Len(s))
  <2>1. i - Len(s) = j - Len(s)
    BY <1>3, <1>5 DEF Distinct
  <2> QED BY <1>1, <1>3, <1>5, <2>1
<1>6. CASE (i <= Len(s)) # (j <= Len(s))
  <2>1. \/ u[i] \in Range(s) /\ u[j] \in Range(t)
        \/ u[i] \in Range(t) /\ u[j] \in Range(s)
    BY <1>2, <1>3, <1>6
  <2> QED BY <2>1
<1> QED BY <1>1, <1>4, <1>5, <1>6, <1>7

\* A deposit's jobs are of different kinds.
LEMMA JobsForDistinct ==
    ASSUME NEW tx \in Txs, NEW seen \in Statuses
    PROVE  Distinct(JobsFor(tx, seen))
<1> DEFINE due(k) == IF <<tx, k>> \in flags THEN << >> ELSE <<k>>
           settle == IF due("available") # << >> THEN <<"settle">> ELSE << >>
           back == IF seen = "returned" /\ due("returned") # << >>
                   THEN <<"returned">> \o settle ELSE << >>
           credit == IF seen = "credited" THEN due("available") ELSE << >>
           first == due("detected") \o back
<1>0. JobsFor(tx, seen) = first \o credit
  BY DEF JobsFor
<1>1. << >> \in Seq(JobKinds) /\ Distinct(<< >>) /\ Range(<< >>) = {}
  BY EmptyRange DEF Distinct
<1>2. \A k \in JobKinds : <<k>> \in Seq(JobKinds) /\ Distinct(<<k>>) /\ Range(<<k>>) = {k}
  BY OneRange DEF Distinct
<1>3. \A k \in Kinds : due(k) \in Seq(JobKinds) /\ Distinct(due(k)) /\ Range(due(k)) \subseteq {k}
  BY <1>1, <1>2 DEF JobKinds
<1>4. /\ settle \in Seq(JobKinds) /\ Distinct(settle) /\ Range(settle) \subseteq {"settle"}
  BY <1>1, <1>2 DEF JobKinds
<1>5. "detected" \in Kinds /\ "available" \in Kinds /\ "returned" \in JobKinds
  BY DEF Kinds, JobKinds
<1> HIDE DEF due, settle
<1>6. /\ back \in Seq(JobKinds) /\ Distinct(back) /\ Range(back) \subseteq {"returned", "settle"}
      /\ seen # "returned" => back = << >>
  <2>1. <<"returned">> \in Seq(JobKinds) /\ Distinct(<<"returned">>)
        /\ Range(<<"returned">>) = {"returned"}
    BY <1>2, <1>5
  <2>2. PICK r \in Seq(JobKinds) : r = <<"returned">>
    BY <2>1
  <2>3. r \o settle \in Seq(JobKinds) /\ Range(r \o settle) = Range(r) \cup Range(settle)
    BY <1>4, ConcatRange
  <2>4. Distinct(r \o settle)
    BY <1>4, <2>1, <2>2, DistinctConcat
  <2> QED BY <1>1, <1>4, <2>1, <2>2, <2>3, <2>4
<1>7. /\ credit \in Seq(JobKinds) /\ Distinct(credit) /\ Range(credit) \subseteq {"available"}
  BY <1>1, <1>3, <1>5
<1> HIDE DEF back, credit
<1>8. /\ first \in Seq(JobKinds) /\ Range(first) \subseteq {"detected", "returned", "settle"}
      /\ Distinct(first)
  <2>1. /\ due("detected") \in Seq(JobKinds) /\ Distinct(due("detected"))
        /\ Range(due("detected")) \subseteq {"detected"}
    BY <1>3, <1>5
  <2> QED BY <1>6, <2>1, ConcatRange, DistinctConcat
<1> HIDE DEF first
<1> QED BY <1>0, <1>7, <1>8, DistinctConcat

LEMMA FinitePending ==
    ASSUME Typed, OnceInv, NEW e
    PROVE  IsFiniteSet(Pending(e)) /\ Pending(e) \subseteq BusyPolls
           /\ Cardinality(Pending(e)) \in Nat
<1>1. Pending(e) \subseteq BusyPolls
  BY IdleFacts DEF Pending, BusyPolls, MayTell, Busy, JobSet, Typed, TypeOK
<1> QED BY <1>1, FS_Subset, FS_CardinalityType DEF OnceInv

LEMMA FewerPending ==
    ASSUME Typed, OnceInv, NEW e, Pending(e)' \subseteq Pending(e)
    PROVE  Cardinality(Pending(e)') <= Cardinality(Pending(e))
           /\ Cardinality(Pending(e)') \in Nat
<1>1. IsFiniteSet(Pending(e))
  BY FinitePending
<1>2. IsFiniteSet(Pending(e)')
  BY <1>1, FS_Subset
<1> QED BY <1>1, <1>2, FS_Subset, FS_CardinalityType

\* The events others may tell stay, and shrink with the flags.
LEMMA OthersPending ==
    ASSUME NEW q \in Polls, polls'[q] = polls[q], flags \subseteq flags', NEW e
    PROVE  /\ MayTell(q, e)' => MayTell(q, e)
           /\ Telling(q, e)' <=> Telling(q, e)
           /\ JobsApart(q) => JobsApart(q)'
BY DEF MayTell, Telling, JobSet, Job, JobsApart

\* A job done is not done again.
LEMMA DoneApart ==
    ASSUME Typed, OnceInv, NEW p \in Polls, polls[p].jobs # << >>, JobDone(p),
           flags \subseteq flags'
    PROVE  /\ \A q \in Polls : JobsApart(q)'
           /\ \A e : Pending(e)' \subseteq Pending(e)
           /\ \A q \in Polls : \A e : Telling(q, e)' => Telling(q, e)
           /\ \A q \in Polls \ {p} : \A e : Telling(q, e)' <=> Telling(q, e)
           /\ BusyPolls' \subseteq BusyPolls
<1>1. polls[p] \in PollType /\ polls \in [Polls -> PollType]
  BY DEF Typed
<1>2. polls[p].jobs \in Seq(Jobs) /\ polls[p].page \in Pages
  BY <1>1 DEF PollType
<1>3. Distinct(polls[p].jobs) /\ \A e \in JobSet(p) : e[1] \notin DOMAIN polls[p].page
  BY DEF OnceInv, JobsApart
<1> DEFINE jobs == Tail(polls[p].jobs)
<1>4. /\ jobs \in Seq(Jobs) /\ Range(polls[p].jobs) = Range(jobs) \cup {Job(p)}
      /\ Distinct(jobs) /\ Job(p) \notin Range(jobs)
  BY <1>2, <1>3, TailRange, DistinctTail DEF Job
<1>5. Goes(p, jobs, polls[p].page)
  BY DEF JobDone
<1> HIDE DEF jobs
<1>6. /\ \A q \in Polls \ {p} : polls'[q] = polls[q]
      /\ polls'[p].jobs = jobs /\ polls'[p].page = polls[p].page
  BY <1>1, <1>2, <1>4, <1>5, GoesFacts
<1>7. polls'[p].pc # "tell" /\ Busy(p)
  <2>1. polls'[p].pc \in {"idle", "walk"}
    BY <1>1, <1>2, <1>4, <1>5, GoesFacts DEF Idle
  <2>2. polls[p].jobs # Idle.jobs
    BY DEF Idle
  <2> QED BY <2>1, <2>2 DEF Busy, Typed, TypeOK
<1>8. JobSet(p)' = Range(jobs) /\ JobSet(p) = Range(jobs) \cup {Job(p)}
  BY <1>4, <1>6 DEF JobSet
<1>9. JobsApart(p)'
  BY <1>3, <1>4, <1>6, <1>8 DEF JobsApart
<1>10. \A q \in Polls \ {p} : JobsApart(q)'
  BY <1>6, OthersPending DEF OnceInv
<1>11. ASSUME NEW e, MayTell(p, e)' PROVE MayTell(p, e)
  BY <1>4, <1>6, <1>8, <1>11 DEF MayTell, Telling
<1>12. \A e : Pending(e)' \subseteq Pending(e)
  BY <1>6, <1>11, OthersPending DEF Pending
<1>13. \A e : ~Telling(p, e)'
  BY <1>7 DEF Telling
<1>14. \A q \in Polls \ {p} : \A e : Telling(q, e)' <=> Telling(q, e)
  BY <1>6, OthersPending
<1>15. BusyPolls' \subseteq BusyPolls
  BY <1>6, <1>7 DEF BusyPolls, Busy
<1> QED BY <1>9, <1>10, <1>12, <1>13, <1>14, <1>15

\* Fewer polls may tell, or every new one is paid for.
LEMMA OnceKept ==
    ASSUME Typed, OnceInv, NEW tx \in Txs, NEW k \in Kinds,
           Pending(<<tx, k>>)' \subseteq Pending(<<tx, k>>),
           alerts' = alerts, flags \subseteq flags',
           \/ upsets' = upsets + 1
           \/ /\ upsets' = upsets
              /\ <<tx, k>> \notin flags' =>
                     \A p \in Polls : Telling(p, <<tx, k>>) => Telling(p, <<tx, k>>)'
    PROVE  OnceAt(tx, k)'
<1>1. OnceAt(tx, k) /\ alerts[tx][k] \in Nat /\ upsets \in Nat
  BY DEF OnceInv, Typed
<1> DEFINE c == Cardinality(Pending(<<tx, k>>))
           d == Cardinality(Pending(<<tx, k>>)')
<1>2. c \in Nat /\ d \in Nat /\ d <= c
  BY FewerPending, FinitePending
<1>3. alerts[tx][k] + c <= 1 + upsets
  BY <1>1 DEF OnceAt
<1> HIDE DEF c, d
<1>4. alerts'[tx][k] + d <= 1 + upsets'
  BY <1>1, <1>2, <1>3
<1>5. CASE upsets' = upsets + 1
  <2>1. alerts'[tx][k] <= upsets'
    BY <1>1, <1>2, <1>3, <1>5
  <2> QED BY <1>4, <2>1 DEF OnceAt, d
<1>6. CASE upsets' = upsets /\ (<<tx, k>> \notin flags' =>
                     \A p \in Polls : Telling(p, <<tx, k>>) => Telling(p, <<tx, k>>)')
  <2>1. ASSUME <<tx, k>> \notin flags', \A p \in Polls : ~Telling(p, <<tx, k>>)'
        PROVE  alerts'[tx][k] <= upsets'
    BY <1>1, <1>6, <2>1 DEF OnceAt
  <2> QED BY <1>4, <2>1 DEF OnceAt, d
<1> QED BY <1>5, <1>6

LEMMA OnceStart ==
    ASSUME Typed, OnceInv, NEW p \in Polls, StartPoll(p)
    PROVE  OnceInv'
<1>1. /\ \A q \in Polls \ {p} : polls'[q] = polls[q]
      /\ ~Busy(p) /\ JobSet(p)' = {} /\ UNCHANGED <<alerts, flags>>
  BY StartFacts DEF StartPoll
<1>2. polls'[p].pc \in {"idle", "walk"} /\ polls'[p].jobs = << >>
  <2>1. polls[p] = Idle /\ polls \in [Polls -> PollType]
    BY DEF Typed, TypeOK, StartPoll
  <2> QED BY <2>1, IdleFacts DEF StartPoll
<1>3. JobsApart(p)'
  BY <1>1, <1>2 DEF JobsApart, Distinct
<1>4. \A q \in Polls \ {p} : JobsApart(q)'
  BY <1>1, OthersPending DEF OnceInv
<1>5. IsFiniteSet(BusyPolls')
  <2>1. BusyPolls' \subseteq BusyPolls \cup {p}
    BY <1>1 DEF BusyPolls, Busy
  <2>2. IsFiniteSet(BusyPolls \cup {p})
    BY FS_AddElement DEF OnceInv
  <2> QED BY <2>1, <2>2, FS_Subset
<1>6. ASSUME NEW tx \in Txs, NEW k \in Kinds PROVE OnceAt(tx, k)'
  <2> DEFINE e == <<tx, k>>
             c == Cardinality(Pending(e))
             d == Cardinality(Pending(e)')
  <2>1. OnceAt(tx, k) /\ alerts[tx][k] \in Nat /\ upsets \in Nat
    BY DEF OnceInv, Typed
  <2>2. \A q \in Polls : Telling(q, e)' <=> Telling(q, e)
    <3>1. \A q \in Polls \ {p} : Telling(q, e)' <=> Telling(q, e)
      BY <1>1, OthersPending
    <3>2. ~Telling(p, e) /\ ~Telling(p, e)'
      BY <1>1, <1>2 DEF Telling, Busy, StartPoll
    <3> QED BY <3>1, <3>2
  <2>3. Pending(e)' \subseteq Pending(e) \cup {p}
    BY <1>1, OthersPending DEF Pending
  <2>4. c \in Nat /\ IsFiniteSet(Pending(e))
    BY FinitePending
  <2>5. d \in Nat /\ d <= c + 1
    <3>1. /\ IsFiniteSet(Pending(e) \cup {p})
          /\ Cardinality(Pending(e) \cup {p}) = c \/ Cardinality(Pending(e) \cup {p}) = c + 1
      BY <2>4, FS_AddElement
    <3>2. IsFiniteSet(Pending(e)') /\ d <= Cardinality(Pending(e) \cup {p})
      BY <2>3, <3>1, FS_Subset
    <3>3. d \in Nat
      BY <3>2, FS_CardinalityType
    <3> HIDE DEF c, d
    <3> QED BY <2>4, <3>1, <3>2, <3>3
  <2>6. alerts[tx][k] + c <= 1 + upsets
    BY <2>1 DEF OnceAt
  <2>7. e \notin flags /\ (\A q \in Polls : ~Telling(q, e)) => alerts[tx][k] <= upsets
    BY <2>1 DEF OnceAt
  <2>8. upsets' = upsets \/ upsets' = upsets + 1
    BY StartFacts DEF Upset
  <2>9. e \notin flags' /\ (\A q \in Polls : ~Telling(q, e)') => alerts'[tx][k] <= upsets'
    BY <1>1, <2>1, <2>2, <2>7, <2>8
  <2>10. alerts'[tx][k] + d <= 1 + upsets'
    <3>1. CASE upsets' = upsets + 1
      <4> HIDE DEF c, d
      <4> QED BY <1>1, <2>1, <2>4, <2>5, <2>6, <3>1
    <3>2. CASE e \in flags
      <4>1. Pending(e)' \subseteq Pending(e)
        BY <1>1, <2>3, <3>2 DEF Pending, MayTell
      <4>2. d <= c
        BY <4>1, FewerPending
      <4> HIDE DEF c, d
      <4> QED BY <1>1, <2>1, <2>4, <2>5, <2>6, <2>8, <4>2
    <3>3. CASE e \notin flags /\ upsets' # upsets + 1
      <4>1. Alone
        BY <3>3, StartFacts DEF Upset
      <4>2. BusyPolls = {} /\ \A q \in Polls : ~Telling(q, e)
        BY <4>1 DEF Alone, BusyPolls, Busy, Telling
      <4>3. Pending(e) = {}
        BY <4>2, FinitePending
      <4>4. c = 0
        BY <4>3, FS_EmptySet
      <4>5. alerts[tx][k] <= upsets
        BY <2>7, <3>3, <4>2
      <4> HIDE DEF c, d
      <4> QED BY <1>1, <2>1, <2>5, <2>8, <4>4, <4>5
    <3> QED BY <3>1, <3>2, <3>3
  <2> QED BY <2>9, <2>10 DEF OnceAt
<1> QED BY <1>3, <1>4, <1>5, <1>6 DEF OnceInv

LEMMA OnceVisit ==
    ASSUME Typed, OnceInv, NEW p \in Polls, Visit(p)
    PROVE  OnceInv'
<1>1. PICK tx \in DOMAIN polls[p].page :
         LET seen == polls[p].page[tx]
         IN  /\ tx \in Txs /\ seen \in Statuses \ {"unknown"}
             /\ DOMAIN polls'[p].page = DOMAIN polls[p].page \ {tx}
             /\ \A e \in JobSet(p)' :
                   /\ e[1] = tx /\ e = <<tx, e[2]>>
                   /\ e \notin flags \/ e[2] = "settle"
  BY VisitFacts
<1>2. /\ \A q \in Polls \ {p} : polls'[q] = polls[q]
      /\ polls[p].pc = "walk" /\ JobSet(p) = {}
      /\ polls'[p].pc # "tell"
      /\ UNCHANGED <<alerts, flags, upsets>>
  BY VisitFacts DEF Visit, bookkeeping, Busy
<1>3. Distinct(polls'[p].jobs)
  <2>1. polls[p] \in PollType /\ polls \in [Polls -> PollType]
    BY DEF Typed
  <2>2. polls[p].page \in Pages
    BY <2>1 DEF PollType
  <2> DEFINE page == polls[p].page
  <2>3. PICK t \in DOMAIN page :
           Goes(p, [i \in DOMAIN JobsFor(t, page[t]) |-> <<t, JobsFor(t, page[t])[i]>>],
                Restrict(page, DOMAIN page \ {t}))
    BY DEF Visit
  <2> DEFINE kinds == JobsFor(t, page[t])
             jobs == [i \in DOMAIN kinds |-> <<t, kinds[i]>>]
             rest == Restrict(page, DOMAIN page \ {t})
  <2>4. t \in Txs /\ page[t] \in Statuses \ {"unknown"}
    BY <2>2, PageTypes DEF Typed
  <2>5. kinds \in Seq(JobKinds) /\ Distinct(kinds)
    BY <2>4, JobsForRange, JobsForDistinct
  <2>6. rest \in Pages
    <3>1. DOMAIN page \ {t} \in SUBSET DOMAIN page
      OBVIOUS
    <3> HIDE DEF page
    <3>2. page \in Pages
      BY <2>2 DEF page
    <3> QED BY <3>1, <3>2, RestrictPage
  <2>7. Goes(p, jobs, rest)
    BY <2>3
  <2> HIDE DEF kinds
  <2>8. jobs \in Seq(Jobs) /\ Distinct(jobs)
    <3>1. jobs \in Seq(Jobs)
      BY <2>4, <2>5, PairRange
    <3> QED BY <2>5, <3>1 DEF Distinct
  <2> HIDE DEF jobs, rest, page
  <2>9. polls'[p].jobs = jobs
    BY <2>1, <2>6, <2>7, <2>8, GoesFacts
  <2> QED BY <2>8, <2>9
<1>4. JobsApart(p)'
  BY <1>1, <1>3 DEF JobsApart
<1>5. \A q \in Polls \ {p} : JobsApart(q)'
  BY <1>2, OthersPending DEF OnceInv
<1>6. IsFiniteSet(BusyPolls')
  <2>1. BusyPolls' \subseteq BusyPolls
    BY <1>2 DEF BusyPolls, Busy
  <2> QED BY <2>1, FS_Subset DEF OnceInv
<1>7. ASSUME NEW ty \in Txs, NEW k \in Kinds PROVE OnceAt(ty, k)'
  <2>1. ASSUME MayTell(p, <<ty, k>>)' PROVE MayTell(p, <<ty, k>>)
    <3>1. k # "settle"
      BY DEF Kinds
    <3> QED BY <1>1, <1>2, <2>1, <3>1 DEF MayTell
  <2>2. Pending(<<ty, k>>)' \subseteq Pending(<<ty, k>>)
    BY <1>2, <2>1, OthersPending DEF Pending
  <2>3. \A q \in Polls : Telling(q, <<ty, k>>) => Telling(q, <<ty, k>>)'
    BY <1>2, OthersPending DEF Telling
  <2> QED BY <1>2, <2>2, <2>3, OnceKept
<1> QED BY <1>4, <1>5, <1>6, <1>7 DEF OnceInv

LEMMA OnceJob ==
    ASSUME Typed, OnceInv, NEW p \in Polls,
           Absorb(p) \/ MarkNotified(p) \/ NotifyFails(p)
    PROVE  OnceInv'
<1>1. /\ polls[p].jobs # << >> /\ JobDone(p) /\ flags \subseteq flags'
      /\ alerts' = alerts
  BY DEF Absorb, MarkNotified, NotifyFails, AtJob, bookkeeping
<1>2. /\ \A q \in Polls : JobsApart(q)'
      /\ \A e : Pending(e)' \subseteq Pending(e)
      /\ \A q \in Polls \ {p} : \A e : Telling(q, e)' <=> Telling(q, e)
      /\ BusyPolls' \subseteq BusyPolls
  BY <1>1, DoneApart
<1>3. IsFiniteSet(BusyPolls')
  BY <1>2, FS_Subset DEF OnceInv
<1>4. ASSUME NEW tx \in Txs, NEW k \in Kinds PROVE OnceAt(tx, k)'
  <2>1. CASE Absorb(p)
    <3>1. ~Telling(p, <<tx, k>>) /\ upsets' = upsets
      BY <2>1 DEF Absorb, AtJob, Telling
    <3> QED BY <1>1, <1>2, <3>1, OnceKept
  <2>2. CASE MarkNotified(p)
    <3>1. (Telling(p, <<tx, k>>) => <<tx, k>> \in flags') /\ upsets' = upsets
      BY <2>2 DEF MarkNotified, AtJob, Telling
    <3> QED BY <1>1, <1>2, <3>1, OnceKept
  <2>3. CASE NotifyFails(p)
    <3>1. upsets' = upsets + 1
      BY <2>3 DEF NotifyFails, Upset
    <3> QED BY <1>1, <1>2, <3>1, OnceKept
  <2> QED BY <2>1, <2>2, <2>3
<1> QED BY <1>2, <1>3, <1>4 DEF OnceInv

LEMMA OnceRecord ==
    ASSUME Typed, OnceInv, NEW p \in Polls, RecordAlert(p)
    PROVE  OnceInv'
<1>1. /\ polls[p].jobs # << >> /\ polls[p].pc = "walk"
      /\ polls' = [polls EXCEPT ![p].pc = "tell"] /\ UNCHANGED <<flags, upsets>>
      /\ alerts' = [alerts EXCEPT ![Job(p)[1]][Job(p)[2]] = @ + 1]
  BY DEF RecordAlert, AtJob
<1>2. polls[p] \in PollType /\ polls \in [Polls -> PollType]
  BY DEF Typed
<1>3. /\ \A q \in Polls \ {p} : polls'[q] = polls[q]
      /\ polls'[p].pc = "tell" /\ polls'[p].jobs = polls[p].jobs
      /\ polls'[p].page = polls[p].page
  BY <1>1, <1>2 DEF PollType
<1>4. \A q \in Polls : JobsApart(q)'
  BY <1>3 DEF OnceInv, JobsApart, JobSet
<1>5. IsFiniteSet(BusyPolls')
  <2>1. BusyPolls' \subseteq BusyPolls
    BY <1>1, <1>3 DEF BusyPolls, Busy
  <2> QED BY <2>1, FS_Subset DEF OnceInv
<1>6. Job(p) \in JobSet(p) /\ Job(p)[1] \notin DOMAIN polls[p].page /\ Job(p)' = Job(p)
      /\ JobSet(p)' = JobSet(p)
  <2>1. polls[p].jobs \in Seq(Jobs)
    BY <1>2 DEF PollType
  <2>2. Job(p) \in JobSet(p)
    BY <1>1, <2>1, TailRange DEF Job, JobSet
  <2> QED BY <1>3, <2>2 DEF OnceInv, JobsApart, Job, JobSet
<1>7. Job(p) = <<Job(p)[1], Job(p)[2]>> /\ Job(p)[1] \in Txs /\ Job(p)[2] \in Kinds
  <2>1. Job(p) \in Jobs /\ Job(p)[2] # "settle"
    <3>1. polls[p].jobs \in Seq(Jobs)
      BY <1>2 DEF PollType
    <3> QED BY <1>1, <3>1 DEF Job, RecordAlert, IsLoud
  <2> QED BY <2>1 DEF Jobs, JobKinds
<1>8. ASSUME NEW tx \in Txs, NEW k \in Kinds PROVE OnceAt(tx, k)'
  <2>1. OnceAt(tx, k) /\ alerts \in [Txs -> [Kinds -> Nat]] /\ upsets \in Nat
    BY DEF OnceInv, Typed
  <2>2. \A q \in Polls : MayTell(q, <<tx, k>>)' => MayTell(q, <<tx, k>>)
    <3>1. MayTell(p, <<tx, k>>)' => MayTell(p, <<tx, k>>)
      BY <1>1, <1>3, <1>6 DEF MayTell, Telling
    <3> QED BY <1>1, <1>3, <3>1, OthersPending
  <2>3. Pending(<<tx, k>>)' \subseteq Pending(<<tx, k>>)
    BY <2>2 DEF Pending
  <2>4. CASE Job(p) # <<tx, k>>
    <3>1. alerts'[tx][k] = alerts[tx][k]
      BY <1>1, <1>7, <2>1, <2>4
    <3>2. \A q \in Polls : Telling(q, <<tx, k>>)' <=> Telling(q, <<tx, k>>)
      BY <1>1, <1>3, <1>6, <2>4 DEF Telling, Job
    <3> DEFINE c == Cardinality(Pending(<<tx, k>>))
               d == Cardinality(Pending(<<tx, k>>)')
    <3>3. c \in Nat /\ d \in Nat /\ d <= c
      BY <2>3, FewerPending, FinitePending
    <3>4. alerts[tx][k] + c <= 1 + upsets
      BY <2>1 DEF OnceAt
    <3> HIDE DEF c, d
    <3>5. alerts'[tx][k] + d <= 1 + upsets'
      BY <1>1, <2>1, <3>1, <3>3, <3>4
    <3>6. <<tx, k>> \notin flags' /\ (\A q \in Polls : ~Telling(q, <<tx, k>>)')
             => alerts'[tx][k] <= upsets'
      BY <1>1, <2>1, <3>1, <3>2 DEF OnceAt
    <3> QED BY <3>5, <3>6 DEF OnceAt, d
  <2>5. CASE Job(p) = <<tx, k>>
    <3>1. alerts'[tx][k] = alerts[tx][k] + 1
      <4>1. Job(p)[1] = tx /\ Job(p)[2] = k
        BY <2>5
      <4> QED BY <1>1, <2>1, <4>1
    <3>2. Telling(p, <<tx, k>>)'
      BY <1>3, <1>6, <2>5 DEF Telling
    <3>3. p \in Pending(<<tx, k>>)
      BY <1>1, <1>6, <2>5 DEF Pending, MayTell, Telling
    <3>4. ~MayTell(p, <<tx, k>>)'
      <4>1. tx \notin DOMAIN polls'[p].page
        BY <1>3, <1>6, <2>5
      <4> QED BY <3>2, <4>1 DEF MayTell
    <3>5. Pending(<<tx, k>>)' \subseteq Pending(<<tx, k>>) \ {p}
      BY <2>3, <3>4 DEF Pending
    <3> DEFINE c == Cardinality(Pending(<<tx, k>>))
               d == Cardinality(Pending(<<tx, k>>)')
    <3>6. c \in Nat /\ d \in Nat /\ d <= c - 1
      <4>1. c \in Nat /\ IsFiniteSet(Pending(<<tx, k>>))
        BY FinitePending
      <4>2. /\ IsFiniteSet(Pending(<<tx, k>>) \ {p})
            /\ Cardinality(Pending(<<tx, k>>) \ {p}) = c - 1
        BY <3>3, <4>1, FS_RemoveElement
      <4>3. IsFiniteSet(Pending(<<tx, k>>)') /\ d <= Cardinality(Pending(<<tx, k>>) \ {p})
        BY <3>5, <4>2, FS_Subset
      <4>4. d \in Nat
        BY <4>3, FS_CardinalityType
      <4> HIDE DEF c, d
      <4> QED BY <4>1, <4>2, <4>3, <4>4
    <3>7. alerts[tx][k] + c <= 1 + upsets
      BY <2>1 DEF OnceAt
    <3> HIDE DEF c, d
    <3>8. alerts'[tx][k] + d <= 1 + upsets'
      BY <1>1, <2>1, <3>1, <3>6, <3>7
    <3> QED BY <3>2, <3>8 DEF OnceAt, d
  <2> QED BY <2>4, <2>5
<1> QED BY <1>4, <1>5, <1>8 DEF OnceInv

LEMMA OnceInit == Init => OnceInv
<1> SUFFICES ASSUME Init PROVE OnceInv
  OBVIOUS
<1>1. \A p \in Polls : polls[p] = Idle
  BY DEF Init
<1>2. BusyPolls = {} /\ \A e : Pending(e) = {}
  BY <1>1, IdleFacts DEF BusyPolls, Busy, Pending, MayTell, JobSet
<1>3. IsFiniteSet(BusyPolls) /\ \A e : Cardinality(Pending(e)) = 0
  BY <1>2, FS_EmptySet
<1>4. \A p \in Polls : JobsApart(p)
  BY <1>1, IdleFacts, EmptyRange DEF JobsApart, JobSet, Distinct
<1>5. \A tx \in Txs : \A k \in Kinds : alerts[tx][k] = 0 /\ upsets = 0
  BY DEF Init
<1> QED BY <1>3, <1>4, <1>5 DEF OnceInv, OnceAt

LEMMA OnceNext == Typed /\ OnceInv /\ [Next]_vars => OnceInv'
<1> SUFFICES ASSUME Typed, OnceInv, [Next]_vars PROVE OnceInv'
  OBVIOUS
<1>1. ASSUME NEW p \in Polls, Poll(p) \/ NotifyFails(p) PROVE OnceInv'
  BY <1>1, OnceStart, OnceVisit, OnceJob, OnceRecord DEF Poll
<1>2. ASSUME polls' = polls, flags' = flags, alerts' = alerts,
             upsets' = upsets \/ upsets' = upsets + 1
      PROVE  OnceInv'
  <2>1. \A q \in Polls : JobsApart(q)'
    BY <1>2 DEF OnceInv, JobsApart, JobSet
  <2>2. BusyPolls' = BusyPolls
    BY <1>2 DEF BusyPolls, Busy
  <2>3. ASSUME NEW tx \in Txs, NEW k \in Kinds PROVE OnceAt(tx, k)'
    <3>1. Pending(<<tx, k>>)' \subseteq Pending(<<tx, k>>)
      BY <1>2 DEF Pending, MayTell, Telling, JobSet, Job
    <3>2. \A p \in Polls : Telling(p, <<tx, k>>) => Telling(p, <<tx, k>>)'
      BY <1>2 DEF Telling, Job
    <3> QED BY <1>2, <3>1, <3>2, OnceKept
  <2> QED BY <2>1, <2>2, <2>3 DEF OnceInv
<1>3. CASE Restart
  <2>1. /\ \A q \in Polls : polls'[q] = Idle
        /\ UNCHANGED <<flags, alerts>> /\ upsets' = upsets + 1
    BY <1>3 DEF Restart, Upset, bookkeeping
  <2>2. BusyPolls' = {} /\ \A e : Pending(e)' = {}
    BY <2>1, IdleFacts DEF BusyPolls, Busy, Pending, MayTell, JobSet
  <2>3. \A q \in Polls : JobsApart(q)'
    BY <2>1, IdleFacts, EmptyRange DEF JobsApart, JobSet, Distinct
  <2>4. IsFiniteSet(BusyPolls')
    BY <2>2, FS_EmptySet
  <2>5. \A tx \in Txs : \A k \in Kinds : OnceAt(tx, k)'
    BY <2>1, <2>2, OnceKept
  <2> QED BY <2>3, <2>4, <2>5 DEF OnceInv
<1> QED
  BY <1>1, <1>2, <1>3 DEF Next, Move, Switch, Upset, vars, bookkeeping

\* "each event fires exactly once": with any number of deposits and polls, however they
\* overlap, crash or fail to write, an event is announced once, and once more for each upset
\* at most.
THEOREM OnceTheorem == Spec => []AlertedOnce
<1>1. Typed /\ OnceInv => AlertedOnce
  <2> SUFFICES ASSUME Typed, OnceInv, NEW tx \in Txs, NEW k \in Kinds
               PROVE  TypeOK /\ alerts[tx][k] <= 1 + upsets
    BY DEF AlertedOnce, Typed
  <2>1. OnceAt(tx, k) /\ alerts[tx][k] \in Nat /\ upsets \in Nat
    BY DEF OnceInv, Typed
  <2> DEFINE c == Cardinality(Pending(<<tx, k>>))
  <2>2. c \in Nat /\ alerts[tx][k] + c <= 1 + upsets
    BY <2>1, FinitePending DEF OnceAt
  <2> HIDE DEF c
  <2> QED BY <2>1, <2>2 DEF Typed
<1> QED BY <1>1, TypedInit, TypedNext, OnceInit, OnceNext, PTL DEF Spec
=============================================================================
