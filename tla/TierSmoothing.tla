---------------------------- MODULE TierSmoothing ----------------------------
(***************************************************************************)
(* The memory observe() keeps between order-book reads so that one noisy   *)
(* read does not move the price floor: a debounce of every row's miner     *)
(* count, and an upward hysteresis of the floor.                           *)
(***************************************************************************)
EXTENDS FloorAnchor

CONSTANTS
    Readings,       \* row -> what a read may report of it, "absent" included
    ConfirmReads,   \* ZERO_RIG_CONFIRM_READS = NONZERO_RIG_CONFIRM_READS
    ConfirmTicks,   \* TIER_UP_CONFIRM_TICKS
    MaxSame         \* bound: the consecutive equal reads that are counted, no fewer
                    \* than the debounce and two rises of the floor take

ASSUME SmoothingAssumption ==
    /\ Readings \in [Rows -> SUBSET {"absent", "idle", "speed", "rigs"}]
    /\ ConfirmReads \in Nat \ {0} /\ ConfirmTicks \in Nat \ {0, 1}
    /\ MaxSame \in Nat /\ MaxSame >= ConfirmReads + 2 * ConfirmTicks - 2

VARIABLES
    primed,     \* a book was read since the start of the process
    streaks,    \* rowsByOrderId: the rows whose zero side is engaged
    hyst,       \* tierHysteresisState
    market,     \* what decide() was given last: [marginal, floor], or NoMarket
    \* Bookkeeping of the model.
    book,       \* the last book read successfully
    same,       \* how many reads in a row gave that book
    frozen,     \* the last read was ambiguous
    lastRaw     \* the debounced floor of the last read that was not

smoothVars == <<primed, streaks, hyst, market, book, same, frozen, lastRaw>>

NoMarket == [marginal |-> None, floor |-> None]
EmptyBook == [r \in {} |-> "idle"]

\* Every book a read may return.
Books ==
    {[r \in {x \in Rows : b[x] # "absent"} |-> b[r]] :
        b \in {c \in [Rows -> {"absent", "idle", "speed", "rigs"}] :
                   \A r \in Rows : c[r] \in Readings[r]}}

Levels == {None} \cup Prices(Rows)
RowDebounce == [zero : 1..ConfirmReads, nonzero : 0..(ConfirmReads - 1)]

SmoothTypeOK ==
    /\ primed \in BOOLEAN /\ frozen \in BOOLEAN
    /\ DOMAIN streaks \subseteq Rows
    /\ \A r \in DOMAIN streaks : streaks[r] \in RowDebounce
    /\ hyst \in [accepted : Levels, pending : Levels, count : 0..(ConfirmTicks - 1)]
    /\ market \in [marginal : Levels, floor : Levels]
    /\ book \in Books \cup {EmptyBook}
    /\ same \in 0..MaxSame /\ lastRaw \in Levels

NoCandidate(accepted) == [accepted |-> accepted, pending |-> None, count |-> 0]

Cold == primed = FALSE /\ streaks = EmptyBook /\ hyst = NoCandidate(None)

SmoothInit ==
    /\ Cold /\ market = NoMarket
    /\ book = EmptyBook /\ same = 0 /\ frozen = FALSE /\ lastRaw = None

-----------------------------------------------------------------------------
(* The debounce of one row. *)

Untracked == [zero |-> 0, nonzero |-> 0]
Streak(r) == IF r \in DOMAIN streaks THEN streaks[r] ELSE Untracked

\* Mutant: a row that recovers is trusted at once.
AfterRead_TrustsNonzero(s, reading) ==
    IF reading = "rigs" THEN Untracked
    ELSE [zero |-> IF (s = Untracked /\ ~primed) \/ s.zero + 1 > ConfirmReads
                     THEN ConfirmReads ELSE s.zero + 1, nonzero |-> 0]

\* A row's counters after a read; Untracked drops the entry.  The first read
\* after a start takes every zero for confirmed.
AfterRead(s, reading) ==
    IF reading = "rigs"
      THEN IF s.zero < ConfirmReads \/ s.nonzero + 1 >= ConfirmReads THEN Untracked
           ELSE [s EXCEPT !.nonzero = @ + 1]
      ELSE [zero |-> IF (s = Untracked /\ ~primed) \/ s.zero + 1 > ConfirmReads
                       THEN ConfirmReads ELSE s.zero + 1,
            nonzero |-> 0]

\* Rows that are absent or dust keep no entry.
StreaksAfter(b) ==
    [r \in {x \in DOMAIN b \ Dust : AfterRead(Streak(x), b[x]) # Untracked}
       |-> AfterRead(Streak(r), b[r])]

UnconfirmedZeros(b, s) ==
    {r \in DOMAIN s : b[r] # "rigs" /\ s[r].zero < ConfirmReads}
UnconfirmedNonzeros(b, s) == {r \in DOMAIN s : b[r] = "rigs"}

-----------------------------------------------------------------------------
(* The hysteresis of the floor. *)

IsUp(raw) == raw # None /\ (hyst.accepted = None \/ raw > hyst.accepted)

\* Mutant: a confirmed rise takes over the floor of the confirming read.
applyTierHysteresis_TakesLatest(raw) ==
    IF ~primed \/ ~IsUp(raw) THEN NoCandidate(raw)
    ELSE IF hyst.pending # None /\ raw >= hyst.pending THEN
        IF hyst.count + 1 >= ConfirmTicks THEN NoCandidate(raw)
        ELSE [hyst EXCEPT !.count = @ + 1]
    ELSE [hyst EXCEPT !.pending = raw, !.count = 1]

\* Down at once, up after ConfirmTicks reads at or above the candidate.
applyTierHysteresis(raw) ==
    IF ~primed \/ ~IsUp(raw) THEN NoCandidate(raw)
    ELSE IF hyst.pending # None /\ raw >= hyst.pending THEN
        IF hyst.count + 1 >= ConfirmTicks THEN NoCandidate(hyst.pending)
        ELSE [hyst EXCEPT !.count = @ + 1]
    ELSE [hyst EXCEPT !.pending = raw, !.count = 1]

\* The floor given to decide(): never below the marginal.
Exposed(tier, raw, marginal) ==
    Greatest({IF tier # None THEN tier ELSE raw, marginal})

-----------------------------------------------------------------------------
(* Ticks. *)

\* The floor hangs on rows that are still recovering.
Ambiguous(b, uZero, uNonzero) ==
    uNonzero # {} /\ Floor(b, uZero, {}) # Floor(b, uZero, uNonzero)

\* A tick that read our orders and the book.
Read(b) ==
    LET s == StreaksAfter(b)
        uZero == UnconfirmedZeros(b, s)
        uNonzero == UnconfirmedNonzeros(b, s)
        raw == Floor(b, uZero, uNonzero)
        hold == primed /\ Ambiguous(b, uZero, uNonzero)
        next == IF hold THEN hyst ELSE applyTierHysteresis(raw)
    IN  /\ primed' = TRUE
        /\ streaks' = s
        /\ hyst' = next
        /\ market' = IF Marginal(b) = None THEN [marginal |-> None, floor |-> raw]
                     ELSE [marginal |-> Marginal(b),
                           floor |-> Exposed(next.accepted, raw, Marginal(b))]
        /\ book' = b
        /\ same' = IF b # book \/ ~primed THEN 1
                   ELSE IF same < MaxSame THEN same + 1 ELSE same
        /\ frozen' = hold
        /\ lastRaw' = IF hold THEN lastRaw ELSE raw

\* The orders read or the book read failed: no market, and everything keeps.
Fail ==
    /\ market' = NoMarket
    /\ UNCHANGED <<primed, streaks, hyst, book, same, frozen, lastRaw>>

Reboot ==
    /\ primed' = FALSE /\ streaks' = EmptyBook /\ hyst' = NoCandidate(None)
    /\ market' = NoMarket
    /\ book' = EmptyBook /\ same' = 0 /\ frozen' = FALSE /\ lastRaw' = None

SmoothNext == (\E b \in Books : Read(b)) \/ Fail \/ Reboot

SmoothSpec == SmoothInit /\ [][SmoothNext]_smoothVars

-----------------------------------------------------------------------------
(* Properties. *)

\* The raw floor of the last read, as it was debounced.
RawFloor == Floor(book, UnconfirmedZeros(book, streaks),
                        UnconfirmedNonzeros(book, streaks))

HasMarket == market.marginal # None

\* The floor is never below the marginal (a bid under it wins nothing), and never
\* dearer than both the block and the marginal of the very book it was read from,
\* except while a recovering row freezes it.
FloorWithinMarket ==
    HasMarket =>
        /\ market.floor >= market.marginal
        /\ ~frozen => market.floor <= Greatest({RawFloor, market.marginal})

\* The floor that is read is the bottom of the block the market clears into: a
\* full-size order is filled there, nothing between it and the top of the block is
\* a confirmed zero, and every cheaper filled row is an island behind one
\* (orderbook.ts: islands "can never be the run bottom").
FloorIsBlockBottom ==
    LET rows == DOMAIN book \ Dust
        filled == ScanFilled(book, UnconfirmedNonzeros(book, streaks))
        breakers == rows \ (filled \cup
                            Transparent(book, UnconfirmedZeros(book, streaks)))
        top == Greatest(Prices(filled))
    IN  IF filled = {} THEN RawFloor = None
        ELSE /\ RawFloor \in Prices(filled)
             /\ RawFloor < top => Prices(breakers) \cap (RawFloor..top) = {}
             /\ \A r \in filled : PriceOf[r] < RawFloor =>
                    Prices(breakers) \cap (PriceOf[r]..top) # {}

\* The accepted floor rises only to a level that the debounced floor of this read
\* and that of the previous read that counted both reach (observe.ts: "only rises
\* after the (debounced) raw floor has held at-or-above the new value"), and a read
\* that hangs on recovering rows is neither; the first read of a process aside.
RisesAreConfirmed ==
    [][primed /\ hyst'.accepted > hyst.accepted
        => /\ ~frozen'
           /\ hyst'.accepted <= RawFloor'
           /\ hyst'.accepted <= lastRaw]_smoothVars

\* Reads that keep agreeing are believed: after four of them the floor is that of
\* the book itself, whatever was remembered before.
ConvergesWhenStable ==
    same >= MaxSame /\ HasMarket =>
        market.floor = Greatest({StrictFloor(book), market.marginal})

\* orderbook.ts and observe.ts: what decide() is given is a floor of this market, whatever
\* was misread, frozen or forgotten on the way.
TiersInv == SmoothTypeOK /\ FloorWithinMarket /\ FloorIsBlockBottom /\ ConvergesWhenStable

=============================================================================
