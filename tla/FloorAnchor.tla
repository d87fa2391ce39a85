----------------------------- MODULE FloorAnchor -----------------------------
(***************************************************************************)
(* Where the NiceHash controller reads its price floor from: the competing *)
(* orders of one order-book read.  A book is a function from the rows it   *)
(* lists to what it reports of each: "rigs" (miners are working on it),    *)
(* "speed" (no miners, some delivered speed) or "idle".                    *)
(***************************************************************************)
EXTENDS Integers, FiniteSets

CONSTANTS
    Rows,       \* competing orders
    PriceOf,    \* the price of each
    Dust        \* rows whose limit is below dust_limit_units (and not 0)

ASSUME BookAssumption ==
    /\ IsFiniteSet(Rows)
    /\ PriceOf \in [Rows -> Nat \ {0}]
    /\ Dust \subseteq Rows

\* The null of a price.
None == -1

Least(S) == CHOOSE x \in S : \A y \in S : x <= y
Greatest(S) == CHOOSE x \in S : \A y \in S : x >= y
Prices(rows) == {PriceOf[r] : r \in rows}

ByRigs(book) == {r \in DOMAIN book : book[r] = "rigs"}

\* Miners are the reliable signal; delivered speed counts only in a book that
\* reports no miners at all.
Filled(book) ==
    IF ByRigs(book) # {} THEN ByRigs(book)
                         ELSE {r \in DOMAIN book : book[r] = "speed"}

\* anchor_price_btc: the cheapest filled row, or the cheapest row of a book in
\* which nothing is filled.
Marginal(book) ==
    IF DOMAIN book = {} THEN None
    ELSE Least(Prices(IF Filled(book) # {} THEN Filled(book) ELSE DOMAIN book))

\* Rows the scan takes for filled: a row still recovering from a confirmed zero
\* does not count.
ScanFilled(book, unconfirmedNonzero) ==
    (Filled(book) \ Dust) \ (IF ByRigs(book) # {} THEN unconfirmedNonzero ELSE {})

\* Rows the scan looks through: a zero that is not confirmed yet.
Transparent(book, unconfirmedZero) ==
    IF ByRigs(book) # {} THEN unconfirmedZero \ ByRigs(book) ELSE {}

\* Mutant: a shared level is clear as soon as one of its rows is.
Clear_AnyRow(rows, through) == rows \cap through # {}

\* A level the scan may go past: every row on it is filled or transparent.
Clear(rows, through) == rows \subseteq through

\* runBottom: from level start downwards, the last level before one that is not
\* clear.  The start level belongs to the run even when it is not clear itself.
RunBottom(start, rows, through) ==
    LET At(p) == {r \in rows : PriceOf[r] = p}
        reached == {p \in Prices(rows) :
                       \A q \in Prices(rows) : p <= q /\ q <= start => Clear(At(q), through)}
    IN  Least({start} \cup {p \in reached : p < start})

\* filled_prices[1]: the bottom of the contiguous filled run at the top of the
\* book, rounded up to a row that is filled.  Rows above the run are dead noise.
Floor(book, unconfirmedZero, unconfirmedNonzero) ==
    LET scanFilled == ScanFilled(book, unconfirmedNonzero)
        runBottom == RunBottom(Greatest(Prices(scanFilled)), DOMAIN book \ Dust,
                               scanFilled \cup Transparent(book, unconfirmedZero))
    IN  IF scanFilled = {} THEN None
        ELSE Least({p \in Prices(Filled(book) \ Dust) : p >= runBottom})

\* The floor of a book read without any memory of earlier reads.
StrictFloor(book) == Floor(book, {}, {})

=============================================================================
