---------------------------- MODULE OrderBookWalk ----------------------------
(***************************************************************************)
(* NiceHashService.getOrderBook(): the book is read page by page, each     *)
(* page as the exchange has it at that moment.  Orders come, leave and     *)
(* move between two pages.                                                 *)
(***************************************************************************)
EXTENDS Integers, SequencesExt

CONSTANTS
    Ids,        \* orders that may be in the book
    PageSize,   \* PAGE_SIZE
    MaxPages    \* MAX_PAGES

VARIABLES
    listing,    \* the book at NiceHash, dearest order first
    walkPc,         \* "idle", "reading", "done", "threw"
    page,       \* pages read
    merged,     \* orders read
    \* Bookkeeping of the model.
    start,      \* orders that were listed when the walk began
    came,       \* orders that came since the last page
    crowded,    \* a page of them and more came between two reads
    left        \* an order left or moved during the walk

bookkeeping == <<start, came, crowded, left>>
walkVars == <<listing, walkPc, page, merged, bookkeeping>>

Books == {s \in Seq(Ids) : \A i, j \in 1..Len(s) : s[i] = s[j] => i = j}

WalkInit ==
    /\ listing \in Books /\ walkPc = "idle" /\ page = 0 /\ merged = {}
    /\ start = {} /\ came = 0 /\ crowded = FALSE /\ left = FALSE

-----------------------------------------------------------------------------
(* The walk. *)

Begin ==
    /\ walkPc # "reading"
    /\ walkPc' = "reading" /\ page' = 0 /\ merged' = {}
    /\ start' = Range(listing) /\ came' = 0 /\ crowded' = FALSE /\ left' = FALSE
    /\ UNCHANGED listing

\* What NiceHash answers for a page.
Shown(p) == {listing[i] : i \in {j \in 1..Len(listing) :
                                     p * PageSize < j /\ j <= (p + 1) * PageSize}}

\* No progress, a short page, or the cap.
MustEnd(p) ==
    \/ Shown(p) \subseteq merged
    \/ Len(listing) < (p + 1) * PageSize
    \/ p + 1 >= MaxPages

\* NiceHash may count the pages in its answer.
CountedLast(p) == Len(listing) <= (p + 1) * PageSize

ReadPage ==
    /\ walkPc = "reading"
    /\ \/ walkPc' = "done" /\ (MustEnd(page) \/ CountedLast(page))
       \/ UNCHANGED walkPc /\ ~MustEnd(page)
    /\ merged' = merged \cup Shown(page)
    /\ page' = page + 1 /\ came' = 0
    /\ UNCHANGED <<listing, start, crowded, left>>

\* The client has no attempts left.
ReadFails ==
    /\ walkPc = "reading" /\ walkPc' = "threw"
    /\ UNCHANGED <<listing, page, merged, bookkeeping>>

-----------------------------------------------------------------------------
(* The market. *)

Come(i, order) ==
    /\ order \notin Range(listing)
    /\ listing' = InsertAt(listing, i, order)
    /\ IF walkPc = "reading"
       THEN came' = came + 1 /\ crowded' = (crowded \/ came + 1 >= PageSize)
       ELSE UNCHANGED <<came, crowded>>
    /\ UNCHANGED <<walkPc, page, merged, start, left>>

\* An order whose price is edited leaves and comes again.
Leave(i) ==
    /\ listing' = RemoveAt(listing, i)
    /\ left' = (left \/ walkPc = "reading")
    /\ UNCHANGED <<walkPc, page, merged, start, came, crowded>>

WalkNext ==
    \/ Begin \/ ReadPage \/ ReadFails
    \/ \E i \in 1..Len(listing) + 1, order \in Ids : Come(i, order)
    \/ \E i \in 1..Len(listing) : Leave(i)

WalkSpec == WalkInit /\ [][WalkNext]_walkVars

-----------------------------------------------------------------------------

\* "Fetch the whole order book so the marginal can be found reliably": a walk that ended
\* before its cap has every order that was listed when it began, as long as none left or moved
\* and fewer than a page came between two reads.
Whole ==
    walkPc = "done" /\ page < MaxPages /\ ~left /\ ~crowded => start \subseteq merged
=============================================================================
