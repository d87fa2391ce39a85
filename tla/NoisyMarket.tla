----------------------------- MODULE NoisyMarket -----------------------------
(***************************************************************************)
(* TierSmoothing while the market itself stands still for a time and only  *)
(* its reporting is noisy: single rows of the order book are misread for   *)
(* one read.  Any other book ends the quiet time, and only a restart's     *)
(* first read begins another.                                              *)
(***************************************************************************)
EXTENDS TierSmoothing

\* What the market really is; EmptyBook when it is not quiet.
VARIABLE truth

noisyVars == <<smoothVars, truth>>

\* The rows a read of book b gets wrong.
Wrong(b) == {r \in DOMAIN b : b[r] # truth[r]}

\* At most one row is read wrong, and no row twice running.
Flicker(b) ==
    /\ DOMAIN b = DOMAIN truth
    /\ Cardinality(Wrong(b)) <= 1
    /\ Wrong(b) \cap Wrong(book) = {}

NoisyRead(b) ==
    /\ Read(b)
    /\ truth' = IF ~primed THEN b ELSE IF Flicker(b) THEN truth ELSE EmptyBook

NoisyInit == SmoothInit /\ truth = EmptyBook

NoisyNext ==
    \/ \E b \in Books : NoisyRead(b)
    \/ Fail /\ UNCHANGED truth
    \/ Reboot /\ truth' = EmptyBook

NoisySpec == NoisyInit /\ [][NoisyNext]_noisyVars

-----------------------------------------------------------------------------
(* Properties. *)

\* The rows with miners a true book's block has, and those its bottom hangs on.
Block(t) == {r \in ByRigs(t) \ Dust : PriceOf[r] >= StrictFloor(t)}
Bottom(t) == {r \in Block(t) : PriceOf[r] = StrictFloor(t)}

\* Where two rows with miners hold the bottom, a row misread for one read, again and
\* again and now this row and now that, never moves the floor (a book that reports no
\* miners at all has no such memory: its rows are taken as they are read).
FlickerIgnored ==
    HasMarket /\ StrictFloor(truth) # None /\ Cardinality(Bottom(truth)) >= 2
        => market.floor = StrictFloor(truth)
=============================================================================
