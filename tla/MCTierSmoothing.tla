--------------------------- MODULE MCTierSmoothing ---------------------------
(***************************************************************************)
(* Small order books for TierSmoothing: one order on the dearest level,    *)
(* two on the middle one, and two cheaper ones.                            *)
(***************************************************************************)
EXTENDS NoisyMarket, TLC

CONSTANTS r1, r2, r3, r4, r5

MCPriceOf == (r1 :> 4) @@ (r2 :> 3) @@ (r3 :> 3) @@ (r4 :> 2) @@ (r5 :> 1)

\* What a read may report: two of the rows come and go, and delivered speed shows
\* where miners are not reported.
MCReadings ==
    (r1 :> {"speed", "rigs"}) @@ (r2 :> {"idle", "rigs"})
        @@ (r3 :> {"absent", "idle", "rigs"}) @@ (r4 :> {"idle", "rigs"})
        @@ (r5 :> {"absent", "rigs"})
=============================================================================
