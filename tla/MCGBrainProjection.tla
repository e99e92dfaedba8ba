------------------------- MODULE MCGBrainProjection -------------------------
(* Values of the constants of GBrainProjection for TLC.                    *)
EXTENDS GBrainProjection, TLC
CONSTANTS x, y, z, r1, r2

MCRetryDelay == [n \in 1 .. MaxAttempts - 1 |-> 1]
MCHomeOf == (1 :> x) @@ (2 :> y)
=============================================================================
