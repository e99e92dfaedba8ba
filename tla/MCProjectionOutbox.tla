------------------------- MODULE MCProjectionOutbox -------------------------
(* Values of the constants of ProjectionOutbox for TLC.                    *)
EXTENDS ProjectionOutbox, TLC

MCRetryDelay == [n \in 1 .. MaxAttempts - 1 |-> n]
=============================================================================
