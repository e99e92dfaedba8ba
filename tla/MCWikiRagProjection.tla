------------------------ MODULE MCWikiRagProjection ------------------------
(* Values of the constants of WikiRagProjection for TLC.                   *)
EXTENDS WikiRagProjection, TLC

MCRetryDelay == [n \in 1 .. MaxAttempts - 1 |-> 1]
=============================================================================
