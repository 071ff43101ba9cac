---------------------------- MODULE MCMlsRekey -----------------------------
(***************************************************************************)
(* MlsRekey for TLC: three members with SSRCs of their own.                *)
(***************************************************************************)
EXTENDS MlsRekey

CONSTANTS m1, m2, m3

MCSsrc == [m \in {m1, m2, m3} |-> IF m = m1 THEN 1 ELSE IF m = m2 THEN 2 ELSE 3]
=============================================================================
