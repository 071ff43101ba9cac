--------------------------- MODULE MCRealisticRun ---------------------------
(* Small instances of RealisticRun for TLC.                                *)
EXTENDS RealisticRun

(* Two paths: a fast one that loses single packets, and a slow one without *)
(* jitter that loses them in bursts.  A packet that only the slow path     *)
(* delivers is overtaken by those sent after it.                           *)
TwoPaths == {"a", "b"}
TwoDelays == [p \in TwoPaths |-> IF p = "a" THEN 0 ELSE 5]
TwoJitters == [p \in TwoPaths |-> IF p = "a" THEN 1 ELSE 0]
TwoLosses == [p \in TwoPaths |-> IF p = "a" THEN "Independent" ELSE "GilbertElliott"]
=============================================================================
