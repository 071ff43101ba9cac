----------------------------- MODULE Percentile -----------------------------
(***************************************************************************)
(* The percentiles of measure_displacement                                 *)
(* (src/src/simulation/network.rs): values are sorted, and percentile q,   *)
(* here in thousandths, is read at position round((len - 1) * q).          *)
(***************************************************************************)
EXTENDS Integers, FiniteSets, Sequences

CountUpTo(values, v) == Cardinality({i \in 1 .. Len(values) : values[i] <= v})

(* The value at position k, counted from 1, once values are sorted.        *)
at_sorted(values, k) ==
  CHOOSE v \in {values[i] : i \in 1 .. Len(values)} :
    /\ CountUpTo(values, v) >= k
    /\ CountUpTo(values, v - 1) < k

(* round((len - 1) * q), halves away from zero.                            *)
rank_NoCeiling(len, q) == IF len * q < 1000 THEN 0 ELSE (len * q) \div 1000 - 1

rank(len, q) == (2 * (len - 1) * q + 1000) \div 2000

pct(values, q) == at_sorted(values, rank(Len(values), q) + 1)
=============================================================================
