----------------------------- MODULE MCReceiver -----------------------------
(* Small instances of Receiver for TLC.                                    *)
EXTENDS Receiver

CONSTANTS MaxIndex, MaxKey

(* Packets sealed under any key at any index up to the bounds, and for     *)
(* each header one whose bytes were damaged on the way.                    *)
MCWire ==
  {[seq |-> Low(i), ts |-> t, key |-> k, index |-> i, intact |-> TRUE] :
     i \in 0 .. MaxIndex, k \in 0 .. MaxKey, t \in Timestamps}
  \cup
  {[seq |-> s, ts |-> t, key |-> 0, index |-> 0, intact |-> FALSE] :
     s \in Seqs, t \in Timestamps}
=============================================================================
