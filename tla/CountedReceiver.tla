--------------------------- MODULE CountedReceiver ---------------------------
(***************************************************************************)
(* The receiver with its counters, fed any packets of Wire and truncated   *)
(* datagrams.                                                              *)
(***************************************************************************)
EXTENDS Receiver, RecvStats

VARIABLE calls   \* history: calls of unprotect

statsVars == <<rxVars, stats, calls>>

CountedInit == RxInit /\ StatsInit /\ calls = 0

CountedNext ==
  /\ calls' = calls + 1
  /\ counted_truncated \/ \E p \in Wire : counted_unprotect(p)

CountedSpec == CountedInit /\ [][CountedNext]_statsVars

(* Every call of unprotect is counted as exactly one outcome, decrypted or *)
(* one of the four drop reasons, on whatever path it returned.             *)
EveryCallCounted == calls = Outcomes
=============================================================================
