--------------------------- MODULE IndexRecovery ---------------------------
(***************************************************************************)
(* Recovery of a packet's extended index from the wrapping RTP sequence    *)
(* number in its header (src/src/receiver/index_recovery.rs).  The code's  *)
(* counter has 16 bits; here it wraps at SeqMod, and Half stands for the   *)
(* code's 32_768.  The Option<u64> `highest` is None (-1) until the first  *)
(* packet authenticates.                                                   *)
(***************************************************************************)
EXTENDS Integers

CONSTANT SeqMod

(* The sequence counter has a half range, as 2^16 has.                     *)
ASSUME SeqModAssumption ==
  /\ SeqMod \in Nat
  /\ \E h \in 1..SeqMod : SeqMod = 2 * h

None == -1

Seqs == 0 .. SeqMod - 1

Half == SeqMod \div 2

(* The rollover counter of an extended index (highest >> 16), and the      *)
(* sequence number in its low bits (highest & 0xFFFF).                     *)
Roc(index) == index \div SeqMod

Low(index) == index % SeqMod

saturating_sub(a, b) == IF a >= b THEN a - b ELSE 0

(* The rollover an arriving sequence number is assigned to.                *)
Rollover(highest, seq) ==
  IF Low(highest) < Half
    THEN IF seq - Low(highest) > Half
           THEN saturating_sub(Roc(highest), 1)
           ELSE Roc(highest)
    ELSE IF Low(highest) - Half > seq
           THEN Roc(highest) + 1
           ELSE Roc(highest)

(* IndexRecovery::recover                                                  *)
recover(highest, seq) ==
  IF highest = None THEN seq ELSE Rollover(highest, seq) * SeqMod + seq

(* IndexRecovery::update moves `highest` forward only.                     *)
update_Last(highest, index) == index

update(highest, index) ==
  IF highest = None \/ index > highest THEN index ELSE highest
=============================================================================
