-------------------------------- MODULE Rdbx --------------------------------
(***************************************************************************)
(* libsrtp's packet index estimator and replay database                    *)
(* (src/third_party/srtp2-sys/libsrtp/crypto/replay/rdbx.c), and the order *)
(* in which srtp_unprotect and srtp_protect consult them (srtp/srtp.c).    *)
(*                                                                         *)
(* A database is [index, mask]: the highest index added, and the set of    *)
(* distances behind it whose bit is set in the bitmask.  ReplayWindow is   *)
(* the length of the bitmask.                                              *)
(***************************************************************************)
EXTENDS IndexRecovery

CONSTANT ReplayWindow

(* libsrtp accepts windows of at least one bit and less than half of the   *)
(* sequence space (64..=32767 for 16-bit sequence numbers).                *)
ASSUME ReplayWindowAssumption == ReplayWindow \in 1 .. Half - 1

RdbxTypes == [index : Nat, mask : SUBSET (0 .. ReplayWindow - 1)]

srtp_rdbx_init == [index |-> 0, mask |-> {}]

(* srtp_index_guess: the guessed rollover counter, and guess - local.      *)
GuessRoc(local, s) ==
  IF Low(local) < Half
    THEN IF s - Low(local) > Half THEN Roc(local) - 1 ELSE Roc(local)
    ELSE IF Low(local) - Half > s THEN Roc(local) + 1 ELSE Roc(local)

GuessDelta(local, s) ==
  IF Low(local) < Half
    THEN IF s - Low(local) > Half
           THEN s - Low(local) - SeqMod
           ELSE s - Low(local)
    ELSE IF Low(local) - Half > s
           THEN s - Low(local) + SeqMod
           ELSE s - Low(local)

(* srtp_rdbx_estimate_index: the guessed index, and its return value.      *)
srtp_rdbx_estimate_index(rdbx, s) ==
  IF rdbx.index > Half THEN GuessRoc(rdbx.index, s) * SeqMod + s ELSE s

srtp_rdbx_estimate_delta(rdbx, s) ==
  IF rdbx.index > Half THEN GuessDelta(rdbx.index, s)
                       ELSE s - Low(rdbx.index)

(***************************************************************************)
(* Plausible errors in the replay check and update.                        *)
(***************************************************************************)
srtp_rdbx_check_NoBitmask(rdbx, delta) ==
  IF delta > 0 \/ (ReplayWindow - 1) + delta >= 0 THEN "ok" ELSE "replay_old"

srtp_rdbx_check_ShortWindow(rdbx, delta) ==
  IF delta > 0 THEN "ok"
  ELSE IF (ReplayWindow - 2) + delta < 0 THEN "replay_old"
  ELSE IF -delta \in rdbx.mask THEN "replay_fail"
  ELSE "ok"

srtp_rdbx_add_index_NoShift(rdbx, delta) ==
  IF delta > 0
    THEN [index |-> rdbx.index + delta, mask |-> rdbx.mask \cup {0}]
    ELSE [rdbx EXCEPT !.mask = @ \cup {-delta}]

(* srtp_rdbx_check                                                         *)
srtp_rdbx_check(rdbx, delta) ==
  IF delta > 0 THEN "ok"
  ELSE IF (ReplayWindow - 1) + delta < 0 THEN "replay_old"
  ELSE IF -delta \in rdbx.mask THEN "replay_fail"
  ELSE "ok"

(* srtp_rdbx_add_index: a positive delta shifts the bitmask.               *)
srtp_rdbx_add_index(rdbx, delta) ==
  IF delta > 0
    THEN [index |-> rdbx.index + delta,
          mask  |-> {0} \cup
                    {d \in 0 .. ReplayWindow - 1 : d - delta \in rdbx.mask}]
    ELSE [rdbx EXCEPT !.mask = @ \cup {-delta}]

(***************************************************************************)
(* srtp_unprotect_mki and srtp_unprotect_aead on a packet [seq, key,       *)
(* index, intact, ...] under the cipher's key: the replay check comes      *)
(* before the tag is verified, and only an authentic packet is added.  The *)
(* AES-GCM tag verifies exactly when the bytes are those the sender        *)
(* sealed, the cipher holds the key they were sealed under, and the index  *)
(* estimated here, which enters the IV, is the sender's.                   *)
(***************************************************************************)
Authentic(rdbx, key, p) ==
  /\ p.intact
  /\ p.key = key
  /\ p.index = srtp_rdbx_estimate_index(rdbx, p.seq)

srtp_unprotect_status(rdbx, key, p) ==
  LET check == srtp_rdbx_check(rdbx, srtp_rdbx_estimate_delta(rdbx, p.seq))
  IN  IF check # "ok" THEN check
      ELSE IF Authentic(rdbx, key, p) THEN "ok" ELSE "auth_fail"

srtp_unprotect_rdbx(rdbx, p) ==
  srtp_rdbx_add_index(rdbx, srtp_rdbx_estimate_delta(rdbx, p.seq))
=============================================================================
