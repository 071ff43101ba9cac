-------------------------- MODULE GenerationScheme --------------------------
(***************************************************************************)
(* How a receiver maps a packet's header to its generation                 *)
(* (src/src/receiver/generation.rs and phase 1 of                          *)
(* ReceiverKeyManager::unprotect).  Scheme names the variant of the enum;  *)
(* Base and N are the data of Packet and EveryN, EpochStartTs and          *)
(* FramePeriod those of Frame.  Timestamps wrap at TsMod (2^32).           *)
(***************************************************************************)
EXTENDS IndexRecovery

CONSTANTS Scheme, Base, N, EpochStartTs, FramePeriod, TsMod

ASSUME SchemeAssumption ==
  /\ Scheme \in {"EpochOnly", "Frame", "Packet", "EveryN"}
  /\ Base \in Nat
  /\ N \in Nat \ {0}
  /\ TsMod \in Nat \ {0}
  /\ EpochStartTs \in 0 .. TsMod - 1
  /\ FramePeriod \in Nat \ {0}
  /\ Scheme = "Frame" => FramePeriod < TsMod

Timestamps == 0 .. TsMod - 1

(* The schemes whose generation is counted in sequence numbers.            *)
ByIndex == Scheme \in {"Packet", "EveryN"}

(* frame_generation: the difference wraps, then whole periods are counted. *)
frame_generation_NoWrap(ts) ==
  IF ts >= EpochStartTs THEN (ts - EpochStartTs) \div FramePeriod
                        ELSE (EpochStartTs - ts) \div FramePeriod

frame_generation(ts) == ((ts - EpochStartTs) % TsMod) \div FramePeriod

(* index.checked_sub(base) yields nothing for a packet from before the     *)
(* epoch's first packet.                                                   *)
BeforeEpoch(highest, seq) == ByIndex /\ recover(highest, seq) < Base

(* The generation of a packet that is not before the epoch.                *)
generation_OffByOne(highest, p) ==
  CASE Scheme = "EpochOnly" -> 0
    [] Scheme = "Frame"     -> frame_generation(p.ts)
    [] Scheme = "Packet"    -> recover(highest, p.seq) - Base + 1
    [] Scheme = "EveryN"    -> (recover(highest, p.seq) - Base + 1) \div N

generation(highest, p) ==
  CASE Scheme = "EpochOnly" -> 0
    [] Scheme = "Frame"     -> frame_generation(p.ts)
    [] Scheme = "Packet"    -> recover(highest, p.seq) - Base
    [] Scheme = "EveryN"    -> (recover(highest, p.seq) - Base) \div N
=============================================================================
