--------------------------- MODULE SimulatedStream ---------------------------
(***************************************************************************)
(* A sender, a network and a receiver of one stream in one epoch.  The     *)
(* network may lose, reorder, duplicate, delay and damage packets without  *)
(* limit: any packet sent so far may arrive next, intact or with its       *)
(* header and payload changed, and so may a truncated datagram.            *)
(***************************************************************************)
EXTENDS RekeyingStream, ReceiverKeyManager

VARIABLE delivered   \* history: packet numbers unprotect returned Ok for

vars == <<txVars, rxVars, delivered>>

Init == TxInit /\ RxInit /\ delivered = {}

Send == next_protected /\ UNCHANGED <<rxVars, delivered>>

(* Packet number i, which is sent[i + 1], reaches the receiver unchanged.  *)
Arrive(i) ==
  /\ unprotect(sent[i + 1])
  /\ delivered' = IF result'.status = "Ok" THEN delivered \cup {i} ELSE delivered
  /\ UNCHANGED txVars

(* A packet damaged on the way: any header fields, a tag that cannot       *)
(* verify.                                                                 *)
Damaged(seq, ts) == [seq |-> seq, ts |-> ts, key |-> 0, index |-> 0, intact |-> FALSE]

ArriveDamaged ==
  /\ sent # <<>>
  /\ \/ DropTruncated
     \/ \E seq \in Seqs, ts \in Timestamps : unprotect(Damaged(seq, ts))
  /\ UNCHANGED <<txVars, delivered>>

Next ==
  \/ Send
  \/ \E i \in PacketNumbers : Arrive(i)
  \/ ArriveDamaged

Spec == Init /\ [][Next]_vars

-----------------------------------------------------------------------------
MaxOf(S) == CHOOSE m \in S : \A x \in S : x <= m

PacketsPerGeneration ==
  CASE Scheme = "EpochOnly" -> MaxPackets
    [] Scheme = "Frame"     -> PacketsPerFrame
    [] Scheme = "Packet"    -> 1
    [] Scheme = "EveryN"    -> N

(* The receiver's durable state is determined by the packets it delivered: *)
(* the frontier, the recovered index and libsrtp's replay database are     *)
(* those of the newest delivered packet, whatever else arrived and in      *)
(* whatever order.                                                         *)
StateFromDelivered ==
  IF delivered = {}
    THEN frontier = None /\ highest = None /\ rdbx = srtp_rdbx_init
    ELSE LET top == MaxOf(delivered)
         IN  /\ frontier = TrueGeneration(top)
             /\ highest = IF ByIndex THEN top ELSE None
             /\ rdbx.index = top
             /\ rdbx.mask = {d \in 0 .. ReplayWindow - 1 : top - d \in delivered}

(* A delivered packet is never delivered again, however long ago it was,   *)
(* whatever sequence number wraps and rejected packets came in between:    *)
(* libsrtp refuses it even when the receiver installs its key.             *)
DeliveredOnce ==
  \A i \in delivered : srtp_unprotect_status(rdbx, Sent(i).key, Sent(i)) # "ok"

(***************************************************************************)
(* No genuine packet is lost to keying.  A packet that was sent and not    *)
(* delivered yet is within reach if, against the newest delivered packet,  *)
(* it is not later than the K-window or earlier than seek_cap, it lies     *)
(* within half of the sequence space, and the replay window covers it      *)
(* (which a replay window of K generations' packets always does).          *)
(***************************************************************************)
WithinReach(i) ==
  IF delivered = {}
    THEN TrueGeneration(i) < SeekCap /\ i < SeqMod
    ELSE LET top == MaxOf(delivered)
         IN  /\ TrueGeneration(i) - TrueGeneration(top) <= SeekCap
             /\ TrueGeneration(top) - TrueGeneration(i) < K
             /\ top - i < Half /\ i - top < Half
             /\ \/ top - i < ReplayWindow
                \/ ReplayWindow >= K * PacketsPerGeneration

(* A packet within reach is delivered if it arrives intact, under its own  *)
(* generation: damaged, duplicated and reordered packets before it, and    *)
(* the keys they made the receiver install, never cost it.                 *)
NoFalseDrop ==
  \A i \in PacketNumbers \ delivered :
    WithinReach(i) => ENABLED (Arrive(i) /\ result' = Ok(TrueGeneration(i)))
=============================================================================
