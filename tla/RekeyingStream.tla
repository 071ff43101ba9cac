--------------------------- MODULE RekeyingStream ---------------------------
(***************************************************************************)
(* The sending side of one stream: RekeyingStream                          *)
(* (src/src/keying/granularity.rs) driven by the simulated sender          *)
(* (src/src/simulation/sender.rs), which numbers its packets 0, 1, 2, ...  *)
(* and groups PacketsPerFrame of them under one timestamp.  The sender's   *)
(* granularity is the one the receiver's Scheme is built for               *)
(* (GenerationScheme::for_granularity); START_TS is EpochStartTs, and the  *)
(* stream's first packet is the epoch's first.                             *)
(***************************************************************************)
EXTENDS GenerationScheme, Rdbx, StreamRatchet, Sequences

CONSTANTS PacketsPerFrame, MaxPackets

ASSUME SenderAssumption ==
  /\ PacketsPerFrame \in Nat \ {0}
  /\ MaxPackets \in Nat
  /\ Base = 0

VARIABLES tx_ratchet,      \* positioned after the installed generation
          installed_gen,   \* generation the sender believes is installed
          tx_cipher,       \* key loaded in the sender's cipher
          last_ts,         \* timestamp of the previous packet, None at first
          packet_count,    \* packets processed; `started` is packet_count > 0
          tx_rdbx,         \* the sender session's packet index
          sent             \* packets in the order they were produced

txVars == <<tx_ratchet, installed_gen, tx_cipher, last_ts, packet_count, tx_rdbx, sent>>

(* RekeyingStream::new installs generation 0 over the throwaway key.       *)
TxInit ==
  /\ tx_cipher = derive_key_salt(from_seed)
  /\ installed_gen = from_seed.generation
  /\ tx_ratchet = advance(from_seed)
  /\ last_ts = None
  /\ packet_count = 0
  /\ tx_rdbx = srtp_rdbx_init
  /\ sent = <<>>

(* StreamModel::timestamp and the sequence number of plain_packet.         *)
timestamp(i) == (EpochStartTs + (i \div PacketsPerFrame) * FramePeriod) % TsMod

sequence(i) == i % SeqMod

(* advance_for: whether this packet starts a new generation.               *)
crossed_boundary_FromFirst(ts) ==
  CASE Scheme = "EpochOnly" -> FALSE
    [] Scheme = "Packet"    -> TRUE
    [] Scheme = "Frame"     -> last_ts # ts
    [] Scheme = "EveryN"    -> packet_count % N = 0

crossed_boundary(ts) ==
  CASE Scheme = "EpochOnly" -> FALSE
    [] Scheme = "Packet"    -> packet_count > 0
    [] Scheme = "Frame"     -> packet_count > 0 /\ last_ts # ts
    [] Scheme = "EveryN"    -> packet_count > 0 /\ packet_count % N = 0

install_next_generation ==
  /\ tx_cipher' = derive_key_salt(tx_ratchet)
  /\ installed_gen' = tx_ratchet.generation
  /\ tx_ratchet' = advance(tx_ratchet)

advance_for(ts) ==
  /\ IF crossed_boundary(ts)
       THEN install_next_generation
       ELSE UNCHANGED <<tx_cipher, installed_gen, tx_ratchet>>
  /\ last_ts' = ts
  /\ packet_count' = packet_count + 1

(* session.protect: libsrtp refuses an index it has used, then seals the   *)
(* packet under the cipher's key with the estimated index in the IV.       *)
Sealed(seq, ts) ==
  [seq |-> seq, ts |-> ts, key |-> tx_cipher',
   index |-> srtp_rdbx_estimate_index(tx_rdbx, seq), intact |-> TRUE]

protect(seq, ts) ==
  LET delta == srtp_rdbx_estimate_delta(tx_rdbx, seq)
  IN  /\ advance_for(ts)
      /\ srtp_rdbx_check(tx_rdbx, delta) = "ok"
      /\ tx_rdbx' = srtp_rdbx_add_index(tx_rdbx, delta)
      /\ sent' = Append(sent, Sealed(seq, ts))

(* SimulatedSender::next_protected, for a stream of MaxPackets packets.    *)
next_protected ==
  LET i == Len(sent)
  IN  i < MaxPackets /\ protect(sequence(i), timestamp(i))

-----------------------------------------------------------------------------
PacketNumbers == 0 .. Len(sent) - 1

Sent(i) == sent[i + 1]

(* The generation a packet number belongs to, as the scheme defines it.    *)
TrueGeneration(i) ==
  CASE Scheme = "EpochOnly" -> 0
    [] Scheme = "Frame"     -> i \div PacketsPerFrame
    [] Scheme = "Packet"    -> i
    [] Scheme = "EveryN"    -> i \div N

(* The sender counts boundaries while it emits; the receiver computes a    *)
(* generation from each header alone.  The sender's stateful rule seals    *)
(* every packet under the key of its scheme's generation and at its        *)
(* position in the stream, through sequence number and timestamp wraps.    *)
SealedUnderTrueGeneration ==
  \A i \in PacketNumbers :
    Sent(i).key = TrueGeneration(i) /\ Sent(i).index = i
=============================================================================
