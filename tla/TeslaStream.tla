----------------------------- MODULE TeslaStream -----------------------------
(***************************************************************************)
(* A TESLA sender (src/src/tesla/sender.rs) and a TESLA receiver of one    *)
(* stream, each with its own clock, and another member of the group, who   *)
(* holds the SRTP keys but not the chain.  The network loses, delays,      *)
(* reorders and duplicates packets without limit.                          *)
(***************************************************************************)
EXTENDS RekeyingStream, TeslaReceiver

CONSTANTS Skew,        \* sender clock minus receiver clock
          MaxTime,     \* bound on the sender clock
          MaxForeign   \* bound on packets of the other member that are delivered

(* The clock bound the receiver was configured with holds.                 *)
ASSUME ClockAssumption ==
  /\ Skew \in Int /\ Skew <= DT /\ Skew <= T0
  /\ MaxTime \in Nat
  /\ MaxForeign \in Nat

VARIABLES now,                \* the sender's clock
          current_interval,   \* TeslaSender: interval whose MAC is prepared
          prepared,           \* TeslaSender: chain key of the prepared MAC
          wire,               \* datagrams of the sender, in send order
          foreign             \* delivered packets of the other member

tsVars == <<now, current_interval, prepared, wire, foreign>>

vars == <<txVars, rxVars, teslaVars, tsVars>>

Init ==
  /\ TxInit
  /\ TeslaInit
  /\ now = T0
  /\ current_interval = 1
  /\ prepared = 1
  /\ wire = <<>>
  /\ foreign = 0

Tick == now < MaxTime /\ now' = now + 1
        /\ UNCHANGED <<txVars, rxVars, teslaVars, current_interval, prepared, wire, foreign>>

(* The MAC state is set up again on entering a new interval.               *)
prepare_Once(interval) == prepared

prepare(interval) == IF interval # current_interval THEN interval ELSE prepared

(* TeslaSender::authenticate appends the extension to the packet just      *)
(* protected.                                                              *)
authenticate(srtp, ext_index, send_ns) ==
  LET interval == interval_of(send_ns)
      bytes    == [srtp |-> srtp, from |-> "sender"]
  IN  /\ interval <= NChain
      /\ current_interval' = interval
      /\ prepared' = prepare(interval)
      /\ wire' = Append(wire,
                   [srtp |-> srtp, from |-> "sender", interval |-> interval,
                    disclosed |-> disclosed_index(interval),
                    mac |-> tag(prepare(interval), ext_index, bytes)])

Send ==
  /\ next_protected
  /\ authenticate(sent'[Len(sent')], Len(sent), now)
  /\ UNCHANGED <<rxVars, teslaVars, now, foreign>>

arrival_ns == now - Skew

Arrive ==
  /\ \E i \in 1 .. Len(wire) : process_arrival(wire[i], arrival_ns)
  /\ UNCHANGED <<txVars, tsVars>>

ArriveMalformed ==
  /\ wire # <<>>
  /\ DropMalformed
  /\ UNCHANGED <<txVars, tsVars>>

(* The chain keys on the wire so far: the newest disclosed one and, by     *)
(* hashing, all below it.                                                  *)
PublicKeys ==
  IF wire = <<>> THEN {0} ELSE 0 .. wire[Len(wire)].disclosed

(* What another group member can put under a TESLA extension: a packet of  *)
(* their own, sealed under any generation's key with any timestamp, or the *)
(* bytes of a packet the sender has sent.                                  *)
Generations == {TrueGeneration(i) : i \in 0 .. MaxPackets - 1}

OwnBytes(index, ts, key) ==
  [srtp |-> [seq |-> Low(index), ts |-> ts, key |-> key, index |-> index, intact |-> TRUE],
   from |-> "other"]

ForeignBytes ==
  {OwnBytes(index, ts, key) :
     index \in 0 .. MaxPackets - 1, ts \in Timestamps, key \in Generations}
  \cup {Covered(wire[i]) : i \in 1 .. Len(wire)}

(* The MAC they put there: made with a public key, or no chain key at all, *)
(* or the one the sender sent the bytes with.                              *)
ForeignMacs(bytes) ==
  {tag(key, bytes.srtp.index, bytes) : key \in PublicKeys \cup {Junk}}
  \cup {wire[i].mac : i \in {j \in 1 .. Len(wire) : Covered(wire[j]) = bytes}}

ForeignDatagram(bytes, interval, disclosed, mac) ==
  [srtp |-> bytes.srtp, from |-> bytes.from, interval |-> interval,
   disclosed |-> disclosed, mac |-> mac]

ArriveForeign ==
  /\ foreign < MaxForeign
  /\ \E bytes \in ForeignBytes, interval \in 0 .. NChain + D + 1,
        disclosed \in PublicKeys \cup {Junk} :
       \E mac \in ForeignMacs(bytes) :
         process_arrival(ForeignDatagram(bytes, interval, disclosed, mac), arrival_ns)
  /\ foreign' = IF result'.status = "Ok" /\ verdict' # "UnsafeLate" THEN foreign + 1 ELSE foreign
  /\ UNCHANGED <<txVars, now, current_interval, prepared, wire>>

Next == Tick \/ Send \/ Arrive \/ ArriveMalformed \/ ArriveForeign

Spec == Init /\ [][Next]_vars

-----------------------------------------------------------------------------
Entries == drawers \cup verified \cup forged

(* The entry is a packet of the sender with the interval and the MAC the   *)
(* sender gave it.                                                         *)
AsSent(e) ==
  \E i \in 1 .. Len(wire) :
    /\ e.covered = Covered(wire[i])
    /\ e.interval = wire[i].interval
    /\ e.mac = wire[i].mac

(* Source authentication: what is counted as verified is a packet as the   *)
(* sender sent it, although every member can produce packets the SRTP      *)
(* layer accepts and write another extension behind the sender's, and keys *)
(* become public while packets are under way.                              *)
SourceAuthentic == \A e \in verified : AsSent(e)

(* No packet that arrives as the sender sent it is ever counted as forged: *)
(* its MAC is recomputed with its own interval's key and at the position   *)
(* the sender used, through sequence number wraps and other members'       *)
(* packets.                                                                *)
GenuineNeverForged == \A e \in forged : ~AsSent(e)

(* The packets that wait are those of the D intervals after the trusted    *)
(* key: no packet waits for a key that has already been processed (it      *)
(* would wait forever), and the drawers hold at most D intervals.  Labels  *)
(* are counted from 1: a packet labelled 0 has no key and only waits.      *)
DrawersAwaitNextKeys ==
  \A e \in drawers :
    e.interval # 0 => e.interval > trusted.index /\ e.interval <= trusted.index + D

(* The trusted key is the chain's, and was public when it was processed.   *)
TrustedIsGenuine == trusted.key = trusted.index /\ trusted.index \in PublicKeys

(* Every delivered packet is waiting or has exactly one verdict, and       *)
(* `pending` counts the waiting ones (it is decremented without a check).  *)
EveryPacketAccounted ==
  /\ pending = Cardinality(drawers)
  /\ delivered = pending + Cardinality(verified) + Cardinality(forged)
  /\ verified \cap forged = {}
  /\ drawers \cap (verified \cup forged) = {}

(* The TESLA layer's index recovery follows libsrtp's although it is       *)
(* updated by other code: a waiting packet has the index it was sealed at. *)
EntriesAtSealedIndex == \A e \in Entries : e.ext_index = e.covered.srtp.index

(* While at most GMax keys have been missed, no packet of the sender would *)
(* be rejected for the key it discloses, however many disclosures were     *)
(* lost and in whatever order the others came.                             *)
DisclosuresAccepted ==
  \A i \in 1 .. Len(wire) :
    wire[i].disclosed - trusted.index <= GMax => Disclosure(wire[i]) \in {"New", "NotNew"}
=============================================================================
