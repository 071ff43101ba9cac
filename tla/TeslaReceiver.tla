---------------------------- MODULE TeslaReceiver ----------------------------
(***************************************************************************)
(* The TESLA receiver (src/src/tesla/receiver.rs) around the SRTP receiver.*)
(* A datagram is [srtp, from, interval, disclosed, mac]: the SRTP packet,  *)
(* who wrote it (which the bytes under the MAC depend on), and the TESLA   *)
(* extension.  A MAC is the chain key it was made with, the position it    *)
(* binds and the bytes it covers, and two MACs are equal exactly when      *)
(* those are.                                                              *)
(***************************************************************************)
EXTENDS ReceiverKeyManager, TeslaSchedule, FiniteSets

CONSTANT MacAlg

ASSUME MacAlgAssumption == MacAlg \in {"HmacSha256", "GmacAes128"}

VARIABLES trusted,     \* ChainVerifier: newest trusted index and key
          recovery,    \* the TESLA layer's own IndexRecovery
          drawers,     \* entries waiting for their interval's key
          pending,     \* number of entries waiting
          delivered,   \* stats.delivered
          verified,    \* entries counted by stats.verified
          forged,      \* entries counted by stats.forged
          verdict      \* what the last call of process_arrival returned

teslaVars == <<trusted, recovery, drawers, pending, delivered, verified, forged, verdict>>

(* PreparedMac::tag: HMAC binds the rollover counter, GMAC the full index. *)
tag(key, ext_index, covered) ==
  [key |-> key, pos |-> IF MacAlg = "HmacSha256" THEN Roc(ext_index) ELSE ext_index,
   covered |-> covered]

(* The bytes before the extension.                                         *)
Covered(w) == [srtp |-> w.srtp, from |-> w.from]

(* TeslaReceiver::accept, with a commitment whose signature verifies.      *)
TeslaInit ==
  /\ RxInit
  /\ trusted = [index |-> 0, key |-> 0]
  /\ recovery = None
  /\ drawers = {}
  /\ pending = 0
  /\ delivered = 0
  /\ verified = {}
  /\ forged = {}
  /\ verdict = "New"

Verdict(v) ==
  /\ verdict' = v
  /\ UNCHANGED <<trusted, drawers, pending, delivered, verified, forged>>

DropMalformed == Verdict("Malformed") /\ UNCHANGED <<rxVars, recovery>>

DropUnsafe(w, arrival_ns) ==
  /\ ~accepts(arrival_ns, w.interval)
  /\ Verdict("UnsafeLate")
  /\ UNCHANGED <<rxVars, recovery>>

DropSrtp == result'.status # "Ok" /\ Verdict("Srtp") /\ UNCHANGED recovery

(* recovery.update(ext_index) once the SRTP layer accepted the packet.     *)
Recovered(w) ==
  /\ result'.status = "Ok"
  /\ recovery' = update(recovery, recover(recovery, w.srtp.seq))

Disclosure(w) == check(trusted, w.disclosed, disclosed_index(w.interval))

DropBadDisclosure(w) ==
  /\ Recovered(w)
  /\ Disclosure(w) \in {"Invalid", "TooFarAhead", "BeyondChain"}
  /\ Verdict("BadDisclosure")

(* settle: the entries of every interval a key is known for get their      *)
(* verdict; the others go on waiting.                                      *)
Settled(keys) == {e \in drawers : e.interval \in DOMAIN keys}

Matches(e, keys) == tag(keys[e.interval], e.ext_index, e.covered) = e.mac

settle(keys) ==
  /\ verified' = verified \cup {e \in Settled(keys) : Matches(e, keys)}
  /\ forged' = forged \cup {e \in Settled(keys) : ~Matches(e, keys)}

DrawerEntry(w) ==
  [interval |-> w.interval, ext_index |-> recover(recovery, w.srtp.seq),
   mac |-> w.mac, covered |-> Covered(w)]

(* The packet is delivered: its disclosed key settles what it can, then    *)
(* the packet joins its interval's drawer.                                 *)
DeliverNew_KeepsDrawers(w) ==
  LET index == disclosed_index(w.interval)
      keys  == recovered(trusted, w.disclosed, index)
  IN  /\ Disclosure(w) = "New"
      /\ trusted' = [index |-> index, key |-> w.disclosed]
      /\ settle(keys)
      /\ drawers' = drawers \cup {DrawerEntry(w)}
      /\ pending' = pending - Cardinality(Settled(keys)) + 1

DeliverNew(w) ==
  LET index == disclosed_index(w.interval)
      keys  == recovered(trusted, w.disclosed, index)
  IN  /\ Disclosure(w) = "New"
      /\ trusted' = [index |-> index, key |-> w.disclosed]
      /\ settle(keys)
      /\ drawers' = (drawers \ Settled(keys)) \cup {DrawerEntry(w)}
      /\ pending' = pending - Cardinality(Settled(keys)) + 1

DeliverNotNew(w) ==
  /\ Disclosure(w) = "NotNew"
  /\ drawers' = drawers \cup {DrawerEntry(w)}
  /\ pending' = pending + 1
  /\ UNCHANGED <<trusted, verified, forged>>

DeliverTesla(w) ==
  /\ Recovered(w)
  /\ DeliverNew(w) \/ DeliverNotNew(w)
  /\ delivered' = delivered + 1
  /\ verdict' = "Ok"

process_arrival(w, arrival_ns) ==
  \/ DropUnsafe(w, arrival_ns)
  \/ /\ accepts(arrival_ns, w.interval)
     /\ unprotect(w.srtp)
     /\ DropSrtp \/ DropBadDisclosure(w) \/ DeliverTesla(w)
=============================================================================
