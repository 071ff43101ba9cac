--------------------------- MODULE ReceiverProofs ---------------------------
(***************************************************************************)
(* Theorems about the receiver, for every ring size, seek cap, replay      *)
(* window, sequence space and scheme: Receiver and CountedReceiver, fed    *)
(* any packets of Wire, and SimulatedStream, fed what the sender sealed.   *)
(***************************************************************************)
EXTENDS CountedReceiver, SimulatedStream, KeyManagerProofs

(* The steps late in a long module need more than the provers' default time. *)
USE SMTT(60)

(* One step of the receiver keeps the invariant.                           *)
LEMMA NextRxInv == RxInv /\ [RxNext]_rxVars => RxInv'
<1> SUFFICES ASSUME RxInv, [RxNext]_rxVars PROVE RxInv'
  BY Zenon
<1>1. CASE DropTruncated
  BY <1>1, DropKeepsInv, Zenon DEF DropTruncated, Statuses
<1>2. CASE \E p \in Wire : unprotect(p)
  BY <1>2, UnprotectKeepsInv, WireAssumption, Zenon
<1>3. CASE UNCHANGED rxVars
  BY <1>3, Zenon DEF rxVars, RxInv, RxTypeOK, RatchetAtFrontier, RingHoldsWindow, RingRecent,
              CipherMatchesInstalled, CipherRecent, IndexInSync
<1> QED BY <1>1, <1>2, <1>3, Zenon DEF RxNext

-----------------------------------------------------------------------------
(***************************************************************************)
(* The theorems.                                                           *)
(***************************************************************************)

(* The invariant holds in every state of the receiver, for any packets.    *)
THEOREM RxInvariant == RxSpec => []RxInv
BY InitRxInv, NextRxInv, PTL DEF RxSpec

(* ReceiverKeyManager's state is well typed; in particular every generation*)
(* it computes and every index it recovers is a natural number.            *)
THEOREM TypeCorrect == RxSpec => []RxTypeOK
<1>1. RxInv => RxTypeOK
  BY Zenon DEF RxInv
<1> QED BY <1>1, RxInvariant, PTL

(* The in-window miss of phase 2 (`unreachable!`) is never reached.        *)
THEOREM WindowComplete == RxSpec => []RingHoldsWindow
<1>1. RxInv => RingHoldsWindow
  BY Zenon DEF RxInv
<1> QED BY <1>1, RxInvariant, PTL

(* Keys older than the K-window are neither in memory nor derivable.       *)
THEOREM ForwardSecrecyHolds == RxSpec => []ForwardSecrecy
<1>1. RxInv => ForwardSecrecy
  <2>1. SUFFICES ASSUME RxInv, NEW key \in HeldKeys PROVE frontier - key < K
    BY Zenon DEF RxInv, RatchetAtFrontier, ForwardSecrecy
  <2>2. CASE key = cipher
    BY <2>1, <2>2, Zenon DEF HeldKeys, RxInv, CipherMatchesInstalled, CipherRecent
  <2>3. CASE \E s \in Slots : key = ring[s].key
    <3>1. PICK s \in Slots : key = ring[s].key
      BY <2>3, Zenon
    <3>2. ring[s] # Empty
      BY <2>1, <3>1 DEF HeldKeys, Empty, Entry
    <3>3. \E g \in Nat : ring[s] = Entry(g, g) /\ frontier - g < K
      BY <2>1, <3>2, Zenon DEF RxInv, RingRecent
    <3> QED BY <3>1, <3>3 DEF Entry
  <2> QED BY <2>1, <2>2, <2>3, Zenon DEF HeldKeys
<1> QED BY <1>1, RxInvariant, PTL

(* Skipping the rekey when `installed` names the wanted generation is      *)
(* sound.                                                                  *)
THEOREM CipherTagSound == RxSpec => []CipherMatchesInstalled
<1>1. RxInv => CipherMatchesInstalled
  BY Zenon DEF RxInv
<1> QED BY <1>1, RxInvariant, PTL

(* The receiver's index recovery and libsrtp's estimator always agree.     *)
THEOREM EstimatorsAlwaysAgree == RxSpec => []EstimatorsAgree
<1>1. RxInv => EstimatorsAgree
  <2>1. SUFFICES ASSUME RxInv, ByIndex, NEW s \in Seqs
                 PROVE  recover(highest, s) = srtp_rdbx_estimate_index(rdbx, s)
    BY Zenon DEF EstimatorsAgree
  <2> QED BY <2>1, RecoverIsEstimate, Zenon DEF RxInv, RxTypeOK, IndexInSync
<1> QED BY <1>1, RxInvariant, PTL

(* A packet that is not delivered moves no durable state (phase 4's        *)
(* rollback).                                                              *)
THEOREM RejectedPacketsAreInert == RxSpec => RejectedIsInert
<1>1. ASSUME [RxNext]_rxVars
      PROVE  [result'.status # "Ok" => UNCHANGED <<window, highest, rdbx>>]_rxVars
  <2> SUFFICES ASSUME RxNext, result'.status # "Ok"
               PROVE  UNCHANGED <<window, highest, rdbx>>
    BY <1>1, Zenon
  <2>1. ASSUME NEW status, Drop(status) PROVE UNCHANGED <<window, highest, rdbx>>
    BY <2>1, Zenon DEF Drop
  <2> QED BY <2>1, UndeliveredKeeps, Zenon DEF RxNext, DropTruncated
<1> QED BY <1>1, PTL DEF RxSpec, RejectedIsInert

(* A key that left the ring and the cipher never comes back.               *)
THEOREM KeysNeverReturn == RxSpec => NoKeyReturns
<1>1. ASSUME RxInv, [RxNext]_rxVars
      PROVE  [\A key \in HeldKeys' : key \in HeldKeys \/ key > frontier]_rxVars
  <2> SUFFICES ASSUME RxNext, NEW key \in HeldKeys'
               PROVE  key \in HeldKeys \/ key > frontier
    BY <1>1, Zenon
  <2>1. frontier \in Int /\ key # None
    BY <1>1, WindowFacts, Zenon DEF RxInv, HeldKeys
  <2>2. CASE UNCHANGED <<ring, cipher>>
    BY <2>2, Zenon DEF HeldKeys
  <2>3. ASSUME NEW p \in Packets, NEW g \in Nat, OpenInWindow(p, g)
        PROVE  key \in HeldKeys
    <3>1. K \in Nat \ {0} /\ frontier # None /\ g \in 0 .. frontier /\ frontier - g < K
      BY <1>1, <2>3, WindowFacts DEF RxInv, OpenInWindow, InWindow, Derived, TooOld
    <3>2. g % K \in Slots
      BY <3>1, DivMod DEF Slots
    <3>3. ring' = ring /\ (cipher' = cipher \/ cipher' = ring[g % K].key)
      BY <2>3, Zenon DEF OpenInWindow, Load, Install, Reject, window
    <3> QED BY <2>1, <3>2, <3>3, Zenon DEF HeldKeys
  <2>4. ASSUME NEW p \in Packets, NEW g \in Nat, OpenAhead(p, g)
        PROVE  key \in HeldKeys \/ key > frontier
    <3>1. Ahead(g) /\ g > frontier
      BY <1>1, <2>4, AheadFacts, Zenon DEF RxInv, OpenAhead
    <3>2. key_salt_of(ratchet, g) = g
      BY <1>1, CatchupKey DEF RxInv
    <3>3. cipher' = cipher \/ cipher' = g
      BY <2>4, <3>2, Zenon DEF OpenAhead, Load, Install
    <3>4. CASE key = cipher'
      BY <2>1, <3>1, <3>3, <3>4, Zenon DEF HeldKeys
    <3>5. CASE \E s \in Slots : key = ring'[s].key
      <4>1. PICK s \in Slots : key = ring'[s].key
        BY <3>5, Zenon
      <4>2. ring' = ring \/ ring' = Folded(g)
        BY <2>4, Zenon DEF OpenAhead, Adopt, Reject, window
      <4>3. ring'[s] = ring[s] \/ \E h \in Nat : h > frontier /\ ring'[s] = Entry(h, h)
        BY <1>1, <3>1, <4>2, FoldedSlot
      <4>4. CASE ring'[s] = ring[s]
        BY <2>1, <4>1, <4>4, Zenon DEF HeldKeys
      <4>5. CASE \E h \in Nat : h > frontier /\ ring'[s] = Entry(h, h)
        <5>1. PICK h \in Nat : h > frontier /\ ring'[s] = Entry(h, h)
          BY <4>5, Zenon
        <5>2. key = h
          BY <4>1, <5>1 DEF Entry
        <5> QED BY <2>1, <5>1, <5>2, Zenon
      <4> QED BY <4>3, <4>4, <4>5, Zenon
    <3> QED BY <3>4, <3>5, Zenon DEF HeldKeys
  <2>5. ASSUME NEW status, Drop(status) PROVE UNCHANGED <<ring, cipher>>
    BY <2>5, Zenon DEF Drop, window
  <2>6. ASSUME NEW p \in Packets, unprotect(p)
        PROVE  key \in HeldKeys \/ key > frontier
    <3>1. ~BeforeEpoch(highest, p.seq) => generation(highest, p) \in Nat
      BY <1>1, GenerationType, Zenon DEF RxInv, RxTypeOK
    <3> QED BY <2>2, <2>3, <2>4, <2>5, <2>6, <2>1, <3>1, Zenon
            DEF unprotect, DropBeforeEpoch, DropBehind, DropSeekCap
  <2> QED BY <2>1, <2>2, <2>5, <2>6, WireAssumption, Zenon DEF RxNext, DropTruncated
<1> QED BY <1>1, RxInvariant, PTL DEF RxSpec, NoKeyReturns

-----------------------------------------------------------------------------
(***************************************************************************)
(* Refinement: the ring implements the abstract sliding window.            *)
(***************************************************************************)

(* The generations tagged in the ring are the last K up to the frontier.   *)
LEMMA LiveIsWindow ==
  ASSUME RxInv
  PROVE  {ring[s].gen : s \in Slots} \ {None} = KW!LastK(frontier)
<1>1. K \in Nat \ {0} /\ frontier \in Int /\ frontier >= -1
  BY WindowFacts, Zenon DEF RxInv
<1>2. ASSUME NEW s \in Slots, ring[s].gen # None PROVE ring[s].gen \in KW!LastK(frontier)
  <2>1. ring[s] # Empty
    BY <1>2 DEF Empty, Entry
  <2>2. PICK g \in Nat : ring[s] = Entry(g, g) /\ g <= frontier /\ frontier - g < K
    BY <2>1, Zenon DEF RxInv, RingRecent
  <2>3. ring[s].gen = g
    BY <2>2 DEF Entry
  <2> QED BY <1>1, <2>2, <2>3 DEF KW!LastK
<1>3. ASSUME NEW g \in KW!LastK(frontier)
      PROVE  g # None /\ \E s \in Slots : ring[s].gen = g
  <2>1. g \in 0 .. frontier /\ frontier - g < K /\ frontier # None /\ g # None
    BY <1>1 DEF KW!LastK, None
  <2>2. ring[g % K] = Entry(g, g)
    BY <2>1, Zenon DEF RxInv, RingHoldsWindow
  <2>3. g % K \in Slots
    BY <1>1, <2>1, DivMod DEF Slots
  <2>4. ring[g % K].gen = g
    BY <2>2 DEF Entry
  <2> QED BY <2>1, <2>3, <2>4, Zenon
<1> QED BY <1>2, <1>3, Zenon

(* The receiver's ring, frontier and ratchet implement KeyWindow: every    *)
(* call of unprotect opens a packet in the window, slides the window to a  *)
(* packet that authenticated, or refuses and changes nothing of it.        *)
THEOREM ReceiverImplementsKeyWindow == RxSpec => ImplementsKeyWindow
<1> DEFINE gens == {ring[s].gen : s \in Slots} \ {None}
<1>1. RxInit => KW!Init
  BY InitRxInv, LiveIsWindow DEF RxInit, KW!Init, KW!LastK, None, Err
<1>2. RxInv => gens = KW!LastK(frontier)
  BY LiveIsWindow, Zenon
<1>3. RxInv' => (gens = KW!LastK(frontier))'
  BY <1>2, PTL
<1>4. ASSUME RxInv, RxInv', [RxNext]_rxVars PROVE [KW!Next]_(KW!kwVars)
  <2>1. ASSUME NEW status, result' = Err(status), UNCHANGED window PROVE KW!Refuse
    <3>1. result'.gen = -1
      BY <2>1 DEF Err, None
    <3> QED BY <2>1, <3>1, Zenon DEF KW!Refuse, window
  <2>2. ASSUME NEW p \in Packets, NEW g \in Nat, NEW key, Reject(p, g, key) PROVE KW!Refuse
    <3>1. \E status : result' = Err(status)
      BY <2>2, Zenon DEF Reject, SrtpError
    <3>2. UNCHANGED window
      BY <2>2, Zenon DEF Reject
    <3> QED BY <2>1, <3>1, <3>2, Zenon
  <2>3. ASSUME NEW p \in Packets, NEW g \in Nat, Deliver(p, g) PROVE result'.gen = g
    BY <2>3, Zenon DEF Deliver, Ok
  <2>4. ASSUME NEW p \in Packets, NEW g \in Nat, Ahead(g), Deliver(p, g), Adopt(g)
        PROVE  KW!Slide
    <3>1. frontier' = g /\ g > frontier /\ g - frontier <= SeekCap
      BY <1>4, <2>4, AheadFacts, Zenon DEF Adopt, RxInv
    <3>2. gens' = KW!LastK(frontier')
      BY <1>3, <1>4, Zenon
    <3>3. result'.gen = g
      BY <2>3, <2>4, Zenon
    <3> QED BY <3>1, <3>2, <3>3, Zenon DEF KW!Slide
  <2>5. ASSUME NEW p \in Packets, NEW g \in Nat, InWindow(g), Deliver(p, g), UNCHANGED window
        PROVE  KW!Open
    <3>1. g \in KW!LastK(frontier)
      BY <1>4, <2>5, WindowFacts DEF RxInv, InWindow, Derived, TooOld, KW!LastK
    <3>2. result'.gen \in gens
      BY <1>2, <1>4, <2>3, <2>5, <3>1, Zenon
    <3> QED BY <2>5, <3>2, Zenon DEF KW!Open, window
  <2>6. ASSUME NEW p \in Packets, NEW g \in Nat, OpenInWindow(p, g) \/ OpenAhead(p, g)
        PROVE  KW!Next
    BY <2>2, <2>4, <2>5, <2>6, Zenon DEF OpenInWindow, OpenAhead, KW!Next
  <2>7. ASSUME NEW status, Drop(status) PROVE KW!Next
    BY <2>1, <2>7, Zenon DEF Drop, KW!Next
  <2>8. ASSUME NEW p \in Packets, unprotect(p) PROVE KW!Next
    <3>1. ~BeforeEpoch(highest, p.seq) => generation(highest, p) \in Nat
      BY <1>4, GenerationType, Zenon DEF RxInv, RxTypeOK
    <3> QED BY <2>6, <2>7, <2>8, <3>1, Zenon
            DEF unprotect, DropBeforeEpoch, DropBehind, DropSeekCap
  <2>9. RxNext => KW!Next
    BY <2>7, <2>8, WireAssumption, Zenon DEF RxNext, DropTruncated
  <2>10. CASE UNCHANGED rxVars
    BY <2>10, Zenon DEF rxVars, KW!kwVars
  <2> QED BY <1>4, <2>9, <2>10, Zenon
<1> QED BY <1>1, <1>4, RxInvariant, PTL DEF RxSpec, ImplementsKeyWindow, KW!Spec

-----------------------------------------------------------------------------
(***************************************************************************)
(* The receiver's counters: the invariant above, with what the counters    *)
(* say of the state.                                                       *)
(***************************************************************************)
StatsInv ==
  /\ RxInv
  /\ stats \in [Counters -> Nat]
  /\ calls \in Nat
  /\ EveryCallCounted
  /\ DerivedOncePerGeneration
  /\ WastedWorkBounded

(* One more rejected packet allows for SeekCap more wasted steps.          *)
LEMMA OneMore ==
  ASSUME NEW m \in Nat, NEW n \in Nat
  PROVE  m * (n + 1) = m * n + m
OBVIOUS

(* The counters after a call of unprotect, one by one.                     *)
LEMMA CountedCall ==
  ASSUME StatsInv, NEW p \in Packets, CallEffect(p), calls' = calls + 1,
         stats' = counted(p, result'.status)
  PROVE  /\ stats' \in [Counters -> Nat]
         /\ calls' \in Nat
         /\ EveryCallCounted'
         /\ DerivedOncePerGeneration'
         /\ WastedWorkBounded'
<1> DEFINE status == result'.status
<1>1. SeekCap \in Nat /\ frontier \in Int
  BY WindowFacts, Zenon DEF StatsInv, RxInv
<1>2. /\ \A c \in Counters : stats[c] \in Nat
      /\ calls \in Nat /\ Steps(p) \in Nat
  BY <1>1 DEF StatsInv, CallEffect
<1>3. stats \in [Counters -> Nat] /\ DerivedOncePerGeneration
  BY Zenon DEF StatsInv
<1>4. /\ stats'["catchup_steps_wasted"] = stats["catchup_steps_wasted"]
                                           + (IF status = "Ok" THEN 0 ELSE Steps(p))
      /\ stats'["max_catchup"] = larger(stats["max_catchup"], Steps(p))
      /\ stats' \in [Counters -> Nat]
      /\ DerivedOncePerGeneration'
      /\ Outcomes' = Outcomes + 1
      /\ Rejected' = Rejected + One(status \in {"SrtpReplay", "AuthFail"})
  BY <1>1, <1>3, CountersAfter, Zenon
<1> HIDE DEF status
<1>5. EveryCallCounted'
  BY <1>4, Zenon DEF EveryCallCounted, StatsInv
<1>6. WastedWorkBounded'
  <2>1. stats'["max_catchup"] <= SeekCap
    BY <1>1, <1>2, <1>4 DEF StatsInv, WastedWorkBounded, CallEffect, larger, Counters
  <2>2. Rejected \in Nat
    BY <1>2 DEF Rejected, Counters
  <2>3. stats'["catchup_steps_wasted"] <= SeekCap * Rejected'
    <3>1. CASE status \in {"SrtpReplay", "AuthFail"}
      <4>1. Rejected' = Rejected + 1
        BY <1>4, <3>1, Zenon DEF One
      <4>2. SeekCap * Rejected' = SeekCap * Rejected + SeekCap /\ SeekCap * Rejected \in Nat
        BY <1>1, <2>2, <4>1, OneMore
      <4>3. stats["catchup_steps_wasted"] <= SeekCap * Rejected /\ Steps(p) <= SeekCap
        BY <1>1 DEF StatsInv, WastedWorkBounded, CallEffect
      <4>4. stats'["catchup_steps_wasted"] = stats["catchup_steps_wasted"] + Steps(p)
        BY <1>4, <3>1, Zenon
      <4>5. stats["catchup_steps_wasted"] \in Nat
        BY <1>2, Zenon DEF Counters
      <4> HIDE DEF Rejected
      <4> QED BY <1>1, <1>2, <4>2, <4>3, <4>4, <4>5
    <3>2. CASE status \notin {"SrtpReplay", "AuthFail"}
      <4>1. Rejected' = Rejected
        BY <1>4, <2>2, <3>2 DEF One
      <4>2. stats'["catchup_steps_wasted"] = stats["catchup_steps_wasted"]
        BY <1>2, <1>4, <3>2 DEF CallEffect, status, Counters
      <4> QED BY <4>1, <4>2, Zenon DEF StatsInv, WastedWorkBounded
    <3> QED BY <3>1, <3>2, Zenon
  <2> QED BY <2>1, <2>3, Zenon DEF WastedWorkBounded
<1> QED BY <1>2, <1>4, <1>5, <1>6

(* A truncated datagram is one more authentication failure.                *)
LEMMA CountedTruncated ==
  ASSUME StatsInv, counted_truncated, calls' = calls + 1
  PROVE  StatsInv'
<1>1. RxInv'
  BY DropKeepsInv, Zenon DEF StatsInv, counted_truncated, DropTruncated, Statuses
<1>2. SeekCap \in Nat /\ frontier' = frontier
  BY WindowFacts, Zenon DEF StatsInv, RxInv, counted_truncated, DropTruncated, Drop, window
<1>3. /\ stats' \in [Counters -> Nat]
      /\ stats'["drops_auth"] = stats["drops_auth"] + 1
      /\ \A c \in Counters \ {"drops_auth"} : stats'[c] = stats[c]
      /\ \A c \in Counters : stats[c] \in Nat
  BY DEF StatsInv, counted_truncated, Counters
<1>4. Outcomes' = Outcomes + 1 /\ Rejected' = Rejected + 1 /\ Rejected \in Nat
  BY <1>3 DEF Outcomes, Rejected, Counters
<1>5. EveryCallCounted' /\ calls' \in Nat
  BY <1>4 DEF EveryCallCounted, StatsInv
<1>6. DerivedOncePerGeneration'
  BY <1>2, <1>3, Zenon DEF DerivedOncePerGeneration, StatsInv, Counters
<1>7. WastedWorkBounded'
  <2>1. SeekCap * Rejected' = SeekCap * Rejected + SeekCap /\ SeekCap * Rejected \in Nat
    BY <1>2, <1>4, OneMore
  <2>2. /\ stats'["catchup_steps_wasted"] = stats["catchup_steps_wasted"]
        /\ stats'["max_catchup"] = stats["max_catchup"]
        /\ stats["catchup_steps_wasted"] \in Nat
    BY <1>3, Zenon DEF Counters
  <2>3. stats["catchup_steps_wasted"] <= SeekCap * Rejected /\ stats["max_catchup"] <= SeekCap
    BY Zenon DEF StatsInv, WastedWorkBounded
  <2> HIDE DEF Rejected
  <2>4. stats'["catchup_steps_wasted"] <= SeekCap * Rejected'
    BY <1>2, <2>1, <2>2, <2>3
  <2> QED BY <2>2, <2>3, <2>4, Zenon DEF WastedWorkBounded
<1> QED BY <1>1, <1>3, <1>5, <1>6, <1>7, Zenon DEF StatsInv

-----------------------------------------------------------------------------
(* The invariant holds in every state of the counted receiver.             *)
THEOREM StatsInvariant == CountedSpec => []StatsInv
<1>1. CountedInit => StatsInv
  <2> SUFFICES ASSUME CountedInit PROVE StatsInv
    BY Zenon
  <2>1. RxInv /\ frontier = -1
    BY InitRxInv, Zenon DEF CountedInit, RxInit, None
  <2>2. /\ stats = [c \in Counters |-> 0] /\ calls = 0
        /\ SeekCap \in Nat
    BY <2>1, WindowFacts, Zenon DEF CountedInit, StatsInit, RxInv
  <2>3. Outcomes = 0 /\ Rejected = 0
    BY <2>2 DEF Outcomes, Rejected, Counters
  <2>4. EveryCallCounted /\ DerivedOncePerGeneration /\ WastedWorkBounded
    BY <2>1, <2>2, <2>3 DEF EveryCallCounted, DerivedOncePerGeneration,
                            WastedWorkBounded, Counters
  <2> QED BY <2>1, <2>2, <2>4, Zenon DEF StatsInv
<1>2. StatsInv /\ [CountedNext]_statsVars => StatsInv'
  <2> SUFFICES ASSUME StatsInv, [CountedNext]_statsVars PROVE StatsInv'
    BY Zenon
  <2>1. CASE calls' = calls + 1 /\ counted_truncated
    BY <2>1, CountedTruncated, Zenon
  <2>2. ASSUME NEW p \in Wire, calls' = calls + 1, counted_unprotect(p)
        PROVE  StatsInv'
    <3>1. p \in Packets /\ unprotect(p) /\ stats' = counted(p, result'.status) /\ RxInv
      BY <2>2, WireAssumption, Zenon DEF counted_unprotect, StatsInv
    <3>2. RxInv' /\ CallEffect(p)
      BY <3>1, UnprotectKeepsInv, UnprotectEffect, Zenon
    <3> QED BY <2>2, <3>1, <3>2, CountedCall, Zenon DEF StatsInv
  <2>3. CASE UNCHANGED statsVars
    <3>1. RxInv'
      BY <2>3, NextRxInv, Zenon DEF statsVars, StatsInv
    <3> QED BY <2>3, <3>1, Zenon DEF statsVars, rxVars, StatsInv, EveryCallCounted, Outcomes,
                              Rejected, DerivedOncePerGeneration, WastedWorkBounded
  <2> QED BY <2>1, <2>2, <2>3, Zenon DEF CountedNext
<1> QED BY <1>1, <1>2, PTL DEF CountedSpec

(* Every call of unprotect is counted as exactly one outcome, whatever     *)
(* packets arrive.                                                         *)
THEOREM EveryCallIsCounted == CountedSpec => []EveryCallCounted
<1>1. StatsInv => EveryCallCounted
  BY Zenon DEF StatsInv
<1> QED BY <1>1, StatsInvariant, PTL

(* The steps that were not wasted are as many as the generations up to the *)
(* frontier: no catch-up of unprotect derives a generation again.          *)
THEOREM NothingDerivedTwice == CountedSpec => []DerivedOncePerGeneration
<1>1. StatsInv => DerivedOncePerGeneration
  BY Zenon DEF StatsInv
<1> QED BY <1>1, StatsInvariant, PTL

(* Rejected packets cost at most seek_cap wasted steps each, and no packet *)
(* causes a longer catch-up.                                               *)
THEOREM WorkIsBounded == CountedSpec => []WastedWorkBounded
<1>1. StatsInv => WastedWorkBounded
  BY Zenon DEF StatsInv
<1> QED BY <1>1, StatsInvariant, PTL
-----------------------------------------------------------------------------
(***************************************************************************)
(* The stream: the sender seals every packet under its generation, and the *)
(* receiver's state is that of the packets it delivered, each of them      *)
(* once.  DeliveredInv is StateFromDelivered with the newest               *)
(* delivered packet named by the replay database, so that the maximum of   *)
(* `delivered` need not be recomputed at each step.                        *)
(***************************************************************************)
DeliveredInv ==
  /\ delivered \subseteq PacketNumbers
  /\ delivered = {} => frontier = None /\ highest = None /\ rdbx = srtp_rdbx_init
  /\ delivered # {} =>
       /\ rdbx.index \in delivered
       /\ \A i \in delivered : i <= rdbx.index
       /\ frontier = TrueGeneration(rdbx.index)
       /\ highest = IF ByIndex THEN rdbx.index ELSE None
       /\ rdbx.mask = SetBits(delivered, rdbx.index)

StreamInv == TxInv /\ RxInv /\ DeliveredInv

(* The named packet is the newest.                                         *)
LEMMA DeliveredInvSuffices == StreamInv => StateFromDelivered
<1> SUFFICES ASSUME StreamInv, delivered # {} PROVE StateFromDelivered
  BY Zenon DEF StreamInv, DeliveredInv, StateFromDelivered
<1>1. /\ rdbx.index \in delivered /\ \A i \in delivered : i <= rdbx.index
      /\ delivered \subseteq Int
  BY DEF StreamInv, DeliveredInv, PacketNumbers, TxInv
<1>2. MaxOf(delivered) \in delivered /\ \A i \in delivered : i <= MaxOf(delivered)
  BY <1>1, Zenon DEF MaxOf
<1>3. MaxOf(delivered) = rdbx.index
  <2>1. MaxOf(delivered) \in Int /\ rdbx.index \in Int
    BY <1>1, <1>2, Zenon
  <2>2. MaxOf(delivered) <= rdbx.index /\ rdbx.index <= MaxOf(delivered)
    BY <1>1, <1>2, Zenon
  <2> QED BY <2>1, <2>2
<1> QED BY <1>3, Zenon DEF StreamInv, DeliveredInv, StateFromDelivered, SetBits

(* The delivery of packet number i: it was not delivered before, and the   *)
(* database, the recovery and the frontier take it up at its own index and *)
(* generation.                                                             *)
LEMMA DeliverySound ==
  ASSUME StreamInv, NEW i \in PacketNumbers, unprotect(Sent(i)), result'.status = "Ok"
  PROVE  LET delta == i - rdbx.index
         IN  /\ i \notin delivered
             /\ delta <= 0 => -delta \in 0 .. ReplayWindow - 1
             /\ rdbx' = srtp_rdbx_add_index(rdbx, delta)
             /\ frontier' = IF TrueGeneration(i) > frontier THEN TrueGeneration(i) ELSE frontier
             /\ highest' = IF ByIndex THEN update(highest, i) ELSE highest
<1> DEFINE w == Sent(i)
           delta == i - rdbx.index
<1>1. TxInv /\ RxInv /\ DeliveredInv /\ rdbx \in RdbxTypes /\ rdbx.index \in Nat
  BY Zenon DEF StreamInv, RxInv, RxTypeOK, RdbxTypes
<1>2. i \in Nat /\ w \in Packets /\ w.key = TrueGeneration(i) /\ w.index = i
  BY <1>1, SentTyped, Zenon
<1>3. w.seq \in Seqs
  BY <1>2, Zenon DEF Packets
<1> HIDE DEF w
<1>4. /\ w.key = generation(highest, w)
      /\ w.index = srtp_rdbx_estimate_index(rdbx, w.seq)
      /\ srtp_rdbx_check(rdbx, srtp_rdbx_estimate_delta(rdbx, w.seq)) = "ok"
      /\ Deliver(w, generation(highest, w))
      /\ frontier' = IF generation(highest, w) > frontier
                       THEN generation(highest, w) ELSE frontier
  BY <1>1, <1>2, DeliveredEffect, Zenon DEF w
<1>5. srtp_rdbx_estimate_delta(rdbx, w.seq) = delta /\ delta \in Int
  <2>1. /\ srtp_rdbx_estimate_delta(rdbx, w.seq) \in Int
        /\ i = rdbx.index + srtp_rdbx_estimate_delta(rdbx, w.seq)
    BY <1>1, <1>2, <1>3, <1>4, EstimateDelta, Zenon
  <2> QED BY <1>1, <1>2, <2>1
<1>6. delta <= 0 => -delta \in 0 .. ReplayWindow - 1 /\ -delta \notin rdbx.mask
  BY <1>4, <1>5, ReplayWindowAssumption, HalfFacts DEF srtp_rdbx_check
<1>7. i \notin delivered
  <2>1. SUFFICES ASSUME i \in delivered PROVE FALSE
    BY Zenon
  <2>2. i <= rdbx.index /\ rdbx.mask = SetBits(delivered, rdbx.index)
    BY <1>1, <2>1, Zenon DEF DeliveredInv
  <2>3. delta <= 0 /\ rdbx.index - (-delta) = i
    BY <1>1, <1>2, <2>2
  <2> QED BY <1>6, <2>1, <2>2, <2>3, Zenon DEF SetBits
<1>8. rdbx' = srtp_rdbx_add_index(rdbx, delta)
  BY <1>4, <1>5, Zenon DEF Deliver, srtp_unprotect_rdbx
<1>9. highest' = IF ByIndex THEN update(highest, i) ELSE highest
  <2>1. CASE ByIndex
    <3>1. recover(highest, w.seq) = srtp_rdbx_estimate_index(rdbx, w.seq)
      BY <1>1, <1>3, <2>1, RecoverIsEstimate, Zenon DEF RxInv, RxTypeOK, IndexInSync
    <3> QED BY <1>2, <1>4, <2>1, <3>1, Zenon DEF Deliver
  <2>2. CASE ~ByIndex
    BY <1>4, <2>2, Zenon DEF Deliver
  <2> QED BY <2>1, <2>2, Zenon
<1> QED BY <1>2, <1>4, <1>6, <1>7, <1>8, <1>9, Zenon

-----------------------------------------------------------------------------
(***************************************************************************)
(* The steps of the composition.                                           *)
(***************************************************************************)
(* A step that delivers nothing.                                           *)
LEMMA UndeliveredKeepsDeliveredInv ==
  ASSUME DeliveredInv, UNCHANGED <<frontier, highest, rdbx, delivered, sent>>
  PROVE  DeliveredInv'
BY Zenon DEF DeliveredInv, PacketNumbers, SetBits, TrueGeneration

(* A delivery moves the newest packet, the bits and the frontier together. *)
LEMMA DeliveryKeepsDeliveredInv ==
  ASSUME StreamInv, NEW i \in PacketNumbers, unprotect(Sent(i)), result'.status = "Ok",
         delivered' = delivered \cup {i}, UNCHANGED sent
  PROVE  DeliveredInv'
<1> DEFINE top == rdbx.index
<1>1. TxInv /\ RxInv /\ DeliveredInv /\ rdbx \in RdbxTypes /\ top \in Nat /\ i \in Nat
  BY SentTyped, Zenon DEF StreamInv, RxInv, RxTypeOK, RdbxTypes
<1>2. delivered \subseteq Nat
  BY <1>1 DEF DeliveredInv, PacketNumbers, TxInv
<1>3. /\ i - top <= 0 => -(i - top) \in 0 .. ReplayWindow - 1
      /\ rdbx' = srtp_rdbx_add_index(rdbx, i - top)
      /\ frontier' = IF TrueGeneration(i) > frontier THEN TrueGeneration(i) ELSE frontier
      /\ highest' = IF ByIndex THEN update(highest, i) ELSE highest
  BY DeliverySound, Zenon
<1>4. /\ delivered = {} => top = 0 /\ rdbx.mask = {} /\ frontier = None /\ highest = None
      /\ delivered # {} => /\ top \in delivered
                           /\ \A j \in delivered : j <= top
                           /\ rdbx.mask = SetBits(delivered, top)
                           /\ frontier = TrueGeneration(top)
                           /\ highest = IF ByIndex THEN top ELSE None
  BY <1>1 DEF DeliveredInv, srtp_rdbx_init
<1>5. i - top <= 0 => top - i \in 0 .. ReplayWindow - 1
  <2>1. -(i - top) = top - i
    BY <1>1
  <2> QED BY <1>3, <2>1, Zenon
<1>6. /\ rdbx'.index = IF i > top THEN i ELSE top
      /\ rdbx'.mask = SetBits(delivered', rdbx'.index)
  <2>1. delivered \in SUBSET Int
    BY <1>2
  <2>2. LET new == srtp_rdbx_add_index(rdbx, i - top)
        IN  /\ new.index = IF i > top THEN i ELSE top
            /\ new.mask = SetBits(delivered \cup {i}, new.index)
    BY <1>1, <1>4, <1>5, <2>1, BitsAfterAdd, Zenon
  <2> QED BY <1>3, <2>2, Zenon
<1>7. /\ TrueGeneration(i) \in Nat /\ TrueGeneration(top) \in Nat
      /\ i <= top => TrueGeneration(i) <= TrueGeneration(top)
      /\ top <= i => TrueGeneration(top) <= TrueGeneration(i)
  BY <1>1, GenerationsGrow, Zenon
<1> HIDE DEF top
<1>8. CASE delivered = {}
  <2>1. rdbx'.index = i
    BY <1>1, <1>4, <1>6, <1>8
  <2>2. frontier' = TrueGeneration(i)
    BY <1>3, <1>4, <1>7, <1>8 DEF None
  <2>3. highest' = IF ByIndex THEN i ELSE None
    BY <1>3, <1>4, <1>8, Zenon DEF update
  <2> QED BY <1>1, <1>6, <1>8, <2>1, <2>2, <2>3 DEF DeliveredInv, PacketNumbers
<1>9. CASE delivered # {}
  <2>1. rdbx'.index \in delivered' /\ \A j \in delivered' : j <= rdbx'.index
    BY <1>1, <1>2, <1>4, <1>6, <1>9
  <2>2. frontier' = TrueGeneration(rdbx'.index)
    BY <1>1, <1>3, <1>4, <1>6, <1>7, <1>9
  <2>3. highest' = IF ByIndex THEN rdbx'.index ELSE None
    BY <1>1, <1>3, <1>4, <1>6, <1>9 DEF update, None
  <2> QED BY <1>1, <1>6, <2>1, <2>2, <2>3, Zenon DEF DeliveredInv, PacketNumbers
<1> QED BY <1>8, <1>9, Zenon

(* A packet arrives unchanged.                                             *)
LEMMA ArriveKeepsInv ==
  ASSUME StreamInv, NEW i \in PacketNumbers, Arrive(i)
  PROVE  StreamInv'
<1>1. TxInv /\ RxInv /\ DeliveredInv /\ Sent(i) \in Packets /\ unprotect(Sent(i))
  BY SentTyped, Zenon DEF StreamInv, Arrive, Sent
<1>2. TxInv'
  BY <1>1, TxUnchanged, Zenon DEF Arrive
<1>3. RxInv'
  BY <1>1, UnprotectKeepsInv, Zenon
<1>4. UNCHANGED sent
  BY Zenon DEF Arrive, txVars
<1>5. CASE result'.status = "Ok"
  BY <1>1, <1>2, <1>3, <1>4, <1>5, DeliveryKeepsDeliveredInv, Zenon DEF StreamInv, Arrive
<1>6. CASE result'.status # "Ok"
  <2>1. UNCHANGED <<frontier, highest, rdbx, delivered>>
    BY <1>1, <1>6, UndeliveredKeeps, Zenon DEF Arrive, window
  <2> QED BY <1>1, <1>2, <1>3, <1>4, <2>1, UndeliveredKeepsDeliveredInv, Zenon DEF StreamInv
<1> QED BY <1>5, <1>6, Zenon

(* A damaged or truncated packet is never delivered.                       *)
LEMMA ArriveDamagedKeepsInv ==
  ASSUME StreamInv, ArriveDamaged
  PROVE  StreamInv'
<1>1. TxInv /\ RxInv /\ DeliveredInv /\ UNCHANGED <<sent, delivered>>
  BY Zenon DEF StreamInv, ArriveDamaged, txVars
<1>2. TxInv'
  BY <1>1, TxUnchanged, Zenon DEF ArriveDamaged
<1>3. RxInv' /\ UNCHANGED <<frontier, highest, rdbx>>
  <2>1. CASE DropTruncated
    <3>1. Drop("AuthFail") /\ "AuthFail" \in Statuses
      BY <2>1, Zenon DEF DropTruncated, Statuses
    <3> QED BY <1>1, <3>1, DropKeepsInv, Zenon DEF Drop, window
  <2>2. CASE \E s \in Seqs, ts \in Timestamps : unprotect(Damaged(s, ts))
    <3>1. PICK s \in Seqs, ts \in Timestamps : unprotect(Damaged(s, ts))
      BY <2>2, Zenon
    <3>2. Damaged(s, ts) \in Packets /\ ~Damaged(s, ts).intact
      BY Zenon DEF Damaged, Packets
    <3>3. result'.status # "Ok"
      BY <1>1, <3>1, <3>2, DeliveredEffect, Zenon
    <3>4. RxInv'
      BY <1>1, <3>1, <3>2, UnprotectKeepsInv, Zenon
    <3> QED BY <3>1, <3>3, <3>4, UndeliveredKeeps, Zenon DEF window
  <2> QED BY <2>1, <2>2, Zenon DEF ArriveDamaged
<1> QED BY <1>1, <1>2, <1>3, UndeliveredKeepsDeliveredInv, Zenon DEF StreamInv

(* The sender seals a packet while the receiver waits.                     *)
LEMMA SendKeepsInv ==
  ASSUME StreamInv, Send
  PROVE  StreamInv'
<1>1. TxInv /\ RxInv /\ DeliveredInv /\ next_protected
      /\ UNCHANGED <<ratchet, ring, frontier, installed, cipher, highest, rdbx, result, delivered>>
  BY Zenon DEF StreamInv, Send, rxVars
<1>2. TxInv' /\ Len(sent') = Len(sent) + 1 /\ Len(sent) \in Nat
  BY <1>1, SendKeepsTxInv DEF TxInv
<1>3. RxInv'
  BY <1>1, Zenon
  DEF RxInv, RxTypeOK, RatchetAtFrontier, RingHoldsWindow, RingRecent,
      CipherMatchesInstalled, CipherRecent, IndexInSync
<1>4. PacketNumbers \subseteq PacketNumbers'
  BY <1>2 DEF PacketNumbers
<1>5. DeliveredInv'
  BY <1>1, <1>4, Zenon DEF DeliveredInv, SetBits, TrueGeneration
<1> QED BY <1>2, <1>3, <1>5, Zenon DEF StreamInv

-----------------------------------------------------------------------------
(* The invariant of sender and receiver together.                          *)
THEOREM StreamInvariant == Spec => []StreamInv
<1>1. Init => StreamInv
  <2> SUFFICES ASSUME Init PROVE StreamInv
    BY Zenon
  <2>1. DeliveredInv
    BY Zenon DEF Init, RxInit, DeliveredInv
  <2> QED BY <2>1, TxInitInv, InitRxInv, Zenon DEF Init, StreamInv
<1>2. StreamInv /\ [Next]_vars => StreamInv'
  <2> SUFFICES ASSUME StreamInv, [Next]_vars PROVE StreamInv'
    BY Zenon
  <2>1. CASE UNCHANGED vars
    <3>1. TxInv'
      BY <2>1, TxUnchanged, Zenon DEF vars, StreamInv
    <3>2. RxInv'
      BY <2>1, Zenon
      DEF vars, rxVars, StreamInv, RxInv, RxTypeOK, RatchetAtFrontier, RingHoldsWindow,
          RingRecent, CipherMatchesInstalled, CipherRecent, IndexInSync
    <3>3. UNCHANGED <<frontier, highest, rdbx, delivered, sent>>
      BY <2>1, Zenon DEF vars, txVars, rxVars
    <3> QED BY <3>1, <3>2, <3>3, UndeliveredKeepsDeliveredInv, Zenon DEF StreamInv
  <2> QED BY <2>1, SendKeepsInv, ArriveKeepsInv, ArriveDamagedKeepsInv, Zenon DEF Next
<1> QED BY <1>1, <1>2, PTL DEF Spec

(* RekeyingStream::protect seals every packet under its generation's key   *)
(* and at its position, for every granularity and through every wrap.      *)
THEOREM SenderSealsByGeneration == Spec => []SealedUnderTrueGeneration
<1>1. StreamInv => SealedUnderTrueGeneration
  BY Zenon DEF StreamInv, TxInv
<1> QED BY <1>1, StreamInvariant, PTL

(* What ReceiverKeyManager::unprotect keeps is determined by the set of    *)
(* packets it delivered.                                                   *)
THEOREM StateIsDelivered == Spec => []StateFromDelivered
BY StreamInvariant, DeliveredInvSuffices, PTL

(* Replay protection end to end, for any replay window and any number of   *)
(* sequence number wraps: no key makes libsrtp open a delivered packet.    *)
THEOREM DeliveredIsFinal == Spec => []DeliveredOnce
<1>1. StreamInv => DeliveredOnce
  <2> SUFFICES ASSUME StreamInv, NEW i \in delivered,
                      srtp_unprotect_status(rdbx, Sent(i).key, Sent(i)) = "ok"
               PROVE  FALSE
    BY Zenon DEF DeliveredOnce
  <2>1. TxInv /\ DeliveredInv /\ rdbx \in RdbxTypes /\ rdbx.index \in Nat
    BY Zenon DEF StreamInv, RxInv, RxTypeOK, RdbxTypes
  <2>2. i \in PacketNumbers /\ i <= rdbx.index /\ rdbx.mask = SetBits(delivered, rdbx.index)
    BY <2>1, Zenon DEF DeliveredInv
  <2>3. i \in Nat /\ Sent(i).index = i /\ Sent(i).seq \in Seqs
    BY <2>1, <2>2, SentTyped, Zenon DEF Packets
  <2>4. /\ srtp_rdbx_check(rdbx, srtp_rdbx_estimate_delta(rdbx, Sent(i).seq)) = "ok"
        /\ srtp_rdbx_estimate_index(rdbx, Sent(i).seq) = i
    BY <2>3, Zenon DEF srtp_unprotect_status, Authentic
  <2>5. srtp_rdbx_estimate_delta(rdbx, Sent(i).seq) = i - rdbx.index
    <3>1. /\ srtp_rdbx_estimate_delta(rdbx, Sent(i).seq) \in Int
          /\ i = rdbx.index + srtp_rdbx_estimate_delta(rdbx, Sent(i).seq)
      BY <2>1, <2>3, <2>4, EstimateDelta, Zenon
    <3> QED BY <2>1, <2>3, <3>1
  <2>6. rdbx.index - i \in 0 .. ReplayWindow - 1 /\ rdbx.index - i \notin rdbx.mask
    BY <2>1, <2>2, <2>3, <2>4, <2>5, ReplayWindowAssumption, HalfFacts DEF srtp_rdbx_check
  <2>7. rdbx.index - (rdbx.index - i) = i
    BY <2>1, <2>3
  <2> QED BY <2>2, <2>6, <2>7, Zenon DEF SetBits
<1> QED BY <1>1, StreamInvariant, PTL

-----------------------------------------------------------------------------
(***************************************************************************)
(* No genuine packet is lost to keying.                                    *)
(***************************************************************************)

(* Packets of less than K generations apart are less than K generations'   *)
(* packets apart.                                                          *)
LEMMA GenerationSpan ==
  ASSUME NEW i \in Nat, NEW top \in Nat, top < MaxPackets,
         TrueGeneration(top) - TrueGeneration(i) < K
  PROVE  top - i < K * PacketsPerGeneration
<1>1. /\ PacketsPerFrame \in Nat \ {0} /\ N \in Nat \ {0} /\ K \in Nat \ {0}
      /\ MaxPackets \in Nat
  BY SenderAssumption, SchemeAssumption, WindowAssumption
<1>2. ASSUME NEW m \in Nat \ {0}, (top \div m) - (i \div m) < K
      PROVE  top - i < K * m
  <2> DEFINE a == i \div m
             b == top \div m
  <2>1. /\ a \in Int /\ m * a <= i /\ b \in Int /\ top < m * b + m
    BY Quotient
  <2>2. b < a + K
    BY <1>1, <1>2, <2>1
  <2> HIDE DEF a, b
  <2>3. m * b + m <= m * (a + K)
    BY <1>1, <2>1, <2>2, NextMultiple
  <2>4. m * (a + K) = m * a + K * m
    BY <1>1, <2>1
  <2>5. m * a \in Int /\ m * b \in Int /\ K * m \in Int
    BY <1>1, <2>1
  <2> QED BY <2>1, <2>3, <2>4, <2>5
<1>3. CASE Scheme = "EpochOnly"
  <2>1. K * MaxPackets >= MaxPackets
    BY <1>1
  <2>2. PacketsPerGeneration = MaxPackets
    BY <1>3, Zenon DEF PacketsPerGeneration
  <2> QED BY <1>1, <2>1, <2>2
<1>4. CASE Scheme = "Frame"
  BY <1>1, <1>2, <1>4, Zenon DEF PacketsPerGeneration, TrueGeneration
<1>5. CASE Scheme = "Packet"
  <2>1. PacketsPerGeneration = 1 /\ TrueGeneration(top) = top /\ TrueGeneration(i) = i
    BY <1>5, Zenon DEF PacketsPerGeneration, TrueGeneration
  <2> QED BY <1>1, <2>1
<1>6. CASE Scheme = "EveryN"
  BY <1>1, <1>2, <1>6, Zenon DEF PacketsPerGeneration, TrueGeneration
<1> QED BY <1>3, <1>4, <1>5, <1>6, SchemeAssumption

(* A packet within reach is estimated at its own index, its generation has *)
(* a key, and the replay database has room for it.                         *)
LEMMA WithinReachFacts ==
  ASSUME StreamInv, NEW i \in PacketNumbers \ delivered, WithinReach(i)
  PROVE  /\ srtp_rdbx_estimate_index(rdbx, Sent(i).seq) = i
         /\ srtp_rdbx_check(rdbx, i - rdbx.index) = "ok"
         /\ frontier - TrueGeneration(i) < K
         /\ TrueGeneration(i) - frontier <= SeekCap
<1>1. /\ TxInv /\ RxInv /\ DeliveredInv /\ rdbx \in RdbxTypes /\ rdbx.index \in Nat
      /\ rdbx.mask \subseteq 0 .. ReplayWindow - 1
  BY Zenon DEF StreamInv, RxInv, RxTypeOK, RdbxTypes
<1>2. /\ i \in Nat /\ TrueGeneration(i) \in Nat
      /\ Sent(i).seq = Low(i) /\ Low(i) = i % SeqMod
  BY <1>1, SentTyped, GenerationsGrow, Zenon DEF sequence, Low
<1>3. /\ SeqMod \in Nat \ {0} /\ Half \in Nat /\ SeqMod = 2 * Half /\ Half > 0
      /\ ReplayWindow \in Nat \ {0} /\ ReplayWindow < Half
      /\ K \in Nat \ {0} /\ SeekCap \in Nat
  BY HalfFacts, ReplayWindowAssumption, WindowAssumption
<1>4. CASE delivered = {}
  <2>1. /\ frontier = -1 /\ rdbx.index = 0 /\ rdbx.mask = {}
        /\ TrueGeneration(i) < SeekCap /\ i < SeqMod
    BY <1>1, <1>4 DEF DeliveredInv, WithinReach, srtp_rdbx_init, None
  <2>2. Low(i) = i
    BY <1>2, <2>1, RocLow
  <2>3. srtp_rdbx_estimate_index(rdbx, Low(i)) = i
    BY <1>3, <2>1, <2>2 DEF srtp_rdbx_estimate_index
  <2>4. srtp_rdbx_check(rdbx, i - rdbx.index) = "ok"
    BY <1>2, <1>3, <2>1 DEF srtp_rdbx_check
  <2> QED BY <1>2, <1>3, <2>1, <2>3, <2>4
<1>5. CASE delivered # {}
  <2> DEFINE top == rdbx.index
  <2>1. /\ top \in delivered /\ top \in PacketNumbers
        /\ frontier = TrueGeneration(top) /\ rdbx.mask = SetBits(delivered, top)
        /\ top \in Nat /\ top < MaxPackets
    BY <1>1, <1>5, SentTyped, Zenon DEF DeliveredInv
  <2>2. MaxOf(delivered) = top
    BY <1>5, DeliveredInvSuffices, Zenon DEF StateFromDelivered
  <2> HIDE DEF top
  <2>3. /\ TrueGeneration(i) - TrueGeneration(top) <= SeekCap
        /\ TrueGeneration(top) - TrueGeneration(i) < K
        /\ top - i < Half /\ i - top < Half
        /\ top - i < ReplayWindow \/ ReplayWindow >= K * PacketsPerGeneration
    BY <1>5, <2>2, Zenon DEF WithinReach
  <2>4. srtp_rdbx_estimate_index(rdbx, Low(i)) = i
    BY <1>1, <1>2, <2>3, NearIsExact, Zenon DEF top
  <2>5. top - i < ReplayWindow
    <3>1. top - i < K * PacketsPerGeneration
      BY <1>2, <2>1, <2>3, GenerationSpan, Zenon
    <3>2. PacketsPerGeneration \in Nat
      BY SenderAssumption, SchemeAssumption DEF PacketsPerGeneration
    <3>3. K * PacketsPerGeneration \in Nat
      BY <1>3, <3>2
    <3> QED BY <1>2, <1>3, <2>1, <2>3, <3>1, <3>3
  <2>6. srtp_rdbx_check(rdbx, i - top) = "ok"
    <3>1. top - i \notin rdbx.mask
      <4>1. top - (top - i) = i
        BY <1>2, <2>1
      <4> QED BY <2>1, <4>1, Zenon DEF SetBits
    <3>2. -(i - top) = top - i /\ (ReplayWindow - 1) + (i - top) >= 0
      BY <1>2, <1>3, <2>1, <2>5
    <3>3. ~((ReplayWindow - 1) + (i - top) < 0)
      BY <1>2, <1>3, <2>1, <3>2
    <3> QED BY <3>1, <3>2, <3>3, Zenon DEF srtp_rdbx_check
  <2> QED BY <1>2, <2>1, <2>3, <2>4, <2>6, Zenon DEF top
<1> QED BY <1>4, <1>5, Zenon

(* The delivery of packets within reach, as a property of the steps: what  *)
(* NoFalseDrop says of a packet that can arrive, said of one that does.    *)
ReachableIsDelivered ==
  [][\A i \in PacketNumbers \ delivered :
       WithinReach(i) /\ unprotect(Sent(i)) => result' = Ok(TrueGeneration(i))]_vars

(* Damaged, duplicated and reordered packets, and the keys they made the   *)
(* receiver install, never cost a genuine packet that the key window, the  *)
(* seek cap and the replay window admit, for every scheme and every size   *)
(* of the three.                                                           *)
THEOREM ReachablePacketsAreDelivered ==
  ASSUME EpochFits
  PROVE  Spec => ReachableIsDelivered
<1>1. StreamInv =>
        \A i \in PacketNumbers \ delivered :
          WithinReach(i) /\ unprotect(Sent(i)) => result' = Ok(TrueGeneration(i))
  <2> SUFFICES ASSUME StreamInv, NEW i \in PacketNumbers \ delivered,
                      WithinReach(i), unprotect(Sent(i))
               PROVE  result' = Ok(TrueGeneration(i))
    BY Zenon
  <2>1. TxInv /\ RxInv /\ Genuine(Sent(i), i)
    BY SentGenuine, Zenon DEF StreamInv
  <2> QED BY <2>1, WithinReachFacts, ExactArrival, Zenon
<1> QED BY <1>1, StreamInvariant, PTL DEF ReachableIsDelivered

(* No call of unprotect delivers a packet that was delivered before.       *)
NoSecondDelivery ==
  [][\A i \in PacketNumbers :
       unprotect(Sent(i)) /\ result'.status = "Ok" => i \notin delivered]_vars

(* Replay protection as a property of the steps: no call of unprotect,     *)
(* whatever key it installs, returns Ok for a packet delivered before.     *)
THEOREM NoPacketTwice == Spec => NoSecondDelivery
<1>1. StreamInv => \A i \in PacketNumbers :
                     unprotect(Sent(i)) /\ result'.status = "Ok" => i \notin delivered
  BY DeliverySound, Zenon
<1> QED BY <1>1, StreamInvariant, PTL DEF NoSecondDelivery
=============================================================================
