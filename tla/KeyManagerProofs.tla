-------------------------- MODULE KeyManagerProofs --------------------------
(***************************************************************************)
(* The inductive invariants of the two key managers.  The receiver's       *)
(* (ReceiverKeyManager) is kept by unprotect for every ring size, seek     *)
(* cap, replay window, sequence space, scheme and packet.  The sender's    *)
(* (RekeyingStream) is kept by next_protected for every scheme, sequence   *)
(* and timestamp space and number of packets: each packet is sealed under  *)
(* the key of its generation and at its position.                          *)
(***************************************************************************)
EXTENDS RecvStats, RekeyingStream, RdbxProofs

(* The steps late in a long module need more than the provers' default time. *)
USE SMTT(60)

(* A packet that is not before the epoch has a generation.                 *)
LEMMA GenerationType ==
  ASSUME NEW h \in Nat \cup {None}, NEW p \in Packets, ~BeforeEpoch(h, p.seq)
  PROVE  generation(h, p) \in Nat
<1>1. recover(h, p.seq) \in Nat
  BY RecoverType DEF Packets
<1>2. ByIndex => recover(h, p.seq) - Base \in Nat
  BY <1>1, SchemeAssumption DEF BeforeEpoch
<1>3. ByIndex => (recover(h, p.seq) - Base) \div N \in Nat
  BY <1>2, SchemeAssumption
<1>4. frame_generation(p.ts) \in Nat
  <2>1. p.ts - EpochStartTs \in Int
    BY SchemeAssumption DEF Packets, Timestamps
  <2>2. (p.ts - EpochStartTs) % TsMod \in Nat
    BY <2>1, DivMod, SchemeAssumption
  <2> QED BY <2>2, SchemeAssumption DEF frame_generation
<1> QED BY <1>2, <1>3, <1>4, SchemeAssumption DEF generation, ByIndex

-----------------------------------------------------------------------------
(***************************************************************************)
(* The inductive invariant.  RingHoldsWindow alone is not inductive: a     *)
(* catch-up overwrites only some slots, so that the others still hold      *)
(* generations of the window depends on the ratchet standing right after   *)
(* the frontier; and ForwardSecrecy needs to know that every slot a        *)
(* catch-up leaves alone holds nothing older than the new window.          *)
(***************************************************************************)
RatchetAtFrontier ==
  ratchet.generation = frontier + 1 /\ ratchet.chain_secret = frontier + 1

RingRecent ==
  \A s \in Slots :
    \/ ring[s] = Empty
    \/ \E g \in Nat : /\ ring[s] = Entry(g, g)
                      /\ g <= frontier
                      /\ frontier - g < K
                      /\ g % K = s

CipherRecent == installed # None => frontier - installed < K

IndexInSync ==
  ByIndex => IF highest = None THEN rdbx.index = 0 ELSE highest = rdbx.index

RxInv ==
  /\ RxTypeOK
  /\ RatchetAtFrontier
  /\ RingHoldsWindow
  /\ RingRecent
  /\ CipherMatchesInstalled
  /\ CipherRecent
  /\ IndexInSync

(* A new receiver satisfies the invariant.                                 *)
LEMMA InitRxInv == RxInit => RxInv
<1> SUFFICES ASSUME RxInit PROVE RxInv
  OBVIOUS
<1> USE DEF RxInit
<1>1. RxTypeOK
  BY DEF RxTypeOK, from_seed, Ratchets, Empty, Entry, None, srtp_rdbx_init, RdbxTypes,
         Err, Results, Statuses
<1>2. RatchetAtFrontier /\ RingHoldsWindow /\ RingRecent
  BY DEF RatchetAtFrontier, RingHoldsWindow, RingRecent, from_seed, None
<1>3. CipherMatchesInstalled /\ CipherRecent /\ IndexInSync
  BY DEF CipherMatchesInstalled, CipherRecent, IndexInSync, srtp_rdbx_init
<1> QED BY <1>1, <1>2, <1>3 DEF RxInv

(* The receiver is not concerned by what others do.                        *)
LEMMA RxUnchanged ==
  ASSUME RxInv, UNCHANGED rxVars
  PROVE  RxInv'
BY DEF RxInv, rxVars, RxTypeOK, RatchetAtFrontier, RingHoldsWindow, RingRecent,
       CipherMatchesInstalled, CipherRecent, IndexInSync

(* Arithmetic facts about the window, from the invariant's types.          *)
LEMMA WindowFacts ==
  ASSUME RxTypeOK
  PROVE  K \in Nat \ {0} /\ SeekCap \in Nat /\ frontier \in Int /\ frontier >= -1
BY WindowAssumption DEF RxTypeOK, None

(* A generation ahead of the frontier is at most SeekCap ahead of it.      *)
LEMMA AheadFacts ==
  ASSUME RxTypeOK, NEW g \in Nat, Ahead(g)
  PROVE  g > frontier /\ g - frontier <= SeekCap
BY WindowFacts DEF RxTypeOK, Ahead, Derived, TooFar, jump, None

(* The catch-up to g computes each generation's own key.                   *)
LEMMA CatchupKey ==
  ASSUME RxTypeOK, RatchetAtFrontier, NEW g \in Int
  PROVE  key_salt_of(ratchet, g) = g
BY WindowFacts DEF RatchetAtFrontier, key_salt_of

(* A slot that the catch-up to g derives a generation for holds that       *)
(* generation after the fold; every other slot is left alone.              *)
LEMMA FoldedSlot ==
  ASSUME RxInv, NEW g \in Nat, Ahead(g), NEW s \in Slots
  PROVE  /\ \A h \in Nat : /\ h > frontier /\ h <= g /\ g - h < K /\ h % K = s
                           => Folded(g)[s] = Entry(h, h)
         /\ \/ Folded(g)[s] = ring[s] /\ \A h \in Nat : h > frontier /\ h <= g /\ g - h < K => h % K # s
            \/ \E h \in Nat : /\ h > frontier /\ h <= g /\ g - h < K /\ h % K = s
                              /\ Folded(g)[s] = Entry(h, h)
<1> DEFINE new == {gg \in derived(g) : gg % K = s}
<1>1. K \in Nat \ {0} /\ frontier \in Int /\ frontier >= -1 /\ RxTypeOK /\ RatchetAtFrontier
  BY WindowFacts DEF RxInv
<1>2. \A h : h \in new <=> h \in Nat /\ h > frontier /\ h <= g /\ g - h < K /\ h % K = s
  BY <1>1 DEF derived, RatchetAtFrontier
<1>3. \A h, hh \in new : h = hh
  <2>1. SUFFICES ASSUME NEW h \in new, NEW hh \in new, h < hh PROVE FALSE
    BY <1>2
  <2>2. hh - h >= K
    BY <1>1, <1>2, <2>1, ModDistance
  <2> QED BY <1>1, <1>2, <2>1, <2>2
<1>4. Folded(g)[s] = IF new = {} THEN ring[s]
                     ELSE LET gg == CHOOSE gg \in new : \A h \in new : h <= gg
                          IN  Entry(gg, key_salt_of(ratchet, gg))
  BY DEF Folded
<1> HIDE DEF new
<1>5. ASSUME NEW h \in new PROVE Folded(g)[s] = Entry(h, h)
  <2>1. h \in Nat /\ \A x \in new : x <= h
    BY <1>2, <1>3, <1>5
  <2>2. (CHOOSE gg \in new : \A x \in new : x <= gg) = h
    BY <1>3, <1>5, <2>1, Zenon
  <2>3. key_salt_of(ratchet, h) = h
    BY <1>1, <2>1, CatchupKey
  <2> QED BY <1>4, <1>5, <2>2, <2>3, Zenon
<1>6. CASE new = {}
  BY <1>2, <1>4, <1>6
<1>7. CASE new # {}
  BY <1>2, <1>5, <1>7
<1> QED BY <1>2, <1>5, <1>6, <1>7

(* After the fold the ring holds exactly the window that ends at g.        *)
LEMMA FoldedRing ==
  ASSUME RxInv, NEW g \in Nat, Ahead(g)
  PROVE  /\ \A h \in 0 .. g : g - h < K => Folded(g)[h % K] = Entry(h, h)
         /\ \A s \in Slots :
              \/ Folded(g)[s] = Empty
              \/ \E h \in Nat : Folded(g)[s] = Entry(h, h) /\ h <= g /\ g - h < K /\ h % K = s
<1>1. K \in Nat \ {0} /\ frontier \in Int /\ frontier >= -1 /\ g > frontier
  BY WindowFacts, AheadFacts DEF RxInv
<1>2. ASSUME NEW h \in 0 .. g, g - h < K PROVE Folded(g)[h % K] = Entry(h, h)
  <2>1. h % K \in Slots
    BY <1>1, DivMod DEF Slots
  <2>2. CASE h > frontier
    BY <1>1, <1>2, <2>1, <2>2, FoldedSlot
  <2>3. CASE h <= frontier
    <3>1. ring[h % K] = Entry(h, h)
      BY <1>1, <1>2, <2>3 DEF RxInv, RingHoldsWindow, None
    <3>2. \A x \in Nat : x > frontier /\ x <= g /\ g - x < K => x % K # h % K
      <4>1. SUFFICES ASSUME NEW x \in Nat, x > frontier, x <= g, x % K = h % K PROVE FALSE
        OBVIOUS
      <4>2. x \in Int /\ h \in Int /\ h < x
        BY <1>1, <2>3, <4>1
      <4>3. x - h >= K
        BY <1>1, <4>1, <4>2, ModDistance, Zenon
      <4> QED BY <1>1, <1>2, <4>1, <4>2, <4>3
    <3> QED BY <2>1, <3>1, <3>2, FoldedSlot
  <2> QED BY <1>1, <2>2, <2>3
<1>3. ASSUME NEW s \in Slots
      PROVE  \/ Folded(g)[s] = Empty
             \/ \E h \in Nat : Folded(g)[s] = Entry(h, h) /\ h <= g /\ g - h < K /\ h % K = s
  <2>1. CASE \E h \in Nat : /\ h > frontier /\ h <= g /\ g - h < K /\ h % K = s
                            /\ Folded(g)[s] = Entry(h, h)
    BY <2>1
  <2>2. CASE /\ Folded(g)[s] = ring[s]
             /\ \A h \in Nat : h > frontier /\ h <= g /\ g - h < K => h % K # s
    <3>1. CASE ring[s] = Empty
      BY <2>2, <3>1
    <3>2. CASE \E h \in Nat : /\ ring[s] = Entry(h, h) /\ h <= frontier
                              /\ frontier - h < K /\ h % K = s
      <4>1. PICK h \in Nat : /\ ring[s] = Entry(h, h) /\ h <= frontier
                             /\ frontier - h < K /\ h % K = s
        BY <3>2
      <4>2. PICK y \in Int : y <= g /\ g - y < K /\ y % K = s
        <5>1. g \in Int /\ s \in 0 .. K - 1
          BY DEF Slots
        <5> QED BY <1>1, <5>1, ResidueExists, Zenon
      <4>3. ~(y > frontier)
        <5>1. y > frontier => y \in Nat
          BY <1>1, <4>2
        <5> QED BY <1>1, <2>2, <4>2, <5>1, Zenon
      <4>4. y <= h
        <5>1. SUFFICES ASSUME h < y PROVE FALSE
          BY <4>1, <4>2
        <5>2. y - h >= K
          <6>1. h \in Int /\ h % K = y % K
            BY <4>1, <4>2
          <6> QED BY <1>1, <4>2, <5>1, <6>1, ModDistance, Zenon
        <5> QED BY <1>1, <4>1, <4>2, <4>3, <5>2
      <4>5. h <= g /\ g - h < K
        BY <1>1, <4>1, <4>2, <4>4
      <4> QED BY <2>2, <4>1, <4>5
    <3> QED BY <3>1, <3>2 DEF RxInv, RingRecent
  <2> QED BY <2>1, <2>2, FoldedSlot
<1> QED BY <1>2, <1>3

-----------------------------------------------------------------------------
(***************************************************************************)
(* The steps of unprotect.                                                 *)
(***************************************************************************)

(* Loading generation g's own key keeps the cipher and its tag together.   *)
LEMMA LoadKeepsMatch ==
  ASSUME RxInv, NEW g \in Nat, Load(g, g)
  PROVE  installed' = g /\ cipher' = g
BY DEF RxInv, CipherMatchesInstalled, Load, Install

(* A delivered packet moves the two index references together.             *)
LEMMA DeliverKeepsSync ==
  ASSUME RxInv, NEW p \in Packets, NEW g \in Nat, NEW key,
         Accepted(p, g, key), Deliver(p, g)
  PROVE  /\ rdbx' \in RdbxTypes
         /\ highest' \in Nat \cup {None}
         /\ result' \in Results
         /\ IndexInSync'
<1> DEFINE est == srtp_rdbx_estimate_index(rdbx, p.seq)
<1>1. rdbx \in RdbxTypes /\ highest \in Nat \cup {None} /\ p.seq \in Seqs
  BY DEF RxInv, RxTypeOK, Packets
<1>2. srtp_rdbx_check(rdbx, srtp_rdbx_estimate_delta(rdbx, p.seq)) = "ok"
  BY DEF Accepted, srtp_unprotect_status
<1>3. rdbx' \in RdbxTypes /\ rdbx'.index = IF est > rdbx.index THEN est ELSE rdbx.index
  BY <1>1, <1>2, AddedIndex DEF Deliver
<1>4. recover(highest, p.seq) \in Nat
  BY <1>1, RecoverType
<1>5. highest' \in Nat \cup {None}
  BY <1>1, <1>4 DEF Deliver, update
<1>6. result' \in Results
  BY DEF Deliver, Ok, Results, Statuses
<1>7. IndexInSync'
  <2>1. SUFFICES ASSUME ByIndex PROVE highest' # None /\ highest' = rdbx'.index
    BY DEF IndexInSync
  <2>2. IF highest = None THEN rdbx.index = 0 ELSE highest = rdbx.index
    BY <2>1 DEF RxInv, IndexInSync
  <2>3. recover(highest, p.seq) = est
    BY <1>1, <2>2, RecoverIsEstimate
  <2>4. highest' = IF highest = None \/ est > highest THEN est ELSE highest
    BY <2>1, <2>3 DEF Deliver, update
  <2>5. est \in Nat /\ rdbx.index \in Nat
    BY <1>1, <1>4, <2>3 DEF RdbxTypes
  <2> HIDE DEF est
  <2> QED BY <1>1, <1>3, <2>2, <2>4, <2>5 DEF None
<1> QED BY <1>3, <1>5, <1>6, <1>7

(* The rejecting paths return a drop reason.                               *)
LEMMA RejectResult ==
  ASSUME NEW p, NEW g, NEW key, Reject(p, g, key)
  PROVE  result' \in Results /\ result'.status # "Ok"
BY DEF Reject, SrtpError, Err, Results, Statuses

(* A packet dropped before the cipher is touched changes nothing else.     *)
LEMMA DropKeepsInv ==
  ASSUME RxInv, NEW status \in Statuses, Drop(status)
  PROVE  RxInv'
<1> USE DEF RxInv, Drop, window
<1>1. RxTypeOK'
  BY DEF RxTypeOK, Err, Results
<1>2. (RatchetAtFrontier /\ RingHoldsWindow /\ RingRecent)'
  BY DEF RatchetAtFrontier, RingHoldsWindow, RingRecent
<1>3. (CipherMatchesInstalled /\ CipherRecent /\ IndexInSync)'
  BY DEF CipherMatchesInstalled, CipherRecent, IndexInSync
<1> QED BY <1>1, <1>2, <1>3

(* A rejected packet may leave its generation's key in the cipher, which   *)
(* is never older than the window.                                         *)
LEMMA RejectKeepsInv ==
  ASSUME RxInv, NEW p, NEW g \in Nat, frontier - g < K, Load(g, g), Reject(p, g, g)
  PROVE  RxInv'
<1> USE DEF RxInv
<1>1. installed' = g /\ cipher' = g
  BY LoadKeepsMatch
<1>2. UNCHANGED <<ratchet, ring, frontier, highest, rdbx>> /\ result' \in Results
  BY RejectResult DEF Reject, window
<1>3. RxTypeOK'
  BY <1>1, <1>2 DEF RxTypeOK
<1>4. (RatchetAtFrontier /\ RingHoldsWindow /\ RingRecent)'
  BY <1>2 DEF RatchetAtFrontier, RingHoldsWindow, RingRecent
<1>5. (CipherMatchesInstalled /\ CipherRecent /\ IndexInSync)'
  BY <1>1, <1>2 DEF CipherMatchesInstalled, CipherRecent, IndexInSync
<1> QED BY <1>3, <1>4, <1>5

(* A packet of a generation in the window.                                 *)
LEMMA InWindowKeepsInv ==
  ASSUME RxInv, NEW p \in Packets, NEW g \in Nat, OpenInWindow(p, g)
  PROVE  RxInv'
<1>1. K \in Nat \ {0} /\ frontier \in Int /\ frontier >= -1
  BY WindowFacts DEF RxInv
<1>2. frontier # None /\ g <= frontier /\ frontier - g < K
  BY <1>1 DEF OpenInWindow, InWindow, Derived, TooOld
<1>3. ring[g % K].key = g
  <2>1. g \in 0 .. frontier
    BY <1>1, <1>2
  <2>2. ring[g % K] = Entry(g, g)
    BY <1>2, <2>1 DEF RxInv, RingHoldsWindow
  <2> QED BY <2>2 DEF Entry
<1>4. Load(g, g)
  BY <1>3 DEF OpenInWindow
<1>5. CASE Reject(p, g, ring[g % K].key)
  BY <1>2, <1>3, <1>4, <1>5, RejectKeepsInv
<1>6. CASE Accepted(p, g, ring[g % K].key) /\ Deliver(p, g) /\ UNCHANGED window
  <2>1. installed' = g /\ cipher' = g
    BY <1>4, LoadKeepsMatch
  <2>2. UNCHANGED <<ratchet, ring, frontier>>
    BY <1>6 DEF window
  <2>3. /\ rdbx' \in RdbxTypes /\ highest' \in Nat \cup {None}
        /\ result' \in Results /\ IndexInSync'
    BY <1>6, DeliverKeepsSync
  <2>4. RxTypeOK'
    BY <2>1, <2>2, <2>3 DEF RxInv, RxTypeOK
  <2>5. (RatchetAtFrontier /\ RingHoldsWindow /\ RingRecent)'
    BY <2>2 DEF RxInv, RatchetAtFrontier, RingHoldsWindow, RingRecent
  <2>6. (CipherMatchesInstalled /\ CipherRecent)'
    BY <1>2, <2>1, <2>2 DEF CipherMatchesInstalled, CipherRecent
  <2> QED BY <2>3, <2>4, <2>5, <2>6 DEF RxInv
<1> QED BY <1>5, <1>6 DEF OpenInWindow

(* A packet of a generation ahead of the window.                           *)
LEMMA AheadKeepsInv ==
  ASSUME RxInv, NEW p \in Packets, NEW g \in Nat, OpenAhead(p, g)
  PROVE  RxInv'
<1>1. K \in Nat \ {0} /\ frontier \in Int /\ frontier >= -1
  BY WindowFacts DEF RxInv
<1>2. Ahead(g) /\ g > frontier
  BY AheadFacts DEF RxInv, OpenAhead
<1>3. key_salt_of(ratchet, g) = g
  BY CatchupKey DEF RxInv
<1>4. Load(g, g)
  BY <1>3 DEF OpenAhead
<1>5. CASE Reject(p, g, key_salt_of(ratchet, g))
  BY <1>1, <1>2, <1>3, <1>4, <1>5, RejectKeepsInv
<1>6. CASE Accepted(p, g, key_salt_of(ratchet, g)) /\ Deliver(p, g) /\ Adopt(g)
  <2>1. installed' = g /\ cipher' = g
    BY <1>4, LoadKeepsMatch
  <2>2. /\ rdbx' \in RdbxTypes /\ highest' \in Nat \cup {None}
        /\ result' \in Results /\ IndexInSync'
    BY <1>6, DeliverKeepsSync
  <2>3. frontier' = g /\ ring' = Folded(g)
    BY <1>6 DEF Adopt
  <2>4. RatchetAtFrontier' /\ ratchet' \in Ratchets
    BY <1>1, <1>2, <1>6 DEF Adopt, advance_by, RxInv, RatchetAtFrontier, Ratchets
  <2>5. RingHoldsWindow'
    BY <1>2, <2>3, FoldedRing DEF RingHoldsWindow
  <2>6. RingRecent'
    BY <1>2, <2>3, FoldedRing DEF RingRecent
  <2>7. ring' \in [Slots -> [gen : Nat \cup {None}, key : Nat \cup {None}]]
    <3>1. ring' = [s \in Slots |-> ring'[s]]
      BY <2>3 DEF Folded
    <3>2. ASSUME NEW s \in Slots
          PROVE  ring'[s] \in [gen : Nat \cup {None}, key : Nat \cup {None}]
      <4>1. ring'[s] = Entry(None, None) \/ \E h \in Nat : ring'[s] = Entry(h, h)
        BY <2>6 DEF RingRecent, Empty
      <4>2. \A h \in Nat \cup {None} :
              Entry(h, h) \in [gen : Nat \cup {None}, key : Nat \cup {None}]
        BY DEF Entry
      <4> QED BY <4>1, <4>2, Zenon
    <3> QED BY <3>1, <3>2
  <2>8. RxTypeOK'
    BY <2>1, <2>2, <2>3, <2>4, <2>7 DEF RxTypeOK
  <2>9. (CipherMatchesInstalled /\ CipherRecent)'
    BY <1>1, <2>1, <2>3 DEF CipherMatchesInstalled, CipherRecent
  <2> QED BY <2>2, <2>4, <2>5, <2>6, <2>8, <2>9 DEF RxInv
<1> QED BY <1>5, <1>6 DEF OpenAhead

(* Whatever packet arrives, unprotect keeps the invariant.                 *)
LEMMA UnprotectKeepsInv ==
  ASSUME RxInv, NEW p \in Packets, unprotect(p)
  PROVE  RxInv'
<1>1. CASE DropBeforeEpoch(p)
  BY <1>1, DropKeepsInv DEF DropBeforeEpoch, Statuses
<1>2. CASE /\ ~BeforeEpoch(highest, p.seq)
           /\ LET g == generation(highest, p)
              IN  \/ DropBehind(p, g) \/ DropSeekCap(p, g)
                  \/ OpenInWindow(p, g) \/ OpenAhead(p, g)
  <2> DEFINE g == generation(highest, p)
  <2>1. g \in Nat
    BY <1>2, GenerationType DEF RxInv, RxTypeOK
  <2> HIDE DEF g
  <2>2. CASE DropBehind(p, g)
    BY <2>2, DropKeepsInv DEF DropBehind, Statuses
  <2>3. CASE DropSeekCap(p, g)
    BY <2>3, DropKeepsInv DEF DropSeekCap, Statuses
  <2>4. CASE OpenInWindow(p, g)
    BY <2>1, <2>4, InWindowKeepsInv
  <2>5. CASE OpenAhead(p, g)
    BY <2>1, <2>5, AheadKeepsInv
  <2> QED BY <1>2, <2>2, <2>3, <2>4, <2>5 DEF g
<1> QED BY <1>1, <1>2 DEF unprotect

(* What unprotect does when it does not deliver the packet: the state that *)
(* packets are judged by stays.                                            *)
LEMMA UndeliveredKeeps ==
  ASSUME NEW p, unprotect(p), result'.status # "Ok"
  PROVE  UNCHANGED <<window, highest, rdbx>>
<1>1. ASSUME NEW status, Drop(status) PROVE UNCHANGED <<window, highest, rdbx>>
  BY <1>1 DEF Drop
<1>2. ASSUME NEW g, Deliver(p, g) PROVE FALSE
  BY <1>2 DEF Deliver, Ok
<1>3. ASSUME NEW g, OpenInWindow(p, g) \/ OpenAhead(p, g)
      PROVE  UNCHANGED <<window, highest, rdbx>>
  BY <1>2, <1>3 DEF OpenInWindow, OpenAhead, Reject
<1> QED BY <1>1, <1>3 DEF unprotect, DropBeforeEpoch, DropBehind, DropSeekCap

(* What it does when it delivers it: the packet authenticated under the    *)
(* key of the generation its header maps to, and the frontier follows.     *)
LEMMA DeliveredEffect ==
  ASSUME RxInv, NEW p \in Packets, unprotect(p), result'.status = "Ok"
  PROVE  LET g == generation(highest, p)
         IN  /\ g \in Nat /\ p.key = g /\ p.intact
             /\ p.index = srtp_rdbx_estimate_index(rdbx, p.seq)
             /\ srtp_rdbx_check(rdbx, srtp_rdbx_estimate_delta(rdbx, p.seq)) = "ok"
             /\ Deliver(p, g)
             /\ frontier' = IF g > frontier THEN g ELSE frontier
<1> DEFINE g == generation(highest, p)
<1>1. K \in Nat \ {0} /\ frontier \in Int /\ frontier >= -1
  BY WindowFacts DEF RxInv
<1>2. ~DropBeforeEpoch(p) /\ ~DropBehind(p, g) /\ ~DropSeekCap(p, g)
  BY DEF DropBeforeEpoch, DropBehind, DropSeekCap, Drop, Err
<1>3. ~BeforeEpoch(highest, p.seq) /\ (OpenInWindow(p, g) \/ OpenAhead(p, g))
  BY <1>2 DEF unprotect
<1>4. g \in Nat
  BY <1>3, GenerationType DEF RxInv, RxTypeOK
<1> HIDE DEF g
<1>5. ASSUME NEW key PROVE ~Reject(p, g, key)
  BY RejectResult
<1>6. Accepted(p, g, g) =>
        /\ p.key = g /\ p.intact
        /\ p.index = srtp_rdbx_estimate_index(rdbx, p.seq)
        /\ srtp_rdbx_check(rdbx, srtp_rdbx_estimate_delta(rdbx, p.seq)) = "ok"
  <2>1. Install(g, g) = g
    BY DEF Install, RxInv, CipherMatchesInstalled
  <2> QED BY <2>1 DEF Accepted, srtp_unprotect_status, Authentic
<1>7. CASE OpenInWindow(p, g)
  <2>1. frontier # None /\ g <= frontier /\ frontier - g < K
    BY <1>1, <1>4, <1>7 DEF OpenInWindow, InWindow, Derived, TooOld
  <2>2. ring[g % K].key = g
    <3>1. g \in 0 .. frontier
      BY <1>1, <1>4, <2>1
    <3>2. ring[g % K] = Entry(g, g)
      BY <2>1, <3>1 DEF RxInv, RingHoldsWindow
    <3> QED BY <3>2 DEF Entry
  <2>3. Accepted(p, g, g) /\ Deliver(p, g) /\ UNCHANGED window
    BY <1>5, <1>7, <2>2 DEF OpenInWindow
  <2> QED BY <1>1, <1>4, <1>6, <2>1, <2>3 DEF window, g
<1>8. CASE OpenAhead(p, g)
  <2>1. key_salt_of(ratchet, g) = g /\ g > frontier
    BY <1>4, <1>8, CatchupKey, AheadFacts DEF RxInv, OpenAhead
  <2>2. Accepted(p, g, g) /\ Deliver(p, g) /\ Adopt(g)
    BY <1>5, <1>8, <2>1 DEF OpenAhead
  <2> QED BY <1>4, <1>6, <2>1, <2>2 DEF Adopt, g
<1> QED BY <1>3, <1>7, <1>8

(***************************************************************************)
(* What a call of unprotect does, as far as the counters see it: the       *)
(* catch-up has at most SeekCap steps, the frontier moves by as many if    *)
(* the packet is delivered and not at all otherwise, and a packet that     *)
(* caused a catch-up is delivered or rejected by libsrtp.                  *)
(***************************************************************************)
CallEffect(p) ==
  /\ Steps(p) \in 0 .. SeekCap
  /\ \/ result'.status = "Ok" /\ frontier' = frontier + Steps(p)
     \/ result'.status \in {"SrtpReplay", "AuthFail"} /\ frontier' = frontier
     \/ /\ result'.status \in {"BehindWindow", "SeekCapExceeded"}
        /\ frontier' = frontier
        /\ Steps(p) = 0

(* libsrtp's errors are reported as a replay or an authentication failure. *)
LEMMA ErrorStatus ==
  ASSUME NEW status
  PROVE  SrtpError(status).status \in {"SrtpReplay", "AuthFail"}
BY Zenon DEF SrtpError, Err

(* Every path of unprotect has that effect.                                *)
LEMMA UnprotectEffect ==
  ASSUME RxInv, NEW p \in Packets, unprotect(p)
  PROVE  CallEffect(p)
<1>1. SeekCap \in Nat /\ frontier \in Int /\ frontier >= -1
  BY WindowFacts, Zenon DEF RxInv
<1>2. CASE DropBeforeEpoch(p)
  <2>1. Steps(p) = 0
    BY <1>2, Zenon DEF DropBeforeEpoch, Steps
  <2> QED BY <1>1, <1>2, <2>1 DEF DropBeforeEpoch, Drop, Err, window, CallEffect
<1>3. CASE /\ ~BeforeEpoch(highest, p.seq)
           /\ LET g == generation(highest, p)
              IN  \/ DropBehind(p, g) \/ DropSeekCap(p, g)
                  \/ OpenInWindow(p, g) \/ OpenAhead(p, g)
  <2> DEFINE g == generation(highest, p)
  <2>1. g \in Nat
    BY <1>3, GenerationType, Zenon DEF RxInv, RxTypeOK
  <2>2. Steps(p) = IF Ahead(g) THEN jump(g) ELSE 0
    BY <1>3, Zenon DEF Steps
  <2> HIDE DEF g
  <2>3. CASE DropBehind(p, g) \/ DropSeekCap(p, g)
    <3>1. ~Ahead(g)
      BY <2>3, Zenon DEF DropBehind, DropSeekCap, Ahead, TooOld
    <3> QED BY <1>1, <2>2, <2>3, <3>1
            DEF DropBehind, DropSeekCap, Drop, Err, window, CallEffect
  <2>4. CASE OpenInWindow(p, g)
    <3>1. Steps(p) = 0
      BY <2>2, <2>4, Zenon DEF OpenInWindow, InWindow, Ahead
    <3>2. CASE Deliver(p, g) /\ UNCHANGED window
      BY <1>1, <3>1, <3>2 DEF Deliver, Ok, window, CallEffect
    <3>3. CASE Reject(p, g, ring[g % K].key)
      BY <1>1, <3>1, <3>3, ErrorStatus DEF Reject, window, CallEffect
    <3> QED BY <2>4, <3>2, <3>3, Zenon DEF OpenInWindow
  <2>5. CASE OpenAhead(p, g)
    <3>1. Steps(p) = g - frontier /\ Steps(p) \in 0 .. SeekCap
      BY <1>1, <2>1, <2>2, <2>5, AheadFacts DEF OpenAhead, jump, None, RxInv
    <3>2. CASE Deliver(p, g) /\ Adopt(g)
      BY <1>1, <2>1, <3>1, <3>2 DEF Deliver, Ok, Adopt, CallEffect
    <3>3. CASE Reject(p, g, key_salt_of(ratchet, g))
      BY <1>1, <3>1, <3>3, ErrorStatus, Zenon DEF Reject, window, CallEffect
    <3> QED BY <2>5, <3>2, <3>3, Zenon DEF OpenAhead
  <2> QED BY <1>3, <2>3, <2>4, <2>5, Zenon DEF g
<1> QED BY <1>2, <1>3, Zenon DEF unprotect

(* The counters after a call of unprotect, one by one.                     *)
LEMMA CountersAfter ==
  ASSUME SeekCap \in Nat, frontier \in Int, stats \in [Counters -> Nat],
         NEW p \in Packets, CallEffect(p), stats' = counted(p, result'.status)
  PROVE  /\ stats' \in [Counters -> Nat]
         /\ stats'["max_catchup"] = larger(stats["max_catchup"], Steps(p))
         /\ stats'["catchup_steps_wasted"] =
              stats["catchup_steps_wasted"] + (IF result'.status = "Ok" THEN 0 ELSE Steps(p))
         /\ \A c \in {"decrypted", "drops_behind", "drops_seek_cap", "drops_replay", "drops_auth"} :
              stats'[c] = stats[c] + One(c = outcome(result'.status))
         /\ Outcomes' = Outcomes + 1
         /\ Rejected' = Rejected + One(result'.status \in {"SrtpReplay", "AuthFail"})
         /\ DerivedOncePerGeneration => DerivedOncePerGeneration'
<1> DEFINE status == result'.status
<1>1. (\A c \in Counters : stats[c] \in Nat) /\ Steps(p) \in Nat
  BY DEF CallEffect
<1>2. status \in {"Ok", "BehindWindow", "SeekCapExceeded", "SrtpReplay", "AuthFail"}
  BY Zenon DEF CallEffect
<1>3. /\ stats'["catchup_steps"] = stats["catchup_steps"] + Steps(p)
      /\ stats'["catchup_steps_wasted"] = stats["catchup_steps_wasted"]
                                           + (IF status = "Ok" THEN 0 ELSE Steps(p))
      /\ stats'["max_catchup"] = larger(stats["max_catchup"], Steps(p))
  BY Zenon DEF counted, Counters
<1>4. \A c \in {"decrypted", "drops_behind", "drops_seek_cap", "drops_replay", "drops_auth"} :
        stats'[c] = stats[c] + One(c = outcome(status))
  BY Zenon DEF counted, Counters
<1>5. stats' \in [Counters -> Nat]
  BY <1>1 DEF counted, One, larger
<1> HIDE DEF status
<1>6. /\ Outcomes' = Outcomes + 1
      /\ Rejected' = Rejected + One(status \in {"SrtpReplay", "AuthFail"})
  BY <1>1, <1>2, <1>4 DEF Outcomes, Rejected, outcome, One, Counters
<1>7. ASSUME DerivedOncePerGeneration PROVE DerivedOncePerGeneration'
  BY <1>1, <1>3, <1>7 DEF DerivedOncePerGeneration, CallEffect, Counters, status
<1> QED BY <1>3, <1>4, <1>5, <1>6, <1>7, Zenon DEF status

-----------------------------------------------------------------------------
(***************************************************************************)
(* The generations of consecutive packets.                                 *)
(***************************************************************************)

(* The quotient grows by one exactly at the multiples of m.                *)
LEMMA NextQuotient ==
  ASSUME NEW m \in Nat \ {0}, NEW n \in Nat \ {0}
  PROVE  n \div m = IF n % m = 0 THEN ((n - 1) \div m) + 1 ELSE (n - 1) \div m
<1> DEFINE q == n \div m
           r == n % m
<1>1. q \in Int /\ r \in 0 .. m - 1 /\ n = m * q + r
  BY DivMod
<1> HIDE DEF q, r
<1>2. CASE r = 0
  <2>1. m * (q - 1) + (m - 1) = n - 1
    BY <1>1, <1>2
  <2>2. m - 1 \in 0 .. m - 1 /\ q - 1 \in Int
    BY <1>1
  <2>3. (m * (q - 1) + (m - 1)) \div m = q - 1
    BY <2>2, DivModUnique
  <2>4. (n - 1) \div m = q - 1
    BY <2>1, <2>3
  <2> QED BY <1>1, <1>2, <2>4 DEF q, r
<1>3. CASE r # 0
  <2>1. m * q + (r - 1) = n - 1 /\ r - 1 \in 0 .. m - 1
    BY <1>1, <1>3
  <2>2. (m * q + (r - 1)) \div m = q
    BY <1>1, <2>1, DivModUnique
  <2>3. (n - 1) \div m = q
    BY <2>1, <2>2
  <2> QED BY <1>3, <2>3 DEF q, r
<1> QED BY <1>2, <1>3

(* StreamModel::timestamp changes exactly at the first packet of a frame,  *)
(* wraps included, because a frame is shorter than the timestamp space.    *)
LEMMA TimestampSteps ==
  ASSUME NEW n \in Nat \ {0}, Scheme = "Frame"
  PROVE  timestamp(n) # timestamp(n - 1) <=> n % PacketsPerFrame = 0
<1> DEFINE q == (n - 1) \div PacketsPerFrame
<1>1. /\ PacketsPerFrame \in Nat \ {0} /\ FramePeriod \in Nat \ {0} /\ TsMod \in Nat \ {0}
      /\ FramePeriod < TsMod /\ EpochStartTs \in Nat /\ n - 1 \in Int
  BY SenderAssumption, SchemeAssumption
<1>2. q \in Int
  BY <1>1, DivMod
<1>3. n \div PacketsPerFrame = IF n % PacketsPerFrame = 0 THEN q + 1 ELSE q
  BY <1>1, NextQuotient, Zenon
<1>4. timestamp(n - 1) = (EpochStartTs + q * FramePeriod) % TsMod
  BY DEF timestamp
<1> HIDE DEF q
<1>5. CASE n % PacketsPerFrame = 0
  <2> DEFINE x == EpochStartTs + q * FramePeriod
             y == EpochStartTs + (q + 1) * FramePeriod
  <2>1. x \in Int /\ y \in Int /\ y = x + FramePeriod
    BY <1>1, <1>2
  <2>2. timestamp(n) = y % TsMod
    BY <1>3, <1>5 DEF timestamp
  <2> HIDE DEF x, y
  <2>3. x % TsMod # y % TsMod
    <3>1. SUFFICES ASSUME x % TsMod = y % TsMod PROVE FALSE
      OBVIOUS
    <3>2. x < y
      BY <1>1, <2>1
    <3>3. y - x >= TsMod
      BY <1>1, <2>1, <3>1, <3>2, ModDistance, Zenon
    <3> QED BY <1>1, <2>1, <3>3
  <2> QED BY <1>4, <1>5, <2>2, <2>3 DEF x
<1>6. CASE n % PacketsPerFrame # 0
  BY <1>3, <1>4, <1>6 DEF timestamp
<1> QED BY <1>5, <1>6

(* A packet's generation is a natural number and never smaller than an     *)
(* earlier packet's.                                                       *)
LEMMA GenerationsGrow ==
  ASSUME NEW i \in Nat
  PROVE  /\ TrueGeneration(i) \in Nat
         /\ \A j \in Nat : i <= j => TrueGeneration(i) <= TrueGeneration(j)
<1>1. PacketsPerFrame \in Nat \ {0} /\ N \in Nat \ {0}
  BY SenderAssumption, SchemeAssumption
<1>2. ASSUME NEW m \in Nat \ {0}
      PROVE  /\ i \div m \in Nat
             /\ \A j \in Nat : i <= j => i \div m <= j \div m
  <2>1. i \div m \in Nat
    OBVIOUS
  <2> QED BY <2>1, QuotientMonotone
<1>3. /\ i \div PacketsPerFrame \in Nat
      /\ \A j \in Nat : i <= j => i \div PacketsPerFrame <= j \div PacketsPerFrame
  BY <1>1, <1>2
<1>4. i \div N \in Nat /\ \A j \in Nat : i <= j => i \div N <= j \div N
  BY <1>1, <1>2
<1>5. CASE Scheme = "EpochOnly"
  BY <1>5 DEF TrueGeneration
<1>6. CASE Scheme = "Frame"
  BY <1>3, <1>6 DEF TrueGeneration
<1>7. CASE Scheme = "Packet"
  BY <1>7 DEF TrueGeneration
<1>8. CASE Scheme = "EveryN"
  BY <1>4, <1>8 DEF TrueGeneration
<1> QED BY <1>5, <1>6, <1>7, <1>8, SchemeAssumption

-----------------------------------------------------------------------------
(***************************************************************************)
(* The sender.  advance_for counts boundaries as packets pass, so that the *)
(* invariant relates its counters to the number of packets sent.           *)
(***************************************************************************)
HeadersByNumber ==
  \A i \in PacketNumbers :
    Sent(i).seq = sequence(i) /\ Sent(i).ts = timestamp(i) /\ Sent(i).intact

TxInv ==
  LET n == Len(sent)
  IN  /\ sent \in Seq(Packets)
      /\ packet_count = n
      /\ installed_gen = IF n = 0 THEN 0 ELSE TrueGeneration(n - 1)
      /\ tx_cipher = installed_gen
      /\ tx_ratchet.generation = installed_gen + 1
      /\ tx_ratchet.chain_secret = installed_gen + 1
      /\ last_ts = IF n = 0 THEN None ELSE timestamp(n - 1)
      /\ tx_rdbx \in RdbxTypes
      /\ tx_rdbx.index = IF n = 0 THEN 0 ELSE n - 1
      /\ n <= MaxPackets
      /\ HeadersByNumber
      /\ SealedUnderTrueGeneration

(* A new sender satisfies the invariant.                                   *)
LEMMA TxInitInv == TxInit => TxInv
<1> SUFFICES ASSUME TxInit PROVE TxInv
  OBVIOUS
<1>1. sent = <<>> /\ Len(sent) = 0 /\ sent \in Seq(Packets)
  BY DEF TxInit
<1>2. SealedUnderTrueGeneration /\ HeadersByNumber /\ Len(sent) <= MaxPackets
  BY <1>1, SenderAssumption DEF SealedUnderTrueGeneration, HeadersByNumber, PacketNumbers
<1>3. srtp_rdbx_init \in RdbxTypes /\ srtp_rdbx_init.index = 0
  BY DEF srtp_rdbx_init, RdbxTypes
<1> QED
  BY <1>1, <1>2, <1>3 DEF TxInv, TxInit, from_seed, derive_key_salt, advance

(* The cipher holds the generation of the packet about to be sealed.       *)
LEMMA AdvanceInstallsGeneration ==
  ASSUME TxInv, NEW n \in Nat, n = Len(sent), advance_for(timestamp(n))
  PROVE  /\ tx_cipher' = TrueGeneration(n)
         /\ installed_gen' = TrueGeneration(n)
         /\ tx_ratchet'.generation = TrueGeneration(n) + 1
         /\ tx_ratchet'.chain_secret = TrueGeneration(n) + 1
<1>1. PacketsPerFrame \in Nat \ {0} /\ N \in Nat \ {0}
  BY SenderAssumption, SchemeAssumption
<1>2. packet_count = n
  BY DEF TxInv
<1>3. CASE n = 0
  <2>1. TrueGeneration(0) = 0
    <3>1. ASSUME NEW m \in Nat \ {0} PROVE 0 \div m = 0
      OBVIOUS
    <3>2. 0 \div PacketsPerFrame = 0 /\ 0 \div N = 0
      BY <1>1, <3>1
    <3>3. Scheme \in {"EpochOnly", "Frame", "Packet", "EveryN"}
      BY SchemeAssumption
    <3> QED BY <3>2, <3>3 DEF TrueGeneration
  <2>2. ~crossed_boundary(timestamp(n))
    <3>1. ~(packet_count > 0)
      BY <1>2, <1>3
    <3>2. CASE Scheme = "EpochOnly"
      BY <3>2 DEF crossed_boundary
    <3>3. CASE Scheme = "Packet"
      BY <3>1, <3>3 DEF crossed_boundary
    <3>4. CASE Scheme = "Frame"
      BY <3>1, <3>4 DEF crossed_boundary
    <3>5. CASE Scheme = "EveryN"
      BY <3>1, <3>5 DEF crossed_boundary
    <3> QED BY <3>2, <3>3, <3>4, <3>5, SchemeAssumption
  <2> QED BY <1>3, <2>1, <2>2 DEF TxInv, advance_for
<1>4. CASE n # 0
  <2> DEFINE g == TrueGeneration(n - 1)
  <2>1. n \in Nat \ {0} /\ n - 1 \in Nat
    BY <1>4
  <2>2. g \in Nat
    BY <2>1, GenerationsGrow
  <2>3. TrueGeneration(n) = IF crossed_boundary(timestamp(n)) THEN g + 1 ELSE g
    <3>1. last_ts = timestamp(n - 1)
      BY <1>4 DEF TxInv
    <3>2. CASE Scheme = "EpochOnly"
      BY <3>2 DEF TrueGeneration, crossed_boundary
    <3>3. CASE Scheme = "Packet"
      BY <1>2, <2>1, <3>3 DEF TrueGeneration, crossed_boundary
    <3>4. CASE Scheme = "EveryN"
      <4>1. n \div N = IF n % N = 0 THEN ((n - 1) \div N) + 1 ELSE (n - 1) \div N
        BY <1>1, <2>1, NextQuotient, Zenon
      <4>2. crossed_boundary(timestamp(n)) <=> n % N = 0
        BY <1>2, <2>1, <3>4 DEF crossed_boundary
      <4> QED BY <3>4, <4>1, <4>2 DEF TrueGeneration
    <3>5. CASE Scheme = "Frame"
      <4>1. n \div PacketsPerFrame =
              IF n % PacketsPerFrame = 0 THEN ((n - 1) \div PacketsPerFrame) + 1
                                         ELSE (n - 1) \div PacketsPerFrame
        BY <1>1, <2>1, NextQuotient, Zenon
      <4>2. crossed_boundary(timestamp(n)) <=> timestamp(n) # timestamp(n - 1)
        BY <1>2, <2>1, <3>1, <3>5 DEF crossed_boundary
      <4>3. timestamp(n) # timestamp(n - 1) <=> n % PacketsPerFrame = 0
        BY <2>1, <3>5, TimestampSteps
      <4> QED BY <3>5, <4>1, <4>2, <4>3 DEF TrueGeneration
    <3> QED BY <3>2, <3>3, <3>4, <3>5, SchemeAssumption
  <2>4. /\ installed_gen = g /\ tx_cipher = g
        /\ tx_ratchet.generation = g + 1 /\ tx_ratchet.chain_secret = g + 1
    BY <1>4 DEF TxInv
  <2> HIDE DEF g
  <2>5. CASE crossed_boundary(timestamp(n))
    BY <2>2, <2>3, <2>4, <2>5
    DEF advance_for, install_next_generation, advance, derive_key_salt
  <2>6. CASE ~crossed_boundary(timestamp(n))
    BY <2>3, <2>4, <2>6 DEF advance_for
  <2> QED BY <2>5, <2>6
<1> QED BY <1>3, <1>4

(* The sender's session estimates every packet at its own position.        *)
LEMMA SenderIndex ==
  ASSUME TxInv, NEW n \in Nat, n = Len(sent)
  PROVE  /\ sequence(n) \in Seqs
         /\ srtp_rdbx_estimate_index(tx_rdbx, sequence(n)) = n
<1>1. SeqMod \in Nat \ {0} /\ Half \in Nat /\ Half > 1 /\ SeqMod = 2 * Half
  BY HalfFacts, ReplayWindowAssumption
<1>2. sequence(n) = Low(n) /\ sequence(n) \in Seqs
  <2>1. n % SeqMod \in 0 .. SeqMod - 1
    BY <1>1, DivMod
  <2> QED BY <2>1 DEF sequence, Low, Seqs
<1>3. tx_rdbx \in RdbxTypes /\ tx_rdbx.index = IF n = 0 THEN 0 ELSE n - 1
  BY DEF TxInv
<1>4. CASE n = 0
  <2>1. sequence(n) = 0
    BY <1>1, <1>2, <1>4, RocLow
  <2> QED BY <1>1, <1>2, <1>3, <1>4, <2>1 DEF srtp_rdbx_estimate_index
<1>5. CASE n # 0
  <2>1. n - 1 \in Nat /\ n - (n - 1) < Half /\ (n - 1) - n < Half /\ n - 1 # None
    BY <1>1, <1>5 DEF None
  <2>2. recover(n - 1, Low(n)) = n
    BY <2>1, RecoverNearest
  <2>3. recover(n - 1, Low(n)) = srtp_rdbx_estimate_index(tx_rdbx, Low(n))
    BY <1>2, <1>3, <1>5, <2>1, RecoverIsEstimate
  <2> QED BY <1>2, <2>2, <2>3
<1> QED BY <1>4, <1>5

(* Sealing the next packet keeps the sender's invariant.                   *)
LEMMA SendKeepsTxInv ==
  ASSUME TxInv, next_protected
  PROVE  TxInv' /\ Len(sent') = Len(sent) + 1
<1> DEFINE n == Len(sent)
           s == sequence(n)
           ts == timestamp(n)
           delta == srtp_rdbx_estimate_delta(tx_rdbx, s)
           p == Sealed(s, ts)
<1>1. n \in Nat /\ sent \in Seq(Packets)
  BY DEF TxInv
<1>2. /\ advance_for(ts) /\ sent' = Append(sent, p)
      /\ srtp_rdbx_check(tx_rdbx, delta) = "ok"
      /\ tx_rdbx' = srtp_rdbx_add_index(tx_rdbx, delta)
  BY DEF next_protected, protect
<1>3. s \in Seqs /\ srtp_rdbx_estimate_index(tx_rdbx, s) = n
  BY <1>1, SenderIndex
<1>4. /\ tx_cipher' = TrueGeneration(n) /\ installed_gen' = TrueGeneration(n)
      /\ tx_ratchet'.generation = TrueGeneration(n) + 1
      /\ tx_ratchet'.chain_secret = TrueGeneration(n) + 1
  BY <1>1, <1>2, AdvanceInstallsGeneration
<1>5. packet_count' = n + 1 /\ last_ts' = ts
  BY <1>2 DEF advance_for, TxInv
<1>6. p = [seq |-> s, ts |-> ts, key |-> TrueGeneration(n), index |-> n, intact |-> TRUE]
  BY <1>3, <1>4 DEF Sealed
<1>7. TrueGeneration(n) \in Nat
  BY <1>1, GenerationsGrow
<1>8. ts \in Timestamps
  <2>1. n \div PacketsPerFrame \in Int
    BY <1>1, DivMod, SenderAssumption
  <2>2. EpochStartTs + (n \div PacketsPerFrame) * FramePeriod \in Int /\ TsMod \in Nat \ {0}
    BY <2>1, SchemeAssumption
  <2> QED BY <2>2, DivMod, Zenon DEF timestamp, Timestamps
<1>9. tx_rdbx \in RdbxTypes /\ tx_rdbx.index = IF n = 0 THEN 0 ELSE n - 1
  BY DEF TxInv
<1>10. delta \in Int /\ n = tx_rdbx.index + delta
  BY <1>3, <1>9, EstimateDelta
<1> HIDE DEF s, ts, delta, p
<1>11. p \in Packets
  BY <1>1, <1>3, <1>6, <1>7, <1>8 DEF Packets
<1>12. tx_rdbx' \in RdbxTypes /\ tx_rdbx'.index = n
  <2>1. p.seq = s
    BY <1>6
  <2>2. srtp_unprotect_rdbx(tx_rdbx, p) = tx_rdbx'
    BY <1>2, <2>1 DEF srtp_unprotect_rdbx, delta
  <2>3. /\ tx_rdbx' \in RdbxTypes
        /\ tx_rdbx'.index = IF n > tx_rdbx.index THEN n ELSE tx_rdbx.index
    BY <1>2, <1>3, <1>9, <1>11, <2>1, <2>2, AddedIndex DEF delta
  <2> QED BY <1>1, <1>9, <2>3
<1>13. /\ sent' \in Seq(Packets) /\ Len(sent') = n + 1
       /\ \A i \in 1 .. n : sent'[i] = sent[i]
       /\ sent'[n + 1] = p
  BY <1>1, <1>2, <1>11
<1>14. SealedUnderTrueGeneration' /\ HeadersByNumber'
  <2>1. ASSUME NEW i \in 0 .. n
        PROVE  /\ sent'[i + 1].key = TrueGeneration(i) /\ sent'[i + 1].index = i
               /\ sent'[i + 1].seq = sequence(i) /\ sent'[i + 1].ts = timestamp(i)
               /\ sent'[i + 1].intact
    <3>1. CASE i = n
      BY <1>6, <1>13, <3>1 DEF s, ts
    <3>2. CASE i # n
      <4>1. i \in PacketNumbers /\ i + 1 \in 1 .. n
        BY <1>1, <3>2 DEF PacketNumbers
      <4>2. sent'[i + 1] = Sent(i)
        BY <1>13, <4>1, Zenon DEF Sent
      <4> QED BY <4>1, <4>2, Zenon DEF TxInv, SealedUnderTrueGeneration, HeadersByNumber
    <3> QED BY <3>1, <3>2, Zenon
  <2>2. PacketNumbers' = 0 .. n
    BY <1>1, <1>13 DEF PacketNumbers
  <2>3. SealedUnderTrueGeneration'
    BY <2>1, <2>2, Zenon DEF SealedUnderTrueGeneration, Sent, TrueGeneration
  <2>4. HeadersByNumber'
    BY <2>1, <2>2, Zenon DEF HeadersByNumber, Sent, sequence, timestamp
  <2> QED BY <2>3, <2>4, Zenon
<1>15. Len(sent') # 0 /\ Len(sent') - 1 = n
  BY <1>1, <1>13
<1>16. Len(sent') <= MaxPackets
  BY <1>1, <1>13, SenderAssumption DEF next_protected
<1>17. /\ packet_count' = Len(sent')
       /\ installed_gen' = TrueGeneration(Len(sent') - 1)
       /\ last_ts' = timestamp(Len(sent') - 1)
       /\ tx_rdbx'.index = Len(sent') - 1
  BY <1>4, <1>5, <1>12, <1>13, <1>15 DEF ts
<1> HIDE DEF n
<1>18. TxInv'
  BY <1>4, <1>12, <1>13, <1>14, <1>15, <1>16, <1>17 DEF TxInv
<1> QED BY <1>13, <1>18 DEF n

(* What the packets the sender sealed are.                                 *)
LEMMA SentTyped ==
  ASSUME TxInv, NEW i \in PacketNumbers
  PROVE  /\ i \in Nat /\ i < MaxPackets /\ Sent(i) \in Packets
         /\ Sent(i).key = TrueGeneration(i) /\ Sent(i).index = i
         /\ Sent(i).seq = sequence(i) /\ Sent(i).ts = timestamp(i) /\ Sent(i).intact
<1>1. i \in Nat /\ i + 1 \in 1 .. Len(sent) /\ sent \in Seq(Packets) /\ i < MaxPackets
  BY SenderAssumption DEF PacketNumbers, TxInv
<1>2. Sent(i) \in Packets
  BY <1>1 DEF Sent
<1> QED BY <1>1, <1>2, Zenon DEF TxInv, SealedUnderTrueGeneration, HeadersByNumber

(* The sender is not concerned by what the receiver does.                  *)
LEMMA TxUnchanged ==
  ASSUME TxInv, UNCHANGED txVars
  PROVE  TxInv'
<1>1. /\ sent' = sent /\ packet_count' = packet_count /\ installed_gen' = installed_gen
      /\ tx_cipher' = tx_cipher /\ tx_ratchet' = tx_ratchet /\ last_ts' = last_ts
      /\ tx_rdbx' = tx_rdbx
  BY DEF txVars
<1>2. SealedUnderTrueGeneration' /\ HeadersByNumber'
  BY <1>1, Zenon DEF TxInv, SealedUnderTrueGeneration, HeadersByNumber, PacketNumbers, Sent,
                     TrueGeneration, sequence, timestamp
<1> QED BY <1>1, <1>2, Zenon DEF TxInv

-----------------------------------------------------------------------------
(***************************************************************************)
(* What a call of unprotect returns for a packet the sender sealed.        *)
(***************************************************************************)
Genuine(p, i) ==
  /\ i \in Nat /\ i < MaxPackets /\ p \in Packets
  /\ p.key = TrueGeneration(i) /\ p.index = i
  /\ p.seq = Low(i) /\ p.ts = timestamp(i) /\ p.intact

(* The stream ends before its timestamps return to the epoch's first one:  *)
(* a Frame receiver counts generations in the wrapped difference.          *)
EpochFits ==
  Scheme = "Frame" =>
    \A i \in 0 .. MaxPackets - 1 : (i \div PacketsPerFrame) * FramePeriod < TsMod

(* Every packet of the sender is one.                                      *)
LEMMA SentGenuine ==
  ASSUME TxInv, NEW i \in PacketNumbers
  PROVE  Genuine(Sent(i), i)
BY SentTyped, Zenon DEF Genuine, sequence, Low

(* frame_generation counts the frames of the epoch through a wrap of the   *)
(* timestamp.                                                              *)
LEMMA FrameGeneration ==
  ASSUME EpochFits, Scheme = "Frame", NEW i \in Nat, i < MaxPackets
  PROVE  frame_generation(timestamp(i)) = i \div PacketsPerFrame
<1> DEFINE q == i \div PacketsPerFrame
           x == EpochStartTs + q * FramePeriod
<1>1. /\ TsMod \in Nat \ {0} /\ FramePeriod \in Nat \ {0} /\ EpochStartTs \in Nat
      /\ PacketsPerFrame \in Nat \ {0} /\ MaxPackets \in Nat
  BY SenderAssumption, SchemeAssumption
<1>2. q \in Nat
  BY <1>1
<1>3. q * FramePeriod \in Nat /\ q * FramePeriod < TsMod
  BY <1>1, <1>2 DEF EpochFits
<1> HIDE DEF q
<1> DEFINE y == q * FramePeriod
           m == x \div TsMod
           r == x % TsMod
<1>4. x = EpochStartTs + y /\ x \in Int /\ y \in Nat /\ y < TsMod
  BY <1>1, <1>3
<1>5. m \in Int /\ r \in 0 .. TsMod - 1 /\ x = TsMod * m + r
  BY <1>1, <1>4, DivMod, Zenon
<1> HIDE DEF x, y, m, r
<1>6. r - EpochStartTs = TsMod * (-m) + y /\ y \in 0 .. TsMod - 1 /\ -m \in Int
  <2>1. TsMod * (-m) = -(TsMod * m) /\ TsMod * m \in Int
    BY <1>1, <1>5
  <2>2. PICK z \in Int : z = TsMod * m
    BY <2>1, Zenon
  <2>3. TsMod * (-m) = -z /\ x = z + r
    BY <1>5, <2>1, <2>2, Zenon
  <2> QED BY <1>1, <1>4, <1>5, <2>3
<1>7. (r - EpochStartTs) % TsMod = y
  BY <1>1, <1>6, DivModUnique, Zenon
<1>8. (q * FramePeriod) \div FramePeriod = q
  <2>1. 0 \in 0 .. FramePeriod - 1 /\ FramePeriod * q + 0 = q * FramePeriod
    BY <1>1, <1>2
  <2>2. (FramePeriod * q + 0) \div FramePeriod = q
    BY <1>1, <1>2, <2>1, DivModUnique
  <2> QED BY <2>1, <2>2
<1>9. timestamp(i) = r
  BY Zenon DEF timestamp, q, r, x
<1> QED BY <1>7, <1>8, <1>9, Zenon DEF frame_generation, q, y

(* The header of a packet whose index is recovered exactly maps to the     *)
(* generation the packet was sealed under.                                 *)
LEMMA HeaderGeneration ==
  ASSUME EpochFits, NEW p, NEW i, Genuine(p, i), NEW h, ByIndex => recover(h, p.seq) = i
  PROVE  generation(h, p) = TrueGeneration(i) /\ ~BeforeEpoch(h, p.seq)
<1>1. Base = 0 /\ i \in Nat /\ i < MaxPackets /\ p.ts = timestamp(i)
  BY SenderAssumption, Zenon DEF Genuine
<1>2. ~BeforeEpoch(h, p.seq)
  BY <1>1 DEF BeforeEpoch
<1>3. CASE Scheme = "EpochOnly"
  BY <1>2, <1>3, Zenon DEF generation, TrueGeneration
<1>4. CASE Scheme = "Frame"
  BY <1>1, <1>2, <1>4, FrameGeneration, Zenon DEF generation, TrueGeneration
<1>5. CASE Scheme = "Packet"
  <2>1. generation(h, p) = i - 0 /\ TrueGeneration(i) = i
    BY <1>1, <1>5, Zenon DEF generation, TrueGeneration, ByIndex
  <2> QED BY <1>1, <1>2, <2>1
<1>6. CASE Scheme = "EveryN"
  <2>1. generation(h, p) = (i - 0) \div N
    BY <1>1, <1>6, Zenon DEF generation, ByIndex
  <2>2. i - 0 = i
    BY <1>1
  <2> QED BY <1>2, <1>6, <2>1, <2>2, Zenon DEF TrueGeneration
<1> QED BY <1>2, <1>3, <1>4, <1>5, <1>6, SchemeAssumption

(* Generations advance by at most one per packet.                          *)
LEMMA GenerationStep ==
  ASSUME NEW i \in Nat, NEW j \in Nat, i <= j
  PROVE  TrueGeneration(j) - TrueGeneration(i) <= j - i /\ TrueGeneration(j) <= j
<1>1. PacketsPerFrame \in Nat \ {0} /\ N \in Nat \ {0}
  BY SenderAssumption, SchemeAssumption
<1>2. ASSUME NEW m \in Nat \ {0}
      PROVE  (j \div m) - (i \div m) <= j - i /\ j \div m <= j
  <2> DEFINE a == i \div m
             b == j \div m
  <2>1. /\ a \in Int /\ m * a <= i /\ i < m * a + m
        /\ b \in Int /\ m * b <= j /\ j < m * b + m /\ a \in Nat /\ b \in Nat
    BY Quotient
  <2> HIDE DEF a, b
  <2>2. b >= a + 1 => m * b - m * a - m >= b - a - 1
    <3> SUFFICES ASSUME b >= a + 1 PROVE m * b - m * a - m >= b - a - 1
      OBVIOUS
    <3>1. b - a - 1 \in Nat
      BY <2>1
    <3>2. m * (b - a - 1) >= b - a - 1
      BY <3>1
    <3>3. m * (b - a - 1) = m * b - m * a - m
      BY <2>1
    <3> QED BY <3>2, <3>3
  <2>3. m * b \in Int /\ m * a \in Int
    BY <2>1
  <2>4. m * b >= b
    BY <2>1
  <2>5. b - a <= j - i
    BY <2>1, <2>2, <2>3
  <2> QED BY <2>1, <2>3, <2>4, <2>5 DEF a, b
<1>3. /\ (j \div PacketsPerFrame) - (i \div PacketsPerFrame) <= j - i
      /\ j \div PacketsPerFrame <= j
      /\ (j \div N) - (i \div N) <= j - i /\ j \div N <= j
  BY <1>1, <1>2, Zenon
<1> QED BY <1>3, SchemeAssumption DEF TrueGeneration
(* libsrtp's verdict decides the result once a key was found: replayed     *)
(* indexes are refused, and a packet sealed under this key and at the      *)
(* estimated index opens.                                                  *)
LEMMA OpenedResult ==
  ASSUME RxInv, NEW p \in Packets, NEW g \in Nat, OpenInWindow(p, g) \/ OpenAhead(p, g)
  PROVE  LET check == srtp_rdbx_check(rdbx, srtp_rdbx_estimate_delta(rdbx, p.seq))
         IN  /\ check # "ok" => result' = Err("SrtpReplay")
             /\ /\ check = "ok" /\ p.intact /\ p.key = g
                /\ p.index = srtp_rdbx_estimate_index(rdbx, p.seq)
                => result' = Ok(g)
<1> DEFINE check == srtp_rdbx_check(rdbx, srtp_rdbx_estimate_delta(rdbx, p.seq))
           status == srtp_unprotect_status(rdbx, Install(g, g), p)
<1>1. PICK key : /\ key = g
                 /\ (Accepted(p, g, key) /\ Deliver(p, g)) \/ Reject(p, g, key)
  <2>1. CASE OpenInWindow(p, g)
    <3>1. K \in Nat \ {0} /\ frontier \in Int /\ frontier >= -1
      BY WindowFacts DEF RxInv
    <3>2. frontier # None /\ g \in 0 .. frontier /\ frontier - g < K
      BY <2>1, <3>1 DEF OpenInWindow, InWindow, Derived, TooOld
    <3>3. ring[g % K].key = g
      <4>1. ring[g % K] = Entry(g, g)
        BY <3>2, Zenon DEF RxInv, RingHoldsWindow
      <4> QED BY <4>1 DEF Entry
    <3> QED BY <2>1, <3>3, Zenon DEF OpenInWindow
  <2>2. CASE OpenAhead(p, g)
    <3>1. key_salt_of(ratchet, g) = g
      BY CatchupKey DEF RxInv
    <3> QED BY <2>2, <3>1, Zenon DEF OpenAhead
  <2> QED BY <2>1, <2>2, Zenon
<1>2. Install(g, g) = g
  BY Zenon DEF Install, RxInv, CipherMatchesInstalled
<1>3. check \in {"ok", "replay_old", "replay_fail"}
  BY Zenon DEF srtp_rdbx_check
<1>4. check # "ok" => status = check
  BY Zenon DEF srtp_unprotect_status
<1>5. /\ check = "ok" /\ p.intact /\ p.key = g
      /\ p.index = srtp_rdbx_estimate_index(rdbx, p.seq)
      => status = "ok"
  BY <1>2, Zenon DEF srtp_unprotect_status, Authentic
<1>6. status = "ok" => result' = Ok(g)
  BY <1>1, Zenon DEF Accepted, Reject, Deliver
<1>7. status # "ok" => result' = SrtpError(status)
  BY <1>1, Zenon DEF Accepted, Reject
<1>8. check # "ok" => SrtpError(check) = Err("SrtpReplay")
  BY <1>3, Zenon DEF SrtpError
<1> HIDE DEF check, status
<1>9. check # "ok" => result' = Err("SrtpReplay")
  BY <1>4, <1>7, <1>8, Zenon
<1> QED BY <1>5, <1>6, <1>9, Zenon DEF check

(* The result of a genuine packet whose index libsrtp estimates exactly is *)
(* determined by where its generation lies relative to the frontier and by *)
(* the replay database; so is the work it causes.                          *)
LEMMA ExactArrival ==
  ASSUME EpochFits, RxInv, NEW p, NEW i, Genuine(p, i), unprotect(p),
         srtp_rdbx_estimate_index(rdbx, p.seq) = i
  PROVE  LET g == TrueGeneration(i)
             check == srtp_rdbx_check(rdbx, i - rdbx.index)
         IN  /\ g \in Nat
             /\ Steps(p) = IF g > frontier /\ g - frontier <= SeekCap THEN g - frontier ELSE 0
             /\ frontier - g >= K => result' = Err("BehindWindow")
             /\ g - frontier > SeekCap => result' = Err("SeekCapExceeded")
             /\ frontier - g < K /\ g - frontier <= SeekCap =>
                  result' = IF check = "ok" THEN Ok(g) ELSE Err("SrtpReplay")
<1> DEFINE g == TrueGeneration(i)
           check == srtp_rdbx_check(rdbx, i - rdbx.index)
<1>1. /\ K \in Nat \ {0} /\ SeekCap \in Nat /\ frontier \in Int /\ frontier >= -1
      /\ rdbx \in RdbxTypes /\ highest \in Nat \cup {None}
  BY WindowFacts, Zenon DEF RxInv, RxTypeOK
<1>2. /\ i \in Nat /\ p \in Packets /\ p.seq \in Seqs /\ g \in Nat
      /\ p.intact /\ p.key = g /\ p.index = i
  BY GenerationsGrow, Zenon DEF Genuine, Packets
<1>3. ByIndex => recover(highest, p.seq) = i
  BY <1>1, <1>2, RecoverIsEstimate, Zenon DEF RxInv, IndexInSync
<1>4. generation(highest, p) = g /\ ~BeforeEpoch(highest, p.seq)
  BY <1>3, HeaderGeneration, Zenon
<1>5. srtp_rdbx_estimate_delta(rdbx, p.seq) = i - rdbx.index
  <2>1. rdbx.index \in Nat
    BY <1>1 DEF RdbxTypes
  <2>2. /\ srtp_rdbx_estimate_delta(rdbx, p.seq) \in Int
        /\ i = rdbx.index + srtp_rdbx_estimate_delta(rdbx, p.seq)
    BY <1>1, <1>2, EstimateDelta, Zenon
  <2> QED BY <2>1, <2>2
<1>6. DropBehind(p, g) \/ DropSeekCap(p, g) \/ OpenInWindow(p, g) \/ OpenAhead(p, g)
  BY <1>4, Zenon DEF unprotect, DropBeforeEpoch
<1>7. OpenInWindow(p, g) \/ OpenAhead(p, g) =>
        result' = IF check = "ok" THEN Ok(g) ELSE Err("SrtpReplay")
  BY <1>1, <1>2, <1>5, OpenedResult, Zenon
<1>8. Steps(p) = IF Ahead(g) THEN jump(g) ELSE 0
  BY <1>4, Zenon DEF Steps
<1> HIDE DEF g, check
<1>9. /\ TooOld(g) <=> frontier - g >= K
      /\ TooFar(g) <=> g - frontier > SeekCap
      /\ Ahead(g) <=> g > frontier /\ g - frontier <= SeekCap
      /\ InWindow(g) <=> g <= frontier /\ frontier - g < K
      /\ Ahead(g) => jump(g) = g - frontier
  BY <1>1, <1>2 DEF TooOld, TooFar, Ahead, InWindow, Derived, jump, None
<1>10. frontier - g >= K => result' = Err("BehindWindow")
  <2> SUFFICES ASSUME frontier - g >= K PROVE result' = Err("BehindWindow")
    OBVIOUS
  <2>1. ~TooFar(g) /\ ~InWindow(g) /\ ~Ahead(g)
    BY <1>1, <1>2, <1>9
  <2> QED BY <1>6, <2>1, Zenon DEF DropBehind, DropSeekCap, OpenInWindow, OpenAhead, Drop
<1>11. g - frontier > SeekCap => result' = Err("SeekCapExceeded")
  <2> SUFFICES ASSUME g - frontier > SeekCap PROVE result' = Err("SeekCapExceeded")
    OBVIOUS
  <2>1. ~TooOld(g) /\ ~InWindow(g) /\ ~Ahead(g)
    BY <1>1, <1>2, <1>9
  <2> QED BY <1>6, <2>1, Zenon DEF DropBehind, DropSeekCap, OpenInWindow, OpenAhead, Drop
<1>12. frontier - g < K /\ g - frontier <= SeekCap =>
         result' = IF check = "ok" THEN Ok(g) ELSE Err("SrtpReplay")
  <2> SUFFICES ASSUME frontier - g < K, g - frontier <= SeekCap
               PROVE  OpenInWindow(p, g) \/ OpenAhead(p, g)
    BY <1>7, Zenon
  <2>1. ~TooOld(g) /\ ~TooFar(g)
    BY <1>1, <1>2, <1>9
  <2> QED BY <1>6, <2>1, Zenon DEF DropBehind, DropSeekCap
<1>13. Steps(p) = IF g > frontier /\ g - frontier <= SeekCap THEN g - frontier ELSE 0
  BY <1>8, <1>9, Zenon
<1> QED BY <1>2, <1>10, <1>11, <1>12, <1>13, Zenon DEF g, check
=============================================================================
