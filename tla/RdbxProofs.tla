----------------------------- MODULE RdbxProofs -----------------------------
(***************************************************************************)
(* Integer division, index recovery and libsrtp's estimator and replay     *)
(* database, for every sequence space and replay window.                   *)
(***************************************************************************)
EXTENDS Rdbx, TLAPS

(* The steps late in a long module need more than the provers' default time. *)
USE SMTT(60)

-----------------------------------------------------------------------------
(***************************************************************************)
(* Integer division.                                                       *)
(***************************************************************************)

(* The quotient and remainder of the ring's g % K and of rollover counters.*)
LEMMA DivMod ==
  ASSUME NEW a \in Int, NEW b \in Nat \ {0}
  PROVE  /\ a \div b \in Int
         /\ a % b \in 0 .. b - 1
         /\ a = b * (a \div b) + (a % b)
OBVIOUS

(* Quotient and remainder are unique.                                      *)
LEMMA DivModUnique ==
  ASSUME NEW b \in Nat \ {0}, NEW q \in Int, NEW r \in 0 .. b - 1
  PROVE  (b * q + r) % b = r /\ (b * q + r) \div b = q
OBVIOUS

(* Multiplication distributes over differences of rollover counters.       *)
LEMMA Distributes ==
  ASSUME NEW a \in Int, NEW b \in Int, NEW m \in Int
  PROVE  (a - b) * m = a * m - b * m
OBVIOUS

(* Quotient and remainder of a division as bounds.                         *)
LEMMA Quotient ==
  ASSUME NEW a \in Int, NEW m \in Nat \ {0}
  PROVE  /\ a \div m \in Int
         /\ m * (a \div m) <= a
         /\ a < m * (a \div m) + m
OBVIOUS

(* A larger factor gives a larger product, by at least m.                  *)
LEMMA NextMultiple ==
  ASSUME NEW m \in Nat \ {0}, NEW p \in Int, NEW q \in Int, p < q
  PROVE  m * p + m <= m * q
<1>1. \A k \in Nat : m * (p + 1 + k) = m * p + m + m * k /\ m * k >= 0
  OBVIOUS
<1>2. q - p - 1 \in Nat /\ q = p + 1 + (q - p - 1)
  OBVIOUS
<1> QED BY <1>1, <1>2

(* Division is monotone.                                                   *)
LEMMA QuotientMonotone ==
  ASSUME NEW m \in Nat \ {0}, NEW a \in Int, NEW b \in Int, a <= b
  PROVE  a \div m <= b \div m
<1>1. SUFFICES ASSUME b \div m < a \div m PROVE FALSE
  BY Quotient
<1>2. m * (b \div m) + m <= m * (a \div m)
  BY <1>1, Quotient, NextMultiple
<1> QED BY <1>2, Quotient

(* Two generations that share a ring slot are at least K apart.            *)
LEMMA ModDistance ==
  ASSUME NEW b \in Nat \ {0}, NEW x \in Int, NEW y \in Int, x < y, x % b = y % b
  PROVE  y - x >= b
<1>1. /\ x \div b \in Int /\ x = b * (x \div b) + (x % b)
      /\ y \div b \in Int /\ y = b * (y \div b) + (y % b)
  BY DivMod
<1>2. y - x = b * ((y \div b) - (x \div b))
  BY <1>1
<1>3. (y \div b) - (x \div b) >= 1
  BY <1>1, <1>2
<1> QED BY <1>1, <1>2, <1>3

(* Every slot belongs to one of any K consecutive generations.             *)
LEMMA ResidueExists ==
  ASSUME NEW b \in Nat \ {0}, NEW x \in Int, NEW r \in 0 .. b - 1
  PROVE  \E y \in Int : y <= x /\ x - y < b /\ y % b = r
<1>1. x - r \in Int
  OBVIOUS
<1>2. PICK q \in Int, d \in 0 .. b - 1 : x - r = b * q + d
  BY <1>1, DivMod, Zenon
<1>3. x - d = b * q + r
  BY <1>2
<1>4. (x - d) % b = r
  BY <1>3, DivModUnique
<1> QED BY <1>4

-----------------------------------------------------------------------------
(***************************************************************************)
(* Index recovery and libsrtp's estimator.                                 *)
(***************************************************************************)

(* The half range of the sequence space.                                   *)
LEMMA HalfFacts ==
  /\ SeqMod \in Nat \ {0}
  /\ Half \in Nat \ {0}
  /\ SeqMod = 2 * Half
<1>1. PICK h \in 1 .. SeqMod : SeqMod = 2 * h
  BY SeqModAssumption
<1>2. Half = h
  BY <1>1, SeqModAssumption DEF Half
<1> QED BY <1>1, <1>2, SeqModAssumption

(* An extended index is its rollover counter and its sequence number.      *)
LEMMA RocLow ==
  ASSUME NEW h \in Nat
  PROVE  /\ Roc(h) \in Nat
         /\ Low(h) \in 0 .. SeqMod - 1
         /\ h = Roc(h) * SeqMod + Low(h)
         /\ h < SeqMod => Roc(h) = 0 /\ Low(h) = h
         /\ h > Half /\ Low(h) < Half => Roc(h) >= 1
<1>1. SeqMod \in Nat \ {0} /\ Half \in Nat
  BY HalfFacts
<1>2. h \div SeqMod \in Nat
  BY <1>1
<1>3. h % SeqMod \in 0 .. SeqMod - 1 /\ h = SeqMod * (h \div SeqMod) + (h % SeqMod)
  BY <1>1, DivMod
<1>4. Roc(h) \in Nat /\ Low(h) \in 0 .. SeqMod - 1 /\ h = Roc(h) * SeqMod + Low(h)
  BY <1>1, <1>2, <1>3 DEF Roc, Low
<1>5. h < SeqMod => Roc(h) = 0 /\ Low(h) = h
  BY <1>1 DEF Roc, Low
<1>6. h > Half /\ Low(h) < Half => Roc(h) >= 1
  BY <1>1, <1>4
<1> QED BY <1>4, <1>5, <1>6

(* A recovered index is a natural number.                                  *)
LEMMA RecoverType ==
  ASSUME NEW h \in Nat \cup {None}, NEW s \in Seqs
  PROVE  recover(h, s) \in Nat
<1>1. SeqMod \in Nat \ {0} /\ s \in Nat
  BY HalfFacts DEF Seqs
<1>2. CASE h = None
  BY <1>1, <1>2 DEF recover
<1>3. CASE h \in Nat
  <2>1. Roc(h) \in Nat /\ saturating_sub(Roc(h), 1) \in Nat
    BY <1>3, RocLow DEF saturating_sub
  <2>2. Rollover(h, s) \in Nat
    BY <2>1 DEF Rollover
  <2>3. Rollover(h, s) * SeqMod + s \in Nat
    BY <1>1, <2>2
  <2> QED BY <1>1, <2>3 DEF recover
<1> QED BY <1>2, <1>3

(* IndexRecovery::recover is exact: every packet less than half of the     *)
(* sequence space away from the newest authenticated one, ahead or behind, *)
(* is recovered to its own index, across any number of wraps.              *)
THEOREM RecoverNearest ==
  ASSUME NEW h \in Nat, NEW i \in Nat, i - h < Half, h - i < Half
  PROVE  recover(h, Low(i)) = i
<1>1. SeqMod \in Nat /\ Half \in Nat /\ SeqMod = 2 * Half /\ Half > 0
  BY HalfFacts
<1>2. Roc(h) \in Nat /\ Low(h) \in 0 .. SeqMod - 1 /\ h = Roc(h) * SeqMod + Low(h)
  BY RocLow
<1>3. Roc(i) \in Nat /\ Low(i) \in 0 .. SeqMod - 1 /\ i = Roc(i) * SeqMod + Low(i)
  BY RocLow
<1>4. (Roc(i) - Roc(h)) * SeqMod = (i - h) - (Low(i) - Low(h))
  <2>1. (Roc(i) - Roc(h)) * SeqMod = Roc(i) * SeqMod - Roc(h) * SeqMod
    BY <1>1, <1>2, <1>3, Distributes
  <2>2. Roc(i) * SeqMod \in Int /\ Roc(h) * SeqMod \in Int
    BY <1>1, <1>2, <1>3
  <2> QED BY <1>2, <1>3, <2>1, <2>2
<1>5. Rollover(h, Low(i)) = Roc(i)
  <2>1. CASE Roc(i) = Roc(h)
    <3>1. Low(i) - Low(h) = i - h
      BY <1>1, <1>2, <1>3, <2>1
    <3> QED BY <1>1, <1>2, <1>3, <2>1, <3>1 DEF Rollover
  <2>2. CASE Roc(i) = Roc(h) + 1
    <3>1. Low(i) - Low(h) = (i - h) - SeqMod
      BY <1>1, <1>2, <1>3, <2>2
    <3>2. Low(h) - Half > Low(i)
      BY <1>1, <1>2, <1>3, <3>1
    <3> QED BY <1>1, <1>2, <1>3, <2>2, <3>2 DEF Rollover
  <2>3. CASE Roc(i) + 1 = Roc(h)
    <3>1. Low(i) - Low(h) = (i - h) + SeqMod
      <4>1. Roc(i) - Roc(h) = -1
        BY <1>2, <1>3, <2>3
      <4>2. (-1) * SeqMod = -SeqMod
        BY <1>1
      <4>3. -SeqMod = (i - h) - (Low(i) - Low(h))
        BY <1>4, <4>1, <4>2
      <4>4. i - h \in Int /\ Low(i) - Low(h) \in Int
        BY <1>2, <1>3
      <4> QED BY <1>1, <4>3, <4>4
    <3>2. Low(i) - Low(h) > Half
      BY <1>1, <1>2, <1>3, <3>1
    <3> QED BY <1>1, <1>2, <1>3, <2>3, <3>2 DEF Rollover, saturating_sub
  <2>4. CASE Roc(i) - Roc(h) >= 2
    <3>1. (Roc(i) - Roc(h)) * SeqMod >= 2 * SeqMod
      BY <1>1, <1>2, <1>3, <2>4
    <3> QED BY <1>1, <1>2, <1>3, <1>4, <3>1
  <2>5. CASE Roc(h) - Roc(i) >= 2
    <3>1. (Roc(h) - Roc(i)) * SeqMod >= 2 * SeqMod
      BY <1>1, <1>2, <1>3, <2>5
    <3>2. (Roc(h) - Roc(i)) * SeqMod = (h - i) - (Low(h) - Low(i))
      BY <1>1, <1>2, <1>3
    <3> QED BY <1>1, <1>2, <1>3, <3>1, <3>2
  <2> QED BY <1>2, <1>3, <2>1, <2>2, <2>3, <2>4, <2>5
<1>6. h # None
  BY DEF None
<1> QED BY <1>3, <1>5, <1>6 DEF recover

(* libsrtp's estimate is the database's index plus the estimated distance. *)
LEMMA EstimateDelta ==
  ASSUME NEW r \in RdbxTypes, NEW s \in Seqs
  PROVE  /\ srtp_rdbx_estimate_delta(r, s) \in Int
         /\ srtp_rdbx_estimate_index(r, s) = r.index + srtp_rdbx_estimate_delta(r, s)
<1> DEFINE h == r.index
<1>1. h \in Nat /\ s \in 0 .. SeqMod - 1
  BY DEF RdbxTypes, Seqs
<1>2. SeqMod \in Nat /\ Half \in Nat /\ SeqMod = 2 * Half /\ Half > 0
  BY HalfFacts
<1> HIDE DEF h
<1>3. /\ Roc(h) \in Nat /\ Low(h) \in 0 .. SeqMod - 1 /\ h = Roc(h) * SeqMod + Low(h)
      /\ h < SeqMod => Low(h) = h
  BY <1>1, RocLow
<1>4. CASE h > Half
  <2>1. /\ GuessDelta(h, s) \in Int
        /\ GuessRoc(h, s) * SeqMod + s = h + GuessDelta(h, s)
    BY <1>1, <1>2, <1>3 DEF GuessDelta, GuessRoc
  <2> QED BY <1>4, <2>1 DEF srtp_rdbx_estimate_delta, srtp_rdbx_estimate_index, h
<1>5. CASE ~(h > Half)
  <2>1. Low(h) = h
    BY <1>1, <1>2, <1>3, <1>5
  <2>2. s - Low(h) \in Int /\ s = h + (s - Low(h))
    BY <1>1, <2>1
  <2> QED BY <1>5, <2>2 DEF srtp_rdbx_estimate_delta, srtp_rdbx_estimate_index, h
<1> QED BY <1>4, <1>5

(* The receiver's recovery and libsrtp's estimate are the same function of *)
(* the same reference, the cold start of each included.                    *)
LEMMA RecoverIsEstimate ==
  ASSUME NEW r \in RdbxTypes, NEW s \in Seqs, NEW h \in Nat \cup {None},
         IF h = None THEN r.index = 0 ELSE h = r.index
  PROVE  recover(h, s) = srtp_rdbx_estimate_index(r, s)
<1>1. r.index \in Nat /\ s \in 0 .. SeqMod - 1
  BY DEF RdbxTypes, Seqs
<1>2. SeqMod \in Nat /\ Half \in Nat /\ SeqMod = 2 * Half /\ Half > 0
  BY HalfFacts
<1>3. CASE h = None
  BY <1>2, <1>3 DEF recover, srtp_rdbx_estimate_index
<1>4. CASE h # None /\ h > Half
  <2>1. h \in Nat /\ h = r.index
    BY <1>4
  <2>2. Roc(h) \in Nat /\ Low(h) \in 0 .. SeqMod - 1 /\ (Low(h) < Half => Roc(h) >= 1)
    BY <1>4, <2>1, RocLow
  <2>3. Rollover(h, s) = GuessRoc(h, s)
    BY <1>1, <1>2, <2>2 DEF Rollover, GuessRoc, saturating_sub
  <2> QED BY <1>4, <2>1, <2>3 DEF recover, srtp_rdbx_estimate_index
<1>5. CASE h # None /\ ~(h > Half)
  <2>1. h \in Nat /\ h = r.index
    BY <1>5
  <2>2. Roc(h) = 0 /\ Low(h) = h
    <3>1. h < SeqMod
      BY <1>2, <1>5, <2>1
    <3> QED BY <2>1, <3>1, RocLow
  <2>3. Rollover(h, s) = 0
    BY <1>1, <1>2, <1>5, <2>1, <2>2 DEF Rollover, saturating_sub
  <2> QED BY <1>1, <1>2, <1>5, <2>1, <2>3 DEF recover, srtp_rdbx_estimate_index
<1> QED BY <1>3, <1>4, <1>5

(* Less than half of the sequence space away from the newest index, the    *)
(* database estimates the index a sequence number was taken from.          *)
LEMMA NearIsExact ==
  ASSUME NEW r \in RdbxTypes, NEW i \in Nat, i - r.index < Half, r.index - i < Half
  PROVE  /\ Low(i) \in Seqs
         /\ srtp_rdbx_estimate_index(r, Low(i)) = i
         /\ srtp_rdbx_estimate_delta(r, Low(i)) = i - r.index
<1>1. r.index \in Nat /\ Low(i) \in Seqs
  BY RocLow DEF RdbxTypes, Seqs
<1>2. recover(r.index, Low(i)) = i
  BY <1>1, RecoverNearest
<1>3. recover(r.index, Low(i)) = srtp_rdbx_estimate_index(r, Low(i))
  BY <1>1, RecoverIsEstimate DEF None
<1>4. /\ srtp_rdbx_estimate_delta(r, Low(i)) \in Int
      /\ i = r.index + srtp_rdbx_estimate_delta(r, Low(i))
  BY <1>1, <1>2, <1>3, EstimateDelta, Zenon
<1> QED BY <1>1, <1>2, <1>3, <1>4

(* The estimate never lies more than half of the sequence space behind the *)
(* newest index.                                                           *)
LEMMA EstimateNotFarBehind ==
  ASSUME NEW r \in RdbxTypes, NEW s \in Seqs
  PROVE  r.index - srtp_rdbx_estimate_index(r, s) <= Half
<1>1. r.index \in Nat /\ s \in 0 .. SeqMod - 1
  BY DEF RdbxTypes, Seqs
<1>2. SeqMod \in Nat /\ Half \in Nat /\ SeqMod = 2 * Half /\ Half > 0
  BY HalfFacts
<1>3. Low(r.index) \in 0 .. SeqMod - 1
  BY <1>1, RocLow
<1>4. r.index < SeqMod => Low(r.index) = r.index
  BY <1>1, RocLow
<1>5. srtp_rdbx_estimate_delta(r, s) >= -Half
  BY <1>1, <1>2, <1>3, <1>4 DEF srtp_rdbx_estimate_delta, GuessDelta
<1> QED BY <1>1, <1>2, <1>5, EstimateDelta

(* A packet that passed the replay check is added at its estimated index:  *)
(* the database's index is the highest index added.                        *)
LEMMA AddedIndex ==
  ASSUME NEW r \in RdbxTypes, NEW p, p.seq \in Seqs,
         srtp_rdbx_check(r, srtp_rdbx_estimate_delta(r, p.seq)) = "ok"
  PROVE  /\ srtp_unprotect_rdbx(r, p) \in RdbxTypes
         /\ srtp_unprotect_rdbx(r, p).index =
              IF srtp_rdbx_estimate_index(r, p.seq) > r.index
                THEN srtp_rdbx_estimate_index(r, p.seq) ELSE r.index
<1> DEFINE delta == srtp_rdbx_estimate_delta(r, p.seq)
<1>1. p.seq \in Seqs
  OBVIOUS
<1>2. delta \in Int /\ srtp_rdbx_estimate_index(r, p.seq) = r.index + delta
  BY <1>1, EstimateDelta
<1>3. ReplayWindow \in Nat \ {0}
  BY ReplayWindowAssumption, HalfFacts
<1>4. r.index \in Nat /\ r.mask \subseteq 0 .. ReplayWindow - 1 /\ r = [index |-> r.index, mask |-> r.mask]
  BY DEF RdbxTypes
<1>5. srtp_rdbx_check(r, delta) = "ok"
  OBVIOUS
<1>6. srtp_unprotect_rdbx(r, p) = srtp_rdbx_add_index(r, delta)
  BY DEF srtp_unprotect_rdbx
<1> HIDE DEF delta
<1>7. CASE delta > 0
  <2>1. r.index + delta \in Nat /\ r.index + delta > r.index
    BY <1>2, <1>4, <1>7
  <2>2. {0} \cup {d \in 0 .. ReplayWindow - 1 : d - delta \in r.mask} \subseteq 0 .. ReplayWindow - 1
    BY <1>3
  <2> QED BY <1>2, <1>6, <1>7, <2>1, <2>2 DEF srtp_rdbx_add_index, RdbxTypes
<1>8. CASE ~(delta > 0)
  <2>1. -delta \in 0 .. ReplayWindow - 1
    BY <1>2, <1>3, <1>5, <1>8 DEF srtp_rdbx_check
  <2>2. srtp_rdbx_add_index(r, delta) = [index |-> r.index, mask |-> r.mask \cup {-delta}]
    BY <1>4, <1>8, Zenon DEF srtp_rdbx_add_index, RdbxTypes
  <2>3. r.mask \cup {-delta} \subseteq 0 .. ReplayWindow - 1
    BY <1>4, <2>1
  <2>4. ~(r.index + delta > r.index)
    BY <1>2, <1>4, <1>8
  <2> QED BY <1>2, <1>4, <1>6, <2>2, <2>3, <2>4 DEF RdbxTypes
<1> QED BY <1>2, <1>7, <1>8
-----------------------------------------------------------------------------
(* The replay database has seen index i, or has moved past it.             *)
Seen(rdbx, i) ==
  /\ i <= rdbx.index
  /\ rdbx.index - i < ReplayWindow => rdbx.index - i \in rdbx.mask

(* An index that passes the replay check was not seen; from then on it is, *)
(* and everything seen before stays seen.                                  *)
LEMMA AddSeen ==
  ASSUME NEW r \in RdbxTypes, NEW p, p.seq \in Seqs, NEW i \in Nat,
         i = srtp_rdbx_estimate_index(r, p.seq),
         srtp_rdbx_check(r, srtp_rdbx_estimate_delta(r, p.seq)) = "ok"
  PROVE  LET new == srtp_unprotect_rdbx(r, p)
         IN  /\ new \in RdbxTypes
             /\ new.index = IF i > r.index THEN i ELSE r.index
             /\ ~Seen(r, i) /\ Seen(new, i)
             /\ \A j \in Nat : Seen(r, j) => Seen(new, j)
<1> DEFINE delta == i - r.index
           new == srtp_unprotect_rdbx(r, p)
<1>1. /\ r.index \in Nat /\ r.mask \subseteq 0 .. ReplayWindow - 1
      /\ r = [index |-> r.index, mask |-> r.mask]
  BY DEF RdbxTypes
<1>2. ReplayWindow \in Nat \ {0}
  BY ReplayWindowAssumption, HalfFacts
<1>3. delta \in Int /\ srtp_rdbx_estimate_delta(r, p.seq) = delta
  <2>1. /\ srtp_rdbx_estimate_delta(r, p.seq) \in Int
        /\ i = r.index + srtp_rdbx_estimate_delta(r, p.seq)
    BY EstimateDelta
  <2> QED BY <1>1, <2>1
<1>4. new \in RdbxTypes /\ new.index = IF i > r.index THEN i ELSE r.index
  BY AddedIndex
<1>5. new = srtp_rdbx_add_index(r, delta) /\ srtp_rdbx_check(r, delta) = "ok"
  BY <1>3 DEF srtp_unprotect_rdbx
<1> HIDE DEF new
<1>6. CASE delta > 0
  <2>1. new = [index |-> r.index + delta,
               mask |-> {0} \cup {d \in 0 .. ReplayWindow - 1 : d - delta \in r.mask}]
    BY <1>5, <1>6 DEF srtp_rdbx_add_index
  <2>2. new.index = i /\ i > r.index
    BY <1>1, <1>4, <1>6
  <2>3. ~Seen(r, i)
    BY <1>1, <2>2 DEF Seen
  <2>4. Seen(new, i)
    BY <1>2, <2>1, <2>2 DEF Seen
  <2>5. ASSUME NEW j \in Nat, Seen(r, j) PROVE Seen(new, j)
    <3>1. j <= r.index /\ (r.index - j < ReplayWindow => r.index - j \in r.mask)
      BY <2>5 DEF Seen
    <3>2. j <= new.index
      BY <1>1, <2>2, <3>1
    <3>3. new.index - j < ReplayWindow => new.index - j \in new.mask
      <4> SUFFICES ASSUME i - j < ReplayWindow PROVE i - j \in new.mask
        BY <2>2
      <4>1. (i - j) - delta = r.index - j
        BY <1>1
      <4>3. r.index - j < ReplayWindow
        <5>1. r.index - j < i - j
          BY <1>1, <2>2
        <5> QED BY <1>1, <1>2, <5>1
      <4>2. i - j \in 0 .. ReplayWindow - 1
        BY <1>2, <2>2, <3>2
      <4> HIDE DEF delta
      <4> QED BY <2>1, <3>1, <4>1, <4>2, <4>3
    <3> QED BY <3>2, <3>3 DEF Seen
  <2> QED BY <1>4, <2>3, <2>4, <2>5 DEF new
<1>7. CASE ~(delta > 0)
  <2>1. -delta \in 0 .. ReplayWindow - 1 /\ -delta \notin r.mask /\ -delta = r.index - i
    BY <1>1, <1>2, <1>3, <1>5, <1>7 DEF srtp_rdbx_check
  <2>2. new = [index |-> r.index, mask |-> r.mask \cup {-delta}] /\ ~(i > r.index)
    <3>1. new = [r EXCEPT !.mask = @ \cup {-delta}]
      BY <1>5, <1>7 DEF srtp_rdbx_add_index
    <3>2. ~(i > r.index)
      BY <1>1, <1>7
    <3> HIDE DEF delta
    <3>3. [r EXCEPT !.mask = @ \cup {-delta}] = [index |-> r.index, mask |-> r.mask \cup {-delta}]
      <4>1. PICK top, mask : r = [index |-> top, mask |-> mask]
        BY <1>1
      <4> QED BY <4>1
    <3> QED BY <3>1, <3>2, <3>3
  <2>3. new.index = r.index /\ new.mask = r.mask \cup {r.index - i}
    BY <2>1, <2>2
  <2>4. i <= r.index /\ r.index - i < ReplayWindow
    BY <1>1, <1>2, <2>1, <2>2
  <2>5. ~Seen(r, i)
    BY <2>1, <2>4 DEF Seen
  <2>6. Seen(new, i)
    BY <2>3, <2>4 DEF Seen
  <2>7. ASSUME NEW j \in Nat, Seen(r, j) PROVE Seen(new, j)
    BY <2>3, <2>7 DEF Seen
  <2> QED BY <1>4, <2>5, <2>6, <2>7 DEF new
<1> QED BY <1>3, <1>6, <1>7
-----------------------------------------------------------------------------
(* The bits of a database that holds the indexes S, the newest being top.  *)
SetBits(S, top) == {d \in 0 .. ReplayWindow - 1 : top - d \in S}

(* The bits of the database after index i was added.                       *)
LEMMA BitsAfterAdd ==
  ASSUME NEW S \in SUBSET Int, NEW r \in RdbxTypes, NEW i \in Nat,
         S = {} => r.index = 0 /\ r.mask = {},
         S # {} => \A j \in S : j <= r.index,
         S # {} => r.mask = SetBits(S, r.index),
         i - r.index <= 0 => r.index - i \in 0 .. ReplayWindow - 1
  PROVE  LET new == srtp_rdbx_add_index(r, i - r.index)
         IN  /\ new.index = IF i > r.index THEN i ELSE r.index
             /\ new.mask = SetBits(S \cup {i}, new.index)
<1> DEFINE top == r.index
           delta == i - r.index
           new == srtp_rdbx_add_index(r, delta)
<1>1. /\ top \in Nat /\ delta \in Int /\ ReplayWindow \in Nat \ {0}
      /\ r = [index |-> top, mask |-> r.mask]
  BY ReplayWindowAssumption, HalfFacts DEF RdbxTypes
<1>2. CASE delta > 0
  <2>1. new = [index |-> top + delta,
               mask |-> {0} \cup {d \in 0 .. ReplayWindow - 1 : d - delta \in r.mask}]
    BY <1>2, Zenon DEF srtp_rdbx_add_index
  <2>2. new.index = i /\ i > top
    BY <1>1, <1>2, <2>1
  <2>3. \A d \in 0 .. ReplayWindow - 1 :
          (d = 0 \/ d - delta \in r.mask) <=> i - d \in S \cup {i}
    <3> TAKE d \in 0 .. ReplayWindow - 1
    <3>1. CASE S = {}
      BY <1>1, <3>1
    <3>2. CASE S # {}
      <4>1. d - delta \in r.mask <=> d - delta \in 0 .. ReplayWindow - 1 /\ top - (d - delta) \in S
        BY <3>2, Zenon DEF SetBits
      <4>2. top - (d - delta) = i - d
        BY <1>1
      <4>3. i - d \in S => d - delta \in 0 .. ReplayWindow - 1
        BY <1>1, <1>2, <3>2
      <4>4. i - d = i <=> d = 0
        BY <1>1
      <4> QED BY <4>1, <4>2, <4>3, <4>4, Zenon
    <3> QED BY <3>1, <3>2, Zenon
  <2>4. 0 \in 0 .. ReplayWindow - 1
    BY <1>1
  <2>5. new.mask = SetBits(S \cup {i}, i)
    BY <2>1, <2>3, <2>4 DEF SetBits
  <2> QED BY <2>2, <2>5, Zenon
<1>3. CASE ~(delta > 0)
  <2>1. new = [index |-> top, mask |-> r.mask \cup {-delta}] /\ ~(i > top)
    <3>1. [r EXCEPT !.mask = @ \cup {-delta}] = [index |-> top, mask |-> r.mask \cup {-delta}]
      <4> HIDE DEF top, delta
      <4> QED BY <1>1 DEF RdbxTypes
    <3>2. new = [r EXCEPT !.mask = @ \cup {-delta}]
      BY <1>3, Zenon DEF srtp_rdbx_add_index
    <3>3. ~(i > top)
      BY <1>1, <1>3
    <3> QED BY <3>1, <3>2, <3>3, Zenon
  <2>2. -delta \in 0 .. ReplayWindow - 1 /\ -delta = top - i
    BY <1>1, <1>3
  <2>3. \A d \in 0 .. ReplayWindow - 1 : top - d = i <=> d = -delta
    BY <1>1
  <2>4. r.mask = {d \in 0 .. ReplayWindow - 1 : top - d \in S}
    BY Zenon DEF SetBits
  <2>5. new.mask = SetBits(S \cup {i}, top)
    BY <2>1, <2>2, <2>3, <2>4 DEF SetBits
  <2> QED BY <2>1, <2>5
<1> QED BY <1>1, <1>2, <1>3, Zenon
=============================================================================
