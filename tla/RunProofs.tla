----------------------------- MODULE RunProofs -----------------------------
(***************************************************************************)
(* The simulated network and the receiver behind it, for every number of   *)
(* packets, every delay, jitter and loss, and every size of the receiver.  *)
(***************************************************************************)
EXTENDS RealisticRun, KeyManagerProofs

(* The steps late in a long module need more than the provers' default time. *)
USE SMTT(60)

(* What the counting below needs of finite sets; CountingBehaves proves it *)
(* from the library's theorems at the end of the module.                   *)
Counting ==
  /\ IsFiniteSet({}) /\ Cardinality({}) = 0
  /\ \A S, x : IsFiniteSet(S) /\ x \notin S =>
       IsFiniteSet(S \cup {x}) /\ Cardinality(S \cup {x}) = Cardinality(S) + 1
  /\ \A S : IsFiniteSet(S) => Cardinality(S) \in Nat
  /\ \A S : \A T \in SUBSET S :
       IsFiniteSet(S) => /\ IsFiniteSet(T) /\ Cardinality(T) <= Cardinality(S)
                         /\ Cardinality(T) = Cardinality(S) => T = S
  /\ \A a, b \in Int : /\ IsFiniteSet(a .. b)
                       /\ Cardinality(a .. b) = IF a <= b THEN b - a + 1 ELSE 0

LEMMA OneMoreElement ==
  ASSUME Counting, NEW S, NEW x, IsFiniteSet(S), x \notin S
  PROVE  IsFiniteSet(S \cup {x}) /\ Cardinality(S \cup {x}) = Cardinality(S) + 1
BY Zenon DEF Counting

LEMMA SubsetCount ==
  ASSUME Counting, NEW S, IsFiniteSet(S), NEW T \in SUBSET S
  PROVE  /\ IsFiniteSet(T) /\ Cardinality(T) \in Nat /\ Cardinality(T) <= Cardinality(S)
         /\ Cardinality(T) = Cardinality(S) => T = S
BY Zenon DEF Counting

LEMMA IntervalCount ==
  ASSUME Counting, NEW a \in Int, NEW b \in Int
  PROVE  /\ IsFiniteSet(a .. b)
         /\ Cardinality(a .. b) = IF a <= b THEN b - a + 1 ELSE 0
BY Zenon DEF Counting

-----------------------------------------------------------------------------
(***************************************************************************)
(* What the lateness and the gap of one arrival are, given the newest      *)
(* packet that arrived before it.                                          *)
(***************************************************************************)
NewestOf(m, S) == IF S = {} THEN m = -1 ELSE m \in S /\ \A j \in S : j <= m

(* Every packet is scheduled once.                                         *)
ScheduleInv ==
  /\ schedule \in Seq(Int \X Nat)
  /\ \A p \in Positions : schedule[p][2] \in Nat /\ schedule[p][2] < NumPackets
  /\ \A p, q \in Positions : schedule[p][2] = schedule[q][2] => p = q

(* Lateness and gaps depend on the schedule alone.                         *)
LEMMA SameSchedule ==
  ASSUME schedule' = schedule
  PROVE  /\ \A q : Before(q)' = Before(q)
         /\ \A q : LatenessOf(q)' = LatenessOf(q)
         /\ \A q : GapOf(q)' = GapOf(q)
<1>1. \A q : Before(q)' = Before(q)
  BY Zenon DEF Before
<1>2. ASSUME NEW q PROVE LatenessOf(q)' = LatenessOf(q)
  <2> DEFINE F(S, i) == IF \A j \in S : j < i THEN 0
                        ELSE CHOOSE d \in 1 .. NumPackets : i + d \in S /\ \A j \in S : j <= i + d
  <2>1. LatenessOf(q) = F(Before(q), schedule[q][2])
    BY Zenon DEF LatenessOf
  <2>2. LatenessOf(q)' = F(Before(q)', schedule'[q][2])
    BY Zenon DEF LatenessOf
  <2>3. Before(q)' = Before(q) /\ schedule'[q][2] = schedule[q][2]
    BY <1>1, Zenon
  <2> HIDE DEF F
  <2> QED BY <2>1, <2>2, <2>3
<1>3. \A q : GapOf(q)' = GapOf(q)
  BY <1>1 DEF GapOf
<1> QED BY <1>1, <1>2, <1>3, Zenon

(* The packets before the next arrival.                                    *)
LEMMA BeforeNext ==
  ASSUME NEW p \in Nat \ {0}
  PROVE  Before(p + 1) = Before(p) \cup {schedule[p][2]}
<1>1. 1 .. (p + 1) - 1 = (1 .. p - 1) \cup {p}
  OBVIOUS
<1> QED BY <1>1, Zenon DEF Before

(* The newest packet after an arrival.                                     *)
LEMMA NewestNext ==
  ASSUME NEW S \in SUBSET Nat, NEW m \in Int, NewestOf(m, S), NEW i \in Nat
  PROVE  NewestOf(IF i > m THEN i ELSE m, S \cup {i})
BY DEF NewestOf

(* No packet arrived before itself.                                        *)
LEMMA NotBefore ==
  ASSUME ScheduleInv, NEW p \in Positions
  PROVE  /\ Before(p) \subseteq 0 .. NumPackets - 1
         /\ schedule[p][2] \notin Before(p)
         /\ schedule[p][2] \in 0 .. NumPackets - 1
<1>1. NumPackets \in Nat /\ Len(schedule) \in Nat
  BY NetworkAssumption DEF ScheduleInv
<1>2. \A q \in 1 .. p - 1 : q \in Positions /\ q # p
  BY <1>1 DEF Positions
<1>3. \A q \in Positions : schedule[q][2] \in 0 .. NumPackets - 1
  BY <1>1 DEF ScheduleInv
<1> QED BY <1>2, <1>3, Zenon DEF Before, ScheduleInv

(* LatenessOf is the distance behind the newest packet.                    *)
LEMMA LatenessValue ==
  ASSUME ScheduleInv, NEW p \in Positions, NEW m \in Int, NewestOf(m, Before(p))
  PROVE  LatenessOf(p) = IF schedule[p][2] < m THEN m - schedule[p][2] ELSE 0
<1> DEFINE i == schedule[p][2]
           S == Before(p)
<1>1. S \subseteq 0 .. NumPackets - 1 /\ i \in 0 .. NumPackets - 1 /\ i \notin S
  BY NotBefore, Zenon
<1>2. NumPackets \in Nat
  BY NetworkAssumption
<1> HIDE DEF i, S
<1>3. NewestOf(m, S)
  BY DEF S
<1>4. LatenessOf(p) = IF \A j \in S : j < i THEN 0
                      ELSE CHOOSE d \in 1 .. NumPackets : i + d \in S /\ \A j \in S : j <= i + d
  BY Zenon DEF LatenessOf, i, S
<1>5. CASE i < m
  <2>1. m \in S /\ \A j \in S : j <= m
    BY <1>1, <1>3, <1>5 DEF NewestOf
  <2>2. ~(\A j \in S : j < i)
    BY <1>1, <1>5, <2>1
  <2>3. \A d \in 1 .. NumPackets :
          (i + d \in S /\ \A j \in S : j <= i + d) <=> d = m - i
    BY <1>1, <1>2, <1>5, <2>1
  <2>4. m - i \in 1 .. NumPackets
    BY <1>1, <1>2, <1>5, <2>1
  <2>5. (CHOOSE d \in 1 .. NumPackets : i + d \in S /\ \A j \in S : j <= i + d) = m - i
    BY <2>3, <2>4, Zenon
  <2> QED BY <1>4, <1>5, <2>2, <2>5, Zenon DEF i
<1>6. CASE ~(i < m)
  <2>1. \A j \in S : j < i
    BY <1>1, <1>3, <1>6 DEF NewestOf
  <2> QED BY <1>4, <1>6, <2>1, Zenon DEF i
<1> QED BY <1>5, <1>6, Zenon

(* GapOf counts the packets between the newest and one that overtakes it.  *)
LEMMA GapValue ==
  ASSUME Counting, ScheduleInv, NEW p \in Positions, NEW m \in Int, NewestOf(m, Before(p))
  PROVE  /\ GapOf(p) = IF schedule[p][2] > m THEN schedule[p][2] - m - 1 ELSE 0
         /\ m >= -1 /\ m < NumPackets /\ schedule[p][2] # m
<1> DEFINE i == schedule[p][2]
           S == Before(p)
           skipped == {k \in 0 .. i - 1 : \A j \in S : j < k /\ j < i}
<1>1. S \subseteq 0 .. NumPackets - 1 /\ i \in 0 .. NumPackets - 1 /\ i \notin S
  BY NotBefore, Zenon
<1>2. NumPackets \in Nat
  BY NetworkAssumption
<1>3. GapOf(p) = Cardinality(skipped)
  BY Zenon DEF GapOf
<1> HIDE DEF i, S, skipped
<1>4. NewestOf(m, S)
  BY DEF S
<1>5. m >= -1 /\ m < NumPackets /\ i # m
  BY <1>1, <1>2, <1>4 DEF NewestOf
<1>6. CASE i > m
  <2>1. skipped = (m + 1) .. (i - 1)
    <3>1. CASE S = {}
      BY <1>1, <1>4, <3>1 DEF NewestOf, skipped
    <3>2. CASE S # {}
      BY <1>1, <1>4, <1>6, <3>2 DEF NewestOf, skipped
    <3> QED BY <3>1, <3>2
  <2>2. Cardinality((m + 1) .. (i - 1)) =
          IF m + 1 <= i - 1 THEN (i - 1) - (m + 1) + 1 ELSE 0
    <3>1. m + 1 \in Int /\ i - 1 \in Int
      BY <1>1
    <3> QED BY <3>1, IntervalCount, Zenon
  <2>3. Cardinality(skipped) = i - m - 1
    BY <1>1, <1>5, <1>6, <2>1, <2>2
  <2> QED BY <1>3, <1>5, <1>6, <2>3, Zenon DEF i
<1>7. CASE ~(i > m)
  <2>1. m \in S /\ ~(m < i)
    BY <1>1, <1>4, <1>7 DEF NewestOf
  <2>2. skipped = {}
    BY <2>1, Zenon DEF skipped
  <2> QED BY <1>3, <1>5, <1>7, <2>2, Zenon DEF i, Counting
<1> QED BY <1>6, <1>7, Zenon

(* A gap is a number.                                                      *)
LEMMA GapNat ==
  ASSUME Counting, ScheduleInv, NEW p \in Positions
  PROVE  GapOf(p) \in Nat
<1> DEFINE I == 0 .. schedule[p][2] - 1
           G == {k \in I : \A j \in Before(p) : j < k /\ j < schedule[p][2]}
<1>1. schedule[p][2] - 1 \in Int /\ 0 \in Int
  BY DEF ScheduleInv
<1>2. IsFiniteSet(I)
  BY <1>1, IntervalCount, Zenon
<1>3. G \in SUBSET I /\ GapOf(p) = Cardinality(G)
  BY Zenon DEF GapOf
<1> HIDE DEF I, G
<1> QED BY <1>2, <1>3, SubsetCount, Zenon

-----------------------------------------------------------------------------
(***************************************************************************)
(* The network's ledger.                                                   *)
(***************************************************************************)
NetFields ==
  {"sent", "delivered", "lost_a", "lost_b", "lost_packets", "wins_a", "wins_b",
   "duplicates_dropped", "displacement"}

NetTypeOK ==
  /\ phase \in {"sending", "measuring", "returned"}
  /\ cursor \in 0 .. NumPackets
  /\ DOMAIN net = NetFields /\ net.sent = NumPackets
  /\ net.lost_a \in Nat /\ net.lost_b \in Nat /\ net.lost_packets \in Nat
  /\ net.wins_a \in Nat /\ net.wins_b \in Nat /\ net.duplicates_dropped \in Nat

LedgerInv ==
  /\ NetTypeOK
  /\ ScheduleInv
  /\ \A p \in Positions : schedule[p][2] < cursor
  /\ phase # "sending" => cursor = NumPackets /\ net.delivered = Len(schedule)
  /\ LedgerBalances

(* There are one or two paths.                                             *)
LEMMA PathCount ==
  ASSUME Counting
  PROVE  Cardinality(Paths) = IF Dual THEN 2 ELSE 1
<1>1. IsFiniteSet({"a"}) /\ Cardinality({"a"}) = 1
  <2>1. {"a"} = {} \cup {"a"} /\ "a" \notin {}
    BY Zenon
  <2>2. IsFiniteSet({} \cup {"a"}) /\ Cardinality({} \cup {"a"}) = Cardinality({}) + 1
    BY <2>1, OneMoreElement, Zenon DEF Counting
  <2> QED BY <2>1, <2>2 DEF Counting
<1>2. Cardinality({"a", "b"}) = 2
  <2>1. {"a", "b"} = {"a"} \cup {"b"} /\ "b" \notin {"a"}
    OBVIOUS
  <2>2. Cardinality({"a"} \cup {"b"}) = Cardinality({"a"}) + 1
    BY <1>1, <2>1, OneMoreElement, Zenon
  <2> QED BY <1>1, <2>1, <2>2
<1>3. Paths = {"a"} \/ Paths = {"a", "b"}
  BY NetworkAssumption
<1> QED BY <1>1, <1>2, <1>3 DEF Dual

(* A copy arrives at some time or is lost.                                 *)
LEMMA ArrivalTime ==
  ASSUME NEW i \in Nat, NEW p \in Paths, NEW c \in copy_arrival(p, send_ns(i))
  PROVE  c[1] \in Int
<1>1. NsPerSecond \in Nat /\ Fps \in Nat \ {0} /\ Ppf \in Nat \ {0}
      /\ BaseDelay[p] \in Nat /\ Jitter[p] \in Nat
  BY NetworkAssumption
<1>2. send_ns(i) \in Int
  <2>1. i \div Ppf \in Int /\ i % Ppf \in Int /\ Fps * Ppf \in Nat \ {0}
    BY <1>1, DivMod
  <2>2. (i \div Ppf) * NsPerSecond \in Int /\ (i % Ppf) * NsPerSecond \in Int
    BY <1>1, <2>1
  <2>3. /\ ((i \div Ppf) * NsPerSecond) \div Fps \in Int
        /\ ((i % Ppf) * NsPerSecond) \div (Fps * Ppf) \in Int
    BY <1>1, <2>1, <2>2, DivMod, Zenon
  <2> QED BY <2>3 DEF send_ns
<1> HIDE DEF send_ns
<1>3. (\E j \in 0 .. Jitter[p] : c[1] = send_ns(i) + BaseDelay[p] + j) \/ c[1] = -1
  BY DEF copy_arrival, Lost
<1> QED BY <1>1, <1>2, <1>3

(* The counters after the fates of a packet's copies were tallied.         *)
LEMMA TallyFields ==
  ASSUME NetTypeOK, NEW ta, NEW tb, net' = tally(ta, tb)
  PROVE  /\ net'.lost_a = net.lost_a + Tick(ta = Lost)
         /\ net'.lost_b = net.lost_b + Tick(Dual /\ tb = Lost)
         /\ net'.lost_packets = net.lost_packets + Tick(ta = Lost /\ tb = Lost)
         /\ net'.wins_a = net.wins_a + Tick(ta # Lost /\ (tb = Lost \/ ta <= tb))
         /\ net'.wins_b = net.wins_b + Tick(tb # Lost /\ (ta = Lost \/ tb < ta))
         /\ net'.duplicates_dropped = net.duplicates_dropped + Tick(ta # Lost /\ tb # Lost)
         /\ net'.sent = net.sent /\ DOMAIN net' = NetFields
BY Zenon DEF tally, NetTypeOK, NetFields

(* One packet more is sent, delivered once or lost.                        *)
LEMMA TransitKeepsLedger ==
  ASSUME Counting, LedgerInv, Transit
  PROVE  LedgerInv'
<1>1. /\ NetTypeOK /\ ScheduleInv /\ LedgerBalances /\ phase = "sending" /\ cursor < NumPackets
      /\ \A p \in Positions : schedule[p][2] < cursor
      /\ cursor' = cursor + 1 /\ phase' = phase
  BY Zenon DEF LedgerInv, Transit
<1> cursor' = cursor + 1
  BY <1>1
<1>2. NumPackets \in Nat /\ cursor \in Nat /\ Len(schedule) \in Nat /\ schedule \in Seq(Int \X Nat)
  BY <1>1, NetworkAssumption DEF NetTypeOK, ScheduleInv
<1>3. PICK a \in copy_arrival("a", send_ns(cursor)),
           b \in IF Dual THEN copy_arrival("b", send_ns(cursor)) ELSE {<<Lost, FALSE>>} :
        /\ net' = tally(a[1], b[1])
        /\ schedule' = IF a[1] = Lost /\ b[1] = Lost THEN schedule
                       ELSE Append(schedule, <<merged(a[1], b[1]), cursor>>)
  BY Zenon DEF Transit
<1> DEFINE ta == a[1]
           tb == b[1]
<1>4. ta \in Int /\ tb \in Int /\ (~Dual => tb = Lost)
  <2>1. "a" \in Paths
    BY NetworkAssumption
  <2>2. ta \in Int
    BY <1>2, <2>1, ArrivalTime, Zenon
  <2>3. CASE Dual
    <3>1. "b" \in Paths /\ b \in copy_arrival("b", send_ns(cursor))
      BY <2>3, Zenon DEF Dual
    <3> QED BY <1>2, <2>2, <2>3, <3>1, ArrivalTime, Zenon
  <2>4. CASE ~Dual
    <3>1. b = <<Lost, FALSE>>
      BY <2>4, Zenon
    <3> QED BY <2>2, <3>1 DEF Lost
  <2> QED BY <2>3, <2>4, Zenon
<1> HIDE DEF ta, tb
<1>5. /\ net'.lost_a = net.lost_a + Tick(ta = Lost)
      /\ net'.lost_b = net.lost_b + Tick(Dual /\ tb = Lost)
      /\ net'.lost_packets = net.lost_packets + Tick(ta = Lost /\ tb = Lost)
      /\ net'.wins_a = net.wins_a + Tick(ta # Lost /\ (tb = Lost \/ ta <= tb))
      /\ net'.wins_b = net.wins_b + Tick(tb # Lost /\ (ta = Lost \/ tb < ta))
      /\ net'.duplicates_dropped = net.duplicates_dropped + Tick(ta # Lost /\ tb # Lost)
      /\ net'.sent = net.sent /\ DOMAIN net' = NetFields
  BY <1>1, <1>3, TallyFields, Zenon DEF ta, tb
<1>6. NetTypeOK'
  <2>1. cursor' \in 0 .. NumPackets
    BY <1>1, <1>2
  <2> QED BY <1>1, <1>5, <2>1 DEF NetTypeOK, Tick
<1> DEFINE lost == ta = Lost /\ tb = Lost
<1>7. /\ lost => schedule' = schedule
      /\ ~lost => /\ Len(schedule') = Len(schedule) + 1
                  /\ schedule' \in Seq(Int \X Nat)
                  /\ \A p \in 1 .. Len(schedule) : schedule'[p] = schedule[p]
                  /\ schedule'[Len(schedule) + 1][2] = cursor
  <2>1. CASE lost
    BY <1>3, <2>1, Zenon DEF ta, tb
  <2>2. CASE ~lost
    <3>1. schedule' = Append(schedule, <<merged(ta, tb), cursor>>)
      BY <1>3, <2>2, Zenon DEF ta, tb
    <3>2. merged(ta, tb) \in Int
      BY <1>4, Zenon DEF merged
    <3> DEFINE e == <<merged(ta, tb), cursor>>
    <3>3. e \in Int \X Nat /\ e[2] = cursor
      BY <1>2, <3>2
    <3> HIDE DEF e
    <3>4. /\ Append(schedule, e) \in Seq(Int \X Nat)
          /\ Len(Append(schedule, e)) = Len(schedule) + 1
          /\ \A p \in 1 .. Len(schedule) : Append(schedule, e)[p] = schedule[p]
          /\ Append(schedule, e)[Len(schedule) + 1] = e
      BY <1>2, <3>3
    <3> QED BY <2>2, <3>1, <3>3, <3>4, Zenon DEF e
  <2> QED BY <2>1, <2>2, Zenon
<1>8. ScheduleInv' /\ \A p \in Positions' : schedule'[p][2] < cursor'
  <2>1. CASE lost
    BY <1>1, <1>2, <1>7, <2>1 DEF ScheduleInv, Positions
  <2>2. CASE ~lost
    <3>1. Positions' = Positions \cup {Len(schedule) + 1} /\ Len(schedule) + 1 \notin Positions
      BY <1>2, <1>7, <2>2 DEF Positions
    <3>2. \A p \in Positions : schedule'[p][2] = schedule[p][2] /\ schedule[p][2] \in Nat
                               /\ schedule[p][2] < cursor /\ schedule[p][2] # cursor
      BY <1>1, <1>2, <1>7, <2>2 DEF Positions, ScheduleInv
    <3>3. \A p \in Positions' : /\ schedule'[p][2] \in Nat
                                /\ schedule'[p][2] < NumPackets /\ schedule'[p][2] < cursor'
      <4>1. ASSUME NEW p \in Positions PROVE schedule'[p][2] \in Nat /\ schedule'[p][2] < cursor
        BY <3>2, Zenon
      <4>2. \A x \in Nat : x <= cursor => x < NumPackets /\ x < cursor'
        BY <1>1, <1>2
      <4>3. \A x \in Nat : x < cursor => x <= cursor
        BY <1>2
      <4>4. cursor <= cursor
        BY <1>2
      <4> QED BY <1>2, <1>7, <2>2, <3>1, <4>1, <4>2, <4>3, <4>4, Zenon
    <3>4. \A p, q \in Positions' : schedule'[p][2] = schedule'[q][2] => p = q
      <4> SUFFICES ASSUME NEW p \in Positions', NEW q \in Positions',
                          schedule'[p][2] = schedule'[q][2]
                   PROVE  p = q
        BY Zenon
      <4>1. CASE p \in Positions /\ q \in Positions
        BY <1>1, <3>2, <4>1, Zenon DEF ScheduleInv
      <4>2. CASE p \in Positions /\ q = Len(schedule) + 1
        BY <1>7, <2>2, <3>2, <4>2, Zenon
      <4>3. CASE q \in Positions /\ p = Len(schedule) + 1
        BY <1>7, <2>2, <3>2, <4>3, Zenon
      <4> QED BY <3>1, <4>1, <4>2, <4>3, Zenon
    <3> QED BY <1>7, <2>2, <3>3, <3>4, Zenon DEF ScheduleInv
  <2> QED BY <2>1, <2>2
<1>9. Len(schedule') = Len(schedule) + Tick(~(ta = Lost /\ tb = Lost))
  BY <1>2, <1>7 DEF Tick
<1>10. LedgerBalances'
  <2> DEFINE c == Cardinality(Paths)
  <2>1. c = IF Dual THEN 2 ELSE 1
    BY PathCount, Zenon
  <2>2. /\ net.wins_a + net.wins_b = Len(schedule)
        /\ Len(schedule) + net.lost_packets = cursor
        /\ net.lost_a + net.lost_b + net.duplicates_dropped + Len(schedule) = cursor * c
    BY <1>1, Zenon DEF LedgerBalances
  <2> HIDE DEF c
  <2>3. /\ net.wins_a \in Nat /\ net.wins_b \in Nat /\ net.lost_a \in Nat /\ net.lost_b \in Nat
        /\ net.duplicates_dropped \in Nat /\ net.lost_packets \in Nat
    BY <1>1 DEF NetTypeOK
  <2>4. net'.wins_a + net'.wins_b = Len(schedule')
    BY <1>2, <1>4, <1>5, <1>9, <2>2, <2>3 DEF Tick, Lost
  <2>5. Len(schedule') + net'.lost_packets = cursor'
    BY <1>1, <1>2, <1>5, <1>9, <2>2, <2>3 DEF Tick
  <2>6. net'.lost_a + net'.lost_b + net'.duplicates_dropped + Len(schedule') = cursor' * c
    <3> DEFINE la == Tick(ta = Lost)
               lb == Tick(Dual /\ tb = Lost)
               d == Tick(ta # Lost /\ tb # Lost)
               n == Tick(~(ta = Lost /\ tb = Lost))
    <3>1. la \in Nat /\ lb \in Nat /\ d \in Nat /\ n \in Nat
      BY DEF Tick
    <3>2. CASE Dual
      <4>1. lb = Tick(tb = Lost)
        BY <3>2, Zenon DEF Tick
      <4>2. la + lb + d + n = 2
        BY <4>1 DEF Tick
      <4> HIDE DEF la, lb, d, n
      <4>3. c = 2
        BY <2>1, <3>2, Zenon
      <4>4. cursor' * 2 = cursor * 2 + 2 /\ cursor * 2 \in Int
        BY <1>2
      <4>5. cursor' * c = cursor * c + (la + lb + d + n) /\ cursor * c \in Int
        BY <4>2, <4>3, <4>4
      <4> QED BY <1>2, <1>5, <1>9, <2>2, <2>3, <3>1, <4>5 DEF la, lb, d, n
    <3>3. CASE ~Dual
      <4>1. tb = Lost /\ lb = 0
        BY <1>4, <3>3, Zenon DEF Tick
      <4>2. la + lb + d + n = 1
        BY <4>1 DEF Tick
      <4> HIDE DEF la, lb, d, n
      <4>3. c = 1
        BY <2>1, <3>3, Zenon
      <4>4. cursor' * 1 = cursor * 1 + 1 /\ cursor * 1 \in Int
        BY <1>2
      <4>5. cursor' * c = cursor * c + (la + lb + d + n) /\ cursor * c \in Int
        BY <4>2, <4>3, <4>4
      <4> QED BY <1>2, <1>5, <1>9, <2>2, <2>3, <3>1, <4>5 DEF la, lb, d, n
    <3> QED BY <3>2, <3>3, Zenon
  <2>7. phase' # "returned"
    BY <1>1
  <2> QED BY <2>4, <2>5, <2>6, <2>7, Zenon DEF LedgerBalances, Returned, c
<1> QED BY <1>1, <1>6, <1>8, <1>10, Zenon DEF LedgerInv
(* sort_by_key is a stable sort: it permutes the entries, and orders them  *)
(* by arrival time and by packet number among equal times.  SortIsStable   *)
(* proves it at the end of the module.                                     *)
SortsStably ==
  \A entries \in Seq(Int \X Nat) :
    LET n == Len(entries)
        sorted == sort_by_key(entries)
    IN  (\A p, q \in 1 .. n : entries[p][2] = entries[q][2] => p = q)
        => /\ sorted \in Seq(Int \X Nat) /\ Len(sorted) = n
           /\ \A k \in 1 .. n : \E p \in 1 .. n : sorted[k] = entries[p]
           /\ \A k, l \in 1 .. n : k < l => Earlier(sorted[k], sorted[l])

(* The arrivals are the same after the sort.                               *)
LEMMA SortKeepsLedger ==
  ASSUME SortsStably, LedgerInv, sort_arrivals
  PROVE  LedgerInv'
<1> DEFINE n == Len(schedule)
<1>1. /\ NetTypeOK /\ ScheduleInv /\ LedgerBalances
      /\ \A p \in Positions : schedule[p][2] < cursor
      /\ phase' = "measuring" /\ cursor = NumPackets /\ cursor' = cursor
      /\ schedule' = sort_by_key(schedule)
      /\ net' = [net EXCEPT !.delivered = n]
  BY Zenon DEF LedgerInv, sort_arrivals
<1>2. n \in Nat /\ schedule \in Seq(Int \X Nat) /\ Positions = 1 .. n
  BY <1>1 DEF ScheduleInv, Positions
<1>3. /\ schedule' \in Seq(Int \X Nat) /\ Len(schedule') = n
      /\ \A k \in 1 .. n : \E p \in 1 .. n : schedule'[k] = schedule[p]
      /\ \A k, l \in 1 .. n : k < l => Earlier(schedule'[k], schedule'[l])
  BY <1>1, <1>2, Zenon DEF SortsStably, ScheduleInv
<1> HIDE DEF n
<1>4. Positions' = 1 .. n
  BY <1>3, Zenon DEF Positions
<1>5. \A k \in Positions' : /\ schedule'[k][2] \in Nat /\ schedule'[k][2] < NumPackets
                            /\ schedule'[k][2] < cursor'
  <2> SUFFICES ASSUME NEW k \in 1 .. n
               PROVE  /\ schedule'[k][2] \in Nat /\ schedule'[k][2] < NumPackets
                      /\ schedule'[k][2] < cursor'
    BY <1>4, Zenon
  <2>1. PICK p \in 1 .. n : schedule'[k] = schedule[p]
    BY <1>3, Zenon
  <2>2. p \in Positions
    BY <1>2, Zenon
  <2> QED BY <1>1, <2>1, <2>2, Zenon DEF ScheduleInv
<1>6. ASSUME NEW k \in 1 .. n, NEW l \in 1 .. n, schedule'[k][2] = schedule'[l][2]
      PROVE  k = l
  <2>1. PICK p \in 1 .. n, q \in 1 .. n : schedule'[k] = schedule[p] /\ schedule'[l] = schedule[q]
    BY <1>3, Zenon
  <2>2. schedule'[k] = schedule'[l]
    BY <1>1, <1>2, <1>6, <2>1, Zenon DEF ScheduleInv
  <2>3. schedule[p] \in Int \X Nat
    BY <1>2 DEF n
  <2>4. schedule[p][1] \in Int /\ schedule[p][2] \in Int
    BY <2>3
  <2>5. ~Earlier(schedule'[k], schedule'[l]) /\ ~Earlier(schedule'[l], schedule'[k])
    BY <2>1, <2>2, <2>4 DEF Earlier
  <2>6. ~(k < l) /\ ~(l < k)
    BY <1>3, <2>5, Zenon
  <2> QED BY <1>2, <2>6
<1>7. ScheduleInv'
  BY <1>3, <1>4, <1>5, <1>6, Zenon DEF ScheduleInv
<1>8. /\ DOMAIN net' = NetFields /\ net'.delivered = n
      /\ net'.sent = net.sent /\ net'.lost_a = net.lost_a /\ net'.lost_b = net.lost_b
      /\ net'.lost_packets = net.lost_packets /\ net'.wins_a = net.wins_a
      /\ net'.wins_b = net.wins_b /\ net'.duplicates_dropped = net.duplicates_dropped
  BY <1>1, Zenon DEF NetTypeOK, NetFields
<1>9. NetTypeOK'
  BY <1>1, <1>8, Zenon DEF NetTypeOK
<1>10. LedgerBalances'
  BY <1>1, <1>3, <1>8, Zenon DEF LedgerBalances, Returned, n
<1> QED BY <1>1, <1>3, <1>5, <1>7, <1>8, <1>9, <1>10, Zenon DEF LedgerInv


-----------------------------------------------------------------------------
(***************************************************************************)
(* The walk of measure_displacement.                                       *)
(***************************************************************************)
FreshWalk == [max_seen |-> -1, lateness |-> <<>>, gaps |-> 0, max_gap |-> 0]

WalkInv ==
  LET done == Len(walked.lateness)
  IN  phase # "sending" =>
        /\ walked.lateness \in Seq(0 .. NumPackets) /\ done <= Len(schedule)
        /\ phase = "returned" => done = Len(schedule)
        /\ walked.max_seen \in Int /\ NewestOf(walked.max_seen, Before(done + 1))
        /\ \A p \in 1 .. done : walked.lateness[p] = LatenessOf(p)
        /\ walked.gaps = Cardinality({p \in 1 .. done : GapOf(p) > 0})
        /\ walked.max_gap \in Nat
        /\ IsMax(walked.max_gap, {GapOf(p) : p \in 1 .. done})

(* The walk begins where the sort ends.                                    *)
LEMMA WalkBegins ==
  ASSUME Counting, LedgerInv', walked = FreshWalk, UNCHANGED walked, phase' = "measuring"
  PROVE  WalkInv'
<1> DEFINE w == walked'
<1>1. w.max_seen = -1 /\ w.lateness = <<>> /\ w.gaps = 0 /\ w.max_gap = 0
  BY DEF FreshWalk
<1>2. Len(w.lateness) = 0 /\ w.lateness \in Seq(0 .. NumPackets)
  BY <1>1
<1>3. 1 .. 0 = {} /\ 1 .. (0 + 1) - 1 = {}
  OBVIOUS
<1>4. NewestOf(w.max_seen, {schedule'[q][2] : q \in 1 .. (0 + 1) - 1})
  <2>1. {schedule'[q][2] : q \in 1 .. (0 + 1) - 1} = {}
    BY <1>3, Zenon
  <2> QED BY <1>1, <2>1, Zenon DEF NewestOf
<1>5. {p \in 1 .. 0 : GapOf(p)' > 0} = {} /\ {GapOf(p)' : p \in 1 .. 0} = {}
  BY <1>3, Zenon
<1>6. w.gaps = Cardinality({p \in 1 .. 0 : GapOf(p)' > 0})
  BY <1>1, <1>5, Zenon DEF Counting
<1>7. IsMax(w.max_gap, {GapOf(p)' : p \in 1 .. 0})
  BY <1>1, <1>5, Zenon DEF IsMax
<1>8. \A p \in 1 .. 0 : w.lateness[p] = LatenessOf(p)'
  BY <1>3, Zenon
<1>9. 0 <= Len(schedule') /\ w.max_seen \in Int /\ w.max_gap \in Nat
  BY <1>1 DEF LedgerInv, ScheduleInv
<1>10. phase' # "returned"
  OBVIOUS
<1> QED BY <1>2, <1>4, <1>6, <1>7, <1>8, <1>9, <1>10, Zenon DEF WalkInv, Before

(* The largest of the values with one value more.                          *)
LEMMA MaxNext ==
  ASSUME NEW S \in SUBSET Nat, NEW m \in Nat, IsMax(m, S), NEW x \in Nat
  PROVE  IsMax(IF x > m THEN x ELSE m, S \cup {x})
BY DEF IsMax

(* One iteration of the walk.                                              *)
LEMMA WalkKeepsInv ==
  ASSUME Counting, LedgerInv, WalkInv, Walk
  PROVE  WalkInv'
<1> DEFINE done == Len(walked.lateness)
           p == done + 1
           i == schedule[p][2]
           m == walked.max_seen
           late == IF i < m THEN m - i ELSE 0
           skipped == IF i > m THEN i - m - 1 ELSE 0
<1>1. /\ phase = "measuring" /\ done < Len(schedule)
      /\ walked' = walk(walked, i) /\ UNCHANGED <<phase, cursor, in_bad, schedule, net>>
  BY Zenon DEF Walk
<1>2. ScheduleInv /\ Len(schedule) \in Nat
  BY DEF LedgerInv, ScheduleInv
<1>3. /\ walked.lateness \in Seq(0 .. NumPackets) /\ done \in Nat
      /\ m \in Int /\ NewestOf(m, Before(p))
      /\ \A q \in 1 .. done : walked.lateness[q] = LatenessOf(q)
      /\ walked.gaps = Cardinality({q \in 1 .. done : GapOf(q) > 0})
      /\ walked.max_gap \in Nat
      /\ IsMax(walked.max_gap, {GapOf(q) : q \in 1 .. done})
  BY <1>1 DEF WalkInv
<1>4. /\ walked'.max_seen = IF i > m THEN i ELSE m
      /\ walked'.lateness = Append(walked.lateness, late)
      /\ walked'.gaps = walked.gaps + Tick(skipped > 0)
      /\ walked'.max_gap = IF skipped > walked.max_gap THEN skipped ELSE walked.max_gap
  BY <1>1, Zenon DEF walk
<1> HIDE DEF done
<1>5. p \in Positions /\ p \in Nat \ {0}
  BY <1>1, <1>2, <1>3 DEF Positions
<1>6. /\ LatenessOf(p) = late /\ GapOf(p) = skipped /\ m >= -1 /\ m < NumPackets
      /\ i \in Nat /\ Before(p) \subseteq Nat
  <2>1. LatenessOf(p) = late
    BY <1>2, <1>3, <1>5, LatenessValue, Zenon
  <2>2. GapOf(p) = skipped /\ m >= -1 /\ m < NumPackets
    BY <1>2, <1>3, <1>5, GapValue, Zenon
  <2>3. 0 .. NumPackets - 1 \subseteq Nat
    BY NetworkAssumption
  <2> QED BY <1>2, <1>5, <2>1, <2>2, <2>3, NotBefore, Zenon
<1>7. late \in 0 .. NumPackets /\ skipped \in Nat
  BY <1>3, <1>6, NetworkAssumption
<1> HIDE DEF late, skipped, i, m
<1>8. /\ walked'.lateness \in Seq(0 .. NumPackets) /\ Len(walked'.lateness) = p
      /\ \A q \in 1 .. done : walked'.lateness[q] = walked.lateness[q]
      /\ walked'.lateness[p] = late
  <2>1. Len(walked.lateness) = done
    BY DEF done
  <2> QED BY <1>3, <1>4, <1>7, <2>1
<1>9. 1 .. p = (1 .. done) \cup {p} /\ p \notin 1 .. done
  BY <1>3
<1>10. /\ \A q : LatenessOf(q)' = LatenessOf(q)
       /\ \A q : GapOf(q)' = GapOf(q)
       /\ \A q : Before(q)' = Before(q)
  BY <1>1, SameSchedule, Zenon
<1>11. \A q \in 1 .. p : walked'.lateness[q] = LatenessOf(q)
  BY <1>3, <1>6, <1>8, <1>9, Zenon
<1>12. walked'.max_seen \in Int /\ NewestOf(walked'.max_seen, Before(p + 1))
  <2>1. Before(p + 1) = Before(p) \cup {i}
    BY <1>5, BeforeNext, Zenon DEF i
  <2>2. NewestOf(IF i > m THEN i ELSE m, Before(p) \cup {i})
    BY <1>3, <1>6, NewestNext, Zenon
  <2>3. (IF i > m THEN i ELSE m) \in Int
    BY <1>3, <1>6
  <2> QED BY <1>4, <2>1, <2>2, <2>3, Zenon
<1>13. walked'.gaps = Cardinality({q \in 1 .. p : GapOf(q) > 0})
  <2> DEFINE S == {q \in 1 .. done : GapOf(q) > 0}
             T == {q \in 1 .. p : GapOf(q) > 0}
  <2>1. IsFiniteSet(S) /\ p \notin S /\ Cardinality(S) \in Nat
    <3>1. S \in SUBSET (1 .. done) /\ p \notin S
      BY <1>9, Zenon
    <3>2. 1 \in Int /\ done \in Int
      BY <1>3
    <3> HIDE DEF S
    <3>3. IsFiniteSet(1 .. done)
      BY <3>2, IntervalCount, Zenon
    <3> QED BY <3>1, <3>3, SubsetCount, Zenon
  <2>2. T = IF skipped > 0 THEN S \cup {p} ELSE S
    BY <1>6, <1>9, Zenon
  <2> HIDE DEF S, T
  <2>3. CASE skipped > 0
    <3>1. Cardinality(T) = Cardinality(S) + 1
      BY <2>1, <2>2, <2>3, OneMoreElement, Zenon
    <3> QED BY <1>3, <1>4, <2>3, <3>1, Zenon DEF Tick, S, T
  <2>4. CASE ~(skipped > 0)
    <3>1. walked'.gaps = Cardinality(S) + 0 /\ T = S
      BY <1>3, <1>4, <2>2, <2>4, Zenon DEF Tick, S
    <3>2. Cardinality(S) + 0 = Cardinality(S)
      BY <2>1
    <3> QED BY <3>1, <3>2, Zenon DEF T
  <2> QED BY <2>3, <2>4, Zenon
<1>14. walked'.max_gap \in Nat /\ IsMax(walked'.max_gap, {GapOf(q) : q \in 1 .. p})
  <2> DEFINE S == {GapOf(q) : q \in 1 .. done}
  <2>1. {GapOf(q) : q \in 1 .. p} = S \cup {skipped}
    BY <1>6, <1>9, Zenon
  <2>2. S \in SUBSET Nat
    <3> SUFFICES ASSUME NEW q \in 1 .. done PROVE GapOf(q) \in Nat
      BY Zenon
    <3>1. q \in Positions
      BY <1>1, <1>2, <1>3 DEF Positions
    <3> QED BY <1>2, <3>1, GapNat, Zenon
  <2> HIDE DEF S
  <2>3. IsMax(walked.max_gap, S)
    BY <1>3, Zenon DEF S
  <2>4. IsMax(IF skipped > walked.max_gap THEN skipped ELSE walked.max_gap, S \cup {skipped})
    BY <1>3, <1>7, <2>2, <2>3, MaxNext, Zenon
  <2> QED BY <1>3, <1>4, <1>7, <2>1, <2>4, Zenon
<1>15. p <= Len(schedule') /\ phase' = "measuring"
  BY <1>1, <1>2, <1>3
<1>16. /\ \A q \in 1 .. p : walked'.lateness[q] = LatenessOf(q)'
       /\ NewestOf(walked'.max_seen, {schedule'[q][2] : q \in 1 .. (p + 1) - 1})
       /\ walked'.gaps = Cardinality({q \in 1 .. p : GapOf(q)' > 0})
       /\ IsMax(walked'.max_gap, {GapOf(q)' : q \in 1 .. p})
  <2>1. {schedule'[q][2] : q \in 1 .. (p + 1) - 1} = Before(p + 1)
    BY <1>1, Zenon DEF Before
  <2>2. /\ {q \in 1 .. p : GapOf(q)' > 0} = {q \in 1 .. p : GapOf(q) > 0}
        /\ {GapOf(q)' : q \in 1 .. p} = {GapOf(q) : q \in 1 .. p}
    BY <1>10, Zenon
  <2> QED BY <1>10, <1>11, <1>12, <1>13, <1>14, <2>1, <2>2, Zenon
<1>17. phase' # "sending" /\ phase' # "returned" /\ Len(walked'.lateness) = p
  BY <1>8, <1>15
<1> HIDE DEF p
<1> QED BY <1>8, <1>12, <1>14, <1>15, <1>16, <1>17, Zenon DEF WalkInv, Before

(* at_sorted finds the value at a position of the sorted values.           *)
(* SortedPositionExists proves it at the end of the module.                *)
SortsValues ==
  \A values \in Seq(0 .. NumPackets) : \A k \in 1 .. Len(values) :
    LET v == at_sorted(values, k)
    IN  /\ \E i \in 1 .. Len(values) : v = values[i]
        /\ CountUpTo(values, v) >= k
        /\ CountUpTo(values, v - 1) < k

LEMMA SortedAt ==
  ASSUME SortsValues, NEW values \in Seq(0 .. NumPackets), NEW k \in 1 .. Len(values)
  PROVE  /\ \E i \in 1 .. Len(values) : at_sorted(values, k) = values[i]
         /\ CountUpTo(values, at_sorted(values, k)) >= k
BY Zenon DEF SortsValues

(* The percentiles of DisplacementStats, in thousandths.                   *)
Percentiles == {500, 990, 999}

(* The position of a percentile has its share of the values at or before,  *)
(* to within half a value.                                                 *)
LEMMA PercentileRank ==
  ASSUME NEW n \in Nat, n > 0, NEW q \in Percentiles
  PROVE  /\ rank(n, q) + 1 \in 1 .. n
         /\ 1000 * (rank(n, q) + 1) >= q * (n - 1) + 500
<1> DEFINE x == 2 * (n - 1) * q + 1000
           r == x \div 2000
<1>1. rank(n, q) = r
  BY Zenon DEF rank
<1>2. /\ x \in Nat /\ x = 2 * (q * (n - 1)) + 1000 /\ q * (n - 1) \in Nat
      /\ q * (n - 1) <= 999 * (n - 1)
  BY DEF Percentiles
<1> HIDE DEF x
<1>3. r \in Int /\ 2000 * r <= x /\ x < 2000 * r + 2000 /\ r >= 0
  BY <1>2
<1> HIDE DEF r
<1> DEFINE y == q * (n - 1)
<1>4. y \in Nat /\ y <= 999 * (n - 1) /\ x = 2 * y + 1000
  BY <1>2
<1> HIDE DEF y
<1>5. r + 1 \in 1 .. n /\ 1000 * (r + 1) >= y + 500
  BY <1>3, <1>4
<1> QED BY <1>1, <1>5, Zenon DEF y

(* The statistics of a finished walk.                                      *)
LEMMA MeasuredValues ==
  ASSUME Counting, SortsValues, LedgerInv, WalkInv,
         phase # "sending", Len(walked.lateness) = Len(schedule),
         NEW D, D = measured(walked.lateness)
  PROVE  /\ D.reordered = Cardinality({p \in Positions : LatenessOf(p) > 0})
         /\ IsMax(D.max_lateness, {LatenessOf(p) : p \in Positions})
         /\ D.gaps = Cardinality({p \in Positions : GapOf(p) > 0})
         /\ IsMax(D.max_gap, {GapOf(p) : p \in Positions})
         /\ PercentilesHold(D)
<1> DEFINE L == walked.lateness
           n == Len(L)
<1>1. /\ L \in Seq(0 .. NumPackets) /\ n \in Nat /\ Positions = 1 .. n
      /\ \A p \in 1 .. n : L[p] = LatenessOf(p)
      /\ walked.gaps = Cardinality({p \in 1 .. n : GapOf(p) > 0})
      /\ IsMax(walked.max_gap, {GapOf(p) : p \in 1 .. n})
      /\ Len(schedule) = n
  BY DEF WalkInv, Positions
<1>2. NumPackets \in Nat /\ \A p \in 1 .. n : L[p] \in 0 .. NumPackets
  BY <1>1, NetworkAssumption
<1>3. IsFiniteSet(1 .. n) /\ Cardinality(1 .. n) = n
  <2>1. 1 \in Int /\ n \in Int
    BY <1>1
  <2> HIDE DEF n
  <2>2. IsFiniteSet(1 .. n) /\ Cardinality(1 .. n) = IF 1 <= n THEN n - 1 + 1 ELSE 0
    BY <2>1, IntervalCount, Zenon
  <2> QED BY <1>1, <2>2
<1>4. CASE n = 0
  <2>1. D = NoDisplacement
    BY <1>4, Zenon DEF measured
  <2>2. D.reordered = 0 /\ D.max_lateness = 0 /\ D.gaps = 0 /\ D.max_gap = 0
    BY <2>1 DEF NoDisplacement
  <2>3. Positions = {}
    BY <1>1, <1>4
  <2>4. /\ {p \in Positions : LatenessOf(p) > 0} = {} /\ {LatenessOf(p) : p \in Positions} = {}
        /\ {p \in Positions : GapOf(p) > 0} = {} /\ {GapOf(p) : p \in Positions} = {}
        /\ \A v : {p \in Positions : LatenessOf(p) <= v} = {}
    BY <2>3, Zenon
  <2>5. Cardinality({}) = 0
    BY Zenon DEF Counting
  <2>6. \A v : \A q \in Percentiles : ShareUpTo(v, q)
    <3> SUFFICES ASSUME NEW v, NEW q \in Percentiles PROVE ShareUpTo(v, q)
      BY Zenon
    <3> DEFINE c == Cardinality({p \in Positions : LatenessOf(p) <= v})
    <3>1. Len(schedule) = 0 /\ c = 0
      BY <1>1, <1>4, <2>4, <2>5, Zenon
    <3>2. ShareUpTo(v, q) <=> 1000 * c >= q * (Len(schedule) - 1) + 500
      BY DEF ShareUpTo
    <3> HIDE DEF c
    <3> QED BY <3>1, <3>2 DEF Percentiles
  <2>7. PercentilesHold(D)
    BY <2>6 DEF PercentilesHold, Percentiles
  <2> QED BY <2>2, <2>4, <2>5, <2>7, Zenon DEF IsMax
<1>5. CASE n # 0
  <2> DEFINE x == at_sorted(L, n)
  <2>1. /\ D.reordered = Cardinality({k \in 1 .. n : L[k] > 0})
        /\ D.max_lateness = x
        /\ D.gaps = walked.gaps /\ D.max_gap = walked.max_gap
        /\ D.p50 = pct(L, 500) /\ D.p99 = pct(L, 990) /\ D.p99_9 = pct(L, 999)
    <3>1. D = [reordered |-> Cardinality({k \in 1 .. n : L[k] > 0}),
               max_lateness |-> x, p50 |-> pct(L, 500), p99 |-> pct(L, 990),
               p99_9 |-> pct(L, 999), gaps |-> walked.gaps, max_gap |-> walked.max_gap]
      BY <1>5 DEF measured
    <3> HIDE DEF x, n, L
    <3> QED BY <3>1
  <2>2. n > 0 /\ n \in 1 .. n
    BY <1>1, <1>5
  <2>3. (\E i \in 1 .. n : x = L[i]) /\ CountUpTo(L, x) >= n
    <3> HIDE DEF L
    <3> QED BY <1>1, <2>2, SortedAt, Zenon DEF x, n
  <2> HIDE DEF x
  <2>4. {k \in 1 .. n : L[k] > 0} = {p \in Positions : LatenessOf(p) > 0}
    BY <1>1, Zenon
  <2>5. IsMax(x, {LatenessOf(p) : p \in Positions})
    <3> DEFINE U == {i \in 1 .. n : L[i] <= x}
    <3>1. U \in SUBSET (1 .. n) /\ CountUpTo(L, x) = Cardinality(U)
      BY Zenon DEF CountUpTo
    <3> HIDE DEF U
    <3>2. Cardinality(U) \in Nat /\ Cardinality(U) <= n /\ (Cardinality(U) = n => U = 1 .. n)
      BY <1>3, <3>1, SubsetCount, Zenon
    <3>3. U = 1 .. n
      BY <1>1, <2>3, <3>1, <3>2
    <3>4. \A i \in 1 .. n : LatenessOf(i) <= x
      BY <1>1, <3>3, Zenon DEF U
    <3> QED BY <1>1, <2>3, <3>4, Zenon DEF IsMax
  <2>6. ASSUME NEW q \in Percentiles PROVE ShareUpTo(pct(L, q), q)
    <3> DEFINE r == rank(n, q)
               y == at_sorted(L, r + 1)
               U == {i \in 1 .. n : L[i] <= y}
    <3>1. r + 1 \in 1 .. n /\ 1000 * (r + 1) >= q * (n - 1) + 500
      <4> HIDE DEF n
      <4> QED BY <1>1, <2>2, PercentileRank
    <3>2. CountUpTo(L, y) >= r + 1 /\ pct(L, q) = y
      <4> HIDE DEF r, L
      <4>1. CountUpTo(L, y) >= r + 1
        BY <1>1, <3>1, SortedAt, Zenon DEF n
      <4> QED BY <4>1, Zenon DEF pct, r, n
    <3> HIDE DEF r, y
    <3>3. U \in SUBSET (1 .. n) /\ CountUpTo(L, y) = Cardinality(U)
          /\ U = {p \in Positions : LatenessOf(p) <= y}
      BY <1>1, Zenon DEF CountUpTo
    <3> HIDE DEF U
    <3>4. Cardinality(U) \in Nat
      BY <1>3, <3>3, SubsetCount, Zenon
    <3>5. Cardinality(U) >= r + 1
      BY <3>2, <3>3, Zenon
    <3>6. 1000 * Cardinality(U) >= q * (n - 1) + 500
      <4> DEFINE z == q * (n - 1)
      <4>1. z \in Int
        BY <1>1 DEF Percentiles
      <4>2. r + 1 \in Int /\ 1000 * (r + 1) >= z + 500
        BY <3>1
      <4> HIDE DEF z, n
      <4> QED
        <5>1. 1000 * Cardinality(U) >= z + 500
          <6> DEFINE s == r + 1
          <6>1. s \in Int /\ 1000 * s >= z + 500 /\ Cardinality(U) >= s
            BY <3>5, <4>2
          <6> HIDE DEF s
          <6> QED BY <3>4, <4>1, <6>1
        <5> QED BY <5>1, Zenon DEF z
    <3>7. ShareUpTo(y, q) <=> 1000 * Cardinality(U) >= q * (n - 1) + 500
      <4> HIDE DEF n
      <4> QED BY <1>1, <3>3 DEF ShareUpTo
    <3> QED
      <4> HIDE DEF n
      <4> QED BY <3>2, <3>6, <3>7
  <2>7. PercentilesHold(D)
    <3> HIDE DEF L
    <3> QED BY <2>1, <2>6 DEF PercentilesHold, Percentiles
  <2>8. /\ D.reordered = Cardinality({k \in 1 .. n : L[k] > 0})
        /\ D.max_lateness = x
        /\ D.gaps = walked.gaps /\ D.max_gap = walked.max_gap
    BY <2>1
  <2> QED BY <1>1, <2>4, <2>5, <2>7, <2>8, Zenon
<1> QED BY <1>4, <1>5, Zenon

-----------------------------------------------------------------------------
(***************************************************************************)
(* The whole of disturb.                                                   *)
(***************************************************************************)
NetInv ==
  /\ LedgerInv
  /\ phase = "sending" => walked = FreshWalk
  /\ WalkInv
  /\ DisplacementExact

LEMMA NetInitial ==
  ASSUME Counting, NetInit
  PROVE  NetInv
<1>1. /\ phase = "sending" /\ cursor = 0 /\ schedule = <<>> /\ walked = FreshWalk
      /\ net = [sent |-> NumPackets, delivered |-> 0, lost_a |-> 0, lost_b |-> 0,
                lost_packets |-> 0, wins_a |-> 0, wins_b |-> 0,
                duplicates_dropped |-> 0, displacement |-> NoDisplacement]
  BY Zenon DEF NetInit, FreshWalk
<1>2. /\ net.sent = NumPackets /\ net.lost_a = 0 /\ net.lost_b = 0 /\ net.lost_packets = 0
      /\ net.wins_a = 0 /\ net.wins_b = 0 /\ net.duplicates_dropped = 0
      /\ DOMAIN net = NetFields
  BY <1>1 DEF NetFields
<1>3. NetTypeOK
  BY <1>1, <1>2, NetworkAssumption DEF NetTypeOK
<1>4. Len(schedule) = 0 /\ Positions = {} /\ schedule \in Seq(Int \X Nat)
  BY <1>1 DEF Positions
<1>5. ScheduleInv /\ \A p \in Positions : schedule[p][2] < cursor
  BY <1>4, Zenon DEF ScheduleInv
<1>6. LedgerBalances
  <2>1. Cardinality(Paths) \in Int /\ 0 * Cardinality(Paths) = 0
    BY PathCount
  <2> QED BY <1>1, <1>2, <1>4, <2>1 DEF LedgerBalances, Returned
<1> QED BY <1>1, <1>3, <1>5, <1>6, Zenon DEF NetInv, LedgerInv, WalkInv, DisplacementExact, Returned

(* The walk leaves the ledger alone.                                       *)
LEMMA LedgerSame ==
  ASSUME LedgerInv, UNCHANGED <<phase, cursor, schedule, net>>
  PROVE  LedgerInv'
BY Zenon DEF LedgerInv, NetTypeOK, ScheduleInv, LedgerBalances, Returned, Positions

(* What the percentiles are compared with depends on the schedule only.    *)
LEMMA SharesSame ==
  ASSUME UNCHANGED schedule, NEW CONSTANT v, NEW CONSTANT q
  PROVE  ShareUpTo(v, q)' <=> ShareUpTo(v, q)
<1> DEFINE c == Cardinality({p \in Positions : LatenessOf(p) <= v})
<1>1. \A p : LatenessOf(p)' = LatenessOf(p)
  BY SameSchedule, Zenon
<1>2. c' = c /\ Len(schedule)' = Len(schedule)
  BY <1>1, Zenon DEF Positions
<1>3. ShareUpTo(v, q) <=> 1000 * c >= q * (Len(schedule) - 1) + 500
  BY DEF ShareUpTo
<1>4. ShareUpTo(v, q)' <=> 1000 * c' >= q * (Len(schedule)' - 1) + 500
  BY DEF ShareUpTo
<1> HIDE DEF c
<1> QED BY <1>2, <1>3, <1>4

LEMMA NetSame ==
  ASSUME NetInv, UNCHANGED netVars
  PROVE  NetInv'
<1>1. LedgerInv' /\ UNCHANGED <<phase, cursor, schedule, walked, net>>
  BY LedgerSame, Zenon DEF NetInv, netVars
<1>2. /\ \A q : LatenessOf(q)' = LatenessOf(q)
      /\ \A q : GapOf(q)' = GapOf(q)
  BY <1>1, SameSchedule, Zenon
<1>3. WalkInv'
  BY <1>1, <1>2, Zenon DEF NetInv, WalkInv, Before
<1>4. DisplacementExact'
  <2>1. ASSUME PercentilesHold(net.displacement) PROVE PercentilesHold(net.displacement)'
    BY <1>1, <2>1, SharesSame DEF PercentilesHold
  <2> QED BY <1>1, <1>2, <2>1, Zenon DEF NetInv, DisplacementExact, Returned, Positions
<1> QED BY <1>1, <1>3, <1>4, Zenon DEF NetInv

LEMMA MeasureKeepsInv ==
  ASSUME Counting, SortsValues, NetInv, measure_displacement
  PROVE  NetInv'
<1> DEFINE D == measured(walked.lateness)
<1>1. /\ LedgerInv /\ WalkInv /\ phase = "measuring" /\ phase' = "returned"
      /\ Len(walked.lateness) = Len(schedule)
      /\ net' = [net EXCEPT !.displacement = D]
      /\ UNCHANGED <<cursor, in_bad, schedule, walked>>
  BY Zenon DEF NetInv, measure_displacement
<1>2. /\ DOMAIN net' = NetFields /\ net'.displacement = D
      /\ net'.sent = net.sent /\ net'.lost_a = net.lost_a /\ net'.lost_b = net.lost_b
      /\ net'.lost_packets = net.lost_packets /\ net'.wins_a = net.wins_a
      /\ net'.wins_b = net.wins_b /\ net'.duplicates_dropped = net.duplicates_dropped
      /\ net'.delivered = net.delivered
  BY <1>1, Zenon DEF LedgerInv, NetTypeOK, NetFields
<1>3. phase # "sending"
  BY <1>1
<1>4. /\ D.reordered = Cardinality({p \in Positions : LatenessOf(p) > 0})
      /\ IsMax(D.max_lateness, {LatenessOf(p) : p \in Positions})
      /\ D.gaps = Cardinality({p \in Positions : GapOf(p) > 0})
      /\ IsMax(D.max_gap, {GapOf(p) : p \in Positions})
      /\ PercentilesHold(D)
  BY <1>1, <1>3, MeasuredValues, Zenon
<1> HIDE DEF D
<1>5. /\ \A q : LatenessOf(q)' = LatenessOf(q)
      /\ \A q : GapOf(q)' = GapOf(q)
  BY <1>1, SameSchedule, Zenon
<1>6. DisplacementExact'
  <2>1. PercentilesHold(net.displacement)'
    BY <1>1, <1>2, <1>4, SharesSame DEF PercentilesHold
  <2> QED BY <1>1, <1>2, <1>4, <1>5, <2>1, Zenon DEF DisplacementExact, Positions
<1>7. WalkInv'
  BY <1>1, <1>3, <1>5, Zenon DEF WalkInv, Before
<1>8. NetTypeOK'
  BY <1>1, <1>2, Zenon DEF LedgerInv, NetTypeOK
<1>9. LedgerBalances'
  BY <1>1, <1>2, <1>3, Zenon DEF LedgerInv, NetTypeOK, LedgerBalances
<1>10. LedgerInv'
  BY <1>1, <1>2, <1>3, <1>8, <1>9, Zenon DEF LedgerInv, ScheduleInv, Positions
<1>11. phase' # "sending"
  BY <1>1
<1> QED BY <1>6, <1>7, <1>10, <1>11, Zenon DEF NetInv

LEMMA NetStep ==
  ASSUME Counting, SortsStably, SortsValues, NetInv, NetNext
  PROVE  NetInv'
<1>1. CASE Transit
  <2>1. LedgerInv' /\ phase' = "sending" /\ walked' = FreshWalk
    BY <1>1, TransitKeepsLedger, Zenon DEF NetInv, Transit
  <2>2. phase' # "returned"
    BY <2>1
  <2> QED BY <2>1, <2>2, Zenon DEF NetInv, WalkInv, DisplacementExact, Returned
<1>2. CASE sort_arrivals
  <2>1. LedgerInv' /\ phase' = "measuring" /\ walked = FreshWalk /\ UNCHANGED walked
    BY <1>2, SortKeepsLedger, Zenon DEF NetInv, sort_arrivals
  <2>2. phase' # "returned" /\ phase' # "sending"
    BY <2>1
  <2>3. WalkInv'
    BY <2>1, WalkBegins, Zenon
  <2> QED BY <2>1, <2>2, <2>3, Zenon DEF NetInv, DisplacementExact, Returned
<1>3. CASE Walk
  <2>1. phase = "measuring" /\ UNCHANGED <<phase, cursor, schedule, net>>
    BY <1>3, Zenon DEF Walk
  <2>2. phase' # "returned" /\ phase' # "sending"
    BY <2>1
  <2>3. LedgerInv' /\ WalkInv'
    BY <1>3, <2>1, LedgerSame, WalkKeepsInv, Zenon DEF NetInv
  <2> QED BY <2>2, <2>3, Zenon DEF NetInv, DisplacementExact, Returned
<1>4. CASE measure_displacement
  BY <1>4, MeasureKeepsInv, Zenon
<1> QED BY <1>1, <1>2, <1>3, <1>4, Zenon DEF NetNext

-----------------------------------------------------------------------------
(***************************************************************************)
(* Sorting, from three more facts that the library proves at the end of    *)
(* the module: an injective sequence has as many elements as positions, an *)
(* injection between sets of one size is onto, and a set of numbers has a  *)
(* least one.                                                              *)
(***************************************************************************)
DistinctCounted ==
  \A n \in Nat : \A f, T :
    (/\ f \in [1 .. n -> T]
     /\ \A p, q \in 1 .. n : f[p] = f[q] => p = q
     /\ \A t \in T : \E p \in 1 .. n : f[p] = t)
    => IsFiniteSet(T) /\ Cardinality(T) = n

OneToOneIsOnto ==
  \A S, T, f :
    (/\ f \in [S -> T] /\ IsFiniteSet(T) /\ Cardinality(S) = Cardinality(T)
     /\ \A x, y \in S : f[x] = f[y] => x = y)
    => \A t \in T : \E x \in S : f[x] = t

LEMMA DistinctCount ==
  ASSUME DistinctCounted, NEW n \in Nat, NEW T, NEW f, f \in [1 .. n -> T],
         \A p, q \in 1 .. n : f[p] = f[q] => p = q,
         \A t \in T : \E p \in 1 .. n : f[p] = t
  PROVE  IsFiniteSet(T) /\ Cardinality(T) = n
BY DEF DistinctCounted

LEMMA OntoInterval ==
  ASSUME Counting, OneToOneIsOnto, NEW n \in Nat, NEW S, Cardinality(S) = n,
         NEW f, f \in [S -> 0 .. n - 1],
         \A x, y \in S : f[x] = f[y] => x = y
  PROVE  \A k \in 0 .. n - 1 : \E x \in S : f[x] = k
<1> DEFINE T == 0 .. n - 1
<1>1. 0 \in Int /\ n - 1 \in Int
  OBVIOUS
<1>2. IsFiniteSet(T) /\ Cardinality(T) = IF 0 <= n - 1 THEN (n - 1) - 0 + 1 ELSE 0
  BY <1>1, IntervalCount, Zenon
<1>3. Cardinality(T) = n
  BY <1>2
<1>4. f \in [S -> T]
  BY Zenon
<1> HIDE DEF T
<1>5. \A t \in T : \E x \in S : f[x] = t
  BY <1>2, <1>3, <1>4 DEF OneToOneIsOnto
<1> QED BY <1>5, Zenon DEF T

LeastNumber ==
  \A S \in SUBSET Nat : S # {} => \E m \in S : \A y \in S : ~(y < m)

(* The position of an entry in the sorted order is how many are earlier.   *)
Ranked(set, n) ==
  /\ \A k \in 1 .. n : \E e \in set : Cardinality({x \in set : Earlier(x, e)}) = k - 1
  /\ \A x, y \in set :
       Cardinality({z \in set : Earlier(z, x)}) < Cardinality({z \in set : Earlier(z, y)})
       => Earlier(x, y)

LEMMA EveryPositionTaken ==
  ASSUME Counting, DistinctCounted, OneToOneIsOnto,
         NEW n \in Nat, NEW entries, NEW set, set \subseteq Int \X Nat,
         entries \in [1 .. n -> set],
         \A e \in set : \E p \in 1 .. n : entries[p] = e,
         \A p, q \in 1 .. n : entries[p][2] = entries[q][2] => p = q
  PROVE  Ranked(set, n)
<1>1. n \in Nat
  OBVIOUS
<1>3. \A p, q \in 1 .. n : entries[p] = entries[q] => p = q
  BY Zenon
<1>4. IsFiniteSet(set) /\ Cardinality(set) = n
  BY <1>3, DistinctCount, Zenon
<1>5. \A x \in set : x[1] \in Int /\ x[2] \in Int
  OBVIOUS
<1>6. \A x, y \in set : x # y => x[2] # y[2]
  <2> SUFFICES ASSUME NEW x \in set, NEW y \in set, x[2] = y[2] PROVE x = y
    BY Zenon
  <2>1. PICK p \in 1 .. n : x = entries[p]
    BY Zenon
  <2>2. PICK q \in 1 .. n : y = entries[q]
    BY Zenon
  <2>3. entries[p][2] = entries[q][2]
    BY <2>1, <2>2, Zenon
  <2>4. p = q
    BY <2>3, Zenon
  <2> QED BY <2>1, <2>2, <2>4, Zenon
<1>7. /\ \A x \in set : ~Earlier(x, x)
      /\ \A x, y, z \in set : Earlier(x, y) /\ Earlier(y, z) => Earlier(x, z)
      /\ \A x, y \in set : x # y => Earlier(x, y) \/ Earlier(y, x)
  <2>1. \A x \in set : ~Earlier(x, x)
    BY <1>5 DEF Earlier
  <2>2. \A x, y, z \in set : Earlier(x, y) /\ Earlier(y, z) => Earlier(x, z)
    BY <1>5 DEF Earlier
  <2>3. \A x, y \in set : x # y => Earlier(x, y) \/ Earlier(y, x)
    BY <1>5, <1>6 DEF Earlier
  <2> QED BY <2>1, <2>2, <2>3, Zenon
<1> DEFINE B(e) == {x \in set : Earlier(x, e)}
           r(e) == Cardinality(B(e))
<1>8. \A e \in set : r(e) \in 0 .. n - 1
  <2> SUFFICES ASSUME NEW e \in set PROVE r(e) \in 0 .. n - 1
    BY Zenon
  <2>1. B(e) \in SUBSET set /\ B(e) # set
    BY <1>7, Zenon
  <2> HIDE DEF B
  <2>2. IsFiniteSet(B(e)) /\ Cardinality(B(e)) <= n /\ Cardinality(B(e)) # n
    <3> DEFINE T == B(e)
    <3>1. T \in SUBSET set /\ T # set
      BY <2>1, Zenon
    <3> HIDE DEF T
    <3>2. /\ IsFiniteSet(T) /\ Cardinality(T) <= Cardinality(set)
          /\ Cardinality(T) = Cardinality(set) => T = set
      BY <1>4, <3>1, SubsetCount, Zenon
    <3>3. IsFiniteSet(T) /\ Cardinality(T) <= n /\ Cardinality(T) # n
      BY <1>4, <3>1, <3>2, Zenon
    <3> QED BY <3>3, Zenon DEF T
  <2>3. Cardinality(B(e)) \in Nat
    BY <2>2, Zenon DEF Counting
  <2> QED BY <1>1, <2>2, <2>3
<1>9. \A x, y \in set : Earlier(x, y) => r(x) < r(y)
  <2> SUFFICES ASSUME NEW x \in set, NEW y \in set, Earlier(x, y) PROVE r(x) < r(y)
    BY Zenon
  <2>1. B(x) \in SUBSET B(y) /\ x \in B(y) /\ x \notin B(x)
    BY <1>7, Zenon
  <2>2. B(y) \in SUBSET set
    BY Zenon
  <2>3. r(x) \in Int /\ r(y) \in Int
    <3> HIDE DEF r
    <3>1. r(x) \in 0 .. n - 1 /\ r(y) \in 0 .. n - 1
      BY <1>8, Zenon
    <3> QED BY <1>1, <3>1
  <2> HIDE DEF B
  <2>4. IsFiniteSet(B(y)) /\ B(x) # B(y)
    BY <1>4, <2>1, <2>2, SubsetCount, Zenon
  <2>5. Cardinality(B(x)) <= Cardinality(B(y)) /\ Cardinality(B(x)) # Cardinality(B(y))
    BY <2>1, <2>4, SubsetCount, Zenon
  <2> QED BY <2>3, <2>5
<1> HIDE DEF r
<1>10. \A x, y \in set : r(x) < r(y) => Earlier(x, y)
  <2> SUFFICES ASSUME NEW x \in set, NEW y \in set, r(x) < r(y) PROVE Earlier(x, y)
    BY Zenon
  <2>1. r(x) \in Int /\ r(y) \in Int
    BY <1>8
  <2>2. x # y /\ ~(r(y) < r(x))
    BY <2>1
  <2> QED BY <1>7, <1>9, <2>2, Zenon
<1> DEFINE f == [e \in set |-> r(e)]
<1>11. f \in [set -> 0 .. n - 1] /\ \A x, y \in set : f[x] = f[y] => x = y
  <2>1. \A x, y \in set : r(x) = r(y) => x = y
    <3> SUFFICES ASSUME NEW x \in set, NEW y \in set, r(x) = r(y) PROVE x = y
      BY Zenon
    <3>1. r(x) \in Int /\ ~(r(x) < r(y)) /\ ~(r(y) < r(x))
      BY <1>8
    <3> QED BY <1>7, <1>9, <3>1, Zenon
  <2>2. f \in [set -> 0 .. n - 1]
    BY <1>8, Zenon
  <2> QED BY <2>1, <2>2, Zenon
<1>12. \A k \in 0 .. n - 1 : \E e \in set : f[e] = k
  <2> HIDE DEF f
  <2> QED BY <1>4, <1>11, OntoInterval
<1>13. \A k \in 1 .. n : \E e \in set : r(e) = k - 1
  <2> SUFFICES ASSUME NEW k \in 1 .. n PROVE \E e \in set : r(e) = k - 1
    BY Zenon
  <2>1. k - 1 \in 0 .. n - 1
    BY <1>1
  <2>2. PICK e \in set : f[e] = k - 1
    BY <1>12, <2>1, Zenon
  <2> QED BY <2>2, Zenon
<1> QED BY <1>10, <1>13, Zenon DEF r, Ranked

LEMMA SortIsStable ==
  ASSUME Counting, DistinctCounted, OneToOneIsOnto
  PROVE  SortsStably
<1> SUFFICES ASSUME NEW entries \in Seq(Int \X Nat),
                    \A p, q \in 1 .. Len(entries) : entries[p][2] = entries[q][2] => p = q
             PROVE  LET n == Len(entries)
                        sorted == sort_by_key(entries)
                    IN  /\ sorted \in Seq(Int \X Nat) /\ Len(sorted) = n
                        /\ \A k \in 1 .. n : \E p \in 1 .. n : sorted[k] = entries[p]
                        /\ \A k, l \in 1 .. n : k < l => Earlier(sorted[k], sorted[l])
  BY Zenon DEF SortsStably
<1> DEFINE n == Len(entries)
           sorted == sort_by_key(entries)
           set == {entries[k] : k \in 1 .. n}
           r(e) == Cardinality({x \in set : Earlier(x, e)})
<1>1. n \in Nat
  OBVIOUS
<1>2. /\ set \subseteq Int \X Nat
      /\ \A k \in 1 .. n : \E e \in set : r(e) = k - 1
      /\ \A x, y \in set : r(x) < r(y) => Earlier(x, y)
  <2>1. entries \in [1 .. n -> Int \X Nat]
    OBVIOUS
  <2>2. \A k \in 1 .. n : entries[k] \in Int \X Nat /\ entries[k] \in set
    BY <2>1, Zenon
  <2>3. \A e \in set : \E k \in 1 .. n : entries[k] = e
    BY Zenon
  <2>4. entries \in [1 .. n -> set]
    <3> HIDE DEF set, n
    <3> QED BY <2>1, <2>2
  <2>5. set \subseteq Int \X Nat
    <3> SUFFICES ASSUME NEW e \in set PROVE e \in Int \X Nat
      BY Zenon
    <3>1. PICK k \in 1 .. n : entries[k] = e
      BY <2>3, Zenon
    <3> QED BY <2>2, <3>1, Zenon
  <2>6. \A p, q \in 1 .. n : entries[p][2] = entries[q][2] => p = q
    BY Zenon
  <2> HIDE DEF set, n
  <2>7. Ranked(set, n)
    BY <1>1, <2>3, <2>4, <2>5, <2>6, EveryPositionTaken
  <2> QED BY <2>5, <2>7, Zenon DEF Ranked
<1>3. sorted = [k \in 1 .. n |-> CHOOSE e \in set : r(e) = k - 1]
  BY Zenon DEF sort_by_key
<1> HIDE DEF n, r, sorted
<1>4. \A k \in 1 .. n : sorted[k] \in set /\ r(sorted[k]) = k - 1
  BY <1>2, <1>3, Zenon
<1>5. \A k \in 1 .. n : (CHOOSE e \in set : r(e) = k - 1) \in Int \X Nat
  BY <1>2, Zenon
<1>6. sorted \in [1 .. n -> Int \X Nat]
  BY <1>3, <1>5, Zenon
<1>7. sorted \in Seq(Int \X Nat) /\ Len(sorted) = n
  BY <1>1, <1>6
<1>8. \A k \in 1 .. n : \E p \in 1 .. n : sorted[k] = entries[p]
  BY <1>4, Zenon
<1>9. ASSUME NEW k \in 1 .. n, NEW l \in 1 .. n, k < l
      PROVE  Earlier(sorted[k], sorted[l])
  <2>1. k - 1 < l - 1
    BY <1>1, <1>9
  <2> QED BY <1>2, <1>4, <2>1, Zenon
<1> QED BY <1>7, <1>8, <1>9, Zenon DEF n, sorted

LEMMA SortedPositionExists ==
  ASSUME Counting, LeastNumber
  PROVE  SortsValues
<1> SUFFICES ASSUME NEW values \in Seq(0 .. NumPackets), NEW k \in 1 .. Len(values)
             PROVE  LET v == at_sorted(values, k)
                    IN  /\ \E i \in 1 .. Len(values) : v = values[i]
                        /\ CountUpTo(values, v) >= k
                        /\ CountUpTo(values, v - 1) < k
  BY Zenon DEF SortsValues
<1> DEFINE n == Len(values)
           U(v) == {i \in 1 .. n : values[i] <= v}
           C(v) == CountUpTo(values, v)
           S == {v \in Nat : C(v) >= k}
<1>1. /\ n \in Nat /\ k \in Nat /\ NumPackets \in Nat
      /\ \A i \in 1 .. n : values[i] \in Nat /\ values[i] <= NumPackets
  BY NetworkAssumption
<1>2. IsFiniteSet(1 .. n) /\ Cardinality(1 .. n) = n
  <2>1. 1 \in Int /\ n \in Int
    BY <1>1
  <2> HIDE DEF n
  <2>2. IsFiniteSet(1 .. n) /\ Cardinality(1 .. n) = IF 1 <= n THEN n - 1 + 1 ELSE 0
    BY <2>1, IntervalCount, Zenon
  <2> QED BY <1>1, <2>2
<1>3. \A v : C(v) = Cardinality(U(v)) /\ U(v) \in SUBSET (1 .. n)
  BY Zenon DEF CountUpTo
<1> HIDE DEF n, U, C
<1>4. \A v : C(v) \in Nat
  BY <1>2, <1>3, SubsetCount, Zenon
<1>5. NumPackets \in S
  <2>1. U(NumPackets) = 1 .. n
    BY <1>1, Zenon DEF U
  <2>2. C(NumPackets) = n
    BY <1>2, <1>3, <2>1, Zenon
  <2>3. n >= k
    BY <1>1 DEF n
  <2> QED BY <1>1, <2>2, <2>3, Zenon
<1>6. PICK m \in S : \A y \in S : ~(y < m)
  <2>1. S \in SUBSET Nat /\ S # {}
    BY <1>5, Zenon
  <2> HIDE DEF S
  <2> QED BY <2>1, Zenon DEF LeastNumber
<1>7. m \in Nat /\ C(m) >= k /\ \A y \in Nat : y < m => ~(C(y) >= k)
  BY <1>6, Zenon
<1>8. C(m - 1) < k
  <2>1. CASE m = 0
    <3>1. U(m - 1) = {}
      BY <1>1, <2>1 DEF U
    <3>2. C(m - 1) = 0
      BY <1>3, <3>1, Zenon DEF Counting
    <3> QED BY <1>1, <3>2
  <2>2. CASE m # 0
    <3>1. m - 1 \in Nat /\ m - 1 < m
      BY <1>7, <2>2
    <3>2. ~(C(m - 1) >= k)
      BY <1>7, <3>1, Zenon
    <3>3. C(m - 1) \in Nat
      BY <1>4, Zenon
    <3> QED BY <1>1, <3>2, <3>3
  <2> QED BY <2>1, <2>2, Zenon
<1>9. \E i \in 1 .. n : m = values[i]
  <2> SUFFICES ASSUME \A i \in 1 .. n : values[i] # m PROVE FALSE
    BY Zenon
  <2>1. U(m) = U(m - 1)
    BY <1>1, <1>7 DEF U
  <2>2. C(m) = C(m - 1) /\ C(m) \in Nat
    BY <1>3, <1>4, <2>1, Zenon
  <2> QED BY <1>1, <1>7, <1>8, <2>2
<1> DEFINE T == {values[i] : i \in 1 .. n}
           v == CHOOSE v \in T : C(v) >= k /\ C(v - 1) < k
<1>10. at_sorted(values, k) = v
  BY Zenon DEF at_sorted, n, C
<1>11. v \in T /\ C(v) >= k /\ C(v - 1) < k
  <2>1. m \in T /\ C(m) >= k /\ C(m - 1) < k
    BY <1>7, <1>8, <1>9, Zenon
  <2> HIDE DEF T
  <2> QED BY <2>1, Zenon
<1> HIDE DEF v
<1> QED BY <1>10, <1>11, Zenon DEF n, C

-----------------------------------------------------------------------------
(***************************************************************************)
(* What a genuine packet does to a receiver whose newest packet is m (-1   *)
(* for a receiver that has seen none).                                     *)
(***************************************************************************)
Newest(m) ==
  \/ m = -1 /\ rdbx = srtp_rdbx_init /\ frontier = None
  \/ m \in Nat /\ rdbx.index = m /\ frontier = TrueGeneration(m)

(* A packet that overtakes the newest is delivered unless the catch-up it  *)
(* demands exceeds seek_cap.                                               *)
LEMMA FrontArrival ==
  ASSUME EpochFits, RxInv, NEW q, NEW i, Genuine(q, i), unprotect(q),
         NEW m \in Int, Newest(m), m < i, i - m < Half
  PROVE  LET jumped == TrueGeneration(i) - frontier
         IN  /\ jumped \in Nat /\ jumped <= i - m
             /\ Steps(q) = IF jumped <= SeekCap THEN jumped ELSE 0
             /\ jumped > SeekCap => result'.status = "SeekCapExceeded"
             /\ jumped <= SeekCap => /\ result'.status = "Ok"
                                     /\ rdbx'.index = i
                                     /\ frontier' = TrueGeneration(i)
<1> DEFINE g == TrueGeneration(i)
           check == srtp_rdbx_check(rdbx, i - rdbx.index)
<1>1. i \in Nat /\ q \in Packets /\ q.seq = Low(i) /\ q.key = g
  BY Zenon DEF Genuine
<1>2. rdbx \in RdbxTypes /\ rdbx.index \in Nat /\ K \in Nat \ {0} /\ SeekCap \in Nat
      /\ frontier \in Int
  BY WindowFacts DEF RxInv, RxTypeOK, RdbxTypes
<1>3. ReplayWindow \in Nat \ {0} /\ Half \in Nat
  BY ReplayWindowAssumption, HalfFacts
<1>4. /\ i - rdbx.index < Half /\ rdbx.index - i < Half
      /\ g \in Nat /\ g - frontier \in Nat /\ g - frontier <= i - m
      /\ check = "ok"
  <2>1. CASE m = -1 /\ rdbx = srtp_rdbx_init /\ frontier = None
    <3>1. rdbx.index = 0 /\ rdbx.mask = {} /\ frontier = -1
      BY <2>1 DEF srtp_rdbx_init, None
    <3>2. g \in Nat /\ g <= i
      BY <1>1, GenerationStep, GenerationsGrow
    <3>3. check = "ok"
      BY <1>1, <1>3, <3>1 DEF srtp_rdbx_check
    <3> HIDE DEF check, g
    <3> QED BY <1>1, <1>3, <2>1, <3>1, <3>2, <3>3
  <2>2. CASE m \in Nat /\ rdbx.index = m /\ frontier = TrueGeneration(m)
    <3>1. m <= i
      BY <1>1, <2>2
    <3>2. g - frontier <= i - m
      BY <1>1, <2>2, <3>1, GenerationStep, Zenon
    <3>3. g \in Nat /\ frontier <= g
      BY <1>1, <2>2, <3>1, GenerationsGrow, Zenon
    <3>4. check = "ok"
      BY <1>1, <1>2, <2>2 DEF srtp_rdbx_check
    <3> HIDE DEF check, g
    <3> QED BY <1>1, <1>2, <1>3, <2>2, <3>2, <3>3, <3>4
  <2> QED BY <2>1, <2>2, Zenon DEF Newest
<1>5. /\ srtp_rdbx_estimate_index(rdbx, q.seq) = i
      /\ srtp_rdbx_estimate_delta(rdbx, q.seq) = i - rdbx.index
  BY <1>1, <1>2, <1>4, NearIsExact, Zenon
<1>6. /\ Steps(q) = IF g > frontier /\ g - frontier <= SeekCap THEN g - frontier ELSE 0
      /\ g - frontier > SeekCap => result' = Err("SeekCapExceeded")
      /\ frontier - g < K /\ g - frontier <= SeekCap =>
           result' = IF check = "ok" THEN Ok(g) ELSE Err("SrtpReplay")
  BY <1>5, ExactArrival, Zenon
<1> HIDE DEF g, check
<1>7. Steps(q) = IF g - frontier <= SeekCap THEN g - frontier ELSE 0
  BY <1>2, <1>4, <1>6
<1>8. frontier - g < K
  BY <1>2, <1>4
<1>9. g - frontier > SeekCap => result'.status = "SeekCapExceeded"
  BY <1>6 DEF Err
<1>10. ASSUME g - frontier <= SeekCap
       PROVE  result'.status = "Ok" /\ rdbx'.index = i /\ frontier' = g
  <2>1. result'.status = "Ok"
    BY <1>4, <1>6, <1>8, <1>10 DEF Ok
  <2>2. /\ \E h : Deliver(q, h)
        /\ \E h : h = q.key /\ frontier' = IF h > frontier THEN h ELSE frontier
    BY <1>1, <2>1, DeliveredEffect, Zenon
  <2>3. rdbx' = srtp_unprotect_rdbx(rdbx, q)
    BY <2>2, Zenon DEF Deliver
  <2>4. rdbx'.index = IF i > rdbx.index THEN i ELSE rdbx.index
    <3>1. q.seq \in Seqs
      BY <1>1, NearIsExact, <1>2, <1>4, Zenon
    <3>2. srtp_rdbx_check(rdbx, srtp_rdbx_estimate_delta(rdbx, q.seq)) = "ok"
      BY <1>4, <1>5, Zenon DEF check
    <3> QED BY <1>2, <1>5, <2>3, <3>1, <3>2, AddedIndex, Zenon
  <2>5. rdbx.index <= i
    <3>1. m = -1 => rdbx.index = 0
      BY DEF Newest, srtp_rdbx_init
    <3>2. m \in Nat => rdbx.index = m
      BY DEF Newest
    <3> QED BY <1>1, <1>2, <3>1, <3>2 DEF Newest
  <2>6. frontier' = IF g > frontier THEN g ELSE frontier
    BY <1>1, <2>2, Zenon DEF g
  <2> QED BY <1>1, <1>2, <1>4, <2>1, <2>4, <2>5, <2>6
<1> QED BY <1>4, <1>7, <1>9, <1>10, Zenon DEF g

(* A packet behind the newest leaves index and frontier; within half of    *)
(* the sequence space its fate is decided by the key window and by the     *)
(* replay window.                                                          *)
LEMMA LateArrival ==
  ASSUME EpochFits, RxInv, NEW q, NEW i, Genuine(q, i), unprotect(q),
         NEW m \in Nat, Newest(m), i < m
  PROVE  LET behind == frontier - TrueGeneration(i)
             check == srtp_rdbx_check(rdbx, i - m)
         IN  /\ behind \in Nat /\ behind <= m - i
             /\ rdbx'.index = m /\ frontier' = frontier
             /\ result'.status = "Ok" => m - i <= Half
             /\ m - i < Half =>
                  /\ Steps(q) = 0
                  /\ behind >= K => result'.status = "BehindWindow"
                  /\ behind < K => result'.status = IF check = "ok" THEN "Ok" ELSE "SrtpReplay"
<1> DEFINE g == TrueGeneration(i)
           check == srtp_rdbx_check(rdbx, i - rdbx.index)
<1>1. i \in Nat /\ q \in Packets /\ q.seq = Low(i) /\ q.key = g /\ q.index = i
  BY Zenon DEF Genuine
<1>2. rdbx \in RdbxTypes /\ K \in Nat \ {0} /\ SeekCap \in Nat
  BY WindowFacts DEF RxInv, RxTypeOK
<1>3. rdbx.index = m /\ frontier = TrueGeneration(m)
  BY DEF Newest
<1>4. g \in Nat /\ frontier \in Nat /\ g <= frontier /\ frontier - g <= m - i
  <2>1. i <= m
    BY <1>1
  <2> QED BY <1>1, <1>3, <2>1, GenerationStep, GenerationsGrow, Zenon
<1>5. q.seq \in Seqs
  BY <1>1 DEF Packets
<1> HIDE DEF g, check
<1>6. rdbx'.index = m /\ frontier' = frontier /\ (result'.status = "Ok" => m - i <= Half)
  <2>1. CASE result'.status # "Ok"
    BY <1>3, <2>1, UndeliveredKeeps, Zenon DEF window
  <2>2. CASE result'.status = "Ok"
    <3>1. /\ \E h : Deliver(q, h)
          /\ \E h : h = q.key /\ frontier' = IF h > frontier THEN h ELSE frontier
          /\ i = srtp_rdbx_estimate_index(rdbx, q.seq)
          /\ srtp_rdbx_check(rdbx, srtp_rdbx_estimate_delta(rdbx, q.seq)) = "ok"
      BY <1>1, <2>2, DeliveredEffect, Zenon
    <3>2. rdbx' = srtp_unprotect_rdbx(rdbx, q)
      BY <3>1, Zenon DEF Deliver
    <3>3. rdbx'.index = IF i > rdbx.index THEN i ELSE rdbx.index
      BY <1>2, <1>5, <3>1, <3>2, AddedIndex, Zenon
    <3>4. rdbx.index - i <= Half
      BY <1>2, <1>5, <3>1, EstimateNotFarBehind, Zenon
    <3>5. frontier' = IF g > frontier THEN g ELSE frontier
      BY <1>1, <3>1, Zenon
    <3> QED BY <1>1, <1>3, <1>4, <3>3, <3>4, <3>5
  <2> QED BY <2>1, <2>2, Zenon
<1>7. ASSUME m - i < Half
      PROVE  /\ Steps(q) = 0
             /\ frontier - g >= K => result'.status = "BehindWindow"
             /\ frontier - g < K => result'.status = IF check = "ok" THEN "Ok" ELSE "SrtpReplay"
  <2>1. i - rdbx.index < Half /\ rdbx.index - i < Half
    BY <1>1, <1>3, <1>7, HalfFacts
  <2>2. srtp_rdbx_estimate_index(rdbx, q.seq) = i
    BY <1>1, <1>2, <2>1, NearIsExact, Zenon
  <2>3. /\ Steps(q) = IF g > frontier /\ g - frontier <= SeekCap THEN g - frontier ELSE 0
        /\ frontier - g >= K => result' = Err("BehindWindow")
        /\ frontier - g < K /\ g - frontier <= SeekCap =>
             result' = IF check = "ok" THEN Ok(g) ELSE Err("SrtpReplay")
    BY <2>2, ExactArrival, Zenon DEF g, check
  <2>4. ~(g > frontier) /\ g - frontier <= SeekCap
    BY <1>2, <1>4
  <2> QED BY <2>3, <2>4 DEF Err, Ok
<1> QED BY <1>1, <1>3, <1>4, <1>6, <1>7 DEF g, check

(* The bits of the replay window stand for packets that were given to the  *)
(* receiver.                                                               *)
LEMMA MaskAfter ==
  ASSUME RxInv, NEW q, NEW i, Genuine(q, i), unprotect(q), NEW S,
         \A d \in rdbx.mask : rdbx.index - d \in S
  PROVE  \A d \in rdbx'.mask : rdbx'.index - d \in S \cup {i}
<1>1. i \in Nat /\ q \in Packets /\ q.index = i /\ rdbx \in RdbxTypes
  BY Zenon DEF Genuine, RxInv, RxTypeOK
<1>2. CASE result'.status # "Ok"
  BY <1>2, UndeliveredKeeps, Zenon
<1>3. CASE result'.status = "Ok"
  <2>1. /\ \E h : Deliver(q, h)
        /\ i = srtp_rdbx_estimate_index(rdbx, q.seq)
    BY <1>1, <1>3, DeliveredEffect, Zenon
  <2> DEFINE delta == srtp_rdbx_estimate_delta(rdbx, q.seq)
  <2>2. rdbx' = srtp_rdbx_add_index(rdbx, delta)
    BY <2>1, Zenon DEF Deliver, srtp_unprotect_rdbx
  <2>3. q.seq \in Seqs
    BY <1>1 DEF Packets
  <2>4. delta \in Int /\ i = rdbx.index + delta
    BY <1>1, <2>1, <2>3, EstimateDelta, Zenon
  <2> HIDE DEF delta
  <2>5. rdbx.index \in Nat /\ rdbx.mask \subseteq Int /\ DOMAIN rdbx = {"index", "mask"}
    BY <1>1, ReplayWindowAssumption DEF RdbxTypes
  <2>6. CASE delta > 0
    <3>1. /\ rdbx'.index = rdbx.index + delta
          /\ rdbx'.mask = {0} \cup {d \in 0 .. ReplayWindow - 1 : d - delta \in rdbx.mask}
      BY <2>2, <2>6 DEF srtp_rdbx_add_index
    <3>2. ASSUME NEW d \in rdbx'.mask PROVE rdbx'.index - d \in S \cup {i}
      <4>1. CASE d = 0
        BY <1>1, <2>4, <2>5, <3>1, <4>1
      <4>2. CASE d \in 0 .. ReplayWindow - 1 /\ d - delta \in rdbx.mask
        <5>1. rdbx.index - (d - delta) \in S
          BY <4>2, Zenon
        <5>2. rdbx'.index - d = rdbx.index - (d - delta)
          BY <2>4, <2>5, <3>1, <4>2, ReplayWindowAssumption
        <5> QED BY <5>1, <5>2, Zenon
      <4> QED BY <3>1, <4>1, <4>2, Zenon
    <3> QED BY <3>2, Zenon
  <2>7. CASE ~(delta > 0)
    <3>1. rdbx'.index = rdbx.index /\ rdbx'.mask = rdbx.mask \cup {-delta}
      BY <2>2, <2>5, <2>7, Zenon DEF srtp_rdbx_add_index
    <3>2. rdbx.index - (-delta) = i
      BY <2>4, <2>5
    <3> QED BY <3>1, <3>2, Zenon
  <2> QED BY <2>6, <2>7, Zenon
<1> QED BY <1>2, <1>3, Zenon

-----------------------------------------------------------------------------
(***************************************************************************)
(* The run: what holds of the receiver whatever the network did to the     *)
(* stream.                                                                 *)
(***************************************************************************)
RunInv ==
  /\ NetInv /\ TxInv /\ RxInv
  /\ stats \in [Counters -> Nat]
  /\ call \in Nat /\ call <= Len(schedule)
  /\ call > 0 => Returned
  /\ Outcomes = call
  /\ DerivedOncePerGeneration
  /\ call = 0 => /\ rdbx = srtp_rdbx_init /\ frontier = None
                 /\ \A c \in Counters : stats[c] = 0
  /\ call > 0 => \A d \in rdbx.mask : rdbx.index - d \in Before(call + 1)

LEMMA RunInitial ==
  ASSUME Counting, Init
  PROVE  RunInv
<1>1. NetInit /\ TxInit /\ RxInit /\ stats = [c \in Counters |-> 0] /\ call = 0
  BY Zenon DEF Init, StatsInit
<1>2. NetInv /\ TxInv /\ RxInv
  BY <1>1, NetInitial, TxInitInv, InitRxInv, Zenon
<1>3. rdbx = srtp_rdbx_init /\ frontier = None
  BY <1>1, Zenon DEF RxInit
<1>4. \A c \in Counters : stats[c] = 0
  BY <1>1, Zenon
<1>5. stats \in [Counters -> Nat]
  BY <1>1
<1>6. Outcomes = 0
  BY <1>4 DEF Outcomes, Counters
<1>7. DerivedOncePerGeneration
  BY <1>3, <1>4 DEF DerivedOncePerGeneration, Counters, None
<1>8. call <= Len(schedule) /\ call \in Nat /\ ~(call > 0)
  BY <1>1, <1>2 DEF NetInv, LedgerInv, ScheduleInv
<1> QED BY <1>1, <1>2, <1>3, <1>4, <1>5, <1>6, <1>7, <1>8, Zenon DEF RunInv

(* The steps in which the receiver is not called.                          *)
LEMMA RunQuiet ==
  ASSUME RunInv, NetInv', TxInv', UNCHANGED <<rxVars, stats, call>>,
         UNCHANGED netVars \/ call = 0
  PROVE  RunInv'
<1>1. UNCHANGED <<frontier, rdbx>> /\ RxInv'
  BY RxUnchanged, Zenon DEF RunInv, rxVars
<1>2. Outcomes' = Outcomes /\ (DerivedOncePerGeneration => DerivedOncePerGeneration')
  BY <1>1, Zenon DEF Outcomes, DerivedOncePerGeneration
<1>3. CASE call = 0
  <2>1. ~(call > 0) /\ call' = 0 /\ ~(call' > 0) /\ call' <= Len(schedule')
    BY <1>3 DEF NetInv, LedgerInv, ScheduleInv
  <2> QED BY <1>1, <1>2, <2>1, Zenon DEF RunInv
<1>4. CASE UNCHANGED netVars
  <2>1. UNCHANGED <<schedule, phase>>
    BY <1>4, Zenon DEF netVars
  <2> QED BY <1>1, <1>2, <2>1, Zenon DEF RunInv, Returned, Before
<1> QED BY <1>3, <1>4, Zenon

(* A call: the arriving packet is genuine, and the receiver counts it.     *)
LEMMA CallFacts ==
  ASSUME RunInv, Receive
  PROVE  LET q == Sent(Arriving)
         IN  /\ Genuine(q, Arriving) /\ Arriving \in Nat
             /\ unprotect(q) /\ stats' = counted(q, result'.status) /\ CallEffect(q)
             /\ call + 1 \in Positions /\ call' = call + 1
             /\ UNCHANGED <<netVars, txVars>> /\ Returned
<1> DEFINE i == Arriving
<1>1. /\ NetInv /\ TxInv /\ RxInv /\ call \in Nat
      /\ Returned /\ call < Len(schedule) /\ Len(sent) > i
      /\ unprotect(sent[i + 1]) /\ stats' = counted(sent[i + 1], result'.status)
      /\ call' = call + 1 /\ UNCHANGED <<netVars, txVars>>
  BY Zenon DEF RunInv, Receive, counted_unprotect
<1>2. ScheduleInv /\ Len(schedule) \in Nat
  BY <1>1 DEF NetInv, LedgerInv, ScheduleInv
<1>3. call + 1 \in Positions
  BY <1>1, <1>2 DEF Positions
<1>4. i \in Nat
  BY <1>2, <1>3, Zenon DEF ScheduleInv, Arriving
<1>5. Len(sent) \in Nat
  BY <1>1 DEF TxInv
<1> HIDE DEF i
<1>6. i \in PacketNumbers
  BY <1>1, <1>4, <1>5 DEF PacketNumbers
<1>7. Genuine(Sent(i), i)
  BY <1>1, <1>6, SentGenuine, Zenon
<1>8. Sent(i) \in Packets /\ unprotect(Sent(i)) /\ stats' = counted(Sent(i), result'.status)
  BY <1>1, <1>7, Zenon DEF Sent, Genuine
<1>9. CallEffect(Sent(i))
  BY <1>1, <1>8, UnprotectEffect, Zenon
<1> QED BY <1>1, <1>3, <1>4, <1>7, <1>8, <1>9, Zenon DEF i

(* What a call adds to the counters.                                       *)
LEMMA CallCounted ==
  ASSUME RunInv, Receive
  PROVE  /\ stats' \in [Counters -> Nat]
         /\ stats'["max_catchup"] = larger(stats["max_catchup"], Steps(Sent(Arriving)))
         /\ \A c \in {"decrypted", "drops_behind", "drops_seek_cap", "drops_replay", "drops_auth"} :
              stats'[c] = stats[c] + One(c = outcome(result'.status))
         /\ Outcomes' = Outcomes + 1
         /\ DerivedOncePerGeneration'
<1> DEFINE q == Sent(Arriving)
<1>1. q \in Packets /\ stats' = counted(q, result'.status) /\ CallEffect(q)
  BY CallFacts, Zenon DEF Genuine
<1>2. SeekCap \in Nat /\ frontier \in Int /\ stats \in [Counters -> Nat]
  BY WindowFacts DEF RunInv, RxInv
<1> HIDE DEF q
<1>3. /\ stats' \in [Counters -> Nat]
      /\ stats'["max_catchup"] = larger(stats["max_catchup"], Steps(q))
      /\ \A c \in {"decrypted", "drops_behind", "drops_seek_cap", "drops_replay", "drops_auth"} :
           stats'[c] = stats[c] + One(c = outcome(result'.status))
      /\ Outcomes' = Outcomes + 1
      /\ DerivedOncePerGeneration => DerivedOncePerGeneration'
  BY <1>1, <1>2, CountersAfter, Zenon
<1> QED BY <1>3, Zenon DEF RunInv, q

LEMMA CallKeepsRun ==
  ASSUME RunInv, Receive
  PROVE  RunInv'
<1> DEFINE i == Arriving
           q == Sent(i)
<1>1. /\ Genuine(q, i) /\ i \in Nat /\ unprotect(q)
      /\ call + 1 \in Positions /\ call' = call + 1
      /\ UNCHANGED <<netVars, txVars>> /\ Returned
  BY CallFacts, Zenon
<1>2. NetInv' /\ TxInv'
  BY <1>1, NetSame, TxUnchanged, Zenon DEF RunInv
<1>3. RxInv'
  BY <1>1, UnprotectKeepsInv, Zenon DEF RunInv, Genuine
<1>4. UNCHANGED <<schedule, phase>>
  BY <1>1, Zenon DEF netVars
<1>5. call \in Nat /\ call <= Len(schedule) /\ Len(schedule) \in Nat
  BY DEF RunInv, NetInv, LedgerInv, ScheduleInv
<1>6. call' \in Nat /\ call' <= Len(schedule') /\ call' > 0 /\ call' # 0
  BY <1>1, <1>4, <1>5 DEF Positions
<1>7. stats' \in [Counters -> Nat] /\ Outcomes' = call' /\ DerivedOncePerGeneration'
  BY <1>1, CallCounted, Zenon DEF RunInv
<1>8. \A d \in rdbx'.mask : rdbx'.index - d \in {schedule'[k][2] : k \in 1 .. (call' + 1) - 1}
  <2> DEFINE S == Before(call + 1)
  <2>1. \A d \in rdbx.mask : rdbx.index - d \in S
    <3>1. CASE call = 0
      <4>1. rdbx.mask = {}
        BY <3>1 DEF RunInv, srtp_rdbx_init
      <4> QED BY <4>1, Zenon
    <3>2. CASE call > 0
      BY <3>2, Zenon DEF RunInv
    <3> QED BY <1>5, <3>1, <3>2
  <2> HIDE DEF S, q, i
  <2>2. \A d \in rdbx'.mask : rdbx'.index - d \in S \cup {i}
    BY <1>1, <2>1, MaskAfter, Zenon DEF RunInv
  <2>3. call + 1 \in Nat \ {0}
    BY <1>5
  <2>4. Before(call + 1 + 1) = S \cup {i}
    BY <2>3, BeforeNext, Zenon DEF S, i, Arriving
  <2>5. {schedule'[k][2] : k \in 1 .. (call' + 1) - 1} = Before(call + 1 + 1)
    BY <1>1, <1>4, Zenon DEF Before
  <2> QED BY <2>2, <2>4, <2>5, Zenon
<1> HIDE DEF i, q
<1> QED BY <1>1, <1>2, <1>3, <1>4, <1>6, <1>7, <1>8, Zenon DEF RunInv, Returned, Before

-----------------------------------------------------------------------------
(***************************************************************************)
(* A stream the receiver can follow: no arrival overtook half of the       *)
(* sequence space, and none was refused for the length of its catch-up.    *)
(* Then the receiver's newest packet is the newest that arrived.           *)
(***************************************************************************)
Followed ==
  /\ \A k \in 1 .. call : GapOf(k) + 1 < Half
  /\ stats["drops_seek_cap"] = 0 \/ \A k \in 1 .. call : GapOf(k) < SeekCap

FollowInv ==
  call > 0 /\ Followed => Newest(rdbx.index) /\ NewestOf(rdbx.index, Before(call + 1))

NewestSeen == IF call = 0 THEN -1 ELSE rdbx.index

(* The fate of the arriving packet in such a stream.                       *)
Fate(i, m) ==
  LET behind == frontier - TrueGeneration(i)
      check == srtp_rdbx_check(rdbx, i - m)
  IN  /\ m \in Int /\ m >= -1 /\ i \in Nat /\ i # m /\ Newest(m)
      /\ LatenessOf(call + 1) = IF i < m THEN m - i ELSE 0
      /\ GapOf(call + 1) = IF i > m THEN i - m - 1 ELSE 0
      /\ i > m => /\ result'.status = "Ok" /\ Steps(Sent(i)) = TrueGeneration(i) - frontier
                  /\ rdbx'.index = i /\ frontier' = TrueGeneration(i)
      /\ i < m => /\ rdbx.index = m /\ frontier = TrueGeneration(m) /\ m \in Nat
                  /\ rdbx'.index = m /\ frontier' = frontier
                  /\ behind \in Nat /\ behind <= m - i
                  /\ result'.status = "Ok" => m - i <= Half
                  /\ m - i < Half =>
                       /\ Steps(Sent(i)) = 0
                       /\ behind >= K => result'.status = "BehindWindow"
                       /\ behind < K =>
                            result'.status = IF check = "ok" THEN "Ok" ELSE "SrtpReplay"

LEMMA ArrivalFate ==
  ASSUME Counting, EpochFits, RunInv, FollowInv, Receive,
         \A k \in 1 .. call + 1 : GapOf(k) + 1 < Half,
         \/ stats'["drops_seek_cap"] = 0
         \/ \A k \in 1 .. call + 1 : GapOf(k) < SeekCap
  PROVE  /\ Fate(Arriving, NewestSeen)
         /\ NewestOf(rdbx'.index, Before(call + 1) \cup {Arriving})
         /\ rdbx'.index \in Nat /\ frontier' = TrueGeneration(rdbx'.index)
<1> DEFINE i == Arriving
           q == Sent(i)
           m == NewestSeen
           S == Before(call + 1)
<1>1. /\ Genuine(q, i) /\ i \in Nat /\ unprotect(q)
      /\ call + 1 \in Positions /\ call' = call + 1
  BY CallFacts, Zenon
<1>2. RxInv /\ NetInv /\ ScheduleInv /\ call \in Nat /\ Half \in Nat /\ SeekCap \in Nat
  BY HalfFacts, WindowFacts DEF RunInv, NetInv, LedgerInv, RxInv
<1>3. stats["drops_seek_cap"] \in Nat
      /\ stats'["drops_seek_cap"] = stats["drops_seek_cap"]
                                      + One("drops_seek_cap" = outcome(result'.status))
  <2>1. stats \in [Counters -> Nat] /\ "drops_seek_cap" \in Counters
    BY Zenon DEF RunInv, Counters
  <2> QED BY <2>1, CallCounted, Zenon
<1>4. \A k \in 1 .. call : k \in 1 .. call + 1
  BY <1>2
<1>5. Newest(m) /\ NewestOf(m, S) /\ m \in Int
  <2>1. CASE call = 0
    <3>1. S = {}
      <4>1. 1 .. (call + 1) - 1 = {}
        BY <2>1
      <4> QED BY <4>1, Zenon DEF Before
    <3>2. m = -1 /\ rdbx = srtp_rdbx_init /\ frontier = None
      BY <2>1, Zenon DEF RunInv, NewestSeen
    <3> HIDE DEF S, m
    <3> QED BY <3>1, <3>2 DEF Newest, NewestOf
  <2>2. CASE call > 0
    <3>1. stats'["drops_seek_cap"] = 0 => stats["drops_seek_cap"] = 0
      BY <1>3 DEF One
    <3>2. Followed
      BY <1>4, <3>1, Zenon DEF Followed
    <3>3. m = rdbx.index
      BY <2>2 DEF NewestSeen
    <3>4. rdbx.index \in Int
      BY <1>2 DEF RxInv, RxTypeOK, RdbxTypes
    <3> QED BY <2>2, <3>2, <3>3, <3>4, Zenon DEF FollowInv
  <2> QED BY <1>2, <2>1, <2>2
<1>6. LatenessOf(call + 1) = IF i < m THEN m - i ELSE 0
  BY <1>1, <1>2, <1>5, LatenessValue, Zenon DEF Arriving
<1>7. (GapOf(call + 1) = IF i > m THEN i - m - 1 ELSE 0) /\ m >= -1 /\ i # m
  BY <1>1, <1>2, <1>5, GapValue, Zenon DEF Arriving
<1>8. call + 1 \in 1 .. call + 1
  BY <1>2
<1>9. S \in SUBSET Nat
  <2>1. 0 .. NumPackets - 1 \subseteq Nat
    BY NetworkAssumption
  <2> QED BY <1>1, <1>2, <2>1, NotBefore, Zenon
<1>10. NewestOf(IF i > m THEN i ELSE m, S \cup {i})
  BY <1>1, <1>5, <1>9, NewestNext, Zenon
<1> HIDE DEF i, q, m, S
<1>11. CASE i > m
  <2> DEFINE jumped == TrueGeneration(i) - frontier
  <2>1. GapOf(call + 1) = i - m - 1 /\ GapOf(call + 1) + 1 < Half
    BY <1>7, <1>8, <1>11, Zenon
  <2>2. m < i /\ i - m < Half
    BY <1>1, <1>2, <1>5, <1>11, <2>1
  <2>3. /\ jumped \in Nat /\ jumped <= i - m
        /\ Steps(q) = IF jumped <= SeekCap THEN jumped ELSE 0
        /\ jumped > SeekCap => result'.status = "SeekCapExceeded"
        /\ jumped <= SeekCap => /\ result'.status = "Ok" /\ rdbx'.index = i
                                /\ frontier' = TrueGeneration(i)
    BY <1>1, <1>2, <1>5, <2>2, FrontArrival
  <2> HIDE DEF jumped
  <2>4. jumped <= SeekCap
    <3> SUFFICES ASSUME jumped > SeekCap PROVE FALSE
      BY <1>2, <2>3
    <3>1. outcome(result'.status) = "drops_seek_cap"
      BY <2>3 DEF outcome
    <3>2. stats'["drops_seek_cap"] # 0
      BY <1>3, <3>1 DEF One
    <3>3. GapOf(call + 1) < SeekCap
      BY <1>8, <3>2, Zenon
    <3> QED BY <1>1, <1>2, <1>5, <2>1, <2>3, <3>3
  <2>5. ~(i < m)
    BY <1>1, <1>5, <1>11
  <2>6. /\ Steps(q) = TrueGeneration(i) - frontier
        /\ result'.status = "Ok" /\ rdbx'.index = i /\ frontier' = TrueGeneration(i)
    BY <2>3, <2>4, Zenon DEF jumped
  <2>7. Fate(i, m)
    BY <1>1, <1>5, <1>6, <1>7, <1>11, <2>5, <2>6, Zenon DEF Fate, q
  <2> QED BY <1>1, <1>10, <1>11, <2>6, <2>7, Zenon DEF i, m, S
<1>12. CASE i < m
  <2> DEFINE behind == frontier - TrueGeneration(i)
             check == srtp_rdbx_check(rdbx, i - m)
  <2>1. m \in Nat /\ ~(i > m)
    BY <1>1, <1>5, <1>12
  <2>2. rdbx.index = m /\ frontier = TrueGeneration(m)
    BY <1>5, <2>1 DEF Newest
  <2>3. /\ behind \in Nat /\ behind <= m - i
        /\ rdbx'.index = m /\ frontier' = frontier
        /\ result'.status = "Ok" => m - i <= Half
        /\ m - i < Half =>
             /\ Steps(q) = 0
             /\ behind >= K => result'.status = "BehindWindow"
             /\ behind < K => result'.status = IF check = "ok" THEN "Ok" ELSE "SrtpReplay"
    BY <1>1, <1>2, <1>5, <1>12, <2>1, LateArrival, Zenon
  <2>4. Fate(i, m)
    BY <1>1, <1>5, <1>6, <1>7, <1>12, <2>1, <2>2, <2>3, Zenon DEF Fate, q
  <2> QED BY <1>10, <2>1, <2>2, <2>3, <2>4, Zenon DEF i, m, S
<1> QED BY <1>1, <1>5, <1>7, <1>11, <1>12

(* The premises after a call, in terms of the schedule.                    *)
LEMMA FollowedAfter ==
  ASSUME RunInv, Receive, Followed'
  PROVE  /\ \A k \in 1 .. call + 1 : GapOf(k) + 1 < Half
         /\ \/ stats'["drops_seek_cap"] = 0
            \/ \A k \in 1 .. call + 1 : GapOf(k) < SeekCap
<1>1. call' = call + 1 /\ schedule' = schedule
  BY CallFacts, Zenon DEF netVars
<1>2. \A k : GapOf(k)' = GapOf(k)
  BY <1>1, SameSchedule, Zenon
<1> QED BY <1>1, <1>2, Zenon DEF Followed

LEMMA CallKeepsFollow ==
  ASSUME Counting, EpochFits, RunInv, FollowInv, Receive
  PROVE  FollowInv'
<1> SUFFICES ASSUME Followed'
             PROVE  Newest(rdbx.index)' /\ NewestOf(rdbx.index, Before(call + 1))'
  BY Zenon DEF FollowInv
<1>1. /\ NewestOf(rdbx'.index, Before(call + 1) \cup {Arriving})
      /\ rdbx'.index \in Nat /\ frontier' = TrueGeneration(rdbx'.index)
  BY FollowedAfter, ArrivalFate, Zenon
<1>2. call' = call + 1 /\ schedule' = schedule /\ call \in Nat
  BY CallFacts, Zenon DEF netVars, RunInv
<1>3. call + 1 \in Nat \ {0}
  BY <1>2
<1>4. Before(call + 1 + 1) = Before(call + 1) \cup {Arriving}
  BY <1>3, BeforeNext, Zenon DEF Arriving
<1>5. {schedule'[k][2] : k \in 1 .. (call' + 1) - 1} = Before(call + 1 + 1)
  BY <1>2, Zenon DEF Before
<1> QED BY <1>1, <1>4, <1>5, Zenon DEF Newest, Before

-----------------------------------------------------------------------------
(***************************************************************************)
(* What the receiver counted in such a stream.                             *)
(***************************************************************************)
Near == \A k \in 1 .. call : LatenessOf(k) < Half /\ GapOf(k) + 1 < Half

LossInv ==
  call > 0 /\ Scheme = "Packet" /\ stats["drops_seek_cap"] = 0 /\ Near
  => stats["drops_behind"] = Cardinality({k \in 1 .. call : LatenessOf(k) >= K})

CatchInv ==
  call > 0 /\ Scheme = "Packet" /\ stats["drops_seek_cap"] = 0 /\ Near
  => /\ stats["max_catchup"] - 1 \in Nat
     /\ IsMax(stats["max_catchup"] - 1, {GapOf(k) : k \in 1 .. call})

Sized ==
  \A k \in 1 .. call : /\ GapOf(k) < SeekCap /\ GapOf(k) + 1 < Half
                       /\ LatenessOf(k) < K /\ LatenessOf(k) < ReplayWindow

SizedInv == call > 0 /\ Sized => stats["decrypted"] = call

(* Counting one position more.                                             *)
LEMMA CountNext ==
  ASSUME Counting, NEW n \in Nat, NEW S \in SUBSET (1 .. n)
  PROVE  Cardinality(S) \in Nat /\ Cardinality(S \cup {n + 1}) = Cardinality(S) + 1
<1>1. 1 \in Int /\ n \in Int /\ n + 1 \notin 1 .. n
  OBVIOUS
<1>2. IsFiniteSet(1 .. n)
  BY <1>1, IntervalCount, Zenon
<1>3. IsFiniteSet(S) /\ Cardinality(S) \in Nat /\ n + 1 \notin S
  BY <1>1, <1>2, SubsetCount, Zenon
<1> QED BY <1>3, OneMoreElement, Zenon

(* The premises of the three, before and after a call.                     *)
LEMMA PremisesAfter ==
  ASSUME RunInv, Receive
  PROVE  /\ Near' => \A k \in 1 .. call + 1 : LatenessOf(k) < Half /\ GapOf(k) + 1 < Half
         /\ Sized' => \A k \in 1 .. call + 1 : /\ GapOf(k) < SeekCap /\ GapOf(k) + 1 < Half
                                               /\ LatenessOf(k) < K /\ LatenessOf(k) < ReplayWindow
         /\ 1 .. call' = (1 .. call) \cup {call + 1}
         /\ stats'["drops_seek_cap"] = 0 => stats["drops_seek_cap"] = 0
         /\ \A k : LatenessOf(k)' = LatenessOf(k)
         /\ \A k : GapOf(k)' = GapOf(k)
<1>1. call' = call + 1 /\ schedule' = schedule
  BY CallFacts, Zenon DEF netVars
<1>2. \A k : LatenessOf(k)' = LatenessOf(k)
  BY <1>1, SameSchedule, Zenon
<1>3. \A k : GapOf(k)' = GapOf(k)
  BY <1>1, SameSchedule, Zenon
<1>4. call \in Nat /\ stats \in [Counters -> Nat]
  BY Zenon DEF RunInv
<1>5. 1 .. call' = (1 .. call) \cup {call + 1}
  BY <1>1, <1>4
<1>6. stats'["drops_seek_cap"] = 0 => stats["drops_seek_cap"] = 0
  <2>1. stats["drops_seek_cap"] \in Nat
    BY <1>4 DEF Counters
  <2>2. stats'["drops_seek_cap"] = stats["drops_seek_cap"]
                                     + One("drops_seek_cap" = outcome(result'.status))
    BY CallCounted, Zenon
  <2> QED BY <2>1, <2>2 DEF One
<1> QED BY <1>1, <1>2, <1>3, <1>5, <1>6, Zenon DEF Near, Sized

(* At packet-level keying a packet's generation is its number.             *)
LEMMA PacketGeneration ==
  ASSUME Scheme = "Packet", NEW i
  PROVE  TrueGeneration(i) = i
BY DEF TrueGeneration

LEMMA CallKeepsLoss ==
  ASSUME Counting, EpochFits, RunInv, FollowInv, LossInv, Receive
  PROVE  LossInv'
<1> DEFINE S == {k \in 1 .. call : LatenessOf(k) >= K}
           T == {k \in 1 .. call' : LatenessOf(k)' >= K}
           b == LatenessOf(call + 1) >= K
<1> SUFFICES ASSUME Scheme = "Packet", stats'["drops_seek_cap"] = 0, Near'
             PROVE  stats'["drops_behind"] = Cardinality(T)
  BY Zenon DEF LossInv
<1>1. /\ \A k \in 1 .. call + 1 : LatenessOf(k) < Half /\ GapOf(k) + 1 < Half
      /\ 1 .. call' = (1 .. call) \cup {call + 1}
      /\ stats["drops_seek_cap"] = 0
      /\ \A k : LatenessOf(k)' = LatenessOf(k)
  BY PremisesAfter, Zenon
<1>2. Fate(Arriving, NewestSeen)
  BY <1>1, ArrivalFate, Zenon
<1>3. call \in Nat /\ stats["drops_behind"] \in Nat /\ K \in Nat \ {0}
  BY WindowFacts DEF RunInv, Counters, RxInv
<1>4. "drops_behind" = outcome(result'.status) <=> b
  <2> DEFINE i == Arriving
             m == NewestSeen
  <2>1. call + 1 \in 1 .. call + 1
    BY <1>3
  <2>2. LatenessOf(call + 1) < Half
    BY <1>1, <2>1, Zenon
  <2> HIDE DEF i, m
  <2>3. m \in Int /\ i \in Nat /\ i # m /\ LatenessOf(call + 1) = IF i < m THEN m - i ELSE 0
    BY <1>2, Zenon DEF Fate, i, m
  <2>4. CASE i > m
    <3>1. result'.status = "Ok"
      BY <1>2, <2>4, Zenon DEF Fate, i, m
    <3>2. ~b
      BY <1>3, <2>3, <2>4
    <3>3. outcome(result'.status) = "decrypted"
      BY <3>1 DEF outcome
    <3> QED BY <3>2, <3>3
  <2>5. CASE i < m
    <3>1. frontier - TrueGeneration(i) = m - i
      BY <1>2, <2>3, <2>5, PacketGeneration DEF Fate, i, m
    <3>2. m - i < Half /\ LatenessOf(call + 1) = m - i
      BY <2>2, <2>3, <2>5
    <3>3. /\ m - i >= K => result'.status = "BehindWindow"
          /\ m - i < K => result'.status \in {"Ok", "SrtpReplay"}
      BY <1>2, <2>5, <3>1, <3>2, Zenon DEF Fate, i, m
    <3>4. CASE m - i >= K
      BY <3>2, <3>3, <3>4 DEF outcome
    <3>5. CASE m - i < K
      <4>1. ~b
        BY <1>3, <2>3, <3>2, <3>5
      <4>2. outcome(result'.status) \in {"decrypted", "drops_replay"}
        BY <3>3, <3>5 DEF outcome
      <4> QED BY <4>1, <4>2
    <3> QED BY <1>3, <2>3, <3>4, <3>5
  <2> QED BY <2>3, <2>4, <2>5
<1>5. stats'["drops_behind"] = stats["drops_behind"] + One(b)
  <2>1. stats'["drops_behind"] = stats["drops_behind"] + One("drops_behind" = outcome(result'.status))
    BY CallCounted, Zenon
  <2> QED BY <1>4, <2>1, Zenon DEF One
<1>6. T = IF b THEN S \cup {call + 1} ELSE S
  BY <1>1, Zenon
<1>7. stats["drops_behind"] = Cardinality(S)
  <2>1. CASE call = 0
    <3>1. 1 .. call = {}
      BY <2>1
    <3>2. S = {}
      BY <3>1, Zenon
    <3>3. stats["drops_behind"] = 0
      BY <2>1 DEF RunInv, Counters
    <3> QED BY <3>2, <3>3, Zenon DEF Counting
  <2>2. CASE call > 0
    <3>1. \A k \in 1 .. call : k \in 1 .. call + 1
      BY <1>3
    <3>2. Near
      BY <1>1, <3>1, Zenon DEF Near
    <3> QED BY <1>1, <2>2, <3>2, Zenon DEF LossInv
  <2> QED BY <1>3, <2>1, <2>2
<1>8. S \in SUBSET (1 .. call)
  BY Zenon
<1> HIDE DEF S, T, b
<1>9. Cardinality(S) \in Nat /\ Cardinality(S \cup {call + 1}) = Cardinality(S) + 1
  BY <1>3, <1>8, CountNext, Zenon
<1>10. Cardinality(T) = Cardinality(S) + One(b)
  <2>1. CASE b
    BY <1>6, <1>9, <2>1, Zenon DEF One
  <2>2. CASE ~b
    <3>1. Cardinality(S) + 0 = Cardinality(S)
      BY <1>9
    <3> QED BY <1>6, <2>2, <3>1, Zenon DEF One
  <2> QED BY <2>1, <2>2, Zenon
<1> QED BY <1>5, <1>7, <1>10, Zenon

LEMMA CallKeepsCatch ==
  ASSUME Counting, EpochFits, RunInv, FollowInv, CatchInv, Receive
  PROVE  CatchInv'
<1> DEFINE S == {GapOf(k) : k \in 1 .. call}
           T == {GapOf(k)' : k \in 1 .. call'}
           mc == stats["max_catchup"]
           x == GapOf(call + 1)
<1> SUFFICES ASSUME Scheme = "Packet", stats'["drops_seek_cap"] = 0, Near'
             PROVE  /\ stats'["max_catchup"] - 1 \in Nat
                    /\ IsMax(stats'["max_catchup"] - 1, T)
  BY Zenon DEF CatchInv
<1>1. /\ \A k \in 1 .. call + 1 : LatenessOf(k) < Half /\ GapOf(k) + 1 < Half
      /\ 1 .. call' = (1 .. call) \cup {call + 1}
      /\ stats["drops_seek_cap"] = 0
      /\ \A k : GapOf(k)' = GapOf(k)
  BY PremisesAfter, Zenon
<1>2. Fate(Arriving, NewestSeen)
  BY <1>1, ArrivalFate, Zenon
<1>3. call \in Nat /\ mc \in Nat
  BY DEF RunInv, Counters
<1>4. T = S \cup {x}
  BY <1>1, Zenon
<1>5. /\ x \in Nat
      /\ \/ Steps(Sent(Arriving)) = x + 1
         \/ Steps(Sent(Arriving)) = 0 /\ x = 0 /\ call # 0
  <2> DEFINE i == Arriving
             m == NewestSeen
  <2>1. call + 1 \in 1 .. call + 1
    BY <1>3
  <2>2. LatenessOf(call + 1) < Half
    BY <1>1, <2>1, Zenon
  <2> HIDE DEF i, m, x
  <2>3. /\ m \in Int /\ m >= -1 /\ i \in Nat /\ i # m /\ Newest(m)
        /\ LatenessOf(call + 1) = IF i < m THEN m - i ELSE 0
        /\ x = IF i > m THEN i - m - 1 ELSE 0
    BY <1>2, Zenon DEF Fate, i, m, x
  <2>4. CASE i > m
    <3>1. Steps(Sent(i)) = i - frontier
      BY <1>2, <2>4, PacketGeneration, Zenon DEF Fate, i, m
    <3>2. frontier = m
      BY <2>3, PacketGeneration DEF Newest, None
    <3>3. x = i - m - 1
      BY <2>3, <2>4, Zenon
    <3> QED BY <2>3, <2>4, <3>1, <3>2, <3>3 DEF i
  <2>5. CASE i < m
    <3>1. m - i < Half
      BY <2>2, <2>3, <2>5
    <3>2. Steps(Sent(i)) = 0
      BY <1>2, <2>5, <3>1, Zenon DEF Fate, i, m
    <3>3. call # 0
      <4>1. m # -1
        BY <2>3, <2>5
      <4> QED BY <4>1, Zenon DEF m, NewestSeen
    <3>4. x = 0
      BY <2>3, <2>5
    <3> QED BY <3>2, <3>3, <3>4 DEF i
  <2> QED BY <2>3, <2>4, <2>5
<1>6. stats'["max_catchup"] = larger(mc, Steps(Sent(Arriving)))
  BY CallCounted, Zenon
<1> HIDE DEF x, mc, S, T
<1>7. CASE call = 0
  <2>1. mc = 0
    BY <1>7 DEF RunInv, Counters, mc
  <2>2. stats'["max_catchup"] - 1 = x
    BY <1>5, <1>6, <1>7, <2>1 DEF larger
  <2>3. 1 .. call = {}
    BY <1>7
  <2>4. T = {x}
    BY <1>4, <2>3, Zenon DEF S
  <2>5. x <= x
    BY <1>5
  <2> QED BY <1>5, <2>2, <2>4, <2>5, Zenon DEF IsMax
<1>8. CASE call > 0
  <2>1. \A k \in 1 .. call : k \in 1 .. call + 1
    BY <1>3
  <2>2. Near
    BY <1>1, <2>1, Zenon DEF Near
  <2>3. mc - 1 \in Nat /\ IsMax(mc - 1, S)
    BY <1>1, <1>8, <2>2, Zenon DEF CatchInv, mc, S
  <2>4. S \in SUBSET Nat
    <3> SUFFICES ASSUME NEW k \in 1 .. call PROVE GapOf(k) \in Nat
      BY Zenon DEF S
    <3>1. ScheduleInv /\ call <= Len(schedule) /\ Len(schedule) \in Nat
      BY DEF RunInv, NetInv, LedgerInv, ScheduleInv
    <3>2. k \in Positions
      BY <1>3, <3>1 DEF Positions
    <3> QED BY <3>1, <3>2, GapNat, Zenon
  <2>5. IsMax(IF x > mc - 1 THEN x ELSE mc - 1, S \cup {x})
    BY <1>5, <2>3, <2>4, MaxNext, Zenon
  <2>6. stats'["max_catchup"] - 1 = IF x > mc - 1 THEN x ELSE mc - 1
    BY <1>3, <1>5, <1>6, <2>3 DEF larger
  <2>7. (IF x > mc - 1 THEN x ELSE mc - 1) \in Nat
    BY <1>5, <2>3
  <2> QED BY <1>4, <2>5, <2>6, <2>7, Zenon
<1> QED BY <1>3, <1>7, <1>8

LEMMA CallKeepsSized ==
  ASSUME Counting, EpochFits, RunInv, FollowInv, SizedInv, Receive
  PROVE  SizedInv'
<1> SUFFICES ASSUME Sized' PROVE stats'["decrypted"] = call'
  BY Zenon DEF SizedInv
<1>1. \A k \in 1 .. call + 1 : /\ GapOf(k) < SeekCap /\ GapOf(k) + 1 < Half
                               /\ LatenessOf(k) < K /\ LatenessOf(k) < ReplayWindow
  BY PremisesAfter, Zenon
<1>2. Fate(Arriving, NewestSeen)
  BY <1>1, ArrivalFate, Zenon
<1>3. call \in Nat /\ stats["decrypted"] \in Nat
      /\ Half \in Nat /\ ReplayWindow \in 1 .. Half - 1 /\ K \in Nat
  BY WindowFacts, HalfFacts, ReplayWindowAssumption DEF RunInv, Counters, RxInv
<1> DEFINE i == Arriving
           m == NewestSeen
<1>4. call + 1 \in 1 .. call + 1
  BY <1>3
<1>5. LatenessOf(call + 1) < K /\ LatenessOf(call + 1) < ReplayWindow
  BY <1>1, <1>4, Zenon
<1>6. i \notin Before(call + 1)
  <2>1. ScheduleInv /\ call + 1 \in Positions
    BY CallFacts, Zenon DEF RunInv, NetInv, LedgerInv
  <2> QED BY <2>1, NotBefore, Zenon DEF Arriving
<1> HIDE DEF i, m
<1>7. m \in Int /\ i \in Nat /\ i # m /\ LatenessOf(call + 1) = IF i < m THEN m - i ELSE 0
  BY <1>2, Zenon DEF Fate, i, m
<1>8. result'.status = "Ok"
  <2>1. CASE i > m
    BY <1>2, <2>1, Zenon DEF Fate, i, m
  <2>2. CASE i < m
    <3> DEFINE behind == frontier - TrueGeneration(i)
               check == srtp_rdbx_check(rdbx, i - m)
    <3>1. /\ rdbx.index = m /\ behind \in Nat /\ behind <= m - i /\ m \in Nat
          /\ m - i < Half /\ behind < K =>
               result'.status = IF check = "ok" THEN "Ok" ELSE "SrtpReplay"
      BY <1>2, <2>2, Zenon DEF Fate, i, m
    <3>2. m - i < K /\ m - i < ReplayWindow
      BY <1>5, <1>7, <2>2
    <3>3. m - i < Half /\ behind < K
      <4> HIDE DEF behind
      <4> QED BY <1>3, <1>7, <3>1, <3>2
    <3>4. call > 0
      <4>1. m # -1
        BY <1>7, <2>2
      <4>2. call # 0
        BY <4>1, Zenon DEF m, NewestSeen
      <4> QED BY <1>3, <4>2
    <3>5. m - i \notin rdbx.mask
      <4>1. \A d \in rdbx.mask : rdbx.index - d \in Before(call + 1)
        BY <3>4, Zenon DEF RunInv
      <4>2. rdbx.index - (m - i) = i
        BY <1>7, <3>1
      <4> QED BY <1>6, <4>1, <4>2, Zenon
    <3>6. check = "ok"
      <4>1. -(i - m) = m - i /\ ~(i - m > 0) /\ ~((ReplayWindow - 1) + (i - m) < 0)
        BY <1>3, <1>7, <2>2, <3>2
      <4> QED BY <3>5, <4>1 DEF srtp_rdbx_check
    <3> QED BY <3>1, <3>3, <3>6, Zenon
  <2> QED BY <1>7, <2>1, <2>2
<1>9. stats'["decrypted"] = stats["decrypted"] + 1
  <2>1. stats'["decrypted"] = stats["decrypted"] + One("decrypted" = outcome(result'.status))
    BY CallCounted, Zenon
  <2> QED BY <1>8, <2>1 DEF One, outcome
<1>10. stats["decrypted"] = call
  <2>1. CASE call = 0
    BY <2>1 DEF RunInv, Counters
  <2>2. CASE call > 0
    <3>1. \A k \in 1 .. call : k \in 1 .. call + 1
      BY <1>3
    <3>2. Sized
      BY <1>1, <3>1, Zenon DEF Sized
    <3> QED BY <2>2, <3>2, Zenon DEF SizedInv
  <2> QED BY <1>3, <2>1, <2>2
<1> QED BY <1>9, <1>10, CallFacts, Zenon

(* The maxima the network reports bound what it did to each arrival.       *)
LEMMA MeasuredBounds ==
  ASSUME Counting, NetInv, Returned, NEW p \in Positions
  PROVE  /\ net.displacement.max_gap \in Nat /\ GapOf(p) \in Nat
         /\ GapOf(p) <= net.displacement.max_gap
         /\ net.displacement.max_lateness \in Nat /\ LatenessOf(p) \in Nat
         /\ LatenessOf(p) <= net.displacement.max_lateness
<1> DEFINE D == net.displacement
           G == {GapOf(k) : k \in Positions}
           L == {LatenessOf(k) : k \in Positions}
<1>1. \A k \in Positions : GapOf(k) \in Nat
  BY GapNat, Zenon DEF NetInv, LedgerInv
<1>2. \A k \in Positions : LatenessOf(k) \in Nat
  <2>1. /\ walked.lateness \in Seq(0 .. NumPackets)
        /\ Len(walked.lateness) = Len(schedule)
        /\ \A k \in 1 .. Len(walked.lateness) : walked.lateness[k] = LatenessOf(k)
    <3>1. phase # "sending" /\ phase = "returned"
      BY DEF Returned
    <3> QED BY <3>1, Zenon DEF NetInv, WalkInv
  <2>2. \A k \in 1 .. Len(walked.lateness) : walked.lateness[k] \in Nat
    <3> DEFINE s == walked.lateness
               R == 0 .. NumPackets
    <3>1. \A k \in 1 .. Len(s) : s[k] \in R
      <4>1. s \in Seq(R)
        BY <2>1, Zenon
      <4> HIDE DEF s, R
      <4> QED BY <4>1
    <3>2. 0 .. NumPackets \in SUBSET Nat
      BY NetworkAssumption
    <3> QED BY <3>1, <3>2, Zenon
  <2> QED BY <2>1, <2>2, Zenon DEF Positions
<1>3. IsMax(D.max_lateness, L) /\ IsMax(D.max_gap, G)
  BY Zenon DEF NetInv, DisplacementExact
<1>4. GapOf(p) \in G /\ LatenessOf(p) \in L
  BY Zenon
<1>5. G \in SUBSET Nat /\ L \in SUBSET Nat
  BY <1>1, <1>2, Zenon
<1> HIDE DEF G, L, D
<1>6. D.max_lateness \in Nat /\ D.max_gap \in Nat
  BY <1>3, <1>4, <1>5, Zenon DEF IsMax
<1>7. GapOf(p) <= D.max_gap /\ LatenessOf(p) <= D.max_lateness
  BY <1>3, <1>4, Zenon DEF IsMax
<1> QED BY <1>1, <1>2, <1>6, <1>7, Zenon DEF D

LEMMA CallKeepsAuth ==
  ASSUME Counting, EpochFits, RunInv, FollowInv, Receive
  PROVE  AuthFailsOnlyFarBehind'
<1> DEFINE i == Arriving
           m == NewestSeen
           D == net.displacement
<1>1. /\ call + 1 \in Positions /\ call' = call + 1
      /\ schedule' = schedule /\ net' = net /\ Returned
      /\ call \in Nat /\ call <= Len(schedule) /\ NetInv
  BY CallFacts, Zenon DEF netVars, RunInv
<1>2. SUFFICES ASSUME D.max_gap < SeekCap, D.max_gap + 1 < Half
               PROVE  /\ result'.status = "AuthFail" => rdbx'.index - i >= Half
                      /\ result'.status = "Ok" => rdbx'.index - i <= Half
  BY <1>1, Zenon DEF AuthFailsOnlyFarBehind, Followable, Arriving
<1>3. Half \in Nat /\ SeekCap \in Nat /\ K \in Nat
  BY HalfFacts, WindowAssumption
<1>4. ASSUME NEW k \in 1 .. call + 1
      PROVE  GapOf(k) < SeekCap /\ GapOf(k) + 1 < Half
  <2>1. k \in Positions
    BY <1>1, <1>4 DEF Positions
  <2>2. D.max_gap \in Nat /\ GapOf(k) \in Nat /\ GapOf(k) <= D.max_gap
    BY <1>1, <2>1, MeasuredBounds, Zenon
  <2> HIDE DEF D
  <2> QED BY <1>2, <1>3, <2>2
<1>5. Fate(i, m)
  BY <1>4, ArrivalFate, Zenon
<1> HIDE DEF i, m
<1>6. m \in Int /\ i \in Nat /\ i # m
  BY <1>5, Zenon DEF Fate
<1>7. CASE i > m
  <2>1. result'.status = "Ok" /\ rdbx'.index = i
    BY <1>5, <1>7, Zenon DEF Fate
  <2> QED BY <1>3, <1>6, <2>1
<1>8. CASE i < m
  <2>1. /\ rdbx'.index = m
        /\ result'.status = "Ok" => m - i <= Half
        /\ m - i < Half => result'.status \in {"BehindWindow", "Ok", "SrtpReplay"}
    <3> DEFINE behind == frontier - TrueGeneration(i)
    <3>1. behind \in Nat
      BY <1>5, <1>8, Zenon DEF Fate
    <3>2. behind >= K \/ behind < K
      <4> HIDE DEF behind
      <4> QED BY <1>3, <3>1
    <3> QED BY <1>5, <1>8, <3>2, Zenon DEF Fate
  <2>2. m - i < Half => result'.status # "AuthFail"
    BY <2>1
  <2>3. result'.status = "AuthFail" => m - i >= Half
    BY <1>3, <1>6, <2>2
  <2> QED BY <2>1, <2>3, Zenon
<1> QED BY <1>6, <1>7, <1>8

(* What holds of the receiver's counts all along, for the steps together.  *)
FateInv == FollowInv /\ LossInv /\ CatchInv /\ SizedInv /\ AuthFailsOnlyFarBehind

(* Before the first call there is nothing to count; between two calls      *)
(* nothing that is counted changes.                                        *)
LEMMA FateQuiet ==
  ASSUME FateInv, call \in Nat, UNCHANGED <<rxVars, stats, call>>,
         UNCHANGED netVars \/ call = 0
  PROVE  FateInv'
<1>1. CASE call = 0
  <2>1. ~(call' > 0)
    BY <1>1
  <2> QED BY <2>1, Zenon DEF FateInv, FollowInv, LossInv, CatchInv, SizedInv,
                             AuthFailsOnlyFarBehind
<1>2. CASE UNCHANGED netVars
  <2>1. UNCHANGED <<frontier, rdbx, result, stats, call, schedule, net>>
    BY <1>2, Zenon DEF rxVars, netVars
  <2>2. /\ \A k : LatenessOf(k)' = LatenessOf(k)
        /\ \A k : GapOf(k)' = GapOf(k)
    BY <2>1, SameSchedule, Zenon
  <2>3. FollowInv'
    BY <2>1, <2>2, Zenon DEF FateInv, FollowInv, Followed, Newest, Before
  <2>4. LossInv' /\ CatchInv'
    BY <2>1, <2>2, Zenon DEF FateInv, LossInv, CatchInv, Near
  <2>5. SizedInv'
    BY <2>1, <2>2, Zenon DEF FateInv, SizedInv, Sized
  <2>6. AuthFailsOnlyFarBehind'
    BY <2>1, Zenon DEF FateInv, AuthFailsOnlyFarBehind, Followable
  <2> QED BY <2>3, <2>4, <2>5, <2>6, Zenon DEF FateInv
<1> QED BY <1>1, <1>2

(* The network is done before the first call.                              *)
LEMMA DisturbFirst ==
  ASSUME RunInv, Disturb
  PROVE  call = 0
<1>1. phase \in {"sending", "measuring"}
  BY Zenon DEF Disturb, NetNext, Transit, sort_arrivals, Walk, measure_displacement
<1>2. phase # "returned"
  BY <1>1
<1>3. ~(call > 0) /\ call \in Nat
  BY <1>2, Zenon DEF RunInv, Returned
<1> QED BY <1>3

-----------------------------------------------------------------------------
(***************************************************************************)
(* The facts on finite sets and on sorting, from the library.              *)
(***************************************************************************)
INSTANCE FiniteSetTheorems
INSTANCE WellFoundedInduction

LEMMA CountingBehaves == Counting
<1>1. \A a, b \in Int : /\ IsFiniteSet(a .. b)
                        /\ Cardinality(a .. b) = IF a <= b THEN b - a + 1 ELSE 0
  <2> SUFFICES ASSUME NEW a \in Int, NEW b \in Int
               PROVE  /\ IsFiniteSet(a .. b)
                      /\ Cardinality(a .. b) = IF a <= b THEN b - a + 1 ELSE 0
    BY Zenon
  <2>1. IsFiniteSet(a .. b) /\ Cardinality(a .. b) = IF a > b THEN 0 ELSE b - a + 1
    BY FS_Interval, Zenon
  <2> QED BY <2>1
<1>2. \A S : IsFiniteSet(S) => Cardinality(S) \in Nat
  BY FS_CardinalityType, Zenon
<1>3. \A S, x : IsFiniteSet(S) /\ x \notin S =>
        IsFiniteSet(S \cup {x}) /\ Cardinality(S \cup {x}) = Cardinality(S) + 1
  BY FS_AddElement, Zenon
<1>4. \A S : \A T \in SUBSET S :
        IsFiniteSet(S) => /\ IsFiniteSet(T) /\ Cardinality(T) <= Cardinality(S)
                          /\ Cardinality(T) = Cardinality(S) => T = S
  BY FS_Subset, Zenon
<1> QED BY <1>1, <1>2, <1>3, <1>4, FS_EmptySet, Zenon DEF Counting

LEMMA MatchingBehaves == DistinctCounted /\ OneToOneIsOnto
<1>1. DistinctCounted
  <2> SUFFICES ASSUME NEW n \in Nat, NEW f, NEW T, f \in [1 .. n -> T],
                      \A p, q \in 1 .. n : f[p] = f[q] => p = q,
                      \A t \in T : \E p \in 1 .. n : f[p] = t
               PROVE  IsFiniteSet(T) /\ Cardinality(T) = n
    BY Zenon DEF DistinctCounted
  <2>1. DOMAIN f = 1 .. n
    BY Zenon
  <2>2. f \in Injection(1 .. n, T)
    BY <2>1, Zenon DEF Injection, IsInjective
  <2>3. f \in Surjection(1 .. n, T)
    BY Zenon DEF Surjection
  <2>4. ExistsBijection(1 .. n, T)
    BY <2>2, <2>3, Zenon DEF Bijection, ExistsBijection
  <2>5. IsFiniteSet(1 .. n) /\ Cardinality(1 .. n) = n
    <3>1. 1 \in Int /\ n \in Int
      OBVIOUS
    <3>2. IsFiniteSet(1 .. n) /\ Cardinality(1 .. n) = IF 1 > n THEN 0 ELSE n - 1 + 1
      BY <3>1, FS_Interval, Zenon
    <3> QED BY <3>2
  <2> QED BY <2>4, <2>5, FS_Bijection, Zenon
<1>2. OneToOneIsOnto
  <2> SUFFICES ASSUME NEW S, NEW T, NEW f, f \in [S -> T],
                      IsFiniteSet(T), Cardinality(S) = Cardinality(T),
                      \A x, y \in S : f[x] = f[y] => x = y
               PROVE  \A t \in T : \E x \in S : f[x] = t
    BY DEF OneToOneIsOnto
  <2>1. DOMAIN f = S
    BY Zenon
  <2>2. f \in Injection(S, T)
    BY <2>1, Zenon DEF Injection, IsInjective
  <2>3. f \in Surjection(S, T)
    BY <2>2, FS_Injection, Zenon
  <2> QED BY <2>3, Zenon DEF Surjection
<1> QED BY <1>1, <1>2, Zenon

LEMMA LeastNumberExists == LeastNumber
<1> SUFFICES ASSUME NEW S \in SUBSET Nat, S # {}
             PROVE  \E m \in S : \A y \in S : ~(y < m)
  BY Zenon DEF LeastNumber
<1>1. PICK m \in S : \A y \in S : ~(<<y, m>> \in OpToRel(<, Nat))
  BY WFMin, NatLessThanWellFounded, Zenon
<1>2. \A y \in S : ~(y < m)
  BY <1>1, Zenon DEF OpToRel
<1> QED BY <1>2, Zenon

-----------------------------------------------------------------------------
(***************************************************************************)
(* The theorems on a whole simulated stream.                               *)
(***************************************************************************)
(* Every step keeps the first invariant.                                   *)
LEMMA RunStep ==
  ASSUME RunInv, [Next]_vars
  PROVE  RunInv'
<1>1. CASE Disturb
  <2>1. NetNext /\ UNCHANGED <<txVars, rxVars, stats, call>>
    BY <1>1, Zenon DEF Disturb
  <2>2. NetInv'
    BY <2>1, NetStep, CountingBehaves, MatchingBehaves, LeastNumberExists, SortIsStable,
       SortedPositionExists, Zenon DEF RunInv
  <2>3. TxInv'
    BY <2>1, TxUnchanged, Zenon DEF RunInv
  <2>4. call = 0
    BY <1>1, DisturbFirst, Zenon
  <2> QED BY <2>1, <2>2, <2>3, <2>4, RunQuiet, Zenon
<1>2. CASE Produce
  <2>1. next_protected /\ UNCHANGED <<netVars, rxVars, stats, call>>
    BY <1>2, Zenon DEF Produce
  <2>2. NetInv' /\ TxInv'
    BY <2>1, NetSame, SendKeepsTxInv, Zenon DEF RunInv
  <2> QED BY <2>1, <2>2, RunQuiet, Zenon
<1>3. CASE Receive
  BY <1>3, CallKeepsRun, Zenon
<1>4. CASE UNCHANGED vars
  <2>1. UNCHANGED <<netVars, txVars, rxVars, stats, call>>
    BY <1>4, Zenon DEF vars
  <2>2. NetInv' /\ TxInv'
    BY <2>1, NetSame, TxUnchanged, Zenon DEF RunInv
  <2> QED BY <2>1, <2>2, RunQuiet, Zenon
<1> QED BY <1>1, <1>2, <1>3, <1>4, Zenon DEF Next, Finished

(* So does it the second, while no generation outgrows its epoch.          *)
LEMMA FateStep ==
  ASSUME EpochFits, RunInv, FateInv, [Next]_vars
  PROVE  FateInv'
<1>1. call \in Nat
  BY Zenon DEF RunInv
<1>2. CASE Disturb
  <2>1. UNCHANGED <<rxVars, stats, call>> /\ call = 0
    BY <1>2, DisturbFirst, Zenon DEF Disturb
  <2> QED BY <1>1, <2>1, FateQuiet, Zenon
<1>3. CASE Produce
  BY <1>1, <1>3, FateQuiet, Zenon DEF Produce
<1>4. CASE Receive
  BY <1>4, CountingBehaves, CallKeepsFollow, CallKeepsLoss, CallKeepsCatch, CallKeepsSized,
     CallKeepsAuth, Zenon DEF FateInv
<1>5. CASE UNCHANGED vars
  BY <1>1, <1>5, FateQuiet, Zenon DEF vars
<1> QED BY <1>2, <1>3, <1>4, <1>5, Zenon DEF Next, Finished

(* The network's ledger and measurement, the sender's and the receiver's   *)
(* state and the receiver's counters stay as the invariant says.           *)
THEOREM RunInvariant == Spec => []RunInv
<1>1. Init => RunInv
  BY RunInitial, CountingBehaves, Zenon
<1>2. RunInv /\ [Next]_vars => RunInv'
  BY RunStep, Zenon
<1> QED BY <1>1, <1>2, PTL DEF Spec

(* The ledgers of the network and of the receiver balance and agree        *)
(* (disturb; realistic_receiver.rs:558-572).                               *)
THEOREM LedgersAlwaysAgree == Spec => []LedgersAgree
<1>1. RunInv => LedgersAgree
  <2> SUFFICES ASSUME RunInv PROVE LedgersAgree
    OBVIOUS
  <2>1. LedgerBalances
    BY Zenon DEF RunInv, NetInv, LedgerInv
  <2>2. ASSUME Over PROVE net.delivered = Outcomes
    <3>1. phase # "sending"
      BY <2>2 DEF Over, Returned
    <3> QED BY <2>2, <3>1, Zenon DEF Over, RunInv, NetInv, LedgerInv
  <2> QED BY <2>1, <2>2, Zenon DEF LedgersAgree
<1> QED BY <1>1, RunInvariant, PTL

(* measure_displacement's one pass measures what it is documented to, for  *)
(* every arrival order (network.rs, measure_displacement).                 *)
THEOREM DisplacementIsExact == Spec => []DisplacementExact
<1>1. RunInv => DisplacementExact
  BY Zenon DEF RunInv, NetInv
<1> QED BY <1>1, RunInvariant, PTL

(* A simulated stream derives each generation once, whatever arrives       *)
(* (ReceiverKeyManager::unprotect).                                        *)
THEOREM RunDerivesOnce == Spec => []DerivedOncePerGeneration
<1>1. RunInv => DerivedOncePerGeneration
  BY Zenon DEF RunInv
<1> QED BY <1>1, RunInvariant, PTL

(* The receiver's database and counters follow the arrival order.          *)
THEOREM FateInvariant ==
  ASSUME EpochFits
  PROVE  Spec => []FateInv
<1>1. Init => FateInv
  <2> SUFFICES ASSUME Init PROVE FateInv
    OBVIOUS
  <2>1. ~(call > 0)
    BY DEF Init
  <2> QED BY <2>1, Zenon DEF FateInv, FollowInv, LossInv, CatchInv, SizedInv,
                             AuthFailsOnlyFarBehind
<1>2. RunInv /\ FateInv /\ [Next]_vars => FateInv'
  BY FateStep, Zenon
<1> QED BY <1>1, <1>2, RunInvariant, PTL DEF Spec

(* At packet-level keying the packets lost to deleted keys are exactly     *)
(* those the network delayed by K packets or more: neither losses nor the  *)
(* order of catch-ups costs another one (KeyManager's ring of K keys).     *)
THEOREM KeyingLossIsAlwaysLateness ==
  ASSUME EpochFits
  PROVE  Spec => []KeyingLossIsLateness
<1>1. RunInv /\ FateInv => KeyingLossIsLateness
  <2> SUFFICES ASSUME RunInv, FateInv, Scheme = "Packet", stats["drops_seek_cap"] = 0, Near
               PROVE  stats["drops_behind"] = Cardinality({p \in 1 .. call : LatenessOf(p) >= K})
    BY Zenon DEF KeyingLossIsLateness, Near
  <2>1. CASE call = 0
    <3>1. 1 .. call = {}
      BY <2>1
    <3>2. {p \in 1 .. call : LatenessOf(p) >= K} = {}
      BY <3>1, Zenon
    <3>3. stats["drops_behind"] = 0
      BY <2>1 DEF RunInv, Counters
    <3> QED BY <3>2, <3>3, CountingBehaves, Zenon DEF Counting
  <2>2. CASE call > 0
    BY <2>2, Zenon DEF FateInv, LossInv
  <2>3. call \in Nat
    BY Zenon DEF RunInv
  <2> QED BY <2>1, <2>2, <2>3
<1> QED BY <1>1, RunInvariant, FateInvariant, PTL

(* At packet-level keying the longest catch-up of the stream is the        *)
(* network's longest gap and one more (realistic_receiver.rs:591).         *)
THEOREM CatchupIsAlwaysGap ==
  ASSUME EpochFits
  PROVE  Spec => []CatchupIsGap
<1>1. RunInv /\ FateInv => CatchupIsGap
  <2> DEFINE D == net.displacement
             S == {GapOf(k) : k \in Positions}
             mc == stats["max_catchup"]
  <2> SUFFICES ASSUME RunInv, FateInv, Over, Scheme = "Packet", call > 0,
                      stats["drops_seek_cap"] = 0,
                      D.max_lateness < Half, D.max_gap + 1 < Half
               PROVE  mc = D.max_gap + 1
    BY Zenon DEF CatchupIsGap
  <2>1. NetInv /\ Returned /\ 1 .. call = Positions /\ call \in Nat
    BY Zenon DEF RunInv, Over, Positions
  <2>2. ASSUME NEW k \in Positions
        PROVE  LatenessOf(k) < Half /\ GapOf(k) + 1 < Half
    <3>1. /\ D.max_gap \in Nat /\ GapOf(k) \in Nat /\ GapOf(k) <= D.max_gap
          /\ D.max_lateness \in Nat /\ LatenessOf(k) \in Nat
          /\ LatenessOf(k) <= D.max_lateness
      BY <2>1, CountingBehaves, MeasuredBounds, Zenon
    <3>2. Half \in Nat
      BY HalfFacts
    <3> HIDE DEF D
    <3> QED BY <3>1, <3>2
  <2>3. mc - 1 \in Nat /\ IsMax(mc - 1, S)
    BY <2>1, <2>2, Zenon DEF FateInv, CatchInv, Near
  <2>4. IsMax(D.max_gap, S)
    BY <2>1, Zenon DEF NetInv, DisplacementExact
  <2>5. 1 \in Positions
    <3>1. 1 \in 1 .. call
      BY <2>1
    <3> QED BY <2>1, <3>1, Zenon
  <2>6. GapOf(1) \in S /\ D.max_gap \in Nat
    BY <2>1, <2>5, CountingBehaves, MeasuredBounds, Zenon
  <2>7. mc \in Nat
    BY DEF RunInv, Counters
  <2> HIDE DEF S, D, mc
  <2>8. mc - 1 <= D.max_gap /\ D.max_gap <= mc - 1
    BY <2>3, <2>4, <2>6, Zenon DEF IsMax
  <2> QED BY <2>3, <2>6, <2>7, <2>8
<1> QED BY <1>1, RunInvariant, FateInvariant, PTL

(* A receiver whose key window and replay window cover the lateness the    *)
(* network measured, and whose catch-up cap covers the gaps, decrypts      *)
(* every packet that arrives: what the benchmarks size their windows for   *)
(* (realistic_receiver.rs:995-1010).                                       *)
THEOREM SizedReceiverNeverLoses ==
  ASSUME EpochFits
  PROVE  Spec => []SizedReceiverLosesNothing
<1>1. RunInv /\ FateInv => SizedReceiverLosesNothing
  <2> DEFINE D == net.displacement
  <2> SUFFICES ASSUME RunInv, FateInv, Over,
                      D.max_gap < SeekCap, D.max_gap + 1 < Half,
                      D.max_lateness < K, D.max_lateness < ReplayWindow
               PROVE  stats["decrypted"] = net.delivered
    BY Zenon DEF SizedReceiverLosesNothing, Followable
  <2>1. /\ NetInv /\ Returned /\ 1 .. call = Positions /\ call = Len(schedule) /\ call \in Nat
    BY Zenon DEF RunInv, Over, Positions
  <2>2. net.delivered = call
    <3>1. phase # "sending"
      BY <2>1 DEF Returned
    <3> QED BY <2>1, <3>1, Zenon DEF NetInv, LedgerInv
  <2>3. ASSUME NEW k \in Positions
        PROVE  /\ GapOf(k) < SeekCap /\ GapOf(k) + 1 < Half
               /\ LatenessOf(k) < K /\ LatenessOf(k) < ReplayWindow
    <3>1. /\ D.max_gap \in Nat /\ GapOf(k) \in Nat /\ GapOf(k) <= D.max_gap
          /\ D.max_lateness \in Nat /\ LatenessOf(k) \in Nat
          /\ LatenessOf(k) <= D.max_lateness
      BY <2>1, CountingBehaves, MeasuredBounds, Zenon
    <3>2. Half \in Nat /\ SeekCap \in Nat /\ K \in Nat /\ ReplayWindow \in Nat
      BY HalfFacts, WindowAssumption, ReplayWindowAssumption
    <3> HIDE DEF D
    <3> QED BY <3>1, <3>2
  <2>4. CASE call = 0
    BY <2>2, <2>4 DEF RunInv, Counters
  <2>5. CASE call > 0
    BY <2>1, <2>2, <2>3, <2>5, Zenon DEF FateInv, SizedInv, Sized
  <2> QED BY <2>1, <2>4, <2>5
<1> QED BY <1>1, RunInvariant, FateInvariant, PTL

(* While the receiver can follow the stream, a genuine packet fails to     *)
(* authenticate only at half of the sequence space or more behind the      *)
(* newest one, and none further behind is decrypted                        *)
(* (realistic_receiver.rs:487, 546).                                       *)
THEOREM AuthFailsOnlyWhenFarBehind ==
  ASSUME EpochFits
  PROVE  Spec => []AuthFailsOnlyFarBehind
<1>1. FateInv => AuthFailsOnlyFarBehind
  BY Zenon DEF FateInv
<1> QED BY <1>1, FateInvariant, PTL
=============================================================================
