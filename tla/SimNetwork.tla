----------------------------- MODULE SimNetwork -----------------------------
(***************************************************************************)
(* The simulated network (src/src/simulation/network.rs).  disturb sends   *)
(* packets 0 .. NumPackets - 1 over path "a" and, if there is one, a       *)
(* redundant path "b"; every copy may be lost and is delayed by its path's *)
(* base delay and some jitter; the earlier copy is delivered.  Random      *)
(* draws are nondeterministic choices.                                     *)
(***************************************************************************)
EXTENDS Percentile
CONSTANTS NumPackets,   \* n, the packets the sender sends
          Paths,        \* {"a"} or {"a", "b"}
          BaseDelay,    \* base_delay_ns of each path
          Jitter,       \* jitter_ns of each path
          Loss,         \* loss model of each path
          NsPerSecond, Fps, Ppf   \* of StreamModel::send_ns

LossModels == {"None", "Independent", "GilbertElliott"}

ASSUME NetworkAssumption ==
  /\ NumPackets \in Nat
  /\ Paths \in {{"a"}, {"a", "b"}}
  /\ BaseDelay \in [Paths -> Nat]
  /\ Jitter \in [Paths -> Nat]
  /\ Loss \in [Paths -> LossModels]
  /\ NsPerSecond \in Nat /\ Fps \in Nat \ {0} /\ Ppf \in Nat \ {0}

VARIABLES phase,      \* what disturb is doing: its loop, the walk, nothing more
          cursor,     \* the loop's i: packets sent so far
          in_bad,     \* Gilbert-Elliott state of each path
          schedule,   \* <<arrival time, packet>> of the delivered packets
          walked,     \* the variables of measure_displacement's walk
          net         \* NetworkStats

netVars == <<phase, cursor, in_bad, schedule, walked, net>>

Lost == -1

(* DisplacementStats::default                                              *)
NoDisplacement ==
  [reordered |-> 0, max_lateness |-> 0, p50 |-> 0, p99 |-> 0, p99_9 |-> 0,
   gaps |-> 0, max_gap |-> 0]

NetInit ==
  /\ phase = "sending"
  /\ cursor = 0
  /\ in_bad = [p \in Paths |-> FALSE]
  /\ schedule = <<>>
  /\ net = [sent |-> NumPackets, delivered |-> 0, lost_a |-> 0, lost_b |-> 0,
            lost_packets |-> 0, wins_a |-> 0, wins_b |-> 0,
            duplicates_dropped |-> 0, displacement |-> NoDisplacement]
  /\ walked = [max_seen |-> -1, lateness |-> <<>>, gaps |-> 0, max_gap |-> 0]

Dual == "b" \in Paths

Tick(b) == IF b THEN 1 ELSE 0

(* StreamModel::send_ns: frames at a fixed rate, packets paced within one. *)
send_ns(i) ==
  ((i \div Ppf) * NsPerSecond) \div Fps
    + ((i % Ppf) * NsPerSecond) \div (Fps * Ppf)

(* LossState::next_lost, as the set of <<lost, next state>> it may yield:  *)
(* a burst's state decides this copy's fate, then it may flip.             *)
next_lost(p) ==
  CASE Loss[p] = "None"           -> {<<FALSE, FALSE>>}
    [] Loss[p] = "Independent"    -> BOOLEAN \X {FALSE}
    [] Loss[p] = "GilbertElliott" -> {in_bad[p]} \X BOOLEAN

(* copy_arrival: when the copy on path p arrives, and the path's state.    *)
copy_arrival(p, sent_at) ==
  {<<sent_at + BaseDelay[p] + j, l[2]>> :
     j \in 0 .. Jitter[p], l \in {l \in next_lost(p) : ~l[1]}}
  \cup {<<Lost, l[2]>> : l \in {l \in next_lost(p) : l[1]}}

(* The arrival of the packet whose copies arrive at ta and tb.             *)
merged(ta, tb) ==
  CASE ta = Lost -> tb
    [] tb = Lost -> ta
    [] OTHER     -> IF ta <= tb THEN ta ELSE tb

(* The match on the two copies' fates.                                     *)
tally(ta, tb) ==
  LET both == ta # Lost /\ tb # Lost
  IN  [net EXCEPT
         !.lost_a             = @ + Tick(ta = Lost),
         !.lost_b             = @ + Tick(Dual /\ tb = Lost),
         !.lost_packets       = @ + Tick(ta = Lost /\ tb = Lost),
         !.wins_a             = @ + Tick(ta # Lost /\ (tb = Lost \/ ta <= tb)),
         !.wins_b             = @ + Tick(tb # Lost /\ (ta = Lost \/ tb < ta)),
         !.duplicates_dropped = @ + Tick(both)]

(* One iteration of disturb's loop.                                        *)
Transit ==
  /\ phase = "sending" /\ cursor < NumPackets
  /\ \E a \in copy_arrival("a", send_ns(cursor)),
        b \in IF Dual THEN copy_arrival("b", send_ns(cursor)) ELSE {<<Lost, FALSE>>} :
       /\ net' = tally(a[1], b[1])
       /\ schedule' = IF a[1] = Lost /\ b[1] = Lost THEN schedule
                      ELSE Append(schedule, <<merged(a[1], b[1]), cursor>>)
       /\ in_bad' = [p \in Paths |-> IF p = "a" THEN a[2] ELSE b[2]]
  /\ cursor' = cursor + 1
  /\ UNCHANGED <<phase, walked>>

(* sort_by_key on the arrival time, which is stable: packets that arrive   *)
(* together stay in send order.                                            *)
Earlier(x, y) == x[1] < y[1] \/ (x[1] = y[1] /\ x[2] < y[2])

sort_by_key(entries) ==
  LET set == {entries[k] : k \in 1 .. Len(entries)}
  IN  [k \in 1 .. Len(entries) |->
         CHOOSE e \in set : Cardinality({x \in set : Earlier(x, e)}) = k - 1]

(* What follows the loop, up to the walk of measure_displacement.  The     *)
(* paths' loss states are read no more.                                    *)
sort_arrivals ==
  /\ phase = "sending" /\ cursor = NumPackets
  /\ phase' = "measuring"
  /\ schedule' = sort_by_key(schedule)
  /\ net' = [net EXCEPT !.delivered = Len(schedule)]
  /\ in_bad' = [p \in Paths |-> FALSE]
  /\ UNCHANGED <<cursor, walked>>

(***************************************************************************)
(* measure_displacement: a walk over the arrival order.  max_seen is -1    *)
(* before the first arrival, which makes the first arrival's skip its      *)
(* index.                                                                  *)
(***************************************************************************)
walk_CountsSelf(acc, i) ==
  LET late    == IF i < acc.max_seen THEN acc.max_seen - i ELSE 0
      skipped == IF i > acc.max_seen THEN i - acc.max_seen ELSE 0
  IN  [max_seen |-> IF i > acc.max_seen THEN i ELSE acc.max_seen,
       lateness |-> Append(acc.lateness, late),
       gaps     |-> acc.gaps + Tick(skipped > 0),
       max_gap  |-> IF skipped > acc.max_gap THEN skipped ELSE acc.max_gap]

walk(acc, i) ==
  LET late    == IF i < acc.max_seen THEN acc.max_seen - i ELSE 0
      skipped == IF i > acc.max_seen THEN i - acc.max_seen - 1 ELSE 0
  IN  [max_seen |-> IF i > acc.max_seen THEN i ELSE acc.max_seen,
       lateness |-> Append(acc.lateness, late),
       gaps     |-> acc.gaps + Tick(skipped > 0),
       max_gap  |-> IF skipped > acc.max_gap THEN skipped ELSE acc.max_gap]

(* One iteration of the walk.                                              *)
Walk ==
  LET done == Len(walked.lateness)
  IN  /\ phase = "measuring" /\ done < Len(schedule)
      /\ walked' = walk(walked, schedule[done + 1][2])
      /\ UNCHANGED <<phase, cursor, in_bad, schedule, net>>

(* The statistics of the lateness values and the gap counters.             *)
measured(lateness) ==
  IF Len(lateness) = 0 THEN NoDisplacement
  ELSE [reordered |-> Cardinality({k \in 1 .. Len(lateness) : lateness[k] > 0}),
        max_lateness |-> at_sorted(lateness, Len(lateness)),
        p50 |-> pct(lateness, 500), p99 |-> pct(lateness, 990),
        p99_9 |-> pct(lateness, 999),
        gaps |-> walked.gaps, max_gap |-> walked.max_gap]

(* The end of measure_displacement, and of disturb.                        *)
measure_displacement ==
  /\ phase = "measuring" /\ Len(walked.lateness) = Len(schedule)
  /\ phase' = "returned"
  /\ net' = [net EXCEPT !.displacement = measured(walked.lateness)]
  /\ UNCHANGED <<cursor, in_bad, schedule, walked>>

NetNext == Transit \/ sort_arrivals \/ Walk \/ measure_displacement

-----------------------------------------------------------------------------
Returned == phase = "returned"
Positions == 1 .. Len(schedule)

(* The network's own ledger balances after every packet: each packet was   *)
(* delivered by one path or lost by all, and each copy was delivered, lost *)
(* or thrown away as a duplicate.                                          *)
LedgerBalances ==
  /\ net.wins_a + net.wins_b = Len(schedule)
  /\ Len(schedule) + net.lost_packets = cursor
  /\ net.lost_a + net.lost_b + net.duplicates_dropped + Len(schedule)
       = cursor * Cardinality(Paths)
  /\ Returned => net.delivered + net.lost_packets = net.sent

(***************************************************************************)
(* What the displacement statistics mean, stated without the walk.         *)
(***************************************************************************)
Before(p) == {schedule[q][2] : q \in 1 .. p - 1}

LatenessOf(p) ==
  LET i == schedule[p][2]
  IN  IF \A j \in Before(p) : j < i THEN 0
      ELSE CHOOSE d \in 1 .. NumPackets : i + d \in Before(p) /\ \A j \in Before(p) : j <= i + d

GapOf(p) ==
  LET i == schedule[p][2]
  IN  Cardinality({k \in 0 .. i - 1 : \A j \in Before(p) : j < k /\ j < i})

IsMax(m, S) == (S = {} /\ m = 0) \/ (m \in S /\ \A x \in S : x <= m)

(* At least q thousandths of the arrivals were at most v behind, but for   *)
(* half an arrival: the position of a percentile is rounded.               *)
ShareUpTo(v, q) ==
  1000 * Cardinality({p \in Positions : LatenessOf(p) <= v}) >= q * (Len(schedule) - 1) + 500

PercentilesHold(d) == ShareUpTo(d.p50, 500) /\ ShareUpTo(d.p99, 990) /\ ShareUpTo(d.p99_9, 999)

(* The single pass of measure_displacement computes what the fields of     *)
(* DisplacementStats are documented to be: how far each arrival lies       *)
(* behind the newest one before it, how many packets that had not arrived  *)
(* it jumped over, and percentiles that their share of the arrivals does   *)
(* not exceed (for p50 exactly half, for the others to within half an      *)
(* arrival).                                                               *)
DisplacementExact ==
  Returned =>
    /\ net.displacement.reordered = Cardinality({p \in Positions : LatenessOf(p) > 0})
    /\ IsMax(net.displacement.max_lateness, {LatenessOf(p) : p \in Positions})
    /\ net.displacement.gaps = Cardinality({p \in Positions : GapOf(p) > 0})
    /\ IsMax(net.displacement.max_gap, {GapOf(p) : p \in Positions})
    /\ PercentilesHold(net.displacement)
=============================================================================
