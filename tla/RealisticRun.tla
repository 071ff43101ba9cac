---------------------------- MODULE RealisticRun ----------------------------
(***************************************************************************)
(* A whole simulated stream, as the benchmarks drive it                    *)
(* (src/benches/realistic_receiver.rs): disturb decides the arrival order, *)
(* the sender produces packets in send order as far as the next arrival    *)
(* needs, and the receiver is called once per arrival.  The properties     *)
(* compare what the network measured with what the receiver counted.       *)
(***************************************************************************)
EXTENDS RekeyingStream, RecvStats, SimNetwork

ASSUME RunAssumption == MaxPackets = NumPackets /\ PacketsPerFrame = Ppf

VARIABLE call   \* arrivals given to the receiver so far

vars == <<netVars, txVars, rxVars, stats, call>>

Init == NetInit /\ TxInit /\ RxInit /\ StatsInit /\ call = 0

Disturb == NetNext /\ UNCHANGED <<txVars, rxVars, stats, call>>

Arriving == schedule[call + 1][2]

(* Packets sent before the arriving one are produced (and stashed) first.  *)
Produce ==
  /\ Returned /\ call < Len(schedule)
  /\ Len(sent) <= Arriving
  /\ next_protected
  /\ UNCHANGED <<netVars, rxVars, stats, call>>

Receive ==
  /\ Returned /\ call < Len(schedule)
  /\ Len(sent) > Arriving
  /\ counted_unprotect(sent[Arriving + 1])
  /\ call' = call + 1
  /\ UNCHANGED <<netVars, txVars>>

Finished == Returned /\ call = Len(schedule) /\ UNCHANGED vars

Next == Disturb \/ Produce \/ Receive \/ Finished

Spec == Init /\ [][Next]_vars

-----------------------------------------------------------------------------
Over == Returned /\ call = Len(schedule)

(* Arrivals that found their key deleted are exactly those the network     *)
(* measured at least K behind: at packet-level keying the keying loss is   *)
(* a property of the arrival order alone, neither loss nor the order of    *)
(* catch-ups adds to it, as long as no arrival lies half of the sequence   *)
(* space or more before or after the newest one.                           *)
KeyingLossIsLateness ==
  /\ Returned /\ Scheme = "Packet"
  /\ stats["drops_seek_cap"] = 0
  /\ \A p \in 1 .. call : LatenessOf(p) < Half /\ GapOf(p) + 1 < Half
  => stats["drops_behind"] = Cardinality({p \in 1 .. call : LatenessOf(p) >= K})

(* At packet-level keying the worst catch-up is the worst gap plus one, as *)
(* the benchmark asserts (realistic_receiver.rs:591): no packet within     *)
(* half of the sequence space makes the receiver derive more than the      *)
(* packets it skipped.                                                     *)
CatchupIsGap ==
  /\ Over /\ Scheme = "Packet" /\ call > 0
  /\ stats["drops_seek_cap"] = 0
  /\ net.displacement.max_lateness < Half
  /\ net.displacement.max_gap + 1 < Half
  => stats["max_catchup"] = net.displacement.max_gap + 1

(* The ledgers of network and receiver balance and agree: each packet was *)
(* delivered by one path or lost by all, each copy was delivered, lost or  *)
(* thrown away as a duplicate, and every packet delivered ended as one     *)
(* outcome of the receiver (realistic_receiver.rs:558-572).                *)
LedgersAgree ==
  /\ LedgerBalances
  /\ Over => net.delivered = Outcomes

(* The receiver can follow the stream: no loss in a row is longer than a   *)
(* catch-up may be, or reaches half of the sequence space.                 *)
Followable ==
  /\ net.displacement.max_gap < SeekCap
  /\ net.displacement.max_gap + 1 < Half

(* If the network stayed within the limits the receiver was sized for,     *)
(* every packet that arrived was decrypted.                                *)
SizedReceiverLosesNothing ==
  /\ Over /\ Followable
  /\ net.displacement.max_lateness < K
  /\ net.displacement.max_lateness < ReplayWindow
  => stats["decrypted"] = net.delivered

(* In a stream the receiver can follow a genuine packet fails to           *)
(* authenticate only at half of the sequence space or more behind the      *)
(* newest one, and one further behind is never decrypted: the two          *)
(* assertions in the benchmark's loop (realistic_receiver.rs:487, 546).    *)
AuthFailsOnlyFarBehind ==
  call > 0 /\ Followable =>
    LET lateness == rdbx.index - schedule[call][2]
    IN  /\ result.status = "AuthFail" => lateness >= Half
        /\ result.status = "Ok" => lateness <= Half

(* The benchmark's equation for the derivations of a whole run             *)
(* (realistic_receiver.rs:574-583): "every generation 0..=frontier was     *)
(* derived exactly once, so the derivation count must equal frontier + 1:  *)
(* catch-ups never re-derive.  Auth failures do not disturb this: they hit *)
(* only packets far behind the frontier".  At packet-level keying it does  *)
(* not hold: the index recovered for such a packet is one cycle too high,  *)
(* so that it is taken for a packet ahead and derived for in vain.         *)
DerivationsMatchFrontier == Over => stats["catchup_steps"] = frontier + 1
=============================================================================
