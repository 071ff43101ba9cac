----------------------------- MODULE TeslaProofs -----------------------------
(***************************************************************************)
(* Theorems about TESLA, for every schedule, clock skew within the bound,  *)
(* sequence space and number of packets.                                   *)
(***************************************************************************)
EXTENDS TeslaStream, KeyManagerProofs

(* The steps late in a long module need more than the provers' default time. *)
USE SMTT(60)

-----------------------------------------------------------------------------
(***************************************************************************)
(* The timetable.                                                          *)
(***************************************************************************)

(* The sender's interval never goes back.                                  *)
LEMMA IntervalMonotone ==
  ASSUME NEW a \in Int, NEW b \in Int, a <= b
  PROVE  /\ interval_of(a) \in Int /\ interval_of(b) \in Int
         /\ interval_of(a) <= interval_of(b)
<1> DEFINE x == a - T0
           y == b - T0
<1>1. x \in Int /\ y \in Int /\ x <= y /\ TInt \in Nat \ {0}
  BY ScheduleAssumption
<1>2. interval_of(a) = 1 + x \div TInt /\ interval_of(b) = 1 + y \div TInt
  BY Zenon DEF interval_of
<1> HIDE DEF x, y
<1>3. x \div TInt \in Int /\ y \div TInt \in Int /\ x \div TInt <= y \div TInt
  BY <1>1, Quotient, QuotientMonotone, Zenon
<1> QED BY <1>2, <1>3

(* Intervals are counted from 1.                                           *)
LEMMA IntervalFromOne ==
  ASSUME NEW a \in Int, a >= T0
  PROVE  interval_of(a) \in Nat \ {0}
<1> DEFINE x == a - T0
<1>1. x \in Nat /\ TInt \in Nat \ {0} /\ interval_of(a) = 1 + x \div TInt
  BY ScheduleAssumption DEF interval_of
<1> HIDE DEF x
<1>2. x \div TInt \in Nat
  BY <1>1
<1> QED BY <1>1, <1>2

(* What the accept test is for: whatever the sender's clock reads when a   *)
(* packet passes the test, if it is at most D_t ahead of the receiver's,   *)
(* the key of the packet's interval has not been disclosed.                *)
LEMMA AcceptedKeyIsSecret ==
  ASSUME NEW clock \in Int, clock >= T0, NEW arrived \in Int,
         clock <= arrived + DT, NEW interval \in Nat \ {0},
         accepts(arrived, interval)
  PROVE  disclosed_index(interval_of(clock)) < interval
<1>1. /\ T0 \in Nat /\ TInt \in Nat \ {0} /\ D \in Nat /\ DT \in Nat
      /\ arrived + DT \in Int /\ arrived + DT >= T0
  BY ScheduleAssumption
<1>2. sender_upper_bound(arrived) = interval_of(arrived + DT)
  BY <1>1, Zenon DEF sender_upper_bound, interval_of
<1>3. /\ interval_of(clock) \in Int /\ interval_of(arrived + DT) \in Int
      /\ interval_of(clock) <= interval_of(arrived + DT)
  BY <1>1, IntervalMonotone, Zenon
<1> QED BY <1>1, <1>2, <1>3 DEF accepts, disclosed_index

(* A packet that arrives within the travel budget (d-1)*T_int - D_t after  *)
(* it was sent passes the accept test, also when it was sent at the end of *)
(* its interval (the comment on TeslaSchedule::d).                         *)
THEOREM TravelBudget ==
  ASSUME NEW send_ns \in Int, send_ns >= T0, NEW travel \in Nat,
         travel <= (D - 1) * TInt - DT
  PROVE  accepts(send_ns + travel, interval_of(send_ns))
<1> DEFINE a == send_ns - T0
           b == send_ns + travel + DT - T0
<1>1. /\ T0 \in Nat /\ TInt \in Nat \ {0} /\ D \in Nat /\ D >= 2 /\ DT \in Nat
      /\ a \in Int /\ b \in Int /\ b >= 0 /\ D - 1 \in Int
  BY ScheduleAssumption
<1>2. b <= a + TInt * (D - 1)
  BY <1>1
<1>3. interval_of(send_ns) = 1 + a \div TInt
  BY Zenon DEF interval_of
<1>4. sender_upper_bound(send_ns + travel) = 1 + b \div TInt
  BY <1>1 DEF sender_upper_bound
<1> HIDE DEF a, b
<1> DEFINE q == a \div TInt
           r == b \div TInt
<1>5. /\ q \in Int /\ r \in Int
      /\ a < TInt * q + TInt
      /\ TInt * r <= b
  BY <1>1, Quotient, Zenon
<1> HIDE DEF q, r
<1>6. r < q + D
  <2>1. SUFFICES ASSUME q + D <= r PROVE FALSE
    BY <1>1, <1>5
  <2>2. TInt * (q + (D - 1)) + TInt <= TInt * r
    BY <1>1, <1>5, <2>1, NextMultiple
  <2>3. TInt * (q + (D - 1)) = TInt * q + TInt * (D - 1)
    BY <1>1, <1>5
  <2> QED BY <1>1, <1>2, <1>5, <2>2, <2>3
<1> QED BY <1>1, <1>3, <1>4, <1>5, <1>6 DEF accepts, q, r

-----------------------------------------------------------------------------
(***************************************************************************)
(* Source authentication.  The argument: an extension another member wrote *)
(* and that waits in a drawer was accepted, so that the key of the         *)
(* interval it claims was not public when its MAC was made, or its MAC is  *)
(* the sender's under another label; the trusted key, and with it every    *)
(* key recovered, is the chain's; so the key its MAC is checked with is    *)
(* another one.                                                            *)
(***************************************************************************)

(* An entry that cannot verify, or is as the sender sent it.  No key       *)
(* belongs to interval 0.                                                  *)
Harmless(e) == e.interval = 0 \/ e.mac.key # e.interval \/ AsSent(e)

(* What the sender has put on the wire: each packet carries a MAC of its   *)
(* interval's key and discloses the key D intervals behind, no packet a    *)
(* newer one than the last packet, and the last packet none that is not    *)
(* due.                                                                    *)
WireInv ==
  /\ prepared = current_interval
  /\ wire \in Seq({wire[i] : i \in 1 .. Len(wire)})
  /\ \A i \in 1 .. Len(wire) :
       /\ wire[i].from = "sender"
       /\ wire[i].mac.key = wire[i].interval
       /\ wire[i].interval \in Nat
       /\ wire[i].disclosed \in Nat
       /\ wire[i].disclosed <= wire[Len(wire)].disclosed
  /\ wire # <<>> => wire[Len(wire)].disclosed <= disclosed_index(interval_of(now))

ReceiverInv ==
  /\ trusted.index \in Nat
  /\ TrustedIsGenuine
  /\ \A e \in drawers : e.interval \in Nat /\ Harmless(e)
  /\ DrawersAwaitNextKeys
  /\ SourceAuthentic
TeslaInv == now \in Int /\ now >= T0 /\ WireInv /\ ReceiverInv

LEMMA SeqIsFunction ==
  ASSUME NEW S, NEW s \in Seq(S)
  PROVE  Len(s) \in Nat /\ s \in [1 .. Len(s) -> S]
OBVIOUS

LEMMA FunctionIsSeq ==
  ASSUME NEW S, NEW n \in Nat, NEW s \in [1 .. n -> S]
  PROVE  s \in Seq(S)
OBVIOUS

(* Appending an element, whatever it is, to a sequence.                    *)
LEMMA AppendAny ==
  ASSUME NEW s, s \in Seq({s[i] : i \in 1 .. Len(s)}), NEW x,
         NEW t, t = Append(s, x)
  PROVE  /\ Len(s) \in Nat /\ Len(t) = Len(s) + 1
         /\ \A i \in 1 .. Len(s) : t[i] = s[i]
         /\ t[Len(t)] = x
         /\ t \in Seq({t[i] : i \in 1 .. Len(t)})
<1> DEFINE S == {s[i] : i \in 1 .. Len(s)}
           T == S \cup {x}
<1>1. s \in [1 .. Len(s) -> S] /\ Len(s) \in Nat
  OBVIOUS
<1>2. s \in Seq(T)
  BY <1>1
<1>3. /\ t \in Seq(T) /\ Len(t) = Len(s) + 1 /\ t[Len(t)] = x
      /\ \A i \in 1 .. Len(s) : t[i] = s[i]
  BY <1>2
<1>4. t \in [1 .. Len(t) -> {t[i] : i \in 1 .. Len(t)}] /\ Len(t) \in Nat
  <2>1. t \in [1 .. Len(t) -> T] /\ Len(t) \in Nat
    BY <1>3, SeqIsFunction, Zenon
  <2> HIDE DEF T
  <2> QED BY <2>1, Zenon
<1>5. t \in Seq({t[i] : i \in 1 .. Len(t)})
  BY <1>4, FunctionIsSeq, Zenon
<1> QED BY <1>1, <1>3, <1>5, Zenon

(* What one call of process_arrival does to the receiver, whoever wrote    *)
(* the packet.                                                             *)
LEMMA Arrival ==
  ASSUME ReceiverInv, NEW w, NEW t, process_arrival(w, t), UNCHANGED wire,
         w.interval \in Nat, w.disclosed \in Int,
         w.disclosed \in PublicKeys \cup {Junk},
         accepts(t, w.interval) =>
           /\ Harmless(DrawerEntry(w))
           /\ w.interval = 0 \/ \A k \in PublicKeys : k < w.interval
  PROVE  ReceiverInv'
<1> DEFINE index == disclosed_index(w.interval)
           keys  == recovered(trusted, w.disclosed, index)
<1>1. PublicKeys' = PublicKeys
  BY Zenon DEF PublicKeys
<1>2. index \in Nat /\ w.interval <= index + D /\ D \in Nat
  BY ScheduleAssumption DEF disclosed_index
<1> DEFINE entry == DrawerEntry(w)
<1>3. entry.interval = w.interval
  BY Zenon DEF DrawerEntry
<1> HIDE DEF entry
<1>4. CASE UNCHANGED <<trusted, drawers, verified>>
  BY <1>1, <1>4, Zenon
  DEF ReceiverInv, TrustedIsGenuine, SourceAuthentic, DrawersAwaitNextKeys, Harmless, AsSent
<1>5. CASE accepts(t, w.interval) /\ DeliverNotNew(w)
  <2>1. index <= trusted.index
    BY <1>2, <1>5, Zenon DEF DeliverNotNew, Disclosure, check, ReceiverInv
  <2>2. w.interval # 0 => w.interval > trusted.index /\ w.interval <= trusted.index + D
    BY <1>2, <1>5, <2>1 DEF ReceiverInv, TrustedIsGenuine
  <2>3. UNCHANGED <<trusted, verified>> /\ drawers' = drawers \cup {entry}
    BY <1>5, Zenon DEF DeliverNotNew, entry
  <2>4. DrawersAwaitNextKeys'
    BY <1>3, <2>2, <2>3, Zenon DEF DrawersAwaitNextKeys, ReceiverInv
  <2>5. \A e \in drawers' : e.interval \in Nat /\ Harmless(e)
    BY <1>3, <1>5, <2>3, Zenon DEF ReceiverInv, entry
  <2> QED
    BY <1>1, <2>3, <2>4, <2>5, Zenon
    DEF ReceiverInv, TrustedIsGenuine, SourceAuthentic, Harmless, AsSent
<1>6. CASE accepts(t, w.interval) /\ DeliverNew(w)
  <2>1. index > trusted.index /\ f_steps(w.disclosed, index - trusted.index) = trusted.key
    BY <1>2, <1>6 DEF DeliverNew, Disclosure, check, ReceiverInv
  <2>2. w.disclosed = index /\ index \in Nat
    BY <1>2, <2>1 DEF f_steps, ReceiverInv, TrustedIsGenuine
  <2>3. /\ trusted' = [index |-> index, key |-> w.disclosed]
        /\ verified' = verified \cup {e \in Settled(keys) : Matches(e, keys)}
        /\ drawers' = (drawers \ Settled(keys)) \cup {entry}
    BY <1>6, Zenon DEF DeliverNew, settle, entry
  <2>4. trusted'.index \in Nat /\ TrustedIsGenuine'
    BY <1>1, <2>2, <2>3 DEF TrustedIsGenuine, Junk
  <2>5. \A e \in drawers' : e.interval \in Nat /\ Harmless(e)
    BY <1>3, <1>6, <2>3, Zenon DEF ReceiverInv, entry
  <2>6. ASSUME NEW e \in Settled(keys), Matches(e, keys)
        PROVE  AsSent(e)
    <3>1. e \in drawers /\ e.interval \in trusted.index + 1 .. index
      BY Zenon DEF Settled, recovered
    <3>2. keys[e.interval] = e.interval
      BY <1>2, <2>2, <3>1 DEF recovered, f_steps, ReceiverInv
    <3>3. e.mac.key = e.interval
      BY <2>6, <3>2 DEF Matches, tag
    <3>4. e.interval # 0
      BY <3>1 DEF ReceiverInv
    <3> QED BY <3>1, <3>3, <3>4, Zenon DEF ReceiverInv, Harmless
  <2>7. SourceAuthentic'
    <3>1. \A e \in verified' : AsSent(e)
      BY <2>3, <2>6, Zenon DEF SourceAuthentic, ReceiverInv
    <3> QED BY <3>1, Zenon DEF SourceAuthentic, AsSent
  <2>8. DrawersAwaitNextKeys'
    <3>1. ASSUME NEW e \in drawers \ Settled(keys), e.interval # 0
          PROVE  e.interval > index /\ e.interval <= index + D
      <4>1. /\ e \in drawers /\ e.interval \in Nat
            /\ e.interval > trusted.index /\ e.interval <= trusted.index + D
        BY <3>1, Zenon DEF ReceiverInv, DrawersAwaitNextKeys
      <4>2. e.interval \notin trusted.index + 1 .. index
        BY <3>1, Zenon DEF Settled, recovered
      <4> QED BY <1>2, <2>1, <4>1, <4>2 DEF ReceiverInv
    <3>2. w.interval # 0 => w.interval > index /\ w.interval <= index + D
      BY <1>2, <1>6, <2>2 DEF Junk
    <3> QED BY <1>3, <2>3, <3>1, <3>2, Zenon DEF DrawersAwaitNextKeys
  <2> QED BY <2>4, <2>5, <2>7, <2>8, Zenon DEF ReceiverInv, Harmless, AsSent
<1> QED
  BY <1>4, <1>5, <1>6, Zenon
  DEF process_arrival, DropUnsafe, DropSrtp, DropBadDisclosure, DeliverTesla, Verdict

(* The invariant is inductive.                                             *)
LEMMA TeslaInit_Inv == Init => TeslaInv
<1> SUFFICES ASSUME Init PROVE TeslaInv
  BY Zenon
<1>1. wire = <<>> /\ now = T0 /\ trusted = [index |-> 0, key |-> 0]
      /\ drawers = {} /\ verified = {} /\ prepared = current_interval
  BY Zenon DEF Init, TeslaInit
<1>2. WireInv
  BY <1>1 DEF WireInv
<1>3. ReceiverInv
  BY <1>1, Zenon DEF ReceiverInv, TrustedIsGenuine, PublicKeys, SourceAuthentic, DrawersAwaitNextKeys
<1> QED BY <1>1, <1>2, <1>3, ScheduleAssumption DEF TeslaInv

(* The sender's packet: it discloses what is due, and what was public      *)
(* remains so.                                                             *)
LEMMA SendStep ==
  ASSUME TeslaInv, Send
  PROVE  TeslaInv'
<1> DEFINE interval == interval_of(now)
           i_d == disclosed_index(interval)
<1>1. interval \in Nat /\ i_d \in Nat
  BY IntervalFromOne, ScheduleAssumption DEF TeslaInv, disclosed_index
<1>2. PICK w : /\ wire' = Append(wire, w)
               /\ w.from = "sender" /\ w.interval = interval /\ w.disclosed = i_d
               /\ w.mac.key = prepare(interval)
  BY DEF Send, authenticate, tag
<1>3. now' = now /\ UNCHANGED <<trusted, drawers, verified>>
  BY Zenon DEF Send, teslaVars
<1> HIDE DEF interval
<1>3a. prepare(interval) = interval /\ prepared' = current_interval'
  BY Zenon DEF prepare, TeslaInv, WireInv, Send, authenticate, interval
<1> HIDE DEF i_d
<1>4. /\ Len(wire) \in Nat /\ Len(wire') = Len(wire) + 1
      /\ \A i \in 1 .. Len(wire) : wire'[i] = wire[i]
      /\ wire'[Len(wire')] = w
      /\ wire' \in Seq({wire'[i] : i \in 1 .. Len(wire')})
  BY <1>2, AppendAny DEF TeslaInv, WireInv
<1>5. \A i \in 1 .. Len(wire) : wire[i].disclosed <= i_d
  <2>1. ASSUME NEW i \in 1 .. Len(wire) PROVE wire[i].disclosed <= i_d
    <3>1. wire # <<>> /\ Len(wire) \in 1 .. Len(wire)
      BY <1>4
    <3> QED BY <1>1, <3>1 DEF TeslaInv, WireInv, interval, i_d
  <2> QED BY <2>1, Zenon
<1>6. WireInv'
  <2>1. ASSUME NEW i \in 1 .. Len(wire')
        PROVE  /\ wire'[i].from = "sender"
               /\ wire'[i].mac.key = wire'[i].interval
               /\ wire'[i].interval \in Nat
               /\ wire'[i].disclosed \in Nat
               /\ wire'[i].disclosed <= wire'[Len(wire')].disclosed
    <3>1. CASE i \in 1 .. Len(wire)
      BY <1>2, <1>4, <1>5, <3>1, Zenon DEF TeslaInv, WireInv
    <3>2. CASE i = Len(wire')
      BY <1>1, <1>2, <1>3a, <1>4, <3>2
    <3> QED BY <1>4, <3>1, <3>2
  <2>2. wire'[Len(wire')].disclosed <= disclosed_index(interval_of(now'))
    BY <1>1, <1>2, <1>3, <1>4 DEF interval, i_d
  <2> QED BY <1>3a, <1>4, <2>1, <2>2, Zenon DEF WireInv
<1>7. trusted.index \in PublicKeys'
  <2>1. PublicKeys' = 0 .. i_d
    <3>1. wire' # <<>>
      BY <1>4
    <3> QED BY <1>2, <1>4, <3>1, Zenon DEF PublicKeys
  <2>2. CASE wire = <<>>
    BY <1>1, <2>1, <2>2 DEF TeslaInv, ReceiverInv, TrustedIsGenuine, PublicKeys
  <2>3. CASE wire # <<>>
    <3>1. Len(wire) \in 1 .. Len(wire)
      BY <1>4, <2>3 DEF TeslaInv, WireInv
    <3> QED
      BY <1>1, <1>5, <2>1, <2>3, <3>1
      DEF TeslaInv, ReceiverInv, TrustedIsGenuine, PublicKeys, WireInv
  <2> QED BY <2>2, <2>3, Zenon
<1>8. 1 .. Len(wire) \subseteq 1 .. Len(wire')
  BY <1>4
<1>9. (\A e \in drawers : Harmless(e))' /\ SourceAuthentic'
  <2>1. ASSUME NEW e, AsSent(e)
        PROVE  \E i \in 1 .. Len(wire') :
                 /\ e.covered = Covered(wire'[i])
                 /\ e.interval = wire'[i].interval
                 /\ e.mac = wire'[i].mac
    <3>1. PICK i \in 1 .. Len(wire) :
            /\ e.covered = Covered(wire[i])
            /\ e.interval = wire[i].interval
            /\ e.mac = wire[i].mac
      BY <2>1, Zenon DEF AsSent
    <3>2. i \in 1 .. Len(wire') /\ wire'[i] = wire[i]
      BY <1>4, <1>8, Zenon
    <3> QED BY <3>1, <3>2, Zenon
  <2> QED
    BY <1>3, <2>1, Zenon DEF TeslaInv, ReceiverInv, SourceAuthentic, Harmless, AsSent
<1>10. ReceiverInv'
  BY <1>3, <1>7, <1>9, Zenon DEF TeslaInv, ReceiverInv, TrustedIsGenuine, DrawersAwaitNextKeys
<1> QED BY <1>3, <1>6, <1>10, Zenon DEF TeslaInv

(* An accepted packet's key is not among the public ones: the clock bound  *)
(* of the receiver's configuration holds.                                  *)
LEMMA AcceptedIsNotPublic ==
  ASSUME TeslaInv, NEW interval \in Nat, accepts(arrival_ns, interval)
  PROVE  interval = 0 \/ \A k \in PublicKeys : k < interval
<1> SUFFICES ASSUME interval # 0, NEW k \in PublicKeys PROVE k < interval
  BY Zenon
<1>1. arrival_ns \in Int /\ now <= arrival_ns + DT /\ DT \in Nat
  BY ClockAssumption, ScheduleAssumption DEF arrival_ns, TeslaInv
<1>2. disclosed_index(interval_of(now)) < interval
  BY <1>1, AcceptedKeyIsSecret, Zenon DEF TeslaInv
<1>3. CASE wire = <<>>
  BY <1>3 DEF PublicKeys
<1>4. CASE wire # <<>>
  <2>1. Len(wire) \in 1 .. Len(wire)
    BY <1>4 DEF TeslaInv, WireInv
  <2>2. /\ k \in 0 .. wire[Len(wire)].disclosed
        /\ wire[Len(wire)].disclosed \in Nat
        /\ wire[Len(wire)].disclosed <= disclosed_index(interval_of(now))
    BY <1>4, <2>1, Zenon DEF TeslaInv, WireInv, PublicKeys
  <2>3. disclosed_index(interval_of(now)) \in Nat
    BY IntervalFromOne, ScheduleAssumption DEF TeslaInv, disclosed_index
  <2> QED BY <1>2, <2>2, <2>3
<1> QED BY <1>3, <1>4, Zenon

(* The clock moves on: more keys fall due, none is disclosed.              *)
LEMMA TickStep ==
  ASSUME TeslaInv, Tick
  PROVE  TeslaInv'
<1>1. /\ now' = now + 1
      /\ UNCHANGED <<wire, current_interval, prepared, trusted, drawers, verified>>
      /\ now \in Int /\ now >= T0 /\ T0 \in Nat
  BY ScheduleAssumption, Zenon DEF Tick, TeslaInv, teslaVars
<1>2. interval_of(now) \in Int /\ interval_of(now') \in Int
      /\ interval_of(now) <= interval_of(now')
  BY <1>1, IntervalMonotone
<1>3. /\ disclosed_index(interval_of(now)) <= disclosed_index(interval_of(now'))
      /\ disclosed_index(interval_of(now)) \in Int
      /\ disclosed_index(interval_of(now')) \in Int
  BY <1>2, ScheduleAssumption DEF disclosed_index
<1>4. WireInv'
  <2>1. wire # <<>> => wire[Len(wire)].disclosed \in Nat
    BY DEF TeslaInv, WireInv
  <2>2. wire # <<>> => wire[Len(wire)].disclosed <= disclosed_index(interval_of(now'))
    BY <1>3, <2>1 DEF TeslaInv, WireInv
  <2> QED BY <1>1, <2>2, Zenon DEF TeslaInv, WireInv
<1>5. ReceiverInv'
  BY <1>1, Zenon
  DEF TeslaInv, ReceiverInv, TrustedIsGenuine, PublicKeys, SourceAuthentic, DrawersAwaitNextKeys,
      Harmless, AsSent
<1> QED BY <1>1, <1>4, <1>5 DEF TeslaInv

(* A packet of the sender arrives.                                         *)
LEMMA ArriveStep ==
  ASSUME TeslaInv, Arrive
  PROVE  TeslaInv'
<1>1. PICK i \in 1 .. Len(wire) : process_arrival(wire[i], arrival_ns)
  BY Zenon DEF Arrive
<1>2. UNCHANGED <<now, wire, current_interval, prepared>>
  BY Zenon DEF Arrive, tsVars
<1>3. wire # <<>> /\ Len(wire) \in 1 .. Len(wire)
  BY <1>1 DEF TeslaInv, WireInv
<1>4. /\ wire[i].interval \in Nat /\ wire[i].from = "sender"
      /\ wire[i].disclosed \in Nat /\ wire[i].disclosed \in PublicKeys
  BY <1>3 DEF TeslaInv, WireInv, PublicKeys
<1>5. accepts(arrival_ns, wire[i].interval) =>
        wire[i].interval = 0 \/ \A k \in PublicKeys : k < wire[i].interval
  BY <1>4, AcceptedIsNotPublic, Zenon
<1>6. Harmless(DrawerEntry(wire[i]))
  BY Zenon DEF Harmless, AsSent, DrawerEntry
<1>7. ReceiverInv /\ wire[i].disclosed \in Int /\ UNCHANGED wire
  BY <1>2, <1>4 DEF TeslaInv
<1>8. ReceiverInv'
  BY <1>1, <1>4, <1>5, <1>6, <1>7, Arrival, Zenon
<1> QED BY <1>2, <1>8, Zenon DEF TeslaInv, WireInv

(* An extension another member wrote: its MAC was made with a public key,  *)
(* or is the sender's, which fits its interval or is as sent.              *)
LEMMA ArriveForeignStep ==
  ASSUME TeslaInv, ArriveForeign
  PROVE  TeslaInv'
<1>0. PICK bytes \in ForeignBytes, interval \in 0 .. NChain + D + 1,
           disclosed \in PublicKeys \cup {Junk} :
        \E mac \in ForeignMacs(bytes) :
          process_arrival(ForeignDatagram(bytes, interval, disclosed, mac), arrival_ns)
  BY Zenon DEF ArriveForeign
<1>1. PICK mac \in ForeignMacs(bytes) :
        process_arrival(ForeignDatagram(bytes, interval, disclosed, mac), arrival_ns)
  BY <1>0, Zenon
<1> DEFINE w == ForeignDatagram(bytes, interval, disclosed, mac)
<1>2. UNCHANGED <<now, wire, current_interval, prepared>>
  BY Zenon DEF ArriveForeign
<1>3. /\ w.interval = interval /\ w.disclosed = disclosed
      /\ DrawerEntry(w).interval = interval /\ DrawerEntry(w).mac = mac
      /\ DrawerEntry(w).covered = [srtp |-> bytes.srtp, from |-> bytes.from]
  BY Zenon DEF ForeignDatagram, DrawerEntry, Covered
<1>4. interval \in Nat
  BY ScheduleAssumption
<1>5. PublicKeys \subseteq Int /\ Junk \in Int /\ Junk < 0
  <2>1. wire # <<>> => wire[Len(wire)].disclosed \in Nat
    BY DEF TeslaInv, WireInv
  <2> QED BY <2>1 DEF PublicKeys, Junk
<1>6. accepts(arrival_ns, interval) =>
        /\ interval = 0 \/ \A k \in PublicKeys : k < interval
        /\ Harmless(DrawerEntry(w))
  <2> SUFFICES ASSUME accepts(arrival_ns, interval)
               PROVE  /\ interval = 0 \/ \A k \in PublicKeys : k < interval
                      /\ Harmless(DrawerEntry(w))
    BY Zenon
  <2>1. interval = 0 \/ \A k \in PublicKeys : k < interval
    BY <1>4, AcceptedIsNotPublic, Zenon
  <2>2. CASE \E key \in PublicKeys \cup {Junk} : mac = tag(key, bytes.srtp.index, bytes)
    <3>1. PICK key \in PublicKeys \cup {Junk} : mac = tag(key, bytes.srtp.index, bytes)
      BY <2>2, Zenon
    <3>2. mac.key = key
      BY <3>1, Zenon DEF tag
    <3>3. interval = 0 \/ key # interval
      BY <1>4, <1>5, <2>1
    <3> QED BY <1>3, <2>1, <3>2, <3>3, Zenon DEF Harmless
  <2>3. CASE \E i \in 1 .. Len(wire) : Covered(wire[i]) = bytes /\ mac = wire[i].mac
    <3>1. PICK i \in 1 .. Len(wire) : Covered(wire[i]) = bytes /\ mac = wire[i].mac
      BY <2>3, Zenon
    <3>2. mac.key = wire[i].interval
      BY <3>1, Zenon DEF TeslaInv, WireInv
    <3>3. DrawerEntry(w).covered = Covered(wire[i])
      BY <1>3, <3>1, Zenon DEF Covered
    <3>4. interval = wire[i].interval => AsSent(DrawerEntry(w))
      BY <1>3, <3>1, <3>3, Zenon DEF AsSent
    <3> QED BY <1>3, <2>1, <3>2, <3>4, Zenon DEF Harmless
  <2> QED BY <2>2, <2>3, Zenon DEF ForeignMacs
<1>7. /\ ReceiverInv /\ UNCHANGED wire
      /\ w.interval \in Nat /\ w.disclosed \in Int
      /\ w.disclosed \in PublicKeys \cup {Junk}
      /\ accepts(arrival_ns, w.interval) =>
           /\ Harmless(DrawerEntry(w))
           /\ w.interval = 0 \/ \A k \in PublicKeys : k < w.interval
  BY <1>2, <1>3, <1>4, <1>5, <1>6, Zenon DEF TeslaInv
<1> HIDE DEF w
<1>8. ReceiverInv'
  BY <1>1, <1>7, Arrival, Zenon DEF w
<1> QED BY <1>2, <1>8, Zenon DEF TeslaInv, WireInv

(* The invariant the theorems below rest on.                               *)
THEOREM TeslaInvariant == Spec => []TeslaInv
<1>1. TeslaInv /\ [Next]_vars => TeslaInv'
  <2> SUFFICES ASSUME TeslaInv, [Next]_vars PROVE TeslaInv'
    BY Zenon
  <2>1. CASE UNCHANGED <<tsVars, trusted, drawers, verified>>
    BY <2>1, Zenon
    DEF TeslaInv, WireInv, ReceiverInv, TrustedIsGenuine, PublicKeys, SourceAuthentic,
        DrawersAwaitNextKeys, Harmless, AsSent, tsVars
  <2>2. UNCHANGED vars => UNCHANGED <<tsVars, trusted, drawers, verified>>
    BY Zenon DEF vars, teslaVars
  <2>3. ArriveMalformed => UNCHANGED <<tsVars, trusted, drawers, verified>>
    BY Zenon DEF ArriveMalformed, DropMalformed, Verdict
  <2> QED
    BY <2>1, <2>2, <2>3, TickStep, SendStep, ArriveStep, ArriveForeignStep, Zenon DEF Next
<1> QED BY <1>1, TeslaInit_Inv, PTL DEF Spec

(* Source authentication (TeslaReceiver::process_arrival, settle): a       *)
(* packet is counted as verified only if it is as the sender sent it,      *)
(* whatever the other members send, write behind the sender's packets and  *)
(* however packets are delayed, lost or repeated.                          *)
THEOREM OnlySenderVerifies == Spec => []SourceAuthentic
<1>1. TeslaInv => SourceAuthentic
  BY Zenon DEF TeslaInv, ReceiverInv
<1> QED BY <1>1, TeslaInvariant, PTL

(* The receiver trusts only keys of the sender's chain that were public    *)
(* (ChainVerifier::check).                                                 *)
THEOREM OnlyChainKeysTrusted == Spec => []TrustedIsGenuine
<1>1. TeslaInv => TrustedIsGenuine
  BY Zenon DEF TeslaInv, ReceiverInv
<1> QED BY <1>1, TeslaInvariant, PTL

(* No packet waits for a key that was already processed, and at most D     *)
(* intervals wait (TeslaReceiver::drawers).                                *)
THEOREM WaitingIsBounded == Spec => []DrawersAwaitNextKeys
<1>1. TeslaInv => DrawersAwaitNextKeys
  BY Zenon DEF TeslaInv, ReceiverInv
<1> QED BY <1>1, TeslaInvariant, PTL
-----------------------------------------------------------------------------
(***************************************************************************)
(* What becomes of the sender's own packets.  The receiver keeps two index *)
(* recoveries, libsrtp's and TESLA's, fed by different code; a packet is   *)
(* settled at the index TESLA recovered for it and was accepted at the one *)
(* libsrtp estimated.  The invariant: both references are equal, every     *)
(* entry is recorded in the replay database (so that no second entry can   *)
(* be made of its packet), and the packets on the wire carry the MAC of    *)
(* their interval's key over their own index.                              *)
(***************************************************************************)
WireSealed ==
  /\ Len(wire) = Len(sent)
  /\ \A i \in 1 .. Len(wire) :
       /\ wire[i].srtp = sent[i]
       /\ wire[i].interval \in 1 .. NChain
       /\ wire[i].disclosed = disclosed_index(wire[i].interval)
       /\ wire[i].mac = tag(wire[i].interval, i - 1, Covered(wire[i]))

RecoveryInSync ==
  /\ recovery \in Nat \cup {None}
  /\ IF recovery = None THEN rdbx.index = 0 ELSE recovery = rdbx.index

(* An entry with the sender's bytes is of a packet sent before: no later   *)
(* packet can turn out to be it.                                           *)
BytesAreSent == \A e \in Entries : e.covered.from = "sender" => e.ext_index < Len(sent)

EntriesInv ==
  /\ \A e \in Entries : e.ext_index \in Nat /\ Seen(rdbx, e.ext_index)
  /\ EntriesAtSealedIndex
  /\ BytesAreSent
  /\ GenuineNeverForged

CountInv ==
  /\ IsFiniteSet(drawers) /\ IsFiniteSet(verified) /\ IsFiniteSet(forged)
  /\ EveryPacketAccounted

AccountInv == TxInv /\ RxInv /\ WireSealed /\ RecoveryInSync /\ EntriesInv /\ CountInv

(* A packet the SRTP layer accepts: TESLA recovers for it the index it was *)
(* sealed at, both references move together, and its entry is a new one.   *)
LEMMA AcceptedIndex ==
  ASSUME AccountInv, NEW w, w.srtp \in Packets, unprotect(w.srtp), Recovered(w)
  PROVE  /\ recover(recovery, w.srtp.seq) = w.srtp.index
         /\ RecoveryInSync'
         /\ Seen(rdbx', w.srtp.index)
         /\ \A e \in Entries : Seen(rdbx', e.ext_index)
         /\ DrawerEntry(w) \notin Entries
<1> DEFINE p == w.srtp
           est == srtp_rdbx_estimate_index(rdbx, p.seq)
<1>1. RxInv /\ rdbx \in RdbxTypes /\ rdbx.index \in Nat /\ p \in Packets /\ p.seq \in Seqs
      /\ p.index \in Nat
  BY Zenon DEF AccountInv, RxInv, RxTypeOK, Packets, RdbxTypes
<1>2. result'.status = "Ok" /\ recovery' = update(recovery, recover(recovery, p.seq))
  BY Zenon DEF Recovered
<1>3. /\ p.index = est
      /\ srtp_rdbx_check(rdbx, srtp_rdbx_estimate_delta(rdbx, p.seq)) = "ok"
      /\ rdbx' = srtp_unprotect_rdbx(rdbx, p)
  BY <1>1, <1>2, DeliveredEffect, Zenon DEF Deliver
<1>4. /\ recovery \in Nat \cup {None}
      /\ IF recovery = None THEN rdbx.index = 0 ELSE recovery = rdbx.index
  BY Zenon DEF AccountInv, RecoveryInSync
<1>5. recover(recovery, p.seq) = est
  BY <1>1, <1>4, RecoverIsEstimate, Zenon
<1>6. rdbx' \in RdbxTypes /\ rdbx'.index = IF est > rdbx.index THEN est ELSE rdbx.index
  BY <1>1, <1>3, AddedIndex, Zenon
<1>7. Seen(rdbx', est) /\ \A j \in Nat : Seen(rdbx, j) => Seen(rdbx', j) /\ j # est
  <2>1. /\ ~Seen(rdbx, est) /\ Seen(rdbx', est)
        /\ \A j \in Nat : Seen(rdbx, j) => Seen(rdbx', j)
    <3>1. est \in Nat
      BY <1>1, <1>3, Zenon
    <3> QED BY <1>1, <1>3, <3>1, AddSeen
  <2> HIDE DEF est
  <2> QED BY <2>1, Zenon
<1> HIDE DEF p, est
<1>8. RecoveryInSync'
  <2>1. recovery' = IF recovery = None \/ est > recovery THEN est ELSE recovery
    BY <1>2, <1>5, Zenon DEF update
  <2>2. est \in Nat
    BY <1>1, <1>3, Zenon
  <2> QED BY <1>1, <1>4, <1>6, <2>1, <2>2 DEF RecoveryInSync, None
<1>9. \A e \in Entries : Seen(rdbx', e.ext_index) /\ e.ext_index # est
  BY <1>7, Zenon DEF AccountInv, EntriesInv
<1>10. DrawerEntry(w).ext_index = est
  BY <1>5, Zenon DEF DrawerEntry, p
<1> QED BY <1>3, <1>5, <1>7, <1>8, <1>9, <1>10, Zenon DEF p

(* What the accounts need to know of finite sets.  It holds of all sets    *)
(* (SetsAreCounted, below).                                                *)
SetsCount ==
  /\ IsFiniteSet({}) /\ Cardinality({}) = 0
  /\ \A S : IsFiniteSet(S) =>
       /\ Cardinality(S) \in Nat
       /\ \A x : x \notin S => /\ IsFiniteSet(S \cup {x})
                             /\ Cardinality(S \cup {x}) = Cardinality(S) + 1
       /\ \A T \in SUBSET S : /\ IsFiniteSet(T) /\ IsFiniteSet(S \ T)
                              /\ Cardinality(S \ T) = Cardinality(S) - Cardinality(T)
       /\ \A T : IsFiniteSet(T) /\ S \cap T = {} =>
            /\ IsFiniteSet(S \cup T)
            /\ Cardinality(S \cup T) = Cardinality(S) + Cardinality(T)

(* The entries that are settled move from the drawers to the two verdicts, *)
(* each to exactly one; the new entry joins the drawers.                   *)
LEMMA SettleCounts ==
  ASSUME SetsCount, CountInv, NEW e, e \notin Entries,
         NEW S \in SUBSET drawers, NEW M \in SUBSET S,
         drawers' = (drawers \ S) \cup {e},
         verified' = verified \cup M,
         forged' = forged \cup (S \ M),
         pending' = pending - Cardinality(S) + 1,
         delivered' = delivered + 1
  PROVE  CountInv'
<1> DEFINE F == S \ M
<1>1. /\ IsFiniteSet(drawers) /\ IsFiniteSet(verified) /\ IsFiniteSet(forged)
      /\ pending = Cardinality(drawers)
      /\ delivered = pending + Cardinality(verified) + Cardinality(forged)
      /\ verified \cap forged = {} /\ drawers \cap (verified \cup forged) = {}
  BY Zenon DEF CountInv, EveryPacketAccounted
<1>2. e \notin drawers /\ e \notin verified /\ e \notin forged
  BY Zenon DEF Entries
<1>3. /\ IsFiniteSet(S) /\ IsFiniteSet(drawers \ S)
      /\ Cardinality(drawers \ S) = Cardinality(drawers) - Cardinality(S)
  BY <1>1, Zenon DEF SetsCount
<1>4. IsFiniteSet(M) /\ IsFiniteSet(F) /\ Cardinality(F) = Cardinality(S) - Cardinality(M)
  BY <1>3, Zenon DEF SetsCount
<1>5. /\ Cardinality(drawers) \in Nat /\ Cardinality(verified) \in Nat
      /\ Cardinality(forged) \in Nat /\ Cardinality(S) \in Nat /\ Cardinality(M) \in Nat
  BY <1>1, <1>3, <1>4, Zenon DEF SetsCount
<1>6. IsFiniteSet(drawers') /\ Cardinality(drawers') = Cardinality(drawers \ S) + 1
  <2>1. e \notin drawers \ S
    BY <1>2, Zenon
  <2> QED BY <1>3, <2>1, Zenon DEF SetsCount
<1>7. IsFiniteSet(verified') /\ Cardinality(verified') = Cardinality(verified) + Cardinality(M)
  <2>1. verified \cap M = {}
    BY <1>1, Zenon
  <2> QED BY <1>1, <1>4, <2>1, Zenon DEF SetsCount
<1>8. IsFiniteSet(forged') /\ Cardinality(forged') = Cardinality(forged) + Cardinality(F)
  <2>1. forged \cap F = {}
    BY <1>1, Zenon
  <2> QED BY <1>1, <1>4, <2>1, Zenon DEF SetsCount
<1>9. verified' \cap forged' = {} /\ drawers' \cap (verified' \cup forged') = {}
  BY <1>1, <1>2, Zenon
<1> HIDE DEF F
<1>10. pending' = Cardinality(drawers')
  BY <1>1, <1>3, <1>5, <1>6, Zenon
<1>11. delivered' = pending' + Cardinality(verified') + Cardinality(forged')
  BY <1>1, <1>4, <1>5, <1>7, <1>8
<1> QED BY <1>6, <1>7, <1>8, <1>9, <1>10, <1>11, Zenon DEF CountInv, EveryPacketAccounted

(* The packets on the wire were sealed at their positions.                 *)
LEMMA WireIndex ==
  ASSUME AccountInv, NEW i \in 1 .. Len(wire)
  PROVE  /\ wire[i].srtp \in Packets /\ wire[i].srtp.index = i - 1
         /\ wire[i].mac = tag(wire[i].interval, i - 1, Covered(wire[i]))
         /\ i - 1 < Len(sent)
<1>1. /\ Len(wire) = Len(sent) /\ wire[i].srtp = sent[i]
      /\ wire[i].mac = tag(wire[i].interval, i - 1, Covered(wire[i]))
  BY Zenon DEF AccountInv, WireSealed
<1>2. Len(sent) \in Nat
  BY DEF AccountInv, TxInv
<1>3. i - 1 \in PacketNumbers /\ (i - 1) + 1 = i /\ i - 1 < Len(sent)
  BY <1>1, <1>2 DEF PacketNumbers
<1> QED BY <1>1, <1>3, SentTyped, Zenon DEF AccountInv, Sent

(* An entry as the sender sent it carries the MAC of its interval's key    *)
(* over the index it was sealed at.                                        *)
LEMMA SentEntrySealed ==
  ASSUME AccountInv, NEW e, AsSent(e)
  PROVE  e.mac = tag(e.interval, e.covered.srtp.index, e.covered)
<1>1. PICK i \in 1 .. Len(wire) : /\ e.covered = Covered(wire[i])
                                  /\ e.interval = wire[i].interval
                                  /\ e.mac = wire[i].mac
  BY Zenon DEF AsSent
<1>2. wire[i].srtp.index = i - 1 /\ wire[i].mac = tag(wire[i].interval, i - 1, Covered(wire[i]))
  BY WireIndex, Zenon
<1>3. e.covered.srtp = wire[i].srtp
  BY <1>1 DEF Covered
<1> QED BY <1>1, <1>2, <1>3, Zenon

(* What one call of process_arrival does to the packets' accounts, whoever *)
(* wrote the packet.                                                       *)
LEMMA ArrivalAccounts ==
  ASSUME SetsCount, TeslaInv, AccountInv, NEW w, NEW t, process_arrival(w, t),
         UNCHANGED <<txVars, wire>>,
         w.srtp \in Packets, w.interval \in Nat, w.disclosed \in Int,
         w.from = "sender" => w.srtp.index < Len(sent)
  PROVE  AccountInv'
<1> DEFINE index == disclosed_index(w.interval)
           keys  == recovered(trusted, w.disclosed, index)
           e     == DrawerEntry(w)
<1>0. UNCHANGED <<wire, sent>>
  BY Zenon DEF txVars
<1>1. TxInv' /\ WireSealed'
  BY <1>0, TxUnchanged, Zenon DEF AccountInv, WireSealed
<1>2. CASE UNCHANGED <<rxVars, recovery>> /\ UNCHANGED <<drawers, pending, delivered, verified, forged>>
  <2>1. RxInv'
    BY <1>2, RxUnchanged, Zenon DEF AccountInv
  <2>2. RecoveryInSync' /\ EntriesInv' /\ CountInv'
    BY <1>0, <1>2, Zenon DEF AccountInv, rxVars, RecoveryInSync, EntriesInv, CountInv, Entries,
                EntriesAtSealedIndex, BytesAreSent, GenuineNeverForged, AsSent,
                EveryPacketAccounted
  <2> QED BY <1>1, <2>1, <2>2, Zenon DEF AccountInv
<1>3. ASSUME unprotect(w.srtp) PROVE RxInv'
  BY <1>3, UnprotectKeepsInv, Zenon DEF AccountInv
<1>4. CASE unprotect(w.srtp) /\ DropSrtp
  <2>1. UNCHANGED <<rdbx, recovery, drawers, pending, delivered, verified, forged>>
    BY <1>4, UndeliveredKeeps, Zenon DEF DropSrtp, Verdict
  <2>2. RecoveryInSync' /\ EntriesInv' /\ CountInv'
    BY <1>0, <2>1, Zenon DEF AccountInv, RecoveryInSync, EntriesInv, CountInv, Entries,
                EntriesAtSealedIndex, BytesAreSent, GenuineNeverForged, AsSent,
                EveryPacketAccounted
  <2> QED BY <1>1, <1>3, <1>4, <2>2, Zenon DEF AccountInv
<1>5. CASE unprotect(w.srtp) /\ DropBadDisclosure(w)
  <2>1. UNCHANGED <<drawers, pending, delivered, verified, forged>> /\ Recovered(w)
    BY <1>5, Zenon DEF DropBadDisclosure, Verdict
  <2>2. RecoveryInSync' /\ \A x \in Entries : Seen(rdbx', x.ext_index)
    BY <1>5, <2>1, AcceptedIndex, Zenon
  <2>3. EntriesInv' /\ CountInv'
    BY <1>0, <2>1, <2>2, Zenon DEF AccountInv, EntriesInv, CountInv, Entries,
                      EntriesAtSealedIndex, BytesAreSent, GenuineNeverForged, AsSent,
                      EveryPacketAccounted
  <2> QED BY <1>1, <1>3, <1>5, <2>2, <2>3, Zenon DEF AccountInv
<1>6. CASE unprotect(w.srtp) /\ DeliverTesla(w)
  <2>1. /\ recover(recovery, w.srtp.seq) = w.srtp.index
        /\ RecoveryInSync'
        /\ Seen(rdbx', w.srtp.index)
        /\ \A x \in Entries : Seen(rdbx', x.ext_index)
        /\ e \notin Entries
    BY <1>6, AcceptedIndex, Zenon DEF DeliverTesla
  <2>2. /\ e.ext_index = w.srtp.index /\ e.ext_index \in Nat
        /\ e.covered.srtp = w.srtp /\ e.covered.from = w.from
    BY <2>1, Zenon DEF DrawerEntry, Covered, Packets
  <2>3. e.covered.from = "sender" => e.ext_index < Len(sent)
    BY <2>2, Zenon
  <2>4. delivered' = delivered + 1
    BY <1>6, Zenon DEF DeliverTesla
  <2> HIDE DEF e
  <2>5. ASSUME NEW S \in SUBSET drawers, NEW M \in SUBSET S,
               \A x \in S \ M : ~AsSent(x),
               drawers' = (drawers \ S) \cup {e}, verified' = verified \cup M,
               forged' = forged \cup (S \ M), pending' = pending - Cardinality(S) + 1
        PROVE  EntriesInv' /\ CountInv'
    <3>1. CountInv'
      BY <2>1, <2>4, <2>5, SettleCounts, Zenon DEF AccountInv
    <3>2. Entries' \subseteq Entries \cup {e}
      BY <2>5, Zenon DEF Entries
    <3>3. \A x \in Entries' : x.ext_index \in Nat /\ Seen(rdbx', x.ext_index)
      BY <2>1, <2>2, <3>2, Zenon DEF AccountInv, EntriesInv
    <3>4. EntriesAtSealedIndex'
      BY <2>2, <3>2, Zenon DEF AccountInv, EntriesInv, EntriesAtSealedIndex
    <3>5. BytesAreSent'
      BY <1>0, <2>3, <3>2, Zenon DEF AccountInv, EntriesInv, BytesAreSent
    <3>6. GenuineNeverForged'
      <4>1. \A x \in forged' : ~AsSent(x)
        BY <2>5, Zenon DEF AccountInv, EntriesInv, GenuineNeverForged
      <4> QED BY <1>0, <4>1, Zenon DEF GenuineNeverForged, AsSent
    <3> QED BY <3>1, <3>3, <3>4, <3>5, <3>6, Zenon DEF EntriesInv
  <2>6. CASE DeliverNotNew(w)
    <3>1. /\ drawers' = (drawers \ {}) \cup {e} /\ verified' = verified \cup {}
          /\ forged' = forged \cup ({} \ {}) /\ pending' = pending + 1
      BY <2>6, Zenon DEF DeliverNotNew, e
    <3>2. pending \in Nat
      BY Zenon DEF SetsCount, AccountInv, CountInv, EveryPacketAccounted
    <3>3. pending' = pending - Cardinality({}) + 1
      BY <3>1, <3>2 DEF SetsCount
    <3>4. EntriesInv' /\ CountInv'
      <4>1. /\ {} \in SUBSET drawers /\ {} \in SUBSET {}
            /\ \A x \in {} \ {} : ~AsSent(x)
        BY Zenon
      <4> QED BY <2>5, <3>1, <3>3, <4>1, Zenon
    <3> QED BY <1>1, <1>3, <1>6, <2>1, <3>4, Zenon DEF AccountInv
  <2>7. CASE DeliverNew(w)
    <3> DEFINE S == Settled(keys)
               M == {x \in S : Matches(x, keys)}
    <3>1. /\ index \in Nat /\ trusted.index \in Nat /\ trusted.key = trusted.index
          /\ index > trusted.index /\ f_steps(w.disclosed, index - trusted.index) = trusted.key
      BY <2>7, ScheduleAssumption
      DEF DeliverNew, Disclosure, check, TeslaInv, ReceiverInv, TrustedIsGenuine, disclosed_index
    <3>2. w.disclosed = index
      BY <3>1 DEF f_steps
    <3>3. S \in SUBSET drawers /\ M \in SUBSET S
      BY Zenon DEF Settled
    <3>4. ASSUME NEW x \in S, AsSent(x) PROVE Matches(x, keys)
      <4>1. x \in drawers /\ x.interval \in trusted.index + 1 .. index
        BY Zenon DEF Settled, recovered
      <4>2. keys[x.interval] = x.interval
        BY <3>1, <3>2, <4>1 DEF recovered, f_steps
      <4>3. x.mac = tag(x.interval, x.covered.srtp.index, x.covered)
        BY <3>4, SentEntrySealed, Zenon
      <4>4. x.ext_index = x.covered.srtp.index
        BY <4>1, Zenon DEF AccountInv, EntriesInv, EntriesAtSealedIndex, Entries
      <4> QED BY <4>2, <4>3, <4>4, Zenon DEF Matches
    <3>5. /\ drawers' = (drawers \ S) \cup {e} /\ verified' = verified \cup M
          /\ forged' = forged \cup {x \in S : ~Matches(x, keys)}
          /\ pending' = pending - Cardinality(S) + 1
      BY <2>7, Zenon DEF DeliverNew, settle, e
    <3>6. {x \in S : ~Matches(x, keys)} = S \ M
      BY Zenon
    <3>7. \A x \in S \ M : ~AsSent(x)
      BY <3>4, Zenon
    <3> HIDE DEF S, M
    <3>8. EntriesInv' /\ CountInv'
      BY <2>5, <3>3, <3>5, <3>6, <3>7, Zenon
    <3> QED BY <1>1, <1>3, <1>6, <2>1, <3>8, Zenon DEF AccountInv
  <2> QED BY <1>6, <2>6, <2>7, Zenon DEF DeliverTesla
<1> QED
  BY <1>2, <1>4, <1>5, <1>6, Zenon DEF process_arrival, DropUnsafe, Verdict

(* At the start nothing is on the wire and nothing waits.                  *)
LEMMA AccountInit ==
  ASSUME SetsCount, Init
  PROVE  AccountInv
<1>1. TxInv /\ RxInv
  BY TxInitInv, InitRxInv, Zenon DEF Init, TeslaInit
<1>2. WireSealed
  BY DEF Init, TxInit, WireSealed
<1>3. RecoveryInSync
  BY Zenon DEF Init, TeslaInit, RxInit, RecoveryInSync, srtp_rdbx_init
<1>4. drawers = {} /\ verified = {} /\ forged = {} /\ pending = 0 /\ delivered = 0
  BY Zenon DEF Init, TeslaInit
<1>5. EntriesInv
  BY <1>4, Zenon DEF EntriesInv, Entries, EntriesAtSealedIndex, BytesAreSent, GenuineNeverForged
<1>6. CountInv
  BY <1>4 DEF SetsCount, CountInv, EveryPacketAccounted
<1> QED BY <1>1, <1>2, <1>3, <1>5, <1>6, Zenon DEF AccountInv

(* A step of the sender leaves the receiver's accounts.                    *)
LEMMA AccountsKept ==
  ASSUME AccountInv, UNCHANGED <<rxVars, teslaVars>>
  PROVE  /\ RxInv' /\ RecoveryInSync' /\ CountInv'
         /\ (\A e \in Entries : e.ext_index \in Nat /\ Seen(rdbx, e.ext_index))'
         /\ EntriesAtSealedIndex' /\ Entries' = Entries
<1>1. RxInv'
  BY RxUnchanged, Zenon DEF AccountInv
<1>2. UNCHANGED <<rdbx, recovery, drawers, pending, delivered, verified, forged>>
  BY Zenon DEF rxVars, teslaVars
<1> QED
  BY <1>1, <1>2, Zenon DEF AccountInv, RecoveryInSync, EntriesInv, CountInv, Entries,
                    EntriesAtSealedIndex, EveryPacketAccounted

(* The sender binds each packet to its interval's key and its position.    *)
LEMMA SendAccounts ==
  ASSUME TeslaInv, AccountInv, Send
  PROVE  AccountInv'
<1> DEFINE n == Len(sent)
           interval == interval_of(now)
           p == sent'[Len(sent')]
           w == [srtp |-> p, from |-> "sender", interval |-> interval,
                 disclosed |-> disclosed_index(interval),
                 mac |-> tag(prepare(interval), n, [srtp |-> p, from |-> "sender"])]
<1>1. /\ next_protected /\ UNCHANGED <<rxVars, teslaVars>>
      /\ interval <= NChain /\ current_interval' = interval
      /\ prepared' = prepare(interval) /\ wire' = Append(wire, w)
  BY Zenon DEF Send, authenticate
<1>2. TxInv' /\ Len(sent') = n + 1 /\ n \in Nat
  BY <1>1, SendKeepsTxInv DEF AccountInv, TxInv
<1>3. interval \in 1 .. NChain
  BY <1>1, IntervalFromOne, ScheduleAssumption DEF TeslaInv
<1>4. prepare(interval) = interval
  BY Zenon DEF prepare, TeslaInv, WireInv
<1>5. /\ w.srtp = sent'[n + 1] /\ w.interval = interval
      /\ w.disclosed = disclosed_index(interval)
      /\ w.mac = tag(interval, n, Covered(w))
  BY <1>2, <1>4, Zenon DEF Covered
<1> HIDE DEF w, interval
<1>6. /\ Len(wire') = n + 1 /\ wire'[n + 1] = w
      /\ \A i \in 1 .. n : wire'[i] = wire[i]
  <2>1. wire \in Seq({wire[i] : i \in 1 .. Len(wire)})
    BY Zenon DEF TeslaInv, WireInv
  <2>2. wire' = Append(wire, w) /\ n = Len(wire)
    BY <1>1, Zenon DEF AccountInv, WireSealed
  <2>3. /\ Len(wire') = Len(wire) + 1 /\ wire'[Len(wire')] = w
        /\ \A i \in 1 .. Len(wire) : wire'[i] = wire[i]
    BY <2>1, <2>2, AppendAny
  <2> QED BY <2>2, <2>3, Zenon
<1>7. \A i \in 1 .. n : sent'[i] = sent[i]
  <2>1. sent \in Seq(Packets)
    BY Zenon DEF AccountInv, TxInv
  <2>2. PICK p1 : sent' = Append(sent, p1)
    BY <1>1, Zenon DEF next_protected, protect
  <2> QED BY <2>1, <2>2
<1>8. ASSUME NEW i \in 1 .. n + 1
      PROVE  /\ wire'[i].srtp = sent'[i]
             /\ wire'[i].interval \in 1 .. NChain
             /\ wire'[i].disclosed = disclosed_index(wire'[i].interval)
             /\ wire'[i].mac = tag(wire'[i].interval, i - 1, Covered(wire'[i]))
  <2>1. CASE i \in 1 .. n
    BY <1>6, <1>7, <2>1, Zenon DEF AccountInv, WireSealed
  <2>2. CASE i = n + 1
    <3>1. i - 1 = n
      BY <1>2, <2>2
    <3> QED BY <1>3, <1>5, <1>6, <2>2, <3>1, Zenon
  <2>3. i \in 1 .. n \/ i = n + 1
    BY <1>2
  <2> QED BY <2>1, <2>2, <2>3, Zenon
<1>9. WireSealed'
  BY <1>1, <1>2, <1>6, <1>8, Zenon DEF WireSealed
<1>10. /\ Entries' = Entries /\ UNCHANGED forged
       /\ EntriesAtSealedIndex /\ BytesAreSent /\ GenuineNeverForged
       /\ \A e \in Entries : e.ext_index \in Nat
  BY <1>1, AccountsKept, Zenon DEF teslaVars, AccountInv, EntriesInv
<1>11. BytesAreSent'
  <2>1. ASSUME NEW e \in Entries, e.covered.from = "sender" PROVE e.ext_index < Len(sent')
    <3>1. e.ext_index \in Nat /\ e.ext_index < n
      BY <1>10, <2>1, Zenon DEF BytesAreSent
    <3> QED BY <1>2, <3>1
  <2> QED BY <1>10, <2>1, Zenon DEF BytesAreSent
<1>12. GenuineNeverForged'
  <2>1. ASSUME NEW e \in forged, NEW i \in 1 .. n + 1,
               e.covered = Covered(wire'[i]), e.interval = wire'[i].interval,
               e.mac = wire'[i].mac
        PROVE  FALSE
    <3>1. CASE i \in 1 .. n
      <4>1. n = Len(wire)
        BY Zenon DEF AccountInv, WireSealed
      <4> QED BY <1>6, <1>10, <2>1, <3>1, <4>1, Zenon DEF GenuineNeverForged, AsSent
    <3>2. CASE i = n + 1
      <4>1. e.covered = Covered(w) /\ w.from = "sender"
        BY <1>6, <2>1, <3>2, Zenon DEF w
      <4>2. e.covered.from = "sender" /\ e.covered.srtp = sent'[n + 1]
        BY <1>5, <4>1 DEF Covered
      <4>3. sent'[n + 1].index = n
        <5>1. n \in PacketNumbers'
          BY <1>2 DEF PacketNumbers
        <5> QED BY <1>2, <5>1, Zenon DEF TxInv, SealedUnderTrueGeneration, Sent
      <4>4. e \in Entries
        BY Zenon DEF Entries
      <4>5. e.ext_index = n /\ e.ext_index < n
        BY <1>10, <4>2, <4>3, <4>4, Zenon DEF EntriesAtSealedIndex, BytesAreSent
      <4> QED BY <1>2, <4>5
    <3>3. i \in 1 .. n \/ i = n + 1
      BY <1>2
    <3> QED BY <3>1, <3>2, <3>3, Zenon
  <2> QED BY <1>6, <1>10, <2>1, Zenon DEF GenuineNeverForged, AsSent
<1> QED BY <1>1, <1>2, <1>9, <1>11, <1>12, AccountsKept, Zenon DEF AccountInv, EntriesInv

(* A packet of the sender arrives.                                         *)
LEMMA ArriveAccounts ==
  ASSUME SetsCount, TeslaInv, AccountInv, Arrive
  PROVE  AccountInv'
<1>1. PICK i \in 1 .. Len(wire) : process_arrival(wire[i], arrival_ns)
  BY Zenon DEF Arrive
<1>2. UNCHANGED <<txVars, wire>>
  BY Zenon DEF Arrive, tsVars
<1>3. wire[i].interval \in Nat /\ wire[i].disclosed \in Int
  BY DEF TeslaInv, WireInv
<1>4. wire[i].srtp \in Packets /\ wire[i].srtp.index < Len(sent)
  BY WireIndex, Zenon
<1> QED BY <1>1, <1>2, <1>3, <1>4, ArrivalAccounts, Zenon

(* A datagram of another member arrives: it takes its index's place.       *)
LEMMA ArriveForeignAccounts ==
  ASSUME SetsCount, TeslaInv, AccountInv, ArriveForeign
  PROVE  AccountInv'
<1>0. PICK bytes \in ForeignBytes, interval \in 0 .. NChain + D + 1,
           disclosed \in PublicKeys \cup {Junk} :
        \E mac \in ForeignMacs(bytes) :
          process_arrival(ForeignDatagram(bytes, interval, disclosed, mac), arrival_ns)
  BY Zenon DEF ArriveForeign
<1>1. PICK mac \in ForeignMacs(bytes) :
        process_arrival(ForeignDatagram(bytes, interval, disclosed, mac), arrival_ns)
  BY <1>0, Zenon
<1> DEFINE w == ForeignDatagram(bytes, interval, disclosed, mac)
<1>2. UNCHANGED <<txVars, wire>>
  BY Zenon DEF ArriveForeign
<1>3. /\ w.from = bytes.from /\ w.interval = interval /\ w.disclosed = disclosed
      /\ w.srtp = bytes.srtp
  BY Zenon DEF ForeignDatagram
<1>4. interval \in Nat
  BY ScheduleAssumption
<1>5. disclosed \in Int
  <2>1. wire # <<>> => wire[Len(wire)].disclosed \in Nat
    BY DEF TeslaInv, WireInv
  <2> QED BY <2>1 DEF PublicKeys, Junk
<1>6. bytes.srtp \in Packets /\ (bytes.from = "sender" => bytes.srtp.index < Len(sent))
  <2>1. CASE \E i \in 1 .. Len(wire) : bytes = Covered(wire[i])
    <3>1. PICK i \in 1 .. Len(wire) : bytes = Covered(wire[i])
      BY <2>1, Zenon
    <3>2. bytes.srtp = wire[i].srtp
      BY <3>1, Zenon DEF Covered
    <3>3. wire[i].srtp \in Packets /\ wire[i].srtp.index = i - 1 /\ i - 1 < Len(sent)
      BY WireIndex, Zenon
    <3> QED BY <3>2, <3>3, Zenon
  <2>2. CASE \E index \in 0 .. MaxPackets - 1, ts \in Timestamps, key \in Generations :
               bytes = OwnBytes(index, ts, key)
    <3>1. PICK index \in 0 .. MaxPackets - 1, ts \in Timestamps, key \in Generations :
            bytes = OwnBytes(index, ts, key)
      BY <2>2, Zenon
    <3>2. /\ bytes.from = "other"
          /\ bytes.srtp = [seq |-> Low(index), ts |-> ts, key |-> key, index |-> index,
                           intact |-> TRUE]
      BY <3>1, Zenon DEF OwnBytes
    <3>3. index \in Nat
      BY SenderAssumption
    <3>4. Low(index) \in Seqs
      BY <3>3, RocLow, Zenon DEF Seqs
    <3>5. key \in Nat
      <4>1. PICK i \in 0 .. MaxPackets - 1 : key = TrueGeneration(i)
        BY Zenon DEF Generations
      <4>2. i \in Nat
        BY SenderAssumption
      <4> QED BY <4>1, <4>2, GenerationsGrow, Zenon
    <3>6. bytes.srtp \in Packets
      BY <3>2, <3>3, <3>4, <3>5 DEF Packets
    <3> QED BY <3>2, <3>6, Zenon
  <2> QED BY <2>1, <2>2 DEF ForeignBytes
<1>7. /\ w.srtp \in Packets /\ w.interval \in Nat /\ w.disclosed \in Int
      /\ w.from = "sender" => w.srtp.index < Len(sent)
  BY <1>3, <1>4, <1>5, <1>6, Zenon
<1> HIDE DEF w
<1>8. process_arrival(w, arrival_ns)
  BY <1>1, Zenon DEF w
<1> QED BY <1>2, <1>7, <1>8, ArrivalAccounts, Zenon

(* A packet of the sender discloses the chain's own key.                   *)
LEMMA InvDisclosuresAccepted == TeslaInv /\ AccountInv => DisclosuresAccepted
<1> SUFFICES ASSUME TeslaInv, AccountInv, NEW i \in 1 .. Len(wire),
                    wire[i].disclosed - trusted.index <= GMax
             PROVE  Disclosure(wire[i]) \in {"New", "NotNew"}
  BY Zenon DEF DisclosuresAccepted
<1> DEFINE d == disclosed_index(wire[i].interval)
<1>1. wire[i].disclosed = d /\ wire[i].interval \in 1 .. NChain
  BY Zenon DEF AccountInv, WireSealed
<1>2. d \in Nat /\ d <= NChain
  BY <1>1, ScheduleAssumption DEF disclosed_index
<1>3. trusted.index \in Nat /\ trusted.key = trusted.index
  BY Zenon DEF TeslaInv, ReceiverInv, TrustedIsGenuine
<1>4. Disclosure(wire[i]) = check(trusted, d, d)
  BY <1>1, Zenon DEF Disclosure
<1>5. d - trusted.index <= GMax
  BY <1>1, Zenon
<1> HIDE DEF d
<1>6. d - (d - trusted.index) = trusted.key
  BY <1>2, <1>3
<1>7. f_steps(d, d - trusted.index) = trusted.key
  BY <1>2, <1>3, <1>6, Zenon DEF f_steps
<1>8. check(trusted, d, d) \in {"New", "NotNew"}
  BY <1>2, <1>3, <1>5, <1>7, ScheduleAssumption DEF check
<1> QED BY <1>4, <1>8, Zenon

(* The library's facts on finite sets.                                     *)
INSTANCE FiniteSetTheorems

LEMMA SetsAreCounted == SetsCount
<1>1. IsFiniteSet({}) /\ Cardinality({}) = 0
  BY FS_EmptySet, Zenon
<1>2. ASSUME NEW S, IsFiniteSet(S)
      PROVE  /\ Cardinality(S) \in Nat
             /\ \A x : x \notin S => /\ IsFiniteSet(S \cup {x})
                                   /\ Cardinality(S \cup {x}) = Cardinality(S) + 1
  BY <1>2, FS_CardinalityType, FS_AddElement, Zenon
<1>3. ASSUME NEW S, IsFiniteSet(S), NEW T \in SUBSET S
      PROVE  /\ IsFiniteSet(T) /\ IsFiniteSet(S \ T)
             /\ Cardinality(S \ T) = Cardinality(S) - Cardinality(T)
  <2>1. S \cap T = T
    BY Zenon
  <2>2. IsFiniteSet(T)
    BY <1>3, FS_Subset, Zenon
  <2> QED BY <1>3, <2>1, <2>2, FS_Difference, Zenon
<1>4. ASSUME NEW S, IsFiniteSet(S), NEW T, IsFiniteSet(T), S \cap T = {}
      PROVE  IsFiniteSet(S \cup T) /\ Cardinality(S \cup T) = Cardinality(S) + Cardinality(T)
  <2>1. /\ IsFiniteSet(S \cup T)
        /\ Cardinality(S \cup T) = Cardinality(S) + Cardinality(T) - Cardinality(S \cap T)
    BY <1>4, FS_Union, Zenon
  <2>2. Cardinality(S) \in Nat /\ Cardinality(T) \in Nat
    BY <1>2, <1>4, Zenon
  <2>3. Cardinality(S \cap T) = 0
    BY <1>1, <1>4, Zenon
  <2> QED BY <2>1, <2>2, <2>3
<1> QED BY <1>1, <1>2, <1>3, <1>4, Zenon DEF SetsCount

(* The accounts of every reachable state.                                  *)
THEOREM AccountInvariant == Spec => []AccountInv
<1>1. TeslaInv /\ AccountInv /\ [Next]_vars => AccountInv'
  <2> SUFFICES ASSUME TeslaInv, AccountInv, [Next]_vars PROVE AccountInv'
    BY Zenon
  <2>1. CASE UNCHANGED <<txVars, rxVars, wire, recovery, drawers, pending, delivered, verified,
                         forged>>
    <3>1. TxInv' /\ RxInv'
      BY <2>1, TxUnchanged, RxUnchanged, Zenon DEF AccountInv
    <3>2. UNCHANGED <<sent, rdbx>>
      BY <2>1, Zenon DEF txVars, rxVars
    <3>3. WireSealed' /\ RecoveryInSync' /\ EntriesInv' /\ CountInv'
      BY <2>1, <3>2, Zenon
      DEF AccountInv, WireSealed, RecoveryInSync, EntriesInv, CountInv, Entries,
          EntriesAtSealedIndex, BytesAreSent, GenuineNeverForged, AsSent, EveryPacketAccounted
    <3> QED BY <3>1, <3>3, Zenon DEF AccountInv
  <2>2. Tick \/ ArriveMalformed \/ UNCHANGED vars =>
          UNCHANGED <<txVars, rxVars, wire, recovery, drawers, pending, delivered, verified,
                      forged>>
    BY Zenon DEF Tick, ArriveMalformed, DropMalformed, Verdict, vars, teslaVars, tsVars
  <2> QED
    BY <2>1, <2>2, SetsAreCounted, SendAccounts, ArriveAccounts, ArriveForeignAccounts, Zenon DEF Next
<1>2. Init => AccountInv
  BY SetsAreCounted, AccountInit, Zenon
<1> QED BY <1>1, <1>2, TeslaInvariant, PTL DEF Spec

(* The TESLA layer's index recovery follows libsrtp's                      *)
(* (TeslaReceiver::process_arrival).                                       *)
THEOREM RecoveredIsSealed == Spec => []EntriesAtSealedIndex
<1>1. AccountInv => EntriesAtSealedIndex
  BY Zenon DEF AccountInv, EntriesInv
<1> QED BY <1>1, AccountInvariant, PTL

(* No packet that arrives as the sender sent it is ever counted as forged  *)
(* (settle), through sequence number wraps, lost keys and other members'   *)
(* packets.                                                                *)
THEOREM SenderNeverForged == Spec => []GenuineNeverForged
<1>1. AccountInv => GenuineNeverForged
  BY Zenon DEF AccountInv, EntriesInv
<1> QED BY <1>1, AccountInvariant, PTL

(* Every delivered packet waits or has exactly one verdict, and the        *)
(* unchecked counter `pending` is the number that wait.                    *)
THEOREM PacketsAccounted == Spec => []EveryPacketAccounted
<1>1. AccountInv => EveryPacketAccounted
  BY Zenon DEF AccountInv, CountInv
<1> QED BY <1>1, AccountInvariant, PTL

(* A packet of the sender is never rejected for the key it discloses while *)
(* at most GMax keys have been missed (ChainVerifier::check).              *)
THEOREM SenderDisclosuresAccepted == Spec => []DisclosuresAccepted
BY InvDisclosuresAccepted, TeslaInvariant, AccountInvariant, PTL
=============================================================================
