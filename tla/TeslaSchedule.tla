---------------------------- MODULE TeslaSchedule ----------------------------
(***************************************************************************)
(* The TESLA interval timetable, the receiver's accept test                *)
(* (src/src/tesla/schedule.rs) and the one-way key chain                   *)
(* (src/src/tesla/chain.rs).                                               *)
(*                                                                         *)
(* A chain key is an integer: K_i is i, the chain step F takes i to i - 1, *)
(* and a value that is not on the chain is negative, as is everything it   *)
(* hashes down to.  Two keys are equal exactly when their integers are.    *)
(***************************************************************************)
EXTENDS Integers

CONSTANTS T0,       \* t0_ns: start of interval 1, sender clock
          TInt,     \* t_int_ns: length of an interval
          D,        \* d: disclosure delay in intervals
          NChain,   \* n_chain: last usable interval
          DT,       \* d_t_ns: how far the sender's clock may be ahead
          GMax      \* g_max: chain steps one disclosure may demand

(* The assertions of TeslaSchedule::new.                                   *)
ASSUME ScheduleAssumption ==
  /\ T0 \in Nat
  /\ TInt \in Nat \ {0}
  /\ D \in Nat /\ D >= 2
  /\ NChain \in Nat \ {0}
  /\ DT \in Nat
  /\ GMax \in Nat \ {0}

Junk == -1

interval_of(send_ns) == 1 + (send_ns - T0) \div TInt

disclosed_index(interval) == IF interval >= D THEN interval - D ELSE 0

sender_upper_bound_NoSkew(arrival_ns) ==
  1 + (IF arrival_ns >= T0 THEN arrival_ns - T0 ELSE 0) \div TInt

sender_upper_bound(arrival_ns) ==
  LET sender_clock == arrival_ns + DT
  IN  1 + (IF sender_clock >= T0 THEN sender_clock - T0 ELSE 0) \div TInt

accepts(arrival_ns, interval) == sender_upper_bound(arrival_ns) < interval + D

-----------------------------------------------------------------------------
(* s chain steps F down from a key.                                        *)
f_steps(key, s) == key - s

(***************************************************************************)
(* ChainVerifier::check of a candidate for `index` against the trusted     *)
(* key, and the keys a New disclosure hands out: the candidate and what it *)
(* hashes down to on the way, one for each index above the trusted one.    *)
(***************************************************************************)
check_TrustsAny(trusted, candidate, index) ==
  IF index <= trusted.index THEN "NotNew"
  ELSE IF index > NChain THEN "BeyondChain"
  ELSE IF index - trusted.index > GMax THEN "TooFarAhead"
  ELSE "New"

check_CapInclusive(trusted, candidate, index) ==
  IF index <= trusted.index THEN "NotNew"
  ELSE IF index > NChain THEN "BeyondChain"
  ELSE IF index - trusted.index >= GMax THEN "TooFarAhead"
  ELSE IF f_steps(candidate, index - trusted.index) # trusted.key THEN "Invalid"
  ELSE "New"

check(trusted, candidate, index) ==
  IF index <= trusted.index THEN "NotNew"
  ELSE IF index > NChain THEN "BeyondChain"
  ELSE IF index - trusted.index > GMax THEN "TooFarAhead"
  ELSE IF f_steps(candidate, index - trusted.index) # trusted.key THEN "Invalid"
  ELSE "New"

recovered_CandidateOnly(trusted, candidate, index) == [i \in {index} |-> candidate]

recovered(trusted, candidate, index) ==
  [i \in trusted.index + 1 .. index |-> f_steps(candidate, index - i)]
=============================================================================
