------------------------------ MODULE KeyWindow ------------------------------
(***************************************************************************)
(* What the receiver's key store promises, without ratchets, rings or      *)
(* ciphers: the generations whose keys it keeps are always the last K up   *)
(* to the newest one; a packet opens under a kept generation, or under one *)
(* at most SeekCap ahead, to which the window then slides; and a packet    *)
(* that does not open leaves the window as it was (the module comment of   *)
(* src/src/receiver.rs).                                                   *)
(***************************************************************************)
EXTENDS Integers

CONSTANTS K, SeekCap

VARIABLES top,    \* newest generation, -1 before the first
          live,   \* generations whose keys are kept
          opened  \* generation of the packet just opened, -1 if it did not open

kwVars == <<top, live, opened>>

LastK(g) == {h \in 0 .. g : g - h < K}

Init == top = -1 /\ live = {} /\ opened = -1

Open == opened' \in live /\ UNCHANGED <<top, live>>

Slide ==
  /\ opened' \in Nat
  /\ opened' > top
  /\ opened' - top <= SeekCap
  /\ top' = opened'
  /\ live' = LastK(top')

Refuse == opened' = -1 /\ UNCHANGED <<top, live>>

Next == Open \/ Slide \/ Refuse

Spec == Init /\ [][Next]_kwVars
=============================================================================
