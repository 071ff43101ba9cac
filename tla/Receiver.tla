------------------------------ MODULE Receiver ------------------------------
(***************************************************************************)
(* The receiver on its own: any packet of Wire may arrive at any time, any *)
(* number of times, in any order, and so may a truncated datagram.         *)
(***************************************************************************)
EXTENDS ReceiverKeyManager

CONSTANT Wire

ASSUME WireAssumption == \A p \in Wire : p \in Packets

RxNext == DropTruncated \/ \E p \in Wire : unprotect(p)

RxSpec == RxInit /\ [][RxNext]_rxVars

(* The key store the ring implements: the generations it is tagged with.   *)
KW == INSTANCE KeyWindow
        WITH top <- frontier, live <- {ring[s].gen : s \in Slots} \ {None},
             opened <- result.gen

(* The ring, the frontier and the ratchet together behave as a window of   *)
(* the last K generations: a packet is delivered only under a generation   *)
(* of the window or at most SeekCap ahead of it, the window slides exactly *)
(* to a delivered packet ahead, and a call that returns an error leaves it *)
(* alone, whatever it derived or installed before the tag was checked.     *)
ImplementsKeyWindow == KW!Spec
=============================================================================
