---------------------------- MODULE MCDemoMedia ----------------------------
(***************************************************************************)
(* DemoMedia for TLC.                                                      *)
(***************************************************************************)
EXTENDS DemoMedia

CONSTANTS c1, s1, s2, r1

MCIdentity == [c \in Clients |-> c]

MCSsrc == [c \in Clients |->
  CASE c = c1 -> 1 [] c = s1 -> 2 [] c = s2 -> 3 [] OTHER -> 4]
=============================================================================
