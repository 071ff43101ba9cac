---------------------------- MODULE MCGroupSetup ----------------------------
(***************************************************************************)
(* GroupSetup for TLC: identities and SSRCs of the processes.              *)
(***************************************************************************)
EXTENDS GroupSetup

CONSTANTS c1, c2, s1, r1, r2

(* r2 runs on another host under the process id of r1.                     *)
SharedIdentity == [c \in Clients |-> IF c = r2 THEN r1 ELSE c]

UniqueSsrc == [id \in {c1, c2, s1, r1, r2} |->
  CASE id = c1 -> 1 [] id = c2 -> 2 [] id = s1 -> 3 [] id = r1 -> 4
    [] OTHER -> 5]
=============================================================================
