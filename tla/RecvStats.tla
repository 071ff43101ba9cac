------------------------------ MODULE RecvStats ------------------------------
(***************************************************************************)
(* The counters of the receiver (RecvStats, src/src/receiver.rs) and       *)
(* unprotect with the increments it makes on each path.                    *)
(***************************************************************************)
EXTENDS ReceiverKeyManager

VARIABLE stats

Counters == {"decrypted", "cache_hits", "catchup_steps", "catchup_steps_wasted",
             "max_catchup", "installs", "drops_behind", "drops_seek_cap",
             "drops_replay", "drops_auth"}

StatsInit == stats = [c \in Counters |-> 0]

(* The counter of a call's outcome.                                        *)
outcome_NoAuth(status) ==
  CASE status = "Ok"              -> "decrypted"
    [] status = "BehindWindow"    -> "drops_behind"
    [] status = "SeekCapExceeded" -> "drops_seek_cap"
    [] status = "SrtpReplay"      -> "drops_replay"
    [] OTHER                      -> "not counted"

outcome(status) ==
  CASE status = "Ok"              -> "decrypted"
    [] status = "BehindWindow"    -> "drops_behind"
    [] status = "SeekCapExceeded" -> "drops_seek_cap"
    [] status = "SrtpReplay"      -> "drops_replay"
    [] status = "AuthFail"        -> "drops_auth"

One(b) == IF b THEN 1 ELSE 0

larger(x, y) == IF x >= y THEN x ELSE y

(* The ratchet steps the catch-up for packet p derives on the clone.       *)
Steps(p) ==
  LET g == generation(highest, p)
  IN  IF ~BeforeEpoch(highest, p.seq) /\ Ahead(g) THEN jump(g) ELSE 0

(* The increments of a call for packet p, given its outcome status.        *)
counted_OnCommit(p, status) ==
  LET g    == generation(highest, p)
      open == ~BeforeEpoch(highest, p.seq) /\ (InWindow(g) \/ Ahead(g))
      kept == IF status = "Ok" THEN Steps(p) ELSE 0
  IN  [c \in Counters |->
         CASE c = "cache_hits"           -> stats[c] + One(open /\ InWindow(g))
           [] c = "catchup_steps"        -> stats[c] + kept
           [] c = "catchup_steps_wasted" -> stats[c] + Steps(p) - kept
           [] c = "max_catchup"          -> larger(stats[c], kept)
           [] c = "installs"             -> stats[c] + One(open /\ installed # g)
           [] OTHER                      -> stats[c] + One(c = outcome(status))]

counted(p, status) ==
  LET g    == generation(highest, p)
      open == ~BeforeEpoch(highest, p.seq) /\ (InWindow(g) \/ Ahead(g))
  IN  [c \in Counters |->
         CASE c = "cache_hits"    -> stats[c] + One(open /\ InWindow(g))
           [] c = "catchup_steps" -> stats[c] + Steps(p)
           [] c = "catchup_steps_wasted" ->
                stats[c] + (IF status = "Ok" THEN 0 ELSE Steps(p))
           [] c = "max_catchup"   -> larger(stats[c], Steps(p))
           [] c = "installs"      -> stats[c] + One(open /\ installed # g)
           [] OTHER               -> stats[c] + One(c = outcome(status))]

(* unprotect with its counters, on a packet and on a truncated datagram.   *)
counted_unprotect(p) == unprotect(p) /\ stats' = counted(p, result'.status)

counted_truncated == DropTruncated /\ stats' = [stats EXCEPT !["drops_auth"] = @ + 1]

-----------------------------------------------------------------------------
(* The packets the receiver has been given.                                *)
Outcomes ==
  stats["decrypted"] + stats["drops_behind"] + stats["drops_seek_cap"]
    + stats["drops_replay"] + stats["drops_auth"]

Rejected == stats["drops_replay"] + stats["drops_auth"]

(* Every generation up to the frontier was derived once for good: the      *)
(* ratchet steps that were not thrown away with a rejected packet are as   *)
(* many as there are generations up to the frontier, so a catch-up never   *)
(* derives again what an earlier one committed.  The benchmark asserts the *)
(* equation without the subtraction (DerivationsMatchFrontier of           *)
(* RealisticRun).                                                          *)
DerivedOncePerGeneration ==
  stats["catchup_steps"] - stats["catchup_steps_wasted"] = frontier + 1

(* The work packets that fail to authenticate can cause is bounded per     *)
(* packet by seek_cap, as the comment on catchup_steps_wasted says, and no *)
(* packet ever causes more.                                                *)
WastedWorkBounded ==
  /\ stats["catchup_steps_wasted"] <= SeekCap * Rejected
  /\ stats["max_catchup"] <= SeekCap
=============================================================================
