------------------------- MODULE ReceiverKeyManager -------------------------
(***************************************************************************)
(* The receiver side of one SRTP stream (src/src/receiver.rs): a libsrtp   *)
(* session whose cipher holds one generation key at a time, a ratchet, and *)
(* a ring with the keys of the last K generations, slot g % K holding      *)
(* generation g.                                                           *)
(*                                                                         *)
(* A packet is what reaches unprotect: the header fields it reads (seq,    *)
(* ts) and, for the AES-GCM tag, the key and packet index it was sealed    *)
(* under and whether its bytes are still those the sender sealed.          *)
(***************************************************************************)
EXTENDS GenerationScheme, Rdbx, StreamRatchet

CONSTANTS K,            \* ring size: generation keys kept
          SeekCap       \* seek_cap: ratchet steps one packet may demand

ASSUME WindowAssumption ==
  /\ K \in Nat \ {0}
  /\ SeekCap \in Nat

VARIABLES ratchet,    \* the real ratchet
          ring,       \* slot -> [gen, key] or the empty slot
          frontier,   \* highest generation derived, None at first
          installed,  \* generation loaded in the cipher, None at first
          cipher,     \* key loaded in the cipher, None for the throwaway key
          highest,    \* IndexRecovery
          rdbx,       \* libsrtp's replay database for the stream
          result      \* what the last call of unprotect returned

window == <<ratchet, ring, frontier>>

rxVars == <<ratchet, ring, frontier, installed, cipher, highest, rdbx, result>>

Packets == [seq : Seqs, ts : Timestamps, key : Nat, index : Nat, intact : BOOLEAN]

Slots == 0 .. K - 1

Entry(g, key) == [gen |-> g, key |-> key]

Empty == Entry(None, None)

Statuses == {"New", "Ok", "BehindWindow", "SeekCapExceeded", "SrtpReplay", "AuthFail"}

Results == [status : Statuses, gen : Nat \cup {None}]

Err(status) == [status |-> status, gen |-> None]

Ok(g) == [status |-> "Ok", gen |-> g]

(* ReceiverKeyManager::new.  The ratchet is seeded for the epoch.          *)
RxInit ==
  /\ ratchet = from_seed
  /\ ring = [s \in Slots |-> Empty]
  /\ frontier = None
  /\ installed = None
  /\ cipher = None
  /\ highest = None
  /\ rdbx = srtp_rdbx_init
  /\ result = Err("New")

(***************************************************************************)
(* Phase 2: where generation g falls relative to the window.               *)
(***************************************************************************)
Derived(g) == frontier # None /\ g <= frontier

TooOld_OffByOne(g) == Derived(g) /\ frontier - g >= K - 1

TooOld(g) == Derived(g) /\ frontier - g >= K

InWindow(g) == Derived(g) /\ ~TooOld(g)

jump(g) == IF frontier = None THEN g + 1 ELSE g - frontier

TooFar_NoCap(g) == FALSE

TooFar(g) == ~Derived(g) /\ jump(g) > SeekCap

Ahead(g) == ~Derived(g) /\ ~TooFar(g)

(***************************************************************************)
(* Phase 3: the catch-up on a clone of the ratchet derives every           *)
(* generation up to g and keeps the last K of them (`derived`); phase 4    *)
(* folds them into the ring once the packet has authenticated.             *)
(***************************************************************************)
derived_LastOnly(g) == {g}

derived(g) == {gg \in ratchet.generation .. g : g - gg < K}

Folded(g) ==
  [s \in Slots |->
     LET new == {gg \in derived(g) : gg % K = s}
     IN  IF new = {} THEN ring[s]
         ELSE LET gg == CHOOSE gg \in new : \A h \in new : h <= gg
              IN  Entry(gg, key_salt_of(ratchet, gg))]

(* Adopting the clone: ratchet, ring and frontier move together.           *)
Adopt(g) ==
  /\ ratchet' = advance_by(ratchet, g + 1 - ratchet.generation)
  /\ ring' = Folded(g)
  /\ frontier' = g

(***************************************************************************)
(* Phase 4: install g's key unless it is the installed one, then let       *)
(* libsrtp decide.  The install is not undone when the packet is rejected. *)
(***************************************************************************)
Install_Never(g, key) == IF installed = None THEN key ELSE cipher

Install(g, key) == IF installed # g THEN key ELSE cipher

SrtpError(status) ==
  IF status \in {"replay_fail", "replay_old"} THEN Err("SrtpReplay") ELSE Err("AuthFail")

Load(g, key) ==
  /\ installed' = g
  /\ cipher' = Install(g, key)

Accepted(p, g, key) == srtp_unprotect_status(rdbx, Install(g, key), p) = "ok"

(* The packet authenticates: what follows the Ok(()) of session.unprotect, *)
(* apart from the adoption of a pending catch-up.                          *)
Deliver(p, g) ==
  /\ rdbx' = srtp_unprotect_rdbx(rdbx, p)
  /\ highest' = IF ByIndex THEN update(highest, recover(highest, p.seq)) ELSE highest
  /\ result' = Ok(g)

(* The packet is rejected: the pending catch-up, if any, is dropped.       *)
Reject(p, g, key) ==
  /\ ~Accepted(p, g, key)
  /\ result' = SrtpError(srtp_unprotect_status(rdbx, Install(g, key), p))
  /\ UNCHANGED <<window, highest, rdbx>>

(***************************************************************************)
(* The paths through unprotect.                                            *)
(***************************************************************************)
Drop(status) ==
  /\ result' = Err(status)
  /\ UNCHANGED <<window, installed, cipher, highest, rdbx>>

(* Shorter than an RTP header.                                             *)
DropTruncated == Drop("AuthFail")

DropBeforeEpoch(p) == BeforeEpoch(highest, p.seq) /\ Drop("BehindWindow")

DropBehind(p, g) == TooOld(g) /\ Drop("BehindWindow")

DropSeekCap(p, g) == TooFar(g) /\ Drop("SeekCapExceeded")

(* The key is in the ring (a slot with another tag is `unreachable!`).     *)
OpenInWindow(p, g) ==
  LET slot == ring[g % K]
  IN  /\ InWindow(g)
      /\ slot.gen = g
      /\ Load(g, slot.key)
      /\ \/ Accepted(p, g, slot.key) /\ Deliver(p, g) /\ UNCHANGED window
         \/ Reject(p, g, slot.key)

OpenAhead_CommitFirst(p, g) ==
  LET key == key_salt_of(ratchet, g)
  IN  /\ Ahead(g)
      /\ Load(g, key)
      /\ Adopt(g)
      /\ \/ Accepted(p, g, key) /\ Deliver(p, g)
         \/ /\ ~Accepted(p, g, key)
            /\ result' = SrtpError(srtp_unprotect_status(rdbx, Install(g, key), p))
            /\ UNCHANGED <<highest, rdbx>>

(* The key is derived on a clone, adopted only if the packet authenticates.*)
OpenAhead(p, g) ==
  LET key == key_salt_of(ratchet, g)
  IN  /\ Ahead(g)
      /\ Load(g, key)
      /\ \/ Accepted(p, g, key) /\ Deliver(p, g) /\ Adopt(g)
         \/ Reject(p, g, key)

(* ReceiverKeyManager::unprotect on a packet that has a full header.       *)
unprotect(p) ==
  \/ DropBeforeEpoch(p)
  \/ /\ ~BeforeEpoch(highest, p.seq)
     /\ LET g == generation(highest, p)
        IN  \/ DropBehind(p, g)
            \/ DropSeekCap(p, g)
            \/ OpenInWindow(p, g)
            \/ OpenAhead(p, g)

-----------------------------------------------------------------------------
(***************************************************************************)
(* Properties of the receiver, whatever packets arrive.                    *)
(***************************************************************************)

(* Type invariant.                                                         *)
RxTypeOK ==
  /\ ratchet \in Ratchets
  /\ ring \in [Slots -> [gen : Nat \cup {None}, key : Nat \cup {None}]]
  /\ frontier \in Nat \cup {None}
  /\ installed \in Nat \cup {None}
  /\ cipher \in Nat \cup {None}
  /\ highest \in Nat \cup {None}
  /\ rdbx \in RdbxTypes
  /\ result \in Results

(* Every generation of the window [frontier-K+1, frontier] is in its ring  *)
(* slot, tagged with itself and with the key derived from its own chain    *)
(* secret: the `unreachable!` of an in-window miss is never reached.       *)
RingHoldsWindow ==
  frontier # None =>
    \A g \in 0 .. frontier : frontier - g < K => ring[g % K] = Entry(g, g)

(* The keys in the receiver's memory.                                      *)
HeldKeys == ({ring[s].key : s \in Slots} \cup {cipher}) \ {None}

(* Forward secrecy: no key older than the window is in memory, neither in  *)
(* the ring nor in the cipher (which may be loaded by a packet that is     *)
(* then rejected), and the chain secret is already past the frontier, so   *)
(* no such key can be derived again.                                       *)
ForwardSecrecy ==
  /\ ratchet.chain_secret = frontier + 1
  /\ \A key \in HeldKeys : frontier - key < K

(* The cipher holds the key of the generation `installed` names, so that   *)
(* skipping the rekey when installed = g is sound after every sequence of  *)
(* accepted and rejected packets.                                          *)
CipherMatchesInstalled == cipher = installed

(* The generation mapping and libsrtp unwrap every sequence number to the  *)
(* same extended index although each keeps its own reference: otherwise a  *)
(* genuine packet would be opened with the key of one index under the IV   *)
(* of another.                                                             *)
EstimatorsAgree ==
  ByIndex => \A s \in Seqs : recover(highest, s) = srtp_rdbx_estimate_index(rdbx, s)

(* A key that left memory never comes back: a key that appears in the ring *)
(* or the cipher is one of a generation ahead of the frontier.             *)
NoKeyReturns ==
  [][\A key \in HeldKeys' : key \in HeldKeys \/ key > frontier]_rxVars

(* A packet that is not delivered leaves the ratchet, the ring, the        *)
(* frontier, the index recovery and the replay database as they were       *)
(* (the rollback comment of phase 4).                                      *)
RejectedIsInert ==
  [][result'.status # "Ok" => UNCHANGED <<window, highest, rdbx>>]_rxVars
=============================================================================
