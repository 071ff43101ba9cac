--------------------------- MODULE StreamRatchet ---------------------------
(***************************************************************************)
(* The forward-only key ratchet of one stream in one epoch                 *)
(* (src/src/keying/ratchet.rs).  The chain secret S_g is abstracted to the *)
(* number of HKDF steps that separate it from the seed S_0, and a          *)
(* generation's key and salt to the chain secret they are expanded from:   *)
(* two keys are equal exactly when they come from the same chain secret.   *)
(* The generation counter is kept apart from the secret, as in the code.   *)
(***************************************************************************)
EXTENDS Integers

Ratchets == [chain_secret : Nat, generation : Nat]

(* StreamRatchet::from_seed                                                *)
from_seed == [chain_secret |-> 0, generation |-> 0]

(* StreamRatchet::derive_key_salt                                          *)
derive_key_salt(r) == r.chain_secret

(* StreamRatchet::advance                                                  *)
advance(r) == [chain_secret |-> r.chain_secret + 1,
               generation   |-> r.generation + 1]

(***************************************************************************)
(* n calls of StreamRatchet::next_key_salt, in closed form: the ratchet    *)
(* they leave behind, and the key the call for generation g returned.      *)
(***************************************************************************)
advance_by_Short(r, n) == [chain_secret |-> r.chain_secret + n - 1,
                           generation   |-> r.generation + n]

advance_by(r, n) == [chain_secret |-> r.chain_secret + n,
                     generation   |-> r.generation + n]

key_salt_of(r, g) == r.chain_secret + (g - r.generation)
=============================================================================
