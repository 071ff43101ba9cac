----------------------------- MODULE MlsKeying -----------------------------
(***************************************************************************)
(* MLS groups as src/src/keying/mls.rs and the demo client use them.       *)
(*                                                                         *)
(* A group state is the set of members and the commits that led to it: a   *)
(* sequence of committers, the creator first.  OpenMLS draws fresh secrets *)
(* for every commit and hashes them into the key schedule, so two group    *)
(* states have the same exporter secret exactly when they went through the *)
(* same commits.  An identity is its own signing key: every process draws  *)
(* a fresh key pair for the identity that its process id makes unique.     *)
(***************************************************************************)
EXTENDS Naturals, Sequences

(* The 32-bit hash of each credential identity.                            *)
CONSTANT Ssrc

ssrc_from_identity(id) == Ssrc[id]

(* The two KeyPackages a client generates are told apart by their hashes.  *)
generate_key_package(id, n) == [owner |-> id, hash |-> n]

(* MlsGroup::epoch: 0 for a new group, one more with every commit.         *)
epoch(group) == Len(group.history) - 1

(* MlsGroup::new, and add_members with the commit merged at once.          *)
MlsGroup_new(id) == [members |-> {id}, history |-> <<id>>]

add_members(group, id, kps) ==
  [members |-> group.members \cup {kp.owner : kp \in kps},
   history |-> Append(group.history, id)]

Welcome(group, kps) == [secrets |-> kps, group |-> group]

(* StagedWelcome::new_from_welcome finds one of the joiner's KeyPackages.  *)
CanJoin(welcome, id) == \E kp \in welcome.secrets : kp.owner = id

(***************************************************************************)
(* Rekeying.  self_update makes a commit on the current state, which the   *)
(* committer merges before it is sent.  process_message accepts a commit   *)
(* of another member made on the state the receiver is in; for any other   *)
(* it fails, and process_commit panics.                                    *)
(***************************************************************************)
self_update(group, id) == [by |-> id, on |-> group.history]

merge_pending_commit(group, id) ==
  [group EXCEPT !.history = Append(@, id)]

Processable(group, id, commit) ==
  commit.by # id /\ commit.on = group.history

merge_staged_commit(group, commit) ==
  [group EXCEPT !.history = Append(@, commit.by)]

(***************************************************************************)
(* The exporter, bound to its label and to the SSRC as context.            *)
(***************************************************************************)
build_exporter_context(ssrc) == ssrc

(* MlsGroup::export_secret of the OpenMLS kept with the repository.  Its   *)
(* two errors cannot occur here: the lengths asked for are 16 and 12       *)
(* bytes, and no member is removed, so every group is active.              *)
export_secret(group, label, context) ==
  [secret |-> group.history, label |-> label, context |-> context]

export_srtp_keys(group, ssrc) ==
  LET context == build_exporter_context(ssrc)
  IN  << export_secret(group, "SRTP master key", context),
         export_secret(group, "SRTP master salt", context) >>
=============================================================================
