------------------------------ MODULE MlsRekey ------------------------------
(***************************************************************************)
(* Rekeying an MLS group: create_rekey_commit and process_commit of        *)
(* src/src/keying/mls.rs, with the commits exchanged through the delivery  *)
(* service's message queues.  The demo client does not rekey yet.  In the  *)
(* repository's tests and benchmarks no two members rekey from the same    *)
(* epoch; the functions do not ensure it, and any member may rekey here.   *)
(***************************************************************************)
EXTENDS DeliveryService, MlsKeying

CONSTANTS
  Members,   \* the members of the group
  MaxEpoch   \* bound on the epochs

ASSUME MlsRekeyAssumption ==
  /\ Members # {} /\ Members \subseteq DOMAIN Ssrc
  /\ MaxEpoch \in Nat

VARIABLES
  group,     \* each member's group state
  outgoing,  \* commits made and not yet sent
  inbox,     \* messages fetched from the delivery service
  panicked   \* the members that panicked

vars == << dsVars, group, outgoing, inbox, panicked >>

Creator == CHOOSE m \in Members : TRUE

KeyPackageOf(m) == generate_key_package(m, 1)

(* All members have joined through the creator's Welcome.                  *)
Init ==
  /\ clients = [m \in Members |-> ClientInfo(<< KeyPackageOf(m) >>)]
  /\ groups = EmptyMap
  /\ group = [m \in Members |->
       add_members(MlsGroup_new(Creator), Creator,
                   {KeyPackageOf(p) : p \in Members \ {Creator}})]
  /\ outgoing = [m \in Members |-> << >>]
  /\ inbox = [m \in Members |-> << >>]
  /\ panicked = {}

(* create_rekey_commit: the commit is merged before anyone else has it.    *)
Rekey(m) ==
  /\ m \notin panicked
  /\ epoch(group[m]) < MaxEpoch
  /\ outgoing' = [outgoing EXCEPT ![m] = Append(@, self_update(group[m], m))]
  /\ group' = [group EXCEPT ![m] = merge_pending_commit(@, m)]
  /\ UNCHANGED << dsVars, inbox, panicked >>

(* The commit goes to all other members; a refused one is gone.            *)
GroupId(commit) == Head(commit.on)

CommitEpoch(commit) == Len(commit.on) - 1

Distribute(m) ==
  LET commit == Head(outgoing[m])
      e == CommitEpoch(commit)
  IN  /\ m \notin panicked
      /\ outgoing[m] # << >>
      /\ outgoing' = [outgoing EXCEPT ![m] = Tail(@)]
      /\ \/ msg_send(GroupId(commit), e, Members \ {m}, commit)
         \/ EpochConflict(GroupId(commit), e) /\ UNCHANGED dsVars
      /\ UNCHANGED << group, inbox, panicked >>

Fetch(m) ==
  /\ m \notin panicked
  /\ Queued(m) # << >>
  /\ msg_recv(m)
  /\ inbox' = [inbox EXCEPT ![m] = @ \o Queued(m)]
  /\ UNCHANGED << group, outgoing, panicked >>

(* process_commit                                                          *)
Process(m) ==
  LET commit == Head(inbox[m])
  IN  /\ m \notin panicked
      /\ inbox[m] # << >>
      /\ inbox' = [inbox EXCEPT ![m] = Tail(@)]
      /\ IF Processable(group[m], m, commit)
           THEN /\ group' = [group EXCEPT ![m] = merge_staged_commit(@, commit)]
                /\ UNCHANGED panicked
           ELSE panicked' = panicked \cup {m} /\ UNCHANGED group
      /\ UNCHANGED << dsVars, outgoing >>

CatchUp(m) == Distribute(m) \/ Fetch(m) \/ Process(m)

Next == \E m \in Members : Rekey(m) \/ CatchUp(m)

(* Commits are sent and received eventually; nobody has to rekey.          *)
Spec == Init /\ [][Next]_vars /\ \A m \in Members : WF_vars(CatchUp(m))

-----------------------------------------------------------------------------
Prefix(s, t) == Len(s) <= Len(t) /\ \A k \in 1 .. Len(s) : s[k] = t[k]

Extends(m, n) == Prefix(group[n].history, group[m].history)

(* Two members have merged different commits on the same state.            *)
Forked == \E m, n \in Members : ~Extends(m, n) /\ ~Extends(n, m)

(* A member panics on a commit only after two members have committed on    *)
(* the same state, each merging its own commit (mls.rs:196): the queues of *)
(* the delivery service alone never lose, repeat or reorder a commit.      *)
PanicMeansFork == panicked # {} => Forked

(* The commits fetched by m and not yet processed, then those queued.      *)
Undelivered(m) == inbox[m] \o Queued(m)

(* A commit that takes the first k - 1 entries of a line to the first k.   *)
Committed(c, line, k) ==
  /\ c.by = line[k]
  /\ Len(c.on) = k - 1
  /\ \A j \in 1 .. k - 1 : c.on[j] = line[j]

(* Processing the commits in order takes history s to history t.           *)
Reaches(commits, s, t) ==
  \A k \in Len(s) + 1 .. Len(t) :
    /\ k - Len(s) \in 1 .. Len(commits)
    /\ Committed(commits[k - Len(s)], t, k)

(* No member is stranded behind another: unless the group forked, the      *)
(* commits that lead from m's state to n's are under way to m in the order *)
(* in which m can process them, first those fetched or queued for m, then  *)
(* those n has made and not yet sent.  A commit is merged by its maker     *)
(* before anyone has it (mls.rs:196), can be refused by the delivery       *)
(* service for its epoch, and is not sent again.                           *)
NobodyIsStranded ==
  ~Forked =>
    \A m, n \in Members :
      Reaches(Undelivered(m) \o outgoing[n], group[m].history, group[n].history)

(* A rekey reaches everyone unless the group forks: when no member rekeys  *)
(* any more, all come to the same group state and stay there ("lets every  *)
(* other member derive the new epoch's key schedule", mls.rs:175-176).     *)
EveryoneFollows ==
  []~Forked => <>[](\A m, n \in Members : group[m] = group[n])

(* What mls.rs:143-144 states without any premise: "both members of the    *)
(* same MLS group in the same epoch will derive identical output".         *)
SameEpochSameKeys ==
  \A m, n, s \in Members : epoch(group[m]) = epoch(group[n]) =>
    export_srtp_keys(group[m], ssrc_from_identity(s)) =
    export_srtp_keys(group[n], ssrc_from_identity(s))
=============================================================================
