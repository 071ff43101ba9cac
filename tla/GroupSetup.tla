----------------------------- MODULE GroupSetup -----------------------------
(***************************************************************************)
(* The demo client up to its key export                                    *)
(* (src/demo/safecast-client/src/main.rs with ds_client.rs): any number of *)
(* processes register with both services, creators collect the registered  *)
(* clients into a group, senders and receivers wait for a Welcome, and all *)
(* check the members' keys.                                                *)
(*                                                                         *)
(* pc[c] is the next request of client c, one step per HTTP request.  A    *)
(* poll without result changes nothing and is not a step.  "panicked" is   *)
(* the outcome of every failing `expect` and assertion; "crashed" that of  *)
(* a process stopped from outside.                                         *)
(***************************************************************************)
EXTENDS AuthService, DeliveryService, MlsKeying

CONSTANTS
  Creators, Senders, Receivers,  \* the processes started, by --mode
  Identity,                      \* the identity each process generates
  NumSenders, NumReceivers,      \* the creator's --senders and --receivers
  MaxCrashes                     \* bound on processes stopped from outside

Clients == Creators \cup Senders \cup Receivers

(* add_members refuses an empty list, so a creator waits for someone.      *)
ASSUME GroupSetupAssumption ==
  /\ Creators \cap Senders = {}
  /\ Creators \cap Receivers = {}
  /\ Senders \cap Receivers = {}
  /\ DOMAIN Identity = Clients
  /\ NumSenders \in Nat /\ NumReceivers \in Nat
  /\ NumSenders + NumReceivers > 0
  /\ MaxCrashes \in Nat

VARIABLES
  pc,        \* the next request of each client
  peers,     \* a creator's discovered peers
  todo,      \* those whose KeyPackage it still has to fetch, in order
  peer_kps,  \* the KeyPackages fetched
  group      \* the client's group state; without members before it has one

clientVars == << pc, peers, todo, peer_kps, group >>

setupVars == << credentials, dsVars, clientVars >>

NoGroup == [members |-> {}, history |-> << >>]

Init ==
  /\ AsInit
  /\ DsInit
  /\ pc = [c \in Clients |-> "register_as"]
  /\ peers = [c \in Clients |-> {}]
  /\ todo = [c \in Clients |-> << >>]
  /\ peer_kps = [c \in Clients |-> {}]
  /\ group = [c \in Clients |-> NoGroup]

Goto(c, step) == pc' = [pc EXCEPT ![c] = step]

(* register_with_as: the own identity and public key; a conflict panics.   *)
RegisterWithAs(c) ==
  /\ pc[c] = "register_as"
  /\ \/ AsRegister(Identity[c], c) /\ Goto(c, "register_ds")
     \/ AsConflict(Identity[c]) /\ Goto(c, "panicked") /\ UNCHANGED credentials
  /\ UNCHANGED << dsVars, peers, todo, peer_kps, group >>

(* register_with_ds with two KeyPackages, then the role's part.            *)
AfterRegistration(c) == IF c \in Creators THEN "list" ELSE "poll"

KeyPackages_One(c) == << generate_key_package(c, 1) >>

KeyPackages(c) == << generate_key_package(c, 1), generate_key_package(c, 2) >>

RegisterWithDs_First(c) ==
  /\ pc[c] \in {"register_as", "register_ds"}
  /\ register_client(Identity[c], KeyPackages(c))
  /\ pc' = IF pc[c] = "register_as" THEN pc
           ELSE [pc EXCEPT ![c] = AfterRegistration(c)]
  /\ UNCHANGED << credentials, peers, todo, peer_kps, group >>

(* A conflict here would panic too; the authentication service has refused *)
(* a second process with the same identity before.                         *)
RegisterWithDs(c) ==
  /\ pc[c] = "register_ds"
  /\ IF DsConflict(Identity[c])
       THEN Goto(c, "panicked") /\ UNCHANGED dsVars
       ELSE /\ register_client(Identity[c], KeyPackages(c))
            /\ Goto(c, AfterRegistration(c))
  /\ UNCHANGED << credentials, peers, todo, peer_kps, group >>

(***************************************************************************)
(* create_group.  The list of clients comes in the order of a hash map.    *)
(***************************************************************************)
EnoughPeers(found) == Cardinality(found) >= NumSenders + NumReceivers

Discover(c) ==
  LET found == list_clients \ {Identity[c]}
  IN  /\ pc[c] = "list"
      /\ EnoughPeers(found)
      /\ peers' = [peers EXCEPT ![c] = found]
      /\ \E order \in [1 .. Cardinality(found) -> found] :
           /\ found = {order[i] : i \in DOMAIN order}
           /\ todo' = [todo EXCEPT ![c] = order]
      /\ Goto(c, "fetch")
      /\ UNCHANGED << credentials, dsVars, peer_kps, group >>

FetchKeyPackage(c) ==
  LET peer == Head(todo[c])
  IN  /\ pc[c] = "fetch"
      /\ consume_kp(peer)
      /\ peer_kps' = [peer_kps EXCEPT ![c] = @ \cup {NextKeyPackage(peer)}]
      /\ Goto(c, "check")
      /\ UNCHANGED << credentials, peers, todo, group >>

(* lookup_as for the peer just fetched, and the comparison of the key with *)
(* the KeyPackage's.                                                       *)
KeyOf(peer, kps) ==
  (CHOOSE kp \in kps : Identity[kp.owner] = peer).owner

CheckPeer(c) ==
  LET peer == Head(todo[c])
  IN  /\ pc[c] = "check"
      /\ todo' = [todo EXCEPT ![c] = Tail(@)]
      /\ Goto(c, IF ~AsFound(peer, KeyOf(peer, peer_kps[c])) THEN "panicked"
                 ELSE IF Len(todo[c]) > 1 THEN "fetch" ELSE "welcome")
      /\ UNCHANGED << credentials, dsVars, peers, peer_kps, group >>

(* The group is created, all peers are added and the commit is merged      *)
(* locally; then the Welcome is sent.                                      *)
SendWelcome(c) ==
  LET new == add_members(MlsGroup_new(c), c, peer_kps[c])
  IN  /\ pc[c] = "welcome"
      /\ group' = [group EXCEPT ![c] = new]
      /\ send_welcome(Welcome(new, peer_kps[c]))
      /\ Goto(c, "verify")
      /\ UNCHANGED << credentials, peers, todo, peer_kps >>

(***************************************************************************)
(* join_group.  The queue holds only Welcomes here, and the first is used. *)
(***************************************************************************)
JoinGroup(c) ==
  LET welcome == Head(Queued(Identity[c]))
  IN  /\ pc[c] = "poll"
      /\ Queued(Identity[c]) # << >>
      /\ msg_recv(Identity[c])
      /\ IF CanJoin(welcome, c)
           THEN /\ group' = [group EXCEPT ![c] = welcome.group]
                /\ Goto(c, "verify")
           ELSE UNCHANGED group /\ Goto(c, "panicked")
      /\ UNCHANGED << credentials, peers, todo, peer_kps >>

(* verify_group_members.  The service never forgets an identity, so that   *)
(* the lookups can be taken together.                                      *)
AfterVerification(c) ==
  IF c \in Creators THEN "done" ELSE IF c \in Senders THEN "send" ELSE "recv"

VerifyGroupMembers(c) ==
  /\ pc[c] = "verify"
  /\ Goto(c, IF \A m \in group[c].members \ {c} : AsFound(Identity[m], m)
               THEN AfterVerification(c) ELSE "panicked")
  /\ UNCHANGED << credentials, dsVars, peers, todo, peer_kps, group >>

Step(c) ==
  \/ RegisterWithAs(c)
  \/ RegisterWithDs(c)
  \/ Discover(c)
  \/ FetchKeyPackage(c)
  \/ CheckPeer(c)
  \/ SendWelcome(c)
  \/ JoinGroup(c)
  \/ VerifyGroupMembers(c)

Stopped == {"panicked", "crashed", "done"}

Down(c) == pc[c] \in {"panicked", "crashed"}

Crash(c) ==
  /\ pc[c] \notin Stopped
  /\ Cardinality({d \in Clients : pc[d] = "crashed"}) < MaxCrashes
  /\ Goto(c, "crashed")
  /\ UNCHANGED << credentials, dsVars, peers, todo, peer_kps, group >>

Next == \E c \in Clients : Step(c) \/ Crash(c)

(* A process that can go on does, and the services answer every request.   *)
(* Nobody has to crash.                                                    *)
Spec == Init /\ [][Next]_setupVars /\ \A c \in Clients : WF_setupVars(Step(c))

-----------------------------------------------------------------------------
(* No `expect` and no key comparison of the client fails: a process panics *)
(* only because another one registered its identity before it.  Every      *)
(* identity on the delivery service is known to the authentication service *)
(* because each client registers there first (main.rs:149-186).            *)
NoAssertionFails ==
  \A c \in Clients : pc[c] = "panicked" =>
    /\ Identity[c] \in DOMAIN credentials
    /\ credentials[Identity[c]] # c

(* A KeyPackage is handed out once ("one-time-use bundle", mls.rs:94): no  *)
(* two creators build a group on the same one, however their requests      *)
(* interleave.                                                             *)
KeyPackageOnce ==
  \A c, d \in Creators : c # d => peer_kps[c] \cap peer_kps[d] = {}

HasGroup(c) == group[c] # NoGroup

(* A sender or receiver listed in someone's group is in that very group or *)
(* has not joined any yet, so that all members who exchange media export   *)
(* the same keys, also when several creators compete for the clients.      *)
MembersShareTheGroup ==
  \A c \in Clients : \A p \in group[c].members \ Creators :
    HasGroup(p) => group[p] = group[c]

(* Once the creator has sent its Welcome, each peer it discovered is a     *)
(* member and either finds the Welcome in its queue or has joined: nothing *)
(* is lost between the services, also when creators compete.               *)
EveryPeerIsWelcomed ==
  \A c \in Creators : HasGroup(c) =>
    /\ {Identity[m] : m \in group[c].members} = peers[c] \cup {Identity[c]}
    /\ \A p \in group[c].members \ {c} :
         \/ \E i \in 1 .. Len(clients[Identity[p]].welcome_queue) :
              clients[Identity[p]].welcome_queue[i].group = group[c]
         \/ group[p] = group[c]

(* Every peer a creator added joins its group and passes the verification, *)
(* unless it is stopped (join_group polls until the Welcome arrives).      *)
AddedPeersJoin ==
  \A p \in Senders \cup Receivers :
    (\E c \in Creators : p \in group[c].members) ~>
      (pc[p] \in {"send", "recv"} \/ Down(p))

(* A creator that is alone finishes once enough clients are registered,    *)
(* even if some of them are dead by then: their KeyPackages are still on   *)
(* the delivery service.                                                   *)
CreatorFinishes ==
  \A c \in Creators :
    (pc[c] = "list" /\ EnoughPeers(list_clients \ {Identity[c]})) ~>
      (pc[c] = "done" \/ Down(c))
=============================================================================
