-------------------------- MODULE DeliveryService --------------------------
(***************************************************************************)
(* The OpenMLS delivery service kept with the repository                   *)
(* (src/third_party/openmls/delivery-service): registered clients with     *)
(* their KeyPackages and queues, and the last handshake epoch of each      *)
(* group.  Every handler holds the locks from its first read to its        *)
(* answer, so each is one step.  Auth tokens are left out: a client knows  *)
(* its own and asks only for its own queue.                                *)
(***************************************************************************)
EXTENDS FiniteSets, HashMap, Naturals, Sequences

VARIABLES
  clients,  \* id -> [key_packages, reserved, welcome_queue, msgs]
  groups    \* group id -> epoch of the last handshake message

dsVars == << clients, groups >>

DsInit ==
  /\ clients = EmptyMap
  /\ groups = EmptyMap

(* ClientInfo::new                                                         *)
ClientInfo(key_packages) ==
  [key_packages |-> key_packages, reserved |-> {},
   welcome_queue |-> << >>, msgs |-> << >>]

(* POST /clients/register                                                  *)
DsConflict(id) == id \in DOMAIN clients

register_client(id, key_packages) ==
  /\ key_packages # << >>
  /\ ~DsConflict(id)
  /\ clients' = MapInsert(clients, id, ClientInfo(key_packages))
  /\ UNCHANGED groups

(* GET /clients/list                                                       *)
list_clients == DOMAIN clients

(* GET /clients/key_package/{id}: the last KeyPackage is popped and its    *)
(* hash reserved; the first one always stays, and 204 is the answer.       *)
consume_kp_Peeks(id) ==
  LET kps == clients[id].key_packages
  IN  /\ id \in DOMAIN clients /\ Len(kps) > 1
      /\ clients' = [clients EXCEPT ![id].reserved = @ \cup {kps[Len(kps)]}]
      /\ UNCHANGED groups

NextKeyPackage(id) == clients[id].key_packages[Len(clients[id].key_packages)]

consume_kp(id) ==
  /\ id \in DOMAIN clients
  /\ Len(clients[id].key_packages) > 1
  /\ clients' = [clients EXCEPT
       ![id].key_packages = SubSeq(@, 1, Len(@) - 1),
       ![id].reserved     = @ \cup {NextKeyPackage(id)}]
  /\ UNCHANGED groups

(* POST /send/welcome: for each secret, the client that has its hash       *)
(* reserved gets the Welcome and the reservation ends.                     *)
send_welcome_FirstOnly(welcome) ==
  LET for(id) == clients[id].reserved \cap welcome.secrets
      one == CHOOSE id \in DOMAIN clients : for(id) # {}
  IN  /\ clients' = [clients EXCEPT
           ![one].reserved      = @ \ for(one),
           ![one].welcome_queue = Append(@, welcome)]
      /\ UNCHANGED groups

send_welcome(welcome) ==
  LET for(id) == clients[id].reserved \cap welcome.secrets
  IN  /\ clients' = [id \in DOMAIN clients |->
           [clients[id] EXCEPT
              !.reserved      = @ \ for(id),
              !.welcome_queue =
                @ \o [i \in 1 .. Cardinality(for(id)) |-> welcome]]]
      /\ UNCHANGED groups

(* POST /send/message with a handshake message of the given epoch: refused *)
(* with 409 if a later epoch was seen, otherwise queued for all            *)
(* recipients, which are registered.                                       *)
EpochConflict(gid, e) == gid \in DOMAIN groups /\ groups[gid] > e

msg_send_OneShort(gid, e, recipients, msg) ==
  LET missed == CHOOSE id \in recipients : TRUE
  IN  /\ ~EpochConflict(gid, e)
      /\ groups' = MapInsert(groups, gid, e)
      /\ clients' = [id \in DOMAIN clients |->
           IF id \in recipients \ {missed}
             THEN [clients[id] EXCEPT !.msgs = Append(@, msg)]
             ELSE clients[id]]

msg_send_AtFront(gid, e, recipients, msg) ==
  /\ ~EpochConflict(gid, e)
  /\ groups' = MapInsert(groups, gid, e)
  /\ clients' = [id \in DOMAIN clients |->
       IF id \in recipients
         THEN [clients[id] EXCEPT !.msgs = << msg >> \o @]
         ELSE clients[id]]

msg_send(gid, e, recipients, msg) ==
  /\ ~EpochConflict(gid, e)
  /\ groups' = MapInsert(groups, gid, e)
  /\ clients' = [id \in DOMAIN clients |->
       IF id \in recipients
         THEN [clients[id] EXCEPT !.msgs = Append(@, msg)]
         ELSE clients[id]]

(* GET /recv/{id} answers with the Welcomes, then the messages, and        *)
(* empties both queues.                                                    *)
Queued(id) == clients[id].welcome_queue \o clients[id].msgs

msg_recv_Keeps(id) == UNCHANGED dsVars

msg_recv(id) ==
  /\ id \in DOMAIN clients
  /\ clients' = [clients EXCEPT ![id].welcome_queue = << >>,
                                ![id].msgs = << >>]
  /\ UNCHANGED groups
=============================================================================
