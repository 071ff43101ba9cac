---------------------------- MODULE SetupLemmas ----------------------------
(***************************************************************************)
(* The invariant of GroupSetup, for any number of processes, identities    *)
(* and crashes: every step of a creator, sender or receiver keeps it, and  *)
(* it implies the safety properties.  DemoProofs draws the theorems.       *)
(***************************************************************************)
EXTENDS GroupSetup, TLAPS

(* The steps late in a long module need more than the provers' default time. *)
USE SMTT(60)

-----------------------------------------------------------------------------
(***************************************************************************)
(* The invariant of the set-up.  Of the two KeyPackages a client uploads   *)
(* the delivery service hands out only the last.  From then on the client  *)
(* belongs to the creator that fetched it, and goes through three stages:  *)
(* its KeyPackage is reserved, the Welcome is in its queue, it has joined. *)
(***************************************************************************)
Kp(o) == generate_key_package(o, 2)

(* The client is known to the authentication service, and to both.         *)
Registered(o) == AsFound(Identity[o], o)

Online(o) == Registered(o) /\ Identity[o] \in DOMAIN clients

Claimed(o, c) == \A d \in Clients : Kp(o) \in peer_kps[d] <=> d = c

NotJoined(o) == o \in Creators \/ ~HasGroup(o)

LastResort(o) == << generate_key_package(o, 1) >>

Info(o, kps, reserved, queue) ==
  /\ Online(o)
  /\ clients[Identity[o]] = [key_packages |-> kps, reserved |-> reserved,
                             welcome_queue |-> queue, msgs |-> << >>]

Fresh(o) ==
  /\ \A d \in Clients : Kp(o) \notin peer_kps[d]
  /\ NotJoined(o)
  /\ Online(o) => Info(o, KeyPackages(o), {}, << >>)

Reserved(o, c) ==
  Claimed(o, c) /\ NotJoined(o) /\ ~HasGroup(c) /\ Info(o, LastResort(o), {Kp(o)}, << >>)

Welcomed(o, c) ==
  /\ Claimed(o, c) /\ NotJoined(o) /\ HasGroup(c)
  /\ Info(o, LastResort(o), {}, << Welcome(group[c], peer_kps[c]) >>)

Joined(o, c) ==
  /\ Claimed(o, c) /\ o \notin Creators /\ HasGroup(c)
  /\ group[o] = group[c]
  /\ Info(o, LastResort(o), {}, << >>)

Stage(o) ==
  \/ Fresh(o)
  \/ \E c \in Creators : Reserved(o, c) \/ Welcomed(o, c) \/ Joined(o, c)

(* The services' maps: each identity belongs to the client that registered *)
(* it first, also on the delivery service.                                 *)
Directory ==
  /\ \A id \in DOMAIN credentials :
       credentials[id] \in Clients /\ Identity[credentials[id]] = id
  /\ \A id \in DOMAIN clients : id \in DOMAIN credentials
  /\ IsFiniteSet(DOMAIN clients)

(* What the next request of a client says of it.                           *)
Fetched(c) == {Identity[kp.owner] : kp \in peer_kps[c]}

(* The peers a creator has still to fetch.                                 *)
Elements(q) == {q[i] : i \in DOMAIN q}

Progress(c) ==
  /\ pc[c] = "register_as" => ~Registered(c)
  /\ pc[c] \notin {"register_as", "panicked", "crashed"} => Registered(c)
  /\ pc[c] = "register_ds" => Identity[c] \notin DOMAIN clients
  /\ pc[c] \in {"verify", "send", "recv", "listen"} => HasGroup(c)
  /\ pc[c] \in {"register_as", "register_ds", "list", "poll"} => peer_kps[c] = {}
  /\ pc[c] \in {"register_as", "register_ds", "list", "poll",
                "fetch", "check", "welcome"} => ~HasGroup(c)
  /\ pc[c] \in {"fetch", "check"} =>
       todo[c] # << >> /\ peers[c] = Elements(todo[c]) \cup Fetched(c)
  /\ pc[c] = "check" => Head(todo[c]) \in Fetched(c)
  /\ pc[c] = "welcome" => peers[c] = Fetched(c)
  /\ c \in Creators => pc[c] \notin {"poll", "send", "recv", "listen"}
  /\ c \notin Creators =>
       peer_kps[c] = {} /\ pc[c] \notin {"list", "fetch", "check", "welcome"}

Formed(c) ==
  HasGroup(c) =>
    /\ group[c] = [members |-> {c} \cup {kp.owner : kp \in peer_kps[c]},
                   history |-> << c, c >>]
    /\ peers[c] = Fetched(c)
    /\ Registered(c)

SetupTypeOK ==
  /\ DOMAIN pc = Clients /\ DOMAIN peers = Clients
  /\ todo \in [Clients -> Seq({Identity[c] : c \in Clients})]
  /\ peer_kps \in [Clients -> SUBSET {Kp(o) : o \in Clients}]
  /\ DOMAIN group = Clients

SetupInv ==
  /\ SetupTypeOK
  /\ Directory
  /\ \A c \in Clients : Stage(c) /\ Progress(c)
  /\ \A c \in Creators : Formed(c)

-----------------------------------------------------------------------------
(***************************************************************************)
(* What does not concern a client leaves its part of the invariant alone.  *)
(***************************************************************************)
LEMMA SameOwner ==
  ASSUME NEW a, NEW b, Registered(a), Registered(b), Identity[a] = Identity[b]
  PROVE  a = b
BY Zenon DEF Registered, AsFound

LEMMA StageKept ==
  ASSUME NEW o \in Clients, Stage(o),
         Online(o)' <=> Online(o),
         Online(o) => clients'[Identity[o]] = clients[Identity[o]],
         \A d \in Clients : Kp(o) \in peer_kps'[d] <=> Kp(o) \in peer_kps[d],
         o \in Creators \/ group'[o] = group[o],
         \A c \in Creators : HasGroup(c) => /\ group'[c] = group[c]
                                            /\ peer_kps'[c] = peer_kps[c],
         \A c \in Creators : Claimed(o, c) /\ ~HasGroup(c) => ~HasGroup(c)'
  PROVE  Stage(o)'
<1>1. NotJoined(o) => NotJoined(o)'
  BY Zenon DEF NotJoined, HasGroup
<1>2. \A c \in Creators : Claimed(o, c) => Claimed(o, c)'
  BY Zenon DEF Claimed
<1>3. \A c \in Creators : HasGroup(c) => HasGroup(c)'
  BY Zenon DEF HasGroup
<1>4. \A kps, res, queue : Info(o, kps, res, queue) => Info(o, kps, res, queue)'
  BY Zenon DEF Info
<1>5. CASE Fresh(o)
  <2>1. \A d \in Clients : Kp(o) \notin peer_kps'[d]
    BY <1>5, Zenon DEF Fresh
  <2>2. Online(o)' => Info(o, KeyPackages(o), {}, << >>)'
    BY <1>4, <1>5, Zenon DEF Fresh
  <2>3. Fresh(o)'
    BY <1>1, <1>5, <2>1, <2>2, Zenon DEF Fresh
  <2> QED BY <2>3, Zenon DEF Stage
<1>6. ASSUME NEW c \in Creators, Reserved(o, c) PROVE Stage(o)'
  <2>1. Reserved(o, c)'
    BY <1>1, <1>2, <1>4, <1>6, Zenon DEF Reserved
  <2> QED BY <2>1, Zenon DEF Stage
<1>7. ASSUME NEW c \in Creators, Welcomed(o, c) PROVE Stage(o)'
  <2>1. Welcome(group[c], peer_kps[c])' = Welcome(group[c], peer_kps[c])
    BY <1>7, Zenon DEF Welcomed
  <2>2. Info(o, LastResort(o), {}, << Welcome(group[c], peer_kps[c]) >>)'
    BY <1>7, <2>1, Zenon DEF Welcomed, Info
  <2>3. Welcomed(o, c)'
    BY <1>1, <1>2, <1>3, <1>7, <2>2, Zenon DEF Welcomed
  <2> QED BY <2>3, Zenon DEF Stage
<1>8. ASSUME NEW c \in Creators, Joined(o, c) PROVE Stage(o)'
  <2>1. group'[o] = group'[c]
    BY <1>8, Zenon DEF Joined
  <2>2. Joined(o, c)'
    BY <1>2, <1>3, <1>4, <1>8, <2>1, Zenon DEF Joined
  <2> QED BY <2>2, Zenon DEF Stage
<1> QED BY <1>5, <1>6, <1>7, <1>8, Zenon DEF Stage

LEMMA ProgressKept ==
  ASSUME NEW d \in Clients, Progress(d),
         pc'[d] = pc[d], group'[d] = group[d], peer_kps'[d] = peer_kps[d],
         todo'[d] = todo[d], peers'[d] = peers[d],
         Registered(d)' <=> Registered(d),
         pc[d] = "register_ds" =>
           (Identity[d] \in DOMAIN clients' <=> Identity[d] \in DOMAIN clients)
  PROVE  Progress(d)'
BY Zenon DEF Progress, HasGroup, Fetched

LEMMA FormedKept ==
  ASSUME NEW c \in Creators, Formed(c),
         group'[c] = group[c], peer_kps'[c] = peer_kps[c], peers'[c] = peers[c],
         Registered(c) => Registered(c)'
  PROVE  Formed(c)'
BY Zenon DEF Formed, HasGroup, Fetched

(* A fetched KeyPackage is the second of a client on both services, and    *)
(* nobody else has it.                                                     *)
LEMMA FetchedOwner ==
  ASSUME SetupInv, NEW c \in Clients, NEW kp \in peer_kps[c]
  PROVE  /\ kp.owner \in Clients /\ kp = Kp(kp.owner)
         /\ Online(kp.owner) /\ Claimed(kp.owner, c) /\ c \in Creators
<1>1. PICK o \in Clients : kp = Kp(o)
  BY Zenon DEF SetupInv, SetupTypeOK
<1>2. kp.owner = o
  BY <1>1, Zenon DEF Kp, generate_key_package
<1>3. Stage(o) /\ ~Fresh(o)
  BY <1>1, Zenon DEF SetupInv, Fresh
<1>4. PICK d \in Creators : Claimed(o, d) /\ Online(o)
  BY <1>3, Zenon DEF Stage, Reserved, Welcomed, Joined, Info
<1>5. d = c
  BY <1>1, <1>4, Zenon DEF Claimed
<1> QED BY <1>1, <1>2, <1>4, <1>5, Zenon

(* A sender or receiver with a group has it from a creator.                *)
LEMMA JoinedFrom ==
  ASSUME SetupInv, NEW o \in Clients \ Creators, HasGroup(o)
  PROVE  \E c \in Creators : Joined(o, c)
BY Zenon DEF SetupInv, Stage, Fresh, Reserved, Welcomed, NotJoined

(* Every member of a group is registered under its identity.               *)
LEMMA MembersRegistered ==
  ASSUME SetupInv, NEW c \in Clients, NEW m \in group[c].members
  PROVE  m \in Clients /\ Registered(m)
<1>1. ASSUME NEW d \in Creators, HasGroup(d), m \in group[d].members
      PROVE  m \in Clients /\ Registered(m)
  <2>1. Formed(d) /\ d \in Clients
    BY Zenon DEF SetupInv, Clients
  <2>2. Registered(d) /\ group[d].members = {d} \cup {kp.owner : kp \in peer_kps[d]}
    BY <1>1, <2>1 DEF Formed
  <2>3. CASE m = d
    BY <2>1, <2>2, <2>3, Zenon
  <2>4. ASSUME NEW kp \in peer_kps[d], m = kp.owner PROVE m \in Clients /\ Registered(m)
    BY <2>1, <2>4, FetchedOwner, Zenon DEF Online
  <2> QED BY <1>1, <2>2, <2>3, <2>4, Zenon
<1>2. HasGroup(c)
  BY DEF HasGroup, NoGroup
<1>3. CASE c \in Creators
  BY <1>1, <1>2, <1>3, Zenon
<1>4. CASE c \notin Creators
  <2>1. PICK d \in Creators : Joined(c, d)
    BY <1>2, <1>4, JoinedFrom, Zenon
  <2>2. HasGroup(d) /\ group[c] = group[d]
    BY <2>1, Zenon DEF Joined
  <2> QED BY <1>1, <2>2, Zenon
<1> QED BY <1>3, <1>4, Zenon

-----------------------------------------------------------------------------
(* What the set-up needs to know of finite sets.  It holds of all sets     *)
(* (FiniteSetsBehave, below).                                              *)
FiniteFacts ==
  /\ IsFiniteSet({}) /\ Cardinality({}) = 0
  /\ \A x : Cardinality({x}) = 1
  /\ \A S : IsFiniteSet(S) =>
       /\ Cardinality(S) \in Nat
       /\ \A x : IsFiniteSet(S \cup {x})
       /\ \A T \in SUBSET S : IsFiniteSet(T)

-----------------------------------------------------------------------------
(***************************************************************************)
(* The set-up, action by action.                                           *)
(***************************************************************************)
LEMMA SetupInit ==
  ASSUME FiniteFacts, Init
  PROVE  SetupInv /\ NoAssertionFails
<1>1. DOMAIN credentials = {} /\ DOMAIN clients = {}
  BY Zenon DEF Init, AsInit, DsInit, EmptyMap
<1>2. \A c \in Clients : /\ pc[c] = "register_as" /\ peer_kps[c] = {}
                         /\ ~HasGroup(c) /\ ~Registered(c)
  BY <1>1, Zenon DEF Init, HasGroup, Registered, AsFound
<1>3. SetupTypeOK
  <2>1. << >> \in Seq({Identity[c] : c \in Clients})
    OBVIOUS
  <2> QED BY <2>1, Zenon DEF Init, SetupTypeOK
<1>4. Directory
  BY <1>1, Zenon DEF Directory, FiniteFacts
<1>5. \A c \in Clients : Stage(c)
  BY <1>2, Zenon DEF Stage, Fresh, NotJoined, Online
<1>6. \A c \in Clients : Progress(c)
  BY <1>2, Zenon DEF Progress
<1>7. \A c \in Creators : Formed(c)
  BY <1>2, Zenon DEF Formed, Clients
<1> QED BY <1>2, <1>3, <1>4, <1>5, <1>6, <1>7, Zenon DEF SetupInv, NoAssertionFails

(* Steps that only move a client on: verification, the media part, a crash *)
(* or a panic.                                                             *)
LEMMA MoveKeepsSetup ==
  ASSUME SetupInv, NEW c \in Clients,
         NEW step \in {"send", "recv", "listen", "done", "panicked", "crashed"},
         Goto(c, step),
         UNCHANGED << credentials, dsVars, peers, todo, peer_kps, group >>,
         step \in {"panicked", "crashed"} \/ Registered(c),
         step \in {"send", "recv", "listen"} => HasGroup(c) /\ c \notin Creators
  PROVE  SetupInv'
<1>1. UNCHANGED << credentials, clients, groups, peers, todo, peer_kps, group >>
  BY Zenon DEF dsVars
<1>2. /\ pc'[c] = step /\ DOMAIN pc' = Clients
      /\ \A d \in Clients \ {c} : pc'[d] = pc[d]
  BY Zenon DEF Goto, SetupInv, SetupTypeOK
<1>3. /\ \A d \in Clients : (Registered(d)' <=> Registered(d)) /\ (Online(d)' <=> Online(d))
      /\ \A d \in Clients : HasGroup(d)' <=> HasGroup(d)
  BY <1>1, Zenon DEF Registered, AsFound, Online, HasGroup
<1>4. SetupTypeOK'
  BY <1>1, <1>2, Zenon DEF SetupInv, SetupTypeOK
<1>5. Directory'
  BY <1>1, Zenon DEF SetupInv, Directory
<1>6. ASSUME NEW o \in Clients PROVE Stage(o)'
  <2>1. Stage(o)
    BY Zenon DEF SetupInv
  <2>2. \A d \in Creators : d \in Clients
    BY Zenon DEF Clients
  <2> QED BY <1>1, <1>3, <2>1, <2>2, StageKept, Zenon
<1>7. ASSUME NEW d \in Clients PROVE Progress(d)'
  <2>1. Progress(d)
    BY Zenon DEF SetupInv
  <2>2. CASE d # c
    BY <1>1, <1>2, <1>3, <2>1, <2>2, ProgressKept, Zenon
  <2>3. CASE d = c
    <3>1. d \notin Creators => peer_kps[d] = {}
      BY <2>1, Zenon DEF Progress
    <3> QED BY <1>1, <1>2, <1>3, <2>3, <3>1, Zenon DEF Progress
  <2> QED BY <2>2, <2>3, Zenon
<1>8. ASSUME NEW d \in Creators PROVE Formed(d)'
  <2>1. Formed(d) /\ d \in Clients
    BY Zenon DEF SetupInv, Clients
  <2> QED BY <1>1, <1>3, <2>1, FormedKept, Zenon
<1> QED BY <1>4, <1>5, <1>6, <1>7, <1>8, Zenon DEF SetupInv

(* POST /register at the authentication service.                           *)
LEMMA RegisterAsKeepsSetup ==
  ASSUME SetupInv, NEW c \in Clients, RegisterWithAs(c)
  PROVE  /\ SetupInv'
         /\ pc'[c] = "panicked" =>
              credentials' = credentials /\ AsConflict(Identity[c]) /\ ~Registered(c)
<1>1. /\ UNCHANGED << clients, groups, peers, todo, peer_kps, group >>
      /\ pc[c] = "register_as"
  BY Zenon DEF RegisterWithAs, dsVars
<1>2. Progress(c) /\ ~Registered(c) /\ ~HasGroup(c) /\ peer_kps[c] = {}
  BY <1>1, Zenon DEF SetupInv, Progress
<1>3. CASE AsConflict(Identity[c]) /\ Goto(c, "panicked") /\ UNCHANGED credentials
  <2>1. SetupInv'
    BY <1>1, <1>3, MoveKeepsSetup, Zenon DEF dsVars
  <2> QED BY <1>2, <1>3, <2>1, Zenon
<1>4. CASE AsRegister(Identity[c], c) /\ Goto(c, "register_ds")
  <2>1. /\ pc'[c] = "register_ds" /\ DOMAIN pc' = Clients
        /\ \A d \in Clients \ {c} : pc'[d] = pc[d]
    BY <1>4, Zenon DEF Goto, SetupInv, SetupTypeOK
  <2>2. /\ Identity[c] \notin DOMAIN credentials
        /\ DOMAIN credentials' = DOMAIN credentials \cup {Identity[c]}
        /\ credentials'[Identity[c]] = c
        /\ \A id \in DOMAIN credentials : credentials'[id] = credentials[id]
    BY <1>4, Zenon DEF AsRegister, AsConflict, MapInsert
  <2>3. Identity[c] \notin DOMAIN clients
    BY <2>2, Zenon DEF SetupInv, Directory
  <2>4. /\ Registered(c)'
        /\ \A d \in Clients \ {c} : Registered(d)' <=> Registered(d)
    BY <2>2, Zenon DEF Registered, AsFound
  <2>5. \A d \in Clients : Online(d)' <=> Online(d)
    BY <1>1, <2>3, <2>4, Zenon DEF Online
  <2>6. SetupTypeOK'
    BY <1>1, <2>1, Zenon DEF SetupInv, SetupTypeOK
  <2>7. Directory'
    <3>1. /\ \A id \in DOMAIN credentials :
               credentials[id] \in Clients /\ Identity[credentials[id]] = id
          /\ \A id \in DOMAIN clients : id \in DOMAIN credentials
          /\ IsFiniteSet(DOMAIN clients)
      BY Zenon DEF SetupInv, Directory
    <3> QED BY <1>1, <2>2, <3>1, Zenon DEF Directory
  <2>8. ASSUME NEW o \in Clients PROVE Stage(o)'
    <3>1. Stage(o)
      BY Zenon DEF SetupInv
    <3> QED BY <1>1, <2>5, <3>1, StageKept, Zenon DEF HasGroup
  <2>9. ASSUME NEW d \in Clients PROVE Progress(d)'
    <3>1. Progress(d)
      BY Zenon DEF SetupInv
    <3>2. CASE d # c
      BY <1>1, <2>1, <2>4, <3>1, <3>2, ProgressKept, Zenon
    <3>3. CASE d = c
      BY <1>1, <1>2, <2>1, <2>3, <2>4, <3>3, Zenon DEF Progress, HasGroup
    <3> QED BY <3>2, <3>3, Zenon
  <2>10. ASSUME NEW d \in Creators PROVE Formed(d)'
    <3>1. Formed(d) /\ d \in Clients
      BY Zenon DEF SetupInv, Clients
    <3>2. Registered(d) => Registered(d)'
      BY <2>4, <3>1, Zenon
    <3> QED BY <1>1, <3>1, <3>2, FormedKept, Zenon
  <2>11. SetupInv'
    BY <2>6, <2>7, <2>8, <2>9, <2>10, Zenon DEF SetupInv
  <2> QED BY <2>1, <2>11, Zenon
<1> QED BY <1>3, <1>4, Zenon DEF RegisterWithAs

(* POST /clients at the delivery service never meets a conflict: the       *)
(* authentication service has refused the second process of an identity.   *)
LEMMA RegisterDsKeepsSetup ==
  ASSUME FiniteFacts, SetupInv, NEW c \in Clients, RegisterWithDs(c)
  PROVE  SetupInv' /\ pc'[c] # "panicked"
<1>1. /\ UNCHANGED << credentials, peers, todo, peer_kps, group >>
      /\ pc[c] = "register_ds"
  BY Zenon DEF RegisterWithDs
<1>2. /\ Progress(c) /\ Registered(c) /\ ~HasGroup(c) /\ peer_kps[c] = {}
      /\ Identity[c] \notin DOMAIN clients
  BY <1>1, Zenon DEF SetupInv, Progress
<1>3. /\ clients' = MapInsert(clients, Identity[c], ClientInfo(KeyPackages(c)))
      /\ Goto(c, AfterRegistration(c))
  BY <1>2, Zenon DEF RegisterWithDs, DsConflict, register_client
<1>4. /\ pc'[c] = AfterRegistration(c) /\ DOMAIN pc' = Clients
      /\ \A d \in Clients \ {c} : pc'[d] = pc[d]
  BY <1>3, Zenon DEF Goto, SetupInv, SetupTypeOK
<1>5. /\ DOMAIN clients' = DOMAIN clients \cup {Identity[c]}
      /\ clients'[Identity[c]] = ClientInfo(KeyPackages(c))
      /\ \A id \in DOMAIN clients : clients'[id] = clients[id]
  BY <1>2, <1>3, Zenon DEF MapInsert
<1>6. \A d \in Clients : Registered(d)' <=> Registered(d)
  BY <1>1, Zenon DEF Registered, AsFound
<1>7. /\ Online(c)'
      /\ \A d \in Clients \ {c} : Online(d)' <=> Online(d)
  BY <1>2, <1>5, <1>6, SameOwner, Zenon DEF Online
<1>8. SetupTypeOK'
  BY <1>1, <1>4, Zenon DEF SetupInv, SetupTypeOK
<1>9. Directory'
  <2>1. Identity[c] \in DOMAIN credentials
    BY <1>2, Zenon DEF Registered, AsFound
  <2>2. IsFiniteSet(DOMAIN clients \cup {Identity[c]})
    BY Zenon DEF SetupInv, Directory, FiniteFacts
  <2> QED BY <1>1, <1>5, <2>1, <2>2, Zenon DEF SetupInv, Directory
<1>10. ASSUME NEW o \in Clients PROVE Stage(o)'
  <2>1. Stage(o)
    BY Zenon DEF SetupInv
  <2>2. CASE o # c
    BY <1>1, <1>5, <1>7, <2>1, <2>2, StageKept, Zenon DEF HasGroup, Online
  <2>3. CASE o = c
    <3>1. Fresh(c)
      BY <1>2, <2>1, <2>3, Zenon DEF Stage, Reserved, Welcomed, Joined, Info, Online
    <3>2. Info(c, KeyPackages(c), {}, << >>)'
      BY <1>5, <1>7, Zenon DEF Info, ClientInfo
    <3>3. Fresh(c)'
      BY <1>1, <3>1, <3>2, Zenon DEF Fresh, NotJoined, HasGroup
    <3> QED BY <2>3, <3>3, Zenon DEF Stage
  <2> QED BY <2>2, <2>3, Zenon
<1>11. ASSUME NEW d \in Clients PROVE Progress(d)'
  <2>1. Progress(d)
    BY Zenon DEF SetupInv
  <2>2. CASE d # c
    <3>1. pc[d] = "register_ds" =>
            (Identity[d] \in DOMAIN clients' <=> Identity[d] \in DOMAIN clients)
      <4>1. pc[d] = "register_ds" => Registered(d)
        BY <2>1, Zenon DEF Progress
      <4> QED BY <1>2, <1>5, <2>2, <4>1, SameOwner, Zenon
    <3> QED BY <1>1, <1>4, <1>6, <2>1, <2>2, <3>1, ProgressKept, Zenon
  <2>3. CASE d = c
    BY <1>1, <1>2, <1>4, <1>6, <2>3, Zenon DEF Progress, HasGroup, AfterRegistration
  <2> QED BY <2>2, <2>3, Zenon
<1>12. ASSUME NEW d \in Creators PROVE Formed(d)'
  <2>1. Formed(d) /\ d \in Clients
    BY Zenon DEF SetupInv, Clients
  <2> QED BY <1>1, <1>6, <2>1, FormedKept, Zenon
<1>13. pc'[c] # "panicked"
  BY <1>4, Zenon DEF AfterRegistration
<1> QED BY <1>8, <1>9, <1>10, <1>11, <1>12, <1>13, Zenon DEF SetupInv

(* GET /clients: all peers are to be fetched, in some order.               *)
LEMMA DiscoverKeepsSetup ==
  ASSUME FiniteFacts, SetupInv, NEW c \in Creators, Discover(c)
  PROVE  SetupInv' /\ pc'[c] # "panicked"
<1> DEFINE found == list_clients \ {Identity[c]}
<1>1. c \in Clients
  BY Zenon DEF Clients
<1>2. /\ UNCHANGED << credentials, clients, groups, peer_kps, group >>
      /\ pc[c] = "list" /\ EnoughPeers(found)
      /\ peers' = [peers EXCEPT ![c] = found]
      /\ Goto(c, "fetch")
  BY Zenon DEF Discover, dsVars
<1>3. PICK order \in [1 .. Cardinality(found) -> found] :
        /\ found = {order[i] : i \in DOMAIN order}
        /\ todo' = [todo EXCEPT ![c] = order]
  BY Zenon DEF Discover
<1>4. Progress(c) /\ Registered(c) /\ ~HasGroup(c) /\ peer_kps[c] = {}
  BY <1>1, <1>2, Zenon DEF SetupInv, Progress
<1>5. /\ pc'[c] = "fetch" /\ DOMAIN pc' = Clients /\ peers'[c] = found
      /\ todo'[c] = order
      /\ \A d \in Clients \ {c} : pc'[d] = pc[d] /\ peers'[d] = peers[d] /\ todo'[d] = todo[d]
  BY <1>1, <1>2, <1>3, Zenon DEF Goto, SetupInv, SetupTypeOK
<1>6. /\ Cardinality(found) \in Nat /\ Cardinality(found) > 0
  <2>1. IsFiniteSet(found)
    BY Zenon DEF SetupInv, Directory, list_clients, FiniteFacts
  <2>2. Cardinality(found) \in Nat
    BY <2>1, Zenon DEF FiniteFacts
  <2>3. Cardinality(found) >= NumSenders + NumReceivers
    BY <1>2, Zenon DEF EnoughPeers
  <2> QED BY <2>2, <2>3, GroupSetupAssumption
<1>7. found \subseteq {Identity[d] : d \in Clients}
  BY Zenon DEF SetupInv, Directory, list_clients
<1> HIDE DEF found
<1>8. /\ order \in Seq({Identity[d] : d \in Clients}) /\ order # << >>
      /\ Elements(order) = found
  <2>2. order \in [1 .. Cardinality(found) -> {Identity[d] : d \in Clients}]
    BY <1>7, Zenon
  <2>3. order \in Seq({Identity[d] : d \in Clients}) /\ order # << >>
    BY <1>6, <2>2
  <2>4. Elements(order) = found
    BY <1>3, Zenon DEF Elements
  <2> QED BY <2>3, <2>4, Zenon
<1>9. \A d \in Clients : /\ Registered(d)' <=> Registered(d)
                         /\ Online(d)' <=> Online(d)
                         /\ HasGroup(d)' <=> HasGroup(d)
  BY <1>2, Zenon DEF Registered, AsFound, Online, HasGroup
<1>10. SetupTypeOK'
  BY <1>1, <1>2, <1>3, <1>5, <1>8, Zenon DEF SetupInv, SetupTypeOK
<1>11. Directory'
  BY <1>2, Zenon DEF SetupInv, Directory
<1>12. ASSUME NEW o \in Clients PROVE Stage(o)'
  <2>1. Stage(o)
    BY Zenon DEF SetupInv
  <2> QED BY <1>2, <1>9, <2>1, StageKept, Zenon DEF HasGroup
<1>13. ASSUME NEW d \in Clients PROVE Progress(d)'
  <2>1. Progress(d)
    BY Zenon DEF SetupInv
  <2>2. CASE d # c
    BY <1>2, <1>5, <1>9, <2>1, <2>2, ProgressKept, Zenon
  <2>3. CASE d = c
    <3>1. Fetched(c)' = {}
      BY <1>2, <1>4, Zenon DEF Fetched
    <3> QED BY <1>2, <1>4, <1>5, <1>8, <1>9, <2>3, <3>1, Zenon DEF Progress
  <2> QED BY <2>2, <2>3, Zenon
<1>14. ASSUME NEW d \in Creators PROVE Formed(d)'
  <2>1. Formed(d) /\ d \in Clients
    BY Zenon DEF SetupInv, Clients
  <2>2. CASE d # c
    BY <1>2, <1>5, <1>9, <2>1, <2>2, FormedKept, Zenon
  <2>3. CASE d = c
    BY <1>4, <1>9, <2>1, <2>3, Zenon DEF Formed
  <2> QED BY <2>2, <2>3, Zenon
<1>15. pc'[c] # "panicked"
  BY <1>5, Zenon
<1> QED BY <1>10, <1>11, <1>12, <1>13, <1>14, <1>15, Zenon DEF SetupInv

(* Two fields of a client's record are replaced.                           *)
IsInfo(e) ==
  e = [key_packages |-> e.key_packages, reserved |-> e.reserved,
       welcome_queue |-> e.welcome_queue, msgs |-> e.msgs]

LEMMA SetKpsReserved ==
  ASSUME NEW e, IsInfo(e), NEW x, NEW y
  PROVE  [e EXCEPT !.key_packages = x, !.reserved = y] =
        [key_packages |-> x, reserved |-> y,
         welcome_queue |-> e.welcome_queue, msgs |-> e.msgs]
<1>1. PICK f : f = [e EXCEPT !.key_packages = x]
  BY Zenon
<1>2. f =
        [key_packages |-> x, reserved |-> e.reserved,
         welcome_queue |-> e.welcome_queue, msgs |-> e.msgs]
  BY <1>1, Zenon DEF IsInfo
<1>3. [f EXCEPT !.reserved = y] =
        [key_packages |-> x, reserved |-> y,
         welcome_queue |-> e.welcome_queue, msgs |-> e.msgs]
  BY <1>2
<1>4. [e EXCEPT !.key_packages = x, !.reserved = y] = [f EXCEPT !.reserved = y]
  BY <1>1, Zenon
<1> QED BY <1>3, <1>4, Zenon

LEMMA SetReservedQueue ==
  ASSUME NEW e, IsInfo(e), NEW x, NEW y
  PROVE  [e EXCEPT !.reserved = x, !.welcome_queue = y] =
        [key_packages |-> e.key_packages, reserved |-> x,
         welcome_queue |-> y, msgs |-> e.msgs]
<1>1. PICK f : f = [e EXCEPT !.reserved = x]
  BY Zenon
<1>2. f =
        [key_packages |-> e.key_packages, reserved |-> x,
         welcome_queue |-> e.welcome_queue, msgs |-> e.msgs]
  BY <1>1, Zenon DEF IsInfo
<1>3. [f EXCEPT !.welcome_queue = y] =
        [key_packages |-> e.key_packages, reserved |-> x,
         welcome_queue |-> y, msgs |-> e.msgs]
  BY <1>2
<1>4. [e EXCEPT !.reserved = x, !.welcome_queue = y] = [f EXCEPT !.welcome_queue = y]
  BY <1>1, Zenon
<1> QED BY <1>3, <1>4, Zenon

LEMMA SetQueueMsgs ==
  ASSUME NEW e, IsInfo(e), NEW x, NEW y
  PROVE  [e EXCEPT !.welcome_queue = x, !.msgs = y] =
        [key_packages |-> e.key_packages, reserved |-> e.reserved,
         welcome_queue |-> x, msgs |-> y]
<1>1. PICK f : f = [e EXCEPT !.welcome_queue = x]
  BY Zenon
<1>2. f =
        [key_packages |-> e.key_packages, reserved |-> e.reserved,
         welcome_queue |-> x, msgs |-> e.msgs]
  BY <1>1, Zenon DEF IsInfo
<1>3. [f EXCEPT !.msgs = y] =
        [key_packages |-> e.key_packages, reserved |-> e.reserved,
         welcome_queue |-> x, msgs |-> y]
  BY <1>2
<1>4. [e EXCEPT !.welcome_queue = x, !.msgs = y] = [f EXCEPT !.msgs = y]
  BY <1>1, Zenon
<1> QED BY <1>3, <1>4, Zenon

(* Sequences of the one value are told apart by their lengths.             *)
LEMMA OneValue ==
  ASSUME NEW a, NEW s \in Seq({a}), NEW t \in Seq({a}), Len(s) = Len(t)
  PROVE  s = t
<1>1. \A i \in 1 .. Len(s) : s[i] \in {a} /\ t[i] \in {a}
  OBVIOUS
<1>2. \A i \in 1 .. Len(s) : s[i] = t[i]
  BY <1>1, Zenon
<1> QED BY <1>2

LEMMA FirstOfTwo ==
  ASSUME NEW a, NEW b
  PROVE  SubSeq(<< a, b >>, 1, 1) = << a >>
<1>1. \A i \in 1 .. 1 : << a, b >>[i] \in {a}
  OBVIOUS
<1>2. /\ SubSeq(<< a, b >>, 1, 1) \in Seq({a})
      /\ Len(SubSeq(<< a, b >>, 1, 1)) = 1
  BY <1>1
<1>3. << a >> \in Seq({a}) /\ Len(<< a >>) = 1
  OBVIOUS
<1> QED BY <1>2, <1>3, OneValue, Zenon

(* GET /key_package: only a fresh client still has one to hand out, and it *)
(* is then reserved for this creator alone.                                *)
LEMMA FetchKeepsSetup ==
  ASSUME SetupInv, NEW c \in Creators, FetchKeyPackage(c)
  PROVE  SetupInv' /\ pc'[c] # "panicked"
<1> DEFINE peer == Head(todo[c])
<1>1. c \in Clients
  BY Zenon DEF Clients
<1>2. /\ UNCHANGED << credentials, groups, peers, todo, group >>
      /\ pc[c] = "fetch" /\ consume_kp(peer)
      /\ peer_kps' = [peer_kps EXCEPT ![c] = @ \cup {NextKeyPackage(peer)}]
      /\ Goto(c, "check")
  BY Zenon DEF FetchKeyPackage, consume_kp
<1>3. /\ Progress(c) /\ Registered(c) /\ ~HasGroup(c)
      /\ todo[c] # << >> /\ peers[c] = Elements(todo[c]) \cup Fetched(c)
  BY <1>1, <1>2, Zenon DEF SetupInv, Progress
<1>4. peer \in DOMAIN clients /\ Len(clients[peer].key_packages) > 1
  BY <1>2, Zenon DEF consume_kp
<1> HIDE DEF peer
<1>5. PICK o \in Clients : Identity[o] = peer /\ Online(o)
  BY <1>4, Zenon DEF SetupInv, Directory, Online, Registered, AsFound
<1>6. Fresh(o)
  <2>1. Stage(o)
    BY Zenon DEF SetupInv
  <2>2. ASSUME NEW res, NEW queue, Info(o, LastResort(o), res, queue) PROVE FALSE
    <3>1. clients[peer].key_packages = LastResort(o)
      BY <1>5, <2>2 DEF Info
    <3>2. Len(LastResort(o)) = 1
      BY Zenon DEF LastResort
    <3> QED BY <1>4, <3>1, <3>2
  <2> QED BY <2>1, <2>2, Zenon DEF Stage, Reserved, Welcomed, Joined
<1>7. clients[peer] = [key_packages |-> KeyPackages(o), reserved |-> {},
                       welcome_queue |-> << >>, msgs |-> << >>]
  BY <1>5, <1>6, Zenon DEF Fresh, Info
<1>8. /\ NextKeyPackage(peer) = Kp(o)
      /\ SubSeq(KeyPackages(o), 1, Len(KeyPackages(o)) - 1) = LastResort(o)
  <2>1. Len(KeyPackages(o)) = 2 /\ KeyPackages(o)[2] = Kp(o)
    BY Zenon DEF KeyPackages, Kp
  <2>2. SubSeq(KeyPackages(o), 1, 1) = LastResort(o)
    BY FirstOfTwo, Zenon DEF KeyPackages, LastResort
  <2>3. Len(KeyPackages(o)) - 1 = 1
    BY <2>1
  <2>4. clients[peer].key_packages = KeyPackages(o)
    BY <1>7
  <2>5. NextKeyPackage(peer) = Kp(o)
    BY <2>1, <2>4, Zenon DEF NextKeyPackage
  <2> QED BY <2>2, <2>3, <2>5, Zenon
<1>9. /\ DOMAIN clients' = DOMAIN clients
      /\ clients'[peer] = [key_packages |-> LastResort(o), reserved |-> {Kp(o)},
                           welcome_queue |-> << >>, msgs |-> << >>]
      /\ \A id \in DOMAIN clients \ {peer} : clients'[id] = clients[id]
  <2>1. clients' = [clients EXCEPT
           ![peer].key_packages = SubSeq(@, 1, Len(@) - 1),
           ![peer].reserved     = @ \cup {NextKeyPackage(peer)}]
    BY <1>2, Zenon DEF consume_kp
  <2>2. clients'[peer] = [clients[peer] EXCEPT !.key_packages = SubSeq(@, 1, Len(@) - 1),
                                               !.reserved = @ \cup {NextKeyPackage(peer)}]
    BY <1>4, <2>1, Zenon
  <2>3. clients'[peer] = [key_packages |-> SubSeq(KeyPackages(o), 1, Len(KeyPackages(o)) - 1),
                          reserved |-> {} \cup {NextKeyPackage(peer)},
                          welcome_queue |-> << >>, msgs |-> << >>]
    <3>1. clients[peer].key_packages = KeyPackages(o) /\ clients[peer].reserved = {}
      BY <1>7
    <3>2. \A x, y : [clients[peer] EXCEPT !.key_packages = x, !.reserved = y] =
                    [key_packages |-> x, reserved |-> y, welcome_queue |-> << >>, msgs |-> << >>]
      <4>1. IsInfo(clients[peer]) /\ clients[peer].welcome_queue = << >>
            /\ clients[peer].msgs = << >>
        BY <1>7 DEF IsInfo
      <4> QED BY <4>1, SetKpsReserved, Zenon
    <3>3. clients'[peer] =
            [clients[peer] EXCEPT
               !.key_packages = SubSeq(KeyPackages(o), 1, Len(KeyPackages(o)) - 1),
               !.reserved = {} \cup {NextKeyPackage(peer)}]
      BY <2>2, <3>1, Zenon
    <3> QED BY <3>2, <3>3, Zenon
  <2>4. {} \cup {NextKeyPackage(peer)} = {Kp(o)}
    BY <1>8, Zenon
  <2> QED BY <1>8, <2>1, <2>3, <2>4, Zenon
<1>10. /\ pc'[c] = "check" /\ DOMAIN pc' = Clients
       /\ peer_kps'[c] = peer_kps[c] \cup {Kp(o)}
       /\ \A d \in Clients \ {c} : pc'[d] = pc[d] /\ peer_kps'[d] = peer_kps[d]
  BY <1>1, <1>2, <1>8, Zenon DEF Goto, SetupInv, SetupTypeOK
<1>11. \A d \in Clients : /\ Registered(d)' <=> Registered(d)
                          /\ Online(d)' <=> Online(d)
                          /\ HasGroup(d)' <=> HasGroup(d)
  BY <1>2, <1>9, Zenon DEF Registered, AsFound, Online, HasGroup
<1>12. SetupTypeOK'
  BY <1>1, <1>2, <1>8, <1>10 DEF SetupInv, SetupTypeOK
<1>13. Directory'
  BY <1>2, <1>9, Zenon DEF SetupInv, Directory
<1>14. ASSUME NEW x \in Clients PROVE Stage(x)'
  <2>1. Stage(x)
    BY Zenon DEF SetupInv
  <2>2. CASE x = o
    <3>1. Claimed(o, c)'
      BY <1>1, <1>6, <1>10, Zenon DEF Claimed, Fresh
    <3>2. NotJoined(o)'
      BY <1>6, <1>11, Zenon DEF Fresh, NotJoined
    <3>3. Info(o, LastResort(o), {Kp(o)}, << >>)'
      BY <1>5, <1>9, <1>11, Zenon DEF Info
    <3>4. Reserved(o, c)'
      BY <1>1, <1>3, <1>11, <3>1, <3>2, <3>3, Zenon DEF Reserved
    <3> QED BY <2>2, <3>4, Zenon DEF Stage
  <2>3. CASE x # o
    <3>1. Kp(x) # Kp(o)
      BY <2>3, Zenon DEF Kp, generate_key_package
    <3>2. \A d \in Clients : Kp(x) \in peer_kps'[d] <=> Kp(x) \in peer_kps[d]
      BY <1>10, <3>1, Zenon
    <3>3. Online(x) => clients'[Identity[x]] = clients[Identity[x]]
      BY <1>5, <1>9, <2>3, SameOwner, Zenon DEF Online
    <3>4. \A d \in Creators : HasGroup(d) => group'[d] = group[d] /\ peer_kps'[d] = peer_kps[d]
      BY <1>2, <1>3, <1>10, Zenon DEF Clients
    <3>5. \A d \in Creators : ~HasGroup(d) => ~HasGroup(d)'
      BY <1>11, Zenon DEF Clients
    <3> QED BY <1>2, <1>11, <2>1, <3>2, <3>3, <3>4, <3>5, StageKept, Zenon
  <2> QED BY <2>2, <2>3, Zenon
<1>15. ASSUME NEW d \in Clients PROVE Progress(d)'
  <2>1. Progress(d)
    BY Zenon DEF SetupInv
  <2>2. CASE d # c
    BY <1>2, <1>9, <1>10, <1>11, <2>1, <2>2, ProgressKept, Zenon
  <2>3. CASE d = c
    <3>1. Fetched(c)' = Fetched(c) \cup {peer}
      <4>1. Kp(o).owner = o
        BY Zenon DEF Kp, generate_key_package
      <4> QED BY <1>5, <1>10, <4>1 DEF Fetched
    <3>2. peer \in Elements(todo[c])
      <4>1. todo[c] \in Seq({Identity[e] : e \in Clients})
        BY <1>1, Zenon DEF SetupInv, SetupTypeOK
      <4>2. 1 \in DOMAIN todo[c] /\ todo[c][1] = peer
        BY <1>3, <4>1 DEF peer
      <4> QED BY <4>2, Zenon DEF Elements
    <3>3. todo'[c] = todo[c] /\ peers'[c] = Elements(todo[c]) \cup Fetched(c)'
      BY <1>2, <1>3, <3>1, <3>2, Zenon
    <3>4. Head(todo'[c]) \in Fetched(c)'
      BY <3>1, <3>3, Zenon DEF peer
    <3> QED BY <1>3, <1>10, <1>11, <2>3, <3>3, <3>4, Zenon DEF Progress
  <2> QED BY <2>2, <2>3, Zenon
<1>16. ASSUME NEW d \in Creators PROVE Formed(d)'
  <2>1. Formed(d) /\ d \in Clients
    BY Zenon DEF SetupInv, Clients
  <2>2. CASE d # c
    BY <1>2, <1>10, <1>11, <2>1, <2>2, FormedKept, Zenon
  <2>3. CASE d = c
    BY <1>3, <1>11, <2>1, <2>3, Zenon DEF Formed
  <2> QED BY <2>2, <2>3, Zenon
<1>17. pc'[c] # "panicked"
  BY <1>10, Zenon
<1> QED BY <1>12, <1>13, <1>14, <1>15, <1>16, <1>17, Zenon DEF SetupInv

(* The first element and the rest make up a sequence.                      *)
LEMMA ElementsOfTail ==
  ASSUME NEW S, NEW q \in Seq(S), q # << >>
  PROVE  /\ Elements(q) = {Head(q)} \cup Elements(Tail(q))
         /\ Tail(q) \in Seq(S)
         /\ Len(q) > 1 <=> Tail(q) # << >>
<1>1. /\ Tail(q) \in Seq(S) /\ Len(Tail(q)) = Len(q) - 1
      /\ \A i \in 1 .. Len(Tail(q)) : Tail(q)[i] = q[i + 1]
  OBVIOUS
<1>2. /\ Len(q) \in Nat \ {0} /\ DOMAIN q = 1 .. Len(q)
      /\ DOMAIN Tail(q) = 1 .. Len(q) - 1
  BY <1>1
<1>3. Head(q) = q[1]
  BY <1>2
<1>4. \A i \in 1 .. Len(q) - 1 : i + 1 \in 1 .. Len(q) /\ Tail(q)[i] = q[i + 1]
  BY <1>1, <1>2
<1>5. \A i \in 1 .. Len(q) : i = 1 \/ (i - 1 \in 1 .. Len(q) - 1 /\ Tail(q)[i - 1] = q[i])
  <2> TAKE i \in 1 .. Len(q)
  <2>1. i = 1 \/ i - 1 \in 1 .. Len(q) - 1
    BY <1>2
  <2>2. (i - 1) + 1 = i
    OBVIOUS
  <2> QED BY <1>4, <2>1, <2>2, Zenon
<1>6. Elements(q) = {Head(q)} \cup Elements(Tail(q))
  <2>1. 1 \in DOMAIN q
    BY <1>2
  <2>2. Elements(q) = {q[i] : i \in 1 .. Len(q)} /\ Elements(Tail(q)) = {Tail(q)[i] : i \in 1 .. Len(q) - 1}
    BY <1>2, Zenon DEF Elements
  <2>3. ASSUME NEW x \in Elements(q) PROVE x = Head(q) \/ x \in Elements(Tail(q))
    <3>1. PICK i \in 1 .. Len(q) : x = q[i]
      BY <2>2, <2>3, Zenon
    <3>2. i = 1 \/ (i - 1 \in 1 .. Len(q) - 1 /\ Tail(q)[i - 1] = q[i])
      BY <1>5, Zenon
    <3> QED BY <1>3, <2>2, <3>1, <3>2, Zenon
  <2>4. ASSUME NEW x \in Elements(Tail(q)) PROVE x \in Elements(q)
    <3>1. PICK i \in 1 .. Len(q) - 1 : x = Tail(q)[i]
      BY <2>2, <2>4, Zenon
    <3>2. i + 1 \in 1 .. Len(q) /\ x = q[i + 1]
      BY <1>4, <3>1, Zenon
    <3> QED BY <2>2, <3>2, Zenon
  <2>5. Head(q) \in Elements(q)
    BY <1>2, <1>3, <2>1, <2>2, Zenon
  <2> QED BY <2>3, <2>4, <2>5, Zenon
<1>7. Len(q) > 1 <=> Tail(q) # << >>
  <2>1. Tail(q) # << >> => Len(Tail(q)) \in Nat \ {0}
    BY <1>1
  <2>2. PICK t \in Seq(S) : t = Tail(q)
    BY <1>1, Zenon
  <2>3. t = << >> => Len(t) = 0
    OBVIOUS
  <2>4. Len(Tail(q)) = Len(q) - 1 /\ Len(q) \in Nat \ {0}
    BY <1>1, <1>2, Zenon
  <2>5. CASE Tail(q) = << >>
    <3>1. Len(Tail(q)) = 0
      BY <2>2, <2>3, <2>5, Zenon
    <3>2. \A n \in Nat : 0 = n - 1 => ~(n > 1)
      OBVIOUS
    <3> QED BY <2>4, <2>5, <3>1, <3>2, Zenon
  <2>6. CASE Tail(q) # << >>
    BY <2>1, <2>4, <2>6
  <2> QED BY <2>5, <2>6, Zenon
<1> QED BY <1>1, <1>6, <1>7, Zenon

(* GET /lookup finds the key of the KeyPackage just fetched.               *)
LEMMA CheckKeepsSetup ==
  ASSUME SetupInv, NEW c \in Creators, CheckPeer(c)
  PROVE  SetupInv' /\ pc'[c] # "panicked"
<1> DEFINE peer == Head(todo[c])
<1>1. c \in Clients
  BY Zenon DEF Clients
<1>2. /\ UNCHANGED << credentials, clients, groups, peers, peer_kps, group >>
      /\ pc[c] = "check" /\ todo' = [todo EXCEPT ![c] = Tail(@)]
      /\ Goto(c, IF ~AsFound(peer, KeyOf(peer, peer_kps[c])) THEN "panicked"
                 ELSE IF Len(todo[c]) > 1 THEN "fetch" ELSE "welcome")
  BY Zenon DEF CheckPeer, dsVars
<1>3. /\ Progress(c) /\ Registered(c) /\ ~HasGroup(c)
      /\ todo[c] # << >> /\ peers[c] = Elements(todo[c]) \cup Fetched(c)
      /\ peer \in Fetched(c)
  BY <1>1, <1>2, Zenon DEF SetupInv, Progress
<1>4. AsFound(peer, KeyOf(peer, peer_kps[c]))
  <2>1. \E kp \in peer_kps[c] : Identity[kp.owner] = peer
    BY <1>3, Zenon DEF Fetched
  <2>2. PICK kp \in peer_kps[c] : Identity[kp.owner] = peer /\ KeyOf(peer, peer_kps[c]) = kp.owner
    BY <2>1, Zenon DEF KeyOf
  <2>3. Registered(kp.owner)
    BY <1>1, FetchedOwner, Zenon DEF Online
  <2> QED BY <2>2, <2>3, Zenon DEF Registered
<1>5. /\ todo[c] \in Seq({Identity[e] : e \in Clients})
      /\ Tail(todo[c]) \in Seq({Identity[e] : e \in Clients})
      /\ Elements(todo[c]) = {peer} \cup Elements(Tail(todo[c]))
      /\ Len(todo[c]) > 1 <=> Tail(todo[c]) # << >>
  <2>1. todo[c] \in Seq({Identity[e] : e \in Clients})
    BY <1>1, Zenon DEF SetupInv, SetupTypeOK
  <2> QED BY <1>3, <2>1, ElementsOfTail, Zenon
<1> HIDE DEF peer
<1>6. /\ pc'[c] = IF Len(todo[c]) > 1 THEN "fetch" ELSE "welcome"
      /\ DOMAIN pc' = Clients /\ todo'[c] = Tail(todo[c])
      /\ \A d \in Clients \ {c} : pc'[d] = pc[d] /\ todo'[d] = todo[d]
  BY <1>1, <1>2, <1>4, Zenon DEF Goto, SetupInv, SetupTypeOK
<1>7. \A d \in Clients : /\ Registered(d)' <=> Registered(d)
                         /\ Online(d)' <=> Online(d)
                         /\ HasGroup(d)' <=> HasGroup(d)
  BY <1>2, Zenon DEF Registered, AsFound, Online, HasGroup
<1>8. SetupTypeOK'
  BY <1>1, <1>2, <1>5, <1>6, Zenon DEF SetupInv, SetupTypeOK
<1>9. Directory'
  BY <1>2, Zenon DEF SetupInv, Directory
<1>10. ASSUME NEW o \in Clients PROVE Stage(o)'
  <2>1. Stage(o)
    BY Zenon DEF SetupInv
  <2> QED BY <1>2, <1>7, <2>1, StageKept, Zenon DEF HasGroup
<1>11. ASSUME NEW d \in Clients PROVE Progress(d)'
  <2>1. Progress(d)
    BY Zenon DEF SetupInv
  <2>2. CASE d # c
    BY <1>2, <1>6, <1>7, <2>1, <2>2, ProgressKept, Zenon
  <2>3. CASE d = c
    <3>1. Fetched(c)' = Fetched(c)
      BY <1>2, Zenon DEF Fetched
    <3>2. peers'[c] = Elements(Tail(todo[c])) \cup Fetched(c)
      BY <1>2, <1>3, <1>5, Zenon
    <3>3. CASE Len(todo[c]) > 1
      BY <1>3, <1>5, <1>6, <1>7, <2>3, <3>1, <3>2, <3>3, Zenon DEF Progress
    <3>4. CASE ~(Len(todo[c]) > 1)
      <4>1. Elements(Tail(todo[c])) = {}
        BY <1>5, <3>4 DEF Elements
      <4>2. peers'[c] = Fetched(c)'
        BY <3>1, <3>2, <4>1, Zenon
      <4> QED BY <1>3, <1>6, <1>7, <2>3, <3>4, <4>2, Zenon DEF Progress
    <3> QED BY <3>3, <3>4, Zenon
  <2> QED BY <2>2, <2>3, Zenon
<1>12. ASSUME NEW d \in Creators PROVE Formed(d)'
  <2>1. Formed(d) /\ d \in Clients
    BY Zenon DEF SetupInv, Clients
  <2> QED BY <1>2, <1>7, <2>1, FormedKept, Zenon
<1>13. pc'[c] # "panicked"
  BY <1>6, Zenon
<1> QED BY <1>8, <1>9, <1>10, <1>11, <1>12, <1>13, Zenon DEF SetupInv

(* verify_group_members never fails: all members are registered.           *)
LEMMA VerifyKeepsSetup ==
  ASSUME SetupInv, NEW c \in Clients, VerifyGroupMembers(c)
  PROVE  SetupInv' /\ pc'[c] # "panicked"
<1>1. /\ pc[c] = "verify"
      /\ UNCHANGED << credentials, dsVars, peers, todo, peer_kps, group >>
      /\ Goto(c, IF \A m \in group[c].members \ {c} : AsFound(Identity[m], m)
                   THEN AfterVerification(c) ELSE "panicked")
  BY Zenon DEF VerifyGroupMembers
<1>2. \A m \in group[c].members : AsFound(Identity[m], m)
  BY MembersRegistered, Zenon DEF Registered
<1>3. Goto(c, AfterVerification(c))
  BY <1>1, <1>2, Zenon
<1>4. Registered(c) /\ HasGroup(c)
  BY <1>1, Zenon DEF SetupInv, Progress
<1>5. /\ AfterVerification(c) \in {"send", "recv", "done"}
      /\ AfterVerification(c) # "done" => c \notin Creators
  BY Zenon DEF AfterVerification
<1>6. pc'[c] # "panicked"
  BY <1>3, <1>5, Zenon DEF Goto, SetupInv, SetupTypeOK
<1>7. SetupInv'
  BY <1>1, <1>3, <1>4, <1>5, MoveKeepsSetup, Zenon
<1> QED BY <1>6, <1>7, Zenon

LEMMA CrashKeepsSetup ==
  ASSUME SetupInv, NEW c \in Clients, Crash(c)
  PROVE  SetupInv' /\ pc'[c] # "panicked"
<1>1. SetupInv'
  BY MoveKeepsSetup, Zenon DEF Crash
<1>2. pc'[c] = "crashed"
  BY Zenon DEF Crash, Goto, SetupInv, SetupTypeOK
<1> QED BY <1>1, <1>2, Zenon

LEMMA AppendToOne ==
  ASSUME NEW a
  PROVE  Append(<< a >>, a) = << a, a >>
<1>1. << a >> \in Seq({a}) /\ Len(<< a >>) = 1 /\ << a >>[1] = a
  OBVIOUS
<1>2. /\ Append(<< a >>, a) \in Seq({a}) /\ Len(Append(<< a >>, a)) = 2
      /\ Append(<< a >>, a)[1] = a /\ Append(<< a >>, a)[2] = a
  BY <1>1
<1>3. << a, a >> \in Seq({a}) /\ Len(<< a, a >>) = 2
  OBVIOUS
<1> QED BY <1>2, <1>3, OneValue, Zenon

(* The Welcome is queued once for a set of one KeyPackage and not at all   *)
(* for none.                                                               *)
LEMMA QueuedOnce ==
  ASSUME FiniteFacts, NEW w
  PROVE  /\ \A x : << >> \o [i \in 1 .. Cardinality({x}) |-> w] = << w >>
         /\ \A S : \A q \in Seq(S) : q \o [i \in 1 .. Cardinality({}) |-> w] = q
<1>1. \A x : Cardinality({x}) = 1
  BY Zenon DEF FiniteFacts
<1>2. Cardinality({}) = 0
  BY Zenon DEF FiniteFacts
<1>3. [i \in 1 .. 1 |-> w] = << w >> /\ << w >> \in Seq({w})
  OBVIOUS
<1>4. [i \in 1 .. 0 |-> w] = << >>
  OBVIOUS
<1>5. << >> \o << w >> = << w >>
  BY <1>3
<1>6. \A S : \A q \in Seq(S) : q \o << >> = q
  OBVIOUS
<1> QED BY <1>1, <1>2, <1>3, <1>4, <1>5, <1>6, Zenon

(* POST /send_welcome: the Welcome reaches exactly the clients whose       *)
(* KeyPackages this creator fetched.                                       *)
LEMMA WelcomeKeepsSetup ==
  ASSUME FiniteFacts, SetupInv, NEW c \in Creators, SendWelcome(c)
  PROVE  SetupInv' /\ pc'[c] # "panicked"
<1> DEFINE new == add_members(MlsGroup_new(c), c, peer_kps[c])
           w == Welcome(new, peer_kps[c])
           for(id) == clients[id].reserved \cap peer_kps[c]
<1>1. c \in Clients
  BY Zenon DEF Clients
<1>2. /\ UNCHANGED << credentials, groups, peers, todo, peer_kps >>
      /\ pc[c] = "welcome"
      /\ group' = [group EXCEPT ![c] = new]
      /\ send_welcome(w)
      /\ Goto(c, "verify")
  BY Zenon DEF SendWelcome, send_welcome
<1>3. /\ Progress(c) /\ Registered(c) /\ ~HasGroup(c) /\ peers[c] = Fetched(c)
  BY <1>1, <1>2, Zenon DEF SetupInv, Progress
<1>4. new = [members |-> {c} \cup {kp.owner : kp \in peer_kps[c]}, history |-> << c, c >>]
  BY AppendToOne, Zenon DEF add_members, MlsGroup_new
<1>5. new # NoGroup
  <2>1. c \in new.members
    BY <1>4
  <2> QED BY <2>1 DEF NoGroup
<1>6. clients' = [id \in DOMAIN clients |->
        [clients[id] EXCEPT
           !.reserved      = @ \ for(id),
           !.welcome_queue = @ \o [i \in 1 .. Cardinality(for(id)) |-> w]]]
  BY <1>2, Zenon DEF send_welcome, Welcome
<1> HIDE DEF new
<1>7. /\ pc'[c] = "verify" /\ DOMAIN pc' = Clients
      /\ group'[c] = new /\ DOMAIN group' = Clients
      /\ \A d \in Clients \ {c} : pc'[d] = pc[d] /\ group'[d] = group[d]
      /\ DOMAIN clients' = DOMAIN clients
  BY <1>1, <1>2, <1>6, Zenon DEF Goto, SetupInv, SetupTypeOK
<1>8. \A d \in Clients : (Registered(d)' <=> Registered(d)) /\ (Online(d)' <=> Online(d))
  BY <1>2, <1>7, Zenon DEF Registered, AsFound, Online
<1>9. HasGroup(c)' /\ \A d \in Clients \ {c} : HasGroup(d)' <=> HasGroup(d)
  BY <1>5, <1>7, Zenon DEF HasGroup
<1> DEFINE queued(queue, kps) == queue \o [i \in 1 .. Cardinality(kps) |-> w]
<1>10. ASSUME NEW o \in Clients, NEW kps, NEW res, NEW queue, Info(o, kps, res, queue)
       PROVE  clients'[Identity[o]] =
                [key_packages |-> kps, reserved |-> res \ (res \cap peer_kps[c]),
                 welcome_queue |-> queued(queue, res \cap peer_kps[c]), msgs |-> << >>]
  <2> DEFINE e == clients[Identity[o]]
  <2>1. /\ Identity[o] \in DOMAIN clients
        /\ e = [key_packages |-> kps, reserved |-> res, welcome_queue |-> queue, msgs |-> << >>]
    BY <1>10, Zenon DEF Info, Online
  <2>2. IsInfo(e) /\ e.key_packages = kps /\ e.reserved = res /\ e.welcome_queue = queue
        /\ e.msgs = << >>
    BY <2>1 DEF IsInfo
  <2>3. clients'[Identity[o]] =
          [e EXCEPT !.reserved = e.reserved \ (e.reserved \cap peer_kps[c]),
                    !.welcome_queue =
                      e.welcome_queue \o [i \in 1 .. Cardinality(e.reserved \cap peer_kps[c]) |-> w]]
    BY <1>6, <2>1, Zenon
  <2> HIDE DEF e, w
  <2>4. clients'[Identity[o]] =
          [e EXCEPT !.reserved = res \ (res \cap peer_kps[c]),
                    !.welcome_queue =
                      queue \o [i \in 1 .. Cardinality(res \cap peer_kps[c]) |-> w]]
    BY <2>2, <2>3, Zenon
  <2>5. \A x, y : [e EXCEPT !.reserved = x, !.welcome_queue = y] =
                  [key_packages |-> kps, reserved |-> x, welcome_queue |-> y, msgs |-> << >>]
    BY <2>2, SetReservedQueue, Zenon
  <2> QED BY <2>4, <2>5, Zenon
<1> HIDE DEF queued
<1>11. ASSUME NEW o \in Clients, NEW kps, NEW res, NEW queue, Info(o, kps, res, queue),
              res \cap peer_kps[c] = {}, NEW S, queue \in Seq(S)
       PROVE  clients'[Identity[o]] = clients[Identity[o]]
  <2>1. queued(queue, {}) = queue
    BY <1>11, QueuedOnce, Zenon DEF queued
  <2>2. res \ {} = res
    BY Zenon
  <2>3. clients'[Identity[o]] =
          [key_packages |-> kps, reserved |-> res \ (res \cap peer_kps[c]),
           welcome_queue |-> queued(queue, res \cap peer_kps[c]), msgs |-> << >>]
    BY <1>10, <1>11
  <2> QED BY <1>11, <2>1, <2>2, <2>3, Zenon DEF Info
<1>12. SetupTypeOK'
  BY <1>2, <1>7, Zenon DEF SetupInv, SetupTypeOK
<1>13. Directory'
  BY <1>2, <1>7, Zenon DEF SetupInv, Directory
<1>14. ASSUME NEW o \in Clients PROVE Stage(o)'
  <2>1. Stage(o)
    BY Zenon DEF SetupInv
  <2>2. CASE Reserved(o, c)
    <3>1. {Kp(o)} \cap peer_kps[c] = {Kp(o)}
      BY <1>1, <2>2, Zenon DEF Reserved, Claimed
    <3>2. {Kp(o)} \ {Kp(o)} = {} /\ queued(<< >>, {Kp(o)}) = << w >>
      BY QueuedOnce, Zenon DEF queued
    <3>3. Info(o, LastResort(o), {Kp(o)}, << >>)
      BY <2>2, Zenon DEF Reserved
    <3> HIDE DEF w
    <3>4. clients'[Identity[o]] = [key_packages |-> LastResort(o), reserved |-> {},
                                   welcome_queue |-> << w >>, msgs |-> << >>]
      <4>1. clients'[Identity[o]] =
              [key_packages |-> LastResort(o), reserved |-> {Kp(o)} \ ({Kp(o)} \cap peer_kps[c]),
               welcome_queue |-> queued(<< >>, {Kp(o)} \cap peer_kps[c]), msgs |-> << >>]
        BY <1>10, <3>3
      <4> QED BY <3>1, <3>2, <4>1, Zenon
    <3>5. Online(o)'
      BY <1>8, <3>3, Zenon DEF Info
    <3>6. w = Welcome(group[c], peer_kps[c])'
      BY <1>2, <1>7, Zenon DEF w, Welcome
    <3>7. Claimed(o, c)' /\ NotJoined(o)'
      <4>1. Claimed(o, c)'
        BY <1>2, <2>2, Zenon DEF Reserved, Claimed
      <4>2. NotJoined(o)'
        BY <1>9, <2>2, Zenon DEF Reserved, NotJoined
      <4> QED BY <4>1, <4>2, Zenon
    <3>8. Info(o, LastResort(o), {}, << Welcome(group[c], peer_kps[c]) >>)'
      BY <3>4, <3>5, <3>6, Zenon DEF Info
    <3>9. Welcomed(o, c)'
      BY <1>9, <3>7, <3>8, Zenon DEF Welcomed
    <3> QED BY <3>9, Zenon DEF Stage
  <2>3. CASE ~Reserved(o, c)
    <3>1. Online(o) => clients'[Identity[o]] = clients[Identity[o]]
      <4> SUFFICES ASSUME Online(o) PROVE clients'[Identity[o]] = clients[Identity[o]]
        BY Zenon
      <4>1. << >> \in Seq({}) /\ {} \cap peer_kps[c] = {}
        OBVIOUS
      <4>2. CASE Fresh(o)
        BY <1>11, <4>1, <4>2, Zenon DEF Fresh
      <4>3. ASSUME NEW d \in Creators, Reserved(o, d)
            PROVE  clients'[Identity[o]] = clients[Identity[o]]
        <5>1. d # c
          BY <2>3, <4>3, Zenon
        <5>2. {Kp(o)} \cap peer_kps[c] = {}
          BY <1>1, <4>3, <5>1, Zenon DEF Reserved, Claimed
        <5> QED BY <1>11, <4>1, <4>3, <5>2, Zenon DEF Reserved
      <4>4. ASSUME NEW d \in Creators, Welcomed(o, d)
            PROVE  clients'[Identity[o]] = clients[Identity[o]]
        <5> DEFINE v == Welcome(group[d], peer_kps[d])
        <5>1. << v >> \in Seq({v})
          OBVIOUS
        <5> HIDE DEF v
        <5>2. Info(o, LastResort(o), {}, << v >>)
          BY <4>4, Zenon DEF Welcomed, v
        <5> QED BY <1>11, <4>1, <5>1, <5>2, Zenon
      <4>5. ASSUME NEW d \in Creators, Joined(o, d)
            PROVE  clients'[Identity[o]] = clients[Identity[o]]
        BY <1>11, <4>1, <4>5, Zenon DEF Joined
      <4> QED BY <2>1, <4>2, <4>3, <4>4, <4>5, Zenon DEF Stage
    <3>2. o \in Creators \/ group'[o] = group[o]
      BY <1>7, Zenon
    <3>3. \A d \in Creators : HasGroup(d) => group'[d] = group[d] /\ peer_kps'[d] = peer_kps[d]
      BY <1>2, <1>3, <1>7, Zenon DEF Clients
    <3>4. CASE ~Claimed(o, c)
      <4>1. \A d \in Creators : Claimed(o, d) /\ ~HasGroup(d) => ~HasGroup(d)'
        BY <1>9, <3>4, Zenon DEF Clients
      <4> QED BY <1>2, <1>8, <2>1, <3>1, <3>2, <3>3, <4>1, StageKept, Zenon
    <3>5. CASE Claimed(o, c)
      <4>1. Kp(o) \in peer_kps[c]
        BY <1>1, <3>5, Zenon DEF Claimed
      <4>2. PICK d \in Creators : Reserved(o, d) \/ Welcomed(o, d) \/ Joined(o, d)
        BY <1>1, <2>1, <4>1, Zenon DEF Stage, Fresh
      <4>3. Claimed(o, d) /\ (Reserved(o, d) \/ HasGroup(d))
        BY <4>2, Zenon DEF Reserved, Welcomed, Joined
      <4>4. d = c
        BY <1>1, <4>1, <4>3, Zenon DEF Claimed
      <4> QED BY <1>3, <2>3, <4>3, <4>4, Zenon
    <3> QED BY <3>4, <3>5, Zenon
  <2> QED BY <2>2, <2>3, Zenon
<1>15. ASSUME NEW d \in Clients PROVE Progress(d)'
  <2>1. Progress(d)
    BY Zenon DEF SetupInv
  <2>2. CASE d # c
    BY <1>2, <1>7, <1>8, <2>1, <2>2, ProgressKept, Zenon
  <2>3. CASE d = c
    BY <1>3, <1>7, <1>8, <1>9, <2>3, Zenon DEF Progress
  <2> QED BY <2>2, <2>3, Zenon
<1>16. ASSUME NEW d \in Creators PROVE Formed(d)'
  <2>1. Formed(d) /\ d \in Clients
    BY Zenon DEF SetupInv, Clients
  <2>2. CASE d # c
    BY <1>2, <1>7, <1>8, <2>1, <2>2, FormedKept, Zenon
  <2>3. CASE d = c
    <3>1. Fetched(c)' = Fetched(c)
      BY <1>2, Zenon DEF Fetched
    <3> QED BY <1>2, <1>3, <1>4, <1>7, <1>8, <2>1, <2>3, <3>1, Zenon DEF Formed
  <2> QED BY <2>2, <2>3, Zenon
<1>17. pc'[c] # "panicked"
  BY <1>7, Zenon
<1> QED BY <1>12, <1>13, <1>14, <1>15, <1>16, <1>17, Zenon DEF SetupInv

(* join_group: the one Welcome in the queue is that of the creator that    *)
(* fetched this client's KeyPackage.                                       *)
LEMMA JoinKeepsSetup ==
  ASSUME SetupInv, NEW c \in Clients, JoinGroup(c)
  PROVE  SetupInv' /\ pc'[c] # "panicked"
<1>1. /\ UNCHANGED << credentials, groups, peers, todo, peer_kps >>
      /\ pc[c] = "poll" /\ Queued(Identity[c]) # << >> /\ msg_recv(Identity[c])
  BY Zenon DEF JoinGroup, msg_recv
<1>2. Progress(c) /\ Registered(c) /\ ~HasGroup(c) /\ c \notin Creators /\ peer_kps[c] = {}
  BY <1>1, Zenon DEF SetupInv, Progress
<1>3. Identity[c] \in DOMAIN clients /\ Online(c)
  BY <1>1, <1>2, Zenon DEF msg_recv, Online
<1>4. ASSUME NEW kps, NEW res, Info(c, kps, res, << >>) PROVE FALSE
  <2>1. clients[Identity[c]].welcome_queue = << >> /\ clients[Identity[c]].msgs = << >>
    BY <1>4 DEF Info
  <2>2. << >> \o << >> = << >>
    OBVIOUS
  <2> QED BY <1>1, <2>1, <2>2, Zenon DEF Queued
<1>5. PICK d \in Creators : Welcomed(c, d)
  <2>1. Stage(c)
    BY Zenon DEF SetupInv
  <2>2. \A d \in Creators : ~Joined(c, d)
    BY <1>2, Zenon DEF Joined, HasGroup
  <2> QED BY <1>3, <1>4, <2>1, <2>2, Zenon DEF Stage, Fresh, Reserved
<1>6. d \in Clients /\ d # c /\ HasGroup(d) /\ Kp(c) \in peer_kps[d]
  BY <1>2, <1>5, Zenon DEF Welcomed, Claimed, Clients
<1> DEFINE w == Welcome(group[d], peer_kps[d])
           e == clients[Identity[c]]
<1>7. e = [key_packages |-> LastResort(c), reserved |-> {},
           welcome_queue |-> << w >>, msgs |-> << >>]
  BY <1>5, Zenon DEF Welcomed, Info
<1> HIDE DEF w, e
<1>8. Head(Queued(Identity[c])) = w
  <2>1. << w >> \in Seq({w}) /\ Head(<< w >>) = w
    OBVIOUS
  <2>2. << w >> \o << >> = << w >>
    BY <2>1
  <2>3. e.welcome_queue = << w >> /\ e.msgs = << >>
    BY <1>7, Zenon
  <2> QED BY <2>1, <2>2, <2>3, Zenon DEF Queued, e
<1>9. CanJoin(w, c) /\ w.group = group[d]
  <2>1. Kp(c).owner = c
    BY Zenon DEF Kp, generate_key_package
  <2> QED BY <1>6, <2>1, Zenon DEF CanJoin, Welcome, w
<1>10. group' = [group EXCEPT ![c] = group[d]] /\ Goto(c, "verify")
  BY <1>8, <1>9, Zenon DEF JoinGroup
<1>11. /\ pc'[c] = "verify" /\ DOMAIN pc' = Clients
       /\ group'[c] = group[d] /\ DOMAIN group' = Clients
       /\ \A x \in Clients \ {c} : pc'[x] = pc[x] /\ group'[x] = group[x]
  BY <1>10, Zenon DEF Goto, SetupInv, SetupTypeOK
<1>12. /\ DOMAIN clients' = DOMAIN clients
       /\ clients'[Identity[c]] = [key_packages |-> LastResort(c), reserved |-> {},
                                   welcome_queue |-> << >>, msgs |-> << >>]
       /\ \A id \in DOMAIN clients \ {Identity[c]} : clients'[id] = clients[id]
  <2>1. clients' = [clients EXCEPT ![Identity[c]].welcome_queue = << >>,
                                   ![Identity[c]].msgs = << >>]
    BY <1>1, Zenon DEF msg_recv
  <2>2. clients'[Identity[c]] = [e EXCEPT !.welcome_queue = << >>, !.msgs = << >>]
    BY <1>3, <2>1, Zenon DEF e
  <2>3. IsInfo(e) /\ e.key_packages = LastResort(c) /\ e.reserved = {}
    BY <1>7, Zenon DEF IsInfo
  <2>4. \A x, y : [e EXCEPT !.welcome_queue = x, !.msgs = y] =
                  [key_packages |-> LastResort(c), reserved |-> {},
                   welcome_queue |-> x, msgs |-> y]
    <3>1. \A x, y : [e EXCEPT !.welcome_queue = x, !.msgs = y] =
                    [key_packages |-> e.key_packages, reserved |-> e.reserved,
                     welcome_queue |-> x, msgs |-> y]
      BY <2>3, SetQueueMsgs, Zenon
    <3> QED BY <2>3, <3>1, Zenon
  <2>5. clients'[Identity[c]] = [key_packages |-> LastResort(c), reserved |-> {},
                                 welcome_queue |-> << >>, msgs |-> << >>]
    BY <2>2, <2>4, Zenon
  <2> QED BY <2>1, <2>5, Zenon
<1>13. \A x \in Clients : (Registered(x)' <=> Registered(x)) /\ (Online(x)' <=> Online(x))
  BY <1>1, <1>12, Zenon DEF Registered, AsFound, Online
<1>14. HasGroup(c)' /\ \A x \in Clients \ {c} : HasGroup(x)' <=> HasGroup(x)
  BY <1>6, <1>11, Zenon DEF HasGroup
<1>15. SetupTypeOK'
  BY <1>1, <1>11, Zenon DEF SetupInv, SetupTypeOK
<1>16. Directory'
  BY <1>1, <1>12, Zenon DEF SetupInv, Directory
<1>17. ASSUME NEW o \in Clients PROVE Stage(o)'
  <2>1. Stage(o)
    BY Zenon DEF SetupInv
  <2>2. CASE o = c
    <3>1. Claimed(c, d)'
      BY <1>1, <1>5, Zenon DEF Welcomed, Claimed
    <3>2. group'[c] = group'[d]
      BY <1>6, <1>11, Zenon
    <3>3. Info(c, LastResort(c), {}, << >>)'
      BY <1>3, <1>12, <1>13, Zenon DEF Info
    <3>4. Joined(c, d)'
      BY <1>2, <1>6, <1>14, <3>1, <3>2, <3>3, Zenon DEF Joined
    <3> QED BY <2>2, <3>4, Zenon DEF Stage
  <2>3. CASE o # c
    <3>1. Online(o) => clients'[Identity[o]] = clients[Identity[o]]
      BY <1>2, <1>12, <2>3, SameOwner, Zenon DEF Online
    <3>2. \A x \in Creators : HasGroup(x) => group'[x] = group[x] /\ peer_kps'[x] = peer_kps[x]
      BY <1>1, <1>2, <1>11, Zenon DEF Clients
    <3>3. \A x \in Creators : ~HasGroup(x) => ~HasGroup(x)'
      BY <1>2, <1>14, Zenon DEF Clients
    <3> QED BY <1>1, <1>11, <1>13, <2>1, <2>3, <3>1, <3>2, <3>3, StageKept, Zenon
  <2> QED BY <2>2, <2>3, Zenon
<1>18. ASSUME NEW x \in Clients PROVE Progress(x)'
  <2>1. Progress(x)
    BY Zenon DEF SetupInv
  <2>2. CASE x # c
    BY <1>1, <1>11, <1>12, <1>13, <2>1, <2>2, ProgressKept, Zenon
  <2>3. CASE x = c
    BY <1>1, <1>2, <1>11, <1>13, <1>14, <2>3, Zenon DEF Progress
  <2> QED BY <2>2, <2>3, Zenon
<1>19. ASSUME NEW x \in Creators PROVE Formed(x)'
  <2>1. Formed(x) /\ x \in Clients /\ x # c
    BY <1>2, Zenon DEF SetupInv, Clients
  <2> QED BY <1>1, <1>11, <1>13, <2>1, FormedKept, Zenon
<1>20. pc'[c] # "panicked"
  BY <1>11, Zenon
<1> QED BY <1>15, <1>16, <1>17, <1>18, <1>19, <1>20, Zenon DEF SetupInv

(* Every step of a client, and what it leaves alone: the groups others     *)
(* have, their place in the program, and the registered identities.        *)
LEMMA StepKeepsSetup ==
  ASSUME FiniteFacts, SetupInv, NEW c \in Clients, Step(c) \/ Crash(c)
  PROVE  /\ SetupInv'
         /\ pc'[c] = "panicked" => AsConflict(Identity[c]) /\ ~Registered(c)
<1>1. Progress(c)
  BY Zenon DEF SetupInv
<1>2. CASE RegisterWithAs(c)
  BY <1>2, RegisterAsKeepsSetup, Zenon
<1>3. CASE RegisterWithDs(c)
  BY <1>3, RegisterDsKeepsSetup, Zenon
<1>4. CASE Discover(c)
  <2>1. c \in Creators
    BY <1>1, <1>4, Zenon DEF Discover, Progress
  <2> QED BY <1>4, <2>1, DiscoverKeepsSetup, Zenon
<1>5. CASE FetchKeyPackage(c)
  <2>1. c \in Creators
    BY <1>1, <1>5, Zenon DEF FetchKeyPackage, Progress
  <2> QED BY <1>5, <2>1, FetchKeepsSetup, Zenon
<1>6. CASE CheckPeer(c)
  <2>1. c \in Creators
    BY <1>1, <1>6, Zenon DEF CheckPeer, Progress
  <2> QED BY <1>6, <2>1, CheckKeepsSetup, Zenon
<1>7. CASE SendWelcome(c)
  <2>1. c \in Creators
    BY <1>1, <1>7, Zenon DEF SendWelcome, Progress
  <2> QED BY <1>7, <2>1, WelcomeKeepsSetup, Zenon
<1>8. CASE JoinGroup(c)
  BY <1>8, JoinKeepsSetup, Zenon
<1>9. CASE VerifyGroupMembers(c)
  BY <1>9, VerifyKeepsSetup, Zenon
<1>10. CASE Crash(c)
  BY <1>10, CrashKeepsSetup, Zenon
<1> QED BY <1>2, <1>3, <1>4, <1>5, <1>6, <1>7, <1>8, <1>9, <1>10, Zenon DEF Step

LEMMA StepMovesOne ==
  ASSUME SetupInv, NEW c \in Clients, Step(c) \/ Crash(c)
  PROVE  \A d \in Clients \ {c} : pc'[d] = pc[d]
<1>1. \E step : Goto(c, step)
  BY Zenon DEF Step, Crash, RegisterWithAs, RegisterWithDs, Discover, FetchKeyPackage,
         CheckPeer, SendWelcome, JoinGroup, VerifyGroupMembers
<1> QED BY <1>1, Zenon DEF Goto, SetupInv, SetupTypeOK

LEMMA CredentialsGrow ==
  ASSUME NEW c \in Clients, Step(c) \/ Crash(c)
  PROVE  \A id \in DOMAIN credentials :
           id \in DOMAIN credentials' /\ credentials'[id] = credentials[id]
<1>1. CASE RegisterWithAs(c)
  BY <1>1, Zenon DEF RegisterWithAs, AsRegister, AsConflict, MapInsert
<1>2. CASE UNCHANGED credentials
  BY <1>2, Zenon
<1> QED BY <1>1, <1>2, Zenon DEF Step, Crash, RegisterWithDs, Discover, FetchKeyPackage,
      CheckPeer, SendWelcome, JoinGroup, VerifyGroupMembers

LEMMA SetupUnchanged ==
  ASSUME SetupInv, UNCHANGED setupVars
  PROVE  SetupInv'
<1>1. UNCHANGED << credentials, clients, groups, pc, peers, todo, peer_kps, group >>
  BY Zenon DEF setupVars, dsVars, clientVars
<1>2. SetupTypeOK' /\ Directory'
  BY <1>1, Zenon DEF SetupInv, SetupTypeOK, Directory
<1>3. ASSUME NEW c \in Clients PROVE Stage(c)'
  <2>1. Stage(c)
    BY Zenon DEF SetupInv
  <2>2. Online(c)' <=> Online(c)
    BY <1>1, Zenon DEF Online, Registered, AsFound
  <2>3. \A d \in Creators : ~HasGroup(d) => ~HasGroup(d)'
    BY <1>1, Zenon DEF HasGroup
  <2> QED BY <1>1, <2>1, <2>2, <2>3, StageKept, Zenon
<1>4. \A c \in Clients : Progress(c)'
  BY <1>1, Zenon DEF SetupInv, Progress, Registered, AsFound, HasGroup, Fetched
<1>5. \A c \in Creators : Formed(c)'
  BY <1>1, Zenon DEF SetupInv, Formed, Registered, AsFound, HasGroup, Fetched
<1> QED BY <1>2, <1>3, <1>4, <1>5, Zenon DEF SetupInv

LEMMA InvKeyPackageOnce ==
  ASSUME SetupInv
  PROVE  KeyPackageOnce
<1> SUFFICES ASSUME NEW c \in Creators, NEW d \in Creators, c # d,
                    NEW kp \in peer_kps[c] \cap peer_kps[d]
             PROVE  FALSE
  BY Zenon DEF KeyPackageOnce
<1>1. c \in Clients /\ d \in Clients
  BY Zenon DEF Clients
<1>2. Claimed(kp.owner, c) /\ Claimed(kp.owner, d) /\ kp = Kp(kp.owner)
  BY <1>1, FetchedOwner, Zenon
<1> QED BY <1>1, <1>2, Zenon DEF Claimed

(* Members that have a group have the same one, and hence the same keys.   *)
LEMMA InvMembersShare ==
  ASSUME SetupInv
  PROVE  MembersShareTheGroup
<1>1. ASSUME NEW d \in Creators, HasGroup(d), NEW p \in group[d].members \ Creators, HasGroup(p)
      PROVE  group[p] = group[d]
  <2>1. d \in Clients /\ Formed(d)
    BY Zenon DEF SetupInv, Clients
  <2>2. PICK kp \in peer_kps[d] : p = kp.owner
    BY <1>1, <2>1 DEF Formed
  <2>3. p \in Clients /\ Claimed(p, d)
    BY <2>1, <2>2, FetchedOwner, Zenon
  <2>4. PICK x \in Creators : Joined(p, x)
    BY <1>1, <2>3, JoinedFrom, Zenon
  <2>5. x = d
    BY <2>1, <2>3, <2>4, Zenon DEF Joined, Claimed, Clients
  <2> QED BY <2>4, <2>5, Zenon DEF Joined
<1>2. SUFFICES ASSUME NEW c \in Clients, NEW p \in group[c].members \ Creators, HasGroup(p)
               PROVE  group[p] = group[c]
  BY Zenon DEF MembersShareTheGroup
<1>3. HasGroup(c)
  BY <1>2 DEF HasGroup, NoGroup
<1>4. CASE c \in Creators
  BY <1>1, <1>2, <1>3, <1>4, Zenon
<1>5. CASE c \notin Creators
  <2>1. PICK d \in Creators : Joined(c, d)
    BY <1>3, <1>5, JoinedFrom, Zenon
  <2>2. HasGroup(d) /\ group[c] = group[d]
    BY <2>1, Zenon DEF Joined
  <2> QED BY <1>1, <1>2, <2>2, Zenon
<1> QED BY <1>4, <1>5, Zenon

LEMMA InvPeersWelcomed ==
  ASSUME SetupInv
  PROVE  EveryPeerIsWelcomed
<1> SUFFICES ASSUME NEW c \in Creators, HasGroup(c)
    PROVE  /\ {Identity[m] : m \in group[c].members} = peers[c] \cup {Identity[c]}
           /\ \A p \in group[c].members \ {c} :
                \/ \E i \in 1 .. Len(clients[Identity[p]].welcome_queue) :
                     clients[Identity[p]].welcome_queue[i].group = group[c]
                \/ group[p] = group[c]
  BY Zenon DEF EveryPeerIsWelcomed
<1>1. c \in Clients /\ Formed(c)
  BY Zenon DEF SetupInv, Clients
<1>2. /\ group[c].members = {c} \cup {kp.owner : kp \in peer_kps[c]}
      /\ peers[c] = {Identity[kp.owner] : kp \in peer_kps[c]}
  BY <1>1 DEF Formed, Fetched
<1>3. {Identity[m] : m \in group[c].members} = peers[c] \cup {Identity[c]}
  BY <1>2
<1>4. ASSUME NEW p \in group[c].members \ {c}
      PROVE  \/ \E i \in 1 .. Len(clients[Identity[p]].welcome_queue) :
                  clients[Identity[p]].welcome_queue[i].group = group[c]
             \/ group[p] = group[c]
  <2>1. PICK kp \in peer_kps[c] : p = kp.owner
    BY <1>2, Zenon
  <2>2. p \in Clients /\ Claimed(p, c) /\ Kp(p) \in peer_kps[c]
    BY <1>1, <2>1, FetchedOwner, Zenon
  <2>3. PICK d \in Creators : Reserved(p, d) \/ Welcomed(p, d) \/ Joined(p, d)
    BY <1>1, <2>2, Zenon DEF SetupInv, Stage, Fresh
  <2>4. d = c
    BY <1>1, <2>2, <2>3, Zenon DEF Reserved, Welcomed, Joined, Claimed, Clients
  <2>5. CASE Welcomed(p, c)
    <3> DEFINE w == Welcome(group[c], peer_kps[c])
    <3>1. clients[Identity[p]].welcome_queue = << w >>
      BY <2>5 DEF Welcomed, Info
    <3>2. Len(<< w >>) = 1 /\ << w >>[1] = w
      BY Zenon
    <3>3. w.group = group[c]
      BY Zenon DEF Welcome
    <3> HIDE DEF w
    <3>4. /\ 1 \in 1 .. Len(clients[Identity[p]].welcome_queue)
          /\ clients[Identity[p]].welcome_queue[1].group = group[c]
      BY <3>1, <3>2, <3>3
    <3> QED BY <3>4, Zenon
  <2> QED BY <2>3, <2>4, <2>5, Zenon DEF Reserved, Joined
<1> QED BY <1>3, <1>4, Zenon
=============================================================================
