----------------------------- MODULE DemoProofs -----------------------------
(***************************************************************************)
(* Theorems about GroupSetup and DemoMedia, for any number of processes,   *)
(* identities and SSRCs, crashes and copies of packets, and every replay   *)
(* window: the set-up loses and mixes up nothing, the media part plays     *)
(* every packet at most once, and no packet of the group stops a receiver. *)
(***************************************************************************)
EXTENDS DemoMedia, SetupLemmas, RdbxProofs

(* The steps late in a long module need more than the provers' default time. *)
USE SMTT(60)

-----------------------------------------------------------------------------
(***************************************************************************)
(* The invariant of the media part.                                        *)
(***************************************************************************)

Opened(r) ==
  /\ HasGroup(r)
  /\ DOMAIN sessions[r] = {ssrc_from_identity(id) : id \in sender_identities(r)}
  /\ \A x \in DOMAIN sessions[r] :
       /\ sessions[r][x] \in [key : {export_srtp_keys(group[r], x)}, rdbx : RdbxTypes]
       /\ sessions[r][x].rdbx.index <= Packets

PlayedSeen(r) ==
  \A k \in 1 .. Len(played[r]) :
    LET s == played[r][k][1]
    IN  my_ssrc(s) \in DOMAIN sessions[r] /\ Seen(sessions[r][my_ssrc(s)].rdbx, played[r][k][2])

SentBy(s, i) == s \in Senders /\ HasGroup(s) /\ i \in 1 .. Packets /\ i < next_i[s]

MediaTypeOK ==
  /\ next_i \in [Senders -> 1 .. Packets + 1]
  /\ DOMAIN sessions = Receivers /\ DOMAIN pending = Receivers
  /\ played \in [Receivers -> Seq(Senders \X (1 .. Packets))]

(* What is under way to a receiver was sent; a receiver that listens has a *)
(* session for every sender of its group, which has seen all it played;    *)
(* and nothing is played before it listens.                                *)
PendingSent(r) ==
  \A p \in DOMAIN pending[r] : \E s \in Senders, i \in 1 .. Packets :
    SentBy(s, i) /\ p = Packet(s, i)

AfterListen == {"listen", "done", "panicked", "crashed"}

ReceiverInv(r) ==
  /\ PendingSent(r)
  /\ pc[r] = "listen" => Opened(r) /\ PlayedSeen(r)
  /\ played[r] # << >> => pc[r] \in AfterListen

MediaInv ==
  /\ SetupInv
  /\ MediaTypeOK
  /\ \A r \in Receivers : ReceiverInv(r)
  /\ PlayedOnce

-----------------------------------------------------------------------------
(***************************************************************************)
(* Groups and keys.                                                        *)
(***************************************************************************)
(* A client's group is its creator's, and lists the client.                *)
LEMMA GroupOfCreator ==
  ASSUME SetupInv, NEW a \in Clients, HasGroup(a)
  PROVE  \E d \in Creators : /\ HasGroup(d) /\ group[a] = group[d]
                             /\ group[a].history = << d, d >>
                             /\ a \in group[a].members
<1>1. ASSUME NEW d \in Creators, HasGroup(d)
      PROVE  /\ group[d].members = {d} \cup {kp.owner : kp \in peer_kps[d]}
             /\ group[d].history = << d, d >>
  <2>1. Formed(d)
    BY Zenon DEF SetupInv
  <2> QED BY <1>1, <2>1 DEF Formed
<1>2. CASE a \in Creators
  BY <1>1, <1>2, Zenon
<1>3. CASE a \notin Creators
  <2>1. PICK d \in Creators : Joined(a, d)
    BY <1>3, JoinedFrom, Zenon
  <2>2. HasGroup(d) /\ group[a] = group[d] /\ Claimed(a, d) /\ d \in Clients
    BY <2>1, Zenon DEF Joined, Clients
  <2>3. Kp(a) \in peer_kps[d] /\ Kp(a).owner = a
    BY <2>2, Zenon DEF Claimed, Kp, generate_key_package
  <2> QED BY <1>1, <2>2, <2>3, Zenon
<1> QED BY <1>2, <1>3, Zenon

(* Two groups with the same commits are the same.                          *)
LEMMA SameHistorySameGroup ==
  ASSUME SetupInv, NEW a \in Clients, NEW b \in Clients, HasGroup(a), HasGroup(b),
         group[a].history = group[b].history
  PROVE  group[a] = group[b] /\ a \in group[b].members
<1>1. PICK d \in Creators : /\ group[a] = group[d] /\ group[a].history = << d, d >>
                            /\ a \in group[a].members
  BY GroupOfCreator, Zenon
<1>2. PICK e \in Creators : group[b] = group[e] /\ group[b].history = << e, e >>
  BY GroupOfCreator, Zenon
<1>3. d = e
  BY <1>1, <1>2
<1> QED BY <1>1, <1>2, <1>3, Zenon

(* Equal keys are of the same group and SSRC.                              *)
LEMMA SameKey ==
  ASSUME NEW g, NEW h, NEW x, NEW y, export_srtp_keys(g, x) = export_srtp_keys(h, y)
  PROVE  g.history = h.history /\ x = y
<1>1. export_srtp_keys(g, x)[1] = export_srtp_keys(h, y)[1]
  BY Zenon
<1> QED BY <1>1, Zenon DEF export_srtp_keys, export_secret, build_exporter_context

(* A process leaves the groups of all that have one alone.                 *)
LEMMA GroupsKept ==
  ASSUME SetupInv, NEW c \in Clients, Step(c) \/ Crash(c)
  PROVE  \A d \in Clients : HasGroup(d) => group'[d] = group[d]
<1>1. Progress(c) /\ DOMAIN group = Clients
  BY Zenon DEF SetupInv, SetupTypeOK
<1>2. CASE SendWelcome(c)
  <2>1. ~HasGroup(c)
    BY <1>1, <1>2, Zenon DEF SendWelcome, Progress
  <2>2. \E new : group' = [group EXCEPT ![c] = new]
    BY <1>2, Zenon DEF SendWelcome
  <2> QED BY <1>1, <2>1, <2>2, Zenon
<1>3. CASE JoinGroup(c)
  <2>1. ~HasGroup(c)
    BY <1>1, <1>3, Zenon DEF JoinGroup, Progress
  <2>2. UNCHANGED group \/ \E new : group' = [group EXCEPT ![c] = new]
    BY <1>3, Zenon DEF JoinGroup
  <2> QED BY <1>1, <2>1, <2>2, Zenon
<1>4. CASE UNCHANGED group
  BY <1>4, Zenon
<1> QED BY <1>2, <1>3, <1>4, Zenon DEF Step, Crash, RegisterWithAs, RegisterWithDs, Discover,
      FetchKeyPackage, CheckPeer, VerifyGroupMembers

-----------------------------------------------------------------------------
(***************************************************************************)
(* The media part, step by step.                                           *)
(***************************************************************************)
LEMMA MediaInitInv ==
  ASSUME FiniteFacts, MediaInit
  PROVE  MediaInv
<1>1. SetupInv
  BY SetupInit, Zenon DEF MediaInit
<1>2. \A r \in Receivers : /\ played[r] = << >> /\ DOMAIN pending[r] = {}
                           /\ pc[r] = "register_as"
  BY Zenon DEF MediaInit, Init, EmptyMap, Clients
<1>3. MediaTypeOK
  <2>1. << >> \in Seq(Senders \X (1 .. Packets))
    OBVIOUS
  <2> QED BY <2>1, MediaAssumption DEF MediaInit, MediaTypeOK
<1>4. PlayedOnce
  <2>1. Len(<< >>) = 0 /\ 1 .. 0 = {}
    OBVIOUS
  <2>2. \A r \in Receivers : 1 .. Len(played[r]) = {}
    BY <1>2, <2>1, Zenon
  <2> QED BY <2>2, Zenon DEF PlayedOnce
<1>5. \A r \in Receivers : ReceiverInv(r)
  BY <1>2, Zenon DEF ReceiverInv, PendingSent
<1> QED BY <1>1, <1>3, <1>4, <1>5, Zenon DEF MediaInv

(* A receiver that played something has a group.                           *)
LEMMA PlayedHasGroup ==
  ASSUME MediaInv, NEW r \in Receivers, played[r] # << >>
  PROVE  HasGroup(r)
<1>1. played[r] \in Seq(Senders \X (1 .. Packets))
  BY Zenon DEF MediaInv, MediaTypeOK
<1>2. 1 \in 1 .. Len(played[r])
  BY <1>1
<1>3. played[r][1][1] \in group[r].members
  BY <1>2, Zenon DEF MediaInv, PlayedOnce
<1> QED BY <1>3 DEF HasGroup, NoGroup

(* What was sent stays sent.                                               *)
LEMMA SentStays ==
  ASSUME MediaInv, NEW s \in Senders, NEW i \in 1 .. Packets, SentBy(s, i),
         HasGroup(s) => group'[s] = group[s],
         next_i'[s] >= next_i[s], next_i'[s] \in Int
  PROVE  SentBy(s, i)' /\ Packet(s, i)' = Packet(s, i)
<1>1. HasGroup(s) /\ group'[s] = group[s] /\ i < next_i[s] /\ next_i[s] \in Int
  BY DEF SentBy, MediaInv, MediaTypeOK
<1>2. SentBy(s, i)'
  BY <1>1 DEF SentBy, HasGroup
<1> QED BY <1>1, <1>2, Zenon DEF Packet, my_ssrc

(* A session and the played packets depend only on the receiver's own part *)
(* of the state.                                                           *)
LEMMA OpenedKept ==
  ASSUME NEW r \in Receivers, Opened(r), PlayedSeen(r),
         group'[r] = group[r], sessions'[r] = sessions[r], played'[r] = played[r]
  PROVE  Opened(r)' /\ PlayedSeen(r)'
<1>1. sender_identities(r)' = sender_identities(r)
  BY Zenon DEF sender_identities
<1>2. Opened(r)'
  BY <1>1, Zenon DEF Opened, HasGroup
<1>3. PlayedSeen(r)'
  BY Zenon DEF PlayedSeen, my_ssrc
<1> QED BY <1>2, <1>3, Zenon

LEMMA PlayedOnceKept ==
  ASSUME MediaInv, UNCHANGED played,
         \A r \in Receivers : HasGroup(r) => group'[r] = group[r],
         \A s \in Senders : next_i'[s] >= next_i[s] /\ next_i'[s] \in Int
  PROVE  PlayedOnce'
<1> SUFFICES ASSUME NEW r \in Receivers
    PROVE  /\ \A i, j \in 1 .. Len(played[r]) : played[r][i] = played[r][j] => i = j
           /\ \A i \in 1 .. Len(played[r]) :
                /\ played[r][i][1] \in group'[r].members \cap Senders
                /\ played[r][i][2] < next_i'[played[r][i][1]]
  BY Zenon DEF PlayedOnce
<1>1. /\ \A i, j \in 1 .. Len(played[r]) : played[r][i] = played[r][j] => i = j
      /\ \A i \in 1 .. Len(played[r]) :
           /\ played[r][i][1] \in group[r].members \cap Senders
           /\ played[r][i][2] < next_i[played[r][i][1]]
  BY Zenon DEF MediaInv, PlayedOnce
<1>2. ASSUME NEW i \in 1 .. Len(played[r])
      PROVE  /\ played[r][i][1] \in group'[r].members \cap Senders
             /\ played[r][i][2] < next_i'[played[r][i][1]]
  <2>1. played[r] \in Seq(Senders \X (1 .. Packets))
    BY Zenon DEF MediaInv, MediaTypeOK
  <2>2. played[r] # << >>
    BY <1>2
  <2>3. group'[r] = group[r]
    BY <2>2, PlayedHasGroup, Zenon
  <2>4. played[r][i] \in Senders \X (1 .. Packets)
    BY <1>2, <2>1
  <2>5. played[r][i][1] \in Senders /\ played[r][i][2] \in Int
    BY <2>4
  <2>6. next_i[played[r][i][1]] \in Int
    BY <2>5 DEF MediaInv, MediaTypeOK
  <2> QED BY <1>1, <2>3, <2>5, <2>6
<1> QED BY <1>1, <1>2, Zenon

(* Steps that only move a process on, or are part of the set-up.           *)
LEMMA MoveKeepsMedia ==
  ASSUME MediaInv, SetupInv', UNCHANGED mediaVars,
         \A d \in Clients : HasGroup(d) => group'[d] = group[d],
         \A r \in Receivers : pc'[r] = "listen" => pc[r] = "listen",
         \A r \in Receivers : pc[r] \in AfterListen => pc'[r] \in AfterListen
  PROVE  MediaInv'
<1>1. UNCHANGED << next_i, sessions, pending, played >>
  BY Zenon DEF mediaVars
<1>2. \A s \in Senders : next_i'[s] >= next_i[s] /\ next_i'[s] \in Int
  BY <1>1 DEF MediaInv, MediaTypeOK
<1>3. \A r \in Receivers \cup Senders : r \in Clients
  BY Zenon DEF Clients
<1>4. MediaTypeOK'
  BY <1>1, Zenon DEF MediaInv, MediaTypeOK
<1>5. PlayedOnce'
  BY <1>1, <1>2, <1>3, PlayedOnceKept, Zenon
<1>6. ASSUME NEW r \in Receivers PROVE ReceiverInv(r)'
  <2>1. ReceiverInv(r)
    BY Zenon DEF MediaInv
  <2>2. PendingSent(r)'
    <3> SUFFICES ASSUME NEW p \in DOMAIN pending[r]
                 PROVE  \E s \in Senders, i \in 1 .. Packets : SentBy(s, i)' /\ p = Packet(s, i)'
      BY <1>1, Zenon DEF PendingSent
    <3>1. PICK s \in Senders, i \in 1 .. Packets : SentBy(s, i) /\ p = Packet(s, i)
      BY <2>1, Zenon DEF ReceiverInv, PendingSent
    <3>2. SentBy(s, i)' /\ Packet(s, i)' = Packet(s, i)
      BY <1>2, <1>3, <3>1, SentStays, Zenon
    <3> QED BY <3>1, <3>2, Zenon
  <2>3. ASSUME pc'[r] = "listen" PROVE Opened(r)' /\ PlayedSeen(r)'
    <3>1. Opened(r) /\ PlayedSeen(r)
      BY <2>1, <2>3, Zenon DEF ReceiverInv
    <3>2. group'[r] = group[r]
      BY <1>3, <3>1, Zenon DEF Opened
    <3> QED BY <1>1, <3>1, <3>2, OpenedKept, Zenon
  <2>4. played'[r] # << >> => pc'[r] \in AfterListen
    BY <1>1, <2>1, Zenon DEF ReceiverInv
  <2> QED BY <2>2, <2>3, <2>4, Zenon DEF ReceiverInv
<1> QED BY <1>4, <1>5, <1>6, Zenon DEF MediaInv

LEMMA SetupKeepsMedia ==
  ASSUME MediaInv, SetupInv', NEW c \in Clients, Step(c) \/ Crash(c), UNCHANGED mediaVars
  PROVE  MediaInv'
<1>1. SetupInv
  BY Zenon DEF MediaInv
<1>3. \A d \in Clients : HasGroup(d) => group'[d] = group[d]
  BY <1>1, GroupsKept, Zenon
<1>4. \A d \in Clients \ {c} : pc'[d] = pc[d]
  BY <1>1, StepMovesOne, Zenon
<1>5. pc'[c] # "listen" /\ (pc[c] \in AfterListen => pc'[c] \in AfterListen)
  <2>1. \E step : Goto(c, step) /\ step # "listen"
                  /\ (pc[c] \in AfterListen => step \in AfterListen)
    <3>1. CASE Crash(c)
      BY <3>1, Zenon DEF Crash, AfterListen
    <3>2. CASE RegisterWithAs(c) \/ RegisterWithDs(c)
      BY <3>2, Zenon DEF RegisterWithAs, RegisterWithDs, AfterRegistration, AfterListen
    <3>3. CASE Discover(c) \/ FetchKeyPackage(c) \/ SendWelcome(c)
      BY <3>3, Zenon DEF Discover, FetchKeyPackage, SendWelcome, AfterListen
    <3>4. CASE CheckPeer(c)
      BY <3>4, Zenon DEF CheckPeer, AfterListen
    <3>5. CASE JoinGroup(c)
      BY <3>5, Zenon DEF JoinGroup, AfterListen
    <3>6. CASE VerifyGroupMembers(c)
      BY <3>6, Zenon DEF VerifyGroupMembers, AfterVerification, AfterListen
    <3> QED BY <3>1, <3>2, <3>3, <3>4, <3>5, <3>6, Zenon DEF Step
  <2> QED BY <1>1, <2>1, Zenon DEF Goto, SetupInv, SetupTypeOK
<1>6. \A r \in Receivers : r \in Clients
  BY Zenon DEF Clients
<1> QED BY <1>3, <1>4, <1>5, <1>6, MoveKeepsMedia, Zenon

(* SendDone, RecvDone and Timeout.                                         *)
LEMMA DoneKeepsMedia ==
  ASSUME MediaInv, NEW c \in Clients, pc[c] \in {"send", "listen"}, Goto(c, "done"),
         UNCHANGED << credentials, dsVars, peers, todo, peer_kps, group, mediaVars >>
  PROVE  MediaInv'
<1>1. SetupInv /\ Registered(c)
  BY Zenon DEF MediaInv, SetupInv, Progress
<1>2. SetupInv'
  BY <1>1, MoveKeepsSetup, Zenon
<1>3. \A r \in Clients : pc'[r] = pc[r] \/ pc'[r] = "done"
  BY <1>1, Zenon DEF Goto, SetupInv, SetupTypeOK
<1>4. \A r \in Receivers : r \in Clients
  BY Zenon DEF Clients
<1>5. \A r \in Receivers : /\ pc'[r] = "listen" => pc[r] = "listen"
                           /\ pc[r] \in AfterListen => pc'[r] \in AfterListen
  BY <1>3, <1>4, Zenon DEF AfterListen
<1> QED BY <1>2, <1>5, MoveKeepsMedia, Zenon

(* One turn of send_srtp.                                                  *)
LEMMA SendKeepsMedia ==
  ASSUME MediaInv, NEW c \in Senders, SendPacket(c)
  PROVE  MediaInv'
<1>1. /\ SetupInv /\ MediaTypeOK /\ next_i \in [Senders -> 1 .. Packets + 1]
      /\ pc[c] = "send" /\ next_i[c] <= Packets
  BY Zenon DEF MediaInv, MediaTypeOK, SendPacket
<1>2. PICK n \in 1 .. Packets : n = next_i[c]
  BY <1>1, MediaAssumption
<1>3. PICK p : p = Packet(c, n)
  BY Zenon
<1>4. /\ next_i' = [next_i EXCEPT ![c] = n + 1]
      /\ pending' = [r \in Receivers |->
           IF Listening(r) THEN MapInsert(pending[r], p, MaxCopies) ELSE pending[r]]
      /\ UNCHANGED << setupVars, sessions, played >>
  BY <1>2, <1>3, Zenon DEF SendPacket
<1>5. UNCHANGED << pc, group >> /\ HasGroup(c) /\ SetupInv'
  <2>1. c \in Clients
    BY Zenon DEF Clients
  <2>2. Progress(c)
    BY <1>1, <2>1, Zenon DEF SetupInv
  <2> QED BY <1>1, <1>4, <2>2, SetupUnchanged, Zenon DEF setupVars, clientVars, Progress
<1>6. /\ next_i'[c] = n + 1 /\ next_i' \in [Senders -> 1 .. Packets + 1]
      /\ \A s \in Senders : next_i'[s] >= next_i[s] /\ next_i'[s] \in Int
  BY <1>1, <1>2, <1>4, MediaAssumption
<1>7. MediaTypeOK'
  BY <1>1, <1>4, <1>6, Zenon DEF MediaTypeOK
<1>8. PlayedOnce'
  BY <1>4, <1>5, <1>6, PlayedOnceKept, Zenon
<1>9. SentBy(c, n)' /\ p = Packet(c, n)'
  <2>1. Packet(c, n)' = Packet(c, n)
    BY <1>5, Zenon DEF Packet, my_ssrc
  <2>2. SentBy(c, n)'
    BY <1>5, <1>6 DEF SentBy, HasGroup
  <2> QED BY <1>3, <2>1, <2>2, Zenon
<1>10. ASSUME NEW r \in Receivers PROVE ReceiverInv(r)'
  <2>1. ReceiverInv(r)
    BY Zenon DEF MediaInv
  <2>2. PendingSent(r)'
    <3> SUFFICES ASSUME NEW q \in DOMAIN pending'[r]
                 PROVE  \E s \in Senders, i \in 1 .. Packets : SentBy(s, i)' /\ q = Packet(s, i)'
      BY Zenon DEF PendingSent
    <3>1. q = p \/ q \in DOMAIN pending[r]
      BY <1>4, Zenon DEF MapInsert
    <3>2. CASE q = p
      BY <1>9, <3>2, Zenon
    <3>3. CASE q \in DOMAIN pending[r]
      <4>1. PICK s \in Senders, i \in 1 .. Packets : SentBy(s, i) /\ q = Packet(s, i)
        BY <2>1, <3>3, Zenon DEF ReceiverInv, PendingSent
      <4>2. SentBy(s, i)' /\ Packet(s, i)' = Packet(s, i)
        BY <1>5, <1>6, <4>1, SentStays, Zenon
      <4> QED BY <4>1, <4>2, Zenon
    <3> QED BY <3>1, <3>2, <3>3, Zenon
  <2>3. pc'[r] = "listen" => Opened(r)' /\ PlayedSeen(r)'
    BY <1>4, <1>5, <2>1, OpenedKept, Zenon DEF ReceiverInv
  <2>4. played'[r] # << >> => pc'[r] \in AfterListen
    BY <1>4, <1>5, <2>1, Zenon DEF ReceiverInv
  <2> QED BY <2>2, <2>3, <2>4, Zenon DEF ReceiverInv
<1> QED BY <1>5, <1>7, <1>8, <1>10, Zenon DEF MediaInv

(* The sessions of a receiver are opened before its socket joins.          *)
LEMMA OpenKeepsMedia ==
  ASSUME MediaInv, NEW c \in Receivers, OpenSessions(c)
  PROVE  MediaInv'
<1> DEFINE ssrcs == {ssrc_from_identity(id) : id \in sender_identities(c)}
           new == [ssrc \in ssrcs |->
                     [key |-> export_srtp_keys(group[c], ssrc), rdbx |-> srtp_rdbx_init]]
<1>1. /\ pc[c] = "recv" /\ Goto(c, "listen")
      /\ sessions' = [sessions EXCEPT ![c] = new]
      /\ UNCHANGED << credentials, dsVars, peers, todo, peer_kps, group >>
      /\ UNCHANGED << next_i, pending, played >>
  BY Zenon DEF OpenSessions
<1>2. SetupInv /\ MediaTypeOK /\ c \in Clients /\ ReceiverInv(c)
  BY Zenon DEF MediaInv, Clients
<1>3. HasGroup(c) /\ Registered(c) /\ c \notin Creators
  <2>1. Progress(c)
    BY <1>2, Zenon DEF SetupInv
  <2> QED BY <1>1, <2>1, Zenon DEF Progress
<1>4. SetupInv'
  BY <1>1, <1>2, <1>3, MoveKeepsSetup, Zenon
<1>5. /\ pc'[c] = "listen" /\ \A r \in Receivers \ {c} : pc'[r] = pc[r]
      /\ sessions'[c] = new /\ \A r \in Receivers \ {c} : sessions'[r] = sessions[r]
      /\ DOMAIN sessions' = Receivers
  BY <1>1, <1>2, Zenon DEF Goto, SetupInv, SetupTypeOK, MediaTypeOK, Clients
<1>6. played[c] = << >>
  BY <1>1, <1>2, Zenon DEF ReceiverInv, AfterListen
<1>7. \A s \in Senders : next_i'[s] >= next_i[s] /\ next_i'[s] \in Int
  BY <1>1, <1>2 DEF MediaTypeOK
<1>8. MediaTypeOK'
  BY <1>1, <1>2, <1>5, Zenon DEF MediaTypeOK
<1>9. PlayedOnce'
  BY <1>1, <1>7, PlayedOnceKept, Zenon
<1>10. Opened(c)' /\ PlayedSeen(c)'
  <2>1. /\ DOMAIN new = ssrcs
        /\ \A x \in ssrcs : new[x] = [key |-> export_srtp_keys(group[c], x), rdbx |-> srtp_rdbx_init]
    BY Zenon
  <2>2. srtp_rdbx_init \in RdbxTypes /\ srtp_rdbx_init.index <= Packets
    BY MediaAssumption DEF srtp_rdbx_init, RdbxTypes
  <2>3. sender_identities(c)' = sender_identities(c)
    BY <1>1, Zenon DEF sender_identities
  <2> HIDE DEF new
  <2>4. \A x \in DOMAIN new :
           /\ new[x] \in [key : {export_srtp_keys(group[c], x)}, rdbx : RdbxTypes]
           /\ new[x].rdbx.index <= Packets
    <3> SUFFICES ASSUME NEW x \in DOMAIN new
                 PROVE  /\ new[x] \in [key : {export_srtp_keys(group[c], x)}, rdbx : RdbxTypes]
                        /\ new[x].rdbx.index <= Packets
      BY Zenon
    <3>1. PICK key : key = export_srtp_keys(group[c], x)
      BY Zenon
    <3>2. new[x] = [key |-> key, rdbx |-> srtp_rdbx_init]
      BY <2>1, <3>1, Zenon
    <3>3. new[x] \in [key : {key}, rdbx : RdbxTypes] /\ new[x].rdbx = srtp_rdbx_init
      BY <2>2, <3>2
    <3> QED BY <2>2, <3>1, <3>3, Zenon
  <2>5. Opened(c)'
    BY <1>1, <1>3, <1>5, <2>1, <2>3, <2>4, Zenon DEF Opened, HasGroup
  <2>6. PlayedSeen(c)'
    BY <1>1, <1>6 DEF PlayedSeen
  <2> QED BY <2>5, <2>6, Zenon
<1>11. ASSUME NEW r \in Receivers PROVE ReceiverInv(r)'
  <2>1. ReceiverInv(r)
    BY Zenon DEF MediaInv
  <2>2. PendingSent(r)'
    <3> SUFFICES ASSUME NEW q \in DOMAIN pending[r]
                 PROVE  \E s \in Senders, i \in 1 .. Packets : SentBy(s, i)' /\ q = Packet(s, i)'
      BY <1>1, Zenon DEF PendingSent
    <3>1. PICK s \in Senders, i \in 1 .. Packets : SentBy(s, i) /\ q = Packet(s, i)
      BY <2>1, Zenon DEF ReceiverInv, PendingSent
    <3>2. SentBy(s, i)' /\ Packet(s, i)' = Packet(s, i)
      BY <1>1, <1>7, <3>1, SentStays, Zenon
    <3> QED BY <3>1, <3>2, Zenon
  <2>3. pc'[r] = "listen" => Opened(r)' /\ PlayedSeen(r)'
    <3>1. CASE r = c
      BY <1>10, <3>1, Zenon
    <3>2. CASE r # c
      BY <1>1, <1>5, <2>1, <3>2, OpenedKept, Zenon DEF ReceiverInv
    <3> QED BY <3>1, <3>2, Zenon
  <2>4. played'[r] # << >> => pc'[r] \in AfterListen
    BY <1>1, <1>5, <1>6, <2>1, Zenon DEF ReceiverInv
  <2> QED BY <2>2, <2>3, <2>4, Zenon DEF ReceiverInv
<1> QED BY <1>4, <1>8, <1>9, <1>11, Zenon DEF MediaInv

(***************************************************************************)
(* The datagrams a receiver takes.  A packet that authenticates was sealed *)
(* under the receiver's own group, so its sender is a member.              *)
(***************************************************************************)
LEMMA ArrivalFacts ==
  ASSUME MediaInv, NEW c \in Receivers, Listening(c), NEW p \in DOMAIN pending[c],
         p.ssrc \in DOMAIN sessions[c]
  PROVE  \E s \in Senders, i \in 1 .. Packets :
           /\ SentBy(s, i) /\ p = Packet(s, i)
           /\ p.payload = << s, i >> /\ p.ssrc = my_ssrc(s) /\ p.index = i /\ p.intact
           /\ p.seq = Low(i) /\ p.seq \in Seqs
           /\ p.key = export_srtp_keys(group[s], my_ssrc(s))
           /\ sessions[c][p.ssrc].key = export_srtp_keys(group[c], p.ssrc)
           /\ sessions[c][p.ssrc].rdbx \in RdbxTypes
           /\ sessions[c][p.ssrc].rdbx.index <= Packets
<1>1. ReceiverInv(c)
  BY Zenon DEF MediaInv
<1>2. PICK s \in Senders, i \in 1 .. Packets : SentBy(s, i) /\ p = Packet(s, i)
  BY <1>1, Zenon DEF ReceiverInv, PendingSent
<1>3. /\ p.payload = << s, i >> /\ p.ssrc = my_ssrc(s) /\ p.index = i /\ p.intact
      /\ p.seq = Low(i) /\ p.key = export_srtp_keys(group[s], my_ssrc(s))
  BY <1>2, Zenon DEF Packet, Low
<1>4. p.seq \in Seqs
  BY <1>3, RocLow, MediaAssumption DEF Seqs
<1>5. Opened(c)
  BY <1>1, Zenon DEF ReceiverInv, Listening
<1>6. /\ sessions[c][p.ssrc] \in [key : {export_srtp_keys(group[c], p.ssrc)}, rdbx : RdbxTypes]
      /\ sessions[c][p.ssrc].rdbx.index <= Packets
  BY <1>5, Zenon DEF Opened
<1>7. /\ sessions[c][p.ssrc].key = export_srtp_keys(group[c], p.ssrc)
      /\ sessions[c][p.ssrc].rdbx \in RdbxTypes
  BY <1>6, Zenon
<1> QED BY <1>2, <1>3, <1>4, <1>6, <1>7, Zenon

(* A datagram leaves the queue and nothing of it is played.                *)
LEMMA SkipKeepsMedia ==
  ASSUME MediaInv, SetupInv', NEW c \in Receivers, NEW p \in DOMAIN pending[c],
         pending' = [pending EXCEPT ![c][p] = @ - 1],
         UNCHANGED << group, next_i, sessions, played >>,
         \A r \in Receivers : pc'[r] = "listen" => pc[r] = "listen",
         \A r \in Receivers : pc[r] \in AfterListen => pc'[r] \in AfterListen
  PROVE  MediaInv'
<1>1. MediaTypeOK
  BY Zenon DEF MediaInv
<1>2. DOMAIN pending' = Receivers /\ \A r \in Receivers : DOMAIN pending'[r] = DOMAIN pending[r]
  BY <1>1, Zenon DEF MediaTypeOK
<1>3. \A s \in Senders : next_i'[s] >= next_i[s] /\ next_i'[s] \in Int
  BY <1>1 DEF MediaTypeOK
<1>4. MediaTypeOK'
  BY <1>1, <1>2, Zenon DEF MediaTypeOK
<1>5. PlayedOnce'
  BY <1>3, PlayedOnceKept, Zenon
<1>6. ASSUME NEW r \in Receivers PROVE ReceiverInv(r)'
  <2>1. ReceiverInv(r)
    BY Zenon DEF MediaInv
  <2>2. PendingSent(r)'
    <3> SUFFICES ASSUME NEW q \in DOMAIN pending[r]
                 PROVE  \E s \in Senders, i \in 1 .. Packets : SentBy(s, i)' /\ q = Packet(s, i)'
      BY <1>2, Zenon DEF PendingSent
    <3>1. PICK s \in Senders, i \in 1 .. Packets : SentBy(s, i) /\ q = Packet(s, i)
      BY <2>1, Zenon DEF ReceiverInv, PendingSent
    <3>2. SentBy(s, i)' /\ Packet(s, i)' = Packet(s, i)
      BY <1>3, <3>1, SentStays, Zenon
    <3> QED BY <3>1, <3>2, Zenon
  <2>3. pc'[r] = "listen" => Opened(r)' /\ PlayedSeen(r)'
    BY <2>1, OpenedKept, Zenon DEF ReceiverInv
  <2>4. played'[r] # << >> => pc'[r] \in AfterListen
    BY <2>1, Zenon DEF ReceiverInv
  <2> QED BY <2>2, <2>3, <2>4, Zenon DEF ReceiverInv
<1> QED BY <1>4, <1>5, <1>6, Zenon DEF MediaInv

(* A packet is decrypted and played.                                       *)
LEMMA PlayKeepsMedia ==
  ASSUME MediaInv, NEW c \in Receivers, Listening(c), NEW p \in DOMAIN pending[c],
         p.ssrc \in DOMAIN sessions[c], status(c, p) = "ok",
         pending' = [pending EXCEPT ![c][p] = @ - 1],
         sessions' = [sessions EXCEPT ![c][p.ssrc].rdbx = srtp_unprotect_rdbx(@, p)],
         played' = [played EXCEPT ![c] = Append(@, p.payload)],
         UNCHANGED << setupVars, next_i >>
  PROVE  MediaInv'
<1>1. SetupInv /\ MediaTypeOK /\ ReceiverInv(c) /\ pc[c] = "listen" /\ c \in Clients
  BY Zenon DEF MediaInv, Listening, Clients
<1>2. PICK s \in Senders, i \in 1 .. Packets :
           /\ SentBy(s, i) /\ p.payload = << s, i >> /\ p.ssrc = my_ssrc(s) /\ p.index = i
           /\ p.seq \in Seqs /\ p.key = export_srtp_keys(group[s], my_ssrc(s))
           /\ sessions[c][p.ssrc].key = export_srtp_keys(group[c], p.ssrc)
           /\ sessions[c][p.ssrc].rdbx \in RdbxTypes
           /\ sessions[c][p.ssrc].rdbx.index <= Packets
  BY ArrivalFacts, Zenon
<1>3. PICK x : x = p.ssrc
  BY Zenon
<1>4. PICK old \in RdbxTypes : old = sessions[c][x].rdbx
  BY <1>2, <1>3, Zenon
<1>5. PICK new : new = srtp_unprotect_rdbx(old, p)
  BY Zenon
<1>6. UNCHANGED << pc, group >> /\ SetupInv'
  BY <1>1, SetupUnchanged, Zenon DEF setupVars, clientVars
<1>7. Opened(c) /\ PlayedSeen(c)
  BY <1>1, Zenon DEF ReceiverInv
<1>8. /\ srtp_rdbx_check(old, srtp_rdbx_estimate_delta(old, p.seq)) = "ok"
      /\ p.key = sessions[c][x].key /\ i = srtp_rdbx_estimate_index(old, p.seq)
  BY <1>2, <1>3, <1>4, Zenon DEF status, srtp_unprotect_status, Authentic
<1>9. i \in Nat
  OBVIOUS
<1>10. /\ new \in RdbxTypes /\ new.index = IF i > old.index THEN i ELSE old.index
       /\ ~Seen(old, i) /\ Seen(new, i)
       /\ \A j \in Nat : Seen(old, j) => Seen(new, j)
  BY <1>2, <1>5, <1>8, <1>9, AddSeen, Zenon
<1>11. s \in group[c].members
  <2>1. export_srtp_keys(group[s], my_ssrc(s)) = export_srtp_keys(group[c], x)
    BY <1>2, <1>3, <1>8, Zenon
  <2>2. group[s].history = group[c].history
    BY <2>1, SameKey, Zenon
  <2>3. s \in Clients /\ HasGroup(s) /\ HasGroup(c)
    BY <1>2, <1>7, Zenon DEF SentBy, Opened, Clients
  <2> QED BY <1>1, <2>2, <2>3, SameHistorySameGroup, Zenon
<1>12. /\ DOMAIN sessions' = Receivers
       /\ \A r \in Receivers \ {c} : sessions'[r] = sessions[r]
       /\ DOMAIN sessions'[c] = DOMAIN sessions[c]
       /\ sessions'[c][x] = [key |-> export_srtp_keys(group[c], x), rdbx |-> new]
       /\ \A y \in DOMAIN sessions[c] \ {x} : sessions'[c][y] = sessions[c][y]
  <2>1. PICK old_session : old_session = sessions[c][x]
    BY Zenon
  <2>2. PICK new_session : new_session = [old_session EXCEPT !.rdbx = new]
    BY Zenon
  <2>3. new_session = [key |-> export_srtp_keys(group[c], x), rdbx |-> new]
    <3>1. PICK key : key = export_srtp_keys(group[c], x)
      BY Zenon
    <3>2. old_session \in [key : {key}, rdbx : RdbxTypes]
      BY <1>3, <1>7, <2>1, <3>1, Zenon DEF Opened
    <3>3. new_session = [key |-> key, rdbx |-> new]
      BY <2>2, <3>2, Zenon
    <3> QED BY <3>1, <3>3, Zenon
  <2>4. sessions' = [sessions EXCEPT ![c] = [sessions[c] EXCEPT ![x] = new_session]]
    BY <1>3, <1>4, <1>5, <2>1, <2>2, Zenon
  <2> QED BY <1>1, <1>3, <2>3, <2>4 DEF MediaTypeOK
<1>13. /\ played[c] \in Seq(Senders \X (1 .. Packets))
       /\ played'[c] = Append(played[c], << s, i >>)
       /\ \A r \in Receivers \ {c} : played'[r] = played[r]
       /\ DOMAIN played' = Receivers
  BY <1>1, <1>2, Zenon DEF MediaTypeOK
<1>14. /\ played'[c] \in Seq(Senders \X (1 .. Packets))
       /\ Len(played'[c]) = Len(played[c]) + 1 /\ Len(played[c]) \in Nat
       /\ \A k \in 1 .. Len(played[c]) : played'[c][k] = played[c][k]
       /\ played'[c][Len(played[c]) + 1] = << s, i >>
  <2>1. PICK e, S : e = << s, i >> /\ S = Senders \X (1 .. Packets)
    BY Zenon
  <2>2. e \in S
    BY <2>1, Zenon
  <2>3. PICK q \in Seq(S) : q = played[c]
    BY <1>13, <2>1, Zenon
  <2>4. /\ Append(q, e) \in Seq(S) /\ Len(Append(q, e)) = Len(q) + 1
        /\ \A k \in 1 .. Len(q) : Append(q, e)[k] = q[k]
        /\ Append(q, e)[Len(q) + 1] = e
    BY <2>2
  <2>5. Len(q) \in Nat
    OBVIOUS
  <2> QED BY <1>13, <2>1, <2>3, <2>4, <2>5, Zenon
<1>15. DOMAIN pending' = Receivers /\ \A r \in Receivers : DOMAIN pending'[r] = DOMAIN pending[r]
  BY <1>1, Zenon DEF MediaTypeOK
<1>16. MediaTypeOK'
  <2>1. played' \in [Receivers -> Seq(Senders \X (1 .. Packets))]
    BY <1>1, <1>13, <1>14, Zenon DEF MediaTypeOK
  <2> QED BY <1>1, <1>12, <1>15, <2>1, Zenon DEF MediaTypeOK
<1>17. ASSUME NEW k \in 1 .. Len(played[c]) PROVE played[c][k] # << s, i >>
  <2>1. SUFFICES ASSUME played[c][k] = << s, i >> PROVE FALSE
    BY Zenon
  <2>2. played[c][k][1] = s /\ played[c][k][2] = i
    BY <2>1
  <2>3. Seen(sessions[c][my_ssrc(s)].rdbx, i)
    BY <1>7, <2>2, Zenon DEF PlayedSeen
  <2> QED BY <1>2, <1>3, <1>4, <1>10, <2>3, Zenon
<1>18. PlayedOnce'
  <2> SUFFICES ASSUME NEW r \in Receivers
      PROVE  /\ \A k, j \in 1 .. Len(played'[r]) : played'[r][k] = played'[r][j] => k = j
             /\ \A k \in 1 .. Len(played'[r]) :
                  /\ played'[r][k][1] \in group[r].members \cap Senders
                  /\ played'[r][k][2] < next_i[played'[r][k][1]]
    BY <1>6, Zenon DEF PlayedOnce
  <2>1. /\ \A k, j \in 1 .. Len(played[r]) : played[r][k] = played[r][j] => k = j
        /\ \A k \in 1 .. Len(played[r]) :
             /\ played[r][k][1] \in group[r].members \cap Senders
             /\ played[r][k][2] < next_i[played[r][k][1]]
    BY Zenon DEF MediaInv, PlayedOnce
  <2>2. CASE r # c
    BY <1>13, <2>1, <2>2, Zenon
  <2>3. CASE r = c
    <3>1. \A k \in 1 .. Len(played[c]) + 1 : k \in 1 .. Len(played[c]) \/ k = Len(played[c]) + 1
      BY <1>14
    <3>2. \A k, j \in 1 .. Len(played[c]) + 1 : played'[c][k] = played'[c][j] => k = j
      <4> SUFFICES ASSUME NEW k \in 1 .. Len(played[c]) + 1, NEW j \in 1 .. Len(played[c]) + 1,
                          played'[c][k] = played'[c][j]
                   PROVE  k = j
        BY Zenon
      <4>1. CASE k \in 1 .. Len(played[c]) /\ j \in 1 .. Len(played[c])
        BY <1>14, <2>1, <2>3, <4>1, Zenon
      <4>2. CASE k \in 1 .. Len(played[c]) /\ j = Len(played[c]) + 1
        BY <1>14, <1>17, <4>2, Zenon
      <4>3. CASE k = Len(played[c]) + 1 /\ j \in 1 .. Len(played[c])
        BY <1>14, <1>17, <4>3, Zenon
      <4> QED BY <3>1, <4>1, <4>2, <4>3, Zenon
    <3>3. << s, i >>[1] = s /\ << s, i >>[2] = i /\ i < next_i[s]
      BY <1>2, Zenon DEF SentBy
    <3>4. ASSUME NEW k \in 1 .. Len(played[c]) + 1
          PROVE  /\ played'[c][k][1] \in group[c].members \cap Senders
                 /\ played'[c][k][2] < next_i[played'[c][k][1]]
      <4>1. CASE k \in 1 .. Len(played[c])
        BY <1>14, <2>1, <2>3, <4>1, Zenon
      <4>2. CASE k = Len(played[c]) + 1
        BY <1>11, <1>14, <3>3, <4>2, Zenon
      <4> QED BY <3>1, <4>1, <4>2, Zenon
    <3> QED BY <1>14, <2>3, <3>2, <3>4
  <2> QED BY <2>2, <2>3, Zenon
<1>19. Opened(c)'
  <2>1. sender_identities(c)' = sender_identities(c)
    BY <1>6, Zenon DEF sender_identities
  <2>2. PICK key : key = export_srtp_keys(group[c], x)
    BY Zenon
  <2>3. sessions'[c][x] \in [key : {key}, rdbx : RdbxTypes] /\ sessions'[c][x].rdbx = new
    BY <1>10, <1>12, <2>2
  <2>4. new.index <= Packets
    BY <1>2, <1>3, <1>4, <1>10, MediaAssumption DEF RdbxTypes
  <2>5. ASSUME NEW y \in DOMAIN sessions'[c]
        PROVE  /\ sessions'[c][y] \in [key : {export_srtp_keys(group[c], y)}, rdbx : RdbxTypes]
               /\ sessions'[c][y].rdbx.index <= Packets
    <3>1. CASE y = x
      BY <2>2, <2>3, <2>4, <3>1, Zenon
    <3>2. CASE y # x
      BY <1>7, <1>12, <3>2, Zenon DEF Opened
    <3> QED BY <3>1, <3>2, Zenon
  <2> QED BY <1>6, <1>7, <1>12, <2>1, <2>5 DEF Opened, HasGroup
<1>20. PlayedSeen(c)'
  <2>1. ASSUME NEW k \in 1 .. Len(played[c]) + 1
        PROVE  /\ my_ssrc(played'[c][k][1]) \in DOMAIN sessions'[c]
               /\ Seen(sessions'[c][my_ssrc(played'[c][k][1])].rdbx, played'[c][k][2])
    <3>1. sessions'[c][x].rdbx = new
      BY <1>12
    <3>2. CASE k \in 1 .. Len(played[c])
      <4>1. played[c][k] \in Senders \X (1 .. Packets)
        BY <1>13, <3>2
      <4>2. PICK t \in Senders, j \in 1 .. Packets : played[c][k] = << t, j >>
        BY <4>1
      <4>3. played'[c][k][1] = t /\ played'[c][k][2] = j
            /\ played[c][k][1] = t /\ played[c][k][2] = j /\ j \in Nat
        BY <1>14, <3>2, <4>2
      <4>4. my_ssrc(t) \in DOMAIN sessions[c] /\ Seen(sessions[c][my_ssrc(t)].rdbx, j)
        BY <1>7, <3>2, <4>3, Zenon DEF PlayedSeen
      <4>5. Seen(sessions'[c][my_ssrc(t)].rdbx, j)
        <5>1. CASE my_ssrc(t) = x
          BY <1>4, <1>10, <3>1, <4>3, <4>4, <5>1, Zenon
        <5>2. CASE my_ssrc(t) # x
          BY <1>12, <4>4, <5>2, Zenon
        <5> QED BY <5>1, <5>2, Zenon
      <4> QED BY <1>12, <4>3, <4>4, <4>5, Zenon
    <3>3. CASE k = Len(played[c]) + 1
      <4>1. played'[c][k][1] = s /\ played'[c][k][2] = i
        BY <1>14, <3>3
      <4> QED BY <1>2, <1>3, <1>10, <1>12, <3>1, <4>1, Zenon
    <3>4. k \in 1 .. Len(played[c]) \/ k = Len(played[c]) + 1
      BY <1>14
    <3> QED BY <3>2, <3>3, <3>4, Zenon
  <2> QED BY <1>14, <2>1, Zenon DEF PlayedSeen, my_ssrc
<1>21. ASSUME NEW r \in Receivers PROVE ReceiverInv(r)'
  <2>1. ReceiverInv(r)
    BY Zenon DEF MediaInv
  <2>2. PendingSent(r)'
    <3> SUFFICES ASSUME NEW q \in DOMAIN pending[r]
                 PROVE  \E t \in Senders, j \in 1 .. Packets : SentBy(t, j)' /\ q = Packet(t, j)'
      BY <1>15, Zenon DEF PendingSent
    <3>1. PICK t \in Senders, j \in 1 .. Packets : SentBy(t, j) /\ q = Packet(t, j)
      BY <2>1, Zenon DEF ReceiverInv, PendingSent
    <3>2. next_i'[t] >= next_i[t] /\ next_i'[t] \in Int
      BY <1>1 DEF MediaTypeOK
    <3>3. SentBy(t, j)' /\ Packet(t, j)' = Packet(t, j)
      BY <1>6, <3>1, <3>2, SentStays, Zenon
    <3> QED BY <3>1, <3>3, Zenon
  <2>3. pc'[r] = "listen" => Opened(r)' /\ PlayedSeen(r)'
    <3>1. CASE r = c
      BY <1>19, <1>20, <3>1, Zenon
    <3>2. CASE r # c
      BY <1>6, <1>12, <1>13, <2>1, <3>2, OpenedKept, Zenon DEF ReceiverInv
    <3> QED BY <3>1, <3>2, Zenon
  <2>4. played'[r] # << >> => pc'[r] \in AfterListen
    BY <1>1, <1>6, <1>13, <2>1, Zenon DEF ReceiverInv, AfterListen
  <2> QED BY <2>2, <2>3, <2>4, Zenon DEF ReceiverInv
<1> QED BY <1>6, <1>16, <1>18, <1>21, Zenon DEF MediaInv

LEMMA ReceiveKeepsMedia ==
  ASSUME MediaInv, NEW c \in Receivers, Receive(c)
  PROVE  MediaInv'
<1>1. PICK p \in DOMAIN pending[c] :
        /\ p.ssrc \in DOMAIN sessions[c]
        /\ pending' = [pending EXCEPT ![c][p] = @ - 1]
        /\ recv_srtp(c, p)
  BY Zenon DEF Receive
<1>2. Listening(c) /\ SetupInv /\ c \in Clients
  BY Zenon DEF Receive, Wanted, MediaInv, Clients
<1>3. CASE /\ status(c, p) = "ok"
           /\ sessions' = [sessions EXCEPT ![c][p.ssrc].rdbx = srtp_unprotect_rdbx(@, p)]
           /\ played' = [played EXCEPT ![c] = Append(@, p.payload)]
           /\ UNCHANGED << setupVars, next_i >>
  BY <1>1, <1>2, <1>3, PlayKeepsMedia, Zenon
<1>4. CASE UNCHANGED << setupVars, next_i, sessions, played >>
  <2>1. SetupInv' /\ UNCHANGED << pc, group >>
    BY <1>2, <1>4, SetupUnchanged, Zenon DEF setupVars, clientVars
  <2> QED BY <1>1, <1>4, <2>1, SkipKeepsMedia, Zenon
<1>5. CASE /\ Goto(c, "panicked")
           /\ UNCHANGED << credentials, dsVars, peers, todo, peer_kps, group,
                           next_i, sessions, played >>
  <2>1. SetupInv'
    BY <1>2, <1>5, MoveKeepsSetup, Zenon
  <2>2. pc'[c] = "panicked" /\ \A r \in Receivers \ {c} : pc'[r] = pc[r]
    BY <1>2, <1>5, Zenon DEF Goto, SetupInv, SetupTypeOK, Clients
  <2>3. \A r \in Receivers : /\ pc'[r] = "listen" => pc[r] = "listen"
                             /\ pc[r] \in AfterListen => pc'[r] \in AfterListen
    BY <2>2, Zenon DEF AfterListen
  <2> QED BY <1>1, <1>5, <2>1, <2>3, SkipKeepsMedia, Zenon
<1> QED BY <1>1, <1>3, <1>4, <1>5, Zenon DEF recv_srtp

(* A datagram that does not authenticate changes nothing or stops the      *)
(* receiver.                                                               *)
LEMMA ForeignKeepsMedia ==
  ASSUME MediaInv, NEW c \in Receivers, ReceiveForeign(c)
  PROVE  MediaInv'
<1>1. PICK x \in DOMAIN sessions[c], seq \in Seqs : recv_srtp(c, Foreign(x, seq))
  BY Zenon DEF ReceiveForeign
<1>2. pending' = pending /\ Listening(c) /\ SetupInv /\ c \in Clients
  BY Zenon DEF ReceiveForeign, Wanted, MediaInv, Clients
<1>3. ~Foreign(x, seq).intact
  BY Zenon DEF Foreign
<1>4. status(c, Foreign(x, seq)) # "ok"
  BY <1>3, Zenon DEF status, srtp_unprotect_status, Authentic, srtp_rdbx_check
<1>5. CASE UNCHANGED << setupVars, next_i, sessions, played >>
  <2>1. SetupInv' /\ UNCHANGED << pc, group >>
    BY <1>2, <1>5, SetupUnchanged, Zenon DEF setupVars, clientVars
  <2> QED BY <1>2, <1>5, <2>1, MoveKeepsMedia, Zenon DEF mediaVars
<1>6. CASE /\ Goto(c, "panicked")
           /\ UNCHANGED << credentials, dsVars, peers, todo, peer_kps, group,
                           next_i, sessions, played >>
  <2>1. SetupInv'
    BY <1>2, <1>6, MoveKeepsSetup, Zenon
  <2>2. pc'[c] = "panicked" /\ \A r \in Receivers \ {c} : pc'[r] = pc[r]
    BY <1>2, <1>6, Zenon DEF Goto, SetupInv, SetupTypeOK, Clients
  <2>3. \A r \in Receivers : /\ pc'[r] = "listen" => pc[r] = "listen"
                             /\ pc[r] \in AfterListen => pc'[r] \in AfterListen
    BY <2>2, Zenon DEF AfterListen
  <2> QED BY <1>2, <1>6, <2>1, <2>3, MoveKeepsMedia, Zenon DEF mediaVars
<1> QED BY <1>1, <1>4, <1>5, <1>6, Zenon DEF recv_srtp

-----------------------------------------------------------------------------
(***************************************************************************)
(* No packet makes a receiver panic, if the hash gives different           *)
(* identities different SSRCs and no more packets are sent than the replay *)
(* window holds, so that no packet can be overtaken by a window of others. *)
(***************************************************************************)
DistinctSsrcs ==
  \A a, b \in Clients : my_ssrc(a) = my_ssrc(b) => Identity[a] = Identity[b]

LEMMA EveryArrivalOpens ==
  ASSUME DistinctSsrcs, Packets <= ReplayWindow,
         MediaInv, NEW c \in Receivers, Listening(c), NEW p \in DOMAIN pending[c],
         p.ssrc \in DOMAIN sessions[c]
  PROVE  status(c, p) \in {"ok", "replay_fail"}
<1>1. PICK s \in Senders, i \in 1 .. Packets :
           /\ SentBy(s, i) /\ p.ssrc = my_ssrc(s) /\ p.index = i /\ p.intact
           /\ p.seq = Low(i) /\ p.seq \in Seqs
           /\ p.key = export_srtp_keys(group[s], my_ssrc(s))
           /\ sessions[c][p.ssrc].key = export_srtp_keys(group[c], p.ssrc)
           /\ sessions[c][p.ssrc].rdbx \in RdbxTypes
           /\ sessions[c][p.ssrc].rdbx.index <= Packets
  BY ArrivalFacts, Zenon
<1>2. PICK r \in RdbxTypes : r = sessions[c][p.ssrc].rdbx
  BY <1>1, Zenon
<1>3. r.index \in 0 .. Packets /\ Packets \in Nat
  BY <1>1, <1>2, MediaAssumption DEF RdbxTypes
<1>4. ReplayWindow \in Nat /\ Half \in Nat /\ ReplayWindow < Half
  BY ReplayWindowAssumption, HalfFacts
<1>5. i = srtp_rdbx_estimate_index(r, p.seq)
  <2>1. r.index \in Nat \cup {None} /\ r.index # None /\ i \in Nat
    BY <1>3 DEF None
  <2>2. recover(r.index, p.seq) = i
    <3>1. i - r.index < Half /\ r.index - i < Half
      BY <1>3, <1>4
    <3>2. recover(r.index, Low(i)) = i
      BY <1>3, <2>1, <3>1, RecoverNearest, Zenon
    <3> QED BY <1>1, <3>2, Zenon
  <2> QED BY <1>1, <2>1, <2>2, RecoverIsEstimate, Zenon
<1>6. srtp_rdbx_estimate_delta(r, p.seq) = i - r.index
  BY <1>1, <1>3, <1>5, EstimateDelta
<1>7. srtp_rdbx_check(r, i - r.index) # "replay_old"
  BY <1>3, <1>4 DEF srtp_rdbx_check
<1>8. p.key = sessions[c][p.ssrc].key
  <2>1. SetupInv /\ Opened(c) /\ c \in Clients /\ s \in Clients /\ HasGroup(s)
    BY <1>1, Zenon DEF MediaInv, ReceiverInv, Listening, Clients, SentBy
  <2>2. PICK m \in group[c].members \cap Senders : p.ssrc = my_ssrc(m)
    BY <2>1 DEF Opened, sender_identities, my_ssrc
  <2>3. m \in Clients /\ Registered(m)
    BY <2>1, <2>2, MembersRegistered, Zenon
  <2>4. Registered(s)
    <3>1. PICK d \in Creators : group[s] = group[d] /\ s \in group[s].members
      BY <2>1, GroupOfCreator, Zenon
    <3> QED BY <2>1, <3>1, MembersRegistered, Zenon
  <2>5. m = s
    BY <1>1, <2>1, <2>2, <2>3, <2>4, SameOwner, Zenon DEF DistinctSsrcs
  <2>6. s \notin Creators
    BY GroupSetupAssumption, Zenon
  <2>7. group[s] = group[c]
    BY <2>1, <2>2, <2>5, <2>6, InvMembersShare, Zenon DEF MembersShareTheGroup
  <2> QED BY <1>1, <2>7, Zenon
<1>9. Authentic(r, sessions[c][p.ssrc].key, p)
  BY <1>1, <1>5, <1>8, Zenon DEF Authentic
<1>10. srtp_rdbx_check(r, i - r.index) \in {"ok", "replay_fail"}
  BY <1>7, Zenon DEF srtp_rdbx_check
<1> QED BY <1>2, <1>6, <1>9, <1>10, Zenon DEF status, srtp_unprotect_status

-----------------------------------------------------------------------------
(***************************************************************************)
(* Finite sets, from the library.                                          *)
(***************************************************************************)
INSTANCE FiniteSetTheorems

LEMMA FiniteSetsBehave == FiniteFacts
BY FS_EmptySet, FS_Singleton, FS_CardinalityType, FS_AddElement, FS_Subset, Zenon DEF FiniteFacts

LEMMA SetupStep ==
  ASSUME SetupInv, NoAssertionFails, [Next]_setupVars
  PROVE  SetupInv' /\ NoAssertionFails'
<1>1. CASE UNCHANGED setupVars
  <2>1. SetupInv'
    BY <1>1, SetupUnchanged, Zenon
  <2>2. NoAssertionFails'
    BY <1>1, Zenon DEF setupVars, clientVars, NoAssertionFails
  <2> QED BY <2>1, <2>2, Zenon
<1>2. ASSUME NEW c \in Clients, Step(c) \/ Crash(c) PROVE SetupInv' /\ NoAssertionFails'
  <2>1. /\ SetupInv'
        /\ pc'[c] = "panicked" => AsConflict(Identity[c]) /\ ~Registered(c)
    BY <1>2, StepKeepsSetup, FiniteSetsBehave, Zenon
  <2>2. \A d \in Clients \ {c} : pc'[d] = pc[d]
    BY <1>2, StepMovesOne, Zenon
  <2>3. \A id \in DOMAIN credentials :
          id \in DOMAIN credentials' /\ credentials'[id] = credentials[id]
    BY <1>2, CredentialsGrow, Zenon
  <2>4. NoAssertionFails'
    BY <2>1, <2>2, <2>3, Zenon DEF NoAssertionFails, AsConflict, Registered, AsFound
  <2> QED BY <2>1, <2>4, Zenon
<1> QED BY <1>1, <1>2, Zenon DEF Next

(***************************************************************************)
(* The set-up is correct for any number of creators, senders and receivers *)
(* that start, race for each other and are stopped in any order.           *)
(***************************************************************************)
(* The stages, the services' maps and the creators' groups stay as the     *)
(* invariant says, through every request of main.rs:149-611.               *)
THEOREM SetupInvariant == Spec => [](SetupInv /\ NoAssertionFails)
<1>1. Init => SetupInv /\ NoAssertionFails
  BY SetupInit, FiniteSetsBehave, Zenon
<1>2. (SetupInv /\ NoAssertionFails) /\ [Next]_setupVars => (SetupInv /\ NoAssertionFails)'
  BY SetupStep, Zenon
<1> QED BY <1>1, <1>2, PTL DEF Spec

(* No process panics, except one whose identity another one registered     *)
(* first: no lookup and no key comparison fails, and the delivery service  *)
(* refuses nobody (main.rs:149-187, 401-419, 575-611).                     *)
THEOREM NobodyPanics == Spec => []NoAssertionFails
BY SetupInvariant, PTL

(* No two creators ever hold the same KeyPackage (consume_kp pops it).     *)
THEOREM KeyPackagesUsedOnce == Spec => []KeyPackageOnce
<1>1. SetupInv => KeyPackageOnce
  BY InvKeyPackageOnce, Zenon
<1> QED BY <1>1, SetupInvariant, PTL

(* A sender or receiver that a group lists is in that group or in none,    *)
(* however many creators compete (join_group, main.rs:501-564).            *)
THEOREM MembersHaveOneGroup == Spec => []MembersShareTheGroup
<1>1. SetupInv => MembersShareTheGroup
  BY InvMembersShare, Zenon
<1> QED BY <1>1, SetupInvariant, PTL

(* Nothing is lost between fetching a KeyPackage and joining: every peer a *)
(* creator found is a member and has the Welcome or the group              *)
(* (create_group, main.rs:319-489; send_welcome on the delivery service).  *)
THEOREM PeersAreWelcomed == Spec => []EveryPeerIsWelcomed
<1>1. SetupInv => EveryPeerIsWelcomed
  BY InvPeersWelcomed, Zenon
<1> QED BY <1>1, SetupInvariant, PTL

-----------------------------------------------------------------------------
(***************************************************************************)
(* The media part is correct as well.                                      *)
(***************************************************************************)
LEMMA MediaStepKeepsInv ==
  ASSUME MediaInv, [MediaNext]_vars
  PROVE  MediaInv'
<1>1. CASE UNCHANGED vars
  <2>1. UNCHANGED << setupVars, mediaVars, pc, group >>
    BY <1>1, Zenon DEF vars, setupVars, clientVars
  <2>2. SetupInv'
    BY <2>1, SetupUnchanged, Zenon DEF MediaInv
  <2> QED BY <2>1, <2>2, MoveKeepsMedia, Zenon
<1>2. ASSUME NEW c \in Clients, Step(c) \/ Crash(c), UNCHANGED mediaVars PROVE MediaInv'
  <2>1. SetupInv'
    BY <1>2, StepKeepsSetup, FiniteSetsBehave, Zenon DEF MediaInv
  <2> QED BY <1>2, <2>1, SetupKeepsMedia, Zenon
<1>3. ASSUME NEW c \in Senders, SendPacket(c) \/ SendDone(c) PROVE MediaInv'
  <2>1. CASE SendPacket(c)
    BY <2>1, SendKeepsMedia, Zenon
  <2>2. CASE SendDone(c)
    <3>1. c \in Clients
      BY Zenon DEF Clients
    <3> QED BY <2>2, <3>1, DoneKeepsMedia, Zenon DEF SendDone
  <2> QED BY <1>3, <2>1, <2>2, Zenon
<1>4. ASSUME NEW c \in Receivers, OpenSessions(c) \/ Receive(c) \/ RecvDone(c) \/ Timeout(c)
      PROVE  MediaInv'
  <2>1. CASE OpenSessions(c)
    BY <2>1, OpenKeepsMedia, Zenon
  <2>2. CASE Receive(c)
    BY <2>2, ReceiveKeepsMedia, Zenon
  <2>3. CASE RecvDone(c) \/ Timeout(c)
    <3>1. c \in Clients
      BY Zenon DEF Clients
    <3> QED BY <2>3, <3>1, DoneKeepsMedia, Zenon DEF RecvDone, Timeout, Wanted, Listening
  <2> QED BY <1>4, <2>1, <2>2, <2>3
<1>5. ASSUME NEW c \in Receivers, ReceiveForeign(c) PROVE MediaInv'
  BY <1>5, ForeignKeepsMedia, Zenon
<1> QED BY <1>1, <1>2, <1>3, <1>4, <1>5, Zenon DEF MediaNext, ClientStep, MediaStep

(* The stages of the set-up, the sessions and the replay databases stay as *)
(* the invariant says while media flows.                                   *)
THEOREM MediaInvariant == MediaSpec => []MediaInv
<1>1. MediaInit => MediaInv
  BY MediaInitInv, FiniteSetsBehave, Zenon
<1>2. MediaInv /\ [MediaNext]_vars => MediaInv'
  BY MediaStepKeepsInv, Zenon
<1> QED BY <1>1, <1>2, PTL DEF MediaSpec

(* A receiver counts every packet once, and only what a sender of its own  *)
(* group sent, for every replay window and number of copies, also when     *)
(* SSRCs collide (recv_srtp, main.rs:735-751).                             *)
THEOREM ReceiversPlayOnce == MediaSpec => []PlayedOnce
<1>1. MediaInv => PlayedOnce
  BY Zenon DEF MediaInv
<1> QED BY <1>1, MediaInvariant, PTL

-----------------------------------------------------------------------------
(***************************************************************************)
(* The receiver's count.  The senders of a group are finitely many and     *)
(* have different identities, so expected_packets counts each of them.     *)
(***************************************************************************)
LEMMA SendersCounted ==
  ASSUME SetupInv, NEW c \in Clients, HasGroup(c)
  PROVE  LET S == group[c].members \cap Senders
         IN  IsFiniteSet(S) /\ Cardinality(sender_identities(c)) = Cardinality(S)
<1> DEFINE S == group[c].members \cap Senders
           f == [m \in S |-> Identity[m]]
<1>1. \A m \in S : Registered(m) /\ m \in Clients
  BY MembersRegistered, Zenon
<1>2. \A m, n \in S : f[m] = f[n] => m = n
  BY <1>1, SameOwner, Zenon
<1>3. \A m \in S : f[m] \in DOMAIN clients
  <2> SUFFICES ASSUME NEW m \in S PROVE Identity[m] \in DOMAIN clients
    BY Zenon
  <2>1. PICK d \in Creators : HasGroup(d) /\ group[c] = group[d]
    BY GroupOfCreator, Zenon
  <2>2. d \in Clients /\ group[d].members = {d} \cup {kp.owner : kp \in peer_kps[d]}
    <3>1. Formed(d) /\ d \in Clients
      BY Zenon DEF SetupInv, Clients
    <3> QED BY <2>1, <3>1 DEF Formed
  <2>3. m # d
    BY GroupSetupAssumption, Zenon
  <2>4. PICK kp \in peer_kps[d] : m = kp.owner
    BY <2>1, <2>2, <2>3, Zenon
  <2> QED BY <2>2, <2>4, FetchedOwner, Zenon DEF Online
<1>4. IsFiniteSet(DOMAIN clients)
  BY Zenon DEF SetupInv, Directory
<1>5. IsFiniteSet(S)
  <2>1. f \in Injection(S, DOMAIN clients)
    BY <1>2, <1>3, Zenon DEF Injection, IsInjective
  <2> HIDE DEF f, S
  <2> QED BY <1>4, <2>1, FS_Injection, Zenon
<1>6. /\ f \in Surjection(S, sender_identities(c))
      /\ f \in Injection(S, sender_identities(c))
  BY <1>2, Zenon DEF Surjection, Injection, IsInjective, sender_identities
<1> HIDE DEF f, S
<1>7. Cardinality(sender_identities(c)) = Cardinality(S)
  BY <1>5, <1>6, FS_Surjection
<1> QED BY <1>5, <1>7, Zenon DEF S

(* As many different packets as there are: all of them.                    *)
LEMMA CountedAll ==
  ASSUME NEW T, IsFiniteSet(T), NEW q \in Seq(T), Len(q) = Cardinality(T),
         \A i, j \in 1 .. Len(q) : q[i] = q[j] => i = j
  PROVE  \A e \in T : \E k \in 1 .. Len(q) : q[k] = e
<1>1. Len(q) \in Nat /\ q \in [1 .. Len(q) -> T]
  OBVIOUS
<1>2. IsFiniteSet(1 .. Len(q)) /\ Cardinality(1 .. Len(q)) = Len(q)
  BY <1>1, FS_Interval
<1>3. q \in Injection(1 .. Len(q), T)
  BY <1>1, Zenon DEF Injection, IsInjective
<1>4. Cardinality(1 .. Len(q)) = Cardinality(T) <=> q \in Surjection(1 .. Len(q), T)
  BY <1>3, FS_Injection, Zenon
<1> QED BY <1>2, <1>4, Zenon DEF Surjection

LEMMA InvComplete ==
  ASSUME MediaInv
  PROVE  CompleteMeansEverything
<1> SUFFICES ASSUME NEW c \in Receivers, Len(played[c]) = expected_packets(c),
                    NEW s \in group[c].members \cap Senders, NEW i \in 1 .. Packets
             PROVE  \E k \in 1 .. Len(played[c]) : played[c][k] = << s, i >>
  BY Zenon DEF CompleteMeansEverything
<1> DEFINE S == group[c].members \cap Senders
<1>1. SetupInv /\ c \in Clients /\ HasGroup(c)
  BY DEF MediaInv, Clients, HasGroup, NoGroup
<1>2. IsFiniteSet(S) /\ Cardinality(sender_identities(c)) = Cardinality(S)
  BY <1>1, SendersCounted, Zenon
<1>3. Packets \in Nat /\ Len(played[c]) = Cardinality(S) * Packets
  BY <1>2, MediaAssumption, Zenon DEF expected_packets
<1>4. played[c] \in Seq(Senders \X (1 .. Packets))
  BY Zenon DEF MediaInv, MediaTypeOK
<1>5. \A k \in 1 .. Len(played[c]) : played[c][k] \in S \X (1 .. Packets)
  <2> SUFFICES ASSUME NEW k \in 1 .. Len(played[c]) PROVE played[c][k] \in S \X (1 .. Packets)
    BY Zenon
  <2>1. played[c][k] \in Senders \X (1 .. Packets)
    BY <1>4
  <2>2. played[c][k][1] \in S
    BY Zenon DEF MediaInv, PlayedOnce
  <2> HIDE DEF S
  <2> QED BY <2>1, <2>2, Zenon
<1>6. played[c] \in Seq(S \X (1 .. Packets))
  <2> HIDE DEF S
  <2>1. PICK T : T = S \X (1 .. Packets)
    BY Zenon
  <2>2. played[c] \in [1 .. Len(played[c]) -> T] /\ Len(played[c]) \in Nat
    BY <1>4, <1>5, <2>1
  <2> QED BY <2>1, <2>2
<1>7. \A k, j \in 1 .. Len(played[c]) : played[c][k] = played[c][j] => k = j
  BY Zenon DEF MediaInv, PlayedOnce
<1>8. s \in S
  BY Zenon
<1> HIDE DEF S
<1>9. \A e \in S \X (1 .. Packets) : \E k \in 1 .. Len(played[c]) : played[c][k] = e
  <2>1. PICK T : T = S \X (1 .. Packets)
    BY Zenon
  <2>2. IsFiniteSet(1 .. Packets) /\ Cardinality(1 .. Packets) = Packets
    BY <1>3, FS_Interval
  <2>3. IsFiniteSet(T) /\ Cardinality(T) = Cardinality(S) * Packets
    <3>1. /\ IsFiniteSet(S \X (1 .. Packets))
          /\ Cardinality(S \X (1 .. Packets)) = Cardinality(S) * Cardinality(1 .. Packets)
      BY <1>2, <2>2, FS_Product, Zenon
    <3> QED BY <2>1, <2>2, <3>1, Zenon
  <2>4. PICK q \in Seq(T) : q = played[c]
    BY <1>6, <2>1, Zenon
  <2>5. Len(q) = Cardinality(T)
    BY <1>3, <2>3, <2>4, Zenon
  <2>6. \A k, j \in 1 .. Len(q) : q[k] = q[j] => k = j
    BY <1>7, <2>4, Zenon
  <2>7. \A e \in T : \E k \in 1 .. Len(q) : q[k] = e
    BY <2>3, <2>5, <2>6, CountedAll, Zenon
  <2> QED BY <2>1, <2>4, <2>7, Zenon
<1>10. << s, i >> \in S \X (1 .. Packets)
  BY <1>8, Zenon
<1> QED BY <1>9, <1>10

(* When the count of a receiver reaches expected_packets, it has played    *)
(* every packet of every sender of its group (main.rs:302): the count is   *)
(* that of different packets, and a group has finitely many senders with   *)
(* as many identities.                                                     *)
THEOREM CountReachedIsComplete == MediaSpec => []CompleteMeansEverything
<1>1. MediaInv => CompleteMeansEverything
  BY InvComplete, Zenon
<1> QED BY <1>1, MediaInvariant, PTL

-----------------------------------------------------------------------------
(* What a step does to a receiver that listens.                            *)
LEMMA ListenerStep ==
  ASSUME DistinctSsrcs, Packets <= ReplayWindow, MediaInv, [MediaNext]_vars,
         NEW r \in Receivers, Listening(r)
  PROVE  pc'[r] # "panicked" \/ ReceiveForeign(r)
<1>1. SetupInv /\ r \in Clients /\ pc[r] = "listen"
  BY Zenon DEF MediaInv, Clients, Listening
<1>2. CASE UNCHANGED vars
  BY <1>1, <1>2, Zenon DEF vars, setupVars, clientVars
<1>3. ASSUME NEW c \in Clients, Step(c) \/ Crash(c) PROVE pc'[r] # "panicked"
  <2>1. CASE c # r
    BY <1>1, <1>3, <2>1, StepMovesOne, Zenon
  <2>2. CASE c = r
    <3>1. Registered(r)
      BY <1>1, Zenon DEF SetupInv, Progress
    <3>2. pc'[c] = "panicked" => ~Registered(c)
      BY <1>1, <1>3, StepKeepsSetup, FiniteSetsBehave, Zenon
    <3> QED BY <2>2, <3>1, <3>2, Zenon
  <2> QED BY <2>1, <2>2, Zenon
<1>4. ASSUME NEW c \in Clients, NEW step, Goto(c, step)
      PROVE  \A d \in Clients : pc'[d] = IF d = c THEN step ELSE pc[d]
  BY <1>1, <1>4, Zenon DEF Goto, SetupInv, SetupTypeOK
<1>5. ASSUME UNCHANGED setupVars PROVE pc'[r] # "panicked"
  BY <1>1, <1>5, Zenon DEF setupVars, clientVars
<1>6. ASSUME NEW c \in Senders, SendPacket(c) \/ SendDone(c) PROVE pc'[r] # "panicked"
  <2>1. c \in Clients
    BY Zenon DEF Clients
  <2> QED BY <1>1, <1>4, <1>5, <1>6, <2>1, Zenon DEF SendPacket, SendDone
<1>7. ASSUME NEW c \in Receivers, OpenSessions(c) \/ Receive(c) \/ RecvDone(c) \/ Timeout(c)
      PROVE  pc'[r] # "panicked"
  <2>1. c \in Clients
    BY Zenon DEF Clients
  <2>2. CASE OpenSessions(c) \/ RecvDone(c) \/ Timeout(c)
    BY <1>1, <1>4, <2>1, <2>2, Zenon DEF OpenSessions, RecvDone, Timeout
  <2>3. CASE Receive(c)
    <3>1. PICK p \in DOMAIN pending[c] : p.ssrc \in DOMAIN sessions[c] /\ recv_srtp(c, p)
      BY <2>3, Zenon DEF Receive
    <3>2. Listening(c)
      BY <2>3, Zenon DEF Receive, Wanted
    <3>3. status(c, p) \in {"ok", "replay_fail"}
      BY <3>1, <3>2, EveryArrivalOpens, Zenon
    <3> QED BY <1>5, <3>1, <3>3, Zenon DEF recv_srtp
  <2> QED BY <1>7, <2>2, <2>3, Zenon
<1>8. ASSUME NEW c \in Receivers, ReceiveForeign(c)
      PROVE  pc'[r] # "panicked" \/ ReceiveForeign(r)
  <2>1. CASE c = r
    BY <1>8, <2>1, Zenon
  <2>2. CASE c # r
    <3>1. c \in Clients
      BY Zenon DEF Clients
    <3>2. UNCHANGED setupVars \/ Goto(c, "panicked")
      BY <1>8, Zenon DEF ReceiveForeign, recv_srtp
    <3> QED BY <1>1, <1>4, <1>5, <2>2, <3>1, <3>2, Zenon
  <2> QED BY <2>1, <2>2, Zenon
<1> QED BY <1>2, <1>3, <1>6, <1>7, <1>8, Zenon DEF MediaNext, ClientStep, MediaStep

(* With SSRCs that differ and no more packets than the replay window has   *)
(* bits, no packet of the group's senders stops a receiver: both export    *)
(* the same key and agree on every packet's index, and a copy is skipped   *)
(* as a replay (recv_srtp, main.rs:729-740).                               *)
THEOREM GroupPacketsNeverPanic ==
  ASSUME DistinctSsrcs, Packets <= ReplayWindow
  PROVE  MediaSpec => OnlyForeignPanics
<1>1. MediaInv /\ [MediaNext]_vars =>
        [\A c \in Receivers : Listening(c) /\ pc'[c] = "panicked" => ReceiveForeign(c)]_vars
  BY ListenerStep, Zenon
<1> QED BY <1>1, MediaInvariant, PTL DEF MediaSpec, OnlyForeignPanics
=============================================================================
