----------------------------- MODULE DemoMedia -----------------------------
(***************************************************************************)
(* The demo client's media part (send_srtp and recv_srtp in                *)
(* src/demo/safecast-client/src/main.rs, multicast.rs) on top of the group *)
(* set-up: each sender seals its packets under the key it exported and     *)
(* multicasts them; each receiver opens a session per sender of its group, *)
(* joins the multicast group and counts what it decrypts.                  *)
(*                                                                         *)
(* The network loses and reorders packets, and hands a receiver at most    *)
(* MaxCopies copies of one.  The two seconds a sender waits are no bound:  *)
(* a receiver may join later and misses what was sent before.  The socket  *)
(* also gets datagrams that no sender of the group sent, or not as they    *)
(* arrive: too short ones and those of an unknown SSRC are skipped and     *)
(* change nothing, the others are ReceiveForeign.                          *)
(***************************************************************************)
EXTENDS GroupSetup, Rdbx

CONSTANTS
  Packets,   \* --packets
  MaxCopies  \* copies of one multicast packet that reach one socket

ASSUME MediaAssumption == Packets \in Nat /\ MaxCopies \in Nat

VARIABLES
  next_i,    \* a sender's next packet
  sessions,  \* a receiver's sessions: SSRC -> [key, rdbx]
  pending,   \* packets under way to a receiver's socket -> copies left
  played     \* the payloads a receiver decrypted, in order

mediaVars == << next_i, sessions, pending, played >>

vars == << setupVars, mediaVars >>

(* The loop of send_srtp starts at 1 (main.rs:639), a receiver with no     *)
(* session (main.rs:279) and nothing received (main.rs:701).               *)
MediaInit ==
  /\ Init
  /\ next_i = [c \in Senders |-> 1]
  /\ sessions = [c \in Receivers |-> EmptyMap]
  /\ pending = [c \in Receivers |-> EmptyMap]
  /\ played = [c \in Receivers |-> << >>]

my_ssrc(c) == ssrc_from_identity(Identity[c])

sender_identities(c) == {Identity[m] : m \in group[c].members \cap Senders}

expected_packets(c) == Cardinality(sender_identities(c)) * Packets

(* In the loop of recv_srtp, its socket a member of the multicast group.   *)
Listening(c) == pc[c] = "listen"

(* A receiver exports the keys of every sender and inserts one session per *)
(* SSRC, then its socket joins the multicast group.                        *)
OpenSessions(c) ==
  /\ pc[c] = "recv"
  /\ sessions' = [sessions EXCEPT ![c] =
       [ssrc \in {ssrc_from_identity(id) : id \in sender_identities(c)} |->
          [key |-> export_srtp_keys(group[c], ssrc), rdbx |-> srtp_rdbx_init]]]
  /\ Goto(c, "listen")
  /\ UNCHANGED << credentials, dsVars, peers, todo, peer_kps, group,
                  next_i, pending, played >>

(* One turn of the loop of send_srtp.  The packet's index, which enters    *)
(* the nonce, is the loop counter; its sequence number wraps.              *)
Packet(c, i) ==
  [ssrc |-> my_ssrc(c), seq |-> i % SeqMod, index |-> i, intact |-> TRUE,
   key |-> export_srtp_keys(group[c], my_ssrc(c)), payload |-> << c, i >>]

SendPacket(c) ==
  LET p == Packet(c, next_i[c])
  IN  /\ pc[c] = "send"
      /\ next_i[c] <= Packets
      /\ next_i' = [next_i EXCEPT ![c] = @ + 1]
      /\ pending' = [r \in Receivers |->
           IF Listening(r) THEN MapInsert(pending[r], p, MaxCopies) ELSE pending[r]]
      /\ UNCHANGED << setupVars, sessions, played >>

SendDone(c) ==
  /\ pc[c] = "send"
  /\ next_i[c] > Packets
  /\ Goto(c, "done")
  /\ UNCHANGED << credentials, dsVars, peers, todo, peer_kps, group, mediaVars >>

(* One turn of the loop of recv_srtp that gets a datagram.  A replay is    *)
(* skipped; any other libsrtp error is a panic.                            *)
Wanted(c) == Listening(c) /\ Len(played[c]) < expected_packets(c)

status(c, p) ==
  srtp_unprotect_status(sessions[c][p.ssrc].rdbx, sessions[c][p.ssrc].key, p)

recv_srtp_OnClone(c, p) ==
  /\ status(c, p) = "ok"
  /\ played' = [played EXCEPT ![c] = Append(@, p.payload)]
  /\ UNCHANGED << setupVars, next_i, sessions >>

recv_srtp(c, p) ==
  \/ /\ status(c, p) = "ok"
     /\ sessions' = [sessions EXCEPT ![c][p.ssrc].rdbx =
                       srtp_unprotect_rdbx(@, p)]
     /\ played' = [played EXCEPT ![c] = Append(@, p.payload)]
     /\ UNCHANGED << setupVars, next_i >>
  \/ /\ status(c, p) = "replay_fail"
     /\ UNCHANGED << setupVars, next_i, sessions, played >>
  \/ /\ status(c, p) \notin {"ok", "replay_fail"}
     /\ Goto(c, "panicked")
     /\ UNCHANGED << credentials, dsVars, peers, todo, peer_kps, group,
                     next_i, sessions, played >>

Receive(c) ==
  /\ Wanted(c)
  /\ \E p \in DOMAIN pending[c] :
       /\ pending[c][p] > 0
       /\ p.ssrc \in DOMAIN sessions[c]
       /\ pending' = [pending EXCEPT ![c][p] = @ - 1]
       /\ recv_srtp(c, p)

(* A datagram with the SSRC of a sender, any sequence number and a tag     *)
(* that does not verify: damaged, or sealed by someone without the key.    *)
Foreign(ssrc, seq) == [ssrc |-> ssrc, seq |-> seq, intact |-> FALSE]

ReceiveForeign(c) ==
  /\ Wanted(c)
  /\ \E ssrc \in DOMAIN sessions[c], seq \in Seqs : recv_srtp(c, Foreign(ssrc, seq))
  /\ UNCHANGED pending

(* The loop ends with the last expected packet, or on 30 seconds of        *)
(* silence, which may always happen: packets are lost and senders slow.    *)
RecvDone(c) ==
  /\ Listening(c)
  /\ ~Wanted(c)
  /\ Goto(c, "done")
  /\ UNCHANGED << credentials, dsVars, peers, todo, peer_kps, group, mediaVars >>

Timeout_AfterFirst(c) ==
  /\ Wanted(c)
  /\ played[c] # << >>
  /\ Goto(c, "done")
  /\ UNCHANGED << credentials, dsVars, peers, todo, peer_kps, group, mediaVars >>

Timeout(c) ==
  /\ Wanted(c)
  /\ Goto(c, "done")
  /\ UNCHANGED << credentials, dsVars, peers, todo, peer_kps, group, mediaVars >>

MediaStep(c) ==
  \/ c \in Senders /\ (SendPacket(c) \/ SendDone(c))
  \/ c \in Receivers /\ (OpenSessions(c) \/ Receive(c) \/ RecvDone(c) \/ Timeout(c))

ClientStep(c) == (Step(c) /\ UNCHANGED mediaVars) \/ MediaStep(c)

MediaNext ==
  \/ \E c \in Clients : ClientStep(c) \/ (Crash(c) /\ UNCHANGED mediaVars)
  \/ \E c \in Receivers : ReceiveForeign(c)

MediaSpec ==
  /\ MediaInit
  /\ [][MediaNext]_vars
  /\ \A c \in Clients : WF_vars(ClientStep(c))

-----------------------------------------------------------------------------
(* A receiver counts every packet once, whatever copies arrive in whatever *)
(* order, and counts only packets that a sender of its group sent          *)
(* (main.rs:735-751).                                                      *)
PlayedOnce ==
  \A c \in Receivers :
    /\ \A i, j \in 1 .. Len(played[c]) :
         played[c][i] = played[c][j] => i = j
    /\ \A i \in 1 .. Len(played[c]) :
         /\ played[c][i][1] \in group[c].members \cap Senders
         /\ played[c][i][2] < next_i[played[c][i][1]]

(* A receiver that stops because its count is reached has the whole media  *)
(* of all senders of its group: expected_packets is neither reached early  *)
(* by duplicates nor counts a sender it cannot decrypt (main.rs:302).      *)
CompleteMeansEverything ==
  \A c \in Receivers :
    (pc[c] = "done" /\ Len(played[c]) = expected_packets(c)) =>
      \A s \in group[c].members \cap Senders : \A i \in 1 .. Packets :
        \E k \in 1 .. Len(played[c]) : played[c][k] = << s, i >>

(* A receiver panics (main.rs:739) only at a datagram that no sender of    *)
(* its group sent, as long as no packet is overtaken by a replay window of *)
(* others: sender and receiver hold the same key and agree on the index of *)
(* every packet, in whatever order and however often it arrives.  Any      *)
(* datagram with a sender's SSRC that does not authenticate and is no      *)
(* replay does stop the receiver.                                          *)
OnlyForeignPanics ==
  [][\A c \in Receivers :
       Listening(c) /\ pc'[c] = "panicked" => ReceiveForeign(c)]_vars

(* A receiver that listens stops, whatever is lost and whoever crashes:    *)
(* duplicates do not keep it busy for ever and silence ends its loop.      *)
ReceiversStop ==
  \A c \in Receivers : Listening(c) ~> (pc[c] = "done" \/ Down(c))

(* Killed, or panicked in recv_srtp.                                       *)
StoppedFromOutside(c) ==
  \/ pc[c] = "crashed"
  \/ c \in Receivers /\ pc[c] = "panicked" /\ sessions[c] # EmptyMap

(* All processes of a demo whose command lines agree come to their end,    *)
(* set-up and media included, if none is stopped from outside.             *)
EveryoneFinishes ==
  [](\A c \in Clients : ~StoppedFromOutside(c)) =>
    \A c \in Clients : <>(pc[c] = "done")

(* The comment at main.rs:729-734: the second copy of a packet is rejected *)
(* with REPLAY_FAIL and skipped, so it does not stop the receiver.         *)
SecondCopySkipped ==
  [][\A c \in Receivers : \A p \in DOMAIN pending[c] :
       (pending[c][p] < MaxCopies /\ pending'[c][p] # pending[c][p]) =>
         pc'[c] # "panicked"]_vars
=============================================================================
