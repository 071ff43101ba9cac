---------------------------- MODULE RekeyProofs ----------------------------
(***************************************************************************)
(* Theorems about MlsRekey, for every group of members, every assignment   *)
(* of SSRCs and any number of rekeys: unless two members commit on the     *)
(* same state nobody panics, and every member has the commits it lacks     *)
(* under way in order.                                                     *)
(***************************************************************************)
EXTENDS MlsRekey, TLAPS

(* The steps late in a long module need more than the provers' default time. *)
USE SMTT(60)

History(m) == group[m].history

-----------------------------------------------------------------------------
(***************************************************************************)
(* Sequences.                                                              *)
(***************************************************************************)
LEMMA ConcatSeq ==
  ASSUME NEW S, NEW s \in Seq(S), NEW t \in Seq(S)
  PROVE  s \o t \in Seq(S)
OBVIOUS

LEMMA ConcatEmpty ==
  ASSUME NEW S, NEW s \in Seq(S)
  PROVE  << >> \o s = s /\ s \o << >> = s
OBVIOUS

LEMMA EmptyLength ==
  ASSUME NEW S, NEW s \in Seq(S)
  PROVE  s = << >> <=> Len(s) = 0
OBVIOUS

LEMMA AppendedLast ==
  ASSUME NEW S, NEW s \in Seq(S), NEW e \in S
  PROVE  /\ Append(s, e) \in Seq(S) /\ Len(Append(s, e)) = Len(s) + 1
         /\ \A i \in 1 .. Len(s) : Append(s, e)[i] = s[i]
         /\ Append(s, e)[Len(s) + 1] = e
OBVIOUS

LEMMA AppendToOne ==
  ASSUME NEW a
  PROVE  Append(<< a >>, a) = << a, a >>
<1>1. \A s, t \in Seq({a}) : Len(s) = Len(t) => s = t
  <2> SUFFICES ASSUME NEW s \in Seq({a}), NEW t \in Seq({a}), Len(s) = Len(t)
               PROVE  s = t
    BY Zenon
  <2>1. \A i \in 1 .. Len(s) : s[i] \in {a} /\ t[i] \in {a}
    OBVIOUS
  <2>2. \A i \in 1 .. Len(s) : s[i] = t[i]
    BY <2>1, Zenon
  <2> QED BY <2>2
<1>2. << a >> \in Seq({a}) /\ Len(<< a >>) = 1
  OBVIOUS
<1>3. Append(<< a >>, a) \in Seq({a}) /\ Len(Append(<< a >>, a)) = 2
  BY <1>2
<1>4. << a, a >> \in Seq({a}) /\ Len(<< a, a >>) = 2
  OBVIOUS
<1> QED BY <1>1, <1>3, <1>4, Zenon
-----------------------------------------------------------------------------
(***************************************************************************)
(* Types.                                                                  *)
(***************************************************************************)
Commits == [by : Members, on : Seq(Members)]

Infos ==
  [key_packages : {<< KeyPackageOf(m) >> : m \in Members}, reserved : {{}},
   welcome_queue : {<< >>}, msgs : Seq(Commits)]

RekeyTypeOK ==
  /\ clients \in [Members -> Infos]
  /\ group \in [Members -> [members : SUBSET Members, history : Seq(Members)]]
  /\ outgoing \in [Members -> Seq(Commits)]
  /\ inbox \in [Members -> Seq(Commits)]
  /\ panicked \subseteq Members

(* Whoever was chosen to create the group is a member.                     *)
LEMMA CreatorIsMember == Creator \in Members
BY MlsRekeyAssumption, Zenon DEF Creator

(* The initial state is well typed, and every member has seen the two      *)
(* commits that made the group.                                            *)
LEMMA RekeyTypeInit ==
  ASSUME Init
  PROVE  /\ RekeyTypeOK
         /\ \A m \in Members : History(m) = << Creator, Creator >>
<1>1. \A m \in Members : ClientInfo(<< KeyPackageOf(m) >>) \in Infos
  BY DEF ClientInfo, Infos
<1>2. clients \in [Members -> Infos]
  BY <1>1, Zenon DEF Init
<1> DEFINE start == add_members(MlsGroup_new(Creator), Creator,
                                {KeyPackageOf(p) : p \in Members \ {Creator}})
<1>3. start.history = << Creator, Creator >> /\ start.history \in Seq(Members)
  <2>1. start.history = Append(<< Creator >>, Creator)
    BY Zenon DEF add_members, MlsGroup_new
  <2>2. << Creator, Creator >> \in Seq(Members)
    BY CreatorIsMember
  <2>3. Append(<< Creator >>, Creator) = << Creator, Creator >>
    BY AppendToOne, Zenon
  <2> HIDE DEF start
  <2> QED BY <2>1, <2>2, <2>3, Zenon
<1>4. start.members \in SUBSET Members
  BY CreatorIsMember DEF add_members, MlsGroup_new, KeyPackageOf, generate_key_package
<1>5. start = [members |-> start.members, history |-> start.history]
  BY Zenon DEF add_members
<1> HIDE DEF start
<1>6. start \in [members : SUBSET Members, history : Seq(Members)]
  BY <1>3, <1>4, <1>5, Zenon
<1>7. group = [m \in Members |-> start]
  BY Zenon DEF Init, start
<1>8. group \in [Members -> [members : SUBSET Members, history : Seq(Members)]]
  BY <1>6, <1>7, Zenon
<1>9. \A m \in Members : History(m) = << Creator, Creator >>
  BY <1>3, <1>7, Zenon DEF History
<1>10. << >> \in Seq(Commits)
  OBVIOUS
<1> QED BY <1>2, <1>8, <1>9, <1>10, Zenon DEF RekeyTypeOK, Init

(* The parts of a well-typed state of one member.                          *)
LEMMA MemberTypes ==
  ASSUME RekeyTypeOK, NEW m \in Members
  PROVE  /\ History(m) \in Seq(Members) /\ Len(History(m)) \in Nat
         /\ group[m] = [members |-> group[m].members, history |-> History(m)]
         /\ group[m].members \subseteq Members
         /\ outgoing[m] \in Seq(Commits) /\ inbox[m] \in Seq(Commits)
         /\ m \in DOMAIN clients /\ DOMAIN clients = Members
         /\ clients[m] \in Infos /\ clients[m].welcome_queue = << >>
         /\ clients[m].msgs \in Seq(Commits)
         /\ Queued(m) = clients[m].msgs
<1>1. /\ clients[m] \in Infos /\ m \in DOMAIN clients /\ DOMAIN clients = Members
      /\ group[m] \in [members : SUBSET Members, history : Seq(Members)]
      /\ outgoing[m] \in Seq(Commits) /\ inbox[m] \in Seq(Commits)
  BY Zenon DEF RekeyTypeOK
<1>2. clients[m].welcome_queue = << >> /\ clients[m].msgs \in Seq(Commits)
  BY <1>1, Zenon DEF Infos
<1>3. Queued(m) = clients[m].msgs
  BY <1>2 DEF Queued
<1> QED BY <1>1, <1>2, <1>3 DEF History

-----------------------------------------------------------------------------
(***************************************************************************)
(* Forks.  Two histories that are not comparable differ at some position,  *)
(* and keep differing there whatever is appended to them.                  *)
(***************************************************************************)
Differ(s, t) == \E k \in 1 .. Len(s) : k <= Len(t) /\ s[k] # t[k]

(* Histories that are not comparable differ at a position both have.       *)
LEMMA IncomparableDiffer ==
  ASSUME NEW S, NEW s \in Seq(S), NEW t \in Seq(S)
  PROVE  ~Prefix(s, t) /\ ~Prefix(t, s) <=> Differ(s, t)
<1>1. Len(s) \in Nat /\ Len(t) \in Nat
  OBVIOUS
<1>2. Differ(s, t) => ~Prefix(s, t) /\ ~Prefix(t, s)
  BY <1>1 DEF Differ, Prefix
<1>3. ASSUME ~Prefix(s, t), ~Prefix(t, s) PROVE Differ(s, t)
  <2>1. CASE Len(s) <= Len(t)
    BY <1>1, <1>3, <2>1 DEF Differ, Prefix
  <2>2. CASE Len(t) <= Len(s)
    BY <1>1, <1>3, <2>2 DEF Differ, Prefix
  <2> QED BY <1>1, <2>1, <2>2
<1> QED BY <1>2, <1>3, Zenon

LEMMA ForkedIsDiffer ==
  ASSUME RekeyTypeOK
  PROVE  Forked <=> \E m, n \in Members : Differ(History(m), History(n))
<1>1. \A m, n \in Members : Extends(m, n) <=> Prefix(History(n), History(m))
  BY Zenon DEF Extends, History
<1>2. \A m, n \in Members :
        ~Prefix(History(n), History(m)) /\ ~Prefix(History(m), History(n))
          <=> Differ(History(m), History(n))
  BY MemberTypes, IncomparableDiffer, Zenon
<1> QED BY <1>1, <1>2, Zenon DEF Forked

-----------------------------------------------------------------------------
(***************************************************************************)
(* The inductive invariant.  As long as no two members committed on the    *)
(* same state, the commits form one line: the history of a member l that   *)
(* is ahead, of which every history is a beginning.  Its first d entries   *)
(* have been sent, and each member finds in its inbox and queue exactly    *)
(* the commits between its own state and d, in order.  If the line is      *)
(* longer than d, one member made all the commits after d and has them     *)
(* still to send.  A member's commit is in its own history before it is in *)
(* anyone else's.                                                          *)
(***************************************************************************)
Follows(m, line, d) ==
  LET n == Len(History(m))
  IN  /\ n <= d
      /\ outgoing[m] = << >>
      /\ Len(Undelivered(m)) = d - n
      /\ \A i \in 1 .. d - n : Committed(Undelivered(m)[i], line, n + i)

Leads(m, line, d) ==
  /\ Len(History(m)) = Len(line) /\ d < Len(line)
  /\ Undelivered(m) = << >>
  /\ Len(outgoing[m]) = Len(line) - d
  /\ \A i \in 1 .. Len(line) - d :
       Committed(outgoing[m][i], line, d + i) /\ line[d + i] = m

Linear(line, d) ==
  /\ \A m \in Members : Len(History(m)) >= 2 /\ Prefix(History(m), line)
  /\ \A m \in Members : Follows(m, line, d) \/ Leads(m, line, d)
  /\ \A m \in Members : \A k \in 3 .. Len(line) : line[k] = m => k <= Len(History(m))
  /\ line[1] \in DOMAIN groups => groups[line[1]] \in Nat /\ groups[line[1]] <= d - 2

OneLine ==
  \E line \in Seq(Members), d \in Nat :
    /\ 2 <= d /\ d <= Len(line)
    /\ \E l \in Members : History(l) = line
    /\ Linear(line, d)

RekeyInv == RekeyTypeOK /\ (Forked \/ (panicked = {} /\ OneLine))

-----------------------------------------------------------------------------
(***************************************************************************)
(* Queues: appending to the second part, taking from the first.            *)
(***************************************************************************)
LEMMA AppendOfConcat ==
  ASSUME NEW S, NEW s \in Seq(S), NEW t \in Seq(S), NEW e \in S
  PROVE  s \o Append(t, e) = Append(s \o t, e)
<1>1. /\ Append(t, e) \in Seq(S) /\ s \o t \in Seq(S)
      /\ Len(Append(t, e)) = Len(t) + 1 /\ Len(s \o t) = Len(s) + Len(t)
  OBVIOUS
<1>2. /\ s \o Append(t, e) \in Seq(S) /\ Append(s \o t, e) \in Seq(S)
      /\ Len(s \o Append(t, e)) = Len(Append(s \o t, e))
  BY <1>1
<1>3. \A i \in 1 .. Len(s \o Append(t, e)) : (s \o Append(t, e))[i] = Append(s \o t, e)[i]
  BY <1>1
<1> QED BY <1>2, <1>3

LEMMA HeadOfConcat ==
  ASSUME NEW S, NEW s \in Seq(S), NEW t \in Seq(S), s # << >>
  PROVE  /\ s \o t \in Seq(S) /\ s \o t # << >>
         /\ Head(s \o t) = Head(s)
         /\ Tail(s \o t) = Tail(s) \o t
<1>1. /\ s \o t \in Seq(S) /\ Len(s \o t) = Len(s) + Len(t)
      /\ \A i \in 1 .. Len(s) + Len(t) :
           (s \o t)[i] = IF i <= Len(s) THEN s[i] ELSE t[i - Len(s)]
  OBVIOUS
<1>2. Len(s) \in Nat \ {0} /\ Len(t) \in Nat
  OBVIOUS
<1>3. s \o t # << >>
  BY <1>1, <1>2
<1>4. Head(s \o t) = Head(s)
  BY <1>1, <1>2, <1>3
<1>5. /\ Tail(s) \in Seq(S) /\ Len(Tail(s)) = Len(s) - 1
      /\ \A i \in 1 .. Len(Tail(s)) : Tail(s)[i] = s[i + 1]
  OBVIOUS
<1>6. /\ Tail(s \o t) \in Seq(S) /\ Len(Tail(s \o t)) = Len(s) + Len(t) - 1
      /\ \A i \in 1 .. Len(s) + Len(t) - 1 : Tail(s \o t)[i] = (s \o t)[i + 1]
  BY <1>1, <1>3
<1>7. /\ Tail(s) \o t \in Seq(S) /\ Len(Tail(s) \o t) = Len(s) - 1 + Len(t)
      /\ \A i \in 1 .. Len(s) - 1 + Len(t) :
           (Tail(s) \o t)[i] = IF i <= Len(s) - 1 THEN Tail(s)[i] ELSE t[i - (Len(s) - 1)]
  BY <1>5
<1>8. \A i \in 1 .. Len(s) + Len(t) - 1 : Tail(s \o t)[i] = (Tail(s) \o t)[i]
  <2> TAKE i \in 1 .. Len(s) + Len(t) - 1
  <2>1. CASE i <= Len(s) - 1
    <3>1. Tail(s \o t)[i] = s[i + 1]
      BY <1>1, <1>2, <1>6, <2>1
    <3>2. (Tail(s) \o t)[i] = s[i + 1]
      BY <1>2, <1>5, <1>7, <2>1
    <3> QED BY <3>1, <3>2, Zenon
  <2>2. CASE ~(i <= Len(s) - 1)
    <3>1. Tail(s \o t)[i] = t[i + 1 - Len(s)]
      BY <1>1, <1>2, <1>6, <2>2
    <3>2. (Tail(s) \o t)[i] = t[i - (Len(s) - 1)]
      BY <1>2, <1>7, <2>2
    <3>3. i + 1 - Len(s) = i - (Len(s) - 1)
      BY <1>2
    <3> QED BY <3>1, <3>2, <3>3, Zenon
  <2> QED BY <2>1, <2>2, Zenon
<1>9. Tail(s \o t) = Tail(s) \o t
  BY <1>2, <1>6, <1>7, <1>8
<1> QED BY <1>1, <1>3, <1>4, <1>9, Zenon

-----------------------------------------------------------------------------
(***************************************************************************)
(* What each action does, in terms of histories and undelivered commits.   *)
(***************************************************************************)

(* create_rekey_commit: the own history grows, the commit is to be sent.   *)
LEMMA RekeyEffect ==
  ASSUME RekeyTypeOK, NEW m \in Members, Rekey(m)
  PROVE  /\ RekeyTypeOK'
         /\ History(m)' = Append(History(m), m)
         /\ outgoing'[m] = Append(outgoing[m], [by |-> m, on |-> History(m)])
         /\ \A n \in Members \ {m} : History(n)' = History(n) /\ outgoing'[n] = outgoing[n]
         /\ \A n \in Members : Undelivered(n)' = Undelivered(n)
         /\ UNCHANGED << groups, panicked >>
<1>1. UNCHANGED << clients, groups, inbox, panicked >>
  BY Zenon DEF Rekey, dsVars
<1>2. outgoing' = [outgoing EXCEPT ![m] = Append(@, [by |-> m, on |-> History(m)])]
  BY Zenon DEF Rekey, self_update, History
<1>3. group' = [group EXCEPT ![m] = [members |-> @.members, history |-> Append(@.history, m)]]
  <2>1. merge_pending_commit(group[m], m) =
          [members |-> group[m].members, history |-> Append(group[m].history, m)]
    <3>1. group[m] = [members |-> group[m].members, history |-> History(m)]
      BY MemberTypes, Zenon
    <3>2. ASSUME NEW a, NEW b
          PROVE  merge_pending_commit([members |-> a, history |-> b], m) =
                   [members |-> a, history |-> Append(b, m)]
      BY DEF merge_pending_commit
    <3>3. merge_pending_commit(group[m], m) =
            [members |-> group[m].members, history |-> Append(History(m), m)]
      BY <3>1, <3>2, Zenon
    <3> QED BY <3>3, Zenon DEF History
  <2> QED BY <2>1, Zenon DEF Rekey, RekeyTypeOK
<1>4. [by |-> m, on |-> History(m)] \in Commits /\ Append(History(m), m) \in Seq(Members)
  <2>1. History(m) \in Seq(Members)
    BY MemberTypes, Zenon
  <2> QED BY <2>1 DEF Commits
<1>5. outgoing' \in [Members -> Seq(Commits)]
  BY <1>2, <1>4 DEF RekeyTypeOK
<1>6. group' \in [Members -> [members : SUBSET Members, history : Seq(Members)]]
  BY <1>3, <1>4, Zenon DEF RekeyTypeOK, History
<1>7. RekeyTypeOK'
  BY <1>1, <1>5, <1>6, Zenon DEF RekeyTypeOK, Infos, Commits, KeyPackageOf
<1>8. /\ History(m)' = Append(History(m), m)
      /\ \A n \in Members \ {m} : History(n)' = History(n)
  BY <1>3, Zenon DEF RekeyTypeOK, History
<1>9. /\ outgoing'[m] = Append(outgoing[m], [by |-> m, on |-> History(m)])
      /\ \A n \in Members \ {m} : outgoing'[n] = outgoing[n]
  BY <1>2, Zenon DEF RekeyTypeOK
<1> QED BY <1>1, <1>7, <1>8, <1>9, Zenon DEF Undelivered, Queued

(* Sending: the commit leaves the outgoing ones; unless it is refused, it  *)
(* is appended to what the others have to receive.                         *)
LEMMA DistributeEffect ==
  ASSUME RekeyTypeOK, NEW m \in Members, Distribute(m)
  PROVE  LET c == Head(outgoing[m])
         IN  /\ RekeyTypeOK'
             /\ outgoing[m] # << >> /\ outgoing'[m] = Tail(outgoing[m])
             /\ Undelivered(m)' = Undelivered(m)
             /\ \A n \in Members \ {m} : outgoing'[n] = outgoing[n]
             /\ \A n \in Members : History(n)' = History(n)
             /\ UNCHANGED panicked
             /\ \/ EpochConflict(GroupId(c), CommitEpoch(c))
                \/ /\ groups' = MapInsert(groups, GroupId(c), CommitEpoch(c))
                   /\ \A n \in Members \ {m} : Undelivered(n)' = Append(Undelivered(n), c)
<1> DEFINE c == Head(outgoing[m])
<1>1. /\ outgoing[m] # << >> /\ UNCHANGED << group, inbox, panicked >>
      /\ outgoing' = [outgoing EXCEPT ![m] = Tail(@)]
  BY Zenon DEF Distribute
<1>2. c \in Commits /\ Tail(outgoing[m]) \in Seq(Commits)
  <2>1. outgoing[m] \in Seq(Commits)
    BY MemberTypes, Zenon
  <2> QED BY <1>1, <2>1
<1>3. outgoing' \in [Members -> Seq(Commits)]
  BY <1>1, <1>2, Zenon DEF RekeyTypeOK
<1> HIDE DEF c
<1>4. CASE UNCHANGED dsVars /\ EpochConflict(GroupId(c), CommitEpoch(c))
  <2>1. UNCHANGED << clients, groups >>
    BY <1>4, Zenon DEF dsVars
  <2>2. RekeyTypeOK'
    BY <1>1, <1>3, <2>1, Zenon DEF RekeyTypeOK, Infos, Commits, KeyPackageOf
  <2> QED
    BY <1>1, <1>4, <2>1, <2>2, Zenon DEF RekeyTypeOK, Undelivered, Queued, History, c
<1>5. CASE msg_send(GroupId(c), CommitEpoch(c), Members \ {m}, c)
  <2>1. groups' = MapInsert(groups, GroupId(c), CommitEpoch(c))
    BY <1>5, Zenon DEF msg_send
  <2>2. clients' = [id \in Members |->
          IF id \in Members \ {m} THEN [clients[id] EXCEPT !.msgs = Append(@, c)]
                                  ELSE clients[id]]
    BY <1>5, MemberTypes, Zenon DEF msg_send
  <2>3. ASSUME NEW n \in Members
        PROVE  /\ clients'[n] \in Infos
               /\ clients'[n].msgs = IF n = m THEN clients[n].msgs
                                              ELSE Append(clients[n].msgs, c)
    <3>1. Append(clients[n].msgs, c) \in Seq(Commits) /\ clients[n] \in Infos
      <4>1. clients[n].msgs \in Seq(Commits) /\ clients[n] \in Infos
        BY MemberTypes, Zenon
      <4> QED BY <1>2, <4>1
    <3>2. CASE n = m
      BY <2>2, <3>1, <3>2, Zenon
    <3>3. CASE n # m
      <4>1. clients'[n] = [clients[n] EXCEPT !.msgs = Append(@, c)]
        BY <2>2, <3>3, Zenon
      <4> QED BY <3>1, <3>3, <4>1, Zenon DEF Infos
    <3> QED BY <3>2, <3>3, Zenon
  <2>4. clients' \in [Members -> Infos]
    BY <2>2, <2>3, Zenon
  <2>5. RekeyTypeOK'
    BY <1>1, <1>3, <2>4, Zenon DEF RekeyTypeOK, Infos, Commits, KeyPackageOf
  <2>6. ASSUME NEW n \in Members
        PROVE  Undelivered(n)' = IF n = m THEN Undelivered(n) ELSE Append(Undelivered(n), c)
    <3>1. Queued(n) = clients[n].msgs /\ Queued(n)' = clients'[n].msgs
      <4>1. clients'[n].welcome_queue = << >> /\ clients'[n].msgs \in Seq(Commits)
        BY <2>3, Zenon DEF Infos
      <4>2. clients[n].welcome_queue = << >> /\ clients[n].msgs \in Seq(Commits)
        BY MemberTypes, Zenon
      <4>3. \A s \in Seq(Commits) : << >> \o s = s
        BY ConcatEmpty, Zenon
      <4> QED BY <4>1, <4>2, <4>3, Zenon DEF Queued
    <3>2. inbox[n] \in Seq(Commits) /\ clients[n].msgs \in Seq(Commits)
      BY MemberTypes, Zenon
    <3>3. inbox[n] \o Append(clients[n].msgs, c) = Append(inbox[n] \o clients[n].msgs, c)
      <4>1. \A s, t \in Seq(Commits) : \A e \in Commits :
              s \o Append(t, e) = Append(s \o t, e)
        BY AppendOfConcat
      <4> QED BY <1>2, <3>2, <4>1, Zenon
    <3> QED BY <1>1, <2>3, <3>1, <3>3, Zenon DEF Undelivered
  <2> QED
    BY <1>1, <2>1, <2>5, <2>6, Zenon DEF RekeyTypeOK, History, c
<1> QED BY <1>4, <1>5, Zenon DEF Distribute, c

(* GET /recv moves the queue to the inbox: nothing is lost or reordered.   *)
LEMMA FetchEffect ==
  ASSUME RekeyTypeOK, NEW m \in Members, Fetch(m)
  PROVE  /\ RekeyTypeOK'
         /\ \A n \in Members : /\ History(n)' = History(n)
                               /\ Undelivered(n)' = Undelivered(n)
         /\ UNCHANGED << outgoing, groups, panicked >>
<1>1. /\ UNCHANGED << group, outgoing, groups, panicked >>
      /\ inbox' = [inbox EXCEPT ![m] = @ \o Queued(m)]
      /\ clients' = [clients EXCEPT ![m].welcome_queue = << >>, ![m].msgs = << >>]
  BY Zenon DEF Fetch, msg_recv
<1>2. /\ clients'[m] = [clients[m] EXCEPT !.welcome_queue = << >>, !.msgs = << >>]
      /\ \A n \in Members \ {m} : clients'[n] = clients[n]
      /\ clients' = [n \in Members |-> clients'[n]]
  BY <1>1, Zenon DEF RekeyTypeOK
<1>3. /\ clients'[m] \in Infos
      /\ clients'[m].msgs = << >> /\ clients'[m].welcome_queue = << >>
  <2>1. clients[m] \in Infos
    BY MemberTypes, Zenon
  <2>2. << >> \in Seq(Commits)
    OBVIOUS
  <2> QED BY <1>2, <2>1, <2>2, Zenon DEF Infos
<1>4. clients' \in [Members -> Infos]
  BY <1>2, <1>3, MemberTypes, Zenon
<1>5. inbox' \in [Members -> Seq(Commits)]
  <2>1. inbox[m] \o Queued(m) \in Seq(Commits)
    BY MemberTypes, ConcatSeq, Zenon
  <2> QED BY <1>1, <2>1, Zenon DEF RekeyTypeOK
<1>6. RekeyTypeOK'
  BY <1>1, <1>4, <1>5, Zenon DEF RekeyTypeOK, Infos, Commits, KeyPackageOf
<1>7. Undelivered(m)' = Undelivered(m)
  <2>1. inbox'[m] = inbox[m] \o Queued(m)
    BY <1>1, Zenon DEF RekeyTypeOK
  <2>2. inbox[m] \o Queued(m) \in Seq(Commits)
    BY MemberTypes, ConcatSeq, Zenon
  <2>3. Queued(m)' = << >>
    BY <1>3 DEF Queued
  <2> QED BY <2>1, <2>2, <2>3 DEF Undelivered
<1>8. \A n \in Members \ {m} : Undelivered(n)' = Undelivered(n)
  BY <1>1, <1>2, Zenon DEF RekeyTypeOK, Undelivered, Queued
<1> QED BY <1>1, <1>6, <1>7, <1>8, Zenon DEF History

(* process_commit takes the oldest undelivered commit.                     *)
LEMMA ProcessEffect ==
  ASSUME RekeyTypeOK, NEW m \in Members, Process(m)
  PROVE  LET c == Head(Undelivered(m))
         IN  /\ RekeyTypeOK'
             /\ Undelivered(m) # << >> /\ Undelivered(m) \in Seq(Commits)
             /\ Undelivered(m)' = Tail(Undelivered(m))
             /\ \A n \in Members \ {m} : /\ History(n)' = History(n)
                                         /\ Undelivered(n)' = Undelivered(n)
             /\ UNCHANGED << outgoing, groups >>
             /\ IF Processable(group[m], m, c)
                  THEN History(m)' = Append(History(m), c.by) /\ UNCHANGED panicked
                  ELSE History(m)' = History(m)
<1> DEFINE c == Head(inbox[m])
<1>1. /\ inbox[m] # << >> /\ inbox' = [inbox EXCEPT ![m] = Tail(@)]
      /\ UNCHANGED << clients, groups, outgoing >>
      /\ IF Processable(group[m], m, c)
           THEN /\ group' = [group EXCEPT ![m] = merge_staged_commit(@, c)]
                /\ UNCHANGED panicked
           ELSE panicked' = panicked \cup {m} /\ UNCHANGED group
  BY Zenon DEF Process, dsVars
<1>2. inbox[m] \in Seq(Commits) /\ Queued(m) \in Seq(Commits)
  BY MemberTypes, Zenon
<1>3. /\ Undelivered(m) \in Seq(Commits) /\ Undelivered(m) # << >>
      /\ Head(Undelivered(m)) = c
      /\ Tail(Undelivered(m)) = Tail(inbox[m]) \o Queued(m)
  BY <1>1, <1>2, HeadOfConcat, Zenon DEF Undelivered
<1>4. c \in Commits /\ Tail(inbox[m]) \in Seq(Commits)
  BY <1>1, <1>2
<1>5. inbox' \in [Members -> Seq(Commits)] /\ inbox'[m] = Tail(inbox[m])
      /\ \A n \in Members \ {m} : inbox'[n] = inbox[n]
  BY <1>1, <1>4, Zenon DEF RekeyTypeOK
<1> HIDE DEF c
<1>6. CASE Processable(group[m], m, c)
  <2>1. merge_staged_commit(group[m], c) =
          [members |-> group[m].members, history |-> Append(History(m), c.by)]
    <3>1. group[m] = [members |-> group[m].members, history |-> History(m)]
      BY MemberTypes, Zenon
    <3> QED BY <3>1 DEF merge_staged_commit, History
  <2>2. Append(History(m), c.by) \in Seq(Members)
    <3>1. History(m) \in Seq(Members) /\ c.by \in Members
      BY <1>4, MemberTypes, Zenon DEF Commits
    <3> QED BY <3>1
  <2>3. group' = [group EXCEPT ![m] =
                    [members |-> group[m].members, history |-> Append(History(m), c.by)]]
    BY <1>1, <1>6, <2>1, Zenon DEF RekeyTypeOK
  <2>4. group' \in [Members -> [members : SUBSET Members, history : Seq(Members)]]
    BY <2>2, <2>3, MemberTypes, Zenon DEF RekeyTypeOK
  <2>5. /\ History(m)' = Append(History(m), c.by)
        /\ \A n \in Members \ {m} : History(n)' = History(n)
    BY <2>3, Zenon DEF RekeyTypeOK, History
  <2>6. RekeyTypeOK'
    BY <1>1, <1>5, <1>6, <2>4, Zenon DEF RekeyTypeOK, Infos, Commits, KeyPackageOf
  <2> QED BY <1>1, <1>3, <1>5, <1>6, <2>5, <2>6, Zenon DEF Undelivered, Queued
<1>7. CASE ~Processable(group[m], m, c)
  <2>1. RekeyTypeOK'
    BY <1>1, <1>5, <1>7, Zenon DEF RekeyTypeOK, Infos, Commits, KeyPackageOf
  <2> QED BY <1>1, <1>3, <1>5, <1>7, <2>1, Zenon DEF Undelivered, Queued, History
<1> QED BY <1>6, <1>7, Zenon

-----------------------------------------------------------------------------
(***************************************************************************)
(* The invariant, action by action.                                        *)
(***************************************************************************)

(* Histories only grow, so a fork is for ever.                             *)
LEMMA ForkStays ==
  ASSUME RekeyTypeOK, RekeyTypeOK', Forked,
         \A m \in Members : Prefix(History(m), History(m)')
  PROVE  Forked'
<1>1. PICK m \in Members, n \in Members : Differ(History(m), History(n))
  BY ForkedIsDiffer, Zenon
<1>2. PICK k \in 1 .. Len(History(m)) :
        k <= Len(History(n)) /\ History(m)[k] # History(n)[k]
  BY <1>1, Zenon DEF Differ
<1>3. /\ Len(History(m)) \in Nat /\ Len(History(n)) \in Nat
      /\ Len(History(m)') \in Nat /\ Len(History(n)') \in Nat
  <2>1. /\ History(m) \in Seq(Members) /\ History(n) \in Seq(Members)
        /\ History(m)' \in Seq(Members) /\ History(n)' \in Seq(Members)
    BY Zenon DEF RekeyTypeOK, History
  <2> QED BY <2>1
<1>4. /\ k <= Len(History(m)') /\ k <= Len(History(n)')
      /\ History(m)'[k] = History(m)[k] /\ History(n)'[k] = History(n)[k]
  BY <1>2, <1>3 DEF Prefix
<1>5. Differ(History(m)', History(n)')
  BY <1>2, <1>3, <1>4 DEF Differ
<1>6. Forked'
  <2>1. \A p, q \in Members : Extends(p, q)' <=> Prefix(History(q)', History(p)')
    <3> TAKE p, q \in Members
    <3>1. History(p)' \in Seq(Members) /\ History(q)' \in Seq(Members)
      BY Zenon DEF RekeyTypeOK, History
    <3> QED BY <3>1, Zenon DEF Extends, History
  <2>2. History(m)' \in Seq(Members) /\ History(n)' \in Seq(Members)
    BY Zenon DEF RekeyTypeOK, History
  <2>3. ~Prefix(History(m)', History(n)') /\ ~Prefix(History(n)', History(m)')
    BY <1>5, <2>2, IncomparableDiffer, Zenon
  <2> QED BY <2>1, <2>3, Zenon DEF Forked
<1> QED BY <1>6, Zenon

(* After Init all members follow the line of the two first commits.        *)
LEMMA OneLineInit ==
  ASSUME Init
  PROVE  OneLine
<1> DEFINE line == << Creator, Creator >>
<1>1. /\ line \in Seq(Members) /\ Len(line) = 2
      /\ \A m \in Members : History(m) = line
      /\ Creator \in Members
  BY CreatorIsMember, RekeyTypeInit
<1>2. \A m \in Members : outgoing[m] = << >> /\ inbox[m] = << >>
  BY Zenon DEF Init
<1>3. \A m \in Members : Queued(m) = << >>
  BY DEF Init, Queued, ClientInfo
<1>4. \A m \in Members : Undelivered(m) = << >>
  BY <1>2, <1>3 DEF Undelivered
<1> HIDE DEF line
<1>5. \A m \in Members : Follows(m, line, 2)
  <2> TAKE m \in Members
  <2>1. Len(History(m)) = 2 /\ Len(Undelivered(m)) = 0
    BY <1>1, <1>4
  <2>2. 1 .. 2 - Len(History(m)) = {}
    BY <2>1
  <2> QED BY <1>2, <2>1, <2>2 DEF Follows
<1>6. line[1] \notin DOMAIN groups
  BY Zenon DEF Init, EmptyMap
<1>7. Linear(line, 2)
  <2>1. \A m \in Members : Len(History(m)) = 2 /\ History(m) = line
    BY <1>1, Zenon
  <2>2. \A m \in Members : Prefix(History(m), line)
    <3>1. Prefix(line, line)
      BY <1>1 DEF Prefix
    <3> QED BY <2>1, <3>1, Zenon
  <2>3. 3 .. Len(line) = {}
    BY <1>1
  <2> QED BY <1>5, <1>6, <2>1, <2>2, <2>3 DEF Linear
<1> QED BY <1>1, <1>7 DEF OneLine

(* Fetching changes none of what the invariant speaks of.                  *)
LEMMA FetchKeepsLine ==
  ASSUME RekeyTypeOK, NEW m \in Members, Fetch(m), OneLine
  PROVE  OneLine'
<1>1. PICK line \in Seq(Members), d \in Nat :
        /\ 2 <= d /\ d <= Len(line)
        /\ \E l \in Members : History(l) = line
        /\ Linear(line, d)
  BY Zenon DEF OneLine
<1>2. /\ \A n \in Members : /\ History(n)' = History(n)
                            /\ Undelivered(n)' = Undelivered(n)
      /\ UNCHANGED << outgoing, groups, panicked >>
  BY FetchEffect, Zenon
<1>3. \A n \in Members : /\ Follows(n, line, d) => Follows(n, line, d)'
                         /\ Leads(n, line, d) => Leads(n, line, d)'
  BY <1>2, Zenon DEF Follows, Leads
<1>4. Linear(line, d)'
  BY <1>1, <1>2, <1>3, Zenon DEF Linear
<1> QED BY <1>1, <1>2, <1>4, Zenon DEF OneLine

(* Receiving: only a follower has commits to receive, and the oldest one   *)
(* is the commit that comes next on its history.                           *)
LEMMA ProcessKeepsLine ==
  ASSUME RekeyTypeOK, NEW m \in Members, Process(m), OneLine
  PROVE  OneLine' /\ UNCHANGED panicked /\ Prefix(History(m), History(m)')
<1>1. PICK line \in Seq(Members), d \in Nat :
        /\ 2 <= d /\ d <= Len(line)
        /\ \E l \in Members : History(l) = line
        /\ Linear(line, d)
  BY Zenon DEF OneLine
<1> DEFINE c == Head(Undelivered(m))
           h == History(m)
           n == Len(h)
<1>2. /\ Undelivered(m) # << >> /\ Undelivered(m) \in Seq(Commits)
      /\ Undelivered(m)' = Tail(Undelivered(m))
      /\ \A p \in Members \ {m} : /\ History(p)' = History(p)
                                  /\ Undelivered(p)' = Undelivered(p)
      /\ UNCHANGED << outgoing, groups >>
      /\ IF Processable(group[m], m, c)
           THEN History(m)' = Append(History(m), c.by) /\ UNCHANGED panicked
           ELSE History(m)' = History(m)
  BY ProcessEffect, Zenon
<1>3. /\ h \in Seq(Members) /\ n \in Nat /\ Len(line) \in Nat
      /\ n >= 2 /\ Prefix(h, line)
  BY <1>1, MemberTypes, Zenon DEF Linear
<1>4. /\ Follows(m, line, d) /\ n < d /\ Len(Undelivered(m)) = d - n
      /\ Committed(c, line, n + 1)
  <2>1. Follows(m, line, d)
    BY <1>1, <1>2, Zenon DEF Linear, Leads
  <2>2. Len(Undelivered(m)) \in Nat \ {0}
    BY <1>2
  <2>3. Len(Undelivered(m)) = d - n /\ n < d
    BY <1>1, <1>3, <2>1, <2>2 DEF Follows
  <2>4. Committed(Undelivered(m)[1], line, n + 1)
    BY <1>1, <1>3, <2>1, <2>3 DEF Follows
  <2>5. Undelivered(m)[1] = c
    BY <1>2, <2>2
  <2> QED BY <2>1, <2>3, <2>4, <2>5, Zenon
<1>5. c \in Commits
  BY <1>2
<1> HIDE DEF c
<1>6. Processable(group[m], m, c)
  <2>1. c.by = line[n + 1] /\ Len(c.on) = n /\ \A j \in 1 .. n : c.on[j] = line[j]
    BY <1>3, <1>4 DEF Committed
  <2>2. c.on \in Seq(Members)
    BY <1>5, Zenon DEF Commits
  <2>3. c.on = h
    <3>1. \A j \in 1 .. n : h[j] = line[j]
      BY <1>3, Zenon DEF Prefix
    <3>2. \A j \in 1 .. n : c.on[j] = h[j]
      BY <2>1, <3>1, Zenon
    <3> HIDE DEF h
    <3> QED BY <1>3, <2>1, <2>2, <3>2
  <2>4. line[n + 1] # m
    <3>1. n + 1 \in 3 .. Len(line) /\ ~(n + 1 <= n)
      BY <1>1, <1>3, <1>4
    <3>2. \A k \in 3 .. Len(line) : line[k] = m => k <= n
      BY <1>1, Zenon DEF Linear
    <3> QED BY <3>1, <3>2, Zenon
  <2> QED BY <2>1, <2>3, <2>4, Zenon DEF Processable, History
<1>7. /\ UNCHANGED panicked
      /\ History(m)' = Append(h, line[n + 1])
      /\ line[n + 1] \in Members
  BY <1>1, <1>2, <1>3, <1>4, <1>6 DEF Committed
<1>8. /\ Len(History(m)') = n + 1 /\ Prefix(History(m)', line) /\ Prefix(h, History(m)')
  <2>1. /\ Len(Append(h, line[n + 1])) = n + 1
        /\ \A i \in 1 .. n : Append(h, line[n + 1])[i] = h[i]
        /\ Append(h, line[n + 1])[n + 1] = line[n + 1]
    BY <1>3, <1>7
  <2> QED BY <1>1, <1>3, <1>4, <1>7, <2>1 DEF Prefix
<1> HIDE DEF h, n
<1>9. Follows(m, line, d)'
  <2>1. /\ Len(Tail(Undelivered(m))) = d - n - 1
        /\ \A i \in 1 .. d - n - 1 : Tail(Undelivered(m))[i] = Undelivered(m)[i + 1]
    BY <1>2, <1>4
  <2>2. \A i \in 1 .. d - n : Committed(Undelivered(m)[i], line, n + i)
    BY <1>4, Zenon DEF Follows, n, h
  <2>3. \A i \in 1 .. d - (n + 1) : Committed(Tail(Undelivered(m))[i], line, (n + 1) + i)
    <3> SUFFICES ASSUME NEW i \in 1 .. d - (n + 1)
                 PROVE  Committed(Tail(Undelivered(m))[i], line, (n + 1) + i)
      BY Zenon
    <3>1. i + 1 \in 1 .. d - n /\ i \in 1 .. d - n - 1 /\ n + (i + 1) = (n + 1) + i
      BY <1>1, <1>3
    <3> QED BY <2>1, <2>2, <3>1, Zenon
  <2>4. outgoing'[m] = << >>
    BY <1>2, <1>4, Zenon DEF Follows
  <2>5. d - n - 1 = d - (n + 1)
    BY <1>1, <1>3
  <2> QED BY <1>1, <1>2, <1>3, <1>4, <1>8, <2>1, <2>3, <2>4, <2>5 DEF Follows, Committed
<1>10. \A p \in Members \ {m} : /\ Follows(p, line, d) => Follows(p, line, d)'
                                /\ Leads(p, line, d) => Leads(p, line, d)'
  BY <1>2, Zenon DEF Follows, Leads
<1>11. \A p \in Members : /\ Len(History(p)') >= Len(History(p))
                          /\ Len(History(p)) \in Nat /\ Len(History(p)') \in Nat
                          /\ Prefix(History(p)', line)
  <2> TAKE p \in Members
  <2>1. CASE p = m
    BY <1>3, <1>8, <2>1 DEF n, h
  <2>2. CASE p # m
    <3>1. Len(History(p)) \in Nat /\ Prefix(History(p), line)
      BY <1>1, MemberTypes, Zenon DEF Linear
    <3> QED BY <1>2, <2>2, <3>1
  <2> QED BY <2>1, <2>2, Zenon
<1>12. Linear(line, d)'
  <2>1. \A p \in Members : Follows(p, line, d)' \/ Leads(p, line, d)'
    BY <1>1, <1>9, <1>10, Zenon DEF Linear
  <2>2. \A p \in Members : Len(History(p)') >= 2 /\ Prefix(History(p)', line)
    BY <1>1, <1>11 DEF Linear
  <2>3. \A p \in Members : \A k \in 3 .. Len(line) : line[k] = p => k <= Len(History(p)')
    <3> TAKE p \in Members
    <3> TAKE k \in 3 .. Len(line)
    <3>1. line[k] = p => k <= Len(History(p))
      BY <1>1, Zenon DEF Linear
    <3> QED BY <1>3, <1>11, <3>1
  <2>4. groups' = groups
    BY <1>2, Zenon
  <2> QED BY <1>1, <2>1, <2>2, <2>3, <2>4, Zenon DEF Linear
<1>13. \E l \in Members : History(l)' = line
  <2>1. PICK l \in Members : History(l) = line
    BY <1>1, Zenon
  <2>2. l # m
    BY <1>1, <1>3, <1>4, <2>1 DEF n, h
  <2> QED BY <1>2, <2>1, <2>2, Zenon
<1>14. OneLine'
  BY <1>1, <1>12, <1>13, Zenon DEF OneLine
<1> QED BY <1>7, <1>8, <1>14, Zenon DEF h

(* A commit keeps its place when the line grows.                           *)
LEMMA CommittedOnLonger ==
  ASSUME NEW c, NEW line \in Seq(Members), NEW x \in Members,
         NEW k \in 1 .. Len(line), Committed(c, line, k)
  PROVE  Committed(c, Append(line, x), k)
<1>1. /\ Len(line) \in Nat
      /\ \A i \in 1 .. Len(line) : Append(line, x)[i] = line[i]
  OBVIOUS
<1> QED BY <1>1 DEF Committed

(* Committing: a member that lags behind forks the group; one that is up   *)
(* to date extends the line and is from then on the only one to lead it.   *)
LEMMA RekeyKeepsLine ==
  ASSUME RekeyTypeOK, NEW m \in Members, Rekey(m), OneLine
  PROVE  Forked' \/ OneLine'
<1>1. PICK line \in Seq(Members), d \in Nat :
        /\ 2 <= d /\ d <= Len(line)
        /\ \E l \in Members : History(l) = line
        /\ Linear(line, d)
  BY Zenon DEF OneLine
<1> DEFINE h == History(m)
           n == Len(h)
           c == [by |-> m, on |-> h]
<1>2. /\ RekeyTypeOK'
      /\ h' = Append(h, m)
      /\ outgoing'[m] = Append(outgoing[m], c)
      /\ \A p \in Members \ {m} : History(p)' = History(p) /\ outgoing'[p] = outgoing[p]
      /\ \A p \in Members : Undelivered(p)' = Undelivered(p)
      /\ UNCHANGED << groups, panicked >>
  BY RekeyEffect, Zenon
<1>3. /\ h \in Seq(Members) /\ n \in Nat /\ Len(line) \in Nat
      /\ n >= 2 /\ Prefix(h, line) /\ n <= Len(line)
  BY <1>1, MemberTypes, Zenon DEF Linear, Prefix
<1>4. /\ Len(h') = n + 1 /\ h'[n + 1] = m
      /\ \A i \in 1 .. n : h'[i] = h[i]
  BY <1>2, <1>3
<1>5. PICK new \in Seq(Members) :
      /\ new = Append(line, m) /\ Len(new) = Len(line) + 1 /\ new[Len(line) + 1] = m
      /\ \A i \in 1 .. Len(line) : new[i] = line[i]
  <2>1. /\ Append(line, m) \in Seq(Members) /\ Len(Append(line, m)) = Len(line) + 1
        /\ Append(line, m)[Len(line) + 1] = m
        /\ \A i \in 1 .. Len(line) : Append(line, m)[i] = line[i]
    OBVIOUS
  <2> QED BY <2>1, Zenon
<1> HIDE DEF n
<1>6. CASE n < Len(line)
  <2>1. PICK l \in Members : History(l) = line
    BY <1>1, Zenon
  <2>2. l # m
    BY <1>3, <1>6, <2>1 DEF n
  <2>3. line[n + 1] # m
    <3>1. n + 1 \in 3 .. Len(line) /\ ~(n + 1 <= n)
      BY <1>3, <1>6
    <3>2. \A k \in 3 .. Len(line) : line[k] = m => k <= n
      BY <1>1, Zenon DEF Linear, n
    <3> QED BY <3>1, <3>2, Zenon
  <2>4. Differ(h', History(l)')
    <3>1. History(l)' = line
      BY <1>2, <2>1, <2>2, Zenon
    <3>2. /\ n + 1 \in 1 .. Len(h') /\ n + 1 <= Len(History(l)')
          /\ h'[n + 1] # History(l)'[n + 1]
      BY <1>3, <1>4, <1>6, <2>3, <3>1
    <3> HIDE DEF h
    <3> QED BY <3>2, Zenon DEF Differ
  <2>5. h' \in Seq(Members) /\ History(l)' \in Seq(Members)
    BY <1>2, Zenon DEF RekeyTypeOK, History
  <2>6. ~Prefix(h', History(l)') /\ ~Prefix(History(l)', h')
    BY <2>4, <2>5, IncomparableDiffer, Zenon
  <2> QED BY <2>6, Zenon DEF Forked, Extends, History
<1>7. CASE n = Len(line)
  <2>1. h = line
    BY <1>3, <1>7 DEF Prefix, n
  <2>2. Undelivered(m) = << >> /\ Len(outgoing[m]) = Len(line) - d
    <3>1. CASE Leads(m, line, d)
      BY <3>1, Zenon DEF Leads
    <3>2. CASE Follows(m, line, d)
      <4>1. n <= d /\ Len(Undelivered(m)) = d - n /\ outgoing[m] = << >>
        BY <3>2, Zenon DEF Follows, n
      <4>2. d = n /\ Len(Undelivered(m)) = 0 /\ Len(outgoing[m]) = 0
        BY <1>1, <1>3, <1>7, <4>1
      <4>3. Undelivered(m) \in Seq(Commits)
        BY MemberTypes, ConcatSeq, Zenon DEF Undelivered
      <4>4. Undelivered(m) = << >>
        BY <4>2, <4>3
      <4> QED BY <1>1, <1>3, <1>7, <4>2, <4>4
    <3> QED BY <1>1, <3>1, <3>2, Zenon DEF Linear
  <2>3. \A i \in 1 .. Len(line) - d :
          Committed(outgoing[m][i], line, d + i) /\ line[d + i] = m
    <3>1. CASE Leads(m, line, d)
      BY <3>1, Zenon DEF Leads
    <3>2. CASE Follows(m, line, d)
      <4>1. 1 .. Len(line) - d = {}
        BY <1>1, <1>3, <1>7, <3>2 DEF Follows, n
      <4> QED BY <4>1, Zenon
    <3> QED BY <1>1, <3>1, <3>2, Zenon DEF Linear
  <2>4. /\ Len(outgoing'[m]) = Len(line) - d + 1
        /\ \A i \in 1 .. Len(line) - d : outgoing'[m][i] = outgoing[m][i]
        /\ outgoing'[m][Len(line) - d + 1] = c
    <3>1. outgoing[m] \in Seq(Commits) /\ c \in Commits
      BY <1>3, MemberTypes, Zenon DEF Commits
    <3>2. outgoing'[m] = Append(outgoing[m], c)
      BY <1>2, Zenon
    <3> HIDE DEF c
    <3> QED BY <2>2, <3>1, <3>2, AppendedLast
  <2>5. Committed(c, new, Len(line) + 1)
    BY <1>3, <1>5, <1>7, <2>1 DEF Committed, n
  <2>6. \A i \in 1 .. Len(new) - d :
          Committed(outgoing'[m][i], new, d + i) /\ new[d + i] = m
    <3> TAKE i \in 1 .. Len(new) - d
    <3>1. CASE i \in 1 .. Len(line) - d
      <4>1. d + i \in 1 .. Len(line)
        BY <1>1, <1>3, <3>1
      <4>2. Committed(outgoing[m][i], line, d + i) /\ line[d + i] = m
        BY <2>3, <3>1, Zenon
      <4>3. Committed(outgoing[m][i], new, d + i)
        BY <1>5, <4>1, <4>2, CommittedOnLonger, Zenon
      <4> QED BY <1>5, <2>4, <3>1, <4>1, <4>2, <4>3, Zenon
    <3>2. CASE i = Len(line) - d + 1
      <4>1. d + i = Len(line) + 1
        BY <1>1, <1>3, <3>2
      <4> QED BY <1>5, <2>4, <2>5, <3>2, <4>1, Zenon
    <3>3. i \in 1 .. Len(line) - d \/ i = Len(line) - d + 1
      <4>1. i \in Nat /\ 1 <= i /\ i <= (Len(line) + 1) - d
        BY <1>1, <1>3, <1>5
      <4> QED BY <1>1, <1>3, <4>1
    <3> QED BY <3>1, <3>2, <3>3, Zenon
  <2>7. Leads(m, new, d)'
    <3>1. /\ Len(h') = Len(new) /\ d < Len(new) /\ Undelivered(m)' = << >>
          /\ Len(outgoing'[m]) = Len(new) - d
      BY <1>1, <1>2, <1>3, <1>4, <1>5, <1>7, <2>2, <2>4
    <3> QED BY <2>6, <3>1, Zenon DEF Leads, Committed
  <2>8. ASSUME NEW p \in Members \ {m} PROVE Follows(p, new, d)'
    <3>1. Follows(p, line, d)
      <4> SUFFICES ASSUME Leads(p, line, d) PROVE FALSE
        BY <1>1, Zenon DEF Linear
      <4>1. 1 \in 1 .. Len(line) - d
        BY <1>1, <1>3 DEF Leads
      <4>2. line[d + 1] = p
        BY <4>1, Zenon DEF Leads
      <4> QED BY <2>3, <4>1, <4>2, Zenon
    <3>2. /\ Len(History(p)) \in Nat /\ Len(History(p)) <= d
          /\ \A i \in 1 .. d - Len(History(p)) :
               Committed(Undelivered(p)[i], line, Len(History(p)) + i)
      BY <3>1, MemberTypes, Zenon DEF Follows
    <3>3. \A i \in 1 .. d - Len(History(p)) :
               Committed(Undelivered(p)[i], new, Len(History(p)) + i)
      <4> TAKE i \in 1 .. d - Len(History(p))
      <4>1. Len(History(p)) + i \in 1 .. Len(line)
        BY <1>1, <1>3, <3>2
      <4>2. Committed(Undelivered(p)[i], line, Len(History(p)) + i)
        BY <3>2, Zenon
      <4> QED BY <1>5, <4>1, <4>2, CommittedOnLonger, Zenon
    <3>4. /\ outgoing[p] = << >> /\ Len(Undelivered(p)) = d - Len(History(p))
          /\ Len(History(p)) <= d
      BY <3>1, Zenon DEF Follows
    <3>5. /\ History(p)' = History(p) /\ outgoing'[p] = outgoing[p]
          /\ Undelivered(p)' = Undelivered(p)
      BY <1>2, Zenon
    <3>6. Len(History(p))' = Len(History(p)) /\ Len(Undelivered(p))' = Len(Undelivered(p))
      BY <3>5, Zenon
    <3>7. PICK len, u : len = Len(History(p)) /\ u = Undelivered(p)
      BY Zenon
    <3>8. \A i \in 1 .. d - len : Committed(u[i], new, len + i)
      BY <3>3, <3>7, Zenon
    <3>9. /\ Len(History(p)') = len /\ Undelivered(p)' = u /\ outgoing'[p] = << >>
          /\ len <= d /\ Len(u) = d - len
      BY <3>4, <3>5, <3>6, <3>7, Zenon
    <3> QED BY <3>8, <3>9, Zenon DEF Follows, Committed
  <2>9. \A p \in Members : Len(History(p)') >= 2 /\ Prefix(History(p)', new)
    <3> TAKE p \in Members
    <3>1. CASE p = m
      <4>1. h' = new
        BY <1>2, <1>5, <2>1, Zenon
      <4> QED BY <1>3, <1>4, <1>5, <3>1, <4>1 DEF Prefix
    <3>2. CASE p # m
      <4>1. Len(History(p)) \in Nat /\ Len(History(p)) >= 2 /\ Prefix(History(p), line)
        BY <1>1, MemberTypes, Zenon DEF Linear
      <4> QED BY <1>2, <1>3, <1>5, <3>2, <4>1 DEF Prefix
    <3> QED BY <3>1, <3>2, Zenon
  <2>10. \A p \in Members : \A k \in 3 .. Len(new) : new[k] = p => k <= Len(History(p)')
    <3> TAKE p \in Members
    <3> TAKE k \in 3 .. Len(new)
    <3> SUFFICES ASSUME new[k] = p PROVE k <= Len(History(p)')
      BY Zenon
    <3>1. CASE p = m
      BY <1>3, <1>4, <1>5, <1>7, <3>1
    <3>2. CASE p # m
      <4>1. k \in 3 .. Len(line) /\ line[k] = p
        BY <1>3, <1>5, <3>2
      <4>2. k <= Len(History(p))
        BY <1>1, <4>1, Zenon DEF Linear
      <4> QED BY <1>2, <3>2, <4>2, Zenon
    <3> QED BY <3>1, <3>2, Zenon
  <2>11. new[1] = line[1] /\ groups' = groups
    <3>1. 1 \in 1 .. Len(line)
      BY <1>1, <1>3
    <3> QED BY <1>2, <1>5, <3>1, Zenon
  <2>12. Linear(new, d)'
    <3>1. \A p \in Members : Follows(p, new, d)' \/ Leads(p, new, d)'
      BY <2>7, <2>8, Zenon
    <3>2. line[1] \in DOMAIN groups => groups[line[1]] \in Nat /\ groups[line[1]] <= d - 2
      BY <1>1, Zenon DEF Linear
    <3> QED BY <2>9, <2>10, <2>11, <3>1, <3>2, Zenon DEF Linear
  <2>13. History(m)' = new
    BY <1>2, <1>5, <2>1, Zenon
  <2>14. 2 <= d /\ d <= Len(new)
    BY <1>1, <1>3, <1>5
  <2> QED BY <2>12, <2>13, <2>14, Zenon DEF OneLine
<1> QED BY <1>3, <1>6, <1>7

(* Sending: only the member that leads has commits to send; the oldest is  *)
(* the next on the line, and the service takes it, its epoch being above   *)
(* those it has seen.                                                      *)
LEMMA DistributeKeepsLine ==
  ASSUME RekeyTypeOK, NEW m \in Members, Distribute(m), OneLine
  PROVE  OneLine'
<1>1. PICK line \in Seq(Members), d \in Nat :
        /\ 2 <= d /\ d <= Len(line)
        /\ \E l \in Members : History(l) = line
        /\ Linear(line, d)
  BY Zenon DEF OneLine
<1> DEFINE c == Head(outgoing[m])
<1>2. /\ outgoing[m] # << >> /\ outgoing'[m] = Tail(outgoing[m])
      /\ Undelivered(m)' = Undelivered(m)
      /\ \A n \in Members \ {m} : outgoing'[n] = outgoing[n]
      /\ \A n \in Members : History(n)' = History(n)
      /\ UNCHANGED panicked
      /\ \/ EpochConflict(GroupId(c), CommitEpoch(c))
         \/ /\ groups' = MapInsert(groups, GroupId(c), CommitEpoch(c))
            /\ \A n \in Members \ {m} : Undelivered(n)' = Append(Undelivered(n), c)
  BY DistributeEffect, Zenon
<1>3. Leads(m, line, d) /\ d < Len(line) /\ Len(line) \in Nat
  <2>1. Leads(m, line, d)
    BY <1>1, <1>2, Zenon DEF Linear, Follows
  <2>2. d < Len(line) /\ Len(line) \in Nat
    BY <2>1 DEF Leads
  <2> QED BY <2>1, <2>2, Zenon
<1>4. /\ outgoing[m] \in Seq(Commits) /\ Len(outgoing[m]) = Len(line) - d
      /\ c \in Commits /\ c = outgoing[m][1]
      /\ Tail(outgoing[m]) \in Seq(Commits) /\ Len(Tail(outgoing[m])) = Len(line) - d - 1
      /\ \A i \in 1 .. Len(line) - d - 1 : Tail(outgoing[m])[i] = outgoing[m][i + 1]
  <2>1. outgoing[m] \in Seq(Commits) /\ Len(outgoing[m]) = Len(line) - d
    BY <1>3, MemberTypes, Zenon DEF Leads
  <2>2. /\ Head(outgoing[m]) \in Commits /\ Tail(outgoing[m]) \in Seq(Commits)
        /\ Len(Tail(outgoing[m])) = Len(outgoing[m]) - 1
        /\ \A i \in 1 .. Len(Tail(outgoing[m])) : Tail(outgoing[m])[i] = outgoing[m][i + 1]
    BY <1>2, <2>1
  <2>3. Head(outgoing[m]) = outgoing[m][1]
    BY <1>2, <2>1
  <2> QED BY <2>1, <2>2, <2>3, Zenon
<1>5. \A i \in 1 .. Len(line) - d :
        Committed(outgoing[m][i], line, d + i) /\ line[d + i] = m
  BY <1>3, Zenon DEF Leads
<1>6. 1 \in 1 .. Len(line) - d
  BY <1>1, <1>3
<1>7. Committed(c, line, d + 1) /\ line[d + 1] = m
  BY <1>4, <1>5, <1>6, Zenon
<1> HIDE DEF c
<1>8. GroupId(c) = line[1] /\ CommitEpoch(c) = d - 1
  <2>1. Len(c.on) = d /\ \A j \in 1 .. d : c.on[j] = line[j]
    BY <1>1, <1>7 DEF Committed
  <2>2. c.on \in Seq(Members) /\ c.on # << >>
    BY <1>1, <1>4, <2>1 DEF Commits
  <2>3. Head(c.on) = c.on[1] /\ 1 \in 1 .. d
    BY <1>1, <2>2
  <2> QED BY <2>1, <2>3, Zenon DEF GroupId, CommitEpoch
<1>9. /\ groups' = MapInsert(groups, line[1], d - 1)
      /\ \A n \in Members \ {m} : Undelivered(n)' = Append(Undelivered(n), c)
  <2>1. ~EpochConflict(line[1], d - 1)
    <3>1. line[1] \in DOMAIN groups => groups[line[1]] \in Nat /\ groups[line[1]] <= d - 2
      BY <1>1, Zenon DEF Linear
    <3> QED BY <1>1, <3>1 DEF EpochConflict
  <2> QED BY <1>2, <1>8, <2>1, Zenon
<1>10. groups'[line[1]] = d - 1
  BY <1>9, Zenon DEF MapInsert
<1>11. Follows(m, line, d + 1)' \/ Leads(m, line, d + 1)'
  <2>1. /\ Len(History(m)') = Len(line) /\ Undelivered(m)' = << >>
        /\ Len(outgoing'[m]) = Len(line) - d - 1
    BY <1>2, <1>3, <1>4, Zenon DEF Leads
  <2>2. CASE Len(line) = d + 1
    <3>1. outgoing'[m] = << >>
      <4>1. Len(Tail(outgoing[m])) = 0
        <5>1. Len(line) - d - 1 = 0
          BY <1>1, <1>3, <2>2
        <5> QED BY <1>4, <5>1, Zenon
      <4> QED BY <1>2, <1>4, <4>1, EmptyLength, Zenon
    <3>2. 1 .. (d + 1) - Len(line) = {} /\ (d + 1) - Len(line) = 0
      BY <1>1, <2>2
    <3>3. Len(Undelivered(m)') = 0
      BY <2>1
    <3> QED BY <1>1, <2>1, <2>2, <3>1, <3>2, <3>3 DEF Follows
  <2>3. CASE Len(line) > d + 1
    <3>1. \A i \in 1 .. Len(line) - (d + 1) :
            Committed(outgoing'[m][i], line, (d + 1) + i) /\ line[(d + 1) + i] = m
      <4> TAKE i \in 1 .. Len(line) - (d + 1)
      <4>1. /\ i \in 1 .. Len(line) - d - 1 /\ i + 1 \in 1 .. Len(line) - d
            /\ d + (i + 1) = (d + 1) + i
        BY <1>1, <1>3
      <4>2. outgoing'[m][i] = outgoing[m][i + 1]
        BY <1>2, <1>4, <4>1, Zenon
      <4>3. Committed(outgoing[m][i + 1], line, d + (i + 1)) /\ line[d + (i + 1)] = m
        BY <1>5, <4>1, Zenon
      <4> QED BY <4>1, <4>2, <4>3, Zenon
    <3>2. Len(line) - d - 1 = Len(line) - (d + 1) /\ d + 1 < Len(line)
      BY <1>1, <1>3, <2>3
    <3> QED BY <2>1, <3>1, <3>2, Zenon DEF Leads, Committed
  <2> QED BY <1>1, <1>3, <2>2, <2>3
<1>12. ASSUME NEW p \in Members \ {m} PROVE Follows(p, line, d + 1)'
  <2> DEFINE u == Undelivered(p)
             n == Len(History(p))
  <2>1. Follows(p, line, d)
    <3> SUFFICES ASSUME Leads(p, line, d) PROVE FALSE
      BY <1>1, Zenon DEF Linear
    <3>1. line[d + 1] = p
      BY <1>6, Zenon DEF Leads
    <3> QED BY <1>7, <3>1, Zenon
  <2>2. /\ n \in Nat /\ n <= d /\ outgoing[p] = << >> /\ Len(u) = d - n
        /\ \A i \in 1 .. d - n : Committed(u[i], line, n + i)
    BY <2>1, MemberTypes, Zenon DEF Follows
  <2>3. u \in Seq(Commits)
    BY MemberTypes, ConcatSeq, Zenon DEF Undelivered
  <2>4. /\ Len(u') = d - n + 1 /\ u'[d - n + 1] = c
        /\ \A i \in 1 .. d - n : u'[i] = u[i]
    <3>1. u' = Append(u, c)
      BY <1>9, Zenon
    <3> HIDE DEF u, n
    <3> QED BY <1>4, <2>2, <2>3, <3>1
  <2> HIDE DEF u, n
  <2>5. \A i \in 1 .. (d + 1) - n : Committed(u'[i], line, n + i)
    <3> TAKE i \in 1 .. (d + 1) - n
    <3>1. CASE i \in 1 .. d - n
      <4>1. Committed(u[i], line, n + i) /\ u'[i] = u[i]
        BY <2>2, <2>4, <3>1, Zenon
      <4> QED BY <4>1, Zenon
    <3>2. CASE i = d - n + 1
      <4>1. n + i = d + 1
        BY <1>1, <2>2, <3>2
      <4> QED BY <1>7, <2>4, <3>2, <4>1, Zenon
    <3>3. i \in 1 .. d - n \/ i = d - n + 1
      BY <1>1, <2>2
    <3> QED BY <3>1, <3>2, <3>3, Zenon
  <2>6. History(p)' = History(p) /\ outgoing'[p] = << >>
    BY <1>2, <2>2, Zenon
  <2>7. d - n + 1 = (d + 1) - n /\ n <= d + 1
    BY <1>1, <2>2
  <2> QED BY <2>4, <2>5, <2>6, <2>7, Zenon DEF Follows, Committed, u, n
<1>13. Linear(line, d + 1)'
  <2>1. \A p \in Members : Len(History(p)') >= 2 /\ Prefix(History(p)', line)
    BY <1>1, <1>2, Zenon DEF Linear
  <2>2. \A p \in Members : Follows(p, line, d + 1)' \/ Leads(p, line, d + 1)'
    BY <1>11, <1>12, Zenon
  <2>3. \A p \in Members : \A k \in 3 .. Len(line) : line[k] = p => k <= Len(History(p)')
    BY <1>1, <1>2, Zenon DEF Linear
  <2>4. groups'[line[1]] \in Nat /\ groups'[line[1]] <= (d + 1) - 2
    BY <1>1, <1>10
  <2> QED BY <2>1, <2>2, <2>3, <2>4, Zenon DEF Linear
<1>14. \E l \in Members : History(l)' = line
  BY <1>1, <1>2, Zenon
<1> QED BY <1>1, <1>3, <1>13, <1>14 DEF OneLine

(* A history that stays or grows by one commit is a prefix of the new one. *)
LEMMA Grows ==
  ASSUME NEW s \in Seq(Members), NEW t,
         t = s \/ \E x \in Members : t = Append(s, x)
  PROVE  Prefix(s, t)
<1>1. Len(s) \in Nat
  OBVIOUS
<1>2. CASE t = s
  BY <1>1, <1>2 DEF Prefix
<1>3. ASSUME NEW x \in Members, t = Append(s, x) PROVE Prefix(s, t)
  BY <1>1, <1>3 DEF Prefix
<1> QED BY <1>2, <1>3, Zenon

LEMMA RekeyStep ==
  ASSUME RekeyInv, [Next]_vars
  PROVE  RekeyInv'
<1>1. RekeyTypeOK /\ (Forked \/ (panicked = {} /\ OneLine))
  BY Zenon DEF RekeyInv
<1>2. ASSUME \A n \in Members : \/ History(n)' = History(n)
                               \/ \E x \in Members : History(n)' = Append(History(n), x)
      PROVE  \A n \in Members : Prefix(History(n), History(n)')
  <2> TAKE n \in Members
  <2>1. History(n) \in Seq(Members)
    BY <1>1, MemberTypes, Zenon
  <2>2. History(n)' = History(n) \/ \E x \in Members : History(n)' = Append(History(n), x)
    BY <1>2, Zenon
  <2> QED BY <2>1, <2>2, Grows, Zenon
<1>3. CASE UNCHANGED vars
  <2>1. RekeyTypeOK' /\ Forked' = Forked /\ panicked' = panicked
    BY <1>1, <1>3, Zenon DEF vars, dsVars, RekeyTypeOK, Forked, Extends, Infos, Commits, KeyPackageOf
  <2>2. OneLine' = OneLine
    BY <1>3 DEF vars, dsVars, OneLine, Linear, Follows, Leads, Undelivered, Queued,
                Committed, History, Prefix
  <2> QED BY <1>1, <2>1, <2>2, Zenon DEF RekeyInv
<1>4. ASSUME NEW m \in Members, Rekey(m) PROVE RekeyInv'
  <2>1. /\ RekeyTypeOK' /\ History(m)' = Append(History(m), m) /\ panicked' = panicked
        /\ \A n \in Members \ {m} : History(n)' = History(n)
    BY <1>1, <1>4, RekeyEffect, Zenon
  <2>2. \A n \in Members : Prefix(History(n), History(n)')
    BY <1>2, <2>1, Zenon
  <2>3. Forked => Forked'
    BY <1>1, <2>1, <2>2, ForkStays, Zenon
  <2>4. OneLine => Forked' \/ OneLine'
    BY <1>1, <1>4, RekeyKeepsLine, Zenon
  <2> QED BY <1>1, <2>1, <2>3, <2>4, Zenon DEF RekeyInv
<1>5. ASSUME NEW m \in Members, Distribute(m) PROVE RekeyInv'
  <2>1. /\ RekeyTypeOK' /\ panicked' = panicked
        /\ \A n \in Members : History(n)' = History(n)
    BY <1>1, <1>5, DistributeEffect, Zenon
  <2>2. \A n \in Members : Prefix(History(n), History(n)')
    BY <1>2, <2>1, Zenon
  <2>3. Forked => Forked'
    BY <1>1, <2>1, <2>2, ForkStays, Zenon
  <2>4. OneLine => OneLine'
    BY <1>1, <1>5, DistributeKeepsLine, Zenon
  <2> QED BY <1>1, <2>1, <2>3, <2>4, Zenon DEF RekeyInv
<1>6. ASSUME NEW m \in Members, Fetch(m) PROVE RekeyInv'
  <2>1. /\ RekeyTypeOK' /\ panicked' = panicked
        /\ \A n \in Members : History(n)' = History(n)
    BY <1>1, <1>6, FetchEffect, Zenon
  <2>2. \A n \in Members : Prefix(History(n), History(n)')
    BY <1>2, <2>1, Zenon
  <2>3. Forked => Forked'
    BY <1>1, <2>1, <2>2, ForkStays, Zenon
  <2>4. OneLine => OneLine'
    BY <1>1, <1>6, FetchKeepsLine, Zenon
  <2> QED BY <1>1, <2>1, <2>3, <2>4, Zenon DEF RekeyInv
<1>7. ASSUME NEW m \in Members, Process(m) PROVE RekeyInv'
  <2>1. /\ RekeyTypeOK'
        /\ \A n \in Members \ {m} : History(n)' = History(n)
        /\ \/ History(m)' = History(m)
           \/ /\ History(m)' = Append(History(m), Head(Undelivered(m)).by)
              /\ Head(Undelivered(m)) \in Commits
    <3>1. /\ RekeyTypeOK'
          /\ Undelivered(m) # << >> /\ Undelivered(m) \in Seq(Commits)
          /\ \A n \in Members \ {m} : History(n)' = History(n)
          /\ \/ History(m)' = History(m)
             \/ History(m)' = Append(History(m), Head(Undelivered(m)).by)
      BY <1>1, <1>7, ProcessEffect, Zenon
    <3>2. Head(Undelivered(m)) \in Commits
      BY <3>1
    <3> QED BY <3>1, <3>2, Zenon
  <2>2. \A n \in Members : Prefix(History(n), History(n)')
    <3>1. Head(Undelivered(m)) \in Commits => Head(Undelivered(m)).by \in Members
      BY Zenon DEF Commits
    <3> QED BY <1>2, <2>1, <3>1, Zenon
  <2>3. Forked => Forked'
    BY <1>1, <2>1, <2>2, ForkStays, Zenon
  <2>4. OneLine => OneLine' /\ panicked' = panicked
    BY <1>1, <1>7, ProcessKeepsLine, Zenon
  <2> QED BY <1>1, <2>1, <2>3, <2>4, Zenon DEF RekeyInv
<1> QED BY <1>3, <1>4, <1>5, <1>6, <1>7, Zenon DEF Next, CatchUp

(* RekeyInv holds of every reachable state: as long as the group has not   *)
(* forked nobody has panicked, and all histories lie on one line that each *)
(* member is a bounded number of deliveries behind.                        *)
THEOREM RekeyInvariant == Spec => []RekeyInv
<1>1. Init => RekeyInv
  <2> SUFFICES ASSUME Init PROVE RekeyInv
    BY Zenon
  <2>1. panicked = {}
    BY Zenon DEF Init
  <2> QED BY <2>1, RekeyTypeInit, OneLineInit, Zenon DEF RekeyInv
<1>2. RekeyInv /\ [Next]_vars => RekeyInv'
  BY RekeyStep, Zenon
<1> QED BY <1>1, <1>2, PTL DEF Spec

(* process_commit fails only in a forked group: as long as no two members  *)
(* committed on the same state, the queues of the delivery service hand    *)
(* each member every commit of the others, once and in order.              *)
THEOREM PanicOnlyAfterFork == Spec => []PanicMeansFork
<1>1. RekeyInv => PanicMeansFork
  BY Zenon DEF RekeyInv, PanicMeansFork
<1> QED BY <1>1, RekeyInvariant, PTL

(* What follows when m processes what is under way to it is a beginning of *)
(* the line; n's history is one, too.                                      *)
LEMMA LineReaches ==
  ASSUME RekeyTypeOK, NEW line \in Seq(Members), NEW d \in Nat, d <= Len(line),
         Linear(line, d), NEW m \in Members, NEW n \in Members
  PROVE  Reaches(Undelivered(m) \o outgoing[n], History(m), History(n))
<1> DEFINE u == Undelivered(m)
           o == outgoing[n]
           hm == Len(History(m))
           hn == Len(History(n))
<1>1. /\ u \in Seq(Commits) /\ o \in Seq(Commits)
      /\ hm \in Nat /\ hn \in Nat /\ Len(line) \in Nat
      /\ hm <= Len(line) /\ hn <= Len(line)
  <2>1. u \in Seq(Commits) /\ o \in Seq(Commits) /\ hm \in Nat /\ hn \in Nat
    BY MemberTypes, ConcatSeq, Zenon DEF Undelivered
  <2>2. Prefix(History(m), line) /\ Prefix(History(n), line)
    BY Zenon DEF Linear
  <2>3. hm <= Len(line) /\ hn <= Len(line)
    BY <2>2, Zenon DEF Prefix
  <2> HIDE DEF u, o, hm, hn
  <2> QED BY <2>1, <2>3
<1>2. \A k \in 1 .. hn : History(n)[k] = line[k]
  BY Zenon DEF Linear, Prefix
<1> SUFFICES ASSUME NEW k \in hm + 1 .. hn
             PROVE  /\ k - hm \in 1 .. Len(u \o o)
                    /\ Committed((u \o o)[k - hm], History(n), k)
  BY Zenon DEF Reaches
<1>3. /\ hm <= d /\ Len(u) = d - hm
      /\ \A i \in 1 .. d - hm : Committed(u[i], line, hm + i)
  <2>1. ~Leads(m, line, d)
    <3>1. Leads(m, line, d) => hm = Len(line)
      BY Zenon DEF Leads
    <3> HIDE DEF u, o, hm, hn
    <3> QED BY <1>1, <3>1
  <2>2. Follows(m, line, d)
    BY <2>1, Zenon DEF Linear
  <2> QED BY <2>2, Zenon DEF Follows
<1>4. \/ hn <= d
      \/ /\ Len(o) = Len(line) - d
         /\ \A i \in 1 .. Len(line) - d : Committed(o[i], line, d + i)
  BY Zenon DEF Linear, Follows, Leads
<1>5. ASSUME NEW c, Committed(c, line, k) PROVE Committed(c, History(n), k)
  <2>1. k \in 1 .. hn /\ \A j \in 1 .. k - 1 : j \in 1 .. hn
    <3> HIDE DEF hm, hn
    <3> QED BY <1>1
  <2> QED BY <1>2, <1>5, <2>1, Zenon DEF Committed
<1> HIDE DEF u, o, hm, hn
<1>6. /\ Len(u \o o) = Len(u) + Len(o)
      /\ \A i \in 1 .. Len(u) : (u \o o)[i] = u[i]
      /\ \A i \in 1 .. Len(o) : (u \o o)[Len(u) + i] = o[i]
  BY <1>1
<1>7. CASE k <= d
  <2>1. k - hm \in 1 .. d - hm /\ hm + (k - hm) = k /\ k - hm \in 1 .. Len(u \o o)
    BY <1>1, <1>3, <1>6, <1>7
  <2>2. Committed((u \o o)[k - hm], line, k)
    BY <1>3, <1>6, <2>1, Zenon
  <2> QED BY <1>5, <2>1, <2>2, Zenon
<1>8. CASE ~(k <= d)
  <2>1. ~(hn <= d)
    BY <1>1, <1>8
  <2>2. /\ k - d \in 1 .. Len(line) - d /\ k - d \in 1 .. Len(o) /\ d + (k - d) = k
        /\ k - hm = Len(u) + (k - d) /\ k - hm \in 1 .. Len(u \o o)
    BY <1>1, <1>3, <1>4, <1>6, <1>8, <2>1
  <2>3. Committed((u \o o)[k - hm], line, k)
    BY <1>4, <1>6, <2>1, <2>2, Zenon
  <2> QED BY <1>5, <2>2, <2>3, Zenon
<1> QED BY <1>7, <1>8, Zenon

(* In a group that has not forked no commit a member needs is ever lost,   *)
(* repeated, out of order or refused: what is under way to a member leads  *)
(* it to the state of every member that is ahead.                          *)
THEOREM MembersCanFollow == Spec => []NobodyIsStranded
<1>1. RekeyInv => NobodyIsStranded
  <2> SUFFICES ASSUME RekeyTypeOK, OneLine, NEW m \in Members, NEW n \in Members
               PROVE  Reaches(Undelivered(m) \o outgoing[n], History(m), History(n))
    BY Zenon DEF RekeyInv, NobodyIsStranded, History
  <2>1. PICK line \in Seq(Members), d \in Nat :
          2 <= d /\ d <= Len(line) /\ Linear(line, d)
    BY Zenon DEF OneLine
  <2> QED BY <2>1, LineReaches, Zenon
<1> QED BY <1>1, RekeyInvariant, PTL
=============================================================================
