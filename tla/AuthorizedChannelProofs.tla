------------------------- MODULE AuthorizedChannelProofs -------------------------
(* Theorems about AuthorizedChannel, for every set of users, devices, sessions,  *)
(* connections, documents and frames and every value of the limits: the rows and *)
(* the sockets, who is sent what and when, how long messages are kept, and that  *)
(* the alarm is never late.                                                      *)
EXTENDS AuthorizedChannel, FiniteSetTheorems, WellFoundedInduction, TLAPS

-----------------------------------------------------------------------------
(* Sockets.                                                                 *)

\* Closing or revoking sockets keeps the shape of the table, and of a socket's
\* fields changes only the phase (and, for a revoked one, the mark).
LEMMA CloseType ==
  ASSUME NEW S \in [Conns -> SocketType], NEW C
  PROVE  /\ Close(S, C) \in [Conns -> SocketType]
         /\ \A c \in Conns : /\ Close(S, C)[c].sess = S[c].sess
                             /\ Close(S, C)[c].revoked = S[c].revoked
                             /\ Close(S, C)[c].expires = S[c].expires
                             /\ Close(S, C)[c].bind = S[c].bind
                             /\ c \in Listed(Close(S, C)) <=> c \in Listed(S)
  BY DEF Close, SocketType, Listed

\* Marking sockets revoked changes nothing else of them.
LEMMA RevokeType ==
  ASSUME NEW S \in [Conns -> SocketType], NEW C
  PROVE  /\ Revoke(S, C) \in [Conns -> SocketType]
         /\ \A c \in Conns : /\ Revoke(S, C)[c].sess = S[c].sess
                             /\ Revoke(S, C)[c].revoked <=> (c \in C \/ S[c].revoked)
                             /\ Revoke(S, C)[c].expires = S[c].expires
                             /\ c \in Listed(Revoke(S, C)) <=> c \in Listed(S)
  <1> DEFINE M == [c \in Conns |-> IF c \in C THEN [S[c] EXCEPT !.revoked = TRUE] ELSE S[c]]
  <1>1. M \in [Conns -> SocketType]
    BY DEF SocketType
  <1>2. \A c \in Conns : /\ M[c].sess = S[c].sess
                         /\ M[c].revoked <=> (c \in C \/ S[c].revoked)
                         /\ M[c].expires = S[c].expires
                         /\ M[c].phase = S[c].phase
    BY DEF SocketType
  <1>3. Revoke(S, C) = Close(M, C)
    BY DEF Revoke
  <1>4. \A c \in Conns : c \in Listed(M) <=> c \in Listed(S)
    BY <1>2 DEF Listed
  <1> HIDE DEF M
  <1> QED
    BY <1>1, <1>2, <1>3, <1>4, CloseType

\* A member list goes to sockets, and to none that was revoked.
LEMMA BroadcastType ==
  ASSUME TypeOK, NEW S \in [Conns -> SocketType], NEW C
  PROVE  /\ Broadcast(S, C) \in [Conns -> SUBSET Conns]
         /\ \A c \in Conns : S[c].revoked => Broadcast(S, C)[c] = roster[c]
  BY DEF Broadcast, TypeOK, ActiveIn, ActiveSession, Listed

\* A socket that was never opened is well typed.
LEMMA UnusedType == Unused \in SocketType
  <1>1. (CHOOSE s \in Sessions : TRUE) \in Sessions
    BY ChannelAssumption
  <1> QED
    BY <1>1 DEF Unused, SocketType

\* Leases that have not ended are times.
LEMMA GrantsType == ASSUME TypeOK PROVE LiveGrants \in [Devices -> Nat]
  BY DEF LiveGrants, TypeOK

\* Reading the history gives frames.
LEMMA SnapshotType ==
  ASSUME TypeOK, NEW u PROVE SnapshotFor(u) \subseteq Frames
  <1>1. History(rows, u) \subseteq Frames
    BY DEF History, TypeOK, RowType
  <1>2. \A k \in Keys : Written(k) => states[k] \in Frames
    BY DEF Written, TypeOK
  <1> QED
    BY <1>1, <1>2 DEF SnapshotFor

\* A fan-out hands frames to connections.
LEMMA FanOutType ==
  ASSUME TypeOK, NEW c \in Conns, NEW f \in Frames, FanOut(c, f)
  PROVE  /\ got' \in [Conns -> SUBSET Frames]
         /\ acks' \in SUBSET (Conns \X Frames)
  BY DEF FanOut, TypeOK

\* The next alarm is a deadline, or what it would otherwise be.
LEMMA ScheduleType ==
  ASSUME TypeOK, NEW S \in [Conns -> SocketType], NEW R \in SUBSET RowType,
         NEW n \in Nat, ScheduleAlarm(S, R, n)
  PROVE  alarm' \in Nat
  <1>1. \A r \in R : r.at + Retention \in Nat
    BY ChannelAssumption DEF RowType, Times
  <1>2. \A c \in Conns : S[c].expires \in Nat
    BY DEF SocketType
  <1>3. Deadlines(S, R) \subseteq Nat
    BY <1>1, <1>2 DEF Deadlines, ActiveIn, Listed
  <1> QED
    BY <1>3 DEF ScheduleAlarm

-----------------------------------------------------------------------------
(* Type correctness.                                                        *)

\* Every variable keeps its type: the tables, attachments and replies of the
\* object hold what the schema and the handlers let them hold.
THEOREM TypeCorrect == Spec => []TypeOK
<1>1. Init => TypeOK
  BY UnusedType, ChannelAssumption DEF Init, TypeOK, Times
<1>2. TypeOK /\ [Next]_vars => TypeOK'
  <2> SUFFICES ASSUME TypeOK, [Next]_vars PROVE TypeOK'
    OBVIOUS
  <2> USE DEF stored
  <2>1. ASSUME NEW d \in Devices, NEW doc \in Docs, NEW ttl \in 1 .. Lease,
             Authorize(d, doc, ttl) PROVE TypeOK'
    <3>1. sock' \in [Conns -> SocketType]
      BY <2>1, RevokeType DEF Authorize, Install, DropRevoked, TypeOK
    <3>2. authority' \in Docs \cup {NoDoc} /\ members' \in SUBSET Users
      BY <2>1, ChannelAssumption DEF Authorize, Install, TypeOK, DocType
    <3>3. grants' \in [Devices -> Nat]
      BY <2>1, ChannelAssumption DEF Authorize, TypeOK, Times
    <3> QED
      BY <2>1, <3>1, <3>2, <3>3 DEF Authorize, TypeOK
  <2>2. ASSUME NEW c \in Conns, NEW s \in Sessions, Fetch(c, s) PROVE TypeOK'
    <3>1. sock' \in [Conns -> SocketType]
      BY <2>2, UnusedType DEF Fetch, TypeOK, SocketType
    <3> QED
      BY <2>2, <3>1, GrantsType DEF Fetch, TypeOK, Prune
  <2>3. ASSUME NEW c \in Conns, BindRefused(c) PROVE TypeOK'
    <3>1. [sock EXCEPT ![c].bind = FALSE] \in [Conns -> SocketType]
      BY DEF TypeOK, SocketType
    <3> QED
      BY <2>3, <3>1, CloseType DEF BindRefused, TypeOK
  <2>4. ASSUME NEW c \in Conns, NEW e \in SessionEnds, BindAnswered(c, e) PROVE TypeOK'
    <3> DEFINE refused == [sock EXCEPT ![c].bind = FALSE]
               bound == [sock EXCEPT ![c] = [@ EXCEPT !.bind = FALSE, !.expires = e]]
    <3> e \in Nat
      BY ChannelAssumption
    <3>a. [sock[c] EXCEPT !.bind = FALSE, !.expires = e] \in SocketType
      BY DEF TypeOK, SocketType
    <3>b. refused \in [Conns -> SocketType]
      BY DEF TypeOK, SocketType
    <3>c. bound \in [Conns -> SocketType]
      BY <3>a DEF TypeOK
    <3>1. refused \in [Conns -> SocketType] /\ bound \in [Conns -> SocketType]
      BY <3>b, <3>c
    <3>2. Close(refused, {c}) \in [Conns -> SocketType] /\ Close(bound, {c}) \in [Conns -> SocketType]
      BY <3>1, CloseType
    <3>3. Broadcast(bound, {}) \in [Conns -> SUBSET Conns]
      BY <3>1, BroadcastType
    <3>4. sock' \in [Conns -> SocketType]
      BY <2>4, <3>1, <3>2 DEF BindAnswered
    <3>5. alarm' \in Nat
      BY <2>4, <3>1 DEF BindAnswered, TypeOK
    <3>6. got' \in [Conns -> SUBSET Frames]
      BY <2>4, SnapshotType DEF BindAnswered, TypeOK
    <3>7. roster' \in [Conns -> SUBSET Conns]
      BY <2>4, <3>3 DEF BindAnswered, TypeOK
    <3>8. UNCHANGED <<clock, storing, acks, stored>>
      BY <2>4 DEF BindAnswered
    <3> QED
      BY <3>4, <3>5, <3>6, <3>7, <3>8 DEF TypeOK
  <2>5. ASSUME NEW c \in Conns, DropInactive(c) \/ DropAbusive(c) PROVE TypeOK'
    BY <2>5, CloseType DEF DropInactive, DropAbusive, TypeOK
  <2>6. ASSUME NEW c \in Conns, NEW f \in Frames, PutState(c, f) PROVE TypeOK'
    <3>1. acks' \in SUBSET (Conns \X Frames) /\ got' \in [Conns -> SUBSET Frames]
      BY <2>6, FanOutType DEF PutState, TypeOK
    <3>2. states' \in [Keys -> Frames \cup {NoState}]
      BY <2>6 DEF PutState, TypeOK
    <3> QED
      BY <2>6, <3>1, <3>2 DEF PutState, TypeOK
  <2>7. ASSUME NEW c \in Conns, NEW f \in Frames, Forward(c, f) PROVE TypeOK'
    BY <2>7, FanOutType DEF Forward, TypeOK
  <2>8. ASSUME NEW c \in Conns, NEW f \in Frames, AckDuplicate(c, f) PROVE TypeOK'
    BY <2>8 DEF AckDuplicate, TypeOK
  <2>9. ASSUME NEW c \in Conns, NEW f \in Frames, Store(c, f) PROVE TypeOK'
    <3> DEFINE row == [seq |-> nextSeq, msg |-> f, at |-> clock, via |-> c]
    <3>1. row \in RowType
      BY DEF TypeOK, RowType
    <3>2. rows' \in SUBSET RowType /\ log' \in SUBSET RowType
      BY <2>9, <3>1 DEF Store, TypeOK, Prune, Trim
    <3>3. sock' \in [Conns -> SocketType]
      BY <2>9, CloseType DEF Store, ExpireSockets, TypeOK
    <3>4. alarm' \in Nat
      BY <2>9, <3>2, <3>3, ScheduleType DEF Store, TypeOK
    <3>5. storing' \in SUBSET (Conns \X Frames) /\ nextSeq' \in Nat
      BY <2>9 DEF Store, TypeOK
    <3>6. UNCHANGED <<clock, authority, members, grants, states, acks, got, roster>>
      BY <2>9 DEF Store
    <3> QED
      BY <3>2, <3>3, <3>4, <3>5, <3>6 DEF TypeOK
  <2>10. ASSUME NEW c \in Conns, NEW f \in Frames, FinishStore(c, f) PROVE TypeOK'
    <3>1. acks' \in SUBSET (Conns \X Frames) /\ got' \in [Conns -> SUBSET Frames]
      BY <2>10, FanOutType DEF FinishStore, TypeOK
    <3> QED
      BY <2>10, <3>1 DEF FinishStore, TypeOK
  <2>11. ASSUME NEW c \in Conns, CloseEvent(c) PROVE TypeOK'
    <3>1. sock' \in [Conns -> SocketType]
      BY <2>11 DEF CloseEvent, TypeOK, SocketType
    <3>2. roster' \in [Conns -> SUBSET Conns]
      BY <2>11, BroadcastType DEF CloseEvent, TypeOK
    <3> QED
      BY <2>11, <3>1, <3>2 DEF CloseEvent, TypeOK
  <2>12. ASSUME NEW s \in Sessions, RevokeSession(s) PROVE TypeOK'
    <3>1. sock' \in [Conns -> SocketType]
      BY <2>12, RevokeType DEF RevokeSession, TypeOK
    <3>2. roster' \in [Conns -> SUBSET Conns]
      BY <2>12, <3>1, BroadcastType DEF RevokeSession
    <3> QED
      BY <2>12, <3>1, <3>2 DEF RevokeSession, TypeOK
  <2>13. CASE Alarm
    <3>1. sock' \in [Conns -> SocketType] /\ rows' \in SUBSET RowType
      BY <2>13, CloseType DEF Alarm, ExpireSockets, TypeOK, Prune
    <3>2. alarm' \in Nat
      BY <2>13, <3>1, ScheduleType DEF Alarm
    <3> QED
      BY <2>13, <3>1, <3>2, GrantsType DEF Alarm, TypeOK
  <2>14. CASE Restart
    <3>1. sock' \in [Conns -> SocketType]
      BY <2>14 DEF Restart, TypeOK, SocketType
    <3> QED
      BY <2>14, <3>1 DEF Restart, TypeOK
  <2>15. CASE Tick
    BY <2>15, ChannelAssumption DEF Tick, TypeOK, Times
  <2>16. CASE UNCHANGED vars
    BY <2>16 DEF vars, TypeOK
  <2> QED
    BY <2>1, <2>2, <2>3, <2>4, <2>5, <2>6, <2>7, <2>8, <2>9, <2>10, <2>11, <2>12,
       <2>13, <2>14, <2>15, <2>16 DEF Next
<1> QED
  BY <1>1, <1>2, PTL DEF Spec

-----------------------------------------------------------------------------
(* Membership.                                                              *)

\* The strengthening: not only the active sockets but every listed one that is
\* not revoked, bound or still being bound, belongs to a current member.
UnrevokedAreMembers ==
  \A c \in Listed(sock) : ~sock[c].revoked => User(sock, c) \in members

\* UnrevokedAreMembers after a step, in terms of the sockets and members after it.
LEMMA UnrevokedPrimed ==
  ASSUME \A d \in Conns : d \in Listed(sock') /\ ~sock'[d].revoked
                            => UserOf[DeviceOf[sock'[d].sess]] \in members'
  PROVE  UnrevokedAreMembers'
  <1>1. Listed(sock)' = Listed(sock') /\ Listed(sock') \subseteq Conns
    BY DEF Listed
  <1> QED
    BY <1>1 DEF UnrevokedAreMembers, User

\* A step that lists no new socket, takes back no mark and keeps the members.
LEMMA UnrevokedFrame ==
  ASSUME UnrevokedAreMembers, members' = members,
         \A d \in Conns : d \in Listed(sock') /\ ~sock'[d].revoked
                            => /\ d \in Listed(sock) /\ ~sock[d].revoked
                               /\ sock'[d].sess = sock[d].sess
  PROVE  UnrevokedAreMembers'
  <1>1. \A d \in Listed(sock) : ~sock[d].revoked => UserOf[DeviceOf[sock[d].sess]] \in members
    BY DEF UnrevokedAreMembers, User
  <1> QED
    BY <1>1, UnrevokedPrimed

\* Every step keeps the sockets that are not revoked those of members.
LEMMA UnrevokedInductive ==
  ASSUME TypeOK, UnrevokedAreMembers, [Next]_vars
  PROVE  UnrevokedAreMembers'
<1> USE DEF stored
<1>0. sock \in [Conns -> SocketType]
  BY DEF TypeOK
<1>1. ASSUME NEW d \in Devices, NEW doc \in Docs, NEW ttl \in 1 .. Lease,
             Authorize(d, doc, ttl)
      PROVE  UnrevokedAreMembers'
  <2>1. CASE Newer(doc)
    <3> DEFINE C == {c \in Listed(sock) : User(sock, c) \notin doc.members}
    <3>1. sock' = Revoke(sock, C) /\ members' = doc.members
      BY <1>1, <2>1 DEF Authorize, Install, DropRevoked
    <3>2. \A c \in Conns : c \in Listed(sock) /\ c \notin C
                            => UserOf[DeviceOf[sock[c].sess]] \in doc.members
      BY DEF User
    <3> HIDE DEF C
    <3>3. \A c \in Conns : /\ sock'[c].sess = sock[c].sess
                           /\ sock'[c].revoked <=> (c \in C \/ sock[c].revoked)
                           /\ c \in Listed(sock') <=> c \in Listed(sock)
      BY <1>0, <3>1, RevokeType
    <3> QED
      BY <3>1, <3>2, <3>3, UnrevokedPrimed
  <2>2. CASE ~Newer(doc)
    BY <1>1, <2>2 DEF Authorize, Install, UnrevokedAreMembers, Listed, User
  <2> QED
    BY <2>1, <2>2
<1>2. ASSUME NEW c \in Conns, NEW s \in Sessions, Fetch(c, s) PROVE UnrevokedAreMembers'
  <2>1. CASE Admitted(s)
    <3> DEFINE new == [Unused EXCEPT !.phase = "open", !.bind = TRUE, !.sess = s]
    <3>1. sock' = [sock EXCEPT ![c] = new] /\ new.sess = s
      BY <1>2, <2>1 DEF Fetch, Unused
    <3>2. UserOf[DeviceOf[s]] \in members /\ members' = members
      BY <1>2, <2>1 DEF Fetch, Admitted
    <3> HIDE DEF new
    <3>3. \A d \in Conns : d # c => sock'[d] = sock[d]
      BY <1>0, <3>1
    <3>4. sock'[c].sess = s
      BY <1>0, <3>1
    <3> QED
      BY <3>2, <3>3, <3>4 DEF UnrevokedAreMembers, User, Listed
  <2>2. CASE ~Admitted(s)
    BY <1>2, <2>2 DEF Fetch, UnrevokedAreMembers, Listed, User
  <2> QED
    BY <2>1, <2>2
<1>3. ASSUME NEW c \in Conns, BindRefused(c) PROVE UnrevokedAreMembers'
  <2> DEFINE free == [sock EXCEPT ![c].bind = FALSE]
  <2>1. /\ free \in [Conns -> SocketType]
        /\ \A d \in Conns : /\ free[d].sess = sock[d].sess
                            /\ free[d].revoked = sock[d].revoked
                            /\ free[d].phase = sock[d].phase
    BY <1>0 DEF SocketType
  <2>2. sock' = Close(free, {c}) /\ members' = members
    BY <1>3 DEF BindRefused
  <2> HIDE DEF free
  <2> QED
    BY <2>1, <2>2, CloseType DEF UnrevokedAreMembers, User, Listed
<1>4. ASSUME NEW c \in Conns, NEW e \in SessionEnds, BindAnswered(c, e)
      PROVE  UnrevokedAreMembers'
  <2> DEFINE free == [sock EXCEPT ![c].bind = FALSE]
             bound == [sock EXCEPT ![c] = [@ EXCEPT !.bind = FALSE, !.expires = e]]
  <2>1. /\ free \in [Conns -> SocketType]
        /\ \A d \in Conns : /\ free[d].sess = sock[d].sess
                            /\ free[d].revoked = sock[d].revoked
                            /\ free[d].phase = sock[d].phase
    BY <1>0 DEF SocketType
  <2>2. e \in Nat
    BY ChannelAssumption
  <2>3. [sock[c] EXCEPT !.bind = FALSE, !.expires = e] \in SocketType
    BY <1>0, <2>2 DEF SocketType
  <2>4. /\ bound \in [Conns -> SocketType]
        /\ \A d \in Conns : /\ bound[d].sess = sock[d].sess
                            /\ bound[d].revoked = sock[d].revoked
                            /\ bound[d].phase = sock[d].phase
    BY <1>0, <2>3 DEF SocketType
  <2>5. sock' \in {bound, Close(free, {c}), Close(bound, {c})} /\ members' = members
    BY <1>4 DEF BindAnswered
  <2> HIDE DEF free, bound
  <2> QED
    BY <2>1, <2>4, <2>5, CloseType DEF UnrevokedAreMembers, User, Listed
<1>5. ASSUME NEW c \in Conns, DropInactive(c) \/ DropAbusive(c) PROVE UnrevokedAreMembers'
  <2>1. sock' = Close(sock, {c}) /\ members' = members
    BY <1>5 DEF DropInactive, DropAbusive
  <2> QED
    BY <1>0, <2>1, CloseType DEF UnrevokedAreMembers, User, Listed
<1>6. ASSUME NEW c \in Conns, NEW f \in Frames,
             PutState(c, f) \/ Forward(c, f) \/ AckDuplicate(c, f) \/ FinishStore(c, f)
      PROVE  UnrevokedAreMembers'
  <2>1. sock' = sock /\ members' = members
    BY <1>6 DEF PutState, Forward, AckDuplicate, FinishStore
  <2> QED
    BY <2>1 DEF UnrevokedAreMembers, User, Listed
<1>7. ASSUME sock' = ExpireSockets(sock), members' = members PROVE UnrevokedAreMembers'
  BY <1>0, <1>7, CloseType DEF ExpireSockets, UnrevokedAreMembers, User, Listed
<1>8. ASSUME NEW c \in Conns, NEW f \in Frames, Store(c, f) PROVE UnrevokedAreMembers'
  BY <1>7, <1>8 DEF Store
<1>9. ASSUME NEW c \in Conns, CloseEvent(c) PROVE UnrevokedAreMembers'
  <2>1. /\ members' = members
        /\ \A d \in Conns : /\ sock'[d].sess = sock[d].sess
                            /\ sock'[d].revoked = sock[d].revoked
                            /\ d # c => sock'[d].phase = sock[d].phase
        /\ sock'[c].phase = "closed"
    BY <1>0, <1>9 DEF CloseEvent, SocketType
  <2>2. \A d \in Conns : d \in Listed(sock') => d \in Listed(sock)
    BY <2>1 DEF Listed
  <2> QED
    BY <2>1, <2>2, UnrevokedFrame
<1>10. ASSUME NEW s \in Sessions, RevokeSession(s) PROVE UnrevokedAreMembers'
  <2> DEFINE C == {c \in Listed(sock) : sock[c].sess = s}
  <2>1. sock' = Revoke(sock, C) /\ members' = members
    BY <1>10 DEF RevokeSession
  <2> HIDE DEF C
  <2>2. \A c \in Conns : /\ sock'[c].sess = sock[c].sess
                         /\ sock'[c].revoked <=> (c \in C \/ sock[c].revoked)
                         /\ c \in Listed(sock') <=> c \in Listed(sock)
    BY <1>0, <2>1, RevokeType
  <2> QED
    BY <2>1, <2>2, UnrevokedFrame
<1>11. CASE Alarm
  BY <1>7, <1>11 DEF Alarm
<1>12. CASE Restart
  <2>1. \A c \in Conns : sock'[c].phase \in {"unused", "closed"}
    BY <1>0, <1>12 DEF Restart, SocketType
  <2> QED
    BY <2>1 DEF UnrevokedAreMembers, User, Listed
<1>13. CASE Tick \/ UNCHANGED vars
  <2>1. sock' = sock /\ members' = members
    BY <1>13 DEF Tick, vars
  <2> QED
    BY <2>1 DEF UnrevokedAreMembers, User, Listed
<1> QED
  BY <1>1, <1>2, <1>3, <1>4, <1>5, <1>6, <1>8, <1>9, <1>10, <1>11, <1>12, <1>13 DEF Next

\* At every moment the sockets that send and are sent to belong to users of the
\* newest authority: a removal takes effect on open sockets at once, and on an
\* upgrade that was waiting for the gateway when it arrived.
THEOREM ActiveMembers == Spec => []ActiveAreMembers
<1>1. Init => UnrevokedAreMembers
  BY DEF Init, UnrevokedAreMembers, Listed, Unused
<1>2. TypeOK /\ UnrevokedAreMembers /\ [Next]_vars => UnrevokedAreMembers'
  BY UnrevokedInductive
<1>3. UnrevokedAreMembers => ActiveAreMembers
  BY DEF UnrevokedAreMembers, ActiveAreMembers, ActiveIn, ActiveSession
<1> QED
  BY <1>1, <1>2, <1>3, TypeCorrect, PTL DEF Spec

\* The authority is only ever replaced by a newer document of its owner, and the
\* member table only with it: replaying an old list never readmits anybody.
THEOREM AuthorityAdvances == Spec => AuthorityOnlyAdvances
<1> DEFINE Step == /\ authority' # authority =>
                        \/ authority = NoDoc
                        \/ /\ authority'.owner = authority.owner
                           /\ authority'.version > authority.version
                   /\ members' # members =>
                        authority' # authority /\ members' = authority'.members
<1>1. TypeOK /\ [Next]_vars => [Step]_vars
  <2> SUFFICES ASSUME TypeOK, [Next]_vars PROVE Step
    OBVIOUS
  <2>1. ASSUME NEW d \in Devices, NEW doc \in Docs, NEW ttl \in 1 .. Lease,
             Authorize(d, doc, ttl) PROVE Step
    <3>1. CASE Newer(doc)
      <4>1. authority' = doc /\ members' = doc.members
        BY <2>1, <3>1 DEF Authorize, Install
      <4>2. authority # doc
        BY <3>1, ChannelAssumption DEF Newer, DocType
      <4>3. authority # NoDoc => doc.owner = authority.owner /\ doc.version > authority.version
        BY <2>1, <3>1 DEF Authorize, Acceptable, Newer
      <4> QED
        BY <4>1, <4>2, <4>3
    <3>2. CASE ~Newer(doc)
      BY <2>1, <3>2 DEF Authorize, Install
    <3> QED
      BY <3>1, <3>2
  <2>2. CASE UNCHANGED <<authority, members>>
    BY <2>2
  <2> QED
    BY <2>1, <2>2 DEF Next, vars, stored, Fetch, BindRefused, BindAnswered, DropInactive,
       DropAbusive, PutState, Forward, AckDuplicate, Store, FinishStore, CloseEvent,
       RevokeSession, Alarm, Restart, Tick
<1> QED
  BY <1>1, TypeCorrect, PTL DEF Spec, AuthorityOnlyAdvances

-----------------------------------------------------------------------------
(* Messages and state.                                                      *)

\* The message of f was stored once.
Logged(f) == \E r \in log : r.msg = f

\* The strengthening of PersistedFirst: what a later snapshot or a suspended
\* handler will send is in the log already, and the state table holds state.
StoredFirst ==
  /\ rows \subseteq log
  /\ \A c \in Conns, f \in Frames : <<c, f>> \in storing => f.kind = "persisted" /\ Logged(f)
  /\ \A k \in Keys : Written(k) => states[k].kind = "state"

\* Whatever was sent or acknowledged as a stored message was stored before.
SentFirst ==
  \A c \in Conns, f \in Frames :
    f.kind = "persisted" /\ (f \in got[c] \/ <<c, f>> \in acks) => Logged(f)

\* What FanOut adds to the outgoing frames and acknowledgements is f alone.
LEMMA FanOutAdds ==
  ASSUME TypeOK, NEW c \in Conns, NEW f \in Frames, FanOut(c, f)
  PROVE  /\ \A p \in Conns, g \in Frames : g \in got'[p] => g \in got[p] \/ g = f
         /\ \A p \in Conns, g \in Frames : <<p, g>> \in acks' => <<p, g>> \in acks \/ g = f
  BY DEF FanOut, TypeOK

\* A step that logs no less, and sends or acknowledges nothing persisted that is
\* not in the log, keeps SentFirst.
LEMMA SentFrame ==
  ASSUME SentFirst, log \subseteq log',
         \A c \in Conns, f \in Frames :
           /\ f.kind = "persisted"
           /\ f \in got'[c] \/ <<c, f>> \in acks'
           => f \in got[c] \/ <<c, f>> \in acks \/ \E r \in log' : r.msg = f
  PROVE  SentFirst'
  <1> SUFFICES ASSUME NEW c \in Conns, NEW f \in Frames, f.kind = "persisted",
                      f \in got'[c] \/ <<c, f>> \in acks'
               PROVE  \E r \in log' : r.msg = f
    BY DEF SentFirst, Logged
  <1> QED
    BY DEF SentFirst, Logged

\* Every step stores before it sends.
LEMMA SentInductive ==
  ASSUME TypeOK, StoredFirst, SentFirst, [Next]_vars
  PROVE  StoredFirst' /\ SentFirst'
<1> USE DEF stored
<1>1. ASSUME rows' \subseteq rows, UNCHANGED <<log, storing, states>>
      PROVE  StoredFirst'
  BY <1>1 DEF StoredFirst, Logged, Written
<1>2. ASSUME UNCHANGED <<log, got, acks>> PROVE SentFirst'
  BY <1>2 DEF SentFirst, Logged
<1>3. ASSUME NEW d \in Devices, NEW doc \in Docs, NEW ttl \in 1 .. Lease,
             Authorize(d, doc, ttl)
      PROVE  StoredFirst' /\ SentFirst'
  BY <1>1, <1>2, <1>3 DEF Authorize
<1>4. ASSUME NEW c \in Conns, NEW s \in Sessions, Fetch(c, s)
      PROVE  StoredFirst' /\ SentFirst'
  <2>1. rows' \subseteq rows
    BY <1>4 DEF Fetch, Prune
  <2> QED
    BY <1>1, <1>2, <1>4, <2>1 DEF Fetch
<1>5. ASSUME NEW c \in Conns, BindRefused(c) \/ DropInactive(c) \/ DropAbusive(c) \/ CloseEvent(c)
      PROVE  StoredFirst' /\ SentFirst'
  BY <1>1, <1>2, <1>5 DEF BindRefused, DropInactive, DropAbusive, CloseEvent
<1>6. ASSUME NEW c \in Conns, NEW e \in SessionEnds, BindAnswered(c, e)
      PROVE  StoredFirst' /\ SentFirst'
  <2>1. StoredFirst'
    BY <1>1, <1>6 DEF BindAnswered
  <2>2. \A f \in SnapshotFor(User(sock, c)) : f.kind = "persisted" => Logged(f)
    <3>1. \A f \in History(rows, User(sock, c)) : Logged(f)
      BY DEF History, StoredFirst, Logged
    <3>2. \A k \in Keys : Written(k) => states[k].kind # "persisted"
      BY DEF StoredFirst
    <3> QED
      BY <3>1, <3>2 DEF SnapshotFor
  <2>3. /\ UNCHANGED <<log, acks>>
        /\ \A d \in Conns : got'[d] = got[d] \/ got'[d] = got[d] \cup SnapshotFor(User(sock, c))
    BY <1>6 DEF BindAnswered, TypeOK
  <2>4. SentFirst'
    BY <2>2, <2>3, SentFrame DEF Logged
  <2> QED
    BY <2>1, <2>4
<1>7. ASSUME NEW c \in Conns, NEW f \in Frames, PutState(c, f)
      PROVE  StoredFirst' /\ SentFirst'
  <2>1. f.kind = "state" /\ UNCHANGED <<rows, log, storing>>
    BY <1>7 DEF PutState
  <2>2. states' = states \/ states' = [states EXCEPT ![f.key] = f]
    BY <1>7 DEF PutState
  <2>3. StoredFirst'
    BY <2>1, <2>2 DEF StoredFirst, Logged, Written, TypeOK
  <2>4. \A p \in Conns, g \in Frames : g \in got'[p] \/ <<p, g>> \in acks'
                                      => g \in got[p] \/ <<p, g>> \in acks \/ g = f
    BY <1>7, FanOutAdds DEF PutState
  <2>5. SentFirst'
    BY <2>1, <2>4, SentFrame
  <2> QED
    BY <2>3, <2>5
<1>8. ASSUME NEW c \in Conns, NEW f \in Frames, Forward(c, f)
      PROVE  StoredFirst' /\ SentFirst'
  <2>1. f.kind = "transient" /\ UNCHANGED <<rows, log, storing, states>>
    BY <1>8 DEF Forward
  <2>2. \A p \in Conns, g \in Frames : g \in got'[p] \/ <<p, g>> \in acks'
                                      => g \in got[p] \/ <<p, g>> \in acks \/ g = f
    BY <1>8, FanOutAdds DEF Forward
  <2> QED
    BY <1>1, <2>1, <2>2, SentFrame
<1>9. ASSUME NEW c \in Conns, NEW f \in Frames, AckDuplicate(c, f)
      PROVE  StoredFirst' /\ SentFirst'
  <2>1. /\ UNCHANGED <<rows, log, storing, states, got>>
        /\ acks' = acks \cup {<<c, f>>}
        /\ Logged(f)
    BY <1>9 DEF AckDuplicate, StoredFirst, Logged
  <2> QED
    BY <1>1, <2>1, SentFrame DEF Logged
<1>10. ASSUME NEW c \in Conns, NEW f \in Frames, Store(c, f)
       PROVE  StoredFirst' /\ SentFirst'
  <2> DEFINE row == [seq |-> nextSeq, msg |-> f, at |-> clock, via |-> c]
  <2>1. /\ f.kind = "persisted"
        /\ rows' \subseteq rows \cup {row}
        /\ log' = log \cup {row}
        /\ storing' = storing \cup {<<c, f>>}
        /\ UNCHANGED <<states, acks, got>>
    BY <1>10 DEF Store, Prune, Trim
  <2>2. row.msg = f
    OBVIOUS
  <2> HIDE DEF row
  <2>3. \A g \in Frames : Logged(g) => \E r \in log' : r.msg = g
    BY <2>1 DEF Logged
  <2>4. \E r \in log' : r.msg = f
    BY <2>1, <2>2
  <2>5. StoredFirst'
    <3>1. rows' \subseteq log'
      BY <2>1 DEF StoredFirst
    <3>2. \A d \in Conns, g \in Frames : <<d, g>> \in storing'
                                         => g.kind = "persisted" /\ \E r \in log' : r.msg = g
      BY <2>1, <2>3, <2>4 DEF StoredFirst
    <3>3. \A k \in Keys : Written(k)' => states'[k].kind = "state"
      BY <2>1 DEF StoredFirst, Written
    <3> QED
      BY <3>1, <3>2, <3>3 DEF StoredFirst, Logged
  <2>6. SentFirst'
    BY <2>1, SentFrame
  <2> QED
    BY <2>5, <2>6
<1>11. ASSUME NEW c \in Conns, NEW f \in Frames, FinishStore(c, f)
       PROVE  StoredFirst' /\ SentFirst'
  <2>1. Logged(f) /\ storing' \subseteq storing /\ UNCHANGED <<rows, log, states>>
    BY <1>11 DEF FinishStore, StoredFirst
  <2>2. StoredFirst'
    BY <2>1 DEF StoredFirst, Logged, Written
  <2>3. \A p \in Conns, g \in Frames : g \in got'[p] \/ <<p, g>> \in acks'
                                      => g \in got[p] \/ <<p, g>> \in acks \/ g = f
    BY <1>11, FanOutAdds DEF FinishStore
  <2>4. SentFirst'
    BY <2>1, <2>3, SentFrame DEF Logged
  <2> QED
    BY <2>2, <2>4
<1>12. ASSUME NEW s \in Sessions, RevokeSession(s) PROVE StoredFirst' /\ SentFirst'
  BY <1>1, <1>2, <1>12 DEF RevokeSession
<1>13. CASE Alarm
  <2>1. rows' \subseteq rows
    BY <1>13 DEF Alarm, Prune
  <2> QED
    BY <1>1, <1>2, <1>13, <2>1 DEF Alarm
<1>14. CASE Restart
  <2>1. StoredFirst'
    BY <1>14 DEF Restart, StoredFirst, Logged, Written
  <2> QED
    BY <1>2, <1>14, <2>1 DEF Restart
<1>15. CASE Tick
  BY <1>1, <1>2, <1>15 DEF Tick
<1>16. CASE UNCHANGED vars
  BY <1>1, <1>2, <1>16 DEF vars
<1> QED
  BY <1>3, <1>4, <1>5, <1>6, <1>7, <1>8, <1>9, <1>10, <1>11, <1>12, <1>13, <1>14,
     <1>15, <1>16 DEF Next

\* So it is in every reachable state.
LEMMA StoredCorrect == Spec => [](StoredFirst /\ SentFirst)
<1>1. Init => StoredFirst /\ SentFirst
  BY DEF Init, StoredFirst, SentFirst, Written
<1>2. TypeOK /\ StoredFirst /\ SentFirst /\ [Next]_vars => (StoredFirst /\ SentFirst)'
  BY SentInductive
<1> QED
  BY <1>1, <1>2, TypeCorrect, PTL DEF Spec

\* Persist before acknowledging and before fan-out, whatever handlers interleave
\* and whenever the object restarts.
THEOREM PersistFirst == Spec => []PersistedFirst
<1>1. SentFirst => PersistedFirst
  BY DEF SentFirst, PersistedFirst, Logged
<1> QED
  BY <1>1, StoredCorrect, PTL

\* Revision and tombstone order the writes of a key totally.
LEMMA SupersedesOrder ==
  ASSUME TypeOK, NEW f \in Frames, NEW g \in Frames, NEW k \in Keys
  PROVE  /\ ~Supersedes(f, f)
         /\ Supersedes(f, states[k]) /\ ~Supersedes(g, states[k]) => ~Supersedes(g, f)
  <1>1. /\ f.rev \in Int /\ f.deleted \in Int
        /\ g.rev \in Int /\ g.deleted \in Int
    BY ChannelAssumption DEF FrameType
  <1>2. states[k].rev \in Int /\ states[k].deleted \in Int
    BY ChannelAssumption DEF TypeOK, FrameType, NoState
  <1> QED
    BY <1>1, <1>2 DEF Supersedes

\* No acknowledged state write supersedes what is stored.
NeverSuperseded ==
  \A c \in Conns, f \in Frames :
    f.kind = "state" /\ <<c, f>> \in acks => ~Supersedes(f, states[f.key])

\* A step that leaves the states alone and acknowledges no new state write.
LEMMA AckedFrame ==
  ASSUME NeverSuperseded, states' = states,
         \A c \in Conns, f \in Frames : f.kind = "state" /\ <<c, f>> \in acks' => <<c, f>> \in acks
  PROVE  NeverSuperseded'
  BY DEF NeverSuperseded, Supersedes

\* No step replaces an acknowledged state by an older one.
LEMMA AckedInductive ==
  ASSUME TypeOK, StoredFirst, NeverSuperseded, [Next]_vars
  PROVE  NeverSuperseded'
<1> USE DEF stored
<1>1. CASE UNCHANGED <<states, acks>>
  BY <1>1, AckedFrame
<1>2. ASSUME NEW c \in Conns, NEW f \in Frames, PutState(c, f) PROVE NeverSuperseded'
  <2>1. f.kind = "state" /\ f.key \in Keys /\ acks' = acks \cup {<<c, f>>}
    BY <1>2, ChannelAssumption DEF PutState, FanOut, FrameType
  <2>2. CASE ~Supersedes(f, states[f.key]) /\ states' = states
    BY <2>1, <2>2 DEF NeverSuperseded, Supersedes
  <2>3. CASE Supersedes(f, states[f.key]) /\ states' = [states EXCEPT ![f.key] = f]
    <3>1. states'[f.key] = f /\ \A k \in Keys : k # f.key => states'[k] = states[k]
      BY <2>1, <2>3 DEF TypeOK
    <3>2. SUFFICES ASSUME NEW d \in Conns, NEW g \in Frames,
                          g.kind = "state", <<d, g>> \in acks'
                   PROVE  ~Supersedes(g, states'[g.key])
      BY DEF NeverSuperseded, Supersedes
    <3>3. g.key \in Keys
      BY ChannelAssumption DEF FrameType
    <3>4. CASE g = f
      BY <2>1, <3>1, <3>4, SupersedesOrder
    <3>5. CASE g # f /\ g.key = f.key
      <4>1. <<d, g>> \in acks
        BY <2>1, <3>2, <3>5
      <4>2. ~Supersedes(g, states[f.key])
        BY <3>2, <3>5, <4>1 DEF NeverSuperseded
      <4> QED
        BY <2>1, <2>3, <3>1, <3>5, <4>2, SupersedesOrder
    <3>6. CASE g # f /\ g.key # f.key
      <4>1. <<d, g>> \in acks
        BY <2>1, <3>2, <3>6
      <4> QED
        BY <3>1, <3>2, <3>3, <3>6, <4>1 DEF NeverSuperseded
    <3> QED
      BY <3>4, <3>5, <3>6
  <2> QED
    BY <1>2, <2>2, <2>3 DEF PutState
<1>3. ASSUME NEW c \in Conns, NEW f \in Frames,
             Forward(c, f) \/ AckDuplicate(c, f) \/ FinishStore(c, f)
      PROVE  NeverSuperseded'
  <2>1. f.kind # "state" /\ states' = states /\ acks' \subseteq acks \cup {<<c, f>>}
    BY <1>3 DEF Forward, AckDuplicate, FinishStore, FanOut, StoredFirst
  <2> QED
    BY <2>1, AckedFrame
<1>4. ASSUME NEW c \in Conns, NEW f \in Frames, Store(c, f) PROVE UNCHANGED <<states, acks>>
  BY <1>4 DEF Store
<1>5. ASSUME NEW c \in Conns,
             \/ BindRefused(c) \/ DropInactive(c) \/ DropAbusive(c) \/ CloseEvent(c)
             \/ \E e \in SessionEnds : BindAnswered(c, e)
      PROVE  UNCHANGED <<states, acks>>
  BY <1>5 DEF BindRefused, DropInactive, DropAbusive, CloseEvent, BindAnswered
<1> QED
  BY <1>1, <1>2, <1>3, <1>4, <1>5 DEF Next, vars, Authorize, Fetch, RevokeSession, Alarm,
     Restart, Tick

\* A channel definition or deletion the object acknowledged is never replaced by
\* an older one, in whatever order the members' writes arrive.
THEOREM StateWins == Spec => []AckedStateWins
<1>1. Init => NeverSuperseded
  BY DEF Init, NeverSuperseded
<1>2. TypeOK /\ StoredFirst /\ NeverSuperseded /\ [Next]_vars => NeverSuperseded'
  BY AckedInductive
<1>3. TypeOK /\ NeverSuperseded => AckedStateWins
  <2> SUFFICES ASSUME TypeOK, NeverSuperseded, NEW c \in Conns, NEW f \in Frames,
                      f.kind = "state", <<c, f>> \in acks
               PROVE  \/ f.rev < states[f.key].rev
                      \/ f.rev = states[f.key].rev /\ f.deleted <= states[f.key].deleted
    BY DEF AckedStateWins
  <2>1. ~Supersedes(f, states[f.key])
    BY DEF NeverSuperseded
  <2>2. f.key \in Keys /\ f.rev \in Int /\ f.deleted \in Int
    BY ChannelAssumption DEF FrameType
  <2>3. states[f.key].rev \in Int /\ states[f.key].deleted \in Int
    BY <2>2, ChannelAssumption DEF TypeOK, FrameType, NoState
  <2> QED
    BY <2>1, <2>2, <2>3 DEF Supersedes
<1> QED
  BY <1>1, <1>2, <1>3, TypeCorrect, StoredCorrect, PTL DEF Spec

-----------------------------------------------------------------------------
(* What a step does to a socket.                                            *)

\* A socket only ends: it is not listed again, not bound, its mark is not taken back.
Fades(c) ==
  /\ sock'[c].sess = sock[c].sess
  /\ sock'[c].expires = sock[c].expires
  /\ sock'[c].bind => sock[c].bind
  /\ sock[c].revoked => sock'[c].revoked
  /\ c \in Listed(sock') => c \in Listed(sock)
  /\ sock'[c].phase = "open" => sock[c].phase = "open"
  /\ sock'[c].phase = "unused" <=> sock[c].phase = "unused"

\* Closing sockets changes no phase but that of the open ones.
LEMMA CloseFades ==
  ASSUME NEW S \in [Conns -> SocketType], NEW C, NEW c \in Conns
  PROVE  /\ Close(S, C)[c].phase = IF c \in C /\ S[c].phase = "open" THEN "closing" ELSE S[c].phase
         /\ Close(S, C)[c].bind = S[c].bind
  BY DEF Close, SocketType

\* Nor does revoking them.
LEMMA RevokeFades ==
  ASSUME NEW S \in [Conns -> SocketType], NEW C, NEW c \in Conns
  PROVE  /\ Revoke(S, C)[c].phase = IF c \in C /\ S[c].phase = "open" THEN "closing" ELSE S[c].phase
         /\ Revoke(S, C)[c].bind = S[c].bind
  <1> DEFINE M == [d \in Conns |-> IF d \in C THEN [S[d] EXCEPT !.revoked = TRUE] ELSE S[d]]
  <1>1. M \in [Conns -> SocketType] /\ M[c].phase = S[c].phase /\ M[c].bind = S[c].bind
    BY DEF SocketType
  <1>2. Revoke(S, C) = Close(M, C)
    BY DEF Revoke
  <1> HIDE DEF M
  <1> QED
    BY <1>1, <1>2, CloseFades

\* Closing sockets makes none active.
LEMMA FadesByClose ==
  ASSUME TypeOK, NEW C, sock' = Close(sock, C) PROVE \A c \in Conns : Fades(c)
  <1>1. sock \in [Conns -> SocketType]
    BY DEF TypeOK
  <1>2. \A c \in Conns : c \in Listed(sock') <=> c \in Listed(sock)
    BY <1>1, CloseType
  <1> QED
    BY <1>1, <1>2, CloseType, CloseFades DEF Fades

\* Revoking sockets makes none active.
LEMMA FadesByRevoke ==
  ASSUME TypeOK, NEW C, sock' = Revoke(sock, C) PROVE \A c \in Conns : Fades(c)
  <1>1. sock \in [Conns -> SocketType]
    BY DEF TypeOK
  <1>2. \A c \in Conns : c \in Listed(sock') <=> c \in Listed(sock)
    BY <1>1, RevokeType
  <1> QED
    BY <1>1, <1>2, RevokeType, RevokeFades DEF Fades

\* Neither does a step that leaves them alone, ...
LEMMA FadesBySame ==
  ASSUME NEW c \in Conns, sock' = sock PROVE Fades(c)
  BY DEF Fades

\* ... nor a refusal by the gateway.
LEMMA FadesByRefusal ==
  ASSUME TypeOK, NEW c \in Conns, BindRefused(c) PROVE \A d \in Conns : Fades(d)
  <1>0. sock \in [Conns -> SocketType]
    BY DEF TypeOK
  <1> DEFINE free == [sock EXCEPT ![c].bind = FALSE]
  <1>1. /\ free \in [Conns -> SocketType]
        /\ \A d \in Conns : /\ free[d].sess = sock[d].sess
                            /\ free[d].revoked = sock[d].revoked
                            /\ free[d].expires = sock[d].expires
                            /\ free[d].phase = sock[d].phase
                            /\ free[d].bind => sock[d].bind
    BY <1>0 DEF SocketType
  <1>2. sock' = Close(free, {c})
    BY DEF BindRefused
  <1> HIDE DEF free
  <1>3. \A d \in Conns : d \in Listed(free) <=> d \in Listed(sock)
    BY <1>1 DEF Listed
  <1>4. \A d \in Conns : d \in Listed(sock') <=> d \in Listed(free)
    BY <1>1, <1>2, CloseType
  <1> QED
    BY <1>1, <1>2, <1>3, <1>4, CloseType, CloseFades DEF Fades

\* Only an upgrade and the answer to it give a socket anything.
LEMMA OthersFade ==
  ASSUME TypeOK, [Next]_vars,
         ~ \E c \in Conns, s \in Sessions : Fetch(c, s),
         ~ \E c \in Conns, e \in SessionEnds : BindAnswered(c, e)
  PROVE  \A c \in Conns : Fades(c)
<1> USE DEF stored
<1>0. sock \in [Conns -> SocketType]
  BY DEF TypeOK
<1>1. ASSUME NEW d \in Devices, NEW doc \in Docs, NEW ttl \in 1 .. Lease,
             Authorize(d, doc, ttl) PROVE \A c \in Conns : Fades(c)
  <2>1. \/ sock' = sock
        \/ sock' = Revoke(sock, {c \in Listed(sock) : User(sock, c) \notin doc.members})
    BY <1>1 DEF Authorize, Install, DropRevoked
  <2> QED
    BY <2>1, FadesBySame, FadesByRevoke
<1>2. ASSUME NEW c \in Conns, BindRefused(c) PROVE \A d \in Conns : Fades(d)
  BY <1>2, FadesByRefusal
<1>3. ASSUME NEW c \in Conns, DropInactive(c) \/ DropAbusive(c) PROVE \A d \in Conns : Fades(d)
  <2>1. sock' = Close(sock, {c})
    BY <1>3 DEF DropInactive, DropAbusive
  <2> QED
    BY <2>1, FadesByClose
<1>4. ASSUME NEW c \in Conns, NEW f \in Frames,
             PutState(c, f) \/ Forward(c, f) \/ AckDuplicate(c, f) \/ FinishStore(c, f)
      PROVE  \A d \in Conns : Fades(d)
  BY <1>4, FadesBySame DEF PutState, Forward, AckDuplicate, FinishStore
<1>5. ASSUME NEW c \in Conns, NEW f \in Frames, Store(c, f) PROVE \A d \in Conns : Fades(d)
  BY <1>5, FadesByClose DEF Store, ExpireSockets
<1>6. ASSUME NEW c \in Conns, CloseEvent(c) PROVE \A d \in Conns : Fades(d)
  <2>1. \A d \in Conns : /\ sock'[d].sess = sock[d].sess
                         /\ sock'[d].revoked = sock[d].revoked
                         /\ sock'[d].expires = sock[d].expires
                         /\ sock'[d].bind = sock[d].bind
                         /\ d # c => sock'[d].phase = sock[d].phase
    BY <1>0, <1>6 DEF CloseEvent, SocketType
  <2>2. sock'[c].phase = "closed" /\ sock[c].phase # "unused"
    BY <1>0, <1>6 DEF CloseEvent, SocketType
  <2> QED
    BY <2>1, <2>2 DEF Fades, Listed
<1>7. ASSUME NEW s \in Sessions, RevokeSession(s) PROVE \A d \in Conns : Fades(d)
  BY <1>7, FadesByRevoke DEF RevokeSession
<1>8. CASE Alarm
  BY <1>8, FadesByClose DEF Alarm, ExpireSockets
<1>9. CASE Restart
  BY <1>0, <1>9 DEF Restart, SocketType, Fades, Listed
<1>10. CASE Tick \/ UNCHANGED vars
  BY <1>10, FadesBySame DEF Tick, vars
<1> QED
  BY <1>1, <1>2, <1>3, <1>4, <1>5, <1>6, <1>7, <1>8, <1>9, <1>10 DEF Next

\* The upgrade: the new socket is open, being bound and not active.
LEMMA FetchIs ==
  ASSUME TypeOK, NEW c \in Conns, NEW s \in Sessions, Fetch(c, s)
  PROVE  /\ \A d \in Conns : d # c => sock'[d] = sock[d]
         /\ sock[c].phase = "unused"
         /\ \/ sock'[c] = sock[c]
            \/ sock'[c].phase = "open" /\ sock'[c].bind /\ sock'[c].expires = 0
  <1>1. sock \in [Conns -> SocketType] /\ sock[c].phase = "unused"
    BY DEF TypeOK, Fetch
  <1>2. CASE Admitted(s)
    <2> DEFINE new == [Unused EXCEPT !.phase = "open", !.bind = TRUE, !.sess = s]
    <2>1. sock' = [sock EXCEPT ![c] = new]
      BY <1>2 DEF Fetch
    <2>2. new.phase = "open" /\ new.bind /\ new.expires = 0
      BY DEF Unused
    <2> HIDE DEF new
    <2> QED
      BY <1>1, <2>1, <2>2
  <1>3. CASE ~Admitted(s)
    BY <1>1, <1>3 DEF Fetch
  <1> QED
    BY <1>2, <1>3

\* The answer: either nothing is sent and the socket is not active afterwards unless
\* it was, or it is open, not revoked, and sent the snapshot.
LEMMA AnswerIs ==
  ASSUME TypeOK, NEW c \in Conns, NEW e \in SessionEnds, BindAnswered(c, e)
  PROVE  /\ \A d \in Conns : d # c => sock'[d] = sock[d]
         /\ sock[c].bind /\ ~sock'[c].bind
         /\ sock'[c].sess = sock[c].sess /\ sock'[c].revoked = sock[c].revoked
         /\ sock'[c].phase = "unused" <=> sock[c].phase = "unused"
         /\ sock'[c].phase = "open" => sock[c].phase = "open" /\ ~sock[c].revoked /\ e > clock
         /\ c \in Listed(sock') <=> c \in Listed(sock)
         /\ sock'[c].expires \in {sock[c].expires, e}
  <1>0. sock \in [Conns -> SocketType] /\ e \in Nat /\ sock[c].bind
    BY ChannelAssumption DEF TypeOK, BindAnswered
  <1> DEFINE free == [sock EXCEPT ![c].bind = FALSE]
             bound == [sock EXCEPT ![c] = [@ EXCEPT !.bind = FALSE, !.expires = e]]
  <1>1. /\ free \in [Conns -> SocketType]
        /\ \A d \in Conns : /\ free[d].sess = sock[d].sess
                            /\ free[d].revoked = sock[d].revoked
                            /\ free[d].phase = sock[d].phase
                            /\ d # c => free[d] = sock[d]
        /\ ~free[c].bind /\ free[c].expires = sock[c].expires
    BY <1>0 DEF SocketType
  <1>2. [sock[c] EXCEPT !.bind = FALSE, !.expires = e] \in SocketType
    BY <1>0 DEF SocketType
  <1>3. /\ bound \in [Conns -> SocketType]
        /\ \A d \in Conns : /\ bound[d].sess = sock[d].sess
                            /\ bound[d].revoked = sock[d].revoked
                            /\ bound[d].phase = sock[d].phase
                            /\ d # c => bound[d] = sock[d]
        /\ ~bound[c].bind /\ bound[c].expires = e
    BY <1>0, <1>2 DEF SocketType
  <1>4. \/ sock[c].revoked /\ sock' = Close(free, {c})
        \/ ~sock[c].revoked /\ e > clock /\ sock' = bound
        \/ ~sock[c].revoked /\ ~(e > clock) /\ sock' = Close(bound, {c})
    BY DEF BindAnswered
  <1> HIDE DEF free, bound
  <1>5. ASSUME NEW S \in [Conns -> SocketType], sock' = Close(S, {c})
        PROVE  /\ \A d \in Conns : d # c => sock'[d] = S[d]
               /\ sock'[c].bind = S[c].bind /\ sock'[c].sess = S[c].sess
               /\ sock'[c].revoked = S[c].revoked /\ sock'[c].expires = S[c].expires
               /\ sock'[c].phase = IF S[c].phase = "open" THEN "closing" ELSE S[c].phase
    <2>1. \A d \in Conns : d # c => sock'[d] = S[d]
      BY <1>5 DEF Close
    <2>2. sock'[c] = IF S[c].phase = "open" THEN [S[c] EXCEPT !.phase = "closing"] ELSE S[c]
      BY <1>5 DEF Close
    <2>3. S[c] \in SocketType
      BY <1>5
    <2> QED
      BY <2>1, <2>2, <2>3 DEF SocketType
  <1>6. CASE sock[c].revoked /\ sock' = Close(free, {c})
    <2>1. \A d \in Conns : d # c => sock'[d] = sock[d]
      BY <1>1, <1>5, <1>6
    <2>2. /\ ~sock'[c].bind /\ sock'[c].sess = sock[c].sess
          /\ sock'[c].revoked = sock[c].revoked /\ sock'[c].expires = sock[c].expires
          /\ sock'[c].phase = IF sock[c].phase = "open" THEN "closing" ELSE sock[c].phase
      BY <1>1, <1>5, <1>6
    <2>3. sock'[c].phase # "open" /\ (sock'[c].phase = "unused" <=> sock[c].phase = "unused")
      BY <2>2
    <2>4. c \in Listed(sock') <=> c \in Listed(sock)
      BY <2>2 DEF Listed
    <2> QED
      BY <1>0, <2>1, <2>2, <2>3, <2>4
  <1>7. CASE ~sock[c].revoked /\ e > clock /\ sock' = bound
    <2>1. \A d \in Conns : d # c => sock'[d] = sock[d]
      BY <1>3, <1>7
    <2>2. /\ ~sock'[c].bind /\ sock'[c].sess = sock[c].sess
          /\ sock'[c].revoked = sock[c].revoked /\ sock'[c].expires = e
          /\ sock'[c].phase = sock[c].phase
      BY <1>3, <1>7
    <2>3. c \in Listed(sock') <=> c \in Listed(sock)
      BY <2>2 DEF Listed
    <2> QED
      BY <1>0, <1>7, <2>1, <2>2, <2>3
  <1>8. CASE ~sock[c].revoked /\ ~(e > clock) /\ sock' = Close(bound, {c})
    <2>1. \A d \in Conns : d # c => sock'[d] = sock[d]
      BY <1>3, <1>5, <1>8
    <2>2. /\ ~sock'[c].bind /\ sock'[c].sess = sock[c].sess
          /\ sock'[c].revoked = sock[c].revoked /\ sock'[c].expires = e
          /\ sock'[c].phase = IF sock[c].phase = "open" THEN "closing" ELSE sock[c].phase
      BY <1>3, <1>5, <1>8
    <2> QED
      BY <1>0, <2>1, <2>2 DEF Listed
  <1> QED
    BY <1>4, <1>6, <1>7, <1>8

-----------------------------------------------------------------------------
(* What a step sends.                                                       *)

\* The answer to c's upgrade arrives while c can still be sent to.
Welcomed(c) ==
  /\ sock[c].bind /\ sock[c].phase = "open" /\ ~sock[c].revoked
  /\ UNCHANGED <<stored, clock, acks, storing>>
  /\ got'[c] = got[c] \cup SnapshotFor(User(sock, c))

\* An event reaches c.
Reached(c) ==
  /\ c \in ActiveIn(sock) /\ sock[c].phase = "open"
  /\ \E f \in Frames : f.target \in {Anyone, User(sock, c)} /\ got'[c] = got[c] \cup {f}

\* A fan-out adds frames only to those it reaches.
LEMMA FanOutReaches ==
  ASSUME TypeOK, NEW c \in Conns, NEW f \in Frames, FanOut(c, f)
  PROVE  \A p \in Conns : got'[p] = got[p] \/ Reached(p)
  BY DEF FanOut, Reached, TypeOK

\* A connection is sent something only by its snapshot or by a fan-out.
LEMMA SentOnly ==
  ASSUME TypeOK, [Next]_vars
  PROVE  \A p \in Conns : got'[p] = got[p] \/ Welcomed(p) \/ Reached(p)
<1>1. CASE got' = got
  BY <1>1
<1>2. ASSUME NEW c \in Conns, NEW e \in SessionEnds, BindAnswered(c, e), got' # got
      PROVE  \A p \in Conns : got'[p] = got[p] \/ Welcomed(p)
  <2>1. /\ sock[c].bind /\ ~sock[c].revoked /\ sock[c].phase = "open"
        /\ UNCHANGED <<stored, clock, acks, storing>>
        /\ got' = [got EXCEPT ![c] = @ \cup SnapshotFor(User(sock, c))]
    BY <1>2 DEF BindAnswered
  <2> QED
    BY <2>1 DEF Welcomed, TypeOK
<1>3. ASSUME NEW c \in Conns, NEW f \in Frames,
             PutState(c, f) \/ Forward(c, f) \/ FinishStore(c, f)
      PROVE  \A p \in Conns : got'[p] = got[p] \/ Reached(p)
  <2>1. got' = got \/ FanOut(c, f)
    BY <1>3 DEF PutState, Forward, FinishStore
  <2> QED
    BY <2>1, FanOutReaches
<1>4. ASSUME NEW c \in Conns, NEW f \in Frames, AckDuplicate(c, f) \/ Store(c, f)
      PROVE  got' = got
  BY <1>4 DEF AckDuplicate, Store
<1> QED
  BY <1>1, <1>2, <1>3, <1>4 DEF Next, vars, Authorize, Fetch, BindRefused, DropInactive,
     DropAbusive, CloseEvent, RevokeSession, Alarm, Restart, Tick

\* Who gets a member list.
LEMMA ListedOnly ==
  ASSUME TypeOK, [Next]_vars
  PROVE  \A p \in Conns : roster'[p] = roster[p] \/ Welcomed(p) \/ p \in ActiveIn(sock)
<1>0. sock \in [Conns -> SocketType]
  BY DEF TypeOK
<1>1. CASE roster' = roster
  BY <1>1
<1>2. ASSUME NEW c \in Conns, NEW e \in SessionEnds, BindAnswered(c, e), roster' # roster
      PROVE  \A p \in Conns : roster'[p] = roster[p] \/ Welcomed(p) \/ p \in ActiveIn(sock)
  <2> DEFINE bound == [sock EXCEPT ![c] = [@ EXCEPT !.bind = FALSE, !.expires = e]]
  <2>1. /\ sock[c].bind /\ ~sock[c].revoked /\ sock[c].phase = "open"
        /\ UNCHANGED <<stored, clock, acks, storing>>
        /\ got' = [got EXCEPT ![c] = @ \cup SnapshotFor(User(sock, c))]
        /\ roster' = Broadcast(bound, {})
    BY <1>2 DEF BindAnswered
  <2>2. Welcomed(c)
    BY <2>1 DEF Welcomed, TypeOK
  <2>3. ASSUME NEW p \in Conns, p # c PROVE p \in ActiveIn(bound) => p \in ActiveIn(sock)
    <3>1. bound[p] = sock[p]
      BY <1>0, <2>3
    <3> QED
      BY <3>1 DEF ActiveIn, ActiveSession, Listed
  <2>4. \A p \in Conns : p \notin ActiveIn(bound) => roster'[p] = roster[p]
    BY <2>1 DEF Broadcast
  <2> QED
    BY <2>2, <2>3, <2>4
<1>3. ASSUME NEW c \in Conns, CloseEvent(c)
      PROVE  \A p \in Conns : roster'[p] = roster[p] \/ p \in ActiveIn(sock)
  BY <1>3 DEF CloseEvent, Broadcast
<1>4. ASSUME NEW s \in Sessions, RevokeSession(s)
      PROVE  \A p \in Conns : roster'[p] = roster[p] \/ p \in ActiveIn(sock)
  <2>1. \A p \in Conns : Fades(p)
    BY <1>4, FadesByRevoke DEF RevokeSession
  <2>2. \A p \in ActiveIn(sock') : p \in ActiveIn(sock)
    <3>1. sock' \in [Conns -> SocketType]
      BY <1>0, <1>4, RevokeType DEF RevokeSession
    <3> QED
      BY <1>0, <2>1, <3>1 DEF ActiveIn, ActiveSession, Fades, Listed
  <2>3. \A p \in Conns : p \notin ActiveIn(sock') => roster'[p] = roster[p]
    BY <1>4 DEF RevokeSession, Broadcast
  <2> QED
    BY <2>2, <2>3
<1>5. ASSUME NEW c \in Conns, NEW f \in Frames,
             PutState(c, f) \/ Forward(c, f) \/ AckDuplicate(c, f) \/ Store(c, f) \/ FinishStore(c, f)
      PROVE  roster' = roster
  BY <1>5 DEF PutState, Forward, AckDuplicate, Store, FinishStore
<1> QED
  BY <1>1, <1>2, <1>3, <1>4, <1>5 DEF Next, vars, Authorize, Fetch, BindRefused, DropInactive,
     DropAbusive, Alarm, Restart, Tick

\* After a revocation, of the session or of the user, a connection is sent nothing:
\* what the object sends after an await goes to those who are active by then.
THEOREM SilentAfterRevocation == Spec => NothingAfterRevocation
<1> DEFINE Silent ==
      \A c \in Conns : sock[c].revoked \/ User(sock, c) \notin members =>
        got'[c] = got[c] /\ roster'[c] = roster[c]
<1>1. TypeOK /\ UnrevokedAreMembers /\ [Next]_vars => [Silent]_vars
  <2> SUFFICES ASSUME TypeOK, UnrevokedAreMembers, [Next]_vars, NEW c \in Conns,
                      sock[c].revoked \/ User(sock, c) \notin members
               PROVE  got'[c] = got[c] /\ roster'[c] = roster[c]
    OBVIOUS
  <2>1. c \notin ActiveIn(sock)
    BY DEF UnrevokedAreMembers, ActiveIn, ActiveSession
  <2>2. ~Welcomed(c)
    BY DEF Welcomed, UnrevokedAreMembers, Listed
  <2> QED
    BY <2>1, <2>2, SentOnly, ListedOnly DEF Reached
<1>2. Spec => []UnrevokedAreMembers
  <2>1. Init => UnrevokedAreMembers
    BY DEF Init, UnrevokedAreMembers, Listed, Unused
  <2>2. TypeOK /\ UnrevokedAreMembers /\ [Next]_vars => UnrevokedAreMembers'
    BY UnrevokedInductive
  <2> QED
    BY <2>1, <2>2, TypeCorrect, PTL DEF Spec
<1> QED
  BY <1>1, <1>2, TypeCorrect, PTL DEF Spec, NothingAfterRevocation

-----------------------------------------------------------------------------
(* Who reads what.                                                          *)

\* A connection keeps its session from the upgrade on.
LEMMA SessionKept ==
  ASSUME TypeOK, [Next]_vars
  PROVE  \A c \in Conns : /\ sock'[c].phase = "unused" => sock[c].phase = "unused"
                          /\ sock[c].phase # "unused" => sock'[c].sess = sock[c].sess
<1>1. CASE \E x \in Conns, s \in Sessions : Fetch(x, s)
  BY <1>1, FetchIs
<1>2. CASE \E x \in Conns, e \in SessionEnds : BindAnswered(x, e)
  BY <1>2, AnswerIs
<1> QED
  BY <1>1, <1>2, OthersFade DEF Fades

\* The strengthening of OnlyReadersReceive: an unused connection was sent nothing, and
\* state has no target.
ReadInv ==
  /\ OnlyReadersReceive
  /\ \A c \in Conns : sock[c].phase = "unused" => got[c] = {}
  /\ \A k \in Keys : states[k].target = Anyone

\* A snapshot holds only what its user may read.
LEMMA SnapshotReadable ==
  ASSUME ReadInv, NEW u PROVE \A f \in SnapshotFor(u) : Readable(f, u)
  BY DEF SnapshotFor, History, Readable, ReadInv

\* Every step keeps addressed messages from others.
LEMMA ReadInductive ==
  ASSUME TypeOK, ReadInv, [Next]_vars PROVE ReadInv'
<1> USE DEF stored
<1>1. \A k \in Keys : states'[k].target = Anyone
  <2>1. ASSUME NEW c \in Conns, NEW f \in Frames, PutState(c, f)
        PROVE  \A k \in Keys : states'[k].target = Anyone
    <3>1. f.target = Anyone /\ (states' = states \/ states' = [states EXCEPT ![f.key] = f])
      BY <2>1 DEF PutState
    <3> QED
      BY <3>1 DEF ReadInv, TypeOK
  <2>2. CASE UNCHANGED states
    BY <2>2 DEF ReadInv
  <2> QED
    BY <2>1, <2>2 DEF Next, vars, Authorize, Fetch, BindRefused, BindAnswered, DropInactive,
       DropAbusive, Forward, AckDuplicate, Store, FinishStore, CloseEvent,
       RevokeSession, Alarm, Restart, Tick
<1>2. \A c \in Conns : sock'[c].phase = "unused" => got'[c] = {}
  BY SessionKept, SentOnly DEF ReadInv, Welcomed, Reached
<1>3. ASSUME NEW c \in Conns, NEW f \in got'[c] PROVE Readable(f, User(sock, c)')
  <2>1. sock[c].phase # "unused"
    BY <1>3, SentOnly DEF ReadInv, Welcomed, Reached
  <2>2. User(sock, c)' = User(sock, c)
    BY <2>1, SessionKept DEF User
  <2>3. CASE got'[c] = got[c]
    BY <1>3, <2>2, <2>3 DEF ReadInv, OnlyReadersReceive
  <2>4. CASE Welcomed(c)
    BY <1>3, <2>2, <2>4, SnapshotReadable DEF Welcomed, ReadInv, OnlyReadersReceive
  <2>5. CASE Reached(c)
    BY <1>3, <2>2, <2>5 DEF Reached, Readable, ReadInv, OnlyReadersReceive
  <2> QED
    BY <2>3, <2>4, <2>5, SentOnly
<1>4. OnlyReadersReceive'
  BY <1>3 DEF OnlyReadersReceive, Readable
<1> QED
  BY <1>1, <1>2, <1>4 DEF ReadInv

\* An event addressed to one member reaches that member and its author only, live and
\* in every later snapshot.
THEOREM ReadersOnly == Spec => []OnlyReadersReceive
<1>1. Init => ReadInv
  BY DEF Init, ReadInv, OnlyReadersReceive, NoState
<1>2. TypeOK /\ ReadInv /\ [Next]_vars => ReadInv'
  BY ReadInductive
<1>3. ReadInv => OnlyReadersReceive
  BY DEF ReadInv
<1> QED
  BY <1>1, <1>2, <1>3, TypeCorrect, PTL DEF Spec

-----------------------------------------------------------------------------
(* Who is active.                                                           *)

\* A socket still binding has no expiry yet.
Binding == \A c \in Conns : sock[c].bind => sock[c].expires = 0 /\ sock[c].phase # "unused"

\* Every step keeps it so, ...
LEMMA BindingInductive ==
  ASSUME TypeOK, Binding, [Next]_vars PROVE Binding'
<1>1. ASSUME NEW x \in Conns, NEW s \in Sessions, Fetch(x, s) PROVE Binding'
  <2>1. sock'[x].bind => sock'[x].expires = 0 /\ sock'[x].phase # "unused"
    BY <1>1, FetchIs DEF Binding
  <2> QED
    BY <1>1, <2>1, FetchIs DEF Binding
<1>2. ASSUME NEW x \in Conns, NEW e \in SessionEnds, BindAnswered(x, e) PROVE Binding'
  BY <1>2, AnswerIs DEF Binding
<1> QED
  BY <1>1, <1>2, OthersFade DEF Binding, Fades

\* ... and it holds in every reachable state.
LEMMA BindingCorrect == Spec => []Binding
<1>1. Init => Binding
  BY DEF Init, Binding, Unused
<1>2. TypeOK /\ Binding /\ [Next]_vars => Binding'
  BY BindingInductive
<1> QED
  BY <1>1, <1>2, TypeCorrect, PTL DEF Spec

\* The clock does not go back, and only Tick moves it.
LEMMA ClockRises ==
  ASSUME TypeOK, [Next]_vars
  PROVE  clock \in Nat /\ clock' \in Nat /\ clock <= clock' /\ (clock' # clock => Tick)
<1>1. clock \in Nat
  BY ChannelAssumption DEF TypeOK, Times
<1>2. clock' = clock \/ Tick
  BY DEF Next, vars, stored, Authorize, Fetch, BindRefused, BindAnswered, DropInactive,
     DropAbusive, PutState, Forward, AckDuplicate, Store, FinishStore, CloseEvent,
     RevokeSession, Alarm, Restart
<1> QED
  BY <1>1, <1>2 DEF Tick

\* A socket that only fades is not active unless it was.
LEMMA ActiveFades ==
  ASSUME TypeOK, [Next]_vars, NEW c \in ActiveIn(sock)', Fades(c)
  PROVE  c \in ActiveIn(sock) /\ sock'[c].expires = sock[c].expires
  <1>1. c \in Conns /\ clock \in Nat /\ clock' \in Nat /\ clock <= clock'
    BY ClockRises DEF ActiveIn, Listed
  <1>2. c \in Listed(sock') /\ ~sock'[c].revoked /\ sock'[c].expires > clock'
    BY DEF ActiveIn, ActiveSession, Listed
  <1>3. sock[c].expires \in Nat
    BY <1>1 DEF TypeOK, SocketType
  <1> QED
    BY <1>1, <1>2, <1>3 DEF Fades, ActiveIn, ActiveSession

\* A socket that is open after its answer is sent its snapshot.
LEMMA AnswerWelcomes ==
  ASSUME TypeOK, NEW c \in Conns, NEW e \in SessionEnds, BindAnswered(c, e),
         sock'[c].phase = "open"
  PROVE  Welcomed(c)
  <1>1. sock[c].bind /\ sock[c].phase = "open" /\ ~sock[c].revoked /\ e > clock
    BY AnswerIs
  <1>2. /\ UNCHANGED <<stored, clock, acks, storing>>
        /\ got' = [got EXCEPT ![c] = @ \cup SnapshotFor(User(sock, c))]
    BY <1>1 DEF BindAnswered
  <1> QED
    BY <1>1, <1>2 DEF Welcomed, TypeOK

\* A socket that is active after a step was active before, or its upgrade has been
\* answered; if it is open it was welcomed.
Stays(c) ==
  /\ c \in ActiveIn(sock) /\ ~sock[c].bind /\ ~sock'[c].bind
  /\ sock'[c].sess = sock[c].sess
  /\ sock'[c].phase = "open" => sock[c].phase = "open"

\* A socket active after a step was active before or has just been answered.
LEMMA ActiveStep ==
  ASSUME TypeOK, Binding, [Next]_vars, NEW c \in ActiveIn(sock)'
  PROVE  \/ Stays(c)
         \/ sock[c].bind /\ sock'[c].sess = sock[c].sess
              /\ (sock'[c].phase = "open" => Welcomed(c))
<1>0. c \in Conns /\ clock \in Nat /\ clock' \in Nat /\ clock <= clock'
  BY ClockRises DEF ActiveIn, Listed
<1>1. sock'[c].phase \in {"open", "closing"} /\ ~sock'[c].revoked /\ sock'[c].expires > clock'
  BY DEF ActiveIn, ActiveSession, Listed
<1>2. sock[c].expires \in Nat
  BY <1>0 DEF TypeOK, SocketType
<1>3. ASSUME Fades(c) PROVE Stays(c)
  <2>1. c \in ActiveIn(sock) /\ sock[c].expires # 0
    BY <1>0, <1>1, <1>2, <1>3 DEF Fades, ActiveIn, ActiveSession, Listed
  <2> QED
    BY <1>0, <1>3, <2>1 DEF Fades, Stays, Binding
<1>4. ASSUME NEW x \in Conns, NEW s \in Sessions, Fetch(x, s) PROVE Stays(c)
  <2>1. sock'[c] = sock[c]
    BY <1>0, <1>1, <1>4, FetchIs
  <2>2. Fades(c)
    BY <2>1 DEF Fades, Listed
  <2> QED
    BY <1>3, <2>2
<1>5. ASSUME NEW x \in Conns, NEW e \in SessionEnds, BindAnswered(x, e), x # c PROVE Stays(c)
  <2>1. sock'[c] = sock[c]
    BY <1>0, <1>5, AnswerIs
  <2>2. Fades(c)
    BY <2>1 DEF Fades, Listed
  <2> QED
    BY <1>3, <2>2
<1>6. ASSUME NEW e \in SessionEnds, BindAnswered(c, e)
      PROVE  sock[c].bind /\ sock'[c].sess = sock[c].sess
               /\ (sock'[c].phase = "open" => Welcomed(c))
  BY <1>0, <1>6, AnswerIs, AnswerWelcomes
<1> QED
  BY <1>0, <1>3, <1>4, <1>5, <1>6, OthersFade

-----------------------------------------------------------------------------
(* Connected is up to date.                                                 *)

\* What was sent or acknowledged stays so.
LEMMA GotGrows ==
  ASSUME TypeOK, [Next]_vars
  PROVE  (\A c \in Conns : got[c] \subseteq got'[c]) /\ acks \subseteq acks'
<1>1. \A c \in Conns : got[c] \subseteq got'[c]
  BY SentOnly DEF Welcomed, Reached
<1>2. acks \subseteq acks'
  BY DEF Next, vars, stored, Authorize, Fetch, BindRefused, BindAnswered, DropInactive,
     DropAbusive, PutState, Forward, AckDuplicate, Store, FinishStore, FanOut, CloseEvent,
     RevokeSession, Alarm, Restart, Tick
<1> QED
  BY <1>1, <1>2

\* A write to a key is sent to every open, active connection but the writer's, which
\* is acknowledged.
LEMMA StateStep ==
  ASSUME TypeOK, [Next]_vars, NEW k \in Keys, states'[k] # states[k],
         NEW c \in ActiveIn(sock), sock[c].phase = "open"
  PROVE  states'[k] \in got'[c] \/ <<c, states'[k]>> \in acks'
<1>1. ASSUME NEW d \in Conns, NEW f \in Frames, PutState(d, f)
      PROVE  states'[k] \in got'[c] \/ <<c, states'[k]>> \in acks'
  <2>1. f.target = Anyone /\ states' = [states EXCEPT ![f.key] = f] /\ FanOut(d, f)
    BY <1>1 DEF PutState
  <2>2. states'[k] = f
    BY <2>1 DEF TypeOK
  <2>3. c \in Conns
    BY DEF ActiveIn, Listed
  <2>4. CASE c = d
    BY <2>1, <2>2, <2>4 DEF FanOut
  <2>5. CASE c # d
    BY <2>1, <2>2, <2>3, <2>5 DEF FanOut
  <2> QED
    BY <2>4, <2>5
<1> QED
  BY <1>1 DEF Next, vars, stored, Authorize, Fetch, BindRefused, BindAnswered, DropInactive,
     DropAbusive, Forward, AckDuplicate, Store, FinishStore, CloseEvent,
     RevokeSession, Alarm, Restart, Tick

\* Every step brings each written state to the active connections.
LEMMA StateReachesInductive ==
  ASSUME TypeOK, Binding, StateReachesActive, [Next]_vars PROVE StateReachesActive'
<1>1. SUFFICES ASSUME NEW k \in Keys, NEW c \in ActiveIn(sock)', Written(k)',
                      sock'[c].phase = "open"
               PROVE  states'[k] \in got'[c] \/ <<c, states'[k]>> \in acks'
  BY DEF StateReachesActive
<1>2. c \in Conns
  BY DEF ActiveIn, Listed
<1>3. CASE Welcomed(c)
  <2>1. states' = states /\ got'[c] = got[c] \cup SnapshotFor(User(sock, c))
    BY <1>3 DEF Welcomed, stored
  <2>2. Written(k)
    BY <1>1, <2>1 DEF Written
  <2> QED
    BY <2>1, <2>2 DEF SnapshotFor
<1>4. CASE Stays(c)
  <2>1. c \in ActiveIn(sock) /\ sock[c].phase = "open"
    BY <1>1, <1>4 DEF Stays
  <2>2. CASE states'[k] = states[k]
    <3>1. Written(k)
      BY <1>1, <2>2 DEF Written
    <3> QED
      BY <1>2, <2>1, <2>2, <3>1, GotGrows DEF StateReachesActive
  <2> QED
    BY <2>1, <2>2, StateStep
<1> QED
  BY <1>1, <1>3, <1>4, ActiveStep

\* Whoever is connected and active has the newest state of every key, from the
\* snapshot or live: no write falls between the two.
THEOREM StateReaches == Spec => []StateReachesActive
<1>1. Init => StateReachesActive
  BY DEF Init, StateReachesActive, Written
<1>2. TypeOK /\ Binding /\ StateReachesActive /\ [Next]_vars => StateReachesActive'
  BY StateReachesInductive
<1> QED
  BY <1>1, <1>2, TypeCorrect, BindingCorrect, PTL DEF Spec

\* The strengthening of RowsReachActive: the connection a row came in on is bound, and
\* so never becomes active again once it is not.
RowInv ==
  /\ RowsReachActive
  /\ \A r \in rows : ~sock[r.via].bind /\ sock[r.via].phase # "unused"

\* A suspended handler ends by forwarding its message, by finding its sender gone, or
\* with the object.
LEMMA StoringStep ==
  ASSUME [Next]_vars, NEW d \in Conns, NEW f \in Frames, <<d, f>> \in storing
  PROVE  \/ <<d, f>> \in storing'
         \/ d \in ActiveIn(sock) /\ FanOut(d, f)
         \/ d \notin ActiveIn(sock)
         \/ Restart
<1>1. ASSUME NEW c \in Conns, NEW g \in Frames, FinishStore(c, g), <<d, f>> \notin storing'
      PROVE  (d \in ActiveIn(sock) /\ FanOut(d, f)) \/ d \notin ActiveIn(sock)
  <2>1. c = d /\ g = f
    BY <1>1 DEF FinishStore
  <2> QED
    BY <1>1, <2>1 DEF FinishStore
<1> QED
  BY <1>1 DEF Next, vars, stored, Authorize, Fetch, BindRefused, BindAnswered, DropInactive,
     DropAbusive, PutState, Forward, AckDuplicate, Store, CloseEvent,
     RevokeSession, Alarm, Tick

\* A row in the table was there before or is a bound connection's new one.
LEMMA RowStep ==
  ASSUME TypeOK, [Next]_vars, NEW r \in rows'
  PROVE  \/ r \in rows
         \/ /\ r.via \in Conns /\ <<r.via, r.msg>> \in storing'
            /\ ~sock[r.via].bind /\ sock[r.via].phase # "unused"
<1>1. ASSUME NEW c \in Conns, NEW f \in Frames, Store(c, f), r \notin rows
      PROVE  /\ r.via \in Conns /\ <<r.via, r.msg>> \in storing'
             /\ ~sock[r.via].bind /\ sock[r.via].phase # "unused"
  <2>1. r = [seq |-> nextSeq, msg |-> f, at |-> clock, via |-> c]
    BY <1>1 DEF Store, Prune, Trim
  <2>2. r.via = c /\ r.msg = f
    BY <2>1
  <2> QED
    BY <1>1, <2>2 DEF Store, Accepts, Receiving
<1> QED
  BY <1>1 DEF Next, vars, stored, Authorize, Fetch, BindRefused, BindAnswered, DropInactive,
     DropAbusive, PutState, Forward, AckDuplicate, FinishStore, CloseEvent,
     RevokeSession, Alarm, Restart, Tick, Prune

\* A socket that is bound does not bind again.
LEMMA BindStep ==
  ASSUME TypeOK, [Next]_vars, NEW c \in Conns, ~sock[c].bind, sock[c].phase # "unused"
  PROVE  ~sock'[c].bind /\ sock'[c].phase # "unused"
<1>1. ASSUME NEW x \in Conns, NEW s \in Sessions, Fetch(x, s)
      PROVE  ~sock'[c].bind /\ sock'[c].phase # "unused"
  BY <1>1, FetchIs
<1>2. ASSUME NEW x \in Conns, NEW e \in SessionEnds, BindAnswered(x, e)
      PROVE  ~sock'[c].bind /\ sock'[c].phase # "unused"
  BY <1>2, AnswerIs
<1> QED
  BY <1>1, <1>2, OthersFade DEF Fades

\* Every step brings each stored row to the active connections, as RowInv says.
LEMMA RowsReachInductive ==
  ASSUME TypeOK, Binding, RowInv, [Next]_vars PROVE RowInv'
<1>0. rows \in SUBSET RowType
  BY DEF TypeOK
<1>1. \A r \in rows' : ~sock'[r.via].bind /\ sock'[r.via].phase # "unused"
  <2> SUFFICES ASSUME NEW r \in rows'
               PROVE  ~sock'[r.via].bind /\ sock'[r.via].phase # "unused"
    OBVIOUS
  <2>1. r.via \in Conns /\ ~sock[r.via].bind /\ sock[r.via].phase # "unused"
    BY <1>0, RowStep DEF RowInv, RowType
  <2> QED
    BY <2>1, BindStep
<1>2. ASSUME NEW r \in rows', NEW c \in ActiveIn(sock)',
             c # r.via, sock'[c].phase = "open", r.msg.target \in {Anyone, User(sock, c)'}
      PROVE  \/ r.msg \in got'[c]
             \/ <<r.via, r.msg>> \in storing'
             \/ r.via \notin ActiveIn(sock)'
  <2>0. c \in Conns
    BY DEF ActiveIn, Listed
  <2>1. CASE r \notin rows
    BY <2>1, RowStep
  <2>2. CASE r \in rows /\ Welcomed(c)
    <3>1. rows' = rows /\ got'[c] = got[c] \cup SnapshotFor(User(sock, c))
      BY <2>2 DEF Welcomed, stored
    <3>2. User(sock, c)' = User(sock, c)
      BY <1>2, <2>0, <2>2, SessionKept, ActiveStep DEF User, Stays
    <3>3. r.msg \in History(rows, User(sock, c))
      BY <1>2, <2>2, <3>2 DEF History, Readable
    <3> QED
      BY <3>1, <3>3 DEF SnapshotFor
  <2>3. CASE r \in rows /\ Stays(c)
    <3>1. /\ c \in ActiveIn(sock) /\ sock[c].phase = "open"
          /\ User(sock, c)' = User(sock, c)
      BY <1>2, <2>3 DEF Stays, User
    <3>2. r.via \in Conns /\ r.msg \in Frames
      BY <1>0, <2>3 DEF RowType
    <3>3. r.via \notin ActiveIn(sock) => r.via \notin ActiveIn(sock)'
      <4>1. ~sock[r.via].bind
        BY <2>3 DEF RowInv
      <4> QED
        BY <3>2, <4>1, ActiveStep DEF Stays
    <3>4. Restart => r.via \notin ActiveIn(sock)'
      <4>1. sock \in [Conns -> SocketType]
        BY DEF TypeOK
      <4>2. Restart => \A x \in Conns : sock'[x].phase \in {"unused", "closed"}
        BY <4>1 DEF Restart, SocketType
      <4> QED
        BY <3>2, <4>2 DEF ActiveIn, Listed
    <3>5. r.msg \in got[c] => r.msg \in got'[c]
      BY <2>0, GotGrows
    <3>6. FanOut(r.via, r.msg) => r.msg \in got'[c]
      BY <1>2, <2>0, <3>1 DEF FanOut
    <3>7. r.msg \in got[c] \/ <<r.via, r.msg>> \in storing \/ r.via \notin ActiveIn(sock)
      BY <1>2, <2>3, <3>1 DEF RowInv, RowsReachActive
    <3> QED
      BY <3>2, <3>3, <3>4, <3>5, <3>6, <3>7, StoringStep
  <2> QED
    BY <1>2, <2>1, <2>2, <2>3, ActiveStep
<1>3. RowsReachActive'
  BY <1>2 DEF RowsReachActive
<1> QED
  BY <1>1, <1>3 DEF RowInv

\* Every open, active connection has every stored message its user may read, or will
\* get it from the handler that stored it -- unless the author's connection ended
\* before the fan-out.
THEOREM RowsReach == Spec => []RowsReachActive
<1>1. Init => RowInv
  BY DEF Init, RowInv, RowsReachActive
<1>2. TypeOK /\ Binding /\ RowInv /\ [Next]_vars => RowInv'
  BY RowsReachInductive
<1>3. RowInv => RowsReachActive
  BY DEF RowInv
<1> QED
  BY <1>1, <1>2, <1>3, TypeCorrect, BindingCorrect, PTL DEF Spec

-----------------------------------------------------------------------------
(* Member lists.                                                            *)

\* A step without a broadcast that unlists nobody: if everything is settled
\* afterwards, it was before, and the same sockets were active.
LEMMA RosterFrame ==
  ASSUME TypeOK, Binding, RosterExact, [Next]_vars, roster' = roster,
         \A d \in Conns : Fades(d) \/ (d \notin Listed(sock) /\ d \notin ActiveIn(sock)'),
         \A d \in Listed(sock) : d \in Listed(sock')
  PROVE  RosterExact'
  <1>1. SUFFICES ASSUME Settled', NEW c \in ActiveIn(sock)' PROVE roster'[c] = ActiveIn(sock)'
    BY DEF RosterExact
  <1>2. /\ ActiveIn(sock) \subseteq Listed(sock) /\ Listed(sock) \subseteq Conns
        /\ ActiveIn(sock)' \subseteq Conns
        /\ clock \in Nat /\ clock' \in Nat /\ clock <= clock'
    BY ClockRises DEF ActiveIn, Listed
  <1>3. \A d \in Listed(sock') : sock'[d].phase = "open" /\ (sock'[d].bind \/ d \in ActiveIn(sock)')
    BY <1>1 DEF Settled, Listed
  <1>4. ASSUME NEW d \in Conns, Fades(d), d \in ActiveIn(sock)' PROVE d \in ActiveIn(sock)
    BY <1>4, ActiveFades
  <1>5. Settled
    <2> SUFFICES ASSUME NEW d \in Listed(sock)
                 PROVE  sock[d].phase = "open" /\ (sock[d].bind \/ d \in ActiveIn(sock))
      BY DEF Settled
    <2>1. d \in Conns /\ d \in Listed(sock') /\ Fades(d)
      BY <1>2
    <2> QED
      BY <1>3, <1>4, <2>1 DEF Fades
  <1>6. \A d \in ActiveIn(sock) : ~sock[d].bind
    BY <1>2 DEF Binding, ActiveIn, ActiveSession
  <1>7. ASSUME NEW d \in ActiveIn(sock) PROVE d \in ActiveIn(sock)'
    <2>1. d \in Conns /\ d \in Listed(sock') /\ Fades(d) /\ ~sock[d].bind
      BY <1>2, <1>6
    <2> QED
      BY <1>3, <2>1 DEF Fades
  <1>8. ASSUME NEW d \in ActiveIn(sock)' PROVE d \in ActiveIn(sock)
    BY <1>2, <1>4
  <1>9. ActiveIn(sock)' = ActiveIn(sock)
    BY <1>7, <1>8
  <1> QED
    BY <1>1, <1>5, <1>9 DEF RosterExact

\* A broadcast over the sockets as the step leaves them is exact.
LEMMA RosterBroadcast ==
  ASSUME roster' = Broadcast(sock', {}), clock' = clock
  PROVE  RosterExact'
  <1>1. SUFFICES ASSUME Settled', NEW c \in ActiveIn(sock)' PROVE roster'[c] = ActiveIn(sock)'
    BY DEF RosterExact
  <1>2. ActiveIn(sock)' = ActiveIn(sock')
    BY DEF ActiveIn, ActiveSession, Listed
  <1>3. c \in Conns /\ sock'[c].phase = "open"
    BY <1>1 DEF Settled, ActiveIn, Listed
  <1> QED
    BY <1>1, <1>2, <1>3 DEF Broadcast

\* Every step keeps the last member lists exact once all have settled.
LEMMA RosterInductive ==
  ASSUME TypeOK, Binding, RosterExact, [Next]_vars PROVE RosterExact'
<1> USE DEF stored
<1>0. sock \in [Conns -> SocketType] /\ clock \in Nat
  BY ClockRises DEF TypeOK
<1>1. ASSUME NEW x \in Conns, NEW s \in Sessions, Fetch(x, s) PROVE RosterExact'
  <2>1. roster' = roster /\ clock' = clock
    BY <1>1 DEF Fetch
  <2>2. \A d \in Conns : d # x => Fades(d)
    BY <1>1, FetchIs DEF Fades, Listed
  <2>3. x \notin Listed(sock) /\ x \notin ActiveIn(sock)'
    BY <1>0, <1>1, <2>1, FetchIs DEF ActiveIn, ActiveSession, Listed
  <2>4. \A d \in Listed(sock) : d \in Listed(sock')
    BY <1>1, <2>3, FetchIs DEF Listed
  <2> QED
    BY <2>1, <2>2, <2>3, <2>4, RosterFrame
<1>2. ASSUME NEW x \in Conns, NEW e \in SessionEnds, BindAnswered(x, e) PROVE RosterExact'
  <2> DEFINE bound == [sock EXCEPT ![x] = [@ EXCEPT !.bind = FALSE, !.expires = e]]
  <2>1. CASE sock'[x].phase = "open"
    <3>1. sock[x].phase = "open" /\ ~sock[x].revoked /\ e > clock
      BY <1>2, <2>1, AnswerIs
    <3>2. sock' = bound /\ roster' = Broadcast(bound, {}) /\ clock' = clock
      BY <1>2, <3>1 DEF BindAnswered
    <3> HIDE DEF bound
    <3> QED
      BY <3>2, RosterBroadcast
  <2>2. CASE sock'[x].phase # "open" /\ x \in Listed(sock')
    BY <2>2 DEF RosterExact, Settled, Listed
  <2>3. CASE sock'[x].phase # "open" /\ x \notin Listed(sock')
    <3>1. x \notin Listed(sock) /\ x \notin ActiveIn(sock)'
      BY <1>2, <2>3, AnswerIs DEF ActiveIn, Listed
    <3>2. roster' = roster
      BY <1>2, <3>1 DEF BindAnswered, Listed
    <3>3. \A d \in Conns : d # x => Fades(d)
      BY <1>2, AnswerIs DEF Fades, Listed
    <3>4. \A d \in Listed(sock) : d \in Listed(sock')
      BY <1>2, <3>1, AnswerIs DEF Listed
    <3> QED
      BY <3>1, <3>2, <3>3, <3>4, RosterFrame
  <2> QED
    BY <2>1, <2>2, <2>3
<1>3. ASSUME NEW x \in Conns, CloseEvent(x) PROVE RosterExact'
  <2>1. SUFFICES ASSUME Settled', NEW c \in ActiveIn(sock)' PROVE roster'[c] = ActiveIn(sock)'
    BY DEF RosterExact
  <2>2. /\ roster' = Broadcast(sock, {x}) /\ clock' = clock
        /\ sock'[x].phase = "closed" /\ \A d \in Conns : d # x => sock'[d] = sock[d]
    BY <1>0, <1>3 DEF CloseEvent
  <2>3. ActiveIn(sock)' = ActiveIn(sock) \ {x}
    BY <2>2 DEF ActiveIn, ActiveSession, Listed
  <2>4. c \in Conns /\ c # x /\ sock'[c].phase = "open"
    BY <2>1, <2>3 DEF Settled, ActiveIn, Listed
  <2> QED
    BY <2>1, <2>2, <2>3, <2>4 DEF Broadcast
<1>4. ASSUME NEW s \in Sessions, RevokeSession(s) PROVE RosterExact'
  BY <1>4, RosterBroadcast DEF RevokeSession
<1>5. ASSUME roster' = roster, NEW S \in [Conns -> SocketType], NEW C,
             \A d \in Conns : d \in Listed(S) <=> d \in Listed(sock),
             sock' = Close(S, C) \/ sock' = Revoke(S, C),
             \A d \in Conns : Fades(d)
      PROVE  RosterExact'
  <2>1. \A d \in Listed(sock) : d \in Conns
    BY DEF Listed
  <2>2. \A d \in Listed(sock) : d \in Listed(sock')
    BY <1>5, <2>1, CloseType, RevokeType
  <2> QED
    BY <1>5, <2>2, RosterFrame
<1>6. ASSUME roster' = roster, sock' = sock PROVE RosterExact'
  BY <1>6, RosterFrame, FadesBySame
<1>7. ASSUME NEW d \in Devices, NEW doc \in Docs, NEW ttl \in 1 .. Lease,
             Authorize(d, doc, ttl) PROVE RosterExact'
  <2>1. \/ sock' = sock
        \/ sock' = Revoke(sock, {c \in Listed(sock) : User(sock, c) \notin doc.members})
    BY <1>7 DEF Authorize, Install, DropRevoked
  <2>2. roster' = roster
    BY <1>7 DEF Authorize
  <2> QED
    BY <1>0, <1>5, <1>6, <2>1, <2>2, FadesByRevoke
<1>8. ASSUME NEW x \in Conns, BindRefused(x) PROVE RosterExact'
  <2> DEFINE free == [sock EXCEPT ![x].bind = FALSE]
  <2>1. free \in [Conns -> SocketType] /\ \A d \in Conns : free[d].phase = sock[d].phase
    BY <1>0 DEF SocketType
  <2>2. sock' = Close(free, {x}) /\ roster' = roster /\ clock' = clock
    BY <1>8 DEF BindRefused
  <2>3. \A d \in Conns : Fades(d)
    BY <1>8, FadesByRefusal
  <2> HIDE DEF free
  <2>4. \A d \in Conns : d \in Listed(free) <=> d \in Listed(sock)
    BY <2>1 DEF Listed
  <2> QED
    BY <1>5, <2>1, <2>2, <2>3, <2>4
<1>9. ASSUME NEW x \in Conns, DropInactive(x) \/ DropAbusive(x) PROVE RosterExact'
  <2>1. sock' = Close(sock, {x}) /\ roster' = roster
    BY <1>9 DEF DropInactive, DropAbusive
  <2> QED
    BY <1>0, <1>5, <2>1, FadesByClose
<1>10. ASSUME NEW x \in Conns, NEW f \in Frames,
             PutState(x, f) \/ Forward(x, f) \/ AckDuplicate(x, f) \/ FinishStore(x, f)
       PROVE RosterExact'
  BY <1>6, <1>10 DEF PutState, Forward, AckDuplicate, FinishStore
<1>11. ASSUME sock' = ExpireSockets(sock), roster' = roster PROVE RosterExact'
  BY <1>0, <1>5, <1>11, FadesByClose DEF ExpireSockets
<1>12. ASSUME NEW x \in Conns, NEW f \in Frames, Store(x, f) PROVE RosterExact'
  BY <1>11, <1>12 DEF Store
<1>13. CASE Alarm
  BY <1>11, <1>13 DEF Alarm
<1>14. CASE Restart
  <2>1. \A d \in Conns : sock'[d].phase \in {"unused", "closed"}
    BY <1>0, <1>14 DEF Restart, SocketType
  <2>2. ActiveIn(sock)' = {}
    BY <2>1 DEF ActiveIn, Listed
  <2> QED
    BY <2>2 DEF RosterExact
<1>15. CASE Tick \/ UNCHANGED vars
  BY <1>6, <1>15 DEF Tick, vars
<1> QED
  BY <1>1, <1>2, <1>3, <1>4, <1>7, <1>8, <1>9, <1>10, <1>12, <1>13, <1>14, <1>15 DEF Next

\* Once the sockets have settled, every active connection has been told exactly who is
\* active, in whatever order sockets were bound, closed, revoked and expired.
THEOREM RosterIsExact == Spec => []RosterExact
<1>1. Init => RosterExact
  BY DEF Init, RosterExact, ActiveIn, Listed, Unused
<1>2. TypeOK /\ Binding /\ RosterExact /\ [Next]_vars => RosterExact'
  BY RosterInductive
<1> QED
  BY <1>1, <1>2, TypeCorrect, BindingCorrect, PTL DEF Spec

-----------------------------------------------------------------------------
(* The alarm.                                                               *)

\* A step that adds no deadline and leaves the alarm keeps it early enough.
LEMMA AlarmFrame ==
  ASSUME TypeOK, AlarmCoversDeadlines, [Next]_vars, alarm' = alarm, rows' \subseteq rows,
         \A c \in Conns : Fades(c) \/ c \notin ActiveIn(sock)'
  PROVE  AlarmCoversDeadlines'
  <1>1. ASSUME NEW c \in ActiveIn(sock)'
        PROVE  c \in ActiveIn(sock) /\ sock'[c].expires = sock[c].expires
    <2>1. c \in Conns
      BY DEF ActiveIn, Listed
    <2> QED
      BY <2>1, ActiveFades
  <1>2. Deadlines(sock, rows)' \subseteq Deadlines(sock, rows)
    BY <1>1 DEF Deadlines
  <1> QED
    BY <1>2 DEF AlarmCoversDeadlines

\* scheduleAlarm sets the earliest deadline, and no deadline is at time 0.
LEMMA ScheduleCovers ==
  ASSUME TypeOK, clock' = clock, sock' \in [Conns -> SocketType], rows' \in SUBSET RowType,
         NEW n, ScheduleAlarm(sock', rows', n)
  PROVE  AlarmCoversDeadlines'
  <1>1. clock \in Nat
    BY ChannelAssumption DEF TypeOK, Times
  <1>2. Deadlines(sock, rows)' = Deadlines(sock', rows')
    BY DEF Deadlines, ActiveIn, ActiveSession, Listed
  <1>3. \A r \in rows' : r.at + Retention # 0
    BY ChannelAssumption DEF RowType, Times
  <1>4. \A c \in ActiveIn(sock') : sock'[c].expires # 0
    BY <1>1 DEF ActiveIn, ActiveSession
  <1>5. \A t \in Deadlines(sock', rows') : t # 0
    BY <1>3, <1>4 DEF Deadlines
  <1>6. ASSUME NEW t \in Deadlines(sock', rows') PROVE alarm' # 0 /\ alarm' <= t
    BY <1>5 DEF ScheduleAlarm
  <1> QED
    BY <1>2, <1>6 DEF AlarmCoversDeadlines

\* So does every step.
LEMMA AlarmInductive ==
  ASSUME TypeOK, AlarmCoversDeadlines, [Next]_vars PROVE AlarmCoversDeadlines'
<1> USE DEF stored
<1>0. sock \in [Conns -> SocketType] /\ rows \in SUBSET RowType /\ alarm \in Nat /\ clock \in Nat
  BY ClockRises DEF TypeOK
<1>1. ASSUME NEW x \in Conns, NEW s \in Sessions, Fetch(x, s) PROVE AlarmCoversDeadlines'
  <2>1. alarm' = alarm /\ clock' = clock /\ rows' \subseteq rows
    BY <1>1 DEF Fetch, Prune
  <2>2. \A c \in Conns : c # x => Fades(c)
    BY <1>1, FetchIs DEF Fades, Listed
  <2>3. x \notin ActiveIn(sock)'
    BY <1>0, <1>1, <2>1, FetchIs DEF ActiveIn, ActiveSession, Listed
  <2> QED
    BY <2>1, <2>2, <2>3, AlarmFrame
<1>2. ASSUME NEW x \in Conns, NEW e \in SessionEnds, BindAnswered(x, e)
      PROVE  AlarmCoversDeadlines'
  <2>1. rows' = rows /\ clock' = clock /\ \A c \in Conns : c # x => Fades(c)
    BY <1>2, AnswerIs DEF BindAnswered, Fades, Listed
  <2>2. CASE sock[x].revoked
    <3>1. alarm' = alarm /\ x \notin ActiveIn(sock)'
      BY <1>2, <2>2, AnswerIs DEF BindAnswered, ActiveIn, ActiveSession
    <3> QED
      BY <2>1, <3>1, AlarmFrame
  <2>3. CASE ~sock[x].revoked
    <3>1. alarm' = IF alarm = 0 \/ alarm > e THEN e ELSE alarm
      BY <1>2, <2>3 DEF BindAnswered
    <3>2. e \in Nat \ {0}
      BY ChannelAssumption
    <3>3. sock'[x].expires \in {sock[x].expires, e}
      BY <1>2, AnswerIs
    <3>4. ASSUME NEW c \in ActiveIn(sock)'
          PROVE  sock'[c].expires = e \/ (c \in ActiveIn(sock) /\ sock'[c].expires = sock[c].expires)
      <4>1. CASE c # x
        BY <2>1, <4>1, ActiveFades DEF ActiveIn, Listed
      <4>2. CASE c = x
        BY <1>2, <2>1, <2>3, <3>3, <4>2, AnswerIs DEF ActiveIn, ActiveSession
      <4> QED
        BY <4>1, <4>2
    <3>5. ASSUME NEW t \in Deadlines(sock, rows)' PROVE t = e \/ t \in Deadlines(sock, rows)
      BY <2>1, <3>4 DEF Deadlines
    <3>6. Deadlines(sock, rows) \subseteq Nat
      BY <1>0, ChannelAssumption DEF Deadlines, ActiveIn, Listed, RowType, Times, SocketType
    <3>7. ASSUME NEW t \in Deadlines(sock, rows)' PROVE alarm' # 0 /\ alarm' <= t
      BY <1>0, <3>1, <3>2, <3>5, <3>6 DEF AlarmCoversDeadlines
    <3> QED
      BY <3>7 DEF AlarmCoversDeadlines
  <2> QED
    BY <2>2, <2>3
<1>3. ASSUME NEW x \in Conns, NEW f \in Frames, Store(x, f) PROVE AlarmCoversDeadlines'
  <2> DEFINE row == [seq |-> nextSeq, msg |-> f, at |-> clock, via |-> x]
  <2>1. row \in RowType
    BY DEF TypeOK, RowType
  <2>2. rows' \subseteq rows \cup {row} /\ clock' = clock /\ ScheduleAlarm(sock', rows', alarm)
    BY <1>3 DEF Store, Prune, Trim
  <2>3. sock' \in [Conns -> SocketType]
    BY <1>0, <1>3, CloseType DEF Store, ExpireSockets
  <2>4. rows' \in SUBSET RowType
    BY <1>0, <2>1, <2>2
  <2> QED
    BY <2>2, <2>3, <2>4, ScheduleCovers
<1>4. CASE Alarm
  <2>1. rows' \in SUBSET RowType /\ sock' \in [Conns -> SocketType]
    BY <1>0, <1>4, CloseType DEF Alarm, Prune, ExpireSockets
  <2> QED
    BY <1>4, <2>1, ScheduleCovers DEF Alarm
<1>5. CASE /\ ~ \E c \in Conns, s \in Sessions : Fetch(c, s)
           /\ ~ \E c \in Conns, e \in SessionEnds : BindAnswered(c, e)
           /\ UNCHANGED <<alarm, rows>>
  BY <1>5, OthersFade, AlarmFrame
<1> QED
  BY <1>1, <1>2, <1>3, <1>4, <1>5 DEF Next, vars, Authorize, BindRefused, DropInactive,
     DropAbusive, PutState, Forward, AckDuplicate, FinishStore, CloseEvent,
     RevokeSession, Restart, Tick

\* One alarm serves the retention of rows and the expiry of sessions, and is never
\* later than the next of either.
THEOREM AlarmNeverLate == Spec => []AlarmCoversDeadlines
<1>1. Init => AlarmCoversDeadlines
  BY DEF Init, AlarmCoversDeadlines, Deadlines, ActiveIn, Listed, Unused
<1>2. TypeOK /\ AlarmCoversDeadlines /\ [Next]_vars => AlarmCoversDeadlines'
  BY AlarmInductive
<1> QED
  BY <1>1, <1>2, TypeCorrect, PTL DEF Spec

-----------------------------------------------------------------------------
(* How long messages are kept.                                              *)

\* A finite set of rows has an oldest one.
LEMMA OldestRow ==
  ASSUME NEW R, R # {}, IsFiniteSet(R), \A r \in R : r.seq \in Nat
  PROVE  \E r \in R : \A q \in R : r.seq <= q.seq
  <1> DEFINE Older(r) == {q \in R : q.seq < r.seq}
             U == {Older(r) : r \in R}
  <1>1. U \subseteq FiniteSubsetsOf(R) /\ U # {}
    <2>1. U \subseteq SUBSET R /\ U # {}
      OBVIOUS
    <2> HIDE DEF U
    <2>2. FiniteSubsetsOf(R) = SUBSET R
      BY FS_FiniteSubsetsOfFinite
    <2> QED
      BY <2>1, <2>2
  <1>2. PICK B \in U : \A C \in U : ~ (<<C, B>> \in StrictSubsetOrdering(R))
    <2> HIDE DEF U
    <2> QED
      BY <1>1, WFMin, FS_StrictSubsetOrderingWellFounded, Zenon
  <1>3. PICK r \in R : B = Older(r)
    OBVIOUS
  <1>4. ASSUME NEW q \in R, q.seq < r.seq PROVE FALSE
    <2>1. Older(q) \in U /\ Older(q) \subseteq Older(r) /\ q \in Older(r) /\ q \notin Older(q)
      BY <1>4
    <2>2. <<Older(q), B>> \in StrictSubsetOrdering(R)
      BY <1>3, <2>1 DEF StrictSubsetOrdering
    <2> QED
      BY <1>2, <2>1, <2>2
  <1> QED
    BY <1>4

\* Trimming leaves at most MaxHistory rows: the oldest one left has all the others
\* after it.
LEMMA TrimSize ==
  ASSUME NEW R, IsFiniteSet(R), \A r \in R : r.seq \in Nat,
         \A r, q \in R : r.seq = q.seq => r = q
  PROVE  IsFiniteSet(Trim(R)) /\ Cardinality(Trim(R)) <= MaxHistory
  <1>0. MaxHistory \in Nat \ {0}
    BY ChannelAssumption
  <1>1. IsFiniteSet(Trim(R)) /\ Trim(R) \subseteq R
    <2>1. Trim(R) \subseteq R
      BY DEF Trim
    <2> QED
      BY <2>1, FS_Subset
  <1>2. CASE Trim(R) = {}
    BY <1>0, <1>1, <1>2, FS_EmptySet
  <1>3. CASE Trim(R) # {}
    <2>1. PICK o \in Trim(R) : \A q \in Trim(R) : o.seq <= q.seq
      BY <1>1, <1>3, OldestRow
    <2> DEFINE newer == {q \in R : q.seq > o.seq}
    <2>2. IsFiniteSet(newer) /\ Cardinality(newer) < MaxHistory
      <3>1. newer \subseteq R
        OBVIOUS
      <3>2. Cardinality(newer) < MaxHistory
        BY DEF Trim
      <3> HIDE DEF newer
      <3> QED
        BY <3>1, <3>2, FS_Subset
    <2>3. Trim(R) \subseteq newer \cup {o}
      BY <1>1, <2>1
    <2> HIDE DEF newer
    <2>4. /\ IsFiniteSet(newer \cup {o})
          /\ Cardinality(newer \cup {o}) <= Cardinality(newer) + 1
          /\ Cardinality(newer) \in Nat
      <3>1. Cardinality(newer) \in Nat
        BY <2>2, FS_CardinalityType
      <3>2. /\ IsFiniteSet(newer \cup {o})
            /\ \/ Cardinality(newer \cup {o}) = Cardinality(newer)
               \/ Cardinality(newer \cup {o}) = Cardinality(newer) + 1
        BY <2>2, FS_AddElement
      <3> QED
        BY <3>1, <3>2
    <2>5. Cardinality(Trim(R)) <= Cardinality(newer \cup {o})
      BY <2>3, <2>4, FS_Subset
    <2>6. Cardinality(Trim(R)) \in Nat /\ Cardinality(newer \cup {o}) \in Nat
      BY <1>1, <2>4, FS_CardinalityType
    <2> QED
      BY <1>0, <1>1, <2>2, <2>4, <2>5, <2>6
  <1> QED
    BY <1>2, <1>3

\* Sequence numbers are drawn in rising order and once.
Numbered ==
  /\ IsFiniteSet(log)
  /\ \A r \in log : r.seq < nextSeq
  /\ \A r, q \in log : r.seq = q.seq => r = q

\* HistoryKept with what makes it inductive.
HistoryInv == Numbered /\ HistoryKept

\* A row that was rightly gone stays so when the log and the clock only grow.
RightlyGone(r) ==
  \/ r.at + Retention <= clock
  \/ Cardinality({q \in log : q.seq > r.seq}) >= MaxHistory

\* RightlyGone is not taken back.
LEMMA GoneStays ==
  ASSUME TypeOK, HistoryInv, log \subseteq log', IsFiniteSet(log'),
         clock \in Nat, clock' \in Nat, clock <= clock', NEW r \in log, RightlyGone(r)
  PROVE  RightlyGone(r)'
  <1> DEFINE old == {q \in log : q.seq > r.seq}
             new == {q \in log' : q.seq > r.seq}
  <1>1. old \subseteq new /\ new \subseteq log'
    OBVIOUS
  <1>2. (r.at + Retention <= clock) => (r.at + Retention <= clock')
    BY ChannelAssumption DEF TypeOK, RowType, Times
  <1>3. Cardinality(old) >= MaxHistory => Cardinality(new) >= MaxHistory
    <2> HIDE DEF old, new
    <2>1. IsFiniteSet(new)
      BY <1>1, FS_Subset
    <2>2. IsFiniteSet(old) /\ Cardinality(old) <= Cardinality(new)
      BY <1>1, <2>1, FS_Subset
    <2>3. Cardinality(old) \in Nat /\ Cardinality(new) \in Nat
      BY <2>1, <2>2, FS_CardinalityType
    <2> QED
      BY <2>2, <2>3, ChannelAssumption
  <1> QED
    BY <1>2, <1>3 DEF RightlyGone

\* A step that inserts nothing may only drop rows whose retention has run out.
LEMMA HistoryFrame ==
  ASSUME TypeOK, HistoryInv, [Next]_vars, UNCHANGED <<log, nextSeq>>,
         rows' \subseteq rows, \A r \in rows \ rows' : r.at + Retention <= clock
  PROVE  HistoryInv'
  <1>1. Numbered'
    BY DEF HistoryInv, Numbered
  <1>2. clock \in Nat /\ clock' \in Nat /\ clock <= clock'
    BY ClockRises
  <1>3. ASSUME NEW r \in log' \ rows' PROVE RightlyGone(r)'
    <2>1. RightlyGone(r)
      BY DEF HistoryInv, HistoryKept, RightlyGone
    <2> QED
      BY <1>2, <2>1, GoneStays DEF HistoryInv, Numbered
  <1>4. Cardinality(rows') <= MaxHistory
    <2>1. IsFiniteSet(rows) /\ IsFiniteSet(rows') /\ Cardinality(rows') <= Cardinality(rows)
      BY FS_Subset DEF HistoryInv, HistoryKept, Numbered
    <2>2. Cardinality(rows) \in Nat /\ Cardinality(rows') \in Nat
      BY <2>1, FS_CardinalityType
    <2> QED
      BY <2>1, <2>2, ChannelAssumption DEF HistoryInv, HistoryKept
  <1> QED
    BY <1>1, <1>3, <1>4 DEF HistoryInv, HistoryKept, RightlyGone

\* Every step removes only rows that may go.
LEMMA HistoryInductive ==
  ASSUME TypeOK, HistoryInv, [Next]_vars PROVE HistoryInv'
<1> USE DEF stored
<1>0. /\ clock \in Nat /\ nextSeq \in Nat
      /\ rows \in SUBSET RowType /\ log \in SUBSET RowType
  BY ClockRises DEF TypeOK
<1>1. ASSUME NEW c \in Conns, NEW f \in Frames, Store(c, f) PROVE HistoryInv'
  <2> DEFINE row == [seq |-> nextSeq, msg |-> f, at |-> clock, via |-> c]
             R == rows \cup {row}
  <2>1. /\ rows' = Prune(Trim(R)) /\ log' = log \cup {row}
        /\ nextSeq' = nextSeq + 1 /\ clock' = clock
    BY <1>1 DEF Store
  <2>2. row.seq = nextSeq /\ row \in RowType
    BY DEF TypeOK, RowType
  <2> HIDE DEF row
  <2>3. /\ IsFiniteSet(log') /\ R \subseteq log' /\ IsFiniteSet(R)
        /\ \A r \in log' : r.seq \in Nat
    <3>1. IsFiniteSet(log') /\ R \subseteq log'
      BY <2>1, FS_AddElement DEF HistoryInv, Numbered, HistoryKept
    <3>2. \A r \in log' : r.seq \in Nat
      BY <1>0, <2>1, <2>2 DEF RowType
    <3> QED
      BY <3>1, <3>2, FS_Subset
  <2>4. Numbered'
    <3>1. \A r \in log : r.seq \in Nat /\ r.seq < nextSeq
      BY <1>0 DEF HistoryInv, Numbered, RowType
    <3>2. \A r \in log' : r.seq < nextSeq'
      BY <1>0, <2>1, <2>2, <3>1
    <3>3. \A r, q \in log' : r.seq = q.seq => r = q
      BY <1>0, <2>1, <2>2, <3>1 DEF HistoryInv, Numbered
    <3> QED
      BY <2>3, <3>2, <3>3 DEF Numbered
  <2>5. IsFiniteSet(Trim(R)) /\ Cardinality(Trim(R)) <= MaxHistory
    <3>1. \A r, q \in R : r.seq = q.seq => r = q
      BY <2>3, <2>4 DEF Numbered
    <3> HIDE DEF R
    <3> QED
      BY <2>3, <3>1, TrimSize
  <2>6. Cardinality(rows') <= MaxHistory
    <3>1. rows' \subseteq Trim(R)
      BY <2>1 DEF Prune
    <3> HIDE DEF R
    <3>2. IsFiniteSet(rows') /\ Cardinality(rows') <= Cardinality(Trim(R))
      BY <2>5, <3>1, FS_Subset
    <3>3. Cardinality(rows') \in Nat /\ Cardinality(Trim(R)) \in Nat
      BY <2>5, <3>2, FS_CardinalityType
    <3> QED
      BY <2>5, <3>2, <3>3, ChannelAssumption
  <2>7. ASSUME NEW r \in log' \ rows' PROVE RightlyGone(r)'
    <3>1. CASE r \in log \ rows
      <4>1. RightlyGone(r) /\ log \subseteq log'
        BY <2>1, <3>1 DEF HistoryInv, HistoryKept, RightlyGone
      <4> QED
        BY <1>0, <2>1, <2>3, <3>1, <4>1, GoneStays
    <3>2. CASE r \in R \ Trim(R)
      <4> DEFINE some == {q \in R : q.seq > r.seq}
                 all == {q \in log' : q.seq > r.seq}
      <4>1. ~(Cardinality(some) < MaxHistory)
        BY <3>2 DEF Trim
      <4>2. some \subseteq all /\ all \subseteq log'
        BY <2>3
      <4>3. (Cardinality(all) >= MaxHistory) => RightlyGone(r)'
        BY DEF RightlyGone
      <4> HIDE DEF some, all
      <4>4. IsFiniteSet(all)
        BY <2>3, <4>2, FS_Subset
      <4>5. IsFiniteSet(some) /\ Cardinality(some) <= Cardinality(all)
        BY <4>2, <4>4, FS_Subset
      <4>6. Cardinality(some) \in Nat /\ Cardinality(all) \in Nat
        BY <4>4, <4>5, FS_CardinalityType
      <4> QED
        BY <4>1, <4>3, <4>5, <4>6, ChannelAssumption
    <3>3. CASE r \in Trim(R)
      <4>1. r \in R /\ ~(r.at > clock - Retention)
        BY <2>1, <2>7, <3>3 DEF Prune, Trim
      <4>2. r.at \in Nat
        BY <1>0, <2>2, <4>1 DEF RowType, Times
      <4> QED
        BY <1>0, <2>1, <4>1, <4>2, ChannelAssumption DEF RightlyGone
    <3> QED
      BY <2>1, <3>1, <3>2, <3>3
  <2>8. rows' \subseteq log'
    BY <2>1, <2>3 DEF Prune, Trim
  <2> QED
    BY <2>4, <2>6, <2>7, <2>8 DEF HistoryInv, HistoryKept, RightlyGone
<1>2. ASSUME rows' = Prune(rows), UNCHANGED <<log, nextSeq>> PROVE HistoryInv'
  <2>1. rows' \subseteq rows
    BY <1>2 DEF Prune
  <2>2. ASSUME NEW r \in rows \ rows' PROVE r.at + Retention <= clock
    <3>1. r.at \in Nat /\ ~(r.at > clock - Retention)
      BY <1>0, <1>2 DEF Prune, RowType, Times
    <3> QED
      BY <1>0, <3>1, ChannelAssumption
  <2> QED
    BY <1>2, <2>1, <2>2, HistoryFrame
<1>3. ASSUME NEW c \in Conns, NEW s \in Sessions, Fetch(c, s) PROVE HistoryInv'
  BY <1>2, <1>3 DEF Fetch
<1>4. CASE Alarm
  BY <1>2, <1>4 DEF Alarm
<1>5. CASE UNCHANGED <<rows, log, nextSeq>>
  BY <1>5, HistoryFrame
<1> QED
  BY <1>1, <1>3, <1>4, <1>5 DEF Next, vars, Authorize, BindRefused, BindAnswered, DropInactive,
     DropAbusive, PutState, Forward, AckDuplicate, FinishStore, CloseEvent,
     RevokeSession, Restart, Tick

\* The table keeps every row its retention and its capacity allow, and no more than
\* MaxHistory, whatever order inserts, prunings and alarms come in.
THEOREM HistoryIsKept == Spec => []HistoryKept
<1>1. Init => HistoryInv
  BY FS_EmptySet, ChannelAssumption DEF Init, HistoryInv, Numbered, HistoryKept
<1>2. TypeOK /\ HistoryInv /\ [Next]_vars => HistoryInv'
  BY HistoryInductive
<1>3. HistoryInv => HistoryKept
  BY DEF HistoryInv
<1> QED
  BY <1>1, <1>2, <1>3, TypeCorrect, PTL DEF Spec
=============================================================================
