---------------------------- MODULE AuthorizedChannel ----------------------------
(***************************************************************************)
(* The Durable Object that stores and forwards the encrypted events of one *)
(* workspace or direct-message conversation                                *)
(* (packages/core/worker/realtime/gateway/authorizedChannel.mjs), with the *)
(* session binding of its sockets (channelSessions.mjs).                   *)
(*                                                                         *)
(* One action is one handler run up to its next await on another object or *)
(* on the alarm write; what follows the await is an action of its own.     *)
(* The one place that relies on the platform holding events back while     *)
(* storage is awaited is the read and write of the alarm in                *)
(* bindChannelSession, which is one step here.  Ciphertexts, opaque ids    *)
(* and JSON are abstracted to the members of Frames.  A principal (the     *)
(* HMAC of an e-mail, or an account id) is the user it stands for.         *)
(***************************************************************************)
EXTENDS Integers, FiniteSets

CONSTANTS
  Users,        \* principals
  Devices,      \* device keys of an account (uid, dk)
  Sessions,     \* gateway session ids (sid)
  UserOf,       \* UserOf[d]: the account of device d
  DeviceOf,     \* DeviceOf[s]: the device session s was opened by
  Conns,        \* connection ids, each used for one WebSocket
  Docs,         \* signed authority documents
  Frames,       \* the event frames clients send
  Keys,         \* keys of last-writer-wins state
  NoDoc,        \* no authority installed yet
  Anyone,       \* target of an untargeted frame
  MaxHistory,   \* maxHistoryEvents
  MaxStates,    \* capacity of channel_states
  Retention,    \* retentionMs
  Lease,        \* AUTH_TTL_MAX_MS
  Skew,         \* how far ahead of the clock a state revision may be
  SessionEnds,  \* expiry times the gateway may answer a binding with
  MaxClock,     \* bound: the clock stops here
  MaxWrites     \* bound: rows ever inserted

Times == 0 .. MaxClock

DocType == [owner : Nat, version : Nat, fingerprint : Nat, members : SUBSET Users]

FrameType == [id : Nat, from : Users, kind : {"persisted", "state", "transient"},
              target : Users \cup {Anyone}, key : Keys, rev : Nat, deleted : {0, 1}]

NoState == [id |-> 0, from |-> Anyone, kind |-> "state", target |-> Anyone,
            key |-> Anyone, rev |-> -1, deleted |-> 0]

ASSUME ChannelAssumption ==
  /\ Sessions # {}
  /\ UserOf \in [Devices -> Users]
  /\ DeviceOf \in [Sessions -> Devices]
  /\ Docs \subseteq DocType
  /\ Frames \subseteq FrameType
  /\ NoDoc \notin DocType
  /\ Anyone \notin Users
  /\ MaxHistory \in Nat \ {0}
  /\ MaxStates \in Nat \ {0}
  /\ Retention \in Nat \ {0}
  /\ Lease \in Nat \ {0}
  /\ Skew \in Nat
  /\ SessionEnds \subseteq Nat \ {0}
  /\ MaxClock \in Nat
  /\ MaxWrites \in Nat

\* A signature determines the document it signs.
ASSUME DocAssumption ==
  \A a, b \in Docs : a.fingerprint = b.fingerprint => a = b

\* A message id is drawn once (crypto.randomUUID or the signed payload's id).
ASSUME FrameAssumption == \A f, g \in Frames : f.id = g.id => f = g

VARIABLES
  clock,
  authority,  \* channel_authority: the installed document, without its members
  members,    \* channel_members
  grants,     \* channel_authorizations: lease end per device, 0 for no row
  sock,       \* the WebSockets of ctx.getWebSockets() and their attachments
  alarm,      \* the object's alarm, 0 when none is set
  rows,       \* channel_events
  states,     \* channel_states: the frame last written to each key
  nextSeq,    \* AUTOINCREMENT counter of channel_events
  storing,    \* message handlers suspended in `await this.scheduleAlarm()`
  acks,       \* <<c, f>>: frame f was acknowledged on connection c
  got,        \* got[c]: event frames sent to connection c, live or in its snapshot
  roster,     \* roster[c]: members of the last member list sent to c
  log         \* history: every row ever inserted (a row's `via`, the connection
              \* it came in on, is history too; the table keeps the sender's key)

vars == <<clock, authority, members, grants, sock, alarm, rows, states, nextSeq,
          storing, acks, got, roster, log>>

stored == <<authority, members, grants, rows, states, nextSeq, log>>

-----------------------------------------------------------------------------
(* Sockets and sessions.                                                    *)

Unused == [phase |-> "unused", bind |-> FALSE, sess |-> CHOOSE s \in Sessions : TRUE,
           revoked |-> FALSE, expires |-> 0]

SocketType == [phase : {"unused", "open", "closing", "closed"}, bind : BOOLEAN,
               sess : Sessions, revoked : BOOLEAN, expires : Nat]

\* The WebSockets the object still lists; one that was close()d stays listed
\* until its close event.
Listed(S) == {c \in Conns : S[c].phase \in {"open", "closing"}}

User(S, c) == UserOf[DeviceOf[S[c].sess]]

\* activeChannelSession: a bound attachment, not revoked, not expired.
ActiveSession(S, c) == ~S[c].revoked /\ S[c].expires > clock

ActiveIn(S) == {c \in Listed(S) : ActiveSession(S, c)}

Close(S, C) == [c \in Conns |->
  IF c \in C /\ S[c].phase = "open" THEN [S[c] EXCEPT !.phase = "closing"] ELSE S[c]]

Revoke(S, C) == Close([c \in Conns |->
  IF c \in C THEN [S[c] EXCEPT !.revoked = TRUE] ELSE S[c]], C)

\* Mutant of Broadcast: the list still names the connection that left.
BroadcastStaleList(S, excluded) == [c \in Conns |->
  IF c \in ActiveIn(S) \ excluded /\ S[c].phase = "open" THEN ActiveIn(S) ELSE roster[c]]

\* broadcastMembers(exclude): every active socket but the excluded ones is told
\* who is active; send() throws on one that is closing, and is caught.
Broadcast(S, excluded) == [c \in Conns |->
  IF c \in ActiveIn(S) \ excluded /\ S[c].phase = "open"
    THEN ActiveIn(S) \ excluded ELSE roster[c]]

\* Mutant of ExpireSockets: only revoked sockets are closed.
ExpireRevokedOnly(S) == Close(S, {c \in Listed(S) : S[c].revoked})

\* expireChannelSessions: whatever is not active is closed -- a socket whose
\* session is still being bound included.
ExpireSockets(S) == Close(S, Listed(S) \ ActiveIn(S))

-----------------------------------------------------------------------------
(* The event table and the alarm.                                           *)

\* Mutants of Prune and Trim: a row is kept at the instant its retention ends;
\* the oldest rows are kept instead of the newest.
PruneLate(R) == {r \in R : r.at >= clock - Retention}
TrimNewest(R) == {r \in R : Cardinality({s \in R : s.seq < r.seq}) < MaxHistory}

Prune(R) == {r \in R : r.at > clock - Retention}

Trim(R) == {r \in R : Cardinality({s \in R : s.seq > r.seq}) < MaxHistory}

\* scheduleAlarm: the next retention or session deadline, if there is one.
Deadlines(S, R) == {r.at + Retention : r \in R} \cup {S[c].expires : c \in ActiveIn(S)}

\* Mutant of ScheduleAlarm: the session deadlines are left out.
ScheduleRetention(S, R, otherwise) ==
  \/ R = {} /\ alarm' = otherwise
  \/ \E r \in R : (\A q \in R : r.at <= q.at) /\ alarm' = r.at + Retention

ScheduleAlarm(S, R, otherwise) ==
  \/ Deadlines(S, R) = {} /\ alarm' = otherwise
  \/ \E t \in Deadlines(S, R) : (\A u \in Deadlines(S, R) : t <= u) /\ alarm' = t

LiveGrants == [d \in Devices |-> IF grants[d] <= clock THEN 0 ELSE grants[d]]

\* What a user may read of the stored events (historyFor).
Readable(f, u) == f.target \in {Anyone, u} \/ f.from = u

\* Mutant of History: a row without a target is read by its author only.
HistoryAddressed(R, u) == {r.msg : r \in {q \in R : q.msg.target = u \/ q.msg.from = u}}

History(R, u) == {r.msg : r \in {q \in R : Readable(q.msg, u)}}

Written(k) == states[k] # NoState

\* Mutant of SnapshotFor: the states are not filtered.
SnapshotUnfiltered(u) == {states[k] : k \in Keys} \cup History(rows, u)

\* The frames of a snapshot: the state of every written key, then the events.
SnapshotFor(u) == {states[k] : k \in {j \in Keys : Written(j)}} \cup History(rows, u)

\* Mutant of Supersedes: of two writes of one revision the later one wins.
SupersedesOnTie(f, t) == f.rev >= t.rev

Supersedes(f, t) == f.rev > t.rev \/ (f.rev = t.rev /\ f.deleted > t.deleted)

-----------------------------------------------------------------------------
Init ==
  /\ clock = 0
  /\ authority = NoDoc
  /\ members = {}
  /\ grants = [d \in Devices |-> 0]
  /\ sock = [c \in Conns |-> Unused]
  /\ alarm = 0
  /\ rows = {}
  /\ states = [k \in Keys |-> NoState]
  /\ nextSeq = 1
  /\ storing = {}
  /\ acks = {}
  /\ got = [c \in Conns |-> {}]
  /\ roster = [c \in Conns |-> {}]
  /\ log = {}

-----------------------------------------------------------------------------
(* authorize(): an RPC made by a user's gateway after it verified doc.      *)

\* Mutant of Acceptable: the owner is not compared.
AcceptableAnyOwner(doc) ==
  authority # NoDoc =>
     /\ doc.version >= authority.version
     /\ doc.version = authority.version => doc.fingerprint = authority.fingerprint

Acceptable(doc) ==
  authority # NoDoc =>
     /\ doc.owner = authority.owner
     /\ doc.version >= authority.version
     /\ doc.version = authority.version => doc.fingerprint = authority.fingerprint

Newer(doc) == authority = NoDoc \/ doc.version > authority.version

\* Mutant of DropRevoked: sockets still being bound are passed over.
DropRevokedActive(S, M) == Revoke(S, {c \in ActiveIn(S) : User(S, c) \notin M})

\* dropRevokedSockets: every listed socket of a user outside M.
DropRevoked(S, M) == Revoke(S, {c \in Listed(S) : User(S, c) \notin M})

Install(doc) ==
  IF Newer(doc)
    THEN /\ authority' = doc
         /\ members' = doc.members
         /\ sock' = DropRevoked(sock, doc.members)
    ELSE UNCHANGED <<authority, members, sock>>

\* ttl: the time the gateway asked for, cut to AUTH_TTL_MAX_MS.
Authorize(d, doc, ttl) ==
  /\ doc.members # {}
  /\ Acceptable(doc)
  /\ Install(doc)
  /\ grants' = IF UserOf[d] \in members'
                 THEN [grants EXCEPT ![d] = clock + ttl]
                 ELSE grants
  /\ UNCHANGED <<clock, alarm, rows, states, nextSeq, storing, acks, got, roster, log>>

-----------------------------------------------------------------------------
(* fetch(): the WebSocket upgrade of session s as connection c.             *)

\* Mutant of Admitted: the lease alone admits.
AdmittedByLease(s) == LiveGrants[DeviceOf[s]] > clock

Admitted(s) == LiveGrants[DeviceOf[s]] > clock /\ UserOf[DeviceOf[s]] \in members

\* Up to the await of bindChannelSession: housekeeping, then 401/403 or accept.
Fetch(c, s) ==
  /\ sock[c].phase = "unused"
  /\ grants' = LiveGrants
  /\ rows' = Prune(rows)
  /\ sock' = IF Admitted(s)
               THEN [sock EXCEPT ![c] = [Unused EXCEPT !.phase = "open", !.bind = TRUE,
                                                       !.sess = s]]
               ELSE sock
  /\ UNCHANGED <<clock, authority, members, alarm, states, nextSeq, storing, acks,
                 got, roster, log>>

\* The gateway has refused the session, or the call failed.
BindRefused(c) ==
  /\ sock[c].bind
  /\ sock' = Close([sock EXCEPT ![c].bind = FALSE], {c})
  /\ UNCHANGED <<clock, alarm, storing, acks, got, roster, stored>>

\* The gateway recorded the subscription and answered with the session's
\* expiry e.  A revoke may have come first; the alarm may have to move earlier;
\* the snapshot and the broadcast go out only on a socket that can still send.
BindAnswered(c, e) ==
  /\ sock[c].bind
  /\ IF sock[c].revoked
       THEN /\ sock' = Close([sock EXCEPT ![c].bind = FALSE], {c})
            /\ UNCHANGED <<alarm, got, roster>>
       ELSE LET bound == [sock EXCEPT ![c] = [@ EXCEPT !.bind = FALSE, !.expires = e]]
                usable == sock[c].phase = "open" /\ e > clock
            IN  /\ sock' = IF e > clock THEN bound ELSE Close(bound, {c})
                /\ alarm' = IF alarm = 0 \/ alarm > e THEN e ELSE alarm
                /\ got' = IF usable
                            THEN [got EXCEPT ![c] = @ \cup SnapshotFor(User(sock, c))]
                            ELSE got
                /\ roster' = IF usable THEN Broadcast(bound, {}) ELSE roster
  /\ UNCHANGED <<clock, storing, acks, stored>>

-----------------------------------------------------------------------------
(* webSocketMessage(): frame f arrives on connection c.                     *)

Receiving(c) == sock[c].phase = "open" /\ ~sock[c].bind

\* An expired or revoked sender is closed, and its frame is dropped.
DropInactive(c) ==
  /\ Receiving(c)
  /\ ~ActiveSession(sock, c)
  /\ sock' = Close(sock, {c})
  /\ UNCHANGED <<clock, alarm, storing, acks, got, roster, stored>>

\* An oversized frame, or one past the rate limit, closes the socket.
DropAbusive(c) ==
  /\ Receiving(c)
  /\ ActiveSession(sock, c)
  /\ sock' = Close(sock, {c})
  /\ UNCHANGED <<clock, alarm, storing, acks, got, roster, stored>>

Accepts(c, f) ==
  /\ Receiving(c)
  /\ ActiveSession(sock, c)
  /\ f.from = User(sock, c)

\* Mutants of FanOut: the target is not looked at; every socket of the sender's
\* user is passed over.
FanOutUntargeted(c, f) ==
  /\ got' = [p \in Conns |->
       IF p \in ActiveIn(sock) \ {c} /\ sock[p].phase = "open"
         THEN got[p] \cup {f} ELSE got[p]]
  /\ acks' = acks \cup {<<c, f>>}

FanOutToOthers(c, f) ==
  /\ got' = [p \in Conns |->
       IF /\ p \in ActiveIn(sock) /\ User(sock, p) # User(sock, c)
          /\ sock[p].phase = "open"
          /\ f.target \in {Anyone, User(sock, p)}
         THEN got[p] \cup {f} ELSE got[p]]
  /\ acks' = acks \cup {<<c, f>>}

\* Fan-out of f to the active sockets other than the sender's, then the ack.
FanOut(c, f) ==
  /\ got' = [p \in Conns |->
       IF /\ p \in ActiveIn(sock) \ {c}
          /\ sock[p].phase = "open"
          /\ f.target \in {Anyone, User(sock, p)}
         THEN got[p] \cup {f} ELSE got[p]]
  /\ acks' = acks \cup {<<c, f>>}

\* Last-writer-wins state: a stale write is acknowledged and goes no further;
\* a new key past the capacity is an error reply.
PutState(c, f) ==
  /\ f.kind = "state"
  /\ f.target = Anyone /\ f.rev <= clock + Skew
  /\ Accepts(c, f)
  /\ \/ /\ ~Supersedes(f, states[f.key])
        /\ acks' = acks \cup {<<c, f>>}
        /\ UNCHANGED <<states, got>>
     \/ /\ Supersedes(f, states[f.key])
        /\ Written(f.key) \/ Cardinality({k \in Keys : Written(k)}) < MaxStates
        /\ states' = [states EXCEPT ![f.key] = f]
        /\ FanOut(c, f)
  /\ UNCHANGED <<clock, authority, members, grants, sock, alarm, rows, nextSeq,
                 storing, roster, log>>

\* Mutant of Forward: a message is forwarded without being stored.
ForwardStored(c, f) ==
  /\ f.kind \in {"transient", "persisted"}
  /\ Accepts(c, f)
  /\ FanOut(c, f)
  /\ UNCHANGED <<clock, sock, alarm, storing, roster, stored>>

\* An event that is neither stored nor state is only forwarded.
Forward(c, f) ==
  /\ f.kind = "transient"
  /\ Accepts(c, f)
  /\ FanOut(c, f)
  /\ UNCHANGED <<clock, sock, alarm, storing, roster, stored>>

\* A message id that is still in the table is acknowledged again.
AckDuplicate(c, f) ==
  /\ f.kind = "persisted"
  /\ Accepts(c, f)
  /\ \E r \in rows : r.msg = f
  /\ acks' = acks \cup {<<c, f>>}
  /\ UNCHANGED <<clock, sock, alarm, storing, got, roster, stored>>

\* A new message is inserted, the table trimmed and pruned, and the alarm
\* scheduled (which closes inactive sockets); the handler then awaits.
Store(c, f) ==
  /\ f.kind = "persisted"
  /\ Accepts(c, f)
  /\ \A r \in rows : r.msg # f
  /\ nextSeq <= MaxWrites
  /\ LET row == [seq |-> nextSeq, msg |-> f, at |-> clock, via |-> c]
     IN  /\ rows' = Prune(Trim(rows \cup {row}))
         /\ log' = log \cup {row}
  /\ nextSeq' = nextSeq + 1
  /\ sock' = ExpireSockets(sock)
  /\ ScheduleAlarm(sock', rows', alarm)
  /\ storing' = storing \cup {<<c, f>>}
  /\ UNCHANGED <<clock, authority, members, grants, states, acks, got, roster>>

\* After the await the sender is checked again; if it is gone, so is the rest
\* of the handler.
FinishStore(c, f) ==
  /\ <<c, f>> \in storing
  /\ storing' = storing \ {<<c, f>>}
  /\ IF c \in ActiveIn(sock) THEN FanOut(c, f) ELSE UNCHANGED <<acks, got>>
  /\ UNCHANGED <<clock, sock, alarm, roster, stored>>

-----------------------------------------------------------------------------
(* The other entry points of the object.                                    *)

\* webSocketClose / webSocketError: the client went, or the closing handshake
\* ended.
CloseEvent(c) ==
  /\ sock[c].phase \in {"open", "closing"}
  /\ sock' = [sock EXCEPT ![c].phase = "closed"]
  /\ roster' = Broadcast(sock, {c})
  /\ UNCHANGED <<clock, alarm, storing, acks, got, stored>>

\* revokeSession: the gateway revokes session s.
RevokeSession(s) ==
  /\ sock' = Revoke(sock, {c \in Listed(sock) : sock[c].sess = s})
  /\ roster' = Broadcast(sock', {})
  /\ UNCHANGED <<clock, alarm, storing, acks, got, stored>>

Alarm ==
  /\ alarm # 0 /\ alarm <= clock
  /\ grants' = LiveGrants
  /\ rows' = Prune(rows)
  /\ sock' = ExpireSockets(sock)
  /\ ScheduleAlarm(sock', rows', 0)
  /\ UNCHANGED <<clock, authority, members, states, nextSeq, storing, acks, got,
                 roster, log>>

\* The object is evicted or redeployed: suspended handlers and connections are
\* lost, storage and alarm stay.
Restart ==
  /\ sock' = [c \in Conns |->
       IF sock[c].phase = "unused" THEN sock[c]
                                   ELSE [sock[c] EXCEPT !.phase = "closed", !.bind = FALSE]]
  /\ storing' = {}
  /\ UNCHANGED <<clock, alarm, acks, got, roster, stored>>

Tick ==
  /\ clock < MaxClock
  /\ clock' = clock + 1
  /\ UNCHANGED <<sock, alarm, storing, acks, got, roster, stored>>

Next ==
  \/ \E d \in Devices, doc \in Docs, ttl \in 1 .. Lease : Authorize(d, doc, ttl)
  \/ \E c \in Conns, s \in Sessions : Fetch(c, s)
  \/ \E c \in Conns : BindRefused(c)
  \/ \E c \in Conns, e \in SessionEnds : BindAnswered(c, e)
  \/ \E c \in Conns : DropInactive(c)
  \/ \E c \in Conns : DropAbusive(c)
  \/ \E c \in Conns, f \in Frames : PutState(c, f)
  \/ \E c \in Conns, f \in Frames : Forward(c, f)
  \/ \E c \in Conns, f \in Frames : AckDuplicate(c, f)
  \/ \E c \in Conns, f \in Frames : Store(c, f)
  \/ \E c \in Conns, f \in Frames : FinishStore(c, f)
  \/ \E c \in Conns : CloseEvent(c)
  \/ \E s \in Sessions : RevokeSession(s)
  \/ Alarm
  \/ Restart
  \/ Tick

Spec == Init /\ [][Next]_vars

\* The platform runs an alarm that is due, and again if it failed.
FairSpec == Spec /\ WF_vars(Alarm)

-----------------------------------------------------------------------------
(* Properties.                                                              *)

RowType == [seq : Nat, msg : Frames, at : Times, via : Conns]

\* Every variable holds what its table, attachment or message can hold.
TypeOK ==
  /\ clock \in Times
  /\ authority \in Docs \cup {NoDoc}
  /\ members \in SUBSET Users
  /\ grants \in [Devices -> Nat]
  /\ sock \in [Conns -> SocketType]
  /\ alarm \in Nat
  /\ rows \in SUBSET RowType
  /\ states \in [Keys -> Frames \cup {NoState}]
  /\ nextSeq \in Nat
  /\ storing \in SUBSET (Conns \X Frames)
  /\ acks \in SUBSET (Conns \X Frames)
  /\ got \in [Conns -> SUBSET Frames]
  /\ roster \in [Conns -> SUBSET Conns]
  /\ log \in SUBSET RowType

\* A socket that may send and is sent to belongs to a current member: a newer
\* authority cuts off the users it drops, the ones still being bound included.
ActiveAreMembers == \A c \in ActiveIn(sock) : User(sock, c) \in members

\* The authority is replaced only by a newer document of the same owner, and
\* the member table only together with it, by that document's members.
AuthorityOnlyAdvances ==
  [][/\ authority' # authority => \/ authority = NoDoc
                                  \/ /\ authority'.owner = authority.owner
                                     /\ authority'.version > authority.version
     /\ members' # members => authority' # authority /\ members' = authority'.members]_vars

\* A row leaves the table only when its retention ran out or MaxHistory newer
\* rows were inserted, and the table never holds more than that.
HistoryKept ==
  /\ rows \subseteq log
  /\ \A r \in log \ rows :
       \/ r.at + Retention <= clock
       \/ Cardinality({s \in log : s.seq > r.seq}) >= MaxHistory
  /\ Cardinality(rows) <= MaxHistory

\* Persist before acknowledging and before fan-out: a message that was
\* acknowledged, or that any connection was sent, is in the log.
PersistedFirst ==
  \A c \in Conns : \A f \in Frames :
    /\ f.kind = "persisted"
    /\ f \in got[c] \/ <<c, f>> \in acks
    => \E r \in log : r.msg = f

\* Nobody is sent a targeted event but its target and its author.
OnlyReadersReceive ==
  \A c \in Conns : \A f \in got[c] : Readable(f, User(sock, c))

\* A connection whose session was revoked, or whose user is no longer a member,
\* is sent nothing any more: no event, no snapshot, no member list.
NothingAfterRevocation ==
  [][\A c \in Conns :
       sock[c].revoked \/ User(sock, c) \notin members =>
         got'[c] = got[c] /\ roster'[c] = roster[c]]_vars

\* An acknowledged state write is never undone by an older one: the stored
\* state of a key is at least as new as every write acknowledged for it.
AckedStateWins ==
  \A c \in Conns, f \in Frames :
    f.kind = "state" /\ <<c, f>> \in acks =>
      \/ f.rev < states[f.key].rev
      \/ f.rev = states[f.key].rev /\ f.deleted <= states[f.key].deleted

\* Connected is up to date: an open, active connection has been sent the
\* current state of every key, or wrote it.
StateReachesActive ==
  \A k \in Keys, c \in ActiveIn(sock) :
    Written(k) /\ sock[c].phase = "open" =>
      states[k] \in got[c] \/ <<c, states[k]>> \in acks

\* The same for messages, with the one exception the code has: when the author's
\* connection stopped being active between the insert and the fan-out, the stored
\* message is not forwarded.
RowsReachActive ==
  \A r \in rows, c \in ActiveIn(sock) :
    c # r.via /\ sock[c].phase = "open" /\ r.msg.target \in {Anyone, User(sock, c)} =>
      \/ r.msg \in got[c]
      \/ <<r.via, r.msg>> \in storing
      \/ r.via \notin ActiveIn(sock)

\* The alarm is set no later than the next retention or session deadline.
AlarmCoversDeadlines ==
  \A t \in Deadlines(sock, rows) : alarm # 0 /\ alarm <= t

\* When no socket is closing or expired but still open, the last member list
\* every active connection was sent is exact.
Settled == \A c \in Listed(sock) : sock[c].phase = "open" /\ (sock[c].bind \/ c \in ActiveIn(sock))

RosterExact == Settled => \A c \in ActiveIn(sock) : roster[c] = ActiveIn(sock)

\* An expired session's socket is closed, and a row past its retention removed.
ExpiredSocketCloses ==
  \A c \in Conns : (sock[c].phase = "open" /\ ~sock[c].bind /\ ~ActiveSession(sock, c))
                      ~> sock[c].phase # "open"

OverdueRowsGo ==
  \A f \in Frames : (\E r \in rows : r.msg = f /\ r.at + Retention <= clock)
                      ~> ~(\E r \in rows : r.msg = f /\ r.at + Retention <= clock)

-----------------------------------------------------------------------------
(* A claim of the documents that the code does not keep.                    *)

\* docs/DURABLE_OBJECTS_ARCHITECTURE.md: "Duplicate message IDs are acknowledged
\* without a second write or broadcast".
NoSecondWrite == \A r, s \in log : r.msg = s.msg => r = s
=============================================================================
