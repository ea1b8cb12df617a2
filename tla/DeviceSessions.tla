------------------------------ MODULE DeviceSessions ------------------------------
(***************************************************************************)
(* The sessions of one account and their revocation: the account's gateway *)
(* object (userGateway.mjs, gatewayRuntime.ts registerSession and          *)
(* validateSession, deviceRegistry.ts, the device.revoke handler of        *)
(* coreHandlers.ts) and, at the other end of its calls, the sockets that   *)
(* bound themselves to a session in the channel objects                    *)
(* (channelSessions.mjs).                                                  *)
(*                                                                         *)
(* The gateway and each channel are objects of their own: a call between   *)
(* them is a request, its execution and its answer, and any of the three   *)
(* may be lost.  Everything between two awaits is one action.              *)
(***************************************************************************)
EXTENDS Integers, FiniteSets

CONSTANTS
  Devices,     \* device keys of the account (dk)
  Sids,        \* session ids, each drawn once
  DeviceOf,    \* DeviceOf[s]: the device that enrolls for session s
  Channels,    \* channel objects (object_id)
  Conns,       \* WebSockets to channels, each used once
  Calls,       \* handlers of the gateway that may be suspended at a time
  MaxDevices,  \* LIMITS.devicesPerAccount
  MaxRows,     \* capacity of channel_session_subscribers
  Ttl,         \* LIMITS.capabilityTtlMs
  MaxClock,    \* bound: the clock stops here
  MaxEpoch,    \* bound: revocations per device
  MaxFaults    \* bound: lost calls and restarts

ASSUME SessionAssumption ==
  /\ DeviceOf \in [Sids -> Devices]
  /\ Sids # {} /\ Channels # {}
  /\ MaxDevices \in Nat \ {0}
  /\ MaxRows \in Nat
  /\ Ttl \in Nat \ {0}
  /\ MaxClock \in Nat /\ MaxEpoch \in Nat /\ MaxFaults \in Nat

VARIABLES
  clock,
  epoch,     \* device_epochs, 0 for no row
  sessions,  \* the sessions table
  subs,      \* channel_session_subscribers
  sock,      \* the channel sockets and what their attachments say
  calls,     \* the suspended revokeChannelSubscribers calls of the gateway
  revokes,   \* revokeSession requests on their way: <<call, channel, sid>>
  used,      \* sids drawn so far
  faults,
  gone,      \* history: sessions a device.revoke was acknowledged for
  late,      \* history: sockets that subscribed while a call for their device ran
  bumped     \* history: devices evicted with a valid session, and not revoked since

vars == <<clock, epoch, sessions, subs, sock, calls, revokes, used, faults, gone, late, bumped>>

-----------------------------------------------------------------------------
SessionType == [sid : Sids, epoch : Nat, created : Nat, expires : Nat]

RowType == [ch : Channels, sid : Sids, expires : Nat]

\* asking: bindChannelSession awaits the gateway; granted, refused: the answer
\* is on its way back; bound: the attachment holds the session's expiry.
SocketType == [phase : {"unused", "asking", "granted", "refused", "bound", "closed"},
               ch : Channels, sid : Sids, revoked : BOOLEAN, expires : Nat]

\* rows: what the call selected and awaits; queue: devices a sweep has left;
\* cut: sessions the acknowledgement of a device.revoke will speak for.
CallType == [kind : {"idle", "revoke", "enroll", "alarm"}, dk : Devices,
             rows : SUBSET (Channels \X Sids), queue : SUBSET Devices, cut : SUBSET Sids]

Unused == [phase |-> "unused", ch |-> CHOOSE h \in Channels : TRUE,
           sid |-> CHOOSE s \in Sids : TRUE, revoked |-> FALSE, expires |-> 0]

Resting == [kind |-> "idle", dk |-> CHOOSE d \in Devices : TRUE, rows |-> {},
            queue |-> {}, cut |-> {}]

Idle(k) == calls[k].kind = "idle"

Stored(S, s) == \E t \in S : t.sid = s

DevicesOf(S) == {DeviceOf[t.sid] : t \in S}

\* isSessionValid: stored, at the device's current epoch, and not expired.
Valid(s) == \E t \in sessions : /\ t.sid = s
                                /\ t.epoch = epoch[DeviceOf[s]]
                                /\ t.expires > clock

Live(S) == {t \in S : t.expires > clock}

RowsOf(R, d) == {<<r.ch, r.sid>> : r \in {q \in R : DeviceOf[q.sid] = d}}

\* invalidateRemovedChannelSessions: devices with a row whose session is gone.
Stale(R, S) == {DeviceOf[r.sid] : r \in {q \in R : ~Stored(S, q.sid)}}

Active(c) == /\ sock[c].phase = "bound"
             /\ ~sock[c].revoked
             /\ sock[c].expires > clock

-----------------------------------------------------------------------------
Init ==
  /\ clock = 0
  /\ epoch = [d \in Devices |-> 0]
  /\ sessions = {}
  /\ subs = {}
  /\ sock = [c \in Conns |-> Unused]
  /\ calls = [k \in Calls |-> Resting]
  /\ revokes = {}
  /\ used = {}
  /\ faults = 0
  /\ gone = {}
  /\ late = {}
  /\ bumped = {}

-----------------------------------------------------------------------------
(* revokeChannelSubscribers and its callers.                                *)

\* A handler may start when there is room for it.
Free(k) == Idle(k) /\ \A r \in revokes : r[1] # k

\* The call selects device d's rows, sends a revokeSession for each, and awaits.
Await(k, kind, d, queue, cut, R) ==
  /\ calls' = [calls EXCEPT ![k] = [kind |-> kind, dk |-> d, rows |-> RowsOf(R, d),
                                    queue |-> queue, cut |-> cut]]
  /\ revokes' = revokes \cup {<<k, r[1], r[2]>> : r \in RowsOf(R, d)}

\* A sweep takes the stale devices one at a time; one that has no row left when
\* its turn comes takes no time, and the handler is at its end when none has.
Swept(devices, R) == \A d \in devices : RowsOf(R, d) = {}

NextDevice(k, kind, devices, R) ==
  IF Swept(devices, R)
    THEN calls' = [calls EXCEPT ![k] = Resting] /\ revokes' = revokes
    ELSE \E d \in devices : /\ RowsOf(R, d) # {}
                            /\ Await(k, kind, d, devices \ {d}, {}, R)

\* What follows the sweep of an alarm: the expired sessions are deleted.
AfterSweep(kind, devices, R) ==
  sessions' = IF kind = "alarm" /\ Swept(devices, R) THEN Live(sessions) ELSE sessions

-----------------------------------------------------------------------------
(* enrollDevice: registerSession, then a sweep.                             *)

\* decideEnrollment: at the cap the device enrolled longest ago goes.  Equal
\* times are decided by key id, here either way.
NewestOf(S, d) == {t \in S : DeviceOf[t.sid] = d /\
                     \A u \in S : DeviceOf[u.sid] = d => u.created <= t.created}

Evictions(S, d) ==
  IF d \in DevicesOf(S) \/ Cardinality(DevicesOf(S)) < MaxDevices
    THEN {{}}
    ELSE {{v} : v \in {x \in DevicesOf(S) :
            \A t \in NewestOf(S, x) : \A y \in DevicesOf(S) :
              \A u \in NewestOf(S, y) : t.created <= u.created}}

\* The epoch of the new session: that of the device if it has a session, else 0.
\* Mutant of EnrollEpoch: the epoch before.
EnrollEpochBefore(S, d) == IF d \in DevicesOf(S) THEN epoch[d] - 1 ELSE 0

EnrollEpoch(S, d) == IF d \in DevicesOf(S) THEN epoch[d] ELSE 0

Enroll(k, s) ==
  /\ Free(k)
  /\ s \notin used
  /\ used' = used \cup {s}
  /\ \E out \in Evictions(Live(sessions), DeviceOf[s]) :
       LET kept == {t \in Live(sessions) : DeviceOf[t.sid] \notin out}
           new == [sid |-> s, epoch |-> EnrollEpoch(Live(sessions), DeviceOf[s]),
                   created |-> clock, expires |-> clock + Ttl]
       IN  /\ sessions' = kept \cup {new}
           /\ NextDevice(k, "enroll", Stale(subs, kept \cup {new}), subs)
           /\ bumped' = bumped \cup (DevicesOf({t \in sessions : Valid(t.sid)}) \cap out)
  /\ UNCHANGED <<clock, epoch, subs, sock, faults, gone, late>>

\* Mutant of Revoke: acknowledged before the channels answered.
RevokeAcksFirst(k, d) ==
  /\ Free(k)
  /\ \E s \in Sids : Valid(s)
  /\ epoch[d] < MaxEpoch
  /\ epoch' = [epoch EXCEPT ![d] = @ + 1]
  /\ sessions' = {t \in sessions : DeviceOf[t.sid] # d}
  /\ bumped' = bumped \ {d}
  /\ NextDevice(k, "revoke", {d}, subs)
  /\ gone' = gone \cup {s \in used : DeviceOf[s] = d}
  /\ UNCHANGED <<clock, subs, sock, used, faults, late>>

\* device.revoke from a device with a valid session: the epoch is advanced, the
\* sessions deleted, and the channels told before the command is acknowledged.
Revoke(k, d) ==
  /\ Free(k)
  /\ \E s \in Sids : Valid(s)
  /\ epoch[d] < MaxEpoch
  /\ epoch' = [epoch EXCEPT ![d] = @ + 1]
  /\ sessions' = {t \in sessions : DeviceOf[t.sid] # d}
  /\ bumped' = bumped \ {d}
  /\ LET cut == {s \in used : DeviceOf[s] = d}
     IN  IF RowsOf(subs, d) = {}
           THEN gone' = gone \cup cut /\ UNCHANGED <<calls, revokes>>
           ELSE gone' = gone /\ Await(k, "revoke", d, {}, cut, subs)
  /\ UNCHANGED <<clock, subs, sock, used, faults, late>>

\* Mutant of Alarm: no sweep.
AlarmExpiresOnly(k) ==
  /\ Free(k)
  /\ sessions' = Live(sessions)
  /\ UNCHANGED <<clock, epoch, subs, sock, calls, revokes, used, faults, gone, late, bumped>>

\* alarm(): the sweep, then the expired sessions are deleted.  Nonces, presence
\* and other leases set it as well, so it may fire at any time; never twice at once.
Alarm(k) ==
  /\ Free(k)
  /\ \A j \in Calls : calls[j].kind # "alarm"
  /\ NextDevice(k, "alarm", Stale(subs, sessions), subs)
  /\ AfterSweep("alarm", Stale(subs, sessions), subs)
  /\ UNCHANGED <<clock, epoch, subs, sock, used, faults, gone, late, bumped>>

\* All revokeSession calls were answered: the device's rows are deleted, and the
\* handler goes on -- to its acknowledgement, or to the next device of its sweep.
Finish(k) ==
  /\ ~Idle(k)
  /\ \A r \in revokes : r[1] # k
  /\ LET left == {r \in subs : DeviceOf[r.sid] # calls[k].dk}
     IN  /\ subs' = left
         /\ NextDevice(k, calls[k].kind, calls[k].queue, left)
         /\ AfterSweep(calls[k].kind, calls[k].queue, left)
  /\ gone' = gone \cup calls[k].cut
  /\ UNCHANGED <<clock, epoch, sock, used, faults, late, bumped>>

\* Mutant of Fail: the rows are deleted all the same.
FailDropsRows(k) ==
  /\ ~Idle(k)
  /\ \E r \in revokes : r[1] = k /\ revokes' = revokes \ {r}
  /\ subs' = {r \in subs : DeviceOf[r.sid] # calls[k].dk}
  /\ calls' = [calls EXCEPT ![k] = Resting]
  /\ faults < MaxFaults /\ faults' = faults + 1
  /\ UNCHANGED <<clock, epoch, sessions, sock, used, gone, late, bumped>>

\* One call fails, before or after it took effect, and with it the handler; the
\* other requests stay on their way.  The rows are kept, nothing is acknowledged.
Fail(k) ==
  /\ ~Idle(k)
  /\ \/ revokes' = revokes
     \/ \E r \in revokes : r[1] = k /\ revokes' = revokes \ {r}
  /\ calls' = [calls EXCEPT ![k] = Resting]
  /\ faults < MaxFaults /\ faults' = faults + 1
  /\ UNCHANGED <<clock, epoch, sessions, subs, sock, used, gone, late, bumped>>

-----------------------------------------------------------------------------
(* The channel objects: bindChannelSession and revokeChannelSession.        *)

\* An upgrade of session s is accepted by channel h, which asks the gateway.
\* The cookie it came with may outlive the session.
Connect(c, h, s) ==
  /\ sock[c].phase = "unused"
  /\ s \in used
  /\ sock' = [sock EXCEPT ![c] = [@ EXCEPT !.phase = "asking", !.ch = h, !.sid = s]]
  /\ UNCHANGED <<clock, epoch, sessions, subs, calls, revokes, used, faults, gone, late, bumped>>

\* subscribeChannelSession, at the gateway.
Subscribe(c) ==
  /\ sock[c].phase = "asking"
  /\ LET s == sock[c].sid
         fresh == {r \in subs : r.expires > clock}
         known == \E r \in fresh : r.ch = sock[c].ch /\ r.sid = s
         room == known \/ Cardinality(fresh) < MaxRows
         running == \E k \in Calls : ~Idle(k) /\ calls[k].dk = DeviceOf[s]
     IN  \/ /\ ~Valid(s)
            /\ sock' = [sock EXCEPT ![c].phase = "refused"]
            /\ UNCHANGED <<subs, late>>
         \/ /\ Valid(s) /\ ~room
            /\ sock' = [sock EXCEPT ![c].phase = "refused"]
            /\ subs' = fresh
            /\ late' = late
         \/ /\ Valid(s) /\ room
            /\ \E t \in sessions :
                 /\ t.sid = s
                 /\ subs' = fresh \cup {[ch |-> sock[c].ch, sid |-> s, expires |-> t.expires]}
                 /\ sock' = [sock EXCEPT ![c] = [@ EXCEPT !.phase = "granted",
                                                         !.expires = t.expires]]
            /\ late' = IF running THEN late \cup {c} ELSE late
  /\ UNCHANGED <<clock, epoch, sessions, calls, revokes, used, faults, gone, bumped>>

\* The answer arrives; a revoke may have come first.
Bind(c) ==
  /\ sock[c].phase \in {"granted", "refused"}
  /\ sock' = [sock EXCEPT ![c].phase =
       IF sock[c].phase = "granted" /\ ~sock[c].revoked /\ sock[c].expires > clock
         THEN "bound" ELSE "closed"]
  /\ UNCHANGED <<clock, epoch, sessions, subs, calls, revokes, used, faults, gone, late, bumped>>

\* revokeSession, at the channel: every socket of the session.
RevokeAt(k, h, s) ==
  /\ <<k, h, s>> \in revokes
  /\ revokes' = revokes \ {<<k, h, s>>}
  /\ sock' = [c \in Conns |->
       IF sock[c].phase \notin {"unused", "closed"} /\ sock[c].ch = h /\ sock[c].sid = s
         THEN [sock[c] EXCEPT !.revoked = TRUE] ELSE sock[c]]
  /\ UNCHANGED <<clock, epoch, sessions, subs, calls, used, faults, gone, late, bumped>>

Disconnect(c) ==
  /\ sock[c].phase = "bound"
  /\ sock' = [sock EXCEPT ![c].phase = "closed"]
  /\ UNCHANGED <<clock, epoch, sessions, subs, calls, revokes, used, faults, gone, late, bumped>>

-----------------------------------------------------------------------------
\* The question or its answer is lost: bindChannelSession returns false.
LoseAnswer(c) ==
  /\ sock[c].phase \in {"asking", "granted"}
  /\ sock' = [sock EXCEPT ![c].phase = "closed"]
  /\ faults < MaxFaults /\ faults' = faults + 1
  /\ UNCHANGED <<clock, epoch, sessions, subs, calls, revokes, used, gone, late, bumped>>

\* The gateway restarts: its handlers are lost, what they sent is on its way.
GatewayRestart ==
  /\ \E k \in Calls : ~Idle(k)
  /\ calls' = [k \in Calls |-> Resting]
  /\ faults < MaxFaults /\ faults' = faults + 1
  /\ UNCHANGED <<clock, epoch, sessions, subs, sock, revokes, used, gone, late, bumped>>

Tick ==
  /\ clock < MaxClock
  /\ clock' = clock + 1
  /\ UNCHANGED <<epoch, sessions, subs, sock, calls, revokes, used, faults, gone, late, bumped>>

Next ==
  \/ \E k \in Calls, s \in Sids : Enroll(k, s)
  \/ \E k \in Calls, d \in Devices : Revoke(k, d)
  \/ \E k \in Calls : Alarm(k)
  \/ \E k \in Calls : Finish(k)
  \/ \E k \in Calls : Fail(k)
  \/ \E c \in Conns, h \in Channels, s \in Sids : Connect(c, h, s)
  \/ \E c \in Conns : Subscribe(c)
  \/ \E c \in Conns : Bind(c)
  \/ \E k \in Calls, h \in Channels, s \in Sids : RevokeAt(k, h, s)
  \/ \E c \in Conns : Disconnect(c)
  \/ \E c \in Conns : LoseAnswer(c)
  \/ GatewayRestart
  \/ Tick

Spec == Init /\ [][Next]_vars

\* Requests are delivered, suspended handlers go on, and alarms keep coming.
FairSpec ==
  /\ Spec
  /\ WF_vars(\E k \in Calls : Alarm(k))
  /\ \A k \in Calls : WF_vars(Finish(k))
  /\ \A k \in Calls, h \in Channels, s \in Sids : WF_vars(RevokeAt(k, h, s))

-----------------------------------------------------------------------------
(* Properties.                                                              *)

TypeOK ==
  /\ clock \in 0 .. MaxClock
  /\ epoch \in [Devices -> Nat]
  /\ sessions \in SUBSET SessionType
  /\ subs \in SUBSET RowType
  /\ sock \in [Conns -> SocketType]
  /\ calls \in [Calls -> CallType]
  /\ revokes \in SUBSET (Calls \X Channels \X Sids)
  /\ used \in SUBSET Sids
  /\ faults \in Nat
  /\ gone \in SUBSET Sids
  /\ late \in SUBSET Conns
  /\ bumped \in SUBSET Devices

\* The gateway knows every channel a session is active in: an active socket has
\* its row, unless it subscribed while the gateway was busy revoking its device.
Tracked ==
  \A c \in Conns : Active(c) /\ c \notin late =>
    \E r \in subs : r.ch = sock[c].ch /\ r.sid = sock[c].sid

\* When device.revoke is acknowledged, no socket of the sessions it ended is
\* active any more -- with the same exception.
RevokedBeforeAck ==
  \A c \in Conns : Active(c) /\ sock[c].sid \in gone => c \in late

\* No more devices than the cap hold sessions that have not expired.
DevicesCapped == Cardinality(DevicesOf(Live(sessions))) <= MaxDevices

\* A socket whose session was removed (evicted, revoked or expired) does not stay
\* active, whatever calls failed before, with the same exception.
RemovedGoQuiet ==
  \A c \in Conns : (Active(c) /\ ~Stored(sessions, sock[c].sid) /\ c \notin late) ~> ~Active(c)

-----------------------------------------------------------------------------
(* Claims of comments that the code does not keep.                          *)

\* channelSessions.mjs: a gateway "synchronously revokes them before acknowledging
\* device.revoke", with no exception.
AlwaysRevokedBeforeAck == \A c \in Conns : ~(Active(c) /\ sock[c].sid \in gone)

\* deviceRegistry.ts: "Eviction is a capacity bound, not a revocation -- the bumped device simply
\* re-enrolls next time, so its epoch is deliberately left untouched": what an evicted device
\* enrolls for next is of its current epoch, and so valid.
BumpedEnrollsAgain ==
  \A t \in sessions : DeviceOf[t.sid] \in bumped => t.epoch = epoch[DeviceOf[t.sid]]
=============================================================================
