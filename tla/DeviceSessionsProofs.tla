--------------------------- MODULE DeviceSessionsProofs ---------------------------
(***************************************************************************)
(* Proofs about DeviceSessions, for any devices, sessions, channels,       *)
(* sockets and bounds: types, the cap on devices, and that revocation      *)
(* forgets no channel before it acknowledges.                              *)
(***************************************************************************)
EXTENDS DeviceSessions, FiniteSetTheorems, TLAPS

\* What a suspended call of the gateway is for.
Kinds == {"revoke", "enroll", "alarm"}

-----------------------------------------------------------------------------
(* What the helpers return.                                                 *)

\* Every session is of a device.
LEMMA DevicesExist == Devices # {} /\ \A s \in Sids : DeviceOf[s] \in Devices
  BY SessionAssumption

\* A call at rest is well typed, ...
LEMMA RestingType == Resting \in CallType /\ Resting.kind = "idle" /\ Resting.cut = {}
  <1>1. (CHOOSE d \in Devices : TRUE) \in Devices
    BY DevicesExist
  <1> QED
    BY <1>1 DEF Resting, CallType

\* ... and so is a socket that was never opened.
LEMMA UnusedType == Unused \in SocketType
  <1>1. (CHOOSE h \in Channels : TRUE) \in Channels /\ (CHOOSE s \in Sids : TRUE) \in Sids
    BY SessionAssumption
  <1> QED
    BY <1>1 DEF Unused, SocketType

\* The rows of a device name channels and sessions.
LEMMA RowsOfType ==
  ASSUME NEW R \in SUBSET RowType, NEW d
  PROVE  /\ RowsOf(R, d) \in SUBSET (Channels \X Sids)
         /\ \A r \in R : DeviceOf[r.sid] = d => <<r.ch, r.sid>> \in RowsOf(R, d)
  BY DEF RowsOf, RowType

\* Rows without a session are of devices.
LEMMA StaleType ==
  ASSUME NEW R \in SUBSET RowType, NEW S PROVE Stale(R, S) \in SUBSET Devices
  BY DevicesExist DEF Stale, RowType

\* A call that awaits the channels of device d has sent a request for every row of d.
LEMMA AwaitAsks ==
  ASSUME TypeOK, NEW k \in Calls, NEW kind \in Kinds, NEW d \in Devices,
         NEW queue \in SUBSET Devices, NEW cut \in SUBSET Sids,
         NEW R \in SUBSET RowType, Await(k, kind, d, queue, cut, R)
  PROVE  /\ calls' \in [Calls -> CallType]
         /\ revokes' \in SUBSET (Calls \X Channels \X Sids)
         /\ revokes \subseteq revokes'
         /\ \A j \in Calls : j # k => calls'[j] = calls[j]
         /\ calls'[k].kind = kind /\ calls'[k].dk = d /\ calls'[k].cut = cut
         /\ \A r \in R : DeviceOf[r.sid] = d => <<k, r.ch, r.sid>> \in revokes'
  <1> DEFINE new == [kind |-> kind, dk |-> d, rows |-> RowsOf(R, d), queue |-> queue, cut |-> cut]
  <1>1. calls' = [calls EXCEPT ![k] = new]
        /\ revokes' = revokes \cup {<<k, r[1], r[2]>> : r \in RowsOf(R, d)}
    BY DEF Await
  <1>2. RowsOf(R, d) \in SUBSET (Channels \X Sids)
        /\ \A r \in R : DeviceOf[r.sid] = d => <<r.ch, r.sid>> \in RowsOf(R, d)
    BY RowsOfType
  <1>3. new \in CallType /\ new.kind = kind /\ new.dk = d /\ new.cut = cut
    BY <1>2 DEF CallType, Kinds
  <1>4. {<<k, r[1], r[2]>> : r \in RowsOf(R, d)} \in SUBSET (Calls \X Channels \X Sids)
    BY <1>2
  <1>5. \A r \in R : DeviceOf[r.sid] = d
                       => <<k, r.ch, r.sid>> \in {<<k, q[1], q[2]>> : q \in RowsOf(R, d)}
    <2> SUFFICES ASSUME NEW r \in R, DeviceOf[r.sid] = d
                 PROVE  <<k, r.ch, r.sid>> \in {<<k, q[1], q[2]>> : q \in RowsOf(R, d)}
      OBVIOUS
    <2> DEFINE q == <<r.ch, r.sid>>
    <2>1. q \in RowsOf(R, d) /\ q[1] = r.ch /\ q[2] = r.sid
      BY <1>2
    <2> QED
      BY <2>1
  <1> HIDE DEF new
  <1> QED
    BY <1>1, <1>3, <1>4, <1>5 DEF TypeOK

\* A sweep goes on with a device all of whose rows it has asked for, or is at its end.
LEMMA NextDeviceAsks ==
  ASSUME TypeOK, NEW k \in Calls, NEW kind \in Kinds, NEW devices \in SUBSET Devices,
         NEW R \in SUBSET RowType, NextDevice(k, kind, devices, R)
  PROVE  /\ calls' \in [Calls -> CallType]
         /\ revokes' \in SUBSET (Calls \X Channels \X Sids)
         /\ revokes \subseteq revokes'
         /\ \A j \in Calls : j # k => calls'[j] = calls[j]
         /\ calls'[k].cut = {}
         /\ \/ calls'[k].kind = "idle"
            \/ \A r \in R : DeviceOf[r.sid] = calls'[k].dk => <<k, r.ch, r.sid>> \in revokes'
  <1>1. CASE Swept(devices, R)
    BY <1>1, RestingType DEF NextDevice, TypeOK
  <1>2. CASE ~Swept(devices, R)
    <2>1. PICK d \in devices : Await(k, kind, d, devices \ {d}, {}, R)
      BY <1>2 DEF NextDevice
    <2> QED
      BY <2>1, AwaitAsks
  <1> QED
    BY <1>1, <1>2

\* A sweep adds no session.
LEMMA SweepKeeps ==
  ASSUME NEW kind, NEW devices, NEW R, AfterSweep(kind, devices, R)
  PROVE  sessions' \subseteq sessions
  BY DEF AfterSweep, Live

-----------------------------------------------------------------------------
(* Types.                                                                   *)

\* A socket in another phase is well typed.
LEMMA SocketStep ==
  ASSUME TypeOK, NEW c \in Conns
  PROVE  /\ sock[c] \in SocketType
         /\ \A p \in {"asking", "granted", "refused", "bound", "closed"} :
              [sock EXCEPT ![c].phase = p] \in [Conns -> SocketType]
  BY DEF TypeOK, SocketType

\* A new session is well typed.
LEMMA EnrolledType ==
  ASSUME TypeOK, NEW s \in Sids
  PROVE  [sid |-> s, epoch |-> EnrollEpoch(Live(sessions), DeviceOf[s]),
          created |-> clock, expires |-> clock + Ttl] \in SessionType
  <1>1. EnrollEpoch(Live(sessions), DeviceOf[s]) \in Nat
    BY DevicesExist DEF EnrollEpoch, TypeOK
  <1>2. clock \in Nat /\ clock + Ttl \in Nat
    BY SessionAssumption DEF TypeOK
  <1> QED
    BY <1>1, <1>2 DEF SessionType

\* Every reachable state of the gateway, its calls and the channel sockets is well
\* typed.
THEOREM TypeCorrect == Spec => []TypeOK
<1>1. Init => TypeOK
  BY UnusedType, RestingType, SessionAssumption DEF Init, TypeOK
<1>2. TypeOK /\ [Next]_vars => TypeOK'
  <2> SUFFICES ASSUME TypeOK, [Next]_vars PROVE TypeOK'
    OBVIOUS
  <2>0. Stale(subs, sessions) \in SUBSET Devices /\ subs \in SUBSET RowType
    BY StaleType DEF TypeOK
  <2>1. ASSUME NEW k \in Calls, NEW s \in Sids, Enroll(k, s) PROVE TypeOK'
    <3> DEFINE new == [sid |-> s, epoch |-> EnrollEpoch(Live(sessions), DeviceOf[s]),
                       created |-> clock, expires |-> clock + Ttl]
    <3>1. PICK out \in Evictions(Live(sessions), DeviceOf[s]) :
            /\ sessions' = {t \in Live(sessions) : DeviceOf[t.sid] \notin out} \cup {new}
            /\ NextDevice(k, "enroll",
                 Stale(subs, {t \in Live(sessions) : DeviceOf[t.sid] \notin out} \cup {new}), subs)
      BY <2>1 DEF Enroll
    <3>2. new \in SessionType
      BY EnrolledType
    <3> HIDE DEF new
    <3>3. sessions' \in SUBSET SessionType
      BY <3>1, <3>2 DEF Live, TypeOK
    <3> DEFINE devices == Stale(subs, {t \in Live(sessions) : DeviceOf[t.sid] \notin out} \cup {new})
    <3>4. devices \in SUBSET Devices
      BY <2>0, StaleType
    <3> HIDE DEF devices
    <3>5. NextDevice(k, "enroll", devices, subs)
      BY <3>1 DEF devices
    <3>6. calls' \in [Calls -> CallType] /\ revokes' \in SUBSET (Calls \X Channels \X Sids)
      BY <3>4, <3>5, <2>0, NextDeviceAsks DEF Kinds
    <3>7. used' \in SUBSET Sids
          /\ UNCHANGED <<clock, epoch, subs, sock, faults, gone, late>>
      BY <2>1 DEF Enroll, TypeOK
    <3>8. bumped' \in SUBSET Devices
      <4>1. \A S \in SUBSET sessions : DevicesOf(S) \in SUBSET Devices
        BY DevicesExist DEF DevicesOf, TypeOK, SessionType
      <4>2. PICK gives \in SUBSET Devices : bumped' \subseteq bumped \cup gives
        BY <2>1, <4>1 DEF Enroll
      <4> QED
        BY <4>2 DEF TypeOK
    <3> QED
      BY <3>3, <3>6, <3>7, <3>8 DEF TypeOK
  <2>2. ASSUME NEW k \in Calls, NEW d \in Devices, Revoke(k, d) PROVE TypeOK'
    <3> DEFINE cut == {s \in used : DeviceOf[s] = d}
    <3>1. cut \in SUBSET Sids
      BY DEF TypeOK
    <3>2. calls' \in [Calls -> CallType] /\ revokes' \in SUBSET (Calls \X Channels \X Sids)
          /\ gone' \in SUBSET Sids
      <4>1. CASE RowsOf(subs, d) = {}
        BY <2>2, <4>1, <3>1 DEF Revoke, TypeOK
      <4>2. CASE RowsOf(subs, d) # {}
        <5>1. Await(k, "revoke", d, {}, cut, subs) /\ gone' = gone
          BY <2>2, <4>2 DEF Revoke
        <5> HIDE DEF cut
        <5> QED
          BY <5>1, <3>1, <2>0, AwaitAsks DEF Kinds, TypeOK
      <4> QED
        BY <4>1, <4>2
    <3>3. epoch' = [epoch EXCEPT ![d] = @ + 1] /\ sessions' \subseteq sessions
          /\ bumped' = bumped \ {d} /\ UNCHANGED <<clock, subs, sock, used, faults, late>>
      BY <2>2 DEF Revoke
    <3> QED
      BY <3>2, <3>3 DEF TypeOK
  <2>3. ASSUME NEW k \in Calls, Alarm(k) PROVE TypeOK'
    <3>1. NextDevice(k, "alarm", Stale(subs, sessions), subs)
          /\ AfterSweep("alarm", Stale(subs, sessions), subs)
          /\ UNCHANGED <<clock, epoch, subs, sock, used, faults, gone, late, bumped>>
      BY <2>3 DEF Alarm
    <3>2. calls' \in [Calls -> CallType] /\ revokes' \in SUBSET (Calls \X Channels \X Sids)
      BY <3>1, <2>0, NextDeviceAsks DEF Kinds
    <3> QED
      BY <3>1, <3>2, SweepKeeps DEF TypeOK
  <2>4. ASSUME NEW k \in Calls, Finish(k) PROVE TypeOK'
    <3> DEFINE left == {r \in subs : DeviceOf[r.sid] # calls[k].dk}
    <3>1. /\ ~Idle(k) /\ subs' = left
          /\ NextDevice(k, calls[k].kind, calls[k].queue, left)
          /\ AfterSweep(calls[k].kind, calls[k].queue, left)
          /\ gone' = gone \cup calls[k].cut
          /\ UNCHANGED <<clock, epoch, sock, used, faults, late, bumped>>
      BY <2>4 DEF Finish
    <3>2. left \in SUBSET RowType
      BY <2>0
    <3> HIDE DEF left
    <3>3. calls[k].kind \in Kinds /\ calls[k].queue \in SUBSET Devices /\ calls[k].cut \in SUBSET Sids
      BY <3>1 DEF TypeOK, CallType, Idle, Kinds
    <3>4. calls' \in [Calls -> CallType] /\ revokes' \in SUBSET (Calls \X Channels \X Sids)
      BY <3>1, <3>2, <3>3, NextDeviceAsks
    <3> QED
      BY <3>1, <3>2, <3>3, <3>4, SweepKeeps DEF TypeOK
  <2>5. ASSUME NEW k \in Calls, Fail(k) PROVE TypeOK'
    BY <2>5, RestingType DEF Fail, TypeOK
  <2>6. ASSUME NEW c \in Conns, NEW h \in Channels, NEW s \in Sids, Connect(c, h, s) PROVE TypeOK'
    <3>1. sock' = [sock EXCEPT ![c] = [sock[c] EXCEPT !.phase = "asking", !.ch = h, !.sid = s]]
      BY <2>6 DEF Connect
    <3>2. [sock[c] EXCEPT !.phase = "asking", !.ch = h, !.sid = s] \in SocketType
      BY SocketStep DEF SocketType
    <3> QED
      BY <2>6, <3>1, <3>2 DEF Connect, TypeOK
  <2>7. ASSUME NEW c \in Conns, Subscribe(c) PROVE TypeOK'
    <3> DEFINE fresh == {r \in subs : r.expires > clock}
    <3>1. sock[c] \in SocketType /\ sock[c].ch \in Channels /\ sock[c].sid \in Sids
      BY SocketStep DEF SocketType
    <3>2. UNCHANGED <<clock, epoch, sessions, calls, revokes, used, faults, gone, bumped>>
          /\ late' \in SUBSET Conns
      BY <2>7 DEF Subscribe, TypeOK
    <3>3. CASE sock' = [sock EXCEPT ![c].phase = "refused"] /\ (subs' = subs \/ subs' = fresh)
      BY <3>2, <3>3, SocketStep DEF TypeOK
    <3>4. CASE \E t \in sessions :
                 /\ subs' = fresh \cup {[ch |-> sock[c].ch, sid |-> sock[c].sid, expires |-> t.expires]}
                 /\ sock' = [sock EXCEPT ![c] = [@ EXCEPT !.phase = "granted", !.expires = t.expires]]
      <4>1. PICK t \in sessions :
              /\ subs' = fresh \cup {[ch |-> sock[c].ch, sid |-> sock[c].sid, expires |-> t.expires]}
              /\ sock' = [sock EXCEPT ![c] = [sock[c] EXCEPT !.phase = "granted", !.expires = t.expires]]
        BY <3>4
      <4>2. t.expires \in Nat
        BY DEF TypeOK, SessionType
      <4>3. [sock[c] EXCEPT !.phase = "granted", !.expires = t.expires] \in SocketType
        BY <3>1, <4>2 DEF SocketType
      <4>4. [ch |-> sock[c].ch, sid |-> sock[c].sid, expires |-> t.expires] \in RowType
        BY <3>1, <4>2 DEF RowType
      <4> QED
        BY <3>2, <4>1, <4>3, <4>4 DEF TypeOK
    <3> QED
      BY <2>7, <3>3, <3>4 DEF Subscribe
  <2>8. ASSUME NEW c \in Conns, Bind(c) PROVE TypeOK'
    BY <2>8, SocketStep DEF Bind, TypeOK
  <2>9. ASSUME NEW k \in Calls, NEW h \in Channels, NEW s \in Sids, RevokeAt(k, h, s) PROVE TypeOK'
    <3>1. \A c \in Conns : [sock[c] EXCEPT !.revoked = TRUE] \in SocketType
      BY SocketStep DEF SocketType
    <3> QED
      BY <2>9, <3>1 DEF RevokeAt, TypeOK
  <2>10. ASSUME NEW c \in Conns, Disconnect(c) PROVE TypeOK'
    BY <2>10, SocketStep DEF Disconnect, TypeOK
  <2>11. ASSUME NEW c \in Conns, LoseAnswer(c) PROVE TypeOK'
    <3>1. sock' = [sock EXCEPT ![c].phase = "closed"] /\ faults' = faults + 1
          /\ UNCHANGED <<clock, epoch, sessions, subs, calls, revokes, used, gone, late, bumped>>
      BY <2>11 DEF LoseAnswer
    <3>2. sock' \in [Conns -> SocketType]
      BY <3>1, SocketStep
    <3> QED
      BY <3>1, <3>2 DEF TypeOK
  <2>12. CASE GatewayRestart
    BY <2>12, RestingType DEF GatewayRestart, TypeOK
  <2>13. CASE Tick
    BY <2>13, SessionAssumption DEF Tick, TypeOK
  <2>14. CASE UNCHANGED vars
    BY <2>14 DEF vars, TypeOK
  <2> QED
    BY <2>1, <2>2, <2>3, <2>4, <2>5, <2>6, <2>7, <2>8, <2>9, <2>10, <2>11, <2>12, <2>13,
       <2>14 DEF Next
<1> QED
  BY <1>1, <1>2, PTL DEF Spec

-----------------------------------------------------------------------------
(* Revocation.  The invariant behind Tracked and RevokedBeforeAck also speaks*)
(* of sockets whose answer is still on its way, of requests on their way and *)
(* of what an acknowledgement will speak for.                                *)

\* The socket is active, or will be once its answer arrives.
Granted(c) == /\ sock[c].phase \in {"granted", "bound"}
              /\ ~sock[c].revoked
              /\ sock[c].expires > clock

\* The row that the gateway wrote for the socket of c.
RowOf(c) == [ch |-> sock[c].ch, sid |-> sock[c].sid, expires |-> sock[c].expires]

\* The row of a granted socket is stored.
RowKept == \A c \in Conns : Granted(c) /\ c \notin late => RowOf(c) \in subs

\* While a call revokes a device, a granted socket of the device has a request on
\* its way.
Asked ==
  \A k \in Calls, c \in Conns :
    ~Idle(k) /\ Granted(c) /\ c \notin late /\ DeviceOf[sock[c].sid] = calls[k].dk =>
      <<k, sock[c].ch, sock[c].sid>> \in revokes

\* No session an acknowledgement spoke for, or will speak for, is stored again.
NeverBack ==
  /\ gone \subseteq used
  /\ \A k \in Calls : \A s \in calls[k].cut : s \in used /\ DeviceOf[s] = calls[k].dk
  /\ \A t \in sessions :
       t.sid \in used /\ t.sid \notin gone /\ \A k \in Calls : t.sid \notin calls[k].cut

\* A socket granted to a session that an acknowledgement spoke for is excepted.
GoneQuiet == \A c \in Conns : Granted(c) /\ sock[c].sid \in gone => c \in late

\* The four together are inductive.
RevokeInv == RowKept /\ Asked /\ NeverBack /\ GoneQuiet

\* They hold in the beginning.
LEMMA RevokeInit == Init => RevokeInv
  BY RestingType DEF Init, RevokeInv, RowKept, Asked, NeverBack, GoneQuiet, Granted, Unused

\* A handler's step that leaves the sockets alone: it may drop rows of the device it
\* was revoking, once every request for it was answered.
LEMMA HandlerStep ==
  ASSUME TypeOK, RevokeInv, UNCHANGED <<sock, late, clock>>, NEW k \in Calls,
         \A r \in subs : r \in subs' \/ /\ ~Idle(k) /\ (\A q \in revokes : q[1] # k)
                                        /\ DeviceOf[r.sid] = calls[k].dk,
         revokes \subseteq revokes',
         \A j \in Calls : j # k => calls'[j] = calls[j],
         \/ calls'[k].kind = "idle"
         \/ \A r \in subs' : DeviceOf[r.sid] = calls'[k].dk => <<k, r.ch, r.sid>> \in revokes'
  PROVE  RowKept' /\ Asked'
  <1>1. \A c \in Conns : Granted(c)' <=> Granted(c)
    BY DEF Granted
  <1>2. \A c \in Conns : RowOf(c)' = RowOf(c)
    BY DEF RowOf
  <1>3. RowKept'
    <2> SUFFICES ASSUME NEW c \in Conns, Granted(c), c \notin late PROVE RowOf(c) \in subs'
      BY <1>1, <1>2 DEF RowKept
    <2>1. RowOf(c) \in subs /\ RowOf(c).sid = sock[c].sid
      BY DEF RevokeInv, RowKept, RowOf
    <2>2. CASE ~Idle(k) /\ (\A q \in revokes : q[1] # k) /\ DeviceOf[RowOf(c).sid] = calls[k].dk
      <3> DEFINE q == <<k, sock[c].ch, sock[c].sid>>
      <3>1. q \in revokes
        BY <2>1, <2>2 DEF RevokeInv, Asked
      <3>2. q[1] = k
        OBVIOUS
      <3> QED
        BY <3>1, <3>2, <2>2
    <2> QED
      BY <2>1, <2>2
  <1>4. Asked'
    <2> SUFFICES ASSUME NEW j \in Calls, NEW c \in Conns, calls'[j].kind # "idle", Granted(c),
                        c \notin late, DeviceOf[sock[c].sid] = calls'[j].dk
                 PROVE  <<j, sock[c].ch, sock[c].sid>> \in revokes'
      BY <1>1 DEF Asked, Idle
    <2>1. CASE j # k
      BY <2>1 DEF RevokeInv, Asked, Idle
    <2>2. CASE j = k
      <3>1. RowOf(c) \in subs'
        BY <1>1, <1>2, <1>3 DEF RowKept
      <3>2. RowOf(c).sid = sock[c].sid /\ RowOf(c).ch = sock[c].ch
        BY DEF RowOf
      <3> QED
        BY <2>2, <3>1, <3>2
    <2> QED
      BY <2>1, <2>2
  <1> QED
    BY <1>3, <1>4

\* A step that grants nothing and changes neither rows, calls nor history.
LEMMA SocketsOnly ==
  ASSUME RevokeInv, UNCHANGED <<subs, late, sessions, gone, used>>,
         \A c \in Conns : Granted(c)' => Granted(c) /\ RowOf(c)' = RowOf(c),
         \A j \in Calls : calls'[j] = calls[j] \/ (calls'[j].kind = "idle" /\ calls'[j].cut = {}),
         \A j \in Calls, c \in Conns :
           Granted(c)' /\ <<j, sock[c].ch, sock[c].sid>> \in revokes /\ calls'[j].kind # "idle"
             => <<j, sock[c].ch, sock[c].sid>> \in revokes'
  PROVE  RevokeInv'
  <1>1. \A c \in Conns : Granted(c)' => sock'[c].sid = sock[c].sid /\ sock'[c].ch = sock[c].ch
    BY DEF RowOf
  <1>2. RowKept'
    BY DEF RevokeInv, RowKept
  <1>3. Asked'
    BY <1>1 DEF RevokeInv, Asked, Idle
  <1>4. NeverBack'
    BY DEF RevokeInv, NeverBack
  <1>5. GoneQuiet'
    BY <1>1 DEF RevokeInv, GoneQuiet
  <1> QED
    BY <1>2, <1>3, <1>4, <1>5 DEF RevokeInv

\* Enrolling keeps them, ...
LEMMA EnrollKeeps ==
  ASSUME TypeOK, RevokeInv, NEW k \in Calls, NEW s \in Sids, Enroll(k, s) PROVE RevokeInv'
  <1> DEFINE new == [sid |-> s, epoch |-> EnrollEpoch(Live(sessions), DeviceOf[s]),
                     created |-> clock, expires |-> clock + Ttl]
  <1>1. PICK out \in Evictions(Live(sessions), DeviceOf[s]) :
          /\ sessions' = {t \in Live(sessions) : DeviceOf[t.sid] \notin out} \cup {new}
          /\ NextDevice(k, "enroll",
               Stale(subs, {t \in Live(sessions) : DeviceOf[t.sid] \notin out} \cup {new}), subs)
    BY DEF Enroll
  <1>2. new.sid = s
    OBVIOUS
  <1> HIDE DEF new
  <1> DEFINE devices == Stale(subs, {t \in Live(sessions) : DeviceOf[t.sid] \notin out} \cup {new})
  <1>3. devices \in SUBSET Devices /\ subs \in SUBSET RowType
    BY StaleType DEF TypeOK
  <1> HIDE DEF devices
  <1>4. NextDevice(k, "enroll", devices, subs)
    BY <1>1 DEF devices
  <1>5. /\ revokes \subseteq revokes'
        /\ \A j \in Calls : j # k => calls'[j] = calls[j]
        /\ calls'[k].cut = {}
        /\ \/ calls'[k].kind = "idle"
           \/ \A r \in subs : DeviceOf[r.sid] = calls'[k].dk => <<k, r.ch, r.sid>> \in revokes'
    BY <1>3, <1>4, NextDeviceAsks DEF Kinds
  <1>6. UNCHANGED <<clock, subs, sock, gone, late>> /\ s \notin used /\ used' = used \cup {s}
    BY DEF Enroll
  <1>7. RowKept' /\ Asked'
    BY <1>5, <1>6, HandlerStep
  <1>8. NeverBack'
    <2>1. \A t \in sessions' : t \in sessions \/ t.sid = s
      BY <1>1, <1>2 DEF Live
    <2> QED
      BY <2>1, <1>5, <1>6 DEF RevokeInv, NeverBack
  <1>9. GoneQuiet'
    BY <1>6 DEF RevokeInv, GoneQuiet, Granted
  <1> QED
    BY <1>7, <1>8, <1>9 DEF RevokeInv

\* ... and so do device.revoke up to its await, ...
LEMMA RevokeKeeps ==
  ASSUME TypeOK, RevokeInv, NEW k \in Calls, NEW d \in Devices, Revoke(k, d) PROVE RevokeInv'
  <1> DEFINE cut == {s \in used : DeviceOf[s] = d}
  <1>1. /\ Idle(k) /\ sessions' = {t \in sessions : DeviceOf[t.sid] # d}
        /\ UNCHANGED <<clock, subs, sock, used, late>>
    BY DEF Revoke, Free
  <1>2. cut \in SUBSET Sids /\ subs \in SUBSET RowType
        /\ \A s \in cut : s \in used /\ DeviceOf[s] = d
    BY DEF TypeOK
  <1>3. CASE RowsOf(subs, d) = {}
    <2>1. gone' = gone \cup cut /\ UNCHANGED <<calls, revokes>>
      BY <1>3 DEF Revoke
    <2> HIDE DEF cut
    <2>2. RowKept' /\ Asked'
      BY <1>1, <2>1, HandlerStep DEF Idle
    <2>3. NeverBack'
      BY <1>1, <1>2, <2>1 DEF RevokeInv, NeverBack
    <2>4. \A c \in Conns : Granted(c) /\ c \notin late => DeviceOf[sock[c].sid] # d
      <3> SUFFICES ASSUME NEW c \in Conns, Granted(c), c \notin late, DeviceOf[sock[c].sid] = d
                   PROVE  FALSE
        OBVIOUS
      <3>1. RowOf(c) \in subs /\ RowOf(c).sid = sock[c].sid
        BY DEF RevokeInv, RowKept, RowOf
      <3> QED
        BY <1>2, <1>3, <3>1, RowsOfType
    <2>5. GoneQuiet'
      BY <1>1, <1>2, <2>1, <2>4 DEF RevokeInv, GoneQuiet, Granted
    <2> QED
      BY <2>2, <2>3, <2>5 DEF RevokeInv
  <1>4. CASE RowsOf(subs, d) # {}
    <2>1. Await(k, "revoke", d, {}, cut, subs) /\ gone' = gone
      BY <1>4 DEF Revoke
    <2> HIDE DEF cut
    <2>0. "revoke" \in Kinds /\ {} \in SUBSET Devices
      BY DEF Kinds
    <2>2. /\ revokes \subseteq revokes'
          /\ \A j \in Calls : j # k => calls'[j] = calls[j]
          /\ calls'[k].dk = d /\ calls'[k].cut = cut
          /\ \A r \in subs : DeviceOf[r.sid] = d => <<k, r.ch, r.sid>> \in revokes'
      BY <1>2, <2>0, <2>1, AwaitAsks
    <2>3. RowKept' /\ Asked'
      BY <1>1, <2>2, HandlerStep
    <2>4. NeverBack'
      BY <1>1, <1>2, <2>1, <2>2 DEF RevokeInv, NeverBack
    <2>5. GoneQuiet'
      BY <1>1, <2>1 DEF RevokeInv, GoneQuiet, Granted
    <2> QED
      BY <2>3, <2>4, <2>5 DEF RevokeInv
  <1> QED
    BY <1>3, <1>4

\* ... the alarm, ...
LEMMA AlarmKeeps ==
  ASSUME TypeOK, RevokeInv, NEW k \in Calls, Alarm(k) PROVE RevokeInv'
  <1>1. /\ NextDevice(k, "alarm", Stale(subs, sessions), subs)
        /\ AfterSweep("alarm", Stale(subs, sessions), subs)
        /\ UNCHANGED <<clock, subs, sock, used, gone, late>>
    BY DEF Alarm
  <1>2. Stale(subs, sessions) \in SUBSET Devices /\ subs \in SUBSET RowType
    BY StaleType DEF TypeOK
  <1>3. /\ revokes \subseteq revokes'
        /\ \A j \in Calls : j # k => calls'[j] = calls[j]
        /\ calls'[k].cut = {}
        /\ \/ calls'[k].kind = "idle"
           \/ \A r \in subs : DeviceOf[r.sid] = calls'[k].dk => <<k, r.ch, r.sid>> \in revokes'
    BY <1>1, <1>2, NextDeviceAsks DEF Kinds
  <1>4. RowKept' /\ Asked'
    BY <1>1, <1>3, HandlerStep
  <1>5. NeverBack'
    BY <1>1, <1>3, SweepKeeps DEF RevokeInv, NeverBack
  <1>6. GoneQuiet'
    BY <1>1 DEF RevokeInv, GoneQuiet, Granted
  <1> QED
    BY <1>4, <1>5, <1>6 DEF RevokeInv

\* ... the end of a call that was answered everywhere, ...
LEMMA FinishKeeps ==
  ASSUME TypeOK, RevokeInv, NEW k \in Calls, Finish(k) PROVE RevokeInv'
  <1> DEFINE left == {r \in subs : DeviceOf[r.sid] # calls[k].dk}
  <1>1. /\ ~Idle(k) /\ (\A r \in revokes : r[1] # k)
        /\ subs' = left
        /\ NextDevice(k, calls[k].kind, calls[k].queue, left)
        /\ AfterSweep(calls[k].kind, calls[k].queue, left)
        /\ gone' = gone \cup calls[k].cut
        /\ UNCHANGED <<clock, sock, used, late>>
    BY DEF Finish
  <1>2. left \in SUBSET RowType /\ \A r \in subs : r \in left \/ DeviceOf[r.sid] = calls[k].dk
    BY DEF TypeOK
  <1> HIDE DEF left
  <1>3. calls[k].kind \in Kinds /\ calls[k].queue \in SUBSET Devices
    BY <1>1 DEF TypeOK, CallType, Idle, Kinds
  <1>4. /\ revokes \subseteq revokes'
        /\ \A j \in Calls : j # k => calls'[j] = calls[j]
        /\ calls'[k].cut = {}
        /\ \/ calls'[k].kind = "idle"
           \/ \A r \in left : DeviceOf[r.sid] = calls'[k].dk => <<k, r.ch, r.sid>> \in revokes'
    BY <1>1, <1>2, <1>3, NextDeviceAsks
  <1>5. RowKept' /\ Asked'
    BY <1>1, <1>2, <1>4, HandlerStep
  <1>6. NeverBack'
    BY <1>1, <1>4, SweepKeeps DEF RevokeInv, NeverBack
  <1>7. \A c \in Conns : Granted(c) /\ c \notin late => DeviceOf[sock[c].sid] # calls[k].dk
    <2> SUFFICES ASSUME NEW c \in Conns, Granted(c), c \notin late,
                        DeviceOf[sock[c].sid] = calls[k].dk
                 PROVE  FALSE
      OBVIOUS
    <2> DEFINE q == <<k, sock[c].ch, sock[c].sid>>
    <2>1. q \in revokes /\ q[1] = k
      BY <1>1 DEF RevokeInv, Asked
    <2> QED
      BY <1>1, <2>1
  <1>8. GoneQuiet'
    BY <1>1, <1>7 DEF RevokeInv, NeverBack, GoneQuiet, Granted
  <1> QED
    BY <1>5, <1>6, <1>8 DEF RevokeInv

\* ... and a subscription.
LEMMA SubscribeKeeps ==
  ASSUME TypeOK, RevokeInv, NEW c \in Conns, Subscribe(c) PROVE RevokeInv'
  <1> DEFINE fresh == {r \in subs : r.expires > clock}
             s == sock[c].sid
             row(e) == [ch |-> sock[c].ch, sid |-> sock[c].sid, expires |-> e]
             running == \E k \in Calls : ~Idle(k) /\ calls[k].dk = DeviceOf[s]
  <1>0. UNCHANGED <<clock, sessions, calls, revokes, used, gone>>
        /\ sock[c] \in SocketType /\ sock \in [Conns -> SocketType]
    BY DEF Subscribe, TypeOK
  <1>1. \A b \in Conns : Granted(b) /\ b \notin late => RowOf(b) \in fresh
    BY DEF RevokeInv, RowKept, RowOf, Granted
  <1>2. CASE /\ sock' = [sock EXCEPT ![c].phase = "refused"]
             /\ subs' = subs \/ subs' = fresh
             /\ late' = late
    <2>1. \A b \in Conns : Granted(b)' => Granted(b) /\ RowOf(b)' = RowOf(b) /\ sock'[b] = sock[b]
      BY <1>0, <1>2 DEF Granted, RowOf
    <2> HIDE DEF fresh
    <2>2. RowKept'
      BY <1>1, <1>2, <2>1 DEF RevokeInv, RowKept
    <2>3. Asked'
      BY <1>0, <1>2, <2>1 DEF RevokeInv, Asked, Idle
    <2>4. NeverBack' /\ GoneQuiet'
      BY <1>0, <1>2, <2>1 DEF RevokeInv, NeverBack, GoneQuiet
    <2> QED
      BY <2>2, <2>3, <2>4 DEF RevokeInv
  <1>3. CASE \E t \in sessions :
               /\ t.sid = s
               /\ subs' = fresh \cup {row(t.expires)}
               /\ sock' = [sock EXCEPT ![c] = [@ EXCEPT !.phase = "granted", !.expires = t.expires]]
               /\ late' = IF running THEN late \cup {c} ELSE late
    <2>1. PICK t \in sessions :
               /\ t.sid = s
               /\ subs' = fresh \cup {row(t.expires)}
               /\ sock' = [sock EXCEPT ![c] = [sock[c] EXCEPT !.phase = "granted", !.expires = t.expires]]
               /\ late' = IF running THEN late \cup {c} ELSE late
      BY <1>3
    <2>2. /\ RowOf(c)' = row(t.expires) /\ sock'[c].sid = s /\ sock'[c].ch = sock[c].ch
          /\ \A b \in Conns : b # c => sock'[b] = sock[b] /\ RowOf(b)' = RowOf(b)
                                       /\ (Granted(b)' <=> Granted(b))
      BY <1>0, <2>1 DEF SocketType, RowOf, Granted
    <2>3. late \subseteq late' /\ subs' = fresh \cup {row(t.expires)}
          /\ (c \notin late' => ~running)
      BY <2>1
    <2>4. s \notin gone
      BY <2>1 DEF RevokeInv, NeverBack
    <2> HIDE DEF fresh, row
    <2>5. RowKept'
      BY <1>1, <2>2, <2>3 DEF RevokeInv, RowKept
    <2>6. Asked'
      <3> SUFFICES ASSUME NEW k \in Calls, NEW b \in Conns, ~Idle(k), Granted(b)', b \notin late',
                          DeviceOf[sock'[b].sid] = calls[k].dk
                   PROVE  <<k, sock'[b].ch, sock'[b].sid>> \in revokes
        BY <1>0 DEF Asked, Idle
      <3>1. b # c
        BY <2>2, <2>3
      <3> QED
        BY <2>2, <2>3, <3>1 DEF RevokeInv, Asked
    <2>7. NeverBack'
      BY <1>0 DEF RevokeInv, NeverBack
    <2>8. GoneQuiet'
      BY <1>0, <2>2, <2>3, <2>4 DEF RevokeInv, GoneQuiet
    <2> QED
      BY <2>5, <2>6, <2>7, <2>8 DEF RevokeInv
  <1> QED
    BY <1>2, <1>3 DEF Subscribe

\* Every step keeps them, ...
LEMMA RevokeInvInductive ==
  ASSUME TypeOK, RevokeInv, [Next]_vars PROVE RevokeInv'
<1>0. sock \in [Conns -> SocketType] /\ calls \in [Calls -> CallType]
  BY DEF TypeOK
<1>1. ASSUME NEW k \in Calls, NEW s \in Sids, Enroll(k, s) PROVE RevokeInv'
  BY <1>1, EnrollKeeps
<1>2. ASSUME NEW k \in Calls, NEW d \in Devices, Revoke(k, d) PROVE RevokeInv'
  BY <1>2, RevokeKeeps
<1>3. ASSUME NEW k \in Calls, Alarm(k) PROVE RevokeInv'
  BY <1>3, AlarmKeeps
<1>4. ASSUME NEW k \in Calls, Finish(k) PROVE RevokeInv'
  BY <1>4, FinishKeeps
<1>5. ASSUME NEW k \in Calls, Fail(k) PROVE RevokeInv'
  <2>1. /\ calls' = [calls EXCEPT ![k] = Resting]
        /\ UNCHANGED <<clock, sessions, subs, sock, used, gone, late>>
        /\ \A r \in revokes : r[1] # k => r \in revokes'
    BY <1>5 DEF Fail
  <2>2. calls'[k].kind = "idle" /\ calls'[k].cut = {} /\ \A j \in Calls : j # k => calls'[j] = calls[j]
    BY <1>0, <2>1, RestingType
  <2>3. \A j \in Calls, c \in Conns : j # k => <<j, sock[c].ch, sock[c].sid>>[1] # k
    OBVIOUS
  <2>4. \A c \in Conns : Granted(c)' => Granted(c) /\ RowOf(c)' = RowOf(c)
    BY <2>1 DEF Granted, RowOf
  <2> QED
    BY <2>1, <2>2, <2>3, <2>4, SocketsOnly
<1>6. ASSUME NEW c \in Conns, NEW h \in Channels, NEW s \in Sids, Connect(c, h, s) PROVE RevokeInv'
  <2>1. /\ sock' = [sock EXCEPT ![c] = [sock[c] EXCEPT !.phase = "asking", !.ch = h, !.sid = s]]
        /\ UNCHANGED <<clock, sessions, subs, calls, revokes, used, gone, late>>
    BY <1>6 DEF Connect
  <2>2. sock'[c].phase = "asking" /\ \A b \in Conns : b # c => sock'[b] = sock[b]
    BY <1>0, <2>1 DEF SocketType
  <2>3. \A b \in Conns : Granted(b)' => Granted(b) /\ RowOf(b)' = RowOf(b)
    BY <2>1, <2>2 DEF Granted, RowOf
  <2> QED
    BY <2>1, <2>3, SocketsOnly
<1>7. ASSUME NEW c \in Conns, Subscribe(c) PROVE RevokeInv'
  BY <1>7, SubscribeKeeps
<1>8. ASSUME NEW c \in Conns, Bind(c) PROVE RevokeInv'
  <2>1. /\ sock' = [sock EXCEPT ![c].phase =
              IF sock[c].phase = "granted" /\ ~sock[c].revoked /\ sock[c].expires > clock
                THEN "bound" ELSE "closed"]
        /\ UNCHANGED <<clock, sessions, subs, calls, revokes, used, gone, late>>
    BY <1>8 DEF Bind
  <2>2. \A b \in Conns : Granted(b)' => Granted(b) /\ RowOf(b)' = RowOf(b)
    BY <1>0, <2>1 DEF Granted, RowOf, SocketType
  <2> QED
    BY <2>1, <2>2, SocketsOnly
<1>9. ASSUME NEW k \in Calls, NEW h \in Channels, NEW s \in Sids, RevokeAt(k, h, s) PROVE RevokeInv'
  <2>1. /\ revokes' = revokes \ {<<k, h, s>>}
        /\ sock' = [c \in Conns |->
             IF sock[c].phase \notin {"unused", "closed"} /\ sock[c].ch = h /\ sock[c].sid = s
               THEN [sock[c] EXCEPT !.revoked = TRUE] ELSE sock[c]]
        /\ UNCHANGED <<clock, sessions, subs, calls, used, gone, late>>
    BY <1>9 DEF RevokeAt
  <2>2. \A b \in Conns : Granted(b)' => /\ Granted(b) /\ RowOf(b)' = RowOf(b)
                                        /\ ~(sock[b].ch = h /\ sock[b].sid = s)
    BY <1>0, <2>1 DEF Granted, RowOf, SocketType
  <2>3. \A j \in Calls, b \in Conns :
          Granted(b)' => <<j, sock[b].ch, sock[b].sid>> # <<k, h, s>>
    BY <2>2
  <2> QED
    BY <2>1, <2>2, <2>3, SocketsOnly
<1>10. ASSUME NEW c \in Conns, Disconnect(c) \/ LoseAnswer(c) PROVE RevokeInv'
  <2>1. /\ sock' = [sock EXCEPT ![c].phase = "closed"]
        /\ UNCHANGED <<clock, sessions, subs, calls, revokes, used, gone, late>>
    BY <1>10 DEF Disconnect, LoseAnswer
  <2>2. \A b \in Conns : Granted(b)' => Granted(b) /\ RowOf(b)' = RowOf(b)
    BY <1>0, <2>1 DEF Granted, RowOf, SocketType
  <2> QED
    BY <2>1, <2>2, SocketsOnly
<1>11. CASE GatewayRestart
  <2>1. /\ \A j \in Calls : calls'[j].kind = "idle" /\ calls'[j].cut = {}
        /\ UNCHANGED <<clock, sessions, subs, sock, revokes, used, gone, late>>
    BY <1>11, RestingType DEF GatewayRestart
  <2>2. \A c \in Conns : Granted(c)' => Granted(c) /\ RowOf(c)' = RowOf(c)
    BY <2>1 DEF Granted, RowOf
  <2> QED
    BY <2>1, <2>2, SocketsOnly
<1>12. CASE Tick
  <2>1. clock' = clock + 1 /\ clock \in Int
        /\ UNCHANGED <<sessions, subs, sock, calls, revokes, used, gone, late>>
    BY <1>12 DEF Tick, TypeOK
  <2>2. \A c \in Conns : sock[c].expires \in Int
    BY <1>0 DEF SocketType
  <2>3. \A c \in Conns : Granted(c)' => Granted(c) /\ RowOf(c)' = RowOf(c)
    BY <2>1, <2>2 DEF Granted, RowOf
  <2> QED
    BY <2>1, <2>3, SocketsOnly
<1>13. CASE UNCHANGED vars
  <2>1. \A c \in Conns : Granted(c)' => Granted(c) /\ RowOf(c)' = RowOf(c)
    BY <1>13 DEF vars, Granted, RowOf
  <2> QED
    BY <1>13, <2>1, SocketsOnly DEF vars
<1> QED
  BY <1>1, <1>2, <1>3, <1>4, <1>5, <1>6, <1>7, <1>8, <1>9, <1>10, <1>11, <1>12, <1>13 DEF Next

\* ... so they hold in every reachable state.
LEMMA RevokeInvAlways == Spec => []RevokeInv
<1>1. TypeOK /\ RevokeInv /\ [Next]_vars => RevokeInv'
  BY RevokeInvInductive
<1> QED
  BY RevokeInit, <1>1, TypeCorrect, PTL DEF Spec

\* The gateway knows every channel a session is active in: whichever calls failed,
\* however often it restarted, an active socket has its row, unless it subscribed
\* while a revocation of its device ran.
THEOREM AlwaysTracked == Spec => []Tracked
<1>1. RevokeInv => Tracked
  <2> SUFFICES ASSUME RevokeInv, NEW c \in Conns, Active(c), c \notin late
               PROVE  \E r \in subs : r.ch = sock[c].ch /\ r.sid = sock[c].sid
    BY DEF Tracked
  <2>1. RowOf(c) \in subs
    BY DEF RevokeInv, RowKept, Granted, Active
  <2> QED
    BY <2>1 DEF RowOf
<1> QED
  BY <1>1, RevokeInvAlways, PTL

\* Once device.revoke is acknowledged, no socket of the sessions it ended is active
\* or becomes so when its answer arrives, with the same exception.
THEOREM RevokedFirst == Spec => []RevokedBeforeAck
<1>1. RevokeInv => RevokedBeforeAck
  BY DEF RevokeInv, GoneQuiet, RevokedBeforeAck, Granted, Active
<1> QED
  BY <1>1, RevokeInvAlways, PTL

-----------------------------------------------------------------------------
(* The cap on devices.                                                      *)

\* The devices with a session.
Enrolled == DevicesOf(Live(sessions))

\* They are finitely many, and no more than the cap.
CapInv == IsFiniteSet(Enrolled) /\ Cardinality(Enrolled) <= MaxDevices

\* Fewer devices are within the cap.
LEMMA CapShrinks ==
  ASSUME CapInv, Enrolled' \subseteq Enrolled PROVE CapInv'
  <1>1. /\ IsFiniteSet(Enrolled') /\ Cardinality(Enrolled') <= Cardinality(Enrolled)
        /\ Cardinality(Enrolled') \in Nat /\ Cardinality(Enrolled) \in Nat
    BY FS_Subset, FS_CardinalityType DEF CapInv
  <1> QED
    BY <1>1, SessionAssumption DEF CapInv

\* When sessions end or time passes, no device is added.
LEMMA LiveShrinks ==
  ASSUME TypeOK, CapInv, sessions' \subseteq sessions, clock' \in Nat, clock <= clock'
  PROVE  CapInv'
  <1>1. \A t \in sessions : t.expires \in Nat
    BY DEF TypeOK, SessionType
  <1>2. Enrolled' \subseteq Enrolled
    BY <1>1 DEF Enrolled, DevicesOf, Live, TypeOK
  <1> QED
    BY <1>2, CapShrinks

\* At the cap the set of devices to go is one enrolled device.
LEMMA EvictOne ==
  ASSUME NEW S, NEW d, NEW out \in Evictions(S, d)
  PROVE  \/ d \in DevicesOf(S)
         \/ Cardinality(DevicesOf(S)) < MaxDevices
         \/ \E v \in DevicesOf(S) : out = {v}
  BY DEF Evictions

\* An enrolment at the cap removes a device before it adds one.
LEMMA EnrollCapped ==
  ASSUME TypeOK, CapInv, NEW k \in Calls, NEW s \in Sids, Enroll(k, s) PROVE CapInv'
  <1> DEFINE d == DeviceOf[s]
             new == [sid |-> s, epoch |-> EnrollEpoch(Live(sessions), d),
                     created |-> clock, expires |-> clock + Ttl]
  <1>1. PICK out \in Evictions(Live(sessions), d) :
          sessions' = {t \in Live(sessions) : DeviceOf[t.sid] \notin out} \cup {new}
    BY DEF Enroll
  <1>2. new.sid = s
    OBVIOUS
  <1> HIDE DEF new
  <1>3. Enrolled' \subseteq (Enrolled \ out) \cup {d}
    BY <1>1, <1>2 DEF Enrolled, DevicesOf, Live
  <1> HIDE DEF d
  <1> DEFINE E == Enrolled
  <1>4. IsFiniteSet(E) /\ Cardinality(E) \in Nat /\ Cardinality(E) <= MaxDevices /\ MaxDevices \in Nat
    BY FS_CardinalityType, SessionAssumption DEF CapInv
  <1>5. \A F : Enrolled' \subseteq F /\ IsFiniteSet(F) /\ Cardinality(F) <= MaxDevices => CapInv'
    <2> SUFFICES ASSUME NEW F, Enrolled' \subseteq F, IsFiniteSet(F), Cardinality(F) <= MaxDevices
                 PROVE  CapInv'
      OBVIOUS
    <2>1. /\ IsFiniteSet(Enrolled') /\ Cardinality(Enrolled') <= Cardinality(F)
          /\ Cardinality(Enrolled') \in Nat /\ Cardinality(F) \in Nat
      BY FS_Subset, FS_CardinalityType
    <2> QED
      BY <2>1, <1>4 DEF CapInv
  <1> HIDE DEF E
  <1>6. CASE d \in E
    <2>1. Enrolled' \subseteq E
      BY <1>3, <1>6 DEF E
    <2> QED
      BY <2>1, <1>4, <1>5
  <1>7. CASE d \notin E /\ Cardinality(E) < MaxDevices
    <2>1. Enrolled' \subseteq E \cup {d}
      BY <1>3 DEF E
    <2>2. IsFiniteSet(E \cup {d}) /\ Cardinality(E \cup {d}) = Cardinality(E) + 1
      BY <1>4, <1>7, FS_AddElement
    <2>3. Cardinality(E \cup {d}) <= MaxDevices
      BY <2>2, <1>4, <1>7
    <2> QED
      BY <2>1, <2>2, <2>3, <1>5
  <1>8. ASSUME NEW v \in E, out = {v}, d \notin E PROVE CapInv'
    <2> DEFINE F == (E \ {v}) \cup {d}
    <2>1. Enrolled' \subseteq F
      BY <1>3, <1>8 DEF E
    <2>2. IsFiniteSet(E \ {v}) /\ Cardinality(E \ {v}) = Cardinality(E) - 1
      BY <1>4, <1>8, FS_RemoveElement
    <2>3. d \notin E \ {v}
      BY <1>8
    <2>4. IsFiniteSet(F) /\ Cardinality(F) = Cardinality(E \ {v}) + 1
      BY <2>2, <2>3, FS_AddElement
    <2>5. Cardinality(F) <= MaxDevices
      BY <2>2, <2>4, <1>4
    <2> QED
      BY <2>1, <2>4, <2>5, <1>5
  <1>9. d \in E \/ Cardinality(E) < MaxDevices \/ \E v \in E : out = {v}
    BY EvictOne DEF E, Enrolled
  <1> QED
    BY <1>6, <1>7, <1>8, <1>9

\* An account never has more devices with a session that has not expired than the
\* cap, however enrolments, revocations and expiry interleave.
THEOREM Capped == Spec => []DevicesCapped
<1>1. Init => CapInv
  <2>1. Init => Enrolled = {}
    BY DEF Init, Enrolled, DevicesOf, Live
  <2> QED
    BY <2>1, FS_EmptySet, SessionAssumption DEF CapInv
<1>2. TypeOK /\ CapInv /\ [Next]_vars => CapInv'
  <2> SUFFICES ASSUME TypeOK, CapInv, [Next]_vars PROVE CapInv'
    OBVIOUS
  <2>0. clock \in Nat
    BY DEF TypeOK
  <2>1. ASSUME NEW k \in Calls, NEW s \in Sids, Enroll(k, s) PROVE CapInv'
    BY <2>1, EnrollCapped
  <2>2. CASE sessions' \subseteq sessions /\ (clock' = clock \/ clock' = clock + 1)
    <3>1. clock' \in Nat /\ clock <= clock'
      BY <2>0, <2>2
    <3> QED
      BY <3>1, <2>2, LiveShrinks
  <2>3. ASSUME NEW k \in Calls, NEW d \in Devices, Revoke(k, d) PROVE CapInv'
    BY <2>2, <2>3 DEF Revoke
  <2>4. ASSUME NEW k \in Calls, Alarm(k) \/ Finish(k) \/ Fail(k) PROVE CapInv'
    BY <2>2, <2>4, SweepKeeps DEF Alarm, Finish, Fail
  <2>5. ASSUME NEW c \in Conns,
               \/ \E h \in Channels, s \in Sids : Connect(c, h, s)
               \/ Subscribe(c) \/ Bind(c) \/ Disconnect(c) \/ LoseAnswer(c)
        PROVE  CapInv'
    BY <2>2, <2>5 DEF Connect, Subscribe, Bind, Disconnect, LoseAnswer
  <2>6. ASSUME NEW k \in Calls, NEW h \in Channels, NEW s \in Sids, RevokeAt(k, h, s) PROVE CapInv'
    BY <2>2, <2>6 DEF RevokeAt
  <2>7. CASE GatewayRestart \/ Tick \/ UNCHANGED vars
    BY <2>2, <2>7 DEF GatewayRestart, Tick, vars
  <2> QED
    BY <2>1, <2>3, <2>4, <2>5, <2>6, <2>7 DEF Next
<1>3. CapInv => DevicesCapped
  BY DEF CapInv, DevicesCapped, Enrolled
<1> QED
  BY <1>1, <1>2, <1>3, TypeCorrect, PTL DEF Spec
=============================================================================
