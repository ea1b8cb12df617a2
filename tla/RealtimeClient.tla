------------------------------ MODULE RealtimeClient ------------------------------
(***************************************************************************)
(* The browser's control client (packages/core/src/app/realtimeClient.ts)  *)
(* and the gateway's command loop (packages/core/src/app/gatewayService.ts)*)
(* with the sockets between them: the connection cycle and its retry       *)
(* timer, commands that wait, travel, are answered, time out or are sent   *)
(* again, and the answers the gateway remembers.                           *)
(*                                                                         *)
(* One client instance is one tab.  Every socket it opens has a number; a  *)
(* frame on a socket whose other end is gone is lost, frames the gateway   *)
(* has received are handled even after the browser has seen the close.     *)
(* The `delta` frames of the same socket are in EventFeed.                 *)
(***************************************************************************)
EXTENDS Naturals, Sequences, SequencesExt

CONSTANTS
  Cmds,       \* command ids
  QueueMax,   \* commandQueueMax: commands that may wait for a socket
  MaxSockets, \* bound: sockets one client opens
  MaxFaults,  \* bound: what other tabs, the gateway and failing handlers do (Fault)
  MaxRuns     \* bound: runs of one command

ASSUME ClientAssumption ==
  /\ QueueMax \in Nat /\ MaxFaults \in Nat
  /\ MaxSockets \in Nat \ {0} /\ MaxRuns \in Nat \ {0}

VARIABLES
  state,    \* the client's state, as currentState shows it
  stopped,
  dropped,  \* the transport was closed and forgotten by its owner
  retry,    \* reconnectTimer is armed
  cycle,    \* where the running connection cycle waits, or "idle"
  timers,   \* the session and ping intervals run
  refresh,  \* where the session refresh of the interval waits, or "idle"
  current,  \* number of the socket in `channel`, 0 for null
  front,    \* front[s]: the browser's end of socket s
  back,     \* back[s]: the gateway's end of socket s
  up, down, \* up[s], down[s]: frames on their way
  queue,    \* commands waiting for a socket
  pending,  \* commands sent and not answered, in the Map's order
  cap,      \* a device capability is stored, for all tabs of the browser
  faults,   \* how many of them there were
  handling, \* <<s, k>>: handlers that have not yet acted
  acted,    \* <<s, k>>: handlers that have acted and not yet answered
  answer,   \* commands with a remembered answer
  outcome, runs,
  excused   \* history: commands whose copies overlapped, or run with no answer remembered

clientVars == <<state, stopped, dropped, retry, cycle, timers, refresh, current, cap>>
wireVars == <<front, back, up, down>>
callVars == <<queue, pending, outcome>>
gatewayVars == <<handling, acted, answer, runs, excused>>
vars == <<clientVars, wireVars, callVars, gatewayVars, faults>>

Sockets == 1..MaxSockets

Service == INSTANCE CommandService

FrontEnds == {"unused", "dialing", "open", "closing", "closed"}
BackEnds == {"unused", "fresh", "ready", "refused", "closed"}
States == {"offline", "enrolling", "session", "connecting", "ready", "backoff",
           "upgrade-required"}

TypeOK ==
  /\ state \in States
  /\ stopped \in BOOLEAN /\ dropped \in BOOLEAN /\ retry \in BOOLEAN
  /\ timers \in BOOLEAN /\ cap \in BOOLEAN
  /\ cycle \in {"idle", "capability", "enroll", "session", "opening"}
  /\ refresh \in {"idle", "reading", "enroll"}
  /\ current \in 0..MaxSockets /\ faults \in 0..MaxFaults
  /\ current # 0 => front[current] \in {"dialing", "open"}
  /\ front \in [Sockets -> FrontEnds] /\ back \in [Sockets -> BackEnds]
  /\ up \in [Sockets -> Seq({"hello"} \cup Cmds)]
  /\ down \in [Sockets -> Seq({"ack", "error"} \X Cmds)]
  /\ queue \in Seq(Cmds) /\ pending \in Seq(Cmds)
  /\ handling \subseteq Sockets \X Cmds /\ acted \subseteq Sockets \X Cmds
  /\ answer \subseteq Cmds /\ excused \subseteq Cmds
  /\ outcome \in [Cmds -> Service!Outcomes]
  /\ runs \in [Cmds -> 0..MaxRuns]

Init ==
  /\ state = "offline" /\ cycle = "idle" /\ refresh = "idle"
  /\ stopped = FALSE /\ dropped = FALSE /\ retry = FALSE /\ timers = FALSE
  /\ current = 0 /\ cap \in BOOLEAN /\ faults = 0
  /\ front = [s \in Sockets |-> "unused"] /\ back = [s \in Sockets |-> "unused"]
  /\ up = [s \in Sockets |-> <<>>] /\ down = [s \in Sockets |-> <<>>]
  /\ queue = <<>> /\ pending = <<>>
  /\ handling = {} /\ acted = {} /\ answer = {} /\ excused = {}
  /\ Service!ServiceInit

\* Counts what the environment does against the bound.
Fault == faults < MaxFaults /\ faults' = faults + 1

------------------------------------------------------------------------------------
(* The connection cycle. *)

\* beginCycle(): callers share the cycle that runs; a stopped client starts none.
BeginCycle ==
  cycle' = IF cycle = "idle" /\ ~stopped' THEN "capability" ELSE cycle

\* Mutant of CycleFails: a cycle that failed arms no retry.
CycleFailsQuietly ==
  /\ cycle' = "idle"
  /\ UNCHANGED retry
  /\ IF stopped THEN UNCHANGED <<state, timers>> ELSE state' = "backoff" /\ timers' = FALSE

\* scheduleReconnect() at the end of a cycle that failed.
CycleFails ==
  /\ cycle' = "idle"
  /\ IF stopped
       THEN UNCHANGED <<state, retry, timers>>
       ELSE state' = "backoff" /\ retry' = TRUE /\ timers' = FALSE

\* connect(), before every command and on start, as long as the transport is kept.
Connect ==
  /\ ~dropped
  /\ state \notin {"ready", "upgrade-required"} /\ ~retry
  /\ stopped' = FALSE
  /\ BeginCycle
  /\ UNCHANGED <<state, dropped, retry, timers, refresh, current, cap, faults>>
  /\ UNCHANGED <<wireVars, callVars, gatewayVars>>

\* The retry timer fires.
RetryFires ==
  /\ retry /\ retry' = FALSE
  /\ UNCHANGED stopped
  /\ BeginCycle
  /\ UNCHANGED <<state, dropped, timers, refresh, current, cap, faults>>
  /\ UNCHANGED <<wireVars, callVars, gatewayVars>>

\* ensureCapability() reads the store: a cleared capability does not count.
ReadCapability ==
  /\ cycle = "capability"
  /\ IF cap THEN cycle' = "session" /\ state' = "session"
            ELSE cycle' = "enroll" /\ state' = "enrolling"
  /\ UNCHANGED <<stopped, dropped, retry, timers, refresh, current, cap, faults>>
  /\ UNCHANGED <<wireVars, callVars, gatewayVars>>

\* The enrolment is answered.
Enrolled ==
  /\ cycle = "enroll"
  /\ \/ cap' = TRUE /\ cycle' = "session" /\ state' = "session" /\ UNCHANGED <<retry, timers>>
     \/ CycleFails /\ UNCHANGED cap
  /\ UNCHANGED <<stopped, dropped, refresh, current, faults>>
  /\ UNCHANGED <<wireVars, callVars, gatewayVars>>

\* The session is refused, the capability with it, or the request failed.
SessionFails ==
  /\ cycle = "session"
  /\ cap' \in {cap, FALSE}
  /\ CycleFails
  /\ UNCHANGED <<stopped, dropped, refresh, current, faults>>
  /\ UNCHANGED <<wireVars, callVars, gatewayVars>>

\* The session stands: openChannel() dials, whatever happened since the cycle began.
Dial(s) ==
  /\ cycle = "session"
  /\ front[s] = "unused" /\ \A r \in Sockets : r < s => front[r] # "unused"
  /\ cycle' = "opening" /\ state' = "connecting"
  /\ current' = s
  /\ front' = [front EXCEPT ![s] = "dialing"]
  /\ UNCHANGED <<stopped, dropped, retry, timers, refresh, cap, faults>>
  /\ UNCHANGED <<back, up, down, callVars, gatewayVars>>

\* onOpen: the hello, then everything that waited; the cycle ends in ready.
SocketOpens(s) ==
  /\ front[s] = "dialing"
  /\ front' = [front EXCEPT ![s] = "open"] /\ back' = [back EXCEPT ![s] = "fresh"]
  /\ up' = [up EXCEPT ![s] = <<"hello">> \o queue]
  /\ pending' = pending \o queue /\ queue' = <<>>
  /\ cycle' = "idle" /\ state' = "ready" /\ timers' = TRUE
  /\ UNCHANGED <<stopped, dropped, retry, refresh, current, cap, faults>>
  /\ UNCHANGED <<down, outcome, gatewayVars>>

\* onClose: commands in flight go back in front of the queue, the last one first;
\* then the terminal state, the end of a cycle that waited for this socket, or a retry.
SocketCloses(s, refused) ==
  /\ front[s] \in {"dialing", "open", "closing"}
  /\ refused => back[s] = "refused"
  /\ front' = [front EXCEPT ![s] = "closed"] /\ down' = [down EXCEPT ![s] = <<>>]
  /\ current' = 0
  /\ queue' = Reverse(pending) \o queue /\ pending' = <<>>
  /\ cycle' = IF front[s] = "dialing" THEN "idle" ELSE cycle
  /\ timers' = FALSE
  /\ CASE refused -> stopped' = TRUE /\ state' = "upgrade-required" /\ UNCHANGED retry
       [] ~refused /\ stopped -> UNCHANGED <<stopped, state, retry>>
       [] OTHER -> state' = "backoff" /\ retry' = TRUE /\ UNCHANGED stopped
  /\ UNCHANGED <<dropped, refresh, cap, faults, back, up, outcome, gatewayVars>>

\* close(), after which the owner forgets the transport: every caller is told at once.
Close ==
  /\ ~dropped
  /\ dropped' = TRUE /\ stopped' = TRUE /\ retry' = FALSE /\ timers' = FALSE
  /\ front' = [s \in Sockets |-> IF s = current THEN "closing" ELSE front[s]]
  /\ current' = 0
  /\ queue' = <<>> /\ pending' = <<>>
  /\ outcome' = [k \in Cmds |-> IF outcome[k] = "waiting" THEN "rejected" ELSE outcome[k]]
  /\ state' = "offline"
  /\ UNCHANGED <<cycle, refresh, cap, faults, back, up, down, gatewayVars>>

------------------------------------------------------------------------------------
(* The session refresh, on an interval of the ready client. *)

\* The interval fires on an open socket.
RefreshStarts ==
  /\ timers /\ ~stopped /\ current # 0 /\ front[current] = "open"
  /\ refresh = "idle" /\ refresh' = "reading"
  /\ UNCHANGED <<state, stopped, dropped, retry, cycle, timers, current, cap, faults>>
  /\ UNCHANGED <<wireVars, callVars, gatewayVars>>

\* ensureCapability() again: with none stored it enrols, and says so in the state.
RefreshReads ==
  /\ refresh = "reading"
  /\ IF cap THEN refresh' = "idle" /\ UNCHANGED state
            ELSE refresh' = "enroll" /\ state' = "enrolling"
  /\ UNCHANGED <<stopped, dropped, retry, cycle, timers, current, cap, faults>>
  /\ UNCHANGED <<wireVars, callVars, gatewayVars>>

\* Its enrolment is answered; a failure is left to the next interval.
RefreshEnrols ==
  /\ refresh = "enroll" /\ refresh' = "idle"
  /\ cap' \in {cap, TRUE}
  /\ UNCHANGED <<state, stopped, dropped, retry, cycle, timers, current, faults>>
  /\ UNCHANGED <<wireVars, callVars, gatewayVars>>

\* Another tab's session was rejected: it clears the capability both tabs use.
OtherTabClears ==
  /\ cap /\ cap' = FALSE
  /\ Fault
  /\ UNCHANGED <<state, stopped, dropped, retry, cycle, timers, refresh, current>>
  /\ UNCHANGED <<wireVars, callVars, gatewayVars>>

------------------------------------------------------------------------------------
(* Commands, on the client's side. *)

\* A command taken out of the map or the queue, if it is there.
Without(s, k) ==
  IF Contains(s, k) THEN RemoveAt(s, CHOOSE i \in DOMAIN s : s[i] = k) ELSE s

\* Mutant of Settle: a command that waits for a socket stays in the queue.
SettlePending(k, o) ==
  /\ pending' = Without(pending, k) /\ UNCHANGED queue
  /\ outcome' = [outcome EXCEPT ![k] = o]

\* settle(): the command leaves the pending map and the queue.
Settle(k, o) ==
  /\ pending' = Without(pending, k) /\ queue' = Without(queue, k)
  /\ outcome' = [outcome EXCEPT ![k] = o]

\* send(): on the open socket at once, else behind those that wait, up to the cap.
Send(k) ==
  /\ ~dropped /\ outcome[k] = "unsent"
  /\ \/ /\ current # 0 /\ front[current] = "open"
        /\ pending' = Append(pending, k) /\ up' = [up EXCEPT ![current] = Append(@, k)]
        /\ outcome' = [outcome EXCEPT ![k] = "waiting"]
        /\ UNCHANGED queue
     \/ /\ ~(current # 0 /\ front[current] = "open")
        /\ IF Len(queue) >= QueueMax
             THEN outcome' = [outcome EXCEPT ![k] = "rejected"] /\ UNCHANGED queue
             ELSE outcome' = [outcome EXCEPT ![k] = "waiting"] /\ queue' = Append(queue, k)
        /\ UNCHANGED <<pending, up>>
  /\ UNCHANGED <<clientVars, faults, front, back, down, gatewayVars>>

\* The command's own timer.
TimesOut(k) ==
  /\ outcome[k] = "waiting"
  /\ Settle(k, "rejected")
  /\ UNCHANGED <<clientVars, faults, wireVars, gatewayVars>>

\* Mutant of ReceiveAnswer: any answer resolves.
ReceiveAnyAnswer(s) ==
  /\ front[s] = "open" /\ down[s] # <<>>
  /\ down' = [down EXCEPT ![s] = Tail(@)]
  /\ IF Contains(pending, Head(down[s])[2])
       THEN Settle(Head(down[s])[2], "resolved") ELSE UNCHANGED callVars
  /\ UNCHANGED <<clientVars, faults, front, back, up, gatewayVars>>

\* handleFrame(): an answer to a command that is not pending is ignored.
ReceiveAnswer(s) ==
  /\ front[s] = "open" /\ down[s] # <<>>
  /\ down' = [down EXCEPT ![s] = Tail(@)]
  /\ LET k == Head(down[s])[2] IN
       IF Contains(pending, k)
         THEN Settle(k, IF Head(down[s])[1] = "ack" THEN "resolved" ELSE "rejected")
         ELSE UNCHANGED callVars
  /\ UNCHANGED <<clientVars, faults, front, back, up, gatewayVars>>

------------------------------------------------------------------------------------
(* The gateway. *)

\* A frame for the browser; on a socket that is gone it goes nowhere.
Reply(s, kind, k) ==
  down' = IF front[s] = "open" /\ back[s] = "ready"
            THEN [down EXCEPT ![s] = Append(@, <<kind, k>>)] ELSE down

\* handleMessage() on a fresh socket: the hello, of this protocol version or not.
HandleHello(s) ==
  /\ back[s] = "fresh" /\ up[s] # <<>>
  /\ \/ back' = [back EXCEPT ![s] = "ready"] /\ up' = [up EXCEPT ![s] = Tail(@)] /\ UNCHANGED faults
     \/ back' = [back EXCEPT ![s] = "refused"] /\ up' = [up EXCEPT ![s] = <<>>] /\ Fault
  /\ UNCHANGED <<clientVars, front, down, callVars, gatewayVars>>

\* handleMessage() on a ready socket, up to the handler: too many commands (or one the
\* gateway cannot run) are refused first, a remembered answer is given again.
HandleCommand(s) ==
  /\ back[s] = "ready" /\ up[s] # <<>>
  /\ up' = [up EXCEPT ![s] = Tail(@)]
  /\ LET k == Head(up[s]) IN
       \/ Reply(s, "error", k) /\ UNCHANGED <<handling, excused>>
       \/ k \in answer /\ Reply(s, "ack", k) /\ UNCHANGED <<handling, excused>>
       \/ /\ k \notin answer
          /\ handling' = handling \cup {<<s, k>>}
          /\ excused' = IF \E r \in Sockets : <<r, k>> \in handling \cup acted
                          THEN excused \cup {k} ELSE excused
          /\ UNCHANGED down
  /\ UNCHANGED <<clientVars, faults, front, back, callVars, acted, answer, runs>>

\* The handler does its work: an event, a mailbox entry, an authorization elsewhere.
HandlerActs(s, k) ==
  /\ <<s, k>> \in handling /\ runs[k] < MaxRuns
  /\ handling' = handling \ {<<s, k>>} /\ acted' = acted \cup {<<s, k>>}
  /\ runs' = [runs EXCEPT ![k] = @ + 1]
  /\ UNCHANGED <<clientVars, faults, wireVars, callVars, answer, excused>>

\* It throws, before its work or after it (a device is revoked, then telling the others
\* fails): the error is sent and nothing is remembered.
HandlerThrows(s, k) ==
  /\ \/ /\ <<s, k>> \in handling
        /\ handling' = handling \ {<<s, k>>} /\ UNCHANGED <<acted, excused, faults>>
     \/ /\ <<s, k>> \in acted
        /\ acted' = acted \ {<<s, k>>} /\ excused' = excused \cup {k} /\ UNCHANGED handling
        /\ Fault
  /\ Reply(s, "error", k)
  /\ UNCHANGED <<clientVars, front, back, up, callVars, answer, runs>>

\* Mutant of HandlerAnswers: the answer is not remembered.
HandlerForgets(s, k) ==
  /\ <<s, k>> \in acted
  /\ acted' = acted \ {<<s, k>>}
  /\ Reply(s, "ack", k)
  /\ UNCHANGED <<clientVars, faults, front, back, up, callVars, handling, answer, runs, excused>>

\* Its result is remembered and sent.
HandlerAnswers(s, k) ==
  /\ <<s, k>> \in acted
  /\ acted' = acted \ {<<s, k>>}
  /\ answer' = answer \cup {k}
  /\ Reply(s, "ack", k)
  /\ UNCHANGED <<clientVars, faults, front, back, up, callVars, handling, runs, excused>>

\* The gateway's end closes once the browser's has, or by itself: the session or the
\* connection limit ended it, or the line failed.  Frames not yet handled are lost.
GatewayCloses(s) ==
  /\ back[s] \in {"fresh", "ready"}
  /\ back' = [back EXCEPT ![s] = "closed"] /\ up' = [up EXCEPT ![s] = <<>>]
  /\ IF front[s] = "closed" THEN UNCHANGED faults ELSE Fault
  /\ UNCHANGED <<clientVars, front, down, callVars, gatewayVars>>

\* The gateway restarts: sockets and running handlers are lost, its tables are not.
Restart ==
  /\ \E s \in Sockets : back[s] \in {"fresh", "ready"}
  /\ back' = [s \in Sockets |-> IF back[s] = "unused" THEN "unused" ELSE "closed"]
  /\ up' = [s \in Sockets |-> <<>>]
  /\ handling' = {} /\ acted' = {}
  /\ excused' = excused \cup {k \in Cmds : \E s \in Sockets : <<s, k>> \in acted}
  /\ Fault
  /\ UNCHANGED <<clientVars, front, down, callVars, answer, runs>>

------------------------------------------------------------------------------------

Next ==
  \/ Connect \/ RetryFires \/ Close
  \/ ReadCapability \/ Enrolled \/ SessionFails
  \/ \E s \in Sockets : Dial(s) \/ SocketOpens(s)
  \/ \E s \in Sockets, refused \in BOOLEAN : SocketCloses(s, refused)
  \/ RefreshStarts \/ RefreshReads \/ RefreshEnrols \/ OtherTabClears
  \/ \E k \in Cmds : Send(k) \/ TimesOut(k)
  \/ \E s \in Sockets : ReceiveAnswer(s) \/ HandleHello(s) \/ HandleCommand(s) \/ GatewayCloses(s)
  \/ \E s \in Sockets, k \in Cmds :
       HandlerActs(s, k) \/ HandlerThrows(s, k) \/ HandlerAnswers(s, k)
  \/ Restart

Spec == Init /\ [][Next]_vars

------------------------------------------------------------------------------------
(* Properties. *)

\* connect(), beginCycle(), scheduleReconnect(): a client that was not stopped and has
\* begun is always on its way: a cycle runs, a retry is armed or a socket is open.
NeverStuck ==
  (~stopped /\ state # "offline") =>
    cycle # "idle" \/ retry \/ \E s \in Sockets : front[s] = "open"

\* onOpen, onClose, settle(): exactly the commands their callers wait for are held, each
\* once, in the queue or in the pending map, and the map is not empty without an open
\* socket.  The type invariant is part of it.
HeldOnce ==
  /\ TypeOK
  /\ IsInjective(queue \o pending)
  /\ ToSet(queue \o pending) = {k \in Cmds : outcome[k] = "waiting"}
  /\ pending # <<>> => \E s \in Sockets : front[s] = "open"

\* gatewayService.ts handleMessage(): a command is run a second time only when two
\* copies of it were being handled at once, or when its handler did its work and no
\* answer was remembered: it threw afterwards, or the gateway went down in between.
SecondRunExcused == \A k \in Cmds : runs[k] > 1 => k \in excused

\* send() and handleMessage() implement the command service: a command that resolved
\* was run, whatever was lost, repeated or late.
ImplementsService == Service!ServiceSpec

\* runtime.ts: "One control socket per app/tab."
OneSocket == \A r, s \in Sockets : front[r] = "open" /\ front[s] = "open" => r = s

\* gatewayService.ts: "A repeated command must repeat its original answer, never
\* re-execute."
NeverReExecuted == \A k \in Cmds : runs[k] <= 1
=================================================================================
