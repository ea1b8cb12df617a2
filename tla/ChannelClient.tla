------------------------------- MODULE ChannelClient -------------------------------
(***************************************************************************)
(* The browser's end of one authorized channel                             *)
(* (packages/core/src/durableChannel.ts) and the hook that opens it again  *)
(* (packages/core/src/react.ts, useDurableChannel): the connection and its *)
(* retries, the snapshot whose history is decrypted before the channel     *)
(* counts as connected, sends that wait for an acknowledgement, their      *)
(* timers and their replay.                                                *)
(*                                                                         *)
(* The channel object is AuthorizedChannel; here it only accepts a frame,  *)
(* once however often the frame comes, and answers it, or refuses it.      *)
(* Every socket has a number.  A message is its id: what a channel does    *)
(* with ids that carry state is not here, no caller gives such an id.  The *)
(* list of peers and the events received are left out.                     *)
(***************************************************************************)
EXTENDS Naturals, Sequences, FiniteSets

CONSTANTS
  Ids,         \* message ids
  PendingMax,  \* MAX_PENDING_OUTBOUND
  LinkMax,     \* bound: sockets
  RefusalMax,  \* bound: authorizations and frames that are refused
  SendMax      \* bound: calls of send()

ASSUME ChannelClientAssumption ==
  /\ PendingMax \in Nat \ {0} /\ LinkMax \in Nat \ {0}
  /\ RefusalMax \in Nat /\ SendMax \in Nat

VARIABLES
  room,       \* "opening", "open", "again" while the hook waits to open one, or "left"
  connecting, \* where connect() waits: "no", "authorize" or "socket"
  chained,    \* retryAfterSettlement is registered
  redial,     \* reconnectTimer is armed
  link,       \* number of the socket in `socket`, 0 for null
  near,       \* near[s]: the browser's end of socket s
  far,        \* far[s]: the channel's end
  history,    \* history[s]: the snapshot of s: not there, being decrypted, read
  frames,     \* frames[s]: on their way to the channel
  replies,    \* replies[s]: on their way to the browser
  encrypting, \* sends that have not reached the outbound map
  outbound,   \* the outbound map
  told,       \* told[m]: what the caller of send() knows
  accepted,   \* messages the channel has accepted
  refusals, calls

connVars == <<room, connecting, chained, redial, link, near, history>>
sendVars == <<encrypting, outbound, told, calls>>
farVars == <<far, frames, replies, accepted>>
channelClientVars == <<connVars, sendVars, farVars, refusals>>

Links == 1..LinkMax

Service == INSTANCE CommandService WITH
  Cmds <- Ids, outcome <- told, runs <- [m \in Ids |-> IF m \in accepted THEN 1 ELSE 0]

TypeOK ==
  /\ room \in {"opening", "open", "again", "left"}
  /\ connecting \in {"no", "authorize", "socket"}
  /\ chained \in BOOLEAN /\ redial \in BOOLEAN
  /\ link \in 0..LinkMax
  /\ near \in [Links -> {"unused", "dialing", "open", "closing", "closed"}]
  /\ far \in [Links -> {"unused", "binding", "bound", "closed"}]
  /\ history \in [Links -> {"none", "reading", "read"}]
  /\ frames \in [Links -> Seq(Ids)]
  /\ replies \in [Links -> Seq({<<"snapshot">>} \cup ({"ack", "error"} \X Ids))]
  /\ encrypting \subseteq Ids /\ outbound \subseteq Ids /\ accepted \subseteq Ids
  /\ told \in [Ids -> Service!Outcomes]
  /\ refusals \in 0..RefusalMax /\ calls \in 0..SendMax

Init ==
  /\ room = "opening" /\ connecting = "authorize"
  /\ chained = FALSE /\ redial = FALSE /\ link = 0
  /\ near = [s \in Links |-> "unused"] /\ far = [s \in Links |-> "unused"]
  /\ history = [s \in Links |-> "none"]
  /\ frames = [s \in Links |-> <<>>] /\ replies = [s \in Links |-> <<>>]
  /\ encrypting = {} /\ outbound = {} /\ accepted = {}
  /\ told = [m \in Ids |-> "unsent"]
  /\ refusals = 0 /\ calls = 0

\* `closed`: left, or failed to open.
Closed == room \in {"left", "again"}

Refusal == refusals < RefusalMax /\ refusals' = refusals + 1

\* The caller of every message of M is told o.
Tell(M, o) == told' = [m \in Ids |-> IF m \in M THEN o ELSE told[m]]

SocketOpen == link # 0 /\ near[link] = "open"

------------------------------------------------------------------------------------
(* connect() and scheduleReconnect(). *)

\* scheduleReconnect() while nothing connects: the timer.  While something does: once
\* that has settled, if it left no socket.
ScheduleReconnect ==
  IF Closed \/ redial THEN UNCHANGED <<redial, chained>>
  ELSE IF connecting # "no" THEN chained' = TRUE /\ UNCHANGED redial
  ELSE redial' = TRUE /\ UNCHANGED chained

\* Mutant of ConnectFails: the timer's connect() has no catch.
ConnectFailsUncaught ==
  /\ connecting' = "no" /\ chained' = FALSE
  /\ IF room = "opening" THEN room' = "again" /\ redial' = FALSE /\ link' = 0
                         ELSE UNCHANGED <<room, redial, link>>

\* connect() rejects: the timer's catch, or the chained retry, arms the timer; the first
\* connect() of a room makes openDurableChannel() fail, and the hook tries again later.
ConnectFails ==
  /\ connecting' = "no" /\ chained' = FALSE
  /\ CASE room = "opening" -> room' = "again" /\ redial' = FALSE /\ link' = 0
       [] room = "open"    -> redial' = TRUE /\ UNCHANGED <<room, link>>
       [] OTHER            -> UNCHANGED <<room, redial, link>>

\* The hook's timer: a new room, as long as the old socket is not in its way.
OpenAgain ==
  /\ room = "again" /\ room' = "opening"
  /\ connecting = "no" /\ connecting' = "authorize"
  /\ UNCHANGED <<chained, redial, link, near, history, sendVars, farVars, refusals>>

\* The reconnect timer fires.
RedialFires ==
  /\ redial /\ redial' = FALSE
  /\ connecting' = IF connecting = "no" /\ ~Closed THEN "authorize" ELSE connecting
  /\ UNCHANGED <<room, chained, link, near, history, sendVars, farVars, refusals>>

\* authorize() answers, and the socket is made; a room closed meanwhile makes none.
Dials(s) ==
  /\ connecting = "authorize" /\ ~Closed
  /\ near[s] = "unused" /\ \A r \in Links : r < s => near[r] # "unused"
  /\ connecting' = "socket" /\ link' = s
  /\ near' = [near EXCEPT ![s] = "dialing"]
  /\ UNCHANGED <<room, chained, redial, history, sendVars, farVars, refusals>>

AuthorizeFails ==
  /\ connecting = "authorize"
  /\ IF Closed THEN UNCHANGED refusals ELSE Refusal
  /\ ConnectFails
  /\ UNCHANGED <<near, history, sendVars, farVars>>

\* The upgrade is accepted; the channel binds the session before it sends anything.
Opens(s) ==
  /\ near[s] = "dialing"
  /\ near' = [near EXCEPT ![s] = "open"] /\ far' = [far EXCEPT ![s] = "binding"]
  /\ UNCHANGED <<room, connecting, chained, redial, link, history>>
  /\ UNCHANGED <<frames, replies, accepted, sendVars, refusals>>

\* No history within connectTimeoutMs: the attempt is given up, its socket told to close.  The
\* `error` event rejects the same way, with a socket that closes by itself.
ConnectTimesOut ==
  /\ connecting = "socket" /\ link # 0 /\ history[link] # "read"
  /\ near' = [near EXCEPT ![link] = "closing"]
  /\ ConnectFails
  /\ UNCHANGED <<history, sendVars, farVars, refusals>>

\* The close event.  A socket that was replaced changes nothing; the current one is
\* forgotten and a retry scheduled, and a connect() that waited for it rejects.
Closes(s) ==
  /\ near[s] \in {"dialing", "open", "closing"}
  /\ near' = [near EXCEPT ![s] = "closed"] /\ replies' = [replies EXCEPT ![s] = <<>>]
  /\ IF connecting = "socket" /\ link = s
       THEN /\ connecting' = "no" /\ chained' = FALSE /\ link' = 0
            /\ room' = IF room = "opening" THEN "again" ELSE room
            /\ redial' = (room = "open")
     ELSE IF link = s
       THEN link' = 0 /\ ScheduleReconnect /\ UNCHANGED <<room, connecting>>
     ELSE UNCHANGED <<room, connecting, chained, redial, link>>
  /\ UNCHANGED <<history, far, frames, accepted, sendVars, refusals>>

\* leave(), when the component goes: whoever waits in the outbound map is told.
Leave ==
  /\ room \in {"open", "again"} /\ room' = "left"
  /\ redial' = FALSE
  /\ near' = [s \in Links |-> IF s = link THEN "closing" ELSE near[s]] /\ link' = 0
  /\ Tell(outbound, "rejected") /\ outbound' = {}
  /\ UNCHANGED calls
  /\ connecting' = IF connecting = "socket" THEN "no" ELSE connecting
  /\ UNCHANGED <<chained, history, encrypting, farVars, refusals>>

------------------------------------------------------------------------------------
(* send(). *)

\* The id is taken and the data encrypted; a message given up before may be sent again.
Send(m) ==
  /\ room = "open" /\ told[m] \in {"unsent", "rejected"}
  /\ calls < SendMax /\ calls' = calls + 1
  /\ encrypting' = encrypting \cup {m}
  /\ Tell({m}, "waiting")
  /\ UNCHANGED <<connVars, outbound, farVars, refusals>>

\* Encrypted: refused at the cap, else in the map and, on an open socket, on its way; `closed`
\* is not looked at again.
Encrypted(m) ==
  /\ m \in encrypting /\ encrypting' = encrypting \ {m}
  /\ IF Cardinality(outbound) >= PendingMax \/ m \in outbound
       THEN /\ Tell({m}, "rejected")
            /\ UNCHANGED <<outbound, frames, chained, redial>>
       ELSE /\ outbound' = outbound \cup {m}
            /\ IF SocketOpen
                 THEN /\ frames' = [frames EXCEPT ![link] = Append(@, m)]
                      /\ UNCHANGED <<chained, redial>>
                 ELSE ScheduleReconnect /\ UNCHANGED frames
            /\ UNCHANGED told
  /\ UNCHANGED <<room, connecting, link, near, history, far, replies, accepted, refusals, calls>>

\* The entry leaves the map, its caller is told.
Settle(m, o) == outbound' = outbound \ {m} /\ Tell({m}, o)

\* OUTBOUND_ACK_TIMEOUT_MS is over.
AckTimesOut(m) ==
  /\ m \in outbound
  /\ Settle(m, "rejected")
  /\ UNCHANGED <<connVars, encrypting, calls, farVars, refusals>>

\* Mutant of Receive: any answer resolves.
ReceiveAnyAnswer(s) ==
  /\ near[s] \in {"open", "closing"} /\ replies[s] # <<>>
  /\ replies' = [replies EXCEPT ![s] = Tail(@)]
  /\ LET f == Head(replies[s]) IN
       IF f[1] = "snapshot"
         THEN history' = [history EXCEPT ![s] = "reading"] /\ UNCHANGED <<outbound, told>>
         ELSE /\ UNCHANGED history
              /\ IF f[2] \in outbound THEN Settle(f[2], "resolved") ELSE UNCHANGED <<outbound, told>>
  /\ UNCHANGED <<room, connecting, chained, redial, link, near, encrypting, calls>>
  /\ UNCHANGED <<far, frames, accepted, refusals>>

\* A frame from the channel: the snapshot's history is queued to be decrypted, an answer
\* settles its message if that still waits.
Receive(s) ==
  /\ near[s] \in {"open", "closing"} /\ replies[s] # <<>>
  /\ replies' = [replies EXCEPT ![s] = Tail(@)]
  /\ LET f == Head(replies[s]) IN
       IF f[1] = "snapshot"
         THEN history' = [history EXCEPT ![s] = "reading"] /\ UNCHANGED <<outbound, told>>
         ELSE /\ UNCHANGED history
              /\ IF f[2] \in outbound
                   THEN Settle(f[2], IF f[1] = "ack" THEN "resolved" ELSE "rejected")
                   ELSE UNCHANGED <<outbound, told>>
  /\ UNCHANGED <<room, connecting, chained, redial, link, near, encrypting, calls>>
  /\ UNCHANGED <<far, frames, accepted, refusals>>

\* The orders in which a Map may hold the messages of M.
Orders(M) == {f \in [1..Cardinality(M) -> M] : \A i, j \in DOMAIN f : f[i] = f[j] => i = j}

\* The history is decrypted: everything in the map is sent, again or for the first time,
\* and connect() resolves.  A closing socket swallows what it is given.
HistoryRead(s) ==
  /\ history[s] = "reading" /\ history' = [history EXCEPT ![s] = "read"]
  /\ IF link = s /\ ~Closed
       THEN /\ IF near[s] = "open"
                 THEN \E order \in Orders(outbound) : frames' = [frames EXCEPT ![s] = @ \o order]
                 ELSE UNCHANGED frames
            /\ IF connecting = "socket"
                 THEN connecting' = "no" /\ chained' = FALSE /\ room' = "open"
                 ELSE UNCHANGED <<connecting, chained, room>>
       ELSE UNCHANGED <<frames, connecting, chained, room>>
  /\ UNCHANGED <<redial, link, near, sendVars, far, replies, accepted, refusals>>

------------------------------------------------------------------------------------
(* The channel, as this client sees it. *)

\* The session is bound: the snapshot goes out.
Binds(s) ==
  /\ far[s] = "binding" /\ far' = [far EXCEPT ![s] = "bound"]
  /\ replies' = IF near[s] = "open" THEN [replies EXCEPT ![s] = <<<<"snapshot">>>>] ELSE replies
  /\ UNCHANGED <<connVars, sendVars, frames, accepted, refusals>>

\* A frame is accepted and acknowledged (a stored one only acknowledged), or refused.
Handles(s) ==
  /\ far[s] = "bound" /\ frames[s] # <<>>
  /\ frames' = [frames EXCEPT ![s] = Tail(@)]
  /\ LET m == Head(frames[s]) IN
       \E kind \in {"ack", "error"} :
         /\ IF kind = "ack" THEN accepted' = accepted \cup {m} /\ UNCHANGED refusals
                            ELSE Refusal /\ UNCHANGED accepted
         /\ replies' = IF near[s] = "open"
                         THEN [replies EXCEPT ![s] = Append(@, <<kind, m>>)] ELSE replies
  /\ UNCHANGED <<connVars, sendVars, far>>

\* The channel closes the socket, drops it, or is evicted; frames not handled are lost.
Drops(s) ==
  /\ far[s] \in {"binding", "bound"} /\ far' = [far EXCEPT ![s] = "closed"]
  /\ frames' = [frames EXCEPT ![s] = <<>>]
  /\ UNCHANGED <<connVars, sendVars, replies, accepted, refusals>>

Next ==
  \/ OpenAgain \/ RedialFires \/ AuthorizeFails \/ ConnectTimesOut \/ Leave
  \/ \E s \in Links : Dials(s) \/ Opens(s) \/ Closes(s) \/ Receive(s) \/ HistoryRead(s)
                       \/ Binds(s) \/ Handles(s) \/ Drops(s)
  \/ \E m \in Ids : Send(m) \/ Encrypted(m) \/ AckTimesOut(m)

Spec == Init /\ [][Next]_channelClientVars

------------------------------------------------------------------------------------
(* Properties. *)

\* connect(), scheduleReconnect(), the close event, openDurableChannel(): a room that was
\* not left is always on its way to a socket or has one, however the close event, the
\* connect timeout, the timers and the sends were interleaved.
KeepsTrying ==
  room # "left" =>
    connecting # "no" \/ redial \/ room = "again" \/ (link # 0 /\ near[link] # "closed")

\* send(), the ack handler, the replay: the channel implements the command service: a send
\* that resolved was accepted, whatever socket, replay or earlier attempt the answer is of.
ImplementsService == Service!ServiceSpec
=================================================================================
