---------------------------------- MODULE PeerRoom ----------------------------------
(***************************************************************************)
(* The hook that keeps a component in its peer-to-peer room                *)
(* (packages/core/src/react.ts, useRoom): joining, leaving when the        *)
(* room or an option changes, and the bounded recovery that leaves and     *)
(* joins again when connections to peers fail.                             *)
(*                                                                         *)
(* Every run of the hook's effect has a number.  Its cleanup leaves the    *)
(* room it joined; the next run waits for that before it joins, because a  *)
(* leave that lands after the next join takes its subscription down.       *)
(* The library's room is external: joining and leaving take their time,    *)
(* peers come and go, failures are reported.  Error texts, logs and the    *)
(* TURN probe are left out, as are reports that start no recovery; the     *)
(* back-off is any delay, and the debounce ends at any time.               *)
(***************************************************************************)
EXTENDS Naturals

CONSTANTS
  Rooms,        \* room ids
  NoRoom,       \* the empty room id
  AttemptsMax,  \* MAX_RECOVERY_ATTEMPTS
  RunMax        \* bound: runs of the effect

ASSUME PeerRoomAssumption == NoRoom \notin Rooms /\ AttemptsMax \in Nat /\ RunMax \in Nat

VARIABLES
  relays,     \* the relay URLs are known, or the strategy needs none
  roomId,     \* the room the component asks for
  current,    \* the run of the effect that is not cancelled, 0 for none
  phase,      \* where each run stands
  waitsFor,   \* the run whose leave a run awaits, 0 for none: teardownRef when it began
  instance,   \* instanceRef: the run whose room it is, 0 for null
  teardown,   \* teardownRef: the run whose leave it is, 0 for none
  peers,      \* that room has a connected peer
  attempts,   \* recovery.attempts
  timer,      \* recovery.timer is armed
  recent,     \* the last failure is within the debounce
  rejoining,  \* the rejoin nonce has changed, the effect has not run yet
  overtaken,  \* history: runs cancelled while they joined
  spent       \* history: recoveries since the room was chosen or had a peer

effectVars == <<relays, roomId, current, phase, waitsFor, instance, teardown, overtaken>>
recoveryVars == <<attempts, timer, recent, rejoining, spent>>
peerRoomVars == <<effectVars, peers, recoveryVars>>

Runs == 1..RunMax

RoomTypeOK ==
  /\ relays \in BOOLEAN /\ roomId \in Rooms \cup {NoRoom}
  /\ current \in 0..RunMax /\ instance \in 0..RunMax /\ teardown \in 0..RunMax
  /\ phase \in [Runs -> {"unused", "awaiting", "joining", "joined", "leaving", "gone"}]
  /\ waitsFor \in [Runs -> 0..RunMax]
  /\ peers \in BOOLEAN /\ timer \in BOOLEAN /\ recent \in BOOLEAN /\ rejoining \in BOOLEAN
  /\ attempts \in 0..AttemptsMax /\ spent \in Nat
  /\ overtaken \subseteq Runs

RoomInit ==
  /\ relays \in BOOLEAN /\ roomId = NoRoom /\ current = 0 /\ instance = 0 /\ teardown = 0
  /\ phase = [g \in Runs |-> "unused"] /\ waitsFor = [g \in Runs |-> 0]
  /\ peers = FALSE /\ attempts = 0 /\ timer = FALSE /\ recent = FALSE
  /\ rejoining = FALSE /\ overtaken = {} /\ spent = 0

------------------------------------------------------------------------------------
(* The effect. *)

\* Mutant of Cleanup: the room is left, but its leave is not recorded.
CleanupUnrecorded ==
  /\ instance' = 0 /\ UNCHANGED teardown /\ peers' = FALSE
  /\ overtaken' = overtaken \cup {g \in Runs : g = current /\ phase[g] = "joining"}

\* The effect's cleanup: the room is left, and the leave recorded in teardownRef.  A run that
\* has not joined yet is cancelled and leaves by itself, without a record.
Cleanup ==
  /\ instance' = 0 /\ peers' = FALSE
  /\ teardown' = IF instance # 0 THEN instance ELSE teardown
  /\ overtaken' = overtaken \cup {g \in Runs : g = current /\ phase[g] = "joining"}

\* After a cleanup: the run of the instance leaves, and run n starts, unless it is 0.
Rerun(n) ==
  /\ current' = n
  /\ phase' = [g \in Runs |-> IF g = n THEN "awaiting"
                              ELSE IF g = instance THEN "leaving" ELSE phase[g]]
  /\ waitsFor' = [g \in Runs |-> IF g = n THEN teardown' ELSE waitsFor[g]]

Fresh(n) == phase[n] = "unused" /\ \A g \in Runs : g < n => phase[g] # "unused"

\* The effect for room r: it does nothing without a room or without relays.
Effect(r) ==
  /\ Cleanup
  /\ IF r = NoRoom \/ ~relays' THEN Rerun(0) ELSE \E n \in Runs : Fresh(n) /\ Rerun(n)

\* Another room, or none: both effects are cleaned up, and the recovery starts afresh.
Choose(r) ==
  /\ r # roomId /\ roomId' = r /\ UNCHANGED relays
  /\ Effect(r)
  /\ attempts' = 0 /\ timer' = FALSE /\ recent' = FALSE /\ rejoining' = FALSE /\ spent' = 0

\* The nonce, or another option, changes: the same room is left and joined again.
JoinAgain ==
  /\ UNCHANGED relays /\ Effect(roomId) /\ rejoining' = FALSE
  /\ UNCHANGED <<roomId, attempts, timer, recent, spent>>

\* resolveRelayUrls() answers with a relay.
RelaysKnown ==
  /\ ~relays /\ relays' = TRUE /\ Effect(roomId)
  /\ UNCHANGED <<roomId, recoveryVars>>

\* setup() goes on when the previous room has been left, unless it was cancelled.
Awaited(g) ==
  /\ phase[g] = "awaiting"
  /\ \A h \in Runs : h = waitsFor[g] => phase[h] = "gone"
  /\ phase' = [phase EXCEPT ![g] = IF g = current THEN "joining" ELSE "gone"]
  /\ UNCHANGED <<relays, roomId, current, waitsFor, instance, teardown, overtaken>>
  /\ UNCHANGED <<peers, recoveryVars>>

\* joinRoomByCode() answers.  A cancelled run leaves at once and records nothing.
Joined(g) ==
  /\ phase[g] = "joining"
  /\ IF g = current THEN /\ phase' = [phase EXCEPT ![g] = "joined"] /\ instance' = g
                    ELSE /\ phase' = [phase EXCEPT ![g] = "leaving"] /\ UNCHANGED instance
  /\ UNCHANGED <<relays, roomId, current, waitsFor, teardown, overtaken>>
  /\ UNCHANGED <<peers, recoveryVars>>

\* joinRoomByCode() rejects, and nobody hears of it.
JoinFails(g) ==
  /\ phase[g] = "joining"
  /\ phase' = [phase EXCEPT ![g] = "gone"]
  /\ UNCHANGED <<relays, roomId, current, waitsFor, instance, teardown, overtaken>>
  /\ UNCHANGED <<peers, recoveryVars>>

\* leave() has ended, well or not.
LeaveEnds(g) ==
  /\ phase[g] = "leaving"
  /\ phase' = [phase EXCEPT ![g] = "gone"]
  /\ UNCHANGED <<relays, roomId, current, waitsFor, instance, teardown, overtaken>>
  /\ UNCHANGED <<peers, recoveryVars>>

------------------------------------------------------------------------------------
(* Recovery. *)

\* The first peer connects, or the last one goes.
PeersChange ==
  /\ instance # 0 /\ peers' = ~peers
  /\ spent' = IF peers THEN spent ELSE 0
  /\ UNCHANGED <<effectVars, attempts, timer, recent, rejoining>>

\* onJoinError with a failure that calls for recovery, of a room that is still joined or being
\* left, cancelled or not; a report within the debounce changes nothing.
ScheduleRecovery(g) ==
  /\ phase[g] \in {"joined", "leaving"}
  /\ ~recent /\ recent' = TRUE
  /\ IF peers \/ timer \/ attempts >= AttemptsMax
       THEN UNCHANGED <<attempts, timer>>
       ELSE attempts' = attempts + 1 /\ timer' = TRUE
  /\ UNCHANGED <<effectVars, peers, rejoining, spent>>

DebounceEnds ==
  /\ recent /\ recent' = FALSE
  /\ UNCHANGED <<effectVars, peers, attempts, timer, rejoining, spent>>

\* The recovery timer: a peer that has connected meanwhile spares the rejoin.
TimerFires ==
  /\ timer /\ timer' = FALSE
  /\ IF peers THEN /\ attempts' = 0 /\ recent' = FALSE
                   /\ UNCHANGED <<rejoining, spent>>
              ELSE /\ rejoining' = TRUE /\ spent' = spent + 1
                   /\ UNCHANGED <<attempts, recent>>
  /\ UNCHANGED <<effectVars, peers>>

\* The effect that looks at the room every second: a peer renews the budget.
ResetAfterSuccess ==
  /\ peers /\ attempts' = 0 /\ timer' = FALSE /\ recent' = FALSE
  /\ UNCHANGED <<effectVars, peers, rejoining, spent>>

RoomNext ==
  \/ \E r \in Rooms \cup {NoRoom} : Choose(r)
  \/ JoinAgain \/ RelaysKnown
  \/ \E g \in Runs : Awaited(g) \/ Joined(g) \/ JoinFails(g) \/ LeaveEnds(g)
  \/ PeersChange
  \/ \E g \in Runs : ScheduleRecovery(g)
  \/ DebounceEnds \/ TimerFires \/ ResetAfterSuccess

RoomSpec == RoomInit /\ [][RoomNext]_peerRoomVars

------------------------------------------------------------------------------------
Busy(g) == phase[g] \in {"joining", "joined", "leaving"} /\ g \notin overtaken

\* Two runs are never in, or between, their rooms at the same time, however quickly rooms
\* and options change: a run joins after the last joined one has left.  A run that was
\* cancelled while it joined is not waited for, and excepted.
TakeTurns == \A g, h \in Runs : Busy(g) /\ Busy(h) => g = h

\* Without a peer a room is rebuilt at most MAX_RECOVERY_ATTEMPTS times, whatever late
\* reports of earlier rooms, refused timers and changes of options come between.
WithinBudget == spent + (IF timer THEN 1 ELSE 0) <= AttemptsMax

\* What the hook promises: rooms one after the other, and recovery that ends.
RoomsTakeTurns == TakeTurns /\ WithinBudget
=====================================================================================
