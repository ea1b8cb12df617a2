------------------------------- MODULE PeerRoomProofs -------------------------------
(***************************************************************************)
(* What is proved about PeerRoom: its type invariant, and that rooms take  *)
(* turns and recovery ends.                                                *)
(***************************************************************************)
EXTENDS PeerRoom, TLAPS

------------------------------------------------------------------------------------
(* Types. *)

\* The hook begins well typed.
LEMMA RoomTypesBegin == RoomInit => RoomTypeOK
<1> SUFFICES ASSUME RoomInit PROVE RoomTypeOK
  OBVIOUS
<1>1. /\ relays \in BOOLEAN /\ peers \in BOOLEAN /\ timer \in BOOLEAN /\ recent \in BOOLEAN
      /\ rejoining \in BOOLEAN
  BY Zenon DEF RoomInit
<1>2. /\ roomId \in Rooms \cup {NoRoom} /\ current \in 0..RunMax /\ instance \in 0..RunMax
      /\ teardown \in 0..RunMax /\ attempts \in 0..AttemptsMax /\ spent \in Nat
  BY PeerRoomAssumption DEF RoomInit
<1>3. 0 \in 0..RunMax
  BY PeerRoomAssumption
<1>4. /\ phase \in [Runs -> {"unused", "awaiting", "joining", "joined", "leaving", "gone"}]
      /\ waitsFor \in [Runs -> 0..RunMax] /\ overtaken \subseteq Runs
  BY <1>3, Zenon DEF RoomInit
<1> QED BY <1>1, <1>2, <1>4 DEF RoomTypeOK

\* A cleanup keeps what it writes well typed.
LEMMA CleanupTypes ==
  RoomTypeOK /\ Cleanup => /\ instance' = 0 /\ peers' = FALSE
                       /\ teardown' \in 0..RunMax /\ overtaken' \subseteq Runs
BY PeerRoomAssumption DEF RoomTypeOK, Cleanup, Runs

\* So does the start of a run.
LEMMA RerunTypes ==
  ASSUME RoomTypeOK, NEW n \in 0..RunMax, teardown' \in 0..RunMax, Rerun(n)
  PROVE  /\ current' \in 0..RunMax /\ waitsFor' \in [Runs -> 0..RunMax]
         /\ phase' \in [Runs -> {"unused", "awaiting", "joining", "joined", "leaving", "gone"}]
BY DEF RoomTypeOK, Rerun, Runs

\* And so the whole effect.
LEMMA EffectTypes ==
  ASSUME RoomTypeOK, NEW r \in Rooms \cup {NoRoom}, Effect(r)
  PROVE  /\ instance' \in 0..RunMax /\ peers' \in BOOLEAN
         /\ teardown' \in 0..RunMax /\ overtaken' \subseteq Runs
         /\ current' \in 0..RunMax /\ waitsFor' \in [Runs -> 0..RunMax]
         /\ phase' \in [Runs -> {"unused", "awaiting", "joining", "joined", "leaving", "gone"}]
<1>1. Runs \subseteq 0..RunMax /\ 0 \in 0..RunMax
  BY PeerRoomAssumption DEF Runs
<1>2. /\ instance' = 0 /\ peers' = FALSE
      /\ teardown' \in 0..RunMax /\ overtaken' \subseteq Runs
  BY CleanupTypes DEF Effect
<1>3. PICK n \in 0..RunMax : Rerun(n)
  BY <1>1 DEF Effect
<1>4. /\ current' \in 0..RunMax /\ waitsFor' \in [Runs -> 0..RunMax]
      /\ phase' \in [Runs -> {"unused", "awaiting", "joining", "joined", "leaving", "gone"}]
  BY <1>2, <1>3, RerunTypes
<1> QED BY <1>1, <1>2, <1>4

\* Every step keeps the types.
LEMMA RoomTypesStep == RoomTypeOK /\ [RoomNext]_peerRoomVars => RoomTypeOK'
<1> SUFFICES ASSUME RoomTypeOK, [RoomNext]_peerRoomVars PROVE RoomTypeOK'
  OBVIOUS
<1> USE PeerRoomAssumption DEF RoomTypeOK
<1>0. Runs \subseteq 0..RunMax /\ 0 \in 0..RunMax
  BY DEF Runs
<1>1. ASSUME NEW r \in Rooms \cup {NoRoom}, Choose(r) PROVE RoomTypeOK'
  <2>1. /\ roomId' = r /\ attempts' = 0 /\ spent' = 0 /\ relays' = relays
        /\ timer' = FALSE /\ recent' = FALSE /\ rejoining' = FALSE
    BY <1>1 DEF Choose
  <2>2. /\ roomId' \in Rooms \cup {NoRoom} /\ attempts' \in 0..AttemptsMax /\ spent' \in Nat
    BY <2>1
  <2>3. relays' \in BOOLEAN /\ timer' \in BOOLEAN /\ recent' \in BOOLEAN /\ rejoining' \in BOOLEAN
    BY <2>1, Zenon
  <2> QED BY <1>1, <2>2, <2>3, EffectTypes DEF Choose
<1>2. CASE JoinAgain
  <2>1. rejoining' = FALSE /\ UNCHANGED <<relays, roomId, attempts, timer, recent, spent>>
    BY <1>2 DEF JoinAgain
  <2> QED BY <1>2, <2>1, EffectTypes DEF JoinAgain
<1>10. CASE RelaysKnown
  <2>1. relays' = TRUE /\ UNCHANGED <<roomId, attempts, timer, recent, rejoining, spent>>
    BY <1>10 DEF RelaysKnown, recoveryVars
  <2> QED BY <1>10, <2>1, EffectTypes DEF RelaysKnown
<1>3. ASSUME NEW g \in Runs, Awaited(g) PROVE RoomTypeOK'
  BY <1>3 DEF Awaited, recoveryVars
<1>4. ASSUME NEW g \in Runs, Joined(g) PROVE RoomTypeOK'
  BY <1>0, <1>4 DEF Joined, recoveryVars
<1>5. ASSUME NEW g \in Runs, JoinFails(g) \/ LeaveEnds(g) PROVE RoomTypeOK'
  BY <1>5 DEF JoinFails, LeaveEnds, recoveryVars
<1>6. CASE PeersChange
  BY <1>6 DEF PeersChange, effectVars
<1>7. ASSUME NEW g \in Runs, ScheduleRecovery(g) PROVE RoomTypeOK'
  <2>1. recent' = TRUE /\ UNCHANGED effectVars /\ UNCHANGED <<peers, rejoining, spent>>
    BY <1>7 DEF ScheduleRecovery
  <2>2. attempts' \in 0..AttemptsMax
    BY <1>7 DEF ScheduleRecovery
  <2>3. timer' \in BOOLEAN
    BY <1>7, Zenon DEF ScheduleRecovery
  <2> QED BY <2>1, <2>2, <2>3 DEF effectVars
<1>8. CASE DebounceEnds \/ TimerFires \/ ResetAfterSuccess
  <2>1. attempts' \in 0..AttemptsMax /\ spent' \in Nat /\ UNCHANGED <<effectVars, peers>>
    BY <1>8 DEF DebounceEnds, TimerFires, ResetAfterSuccess
  <2>2. timer' \in BOOLEAN /\ recent' \in BOOLEAN /\ rejoining' \in BOOLEAN
    BY <1>8, Zenon DEF DebounceEnds, TimerFires, ResetAfterSuccess
  <2> QED BY <2>1, <2>2 DEF effectVars
<1>9. CASE UNCHANGED peerRoomVars
  BY <1>9 DEF peerRoomVars, effectVars, recoveryVars
<1> QED BY <1>1, <1>2, <1>3, <1>4, <1>5, <1>6, <1>7, <1>8, <1>9, <1>10 DEF RoomNext

\* Every reachable state of the hook is well typed, for any rooms and bounds.
THEOREM RoomTypeCorrect == RoomSpec => []RoomTypeOK
BY RoomTypesBegin, RoomTypesStep, PTL DEF RoomSpec

------------------------------------------------------------------------------------
(* Turns. *)

\* Where the runs that are in a room stand: the joined one is the instance, the one that
\* leaves is what teardownRef speaks of, the one that joins is not cancelled; and while one
\* joins or has joined, the last leave has ended.
Turns ==
  /\ instance # 0 => instance = current /\ phase[instance] = "joined"
  /\ teardown # 0 => phase[teardown] \in {"leaving", "gone"}
  /\ \A g \in Runs : phase[g] = "joined" => g = instance
  /\ \A g \in Runs : phase[g] = "leaving" /\ g \notin overtaken => g = teardown
  /\ \A g \in Runs : phase[g] = "joining" /\ g \notin overtaken => g = current
  /\ \A g \in Runs : g = current /\ phase[g] = "awaiting" => waitsFor[g] = teardown
  /\ \A g \in Runs : /\ g = current /\ phase[g] \in {"joining", "joined"} /\ teardown # 0
                     => phase[teardown] = "gone"

\* It holds before the first room.
LEMMA TurnsBegin == RoomInit => Turns
BY DEF RoomInit, Turns, Runs

\* A cleanup followed by a new run, or by none, keeps it.
LEMMA TurnsRerun ==
  ASSUME RoomTypeOK, Turns, NEW n \in 0..RunMax, Cleanup, Rerun(n), n # 0 => Fresh(n)
  PROVE  Turns'
<1> USE PeerRoomAssumption DEF RoomTypeOK
<1>1. /\ instance' = 0 /\ teardown' = IF instance # 0 THEN instance ELSE teardown
      /\ overtaken' = overtaken \cup {g \in Runs : g = current /\ phase[g] = "joining"}
  BY DEF Cleanup
<1>2. /\ current' = n
      /\ \A g \in Runs : phase'[g] = IF g = n THEN "awaiting"
                                     ELSE IF g = instance THEN "leaving" ELSE phase[g]
      /\ \A g \in Runs : g = n => waitsFor'[g] = teardown'
  BY DEF Rerun
<1>3. n \in Runs => phase[n] = "unused"
  BY DEF Fresh, Runs
<1>4. instance \in Runs => instance = current /\ phase[instance] = "joined"
  BY DEF Turns, Runs
<1>5. teardown' # 0 => phase'[teardown'] \in {"leaving", "gone"}
  BY <1>1, <1>2, <1>3, <1>4 DEF Turns, Runs
<1>6. \A g \in Runs : phase'[g] # "joined"
  BY <1>2, <1>4 DEF Turns
<1>7. ASSUME NEW g \in Runs, phase'[g] = "leaving", g \notin overtaken' PROVE g = teardown'
  <2>1. CASE g = instance
    BY <1>1, <2>1 DEF Runs
  <2>2. CASE g # instance
    <3>1. phase[g] = "leaving" /\ g = teardown
      BY <1>1, <1>2, <1>7, <2>2 DEF Turns
    <3>2. instance = 0
      BY <3>1, <1>4 DEF Turns, Runs
    <3> QED BY <1>1, <3>1, <3>2
  <2> QED BY <2>1, <2>2
<1>8. ASSUME NEW g \in Runs, phase'[g] = "joining" PROVE g \in overtaken'
  <2>1. phase[g] = "joining"
    BY <1>2, <1>8
  <2> QED BY <1>1, <2>1 DEF Turns
<1> QED BY <1>1, <1>2, <1>5, <1>6, <1>7, <1>8 DEF Turns, Runs

\* So does the effect.
LEMMA TurnsEffect ==
  ASSUME RoomTypeOK, Turns, NEW r \in Rooms \cup {NoRoom}, Effect(r)
  PROVE  Turns'
<1>1. Runs \subseteq 0..RunMax /\ 0 \in 0..RunMax
  BY PeerRoomAssumption DEF Runs
<1>2. PICK n \in 0..RunMax : Rerun(n) /\ (n # 0 => Fresh(n))
  BY <1>1 DEF Effect
<1> QED BY <1>2, TurnsRerun DEF Effect

\* Every step keeps it.
LEMMA TurnsStep == RoomTypeOK /\ Turns /\ [RoomNext]_peerRoomVars => Turns'
<1> SUFFICES ASSUME RoomTypeOK, Turns, [RoomNext]_peerRoomVars PROVE Turns'
  OBVIOUS
<1> USE PeerRoomAssumption DEF RoomTypeOK
<1>0. Runs \subseteq 0..RunMax /\ 0 \in 0..RunMax /\ 0 \notin Runs
  BY DEF Runs
<1>1. ASSUME NEW r \in Rooms \cup {NoRoom}, Choose(r) PROVE Turns'
  BY <1>1, TurnsEffect DEF Choose
<1>2. CASE JoinAgain \/ RelaysKnown
  BY <1>2, TurnsEffect DEF JoinAgain, RelaysKnown
<1>3. ASSUME NEW g \in Runs, Awaited(g) PROVE Turns'
  <2>1. /\ phase[g] = "awaiting" /\ \A h \in Runs : h = waitsFor[g] => phase[h] = "gone"
        /\ phase' = [phase EXCEPT ![g] = IF g = current THEN "joining" ELSE "gone"]
        /\ UNCHANGED <<current, waitsFor, instance, teardown, overtaken>>
    BY <1>3 DEF Awaited
  <2>2. teardown # 0 => teardown \in Runs /\ teardown # g
    BY <2>1 DEF Turns, Runs
  <2>3. instance # g
    BY <1>0, <2>1 DEF Turns
  <2> QED BY <1>0, <2>1, <2>2, <2>3 DEF Turns, Runs
<1>4. ASSUME NEW g \in Runs, Joined(g) PROVE Turns'
  <2>1. phase[g] = "joining" /\ UNCHANGED <<current, waitsFor, teardown, overtaken>>
    BY <1>4 DEF Joined
  <2>2. teardown # 0 => teardown \in Runs /\ teardown # g
    BY <2>1 DEF Turns, Runs
  <2>3. instance # g
    BY <1>0, <2>1 DEF Turns
  <2>4. CASE g = current
    <3>1. phase' = [phase EXCEPT ![g] = "joined"] /\ instance' = g
      BY <1>4, <2>4 DEF Joined
    <3>2. \A h \in Runs : phase[h] # "joined"
      BY <1>0, <2>1, <2>3, <2>4 DEF Turns
    <3> QED BY <1>0, <2>1, <2>2, <2>4, <3>1, <3>2 DEF Turns, Runs
  <2>5. CASE g # current
    <3>1. phase' = [phase EXCEPT ![g] = "leaving"] /\ instance' = instance /\ g \in overtaken
      BY <1>4, <2>1, <2>5 DEF Joined, Turns
    <3> QED BY <1>0, <2>1, <2>2, <2>3, <2>5, <3>1 DEF Turns, Runs
  <2> QED BY <2>4, <2>5
<1>5. ASSUME NEW g \in Runs, JoinFails(g) \/ LeaveEnds(g) PROVE Turns'
  <2>1. /\ phase[g] \in {"joining", "leaving"} /\ phase' = [phase EXCEPT ![g] = "gone"]
        /\ UNCHANGED <<current, waitsFor, instance, teardown, overtaken>>
    BY <1>5 DEF JoinFails, LeaveEnds
  <2>2. instance # g
    BY <1>0, <2>1 DEF Turns
  <2> QED BY <1>0, <2>1, <2>2 DEF Turns, Runs
<1>6. ASSUME UNCHANGED effectVars PROVE Turns'
  BY <1>6 DEF Turns, effectVars
<1> QED
  BY <1>1, <1>2, <1>3, <1>4, <1>5, <1>6
     DEF RoomNext, PeersChange, ScheduleRecovery, DebounceEnds, TimerFires, ResetAfterSuccess,
         peerRoomVars

------------------------------------------------------------------------------------
(* The budget of recoveries. *)

\* What was spent, and what the armed timer will spend, has been counted; with a peer nothing
\* has been spent, so that the count may start afresh.
Budget ==
  /\ spent + (IF timer THEN 1 ELSE 0) <= attempts
  /\ peers => spent = 0

\* Nothing is spent at first, and every step counts.
LEMMA BudgetStep ==
  /\ RoomInit => Budget
  /\ RoomTypeOK /\ Budget /\ [RoomNext]_peerRoomVars => Budget'
<1>1. RoomInit => Budget
  BY DEF RoomInit, Budget
<1>2. ASSUME RoomTypeOK, Budget, [RoomNext]_peerRoomVars PROVE Budget'
  <2> USE <1>2, PeerRoomAssumption DEF RoomTypeOK, Budget
  <2>1. ASSUME NEW r \in Rooms \cup {NoRoom}, Choose(r) PROVE Budget'
    BY <2>1 DEF Choose, Effect, Cleanup
  <2>2. CASE JoinAgain \/ RelaysKnown
    BY <2>2 DEF JoinAgain, RelaysKnown, recoveryVars, Effect, Cleanup
  <2>3. CASE PeersChange
    BY <2>3 DEF PeersChange
  <2>4. ASSUME NEW g \in Runs, ScheduleRecovery(g) PROVE Budget'
    BY <2>4 DEF ScheduleRecovery
  <2>5. CASE TimerFires
    BY <2>5 DEF TimerFires
  <2>6. CASE ResetAfterSuccess \/ DebounceEnds
    BY <2>6 DEF ResetAfterSuccess, DebounceEnds
  <2>7. ASSUME UNCHANGED <<peers, attempts, timer, spent>> PROVE Budget'
    BY <2>7
  <2> QED
    BY <2>1, <2>2, <2>3, <2>4, <2>5, <2>6, <2>7
       DEF RoomNext, Awaited, Joined, JoinFails, LeaveEnds, peerRoomVars, recoveryVars
<1> QED BY <1>1, <1>2

\* Both parts of the property follow.
LEMMA TurnsTaken == RoomTypeOK /\ Turns /\ Budget => RoomsTakeTurns
<1> SUFFICES ASSUME RoomTypeOK, Turns, Budget PROVE TakeTurns /\ WithinBudget
  BY DEF RoomsTakeTurns
<1>1. ASSUME NEW g \in Runs, NEW h \in Runs, Busy(g), Busy(h) PROVE g = h
  BY <1>1 DEF Busy, Turns, Runs
<1>2. WithinBudget
  BY PeerRoomAssumption DEF WithinBudget, Budget, RoomTypeOK
<1> QED BY <1>1, <1>2 DEF TakeTurns

\* The hook is never in two rooms, nor between two, at a time, but for a join that was
\* cancelled under way, and it rebuilds a room without peers at most MAX_RECOVERY_ATTEMPTS
\* times; for any rooms, bounds and order of events.
THEOREM OneRoomAtATime == RoomSpec => []RoomsTakeTurns
<1>1. RoomInit => RoomTypeOK /\ Turns /\ Budget
  BY RoomTypesBegin, TurnsBegin, BudgetStep
<1>2. RoomTypeOK /\ Turns /\ Budget /\ [RoomNext]_peerRoomVars => (RoomTypeOK /\ Turns /\ Budget)'
  BY RoomTypesStep, TurnsStep, BudgetStep
<1> QED BY <1>1, <1>2, TurnsTaken, PTL DEF RoomSpec
=====================================================================================
