---------------------------- MODULE ChannelClientProofs ----------------------------
(***************************************************************************)
(* What is proved about ChannelClient: its type invariant, that a room     *)
(* keeps trying, and that the channel client implements the command        *)
(* service.                                                                *)
(***************************************************************************)
EXTENDS ChannelClient, TLAPS, FiniteSetTheorems, SequenceTheorems

\* What the channel may answer.
Answers == {<<"snapshot">>} \cup ({"ack", "error"} \X Ids)

------------------------------------------------------------------------------------
(* Sequences. *)

\* The entries of a sequence with one appended.
LEMMA Appended ==
  ASSUME NEW S, NEW q \in Seq(S), NEW x \in S
  PROVE  /\ Append(q, x) \in Seq(S)
         /\ \A i \in DOMAIN Append(q, x) :
              Append(q, x)[i] = x \/ (i \in DOMAIN q /\ Append(q, x)[i] = q[i])
  OBVIOUS

\* The entries of what follows the first.
LEMMA Rest ==
  ASSUME NEW S, NEW q \in Seq(S), q # <<>>
  PROVE  /\ Tail(q) \in Seq(S) /\ Head(q) \in S
         /\ 1 \in DOMAIN q /\ Head(q) = q[1]
         /\ \A i \in DOMAIN Tail(q) : i + 1 \in DOMAIN q /\ Tail(q)[i] = q[i + 1]
  OBVIOUS

\* The entries of one sequence after another.
LEMMA Concatenated ==
  ASSUME NEW S, NEW q \in Seq(S), NEW r \in Seq(S)
  PROVE  /\ q \o r \in Seq(S)
         /\ \A i \in DOMAIN (q \o r) :
              \/ i \in DOMAIN q /\ (q \o r)[i] = q[i]
              \/ \E j \in DOMAIN r : (q \o r)[i] = r[j]
  <1>1. q \o r \in Seq(S)
    OBVIOUS
  <1>2. ASSUME NEW i \in DOMAIN (q \o r)
        PROVE  \/ i \in DOMAIN q /\ (q \o r)[i] = q[i]
               \/ \E j \in DOMAIN r : (q \o r)[i] = r[j]
    <2>1. Len(q) \in Nat /\ Len(r) \in Nat /\ Len(q \o r) = Len(q) + Len(r)
      OBVIOUS
    <2>2. i \in 1..(Len(q) + Len(r))
      BY <2>1, <1>1
    <2>3. CASE i <= Len(q)
      BY <2>1, <2>2, <2>3
    <2>4. CASE i > Len(q)
      <3>1. i - Len(q) \in DOMAIN r /\ (q \o r)[i] = r[i - Len(q)]
        BY <2>1, <2>2, <2>4
      <3> QED
        BY <3>1
    <2> QED
      BY <2>1, <2>2, <2>3, <2>4
  <1> QED
    BY <1>1, <1>2

------------------------------------------------------------------------------------
(* Types. *)

\* The map is finite: every call adds one.
Types == TypeOK /\ IsFiniteSet(outbound)

\* A replay sends every message of the map once.
LEMMA Replayed ==
  ASSUME IsFiniteSet(outbound), outbound \subseteq Ids, NEW order \in Orders(outbound)
  PROVE  order \in Seq(Ids) /\ \A i \in DOMAIN order : order[i] \in outbound
  <1>1. Cardinality(outbound) \in Nat
    BY FS_CardinalityType
  <1>2. order \in [1..Cardinality(outbound) -> outbound]
    BY DEF Orders
  <1>3. order \in Seq(outbound)
    <2> DEFINE n == Cardinality(outbound)
    <2> HIDE DEF n
    <2> QED
      BY <1>1, <1>2, SMT
  <1> QED
    BY <1>2, <1>3

\* ScheduleReconnect only arms.
LEMMA Scheduled ==
  ASSUME TypeOK, ScheduleReconnect
  PROVE  /\ redial' \in BOOLEAN /\ chained' \in BOOLEAN
         /\ redial => redial'
         /\ ~Closed /\ connecting = "no" => redial'
  BY DEF TypeOK, ScheduleReconnect, Closed

\* ConnectFails leaves a room that tries again, if it was not left.
LEMMA Failed ==
  ASSUME TypeOK, ConnectFails
  PROVE  /\ room' \in {"opening", "open", "again", "left"} /\ connecting' = "no"
         /\ chained' \in BOOLEAN /\ redial' \in BOOLEAN
         /\ link' = link \/ link' = 0
         /\ room' # "left" => redial' \/ room' = "again"
  BY DEF TypeOK, ConnectFails

\* The types hold in the beginning.
LEMMA TypesBegin == Init => Types
  <1> SUFFICES ASSUME Init PROVE Types
    OBVIOUS
  <1>1. IsFiniteSet(outbound)
    BY FS_EmptySet DEF Init
  <1>2. TypeOK
    <2>1. 0 \in 0..LinkMax /\ 0 \in 0..RefusalMax /\ 0 \in 0..SendMax
      BY ChannelClientAssumption DEF ChannelClientAssumption
    <2>2. frames \in [Links -> Seq(Ids)] /\ replies \in [Links -> Seq(Answers)]
      <3>1. <<>> \in Seq(Ids) /\ <<>> \in Seq(Answers)
        OBVIOUS
      <3> QED
        BY <3>1 DEF Init
    <2> QED
      BY <2>1, <2>2 DEF Init, TypeOK, Service!Outcomes, Answers
  <1> QED
    BY <1>1, <1>2 DEF Types

\* Every step keeps the types.
LEMMA TypesStep ==
  ASSUME Types, [Next]_channelClientVars
  PROVE  Types'
  <1> USE DEF Types
  <1>f. TypeOK /\ IsFiniteSet(outbound)
    OBVIOUS
  <1>0. 0 \in 0..LinkMax
    BY ChannelClientAssumption DEF ChannelClientAssumption
  <1>1. CASE UNCHANGED channelClientVars
    BY <1>1 DEF TypeOK, channelClientVars, connVars, sendVars, farVars
  <1>2. CASE OpenAgain
    BY <1>2 DEF TypeOK, OpenAgain, sendVars, farVars
  <1>3. CASE RedialFires
    BY <1>3 DEF TypeOK, RedialFires, sendVars, farVars
  <1>4. CASE AuthorizeFails
    <2>1. refusals' \in 0..RefusalMax
      BY <1>4, ChannelClientAssumption DEF TypeOK, AuthorizeFails, Refusal, ChannelClientAssumption
    <2>2. ConnectFails /\ UNCHANGED <<near, history, sendVars, farVars>>
      BY <1>4 DEF AuthorizeFails
    <2> QED
      BY <1>f, <1>0, <2>1, <2>2, Failed DEF TypeOK, sendVars, farVars
  <1>5. CASE ConnectTimesOut
    <2>1. /\ ConnectFails /\ UNCHANGED <<history, sendVars, farVars, refusals>>
          /\ near' = [near EXCEPT ![link] = "closing"]
      BY <1>5 DEF ConnectTimesOut
    <2> QED
      BY <1>f, <1>0, <2>1, Failed DEF TypeOK, sendVars, farVars
  <1>6. CASE Leave
    <2>1. IsFiniteSet(outbound')
      BY <1>6, FS_EmptySet DEF Leave
    <2>2. told' \in [Ids -> Service!Outcomes]
      BY <1>6 DEF Leave, Tell, TypeOK, Service!Outcomes
    <2> QED
      BY <1>6, <1>0, <2>1, <2>2 DEF TypeOK, Leave, farVars
  <1>7. ASSUME NEW s \in Links, Dials(s) PROVE Types'
    BY <1>7 DEF TypeOK, Dials, sendVars, farVars, Links
  <1>8. ASSUME NEW s \in Links, Opens(s) PROVE Types'
    BY <1>8 DEF TypeOK, Opens, sendVars
  <1>9. ASSUME NEW s \in Links, Closes(s) PROVE Types'
    <2>1. /\ near' \in [Links -> {"unused", "dialing", "open", "closing", "closed"}]
          /\ replies' \in [Links -> Seq(Answers)]
      BY <1>9 DEF TypeOK, Closes, Answers
    <2>2. /\ UNCHANGED <<history, far, frames, accepted, sendVars, refusals>>
      BY <1>9 DEF Closes
    <2>3. /\ room' \in {"opening", "open", "again", "left"}
          /\ connecting' \in {"no", "authorize", "socket"}
          /\ chained' \in BOOLEAN /\ redial' \in BOOLEAN /\ link' \in 0..LinkMax
      <3>2. CASE connecting = "socket" /\ link = s
        BY <1>9, <1>0, <3>2 DEF TypeOK, Closes
      <3>3. CASE ~(connecting = "socket" /\ link = s) /\ link = s
        BY <1>9, <1>0, <3>3, Scheduled DEF TypeOK, Closes
      <3>4. CASE link # s
        BY <1>9, <3>4 DEF TypeOK, Closes
      <3> QED
        BY <3>2, <3>3, <3>4
    <2> QED
      BY <2>1, <2>2, <2>3 DEF TypeOK, sendVars, Answers
  <1>10. ASSUME NEW s \in Links, Receive(s) PROVE Types'
    <2> DEFINE f == Head(replies[s])
    <2>1. replies[s] \in Seq(Answers) /\ replies[s] # <<>>
      BY <1>10 DEF Receive, TypeOK, Answers
    <2>2. Tail(replies[s]) \in Seq(Answers) /\ f \in Answers
      BY <2>1, Rest
    <2>3. replies' \in [Links -> Seq(Answers)]
      BY <1>10, <2>2 DEF Receive, TypeOK, Answers
    <2>4. history' \in [Links -> {"none", "reading", "read"}]
      BY <1>10 DEF Receive, TypeOK
    <2>5. /\ outbound' \subseteq outbound
          /\ outbound' = outbound \/ outbound' = outbound \ {f[2]}
          /\ told' \in [Ids -> Service!Outcomes]
      BY <1>10 DEF Receive, Settle, Tell, TypeOK, Service!Outcomes
    <2>6. IsFiniteSet(outbound')
      BY <2>5, FS_Subset
    <2> QED
      BY <1>10, <2>3, <2>4, <2>5, <2>6 DEF Receive, TypeOK, Answers
  <1>11. ASSUME NEW s \in Links, HistoryRead(s) PROVE Types'
    <2>1. frames' \in [Links -> Seq(Ids)]
      <3>1. CASE UNCHANGED frames
        BY <3>1 DEF TypeOK
      <3>2. ASSUME NEW order \in Orders(outbound),
                   frames' = [frames EXCEPT ![s] = @ \o order]
            PROVE  frames' \in [Links -> Seq(Ids)]
        <4>1. order \in Seq(Ids)
          BY Replayed DEF TypeOK
        <4>2. frames[s] \in Seq(Ids)
          BY DEF TypeOK
        <4>3. frames[s] \o order \in Seq(Ids)
          BY <4>1, <4>2, Concatenated
        <4> QED
          BY <3>2, <4>3 DEF TypeOK
      <3> QED
        BY <1>11, <3>1, <3>2 DEF HistoryRead
    <2> QED
      BY <1>11, <2>1 DEF TypeOK, HistoryRead, sendVars
  <1>12. ASSUME NEW s \in Links, Binds(s) PROVE Types'
    <2>1. <<<<"snapshot">>>> \in Seq(Answers)
      BY DEF Answers
    <2>2. replies' \in [Links -> Seq(Answers)]
      BY <1>12, <2>1 DEF TypeOK, Binds, Answers
    <2> QED
      BY <1>12, <2>2 DEF TypeOK, Binds, connVars, sendVars, Answers
  <1>13. ASSUME NEW s \in Links, Handles(s) PROVE Types'
    <2> DEFINE m == Head(frames[s])
    <2>1. frames[s] \in Seq(Ids) /\ frames[s] # <<>>
      BY <1>13 DEF Handles, TypeOK
    <2>2. Tail(frames[s]) \in Seq(Ids) /\ m \in Ids
      BY <2>1, Rest
    <2>3. frames' \in [Links -> Seq(Ids)]
      BY <1>13, <2>2 DEF Handles, TypeOK
    <2> HIDE DEF m
    <2>4. PICK kind \in {"ack", "error"} :
            /\ IF kind = "ack" THEN accepted' = accepted \cup {m} /\ UNCHANGED refusals
                               ELSE Refusal /\ UNCHANGED accepted
            /\ replies' = IF near[s] = "open"
                            THEN [replies EXCEPT ![s] = Append(@, <<kind, m>>)] ELSE replies
      BY <1>13 DEF Handles, m
    <2>5. accepted' \subseteq Ids /\ refusals' \in 0..RefusalMax
      BY <2>2, <2>4, ChannelClientAssumption DEF TypeOK, Refusal, ChannelClientAssumption
    <2>6. replies' \in [Links -> Seq(Answers)]
      <3>1. <<kind, m>> \in Answers
        BY <2>2 DEF Answers
      <3>2. replies \in [Links -> Seq(Answers)]
        BY DEF TypeOK, Answers
      <3>3. Append(replies[s], <<kind, m>>) \in Seq(Answers)
        BY <3>1, <3>2, Appended
      <3> QED
        BY <2>4, <3>2, <3>3
    <2> QED
      BY <1>13, <2>3, <2>5, <2>6 DEF Handles, TypeOK, connVars, sendVars, Answers
  <1>14. ASSUME NEW s \in Links, Drops(s) PROVE Types'
    BY <1>14 DEF TypeOK, Drops, connVars, sendVars
  <1>15. ASSUME NEW m \in Ids, Send(m) PROVE Types'
    <2>1. told' \in [Ids -> Service!Outcomes]
      BY <1>15 DEF Send, Tell, TypeOK, Service!Outcomes
    <2> QED
      BY <1>15, <2>1, ChannelClientAssumption
      DEF TypeOK, Send, connVars, farVars, ChannelClientAssumption
  <1>16. ASSUME NEW m \in Ids, Encrypted(m) PROVE Types'
    <2>1. told' \in [Ids -> Service!Outcomes]
      BY <1>16 DEF Encrypted, Tell, TypeOK, Service!Outcomes
    <2>2. outbound' \subseteq Ids /\ IsFiniteSet(outbound')
      <3>1. outbound' = outbound \/ outbound' = outbound \cup {m}
        BY <1>16 DEF Encrypted
      <3>2. IsFiniteSet(outbound \cup {m})
        BY FS_AddElement
      <3> QED
        BY <3>1, <3>2 DEF TypeOK
    <2>3. frames' \in [Links -> Seq(Ids)]
      <3>1. CASE UNCHANGED frames
        BY <3>1 DEF TypeOK
      <3>2. CASE SocketOpen /\ frames' = [frames EXCEPT ![link] = Append(@, m)]
        <4>1. link \in Links /\ frames[link] \in Seq(Ids)
          BY <3>2 DEF SocketOpen, TypeOK, Links
        <4>2. Append(frames[link], m) \in Seq(Ids)
          BY <4>1, Appended
        <4> QED
          BY <3>2, <4>2 DEF TypeOK
      <3> QED
        BY <1>16, <3>1, <3>2 DEF Encrypted
    <2>4. redial' \in BOOLEAN /\ chained' \in BOOLEAN
      BY <1>f, <1>16, Scheduled DEF Encrypted, TypeOK
    <2> QED
      BY <1>16, <2>1, <2>2, <2>3, <2>4 DEF TypeOK, Encrypted
  <1>17. ASSUME NEW m \in Ids, AckTimesOut(m) PROVE Types'
    <2>1. /\ told' \in [Ids -> Service!Outcomes] /\ outbound' \subseteq Ids
          /\ outbound' = outbound \ {m}
      BY <1>17 DEF AckTimesOut, Settle, Tell, TypeOK, Service!Outcomes
    <2>2. IsFiniteSet(outbound')
      BY <2>1, FS_Subset
    <2> QED
      BY <1>17, <2>1, <2>2 DEF TypeOK, AckTimesOut, connVars, farVars
  <1> QED
    BY <1>1, <1>2, <1>3, <1>4, <1>5, <1>6, <1>7, <1>8, <1>9, <1>10, <1>11, <1>12, <1>13, <1>14,
       <1>15, <1>16, <1>17 DEF Next

\* TypeOK: the variables of ChannelClient hold what their comments say.
THEOREM TypeCorrect == Spec => []TypeOK
  <1>1. Spec => []Types
    BY TypesBegin, TypesStep, PTL DEF Spec
  <1>2. Types => TypeOK
    BY DEF Types
  <1> QED
    BY <1>1, <1>2, PTL

------------------------------------------------------------------------------------
(* A room keeps trying. *)

\* The socket in hand was made and has not closed: its close event lets go of it.
LinkLives == link # 0 => near[link] \notin {"unused", "closed"}

\* KeepsTrying with what makes it inductive.
Tries == TypeOK /\ LinkLives /\ KeepsTrying

\* It does in the beginning.
LEMMA TriesBegin == Init => LinkLives /\ KeepsTrying
  BY DEF Init, LinkLives, KeepsTrying

\* A step that leaves the connection alone.
LEMMA ConnectionLeft ==
  ASSUME Tries, UNCHANGED <<room, connecting, link, near>>, redial => redial'
  PROVE  (LinkLives /\ KeepsTrying)'
  BY DEF Tries, LinkLives, KeepsTrying

\* Every step keeps the room on its way, or leaves it.
LEMMA TriesStep ==
  ASSUME Tries, [Next]_channelClientVars
  PROVE  (LinkLives /\ KeepsTrying)'
  <1>f. TypeOK /\ LinkLives /\ KeepsTrying
    BY DEF Tries
  <1>1. CASE UNCHANGED channelClientVars
    BY <1>1, ConnectionLeft DEF channelClientVars, connVars
  <1>2. CASE OpenAgain
    BY <1>f, <1>2 DEF OpenAgain, LinkLives, KeepsTrying
  <1>3. CASE RedialFires
    BY <1>f, <1>3 DEF RedialFires, Closed, TypeOK, LinkLives, KeepsTrying
  <1>4. CASE AuthorizeFails
    <2>1. ConnectFails /\ UNCHANGED near
      BY <1>4 DEF AuthorizeFails
    <2> QED
      BY <1>f, <2>1, Failed DEF LinkLives, KeepsTrying
  <1>5. CASE ConnectTimesOut
    <2>1. ConnectFails /\ link # 0 /\ near' = [near EXCEPT ![link] = "closing"]
      BY <1>5 DEF ConnectTimesOut
    <2>2. link' # 0 => near'[link'] = "closing"
      BY <1>f, <2>1, Failed DEF TypeOK, Links
    <2> QED
      BY <1>f, <2>1, <2>2, Failed DEF LinkLives, KeepsTrying
  <1>6. CASE Leave
    BY <1>6 DEF Leave, LinkLives, KeepsTrying
  <1>7. ASSUME NEW s \in Links, Dials(s) PROVE (LinkLives /\ KeepsTrying)'
    BY <1>f, <1>7 DEF Dials, LinkLives, KeepsTrying, TypeOK
  <1>8. ASSUME NEW s \in Links, Opens(s) PROVE (LinkLives /\ KeepsTrying)'
    BY <1>f, <1>8 DEF Opens, LinkLives, KeepsTrying, TypeOK, Links
  <1>9. ASSUME NEW s \in Links, Closes(s) PROVE (LinkLives /\ KeepsTrying)'
    <2>1. CASE connecting = "socket" /\ link = s
      BY <1>f, <1>9, <2>1 DEF Closes, LinkLives, KeepsTrying, TypeOK
    <2>2. CASE connecting # "socket" /\ link = s
      <3>1. link' = 0 /\ ScheduleReconnect /\ UNCHANGED <<room, connecting>>
        BY <1>9, <2>2 DEF Closes
      <3> QED
        BY <1>f, <3>1, Scheduled DEF Closed, LinkLives, KeepsTrying
    <2>3. CASE link # s
      BY <1>f, <1>9, <2>3 DEF Closes, LinkLives, KeepsTrying, TypeOK, Links
    <2> QED
      BY <2>1, <2>2, <2>3
  <1>10. ASSUME NEW s \in Links, Receive(s) PROVE (LinkLives /\ KeepsTrying)'
    BY <1>10, ConnectionLeft DEF Receive
  <1>11. ASSUME NEW s \in Links, HistoryRead(s) PROVE (LinkLives /\ KeepsTrying)'
    <2>1. link = s \/ UNCHANGED <<connecting, room>>
      BY <1>11 DEF HistoryRead
    <2>2. CASE UNCHANGED <<connecting, room>>
      BY <1>11, <2>2, ConnectionLeft DEF HistoryRead
    <2>3. CASE link = s
      BY <1>f, <1>11, <2>3, ChannelClientAssumption
      DEF HistoryRead, LinkLives, KeepsTrying, Links, ChannelClientAssumption
    <2> QED
      BY <2>1, <2>2, <2>3
  <1>12. ASSUME NEW s \in Links, Binds(s) PROVE (LinkLives /\ KeepsTrying)'
    BY <1>12, ConnectionLeft DEF Binds, connVars
  <1>13. ASSUME NEW s \in Links, Handles(s) PROVE (LinkLives /\ KeepsTrying)'
    BY <1>13, ConnectionLeft DEF Handles, connVars
  <1>14. ASSUME NEW s \in Links, Drops(s) PROVE (LinkLives /\ KeepsTrying)'
    BY <1>14, ConnectionLeft DEF Drops, connVars
  <1>15. ASSUME NEW m \in Ids, Send(m) PROVE (LinkLives /\ KeepsTrying)'
    BY <1>15, ConnectionLeft DEF Send, connVars
  <1>16. ASSUME NEW m \in Ids, Encrypted(m) PROVE (LinkLives /\ KeepsTrying)'
    <2>1. redial => redial'
      BY <1>f, <1>16, Scheduled DEF Encrypted
    <2> QED
      BY <1>16, <2>1, ConnectionLeft DEF Encrypted
  <1>17. ASSUME NEW m \in Ids, AckTimesOut(m) PROVE (LinkLives /\ KeepsTrying)'
    BY <1>17, ConnectionLeft DEF AckTimesOut, connVars
  <1> QED
    BY <1>1, <1>2, <1>3, <1>4, <1>5, <1>6, <1>7, <1>8, <1>9, <1>10, <1>11, <1>12, <1>13, <1>14,
       <1>15, <1>16, <1>17 DEF Next

\* KeepsTrying: connect(), scheduleReconnect(), the close event and the hook never leave a room
\* that was not left without an attempt, a timer or a socket.
THEOREM AlwaysTries == Spec => []KeepsTrying
  <1> DEFINE Inv == LinkLives /\ KeepsTrying
  <1>1. Init => Inv
    BY TriesBegin
  <1>2. TypeOK /\ Inv /\ [Next]_channelClientVars => Inv'
    BY TriesStep DEF Tries
  <1>3. Inv => KeepsTrying
    OBVIOUS
  <1> HIDE DEF Inv
  <1> QED
    BY <1>1, <1>2, <1>3, TypeCorrect, PTL DEF Spec

------------------------------------------------------------------------------------
(* The refinement. *)

\* Whoever is being encrypted or in the map, and nobody twice, waits to be told.
Waiting ==
  /\ encrypting \cap outbound = {}
  /\ \A m \in encrypting \cup outbound : told[m] = "waiting"

\* What is on its way to the channel was given to send().
Asked == \A s \in Links : \A i \in DOMAIN frames[s] : told[frames[s][i]] # "unsent"

\* What is acknowledged was accepted.
Answered ==
  \A s \in Links : \A i \in DOMAIN replies[s] :
    replies[s][i][1] = "ack" => replies[s][i][2] \in accepted

\* They are inductive together with the types.
Inductive == Types /\ Waiting /\ Asked /\ Answered

\* They hold in the beginning.
LEMMA InductiveBegins == Init => Waiting /\ Asked /\ Answered
  BY DEF Init, Waiting, Asked, Answered

\* Nothing the caller or the channel knows changes.
LEMMA Stutters ==
  ASSUME UNCHANGED <<told, accepted>> PROVE UNCHANGED Service!serviceVars
  BY DEF Service!serviceVars

\* Callers that wait are told no.
LEMMA Rejects ==
  ASSUME TypeOK, NEW M \in SUBSET Ids, \A m \in M : told[m] = "waiting",
         Tell(M, "rejected"), UNCHANGED accepted
  PROVE  Service!ServiceNext
  <1>1. Service!RejectAll(M)
    BY DEF Service!RejectAll, Tell
  <1> QED
    BY <1>1 DEF Service!ServiceNext

\* Telling somebody that waits leaves nobody unsent and everybody else as they were.
LEMMA Told ==
  ASSUME TypeOK, NEW M \in SUBSET Ids, NEW o \in {"waiting", "resolved", "rejected"}, Tell(M, o)
  PROVE  /\ \A m \in Ids : told[m] # "unsent" => told'[m] # "unsent"
         /\ \A m \in Ids \ M : told'[m] = told[m]
         /\ \A m \in M : told'[m] = o
  BY DEF Tell, TypeOK

\* A frame that was asked for stays so.
LEMMA StaysAsked ==
  ASSUME TypeOK, Asked, UNCHANGED frames,
         \A m \in Ids : told[m] # "unsent" => told'[m] # "unsent"
  PROVE  Asked'
  <1> SUFFICES ASSUME NEW s \in Links, NEW i \in DOMAIN frames[s]
               PROVE  told'[frames[s][i]] # "unsent"
    BY DEF Asked
  <1>1. frames[s][i] \in Ids
    BY DEF TypeOK
  <1> QED
    BY <1>1 DEF Asked

\* The steps that touch no message.
LEMMA Untouched ==
  ASSUME Inductive, UNCHANGED <<encrypting, outbound, told, frames, replies, accepted>>
  PROVE  (Waiting /\ Asked /\ Answered)'
  BY DEF Inductive, Waiting, Asked, Answered

\* A message leaves the map, and its caller is told.
LEMMA Settled ==
  ASSUME Inductive, NEW m \in outbound, NEW o \in {"resolved", "rejected"}, Settle(m, o),
         UNCHANGED <<encrypting, frames>>
  PROVE  Waiting' /\ Asked'
  <1>f. TypeOK /\ Waiting /\ Asked /\ m \in Ids
    BY DEF Inductive, Types, TypeOK
  <1>1. /\ \A k \in Ids : told[k] # "unsent" => told'[k] # "unsent"
        /\ \A k \in Ids \ {m} : told'[k] = told[k]
    BY <1>f, Told DEF Settle
  <1>2. Asked'
    BY <1>f, <1>1, StaysAsked
  <1>3. Waiting'
    BY <1>f, <1>1 DEF Waiting, Settle, TypeOK
  <1> QED
    BY <1>2, <1>3

\* Every step keeps what the refinement needs.
LEMMA InductiveStep ==
  ASSUME Inductive, [Next]_channelClientVars
  PROVE  (Waiting /\ Asked /\ Answered)'
  <1>f. TypeOK /\ IsFiniteSet(outbound) /\ Waiting /\ Asked /\ Answered
    BY DEF Inductive, Types
  <1>1. CASE UNCHANGED channelClientVars
    BY <1>1, Untouched DEF channelClientVars, sendVars, farVars
  <1>2. CASE OpenAgain
    BY <1>2, Untouched DEF OpenAgain, sendVars, farVars
  <1>3. CASE RedialFires
    BY <1>3, Untouched DEF RedialFires, sendVars, farVars
  <1>4. CASE AuthorizeFails
    BY <1>4, Untouched DEF AuthorizeFails, sendVars, farVars
  <1>5. CASE ConnectTimesOut
    BY <1>5, Untouched DEF ConnectTimesOut, sendVars, farVars
  <1>6. CASE Leave
    <2>1. /\ Tell(outbound, "rejected") /\ outbound' = {}
          /\ UNCHANGED <<encrypting, frames, replies, accepted>>
      BY <1>6 DEF Leave, farVars
    <2>2. outbound \in SUBSET Ids /\ encrypting \in SUBSET Ids
      BY <1>f DEF TypeOK
    <2>3. /\ \A k \in Ids : told[k] # "unsent" => told'[k] # "unsent"
          /\ \A k \in Ids \ outbound : told'[k] = told[k]
      BY <1>f, <2>1, <2>2, Told
    <2>4. Asked'
      BY <1>f, <2>1, <2>3, StaysAsked
    <2>5. Waiting' /\ Answered'
      BY <1>f, <2>1, <2>2, <2>3 DEF Waiting, Answered
    <2> QED
      BY <2>4, <2>5
  <1>7. ASSUME NEW s \in Links, Dials(s) PROVE (Waiting /\ Asked /\ Answered)'
    BY <1>7, Untouched DEF Dials, sendVars, farVars
  <1>8. ASSUME NEW s \in Links, Opens(s) PROVE (Waiting /\ Asked /\ Answered)'
    BY <1>8, Untouched DEF Opens, sendVars
  <1>9. ASSUME NEW s \in Links, Closes(s) PROVE (Waiting /\ Asked /\ Answered)'
    <2>1. /\ UNCHANGED <<frames, accepted, sendVars>>
          /\ replies' = [replies EXCEPT ![s] = <<>>]
      BY <1>9 DEF Closes
    <2>2. Waiting' /\ Asked'
      BY <1>f, <2>1 DEF Waiting, Asked, sendVars
    <2>3. Answered'
      BY <1>f, <2>1 DEF Answered, TypeOK
    <2> QED
      BY <2>2, <2>3
  <1>10. ASSUME NEW s \in Links, Receive(s) PROVE (Waiting /\ Asked /\ Answered)'
    <2> DEFINE f == Head(replies[s])
    <2>1. replies[s] \in Seq(Answers) /\ replies[s] # <<>>
      BY <1>f, <1>10 DEF Receive, TypeOK, Answers
    <2>2. replies' = [replies EXCEPT ![s] = Tail(@)] /\ UNCHANGED <<accepted, encrypting, frames>>
      BY <1>10 DEF Receive
    <2>3. Answered'
      <3> SUFFICES ASSUME NEW r \in Links, NEW i \in DOMAIN replies'[r], replies'[r][i][1] = "ack"
                   PROVE  replies'[r][i][2] \in accepted
        BY <2>2 DEF Answered
      <3>1. CASE r = s
        <4>1. replies'[s] = Tail(replies[s])
          BY <1>f, <2>2 DEF TypeOK
        <4>2. i + 1 \in DOMAIN replies[s] /\ replies'[s][i] = replies[s][i + 1]
          BY <2>1, <3>1, <4>1, Rest
        <4> QED
          BY <1>f, <3>1, <4>2 DEF Answered
      <3>2. CASE r # s
        BY <1>f, <2>2, <3>2 DEF Answered, TypeOK
      <3> QED
        BY <3>1, <3>2
    <2>4. CASE UNCHANGED <<outbound, told>>
      BY <1>f, <2>2, <2>3, <2>4 DEF Waiting, Asked
    <2>5. ASSUME f[2] \in outbound, NEW o \in {"resolved", "rejected"}, Settle(f[2], o)
          PROVE  Waiting' /\ Asked'
      BY <2>2, <2>5, Settled
    <2>6. \/ UNCHANGED <<outbound, told>>
          \/ f[2] \in outbound /\ \E o \in {"resolved", "rejected"} : Settle(f[2], o)
      <3> HIDE DEF f
      <3>1. \/ UNCHANGED <<outbound, told>>
            \/ f[2] \in outbound /\ Settle(f[2], IF f[1] = "ack" THEN "resolved" ELSE "rejected")
        BY <1>10 DEF Receive, f
      <3> QED
        BY <3>1
    <2> QED
      BY <2>3, <2>4, <2>5, <2>6
  <1>11. ASSUME NEW s \in Links, HistoryRead(s) PROVE (Waiting /\ Asked /\ Answered)'
    <2>1. UNCHANGED <<sendVars, replies, accepted>>
      BY <1>11 DEF HistoryRead
    <2>2. Waiting' /\ Answered'
      BY <1>f, <2>1 DEF Waiting, Answered, sendVars
    <2>3. ASSUME NEW order \in Orders(outbound), frames' = [frames EXCEPT ![s] = @ \o order]
          PROVE  Asked'
      <3>1. order \in Seq(Ids) /\ \A i \in DOMAIN order : order[i] \in outbound
        BY <1>f, Replayed DEF TypeOK
      <3>2. frames[s] \in Seq(Ids) /\ frames'[s] = frames[s] \o order
        BY <1>f, <2>3 DEF TypeOK
      <3> SUFFICES ASSUME NEW r \in Links, NEW i \in DOMAIN frames'[r]
                   PROVE  told[frames'[r][i]] # "unsent"
        BY <2>1 DEF Asked, sendVars
      <3>3. CASE r = s
        <4>1. \/ i \in DOMAIN frames[s] /\ frames'[s][i] = frames[s][i]
              \/ \E j \in DOMAIN order : frames'[s][i] = order[j]
          BY <3>1, <3>2, <3>3, Concatenated
        <4>2. \A m \in outbound : told[m] # "unsent"
          BY <1>f DEF Waiting
        <4> QED
          BY <1>f, <3>1, <3>3, <4>1, <4>2 DEF Asked
      <3>4. CASE r # s
        BY <1>f, <2>3, <3>4 DEF Asked, TypeOK
      <3> QED
        BY <3>3, <3>4
    <2>4. CASE UNCHANGED frames
      BY <1>f, <2>1, <2>2, <2>4 DEF Asked, sendVars
    <2> QED
      BY <1>11, <2>2, <2>3, <2>4 DEF HistoryRead
  <1>12. ASSUME NEW s \in Links, Binds(s) PROVE (Waiting /\ Asked /\ Answered)'
    <2>1. /\ UNCHANGED <<sendVars, frames, accepted>>
          /\ replies' = replies \/ replies' = [replies EXCEPT ![s] = <<<<"snapshot">>>>]
      BY <1>12 DEF Binds
    <2>2. Waiting' /\ Asked'
      BY <1>f, <2>1 DEF Waiting, Asked, sendVars
    <2>3. Answered'
      <3>1. \A i \in DOMAIN <<<<"snapshot">>>> : <<<<"snapshot">>>>[i][1] # "ack"
        OBVIOUS
      <3> QED
        BY <1>f, <2>1, <3>1 DEF Answered, TypeOK
    <2> QED
      BY <2>2, <2>3
  <1>13. ASSUME NEW s \in Links, Handles(s) PROVE (Waiting /\ Asked /\ Answered)'
    <2> DEFINE m == Head(frames[s])
    <2>1. frames[s] \in Seq(Ids) /\ frames[s] # <<>>
      BY <1>f, <1>13 DEF Handles, TypeOK
    <2>2. frames' = [frames EXCEPT ![s] = Tail(@)] /\ UNCHANGED sendVars
      BY <1>13 DEF Handles
    <2>3. m \in Ids
      BY <2>1, Rest
    <2>4. Asked'
      <3> SUFFICES ASSUME NEW r \in Links, NEW i \in DOMAIN frames'[r]
                   PROVE  told[frames'[r][i]] # "unsent"
        BY <2>2 DEF Asked, sendVars
      <3>1. CASE r = s
        <4>1. frames'[s] = Tail(frames[s])
          BY <1>f, <2>2 DEF TypeOK
        <4>2. i + 1 \in DOMAIN frames[s] /\ frames'[s][i] = frames[s][i + 1]
          BY <2>1, <3>1, <4>1, Rest
        <4> QED
          BY <1>f, <3>1, <4>2 DEF Asked
      <3>2. CASE r # s
        BY <1>f, <2>2, <3>2 DEF Asked, TypeOK
      <3> QED
        BY <3>1, <3>2
    <2>5. Waiting'
      BY <1>f, <2>2 DEF Waiting, sendVars
    <2> HIDE DEF m
    <2>6. PICK kind \in {"ack", "error"} :
            /\ accepted \subseteq accepted' /\ (kind = "ack" => m \in accepted')
            /\ replies' = replies \/ replies' = [replies EXCEPT ![s] = Append(@, <<kind, m>>)]
      BY <1>13 DEF Handles, m
    <2>7. Answered'
      <3> SUFFICES ASSUME NEW r \in Links, NEW i \in DOMAIN replies'[r], replies'[r][i][1] = "ack"
                   PROVE  replies'[r][i][2] \in accepted'
        BY DEF Answered
      <3>1. CASE replies' = replies
        BY <1>f, <2>6, <3>1 DEF Answered
      <3>2. CASE replies' = [replies EXCEPT ![s] = Append(@, <<kind, m>>)] /\ r = s
        <4>1. replies[s] \in Seq(Answers) /\ <<kind, m>> \in Answers
          BY <1>f, <2>3 DEF TypeOK, Answers
        <4>2. replies'[s] = Append(replies[s], <<kind, m>>)
          BY <1>f, <3>2 DEF TypeOK
        <4>3. \/ replies'[s][i] = <<kind, m>>
              \/ i \in DOMAIN replies[s] /\ replies'[s][i] = replies[s][i]
          BY <3>2, <4>1, <4>2, Appended
        <4> QED
          BY <1>f, <2>6, <3>2, <4>3 DEF Answered
      <3>3. CASE replies' = [replies EXCEPT ![s] = Append(@, <<kind, m>>)] /\ r # s
        BY <1>f, <2>6, <3>3 DEF Answered, TypeOK
      <3> QED
        BY <2>6, <3>1, <3>2, <3>3
    <2> QED
      BY <2>4, <2>5, <2>7
  <1>14. ASSUME NEW s \in Links, Drops(s) PROVE (Waiting /\ Asked /\ Answered)'
    <2>1. UNCHANGED <<sendVars, replies, accepted>> /\ frames' = [frames EXCEPT ![s] = <<>>]
      BY <1>14 DEF Drops
    <2>2. Waiting' /\ Answered'
      BY <1>f, <2>1 DEF Waiting, Answered, sendVars
    <2>3. Asked'
      BY <1>f, <2>1 DEF Asked, sendVars, TypeOK
    <2> QED
      BY <2>2, <2>3
  <1>15. ASSUME NEW m \in Ids, Send(m) PROVE (Waiting /\ Asked /\ Answered)'
    <2>1. /\ Tell({m}, "waiting") /\ encrypting' = encrypting \cup {m}
          /\ told[m] \in {"unsent", "rejected"}
          /\ UNCHANGED <<outbound, frames, replies, accepted>>
      BY <1>15 DEF Send, farVars
    <2>2. /\ \A k \in Ids : told[k] # "unsent" => told'[k] # "unsent"
          /\ \A k \in Ids \ {m} : told'[k] = told[k]
          /\ told'[m] = "waiting"
      BY <1>f, <2>1, Told
    <2>3. Asked'
      BY <1>f, <2>1, <2>2, StaysAsked
    <2>4. Waiting' /\ Answered'
      BY <1>f, <2>1, <2>2 DEF Waiting, Answered, TypeOK
    <2> QED
      BY <2>3, <2>4
  <1>16. ASSUME NEW m \in Ids, Encrypted(m) PROVE (Waiting /\ Asked /\ Answered)'
    <2>1. /\ m \in encrypting /\ encrypting' = encrypting \ {m} /\ UNCHANGED <<replies, accepted>>
      BY <1>16 DEF Encrypted
    <2>2. CASE Tell({m}, "rejected") /\ UNCHANGED <<outbound, frames>>
      <3>1. /\ \A k \in Ids : told[k] # "unsent" => told'[k] # "unsent"
            /\ \A k \in Ids \ {m} : told'[k] = told[k]
        BY <1>f, <2>2, Told
      <3>2. Asked'
        BY <1>f, <2>2, <3>1, StaysAsked
      <3>3. Waiting' /\ Answered'
        BY <1>f, <2>1, <2>2, <3>1 DEF Waiting, Answered, TypeOK
      <3> QED
        BY <3>2, <3>3
    <2>3. CASE outbound' = outbound \cup {m} /\ UNCHANGED told
      <3>1. Waiting' /\ Answered'
        BY <1>f, <2>1, <2>3 DEF Waiting, Answered
      <3>2. CASE UNCHANGED frames
        BY <1>f, <2>3, <3>1, <3>2 DEF Asked
      <3>3. CASE SocketOpen /\ frames' = [frames EXCEPT ![link] = Append(@, m)]
        <4>1. link \in Links /\ frames[link] \in Seq(Ids)
          BY <1>f, <3>3 DEF SocketOpen, TypeOK, Links
        <4>2. frames'[link] = Append(frames[link], m)
          BY <1>f, <3>3, <4>1 DEF TypeOK
        <4>3. told[m] # "unsent"
          BY <1>f, <2>1 DEF Waiting
        <4>4. ASSUME NEW r \in Links, NEW i \in DOMAIN frames'[r]
              PROVE  told[frames'[r][i]] # "unsent"
          <5>1. CASE r = link
            <6>1. frames'[link][i] = m
                    \/ (i \in DOMAIN frames[link] /\ frames'[link][i] = frames[link][i])
              BY <4>1, <4>2, <4>4, <5>1, Appended
            <6> QED
              BY <1>f, <4>1, <4>3, <5>1, <6>1 DEF Asked
          <5>2. CASE r # link
            BY <1>f, <3>3, <4>4, <5>2 DEF Asked, TypeOK
          <5> QED
            BY <5>1, <5>2
        <4> QED
          BY <2>3, <3>1, <4>4 DEF Asked
      <3> QED
        BY <1>16, <2>1, <3>1, <3>2, <3>3 DEF Encrypted, Waiting
    <2> QED
      BY <1>16, <2>2, <2>3 DEF Encrypted
  <1>17. ASSUME NEW m \in Ids, AckTimesOut(m) PROVE (Waiting /\ Asked /\ Answered)'
    <2>1. m \in outbound /\ Settle(m, "rejected") /\ UNCHANGED <<encrypting, farVars>>
      BY <1>17 DEF AckTimesOut
    <2>2. Waiting' /\ Asked'
      BY <2>1, Settled DEF farVars
    <2>3. Answered'
      BY <1>f, <2>1 DEF Answered, farVars
    <2> QED
      BY <2>2, <2>3
  <1> QED
    BY <1>1, <1>2, <1>3, <1>4, <1>5, <1>6, <1>7, <1>8, <1>9, <1>10, <1>11, <1>12, <1>13, <1>14,
       <1>15, <1>16, <1>17 DEF Next

\* Every step is one of the command service, or leaves what that speaks of alone.
LEMMA StepMaps ==
  ASSUME Inductive, [Next]_channelClientVars
  PROVE  [Service!ServiceNext]_(Service!serviceVars)
  <1>f. TypeOK /\ Waiting /\ Asked /\ Answered
    BY DEF Inductive, Types
  <1>1. CASE UNCHANGED <<told, accepted>>
    BY <1>1, Stutters
  <1>2. CASE Leave
    <2>1. outbound \in SUBSET Ids /\ Tell(outbound, "rejected") /\ UNCHANGED accepted
      BY <1>f, <1>2 DEF Leave, farVars, TypeOK
    <2> QED
      BY <1>f, <2>1, Rejects DEF Waiting
  <1>3. ASSUME NEW s \in Links, Receive(s) PROVE [Service!ServiceNext]_(Service!serviceVars)
    <2> DEFINE f == Head(replies[s])
    <2>1. replies[s] \in Seq(Answers) /\ replies[s] # <<>>
      BY <1>f, <1>3 DEF Receive, TypeOK, Answers
    <2>2. f = replies[s][1] /\ 1 \in DOMAIN replies[s]
      BY <2>1, Rest
    <2>3. f[1] = "ack" => f[2] \in accepted
      BY <1>f, <2>2 DEF Answered
    <2> HIDE DEF f
    <2>4. \/ UNCHANGED <<outbound, told>>
          \/ f[2] \in outbound /\ Settle(f[2], IF f[1] = "ack" THEN "resolved" ELSE "rejected")
      BY <1>3 DEF Receive, f
    <2>5. UNCHANGED accepted
      BY <1>3 DEF Receive
    <2>6. f[2] \in outbound => f[2] \in Ids /\ told[f[2]] = "waiting"
      BY <1>f DEF Waiting, TypeOK
    <2>7. CASE f[1] = "ack" /\ f[2] \in outbound /\ Settle(f[2], "resolved")
      <3>1. told' = [told EXCEPT ![f[2]] = "resolved"]
        BY <1>f, <2>6, <2>7 DEF Settle, Tell, TypeOK
      <3>2. Service!Resolve(f[2])
        BY <2>3, <2>5, <2>6, <2>7, <3>1 DEF Service!Resolve
      <3> QED
        BY <2>6, <2>7, <3>2 DEF Service!ServiceNext
    <2>8. CASE f[2] \in outbound /\ Settle(f[2], "rejected")
      <3>1. {f[2]} \in SUBSET Ids /\ Tell({f[2]}, "rejected") /\ \A m \in {f[2]} : told[m] = "waiting"
        BY <2>6, <2>8 DEF Settle
      <3> QED
        BY <1>f, <2>5, <3>1, Rejects
    <2>9. CASE UNCHANGED <<outbound, told>>
      BY <2>5, <2>9, Stutters
    <2> QED
      BY <2>4, <2>7, <2>8, <2>9
  <1>4. ASSUME NEW s \in Links, Handles(s) PROVE [Service!ServiceNext]_(Service!serviceVars)
    <2>1. frames[s] \in Seq(Ids) /\ frames[s] # <<>>
      BY <1>f, <1>4 DEF Handles, TypeOK
    <2>2. PICK m \in Ids : m = Head(frames[s]) /\ m = frames[s][1] /\ 1 \in DOMAIN frames[s]
      BY <2>1, Rest
    <2>3. told[m] # "unsent"
      BY <1>f, <2>2 DEF Asked
    <2>4. UNCHANGED told /\ (accepted' = accepted \/ accepted' = accepted \cup {m})
      BY <1>4, <2>2 DEF Handles, sendVars
    <2>5. CASE UNCHANGED accepted
      BY <2>4, <2>5, Stutters
    <2>6. CASE m \notin accepted /\ accepted' = accepted \cup {m}
      <3> DEFINE Runs == [k \in Ids |-> IF k \in accepted THEN 1 ELSE 0]
      <3>1. Runs' = [Runs EXCEPT ![m] = @ + 1]
        BY <2>2, <2>6
      <3>2. Service!Run(m)
        BY <2>3, <2>4, <3>1 DEF Service!Run
      <3> QED
        BY <2>2, <3>2 DEF Service!ServiceNext
    <2> QED
      BY <2>4, <2>5, <2>6
  <1>5. ASSUME NEW m \in Ids, Send(m) PROVE [Service!ServiceNext]_(Service!serviceVars)
    <2>1. told' = [told EXCEPT ![m] = "waiting"] /\ UNCHANGED accepted
      BY <1>f, <1>5 DEF Send, Tell, farVars, TypeOK
    <2>2. Service!Issue(m)
      BY <1>5, <2>1 DEF Send, Service!Issue
    <2> QED
      BY <2>2 DEF Service!ServiceNext
  <1>6. ASSUME NEW m \in Ids, Encrypted(m) PROVE [Service!ServiceNext]_(Service!serviceVars)
    <2>1. CASE UNCHANGED told
      BY <1>6, <2>1, Stutters DEF Encrypted
    <2>2. CASE Tell({m}, "rejected")
      <3>1. \A k \in {m} : told[k] = "waiting"
        BY <1>f, <1>6 DEF Encrypted, Waiting
      <3> QED
        BY <1>f, <1>6, <2>2, <3>1, Rejects DEF Encrypted
    <2> QED
      BY <1>6, <2>1, <2>2 DEF Encrypted
  <1>7. ASSUME NEW m \in Ids, AckTimesOut(m) PROVE [Service!ServiceNext]_(Service!serviceVars)
    <2>1. m \in outbound /\ Tell({m}, "rejected") /\ UNCHANGED accepted
      BY <1>7 DEF AckTimesOut, Settle, farVars
    <2>2. \A k \in {m} : told[k] = "waiting"
      BY <1>f, <2>1 DEF Waiting
    <2> QED
      BY <1>f, <2>1, <2>2, Rejects
  <1>8. CASE UNCHANGED channelClientVars
    BY <1>1, <1>8 DEF channelClientVars, sendVars, farVars
  <1>9. CASE OpenAgain \/ RedialFires \/ AuthorizeFails \/ ConnectTimesOut
    BY <1>1, <1>9 DEF OpenAgain, RedialFires, AuthorizeFails, ConnectTimesOut, sendVars, farVars
  <1>10. ASSUME NEW s \in Links, Dials(s) \/ Opens(s) \/ Closes(s) \/ HistoryRead(s) \/ Binds(s) \/ Drops(s)
         PROVE  [Service!ServiceNext]_(Service!serviceVars)
    BY <1>1, <1>10 DEF Dials, Opens, Closes, HistoryRead, Binds, Drops, sendVars, farVars
  <1> QED
    BY <1>2, <1>3, <1>4, <1>5, <1>6, <1>7, <1>8, <1>9, <1>10 DEF Next

\* ImplementsService: a send that resolved was accepted by the channel, and nothing was accepted
\* that was not sent: ChannelClient implements CommandService.
THEOREM Implements == Spec => ImplementsService
  <1> DEFINE Inv == Waiting /\ Asked /\ Answered
  <1>1. Init => Service!ServiceInit
    BY DEF Init, Service!ServiceInit
  <1>2. Init => Inv
    BY InductiveBegins
  <1>3. Types /\ Inv /\ [Next]_channelClientVars => Inv'
    BY InductiveStep DEF Inductive
  <1>4. Types /\ Inv /\ [Next]_channelClientVars => [Service!ServiceNext]_(Service!serviceVars)
    BY StepMaps DEF Inductive
  <1>5. Spec => []Types
    BY TypesBegin, TypesStep, PTL DEF Spec
  <1> HIDE DEF Inv
  <1> QED
    BY <1>1, <1>2, <1>3, <1>4, <1>5, PTL DEF Spec, ImplementsService, Service!ServiceSpec
====
