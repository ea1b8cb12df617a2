--------------------------- MODULE RealtimeClientProofs ---------------------------
(***************************************************************************)
(* What is proved about RealtimeClient: its type invariant, that a client  *)
(* that has begun is never stuck, that a command is held once and run      *)
(* twice only after an overlap, and that the client and the gateway        *)
(* implement the command service.                                          *)
(***************************************************************************)
EXTENDS RealtimeClient, TLAPS, SequenceTheorems

------------------------------------------------------------------------------------
(* Sequences. *)

\* A command appended to those held.
LEMMA Appended ==
  ASSUME NEW S, NEW q \in Seq(S), NEW x \in S
  PROVE  /\ Append(q, x) \in Seq(S)
         /\ ToSet(Append(q, x)) = ToSet(q) \cup {x}
         /\ IsInjective(q) /\ x \notin ToSet(q) => IsInjective(Append(q, x))
         /\ \A i \in DOMAIN Append(q, x) :
              \/ i \in DOMAIN q /\ Append(q, x)[i] = q[i]
              \/ i = Len(q) + 1 /\ Append(q, x)[i] = x
  <1>1. /\ Append(q, x) \in Seq(S) /\ DOMAIN Append(q, x) = 1..(Len(q) + 1)
        /\ Len(q) \in Nat /\ DOMAIN q = 1..Len(q)
        /\ \A i \in DOMAIN q : Append(q, x)[i] = q[i]
        /\ Append(q, x)[Len(q) + 1] = x
    OBVIOUS
  <1>2. ASSUME NEW i \in DOMAIN Append(q, x)
        PROVE  \/ i \in DOMAIN q /\ Append(q, x)[i] = q[i]
               \/ i = Len(q) + 1 /\ Append(q, x)[i] = x
    BY <1>1
  <1>3. ToSet(Append(q, x)) = ToSet(q) \cup {x}
    BY <1>1, <1>2 DEF ToSet
  <1>4. ASSUME IsInjective(q), x \notin ToSet(q) PROVE IsInjective(Append(q, x))
    BY <1>1, <1>2, <1>4 DEF IsInjective, ToSet
  <1> QED
    BY <1>1, <1>2, <1>3, <1>4

\* The entries of what follows the first.
LEMMA Rest ==
  ASSUME NEW S, NEW q \in Seq(S), q # <<>>
  PROVE  /\ Tail(q) \in Seq(S) /\ Head(q) \in S
         /\ 1 \in DOMAIN q /\ Head(q) = q[1]
         /\ \A i \in DOMAIN Tail(q) : i + 1 \in DOMAIN q /\ i + 1 # 1 /\ Tail(q)[i] = q[i + 1]
  OBVIOUS

\* One sequence after another: what it holds, and when nothing is in it twice.
LEMMA Joined ==
  ASSUME NEW S, NEW q \in Seq(S), NEW r \in Seq(S)
  PROVE  /\ q \o r \in Seq(S)
         /\ ToSet(q \o r) = ToSet(q) \cup ToSet(r)
         /\ IsInjective(q \o r) <=>
              IsInjective(q) /\ IsInjective(r) /\ ToSet(q) \cap ToSet(r) = {}
  <1> DEFINE t == q \o r
             n == Len(q)
  <1>1. /\ t \in Seq(S) /\ n \in Nat /\ Len(r) \in Nat
        /\ DOMAIN q = 1..n /\ DOMAIN r = 1..Len(r)
        /\ DOMAIN t = 1..(n + Len(r))
    OBVIOUS
  <1>2. \A i \in DOMAIN q : i \in DOMAIN t /\ t[i] = q[i]
    BY <1>1
  <1>3. \A j \in DOMAIN r : n + j \in DOMAIN t /\ n + j \notin DOMAIN q /\ t[n + j] = r[j]
    BY <1>1
  <1>4. \A i \in DOMAIN t \ DOMAIN q :
          i - n \in DOMAIN r /\ t[i] = r[i - n] /\ i = n + (i - n)
    BY <1>1
  <1>5. \A i, j \in DOMAIN r : n + i = n + j => i = j
    BY <1>1
  <1> HIDE DEF t, n
  <1>6. \A i \in DOMAIN t : i \in DOMAIN q \/ \E j \in DOMAIN r : i = n + j
    BY <1>4
  <1>7. ToSet(t) = ToSet(q) \cup ToSet(r)
    BY <1>2, <1>3, <1>6 DEF ToSet
  <1>8. ASSUME IsInjective(t)
        PROVE  IsInjective(q) /\ IsInjective(r) /\ ToSet(q) \cap ToSet(r) = {}
    <2>1. IsInjective(q)
      BY <1>8, <1>2 DEF IsInjective
    <2>2. IsInjective(r)
      BY <1>8, <1>3, <1>5 DEF IsInjective
    <2>3. ASSUME NEW i \in DOMAIN q, NEW j \in DOMAIN r, q[i] = r[j] PROVE FALSE
      <3>1. i = n + j
        BY <1>8, <1>2, <1>3, <2>3 DEF IsInjective
      <3> QED
        BY <3>1, <1>3
    <2> QED
      BY <2>1, <2>2, <2>3 DEF ToSet
  <1>9. ASSUME IsInjective(q), IsInjective(r), ToSet(q) \cap ToSet(r) = {}
        PROVE  IsInjective(t)
    <2>0. \A i \in DOMAIN q, j \in DOMAIN r : q[i] # r[j]
      BY <1>9 DEF ToSet
    <2> SUFFICES ASSUME NEW a \in DOMAIN t, NEW b \in DOMAIN t, t[a] = t[b] PROVE a = b
      BY DEF IsInjective
    <2>1. CASE a \in DOMAIN q /\ b \in DOMAIN q
      BY <1>2, <1>9, <2>1 DEF IsInjective
    <2>2. CASE a \notin DOMAIN q /\ b \notin DOMAIN q
      <3>1. PICK i \in DOMAIN r : a = n + i
        BY <1>6, <2>2
      <3>2. PICK j \in DOMAIN r : b = n + j
        BY <1>6, <2>2
      <3>3. r[i] = r[j]
        BY <1>3, <3>1, <3>2
      <3> QED
        BY <1>9, <3>1, <3>2, <3>3 DEF IsInjective
    <2>3. CASE a \in DOMAIN q /\ b \notin DOMAIN q
      BY <1>2, <1>3, <1>6, <2>0, <2>3
    <2>4. CASE a \notin DOMAIN q /\ b \in DOMAIN q
      BY <1>2, <1>3, <1>6, <2>0, <2>4
    <2> QED
      BY <2>1, <2>2, <2>3, <2>4
  <1> QED
    BY <1>1, <1>7, <1>8, <1>9 DEF t

\* The last first: nothing is lost and nothing repeated.
LEMMA Reversed ==
  ASSUME NEW S, NEW q \in Seq(S)
  PROVE  /\ Reverse(q) \in Seq(S)
         /\ ToSet(Reverse(q)) = ToSet(q)
         /\ IsInjective(q) => IsInjective(Reverse(q))
  <1>1. Len(q) \in Nat /\ DOMAIN q = 1..Len(q)
    OBVIOUS
  <1>2. ASSUME NEW i \in 1..Len(q)
        PROVE  (Len(q) - i) + 1 \in 1..Len(q) /\ (Len(q) - ((Len(q) - i) + 1)) + 1 = i
    BY <1>1
  <1>3. DOMAIN Reverse(q) = 1..Len(q) /\ \A i \in 1..Len(q) : Reverse(q)[i] = q[(Len(q) - i) + 1]
    BY DEF Reverse
  <1>4. Reverse(q) \in Seq(S)
    BY <1>1, <1>2 DEF Reverse
  <1>5. ToSet(Reverse(q)) = ToSet(q)
    BY <1>1, <1>2, <1>3 DEF ToSet
  <1>6. ASSUME IsInjective(q), NEW a \in 1..Len(q), NEW b \in 1..Len(q),
               Reverse(q)[a] = Reverse(q)[b]
        PROVE  a = b
    <2>1. (Len(q) - a) + 1 = (Len(q) - b) + 1
      BY <1>1, <1>2, <1>3, <1>6 DEF IsInjective
    <2> QED
      BY <1>1, <2>1
  <1> QED
    BY <1>3, <1>4, <1>5, <1>6 DEF IsInjective

\* Taking out a command held once leaves the others.
LEMMA Taken ==
  ASSUME NEW S, NEW q \in Seq(S), NEW k
  PROVE  /\ Without(q, k) \in Seq(S)
         /\ ToSet(Without(q, k)) \subseteq ToSet(q)
         /\ IsInjective(q) => /\ IsInjective(Without(q, k))
                              /\ ToSet(Without(q, k)) = ToSet(q) \ {k}
  <1>1. CASE ~Contains(q, k)
    BY <1>1 DEF Without, Contains, ToSet
  <1>2. CASE Contains(q, k)
    <2> DEFINE c == CHOOSE i \in DOMAIN q : q[i] = k
    <2>1. Len(q) \in Nat /\ DOMAIN q = 1..Len(q)
      OBVIOUS
    <2>2. c \in 1..Len(q) /\ q[c] = k
      BY <1>2, <2>1 DEF Contains
    <2> DEFINE a == SubSeq(q, 1, c - 1)
               b == SubSeq(q, c + 1, Len(q))
    <2>3. Without(q, k) = a \o b
      BY <1>2 DEF Without, RemoveAt
    <2> HIDE DEF c
    <2>4. /\ a \in Seq(S) /\ DOMAIN a = 1..(c - 1)
          /\ \A i \in 1..(c - 1) : a[i] = q[i]
      BY <2>1, <2>2
    <2>5. /\ b \in Seq(S) /\ DOMAIN b = 1..(Len(q) - c)
          /\ \A i \in 1..(Len(q) - c) : b[i] = q[c + i]
      BY <2>1, <2>2
    <2> HIDE DEF a, b
    <2>6. ToSet(a) = {q[i] : i \in 1..(c - 1)}
      BY <2>4 DEF ToSet
    <2>7. ToSet(b) = {q[i] : i \in (c + 1)..Len(q)}
      <3>1. \A i \in 1..(Len(q) - c) : c + i \in (c + 1)..Len(q)
        BY <2>1, <2>2
      <3>2. \A i \in (c + 1)..Len(q) : \E j \in 1..(Len(q) - c) : i = c + j
        <4>1. \A i \in (c + 1)..Len(q) : i - c \in 1..(Len(q) - c) /\ c + (i - c) = i
          BY <2>1, <2>2
        <4> QED
          BY <4>1
      <3>3. ToSet(b) = {q[c + i] : i \in 1..(Len(q) - c)}
        BY <2>5 DEF ToSet
      <3> QED
        BY <3>1, <3>2, <3>3
    <2>s. ToSet(q) = {q[i] : i \in 1..Len(q)}
      BY <2>1 DEF ToSet
    <2>8. \A i \in 1..Len(q) : i \in 1..(c - 1) \/ i = c \/ i \in (c + 1)..Len(q)
      BY <2>1, <2>2
    <2>9. \A i \in 1..(c - 1) : i \in 1..Len(q) /\ i # c
      BY <2>1, <2>2
    <2>10. \A i \in (c + 1)..Len(q) : i \in 1..Len(q) /\ i # c
      BY <2>1, <2>2
    <2>11. Without(q, k) \in Seq(S) /\ ToSet(Without(q, k)) = ToSet(a) \cup ToSet(b)
      BY <2>3, <2>4, <2>5, Joined
    <2>12. ToSet(Without(q, k)) \subseteq ToSet(q)
      BY <2>s, <2>6, <2>7, <2>9, <2>10, <2>11
    <2>13. ASSUME IsInjective(q)
           PROVE  IsInjective(Without(q, k)) /\ ToSet(Without(q, k)) = ToSet(q) \ {k}
      <3>0. \A i, j \in 1..Len(q) : q[i] = q[j] => i = j
        BY <2>1, <2>13 DEF IsInjective
      <3>1. IsInjective(a)
        BY <2>4, <2>9, <3>0 DEF IsInjective
      <3>2. IsInjective(b)
        <4>1. \A i \in 1..(Len(q) - c) : c + i \in 1..Len(q) /\ i \in Nat
          BY <2>1, <2>2
        <4>2. c \in Nat
          BY <2>1, <2>2
        <4> QED
          <5>1. \A i, j \in 1..(Len(q) - c) : c + i = c + j => i = j
            BY <4>1, <4>2
          <5> QED
            BY <2>5, <3>0, <4>1, <5>1 DEF IsInjective
      <3>3. ToSet(a) \cap ToSet(b) = {}
        <4>1. ASSUME NEW i \in 1..(c - 1), NEW j \in (c + 1)..Len(q), q[i] = q[j] PROVE FALSE
          <5>1. i = j
            BY <2>1, <2>9, <2>10, <2>13, <4>1 DEF IsInjective
          <5> QED
            BY <5>1, <2>1, <2>2
        <4> QED
          BY <2>6, <2>7, <4>1
      <3>4. k \notin ToSet(a) /\ k \notin ToSet(b)
        BY <2>2, <2>6, <2>7, <2>9, <2>10, <3>0
      <3>5. ToSet(q) \subseteq ToSet(a) \cup ToSet(b) \cup {k}
        BY <2>s, <2>2, <2>6, <2>7, <2>8
      <3>6. IsInjective(Without(q, k))
        BY <2>3, <2>4, <2>5, <3>1, <3>2, <3>3, Joined
      <3> QED
        BY <2>11, <2>12, <3>4, <3>5, <3>6
    <2> QED
      BY <2>11, <2>12, <2>13
  <1> QED
    BY <1>1, <1>2

------------------------------------------------------------------------------------
(* Types. *)

\* What the gateway may send.
Answers == {"ack", "error"} \X Cmds

\* Only a fresh socket still carries its hello, in front: what a ready one handles is a command.
HelloFirst ==
  \A s \in Sockets : \A i \in DOMAIN up[s] :
    up[s][i] \in Cmds \/ (i = 1 /\ back[s] = "fresh")

\* The type invariant with what HandleCommand needs.
Types == TypeOK /\ HelloFirst

\* A settled command leaves sequences of commands.
LEMMA Settled ==
  ASSUME TypeOK, NEW k \in Cmds, NEW o \in Service!Outcomes, Settle(k, o)
  PROVE  /\ queue' \in Seq(Cmds) /\ pending' \in Seq(Cmds)
         /\ outcome' \in [Cmds -> Service!Outcomes]
         /\ ToSet(pending') \subseteq ToSet(pending)
  <1>1. queue \in Seq(Cmds) /\ pending \in Seq(Cmds)
    BY DEF TypeOK
  <1>2. queue' = Without(queue, k) /\ pending' = Without(pending, k)
    BY DEF Settle
  <1>3. queue' \in Seq(Cmds) /\ pending' \in Seq(Cmds) /\ ToSet(pending') \subseteq ToSet(pending)
    BY <1>1, <1>2, Taken
  <1>4. outcome' \in [Cmds -> Service!Outcomes]
    BY DEF TypeOK, Settle
  <1> QED
    BY <1>3, <1>4

\* A reply adds an answer of a command, or nothing.
LEMMA Replied ==
  ASSUME TypeOK, NEW s \in Sockets, NEW kind \in {"ack", "error"}, NEW k \in Cmds,
         Reply(s, kind, k)
  PROVE  down' \in [Sockets -> Seq(Answers)]
  <1>1. <<kind, k>> \in Answers
    BY DEF Answers
  <1>2. down \in [Sockets -> Seq(Answers)]
    BY DEF TypeOK, Answers
  <1>3. Append(down[s], <<kind, k>>) \in Seq(Answers)
    BY <1>1, <1>2, Appended
  <1>4. down' = down \/ down' = [down EXCEPT ![s] = Append(@, <<kind, k>>)]
    BY DEF Reply
  <1> QED
    BY <1>2, <1>3, <1>4

\* What waits on a ready socket is a command, and what follows it too.
LEMMA NextCommand ==
  ASSUME Types, NEW s \in Sockets, back[s] = "ready", up[s] # <<>>
  PROVE  /\ Head(up[s]) \in Cmds /\ Tail(up[s]) \in Seq({"hello"} \cup Cmds)
         /\ \A i \in DOMAIN Tail(up[s]) : Tail(up[s])[i] \in Cmds
  <1>1. up[s] \in Seq({"hello"} \cup Cmds)
    BY DEF Types, TypeOK
  <1>2. \A i \in DOMAIN up[s] : up[s][i] \in Cmds
    BY DEF Types, HelloFirst
  <1> QED
    BY <1>1, <1>2, Rest

\* The types hold in the beginning.
LEMMA TypesBegin == Init => Types
  <1> SUFFICES ASSUME Init PROVE Types
    OBVIOUS
  <1>1. 0 \in 0..MaxSockets /\ 0 \in 0..MaxFaults /\ 0 \in 0..MaxRuns
    BY ClientAssumption DEF ClientAssumption
  <1>2. /\ up \in [Sockets -> Seq({"hello"} \cup Cmds)]
        /\ down \in [Sockets -> Seq({"ack", "error"} \X Cmds)]
        /\ queue \in Seq(Cmds) /\ pending \in Seq(Cmds)
    BY DEF Init
  <1>3. outcome \in [Cmds -> Service!Outcomes] /\ runs \in [Cmds -> 0..MaxRuns]
    BY <1>1 DEF Init, Service!ServiceInit, Service!Outcomes
  <1>4. TypeOK
    BY <1>1, <1>2, <1>3 DEF Init, TypeOK, States, FrontEnds, BackEnds
  <1>5. HelloFirst
    BY DEF Init, HelloFirst
  <1> QED
    BY <1>4, <1>5 DEF Types

\* The types by what the parts of the code keep: the connection cycle, ...
CycleTypes ==
  /\ state \in States
  /\ stopped \in BOOLEAN /\ dropped \in BOOLEAN /\ retry \in BOOLEAN
  /\ timers \in BOOLEAN /\ cap \in BOOLEAN
  /\ cycle \in {"idle", "capability", "enroll", "session", "opening"}
  /\ refresh \in {"idle", "reading", "enroll"}

\* ... the browser's ends of the sockets, ...
FrontTypes ==
  /\ current \in 0..MaxSockets
  /\ current # 0 => front[current] \in {"dialing", "open"}
  /\ front \in [Sockets -> FrontEnds]

\* ... the gateway's, with what was sent to it, ...
BackTypes ==
  back \in [Sockets -> BackEnds] /\ up \in [Sockets -> Seq({"hello"} \cup Cmds)] /\ HelloFirst

\* ... what it sent, ...
DownTypes == down \in [Sockets -> Seq(Answers)]

\* ... the commands, ...
CallTypes ==
  queue \in Seq(Cmds) /\ pending \in Seq(Cmds) /\ outcome \in [Cmds -> Service!Outcomes]

\* ... and the tables of the gateway.
TableTypes ==
  /\ handling \subseteq Sockets \X Cmds /\ acted \subseteq Sockets \X Cmds
  /\ answer \subseteq Cmds /\ excused \subseteq Cmds
  /\ runs \in [Cmds -> 0..MaxRuns]

\* All the parts but the commands, ...
OtherTypes ==
  /\ CycleTypes /\ FrontTypes /\ BackTypes /\ DownTypes /\ TableTypes
  /\ faults \in 0..MaxFaults

\* ... and with them.
LEMMA ByParts == (Types <=> OtherTypes /\ CallTypes) /\ (Types' <=> OtherTypes' /\ CallTypes')
  BY DEF Types, TypeOK, OtherTypes, CycleTypes, FrontTypes, BackTypes, DownTypes, CallTypes,
         TableTypes, Answers

\* What a step leaves alone keeps its types.
LEMMA PartsLeft ==
  ASSUME Types
  PROVE  /\ UNCHANGED clientVars => CycleTypes'
         /\ UNCHANGED <<current, front>> => FrontTypes'
         /\ UNCHANGED <<back, up>> => BackTypes'
         /\ UNCHANGED down => DownTypes'
         /\ UNCHANGED callVars => CallTypes'
         /\ UNCHANGED gatewayVars => TableTypes'
         /\ UNCHANGED faults => faults' \in 0..MaxFaults
  <1> USE ByParts DEF OtherTypes
  <1>1. UNCHANGED clientVars => CycleTypes'
    BY DEF CycleTypes, clientVars
  <1>2. UNCHANGED <<current, front>> => FrontTypes'
    BY DEF FrontTypes
  <1>3. UNCHANGED <<back, up>> => BackTypes'
    BY DEF BackTypes, HelloFirst
  <1>4. UNCHANGED down => DownTypes'
    BY DEF DownTypes
  <1>5. UNCHANGED callVars => CallTypes'
    BY DEF CallTypes, callVars
  <1>6. UNCHANGED gatewayVars => TableTypes'
    BY DEF TableTypes, gatewayVars
  <1> QED
    BY <1>1, <1>2, <1>3, <1>4, <1>5, <1>6

\* A step of the connection cycle moves nothing else.
LEMMA CycleOnly ==
  ASSUME Types, CycleTypes', faults' \in 0..MaxFaults,
         UNCHANGED <<current, wireVars, callVars, gatewayVars>>
  PROVE  Types'
  BY ByParts, PartsLeft DEF OtherTypes, wireVars

\* A step of the gateway moves no end of the browser's.
LEMMA GatewayOnly ==
  ASSUME Types, BackTypes', DownTypes', TableTypes', faults' \in 0..MaxFaults,
         UNCHANGED <<clientVars, front, callVars>>
  PROVE  Types'
  BY ByParts, PartsLeft DEF OtherTypes, clientVars

\* A fault counts within its bound.
LEMMA FaultCounts ==
  ASSUME Types, Fault PROVE faults' \in 0..MaxFaults
  BY ByParts, ClientAssumption DEF OtherTypes, Fault, ClientAssumption

\* Every step keeps the types.
LEMMA TypesStep ==
  ASSUME Types, [Next]_vars
  PROVE  Types'
  <1>f. TypeOK /\ HelloFirst
    BY DEF Types
  <1>p. /\ CycleTypes /\ FrontTypes /\ BackTypes /\ DownTypes /\ CallTypes /\ TableTypes
        /\ faults \in 0..MaxFaults
    BY ByParts DEF OtherTypes
  <1>g. 0 \in 0..MaxSockets /\ \A s \in Sockets : s \in 0..MaxSockets /\ s # 0
    BY ClientAssumption DEF ClientAssumption, Sockets
  <1>h. current # 0 => current \in Sockets
    BY <1>f, ClientAssumption DEF TypeOK, ClientAssumption, Sockets
  <1>1. CASE UNCHANGED vars
    <2>1. UNCHANGED <<clientVars, wireVars, callVars, gatewayVars, faults>>
      BY <1>1 DEF vars
    <2> QED
      BY <2>1, ByParts, PartsLeft DEF OtherTypes, clientVars, wireVars
  <1>2. CASE Connect \/ RetryFires \/ ReadCapability
    <2>1. CycleTypes'
      BY <1>p, <1>2 DEF CycleTypes, Connect, RetryFires, ReadCapability, BeginCycle, States
    <2>2. UNCHANGED <<current, wireVars, callVars, gatewayVars, faults>>
      BY <1>2 DEF Connect, RetryFires, ReadCapability
    <2> QED
      BY <1>p, <2>1, <2>2, CycleOnly
  <1>3. CASE Enrolled \/ SessionFails
    <2>1. CycleTypes'
      BY <1>p, <1>3 DEF CycleTypes, Enrolled, SessionFails, CycleFails, States
    <2>2. UNCHANGED <<current, wireVars, callVars, gatewayVars, faults>>
      BY <1>3 DEF Enrolled, SessionFails
    <2> QED
      BY <1>p, <2>1, <2>2, CycleOnly
  <1>4. CASE RefreshStarts \/ RefreshReads \/ RefreshEnrols
    <2>1. CycleTypes'
      BY <1>p, <1>4 DEF CycleTypes, RefreshStarts, RefreshReads, RefreshEnrols, States
    <2>2. UNCHANGED <<current, wireVars, callVars, gatewayVars, faults>>
      BY <1>4 DEF RefreshStarts, RefreshReads, RefreshEnrols
    <2> QED
      BY <1>p, <2>1, <2>2, CycleOnly
  <1>5. CASE OtherTabClears
    <2>1. CycleTypes' /\ UNCHANGED <<current, wireVars, callVars, gatewayVars>>
      BY <1>p, <1>5 DEF CycleTypes, OtherTabClears
    <2>2. faults' \in 0..MaxFaults
      BY <1>5, FaultCounts DEF OtherTabClears
    <2> QED
      BY <2>1, <2>2, CycleOnly
  <1>6. ASSUME NEW s \in Sockets, Dial(s) PROVE Types'
    <2>1. CycleTypes'
      BY <1>p, <1>6 DEF CycleTypes, Dial, States
    <2>2. FrontTypes'
      BY <1>p, <1>g, <1>6 DEF FrontTypes, Dial, FrontEnds
    <2>3. UNCHANGED <<back, up, down, callVars, gatewayVars, faults>>
      BY <1>6 DEF Dial
    <2> QED
      BY <2>1, <2>2, <2>3, ByParts, PartsLeft DEF OtherTypes
  <1>7. ASSUME NEW s \in Sockets, SocketOpens(s) PROVE Types'
    <2>1. CycleTypes'
      BY <1>p, <1>7 DEF CycleTypes, SocketOpens, States
    <2>2. FrontTypes'
      BY <1>p, <1>h, <1>7 DEF FrontTypes, SocketOpens, FrontEnds
    <2> DEFINE u == <<"hello">> \o queue
    <2>3. u \in Seq({"hello"} \cup Cmds) /\ \A i \in DOMAIN u : i = 1 \/ u[i] \in Cmds
      BY <1>p DEF CallTypes
    <2>4. up' = [up EXCEPT ![s] = u] /\ back' = [back EXCEPT ![s] = "fresh"]
      BY <1>7 DEF SocketOpens
    <2> HIDE DEF u
    <2>5. BackTypes'
      BY <1>p, <2>3, <2>4 DEF BackTypes, HelloFirst, BackEnds
    <2>6. CallTypes'
      BY <1>p, <1>7, Joined DEF CallTypes, SocketOpens
    <2>7. UNCHANGED <<down, gatewayVars, faults>>
      BY <1>7 DEF SocketOpens
    <2> QED
      BY <2>1, <2>2, <2>5, <2>6, <2>7, ByParts, PartsLeft DEF OtherTypes
  <1>8. ASSUME NEW s \in Sockets, NEW refused \in BOOLEAN, SocketCloses(s, refused)
        PROVE  Types'
    <2>1. CycleTypes'
      <3>1. CASE refused
        BY <1>p, <1>8, <3>1 DEF CycleTypes, SocketCloses, States
      <3>2. CASE ~refused /\ stopped
        BY <1>p, <1>8, <3>2 DEF CycleTypes, SocketCloses, States
      <3>3. CASE ~refused /\ ~stopped
        BY <1>p, <1>8, <3>3 DEF CycleTypes, SocketCloses, States
      <3> QED
        BY <3>1, <3>2, <3>3
    <2>2. FrontTypes'
      BY <1>p, <1>g, <1>8 DEF FrontTypes, SocketCloses, FrontEnds
    <2>3. DownTypes'
      BY <1>p, <1>8 DEF DownTypes, SocketCloses
    <2>4. CallTypes'
      BY <1>p, <1>8, Reversed, Joined DEF CallTypes, SocketCloses
    <2>5. UNCHANGED <<back, up, gatewayVars, faults>>
      BY <1>8 DEF SocketCloses
    <2> QED
      BY <2>1, <2>2, <2>3, <2>4, <2>5, ByParts, PartsLeft DEF OtherTypes
  <1>9. CASE Close
    <2>1. CycleTypes'
      BY <1>p, <1>9 DEF CycleTypes, Close, States
    <2>2. FrontTypes'
      BY <1>p, <1>g, <1>9 DEF FrontTypes, Close, FrontEnds
    <2>3. CallTypes'
      BY <1>p, <1>9 DEF CallTypes, Close, Service!Outcomes
    <2>4. UNCHANGED <<back, up, down, gatewayVars, faults>>
      BY <1>9 DEF Close
    <2> QED
      BY <2>1, <2>2, <2>3, <2>4, ByParts, PartsLeft DEF OtherTypes
  <1>10. ASSUME NEW k \in Cmds, Send(k) PROVE Types'
    <2>1. CallTypes'
      <3>1. /\ queue' = queue \/ queue' = Append(queue, k)
            /\ pending' = pending \/ pending' = Append(pending, k)
        BY <1>10 DEF Send
      <3>2. /\ Append(queue, k) \in Seq(Cmds) /\ Append(pending, k) \in Seq(Cmds)
        BY <1>p, Appended DEF CallTypes
      <3>3. outcome' \in [Cmds -> Service!Outcomes]
        BY <1>p, <1>10 DEF CallTypes, Send, Service!Outcomes
      <3> QED
        BY <1>p, <3>1, <3>2, <3>3 DEF CallTypes
    <2>2. UNCHANGED <<clientVars, faults, front, back, down, gatewayVars>>
      BY <1>10 DEF Send
    <2>3. BackTypes'
      <3>1. CASE up' = up
        BY <1>p, <2>2, <3>1 DEF BackTypes, HelloFirst
      <3>2. CASE current # 0 /\ up' = [up EXCEPT ![current] = Append(@, k)]
        <4> DEFINE u == up[current]
        <4>1. u \in Seq({"hello"} \cup Cmds) /\ k \in {"hello"} \cup Cmds
          BY <1>p, <1>h, <3>2 DEF BackTypes
        <4>2. /\ Append(u, k) \in Seq({"hello"} \cup Cmds)
              /\ \A i \in DOMAIN Append(u, k) :
                   (i \in DOMAIN u /\ Append(u, k)[i] = u[i]) \/ Append(u, k)[i] = k
          BY <4>1, Appended
        <4>3. up' = [up EXCEPT ![current] = Append(u, k)]
          BY <3>2
        <4>4. \A i \in DOMAIN u : u[i] \in Cmds \/ (i = 1 /\ back[current] = "fresh")
          BY <1>p, <1>h, <3>2 DEF BackTypes, HelloFirst
        <4> HIDE DEF u
        <4>5. HelloFirst'
          BY <1>p, <1>h, <2>2, <3>2, <4>2, <4>3, <4>4 DEF BackTypes, HelloFirst
        <4> QED
          BY <1>p, <2>2, <4>2, <4>3, <4>5 DEF BackTypes
      <3> QED
        BY <1>10, <3>1, <3>2 DEF Send
    <2> QED
      BY <2>1, <2>2, <2>3, ByParts, PartsLeft DEF OtherTypes, clientVars
  <1>11. ASSUME NEW k \in Cmds, TimesOut(k) PROVE Types'
    <2>1. Settle(k, "rejected") /\ "rejected" \in Service!Outcomes
      BY <1>11 DEF TimesOut, Service!Outcomes
    <2>2. CallTypes'
      BY <1>f, <2>1, Settled DEF CallTypes
    <2>3. UNCHANGED <<clientVars, faults, wireVars, gatewayVars>>
      BY <1>11 DEF TimesOut
    <2> QED
      BY <2>2, <2>3, ByParts, PartsLeft DEF OtherTypes, clientVars, wireVars
  <1>12. ASSUME NEW s \in Sockets, ReceiveAnswer(s) PROVE Types'
    <2>1. down[s] \in Seq(Answers) /\ down[s] # <<>>
      BY <1>p, <1>12 DEF DownTypes, ReceiveAnswer
    <2>2. Tail(down[s]) \in Seq(Answers) /\ Head(down[s]) \in Answers
      BY <2>1, Rest
    <2>3. DownTypes'
      BY <1>p, <1>12, <2>2 DEF DownTypes, ReceiveAnswer
    <2>4. Head(down[s])[2] \in Cmds
      BY <2>2 DEF Answers
    <2>5. CallTypes'
      <3>1. CASE UNCHANGED callVars
        BY <3>1, PartsLeft
      <3>2. ASSUME NEW o \in Service!Outcomes, Settle(Head(down[s])[2], o) PROVE CallTypes'
        BY <1>f, <2>4, <3>2, Settled DEF CallTypes
      <3> QED
        BY <1>12, <3>1, <3>2 DEF ReceiveAnswer, Service!Outcomes
    <2>6. UNCHANGED <<clientVars, faults, front, back, up, gatewayVars>>
      BY <1>12 DEF ReceiveAnswer
    <2> QED
      BY <2>3, <2>5, <2>6, ByParts, PartsLeft DEF OtherTypes, clientVars
  <1>13. ASSUME NEW s \in Sockets, HandleHello(s) PROVE Types'
    <2>1. up[s] \in Seq({"hello"} \cup Cmds) /\ up[s] # <<>>
      BY <1>p, <1>13 DEF BackTypes, HandleHello
    <2>2. /\ Tail(up[s]) \in Seq({"hello"} \cup Cmds)
          /\ \A i \in DOMAIN Tail(up[s]) : Tail(up[s])[i] \in Cmds
      BY <1>f, <2>1, Rest DEF HelloFirst
    <2>3. UNCHANGED <<clientVars, front, down, callVars, gatewayVars>>
      BY <1>13 DEF HandleHello
    <2>4. BackTypes' /\ faults' \in 0..MaxFaults
      <3>1. CASE /\ back' = [back EXCEPT ![s] = "ready"]
                 /\ up' = [up EXCEPT ![s] = Tail(@)] /\ UNCHANGED faults
        BY <1>p, <2>2, <3>1 DEF BackTypes, HelloFirst, BackEnds
      <3>2. CASE back' = [back EXCEPT ![s] = "refused"] /\ up' = [up EXCEPT ![s] = <<>>] /\ Fault
        <4>1. BackTypes'
          BY <1>p, <3>2 DEF BackTypes, HelloFirst, BackEnds
        <4> QED
          BY <3>2, <4>1, FaultCounts
      <3> QED
        BY <1>13, <3>1, <3>2 DEF HandleHello
    <2> QED
      BY <2>3, <2>4, GatewayOnly, PartsLeft
  <1>14. ASSUME NEW s \in Sockets, HandleCommand(s) PROVE Types'
    <2>1. back[s] = "ready" /\ up[s] # <<>> /\ up' = [up EXCEPT ![s] = Tail(@)]
      BY <1>14 DEF HandleCommand
    <2>2. /\ Head(up[s]) \in Cmds /\ Tail(up[s]) \in Seq({"hello"} \cup Cmds)
          /\ \A i \in DOMAIN Tail(up[s]) : Tail(up[s])[i] \in Cmds
      BY <2>1, NextCommand
    <2>3. PICK k \in Cmds : k = Head(up[s])
      BY <2>2
    <2>4. UNCHANGED <<clientVars, faults, front, back, callVars, acted, answer, runs>>
      BY <1>14 DEF HandleCommand
    <2>5. BackTypes'
      BY <1>p, <2>1, <2>2, <2>4 DEF BackTypes, HelloFirst
    <2>6. \/ \E kind \in {"ack", "error"} : Reply(s, kind, k) /\ UNCHANGED <<handling, excused>>
          \/ /\ handling' = handling \cup {<<s, k>>} /\ UNCHANGED down
             /\ excused' = excused \cup {k} \/ excused' = excused
      BY <1>14, <2>3 DEF HandleCommand
    <2>7. TableTypes'
      BY <1>p, <2>4, <2>6 DEF TableTypes
    <2>8. DownTypes'
      BY <1>f, <2>6, PartsLeft, Replied DEF DownTypes
    <2> QED
      BY <1>p, <2>4, <2>5, <2>7, <2>8, GatewayOnly
  <1>15. ASSUME NEW s \in Sockets, GatewayCloses(s) PROVE Types'
    <2>1. BackTypes'
      BY <1>p, <1>15 DEF BackTypes, HelloFirst, BackEnds, GatewayCloses
    <2>2. faults' \in 0..MaxFaults
      BY <1>p, <1>15, FaultCounts DEF GatewayCloses
    <2>3. UNCHANGED <<clientVars, front, down, callVars, gatewayVars>>
      BY <1>15 DEF GatewayCloses
    <2> QED
      BY <2>1, <2>2, <2>3, GatewayOnly, PartsLeft
  <1>16. ASSUME NEW s \in Sockets, NEW k \in Cmds, HandlerActs(s, k) PROVE Types'
    <2>1. runs' \in [Cmds -> 0..MaxRuns]
      BY <1>p, <1>16, ClientAssumption DEF TableTypes, HandlerActs, ClientAssumption
    <2>2. TableTypes'
      BY <1>p, <1>16, <2>1 DEF TableTypes, HandlerActs
    <2>3. UNCHANGED <<clientVars, faults, wireVars, callVars>>
      BY <1>16 DEF HandlerActs
    <2> QED
      BY <1>p, <2>2, <2>3, GatewayOnly, PartsLeft DEF wireVars
  <1>17. ASSUME NEW s \in Sockets, NEW k \in Cmds, HandlerThrows(s, k) \/ HandlerAnswers(s, k)
         PROVE  Types'
    <2>1. \E kind \in {"ack", "error"} : Reply(s, kind, k)
      BY <1>17 DEF HandlerThrows, HandlerAnswers
    <2>2. DownTypes'
      BY <1>f, <2>1, Replied DEF DownTypes
    <2>3. TableTypes'
      BY <1>p, <1>17 DEF TableTypes, HandlerThrows, HandlerAnswers
    <2>4. UNCHANGED <<clientVars, front, back, up, callVars>>
      BY <1>17 DEF HandlerThrows, HandlerAnswers
    <2>5. faults' \in 0..MaxFaults
      BY <1>p, <1>17, FaultCounts DEF HandlerThrows, HandlerAnswers
    <2> QED
      BY <1>p, <2>2, <2>3, <2>4, <2>5, GatewayOnly, PartsLeft
  <1>18. CASE Restart
    <2>1. BackTypes'
      BY <1>p, <1>18 DEF BackTypes, HelloFirst, BackEnds, Restart
    <2>2. faults' \in 0..MaxFaults
      BY <1>18, FaultCounts DEF Restart
    <2>3. TableTypes'
      BY <1>p, <1>18 DEF TableTypes, Restart
    <2>4. UNCHANGED <<clientVars, front, down, callVars>>
      BY <1>18 DEF Restart
    <2> QED
      BY <2>1, <2>2, <2>3, <2>4, GatewayOnly, PartsLeft
  <1> QED
    BY <1>1, <1>2, <1>3, <1>4, <1>5, <1>6, <1>7, <1>8, <1>9, <1>10, <1>11, <1>12, <1>13, <1>14,
       <1>15, <1>16, <1>17, <1>18 DEF Next

\* TypeOK: the variables of RealtimeClient hold what their comments say.
THEOREM TypeCorrect == Spec => []TypeOK
  <1>1. Spec => []Types
    BY TypesBegin, TypesStep, PTL DEF Spec
  <1>2. Types => TypeOK
    BY DEF Types
  <1> QED
    BY <1>1, <1>2, PTL

------------------------------------------------------------------------------------
(* A client that has begun is on its way. *)

\* close() is for good, and a client that shows offline before it has never dialled: nothing
\* refreshes a session for it.
Fresh ==
  /\ dropped => stopped
  /\ ~dropped /\ state = "offline" => refresh = "idle" /\ \A s \in Sockets : front[s] = "unused"

\* NeverStuck with what makes it inductive.
OnItsWay == Fresh /\ NeverStuck

\* Every step keeps the client on its way.
LEMMA OnItsWayStep ==
  ASSUME TypeOK, OnItsWay, [Next]_vars
  PROVE  OnItsWay'
  <1>f. Fresh /\ NeverStuck
    BY DEF OnItsWay
  <1>h. current # 0 => current \in Sockets /\ front[current] \in {"dialing", "open"}
    BY ClientAssumption DEF TypeOK, ClientAssumption, Sockets
  <1>k. ASSUME UNCHANGED <<state, stopped, dropped, refresh, front>>,
               cycle # "idle" => cycle' # "idle", retry => retry'
        PROVE  OnItsWay'
    BY <1>f, <1>k DEF OnItsWay, Fresh, NeverStuck
  <1>l. UNCHANGED <<clientVars, front>> => OnItsWay'
    BY <1>k DEF clientVars
  <1>1. CASE UNCHANGED vars
    BY <1>1, <1>l DEF vars, wireVars
  <1>2. CASE Connect
    BY <1>f, <1>2 DEF OnItsWay, Fresh, NeverStuck, Connect, BeginCycle, wireVars
  <1>3. CASE RetryFires
    BY <1>f, <1>3 DEF OnItsWay, Fresh, NeverStuck, RetryFires, BeginCycle, wireVars
  <1>4. CASE ReadCapability
    BY <1>f, <1>4 DEF OnItsWay, Fresh, NeverStuck, ReadCapability, wireVars
  <1>5. CASE Enrolled
    BY <1>f, <1>5 DEF OnItsWay, Fresh, NeverStuck, Enrolled, CycleFails, wireVars
  <1>6. CASE SessionFails
    BY <1>f, <1>6 DEF OnItsWay, Fresh, NeverStuck, SessionFails, CycleFails, wireVars
  <1>7. ASSUME NEW s \in Sockets, Dial(s) PROVE OnItsWay'
    BY <1>f, <1>7 DEF OnItsWay, Fresh, NeverStuck, Dial
  <1>8. ASSUME NEW s \in Sockets, SocketOpens(s) PROVE OnItsWay'
    <2>1. front'[s] = "open" /\ state' = "ready" /\ UNCHANGED <<stopped, dropped>>
      BY <1>8 DEF SocketOpens, TypeOK
    <2> QED
      BY <1>f, <2>1 DEF OnItsWay, Fresh, NeverStuck
  <1>9. ASSUME NEW s \in Sockets, NEW refused \in BOOLEAN, SocketCloses(s, refused)
        PROVE  OnItsWay'
    <2>1. front[s] # "unused" /\ UNCHANGED <<dropped, refresh>>
      BY <1>9 DEF SocketCloses
    <2>2. ~dropped => state # "offline"
      BY <1>f, <2>1 DEF Fresh
    <2>3. CASE refused
      BY <1>f, <1>9, <2>1, <2>3 DEF OnItsWay, Fresh, NeverStuck, SocketCloses
    <2>4. CASE ~refused /\ stopped
      BY <1>f, <1>9, <2>1, <2>2, <2>4 DEF OnItsWay, Fresh, NeverStuck, SocketCloses
    <2>5. CASE ~refused /\ ~stopped
      BY <1>f, <1>9, <2>1, <2>5 DEF OnItsWay, Fresh, NeverStuck, SocketCloses
    <2> QED
      BY <2>3, <2>4, <2>5
  <1>10. CASE Close
    BY <1>10 DEF OnItsWay, Fresh, NeverStuck, Close
  <1>11. CASE RefreshStarts
    BY <1>f, <1>h, <1>11 DEF OnItsWay, Fresh, NeverStuck, RefreshStarts, wireVars
  <1>12. CASE RefreshReads
    BY <1>f, <1>12 DEF OnItsWay, Fresh, NeverStuck, RefreshReads, wireVars
  <1>13. CASE RefreshEnrols
    BY <1>f, <1>13 DEF OnItsWay, Fresh, NeverStuck, RefreshEnrols, wireVars
  <1>14. CASE OtherTabClears
    BY <1>14, <1>k DEF OtherTabClears, wireVars
  <1>15. ASSUME NEW k \in Cmds, Send(k) PROVE OnItsWay'
    BY <1>15, <1>l DEF Send
  <1>16. ASSUME NEW k \in Cmds, TimesOut(k) PROVE OnItsWay'
    BY <1>16, <1>l DEF TimesOut, wireVars
  <1>17. ASSUME NEW s \in Sockets, ReceiveAnswer(s) PROVE OnItsWay'
    BY <1>17, <1>l DEF ReceiveAnswer
  <1>18. ASSUME NEW s \in Sockets, HandleHello(s) PROVE OnItsWay'
    BY <1>18, <1>l DEF HandleHello
  <1>19. ASSUME NEW s \in Sockets, HandleCommand(s) PROVE OnItsWay'
    BY <1>19, <1>l DEF HandleCommand
  <1>20. ASSUME NEW s \in Sockets, GatewayCloses(s) PROVE OnItsWay'
    BY <1>20, <1>l DEF GatewayCloses
  <1>21. ASSUME NEW s \in Sockets, NEW k \in Cmds, HandlerActs(s, k) PROVE OnItsWay'
    BY <1>21, <1>l DEF HandlerActs, wireVars
  <1>22. ASSUME NEW s \in Sockets, NEW k \in Cmds, HandlerThrows(s, k) PROVE OnItsWay'
    BY <1>22, <1>l DEF HandlerThrows
  <1>23. ASSUME NEW s \in Sockets, NEW k \in Cmds, HandlerAnswers(s, k) PROVE OnItsWay'
    BY <1>23, <1>l DEF HandlerAnswers
  <1>24. CASE Restart
    BY <1>24, <1>l DEF Restart
  <1> QED
    BY <1>1, <1>2, <1>3, <1>4, <1>5, <1>6, <1>7, <1>8, <1>9, <1>10, <1>11, <1>12, <1>13, <1>14,
       <1>15, <1>16, <1>17, <1>18, <1>19, <1>20, <1>21, <1>22, <1>23, <1>24 DEF Next

\* NeverStuck: whatever closes, fails, clears the capability or refreshes the session, a client
\* that was not stopped has a cycle, a timer or an open socket.
THEOREM ClientNeverStuck == Spec => []NeverStuck
  <1>1. Init => OnItsWay
    BY DEF Init, OnItsWay, Fresh, NeverStuck
  <1>2. TypeOK /\ OnItsWay /\ [Next]_vars => OnItsWay'
    BY OnItsWayStep
  <1>3. OnItsWay => NeverStuck
    BY DEF OnItsWay
  <1> QED
    BY <1>1, <1>2, <1>3, TypeCorrect, PTL DEF Spec

------------------------------------------------------------------------------------
(* A command is held once. *)

\* The commands whose callers wait.
Waiting == {k \in Cmds : outcome[k] = "waiting"}

\* A step that leaves the commands alone and closes no socket.
LEMMA CommandsLeft ==
  ASSUME HeldOnce, TypeOK', UNCHANGED callVars,
         \A s \in Sockets : front[s] = "open" => front'[s] = "open"
  PROVE  HeldOnce'
  BY DEF HeldOnce, callVars

\* A settled command was held once, and is nowhere any more.
LEMMA SettledOnce ==
  ASSUME HeldOnce, TypeOK', NEW k \in Waiting, NEW o \in Service!Outcomes \ {"waiting"},
         Settle(k, o), UNCHANGED front
  PROVE  HeldOnce'
  <1>1. queue \in Seq(Cmds) /\ pending \in Seq(Cmds) /\ TypeOK
    BY DEF HeldOnce, TypeOK
  <1>2. /\ IsInjective(queue) /\ IsInjective(pending) /\ ToSet(queue) \cap ToSet(pending) = {}
        /\ ToSet(queue) \cup ToSet(pending) = Waiting
    BY <1>1, Joined DEF HeldOnce, Waiting
  <1>3. queue' = Without(queue, k) /\ pending' = Without(pending, k)
    BY DEF Settle
  <1>4. /\ queue' \in Seq(Cmds) /\ IsInjective(queue') /\ ToSet(queue') = ToSet(queue) \ {k}
        /\ pending' \in Seq(Cmds) /\ IsInjective(pending') /\ ToSet(pending') = ToSet(pending) \ {k}
    BY <1>1, <1>2, <1>3, Taken
  <1>5. Waiting' = Waiting \ {k}
    BY <1>1 DEF Settle, Waiting, TypeOK
  <1>6. IsInjective(queue' \o pending') /\ ToSet(queue' \o pending') = Waiting'
    BY <1>2, <1>4, <1>5, Joined
  <1>7. pending' # <<>> => pending # <<>>
    <2>1. CASE pending = <<>>
      <3>1. Without(pending, k) = pending
        BY <2>1 DEF Without, Contains
      <3> QED
        BY <1>3, <2>1, <3>1
    <2> QED
      BY <2>1
  <1> QED
    BY <1>6, <1>7 DEF HeldOnce, Waiting

\* Every step keeps a command held once.
LEMMA HeldOnceStep ==
  ASSUME HeldOnce, TypeOK', [Next]_vars
  PROVE  HeldOnce'
  <1>t. TypeOK /\ queue \in Seq(Cmds) /\ pending \in Seq(Cmds)
    BY DEF HeldOnce, TypeOK
  <1>h. /\ IsInjective(queue) /\ IsInjective(pending) /\ ToSet(queue) \cap ToSet(pending) = {}
        /\ ToSet(queue) \cup ToSet(pending) = Waiting
        /\ pending # <<>> => \E s \in Sockets : front[s] = "open"
    BY <1>t, Joined DEF HeldOnce, Waiting
  <1>k. ASSUME queue' \in Seq(Cmds), pending' \in Seq(Cmds),
               IsInjective(queue'), IsInjective(pending'),
               ToSet(queue') \cap ToSet(pending') = {},
               ToSet(queue') \cup ToSet(pending') = Waiting',
               pending' # <<>> => \E s \in Sockets : front'[s] = "open"
        PROVE  HeldOnce'
    BY <1>k, Joined DEF HeldOnce, Waiting
  <1>e. <<>> \in Seq(Cmds) /\ IsInjective(<<>>) /\ ToSet(<<>>) = {}
    BY DEF IsInjective, ToSet
  <1>1. CASE UNCHANGED vars
    BY <1>1, CommandsLeft DEF vars, wireVars
  <1>2. CASE Connect
    BY <1>2, CommandsLeft DEF Connect, wireVars
  <1>3. CASE RetryFires
    BY <1>3, CommandsLeft DEF RetryFires, wireVars
  <1>4. CASE ReadCapability
    BY <1>4, CommandsLeft DEF ReadCapability, wireVars
  <1>5. CASE Enrolled
    BY <1>5, CommandsLeft DEF Enrolled, wireVars
  <1>6. CASE SessionFails
    BY <1>6, CommandsLeft DEF SessionFails, wireVars
  <1>7. ASSUME NEW s \in Sockets, Dial(s) PROVE HeldOnce'
    <2>1. \A r \in Sockets : front[r] = "open" => front'[r] = "open"
      BY <1>t, <1>7 DEF Dial, TypeOK
    <2> QED
      BY <1>7, <2>1, CommandsLeft DEF Dial
  <1>8. ASSUME NEW s \in Sockets, SocketOpens(s) PROVE HeldOnce'
    <2>1. front'[s] = "open" /\ pending' = pending \o queue /\ queue' = <<>> /\ UNCHANGED outcome
      BY <1>t, <1>8 DEF SocketOpens, TypeOK
    <2>2. /\ pending' \in Seq(Cmds) /\ IsInjective(pending')
          /\ ToSet(pending') = Waiting
      <3>1. ToSet(pending) \cap ToSet(queue) = {} /\ ToSet(pending) \cup ToSet(queue) = Waiting
        BY <1>h
      <3>2. /\ pending \o queue \in Seq(Cmds) /\ IsInjective(pending \o queue)
            /\ ToSet(pending \o queue) = Waiting
        BY <1>t, <1>h, <3>1, Joined
      <3> QED
        BY <2>1, <3>2
    <2> QED
      BY <1>e, <1>k, <2>1, <2>2 DEF Waiting
  <1>9. ASSUME NEW s \in Sockets, NEW refused \in BOOLEAN, SocketCloses(s, refused)
        PROVE  HeldOnce'
    <2>1. queue' = Reverse(pending) \o queue /\ pending' = <<>> /\ UNCHANGED outcome
      BY <1>9 DEF SocketCloses
    <2>2. /\ Reverse(pending) \in Seq(Cmds) /\ IsInjective(Reverse(pending))
          /\ ToSet(Reverse(pending)) = ToSet(pending)
      BY <1>t, <1>h, Reversed
    <2>3. queue' \in Seq(Cmds) /\ IsInjective(queue') /\ ToSet(queue') = Waiting
      BY <1>t, <1>h, <2>1, <2>2, Joined
    <2> QED
      BY <1>e, <1>k, <2>1, <2>3 DEF Waiting
  <1>10. CASE Close
    <2>1. queue' = <<>> /\ pending' = <<>> /\ Waiting' = {}
      BY <1>t, <1>10 DEF Close, Waiting, TypeOK, Service!Outcomes
    <2> QED
      BY <1>e, <1>k, <2>1
  <1>11. CASE RefreshStarts
    BY <1>11, CommandsLeft DEF RefreshStarts, wireVars
  <1>12. CASE RefreshReads
    BY <1>12, CommandsLeft DEF RefreshReads, wireVars
  <1>13. CASE RefreshEnrols
    BY <1>13, CommandsLeft DEF RefreshEnrols, wireVars
  <1>14. CASE OtherTabClears
    BY <1>14, CommandsLeft DEF OtherTabClears, wireVars
  <1>15. ASSUME NEW k \in Cmds, Send(k) PROVE HeldOnce'
    <2>1. outcome[k] = "unsent" /\ UNCHANGED front
      BY <1>15 DEF Send
    <2>2. k \notin ToSet(queue) /\ k \notin ToSet(pending)
      BY <1>h, <2>1 DEF Waiting
    <2>3. CASE /\ current # 0 /\ front[current] = "open"
               /\ pending' = Append(pending, k) /\ UNCHANGED queue
               /\ outcome' = [outcome EXCEPT ![k] = "waiting"]
      <3>1. Waiting' = Waiting \cup {k}
        BY <1>t, <2>3 DEF Waiting, TypeOK
      <3>2. /\ pending' \in Seq(Cmds) /\ IsInjective(pending')
            /\ ToSet(pending') = ToSet(pending) \cup {k}
        BY <1>t, <1>h, <2>2, <2>3, Appended
      <3>3. current \in Sockets
        BY <1>t, <2>3, ClientAssumption DEF TypeOK, ClientAssumption, Sockets
      <3> QED
        BY <1>t, <1>h, <1>k, <2>1, <2>2, <2>3, <3>1, <3>2, <3>3
    <2>4. CASE /\ outcome' = [outcome EXCEPT ![k] = "rejected"] /\ UNCHANGED <<queue, pending>>
      <3>1. Waiting' = Waiting
        BY <1>t, <2>1, <2>4 DEF Waiting, TypeOK
      <3> QED
        BY <1>t, <1>h, <1>k, <2>1, <2>4, <3>1
    <2>5. CASE /\ outcome' = [outcome EXCEPT ![k] = "waiting"] /\ queue' = Append(queue, k)
               /\ UNCHANGED pending
      <3>1. Waiting' = Waiting \cup {k}
        BY <1>t, <2>5 DEF Waiting, TypeOK
      <3>2. /\ queue' \in Seq(Cmds) /\ IsInjective(queue')
            /\ ToSet(queue') = ToSet(queue) \cup {k}
        BY <1>t, <1>h, <2>2, <2>5, Appended
      <3> QED
        BY <1>t, <1>h, <1>k, <2>1, <2>2, <2>5, <3>1, <3>2
    <2> QED
      BY <1>15, <2>3, <2>4, <2>5 DEF Send
  <1>16. ASSUME NEW k \in Cmds, TimesOut(k) PROVE HeldOnce'
    <2>1. /\ k \in Waiting /\ Settle(k, "rejected") /\ UNCHANGED front
          /\ "rejected" \in Service!Outcomes \ {"waiting"}
      BY <1>16 DEF TimesOut, Waiting, wireVars, Service!Outcomes
    <2> QED
      BY <2>1, SettledOnce
  <1>17. ASSUME NEW s \in Sockets, ReceiveAnswer(s) PROVE HeldOnce'
    <2> DEFINE k == Head(down[s])[2]
    <2>1. UNCHANGED front
      BY <1>17 DEF ReceiveAnswer
    <2>2. CASE UNCHANGED callVars
      BY <2>1, <2>2, CommandsLeft
    <2>3. ASSUME NEW o \in Service!Outcomes \ {"waiting"}, Contains(pending, k), Settle(k, o)
          PROVE  HeldOnce'
      <3>1. k \in ToSet(pending)
        BY <1>t, <2>3 DEF Contains, ToSet
      <3>2. k \in Waiting
        BY <1>h, <3>1
      <3> QED
        BY <2>1, <2>3, <3>2, SettledOnce
    <2> QED
      BY <1>17, <2>2, <2>3 DEF ReceiveAnswer, Service!Outcomes
  <1>18. ASSUME NEW s \in Sockets, HandleHello(s) PROVE HeldOnce'
    BY <1>18, CommandsLeft DEF HandleHello
  <1>19. ASSUME NEW s \in Sockets, HandleCommand(s) PROVE HeldOnce'
    BY <1>19, CommandsLeft DEF HandleCommand
  <1>20. ASSUME NEW s \in Sockets, GatewayCloses(s) PROVE HeldOnce'
    BY <1>20, CommandsLeft DEF GatewayCloses
  <1>21. ASSUME NEW s \in Sockets, NEW k \in Cmds, HandlerActs(s, k) PROVE HeldOnce'
    BY <1>21, CommandsLeft DEF HandlerActs, wireVars
  <1>22. ASSUME NEW s \in Sockets, NEW k \in Cmds, HandlerThrows(s, k) PROVE HeldOnce'
    BY <1>22, CommandsLeft DEF HandlerThrows
  <1>23. ASSUME NEW s \in Sockets, NEW k \in Cmds, HandlerAnswers(s, k) PROVE HeldOnce'
    BY <1>23, CommandsLeft DEF HandlerAnswers
  <1>24. CASE Restart
    BY <1>24, CommandsLeft DEF Restart
  <1> QED
    BY <1>1, <1>2, <1>3, <1>4, <1>5, <1>6, <1>7, <1>8, <1>9, <1>10, <1>11, <1>12, <1>13, <1>14,
       <1>15, <1>16, <1>17, <1>18, <1>19, <1>20, <1>21, <1>22, <1>23, <1>24 DEF Next

\* HeldOnce: sockets that open, close and are given up, timers and answers never lose or repeat
\* a command in the hands of the client.
THEOREM CommandHeldOnce == Spec => []HeldOnce
  <1>1. Init /\ TypeOK => HeldOnce
    <2> SUFFICES ASSUME Init, TypeOK PROVE HeldOnce
      OBVIOUS
    <2>1. queue \o pending = <<>>
      BY DEF Init
    <2>2. \A k \in Cmds : outcome[k] = "unsent"
      BY DEF Init, Service!ServiceInit
    <2> QED
      BY <2>1, <2>2 DEF HeldOnce, IsInjective, ToSet, Init
  <1>2. HeldOnce /\ TypeOK' /\ [Next]_vars => HeldOnce'
    BY HeldOnceStep
  <1> QED
    BY <1>1, <1>2, TypeCorrect, PTL DEF Spec

------------------------------------------------------------------------------------
(* A second run has its reasons. *)

\* The handlers of a command that have not answered.
Handlers(k) == {s \in Sockets : <<s, k>> \in handling \cup acted}

\* A command whose copies never overlapped has one handler at most, which has acted or not; it
\* was run once if that one has acted or its answer is remembered, and not at all before.
RunsOnce(k) ==
  /\ \A r, s \in Handlers(k) : r = s
  /\ \A s \in Sockets : ~(<<s, k>> \in handling /\ <<s, k>> \in acted)
  /\ \A s \in Sockets : <<s, k>> \in handling => runs[k] = 0 /\ k \notin answer
  /\ \A s \in Sockets : <<s, k>> \in acted => runs[k] = 1
  /\ runs[k] # 0 => runs[k] = 1 /\ (k \in answer \/ \E s \in Sockets : <<s, k>> \in acted)

\* SecondRunExcused with what makes it inductive.
OverlapOrOnce == \A k \in Cmds : k \notin excused => RunsOnce(k)

\* A step that leaves the gateway's tables alone.
LEMMA TablesLeft ==
  ASSUME OverlapOrOnce, UNCHANGED gatewayVars
  PROVE  OverlapOrOnce'
  BY DEF OverlapOrOnce, RunsOnce, Handlers, gatewayVars

\* Every step keeps a command that was never handled twice at once run once at most.
LEMMA OverlapOrOnceStep ==
  ASSUME Types, OverlapOrOnce, [Next]_vars
  PROVE  OverlapOrOnce'
  <1>t. TypeOK
    BY DEF Types
  <1>1. CASE UNCHANGED vars
    BY <1>1, TablesLeft DEF vars
  <1>2. CASE Connect \/ RetryFires \/ Close
    BY <1>2, TablesLeft DEF Connect, RetryFires, Close
  <1>3. CASE ReadCapability \/ Enrolled \/ SessionFails
    BY <1>3, TablesLeft DEF ReadCapability, Enrolled, SessionFails
  <1>4. ASSUME NEW s \in Sockets, Dial(s) \/ SocketOpens(s) PROVE OverlapOrOnce'
    BY <1>4, TablesLeft DEF Dial, SocketOpens
  <1>5. ASSUME NEW s \in Sockets, NEW refused \in BOOLEAN, SocketCloses(s, refused)
        PROVE  OverlapOrOnce'
    BY <1>5, TablesLeft DEF SocketCloses
  <1>6. CASE RefreshStarts \/ RefreshReads \/ RefreshEnrols \/ OtherTabClears
    BY <1>6, TablesLeft DEF RefreshStarts, RefreshReads, RefreshEnrols, OtherTabClears
  <1>7. ASSUME NEW k \in Cmds, Send(k) \/ TimesOut(k) PROVE OverlapOrOnce'
    BY <1>7, TablesLeft DEF Send, TimesOut
  <1>8. ASSUME NEW s \in Sockets, ReceiveAnswer(s) \/ HandleHello(s) \/ GatewayCloses(s)
        PROVE  OverlapOrOnce'
    BY <1>8, TablesLeft DEF ReceiveAnswer, HandleHello, GatewayCloses
  <1>9. ASSUME NEW s \in Sockets, HandleCommand(s) PROVE OverlapOrOnce'
    <2>1. Head(up[s]) \in Cmds
      BY <1>9, NextCommand DEF HandleCommand
    <2>2. PICK c \in Cmds : c = Head(up[s])
      BY <2>1
    <2>3. UNCHANGED <<acted, answer, runs>>
      BY <1>9 DEF HandleCommand
    <2>4. CASE UNCHANGED <<handling, excused>>
      BY <2>3, <2>4, TablesLeft DEF gatewayVars
    <2>5. CASE /\ c \notin answer
               /\ handling' = handling \cup {<<s, c>>}
               /\ excused' = IF \E r \in Sockets : <<r, c>> \in handling \cup acted
                               THEN excused \cup {c} ELSE excused
      <3> SUFFICES ASSUME NEW k \in Cmds, k \notin excused' PROVE RunsOnce(k)'
        BY DEF OverlapOrOnce
      <3>1. RunsOnce(k)
        BY <2>5 DEF OverlapOrOnce
      <3>2. CASE k # c
        <4>1. \A r \in Sockets : <<r, k>> \in handling' <=> <<r, k>> \in handling
          BY <2>5, <3>2
        <4> QED
          BY <2>3, <3>1, <4>1 DEF RunsOnce, Handlers
      <3>3. CASE k = c
        <4>1. \A r \in Sockets : <<r, k>> \notin handling /\ <<r, k>> \notin acted
          BY <2>5, <3>3
        <4>2. runs[k] = 0
          BY <2>5, <3>1, <3>3, <4>1 DEF RunsOnce
        <4>3. \A r \in Sockets : <<r, k>> \in handling' => r = s
          BY <2>5, <4>1
        <4> QED
          BY <2>3, <2>5, <3>3, <4>1, <4>2, <4>3 DEF RunsOnce, Handlers
      <3> QED
        BY <3>2, <3>3
    <2> QED
      BY <1>9, <2>2, <2>4, <2>5 DEF HandleCommand
  <1>10. ASSUME NEW s \in Sockets, NEW c \in Cmds, HandlerActs(s, c) PROVE OverlapOrOnce'
    <2>1. /\ <<s, c>> \in handling
          /\ handling' = handling \ {<<s, c>>} /\ acted' = acted \cup {<<s, c>>}
          /\ runs' = [runs EXCEPT ![c] = @ + 1] /\ UNCHANGED <<answer, excused>>
      BY <1>10 DEF HandlerActs
    <2> SUFFICES ASSUME NEW k \in Cmds, k \notin excused' PROVE RunsOnce(k)'
      BY DEF OverlapOrOnce
    <2>2. RunsOnce(k)
      BY <2>1 DEF OverlapOrOnce
    <2>3. CASE k # c
      <3>1. /\ \A r \in Sockets : <<r, k>> \in handling' <=> <<r, k>> \in handling
            /\ \A r \in Sockets : <<r, k>> \in acted' <=> <<r, k>> \in acted
            /\ runs'[k] = runs[k]
        BY <1>t, <2>1, <2>3 DEF TypeOK
      <3> QED
        BY <2>1, <2>2, <3>1 DEF RunsOnce, Handlers
    <2>4. CASE k = c
      <3>1. runs[k] = 0 /\ runs'[k] = 1
        BY <1>t, <2>1, <2>2, <2>4 DEF RunsOnce, TypeOK
      <3>2. \A r \in Sockets : <<r, k>> \in handling \/ <<r, k>> \in acted => r = s
        BY <2>1, <2>2, <2>4 DEF RunsOnce, Handlers
      <3>3. \A r \in Sockets : <<r, k>> \notin handling' /\ (<<r, k>> \in acted' <=> r = s)
        BY <2>1, <2>2, <2>4, <3>2 DEF RunsOnce
      <3> QED
        BY <2>1, <3>1, <3>3 DEF RunsOnce, Handlers
    <2> QED
      BY <2>3, <2>4
  <1>11. ASSUME NEW s \in Sockets, NEW c \in Cmds, HandlerThrows(s, c) PROVE OverlapOrOnce'
    <2>1. CASE handling' = handling \ {<<s, c>>} /\ UNCHANGED <<acted, answer, runs, excused>>
      BY <2>1 DEF OverlapOrOnce, RunsOnce, Handlers
    <2>2. CASE /\ acted' = acted \ {<<s, c>>} /\ excused' = excused \cup {c}
               /\ UNCHANGED <<handling, answer, runs>>
      <3> SUFFICES ASSUME NEW k \in Cmds, k \notin excused' PROVE RunsOnce(k)'
        BY DEF OverlapOrOnce
      <3>1. RunsOnce(k) /\ k # c
        BY <2>2 DEF OverlapOrOnce
      <3>2. \A r \in Sockets : <<r, k>> \in acted' <=> <<r, k>> \in acted
        BY <2>2, <3>1
      <3> QED
        BY <2>2, <3>1, <3>2 DEF RunsOnce, Handlers
    <2> QED
      BY <1>11, <2>1, <2>2 DEF HandlerThrows
  <1>12. ASSUME NEW s \in Sockets, NEW c \in Cmds, HandlerAnswers(s, c) PROVE OverlapOrOnce'
    <2>1. /\ <<s, c>> \in acted /\ acted' = acted \ {<<s, c>>} /\ answer' = answer \cup {c}
          /\ UNCHANGED <<handling, runs, excused>>
      BY <1>12 DEF HandlerAnswers
    <2> SUFFICES ASSUME NEW k \in Cmds, k \notin excused' PROVE RunsOnce(k)'
      BY DEF OverlapOrOnce
    <2>2. RunsOnce(k)
      BY <2>1 DEF OverlapOrOnce
    <2>3. CASE k # c
      <3>1. /\ \A r \in Sockets : <<r, k>> \in acted' <=> <<r, k>> \in acted
            /\ k \in answer' <=> k \in answer
        BY <2>1, <2>3
      <3> QED
        BY <2>1, <2>2, <3>1 DEF RunsOnce, Handlers
    <2>4. CASE k = c
      <3>1. \A r \in Sockets : <<r, k>> \in handling \/ <<r, k>> \in acted => r = s
        BY <2>1, <2>2, <2>4 DEF RunsOnce, Handlers
      <3>2. \A r \in Sockets : <<r, k>> \notin handling' /\ <<r, k>> \notin acted'
        BY <2>1, <2>2, <2>4, <3>1 DEF RunsOnce
      <3>3. runs'[k] = 1 /\ k \in answer'
        BY <2>1, <2>2, <2>4 DEF RunsOnce
      <3> QED
        BY <3>2, <3>3 DEF RunsOnce, Handlers
    <2> QED
      BY <2>3, <2>4
  <1>13. CASE Restart
    <2>1. /\ handling' = {} /\ acted' = {} /\ UNCHANGED <<answer, runs>>
          /\ excused' = excused \cup {k \in Cmds : \E s \in Sockets : <<s, k>> \in acted}
      BY <1>13 DEF Restart
    <2> SUFFICES ASSUME NEW k \in Cmds, k \notin excused' PROVE RunsOnce(k)'
      BY DEF OverlapOrOnce
    <2>2. RunsOnce(k) /\ \A s \in Sockets : <<s, k>> \notin acted
      BY <2>1 DEF OverlapOrOnce
    <2> QED
      BY <2>1, <2>2 DEF RunsOnce, Handlers
  <1> QED
    BY <1>1, <1>2, <1>3, <1>4, <1>5, <1>6, <1>7, <1>8, <1>9, <1>10, <1>11, <1>12, <1>13 DEF Next

\* Spec keeps the types, HelloFirst with them.
LEMMA TypesAlways == Spec => []Types
  BY TypesBegin, TypesStep, PTL DEF Spec

\* SecondRunExcused: a command sent again is answered from memory, and run again only if its
\* copies were handled at once, its handler threw after its work or the gateway went down
\* before it remembered the answer.
THEOREM SecondRunIsExcused == Spec => []SecondRunExcused
  <1>1. Init => OverlapOrOnce
    BY DEF Init, Service!ServiceInit, OverlapOrOnce, RunsOnce, Handlers
  <1>2. Types /\ OverlapOrOnce /\ [Next]_vars => OverlapOrOnce'
    BY OverlapOrOnceStep
  <1>3. OverlapOrOnce => SecondRunExcused
    <2> SUFFICES ASSUME OverlapOrOnce, NEW k \in Cmds, runs[k] > 1, k \notin excused PROVE FALSE
      BY DEF SecondRunExcused
    <2>1. runs[k] = 0 \/ runs[k] = 1
      BY DEF OverlapOrOnce, RunsOnce
    <2> QED
      BY <2>1
  <1> QED
    BY <1>1, <1>2, <1>3, TypesAlways, PTL DEF Spec

------------------------------------------------------------------------------------
(* The client and the gateway implement the command service. *)

\* The commands given to send().
Sent == {k \in Cmds : outcome[k] # "unsent"}

\* What is on its way to the gateway or being handled was sent, and an acknowledgement that is
\* on its way back, is remembered or is about to be, is of a command that was run.
AnswersAreTrue ==
  /\ \A s \in Sockets : \A i \in DOMAIN up[s] :
       up[s][i] \in Sent \/ (i = 1 /\ back[s] = "fresh")
  /\ \A s \in Sockets, k \in Cmds : <<s, k>> \in handling => k \in Sent
  /\ \A s \in Sockets, k \in Cmds : <<s, k>> \in acted \/ k \in answer => runs[k] > 0
  /\ \A s \in Sockets : \A i \in DOMAIN down[s] :
       down[s][i][1] = "ack" => runs[down[s][i][2]] > 0

\* A step that adds no frame and leaves the gateway's tables alone.
LEMMA NothingAdded ==
  ASSUME AnswersAreTrue, UNCHANGED gatewayVars, Sent \subseteq Sent',
         UNCHANGED <<up, back>>, UNCHANGED down
  PROVE  AnswersAreTrue'
  BY DEF AnswersAreTrue, gatewayVars

\* A settled command is one that was sent.
LEMMA SettledSent ==
  ASSUME TypeOK, NEW k \in Cmds, NEW o \in Service!Outcomes \ {"unsent"}, Settle(k, o)
  PROVE  Sent \subseteq Sent'
  BY DEF Settle, Sent, TypeOK

\* A reply that is an acknowledgement is of a command that was run.
LEMMA RepliedTrue ==
  ASSUME TypeOK, AnswersAreTrue, NEW s \in Sockets, NEW kind \in {"ack", "error"}, NEW k \in Cmds,
         Reply(s, kind, k), kind = "ack" => runs[k] > 0
  PROVE  \A r \in Sockets : \A i \in DOMAIN down'[r] :
           down'[r][i][1] = "ack" => runs[down'[r][i][2]] > 0
  <1>1. CASE UNCHANGED down
    BY <1>1 DEF AnswersAreTrue
  <1>2. CASE down' = [down EXCEPT ![s] = Append(@, <<kind, k>>)]
    <2> DEFINE d == down[s]
    <2>1. down \in [Sockets -> Seq(Answers)] /\ <<kind, k>> \in Answers
      BY DEF TypeOK, Answers
    <2>2. d \in Seq(Answers)
      BY <2>1
    <2>3. \A i \in DOMAIN Append(d, <<kind, k>>) :
            \/ i \in DOMAIN d /\ Append(d, <<kind, k>>)[i] = d[i]
            \/ Append(d, <<kind, k>>)[i] = <<kind, k>>
      BY <2>1, <2>2, Appended
    <2>4. down' = [down EXCEPT ![s] = Append(d, <<kind, k>>)]
      BY <1>2
    <2>5. \A i \in DOMAIN d : d[i][1] = "ack" => runs[d[i][2]] > 0
      BY DEF AnswersAreTrue
    <2>6. \A r \in Sockets : r # s => down'[r] = down[r]
      BY <2>1, <2>4
    <2>7. down'[s] = Append(d, <<kind, k>>)
      BY <2>1, <2>4
    <2> HIDE DEF d
    <2>8. \A i \in DOMAIN down'[s] : down'[s][i][1] = "ack" => runs[down'[s][i][2]] > 0
      BY <2>3, <2>5, <2>7
    <2> QED
      BY <2>6, <2>8 DEF AnswersAreTrue
  <1> QED
    BY <1>1, <1>2 DEF Reply

\* Every step keeps the answers true.
LEMMA AnswersAreTrueStep ==
  ASSUME Types, HeldOnce, AnswersAreTrue, [Next]_vars
  PROVE  AnswersAreTrue'
  <1>t. TypeOK
    BY DEF Types
  <1>u. outcome' = outcome => Sent' = Sent
    BY DEF Sent
  <1>1. CASE UNCHANGED vars
    BY <1>1, <1>u, NothingAdded DEF vars, wireVars, callVars
  <1>2. CASE Connect \/ RetryFires \/ ReadCapability \/ Enrolled \/ SessionFails
    BY <1>2, <1>u, NothingAdded
    DEF Connect, RetryFires, ReadCapability, Enrolled, SessionFails, wireVars, callVars
  <1>3. CASE RefreshStarts \/ RefreshReads \/ RefreshEnrols \/ OtherTabClears
    BY <1>3, <1>u, NothingAdded
    DEF RefreshStarts, RefreshReads, RefreshEnrols, OtherTabClears, wireVars, callVars
  <1>4. ASSUME NEW s \in Sockets, Dial(s) PROVE AnswersAreTrue'
    BY <1>4, <1>u, NothingAdded DEF Dial, callVars
  <1>5. ASSUME NEW s \in Sockets, SocketOpens(s) PROVE AnswersAreTrue'
    <2> DEFINE u == <<"hello">> \o queue
    <2>1. queue \in Seq(Cmds) /\ pending \in Seq(Cmds)
      BY <1>t DEF TypeOK
    <2>2. ToSet(queue) \subseteq Sent
      <3>1. ToSet(queue) \subseteq ToSet(queue \o pending)
        BY <2>1, Joined
      <3> QED
        BY <3>1 DEF HeldOnce, Sent
    <2>3. \A i \in DOMAIN u : i = 1 \/ u[i] \in ToSet(queue)
      <3>1. DOMAIN u = 1..(Len(queue) + 1) /\ \A i \in 2..(Len(queue) + 1) : u[i] = queue[i - 1]
        BY <2>1
      <3>2. \A i \in 2..(Len(queue) + 1) : i - 1 \in DOMAIN queue
        BY <2>1
      <3>3. \A i \in 1..(Len(queue) + 1) : i = 1 \/ i \in 2..(Len(queue) + 1)
        BY <2>1
      <3> HIDE DEF u
      <3> QED
        BY <3>1, <3>2, <3>3 DEF ToSet
    <2>4. /\ up' = [up EXCEPT ![s] = u] /\ back' = [back EXCEPT ![s] = "fresh"]
          /\ UNCHANGED <<down, outcome, gatewayVars>>
      BY <1>5 DEF SocketOpens
    <2> HIDE DEF u
    <2>5. \A i \in DOMAIN u : u[i] \in Sent \/ i = 1
      BY <2>2, <2>3
    <2> QED
      BY <1>t, <1>u, <2>4, <2>5 DEF AnswersAreTrue, TypeOK, gatewayVars
  <1>6. ASSUME NEW s \in Sockets, NEW refused \in BOOLEAN, SocketCloses(s, refused)
        PROVE  AnswersAreTrue'
    <2>1. /\ down' = [down EXCEPT ![s] = <<>>]
          /\ UNCHANGED <<back, up, outcome, gatewayVars>>
      BY <1>6 DEF SocketCloses
    <2> QED
      BY <1>t, <1>u, <2>1 DEF AnswersAreTrue, TypeOK, gatewayVars
  <1>7. CASE Close
    <2>1. Sent \subseteq Sent'
      BY <1>t, <1>7 DEF Close, Sent, TypeOK
    <2> QED
      BY <1>7, <2>1, NothingAdded DEF Close
  <1>8. ASSUME NEW k \in Cmds, Send(k) PROVE AnswersAreTrue'
    <2>1. Sent' = Sent \cup {k}
      BY <1>t, <1>8 DEF Send, Sent, TypeOK
    <2>2. UNCHANGED <<back, down, gatewayVars>>
      BY <1>8 DEF Send
    <2>3. CASE UNCHANGED up
      BY <2>1, <2>2, <2>3, NothingAdded
    <2>4. CASE current # 0 /\ up' = [up EXCEPT ![current] = Append(@, k)]
      <3> DEFINE u == up[current]
      <3>1. current \in Sockets
        BY <1>t, <2>4, ClientAssumption DEF TypeOK, ClientAssumption, Sockets
      <3>2. u \in Seq({"hello"} \cup Cmds) /\ k \in {"hello"} \cup Cmds
        BY <1>t, <3>1 DEF TypeOK
      <3>3. \A i \in DOMAIN Append(u, k) :
              (i \in DOMAIN u /\ Append(u, k)[i] = u[i]) \/ Append(u, k)[i] = k
        BY <3>2, Appended
      <3>4. /\ up' = [up EXCEPT ![current] = Append(u, k)]
            /\ up \in [Sockets -> Seq({"hello"} \cup Cmds)]
        BY <1>t, <2>4 DEF TypeOK
      <3>5. \A i \in DOMAIN u : u[i] \in Sent \/ (i = 1 /\ back[current] = "fresh")
        BY <3>1 DEF AnswersAreTrue
      <3> HIDE DEF u
      <3>6. \A i \in DOMAIN Append(u, k) :
              Append(u, k)[i] \in Sent' \/ (i = 1 /\ back'[current] = "fresh")
        BY <2>1, <2>2, <3>3, <3>5
      <3> QED
        BY <2>1, <2>2, <3>1, <3>4, <3>6 DEF AnswersAreTrue, gatewayVars
    <2> QED
      BY <1>8, <2>3, <2>4 DEF Send
  <1>9. ASSUME NEW k \in Cmds, TimesOut(k) PROVE AnswersAreTrue'
    <2>1. Settle(k, "rejected") /\ "rejected" \in Service!Outcomes \ {"unsent"}
      BY <1>9 DEF TimesOut, Service!Outcomes
    <2>2. Sent \subseteq Sent'
      BY <1>t, <2>1, SettledSent
    <2> QED
      BY <1>9, <2>2, NothingAdded DEF TimesOut, wireVars
  <1>10. ASSUME NEW s \in Sockets, ReceiveAnswer(s) PROVE AnswersAreTrue'
    <2>1. down[s] \in Seq(Answers) /\ down[s] # <<>>
      BY <1>t, <1>10 DEF TypeOK, ReceiveAnswer, Answers
    <2>2. Head(down[s])[2] \in Cmds
      BY <2>1, Rest DEF Answers
    <2>3. Sent \subseteq Sent'
      <3>1. CASE UNCHANGED callVars
        BY <1>u, <3>1 DEF callVars
      <3>2. ASSUME NEW o \in Service!Outcomes \ {"unsent"}, Settle(Head(down[s])[2], o)
            PROVE  Sent \subseteq Sent'
        BY <1>t, <2>2, <3>2, SettledSent
      <3> QED
        BY <1>10, <3>1, <3>2 DEF ReceiveAnswer, Service!Outcomes
    <2>4. \A i \in DOMAIN Tail(down[s]) :
            Tail(down[s])[i][1] = "ack" => runs[Tail(down[s])[i][2]] > 0
      BY <2>1, Rest DEF AnswersAreTrue
    <2>5. down' = [down EXCEPT ![s] = Tail(@)] /\ UNCHANGED <<back, up, gatewayVars>>
      BY <1>10 DEF ReceiveAnswer
    <2>6. \A r \in Sockets : down'[r] = IF r = s THEN Tail(down[s]) ELSE down[r]
      BY <1>t, <2>5 DEF TypeOK
    <2>7. \A r \in Sockets : \A i \in DOMAIN down'[r] :
            down'[r][i][1] = "ack" => runs[down'[r][i][2]] > 0
      BY <2>4, <2>6 DEF AnswersAreTrue
    <2> QED
      BY <2>3, <2>5, <2>7 DEF AnswersAreTrue, gatewayVars
  <1>11. ASSUME NEW s \in Sockets, HandleHello(s) PROVE AnswersAreTrue'
    <2>1. up[s] \in Seq({"hello"} \cup Cmds) /\ up[s] # <<>>
      BY <1>t, <1>11 DEF TypeOK, HandleHello
    <2>2. \A i \in DOMAIN Tail(up[s]) : Tail(up[s])[i] \in Sent
      BY <2>1, Rest DEF AnswersAreTrue
    <2>3. UNCHANGED <<outcome, down, gatewayVars>>
      BY <1>11 DEF HandleHello, callVars
    <2>4. /\ up' = [up EXCEPT ![s] = Tail(@)] \/ up' = [up EXCEPT ![s] = <<>>]
          /\ \A r \in Sockets : r # s => back'[r] = back[r]
      BY <1>t, <1>11 DEF HandleHello, TypeOK
    <2>5. \A i \in DOMAIN up'[s] : up'[s][i] \in Sent
      <3>1. up'[s] = Tail(up[s]) \/ up'[s] = <<>>
        BY <1>t, <2>4 DEF TypeOK
      <3>2. DOMAIN <<>> = {}
        OBVIOUS
      <3> QED
        BY <2>2, <3>1, <3>2
    <2>6. \A r \in Sockets : r # s => up'[r] = up[r]
      BY <1>t, <2>4 DEF TypeOK
    <2>7. \A r \in Sockets : \A i \in DOMAIN up'[r] :
            up'[r][i] \in Sent \/ (i = 1 /\ back'[r] = "fresh")
      BY <2>4, <2>5, <2>6 DEF AnswersAreTrue
    <2> QED
      BY <1>u, <2>3, <2>7 DEF AnswersAreTrue, gatewayVars
  <1>12. ASSUME NEW s \in Sockets, HandleCommand(s) PROVE AnswersAreTrue'
    <2>1. back[s] = "ready" /\ up[s] # <<>> /\ up' = [up EXCEPT ![s] = Tail(@)]
      BY <1>12 DEF HandleCommand
    <2>2. Head(up[s]) \in Cmds
      BY <2>1, NextCommand
    <2>3. PICK k \in Cmds : k = Head(up[s])
      BY <2>2
    <2>4. up[s] \in Seq({"hello"} \cup Cmds)
      BY <1>t DEF TypeOK
    <2>5. \A i \in DOMAIN up[s] : up[s][i] \in Sent
      BY <2>1 DEF AnswersAreTrue
    <2>6. k \in Sent /\ \A i \in DOMAIN Tail(up[s]) : Tail(up[s])[i] \in Sent
      BY <2>1, <2>3, <2>4, <2>5, Rest
    <2>7. UNCHANGED <<back, outcome, acted, answer, runs>>
      BY <1>12 DEF HandleCommand, callVars
    <2>8. \A r \in Sockets : \A i \in DOMAIN up'[r] :
            up'[r][i] \in Sent \/ (i = 1 /\ back[r] = "fresh")
      BY <1>t, <2>1, <2>6 DEF AnswersAreTrue, TypeOK
    <2>9. \/ Reply(s, "error", k) /\ UNCHANGED handling
          \/ k \in answer /\ Reply(s, "ack", k) /\ UNCHANGED handling
          \/ handling' = handling \cup {<<s, k>>} /\ UNCHANGED down
      BY <1>12, <2>3 DEF HandleCommand
    <2>10. \A r \in Sockets, c \in Cmds : <<r, c>> \in handling' => c \in Sent
      BY <2>6, <2>9 DEF AnswersAreTrue
    <2>11. \A r \in Sockets : \A i \in DOMAIN down'[r] :
             down'[r][i][1] = "ack" => runs[down'[r][i][2]] > 0
      <3>1. CASE Reply(s, "error", k)
        BY <1>t, <3>1, RepliedTrue
      <3>2. CASE k \in answer /\ Reply(s, "ack", k)
        <4>1. runs[k] > 0
          BY <3>2 DEF AnswersAreTrue
        <4> QED
          BY <1>t, <3>2, <4>1, RepliedTrue
      <3>3. CASE UNCHANGED down
        BY <3>3 DEF AnswersAreTrue
      <3> QED
        BY <2>9, <3>1, <3>2, <3>3
    <2> QED
      BY <1>u, <2>7, <2>8, <2>10, <2>11 DEF AnswersAreTrue
  <1>13. ASSUME NEW s \in Sockets, GatewayCloses(s) PROVE AnswersAreTrue'
    <2>1. /\ up' = [up EXCEPT ![s] = <<>>] /\ back' = [back EXCEPT ![s] = "closed"]
          /\ UNCHANGED <<outcome, down, gatewayVars>>
      BY <1>13 DEF GatewayCloses, callVars
    <2> QED
      BY <1>t, <1>u, <2>1 DEF AnswersAreTrue, TypeOK, gatewayVars
  <1>14. ASSUME NEW s \in Sockets, NEW k \in Cmds, HandlerActs(s, k) PROVE AnswersAreTrue'
    <2>1. /\ <<s, k>> \in handling /\ handling' = handling \ {<<s, k>>}
          /\ acted' = acted \cup {<<s, k>>} /\ runs' = [runs EXCEPT ![k] = @ + 1]
          /\ UNCHANGED <<up, back, down, outcome, answer>>
      BY <1>14 DEF HandlerActs, wireVars, callVars
    <2>2. \A c \in Cmds : runs'[c] \in Nat /\ (runs[c] > 0 => runs'[c] > 0)
      BY <1>t, <2>1 DEF TypeOK
    <2>3. runs'[k] > 0
      BY <1>t, <2>1 DEF TypeOK
    <2>4. \A r \in Sockets, c \in Cmds : <<r, c>> \in acted' \/ c \in answer' => runs'[c] > 0
      <3> SUFFICES ASSUME NEW r \in Sockets, NEW c \in Cmds, <<r, c>> \in acted' \/ c \in answer'
                   PROVE  runs'[c] > 0
        OBVIOUS
      <3>1. c = k \/ <<r, c>> \in acted \/ c \in answer
        BY <2>1
      <3>2. <<r, c>> \in acted \/ c \in answer => runs[c] > 0
        BY DEF AnswersAreTrue
      <3> QED
        BY <2>2, <2>3, <3>1, <3>2
    <2>5. \A r \in Sockets : \A i \in DOMAIN down[r] : down[r][i][2] \in Cmds
      BY <1>t DEF TypeOK
    <2>6. \A r \in Sockets : \A i \in DOMAIN down'[r] :
            down'[r][i][1] = "ack" => runs'[down'[r][i][2]] > 0
      BY <2>1, <2>2, <2>5 DEF AnswersAreTrue
    <2>7. \A r \in Sockets, c \in Cmds : <<r, c>> \in handling' => c \in Sent
      BY <2>1 DEF AnswersAreTrue
    <2> QED
      BY <1>u, <2>1, <2>4, <2>6, <2>7 DEF AnswersAreTrue
  <1>15. ASSUME NEW s \in Sockets, NEW k \in Cmds, HandlerThrows(s, k) PROVE AnswersAreTrue'
    <2>1. /\ handling' \subseteq handling /\ acted' \subseteq acted /\ Reply(s, "error", k)
          /\ UNCHANGED <<up, back, outcome, answer, runs>>
      BY <1>15 DEF HandlerThrows, callVars
    <2>2. \A r \in Sockets : \A i \in DOMAIN down'[r] :
            down'[r][i][1] = "ack" => runs[down'[r][i][2]] > 0
      BY <1>t, <2>1, RepliedTrue
    <2> QED
      BY <1>u, <2>1, <2>2 DEF AnswersAreTrue
  <1>16. ASSUME NEW s \in Sockets, NEW k \in Cmds, HandlerAnswers(s, k) PROVE AnswersAreTrue'
    <2>1. /\ <<s, k>> \in acted /\ acted' = acted \ {<<s, k>>} /\ answer' = answer \cup {k}
          /\ Reply(s, "ack", k) /\ UNCHANGED <<up, back, outcome, handling, runs>>
      BY <1>16 DEF HandlerAnswers, callVars
    <2>2. runs[k] > 0
      BY <2>1 DEF AnswersAreTrue
    <2>3. \A r \in Sockets : \A i \in DOMAIN down'[r] :
            down'[r][i][1] = "ack" => runs[down'[r][i][2]] > 0
      BY <1>t, <2>1, <2>2, RepliedTrue
    <2> QED
      BY <1>u, <2>1, <2>2, <2>3 DEF AnswersAreTrue
  <1>17. CASE Restart
    <2>1. /\ up' = [s \in Sockets |-> <<>>] /\ handling' = {} /\ acted' = {}
          /\ UNCHANGED <<outcome, down, answer, runs>>
      BY <1>17 DEF Restart, callVars
    <2>2. \A r \in Sockets : DOMAIN up'[r] = {}
      BY <2>1
    <2>3. \A r \in Sockets, k \in Cmds : <<r, k>> \notin handling' /\ <<r, k>> \notin acted'
      BY <2>1
    <2> QED
      BY <1>u, <2>1, <2>2, <2>3 DEF AnswersAreTrue
  <1> QED
    BY <1>1, <1>2, <1>3, <1>4, <1>5, <1>6, <1>7, <1>8, <1>9, <1>10, <1>11, <1>12, <1>13, <1>14,
       <1>15, <1>16, <1>17 DEF Next

\* Callers that are told no: a step of the service.
LEMMA Rejects ==
  ASSUME TypeOK, NEW k \in Waiting, Settle(k, "rejected"), UNCHANGED runs
  PROVE  [Service!ServiceNext]_(Service!serviceVars)
  <1>1. outcome' = [c \in Cmds |-> IF c \in {k} THEN "rejected" ELSE outcome[c]]
    BY DEF Settle, TypeOK
  <1>2. Service!RejectAll({k}) /\ {k} \in SUBSET Cmds
    BY <1>1 DEF Service!RejectAll, Waiting
  <1> QED
    BY <1>2 DEF Service!ServiceNext

\* Every step is a step of the service, or none.
LEMMA StepMaps ==
  ASSUME Types, HeldOnce, AnswersAreTrue, [Next]_vars
  PROVE  [Service!ServiceNext]_(Service!serviceVars)
  <1>t. TypeOK
    BY DEF Types
  <1>n. ASSUME UNCHANGED <<outcome, runs>> PROVE [Service!ServiceNext]_(Service!serviceVars)
    BY <1>n DEF Service!serviceVars
  <1>1. CASE Close
    <2> DEFINE K == Waiting
    <2>1. outcome' = [k \in Cmds |-> IF k \in K THEN "rejected" ELSE outcome[k]] /\ UNCHANGED runs
      BY <1>1 DEF Close, Waiting, gatewayVars
    <2>2. Service!RejectAll(K) /\ K \in SUBSET Cmds
      BY <2>1 DEF Service!RejectAll, Waiting
    <2> QED
      BY <2>2 DEF Service!ServiceNext
  <1>2. ASSUME NEW k \in Cmds, Send(k) PROVE [Service!ServiceNext]_(Service!serviceVars)
    <2>1. Service!Issue(k)
      BY <1>2 DEF Send, Service!Issue, gatewayVars
    <2> QED
      BY <2>1 DEF Service!ServiceNext
  <1>3. ASSUME NEW k \in Cmds, TimesOut(k) PROVE [Service!ServiceNext]_(Service!serviceVars)
    BY <1>t, <1>3, Rejects DEF TimesOut, Waiting, gatewayVars
  <1>4. ASSUME NEW s \in Sockets, ReceiveAnswer(s)
        PROVE  [Service!ServiceNext]_(Service!serviceVars)
    <2> DEFINE a == Head(down[s])
    <2>1. down[s] \in Seq(Answers) /\ down[s] # <<>>
      BY <1>t, <1>4 DEF TypeOK, ReceiveAnswer, Answers
    <2>2. a \in Answers /\ a = down[s][1] /\ 1 \in DOMAIN down[s]
      BY <2>1, Rest
    <2>3. a[1] = "ack" => runs[a[2]] > 0
      BY <2>2 DEF AnswersAreTrue
    <2>4. UNCHANGED runs
      BY <1>4 DEF ReceiveAnswer, gatewayVars
    <2>5. \/ UNCHANGED outcome
          \/ /\ Contains(pending, a[2])
             /\ Settle(a[2], IF a[1] = "ack" THEN "resolved" ELSE "rejected")
      BY <1>4 DEF ReceiveAnswer, callVars
    <2> HIDE DEF a
    <2>6. Contains(pending, a[2]) => a[2] \in Waiting
      <3>1. queue \in Seq(Cmds) /\ pending \in Seq(Cmds)
        BY <1>t DEF TypeOK
      <3>2. ToSet(pending) \subseteq Waiting
        BY <3>1, Joined DEF HeldOnce, Waiting
      <3> QED
        BY <3>1, <3>2 DEF Contains, ToSet
    <2>7. CASE a[2] \in Waiting /\ a[1] = "ack" /\ Settle(a[2], "resolved")
      <3>1. Service!Resolve(a[2])
        BY <2>3, <2>4, <2>7 DEF Settle, Service!Resolve, Waiting
      <3> QED
        BY <2>7, <3>1 DEF Service!ServiceNext, Waiting
    <2>8. CASE a[2] \in Waiting /\ Settle(a[2], "rejected")
      BY <1>t, <2>4, <2>8, Rejects
    <2>9. CASE UNCHANGED outcome
      BY <1>n, <2>4, <2>9
    <2> QED
      BY <2>5, <2>6, <2>7, <2>8, <2>9
  <1>5. ASSUME NEW s \in Sockets, NEW k \in Cmds, HandlerActs(s, k)
        PROVE  [Service!ServiceNext]_(Service!serviceVars)
    <2>1. outcome[k] # "unsent"
      BY <1>5 DEF HandlerActs, AnswersAreTrue, Sent
    <2>2. Service!Run(k)
      BY <1>5, <2>1 DEF HandlerActs, Service!Run, callVars
    <2> QED
      BY <2>2 DEF Service!ServiceNext
  <1>6. CASE UNCHANGED vars
    BY <1>n, <1>6 DEF vars, callVars, gatewayVars
  <1>7. CASE Connect \/ RetryFires \/ ReadCapability \/ Enrolled \/ SessionFails
    BY <1>n, <1>7
    DEF Connect, RetryFires, ReadCapability, Enrolled, SessionFails, callVars, gatewayVars
  <1>8. CASE RefreshStarts \/ RefreshReads \/ RefreshEnrols \/ OtherTabClears
    BY <1>n, <1>8
    DEF RefreshStarts, RefreshReads, RefreshEnrols, OtherTabClears, callVars, gatewayVars
  <1>9. ASSUME NEW s \in Sockets, Dial(s) \/ SocketOpens(s)
        PROVE  [Service!ServiceNext]_(Service!serviceVars)
    BY <1>n, <1>9 DEF Dial, SocketOpens, callVars, gatewayVars
  <1>10. ASSUME NEW s \in Sockets, NEW refused \in BOOLEAN, SocketCloses(s, refused)
         PROVE  [Service!ServiceNext]_(Service!serviceVars)
    BY <1>n, <1>10 DEF SocketCloses, gatewayVars
  <1>11. ASSUME NEW s \in Sockets, HandleHello(s) \/ HandleCommand(s) \/ GatewayCloses(s)
         PROVE  [Service!ServiceNext]_(Service!serviceVars)
    BY <1>n, <1>11 DEF HandleHello, HandleCommand, GatewayCloses, callVars, gatewayVars
  <1>12. ASSUME NEW s \in Sockets, NEW k \in Cmds, HandlerThrows(s, k) \/ HandlerAnswers(s, k)
         PROVE  [Service!ServiceNext]_(Service!serviceVars)
    BY <1>n, <1>12 DEF HandlerThrows, HandlerAnswers, callVars
  <1>13. CASE Restart
    BY <1>n, <1>13 DEF Restart, callVars
  <1> QED
    BY <1>1, <1>2, <1>3, <1>4, <1>5, <1>6, <1>7, <1>8, <1>9, <1>10, <1>11, <1>12, <1>13 DEF Next

\* ImplementsService: a command that resolved was run by the gateway, whatever was lost, sent
\* again or late: RealtimeClient implements CommandService.
THEOREM Implements == Spec => ImplementsService
  <1>1. Init => Service!ServiceInit
    BY DEF Init
  <1>2. Init => AnswersAreTrue
    BY DEF Init, AnswersAreTrue
  <1>3. Types /\ HeldOnce /\ AnswersAreTrue /\ [Next]_vars => AnswersAreTrue'
    BY AnswersAreTrueStep
  <1>4. Types /\ HeldOnce /\ AnswersAreTrue /\ [Next]_vars
          => [Service!ServiceNext]_(Service!serviceVars)
    BY StepMaps
  <1> QED
    BY <1>1, <1>2, <1>3, <1>4, TypesAlways, CommandHeldOnce, PTL
    DEF Spec, ImplementsService, Service!ServiceSpec
=================================================================================
