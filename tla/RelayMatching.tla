------------------------------- MODULE RelayMatching -------------------------------
(***************************************************************************)
(* Seeking a partner at the relay (packages/core/server/coordination.mjs): *)
(* a client seeks in pools; two that fit are taken out of their pool and   *)
(* proposed to each other, and are matched once both have acknowledged.  A *)
(* proposal that is not, or that one side gives up, is cancelled: who is   *)
(* still there seeks again, and may be proposed to another at once.        *)
(*                                                                         *)
(* The relay handles one command at a time.  Any command may come at any   *)
(* time, an acknowledgement of any proposal too: what a client remembers   *)
(* and sends again (packages/core/src/coordination.ts) is among them.  Any *)
(* two members fit; whom the relay tries first is left open.  Statistics,  *)
(* rates, and the limits of pools and seekers are left out.                *)
(***************************************************************************)
EXTENDS Naturals, FiniteSets

CONSTANTS
  Clients,   \* sockets, each of a member of its own
  Pools,
  MatchMax   \* bound: proposals

MatchingAssumption == MatchMax \in Nat

VARIABLES
  phase,  \* phase[s]: socket s is "open", "closing", or "closed" and removed
  old,    \* sockets whose hello did not name 'seek-ack'
  relay   \* seeking[p]: the seekers of pool p; match[i]: pending proposal i; made: how many
          \* there were; pending[s]: pendingMatchBySocket, 0 for none; history: wanted, the
          \* <<s, p>> that set a seek and did not take it back, were not matched, and have
          \* not expired; crossed, clients proposed in one pool while proposed in another

matchingVars == <<phase, old, relay>>

NoMatch == [pool |-> "none", sides |-> {}, acks |-> {}]

Proposals == [pool : Pools, sides : SUBSET Clients, acks : SUBSET Clients] \cup {NoMatch}

TypeOK ==
  /\ phase \in [Clients -> {"open", "closing", "closed"}]
  /\ old \subseteq Clients
  /\ relay \in [seeking : [Pools -> SUBSET Clients], match : [1..MatchMax -> Proposals],
                pending : [Clients -> 0..MatchMax], made : 0..MatchMax,
                wanted : SUBSET (Clients \X Pools), crossed : SUBSET Clients]

Init ==
  /\ phase = [s \in Clients |-> "open"]
  /\ old \in SUBSET Clients
  /\ relay = [seeking |-> [p \in Pools |-> {}], match |-> [i \in 1..MatchMax |-> NoMatch],
              pending |-> [s \in Clients |-> 0], made |-> 0, wanted |-> {}, crossed |-> {}]

------------------------------------------------------------------------------------
(* What a command does to the relay: the states that r may become. *)

\* pruneMap(), whenever the numbers of a pool are sent: sockets that are not open leave it.
Prune(r, pools) ==
  LET gone == {w \in Clients \X pools : w[1] \in r.seeking[w[2]] /\ phase[w[1]] # "open"} IN
  [r EXCEPT !.seeking = [p \in Pools |-> {s \in @[p] : <<s, p>> \notin gone}],
            !.wanted = @ \ gone]

\* The two are taken out of the pool, and matched at once if one cannot acknowledge.
Propose(r, p, pair) ==
  LET i == r.made + 1
      out == Prune([r EXCEPT !.seeking[p] = @ \ pair], {p})
  IN  IF pair \cap old # {}
        THEN [out EXCEPT !.wanted = @ \ (pair \X {p})]
        ELSE [out EXCEPT !.made = i, !.match[i] = [pool |-> p, sides |-> pair, acks |-> {}],
                         !.pending = [s \in Clients |-> IF s \in pair THEN i ELSE @[s]],
                         !.crossed = @ \cup {s \in pair : r.pending[s] # 0}]

\* tryMatch()
TryMatch(r, p, s) ==
  LET others == r.seeking[p] \ {s} IN
  IF s \in r.seeking[p] /\ others # {}
    THEN {Propose(r, p, {s, o}) : o \in others}
    ELSE {r}

\* The proposal is gone, and with it what pendingMatchBySocket says of its sides.
Forget(r, i) ==
  [r EXCEPT !.match[i] = NoMatch,
            !.pending = [s \in Clients |-> IF s \in r.match[i].sides THEN 0 ELSE @[s]]]

\* Mutant of Cancel: who gave the proposal up seeks again like the other.
CancelRestoresAll(r, i, except) ==
  LET m == r.match[i]
      back == [Forget(r, i) EXCEPT !.seeking[m.pool] = @ \cup {s \in m.sides : phase[s] = "open"}]
  IN  UNION {TryMatch(x, m.pool, o) :
               x \in UNION {TryMatch(Prune(back, {m.pool}), m.pool, s) : s \in m.sides},
               o \in m.sides}

\* cancelPendingMatch(): the sides but `except` seek again, if their sockets are open, and
\* each is tried.
Cancel(r, i, except) ==
  LET m == r.match[i]
      stay == m.sides \ except
      back == [Forget(r, i) EXCEPT !.seeking[m.pool] = @ \cup {s \in stay : phase[s] = "open"}]
  IN  UNION {TryMatch(x, m.pool, o) :
               x \in UNION {TryMatch(Prune(back, {m.pool}), m.pool, s) : s \in stay},
               o \in stay}

------------------------------------------------------------------------------------
(* Commands, and the relay's timer. *)

\* Every result makes at most two proposals.
CanPropose == relay.made + 2 <= MatchMax

\* seek.set: ignored while a proposal is pending.
SeekSet(s, p) ==
  /\ phase[s] # "closed" /\ relay.pending[s] = 0 /\ CanPropose
  /\ LET set == [relay EXCEPT !.seeking[p] = @ \cup {s}, !.wanted = @ \cup {<<s, p>>}] IN
       \E r \in TryMatch(set, p, s) : relay' = Prune(r, {p})
  /\ UNCHANGED <<phase, old>>

\* seek.clear: a proposal is cancelled if it is the one the relay knows the socket by.
SeekClear(s, p) ==
  /\ phase[s] # "closed" /\ CanPropose
  /\ LET i == relay.pending[s]
         known == i # 0 /\ relay.match[i].pool = p
     IN \E r \in IF known THEN Cancel(relay, i, {s}) ELSE {relay} :
          relay' = Prune([r EXCEPT !.seeking[p] = @ \ {s}, !.wanted = @ \ {<<s, p>>}], {p})
  /\ UNCHANGED <<phase, old>>

\* seek.ack: the second one makes the match, and both are told.
SeekAck(s, i) ==
  /\ phase[s] # "closed" /\ s \in relay.match[i].sides
  /\ LET m == relay.match[i] IN
       relay' = IF m.sides \subseteq m.acks \cup {s}
                  THEN [Forget(relay, i) EXCEPT !.wanted = @ \ (m.sides \X {m.pool})]
                  ELSE [relay EXCEPT !.match[i].acks = @ \cup {s}]
  /\ UNCHANGED <<phase, old>>

\* A socket is closing before the relay hears of it.
Closing(s) ==
  /\ phase[s] = "open" /\ phase' = [phase EXCEPT ![s] = "closing"]
  /\ UNCHANGED <<old, relay>>

\* removeSocket(): its proposal is cancelled, and it leaves every pool.
RemoveSocket(s) ==
  /\ phase[s] = "closing" /\ phase' = [phase EXCEPT ![s] = "closed"] /\ CanPropose
  /\ UNCHANGED old
  /\ \E r \in IF relay.pending[s] # 0 THEN Cancel(relay, relay.pending[s], {s}) ELSE {relay} :
       LET left == Prune(r, {p \in Pools : s \in r.seeking[p]})
       IN  relay' = [left EXCEPT !.wanted = @ \ ({s} \X Pools)]

\* The timer: a proposal that waited too long is cancelled, for both sides.
ProposalExpires(i) ==
  /\ relay.match[i] # NoMatch /\ CanPropose
  /\ relay' \in Cancel(relay, i, {})
  /\ UNCHANGED <<phase, old>>

\* pruneMap(): a seek that was not set again in time, or whose socket is closing.
SeekExpires(s, p) ==
  /\ s \in relay.seeking[p]
  /\ relay' = [relay EXCEPT !.seeking[p] = @ \ {s}, !.wanted = @ \ {<<s, p>>}]
  /\ UNCHANGED <<phase, old>>

Next ==
  \/ \E s \in Clients :
       \/ Closing(s) \/ RemoveSocket(s)
       \/ \E p \in Pools : SeekSet(s, p) \/ SeekClear(s, p) \/ SeekExpires(s, p)
       \/ \E i \in 1..MatchMax : SeekAck(s, i)
  \/ \E i \in 1..MatchMax : ProposalExpires(i)

Spec == Init /\ [][Next]_matchingVars

------------------------------------------------------------------------------------
(* Properties. *)

\* The places where s waits in pool p.
Places(s, p) ==
  (IF s \in relay.seeking[p] THEN 1 ELSE 0)
    + Cardinality({i \in 1..MatchMax : relay.match[i].pool = p /\ s \in relay.match[i].sides})

\* tryMatch(), cancelPendingMatch(), "setSeek is durable client intent": a seek that was set is
\* held in exactly one place until it is taken back, matched or expired, as a seeker or in one
\* proposal, and nowhere after that, whatever is cancelled and proposed again; a client that
\* was proposed in two pools at the same time excepted.
SeekHeldOnce ==
  \A s \in Clients \ relay.crossed, p \in Pools :
    phase[s] # "closing" => Places(s, p) = IF <<s, p>> \in relay.wanted THEN 1 ELSE 0
=================================================================================
