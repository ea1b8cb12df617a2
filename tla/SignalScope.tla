-------------------------------- MODULE SignalScope --------------------------------
(***************************************************************************)
(* The lifetime of one signalling scope: who may connect, for how long,    *)
(* and when its storage goes                                               *)
(* (packages/core/src/adapters/durableObject/signalScopeRuntime.ts,        *)
(* sqlScopeStore.ts, worker/realtime/gateway/signalScope.mjs).             *)
(*                                                                         *)
(* A handler is one step: it awaits nothing but its own storage.  What a   *)
(* frame carries, whom it is forwarded to and how fast it may be sent are  *)
(* left out, they change nothing here.  deleteAll() drops the tables that  *)
(* the constructor made, and may or may not take the alarm with it.        *)
(***************************************************************************)
EXTENDS Naturals, FiniteSets, FiniteSetsExt

CONSTANTS
  People,      \* devices that ask for the scope
  ScopeSocks,  \* sockets of the scope
  ScopeCap,    \* LIMITS.participantsPerScope
  Lease,       \* LIMITS.scopeAuthorizationTtlMs
  ScopeClock   \* bound: the time

ScopeAssumption == ScopeCap \in Nat \ {0} /\ Lease \in Nat \ {0} /\ ScopeClock \in Nat \ {0}

VARIABLES
  auth,    \* auth[p]: when p's authorization expires, 0 for none
  owner,   \* owner[s]: whose the open socket s is
  alarm,   \* the alarm, 0 for none
  now,
  tables,  \* the tables are there
  kept     \* something was stored since storage was last deleted

scopeVars == <<auth, owner, alarm, now, tables, kept>>

Nobody == "nobody"

TypeOK ==
  /\ auth \in [People -> 0..(ScopeClock + Lease)]
  /\ owner \in [ScopeSocks -> People \cup {Nobody}]
  /\ alarm \in 0..(ScopeClock + Lease) /\ now \in 1..ScopeClock
  /\ tables \in BOOLEAN /\ kept \in BOOLEAN

Init ==
  /\ auth = [p \in People |-> 0] /\ owner = [s \in ScopeSocks |-> Nobody]
  /\ alarm = 0 /\ now = 1 /\ tables = TRUE /\ kept = FALSE

Authorized == {p \in People : auth[p] # 0}

\* ctx.getWebSockets(): also the one whose close is being handled.
Connected == {s \in ScopeSocks : owner[s] # Nobody}

\* deleteAll(), when isScopeAbandoned().
EndScope(abandoned, next) ==
  IF abandoned
    THEN tables' = FALSE /\ kept' = FALSE /\ alarm' \in {next, 0}
    ELSE alarm' = next /\ UNCHANGED <<tables, kept>>

\* Mutant of Authorize: the alarm is set to the new expiry, as if it were the earliest.
AuthorizeOverwrites(p) ==
  /\ tables /\ (auth[p] = 0 => Cardinality(Authorized) < 2 * ScopeCap)
  /\ auth' = [auth EXCEPT ![p] = now + Lease] /\ kept' = TRUE
  /\ alarm' = now + Lease
  /\ UNCHANGED <<owner, now, tables>>

\* authorize(): throws without the tables.  An earlier alarm stays.
Authorize(p) ==
  /\ tables /\ (auth[p] = 0 => Cardinality(Authorized) < 2 * ScopeCap)
  /\ auth' = [auth EXCEPT ![p] = now + Lease] /\ kept' = TRUE
  /\ alarm' = IF alarm = 0 \/ now + Lease < alarm THEN now + Lease ELSE alarm
  /\ UNCHANGED <<owner, now, tables>>

\* release(): the sockets of p are told to close, and stay listed until they are.
Release(p) ==
  /\ tables /\ auth[p] # 0
  /\ auth' = [auth EXCEPT ![p] = 0]
  /\ UNCHANGED <<owner, alarm, now, tables, kept>>

\* accept(): by whoever holds an authorization that has not expired.
Connect(s, p) ==
  /\ tables /\ owner[s] = Nobody
  /\ auth[p] > now /\ Cardinality(Connected) < ScopeCap
  /\ owner' = [owner EXCEPT ![s] = p]
  /\ UNCHANGED <<auth, alarm, now, tables, kept>>

\* onClose(): the socket left, was released, failed, or sent too much.
SocketClosed(s) ==
  /\ owner[s] # Nobody /\ owner' = [owner EXCEPT ![s] = Nobody]
  /\ EndScope(Connected = {s} /\ Authorized = {}, alarm)
  /\ UNCHANGED <<auth, now>>

\* onAlarm(): what has expired goes, and the next expiry is waited for.
AlarmFires ==
  /\ alarm # 0 /\ alarm <= now /\ tables
  /\ LET live == {p \in People : auth[p] > now} IN
       /\ auth' = [p \in People |-> IF p \in live THEN auth[p] ELSE 0]
       /\ IF live # {}
            THEN alarm' = Min({auth[p] : p \in live}) /\ UNCHANGED <<tables, kept>>
            ELSE EndScope(Connected = {}, 0)
  /\ UNCHANGED <<owner, now>>

\* Without the tables it throws, and is tried again until the platform gives up.
AlarmThrows ==
  /\ alarm # 0 /\ alarm <= now /\ ~tables
  /\ alarm' = 0
  /\ UNCHANGED <<auth, owner, now, tables, kept>>

\* The object is evicted, and constructed again for its next event.
Construct ==
  /\ ~tables /\ tables' = TRUE
  /\ UNCHANGED <<auth, owner, alarm, now, kept>>

Tick == now < ScopeClock /\ now' = now + 1 /\ UNCHANGED <<auth, owner, alarm, tables, kept>>

Next ==
  \/ \E p \in People : Authorize(p) \/ Release(p) \/ \E s \in ScopeSocks : Connect(s, p)
  \/ \E s \in ScopeSocks : SocketClosed(s)
  \/ AlarmFires \/ AlarmThrows \/ Construct \/ Tick

Spec == Init /\ [][Next]_scopeVars

------------------------------------------------------------------------------------
(* Properties. *)

\* authorize(), onAlarm(), onClose(): no authorization outlives the alarm that is to end it, and
\* a scope that nobody may enter and nobody is in either has nothing stored or will be woken
\* to delete it.
ScopeEnds ==
  /\ \A p \in Authorized : alarm # 0 /\ alarm <= auth[p]
  /\ kept /\ Authorized = {} /\ Connected = {} => alarm # 0
=================================================================================
