------------------------------ MODULE RevocationQueue ------------------------------
(***************************************************************************)
(* Devices the user has removed and the server has not: the intents kept   *)
(* in localStorage until device.revoke is acknowledged                     *)
(* (src/collab/deviceRevocationQueue.ts), flushed by every tab on start,   *)
(* on a 30 s interval, when the browser comes online and when the queue    *)
(* changes (src/hooks/useDeviceRevocations.ts).                            *)
(*                                                                         *)
(* A tab reads and writes the queue at one go; the revocation itself is an *)
(* await, during which every tab may write.  What the server does is       *)
(* DeviceSessions; here it revokes and answers, or fails.                  *)
(***************************************************************************)
EXTENDS Naturals, Sequences, SequencesExt

CONSTANTS
  Gone,       \* devices the user may remove
  Browsers,   \* the tabs of the browser
  IntentMax,  \* bound: intents enqueued
  RemountMax  \* bound: effects run anew, pages reloaded

QueueAssumption == IntentMax \in Nat /\ RemountMax \in Nat

VARIABLES
  intents,   \* the entries in localStorage
  running,   \* running[t]: what is left of the list the flush of t read, or Idle
  live,      \* live[t]: isCurrent() of that flush
  revoked,   \* devices the server has revoked
  asked,     \* how many intents there were
  remounts

queueVars == <<intents, running, live, revoked, asked, remounts>>

\* No flush runs; a flush that has nothing left is <<>>.
Idle == <<"idle">>

TypeOK ==
  /\ intents \in Seq(Gone) /\ revoked \subseteq Gone
  /\ \A i, j \in DOMAIN intents : intents[i] = intents[j] => i = j
  /\ running \in [Browsers -> {Idle} \cup Seq(Gone)] /\ live \in [Browsers -> BOOLEAN]
  /\ asked \in 0..IntentMax /\ remounts \in 0..RemountMax

Init ==
  /\ intents = <<>> /\ revoked = {}
  /\ running = [t \in Browsers |-> Idle] /\ live = [t \in Browsers |-> FALSE]
  /\ asked = 0 /\ remounts = 0

\* enqueue(): the user removes the device (again: then its old intent goes).
Enqueue(d) ==
  /\ asked < IntentMax /\ asked' = asked + 1
  /\ intents' = Append(Remove(intents, d), d)
  /\ UNCHANGED <<running, live, revoked, remounts>>

\* retry(): the flush that runs is shared, otherwise the list is read.
Starts(t) ==
  /\ running[t] = Idle /\ intents # <<>>
  /\ running' = [running EXCEPT ![t] = intents]
  /\ live' = [live EXCEPT ![t] = TRUE]
  /\ UNCHANGED <<intents, revoked, asked, remounts>>

\* The loop ends, after the last entry or because this is no longer the account.
Ends(t) ==
  /\ running[t] # Idle /\ (running[t] = <<>> \/ ~live[t])
  /\ running' = [running EXCEPT ![t] = Idle]
  /\ UNCHANGED <<intents, live, revoked, asked, remounts>>

\* The server revokes the device the flush of t asks for; the answer may yet be lost.
ServerRevokes(t) ==
  /\ running[t] \notin {Idle, <<>>}
  /\ revoked' = revoked \cup {Head(running[t])}
  /\ UNCHANGED <<intents, running, live, asked, remounts>>

\* The acknowledgement: the entry is taken off the queue as it is now.
Acknowledged(t) ==
  /\ running[t] \notin {Idle, <<>>} /\ Head(running[t]) \in revoked
  /\ intents' = Remove(intents, Head(running[t]))
  /\ running' = [running EXCEPT ![t] = Tail(@)]
  /\ UNCHANGED <<live, revoked, asked, remounts>>

\* Mutant of Fails: the entry is taken off whatever the request came to.
FailsAndForgets(t) ==
  /\ running[t] \notin {Idle, <<>>}
  /\ running' = [running EXCEPT ![t] = Idle]
  /\ intents' = Remove(intents, Head(running[t]))
  /\ UNCHANGED <<live, revoked, asked, remounts>>

\* revoke() throws: the rest of the list waits for the next flush.
Fails(t) ==
  /\ running[t] \notin {Idle, <<>>}
  /\ running' = [running EXCEPT ![t] = Idle]
  /\ UNCHANGED <<intents, live, revoked, asked, remounts>>

\* The effect runs anew, another account signs in: the flush in flight is not current.
Remounts(t) ==
  /\ remounts < RemountMax /\ remounts' = remounts + 1
  /\ live' = [live EXCEPT ![t] = FALSE]
  /\ UNCHANGED <<intents, running, revoked, asked>>

\* The page is reloaded.
Reloads(t) ==
  /\ remounts < RemountMax /\ remounts' = remounts + 1
  /\ running' = [running EXCEPT ![t] = Idle]
  /\ UNCHANGED <<intents, live, revoked, asked>>

Next ==
  \/ \E d \in Gone : Enqueue(d)
  \/ \E t \in Browsers : Starts(t) \/ Ends(t) \/ ServerRevokes(t) \/ Acknowledged(t) \/ Fails(t)
                          \/ Remounts(t) \/ Reloads(t)

Spec == Init /\ [][Next]_queueVars

\* The interval fires and awaits end; a revocation asked for again and again is made once and
\* acknowledged once.
FairSpec ==
  /\ Spec
  /\ \A t \in Browsers :
       /\ WF_queueVars(Starts(t) \/ Ends(t)) /\ WF_queueVars(Acknowledged(t) \/ Fails(t))
       /\ SF_queueVars(ServerRevokes(t)) /\ SF_queueVars(Acknowledged(t))

------------------------------------------------------------------------------------
(* Properties. *)

\* flush(): an intent outlives everything but the server's acknowledgement, and every device
\* the user removed is revoked in the end, if a request that is made for ever succeeds once.
RevocationsReach == \A d \in Gone : Contains(intents, d) ~> d \in revoked
=================================================================================
