--------------------------------- MODULE EventFeed ---------------------------------
(***************************************************************************)
(* The event stream of one account: the gateway appends, batches and sends *)
(* events (packages/core/src/adapters/durableObject/gatewayRuntime.ts,     *)
(* domain/eventStream.ts), answers a hello with what the client is owed    *)
(* (app/gatewayService.ts), and every tab keeps a cursor, in memory and in *)
(* the store the tabs of a browser share (app/realtimeClient.ts).          *)
(*                                                                         *)
(* An event is its sequence number.  A tab has one socket at a time; the   *)
(* close of either end closes both, for whatever reason: the session, the  *)
(* limit of sockets, the network.  Commands on the same socket are in      *)
(* RealtimeClient.                                                         *)
(***************************************************************************)
EXTENDS Naturals, Sequences, FiniteSets

CONSTANTS
  Tabs,       \* tabs of one browser, signed in to one account
  BatchMax,   \* batchMaxEvents: events one batch may hold
  KeepNewest, \* eventRetentionRows: events a prune always keeps
  MaxSeq,     \* bound: events
  MaxBreaks   \* bound: sockets closed, pages reloaded, gateways restarted

FeedAssumption ==
  /\ Tabs # {} /\ BatchMax \in Nat \ {0} /\ KeepNewest \in Nat \ {0}
  /\ MaxSeq \in Nat /\ MaxBreaks \in Nat

VARIABLES
  latest,   \* stream_seq
  oldest,   \* the oldest row retained; latest + 1 when there is none
  batch,    \* events stored and not yet sent
  armed,    \* flushArmed: the timer of the batch runs
  socket,   \* socket[t]: "off", "accepted", or "ready" once its hello was handled
  hello,    \* hello[t]: the cursor in the hello of that socket
  down,     \* down[t]: frames on their way to t
  cursor,   \* cursor[t]: lastAckSeq
  loaded,   \* loaded[t]: resumeLoaded
  saving,   \* saving[t]: the timer that saves the cursor runs
  stored,   \* the cursor in the store
  breaks,
  from,     \* history: from[t]: the stored cursor this page began at
  got,      \* history: got[t]: events this page dispatched
  seeded    \* history: seeded[t]: how far the latest snapshot of this page reached

gatewayVars == <<latest, oldest, batch, armed>>
linkVars == <<socket, hello, down>>
tabVars == <<cursor, loaded, saving, stored, from, got, seeded>>
vars == <<gatewayVars, linkVars, tabVars, breaks>>

Seqs == 1..MaxSeq

FrameType == [kind : {"delta", "snapshot"}, events : SUBSET Seqs, seq : 0..MaxSeq]

TypeOK ==
  /\ latest \in 0..MaxSeq /\ oldest \in 1..(MaxSeq + 1)
  /\ batch \subseteq Seqs /\ armed \in BOOLEAN
  /\ socket \in [Tabs -> {"off", "accepted", "ready"}]
  /\ hello \in [Tabs -> 0..MaxSeq]
  /\ down \in [Tabs -> Seq(FrameType)]
  /\ cursor \in [Tabs -> 0..MaxSeq] /\ stored \in 0..MaxSeq
  /\ loaded \in [Tabs -> BOOLEAN] /\ saving \in [Tabs -> BOOLEAN]
  /\ from \in [Tabs -> 0..MaxSeq] /\ seeded \in [Tabs -> 0..MaxSeq]
  /\ got \in [Tabs -> SUBSET Seqs]
  /\ breaks \in 0..MaxBreaks

Init ==
  /\ latest = 0 /\ oldest = 1 /\ batch = {} /\ armed = FALSE
  /\ socket = [t \in Tabs |-> "off"] /\ hello = [t \in Tabs |-> 0]
  /\ down = [t \in Tabs |-> <<>>]
  /\ cursor = [t \in Tabs |-> 0] /\ stored = 0
  /\ loaded = [t \in Tabs |-> FALSE] /\ saving = [t \in Tabs |-> FALSE]
  /\ from = [t \in Tabs |-> 0] /\ seeded = [t \in Tabs |-> 0]
  /\ got = [t \in Tabs |-> {}]
  /\ breaks = 0

Highest(E) == CHOOSE n \in E : \A m \in E : m <= n

Break == breaks < MaxBreaks /\ breaks' = breaks + 1

------------------------------------------------------------------------------------
(* The gateway. *)

Delta(E) == [kind |-> "delta", events |-> E, seq |-> Highest(E)]

\* sendDelta(): one frame to every accepted socket, whether its hello has come or not.
\* The sets of events are sent in their order, an empty one not at all.
SendDeltas(EE) ==
  LET frames == [i \in 1..Len(EE) |-> Delta(EE[i])]
  IN  down' = [t \in Tabs |-> IF socket[t] = "off" THEN down[t] ELSE down[t] \o frames]

\* flushBatch() and, after it, whatever is sent at once.
FlushThen(EE) ==
  /\ SendDeltas((IF batch = {} THEN <<>> ELSE <<batch>>) \o EE)
  /\ batch' = {}

\* Mutant of Emit: the first event of a batch starts no timer.
EmitUnarmed(n, urgent) ==
  LET new == (latest + 1)..(latest + n)
      full == Cardinality(batch \cup new) >= BatchMax
  IN  /\ latest + n <= MaxSeq
      /\ latest' = latest + n
      /\ \/ urgent /\ FlushThen(<<new>>)
         \/ ~urgent /\ full /\ SendDeltas(<<batch \cup new>>) /\ batch' = {}
         \/ ~urgent /\ ~full /\ batch' = batch \cup new /\ UNCHANGED down
      /\ UNCHANGED <<armed, oldest, socket, hello, tabVars, breaks>>

\* emit(): append; an urgent event flushes what waits and goes out itself, any other joins
\* the batch, which goes out when it is full (or too many bytes, or overdue: the model
\* takes either), and otherwise waits for the timer.
Emit(n, urgent) ==
  LET new == (latest + 1)..(latest + n)
      full == Cardinality(batch \cup new) >= BatchMax
  IN  /\ latest + n <= MaxSeq
      /\ latest' = latest + n
      /\ \/ urgent /\ FlushThen(<<new>>) /\ UNCHANGED armed
         \/ /\ ~urgent
            /\ SendDeltas(<<batch \cup new>>) /\ batch' = {}
            /\ UNCHANGED armed
         \/ /\ ~urgent /\ ~full
            /\ batch' = batch \cup new /\ armed' = TRUE
            /\ UNCHANGED down
      /\ UNCHANGED <<oldest, socket, hello, tabVars, breaks>>

\* The timer of armFlush() fires.
FlushFires ==
  /\ armed /\ armed' = FALSE
  /\ FlushThen(<<>>)
  /\ UNCHANGED <<latest, oldest, socket, hello, tabVars, breaks>>

\* The alarm prunes rows that are old enough, never the newest KeepNewest.
Prune(n) ==
  /\ n \in (oldest + 1)..latest /\ latest - n + 1 >= KeepNewest
  /\ oldest' = n
  /\ UNCHANGED <<latest, batch, armed, linkVars, tabVars, breaks>>

\* accept(), and the client's side of it: the stored cursor is loaded once per page, the
\* batch is drained to the sockets that were there, the hello carries the cursor.
Accept(t) ==
  /\ socket[t] = "off"
  /\ FlushThen(<<>>)
  /\ socket' = [socket EXCEPT ![t] = "accepted"]
  /\ loaded' = [loaded EXCEPT ![t] = TRUE]
  /\ cursor' = IF ~loaded[t] /\ stored > cursor[t] THEN [cursor EXCEPT ![t] = stored] ELSE cursor
  /\ from' = IF loaded[t] THEN from ELSE [from EXCEPT ![t] = cursor'[t]]
  /\ hello' = [hello EXCEPT ![t] = cursor'[t]]
  /\ UNCHANGED <<latest, oldest, armed, saving, stored, got, seeded, breaks>>

\* Mutant of ResumeFrames: a cursor behind what is retained gets the rows there are.
ResumeFromRows(n) ==
  CASE n > latest -> <<[kind |-> "snapshot", events |-> {}, seq |-> latest]>>
    [] n = latest -> <<>>
    [] OTHER -> <<Delta({i \in (n + 1)..latest : i >= oldest})>>

\* planResume(): a cursor ahead of the stream or behind what is retained needs a snapshot.
ResumeFrames(n) ==
  CASE n > latest -> <<[kind |-> "snapshot", events |-> {}, seq |-> latest]>>
    [] n = latest -> <<>>
    [] n < latest /\ n < oldest - 1 -> <<[kind |-> "snapshot", events |-> {}, seq |-> latest]>>
    [] OTHER -> <<Delta((n + 1)..latest)>>

\* handleMessage() on a socket without hello: negotiated, and sent what it is owed.
HandleHello(t) ==
  /\ socket[t] = "accepted"
  /\ socket' = [socket EXCEPT ![t] = "ready"]
  /\ down' = [down EXCEPT ![t] = @ \o ResumeFrames(hello[t])]
  /\ UNCHANGED <<gatewayVars, hello, tabVars, breaks>>

------------------------------------------------------------------------------------
(* The tabs. *)

\* handleFrame(): a delta moves the cursor to its seq and dispatches its events; a snapshot
\* is dispatched and leaves the cursor alone.
Receive(t) ==
  /\ down[t] # <<>>
  /\ down' = [down EXCEPT ![t] = Tail(@)]
  /\ LET f == Head(down[t]) IN
       IF f.kind = "delta"
         THEN /\ cursor' = [cursor EXCEPT ![t] = f.seq]
              /\ saving' = [saving EXCEPT ![t] = TRUE]
              /\ got' = [got EXCEPT ![t] = @ \cup f.events]
              /\ UNCHANGED seeded
         ELSE /\ seeded' = [seeded EXCEPT ![t] = f.seq]
              /\ UNCHANGED <<cursor, saving, got>>
  /\ UNCHANGED <<gatewayVars, socket, hello, loaded, stored, from, breaks>>

\* The timer of saveResumeCursor(); the write may fail.
SaveFires(t) ==
  /\ saving[t] /\ saving' = [saving EXCEPT ![t] = FALSE]
  /\ stored' \in {stored, cursor[t]}
  /\ UNCHANGED <<gatewayVars, linkVars, cursor, loaded, from, got, seeded, breaks>>

\* The socket closes; frames on their way are lost, stopTimers() saves at once.
Closes(t) ==
  /\ socket[t] # "off" /\ Break
  /\ socket' = [socket EXCEPT ![t] = "off"]
  /\ down' = [down EXCEPT ![t] = <<>>]
  /\ saving' = [saving EXCEPT ![t] = FALSE]
  /\ stored' \in IF saving[t] THEN {stored, cursor[t]} ELSE {stored}
  /\ UNCHANGED <<gatewayVars, hello, cursor, loaded, from, got, seeded>>

\* The page is reloaded: its memory is gone, a cursor not yet saved with it.
Reload(t) ==
  /\ loaded[t] /\ Break
  /\ socket' = [socket EXCEPT ![t] = "off"]
  /\ down' = [down EXCEPT ![t] = <<>>]
  /\ cursor' = [cursor EXCEPT ![t] = 0]
  /\ loaded' = [loaded EXCEPT ![t] = FALSE] /\ saving' = [saving EXCEPT ![t] = FALSE]
  /\ from' = [from EXCEPT ![t] = 0] /\ seeded' = [seeded EXCEPT ![t] = 0]
  /\ got' = [got EXCEPT ![t] = {}]
  /\ UNCHANGED <<gatewayVars, hello, stored>>

\* The gateway restarts: the batch and its timer are lost, and every socket with them.
\* (It does not hibernate, keeping its sockets, while a timer runs.)
Restart ==
  /\ latest > 0 /\ Break
  /\ batch' = {} /\ armed' = FALSE
  /\ socket' = [t \in Tabs |-> "off"] /\ down' = [t \in Tabs |-> <<>>]
  /\ saving' = [t \in Tabs |-> saving[t] /\ socket[t] = "off"]
  /\ stored' \in {stored} \cup {cursor[t] : t \in {t \in Tabs : saving[t]}}
  /\ UNCHANGED <<latest, oldest, hello, cursor, loaded, from, got, seeded>>

Next ==
  \/ \E n \in 1..2, urgent \in BOOLEAN : Emit(n, urgent)
  \/ FlushFires
  \/ \E n \in Seqs : Prune(n)
  \/ \E t \in Tabs : Accept(t) \/ HandleHello(t) \/ Receive(t) \/ SaveFires(t)
                      \/ Closes(t) \/ Reload(t)
  \/ Restart

Spec == Init /\ [][Next]_vars

\* The timer fires, frames arrive while the socket is open, the client reconnects.
Fairness ==
  /\ WF_vars(FlushFires)
  /\ \A t \in Tabs : WF_vars(Accept(t)) /\ WF_vars(HandleHello(t)) /\ WF_vars(Receive(t))

FairSpec == Spec /\ Fairness

------------------------------------------------------------------------------------
(* Properties. *)

\* n was handed to the page of t, by itself or within a snapshot.
Seen(t, n) == n \in got[t] \/ n <= seeded[t]

\* emit(), accept(), sendResume(): once a socket's hello is answered, no frame is on its
\* way and no batch waits, the page has seen every event after the cursor it resumed
\* from: none falls between the answer, the batch and the urgent frames.
CaughtUp ==
  \A t \in Tabs :
    socket[t] = "ready" /\ down[t] = <<>> /\ batch = {} =>
      \A n \in (hello[t] + 1)..latest : Seen(t, n)

\* emit(), armFlush(), sendResume(): on a socket that stays open every event after the
\* cursor it resumed from arrives.
EventsArrive ==
  \A t \in Tabs, n \in Seqs :
    (socket[t] = "ready" /\ hello[t] < n /\ n <= latest) ~> (Seen(t, n) \/ socket[t] # "ready")

\* docs/DURABLE_OBJECTS_ARCHITECTURE.md: "Clients retain the last applied sequence and
\* request `resume`": what lies before the cursor a client resumes from it has seen.
ResumesFromApplied ==
  \A t \in Tabs, n \in Seqs :
    socket[t] # "off" /\ from[t] < n /\ n <= hello[t] => Seen(t, n)
=================================================================================
