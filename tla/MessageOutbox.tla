------------------------------- MODULE MessageOutbox -------------------------------
(***************************************************************************)
(* The outbox of one conversation: signed messages kept in IndexedDB until *)
(* their delivery is confirmed (packages/core/src/messageOutbox.ts), driven*)
(* by the 15 s timer, the online event and the send and cancel buttons of  *)
(* every tab the conversation is open in (reactMessageOutbox.ts).          *)
(*                                                                         *)
(* A box is the object createMessageOutbox returns.  The boxes share the   *)
(* database; the running flush and the cancelled messages are a box's own. *)
(* Mounting the workspace makes a box: who goes elsewhere and comes back   *)
(* has a new one, beside the old one whose flush may still wait for an     *)
(* answer.  One action is one database transaction together with the code  *)
(* that runs when it completes, up to the next await: the transactions of  *)
(* two flushes interleave.  A message is its id.                           *)
(***************************************************************************)
EXTENDS Integers, FiniteSets

CONSTANTS
  Msgs,       \* message ids
  Tabs,       \* tabs the conversation may be open in
  Boxes,      \* the outboxes made in them
  TabOf,      \* TabOf[b]: the tab b is made in
  Cap,        \* 100: messages that may be pending
  MaxClock,   \* bound: the clock stops here
  MaxCancels, \* bound: cancellations
  MaxBreaks   \* bound: reloads, navigations and failed transactions

ASSUME OutboxAssumption ==
  /\ Msgs # {} /\ Tabs # {}
  /\ TabOf \in [Boxes -> Tabs] /\ \A t \in Tabs : \E b \in Boxes : TabOf[b] = t
  /\ Cap \in Nat /\ MaxClock \in Nat \ {0} /\ MaxCancels \in Nat /\ MaxBreaks \in Nat

VARIABLES
  store,      \* the messages table; `by`, the tab that queued the entry, is history
  clock,
  last,       \* last[t]: lastQueuedAt of the page in tab t
  adding,     \* adding[t]: entries whose put is on its way
  flush,      \* flush[b]: the running flush: where it is, its entry, what is left
  cancelled,  \* cancelled[b]: ids cancelled while a flush of b runs
  open,       \* open[b]: "open" when current(): mounted, on this conversation, enabled
  accepted,   \* messages the other side has accepted
  attempted,  \* messages a deliver() was started for
  breaks,
  queued,     \* history: entries ever put by enqueue
  dropped,    \* history: <<b, m>>: m was cancelled in b
  held,       \* history: those of them no other box's flush has undone since
  cut         \* history: boxes a reload or a failed transaction interrupted

vars == <<store, clock, last, adding, flush, cancelled, open, accepted, attempted,
          breaks, queued, dropped, held, cut>>

EntryType == [id : Msgs, at : Nat \ {0}, by : Tabs]

Ids(E) == {e.id : e \in E}

Without(E, m) == {e \in E : e.id # m}

Earliest(E) == CHOOSE e \in E : \A x \in E : e.at <= x.at

\* Stands in the entry of a flush that has none.
NoEntry == CHOOSE e \in [id : Msgs, at : {0}, by : Tabs] : TRUE

Rest == [pc |-> "idle", entry |-> NoEntry, left |-> {}]

FlushType == [pc : {"idle", "list", "check", "deliver", "remove", "failcheck", "put", "undo"},
              entry : EntryType \cup {NoEntry}, left : SUBSET EntryType]

\* The box a tab's page makes first.
First(t) == CHOOSE b \in Boxes : TabOf[b] = t

At(b, pc) == flush[b].pc = pc

Current(b) == flush[b].entry

-----------------------------------------------------------------------------
Init ==
  /\ store = {}
  /\ clock = 1
  /\ last = [t \in Tabs |-> 0]
  /\ adding = [t \in Tabs |-> {}]
  /\ flush = [b \in Boxes |-> Rest]
  /\ cancelled = [b \in Boxes |-> {}]
  /\ \E T \in SUBSET Tabs :                        \* the tabs that have it open
       T # {} /\ open = [b \in Boxes |-> IF TabOf[b] \in T /\ b = First(TabOf[b])
                                           THEN "open" ELSE "unused"]
  /\ accepted = {}
  /\ attempted = {}
  /\ breaks = 0
  /\ queued = {}
  /\ dropped = {}
  /\ held = {}
  /\ cut = {}

-----------------------------------------------------------------------------
(* enqueue() and remove().                                                  *)

\* Mutant of Stamp: one less than the last stamp instead of one more.
StampBefore(t) == IF clock > last[t] THEN clock ELSE last[t] - 1

Stamp(t) == IF clock > last[t] THEN clock ELSE last[t] + 1

\* The list came back with room; the put is sent.  The box may be left by then.
Enqueue(b, m) ==
  /\ open[b] # "unused"
  /\ m \notin Ids(queued)
  /\ \A u \in Tabs : m \notin Ids(adding[u])
  /\ Cardinality(store) < Cap
  /\ LET t == TabOf[b]
     IN  /\ last' = [last EXCEPT ![t] = Stamp(t)]
         /\ adding' = [adding EXCEPT ![t] = @ \cup {[id |-> m, at |-> Stamp(t), by |-> t]}]
  /\ cancelled' = [cancelled EXCEPT ![b] = @ \ {m}]
  /\ UNCHANGED <<store, clock, flush, open, accepted, attempted, breaks, queued,
                 dropped, held, cut>>

EnqueuePut(t) ==
  /\ adding[t] # {}
  /\ LET e == Earliest(adding[t])
     IN  /\ store' = store \cup {e}
         /\ queued' = queued \cup {e}
         /\ adding' = [adding EXCEPT ![t] = @ \ {e}]
  /\ UNCHANGED <<clock, last, flush, cancelled, open, accepted, attempted, breaks,
                 dropped, held, cut>>

\* The user cancels a message that was listed; a running flush of this box is told.
\* The removal may complete when the box is left.
Cancel(b, m) ==
  /\ open[b] # "unused"
  /\ m \in Ids(queued)
  /\ Cardinality(dropped) < MaxCancels
  /\ store' = Without(store, m)
  /\ cancelled' = IF At(b, "idle") THEN cancelled
                                   ELSE [cancelled EXCEPT ![b] = @ \cup {m}]
  /\ dropped' = dropped \cup {<<b, m>>}
  /\ held' = held \cup {<<b, m>>}
  /\ UNCHANGED <<clock, last, adding, flush, open, accepted, attempted, breaks,
                 queued, cut>>

-----------------------------------------------------------------------------
(* flush().  Each action is named for the transaction or call it completes. *)

\* The operation ends, by return or by a rejection.
Done(b) ==
  /\ flush' = [flush EXCEPT ![b] = Rest]
  /\ cancelled' = [cancelled EXCEPT ![b] = {}]

Goto(b, pc) ==
  /\ flush' = [flush EXCEPT ![b].pc = pc]
  /\ UNCHANGED cancelled

\* Mutant of NextOf: the newest first.
NextNewest(E) == CHOOSE e \in E : \A x \in E : e.at >= x.at

NextOf(E) == Earliest(E)

\* The loops: on to the earliest of E that was not cancelled, or list again.
Advance(b, E) ==
  LET wanted == {e \in E : e.id \notin cancelled[b]}
  IN  IF open[b] # "open" THEN Done(b)
      ELSE IF wanted = {} THEN flush' = [flush EXCEPT ![b] = [Rest EXCEPT !.pc = "list"]]
                               /\ UNCHANGED cancelled
      ELSE /\ flush' = [flush EXCEPT ![b] =
                [pc |-> "check", entry |-> NextOf(wanted), left |-> wanted \ {NextOf(wanted)}]]
           /\ UNCHANGED cancelled

\* The timer, the online event, mounting, or a send starts a flush; with one
\* running already its promise is shared.
Start(b) ==
  /\ At(b, "idle") /\ open[b] = "open"
  /\ Goto(b, "list")
  /\ UNCHANGED <<store, clock, last, adding, open, accepted, attempted, breaks,
                 queued, dropped, held, cut>>

List(b) ==
  /\ At(b, "list")
  /\ IF store = {} THEN Done(b) ELSE Advance(b, store)
  /\ UNCHANGED <<store, clock, last, adding, open, accepted, attempted, breaks,
                 queued, dropped, held, cut>>

\* Mutant of Check: a message is tried only once.
CheckOnce(b) ==
  /\ At(b, "check")
  /\ IF Current(b).id \in Ids(store) \ attempted
       THEN Goto(b, "deliver") /\ attempted' = attempted \cup {Current(b).id}
       ELSE Advance(b, flush[b].left) /\ UNCHANGED attempted
  /\ UNCHANGED <<store, clock, last, adding, open, accepted, breaks, queued, dropped, held, cut>>

\* An entry another flush has delivered or cancelled meanwhile is passed over.
Check(b) ==
  /\ At(b, "check")
  /\ IF Current(b).id \in Ids(store)
       THEN Goto(b, "deliver") /\ attempted' = attempted \cup {Current(b).id}
       ELSE Advance(b, flush[b].left) /\ UNCHANGED attempted
  /\ UNCHANGED <<store, clock, last, adding, open, accepted, breaks, queued, dropped, held, cut>>

\* What was sent is accepted: before the answer, or after the sender gave up.
Accept(m) ==
  /\ m \in attempted
  /\ accepted' = accepted \cup {m}
  /\ UNCHANGED <<store, clock, last, adding, flush, cancelled, open, attempted, breaks,
                 queued, dropped, held, cut>>

DeliverOk(b) ==
  /\ At(b, "deliver") /\ Current(b).id \in accepted
  /\ Goto(b, "remove")
  /\ UNCHANGED <<store, clock, last, adding, open, accepted, attempted, breaks,
                 queued, dropped, held, cut>>

Remove(b) ==
  /\ At(b, "remove")
  /\ store' = Without(store, Current(b).id)
  /\ Advance(b, flush[b].left)
  /\ UNCHANGED <<clock, last, adding, open, accepted, attempted, breaks, queued, dropped, held, cut>>

\* The catch block: nothing is written back for a message cancelled here.
Caught(b) == IF Current(b).id \in cancelled[b] THEN Done(b) ELSE Goto(b, "failcheck")

\* Mutant of DeliverFail: a failed attempt is treated as a delivered one.
DeliverFailRemoves(b) ==
  /\ At(b, "deliver")
  /\ Goto(b, "remove")
  /\ UNCHANGED <<store, clock, last, adding, open, accepted, attempted, breaks,
                 queued, dropped, held, cut>>

\* The socket closed, the acknowledgement timed out, or the sender's own history
\* could not be saved.
DeliverFail(b) ==
  /\ At(b, "deliver")
  /\ Caught(b)
  /\ UNCHANGED <<store, clock, last, adding, open, accepted, attempted, breaks,
                 queued, dropped, held, cut>>

FailCheck(b) ==
  /\ At(b, "failcheck")
  /\ IF Current(b).id \in Ids(store) THEN Goto(b, "put") ELSE Done(b)
  /\ UNCHANGED <<store, clock, last, adding, open, accepted, attempted, breaks,
                 queued, dropped, held, cut>>

PutBack(b) ==
  /\ store' = Without(store, Current(b).id) \cup {Current(b)}
  /\ held' = IF Current(b).id \in Ids(store)
               THEN held
               ELSE {h \in held : h[1] = b \/ h[2] # Current(b).id}

\* Mutant of Put: no second look at the cancelled messages.
PutAndLeave(b) ==
  /\ At(b, "put")
  /\ PutBack(b)
  /\ Done(b)
  /\ UNCHANGED <<clock, last, adding, open, accepted, attempted, breaks, queued, dropped, cut>>

\* The entry is put back as failed, and taken out again if it was cancelled here.
Put(b) ==
  /\ At(b, "put")
  /\ PutBack(b)
  /\ IF Current(b).id \in cancelled[b] THEN Goto(b, "undo") ELSE Done(b)
  /\ UNCHANGED <<clock, last, adding, open, accepted, attempted, breaks, queued, dropped, cut>>

Undo(b) ==
  /\ At(b, "undo")
  /\ store' = Without(store, Current(b).id)
  /\ Done(b)
  /\ UNCHANGED <<clock, last, adding, open, accepted, attempted, breaks, queued, dropped, held, cut>>

-----------------------------------------------------------------------------
(* The tab and its database.                                                *)

Break == breaks < MaxBreaks /\ breaks' = breaks + 1

\* A transaction of the flush aborts: its promise rejects; the remove of a
\* delivered entry stands inside the try.
FlushFails(b) ==
  /\ Break
  /\ flush[b].pc \in {"list", "check", "remove", "failcheck", "put", "undo"}
  /\ IF At(b, "remove") THEN Caught(b) ELSE Done(b)
  /\ cut' = cut \cup {b}
  /\ UNCHANGED <<store, clock, last, adding, open, accepted, attempted, queued, dropped, held>>

\* The put of an enqueue aborts: the composer keeps the text.
EnqueueFails(t) ==
  /\ Break
  /\ adding[t] # {}
  /\ adding' = [adding EXCEPT ![t] = @ \ {Earliest(@)}]
  /\ UNCHANGED <<store, clock, last, flush, cancelled, open, accepted, attempted,
                 queued, dropped, held, cut>>

\* The page is reloaded: the boxes of the tab are gone, and it makes one again, which
\* takes the place of b.  A page takes longer to load than its last burst of sends ran
\* ahead of the clock.
Reload(b) ==
  /\ Break
  /\ open[b] \in {"open", "away"}
  /\ LET t == TabOf[b]
         gone == {c \in Boxes : TabOf[c] = t}
     IN  /\ last[t] < clock
         /\ last' = [last EXCEPT ![t] = 0]
         /\ adding' = [adding EXCEPT ![t] = {}]
         /\ flush' = [c \in Boxes |-> IF c \in gone THEN Rest ELSE flush[c]]
         /\ cancelled' = [c \in Boxes |-> IF c \in gone THEN {} ELSE cancelled[c]]
         /\ cut' = cut \cup gone
  /\ open' = [open EXCEPT ![b] = "open"]
  /\ UNCHANGED <<store, clock, accepted, attempted, queued, dropped, held>>

\* The room is lost, or the component shows another conversation; and it is back.
Leave(b) ==
  /\ Break
  /\ open[b] = "open"
  /\ open' = [open EXCEPT ![b] = "away"]
  /\ UNCHANGED <<store, clock, last, adding, flush, cancelled, accepted, attempted,
                 queued, dropped, held, cut>>

Return(b) ==
  /\ open[b] = "away"
  /\ open' = [open EXCEPT ![b] = "open"]
  /\ UNCHANGED <<store, clock, last, adding, flush, cancelled, accepted, attempted,
                 breaks, queued, dropped, held, cut>>

\* The user goes to another screen and comes back: the workspace mounts again with a new
\* box.  The old one keeps its flush, which goes on to the end of its attempt.
Remount(b, c) ==
  /\ Break
  /\ open[b] \in {"open", "away"}
  /\ open[c] = "unused" /\ TabOf[c] = TabOf[b]
  /\ open' = [open EXCEPT ![b] = "left", ![c] = "open"]
  /\ UNCHANGED <<store, clock, last, adding, flush, cancelled, accepted, attempted,
                 queued, dropped, held, cut>>

Tick ==
  /\ clock < MaxClock
  /\ clock' = clock + 1
  /\ UNCHANGED <<store, last, adding, flush, cancelled, open, accepted, attempted,
                 breaks, queued, dropped, held, cut>>

Step(b) ==
  \/ Start(b) \/ List(b) \/ Check(b) \/ Remove(b) \/ FailCheck(b) \/ Put(b) \/ Undo(b)

Next ==
  \/ \E b \in Boxes, m \in Msgs : Enqueue(b, m)
  \/ \E t \in Tabs : EnqueuePut(t)
  \/ \E b \in Boxes, m \in Msgs : Cancel(b, m)
  \/ \E b \in Boxes : Step(b)
  \/ \E m \in Msgs : Accept(m)
  \/ \E b \in Boxes : DeliverOk(b)
  \/ \E b \in Boxes : DeliverFail(b)
  \/ \E b \in Boxes : FlushFails(b)
  \/ \E t \in Tabs : EnqueueFails(t)
  \/ \E b \in Boxes : Reload(b)
  \/ \E b \in Boxes : Leave(b)
  \/ \E b \in Boxes : Return(b)
  \/ \E b, c \in Boxes : Remount(b, c)
  \/ Tick

Spec == Init /\ [][Next]_vars

\* The timer keeps starting flushes, transactions complete, the user comes back,
\* what was sent arrives, and a delivery that is tried for ever is confirmed once.
FairSpec ==
  /\ Spec
  /\ \A b \in Boxes : WF_vars(Step(b)) /\ WF_vars(Return(b))
  /\ \A b \in Boxes : WF_vars(DeliverFail(b)) /\ SF_vars(DeliverOk(b))
  /\ \A m \in Msgs : WF_vars(Accept(m))

-----------------------------------------------------------------------------
(* Properties.                                                              *)

TypeOK ==
  /\ store \in SUBSET EntryType
  /\ clock \in 1 .. MaxClock
  /\ last \in [Tabs -> Nat]
  /\ adding \in [Tabs -> SUBSET EntryType]
  /\ flush \in [Boxes -> FlushType]
  /\ cancelled \in [Boxes -> SUBSET Msgs]
  /\ open \in [Boxes -> {"unused", "open", "away", "left"}]
  /\ accepted \in SUBSET Msgs /\ attempted \in SUBSET Msgs
  /\ breaks \in 0 .. MaxBreaks
  /\ queued \in SUBSET EntryType
  /\ dropped \in SUBSET (Boxes \X Msgs) /\ held \in SUBSET dropped
  /\ cut \in SUBSET Boxes

Cancelled(m) == \E b \in Boxes : <<b, m>> \in dropped

\* A message leaves the outbox only when it was accepted or cancelled, whatever
\* attempt of whatever box failed, and however it was interrupted.
NothingLost ==
  \A m \in Ids(queued) : m \in Ids(store) \/ m \in accepted \/ Cancelled(m)

\* Messages queued in one tab are tried in the order they were queued: the later
\* one not before the earlier one was accepted or cancelled.
SentInOrder ==
  \A e, f \in queued :
    e.by = f.by /\ e.at < f.at /\ f.id \in attempted =>
      e.id \in accepted \/ Cancelled(e.id)

\* A message cancelled in a box is not put back by the flush of that box, but for the
\* moment until the flush takes it out again; only another box's flush can, which is in
\* another tab or was left behind by a navigation.
CancelHolds ==
  \A b \in Boxes, m \in Ids(store) :
    <<b, m>> \in held /\ b \notin cut => At(b, "undo") /\ Current(b).id = m

\* A box was left behind by a navigation, and the flush of every mounted one passes m
\* over, as cancelled.
PassedOver(m) ==
  /\ \E b \in Boxes : open[b] = "left"
  /\ \A b \in Boxes : open[b] = "open" => m \in cancelled[b]

\* A queued message does not wait for ever, whatever failed before; but one that a box
\* left behind has put back after its cancellation may: the flushes of the mounted boxes
\* list it again and again, and do not try it.
QueuedLeaves == \A m \in Msgs : m \in Ids(store) ~> m \notin Ids(store) \/ PassedOver(m)

-----------------------------------------------------------------------------
(* A claim the code does not keep.                                          *)

\* packages/core/README.md: "cancellation of future attempts".  A message that was
\* cancelled is not in the outbox again when no flush is running.
CancelledStaysOut ==
  (\A b \in Boxes : At(b, "idle")) =>
    \A b \in Boxes, m \in Msgs : <<b, m>> \in dropped /\ b \notin cut => m \notin Ids(store)
=============================================================================
