---------------------------------- MODULE MCLive ----------------------------------
(***************************************************************************)
(* Model values for three components whose liveness is checked: the        *)
(* message outbox, the event feed and the queue of revocations.  They      *)
(* share nothing; `part`, chosen in the initial state, says which of them  *)
(* a behaviour is of, and the others stand still in it.                    *)
(***************************************************************************)
EXTENDS Naturals, Sequences, SequencesExt

CONSTANTS
  Msgs, Tabs, Boxes, TabOf, Cap, MaxClock, MaxCancels, MaxBreaks, \* of the outbox
  t1, t2, b1, b2, b3,                                            \* its model values
  FeedTabs, BatchMax, KeepNewest, MaxSeq, FeedBreaks,            \* of the feed
  Gone, Browsers, IntentMax, RemountMax                          \* of the queue

VARIABLES
  part,
  store, clock, last, adding, flush, cancelled, open, accepted, attempted, breaks,
  queued, dropped, held, cut,
  latest, oldest, batch, armed, socket, hello, down, cursor, loaded, saving, stored,
  feedBreaks, from, got, seeded,
  intents, running, live, revoked, asked, remounts

\* Two tabs with a box each, or one in which the workspace is left and mounted again.
BoxTab == [b \in Boxes |-> IF b = b3 THEN t2 ELSE t1]

Outbox == INSTANCE MessageOutbox
Feed == INSTANCE EventFeed WITH Tabs <- FeedTabs, MaxBreaks <- FeedBreaks, breaks <- feedBreaks
Queue == INSTANCE RevocationQueue

outboxVars == <<store, clock, last, adding, flush, cancelled, open, accepted, attempted,
                breaks, queued, dropped, held, cut>>
feedVars == <<latest, oldest, batch, armed, socket, hello, down, cursor, loaded, saving,
              stored, feedBreaks, from, got, seeded>>
queueVars == <<intents, running, live, revoked, asked, remounts>>
vars == <<part, outboxVars, feedVars, queueVars>>

Init ==
  /\ part \in {"outbox", "feed", "queue"}
  /\ Outbox!Init /\ Feed!Init /\ Queue!Init

\* Bound: no third box is made.
TwoBoxes == Cardinality({b \in Boxes : open[b] # "unused"}) <= 2

OutboxStep ==
  part = "outbox" /\ Outbox!Next /\ TwoBoxes' /\ UNCHANGED <<part, feedVars, queueVars>>
FeedStep == part = "feed" /\ Feed!Next /\ UNCHANGED <<part, outboxVars, queueVars>>
QueueStep == part = "queue" /\ Queue!Next /\ UNCHANGED <<part, outboxVars, feedVars>>

Next == OutboxStep \/ FeedStep \/ QueueStep

\* The fairness of MessageOutbox, EventFeed and RevocationQueue, each in its own part.
OutboxFairness ==
  /\ \A b \in Boxes :
       /\ WF_outboxVars(part = "outbox" /\ Outbox!Step(b))
       /\ WF_outboxVars(part = "outbox" /\ Outbox!Return(b))
       /\ WF_outboxVars(part = "outbox" /\ Outbox!DeliverFail(b))
       /\ SF_outboxVars(part = "outbox" /\ Outbox!DeliverOk(b))
  /\ \A m \in Msgs : WF_outboxVars(part = "outbox" /\ Outbox!Accept(m))

FeedFairness ==
  /\ WF_feedVars(part = "feed" /\ Feed!FlushFires)
  /\ \A t \in FeedTabs :
       /\ WF_feedVars(part = "feed" /\ Feed!Accept(t)) /\ WF_feedVars(part = "feed" /\ Feed!HandleHello(t))
       /\ WF_feedVars(part = "feed" /\ Feed!Receive(t))

QueueFairness ==
  \A t \in Browsers :
    /\ WF_queueVars(part = "queue" /\ (Queue!Starts(t) \/ Queue!Ends(t)))
    /\ WF_queueVars(part = "queue" /\ (Queue!Acknowledged(t) \/ Queue!Fails(t)))
    /\ SF_queueVars(part = "queue" /\ Queue!ServerRevokes(t)) /\ SF_queueVars(part = "queue" /\ Queue!Acknowledged(t))

ASSUME LiveAssumption ==
  Outbox!OutboxAssumption /\ Feed!FeedAssumption /\ Queue!QueueAssumption

Spec == Init /\ [][Next]_vars /\ OutboxFairness /\ FeedFairness /\ QueueFairness

\* See MessageOutbox: a queued message leaves the outbox, but for one cancelled beside a box
\* left behind.
QueuedLeaves == Outbox!QueuedLeaves

\* See EventFeed: on a socket that stays open every event arrives.
EventsArrive == Feed!EventsArrive

\* See RevocationQueue: a removed device is revoked in the end.  Its type invariant goes with
\* it, those of the other two are checked in the runs of their safety.
RevocationsReach == []Queue!TypeOK /\ Queue!RevocationsReach
=================================================================================
