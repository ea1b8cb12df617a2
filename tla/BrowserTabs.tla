-------------------------------- MODULE BrowserTabs --------------------------------
(***************************************************************************)
(* Which tab of a browser presents an event every tab hears of: a chime, a *)
(* ringtone, a notification (src/collab/browserTabs.ts).  One event is     *)
(* modelled, its key is the same in every tab; the tabs share the claim    *)
(* lock of that key, where the browser has locks, and a BroadcastChannel.  *)
(*                                                                         *)
(* The model covers the ten minutes the key is remembered.  The search for *)
(* the tab that holds a tab key (hasSibling) is left out.                  *)
(***************************************************************************)
EXTENDS Naturals, FiniteSets

CONSTANTS
  Pages,   \* the tabs
  CallMax  \* bound: calls of claim() that wait in one tab at once

ClaimAssumption == CallMax \in Nat \ {0}

VARIABLES
  hasLocks,   \* the browser has Web Locks
  alive,      \* tabs that were neither closed nor have crashed
  claiming,   \* claiming[c]: where the call c waits: "no", "sleep", or for its "lock"
  lock,       \* the claim lock: <<c, "granted">>, <<c, "held">>, or <<>>
  presented,  \* tabs that know the event is presented
  claimedHere,
  mail,       \* <<u, t>>: the message "claimed" or "handled" of u on its way to t
  answered,   \* answered[t]: what the calls in t returned, "failed" where the lock request did
  handled,    \* the event was dealt with, in some tab
  crashed     \* history: a tab has gone with the lock granted and nothing presented

tabVars == <<hasLocks, alive, claiming, lock, presented, claimedHere, mail, answered,
             handled, crashed>>

Kinds == {"claimed", "handled"}

\* A call of claim(): the tab it runs in, and which of the calls there.
Calls == Pages \X (1..CallMax)

TypeOK ==
  /\ hasLocks \in BOOLEAN /\ handled \in BOOLEAN /\ crashed \in BOOLEAN
  /\ alive \subseteq Pages /\ presented \subseteq Pages /\ claimedHere \subseteq Pages
  /\ claiming \in [Calls -> {"no", "sleep", "lock"}]
  /\ lock = <<>> \/ lock \in Calls \X {"granted", "held"}
  /\ mail \subseteq Pages \X Pages \X Kinds
  /\ answered \in [Pages -> SUBSET {"yes", "no", "failed"}]

Init ==
  /\ hasLocks \in BOOLEAN
  /\ alive = Pages /\ claiming = [c \in Calls |-> "no"]
  /\ lock = <<>> /\ presented = {} /\ claimedHere = {} /\ mail = {}
  /\ answered = [t \in Pages |-> {}]
  /\ handled = FALSE /\ crashed = FALSE

\* post(): to every other tab that is open.
Post(t, kind) == mail' = mail \cup {<<t, u, kind>> : u \in alive \ {t}}

\* The call c returns.
Answer(c, a) ==
  /\ answered' = [answered EXCEPT ![c[1]] = @ \cup {a}]
  /\ claiming' = [claiming EXCEPT ![c] = "no"]

\* Its tab presents the event, and tells the others.
Present(c) ==
  /\ presented' = presented \cup {c[1]} /\ claimedHere' = claimedHere \cup {c[1]}
  /\ Post(c[1], "claimed")
  /\ Answer(c, "yes")

\* What claim() does once it need not wait: a tab that claimed the event before keeps it, one
\* that knows of another does not; without locks the first to look presents it.
Decide(c) ==
  CASE c[1] \in claimedHere ->
         Answer(c, "yes") /\ UNCHANGED <<presented, claimedHere, mail>>
    [] c[1] \notin claimedHere /\ c[1] \in presented ->
         Answer(c, "no") /\ UNCHANGED <<presented, claimedHere, mail>>
    [] OTHER ->
         IF hasLocks
           THEN /\ claiming' = [claiming EXCEPT ![c] = "lock"]
                /\ UNCHANGED <<presented, claimedHere, mail, answered>>
           ELSE Present(c)

\* claim(): the event reaches the tab, or reaches it again, perhaps before the first answer.
Claim(c) ==
  /\ c[1] \in alive /\ claiming[c] = "no"
  /\ Decide(c)
  /\ UNCHANGED <<hasLocks, alive, lock, handled, crashed>>

\* claim() in a hidden tab that lets a visible one go first.
ClaimHidden(c) ==
  /\ c[1] \in alive /\ claiming[c] = "no"
  /\ claiming' = [claiming EXCEPT ![c] = "sleep"]
  /\ UNCHANGED <<hasLocks, alive, lock, presented, claimedHere, mail, answered, handled, crashed>>

\* Its delay is over.
Wakes(c) ==
  /\ c[1] \in alive /\ claiming[c] = "sleep"
  /\ Decide(c)
  /\ UNCHANGED <<hasLocks, alive, lock, handled, crashed>>

\* The browser grants the lock, says at once that it is taken, by a call of this tab perhaps,
\* or rejects the request: then claim() returns false as if it were.
LockAnswers(c) ==
  /\ c[1] \in alive /\ claiming[c] = "lock" /\ (lock # <<>> => lock[1] # c)
  /\ \/ lock = <<>> /\ lock' = <<c, "granted">> /\ UNCHANGED <<claiming, answered>>
     \/ lock # <<>> /\ Answer(c, "no") /\ UNCHANGED lock
     \/ Answer(c, "failed") /\ UNCHANGED lock
  /\ UNCHANGED <<hasLocks, alive, presented, claimedHere, mail, handled, crashed>>

\* Mutant of Granted: the callback does not look again.
GrantedAtOnce(c) ==
  /\ c[1] \in alive /\ lock = <<c, "granted">>
  /\ lock' = <<c, "held">> /\ Present(c)
  /\ UNCHANGED <<hasLocks, alive, handled, crashed>>

\* The callback of a granted lock: it may have heard of another tab since it asked.
Granted(c) ==
  /\ c[1] \in alive /\ lock = <<c, "granted">>
  /\ IF c[1] \in presented
       THEN lock' = <<>> /\ Answer(c, "no") /\ UNCHANGED <<presented, claimedHere, mail>>
       ELSE lock' = <<c, "held">> /\ Present(c)
  /\ UNCHANGED <<hasLocks, alive, handled, crashed>>

\* CLAIM_HOLD_MS is over.  The lock is held long enough for the message to arrive.
HoldEnds(c) ==
  /\ lock = <<c, "held">> /\ lock' = <<>>
  /\ \A u \in Pages : <<c[1], u, "claimed">> \notin mail
  /\ UNCHANGED <<hasLocks, alive, claiming, presented, claimedHere, mail, answered, handled, crashed>>

\* announceHandled(): the call was joined or declined here (bound: once).
Handle(t) ==
  /\ t \in alive /\ ~handled /\ handled' = TRUE
  /\ claimedHere' = claimedHere \ {t} /\ presented' = presented \cup {t}
  /\ Post(t, "handled")
  /\ UNCHANGED <<hasLocks, alive, claiming, lock, answered, crashed>>

\* receive(): both kinds are remembered; "handled" also ends a claim of this tab.
Receive(u, t, kind) ==
  /\ <<u, t, kind>> \in mail /\ mail' = mail \ {<<u, t, kind>>}
  /\ presented' = presented \cup {t}
  /\ claimedHere' = IF kind = "handled" THEN claimedHere \ {t} ELSE claimedHere
  /\ UNCHANGED <<hasLocks, alive, claiming, lock, answered, handled, crashed>>

\* The tab is closed or crashes; the browser releases its lock.
Gone(t) ==
  /\ t \in alive /\ alive' = alive \ {t}
  /\ crashed' = (crashed \/ \E c \in Calls : c[1] = t /\ lock = <<c, "granted">>)
  /\ lock' = IF lock # <<>> /\ lock[1][1] = t THEN <<>> ELSE lock
  /\ claiming' = [c \in Calls |-> IF c[1] = t THEN "no" ELSE claiming[c]]
  /\ mail' = {m \in mail : m[2] # t}
  /\ UNCHANGED <<hasLocks, presented, claimedHere, answered, handled>>

Next ==
  \/ \E c \in Calls : Claim(c) \/ ClaimHidden(c) \/ Wakes(c) \/ LockAnswers(c) \/ Granted(c)
                       \/ HoldEnds(c)
  \/ \E t \in Pages : Handle(t) \/ Gone(t)
  \/ \E u, t \in Pages, kind \in Kinds : Receive(u, t, kind)

Spec == Init /\ [][Next]_tabVars

------------------------------------------------------------------------------------
(* Properties. *)

\* claim(): "True for exactly one tab of the browser per key": where the browser has locks two
\* open tabs never both presented the event, and with or without locks a call returns false
\* only because a tab presented the event, is about to, dealt with it, has gone while it was
\* about to, or because the browser rejected the lock request itself ("failed").
OnePresents ==
  /\ hasLocks => \A t, u \in alive : "yes" \in answered[t] /\ "yes" \in answered[u] => t = u
  /\ (\E t \in Pages : "no" \in answered[t]) =>
       \/ handled \/ crashed \/ \E c \in Calls : lock = <<c, "granted">>
       \/ \E u \in Pages : "yes" \in answered[u]
=================================================================================
