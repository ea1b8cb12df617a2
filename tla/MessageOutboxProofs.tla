--------------------------- MODULE MessageOutboxProofs ---------------------------
(***************************************************************************)
(* Proofs about MessageOutbox, for any messages, tabs, boxes and bounds:   *)
(* types, that nothing is lost, the order of delivery and that a           *)
(* cancellation holds in the box it was made in.                           *)
(***************************************************************************)
EXTENDS MessageOutbox, FiniteSetTheorems, WellFoundedInduction, TLAPS

-----------------------------------------------------------------------------
(* What the helpers return.                                                 *)

\* A set of numbers has a least one: of its initial segments, which are finite, one
\* is contained in all others.
LEMMA Smallest ==
  ASSUME NEW T \in SUBSET Nat, T # {} PROVE \E x \in T : \A y \in T : x <= y
  <1> DEFINE Below(x) == T \cap (0 .. x)
             U == {Below(x) : x \in T}
  <1>1. U \subseteq FiniteSubsetsOf(Nat) /\ U # {}
    <2>1. \A x \in T : IsFiniteSet(Below(x)) /\ Below(x) \in SUBSET Nat
      <3> SUFFICES ASSUME NEW x \in T PROVE IsFiniteSet(Below(x))
        OBVIOUS
      <3>1. IsFiniteSet(0 .. x) /\ Below(x) \subseteq 0 .. x
        BY FS_Interval
      <3> HIDE DEF Below
      <3> QED
        BY <3>1, FS_Subset
    <2> QED
      BY <2>1 DEF FiniteSubsetsOf
  <1>2. PICK B \in U : \A C \in U : ~ (<<C, B>> \in StrictSubsetOrdering(Nat))
    <2> HIDE DEF U
    <2> QED
      BY <1>1, WFMin, FS_StrictSubsetOrderingWellFounded, Zenon
  <1>3. PICK x \in T : B = Below(x)
    OBVIOUS
  <1>4. \A y \in T : ~(y < x)
    <2> SUFFICES ASSUME NEW y \in T, y < x PROVE FALSE
      OBVIOUS
    <2>1. Below(y) \in U /\ Below(y) \subseteq Below(x) /\ x \in Below(x) /\ x \notin Below(y)
      OBVIOUS
    <2>2. <<Below(y), B>> \in StrictSubsetOrdering(Nat)
      BY <1>3, <2>1 DEF StrictSubsetOrdering
    <2> QED
      BY <1>2, <2>1, <2>2
  <1> QED
    BY <1>4

\* The earliest entry of a set is in it, and none is before it.
LEMMA EarliestIs ==
  ASSUME NEW E \in SUBSET EntryType, E # {}
  PROVE  Earliest(E) \in E /\ \A x \in E : Earliest(E).at <= x.at
  <1> DEFINE T == {e.at : e \in E}
  <1>1. T \in SUBSET Nat /\ T # {}
    BY DEF EntryType
  <1>2. PICK n \in T : \A y \in T : n <= y
    <2> HIDE DEF T
    <2> QED
      BY <1>1, Smallest
  <1>3. \E e \in E : \A x \in E : e.at <= x.at
    BY <1>2
  <1> QED
    BY <1>3 DEF Earliest

\* The value for no entry.
LEMMA NoEntryType == NoEntry \in [id : Msgs, at : {0}, by : Tabs]
  <1>1. PICK m \in Msgs, t \in Tabs : TRUE
    BY OutboxAssumption
  <1>2. [id |-> m, at |-> 0, by |-> t] \in [id : Msgs, at : {0}, by : Tabs]
    OBVIOUS
  <1> QED
    BY <1>2 DEF NoEntry

\* A flush at rest, and one that lists, are well typed and have nothing left.
LEMMA RestType == /\ Rest \in FlushType /\ Rest.pc = "idle" /\ Rest.left = {}
                  /\ [Rest EXCEPT !.pc = "list"] \in FlushType
                  /\ [Rest EXCEPT !.pc = "list"].pc = "list"
                  /\ [Rest EXCEPT !.pc = "list"].left = {}
  BY DEF Rest, FlushType

\* The fields of a flush.
LEMMA FlushFields ==
  ASSUME TypeOK, NEW b \in Boxes
  PROVE  /\ flush[b] \in FlushType /\ Current(b) \in EntryType \cup {NoEntry}
         /\ Current(b).id \in Msgs /\ flush[b].left \in SUBSET EntryType
  BY NoEntryType DEF TypeOK, FlushType, EntryType, Current

\* Where the flush of box b is after one of its steps, and that the others are where
\* they were.
OthersStay(b) == \A c \in Boxes : c # b => flush'[c] = flush[c] /\ cancelled'[c] = cancelled[c]

\* The flushes and what they cancelled are well typed.
FlushTyped == flush' \in [Boxes -> FlushType] /\ cancelled' \in [Boxes -> SUBSET Msgs]

\* The flush of b is over.
Ended(b) == flush'[b] = Rest /\ cancelled'[b] = {}

\* What Done does, ...
LEMMA DoneIs ==
  ASSUME TypeOK, NEW b \in Boxes, Done(b) PROVE FlushTyped /\ OthersStay(b) /\ Ended(b)
  BY RestType DEF Done, TypeOK, FlushTyped, OthersStay, Ended

\* The flush of b is elsewhere, with the same list.
Moved(b, pc) == /\ flush'[b].pc = pc /\ flush'[b].entry = flush[b].entry
                /\ flush'[b].left = flush[b].left /\ cancelled'[b] = cancelled[b]

\* ... what Goto does, ...
LEMMA GotoIs ==
  ASSUME TypeOK, NEW b \in Boxes,
         NEW pc \in {"list", "check", "deliver", "remove", "failcheck", "put", "undo"}, Goto(b, pc)
  PROVE  FlushTyped /\ OthersStay(b) /\ Moved(b, pc)
  BY DEF Goto, TypeOK, FlushTyped, OthersStay, Moved, FlushType

\* The loop has gone on to the earliest entry of E that was not cancelled here.
Onward(b, E) ==
  /\ flush'[b].pc = "check" /\ flush'[b].entry \in E /\ flush'[b].left \subseteq E
  /\ flush'[b].entry.id \notin cancelled[b]
  /\ \A x \in flush'[b].left : flush'[b].entry.at <= x.at
  /\ \A x \in E : x.id \in cancelled[b] \/ x = flush'[b].entry \/ x \in flush'[b].left

\* ... and what Advance does to a flush.
LEMMA AdvanceIs ==
  ASSUME TypeOK, NEW b \in Boxes, NEW E \in SUBSET EntryType, Advance(b, E)
  PROVE  /\ FlushTyped /\ OthersStay(b)
         /\ \/ Ended(b)
            \/ /\ flush'[b].pc = "list" /\ flush'[b].left = {} /\ cancelled'[b] = cancelled[b]
            \/ Onward(b, E) /\ cancelled'[b] = cancelled[b]
  <1> DEFINE wanted == {e \in E : e.id \notin cancelled[b]}
  <1>1. CASE open[b] # "open"
    BY <1>1, DoneIs DEF Advance
  <1>2. CASE open[b] = "open" /\ wanted = {}
    BY <1>2, RestType DEF Advance, TypeOK, FlushTyped, OthersStay
  <1>3. CASE open[b] = "open" /\ wanted # {}
    <2> DEFINE n == NextOf(wanted)
               new == [pc |-> "check", entry |-> n, left |-> wanted \ {n}]
    <2>1. flush' = [flush EXCEPT ![b] = new] /\ cancelled' = cancelled
      BY <1>3 DEF Advance
    <2>2. wanted \in SUBSET EntryType
      OBVIOUS
    <2>3. n \in wanted /\ \A x \in wanted : n.at <= x.at
      <3> HIDE DEF wanted
      <3> QED
        BY <1>3, <2>2, EarliestIs DEF NextOf
    <2>4. \A x \in E : x.id \in cancelled[b] \/ x \in wanted
      OBVIOUS
    <2>5. n \in E /\ wanted \subseteq E /\ n.id \notin cancelled[b]
      BY <2>3
    <2> HIDE DEF wanted, n
    <2>6. new \in FlushType
      BY <2>2, <2>3 DEF FlushType
    <2>7. new.pc = "check" /\ new.entry = n /\ new.left = wanted \ {n}
      OBVIOUS
    <2> HIDE DEF new
    <2>8. FlushTyped /\ OthersStay(b) /\ flush'[b] = new /\ cancelled'[b] = cancelled[b]
      BY <2>1, <2>6 DEF TypeOK, FlushTyped, OthersStay
    <2>9. Onward(b, E)
      BY <2>3, <2>4, <2>5, <2>7, <2>8 DEF Onward
    <2> QED
      BY <2>8, <2>9
  <1> QED
    BY <1>1, <1>2, <1>3

\* A stamp is later than the last one and not before the clock.
LEMMA StampType == ASSUME TypeOK, NEW t \in Tabs
                   PROVE  Stamp(t) \in Nat \ {0} /\ Stamp(t) > last[t] /\ Stamp(t) >= clock
  BY OutboxAssumption DEF Stamp, TypeOK

\* The steps of a flush but Start, which differ in what they do to the store.
FlushAction(b) ==
  \/ List(b) \/ Check(b) \/ DeliverOk(b) \/ DeliverFail(b) \/ Remove(b)
  \/ FailCheck(b) \/ Put(b) \/ Undo(b) \/ FlushFails(b)

\* A failed attempt ends the flush, or looks whether the entry is still stored.
LEMMA CaughtIs ==
  ASSUME TypeOK, NEW b \in Boxes, Caught(b)
  PROVE  /\ FlushTyped /\ OthersStay(b)
         /\ Ended(b) \/ (Moved(b, "failcheck") /\ Current(b).id \notin cancelled[b])
  BY DoneIs, GotoIs DEF Caught

\* What a step of a flush of b does to it: it ends, or goes on with the same entry, or
\* with what is left of its list, or it lists again.
LEMMA FlushMoves ==
  ASSUME TypeOK, NEW b \in Boxes, FlushAction(b)
  PROVE  /\ FlushTyped /\ OthersStay(b)
         /\ \/ Ended(b)
            \/ flush'[b].pc = "list" /\ flush'[b].left = {} /\ cancelled'[b] = cancelled[b]
            \/ /\ cancelled'[b] = cancelled[b]
               /\ \/ At(b, "list") /\ Onward(b, store)
                  \/ /\ At(b, "check") /\ Current(b).id \notin Ids(store)
                     /\ Onward(b, flush[b].left)
                  \/ At(b, "remove") /\ Onward(b, flush[b].left)
            \/ At(b, "check") /\ Current(b).id \in Ids(store) /\ Moved(b, "deliver")
            \/ At(b, "deliver") /\ Current(b).id \in accepted /\ Moved(b, "remove")
            \/ At(b, "deliver") /\ Moved(b, "failcheck") /\ Current(b).id \notin cancelled[b]
            \/ At(b, "remove") /\ Moved(b, "failcheck") /\ Current(b).id \notin cancelled[b]
            \/ At(b, "failcheck") /\ Moved(b, "put")
            \/ At(b, "put") /\ Moved(b, "undo") /\ Current(b).id \in cancelled[b]
  <1>0. store \in SUBSET EntryType /\ flush[b].left \in SUBSET EntryType
    BY FlushFields DEF TypeOK
  <1>1. CASE List(b)
    BY <1>0, <1>1, DoneIs, AdvanceIs DEF List
  <1>2. CASE Check(b)
    BY <1>0, <1>2, GotoIs, AdvanceIs DEF Check
  <1>3. CASE DeliverOk(b)
    BY <1>3, GotoIs DEF DeliverOk
  <1>4. CASE DeliverFail(b)
    BY <1>4, CaughtIs DEF DeliverFail
  <1>5. CASE Remove(b)
    BY <1>0, <1>5, AdvanceIs DEF Remove
  <1>6. CASE FailCheck(b)
    BY <1>6, DoneIs, GotoIs DEF FailCheck
  <1>7. CASE Put(b)
    BY <1>7, DoneIs, GotoIs DEF Put
  <1>8. CASE Undo(b)
    BY <1>8, DoneIs DEF Undo
  <1>9. CASE FlushFails(b)
    BY <1>9, DoneIs, CaughtIs DEF FlushFails
  <1> QED
    BY <1>1, <1>2, <1>3, <1>4, <1>5, <1>6, <1>7, <1>8, <1>9 DEF FlushAction

\* And what it does to the rest.
LEMMA FlushRest ==
  ASSUME NEW b \in Boxes, FlushAction(b)
  PROVE  /\ UNCHANGED <<clock, last, adding, open, accepted, queued, dropped>>
         /\ breaks' = breaks \/ Break
         /\ cut' = cut \/ cut' = cut \cup {b}
         /\ \/ attempted' = attempted
            \/ At(b, "check") /\ Current(b).id \in Ids(store)
               /\ attempted' = attempted \cup {Current(b).id}
         /\ \/ store' = store /\ held' = held /\ (At(b, "undo") => b \in cut')
            \/ At(b, "remove") /\ store' = Without(store, Current(b).id) /\ held' = held
            \/ At(b, "undo") /\ store' = Without(store, Current(b).id) /\ held' = held
            \/ /\ At(b, "put") /\ PutBack(b) /\ cut' = cut
               /\ Current(b).id \in cancelled[b] => Goto(b, "undo")
  <1>1. CASE List(b)
    BY <1>1 DEF List, At
  <1>2. CASE Check(b)
    BY <1>2 DEF Check, At
  <1>3. CASE DeliverOk(b) \/ DeliverFail(b) \/ FailCheck(b)
    BY <1>3 DEF DeliverOk, DeliverFail, FailCheck, At
  <1>4. CASE Remove(b)
    BY <1>4 DEF Remove
  <1>5. CASE Put(b)
    BY <1>5 DEF Put
  <1>6. CASE Undo(b)
    BY <1>6 DEF Undo
  <1>7. CASE FlushFails(b)
    BY <1>7 DEF FlushFails, Break
  <1> QED
    BY <1>1, <1>2, <1>3, <1>4, <1>5, <1>6, <1>7 DEF FlushAction

-----------------------------------------------------------------------------
(* Types.                                                                   *)

\* A flush between List and its end has an entry.
Working(b) == flush[b].pc \notin {"idle", "list"}

\* TypeOK, and a flush past its list has an entry.
TypeInv == TypeOK /\ \A b \in Boxes : Working(b) => Current(b) \in EntryType

\* A step of one flush that ends, lists or has an entry keeps it.
LEMMA TypeFrame ==
  ASSUME TypeInv, TypeOK', NEW b \in Boxes, \A c \in Boxes : c # b => flush'[c] = flush[c],
         flush'[b].pc \in {"idle", "list"} \/ flush'[b].entry \in EntryType
  PROVE  TypeInv'
  BY DEF TypeInv, Working, Current

\* Every step of a flush does.
LEMMA TypeFlush ==
  ASSUME TypeInv, NEW b \in Boxes, FlushAction(b) PROVE TypeInv'
  <1>0. TypeOK /\ (At(b, "put") => Current(b) \in EntryType)
    BY DEF TypeInv, Working, At
  <1>1. FlushTyped /\ OthersStay(b)
    BY <1>0, FlushMoves
  <1>2. UNCHANGED <<clock, last, adding, open, accepted, queued, dropped>>
    BY FlushRest
  <1>3. breaks' \in 0 .. MaxBreaks /\ cut' \in SUBSET Boxes
    BY <1>0, FlushRest, OutboxAssumption DEF Break, TypeOK
  <1>4. attempted' \in SUBSET Msgs
    BY <1>0, FlushRest, FlushFields DEF TypeOK
  <1>5. store' \in SUBSET EntryType /\ held' \in SUBSET dropped
    <2>1. CASE At(b, "put") /\ PutBack(b)
      BY <1>0, <2>1 DEF PutBack, Without, TypeOK
    <2> QED
      BY <1>0, <2>1, FlushRest DEF Without, TypeOK
  <1>6. TypeOK'
    BY <1>0, <1>1, <1>2, <1>3, <1>4, <1>5 DEF TypeOK, FlushTyped
  <1>7. store \subseteq EntryType /\ flush[b].left \subseteq EntryType
    BY <1>0, FlushFields DEF TypeOK
  <1>8. flush'[b].pc \in {"idle", "list"} \/ flush'[b].entry \in EntryType
    <2>1. CASE Ended(b) \/ flush'[b].pc = "list"
      BY <2>1, RestType DEF Ended
    <2>2. CASE Onward(b, store) \/ Onward(b, flush[b].left)
      BY <2>2, <1>7 DEF Onward
    <2>3. CASE flush'[b].entry = flush[b].entry /\ Working(b)
      BY <2>3 DEF TypeInv, Current
    <2> QED
      BY <1>0, <2>1, <2>2, <2>3, FlushMoves DEF Moved, Working, At
  <1> QED
    BY <1>1, <1>6, <1>8, TypeFrame DEF OthersStay

\* It holds in the beginning, ...
LEMMA TypeInit == Init => TypeInv
  <1> SUFFICES ASSUME Init PROVE TypeInv
    OBVIOUS
  <1>1. flush \in [Boxes -> FlushType] /\ \A b \in Boxes : ~Working(b)
    BY RestType DEF Init, Working
  <1>2. clock \in 1 .. MaxClock
    BY OutboxAssumption DEF Init
  <1>3. TypeOK
    BY <1>1, <1>2, OutboxAssumption DEF Init, TypeOK
  <1> QED
    BY <1>1, <1>3 DEF TypeInv

\* ... and every step keeps it.
LEMMA TypeInductive ==
  ASSUME TypeInv, [Next]_vars PROVE TypeInv'
<1>0. TypeOK /\ flush \in [Boxes -> FlushType]
  BY DEF TypeInv, TypeOK
<1>1. ASSUME NEW b \in Boxes, NEW m \in Msgs, Enqueue(b, m) PROVE TypeInv'
  <2> DEFINE t == TabOf[b]
             new == [id |-> m, at |-> Stamp(t), by |-> t]
  <2>1. t \in Tabs
    BY OutboxAssumption
  <2>2. new \in EntryType /\ Stamp(t) \in Nat
    BY <1>0, <2>1, StampType DEF EntryType
  <2>3. /\ last' = [last EXCEPT ![t] = Stamp(t)]
        /\ adding' = [adding EXCEPT ![t] = @ \cup {new}]
    BY <1>1 DEF Enqueue
  <2> HIDE DEF t, new
  <2>4. last' \in [Tabs -> Nat] /\ adding' \in [Tabs -> SUBSET EntryType]
    BY <1>0, <2>2, <2>3 DEF TypeOK
  <2>5. TypeOK' /\ flush' = flush
    BY <1>0, <1>1, <2>4 DEF Enqueue, TypeOK
  <2> QED
    BY <2>5 DEF TypeInv, Working, Current
<1>2. ASSUME NEW t \in Tabs, EnqueuePut(t) PROVE TypeInv'
  <2>1. adding[t] \in SUBSET EntryType /\ adding[t] # {}
    BY <1>0, <1>2 DEF EnqueuePut, TypeOK
  <2>2. Earliest(adding[t]) \in EntryType
    BY <2>1, EarliestIs
  <2>3. TypeOK' /\ flush' = flush
    BY <1>0, <1>2, <2>1, <2>2 DEF EnqueuePut, TypeOK
  <2> QED
    BY <2>3 DEF TypeInv, Working, Current
<1>3. ASSUME NEW b \in Boxes, NEW m \in Msgs, Cancel(b, m) PROVE TypeInv'
  <2>1. TypeOK' /\ flush' = flush
    BY <1>0, <1>3 DEF Cancel, Without, TypeOK
  <2> QED
    BY <2>1 DEF TypeInv, Working, Current
<1>4. ASSUME NEW b \in Boxes, Start(b) PROVE TypeInv'
  <2>1. TypeOK'
    BY <1>0, <1>4, GotoIs DEF Start, FlushTyped, TypeOK
  <2> QED
    BY <1>0, <1>4, <2>1, GotoIs, TypeFrame DEF Start, OthersStay, Moved
<1>5. ASSUME NEW b \in Boxes, FlushAction(b) PROVE TypeInv'
  BY <1>5, TypeFlush
<1>6. ASSUME NEW m \in Msgs, Accept(m) PROVE TypeInv'
  <2>1. TypeOK' /\ flush' = flush
    BY <1>0, <1>6 DEF Accept, TypeOK
  <2> QED
    BY <2>1 DEF TypeInv, Working, Current
<1>7. ASSUME NEW t \in Tabs, EnqueueFails(t) PROVE TypeInv'
  <2>1. TypeOK' /\ flush' = flush
    BY <1>0, <1>7, OutboxAssumption DEF EnqueueFails, Break, TypeOK
  <2> QED
    BY <2>1 DEF TypeInv, Working, Current
<1>8. ASSUME NEW b \in Boxes, Reload(b) PROVE TypeInv'
  <2>1. /\ breaks' \in 0 .. MaxBreaks /\ cut' \in SUBSET Boxes
        /\ open' \in [Boxes -> {"unused", "open", "away", "left"}]
    <3>1. breaks' \in 0 .. MaxBreaks
      BY <1>0, <1>8, OutboxAssumption DEF Reload, Break, TypeOK
    <3> QED
      BY <1>0, <1>8, <3>1 DEF Reload, TypeOK
  <2>6. last' \in [Tabs -> Nat] /\ adding' \in [Tabs -> SUBSET EntryType]
    <3> DEFINE t == TabOf[b]
    <3>1. last' = [last EXCEPT ![t] = 0] /\ adding' = [adding EXCEPT ![t] = {}]
      BY <1>8 DEF Reload
    <3> HIDE DEF t
    <3> QED
      BY <1>0, <3>1 DEF TypeOK
  <2>2. /\ flush' = [c \in Boxes |-> IF TabOf[c] = TabOf[b] THEN Rest ELSE flush[c]]
        /\ cancelled' = [c \in Boxes |-> IF TabOf[c] = TabOf[b] THEN {} ELSE cancelled[c]]
    BY <1>8 DEF Reload
  <2>3. flush' \in [Boxes -> FlushType] /\ cancelled' \in [Boxes -> SUBSET Msgs]
    BY <1>0, <2>2, RestType DEF TypeOK
  <2>4. TypeOK'
    BY <1>0, <1>8, <2>1, <2>3, <2>6 DEF Reload, TypeOK
  <2>5. \A c \in Boxes : flush'[c] = flush[c] \/ flush'[c] = Rest
    BY <2>2
  <2> QED
    BY <2>4, <2>5, RestType DEF TypeInv, Working, Current
<1>9. ASSUME NEW b \in Boxes, NEW c \in Boxes, Leave(b) \/ Return(b) \/ Remount(b, c)
      PROVE  TypeInv'
  <2>1. breaks' \in 0 .. MaxBreaks
    BY <1>0, <1>9, OutboxAssumption DEF Leave, Return, Remount, Break, TypeOK
  <2>2. open' \in [Boxes -> {"unused", "open", "away", "left"}] /\ flush' = flush
    BY <1>0, <1>9 DEF Leave, Return, Remount, TypeOK
  <2>3. TypeOK'
    BY <1>0, <1>9, <2>1, <2>2 DEF Leave, Return, Remount, TypeOK
  <2> QED
    BY <2>2, <2>3 DEF TypeInv, Working, Current
<1>10. CASE Tick
  <2>1. TypeOK' /\ flush' = flush
    BY <1>0, <1>10, OutboxAssumption DEF Tick, TypeOK
  <2> QED
    BY <2>1 DEF TypeInv, Working, Current
<1>11. CASE UNCHANGED vars
  BY <1>0, <1>11 DEF vars, TypeOK, TypeInv, Working, Current
<1> QED
  BY <1>1, <1>2, <1>3, <1>4, <1>5, <1>6, <1>7, <1>8, <1>9, <1>10, <1>11 DEF Next, Step, FlushAction

\* Every reachable state of the outbox is well typed.
THEOREM TypeCorrect == Spec => []TypeOK
<1>1. TypeInv /\ [Next]_vars => TypeInv'
  BY TypeInductive
<1>2. TypeInv => TypeOK
  BY DEF TypeInv
<1> QED
  BY TypeInit, <1>1, <1>2, PTL DEF Spec

-----------------------------------------------------------------------------
(* What a flush has before it.                                              *)

\* What the flush of b still has before it.
Todo(b) == flush[b].left \cup {e \in {Current(b)} : Working(b)}

\* Entries are queued once, and flushes have only queued ones.
Entries ==
  /\ store \subseteq queued
  /\ \A b \in Boxes : Todo(b) \subseteq queued /\ (~Working(b) => flush[b].left = {})
  /\ \A e, f \in queued : e.id = f.id => e = f
  /\ \A t \in Tabs : \A e \in adding[t] : e.by = t /\ e.id \notin Ids(queued)
  /\ \A t, u \in Tabs : \A e \in adding[t], f \in adding[u] : e.id = f.id => e = f

\* After a step of the flush of b: it has nothing left, or the same as before, or what
\* it wants of E.
Nothing(b) == Todo(b)' = {} /\ ~Working(b)' /\ flush'[b].left = {}

\* It has the same before it, ...
Same(b) == /\ Working(b) /\ Working(b)' /\ Todo(b)' = Todo(b)
           /\ flush'[b].entry = flush[b].entry /\ flush'[b].left = flush[b].left

\* ... or the entries of E that were not cancelled.
Wants(b, E) == /\ Onward(b, E) /\ cancelled'[b] = cancelled[b]
               /\ Working(b)' /\ Todo(b)' \subseteq E
               /\ \A x \in E : x.id \in cancelled[b] \/ x \in Todo(b)'

\* What a step of a flush leaves before it.
LEMMA TodoFlush ==
  ASSUME TypeInv, NEW b \in Boxes, FlushAction(b)
  PROVE  /\ \A c \in Boxes : c # b => Todo(c)' = Todo(c) /\ (Working(c)' <=> Working(c))
         /\ \/ Nothing(b)
            \/ Same(b) /\ cancelled'[b] = cancelled[b]
            \/ At(b, "list") /\ Wants(b, store)
            \/ /\ At(b, "check") /\ Current(b).id \notin Ids(store)
               /\ Wants(b, flush[b].left)
            \/ At(b, "remove") /\ Wants(b, flush[b].left)
  <1>0. TypeOK
    BY DEF TypeInv
  <1>1. \A c \in Boxes : c # b => Todo(c)' = Todo(c) /\ (Working(c)' <=> Working(c))
    BY <1>0, FlushMoves DEF OthersStay, Todo, Working, Current
  <1>2. ASSUME flush'[b].pc \in {"idle", "list"}, flush'[b].left = {} PROVE Nothing(b)
    <2>1. ~Working(b)'
      BY <1>2 DEF Working
    <2>2. {e \in {Current(b)'} : Working(b)'} = {}
      BY <2>1
    <2> QED
      BY <1>2, <2>1, <2>2 DEF Nothing, Todo
  <1>3. Ended(b) => Nothing(b)
    BY <1>2, RestType DEF Ended
  <1>4. ASSUME NEW E, Onward(b, E), cancelled'[b] = cancelled[b] PROVE Wants(b, E)
    BY <1>4 DEF Wants, Onward, Todo, Working, Current
  <1>5. ASSUME NEW pc \in {"deliver", "remove", "failcheck", "put", "undo"}, Moved(b, pc), Working(b)
        PROVE  Same(b) /\ cancelled'[b] = cancelled[b]
    BY <1>5 DEF Same, Moved, Todo, Working, Current
  <1>6. \A pc \in {"check", "deliver", "remove", "failcheck", "put", "undo"} : At(b, pc) => Working(b)
    BY DEF At, Working
  <1> QED
    BY <1>0, <1>1, <1>2, <1>3, <1>4, <1>5, <1>6, FlushMoves

\* A step that leaves every flush alone.
LEMMA TodoFrame ==
  ASSUME flush' = flush
  PROVE  \A b \in Boxes : /\ Todo(b)' = Todo(b) /\ (Working(b)' <=> Working(b))
                          /\ Current(b)' = Current(b) /\ \A pc : At(b, pc)' <=> At(b, pc)
  BY DEF Todo, Working, Current, At

\* A step of a flush queues nothing.
LEMMA EntriesFlush ==
  ASSUME TypeInv, Entries, NEW b \in Boxes, FlushAction(b) PROVE Entries'
  <1>1. UNCHANGED <<adding, queued>>
    BY FlushRest
  <1>2. \A c \in Boxes : Todo(c)' \subseteq queued /\ (~Working(c)' => flush'[c].left = {})
    <2>1. \A c \in Boxes : c # b => Todo(c)' = Todo(c) /\ (Working(c)' <=> Working(c))
                                   /\ flush'[c] = flush[c]
      BY TodoFlush, FlushMoves DEF TypeInv, OthersStay
    <2>2. Todo(b)' \subseteq queued /\ (~Working(b)' => flush'[b].left = {})
      BY TodoFlush DEF Entries, Nothing, Same, Wants, Todo
    <2> QED
      BY <2>1, <2>2 DEF Entries
  <1>3. store' \subseteq queued
    <2>1. At(b, "put") => Current(b) \in queued
      BY DEF Entries, Todo, Working, At
    <2> QED
      BY <2>1, FlushRest DEF Entries, Without, PutBack
  <1>4. Ids(queued)' = Ids(queued)
    BY <1>1 DEF Ids
  <1> QED
    BY <1>1, <1>2, <1>3, <1>4 DEF Entries

\* Every step keeps Entries.
LEMMA EntriesInductive ==
  ASSUME TypeInv, Entries, [Next]_vars PROVE Entries'
<1>0. TypeOK /\ adding \in [Tabs -> SUBSET EntryType] /\ flush \in [Boxes -> FlushType]
  BY DEF TypeInv, TypeOK
<1>1. ASSUME NEW b \in Boxes, NEW m \in Msgs, Enqueue(b, m) PROVE Entries'
  <2> DEFINE t == TabOf[b]
             new == [id |-> m, at |-> Stamp(t), by |-> t]
  <2>0. t \in Tabs
    BY OutboxAssumption
  <2>1. /\ adding' = [adding EXCEPT ![t] = @ \cup {new}]
        /\ m \notin Ids(queued) /\ \A u \in Tabs : m \notin Ids(adding[u])
        /\ UNCHANGED <<store, flush, queued>>
    BY <1>1 DEF Enqueue
  <2>2. new.id = m /\ new.by = t
    OBVIOUS
  <2> HIDE DEF t, new
  <2>3. \A u \in Tabs : \A e \in adding'[u] : e \in adding[u] \/ (u = t /\ e = new)
    BY <1>0, <2>1
  <2>4. \A u \in Tabs : \A e \in adding[u] : e.id # m
    BY <2>1 DEF Ids
  <2>5. \A u, v \in Tabs : \A e \in adding'[u], f \in adding'[v] : e.id = f.id => e = f
    BY <2>2, <2>3, <2>4 DEF Entries
  <2>6. \A u \in Tabs : \A e \in adding'[u] : e.by = u /\ e.id \notin Ids(queued)
    BY <2>1, <2>2, <2>3 DEF Entries
  <2> QED
    BY <2>1, <2>5, <2>6, TodoFrame DEF Entries, Ids
<1>2. ASSUME NEW t \in Tabs, EnqueuePut(t) PROVE Entries'
  <2> DEFINE e0 == Earliest(adding[t])
  <2>1. e0 \in adding[t]
    BY <1>0, <1>2, EarliestIs DEF EnqueuePut
  <2>2. /\ store' = store \cup {e0} /\ queued' = queued \cup {e0}
        /\ adding' = [adding EXCEPT ![t] = @ \ {e0}] /\ UNCHANGED flush
    BY <1>2 DEF EnqueuePut
  <2> HIDE DEF e0
  <2>3. \A u \in Tabs : \A e \in adding'[u] : e \in adding[u] /\ e # e0
    <3> SUFFICES ASSUME NEW u \in Tabs, NEW e \in adding'[u] PROVE e \in adding[u] /\ e # e0
      OBVIOUS
    <3>1. CASE u = t
      BY <1>0, <2>2, <3>1
    <3>2. CASE u # t
      BY <1>0, <2>1, <2>2, <3>2 DEF Entries
    <3> QED
      BY <3>1, <3>2
  <2>4. \A u \in Tabs : \A e \in adding'[u] : e.by = u /\ e.id \notin Ids(queued)'
    BY <2>1, <2>2, <2>3 DEF Entries, Ids
  <2>5. \A e, f \in queued' : e.id = f.id => e = f
    BY <2>1, <2>2 DEF Entries, Ids
  <2>6. \A c \in Boxes : Todo(c)' \subseteq queued' /\ (~Working(c)' => flush'[c].left = {})
    BY <2>2, TodoFrame DEF Entries
  <2>7. \A u, v \in Tabs : \A e \in adding'[u], f \in adding'[v] : e.id = f.id => e = f
    BY <2>3 DEF Entries
  <2> QED
    BY <2>2, <2>4, <2>5, <2>6, <2>7 DEF Entries
<1>3. ASSUME NEW b \in Boxes, NEW m \in Msgs, Cancel(b, m) PROVE Entries'
  <2>1. store' \subseteq store /\ UNCHANGED <<flush, queued, adding>>
    BY <1>3 DEF Cancel, Without
  <2> QED
    BY <2>1, TodoFrame DEF Entries, Ids
<1>4. ASSUME NEW b \in Boxes, Start(b) PROVE Entries'
  <2>1. /\ UNCHANGED <<store, queued, adding>> /\ Moved(b, "list") /\ OthersStay(b) /\ At(b, "idle")
    BY <1>0, <1>4, GotoIs DEF Start
  <2>2. \A c \in Boxes : Todo(c)' \subseteq Todo(c) /\ flush'[c].left = flush[c].left
                        /\ (Working(c)' <=> Working(c))
    BY <2>1 DEF Moved, OthersStay, Todo, Working, Current, At
  <2> QED
    BY <2>1, <2>2 DEF Entries, Ids
<1>5. ASSUME NEW b \in Boxes, FlushAction(b) PROVE Entries'
  BY <1>5, EntriesFlush
<1>6. CASE UNCHANGED <<store, flush, queued, adding>>
  BY <1>6, TodoFrame DEF Entries, Ids
<1>7. ASSUME NEW t \in Tabs, EnqueueFails(t) PROVE Entries'
  <2>1. UNCHANGED <<store, flush, queued>> /\ \A u \in Tabs : adding'[u] \subseteq adding[u]
    BY <1>0, <1>7 DEF EnqueueFails
  <2> QED
    BY <2>1, TodoFrame DEF Entries, Ids
<1>8. ASSUME NEW b \in Boxes, Reload(b) PROVE Entries'
  <2>1. UNCHANGED <<store, queued>> /\ \A u \in Tabs : adding'[u] \subseteq adding[u]
    BY <1>0, <1>8 DEF Reload
  <2>2. \A c \in Boxes : flush'[c] = flush[c] \/ flush'[c] = Rest
    BY <1>8 DEF Reload
  <2>3. \A c \in Boxes : Todo(c)' \subseteq Todo(c) /\ (~Working(c)' => flush'[c].left = {})
    BY <2>2, RestType DEF Todo, Working, Current, Entries
  <2> QED
    BY <2>1, <2>3 DEF Entries, Ids
<1>9. CASE (\E m \in Msgs : Accept(m)) \/ (\E b \in Boxes : Leave(b) \/ Return(b))
           \/ (\E b, c \in Boxes : Remount(b, c)) \/ Tick \/ UNCHANGED vars
  BY <1>6, <1>9 DEF Accept, Leave, Return, Remount, Tick, vars
<1> QED
  BY <1>1, <1>2, <1>3, <1>4, <1>5, <1>7, <1>8, <1>9 DEF Next, Step, FlushAction

-----------------------------------------------------------------------------
(* Nothing is lost.                                                         *)

\* There is no need to keep m any more.
Settled(m) == m \in accepted \/ Cancelled(m)

\* NothingLost with what makes it inductive.
Kept ==
  /\ \A e \in queued : e \in store \/ Settled(e.id)
  /\ \A b \in Boxes : /\ At(b, "remove") => Current(b).id \in accepted
                      /\ At(b, "undo") => Cancelled(Current(b).id)
                      /\ \A m \in cancelled[b] : <<b, m>> \in dropped
  /\ \A b \in Boxes, m \in Msgs : <<b, m>> \in dropped => m \in Ids(queued)

\* A step of a flush loses nothing, ...
LEMMA KeptFlush ==
  ASSUME TypeInv, Entries, Kept, NEW b \in Boxes, FlushAction(b) PROVE Kept'
  <1>0. TypeOK
    BY DEF TypeInv
  <1>1. UNCHANGED <<accepted, queued, dropped>>
    BY FlushRest
  <1>2. OthersStay(b) /\ cancelled'[b] \subseteq cancelled[b]
    BY <1>0, FlushMoves DEF Ended, Moved
  <1>3. \A e \in queued : e \in store' \/ Settled(e.id)
    <2> SUFFICES ASSUME NEW e \in queued, ~Settled(e.id) PROVE e \in store'
      OBVIOUS
    <2>1. e \in store
      BY DEF Kept
    <2>2. CASE At(b, "put") /\ PutBack(b)
      <3>1. Current(b) \in queued
        BY <2>2 DEF Entries, Todo, Working, At
      <3> QED
        BY <2>1, <2>2, <3>1 DEF PutBack, Without, Entries
    <2> QED
      BY <2>1, <2>2, FlushRest DEF Kept, Without, Settled
  <1>4. At(b, "remove")' => (Current(b).id)' \in accepted
    BY <1>0, RestType, FlushMoves DEF At, Ended, Moved, Onward, Current
  <1>5. At(b, "undo")' => Cancelled((Current(b).id)')
    <2> SUFFICES ASSUME At(b, "undo")' PROVE Cancelled((Current(b).id)')
      OBVIOUS
    <2>1. (Current(b).id)' = Current(b).id /\ Current(b).id \in cancelled[b]
      BY <1>0, RestType, FlushMoves DEF At, Ended, Moved, Onward, Current
    <2> QED
      BY <2>1 DEF Kept, Cancelled
  <1>6. \A c \in Boxes : c # b => /\ At(c, "remove")' => (Current(c).id)' \in accepted
                                  /\ At(c, "undo")' => Cancelled((Current(c).id)')
                                  /\ cancelled'[c] = cancelled[c]
    BY <1>2 DEF OthersStay, At, Current, Kept
  <1>7. \A m : Settled(m)' <=> Settled(m)
    BY <1>1 DEF Settled, Cancelled
  <1>8. \A m : Cancelled(m)' <=> Cancelled(m)
    BY <1>1 DEF Cancelled
  <1> QED
    BY <1>1, <1>2, <1>3, <1>4, <1>5, <1>6, <1>7, <1>8 DEF Kept, Ids

\* A step that leaves the flushes and the store alone, or adds to what is settled.
LEMMA KeptFrame ==
  ASSUME Kept, flush' = flush, queued' = queued,
         accepted \subseteq accepted', dropped \subseteq dropped',
         \A e \in store : e \in store' \/ Settled(e.id)',
         \A b \in Boxes : \A m \in cancelled'[b] : m \in cancelled[b] \/ <<b, m>> \in dropped',
         \A b \in Boxes, m \in Msgs : <<b, m>> \in dropped' => <<b, m>> \in dropped \/ m \in Ids(queued)
  PROVE  Kept'
  <1>1. \A m : (Settled(m) => Settled(m)') /\ (Cancelled(m) => Cancelled(m)')
    BY DEF Settled, Cancelled
  <1>2. \A b \in Boxes : /\ At(b, "remove")' => (Current(b).id)' \in accepted'
                         /\ At(b, "undo")' => Cancelled((Current(b).id))'
    BY <1>1, TodoFrame DEF Kept
  <1> QED
    BY <1>1, <1>2 DEF Kept, Ids

\* ... and no other step does, ...
LEMMA KeptInductive ==
  ASSUME TypeInv, Entries, Kept, [Next]_vars PROVE Kept'
<1>0. /\ TypeOK /\ adding \in [Tabs -> SUBSET EntryType] /\ flush \in [Boxes -> FlushType]
      /\ cancelled \in [Boxes -> SUBSET Msgs]
  BY DEF TypeInv, TypeOK
<1>1. ASSUME NEW b \in Boxes, NEW m \in Msgs, Enqueue(b, m) PROVE Kept'
  <2>1. /\ UNCHANGED <<store, flush, queued, accepted, dropped>>
        /\ \A c \in Boxes : cancelled'[c] \subseteq cancelled[c]
    BY <1>0, <1>1 DEF Enqueue
  <2> QED
    BY <2>1, KeptFrame
<1>2. ASSUME NEW t \in Tabs, EnqueuePut(t) PROVE Kept'
  <2>1. /\ UNCHANGED <<flush, cancelled, accepted, dropped>>
        /\ \E e : store' = store \cup {e} /\ queued' = queued \cup {e}
    BY <1>2 DEF EnqueuePut
  <2>2. \A m : (Settled(m)' <=> Settled(m)) /\ (Cancelled(m)' <=> Cancelled(m))
    BY <2>1 DEF Settled, Cancelled
  <2>3. Ids(queued) \subseteq Ids(queued)'
    BY <2>1 DEF Ids
  <2>4. \A e \in queued' : e \in store' \/ Settled(e.id)'
    BY <2>1, <2>2 DEF Kept
  <2>5. \A c \in Boxes : /\ At(c, "remove")' => (Current(c).id)' \in accepted'
                         /\ At(c, "undo")' => Cancelled(Current(c).id)'
                         /\ \A m \in cancelled'[c] : <<c, m>> \in dropped'
    BY <2>1, <2>2, TodoFrame DEF Kept
  <2> QED
    BY <2>1, <2>3, <2>4, <2>5 DEF Kept
<1>3. ASSUME NEW b \in Boxes, NEW m \in Msgs, Cancel(b, m) PROVE Kept'
  <2>1. /\ UNCHANGED <<flush, queued, accepted>>
        /\ store' = Without(store, m) /\ dropped' = dropped \cup {<<b, m>>} /\ m \in Ids(queued)
        /\ \A c \in Boxes : \A x \in cancelled'[c] : x \in cancelled[c] \/ (c = b /\ x = m)
    BY <1>0, <1>3 DEF Cancel
  <2>2. Settled(m)'
    BY <2>1 DEF Settled, Cancelled
  <2>3. \A e \in store : e \in store' \/ Settled(e.id)'
    BY <2>1, <2>2 DEF Without
  <2> QED
    BY <2>1, <2>3, KeptFrame
<1>4. ASSUME NEW b \in Boxes, Start(b) PROVE Kept'
  <2>1. /\ UNCHANGED <<store, queued, accepted, dropped>>
        /\ Moved(b, "list") /\ OthersStay(b)
    BY <1>0, <1>4, GotoIs DEF Start
  <2>2. \A c \in Boxes : /\ At(c, "remove")' => At(c, "remove") /\ Current(c)' = Current(c)
                         /\ At(c, "undo")' => At(c, "undo") /\ Current(c)' = Current(c)
                         /\ cancelled'[c] = cancelled[c]
    BY <2>1 DEF Moved, OthersStay, Current, At
  <2>3. \A m : (Settled(m)' <=> Settled(m)) /\ (Cancelled(m)' <=> Cancelled(m))
    BY <2>1 DEF Settled, Cancelled
  <2> QED
    BY <2>1, <2>2, <2>3 DEF Kept, Ids
<1>5. ASSUME NEW b \in Boxes, FlushAction(b) PROVE Kept'
  BY <1>5, KeptFlush
<1>6. ASSUME NEW b \in Boxes, Reload(b) PROVE Kept'
  <2>1. UNCHANGED <<store, queued, accepted, dropped>>
    BY <1>6 DEF Reload
  <2>2. \A c \in Boxes : \/ flush'[c] = flush[c] /\ cancelled'[c] = cancelled[c]
                         \/ flush'[c] = Rest /\ cancelled'[c] = {}
    BY <1>6 DEF Reload
  <2>3. \A c \in Boxes : /\ At(c, "remove")' => At(c, "remove") /\ Current(c)' = Current(c)
                         /\ At(c, "undo")' => At(c, "undo") /\ Current(c)' = Current(c)
                         /\ cancelled'[c] \subseteq cancelled[c]
    BY <2>2, RestType DEF Current, At
  <2>4. \A m : (Settled(m)' <=> Settled(m)) /\ (Cancelled(m)' <=> Cancelled(m))
    BY <2>1 DEF Settled, Cancelled
  <2> QED
    BY <2>1, <2>3, <2>4 DEF Kept, Ids
<1>7. CASE UNCHANGED <<store, flush, queued, dropped, cancelled>> /\ accepted \subseteq accepted'
  BY <1>7, KeptFrame
<1>8. CASE (\E m \in Msgs : Accept(m)) \/ Tick \/ UNCHANGED vars
           \/ (\E b \in Boxes : Leave(b) \/ Return(b)) \/ (\E t \in Tabs : EnqueueFails(t))
           \/ (\E b, c \in Boxes : Remount(b, c))
  BY <1>7, <1>8 DEF Accept, Leave, Return, Remount, EnqueueFails, Tick, vars
<1> QED
  BY <1>1, <1>2, <1>3, <1>4, <1>5, <1>6, <1>8 DEF Next, Step, FlushAction

\* ... so nothing is lost in any reachable state.
LEMMA KeptAlways == Spec => [](TypeInv /\ Entries /\ Kept)
<1>1. Init => TypeInv /\ Entries /\ Kept
  <2> SUFFICES ASSUME Init PROVE TypeInv /\ Entries /\ Kept
    OBVIOUS
  <2>1. \A b \in Boxes : ~Working(b) /\ flush[b].left = {} /\ Todo(b) = {} /\ flush[b].pc = "idle"
    <3>1. \A b \in Boxes : ~Working(b) /\ flush[b].left = {} /\ flush[b].pc = "idle"
      BY RestType DEF Init, Working
    <3> QED
      BY <3>1 DEF Todo
  <2>2. Entries
    BY <2>1 DEF Init, Entries, Ids
  <2>3. Kept
    BY <2>1 DEF Init, Kept, At
  <2> QED
    BY <2>2, <2>3, TypeInit
<1>2. TypeInv /\ Entries /\ Kept /\ [Next]_vars => (TypeInv /\ Entries /\ Kept)'
  BY TypeInductive, EntriesInductive, KeptInductive
<1> QED
  BY <1>1, <1>2, PTL DEF Spec

\* A message leaves the outbox only when it was accepted or cancelled: for any number
\* of tabs and boxes, whichever attempts failed and however flushes were interrupted.
THEOREM NothingIsLost == Spec => []NothingLost
<1>1. Kept => NothingLost
  BY DEF Kept, NothingLost, Settled, Ids
<1> QED
  BY <1>1, KeptAlways, PTL

-----------------------------------------------------------------------------
(* The order of one tab's messages.                                         *)

\* Stamps of a tab rise: what is on its way to the table is later than what is there.
Stamps ==
  /\ \A t \in Tabs : \A e, f \in adding[t] : e.at = f.at => e = f
  /\ \A t \in Tabs : \A e \in adding[t] : e.at <= last[t]
  /\ \A e \in queued : e.at <= last[e.by] \/ e.at < clock
  /\ \A e \in queued : \A f \in adding[e.by] : e.at < f.at

\* Every step keeps the stamps of a tab rising.
LEMMA StampsInductive ==
  ASSUME TypeInv, Entries, Stamps, [Next]_vars PROVE Stamps'
<1>0. /\ TypeOK /\ adding \in [Tabs -> SUBSET EntryType] /\ last \in [Tabs -> Nat] /\ clock \in Nat
      /\ \A e \in queued : e.at \in Nat /\ e.by \in Tabs
      /\ \A t \in Tabs : \A e \in adding[t] : e.at \in Nat /\ e.by \in Tabs
  BY DEF TypeInv, TypeOK, EntryType
<1>1. ASSUME NEW b \in Boxes, NEW m \in Msgs, Enqueue(b, m) PROVE Stamps'
  <2> DEFINE t == TabOf[b]
             new == [id |-> m, at |-> Stamp(t), by |-> t]
  <2>0. t \in Tabs
    BY OutboxAssumption
  <2>1. /\ adding' = [adding EXCEPT ![t] = @ \cup {new}]
        /\ last' = [last EXCEPT ![t] = Stamp(t)]
        /\ UNCHANGED <<clock, queued>>
    BY <1>1 DEF Enqueue
  <2>2. new.at = Stamp(t) /\ new.by = t
    OBVIOUS
  <2> HIDE DEF t, new
  <2>3. Stamp(t) \in Nat /\ Stamp(t) > last[t] /\ Stamp(t) >= clock
    BY <1>0, <2>0, StampType
  <2>4. \A u \in Tabs : \A e \in adding'[u] : e \in adding[u] \/ (u = t /\ e = new)
    BY <1>0, <2>0, <2>1
  <2>5. last'[t] = Stamp(t) /\ \A u \in Tabs : u # t => last'[u] = last[u]
    BY <1>0, <2>0, <2>1
  <2>6. \A u \in Tabs : \A e, f \in adding'[u] : e.at = f.at => e = f
    BY <1>0, <2>0, <2>2, <2>3, <2>4 DEF Stamps
  <2>7. \A u \in Tabs : \A e \in adding'[u] : e.at <= last'[u]
    BY <1>0, <2>0, <2>2, <2>3, <2>4, <2>5 DEF Stamps
  <2>8. \A e \in queued : e.at <= last'[e.by] \/ e.at < clock
    BY <1>0, <2>0, <2>3, <2>5 DEF Stamps
  <2>9. \A e \in queued : \A f \in adding'[e.by] : e.at < f.at
    BY <1>0, <2>0, <2>2, <2>3, <2>4 DEF Stamps
  <2> QED
    BY <2>1, <2>6, <2>7, <2>8, <2>9 DEF Stamps
<1>2. ASSUME NEW t \in Tabs, EnqueuePut(t) PROVE Stamps'
  <2> DEFINE e0 == Earliest(adding[t])
  <2>1. e0 \in adding[t] /\ \A x \in adding[t] : e0.at <= x.at
    BY <1>0, <1>2, EarliestIs DEF EnqueuePut
  <2>2. /\ queued' = queued \cup {e0} /\ UNCHANGED <<clock, last>>
        /\ adding' = [adding EXCEPT ![t] = @ \ {e0}]
    BY <1>2 DEF EnqueuePut
  <2> HIDE DEF e0
  <2>3. e0.by = t /\ e0.at \in Nat /\ e0.at <= last[t]
    BY <1>0, <2>1 DEF Entries, Stamps
  <2>4. \A u \in Tabs : \A e \in adding'[u] : e \in adding[u] /\ (u = t => e # e0)
    BY <1>0, <2>2
  <2>5. \A f \in adding'[t] : e0.at < f.at
    BY <1>0, <2>1, <2>3, <2>4 DEF Stamps
  <2>6. \A e \in queued' : \A f \in adding'[e.by] : e.at < f.at
    BY <1>0, <2>2, <2>3, <2>4, <2>5 DEF Stamps
  <2>7. \A e \in queued' : e.at <= last[e.by] \/ e.at < clock
    BY <2>2, <2>3 DEF Stamps
  <2> QED
    BY <2>2, <2>4, <2>6, <2>7 DEF Stamps
<1>3. CASE UNCHANGED <<adding, last, queued>> /\ (clock' = clock \/ clock' = clock + 1)
  BY <1>0, <1>3 DEF Stamps
<1>4. ASSUME NEW t \in Tabs, EnqueueFails(t) PROVE Stamps'
  <2>1. UNCHANGED <<clock, last, queued>> /\ \A u \in Tabs : adding'[u] \subseteq adding[u]
    BY <1>0, <1>4 DEF EnqueueFails
  <2> QED
    BY <1>0, <2>1 DEF Stamps
<1>5. ASSUME NEW b \in Boxes, Reload(b) PROVE Stamps'
  <2> DEFINE t == TabOf[b]
  <2>0. t \in Tabs
    BY OutboxAssumption
  <2>1. /\ UNCHANGED <<clock, queued>> /\ last[t] < clock
        /\ last' = [last EXCEPT ![t] = 0] /\ adding' = [adding EXCEPT ![t] = {}]
    BY <1>5 DEF Reload
  <2> HIDE DEF t
  <2>2. /\ last'[t] = 0 /\ \A u \in Tabs : u # t => last'[u] = last[u]
        /\ adding'[t] = {} /\ \A u \in Tabs : u # t => adding'[u] = adding[u]
    BY <1>0, <2>0, <2>1
  <2>3. \A e \in queued : e.at <= last'[e.by] \/ e.at < clock
    BY <1>0, <2>1, <2>2 DEF Stamps
  <2> QED
    BY <1>0, <2>1, <2>2, <2>3 DEF Stamps
<1>6. ASSUME NEW b \in Boxes, FlushAction(b) PROVE Stamps'
  BY <1>3, <1>6, FlushRest
<1>7. ASSUME NEW b \in Boxes, NEW c \in Boxes,
             Start(b) \/ Leave(b) \/ Return(b) \/ Remount(b, c) \/ \E m \in Msgs : Cancel(b, m)
      PROVE  Stamps'
  BY <1>3, <1>7 DEF Start, Leave, Return, Remount, Cancel
<1>8. CASE (\E m \in Msgs : Accept(m)) \/ Tick \/ UNCHANGED vars
  BY <1>3, <1>8 DEF Accept, Tick, vars
<1> QED
  BY <1>1, <1>2, <1>4, <1>5, <1>6, <1>7, <1>8 DEF Next, Step, FlushAction

\* What is ahead of an entry a flush has before it, that flush has before it too, or it
\* is settled; and the flush has its entries in order.
Ordered ==
  /\ \A b \in Boxes : \A f \in Todo(b) : \A e \in queued :
       e.by = f.by /\ e.at < f.at => e \in Todo(b) \/ Settled(e.id)
  /\ \A b \in Boxes : Working(b) => \A x \in flush[b].left : Current(b).at <= x.at
  /\ \A e, f \in queued : e.by = f.by /\ e.at < f.at /\ f.id \in attempted => Settled(e.id)
  /\ attempted \subseteq Ids(queued)

\* A step of a flush keeps the order, ...
LEMMA OrderedFlush ==
  ASSUME TypeInv, Entries, Kept, Ordered, NEW b \in Boxes, FlushAction(b) PROVE Ordered'
  <1>1. UNCHANGED <<accepted, queued, dropped>>
    BY FlushRest
  <1>2. \A m : Settled(m)' <=> Settled(m)
    BY <1>1 DEF Settled, Cancelled
  <1>3. \A m \in cancelled[b] : Settled(m)
    BY DEF Kept, Settled, Cancelled
  <1>4. \A e \in queued : e.at \in Nat
    BY DEF TypeInv, TypeOK, EntryType
  <1>5. Working(b) => Todo(b) = flush[b].left \cup {Current(b)} /\ Current(b) \in queued
    BY DEF Todo, Entries
  <1>6. \A f \in Todo(b)' : \A e \in queued :
          e.by = f.by /\ e.at < f.at => e \in Todo(b)' \/ Settled(e.id)
    <2>1. CASE Nothing(b) \/ Same(b)
      BY <2>1 DEF Nothing, Same, Ordered
    <2>2. CASE Wants(b, store)
      BY <1>3, <2>2 DEF Wants, Kept
    <2>3. CASE Wants(b, flush[b].left) /\ Working(b) /\ Settled(Current(b).id)
      <3> SUFFICES ASSUME NEW f \in Todo(b)', NEW e \in queued, e.by = f.by, e.at < f.at
                   PROVE  e \in Todo(b)' \/ Settled(e.id)
        OBVIOUS
      <3>1. f \in Todo(b)
        BY <2>3, <1>5 DEF Wants
      <3>2. e \in Todo(b) \/ Settled(e.id)
        BY <3>1 DEF Ordered
      <3>3. CASE e \in flush[b].left
        BY <1>3, <2>3, <3>3 DEF Wants
      <3> QED
        BY <1>5, <2>3, <3>2, <3>3
    <2>4. At(b, "check") /\ Current(b).id \notin Ids(store) => Working(b) /\ Settled(Current(b).id)
      BY <1>5 DEF At, Working, Kept, Ids
    <2>5. At(b, "remove") => Working(b) /\ Settled(Current(b).id)
      BY DEF At, Working, Kept, Settled
    <2> QED
      BY <2>1, <2>2, <2>3, <2>4, <2>5, TodoFlush
  <1>7. Working(b)' => \A x \in flush'[b].left : flush'[b].entry.at <= x.at
    BY TodoFlush DEF Nothing, Same, Wants, Onward, Ordered, Current
  <1>8. \A c \in Boxes : c # b => Todo(c)' = Todo(c) /\ (Working(c)' <=> Working(c))
                                 /\ flush'[c] = flush[c]
    BY TodoFlush, FlushMoves DEF TypeInv, OthersStay
  <1>9. ASSUME NEW e \in queued, NEW f \in queued, e.by = f.by, e.at < f.at, f.id \in attempted'
        PROVE  Settled(e.id)
    <2>1. CASE f.id \in attempted
      BY <1>9, <2>1 DEF Ordered
    <2>2. CASE At(b, "check") /\ f.id = Current(b).id
      <3>1. Working(b)
        BY <2>2 DEF At, Working
      <3>2. f = Current(b)
        BY <1>5, <2>2, <3>1 DEF Entries
      <3>3. e \in Todo(b) \/ Settled(e.id)
        BY <1>5, <1>9, <3>1, <3>2 DEF Ordered
      <3>4. e \notin flush[b].left
        BY <1>4, <1>9, <3>1, <3>2 DEF Ordered
      <3>5. e # Current(b)
        BY <1>4, <1>9, <3>2
      <3> QED
        BY <1>5, <3>1, <3>3, <3>4, <3>5
    <2> QED
      BY <1>9, <2>1, <2>2, FlushRest
  <1>10. attempted' \subseteq Ids(queued)
    <2>1. Ids(store) \subseteq Ids(queued)
      BY DEF Ids, Entries
    <2> QED
      BY <2>1, FlushRest DEF Ordered
  <1>11. \A c \in Boxes : \A f \in Todo(c)' : \A e \in queued :
           e.by = f.by /\ e.at < f.at => e \in Todo(c)' \/ Settled(e.id)
    BY <1>6, <1>8 DEF Ordered
  <1>12. \A c \in Boxes : Working(c)' => \A x \in flush'[c].left : flush'[c].entry.at <= x.at
    BY <1>7, <1>8 DEF Ordered, Current
  <1> QED
    BY <1>1, <1>2, <1>9, <1>10, <1>11, <1>12 DEF Ordered, Current, Ids

\* A step that keeps every flush at its place, and what is settled.
LEMMA OrderedFrame ==
  ASSUME Ordered, attempted' = attempted, queued' = queued,
         accepted \subseteq accepted', dropped \subseteq dropped',
         \A b \in Boxes : \/ Todo(b)' = Todo(b) /\ flush'[b].left = flush[b].left
                             /\ (Working(b)' => Working(b)) /\ Current(b)' = Current(b)
                          \/ Todo(b)' = {} /\ ~Working(b)'
  PROVE  Ordered'
  <1>1. \A m : Settled(m) => Settled(m)'
    BY DEF Settled, Cancelled
  <1> QED
    BY <1>1 DEF Ordered, Ids

\* ... and so does every other.
LEMMA OrderedInductive ==
  ASSUME TypeInv, Entries, Kept, Stamps, Ordered, [Next]_vars PROVE Ordered'
<1>0. /\ TypeOK /\ adding \in [Tabs -> SUBSET EntryType] /\ flush \in [Boxes -> FlushType]
      /\ \A e \in queued : e.at \in Nat
      /\ \A t \in Tabs : \A e \in adding[t] : e.at \in Nat
  BY DEF TypeInv, TypeOK, EntryType
<1>1. CASE /\ UNCHANGED <<flush, attempted, queued>>
           /\ accepted \subseteq accepted' /\ dropped \subseteq dropped'
  BY <1>1, TodoFrame, OrderedFrame
<1>2. ASSUME NEW t \in Tabs, EnqueuePut(t) PROVE Ordered'
  <2> DEFINE e0 == Earliest(adding[t])
  <2>1. e0 \in adding[t]
    BY <1>0, <1>2, EarliestIs DEF EnqueuePut
  <2>2. queued' = queued \cup {e0} /\ UNCHANGED <<flush, attempted, accepted, dropped>>
    BY <1>2 DEF EnqueuePut
  <2> HIDE DEF e0
  <2>0. e0.at \in Nat
    BY <1>0, <2>1
  <2>3. e0.by = t /\ e0.id \notin Ids(queued) /\ e0.at \in Nat
    BY <2>0, <2>1 DEF Entries
  <2>4. \A f \in queued : f.by = t => f.at < e0.at /\ ~(e0.at < f.at)
    BY <1>0, <2>1, <2>3 DEF Stamps
  <2>5. \A m : Settled(m)' <=> Settled(m)
    BY <2>2 DEF Settled, Cancelled
  <2>6. \A c \in Boxes : Todo(c)' = Todo(c) /\ Todo(c) \subseteq queued
    BY <2>2, TodoFrame DEF Entries
  <2>7. \A c \in Boxes : \A f \in Todo(c)' : \A e \in queued' :
          e.by = f.by /\ e.at < f.at => e \in Todo(c)' \/ Settled(e.id)
    BY <2>2, <2>3, <2>4, <2>6 DEF Ordered
  <2>8. \A e, f \in queued' : e.by = f.by /\ e.at < f.at /\ f.id \in attempted => Settled(e.id)
    <3> SUFFICES ASSUME NEW e \in queued', NEW f \in queued', e.by = f.by, e.at < f.at,
                        f.id \in attempted
                 PROVE  Settled(e.id)
      OBVIOUS
    <3>1. f \in queued
      BY <2>2, <2>3 DEF Ordered
    <3>2. e \in queued
      BY <2>2, <2>3, <2>4, <3>1
    <3> QED
      BY <3>1, <3>2 DEF Ordered
  <2>9. attempted' \subseteq Ids(queued)'
    BY <2>2 DEF Ordered, Ids
  <2>10. \A c \in Boxes : Working(c)' => \A x \in flush'[c].left : (Current(c).at)' <= x.at
    BY <2>2, TodoFrame DEF Ordered
  <2> QED
    BY <2>2, <2>5, <2>7, <2>8, <2>9, <2>10 DEF Ordered
<1>3. ASSUME NEW b \in Boxes, Start(b) PROVE Ordered'
  <2>1. /\ UNCHANGED <<attempted, queued, accepted, dropped>>
        /\ Moved(b, "list") /\ OthersStay(b) /\ At(b, "idle")
    BY <1>0, <1>3, GotoIs DEF Start
  <2>2. \A c \in Boxes : Todo(c)' = Todo(c) /\ flush'[c].left = flush[c].left
                        /\ (Working(c)' => Working(c)) /\ Current(c)' = Current(c)
    BY <2>1 DEF Moved, OthersStay, Todo, Working, Current, At
  <2> QED
    BY <2>1, <2>2, OrderedFrame
<1>4. ASSUME NEW b \in Boxes, FlushAction(b) PROVE Ordered'
  BY <1>4, OrderedFlush
<1>5. ASSUME NEW b \in Boxes, Reload(b) PROVE Ordered'
  <2>1. UNCHANGED <<attempted, queued, accepted, dropped>>
    BY <1>5 DEF Reload
  <2>2. \A c \in Boxes : flush'[c] = flush[c] \/ flush'[c] = Rest
    BY <1>5 DEF Reload
  <2>3. ASSUME NEW c \in Boxes, flush'[c] = Rest PROVE Todo(c)' = {} /\ ~Working(c)'
    <3>1. ~Working(c)' /\ flush'[c].left = {}
      BY <2>3, RestType DEF Working
    <3> QED
      BY <3>1 DEF Todo
  <2>4. ASSUME NEW c \in Boxes, flush'[c] = flush[c]
        PROVE  Todo(c)' = Todo(c) /\ (Working(c)' => Working(c)) /\ Current(c)' = Current(c)
    BY <2>4 DEF Todo, Working, Current
  <2> QED
    BY <2>1, <2>2, <2>3, <2>4, OrderedFrame
<1>6. ASSUME NEW b \in Boxes, NEW c \in Boxes,
             Leave(b) \/ Return(b) \/ Remount(b, c)
             \/ \E m \in Msgs : Cancel(b, m) \/ Enqueue(b, m)
      PROVE  Ordered'
  BY <1>1, <1>6 DEF Leave, Return, Remount, Cancel, Enqueue
<1>7. CASE (\E t \in Tabs : EnqueueFails(t)) \/ (\E m \in Msgs : Accept(m)) \/ Tick \/ UNCHANGED vars
  BY <1>1, <1>7 DEF EnqueueFails, Accept, Tick, vars
<1> QED
  BY <1>2, <1>3, <1>4, <1>5, <1>6, <1>7 DEF Next, Step, FlushAction

\* Messages queued in one tab are tried in the order they were queued, whichever boxes
\* flush them at the same time.
THEOREM InOrder == Spec => []SentInOrder
<1>1. Init => Stamps /\ Ordered
  <2> SUFFICES ASSUME Init PROVE Stamps /\ Ordered
    OBVIOUS
  <2>1. \A b \in Boxes : ~Working(b) /\ flush[b].left = {} /\ Todo(b) = {}
    <3>1. \A b \in Boxes : ~Working(b) /\ flush[b].left = {}
      BY RestType DEF Init, Working
    <3> QED
      BY <3>1 DEF Todo
  <2> QED
    BY <2>1 DEF Init, Stamps, Ordered
<1>2. TypeInv /\ Entries /\ Kept /\ Stamps /\ Ordered /\ [Next]_vars => (Stamps /\ Ordered)'
  BY StampsInductive, OrderedInductive
<1>3. Ordered => SentInOrder
  BY DEF Ordered, SentInOrder, Settled
<1> QED
  BY <1>1, <1>2, <1>3, KeptAlways, PTL DEF Spec

-----------------------------------------------------------------------------
(* Cancellation.                                                            *)

\* While a cancellation holds, what the box's own flush still has before it is known
\* to it as cancelled.
Holding ==
  \A b \in Boxes, m \in Msgs :
    <<b, m>> \in held /\ b \notin cut =>
      /\ m \in Ids(store) => At(b, "undo") /\ Current(b).id = m
      /\ m \in Ids(Todo(b)) => m \in cancelled[b]

\* A step of a flush holds on to a cancellation, ...
LEMMA HoldingFlush ==
  ASSUME TypeInv, Entries, Holding, NEW b \in Boxes, FlushAction(b) PROVE Holding'
  <1>0. TypeOK
    BY DEF TypeInv
  <1>1. held' \subseteq held /\ cut \subseteq cut'
    BY FlushRest DEF PutBack
  <1>2. \A c \in Boxes : c # b => /\ Todo(c)' = Todo(c) /\ cancelled'[c] = cancelled[c]
                                  /\ flush'[c] = flush[c]
    BY <1>0, TodoFlush, FlushMoves DEF OthersStay
  <1>3. Working(b) => Todo(b) = flush[b].left \cup {Current(b)}
    BY DEF Todo
  <1>4. ASSUME NEW m \in Msgs, <<b, m>> \in held, b \notin cut', m \in Ids(Todo(b)')
        PROVE  m \in cancelled'[b]
    <2>1. CASE Nothing(b)
      BY <1>4, <2>1 DEF Nothing, Ids
    <2>2. CASE Same(b) /\ cancelled'[b] = cancelled[b]
      BY <1>1, <1>4, <2>2 DEF Same, Holding
    <2>3. CASE At(b, "list") /\ Wants(b, store)
      <3>1. m \in Ids(store) /\ ~At(b, "undo")
        BY <1>4, <2>3 DEF Wants, Ids, At
      <3> QED
        BY <1>1, <1>4, <3>1 DEF Holding
    <2>4. CASE Wants(b, flush[b].left)
      <3>1. m \in Ids(Todo(b)) /\ cancelled'[b] = cancelled[b]
        BY <1>4, <2>4 DEF Wants, Ids, Todo
      <3> QED
        BY <1>1, <1>4, <3>1 DEF Holding
    <2> QED
      BY <2>1, <2>2, <2>3, <2>4, TodoFlush
  <1>5. ASSUME NEW c \in Boxes, NEW m \in Msgs, <<c, m>> \in held', c \notin cut', m \in Ids(store')
        PROVE  At(c, "undo")' /\ (Current(c).id)' = m
    <2>1. <<c, m>> \in held /\ c \notin cut
      BY <1>1, <1>5
    <2>2. CASE store' = store /\ (At(b, "undo") => b \in cut')
      <3>1. At(c, "undo") /\ Current(c).id = m
        BY <1>5, <2>1, <2>2 DEF Holding
      <3>2. c # b
        BY <1>5, <2>2, <3>1
      <3> QED
        BY <1>2, <3>1, <3>2 DEF At, Current
    <2>3. CASE (At(b, "remove") \/ At(b, "undo")) /\ store' = Without(store, Current(b).id)
      <3>1. m \in Ids(store) /\ m # Current(b).id
        BY <1>5, <2>3 DEF Without, Ids
      <3>2. At(c, "undo") /\ Current(c).id = m
        BY <2>1, <3>1 DEF Holding
      <3>3. c # b
        BY <3>1, <3>2
      <3> QED
        BY <1>2, <3>2, <3>3 DEF At, Current
    <2>4. CASE At(b, "put") /\ PutBack(b) /\ (Current(b).id \in cancelled[b] => Goto(b, "undo"))
      <3>1. m \in Ids(store) \/ m = Current(b).id
        BY <1>5, <2>4 DEF PutBack, Without, Ids
      <3>2. CASE m \in Ids(store)
        <4>1. At(c, "undo") /\ Current(c).id = m
          BY <2>1, <3>2 DEF Holding
        <4>2. c # b
          BY <2>4, <4>1 DEF At
        <4> QED
          BY <1>2, <4>1, <4>2 DEF At, Current
      <3>3. CASE m \notin Ids(store) /\ m = Current(b).id
        <4> DEFINE h == <<c, m>>
        <4>1. h \in held' /\ h[1] = c /\ h[2] = m
          BY <1>5
        <4>2. c = b
          BY <2>4, <3>3, <4>1 DEF PutBack
        <4>3. m \in Ids(Todo(b))
          BY <1>3, <2>4, <3>3 DEF Working, At, Ids
        <4>4. Goto(b, "undo")
          BY <2>1, <2>4, <3>3, <4>2, <4>3 DEF Holding
        <4>5. Moved(b, "undo")
          BY <1>0, <4>4, GotoIs
        <4> QED
          BY <3>3, <4>2, <4>5 DEF Moved, At, Current
      <3> QED
        BY <3>1, <3>2, <3>3
    <2> QED
      BY <2>2, <2>3, <2>4, FlushRest
  <1>6. ASSUME NEW c \in Boxes, NEW m \in Msgs, <<c, m>> \in held', c \notin cut', m \in Ids(Todo(c)')
        PROVE  m \in cancelled'[c]
    <2>1. CASE c = b
      BY <1>1, <1>4, <1>6, <2>1
    <2>2. CASE c # b
      BY <1>1, <1>2, <1>6, <2>2 DEF Holding
    <2> QED
      BY <2>1, <2>2
  <1>7. Ids(store)' = Ids(store') /\ \A c \in Boxes : Ids(Todo(c))' = Ids(Todo(c)')
    BY DEF Ids
  <1> QED
    BY <1>5, <1>6, <1>7 DEF Holding

\* A step that keeps the flushes at their places.
LEMMA HoldingFrame ==
  ASSUME Holding, cut \subseteq cut',
         \A b \in Boxes, m \in Msgs :
           <<b, m>> \in held' /\ b \notin cut' =>
             \/ /\ <<b, m>> \in held
                /\ m \in Ids(store)' => m \in Ids(store)
                /\ At(b, "undo") => At(b, "undo")' /\ Current(b)' = Current(b)
                /\ Todo(b)' = Todo(b) /\ (m \in cancelled[b] => m \in cancelled'[b])
             \/ m \notin Ids(store)' /\ (m \in Ids(Todo(b))' => m \in cancelled'[b])
  PROVE  Holding'
  BY DEF Holding, Ids

\* ... and so does every other.
LEMMA HoldingInductive ==
  ASSUME TypeInv, Entries, Kept, Holding, [Next]_vars PROVE Holding'
<1>0. /\ TypeOK /\ adding \in [Tabs -> SUBSET EntryType] /\ flush \in [Boxes -> FlushType]
      /\ cancelled \in [Boxes -> SUBSET Msgs] /\ held \subseteq dropped
  BY DEF TypeInv, TypeOK
<1>1. CASE /\ UNCHANGED <<flush, cancelled, held, store>> /\ cut \subseteq cut'
  BY <1>1, TodoFrame, HoldingFrame DEF Ids
<1>2. ASSUME NEW b \in Boxes, NEW m \in Msgs, Enqueue(b, m) PROVE Holding'
  <2>1. /\ UNCHANGED <<flush, held, store, cut>> /\ m \notin Ids(queued)
        /\ cancelled' = [cancelled EXCEPT ![b] = @ \ {m}]
    BY <1>2 DEF Enqueue
  <2>2. \A c \in Boxes : \A x \in Msgs : <<c, x>> \in held => x # m
    BY <1>0, <2>1 DEF Kept
  <2>3. \A c \in Boxes : \A x \in Msgs : x \in cancelled[c] /\ x # m => x \in cancelled'[c]
    BY <1>0, <2>1
  <2> QED
    BY <2>1, <2>2, <2>3, TodoFrame, HoldingFrame DEF Ids
<1>3. ASSUME NEW t \in Tabs, EnqueuePut(t) PROVE Holding'
  <2> DEFINE e0 == Earliest(adding[t])
  <2>1. e0 \in adding[t]
    BY <1>0, <1>3, EarliestIs DEF EnqueuePut
  <2>2. store' = store \cup {e0} /\ UNCHANGED <<flush, cancelled, held, cut>>
    BY <1>3 DEF EnqueuePut
  <2> HIDE DEF e0
  <2>3. e0.id \notin Ids(queued)
    BY <2>1 DEF Entries
  <2>4. \A c \in Boxes : \A x \in Msgs : <<c, x>> \in held => x # e0.id
    BY <1>0, <2>3 DEF Kept
  <2>5. \A x : x \in Ids(store)' => x \in Ids(store) \/ x = e0.id
    BY <2>2 DEF Ids
  <2> QED
    BY <2>2, <2>4, <2>5, TodoFrame, HoldingFrame
<1>4. ASSUME NEW b \in Boxes, NEW m \in Msgs, Cancel(b, m) PROVE Holding'
  <2>1. /\ UNCHANGED <<flush, cut>> /\ held' = held \cup {<<b, m>>} /\ store' = Without(store, m)
        /\ cancelled' = IF At(b, "idle") THEN cancelled
                                         ELSE [cancelled EXCEPT ![b] = @ \cup {m}]
    BY <1>4 DEF Cancel
  <2>2. \A c \in Boxes : cancelled[c] \subseteq cancelled'[c]
    BY <1>0, <2>1
  <2>3. Ids(store)' \subseteq Ids(store) /\ m \notin Ids(store)'
    BY <2>1 DEF Ids, Without
  <2>4. CASE At(b, "idle")
    <3>1. Todo(b) = {}
      BY <2>4 DEF Entries, Todo, Working, At
    <3>2. Todo(b)' = {}
      BY <2>1, <3>1, TodoFrame
    <3>3. m \notin Ids(Todo(b))'
      BY <3>2 DEF Ids
    <3> QED
      BY <2>1, <2>2, <2>3, <3>3, TodoFrame, HoldingFrame
  <2>5. CASE ~At(b, "idle")
    <3>1. m \in cancelled'[b]
      BY <1>0, <2>1, <2>5
    <3> QED
      BY <2>1, <2>2, <2>3, <3>1, TodoFrame, HoldingFrame
  <2> QED
    BY <2>4, <2>5
<1>5. ASSUME NEW b \in Boxes, Start(b) PROVE Holding'
  <2>1. /\ UNCHANGED <<held, store, cut>>
        /\ Moved(b, "list") /\ OthersStay(b) /\ At(b, "idle")
    BY <1>0, <1>5, GotoIs DEF Start
  <2>2. \A c \in Boxes : /\ Todo(c)' = Todo(c) /\ cancelled'[c] = cancelled[c]
                         /\ Current(c)' = Current(c) /\ (At(c, "undo") => At(c, "undo")')
    BY <2>1 DEF Moved, OthersStay, Todo, Working, Current, At
  <2> QED
    BY <2>1, <2>2, HoldingFrame DEF Ids
<1>6. ASSUME NEW b \in Boxes, FlushAction(b) PROVE Holding'
  BY <1>6, HoldingFlush
<1>7. ASSUME NEW b \in Boxes, Reload(b) PROVE Holding'
  <2> DEFINE gone == {c \in Boxes : TabOf[c] = TabOf[b]}
  <2>1. /\ UNCHANGED <<held, store>> /\ cut' = cut \cup gone
        /\ \A c \in Boxes : c \notin gone => flush'[c] = flush[c] /\ cancelled'[c] = cancelled[c]
    BY <1>7 DEF Reload
  <2> HIDE DEF gone
  <2>2. \A c \in Boxes : c \notin gone => /\ Todo(c)' = Todo(c) /\ Current(c)' = Current(c)
                                          /\ (At(c, "undo") => At(c, "undo")')
    BY <2>1 DEF Todo, Working, Current, At
  <2> QED
    BY <2>1, <2>2, HoldingFrame DEF Ids
<1>8. ASSUME NEW b \in Boxes, NEW c \in Boxes,
             Leave(b) \/ Return(b) \/ Remount(b, c)
      PROVE  Holding'
  BY <1>1, <1>8 DEF Leave, Return, Remount
<1>9. CASE (\E t \in Tabs : EnqueueFails(t)) \/ (\E m \in Msgs : Accept(m)) \/ Tick \/ UNCHANGED vars
  BY <1>1, <1>9 DEF EnqueueFails, Accept, Tick, vars
<1> QED
  BY <1>2, <1>3, <1>4, <1>5, <1>6, <1>7, <1>8, <1>9 DEF Next, Step, FlushAction

\* The flush of the box a message was cancelled in does not put it back for longer than
\* it takes to remove it again, at whatever point of the flush the user cancelled.
THEOREM CancellationHolds == Spec => []CancelHolds
<1>1. Init => Holding
  BY DEF Init, Holding
<1>2. TypeInv /\ Entries /\ Kept /\ Holding /\ [Next]_vars => Holding'
  BY HoldingInductive
<1>3. TypeInv /\ Holding => CancelHolds
  <2> SUFFICES ASSUME TypeInv, Holding, NEW b \in Boxes, NEW m \in Ids(store), <<b, m>> \in held,
                      b \notin cut
               PROVE  At(b, "undo") /\ Current(b).id = m
    BY DEF CancelHolds
  <2>1. m \in Msgs
    BY DEF TypeInv, TypeOK, EntryType, Ids
  <2> QED
    BY <2>1 DEF Holding
<1> QED
  BY <1>1, <1>2, <1>3, KeptAlways, PTL DEF Spec
=============================================================================
