-------------------------------- MODULE ChannelList --------------------------------
(***************************************************************************)
(* The list of channels of a workspace, as every member keeps it           *)
(* (src/collab/channelStore.ts) and announces it to the others             *)
(* (src/hooks/collab/useChannelSync.ts): channels carry the time of their  *)
(* last change, removed ones leave a tombstone, the later change wins.     *)
(*                                                                         *)
(* Clocks are not synchronised: a member's clock may show any time.  An    *)
(* announcement may be lost, repeated and late; members that meet send     *)
(* each other all they have, which are announcements made before, or cut   *)
(* copies of them: merging either does the same.                           *)
(*                                                                         *)
(* Of a name the model has its first 48 characters (MAX_CHANNEL_NAME_      *)
(* LENGTH) and whether more follow.  Adding keeps the whole name and an id *)
(* of any length, renaming and merging cut the name, merging and removing  *)
(* refuse an id of more than 64 characters.                                *)
(***************************************************************************)
EXTENDS Naturals, FiniteSets, FiniteSetsExt

CONSTANTS
  Members,   \* members of the workspace
  Chans,     \* ids of channels
  LongIds,   \* those of them that isValidChannelId() refuses
  Names,     \* names they may be given, to their 48th character
  ListMax,   \* MAX_CUSTOM_CHANNELS: channels that may be taken over from others
  TimeMax,   \* bound: what a clock shows
  EditMax    \* bound: changes users make

ListAssumption ==
  /\ LongIds \subseteq Chans
  /\ ListMax \in Nat /\ TimeMax \in Nat \ {0} /\ EditMax \in Nat

VARIABLES
  list,     \* list[r]: the channels r has: records of [id, name, long, order, at]
  tomb,     \* tomb[r][c]: when the channel was removed, 0 when it was not
  announced,\* what was sent
  edits,
  heard,    \* history: heard[r]: changes r made or was told of, as others take them
  full      \* history: members that turned a channel away

listVars == <<list, tomb, announced, edits, heard, full>>

Times == 1..(TimeMax + EditMax)

ChannelType == [id : Chans, name : Names, long : BOOLEAN, order : Nat, at : Times]
Removal == [id : Chans, at : Times, removed : {TRUE}]

TypeOK ==
  /\ list \in [Members -> SUBSET ChannelType]
  /\ \A r \in Members : \A x, y \in list[r] : x.id = y.id => x = y
  /\ tomb \in [Members -> [Chans -> {0} \cup Times]]
  /\ announced \subseteq ChannelType \cup Removal
  /\ heard \in [Members -> SUBSET (ChannelType \cup Removal)]
  /\ edits \in 0..EditMax /\ full \subseteq Members

Init ==
  /\ list = [r \in Members |-> {}] /\ tomb = [r \in Members |-> [c \in Chans |-> 0]]
  /\ announced = {} /\ edits = 0
  /\ heard = [r \in Members |-> {}] /\ full = {}

Has(r, c) == \E x \in list[r] : x.id = c
The(r, c) == CHOOSE x \in list[r] : x.id = c
Others(r, c) == {x \in list[r] : x.id # c}

\* Math.max(Date.now(), ...): the clock, or just after everything of T.
Stamps(T) == {Max({now} \cup {t + 1 : t \in T}) : now \in 1..TimeMax}

\* A change as a member takes it over: the name cut, and none of a channel with a long id.
Cut(x) == IF x \in ChannelType THEN [x EXCEPT !.long = FALSE] ELSE x
Taken(X) == {Cut(x) : x \in {y \in X : y.id \notin LongIds}}

\* A user's change: kept, and announced if there is a connection.
Change(r, X) ==
  /\ edits < EditMax /\ edits' = edits + 1
  /\ heard' = [heard EXCEPT ![r] = @ \cup Taken(X)]
  /\ announced' = announced \cup X

------------------------------------------------------------------------------------
(* What a user does. *)

\* addWorkspaceChannel(): after the tombstone of a channel of that name, at the end.  The id is
\* made of the whole name, which is kept.
Add(r, c, n, long) ==
  /\ ~Has(r, c)
  /\ c \in LongIds => long
  /\ \E at \in Stamps({tomb[r][c]}) :
       LET x == [id |-> c, name |-> n, long |-> long, order |-> Cardinality(list[r]), at |-> at] IN
         list' = [list EXCEPT ![r] = @ \cup {x}] /\ Change(r, {x})
  /\ UNCHANGED <<tomb, full>>

\* renameWorkspaceChannel(): cuts the name.
Rename(r, c, n) ==
  /\ Has(r, c)
  /\ \E at \in Stamps({The(r, c).at}) :
       LET x == [The(r, c) EXCEPT !.name = n, !.long = FALSE, !.at = at] IN
         list' = [list EXCEPT ![r] = Others(r, c) \cup {x}] /\ Change(r, {x})
  /\ UNCHANGED <<tomb, full>>

\* moveWorkspaceChannel(): two neighbours are exchanged; every channel is numbered anew, in the
\* list's order, and counts as changed.
Move(r, c, d) ==
  /\ Has(r, c) /\ Has(r, d) /\ c # d
  /\ \E rank \in [{x.id : x \in list[r]} -> 0..(Cardinality(list[r]) - 1)],
        at \in Stamps({x.at : x \in list[r]}) :
       LET X == {[x EXCEPT !.order = rank[x.id], !.at = at] : x \in list[r]}
           Swapped(i) == IF i = c THEN d ELSE IF i = d THEN c ELSE i
       IN  /\ \A x, y \in list[r] : x # y => rank[x.id] # rank[y.id]
           /\ \A x, y \in list[r] : x.order < y.order => rank[Swapped(x.id)] < rank[Swapped(y.id)]
           /\ rank[c] = rank[d] + 1
           /\ list' = [list EXCEPT ![r] = X] /\ Change(r, X)
  /\ UNCHANGED <<tomb, full>>

\* removeWorkspaceChannel() with nextChannelRevision(), which is later than both the channel and
\* its tombstone.  A channel with a long id stays.
Remove(r, c) ==
  /\ Has(r, c) /\ c \notin LongIds
  /\ \E at \in Stamps({The(r, c).at, tomb[r][c]}) :
       /\ list' = [list EXCEPT ![r] = Others(r, c)]
       /\ tomb' = [tomb EXCEPT ![r][c] = at]
       /\ Change(r, {[id |-> c, at |-> at, removed |-> TRUE]})
  /\ UNCHANGED full

------------------------------------------------------------------------------------
(* What a member is told. *)

\* Mutant of Merge: a tombstone of the same time does not count.
MergeAtTombstone(r, x) ==
  /\ x \in announced /\ x \in ChannelType
  /\ heard' = [heard EXCEPT ![r] = @ \cup Taken({x})]
  /\ LET refused == \/ x.id \in LongIds \/ tomb[r][x.id] > x.at
                    \/ Has(r, x.id) /\ The(r, x.id).at >= x.at
         turned == ~refused /\ ~Has(r, x.id) /\ Cardinality(list[r]) >= ListMax
     IN  /\ list' = IF refused \/ turned
                     THEN list ELSE [list EXCEPT ![r] = Others(r, x.id) \cup {Cut(x)}]
         /\ full' = IF turned THEN full \cup {r} ELSE full
  /\ UNCHANGED <<tomb, announced, edits>>

\* Mutant of Merge: a newer entry is added beside the one there is.
MergeAppends(r, x) ==
  /\ x \in announced /\ x \in ChannelType
  /\ heard' = [heard EXCEPT ![r] = @ \cup Taken({x})]
  /\ list' = IF x.id \in LongIds \/ \E y \in list[r] : y.id = x.id /\ y.at >= x.at
               THEN list ELSE [list EXCEPT ![r] = @ \cup {Cut(x)}]
  /\ UNCHANGED <<tomb, announced, edits, full>>

\* mergeWorkspaceChannel(): not a long id, what is as old as its tombstone or what is known; a new
\* channel only while there is room.
Merge(r, x) ==
  /\ x \in announced /\ x \in ChannelType
  /\ heard' = [heard EXCEPT ![r] = @ \cup Taken({x})]
  /\ LET refused == \/ x.id \in LongIds \/ tomb[r][x.id] >= x.at
                    \/ Has(r, x.id) /\ The(r, x.id).at >= x.at
         turned == ~refused /\ ~Has(r, x.id) /\ Cardinality(list[r]) >= ListMax
     IN  /\ list' = IF refused \/ turned
                     THEN list ELSE [list EXCEPT ![r] = Others(r, x.id) \cup {Cut(x)}]
         /\ full' = IF turned THEN full \cup {r} ELSE full
  /\ UNCHANGED <<tomb, announced, edits>>

\* removeWorkspaceChannel() with the time another member gave: not a long id, what is older than
\* the channel or no later than the tombstone.
MergeRemoval(r, x) ==
  /\ x \in announced /\ x \in Removal
  /\ heard' = [heard EXCEPT ![r] = @ \cup Taken({x})]
  /\ IF \/ x.id \in LongIds \/ tomb[r][x.id] >= x.at
        \/ Has(r, x.id) /\ The(r, x.id).at > x.at
       THEN UNCHANGED <<list, tomb>>
       ELSE /\ list' = [list EXCEPT ![r] = Others(r, x.id)]
            /\ tomb' = [tomb EXCEPT ![r][x.id] = x.at]
  /\ UNCHANGED <<announced, edits, full>>

Next ==
  \/ \E r \in Members, c \in Chans, n \in Names :
       Rename(r, c, n) \/ \E long \in BOOLEAN : Add(r, c, n, long)
  \/ \E r \in Members, c, d \in Chans : Move(r, c, d)
  \/ \E r \in Members, c \in Chans : Remove(r, c)
  \/ \E r \in Members : \E x \in announced : Merge(r, x) \/ MergeRemoval(r, x)

Spec == Init /\ [][Next]_listVars

------------------------------------------------------------------------------------
(* Properties. *)

\* Two changes of one channel at the same time: which one stays depends on the order.
Tied(X) == \E x, y \in X \cap ChannelType : x # y /\ x.id = y.id /\ x.at = y.at

\* mergeWorkspaceChannel(), removeWorkspaceChannel(): members that heard of the same changes, in
\* whatever order and however often, have the same channels up to the rest of a long name, unless
\* two members changed one channel at the same time or one of them had no room.  A channel with a
\* long id stays with the member that added it: `Taken` leaves it out.
ListsConverge ==
  \A r, q \in Members :
    heard[r] = heard[q] /\ ~Tied(heard[r]) /\ r \notin full /\ q \notin full =>
      Taken(list[r]) = Taken(list[q])
=================================================================================
