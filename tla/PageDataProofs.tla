----------------------------- MODULE PageDataProofs -----------------------------
(***************************************************************************)
(* Further theorems about the components around one page: the messages of  *)
(* a channel, the invites of friends and the list of channels; and that    *)
(* all the components are well typed.                                      *)
(***************************************************************************)
EXTENDS PageProofs, ChannelClientProofs, PeerRoomProofs

------------------------------------------------------------------------------------
(* The messages of a channel. *)

\* A list that could not be saved has all delivered messages that no race took off, ...
UnsavedHolds ==
  unsaved # History!None => \A m \in sent \ raced : unsaved[m] > 0

\* ... the one that is shown has them once what is stored has been merged into it, and until
\* then they are shown or about to be merged.
ShownHolds ==
  \A m \in sent \ raced :
    /\ loaded /\ restore = History!None => shown[m] > 0
    /\ restore # History!None => restore[m] > 0 \/ shown[m] > 0

\* LossNeedsRace with what makes it inductive.
HistoryInv == History!TypeOK /\ LossNeedsRace /\ UnsavedHolds /\ ShownHolds

\* The types, and the constants.
LEMMA HistoryTypes ==
  ASSUME History!TypeOK
  PROVE  /\ shown \in History!Lists /\ seen \in History!Lists /\ disk \in History!Lists
         /\ rendered \in BOOLEAN /\ loaded \in BOOLEAN /\ (rendered => seen = shown)
         /\ (rendered => saved # "shown") /\ saved \in {"none", "seen", "shown"}
         /\ unsaved = History!None \/ unsaved \in History!Lists
         /\ restore = History!None \/ restore \in History!Lists
         /\ apply = History!None \/ apply \in History!Lists
         /\ sent \subseteq Texts /\ raced \subseteq Texts /\ upsets \in 0..UpsetMax
         /\ RevMax \in Nat /\ RevMax >= 1 /\ UpsetMax \in Nat
         /\ History!None \notin History!Lists /\ History!Stored \in History!Lists
         /\ History!Empty \in History!Lists /\ \A m \in Texts : History!Empty[m] = 0
  <1>1. /\ RevMax \in Nat \ {0} /\ UpsetMax \in Nat /\ History!None \notin History!Lists
    BY PageAssumption DEF History!HistoryAssumption
  <1>2. History!Empty \in History!Lists /\ \A m \in Texts : History!Empty[m] = 0
    BY <1>1 DEF History!Empty, History!Lists
  <1>3. History!Stored \in History!Lists
    BY DEF History!Stored, History!TypeOK
  <1> QED
    BY <1>1, <1>2, <1>3 DEF History!TypeOK

\* A merge has what either list has.
LEMMA MergeHasBoth ==
  ASSUME NEW l \in History!Lists, NEW k \in History!Lists, RevMax \in Nat
  PROVE  /\ History!Join(l, k) \in History!Lists
         /\ \A m \in Texts : History!Join(l, k)[m] > 0 <=> l[m] > 0 \/ k[m] > 0
  <1>1. ASSUME NEW m \in Texts PROVE l[m] \in 0..RevMax /\ k[m] \in 0..RevMax
    BY DEF History!Lists
  <1>2. \A m \in Texts : History!Join(l, k)[m] = IF l[m] >= k[m] THEN l[m] ELSE k[m]
    BY DEF History!Join
  <1>3. History!Join(l, k) \in History!Lists
    BY <1>1 DEF History!Join, History!Lists
  <1> QED
    BY <1>1, <1>2, <1>3

\* A list of one message has it.
LEMMA OnlyHasIt ==
  ASSUME NEW m \in Texts, NEW r \in 1..RevMax, RevMax \in Nat
  PROVE  /\ History!Only(m, r) \in History!Lists
         /\ \A t \in Texts : History!Only(m, r)[t] > 0 <=> t = m
  BY DEF History!Only, History!Empty, History!Lists

\* Changing one message of a list to a revision leaves a list that has no fewer.
LEMMA OneMore ==
  ASSUME NEW l \in History!Lists, NEW m \in Texts, NEW r \in 1..RevMax, RevMax \in Nat
  PROVE  /\ [l EXCEPT ![m] = r] \in History!Lists
         /\ \A t \in Texts : [l EXCEPT ![m] = r][t] > 0 <=> l[t] > 0 \/ t = m
  <1>1. \A t \in Texts : [l EXCEPT ![m] = r][t] = IF t = m THEN r ELSE l[t]
    BY DEF History!Lists
  <1>2. [l EXCEPT ![m] = r] \in History!Lists
    BY DEF History!Lists
  <1> QED
    BY <1>1, <1>2

\* It holds in the beginning.
LEMMA HistoryInvBegins == History!Init => HistoryInv
  <1> SUFFICES ASSUME History!Init PROVE HistoryInv
    OBVIOUS
  <1>1. History!Empty \in History!Lists /\ UpsetMax \in Nat
    BY PageAssumption DEF History!HistoryAssumption, History!Empty, History!Lists
  <1>2. History!TypeOK
    <2>1. upsets \in 0..UpsetMax
      BY <1>1 DEF History!Init
    <2>2. /\ shown \in History!Lists /\ seen \in History!Lists /\ disk \in History!Lists
          /\ seen = shown /\ saved = "none" /\ rendered = TRUE /\ loaded = FALSE
      BY <1>1 DEF History!Init
    <2>3. /\ unsaved = History!None /\ restore = History!None /\ apply = History!None
          /\ sent \subseteq Texts /\ raced \subseteq Texts
      BY DEF History!Init
    <2> QED
      BY <2>1, <2>2, <2>3 DEF History!TypeOK
  <1>3. sent = {}
    BY DEF History!Init
  <1>4. LossNeedsRace /\ UnsavedHolds /\ ShownHolds
    BY <1>3 DEF LossNeedsRace, History!LossNeedsRace, UnsavedHolds, ShownHolds
  <1> QED
    BY <1>2, <1>4 DEF HistoryInv

\* What a step must do with what is delivered for the invariant to hold again.
LEMMA HistoryKept ==
  ASSUME HistoryInv, History!TypeOK',
         \A m \in (sent \ raced)' : disk'[m] > 0,
         unsaved' # History!None => \A m \in (sent \ raced)' : unsaved'[m] > 0,
         \A m \in (sent \ raced)' :
           /\ loaded' /\ restore' = History!None => shown'[m] > 0
           /\ restore' # History!None => restore'[m] > 0 \/ shown'[m] > 0
  PROVE  HistoryInv'
  <1>1. LossNeedsRace'
    <2>1. ASSUME NEW m \in sent', disk'[m] = 0 PROVE m \in raced'
      <3> SUFFICES ASSUME m \notin raced' PROVE FALSE
        OBVIOUS
      <3>1. disk'[m] > 0
        OBVIOUS
      <3> QED
        BY <2>1, <3>1
    <2> QED
      BY <2>1 DEF LossNeedsRace, History!LossNeedsRace
  <1>2. UnsavedHolds'
    BY DEF UnsavedHolds
  <1>3. ShownHolds'
    BY DEF ShownHolds
  <1> QED
    BY <1>1, <1>2, <1>3 DEF HistoryInv

\* What the invariant says of a delivered message that no race took off.
LEMMA HistorySays ==
  ASSUME HistoryInv
  PROVE  /\ \A m \in sent \ raced : disk[m] > 0 /\ m \in Texts
         /\ \A m \in sent \ raced : unsaved # History!None => unsaved[m] > 0
         /\ \A m \in sent \ raced : History!Stored[m] > 0
         /\ \A m \in sent \ raced : loaded /\ restore = History!None => shown[m] > 0
         /\ \A m \in sent \ raced :
              restore # History!None => restore[m] > 0 \/ shown[m] > 0
         /\ \A m \in sent \ raced : ~History!Restoring => shown[m] > 0
  <1>t. History!TypeOK
    BY DEF HistoryInv
  <1>1. ASSUME NEW m \in sent \ raced PROVE disk[m] > 0 /\ m \in Texts
    <2>1. m \in Texts /\ disk[m] \in 0..RevMax /\ disk[m] # 0
      BY <1>1, <1>t, HistoryTypes DEF HistoryInv, LossNeedsRace, History!LossNeedsRace,
                                      History!Lists
    <2> QED
      BY <2>1
  <1>2. \A m \in sent \ raced : unsaved # History!None => unsaved[m] > 0
    BY DEF HistoryInv, UnsavedHolds
  <1>3. \A m \in sent \ raced : History!Stored[m] > 0
    BY <1>1, <1>2 DEF History!Stored
  <1>4. \A m \in sent \ raced : /\ loaded /\ restore = History!None => shown[m] > 0
                                /\ restore # History!None => restore[m] > 0 \/ shown[m] > 0
    BY DEF HistoryInv, ShownHolds
  <1>5. \A m \in sent \ raced : ~History!Restoring => shown[m] > 0
    BY <1>4 DEF History!Restoring
  <1> QED
    BY <1>1, <1>2, <1>3, <1>4, <1>5

\* useMultiChannelStore: a list is shown, the ref is left as it is until the next render.
LEMMA ShowKeepsTypes ==
  ASSUME History!TypeOK, NEW l \in History!Lists, History!Show(l)
  PROVE  /\ shown' = l /\ seen' = seen /\ shown' \in History!Lists /\ seen' \in History!Lists
         /\ rendered' = FALSE /\ saved' \in {"none", "seen", "shown"}
  BY HistoryTypes DEF History!Show

\* A list in the ref that is written takes off the disk only what is recorded as a race.
LEMMA WrittenKeeps ==
  ASSUME HistoryInv, NEW m \in sent \ raced, m \notin History!Races
  PROVE  seen[m] > 0
  <1>t. History!TypeOK
    BY DEF HistoryInv
  <1>1. m \in Texts /\ disk[m] > 0 /\ seen[m] \in Nat
    BY <1>t, HistorySays, HistoryTypes DEF History!Lists
  <1>2. CASE History!Restoring \/ ~rendered
    <2>1. ~(seen[m] = 0)
      BY <1>1, <1>2 DEF History!Races, History!Missing
    <2> QED
      BY <1>1, <2>1
  <1>3. CASE ~(History!Restoring \/ ~rendered)
    <2>1. seen = shown
      BY <1>3, <1>t, HistoryTypes
    <2> QED
      BY <1>3, <2>1, HistorySays
  <1> QED
    BY <1>2, <1>3

\* loadChannel() reads what is stored, ...
LEMMA LoadStartsKeeps == HistoryInv /\ History!LoadStarts => HistoryInv'
  <1> SUFFICES ASSUME HistoryInv, History!LoadStarts PROVE HistoryInv'
    OBVIOUS
  <1>t. History!TypeOK
    BY DEF HistoryInv
  <1>1. /\ loaded' = TRUE /\ restore' = History!Stored
        /\ UNCHANGED <<shown, seen, rendered, saved, disk, unsaved, apply, sent, upsets, raced>>
    BY DEF History!LoadStarts, History!memoryVars
  <1>2. History!TypeOK'
    BY <1>t, <1>1, HistoryTypes DEF History!TypeOK
  <1>3. restore' # History!None
    BY <1>t, <1>1, HistoryTypes
  <1> QED
    BY <1>1, <1>2, <1>3, HistorySays, HistoryKept

\* ... and merges it into what is shown.
LEMMA LoadEndsKeeps == HistoryInv /\ History!LoadEnds => HistoryInv'
  <1> SUFFICES ASSUME HistoryInv, History!LoadEnds PROVE HistoryInv'
    OBVIOUS
  <1>t. History!TypeOK /\ restore \in History!Lists /\ shown \in History!Lists /\ RevMax \in Nat
    BY HistoryTypes DEF HistoryInv, History!LoadEnds
  <1>1. /\ restore # History!None /\ restore' = History!None
        /\ UNCHANGED <<disk, unsaved, loaded, apply, sent, upsets, raced>>
    BY DEF History!LoadEnds
  <1>2. CASE restore = History!Empty
    <2>1. UNCHANGED <<shown, seen, rendered, saved>>
      BY <1>2 DEF History!LoadEnds, History!memoryVars
    <2>2. History!TypeOK'
      BY <1>t, <1>1, <2>1 DEF History!TypeOK
    <2>3. ASSUME NEW m \in sent \ raced PROVE shown[m] > 0
      <3>1. restore[m] = 0 /\ (restore[m] > 0 \/ shown[m] > 0)
        BY <1>t, <1>1, <1>2, HistorySays, HistoryTypes
      <3> QED
        BY <3>1
    <2> QED
      BY <1>1, <2>1, <2>2, <2>3, HistorySays, HistoryKept
  <1>3. CASE restore # History!Empty
    <2> DEFINE l == History!Join(shown, restore)
    <2>1. History!Show(l)
      BY <1>3 DEF History!LoadEnds
    <2>2. /\ l \in History!Lists
          /\ \A m \in Texts : l[m] > 0 <=> shown[m] > 0 \/ restore[m] > 0
      BY <1>t, MergeHasBoth
    <2> HIDE DEF l
    <2>3. /\ shown' = l /\ seen' = seen /\ shown' \in History!Lists /\ seen' \in History!Lists
          /\ rendered' = FALSE /\ saved' \in {"none", "seen", "shown"}
      BY <1>t, <2>1, <2>2, ShowKeepsTypes
    <2>4. History!TypeOK'
      BY <1>t, <1>1, <2>3 DEF History!TypeOK
    <2>5. \A m \in sent \ raced : shown'[m] > 0
      BY <1>1, <2>2, <2>3, HistorySays
    <2> QED
      BY <1>1, <2>4, <2>5, HistorySays, HistoryKept
  <1> QED
    BY <1>2, <1>3

\* resetWorkspace() and a synced device leave the channel to be loaded again.
LEMMA ReloadingKeeps == HistoryInv /\ (History!Reset \/ History!DataSynced) => HistoryInv'
  <1> SUFFICES ASSUME HistoryInv, History!Reset \/ History!DataSynced PROVE HistoryInv'
    OBVIOUS
  <1>t. History!TypeOK
    BY DEF HistoryInv
  <1>1. /\ loaded' = FALSE /\ restore' = History!None
        /\ UNCHANGED <<disk, unsaved, apply, sent, raced>>
    BY DEF History!Reset, History!DataSynced
  <1>2. upsets' \in 0..UpsetMax
    BY <1>t, HistoryTypes DEF History!Reset, History!DataSynced, History!Upset
  <1>3. History!TypeOK'
    <2>1. CASE History!Reset
      <3>1. shown' = History!Empty /\ seen' = History!Empty /\ rendered' = TRUE /\ saved' = "none"
        BY <2>1 DEF History!Reset
      <3> QED
        BY <1>t, <1>1, <1>2, <3>1, HistoryTypes DEF History!TypeOK
    <2>2. CASE History!DataSynced
      <3>1. UNCHANGED <<shown, seen, rendered, saved>>
        BY <2>2 DEF History!DataSynced, History!memoryVars
      <3> QED
        BY <1>t, <1>1, <1>2, <3>1 DEF History!TypeOK
    <2> QED
      BY <2>1, <2>2
  <1> QED
    BY <1>1, <1>3, HistorySays, HistoryKept

\* appendMessage() adds to what is shown.
LEMMA AppendKeeps ==
  ASSUME HistoryInv, NEW t \in Texts, History!Append(t)
  PROVE  HistoryInv'
  <1>t. History!TypeOK /\ shown \in History!Lists /\ RevMax \in Nat /\ 1 \in 1..RevMax
    BY HistoryTypes DEF HistoryInv
  <1> DEFINE l == [shown EXCEPT ![t] = 1]
  <1>1. /\ History!Show(l)
        /\ UNCHANGED <<disk, unsaved, loaded, restore, apply, sent, upsets, raced>>
    BY DEF History!Append
  <1>2. l \in History!Lists /\ \A m \in Texts : l[m] > 0 <=> shown[m] > 0 \/ m = t
    BY <1>t, OneMore
  <1> HIDE DEF l
  <1>3. /\ shown' = l /\ seen' = seen /\ shown' \in History!Lists /\ seen' \in History!Lists
        /\ rendered' = FALSE /\ saved' \in {"none", "seen", "shown"}
    BY <1>t, <1>1, <1>2, ShowKeepsTypes
  <1>4. History!TypeOK'
    BY <1>t, <1>1, <1>3 DEF History!TypeOK
  <1>5. \A m \in sent \ raced : shown[m] > 0 => shown'[m] > 0
    BY <1>2, <1>3, HistorySays
  <1> QED
    BY <1>1, <1>4, <1>5, HistorySays, HistoryKept

\* applyMessageRevision() saves the whole list shown: what it has not, during a restore, is
\* recorded as a race.
LEMMA ReviseKeeps ==
  ASSUME HistoryInv, NEW t \in Texts, History!Revise(t)
  PROVE  HistoryInv'
  <1> DEFINE l == [shown EXCEPT ![t] = @ + 1]
  <1>t. /\ History!TypeOK /\ shown \in History!Lists /\ RevMax \in Nat
        /\ shown[t] + 1 \in 1..RevMax
    <2>1. 1 \in 1..RevMax
      BY HistoryTypes DEF HistoryInv
    <2> QED
      BY <2>1, HistoryTypes DEF HistoryInv, History!Revise, History!Revisions
  <1>1. l \in History!Lists /\ \A m \in Texts : l[m] > 0 <=> shown[m] > 0 \/ m = t
    BY <1>t, OneMore
  <1>2. /\ shown' = l /\ rendered' = FALSE
        /\ raced' = IF History!Restoring THEN raced \cup History!Missing(disk, l) ELSE raced
        /\ UNCHANGED <<seen, loaded, restore, apply, sent>>
        /\ \/ History!SaveWorks(l) /\ saved' = "shown" /\ UNCHANGED upsets
           \/ /\ History!SaveFails(l) /\ saved' = (IF saved = "shown" THEN "none" ELSE saved)
              /\ History!Upset
    BY DEF History!Revise
  <1> HIDE DEF l
  <1>3. disk' \in History!Lists /\ (unsaved' = History!None \/ unsaved' \in History!Lists)
    BY <1>t, <1>1, <1>2, HistoryTypes DEF History!SaveWorks, History!SaveFails
  <1>4. History!TypeOK'
    <2>1. saved' \in {"none", "seen", "shown"} /\ upsets' \in 0..UpsetMax
      BY <1>t, <1>2, HistoryTypes DEF History!Upset
    <2>2. raced' \subseteq Texts
      BY <1>t, <1>2, HistoryTypes DEF History!Missing
    <2> QED
      BY <1>t, <1>1, <1>2, <1>3, <2>1, <2>2 DEF History!TypeOK
  <1>5. ASSUME NEW m \in (sent \ raced)'
        PROVE  m \in sent \ raced /\ l[m] > 0
    <2>1. m \in sent \ raced /\ m \in Texts /\ disk[m] > 0
      BY <1>2, <1>5, HistorySays
    <2>2. CASE History!Restoring
      <3>1. m \notin History!Missing(disk, l)
        BY <1>2, <1>5, <2>2
      <3>2. l[m] # 0 /\ l[m] \in 0..RevMax
        BY <1>1, <2>1, <3>1 DEF History!Missing, History!Lists
      <3> QED
        BY <2>1, <3>2
    <2>3. CASE ~History!Restoring
      BY <1>1, <2>1, <2>3, HistorySays
    <2> QED
      BY <2>2, <2>3
  <1>6. CASE History!SaveWorks(l)
    BY <1>2, <1>4, <1>5, <1>6, HistorySays, HistoryKept DEF History!SaveWorks
  <1>7. CASE History!SaveFails(l)
    BY <1>2, <1>4, <1>5, <1>7, HistorySays, HistoryKept DEF History!SaveFails
  <1> QED
    BY <1>2, <1>6, <1>7

\* deliver(): the saved history has the message, and all it had, before its entry is gone.
LEMMA DeliverKeeps ==
  ASSUME HistoryInv, NEW t \in Texts, History!Deliver(t)
  PROVE  HistoryInv'
  <1> DEFINE l == History!Join(History!Only(t, 1), History!Stored)
  <1>t. /\ History!TypeOK /\ shown \in History!Lists /\ RevMax \in Nat /\ 1 \in 1..RevMax
        /\ History!Stored \in History!Lists
    BY HistoryTypes DEF HistoryInv
  <1>1. /\ l \in History!Lists
        /\ \A m \in Texts : l[m] > 0 <=> m = t \/ History!Stored[m] > 0
    <2>1. /\ History!Only(t, 1) \in History!Lists
          /\ \A m \in Texts : History!Only(t, 1)[m] > 0 <=> m = t
      BY <1>t, OnlyHasIt
    <2> QED
      BY <1>t, <2>1, MergeHasBoth
  <1>2. /\ UNCHANGED <<loaded, restore, apply, raced>>
        /\ \/ /\ History!SaveWorks(l) /\ sent' = sent \cup {t}
              /\ IF shown[t] = 0 THEN History!Show([shown EXCEPT ![t] = 1])
                                 ELSE UNCHANGED <<shown, seen, rendered, saved>>
              /\ UNCHANGED upsets
           \/ /\ History!SaveFails(l) /\ History!Upset
              /\ UNCHANGED <<shown, seen, rendered, saved, sent>>
    BY DEF History!Deliver, History!memoryVars
  <1> HIDE DEF l
  <1>3. CASE /\ History!SaveFails(l) /\ History!Upset
             /\ UNCHANGED <<shown, seen, rendered, saved, sent>>
    <2>1. unsaved' = l /\ disk' = disk /\ upsets' \in 0..UpsetMax
      BY <1>t, <1>3, HistoryTypes DEF History!SaveFails, History!Upset
    <2>2. History!TypeOK'
      BY <1>t, <1>1, <1>2, <1>3, <2>1 DEF History!TypeOK
    <2> QED
      BY <1>1, <1>2, <1>3, <2>1, <2>2, HistorySays, HistoryKept
  <1>4. CASE /\ History!SaveWorks(l) /\ sent' = sent \cup {t}
             /\ IF shown[t] = 0 THEN History!Show([shown EXCEPT ![t] = 1])
                                ELSE UNCHANGED <<shown, seen, rendered, saved>>
             /\ UNCHANGED upsets
    <2> DEFINE k == [shown EXCEPT ![t] = 1]
    <2>1. k \in History!Lists /\ \A m \in Texts : k[m] > 0 <=> shown[m] > 0 \/ m = t
      BY <1>t, OneMore
    <2>2. CASE shown[t] = 0
      <3>1. History!Show(k)
        BY <1>4, <2>2
      <3> HIDE DEF k
      <3>2. /\ shown' = k /\ seen' = seen /\ shown' \in History!Lists /\ seen' \in History!Lists
            /\ rendered' = FALSE /\ saved' \in {"none", "seen", "shown"}
        BY <1>t, <2>1, <3>1, ShowKeepsTypes
      <3>3. disk' = l /\ unsaved' = History!None
        BY <1>4 DEF History!SaveWorks
      <3>4. History!TypeOK'
        BY <1>t, <1>1, <1>2, <1>4, <3>2, <3>3, HistoryTypes DEF History!TypeOK
      <3>5. \A m \in (sent \ raced)' : m = t \/ m \in sent \ raced
        BY <1>2, <1>4
      <3> QED
        BY <1>1, <1>2, <2>1, <3>2, <3>3, <3>4, <3>5, HistorySays, HistoryKept
    <2>3. CASE shown[t] # 0
      <3>1. UNCHANGED <<shown, seen, rendered, saved>>
        BY <1>4, <2>3
      <3>2. shown[t] > 0
        BY <1>t, <2>3 DEF History!Lists
      <3>3. disk' = l /\ unsaved' = History!None
        BY <1>4 DEF History!SaveWorks
      <3>4. History!TypeOK'
        BY <1>t, <1>1, <1>2, <1>4, <3>1, <3>3, HistoryTypes DEF History!TypeOK
      <3>5. \A m \in (sent \ raced)' : m = t \/ m \in sent \ raced
        BY <1>2, <1>4
      <3> QED
        BY <1>1, <1>2, <3>1, <3>2, <3>3, <3>4, <3>5, HistorySays, HistoryKept
    <2> QED
      BY <2>2, <2>3
  <1> QED
    BY <1>2, <1>3, <1>4

\* applyHistory() reads the list in the ref, and replaces what is shown later: what was shown
\* meanwhile is recorded as a race.
LEMMA ApplyKeeps ==
  ASSUME HistoryInv,
         History!ApplyEnds \/ \E t \in Texts : \E r \in History!Revisions(t) :
                                History!ApplyStarts(t, r)
  PROVE  HistoryInv'
  <1>t. /\ History!TypeOK /\ shown \in History!Lists /\ seen \in History!Lists /\ RevMax \in Nat
        /\ RevMax >= 1
    BY HistoryTypes DEF HistoryInv
  <1>1. ASSUME NEW t \in Texts, NEW r \in History!Revisions(t), History!ApplyStarts(t, r)
        PROVE  HistoryInv'
    <2> DEFINE l == History!Join(seen, History!Only(t, r))
    <2>1. r \in 1..RevMax
      BY <1>t DEF History!Revisions
    <2>2. l \in History!Lists
      <3>1. History!Only(t, r) \in History!Lists
        BY <1>t, <2>1, OnlyHasIt
      <3> QED
        BY <1>t, <3>1, MergeHasBoth
    <2>3. /\ apply' = l
          /\ UNCHANGED <<shown, seen, rendered, saved, disk, unsaved, loaded, restore, sent,
                         upsets, raced>>
      BY <1>1 DEF History!ApplyStarts, History!memoryVars
    <2> HIDE DEF l
    <2>4. History!TypeOK'
      BY <1>t, <2>2, <2>3 DEF History!TypeOK
    <2> QED
      BY <2>3, <2>4, HistorySays, HistoryKept
  <1>2. CASE History!ApplyEnds
    <2>1. /\ apply # History!None /\ apply' = History!None /\ History!Show(apply)
          /\ raced' = raced \cup History!Missing(shown, apply)
          /\ UNCHANGED <<disk, unsaved, loaded, restore, sent, upsets>>
      BY <1>2 DEF History!ApplyEnds
    <2>2. apply \in History!Lists
      BY <1>t, <2>1, HistoryTypes
    <2>3. /\ shown' = apply /\ seen' = seen /\ shown' \in History!Lists /\ seen' \in History!Lists
          /\ rendered' = FALSE /\ saved' \in {"none", "seen", "shown"}
      BY <1>t, <2>1, <2>2, ShowKeepsTypes
    <2>4. raced' \subseteq Texts
      BY <1>t, <2>1, HistoryTypes DEF History!Missing
    <2>5. History!TypeOK'
      BY <1>t, <2>1, <2>3, <2>4 DEF History!TypeOK
    <2>6. ASSUME NEW m \in (sent \ raced)'
          PROVE  m \in sent \ raced /\ (shown[m] > 0 => apply[m] > 0)
      <3>1. m \in sent \ raced /\ m \notin History!Missing(shown, apply)
        BY <2>1, <2>6
      <3>2. m \in Texts /\ apply[m] \in 0..RevMax
        BY <2>2, <3>1, HistorySays DEF History!Lists
      <3>3. shown[m] > 0 => apply[m] # 0
        BY <3>1, <3>2 DEF History!Missing
      <3> QED
        BY <3>1, <3>2, <3>3
    <2> QED
      BY <2>1, <2>3, <2>5, <2>6, HistorySays, HistoryKept
  <1> QED
    BY <1>1, <1>2

\* A render changes nothing that is stored or shown.
LEMMA RenderKeeps == HistoryInv /\ History!Render => HistoryInv'
  <1> SUFFICES ASSUME HistoryInv, History!Render PROVE HistoryInv'
    OBVIOUS
  <1>t. History!TypeOK
    BY DEF HistoryInv
  <1>1. /\ rendered' = TRUE /\ seen' = shown /\ saved' \in {"none", "seen"}
        /\ UNCHANGED <<shown, disk, unsaved, loaded, restore, apply, sent, upsets, raced>>
    BY DEF History!Render
  <1>2. History!TypeOK'
    BY <1>t, <1>1 DEF History!TypeOK
  <1> QED
    BY <1>1, <1>2, HistorySays, HistoryKept

\* flushHistory() writes the list in the ref.
LEMMA FlushHistoryKeeps == HistoryInv /\ History!Flush => HistoryInv'
  <1> SUFFICES ASSUME HistoryInv, History!Flush PROVE HistoryInv'
    OBVIOUS
  <1>t. History!TypeOK /\ seen \in History!Lists
    BY HistoryTypes DEF HistoryInv
  <1>1. /\ raced' = raced \cup History!Races
        /\ UNCHANGED <<shown, seen, rendered, loaded, restore, apply, sent>>
        /\ \/ History!SaveWorks(seen) /\ saved' = "seen" /\ UNCHANGED upsets
           \/ History!SaveFails(seen) /\ UNCHANGED saved /\ History!Upset
    BY DEF History!Flush, History!memoryVars
  <1>2. History!TypeOK'
    <2>1. disk' \in History!Lists /\ (unsaved' = History!None \/ unsaved' \in History!Lists)
      BY <1>t, <1>1, HistoryTypes DEF History!SaveWorks, History!SaveFails
    <2>2. upsets' \in 0..UpsetMax
      BY <1>t, <1>1, HistoryTypes DEF History!Upset
    <2>3. raced' \subseteq Texts
      BY <1>t, <1>1, HistoryTypes DEF History!Races, History!Missing
    <2>4. saved' \in {"none", "seen", "shown"} /\ (rendered' => seen' = shown' /\ saved' # "shown")
      BY <1>t, <1>1, HistoryTypes
    <2> QED
      BY <1>t, <1>1, <2>1, <2>2, <2>3, <2>4 DEF History!TypeOK
  <1>3. ASSUME NEW m \in (sent \ raced)' PROVE m \in sent \ raced /\ seen[m] > 0
    BY <1>1, <1>3, WrittenKeeps
  <1>4. CASE History!SaveWorks(seen)
    BY <1>1, <1>2, <1>3, <1>4, HistorySays, HistoryKept DEF History!SaveWorks
  <1>5. CASE History!SaveFails(seen)
    BY <1>1, <1>2, <1>3, <1>5, HistorySays, HistoryKept DEF History!SaveFails
  <1> QED
    BY <1>1, <1>4, <1>5

\* Leaving the view, or the page: after a last flush the disk has what the ref had.
LEMMA LeaveHistoryKeeps ==
  ASSUME HistoryInv, NEW flushes \in BOOLEAN, NEW page \in BOOLEAN, History!Leave(flushes, page)
  PROVE  HistoryInv'
  <1>t. /\ History!TypeOK /\ seen \in History!Lists /\ disk \in History!Lists
        /\ History!Empty \in History!Lists
    BY HistoryTypes DEF HistoryInv
  <1>1. /\ shown' = History!Empty /\ seen' = History!Empty /\ rendered' = TRUE /\ saved' = "none"
        /\ loaded' = FALSE /\ restore' = History!None /\ apply' = History!None /\ sent' = sent
    BY DEF History!Leave
  <1>2. upsets' \in 0..UpsetMax
    BY <1>t, HistoryTypes DEF History!Leave, History!Upset
  <1>3. \/ disk' = seen /\ raced' = raced \cup History!Races /\ unsaved' = History!None
        \/ UNCHANGED <<disk, raced>> /\ unsaved' \in {History!None, unsaved}
    BY DEF History!Leave
  <1>4. History!TypeOK'
    <2>1. disk' \in History!Lists /\ (unsaved' = History!None \/ unsaved' \in History!Lists)
      BY <1>t, <1>3, HistoryTypes
    <2>2. raced' \subseteq Texts
      BY <1>t, <1>3, HistoryTypes DEF History!Races, History!Missing
    <2> QED
      BY <1>t, <1>1, <1>2, <2>1, <2>2 DEF History!TypeOK
  <1>5. CASE disk' = seen /\ raced' = raced \cup History!Races /\ unsaved' = History!None
    <2>1. ASSUME NEW m \in (sent \ raced)' PROVE m \in sent \ raced /\ seen[m] > 0
      BY <1>1, <1>5, <2>1, WrittenKeeps
    <2> QED
      BY <1>1, <1>4, <1>5, <2>1, HistoryKept
  <1>6. CASE UNCHANGED <<disk, raced>> /\ unsaved' \in {History!None, unsaved}
    BY <1>1, <1>4, <1>6, HistorySays, HistoryKept
  <1> QED
    BY <1>3, <1>5, <1>6

\* Every step of the history keeps it.
LEMMA HistoryInvStep == HistoryInv /\ [History!Next]_(History!historyVars) => HistoryInv'
  <1> SUFFICES ASSUME HistoryInv, [History!Next]_(History!historyVars) PROVE HistoryInv'
    OBVIOUS
  <1>1. CASE UNCHANGED History!historyVars
    <2>1. UNCHANGED <<shown, seen, rendered, saved, disk, unsaved, loaded, restore, apply, sent,
                      upsets, raced>>
      BY <1>1 DEF History!historyVars
    <2>2. History!TypeOK'
      BY <2>1 DEF HistoryInv, History!TypeOK
    <2> QED
      BY <2>1, <2>2, HistorySays, HistoryKept
  <1>2. CASE History!LoadStarts \/ History!LoadEnds \/ History!Reset \/ History!DataSynced
    BY <1>2, LoadStartsKeeps, LoadEndsKeeps, ReloadingKeeps
  <1>3. CASE \/ History!ApplyEnds
             \/ \E t \in Texts : \E r \in History!Revisions(t) : History!ApplyStarts(t, r)
    BY <1>3, ApplyKeeps
  <1>4. CASE History!Render \/ History!Flush
    BY <1>4, RenderKeeps, FlushHistoryKeeps
  <1>5. ASSUME NEW t \in Texts, History!Append(t) \/ History!Revise(t) \/ History!Deliver(t)
        PROVE  HistoryInv'
    BY <1>5, AppendKeeps, ReviseKeeps, DeliverKeeps
  <1>6. CASE History!Leave(TRUE, TRUE) \/ History!Leave(TRUE, FALSE) \/ History!Leave(FALSE, TRUE)
    BY <1>6, LeaveHistoryKeeps
  <1> QED
    BY <1>1, <1>2, <1>3, <1>4, <1>5, <1>6 DEF History!Next

\* deliver(), loadChannel(), flushHistory(): a delivered message leaves the saved history only
\* through a race, whatever was refused by the browser, reset, reloaded or left.
THEOREM OnlyRacesLose == PageSpec => []LossNeedsRace
  <1>1. PageInit => HistoryInv
    BY PartsBegin, HistoryInvBegins
  <1>2. HistoryInv /\ [PageNext]_vars => HistoryInv'
    BY PartsStep, HistoryInvStep
  <1>3. HistoryInv => LossNeedsRace
    BY DEF HistoryInv
  <1> QED
    BY <1>1, <1>2, <1>3, PTL DEF PageSpec

------------------------------------------------------------------------------------
(* The invites of friends. *)

\* The invites whose entries a queue of signatures is adding; the older come first.
AddsOf(s) == {i \in Invites!Invites : \E n \in 1..Len(s) : s[n] = <<"add", i>>}
Sorted(s) ==
  \A n \in 1..Len(s) : \A m \in 1..Len(s) :
    m < n /\ s[n][1] = "add" /\ s[m][1] = "add" => s[m][2] < s[n][2]
Within(s, k) == \A n \in 1..Len(s) : s[n][2] <= k

\* Nothing is kept, answered, signed or asked about that was not sent.
SentBefore ==
  /\ \A u \in Invites!Friends :
       /\ secret[u] <= invites /\ outgoing[u] <= invites /\ incoming[u] <= invites
       /\ Within(signing[u], invites)
  /\ \A m \in post : m[2] <= invites

\* What u stands by is in order: its own secret is older than what it is adding, and that older
\* than what is out; and the secret goes with the entry.
NewestLast(u) ==
  /\ u \notin listed => secret[u] = 0
  /\ Sorted(signing[u])
  /\ outgoing[u] # 0 => \A j \in AddsOf(signing[u]) : j < outgoing[u]
  /\ Invites!Own(u) => \A j \in Invites!UnderWay(u) : secret[u] < j

\* Two invites that are under way at once have crossed.
Crossing ==
  \A u \in Invites!Friends :
    \A i \in Invites!UnderWay(u), j \in Invites!UnderWay(Invites!Other(u)) :
      {i, j} \subseteq crossed

\* Invite i is accepted: the answer is on its way, or has arrived.
IsAccepted(i) ==
  \/ outgoing[author[i]] = i /\ <<"yes", i>> \in post
  \/ i \in AddsOf(signing[author[i]])
  \/ secret[author[i]] = i

\* Where invite i is accepted, the invitee may have secret s: that one or none, or one of a newer
\* invite under way, or of its own that was not kept or crossed i, or of one that was given up; or
\* i was given up or not kept.
Kept(i, s) ==
  \/ s \in {0, i} \cup dropped \/ i \in dropped \cup unkept
  \/ author[s] = author[i] /\ s > i /\ s \in Invites!UnderWay(author[i])
  \/ author[s] # author[i] /\ (s \in unkept \/ {i, s} \subseteq crossed)

AcceptedIsKept ==
  \A i \in Invites!Invites : IsAccepted(i) => Kept(i, secret[Invites!Invitee(i)])

\* Where each has a secret of the other's, one of the two was given up or is under way.
NoneSwapped ==
  \A u \in Invites!Friends :
    LET v == Invites!Other(u) IN
      secret[u] # 0 /\ ~Invites!Own(u) /\ secret[v] # 0 /\ ~Invites!Own(v) =>
        \/ secret[u] \in dropped \cup Invites!UnderWay(v)
        \/ secret[v] \in dropped \cup Invites!UnderWay(u)

\* OneRoom with what makes it inductive.
InviteInv ==
  /\ Invites!TypeOK /\ SentBefore /\ (\A u \in Invites!Friends : NewestLast(u))
  /\ Crossing /\ AcceptedIsKept /\ NoneSwapped

\* The types, and the constants.
LEMMA InviteTypes ==
  ASSUME InviteInv
  PROVE  /\ InviteMax \in Nat /\ TaskMax \in Nat /\ ChangeMax \in Nat
         /\ Invites!Invites = 1..InviteMax /\ Invites!Invites \subseteq Nat \ {0}
         /\ Invites!Invites \subseteq 0..InviteMax /\ 0 \in 0..InviteMax
         /\ listed \subseteq Invites!Friends
         /\ secret \in [Invites!Friends -> 0..InviteMax]
         /\ outgoing \in [Invites!Friends -> 0..InviteMax]
         /\ incoming \in [Invites!Friends -> 0..InviteMax]
         /\ inviting \subseteq Invites!Friends
         /\ signing \in [Invites!Friends -> Seq(Invites!Tasks)]
         /\ post \subseteq {"invite", "yes", "no"} \X Invites!Invites
         /\ invites \in 0..InviteMax /\ invites \in Nat
         /\ author \in [Invites!Invites -> Invites!Friends] /\ changes \in 0..ChangeMax
         /\ dropped \subseteq Invites!Invites /\ unkept \subseteq Invites!Invites
         /\ crossed \subseteq Invites!Invites
  <1>1. InviteMax \in Nat /\ TaskMax \in Nat /\ ChangeMax \in Nat
    BY PageAssumption DEF Invites!InviteAssumption
  <1>2. Invites!TypeOK
    BY DEF InviteInv
  <1>3. /\ secret \in [Invites!Friends -> 0..InviteMax]
        /\ outgoing \in [Invites!Friends -> 0..InviteMax]
        /\ incoming \in [Invites!Friends -> 0..InviteMax]
    BY <1>2 DEF Invites!TypeOK
  <1>4. /\ Invites!Invites = 1..InviteMax /\ Invites!Invites \subseteq Nat \ {0}
        /\ Invites!Invites \subseteq 0..InviteMax /\ 0 \in 0..InviteMax
        /\ 0..InviteMax \subseteq Nat
    BY <1>1 DEF Invites!Invites
  <1>5. invites \in 0..InviteMax /\ invites \in Nat
    BY <1>2, <1>4 DEF Invites!TypeOK
  <1> QED
    BY <1>1, <1>2, <1>3, <1>4, <1>5 DEF Invites!TypeOK

\* There are two users.
LEMMA TwoFriends ==
  /\ First \in Invites!Friends /\ Second \in Invites!Friends
  /\ \A u \in Invites!Friends :
       /\ Invites!Other(u) \in Invites!Friends /\ Invites!Other(u) # u
       /\ Invites!Other(Invites!Other(u)) = u
       /\ \A v \in Invites!Friends : v = u \/ v = Invites!Other(u)
  BY PageAssumption DEF Invites!InviteAssumption, Invites!Friends, Invites!Other

\* An invite has an author and another who is invited.
LEMMA Parties ==
  ASSUME InviteInv, NEW i \in Invites!Invites
  PROVE  /\ author[i] \in Invites!Friends /\ Invites!Invitee(i) \in Invites!Friends
         /\ Invites!Invitee(i) = Invites!Other(author[i]) /\ author[i] # Invites!Invitee(i)
         /\ author[i] = Invites!Other(Invites!Invitee(i))
         /\ \A u \in Invites!Friends : u = author[i] \/ u = Invites!Invitee(i)
  BY InviteTypes, TwoFriends DEF Invites!Invitee

\* What is under way: what is being added, and what is out.
LEMMA UnderWayIs ==
  ASSUME NEW u
  PROVE  /\ Invites!UnderWay(u) =
              AddsOf(signing[u]) \cup {i \in Invites!Invites : outgoing[u] = i}
         /\ Invites!UnderWay(u)' =
              AddsOf(signing'[u]) \cup {i \in Invites!Invites : outgoing'[u] = i}
  BY DEF Invites!UnderWay, Invites!Contains, AddsOf

\* A signature is begun at the end of the queue, and ready at its head.
LEMMA Queues ==
  ASSUME NEW S, NEW s \in Seq(S), NEW b
  PROVE  /\ s # <<>> =>
              /\ Tail(s) \in Seq(S) /\ Head(s) \in S /\ Head(s) = s[1] /\ Len(Tail(s)) = Len(s) - 1
              /\ \A n \in 1..Len(Tail(s)) : Tail(s)[n] = s[n + 1] /\ n + 1 \in 1..Len(s)
              /\ \A n \in 1..Len(s) : n = 1 \/ (n - 1 \in 1..Len(Tail(s)) /\ Tail(s)[n - 1] = s[n])
              /\ 1 \in 1..Len(s)
         /\ b \in S =>
              /\ Append(s, b) \in Seq(S) /\ Len(Append(s, b)) = Len(s) + 1
              /\ \A n \in 1..Len(Append(s, b)) :
                   Append(s, b)[n] = IF n = Len(s) + 1 THEN b ELSE s[n]
         /\ Len(s) \in Nat /\ \A n \in 1..Len(s) : s[n] \in S
  OBVIOUS

\* Nothing is added by an empty queue.
LEMMA NoQueue ==
  /\ AddsOf(<<>>) = {} /\ Sorted(<<>>) /\ \A k \in Nat : Within(<<>>, k)
  /\ <<>> \in Seq(Invites!Tasks)
  BY DEF AddsOf, Sorted, Within

\* The head of a queue is taken: what is added next is newer.
LEMMA Retired ==
  ASSUME NEW s \in Seq(Invites!Tasks), s # <<>>, NEW k \in Nat, Sorted(s), Within(s, k)
  PROVE  /\ Tail(s) \in Seq(Invites!Tasks) /\ Sorted(Tail(s)) /\ Within(Tail(s), k)
         /\ AddsOf(Tail(s)) \subseteq AddsOf(s)
         /\ \A j \in AddsOf(s) : j \in AddsOf(Tail(s)) \/ Head(s) = <<"add", j>>
         /\ \A i \in Invites!Invites : Head(s) = <<"add", i>> =>
              i \in AddsOf(s) /\ \A j \in AddsOf(Tail(s)) : i < j
         /\ Head(s)[2] <= k
  <1> DEFINE t == Tail(s)
             S == Invites!Tasks
  <1>1. /\ t \in Seq(S) /\ Head(s) \in S /\ Head(s) = s[1] /\ 1 \in 1..Len(s)
        /\ \A n \in 1..Len(t) : t[n] = s[n + 1] /\ n + 1 \in 1..Len(s)
        /\ \A n \in 1..Len(s) : n = 1 \/ (n - 1 \in 1..Len(t) /\ t[n - 1] = s[n])
        /\ Len(s) \in Nat /\ Len(t) \in Nat
    <2>1. s \in Seq(S)
      OBVIOUS
    <2> HIDE DEF S
    <2> QED
      BY <2>1, Queues
  <1> HIDE DEF t, S
  <1>2. Sorted(t)
    <2> SUFFICES ASSUME NEW n \in 1..Len(t), NEW m \in 1..Len(t), m < n,
                        t[n][1] = "add", t[m][1] = "add"
                 PROVE  t[m][2] < t[n][2]
      BY DEF Sorted
    <2>1. m + 1 < n + 1 /\ n + 1 \in 1..Len(s) /\ m + 1 \in 1..Len(s)
      BY <1>1
    <2>2. t[n] = s[n + 1] /\ t[m] = s[m + 1]
      BY <1>1
    <2> QED
      BY <2>1, <2>2 DEF Sorted
  <1>3. Within(t, k)
    BY <1>1 DEF Within
  <1>4. AddsOf(t) \subseteq AddsOf(s)
    BY <1>1 DEF AddsOf
  <1>5. ASSUME NEW j \in AddsOf(s) PROVE j \in AddsOf(t) \/ Head(s) = <<"add", j>>
    <2>1. PICK n \in 1..Len(s) : s[n] = <<"add", j>>
      BY DEF AddsOf
    <2>2. j \in Invites!Invites
      BY DEF AddsOf
    <2>3. CASE n = 1
      BY <1>1, <2>1, <2>3
    <2>4. CASE n # 1
      <3>1. n - 1 \in 1..Len(t) /\ t[n - 1] = <<"add", j>>
        BY <1>1, <2>1, <2>4
      <3> QED
        BY <2>2, <3>1 DEF AddsOf
    <2> QED
      BY <2>3, <2>4
  <1>6. ASSUME NEW i \in Invites!Invites, Head(s) = <<"add", i>>
        PROVE  i \in AddsOf(s) /\ \A j \in AddsOf(t) : i < j
    <2>1. s[1] = <<"add", i>> /\ s[1][1] = "add" /\ s[1][2] = i
      BY <1>1, <1>6
    <2>2. i \in AddsOf(s)
      BY <1>1, <2>1 DEF AddsOf
    <2>3. ASSUME NEW j \in AddsOf(t) PROVE i < j
      <3>1. PICK n \in 1..Len(t) : t[n] = <<"add", j>>
        BY DEF AddsOf
      <3>2. n + 1 \in 1..Len(s) /\ s[n + 1][1] = "add" /\ s[n + 1][2] = j /\ 1 < n + 1
        BY <1>1, <3>1
      <3> QED
        BY <1>1, <2>1, <3>2 DEF Sorted
    <2> QED
      BY <2>2, <2>3
  <1>7. Head(s)[2] <= k
    BY <1>1 DEF Within
  <1> QED
    BY <1>1, <1>2, <1>3, <1>4, <1>5, <1>6, <1>7 DEF t, S

\* A signature is begun: an entry is added after the older ones.
LEMMA Queued ==
  ASSUME NEW s \in Seq(Invites!Tasks), NEW k \in Nat, Sorted(s), Within(s, k),
         NEW task \in {"auto", "accept", "join", "add"}, NEW i \in Invites!Invites, i <= k,
         task = "add" => \A j \in AddsOf(s) : j < i
  PROVE  LET a == Append(s, <<task, i>>) IN
           /\ a \in Seq(Invites!Tasks) /\ Sorted(a) /\ Within(a, k)
           /\ AddsOf(a) = IF task = "add" THEN AddsOf(s) \cup {i} ELSE AddsOf(s)
  <1> DEFINE b == <<task, i>>
             a == Append(s, b)
             S == Invites!Tasks
  <1>0. b \in S /\ b[1] = task /\ b[2] = i
    BY DEF Invites!Tasks
  <1>b. \A j : b = <<"add", j>> <=> task = "add" /\ i = j
    OBVIOUS
  <1> HIDE DEF b
  <1>1. /\ a \in Seq(S) /\ Len(a) = Len(s) + 1 /\ Len(s) \in Nat
        /\ \A n \in 1..Len(a) : a[n] = IF n = Len(s) + 1 THEN b ELSE s[n]
        /\ \A n \in 1..Len(s) : s[n] \in S
    <2>1. s \in Seq(S)
      OBVIOUS
    <2> HIDE DEF S
    <2> QED
      BY <1>0, <2>1, Queues
  <1> HIDE DEF a, S
  <1>2. Within(a, k)
    <2> SUFFICES ASSUME NEW n \in 1..Len(a) PROVE a[n][2] <= k
      BY DEF Within
    <2>1. CASE n = Len(s) + 1
      BY <1>0, <1>1, <2>1
    <2>2. CASE n # Len(s) + 1
      <3>1. n \in 1..Len(s) /\ a[n] = s[n]
        BY <1>1, <2>2
      <3> QED
        BY <3>1 DEF Within
    <2> QED
      BY <2>1, <2>2
  <1>3. Sorted(a)
    <2> SUFFICES ASSUME NEW n \in 1..Len(a), NEW m \in 1..Len(a), m < n,
                        a[n][1] = "add", a[m][1] = "add"
                 PROVE  a[m][2] < a[n][2]
      BY DEF Sorted
    <2>1. m \in 1..Len(s) /\ a[m] = s[m]
      BY <1>1
    <2>2. CASE n = Len(s) + 1
      <3>1. a[n][2] = i /\ task = "add"
        BY <1>0, <1>1, <2>2
      <3>2. s[m] \in S /\ s[m][1] = "add"
        BY <1>1, <2>1
      <3>3. s[m][2] \in Invites!Invites /\ s[m] = <<"add", s[m][2]>>
        BY <3>2 DEF S, Invites!Tasks
      <3>4. s[m][2] \in AddsOf(s)
        BY <2>1, <3>3 DEF AddsOf
      <3> QED
        BY <2>1, <3>1, <3>4
    <2>3. CASE n # Len(s) + 1
      <3>1. n \in 1..Len(s) /\ a[n] = s[n]
        BY <1>1, <2>3
      <3> QED
        BY <2>1, <3>1 DEF Sorted
    <2> QED
      BY <2>2, <2>3
  <1>4. ASSUME NEW j \in AddsOf(a) PROVE j \in AddsOf(s) \/ (task = "add" /\ j = i)
    <2>1. PICK n \in 1..Len(a) : a[n] = <<"add", j>>
      BY DEF AddsOf
    <2>2. j \in Invites!Invites
      BY DEF AddsOf
    <2>3. CASE n = Len(s) + 1
      BY <1>1, <1>b, <2>1, <2>3
    <2>4. CASE n # Len(s) + 1
      <3>1. n \in 1..Len(s) /\ s[n] = <<"add", j>>
        BY <1>1, <2>1, <2>4
      <3> QED
        BY <2>2, <3>1 DEF AddsOf
    <2> QED
      BY <2>3, <2>4
  <1>5. AddsOf(s) \subseteq AddsOf(a)
    <2> SUFFICES ASSUME NEW j \in AddsOf(s) PROVE j \in AddsOf(a)
      OBVIOUS
    <2>1. PICK n \in 1..Len(s) : s[n] = <<"add", j>>
      BY DEF AddsOf
    <2>2. n \in 1..Len(a) /\ a[n] = s[n] /\ j \in Invites!Invites
      BY <1>1 DEF AddsOf
    <2> QED
      BY <2>1, <2>2 DEF AddsOf
  <1>6. task = "add" => i \in AddsOf(a)
    <2>1. Len(s) + 1 \in 1..Len(a) /\ a[Len(s) + 1] = b
      BY <1>1
    <2> QED
      BY <1>b, <2>1 DEF AddsOf
  <1>7. AddsOf(a) = IF task = "add" THEN AddsOf(s) \cup {i} ELSE AddsOf(s)
    BY <1>4, <1>5, <1>6
  <1> QED
    BY <1>1, <1>2, <1>3, <1>7 DEF a, b, S

\* It says that friends who settled share a room.
LEMMA SettledShareARoom == InviteInv => OneRoom
  <1> SUFFICES ASSUME InviteInv, Invites!Settled,
                      \A u \in Invites!Friends : u \in listed /\ secret[u] # 0,
                      secret[First] # secret[Second],
                      \A u \in Invites!Friends :
                        secret[u] \notin dropped /\ ~(Invites!Own(u) /\ secret[u] \in unkept)
               PROVE  \A u \in Invites!Friends : Invites!Own(u) /\ secret[u] \in crossed
    BY DEF OneRoom, Invites!OneRoom, InviteInv
  <1>1. ASSUME NEW u \in Invites!Friends PROVE Invites!UnderWay(u) = {}
    <2>1. outgoing[u] = 0 /\ signing[u] = <<>>
      BY DEF Invites!Settled
    <2>2. AddsOf(signing[u]) = {}
      BY <2>1, NoQueue
    <2>3. 0 \notin Invites!Invites
      BY InviteTypes
    <2> QED
      BY <2>1, <2>2, <2>3, UnderWayIs
  <1>2. ASSUME NEW u \in Invites!Friends, Invites!Own(u)
        PROVE  LET v == Invites!Other(u) IN
                 Invites!Own(v) /\ secret[u] \in crossed /\ secret[v] \in crossed
    <2> DEFINE v == Invites!Other(u)
               i == secret[u]
               s == secret[v]
    <2>0. v \in Invites!Friends /\ v # u
      BY TwoFriends
    <2>1. i \in Invites!Invites /\ author[i] = u /\ i \notin dropped \cup unkept
      <3>1. i \in Invites!Invites
        BY InviteTypes
      <3> QED
        BY <1>2, <3>1 DEF Invites!Own
    <2>2. s \in Invites!Invites /\ s # 0 /\ s \notin dropped /\ s # i
      <3>1. s \in Invites!Invites
        BY <2>0, InviteTypes
      <3>2. (u = First /\ v = Second) \/ (u = Second /\ v = First)
        BY <2>0 DEF Invites!Friends
      <3> QED
        BY <2>0, <3>1, <3>2
    <2>3. Kept(i, s)
      <3>1. IsAccepted(i) /\ Invites!Invitee(i) = v
        BY <2>1 DEF IsAccepted, Invites!Invitee
      <3> QED
        BY <2>1, <3>1 DEF InviteInv, AcceptedIsKept
    <2>4. author[s] # author[i] /\ (s \in unkept \/ {i, s} \subseteq crossed)
      BY <1>1, <2>1, <2>2, <2>3 DEF Kept
    <2>5. author[s] = v
      <3>1. author[s] \in Invites!Friends
        BY <2>2, InviteTypes
      <3> QED
        BY <2>1, <2>4, <3>1, TwoFriends
    <2>6. Invites!Own(v)
      BY <2>2, <2>5 DEF Invites!Own
    <2>7. s \notin unkept
      BY <2>0, <2>6
    <2> QED
      BY <2>4, <2>6, <2>7
  <1>3. \E u \in Invites!Friends : Invites!Own(u)
    <2>1. First \in Invites!Friends /\ Invites!Other(First) \in Invites!Friends
      BY TwoFriends
    <2> QED
      BY <1>1, <2>1 DEF InviteInv, NoneSwapped
  <1>4. PICK u \in Invites!Friends : Invites!Own(u)
    BY <1>3
  <1>5. /\ Invites!Own(Invites!Other(u)) /\ secret[u] \in crossed
        /\ secret[Invites!Other(u)] \in crossed
    BY <1>2, <1>4
  <1> QED
    BY <1>4, <1>5, TwoFriends

\* It holds in the beginning.
LEMMA InviteInvBegins == Invites!Init => InviteInv
  <1> SUFFICES ASSUME Invites!Init PROVE InviteInv
    OBVIOUS
  <1>0. InviteMax \in Nat /\ ChangeMax \in Nat
    BY PageAssumption DEF Invites!InviteAssumption
  <1>1. /\ listed = {} /\ inviting = {} /\ post = {} /\ invites = 0 /\ changes = 0
        /\ secret = [u \in Invites!Friends |-> 0] /\ outgoing = [u \in Invites!Friends |-> 0]
        /\ incoming = [u \in Invites!Friends |-> 0]
        /\ signing = [u \in Invites!Friends |-> <<>>]
        /\ author \in [Invites!Invites -> Invites!Friends]
        /\ dropped = {} /\ unkept = {} /\ crossed = {}
    BY DEF Invites!Init
  <1>2. Invites!TypeOK
    <2>1. 0 \in 0..InviteMax /\ 0 \in 0..ChangeMax
      BY <1>0
    <2>2. {secret, outgoing, incoming} \subseteq [Invites!Friends -> 0..InviteMax]
      BY <1>1, <2>1
    <2>3. signing \in [Invites!Friends -> Seq(Invites!Tasks)]
      BY <1>1, NoQueue
    <2> QED
      BY <1>1, <2>1, <2>2, <2>3 DEF Invites!TypeOK
  <1>3. /\ \A u \in Invites!Friends : /\ secret[u] = 0 /\ outgoing[u] = 0 /\ incoming[u] = 0
                                      /\ signing[u] = <<>>
        /\ Invites!Invites \subseteq Nat \ {0}
    BY <1>0, <1>1 DEF Invites!Invites
  <1>4. \A u \in Invites!Friends : Invites!UnderWay(u) = {}
    BY <1>3, UnderWayIs, NoQueue
  <1>5. SentBefore
    BY <1>1, <1>3, NoQueue DEF SentBefore
  <1>6. \A u \in Invites!Friends : NewestLast(u)
    BY <1>3, <1>4, NoQueue DEF NewestLast
  <1>7. Crossing /\ NoneSwapped
    BY <1>3, <1>4 DEF Crossing, NoneSwapped
  <1>8. AcceptedIsKept
    <2>1. ASSUME NEW i \in Invites!Invites PROVE Kept(i, secret[Invites!Invitee(i)])
      <3>1. Invites!Invitee(i) \in Invites!Friends
        BY <1>1, TwoFriends DEF Invites!Invitee
      <3> QED
        BY <1>3, <3>1 DEF Kept
    <2> QED
      BY <2>1 DEF AcceptedIsKept
  <1> QED
    BY <1>2, <1>5, <1>6, <1>7, <1>8 DEF InviteInv

\* The step takes up no secret: what is no longer under way was given up, and what is accepted was
\* accepted, or is not kept.
LEMMA NothingTaken ==
  ASSUME InviteInv, author' = author, dropped \subseteq dropped', unkept \subseteq unkept',
         crossed \subseteq crossed',
         \A u \in Invites!Friends : secret'[u] = secret[u] \/ secret'[u] = 0,
         \A u \in Invites!Friends : \A j \in Invites!UnderWay(u) :
           j \in Invites!UnderWay(u)' \/ j \in dropped',
         \A i \in Invites!Invites : IsAccepted(i)' =>
           IsAccepted(i) \/ i \in unkept' \/ secret'[Invites!Invitee(i)] = 0
  PROVE  AcceptedIsKept' /\ NoneSwapped'
  <1>1. ASSUME NEW i \in Invites!Invites, IsAccepted(i)'
        PROVE  Kept(i, secret[Invites!Invitee(i)])'
    <2> DEFINE b == Invites!Invitee(i)
    <2>0. b \in Invites!Friends /\ author[i] \in Invites!Friends /\ b' = b
      BY Parties DEF Invites!Invitee
    <2>1. CASE secret'[b] = 0 \/ i \in unkept'
      BY <2>0, <2>1 DEF Kept
    <2>2. CASE IsAccepted(i) /\ secret'[b] = secret[b]
      <3>1. Kept(i, secret[b])
        BY <2>2 DEF InviteInv, AcceptedIsKept
      <3>2. PICK s : s = secret[b]
        OBVIOUS
      <3>3. PICK a \in Invites!Friends : a = author[i]
        BY <2>0
      <3>4. s \in Invites!UnderWay(a) => s \in Invites!UnderWay(a)' \/ s \in dropped'
        OBVIOUS
      <3>5. Kept(i, s)
        BY <3>1, <3>2
      <3>6. \/ s \in {0, i} \cup dropped' \/ i \in dropped' \cup unkept'
            \/ author[s] = a /\ s > i /\ s \in Invites!UnderWay(a)'
            \/ author[s] # a /\ (s \in unkept' \/ {i, s} \subseteq crossed')
        BY <3>3, <3>4, <3>5 DEF Kept
      <3>7. secret'[b'] = s /\ author'[i] = a /\ author' = author
        BY <2>0, <2>2, <3>2, <3>3
      <3> QED
        BY <3>6, <3>7 DEF Kept, Invites!UnderWay
    <2> QED
      BY <1>1, <2>0, <2>1, <2>2
  <1>2. AcceptedIsKept'
    BY <1>1 DEF AcceptedIsKept
  <1>3. ASSUME NEW u \in Invites!Friends, secret'[u] # 0, ~Invites!Own(u)',
               secret'[Invites!Other(u)] # 0, ~Invites!Own(Invites!Other(u))'
        PROVE  \/ secret'[u] \in dropped' \cup Invites!UnderWay(Invites!Other(u))'
               \/ secret'[Invites!Other(u)] \in dropped' \cup Invites!UnderWay(u)'
    <2> DEFINE v == Invites!Other(u)
    <2>0. v \in Invites!Friends
      BY TwoFriends
    <2>1. secret'[u] = secret[u] /\ secret'[v] = secret[v]
      BY <1>3, <2>0
    <2>2. ~Invites!Own(u) /\ ~Invites!Own(v)
      BY <1>3, <2>1 DEF Invites!Own
    <2>3. \/ secret[u] \in dropped \cup Invites!UnderWay(v)
          \/ secret[v] \in dropped \cup Invites!UnderWay(u)
      BY <1>3, <2>1, <2>2 DEF InviteInv, NoneSwapped
    <2> QED
      BY <2>0, <2>1, <2>3
  <1>4. NoneSwapped'
    BY <1>3 DEF NoneSwapped
  <1> QED
    BY <1>2, <1>4

\* What is under way is so still, or no longer.
LEMMA CrossingStays ==
  ASSUME InviteInv, crossed \subseteq crossed',
         \A u \in Invites!Friends : Invites!UnderWay(u)' \subseteq Invites!UnderWay(u)
  PROVE  Crossing'
  <1> SUFFICES ASSUME NEW u \in Invites!Friends, NEW i \in Invites!UnderWay(u)',
                      NEW j \in Invites!UnderWay(Invites!Other(u))'
               PROVE  {i, j} \subseteq crossed'
    BY DEF Crossing
  <1>1. Invites!Other(u) \in Invites!Friends
    BY TwoFriends
  <1>2. i \in Invites!UnderWay(u) /\ j \in Invites!UnderWay(Invites!Other(u))
    BY <1>1
  <1> QED
    BY <1>2 DEF InviteInv, Crossing

\* A step that begins or ends no entry of an author's own, and makes no invite.
LEMMA QuietKeeps ==
  ASSUME InviteInv, author' = author, invites' = invites, inviting' \subseteq Invites!Friends,
         changes' \in 0..ChangeMax, listed' \subseteq Invites!Friends,
         secret' \in [Invites!Friends -> 0..InviteMax],
         outgoing' \in [Invites!Friends -> 0..InviteMax],
         incoming' \in [Invites!Friends -> 0..InviteMax],
         signing' \in [Invites!Friends -> Seq(Invites!Tasks)],
         \A u \in Invites!Friends :
           /\ secret'[u] = secret[u] \/ secret'[u] = 0
           /\ u \notin listed' => secret'[u] = 0
           /\ outgoing'[u] = outgoing[u] \/ (outgoing'[u] = 0 /\ outgoing[u] \in dropped')
           /\ incoming'[u] <= invites
           /\ Sorted(signing'[u]) /\ Within(signing'[u], invites)
           /\ AddsOf(signing'[u]) \subseteq AddsOf(signing[u])
           /\ AddsOf(signing[u]) \subseteq AddsOf(signing'[u]) \cup dropped',
         post' \subseteq {"invite", "yes", "no"} \X Invites!Invites,
         \A m \in post' : m[2] <= invites,
         dropped \subseteq dropped', dropped' \subseteq Invites!Invites,
         unkept \subseteq unkept', unkept' \subseteq Invites!Invites, crossed' = crossed,
         \A i \in Invites!Invites : <<"yes", i>> \in post' =>
           <<"yes", i>> \in post \/ i \in unkept' \/ secret'[Invites!Invitee(i)] = 0
  PROVE  InviteInv'
  <1>1. Invites!TypeOK'
    <2>1. {secret', outgoing', incoming'} \subseteq [Invites!Friends -> 0..InviteMax]
      OBVIOUS
    <2>2. crossed' \subseteq Invites!Invites /\ invites' \in 0..InviteMax
          /\ author' \in [Invites!Invites -> Invites!Friends]
      BY InviteTypes
    <2> QED
      BY <2>1, <2>2 DEF Invites!TypeOK
  <1>n. /\ \A u \in Invites!Friends : secret[u] <= invites /\ outgoing[u] <= invites
        /\ invites \in Nat /\ 0 \notin Invites!Invites
    BY InviteTypes DEF InviteInv, SentBefore
  <1>2. SentBefore'
    <2>1. ASSUME NEW u \in Invites!Friends
          PROVE  secret'[u] <= invites /\ outgoing'[u] <= invites
      <3>1. 0 <= invites /\ secret[u] <= invites /\ outgoing[u] <= invites
        BY <1>n
      <3>2. secret'[u] = secret[u] \/ secret'[u] = 0
        OBVIOUS
      <3>3. outgoing'[u] = outgoing[u] \/ outgoing'[u] = 0
        OBVIOUS
      <3> QED
        BY <3>1, <3>2, <3>3
    <2> QED
      BY <2>1 DEF SentBefore
  <1>3. ASSUME NEW u \in Invites!Friends
        PROVE  /\ Invites!UnderWay(u)' \subseteq Invites!UnderWay(u)
               /\ \A j \in Invites!UnderWay(u) : j \in Invites!UnderWay(u)' \/ j \in dropped'
    <2>0. /\ outgoing'[u] = outgoing[u] \/ (outgoing'[u] = 0 /\ outgoing[u] \in dropped')
          /\ AddsOf(signing'[u]) \subseteq AddsOf(signing[u])
          /\ AddsOf(signing[u]) \subseteq AddsOf(signing'[u]) \cup dropped'
      OBVIOUS
    <2>a. /\ Invites!UnderWay(u) =
               AddsOf(signing[u]) \cup {i \in Invites!Invites : outgoing[u] = i}
          /\ Invites!UnderWay(u)' =
               AddsOf(signing'[u]) \cup {i \in Invites!Invites : outgoing'[u] = i}
      BY UnderWayIs
    <2>1. Invites!UnderWay(u)' \subseteq Invites!UnderWay(u)
      BY <1>n, <2>0, <2>a
    <2>2. ASSUME NEW j \in Invites!UnderWay(u) PROVE j \in Invites!UnderWay(u)' \/ j \in dropped'
      BY <1>n, <2>0, <2>a
    <2> QED
      BY <2>1, <2>2
  <1>4. ASSUME NEW u \in Invites!Friends PROVE NewestLast(u)'
    <2>0. NewestLast(u)
      BY DEF InviteInv
    <2>1. outgoing'[u] # 0 => \A j \in AddsOf(signing'[u]) : j < outgoing'[u]
      BY <2>0 DEF NewestLast
    <2>2. Invites!Own(u)' => Invites!Own(u) /\ secret'[u] = secret[u]
      BY DEF Invites!Own
    <2>3. Invites!Own(u)' => \A j \in Invites!UnderWay(u)' : secret'[u] < j
      BY <1>3, <2>0, <2>2 DEF NewestLast
    <2> QED
      BY <2>1, <2>3 DEF NewestLast
  <1>5. Crossing'
    BY <1>3, CrossingStays
  <1>6. ASSUME NEW i \in Invites!Invites, IsAccepted(i)'
        PROVE  IsAccepted(i) \/ i \in unkept' \/ secret'[Invites!Invitee(i)] = 0
    <2>1. author[i] \in Invites!Friends /\ i # 0
      BY <1>n, Parties
    <2> QED
      BY <1>6, <2>1 DEF IsAccepted
  <1>7. AcceptedIsKept' /\ NoneSwapped'
    BY <1>3, <1>6, NothingTaken
  <1> QED
    BY <1>1, <1>2, <1>4, <1>5, <1>7 DEF InviteInv

\* What a user has and has under way.
LEMMA InviteNow ==
  ASSUME InviteInv, NEW u \in Invites!Friends
  PROVE  /\ signing[u] \in Seq(Invites!Tasks) /\ Sorted(signing[u]) /\ Within(signing[u], invites)
         /\ secret[u] \in 0..InviteMax /\ secret[u] <= invites
         /\ outgoing[u] \in 0..InviteMax /\ outgoing[u] <= invites
         /\ incoming[u] \in 0..InviteMax /\ incoming[u] <= invites
         /\ u \notin listed => secret[u] = 0
         /\ outgoing[u] # 0 => outgoing[u] \in Invites!Invites
         /\ incoming[u] # 0 => incoming[u] \in Invites!Invites
         /\ outgoing[u] # 0 => \A j \in AddsOf(signing[u]) : j < outgoing[u]
  <1>1. /\ signing[u] \in Seq(Invites!Tasks) /\ secret[u] \in 0..InviteMax
        /\ outgoing[u] \in 0..InviteMax /\ incoming[u] \in 0..InviteMax
    BY InviteTypes
  <1>2. /\ outgoing[u] # 0 => outgoing[u] \in Invites!Invites
        /\ incoming[u] # 0 => incoming[u] \in Invites!Invites
    BY <1>1, InviteTypes
  <1> QED
    BY <1>1, <1>2 DEF InviteInv, SentBefore, NewestLast

\* A signature that is not of an author's entry is begun.
LEMMA OtherTask ==
  ASSUME InviteInv, NEW v \in Invites!Friends, NEW j \in Invites!Invites, j <= invites,
         NEW task \in {"auto", "accept", "join"},
         signing' = [signing EXCEPT ![v] = Append(@, <<task, j>>)]
  PROVE  /\ signing' \in [Invites!Friends -> Seq(Invites!Tasks)]
         /\ \A w \in Invites!Friends :
              /\ Sorted(signing'[w]) /\ Within(signing'[w], invites)
              /\ AddsOf(signing'[w]) = AddsOf(signing[w])
  <1> DEFINE a == Append(signing[v], <<task, j>>)
  <1>1. a \in Seq(Invites!Tasks) /\ Sorted(a) /\ Within(a, invites)
        /\ AddsOf(a) = AddsOf(signing[v])
    <2>1. signing[v] \in Seq(Invites!Tasks) /\ Sorted(signing[v]) /\ Within(signing[v], invites)
      BY InviteNow
    <2>2. task \in {"auto", "accept", "join", "add"} /\ task # "add" /\ invites \in Nat
      BY InviteTypes
    <2> QED
      BY <2>1, <2>2, Queued
  <1>2. signing' = [signing EXCEPT ![v] = a]
    OBVIOUS
  <1> HIDE DEF a
  <1>3. /\ signing'[v] = a /\ signing' \in [Invites!Friends -> Seq(Invites!Tasks)]
        /\ \A w \in Invites!Friends : w # v => signing'[w] = signing[w]
    <2>1. signing \in [Invites!Friends -> Seq(Invites!Tasks)]
      BY InviteTypes
    <2> QED
      BY <1>1, <1>2, <2>1
  <1>4. ASSUME NEW w \in Invites!Friends
        PROVE  /\ Sorted(signing'[w]) /\ Within(signing'[w], invites)
               /\ AddsOf(signing'[w]) = AddsOf(signing[w])
    <2>1. CASE w = v
      BY <1>1, <1>3, <2>1
    <2>2. CASE w # v
      BY <1>3, <2>2, InviteNow
    <2> QED
      BY <2>1, <2>2
  <1> QED
    BY <1>3, <1>4

\* deliverPendingInvites(), cancelOutgoing(), a refusal, and the first part of inviteByEmail().
LEMMA OutgoingKeeps ==
  ASSUME InviteInv, NEW u \in Invites!Friends, NEW i,
         \/ Invites!BeginInvite(u) \/ Invites!Resend(u) \/ Invites!Withdraw(u)
         \/ i \in Invites!Invites /\ Invites!ReceiveNo(i)
  PROVE  InviteInv'
  <1>1. /\ UNCHANGED <<listed, secret, incoming, signing, invites, author, unkept, crossed>>
        /\ inviting' \subseteq Invites!Friends /\ changes' \in 0..ChangeMax
    BY InviteTypes DEF Invites!BeginInvite, Invites!Resend, Invites!Withdraw, Invites!ReceiveNo,
       Invites!Change
  <1>2. \A m \in post' : m \in post \/ (outgoing[u] # 0 /\ m = <<"invite", outgoing[u]>>)
    BY DEF Invites!BeginInvite, Invites!Resend, Invites!Withdraw, Invites!ReceiveNo,
       Invites!Takes
  <1>3. \/ outgoing' = outgoing /\ dropped' = dropped
        \/ \E v \in Invites!Friends :
             /\ outgoing[v] # 0 /\ outgoing' = [outgoing EXCEPT ![v] = 0]
             /\ dropped' = dropped \cup {outgoing[v]}
    <2>1. CASE Invites!BeginInvite(u) \/ Invites!Resend(u)
      BY <2>1 DEF Invites!BeginInvite, Invites!Resend
    <2>2. CASE Invites!Withdraw(u)
      BY <2>2 DEF Invites!Withdraw
    <2>3. CASE i \in Invites!Invites /\ Invites!ReceiveNo(i)
      <3>1. author[i] \in Invites!Friends /\ i # 0
        BY <2>3, Parties, InviteTypes
      <3> QED
        BY <2>3, <3>1 DEF Invites!ReceiveNo
    <2> QED
      BY <2>1, <2>2, <2>3
  <1>4. /\ outgoing' \in [Invites!Friends -> 0..InviteMax] /\ dropped \subseteq dropped'
        /\ dropped' \subseteq Invites!Invites
        /\ \A v \in Invites!Friends :
             outgoing'[v] = outgoing[v] \/ (outgoing'[v] = 0 /\ outgoing[v] \in dropped')
    <2>1. outgoing \in [Invites!Friends -> 0..InviteMax] /\ 0 \in 0..InviteMax
          /\ dropped \subseteq Invites!Invites
      BY InviteTypes
    <2>2. \A v \in Invites!Friends : outgoing[v] # 0 => outgoing[v] \in Invites!Invites
      BY InviteNow
    <2> QED
      BY <1>3, <2>1, <2>2
  <1>5. /\ post' \subseteq {"invite", "yes", "no"} \X Invites!Invites
        /\ \A m \in post' : m[2] <= invites
    <2>1. ASSUME NEW m \in post'
          PROVE  m \in {"invite", "yes", "no"} \X Invites!Invites /\ m[2] <= invites
      <3>1. CASE m \in post
        BY <3>1, InviteTypes DEF InviteInv, SentBefore
      <3>2. CASE outgoing[u] # 0 /\ m = <<"invite", outgoing[u]>>
        BY <3>2, InviteNow
      <3> QED
        BY <1>2, <2>1, <3>1, <3>2
    <2> QED
      BY <2>1
  <1>6. \A j \in Invites!Invites : <<"yes", j>> \in post' => <<"yes", j>> \in post
    BY <1>2
  <1>7. /\ listed' \subseteq Invites!Friends /\ secret' \in [Invites!Friends -> 0..InviteMax]
        /\ incoming' \in [Invites!Friends -> 0..InviteMax]
        /\ signing' \in [Invites!Friends -> Seq(Invites!Tasks)] /\ unkept' \subseteq Invites!Invites
    BY <1>1, InviteTypes
  <1>8. \A v \in Invites!Friends :
          /\ v \notin listed' => secret'[v] = 0
          /\ incoming'[v] <= invites /\ Sorted(signing'[v]) /\ Within(signing'[v], invites)
    BY <1>1, InviteNow
  <1> QED
    BY <1>1, <1>4, <1>5, <1>6, <1>7, <1>8, QuietKeeps

\* inviteAction.onMessage, acceptInvite() before its answer is sent, declineInvite().
LEMMA AskKeeps ==
  ASSUME InviteInv, NEW u \in Invites!Friends, NEW i \in Invites!Invites,
         Invites!ReceiveInvite(i) \/ Invites!Accept(u) \/ Invites!Decline(u)
  PROVE  InviteInv'
  <1>1. /\ UNCHANGED <<listed, secret, outgoing, invites, inviting, author, dropped, unkept,
                       crossed, changes>>
    BY DEF Invites!ReceiveInvite, Invites!Accept, Invites!Decline
  <1>2. \A m \in post' : m \in post \/ (incoming[u] # 0 /\ m = <<"no", incoming[u]>>)
    BY DEF Invites!ReceiveInvite, Invites!Accept, Invites!Decline, Invites!Takes, Invites!Sends
  <1>3. /\ post' \subseteq {"invite", "yes", "no"} \X Invites!Invites
        /\ \A m \in post' : m[2] <= invites
    <2>1. ASSUME NEW m \in post'
          PROVE  m \in {"invite", "yes", "no"} \X Invites!Invites /\ m[2] <= invites
      <3>1. CASE m \in post
        BY <3>1, InviteTypes DEF InviteInv, SentBefore
      <3>2. CASE incoming[u] # 0 /\ m = <<"no", incoming[u]>>
        BY <3>2, InviteNow
      <3> QED
        BY <1>2, <2>1, <3>1, <3>2
    <2> QED
      BY <2>1
  <1>4. \A j \in Invites!Invites : <<"yes", j>> \in post' => <<"yes", j>> \in post
    BY <1>2
  <1>5. \/ signing' = signing
        \/ \E v \in Invites!Friends, j \in Invites!Invites, task \in {"auto", "accept"} :
             /\ j <= invites
             /\ signing' = [signing EXCEPT ![v] = Append(@, <<task, j>>)]
    <2>1. CASE Invites!ReceiveInvite(i)
      <3>1. Invites!Invitee(i) \in Invites!Friends
        BY Parties
      <3>2. <<"invite", i>> \in post
        BY <2>1 DEF Invites!ReceiveInvite, Invites!Takes
      <3>3. i <= invites
        <4>1. <<"invite", i>>[2] <= invites
          BY <3>2 DEF InviteInv, SentBefore
        <4> QED
          BY <4>1
      <3> QED
        BY <2>1, <3>1, <3>3 DEF Invites!ReceiveInvite, Invites!Begins
    <2>2. CASE Invites!Accept(u)
      <3>1. incoming[u] \in Invites!Invites /\ incoming[u] <= invites
        BY <2>2, InviteNow DEF Invites!Accept
      <3> QED
        BY <2>2, <3>1 DEF Invites!Accept, Invites!Begins
    <2>3. CASE Invites!Decline(u)
      BY <2>3 DEF Invites!Decline
    <2> QED
      BY <2>1, <2>2, <2>3
  <1>6. \/ incoming' = incoming \/ incoming' = [incoming EXCEPT ![u] = 0]
        \/ /\ <<"invite", i>> \in post
           /\ incoming' = [incoming EXCEPT ![Invites!Invitee(i)] = i]
    BY DEF Invites!ReceiveInvite, Invites!Accept, Invites!Decline, Invites!Takes
  <1>7. /\ signing' \in [Invites!Friends -> Seq(Invites!Tasks)]
        /\ \A v \in Invites!Friends :
             /\ Sorted(signing'[v]) /\ Within(signing'[v], invites)
             /\ AddsOf(signing'[v]) = AddsOf(signing[v])
    <2>1. CASE signing' = signing
      BY <2>1, InviteNow, InviteTypes
    <2>2. ASSUME NEW v \in Invites!Friends, NEW j \in Invites!Invites,
                 NEW task \in {"auto", "accept"}, j <= invites,
                 signing' = [signing EXCEPT ![v] = Append(@, <<task, j>>)]
          PROVE  /\ signing' \in [Invites!Friends -> Seq(Invites!Tasks)]
                 /\ \A w \in Invites!Friends :
                      /\ Sorted(signing'[w]) /\ Within(signing'[w], invites)
                      /\ AddsOf(signing'[w]) = AddsOf(signing[w])
      BY <2>2, OtherTask
    <2> QED
      BY <1>5, <2>1, <2>2
  <1>8. /\ incoming' \in [Invites!Friends -> 0..InviteMax]
        /\ \A v \in Invites!Friends : incoming'[v] <= invites
    <2>1. <<"invite", i>> \in post => i <= invites
      <3>1. <<"invite", i>> \in post => <<"invite", i>>[2] <= invites
        BY DEF InviteInv, SentBefore
      <3> QED
        BY <3>1
    <2>2. i \in 0..InviteMax /\ 0 \in 0..InviteMax /\ invites \in Nat
          /\ incoming \in [Invites!Friends -> 0..InviteMax]
      BY InviteTypes
    <2>3. \A v \in Invites!Friends : incoming[v] <= invites
      BY InviteNow
    <2> QED
      BY <1>6, <2>1, <2>2, <2>3
  <1>9. /\ listed' \subseteq Invites!Friends /\ secret' \in [Invites!Friends -> 0..InviteMax]
        /\ outgoing' \in [Invites!Friends -> 0..InviteMax] /\ inviting' \subseteq Invites!Friends
        /\ changes' \in 0..ChangeMax /\ unkept' \subseteq Invites!Invites
        /\ dropped' \subseteq Invites!Invites
    BY <1>1, InviteTypes
  <1>10. \A v \in Invites!Friends : v \notin listed' => secret'[v] = 0
    BY <1>1, InviteNow
  <1> QED
    BY <1>1, <1>3, <1>4, <1>7, <1>8, <1>9, <1>10, QuietKeeps


\* What a queue adds is within its bound, and within a larger one.
LEMMA Bounded ==
  ASSUME InviteInv, NEW w \in Invites!Friends
  PROVE  /\ \A j \in AddsOf(signing[w]) : j \in Invites!Invites /\ j <= invites
         /\ \A j \in Invites!UnderWay(w) : j \in Invites!Invites /\ j <= invites
         /\ Within(signing[w], invites + 1)
  <1>1. /\ signing[w] \in Seq(Invites!Tasks) /\ Within(signing[w], invites)
        /\ outgoing[w] <= invites /\ invites \in Nat /\ Invites!Invites \subseteq Nat
    BY InviteNow, InviteTypes
  <1>2. ASSUME NEW j \in AddsOf(signing[w]) PROVE j \in Invites!Invites /\ j <= invites
    <2>1. PICK n \in 1..Len(signing[w]) : signing[w][n] = <<"add", j>>
      BY DEF AddsOf
    <2>2. signing[w][n][2] <= invites
      BY <1>1 DEF Within
    <2> QED
      BY <2>1, <2>2 DEF AddsOf
  <1>3. \A j \in Invites!UnderWay(w) : j \in Invites!Invites /\ j <= invites
    BY <1>1, <1>2, UnderWayIs
  <1>4. Within(signing[w], invites + 1)
    <2> SUFFICES ASSUME NEW n \in 1..Len(signing[w]) PROVE signing[w][n][2] <= invites + 1
      BY DEF Within
    <2>1. signing[w][n] \in Invites!Tasks /\ signing[w][n][2] <= invites
      BY <1>1 DEF Within
    <2>2. signing[w][n][2] \in Nat
      BY <1>1, <2>1 DEF Invites!Tasks
    <2> QED
      BY <1>1, <2>1, <2>2
  <1> QED
    BY <1>2, <1>3, <1>4

\* inviteByEmail(): the new invite is the newest, and has crossed what is under way.
LEMMA InviteKeeps ==
  ASSUME InviteInv, NEW u \in Invites!Friends, Invites!Invite(u)
  PROVE  InviteInv'
  <1> DEFINE v == Invites!Other(u)
  <1>v. /\ v \in Invites!Friends /\ v # u /\ Invites!Other(v) = u
        /\ \A w \in Invites!Friends : w = u \/ w = v
    BY TwoFriends
  <1> HIDE DEF v
  <1>1. PICK n \in Invites!Invites : n = invites + 1 /\ invites' = n /\ author[n] = u
    BY DEF Invites!Invite
  <1>2. /\ UNCHANGED <<listed, secret, incoming, signing, author, changes, unkept>>
        /\ inviting' \subseteq Invites!Friends
    BY InviteTypes DEF Invites!Invite
  <1>3. /\ outgoing' \in [Invites!Friends -> 0..InviteMax] /\ outgoing'[u] = n
        /\ outgoing'[v] = outgoing[v]
    <2>1. outgoing \in [Invites!Friends -> 0..InviteMax] /\ n \in 0..InviteMax
      BY InviteTypes
    <2>2. outgoing' = [outgoing EXCEPT ![u] = n]
      BY <1>1 DEF Invites!Invite
    <2> QED
      BY <1>v, <2>1, <2>2
  <1>4. /\ post' \subseteq {"invite", "yes", "no"} \X Invites!Invites
        /\ \A m \in post' : m \in post \/ m = <<"invite", n>>
    BY <1>1, InviteTypes DEF Invites!Invite, Invites!Sends
  <1>5. invites \in Nat /\ Invites!Invites \subseteq Nat /\ 0 \notin Invites!Invites
    BY InviteTypes
  <1>6. ASSUME NEW w \in Invites!Friends
        PROVE  /\ secret[w] < n /\ outgoing[w] < n /\ incoming[w] < n /\ Within(signing[w], n)
               /\ \A j \in Invites!UnderWay(w) : j < n
               /\ \A j \in AddsOf(signing[w]) : j < n
    <2>1. secret[w] \in Nat /\ outgoing[w] \in Nat /\ incoming[w] \in Nat
      BY InviteTypes
    <2>2. secret[w] <= invites /\ outgoing[w] <= invites /\ incoming[w] <= invites
      BY InviteNow
    <2>3. Within(signing[w], n)
      BY <1>1, Bounded
    <2>4. /\ \A j \in AddsOf(signing[w]) : j \in Nat /\ j <= invites
          /\ \A j \in Invites!UnderWay(w) : j \in Nat /\ j <= invites
      BY <1>5, Bounded
    <2> QED
      BY <1>1, <1>5, <2>1, <2>2, <2>3, <2>4
  <1>7. dropped' = dropped \cup ({outgoing[u]} \ {0}) /\ dropped' \subseteq Invites!Invites
    BY InviteNow, InviteTypes DEF Invites!Invite
  <1>8. /\ Invites!UnderWay(u)' \subseteq Invites!UnderWay(u) \cup {n}
        /\ \A j \in Invites!UnderWay(u) : j \in Invites!UnderWay(u)' \/ j \in dropped'
    <2>1. /\ Invites!UnderWay(u) =
               AddsOf(signing[u]) \cup {i \in Invites!Invites : outgoing[u] = i}
          /\ Invites!UnderWay(u)' =
               AddsOf(signing'[u]) \cup {i \in Invites!Invites : outgoing'[u] = i}
      BY UnderWayIs
    <2> QED
      BY <1>2, <1>3, <1>5, <1>7, <2>1
  <1>9. Invites!UnderWay(v)' = Invites!UnderWay(v)
    BY <1>2, <1>3, UnderWayIs
  <1>10. /\ crossed \subseteq crossed' /\ crossed' \subseteq Invites!Invites
         /\ Invites!UnderWay(v) # {} => Invites!UnderWay(v) \cup {n} \subseteq crossed'
    <2>1. crossed' = IF Invites!UnderWay(v) = {}
                       THEN crossed ELSE crossed \cup Invites!UnderWay(v) \cup {n}
      BY <1>1 DEF Invites!Invite, v
    <2>2. Invites!UnderWay(v) \subseteq Invites!Invites
      BY <1>v, Bounded
    <2> QED
      BY <2>1, <2>2, InviteTypes
  <1>11. Invites!TypeOK'
    <2>1. {secret', outgoing', incoming'} \subseteq [Invites!Friends -> 0..InviteMax]
      BY <1>2, <1>3, InviteTypes
    <2>2. /\ listed' \subseteq Invites!Friends
          /\ signing' \in [Invites!Friends -> Seq(Invites!Tasks)]
          /\ author' \in [Invites!Invites -> Invites!Friends] /\ changes' \in 0..ChangeMax
          /\ unkept' \subseteq Invites!Invites /\ invites' \in 0..InviteMax
      BY <1>1, <1>2, InviteTypes
    <2> QED
      BY <1>2, <1>4, <1>7, <1>10, <2>1, <2>2 DEF Invites!TypeOK
  <1>12. SentBefore'
    <2>1. ASSUME NEW w \in Invites!Friends
          PROVE  /\ secret'[w] <= n /\ outgoing'[w] <= n /\ incoming'[w] <= n
                 /\ Within(signing'[w], n)
      <3>1. secret[w] \in Nat /\ outgoing[w] \in Nat /\ incoming[w] \in Nat
        BY InviteTypes
      <3>2. outgoing'[w] = n \/ outgoing'[w] = outgoing[w]
        BY <1>v, <1>3
      <3> QED
        BY <1>2, <1>5, <1>6, <3>1, <3>2
    <2>2. ASSUME NEW m \in post' PROVE m[2] <= n
      <3>1. CASE m \in post
        <4>1. m[2] <= invites /\ m[2] \in Nat
          BY <1>5, <3>1, InviteTypes DEF InviteInv, SentBefore
        <4> QED
          BY <1>1, <1>5, <4>1
      <3>2. CASE m = <<"invite", n>>
        BY <1>5, <3>2
      <3> QED
        BY <1>4, <3>1, <3>2
    <2> QED
      BY <1>1, <2>1, <2>2 DEF SentBefore
  <1>13. ASSUME NEW w \in Invites!Friends PROVE NewestLast(w)'
    <2>1. NewestLast(w)
      BY DEF InviteInv
    <2>2. w \notin listed' => secret'[w] = 0
      BY <1>2, <2>1 DEF NewestLast
    <2>3. Sorted(signing'[w]) /\ AddsOf(signing'[w]) = AddsOf(signing[w])
      BY <1>2, <2>1 DEF NewestLast
    <2>4. outgoing'[w] # 0 => \A j \in AddsOf(signing[w]) : j < outgoing'[w]
      <3>1. CASE w = u
        BY <1>3, <1>6, <3>1
      <3>2. CASE w = v
        BY <1>3, <2>1, <3>2 DEF NewestLast
      <3> QED
        BY <1>v, <3>1, <3>2
    <2>5. Invites!Own(w)' => \A j \in Invites!UnderWay(w)' : secret'[w] < j
      <3>1. Invites!Own(w)' => Invites!Own(w) /\ secret'[w] = secret[w]
        BY <1>2 DEF Invites!Own
      <3>2. CASE w = u
        BY <1>6, <1>8, <2>1, <3>1, <3>2 DEF NewestLast
      <3>3. CASE w = v
        BY <1>9, <2>1, <3>1, <3>3 DEF NewestLast
      <3> QED
        BY <1>v, <3>2, <3>3
    <2> QED
      BY <2>2, <2>3, <2>4, <2>5 DEF NewestLast
  <1>14. Crossing'
    <2>1. ASSUME NEW i \in Invites!UnderWay(u)', NEW j \in Invites!UnderWay(v)
          PROVE  {i, j} \subseteq crossed'
      <3>1. CASE i = n
        BY <1>10, <3>1
      <3>2. CASE i \in Invites!UnderWay(u)
        BY <1>10, <3>2 DEF InviteInv, Crossing, v
      <3> QED
        BY <1>8, <3>1, <3>2
    <2>2. ASSUME NEW w \in Invites!Friends, NEW i \in Invites!UnderWay(w)',
                 NEW j \in Invites!UnderWay(Invites!Other(w))'
          PROVE  {i, j} \subseteq crossed'
      <3>1. CASE w = u
        BY <1>9, <2>1, <3>1 DEF v
      <3>2. CASE w = v
        BY <1>v, <1>9, <2>1, <3>2
      <3> QED
        BY <1>v, <3>1, <3>2
    <2> QED
      BY <2>2 DEF Crossing
  <1>15. ASSUME NEW i \in Invites!Invites, IsAccepted(i)' PROVE IsAccepted(i)
    <2>1. PICK a \in Invites!Friends : a = author[i] /\ author'[i] = a
      BY <1>2, Parties
    <2>2. CASE outgoing'[a] = i /\ <<"yes", i>> \in post'
      <3>1. <<"yes", i>> \in post
        BY <1>4, <2>2
      <3>2. <<"yes", i>>[2] <= invites
        BY <3>1 DEF InviteInv, SentBefore
      <3>3. i <= invites /\ i # n
        BY <1>1, <1>5, <3>2
      <3>4. outgoing[a] = i
        BY <1>v, <1>3, <2>2, <3>3
      <3> QED
        BY <2>1, <3>1, <3>4 DEF IsAccepted
    <2>3. CASE i \in AddsOf(signing'[a]) \/ secret'[a] = i
      BY <1>2, <2>1, <2>3 DEF IsAccepted
    <2> QED
      BY <1>15, <2>1, <2>2, <2>3 DEF IsAccepted
  <1>16. AcceptedIsKept' /\ NoneSwapped'
    <2>1. \A w \in Invites!Friends : \A j \in Invites!UnderWay(w) :
            j \in Invites!UnderWay(w)' \/ j \in dropped'
      BY <1>v, <1>8, <1>9
    <2> QED
      BY <1>2, <1>7, <1>10, <1>15, <2>1, NothingTaken
  <1> QED
    BY <1>11, <1>12, <1>13, <1>14, <1>16 DEF InviteInv

\* inviteRespAction.onMessage: the invite that is out is being added; any other answer is dropped.
LEMMA AnswerKeeps ==
  ASSUME InviteInv, NEW i \in Invites!Invites, Invites!ReceiveYes(i)
  PROVE  InviteInv'
  <1>1. PICK a \in Invites!Friends : a = author[i]
    BY Parties
  <1>2. /\ UNCHANGED <<listed, secret, incoming, inviting, invites, author, changes, dropped,
                       unkept, crossed>>
        /\ <<"yes", i>> \in post /\ post' \subseteq post
    BY DEF Invites!ReceiveYes, Invites!Takes
  <1>3. /\ post' \subseteq {"invite", "yes", "no"} \X Invites!Invites
        /\ \A m \in post' : m[2] <= invites
        /\ i <= invites /\ i # 0 /\ invites \in Nat
    <2>1. <<"yes", i>>[2] <= invites /\ \A m \in post' : m[2] <= invites
      BY <1>2 DEF InviteInv, SentBefore
    <2> QED
      BY <1>2, <2>1, InviteTypes
  <1>4. /\ listed' \subseteq Invites!Friends /\ secret' \in [Invites!Friends -> 0..InviteMax]
        /\ incoming' \in [Invites!Friends -> 0..InviteMax] /\ inviting' \subseteq Invites!Friends
        /\ changes' \in 0..ChangeMax /\ unkept' \subseteq Invites!Invites
        /\ dropped' \subseteq Invites!Invites
    BY <1>2, InviteTypes
  <1>5. \A w \in Invites!Friends :
          /\ secret'[w] = secret[w] /\ incoming'[w] <= invites
          /\ w \notin listed' => secret'[w] = 0
    BY <1>2, InviteNow
  <1>6. CASE outgoing[a] # i
    <2>1. outgoing' = outgoing /\ signing' = signing
      BY <1>1, <1>6 DEF Invites!ReceiveYes
    <2>2. /\ outgoing' \in [Invites!Friends -> 0..InviteMax]
          /\ signing' \in [Invites!Friends -> Seq(Invites!Tasks)]
      BY <2>1, InviteTypes
    <2>3. \A w \in Invites!Friends : Sorted(signing'[w]) /\ Within(signing'[w], invites)
      BY <2>1, InviteNow
    <2> QED
      BY <1>2, <1>3, <1>4, <1>5, <2>1, <2>2, <2>3, QuietKeeps
  <1>7. CASE outgoing[a] = i
    <2>1. /\ outgoing' = [outgoing EXCEPT ![a] = 0]
          /\ signing' = [signing EXCEPT ![a] = Append(@, <<"add", i>>)]
      BY <1>1, <1>7 DEF Invites!ReceiveYes, Invites!Begins
    <2>2. /\ outgoing' \in [Invites!Friends -> 0..InviteMax] /\ outgoing'[a] = 0
          /\ \A w \in Invites!Friends : w # a => outgoing'[w] = outgoing[w]
      <3>1. outgoing \in [Invites!Friends -> 0..InviteMax] /\ 0 \in 0..InviteMax
        BY InviteTypes
      <3> QED
        BY <2>1, <3>1
    <2> DEFINE q == Append(signing[a], <<"add", i>>)
    <2>3. /\ q \in Seq(Invites!Tasks) /\ Sorted(q) /\ Within(q, invites)
          /\ AddsOf(q) = AddsOf(signing[a]) \cup {i}
      <3>1. /\ signing[a] \in Seq(Invites!Tasks) /\ Sorted(signing[a])
            /\ Within(signing[a], invites) /\ \A j \in AddsOf(signing[a]) : j < i
        BY <1>3, <1>7, InviteNow
      <3> QED
        BY <1>3, <3>1, Queued
    <2> HIDE DEF q
    <2>4. /\ signing' \in [Invites!Friends -> Seq(Invites!Tasks)] /\ signing'[a] = q
          /\ \A w \in Invites!Friends : w # a => signing'[w] = signing[w]
      <3>1. signing \in [Invites!Friends -> Seq(Invites!Tasks)]
        BY InviteTypes
      <3>2. signing' = [signing EXCEPT ![a] = q]
        BY <2>1 DEF q
      <3> QED
        BY <2>3, <3>1, <3>2
    <2>5. ASSUME NEW w \in Invites!Friends
          PROVE  Invites!UnderWay(w)' = Invites!UnderWay(w)
      <3>1. /\ Invites!UnderWay(w) =
                 AddsOf(signing[w]) \cup {x \in Invites!Invites : outgoing[w] = x}
            /\ Invites!UnderWay(w)' =
                 AddsOf(signing'[w]) \cup {x \in Invites!Invites : outgoing'[w] = x}
        BY UnderWayIs
      <3>2. 0 \notin Invites!Invites
        BY InviteTypes
      <3> QED
        BY <1>7, <2>2, <2>3, <2>4, <3>1, <3>2
    <2>6. Invites!TypeOK'
      <3>1. {secret', outgoing', incoming'} \subseteq [Invites!Friends -> 0..InviteMax]
        BY <1>4, <2>2
      <3>2. /\ author' \in [Invites!Invites -> Invites!Friends] /\ invites' \in 0..InviteMax
            /\ crossed' \subseteq Invites!Invites
        BY <1>2, InviteTypes
      <3> QED
        BY <1>3, <1>4, <2>4, <3>1, <3>2 DEF Invites!TypeOK
    <2>7. SentBefore'
      <3>1. ASSUME NEW w \in Invites!Friends
            PROVE  /\ secret'[w] <= invites /\ outgoing'[w] <= invites /\ incoming'[w] <= invites
                   /\ Within(signing'[w], invites)
        <4>1. CASE w = a
          BY <1>3, <1>5, <2>2, <2>3, <2>4, <4>1, InviteNow
        <4>2. CASE w # a
          BY <1>5, <2>2, <2>4, <4>2, InviteNow
        <4> QED
          BY <4>1, <4>2
      <3> QED
        BY <1>2, <1>3, <3>1 DEF SentBefore
    <2>8. ASSUME NEW w \in Invites!Friends PROVE NewestLast(w)'
      <3>1. NewestLast(w)
        BY DEF InviteInv
      <3>2. Sorted(signing'[w])
        BY <2>3, <2>4, <3>1 DEF NewestLast
      <3>3. outgoing'[w] # 0 => \A j \in AddsOf(signing'[w]) : j < outgoing'[w]
        BY <2>2, <2>4, <3>1 DEF NewestLast
      <3>4. Invites!Own(w)' => \A j \in Invites!UnderWay(w)' : secret'[w] < j
        <4>1. Invites!Own(w)' => Invites!Own(w)
          BY <1>2 DEF Invites!Own
        <4> QED
          BY <1>5, <2>5, <3>1, <4>1 DEF NewestLast
      <3> QED
        BY <1>5, <3>2, <3>3, <3>4 DEF NewestLast
    <2>9. Crossing'
      BY <1>2, <2>5, CrossingStays
    <2>10. ASSUME NEW x \in Invites!Invites, IsAccepted(x)' PROVE IsAccepted(x)
      <3>1. PICK c \in Invites!Friends : c = author[x] /\ author'[x] = c
        BY <1>2, Parties
      <3>2. CASE c = a
        <4>1. CASE x = i
          BY <1>1, <1>2, <1>7, <4>1 DEF IsAccepted
        <4>2. CASE x # i
          <5>1. x # 0
            BY InviteTypes
          <5>2. x \in AddsOf(signing[a]) \/ secret[a] = x
            BY <1>5, <2>2, <2>3, <2>4, <2>10, <3>1, <3>2, <4>2, <5>1 DEF IsAccepted
          <5> QED
            BY <3>1, <3>2, <5>2 DEF IsAccepted
        <4> QED
          BY <4>1, <4>2
      <3>3. CASE c # a
        BY <1>2, <1>5, <2>2, <2>4, <2>10, <3>1, <3>3 DEF IsAccepted
      <3> QED
        BY <3>2, <3>3
    <2>11. AcceptedIsKept' /\ NoneSwapped'
      BY <1>2, <1>5, <2>5, <2>10, NothingTaken
    <2> QED
      BY <2>6, <2>7, <2>8, <2>9, <2>11 DEF InviteInv
  <1> QED
    BY <1>6, <1>7

\* A signature of u's is ready: what its page adds next is newer.
LEMMA Ready ==
  ASSUME InviteInv, NEW u \in Invites!Friends, NEW i \in Invites!Invites,
         NEW task \in {"auto", "accept", "join", "add"},
         signing[u] # <<>>, Head(signing[u]) = <<task, i>>
  PROVE  LET t == Tail(signing[u]) IN
           /\ t \in Seq(Invites!Tasks) /\ Sorted(t) /\ Within(t, invites) /\ i <= invites
           /\ task # "add" => AddsOf(t) = AddsOf(signing[u])
           /\ task = "add" =>
                /\ AddsOf(signing[u]) = AddsOf(t) \cup {i}
                /\ \A j \in AddsOf(t) : i < j
  <1>1. /\ signing[u] \in Seq(Invites!Tasks) /\ Sorted(signing[u]) /\ Within(signing[u], invites)
        /\ invites \in Nat
    BY InviteNow, InviteTypes
  <1> DEFINE s == signing[u]
             t == Tail(s)
  <1>2. /\ t \in Seq(Invites!Tasks) /\ Sorted(t) /\ Within(t, invites)
        /\ AddsOf(t) \subseteq AddsOf(s)
        /\ \A j \in AddsOf(s) : j \in AddsOf(t) \/ Head(s) = <<"add", j>>
        /\ \A j \in Invites!Invites : Head(s) = <<"add", j>> =>
             j \in AddsOf(s) /\ \A k \in AddsOf(t) : j < k
        /\ Head(s)[2] <= invites
    <2>1. s # <<>>
      OBVIOUS
    <2> HIDE DEF s
    <2>2. s \in Seq(Invites!Tasks) /\ Sorted(s) /\ Within(s, invites) /\ invites \in Nat
      BY <1>1 DEF s
    <2> QED
      BY <2>1, <2>2, Retired
  <1>3. Head(s) = <<task, i>> /\ Head(s)[2] = i
    OBVIOUS
  <1> HIDE DEF s, t
  <1>4. \A j : Head(s) = <<"add", j>> <=> task = "add" /\ i = j
    BY <1>3
  <1>5. /\ task # "add" => AddsOf(t) = AddsOf(s)
        /\ task = "add" => AddsOf(s) = AddsOf(t) \cup {i} /\ \A j \in AddsOf(t) : i < j
    BY <1>2, <1>4
  <1> QED
    BY <1>2, <1>3, <1>5 DEF s, t

\* inviteRespAction.onMessage after its await: the author has the secret of what was accepted.
LEMMA AddedKeeps ==
  ASSUME InviteInv, NEW i \in Invites!Invites, Invites!Added(i)
  PROVE  InviteInv'
  <1>1. PICK a \in Invites!Friends : a = author[i]
    BY Parties
  <1> DEFINE b == Invites!Other(a)
             t == Tail(signing[a])
  <1>b. /\ b \in Invites!Friends /\ b # a /\ Invites!Other(b) = a
        /\ \A w \in Invites!Friends : w = a \/ w = b
    BY TwoFriends
  <1>2. /\ UNCHANGED <<outgoing, incoming, inviting, post, invites, author, changes, dropped,
                       unkept, crossed>>
        /\ listed' = listed \cup {a} /\ secret' = [secret EXCEPT ![a] = i]
        /\ signing[a] # <<>> /\ Head(signing[a]) = <<"add", i>>
        /\ signing' = [signing EXCEPT ![a] = t]
    BY <1>1 DEF Invites!Added, Invites!Signed, Invites!IsSigned, Invites!AddFriend
  <1>3. /\ t \in Seq(Invites!Tasks) /\ Sorted(t) /\ Within(t, invites) /\ i <= invites
        /\ AddsOf(signing[a]) = AddsOf(t) \cup {i} /\ \A j \in AddsOf(t) : i < j
    BY <1>2, Ready
  <1> HIDE DEF b, t
  <1>4. /\ secret' \in [Invites!Friends -> 0..InviteMax] /\ secret'[a] = i
        /\ secret'[b] = secret[b]
        /\ signing' \in [Invites!Friends -> Seq(Invites!Tasks)] /\ signing'[a] = t
        /\ signing'[b] = signing[b]
    <2>1. /\ secret \in [Invites!Friends -> 0..InviteMax] /\ i \in 0..InviteMax
          /\ signing \in [Invites!Friends -> Seq(Invites!Tasks)]
      BY InviteTypes
    <2> QED
      BY <1>b, <1>2, <1>3, <2>1
  <1>5. invites \in Nat /\ Invites!Invites \subseteq Nat \ {0}
    BY InviteTypes
  <1>6. /\ Invites!UnderWay(b)' = Invites!UnderWay(b)
        /\ Invites!UnderWay(a)' \subseteq Invites!UnderWay(a)
        /\ \A j \in Invites!UnderWay(a) : j \in Invites!UnderWay(a)' \/ j = i
        /\ \A j \in Invites!UnderWay(a)' : i < j
        /\ i \in Invites!UnderWay(a)
    <2>1. /\ Invites!UnderWay(a) =
               AddsOf(signing[a]) \cup {x \in Invites!Invites : outgoing[a] = x}
          /\ Invites!UnderWay(a)' =
               AddsOf(signing'[a]) \cup {x \in Invites!Invites : outgoing'[a] = x}
      BY UnderWayIs
    <2>2. Invites!UnderWay(b)' = Invites!UnderWay(b)
      <3>1. outgoing'[b] = outgoing[b] /\ signing'[b] = signing[b]
        BY <1>2, <1>4
      <3> QED
        BY <3>1 DEF Invites!UnderWay
    <2>3. \A x \in Invites!Invites : outgoing[a] = x => i < x
      BY <1>3, <1>5, InviteNow
    <2> QED
      BY <1>2, <1>3, <1>4, <2>1, <2>2, <2>3
  <1>7. Invites!TypeOK'
    <2>1. /\ {secret', outgoing', incoming'} \subseteq [Invites!Friends -> 0..InviteMax]
          /\ listed' \subseteq Invites!Friends
      BY <1>2, <1>4, InviteTypes
    <2>2. /\ author' \in [Invites!Invites -> Invites!Friends] /\ invites' \in 0..InviteMax
          /\ crossed' \subseteq Invites!Invites /\ inviting' \subseteq Invites!Friends
          /\ changes' \in 0..ChangeMax /\ unkept' \subseteq Invites!Invites
          /\ dropped' \subseteq Invites!Invites
          /\ post' \subseteq {"invite", "yes", "no"} \X Invites!Invites
      BY <1>2, InviteTypes
    <2> QED
      BY <1>4, <2>1, <2>2 DEF Invites!TypeOK
  <1>8. SentBefore'
    <2>1. ASSUME NEW w \in Invites!Friends
          PROVE  /\ secret'[w] <= invites /\ outgoing'[w] <= invites /\ incoming'[w] <= invites
                 /\ Within(signing'[w], invites)
      <3>1. CASE w = a
        BY <1>2, <1>3, <1>4, <3>1, InviteNow
      <3>2. CASE w = b
        BY <1>2, <1>4, <3>2, InviteNow
      <3> QED
        BY <1>b, <3>1, <3>2
    <2>2. \A m \in post : m[2] <= invites
      BY DEF InviteInv, SentBefore
    <2> QED
      BY <1>2, <2>1, <2>2 DEF SentBefore
  <1>9. NewestLast(a)'
    <2>1. outgoing[a] # 0 => \A j \in AddsOf(signing[a]) : j < outgoing[a]
      BY InviteNow
    <2>2. outgoing'[a] # 0 => \A j \in AddsOf(signing'[a]) : j < outgoing'[a]
      BY <1>2, <1>3, <1>4, <2>1
    <2>3. a \in listed' /\ Sorted(signing'[a])
      BY <1>2, <1>3, <1>4
    <2>4. Invites!Own(a)' => \A j \in Invites!UnderWay(a)' : secret'[a] < j
      BY <1>4, <1>6
    <2> QED
      BY <2>2, <2>3, <2>4 DEF NewestLast
  <1>10. NewestLast(b)'
    <2>1. NewestLast(b)
      BY <1>b DEF InviteInv
    <2>2. b \notin listed' => secret'[b] = 0
      BY <1>b, <1>2, <1>4, <2>1 DEF NewestLast
    <2>3. Invites!Own(b)' => Invites!Own(b)
      BY <1>2, <1>4 DEF Invites!Own
    <2> QED
      BY <1>2, <1>4, <1>6, <2>1, <2>2, <2>3 DEF NewestLast
  <1>11. \A w \in Invites!Friends : NewestLast(w)'
    BY <1>b, <1>9, <1>10
  <1>12. Crossing'
    BY <1>b, <1>2, <1>6, CrossingStays
  <1>13. NoneSwapped'
    <2>1. Invites!Own(a)'
      BY <1>1, <1>2, <1>4, <1>5 DEF Invites!Own
    <2> QED
      BY <1>b, <2>1 DEF NoneSwapped, b
  <1>14. ASSUME NEW x \in Invites!Invites, IsAccepted(x)', author[x] = a
         PROVE  Kept(x, secret[Invites!Invitee(x)])'
    <2>1. Invites!Invitee(x) = b /\ Invites!Invitee(x)' = b /\ author'[x] = a
      BY <1>2, <1>14 DEF Invites!Invitee, b
    <2>2. \/ outgoing[a] = x /\ <<"yes", x>> \in post
          \/ x \in AddsOf(t)
          \/ x = i
      BY <1>2, <1>4, <1>14, <2>1 DEF IsAccepted
    <2>3. IsAccepted(x) /\ i <= x
      <3>1. i \in AddsOf(signing[a]) /\ AddsOf(t) \subseteq AddsOf(signing[a])
        BY <1>3
      <3>2. outgoing[a] = x => i < x
        BY <1>5, <3>1, InviteNow
      <3>3. i <= x
        BY <1>3, <1>5, <2>2, <3>2
      <3>4. (outgoing[a] = x /\ <<"yes", x>> \in post) \/ x \in AddsOf(signing[a])
        BY <2>2, <3>1
      <3> QED
        BY <1>14, <3>3, <3>4 DEF IsAccepted
    <2>4. PICK s : s = secret[b]
      OBVIOUS
    <2>5. Kept(x, s)
      BY <2>1, <2>3, <2>4 DEF InviteInv, AcceptedIsKept
    <2>6. s > x /\ s \in Invites!UnderWay(a) => s \in Invites!UnderWay(a)'
      BY <1>5, <1>6, <2>3
    <2>7. \/ s \in {0, x} \cup dropped \/ x \in dropped \cup unkept
          \/ author[s] = a /\ s > x /\ s \in Invites!UnderWay(a)'
          \/ author[s] # a /\ (s \in unkept \/ {x, s} \subseteq crossed)
      BY <1>14, <2>5, <2>6 DEF Kept
    <2> QED
      BY <1>2, <1>4, <2>1, <2>4, <2>7 DEF Kept, Invites!UnderWay
  <1>15. ASSUME NEW x \in Invites!Invites, IsAccepted(x)', author[x] = b
         PROVE  Kept(x, secret[Invites!Invitee(x)])'
    <2>1. Invites!Invitee(x) = a /\ Invites!Invitee(x)' = a /\ author'[x] = b
      BY <1>b, <1>2, <1>15 DEF Invites!Invitee
    <2>2. \/ outgoing[b] = x \/ x \in AddsOf(signing[b]) \/ secret[b] = x
      BY <1>2, <1>4, <1>15, <2>1 DEF IsAccepted
    <2>3. author[i] # author[x] /\ i # x
      BY <1>b, <1>1, <1>15
    <2>4. x \in Invites!UnderWay(b) => {x, i} \subseteq crossed
      BY <1>6 DEF InviteInv, Crossing, b
    <2>5. CASE x \in Invites!UnderWay(b)
      BY <1>2, <1>4, <2>1, <2>3, <2>4, <2>5 DEF Kept
    <2>6. CASE secret[b] = x
      <3>1. IsAccepted(i) /\ Invites!Invitee(i) = b
        BY <1>1, <1>3 DEF IsAccepted, Invites!Invitee, b
      <3>2. Kept(i, x)
        BY <2>6, <3>1 DEF InviteInv, AcceptedIsKept
      <3>3. \/ x \in dropped \/ i \in dropped \cup unkept
            \/ x \in unkept \/ {i, x} \subseteq crossed
        BY <1>5, <2>3, <3>2 DEF Kept
      <3> QED
        BY <1>2, <1>4, <2>1, <2>3, <3>3 DEF Kept
    <2>7. x \in Invites!UnderWay(b) \/ secret[b] = x
      BY <2>2, UnderWayIs
    <2> QED
      BY <2>5, <2>6, <2>7
  <1>16. AcceptedIsKept'
    <2>1. \A x \in Invites!Invites : author[x] = a \/ author[x] = b
      BY <1>b, InviteTypes
    <2> QED
      BY <1>14, <1>15, <2>1 DEF AcceptedIsKept
  <1> QED
    BY <1>7, <1>8, <1>11, <1>12, <1>13, <1>16 DEF InviteInv

\* inviteAction.onMessage for a friend, and acceptInvite(), after the entry is signed: the invitee
\* has the secret; unless the author is done with it, no other that is accepted is newer.
LEMMA EntryKeeps ==
  ASSUME InviteInv, NEW i \in Invites!Invites, Invites!AutoAccepted(i) \/ Invites!Joined(i)
  PROVE  InviteInv'
  <1>1. PICK a \in Invites!Friends : a = author[i]
    BY Parties
  <1> DEFINE b == Invites!Other(a)
             t == Tail(signing[b])
  <1>b. /\ b \in Invites!Friends /\ b # a /\ Invites!Other(b) = a
        /\ \A w \in Invites!Friends : w = a \/ w = b
    BY TwoFriends
  <1>c. Invites!Invitee(i) = b
    BY <1>1 DEF Invites!Invitee
  <1>2. /\ UNCHANGED <<outgoing, inviting, invites, author, changes, unkept, crossed>>
        /\ listed' = listed \cup {b} /\ secret' = [secret EXCEPT ![b] = i]
        /\ dropped' = IF Invites!Stands(i) THEN dropped ELSE dropped \cup {i}
        /\ signing[b] # <<>> /\ signing' = [signing EXCEPT ![b] = t]
        /\ Head(signing[b]) = <<"auto", i>> \/ Head(signing[b]) = <<"join", i>>
        /\ \A m \in post' : m \in post \/ m = <<"yes", i>>
        /\ incoming' \in {incoming, [incoming EXCEPT ![b] = IF @ = i THEN 0 ELSE @]}
    BY <1>c DEF Invites!AutoAccepted, Invites!Joined, Invites!Signed, Invites!IsSigned,
       Invites!TakeUp, Invites!AddFriend, Invites!Sends, Invites!Answered
  <1>3. /\ t \in Seq(Invites!Tasks) /\ Sorted(t) /\ Within(t, invites) /\ i <= invites
        /\ AddsOf(t) = AddsOf(signing[b])
    <2>1. PICK task \in {"auto", "join"} : Head(signing[b]) = <<task, i>>
      BY <1>2
    <2>2. task \in {"auto", "accept", "join", "add"} /\ task # "add"
      OBVIOUS
    <2> QED
      BY <1>b, <1>2, <2>1, <2>2, Ready
  <1> HIDE DEF b, t
  <1>4. /\ secret' \in [Invites!Friends -> 0..InviteMax] /\ secret'[b] = i
        /\ secret'[a] = secret[a]
        /\ signing' \in [Invites!Friends -> Seq(Invites!Tasks)] /\ signing'[b] = t
        /\ signing'[a] = signing[a]
        /\ incoming' \in [Invites!Friends -> 0..InviteMax]
        /\ \A w \in Invites!Friends : incoming'[w] = incoming[w] \/ incoming'[w] = 0
    <2>1. /\ secret \in [Invites!Friends -> 0..InviteMax] /\ i \in 0..InviteMax
          /\ signing \in [Invites!Friends -> Seq(Invites!Tasks)] /\ 0 \in 0..InviteMax
          /\ incoming \in [Invites!Friends -> 0..InviteMax]
      BY InviteTypes
    <2>2. /\ incoming' \in [Invites!Friends -> 0..InviteMax]
          /\ \A w \in Invites!Friends : incoming'[w] = incoming[w] \/ incoming'[w] = 0
      BY <1>b, <1>2, <2>1
    <2> QED
      BY <1>b, <1>2, <1>3, <2>1, <2>2
  <1>5. invites \in Nat /\ Invites!Invites \subseteq Nat \ {0} /\ dropped \subseteq dropped'
        /\ dropped' \subseteq Invites!Invites
    BY <1>2, InviteTypes
  <1>6. /\ Invites!UnderWay(a)' = Invites!UnderWay(a)
        /\ Invites!UnderWay(b)' = Invites!UnderWay(b)
    <2>1. /\ outgoing'[a] = outgoing[a] /\ outgoing'[b] = outgoing[b]
          /\ signing'[a] = signing[a] /\ AddsOf(signing'[b]) = AddsOf(signing[b])
      BY <1>2, <1>3, <1>4
    <2>2. Invites!UnderWay(a)' = Invites!UnderWay(a)
      BY <2>1 DEF Invites!UnderWay
    <2>3. /\ Invites!UnderWay(b) =
               AddsOf(signing[b]) \cup {x \in Invites!Invites : outgoing[b] = x}
          /\ Invites!UnderWay(b)' =
               AddsOf(signing'[b]) \cup {x \in Invites!Invites : outgoing'[b] = x}
      BY UnderWayIs
    <2> QED
      BY <2>1, <2>2, <2>3
  <1>7. Invites!TypeOK'
    <2>1. /\ {secret', outgoing', incoming'} \subseteq [Invites!Friends -> 0..InviteMax]
          /\ listed' \subseteq Invites!Friends
      BY <1>b, <1>2, <1>4, InviteTypes
    <2>2. /\ author' \in [Invites!Invites -> Invites!Friends] /\ invites' \in 0..InviteMax
          /\ crossed' \subseteq Invites!Invites /\ inviting' \subseteq Invites!Friends
          /\ changes' \in 0..ChangeMax /\ unkept' \subseteq Invites!Invites
      BY <1>2, InviteTypes
    <2>3. post' \subseteq {"invite", "yes", "no"} \X Invites!Invites
      <3>1. post \subseteq {"invite", "yes", "no"} \X Invites!Invites
        BY InviteTypes
      <3>2. <<"yes", i>> \in {"invite", "yes", "no"} \X Invites!Invites
        OBVIOUS
      <3> QED
        BY <1>2, <3>1, <3>2
    <2> QED
      BY <1>4, <1>5, <2>1, <2>2, <2>3 DEF Invites!TypeOK
  <1>8. SentBefore'
    <2>1. ASSUME NEW w \in Invites!Friends
          PROVE  /\ secret'[w] <= invites /\ outgoing'[w] <= invites /\ incoming'[w] <= invites
                 /\ Within(signing'[w], invites)
      <3>1. incoming'[w] <= invites /\ outgoing'[w] <= invites
        BY <1>2, <1>4, <1>5, InviteNow
      <3>2. CASE w = b
        BY <1>3, <1>4, <3>1, <3>2
      <3>3. CASE w = a
        BY <1>4, <3>1, <3>3, InviteNow
      <3> QED
        BY <1>b, <3>2, <3>3
    <2>2. \A m \in post' : m[2] <= invites
      <3>1. \A m \in post : m[2] <= invites
        BY DEF InviteInv, SentBefore
      <3>2. <<"yes", i>>[2] <= invites
        BY <1>3
      <3> QED
        BY <1>2, <3>1, <3>2
    <2> QED
      BY <1>2, <2>1, <2>2 DEF SentBefore
  <1>9. NewestLast(b)'
    <2>1. NewestLast(b)
      BY <1>b DEF InviteInv
    <2>2. ~Invites!Own(b)'
      BY <1>b, <1>1, <1>2, <1>4 DEF Invites!Own
    <2>3. b \in listed' /\ Sorted(signing'[b])
      BY <1>2, <1>3, <1>4
    <2>4. outgoing'[b] # 0 => \A j \in AddsOf(signing'[b]) : j < outgoing'[b]
      BY <1>2, <1>3, <1>4, <2>1 DEF NewestLast
    <2> QED
      BY <2>2, <2>3, <2>4 DEF NewestLast
  <1>10. NewestLast(a)'
    <2>1. NewestLast(a)
      BY DEF InviteInv
    <2>2. a \notin listed' => secret'[a] = 0
      BY <1>b, <1>2, <1>4, <2>1 DEF NewestLast
    <2>3. Invites!Own(a)' => Invites!Own(a)
      BY <1>2, <1>4 DEF Invites!Own
    <2> QED
      BY <1>2, <1>4, <1>6, <2>1, <2>2, <2>3 DEF NewestLast
  <1>11. \A w \in Invites!Friends : NewestLast(w)'
    BY <1>b, <1>9, <1>10
  <1>12. Crossing'
    BY <1>b, <1>2, <1>6, CrossingStays
  <1>s. \/ i \in dropped'
        \/ i \in Invites!UnderWay(a) /\ \A j \in Invites!UnderWay(a) : j <= i
        \/ secret[a] = i /\ Invites!Own(a) /\ \A j \in Invites!UnderWay(a) : j <= i /\ i < j
    <2>1. CASE ~Invites!Stands(i)
      BY <1>2, <2>1
    <2>2. CASE Invites!Stands(i)
      <3>1. /\ i \in Invites!UnderWay(a) \/ secret[a] = i
            /\ \A j \in Invites!UnderWay(a) : j <= i
        BY <1>1, <2>2 DEF Invites!Stands
      <3>2. secret[a] = i => Invites!Own(a) /\ \A j \in Invites!UnderWay(a) : i < j
        BY <1>1, <1>5 DEF Invites!Own, InviteInv, NewestLast
      <3> QED
        BY <3>1, <3>2
    <2> QED
      BY <2>1, <2>2
  <1>13. NoneSwapped'
    <2>1. ~Invites!Own(a)' => ~(secret[a] = i /\ Invites!Own(a))
      BY <1>2, <1>4 DEF Invites!Own
    <2>2. ~Invites!Own(a)' => secret'[b] \in dropped' \cup Invites!UnderWay(a)'
      BY <1>4, <1>6, <1>s, <2>1
    <2>3. ASSUME NEW u \in Invites!Friends, secret'[u] # 0, ~Invites!Own(u)',
                 secret'[Invites!Other(u)] # 0, ~Invites!Own(Invites!Other(u))'
          PROVE  \/ secret'[u] \in dropped' \cup Invites!UnderWay(Invites!Other(u))'
                 \/ secret'[Invites!Other(u)] \in dropped' \cup Invites!UnderWay(u)'
      <3>1. CASE u = a
        BY <2>2, <2>3, <3>1 DEF b
      <3>2. CASE u = b
        BY <1>b, <2>2, <2>3, <3>2
      <3> QED
        BY <1>b, <3>1, <3>2
    <2> QED
      BY <2>3 DEF NoneSwapped
  <1>14. ASSUME NEW x \in Invites!Invites, IsAccepted(x)', author[x] = b
         PROVE  Kept(x, secret[Invites!Invitee(x)])'
    <2>1. Invites!Invitee(x) = a /\ Invites!Invitee(x)' = a /\ author'[x] = b
      BY <1>b, <1>2, <1>14 DEF Invites!Invitee
    <2>2. x # i
      BY <1>b, <1>1, <1>14
    <2>3. IsAccepted(x)
      BY <1>2, <1>3, <1>4, <1>14, <2>1, <2>2 DEF IsAccepted
    <2>4. PICK s : s = secret[a]
      OBVIOUS
    <2>5. Kept(x, s)
      BY <2>1, <2>3, <2>4 DEF InviteInv, AcceptedIsKept
    <2>6. \/ s \in {0, x} \cup dropped \/ x \in dropped \cup unkept
          \/ author[s] = b /\ s > x /\ s \in Invites!UnderWay(b)'
          \/ author[s] # b /\ (s \in unkept \/ {x, s} \subseteq crossed)
      BY <1>6, <1>14, <2>5 DEF Kept
    <2>7. /\ author' = author /\ unkept' = unkept /\ crossed' = crossed /\ secret'[a] = s
          /\ dropped \subseteq dropped'
      BY <1>2, <1>4, <1>5, <2>4
    <2>8. \/ s \in {0, x} \cup dropped' \/ x \in dropped' \cup unkept'
          \/ author'[s] = b /\ s > x /\ s \in Invites!UnderWay(b)'
          \/ author'[s] # b /\ (s \in unkept' \/ {x, s} \subseteq crossed')
      BY <2>6, <2>7
    <2> QED
      BY <2>1, <2>7, <2>8 DEF Kept, Invites!UnderWay
  <1>15. ASSUME NEW x \in Invites!Invites, IsAccepted(x)', author[x] = a
         PROVE  Kept(x, secret[Invites!Invitee(x)])'
    <2>1. Invites!Invitee(x) = b /\ Invites!Invitee(x)' = b /\ author'[x] = a
      BY <1>2, <1>15 DEF Invites!Invitee, b
    <2>2. \/ outgoing[a] = x \/ x \in AddsOf(signing[a]) \/ secret[a] = x
      BY <1>2, <1>4, <1>15, <2>1 DEF IsAccepted
    <2>3. x \in Invites!UnderWay(a) \/ secret[a] = x
      BY <2>2, UnderWayIs
    <2>4. CASE x = i \/ i \in dropped'
      BY <1>4, <2>1, <2>4 DEF Kept
    <2>5. CASE x # i /\ i \notin dropped'
      <3>1. x \in Nat /\ i \in Nat
        BY <1>5
      <3>2. x \notin Invites!UnderWay(a) => x = secret[a] /\ Invites!Own(a)
        BY <1>5, <1>15, <2>3 DEF Invites!Own
      <3>3. i \in Invites!UnderWay(a) /\ \A j \in Invites!UnderWay(a) : j <= i
        BY <1>s, <2>3, <2>5, <3>1
      <3>4. x < i
        <4>1. Invites!Own(a) => \A j \in Invites!UnderWay(a) : secret[a] < j
          BY DEF InviteInv, NewestLast
        <4> QED
          BY <2>5, <3>1, <3>2, <3>3, <4>1
      <3>5. author'[i] = a /\ i > x /\ i \in Invites!UnderWay(a)'
        BY <1>1, <1>2, <1>6, <3>1, <3>3, <3>4
      <3> QED
        BY <1>4, <2>1, <3>5 DEF Kept, Invites!UnderWay
    <2> QED
      BY <2>4, <2>5
  <1>16. AcceptedIsKept'
    <2>1. \A x \in Invites!Invites : author[x] = a \/ author[x] = b
      BY <1>b, InviteTypes
    <2> QED
      BY <1>14, <1>15, <2>1 DEF AcceptedIsKept
  <1> QED
    BY <1>7, <1>8, <1>11, <1>12, <1>13, <1>16 DEF InviteInv

\* acceptInvite(), when its answer is sent: it is not kept, or there is no secret yet.
LEMMA AcceptsKeeps ==
  ASSUME InviteInv, NEW i \in Invites!Invites, Invites!Accepts(i)
  PROVE  InviteInv'
  <1>1. PICK b \in Invites!Friends : b = Invites!Invitee(i)
    BY Parties
  <1> DEFINE t == Tail(signing[b])
             r == Append(t, <<"join", i>>)
  <1>2. /\ UNCHANGED <<listed, secret, outgoing, inviting, invites, author, changes, dropped,
                       crossed>>
        /\ signing[b] # <<>> /\ Head(signing[b]) = <<"accept", i>>
        /\ \A m \in post' : m \in post \/ m = <<"yes", i>>
        /\ \/ /\ b \in listed /\ signing' = [signing EXCEPT ![b] = t]
              /\ incoming' = [incoming EXCEPT ![b] = IF @ = i THEN 0 ELSE @]
              /\ unkept' = unkept \cup {i}
           \/ /\ b \notin listed /\ signing' = [signing EXCEPT ![b] = r]
              /\ incoming' = incoming /\ unkept' = unkept
    BY <1>1 DEF Invites!Accepts, Invites!IsSigned, Invites!Sends, Invites!Answered
  <1>3. /\ t \in Seq(Invites!Tasks) /\ Sorted(t) /\ Within(t, invites) /\ i <= invites
        /\ AddsOf(t) = AddsOf(signing[b])
    <2>1. "accept" \in {"auto", "accept", "join", "add"} /\ "accept" # "add"
      OBVIOUS
    <2> QED
      BY <1>2, <2>1, Ready
  <1> HIDE DEF t
  <1>4. /\ r \in Seq(Invites!Tasks) /\ Sorted(r) /\ Within(r, invites)
        /\ AddsOf(r) = AddsOf(signing[b])
    <2>1. "join" \in {"auto", "accept", "join", "add"} /\ "join" # "add" /\ invites \in Nat
      BY InviteTypes
    <2> QED
      BY <1>3, <2>1, Queued
  <1> HIDE DEF r
  <1>5. /\ signing' \in [Invites!Friends -> Seq(Invites!Tasks)]
        /\ signing'[b] \in {t, r}
        /\ \A w \in Invites!Friends : w # b => signing'[w] = signing[w]
    <2>1. signing \in [Invites!Friends -> Seq(Invites!Tasks)]
      BY InviteTypes
    <2>2. signing' = [signing EXCEPT ![b] = t] \/ signing' = [signing EXCEPT ![b] = r]
      BY <1>2
    <2> QED
      BY <1>3, <1>4, <2>1, <2>2
  <1>6. ASSUME NEW w \in Invites!Friends
        PROVE  /\ Sorted(signing'[w]) /\ Within(signing'[w], invites)
               /\ AddsOf(signing'[w]) = AddsOf(signing[w])
    <2>1. CASE w = b
      BY <1>3, <1>4, <1>5, <2>1
    <2>2. CASE w # b
      BY <1>5, <2>2, InviteNow
    <2> QED
      BY <2>1, <2>2
  <1>7. /\ incoming' \in [Invites!Friends -> 0..InviteMax]
        /\ \A w \in Invites!Friends : incoming'[w] = incoming[w] \/ incoming'[w] = 0
    <2>1. incoming \in [Invites!Friends -> 0..InviteMax] /\ 0 \in 0..InviteMax
      BY InviteTypes
    <2>2. \/ incoming' = incoming
          \/ incoming' = [incoming EXCEPT ![b] = IF @ = i THEN 0 ELSE @]
      BY <1>2
    <2> QED
      BY <2>1, <2>2
  <1>8. \A w \in Invites!Friends : incoming'[w] <= invites
    <2>1. invites \in Nat
      BY InviteTypes
    <2> QED
      BY <1>7, <2>1, InviteNow
  <1>9. /\ post' \subseteq {"invite", "yes", "no"} \X Invites!Invites
        /\ \A m \in post' : m[2] <= invites
    <2>1. /\ post \subseteq {"invite", "yes", "no"} \X Invites!Invites
          /\ \A m \in post : m[2] <= invites
      BY InviteTypes DEF InviteInv, SentBefore
    <2>2. <<"yes", i>> \in {"invite", "yes", "no"} \X Invites!Invites /\ <<"yes", i>>[2] <= invites
      BY <1>3
    <2> QED
      BY <1>2, <2>1, <2>2
  <1>10. unkept \subseteq unkept' /\ unkept' \subseteq Invites!Invites
    <2>1. unkept \subseteq Invites!Invites
      BY InviteTypes
    <2> QED
      BY <1>2, <2>1
  <1>11. ASSUME NEW x \in Invites!Invites, <<"yes", x>> \in post'
         PROVE  <<"yes", x>> \in post \/ x \in unkept' \/ secret'[Invites!Invitee(x)] = 0
    <2>1. CASE x = i
      <3>1. b \in listed => i \in unkept'
        BY <1>2
      <3>2. b \notin listed => secret'[b] = 0
        BY <1>2, InviteNow
      <3> QED
        BY <1>1, <2>1, <3>1, <3>2
    <2>2. CASE x # i
      BY <1>2, <1>11, <2>2
    <2> QED
      BY <2>1, <2>2
  <1>12. /\ listed' \subseteq Invites!Friends /\ secret' \in [Invites!Friends -> 0..InviteMax]
         /\ outgoing' \in [Invites!Friends -> 0..InviteMax] /\ inviting' \subseteq Invites!Friends
         /\ changes' \in 0..ChangeMax /\ dropped' \subseteq Invites!Invites
    BY <1>2, InviteTypes
  <1>13. \A w \in Invites!Friends : w \notin listed' => secret'[w] = 0
    BY <1>2, InviteNow
  <1>14. /\ author' = author /\ invites' = invites /\ crossed' = crossed /\ dropped' = dropped
         /\ secret' = secret /\ outgoing' = outgoing
    BY <1>2
  <1> QED
    BY <1>5, <1>6, <1>7, <1>8, <1>9, <1>10, <1>11, <1>12, <1>13, <1>14, QuietKeeps

\* The list of friends changes, or a page is reloaded: what it was adding is given up.
LEMMA ListedKeeps ==
  ASSUME InviteInv, NEW u \in Invites!Friends,
         Invites!Befriend(u) \/ Invites!Unfriend(u) \/ Invites!Reload(u)
  PROVE  InviteInv'
  <1>1. /\ UNCHANGED <<outgoing, incoming, invites, author, unkept, crossed>>
        /\ inviting' \subseteq inviting /\ post' \subseteq post /\ changes' \in 0..ChangeMax
    BY InviteTypes DEF Invites!Befriend, Invites!Unfriend, Invites!Reload, Invites!Change
  <1>2. \/ /\ signing' = signing /\ dropped' = dropped
        \/ /\ signing' = [signing EXCEPT ![u] = <<>>]
           /\ dropped' = dropped \cup AddsOf(signing[u])
    <2>1. AddsOf(signing[u]) = {i \in Invites!Invites : Invites!Contains(signing[u], <<"add", i>>)}
      BY DEF AddsOf, Invites!Contains
    <2> QED
      BY <2>1 DEF Invites!Befriend, Invites!Unfriend, Invites!Reload
  <1>3. /\ signing' \in [Invites!Friends -> Seq(Invites!Tasks)]
        /\ \A w \in Invites!Friends :
             signing'[w] = signing[w] \/ (signing'[w] = <<>> /\ AddsOf(signing[w]) \subseteq dropped')
    <2>1. signing \in [Invites!Friends -> Seq(Invites!Tasks)]
      BY InviteTypes
    <2> QED
      BY <1>2, <2>1, NoQueue
  <1>4. dropped \subseteq dropped' /\ dropped' \subseteq Invites!Invites
    BY <1>2, InviteTypes DEF AddsOf
  <1>5. ASSUME NEW w \in Invites!Friends
        PROVE  /\ Sorted(signing'[w]) /\ Within(signing'[w], invites)
               /\ AddsOf(signing'[w]) \subseteq AddsOf(signing[w])
               /\ AddsOf(signing[w]) \subseteq AddsOf(signing'[w]) \cup dropped'
    <2>1. invites \in Nat
      BY InviteTypes
    <2>2. CASE signing'[w] = signing[w]
      BY <2>2, InviteNow
    <2>3. CASE signing'[w] = <<>> /\ AddsOf(signing[w]) \subseteq dropped'
      BY <2>1, <2>3, NoQueue
    <2> QED
      BY <1>3, <2>2, <2>3
  <1>6. /\ listed' \subseteq Invites!Friends /\ secret' \in [Invites!Friends -> 0..InviteMax]
        /\ \A w \in Invites!Friends :
             /\ secret'[w] = secret[w] \/ secret'[w] = 0
             /\ w \notin listed' => secret'[w] = 0
    <2>1. /\ listed \subseteq Invites!Friends /\ secret \in [Invites!Friends -> 0..InviteMax]
          /\ 0 \in 0..InviteMax /\ \A w \in Invites!Friends : w \notin listed => secret[w] = 0
      BY InviteTypes, InviteNow
    <2>2. \/ listed \subseteq listed' /\ listed' \subseteq listed \cup {u} /\ secret' = secret
          \/ listed' = listed \ {u} /\ secret' = [secret EXCEPT ![u] = 0]
      BY DEF Invites!Befriend, Invites!Unfriend, Invites!Reload
    <2> QED
      BY <2>1, <2>2
  <1>7. /\ post' \subseteq {"invite", "yes", "no"} \X Invites!Invites
        /\ \A m \in post' : m[2] <= invites
    BY <1>1, InviteTypes DEF InviteInv, SentBefore
  <1>8. /\ outgoing' \in [Invites!Friends -> 0..InviteMax]
        /\ incoming' \in [Invites!Friends -> 0..InviteMax] /\ inviting' \subseteq Invites!Friends
        /\ unkept' \subseteq Invites!Invites
    BY <1>1, InviteTypes
  <1>9. \A w \in Invites!Friends : incoming'[w] <= invites
    BY <1>1, InviteNow
  <1> QED
    BY <1>1, <1>3, <1>4, <1>5, <1>6, <1>7, <1>8, <1>9, QuietKeeps

\* Every step keeps it.
LEMMA InviteInvStep == InviteInv /\ [Invites!Next]_(Invites!inviteVars) => InviteInv'
  <1> SUFFICES ASSUME InviteInv, [Invites!Next]_(Invites!inviteVars) PROVE InviteInv'
    OBVIOUS
  <1>1. CASE UNCHANGED Invites!inviteVars
    <2>1. UNCHANGED <<listed, secret, outgoing, incoming, inviting, signing, post, invites, author,
                      changes, dropped, unkept, crossed>>
      BY <1>1 DEF Invites!inviteVars
    <2> QED
      BY <2>1 DEF InviteInv, Invites!TypeOK, SentBefore, NewestLast, Crossing, AcceptedIsKept,
         IsAccepted, Kept, NoneSwapped, Invites!Own, Invites!UnderWay, Invites!Invitee
  <1>2. ASSUME NEW u \in Invites!Friends,
               \/ Invites!BeginInvite(u) \/ Invites!Resend(u) \/ Invites!Withdraw(u)
               \/ Invites!Accept(u) \/ Invites!Decline(u)
        PROVE  InviteInv'
    <2>1. CASE Invites!BeginInvite(u) \/ Invites!Resend(u) \/ Invites!Withdraw(u)
      BY <2>1, OutgoingKeeps
    <2>2. CASE Invites!Accept(u) \/ Invites!Decline(u)
      <3>1. incoming[u] \in Invites!Invites
        BY <2>2, InviteNow DEF Invites!Accept, Invites!Decline
      <3> QED
        BY <2>2, <3>1, AskKeeps
    <2> QED
      BY <1>2, <2>1, <2>2
  <1>3. ASSUME NEW u \in Invites!Friends,
               \/ Invites!Invite(u) \/ Invites!Befriend(u) \/ Invites!Unfriend(u)
               \/ Invites!Reload(u)
        PROVE  InviteInv'
    BY <1>3, InviteKeeps, ListedKeeps
  <1>4. ASSUME NEW i \in Invites!Invites, Invites!ReceiveNo(i) \/ Invites!ReceiveInvite(i)
        PROVE  InviteInv'
    BY <1>4, TwoFriends, OutgoingKeeps, AskKeeps
  <1>5. ASSUME NEW i \in Invites!Invites,
               \/ Invites!ReceiveYes(i) \/ Invites!Added(i) \/ Invites!AutoAccepted(i)
               \/ Invites!Accepts(i) \/ Invites!Joined(i)
        PROVE  InviteInv'
    BY <1>5, AnswerKeeps, AddedKeeps, EntryKeeps, AcceptsKeeps
  <1> QED
    BY <1>1, <1>2, <1>3, <1>4, <1>5 DEF Invites!Next

\* Two friends who both have a secret have the same one once their invites are settled; unless one
\* of the secrets is of an invite its author had let go, or of the user's own that was accepted but
\* not kept, or each has that of its own invite, and the two had crossed (inviteAction,
\* inviteRespAction, acceptInvite()).
THEOREM FriendsShareARoom == PageSpec => []OneRoom
  <1>1. PageInit => InviteInv
    BY PartsBegin, InviteInvBegins
  <1>2. InviteInv /\ [PageNext]_vars => InviteInv'
    BY PartsStep, InviteInvStep
  <1>3. InviteInv => OneRoom
    BY SettledShareARoom
  <1> QED
    BY <1>1, <1>2, <1>3, PTL DEF PageSpec

------------------------------------------------------------------------------------
(* The list of channels. *)

\* Every change allows the times to exceed the clocks by one.
Latest == TimeMax + edits

\* No time is later.
StampsBounded ==
  /\ \A r \in Members : \A x \in list[r] : x.at <= Latest
  /\ \A r \in Members : \A c \in Chans : tomb[r][c] <= Latest
  /\ \A x \in announced : x.at <= Latest

\* Member r has the newest of what it heard of each channel: an entry that is later than every
\* removal and the tombstone, or none, and then nothing is later than the tombstone; which is of
\* a removal it heard of.  Of channels with long ids it heard nothing.
NewestKept(r) ==
  /\ \A x \in list[r] :
       /\ tomb[r][x.id] < x.at
       /\ x.id \notin LongIds => List!Cut(x) \in heard[r]
       /\ \A y \in heard[r] :
            y.id = x.id => y.at <= x.at /\ (y \in List!Removal => y.at < x.at)
  /\ \A y \in heard[r] : y.id \notin LongIds
  /\ \A y \in heard[r] : ~List!Has(r, y.id) => y.at <= tomb[r][y.id]
  /\ \A c \in Chans :
       \/ tomb[r][c] = 0
       \/ \E y \in heard[r] : y \in List!Removal /\ y.id = c /\ y.at = tomb[r][c]

\* ListsConverge with what makes it inductive.
ListInv ==
  /\ List!TypeOK /\ StampsBounded
  /\ \A r \in Members : IsFiniteSet(list[r]) /\ (r \notin full => NewestKept(r))

\* The types, and the constants.
LEMMA ListTypes ==
  ASSUME List!TypeOK
  PROVE  /\ TimeMax \in Nat \ {0} /\ EditMax \in Nat /\ edits \in Nat /\ edits <= EditMax
         /\ list \in [Members -> SUBSET List!ChannelType]
         /\ \A r \in Members : \A x, y \in list[r] : x.id = y.id => x = y
         /\ tomb \in [Members -> [Chans -> {0} \cup List!Times]]
         /\ announced \subseteq List!ChannelType \cup List!Removal
         /\ heard \in [Members -> SUBSET (List!ChannelType \cup List!Removal)]
         /\ full \subseteq Members /\ Latest \in Nat /\ ListMax \in Nat
         /\ List!Times = 1..(TimeMax + EditMax)
  <1>1. TimeMax \in Nat \ {0} /\ EditMax \in Nat /\ ListMax \in Nat
    BY PageAssumption DEF List!ListAssumption
  <1> QED
    BY <1>1 DEF List!TypeOK, Latest, List!Times

\* A change has a channel and a time, and is an announced channel or a removal.
LEMMA ChangeFields ==
  ASSUME NEW y \in List!ChannelType \cup List!Removal
  PROVE  /\ y.id \in Chans /\ y.at \in List!Times
         /\ y \in List!ChannelType => y \notin List!Removal /\ y.name \in Names /\ y.order \in Nat
  <1>1. y.id \in Chans /\ y.at \in List!Times
    BY DEF List!ChannelType, List!Removal
  <1>2. ASSUME y \in List!ChannelType, y \in List!Removal PROVE FALSE
    <2>1. "name" \in DOMAIN y /\ DOMAIN y = {"id", "at", "removed"}
      BY <1>2 DEF List!ChannelType, List!Removal
    <2> QED
      BY <2>1
  <1>3. y \in List!ChannelType => y.name \in Names /\ y.order \in Nat
    BY DEF List!ChannelType
  <1> QED
    BY <1>1, <1>2, <1>3

\* What is taken over of a change: another name perhaps.
LEMMA CutIs ==
  ASSUME NEW y \in List!ChannelType \cup List!Removal
  PROVE  /\ List!Cut(y).id = y.id /\ List!Cut(y).at = y.at
         /\ y \in List!ChannelType =>
              List!Cut(y) \in List!ChannelType /\ List!Cut(y) \notin List!Removal
         /\ y \in List!Removal => List!Cut(y) = y
         /\ List!Cut(y) \in List!ChannelType \cup List!Removal
         /\ List!Cut(List!Cut(y)) = List!Cut(y)
  <1>1. CASE y \in List!ChannelType
    <2>1. List!Cut(y) = [y EXCEPT !.long = FALSE]
      BY <1>1 DEF List!Cut
    <2>2. /\ List!Cut(y) \in List!ChannelType /\ List!Cut(y).long = FALSE
          /\ List!Cut(y).id = y.id /\ List!Cut(y).at = y.at
      BY <1>1, <2>1 DEF List!ChannelType
    <2>3. List!Cut(List!Cut(y)) = [List!Cut(y) EXCEPT !.long = FALSE]
      BY <2>2 DEF List!Cut
    <2>4. List!Cut(List!Cut(y)) = List!Cut(y)
      BY <1>1, <2>1, <2>3 DEF List!ChannelType
    <2>5. List!Cut(y) \notin List!Removal /\ y \notin List!Removal
      BY <1>1, <2>2, ChangeFields
    <2> QED
      BY <2>2, <2>4, <2>5
  <1>2. CASE y \in List!Removal
    <2>1. y \notin List!ChannelType
      BY <1>2, ChangeFields
    <2>2. List!Cut(y) = y
      BY <2>1 DEF List!Cut
    <2> QED
      BY <1>2, <2>1, <2>2
  <1> QED
    BY <1>1, <1>2

\* The changes taken over of X.
LEMMA TakenIs ==
  ASSUME NEW X \in SUBSET (List!ChannelType \cup List!Removal)
  PROVE  /\ List!Taken(X) \subseteq List!ChannelType \cup List!Removal
         /\ \A z \in List!Taken(X) : z.id \notin LongIds /\
              \E y \in X : z = List!Cut(y) /\ z.id = y.id /\ z.at = y.at
                           /\ (z \in List!Removal => y \in List!Removal)
         /\ \A y \in X : y.id \notin LongIds => List!Cut(y) \in List!Taken(X)
  <1>1. ASSUME NEW z \in List!Taken(X)
        PROVE  /\ z \in List!ChannelType \cup List!Removal /\ z.id \notin LongIds
               /\ \E y \in X : z = List!Cut(y) /\ z.id = y.id /\ z.at = y.at
                            /\ (z \in List!Removal => y \in List!Removal)
    <2>1. PICK y \in X : y.id \notin LongIds /\ z = List!Cut(y)
      BY DEF List!Taken
    <2>2. /\ z \in List!ChannelType \cup List!Removal /\ z.id = y.id /\ z.at = y.at
          /\ (z \in List!Removal => y \in List!Removal)
      BY <2>1, CutIs
    <2> QED
      BY <2>1, <2>2
  <1>2. \A y \in X : y.id \notin LongIds => List!Cut(y) \in List!Taken(X)
    BY DEF List!Taken
  <1> QED
    BY <1>1, <1>2

\* Of one change.
LEMMA TakenOne ==
  ASSUME NEW x \in List!ChannelType \cup List!Removal
  PROVE  /\ x.id \in LongIds => List!Taken({x}) = {}
         /\ x.id \notin LongIds => List!Taken({x}) = {List!Cut(x)}
         /\ List!Taken({List!Cut(x)}) = List!Taken({x})
  <1>1. x.id \in LongIds => List!Taken({x}) = {}
    BY DEF List!Taken
  <1>2. x.id \notin LongIds => List!Taken({x}) = {List!Cut(x)}
    BY DEF List!Taken
  <1>3. List!Cut(x).id = x.id /\ List!Cut(List!Cut(x)) = List!Cut(x)
    BY CutIs
  <1>4. x.id \in LongIds => List!Taken({List!Cut(x)}) = {}
    BY <1>3 DEF List!Taken
  <1>5. x.id \notin LongIds => List!Taken({List!Cut(x)}) = {List!Cut(x)}
    <2> DEFINE z == List!Cut(x)
    <2>1. x.id \notin LongIds => z.id \notin LongIds /\ List!Cut(z) = z
      BY <1>3
    <2> HIDE DEF z
    <2>2. x.id \notin LongIds => List!Taken({z}) = {z}
      BY <2>1 DEF List!Taken
    <2> QED
      BY <2>2 DEF z
  <1> QED
    BY <1>1, <1>2, <1>4, <1>5

\* Members that heard the same have the same list, up to what is cut.
LEMMA NewestConverge == ListInv => ListsConverge
  <1> SUFFICES ASSUME ListInv,
                      NEW r \in Members, NEW q \in Members, heard[r] = heard[q],
                      ~List!Tied(heard[r]), r \notin full, q \notin full
               PROVE  List!Taken(list[r]) = List!Taken(list[q])
    BY DEF ListsConverge, List!ListsConverge
  <1>t. List!TypeOK
    BY DEF ListInv
  <1>c. \A a \in Members : list[a] \subseteq List!ChannelType
    BY <1>t, ListTypes
  <1>1. ASSUME NEW a \in Members, NEW b \in Members, heard[a] = heard[b],
               ~List!Tied(heard[a]), a \notin full, b \notin full, NEW x \in list[a],
               x.id \notin LongIds
        PROVE  List!Cut(x) \in List!Taken(list[b])
    <2>1. NewestKept(a) /\ NewestKept(b)
      BY <1>1 DEF ListInv
    <2>2. /\ List!Cut(x) \in heard[b] /\ List!Cut(x) \in heard[a]
          /\ List!Cut(x) \in List!ChannelType
          /\ List!Cut(x).id = x.id /\ List!Cut(x).at = x.at
          /\ x \in List!ChannelType /\ x.id \in Chans /\ x.at \in Nat \ {0}
      <3>1. x \in List!ChannelType /\ List!Cut(x) \in heard[a]
        BY <1>1, <1>c, <2>1 DEF NewestKept
      <3>2. x.id \in Chans /\ x.at \in List!Times
        BY <3>1, ChangeFields
      <3> QED
        BY <1>1, <1>t, <3>1, <3>2, ListTypes, CutIs
    <2>3. CASE List!Has(b, x.id)
      <3>1. PICK y \in list[b] : y.id = x.id
        BY <2>3 DEF List!Has
      <3>2. /\ List!Cut(y) \in heard[a] /\ y \in List!ChannelType
            /\ List!Cut(y) \in List!ChannelType
            /\ List!Cut(y).id = y.id /\ List!Cut(y).at = y.at
        BY <1>1, <1>c, <2>1, <3>1, CutIs DEF NewestKept
      <3>3. y.at \in Nat
        <4>1. y.at \in List!Times
          BY <3>2, ChangeFields
        <4> QED
          BY <1>t, <4>1, ListTypes
      <3>4. y.at <= x.at /\ x.at <= y.at
        BY <1>1, <2>1, <2>2, <3>1, <3>2 DEF NewestKept
      <3>5. y.at = x.at
        BY <2>2, <3>3, <3>4
      <3>6. List!Cut(x) = List!Cut(y)
        BY <1>1, <2>2, <3>1, <3>2, <3>5 DEF List!Tied
      <3>7. List!Cut(y) \in List!Taken(list[b])
        BY <1>1, <1>c, <3>1, TakenIs
      <3> QED
        BY <3>6, <3>7
    <2>4. CASE ~List!Has(b, x.id)
      <3>1. x.at <= tomb[b][x.id]
        BY <2>1, <2>2, <2>4 DEF NewestKept
      <3>2. tomb[b][x.id] # 0
        BY <2>2, <3>1
      <3>3. PICK y \in heard[b] : y \in List!Removal /\ y.id = x.id /\ y.at = tomb[b][x.id]
        BY <2>1, <2>2, <3>2 DEF NewestKept
      <3>4. y.at < x.at
        BY <1>1, <2>1, <3>3 DEF NewestKept
      <3>5. y.at \in Nat
        <4>1. y.at \in List!Times
          BY <3>3, ChangeFields
        <4> QED
          BY <1>t, <4>1, ListTypes
      <3> QED
        BY <2>2, <3>1, <3>3, <3>4, <3>5
    <2> QED
      BY <2>3, <2>4
  <1>2. ASSUME NEW a \in Members, NEW b \in Members, heard[a] = heard[b],
               ~List!Tied(heard[a]), a \notin full, b \notin full
        PROVE  List!Taken(list[a]) \subseteq List!Taken(list[b])
    <2> SUFFICES ASSUME NEW z \in List!Taken(list[a]) PROVE z \in List!Taken(list[b])
      OBVIOUS
    <2>1. PICK x \in list[a] : x.id \notin LongIds /\ z = List!Cut(x)
      BY DEF List!Taken
    <2> QED
      BY <1>1, <1>2, <2>1
  <1>3. List!Taken(list[r]) \subseteq List!Taken(list[q])
    BY <1>2
  <1>4. List!Taken(list[q]) \subseteq List!Taken(list[r])
    BY <1>2
  <1> QED
    BY <1>3, <1>4

\* It holds in the beginning.
LEMMA ListInvBegins == List!Init => ListInv
  <1> SUFFICES ASSUME List!Init PROVE ListInv
    OBVIOUS
  <1>1. /\ list = [r \in Members |-> {}] /\ tomb = [r \in Members |-> [c \in Chans |-> 0]]
        /\ announced = {} /\ edits = 0 /\ heard = [r \in Members |-> {}] /\ full = {}
    BY DEF List!Init
  <1>2. List!TypeOK
    <2>1. EditMax \in Nat
      BY PageAssumption DEF List!ListAssumption
    <2> QED
      BY <1>1, <2>1 DEF List!TypeOK
  <1>3. StampsBounded
    BY <1>1, <1>2, ListTypes DEF StampsBounded, Latest
  <1>4. ASSUME NEW r \in Members PROVE IsFiniteSet(list[r]) /\ NewestKept(r)
    BY <1>1, FS_EmptySet DEF NewestKept
  <1> QED
    BY <1>2, <1>3, <1>4 DEF ListInv

\* A bounded set of times has a latest.
LEMMA Largest ==
  ASSUME NEW T \in SUBSET Nat, T # {}, NEW L \in Nat, \A t \in T : t <= L
  PROVE  \E m \in T : \A t \in T : t <= m
  <1> DEFINE D == {d \in Nat : \E t \in T : d = L - t}
  <1>1. PICK t0 \in T : TRUE
    OBVIOUS
  <1>2. L - t0 \in D
    BY <1>1
  <1>3. PICK d \in D : \A e \in D : d <= e
    <2> D \in SUBSET Nat /\ D # {}
      BY <1>2
    <2> HIDE DEF D
    <2> QED
      BY Smallest
  <1>4. PICK m \in T : d = L - m
    BY <1>3
  <1>5. ASSUME NEW t \in T PROVE t <= m
    <2>1. L - t \in D
      OBVIOUS
    <2>2. d <= L - t
      BY <1>3, <2>1
    <2> QED
      BY <1>4, <2>2
  <1> QED
    BY <1>5

\* The time of a change is the clock's or just after what it follows, and so later than that.
LEMMA Stamped ==
  ASSUME List!TypeOK, NEW T \in SUBSET Nat, \A t \in T : t <= Latest, edits < EditMax,
         NEW at \in List!Stamps(T)
  PROVE  /\ at \in List!Times /\ at <= Latest + 1 /\ at \in Nat
         /\ \A t \in T : t < at
  <1>t. TimeMax \in Nat \ {0} /\ EditMax \in Nat /\ edits \in Nat /\ Latest \in Nat
    BY ListTypes
  <1>1. PICK clock \in 1..TimeMax : at = List!Max({clock} \cup {t + 1 : t \in T})
    BY DEF List!Stamps
  <1> DEFINE S == {clock} \cup {t + 1 : t \in T}
  <1>2. S \in SUBSET Nat /\ S # {} /\ (\A s \in S : s <= Latest + 1) /\ Latest + 1 \in Nat
    <2>1. clock \in Nat /\ clock <= TimeMax /\ TimeMax <= Latest
      BY <1>t DEF Latest
    <2>2. ASSUME NEW s \in S PROVE s \in Nat /\ s <= Latest + 1
      <3>1. CASE s = clock
        BY <1>t, <2>1, <3>1
      <3>2. ASSUME NEW t \in T, s = t + 1 PROVE s \in Nat /\ s <= Latest + 1
        BY <1>t, <3>2
      <3> QED
        BY <2>2, <3>1, <3>2
    <2> QED
      BY <1>t, <2>2
  <1>3. clock \in S /\ \A t \in T : t + 1 \in S
    OBVIOUS
  <1>4. at = List!Max(S)
    BY <1>1
  <1> HIDE DEF S
  <1>5. \E m \in S : \A s \in S : s <= m
    BY <1>2, Largest
  <1>6. \E m \in S : \A s \in S : m >= s
    <2>1. PICK m \in S : \A s \in S : s <= m
      BY <1>5
    <2>2. \A s \in S : m >= s
      BY <1>2, <2>1
    <2> QED
      BY <2>2
  <1>7. at \in S /\ \A s \in S : at >= s
    BY <1>4, <1>6 DEF List!Max
  <1>8. at \in Nat /\ at <= Latest + 1 /\ at >= clock
    BY <1>2, <1>3, <1>7
  <1>9. ASSUME NEW t \in T PROVE t < at
    <2>1. at >= t + 1
      BY <1>3, <1>7
    <2> QED
      BY <1>8, <2>1
  <1>10. at \in List!Times
    BY <1>t, <1>8 DEF Latest, List!Times
  <1> QED
    BY <1>8, <1>9, <1>10

\* A member has one entry of a channel, or none.
LEMMA EntryOf ==
  ASSUME List!TypeOK, NEW r \in Members, NEW c
  PROVE  /\ List!Has(r, c) => /\ List!The(r, c) \in list[r] /\ List!The(r, c).id = c
                              /\ \A x \in list[r] : x.id = c => x = List!The(r, c)
         /\ ~List!Has(r, c) => List!Others(r, c) = list[r]
         /\ List!Others(r, c) \subseteq list[r]
         /\ \A x \in list[r] : x \in List!Others(r, c) \/ x.id = c
         /\ \A x \in List!Others(r, c) : x.id # c
  <1>1. ASSUME List!Has(r, c)
        PROVE  /\ List!The(r, c) \in list[r] /\ List!The(r, c).id = c
               /\ \A x \in list[r] : x.id = c => x = List!The(r, c)
    <2>1. \E x \in list[r] : x.id = c
      BY <1>1 DEF List!Has
    <2>2. List!The(r, c) \in list[r] /\ List!The(r, c).id = c
      BY <2>1 DEF List!The
    <2> HIDE DEF List!The
    <2> QED
      BY <2>2, ListTypes
  <1>2. ~List!Has(r, c) => List!Others(r, c) = list[r]
    BY DEF List!Has, List!Others
  <1> QED
    BY <1>1, <1>2 DEF List!Others

\* What a step of member r has to keep: it leaves the others alone.
LEMMA MemberKeeps ==
  ASSUME ListInv, NEW r \in Members, NEW L, NEW U, NEW X,
         edits' \in Nat, edits <= edits', edits' <= EditMax,
         announced' \in {announced, announced \cup X},
         X \subseteq List!ChannelType \cup List!Removal, \A x \in X : x.at <= Latest',
         full \subseteq full', full' \subseteq Members,
         list' = [list EXCEPT ![r] = L], L \subseteq List!ChannelType, IsFiniteSet(L),
         \A x, y \in L : x.id = y.id => x = y, \A x \in L : x.at <= Latest',
         tomb' = [tomb EXCEPT ![r] = U], U \in [Chans -> {0} \cup List!Times],
         \A c \in Chans : U[c] <= Latest',
         heard' = [heard EXCEPT ![r] = @ \cup List!Taken(X)],
         r \notin full' => NewestKept(r)'
  PROVE  ListInv'
  <1>t. List!TypeOK
    BY DEF ListInv
  <1>l. Latest <= Latest' /\ Latest \in Nat /\ Latest' \in Nat
    BY <1>t, ListTypes DEF Latest
  <1>1. /\ list'[r] = L /\ tomb'[r] = U /\ heard'[r] = heard[r] \cup List!Taken(X)
        /\ \A q \in Members : q # r =>
             list'[q] = list[q] /\ tomb'[q] = tomb[q] /\ heard'[q] = heard[q]
    BY <1>t, ListTypes
  <1>2. List!TypeOK'
    <2>1. list' \in [Members -> SUBSET List!ChannelType]
      BY <1>t, ListTypes
    <2>2. ASSUME NEW q \in Members, NEW x \in list'[q], NEW y \in list'[q], x.id = y.id
          PROVE  x = y
      BY <1>t, <1>1, <2>2, ListTypes
    <2>3. tomb' \in [Members -> [Chans -> {0} \cup List!Times]]
      BY <1>t, ListTypes
    <2>4. announced' \subseteq List!ChannelType \cup List!Removal
      BY <1>t, ListTypes
    <2>5. heard' \in [Members -> SUBSET (List!ChannelType \cup List!Removal)]
      <3>1. List!Taken(X) \subseteq List!ChannelType \cup List!Removal
        BY TakenIs
      <3> QED
        BY <1>t, <3>1, ListTypes
    <2>6. edits' \in 0..EditMax
      BY <1>t, ListTypes
    <2> QED
      BY <2>1, <2>2, <2>3, <2>4, <2>5, <2>6 DEF List!TypeOK
  <1>3. StampsBounded'
    <2>1. ASSUME NEW q \in Members, NEW x \in list'[q] PROVE x.at <= Latest'
      <3>1. CASE q = r
        BY <1>1, <2>1, <3>1
      <3>2. CASE q # r
        <4>1. x \in list[q] /\ x.at <= Latest
          BY <1>1, <2>1, <3>2 DEF ListInv, StampsBounded
        <4>2. x.at \in Nat
          <5>1. x \in List!ChannelType \cup List!Removal
            BY <1>t, <4>1, ListTypes
          <5>2. x.at \in List!Times
            BY <5>1, ChangeFields
          <5> QED
            BY <1>t, <5>2, ListTypes
        <4> QED
          BY <1>l, <4>1, <4>2
      <3> QED
        BY <3>1, <3>2
    <2>2. ASSUME NEW q \in Members, NEW c \in Chans PROVE tomb'[q][c] <= Latest'
      <3>1. CASE q = r
        BY <1>1, <3>1
      <3>2. CASE q # r
        <4>1. tomb[q][c] <= Latest /\ tomb'[q] = tomb[q]
          BY <1>1, <3>2 DEF ListInv, StampsBounded
        <4>2. tomb[q][c] \in Nat
          BY <1>t, ListTypes
        <4> QED
          BY <1>l, <4>1, <4>2
      <3> QED
        BY <3>1, <3>2
    <2>3. ASSUME NEW x \in announced' PROVE x.at <= Latest'
      <3>1. CASE x \in X
        BY <3>1
      <3>2. CASE x \in announced
        <4>1. x.at <= Latest
          BY <3>2 DEF ListInv, StampsBounded
        <4>2. x.at \in Nat
          <5>1. x \in List!ChannelType \cup List!Removal
            BY <1>t, <3>2, ListTypes
          <5>2. x.at \in List!Times
            BY <5>1, ChangeFields
          <5> QED
            BY <1>t, <5>2, ListTypes
        <4> QED
          BY <1>l, <4>1, <4>2
      <3> QED
        BY <2>3, <3>1, <3>2
    <2> QED
      BY <2>1, <2>2, <2>3 DEF StampsBounded
  <1>4. ASSUME NEW q \in Members PROVE IsFiniteSet(list'[q]) /\ (q \notin full' => NewestKept(q)')
    <2>1. CASE q = r
      BY <1>1, <2>1
    <2>2. CASE q # r
      <3>1. list'[q] = list[q] /\ tomb'[q] = tomb[q] /\ heard'[q] = heard[q]
        BY <1>1, <2>2
      <3>2. IsFiniteSet(list[q]) /\ (q \notin full => NewestKept(q))
        BY DEF ListInv
      <3>3. ASSUME NewestKept(q) PROVE NewestKept(q)'
        BY <3>1, <3>3 DEF NewestKept, List!Has
      <3> QED
        BY <3>1, <3>2, <3>3
    <2> QED
      BY <2>1, <2>2
  <1> QED
    BY <1>2, <1>3, <1>4 DEF ListInv

\* A newer change of a channel takes the place of what member r has of it.
LEMMA PutKeeps ==
  ASSUME ListInv, NEW r \in Members, NEW x \in List!ChannelType,
         edits' \in Nat, edits <= edits', edits' <= EditMax,
         announced' \in {announced, announced \cup {x}}, x.at <= Latest', UNCHANGED <<tomb, full>>,
         list' = [list EXCEPT ![r] = List!Others(r, x.id) \cup {x}],
         heard' = [heard EXCEPT ![r] = @ \cup List!Taken({x})],
         r \notin full => tomb[r][x.id] < x.at,
         List!Has(r, x.id) => List!The(r, x.id).at < x.at
  PROVE  ListInv'
  <1>t. List!TypeOK
    BY DEF ListInv
  <1>x. x.id \in Chans /\ x.at \in Nat /\ x \notin List!Removal
    <2>1. x.at \in List!Times /\ x.id \in Chans /\ x \notin List!Removal
      BY ChangeFields
    <2> QED
      BY <1>t, <2>1, ListTypes
  <1> DEFINE L == List!Others(r, x.id) \cup {x}
             X == {x}
  <1>l. Latest <= Latest' /\ Latest \in Nat /\ Latest' \in Nat
    BY <1>t, ListTypes DEF Latest
  <1>n. ASSUME NEW y \in List!ChannelType \cup List!Removal PROVE y.at \in Nat
    <2>1. y.at \in List!Times
      BY ChangeFields
    <2> QED
      BY <1>t, <2>1, ListTypes
  <1>1. L \subseteq List!ChannelType /\ IsFiniteSet(L)
    <2>1. List!Others(r, x.id) \subseteq list[r] /\ IsFiniteSet(list[r])
      BY <1>t, EntryOf DEF ListInv
    <2>2. IsFiniteSet(List!Others(r, x.id))
      BY <2>1, FS_Subset
    <2> QED
      BY <1>t, <2>1, <2>2, FS_AddElement, ListTypes
  <1>2. \A y, z \in L : y.id = z.id => y = z
    BY <1>t, EntryOf, ListTypes
  <1>3. ASSUME NEW y \in L PROVE y.at <= Latest'
    <2>1. CASE y = x
      BY <2>1
    <2>2. CASE y # x
      <3>1. y \in list[r]
        BY <1>t, <1>3, <2>2, EntryOf
      <3>2. y.at <= Latest
        BY <3>1 DEF ListInv, StampsBounded
      <3>3. y.at \in Nat
        BY <1>t, <1>n, <3>1, ListTypes
      <3> QED
        BY <1>l, <3>2, <3>3
    <2> QED
      BY <2>1, <2>2
  <1>4. /\ tomb' = [tomb EXCEPT ![r] = tomb[r]] /\ tomb[r] \in [Chans -> {0} \cup List!Times]
        /\ \A c \in Chans : tomb[r][c] <= Latest'
    <2>1. tomb[r] \in [Chans -> {0} \cup List!Times] /\ tomb' = [tomb EXCEPT ![r] = tomb[r]]
      BY <1>t, ListTypes
    <2>2. ASSUME NEW c \in Chans PROVE tomb[r][c] <= Latest'
      <3>1. tomb[r][c] <= Latest
        BY DEF ListInv, StampsBounded
      <3>2. tomb[r][c] \in Nat
        BY <1>t, <2>1, ListTypes
      <3> QED
        BY <1>l, <3>1, <3>2
    <2> QED
      BY <2>1, <2>2
  <1>5. ASSUME r \notin full PROVE NewestKept(r)'
    <2>0. NewestKept(r)
      BY <1>5 DEF ListInv
    <2>k. tomb[r][x.id] < x.at
      BY <1>5
    <2>1. list'[r] = L /\ tomb'[r] = tomb[r] /\ heard'[r] = heard[r] \cup List!Taken({x})
      BY <1>t, ListTypes
    <2>c. /\ List!Taken({x}) \subseteq {List!Cut(x)}
          /\ x.id \in LongIds => List!Taken({x}) = {}
          /\ x.id \notin LongIds => List!Taken({x}) = {List!Cut(x)}
          /\ List!Cut(x).id = x.id /\ List!Cut(x).at = x.at
          /\ List!Cut(x) \notin List!Removal
      BY <1>x, TakenOne, CutIs
    <2>h. heard[r] \subseteq List!ChannelType \cup List!Removal
      BY <1>t, ListTypes
    <2>2. ASSUME NEW y \in heard[r], y.id = x.id PROVE y.at < x.at
      <3>1. y.at \in Nat
        BY <1>n, <2>h
      <3>2. CASE List!Has(r, x.id)
        <4>1. /\ List!The(r, x.id) \in list[r] /\ List!The(r, x.id).id = x.id
              /\ List!The(r, x.id).at < x.at
          BY <1>t, <3>2, EntryOf
        <4>2. List!The(r, x.id).at \in Nat
          BY <1>t, <1>n, <4>1, ListTypes
        <4>3. y.at <= List!The(r, x.id).at
          BY <2>0, <2>2, <4>1 DEF NewestKept
        <4> QED
          BY <1>x, <3>1, <4>1, <4>2, <4>3
      <3>3. CASE ~List!Has(r, x.id)
        <4>1. y.at <= tomb[r][x.id] /\ tomb[r][x.id] \in Nat
          BY <1>t, <1>x, <2>0, <2>2, <3>3, ListTypes DEF NewestKept
        <4> QED
          BY <1>x, <2>k, <3>1, <4>1
      <3> QED
        BY <3>2, <3>3
    <2>3. ASSUME NEW z \in L
          PROVE  /\ tomb'[r][z.id] < z.at
                 /\ z.id \notin LongIds => List!Cut(z) \in heard'[r]
                 /\ \A y \in heard'[r] :
                      y.id = z.id => y.at <= z.at /\ (y \in List!Removal => y.at < z.at)
      <3>1. CASE z = x
        <4>1. ASSUME NEW y \in heard'[r], y.id = z.id
              PROVE  y.at <= z.at /\ (y \in List!Removal => y.at < z.at)
          <5>1. CASE y = List!Cut(x)
            BY <1>x, <2>c, <3>1, <5>1
          <5>2. CASE y # List!Cut(x)
            <6>1. y \in heard[r]
              BY <2>1, <2>c, <4>1, <5>2
            <6>2. y.at < x.at /\ y.at \in Nat
              BY <1>n, <2>2, <2>h, <3>1, <4>1, <6>1
            <6> QED
              BY <1>x, <3>1, <6>2
          <5> QED
            BY <5>1, <5>2
        <4> QED
          BY <2>1, <2>c, <2>k, <3>1, <4>1
      <3>2. CASE z # x
        <4>1. z \in list[r] /\ z.id # x.id
          BY <1>t, <2>3, <3>2, EntryOf
        <4> QED
          BY <2>0, <2>1, <2>c, <4>1 DEF NewestKept
      <3> QED
        BY <3>1, <3>2
    <2>4. ASSUME NEW y \in heard'[r], ~List!Has(r, y.id)' PROVE y.at <= tomb'[r][y.id]
      <3>1. y.id # x.id
        BY <2>1, <2>4 DEF List!Has
      <3>2. y \in heard[r]
        BY <2>1, <2>c, <2>4, <3>1
      <3>3. ~List!Has(r, y.id)
        BY <1>t, <2>1, <2>4, <3>1, EntryOf DEF List!Has
      <3> QED
        BY <2>0, <2>1, <3>2, <3>3 DEF NewestKept
    <2>6. \A y \in heard'[r] : y.id \notin LongIds
      BY <2>0, <2>1, <2>c DEF NewestKept
    <2>5. ASSUME NEW c \in Chans
          PROVE  \/ tomb'[r][c] = 0
                 \/ \E y \in heard'[r] : y \in List!Removal /\ y.id = c /\ y.at = tomb'[r][c]
      BY <2>0, <2>1 DEF NewestKept
    <2> QED
      BY <2>1, <2>3, <2>4, <2>5, <2>6 DEF NewestKept
  <1>6. X \subseteq List!ChannelType \cup List!Removal /\ \A y \in X : y.at <= Latest'
    OBVIOUS
  <1>7. /\ announced' \in {announced, announced \cup X} /\ full \subseteq full'
        /\ list' = [list EXCEPT ![r] = L] /\ heard' = [heard EXCEPT ![r] = @ \cup List!Taken(X)]
        /\ full' \subseteq Members /\ full' = full
    BY <1>t, ListTypes
  <1> HIDE DEF L, X
  <1> QED
    BY <1>1, <1>2, <1>3, <1>4, <1>5, <1>6, <1>7, MemberKeeps

\* A time of a change is a number; no time of an entry or a tombstone is later than the next.
LEMMA TimesOf ==
  ASSUME ListInv, NEW r \in Members, edits' \in Nat, edits <= edits'
  PROVE  /\ \A y \in heard[r] \cup list[r] : y.at \in Nat /\ y.id \in Chans
         /\ \A x \in list[r] : x.at <= Latest'
         /\ \A c \in Chans : tomb[r][c] \in Nat /\ tomb[r][c] <= Latest'
         /\ tomb[r] \in [Chans -> {0} \cup List!Times]
         /\ Latest \in Nat /\ Latest' \in Nat /\ Latest <= Latest'
  <1>t. List!TypeOK
    BY DEF ListInv
  <1>l. Latest <= Latest' /\ Latest \in Nat /\ Latest' \in Nat
    BY <1>t, ListTypes DEF Latest
  <1>1. ASSUME NEW y \in heard[r] \cup list[r] PROVE y.at \in Nat /\ y.id \in Chans
    <2>1. y \in List!ChannelType \cup List!Removal
      BY <1>t, ListTypes
    <2>2. y.at \in List!Times /\ y.id \in Chans
      BY <2>1, ChangeFields
    <2> QED
      BY <1>t, <2>2, ListTypes
  <1>2. ASSUME NEW x \in list[r] PROVE x.at <= Latest'
    <2>1. x.at <= Latest
      BY DEF ListInv, StampsBounded
    <2> QED
      BY <1>l, <1>1, <2>1
  <1>3. ASSUME NEW c \in Chans PROVE tomb[r][c] \in Nat /\ tomb[r][c] <= Latest'
    <2>1. tomb[r][c] <= Latest
      BY DEF ListInv, StampsBounded
    <2>2. tomb[r][c] \in Nat
      BY <1>t, ListTypes
    <2> QED
      BY <1>l, <2>1, <2>2
  <1>4. tomb[r] \in [Chans -> {0} \cup List!Times]
    BY <1>t, ListTypes
  <1> QED
    BY <1>l, <1>1, <1>2, <1>3, <1>4

\* A change that is no newer leaves what member r has.
LEMMA StaleKeeps ==
  ASSUME ListInv, NEW r \in Members, NEW x \in announced,
         UNCHANGED <<list, tomb, announced, edits>>,
         heard' = [heard EXCEPT ![r] = @ \cup List!Taken({x})],
         full \subseteq full', full' \subseteq Members,
         r \notin full' /\ x.id \notin LongIds =>
           IF List!Has(r, x.id)
             THEN /\ x.at <= List!The(r, x.id).at
                  /\ x \in List!Removal => x.at < List!The(r, x.id).at
             ELSE x.at <= tomb[r][x.id]
  PROVE  ListInv'
  <1>t. List!TypeOK
    BY DEF ListInv
  <1>e. edits' \in Nat /\ edits <= edits' /\ edits' <= EditMax
    BY <1>t, ListTypes
  <1>n. /\ \A y \in list[r] : y.at <= Latest'
        /\ \A c \in Chans : tomb[r][c] <= Latest'
        /\ tomb[r] \in [Chans -> {0} \cup List!Times]
        /\ Latest' = Latest
    BY <1>e, TimesOf DEF Latest
  <1> DEFINE X == {x}
  <1>1. X \subseteq List!ChannelType \cup List!Removal /\ \A y \in X : y.at <= Latest'
    BY <1>n, <1>t, ListTypes DEF ListInv, StampsBounded
  <1>2. /\ list' = [list EXCEPT ![r] = list[r]] /\ list[r] \subseteq List!ChannelType
        /\ IsFiniteSet(list[r]) /\ \A y, z \in list[r] : y.id = z.id => y = z
    <2>1. IsFiniteSet(list[r])
      BY DEF ListInv
    <2> QED
      BY <1>t, <2>1, ListTypes
  <1>3. tomb' = [tomb EXCEPT ![r] = tomb[r]]
    BY <1>t, ListTypes
  <1>4. ASSUME r \notin full' PROVE NewestKept(r)'
    <2>0. NewestKept(r)
      BY <1>4 DEF ListInv
    <2>1. list'[r] = list[r] /\ tomb'[r] = tomb[r] /\ heard'[r] = heard[r] \cup List!Taken({x})
      BY <1>t, ListTypes
    <2>c. /\ List!Taken({x}) \subseteq {List!Cut(x)}
          /\ x.id \in LongIds => List!Taken({x}) = {}
          /\ List!Cut(x).id = x.id /\ List!Cut(x).at = x.at
          /\ List!Cut(x) \in List!Removal => x \in List!Removal
      <3>1. x \in List!ChannelType \cup List!Removal
        BY <1>t, ListTypes
      <3> QED
        BY <3>1, TakenOne, CutIs
    <2>2. ASSUME NEW z \in list[r], NEW y \in heard'[r], y.id = z.id
          PROVE  y.at <= z.at /\ (y \in List!Removal => y.at < z.at)
      <3>1. CASE y \in heard[r]
        BY <2>0, <2>2, <3>1 DEF NewestKept
      <3>2. CASE y = List!Cut(x) /\ x.id \notin LongIds
        <4>1. List!Has(r, x.id)
          BY <2>2, <2>c, <3>2 DEF List!Has
        <4>2. z = List!The(r, x.id)
          BY <1>t, <2>2, <2>c, <3>2, <4>1, EntryOf
        <4> QED
          BY <1>4, <2>c, <3>2, <4>1, <4>2
      <3> QED
        BY <2>1, <2>2, <2>c, <3>1, <3>2
    <2>3. ASSUME NEW z \in list[r]
          PROVE  tomb[r][z.id] < z.at /\ (z.id \notin LongIds => List!Cut(z) \in heard'[r])
      BY <2>0, <2>1 DEF NewestKept
    <2>4. ASSUME NEW y \in heard'[r], ~List!Has(r, y.id) PROVE y.at <= tomb[r][y.id]
      <3>1. CASE y \in heard[r]
        BY <2>0, <2>4, <3>1 DEF NewestKept
      <3>2. CASE y = List!Cut(x) /\ x.id \notin LongIds
        BY <1>4, <2>4, <2>c, <3>2
      <3> QED
        BY <2>1, <2>4, <2>c, <3>1, <3>2
    <2>7. \A y \in heard'[r] : y.id \notin LongIds
      BY <2>0, <2>1, <2>c DEF NewestKept
    <2>5. \A c : List!Has(r, c)' <=> List!Has(r, c)
      BY <2>1 DEF List!Has
    <2>6. ASSUME NEW c \in Chans
          PROVE  \/ tomb[r][c] = 0
                 \/ \E y \in heard'[r] : y \in List!Removal /\ y.id = c /\ y.at = tomb[r][c]
      BY <2>0, <2>1 DEF NewestKept
    <2> QED
      BY <2>1, <2>2, <2>3, <2>4, <2>5, <2>6, <2>7 DEF NewestKept
  <1>5. /\ announced' \in {announced, announced \cup X}
        /\ heard' = [heard EXCEPT ![r] = @ \cup List!Taken(X)]
    OBVIOUS
  <1> HIDE DEF X
  <1> QED
    BY <1>e, <1>n, <1>1, <1>2, <1>3, <1>4, <1>5, MemberKeeps

\* A removal that is newer than the tombstone and no older than the channel.
LEMMA DropKeeps ==
  ASSUME ListInv, NEW r \in Members, NEW x \in List!Removal, UNCHANGED full,
         edits' \in Nat, edits <= edits', edits' <= EditMax,
         announced' \in {announced, announced \cup {x}}, x.at <= Latest',
         list' = [list EXCEPT ![r] = List!Others(r, x.id)],
         tomb' = [tomb EXCEPT ![r][x.id] = x.at],
         heard' = [heard EXCEPT ![r] = @ \cup List!Taken({x})], x.id \notin LongIds,
         tomb[r][x.id] <= x.at, List!Has(r, x.id) => List!The(r, x.id).at <= x.at
  PROVE  ListInv'
  <1>t. List!TypeOK
    BY DEF ListInv
  <1>x. x.id \in Chans /\ x.at \in Nat /\ x.at \in List!Times
    <2>1. x.at \in List!Times /\ x.id \in Chans
      BY ChangeFields
    <2> QED
      BY <1>t, <2>1, ListTypes
  <1>n. /\ \A y \in heard[r] \cup list[r] : y.at \in Nat /\ y.id \in Chans
        /\ \A y \in list[r] : y.at <= Latest'
        /\ \A c \in Chans : tomb[r][c] \in Nat /\ tomb[r][c] <= Latest'
        /\ tomb[r] \in [Chans -> {0} \cup List!Times]
    BY TimesOf
  <1> DEFINE L == List!Others(r, x.id)
             U == [tomb[r] EXCEPT ![x.id] = x.at]
             X == {x}
  <1>1. /\ L \subseteq List!ChannelType /\ IsFiniteSet(L) /\ \A y, z \in L : y.id = z.id => y = z
        /\ \A y \in L : y.at <= Latest'
    <2>1. L \subseteq list[r] /\ IsFiniteSet(list[r])
      BY <1>t, EntryOf DEF ListInv
    <2>2. IsFiniteSet(L)
      BY <2>1, FS_Subset
    <2> HIDE DEF L
    <2> QED
      BY <1>t, <1>n, <2>1, <2>2, ListTypes
  <1>2. /\ tomb' = [tomb EXCEPT ![r] = U] /\ U \in [Chans -> {0} \cup List!Times]
        /\ \A c \in Chans : U[c] = IF c = x.id THEN x.at ELSE tomb[r][c]
        /\ \A c \in Chans : U[c] <= Latest'
    BY <1>x, <1>n
  <1>3. ASSUME r \notin full' PROVE NewestKept(r)'
    <2>0. NewestKept(r)
      BY <1>3 DEF ListInv
    <2>1. list'[r] = L /\ tomb'[r] = U /\ heard'[r] = heard[r] \cup {x}
      <3>1. List!Taken({x}) = {x}
        BY TakenOne, CutIs
      <3> QED
        BY <1>t, <1>2, <3>1, ListTypes
    <2>2. ASSUME NEW z \in L
          PROVE  /\ tomb'[r][z.id] < z.at
                 /\ z.id \notin LongIds => List!Cut(z) \in heard'[r]
                 /\ \A y \in heard'[r] :
                      y.id = z.id => y.at <= z.at /\ (y \in List!Removal => y.at < z.at)
      <3>1. z \in list[r] /\ z.id # x.id /\ z.id \in Chans
        BY <1>t, <1>n, <2>2, EntryOf
      <3> HIDE DEF U
      <3> QED
        BY <1>2, <2>0, <2>1, <3>1 DEF NewestKept
    <2>3. ASSUME NEW y \in heard'[r], ~List!Has(r, y.id)' PROVE y.at <= tomb'[r][y.id]
      <3>1. CASE y.id = x.id
        <4>1. tomb'[r][y.id] = x.at
          BY <1>x, <1>2, <2>1, <3>1
        <4>2. CASE y = x
          BY <1>x, <4>1, <4>2
        <4>3. CASE y \in heard[r] /\ List!Has(r, x.id)
          <5>1. List!The(r, x.id) \in list[r] /\ List!The(r, x.id).id = x.id
            BY <1>t, <4>3, EntryOf
          <5>2. y.at <= List!The(r, x.id).at
            BY <2>0, <3>1, <4>3, <5>1 DEF NewestKept
          <5>3. y.at \in Nat /\ List!The(r, x.id).at \in Nat
            BY <1>n, <4>3, <5>1
          <5> QED
            BY <1>x, <4>1, <4>3, <5>2, <5>3
        <4>4. CASE y \in heard[r] /\ ~List!Has(r, x.id)
          <5>1. y.at <= tomb[r][x.id]
            BY <2>0, <3>1, <4>4 DEF NewestKept
          <5>2. y.at \in Nat /\ tomb[r][x.id] \in Nat
            BY <1>n, <1>x, <4>4
          <5> QED
            BY <1>x, <4>1, <5>1, <5>2
        <4> QED
          BY <2>1, <2>3, <4>2, <4>3, <4>4
      <3>2. CASE y.id # x.id
        <4>1. y \in heard[r] /\ y.id \in Chans
          BY <1>n, <2>1, <2>3, <3>2
        <4>2. ~List!Has(r, y.id)
          BY <1>t, <2>1, <2>3, <3>2, EntryOf DEF List!Has
        <4>3. tomb'[r][y.id] = tomb[r][y.id]
          BY <1>2, <2>1, <3>2, <4>1
        <4> QED
          BY <2>0, <4>1, <4>2, <4>3 DEF NewestKept
      <3> QED
        BY <3>1, <3>2
    <2>4. ASSUME NEW c \in Chans
          PROVE  \/ tomb'[r][c] = 0
                 \/ \E y \in heard'[r] : y \in List!Removal /\ y.id = c /\ y.at = tomb'[r][c]
      <3>1. CASE c = x.id
        BY <1>2, <2>1, <3>1
      <3>2. CASE c # x.id
        <4>1. tomb'[r][c] = tomb[r][c]
          BY <1>2, <2>1, <3>2
        <4> QED
          BY <2>0, <2>1, <4>1 DEF NewestKept
      <3> QED
        BY <3>1, <3>2
    <2>5. \A y \in heard'[r] : y.id \notin LongIds
      BY <2>0, <2>1 DEF NewestKept
    <2> QED
      BY <2>1, <2>2, <2>3, <2>4, <2>5 DEF NewestKept
  <1>4. X \subseteq List!ChannelType \cup List!Removal /\ \A y \in X : y.at <= Latest'
    OBVIOUS
  <1>5. /\ announced' \in {announced, announced \cup X} /\ full \subseteq full'
        /\ list' = [list EXCEPT ![r] = L] /\ heard' = [heard EXCEPT ![r] = @ \cup List!Taken(X)]
        /\ full' \subseteq Members
    BY <1>t, ListTypes
  <1> HIDE DEF L, X, U
  <1> QED
    BY <1>1, <1>2, <1>3, <1>4, <1>5, MemberKeeps

\* A user's change has a time that is later than what it follows.
LEMMA UserStamp ==
  ASSUME ListInv, NEW r \in Members, NEW X, List!Change(r, X), NEW T,
         \A t \in T : \/ \E c \in Chans : t = tomb[r][c]
                      \/ \E y \in list[r] : t = y.at,
         NEW at \in List!Stamps(T)
  PROVE  /\ edits' \in Nat /\ edits <= edits' /\ edits' <= EditMax
         /\ announced' \in {announced, announced \cup X}
         /\ heard' = [heard EXCEPT ![r] = @ \cup List!Taken(X)]
         /\ at \in List!Times /\ at \in Nat /\ at <= Latest' /\ \A t \in T : t < at
  <1>t. List!TypeOK
    BY DEF ListInv
  <1>1. /\ edits < EditMax /\ edits' = edits + 1 /\ announced' = announced \cup X
        /\ heard' = [heard EXCEPT ![r] = @ \cup List!Taken(X)]
    BY DEF List!Change
  <1>2. edits' \in Nat /\ edits <= edits' /\ edits' <= EditMax
    BY <1>1, <1>t, ListTypes
  <1>3. T \in SUBSET Nat /\ \A t \in T : t <= Latest
    <2>1. /\ \A y \in heard[r] \cup list[r] : y.at \in Nat /\ y.id \in Chans
          /\ \A c \in Chans : tomb[r][c] \in Nat
      BY <1>2, TimesOf
    <2> QED
      BY <2>1 DEF ListInv, StampsBounded
  <1>4. at \in List!Times /\ at <= Latest + 1 /\ at \in Nat /\ \A t \in T : t < at
    BY <1>1, <1>3, <1>t, Stamped
  <1>5. Latest' = Latest + 1
    BY <1>1, <1>t, ListTypes DEF Latest
  <1> QED
    BY <1>1, <1>2, <1>4, <1>5

\* addWorkspaceChannel(): at the end of the list.
LEMMA AddListKeeps ==
  ASSUME ListInv, NEW r \in Members, NEW c \in Chans, NEW n \in Names, NEW long \in BOOLEAN,
         List!Add(r, c, n, long)
  PROVE  ListInv'
  <1>t. List!TypeOK
    BY DEF ListInv
  <1> DEFINE T == {tomb[r][c]}
             y(at) == [id |-> c, name |-> n, long |-> long, order |-> List!Cardinality(list[r]),
                       at |-> at]
  <1>1. PICK at \in List!Stamps(T) : /\ list' = [list EXCEPT ![r] = @ \cup {y(at)}]
                                     /\ List!Change(r, {y(at)})
    BY DEF List!Add
  <1> DEFINE x == y(at)
  <1>2. ~List!Has(r, c) /\ UNCHANGED <<tomb, full>>
    BY DEF List!Add
  <1>3. /\ edits' \in Nat /\ edits <= edits' /\ edits' <= EditMax
        /\ announced' \in {announced, announced \cup {x}}
        /\ heard' = [heard EXCEPT ![r] = @ \cup List!Taken({x})]
        /\ at \in List!Times /\ at \in Nat /\ at <= Latest' /\ \A t \in T : t < at
    <2>1. List!Change(r, {x})
      BY <1>1
    <2>2. \A t \in T : \E d \in Chans : t = tomb[r][d]
      OBVIOUS
    <2> HIDE DEF T, x
    <2> QED
      BY <2>1, <2>2, UserStamp
  <1>4. List!Cardinality(list[r]) \in Nat
    <2>1. IsFiniteSet(list[r])
      BY DEF ListInv
    <2>2. Cardinality(list[r]) \in Nat
      BY <2>1, FS_CardinalityType
    <2> QED
      BY <2>2 DEF List!Cardinality, Cardinality
  <1>5. x \in List!ChannelType /\ x.id = c /\ x.at = at
    BY <1>3, <1>4 DEF List!ChannelType
  <1>6. list' = [list EXCEPT ![r] = List!Others(r, c) \cup {x}]
    <2>1. List!Others(r, c) = list[r] /\ list' = [list EXCEPT ![r] = @ \cup {x}]
      BY <1>1, <1>2, <1>t, EntryOf
    <2> HIDE DEF x
    <2> QED
      BY <2>1, <1>t, ListTypes
  <1>7. tomb[r][c] < at
    BY <1>3
  <1> HIDE DEF x, T
  <1> QED
    BY <1>2, <1>3, <1>5, <1>6, <1>7, PutKeeps

\* renameWorkspaceChannel(): the entry with another name.
LEMMA RenameKeeps ==
  ASSUME ListInv, NEW r \in Members, NEW c \in Chans, NEW n \in Names, List!Rename(r, c, n)
  PROVE  ListInv'
  <1>t. List!TypeOK
    BY DEF ListInv
  <1> DEFINE e == List!The(r, c)
             T == {e.at}
             y(at) == [e EXCEPT !.name = n, !.long = FALSE, !.at = at]
  <1>1. PICK at \in List!Stamps(T) : /\ list' = [list EXCEPT ![r] = List!Others(r, c) \cup {y(at)}]
                                     /\ List!Change(r, {y(at)})
    BY DEF List!Rename
  <1> DEFINE x == y(at)
  <1>2. List!Has(r, c) /\ UNCHANGED <<tomb, full>>
    BY DEF List!Rename
  <1>0. e \in list[r] /\ e.id = c /\ e \in List!ChannelType
    BY <1>2, <1>t, EntryOf, ListTypes
  <1>h. List!The(r, c) = e
    OBVIOUS
  <1> HIDE DEF e
  <1>3. /\ edits' \in Nat /\ edits <= edits' /\ edits' <= EditMax
        /\ announced' \in {announced, announced \cup {x}}
        /\ heard' = [heard EXCEPT ![r] = @ \cup List!Taken({x})]
        /\ at \in List!Times /\ at \in Nat /\ at <= Latest' /\ \A t \in T : t < at
    <2>1. List!Change(r, {x})
      BY <1>1
    <2>2. \A t \in T : \E z \in list[r] : t = z.at
      BY <1>0
    <2> HIDE DEF T, x
    <2> QED
      BY <2>1, <2>2, UserStamp
  <1>5. x \in List!ChannelType /\ x.id = c /\ x.at = at
    BY <1>0, <1>3 DEF List!ChannelType
  <1>6. list' = [list EXCEPT ![r] = List!Others(r, c) \cup {x}]
    BY <1>1
  <1>7. e.at < at /\ (r \notin full => tomb[r][c] < at)
    <2>1. e.at < at /\ e.at \in Nat /\ tomb[r][c] \in Nat
      BY <1>0, <1>3, TimesOf
    <2>2. r \notin full => tomb[r][c] < e.at
      BY <1>0 DEF ListInv, NewestKept
    <2> QED
      BY <1>3, <2>1, <2>2
  <1> HIDE DEF x, T
  <1> QED
    BY <1>2, <1>3, <1>5, <1>6, <1>7, <1>h, PutKeeps

\* moveWorkspaceChannel(): every entry with another place and the same later time.
LEMMA MoveKeeps ==
  ASSUME ListInv, NEW r \in Members, NEW c \in Chans, NEW d \in Chans, List!Move(r, c, d)
  PROVE  ListInv'
  <1>t. List!TypeOK
    BY DEF ListInv
  <1> DEFINE ids == {x.id : x \in list[r]}
             T == {x.at : x \in list[r]}
             places == 0..(List!Cardinality(list[r]) - 1)
             M(rank, at) == {[x EXCEPT !.order = rank[x.id], !.at = at] : x \in list[r]}
  <1>1. PICK rank \in [ids -> places], at \in List!Stamps(T) :
               list' = [list EXCEPT ![r] = M(rank, at)] /\ List!Change(r, M(rank, at))
    BY DEF List!Move
  <1>2. List!Has(r, c) /\ UNCHANGED <<tomb, full>>
    BY DEF List!Move
  <1> DEFINE m(x) == [x EXCEPT !.order = rank[x.id], !.at = at]
             X == {m(x) : x \in list[r]}
  <1>3. /\ edits' \in Nat /\ edits <= edits' /\ edits' <= EditMax
        /\ announced' \in {announced, announced \cup X}
        /\ heard' = [heard EXCEPT ![r] = @ \cup List!Taken(X)]
        /\ at \in List!Times /\ at \in Nat /\ at <= Latest' /\ \A t \in T : t < at
    <2>1. List!Change(r, X)
      BY <1>1
    <2>2. \A t \in T : \E z \in list[r] : t = z.at
      OBVIOUS
    <2> HIDE DEF T, X
    <2> QED
      BY <2>1, <2>2, UserStamp
  <1>f. IsFiniteSet(list[r]) /\ list[r] \subseteq List!ChannelType
    BY <1>t, ListTypes DEF ListInv
  <1>p. places \subseteq Nat
    <2>1. Cardinality(list[r]) \in Nat
      BY <1>f, FS_CardinalityType
    <2>2. List!Cardinality(list[r]) \in Nat
      BY <2>1 DEF List!Cardinality, Cardinality
    <2> QED
      BY <2>2
  <1>4. ASSUME NEW x \in list[r]
        PROVE  m(x) \in List!ChannelType /\ m(x).id = x.id /\ m(x).at = at
    <2>1. x \in List!ChannelType /\ rank[x.id] \in Nat
      BY <1>f, <1>p
    <2>2. at \in List!Times
      BY <1>3
    <2> HIDE DEF places, ids
    <2> QED
      BY <2>1, <2>2 DEF List!ChannelType
  <1>l. list' = [list EXCEPT ![r] = X]
    BY <1>1
  <1> HIDE DEF m
  <1>5. X \subseteq List!ChannelType /\ IsFiniteSet(X)
    <2> DEFINE f == [x \in list[r] |-> m(x)]
    <2>1. f \in Surjection(list[r], X)
      BY DEF Surjection
    <2> HIDE DEF f, X
    <2>2. IsFiniteSet(X)
      BY <1>f, <2>1, FS_Surjection
    <2> QED
      BY <1>4, <2>2 DEF X
  <1>6. \A y, z \in X : y.id = z.id => y = z
    <2>1. ASSUME NEW y \in list[r], NEW z \in list[r], m(y).id = m(z).id PROVE m(y) = m(z)
      <3>1. y = z
        BY <1>4, <1>t, <2>1, ListTypes
      <3> QED
        BY <3>1
    <2> QED
      BY <2>1
  <1>7. \A y \in X : y.at = at /\ \E x \in list[r] : y.id = x.id
    BY <1>4
  <1>8. \A x \in list[r] : \E y \in X : y.id = x.id
    BY <1>4
  <1>9. \A x \in list[r] : x.at < at
    BY <1>3
  <1>n. /\ \A y \in heard[r] \cup list[r] : y.at \in Nat /\ y.id \in Chans
        /\ \A z \in Chans : tomb[r][z] \in Nat /\ tomb[r][z] <= Latest'
        /\ tomb[r] \in [Chans -> {0} \cup List!Times]
    BY <1>3, TimesOf
  <1>10. tomb' = [tomb EXCEPT ![r] = tomb[r]] /\ UNCHANGED full /\ full \subseteq Members
    BY <1>2, <1>t, ListTypes
  <1> HIDE DEF X, T
  <1>11. ASSUME r \notin full' PROVE NewestKept(r)'
    <2>0. NewestKept(r)
      BY <1>10, <1>11 DEF ListInv
    <2>1. list'[r] = X /\ tomb'[r] = tomb[r] /\ heard'[r] = heard[r] \cup List!Taken(X)
      BY <1>t, <1>3, <1>l, <1>2, ListTypes
    <2>2. \A z : List!Has(r, z)' <=> List!Has(r, z)
      BY <1>7, <1>8, <2>1 DEF List!Has
    <2>c. /\ \A y \in List!Taken(X) : /\ y.id \notin LongIds /\ y.at = at /\ y \notin List!Removal
                                     /\ List!Has(r, y.id)
          /\ \A y \in X : y.id \notin LongIds => List!Cut(y) \in List!Taken(X)
      <3>1. X \in SUBSET (List!ChannelType \cup List!Removal) /\ \A y \in X : y \notin List!Removal
        BY <1>5, ChangeFields
      <3>2. \A y \in X : y.at = at /\ List!Has(r, y.id)
        BY <1>7 DEF List!Has
      <3> QED
        BY <3>1, <3>2, TakenIs
    <2>3. ASSUME NEW z \in X
          PROVE  /\ tomb'[r][z.id] < z.at
                 /\ z.id \notin LongIds => List!Cut(z) \in heard'[r]
                 /\ \A y \in heard'[r] :
                      y.id = z.id => y.at <= z.at /\ (y \in List!Removal => y.at < z.at)
      <3>1. PICK x \in list[r] : z.id = x.id
        BY <1>7
      <3>2. z.at = at /\ x.at < at /\ x.at \in Nat /\ at \in Nat /\ x.id \in Chans
        BY <1>3, <1>7, <1>9, <1>n
      <3>3. tomb[r][x.id] < x.at /\ tomb[r][x.id] \in Nat
        BY <1>n, <2>0, <3>2 DEF NewestKept
      <3>4. ASSUME NEW y \in heard'[r], y.id = z.id
            PROVE  y.at <= z.at /\ (y \in List!Removal => y.at < z.at)
        <4>1. CASE y \in List!Taken(X)
          BY <2>c, <3>2, <4>1
        <4>2. CASE y \in heard[r]
          <5>1. y.at <= x.at
            BY <2>0, <3>1, <3>4, <4>2 DEF NewestKept
          <5>2. y.at \in Nat
            BY <1>n, <4>2
          <5> QED
            BY <3>2, <5>1, <5>2
        <4> QED
          BY <2>1, <3>4, <4>1, <4>2
      <3>5. tomb'[r][z.id] < z.at
        BY <2>1, <3>1, <3>2, <3>3
      <3>6. z.id \notin LongIds => List!Cut(z) \in heard'[r]
        BY <2>1, <2>c
      <3> QED
        BY <3>4, <3>5, <3>6
    <2>4. ASSUME NEW y \in heard'[r], ~List!Has(r, y.id) PROVE y.at <= tomb[r][y.id]
      <3>1. y \notin List!Taken(X)
        BY <2>4, <2>c
      <3> QED
        BY <2>0, <2>1, <2>4, <3>1 DEF NewestKept
    <2>5. ASSUME NEW z \in Chans
          PROVE  \/ tomb[r][z] = 0
                 \/ \E y \in heard'[r] : y \in List!Removal /\ y.id = z /\ y.at = tomb[r][z]
      BY <2>0, <2>1 DEF NewestKept
    <2>6. \A y \in heard'[r] : y.id \notin LongIds
      BY <2>0, <2>1, <2>c DEF NewestKept
    <2> QED
      BY <2>1, <2>2, <2>3, <2>4, <2>5, <2>6 DEF NewestKept
  <1>12. \A y \in X : y.at <= Latest'
    BY <1>3, <1>7
  <1>13. X \subseteq List!ChannelType \cup List!Removal
    BY <1>5
  <1>14. \A z \in Chans : tomb[r][z] <= Latest'
    BY <1>n
  <1> QED
    BY <1>3, <1>5, <1>6, <1>l, <1>n, <1>10, <1>11, <1>12, <1>13, <1>14, MemberKeeps

\* removeWorkspaceChannel(), by the user.
LEMMA RemoveKeeps ==
  ASSUME ListInv, NEW r \in Members, NEW c \in Chans, List!Remove(r, c)
  PROVE  ListInv'
  <1>t. List!TypeOK
    BY DEF ListInv
  <1> DEFINE e == List!The(r, c)
             T == {e.at, tomb[r][c]}
             y(at) == [id |-> c, at |-> at, removed |-> TRUE]
  <1>1. PICK at \in List!Stamps(T) : /\ list' = [list EXCEPT ![r] = List!Others(r, c)]
                                     /\ tomb' = [tomb EXCEPT ![r][c] = at]
                                     /\ List!Change(r, {y(at)})
    BY DEF List!Remove
  <1> DEFINE x == y(at)
  <1>2. List!Has(r, c) /\ c \notin LongIds /\ UNCHANGED full
    BY DEF List!Remove
  <1>0. e \in list[r] /\ e.id = c
    BY <1>2, <1>t, EntryOf
  <1>h. List!The(r, c) = e
    OBVIOUS
  <1> HIDE DEF e
  <1>3. /\ edits' \in Nat /\ edits <= edits' /\ edits' <= EditMax
        /\ announced' \in {announced, announced \cup {x}}
        /\ heard' = [heard EXCEPT ![r] = @ \cup List!Taken({x})]
        /\ at \in List!Times /\ at \in Nat /\ at <= Latest' /\ \A t \in T : t < at
    <2>1. List!Change(r, {x})
      BY <1>1
    <2>2. \A t \in T : (\E z \in Chans : t = tomb[r][z]) \/ (\E z \in list[r] : t = z.at)
      BY <1>0
    <2> HIDE DEF T, x
    <2> QED
      BY <2>1, <2>2, UserStamp
  <1>5. x \in List!Removal /\ x.id = c /\ x.at = at
    BY <1>3 DEF List!Removal
  <1>7. e.at <= at /\ tomb[r][c] <= at
    <2>1. e.at < at /\ tomb[r][c] < at
      BY <1>3
    <2>2. e.at \in Nat /\ tomb[r][c] \in Nat
      BY <1>0, <1>3, TimesOf
    <2> QED
      BY <1>3, <2>1, <2>2
  <1> HIDE DEF x, T
  <1> QED
    BY <1>1, <1>2, <1>3, <1>5, <1>7, <1>h, DropKeeps

\* mergeWorkspaceChannel(): a newer channel is taken over, an older one or one too many is not.
LEMMA MergeKeeps ==
  ASSUME ListInv, NEW r \in Members, NEW x \in announced, List!Merge(r, x)
  PROVE  ListInv'
  <1>t. List!TypeOK
    BY DEF ListInv
  <1> DEFINE stale == \/ x.id \in LongIds \/ tomb[r][x.id] >= x.at
                      \/ List!Has(r, x.id) /\ List!The(r, x.id).at >= x.at
             crowded == List!Cardinality(list[r]) >= ListMax
             turned == ~stale /\ ~List!Has(r, x.id) /\ crowded
  <1>1. /\ x \in List!ChannelType /\ heard' = [heard EXCEPT ![r] = @ \cup List!Taken({x})]
        /\ list' = IF stale \/ turned
                     THEN list ELSE [list EXCEPT ![r] = List!Others(r, x.id) \cup {List!Cut(x)}]
        /\ full' = IF turned THEN full \cup {r} ELSE full
        /\ UNCHANGED <<tomb, announced, edits>>
    BY DEF List!Merge
  <1> HIDE DEF crowded
  <1>e. edits' \in Nat /\ edits <= edits' /\ edits' <= EditMax /\ full \subseteq Members
    BY <1>1, <1>t, ListTypes
  <1>x. x \in List!ChannelType \cup List!Removal /\ x \notin List!Removal /\ x.id \in Chans
    BY <1>1, ChangeFields
  <1>n. /\ x.at \in Nat /\ tomb[r][x.id] \in Nat
        /\ List!Has(r, x.id) => List!The(r, x.id).at \in Nat
    <2>1. x.at \in List!Times
      BY <1>x, ChangeFields
    <2>2. tomb[r][x.id] \in Nat
      BY <1>e, <1>x, TimesOf
    <2>3. List!Has(r, x.id) => List!The(r, x.id).at \in Nat
      BY <1>e, <1>t, EntryOf, TimesOf
    <2> QED
      BY <1>t, <2>1, <2>2, <2>3, ListTypes
  <1>2. CASE stale
    <2>1. UNCHANGED <<list, tomb, announced, edits>> /\ full' = full
      BY <1>1, <1>2
    <2>2. ASSUME r \notin full', x.id \notin LongIds
          PROVE  IF List!Has(r, x.id)
                   THEN /\ x.at <= List!The(r, x.id).at
                        /\ x \in List!Removal => x.at < List!The(r, x.id).at
                   ELSE x.at <= tomb[r][x.id]
      <3>0. NewestKept(r)
        BY <2>1, <2>2 DEF ListInv
      <3>1. CASE List!Has(r, x.id)
        <4>1. tomb[r][x.id] < List!The(r, x.id).at
          BY <1>t, <3>0, <3>1, EntryOf DEF NewestKept
        <4> QED
          BY <1>2, <1>n, <1>x, <2>2, <3>1, <4>1
      <3>2. CASE ~List!Has(r, x.id)
        BY <1>2, <1>n, <2>2, <3>2
      <3> QED
        BY <3>1, <3>2
    <2> HIDE DEF stale
    <2> QED
      BY <1>1, <1>e, <2>1, <2>2, StaleKeeps
  <1>3. CASE turned
    <2>1. UNCHANGED <<list, tomb, announced, edits>> /\ full' = full \cup {r}
      BY <1>1, <1>3
    <2>2. full \subseteq full' /\ full' \subseteq Members /\ ~(r \notin full')
      BY <1>e, <2>1
    <2> HIDE DEF stale, turned
    <2> QED
      BY <1>1, <2>1, <2>2, StaleKeeps
  <1>4. CASE ~stale /\ ~turned
    <2> DEFINE z == List!Cut(x)
    <2>c. /\ z \in List!ChannelType /\ z.id = x.id /\ z.at = x.at
          /\ List!Taken({x}) = List!Taken({z})
      BY <1>1, <1>x, CutIs, TakenOne
    <2>1. /\ list' = [list EXCEPT ![r] = List!Others(r, x.id) \cup {z}]
          /\ UNCHANGED <<tomb, full, announced, edits>>
      BY <1>1, <1>4
    <2>2. /\ tomb[r][x.id] < x.at
          /\ List!Has(r, x.id) => List!The(r, x.id).at < x.at
      BY <1>4, <1>n
    <2>3. x.at <= Latest'
      <3>1. x.at <= Latest
        BY DEF ListInv, StampsBounded
      <3> QED
        BY <2>1, <3>1 DEF Latest
    <2>4. heard' = [heard EXCEPT ![r] = @ \cup List!Taken({z})]
      BY <1>1, <2>c
    <2> HIDE DEF stale, turned, z
    <2>5. list' = [list EXCEPT ![r] = List!Others(r, z.id) \cup {z}]
      BY <2>1, <2>c
    <2> QED
      BY <1>e, <2>c, <2>1, <2>2, <2>3, <2>4, <2>5, PutKeeps
  <1> QED
    BY <1>2, <1>3, <1>4

\* removeWorkspaceChannel(), for another member.
LEMMA MergeRemovalKeeps ==
  ASSUME ListInv, NEW r \in Members, NEW x \in announced, List!MergeRemoval(r, x)
  PROVE  ListInv'
  <1>t. List!TypeOK
    BY DEF ListInv
  <1> DEFINE stale == \/ x.id \in LongIds \/ tomb[r][x.id] >= x.at
                      \/ List!Has(r, x.id) /\ List!The(r, x.id).at > x.at
  <1>1. /\ x \in List!Removal /\ heard' = [heard EXCEPT ![r] = @ \cup List!Taken({x})]
        /\ IF stale THEN UNCHANGED <<list, tomb>>
                    ELSE /\ list' = [list EXCEPT ![r] = List!Others(r, x.id)]
                         /\ tomb' = [tomb EXCEPT ![r][x.id] = x.at]
        /\ UNCHANGED <<announced, edits, full>>
    BY DEF List!MergeRemoval
  <1>e. edits' \in Nat /\ edits <= edits' /\ edits' <= EditMax /\ full \subseteq Members
    BY <1>1, <1>t, ListTypes
  <1>x. x \in List!ChannelType \cup List!Removal /\ x.id \in Chans
    BY <1>1, ChangeFields
  <1>n. /\ x.at \in Nat /\ tomb[r][x.id] \in Nat
        /\ List!Has(r, x.id) => List!The(r, x.id).at \in Nat
    <2>1. x.at \in List!Times
      BY <1>x, ChangeFields
    <2>2. tomb[r][x.id] \in Nat
      BY <1>e, <1>x, TimesOf
    <2>3. List!Has(r, x.id) => List!The(r, x.id).at \in Nat
      BY <1>e, <1>t, EntryOf, TimesOf
    <2> QED
      BY <1>t, <2>1, <2>2, <2>3, ListTypes
  <1>2. CASE stale
    <2>1. UNCHANGED <<list, tomb, announced, edits>> /\ full' = full
      BY <1>1, <1>2
    <2>2. ASSUME r \notin full', x.id \notin LongIds
          PROVE  IF List!Has(r, x.id)
                   THEN /\ x.at <= List!The(r, x.id).at
                        /\ x \in List!Removal => x.at < List!The(r, x.id).at
                   ELSE x.at <= tomb[r][x.id]
      <3>0. NewestKept(r)
        BY <2>1, <2>2 DEF ListInv
      <3>1. CASE List!Has(r, x.id)
        <4>1. tomb[r][x.id] < List!The(r, x.id).at
          BY <1>t, <3>0, <3>1, EntryOf DEF NewestKept
        <4> QED
          BY <1>2, <1>n, <2>2, <3>1, <4>1
      <3>2. CASE ~List!Has(r, x.id)
        BY <1>2, <1>n, <2>2, <3>2
      <3> QED
        BY <3>1, <3>2
    <2> HIDE DEF stale
    <2> QED
      BY <1>1, <1>e, <2>1, <2>2, StaleKeeps
  <1>3. CASE ~stale
    <2>1. /\ list' = [list EXCEPT ![r] = List!Others(r, x.id)]
          /\ tomb' = [tomb EXCEPT ![r][x.id] = x.at]
          /\ UNCHANGED <<full, announced, edits>>
      BY <1>1, <1>3
    <2>2. /\ tomb[r][x.id] <= x.at /\ x.id \notin LongIds
          /\ List!Has(r, x.id) => List!The(r, x.id).at <= x.at
      BY <1>3, <1>n
    <2>3. x.at <= Latest'
      <3>1. x.at <= Latest
        BY DEF ListInv, StampsBounded
      <3> QED
        BY <2>1, <3>1 DEF Latest
    <2> HIDE DEF stale
    <2> QED
      BY <1>1, <1>e, <2>1, <2>2, <2>3, DropKeeps
  <1> QED
    BY <1>2, <1>3

\* Every step of the list of channels keeps it.
LEMMA ListInvStep == ListInv /\ [List!Next]_(List!listVars) => ListInv'
  <1> SUFFICES ASSUME ListInv, [List!Next]_(List!listVars) PROVE ListInv'
    OBVIOUS
  <1>1. CASE UNCHANGED List!listVars
    <2>1. UNCHANGED <<list, tomb, announced, edits, heard, full>>
      BY <1>1 DEF List!listVars
    <2>2. List!TypeOK'
      BY <2>1 DEF ListInv, List!TypeOK
    <2>3. StampsBounded'
      BY <2>1 DEF ListInv, StampsBounded, Latest
    <2>4. ASSUME NEW r \in Members, NewestKept(r) PROVE NewestKept(r)'
      BY <2>1, <2>4 DEF NewestKept, List!Has
    <2> QED
      BY <2>1, <2>2, <2>3, <2>4 DEF ListInv
  <1>2. ASSUME NEW r \in Members, NEW c \in Chans, NEW n \in Names,
               List!Rename(r, c, n) \/ \E long \in BOOLEAN : List!Add(r, c, n, long)
        PROVE  ListInv'
    BY <1>2, AddListKeeps, RenameKeeps
  <1>3. ASSUME NEW r \in Members, NEW c \in Chans, NEW d \in Chans, List!Move(r, c, d)
        PROVE  ListInv'
    BY <1>3, MoveKeeps
  <1>4. ASSUME NEW r \in Members, NEW c \in Chans, List!Remove(r, c)
        PROVE  ListInv'
    BY <1>4, RemoveKeeps
  <1>5. ASSUME NEW r \in Members, NEW x \in announced,
               List!Merge(r, x) \/ List!MergeRemoval(r, x)
        PROVE  ListInv'
    BY <1>5, MergeKeeps, MergeRemovalKeeps
  <1> QED
    BY <1>1, <1>2, <1>3, <1>4, <1>5 DEF List!Next

\* mergeWorkspaceChannel(), removeWorkspaceChannel(): members that heard of the same changes have
\* the same channels, in whatever order they heard, however often, and whatever the clocks show.
THEOREM ChannelListsConverge == PageSpec => []ListsConverge
  <1>1. PageInit => ListInv
    BY PartsBegin, ListInvBegins
  <1>2. ListInv /\ [PageNext]_vars => ListInv'
    BY PartsStep, ListInvStep
  <1>3. ListInv => ListsConverge
    BY NewestConverge
  <1> QED
    BY <1>1, <1>2, <1>3, PTL DEF PageSpec

------------------------------------------------------------------------------------
(* The page. *)

\* The invariants of all its components, and that it is of one of them.
PageInv ==
  /\ part \in {"channel", "history", "claims", "list", "invites", "pairing", "scope", "feed",
               "matching", "peer"}
  /\ Types /\ HistoryInv /\ ClaimInv /\ ListInv /\ InviteInv /\ PairInv /\ ScopeInv /\ FeedInv
  /\ MatchInv /\ RoomTypeOK

\* PageTypeOK: whichever component moves, its variables hold what its module says of them.
THEOREM PageTypesCorrect == PageSpec => []PageTypeOK
  <1>1. PageInit => PageInv
    <2> SUFFICES ASSUME PageInit PROVE PageInv
      OBVIOUS
    <2>1. part \in {"channel", "history", "claims", "list", "invites", "pairing", "scope", "feed",
                    "matching", "peer"}
      BY PageAssumption DEF PageInit
    <2>2. Types /\ RoomTypeOK
      BY PartsBegin, TypesBegin, RoomTypesBegin
    <2>3. HistoryInv /\ ClaimInv /\ ListInv /\ InviteInv
      BY PartsBegin, HistoryInvBegins, ClaimInvBegins, ListInvBegins, InviteInvBegins
    <2>4. PairInv /\ ScopeInv /\ FeedInv /\ MatchInv
      BY PartsBegin, PairInvBegins, ScopeInvBegins, FeedInvBegins, MatchInvBegins
    <2> QED
      BY <2>1, <2>2, <2>3, <2>4 DEF PageInv
  <1>2. PageInv /\ [PageNext]_vars => PageInv'
    <2> SUFFICES ASSUME PageInv, [PageNext]_vars PROVE PageInv'
      OBVIOUS
    <2>1. part' = part
      BY PartsStep
    <2>2. Types' /\ RoomTypeOK'
      BY PartsStep, TypesStep, RoomTypesStep DEF PageInv
    <2>3. HistoryInv' /\ ClaimInv' /\ ListInv' /\ InviteInv'
      BY PartsStep, HistoryInvStep, ClaimInvStep, ListInvStep, InviteInvStep DEF PageInv
    <2>4. PairInv' /\ ScopeInv' /\ FeedInv' /\ MatchInv'
      BY PartsStep, PairInvStep, ScopeInvStep, FeedInvStep, MatchInvStep DEF PageInv
    <2> QED
      BY <2>1, <2>2, <2>3, <2>4 DEF PageInv
  <1>3. PageInv => PageTypeOK
    <2> SUFFICES ASSUME PageInv PROVE PageTypeOK
      OBVIOUS
    <2>1. /\ TypeOK /\ History!TypeOK /\ Claims!TypeOK /\ List!TypeOK /\ Invites!TypeOK
          /\ Pairing!TypeOK /\ Scope!TypeOK /\ Feed!TypeOK /\ Matching!TypeOK /\ RoomTypeOK
      BY DEF PageInv, Types, HistoryInv, ClaimInv, ListInv, InviteInv, PairInv, ScopeInv, FeedInv,
             MatchInv
    <2>2. CASE part = "channel"
      BY <2>1, <2>2 DEF PageTypeOK
    <2>3. CASE part = "history"
      BY <2>1, <2>3 DEF PageTypeOK
    <2>4. CASE part = "claims"
      BY <2>1, <2>4 DEF PageTypeOK
    <2>5. CASE part = "list"
      BY <2>1, <2>5 DEF PageTypeOK
    <2>6. CASE part = "invites"
      BY <2>1, <2>6 DEF PageTypeOK
    <2>7. CASE part = "pairing"
      BY <2>1, <2>7 DEF PageTypeOK
    <2>8. CASE part = "scope"
      BY <2>1, <2>8 DEF PageTypeOK
    <2>9. CASE part = "feed"
      BY <2>1, <2>9 DEF PageTypeOK
    <2>10. CASE part = "matching"
      BY <2>1, <2>10 DEF PageTypeOK
    <2>11. CASE part = "peer"
      BY <2>1, <2>11 DEF PageTypeOK
    <2> QED
      BY <2>2, <2>3, <2>4, <2>5, <2>6, <2>7, <2>8, <2>9, <2>10, <2>11 DEF PageInv
  <1> QED
    BY <1>1, <1>2, <1>3, PTL DEF PageSpec
=================================================================================
