------------------------------ MODULE ChannelHistory ------------------------------
(***************************************************************************)
(* The messages of one channel in one page: the list React shows, the ref  *)
(* other code reads, the list saved in localStorage, and what is being     *)
(* restored or merged (src/hooks/collab/useMultiChannelStore.ts,           *)
(* src/collab/channelHydration.ts, src/utils/historyStorage.ts), with the  *)
(* delivery of the page's own messages (src/hooks/useCollab.ts) and the    *)
(* history other members answer with (src/hooks/collab/useHistorySync.ts). *)
(*                                                                         *)
(* A list is a function from message ids to revisions, 0 when the message  *)
(* is absent; merging takes the higher revision of each.  What tells two   *)
(* lists of equal content apart is whether one was saved: the code         *)
(* compares them by identity.  The channel has fewer messages than the cap *)
(* of its history, and only authors revise their messages.                 *)
(***************************************************************************)
EXTENDS Naturals

CONSTANTS
  Texts,      \* message ids
  Edited,     \* bound: messages their authors may revise
  RevMax,     \* bound: revisions of one of those
  UpsetMax    \* bound: failed saves, resets, views and pages left

Lists == [Texts -> 0..RevMax]
None == [none |-> TRUE]

HistoryAssumption ==
  /\ Edited \subseteq Texts /\ RevMax \in Nat \ {0} /\ UpsetMax \in Nat
  /\ None \notin Lists

VARIABLES
  shown,    \* the state of messagesByChannel, updates applied
  seen,     \* messagesByChannelRef: shown as of the last render
  rendered, \* seen is the list shown, not one before it
  saved,    \* what savedChannelsRef holds: "none", or the list "seen" or "shown"
  disk,     \* localStorage
  unsaved,  \* the list whose last save failed, if any
  loaded,   \* loadedChannelsRef has the channel
  restore,  \* the list a running restore read
  apply,    \* the running applyHistory(): the list it read before, with the entry it merges
  sent,     \* own messages whose outbox entry is gone
  upsets,
  raced     \* history: messages a merge or a flush took off while another update was under way

historyVars == <<shown, seen, rendered, saved, disk, unsaved, loaded, restore, apply,
                 sent, upsets, raced>>
memoryVars == <<shown, seen, rendered>>

Empty == [m \in Texts |-> 0]

Revisions(m) == IF m \in Edited THEN 1..RevMax ELSE {1}

TypeOK ==
  /\ shown \in Lists /\ seen \in Lists /\ disk \in Lists
  /\ rendered \in BOOLEAN /\ loaded \in BOOLEAN
  /\ (rendered => seen = shown /\ saved # "shown")
  /\ saved \in {"none", "seen", "shown"}
  /\ unsaved = None \/ unsaved \in Lists
  /\ restore = None \/ restore \in Lists
  /\ apply = None \/ apply \in Lists
  /\ sent \subseteq Texts /\ raced \subseteq Texts
  /\ upsets \in 0..UpsetMax

Init ==
  /\ shown = Empty /\ seen = Empty /\ rendered = TRUE /\ saved = "none"
  /\ disk = Empty /\ unsaved = None
  /\ loaded = FALSE /\ restore = None /\ apply = None
  /\ sent = {} /\ upsets = 0 /\ raced = {}

Upset == upsets < UpsetMax /\ upsets' = upsets + 1

\* mergeHistoryEntries(), mergeChannelMessages(): the higher revision of every message.
Join(l, k) == [m \in Texts |-> IF l[m] >= k[m] THEN l[m] ELSE k[m]]

Only(m, r) == [Empty EXCEPT ![m] = r]

\* Messages that l has and k has not.
Missing(l, k) == {m \in Texts : l[m] > 0 /\ k[m] = 0}

\* loadLocalHistory(): a list that could not be saved comes before the saved one.
Stored == IF unsaved = None THEN disk ELSE unsaved

\* saveLocalHistory(l), which the browser may refuse.
SaveWorks(l) == disk' = l /\ unsaved' = None
SaveFails(l) == unsaved' = l /\ UNCHANGED disk

\* setMessagesByChannel() with a new list.
Show(l) ==
  /\ shown' = l /\ rendered' = FALSE
  /\ saved' = IF saved = "shown" THEN "none" ELSE saved
  /\ UNCHANGED seen

\* What is stored has not been merged into what is shown.
Restoring == ~loaded \/ restore # None

------------------------------------------------------------------------------------
(* Restoring. *)

\* loadChannel(): what is stored is read, its files are fetched.
LoadStarts ==
  /\ ~loaded /\ loaded' = TRUE
  /\ restore' = Stored
  /\ UNCHANGED <<memoryVars, saved, disk, unsaved, apply, sent, upsets, raced>>

\* The restored list is merged into what is shown by now.
LoadEnds ==
  /\ restore # None /\ restore' = None
  /\ IF restore = Empty THEN UNCHANGED <<memoryVars, saved>> ELSE Show(Join(shown, restore))
  /\ UNCHANGED <<disk, unsaved, loaded, apply, sent, upsets, raced>>

\* resetWorkspace(): everything in memory goes, a running restore is dropped, and the
\* channel is to be loaded again.
Reset ==
  /\ Upset
  /\ shown' = Empty /\ seen' = Empty /\ rendered' = TRUE /\ saved' = "none"
  /\ loaded' = FALSE /\ restore' = None
  /\ UNCHANGED <<disk, unsaved, apply, sent, raced>>

\* 'peerly-device-data-synced': the channel is loaded again beside what is shown.
DataSynced ==
  /\ Upset
  /\ loaded' = FALSE /\ restore' = None
  /\ UNCHANGED <<memoryVars, saved, disk, unsaved, apply, sent, raced>>

------------------------------------------------------------------------------------
(* Messages. *)

\* appendMessage(): a message from a member, or from this user's other tabs and devices.
Append(m) ==
  /\ shown[m] = 0
  /\ Show([shown EXCEPT ![m] = 1])
  /\ UNCHANGED <<disk, unsaved, loaded, restore, apply, sent, upsets, raced>>

\* applyMessageRevision(): one that is shown already; the whole list is saved at once.
Revise(m) ==
  /\ shown[m] > 0 /\ shown[m] + 1 \in Revisions(m)
  /\ LET l == [shown EXCEPT ![m] = @ + 1] IN
       /\ shown' = l /\ rendered' = FALSE
       /\ \/ SaveWorks(l) /\ saved' = "shown" /\ UNCHANGED upsets
          \/ SaveFails(l) /\ saved' = (IF saved = "shown" THEN "none" ELSE saved) /\ Upset
       /\ raced' = IF Restoring THEN raced \cup Missing(disk, l) ELSE raced
  /\ UNCHANGED <<seen, loaded, restore, apply, sent>>

\* Mutant of Deliver: what is saved already is not read.
DeliverOverwrites(m) ==
  /\ m \notin sent
  /\ SaveWorks(Only(m, 1)) /\ sent' = sent \cup {m}
  /\ IF shown[m] = 0 THEN Show([shown EXCEPT ![m] = 1]) ELSE UNCHANGED <<memoryVars, saved>>
  /\ UNCHANGED <<upsets, loaded, restore, apply, raced>>

\* deliver() of the outbox, after the channel has acknowledged m: the saved history gets m
\* before its entry is removed, then the list does.
Deliver(m) ==
  /\ m \notin sent
  /\ LET l == Join(Only(m, 1), Stored) IN
       \/ /\ SaveWorks(l) /\ sent' = sent \cup {m}
          /\ IF shown[m] = 0 THEN Show([shown EXCEPT ![m] = 1]) ELSE UNCHANGED <<memoryVars, saved>>
          /\ UNCHANGED upsets
       \/ SaveFails(l) /\ Upset /\ UNCHANGED <<memoryVars, saved, sent>>
  /\ UNCHANGED <<loaded, restore, apply, raced>>

\* applyHistory(): the list is read from the ref, then the files of the entry are looked up.
ApplyStarts(m, r) ==
  /\ apply = None
  /\ apply' = Join(seen, Only(m, r))
  /\ UNCHANGED <<memoryVars, saved, disk, unsaved, loaded, restore, sent, upsets, raced>>

\* The merge with the list read before replaces whatever is shown by now.
ApplyEnds ==
  /\ apply # None /\ apply' = None
  /\ Show(apply)
  /\ raced' = raced \cup Missing(shown, apply)
  /\ UNCHANGED <<disk, unsaved, loaded, restore, sent, upsets>>

\* React renders: the ref is the list shown.
Render ==
  /\ ~rendered /\ rendered' = TRUE /\ seen' = shown
  /\ saved' = IF saved = "shown" THEN "seen" ELSE "none"
  /\ UNCHANGED <<shown, disk, unsaved, loaded, restore, apply, sent, upsets, raced>>

------------------------------------------------------------------------------------
(* Saving, and leaving. *)

\* flushHistory() writes the list in the ref, unless it is empty or was saved.
Written == seen # Empty /\ saved # "seen"

Races == IF Restoring \/ ~rendered THEN Missing(disk, seen) ELSE {}

\* 400 ms after a change, or before an export.
Flush ==
  /\ Written
  /\ \/ SaveWorks(seen) /\ saved' = "seen" /\ UNCHANGED upsets
     \/ SaveFails(seen) /\ UNCHANGED saved /\ Upset
  /\ raced' = raced \cup Races
  /\ UNCHANGED <<memoryVars, loaded, restore, apply, sent>>

\* The view is left, or the page, after a last flush, or the page crashes; the memory of
\* the view is gone, with the page also the list that could not be saved.
Leave(flushes, page) ==
  /\ Upset
  /\ IF flushes /\ Written
       THEN disk' = seen /\ raced' = raced \cup Races
       ELSE UNCHANGED <<disk, raced>>
  /\ unsaved' = IF page \/ (flushes /\ Written) THEN None ELSE unsaved
  /\ shown' = Empty /\ seen' = Empty /\ rendered' = TRUE /\ saved' = "none"
  /\ loaded' = FALSE /\ restore' = None /\ apply' = None
  /\ UNCHANGED sent

Next ==
  \/ LoadStarts \/ LoadEnds \/ Reset \/ DataSynced \/ ApplyEnds \/ Render \/ Flush
  \/ \E m \in Texts : Append(m) \/ Revise(m) \/ Deliver(m)
  \/ \E m \in Texts : \E r \in Revisions(m) : ApplyStarts(m, r)
  \/ Leave(TRUE, TRUE) \/ Leave(TRUE, FALSE) \/ Leave(FALSE, TRUE)

Spec == Init /\ [][Next]_historyVars

------------------------------------------------------------------------------------
(* Properties. *)

\* deliver(), loadChannel(), flushHistory(): a message whose outbox entry is gone is missing
\* from the saved history only if a merge that had read the list before it, or a flush
\* during a restore or before a render, overwrote it: no failed save, reset, reload or
\* return to the view loses it.
LossNeedsRace == \A m \in sent : disk[m] = 0 => m \in raced

\* useCollab.ts: "Keep the outbox entry until the sender's history is durable too."
SentStaysSaved == \A m \in sent : disk[m] > 0
=================================================================================
