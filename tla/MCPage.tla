---------------------------------- MODULE MCPage ----------------------------------
(***************************************************************************)
(* Model values for the safety of ten components around one page: the end  *)
(* of a channel, the messages of a channel, the tabs that share the        *)
(* browser, the list of channels, the invites of friends, the linking of   *)
(* devices, the lifetime of a signalling scope, the event feed, the relay  *)
(* that matches seekers, and the rooms of a component.  They share         *)
(* nothing; `part`, chosen in the initial state, says which of them a      *)
(* behaviour is of, and the others stand still in it.  The properties of   *)
(* ChannelClient and PeerRoom keep the names those modules give them.      *)
(***************************************************************************)
EXTENDS ChannelClient, PeerRoom

CONSTANTS
  Parts,                                                      \* those that a run is about
  Texts, Edited, RevMax, UpsetMax,                            \* of ChannelHistory
  Pages, CallMax,                                             \* of BrowserTabs
  Members, Chans, LongIds, Names, ListMax, TimeMax, EditMax,  \* of ChannelList
  First, Second, InviteMax, TaskMax, ChangeMax,               \* of FriendInvites
  Visits, Devices, RevisitMax,                                \* of DevicePairing
  People, ScopeSocks, ScopeCap, Lease, ScopeClock,            \* of SignalScope
  Tabs, BatchMax, KeepNewest, MaxSeq, MaxBreaks,              \* of EventFeed
  Clients, Pools, MatchMax                                    \* of RelayMatching

VARIABLES
  part,
  shown, seen, rendered, saved, disk, unsaved, loaded, restore, apply, sent, upsets, raced,
  hasLocks, alive, claiming, lock, presented, claimedHere, mail, answered, handled, crashed,
  list, tomb, announced, edits, heard, full,
  listed, secret, outgoing, incoming, inviting, signing, post, invites, author, changes,
  dropped, unkept, crossed,
  device, shared, inside, partner, approved, received, waiting, taken, wire, revisits,
  vouched,
  auth, owner, alarm, now, tables, kept,
  latest, oldest, batch, armed, socket, hello, down, cursor, cursorLoaded, saving, stored,
  breaks, from, got, seeded,
  seeking, old, relay

History == INSTANCE ChannelHistory
Claims == INSTANCE BrowserTabs
List == INSTANCE ChannelList
Invites == INSTANCE FriendInvites
Pairing == INSTANCE DevicePairing WITH secret <- shared
Scope == INSTANCE SignalScope
Feed == INSTANCE EventFeed WITH loaded <- cursorLoaded
Matching == INSTANCE RelayMatching WITH phase <- seeking

historyVars == <<shown, seen, rendered, saved, disk, unsaved, loaded, restore, apply, sent,
                 upsets, raced>>
claimVars == <<hasLocks, alive, claiming, lock, presented, claimedHere, mail, answered,
               handled, crashed>>
listVars == <<list, tomb, announced, edits, heard, full>>
inviteVars == <<listed, secret, outgoing, incoming, inviting, signing, post, invites, author,
                changes, dropped, unkept, crossed>>
pairVars == <<device, shared, inside, partner, approved, received, waiting, taken, wire,
              revisits, vouched>>
scopeVars == <<auth, owner, alarm, now, tables, kept>>
feedVars == <<latest, oldest, batch, armed, socket, hello, down, cursor, cursorLoaded, saving,
              stored, breaks, from, got, seeded>>
matchingVars == <<seeking, old, relay>>
vars == <<part, channelClientVars, historyVars, claimVars, listVars, inviteVars, pairVars,
          scopeVars, feedVars, matchingVars, peerRoomVars>>

\* Every part begins as its module says, one of them is going to move.
PageInit ==
  /\ part \in Parts
  /\ Init /\ History!Init /\ List!Init
  /\ Invites!Init /\ (part # "invites" => author = [i \in Invites!Invites |-> First])
  /\ Pairing!Init /\ Scope!Init /\ Feed!Init
  /\ Matching!Init /\ (part # "matching" => old = {})
  /\ Claims!Init /\ (part # "claims" => hasLocks)
  /\ RoomInit /\ (part # "peer" => relays)

ChannelStep ==
  /\ part = "channel" /\ Next
  /\ UNCHANGED <<part, historyVars, claimVars, listVars, inviteVars, pairVars,
                 scopeVars, feedVars, matchingVars, peerRoomVars>>

HistoryStep ==
  /\ part = "history" /\ History!Next
  /\ UNCHANGED <<part, channelClientVars, claimVars, listVars, inviteVars, pairVars,
                 scopeVars, feedVars, matchingVars, peerRoomVars>>

ClaimStep ==
  /\ part = "claims" /\ Claims!Next
  /\ UNCHANGED <<part, channelClientVars, historyVars, listVars, inviteVars, pairVars,
                 scopeVars, feedVars, matchingVars, peerRoomVars>>

ListStep ==
  /\ part = "list" /\ List!Next
  /\ UNCHANGED <<part, channelClientVars, historyVars, claimVars, inviteVars, pairVars,
                 scopeVars, feedVars, matchingVars, peerRoomVars>>

InviteStep ==
  /\ part = "invites" /\ Invites!Next
  /\ UNCHANGED <<part, channelClientVars, historyVars, claimVars, listVars, pairVars,
                 scopeVars, feedVars, matchingVars, peerRoomVars>>

PairingStep ==
  /\ part = "pairing" /\ Pairing!Next
  /\ UNCHANGED <<part, channelClientVars, historyVars, claimVars, listVars, inviteVars,
                 scopeVars, feedVars, matchingVars, peerRoomVars>>

ScopeStep ==
  /\ part = "scope" /\ Scope!Next
  /\ UNCHANGED <<part, channelClientVars, historyVars, claimVars, listVars, inviteVars,
                 pairVars, feedVars, matchingVars, peerRoomVars>>

FeedStep ==
  /\ part = "feed" /\ Feed!Next
  /\ UNCHANGED <<part, channelClientVars, historyVars, claimVars, listVars, inviteVars,
                 pairVars, scopeVars, matchingVars, peerRoomVars>>

MatchingStep ==
  /\ part = "matching" /\ Matching!Next
  /\ UNCHANGED <<part, channelClientVars, historyVars, claimVars, listVars, inviteVars,
                 pairVars, scopeVars, feedVars, peerRoomVars>>

PeerStep ==
  /\ part = "peer" /\ RoomNext
  /\ UNCHANGED <<part, channelClientVars, historyVars, claimVars, listVars, inviteVars,
                 pairVars, scopeVars, feedVars, matchingVars>>

PageNext ==
  \/ ChannelStep \/ HistoryStep \/ ClaimStep \/ ListStep
  \/ InviteStep \/ PairingStep \/ ScopeStep \/ FeedStep \/ MatchingStep
  \/ PeerStep

PageSpec == PageInit /\ [][PageNext]_vars

ASSUME PageAssumption ==
  /\ Parts \subseteq {"channel", "history", "claims", "list", "invites", "pairing", "scope",
                     "feed", "matching", "peer"}
  /\ History!HistoryAssumption /\ List!ListAssumption /\ Invites!InviteAssumption
  /\ Pairing!PairingAssumption /\ Scope!ScopeAssumption /\ Feed!FeedAssumption
  /\ Matching!MatchingAssumption /\ Claims!ClaimAssumption

\* The properties of the ten modules, under the names the configuration gives.
PageTypeOK ==
  CASE part = "channel" -> TypeOK
    [] part = "history" -> History!TypeOK
    [] part = "claims" -> Claims!TypeOK
    [] part = "list" -> List!TypeOK
    [] part = "invites" -> Invites!TypeOK
    [] part = "pairing" -> Pairing!TypeOK
    [] part = "scope" -> Scope!TypeOK
    [] part = "feed" -> Feed!TypeOK
    [] part = "matching" -> Matching!TypeOK
    [] part = "peer" -> RoomTypeOK

\* See ChannelHistory: only a race takes a delivered message off the disk.
LossNeedsRace == History!LossNeedsRace

\* See BrowserTabs: one tab presents an event.
OnePresents == Claims!OnePresents

\* See ChannelList: members that heard the same have the same list.
ListsConverge == List!ListsConverge

\* See FriendInvites: friends who settled have the same secret.  Its type invariant goes with it:
\* the run of the other nine parts leaves this one as it began.
OneRoom == Invites!TypeOK /\ Invites!OneRoom

\* See DevicePairing: data moves after two approvals.
DataNeedsBoth == Pairing!DataNeedsBoth

\* See SignalScope: what is stored for a scope ends with it.
ScopeEnds == Scope!ScopeEnds

\* See EventFeed: no event falls between the hello's answer, the batch and urgent frames.
CaughtUp == Feed!CaughtUp

\* See RelayMatching: a seek is held in one place.
SeekHeldOnce == Matching!SeekHeldOnce
=================================================================================
