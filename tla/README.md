# Peerly: TLA+ models, checks and proofs

Peerly is a browser chat and call application. Peers talk to each other over WebRTC; around that,
a realtime backend of Cloudflare Durable Objects keeps what must survive a closed tab: the encrypted
events of every conversation, the sessions and devices of every account, commands, invitations and
signalling. This directory holds TLA+ modules of the parts of the program where order, failure and
concurrency decide whether it is right; the TLC configurations that check them; and TLAPS proofs of
what matters most. All paths below are relative to the repository (`packages/core` is the shared core,
`src/` the Peerly application).

Contents: [1 Inventory](#1-inventory) · [2 Plan](#2-plan) · [3 What is modelled](#3-what-is-modelled) ·
[4 Runs](#4-runs) · [5 Fairness](#5-fairness) · [6 Proofs](#6-proofs) ·
[7 Disagreements found](#7-disagreements-found) · [8 Limits](#8-limits)

## 1 Inventory

### How the parts fit together

```
 browser tab                                     Cloudflare
 +-------------------------------+               +-------------------------------------------+
 | composer -> MessageOutbox     |   WebSocket   |  AuthorizedChannel (one per conversation) |
 |              | deliver()      | <-----------> |    ^ authorize()      | subscribe...      |
 |           DurableChannelClient|   events      |    | revokeSession()  v                   |
 |                               |               |  UserGateway (one per account)            |
 |           RealtimeClient      | <-----------> |    sessions, devices, commands, mailbox,  |
 |              commands, cursor |   commands    |    event stream                           |
 |           peers (WebRTC)      | <-----------> |  SignalScope / lobby (no storage)         |
 +-------------------------------+   signalling  +-------------------------------------------+
   IndexedDB and localStorage, shared by all tabs of the browser
```

A tab enrolls its device with the account's gateway, sends it commands and receives its event stream.
A command about a conversation carries a signed authority document; the gateway verifies it and calls
`authorize()` on the conversation's channel. The tab may then open a WebSocket to the channel; the
channel asks the gateway whether the session of the cookie is valid, and the gateway writes down that
this channel holds a socket of it, so that a later `device.revoke` reaches it. What the user types is
put in the outbox, which delivers it through the durable channel client until it is acknowledged.

### Components

| Component | State | Operations | Hard behaviour | What makes it correct |
| --- | --- | --- | --- | --- |
| **authorized channel object** (`worker/realtime/gateway/authorizedChannel.mjs`, `channelSessions.mjs`) | authority, members, leases per device, event table, state table, alarm, sockets with attachments | `authorize`, WebSocket upgrade and session binding, message handler (persisted, state, transient), close, `revokeSession`, `alarm` | awaits between insert and fan-out and between accept and bind; eviction; one alarm for everything; authorities in any order | members only send and receive; stored before acknowledged or forwarded; retention and cap lose no row early; state converges; alarm never late |
| **account gateway: sessions and revocation** (`userGateway.mjs`, `gatewayRuntime.ts`, `deviceRegistry.ts`) | sessions, device epochs, rows of subscribed channels, alarm | enroll, `device.revoke`, subscribe, sweep, alarm | awaits of many channel calls, each may fail; restart; rows added during an await | every active channel socket has a row; acknowledged after every channel was told; device cap |
| **message outbox** (`messageOutbox.ts`, `reactMessageOutbox.ts`) | IndexedDB table shared by tabs; per page `lastQueuedAt`; per outbox object the running flush and `cancelled` | enqueue, remove (cancel), flush | outboxes of tabs, and of one tab after a remount, interleave between transactions; failed transactions; reload; acceptance racing the time-out | nothing lost; order kept; cancelled stays cancelled; everything leaves in the end |
| gateway command service (`gatewayService.ts`, `coreHandlers.ts`) | idempotency records, mailbox, blocks, rate counters | dispatch of one command | two copies of one command; cap of the mailbox; failure between effect and record | at most one effect per request id, the same answer for a retry |
| gateway event stream (`gatewayRuntime.ts` 266–321, `eventStream.ts`) | stream table, cursor, batch, connected sockets | append, batch flush, urgent send, hello/resume/resync, prune | urgent events overtake the batch; restart loses the batch; retention passes a sleeping client | a cursor never passes an event the client was not given |
| realtime client (`realtimeClient.ts`, `realtime/runtime.ts`) | connection cycle, queue, commands in flight, cursor, back-off | connect, refresh, send, ack, time-out, resume | refresh during a dial; requeue after a close; late answers | never without a cycle, a timer or a socket; a command is held once; what resolved was run |
| durable channel client (`durableChannel.ts`, `react.ts`) | pending sends, socket, connect attempt, back-off | open, send, ack, snapshot, reconnect, leave | ack time-out against late ack; replay after each snapshot; close events of replaced sockets | never stranded; a resolved send was accepted |
| ephemeral channel / lobby (`ephemeralChannel.mjs`) | leases, sockets | announce, signal, expire | lapse against renewal | only leased sockets are listed and reached |
| signal scopes (`signalScope.mjs`, `signalScopeRuntime.ts`, `sqlScopeStore.ts`) | authorizations with a lease, sockets, alarm | authorize, release, connect, close, alarm, route | one alarm for all leases; deletion of storage under a living object | a lease ends by an alarm; an empty scope is deleted |
| presence and liveness (`domain/presence.ts`, `realtime/liveness.ts`) | leases, last pong | touch, expire | silent death of a socket | offline is noticed within the lease |
| device revocation queue (`src/collab/deviceRevocationQueue.ts`, `useDeviceRevocations.ts`) | intents in localStorage, running flush of a tab | enqueue, flush | tabs share the list, not the flush; remounts and reloads during a request | every removed device is revoked in the end |
| peer rooms (`react.ts` `useRoom`, `joinRoom.ts`) | runs of the effect, `instanceRef`, `teardownRef`, recovery budget and timer | join, leave, rejoin, report of a failure | a leave that lands after the next join; late reports; joins cancelled under way | one room after the other; recovery ends |
| friend invites (`usePresenceLobby.ts`, `friendInviteStore.ts`, `friendsStore.ts`) | outgoing and incoming invites, friends with the secret of their room | invite, resend, accept, decline, withdraw, unfriend | late, crossing and lost messages; awaits of signatures; reloads | both friends derive the same room |
| product commands and authority proofs (`worker/realtime/commands/content.mjs`) | none of its own | verify a document, call `authorize` | – | only verified documents reach a channel |
| realtime authentication (`auth.mjs`, `crypto.mjs`, `router.mjs`) | nonces | token, cookie, route | nonce reuse | a nonce is used once |
| identity and provider login (`identity.mjs`, `googleAuth.mjs`, `identityCertificate.ts`) | none over time | verify, issue | – | cryptographic checks |
| peer identity handshake (`peerIdentityHandshake.ts`, `src/collab/identityHandshake.ts`) | pending challenges, verified peers | challenge, answer, admit, time out | both sides at once; reconnect of the same peer | a peer is admitted only as the identity it proved |
| message merge and history (`messageMerge.ts`, `useMultiChannelStore.ts`, `channelHydration.ts`, `historyStorage.ts`, `useCollab.ts`) | lists shown, seen, saved and restored | load, merge, append, revise, deliver, flush, reset | merges across awaits and renders; failed saves; reloads | a message whose outbox entry is gone is on the disk |
| channel list and settings (`channelStore.ts`, `useChannelSync.ts`) | last-writer-wins records | create, rename, delete | concurrent edits | replicas converge |
| browser tabs (`browserTabs.ts`, `useSiblingTabs.ts`) | claim locks, presented events, broadcast messages | claim, handle, query | two tabs at once; two claims of one tab; a rejected lock request; a hidden tab that waits; a closing tab | exactly one tab presents an event |
| device sync and pairing (`reactDevicePairing.ts`, `MyDevicesPage.tsx`) | secret, partner, approval, grant of a visit | hello, approve, grant, send data | two targets, own second tab, early and late messages | data moves after the approval of both sides |
| legacy relay coordination (`server/coordination.mjs`) | seekers of pools, pending proposals | seek, acknowledge, cancel, expire, close | proposals that cross between pools; a socket that goes while proposed | a seek is held in one place |
| direct message ring, file transfer, video calls | per-peer exchanges | – | messages between two peers, time-outs | not modelled, see section 8 |
| TURN credentials, content screening, views and hosting | – | – | – | not modelled, see section 8 |

Each row is a component of `PROJECT.json` with its status. The hazards of the code – what a test would
hardly reach – are listed there at the line where they bite, with the properties that would catch them.

## 2 Plan

All modules below exist. The order was: the channel object, the gateway and the outbox, which keep the
messages and the access to them; then the ends of the wires (`RealtimeClient`, `ChannelClient`,
`EventFeed`); then what the tabs and members of a workspace keep between them.

| Module | Models | Abstract statement or composition | Theorems |
| --- | --- | --- | --- |
| `AuthorizedChannel` | the channel object | – | 12, section 6 |
| `DeviceSessions` | sessions, subscriptions, revocation, with the channels' end of the calls | gateway composed with its sockets at the channels | 4 |
| `MessageOutbox` | the outboxes of all tabs over one store | – | 4 |
| `CommandService` | what `send()` promises | abstract; implemented by the two below | – |
| `RealtimeClient` | control client and the gateway's command loop | client, wire and gateway composed; implements `CommandService` | 5 |
| `ChannelClient` | durable channel client and its hook | client and wire, the channel reduced to acceptance; implements `CommandService` | 3 |
| `PeerRoom` | joining, leaving and recovery of a peer-to-peer room | the library's room is external | 2 |
| `EventFeed` | event stream, resume and the tabs' cursors | gateway, wire and tabs composed | 1 |
| `ChannelHistory`, `ChannelList`, `BrowserTabs`, `FriendInvites`, `DevicePairing`, `SignalScope`, `RelayMatching` | what their names say | – | 1 each, and the types of all of them in one |
| `RevocationQueue` | what its name says | – | – (its one property is a liveness property) |

The theorems are those of section 6.

Left, in this order: the invariants under the liveness properties (that a flush or a timer is there whenever
it is needed, for `RevocationQueue` and the outbox); the composition outbox, channel client and channel
object in one module, for "each queued message is logged, at most once while its row stays", and its
refinement; the client end of the relay; the peer handshake.

The modules are written so that they can be proved about: parameters are constants with named
assumptions, an operation is one action, minima are taken with quantifiers where a proof needs their
type, and there is no RECURSIVE operator.

## 3 What is modelled

Conventions of all modules. An action is a handler from one await on another object (or on the alarm
write, or on a database transaction) to the next, with everything it does in between; what follows the
await is an action of its own. Ciphertexts, ids and documents are model values or small records with
the fields the code compares. A variable marked *history* in its module is not in the code: it records
what properties speak of. Each bound on the behaviour is a constant whose comment says `bound`.

### AuthorizedChannel – `authorizedChannel.mjs`, `channelSessions.mjs`

| Variable | In the code |
| --- | --- |
| `authority`, `members`, `grants` | `channel_authority`, `channel_members`, `channel_authorizations` |
| `rows`, `nextSeq`, `states` | `channel_events` and its AUTOINCREMENT, `channel_states` |
| `sock` | `ctx.getWebSockets()` with the attachments; `bind` is set during the await of `bindChannelSession` |
| `alarm`, `storing` | the object's alarm; message handlers in `await this.scheduleAlarm()` |
| `acks`, `got`, `roster` | what the connections were sent |

| Action | Handler |
| --- | --- |
| `Authorize` | `authorize()`: owner, version and fingerprint checks, members, lease, `dropRevokedSockets` |
| `Fetch`, `BindAnswered`, `BindRefused` | `fetch()` up to the gateway's answer, and what follows either answer: revoked meanwhile, alarm moved earlier, snapshot, member list |
| `Store`, `FinishStore`, `AckDuplicate` | a persisted event: insert, trim, prune, alarm; after the await the sender is checked again, fan-out, acknowledgement; the duplicate |
| `PutState`, `Forward` | last-writer-wins state and transient events |
| `DropInactive`, `DropAbusive` | frames of an inactive sender; frames over the size or the rate limit (whether one is over is left open) |
| `CloseEvent`, `RevokeSession`, `Alarm` | `webSocketClose`/`webSocketError`, `revokeSession`, `alarm` |
| `Restart`, `Tick` | eviction: handlers and connections are lost, storage and alarm stay; time |

A principal, a keyed hash in the code, is the user it stands for. The one place that relies on the
platform is the read and write of the alarm in `bindChannelSession`, one step here because Durable
Objects hold other events back during storage awaits. `RowsReachActive` has one exception, which the
code has: when the author's connection ended between the insert and the fan-out, the stored row is not
forwarded and reaches the others with their next snapshot. A detail worth knowing, though no property
counts it as wrong: `expireChannelSessions`, run by any insert or alarm, closes sockets that are still
being bound.

### DeviceSessions – `userGateway.mjs`, `gatewayRuntime.ts`, `deviceRegistry.ts`, `coreHandlers.ts`, `channelSessions.mjs`

| Variable | In the code |
| --- | --- |
| `epoch`, `sessions`, `subs` | `device_epochs`, `sessions`, `channel_session_subscribers` |
| `calls`, `revokes` | handlers suspended in `revokeChannelSubscribers`, and the `revokeSession` requests they sent |
| `sock` | at the channels: the attachment of a socket from the upgrade to its end |
| `gone`, `late`, `bumped` | history: acknowledged sessions, sockets subscribed during a revocation, devices evicted with a valid session |

| Action | Handler |
| --- | --- |
| `Enroll` | `enrollDevice`: `registerSession` with `decideEnrollment` (device cap, epoch), then the sweep of channels whose session is gone |
| `Revoke` | `device.revoke` up to the await of the channels |
| `Alarm` | `alarm`: the sweep, then expired sessions are deleted |
| `Finish`, `Fail`, `GatewayRestart` | all answers arrived; one call failed, before or after its effect; handlers lost |
| `Connect`, `Subscribe`, `Bind`, `LoseAnswer`, `RevokeAt`, `Disconnect` | `bindChannelSession`, `subscribeChannelSession`, its answer, `revokeChannelSession`, the close |

The gateway's other alarms (nonces, presence, idempotency records) let `Alarm` come at any time. When two
devices enrolled at the same time, the code evicts by key id; the model takes either. The gateway's own
control sockets, its nonces and the identity checks before `enrollDevice` are left out. The exception
`late` in `Tracked` and `RevokedBeforeAck` is a real gap, the finding `sessions_lost`: it is
stated so that everything outside it is proved. `DevicesCapped`, that no account has more devices than the cap, is
proved and left to the proof: it takes no interleaving to check.

### MessageOutbox – `messageOutbox.ts`, `reactMessageOutbox.ts`

A *box* is the object `createMessageOutbox` returns. Mounting the workspace makes one
(`reactMessageOutbox.ts:8`), so that a tab has several when the user goes to another screen (`App.tsx:306-311`) and
comes back: the flush of the old box goes on, to the end of its attempt, beside the new one.

| Variable | In the code |
| --- | --- |
| `store` | the IndexedDB table of one scope, shared by all boxes of all tabs |
| `last`, `adding` | of a page: `lastQueuedAt`; puts of `enqueue` on their way |
| `flush`, `cancelled` | of a box: the running operation; the set `cancelled` |
| `open` | of a box: not made yet, `current()` true or false, left behind by a navigation |
| `accepted`, `attempted` | messages the other side accepted, and those a `deliver()` was started for |

| Action | Code |
| --- | --- |
| `Enqueue`, `EnqueuePut` | `enqueue`: the list with the cap of 100 and the stamp; the put |
| `Cancel` | `remove` |
| `Start`, `List`, `Check`, `Remove` | `flush` and its loop while things go well |
| `DeliverOk`, `DeliverFail`, `Accept` | `deliver()` resolves or rejects; the other side accepts, possibly after a rejection |
| `FailCheck`, `Put`, `Undo` | the catch block: still stored? put back; take out again if cancelled |
| `FlushFails`, `EnqueueFails`, `Reload` | an aborted transaction, a page reload, with which all boxes of the tab are gone |
| `Leave`, `Return` | of one box: `enabled` is false while the room is lost, or another scope is shown |
| `Remount` | the workspace is left and mounted again: another box of the tab takes the place of the first |

A transaction and the code up to the next await are one action: the transactions of one flush complete in
the order they were opened, those of two flushes interleave. Two things are assumed: loading a page takes
longer than the few milliseconds by which a burst of sends ran ahead of the clock (`Reload`), and a
message id is queued once. The `failed` flag shown by the UI is left out, no step reads it.

`QueuedLeaves` has one exception, which the code has. A message is cancelled in the new box while that box's
flush lists, and the old box's failing attempt puts it back: the new flush passes it over as cancelled, finds the
store not empty, and lists again, at once and without end, until the page is left or reloaded (`PassedOver`).

### CommandService – what `send()` promises

The abstract specification of both sockets: `outcome[k]` is what the caller of `send()` knows, `runs[k]`
how often the other side has run the command (for a message: accepted it). `Issue`, `Run`, `Resolve`,
`RejectAll`. Its content is the guard of `Resolve`: nothing resolves that was not run; a rejected command
may have been run, before or after. `RealtimeClient` and `ChannelClient` implement it.

### RealtimeClient – `realtimeClient.ts`, `gatewayService.ts`

| Variable | In the code |
| --- | --- |
| `state`, `stopped`, `retry`, `timers`, `current` | `currentState`, `stopped`, `reconnectTimer`, the session and ping intervals, `channel` |
| `cycle`, `refresh` | where `runCycle` and `refreshSession` wait: reading the capability, enrolling, asking for the session, dialling |
| `dropped`, `cap`, `faults` | `close()` was called; the capability stored for all tabs; faults so far |
| `front`, `back`, `up`, `down` | both ends of every socket and the frames between them |
| `queue`, `pending`, `outcome` | commands that wait, commands in flight in the Map's order, what callers know |
| `handling`, `acted`, `answer`, `runs` | the gateway's handlers before and after their effect, recorded answers, effects |
| `excused` | history: commands whose copies were handled at once, or that ran with no answer recorded |

| Action | Code |
| --- | --- |
| `Connect`, `RetryFires`, `Close` | `connect`, the timer of `scheduleReconnect`, `close` |
| `ReadCapability`, `Enrolled`, `SessionFails`, `Dial` | `runCycle` from await to await |
| `SocketOpens`, `SocketCloses` | `onOpen` (hello, the queue is sent), `onClose` (commands in flight are queued again, back-off, the refusals that end in `upgrade-required` or a new enrolment) |
| `RefreshStarts`, `RefreshReads`, `RefreshEnrols`, `OtherTabClears` | the refresh interval; another tab removes the stored capability |
| `Send`, `TimesOut`, `ReceiveAnswer` | `send` with the queue's cap, its timer, `settle` |
| `HandleHello`, `HandleCommand`, `HandlerActs`, `HandlerThrows`, `HandlerAnswers` | `handleMessage`: nothing before the hello; a recorded answer is repeated; run, record, answer. `HandlerThrows` comes before the effect or after it, as `device.revoke` may when telling the channels fails; nothing is recorded then |
| `GatewayCloses`, `Restart` | either end closes; the gateway is evicted between any two steps |

The refresh dials while an old socket may still be open, so `front` has two open sockets at times: the
comment of `runtime.ts`, "One control socket per app/tab", does not hold of that moment (`OneSocket`).

### EventFeed – `gatewayRuntime.ts`, `eventStream.ts`, `gatewayService.ts`, `realtimeClient.ts`

| Variable | In the code |
| --- | --- |
| `latest`, `oldest`, `batch`, `armed` | `stream_seq`, the rows retained, the batch and its timer |
| `socket`, `hello`, `down` | the socket of a tab, the cursor in its hello, frames on their way |
| `cursor`, `loaded`, `saving`, `stored` | `lastAckSeq`, `resumeLoaded`, the timer that saves, the cursor all tabs share |
| `from`, `got`, `seeded` | history: where a page began, what it was given by event and by snapshot |

`Emit` is one call of `emit` with its urgent events and the batch it fills; `FlushFires`, `Prune`, `Accept`,
`HandleHello` (rows or a snapshot), `Receive` (a delta, or a snapshot and with it a resync), `SaveFires`,
`Closes`, `Reload`, `Restart`. `CaughtUp` is about one connection: between the answer to the hello, the
batch and the urgent frames nothing falls through.

### ChannelClient – `durableChannel.ts`, `react.ts` (`useDurableChannel`)

The table of variables is in the module. `Dials`, `AuthorizeFails`, `ConnectTimesOut`, `RedialFires` and
`OpenAgain` are the connect attempt, its failures, its timer and the hook's; `Opens`, `Closes`, `Receive`,
`HistoryRead` the events of a socket, also of one that was replaced or told to close; `Send`, `Encrypted`,
`AckTimesOut`, `Leave` the calls; `Binds`, `Handles`, `Drops` the channel as the client sees it. A frame is
accepted once however often it comes: that the channel does not always keep to this is finding 1.

### ChannelHistory – `useMultiChannelStore.ts`, `channelHydration.ts`, `historyStorage.ts`, `useCollab.ts`, `useHistorySync.ts`

One channel in one page, its messages as a function from ids to revisions: `shown` (React's state), `seen`
(the ref, one render behind), `saved` and `unsaved` (what the last save was given, and whether it failed),
`disk`, `loaded`, `restore` and `apply` (lists a running restore or merge has read), `sent` (own messages
whose outbox entry is gone). `LoadStarts`/`LoadEnds`, `ApplyStarts`/`ApplyEnds` are the two halves of the
awaits; `Append`, `Revise`, `Deliver`, `Render`, `Flush`, `Reset`, `DataSynced`, `Leave` the rest.

### BrowserTabs – `browserTabs.ts`

One event, the tabs that hear of it, and their calls of `claim()`, several of one tab at once (`Calls`).
`Claim`, `ClaimHidden` and `Wakes` are `claim()` and its delay in a hidden tab; `LockAnswers`, `Granted`, `HoldEnds`
the Web Lock, where the browser has it (`hasLocks`): granted, taken, or the request rejected, which answers no as
well though nobody presents the event (`"failed"`, excepted in `OnePresents`);
`Receive`, `Handle`, `Gone` the broadcast, the event dealt with, and a tab closed at any point.

### ChannelList – `channelStore.ts`, `useChannelSync.ts`

A replica per member: `list`, `tomb`, and `announced`, from which any announcement may arrive any number of
times in any order. Clocks are not synchronised (`Stamps`). `Add`, `Rename`, `Move`, `Remove`, `Merge`,
`MergeRemoval`. Of a name the model has its first 48 characters and whether more follow (`long`); `LongIds` are
the ids of more than 64. `Add` keeps both whole, `Rename` and `Merge` cut the name, `Merge`, `Remove` and
`MergeRemoval` refuse a long id. So `ListsConverge` speaks of the lists up to that (`Taken`): names cut, channels
with a long id left out; section 7.

### FriendInvites – `usePresenceLobby.ts`, `friendInviteStore.ts`, `friendsStore.ts`

Two accounts, either of which may invite the other, and the secrets of their room. `outgoing`, `incoming`,
`listed`, `secret` are the stores of each, `author` says whose an invite is, `inviting` and `signing` are the
handlers that await a lookup or a signature, `post` the messages on their way. `BeginInvite`, `Resend`, `Withdraw`,
`Accept`, `Decline`, `ReceiveInvite`, `ReceiveYes`, `ReceiveNo` begin a handler; `Invite`, `Added`,
`AutoAccepted`, `Accepts`, `Joined` are what it does after its await; `Befriend`, `Unfriend`, `Reload` the
changes around it. `OneRoom` excepts what the code allows: a secret of an invite its author let go (`dropped`), of
an invite of one's own that was accepted but not kept (`unkept`), and two secrets of invites that crossed
(`crossed`: made while one of the other was under way); section 7.

### DevicePairing – `reactDevicePairing.ts`, `MyDevicesPage.tsx`

A visit of the devices page is a peer with a `device`, a `secret`, a `partner`, what it has `approved`,
`received`, kept `waiting` and `taken`. `Open`, `Leave`, `Revisit`, `ReceiveHello`, `Approve`,
`ReceiveGrant`, `SendSync`, `ReceiveSync`; whoever has the link may be in the room.

### SignalScope – `signalScopeRuntime.ts`, `sqlScopeStore.ts`, `signalScope.mjs`

`auth` (when a lease ends), `owner` of the sockets, `alarm`, `tables`, `kept`. `Authorize`, `Release`,
`Connect`, `SocketClosed`, `AlarmFires`, `AlarmThrows`, `Construct`. Whether `deleteAll()` takes the alarm
with it depends on the platform's compatibility date; the model takes both.

### RevocationQueue – `deviceRevocationQueue.ts`, `useDeviceRevocations.ts`

`intents` in localStorage, per tab the list its flush read (`running`) and `isCurrent()` of it (`live`).
`Enqueue`, `Starts`, `Ends`, `ServerRevokes`, `Acknowledged`, `Fails`, `Remounts`, `Reloads`.

### RelayMatching – `server/coordination.mjs`

`relay` holds the seekers of each pool, the pending proposals and `pendingMatchBySocket`; `phase` the
sockets. A command is one step with everything it does: `SeekSet`, `SeekClear`, `SeekAck`, `Closing`,
`RemoveSocket`, `ProposalExpires`, `SeekExpires`; `TryMatch`, `Cancel`, `Forget`, `Prune` are its helpers,
which map a relay to those it may become. The exception `crossed` of `SeekHeldOnce` is explained in
section 7.

### PeerRoom – `react.ts` (`useRoom`)

Every run of the hook's effect has a number and a `phase`; `current` is the one that is not cancelled,
`instance` and `teardown` are the refs, `waitsFor` the promise a run found in `teardownRef`. `Choose`,
`JoinAgain`, `RelaysKnown` run the effect (`Effect`: the cleanup, then a new run, unless there is no room or
no relay); `Awaited`, `Joined`, `JoinFails`, `LeaveEnds` are what a run awaits. `ScheduleRecovery`,
`DebounceEnds`, `TimerFires`, `ResetAfterSuccess` are the recovery, `PeersChange` what it looks at. React runs
the cleanups and the effects of one commit together, so they are one step.

### MCPage, MCLive – several parts in one run

The components of a page share no state in the program. `MCPage` and `MCLive` put them side by side: `part`,
chosen in the initial state, says which of them moves. That is a disjoint union of their behaviours, and so
each is explored as by itself; a property of the composite is the property of the module.

## 4 Runs

| Run | Checks | Shows | Bounds |
| --- | --- | --- | --- |
| `channel_log` | `TypeOK` `HistoryKept` `PersistedFirst` `OnlyReadersReceive` `RowsReachActive` | messages through insert, trim, retention, eviction, reconnection and the await before the fan-out | 2 users, 2 connections, 2 messages (one addressed), table of 1, 2 inserts, 1 tick of retention: a trim, a prune and a reconnection each happen |
| `channel_members` | `ActiveAreMembers` `RosterExact` `AckedStateWins` `StateReachesActive` `NothingAfterRevocation` | newer, conflicting and rival authorities, revocation before, during and after binding, member lists, states | 4 documents (two of one version, one of another owner), 2 keys with a capacity of 1, a tie of revisions |
| `channel_time` | `AlarmCoversDeadlines` `ExpiredSocketCloses` `OverdueRowsGo` | one alarm for rows and sessions | clock to 2, sessions that end at 1 or 2, rows retained 1 |
| `sessions_revoke` | `TypeOK` `Tracked` `RevokedBeforeAck` `RemovedGoQuiet` | enrolment, eviction, expiry and revocation against a socket that binds, lost calls, a restart; a failed revocation is repeated | cap of 1 device, 2 devices, 3 sessions (one device twice), 1 socket, 2 handlers, 1 fault; 129 016 states |
| `outbox` | `TypeOK` `NothingLost` `SentInOrder` `CancelHolds` | two boxes over one store | 2 boxes (`TwoBoxes`), of two tabs or of one tab in which the workspace was left and mounted again, 2 messages, clock to 2, 1 cancellation, 1 break (the remount is one); 5.0 million states |
| `client` | `NeverStuck` `HeldOnce` `SecondRunExcused` `ImplementsService` | the control client with the gateway's command loop | 2 commands, 2 sockets, a queue of 1, 1 fault (a handler that throws after its effect is one), 2 runs of a command; 2.5 million states |
| `page` | `PageTypeOK` `KeepsTrying` `ImplementsService` `LossNeedsRace` `OnePresents` `ListsConverge` `DataNeedsBoth` `ScopeEnds` `CaughtUp` `SeekHeldOnce` `RoomsTakeTurns` | nine parts, each by itself (below) | below; 906 359 states |
| `friends` | `OneRoom`, and the types of `FriendInvites` with it | two users who may invite each other at any time | 2 invites (`InviteMax`) of either user, 1 handler of a page that signs (`TaskMax`), 1 change (`ChangeMax`): invites that cross, an invite replaced while the first is answered, a friend removed while the answer is late; 1.2 million states |
| `live` | `QueuedLeaves` `EventsArrive` `RevocationsReach` | outbox, event feed and revocation queue get there | outbox: 1 message, 2 boxes as in `outbox`, 1 cancellation, 1 break; feed: 1 tab, 3 events, 1 break; queue: 2 devices, 2 tabs, 3 intents, 2 remounts |
| `channel_duplicate` | `NoSecondWrite` – violated | finding 1 | 3 inserts |
| `sessions_lost` | `AlwaysRevokedBeforeAck` – violated | finding 2 | as `sessions_revoke` |
| `outbox_cancel` | `CancelledStaysOut` – violated | finding 3 | 1 message, 2 boxes |

The parts of `page`:

| Part | Properties | Bounds, and what happens within them |
| --- | --- | --- |
| `ChannelClient` | `KeepsTrying` `ImplementsService` | 2 messages, 2 sockets (`LinkMax`), a map of 1 (`PendingMax`), 1 refusal, 2 calls of `send()` (`SendMax`): a socket replaced while its close is late, a replay, a time-out before the acknowledgement, a message given up and sent again |
| `ChannelHistory` | `LossNeedsRace` | 2 messages, one revised (`Edited`, `RevMax` 2), 1 upset (`UpsetMax`): a merge and a restore that overlap a delivery, a failed save, a reload |
| `BrowserTabs` | `OnePresents` | 2 tabs of 2 calls each (`CallMax`), dealt with at most once (`Handle`): one that presents, one that waits for the lock, one that has heard, a second call of the tab that holds it |
| `ChannelList` | `ListsConverge` | 2 members, 3 channels, one of them with a long id (`LongIds`), room for 2 (`ListMax`), 2 names, 3 changes (`EditMax`), clocks to 2 (`TimeMax`): a removal against a rename, an equal stamp, a full list, a long name that is cut |
| `DevicePairing` | `DataNeedsBoth` | 3 visits, 2 devices, 1 revisit (`RevisitMax`): a second target, a second tab of the source, a page left and opened again |
| `SignalScope` | `ScopeEnds` | 3 people, 2 sockets, a cap of 1 (2 authorizations), a lease of 2, clock to 5 (`ScopeClock`): renewal, expiry, deletion, a new start |
| `EventFeed` | `CaughtUp` | 1 tab, 4 events (`MaxSeq`), batch of 2, 1 row kept by a prune, 2 breaks (`MaxBreaks`): a batch lost, a cursor before the oldest row, a cursor after a restart |
| `RelayMatching` | `SeekHeldOnce` | 3 clients, 2 pools, 3 proposals (`MatchMax`): a proposal cancelled while a third client waits |
| `PeerRoom` | `RoomsTakeTurns` | 2 rooms, 4 runs (`RunMax`), 1 recovery: a room left while it joins, has joined or still leaves, a late report, a peer that comes while the timer runs |

The properties about one pair of actors (a sender and a receiver, a revocation and a socket, two flushes)
need two of each, and the hazards need one eviction, one fault or one break between two given steps;
the bounds allow that at every point. What does not depend on a bound is proved for all values of the
constants (section 6). Connections, handlers of the gateway and commands are interchangeable and declared
symmetric in the runs that have no liveness property.

`client`, `page`, `friends` and `live` switch the deadlock check off: in their parts the
behaviour ends when a bound is used up (sockets, edits, events, invites, visits), and a room that was left, a scope
past its last tick or tabs that have all gone have nothing left to do. That a client is never stuck before that is
`NeverStuck` and `KeepsTrying`. No other run does.

The modules that MC modules use through `INSTANCE` state their assumptions as operators
(`HistoryAssumption`, …); `PageAssumption` and `LiveAssumption` assume them together, so TLC evaluates them.

## 5 Fairness

- `channel_time`: weak fairness of `Alarm`. The platform runs a due alarm, and runs it again if it threw.
  Nothing is assumed of clients.
- `sessions_revoke`: weak fairness of *some* `Alarm`, of `Finish` and of `RevokeAt`. `scheduleAlarm` has a
  candidate as long as sessions, nonces, idempotency records or presence rows exist, so alarms keep
  coming; requests between objects arrive or fail, and failures (`Fail`, `GatewayRestart`) are not fair.
- `live`, outbox: weak fairness of a box's own steps, of its `Return` and `DeliverFail`, and
  of `Accept`, strong fairness of `DeliverOk`. Nothing is assumed of a remount. The 15 s timer and the `online`
  event keep starting flushes and every attempt ends, as it has a time-out; that an attempt repeated for ever
  succeeds once is the assumption under which the outbox promises anything.
- `live`, feed: weak fairness of `FlushFires` (the timer), `Accept` and `HandleHello` (the gateway handles what
  arrives) and `Receive` (an open socket delivers). Restarts, closes and reloads are not fair, and
  `EventsArrive` speaks of a socket that stays open.
- `live`, queue: weak fairness of a flush's start or end and of the end of its request (the 30 s interval, the
  time-out), strong fairness of `ServerRevokes` and `Acknowledged`, as for the outbox.

The other runs assume no fairness.

## 6 Proofs

Everything here is proved by `tlapm` for every value of the constants that satisfies the named
assumptions: `ChannelAssumption`, `DocAssumption` (a signature determines the document) and
`FrameAssumption` (a message id is drawn once) for the channel, `SessionAssumption`, `OutboxAssumption`,
`ClientAssumption`, `ChannelClientAssumption`, `PeerRoomAssumption`, and `PageAssumption` for the other parts
of a page: bounds are naturals, caps and leases positive, the clock of a scope reaches its first tick, and the
value for "none" is no visit, device or list. TLC evaluates them in every run.

Every safety property that a run checks is a theorem. They are in eight modules: one each for the modules
with a run of their own, `ChannelClientProofs` and `PeerRoomProofs`, and two for the other parts of `page`:
`PageProofs` (tabs, scopes, feed, pairing, relay) and `PageDataProofs` (history, invites, channel list, and the
types of all parts). Those two speak of `PageSpec`, the specification the run checks. A step of the page is a
step of a part or leaves that part as it is (`PartsStep`), and each part begins as its module says
(`PartsBegin`); with these two lemmas an invariant of a part's `Init` and `Next` is one of the page.

**AuthorizedChannelProofs.** `TypeCorrect`; `ActiveMembers` (`ActiveAreMembers`): not inductive, as a socket still
binding becomes active without a look at the members, so the invariant says of every socket neither revoked nor
closed, bound or still binding, that its user is a member. `AuthorityAdvances` (`AuthorityOnlyAdvances`) follows
from `Install`; no run checks it. `PersistFirst` (`PersistedFirst`) needs that what a handler awaits to forward is
in the log and that the table is a part of the log. `StateWins` (`AckedStateWins`) needs the order of `Supersedes`
and that a written key holds a state of that key.

Of what is sent, in the second half of the same module: `SilentAfterRevocation` (`NothingAfterRevocation`), `ReadersOnly`
(`OnlyReadersReceive`), `StateReaches`, `RowsReach`, `RosterIsExact`, `AlarmNeverLate`, `HistoryIsKept`.
They rest on three lemmas about steps: every step but an upgrade and the answer to one only makes
sockets fade (`OthersFade`); an event goes to an active connection or, in its snapshot, to one whose
answer arrives (`SentOnly`); a socket that is active after a step was active before or has just been
answered (`ActiveStep`), for which `Binding` says that a socket still binding has no expiry yet. With
them `StateReachesActive` is inductive as it stands; `RowsReachActive` also needs that the connection a
row came in on is bound, so that it cannot become active again; `RosterExact` needs that a step without
a broadcast leaves everything settled only if it was, with the same active sockets. `HistoryKept` needs
sequence numbers that are unique and rise; that a trimmed table holds at most `MaxHistory` rows
(`TrimSize`) follows from its oldest row, which has all the others after it.

**DeviceSessionsProofs.** `TypeCorrect`; `AlwaysTracked` (`Tracked`), `RevokedFirst`
(`RevokedBeforeAck`), `Capped` (`DevicesCapped`). `Tracked` is not inductive: a socket becomes active
when its answer arrives, so the invariant `RowKept` says of every granted socket, answered or with the
answer on its way, that its row is stored. Rows of a device are deleted when a call for it ends, so
`Asked` says that, while a call revokes a device, every granted socket of the device has a request on its
way; none has when the call ends. `NeverBack` says that a session an acknowledgement spoke for, or will
speak for, is not stored again (session ids are drawn once), and `GoneQuiet` carries `RevokedBeforeAck` to
sockets that are granted. `Capped` needs that at most one device is added per enrolment and that one is removed first
when the cap is reached; the count of a set with an element added and one removed is
`FS_AddElement`/`FS_RemoveElement`.

**MessageOutboxProofs.** `TypeCorrect`; `NothingIsLost` (`NothingLost`), `InOrder` (`SentInOrder`),
`CancellationHolds` (`CancelHolds`), for any boxes of any tabs. `Kept` adds to `NothingLost` that the entry of a
flush at its remove was accepted, and that only a cancelled message is taken out by an undo. `Stamps` says that the
stamps of a tab rise and are above what is stored; `Ordered` is the heart: for two entries of one tab, as long as
the earlier one is neither accepted nor cancelled, no flush of any box is past it, because every flush either has it
still in its list before the later one or has not listed the later one. `Holding` follows a
cancelled message through the points of the flush it may meet, of the box it was cancelled in: a box left behind
has a `cancelled` of its own and can undo only what another box cancelled. The earliest entry of a list is a
`CHOOSE`; that it exists is the lemma `Smallest`, the least element of a set of naturals, taken from the
well-foundedness of the order since the induction theorems of the library take an operator as parameter.

**ChannelClientProofs.** `TypeCorrect`; `AlwaysTries` (`KeepsTrying`): a close event changes nothing when the
socket was replaced, so that the current link may be one that can no longer close has to be ruled out
(`LinkLives`); with that it is inductive. `Implements` (`ImplementsService`), the refinement of
`CommandService`. Its invariant says that whoever waits, being encrypted or in the outbound map, was told
`waiting` (`Waiting`), that no frame is on its way of a message that was not sent (`Asked`), and that an
acknowledgement on its way is of an accepted message (`Answered`); the map is finite, so that a replay is a
sequence. The step map (`StepMaps`): `Send` is `Issue`; a refused `Encrypted` and `AckTimesOut` reject one
message, `Leave` the outbound map; `Receive` resolves, rejects or stutters; `Handles` of a message the channel
had not accepted is `Run`; everything else stutters.

**PeerRoomProofs.** `RoomTypeCorrect`; `OneRoomAtATime` (`RoomsTakeTurns`). `Turns` says where the runs stand that
are in a room: the joined one is the instance, a leaving one is the one `teardownRef` speaks of, a joining
one is not cancelled (else it is excepted), and while one joins or has joined the last leave has ended,
because the current run waits for just that leave. `Budget` counts what was spent, and the armed timer, among
the attempts, and says that with a peer nothing was spent, so that the count may start afresh.

**RealtimeClientProofs.** `TypeCorrect`, with `HelloFirst`: only a fresh socket still carries its hello, in front,
so that what a ready one handles is a command. `ClientNeverStuck` (`NeverStuck`) needs to know that a client that
shows offline before it was closed has never dialled and refreshes nothing (`Fresh`): no socket and no refresh can
end late for a client at rest. `CommandHeldOnce` (`HeldOnce`) is inductive with the types; the work is in the lemmas
on sequences, of what taking out, appending and reversing leave. `SecondRunIsExcused` (`SecondRunExcused`): a
command whose copies never overlapped, and whose effect never went unrecorded, has one handler at most, and its
count says where that handler is (`RunsOnce`). `Implements` (`ImplementsService`): everything on its way to the
gateway was sent, and every acknowledgement, on its way or remembered, is of a command that was run
(`AnswersAreTrue`); `StepMaps` has one case per action, of which `Send`, `HandlerActs`, `TimesOut`, `ReceiveAnswer`
and `Close` may be steps of the service and the others stutter.

**PageProofs.**
- `OneTabPresents` (`OnePresents`). Exclusion does not follow from the lock alone: a tab that dealt with the
  event lets it go, and then only what the others have heard keeps them off. `OthersHear` says that as long as
  one open tab has not heard of the presenter, the presenter holds the lock and the broadcast to that tab is on
  its way; `PresenterKnows`, `LockInHand` and `SomebodyDid` tie the answers to the lock and to what is told. The lock
  is a call's, not a tab's: a second call of the tab that holds it is told no, as one of another tab.
- `ScopeIsEnded` (`ScopeEnds`) needs that a scope without its tables has nothing stored
  (`NothingWithoutTables`), and that the alarm is set to the least lease, which exists (`Smallest`).
- `NoEventFalls` (`CaughtUp`). The property speaks of a tab that has nothing more to receive. `NothingFalls`
  speaks of all: what a tab is owed it has seen, or it is on its way to it, or in the batch. Frames
  keep their order, so `SnapshotsGrow` says that a later snapshot reaches further, and none past the latest event.
  One lemma per operation; the hello has the two cases of `ResumeFrames`.
- `DataMovesOnceApproved` (`DataNeedsBoth`): grants are evidence (`GrantsVouch`: who approved vouches for its
  partner, who has a grant is vouched for, and so is whatever is on the wire), also after a page was left and
  opened again; partners are of different devices (`OnDevices`).
- `SeekIsHeldInOnePlace` (`SeekHeldOnce`). A command calls several helpers, and in between the relay is in no
  state the property holds of: while a cancelled proposal is taken apart its sides wait nowhere. So the
  invariant is a predicate of a relay, not of the state: `Orderly` (a proposed client is in no other proposal
  and does not seek in that pool, and the pointer leads there) and `NoneLost`, which excepts the clients just
  taken out. `PruneKeeps`, `TryMatchKeeps`, `BackKeeps` and `CancelKeeps` say what each helper does to the two,
  and the steps chain them as the code does.

**PageDataProofs.**
- `OnlyRacesLose` (`LossNeedsRace`). The disk is overwritten with what the page holds, so the invariant follows
  every delivered message that no race took off through the lists: a list that could not be saved has it
  (`UnsavedHolds`); the one shown has it once the stored one was merged, and until then it is there or in the
  list about to be merged (`ShownHolds`).
- `FriendsShareARoom` (`OneRoom`). Of each user, its own secret is older than the invites it is adding, and those
  older than the one that is out (`NewestLast`); nothing is kept or answered that was not sent (`SentBefore`); two
  invites under way at once have crossed (`Crossing`). For an accepted invite, its answer on the way, being signed
  or kept, `AcceptedIsKept` says which secret the invitee may have: that one or none, a newer one still under way,
  or one that falls under an exception. That each ends with a secret of the other's is ruled out apart
  (`NoneSwapped`).
- `ChannelListsConverge` (`ListsConverge`). Convergence relates two members; the invariant is of one: it has the
  newest of what it heard of each channel, an entry later than every removal and its tombstone, or none and then
  nothing later than the tombstone (`NewestKept`). What it heard is taken as a member takes it over (`Taken`), so
  that a whole name at the one who gave it and the cut one elsewhere are the same entry. Two members that heard the
  same then agree, as without ties the newest is unique (`NewestConverge`). `StampsBounded` is what the types need
  of the stamps.
- `PageTypesCorrect` (`PageTypeOK`): the conjunction of the invariants of all parts (`PageInv`).

`OneRoom` was also checked by TLC with more of each bound than its run has, in its module by itself: with two
handlers that sign, with two changes, and with three invites and no change.

Only model-checked: the liveness properties `ExpiredSocketCloses`, `OverdueRowsGo`, `RemovedGoQuiet`,
`QueuedLeaves`, `EventsArrive`, `RevocationsReach`, which the prover cannot reach.

## 7 Disagreements found

1. `channel_duplicate`. `docs/DURABLE_OBJECTS_ARCHITECTURE.md:395` says that duplicate message ids are
   acknowledged without a second write or broadcast. `authorizedChannel.mjs:325` looks for them among the
   rows still in the table; a retry after the row was trimmed or pruned is written and forwarded again.
2. `sessions_lost`. `channelSessions.mjs:1-3` says that the gateway revokes before it acknowledges
   `device.revoke`. `revokeChannelSubscribers` (`userGateway.mjs:273-279`) deletes after its await all
   rows of the device, also that of a session which enrolled and subscribed during the await; the next
   `device.revoke` no longer reaches that socket.
3. `outbox_cancel`. `packages/core/README.md:348` promises the cancellation of future attempts. An
   attempt that fails in another tab puts the cancelled entry back (`messageOutbox.ts:69-70`). So does, in one tab,
   an attempt of the outbox that was left behind when the workspace was mounted again
   (`reactMessageOutbox.ts:8`).

The state sequences are TLC's: run the configuration of that name.

### Observations

Met while modelling; no run is listed for them, as the code makes no promise they break, or the promise is
stated in the module and left unchecked. The claim definitions `OneSocket` and `NeverReExecuted`
(`RealtimeClient`), `BumpedEnrollsAgain` (`DeviceSessions`), `ResumesFromApplied` (`EventFeed`) and `SentStaysSaved`
(`ChannelHistory`) are such promises; TLC refutes each, given as an invariant of its module.

- **Commands.** `gatewayService.ts:123` says that a repeated command never re-executes. Answers are remembered
  when the handler has returned (`gatewayService.ts:162`): a copy that comes while `device.revoke` awaits the
  channels (`userGateway.mjs:101`) runs again, as does one after a restart in that await or after a handler that
  threw when its work was done. `SecondRunExcused` says that these are all the ways. The refresh
  dials a second socket while the first is open. Requeueing reverses the commands in flight; `close()` during
  a cycle still dials.
- **Events.** `docs/DURABLE_OBJECTS_ARCHITECTURE.md:313` has clients resume from the last applied sequence;
  tabs share one stored cursor, so a page may resume from what another tab applied. It is stored per app, not
  per account. A snapshot does not advance it.
- **Channel client.** Peers known from a snapshot stay when its connect attempt times out afterwards.
  `leave()` while a send is being encrypted leaves that send waiting for its 30 s timer.
- **Gateway.** `deviceRegistry.ts:26-28` says that an evicted ("bumped") device simply re-enrolls, so its
  epoch is left untouched. `registerSession` (`gatewayRuntime.ts:213`) collects epochs only of devices that have
  sessions, and an evicted device has none: if it was revoked once before and enrolled again, so that its epoch
  is 1, its new session is stored at epoch 0 and `validateSession` refuses it. Its next enrolment is at the right
  epoch, as the refused session is there. (`BumpedEnrollsAgain` needs 5 sessions to be refuted.)
  When `enrollDevice` throws in the sweep, `scheduleAlarm` is not reached
  (`userGateway.mjs:214-215`). The sweep revokes the rows of a device, so also those of its live session;
  the sockets reconnect. Rows of closed sockets stay until their session ends.
- **History.** `applyHistory` replaces the list it read before its await; messages appended or restored
  meanwhile disappear from view, and the next flush persists that. A flush during a restore, followed by the
  end of the page, does the same. `useCollab.ts:649` promises otherwise.
- **Revocation queue.** An intent whose request keeps failing is at the head of the list and holds up the rest
  of that flush; a flush shared by two callers has the `isCurrent` of the first; an acknowledgement removes an
  intent that was enqueued again during the request.
- **Channel list.** Two changes with one stamp diverge (`Tied`); a move stamps every channel; a full member
  turns away what others keep (`full`); the local `addWorkspaceChannel` has no cap, nor the limits of the merge: a
  name of more than 48 characters is whole at the member who gave it, until the channel is renamed, and cut at the
  others; a channel whose id is longer than 64 is never taken over by others, and its own member cannot remove it.
- **Outbox.** After a remount the new outbox may list in a busy loop a message that was cancelled in it and put back
  by the old one, until the page is left or reloaded (`PassedOver`).
- **Browser tabs.** A rejected lock request answers false though no tab presents the event (`browserTabs.ts:170`),
  and so may every tab; the comment of `claim` says true for exactly one. A browser rejects such a request of an
  open page hardly ever, so no run is made of it.
- **Signal scopes.** `deleteAll()` drops the tables that only the constructor makes: until the object is
  evicted `authorize` and the alarm throw. Sockets whose authorization has expired stay open.
- **Friends.** Invites that cross, both accepted, may leave each with the secret of its own invite (`crossed`); an
  invite that was withdrawn, replaced or refused can still be accepted by a late answer (`dropped`); accepting an
  invite of somebody who is already a friend answers yes without storing the secret (`unkept`). `friendsStore.add`
  calls that overlap lose one.
- **Pairing.** A grant that arrives before the hello is handled is dropped and not sent again; a reload of
  one side leaves the other's partner stale. A later pairing overwrites the account's sync secret.
- **Relay.** A socket proposed in two pools has one entry in `pendingMatchBySocket`: clearing or closing cancels
  the last proposal only, a match can be committed after `seek.clear`, and `Forget` removes the pointer of the
  other (`crossed`).
- **Peer rooms.** The comment of `useRoom` (`react.ts:779-786`) says that it handles a leave that lands after the
  next join. A run cancelled while it joins leaves by itself, without a record in `teardownRef`
  (`react.ts:969-972`), so the next run does not wait for that leave; `overtaken` excepts these runs. A join that
  rejects is not tried again, and a leave that never ends blocks every later join. `scheduleRecovery` does not
  look at `cancelled`: a late report of the room before arms a rejoin in the new one, where the effect at
  993-1007 meant to prevent that.
- **Relay client.** While a configured relay has no ticket (signed out, or a token that expired), `resolveRelayUrls`
  answers with no URL and `connectOwnedSocket` (`coordination.ts:244-250`) returns without arming a retry:
  nothing dials again after a later sign-in.

## 8 Limits

### Not modelled

- Composition: outbox, channel client and channel object are checked one by one, against the interface of
  the next: `Accept` and `DeliverOk` of the outbox are what `ChannelClient` promises, `Handles` of the
  channel client is what `AuthorizedChannel` does. One module of all three is in the plan.
- The sweep's revocation of a live session's rows and the cap of 100 in the outbox, which is checked before an
  await, were listed as hazards and dropped: the first costs a reconnection, the second a few entries over a
  limit of convenience. So was the pending id that `durableChannel.ts:174` looks up before an await: no caller
  gives a send with a state an id of its own.
- The lobby's ephemeral channel binds sessions with the module `AuthorizedChannel` models and stores nothing;
  presence is a function of a last-seen time. The direct message ring is a notice; the chat it opens is the
  durable channel. Chunks of files and calls are the library's and the browser's.
- The peer handshake and product commands decide by signatures, which a model takes as given; realtime
  authentication, certificates and provider login are checks of one request with no state but expiry.
- Parts of modelled components: the gateway's nonces and signed upgrades; mailbox, blocks and presence behind
  its commands; the content of snapshots; routing inside a scope; workspace invites; the account sync after
  a pairing; which peers are asked for history; presence, rooms and the client end of the relay; a component with a
  peer room that is unmounted and mounted anew, with refs of its own.
- Credentials and usage counters of outside services, content screening, views and hosting.

`PROJECT.json` lists every component with its status and what of it is left out. Most of the repository's
lines are views, styles, texts, cryptography and calls to browsers and vendors; the models are of the small
part where order and failure decide.

### Method

- The prover has no liveness under fairness and no `ENABLED`; the library's induction theorems
  with operator parameters cannot be used, nor can RECURSIVE operators. No module declares one.
- Time is a counter and clocks do not go back (those of members of a workspace may show anything). The
  storage of an object is durable and atomic per handler step, as the platform's output gates make it.
