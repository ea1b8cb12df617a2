------------------------------- MODULE FriendInvites -------------------------------
(***************************************************************************)
(* How two users become friends over the lobby                             *)
(* (src/hooks/usePresenceLobby.ts, src/collab/friendInviteStore.ts,        *)
(* packages/core/src/friendsStore.ts).  An invite carries the secret from  *)
(* which both derive the room they talk in; it is kept and sent again      *)
(* until its answer comes.  Either user may invite the other, also while   *)
(* an invite of the other is under way.                                    *)
(*                                                                         *)
(* An invite is a number, and so is its secret.  A message is sent only    *)
(* while the other is present, and may be lost; the invites of a user      *)
(* arrive in the order they were sent, and a page's signatures are ready   *)
(* in the order it asks for them.  Each user has one device and one tab;   *)
(* other friends, and invitations to workspaces, are left out.             *)
(***************************************************************************)
EXTENDS Naturals, Sequences, FiniteSets, SequencesExt

CONSTANTS
  First, Second,  \* the two users; the first invite is First's
  InviteMax,      \* bound: invites
  TaskMax,        \* bound: handlers of one page that sign at the same time
  ChangeMax       \* bound: invites withdrawn, friends removed, pages reloaded

InviteAssumption ==
  First # Second /\ {InviteMax, TaskMax, ChangeMax} \subseteq Nat

VARIABLES
  listed,    \* users who list the other as a friend
  secret,    \* secret[u]: of the room with the other, 0 for none
  outgoing,  \* outgoing[u]: the invite u keeps until it is answered, or 0
  incoming,  \* incoming[u]: the invite u is asked about, or 0
  inviting,  \* users whose page is making an invite
  signing,   \* signing[u]: what u's handlers are signing
  post,      \* messages on their way
  invites,   \* how many there were
  author,    \* author[i]: who makes the i-th
  changes,
  dropped,   \* history: invites their author gave up, or was done with when taken up
  unkept,    \* history: invites accepted without keeping their secret
  crossed    \* history: invites made while one of the other was under way, and those

inviteVars == <<listed, secret, outgoing, incoming, inviting, signing, post, invites, author,
                changes, dropped, unkept, crossed>>

Friends == {First, Second}
Invites == 1..InviteMax
Tasks == {"auto", "accept", "join", "add"} \X Invites

TypeOK ==
  /\ listed \subseteq Friends
  /\ {secret, outgoing, incoming} \subseteq [Friends -> 0..InviteMax]
  /\ inviting \subseteq Friends
  /\ signing \in [Friends -> Seq(Tasks)]
  /\ post \subseteq {"invite", "yes", "no"} \X Invites
  /\ invites \in 0..InviteMax /\ author \in [Invites -> Friends]
  /\ changes \in 0..ChangeMax
  /\ dropped \subseteq Invites /\ unkept \subseteq Invites /\ crossed \subseteq Invites

Init ==
  /\ listed = {} /\ inviting = {} /\ post = {} /\ invites = 0 /\ changes = 0
  /\ secret = [u \in Friends |-> 0]
  /\ outgoing = [u \in Friends |-> 0] /\ incoming = [u \in Friends |-> 0]
  /\ signing = [u \in Friends |-> <<>>]
  /\ author \in [Invites -> Friends] /\ (1 \in Invites => author[1] = First)
  /\ dropped = {} /\ unkept = {} /\ crossed = {}

Other(u) == IF u = First THEN Second ELSE First

\* Who is invited.
Invitee(i) == Other(author[i])

Change == changes < ChangeMax /\ changes' = changes + 1

\* A directed message, if the other is present.
Sends(kind, i) == post' \in {post, post \cup {<<kind, i>>}}

\* A message is handled.
Takes(kind, i) == <<kind, i>> \in post /\ post' = post \ {<<kind, i>>}

Begins(u, task, i) ==
  Len(signing[u]) < TaskMax /\ signing' = [signing EXCEPT ![u] = Append(@, <<task, i>>)]

IsSigned(u, task, i) == signing[u] # <<>> /\ Head(signing[u]) = <<task, i>>

Signed(u, task, i) == IsSigned(u, task, i) /\ signing' = [signing EXCEPT ![u] = Tail(@)]

\* addFriend() with a secret: listed, and the secret of an earlier invite replaced.
AddFriend(u, i) == listed' = listed \cup {u} /\ secret' = [secret EXCEPT ![u] = i]

\* The invites of u that wait for an answer, or are answered and being signed.
UnderWay(u) == {i \in Invites : outgoing[u] = i \/ Contains(signing[u], <<"add", i>>)}

\* The invite is its author's newest of those under way or kept.
Stands(i) ==
  /\ i \in UnderWay(author[i]) \/ secret[author[i]] = i
  /\ \A j \in UnderWay(author[i]) : j <= i

\* addFriend() with an invite of the other.
TakeUp(i) == AddFriend(Invitee(i), i) /\ dropped' = IF Stands(i) THEN dropped ELSE dropped \cup {i}

------------------------------------------------------------------------------------
(* The inviting side. *)

\* inviteByEmail(), to its first await: to nobody one has a room with.
BeginInvite(u) ==
  /\ ~(u \in listed /\ secret[u] # 0) /\ u \notin inviting
  /\ invites + Cardinality(inviting) < InviteMax
  /\ inviting' = inviting \cup {u}
  /\ UNCHANGED <<listed, secret, outgoing, incoming, signing, post, invites, author, changes,
                 dropped, unkept, crossed>>

\* And from there: the signed invite replaces an older one, and goes out.
Invite(u) ==
  /\ u \in inviting /\ inviting' = inviting \ {u}
  /\ invites' = invites + 1 /\ invites' \in Invites /\ author[invites'] = u
  /\ outgoing' = [outgoing EXCEPT ![u] = invites'] /\ Sends("invite", invites')
  /\ dropped' = dropped \cup ({outgoing[u]} \ {0})
  /\ crossed' = IF UnderWay(Other(u)) = {} THEN crossed
                                           ELSE crossed \cup UnderWay(Other(u)) \cup {invites'}
  /\ UNCHANGED <<listed, secret, incoming, signing, author, changes, unkept>>

\* deliverPendingInvites(), while the other is present.
Resend(u) ==
  /\ outgoing[u] # 0
  /\ post' = post \cup {<<"invite", outgoing[u]>>}
  /\ UNCHANGED <<listed, secret, outgoing, incoming, inviting, signing, invites, author, changes,
                 dropped, unkept, crossed>>

\* inviteRespAction.onMessage: an answer to the invite that is out, and to no other.
ReceiveYes(i) ==
  /\ Takes("yes", i)
  /\ IF outgoing[author[i]] = i
       THEN outgoing' = [outgoing EXCEPT ![author[i]] = 0] /\ Begins(author[i], "add", i)
       ELSE UNCHANGED <<outgoing, signing>>
  /\ UNCHANGED <<listed, secret, incoming, inviting, invites, author, changes, dropped, unkept,
                 crossed>>

ReceiveNo(i) ==
  /\ Takes("no", i)
  /\ IF outgoing[author[i]] = i
       THEN outgoing' = [outgoing EXCEPT ![author[i]] = 0] /\ dropped' = dropped \cup {i}
       ELSE UNCHANGED <<outgoing, dropped>>
  /\ UNCHANGED <<listed, secret, incoming, inviting, signing, invites, author, changes, unkept,
                 crossed>>

\* The entry is signed.
Added(i) ==
  /\ Signed(author[i], "add", i)
  /\ AddFriend(author[i], i)
  /\ UNCHANGED <<outgoing, incoming, inviting, post, invites, author, changes, dropped, unkept,
                 crossed>>

\* cancelOutgoing(), or the invite has expired.
Withdraw(u) ==
  /\ outgoing[u] # 0 /\ Change
  /\ outgoing' = [outgoing EXCEPT ![u] = 0] /\ dropped' = dropped \cup {outgoing[u]}
  /\ UNCHANGED <<listed, secret, incoming, inviting, signing, post, invites, author, unkept,
                 crossed>>

------------------------------------------------------------------------------------
(* The invited side. *)

\* inviteAction.onMessage: a friend's is taken up at once, any other the user is asked about.
ReceiveInvite(i) ==
  /\ Takes("invite", i)
  /\ \A j \in 1..i-1 : author[j] = author[i] => <<"invite", j>> \notin post
  /\ IF Invitee(i) \in listed
       THEN Begins(Invitee(i), "auto", i) /\ UNCHANGED incoming
       ELSE incoming' = [incoming EXCEPT ![Invitee(i)] = i] /\ UNCHANGED signing
  /\ UNCHANGED <<listed, secret, outgoing, inviting, invites, author, changes, dropped, unkept,
                 crossed>>

\* Mutant of AutoAccepted: a friend's invite is acknowledged, its secret not kept.
AutoAcknowledged(i) ==
  /\ Signed(Invitee(i), "auto", i)
  /\ Sends("yes", i)
  /\ UNCHANGED <<listed, secret, outgoing, incoming, inviting, invites, author, changes, dropped,
                 unkept, crossed>>

\* The entry is signed and kept, the answer signed and sent.
AutoAccepted(i) ==
  /\ Signed(Invitee(i), "auto", i)
  /\ TakeUp(i)
  /\ Sends("yes", i)
  /\ UNCHANGED <<outgoing, incoming, inviting, invites, author, changes, unkept, crossed>>

\* acceptInvite(): the answer is signed,
Accept(u) ==
  /\ incoming[u] # 0
  /\ Begins(u, "accept", incoming[u])
  /\ UNCHANGED <<listed, secret, outgoing, incoming, inviting, post, invites, author, changes,
                 dropped, unkept, crossed>>

\* removeIncomingInvite(): that one, and no other.
Answered(i) == [incoming EXCEPT ![Invitee(i)] = IF @ = i THEN 0 ELSE @]

\* and sent; an entry is signed next, or the one that is there is left as it is.
Accepts(i) ==
  /\ IsSigned(Invitee(i), "accept", i)
  /\ Sends("yes", i)
  /\ IF Invitee(i) \in listed
       THEN /\ signing' = [signing EXCEPT ![Invitee(i)] = Tail(@)]
            /\ incoming' = Answered(i) /\ unkept' = unkept \cup {i}
       ELSE /\ signing' = [signing EXCEPT ![Invitee(i)] = Append(Tail(@), <<"join", i>>)]
            /\ UNCHANGED <<incoming, unkept>>
  /\ UNCHANGED <<listed, secret, outgoing, inviting, invites, author, changes, dropped, crossed>>

Joined(i) ==
  /\ Signed(Invitee(i), "join", i)
  /\ TakeUp(i)
  /\ incoming' = Answered(i)
  /\ UNCHANGED <<outgoing, inviting, post, invites, author, changes, unkept, crossed>>

\* declineInvite(), or the invite has expired unanswered.
Decline(u) ==
  /\ incoming[u] # 0
  /\ incoming' = [incoming EXCEPT ![u] = 0]
  /\ Sends("no", incoming[u])
  /\ UNCHANGED <<listed, secret, outgoing, inviting, signing, invites, author, changes, dropped,
                 unkept, crossed>>

------------------------------------------------------------------------------------
(* The list of friends, and failures. *)

\* useFriends: a member of a workspace is listed, without a room.
Befriend(u) ==
  /\ u \notin listed /\ listed' = listed \cup {u}
  /\ UNCHANGED <<secret, outgoing, incoming, inviting, signing, post, invites, author, changes,
                 dropped, unkept, crossed>>

\* removeFriend(): the secret goes with the entry.  A signature is ready before the next click.
Unfriend(u) ==
  /\ u \in listed /\ signing[u] = <<>> /\ Change
  /\ listed' = listed \ {u} /\ secret' = [secret EXCEPT ![u] = 0]
  /\ UNCHANGED <<outgoing, incoming, inviting, signing, post, invites, author, dropped, unkept,
                 crossed>>

\* Messages to u.
IsTo(u, msg) == u = IF msg[1] = "invite" THEN Invitee(msg[2]) ELSE author[msg[2]]

\* The page is reloaded, or the lobby left: handlers and messages to it are lost.
Reload(u) ==
  /\ Change
  /\ signing' = [signing EXCEPT ![u] = <<>>] /\ inviting' = inviting \ {u}
  /\ post' = {msg \in post : ~IsTo(u, msg)}
  /\ dropped' = dropped \cup {i \in Invites : Contains(signing[u], <<"add", i>>)}
  /\ UNCHANGED <<listed, secret, outgoing, incoming, invites, author, unkept, crossed>>

Next ==
  \/ \E u \in Friends :
       \/ BeginInvite(u) \/ Invite(u) \/ Resend(u) \/ Withdraw(u) \/ Accept(u) \/ Decline(u)
       \/ Befriend(u) \/ Unfriend(u) \/ Reload(u)
  \/ \E i \in Invites :
       \/ ReceiveYes(i) \/ ReceiveNo(i) \/ ReceiveInvite(i)
       \/ Added(i) \/ AutoAccepted(i) \/ Accepts(i) \/ Joined(i)

Spec == Init /\ [][Next]_inviteVars

------------------------------------------------------------------------------------
(* Properties. *)

\* Nobody waits for an answer, and nothing is on its way.
Settled ==
  /\ post = {}
  /\ \A u \in Friends : outgoing[u] = 0 /\ incoming[u] = 0 /\ signing[u] = <<>>

\* The secret of u is of an invite of its own.
Own(u) == secret[u] # 0 /\ author[secret[u]] = u

\* inviteAction, inviteRespAction, acceptInvite(): two friends who both have a secret have the
\* same one once all is settled, whatever was lost, sent again, replaced or removed; unless one
\* of the secrets is of an invite its author had let go, or of the user's own that was accepted
\* but not kept, or each has that of its own invite, and the two had crossed.
OneRoom ==
  Settled /\ (\A u \in Friends : u \in listed /\ secret[u] # 0) =>
    \/ secret[First] = secret[Second]
    \/ \E u \in Friends : secret[u] \in dropped \/ (Own(u) /\ secret[u] \in unkept)
    \/ \A u \in Friends : Own(u) /\ secret[u] \in crossed
=================================================================================
