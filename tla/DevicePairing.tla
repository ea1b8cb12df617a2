------------------------------- MODULE DevicePairing -------------------------------
(***************************************************************************)
(* Linking the devices of one account                                      *)
(* (packages/core/src/reactDevicePairing.ts, src/components/               *)
(* MyDevicesPage.tsx).  Whoever shows the page with a new secret is the    *)
(* source of a room, whoever opens the link with that secret is a target   *)
(* in it.  Hellos choose a partner, the user on each side approves the     *)
(* device of the other, and the data of the source goes to the target.     *)
(*                                                                         *)
(* A visit of the page is a peer of its own, of some device: two tabs are  *)
(* two visits of one device.  A secret is named by the visit that made it. *)
(* Messages are handled in any order, while their signatures are verified, *)
(* or never.  Hellos are sent on joining, when another joins and as an     *)
(* answer, so one arrives at any time while both are there.  The pairing   *)
(* id is left out: it names the source's visit, and a grant is taken from  *)
(* the partner only.  So are the stored grants, which no step here reads.  *)
(***************************************************************************)
EXTENDS Naturals

CONSTANTS
  Visits,      \* mounts of MyDevicesPage, with a secret
  Devices,
  RevisitMax   \* bound: times a target leaves the page and opens the link again

None == "none"

PairingAssumption == RevisitMax \in Nat /\ None \notin Visits \cup Devices

VARIABLES
  device,    \* device[v]: the device v is on
  secret,    \* secret[v]: the visit whose secret v has
  inside,    \* visits that are in the room of their secret
  partner,   \* partner[v]: remotePeerIdRef and remoteDeviceKeyRef
  approved, received,  \* visits that have approved, and that have a grant
  waiting,   \* visits whose pendingSyncRef is set: data that came too early
  taken,     \* taken[v]: visits whose data v has taken
  wire,
  revisits,
  vouched    \* history: <<v, w>>, the user of v has approved the device of w

pairVars == <<device, secret, inside, partner, approved, received, waiting, taken, wire,
              revisits, vouched>>

TypeOK ==
  /\ device \in [Visits -> Devices \cup {None}]
  /\ secret \in [Visits -> Visits \cup {None}] /\ partner \in [Visits -> Visits \cup {None}]
  /\ {inside, approved, received, waiting} \subseteq SUBSET Visits
  /\ taken \in [Visits -> SUBSET Visits] /\ vouched \subseteq Visits \X Visits
  /\ wire \subseteq {"grant", "sync"} \X Visits \X Visits /\ revisits \in 0..RevisitMax

Init ==
  /\ device = [v \in Visits |-> None] /\ secret = [v \in Visits |-> None]
  /\ partner = [v \in Visits |-> None] /\ taken = [v \in Visits |-> {}]
  /\ inside = {} /\ approved = {} /\ received = {} /\ waiting = {}
  /\ wire = {} /\ revisits = 0 /\ vouched = {}

IsSource(v) == secret[v] = v
Linked(v) == v \in approved /\ v \in received
Together(v, w) == {v, w} \subseteq inside /\ v # w /\ secret[v] = secret[w]

------------------------------------------------------------------------------------
(* The room. *)

\* The page makes a secret (q = v), or is opened by a link with that of q.
Open(v, q) ==
  /\ device[v] = None /\ (q # v => IsSource(q))
  /\ \E d \in Devices : device' = [device EXCEPT ![v] = d]
  /\ secret' = [secret EXCEPT ![v] = q] /\ inside' = inside \cup {v}
  /\ UNCHANGED <<partner, approved, received, waiting, taken, wire, revisits, vouched>>

\* The page is left, or five seconds have passed since it was linked: what is on its way to
\* or from it goes with the room.
Leave(v) ==
  /\ v \in inside /\ inside' = inside \ {v}
  /\ wire' = {m \in wire : v \notin {m[2], m[3]}}
  /\ UNCHANGED <<device, secret, partner, approved, received, waiting, taken, revisits,
                 vouched>>

\* The same tab shows a target's page anew: to others it is the peer it was.
Revisit(v) ==
  /\ device[v] # None /\ ~IsSource(v) /\ v \notin inside
  /\ revisits < RevisitMax /\ revisits' = revisits + 1
  /\ inside' = inside \cup {v} /\ partner' = [partner EXCEPT ![v] = None]
  /\ approved' = approved \ {v} /\ received' = received \ {v} /\ waiting' = waiting \ {v}
  /\ UNCHANGED <<device, secret, taken, wire, vouched>>

------------------------------------------------------------------------------------
(* The exchange. *)

\* Mutant of ReceiveHello: a later hello replaces the partner.
ReceiveAnyHello(v, w) ==
  /\ Together(v, w) /\ IsSource(v) # IsSource(w) /\ device[v] # device[w]
  /\ partner' = [partner EXCEPT ![v] = w]
  /\ UNCHANGED <<device, secret, inside, approved, received, waiting, taken, wire, revisits,
                 vouched>>

\* helloAction.onMessage: the first of the other role and another device, and then no other.
ReceiveHello(v, w) ==
  /\ Together(v, w) /\ IsSource(v) # IsSource(w) /\ device[v] # device[w]
  /\ partner[v] = None /\ partner' = [partner EXCEPT ![v] = w]
  /\ UNCHANGED <<device, secret, inside, approved, received, waiting, taken, wire, revisits,
                 vouched>>

\* What is sent to the partner: nothing, once one of the two has left.
Send(kind, v) ==
  wire' = IF Together(v, partner[v]) THEN wire \cup {<<kind, v, partner[v]>>} ELSE wire

\* The effect of being linked: a target takes the data that waited for it.
TakeWaiting(v) ==
  IF v \in waiting /\ v \in approved' /\ v \in received'
    THEN taken' = [taken EXCEPT ![v] = @ \cup {partner[v]}] /\ waiting' = waiting \ {v}
    ELSE UNCHANGED <<taken, waiting>>

\* approve(): the partner stays what it is while the grant is signed and saved, so that its
\* awaits need no step of their own.  The button is gone once it was used.
Approve(v) ==
  /\ v \in inside /\ partner[v] # None /\ v \notin approved
  /\ approved' = approved \cup {v} /\ vouched' = vouched \cup {<<v, partner[v]>>}
  /\ Send("grant", v) /\ UNCHANGED received /\ TakeWaiting(v)
  /\ UNCHANGED <<device, secret, inside, partner, revisits>>

\* grantAction.onMessage: from anyone else it is ignored, as if it had never come.
ReceiveGrant(v, w) ==
  /\ <<"grant", w, v>> \in wire /\ wire' = wire \ {<<"grant", w, v>>}
  /\ partner[v] = w /\ received' = received \cup {v}
  /\ UNCHANGED approved /\ TakeWaiting(v)
  /\ UNCHANGED <<device, secret, inside, partner, revisits, vouched>>

\* The effect of being linked: a source sends a snapshot of its data, three times in all.
SendSync(v) ==
  /\ IsSource(v) /\ Linked(v) /\ Send("sync", v)
  /\ UNCHANGED <<device, secret, inside, partner, approved, received, waiting, taken,
                 revisits, vouched>>

\* syncAction.onMessage: data that comes before this side is linked is held.
ReceiveSync(v, w) ==
  /\ <<"sync", w, v>> \in wire /\ wire' = wire \ {<<"sync", w, v>>}
  /\ ~IsSource(v) /\ partner[v] = w
  /\ IF Linked(v)
       THEN taken' = [taken EXCEPT ![v] = @ \cup {w}] /\ UNCHANGED waiting
       ELSE waiting' = waiting \cup {v} /\ UNCHANGED taken
  /\ UNCHANGED <<device, secret, inside, partner, approved, received, revisits, vouched>>

Next ==
  \E v \in Visits :
    \/ Leave(v) \/ Revisit(v) \/ Approve(v) \/ SendSync(v)
    \/ \E w \in Visits :
         Open(v, w) \/ ReceiveHello(v, w) \/ ReceiveGrant(v, w) \/ ReceiveSync(v, w)

Spec == Init /\ [][Next]_pairVars

------------------------------------------------------------------------------------
(* Properties. *)

\* reactDevicePairing.ts: "each approves - producing a pair of grants, one in each direction.
\* Only then does account data move": whatever is early, lost or started anew, and whoever
\* else has the secret, a device has data of another only after the user of each approved the
\* other, and none of its own other tabs.
DataNeedsBoth ==
  /\ \A v \in Visits : \A w \in taken[v] :
       device[v] # device[w] /\ {<<v, w>>, <<w, v>>} \subseteq vouched
  /\ \A m \in wire : m[1] = "sync" => <<m[2], m[3]>> \in vouched
=================================================================================
