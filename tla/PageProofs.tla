------------------------------- MODULE PageProofs -------------------------------
(***************************************************************************)
(* Theorems about the components around one page, for every value of the   *)
(* constants: the tabs of a browser, the lifetime of a signalling scope,   *)
(* the event feed, the linking of devices and the matching of seekers.     *)
(* Each is of the specification that MCPage gives the components together: *)
(* a behaviour is of one component and the others stand still in it, so    *)
(* that an invariant of one is kept by every step of the page.             *)
(***************************************************************************)
EXTENDS MCPage, TLAPS, FiniteSetTheorems, SequenceTheorems, WellFoundedInduction

\* A step of the page is a step of each of its parts, or leaves it as it is.
LEMMA PartsStep ==
  ASSUME [PageNext]_vars
  PROVE  /\ [Next]_channelClientVars /\ [History!Next]_(History!historyVars)
         /\ [Claims!Next]_(Claims!tabVars) /\ [List!Next]_(List!listVars)
         /\ [Invites!Next]_(Invites!inviteVars) /\ [Pairing!Next]_(Pairing!pairVars)
         /\ [Scope!Next]_(Scope!scopeVars) /\ [Feed!Next]_(Feed!vars)
         /\ [Matching!Next]_(Matching!matchingVars) /\ [RoomNext]_peerRoomVars
         /\ UNCHANGED part
  <1> USE DEF historyVars, claimVars, listVars, inviteVars, pairVars, scopeVars, feedVars,
              matchingVars, History!historyVars, Claims!tabVars, List!listVars,
              Invites!inviteVars, Pairing!pairVars, Scope!scopeVars, Feed!vars,
              Feed!gatewayVars, Feed!linkVars, Feed!tabVars, Matching!matchingVars
  <1>1. CASE UNCHANGED vars
    BY <1>1 DEF vars
  <1>2. CASE ChannelStep
    BY <1>2 DEF ChannelStep
  <1>3. CASE HistoryStep
    BY <1>3 DEF HistoryStep
  <1>4. CASE ClaimStep
    BY <1>4 DEF ClaimStep
  <1>5. CASE ListStep
    BY <1>5 DEF ListStep
  <1>6. CASE InviteStep
    BY <1>6 DEF InviteStep
  <1>7. CASE PairingStep
    BY <1>7 DEF PairingStep
  <1>8. CASE ScopeStep
    BY <1>8 DEF ScopeStep
  <1>9. CASE FeedStep
    BY <1>9 DEF FeedStep
  <1>10. CASE MatchingStep
    BY <1>10 DEF MatchingStep
  <1>11. CASE PeerStep
    BY <1>11 DEF PeerStep
  <1> QED
    BY <1>1, <1>2, <1>3, <1>4, <1>5, <1>6, <1>7, <1>8, <1>9, <1>10, <1>11 DEF PageNext

\* ... and each begins as its module says.
LEMMA PartsBegin ==
  PageInit => /\ Init /\ History!Init /\ Claims!Init /\ List!Init /\ Invites!Init /\ Pairing!Init
              /\ Scope!Init /\ Feed!Init /\ Matching!Init /\ RoomInit
  BY DEF PageInit

------------------------------------------------------------------------------------
(* The tabs of a browser. *)

\* A call of the tab t presented the event; the lock is held for one.
Yes(t) == "yes" \in answered[t]
HeldIn(t) == \E c \in Claims!Calls : c[1] = t /\ lock = <<c, "held">>

\* A tab that presented the event knows it, and one that may present it again did.
PresenterKnows ==
  \A t \in Pages : (Yes(t) => t \in presented) /\ (t \in claimedHere => Yes(t))

\* The lock is granted to a call that waits for it, and held by a tab that knows.
LockInHand ==
  \A c \in Claims!Calls :
    /\ lock = <<c, "granted">> => claiming[c] = "lock"
    /\ lock = <<c, "held">> => c[1] \in presented

\* Until every open tab has heard of the presenter, the lock keeps the others off.
OthersHear ==
  hasLocks =>
    \A t \in alive : \A u \in alive \ {t} :
      Yes(t) => u \in presented \/ (HeldIn(t) /\ <<t, u, "claimed">> \in mail)

\* What is known or told of the event is known of a tab that presented it or has dealt with it.
SomebodyDid ==
  /\ presented # {} \/ mail # {} => handled \/ \E u \in Pages : Yes(u)
  /\ \A u, t \in Pages : <<u, t, "handled">> \in mail => handled

\* OnePresents with what makes it inductive.
ClaimInv ==
  Claims!TypeOK /\ PresenterKnows /\ LockInHand /\ OthersHear /\ SomebodyDid /\ OnePresents

\* A call is of a tab.
LEMMA CallOf ==
  ASSUME NEW c \in Claims!Calls PROVE c[1] \in Pages
  BY DEF Claims!Calls

\* It holds in the beginning.
LEMMA ClaimInvBegins == Claims!Init => ClaimInv
  <1> SUFFICES ASSUME Claims!Init PROVE ClaimInv
    OBVIOUS
  <1>1. Claims!TypeOK
    BY DEF Claims!Init, Claims!TypeOK
  <1>2. \A t \in Pages : answered[t] = {}
    BY DEF Claims!Init
  <1>3. lock = <<>> /\ presented = {} /\ claimedHere = {} /\ mail = {} /\ alive = Pages
    BY DEF Claims!Init
  <1>4. PresenterKnows /\ OthersHear /\ SomebodyDid /\ OnePresents
    BY <1>2, <1>3 DEF PresenterKnows, OthersHear, SomebodyDid, OnePresents, Claims!OnePresents, Yes
  <1>5. LockInHand
    BY <1>3 DEF LockInHand
  <1> QED
    BY <1>1, <1>4, <1>5 DEF ClaimInv

\* What an answer changes: the call's tab has it, no other tab has anything new.
LEMMA CallAnswered ==
  ASSUME Claims!TypeOK, NEW c \in Claims!Calls, NEW a \in {"yes", "no", "failed"},
         Claims!Answer(c, a)
  PROVE  /\ answered' \in [Pages -> SUBSET {"yes", "no", "failed"}]
         /\ claiming' \in [Claims!Calls -> {"no", "sleep", "lock"}]
         /\ \A d \in Claims!Calls : d # c => claiming'[d] = claiming[d]
         /\ \A t \in Pages : "yes" \in answered'[t] <=>
                               "yes" \in answered[t] \/ (a = "yes" /\ t = c[1])
         /\ a # "no" => \A t \in Pages : "no" \in answered'[t] <=> "no" \in answered[t]
  <1>1. /\ answered' = [answered EXCEPT ![c[1]] = @ \cup {a}] /\ c[1] \in Pages
        /\ claiming' = [claiming EXCEPT ![c] = "no"]
    BY CallOf DEF Claims!Answer
  <1>2. answered \in [Pages -> SUBSET {"yes", "no", "failed"}]
    BY DEF Claims!TypeOK
  <1>3. claiming \in [Claims!Calls -> {"no", "sleep", "lock"}]
    BY DEF Claims!TypeOK
  <1>4. \A t \in Pages : answered'[t] = IF t = c[1] THEN answered[t] \cup {a} ELSE answered[t]
    BY <1>1, <1>2
  <1>5. answered' \in [Pages -> SUBSET {"yes", "no", "failed"}]
    BY <1>1, <1>2
  <1> QED
    BY <1>1, <1>3, <1>4, <1>5

\* An answer "no" or "failed" of a call that the lock is not granted to keeps the rest.
LEMMA Refused ==
  ASSUME ClaimInv, NEW c \in Claims!Calls, NEW a \in {"no", "failed"}, Claims!Answer(c, a),
         a = "no" => \/ handled \/ \E u \in Pages : Yes(u)
                     \/ \E d \in Claims!Calls : lock = <<d, "granted">>,
         lock # <<c, "granted">>,
         UNCHANGED <<hasLocks, alive, lock, presented, claimedHere, mail, handled, crashed>>
  PROVE  ClaimInv'
  <1> USE DEF ClaimInv
  <1>1. /\ answered' \in [Pages -> SUBSET {"yes", "no", "failed"}]
        /\ claiming' \in [Claims!Calls -> {"no", "sleep", "lock"}]
        /\ \A d \in Claims!Calls : d # c => claiming'[d] = claiming[d]
        /\ \A t \in Pages : Yes(t)' <=> Yes(t)
        /\ a # "no" => \A t \in Pages : "no" \in answered'[t] <=> "no" \in answered[t]
    BY CallAnswered DEF Yes
  <1>2. Claims!TypeOK' /\ alive \subseteq Pages
    BY <1>1 DEF Claims!TypeOK
  <1>3. PresenterKnows' /\ SomebodyDid'
    BY <1>1 DEF PresenterKnows, SomebodyDid
  <1>4. LockInHand'
    BY <1>1 DEF LockInHand
  <1>5. OthersHear'
    BY <1>1, <1>2 DEF OthersHear, HeldIn
  <1>6. OnePresents'
    <2>1. hasLocks' => \A t, u \in alive' : Yes(t)' /\ Yes(u)' => t = u
      BY <1>1, <1>2 DEF OnePresents, Claims!OnePresents, Yes
    <2>2. (\E t \in Pages : "no" \in answered'[t]) =>
             \/ handled \/ crashed \/ \E u \in Pages : Yes(u)
             \/ \E d \in Claims!Calls : lock = <<d, "granted">>
      BY <1>1 DEF OnePresents, Claims!OnePresents, Yes
    <2> QED
      BY <1>1, <2>1, <2>2 DEF OnePresents, Claims!OnePresents, Yes
  <1> QED
    BY <1>2, <1>3, <1>4, <1>5, <1>6

\* A call that learns its tab has presented the event, or that another has, without more ado.
LEMMA Decided ==
  ASSUME ClaimInv, NEW c \in Claims!Calls, c[1] \in alive, Claims!Decide(c),
         claiming[c] # "lock", UNCHANGED <<hasLocks, alive, lock, handled, crashed>>
  PROVE  ClaimInv'
  <1> USE DEF ClaimInv
  <1>t. Claims!TypeOK /\ c[1] \in Pages /\ alive \subseteq Pages
    BY CallOf DEF Claims!TypeOK
  <1>n. lock # <<c, "granted">>
    BY DEF LockInHand
  <1>1. CASE c[1] \in claimedHere
    <2>1. Claims!Answer(c, "yes") /\ UNCHANGED <<presented, claimedHere, mail>>
      BY <1>1 DEF Claims!Decide
    <2>2. /\ answered' \in [Pages -> SUBSET {"yes", "no", "failed"}]
          /\ claiming' \in [Claims!Calls -> {"no", "sleep", "lock"}]
          /\ \A d \in Claims!Calls : d # c => claiming'[d] = claiming[d]
          /\ \A t \in Pages : "no" \in answered'[t] <=> "no" \in answered[t]
      BY <1>t, <2>1, CallAnswered
    <2>3. \A t \in Pages : Yes(t)' <=> Yes(t) \/ t = c[1]
      BY <1>t, <2>1, CallAnswered DEF Yes
    <2>4. \A t \in Pages : Yes(t)' <=> Yes(t)
      BY <1>t, <1>1, <2>3 DEF PresenterKnows
    <2>5. Claims!TypeOK'
      BY <1>t, <2>1, <2>2 DEF Claims!TypeOK
    <2>6. PresenterKnows' /\ LockInHand' /\ SomebodyDid'
      BY <1>n, <2>1, <2>2, <2>4 DEF PresenterKnows, LockInHand, SomebodyDid
    <2>7. OthersHear'
      BY <1>t, <2>1, <2>4 DEF OthersHear, HeldIn
    <2>8. OnePresents'
      BY <1>t, <2>2, <2>4 DEF OnePresents, Claims!OnePresents, Yes
    <2> QED
      BY <2>5, <2>6, <2>7, <2>8
  <1>2. CASE c[1] \notin claimedHere /\ c[1] \in presented
    <2>1. Claims!Answer(c, "no") /\ UNCHANGED <<presented, claimedHere, mail>>
      BY <1>2 DEF Claims!Decide
    <2>2. handled \/ \E u \in Pages : Yes(u)
      BY <1>2 DEF SomebodyDid
    <2> QED
      BY <1>n, <2>1, <2>2, Refused
  <1>3. CASE c[1] \notin presented /\ c[1] \notin claimedHere /\ hasLocks
    <2>1. /\ claiming' = [claiming EXCEPT ![c] = "lock"]
          /\ UNCHANGED <<presented, claimedHere, mail, answered>>
      BY <1>3 DEF Claims!Decide
    <2>2. Claims!TypeOK'
      BY <1>t, <2>1 DEF Claims!TypeOK
    <2>3. LockInHand'
      BY <1>t, <1>n, <2>1 DEF LockInHand, Claims!TypeOK
    <2> QED
      BY <2>1, <2>2, <2>3
      DEF PresenterKnows, OthersHear, HeldIn, SomebodyDid, OnePresents, Claims!OnePresents, Yes
  <1>4. CASE c[1] \notin presented /\ c[1] \notin claimedHere /\ ~hasLocks
    <2>1. Claims!Present(c)
      BY <1>4 DEF Claims!Decide
    <2>2. /\ presented' = presented \cup {c[1]} /\ claimedHere' = claimedHere \cup {c[1]}
          /\ mail' = mail \cup {<<c[1], u, "claimed">> : u \in alive \ {c[1]}}
          /\ Claims!Answer(c, "yes")
      BY <2>1 DEF Claims!Present, Claims!Post
    <2>3. /\ answered' \in [Pages -> SUBSET {"yes", "no", "failed"}]
          /\ claiming' \in [Claims!Calls -> {"no", "sleep", "lock"}]
          /\ \A d \in Claims!Calls : d # c => claiming'[d] = claiming[d]
      BY <1>t, <2>2, CallAnswered
    <2>4. \A t \in Pages : Yes(t)' <=> Yes(t) \/ t = c[1]
      BY <1>t, <2>2, CallAnswered DEF Yes
    <2>5. Claims!TypeOK'
      BY <1>t, <2>2, <2>3 DEF Claims!TypeOK, Claims!Kinds
    <2>6. PresenterKnows' /\ LockInHand'
      BY <1>t, <1>n, <2>2, <2>3, <2>4 DEF PresenterKnows, LockInHand
    <2>7. \A u, v \in Pages : <<u, v, "handled">> \in mail' => <<u, v, "handled">> \in mail
      BY <2>2
    <2>8. SomebodyDid' /\ OthersHear'
      BY <1>t, <1>4, <2>4, <2>7 DEF SomebodyDid, OthersHear
    <2>9. OnePresents'
      BY <1>t, <1>4, <2>4 DEF OnePresents, Claims!OnePresents, Yes
    <2> QED
      BY <2>5, <2>6, <2>8, <2>9
  <1> QED
    BY <1>1, <1>2, <1>3, <1>4

\* The callback of a granted lock.
LEMMA GrantedKeeps ==
  ASSUME ClaimInv, NEW c \in Claims!Calls, Claims!Granted(c)
  PROVE  ClaimInv'
  <1> USE DEF ClaimInv
  <1>t. Claims!TypeOK /\ c[1] \in Pages /\ alive \subseteq Pages
    BY CallOf DEF Claims!TypeOK
  <1>1. /\ c[1] \in alive /\ lock = <<c, "granted">>
        /\ UNCHANGED <<hasLocks, alive, handled, crashed>>
    BY DEF Claims!Granted
  <1>2. \A t \in Pages : ~HeldIn(t)
    BY <1>1 DEF HeldIn
  <1>3. CASE /\ c[1] \in presented /\ lock' = <<>> /\ Claims!Answer(c, "no")
             /\ UNCHANGED <<presented, claimedHere, mail>>
    <2>1. /\ answered' \in [Pages -> SUBSET {"yes", "no", "failed"}]
          /\ claiming' \in [Claims!Calls -> {"no", "sleep", "lock"}]
          /\ \A t \in Pages : Yes(t)' <=> Yes(t)
      BY <1>t, <1>3, CallAnswered DEF Yes
    <2>2. handled \/ \E u \in Pages : Yes(u)
      BY <1>3 DEF SomebodyDid
    <2>3. Claims!TypeOK'
      BY <1>t, <1>1, <1>3, <2>1 DEF Claims!TypeOK
    <2>4. PresenterKnows' /\ LockInHand' /\ SomebodyDid'
      BY <1>1, <1>3, <2>1 DEF PresenterKnows, LockInHand, SomebodyDid
    <2>5. OthersHear'
      BY <1>t, <1>1, <1>2, <1>3, <2>1 DEF OthersHear
    <2>6. OnePresents'
      BY <1>t, <1>1, <2>1, <2>2 DEF OnePresents, Claims!OnePresents, Yes
    <2> QED
      BY <2>3, <2>4, <2>5, <2>6
  <1>4. CASE c[1] \notin presented /\ lock' = <<c, "held">> /\ Claims!Present(c)
    <2>1. /\ presented' = presented \cup {c[1]} /\ claimedHere' = claimedHere \cup {c[1]}
          /\ mail' = mail \cup {<<c[1], u, "claimed">> : u \in alive \ {c[1]}}
          /\ Claims!Answer(c, "yes")
      BY <1>4 DEF Claims!Present, Claims!Post
    <2>2. /\ answered' \in [Pages -> SUBSET {"yes", "no", "failed"}]
          /\ claiming' \in [Claims!Calls -> {"no", "sleep", "lock"}]
      BY <1>t, <2>1, CallAnswered
    <2>3. \A t \in Pages : Yes(t)' <=> Yes(t) \/ t = c[1]
      BY <1>t, <2>1, CallAnswered DEF Yes
    <2>4. hasLocks => \A u \in alive : ~Yes(u)
      BY <1>t, <1>1, <1>2, <1>4 DEF OthersHear, PresenterKnows
    <2>5. Claims!TypeOK'
      BY <1>t, <1>1, <1>4, <2>1, <2>2 DEF Claims!TypeOK, Claims!Kinds
    <2>6. PresenterKnows' /\ LockInHand'
      BY <1>t, <1>4, <2>1, <2>3 DEF PresenterKnows, LockInHand
    <2>7. HeldIn(c[1])'
      BY <1>4 DEF HeldIn
    <2>8. OthersHear'
      BY <1>t, <1>1, <2>1, <2>3, <2>4, <2>7 DEF OthersHear
    <2>9. \A u, v \in Pages : <<u, v, "handled">> \in mail' => <<u, v, "handled">> \in mail
      BY <2>1
    <2>10. SomebodyDid'
      BY <1>t, <1>1, <2>3, <2>9 DEF SomebodyDid
    <2>11. OnePresents'
      BY <1>t, <1>1, <2>3, <2>4 DEF OnePresents, Claims!OnePresents, Yes
    <2> QED
      BY <2>5, <2>6, <2>8, <2>10, <2>11
  <1> QED
    BY <1>3, <1>4 DEF Claims!Granted

\* A tab that goes takes its lock with it.
LEMMA GoneTabKeeps ==
  ASSUME ClaimInv, NEW t \in Pages, Claims!Gone(t)
  PROVE  ClaimInv'
  <1> USE DEF ClaimInv
  <1>1. /\ t \in alive /\ alive' = alive \ {t}
        /\ crashed' = (crashed \/ \E c \in Claims!Calls : c[1] = t /\ lock = <<c, "granted">>)
        /\ lock' = IF lock # <<>> /\ lock[1][1] = t THEN <<>> ELSE lock
        /\ claiming' = [c \in Claims!Calls |-> IF c[1] = t THEN "no" ELSE claiming[c]]
        /\ mail' = {m \in mail : m[2] # t}
        /\ UNCHANGED <<hasLocks, presented, claimedHere, answered, handled>>
    BY DEF Claims!Gone
  <1>2. alive \subseteq Pages /\ (lock = <<>> \/ lock \in Claims!Calls \X {"granted", "held"})
    BY DEF Claims!TypeOK
  <1>3. \A c \in Claims!Calls : \A k \in {"granted", "held"} :
          lock' = <<c, k>> <=> lock = <<c, k>> /\ c[1] # t
    <2>1. ASSUME NEW c \in Claims!Calls, NEW k \in {"granted", "held"}, lock = <<c, k>>
          PROVE  lock' = IF c[1] = t THEN <<>> ELSE <<c, k>>
      BY <1>1, <2>1
    <2>2. CASE lock = <<>>
      BY <1>1, <2>2
    <2>3. CASE lock # <<>>
      <3>1. PICK d \in Claims!Calls, m \in {"granted", "held"} : lock = <<d, m>>
        BY <1>2, <2>3
      <3>2. lock' = IF d[1] = t THEN <<>> ELSE <<d, m>>
        BY <2>1, <3>1
      <3> QED
        BY <3>1, <3>2
    <2> QED
      BY <2>2, <2>3
  <1>4. Claims!TypeOK'
    BY <1>1, <1>2 DEF Claims!TypeOK
  <1>5. PresenterKnows'
    BY <1>1 DEF PresenterKnows, Yes
  <1>6. LockInHand'
    <2> SUFFICES ASSUME NEW c \in Claims!Calls
                 PROVE  /\ lock' = <<c, "granted">> => claiming'[c] = "lock"
                        /\ lock' = <<c, "held">> => c[1] \in presented'
      BY DEF LockInHand
    <2> QED
      BY <1>1, <1>3 DEF LockInHand
  <1>7. mail' \subseteq mail
    BY <1>1
  <1>8. SomebodyDid'
    BY <1>1, <1>7 DEF SomebodyDid, Yes
  <1>9. OthersHear'
    <2> SUFFICES ASSUME hasLocks, NEW v \in alive', NEW u \in alive' \ {v}, Yes(v)', u \notin presented'
                 PROVE  HeldIn(v)' /\ <<v, u, "claimed">> \in mail'
      BY <1>1 DEF OthersHear
    <2>1. Yes(v) /\ v \in alive \ {t} /\ u \in alive \ {t} /\ u \notin presented
      BY <1>1 DEF Yes
    <2>2. HeldIn(v) /\ <<v, u, "claimed">> \in mail
      BY <2>1 DEF OthersHear
    <2>3. HeldIn(v)'
      BY <1>3, <2>1, <2>2 DEF HeldIn
    <2> QED
      BY <1>1, <2>1, <2>2, <2>3
  <1>10. OnePresents'
    <2>1. hasLocks' => \A v, u \in alive' : Yes(v)' /\ Yes(u)' => v = u
      BY <1>1 DEF OnePresents, Claims!OnePresents, Yes
    <2>2. ASSUME NEW c \in Claims!Calls, lock = <<c, "granted">>
          PROVE  crashed' \/ lock' = <<c, "granted">>
      BY <1>1, <1>3, <2>2
    <2>3. crashed => crashed'
      BY <1>1
    <2> QED
      BY <1>1, <2>1, <2>2, <2>3 DEF OnePresents, Claims!OnePresents, Yes
  <1> QED
    BY <1>4, <1>5, <1>6, <1>8, <1>9, <1>10

\* Every step of the tabs keeps it.
LEMMA ClaimInvStep ==
  ASSUME ClaimInv, [Claims!Next]_(Claims!tabVars)
  PROVE  ClaimInv'
  <1> USE DEF ClaimInv
  <1>t. Claims!TypeOK /\ alive \subseteq Pages
    BY DEF Claims!TypeOK
  <1>1. CASE UNCHANGED Claims!tabVars
    BY <1>1 DEF Claims!tabVars, Claims!TypeOK, PresenterKnows, LockInHand, OthersHear, HeldIn,
                SomebodyDid, OnePresents, Claims!OnePresents, Yes
  <1>2. ASSUME NEW c \in Claims!Calls, Claims!Claim(c) \/ Claims!Wakes(c) PROVE ClaimInv'
    <2>1. /\ c[1] \in alive /\ claiming[c] # "lock" /\ Claims!Decide(c)
          /\ UNCHANGED <<hasLocks, alive, lock, handled, crashed>>
      BY <1>2 DEF Claims!Claim, Claims!Wakes
    <2> QED
      BY <2>1, Decided
  <1>3. ASSUME NEW c \in Claims!Calls, Claims!ClaimHidden(c) PROVE ClaimInv'
    <2>1. /\ claiming[c] = "no" /\ claiming' = [claiming EXCEPT ![c] = "sleep"]
          /\ UNCHANGED <<hasLocks, alive, lock, presented, claimedHere, mail, answered, handled,
                         crashed>>
      BY <1>3 DEF Claims!ClaimHidden
    <2>2. Claims!TypeOK' /\ LockInHand'
      BY <1>t, <2>1 DEF Claims!TypeOK, LockInHand
    <2> QED
      BY <2>1, <2>2
      DEF PresenterKnows, OthersHear, HeldIn, SomebodyDid, OnePresents, Claims!OnePresents, Yes
  <1>4. ASSUME NEW c \in Claims!Calls, Claims!LockAnswers(c) PROVE ClaimInv'
    <2>1. /\ claiming[c] = "lock" /\ (lock # <<>> => lock[1] # c)
          /\ UNCHANGED <<hasLocks, alive, presented, claimedHere, mail, handled, crashed>>
      BY <1>4 DEF Claims!LockAnswers
    <2>2. CASE lock = <<>> /\ lock' = <<c, "granted">> /\ UNCHANGED <<claiming, answered>>
      <3>1. Claims!TypeOK' /\ LockInHand'
        BY <1>t, <2>1, <2>2 DEF Claims!TypeOK, LockInHand
      <3>2. PresenterKnows' /\ SomebodyDid'
        BY <2>1, <2>2 DEF PresenterKnows, SomebodyDid, Yes
      <3>3. OthersHear'
        BY <1>t, <2>1, <2>2 DEF OthersHear, HeldIn, Yes
      <3>4. OnePresents'
        BY <2>1, <2>2 DEF OnePresents, Claims!OnePresents
      <3> QED
        BY <3>1, <3>2, <3>3, <3>4
    <2>3. CASE lock # <<>> /\ Claims!Answer(c, "no") /\ UNCHANGED lock
      <3>1. PICK d \in Claims!Calls : lock = <<d, "granted">> \/ lock = <<d, "held">>
        BY <1>t, <2>3 DEF Claims!TypeOK
      <3>2. \/ handled \/ \E u \in Pages : Yes(u)
            \/ lock = <<d, "granted">>
        BY <3>1 DEF LockInHand, SomebodyDid
      <3>3. lock # <<c, "granted">>
        BY <2>1
      <3> QED
        BY <2>1, <2>3, <3>2, <3>3, Refused
    <2>4. CASE Claims!Answer(c, "failed") /\ UNCHANGED lock
      <3>1. lock # <<c, "granted">>
        BY <2>1
      <3> QED
        BY <2>1, <2>4, <3>1, Refused
    <2> QED
      BY <1>4, <2>2, <2>3, <2>4 DEF Claims!LockAnswers
  <1>5. ASSUME NEW c \in Claims!Calls, Claims!Granted(c) PROVE ClaimInv'
    BY <1>5, GrantedKeeps
  <1>6. ASSUME NEW c \in Claims!Calls, Claims!HoldEnds(c) PROVE ClaimInv'
    <2>1. /\ lock = <<c, "held">> /\ lock' = <<>>
          /\ \A u \in Pages : <<c[1], u, "claimed">> \notin mail
          /\ UNCHANGED <<hasLocks, alive, claiming, presented, claimedHere, mail, answered, handled,
                         crashed>>
      BY <1>6 DEF Claims!HoldEnds
    <2>2. Claims!TypeOK' /\ LockInHand'
      BY <1>t, <2>1 DEF Claims!TypeOK, LockInHand
    <2>3. PresenterKnows' /\ SomebodyDid'
      BY <2>1 DEF PresenterKnows, SomebodyDid, Yes
    <2>4. OthersHear'
      <3>1. \A t \in Pages : HeldIn(t) => t = c[1]
        BY <2>1 DEF HeldIn
      <3> QED
        BY <1>t, <2>1, <3>1 DEF OthersHear, Yes
    <2>5. OnePresents'
      BY <2>1 DEF OnePresents, Claims!OnePresents
    <2> QED
      BY <2>2, <2>3, <2>4, <2>5
  <1>7. ASSUME NEW t \in Pages, Claims!Handle(t) PROVE ClaimInv'
    <2>1. /\ handled' = TRUE
          /\ claimedHere' = claimedHere \ {t} /\ presented' = presented \cup {t}
          /\ mail' = mail \cup {<<t, u, "handled">> : u \in alive \ {t}}
          /\ UNCHANGED <<hasLocks, alive, claiming, lock, answered, crashed>>
      BY <1>7 DEF Claims!Handle, Claims!Post
    <2>2. Claims!TypeOK'
      BY <1>t, <2>1 DEF Claims!TypeOK, Claims!Kinds
    <2>3. PresenterKnows' /\ LockInHand' /\ SomebodyDid'
      BY <1>t, <2>1 DEF PresenterKnows, LockInHand, SomebodyDid, Yes
    <2>4. OthersHear'
      BY <1>t, <2>1 DEF OthersHear, HeldIn, Yes
    <2> QED
      BY <2>1, <2>2, <2>3, <2>4 DEF OnePresents, Claims!OnePresents
  <1>8. ASSUME NEW u \in Pages, NEW t \in Pages, NEW kind \in Claims!Kinds,
               Claims!Receive(u, t, kind)
        PROVE  ClaimInv'
    <2>1. /\ <<u, t, kind>> \in mail /\ mail' = mail \ {<<u, t, kind>>}
          /\ presented' = presented \cup {t}
          /\ claimedHere' = claimedHere \/ claimedHere' = claimedHere \ {t}
          /\ UNCHANGED <<hasLocks, alive, claiming, lock, answered, handled, crashed>>
      BY <1>8 DEF Claims!Receive
    <2>2. Claims!TypeOK'
      BY <1>t, <2>1 DEF Claims!TypeOK
    <2>3. PresenterKnows' /\ LockInHand' /\ SomebodyDid'
      BY <2>1 DEF PresenterKnows, LockInHand, SomebodyDid, Yes
    <2>4. OthersHear'
      BY <1>t, <2>1 DEF OthersHear, HeldIn, Yes
    <2> QED
      BY <2>1, <2>2, <2>3, <2>4 DEF OnePresents, Claims!OnePresents
  <1>9. ASSUME NEW t \in Pages, Claims!Gone(t) PROVE ClaimInv'
    BY <1>9, GoneTabKeeps
  <1> QED
    BY <1>1, <1>2, <1>3, <1>4, <1>5, <1>6, <1>7, <1>8, <1>9 DEF Claims!Next

\* OnePresents: the claim lock, the messages and the tabs' memories let one open tab present an
\* event, and a call is told no only where the event was or is about to be presented.
THEOREM OneTabPresents == PageSpec => []OnePresents
  <1>1. PageInit => ClaimInv
    BY PartsBegin, ClaimInvBegins
  <1>2. ClaimInv /\ [PageNext]_vars => ClaimInv'
    BY PartsStep, ClaimInvStep
  <1>3. ClaimInv => OnePresents
    BY DEF ClaimInv
  <1> QED
    BY <1>1, <1>2, <1>3, PTL DEF PageSpec

------------------------------------------------------------------------------------
(* A signalling scope. *)

\* A set of numbers has a least one: of its initial segments, which are finite, one
\* is contained in all others.
LEMMA Smallest ==
  ASSUME NEW T \in SUBSET Nat, T # {} PROVE \E x \in T : \A y \in T : x <= y
  <1> DEFINE Below(x) == T \cap (0 .. x)
             U == {Below(x) : x \in T}
  <1>1. U \subseteq FiniteSubsetsOf(Nat) /\ U # {}
    <2>1. \A x \in T : IsFiniteSet(Below(x)) /\ Below(x) \in SUBSET Nat
      <3> SUFFICES ASSUME NEW x \in T PROVE IsFiniteSet(Below(x))
        OBVIOUS
      <3>1. IsFiniteSet(0 .. x) /\ Below(x) \subseteq 0 .. x
        BY FS_Interval
      <3> HIDE DEF Below
      <3> QED
        BY <3>1, FS_Subset
    <2> QED
      BY <2>1 DEF FiniteSubsetsOf
  <1>2. PICK B \in U : \A C \in U : ~ (<<C, B>> \in StrictSubsetOrdering(Nat))
    <2> HIDE DEF U
    <2> QED
      BY <1>1, WFMin, FS_StrictSubsetOrderingWellFounded, Zenon
  <1>3. PICK x \in T : B = Below(x)
    OBVIOUS
  <1>4. \A y \in T : ~(y < x)
    <2> SUFFICES ASSUME NEW y \in T, y < x PROVE FALSE
      OBVIOUS
    <2>1. Below(y) \in U /\ Below(y) \subseteq Below(x) /\ x \in Below(x) /\ x \notin Below(y)
      OBVIOUS
    <2>2. <<Below(y), B>> \in StrictSubsetOrdering(Nat)
      BY <1>3, <2>1 DEF StrictSubsetOrdering
    <2> QED
      BY <1>2, <2>1, <2>2
  <1> QED
    BY <1>4

\* Without its tables a scope has nothing stored.
NothingWithoutTables == ~tables => Scope!Authorized = {} /\ ~kept

\* ScopeEnds with what makes it inductive.
ScopeInv == Scope!TypeOK /\ NothingWithoutTables /\ ScopeEnds

\* It holds in the beginning.
LEMMA ScopeInvBegins == Scope!Init => ScopeInv
  <1> SUFFICES ASSUME Scope!Init PROVE ScopeInv
    OBVIOUS
  <1>1. 0 \in 0..(ScopeClock + Lease) /\ 1 \in 1..ScopeClock
    BY PageAssumption DEF Scope!ScopeAssumption
  <1>2. Scope!TypeOK
    BY <1>1 DEF Scope!Init, Scope!TypeOK
  <1>3. tables = TRUE /\ kept = FALSE /\ \A p \in People : auth[p] = 0
    BY DEF Scope!Init
  <1>4. NothingWithoutTables
    BY <1>3 DEF NothingWithoutTables
  <1>5. ScopeEnds
    BY <1>3 DEF ScopeEnds, Scope!ScopeEnds, Scope!Authorized
  <1> QED
    BY <1>2, <1>4, <1>5 DEF ScopeInv

\* Every step of the scope keeps it.
LEMMA ScopeInvStep ==
  ASSUME ScopeInv, [Scope!Next]_(Scope!scopeVars)
  PROVE  ScopeInv'
  <1> USE DEF ScopeInv
  <1>t. Scope!TypeOK
    OBVIOUS
  <1>c. /\ Lease \in Nat \ {0} /\ ScopeClock \in Nat
        /\ \A p \in People : auth[p] \in Nat
        /\ alarm \in Nat /\ now \in Nat \ {0} /\ now <= ScopeClock
    BY <1>t, PageAssumption DEF Scope!TypeOK, Scope!ScopeAssumption
  <1>z. 0 \in 0..(ScopeClock + Lease)
    BY <1>c
  <1>e. /\ \A p \in People : auth[p] # 0 => alarm # 0 /\ alarm <= auth[p]
        /\ kept /\ Scope!Authorized = {} /\ Scope!Connected = {} => alarm # 0
    BY DEF ScopeEnds, Scope!ScopeEnds, Scope!Authorized
  <1>s. ASSUME \A p \in People : auth'[p] # 0 => alarm' # 0 /\ alarm' <= auth'[p],
               kept' /\ Scope!Authorized' = {} /\ Scope!Connected' = {} => alarm' # 0
        PROVE  ScopeEnds'
    BY <1>s DEF ScopeEnds, Scope!ScopeEnds, Scope!Authorized
  <1>1. CASE UNCHANGED Scope!scopeVars
    BY <1>1, <1>t, <1>e, <1>s
    DEF Scope!scopeVars, Scope!TypeOK, NothingWithoutTables, Scope!Authorized, Scope!Connected
  <1>2. ASSUME NEW p \in People, Scope!Authorize(p) PROVE ScopeInv'
    <2>1. /\ tables /\ auth' = [auth EXCEPT ![p] = now + Lease] /\ kept' = TRUE
          /\ alarm' = IF alarm = 0 \/ now + Lease < alarm THEN now + Lease ELSE alarm
          /\ owner' = owner /\ now' = now /\ tables' = tables
      BY <1>2 DEF Scope!Authorize
    <2>2. now + Lease \in 1..(ScopeClock + Lease)
      BY <1>c
    <2>3. /\ alarm' # 0 /\ alarm' <= now + Lease
          /\ alarm # 0 => alarm' <= alarm
          /\ alarm' \in {alarm, now + Lease}
      BY <1>c, <2>1
    <2>4. Scope!TypeOK'
      BY <1>t, <2>1, <2>2, <2>3 DEF Scope!TypeOK
    <2>5. \A q \in People : auth'[q] = IF q = p THEN now + Lease ELSE auth[q]
      BY <1>t, <2>1 DEF Scope!TypeOK
    <2>6. \A q \in People : alarm' # 0 /\ (auth'[q] # 0 => alarm' <= auth'[q])
      <3> SUFFICES ASSUME NEW q \in People, auth'[q] # 0 PROVE alarm' <= auth'[q]
        BY <2>3
      <3>1. CASE q = p
        BY <3>1, <2>3, <2>5
      <3>2. CASE q # p
        <4>1. auth'[q] = auth[q] /\ auth[q] # 0 /\ alarm <= auth[q] /\ alarm # 0
          BY <3>2, <2>5, <1>e
        <4>2. alarm' \in Nat /\ alarm' <= alarm /\ auth[q] \in Nat
          BY <4>1, <2>3, <1>c
        <4> QED
          BY <4>1, <4>2, <1>c
      <3> QED
        BY <3>1, <3>2
    <2>7. ScopeEnds'
      BY <1>s, <2>3, <2>6
    <2>8. NothingWithoutTables'
      BY <2>1 DEF NothingWithoutTables
    <2> QED
      BY <2>4, <2>7, <2>8
  <1>3. ASSUME NEW p \in People, Scope!Release(p) PROVE ScopeInv'
    <2>1. /\ tables /\ auth[p] # 0 /\ auth' = [auth EXCEPT ![p] = 0]
          /\ UNCHANGED <<owner, alarm, now, tables, kept>>
      BY <1>3 DEF Scope!Release
    <2>2. Scope!TypeOK'
      BY <1>t, <1>c, <2>1 DEF Scope!TypeOK
    <2>3. \A q \in People : auth'[q] = IF q = p THEN 0 ELSE auth[q]
      BY <1>t, <2>1 DEF Scope!TypeOK
    <2>4. alarm # 0
      BY <2>1, <1>e
    <2>5. ScopeEnds'
      BY <1>s, <1>e, <2>1, <2>3, <2>4
    <2> QED
      BY <2>1, <2>2, <2>5 DEF NothingWithoutTables
  <1>4. ASSUME NEW p \in People, NEW s \in ScopeSocks, Scope!Connect(s, p) PROVE ScopeInv'
    <2>1. /\ tables /\ auth[p] > now /\ owner' = [owner EXCEPT ![s] = p]
          /\ UNCHANGED <<auth, alarm, now, tables, kept>>
      BY <1>4 DEF Scope!Connect
    <2>2. Scope!TypeOK'
      BY <1>t, <2>1 DEF Scope!TypeOK
    <2>3. auth[p] # 0
      BY <2>1, <1>c
    <2>4. ScopeEnds'
      BY <1>s, <1>e, <2>1, <2>3
    <2> QED
      BY <2>1, <2>2, <2>4 DEF NothingWithoutTables
  <1>5. ASSUME NEW s \in ScopeSocks, Scope!SocketClosed(s) PROVE ScopeInv'
    <2>1. /\ owner[s] # Scope!Nobody /\ owner' = [owner EXCEPT ![s] = Scope!Nobody]
          /\ UNCHANGED <<auth, now>>
          /\ Scope!EndScope(Scope!Connected = {s} /\ Scope!Authorized = {}, alarm)
      BY <1>5 DEF Scope!SocketClosed
    <2>a. Scope!Authorized' = Scope!Authorized
      BY <2>1 DEF Scope!Authorized
    <2>2. CASE Scope!Connected = {s} /\ Scope!Authorized = {}
      <3>1. tables' = FALSE /\ kept' = FALSE /\ alarm' \in {alarm, 0}
        BY <2>1, <2>2 DEF Scope!EndScope
      <3>2. Scope!TypeOK'
        <4>1. tables' \in BOOLEAN /\ kept' \in BOOLEAN
          BY <3>1
        <4>2. alarm' \in 0..(ScopeClock + Lease)
          BY <1>t, <1>z, <3>1 DEF Scope!TypeOK
        <4> QED
          BY <1>t, <2>1, <4>1, <4>2 DEF Scope!TypeOK
      <3>3. NothingWithoutTables'
        BY <2>2, <2>a, <3>1 DEF NothingWithoutTables
      <3>4. ScopeEnds'
        BY <2>2, <2>a, <3>1 DEF ScopeEnds, Scope!ScopeEnds
      <3> QED
        BY <3>2, <3>3, <3>4
    <2>3. CASE ~(Scope!Connected = {s} /\ Scope!Authorized = {})
      <3>1. alarm' = alarm /\ UNCHANGED <<tables, kept>>
        BY <2>1, <2>3 DEF Scope!EndScope
      <3>2. Scope!TypeOK'
        BY <1>t, <2>1, <3>1 DEF Scope!TypeOK
      <3>3. NothingWithoutTables'
        BY <2>a, <3>1 DEF NothingWithoutTables
      <3>4. Scope!Connected' = Scope!Connected \ {s} /\ s \in Scope!Connected
        BY <1>t, <2>1 DEF Scope!Connected, Scope!TypeOK
      <3>5. ScopeEnds'
        BY <1>s, <1>e, <2>1, <2>3, <2>a, <3>1, <3>4
      <3> QED
        BY <3>2, <3>3, <3>5
    <2> QED
      BY <2>2, <2>3
  <1>6. ASSUME Scope!AlarmFires PROVE ScopeInv'
    <2> DEFINE live == {p \in People : auth[p] > now}
    <2>1. /\ tables /\ auth' = [p \in People |-> IF p \in live THEN auth[p] ELSE 0]
          /\ UNCHANGED <<owner, now>>
          /\ IF live # {}
               THEN alarm' = Scope!Min({auth[p] : p \in live}) /\ UNCHANGED <<tables, kept>>
               ELSE Scope!EndScope(Scope!Connected = {}, 0)
      BY <1>6 DEF Scope!AlarmFires
    <2>2. Scope!Connected' = Scope!Connected
      BY <2>1 DEF Scope!Connected
    <2>a. auth' \in [People -> 0..(ScopeClock + Lease)]
      BY <1>t, <1>c, <2>1 DEF Scope!TypeOK
    <2>3. CASE live # {}
      <3> DEFINE T == {auth[p] : p \in live}
      <3>1. T \in SUBSET (0..(ScopeClock + Lease)) /\ T # {}
        BY <1>t, <2>3 DEF Scope!TypeOK
      <3>2. \E x \in T : \A y \in T : x <= y
        <4> HIDE DEF T
        <4> QED
          BY <3>1, <1>c, Smallest
      <3>3. alarm' \in T /\ \A y \in T : alarm' <= y
        <4>1. alarm' = Scope!Min(T)
          BY <2>1, <2>3
        <4> HIDE DEF T
        <4> QED
          BY <4>1, <3>2 DEF Scope!Min
      <3>4. alarm' # 0 /\ alarm' \in 0..(ScopeClock + Lease)
        <4>1. \A p \in live : auth[p] # 0
          BY <1>c
        <4> QED
          BY <3>1, <3>3, <4>1
      <3>5. \A p \in People : auth'[p] # 0 => alarm' <= auth'[p]
        BY <2>1, <3>3
      <3>6. Scope!TypeOK'
        BY <1>t, <2>1, <2>a, <2>3, <3>4 DEF Scope!TypeOK
      <3>7. ScopeEnds'
        BY <1>s, <3>4, <3>5
      <3>8. NothingWithoutTables'
        BY <2>1, <2>3 DEF NothingWithoutTables
      <3> QED
        BY <3>6, <3>7, <3>8
    <2>4. CASE live = {}
      <3>1. \A p \in People : auth'[p] = 0
        BY <2>1, <2>4
      <3>2. Scope!Authorized' = {}
        BY <3>1 DEF Scope!Authorized
      <3>3. /\ alarm' = 0
            /\ \/ Scope!Connected = {} /\ kept' = FALSE /\ tables' = FALSE
               \/ Scope!Connected # {} /\ UNCHANGED <<tables, kept>>
        BY <2>1, <2>4 DEF Scope!EndScope
      <3>4. Scope!TypeOK'
        <4>1. tables' \in BOOLEAN /\ kept' \in BOOLEAN
          BY <1>t, <3>3 DEF Scope!TypeOK
        <4> QED
          BY <1>t, <1>z, <2>1, <2>a, <3>3, <4>1 DEF Scope!TypeOK
      <3>5. ScopeEnds'
        BY <1>s, <2>2, <3>1, <3>3
      <3>6. NothingWithoutTables'
        BY <2>1, <3>2, <3>3 DEF NothingWithoutTables
      <3> QED
        BY <3>4, <3>5, <3>6
    <2> QED
      BY <2>3, <2>4
  <1>7. ASSUME Scope!AlarmThrows PROVE ScopeInv'
    <2>1. ~tables /\ alarm' = 0 /\ UNCHANGED <<auth, owner, now, tables, kept>>
      BY <1>7 DEF Scope!AlarmThrows
    <2>2. Scope!Authorized = {} /\ Scope!Authorized' = {} /\ ~kept
      BY <2>1 DEF NothingWithoutTables, Scope!Authorized
    <2>3. Scope!TypeOK'
      BY <1>t, <1>c, <2>1 DEF Scope!TypeOK
    <2> QED
      BY <2>1, <2>2, <2>3 DEF NothingWithoutTables, ScopeEnds, Scope!ScopeEnds
  <1>8. ASSUME Scope!Construct \/ Scope!Tick PROVE ScopeInv'
    <2>1. /\ UNCHANGED <<auth, owner, alarm, kept>> /\ (~tables' => ~tables)
          /\ now' \in {now, now + 1} /\ (now' # now => now < ScopeClock) /\ tables' \in BOOLEAN
      BY <1>8, <1>t DEF Scope!Construct, Scope!Tick, Scope!TypeOK
    <2>2. now' \in 1..ScopeClock
      BY <1>c, <2>1
    <2>3. Scope!TypeOK'
      BY <1>t, <2>1, <2>2 DEF Scope!TypeOK
    <2>4. Scope!Authorized' = Scope!Authorized /\ Scope!Connected' = Scope!Connected
      BY <2>1 DEF Scope!Authorized, Scope!Connected
    <2>5. ScopeEnds'
      BY <1>s, <1>e, <2>1, <2>4
    <2> QED
      BY <2>1, <2>3, <2>4, <2>5 DEF NothingWithoutTables
  <1> QED
    BY <1>1, <1>2, <1>3, <1>4, <1>5, <1>6, <1>7, <1>8 DEF Scope!Next

\* ScopeEnds: no authorization outlives the alarm that is to end it, and a scope left by
\* everyone has nothing stored or will be woken.
THEOREM ScopeIsEnded == PageSpec => []ScopeEnds
  <1>1. PageInit => ScopeInv
    BY PartsBegin, ScopeInvBegins
  <1>2. ScopeInv /\ [PageNext]_vars => ScopeInv'
    BY PartsStep, ScopeInvStep
  <1>3. ScopeInv => ScopeEnds
    BY DEF ScopeInv
  <1> QED
    BY <1>1, <1>2, <1>3, PTL DEF PageSpec

------------------------------------------------------------------------------------
(* The event feed. *)

\* Event n, or a snapshot that holds it, is on its way to tab t.
OnItsWayTo(t, n) ==
  \E i \in 1..Len(down[t]) :
    \/ down[t][i].kind = "delta" /\ n \in down[t][i].events
    \/ down[t][i].kind = "snapshot" /\ n <= down[t][i].seq

\* A snapshot reaches further than those before it.
SnapshotsGrow ==
  \A t \in Tabs :
    /\ seeded[t] <= latest
    /\ \A i \in 1..Len(down[t]) :
         down[t][i].kind = "snapshot" =>
           /\ seeded[t] <= down[t][i].seq /\ down[t][i].seq <= latest
           /\ \A j \in 1..i : down[t][j].kind = "snapshot" => down[t][j].seq <= down[t][i].seq

\* What a tab is owed it has seen, or it is on its way to it, or in the batch.
NothingFalls ==
  \A t \in Tabs :
    socket[t] = "ready" =>
      \A n \in (hello[t] + 1)..latest : Feed!Seen(t, n) \/ n \in batch \/ OnItsWayTo(t, n)

\* CaughtUp with what makes it inductive.
FeedInv == Feed!TypeOK /\ SnapshotsGrow /\ NothingFalls

\* A frame carries the highest of its events, and there is one.
LEMMA DeltaIs ==
  ASSUME NEW E \in SUBSET Feed!Seqs, E # {}
  PROVE  /\ Feed!Delta(E) \in Feed!FrameType
         /\ Feed!Delta(E).kind = "delta" /\ Feed!Delta(E).events = E
  <1>c. MaxSeq \in Nat
    BY PageAssumption DEF Feed!FeedAssumption
  <1> DEFINE T == {MaxSeq - x : x \in E}
  <1>e. \A x \in E : x \in Nat /\ 1 <= x /\ x <= MaxSeq
    BY <1>c DEF Feed!Seqs
  <1>1. T \in SUBSET Nat /\ T # {}
    BY <1>c, <1>e
  <1>2. PICK y \in T : \A z \in T : y <= z
    <2> HIDE DEF T
    <2> QED
      BY <1>1, Smallest
  <1>3. PICK n \in E : y = MaxSeq - n
    OBVIOUS
  <1>4. \A m \in E : m <= n
    <2> SUFFICES ASSUME NEW m \in E PROVE m <= n
      OBVIOUS
    <2>1. MaxSeq - m \in T
      OBVIOUS
    <2>2. MaxSeq - n <= MaxSeq - m
      BY <1>2, <1>3, <2>1
    <2> QED
      BY <1>c, <1>e, <2>2
  <1>5. Feed!Highest(E) \in E
    BY <1>4 DEF Feed!Highest
  <1> HIDE DEF T
  <1>6. Feed!Highest(E) \in 0..MaxSeq
    BY <1>5, <1>c, <1>e
  <1> QED
    BY <1>6 DEF Feed!Delta, Feed!FrameType

\* Sets of events, none of them empty.
Batches == (SUBSET Feed!Seqs) \ {{}}

\* More is on its way than before, in the order it was sent, ...
MoreOnTheWay ==
  \A t \in Tabs :
    /\ Len(down'[t]) >= Len(down[t])
    /\ \A i \in 1..Len(down[t]) : down'[t][i] = down[t][i]

\* ... and what is new are events.
OnlyEvents ==
  \A t \in Tabs : \A i \in (Len(down[t]) + 1)..Len(down'[t]) : down'[t][i].kind = "delta"

\* A sequence with another after it.
LEMMA OneAfterOther ==
  ASSUME NEW S, NEW s \in Seq(S), NEW u \in Seq(S)
  PROVE  /\ s \o u \in Seq(S) /\ Len(s \o u) = Len(s) + Len(u)
         /\ Len(s) \in Nat /\ Len(u) \in Nat
         /\ \A i \in 1..Len(s) : (s \o u)[i] = s[i]
         /\ \A i \in 1..Len(u) : /\ Len(s) + i \in 1..Len(s \o u)
                                 /\ (s \o u)[Len(s) + i] = u[i]
         /\ \A i \in (Len(s) + 1)..Len(s \o u) :
              i - Len(s) \in 1..Len(u) /\ (s \o u)[i] = u[i - Len(s)]
  OBVIOUS

\* sendDelta(): every open socket is sent every set.
LEMMA Sent ==
  ASSUME Feed!TypeOK, NEW EE \in Seq(Batches), Feed!SendDeltas(EE)
  PROVE  /\ down' \in [Tabs -> Seq(Feed!FrameType)] /\ MoreOnTheWay /\ OnlyEvents
         /\ \A t \in Tabs : socket[t] # "off" =>
              \A i \in 1..Len(EE) : \A n \in EE[i] : OnItsWayTo(t, n)'
  <1> DEFINE F == [i \in 1..Len(EE) |-> Feed!Delta(EE[i])]
  <1>1. \A i \in 1..Len(EE) : /\ Feed!Delta(EE[i]) \in Feed!FrameType
                              /\ Feed!Delta(EE[i]).kind = "delta"
                              /\ Feed!Delta(EE[i]).events = EE[i]
    <2> SUFFICES ASSUME NEW i \in 1..Len(EE)
                 PROVE  /\ Feed!Delta(EE[i]) \in Feed!FrameType
                        /\ Feed!Delta(EE[i]).kind = "delta" /\ Feed!Delta(EE[i]).events = EE[i]
      OBVIOUS
    <2>1. EE[i] \in SUBSET Feed!Seqs /\ EE[i] # {}
      BY DEF Batches
    <2> QED
      BY <2>1, DeltaIs
  <1>2. Len(EE) \in Nat
    OBVIOUS
  <1>3. /\ F \in Seq(Feed!FrameType) /\ Len(F) = Len(EE)
        /\ \A i \in 1..Len(F) : F[i].kind = "delta" /\ F[i].events = EE[i]
    BY <1>1, <1>2
  <1>4. down' = [t \in Tabs |-> IF socket[t] = "off" THEN down[t] ELSE down[t] \o F]
    BY DEF Feed!SendDeltas
  <1>5. \A t \in Tabs : down[t] \in Seq(Feed!FrameType)
    BY DEF Feed!TypeOK
  <1> HIDE DEF F
  <1>6. down' \in [Tabs -> Seq(Feed!FrameType)]
    BY <1>3, <1>4, <1>5
  <1>7. \A t \in Tabs : /\ Len(down'[t]) >= Len(down[t])
                        /\ \A i \in 1..Len(down[t]) : down'[t][i] = down[t][i]
                        /\ \A i \in (Len(down[t]) + 1)..Len(down'[t]) : down'[t][i].kind = "delta"
    <2> SUFFICES ASSUME NEW t \in Tabs
                 PROVE  /\ Len(down'[t]) >= Len(down[t])
                        /\ \A i \in 1..Len(down[t]) : down'[t][i] = down[t][i]
                        /\ \A i \in (Len(down[t]) + 1)..Len(down'[t]) : down'[t][i].kind = "delta"
      OBVIOUS
    <2>1. CASE socket[t] = "off"
      BY <2>1, <1>4, <1>5
    <2>2. CASE socket[t] # "off"
      <3> DEFINE d == down[t]
      <3>1. down'[t] = d \o F /\ d \in Seq(Feed!FrameType)
        BY <2>2, <1>4, <1>5
      <3>a. /\ Len(d \o F) = Len(d) + Len(F) /\ Len(d) \in Nat /\ Len(F) \in Nat
            /\ \A i \in 1..Len(d) : (d \o F)[i] = d[i]
            /\ \A i \in (Len(d) + 1)..Len(d \o F) :
                 i - Len(d) \in 1..Len(F) /\ (d \o F)[i] = F[i - Len(d)]
        <4> HIDE DEF d
        <4>1. Len(d \o F) = Len(d) + Len(F) /\ Len(d) \in Nat /\ Len(F) \in Nat
          BY <3>1, <1>3, OneAfterOther
        <4>2. \A i \in 1..Len(d) : (d \o F)[i] = d[i]
          BY <3>1, <1>3, OneAfterOther
        <4>3. \A i \in (Len(d) + 1)..Len(d \o F) :
                i - Len(d) \in 1..Len(F) /\ (d \o F)[i] = F[i - Len(d)]
          <5>1. d \in Seq(Feed!FrameType) /\ F \in Seq(Feed!FrameType)
            BY <3>1, <1>3
          <5> QED
            BY <5>1, OneAfterOther
        <4> QED
          BY <4>1, <4>2, <4>3
      <3>2. /\ Len(down'[t]) = Len(down[t]) + Len(F) /\ Len(F) \in Nat /\ Len(down[t]) \in Nat
            /\ \A i \in 1..Len(down[t]) : down'[t][i] = down[t][i]
            /\ \A i \in (Len(down[t]) + 1)..Len(down'[t]) :
                 i - Len(down[t]) \in 1..Len(F) /\ down'[t][i] = F[i - Len(down[t])]
        BY <3>1, <3>a
      <3>3. Len(down'[t]) >= Len(down[t])
        BY <3>2
      <3> QED
        BY <3>2, <3>3, <1>3
    <2> QED
      BY <2>1, <2>2
  <1>8. ASSUME NEW t \in Tabs, socket[t] # "off", NEW i \in 1..Len(EE), NEW n \in EE[i]
        PROVE  OnItsWayTo(t, n)'
    <2> DEFINE d == down[t]
    <2>1. down'[t] = d \o F /\ d \in Seq(Feed!FrameType)
      BY <1>8, <1>4, <1>5
    <2>a. Len(d) + i \in 1..Len(d \o F) /\ (d \o F)[Len(d) + i] = F[i]
      <3> HIDE DEF d
      <3> QED
        BY <2>1, <1>3, OneAfterOther
    <2>2. Len(down[t]) + i \in 1..Len(down'[t]) /\ down'[t][Len(down[t]) + i] = F[i]
      BY <2>1, <2>a
    <2>3. /\ down'[t][Len(down[t]) + i].kind = "delta"
          /\ n \in down'[t][Len(down[t]) + i].events
      BY <2>2, <1>3
    <2> QED
      BY <2>2, <2>3 DEF OnItsWayTo
  <1> QED
    BY <1>6, <1>7, <1>8 DEF MoreOnTheWay, OnlyEvents

\* flushBatch() and what is sent after it: also what waited is on its way to who is there.
LEMMA Flushed ==
  ASSUME Feed!TypeOK, NEW EE, EE = <<>> \/ \E new \in Batches : EE = <<new>>,
         Feed!FlushThen(EE)
  PROVE  /\ down' \in [Tabs -> Seq(Feed!FrameType)] /\ MoreOnTheWay /\ OnlyEvents
         /\ batch' = {}
         /\ \A t \in Tabs : socket[t] # "off" =>
              /\ \A n \in batch : OnItsWayTo(t, n)'
              /\ \A new \in Batches : EE = <<new>> => \A n \in new : OnItsWayTo(t, n)'
  <1> DEFINE FF == (IF batch = {} THEN <<>> ELSE <<batch>>) \o EE
  <1>1. batch = {} \/ batch \in Batches
    BY DEF Feed!TypeOK, Batches
  <1>2. /\ FF \in Seq(Batches)
        /\ batch # {} => FF[1] = batch /\ 1 \in 1..Len(FF)
        /\ \A new \in Batches : EE = <<new>> =>
             \E i \in 1..Len(FF) : FF[i] = new
    <2>1. CASE EE = <<>> /\ batch = {}
      BY <2>1
    <2>2. CASE EE = <<>> /\ batch # {}
      BY <1>1, <2>2
    <2>3. ASSUME NEW e \in Batches, EE = <<e>>, batch = {}
          PROVE  <1>2!1 /\ <1>2!2 /\ <1>2!3
      <3>1. FF = <<e>>
        BY <2>3
      <3> HIDE DEF FF
      <3> QED
        BY <2>3, <3>1
    <2>4. ASSUME NEW e \in Batches, EE = <<e>>, batch # {}
          PROVE  <1>2!1 /\ <1>2!2 /\ <1>2!3
      <3>1. FF = <<batch>> \o <<e>> /\ <<batch>> \in Seq(Batches) /\ <<e>> \in Seq(Batches)
        BY <1>1, <2>4
      <3>2. /\ Len(<<batch>>) = 1 /\ Len(<<e>>) = 1 /\ <<batch>>[1] = batch /\ <<e>>[1] = e
        OBVIOUS
      <3> HIDE DEF FF
      <3>3. FF \in Seq(Batches) /\ Len(FF) = 2 /\ FF[1] = batch /\ FF[2] = e
        BY <3>1, <3>2, OneAfterOther
      <3> QED
        BY <2>4, <3>3
    <2> QED
      BY <2>1, <2>2, <2>3, <2>4
  <1>3. Feed!SendDeltas(FF) /\ batch' = {}
    BY DEF Feed!FlushThen
  <1> HIDE DEF FF
  <1>4. /\ down' \in [Tabs -> Seq(Feed!FrameType)] /\ MoreOnTheWay /\ OnlyEvents
        /\ \A t \in Tabs : socket[t] # "off" =>
             \A i \in 1..Len(FF) : \A n \in FF[i] : OnItsWayTo(t, n)'
    BY <1>2, <1>3, Sent
  <1>5. ASSUME NEW t \in Tabs, socket[t] # "off", NEW n \in batch PROVE OnItsWayTo(t, n)'
    BY <1>2, <1>4, <1>5
  <1>6. ASSUME NEW t \in Tabs, socket[t] # "off", NEW new \in Batches, EE = <<new>>, NEW n \in new
        PROVE  OnItsWayTo(t, n)'
    BY <1>2, <1>4, <1>6
  <1> QED
    BY <1>3, <1>4, <1>5, <1>6

\* What is on its way stays on it when more is sent, and the snapshots are as they were.
LEMMA StaysOnTheWay ==
  ASSUME FeedInv, down' \in [Tabs -> Seq(Feed!FrameType)], MoreOnTheWay, OnlyEvents,
         UNCHANGED seeded, latest' \in Nat, latest' >= latest
  PROVE  /\ SnapshotsGrow'
         /\ \A t \in Tabs : \A n : OnItsWayTo(t, n) => OnItsWayTo(t, n)'
  <1>1. \A t \in Tabs : Len(down[t]) \in Nat /\ Len(down'[t]) \in Nat
    BY DEF FeedInv, Feed!TypeOK
  <1>2. ASSUME NEW t \in Tabs, NEW n, OnItsWayTo(t, n) PROVE OnItsWayTo(t, n)'
    <2>1. PICK i \in 1..Len(down[t]) : \/ down[t][i].kind = "delta" /\ n \in down[t][i].events
                                       \/ down[t][i].kind = "snapshot" /\ n <= down[t][i].seq
      BY <1>2 DEF OnItsWayTo
    <2>2. i \in 1..Len(down'[t]) /\ down'[t][i] = down[t][i]
      BY <1>1 DEF MoreOnTheWay
    <2> QED
      BY <2>1, <2>2 DEF OnItsWayTo
  <1>3. ASSUME NEW t \in Tabs, NEW i \in 1..Len(down'[t]), down'[t][i].kind = "snapshot"
        PROVE  i \in 1..Len(down[t]) /\ down'[t][i] = down[t][i]
    <2>1. i \in 1..Len(down[t]) \/ i \in (Len(down[t]) + 1)..Len(down'[t])
      BY <1>1
    <2> QED
      BY <1>3, <2>1 DEF MoreOnTheWay, OnlyEvents
  <1>4. \A t \in Tabs : seeded[t] \in Nat /\ seeded[t] <= latest /\ latest \in Nat
    BY PageAssumption DEF FeedInv, SnapshotsGrow, Feed!TypeOK, Feed!FeedAssumption
  <1>5. \A t \in Tabs : \A i \in 1..Len(down[t]) : down[t][i].seq \in Nat
    <2> SUFFICES ASSUME NEW t \in Tabs, NEW i \in 1..Len(down[t]) PROVE down[t][i].seq \in Nat
      OBVIOUS
    <2>1. down[t] \in Seq(Feed!FrameType)
      BY DEF FeedInv, Feed!TypeOK
    <2>2. down[t][i] \in Feed!FrameType
      BY <2>1
    <2> QED
      BY <2>2 DEF Feed!FrameType
  <1>6. SnapshotsGrow'
    <2>1. ASSUME NEW t \in Tabs PROVE seeded'[t] <= latest'
      BY <1>4
    <2>2. ASSUME NEW t \in Tabs, NEW i \in 1..Len(down'[t]), down'[t][i].kind = "snapshot"
          PROVE  /\ seeded'[t] <= down'[t][i].seq /\ down'[t][i].seq <= latest'
                 /\ \A j \in 1..i :
                      down'[t][j].kind = "snapshot" => down'[t][j].seq <= down'[t][i].seq
      <3>1. i \in 1..Len(down[t]) /\ down'[t][i] = down[t][i]
        BY <1>3, <2>2
      <3>2. /\ seeded[t] <= down[t][i].seq /\ down[t][i].seq <= latest
            /\ \A j \in 1..i : down[t][j].kind = "snapshot" => down[t][j].seq <= down[t][i].seq
        BY <2>2, <3>1 DEF FeedInv, SnapshotsGrow
      <3>3. \A j \in 1..i : j \in 1..Len(down[t]) /\ down'[t][j] = down[t][j]
        BY <1>1, <3>1 DEF MoreOnTheWay
      <3>4. down[t][i].seq <= latest'
        BY <1>4, <1>5, <3>1, <3>2
      <3> QED
        BY <3>1, <3>2, <3>3, <3>4
    <2> QED
      BY <2>1, <2>2 DEF SnapshotsGrow
  <1> QED
    BY <1>2, <1>6

\* It holds in the beginning.
LEMMA FeedInvBegins == Feed!Init => FeedInv
  <1> SUFFICES ASSUME Feed!Init PROVE FeedInv
    OBVIOUS
  <1>1. 0 \in 0..MaxSeq /\ 1 \in 1..(MaxSeq + 1) /\ 0 \in 0..MaxBreaks
    BY PageAssumption DEF Feed!FeedAssumption
  <1>2. Feed!TypeOK
    <2>1. <<>> \in Seq(Feed!FrameType)
      OBVIOUS
    <2> QED
      BY <1>1, <2>1 DEF Feed!Init, Feed!TypeOK
  <1>3. \A t \in Tabs : seeded[t] = 0 /\ socket[t] = "off" /\ Len(down[t]) = 0
    BY DEF Feed!Init
  <1>4. SnapshotsGrow
    BY <1>3 DEF SnapshotsGrow, Feed!Init
  <1> QED
    BY <1>2, <1>3, <1>4 DEF FeedInv, NothingFalls

\* The gateway sends, and keeps what it does not send.
LEMMA GatewaySends ==
  ASSUME FeedInv, Feed!TypeOK', MoreOnTheWay, OnlyEvents, UNCHANGED <<got, seeded>>,
         latest' >= latest,
         \A t \in Tabs : socket'[t] = "ready" =>
           /\ socket[t] = "ready" /\ hello'[t] = hello[t]
           /\ \A n \in batch \cup ((latest + 1)..latest') : n \in batch' \/ OnItsWayTo(t, n)'
  PROVE  FeedInv'
  <1>1. latest' \in Nat /\ latest \in Nat /\ down' \in [Tabs -> Seq(Feed!FrameType)]
    BY PageAssumption DEF FeedInv, Feed!TypeOK, Feed!FeedAssumption
  <1>2. SnapshotsGrow' /\ \A t \in Tabs : \A n : OnItsWayTo(t, n) => OnItsWayTo(t, n)'
    BY <1>1, StaysOnTheWay
  <1>3. ASSUME NEW t \in Tabs, socket'[t] = "ready", NEW n \in (hello'[t] + 1)..latest'
        PROVE  Feed!Seen(t, n)' \/ n \in batch' \/ OnItsWayTo(t, n)'
    <2>1. socket[t] = "ready" /\ hello'[t] = hello[t] /\ hello[t] \in Nat
      BY <1>3 DEF FeedInv, Feed!TypeOK
    <2>2. CASE n <= latest
      <3>1. n \in (hello[t] + 1)..latest
        BY <1>1, <1>3, <2>1, <2>2
      <3>2. Feed!Seen(t, n) \/ n \in batch \/ OnItsWayTo(t, n)
        BY <2>1, <3>1 DEF FeedInv, NothingFalls
      <3>3. Feed!Seen(t, n) => Feed!Seen(t, n)'
        BY DEF Feed!Seen
      <3> QED
        BY <1>2, <1>3, <3>2, <3>3
    <2>3. CASE n > latest
      <3>1. n \in (latest + 1)..latest'
        BY <1>1, <1>3, <2>1, <2>3
      <3> QED
        BY <1>3, <3>1
    <2> QED
      BY <1>1, <1>3, <2>1, <2>2, <2>3
  <1> QED
    BY <1>2, <1>3 DEF FeedInv, NothingFalls

\* emit().
LEMMA EmitKeeps ==
  ASSUME FeedInv, NEW n \in 1..2, NEW urgent \in BOOLEAN, Feed!Emit(n, urgent)
  PROVE  FeedInv'
  <1> DEFINE new == (latest + 1)..(latest + n)
  <1>t. Feed!TypeOK
    BY DEF FeedInv
  <1>c. /\ MaxSeq \in Nat /\ latest \in Nat /\ latest + n <= MaxSeq /\ latest' = latest + n
        /\ n \in Nat \ {0}
    BY <1>t, PageAssumption DEF Feed!TypeOK, Feed!FeedAssumption, Feed!Emit
  <1>1. new \in Batches /\ batch \subseteq Feed!Seqs /\ batch \cup new \in Batches
    <2>1. latest + 1 \in new /\ new \subseteq 1..MaxSeq
      BY <1>c
    <2>2. batch \subseteq 1..MaxSeq
      BY <1>t DEF Feed!TypeOK, Feed!Seqs
    <2> HIDE DEF new
    <2> QED
      BY <2>1, <2>2 DEF Batches, Feed!Seqs
  <1>2. /\ UNCHANGED <<oldest, socket, hello, cursor, cursorLoaded, saving, stored, from, got,
                       seeded, breaks>>
        /\ armed' \in BOOLEAN
    BY <1>t DEF Feed!Emit, Feed!TypeOK, Feed!tabVars
  <1>3. \/ Feed!FlushThen(<<new>>)
        \/ Feed!SendDeltas(<<batch \cup new>>) /\ batch' = {}
        \/ batch' = batch \cup new /\ UNCHANGED down
    BY DEF Feed!Emit
  <1> HIDE DEF new
  <1>4. /\ down' \in [Tabs -> Seq(Feed!FrameType)] /\ MoreOnTheWay /\ OnlyEvents
        /\ batch' \subseteq Feed!Seqs
        /\ \A t \in Tabs : socket[t] # "off" =>
             \A m \in batch \cup new : m \in batch' \/ OnItsWayTo(t, m)'
    <2>1. CASE Feed!FlushThen(<<new>>)
      <3> DEFINE EE == <<new>>
      <3>1. \E e \in Batches : EE = <<e>>
        BY <1>1
      <3>2. EE = <<new>> /\ Feed!FlushThen(EE)
        BY <2>1
      <3> HIDE DEF EE
      <3> QED
        BY <1>1, <1>t, <3>1, <3>2, Flushed
    <2>2. CASE Feed!SendDeltas(<<batch \cup new>>) /\ batch' = {}
      <3> DEFINE EE == <<batch \cup new>>
      <3>1. EE \in Seq(Batches) /\ 1 \in 1..Len(EE) /\ EE[1] = batch \cup new
        BY <1>1
      <3>2. Feed!SendDeltas(EE) /\ batch' = {}
        BY <2>2
      <3> HIDE DEF EE
      <3>3. /\ down' \in [Tabs -> Seq(Feed!FrameType)] /\ MoreOnTheWay /\ OnlyEvents
            /\ \A t \in Tabs : socket[t] # "off" =>
                 \A i \in 1..Len(EE) : \A m \in EE[i] : OnItsWayTo(t, m)'
        BY <1>t, <3>1, <3>2, Sent
      <3>4. \A t \in Tabs : socket[t] # "off" => \A m \in batch \cup new : OnItsWayTo(t, m)'
        BY <3>1, <3>3
      <3> QED
        BY <3>2, <3>3, <3>4
    <2>3. CASE batch' = batch \cup new /\ UNCHANGED down
      <3>1. down' \in [Tabs -> Seq(Feed!FrameType)]
        BY <1>t, <2>3 DEF Feed!TypeOK
      <3>2. \A t \in Tabs : Len(down[t]) \in Nat
        BY <1>t DEF Feed!TypeOK
      <3>3. MoreOnTheWay /\ OnlyEvents
        BY <2>3, <3>2 DEF MoreOnTheWay, OnlyEvents
      <3>4. batch' \subseteq Feed!Seqs
        BY <1>1, <2>3 DEF Batches
      <3> QED
        BY <2>3, <3>1, <3>3, <3>4
    <2> QED
      BY <1>3, <2>1, <2>2, <2>3
  <1>5. Feed!TypeOK'
    BY <1>t, <1>c, <1>2, <1>4 DEF Feed!TypeOK
  <1>6. (latest + 1)..latest' = new
    BY <1>c DEF new
  <1>7. ASSUME NEW t \in Tabs, socket'[t] = "ready"
        PROVE  /\ socket[t] = "ready" /\ hello'[t] = hello[t]
               /\ \A m \in batch \cup ((latest + 1)..latest') : m \in batch' \/ OnItsWayTo(t, m)'
    BY <1>2, <1>4, <1>6, <1>7
  <1>8. latest' >= latest
    BY <1>c
  <1> QED
    BY <1>2, <1>4, <1>5, <1>7, <1>8, GatewaySends

\* A flush without anything new.
LEMMA FlushedNow ==
  ASSUME FeedInv, Feed!FlushThen(<<>>)
  PROVE  /\ down' \in [Tabs -> Seq(Feed!FrameType)] /\ MoreOnTheWay /\ OnlyEvents
         /\ batch' = {}
         /\ \A t \in Tabs : socket[t] # "off" => \A n \in batch : OnItsWayTo(t, n)'
  <1> DEFINE EE == <<>>
  <1>1. EE = <<>> /\ Feed!FlushThen(EE) /\ Feed!TypeOK
    BY DEF FeedInv
  <1> HIDE DEF EE
  <1> QED
    BY <1>1, Flushed

\* The timer of the batch, and accept().
LEMMA FlushKeeps ==
  ASSUME FeedInv, Feed!FlushFires \/ \E t \in Tabs : Feed!Accept(t)
  PROVE  FeedInv'
  <1>t. Feed!TypeOK
    BY DEF FeedInv
  <1>1. /\ Feed!FlushThen(<<>>) /\ UNCHANGED <<latest, oldest, stored, got, seeded, breaks>>
    BY DEF Feed!FlushFires, Feed!Accept, Feed!tabVars
  <1>2. /\ down' \in [Tabs -> Seq(Feed!FrameType)] /\ MoreOnTheWay /\ OnlyEvents
        /\ batch' = {}
        /\ \A t \in Tabs : socket[t] # "off" => \A n \in batch : OnItsWayTo(t, n)'
    BY <1>1, FlushedNow
  <1>3. /\ socket' \in [Tabs -> {"off", "accepted", "ready"}]
        /\ hello' \in [Tabs -> 0..MaxSeq]
        /\ cursor' \in [Tabs -> 0..MaxSeq] /\ from' \in [Tabs -> 0..MaxSeq]
        /\ cursorLoaded' \in [Tabs -> BOOLEAN] /\ saving' \in [Tabs -> BOOLEAN]
        /\ armed' \in BOOLEAN
        /\ \A t \in Tabs : socket'[t] = "ready" => socket[t] = "ready" /\ hello'[t] = hello[t]
    <2>1. CASE Feed!FlushFires
      BY <1>t, <2>1 DEF Feed!FlushFires, Feed!TypeOK, Feed!tabVars
    <2>2. ASSUME NEW t \in Tabs, Feed!Accept(t) PROVE <1>3
      <3>1. /\ socket' = [socket EXCEPT ![t] = "accepted"]
            /\ cursorLoaded' = [cursorLoaded EXCEPT ![t] = TRUE]
            /\ cursor' = cursor \/ cursor' = [cursor EXCEPT ![t] = stored]
            /\ from' = from \/ from' = [from EXCEPT ![t] = cursor'[t]]
            /\ hello' = [hello EXCEPT ![t] = cursor'[t]]
            /\ saving' = saving /\ armed' = armed
        BY <2>2 DEF Feed!Accept
      <3>2. cursor' \in [Tabs -> 0..MaxSeq]
        BY <1>t, <3>1 DEF Feed!TypeOK
      <3>3. cursor'[t] \in 0..MaxSeq
        BY <3>2
      <3>4. from' \in [Tabs -> 0..MaxSeq] /\ hello' \in [Tabs -> 0..MaxSeq]
        BY <1>t, <3>1, <3>3 DEF Feed!TypeOK
      <3>5. /\ socket' \in [Tabs -> {"off", "accepted", "ready"}]
            /\ cursorLoaded' \in [Tabs -> BOOLEAN] /\ saving' \in [Tabs -> BOOLEAN]
            /\ armed' \in BOOLEAN
        BY <1>t, <3>1 DEF Feed!TypeOK
      <3>6. \A u \in Tabs : socket'[u] = "ready" => socket[u] = "ready" /\ hello'[u] = hello[u]
        <4> SUFFICES ASSUME NEW u \in Tabs, socket'[u] = "ready"
                     PROVE  socket[u] = "ready" /\ hello'[u] = hello[u]
          OBVIOUS
        <4>1. u # t /\ socket'[u] = socket[u]
          BY <1>t, <3>1 DEF Feed!TypeOK
        <4> QED
          BY <1>t, <3>1, <4>1 DEF Feed!TypeOK
      <3> QED
        BY <3>2, <3>4, <3>5, <3>6
    <2> QED
      BY <2>1, <2>2
  <1>4. Feed!TypeOK'
    BY <1>t, <1>1, <1>2, <1>3 DEF Feed!TypeOK
  <1>5. ASSUME NEW t \in Tabs, socket'[t] = "ready"
        PROVE  /\ socket[t] = "ready" /\ hello'[t] = hello[t]
               /\ \A n \in batch \cup ((latest + 1)..latest') : n \in batch' \/ OnItsWayTo(t, n)'
    <2>1. socket[t] = "ready" /\ hello'[t] = hello[t]
      BY <1>3, <1>5
    <2>2. (latest + 1)..latest' = {}
      BY <1>t, <1>1, PageAssumption DEF Feed!TypeOK, Feed!FeedAssumption
    <2> QED
      BY <1>2, <2>1, <2>2
  <1>6. latest' >= latest
    BY <1>t, <1>1, PageAssumption DEF Feed!TypeOK, Feed!FeedAssumption
  <1> QED
    BY <1>1, <1>2, <1>4, <1>5, <1>6, GatewaySends

\* sendResume(): everything after the cursor of the hello is on its way, by itself or within
\* a snapshot.
LEMMA HelloKeeps ==
  ASSUME FeedInv, NEW t \in Tabs, Feed!HandleHello(t)
  PROVE  FeedInv'
  <1> DEFINE R == Feed!ResumeFrames(hello[t])
             d == down[t]
  <1>t. Feed!TypeOK
    BY DEF FeedInv
  <1>c. /\ MaxSeq \in Nat /\ latest \in 0..MaxSeq /\ hello[t] \in 0..MaxSeq /\ oldest \in Nat
        /\ d \in Seq(Feed!FrameType)
    BY <1>t, PageAssumption DEF Feed!TypeOK, Feed!FeedAssumption
  <1>1. /\ socket[t] = "accepted" /\ socket' = [socket EXCEPT ![t] = "ready"]
        /\ down' = [down EXCEPT ![t] = d \o R]
        /\ UNCHANGED <<latest, oldest, batch, armed, hello, cursor, cursorLoaded, saving, stored,
                       from, got, seeded, breaks>>
    BY DEF Feed!HandleHello, Feed!gatewayVars, Feed!tabVars
  <1>2. \/ R = <<>> /\ hello[t] = latest
        \/ \E f \in Feed!FrameType :
             /\ R = <<f>>
             /\ \/ f.kind = "snapshot" /\ f.seq = latest
                \/ f.kind = "delta" /\ f.events = (hello[t] + 1)..latest
    <2> DEFINE s == [kind |-> "snapshot", events |-> {}, seq |-> latest]
               E == (hello[t] + 1)..latest
    <2>1. s \in Feed!FrameType /\ s.kind = "snapshot" /\ s.seq = latest
      BY <1>c DEF Feed!FrameType
    <2>2. CASE hello[t] > latest \/ (hello[t] < latest /\ hello[t] < oldest - 1)
      <3>1. R = <<s>>
        <4>1. CASE hello[t] > latest
          <5>1. ~(hello[t] = latest) /\ ~(hello[t] < latest)
            BY <1>c, <4>1
          <5> QED
            BY <4>1, <5>1 DEF Feed!ResumeFrames
        <4>2. CASE hello[t] < latest /\ hello[t] < oldest - 1
          <5>1. ~(hello[t] > latest) /\ hello[t] # latest
            BY <1>c, <4>2
          <5> QED
            BY <4>2, <5>1 DEF Feed!ResumeFrames
        <4> QED
          BY <2>2, <4>1, <4>2
      <3> HIDE DEF R, s
      <3> QED
        BY <2>1, <3>1
    <2>3. CASE hello[t] = latest
      BY <1>c, <2>3 DEF Feed!ResumeFrames
    <2>4. CASE hello[t] < latest /\ ~(hello[t] < oldest - 1)
      <3>1. R = <<Feed!Delta(E)>>
        BY <1>c, <2>4 DEF Feed!ResumeFrames
      <3>2. E \in SUBSET Feed!Seqs /\ E # {}
        <4>1. latest \in E /\ E \subseteq 1..MaxSeq
          BY <1>c, <2>4
        <4> QED
          BY <4>1 DEF Feed!Seqs
      <3> HIDE DEF R, E
      <3>3. /\ Feed!Delta(E) \in Feed!FrameType
            /\ Feed!Delta(E).kind = "delta" /\ Feed!Delta(E).events = E
        BY <3>2, DeltaIs
      <3> QED
        BY <3>1, <3>3 DEF E
    <2> QED
      BY <1>c, <2>2, <2>3, <2>4
  <1> HIDE DEF R, d
  <1>3. R \in Seq(Feed!FrameType)
    <2>1. CASE R = <<>>
      BY <2>1
    <2>2. ASSUME NEW f \in Feed!FrameType, R = <<f>> PROVE R \in Seq(Feed!FrameType)
      BY <2>2
    <2> QED
      BY <1>2, <2>1, <2>2
  <1>4. /\ d \o R \in Seq(Feed!FrameType)
        /\ Len(d \o R) = Len(d) + Len(R) /\ Len(d) \in Nat /\ Len(R) \in Nat
    BY <1>c, <1>3, OneAfterOther
  <1>5. \A i \in 1..Len(d) : (d \o R)[i] = d[i]
    BY <1>c, <1>3, OneAfterOther
  <1>6. \A i \in 1..Len(R) : Len(d) + i \in 1..Len(d \o R) /\ (d \o R)[Len(d) + i] = R[i]
    BY <1>c, <1>3, OneAfterOther
  <1>7. \A i \in (Len(d) + 1)..Len(d \o R) : i - Len(d) \in 1..Len(R) /\ (d \o R)[i] = R[i - Len(d)]
    BY <1>c, <1>3, OneAfterOther
  <1>8. \A u \in Tabs : down'[u] = IF u = t THEN d \o R ELSE down[u]
    BY <1>t, <1>1 DEF Feed!TypeOK
  <1>9. Feed!TypeOK'
    <2>1. down' \in [Tabs -> Seq(Feed!FrameType)]
      BY <1>t, <1>1, <1>4 DEF Feed!TypeOK
    <2> QED
      BY <1>t, <1>1, <2>1 DEF Feed!TypeOK
  <1>10. \A i \in 1..Len(d) :
           /\ d[i].seq \in Nat
           /\ d[i].kind = "snapshot" => seeded[t] <= d[i].seq /\ d[i].seq <= latest
           /\ \A j \in 1..i :
                d[i].kind = "snapshot" /\ d[j].kind = "snapshot" => d[j].seq <= d[i].seq
    <2>1. \A i \in 1..Len(d) : d[i] \in Feed!FrameType
      BY <1>c
    <2>2. \A i \in 1..Len(d) : d[i].seq \in Nat
      BY <1>c, <2>1 DEF Feed!FrameType
    <2> QED
      BY <2>2 DEF FeedInv, SnapshotsGrow, d
  <1>11. SnapshotsGrow'
    <2>1. ASSUME NEW i \in 1..Len(d \o R), (d \o R)[i].kind = "snapshot"
          PROVE  /\ seeded[t] <= (d \o R)[i].seq /\ (d \o R)[i].seq <= latest
                 /\ \A j \in 1..i :
                      (d \o R)[j].kind = "snapshot" => (d \o R)[j].seq <= (d \o R)[i].seq
      <3>1. CASE i \in 1..Len(d)
        <4>1. \A j \in 1..i : j \in 1..Len(d) /\ (d \o R)[j] = d[j]
          BY <1>4, <1>5, <3>1
        <4> QED
          BY <1>5, <1>10, <2>1, <3>1, <4>1
      <3>2. CASE i \notin 1..Len(d)
        <4>1. i \in (Len(d) + 1)..Len(d \o R)
          BY <1>4, <3>2
        <4>2. i - Len(d) \in 1..Len(R) /\ (d \o R)[i] = R[i - Len(d)]
          BY <1>7, <4>1
        <4>3. (d \o R)[i].seq = latest /\ i = Len(d) + 1
          <5>1. PICK f \in Feed!FrameType :
                  /\ R = <<f>>
                  /\ \/ f.kind = "snapshot" /\ f.seq = latest
                     \/ f.kind = "delta" /\ f.events = (hello[t] + 1)..latest
            BY <1>2, <4>2
          <5>2. Len(R) = 1 /\ R[1] = f
            BY <5>1
          <5>3. i - Len(d) = 1
            BY <4>2, <5>2
          <5>4. (d \o R)[i] = f
            BY <4>2, <5>2, <5>3
          <5>5. i = Len(d) + 1
            BY <1>4, <4>1, <5>3
          <5> QED
            BY <2>1, <5>1, <5>4, <5>5
        <4>4. seeded[t] <= latest
          BY DEF FeedInv, SnapshotsGrow
        <4>5. ASSUME NEW j \in 1..i, (d \o R)[j].kind = "snapshot"
              PROVE  (d \o R)[j].seq <= latest
          <5>1. CASE j \in 1..Len(d)
            BY <1>5, <1>10, <4>5, <5>1
          <5>2. CASE j \notin 1..Len(d)
            <6>1. j = i
              BY <1>4, <4>3, <5>2
            <6> QED
              BY <1>c, <4>3, <6>1
          <5> QED
            BY <5>1, <5>2
        <4> QED
          BY <1>c, <4>3, <4>4, <4>5
      <3> QED
        BY <3>1, <3>2
    <2> QED
      BY <1>1, <1>8, <2>1 DEF SnapshotsGrow, FeedInv
  <1>12. NothingFalls'
    <2>1. ASSUME NEW n \in (hello[t] + 1)..latest PROVE OnItsWayTo(t, n)'
      <3>1. PICK f \in Feed!FrameType :
              /\ R = <<f>>
              /\ \/ f.kind = "snapshot" /\ f.seq = latest
                 \/ f.kind = "delta" /\ f.events = (hello[t] + 1)..latest
        BY <1>2, <1>c
      <3>2. Len(R) = 1 /\ R[1] = f
        BY <3>1
      <3>3. Len(d) + 1 \in 1..Len(down'[t]) /\ down'[t][Len(d) + 1] = f
        <4>1. 1 \in 1..Len(R)
          BY <3>2
        <4> QED
          BY <4>1, <1>6, <1>8, <3>2
      <3>4. (f.kind = "delta" /\ n \in f.events) \/ (f.kind = "snapshot" /\ n <= f.seq)
        BY <1>c, <3>1
      <3> QED
        BY <3>3, <3>4 DEF OnItsWayTo
    <2>2. ASSUME NEW u \in Tabs, u # t, socket'[u] = "ready", NEW n \in (hello[u] + 1)..latest
          PROVE  Feed!Seen(u, n)' \/ n \in batch' \/ OnItsWayTo(u, n)'
      <3>1. socket[u] = "ready" /\ down'[u] = down[u]
        BY <1>t, <1>1, <1>8, <2>2 DEF Feed!TypeOK
      <3>2. Feed!Seen(u, n) \/ n \in batch \/ OnItsWayTo(u, n)
        BY <2>2, <3>1 DEF FeedInv, NothingFalls
      <3> QED
        BY <1>1, <3>1, <3>2 DEF Feed!Seen, OnItsWayTo
    <2> QED
      BY <1>1, <2>1, <2>2 DEF NothingFalls
  <1> QED
    BY <1>9, <1>11, <1>12 DEF FeedInv

\* handleFrame(): what arrives is seen, and the rest stays on its way.
LEMMA ReceiveKeeps ==
  ASSUME FeedInv, NEW t \in Tabs, Feed!Receive(t)
  PROVE  FeedInv'
  <1> DEFINE d == down[t]
             f == Head(d)
  <1>t. Feed!TypeOK
    BY DEF FeedInv
  <1>c. MaxSeq \in Nat /\ latest \in 0..MaxSeq /\ d \in Seq(Feed!FrameType) /\ d # <<>>
    BY <1>t, PageAssumption DEF Feed!TypeOK, Feed!FeedAssumption, Feed!Receive
  <1>1. /\ down' = [down EXCEPT ![t] = Tail(d)]
        /\ \/ /\ f.kind = "delta" /\ cursor' = [cursor EXCEPT ![t] = f.seq]
              /\ saving' = [saving EXCEPT ![t] = TRUE]
              /\ got' = [got EXCEPT ![t] = @ \cup f.events] /\ seeded' = seeded
           \/ /\ f.kind # "delta" /\ seeded' = [seeded EXCEPT ![t] = f.seq]
              /\ UNCHANGED <<cursor, saving, got>>
        /\ UNCHANGED <<latest, oldest, batch, armed, socket, hello, cursorLoaded, stored, from,
                       breaks>>
    BY DEF Feed!Receive, Feed!gatewayVars
  <1>2. \A u \in Tabs : down'[u] = IF u = t THEN Tail(d) ELSE down[u]
    BY <1>t, <1>1 DEF Feed!TypeOK
  <1>s. \A i \in 1..Len(d) :
          d[i].kind = "snapshot" =>
            /\ seeded[t] <= d[i].seq /\ d[i].seq <= latest
            /\ \A j \in 1..i : d[j].kind = "snapshot" => d[j].seq <= d[i].seq
    BY DEF FeedInv, SnapshotsGrow
  <1> HIDE DEF d
  <1>3. /\ Tail(d) \in Seq(Feed!FrameType) /\ f = d[1] /\ 1 \in 1..Len(d) /\ d[1] \in Feed!FrameType
        /\ Len(Tail(d)) = Len(d) - 1 /\ Len(d) \in Nat
        /\ \A i \in 1..Len(Tail(d)) : i + 1 \in 1..Len(d) /\ Tail(d)[i] = d[i + 1]
    BY <1>c
  <1> HIDE DEF f
  <1>4. /\ f.seq \in 0..MaxSeq /\ f.events \in SUBSET Feed!Seqs
        /\ f.kind # "delta" => f.kind = "snapshot" /\ f.seq <= latest /\ seeded[t] <= f.seq
    <2>1. f \in Feed!FrameType
      BY <1>3
    <2>2. f.seq \in 0..MaxSeq /\ f.events \in SUBSET Feed!Seqs /\ f.kind \in {"delta", "snapshot"}
      BY <2>1 DEF Feed!FrameType
    <2> QED
      BY <2>2, <1>3, <1>s
  <1>5. Feed!TypeOK'
    <2>1. /\ cursor' \in [Tabs -> 0..MaxSeq] /\ seeded' \in [Tabs -> 0..MaxSeq]
          /\ got' \in [Tabs -> SUBSET Feed!Seqs] /\ saving' \in [Tabs -> BOOLEAN]
      <3>0. /\ cursor \in [Tabs -> 0..MaxSeq] /\ seeded \in [Tabs -> 0..MaxSeq]
            /\ got \in [Tabs -> SUBSET Feed!Seqs] /\ saving \in [Tabs -> BOOLEAN]
        BY <1>t DEF Feed!TypeOK
      <3>1. CASE f.kind = "delta"
        <4>1. /\ cursor' = [cursor EXCEPT ![t] = f.seq] /\ saving' = [saving EXCEPT ![t] = TRUE]
              /\ got' = [got EXCEPT ![t] = @ \cup f.events] /\ seeded' = seeded
          BY <1>1, <3>1
        <4>2. cursor' \in [Tabs -> 0..MaxSeq]
          BY <1>4, <3>0, <4>1
        <4>3. got' \in [Tabs -> SUBSET Feed!Seqs]
          BY <1>4, <3>0, <4>1
        <4>4. saving' \in [Tabs -> BOOLEAN]
          BY <3>0, <4>1
        <4> QED
          BY <3>0, <4>1, <4>2, <4>3, <4>4
      <3>2. CASE f.kind # "delta"
        <4>1. seeded' = [seeded EXCEPT ![t] = f.seq] /\ UNCHANGED <<cursor, saving, got>>
          BY <1>1, <3>2
        <4>2. seeded' \in [Tabs -> 0..MaxSeq]
          BY <1>4, <3>0, <4>1
        <4> QED
          BY <3>0, <4>1, <4>2
      <3> QED
        BY <3>1, <3>2
    <2>2. down' \in [Tabs -> Seq(Feed!FrameType)]
      BY <1>t, <1>1, <1>3 DEF Feed!TypeOK
    <2> QED
      BY <1>t, <1>1, <2>1, <2>2 DEF Feed!TypeOK
  <1>6. /\ \A u \in Tabs : seeded[u] \in Nat /\ seeded[u] <= latest
        /\ seeded'[t] = (IF f.kind = "delta" THEN seeded[t] ELSE f.seq)
        /\ \A u \in Tabs : u # t => seeded'[u] = seeded[u] /\ got'[u] = got[u]
        /\ got'[t] = IF f.kind = "delta" THEN got[t] \cup f.events ELSE got[t]
    <2>1. \A u \in Tabs : seeded[u] \in Nat /\ seeded[u] <= latest
      BY <1>t, <1>c DEF Feed!TypeOK, FeedInv, SnapshotsGrow
    <2>2. CASE f.kind = "delta"
      BY <1>t, <1>1, <2>1, <2>2 DEF Feed!TypeOK
    <2>3. CASE f.kind # "delta"
      BY <1>t, <1>1, <2>1, <2>3 DEF Feed!TypeOK
    <2> QED
      BY <2>2, <2>3
  <1>7. SnapshotsGrow'
    <2>1. seeded'[t] <= latest
      BY <1>4, <1>6
    <2>2. ASSUME NEW i \in 1..Len(Tail(d)), Tail(d)[i].kind = "snapshot"
          PROVE  /\ seeded'[t] <= Tail(d)[i].seq /\ Tail(d)[i].seq <= latest
                 /\ \A j \in 1..i : Tail(d)[j].kind = "snapshot" => Tail(d)[j].seq <= Tail(d)[i].seq
      <3>1. i + 1 \in 1..Len(d) /\ Tail(d)[i] = d[i + 1] /\ i \in Nat
        BY <1>3
      <3>2. /\ seeded[t] <= d[i + 1].seq /\ d[i + 1].seq <= latest
            /\ \A j \in 1..(i + 1) : d[j].kind = "snapshot" => d[j].seq <= d[i + 1].seq
        BY <1>s, <2>2, <3>1
      <3>3. \A j \in 1..i : j + 1 \in 1..(i + 1) /\ Tail(d)[j] = d[j + 1]
        BY <1>3, <3>1
      <3>4. f.kind # "delta" => f.seq <= d[i + 1].seq
        <4>1. 1 \in 1..(i + 1)
          BY <3>1
        <4> QED
          BY <1>3, <1>4, <3>2, <4>1
      <3> QED
        BY <1>6, <3>1, <3>2, <3>3, <3>4
    <2>3. \A u \in Tabs : u # t => seeded'[u] = seeded[u] /\ down'[u] = down[u]
      BY <1>2, <1>6
    <2>4. down'[t] = Tail(d) /\ latest' = latest
      BY <1>1, <1>2
    <2> HIDE DEF f
    <2>5. ASSUME NEW u \in Tabs
          PROVE  /\ seeded'[u] <= latest'
                 /\ \A i \in 1..Len(down'[u]) :
                      down'[u][i].kind = "snapshot" =>
                        /\ seeded'[u] <= down'[u][i].seq /\ down'[u][i].seq <= latest'
                        /\ \A j \in 1..i :
                             down'[u][j].kind = "snapshot" => down'[u][j].seq <= down'[u][i].seq
      <3>1. CASE u = t
        BY <2>1, <2>2, <2>4, <3>1
      <3>2. CASE u # t
        BY <2>3, <2>4, <3>2 DEF FeedInv, SnapshotsGrow
      <3> QED
        BY <3>1, <3>2
    <2> QED
      BY <2>5 DEF SnapshotsGrow
  <1>8. NothingFalls'
    <2>1. ASSUME NEW u \in Tabs, socket'[u] = "ready", NEW n \in (hello'[u] + 1)..latest'
          PROVE  Feed!Seen(u, n)' \/ n \in batch' \/ OnItsWayTo(u, n)'
      <3>1. Feed!Seen(u, n) \/ n \in batch \/ OnItsWayTo(u, n)
        BY <1>1, <2>1 DEF FeedInv, NothingFalls
      <3>2. CASE u # t
        BY <1>1, <1>2, <1>6, <3>1, <3>2 DEF Feed!Seen, OnItsWayTo
      <3>3. CASE u = t
        <4>n. n \in Nat
          BY <1>t, <1>1, <1>c DEF Feed!TypeOK
        <4>1. Feed!Seen(t, n) => Feed!Seen(t, n)'
          BY <1>4, <1>6, <4>n DEF Feed!Seen
        <4>2. ASSUME OnItsWayTo(t, n) PROVE Feed!Seen(t, n)' \/ OnItsWayTo(t, n)'
          <5>1. PICK i \in 1..Len(d) : \/ d[i].kind = "delta" /\ n \in d[i].events
                                       \/ d[i].kind = "snapshot" /\ n <= d[i].seq
            BY <4>2 DEF OnItsWayTo, d
          <5>2. CASE i = 1
            <6>1. d[i] = f
              BY <1>3, <5>2
            <6>2. (f.kind = "delta" /\ n \in f.events) \/ (f.kind = "snapshot" /\ n <= f.seq)
              BY <5>1, <6>1
            <6> QED
              BY <1>6, <6>2 DEF Feed!Seen
          <5>3. CASE i # 1
            <6>1. i - 1 \in 1..Len(Tail(d)) /\ Tail(d)[i - 1] = d[i]
              BY <1>3, <5>3
            <6>2. down'[t] = Tail(d)
              BY <1>2
            <6> QED
              BY <5>1, <6>1, <6>2 DEF OnItsWayTo
          <5> QED
            BY <5>2, <5>3
        <4> QED
          BY <1>1, <3>1, <3>3, <4>1, <4>2
      <3> QED
        BY <3>2, <3>3
    <2> QED
      BY <2>1 DEF NothingFalls
  <1> QED
    BY <1>5, <1>7, <1>8 DEF FeedInv

\* A socket that closes, a page that is loaded again, a cursor that is saved and a gateway that
\* restarts take nothing from a tab that stays.
LEMMA BreaksKeep ==
  ASSUME FeedInv,
         \/ \E t \in Tabs : Feed!SaveFires(t) \/ Feed!Closes(t) \/ Feed!Reload(t)
         \/ Feed!Restart \/ \E n \in Feed!Seqs : Feed!Prune(n)
  PROVE  FeedInv'
  <1>t. Feed!TypeOK
    BY DEF FeedInv
  <1>c. MaxSeq \in Nat /\ latest \in Nat /\ MaxBreaks \in Nat
    BY <1>t, PageAssumption DEF Feed!TypeOK, Feed!FeedAssumption
  <1>0. ASSUME latest' = latest,
               \A t \in Tabs : \/ /\ seeded'[t] = seeded[t] /\ down'[t] = down[t]
                                  /\ got'[t] = got[t]
                                 /\ socket'[t] = socket[t] /\ hello'[t] = hello[t]
                                 /\ batch' = batch
                              \/ /\ seeded'[t] = 0 \/ seeded'[t] = seeded[t]
                                 /\ down'[t] = <<>> /\ socket'[t] # "ready"
        PROVE  SnapshotsGrow' /\ NothingFalls'
    <2>1. ASSUME NEW t \in Tabs
          PROVE  /\ seeded'[t] <= latest
                 /\ \A i \in 1..Len(down'[t]) :
                      down'[t][i].kind = "snapshot" =>
                        /\ seeded'[t] <= down'[t][i].seq /\ down'[t][i].seq <= latest
                        /\ \A j \in 1..i :
                             down'[t][j].kind = "snapshot" => down'[t][j].seq <= down'[t][i].seq
      <3>1. CASE down'[t] = <<>>
        <4>1. seeded'[t] = 0 \/ seeded'[t] = seeded[t]
          BY <1>0
        <4>2. seeded'[t] <= latest
          BY <1>c, <4>1 DEF FeedInv, SnapshotsGrow
        <4> QED
          BY <3>1, <4>2
      <3>2. CASE down'[t] # <<>>
        BY <1>0, <3>2 DEF FeedInv, SnapshotsGrow
      <3> QED
        BY <3>1, <3>2
    <2>2. ASSUME NEW t \in Tabs, socket'[t] = "ready", NEW n \in (hello'[t] + 1)..latest'
          PROVE  Feed!Seen(t, n)' \/ n \in batch' \/ OnItsWayTo(t, n)'
      <3>1. /\ seeded'[t] = seeded[t] /\ down'[t] = down[t] /\ got'[t] = got[t]
            /\ socket[t] = "ready" /\ hello'[t] = hello[t] /\ batch' = batch
        BY <1>0, <2>2
      <3>2. Feed!Seen(t, n) \/ n \in batch \/ OnItsWayTo(t, n)
        BY <1>0, <2>2, <3>1 DEF FeedInv, NothingFalls
      <3> QED
        BY <3>1, <3>2 DEF Feed!Seen, OnItsWayTo
    <2> QED
      BY <1>0, <2>1, <2>2 DEF SnapshotsGrow, NothingFalls
  <1>1. ASSUME NEW t \in Tabs, Feed!SaveFires(t) PROVE FeedInv'
    <2>1. /\ saving' = [saving EXCEPT ![t] = FALSE] /\ stored' \in {stored, cursor[t]}
          /\ UNCHANGED <<latest, oldest, batch, armed, socket, hello, down, cursor, cursorLoaded,
                         from, got, seeded, breaks>>
      BY <1>1 DEF Feed!SaveFires, Feed!gatewayVars, Feed!linkVars
    <2>2. Feed!TypeOK'
      BY <1>t, <2>1 DEF Feed!TypeOK
    <2> QED
      BY <1>0, <2>1, <2>2 DEF FeedInv
  <1>2. ASSUME NEW n \in Feed!Seqs, Feed!Prune(n) PROVE FeedInv'
    <2>1. /\ oldest' = n
          /\ UNCHANGED <<latest, batch, armed, socket, hello, down, cursor, cursorLoaded, saving,
                         stored, from, got, seeded, breaks>>
      BY <1>2 DEF Feed!Prune, Feed!linkVars, Feed!tabVars
    <2>2. n \in 1..(MaxSeq + 1)
      BY <1>c DEF Feed!Seqs
    <2>3. Feed!TypeOK'
      BY <1>t, <2>1, <2>2 DEF Feed!TypeOK
    <2> QED
      BY <1>0, <2>1, <2>3 DEF FeedInv
  <1>b. Feed!Break => breaks' \in 0..MaxBreaks
    BY <1>t, <1>c DEF Feed!Break, Feed!TypeOK
  <1>e. <<>> \in Seq(Feed!FrameType) /\ 0 \in 0..MaxSeq
    BY <1>c
  <1>3. ASSUME NEW t \in Tabs, Feed!Closes(t) PROVE FeedInv'
    <2>1. /\ socket' = [socket EXCEPT ![t] = "off"] /\ down' = [down EXCEPT ![t] = <<>>]
          /\ saving' = [saving EXCEPT ![t] = FALSE] /\ stored' \in {stored, cursor[t]}
          /\ UNCHANGED <<latest, oldest, batch, armed, hello, cursor, cursorLoaded, from, got,
                         seeded>>
          /\ breaks' \in 0..MaxBreaks
      BY <1>3, <1>b DEF Feed!Closes, Feed!gatewayVars
    <2>2. Feed!TypeOK'
      BY <1>t, <1>e, <2>1 DEF Feed!TypeOK
    <2>3. \A u \in Tabs : /\ u # t => down'[u] = down[u] /\ socket'[u] = socket[u]
                         /\ down'[t] = <<>> /\ socket'[t] = "off"
      BY <1>t, <2>1 DEF Feed!TypeOK
    <2> QED
      BY <1>0, <2>1, <2>2, <2>3 DEF FeedInv
  <1>4. ASSUME NEW t \in Tabs, Feed!Reload(t) PROVE FeedInv'
    <2>1. /\ socket' = [socket EXCEPT ![t] = "off"] /\ down' = [down EXCEPT ![t] = <<>>]
          /\ cursor' = [cursor EXCEPT ![t] = 0]
          /\ cursorLoaded' = [cursorLoaded EXCEPT ![t] = FALSE]
          /\ saving' = [saving EXCEPT ![t] = FALSE]
          /\ from' = [from EXCEPT ![t] = 0] /\ seeded' = [seeded EXCEPT ![t] = 0]
          /\ got' = [got EXCEPT ![t] = {}]
          /\ UNCHANGED <<latest, oldest, batch, armed, hello, stored>>
          /\ breaks' \in 0..MaxBreaks
      BY <1>4, <1>b DEF Feed!Reload, Feed!gatewayVars
    <2>2. Feed!TypeOK'
      BY <1>t, <1>e, <2>1 DEF Feed!TypeOK
    <2>3. \A u \in Tabs : /\ u # t => /\ down'[u] = down[u] /\ socket'[u] = socket[u]
                                     /\ seeded'[u] = seeded[u] /\ got'[u] = got[u]
                         /\ down'[t] = <<>> /\ socket'[t] = "off" /\ seeded'[t] = 0
      BY <1>t, <2>1 DEF Feed!TypeOK
    <2> QED
      BY <1>0, <2>1, <2>2, <2>3 DEF FeedInv
  <1>5. ASSUME Feed!Restart PROVE FeedInv'
    <2>1. /\ batch' = {} /\ armed' = FALSE
          /\ socket' = [t \in Tabs |-> "off"] /\ down' = [t \in Tabs |-> <<>>]
          /\ saving' = [t \in Tabs |-> saving[t] /\ socket[t] = "off"]
          /\ stored' \in {stored} \cup {cursor[t] : t \in {t \in Tabs : saving[t]}}
          /\ UNCHANGED <<latest, oldest, hello, cursor, cursorLoaded, from, got, seeded>>
          /\ breaks' \in 0..MaxBreaks
      BY <1>5, <1>b DEF Feed!Restart
    <2>2. stored' \in 0..MaxSeq
      BY <1>t, <2>1 DEF Feed!TypeOK
    <2>3. Feed!TypeOK'
      BY <1>t, <1>e, <2>1, <2>2 DEF Feed!TypeOK
    <2> QED
      BY <1>0, <2>1, <2>3 DEF FeedInv
  <1> QED
    BY <1>1, <1>2, <1>3, <1>4, <1>5

\* Every step of the feed keeps it.
LEMMA FeedInvStep ==
  ASSUME FeedInv, [Feed!Next]_(Feed!vars)
  PROVE  FeedInv'
  <1>1. CASE UNCHANGED Feed!vars
    BY <1>1
    DEF Feed!vars, Feed!gatewayVars, Feed!linkVars, Feed!tabVars, FeedInv, Feed!TypeOK,
        SnapshotsGrow, NothingFalls, OnItsWayTo, Feed!Seen
  <1>2. CASE Feed!Next
    BY <1>2, EmitKeeps, FlushKeeps, HelloKeeps, ReceiveKeeps, BreaksKeep DEF Feed!Next
  <1> QED
    BY <1>1, <1>2

\* CaughtUp: no event falls between the answer to a hello, the batch and the urgent frames.
THEOREM NoEventFalls == PageSpec => []CaughtUp
  <1>1. PageInit => FeedInv
    BY PartsBegin, FeedInvBegins
  <1>2. FeedInv /\ [PageNext]_vars => FeedInv'
    BY PartsStep, FeedInvStep
  <1>3. FeedInv => CaughtUp
    <2> SUFFICES ASSUME FeedInv, NEW t \in Tabs, socket[t] = "ready", down[t] = <<>>, batch = {},
                        NEW n \in (hello[t] + 1)..latest
                 PROVE  Feed!Seen(t, n)
      BY DEF CaughtUp, Feed!CaughtUp
    <2> QED
      BY DEF FeedInv, NothingFalls, OnItsWayTo
  <1> QED
    BY <1>1, <1>2, <1>3, PTL DEF PageSpec

------------------------------------------------------------------------------------
(* The linking of devices. *)

\* Who is or was in a room is on a device, and a partner on another.
OnDevices ==
  \A v \in Visits :
    /\ v \in inside => device[v] # Pairing!None
    /\ partner[v] # Pairing!None =>
         /\ device[v] # Pairing!None /\ device[partner[v]] # Pairing!None
         /\ device[v] # device[partner[v]]

\* Whoever has approved vouches for the partner, and whoever has a grant is vouched for by it.
GrantsVouch ==
  /\ \A v \in Visits :
       /\ v \in approved => partner[v] # Pairing!None /\ <<v, partner[v]>> \in vouched
       /\ v \in received => partner[v] # Pairing!None /\ <<partner[v], v>> \in vouched
  /\ \A m \in wire : <<m[2], m[3]>> \in vouched

\* Data was taken of other devices, by users who approved each other.
TakenOfOthers ==
  \A v \in Visits : \A w \in taken[v] :
    /\ device[v] # Pairing!None /\ device[w] # Pairing!None /\ device[v] # device[w]
    /\ <<v, w>> \in vouched /\ <<w, v>> \in vouched

\* DataNeedsBoth with what makes it inductive.
PairInv == Pairing!TypeOK /\ OnDevices /\ GrantsVouch /\ TakenOfOthers

\* It holds in the beginning.
LEMMA PairInvBegins == Pairing!Init => PairInv
  <1> SUFFICES ASSUME Pairing!Init PROVE PairInv
    OBVIOUS
  <1>1. 0 \in 0..RevisitMax
    BY PageAssumption DEF Pairing!PairingAssumption
  <1>2. Pairing!TypeOK
    BY <1>1 DEF Pairing!Init, Pairing!TypeOK
  <1>3. OnDevices /\ GrantsVouch
    BY DEF Pairing!Init, OnDevices, GrantsVouch
  <1>4. TakenOfOthers
    BY DEF Pairing!Init, TakenOfOthers
  <1> QED
    BY <1>2, <1>3, <1>4 DEF PairInv

\* The effect of being linked takes only what both approved.
LEMMA TakesWhatWaited ==
  ASSUME PairInv, NEW v \in Visits, partner[v] # Pairing!None, Pairing!TakeWaiting(v),
         UNCHANGED <<device, partner>>, vouched \subseteq vouched',
         v \in approved' => <<v, partner[v]>> \in vouched',
         v \in received' => <<partner[v], v>> \in vouched'
  PROVE  /\ taken' \in [Visits -> SUBSET Visits] /\ waiting' \in SUBSET Visits
         /\ TakenOfOthers'
  <1>t. /\ Pairing!TypeOK /\ partner[v] \in Visits
        /\ taken \in [Visits -> SUBSET Visits] /\ waiting \in SUBSET Visits
    BY DEF PairInv, Pairing!TypeOK
  <1>1. CASE taken' = taken /\ waiting' = waiting
    BY <1>t, <1>1 DEF PairInv, TakenOfOthers
  <1>2. CASE /\ v \in approved' /\ v \in received'
             /\ taken' = [taken EXCEPT ![v] = @ \cup {partner[v]}] /\ waiting' = waiting \ {v}
    <2>1. taken' \in [Visits -> SUBSET Visits] /\ waiting' \in SUBSET Visits
      BY <1>t, <1>2
    <2>2. \A u \in Visits : \A w \in taken'[u] : w \in taken[u] \/ (u = v /\ w = partner[v])
      BY <1>t, <1>2
    <2>3. /\ device[v] # Pairing!None /\ device[partner[v]] # Pairing!None
          /\ device[v] # device[partner[v]]
      BY DEF PairInv, OnDevices
    <2>4. ASSUME NEW u \in Visits, NEW w \in taken'[u]
          PROVE  /\ device'[u] # Pairing!None /\ device'[w] # Pairing!None
                 /\ device'[u] # device'[w]
                 /\ <<u, w>> \in vouched' /\ <<w, u>> \in vouched'
      <3>1. CASE w \in taken[u]
        BY <3>1 DEF PairInv, TakenOfOthers
      <3>2. CASE u = v /\ w = partner[v]
        BY <1>2, <2>3, <3>2
      <3> QED
        BY <2>2, <2>4, <3>1, <3>2
    <2> QED
      BY <2>1, <2>4 DEF TakenOfOthers
  <1> QED
    BY <1>1, <1>2 DEF Pairing!TakeWaiting

\* Every step of the pairing keeps it.
LEMMA PairInvStep ==
  ASSUME PairInv, [Pairing!Next]_(Pairing!pairVars)
  PROVE  PairInv'
  <1>t. Pairing!TypeOK
    BY DEF PairInv
  <1>n. Pairing!None \notin Visits /\ Pairing!None \notin Devices
    BY PageAssumption DEF Pairing!PairingAssumption
  <1>1. CASE UNCHANGED Pairing!pairVars
    BY <1>1
    DEF Pairing!pairVars, PairInv, Pairing!TypeOK, OnDevices, GrantsVouch, TakenOfOthers
  <1>2. ASSUME NEW v \in Visits, NEW q \in Visits, Pairing!Open(v, q) PROVE PairInv'
    <2>1. PICK d \in Devices :
            /\ device[v] = Pairing!None /\ device' = [device EXCEPT ![v] = d]
            /\ shared' = [shared EXCEPT ![v] = q] /\ inside' = inside \cup {v}
            /\ UNCHANGED <<partner, approved, received, waiting, taken, wire, revisits, vouched>>
      BY <1>2 DEF Pairing!Open
    <2>2. Pairing!TypeOK'
      BY <1>t, <2>1 DEF Pairing!TypeOK
    <2>3. \A u \in Visits : /\ u # v => device'[u] = device[u]
                            /\ device'[v] # Pairing!None
      BY <1>t, <1>n, <2>1 DEF Pairing!TypeOK
    <2>4. \A u \in Visits :
            partner[u] # Pairing!None => u # v /\ partner[u] # v /\ partner[u] \in Visits
      BY <1>t, <2>1 DEF PairInv, OnDevices, Pairing!TypeOK
    <2>5. OnDevices'
      BY <2>1, <2>3, <2>4 DEF PairInv, OnDevices
    <2>6. GrantsVouch'
      BY <2>1 DEF PairInv, GrantsVouch
    <2>7. \A u \in Visits : \A w \in taken[u] : u # v /\ w # v /\ w \in Visits
      BY <1>t, <2>1 DEF PairInv, TakenOfOthers, Pairing!TypeOK
    <2>8. TakenOfOthers'
      BY <2>1, <2>3, <2>7 DEF PairInv, TakenOfOthers
    <2> QED
      BY <2>2, <2>5, <2>6, <2>8 DEF PairInv
  <1>3. ASSUME NEW v \in Visits, Pairing!Leave(v) PROVE PairInv'
    <2>1. /\ inside' \subseteq inside /\ wire' \subseteq wire
          /\ UNCHANGED <<device, shared, partner, approved, received, waiting, taken, revisits,
                         vouched>>
      BY <1>3 DEF Pairing!Leave
    <2>2. Pairing!TypeOK'
      BY <1>t, <2>1 DEF Pairing!TypeOK
    <2> QED
      BY <2>1, <2>2 DEF PairInv, OnDevices, GrantsVouch, TakenOfOthers
  <1>4. ASSUME NEW v \in Visits, Pairing!Revisit(v) PROVE PairInv'
    <2>1. /\ device[v] # Pairing!None
          /\ inside' = inside \cup {v} /\ partner' = [partner EXCEPT ![v] = Pairing!None]
          /\ approved' = approved \ {v} /\ received' = received \ {v} /\ waiting' = waiting \ {v}
          /\ UNCHANGED <<device, shared, taken, wire, vouched>>
      BY <1>4 DEF Pairing!Revisit
    <2>2. revisits' \in 0..RevisitMax
      BY <1>4, <1>t, PageAssumption DEF Pairing!Revisit, Pairing!TypeOK, Pairing!PairingAssumption
    <2>3. Pairing!TypeOK'
      BY <1>t, <2>1, <2>2 DEF Pairing!TypeOK
    <2>4. \A u \in Visits : partner'[u] = IF u = v THEN Pairing!None ELSE partner[u]
      BY <1>t, <2>1 DEF Pairing!TypeOK
    <2>5. OnDevices'
      BY <2>1, <2>4 DEF PairInv, OnDevices
    <2>6. GrantsVouch'
      BY <2>1, <2>4 DEF PairInv, GrantsVouch
    <2> QED
      BY <2>1, <2>3, <2>5, <2>6 DEF PairInv, TakenOfOthers
  <1>5. ASSUME NEW v \in Visits, NEW w \in Visits, Pairing!ReceiveHello(v, w) PROVE PairInv'
    <2>1. /\ v \in inside /\ w \in inside /\ device[v] # device[w]
          /\ partner[v] = Pairing!None /\ partner' = [partner EXCEPT ![v] = w]
          /\ UNCHANGED <<device, shared, inside, approved, received, waiting, taken, wire, revisits,
                         vouched>>
      BY <1>5 DEF Pairing!ReceiveHello, Pairing!Together
    <2>2. Pairing!TypeOK'
      BY <1>t, <2>1 DEF Pairing!TypeOK
    <2>3. \A u \in Visits : partner'[u] = IF u = v THEN w ELSE partner[u]
      BY <1>t, <2>1 DEF Pairing!TypeOK
    <2>4. device[v] # Pairing!None /\ device[w] # Pairing!None
      BY <2>1 DEF PairInv, OnDevices
    <2>5. OnDevices'
      BY <2>1, <2>3, <2>4 DEF PairInv, OnDevices
    <2>6. v \notin approved /\ v \notin received
      BY <2>1 DEF PairInv, GrantsVouch
    <2>7. GrantsVouch'
      BY <1>n, <2>1, <2>3, <2>6 DEF PairInv, GrantsVouch
    <2> QED
      BY <2>1, <2>2, <2>5, <2>7 DEF PairInv, TakenOfOthers
  <1>6. ASSUME NEW v \in Visits, Pairing!Approve(v) PROVE PairInv'
    <2>1. /\ partner[v] # Pairing!None
          /\ approved' = approved \cup {v} /\ vouched' = vouched \cup {<<v, partner[v]>>}
          /\ wire' = wire \/ wire' = wire \cup {<<"grant", v, partner[v]>>}
          /\ received' = received /\ Pairing!TakeWaiting(v)
          /\ UNCHANGED <<device, shared, inside, partner, revisits>>
      BY <1>6 DEF Pairing!Approve, Pairing!Send
    <2>2. partner[v] \in Visits
      BY <1>t, <2>1 DEF Pairing!TypeOK
    <2>3. v \in received' => <<partner[v], v>> \in vouched'
      BY <2>1 DEF PairInv, GrantsVouch
    <2>4. <<v, partner[v]>> \in vouched' /\ vouched \subseteq vouched'
      BY <2>1
    <2>5. /\ taken' \in [Visits -> SUBSET Visits] /\ waiting' \in SUBSET Visits
          /\ TakenOfOthers'
      BY <2>1, <2>3, <2>4, TakesWhatWaited
    <2>6. wire' \subseteq {"grant", "sync"} \X Visits \X Visits
      BY <1>t, <2>1, <2>2 DEF Pairing!TypeOK
    <2>7. Pairing!TypeOK'
      BY <1>t, <2>1, <2>2, <2>5, <2>6 DEF Pairing!TypeOK
    <2>8. OnDevices'
      BY <2>1 DEF PairInv, OnDevices
    <2>9. GrantsVouch'
      BY <2>1, <2>3, <2>4 DEF PairInv, GrantsVouch
    <2> QED
      BY <2>5, <2>7, <2>8, <2>9 DEF PairInv
  <1>7. ASSUME NEW v \in Visits, NEW w \in Visits, Pairing!ReceiveGrant(v, w) PROVE PairInv'
    <2>1. /\ <<"grant", w, v>> \in wire /\ wire' = wire \ {<<"grant", w, v>>}
          /\ partner[v] = w /\ received' = received \cup {v}
          /\ approved' = approved /\ Pairing!TakeWaiting(v)
          /\ UNCHANGED <<device, shared, inside, partner, revisits, vouched>>
      BY <1>7 DEF Pairing!ReceiveGrant
    <2>2. partner[v] # Pairing!None
      BY <1>n, <2>1
    <2>3. <<w, v>> \in vouched
      <3> DEFINE m == <<"grant", w, v>>
      <3>1. m \in wire /\ m[2] = w /\ m[3] = v
        BY <2>1
      <3> HIDE DEF m
      <3> QED
        BY <3>1 DEF PairInv, GrantsVouch
    <2>4. v \in approved' => <<v, partner[v]>> \in vouched'
      BY <2>1 DEF PairInv, GrantsVouch
    <2>5. /\ taken' \in [Visits -> SUBSET Visits] /\ waiting' \in SUBSET Visits
          /\ TakenOfOthers'
      BY <2>1, <2>2, <2>3, <2>4, TakesWhatWaited
    <2>6. Pairing!TypeOK'
      BY <1>t, <2>1, <2>5 DEF Pairing!TypeOK
    <2>7. OnDevices'
      BY <2>1 DEF PairInv, OnDevices
    <2>8. GrantsVouch'
      BY <2>1, <2>2, <2>3 DEF PairInv, GrantsVouch
    <2> QED
      BY <2>5, <2>6, <2>7, <2>8 DEF PairInv
  <1>8. ASSUME NEW v \in Visits, Pairing!SendSync(v) PROVE PairInv'
    <2>1. /\ v \in approved
          /\ wire' = wire \/ wire' = wire \cup {<<"sync", v, partner[v]>>}
          /\ UNCHANGED <<device, shared, inside, partner, approved, received, waiting, taken,
                         revisits, vouched>>
      BY <1>8 DEF Pairing!SendSync, Pairing!Send, Pairing!Linked
    <2>2. partner[v] \in Visits /\ <<v, partner[v]>> \in vouched
      BY <1>t, <2>1, <1>8 DEF PairInv, GrantsVouch, Pairing!TypeOK, Pairing!SendSync, Pairing!Linked
    <2>3. Pairing!TypeOK'
      BY <1>t, <2>1, <2>2 DEF Pairing!TypeOK
    <2> QED
      BY <2>1, <2>2, <2>3 DEF PairInv, OnDevices, GrantsVouch, TakenOfOthers
  <1>9. ASSUME NEW v \in Visits, NEW w \in Visits, Pairing!ReceiveSync(v, w) PROVE PairInv'
    <2>1. /\ wire' \subseteq wire /\ partner[v] = w
          /\ \/ /\ v \in approved /\ v \in received
                /\ taken' = [taken EXCEPT ![v] = @ \cup {w}] /\ waiting' = waiting
             \/ waiting' = waiting \cup {v} /\ taken' = taken
          /\ UNCHANGED <<device, shared, inside, partner, approved, received, revisits, vouched>>
      BY <1>9 DEF Pairing!ReceiveSync, Pairing!Linked
    <2>2. Pairing!TypeOK'
      BY <1>t, <2>1 DEF Pairing!TypeOK
    <2>3. OnDevices' /\ GrantsVouch'
      BY <2>1 DEF PairInv, OnDevices, GrantsVouch
    <2>4. TakenOfOthers'
      <3>1. CASE taken' = taken
        BY <2>1, <3>1 DEF PairInv, TakenOfOthers
      <3>2. CASE /\ v \in approved /\ v \in received /\ taken' = [taken EXCEPT ![v] = @ \cup {w}]
        <4>1. \A u \in Visits : \A x \in taken'[u] : x \in taken[u] \/ (u = v /\ x = w)
          BY <1>t, <3>2 DEF Pairing!TypeOK
        <4>2. /\ device[v] # Pairing!None /\ device[w] # Pairing!None /\ device[v] # device[w]
              /\ <<v, w>> \in vouched /\ <<w, v>> \in vouched
          BY <1>n, <2>1, <3>2 DEF PairInv, OnDevices, GrantsVouch
        <4> QED
          BY <2>1, <4>1, <4>2 DEF PairInv, TakenOfOthers
      <3> QED
        BY <2>1, <3>1, <3>2
    <2> QED
      BY <2>2, <2>3, <2>4 DEF PairInv
  <1> QED
    BY <1>1, <1>2, <1>3, <1>4, <1>5, <1>6, <1>7, <1>8, <1>9 DEF Pairing!Next

\* DataNeedsBoth: a device has data of another only after the user of each approved the other.
THEOREM DataMovesOnceApproved == PageSpec => []DataNeedsBoth
  <1>1. PageInit => PairInv
    BY PartsBegin, PairInvBegins
  <1>2. PairInv /\ [PageNext]_vars => PairInv'
    BY PartsStep, PairInvStep
  <1>3. PairInv => DataNeedsBoth
    BY DEF PairInv, GrantsVouch, TakenOfOthers, DataNeedsBoth, Pairing!DataNeedsBoth
  <1> QED
    BY <1>1, <1>2, <1>3, PTL DEF PageSpec

------------------------------------------------------------------------------------
(* The matching of seekers.  The phases of the sockets, ph, are a parameter here, so that what *)
(* is said of a state of the relay can be said of one between two commands.                     *)

\* What the relay is made of, with as many proposals as it can make.
Records ==
  [seeking : [Pools -> SUBSET Clients], match : [1..MatchMax -> Matching!Proposals],
   pending : [Clients -> 0..MatchMax], made : 0..MatchMax,
   wanted : SUBSET (Clients \X Pools), crossed : SUBSET Clients]

\* s waits in pool p, as a seeker or in a proposal.
Waits(r, s, p) ==
  s \in r.seeking[p] \/ \E i \in 1..MatchMax : r.match[i].pool = p /\ s \in r.match[i].sides

\* A client in a proposal is in no other and does not seek in that pool, and the relay knows it
\* by the proposal; who waits has set a seek, and who is gone has not.
Orderly(r, ph) ==
  /\ r \in Records
  /\ \A i \in 1..MatchMax : r.match[i].sides # {} => i <= r.made
  /\ \A s \in Clients : r.pending[s] # 0 => s \in r.match[r.pending[s]].sides
  /\ \A s \in Clients \ r.crossed : \A i \in 1..MatchMax :
       s \in r.match[i].sides =>
         /\ r.pending[s] = i /\ s \notin r.seeking[r.match[i].pool]
         /\ <<s, r.match[i].pool>> \in r.wanted
  /\ \A s \in Clients \ r.crossed : \A p \in Pools : s \in r.seeking[p] => <<s, p>> \in r.wanted
  /\ \A s \in Clients : \A p \in Pools : ph[s] = "closed" => <<s, p>> \notin r.wanted

\* Who has set a seek waits, but for the clients of X in pool p, who wait nowhere in it.
NoneLost(r, ph, X, p) ==
  /\ \A s \in Clients \ r.crossed : \A q \in Pools :
       ph[s] # "closing" /\ <<s, q>> \in r.wanted => Waits(r, s, q) \/ (s \in X /\ q = p)
  /\ \A s \in X \ r.crossed :
       s \notin r.seeking[p] /\ \A i \in 1..MatchMax : s \notin r.match[i].sides

\* pruneMap() takes a seeker and its seek together.
LEMMA PruneKeeps ==
  ASSUME NEW r, NEW X \in SUBSET Clients, NEW p \in Pools, NEW pools \in SUBSET Pools,
         Orderly(r, seeking), NoneLost(r, seeking, X, p), NEW out, out = Matching!Prune(r, pools)
  PROVE  /\ Orderly(out, seeking) /\ NoneLost(out, seeking, X, p)
         /\ out.made = r.made /\ out.match = r.match /\ out.crossed = r.crossed
         /\ out.pending = r.pending /\ out.wanted \subseteq r.wanted
         /\ \A q \in Pools : out.seeking[q] \subseteq r.seeking[q]
         /\ \A q \in pools : \A s \in out.seeking[q] : seeking[s] = "open"
  <1> DEFINE gone == {w \in Clients \X pools : w[1] \in r.seeking[w[2]] /\ seeking[w[1]] # "open"}
  <1>t. r \in Records
    BY DEF Orderly
  <1>1. out = [r EXCEPT !.seeking = [q \in Pools |-> {s \in @[q] : <<s, q>> \notin gone}],
                        !.wanted = @ \ gone]
    BY DEF Matching!Prune
  <1>2. \A s \in Clients, q \in Pools :
          <<s, q>> \in gone <=> q \in pools /\ s \in r.seeking[q] /\ seeking[s] # "open"
    OBVIOUS
  <1> HIDE DEF gone
  <1>3. /\ out.seeking = [q \in Pools |-> {s \in r.seeking[q] : <<s, q>> \notin gone}]
        /\ out.wanted = r.wanted \ gone
        /\ out.made = r.made /\ out.match = r.match /\ out.crossed = r.crossed
        /\ out.pending = r.pending
    BY <1>t, <1>1 DEF Records
  <1>4. out \in Records
    <2>1. out.seeking \in [Pools -> SUBSET Clients]
      BY <1>t, <1>3 DEF Records
    <2>2. out.wanted \in SUBSET (Clients \X Pools)
      BY <1>t, <1>3 DEF Records
    <2> QED
      BY <1>t, <1>1, <1>3, <2>1, <2>2 DEF Records
  <1>5. \A q \in Pools : \A s : s \in out.seeking[q] <=> s \in r.seeking[q] /\ <<s, q>> \notin gone
    BY <1>3
  <1>6. \A q \in Pools : r.seeking[q] \subseteq Clients
    BY <1>t DEF Records
  <1>7. \A q \in pools : \A s \in out.seeking[q] : seeking[s] = "open"
    BY <1>2, <1>5, <1>6
  <1>8. Orderly(out, seeking)
    <2>1. ASSUME NEW s \in Clients \ out.crossed, NEW i \in 1..MatchMax, s \in out.match[i].sides
          PROVE  /\ out.pending[s] = i /\ s \notin out.seeking[out.match[i].pool]
                 /\ <<s, out.match[i].pool>> \in out.wanted
      <3>1. /\ r.pending[s] = i /\ s \notin r.seeking[r.match[i].pool]
            /\ <<s, r.match[i].pool>> \in r.wanted
        BY <1>3, <2>1 DEF Orderly
      <3>2. r.match[i].pool \in Pools
        BY <1>t, <3>1 DEF Records
      <3> QED
        BY <1>2, <1>3, <1>5, <3>1, <3>2
    <2>2. ASSUME NEW s \in Clients \ out.crossed, NEW q \in Pools, s \in out.seeking[q]
          PROVE  <<s, q>> \in out.wanted
      BY <1>3, <1>5, <2>2 DEF Orderly
    <2>3. /\ \A i \in 1..MatchMax : out.match[i].sides # {} => i <= out.made
          /\ \A s \in Clients : out.pending[s] # 0 => s \in out.match[out.pending[s]].sides
          /\ \A s \in Clients : \A q \in Pools : seeking[s] = "closed" => <<s, q>> \notin out.wanted
      BY <1>3 DEF Orderly
    <2> QED
      BY <1>4, <2>1, <2>2, <2>3 DEF Orderly
  <1>9. NoneLost(out, seeking, X, p)
    <2>1. ASSUME NEW s \in Clients \ out.crossed, NEW q \in Pools,
                 seeking[s] # "closing", <<s, q>> \in out.wanted
          PROVE  Waits(out, s, q) \/ (s \in X /\ q = p)
      <3>1. <<s, q>> \notin gone /\ (Waits(r, s, q) \/ (s \in X /\ q = p))
        BY <1>3, <2>1 DEF NoneLost
      <3> QED
        BY <1>3, <1>5, <3>1 DEF Waits
    <2>2. \A s \in X \ out.crossed :
            s \notin out.seeking[p] /\ \A i \in 1..MatchMax : s \notin out.match[i].sides
      BY <1>3, <1>5 DEF NoneLost
    <2> QED
      BY <2>1, <2>2 DEF NoneLost
  <1> QED
    BY <1>3, <1>5, <1>7, <1>8, <1>9

\* Two states of the relay with the same fields are the same.
LEMMA SameRecord ==
  ASSUME NEW a \in Records, NEW b \in Records, a.seeking = b.seeking, a.match = b.match,
         a.pending = b.pending, a.made = b.made, a.wanted = b.wanted, a.crossed = b.crossed
  PROVE  a = b
  BY DEF Records

\* The seekers of the pools whose sockets are not open.
Leaving(seekers, pools) ==
  {w \in Clients \X pools : w[1] \in seekers[w[2]] /\ seeking[w[1]] # "open"}

\* The others, who stay.
Staying(seekers, pools) ==
  [q \in Pools |-> {s \in seekers[q] : <<s, q>> \notin Leaving(seekers, pools)}]

\* pruneMap() touches nothing but the seekers and their seeks.
LEMMA PruneIs ==
  ASSUME NEW r \in Records, NEW pools \in SUBSET Pools, NEW out, out = Matching!Prune(r, pools)
  PROVE  /\ out \in Records
         /\ out.seeking = Staying(r.seeking, pools)
         /\ out.wanted = r.wanted \ Leaving(r.seeking, pools)
         /\ out.made = r.made /\ out.match = r.match /\ out.crossed = r.crossed
         /\ out.pending = r.pending
  <1>1. out = [r EXCEPT
                 !.seeking = [q \in Pools |->
                                {s \in @[q] : <<s, q>> \notin Leaving(r.seeking, pools)}],
                        !.wanted = @ \ Leaving(r.seeking, pools)]
    BY DEF Matching!Prune, Leaving
  <1>3. /\ out.seeking = Staying(r.seeking, pools)
        /\ out.wanted = r.wanted \ Leaving(r.seeking, pools)
        /\ out.made = r.made /\ out.match = r.match /\ out.crossed = r.crossed
        /\ out.pending = r.pending
    BY <1>1 DEF Records, Staying
  <1>4. out.seeking \in [Pools -> SUBSET Clients]
    BY <1>3 DEF Records, Staying
  <1>5. out.wanted \in SUBSET (Clients \X Pools)
    BY <1>3 DEF Records
  <1> QED
    BY <1>1, <1>3, <1>4, <1>5 DEF Records

\* tryMatch(), of two who can acknowledge: a proposal takes them out of the pool, ...
LEMMA ProposalKeeps ==
  ASSUME NEW r, NEW X \in SUBSET Clients, NEW p \in Pools,
         Orderly(r, seeking), NoneLost(r, seeking, X, p),
         NEW pair \in SUBSET r.seeking[p], r.made + 1 <= MatchMax, MatchMax \in Nat,
         NEW end \in Records,
         end.seeking = [r.seeking EXCEPT ![p] = @ \ pair], end.wanted = r.wanted,
         end.made = r.made + 1,
         end.match = [r.match EXCEPT ![r.made + 1] = [pool |-> p, sides |-> pair, acks |-> {}]],
         end.pending = [s \in Clients |-> IF s \in pair THEN r.made + 1 ELSE r.pending[s]],
         end.crossed = r.crossed \cup {s \in pair : r.pending[s] # 0}
  PROVE  Orderly(end, seeking) /\ NoneLost(end, seeking, X, p)
  <1>t. /\ r \in Records /\ pair \subseteq Clients /\ r.made \in Nat
        /\ r.made + 1 \in 1..MatchMax
    BY DEF Orderly, Records
  <1> DEFINE new == r.made + 1
  <1>1. /\ \A q \in Pools : end.seeking[q] = IF q = p THEN r.seeking[p] \ pair ELSE r.seeking[q]
        /\ \A i \in 1..MatchMax : end.match[i] =
             IF i = new THEN [pool |-> p, sides |-> pair, acks |-> {}] ELSE r.match[i]
        /\ \A s \in Clients : end.pending[s] = IF s \in pair THEN new ELSE r.pending[s]
    BY <1>t DEF Records
  <1>m. end.match[new].pool = p /\ end.match[new].sides = pair /\ new \in 1..MatchMax
    BY <1>1, <1>t
  <1>2. r.match[new].sides = {}
    BY <1>t DEF Orderly
  <1>w. /\ \A s \in Clients \ r.crossed : \A i \in 1..MatchMax :
             s \in r.match[i].sides =>
               /\ r.pending[s] = i /\ s \notin r.seeking[r.match[i].pool]
               /\ <<s, r.match[i].pool>> \in r.wanted
        /\ \A s \in Clients \ r.crossed : \A q \in Pools :
             s \in r.seeking[q] => <<s, q>> \in r.wanted
    BY DEF Orderly
  <1>3. \A s \in pair : s \in Clients /\ s \in r.seeking[p]
    BY <1>t
  <1>4. ASSUME NEW s \in pair, s \notin end.crossed, NEW i \in 1..MatchMax
        PROVE  s \notin r.match[i].sides
    <2>1. s \in Clients \ r.crossed /\ r.pending[s] = 0
      BY <1>3, <1>4
    <2> QED
      <3> SUFFICES ASSUME s \in r.match[i].sides PROVE FALSE
        OBVIOUS
      <3>1. r.pending[s] = i
        BY <1>w, <2>1
      <3>2. i # 0
        BY <1>t
      <3> QED
        BY <2>1, <3>1, <3>2
  <1> HIDE DEF new
  <1>5. ASSUME NEW s \in Clients \ end.crossed, NEW i \in 1..MatchMax, s \in end.match[i].sides
        PROVE  /\ end.pending[s] = i /\ s \notin end.seeking[end.match[i].pool]
               /\ <<s, end.match[i].pool>> \in end.wanted
    <2>0. s \in Clients \ r.crossed
      BY <1>5
    <2>1. CASE i = new
      <3>1. s \in pair /\ end.match[i].pool = p
        BY <1>m, <1>5, <2>1
      <3> QED
        BY <1>1, <1>3, <1>w, <2>0, <2>1, <3>1
    <2>2. CASE i # new
      <3>1. end.match[i] = r.match[i] /\ s \in r.match[i].sides /\ s \notin pair
        BY <1>1, <1>4, <1>5, <2>2
      <3>2. /\ r.pending[s] = i /\ s \notin r.seeking[r.match[i].pool]
            /\ <<s, r.match[i].pool>> \in r.wanted
        BY <1>w, <2>0, <3>1
      <3>3. r.match[i].pool \in Pools
        BY <1>t, <3>2 DEF Records
      <3> QED
        BY <1>1, <3>1, <3>2, <3>3
    <2> QED
      BY <2>1, <2>2
  <1>6. \A s \in Clients \ end.crossed : \A q \in Pools :
          s \in end.seeking[q] => <<s, q>> \in end.wanted
    BY <1>1, <1>w
  <1>7. \A i \in 1..MatchMax : end.match[i].sides # {} => i <= end.made
    <2> SUFFICES ASSUME NEW i \in 1..MatchMax, end.match[i].sides # {} PROVE i <= end.made
      OBVIOUS
    <2>1. CASE i = new
      BY <1>t, <2>1 DEF new
    <2>2. CASE i # new
      <3>1. r.match[i].sides # {}
        BY <1>1, <2>2
      <3>2. i <= r.made
        BY <3>1 DEF Orderly
      <3> QED
        BY <1>t, <3>2
    <2> QED
      BY <2>1, <2>2
  <1>8. ASSUME NEW s \in Clients, end.pending[s] # 0 PROVE s \in end.match[end.pending[s]].sides
    <2>1. CASE s \in pair
      BY <1>1, <1>m, <2>1
    <2>2. CASE s \notin pair
      <3>1. end.pending[s] = r.pending[s]
        BY <1>1, <2>2
      <3>2. s \in r.match[r.pending[s]].sides
        BY <1>8, <3>1 DEF Orderly
      <3>3. r.pending[s] \in 1..MatchMax /\ r.pending[s] # new
        <4>1. r.pending[s] \in 0..MatchMax
          BY <1>t DEF Records
        <4> QED
          BY <4>1, <1>8, <3>1, <3>2, <1>2
      <3> QED
        BY <1>1, <3>1, <3>2, <3>3
    <2> QED
      BY <2>1, <2>2
  <1>9. \A s \in Clients : \A q \in Pools : seeking[s] = "closed" => <<s, q>> \notin end.wanted
    BY DEF Orderly
  <1>10. Orderly(end, seeking)
    BY <1>5, <1>6, <1>7, <1>8, <1>9 DEF Orderly
  <1>11. ASSUME NEW s \in Clients \ end.crossed, NEW q \in Pools,
                seeking[s] # "closing", <<s, q>> \in end.wanted
         PROVE  Waits(end, s, q) \/ (s \in X /\ q = p)
    <2>1. Waits(r, s, q) \/ (s \in X /\ q = p)
      BY <1>11 DEF NoneLost
    <2>2. CASE s \in r.seeking[q]
      <3>1. CASE s \in pair /\ q = p
        BY <1>m, <3>1 DEF Waits
      <3>2. CASE ~(s \in pair /\ q = p)
        BY <1>1, <2>2, <3>2 DEF Waits
      <3> QED
        BY <3>1, <3>2
    <2>3. ASSUME NEW i \in 1..MatchMax, r.match[i].pool = q, s \in r.match[i].sides
          PROVE  Waits(end, s, q)
      <3>1. end.match[i] = r.match[i]
        BY <1>1, <1>2, <2>3
      <3> QED
        BY <2>3, <3>1 DEF Waits
    <2> QED
      BY <2>1, <2>2, <2>3 DEF Waits
  <1>12. ASSUME NEW s \in X \ end.crossed
         PROVE  s \notin end.seeking[p] /\ \A i \in 1..MatchMax : s \notin end.match[i].sides
    <2>1. s \notin r.seeking[p] /\ \A i \in 1..MatchMax : s \notin r.match[i].sides
      BY <1>12 DEF NoneLost
    <2>2. s \notin pair
      BY <1>3, <2>1
    <2>3. ASSUME NEW i \in 1..MatchMax PROVE s \notin end.match[i].sides
      BY <1>1, <1>m, <2>1, <2>2
    <2> QED
      BY <1>1, <2>1, <2>3
  <1> QED
    BY <1>10, <1>11, <1>12 DEF NoneLost

\* ... a match of two who cannot takes their seeks back as well.
LEMMA AtOnceKeeps ==
  ASSUME NEW r, NEW X \in SUBSET Clients, NEW p \in Pools,
         Orderly(r, seeking), NoneLost(r, seeking, X, p),
         NEW pair \in SUBSET r.seeking[p],
         NEW end \in Records,
         end.seeking = [r.seeking EXCEPT ![p] = @ \ pair], end.wanted = r.wanted \ (pair \X {p}),
         end.made = r.made, end.match = r.match, end.pending = r.pending, end.crossed = r.crossed
  PROVE  Orderly(end, seeking) /\ NoneLost(end, seeking, X, p)
  <1>t. r \in Records /\ pair \subseteq Clients
    BY DEF Orderly, Records
  <1>1. \A q \in Pools : end.seeking[q] = IF q = p THEN r.seeking[p] \ pair ELSE r.seeking[q]
    BY <1>t DEF Records
  <1>2. \A s, q : <<s, q>> \in end.wanted <=> <<s, q>> \in r.wanted /\ ~(s \in pair /\ q = p)
    OBVIOUS
  <1>3. ASSUME NEW s \in Clients \ end.crossed, NEW i \in 1..MatchMax, s \in end.match[i].sides
        PROVE  /\ end.pending[s] = i /\ s \notin end.seeking[end.match[i].pool]
               /\ <<s, end.match[i].pool>> \in end.wanted
    <2>1. /\ r.pending[s] = i /\ s \notin r.seeking[r.match[i].pool]
          /\ <<s, r.match[i].pool>> \in r.wanted
      BY <1>3 DEF Orderly
    <2>2. r.match[i].pool \in Pools
      BY <1>t, <2>1 DEF Records
    <2> QED
      BY <1>1, <1>2, <2>1, <2>2
  <1>4. ASSUME NEW s \in Clients \ end.crossed, NEW q \in Pools, s \in end.seeking[q]
        PROVE  <<s, q>> \in end.wanted
    <2>1. s \in r.seeking[q] /\ ~(s \in pair /\ q = p)
      BY <1>1, <1>4
    <2>2. <<s, q>> \in r.wanted
      BY <2>1 DEF Orderly
    <2> QED
      BY <1>2, <2>1, <2>2
  <1>5. Orderly(end, seeking)
    BY <1>2, <1>3, <1>4 DEF Orderly
  <1>6. ASSUME NEW s \in Clients \ end.crossed, NEW q \in Pools,
               seeking[s] # "closing", <<s, q>> \in end.wanted
        PROVE  Waits(end, s, q) \/ (s \in X /\ q = p)
    <2>1. Waits(r, s, q) \/ (s \in X /\ q = p)
      BY <1>2, <1>6 DEF NoneLost
    <2> QED
      BY <1>1, <1>2, <1>6, <2>1 DEF Waits
  <1>7. \A s \in X \ end.crossed :
          s \notin end.seeking[p] /\ \A i \in 1..MatchMax : s \notin end.match[i].sides
    BY <1>1 DEF NoneLost
  <1> QED
    BY <1>5, <1>6, <1>7 DEF NoneLost

\* tryMatch(): two seekers of the pool are proposed to each other, or matched at once.
LEMMA ProposeKeeps ==
  ASSUME NEW r, NEW X \in SUBSET Clients, NEW p \in Pools,
         Orderly(r, seeking), NoneLost(r, seeking, X, p),
         NEW pair \in SUBSET r.seeking[p], r.made + 1 <= MatchMax, MatchMax \in Nat,
         NEW end, end = Matching!Propose(r, p, pair)
  PROVE  /\ Orderly(end, seeking) /\ NoneLost(end, seeking, X, p) /\ end.made <= r.made + 1
         /\ end.wanted \subseteq r.wanted
  <1>t. /\ r \in Records /\ pair \subseteq Clients /\ r.made \in Nat
        /\ r.made + 1 \in 1..MatchMax /\ r.made + 1 \in 0..MatchMax
    BY DEF Orderly, Records
  <1> DEFINE i == r.made + 1
             out0 == [r EXCEPT !.seeking[p] = @ \ pair]
             out == Matching!Prune(out0, {p})
             S == [r.seeking EXCEPT ![p] = @ \ pair]
  <1>0. /\ out0.seeking = S /\ out0.wanted = r.wanted
        /\ out0.made = r.made /\ out0.match = r.match /\ out0.crossed = r.crossed
        /\ out0.pending = r.pending /\ out0 \in Records /\ S \in [Pools -> SUBSET Clients]
    BY <1>t DEF Records
  <1> HIDE DEF out0
  <1>1. /\ out \in Records
        /\ out.seeking = Staying(S, {p}) /\ out.wanted = r.wanted \ Leaving(S, {p})
        /\ out.made = r.made /\ out.match = r.match /\ out.crossed = r.crossed
        /\ out.pending = r.pending
    <2>1. {p} \in SUBSET Pools
      OBVIOUS
    <2>2. out = Matching!Prune(out0, {p})
      OBVIOUS
    <2> HIDE DEF S, out
    <2> QED
      BY <1>0, <2>1, <2>2, PruneIs
  <1>2. \/ pair \cap old # {} /\ end = [out EXCEPT !.wanted = @ \ (pair \X {p})]
        \/ /\ pair \cap old = {}
           /\ end = [out EXCEPT !.made = i,
                                !.match[i] = [pool |-> p, sides |-> pair, acks |-> {}],
                                !.pending = [s \in Clients |-> IF s \in pair THEN i ELSE @[s]],
                                !.crossed = @ \cup {s \in pair : r.pending[s] # 0}]
    BY DEF Matching!Propose, out0
  <1> HIDE DEF out
  <1>3. CASE end = [out EXCEPT !.wanted = @ \ (pair \X {p})]
    <2> DEFINE a == [r EXCEPT !.seeking = S, !.wanted = @ \ (pair \X {p})]
               b == Matching!Prune(a, {p})
    <2>1. /\ a \in Records /\ a.seeking = S /\ a.wanted = r.wanted \ (pair \X {p})
          /\ a.made = r.made /\ a.match = r.match /\ a.pending = r.pending /\ a.crossed = r.crossed
      BY <1>t, <1>0 DEF Records
    <2> HIDE DEF a
    <2>2. Orderly(a, seeking) /\ NoneLost(a, seeking, X, p)
      <3> QED
        BY <2>1, AtOnceKeeps
    <2>3. {p} \in SUBSET Pools
      OBVIOUS
    <2>4. b = Matching!Prune(a, {p})
      OBVIOUS
    <2>5. /\ Orderly(b, seeking) /\ NoneLost(b, seeking, X, p)
      BY <2>2, <2>3, PruneKeeps
    <2>6. /\ b \in Records
          /\ b.seeking = Staying(a.seeking, {p}) /\ b.wanted = a.wanted \ Leaving(a.seeking, {p})
          /\ b.made = a.made /\ b.match = a.match /\ b.crossed = a.crossed
          /\ b.pending = a.pending
      <3> HIDE DEF b, S, i
      <3> QED
        BY <2>1, <2>3, <2>4, PruneIs
    <2> HIDE DEF b, S, i
    <2>7. /\ end \in Records /\ end.seeking = out.seeking /\ end.made = out.made
          /\ end.match = out.match /\ end.pending = out.pending /\ end.crossed = out.crossed
          /\ end.wanted = out.wanted \ (pair \X {p})
      BY <1>1, <1>3 DEF Records
    <2>8. end = b
      <3>1. end.seeking = b.seeking
        BY <1>1, <2>1, <2>6, <2>7
      <3>2. end.wanted = b.wanted
        BY <1>1, <2>1, <2>6, <2>7
      <3>3. /\ end.match = b.match /\ end.pending = b.pending /\ end.made = b.made
            /\ end.crossed = b.crossed
        BY <1>1, <2>1, <2>6, <2>7
      <3> QED
        BY <2>6, <2>7, <3>1, <3>2, <3>3, SameRecord
    <2> QED
      BY <1>t, <1>1, <2>5, <2>7, <2>8
  <1>4. CASE end = [out EXCEPT !.made = i,
                               !.match[i] = [pool |-> p, sides |-> pair, acks |-> {}],
                               !.pending = [s \in Clients |-> IF s \in pair THEN i ELSE @[s]],
                               !.crossed = @ \cup {s \in pair : r.pending[s] # 0}]
    <2> DEFINE m == [pool |-> p, sides |-> pair, acks |-> {}]
               N == [s \in Clients |-> IF s \in pair THEN i ELSE r.pending[s]]
               C == r.crossed \cup {s \in pair : r.pending[s] # 0}
               M == [r.match EXCEPT ![i] = m]
               a == [r EXCEPT !.seeking = S, !.made = i, !.match = M, !.pending = N, !.crossed = C]
               b == Matching!Prune(a, {p})
    <2>m. m \in Matching!Proposals
      BY <1>t DEF Matching!Proposals
    <2>n. /\ M \in [1..MatchMax -> Matching!Proposals] /\ N \in [Clients -> 0..MatchMax]
          /\ C \in SUBSET Clients
      <3>1. M \in [1..MatchMax -> Matching!Proposals]
        BY <1>t, <2>m DEF Records
      <3>2. N \in [Clients -> 0..MatchMax]
        BY <1>t DEF Records
      <3>3. C \in SUBSET Clients
        BY <1>t DEF Records
      <3> QED
        BY <3>1, <3>2, <3>3
    <2>7. /\ end \in Records /\ end.seeking = out.seeking /\ end.made = i
          /\ end.match = M /\ end.pending = N /\ end.crossed = C
          /\ end.wanted = out.wanted
      <3>1. /\ end.seeking = out.seeking /\ end.made = i
            /\ end.match = M /\ end.pending = N /\ end.crossed = C
            /\ end.wanted = out.wanted
        <4>1. end.seeking = out.seeking /\ end.made = i /\ end.wanted = out.wanted
          BY <1>1, <1>4 DEF Records
        <4>2. end.match = M
          BY <1>1, <1>4 DEF Records
        <4>3. end.pending = N
          BY <1>1, <1>4 DEF Records
        <4>4. end.crossed = C
          BY <1>1, <1>4 DEF Records
        <4> QED
          BY <4>1, <4>2, <4>3, <4>4
      <3>2. end = [seeking |-> end.seeking, match |-> end.match, pending |-> end.pending,
                   made |-> end.made, wanted |-> end.wanted, crossed |-> end.crossed]
        BY <1>1, <1>4 DEF Records
      <3>3. out.seeking \in [Pools -> SUBSET Clients] /\ out.wanted \in SUBSET (Clients \X Pools)
        BY <1>1 DEF Records
      <3>4. i \in 0..MatchMax
        BY <1>t DEF Records
      <3> HIDE DEF M, N, C, i
      <3>5. /\ end.seeking \in [Pools -> SUBSET Clients] /\ end.wanted \in SUBSET (Clients \X Pools)
            /\ end.match \in [1..MatchMax -> Matching!Proposals] /\ end.made \in 0..MatchMax
            /\ end.pending \in [Clients -> 0..MatchMax] /\ end.crossed \in SUBSET Clients
        BY <2>n, <3>1, <3>3, <3>4
      <3>6. end \in Records
        BY <3>2, <3>5 DEF Records
      <3> QED
        BY <3>1, <3>6
    <2>1. /\ a \in Records /\ a.seeking = S /\ a.wanted = r.wanted
          /\ a.made = i /\ a.match = M /\ a.pending = N /\ a.crossed = C
      <3> HIDE DEF M, N, C, S, i
      <3> QED
        BY <1>t, <1>0, <2>n DEF Records, i
    <2> HIDE DEF a
    <2>2. Orderly(a, seeking) /\ NoneLost(a, seeking, X, p)
      BY <2>1, ProposalKeeps
    <2>3. {p} \in SUBSET Pools
      OBVIOUS
    <2>4. b = Matching!Prune(a, {p})
      OBVIOUS
    <2> HIDE DEF M, N, C, S, i
    <2>5. /\ Orderly(b, seeking) /\ NoneLost(b, seeking, X, p)
      BY <2>2, <2>3, PruneKeeps
    <2>6. /\ b \in Records
          /\ b.seeking = Staying(a.seeking, {p}) /\ b.wanted = a.wanted \ Leaving(a.seeking, {p})
          /\ b.made = a.made /\ b.match = a.match /\ b.crossed = a.crossed
          /\ b.pending = a.pending
      <3> HIDE DEF b
      <3> QED
        BY <2>1, <2>3, <2>4, PruneIs
    <2> HIDE DEF b
    <2>8. end = b
      <3>1. end.seeking = b.seeking /\ end.wanted = b.wanted
        BY <1>1, <2>1, <2>6, <2>7
      <3> QED
        BY <2>1, <2>6, <2>7, <3>1, SameRecord
    <2>9. end.made <= r.made + 1 /\ end.wanted \subseteq r.wanted
      BY <1>t, <1>1, <2>7 DEF i
    <2> QED
      BY <2>5, <2>8, <2>9
  <1> QED
    BY <1>2, <1>3, <1>4

\* tryMatch() takes one of those who fit, or leaves the pool as it is.
LEMMA TryMatchKeeps ==
  ASSUME NEW r, NEW X \in SUBSET Clients, NEW p \in Pools,
         Orderly(r, seeking), NoneLost(r, seeking, X, p), r.made + 1 <= MatchMax, MatchMax \in Nat,
         NEW s, NEW end \in Matching!TryMatch(r, p, s)
  PROVE  /\ Orderly(end, seeking) /\ NoneLost(end, seeking, X, p)
         /\ end.made \in Nat /\ end.made <= r.made + 1
  <1>t. r.made \in Nat
    BY DEF Orderly, Records
  <1>1. \/ end = r
        \/ \E o \in r.seeking[p] : s \in r.seeking[p] /\ end = Matching!Propose(r, p, {s, o})
    BY DEF Matching!TryMatch
  <1>2. CASE end = r
    BY <1>t, <1>2
  <1>3. ASSUME NEW o \in r.seeking[p], s \in r.seeking[p], end = Matching!Propose(r, p, {s, o})
        PROVE  /\ Orderly(end, seeking) /\ NoneLost(end, seeking, X, p)
               /\ end.made \in Nat /\ end.made <= r.made + 1
    <2> DEFINE pair == {s, o}
    <2>1. pair \in SUBSET r.seeking[p] /\ end = Matching!Propose(r, p, pair)
      BY <1>3
    <2> HIDE DEF pair
    <2>2. Orderly(end, seeking) /\ NoneLost(end, seeking, X, p) /\ end.made <= r.made + 1
      BY <2>1, ProposeKeeps
    <2> QED
      BY <2>2 DEF Orderly, Records
  <1> QED
    BY <1>1, <1>2, <1>3

\* All who have set a seek wait.
AllWait(r, ph) ==
  \A s \in Clients \ r.crossed : \A q \in Pools :
    ph[s] # "closing" /\ <<s, q>> \in r.wanted => Waits(r, s, q)

\* ... which says that nobody is lost but the clients of an empty set.
LEMMA NobodyLost ==
  ASSUME NEW r, NEW ph, NEW p
  PROVE  AllWait(r, ph) <=> NoneLost(r, ph, {}, p)
  BY DEF AllWait, NoneLost

\* A proposal is taken back, and some of its sides seek again.
Back(r, i, p, more) == [Matching!Forget(r, i) EXCEPT !.seeking[p] = @ \cup more]

\* A proposal that is taken back is a state of the relay with these fields.
LEMMA BackIs ==
  ASSUME NEW r \in Records, NEW i \in 1..MatchMax, NEW p \in Pools, NEW more \in SUBSET Clients,
         NEW back, back = Back(r, i, p, more)
  PROVE  /\ back \in Records /\ back.seeking = [r.seeking EXCEPT ![p] = @ \cup more]
         /\ back.match = [r.match EXCEPT ![i] = Matching!NoMatch]
         /\ back.pending = [u \in Clients |-> IF u \in r.match[i].sides THEN 0 ELSE r.pending[u]]
         /\ back.made = r.made /\ back.wanted = r.wanted /\ back.crossed = r.crossed
  <1> DEFINE N == [u \in Clients |-> IF u \in r.match[i].sides THEN 0 ELSE r.pending[u]]
             M == [r.match EXCEPT ![i] = Matching!NoMatch]
             S == [r.seeking EXCEPT ![p] = @ \cup more]
  <1>1. N \in [Clients -> 0..MatchMax]
    <2>1. 0 \in 0..MatchMax
      BY PageAssumption DEF Matching!MatchingAssumption
    <2> QED
      BY <2>1 DEF Records
  <1>2. M \in [1..MatchMax -> Matching!Proposals]
    BY DEF Records, Matching!Proposals
  <1>3. S \in [Pools -> SUBSET Clients]
    BY DEF Records
  <1>4. back = [r EXCEPT !.match = M, !.pending = N, !.seeking = S]
    BY DEF Back, Matching!Forget, Records
  <1> HIDE DEF M, N, S
  <1>5. /\ back \in Records /\ back.seeking = S /\ back.match = M /\ back.pending = N
        /\ back.made = r.made /\ back.wanted = r.wanted /\ back.crossed = r.crossed
    BY <1>1, <1>2, <1>3, <1>4 DEF Records
  <1> QED
    BY <1>5 DEF M, N, S

\* Who is in a proposal is a client.
LEMMA SidesAreClients ==
  ASSUME NEW r \in Records, NEW i \in 1..MatchMax
  PROVE  /\ r.match[i].sides \in SUBSET Clients
         /\ \A u : u \in r.match[i].sides => r.match[i].pool \in Pools
  <1>1. r.match[i] \in Matching!Proposals
    BY DEF Records
  <1>2. CASE r.match[i] = Matching!NoMatch
    BY <1>2 DEF Matching!NoMatch
  <1>3. CASE r.match[i] # Matching!NoMatch
    BY <1>1, <1>3 DEF Matching!Proposals
  <1> QED
    BY <1>2, <1>3

\* The sides of a proposal who give it up.
GaveUp(r, i, except) == r.match[i].sides \cap except

\* Those who stay and are there.
StillThere(r, i, except) == {u \in r.match[i].sides \ except : seeking[u] = "open"}

\* Who stays of a proposal that is taken back, and is there, seeks again.
LEMMA BackKeeps ==
  ASSUME NEW r, Orderly(r, seeking), AllWait(r, seeking), NEW i \in 1..MatchMax,
         NEW p \in Pools, p = r.match[i].pool, NEW except, Matching!TypeOK,
         NEW back, back = Back(r, i, p, StillThere(r, i, except))
  PROVE  /\ Orderly(back, seeking) /\ NoneLost(back, seeking, GaveUp(r, i, except), p)
         /\ back.made = r.made
  <1> DEFINE more == StillThere(r, i, except)
  <1>t. r \in Records /\ r.match[i].sides \in SUBSET Clients
    BY SidesAreClients DEF Orderly
  <1>m. \A u : u \in more <=> u \in r.match[i].sides /\ u \notin except /\ seeking[u] = "open"
    BY DEF StillThere
  <1>g. \A u : u \in GaveUp(r, i, except) <=> u \in r.match[i].sides /\ u \in except
    BY DEF GaveUp
  <1>o. \A u \in Clients : seeking[u] \in {"open", "closing", "closed"}
    BY DEF Matching!TypeOK
  <1>1. /\ back \in Records /\ back.seeking = [r.seeking EXCEPT ![p] = @ \cup more]
        /\ back.match = [r.match EXCEPT ![i] = Matching!NoMatch]
        /\ back.pending =
             [u \in Clients |-> IF u \in r.match[i].sides THEN 0 ELSE r.pending[u]]
        /\ back.made = r.made /\ back.wanted = r.wanted /\ back.crossed = r.crossed
    <2>1. more \in SUBSET Clients
      BY <1>t, <1>m
    <2>2. back = Back(r, i, p, more)
      OBVIOUS
    <2> HIDE DEF more
    <2> QED
      BY <1>t, <2>1, <2>2, BackIs
  <1> HIDE DEF more
  <1>2. /\ \A q \in Pools : back.seeking[q] = IF q = p THEN r.seeking[p] \cup more ELSE r.seeking[q]
        /\ \A j \in 1..MatchMax : back.match[j] = IF j = i THEN Matching!NoMatch ELSE r.match[j]
        /\ \A u \in Clients : back.pending[u] = IF u \in r.match[i].sides THEN 0 ELSE r.pending[u]
        /\ back \in Records
        /\ back.made = r.made /\ back.wanted = r.wanted /\ back.crossed = r.crossed
    BY <1>t, <1>1 DEF Records
  <1>s. \A q \in Pools : \A u :
          u \in back.seeking[q] <=> u \in r.seeking[q] \/ (q = p /\ u \in more)
    BY <1>2
  <1>j. \A j \in 1..MatchMax : j # i => back.match[j] = r.match[j]
    BY <1>2
  <1>c. back.crossed = r.crossed /\ back.wanted = r.wanted /\ back.made = r.made
    BY <1>2
  <1>w. /\ \A u \in Clients \ r.crossed : \A j \in 1..MatchMax :
             u \in r.match[j].sides =>
               /\ r.pending[u] = j /\ u \notin r.seeking[r.match[j].pool]
               /\ <<u, r.match[j].pool>> \in r.wanted
        /\ \A u \in Clients \ r.crossed : \A q \in Pools :
             u \in r.seeking[q] => <<u, q>> \in r.wanted
        /\ \A u \in Clients : \A q \in Pools : seeking[u] = "closed" => <<u, q>> \notin r.wanted
        /\ \A u \in Clients : r.pending[u] # 0 => u \in r.match[r.pending[u]].sides
        /\ \A j \in 1..MatchMax : r.match[j].sides # {} => j <= r.made
    BY DEF Orderly
  <1>e. back.match[i].sides = {}
    <2>1. back.match[i] = Matching!NoMatch
      BY <1>2
    <2>2. Matching!NoMatch.sides = {}
      BY DEF Matching!NoMatch
    <2> QED
      BY <2>1, <2>2
  <1>3. ASSUME NEW u \in Clients \ back.crossed, NEW j \in 1..MatchMax, u \in back.match[j].sides
        PROVE  /\ back.pending[u] = j /\ u \notin back.seeking[back.match[j].pool]
               /\ <<u, back.match[j].pool>> \in back.wanted
    <2>1. j # i /\ back.match[j] = r.match[j]
      BY <1>3, <1>e, <1>j
    <2>2. u \in Clients \ r.crossed
      BY <1>c
    <2>3. /\ r.pending[u] = j /\ u \notin r.seeking[r.match[j].pool]
          /\ <<u, r.match[j].pool>> \in r.wanted
      BY <1>3, <1>w, <2>1, <2>2
    <2>4. u \notin r.match[i].sides
      BY <1>w, <2>1, <2>2, <2>3
    <2>5. r.match[j].pool \in Pools
      BY <1>t, <2>3 DEF Records
    <2>6. back.pending[u] = j
      BY <1>2, <2>3, <2>4
    <2>7. u \notin back.seeking[r.match[j].pool]
      BY <1>m, <1>s, <2>3, <2>4, <2>5
    <2> QED
      BY <1>c, <2>1, <2>3, <2>6, <2>7
  <1>4. ASSUME NEW u \in Clients \ back.crossed, NEW q \in Pools, u \in back.seeking[q]
        PROVE  <<u, q>> \in back.wanted
    <2>1. CASE u \in r.seeking[q]
      BY <1>c, <1>w, <2>1
    <2>2. CASE q = p /\ u \in more
      BY <1>c, <1>m, <1>w, <2>2
    <2> QED
      BY <1>4, <1>s, <2>1, <2>2
  <1>5. ASSUME NEW u \in Clients, back.pending[u] # 0
        PROVE  u \in back.match[back.pending[u]].sides
    <2>1. u \notin r.match[i].sides /\ back.pending[u] = r.pending[u]
      BY <1>2, <1>5
    <2>2. u \in r.match[r.pending[u]].sides
      BY <1>5, <1>w, <2>1
    <2>3. r.pending[u] \in 1..MatchMax
      <3>1. r.pending[u] \in 0..MatchMax
        BY <1>t DEF Records
      <3> QED
        BY <1>5, <2>1, <3>1, PageAssumption DEF Matching!MatchingAssumption
    <2>4. r.pending[u] # i
      BY <2>1, <2>2
    <2> QED
      BY <1>j, <2>1, <2>2, <2>3, <2>4
  <1>6. \A j \in 1..MatchMax : back.match[j].sides # {} => j <= back.made
    BY <1>c, <1>e, <1>j, <1>w
  <1>7. Orderly(back, seeking)
    <2>1. \A u \in Clients : \A q \in Pools : seeking[u] = "closed" => <<u, q>> \notin back.wanted
      BY <1>c, <1>w
    <2> QED
      BY <1>2, <1>3, <1>4, <1>5, <1>6, <2>1 DEF Orderly
  <1>8. ASSUME NEW u \in Clients \ back.crossed, NEW q \in Pools,
               seeking[u] # "closing", <<u, q>> \in back.wanted
        PROVE  Waits(back, u, q) \/ (u \in GaveUp(r, i, except) /\ q = p)
    <2>1. Waits(r, u, q)
      BY <1>8, <1>c DEF AllWait
    <2>2. CASE u \in r.seeking[q]
      BY <1>s, <2>2 DEF Waits
    <2>3. ASSUME NEW j \in 1..MatchMax, r.match[j].pool = q, u \in r.match[j].sides, j # i
          PROVE  Waits(back, u, q)
      BY <1>j, <2>3 DEF Waits
    <2>4. CASE q = p /\ u \in r.match[i].sides
      <3>1. seeking[u] = "open"
        BY <1>8, <1>c, <1>o, <1>w
      <3>2. u \in GaveUp(r, i, except) \/ u \in more
        BY <1>g, <1>m, <2>4, <3>1
      <3> QED
        BY <1>s, <2>4, <3>2 DEF Waits
    <2> QED
      BY <2>1, <2>2, <2>3, <2>4 DEF Waits
  <1>9. ASSUME NEW u \in GaveUp(r, i, except) \ back.crossed
        PROVE  u \notin back.seeking[p] /\ \A j \in 1..MatchMax : u \notin back.match[j].sides
    <2>1. u \in Clients \ r.crossed /\ u \in r.match[i].sides /\ u \notin more
      BY <1>c, <1>g, <1>m, <1>t
    <2>2. r.pending[u] = i /\ u \notin r.seeking[p]
      BY <1>w, <2>1
    <2>3. ASSUME NEW j \in 1..MatchMax, u \in r.match[j].sides PROVE j = i
      <3>1. r.pending[u] = j
        BY <1>w, <2>1, <2>3
      <3> QED
        BY <2>2, <3>1
    <2>4. u \notin back.seeking[p]
      BY <1>s, <2>1, <2>2
    <2>5. ASSUME NEW j \in 1..MatchMax PROVE u \notin back.match[j].sides
      BY <1>e, <1>j, <2>3
    <2> QED
      BY <2>4, <2>5
  <1>10. NoneLost(back, seeking, GaveUp(r, i, except), p)
    BY <1>8, <1>9 DEF NoneLost
  <1> QED
    BY <1>2, <1>7, <1>10

\* Whoever left is taken out of the pool first.
LEMMA PrunedFirst ==
  ASSUME NEW r, NEW X \in SUBSET Clients, NEW p \in Pools,
         Orderly(r, seeking), NoneLost(r, seeking, X, p),
         NEW start, start = Matching!Prune(r, {p})
  PROVE  Orderly(start, seeking) /\ NoneLost(start, seeking, X, p) /\ start.made = r.made
  <1>1. {p} \in SUBSET Pools
    OBVIOUS
  <1>2. Orderly(start, seeking) /\ NoneLost(start, seeking, X, p)
    BY <1>1, PruneKeeps
  <1>3. start.made = r.made
    BY <1>1, PruneIs DEF Orderly
  <1> QED
    BY <1>2, <1>3

\* What follows in cancelPendingMatch(): the seekers who stayed are tried, one after the other.
LEMMA TriedTwice ==
  ASSUME NEW r, NEW X \in SUBSET Clients, NEW p \in Pools,
         Orderly(r, seeking), NoneLost(r, seeking, X, p), r.made + 2 <= MatchMax, MatchMax \in Nat,
         NEW start, start = Matching!Prune(r, {p}), NEW s, NEW x \in Matching!TryMatch(start, p, s),
         NEW o, NEW end \in Matching!TryMatch(x, p, o)
  PROVE  Orderly(end, seeking) /\ NoneLost(end, seeking, X, p)
  <1>t. r.made \in Nat
    BY DEF Orderly, Records
  <1>2. Orderly(start, seeking) /\ NoneLost(start, seeking, X, p) /\ start.made = r.made
    BY PrunedFirst
  <1>3. start.made + 1 <= MatchMax
    BY <1>t, <1>2
  <1>4. /\ Orderly(x, seeking) /\ NoneLost(x, seeking, X, p)
        /\ x.made \in Nat /\ x.made <= start.made + 1
    BY <1>2, <1>3, TryMatchKeeps
  <1>5. x.made + 1 <= MatchMax
    BY <1>t, <1>2, <1>4
  <1> QED
    BY <1>4, <1>5, TryMatchKeeps

\* cancelPendingMatch() loses nobody but those who gave the proposal up.
LEMMA CancelKeeps ==
  ASSUME NEW r, Orderly(r, seeking), AllWait(r, seeking), NEW i \in 1..MatchMax,
         NEW p \in Pools, p = r.match[i].pool, NEW except, r.made + 2 <= MatchMax,
         Matching!TypeOK, NEW end \in Matching!Cancel(r, i, except)
  PROVE  Orderly(end, seeking) /\ NoneLost(end, seeking, GaveUp(r, i, except), p)
  <1> DEFINE stay == r.match[i].sides \ except
             more == StillThere(r, i, except)
             back == Back(r, i, p, more)
             start == Matching!Prune(back, {p})
             X == GaveUp(r, i, except)
  <1>1. Orderly(back, seeking) /\ NoneLost(back, seeking, X, p) /\ back.made = r.made
    <2>1. back = Back(r, i, p, more)
      OBVIOUS
    <2> HIDE DEF back
    <2>3. /\ Orderly(back, seeking) /\ NoneLost(back, seeking, GaveUp(r, i, except), p)
          /\ back.made = r.made
      BY <2>1, BackKeeps
    <2> QED
      BY <2>3
  <1>2. PICK s \in stay, o \in stay : \E x \in Matching!TryMatch(start, p, s) :
               end \in Matching!TryMatch(x, p, o)
    <2>1. Matching!Cancel(r, i, except) =
            UNION {Matching!TryMatch(x, p, o) :
                     x \in UNION {Matching!TryMatch(start, p, s) : s \in stay}, o \in stay}
      BY DEF Matching!Cancel, Back, StillThere
    <2> HIDE DEF start, stay
    <2> QED
      BY <2>1
  <1>3. PICK x \in Matching!TryMatch(start, p, s) : end \in Matching!TryMatch(x, p, o)
    BY <1>2
  <1>4. X \in SUBSET Clients /\ MatchMax \in Nat /\ back.made + 2 <= MatchMax
    <2>1. r.match[i].sides \in SUBSET Clients
      BY SidesAreClients DEF Orderly
    <2>2. MatchMax \in Nat
      BY PageAssumption DEF Matching!MatchingAssumption
    <2> HIDE DEF back
    <2> QED
      BY <1>1, <2>1, <2>2 DEF GaveUp
  <1>5. start = Matching!Prune(back, {p})
    OBVIOUS
  <1> HIDE DEF back, start, X, stay, more
  <1>6. Orderly(end, seeking) /\ NoneLost(end, seeking, X, p)
    BY <1>1, <1>3, <1>4, <1>5, TriedTwice
  <1> QED
    BY <1>6 DEF X

\* SeekHeldOnce with what makes it inductive.
MatchInv == Matching!TypeOK /\ Orderly(relay, seeking) /\ AllWait(relay, seeking)

\* What the invariant says of the fields.
LEMMA InOrder ==
  ASSUME NEW r, NEW ph, Orderly(r, ph)
  PROVE  /\ r \in Records
         /\ \A u \in Clients \ r.crossed : \A j \in 1..MatchMax :
              u \in r.match[j].sides =>
                /\ r.pending[u] = j /\ u \notin r.seeking[r.match[j].pool]
                /\ <<u, r.match[j].pool>> \in r.wanted
         /\ \A u \in Clients \ r.crossed : \A q \in Pools :
              u \in r.seeking[q] => <<u, q>> \in r.wanted
         /\ \A u \in Clients : \A q \in Pools : ph[u] = "closed" => <<u, q>> \notin r.wanted
         /\ \A u \in Clients : r.pending[u] # 0 => u \in r.match[r.pending[u]].sides
         /\ \A j \in 1..MatchMax : r.match[j].sides # {} => j <= r.made
  BY DEF Orderly

\* A seek is taken back, or expires.
LEMMA LeaveKeeps ==
  ASSUME NEW r, NEW s \in Clients, NEW p \in Pools, NEW X \in SUBSET {s},
         Orderly(r, seeking), NoneLost(r, seeking, X, p),
         s \notin r.crossed =>
           \A j \in 1..MatchMax : ~(r.match[j].pool = p /\ s \in r.match[j].sides),
         NEW end, end = [r EXCEPT !.seeking[p] = @ \ {s}, !.wanted = @ \ {<<s, p>>}]
  PROVE  Orderly(end, seeking) /\ AllWait(end, seeking)
  <1>t. r \in Records
    BY DEF Orderly
  <1> DEFINE S == [r.seeking EXCEPT ![p] = @ \ {s}]
             W == r.wanted \ {<<s, p>>}
  <1>n. S \in [Pools -> SUBSET Clients] /\ W \in SUBSET (Clients \X Pools)
    BY <1>t DEF Records
  <1>f. end = [r EXCEPT !.seeking = S, !.wanted = W]
    BY <1>t DEF Records
  <1>1. /\ \A q \in Pools : S[q] = IF q = p THEN r.seeking[p] \ {s} ELSE r.seeking[q]
        /\ \A u, q : <<u, q>> \in W <=> <<u, q>> \in r.wanted /\ ~(u = s /\ q = p)
    BY <1>t DEF Records
  <1> HIDE DEF S, W
  <1>2. /\ end \in Records /\ end.seeking = S /\ end.wanted = W /\ end.match = r.match
        /\ end.pending = r.pending /\ end.made = r.made /\ end.crossed = r.crossed
    BY <1>t, <1>n, <1>f DEF Records
  <1>3. ASSUME NEW u \in Clients \ end.crossed, NEW j \in 1..MatchMax, u \in end.match[j].sides
        PROVE  /\ end.pending[u] = j /\ u \notin end.seeking[end.match[j].pool]
               /\ <<u, end.match[j].pool>> \in end.wanted
    <2>1. /\ r.pending[u] = j /\ u \notin r.seeking[r.match[j].pool]
          /\ <<u, r.match[j].pool>> \in r.wanted
      BY <1>2, <1>3 DEF Orderly
    <2>2. r.match[j].pool \in Pools
      BY <1>t, <1>2, <1>3, SidesAreClients
    <2>3. ~(u = s /\ r.match[j].pool = p)
      BY <1>2, <1>3
    <2> QED
      BY <1>1, <1>2, <2>1, <2>2, <2>3
  <1>4. ASSUME NEW u \in Clients \ end.crossed, NEW q \in Pools, u \in end.seeking[q]
        PROVE  <<u, q>> \in end.wanted
    <2>1. u \in r.seeking[q] /\ ~(u = s /\ q = p)
      <3>1. u \in S[q]
        BY <1>2, <1>4
      <3>2. CASE q = p
        BY <1>1, <3>1, <3>2
      <3>3. CASE q # p
        BY <1>1, <3>1, <3>3
      <3> QED
        BY <3>2, <3>3
    <2>2. <<u, q>> \in r.wanted
      BY <1>2, <1>4, <2>1 DEF Orderly
    <2> QED
      BY <1>1, <1>2, <2>1, <2>2
  <1>5. Orderly(end, seeking)
    <2>1. /\ \A j \in 1..MatchMax : end.match[j].sides # {} => j <= end.made
          /\ \A u \in Clients : end.pending[u] # 0 => u \in end.match[end.pending[u]].sides
      BY <1>2 DEF Orderly
    <2>2. \A u \in Clients : \A q \in Pools : seeking[u] = "closed" => <<u, q>> \notin end.wanted
      BY <1>1, <1>2 DEF Orderly
    <2> QED
      BY <1>2, <1>3, <1>4, <2>1, <2>2 DEF Orderly
  <1>6. ASSUME NEW u \in Clients \ end.crossed, NEW q \in Pools,
               seeking[u] # "closing", <<u, q>> \in end.wanted
        PROVE  Waits(end, u, q)
    <2>1. <<u, q>> \in r.wanted /\ ~(u = s /\ q = p)
      BY <1>1, <1>2, <1>6
    <2>2. Waits(r, u, q)
      BY <1>2, <1>6, <2>1 DEF NoneLost
    <2> QED
      BY <1>1, <1>2, <2>1, <2>2 DEF Waits
  <1> QED
    BY <1>5, <1>6 DEF AllWait

\* The types that the steps share.
LEMMA RelayTypes ==
  ASSUME MatchInv
  PROVE  /\ relay \in Records /\ relay.made \in Nat /\ MatchMax \in Nat
         /\ old \subseteq Clients /\ seeking \in [Clients -> {"open", "closing", "closed"}]
         /\ Matching!CanPropose => relay.made + 2 <= MatchMax /\ relay.made + 1 <= MatchMax
  <1>1. relay \in Records
    BY DEF MatchInv, Orderly
  <1>2. relay.made \in Nat
    BY <1>1 DEF Records
  <1>3. MatchMax \in Nat
    BY PageAssumption DEF Matching!MatchingAssumption
  <1>4. old \subseteq Clients /\ seeking \in [Clients -> {"open", "closing", "closed"}]
    BY DEF MatchInv, Matching!TypeOK
  <1>5. Matching!CanPropose => relay.made + 2 <= MatchMax
    BY DEF Matching!CanPropose
  <1> QED
    BY <1>1, <1>2, <1>3, <1>4, <1>5

\* Where a socket that the relay knows by no proposal of a pool cannot be.
LEMMA NotThere ==
  ASSUME MatchInv, NEW s \in Clients \ relay.crossed, NEW j \in 1..MatchMax,
         s \in relay.match[j].sides
  PROVE  /\ relay.pending[s] = j /\ j # 0 /\ relay.match[j].pool \in Pools
         /\ s \notin relay.seeking[relay.match[j].pool]
  <1>1. relay.pending[s] = j /\ s \notin relay.seeking[relay.match[j].pool]
    BY DEF MatchInv, Orderly
  <1>2. relay.match[j].pool \in Pools
    BY RelayTypes, SidesAreClients
  <1>3. j # 0
    BY RelayTypes
  <1> QED
    BY <1>1, <1>2, <1>3

\* The proposal that the relay knows a socket by has the socket as a side.
LEMMA KnownBy ==
  ASSUME MatchInv, NEW s \in Clients, relay.pending[s] # 0
  PROVE  /\ relay.pending[s] \in 1..MatchMax
         /\ s \in relay.match[relay.pending[s]].sides
         /\ relay.match[relay.pending[s]].pool \in Pools
  <1>1. relay.pending[s] \in 0..MatchMax
    BY RelayTypes DEF Records
  <1>2. relay.pending[s] \in 1..MatchMax
    BY <1>1, RelayTypes
  <1>3. s \in relay.match[relay.pending[s]].sides
    BY DEF MatchInv, Orderly
  <1> QED
    BY <1>2, <1>3, RelayTypes, SidesAreClients

\* seek.set: a socket with no proposal seeks, and is tried at once.
LEMMA SeekSetKeeps ==
  ASSUME MatchInv, NEW s \in Clients, NEW p \in Pools, Matching!SeekSet(s, p)
  PROVE  Orderly(relay', seeking) /\ AllWait(relay', seeking)
  <1> DEFINE set == [relay EXCEPT !.seeking[p] = @ \cup {s}, !.wanted = @ \cup {<<s, p>>}]
             S == [relay.seeking EXCEPT ![p] = @ \cup {s}]
             W == relay.wanted \cup {<<s, p>>}
  <1>t. /\ relay \in Records /\ relay.made \in Nat /\ MatchMax \in Nat
        /\ relay.made + 1 <= MatchMax
    BY RelayTypes DEF Matching!SeekSet
  <1>r. PICK r \in Matching!TryMatch(set, p, s) : relay' = Matching!Prune(r, {p})
    BY DEF Matching!SeekSet
  <1>s. seeking[s] # "closed" /\ relay.pending[s] = 0
    BY DEF Matching!SeekSet
  <1>n. S \in [Pools -> SUBSET Clients] /\ W \in SUBSET (Clients \X Pools)
    BY <1>t DEF Records
  <1>f. set = [relay EXCEPT !.seeking = S, !.wanted = W]
    BY <1>t DEF Records
  <1>1. /\ \A q \in Pools : S[q] = IF q = p THEN relay.seeking[p] \cup {s} ELSE relay.seeking[q]
        /\ \A u, q : <<u, q>> \in W <=> <<u, q>> \in relay.wanted \/ (u = s /\ q = p)
    BY <1>t DEF Records
  <1> HIDE DEF S, W, set
  <1>2. /\ set \in Records /\ set.seeking = S /\ set.wanted = W /\ set.match = relay.match
        /\ set.pending = relay.pending /\ set.made = relay.made /\ set.crossed = relay.crossed
    BY <1>t, <1>n, <1>f DEF Records
  <1>w. Orderly(relay, seeking) /\ AllWait(relay, seeking)
    BY DEF MatchInv
  <1>o. /\ \A u \in Clients \ relay.crossed : \A j \in 1..MatchMax :
             u \in relay.match[j].sides =>
               /\ relay.pending[u] = j /\ u \notin relay.seeking[relay.match[j].pool]
               /\ <<u, relay.match[j].pool>> \in relay.wanted
        /\ \A u \in Clients \ relay.crossed : \A q \in Pools :
             u \in relay.seeking[q] => <<u, q>> \in relay.wanted
        /\ \A u \in Clients : \A q \in Pools : seeking[u] = "closed" => <<u, q>> \notin relay.wanted
    BY <1>w, InOrder
  <1>3. ASSUME NEW u \in Clients \ set.crossed, NEW j \in 1..MatchMax, u \in set.match[j].sides
        PROVE  /\ set.pending[u] = j /\ u \notin set.seeking[set.match[j].pool]
               /\ <<u, set.match[j].pool>> \in set.wanted
    <2>1. /\ relay.pending[u] = j /\ u \notin relay.seeking[relay.match[j].pool]
          /\ <<u, relay.match[j].pool>> \in relay.wanted
      BY <1>2, <1>3, <1>o
    <2>2. relay.match[j].pool \in Pools
      BY <1>t, <1>2, <1>3, SidesAreClients
    <2>3. u # s
      BY <1>s, <2>1
    <2>4. set.match[j].pool = relay.match[j].pool
      BY <1>2
    <2>5. u \notin S[relay.match[j].pool]
      BY <1>1, <2>1, <2>2, <2>3
    <2> QED
      BY <1>1, <1>2, <2>1, <2>4, <2>5
  <1>4. ASSUME NEW u \in Clients \ set.crossed, NEW q \in Pools, u \in set.seeking[q]
        PROVE  <<u, q>> \in set.wanted
    <2>1. u \in relay.seeking[q] \/ (u = s /\ q = p)
      <3>1. u \in S[q]
        BY <1>2, <1>4
      <3>2. CASE q = p
        BY <1>1, <3>1, <3>2
      <3>3. CASE q # p
        BY <1>1, <3>1, <3>3
      <3> QED
        BY <3>2, <3>3
    <2>2. u \in relay.seeking[q] => <<u, q>> \in relay.wanted
      BY <1>2, <1>4, <1>o
    <2> QED
      BY <1>1, <1>2, <2>1, <2>2
  <1>5. Orderly(set, seeking)
    <2>1. /\ \A j \in 1..MatchMax : set.match[j].sides # {} => j <= set.made
          /\ \A u \in Clients : set.pending[u] # 0 => u \in set.match[set.pending[u]].sides
      BY <1>2, <1>w DEF Orderly
    <2>2. \A u \in Clients : \A q \in Pools : seeking[u] = "closed" => <<u, q>> \notin set.wanted
      BY <1>1, <1>2, <1>o, <1>s
    <2> QED
      BY <1>2, <1>3, <1>4, <2>1, <2>2 DEF Orderly
  <1>6. ASSUME NEW u \in Clients \ set.crossed, NEW q \in Pools,
               seeking[u] # "closing", <<u, q>> \in set.wanted
        PROVE  Waits(set, u, q)
    <2>1. CASE u = s /\ q = p
      <3>1. u \in S[q]
        BY <1>1, <2>1
      <3> QED
        BY <1>2, <3>1 DEF Waits
    <2>2. CASE ~(u = s /\ q = p)
      <3>1. Waits(relay, u, q)
        BY <1>1, <1>2, <1>6, <1>w, <2>2 DEF AllWait
      <3>2. u \in relay.seeking[q] => u \in S[q]
        BY <1>1
      <3> QED
        BY <1>2, <3>1, <3>2 DEF Waits
    <2> QED
      BY <2>1, <2>2
  <1>7. Orderly(set, seeking) /\ NoneLost(set, seeking, {}, p)
    BY <1>5, <1>6, NobodyLost DEF AllWait
  <1>8. Orderly(r, seeking) /\ NoneLost(r, seeking, {}, p)
    <2>1. set.made + 1 <= MatchMax /\ {} \in SUBSET Clients
      BY <1>t, <1>2
    <2> QED
      BY <1>t, <1>r, <1>7, <2>1, TryMatchKeeps
  <1>9. Orderly(relay', seeking) /\ NoneLost(relay', seeking, {}, p)
    BY <1>r, <1>8, PrunedFirst
  <1> QED
    BY <1>9, NobodyLost

\* seek.clear: the proposal that the relay knows the socket by is cancelled, if it is of the pool.
LEMMA SeekClearKeeps ==
  ASSUME MatchInv, NEW s \in Clients, NEW p \in Pools, Matching!SeekClear(s, p)
  PROVE  Orderly(relay', seeking) /\ AllWait(relay', seeking)
  <1> DEFINE i == relay.pending[s]
             known == i # 0 /\ relay.match[i].pool = p
             Left(r) == [r EXCEPT !.seeking[p] = @ \ {s}, !.wanted = @ \ {<<s, p>>}]
  <1>t. /\ relay \in Records /\ relay.made + 2 <= MatchMax
        /\ Orderly(relay, seeking) /\ AllWait(relay, seeking) /\ Matching!TypeOK
    BY RelayTypes DEF Matching!SeekClear, MatchInv
  <1>r. PICK r \in IF known THEN Matching!Cancel(relay, i, {s}) ELSE {relay} :
                 relay' = Matching!Prune(Left(r), {p})
    BY DEF Matching!SeekClear
  <1>1. \E X \in SUBSET {s} : Orderly(r, seeking) /\ NoneLost(r, seeking, X, p) /\
           (s \notin r.crossed =>
              \A j \in 1..MatchMax : ~(r.match[j].pool = p /\ s \in r.match[j].sides))
    <2>1. CASE known
      <3> DEFINE X == GaveUp(relay, i, {s})
      <3>1. i \in 1..MatchMax /\ s \in relay.match[i].sides
        BY <2>1, KnownBy
      <3>2. r \in Matching!Cancel(relay, i, {s}) /\ p = relay.match[i].pool
        BY <1>r, <2>1
      <3>3. X = {s}
        BY <3>1 DEF GaveUp
      <3> HIDE DEF i, X, known
      <3>4. Orderly(r, seeking) /\ NoneLost(r, seeking, GaveUp(relay, i, {s}), p)
        BY <1>t, <3>1, <3>2, CancelKeeps
      <3>5. NoneLost(r, seeking, X, p)
        BY <3>4 DEF X
      <3>6. s \notin r.crossed => \A j \in 1..MatchMax : s \notin r.match[j].sides
        BY <3>3, <3>5 DEF NoneLost
      <3> QED
        BY <3>3, <3>4, <3>5, <3>6
    <2>2. CASE ~known
      <3>1. r = relay
        BY <1>r, <2>2
      <3>2. NoneLost(relay, seeking, {}, p)
        BY <1>t, NobodyLost
      <3>3. ASSUME s \notin relay.crossed, NEW j \in 1..MatchMax, relay.match[j].pool = p,
                   s \in relay.match[j].sides
            PROVE  FALSE
        <4>1. i = j /\ j # 0
          BY <3>3, NotThere
        <4> QED
          BY <2>2, <3>3, <4>1
      <3> QED
        BY <1>t, <3>1, <3>2, <3>3
    <2> QED
      BY <2>1, <2>2
  <1>2. PICK X \in SUBSET {s} : Orderly(r, seeking) /\ NoneLost(r, seeking, X, p) /\
           (s \notin r.crossed =>
              \A j \in 1..MatchMax : ~(r.match[j].pool = p /\ s \in r.match[j].sides))
    BY <1>1
  <1> DEFINE left == Left(r)
  <1>3. left = [r EXCEPT !.seeking[p] = @ \ {s}, !.wanted = @ \ {<<s, p>>}]
    OBVIOUS
  <1>4. relay' = Matching!Prune(left, {p})
    BY <1>r
  <1> HIDE DEF left, Left
  <1>5. Orderly(left, seeking) /\ AllWait(left, seeking)
    BY <1>2, <1>3, LeaveKeeps
  <1>6. Orderly(left, seeking) /\ NoneLost(left, seeking, {}, p)
    BY <1>5, NobodyLost
  <1>7. Orderly(relay', seeking) /\ NoneLost(relay', seeking, {}, p)
    BY <1>4, <1>6, PrunedFirst
  <1> QED
    BY <1>7, NobodyLost

\* pruneMap(): a seek expires.
LEMMA SeekExpiresKeeps ==
  ASSUME MatchInv, NEW s \in Clients, NEW p \in Pools, Matching!SeekExpires(s, p)
  PROVE  Orderly(relay', seeking) /\ AllWait(relay', seeking)
  <1>1. NoneLost(relay, seeking, {}, p) /\ Orderly(relay, seeking) /\ {} \in SUBSET {s}
    BY NobodyLost DEF MatchInv
  <1>2. ASSUME s \notin relay.crossed, NEW j \in 1..MatchMax, relay.match[j].pool = p,
               s \in relay.match[j].sides
        PROVE  FALSE
    BY <1>2, NotThere DEF Matching!SeekExpires
  <1>3. relay' = [relay EXCEPT !.seeking[p] = @ \ {s}, !.wanted = @ \ {<<s, p>>}]
    BY DEF Matching!SeekExpires
  <1> QED
    BY <1>1, <1>2, <1>3, LeaveKeeps

\* The timer: a proposal expires, and nobody gave it up.
LEMMA ProposalExpiresKeeps ==
  ASSUME MatchInv, NEW i \in 1..MatchMax, Matching!ProposalExpires(i)
  PROVE  Orderly(relay', seeking) /\ AllWait(relay', seeking)
  <1> DEFINE p == relay.match[i].pool
  <1>1. /\ relay \in Records /\ relay.made + 2 <= MatchMax
        /\ Orderly(relay, seeking) /\ AllWait(relay, seeking) /\ Matching!TypeOK
    BY RelayTypes DEF Matching!ProposalExpires, MatchInv
  <1>2. relay' \in Matching!Cancel(relay, i, {}) /\ relay.match[i] # Matching!NoMatch
    BY DEF Matching!ProposalExpires
  <1>3. p \in Pools
    BY <1>1, <1>2 DEF Records, Matching!Proposals
  <1>4. GaveUp(relay, i, {}) = {}
    BY DEF GaveUp
  <1>5. ASSUME NEW r \in Matching!Cancel(relay, i, {})
        PROVE  Orderly(r, seeking) /\ AllWait(r, seeking)
    <2> HIDE DEF p
    <2>1. p \in Pools /\ p = relay.match[i].pool
      BY <1>3 DEF p
    <2>2. Orderly(r, seeking) /\ NoneLost(r, seeking, GaveUp(relay, i, {}), p)
      BY <1>1, <2>1, CancelKeeps
    <2>3. NoneLost(r, seeking, {}, p)
      BY <1>4, <2>2
    <2> QED
      BY <2>2, <2>3, NobodyLost
  <1> QED
    BY <1>2, <1>5

\* seek.ack: the first is noted, the second makes the match.
LEMMA SeekAckKeeps ==
  ASSUME MatchInv, NEW s \in Clients, NEW i \in 1..MatchMax, Matching!SeekAck(s, i)
  PROVE  Orderly(relay', seeking) /\ AllWait(relay', seeking)
  <1> DEFINE m == relay.match[i]
             both == m.sides \subseteq m.acks \cup {s}
             p == m.pool
  <1>t. relay \in Records /\ m \in Matching!Proposals /\ 0 \in 0..MatchMax
    BY RelayTypes DEF Records
  <1>w. Orderly(relay, seeking) /\ AllWait(relay, seeking)
    BY DEF MatchInv
  <1>s. s \in m.sides /\ m.sides \in SUBSET Clients /\ p \in Pools
    BY <1>t, SidesAreClients DEF Matching!SeekAck
  <1>o. /\ \A u \in Clients \ relay.crossed : \A j \in 1..MatchMax :
             u \in relay.match[j].sides =>
               /\ relay.pending[u] = j /\ u \notin relay.seeking[relay.match[j].pool]
               /\ <<u, relay.match[j].pool>> \in relay.wanted
        /\ \A u \in Clients \ relay.crossed : \A q \in Pools :
             u \in relay.seeking[q] => <<u, q>> \in relay.wanted
        /\ \A u \in Clients : \A q \in Pools : seeking[u] = "closed" => <<u, q>> \notin relay.wanted
        /\ \A u \in Clients : relay.pending[u] # 0 => u \in relay.match[relay.pending[u]].sides
        /\ \A j \in 1..MatchMax : relay.match[j].sides # {} => j <= relay.made
    BY <1>w, InOrder
  <1>1. CASE ~both
    <2> DEFINE acked == [pool |-> p, sides |-> m.sides, acks |-> m.acks \cup {s}]
               M == [relay.match EXCEPT ![i] = acked]
    <2>1. m # Matching!NoMatch
      BY <1>s DEF Matching!NoMatch
    <2>2. m = [pool |-> p, sides |-> m.sides, acks |-> m.acks] /\ m.acks \in SUBSET Clients
      BY <1>t, <2>1 DEF Matching!Proposals
    <2>3. acked \in Matching!Proposals
      BY <1>s, <2>2 DEF Matching!Proposals
    <2>4. relay' = [relay EXCEPT !.match = M]
      <3>1. relay' = [relay EXCEPT !.match[i].acks = @ \cup {s}]
        BY <1>1 DEF Matching!SeekAck
      <3>2. [m EXCEPT !.acks = @ \cup {s}] = acked
        BY <2>2
      <3> QED
        BY <1>t, <3>1, <3>2 DEF Records
    <2>5. M \in [1..MatchMax -> Matching!Proposals]
      BY <1>t, <2>3 DEF Records
    <2>6. \A j \in 1..MatchMax :
            M[j].sides = relay.match[j].sides /\ M[j].pool = relay.match[j].pool
      BY <1>t DEF Records
    <2> HIDE DEF M
    <2>7. /\ relay' \in Records /\ relay'.match = M /\ relay'.seeking = relay.seeking
          /\ relay'.pending = relay.pending /\ relay'.made = relay.made
          /\ relay'.wanted = relay.wanted /\ relay'.crossed = relay.crossed
      BY <1>t, <2>4, <2>5 DEF Records
    <2>8. \A u \in Clients : relay.pending[u] # 0 => relay.pending[u] \in 1..MatchMax
      BY KnownBy
    <2>9. Orderly(relay', seeking)
      <3>1. ASSUME NEW u \in Clients \ relay'.crossed, NEW j \in 1..MatchMax,
                   u \in relay'.match[j].sides
            PROVE  /\ relay'.pending[u] = j /\ u \notin relay'.seeking[relay'.match[j].pool]
                   /\ <<u, relay'.match[j].pool>> \in relay'.wanted
        BY <1>o, <2>6, <2>7, <3>1
      <3>2. \A j \in 1..MatchMax : relay'.match[j].sides # {} => j <= relay'.made
        BY <1>o, <2>6, <2>7
      <3>3. \A u \in Clients : relay'.pending[u] # 0 => u \in relay'.match[relay'.pending[u]].sides
        BY <1>o, <2>6, <2>7, <2>8
      <3> QED
        BY <1>o, <2>7, <3>1, <3>2, <3>3 DEF Orderly
    <2>10. \A u, q : Waits(relay, u, q) => Waits(relay', u, q)
      BY <2>6, <2>7 DEF Waits
    <2> QED
      BY <1>w, <2>7, <2>9, <2>10 DEF AllWait
  <1>2. CASE both
    <2> DEFINE W == relay.wanted \ (m.sides \X {p})
               N == [u \in Clients |-> IF u \in m.sides THEN 0 ELSE relay.pending[u]]
               M == [relay.match EXCEPT ![i] = Matching!NoMatch]
    <2>1. relay' = [relay EXCEPT !.match = M, !.pending = N, !.wanted = W]
      BY <1>t, <1>2 DEF Matching!SeekAck, Matching!Forget, Records
    <2>2. M \in [1..MatchMax -> Matching!Proposals]
      BY <1>t DEF Records, Matching!Proposals
    <2>3. N \in [Clients -> 0..MatchMax]
      BY <1>t DEF Records
    <2>4. W \in SUBSET (Clients \X Pools)
      BY <1>t DEF Records
    <2>5. /\ \A j \in 1..MatchMax : M[j] = IF j = i THEN Matching!NoMatch ELSE relay.match[j]
          /\ \A u \in Clients : N[u] = IF u \in m.sides THEN 0 ELSE relay.pending[u]
          /\ \A u, q : <<u, q>> \in W <=> <<u, q>> \in relay.wanted /\ ~(u \in m.sides /\ q = p)
      BY <1>t DEF Records
    <2>e. Matching!NoMatch.sides = {}
      BY DEF Matching!NoMatch
    <2> HIDE DEF M, N, W
    <2>6. /\ relay' \in Records /\ relay'.match = M /\ relay'.seeking = relay.seeking
          /\ relay'.pending = N /\ relay'.made = relay.made
          /\ relay'.wanted = W /\ relay'.crossed = relay.crossed
      BY <1>t, <2>1, <2>2, <2>3, <2>4 DEF Records
    <2>7. ASSUME NEW u \in Clients \ relay'.crossed, NEW j \in 1..MatchMax,
                 u \in relay'.match[j].sides
          PROVE  /\ relay'.pending[u] = j /\ u \notin relay'.seeking[relay'.match[j].pool]
                 /\ <<u, relay'.match[j].pool>> \in relay'.wanted
      <3>1. j # i /\ M[j] = relay.match[j] /\ relay'.match[j] = relay.match[j]
        BY <2>5, <2>6, <2>7, <2>e
      <3>2. /\ relay.pending[u] = j /\ u \notin relay.seeking[relay.match[j].pool]
            /\ <<u, relay.match[j].pool>> \in relay.wanted
        BY <1>o, <2>6, <2>7, <3>1
      <3>3. u \notin m.sides
        BY <1>o, <2>6, <3>1, <3>2
      <3> QED
        BY <2>5, <2>6, <3>1, <3>2, <3>3
    <2>8. ASSUME NEW u \in Clients \ relay'.crossed, NEW q \in Pools, u \in relay'.seeking[q]
          PROVE  <<u, q>> \in relay'.wanted
      <3>1. <<u, q>> \in relay.wanted
        BY <1>o, <2>6, <2>8
      <3>2. ~(u \in m.sides /\ q = p)
        BY <1>o, <2>6, <2>8
      <3> QED
        BY <2>5, <2>6, <3>1, <3>2
    <2>9. ASSUME NEW u \in Clients, relay'.pending[u] # 0
          PROVE  u \in relay'.match[relay'.pending[u]].sides
      <3>1. u \notin m.sides /\ N[u] = relay.pending[u]
        BY <2>5, <2>6, <2>9
      <3>2. relay.pending[u] \in 1..MatchMax /\ u \in relay.match[relay.pending[u]].sides
        BY <2>6, <2>9, <3>1, KnownBy
      <3>3. relay.pending[u] # i
        BY <3>1, <3>2
      <3> QED
        BY <2>5, <2>6, <3>1, <3>2, <3>3
    <2>10. Orderly(relay', seeking)
      <3>1. \A j \in 1..MatchMax : relay'.match[j].sides # {} => j <= relay'.made
        BY <1>o, <2>5, <2>6, <2>e
      <3>2. \A u \in Clients : \A q \in Pools :
              seeking[u] = "closed" => <<u, q>> \notin relay'.wanted
        BY <1>o, <2>5, <2>6
      <3> QED
        BY <2>6, <2>7, <2>8, <2>9, <3>1, <3>2 DEF Orderly
    <2>11. ASSUME NEW u \in Clients \ relay'.crossed, NEW q \in Pools,
                  seeking[u] # "closing", <<u, q>> \in relay'.wanted
           PROVE  Waits(relay', u, q)
      <3>1. <<u, q>> \in relay.wanted /\ ~(u \in m.sides /\ q = p)
        BY <2>5, <2>6, <2>11
      <3>2. Waits(relay, u, q)
        BY <1>w, <2>6, <2>11, <3>1 DEF AllWait
      <3>3. CASE u \in relay.seeking[q]
        BY <2>6, <3>3 DEF Waits
      <3>4. ASSUME NEW j \in 1..MatchMax, relay.match[j].pool = q, u \in relay.match[j].sides
            PROVE  Waits(relay', u, q)
        <4>1. j # i
          BY <3>1, <3>4
        <4>2. relay'.match[j] = relay.match[j]
          BY <2>5, <2>6, <4>1
        <4> QED
          BY <3>4, <4>2 DEF Waits
      <3> QED
        BY <3>2, <3>3, <3>4 DEF Waits
    <2> QED
      BY <2>10, <2>11 DEF AllWait
  <1> QED
    BY <1>1, <1>2

\* A socket that begins to close keeps its places, and no longer counts.
LEMMA ClosingKeeps ==
  ASSUME MatchInv, NEW s \in Clients, Matching!Closing(s)
  PROVE  Orderly(relay', seeking') /\ AllWait(relay', seeking')
  <1>1. relay' = relay /\ Orderly(relay, seeking) /\ AllWait(relay, seeking)
    BY DEF MatchInv, Matching!Closing
  <1>2. \A u \in Clients : /\ seeking'[u] = "closed" => seeking[u] = "closed"
                           /\ seeking'[u] # "closing" => seeking[u] # "closing"
    BY RelayTypes DEF Matching!Closing
  <1>3. Orderly(relay', seeking')
    BY <1>1, <1>2 DEF Orderly
  <1>4. AllWait(relay', seeking')
    BY <1>1, <1>2 DEF AllWait
  <1> QED
    BY <1>3, <1>4

\* A socket that is gone has no seek and waits nowhere, and the others wait where they did.
LEMMA GoneKeeps ==
  ASSUME NEW r, NEW ph, NEW to, NEW s \in Clients, NEW p, NEW X \in SUBSET {s},
         Orderly(r, ph), NoneLost(r, ph, X, p), \A u \in Clients : u # s => to[u] = ph[u],
         \A q \in Pools : s \notin r.seeking[q],
         s \notin r.crossed => \A j \in 1..MatchMax : s \notin r.match[j].sides,
         NEW end, end = [r EXCEPT !.wanted = @ \ ({s} \X Pools)]
  PROVE  Orderly(end, to) /\ AllWait(end, to)
  <1>t. r \in Records
    BY DEF Orderly
  <1> DEFINE W == r.wanted \ ({s} \X Pools)
  <1>1. W \in SUBSET (Clients \X Pools)
    BY <1>t DEF Records
  <1>2. \A u \in Clients : \A q \in Pools : <<u, q>> \in W <=> <<u, q>> \in r.wanted /\ u # s
    OBVIOUS
  <1>f. end = [r EXCEPT !.wanted = W]
    BY <1>t DEF Records
  <1> HIDE DEF W
  <1>3. /\ end \in Records /\ end.wanted = W /\ end.seeking = r.seeking /\ end.match = r.match
        /\ end.pending = r.pending /\ end.made = r.made /\ end.crossed = r.crossed
    BY <1>t, <1>1, <1>f DEF Records
  <1>4. ASSUME NEW u \in Clients \ end.crossed, NEW j \in 1..MatchMax, u \in end.match[j].sides
        PROVE  /\ end.pending[u] = j /\ u \notin end.seeking[end.match[j].pool]
               /\ <<u, end.match[j].pool>> \in end.wanted
    <2>1. /\ r.pending[u] = j /\ u \notin r.seeking[r.match[j].pool]
          /\ <<u, r.match[j].pool>> \in r.wanted
      BY <1>3, <1>4 DEF Orderly
    <2>2. r.match[j].pool \in Pools
      BY <1>t, <1>3, <1>4, SidesAreClients
    <2>3. u # s
      BY <1>3, <1>4
    <2> QED
      BY <1>2, <1>3, <2>1, <2>2, <2>3
  <1>5. ASSUME NEW u \in Clients \ end.crossed, NEW q \in Pools, u \in end.seeking[q]
        PROVE  <<u, q>> \in end.wanted
    <2>1. u # s /\ <<u, q>> \in r.wanted
      BY <1>3, <1>5 DEF Orderly
    <2> QED
      BY <1>2, <1>3, <2>1
  <1>6. Orderly(end, to)
    <2>1. /\ \A j \in 1..MatchMax : end.match[j].sides # {} => j <= end.made
          /\ \A u \in Clients : end.pending[u] # 0 => u \in end.match[end.pending[u]].sides
      BY <1>3 DEF Orderly
    <2>2. ASSUME NEW u \in Clients, NEW q \in Pools, to[u] = "closed"
          PROVE  <<u, q>> \notin end.wanted
      BY <1>2, <1>3, <2>2 DEF Orderly
    <2> QED
      BY <1>3, <1>4, <1>5, <2>1, <2>2 DEF Orderly
  <1>7. ASSUME NEW u \in Clients \ end.crossed, NEW q \in Pools,
               to[u] # "closing", <<u, q>> \in end.wanted
        PROVE  Waits(end, u, q)
    <2>1. u # s /\ <<u, q>> \in r.wanted
      BY <1>2, <1>3, <1>7
    <2>2. Waits(r, u, q)
      BY <1>3, <1>7, <2>1 DEF NoneLost
    <2> QED
      BY <1>3, <2>2 DEF Waits
  <1> QED
    BY <1>6, <1>7 DEF AllWait

\* removeSocket(): the proposal the relay knows it by is cancelled, and it leaves every pool.
LEMMA RemoveSocketKeeps ==
  ASSUME MatchInv, NEW s \in Clients, Matching!RemoveSocket(s)
  PROVE  Orderly(relay', seeking') /\ AllWait(relay', seeking')
  <1> DEFINE i == relay.pending[s]
  <1>t. /\ relay \in Records /\ relay.made + 2 <= MatchMax
        /\ Orderly(relay, seeking) /\ AllWait(relay, seeking) /\ Matching!TypeOK
    BY RelayTypes DEF Matching!RemoveSocket, MatchInv
  <1>s. seeking[s] = "closing" /\ \A u \in Clients : u # s => seeking'[u] = seeking[u]
    BY RelayTypes DEF Matching!RemoveSocket
  <1>r. PICK r \in IF i # 0 THEN Matching!Cancel(relay, i, {s}) ELSE {relay} :
           relay' = [Matching!Prune(r, {p \in Pools : s \in r.seeking[p]}) EXCEPT
                       !.wanted = @ \ ({s} \X Pools)]
    BY DEF Matching!RemoveSocket
  <1>1. \E X, p :
           /\ X \in SUBSET {s} /\ Orderly(r, seeking) /\ NoneLost(r, seeking, X, p)
           /\ (X # {} => p \in Pools)
           /\ (s \notin r.crossed => \A j \in 1..MatchMax : s \notin r.match[j].sides)
    <2>1. CASE i # 0
      <3> DEFINE X == GaveUp(relay, i, {s})
                 p == relay.match[i].pool
      <3>1. i \in 1..MatchMax /\ s \in relay.match[i].sides /\ p \in Pools
        BY <2>1, KnownBy
      <3>2. r \in Matching!Cancel(relay, i, {s}) /\ p = relay.match[i].pool
        BY <1>r, <2>1
      <3>3. X = {s}
        BY <3>1 DEF GaveUp
      <3> HIDE DEF i, X, p
      <3>4. Orderly(r, seeking) /\ NoneLost(r, seeking, GaveUp(relay, i, {s}), p)
        BY <1>t, <3>1, <3>2, CancelKeeps
      <3>5. NoneLost(r, seeking, X, p)
        BY <3>4 DEF X
      <3>6. s \notin r.crossed => \A j \in 1..MatchMax : s \notin r.match[j].sides
        BY <3>3, <3>5 DEF NoneLost
      <3> QED
        BY <3>1, <3>3, <3>4, <3>5, <3>6
    <2>2. CASE i = 0
      <3>1. r = relay
        BY <1>r, <2>2
      <3>2. NoneLost(relay, seeking, {}, 0)
        BY <1>t, NobodyLost
      <3>3. ASSUME s \notin relay.crossed, NEW j \in 1..MatchMax, s \in relay.match[j].sides
            PROVE  FALSE
        BY <2>2, <3>3, NotThere
      <3> QED
        BY <1>t, <3>1, <3>2, <3>3
    <2> QED
      BY <2>1, <2>2
  <1>2. PICK X, p :
           /\ X \in SUBSET {s} /\ Orderly(r, seeking) /\ NoneLost(r, seeking, X, p)
           /\ (X # {} => p \in Pools)
           /\ (s \notin r.crossed => \A j \in 1..MatchMax : s \notin r.match[j].sides)
    BY <1>1
  <1> DEFINE pools == {q \in Pools : s \in r.seeking[q]}
             left == Matching!Prune(r, pools)
  <1>3. relay' = [left EXCEPT !.wanted = @ \ ({s} \X Pools)]
    BY <1>r
  <1>4. /\ pools \in SUBSET Pools /\ \A q \in Pools : q \in pools <=> s \in r.seeking[q]
    OBVIOUS
  <1>5. left = Matching!Prune(r, pools)
    OBVIOUS
  <1> HIDE DEF left, pools
  <1>6. \E q : Orderly(left, seeking) /\ NoneLost(left, seeking, X, q)
    <2>1. CASE p \in Pools
      <3>1. Orderly(left, seeking) /\ NoneLost(left, seeking, X, p)
        <4>1. X \in SUBSET Clients
          BY <1>2
        <4> QED
          BY <1>2, <1>4, <1>5, <2>1, <4>1, PruneKeeps
      <3> QED
        BY <3>1
    <2>2. CASE p \notin Pools /\ Pools = {}
      <3>1. left = r
        <4>1. r \in Records
          BY <1>2 DEF Orderly
        <4>2. /\ left \in Records
              /\ left.seeking = Staying(r.seeking, pools)
              /\ left.wanted = r.wanted \ Leaving(r.seeking, pools)
              /\ left.made = r.made /\ left.match = r.match /\ left.crossed = r.crossed
              /\ left.pending = r.pending
          BY <1>4, <1>5, <4>1, PruneIs
        <4>3. left.seeking = r.seeking
          BY <2>2, <4>1, <4>2 DEF Records
        <4>4. left.wanted = r.wanted
          BY <2>2, <4>1, <4>2 DEF Records
        <4> QED
          BY <4>1, <4>2, <4>3, <4>4, SameRecord
      <3> QED
        BY <1>2, <3>1
    <2>3. CASE p \notin Pools /\ Pools # {}
      <3>1. PICK q \in Pools : TRUE
        BY <2>3
      <3>2. NoneLost(r, seeking, X, q)
        <4>1. X = {}
          BY <1>2, <2>3
        <4> QED
          BY <1>2, <4>1, NobodyLost
      <3>3. X \in SUBSET Clients
        BY <1>2
      <3>4. Orderly(left, seeking) /\ NoneLost(left, seeking, X, q)
        BY <1>2, <1>4, <1>5, <3>2, <3>3, PruneKeeps
      <3> QED
        BY <3>4
    <2> QED
      BY <2>1, <2>2, <2>3
  <1>7. PICK q : Orderly(left, seeking) /\ NoneLost(left, seeking, X, q)
    BY <1>6
  <1>8. /\ \A q2 \in Pools : s \notin left.seeking[q2]
        /\ s \notin left.crossed => \A j \in 1..MatchMax : s \notin left.match[j].sides
    <2>1. r \in Records
      BY <1>2 DEF Orderly
    <2>2. /\ left.seeking = Staying(r.seeking, pools)
          /\ left.match = r.match /\ left.crossed = r.crossed
      BY <1>4, <1>5, <2>1, PruneIs
    <2>3. ASSUME NEW q2 \in Pools PROVE s \notin left.seeking[q2]
      BY <1>4, <1>s, <2>2 DEF Staying, Leaving
    <2> QED
      BY <1>2, <2>2, <2>3
  <1> QED
    BY <1>2, <1>3, <1>7, <1>8, <1>s, GoneKeeps

\* Every step of the relay keeps it.
LEMMA MatchInvStep == MatchInv /\ [Matching!Next]_(Matching!matchingVars) => MatchInv'
  <1> SUFFICES ASSUME MatchInv, [Matching!Next]_(Matching!matchingVars) PROVE MatchInv'
    OBVIOUS
  <1>o. old \subseteq Clients /\ seeking \in [Clients -> {"open", "closing", "closed"}]
    BY RelayTypes
  <1>t. ASSUME Orderly(relay', seeking'), AllWait(relay', seeking'), old' \subseteq Clients,
               seeking' \in [Clients -> {"open", "closing", "closed"}]
        PROVE  MatchInv'
    <2>1. relay' \in Records
      BY <1>t DEF Orderly
    <2>2. Matching!TypeOK'
      BY <1>t, <2>1 DEF Matching!TypeOK, Records
    <2>3. Orderly(relay, seeking)'
      BY <1>t DEF Orderly, Records
    <2>4. AllWait(relay, seeking)'
      BY <1>t DEF AllWait, Waits
    <2> QED
      BY <2>2, <2>3, <2>4 DEF MatchInv
  <1>1. CASE UNCHANGED <<seeking, old, relay>>
    BY <1>1, <1>t, <1>o DEF MatchInv
  <1>2. ASSUME NEW s \in Clients, Matching!Closing(s) PROVE MatchInv'
    <2>1. seeking' \in [Clients -> {"open", "closing", "closed"}] /\ old' = old
      BY <1>2, <1>o DEF Matching!Closing
    <2> QED
      BY <1>2, <1>o, <1>t, <2>1, ClosingKeeps
  <1>3. ASSUME NEW s \in Clients, Matching!RemoveSocket(s) PROVE MatchInv'
    <2>1. seeking' \in [Clients -> {"open", "closing", "closed"}] /\ old' = old
      BY <1>3, <1>o DEF Matching!RemoveSocket
    <2> QED
      BY <1>3, <1>o, <1>t, <2>1, RemoveSocketKeeps
  <1>4. ASSUME NEW s \in Clients, NEW p \in Pools, Matching!SeekSet(s, p) PROVE MatchInv'
    <2>1. seeking' = seeking /\ old' = old
      BY <1>4 DEF Matching!SeekSet
    <2> QED
      BY <1>4, <1>o, <1>t, <2>1, SeekSetKeeps
  <1>5. ASSUME NEW s \in Clients, NEW p \in Pools, Matching!SeekClear(s, p) PROVE MatchInv'
    <2>1. seeking' = seeking /\ old' = old
      BY <1>5 DEF Matching!SeekClear
    <2> QED
      BY <1>5, <1>o, <1>t, <2>1, SeekClearKeeps
  <1>6. ASSUME NEW s \in Clients, NEW p \in Pools, Matching!SeekExpires(s, p) PROVE MatchInv'
    <2>1. seeking' = seeking /\ old' = old
      BY <1>6 DEF Matching!SeekExpires
    <2> QED
      BY <1>6, <1>o, <1>t, <2>1, SeekExpiresKeeps
  <1>7. ASSUME NEW s \in Clients, NEW i \in 1..MatchMax, Matching!SeekAck(s, i) PROVE MatchInv'
    <2>1. seeking' = seeking /\ old' = old
      BY <1>7 DEF Matching!SeekAck
    <2> QED
      BY <1>7, <1>o, <1>t, <2>1, SeekAckKeeps
  <1>8. ASSUME NEW i \in 1..MatchMax, Matching!ProposalExpires(i) PROVE MatchInv'
    <2>1. seeking' = seeking /\ old' = old
      BY <1>8 DEF Matching!ProposalExpires
    <2> QED
      BY <1>8, <1>o, <1>t, <2>1, ProposalExpiresKeeps
  <1> QED
    BY <1>1, <1>2, <1>3, <1>4, <1>5, <1>6, <1>7, <1>8 DEF Matching!Next, Matching!matchingVars

\* It holds in the beginning.
LEMMA MatchInvBegins == Matching!Init => MatchInv
  <1> SUFFICES ASSUME Matching!Init PROVE MatchInv
    OBVIOUS
  <1>0. 0 \in 0..MatchMax /\ Matching!NoMatch \in Matching!Proposals
    BY PageAssumption DEF Matching!MatchingAssumption, Matching!Proposals
  <1>1. relay \in Records
    BY <1>0 DEF Matching!Init, Records
  <1>2. Matching!TypeOK
    BY <1>1 DEF Matching!Init, Matching!TypeOK, Records
  <1>3. /\ relay.wanted = {} /\ \A p \in Pools : relay.seeking[p] = {}
        /\ \A i \in 1..MatchMax : relay.match[i].sides = {}
        /\ \A s \in Clients : relay.pending[s] = 0
    BY DEF Matching!Init, Matching!NoMatch
  <1>4. Orderly(relay, seeking)
    BY <1>1, <1>3 DEF Orderly
  <1>5. AllWait(relay, seeking)
    BY <1>3 DEF AllWait
  <1> QED
    BY <1>2, <1>4, <1>5 DEF MatchInv

\* It says that a seek is held in one place.
LEMMA HeldInOnePlace == MatchInv => SeekHeldOnce
  <1> SUFFICES ASSUME MatchInv, NEW s \in Clients \ relay.crossed, NEW p \in Pools,
                      seeking[s] # "closing"
               PROVE  Matching!Places(s, p) = IF <<s, p>> \in relay.wanted THEN 1 ELSE 0
    BY DEF SeekHeldOnce, Matching!SeekHeldOnce
  <1> DEFINE I == {i \in 1..MatchMax : relay.match[i].pool = p /\ s \in relay.match[i].sides}
  <1>p. Matching!Places(s, p) = (IF s \in relay.seeking[p] THEN 1 ELSE 0) + Cardinality(I)
    <2>1. Matching!Cardinality(I) = Cardinality(I)
      BY DEF Matching!Cardinality, Cardinality
    <2> QED
      BY <2>1 DEF Matching!Places
  <1>o. Orderly(relay, seeking) /\ AllWait(relay, seeking)
    BY DEF MatchInv
  <1>1. \A i \in I : /\ relay.pending[s] = i /\ s \notin relay.seeking[p]
                     /\ <<s, p>> \in relay.wanted
    BY <1>o DEF Orderly
  <1>2. s \in relay.seeking[p] => <<s, p>> \in relay.wanted
    BY <1>o DEF Orderly
  <1>3. <<s, p>> \in relay.wanted => s \in relay.seeking[p] \/ I # {}
    BY <1>o DEF AllWait, Waits
  <1>4. I = {} => Cardinality(I) = 0
    BY FS_EmptySet
  <1>5. ASSUME I # {} PROVE Cardinality(I) = 1
    <2>1. PICK i \in I : TRUE
      BY <1>5
    <2>2. I = {i}
      BY <1>1, <2>1
    <2> HIDE DEF I
    <2> QED
      BY <2>2, FS_Singleton
  <1> HIDE DEF I
  <1>6. CASE I = {}
    BY <1>p, <1>2, <1>3, <1>4, <1>6
  <1>7. CASE I # {}
    BY <1>p, <1>1, <1>5, <1>7
  <1> QED
    BY <1>6, <1>7

\* tryMatch(), cancelPendingMatch(): whoever has set a seek is held in one place until it is
\* taken back, matched or expired, for any numbers of clients, pools and proposals.
THEOREM SeekIsHeldInOnePlace == PageSpec => []SeekHeldOnce
  <1>1. PageInit => MatchInv
    BY PartsBegin, MatchInvBegins
  <1>2. MatchInv /\ [PageNext]_vars => MatchInv'
    BY PartsStep, MatchInvStep
  <1> QED
    BY <1>1, <1>2, HeldInOnePlace, PTL DEF PageSpec
=================================================================================
