--------------------------- MODULE MCAuthorizedChannel ---------------------------
(* Small instances of AuthorizedChannel: two users with a device and a session *)
(* each, and the documents and frames the runs choose from.                    *)
EXTENDS AuthorizedChannel, TLC

CONSTANTS u1, u2, d1, d2, s1, s2, c1, c2, c3, k1, k2

MCUserOf == [d \in Devices |-> IF d = d1 THEN u1 ELSE u2]
MCDeviceOf == [s \in Sessions |-> IF s = s1 THEN d1 ELSE d2]

Doc(owner, version, fingerprint, who) ==
  [owner |-> owner, version |-> version, fingerprint |-> fingerprint, members |-> who]

Message(id, from, target) ==
  [id |-> id, from |-> from, kind |-> "persisted", target |-> target, key |-> k1,
   rev |-> 0, deleted |-> 0]

StateWrite(id, from, key, rev, deleted) ==
  [id |-> id, from |-> from, kind |-> "state", target |-> Anyone, key |-> key,
   rev |-> rev, deleted |-> deleted]

Notice(id, from) ==
  [id |-> id, from |-> from, kind |-> "transient", target |-> Anyone, key |-> k1,
   rev |-> 0, deleted |-> 0]

\* u1 owns the channel; in version 2 u2 is dropped.  A rival owner, and a second document of the same version.
RivalDocs == {Doc(1, 1, 11, {u1, u2}), Doc(1, 2, 12, {u1}), Doc(1, 2, 22, {u2}),
              Doc(2, 3, 23, {u2})}

\* One document only: nothing is revoked by the authority.
OpenDocs == {Doc(1, 1, 11, {u1, u2})}

\* One for everybody, one for the author's own connections.
Messages == {Message(1, u1, Anyone), Message(2, u1, u1)}

StateWrites == {StateWrite(1, u1, k1, 1, 0), StateWrite(2, u2, k1, 1, 1),
                StateWrite(3, u1, k1, 2, 0), StateWrite(4, u2, k2, 1, 0)}

StateAndNotice == StateWrites \cup {Notice(5, u1)}
OneMessage == {Message(1, u1, Anyone)}

ConnSymmetry == Permutations(Conns)
=============================================================================
