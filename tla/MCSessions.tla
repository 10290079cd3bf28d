----------------------------- MODULE MCSessions -----------------------------
(* Small instances of Sessions.  Connections are interchangeable, and so    *)
(* are the guests' tokens.                                                  *)
EXTENDS Sessions, TLC

CONSTANTS r1, r2

Alike == Permutations(Sids) \cup Permutations(GuestTokens)

LiveRooms == (r1 :> {"normal", "restored"}) @@ (r2 :> {"normal"})
AllRooms == (r1 :> {"normal", "restored"}) @@ (r2 :> {"normal", "async"})
LiveAndLetters == (r1 :> {"normal", "restored"}) @@ (r2 :> {"async"})

(* two instances in one run: one registered player and a guest in live      *)
(* rooms, with three connections for a room or two for both rooms; and two  *)
(* connections of anybody with a live room and a correspondence game        *)
Busy == {s \in Sids : ~SidUnused(s)}
Used == {r \in Rooms : ~RoomUnused(r)}
First == CHOOSE u \in Users : TRUE
FirstOnly ==
  /\ \A u \in Users \ {First} : /\ token[u] = NoToken /\ grace[u] = NoGrace
                              /\ \A m \in timers : m.token # u
                              /\ \A r \in Rooms : \A x \in SeatsOf(r) : x.who # u
  /\ \A s \in Sids : auth[s] \in Guests \cup {First, None}
LiveOrLetters ==
  \/ /\ FirstOnly /\ \A r \in Rooms : rooms[r].kind # "async"
     /\ Cardinality(Busy) <= 2 \/ Cardinality(Used) <= 1
  \/ Cardinality(Busy) <= 2 /\ \A r \in Rooms : rooms[r].kind \in LiveAndLetters[r] \cup {"none"}
=============================================================================
