----------------------------- MODULE Community -----------------------------
(***************************************************************************)
(* Friends, invitations and spectators (server/extras.rs, server/state.rs, *)
(* db/misc.rs).  A friendship is one row of two users, pending or          *)
(* accepted; an invitation and a spectator are recorded both with the room *)
(* and beside it, and have to go when the room goes, whoever ends it.      *)
(* Events run one at a time under the state lock; what crosses are the     *)
(* events of several users and a moderator's deletion of an account.       *)
(*                                                                         *)
(* Each user has one connection here (several are Presence's business),    *)
(* and a room is its players, its phase and its spectators.                *)
(***************************************************************************)
EXTENDS Nothing, Integers, FiniteSets

CONSTANTS
    People,          \* registered users
    Rooms,           \* rooms
    MaxPlayers,      \* room.max_players
    MaxSpectators,   \* setting max_spectators
    MaxInvites       \* bound: invitations that wait for an answer

ASSUME CommunityAssumption == None \notin Rooms \cup People

VARIABLES
    friendships,   \* rows [from, to, accepted]
    phase,         \* room -> none, waiting, playing or finished
    roomOf,        \* user -> player_rooms
    spectators,    \* room -> room.spectators
    watching,      \* user -> spectator_rooms
    invites        \* pending_invites

communityVars == <<friendships, phase, roomOf, spectators, watching, invites>>

CommunityInit ==
    /\ friendships = {}
    /\ phase = [r \in Rooms |-> "none"]
    /\ roomOf = [u \in People |-> None]
    /\ spectators = [r \in Rooms |-> {}]
    /\ watching = [u \in People |-> None]
    /\ invites = {}

Row(u, v, accepted) == [from |-> u, to |-> v, accepted |-> accepted]
RowsBetween(u, v) == {f \in friendships : {f.from, f.to} = {u, v}}
AreFriends(u, v) == \E f \in RowsBetween(u, v) : f.accepted

-----------------------------------------------------------------------------
(* Friends.                                                                *)
SendRequest(u, v) ==
    /\ u # v
    /\ RowsBetween(u, v) = {}
    /\ friendships' = friendships \cup {Row(u, v, FALSE)}
    /\ UNCHANGED <<phase, roomOf, spectators, watching, invites>>

(* accept_friend_request and decline_friend_request of v's request.        *)
AnswerRequest(u, v) ==
    /\ Row(v, u, FALSE) \in friendships
    /\ \/ friendships' = (friendships \ {Row(v, u, FALSE)}) \cup {Row(v, u, TRUE)}
       \/ friendships' = friendships \ {Row(v, u, FALSE)}
    /\ UNCHANGED <<phase, roomOf, spectators, watching, invites>>

RemoveFriend(u, v) ==
    /\ AreFriends(u, v)
    /\ friendships' = friendships \ {f \in RowsBetween(u, v) : f.accepted}
    /\ UNCHANGED <<phase, roomOf, spectators, watching, invites>>

(* delete_user: all rows of the account; his connections are kicked later. *)
ForgetUser(u) ==
    /\ \E f \in friendships : u \in {f.from, f.to}
    /\ friendships' = {f \in friendships : u \notin {f.from, f.to}}
    /\ UNCHANGED <<phase, roomOf, spectators, watching, invites>>

-----------------------------------------------------------------------------
(* Rooms, as far as others see them.                                       *)
PlayersOf(r) == {u \in People : roomOf[u] = r}

(* state.rs cleanup_room: invitations, spectators, the room.               *)
FaultInvitesWithout(r) == invites
InvitesWithout(r) == {i \in invites : i.room # r}
WatchingWithout(r) == [u \in People |-> IF watching[u] = r THEN None ELSE watching[u]]

CleanUp(r) ==
    /\ phase' = [phase EXCEPT ![r] = "none"]
    /\ spectators' = [spectators EXCEPT ![r] = {}]
    /\ watching' = WatchingWithout(r)
    /\ invites' = InvitesWithout(r)

(* create_room and join_room do not look at what the player watches.       *)
TakePlace(u, r) ==
    /\ roomOf[u] = None
    /\ phase[r] \in {"none", "waiting"}
    /\ Cardinality(PlayersOf(r)) < MaxPlayers
    /\ phase' = [phase EXCEPT ![r] = "waiting"]
    /\ roomOf' = [roomOf EXCEPT ![u] = r]
    /\ UNCHANGED <<friendships, spectators, watching, invites>>

Play(r) ==
    /\ \/ phase[r] = "waiting" /\ phase' = [phase EXCEPT ![r] = "playing"]
       \/ phase[r] = "playing" /\ phase' = [phase EXCEPT ![r] = "finished"]
    /\ UNCHANGED <<friendships, roomOf, spectators, watching, invites>>

(* leave_room: the last player takes the room with him.                    *)
LeavePlace(u) ==
    LET r == roomOf[u] IN
    /\ r # None
    /\ roomOf' = [roomOf EXCEPT ![u] = None]
    /\ \/ PlayersOf(r) = {u} /\ CleanUp(r)
       \/ PlayersOf(r) # {u} /\ UNCHANGED <<phase, spectators, watching, invites>>
    /\ UNCHANGED friendships

(* disband_active_room, or an admin who closes the room.                   *)
Disband(r) ==
    /\ phase[r] # "none"
    /\ roomOf' = [u \in People |-> IF roomOf[u] = r THEN None ELSE roomOf[u]]
    /\ CleanUp(r)
    /\ UNCHANGED friendships

-----------------------------------------------------------------------------
(* Spectators.                                                             *)
Spectate(u, r) ==
    /\ roomOf[u] = None
    /\ watching[u] = None
    /\ phase[r] = "playing"
    /\ Cardinality(spectators[r]) < MaxSpectators
    /\ spectators' = [spectators EXCEPT ![r] = @ \cup {u}]
    /\ watching' = [watching EXCEPT ![u] = r]
    /\ UNCHANGED <<friendships, phase, roomOf, invites>>

(* leave_spectate and handle_disconnect: remove_spectator.                 *)
StopWatching(u) ==
    /\ watching[u] # None
    /\ spectators' = [spectators EXCEPT ![watching[u]] = @ \ {u}]
    /\ watching' = [watching EXCEPT ![u] = None]
    /\ UNCHANGED <<friendships, phase, roomOf, invites>>

-----------------------------------------------------------------------------
(* Invitations.  Invitations alike, of one user to another, are one.       *)
Invite(u, v) ==
    LET r == roomOf[u] IN
    /\ AreFriends(u, v)
    /\ r # None /\ phase[r] = "waiting"
    /\ Cardinality(PlayersOf(r)) < MaxPlayers
    /\ roomOf[v] = None
    /\ Cardinality(invites) < MaxInvites
    /\ invites' = invites \cup {[from |-> u, to |-> v, room |-> r]}
    /\ UNCHANGED <<friendships, phase, roomOf, spectators, watching>>

(* respond_invite: the client joins with the code it is told, or does not. *)
RespondInvite(i) ==
    /\ i \in invites
    /\ invites' = invites \ {i}
    /\ UNCHANGED <<friendships, phase, roomOf, spectators, watching>>

CommunityNext ==
    \/ \E u, v \in People :
          SendRequest(u, v) \/ AnswerRequest(u, v) \/ RemoveFriend(u, v) \/ Invite(u, v)
    \/ \E u \in People :
          \/ ForgetUser(u) \/ LeavePlace(u) \/ StopWatching(u)
          \/ \E r \in Rooms : TakePlace(u, r) \/ Spectate(u, r)
    \/ \E r \in Rooms : Play(r) \/ Disband(r)
    \/ \E i \in invites : RespondInvite(i)

CommunitySpec == CommunityInit /\ [][CommunityNext]_communityVars

-----------------------------------------------------------------------------
(* Two users have one friendship row, even when their requests cross.      *)
OneRowPerPair ==
    \A f, g \in friendships : {f.from, f.to} = {g.from, g.to} => f = g

(* The spectators of a room and the room of a spectator say the same.      *)
SpectatorsAgree ==
    \A u \in People, r \in Rooms : u \in spectators[r] <=> watching[u] = r

(* Nobody holds an invitation to, or watches, a room that is gone.         *)
RoomsAreThere ==
    /\ \A i \in invites : phase[i.room] # "none"
    /\ \A u \in People : watching[u] # None => phase[watching[u]] # "none"

(* What is recorded twice agrees, whichever events of several users, the   *)
(* end of a room and the deletion of an account follow each other          *)
(* (state.rs cleanup_room, misc.rs send_friend_request).                   *)
CommunityAgrees == OneRowPerPair /\ SpectatorsAgree /\ RoomsAreThere
=============================================================================
