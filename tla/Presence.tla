------------------------------ MODULE Presence ------------------------------
(***************************************************************************)
(* Who is there under which account: sessions and the short-lived socket   *)
(* tokens they are exchanged for (http.rs, db/users.rs, socket_auth.rs),   *)
(* the identity a connection takes with set_name or gets back with its     *)
(* seat (events.rs, state.rs), and the moderator's bans, resets and        *)
(* deletions (admin/users.rs, admin/api/users.rs, live.rs kick_user).      *)
(*                                                                         *)
(* Events of a connection run under the state lock.  A moderator's action  *)
(* is a database transaction without that lock and, later, kick_user under *)
(* it; a login is a look at the user row and, later, a new session row.    *)
(*                                                                         *)
(* A registered player has one reconnect token, so that a seat is named by *)
(* its account; rooms are Sessions' business.                              *)
(***************************************************************************)
EXTENDS Nothing, Integers, FiniteSets

CONSTANTS
    Accounts,      \* registered users
    Sockets,       \* connections
    Logins,        \* login requests that may run at the same time
    Moderators,    \* moderator requests that may run at the same time
    MaxSessions    \* bound: sessions of one account

ASSUME PresenceAssumption == None \notin Accounts \cup Sockets

VARIABLES
    standing,    \* account -> live, banned, anonymised or gone (row deleted)
    sessions,    \* account -> number of its session rows
    tokens,      \* accounts with a socket token that has not run out
    loginAs,     \* login -> the account whose password it has checked
    identity,    \* connection -> sid_to_user_id
    online,      \* account -> online_users
    seat,        \* account -> connection in its seat, "lost", or None
    closing,     \* connections the server has asked to close
    kickOf       \* moderator request -> the account it has still to kick

presenceVars == <<standing, sessions, tokens, loginAs, identity, online, seat, closing, kickOf>>

PresenceInit ==
    /\ standing = [u \in Accounts |-> "live"]
    /\ sessions = [u \in Accounts |-> 0]
    /\ tokens = {}
    /\ loginAs = [l \in Logins |-> None]
    /\ identity = [c \in Sockets |-> None]
    /\ online = [u \in Accounts |-> {}]
    /\ seat = [u \in Accounts |-> None]
    /\ closing = {}
    /\ kickOf = [m \in Moderators |-> None]

Seated(c) == \E u \in Accounts : seat[u] = c

-----------------------------------------------------------------------------
(* Sessions and tokens.                                                    *)

(* login: verify_password reads the row, whose ban is looked at too.       *)
CheckPassword(l, u) ==
    /\ loginAs[l] = None
    /\ standing[u] = "live"
    /\ loginAs' = [loginAs EXCEPT ![l] = u]
    /\ UNCHANGED <<standing, sessions, tokens, identity, online, seat, closing, kickOf>>

(* create_session: a row whose user row is gone is refused.                *)
OpenSession(l) ==
    LET u == loginAs[l] IN
    /\ u # None
    /\ \/ /\ standing[u] # "gone" /\ sessions[u] < MaxSessions
          /\ sessions' = [sessions EXCEPT ![u] = @ + 1]
       \/ /\ standing[u] = "gone"
          /\ UNCHANGED sessions
    /\ loginAs' = [loginAs EXCEPT ![l] = None]
    /\ UNCHANGED <<standing, tokens, identity, online, seat, closing, kickOf>>

(* logout, or a session that has expired (validate_session,                *)
(* cleanup_expired).                                                       *)
EndSession(u) ==
    /\ sessions[u] > 0
    /\ sessions' = [sessions EXCEPT ![u] = @ - 1]
    /\ UNCHANGED <<standing, tokens, loginAs, identity, online, seat, closing, kickOf>>

(* socket_token, for a session that validate_session accepts.              *)
IssueToken(u) ==
    /\ sessions[u] > 0 /\ standing[u] = "live"
    /\ tokens' = tokens \cup {u}
    /\ UNCHANGED <<standing, sessions, loginAs, identity, online, seat, closing, kickOf>>

TokenRunsOut(u) ==
    /\ u \in tokens
    /\ tokens' = tokens \ {u}
    /\ UNCHANGED <<standing, sessions, loginAs, identity, online, seat, closing, kickOf>>

-----------------------------------------------------------------------------
(* Identities of connections.                                              *)

(* remove_online_user.                                                     *)
WithoutSocket(c) ==
    [u \in Accounts |-> IF u = identity[c] THEN online[u] \ {c} ELSE online[u]]

(* register_player under account u, or as a guest.                         *)
RegisterPlayer(c, u) ==
    /\ identity' = [identity EXCEPT ![c] = u]
    /\ online' = [v \in Accounts |->
                    IF v = u THEN WithoutSocket(c)[v] \cup {c} ELSE WithoutSocket(c)[v]]

(* set_name with a token.  A banned or anonymised account is turned away   *)
(* and the connection stays what it was; without a row it becomes a guest. *)
MayBe(u) == standing[u] = "live"

SetName(c, u) ==
    /\ u \in tokens
    /\ \/ MayBe(u) /\ RegisterPlayer(c, u)
       \/ standing[u] = "gone" /\ RegisterPlayer(c, None)
    /\ UNCHANGED <<standing, sessions, tokens, loginAs, seat, closing, kickOf>>

(* set_name of a guest, or with a token that is not valid.                 *)
SetGuestName(c) ==
    /\ RegisterPlayer(c, None)
    /\ UNCHANGED <<standing, sessions, tokens, loginAs, seat, closing, kickOf>>

(* create_room or join_room, which give the player his token.              *)
TakeSeat(c) ==
    LET u == identity[c] IN
    /\ u # None /\ ~Seated(c)
    /\ seat[u] = None
    /\ seat' = [seat EXCEPT ![u] = c]
    /\ UNCHANGED <<standing, sessions, tokens, loginAs, identity, online, closing, kickOf>>

EmptySeats(c, left) == [u \in Accounts |-> IF seat[u] = c THEN left ELSE seat[u]]

LeaveSeat(c) ==
    /\ Seated(c)
    /\ seat' = EmptySeats(c, None)
    /\ UNCHANGED <<standing, sessions, tokens, loginAs, identity, online, closing, kickOf>>

(* logout event: out of the room, no identity.                             *)
LogoutSocket(c) ==
    /\ RegisterPlayer(c, None)
    /\ seat' = EmptySeats(c, None)
    /\ UNCHANGED <<standing, sessions, tokens, loginAs, closing, kickOf>>

(* handle_disconnect, of a connection that broke or that was asked to      *)
(* close: the seat is kept for a while, unless the game is over.           *)
Disconnect(c) ==
    /\ \E left \in {"lost", None} : seat' = EmptySeats(c, left)
    /\ RegisterPlayer(c, None)
    /\ closing' = closing \ {c}
    /\ UNCHANGED <<standing, sessions, tokens, loginAs, kickOf>>

(* finalize_player_disconnect.                                             *)
GraceRunsOut(u) ==
    /\ seat[u] = "lost"
    /\ seat' = [seat EXCEPT ![u] = None]
    /\ UNCHANGED <<standing, sessions, tokens, loginAs, identity, online, closing, kickOf>>

(* rejoin_room: the seat of account u is taken back by connection c, from  *)
(* a connection still there if need be.  The bans are looked at after the  *)
(* seat was taken from that connection.  add_online_user does not take     *)
(* back the identity the connection had.                                   *)
FaultMayReturn(u) == u \in Accounts
MayReturn(u) == standing[u] # "banned"

Rejoin(c, u) ==
    LET old == seat[u] IN
    /\ old # None /\ (Seated(c) => old = c)
    /\ \/ /\ MayReturn(u)
          /\ seat' = [seat EXCEPT ![u] = c]
          /\ identity' = [identity EXCEPT ![c] = u]
          /\ online' = [online EXCEPT ![u] = @ \cup {c}]
          /\ closing' = closing \cup ({old} \cap (Sockets \ {c}))
       \/ /\ ~MayReturn(u)
          /\ seat' = [seat EXCEPT ![u] = "lost"]
          /\ UNCHANGED <<identity, online, closing>>
    /\ UNCHANGED <<standing, sessions, tokens, loginAs, kickOf>>

-----------------------------------------------------------------------------
(* A moderator's action: its transaction, which takes the sessions, and    *)
(* the kick that follows.  An account deleted is not manageable any more.  *)
Transact(m, u, becomes) ==
    /\ kickOf[m] = None
    /\ standing[u] \in {"live", "banned"}
    /\ standing' = [standing EXCEPT ![u] = becomes]
    /\ sessions' = [sessions EXCEPT ![u] = 0]
    /\ kickOf' = [kickOf EXCEPT ![m] = u]
    /\ UNCHANGED <<tokens, loginAs, identity, online, seat, closing>>

Ban(m, u) == Transact(m, u, "banned")
DeleteUser(m, u) == Transact(m, u, "anonymised") \/ Transact(m, u, "gone")

(* reset_password and logout_all.                                          *)
LogoutEverywhere(m, u) == Transact(m, u, standing[u])

(* unban, or a ban that has run its time.                                  *)
Unban(u) ==
    /\ standing[u] = "banned"
    /\ standing' = [standing EXCEPT ![u] = "live"]
    /\ UNCHANGED <<sessions, tokens, loginAs, identity, online, seat, closing, kickOf>>

(* kick_user: the token of a lost connection, then the live connections.   *)
Kicked(u) == online[u]

Kick(m) ==
    LET u == kickOf[m] IN
    /\ u # None
    /\ seat' = [seat EXCEPT ![u] = IF @ = "lost" THEN None ELSE @]
    /\ closing' = closing \cup Kicked(u)
    /\ kickOf' = [kickOf EXCEPT ![m] = None]
    /\ UNCHANGED <<standing, sessions, tokens, loginAs, identity, online>>

-----------------------------------------------------------------------------
PresenceNext ==
    \/ \E l \in Logins : OpenSession(l) \/ \E u \in Accounts : CheckPassword(l, u)
    \/ \E u \in Accounts : EndSession(u) \/ IssueToken(u) \/ TokenRunsOut(u) \/ GraceRunsOut(u) \/ Unban(u)
    \/ \E c \in Sockets :
          \/ SetGuestName(c) \/ TakeSeat(c) \/ LeaveSeat(c) \/ LogoutSocket(c) \/ Disconnect(c)
          \/ \E u \in Accounts : SetName(c, u) \/ Rejoin(c, u)
    \/ \E m \in Moderators :
          \/ Kick(m)
          \/ \E u \in Accounts : Ban(m, u) \/ DeleteUser(m, u) \/ LogoutEverywhere(m, u)

PresenceSpec == PresenceInit /\ [][PresenceNext]_presenceVars

-----------------------------------------------------------------------------
(* Once the ban of an account has been carried out, no connection is there *)
(* under it but those the server is closing: neither a socket token issued *)
(* before, nor a seat kept or taken over, nor another moderator's action   *)
(* at the same time brings one back (events.rs set_name and rejoin_room    *)
(* look at the bans under the lock the kick takes).                        *)
BanIsCarriedOut ==
    \A u \in Accounts :
        (standing[u] = "banned" /\ \A m \in Moderators : kickOf[m] # u)
            => \A c \in Sockets : identity[c] = u => c \in closing

(* The set of an account's connections and the account of a connection say *)
(* the same, as the comment of state.rs register_player asks: an identity  *)
(* a connection had before does not stay online.  It does not hold:        *)
(* rejoin_room replaces the identity of a connection and leaves the old    *)
(* one online until the connection is closed.                              *)
NoGhostOnline ==
    \A u \in Accounts, c \in Sockets : c \in online[u] <=> identity[c] = u
=============================================================================
