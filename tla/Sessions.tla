------------------------------ MODULE Sessions ------------------------------
(* Connections, reconnect tokens, grace periods and the seats of the rooms: *)
(* the tables of ServerState (src/src/server/state.rs) and the socket       *)
(* handlers that move a connection between them (events.rs, extras.rs,      *)
(* core.rs, admin/live.rs).  A handler runs with the whole state locked and *)
(* is one action; a grace timer and the closing of a connection by the      *)
(* server happen later, at a time of their own.                             *)
(*                                                                          *)
(* Abstractions.  A person plays under one name and sits at most once in a  *)
(* room.  A registered person has one token, the one kept in the database;  *)
(* a guest gets a new one for every seat.  Bots, the turn and the contents  *)
(* of games and messages are left out (see ScrabbleGame and RoomTurns).  A  *)
(* connection introduces itself before it enters a room, and a client asks  *)
(* to return only from the lobby (app.js: on connect, or by the button      *)
(* there).  A connection's identifier is used again once nothing refers to  *)
(* it, and so are the room ids, the guests' tokens and the numbers of the   *)
(* disconnections.                                                          *)
EXTENDS Integers, Sequences, FiniteSets, SequencesExt

CONSTANTS
  Sids,        \* connections
  Users,       \* registered people
  Guests,
  GuestTokens,
  Rooms,
  MaxSeats,
  Saved,       \* whose names are in the saved game that can be restored
  MaxSeq,      \* how many disconnections are told apart
  MovesOn,     \* may a connection that left a running game enter another room?
  KindsOf,     \* per room id: the kinds of room it is used for
  None

ASSUME SessionsAssumption ==
  /\ Users \cap Guests = {} /\ Saved \subseteq Users \cup Guests
  /\ IsFiniteSet(Users) /\ IsFiniteSet(Saved)
  /\ Users \cap GuestTokens = {}
  /\ None \notin Sids \cup Users \cup Guests \cup GuestTokens \cup Rooms
  /\ KindsOf \in [Rooms -> SUBSET {"normal", "restored", "async"}]
  /\ MovesOn \in BOOLEAN /\ MaxSeats \in Nat \ {0} /\ MaxSeq \in Nat \ {0}

VARIABLES
  conn,    \* "free", "open" or "closing" (the server has hung up)
  auth,    \* player_auth: who a connection is, or None
  at,      \* player_rooms
  token,   \* reconnect_tokens
  mine,    \* sid_to_token
  grace,   \* disconnected_players
  timers,  \* sleeping grace timers
  rooms

tables == <<token, mine, grace>>
vars == <<conn, auth, at, token, mine, grace, timers, rooms>>

People == Users \cup Guests
Tokens == Users \cup GuestTokens
NoToken == [room |-> None, sid |-> None, who |-> None]
NoGrace == [room |-> None, sid |-> None, seq |-> 0]
NoRoom == [kind |-> "none", stage |-> "none", seats |-> <<>>, owner |-> None,
           ownerToken |-> None, late |-> {}]

Seat(s, p, away) == [sid |-> s, who |-> p, away |-> away]
SeatsOf(r) == ToSet(rooms[r].seats)

Init ==
  /\ conn = [s \in Sids |-> "free"]
  /\ auth = [s \in Sids |-> None] /\ at = [s \in Sids |-> None]
  /\ token = [t \in Tokens |-> NoToken] /\ mine = [s \in Sids |-> None]
  /\ grace = [t \in Tokens |-> NoGrace]
  /\ timers = {} /\ rooms = [r \in Rooms |-> NoRoom]

-----------------------------------------------------------------------------
(* The tables. *)

(* player_rooms of a room that still exists *)
RoomOf(s) == IF at[s] # None /\ rooms[at[s]].stage # "none" THEN at[s] ELSE None

TokenUnused(t) ==
  /\ token[t] = NoToken /\ grace[t] = NoGrace
  /\ \A s \in Sids : mine[s] # t
  /\ \A r \in Rooms : rooms[r].ownerToken # t
  /\ \A m \in timers : m.token # t

(* the token a person gets for a new seat *)
TokensFor(p) == IF p \in Users THEN {p} ELSE {t \in GuestTokens : TokenUnused(t)}

RoomUnused(r) ==
  /\ rooms[r] = NoRoom /\ \A s \in Sids : at[s] # r
  /\ \A t \in Tokens : token[t].room # r /\ grace[t].room # r

SidUnused(s) ==
  /\ conn[s] = "free" /\ mine[s] = None
  /\ \A t \in Tokens : token[t].sid # s /\ grace[t].sid # s
  /\ \A r \in Rooms : rooms[r].owner # s /\ \A x \in SeatsOf(r) : x.sid # s

NextSeq ==
  LET used == {grace[t].seq : t \in Tokens} \cup {m.seq : m \in timers}
  IN CHOOSE n \in 1 .. MaxSeq + 1 : n \notin used /\ \A k \in 1 .. n - 1 : k \in used

(* sid_to_token once token t is that of s and `lost` have none *)
FaultKeeps(s, t, lost) == [x \in Sids |-> IF x \in lost THEN None ELSE IF x = s THEN t ELSE mine[x]]

Keeps(s, t, lost) == [x \in Sids |-> IF x = s THEN t ELSE IF x \in lost THEN None ELSE mine[x]]

(* generate_reconnect_token: the registered person's token leaves the       *)
(* connection that had it, and a grace period under it is forgotten         *)
Issue(t, s, r, p) ==
  /\ token' = [token EXCEPT ![t] = [room |-> r, sid |-> s, who |-> p]]
  /\ mine' = Keeps(s, t, {token[t].sid})
  /\ grace' = [grace EXCEPT ![t] = NoGrace]

(* faults: without cleanup_player_token *)
FaultForget(S, R) ==
  LET gone == {t \in Tokens : grace[t].room \in R}
  IN /\ token' = [t \in Tokens |-> IF t \in gone THEN NoToken ELSE token[t]]
     /\ grace' = [t \in Tokens |-> IF t \in gone THEN NoGrace ELSE grace[t]]
     /\ mine' = [s \in Sids |-> IF \E t \in gone : grace[t].sid = s THEN None ELSE mine[s]]

(* cleanup_player_token of all the connections in S, then                   *)
(* cleanup_room_tokens of the rooms in R                                    *)
Forget(S, R) ==
  LET owned == {mine[s] : s \in S} \cap Tokens
      waiting == {t \in Tokens \ owned : grace[t].room \in R}
      gone == owned \cup waiting
  IN /\ token' = [t \in Tokens |-> IF t \in gone THEN NoToken ELSE token[t]]
     /\ grace' = [t \in Tokens |-> IF t \in gone THEN NoGrace ELSE grace[t]]
     /\ mine' = [s \in Sids |-> IF s \in S \/ \E t \in waiting : grace[t].sid = s THEN None ELSE mine[s]]

(* mark_disconnected of the server's state *)
Remember(t, s, r) ==
  /\ NextSeq <= MaxSeq
  /\ grace' = [grace EXCEPT ![t] = [room |-> r, sid |-> s, seq |-> NextSeq]]
  /\ UNCHANGED <<token, mine>>

-----------------------------------------------------------------------------
(* The seats. *)

(* The game's methods act on the first player with that id; a connection    *)
(* can have two seats in a room, its own and one it had left before.        *)
IndexOf(seats, s) == SelectInSeq(seats, LAMBDA x : x.sid = s)
(* mark_disconnected of the game *)
Away(seats, s) ==
  [i \in DOMAIN seats |-> IF i = IndexOf(seats, s) THEN [seats[i] EXCEPT !.away = TRUE] ELSE seats[i]]
(* remove_player *)
Without(seats, s) == IF IndexOf(seats, s) = 0 THEN seats ELSE RemoveAt(seats, IndexOf(seats, s))
(* replace_player_sid *)
Replaced(seats, old, s) ==
  [i \in DOMAIN seats |->
     IF i = IndexOf(seats, old) THEN [seats[i] EXCEPT !.sid = s, !.away = FALSE] ELSE seats[i]]
Connected(seats) == {x \in ToSet(seats) : ~x.away}

(* transfer_ownership: to the first who is connected, or to the first *)
HandedOver(room) ==
  LET first == SelectInSeq(room.seats, LAMBDA x : ~x.away)
      heir == room.seats[IF first = 0 THEN 1 ELSE first].sid
  IN [room EXCEPT !.owner = heir, !.ownerToken = IF heir \in Sids THEN mine[heir] ELSE None]

Active(room) == room.stage = "running"
OwnsBySid(room, s) == room.owner = s

(* cleanup_room: player_rooms is left to the callers *)
Closed(r) == rooms' = [rooms EXCEPT ![r] = NoRoom]

(* the players' part of disband_active_room, `keep` being its owner_sid *)
FaultEvicted(r, keep) == {x.sid : x \in {y \in SeatsOf(r) : y.away}} \cap (Sids \ {keep})

Evicted(r, keep) == {x.sid : x \in SeatsOf(r)} \cap (Sids \ {keep})

Disband(r, keep) ==
  /\ Closed(r)
  /\ at' = [s \in Sids |-> IF s \in Evicted(r, keep) THEN None ELSE at[s]]
  /\ Forget(Evicted(r, keep), {r})

-----------------------------------------------------------------------------
(* Coming and entering a room. *)

(* set_name *)
Introduce(s, p) ==
  /\ MovesOn \/ /\ \A r \in Rooms : \A x \in SeatsOf(r) : x.sid = s => x.who = p
                /\ \A t \in Tokens : token[t].sid = s => token[t].who = p
  /\ auth' = [auth EXCEPT ![s] = p]
  /\ UNCHANGED <<tables, timers, rooms>>

(* a connection introduces itself first of all *)
Connect(s, p) ==
  /\ SidUnused(s)
  /\ conn' = [conn EXCEPT ![s] = "open"] /\ at' = [at EXCEPT ![s] = None]
  /\ Introduce(s, p)

(* the same, once its person has logged out *)
SetName(s, p) ==
  /\ conn[s] = "open" /\ auth[s] = None
  /\ Introduce(s, p)
  /\ UNCHANGED <<conn, at>>

(* no seat outside room r, of another than p, still has this connection's id *)
Unattached(s, r, p) ==
  MovesOn \/ \A q \in Rooms : \A x \in SeatsOf(q) : x.sid = s => q = r /\ x.who = p

InLobby(s) == conn[s] = "open" /\ auth[s] # None /\ RoomOf(s) = None

Free(s) == InLobby(s) /\ Unattached(s, None, None)

Enter(s, r, room) ==
  /\ rooms' = [rooms EXCEPT ![r] = room]
  /\ at' = [at EXCEPT ![s] = r]
  /\ \E t \in TokensFor(auth[s]) : Issue(t, s, r, auth[s])
  /\ UNCHANGED <<conn, auth, timers>>

NewRoom(kind, stage, seats, s, t) ==
  [NoRoom EXCEPT !.kind = kind, !.stage = stage, !.seats = seats, !.owner = s, !.ownerToken = t]

(* create_room, restore_game (of a saved game the user owns), and           *)
(* create_async_game with the friends still to come                         *)
Open(s, r, kind) ==
  /\ Free(s) /\ RoomUnused(r)
  /\ kind # "normal" => auth[s] \in Users
  /\ kind = "restored" => auth[s] \in Saved
  /\ LET friends == SetToSeq(Users \ {auth[s]})
         seats == IF kind # "async" THEN <<Seat(s, auth[s], FALSE)>>
                  ELSE <<Seat(s, auth[s], FALSE)>> \o [i \in DOMAIN friends |-> Seat(None, friends[i], TRUE)]
     IN \E t \in TokensFor(auth[s]) :
          /\ kind = "async" => friends # <<>>
          /\ Issue(t, s, r, auth[s])
          /\ rooms' = [rooms EXCEPT ![r] = NewRoom(kind, IF kind = "async" THEN "running" ELSE "waiting", seats, s, t)]
  /\ at' = [at EXCEPT ![s] = r]
  /\ UNCHANGED <<conn, auth, timers>>

JoinRoom(s, r) ==
  /\ Free(s)
  /\ rooms[r].stage = "waiting" /\ Len(rooms[r].seats) < MaxSeats
  /\ \A x \in SeatsOf(r) : x.who # auth[s]
  /\ rooms[r].kind = "restored" => auth[s] \in Saved
  /\ Enter(s, r, [rooms[r] EXCEPT !.seats = Append(@, Seat(s, auth[s], FALSE))])

(* try_late_join: the seat of that name in a restored game *)
FaultTakesSeat(s, x) == x.away

TakesSeat(s, x) == x.away /\ x.who = auth[s]

LateJoin(s, r) ==
  /\ Free(s) /\ Active(rooms[r]) /\ auth[s] \in rooms[r].late
  /\ \E i \in DOMAIN rooms[r].seats :
       /\ TakesSeat(s, rooms[r].seats[i])
       /\ Enter(s, r, [rooms[r] EXCEPT
            !.seats[i] = [@ EXCEPT !.sid = s, !.away = FALSE],
            !.late = @ \ {auth[s]}])

(* start_game, and restore_start: the saved players take the seats of those *)
(* of their name in the waiting room                                        *)
RestoredSeats(room) ==
  LET names == SetToSeq(Saved)
      here(p) == {x \in ToSet(room.seats) : x.who = p}
  IN [i \in DOMAIN names |->
        IF here(names[i]) # {} THEN Seat((CHOOSE x \in here(names[i]) : TRUE).sid, names[i], FALSE)
        ELSE Seat(None, names[i], TRUE)]

StartGame(s) ==
  LET r == RoomOf(s) IN
  /\ conn[s] = "open" /\ r # None
  /\ rooms[r].stage = "waiting"
  /\ OwnsBySid(rooms[r], s) \/ (mine[s] # None /\ rooms[r].ownerToken = mine[s])
  /\ rooms' = [rooms EXCEPT ![r] =
       IF @.kind # "restored" THEN [@ EXCEPT !.stage = "running"]
       ELSE [@ EXCEPT !.stage = "running", !.seats = RestoredSeats(rooms[r]),
                      !.late = Saved \ {x.who : x \in SeatsOf(r)}]]
  /\ UNCHANGED <<conn, auth, at, tables, timers>>

(* The game ends; a correspondence room nobody looks at is dropped          *)
(* (cleanup_finished_async).                                                *)
GameEnds(r) ==
  /\ Active(rooms[r])
  /\ IF rooms[r].kind = "async" /\ Connected(rooms[r].seats) = {}
     THEN Closed(r) /\ Forget({}, {r})
     ELSE /\ rooms' = [rooms EXCEPT ![r].stage = "over"]
          /\ UNCHANGED tables
  /\ UNCHANGED <<conn, auth, at, timers>>

-----------------------------------------------------------------------------
(* Going. *)

(* a seat is given up for good (not in a game that runs): the room closes   *)
(* behind the last, and a correspondence room behind the last who is there  *)
Vacate(s, r) ==
  LET left == Without(rooms[r].seats, s)
      room == [rooms[r] EXCEPT !.seats = left]
  IN /\ IF left = <<>> \/ (room.kind = "async" /\ Connected(left) = {})
        THEN /\ Closed(r)
             /\ Forget({s}, {r})
        ELSE /\ rooms' = [rooms EXCEPT ![r] = IF OwnsBySid(room, s) THEN HandedOver(room) ELSE room]
             /\ Forget({s}, {})
     /\ at' = [at EXCEPT ![s] = None]

(* leave_room *)
Leaves(s) ==
  LET r == RoomOf(s)
      t == mine[s]
      room == [rooms[r] EXCEPT !.seats = Away(@, s)]
  IN
  /\ conn[s] = "open" /\ r # None
  /\ \/ /\ Active(rooms[r]) /\ rooms[r].kind = "async"
        /\ rooms' = [rooms EXCEPT ![r] = room]
        /\ IF t # None THEN Remember(t, s, r) ELSE UNCHANGED tables
        /\ at' = [at EXCEPT ![s] = None]
     \/ /\ Active(rooms[r]) /\ rooms[r].kind # "async" /\ OwnsBySid(rooms[r], s)
        /\ Closed(r)
        /\ at' = [x \in Sids |-> IF x = s \/ x \in Evicted(r, s) THEN None ELSE at[x]]
        /\ Forget({s} \cup Evicted(r, s), {r})
     \/ /\ Active(rooms[r]) /\ rooms[r].kind # "async" /\ ~OwnsBySid(rooms[r], s) /\ t # None
        /\ rooms' = [rooms EXCEPT ![r] = room]
        /\ Remember(t, s, r)
        /\ at' = [at EXCEPT ![s] = None]
     \/ /\ ~Active(rooms[r]) \/ (rooms[r].kind # "async" /\ ~OwnsBySid(rooms[r], s) /\ t = None)
        /\ Vacate(s, r)
  /\ UNCHANGED <<conn, timers>>

LeaveRoom(s) == Leaves(s) /\ UNCHANGED auth

(* logout: the connection stays, nobody is behind it *)
Logout(s) ==
  /\ conn[s] = "open" /\ auth[s] # None
  /\ IF RoomOf(s) # None THEN Leaves(s) ELSE UNCHANGED <<conn, at, tables, timers, rooms>>
  /\ auth' = [auth EXCEPT ![s] = None]

(* handle_disconnect: a correspondence game waits without end, a seat with  *)
(* a token for its grace period, and any other seat is given up at once     *)
Disconnect(s) ==
  LET r == RoomOf(s)
      t == mine[s]
  IN
  /\ conn[s] # "free"
  /\ \/ /\ r # None /\ Active(rooms[r]) /\ rooms[r].kind = "async"
        /\ rooms' = [rooms EXCEPT ![r].seats = Away(@, s)]
        /\ IF t # None THEN Remember(t, s, r) ELSE UNCHANGED tables
        /\ at' = [at EXCEPT ![s] = None] /\ UNCHANGED timers
     \/ /\ r # None /\ rooms[r].stage # "over" /\ t # None /\ ~(Active(rooms[r]) /\ rooms[r].kind = "async")
        /\ rooms' = [rooms EXCEPT ![r].seats = Away(@, s)]
        /\ Remember(t, s, r)
        /\ at' = [at EXCEPT ![s] = None]
        /\ timers' = timers \cup {[token |-> t, seq |-> NextSeq]}
     \/ /\ r # None /\ ~(Active(rooms[r]) /\ rooms[r].kind = "async")
        /\ rooms[r].stage = "over" \/ t = None
        /\ Vacate(s, r) /\ UNCHANGED timers
     \/ /\ r = None
        /\ Forget({s}, {}) /\ UNCHANGED <<at, timers, rooms>>
  /\ conn' = [conn EXCEPT ![s] = "free"]
  /\ auth' = [auth EXCEPT ![s] = None]

-----------------------------------------------------------------------------
(* Coming back. *)

(* release_live_session: the token's connection is believed to be alive *)
Held(t) ==
  LET i == token[t] IN
  i # NoToken /\ rooms[i.room].stage \in {"waiting", "running"} /\ at[i.sid] = i.room

(* the seat the token leads to: of a lost connection, or of a live one that *)
(* is taken over                                                            *)
Lost(t) ==
  IF grace[t] # NoGrace THEN grace[t]
  ELSE IF Held(t) THEN [room |-> token[t].room, sid |-> token[t].sid, seq |-> 0]
  ELSE NoGrace

(* rejoin_room *)
Rejoin(s, t) ==
  LET dc == Lost(t)
      room == rooms[dc.room]
      owns == OwnsBySid(room, dc.sid) \/ room.ownerToken = t
  IN
  /\ InLobby(s) /\ token[t].who = auth[s] /\ dc # NoGrace
  /\ Unattached(s, dc.room, auth[s])
  /\ \/ /\ room.stage = "none"
        /\ grace' = [grace EXCEPT ![t] = NoGrace] /\ token' = [token EXCEPT ![t] = NoToken]
        /\ UNCHANGED <<conn, auth, at, mine, rooms>>
     \/ /\ room.stage # "none" /\ \E x \in SeatsOf(dc.room) : x.sid = dc.sid
        /\ rooms' = [rooms EXCEPT
             ![dc.room].seats = Replaced(@, dc.sid, s),
             ![dc.room].owner = IF owns THEN s ELSE @,
             ![dc.room].ownerToken = IF owns THEN t ELSE @]
        /\ token' = [token EXCEPT ![t].sid = s]
        /\ mine' = [mine EXCEPT ![dc.sid] = None, ![s] = t]
        /\ grace' = [grace EXCEPT ![t] = NoGrace]
        /\ at' = [at EXCEPT ![dc.sid] = IF grace[t] = NoGrace THEN None ELSE @, ![s] = dc.room]
        /\ auth' = [auth EXCEPT ![dc.sid] = None, ![s] = token[t].who]
        /\ conn' = IF grace[t] = NoGrace THEN [conn EXCEPT ![dc.sid] = "closing"] ELSE conn
  /\ UNCHANGED timers

(* open_async_game: one's seat in a correspondence game, taken from one's   *)
(* other device if it is there                                              *)
OpenAsync(s, r) ==
  /\ InLobby(s) /\ Unattached(s, r, auth[s]) /\ auth[s] \in Users
  /\ rooms[r].kind = "async" /\ Active(rooms[r])
  /\ \E i \in DOMAIN rooms[r].seats :
       LET old == rooms[r].seats[i].sid
           taken == IF ~rooms[r].seats[i].away /\ old \in Sids /\ at[old] = r THEN {old} ELSE {}
           t == auth[s]
       IN /\ rooms[r].seats[i].who = auth[s]
          /\ rooms' = [rooms EXCEPT ![r].seats[i] = [@ EXCEPT !.sid = s, !.away = FALSE]]
          /\ at' = [x \in Sids |-> IF x = s THEN r ELSE IF x \in taken THEN None ELSE at[x]]
          /\ token' = [token EXCEPT ![t] = [room |-> r, sid |-> s, who |-> auth[s]]]
          /\ mine' = Keeps(s, t, taken \cup {token[t].sid})
          /\ grace' = [grace EXCEPT ![t] = NoGrace]
  /\ UNCHANGED <<conn, auth, timers>>

-----------------------------------------------------------------------------
(* The grace period is over (finalize_player_disconnect). *)

(* disconnect_is_current *)
FaultIsCurrent(m) == grace[m.token] # NoGrace

IsCurrent(m) == grace[m.token].seq = m.seq

(* finalize_disconnect *)
Finalized(t) ==
  /\ token' = [token EXCEPT ![t] = NoToken] /\ grace' = [grace EXCEPT ![t] = NoGrace]
  /\ mine' = [mine EXCEPT ![grace[t].sid] = None]

GraceExpires(m) ==
  LET t == m.token
      s == grace[t].sid
      r == grace[t].room
      room == IF Active(rooms[r]) THEN rooms[r] ELSE [rooms[r] EXCEPT !.seats = Without(@, s)]
  IN
  /\ m \in timers /\ timers' = timers \ {m}
  /\ \/ ~IsCurrent(m) /\ UNCHANGED <<at, tables, rooms>>
     \/ /\ IsCurrent(m) /\ rooms[r].stage = "none"
        /\ Finalized(t) /\ UNCHANGED <<at, rooms>>
     \/ /\ IsCurrent(m) /\ Active(rooms[r]) /\ OwnsBySid(rooms[r], s)
        /\ Disband(r, s)
     \/ /\ IsCurrent(m) /\ rooms[r].stage # "none" /\ ~(Active(rooms[r]) /\ OwnsBySid(rooms[r], s))
        /\ IF Connected(room.seats) = {}
           THEN Closed(r) /\ Forget({}, {r})
           ELSE /\ rooms' = [rooms EXCEPT ![r] = IF OwnsBySid(room, s) THEN HandedOver(room) ELSE room]
                /\ Finalized(t)
        /\ UNCHANGED at
  /\ UNCHANGED <<conn, auth>>

-----------------------------------------------------------------------------
(* The admin. *)

(* remove_player *)
AdminRemove(r, s) ==
  LET seats == IF Active(rooms[r]) THEN Away(rooms[r].seats, s) ELSE Without(rooms[r].seats, s)
      room == [rooms[r] EXCEPT !.seats = seats]
  IN
  /\ rooms[r].stage # "none" /\ \E x \in SeatsOf(r) : x.sid = s
  /\ at' = [at EXCEPT ![s] = None]
  /\ IF seats = <<>> \/ (room.kind # "async" /\ Connected(seats) = {})
     THEN Closed(r) /\ Forget({s}, {r})
     ELSE /\ rooms' = [rooms EXCEPT ![r] = IF OwnsBySid(room, s) /\ room.kind # "async" THEN HandedOver(room) ELSE room]
          /\ Forget({s}, {})
  /\ UNCHANGED <<conn, auth, timers>>

AdminDisband(r) ==
  /\ rooms[r].stage # "none"
  /\ Disband(r, None)
  /\ UNCHANGED <<conn, auth, timers>>

(* kick_user: the tokens of his lost connections, and his live connections  *)
KickUser(u) ==
  /\ grace[u] # NoGrace \/ \E s \in Sids : conn[s] = "open" /\ auth[s] = u
  /\ grace' = [grace EXCEPT ![u] = NoGrace]
  /\ token' = [token EXCEPT ![u] = IF grace[u] # NoGrace THEN NoToken ELSE @]
  /\ conn' = [s \in Sids |-> IF auth[s] = u THEN "closing" ELSE conn[s]]
  /\ UNCHANGED <<auth, at, mine, timers, rooms>>

-----------------------------------------------------------------------------

Next ==
  \/ \E s \in Sids :
       \/ StartGame(s) \/ LeaveRoom(s) \/ Logout(s) \/ Disconnect(s)
       \/ \E p \in People : Connect(s, p) \/ SetName(s, p)
       \/ \E r \in Rooms : \/ JoinRoom(s, r) \/ LateJoin(s, r) \/ OpenAsync(s, r) \/ AdminRemove(r, s)
                           \/ \E kind \in KindsOf[r] : Open(s, r, kind)
       \/ \E t \in Tokens : Rejoin(s, t)
  \/ \E r \in Rooms : GameEnds(r) \/ AdminDisband(r)
  \/ \E m \in timers : GraceExpires(m)
  \/ \E u \in Users : KickUser(u)

Spec == Init /\ [][Next]_vars

-----------------------------------------------------------------------------
(* Correctness. *)

(* A connection registered in a room has one seat there that is played by   *)
(* it: however it came (created, joined, returned, took over), its moves    *)
(* reach one hand and never none (player_rooms against Game.players).       *)
RegisteredIsSeated ==
  \A s \in Sids : at[s] # None /\ conn[s] # "free" =>
    /\ rooms[at[s]].stage # "none"
    /\ Cardinality({x \in SeatsOf(at[s]) : x.sid = s /\ ~x.away}) = 1

(* A seat that counts as connected is that of a connection registered in    *)
(* this room, so that its loss will be noticed and the game never waits for *)
(* a player who cannot move.  restore_start is known to break this.         *)
PresentIsRegistered ==
  \A r \in Rooms : \A x \in SeatsOf(r) :
    rooms[r].kind # "restored" /\ ~x.away => at[x.sid] = r

(* After restore_start only those who are there count as connected ("Aki    *)
(* nincs ott, azt lecsatlakozottnak jelöljük", events.rs).                  *)
RestoredPresentIsThere ==
  \A r \in Rooms : rooms[r].kind = "restored" /\ Active(rooms[r]) =>
    \A x \in SeatsOf(r) : ~x.away => x.sid \in Sids /\ at[x.sid] = r

(* A connection that sits where its token leads still has that token, so    *)
(* that losing the connection starts a grace period and not a removal.      *)
SeatedKeepsToken ==
  \A t \in Tokens :
    LET i == token[t] IN
    i # NoToken /\ conn[i.sid] = "open" /\ at[i.sid] = i.room => mine[i.sid] = t

(* The seat a connection plays is the seat of the person behind it, after   *)
(* any sequence of returns, takeovers and logouts.                          *)
OwnSeatOnly ==
  \A s \in Sids : at[s] # None /\ conn[s] = "open" =>
    \A x \in SeatsOf(at[s]) : x.sid = s => x.who = auth[s]

(* A running grace period, or an async player's place, keeps an absent seat *)
(* in its room: who returns with the token finds it.                        *)
GraceKeepsSeat ==
  \A t \in Tokens :
    grace[t] # NoGrace /\ rooms[grace[t].room].kind # "restored" =>
      \E x \in SeatsOf(grace[t].room) : x.sid = grace[t].sid /\ x.away

(* The timer of an earlier disconnection does not end the grace period of a *)
(* later one, whose own timer is still running (disconnect_seq).            *)
GraceRunsItsCourse ==
  [][\A m \in timers \ timers' :
       LET g == grace[m.token] IN
       g # NoGrace /\ grace'[m.token] = NoGrace /\ [token |-> m.token, seq |-> g.seq] \in timers'
       => rooms'[g.room] = NoRoom]_vars

(* An ordinary room, waiting or playing, has its owner among its seats:     *)
(* somebody can start it, and its game ends when he goes.                   *)
OwnerSits ==
  \A r \in Rooms : rooms[r].kind = "normal" => \E x \in SeatsOf(r) : x.sid = rooms[r].owner

(* The three tables that say who plays where (player_rooms, Game.players    *)
(* and Room.owner) agree after every way in and every way out.              *)
TablesAgree == RegisteredIsSeated /\ PresentIsRegistered /\ OwnerSits
=============================================================================
