----------------------------- MODULE GameRecords -----------------------------
(* The rows of saved_games and game_moves, the players' statistics and      *)
(* ratings, and the rooms whose games they record: saving (core.rs,         *)
(* db/games.rs), restoring (events.rs), correspondence games that live in   *)
(* the database, the archive's administration (admin/games.rs), failing     *)
(* writes and a crash of the server.  Each database call is one             *)
(* transaction; a handler makes several, and any of them may fail.          *)
(*                                                                          *)
(* Abstractions.  Everybody plays in every game.  A game is the number of   *)
(* its turns, its end and result, and how often its deadline was extended;  *)
(* a move list is its length.  Who may ask for an operation is left to      *)
(* Sessions and Accounts.                                                   *)
EXTENDS Elo, Sequences, SequencesExt

CONSTANTS
  Users,
  Rooms,         \* room ids
  MaxRows, MaxTurns, MaxTime, MaxFaults, MaxAdjustments,
  Initial,       \* INITIAL_RATING
  Results,       \* of a finished game: the scores and who has resigned
  Reopen,        \* may a save be restored while a room still plays it?
  None


VARIABLES
  rows,         \* saved_games with its game_moves
  users,        \* rating, rated games and counters
  adjustments,  \* rating_adjustments
  rooms,        \* in memory
  now,
  faults,       \* how many writes have failed
  lost          \* has a failed write or a deletion cost a part of a move list?

vars == <<rows, users, adjustments, rooms, now, faults, lost>>

Ids == 1 .. MaxRows
NewGame == [turns |-> 0, over |-> FALSE, result |-> None, due |-> 0]
NoRow == [status |-> "none", room |-> None, async |-> FALSE, bots |-> FALSE,
          state |-> NewGame, log |-> 0, at |-> 0]
NoRoom == [stage |-> "none", async |-> FALSE, bots |-> FALSE, game |-> NewGame, moves |-> 0,
           logged |-> 0, db |-> None, sig |-> None, resultSaved |-> FALSE,
           manual |-> FALSE, save |-> None, seen |-> FALSE]

(* what the fields hold *)
GameRecord ==
  [turns : Nat, over : {FALSE}, result : Results \cup {None}, due : Nat]
    \cup [turns : Nat, over : {TRUE}, result : Results, due : Nat]
RowRecord ==
  [status : {"none", "active", "finished", "abandoned", "voided", "deleted"}, room : Rooms \cup {None},
   async : BOOLEAN, bots : BOOLEAN, state : GameRecord, log : Int, at : Nat]
SaveRecord == [id : Ids, state : GameRecord]
SignatureRecord == Int \X BOOLEAN \X Nat
RoomRecord ==
  [stage : {"none", "lobby", "game"}, async : BOOLEAN, bots : BOOLEAN, game : GameRecord, moves : Int,
   logged : Int, db : Ids \cup {None}, sig : SignatureRecord \cup {None}, resultSaved : BOOLEAN,
   manual : BOOLEAN, save : SaveRecord \cup {None}, seen : BOOLEAN]

ASSUME RecordsAssumption ==
  /\ MaxRows \in Nat /\ MaxTurns \in Nat /\ MaxTime \in Nat /\ MaxFaults \in Nat
  /\ Reopen \in BOOLEAN /\ IsFiniteSet(Users)
  /\ Initial \in Int /\ \A x \in Results : x.score \in [Users -> Int]
  /\ None \notin Rooms \cup Ids /\ None \notin SignatureRecord /\ None \notin SaveRecord

Init ==
  /\ rows = [g \in Ids |-> NoRow]
  /\ users = [u \in Users |-> [rating |-> Initial, rated |-> 0, played |-> 0, won |-> 0, score |-> 0]]
  /\ adjustments = <<>>
  /\ rooms = [r \in Rooms |-> NoRoom]
  /\ now = 0 /\ faults = 0 /\ lost = FALSE

-----------------------------------------------------------------------------
(* Statistics and ratings. *)

(* who resigned is behind everybody, whatever the score *)
RankedScore(result, u) == IF u \in result.quit THEN -100 ELSE result.score[u]
Winners(result) ==
  {u \in Users \ result.quit : \A v \in Users \ result.quit : result.score[v] <= result.score[u]}

Entries(stats, result) ==
  [u \in Users |-> [rating |-> stats[u].rating, rated |-> stats[u].rated, score |-> RankedScore(result, u)]]

(* apply_ratings: at least two registered players *)
Rated(stats, result) ==
  IF Cardinality(Users) < 2 THEN stats
  ELSE LET change == RatingChanges(Entries(stats, result))
       IN [u \in Users |-> [stats[u] EXCEPT !.rating = @ + change[u], !.rated = @ + 1]]

Counted(stats, result) ==
  [u \in Users |-> [stats[u] EXCEPT !.played = @ + 1, !.score = @ + result.score[u],
                                    !.won = @ + IF u \in Winners(result) THEN 1 ELSE 0]]

Finished(rs) == {g \in Ids : rs[g].status = "finished"}

(* timeline: the finished games without bots and the adjustments, by time;  *)
(* a game before an adjustment of the same second                           *)
Events(rs, adj) ==
  {<<rs[g].at, 0, g>> : g \in {h \in Finished(rs) : ~rs[h].bots}}
    \cup {<<adj[i].at, 1, i>> : i \in DOMAIN adj}
Earlier(a, b) == \/ a[1] < b[1]
                 \/ a[1] = b[1] /\ a[2] < b[2]
                 \/ a[1] = b[1] /\ a[2] = b[2] /\ a[3] < b[3]
Latest(es) == CHOOSE e \in es : \A d \in es \ {e} : Earlier(d, e)

(* the result of an unfinished game that an admin has declared finished *)
ResultOf(row) == IF row.state.over THEN row.state.result
                 ELSE [score |-> [u \in Users |-> 0], quit |-> {}]

Applied(rs, adj, e, stats) ==
  IF e[2] = 1 THEN [stats EXCEPT ![adj[e[3]].user].rating = @ + adj[e[3]].delta]
  ELSE Rated(stats, ResultOf(rs[e[3]]))

(* compute_ratings: from nothing, the latest event last *)
ComputedRatings(rs, adj) ==
  MapThenFoldSet(LAMBDA e, stats : Applied(rs, adj, e, stats),
                 [u \in Users |-> [rating |-> Initial, rated |-> 0]],
                 LAMBDA e : e, Latest, Events(rs, adj))

(* compute_counters: a game declared finished has no winner *)
ComputedCounters(rs, u) ==
  LET mine == Finished(rs)
  IN [played |-> Cardinality(mine),
      won |-> Cardinality({g \in mine : rs[g].state.over /\ u \in Winners(rs[g].state.result)}),
      score |-> SumFunction([g \in mine |-> ResultOf(rs[g]).score[u]])]

(* recompute_ratings, with recompute_user_counters of everybody *)
Recomputed(rs, adj) ==
  LET ratings == ComputedRatings(rs, adj)
      counters(u) == ComputedCounters(rs, u)
  IN [u \in Users |-> [rating |-> ratings[u].rating, rated |-> ratings[u].rated, played |-> counters(u).played,
                       won |-> counters(u).won, score |-> counters(u).score]]

FaultNotRecomputed(rs) == users

Refreshed(rs) == Recomputed(rs, adjustments)

-----------------------------------------------------------------------------
(* Saving.  w is the world a handler works on: rows, users and the room r;  *)
(* f says which of the two transactions of a save fails, if any.            *)

World(rs, us, room) == [rows |-> rs, users |-> us, room |-> room]

ActiveRows(rs, r) == {g \in Ids : rs[g].room = r /\ rs[g].status = "active"}
Unused(rs) == {g \in Ids : \A h \in g .. MaxRows : rs[h] = NoRow}
NextId(rs) == CHOOSE g \in Unused(rs) : \A h \in Unused(rs) : g <= h

(* the row save_game and finish_game write: the room's active one or a new *)
Target(w, r) ==
  IF ActiveRows(w.rows, r) # {} THEN CHOOSE g \in ActiveRows(w.rows, r) : TRUE ELSE NextId(w.rows)

(* save_game: the UPDATE writes every active row of the room *)
SaveGame(w, r) ==
  LET g == Target(w, r)
      saved(row) == [row EXCEPT !.async = row.async \/ w.room.async, !.status = "active", !.room = r,
                                !.state = w.room.game, !.bots = w.room.bots]
  IN World([h \in Ids |-> IF h \in ActiveRows(w.rows, r) \cup {g} THEN saved(w.rows[h]) ELSE w.rows[h]],
           w.users, [w.room EXCEPT !.db = g])

(* finish_game with the players' statistics, then their ratings *)
FinishGame(w, r, t) ==
  LET g == Target(w, r)
      result == w.room.game.result
      counted == Counted(w.users, result)
  IN World([w.rows EXCEPT ![g] = [@ EXCEPT !.status = "finished", !.room = r, !.state = w.room.game,
                                           !.bots = w.room.bots, !.at = t]],
           IF w.room.bots THEN counted ELSE Rated(counted, result),
           [w.room EXCEPT !.db = g, !.resultSaved = TRUE])

(* add_game_moves, from last_saved_move_count on *)
FaultAddGameMoves(w) ==
  World([w.rows EXCEPT ![w.room.db].log = @ + w.room.moves], w.users, [w.room EXCEPT !.logged = w.room.moves])

AddGameMoves(w) ==
  World([w.rows EXCEPT ![w.room.db].log = @ + (w.room.moves - w.room.logged)], w.users,
        [w.room EXCEPT !.logged = w.room.moves])

FaultAlreadySaved(room) == FALSE

AlreadySaved(room) == room.game.over /\ room.resultSaved

(* save_game_to_db *)
SaveToDb(w, r, t, f) ==
  IF AlreadySaved(w.room) \/ f = "row" THEN w
  ELSE LET saved == IF w.room.game.over THEN FinishGame(w, r, t) ELSE SaveGame(w, r)
       IN IF f = "moves" THEN saved ELSE AddGameMoves(saved)

Signature(room) == <<room.moves, room.game.over, room.game.turns>>

(* persist_async, part of emit_all_states *)
FaultPersistAsync(w, r, t, f) ==
  IF ~w.room.async \/ (w.room.sig # None /\ w.room.sig[2] = w.room.game.over) THEN w
  ELSE SaveToDb(World(w.rows, w.users, [w.room EXCEPT !.sig = Signature(w.room)]), r, t, f)

PersistAsync(w, r, t, f) ==
  IF ~w.room.async \/ w.room.sig = Signature(w.room) THEN w
  ELSE SaveToDb(World(w.rows, w.users, [w.room EXCEPT !.sig = Signature(w.room)]), r, t, f)

(* saves may fail while MaxFaults allows *)
Failures == IF faults < MaxFaults THEN {"none", "row", "moves"} ELSE {"none"}
Failed(fs) ==
  /\ Len(SelectSeq(fs, LAMBDA f : f # "none")) + faults <= MaxFaults
  /\ faults' = faults + Len(SelectSeq(fs, LAMBDA f : f # "none"))
  /\ lost' = (lost \/ \E i \in DOMAIN fs : fs[i] # "none")

Here(room) == World(rows, users, room)
Written(r, w) == rows' = w.rows /\ users' = w.users /\ rooms' = [rooms EXCEPT ![r] = w.room]

Closed(r) == rooms' = [rooms EXCEPT ![r] = NoRoom]
Running(room) == room.stage = "game" /\ ~room.game.over
Abandoned(gs) == [g \in Ids |-> IF g \in gs /\ rows[g].status = "active" THEN [rows[g] EXCEPT !.status = "abandoned"] ELSE rows[g]]

-----------------------------------------------------------------------------
(* Games in rooms. *)

RoomUnused(r) == rooms[r] = NoRoom /\ \A g \in Ids : rows[g].room # r
SpaceLeft == Unused(rows) # {}

(* start_game and create_async_game; both save the new game at once *)
StartGame(r, async, bots) ==
  /\ RoomUnused(r) /\ SpaceLeft /\ (async => ~bots)
  /\ \E f \in Failures :
       LET w == Here([NoRoom EXCEPT !.stage = "game", !.async = async, !.bots = bots, !.seen = TRUE])
       IN /\ Written(r, IF async THEN PersistAsync(w, r, now, f) ELSE SaveToDb(w, r, now, f))
          /\ Failed(<<f>>)
  /\ UNCHANGED <<adjustments, now>>

Turn(room) == [room EXCEPT !.game.turns = @ + 1, !.moves = @ + 1]

(* a move that does not end the game, by a player or the sweeper *)
PlayTurn(r) ==
  /\ Running(rooms[r]) /\ rooms[r].game.turns < MaxTurns /\ SpaceLeft
  /\ \E f \in Failures :
       /\ f # "none" => rooms[r].async
       /\ Written(r, PersistAsync(Here(Turn(rooms[r])), r, now, f))
       /\ Failed(<<f>>)
  /\ UNCHANGED <<adjustments, now>>

Ended(room, result) == [room EXCEPT !.game.over = TRUE, !.game.result = result]

(* the handlers of moves and votes and the admin's end of a game save, then *)
(* send the state to all, which saves a correspondence game again           *)
EndWithSave(r, result, t) ==
  /\ Running(rooms[r]) /\ SpaceLeft
  /\ \E f, again \in Failures :
       LET last == IF rooms[r].game.turns < MaxTurns THEN Turn(rooms[r]) ELSE rooms[r]
           saved == SaveToDb(Here(Ended(last, result)), r, t, f)
       IN /\ again # "none" => rooms[r].async /\ f # "none"
          /\ Written(r, PersistAsync(saved, r, t, again))
          /\ Failed(<<f, again>>)
  /\ now' = t
  /\ UNCHANGED adjustments

(* a resignation or a missed deadline only sends the state, and drops the   *)
(* room when nobody looks at it (cleanup_finished_async)                    *)
EndWithState(r, result, t) ==
  /\ Running(rooms[r]) /\ rooms[r].async /\ SpaceLeft
  /\ \E f \in Failures :
       LET w == PersistAsync(Here(Ended(rooms[r], result)), r, t, f)
       IN /\ Written(r, World(w.rows, w.users, IF rooms[r].seen THEN w.room ELSE NoRoom))
          /\ Failed(<<f>>)
  /\ now' = t
  /\ UNCHANGED adjustments

(* save_game, by the owner or the admin *)
ManualSave(r) ==
  /\ Running(rooms[r]) /\ SpaceLeft
  /\ \E f \in Failures :
       LET w == SaveToDb(Here(rooms[r]), r, now, f)
       IN /\ Written(r, World(w.rows, w.users, [w.room EXCEPT !.manual = @ \/ f = "none"]))
          /\ Failed(<<f>>)
  /\ UNCHANGED <<adjustments, now>>

(* the room goes: disband_active_room, or the last human has left; a game   *)
(* nobody has saved on purpose is abandoned                                 *)
RoomGoes(r) ==
  /\ rooms[r].stage # "none"
  /\ Closed(r)
  /\ rows' = IF Running(rooms[r]) /\ ~rooms[r].manual
             THEN Abandoned(IF rooms[r].db # None THEN {rooms[r].db} ELSE ActiveRows(rows, r))
             ELSE rows
  /\ UNCHANGED <<users, adjustments, now, faults, lost>>

(* the owner's grace period is over: the game is saved first *)
OwnerLost(r) ==
  /\ Running(rooms[r]) /\ ~rooms[r].async /\ SpaceLeft
  /\ \E f \in Failures :
       LET w == SaveToDb(Here(rooms[r]), r, now, f)
           keeps == f = "none" \/ rooms[r].manual
           g == w.room.db
       IN /\ rows' = IF keeps \/ g = None THEN w.rows ELSE [w.rows EXCEPT ![g].status = "abandoned"]
          /\ Failed(<<f>>)
  /\ Closed(r)
  /\ UNCHANGED <<users, adjustments, now>>

(* abandon_game over HTTP; the room is closed without further ado *)
AbandonGame(g) ==
  /\ rows[g].status = "active" /\ ~rows[g].async
  /\ rooms' = [rooms EXCEPT ![rows[g].room] = NoRoom]
  /\ rows' = Abandoned({g})
  /\ UNCHANGED <<users, adjustments, now, faults, lost>>

(* restore_game: a waiting room that holds a copy of the row *)
RestoreGame(r, g) ==
  /\ RoomUnused(r) /\ rows[g].status = "active" /\ ~rows[g].async
  /\ Reopen \/ (rooms[rows[g].room].stage = "none" /\ \A q \in Rooms : rooms[q].save = None)
  /\ rooms' = [rooms EXCEPT ![r] = [NoRoom EXCEPT !.stage = "lobby", !.bots = rows[g].bots,
                                                  !.save = [id |-> g, state |-> rows[g].state]]]
  /\ UNCHANGED <<rows, users, adjustments, now, faults, lost>>

(* restore_start: the copy is played on, with the moves the row has now *)
RestoreStart(r) ==
  /\ rooms[r].stage = "lobby" /\ SpaceLeft
  /\ LET g == rooms[r].save.id
         room == [NoRoom EXCEPT !.stage = "game", !.bots = rooms[r].bots, !.game = rooms[r].save.state, !.seen = TRUE,
                                !.moves = rows[g].log]
         w == World(Abandoned({g}), users, room)
     IN \E f \in Failures : /\ Written(r, SaveToDb(w, r, now, f))
                            /\ Failed(<<f>>)
  /\ UNCHANGED <<adjustments, now>>

-----------------------------------------------------------------------------
(* Correspondence games. *)

(* load_async_room *)
LoadedRoom(g) ==
  [NoRoom EXCEPT !.stage = "game", !.async = TRUE, !.game = rows[g].state, !.db = g,
                 !.moves = rows[g].log, !.logged = rows[g].log,
                 !.sig = <<rows[g].log, rows[g].state.over, rows[g].state.turns>>]

(* async_room_for_db_game *)
RoomFor(g) ==
  LET loaded == {r \in Rooms : rooms[r].async /\ rooms[r].db = g}
  IN IF loaded # {} THEN rooms[CHOOSE r \in loaded : TRUE] ELSE LoadedRoom(g)

ActiveAsync(g) == rows[g].status = "active" /\ rows[g].async

(* open_async_game (someone looks), async_load (nobody does) *)
OpenAsync(g, looks) ==
  /\ ActiveAsync(g)
  /\ rooms' = [rooms EXCEPT ![rows[g].room] = [RoomFor(g) EXCEPT !.seen = RoomFor(g).seen \/ looks]]
  /\ UNCHANGED <<rows, users, adjustments, now, faults, lost>>

(* the last who looks leaves; a finished game's room goes with him *)
CloseView(r) ==
  /\ rooms[r].async /\ rooms[r].seen
  /\ rooms' = [rooms EXCEPT ![r] = IF @.game.over THEN NoRoom ELSE [@ EXCEPT !.seen = FALSE]]
  /\ UNCHANGED <<rows, users, adjustments, now, faults, lost>>

AsyncUnload(g) ==
  /\ \E r \in Rooms : /\ rooms[r].async /\ rooms[r].db = g /\ ~rooms[r].seen
                      /\ Closed(r)
  /\ UNCHANGED <<rows, users, adjustments, now, faults, lost>>

(* async_extend: the deadline, then the state is sent *)
AsyncExtend(g) ==
  /\ ActiveAsync(g) /\ RoomFor(g).game.due = 0 /\ ~RoomFor(g).game.over
  /\ LET r == rows[g].room
         w == Here([RoomFor(g) EXCEPT !.game.due = 1])
     IN \E f \in Failures : Written(r, PersistAsync(w, r, now, f)) /\ Failed(<<f>>)
  /\ UNCHANGED <<adjustments, now>>

AsyncVoid(g) ==
  /\ ActiveAsync(g)
  /\ rows' = [rows EXCEPT ![g].status = "voided"]
  /\ rooms' = [rooms EXCEPT ![rows[g].room] = NoRoom]
  /\ UNCHANGED <<users, adjustments, now, faults, lost>>

-----------------------------------------------------------------------------
(* The archive. *)

LiveGames == {rooms[r].db : r \in Rooms}

(* void of room_action: the running game is saved, marked and disbanded *)
VoidRoom(r) ==
  /\ Running(rooms[r]) /\ SpaceLeft
  /\ LET w == SaveToDb(Here(rooms[r]), r, now, "none")
     IN rows' = [w.rows EXCEPT ![w.room.db].status = "voided"]
  /\ Closed(r)
  /\ UNCHANGED <<users, adjustments, now, faults, lost>>

(* what void_game, unvoid_game and delete_game end with *)
Reviewed(rs) == /\ rows' = rs /\ users' = Refreshed(rs)
                /\ UNCHANGED <<adjustments, rooms, now, faults>>

VoidGame(g) ==
  /\ rows[g].status = "finished"
  /\ Reviewed([rows EXCEPT ![g].status = "voided"]) /\ UNCHANGED lost

UnvoidGame(g) ==
  /\ rows[g].status = "voided"
  /\ Reviewed([rows EXCEPT ![g].status = "finished"]) /\ UNCHANGED lost

(* set_game_status *)
SetStatus(g) ==
  /\ rows[g].status \in {"active", "abandoned"} /\ g \notin LiveGames
  /\ rows' = [rows EXCEPT ![g].status = IF @ = "active" THEN "abandoned" ELSE "active"]
  /\ UNCHANGED <<users, adjustments, rooms, now, faults, lost>>

(* delete_game, and old_abandoned_delete for an abandoned one *)
DeleteGame(g) ==
  /\ rows[g].status \notin {"none", "deleted"} /\ g \notin LiveGames
  /\ LET left == [rows EXCEPT ![g] = [NoRow EXCEPT !.status = "deleted"]]
     IN IF rows[g].status \in {"finished", "voided"} THEN Reviewed(left)
        ELSE rows' = left /\ UNCHANGED <<users, adjustments, rooms, now, faults>>
  /\ lost' = (lost \/ \E r \in Rooms : rooms[r].save # None /\ rooms[r].save.id = g)

(* set_rating *)
SetRating(u, rating, t) ==
  /\ Len(adjustments) < MaxAdjustments /\ users[u].rating # rating
  /\ users' = [users EXCEPT ![u].rating = rating]
  /\ adjustments' = Append(adjustments, [user |-> u, delta |-> rating - users[u].rating, at |-> t])
  /\ now' = t
  /\ UNCHANGED <<rows, rooms, faults, lost>>

(* ratings_apply *)
RatingsApply ==
  /\ LET ratings == ComputedRatings(rows, adjustments)
     IN users' = [u \in Users |-> [users[u] EXCEPT !.rating = ratings[u].rating, !.rated = ratings[u].rated]]
  /\ UNCHANGED <<rows, adjustments, rooms, now, faults, lost>>

(* The server stops and starts: cleanup_finished_saves closes what was      *)
(* finished, restore_async_games loads every correspondence game.           *)
Restart ==
  LET closed == [g \in Ids |-> IF rows[g].status = "active" /\ rows[g].state.over
                               THEN [rows[g] EXCEPT !.status = "finished", !.at = now, !.bots = FALSE] ELSE rows[g]]
      game(r) == {g \in Ids : closed[g].status = "active" /\ closed[g].async /\ closed[g].room = r}
  IN /\ rows' = closed
     /\ rooms' = [r \in Rooms |-> IF game(r) = {} THEN NoRoom ELSE LoadedRoom(CHOOSE g \in game(r) : TRUE)]
     /\ UNCHANGED <<users, adjustments, now, faults, lost>>

-----------------------------------------------------------------------------

Next ==
  \/ \E r \in Rooms :
       \/ \E async, bots \in BOOLEAN : StartGame(r, async, bots)
       \/ PlayTurn(r) \/ ManualSave(r) \/ RoomGoes(r) \/ OwnerLost(r)
       \/ RestoreStart(r) \/ CloseView(r) \/ VoidRoom(r)
       \/ \E g \in Ids : RestoreGame(r, g)
       \/ \E result \in Results, t \in {now, now + 1} \cap 0 .. MaxTime :
            EndWithSave(r, result, t) \/ EndWithState(r, result, t)
  \/ \E g \in Ids :
       \/ AbandonGame(g) \/ AsyncUnload(g) \/ AsyncExtend(g) \/ AsyncVoid(g)
       \/ VoidGame(g) \/ UnvoidGame(g) \/ SetStatus(g) \/ DeleteGame(g)
       \/ \E looks \in BOOLEAN : OpenAsync(g, looks)
  \/ \E u \in Users, rating \in {Initial}, t \in {now, now + 1} \cap 0 .. MaxTime : SetRating(u, rating, t)
  \/ RatingsApply \/ Restart

Spec == Init /\ [][Next]_vars

-----------------------------------------------------------------------------
(* Correctness. *)

DistinctTimes(es) ==
  \A a, b \in es : a # b => a[1] # b[1]

(* What the players see is what the archive says: ratings and counters kept *)
(* up to date game by game equal those computed from all the finished games *)
(* and adjustments, whatever was voided, unvoided, deleted or restarted in  *)
(* between (finish_game against compute_ratings and compute_counters).  Two *)
(* events of the same second may be computed in the other order.            *)
RatingsReproducible ==
  DistinctTimes(Events(rows, adjustments)) => users = Recomputed(rows, adjustments)

(* The result of a room's game is recorded, and rated, once: by none of the *)
(* saves that follow, in the same handler, after a failure or a reload      *)
(* (result_saved of save_game_to_db).                                       *)
OneResultPerRoom ==
  \A g, h \in Ids : g # h /\ rows[g].state.over /\ rows[h].state.over => rows[g].room # rows[h].room

(* Unless a write failed, the replay of a saved game has every move of it   *)
(* once, over saves, restores and reloads (last_saved_move_count).          *)
ReplayIsComplete ==
  ~lost => \A g \in Ids : rows[g].status \notin {"none", "deleted"} => rows[g].log = rows[g].state.turns

(* A correspondence game lives in the database: as long as no write has     *)
(* failed, no move and no end of a loaded one is only in memory, so it may  *)
(* be unloaded, or the server stopped, at any moment (persist_async).       *)
AsyncIsDurable ==
  \A r \in Rooms :
    rooms[r].async /\ ~lost =>
      LET row == rows[rooms[r].db] IN
      /\ row.state.turns = rooms[r].game.turns /\ row.state.over = rooms[r].game.over
      /\ row.status \in (IF row.state.over THEN {"finished", "voided"} ELSE {"active"})

(* "after every change" (the comment of persist_async): the state in the    *)
(* database is the state in memory.                                         *)
EveryChangeIsSaved ==
  \A r \in Rooms : rooms[r].async /\ rooms[r].db # None => rows[rooms[r].db].state = rooms[r].game

=============================================================================
