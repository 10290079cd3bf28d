---------------------------- MODULE ScrabbleGame ----------------------------
(* One game, as the struct Game of src/src/engine/game.rs keeps it: the     *)
(* players, the bag, the board, the placement waiting for the other         *)
(* players' votes, the turn, and the end of the game with its settlement.   *)
(* Every action is one method of Game, called with the whole server locked. *)
(*                                                                          *)
(* Abstractions.  A tile is a physical tile: two A's are two tiles.  Where  *)
(* a tile lies on the board and which words it forms (engine/board.rs) are  *)
(* left out: a placement is a nonempty set of tiles of the hand with any of *)
(* the scores WordScores.  The move log, the messages, the hints, the daily *)
(* puzzle and the set of rejected placements are left out too; turn_number  *)
(* is kept by RoomTurns, whose timers read it.                              *)
EXTENDS SeatOrder, FiniteSetsExt

CONSTANTS
  Bots,            \* the seats a bot takes when somebody sits there
  Tiles,           \* the physical tiles
  HandValue,       \* what each set of tiles is worth in the settlement
  HandSize,        \* HAND_SIZE: 7
  ExchangeMin,     \* an exchange needs this many tiles in the bag: 7
  ScorelessLimit,  \* SCORELESS_TURNS_LIMIT: 6
  MaxTimeouts,     \* MAX_TIMEOUTS: 3
  WordScores,      \* the scores a placement's words may earn
  BonusAllTiles,   \* BONUS_ALL_TILES: for a placement of HandSize tiles
  Modes            \* the kinds of game explored, of "plain", "challenge", "async"

ASSUME BotsAssumption == Bots \subseteq Seats \ {1}
ASSUME TilesAssumption ==      \* 100 tiles, 4 hands of 7
  IsFiniteSet(Tiles) /\ NumSeats * HandSize <= Cardinality(Tiles)
ASSUME HandValueAssumption == HandValue \in [SUBSET Tiles -> Nat]
ASSUME RulesAssumption ==
  /\ HandSize \in Nat \ {0}
  /\ ExchangeMin \in Nat \ {0}
  /\ ScorelessLimit \in Nat \ {0}
  /\ MaxTimeouts \in Nat \ {0}
  /\ WordScores \subseteq Nat
  /\ BonusAllTiles \in Nat
ASSUME ModesAssumption == Modes \subseteq {"plain", "challenge", "async"}

VARIABLES
  mode,       \* challenge_mode and async_mode (never both)
  started, finished,
  players,    \* the seats taken (Game.players)
  present,    \* the players who are not `disconnected`
  hand, bag, board,
  pending,    \* pending_challenge, or NoPending
  current,    \* the seat of current_player_idx
  scoreless,  \* scoreless_turns
  timeouts,   \* Player.timeouts: consecutive missed deadlines
  score,      \* Player.score
  resigned,   \* the players who resigned
  winners,    \* Game.winners
  gone        \* history: the tiles that left the game with a removed player

vars == <<mode, started, finished, players, present, hand, bag, board,
          pending, current, scoreless, timeouts, score, resigned, winners, gone>>

Async == mode = "async"

(* a placement waiting for its votes (struct Challenge) *)
PendingType == [placer: Seats, tiles: SUBSET Tiles, points: Nat,
                accepts: SUBSET Seats, rejects: SUBSET Seats]
NoPending == [placer |-> 0, tiles |-> {}, points |-> 0,
              accepts |-> {}, rejects |-> {}]

Init ==
  /\ mode \in Modes
  /\ started = FALSE /\ finished = FALSE
  /\ players = {1} /\ present = {1} /\ current = 1   \* the room's creator
  /\ hand = [s \in Seats |-> {}]
  /\ bag = Tiles /\ board = {} /\ gone = {}
  /\ pending = NoPending
  /\ scoreless = 0
  /\ timeouts = [s \in Seats |-> 0]
  /\ score = [s \in Seats |-> 0]
  /\ resigned = {} /\ winners = {}

-----------------------------------------------------------------------------
(* Turns, draws and the settlement.  The operators called Fault... here and *)
(* below are no part of the model: each is a definition with a plausible    *)
(* mistake in it, kept to show that the properties would notice.            *)

FaultTurnByCapacity == current' = NextIn(current, Seats)
FaultTurnToAbsent == current' = NextIn(current, players)

PassOn == current' = Landing(current, players, present, Async)

(* draw takes what the bag still has.  The count is HAND_SIZE - hand.len()  *)
(* in usize: a longer hand would wrap to a count that empties the bag.      *)
Draws(n) ==
  kSubset(IF n \in 0..Cardinality(bag) THEN n ELSE Cardinality(bag), bag)

(* the hands of all players together; nobody else's counts *)
LeftOver(h) ==
  LET value(s) == IF s \in players THEN HandValue[h[s]] ELSE 0
  IN  value(1) + value(2) + value(3) + value(4)

FaultUnpaidHands(h, sc, finisher) ==
  [s \in Seats |-> IF s = finisher THEN sc[s] + LeftOver(h) ELSE sc[s]]

Settled(h, sc, finisher) ==
  [s \in Seats |->
     IF s \in players
     THEN sc[s] - HandValue[h[s]] + (IF s = finisher THEN LeftOver(h) ELSE 0)
     ELSE sc[s]]

Best(sc, S) == {s \in S : \A t \in S : sc[t] <= sc[s]}

(* end_game with hands h and scores sc; finisher 0 is None *)
EndGame(h, sc, finisher) ==
  /\ finished' = TRUE
  /\ score' = Settled(h, sc, finisher)
  /\ winners' = Best(score', players)

GoesOn(sc) ==
  /\ score' = sc
  /\ UNCHANGED <<finished, winners>>

(* resign: nobody who resigned wins, if there is anybody else *)
GivesUp(s) ==
  /\ resigned' = resigned \cup {s}
  /\ pending' = NoPending
  /\ finished' = TRUE
  /\ score' = Settled(hand, score, 0)
  /\ winners' = Best(score', IF players \subseteq resigned' THEN players
                             ELSE players \ resigned')

(* register_scoreless_turn with the hands h; the turn passes on if `moves` *)
ScorelessTurn(h, moves) ==
  /\ scoreless' = scoreless + 1
  /\ \/ /\ scoreless + 1 >= ScorelessLimit
        /\ EndGame(h, score, 0)
        /\ UNCHANGED current
     \/ /\ scoreless + 1 < ScorelessLimit
        /\ GoesOn(score)
        /\ IF moves THEN PassOn ELSE UNCHANGED current

(* tiles go from s to the board, s draws from `kept` up to a full hand *)
Scored(s, kept, tiles, points) ==
  \E drawn \in Draws(HandSize - Cardinality(kept)) :
    LET h  == [hand EXCEPT ![s] = kept \cup drawn]
        sc == [score EXCEPT ![s] = @ + points]
    IN  /\ hand' = h
        /\ bag' = bag \ drawn
        /\ board' = board \cup tiles
        /\ scoreless' = 0
        /\ IF h[s] = {} /\ bag' = {}
           THEN EndGame(h, sc, s) /\ UNCHANGED current
           ELSE GoesOn(sc) /\ PassOn

Voters(placer) == players \ (Bots \cup {placer})

ChallengeApplies(s) == mode = "challenge" /\ Voters(s) # {}

(* a voter who has not rejected counts as accepting; a draw accepts *)
Accepted(p) ==
  LET V == Voters(p.placer)
  IN  2 * Cardinality(V \ p.rejects) >= Cardinality(V)

FaultAcceptWithoutDrawing(p) ==
  /\ pending' = NoPending
  /\ board' = board \cup p.tiles
  /\ GoesOn([score EXCEPT ![p.placer] = @ + p.points]) /\ PassOn
  /\ scoreless' = 0
  /\ UNCHANGED <<mode, started, players, present, hand, bag, timeouts, resigned, gone>>

FinalizeAccept(p) ==
  /\ pending' = NoPending
  /\ Scored(p.placer, hand[p.placer], p.tiles, p.points)
  /\ UNCHANGED <<mode, started, players, present, timeouts, resigned, gone>>

FinalizeReject(p) ==
  /\ pending' = NoPending
  /\ hand' = [hand EXCEPT ![p.placer] = @ \cup p.tiles]
  /\ ScorelessTurn(hand', p.placer \notin present)
  /\ UNCHANGED <<mode, started, players, present, bag, board, timeouts, resigned, gone>>

Resolve(p) == IF Accepted(p) THEN FinalizeAccept(p) ELSE FinalizeReject(p)

-----------------------------------------------------------------------------
(* The waiting room. *)

TakeSeat(s) ==
  /\ ~started /\ ~Async
  /\ \A t \in players : t < s
  /\ players' = players \cup {s}
  /\ present' = present \cup {s}
  /\ UNCHANGED <<mode, started, finished, hand, bag, board, pending, current,
                 scoreless, timeouts, score, resigned, winners, gone>>

AddPlayer(s) == s \notin Bots /\ TakeSeat(s)
AddBot(s) == s \in Bots /\ TakeSeat(s)

(* a full hand for every player of S; the bag suffices for four *)
Deal(S) ==
  \E h \in [S -> kSubset(HandSize, bag)] :
    /\ \A s, t \in S : s # t => h[s] \cap h[t] = {}
    /\ hand' = [s \in Seats |-> IF s \in S THEN h[s] ELSE {}]
    /\ bag' = bag \ UNION {h[s] : s \in S}

Start ==
  /\ ~started /\ ~Async
  /\ started' = TRUE
  /\ Deal(players)
  /\ UNCHANGED <<mode, finished, players, present, board, pending, current,
                 scoreless, timeouts, score, resigned, winners, gone>>

(* build_game: the creator is online, the friends are not, anybody begins *)
BuildAsync ==
  /\ ~started /\ Async
  /\ started' = TRUE
  /\ \E n \in 2..NumSeats :
       /\ (1..n) \cap Bots = {}
       /\ players' = 1..n
       /\ current' \in 1..n
       /\ Deal(1..n)
  /\ present' = {1}
  /\ UNCHANGED <<mode, finished, board, pending, scoreless, timeouts,
                 score, resigned, winners, gone>>

-----------------------------------------------------------------------------
(* The moves of the player whose turn it is. *)

MayMove == ~finished /\ pending = NoPending

Place ==
  /\ MayMove /\ current \in present
  /\ \E tiles \in (SUBSET hand[current]) \ {{}}, word \in WordScores :
       LET points == word + (IF Cardinality(tiles) = HandSize THEN BonusAllTiles ELSE 0)
           kept   == hand[current] \ tiles
       IN  \/ /\ ChallengeApplies(current)
              /\ pending' = [placer |-> current, tiles |-> tiles, points |-> points,
                             accepts |-> {}, rejects |-> {}]
              /\ hand' = [hand EXCEPT ![current] = kept]
              /\ UNCHANGED <<finished, bag, board, current, scoreless, timeouts,
                             score, winners>>
           \/ /\ ~ChallengeApplies(current)
              /\ Scored(current, kept, tiles, points)
              /\ timeouts' = [timeouts EXCEPT ![current] = 0]
              /\ UNCHANGED pending
  /\ UNCHANGED <<mode, started, players, present, resigned, gone>>

(* the new tiles are drawn before the old ones go back *)
Exchange ==
  /\ MayMove /\ current \in present
  /\ Cardinality(bag) >= ExchangeMin
  /\ \E tiles \in (SUBSET hand[current]) \ {{}} :
       /\ Cardinality(tiles) <= Cardinality(bag)
       /\ \E drawn \in Draws(Cardinality(tiles)) :
            /\ hand' = [hand EXCEPT ![current] = (@ \ tiles) \cup drawn]
            /\ bag' = (bag \ drawn) \cup tiles
            /\ ScorelessTurn(hand', TRUE)
  /\ timeouts' = [timeouts EXCEPT ![current] = 0]
  /\ UNCHANGED <<mode, started, players, present, board, pending, resigned, gone>>

(* pass_turn does not look at `started`: it also works in a waiting room *)
Pass(missed) ==
  /\ MayMove /\ (Async => started)
  /\ timeouts' = [timeouts EXCEPT ![current] = IF missed THEN @ + 1 ELSE 0]
  /\ ScorelessTurn(hand, TRUE)
  /\ UNCHANGED <<mode, started, players, present, hand, bag, board, pending,
                 resigned, gone>>

(* a player's own pass, or the turn timer's in the name of the current one *)
PassTurn == (current \in present \/ (started /\ ~Async)) /\ Pass(FALSE)

(* the admin's skip: in a correspondence game it counts as a missed deadline *)
AdminSkip == started /\ Pass(Async)

FaultExpireAbsentOnly == Async /\ started /\ current \notin present /\ Pass(TRUE)

(* expire_turn: the deadline's pass, and at the MaxTimeouts-th in a row the *)
(* player's resignation, unless the pass has just ended the game.  The turn *)
(* has passed on by then.                                                   *)
ExpireTurn ==
  /\ Async /\ started /\ MayMove
  /\ \/ /\ timeouts[current] + 1 < MaxTimeouts \/ scoreless + 1 >= ScorelessLimit
        /\ Pass(TRUE)
     \/ /\ timeouts[current] + 1 >= MaxTimeouts /\ scoreless + 1 < ScorelessLimit
        /\ timeouts' = [timeouts EXCEPT ![current] = @ + 1]
        /\ scoreless' = scoreless + 1
        /\ PassOn
        /\ GivesUp(current)
        /\ UNCHANGED <<mode, started, players, present, hand, bag, board, gone>>

(* the socket handler offers resign in a correspondence game only *)
Resign(s) ==
  /\ Async /\ started /\ ~finished /\ s \in present
  /\ GivesUp(s)
  /\ UNCHANGED <<mode, started, players, present, hand, bag, board, current,
                 scoreless, timeouts, gone>>

-----------------------------------------------------------------------------
(* The vote on a pending placement. *)

Open == pending # NoPending

CastVote(v, accepts) ==
  /\ Open /\ v \in Voters(pending.placer) \cap present
  /\ v \notin pending.accepts \cup pending.rejects
  /\ LET p == [pending EXCEPT !.accepts = IF accepts THEN @ \cup {v} ELSE @,
                              !.rejects = IF accepts THEN @ ELSE @ \cup {v}]
     IN  \/ /\ Voters(p.placer) \subseteq p.accepts \cup p.rejects
           /\ Resolve(p)
        \/ /\ ~ (Voters(p.placer) \subseteq p.accepts \cup p.rejects)
           /\ pending' = p
           /\ UNCHANGED <<mode, started, finished, players, present, hand, bag,
                          board, current, scoreless, timeouts, score, resigned,
                          winners, gone>>

FaultTimeoutNeedsVoter ==
  Open /\ Voters(pending.placer) \cap present # {} /\ Resolve(pending)

(* accept_pending: the voting time is over *)
VoteTimeout == Open /\ Resolve(pending)

(* the placer takes the tiles back while nobody has voted *)
Withdraw ==
  /\ Open /\ pending.placer \in present
  /\ pending.accepts \cup pending.rejects = {}
  /\ pending' = NoPending
  /\ hand' = [hand EXCEPT ![pending.placer] = @ \cup pending.tiles]
  /\ UNCHANGED <<mode, started, finished, players, present, bag, board, current,
                 scoreless, timeouts, score, resigned, winners, gone>>

(* the admin decides the vote *)
ForceResolve(accept) ==
  Open /\ IF accept THEN FinalizeAccept(pending) ELSE FinalizeReject(pending)

FaultForgottenPending == hand

(* pending tiles go back to the placer first *)
ReturnedHands ==
  [s \in Seats |-> IF s = pending.placer THEN hand[s] \cup pending.tiles ELSE hand[s]]

(* the admin ends the game at the present standing *)
ForceEnd ==
  /\ started /\ ~finished
  /\ hand' = ReturnedHands
  /\ pending' = NoPending
  /\ EndGame(hand', score, 0)
  /\ UNCHANGED <<mode, started, players, present, bag, board, current, scoreless,
                 timeouts, resigned, gone>>

-----------------------------------------------------------------------------
(* Connections, departures, saved games. *)

Connections == UNCHANGED <<mode, started, finished, players, hand, bag, board,
                           pending, scoreless, timeouts, score, resigned,
                           winners, gone>>

MarkDisconnected(s) ==
  /\ ~finished /\ s \in present \ Bots /\ (Async => started)
  /\ present' = present \ {s}
  /\ UNCHANGED current /\ Connections

(* replace_player_sid: the new connection takes the seat and its vote over *)
Reconnect(s) ==
  /\ ~finished /\ s \in players \ present
  /\ present' = present \cup {s}
  /\ UNCHANGED current /\ Connections

FaultSkipDuringVote ==
  /\ started /\ ~finished /\ ~Async
  /\ current \notin present /\ present # {}
  /\ PassOn
  /\ UNCHANGED present /\ Connections

(* skip_disconnected_current: not during a vote, not in a correspondence game *)
SkipDisconnected ==
  /\ started /\ MayMove /\ ~Async
  /\ current \notin present /\ present # {}
  /\ PassOn
  /\ UNCHANGED present /\ Connections

(* The player's tiles leave the game with him, those of his pending         *)
(* placement too.  The room closes when the last human leaves.  In a game   *)
(* that has begun only a connection without a token gets here.              *)
RemovePlayer(s) ==
  /\ ~finished /\ s \in players /\ (s \in Bots => ~started) /\ (Async => started)
  /\ players \ (Bots \cup {s}) # {}
  /\ players' = players \ {s}
  /\ present' = present \ {s}
  /\ current' = IF s = current THEN NextIn(s, players') ELSE current
  /\ IF pending.placer = s
     THEN pending' = NoPending /\ gone' = gone \cup hand[s] \cup pending.tiles
     ELSE UNCHANGED pending /\ gone' = gone \cup hand[s]
  /\ hand' = [hand EXCEPT ![s] = {}]
  /\ timeouts' = [timeouts EXCEPT ![s] = 0]
  /\ score' = [score EXCEPT ![s] = 0]
  /\ UNCHANGED <<mode, started, finished, bag, board, scoreless, resigned, winners>>

(* The game is saved and loaded again: to_save_dict returns a pending       *)
(* placement to the placer's hand; restore_start seats the humans who came  *)
(* back and skips a missing current player, load_async_room finds everybody *)
(* away.                                                                    *)
SaveRestore ==
  /\ started /\ ~finished
  /\ hand' = ReturnedHands
  /\ pending' = NoPending
  /\ present' \in {P \cup (Bots \cap players) : P \in SUBSET (players \ Bots)}
  /\ IF Async
     THEN present' = {} /\ UNCHANGED current
     ELSE /\ present' \ Bots # {}
          /\ current' = IF current \in present' THEN current
                        ELSE Landing(current, players, present', FALSE)
  /\ UNCHANGED <<mode, started, finished, players, bag, board, scoreless,
                 timeouts, score, resigned, winners, gone>>

-----------------------------------------------------------------------------

Next ==
  \/ \E s \in Seats : AddPlayer(s) \/ AddBot(s)
  \/ Start \/ BuildAsync
  \/ Place \/ Exchange \/ PassTurn \/ ExpireTurn \/ AdminSkip
  \/ \E s \in Seats : Resign(s)
  \/ \E s \in Seats, accepts \in BOOLEAN : CastVote(s, accepts)
  \/ VoteTimeout \/ Withdraw
  \/ \E accept \in BOOLEAN : ForceResolve(accept)
  \/ ForceEnd
  \/ \E s \in Seats : MarkDisconnected(s) \/ Reconnect(s) \/ RemovePlayer(s)
  \/ SkipDisconnected
  \/ SaveRestore

Spec == Init /\ [][Next]_vars

(* start_challenge_timer is armed at every placement that goes to a vote,   *)
(* and the sweeper looks at every correspondence game once a minute.        *)
FairSpec == Spec /\ WF_vars(VoteTimeout) /\ WF_vars(ExpireTurn)

-----------------------------------------------------------------------------
(* Invariants. *)

(* The state has the shape the struct Game has: the turn always rests on a  *)
(* player of the table, and nobody is connected who is not one.             *)
TypeOK ==
  /\ mode \in Modes
  /\ started \in BOOLEAN /\ finished \in BOOLEAN
  /\ players \subseteq Seats /\ present \subseteq players
  /\ current \in players
  /\ hand \in [Seats -> SUBSET Tiles]
  /\ bag \subseteq Tiles /\ board \subseteq Tiles /\ gone \subseteq Tiles
  /\ pending \in PendingType \cup {NoPending}
  /\ scoreless \in Nat
  /\ timeouts \in [Seats -> Nat]
  /\ score \in [Seats -> Int]
  /\ resigned \subseteq Seats /\ winners \subseteq Seats

(* the tiles a player answers for: his hand and his pending placement *)
Held(s) == hand[s] \cup (IF pending.placer = s THEN pending.tiles ELSE {})

(* Drawing, exchanging, laying, taking back, resolving a vote, removing a   *)
(* player and reloading a save neither lose a tile nor duplicate one: every *)
(* tile is in exactly one of the bag, the board, one hand, the pending      *)
(* placement and what removed players took away.                            *)
Accounted ==
  \A t \in Tiles : \/ t \in bag \cup board \cup gone \cup pending.tiles
                  \/ \E s \in Seats : t \in hand[s]
NoOverlap ==
  /\ \A s \in Seats : hand[s] \cap (bag \cup board \cup gone \cup pending.tiles) = {}
  /\ \A s, t \in Seats : s # t => hand[s] \cap hand[t] = {}
  /\ pending.tiles \cap (bag \cup board \cup gone) = {}
  /\ bag \cap (board \cup gone) = {} /\ board \cap gone = {}
TileConservation == Accounted /\ NoOverlap

(* Between two moves a player holds a full hand for as long as the bag has  *)
(* tiles, the pending placement counted, and never more: otherwise the      *)
(* count HAND_SIZE - hand.len() of the next draw would wrap around.         *)
FullHands ==
  /\ \A s \in Seats : Cardinality(Held(s)) <= HandSize
  /\ started /\ bag # {} => \A s \in players : Cardinality(Held(s)) = HandSize

(* A placement waits for votes only in a running challenge game, it is the  *)
(* current player's (whatever disconnections and departures came between),  *)
(* and nobody has voted twice, or on his own tiles, or as a bot.            *)
PendingConsistent ==
  Open =>
    /\ started /\ ~finished /\ mode = "challenge"
    /\ pending.placer = current
    /\ pending.tiles # {}
    /\ pending.accepts \cap pending.rejects = {}
    /\ (pending.accepts \cup pending.rejects) \cap (Bots \cup {current}) = {}

-----------------------------------------------------------------------------
(* Action and liveness properties. *)

Total(sc) ==
  LET of(s) == IF s \in players THEN sc[s] ELSE 0
  IN  of(1) + of(2) + of(3) + of(4)

Earnings(tiles) ==
  {word + (IF Cardinality(tiles) = HandSize THEN BonusAllTiles ELSE 0) : word \in WordScores}

(* However a game ends, its settlement is right: the player who goes out    *)
(* gains exactly what the others lose, so that the table gains the last     *)
(* words' score and no more; otherwise the table loses what lies in the     *)
(* hands.  Somebody wins, no winner has resigned while another has not, and *)
(* nobody else who stayed in scored as much.                                *)
Settlement ==
  [][~finished /\ finished' =>
       /\ IF board' # board
          THEN Total(score') - Total(score) \in Earnings(board' \ board)
          ELSE Total(score') = Total(score) - LeftOver(hand')
       /\ winners' # {} /\ winners' \subseteq players
       /\ players \subseteq resigned' \/ winners' \cap resigned' = {}
       /\ \A w \in winners', s \in players \ (winners' \cup resigned') :
             score'[s] < score'[w]]_vars

(* The turn protocol that the room's timers and bots build on. *)
Turns == INSTANCE TurnGame WITH
  phase  <- IF finished THEN "over" ELSE IF pending # NoPending THEN "vote"
            ELSE IF started THEN "turn" ELSE "lobby",
  absent <- mode = "async"

(* Every behaviour of a game is one of TurnGame: the turn moves only as its *)
(* actions say, whatever the tiles, scores and votes do.                    *)
ImplementsTurnGame == Turns!TurnSpec

(* A placement never waits for ever: it is accepted, rejected, withdrawn,   *)
(* or the game ends.                                                        *)
VoteCloses == Open ~> ~Open

(* A correspondence game ends even if nobody comes back: the deadlines of   *)
(* the absent pass and then forfeit.                                        *)
AsyncEnds == (Async /\ started) ~> finished

(* game.rs:799-800: the player who misses the MAX_TIMEOUTS-th deadline in a *)
(* row gives up the game.                                                   *)
MissedDeadlinesForfeit ==
  [][ExpireTurn => (timeouts'[current] >= MaxTimeouts => current \in resigned')]_vars

(* game.rs:346: a game that start reports as begun can be played. *)
StartedGameIsPlayable == [][Start => ~finished']_vars
=============================================================================
