------------------------- MODULE ScrabbleGameProofs -------------------------
(* Proofs about ScrabbleGame, for every number of seats up to four, every   *)
(* set of tiles and every value of the rules' constants.                    *)
EXTENDS ScrabbleGame, SeatOrderProofs, FiniteSetTheorems

(* What the settlement adds and takes away is a whole number. *)
LEMMA LeftOverType ==
  ASSUME players \subseteq Seats, NEW h \in [Seats -> SUBSET Tiles]
  PROVE  LeftOver(h) \in Nat
<1>1. \A s \in players : HandValue[h[s]] \in Nat
  BY HandValueAssumption
<1> QED
  BY <1>1 DEF LeftOver

(* The settlement of any hands over any scores gives every seat an integer  *)
(* score (end_game).                                                        *)
LEMMA SettledType ==
  ASSUME players \subseteq Seats, NEW h \in [Seats -> SUBSET Tiles],
         NEW sc \in [Seats -> Int], NEW finisher
  PROVE  Settled(h, sc, finisher) \in [Seats -> Int]
<1>1. \A s \in Seats : HandValue[h[s]] \in Nat
  BY HandValueAssumption
<1>2. LeftOver(h) \in Nat
  BY LeftOverType
<1> QED
  BY <1>1, <1>2 DEF Settled
-----------------------------------------------------------------------------
(* Type correctness, fragment by fragment. *)

(* next_turn leaves the turn on a player of the table. *)
LEMMA PassOnType ==
  ASSUME TypeOK, PassOn
  PROVE  current' \in players
BY LandingIsPlayer DEF TypeOK, PassOn

(* end_game keeps the shape of the fields it assigns. *)
LEMMA EndGameType ==
  ASSUME TypeOK, NEW h \in [Seats -> SUBSET Tiles], NEW sc \in [Seats -> Int],
         NEW finisher, EndGame(h, sc, finisher)
  PROVE  /\ finished' \in BOOLEAN
         /\ score' \in [Seats -> Int]
         /\ winners' \subseteq Seats
BY SettledType DEF TypeOK, EndGame, Best

(* resign keeps the shape of the fields it assigns. *)
LEMMA GivesUpType ==
  ASSUME TypeOK, NEW s \in Seats, GivesUp(s)
  PROVE  /\ finished' \in BOOLEAN
         /\ score' \in [Seats -> Int]
         /\ winners' \subseteq Seats
         /\ resigned' \subseteq Seats
         /\ pending' \in PendingType \cup {NoPending}
BY SettledType DEF TypeOK, GivesUp, Best

(* A scoreless turn, whether it ends the game or passes the turn on, keeps  *)
(* the shape of the fields it assigns (register_scoreless_turn).            *)
LEMMA ScorelessTurnType ==
  ASSUME TypeOK, NEW h \in [Seats -> SUBSET Tiles], NEW moves,
         ScorelessTurn(h, moves)
  PROVE  /\ finished' \in BOOLEAN
         /\ score' \in [Seats -> Int]
         /\ winners' \subseteq Seats
         /\ scoreless' \in Nat
         /\ current' \in players
<1>1. CASE EndGame(h, score, 0) /\ UNCHANGED current
  BY <1>1, EndGameType DEF TypeOK, ScorelessTurn
<1>2. CASE GoesOn(score) /\ IF moves THEN PassOn ELSE UNCHANGED current
  BY <1>2, PassOnType DEF TypeOK, ScorelessTurn, GoesOn
<1> QED
  BY <1>1, <1>2 DEF ScorelessTurn

(* Laying tiles, drawing and going out keep the shape of the fields they    *)
(* assign (finalize_placement).                                             *)
LEMMA ScoredType ==
  ASSUME TypeOK, NEW s \in Seats, NEW kept \in SUBSET Tiles,
         NEW tiles \in SUBSET Tiles, NEW points \in Nat,
         Scored(s, kept, tiles, points)
  PROVE  /\ hand' \in [Seats -> SUBSET Tiles]
         /\ bag' \subseteq Tiles /\ board' \subseteq Tiles
         /\ finished' \in BOOLEAN
         /\ score' \in [Seats -> Int]
         /\ winners' \subseteq Seats
         /\ scoreless' \in Nat
         /\ current' \in players
<1>1. PICK drawn \in Draws(HandSize - Cardinality(kept)) :
        LET h  == [hand EXCEPT ![s] = kept \cup drawn]
            sc == [score EXCEPT ![s] = @ + points]
        IN  /\ hand' = h
            /\ bag' = bag \ drawn
            /\ board' = board \cup tiles
            /\ scoreless' = 0
            /\ IF h[s] = {} /\ bag' = {}
               THEN EndGame(h, sc, s) /\ UNCHANGED current
               ELSE GoesOn(sc) /\ PassOn
  BY DEF Scored
<1> DEFINE h  == [hand EXCEPT ![s] = kept \cup drawn]
           sc == [score EXCEPT ![s] = @ + points]
<1>2. drawn \subseteq bag
  BY <1>1 DEF Draws, kSubset
<1>3. h \in [Seats -> SUBSET Tiles] /\ sc \in [Seats -> Int]
  BY <1>2 DEF TypeOK
<1>4. CASE EndGame(h, sc, s) /\ UNCHANGED current
  <2> HIDE DEF h, sc
  <2>1. finished' \in BOOLEAN /\ score' \in [Seats -> Int] /\ winners' \subseteq Seats
    BY <1>3, <1>4, EndGameType
  <2> QED
    BY <1>1, <1>2, <1>3, <1>4, <2>1 DEF TypeOK, h
<1>5. CASE GoesOn(sc) /\ PassOn
  BY <1>1, <1>2, <1>3, <1>5, PassOnType DEF TypeOK, GoesOn
<1> QED
  BY <1>1, <1>4, <1>5

(* Either outcome of a vote leaves a well-formed game (finalize_accept,     *)
(* finalize_reject), whoever decided it: the voters, the timer or the admin.*)
LEMMA ResolutionType ==
  ASSUME TypeOK, NEW p \in PendingType,
         FinalizeAccept(p) \/ FinalizeReject(p)
  PROVE  TypeOK'
<1>0. p.placer \in Seats /\ p.tiles \subseteq Tiles /\ p.points \in Nat
  BY DEF PendingType
<1>1. CASE FinalizeAccept(p)
  <2>1. Scored(p.placer, hand[p.placer], p.tiles, p.points) /\ hand[p.placer] \subseteq Tiles
    BY <1>0, <1>1 DEF FinalizeAccept, TypeOK
  <2>2. /\ hand' \in [Seats -> SUBSET Tiles]
        /\ bag' \subseteq Tiles /\ board' \subseteq Tiles
        /\ finished' \in BOOLEAN
        /\ score' \in [Seats -> Int]
        /\ winners' \subseteq Seats
        /\ scoreless' \in Nat
        /\ current' \in players
    BY <1>0, <2>1, ScoredType
  <2> QED
    BY <1>1, <2>2 DEF FinalizeAccept, TypeOK
<1>2. CASE FinalizeReject(p)
  <2>1. hand' \in [Seats -> SUBSET Tiles]
    BY <1>0, <1>2 DEF FinalizeReject, TypeOK
  <2>2. ScorelessTurn(hand', p.placer \notin present)
    BY <1>2 DEF FinalizeReject
  <2>3. /\ finished' \in BOOLEAN
        /\ score' \in [Seats -> Int]
        /\ winners' \subseteq Seats
        /\ scoreless' \in Nat
        /\ current' \in players
    BY <2>1, <2>2, ScorelessTurnType
  <2> QED
    BY <1>2, <2>1, <2>3 DEF FinalizeReject, TypeOK
<1> QED
  BY <1>1, <1>2

(* The deal gives every seat a set of tiles and takes them from the bag     *)
(* (start).                                                                 *)
LEMMA DealType ==
  ASSUME TypeOK, NEW S \in SUBSET Seats, Deal(S)
  PROVE  hand' \in [Seats -> SUBSET Tiles] /\ bag' \subseteq Tiles
BY DEF TypeOK, Deal, kSubset

(* A pass, a player's or a deadline's, leaves a well-formed game.           *)
LEMMA PassType ==
  ASSUME TypeOK, NEW missed \in BOOLEAN, Pass(missed)
  PROVE  TypeOK'
<1>1. /\ finished' \in BOOLEAN
      /\ score' \in [Seats -> Int]
      /\ winners' \subseteq Seats
      /\ scoreless' \in Nat
      /\ current' \in players
  BY ScorelessTurnType DEF Pass, TypeOK
<1>2. timeouts' \in [Seats -> Nat]
  BY DEF Pass, TypeOK
<1> QED
  BY <1>1, <1>2 DEF Pass, TypeOK

(* Returning the pending tiles to their placer gives every seat a set of    *)
(* tiles (to_save_dict, force_end).                                         *)
LEMMA ReturnedHandsType ==
  ASSUME TypeOK
  PROVE  ReturnedHands \in [Seats -> SUBSET Tiles]
BY DEF TypeOK, ReturnedHands, PendingType, NoPending

(* Every state of a game has the type TypeOK states: in particular the turn *)
(* rests on a player of the table after every removal and every reload, and *)
(* the players' index of the code never points past the end of the list.    *)
THEOREM TypeCorrect == Spec => []TypeOK
<1>1. Init => TypeOK
  <2>1. 1 \in Seats
    BY NumSeatsAssumption DEF Seats
  <2> SUFFICES ASSUME Init PROVE TypeOK
    OBVIOUS
  <2>2. started \in BOOLEAN /\ finished \in BOOLEAN
    BY DEF Init
  <2>3. /\ hand \in [Seats -> SUBSET Tiles]
        /\ timeouts \in [Seats -> Nat]
        /\ score \in [Seats -> Int]
    BY DEF Init
  <2> QED
    BY <2>1, <2>2, <2>3 DEF Init, TypeOK
<1>2. TypeOK /\ [Next]_vars => TypeOK'
  <2> SUFFICES ASSUME TypeOK, [Next]_vars PROVE TypeOK'
    OBVIOUS
  <2>1. ASSUME NEW s \in Seats, AddPlayer(s) \/ AddBot(s) PROVE TypeOK'
    BY <2>1 DEF AddPlayer, AddBot, TakeSeat, TypeOK
  <2>2. CASE Start
    <3>1. hand' \in [Seats -> SUBSET Tiles] /\ bag' \subseteq Tiles
      BY <2>2, DealType DEF Start, TypeOK
    <3> QED
      BY <2>2, <3>1 DEF Start, TypeOK
  <2>3. CASE BuildAsync
    <3>1. PICK n \in 2..NumSeats : /\ players' = 1..n
                                   /\ current' \in 1..n
                                   /\ Deal(1..n)
      BY <2>3 DEF BuildAsync
    <3>2. 1..n \subseteq Seats
      BY NumSeatsAssumption DEF Seats
    <3>3. hand' \in [Seats -> SUBSET Tiles] /\ bag' \subseteq Tiles
      BY <3>1, <3>2, DealType
    <3>4. present' \subseteq players'
      BY <2>3, <3>1 DEF BuildAsync
    <3> QED
      BY <2>3, <3>1, <3>2, <3>3, <3>4 DEF BuildAsync, TypeOK
  <2>4. CASE Place
    <3>1. PICK tiles \in (SUBSET hand[current]) \ {{}}, word \in WordScores :
            LET points == word + (IF Cardinality(tiles) = HandSize THEN BonusAllTiles ELSE 0)
                kept   == hand[current] \ tiles
            IN  \/ /\ pending' = [placer |-> current, tiles |-> tiles, points |-> points,
                                  accepts |-> {}, rejects |-> {}]
                   /\ hand' = [hand EXCEPT ![current] = kept]
                   /\ UNCHANGED <<finished, bag, board, current, scoreless, timeouts,
                                  score, winners>>
                \/ /\ Scored(current, kept, tiles, points)
                   /\ timeouts' = [timeouts EXCEPT ![current] = 0]
                   /\ UNCHANGED pending
      BY <2>4 DEF Place
    <3> DEFINE points == word + (IF Cardinality(tiles) = HandSize THEN BonusAllTiles ELSE 0)
               kept   == hand[current] \ tiles
    <3>2. tiles \subseteq Tiles /\ kept \subseteq Tiles /\ current \in Seats
      BY <3>1 DEF TypeOK
    <3>3. points \in Nat
      BY RulesAssumption
    <3>4. CASE /\ pending' = [placer |-> current, tiles |-> tiles, points |-> points,
                              accepts |-> {}, rejects |-> {}]
               /\ hand' = [hand EXCEPT ![current] = kept]
               /\ UNCHANGED <<finished, bag, board, current, scoreless, timeouts,
                              score, winners>>
      <4> HIDE DEF points
      <4>1. pending' \in PendingType
        BY <3>2, <3>3, <3>4 DEF PendingType
      <4> QED
        BY <2>4, <3>2, <3>4, <4>1 DEF Place, TypeOK
    <3>5. CASE /\ Scored(current, kept, tiles, points)
               /\ timeouts' = [timeouts EXCEPT ![current] = 0]
               /\ UNCHANGED pending
      <4> HIDE DEF points, kept
      <4>1. /\ hand' \in [Seats -> SUBSET Tiles]
            /\ bag' \subseteq Tiles /\ board' \subseteq Tiles
            /\ finished' \in BOOLEAN
            /\ score' \in [Seats -> Int]
            /\ winners' \subseteq Seats
            /\ scoreless' \in Nat
            /\ current' \in players
        BY <3>2, <3>3, <3>5, ScoredType
      <4> QED
        BY <2>4, <3>5, <4>1 DEF Place, TypeOK
    <3> QED
      BY <3>1, <3>4, <3>5
  <2>5. CASE Exchange
    <3>1. PICK tiles \in (SUBSET hand[current]) \ {{}} :
            \E drawn \in Draws(Cardinality(tiles)) :
              /\ hand' = [hand EXCEPT ![current] = (@ \ tiles) \cup drawn]
              /\ bag' = (bag \ drawn) \cup tiles
              /\ ScorelessTurn(hand', TRUE)
      BY <2>5 DEF Exchange
    <3>2. hand' \in [Seats -> SUBSET Tiles] /\ bag' \subseteq Tiles
      BY <3>1 DEF TypeOK, Draws, kSubset
    <3>3. /\ finished' \in BOOLEAN
          /\ score' \in [Seats -> Int]
          /\ winners' \subseteq Seats
          /\ scoreless' \in Nat
          /\ current' \in players
      BY <3>1, <3>2, ScorelessTurnType
    <3> QED
      BY <2>5, <3>2, <3>3 DEF Exchange, TypeOK
  <2>6. CASE PassTurn \/ AdminSkip
    BY <2>6, PassType DEF PassTurn, AdminSkip, Async
  <2>7. CASE ExpireTurn
    <3>1. CASE Pass(TRUE)
      BY <3>1, PassType
    <3>2. CASE /\ timeouts' = [timeouts EXCEPT ![current] = @ + 1]
               /\ scoreless' = scoreless + 1
               /\ PassOn
               /\ GivesUp(current)
               /\ UNCHANGED <<mode, started, players, present, hand, bag, board, gone>>
      <4>1. current \in Seats /\ current' \in players
        BY <3>2, PassOnType DEF TypeOK
      <4>2. /\ finished' \in BOOLEAN
            /\ score' \in [Seats -> Int]
            /\ winners' \subseteq Seats
            /\ resigned' \subseteq Seats
            /\ pending' \in PendingType \cup {NoPending}
        BY <3>2, <4>1, GivesUpType
      <4>3. timeouts' \in [Seats -> Nat] /\ scoreless' \in Nat
        BY <3>2, <4>1 DEF TypeOK
      <4> QED
        BY <3>2, <4>1, <4>2, <4>3 DEF TypeOK
    <3> QED
      BY <2>7, <3>1, <3>2 DEF ExpireTurn
  <2>8. ASSUME NEW s \in Seats, Resign(s) PROVE TypeOK'
    <3>1. /\ finished' \in BOOLEAN
          /\ score' \in [Seats -> Int]
          /\ winners' \subseteq Seats
          /\ resigned' \subseteq Seats
          /\ pending' \in PendingType \cup {NoPending}
      BY <2>8, GivesUpType DEF Resign
    <3> QED
      BY <2>8, <3>1 DEF Resign, TypeOK
  <2>9. ASSUME NEW v \in Seats, NEW accepts \in BOOLEAN, CastVote(v, accepts)
        PROVE  TypeOK'
    <3> DEFINE p == [pending EXCEPT !.accepts = IF accepts THEN @ \cup {v} ELSE @,
                                    !.rejects = IF accepts THEN @ ELSE @ \cup {v}]
    <3>1. p \in PendingType
      BY <2>9 DEF CastVote, Open, TypeOK, PendingType
    <3>2. CASE Resolve(p)
      <4> HIDE DEF p
      <4> QED
        BY <3>1, <3>2, ResolutionType DEF Resolve
    <3>3. CASE pending' = p /\ UNCHANGED <<mode, started, finished, players, present, hand,
                 bag, board, current, scoreless, timeouts, score, resigned, winners, gone>>
      <4> HIDE DEF p
      <4> QED
        BY <3>1, <3>3 DEF TypeOK
    <3> QED
      BY <2>9, <3>2, <3>3 DEF CastVote
  <2>10. CASE VoteTimeout \/ \E accept \in BOOLEAN : ForceResolve(accept)
    <3>1. pending \in PendingType
      BY <2>10 DEF VoteTimeout, ForceResolve, Open, TypeOK
    <3> QED
      BY <2>10, <3>1, ResolutionType DEF VoteTimeout, ForceResolve, Resolve
  <2>11. CASE Withdraw
    BY <2>11 DEF Withdraw, Open, TypeOK, PendingType
  <2>12. CASE ForceEnd
    <3>1. hand' \in [Seats -> SUBSET Tiles]
      BY <2>12, ReturnedHandsType DEF ForceEnd
    <3>2. EndGame(hand', score, 0)
      BY <2>12 DEF ForceEnd
    <3>3. finished' \in BOOLEAN /\ score' \in [Seats -> Int] /\ winners' \subseteq Seats
      BY <3>1, <3>2, EndGameType DEF TypeOK
    <3> QED
      BY <2>12, <3>1, <3>3 DEF ForceEnd, TypeOK
  <2>13. ASSUME NEW s \in Seats, MarkDisconnected(s) \/ Reconnect(s) PROVE TypeOK'
    BY <2>13 DEF MarkDisconnected, Reconnect, Connections, TypeOK
  <2>14. ASSUME NEW s \in Seats, RemovePlayer(s) PROVE TypeOK'
    <3>1. players' \subseteq Seats /\ players' # {} /\ present' \subseteq players'
      BY <2>14 DEF RemovePlayer, TypeOK
    <3>2. current' \in players'
      BY <2>14, <3>1, NextInChooses DEF RemovePlayer, TypeOK
    <3>3. pending' \in PendingType \cup {NoPending} /\ gone' \subseteq Tiles
      BY <2>14 DEF RemovePlayer, TypeOK, PendingType, NoPending
    <3> QED
      BY <2>14, <3>1, <3>2, <3>3 DEF RemovePlayer, TypeOK
  <2>15. CASE SkipDisconnected
    BY <2>15, PassOnType DEF SkipDisconnected, Connections, TypeOK
  <2>16. CASE SaveRestore
    <3>1. hand' \in [Seats -> SUBSET Tiles]
      BY <2>16, ReturnedHandsType DEF SaveRestore
    <3>2. present' \subseteq players
      BY <2>16 DEF SaveRestore, TypeOK
    <3>3. Landing(current, players, present', FALSE) \in players
      BY <3>2, LandingIsPlayer DEF TypeOK
    <3>4. current' \in players
      BY <2>16, <3>2, <3>3 DEF SaveRestore, TypeOK
    <3> QED
      BY <2>16, <3>1, <3>2, <3>4 DEF SaveRestore, TypeOK
  <2>17. CASE UNCHANGED vars
    BY <2>17 DEF vars, TypeOK
  <2> QED
    BY <2>1, <2>2, <2>3, <2>4, <2>5, <2>6, <2>7, <2>8, <2>9, <2>10, <2>11, <2>12,
       <2>13, <2>14, <2>15, <2>16, <2>17 DEF Next
<1> QED
  BY <1>1, <1>2, PTL DEF Spec

-----------------------------------------------------------------------------
(* The pending placement.  That a vote is open only in a running game needs *)
(* to know that nobody has tiles in the waiting room.                       *)

LobbyHands == ~started => \A s \in Seats : hand[s] = {}

PendingInv == LobbyHands /\ PendingConsistent

(* A step after which no placement waits keeps PendingConsistent. *)
LEMMA ClosedIsConsistent ==
  ASSUME pending' = NoPending
  PROVE  PendingConsistent'
BY DEF PendingConsistent, Open

(* Every step of a game keeps the open vote consistent: no disconnection,   *)
(* departure, reload or admin action moves the turn away from its placer.   *)
LEMMA PendingStep ==
  ASSUME TypeOK, PendingInv, [Next]_vars
  PROVE  PendingInv'
<1> USE DEF PendingInv
<1>1. ASSUME NEW s \in Seats, AddPlayer(s) \/ AddBot(s) PROVE PendingInv'
  BY <1>1 DEF AddPlayer, AddBot, TakeSeat, PendingConsistent, LobbyHands, Open
<1>2. CASE Start \/ BuildAsync
  <2>1. pending' = NoPending /\ started'
    BY <1>2 DEF Start, BuildAsync, PendingConsistent, Open
  <2> QED
    BY <2>1, ClosedIsConsistent DEF LobbyHands
<1>3. CASE Place
  <2>0. hand[current] # {} /\ current \in Seats /\ ~finished
    <3>1. PICK tiles \in SUBSET hand[current] : tiles # {}
      BY <1>3, Zenon DEF Place
    <3>2. ~finished
      BY <1>3, Zenon DEF Place, MayMove
    <3> QED
      BY <3>1, <3>2 DEF TypeOK
  <2>1. started /\ started' /\ ~finished /\ current \in Seats
    <3>1. started
      BY <2>0 DEF LobbyHands
    <3>2. started' = started
      BY <1>3 DEF Place
    <3> QED
      BY <2>0, <3>1, <3>2
  <2>2. PICK tiles \in (SUBSET hand[current]) \ {{}} :
          \/ pending' = pending
          \/ /\ ChallengeApplies(current)
             /\ \E points : pending' = [placer |-> current, tiles |-> tiles,
                            points |-> points, accepts |-> {}, rejects |-> {}]
             /\ UNCHANGED <<current, finished, mode>>
    BY <1>3 DEF Place
  <2>3. CASE pending' = pending
    BY <1>3, <2>1, <2>3, ClosedIsConsistent DEF Place, MayMove, LobbyHands
  <2>4. CASE pending' # pending
    <3>1. LobbyHands'
      BY <2>1 DEF LobbyHands
    <3>2. /\ ChallengeApplies(current) /\ current' = current
          /\ finished' = finished /\ mode' = mode
          /\ pending'.placer = current /\ pending'.tiles = tiles
          /\ pending'.accepts = {} /\ pending'.rejects = {}
      BY <2>2, <2>4
    <3>3. ~finished'
      BY <2>1, <3>2
    <3> QED
      BY <2>1, <2>2, <3>1, <3>2, <3>3 DEF ChallengeApplies, PendingConsistent
  <2> QED
    BY <2>3, <2>4
<1>4. CASE Exchange
  <2>0. hand[current] # {} /\ current \in Seats /\ started' = started
        /\ pending' = NoPending
    <3>1. PICK tiles \in SUBSET hand[current] : tiles # {}
      BY <1>4, Zenon DEF Exchange
    <3>2. started' = started /\ pending' = NoPending
      BY <1>4, Zenon DEF Exchange, MayMove
    <3> QED
      BY <3>1, <3>2 DEF TypeOK
  <2>1. started' /\ pending' = NoPending
    BY <2>0 DEF LobbyHands
  <2> QED
    BY <2>1, ClosedIsConsistent DEF LobbyHands
<1>5. CASE PassTurn \/ AdminSkip
  <2>1. pending' = NoPending /\ UNCHANGED <<started, hand>>
    BY <1>5 DEF PassTurn, AdminSkip, Pass, MayMove
  <2> QED
    BY <2>1, ClosedIsConsistent DEF LobbyHands
<1>6. CASE ExpireTurn \/ \E s \in Seats : Resign(s)
  <2>1. pending' = NoPending /\ UNCHANGED <<started, hand>>
    BY <1>6 DEF ExpireTurn, Resign, GivesUp, Pass, MayMove
  <2> QED
    BY <2>1, ClosedIsConsistent DEF LobbyHands
<1>7. ASSUME NEW p, FinalizeAccept(p) \/ FinalizeReject(p), Open PROVE PendingInv'
  <2>0. started' = started /\ pending' = NoPending
    BY <1>7 DEF FinalizeAccept, FinalizeReject
  <2>1. started' /\ pending' = NoPending
    BY <1>7, <2>0 DEF PendingConsistent
  <2> QED
    BY <2>1, ClosedIsConsistent DEF LobbyHands
<1>8. ASSUME NEW v \in Seats, NEW accepts \in BOOLEAN, CastVote(v, accepts)
      PROVE  PendingInv'
  <2> DEFINE p == [pending EXCEPT !.accepts = IF accepts THEN @ \cup {v} ELSE @,
                                  !.rejects = IF accepts THEN @ ELSE @ \cup {v}]
  <2>1. CASE Resolve(p)
    <3> HIDE DEF p
    <3> QED
      BY <1>7, <1>8, <2>1 DEF CastVote, Resolve
  <2>2. CASE pending' = p /\ UNCHANGED <<mode, started, finished, players, present, hand,
               bag, board, current, scoreless, timeouts, score, resigned, winners, gone>>
    <3>1. pending \in PendingType /\ v \notin Bots \cup {pending.placer}
          /\ v \notin pending.accepts \cup pending.rejects
      BY <1>8 DEF CastVote, Open, TypeOK, Voters
    <3>2. /\ p.placer = pending.placer /\ p.tiles = pending.tiles
          /\ p.accepts = IF accepts THEN pending.accepts \cup {v} ELSE pending.accepts
          /\ p.rejects = IF accepts THEN pending.rejects ELSE pending.rejects \cup {v}
      BY <3>1 DEF PendingType
    <3> HIDE DEF p
    <3>3. Open
      BY <1>8 DEF CastVote
    <3> QED
      BY <2>2, <3>1, <3>2, <3>3 DEF PendingConsistent, LobbyHands
  <2> QED
    BY <1>8, <2>1, <2>2 DEF CastVote
<1>9. CASE VoteTimeout \/ \E accept \in BOOLEAN : ForceResolve(accept)
  BY <1>7, <1>9 DEF VoteTimeout, ForceResolve, Resolve
<1>10. CASE Withdraw \/ ForceEnd \/ SaveRestore
  <2>1. started' /\ pending' = NoPending
    BY <1>10 DEF Withdraw, ForceEnd, SaveRestore, PendingConsistent
  <2> QED
    BY <2>1, ClosedIsConsistent DEF LobbyHands
<1>11. ASSUME NEW s \in Seats, MarkDisconnected(s) \/ Reconnect(s) PROVE PendingInv'
  BY <1>11 DEF MarkDisconnected, Reconnect, Connections, PendingConsistent, LobbyHands, Open
<1>12. ASSUME NEW s \in Seats, RemovePlayer(s) PROVE PendingInv'
  <2>1. LobbyHands'
    BY <1>12 DEF RemovePlayer, LobbyHands, TypeOK
  <2>2. CASE pending.placer = s
    BY <1>12, <2>1, <2>2, ClosedIsConsistent DEF RemovePlayer
  <2>3. CASE pending.placer # s
    BY <1>12, <2>1, <2>3 DEF RemovePlayer, PendingConsistent, Open
  <2> QED
    BY <2>2, <2>3
<1>13. CASE SkipDisconnected
  <2>1. pending' = NoPending /\ UNCHANGED <<started, hand>>
    BY <1>13 DEF SkipDisconnected, Connections, MayMove
  <2> QED
    BY <2>1, ClosedIsConsistent DEF LobbyHands
<1>14. CASE UNCHANGED vars
  BY <1>14 DEF vars, PendingConsistent, LobbyHands, Open
<1> QED
  BY <1>1, <1>2, <1>3, <1>4, <1>5, <1>6, <1>8, <1>9, <1>10, <1>11, <1>12, <1>13,
     <1>14 DEF Next

(* Whoever drops, leaves or comes back while a vote is open, the placement  *)
(* stays the current player's, in a running challenge game, with at most    *)
(* one vote of each human opponent.                                         *)
THEOREM PendingStaysConsistent == Spec => []PendingConsistent
<1>1. Init => PendingInv
  BY DEF Init, PendingInv, LobbyHands, PendingConsistent, Open
<1>2. TypeOK /\ PendingInv /\ [Next]_vars => PendingInv'
  BY PendingStep
<1>3. PendingInv => PendingConsistent
  BY DEF PendingInv
<1> QED
  BY <1>1, <1>2, <1>3, TypeCorrect, PTL DEF Spec

-----------------------------------------------------------------------------
(* Tiles.  One lemma for each way tiles move. *)

(* Nothing moves. *)
LEMMA TilesStay ==
  ASSUME TileConservation, UNCHANGED <<hand, bag, board, gone>>,
         pending'.tiles = pending.tiles
  PROVE  TileConservation'
BY DEF TileConservation, Accounted, NoOverlap

(* Tiles of s, from his hand or from his pending placement, are scored. *)
LEMMA ScoredConserves ==
  ASSUME TypeOK, TileConservation, NEW s \in Seats,
         NEW kept, NEW tiles, NEW points, Scored(s, kept, tiles, points),
         kept \cup tiles = hand[s] \cup pending.tiles, kept \cap tiles = {},
         kept \subseteq hand[s],
         pending' = NoPending, gone' = gone
  PROVE  TileConservation'
<1>1. PICK drawn \in Draws(HandSize - Cardinality(kept)) :
        /\ hand' = [hand EXCEPT ![s] = kept \cup drawn]
        /\ bag' = bag \ drawn
        /\ board' = board \cup tiles
  BY DEF Scored
<1>2. drawn \subseteq bag
  BY DEF Draws, kSubset
<1>3. pending'.tiles = {}
  BY DEF NoPending
<1>4. hand'[s] = kept \cup drawn /\ \A t \in Seats \ {s} : hand'[t] = hand[t]
  BY <1>1 DEF TypeOK
<1>5. Accounted'
  BY <1>1, <1>2, <1>4 DEF TileConservation, Accounted
<1>6. NoOverlap'
  BY <1>1, <1>2, <1>3, <1>4 DEF TileConservation, NoOverlap
<1> QED
  BY <1>5, <1>6 DEF TileConservation

(* A placement goes back to the hand of s. *)
LEMMA TakingBackConserves ==
  ASSUME TypeOK, TileConservation, NEW s \in Seats,
         hand' = [hand EXCEPT ![s] = @ \cup pending.tiles],
         pending' = NoPending, UNCHANGED <<bag, board, gone>>
  PROVE  TileConservation'
<1>1. /\ hand'[s] = hand[s] \cup pending.tiles
      /\ \A t \in Seats \ {s} : hand'[t] = hand[t]
      /\ pending'.tiles = {}
  BY DEF TypeOK, NoPending
<1> QED
  BY <1>1 DEF TileConservation, Accounted, NoOverlap

(* Returning the pending tiles to the placer's hand loses no tile and       *)
(* doubles none.                                                            *)
LEMMA ReturningConserves ==
  ASSUME TypeOK, TileConservation, hand' = ReturnedHands,
         pending' = NoPending, UNCHANGED <<bag, board, gone>>
  PROVE  TileConservation'
<1>1. CASE pending = NoPending
  <2>1. hand' = hand
    BY <1>1 DEF ReturnedHands, NoPending, TypeOK
  <2> QED
    BY <1>1, <2>1, TilesStay
<1>2. CASE pending \in PendingType
  <2>1. pending.placer \in Seats
    BY <1>2 DEF PendingType
  <2>2. hand' = [hand EXCEPT ![pending.placer] = @ \cup pending.tiles]
    BY <2>1 DEF ReturnedHands, TypeOK
  <2> QED
    BY <2>1, <2>2, TakingBackConserves
<1> QED
  BY <1>1, <1>2 DEF TypeOK

(* Hands are dealt from the bag when nobody holds a tile yet. *)
LEMMA DealConserves ==
  ASSUME TypeOK, TileConservation, NEW S \in SUBSET Seats, Deal(S),
         \A s \in Seats : hand[s] = {}, UNCHANGED <<pending, board, gone>>
  PROVE  TileConservation'
<1>1. PICK h \in [S -> kSubset(HandSize, bag)] :
        /\ \A s, t \in S : s # t => h[s] \cap h[t] = {}
        /\ hand' = [s \in Seats |-> IF s \in S THEN h[s] ELSE {}]
        /\ bag' = bag \ UNION {h[s] : s \in S}
  BY DEF Deal
<1>2. \A s \in S : h[s] \subseteq bag /\ hand'[s] = h[s]
  BY <1>1 DEF kSubset
<1>3. \A s \in Seats \ S : hand'[s] = {}
  BY <1>1
<1>4. \A t : t \in bag' <=> t \in bag /\ \A s \in S : t \notin h[s]
  BY <1>1
<1>5. Accounted'
  BY <1>2, <1>4 DEF TileConservation, Accounted
<1>6. NoOverlap'
  <2>1. \A s, t \in Seats : s # t => hand'[s] \cap hand'[t] = {}
    BY <1>1, <1>2, <1>3
  <2>2. \A s \in Seats : hand'[s] \subseteq bag /\ hand'[s] \cap bag' = {}
    BY <1>2, <1>3, <1>4
  <2>3. bag' \subseteq bag
    BY <1>1
  <2> QED
    BY <2>1, <2>2, <2>3 DEF TileConservation, NoOverlap
<1> QED
  BY <1>5, <1>6 DEF TileConservation

(* Every step of a game conserves the tiles. *)
LEMMA ConservationStep ==
  ASSUME TypeOK, PendingInv, TileConservation, [Next]_vars
  PROVE  TileConservation'
<1>1. ASSUME NEW s \in Seats,
             \/ AddPlayer(s) \/ AddBot(s) \/ MarkDisconnected(s) \/ Reconnect(s)
      PROVE  TileConservation'
  BY <1>1, TilesStay DEF AddPlayer, AddBot, TakeSeat, MarkDisconnected, Reconnect, Connections
<1>2. CASE Start
  <2>1. \A s \in Seats : hand[s] = {}
    BY <1>2 DEF Start, PendingInv, LobbyHands
  <2> QED
    BY <1>2, <2>1, DealConserves DEF Start, TypeOK
<1>3. CASE BuildAsync
  <2>1. \A s \in Seats : hand[s] = {}
    BY <1>3 DEF BuildAsync, PendingInv, LobbyHands
  <2>2. PICK n \in 2..NumSeats : Deal(1..n)
    BY <1>3 DEF BuildAsync
  <2>3. 1..n \in SUBSET Seats
    BY NumSeatsAssumption DEF Seats
  <2>4. UNCHANGED <<pending, board, gone>>
    BY <1>3 DEF BuildAsync
  <2> QED
    BY <2>1, <2>2, <2>3, <2>4, DealConserves
<1>4. CASE Place
  <2>1. pending = NoPending /\ gone' = gone /\ current \in Seats /\ hand[current] \subseteq Tiles
    BY <1>4 DEF Place, MayMove, TypeOK
  <2>2. PICK tiles \in (SUBSET hand[current]) \ {{}}, points \in Nat :
          \/ /\ pending' = [placer |-> current, tiles |-> tiles, points |-> points,
                            accepts |-> {}, rejects |-> {}]
             /\ hand' = [hand EXCEPT ![current] = hand[current] \ tiles]
             /\ UNCHANGED <<bag, board>>
          \/ /\ Scored(current, hand[current] \ tiles, tiles, points)
             /\ UNCHANGED pending
    <3>1. PICK tiles \in (SUBSET hand[current]) \ {{}}, word \in WordScores :
            LET points == word + (IF Cardinality(tiles) = HandSize THEN BonusAllTiles ELSE 0)
                kept   == hand[current] \ tiles
            IN  \/ /\ pending' = [placer |-> current, tiles |-> tiles, points |-> points,
                                  accepts |-> {}, rejects |-> {}]
                   /\ hand' = [hand EXCEPT ![current] = kept]
                   /\ UNCHANGED <<bag, board>>
                \/ /\ Scored(current, kept, tiles, points)
                   /\ UNCHANGED pending
      BY <1>4 DEF Place
    <3>2. word + (IF Cardinality(tiles) = HandSize THEN BonusAllTiles ELSE 0) \in Nat
      BY RulesAssumption
    <3> QED
      BY <3>1, <3>2
  <2>3. CASE /\ pending' = [placer |-> current, tiles |-> tiles, points |-> points,
                            accepts |-> {}, rejects |-> {}]
             /\ hand' = [hand EXCEPT ![current] = hand[current] \ tiles]
             /\ UNCHANGED <<bag, board>>
    <3>1. /\ hand'[current] = hand[current] \ tiles /\ pending'.tiles = tiles
          /\ \A t \in Seats \ {current} : hand'[t] = hand[t]
      BY <2>1, <2>3 DEF TypeOK
    <3>2. pending.tiles = {}
      BY <2>1 DEF NoPending
    <3> QED
      BY <2>1, <2>2, <2>3, <3>1, <3>2 DEF TileConservation, Accounted, NoOverlap
  <2>4. CASE Scored(current, hand[current] \ tiles, tiles, points) /\ UNCHANGED pending
    <3>1. pending.tiles = {}
      BY <2>1 DEF NoPending
    <3> QED
      BY <2>1, <2>2, <2>4, <3>1, ScoredConserves
  <2> QED
    BY <2>2, <2>3, <2>4
<1>5. CASE Exchange
  <2>1. /\ UNCHANGED <<board, pending, gone>>
        /\ current \in Seats
    BY <1>5 DEF Exchange, TypeOK
  <2>2. PICK tiles \in SUBSET hand[current], n \in Nat :
          \E drawn \in Draws(n) :
            /\ hand' = [hand EXCEPT ![current] = (@ \ tiles) \cup drawn]
            /\ bag' = (bag \ drawn) \cup tiles
    <3>1. PICK tiles \in SUBSET hand[current] :
            \E drawn \in Draws(Cardinality(tiles)) :
              /\ hand' = [hand EXCEPT ![current] = (@ \ tiles) \cup drawn]
              /\ bag' = (bag \ drawn) \cup tiles
      BY <1>5 DEF Exchange
    <3>2. Cardinality(tiles) \in Nat
      <4>1. tiles \subseteq Tiles
        BY <2>1, <3>1 DEF TypeOK
      <4> QED
        BY <4>1, TilesAssumption, FS_Subset, FS_CardinalityType
    <3> QED
      BY <3>1, <3>2
  <2>3. PICK drawn \in SUBSET bag :
            /\ hand' = [hand EXCEPT ![current] = (@ \ tiles) \cup drawn]
            /\ bag' = (bag \ drawn) \cup tiles
    BY <2>2 DEF Draws, kSubset
  <2>4. /\ hand'[current] = (hand[current] \ tiles) \cup drawn
        /\ \A t \in Seats \ {current} : hand'[t] = hand[t]
    BY <2>1, <2>3 DEF TypeOK
  <2>5. Accounted'
    BY <2>1, <2>2, <2>3, <2>4 DEF TileConservation, Accounted
  <2>6. NoOverlap'
    BY <2>1, <2>2, <2>3, <2>4 DEF TileConservation, NoOverlap
  <2> QED
    BY <2>5, <2>6 DEF TileConservation
<1>6. CASE PassTurn \/ AdminSkip
  BY <1>6, TilesStay DEF PassTurn, AdminSkip, Pass
<1>7. CASE ExpireTurn \/ \E s \in Seats : Resign(s)
  <2>1. CASE Pass(TRUE)
    BY <2>1, TilesStay DEF Pass
  <2>2. CASE Async /\ pending' = NoPending /\ UNCHANGED <<hand, bag, board, gone>>
    <3>1. pending = NoPending
      BY <2>2 DEF Async, PendingInv, PendingConsistent, Open
    <3> QED
      BY <2>2, <3>1, TilesStay
  <2> QED
    BY <1>7, <2>1, <2>2 DEF ExpireTurn, Resign, GivesUp
<1>8. ASSUME NEW p \in PendingType, p.placer = pending.placer, p.tiles = pending.tiles,
             FinalizeAccept(p) \/ FinalizeReject(p), Open
      PROVE  TileConservation'
  <2>1. pending.placer \in Seats
    BY <1>8 DEF PendingType
  <2>2. CASE FinalizeAccept(p)
    <3>1. /\ Scored(pending.placer, hand[pending.placer], pending.tiles, p.points)
          /\ pending' = NoPending /\ gone' = gone
      BY <1>8, <2>2 DEF FinalizeAccept
    <3>2. hand[pending.placer] \cap pending.tiles = {}
      BY <2>1 DEF TileConservation, NoOverlap
    <3> QED
      BY <2>1, <3>1, <3>2, ScoredConserves
  <2>3. CASE FinalizeReject(p)
    BY <1>8, <2>1, <2>3, TakingBackConserves DEF FinalizeReject
  <2> QED
    BY <1>8, <2>2, <2>3
<1>9. ASSUME NEW v \in Seats, NEW accepts \in BOOLEAN, CastVote(v, accepts)
      PROVE  TileConservation'
  <2> DEFINE p == [pending EXCEPT !.accepts = IF accepts THEN @ \cup {v} ELSE @,
                                  !.rejects = IF accepts THEN @ ELSE @ \cup {v}]
  <2>1. Open /\ pending \in PendingType
    BY <1>9 DEF CastVote, Open, TypeOK
  <2>2. p \in PendingType /\ p.placer = pending.placer /\ p.tiles = pending.tiles
    BY <2>1 DEF PendingType
  <2>3. CASE Resolve(p)
    <3> HIDE DEF p
    <3> QED
      BY <1>8, <2>1, <2>2, <2>3 DEF Resolve
  <2>4. CASE pending' = p /\ UNCHANGED <<hand, bag, board, gone>>
    <3> HIDE DEF p
    <3> QED
      BY <2>2, <2>4, TilesStay
  <2> QED
    BY <1>9, <2>3, <2>4 DEF CastVote
<1>10. CASE VoteTimeout \/ \E accept \in BOOLEAN : ForceResolve(accept)
  <2>1. Open /\ pending \in PendingType
    BY <1>10 DEF VoteTimeout, ForceResolve, Open, TypeOK
  <2> QED
    BY <1>8, <1>10, <2>1 DEF VoteTimeout, ForceResolve, Resolve
<1>11. CASE Withdraw
  <2>1. pending.placer \in Seats
    BY <1>11 DEF Withdraw, Open, TypeOK, PendingType
  <2> QED
    BY <1>11, <2>1, TakingBackConserves DEF Withdraw
<1>12. CASE ForceEnd \/ SaveRestore
  BY <1>12, ReturningConserves DEF ForceEnd, SaveRestore
<1>13. ASSUME NEW s \in Seats, RemovePlayer(s) PROVE TileConservation'
  <2>1. /\ hand'[s] = {} /\ \A t \in Seats \ {s} : hand'[t] = hand[t]
        /\ UNCHANGED <<bag, board>>
    BY <1>13 DEF RemovePlayer, TypeOK
  <2>2. \/ pending'.tiles = {} /\ gone' = gone \cup hand[s] \cup pending.tiles
        \/ pending'.tiles = pending.tiles /\ gone' = gone \cup hand[s]
    BY <1>13 DEF RemovePlayer, NoPending
  <2>3. Accounted'
    BY <2>1, <2>2 DEF TileConservation, Accounted
  <2>4. NoOverlap'
    BY <2>1, <2>2 DEF TileConservation, NoOverlap
  <2> QED
    BY <2>3, <2>4 DEF TileConservation
<1>14. CASE SkipDisconnected
  BY <1>14, TilesStay DEF SkipDisconnected, Connections
<1>15. CASE UNCHANGED vars
  BY <1>15, TilesStay DEF vars
<1> QED
  BY <1>1, <1>2, <1>3, <1>4, <1>5, <1>6, <1>7, <1>9, <1>10, <1>11, <1>12, <1>13,
     <1>14, <1>15 DEF Next

(* No tile is ever lost, duplicated, or in two places: for any set of       *)
(* tiles, over any sequence of moves, votes, departures and reloads.        *)
THEOREM TilesAreConserved == Spec => []TileConservation
<1>1. Init => PendingInv /\ TileConservation
  BY DEF Init, PendingInv, LobbyHands, PendingConsistent, Open, TileConservation,
         Accounted, NoOverlap, NoPending
<1>2. TypeOK /\ PendingInv /\ TileConservation /\ [Next]_vars
        => PendingInv' /\ TileConservation'
  BY PendingStep, ConservationStep
<1> QED
  BY <1>1, <1>2, TypeCorrect, PTL DEF Spec

-----------------------------------------------------------------------------
(* Full hands.  One lemma on counting, one for each way tiles change hands. *)

(* Sets of tiles are finite, and disjoint ones add up. *)
LEMMA TilesCount ==
  ASSUME NEW A \in SUBSET Tiles, NEW B \in SUBSET Tiles, A \cap B = {}
  PROVE  /\ IsFiniteSet(A) /\ Cardinality(A) \in Nat /\ Cardinality(B) \in Nat
         /\ Cardinality(A \cup B) = Cardinality(A) + Cardinality(B)
<1>1. IsFiniteSet(A) /\ IsFiniteSet(B)
  BY TilesAssumption, FS_Subset
<1>2. Cardinality(A) \in Nat /\ Cardinality(B) \in Nat
  BY <1>1, FS_CardinalityType
<1>3. Cardinality(A \cap B) = 0
  BY FS_EmptySet
<1>4. Cardinality(A \cup B) = Cardinality(A) + Cardinality(B) - Cardinality(A \cap B)
  BY <1>1, FS_Union
<1> QED
  BY <1>1, <1>2, <1>3, <1>4

(* What a player holds is tiles, none of them in the bag. *)
LEMMA HeldIsApart ==
  ASSUME TypeOK, TileConservation, NEW s \in Seats
  PROVE  /\ Held(s) \subseteq Tiles /\ hand[s] \subseteq Held(s)
         /\ Held(s) \cap bag = {}
         /\ pending = NoPending => Held(s) = hand[s]
BY DEF TypeOK, TileConservation, NoOverlap, Held, PendingType, NoPending

(* A draw gives as many tiles as were asked for, or all there are. *)
LEMMA DrawsFill ==
  ASSUME TypeOK, NEW n \in Nat, NEW drawn \in Draws(n)
  PROVE  /\ drawn \subseteq bag
         /\ \/ Cardinality(drawn) = n
            \/ drawn = bag /\ Cardinality(drawn) < n
<1>1. IsFiniteSet(bag) /\ Cardinality(bag) \in Nat
  BY TilesAssumption, FS_Subset, FS_CardinalityType DEF TypeOK
<1>2. drawn \subseteq bag /\ Cardinality(drawn) = IF n \in 0..Cardinality(bag) THEN n ELSE Cardinality(bag)
  BY DEF Draws, kSubset
<1>3. CASE n \in 0..Cardinality(bag)
  BY <1>2, <1>3
<1>4. CASE n \notin 0..Cardinality(bag)
  <2>1. drawn = bag
    BY <1>1, <1>2, <1>4, FS_Subset
  <2> QED
    BY <1>1, <1>2, <1>4, <2>1
<1> QED
  BY <1>3, <1>4

(* What changes no player's holding, except to empty that of somebody who   *)
(* is no player any more, and fills no bag, keeps the hands full.           *)
LEMMA HoldingsStay ==
  ASSUME FullHands, players' \subseteq players, players \subseteq Seats,
         started' /\ bag' # {} => started /\ bag # {},
         \A s \in Seats : Held(s)' = Held(s) \/ (Held(s)' = {} /\ s \notin players')
  PROVE  FullHands'
<1>1. Cardinality({}) = 0 /\ 0 <= HandSize
  BY FS_EmptySet, RulesAssumption
<1>2. \A s \in Seats : Cardinality(Held(s)') <= HandSize
  BY <1>1 DEF FullHands
<1>3. ASSUME started', bag' # {}, NEW s \in players'
      PROVE  Cardinality(Held(s)') = HandSize
  BY <1>3 DEF FullHands
<1> QED
  BY <1>2, <1>3 DEF FullHands

(* One player's holding changes, to a full one or at an empty bag. *)
LEMMA OneHandRefilled ==
  ASSUME FullHands, NEW s \in Seats, UNCHANGED <<players, started>>, players \subseteq Seats,
         bag = {} => bag' = {},
         Cardinality(Held(s)') <= HandSize,
         bag' # {} /\ started /\ s \in players => Cardinality(Held(s)') = HandSize,
         \A t \in Seats \ {s} : Held(t)' = Held(t)
  PROVE  FullHands'
BY DEF FullHands

(* Whoever lays tiles draws up to a full hand, or empties the bag. *)
LEMMA ScoredRefills ==
  ASSUME TypeOK, TileConservation, FullHands, NEW s \in Seats,
         NEW kept, NEW tiles, NEW points, Scored(s, kept, tiles, points),
         kept \subseteq hand[s], pending.placer \in {0, s},
         pending' = NoPending, UNCHANGED <<players, started>>
  PROVE  FullHands'
<1>1. PICK drawn \in Draws(HandSize - Cardinality(kept)) :
        /\ hand' = [hand EXCEPT ![s] = kept \cup drawn]
        /\ bag' = bag \ drawn
  BY DEF Scored
<1>2. kept \subseteq Held(s) /\ Held(s) \subseteq Tiles /\ Held(s) \cap bag = {}
  BY HeldIsApart
<1>3. Cardinality(kept) \in Nat /\ Cardinality(kept) <= Cardinality(Held(s)) /\ Cardinality(Held(s)) \in Nat
  BY <1>2, TilesAssumption, FS_Subset, FS_CardinalityType
<1>4. Cardinality(Held(s)) <= HandSize
  BY DEF FullHands
<1>5. HandSize - Cardinality(kept) \in Nat
  BY <1>3, <1>4, RulesAssumption
<1>6. /\ drawn \subseteq bag
      /\ \/ Cardinality(drawn) = HandSize - Cardinality(kept)
         \/ drawn = bag /\ Cardinality(drawn) < HandSize - Cardinality(kept)
  BY <1>5, DrawsFill
<1>7. Cardinality(kept \cup drawn) = Cardinality(kept) + Cardinality(drawn) /\ Cardinality(drawn) \in Nat
  <2>1. kept \subseteq Tiles /\ drawn \subseteq Tiles /\ kept \cap drawn = {}
    BY <1>2, <1>6 DEF TypeOK
  <2> QED
    BY <2>1, TilesCount
<1>8. Held(s)' = kept \cup drawn /\ \A t \in Seats \ {s} : Held(t)' = Held(t)
  <2>1. hand'[s] = kept \cup drawn /\ \A t \in Seats \ {s} : hand'[t] = hand[t]
    BY <1>1 DEF TypeOK
  <2>2. pending'.tiles = {} /\ \A t \in Seats \ {s} : pending.placer # t
    BY DEF NoPending, Seats
  <2> QED
    BY <2>1, <2>2 DEF Held
<1>9. Cardinality(Held(s)') <= HandSize /\ (bag' # {} => Cardinality(Held(s)') = HandSize)
  BY <1>1, <1>3, <1>6, <1>7, <1>8, RulesAssumption
<1> QED
  BY <1>1, <1>8, <1>9, OneHandRefilled DEF TypeOK

(* The deal gives every player of the new table a full hand. *)
LEMMA DealFills ==
  ASSUME TypeOK, NEW S \in SUBSET Seats, Deal(S), players' = S, pending' = NoPending
  PROVE  FullHands'
<1>1. PICK h \in [S -> kSubset(HandSize, bag)] : hand' = [s \in Seats |-> IF s \in S THEN h[s] ELSE {}]
  BY DEF Deal
<1>2. \A s \in S : Cardinality(h[s]) = HandSize
  BY <1>1 DEF kSubset
<1>3. \A s \in Seats : Held(s)' = IF s \in S THEN h[s] ELSE {}
  BY <1>1 DEF Held, NoPending
<1> QED
  BY <1>2, <1>3, FS_EmptySet, RulesAssumption DEF FullHands

(* Pending tiles that go back to their placer's hand were his already. *)
LEMMA TakingBackHolds ==
  ASSUME TypeOK, Open, pending' = NoPending,
         hand' = [hand EXCEPT ![pending.placer] = @ \cup pending.tiles]
  PROVE  \A s \in Seats : Held(s)' = Held(s)
<1>1. pending.placer \in Seats /\ pending'.tiles = {}
  BY DEF TypeOK, Open, PendingType, NoPending
<1>2. \A s \in Seats : hand'[s] = IF s = pending.placer THEN hand[s] \cup pending.tiles ELSE hand[s]
  BY <1>1 DEF TypeOK
<1> QED
  BY <1>1, <1>2 DEF Held

(* Every step keeps the hands full. *)
LEMMA FullHandsStep ==
  ASSUME TypeOK, PendingInv, TileConservation, FullHands, [Next]_vars
  PROVE  FullHands'
<1>0. players \subseteq Seats
  BY DEF TypeOK
<1>1. ASSUME UNCHANGED <<hand, bag, players, started, pending>>
      PROVE  FullHands'
  BY <1>1 DEF FullHands, Held
<1>2. ASSUME NEW s \in Seats, AddPlayer(s) \/ AddBot(s)
      PROVE  FullHands'
  <2>1. ~started' /\ UNCHANGED <<hand, pending>>
    BY <1>2 DEF AddPlayer, AddBot, TakeSeat
  <2>2. \A t \in Seats : Held(t)' = Held(t)
    BY <2>1 DEF Held
  <2> QED
    BY <2>1, <2>2 DEF FullHands
<1>3. CASE Start \/ BuildAsync
  <2>1. pending' = NoPending
    BY <1>3 DEF Start, BuildAsync, PendingInv, PendingConsistent, Open
  <2>2. CASE Start
    BY <1>0, <2>1, <2>2, DealFills DEF Start
  <2>3. CASE BuildAsync
    <3>1. PICK n \in 2..NumSeats : players' = 1..n /\ Deal(1..n)
      BY <2>3 DEF BuildAsync
    <3>2. 1..n \in SUBSET Seats
      BY NumSeatsAssumption DEF Seats
    <3> QED
      BY <2>1, <3>1, <3>2, DealFills
  <2> QED
    BY <1>3, <2>2, <2>3
<1>4. CASE Place
  <2>1. pending = NoPending /\ current \in Seats /\ UNCHANGED <<players, started>>
    BY <1>4 DEF Place, MayMove, TypeOK
  <2>2. PICK tiles \in (SUBSET hand[current]) \ {{}} :
          \/ \E points : pending' = [placer |-> current, tiles |-> tiles, points |-> points,
                                     accepts |-> {}, rejects |-> {}]
             /\ hand' = [hand EXCEPT ![current] = hand[current] \ tiles]
             /\ bag' = bag
          \/ /\ \E points : Scored(current, hand[current] \ tiles, tiles, points)
             /\ UNCHANGED pending
    BY <1>4 DEF Place
  <2>3. pending.placer = 0 /\ pending.tiles = {}
    BY <2>1 DEF NoPending
  <2>4. CASE /\ \E points : pending' = [placer |-> current, tiles |-> tiles, points |-> points,
                                        accepts |-> {}, rejects |-> {}]
             /\ hand' = [hand EXCEPT ![current] = hand[current] \ tiles]
             /\ bag' = bag
    <3>1. pending'.placer = current /\ pending'.tiles = tiles
      BY <2>4
    <3>2. hand'[current] = hand[current] \ tiles /\ \A t \in Seats \ {current} : hand'[t] = hand[t]
      BY <2>1, <2>4 DEF TypeOK
    <3>3. \A t \in Seats : Held(t)' = Held(t)
      BY <2>2, <2>3, <3>1, <3>2 DEF Held
    <3> QED
      BY <1>0, <2>1, <2>4, <3>3, HoldingsStay
  <2>5. CASE (\E points : Scored(current, hand[current] \ tiles, tiles, points)) /\ UNCHANGED pending
    BY <2>1, <2>3, <2>5, ScoredRefills
  <2> QED
    BY <2>2, <2>4, <2>5
<1>5. CASE Exchange
  <2>0. PICK s \in Seats : s = current
    BY DEF TypeOK
  <2>1. /\ pending = NoPending /\ pending' = NoPending
        /\ UNCHANGED <<players, started>> /\ Cardinality(bag) >= ExchangeMin
    BY <1>5 DEF Exchange, MayMove, TypeOK
  <2>2. PICK tiles \in SUBSET hand[s] :
          /\ Cardinality(tiles) <= Cardinality(bag)
          /\ \E drawn \in Draws(Cardinality(tiles)) : hand' = [hand EXCEPT ![s] = (@ \ tiles) \cup drawn]
    BY <1>5, <2>0 DEF Exchange
  <2>3. PICK drawn \in Draws(Cardinality(tiles)) : hand' = [hand EXCEPT ![s] = (@ \ tiles) \cup drawn]
    BY <2>2
  <2>4. hand[s] \subseteq Tiles /\ hand[s] \cap bag = {} /\ Held(s) = hand[s]
    BY <2>1, HeldIsApart
  <2>5. /\ Cardinality(tiles) \in Nat /\ IsFiniteSet(bag) /\ Cardinality(bag) \in Nat
        /\ Cardinality(hand[s]) = Cardinality(hand[s] \ tiles) + Cardinality(tiles)
    <3>1. tiles \subseteq Tiles /\ hand[s] \ tiles \subseteq Tiles
      BY <2>2, <2>4
    <3>2. (hand[s] \ tiles) \cup tiles = hand[s] /\ (hand[s] \ tiles) \cap tiles = {}
      BY <2>2
    <3>3. IsFiniteSet(bag) /\ Cardinality(bag) \in Nat
      BY TilesAssumption, FS_Subset, FS_CardinalityType DEF TypeOK
    <3> QED
      BY <3>1, <3>2, <3>3, TilesCount
  <2>6. drawn \subseteq bag /\ Cardinality(drawn) = Cardinality(tiles)
    BY <2>2, <2>3, <2>5, DrawsFill
  <2>7. Cardinality((hand[s] \ tiles) \cup drawn) = Cardinality(hand[s])
    <3>1. hand[s] \ tiles \subseteq Tiles /\ drawn \subseteq Tiles /\ (hand[s] \ tiles) \cap drawn = {}
      BY <2>4, <2>6 DEF TypeOK
    <3>2. Cardinality((hand[s] \ tiles) \cup drawn) = Cardinality(hand[s] \ tiles) + Cardinality(drawn)
      BY <3>1, TilesCount
    <3> QED
      BY <2>5, <2>6, <3>2
  <2>8. Held(s)' = (hand[s] \ tiles) \cup drawn /\ \A t \in Seats \ {s} : Held(t)' = Held(t)
    <3>1. /\ hand'[s] = (hand[s] \ tiles) \cup drawn
          /\ \A t \in Seats \ {s} : hand'[t] = hand[t]
      BY <2>1, <2>3 DEF TypeOK
    <3>2. \A t \in Seats : Held(t) = hand[t] /\ Held(t)' = hand'[t]
      BY <2>1 DEF Held, NoPending
    <3> QED
      BY <3>1, <3>2
  <2>9. bag # {}
    BY <2>1, FS_EmptySet, RulesAssumption
  <2>10. /\ Cardinality(Held(s)') = Cardinality(Held(s))
         /\ Cardinality(Held(s)) <= HandSize
         /\ started /\ s \in players => Cardinality(Held(s)) = HandSize
    BY <2>1, <2>4, <2>7, <2>8, <2>9 DEF FullHands
  <2> QED
    BY <1>0, <2>1, <2>8, <2>9, <2>10, OneHandRefilled
<1>6. CASE PassTurn \/ AdminSkip
  BY <1>1, <1>6 DEF PassTurn, AdminSkip, Pass
<1>7. CASE ExpireTurn \/ \E s \in Seats : Resign(s)
  <2>1. CASE Pass(TRUE)
    BY <1>1, <2>1 DEF Pass
  <2>2. CASE Async /\ pending' = NoPending /\ UNCHANGED <<hand, bag, players, started>>
    <3>1. pending = NoPending
      BY <2>2 DEF Async, PendingInv, PendingConsistent, Open
    <3> QED
      BY <1>1, <2>2, <3>1
  <2> QED
    BY <1>7, <2>1, <2>2 DEF ExpireTurn, Resign, GivesUp
<1>8. ASSUME NEW p \in PendingType, p.placer = pending.placer, p.tiles = pending.tiles,
             FinalizeAccept(p) \/ FinalizeReject(p), Open
      PROVE  FullHands'
  <2>1. pending.placer \in Seats
    BY <1>8 DEF PendingType
  <2>2. CASE FinalizeAccept(p)
    <3>1. /\ Scored(pending.placer, hand[pending.placer], pending.tiles, p.points)
          /\ pending' = NoPending /\ UNCHANGED <<players, started>>
      BY <1>8, <2>2 DEF FinalizeAccept
    <3> QED
      BY <2>1, <3>1, ScoredRefills
  <2>3. CASE FinalizeReject(p)
    <3>1. \A s \in Seats : Held(s)' = Held(s)
      BY <1>8, <2>3, TakingBackHolds DEF FinalizeReject
    <3> QED
      BY <1>0, <2>3, <3>1, HoldingsStay DEF FinalizeReject
  <2> QED
    BY <1>8, <2>2, <2>3
<1>9. ASSUME NEW v \in Seats, NEW accepts \in BOOLEAN, CastVote(v, accepts)
      PROVE  FullHands'
  <2> DEFINE p == [pending EXCEPT !.accepts = IF accepts THEN @ \cup {v} ELSE @,
                                  !.rejects = IF accepts THEN @ ELSE @ \cup {v}]
  <2>1. Open /\ pending \in PendingType
    BY <1>9 DEF CastVote, Open, TypeOK
  <2>2. p \in PendingType /\ p.placer = pending.placer /\ p.tiles = pending.tiles
    BY <2>1 DEF PendingType
  <2>3. CASE Resolve(p)
    <3> HIDE DEF p
    <3> QED
      BY <1>8, <2>1, <2>2, <2>3 DEF Resolve
  <2>4. CASE pending' = p /\ UNCHANGED <<hand, bag, players, started>>
    <3> HIDE DEF p
    <3>1. \A s \in Seats : Held(s)' = Held(s)
      BY <2>2, <2>4 DEF Held
    <3> QED
      BY <1>0, <2>4, <3>1, HoldingsStay
  <2> QED
    BY <1>9, <2>3, <2>4 DEF CastVote
<1>10. CASE VoteTimeout \/ \E accept \in BOOLEAN : ForceResolve(accept)
  <2>1. Open /\ pending \in PendingType
    BY <1>10 DEF VoteTimeout, ForceResolve, Open, TypeOK
  <2> QED
    BY <1>8, <1>10, <2>1 DEF VoteTimeout, ForceResolve, Resolve
<1>11. CASE Withdraw
  <2>1. \A s \in Seats : Held(s)' = Held(s)
    BY <1>11, TakingBackHolds DEF Withdraw
  <2> QED
    BY <1>0, <1>11, <2>1, HoldingsStay DEF Withdraw
<1>12. CASE ForceEnd \/ SaveRestore
  <2>1. hand' = ReturnedHands /\ pending' = NoPending /\ UNCHANGED <<players, started, bag>>
    BY <1>12 DEF ForceEnd, SaveRestore
  <2>2. \A s \in Seats : Held(s)' = Held(s)
    BY <2>1 DEF Held, ReturnedHands, NoPending
  <2> QED
    BY <1>0, <2>1, <2>2, HoldingsStay
<1>13. ASSUME NEW s \in Seats, RemovePlayer(s) PROVE FullHands'
  <2>1. /\ players' = players \ {s} /\ UNCHANGED <<bag, started>>
        /\ hand'[s] = {} /\ \A t \in Seats \ {s} : hand'[t] = hand[t]
    BY <1>13 DEF RemovePlayer, TypeOK
  <2>2. \/ pending.placer = s /\ pending' = NoPending
        \/ pending.placer # s /\ pending' = pending
    BY <1>13 DEF RemovePlayer
  <2>3. Held(s)' = {} /\ \A t \in Seats \ {s} : Held(t)' = Held(t)
    BY <2>1, <2>2 DEF Held, NoPending
  <2> QED
    BY <1>0, <2>1, <2>3, HoldingsStay
<1>14. ASSUME NEW s \in Seats, MarkDisconnected(s) \/ Reconnect(s) PROVE FullHands'
  BY <1>1, <1>14 DEF MarkDisconnected, Reconnect, Connections
<1>15. CASE SkipDisconnected
  BY <1>1, <1>15 DEF SkipDisconnected, Connections
<1>16. CASE UNCHANGED vars
  BY <1>1, <1>16 DEF vars
<1> QED
  BY <1>2, <1>3, <1>4, <1>5, <1>6, <1>7, <1>9, <1>10, <1>11, <1>12, <1>13, <1>14,
     <1>15, <1>16 DEF Next

(* Between two moves of a game every player holds a full hand while the bag *)
(* has tiles, the pending placement counted, and never more, so that the    *)
(* count HAND_SIZE - hand.len() of the next draw does not wrap.             *)
THEOREM HandsStayFull == Spec => []FullHands
<1>1. Init => PendingInv /\ FullHands
  <2> SUFFICES ASSUME Init PROVE PendingInv /\ FullHands
    OBVIOUS
  <2>1. PendingInv
    BY DEF Init, PendingInv, LobbyHands, PendingConsistent, Open
  <2>2. \A s \in Seats : Held(s) = {}
    BY DEF Init, Held, NoPending
  <2> QED
    BY <2>1, <2>2, FS_EmptySet, RulesAssumption DEF Init, FullHands
<1>2. TypeOK /\ PendingInv /\ TileConservation /\ FullHands /\ [Next]_vars
        => PendingInv' /\ FullHands'
  BY PendingStep, FullHandsStep
<1> QED
  BY <1>1, <1>2, TypeCorrect, TilesAreConserved, PTL DEF Spec
-----------------------------------------------------------------------------
(* What ScrabbleGame promises to others.  However its tiles, scores and     *)
(* votes go, it moves the turn only as TurnGame says, which is what         *)
(* RoomTurns relies on: the proof that the one implements the other.  And   *)
(* however it ends, it is settled right, which is what the records and the  *)
(* ratings are made from.                                                   *)

(* A correspondence game is made with all its players, so that nothing      *)
(* happens in one before it is built.                                       *)
UnbuiltInv == Async /\ ~started => ~finished

TurnsInv == TypeOK /\ PendingInv /\ UnbuiltInv

Phase == IF finished THEN "over" ELSE IF pending # NoPending THEN "vote"
         ELSE IF started THEN "turn" ELSE "lobby"

-----------------------------------------------------------------------------
(* What the actions of Game do to the turn, in the terms of TurnGame.       *)

(* A step that is nothing to the turn. *)
LEMMA TurnRests ==
  ASSUME UNCHANGED <<mode, players, present, current>>, Phase' = Phase
  PROVE  UNCHANGED Turns!turnVars
BY DEF Turns!turnVars, Phase

(* next_turn, after a move or a vote. *)
LEMMA TurnPasses ==
  ASSUME ~finished, ~finished', PassOn, pending' = NoPending,
         Open => started, UNCHANGED <<mode, started, players, present>>
  PROVE  Turns!NextTurn
<1>1. Phase # "over" /\ Phase' = IF Phase = "vote" THEN "turn" ELSE Phase
  BY DEF Phase, Open
<1>2. current' = Turns!Landing(current, players, present, Async)
  BY DEF PassOn, Landing, Turns!Landing, NextIn, Turns!NextIn, Distance, Turns!Distance
<1> QED
  BY <1>1, <1>2 DEF Turns!NextTurn, Phase, Async

(* The game ends, with the turn where it was or where a missed deadline     *)
(* has passed it on to.                                                     *)
LEMMA TurnEnds ==
  ASSUME ~finished, finished', UNCHANGED <<mode, players, present>>,
         UNCHANGED current \/ PassOn
  PROVE  Turns!Finish
<1>1. Phase # "over" /\ Phase' = "over"
  BY DEF Phase, Open, NoPending
<1>2. current' \in {current, Turns!Landing(current, players, present, Async)}
  BY DEF PassOn, Landing, Turns!Landing, NextIn, Turns!NextIn, Distance, Turns!Distance
<1> QED
  BY <1>1, <1>2 DEF Turns!Finish, Phase, Async

(* The vote is over and its placer may try again. *)
LEMMA TurnReturns ==
  ASSUME ~finished, ~finished', Open, pending' = NoPending, started, current \in present,
         UNCHANGED <<mode, started, players, present, current>>
  PROVE  Turns!PlacerAgain
<1>1. Phase = "vote" /\ Phase' = "turn"
  BY DEF Phase, Open
<1> QED
  BY <1>1 DEF Turns!PlacerAgain, Phase

(* register_scoreless_turn.                                                 *)
LEMMA ScorelessTurnTurns ==
  ASSUME ~finished, NEW h, NEW moves \in BOOLEAN, ScorelessTurn(h, moves), pending' = NoPending,
         Open => started, UNCHANGED <<mode, started, players, present>>,
         ~moves => Open /\ current \in present
  PROVE  Turns!NextTurn \/ Turns!PlacerAgain \/ Turns!Finish
<1>1. CASE EndGame(h, score, 0) /\ UNCHANGED current
  BY <1>1, TurnEnds DEF EndGame
<1>2. CASE GoesOn(score) /\ moves /\ PassOn
  BY <1>2, TurnPasses DEF GoesOn
<1>3. CASE GoesOn(score) /\ ~moves /\ UNCHANGED current
  BY <1>3, TurnReturns DEF GoesOn
<1> QED
  BY <1>1, <1>2, <1>3 DEF ScorelessTurn

(* finalize_placement.                                                      *)
LEMMA ScoredTurns ==
  ASSUME ~finished, NEW s, NEW kept, NEW tiles, NEW points, Scored(s, kept, tiles, points),
         pending' = NoPending, Open => started, UNCHANGED <<mode, started, players, present>>
  PROVE  Turns!NextTurn \/ Turns!Finish
<1>1. \/ \E h, sc : EndGame(h, sc, s) /\ UNCHANGED current
      \/ \E sc : GoesOn(sc) /\ PassOn
  BY DEF Scored
<1>2. CASE \E h, sc : EndGame(h, sc, s) /\ UNCHANGED current
  BY <1>2, TurnEnds DEF EndGame
<1>3. CASE \E sc : GoesOn(sc) /\ PassOn
  BY <1>3, TurnPasses DEF GoesOn
<1> QED
  BY <1>1, <1>2, <1>3

(* finalize_accept and finalize_reject.                                     *)
LEMMA ResolutionTurns ==
  ASSUME PendingInv, Open, NEW p, p.placer = pending.placer,
         FinalizeAccept(p) \/ FinalizeReject(p)
  PROVE  Turns!NextTurn \/ Turns!PlacerAgain \/ Turns!Finish
<1>1. started /\ ~finished /\ p.placer = current
  BY DEF PendingInv, PendingConsistent
<1>2. pending' = NoPending /\ UNCHANGED <<mode, started, players, present>>
  BY DEF FinalizeAccept, FinalizeReject
<1>3. CASE FinalizeAccept(p)
  BY <1>1, <1>2, <1>3, ScoredTurns DEF FinalizeAccept
<1>4. CASE FinalizeReject(p)
  <2>1. ScorelessTurn(hand', p.placer \notin present)
    BY <1>4 DEF FinalizeReject
  <2> QED
    BY <1>1, <1>2, <2>1, ScorelessTurnTurns
<1> QED
  BY <1>3, <1>4

(* pass_turn, whoever called it.                                            *)
LEMMA PassTurns ==
  ASSUME PendingInv, NEW missed \in BOOLEAN, Pass(missed)
  PROVE  Turns!NextTurn \/ Turns!PlacerAgain \/ Turns!Finish
<1>1. ~finished /\ ~Open /\ pending' = NoPending
  BY DEF Pass, MayMove, Open
<1>2. ScorelessTurn(hand, TRUE) /\ UNCHANGED <<mode, started, players, present>>
  BY DEF Pass
<1> QED
  BY <1>1, <1>2, ScorelessTurnTurns

-----------------------------------------------------------------------------
(* An unbuilt correspondence game has no moves, passes or ends.             *)
LEMMA UnbuiltStep ==
  ASSUME TypeOK, PendingInv, UnbuiltInv, [Next]_vars
  PROVE  UnbuiltInv'
<1> DEFINE Quiet == mode' = mode /\ (started => started')
                    /\ (mode = "async" /\ ~started => finished' = finished)
<1> SUFFICES Quiet
  BY DEF UnbuiltInv, Async
<1>0. (~started => hand[current] = {}) /\ (Open => started)
  BY DEF PendingInv, LobbyHands, PendingConsistent, TypeOK
<1>1. ASSUME NEW s \in Seats, AddPlayer(s) \/ AddBot(s) PROVE Quiet
  BY <1>1 DEF AddPlayer, AddBot, TakeSeat
<1>2. CASE Start \/ BuildAsync
  BY <1>2 DEF Start, BuildAsync
<1>3. CASE Place
  BY <1>0, <1>3 DEF Place
<1>4. CASE Exchange
  BY <1>0, <1>4 DEF Exchange
<1>5. CASE \E missed : Pass(missed)
  BY <1>5 DEF Pass, Async
<1>6. CASE ExpireTurn
  BY <1>5, <1>6 DEF ExpireTurn
<1>7. ASSUME NEW s \in Seats, Resign(s) PROVE Quiet
  BY <1>7 DEF Resign
<1>8. ASSUME NEW p, Open, FinalizeAccept(p) \/ FinalizeReject(p) PROVE Quiet
  <2>1. UNCHANGED <<mode, started>>
    BY <1>8 DEF FinalizeAccept, FinalizeReject
  <2> QED
    BY <1>0, <1>8, <2>1
<1>9. ASSUME NEW s \in Seats, NEW accepts \in BOOLEAN, CastVote(s, accepts) PROVE Quiet
  BY <1>8, <1>9 DEF CastVote, Resolve
<1>10. CASE VoteTimeout \/ \E accept \in BOOLEAN : ForceResolve(accept)
  BY <1>8, <1>10 DEF VoteTimeout, ForceResolve, Resolve
<1>11. CASE Withdraw \/ SaveRestore
  <2>1. UNCHANGED <<mode, started, finished>>
    BY <1>11 DEF Withdraw, SaveRestore
  <2> QED
    BY <2>1
<1>12. CASE ForceEnd
  BY <1>12 DEF ForceEnd
<1>13. ASSUME NEW s \in Seats, MarkDisconnected(s) \/ Reconnect(s) \/ RemovePlayer(s) PROVE Quiet
  BY <1>13 DEF MarkDisconnected, Reconnect, Connections, RemovePlayer
<1>14. CASE SkipDisconnected \/ UNCHANGED vars
  BY <1>14 DEF SkipDisconnected, Connections, vars
<1> HIDE DEF Quiet
<1> QED
  BY <1>1, <1>2, <1>3, <1>4, <1>5, <1>6, <1>7, <1>9, <1>10, <1>11, <1>12, <1>13, <1>14
     DEF Next, PassTurn, AdminSkip

-----------------------------------------------------------------------------
(* Every step of a game is one of TurnGame, or nothing to it.               *)
LEMMA TurnStep ==
  ASSUME TurnsInv, [Next]_vars
  PROVE  [Turns!TurnNext]_(Turns!turnVars)
<1> USE DEF TurnsInv
<1>0. /\ Open => started /\ ~finished /\ mode = "challenge" /\ pending.placer = current
      /\ ~started => hand[current] = {}
      /\ players \subseteq Seats /\ present \subseteq players /\ current \in players
      /\ started \in BOOLEAN /\ finished \in BOOLEAN
  BY DEF PendingInv, PendingConsistent, LobbyHands, TypeOK
<1>1. ASSUME NEW s \in Seats, AddPlayer(s) \/ AddBot(s) PROVE Turns!Enter(s)
  <2>1. Phase \in {"lobby", "over"} /\ Phase' = Phase
    BY <1>0, <1>1 DEF AddPlayer, AddBot, TakeSeat, Phase, Open
  <2> QED
    BY <1>1, <2>1 DEF AddPlayer, AddBot, TakeSeat, Turns!Enter, Phase, Async
<1>2. CASE Start
  <2>1. CASE finished
    BY <1>2, <2>1, TurnRests DEF Start, Phase
  <2>2. CASE ~finished
    <3>1. Phase = "lobby" /\ Phase' = "turn"
      BY <1>0, <1>2, <2>2 DEF Start, Phase, Open
    <3> QED
      BY <1>2, <3>1 DEF Start, Turns!Begin, Turns!TurnNext, Phase, Async
  <2> QED
    BY <2>1, <2>2
<1>3. CASE BuildAsync
  <2>1. Phase = "lobby" /\ Phase' = "turn"
    BY <1>0, <1>3 DEF BuildAsync, Phase, Open, UnbuiltInv
  <2>2. PICK n \in 2..NumSeats : players' = 1..n /\ current' \in 1..n
    BY <1>3 DEF BuildAsync
  <2>3. Turns!Seat(n)
    BY <1>3, <2>1, <2>2 DEF BuildAsync, Turns!Seat, Phase, Async
  <2> QED
    BY <2>3 DEF Turns!TurnNext
<1>4. CASE Place
  <2>1. ~finished /\ started /\ ~Open /\ current \in present
    BY <1>0, <1>4 DEF Place, MayMove, Open
  <2>2. UNCHANGED <<mode, started, players, present>>
    BY <1>4 DEF Place
  <2>3. CASE ChallengeApplies(current) /\ UNCHANGED <<finished, current>>
             /\ \E tiles, points : pending' = [placer |-> current, tiles |-> tiles, points |-> points,
                                               accepts |-> {}, rejects |-> {}]
    <3>1. pending' # NoPending
      BY <1>0, <2>3, NumSeatsAssumption DEF NoPending, Seats
    <3>2. Phase = "turn" /\ Phase' = "vote"
      BY <2>1, <2>2, <2>3, <3>1 DEF Phase, Open
    <3> QED
      BY <2>1, <2>2, <2>3, <3>2
         DEF ChallengeApplies, Voters, Turns!OpenVote, Turns!TurnNext, Phase
  <2>4. CASE pending' = pending /\ \E kept, tiles, points : Scored(current, kept, tiles, points)
    <3>1. pending' = NoPending
      BY <2>1, <2>4 DEF Open
    <3> QED
      BY <2>1, <2>2, <2>4, <3>1, ScoredTurns DEF Turns!TurnNext
  <2> QED
    BY <1>4, <2>3, <2>4 DEF Place
<1>5. CASE Exchange
  <2>1. ~finished /\ ~Open /\ UNCHANGED <<mode, started, players, present>> /\ pending' = NoPending
    BY <1>5 DEF Exchange, MayMove, Open
  <2>2. ScorelessTurn(hand', TRUE)
    BY <1>5 DEF Exchange
  <2> QED
    BY <2>1, <2>2, ScorelessTurnTurns DEF Turns!TurnNext
<1>6. ASSUME NEW missed \in BOOLEAN, Pass(missed) PROVE Turns!TurnNext
  BY <1>6, PassTurns DEF Turns!TurnNext
<1>7. CASE ExpireTurn
  <2>1. CASE Pass(TRUE)
    BY <1>6, <2>1
  <2>2. CASE PassOn /\ GivesUp(current) /\ UNCHANGED <<mode, started, players, present>>
    <3>1. ~finished /\ finished'
      BY <1>7, <2>2 DEF ExpireTurn, MayMove, GivesUp
    <3> QED
      BY <2>2, <3>1, TurnEnds DEF Turns!TurnNext
  <2> QED
    BY <1>7, <2>1, <2>2 DEF ExpireTurn
<1>8. ASSUME NEW s \in Seats, Resign(s) PROVE Turns!TurnNext
  <2>1. ~finished /\ finished' /\ UNCHANGED <<mode, players, present, current>>
    BY <1>8 DEF Resign, GivesUp
  <2> QED
    BY <2>1, TurnEnds DEF Turns!TurnNext
<1>9. ASSUME NEW p, p.placer = pending.placer, Open, FinalizeAccept(p) \/ FinalizeReject(p)
      PROVE  Turns!TurnNext
  BY <1>9, ResolutionTurns DEF Turns!TurnNext
<1>10. ASSUME NEW v \in Seats, NEW accepts \in BOOLEAN, CastVote(v, accepts)
       PROVE  [Turns!TurnNext]_(Turns!turnVars)
  <2> DEFINE p == [pending EXCEPT !.accepts = IF accepts THEN @ \cup {v} ELSE @,
                                  !.rejects = IF accepts THEN @ ELSE @ \cup {v}]
  <2>1. p.placer = pending.placer /\ Open
    BY <1>10 DEF CastVote, TypeOK, PendingType, NoPending
  <2>2. CASE Resolve(p)
    BY <1>9, <2>1, <2>2 DEF Resolve
  <2>3. CASE pending' = p /\ UNCHANGED <<mode, started, finished, players, present, current>>
    <3>1. Phase' = Phase
      BY <1>0, <2>1, <2>3, NumSeatsAssumption DEF Phase, Open, NoPending, Seats
    <3> QED
      BY <2>3, <3>1, TurnRests
  <2> QED
    BY <1>10, <2>2, <2>3 DEF CastVote
<1>11. CASE VoteTimeout \/ \E accept \in BOOLEAN : ForceResolve(accept)
  BY <1>9, <1>11 DEF VoteTimeout, ForceResolve, Resolve
<1>12. CASE Withdraw
  <2>1. Open /\ pending' = NoPending /\ pending.placer \in present
        /\ UNCHANGED <<mode, started, finished, players, present, current>>
    BY <1>12 DEF Withdraw
  <2> QED
    BY <1>0, <2>1, TurnReturns DEF Turns!TurnNext
<1>13. CASE ForceEnd
  <2>1. ~finished /\ finished' /\ UNCHANGED <<mode, players, present, current>>
    BY <1>13 DEF ForceEnd, EndGame
  <2> QED
    BY <2>1, TurnEnds DEF Turns!TurnNext
<1>14. ASSUME NEW s \in Seats, MarkDisconnected(s) PROVE Turns!Drop(s)
  BY <1>14 DEF MarkDisconnected, Connections, Turns!Drop, Open, NoPending
<1>15. ASSUME NEW s \in Seats, Reconnect(s) PROVE Turns!Return(s)
  BY <1>15 DEF Reconnect, Connections, Turns!Return, Open, NoPending
<1>16. ASSUME NEW s \in Seats, RemovePlayer(s) PROVE Turns!Leave(s)
  <2>1. Phase # "over" /\ Phase' = IF Phase = "vote" /\ s = current THEN "turn" ELSE Phase
    BY <1>0, <1>16, NumSeatsAssumption DEF RemovePlayer, Phase, Open, NoPending, Seats
  <2>2. current' = IF s = current THEN Turns!NextIn(s, players') ELSE current
    BY <1>16 DEF RemovePlayer, NextIn, Turns!NextIn, Distance, Turns!Distance
  <2> QED
    BY <1>16, <2>1, <2>2 DEF RemovePlayer, Turns!Leave, Phase
<1>17. CASE SkipDisconnected
  <2>1. Phase = "turn" /\ Phase' = Phase
    BY <1>17 DEF SkipDisconnected, MayMove, Connections, Phase
  <2>2. current' = Turns!Landing(current, players, present, FALSE)
    BY <1>17 DEF SkipDisconnected, PassOn, Landing, Turns!Landing, NextIn, Turns!NextIn,
                 Distance, Turns!Distance
  <2>3. Turns!SkipAbsent
    BY <1>17, <2>1, <2>2 DEF SkipDisconnected, Connections, Turns!SkipAbsent, Phase, Async
  <2> QED
    BY <2>3 DEF Turns!TurnNext
<1>18. CASE SaveRestore
  <2>1. Phase \in {"turn", "vote"} /\ Phase' = "turn"
    BY <1>18 DEF SaveRestore, Phase
  <2>2. IF Async \/ current \in present'
        THEN UNCHANGED current
        ELSE current' = Turns!Landing(current, players, present', FALSE)
    BY <1>18 DEF SaveRestore, Landing, Turns!Landing, NextIn, Turns!NextIn, Distance, Turns!Distance
  <2>3. /\ UNCHANGED <<mode, players>>
        /\ present' \in {P \cup (Bots \cap players) : P \in SUBSET (players \ Bots)}
    BY <1>18 DEF SaveRestore
  <2>4. Turns!Reload
    BY <2>1, <2>2, <2>3 DEF Turns!Reload, Phase, Async
  <2> QED
    BY <2>4 DEF Turns!TurnNext
<1>19. CASE UNCHANGED vars
  BY <1>19, TurnRests DEF vars, Phase
<1>20. Seats = Turns!Seats
  BY DEF Seats, Turns!Seats
<1>21. CASE \E s \in Seats : \/ AddPlayer(s) \/ AddBot(s) \/ MarkDisconnected(s)
                             \/ Reconnect(s) \/ RemovePlayer(s)
  <2>1. \E s \in Turns!Seats : \/ Turns!Enter(s) \/ Turns!Drop(s) \/ Turns!Return(s)
                               \/ Turns!Leave(s)
    BY <1>1, <1>14, <1>15, <1>16, <1>20, <1>21
  <2> QED
    BY <2>1 DEF Turns!TurnNext
<1>22. CASE PassTurn \/ AdminSkip
  <2>1. \E missed \in BOOLEAN : Pass(missed)
    BY <1>22 DEF PassTurn, AdminSkip, Async
  <2> QED
    BY <2>1, <1>6
<1> HIDE DEF TurnsInv
<1> QED
  BY <1>2, <1>3, <1>4, <1>5, <1>7, <1>8, <1>10, <1>11, <1>12, <1>13, <1>17, <1>18, <1>19,
     <1>21, <1>22 DEF Next

(* The game implements the protocol of turns: started by the room's         *)
(* creator, every join, move, vote, missed deadline, disconnection,         *)
(* departure and reload of game.rs moves the turn as TurnGame allows, for   *)
(* every number of seats up to four, every set of tiles and all rules.      *)
THEOREM GameImplementsTurns == Spec => ImplementsTurnGame
<1>1. Init => Turns!TurnInit /\ PendingInv /\ UnbuiltInv
  <2> SUFFICES ASSUME Init PROVE Turns!TurnInit /\ PendingInv /\ UnbuiltInv
    OBVIOUS
  <2>1. Turns!TurnInit
    BY DEF Init, Turns!TurnInit
  <2>2. PendingInv
    BY DEF Init, PendingInv, LobbyHands, PendingConsistent, Open
  <2>3. UnbuiltInv
    BY DEF Init, UnbuiltInv
  <2> QED
    BY <2>1, <2>2, <2>3
<1>2. TypeOK /\ PendingInv /\ UnbuiltInv /\ [Next]_vars => PendingInv' /\ UnbuiltInv'
  BY PendingStep, UnbuiltStep
<1>3. TypeOK /\ PendingInv /\ UnbuiltInv /\ [Next]_vars => [Turns!TurnNext]_(Turns!turnVars)
  BY TurnStep DEF TurnsInv
<1> QED
  BY <1>1, <1>2, <1>3, TypeCorrect, PTL DEF Spec, ImplementsTurnGame, Turns!TurnSpec

-----------------------------------------------------------------------------
(* The settlement.                                                          *)

(* Settling takes from the table what lies in the hands, and gives it to    *)
(* the one who went out, if there is one (end_game).                        *)
LEMMA SettledTotal ==
  ASSUME players \subseteq Seats, NEW h \in [Seats -> SUBSET Tiles],
         NEW sc \in [Seats -> Int], NEW finisher \in Seats \cup {0}
  PROVE  Total(Settled(h, sc, finisher))
           = Total(sc) - LeftOver(h) + (IF finisher \in players THEN LeftOver(h) ELSE 0)
<1> DEFINE value(s) == IF s \in players THEN HandValue[h[s]] ELSE 0
           old(s) == IF s \in players THEN sc[s] ELSE 0
           new(s) == IF s \in players THEN Settled(h, sc, finisher)[s] ELSE 0
           won(s) == IF s \in players /\ s = finisher THEN LeftOver(h) ELSE 0
<1>1. LeftOver(h) \in Nat
  BY LeftOverType
<1>2. ASSUME NEW s \in {1, 2, 3, 4}
      PROVE  value(s) \in Int /\ old(s) \in Int /\ new(s) = old(s) - value(s) + won(s)
  <2>1. CASE s \in players
    <3>1. HandValue[h[s]] \in Nat /\ sc[s] \in Int
      BY <2>1, HandValueAssumption
    <3>2. Settled(h, sc, finisher)[s]
            = sc[s] - HandValue[h[s]] + (IF s = finisher THEN LeftOver(h) ELSE 0)
      BY <2>1 DEF Settled
    <3> QED
      BY <1>1, <2>1, <3>1, <3>2
  <2>2. CASE s \notin players
    BY <2>2
  <2> QED
    BY <2>1, <2>2
<1>3. LeftOver(h) = value(1) + value(2) + value(3) + value(4)
  BY DEF LeftOver
<1>4. Total(sc) = old(1) + old(2) + old(3) + old(4)
  BY DEF Total
<1>5. Total(Settled(h, sc, finisher)) = new(1) + new(2) + new(3) + new(4)
  BY DEF Total
<1>6. won(1) + won(2) + won(3) + won(4) = IF finisher \in players THEN LeftOver(h) ELSE 0
  <2>1. players \subseteq {1, 2, 3, 4} /\ 0 \notin players
    BY NumSeatsAssumption DEF Seats
  <2> HIDE DEF value, old, new
  <2> QED
    BY <1>1, <2>1
<1>7. won(1) \in Int /\ won(2) \in Int /\ won(3) \in Int /\ won(4) \in Int
  BY <1>1
<1> HIDE DEF value, old, new, won
<1> QED
  BY <1>1, <1>2, <1>3, <1>4, <1>5, <1>6, <1>7

(* Points for a player of the table are the table's.                        *)
LEMMA TotalWithPoints ==
  ASSUME players \subseteq Seats, NEW sc \in [Seats -> Int], NEW s \in players, NEW n \in Nat
  PROVE  /\ Total(sc) \in Int
         /\ Total([sc EXCEPT ![s] = @ + n]) = Total(sc) + n
<1> DEFINE old(t) == IF t \in players THEN sc[t] ELSE 0
           new(t) == IF t \in players THEN [sc EXCEPT ![s] = @ + n][t] ELSE 0
<1>1. \A t \in {1, 2, 3, 4} : old(t) \in Int /\ new(t) = old(t) + (IF t = s THEN n ELSE 0)
  OBVIOUS
<1>2. Total(sc) = old(1) + old(2) + old(3) + old(4)
  BY DEF Total
<1>3. Total([sc EXCEPT ![s] = @ + n]) = new(1) + new(2) + new(3) + new(4)
  BY DEF Total
<1>4. s \in {1, 2, 3, 4}
  BY NumSeatsAssumption DEF Seats
<1> HIDE DEF old, new
<1> QED
  BY <1>1, <1>2, <1>3, <1>4

(* Among at most four seats somebody scored best, and better than the rest. *)
LEMMA BestIsBest ==
  ASSUME NEW sc \in [Seats -> Int], NEW S \in SUBSET Seats, S # {}
  PROVE  /\ Best(sc, S) # {} /\ Best(sc, S) \subseteq S
         /\ \A w \in Best(sc, S), s \in S \ Best(sc, S) : sc[s] < sc[w]
<1> DEFINE Tops(T) == \E w \in T : \A t \in T : sc[t] <= sc[w]
<1>1. ASSUME NEW T \in SUBSET Seats, NEW t \in Seats, T = {} \/ Tops(T)
      PROVE  Tops(T \cup {t})
  <2>1. CASE T = {}
    BY <2>1
  <2>2. CASE Tops(T)
    <3>1. PICK w \in T : \A u \in T : sc[u] <= sc[w]
      BY <2>2
    <3>2. CASE sc[t] <= sc[w]
      BY <3>1, <3>2
    <3>3. CASE ~(sc[t] <= sc[w])
      <4>1. \A u \in T \cup {t} : sc[u] <= sc[t]
        BY <3>1, <3>3
      <4> QED
        BY <4>1
    <3> QED
      BY <3>2, <3>3
  <2> QED
    BY <1>1, <2>1, <2>2
<1>2. Tops(S)
  <2> DEFINE Upto(n) == S \cap 1..n
  <2> HIDE DEF Tops
  <2>1. \A n \in 0..3 : Upto(n) = {} \/ Tops(Upto(n)) => Upto(n + 1) = {} \/ Tops(Upto(n + 1))
    <3> SUFFICES ASSUME NEW n \in 0..3, Upto(n) = {} \/ Tops(Upto(n))
                 PROVE  Upto(n + 1) = {} \/ Tops(Upto(n + 1))
      OBVIOUS
    <3>1. CASE n + 1 \in S
      <4>1. Upto(n + 1) = Upto(n) \cup {n + 1} /\ Upto(n) \in SUBSET Seats
        BY <3>1
      <4> QED
        BY <3>1, <4>1, <1>1
    <3>2. CASE n + 1 \notin S
      <4>1. Upto(n + 1) = Upto(n)
        BY <3>2
      <4> QED
        BY <4>1
    <3> QED
      BY <3>1, <3>2
  <2>2. Upto(0) = {} /\ Upto(4) = S
    <3>1. 1..0 = {} /\ S \subseteq 1..4
      BY NumSeatsAssumption DEF Seats
    <3> QED
      BY <3>1
  <2> HIDE DEF Upto
  <2>3. \A n \in 0..4 : Upto(n) = {} \/ Tops(Upto(n))
    <3>1. Upto(1) = {} \/ Tops(Upto(1))
      BY <2>1, <2>2
    <3>2. Upto(2) = {} \/ Tops(Upto(2))
      BY <2>1, <3>1
    <3>3. Upto(3) = {} \/ Tops(Upto(3))
      BY <2>1, <3>2
    <3>4. Upto(4) = {} \/ Tops(Upto(4))
      BY <2>1, <3>3
    <3> QED
      BY <2>2, <3>1, <3>2, <3>3, <3>4
  <2> QED
    BY <2>2, <2>3
<1>3. Best(sc, S) # {} /\ Best(sc, S) \subseteq S
  BY <1>2 DEF Best
<1>4. ASSUME NEW w \in Best(sc, S), NEW s \in S \ Best(sc, S)
      PROVE  sc[s] < sc[w]
  <2>1. PICK t \in S : ~(sc[t] <= sc[s])
    BY DEF Best
  <2>2. w \in S /\ sc[t] <= sc[w]
    BY DEF Best
  <2> QED
    BY <2>1, <2>2
<1> QED
  BY <1>3, <1>4

(* What is known of the game's last step before it: whose points and whose  *)
(* tiles a placement under vote is, and that nobody has resigned yet.       *)
SettlementInv ==
  /\ Open => pending.points \in Earnings(pending.tiles)
  /\ ~finished => resigned = {}

EndInv == TypeOK /\ PendingInv /\ TileConservation /\ SettlementInv

Earned == IF board' # board
          THEN Total(score') - Total(score) \in Earnings(board' \ board)
          ELSE Total(score') = Total(score) - LeftOver(hand')

Won == /\ winners' # {} /\ winners' \subseteq players
       /\ players \subseteq resigned' \/ winners' \cap resigned' = {}
       /\ \A w \in winners', s \in players \ (winners' \cup resigned') : score'[s] < score'[w]

(* The winners of a game that nobody resigned. *)
LEMMA EndGameWon ==
  ASSUME EndInv, ~finished, NEW h \in [Seats -> SUBSET Tiles], NEW sc \in [Seats -> Int],
         NEW finisher, EndGame(h, sc, finisher), UNCHANGED resigned
  PROVE  Won
<1>1. score' \in [Seats -> Int] /\ winners' = Best(score', players)
  BY SettledType DEF EndGame, EndInv, TypeOK
<1>2. players \in SUBSET Seats /\ players # {} /\ resigned' = {}
  BY DEF EndInv, TypeOK, SettlementInv
<1>3. PICK sc2 \in [Seats -> Int] : sc2 = score'
  BY <1>1
<1>4. /\ Best(sc2, players) # {} /\ Best(sc2, players) \subseteq players
      /\ \A w \in Best(sc2, players), s \in players \ Best(sc2, players) : sc2[s] < sc2[w]
  BY <1>2, BestIsBest
<1> QED
  BY <1>1, <1>2, <1>3, <1>4 DEF Won

(* A game that ends with nobody out and nothing laid. *)
LEMMA NobodyOut ==
  ASSUME EndInv, ~finished, EndGame(hand', score, 0), hand' \in [Seats -> SUBSET Tiles],
         UNCHANGED <<board, resigned>>
  PROVE  Earned /\ Won
<1>1. PICK h \in [Seats -> SUBSET Tiles] : h = hand'
  OBVIOUS
<1>2. 0 \notin players /\ players \subseteq Seats /\ score \in [Seats -> Int]
  BY NumSeatsAssumption DEF EndInv, TypeOK, Seats
<1>3. score' = Settled(h, score, 0)
  BY <1>1 DEF EndGame
<1>4. Total(score') = Total(score) - LeftOver(h) + 0
  BY <1>2, <1>3, SettledTotal
<1>5. Total(score) \in Int /\ LeftOver(h) \in Nat
  <2>1. PICK s \in players : TRUE
    BY DEF EndInv, TypeOK
  <2> QED
    BY <1>2, <2>1, TotalWithPoints, LeftOverType
<1>6. Won
  BY <1>1, <1>2, EndGameWon
<1> QED
  BY <1>1, <1>4, <1>5, <1>6 DEF Earned

(* The player whose last tiles these are goes out.                          *)
LEMMA GoesOut ==
  ASSUME EndInv, ~finished, NEW s \in players, NEW kept \in SUBSET Tiles,
         NEW tiles \in SUBSET Tiles, NEW points \in Earnings(tiles),
         tiles # {}, tiles \cap board = {},
         Scored(s, kept, tiles, points), finished', UNCHANGED resigned
  PROVE  Earned /\ Won
<1>0. players \subseteq Seats /\ s \in Seats /\ score \in [Seats -> Int]
      /\ hand \in [Seats -> SUBSET Tiles] /\ bag \subseteq Tiles
  BY DEF EndInv, TypeOK
<1>1. points \in Nat
  BY RulesAssumption DEF Earnings
<1>2. PICK drawn \in Draws(HandSize - Cardinality(kept)) :
        EndGame([hand EXCEPT ![s] = kept \cup drawn], [score EXCEPT ![s] = @ + points], s)
  BY DEF Scored, GoesOn
<1>3. board' = board \cup tiles
  BY DEF Scored
<1> DEFINE h == [hand EXCEPT ![s] = kept \cup drawn]
           sc == [score EXCEPT ![s] = @ + points]
<1>4. h \in [Seats -> SUBSET Tiles] /\ sc \in [Seats -> Int]
  BY <1>0, <1>1, <1>2 DEF Draws, kSubset
<1>5. Total(sc) = Total(score) + points /\ Total(score) \in Int
  BY <1>0, <1>1, TotalWithPoints
<1>6. EndGame(h, sc, s)
  BY <1>2
<1> HIDE DEF h, sc
<1>7. Total(Settled(h, sc, s)) = Total(sc) - LeftOver(h) + LeftOver(h)
  BY <1>0, <1>4, SettledTotal
<1>8. LeftOver(h) \in Nat
  BY <1>0, <1>4, LeftOverType
<1>9. Total(score') - Total(score) = points
  BY <1>1, <1>5, <1>6, <1>7, <1>8 DEF EndGame
<1>10. board' # board /\ board' \ board = tiles
  BY <1>3
<1>11. Won
  BY <1>4, <1>6, EndGameWon
<1> QED
  BY <1>9, <1>10, <1>11 DEF Earned

(* A player gives up: the others' hands, and his, are lost to the table.    *)
LEMMA GivenUp ==
  ASSUME EndInv, ~finished, NEW s \in Seats, GivesUp(s), UNCHANGED <<hand, board>>
  PROVE  Earned /\ Won
<1>0. players \subseteq Seats /\ players # {} /\ score \in [Seats -> Int]
      /\ hand \in [Seats -> SUBSET Tiles] /\ 0 \notin players
  <2>1. 0 \notin Seats
    BY DEF Seats
  <2> QED
    BY <2>1 DEF EndInv, TypeOK
<1>1. score' = Settled(hand, score, 0) /\ resigned' = {s}
  BY DEF GivesUp, EndInv, SettlementInv
<1>2. Total(score') = Total(score) - LeftOver(hand) + 0
  BY <1>0, <1>1, SettledTotal
<1>3. Total(score) \in Int /\ LeftOver(hand) \in Nat
  BY <1>0, TotalWithPoints, LeftOverType
<1>4. Earned
  <2>1. LeftOver(hand') = LeftOver(hand)
    BY DEF LeftOver
  <2> QED
    BY <1>2, <1>3, <2>1 DEF Earned
<1>5. PICK sc \in [Seats -> Int] : sc = score'
  BY <1>0, <1>1, SettledType
<1>6. CASE players \subseteq resigned'
  <2>1. winners' = Best(sc, players)
    BY <1>5, <1>6 DEF GivesUp
  <2> QED
    BY <1>0, <1>4, <1>5, <1>6, <2>1, BestIsBest DEF Won
<1>7. CASE ~(players \subseteq resigned')
  <2> DEFINE S == players \ resigned'
  <2>1. winners' = Best(sc, S)
    BY <1>5, <1>7 DEF GivesUp
  <2>2. S \in SUBSET Seats /\ S # {} /\ S \subseteq players /\ S \cap resigned' = {}
    BY <1>0, <1>7
  <2>3. \A t \in players \ (winners' \cup resigned') : t \in S \ winners'
    OBVIOUS
  <2> HIDE DEF S
  <2>4. /\ Best(sc, S) # {} /\ Best(sc, S) \subseteq S
        /\ \A w \in Best(sc, S), t \in S \ Best(sc, S) : sc[t] < sc[w]
    BY <2>2, BestIsBest
  <2> QED
    BY <1>4, <1>5, <2>1, <2>2, <2>3, <2>4 DEF Won
<1> QED
  BY <1>6, <1>7

(* Every step that ends a game settles it, and every other one keeps what   *)
(* the settlement will need.                                                *)
LEMMA SettlementStep ==
  ASSUME EndInv, [Next]_vars
  PROVE  SettlementInv' /\ (~finished /\ finished' => Earned /\ Won)
<1> DEFINE Goal == SettlementInv' /\ (~finished /\ finished' => Earned /\ Won)
<1> SUFFICES Goal
  OBVIOUS
<1>0. /\ Open => started /\ ~finished /\ pending.placer = current /\ pending.tiles # {}
               /\ pending.points \in Earnings(pending.tiles)
      /\ ~finished => resigned = {}
      /\ current \in players /\ players \subseteq Seats
      /\ hand \in [Seats -> SUBSET Tiles]
      /\ pending.tiles \subseteq Tiles /\ pending.tiles \cap board = {}
      /\ \A s \in Seats : hand[s] \subseteq Tiles /\ hand[s] \cap board = {}
  BY DEF EndInv, TypeOK, PendingInv, PendingConsistent, SettlementInv, TileConservation, NoOverlap,
         PendingType, NoPending
(* nothing ends, nothing new is laid *)
<1>1. ASSUME UNCHANGED <<finished, resigned>>, pending' = NoPending \/ UNCHANGED pending
      PROVE  Goal
  <2>1. Open' => Open /\ UNCHANGED pending
    BY <1>1 DEF Open
  <2> QED
    BY <1>0, <1>1, <2>1 DEF SettlementInv, Open
(* no vote is open after it, and nobody resigns *)
<1>2. ASSUME pending' = NoPending, UNCHANGED resigned, ~finished, finished' => Earned /\ Won
      PROVE  Goal
  BY <1>0, <1>2 DEF SettlementInv, Open
<1>3. ASSUME NEW s \in Seats, AddPlayer(s) \/ AddBot(s) PROVE Goal
  BY <1>1, <1>3 DEF AddPlayer, AddBot, TakeSeat
<1>4. CASE Start \/ BuildAsync
  BY <1>1, <1>4 DEF Start, BuildAsync
<1>5. CASE Place
  <2>1. ~finished /\ pending = NoPending /\ UNCHANGED resigned
    BY <1>5 DEF Place, MayMove
  <2>2. PICK tiles \in (SUBSET hand[current]) \ {{}}, word \in WordScores :
          LET points == word + (IF Cardinality(tiles) = HandSize THEN BonusAllTiles ELSE 0)
              kept   == hand[current] \ tiles
          IN  \/ /\ ChallengeApplies(current)
                 /\ pending' = [placer |-> current, tiles |-> tiles, points |-> points,
                                accepts |-> {}, rejects |-> {}]
                 /\ UNCHANGED finished
              \/ /\ Scored(current, kept, tiles, points)
                 /\ UNCHANGED pending
    BY <1>5 DEF Place
  <2> DEFINE points == word + (IF Cardinality(tiles) = HandSize THEN BonusAllTiles ELSE 0)
             kept == hand[current] \ tiles
  <2>3. points \in Earnings(tiles)
    BY DEF Earnings
  <2>4. tiles \in SUBSET Tiles /\ tiles # {} /\ tiles \cap board = {} /\ kept \in SUBSET Tiles
    BY <1>0
  <2>5. CASE Scored(current, kept, tiles, points) /\ UNCHANGED pending
    <3> HIDE DEF points, kept
    <3>1. finished' => Earned /\ Won
      BY <1>0, <2>1, <2>3, <2>4, <2>5, GoesOut
    <3> QED
      BY <1>2, <2>1, <2>5, <3>1
  <2>6. CASE pending' = [placer |-> current, tiles |-> tiles, points |-> points,
                         accepts |-> {}, rejects |-> {}] /\ UNCHANGED finished
    <3> HIDE DEF points, kept
    <3>1. pending'.points = points /\ pending'.tiles = tiles
      BY <2>6
    <3>2. Earnings(tiles)' = Earnings(tiles)
      BY DEF Earnings
    <3> QED
      BY <1>0, <2>1, <2>3, <2>6, <3>1 DEF SettlementInv, Earnings
  <2> QED
    BY <2>2, <2>5, <2>6
(* a scoreless turn, of whatever kind *)
<1>6. ASSUME ~finished, pending' = NoPending, UNCHANGED <<board, resigned>>,
             hand' \in [Seats -> SUBSET Tiles],
             NEW moves, ScorelessTurn(hand', moves)
      PROVE  Goal
  <2>1. finished' => EndGame(hand', score, 0)
    BY <1>6 DEF ScorelessTurn, GoesOn
  <2>2. finished' => Earned /\ Won
    BY <1>6, <2>1, NobodyOut
  <2> QED
    BY <1>2, <1>6, <2>2
<1>7. CASE Exchange
  <2>1. ~finished /\ pending' = NoPending /\ UNCHANGED <<board, resigned>>
    BY <1>7 DEF Exchange, MayMove
  <2>2. ScorelessTurn(hand', TRUE)
    BY <1>7 DEF Exchange
  <2>3. PICK tiles \in SUBSET hand[current], drawn \in SUBSET bag :
          hand' = [hand EXCEPT ![current] = (@ \ tiles) \cup drawn]
    BY <1>7 DEF Exchange, Draws, kSubset
  <2>4. hand' \in [Seats -> SUBSET Tiles]
    BY <1>0, <2>3 DEF EndInv, TypeOK
  <2> QED
    BY <1>6, <2>1, <2>2, <2>4
<1>8. ASSUME NEW missed \in BOOLEAN, Pass(missed) PROVE Goal
  <2>1. ~finished /\ pending' = NoPending /\ UNCHANGED <<board, resigned, hand>>
    BY <1>8 DEF Pass, MayMove
  <2>2. ScorelessTurn(hand', TRUE)
    BY <1>8, <2>1 DEF Pass, ScorelessTurn
  <2> QED
    BY <1>0, <1>6, <2>1, <2>2
<1>9. ASSUME NEW s \in Seats, ~finished, GivesUp(s), UNCHANGED <<hand, board>> PROVE Goal
  <2>1. finished' /\ pending' = NoPending
    BY <1>9 DEF GivesUp
  <2> QED
    BY <1>9, <2>1, GivenUp DEF SettlementInv, Open
<1>10. CASE ExpireTurn
  <2>1. CASE Pass(TRUE)
    BY <1>8, <2>1
  <2>2. CASE GivesUp(current) /\ UNCHANGED <<hand, board>>
    <3>1. ~finished /\ current \in Seats
      BY <1>0, <1>10 DEF ExpireTurn, MayMove
    <3> QED
      BY <1>9, <2>2, <3>1
  <2> QED
    BY <1>10, <2>1, <2>2 DEF ExpireTurn
<1>11. ASSUME NEW s \in Seats, Resign(s) PROVE Goal
  BY <1>9, <1>11 DEF Resign
(* the end of a vote *)
<1>12. ASSUME NEW p, Open, p.placer = current, p.tiles = pending.tiles, p.points = pending.points,
              FinalizeAccept(p) \/ FinalizeReject(p)
       PROVE  Goal
  <2>1. pending' = NoPending /\ ~finished /\ UNCHANGED resigned
    BY <1>0, <1>12 DEF FinalizeAccept, FinalizeReject
  <2>2. CASE FinalizeAccept(p)
    <3>1. Scored(current, hand[current], p.tiles, p.points)
      BY <1>12, <2>2 DEF FinalizeAccept
    <3>2. hand[current] \in SUBSET Tiles /\ p.tiles \in SUBSET Tiles /\ p.tiles # {}
          /\ p.tiles \cap board = {} /\ p.points \in Earnings(p.tiles)
      BY <1>0, <1>12
    <3>3. finished' => Earned /\ Won
      BY <1>0, <2>1, <3>1, <3>2, GoesOut
    <3> QED
      BY <1>2, <2>1, <3>3
  <2>3. CASE FinalizeReject(p)
    <3>1. ScorelessTurn(hand', p.placer \notin present) /\ UNCHANGED board
      BY <2>3 DEF FinalizeReject
    <3>2. hand' \in [Seats -> SUBSET Tiles]
      BY <1>0, <1>12, <2>3 DEF FinalizeReject
    <3> QED
      BY <1>6, <2>1, <3>1, <3>2
  <2> QED
    BY <1>12, <2>2, <2>3
<1>13. ASSUME NEW v \in Seats, NEW accepts \in BOOLEAN, CastVote(v, accepts) PROVE Goal
  <2> DEFINE p == [pending EXCEPT !.accepts = IF accepts THEN @ \cup {v} ELSE @,
                                  !.rejects = IF accepts THEN @ ELSE @ \cup {v}]
  <2>1. Open /\ p.placer = pending.placer /\ p.tiles = pending.tiles /\ p.points = pending.points
    BY <1>13 DEF CastVote, EndInv, TypeOK, PendingType, NoPending
  <2>2. CASE Resolve(p)
    BY <1>0, <1>12, <2>1, <2>2 DEF Resolve
  <2>3. CASE pending' = p /\ UNCHANGED <<finished, resigned>>
    <3>1. pending'.points = pending.points /\ pending'.tiles = pending.tiles
      BY <2>1, <2>3
    <3> QED
      BY <1>0, <2>1, <2>3, <3>1 DEF SettlementInv, Earnings
  <2> QED
    BY <1>13, <2>2, <2>3 DEF CastVote
<1>14. CASE VoteTimeout \/ \E accept \in BOOLEAN : ForceResolve(accept)
  BY <1>0, <1>12, <1>14 DEF VoteTimeout, ForceResolve, Resolve
<1>15. CASE Withdraw \/ SaveRestore
  BY <1>1, <1>15 DEF Withdraw, SaveRestore
<1>16. CASE ForceEnd
  <2>1. /\ ~finished /\ pending' = NoPending /\ UNCHANGED <<board, resigned>>
        /\ EndGame(hand', score, 0) /\ hand' = ReturnedHands
    BY <1>16 DEF ForceEnd
  <2>2. Earned /\ Won
    BY <2>1, ReturnedHandsType, NobodyOut DEF EndInv
  <2> QED
    BY <1>2, <2>1, <2>2
<1>17. ASSUME NEW s \in Seats, MarkDisconnected(s) \/ Reconnect(s) \/ RemovePlayer(s) PROVE Goal
  BY <1>1, <1>17 DEF MarkDisconnected, Reconnect, Connections, RemovePlayer
<1>18. CASE SkipDisconnected \/ UNCHANGED vars
  BY <1>1, <1>18 DEF SkipDisconnected, Connections, vars
<1>19. CASE PassTurn \/ AdminSkip
  <2>1. \E missed \in BOOLEAN : Pass(missed)
    BY <1>19 DEF PassTurn, AdminSkip, Async
  <2> QED
    BY <1>8, <2>1
<1> HIDE DEF Goal
<1> QED
  BY <1>3, <1>4, <1>5, <1>7, <1>10, <1>11, <1>13, <1>14, <1>15, <1>16, <1>17, <1>18, <1>19
     DEF Next

(* However a game ends - a player goes out on his move or on the votes of   *)
(* the others, nobody scores any more, a deadline is missed once too often, *)
(* a player resigns, the admin stops it - it is settled right and has the   *)
(* winners it should have (end_game, resign), for any tiles and values.     *)
THEOREM GamesEndSettled == Spec => Settlement
<1>1. Init => PendingInv /\ SettlementInv
  <2> SUFFICES ASSUME Init PROVE PendingInv /\ SettlementInv
    OBVIOUS
  <2>1. PendingInv
    BY DEF Init, PendingInv, LobbyHands, PendingConsistent, Open
  <2>2. SettlementInv
    BY DEF Init, SettlementInv, Open
  <2> QED
    BY <2>1, <2>2
<1>2. TypeOK /\ PendingInv /\ TileConservation /\ SettlementInv /\ [Next]_vars
        => PendingInv' /\ SettlementInv'
  BY PendingStep, SettlementStep DEF EndInv
<1>3. TypeOK /\ PendingInv /\ TileConservation /\ SettlementInv /\ [Next]_vars
        => [~finished /\ finished' => Earned /\ Won]_vars
  BY SettlementStep DEF EndInv
<1>4. [~finished /\ finished' => Earned /\ Won]_vars
        => [~finished /\ finished' =>
              /\ IF board' # board
                 THEN Total(score') - Total(score) \in Earnings(board' \ board)
                 ELSE Total(score') = Total(score) - LeftOver(hand')
              /\ winners' # {} /\ winners' \subseteq players
              /\ players \subseteq resigned' \/ winners' \cap resigned' = {}
              /\ \A w \in winners', s \in players \ (winners' \cup resigned') :
                    score'[s] < score'[w]]_vars
  BY DEF Earned, Won
<1> QED
  BY <1>1, <1>2, <1>3, <1>4, TypeCorrect, TilesAreConserved, PTL DEF Spec, Settlement
=============================================================================
