----------------------------- MODULE SeatOrder -----------------------------
(* The order of play.  `Game.players` (src/src/engine/game.rs) is a list of *)
(* at most four players, and the turn is an index into it that advances     *)
(* modulo its length.  Here a place at the table is a number: the list is   *)
(* the seats taken, in increasing order, so that removing a player from the *)
(* list is removing a number from a set and renumbers nobody.               *)
EXTENDS Integers

CONSTANT NumSeats

(* add_player and add_bot refuse a fifth player *)
ASSUME NumSeatsAssumption == NumSeats \in 1..4

Seats == 1..NumSeats

(* how far clockwise t sits from s; a seat is a full circle from itself *)
Distance(s, t) == IF s < t THEN t - s ELSE t - s + NumSeats

(* the first seat of the nonempty set S clockwise of s *)
NextIn(s, S) == CHOOSE t \in S : \A u \in S : Distance(s, t) <= Distance(s, u)

(* Where next_turn leaves the turn: on the next player who is connected; on *)
(* the very next player when nobody is, or when the absent play too (a      *)
(* correspondence game).                                                    *)
Landing(s, players, present, absentPlay) ==
  NextIn(s, IF absentPlay \/ present = {} THEN players ELSE present)
=============================================================================
