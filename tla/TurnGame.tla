------------------------------ MODULE TurnGame ------------------------------
(* What a game promises about whose turn it is, without tiles or scores:    *)
(* the protocol that the rooms' timers and bots rely on.  ScrabbleGame      *)
(* implements it, and RoomTurns runs the room's machinery on top of it.     *)
EXTENDS SeatOrder

CONSTANT Bots

ASSUME TurnBotsAssumption == Bots \subseteq Seats \ {1}

VARIABLES
  phase,    \* "lobby", "turn", "vote" (a pending placement) or "over"
  absent,   \* do the absent play too? (a correspondence game)
  players, present, current

turnVars == <<phase, absent, players, present, current>>

TurnInit ==
  /\ phase = "lobby"
  /\ absent \in BOOLEAN
  /\ players = {1} /\ present = {1} /\ current = 1

Enter(s) ==
  /\ phase \in {"lobby", "over"} /\ ~absent
  /\ \A t \in players : t < s
  /\ players' = players \cup {s} /\ present' = present \cup {s}
  /\ UNCHANGED <<phase, absent, current>>

(* players who take their seats together, somebody of them beginning *)
Seat(n) ==
  /\ phase = "lobby" /\ absent
  /\ phase' = "turn"
  /\ players' = 1..n /\ current' \in players'
  /\ present' = {1}
  /\ UNCHANGED absent

Begin ==
  /\ phase = "lobby" /\ ~absent
  /\ phase' = "turn"
  /\ UNCHANGED <<absent, players, present, current>>

(* The current player finishes a turn, or a vote on it ends, and the turn   *)
(* goes to the player next_turn lands on.                                   *)
NextTurn ==
  /\ phase # "over"
  /\ phase' = IF phase = "vote" THEN "turn" ELSE phase
  /\ current' = Landing(current, players, present, absent)
  /\ UNCHANGED <<absent, players, present>>

(* The current player lays tiles that somebody else has to vote on. *)
OpenVote ==
  /\ phase = "turn" /\ ~absent /\ current \in present
  /\ players \ (Bots \cup {current}) # {}
  /\ phase' = "vote"
  /\ UNCHANGED <<absent, players, present, current>>

(* A vote ends with the turn where it was: rejected while the placer is     *)
(* here to try again, or withdrawn by him.                                  *)
PlacerAgain ==
  /\ phase = "vote" /\ current \in present
  /\ phase' = "turn"
  /\ UNCHANGED <<absent, players, present, current>>

Finish ==
  /\ phase # "over"
  /\ phase' = "over"
  /\ UNCHANGED <<absent, players, present>>
  /\ current' \in {current, Landing(current, players, present, absent)}

Drop(s) ==
  /\ phase # "over" /\ s \in present \ Bots
  /\ present' = present \ {s}
  /\ UNCHANGED <<phase, absent, players, current>>

Return(s) ==
  /\ phase # "over" /\ s \in players \ present
  /\ present' = present \cup {s}
  /\ UNCHANGED <<phase, absent, players, current>>

(* The turn leaves an absent player, never during a vote. *)
SkipAbsent ==
  /\ phase = "turn" /\ ~absent
  /\ current \notin present /\ present # {}
  /\ current' = Landing(current, players, present, FALSE)
  /\ UNCHANGED <<phase, absent, players, present>>

(* A player goes for good while his seat stays: the turn leaves him too.    *)
Quit(s) ==
  /\ phase # "over" /\ s \in players \ Bots
  /\ present' = present \ {s}
  /\ current' = IF /\ phase = "turn" /\ ~absent
                   /\ current \notin present' /\ present' # {}
                THEN Landing(current, players, present', FALSE)
                ELSE current
  /\ UNCHANGED <<phase, absent, players>>

(* A player leaves the table; with the placer goes the vote. *)
Leave(s) ==
  /\ phase # "over" /\ s \in players /\ players \ (Bots \cup {s}) # {}
  /\ players' = players \ {s} /\ present' = present \ {s}
  /\ current' = IF s = current THEN NextIn(s, players') ELSE current
  /\ phase' = IF phase = "vote" /\ s = current THEN "turn" ELSE phase
  /\ UNCHANGED absent

(* The game is loaded from a save: an open vote is gone, others are here.   *)
Reload ==
  /\ phase \in {"turn", "vote"}
  /\ phase' = "turn"
  /\ present' \in {P \cup (Bots \cap players) : P \in SUBSET (players \ Bots)}
  /\ IF absent \/ current \in present'
     THEN UNCHANGED current
     ELSE current' = Landing(current, players, present', FALSE)
  /\ UNCHANGED <<absent, players>>

TurnNext ==
  \/ \E s \in Seats : Enter(s) \/ Drop(s) \/ Return(s) \/ Quit(s) \/ Leave(s)
  \/ \E n \in 2..NumSeats : Seat(n)
  \/ Begin \/ NextTurn \/ OpenVote \/ PlacerAgain \/ Finish \/ SkipAbsent \/ Reload

TurnSpec == TurnInit /\ [][TurnNext]_turnVars
=============================================================================
