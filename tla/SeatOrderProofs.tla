-------------------------- MODULE SeatOrderProofs --------------------------
(* Facts about the order of play, for every table of at most four seats. *)
EXTENDS SeatOrder, TLAPS

(* Among the at most four seats one is nearest: next_turn always finds a    *)
(* player of the set it looks in.                                           *)
LEMMA NextInChooses ==
  ASSUME NEW s \in Seats, NEW S \in SUBSET Seats, S # {}
  PROVE  NextIn(s, S) \in S
<1> DEFINE At(d) == \E t \in S : Distance(s, t) = d
<1>1. \A t \in S : Distance(s, t) \in {1, 2, 3, 4}
  BY NumSeatsAssumption DEF Seats, Distance
<1>2. \E t \in S : \A u \in S : Distance(s, t) <= Distance(s, u)
  <2>1. CASE At(1)
    BY <1>1, <2>1
  <2>2. CASE ~At(1) /\ At(2)
    BY <1>1, <2>2
  <2>3. CASE ~At(1) /\ ~At(2) /\ At(3)
    BY <1>1, <2>3
  <2>4. CASE ~At(1) /\ ~At(2) /\ ~At(3)
    BY <1>1, <2>4
  <2> QED
    BY <2>1, <2>2, <2>3, <2>4
<1> QED
  BY <1>2 DEF NextIn

(* The turn always lands on a player of the table. *)
LEMMA LandingIsPlayer ==
  ASSUME NEW s \in Seats, NEW P \in SUBSET Seats, NEW Q \in SUBSET P, P # {},
         NEW away
  PROVE  Landing(s, P, Q, away) \in P
BY NextInChooses DEF Landing

(* While somebody is connected, an ordinary game's turn lands on somebody   *)
(* who is.                                                                  *)
LEMMA LandingIsPresent ==
  ASSUME NEW s \in Seats, NEW P \in SUBSET Seats, NEW Q \in SUBSET P, Q # {}
  PROVE  Landing(s, P, Q, FALSE) \in Q
BY NextInChooses DEF Landing
=============================================================================
