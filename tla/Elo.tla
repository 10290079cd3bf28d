--------------------------------- MODULE Elo ---------------------------------
(* The rating arithmetic of src/src/accounts/elo.rs in integers.  The       *)
(* logistic curve is abstracted to its shape: the expected score against a  *)
(* weaker, an equal and a stronger opponent is 3/4, 1/2 and 1/4.            *)
EXTENDS Integers, FiniteSets, Functions

CONSTANTS
  Provisional,    \* rated games with the larger K (PROVISIONAL_GAMES)
  KProvisional, KEstablished

ASSUME EloAssumption ==
  Provisional \in Nat /\ KProvisional \in Nat \ {0} /\ KEstablished \in 1 .. KProvisional

(* round_ties_even of a / b *)
RoundTiesEven(a, b) ==
  LET q == (2 * a + b) \div (2 * b)
  IN IF (2 * a + b) % (2 * b) = 0 /\ q % 2 = 1 THEN q - 1 ELSE q

(* expected_score and the actual one, in quarters *)
Expected(mine, theirs) == IF mine > theirs THEN 3 ELSE IF mine < theirs THEN 1 ELSE 2
Actual(mine, theirs) == IF mine > theirs THEN 4 ELSE IF mine < theirs THEN 0 ELSE 2

KFactor(rated) == IF rated < Provisional THEN KProvisional ELSE KEstablished

(* entries: key -> [rating, rated, score]; nothing changes with one entry *)
RatingChanges(entries) ==
  [k \in DOMAIN entries |->
     LET me == entries[k]
         others == DOMAIN entries \ {k}
         total == SumFunction([o \in others |-> Actual(me.score, entries[o].score) - Expected(me.rating, entries[o].rating)])
     IN IF others = {} THEN 0 ELSE RoundTiesEven(KFactor(me.rated) * total, 4 * Cardinality(others))]

=============================================================================
