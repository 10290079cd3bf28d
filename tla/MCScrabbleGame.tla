--------------------------- MODULE MCScrabbleGame ---------------------------
(* Small instances of ScrabbleGame for TLC. *)
EXTENDS ScrabbleGame, TLC

CONSTANTS ta, tb, tc, td, te, tf   \* the tiles of the largest instance

(* a hand is worth the sum of its tiles: ta and tb 2 points, the others 1 *)
SummedValues == [S \in SUBSET Tiles |-> Cardinality(S) + Cardinality(S \cap {ta, tb})]

(* tiles of equal value are interchangeable *)
EqualTiles == Permutations(Tiles \cap {ta, tb}) \cup Permutations(Tiles \ {ta, tb})
=============================================================================
