---------------------------- MODULE MCGameRecords ----------------------------
(* Two players, games that end with a winner, a tie or a resignation. *)
EXTENDS GameRecords
CONSTANTS u, v, r1, r2
Outcomes == {[score |-> (u :> 1 @@ v :> 0), quit |-> {}], [score |-> (u :> 1 @@ v :> 0), quit |-> {u}]}
=============================================================================
