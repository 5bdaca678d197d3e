------------------------------ MODULE MCSearch ------------------------------
(* A small instance of Search. *)
EXTENDS Search

CONSTANTS m1, m2, r1, r2, n1, n2, g1

MCTrace == [o \in Stores \cup Retrieves |-> "t"]
MCId == [m \in Stores |-> IF m = m1 THEN <<0, 1, 0>> ELSE <<1, 0, 0>>]
MCRows == [r \in Retrieves |-> IF r = r1 THEN {n1, n2} ELSE {n1}]
=============================================================================
