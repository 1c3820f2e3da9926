------------------------------ MODULE MCCompose ------------------------------
(***************************************************************************)
(* Small instances of Compose for TLC: the three scripts of                *)
(* data-migration/sql, of which the second creates the user.               *)
(***************************************************************************)
EXTENDS Compose

CONSTANT c1

SqlDirectory == [v \in 1..3 |-> c1]
=============================================================================
