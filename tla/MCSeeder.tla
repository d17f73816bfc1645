------------------------------ MODULE MCSeeder ------------------------------
(***************************************************************************)
(* The instance of Seeder for TLC: one client's clock is right, the        *)
(* other's is ahead.                                                       *)
(***************************************************************************)
EXTENDS Seeder

CONSTANTS Right, Ahead

MCNodes == {Right, Ahead}

MCSkew == [n \in MCNodes |-> IF n = Ahead THEN 1 ELSE 0]
=============================================================================
