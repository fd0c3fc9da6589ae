------------------------------ MODULE MCRbTree ------------------------------
(***************************************************************************)
(* Twelve entries whose numbers wrap behind the third.                     *)
(***************************************************************************)
EXTENDS RbTree

MCNodes == 1..12
=============================================================================
