------------------------------ MODULE MCPoster ------------------------------
(* Small instances of Poster. *)
EXTENDS Poster

CONSTANTS p1, p2
=============================================================================
