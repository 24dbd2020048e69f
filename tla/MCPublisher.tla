---------------------------- MODULE MCPublisher ----------------------------
(* Small instances of Publisher. *)
EXTENDS Publisher

CONSTANTS c1, c2, c3, A, B
=============================================================================
