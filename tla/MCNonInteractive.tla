-------------------------- MODULE MCNonInteractive --------------------------
(* The non-interactive publisher with one or two items.                    *)
EXTENDS NonInteractive
=============================================================================
