----------------------------- MODULE MCSession -----------------------------
(* Small instances of Session. *)
EXTENDS Session

TwoThenOne == <<2, 1>>
OneEach == <<1>>
=============================================================================
