----------------------------- MODULE MCSession -----------------------------
(* Values for model-checking Session: chunks of one and two bytes.         *)
EXTENDS Session

MCSizes == {1, 2}
=============================================================================
