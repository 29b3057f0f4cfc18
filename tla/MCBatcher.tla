----------------------------- MODULE MCBatcher -----------------------------
(* Values for model-checking Batcher: two streams and a label outside the  *)
(* protocol, records of one to three characters, one escape sequence whole *)
(* and one split over two records.                                         *)
EXTENDS Batcher

MCChar == {"a", "b", "ESC[", "0m"}
MCRecord ==
    {[stream |-> "stdout", data |-> <<"a">>],
     [stream |-> "stdout", data |-> <<"a", "ESC[", "0m", "b", "a">>],
     [stream |-> "other",  data |-> <<"b", "a">>]}

MCSplitEscape ==
    {[stream |-> "stderr", data |-> <<"a", "ESC[">>],
     [stream |-> "stderr", data |-> <<"0m", "b">>]}
=============================================================================
