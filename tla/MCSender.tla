------------------------------ MODULE MCSender ------------------------------
(* Values for model-checking Sender: two calls, three attempts each, and   *)
(* limits shorter and longer than the back-offs (1 and 2 units).           *)
EXTENDS Sender

CONSTANTS c1, c2

MCCall == {c1, c2}
MCWait == {1, 3}
=============================================================================
