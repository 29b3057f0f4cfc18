---------------------------- MODULE MCWebSocket ----------------------------
(* Values for model-checking WebSocket, in two scenarios.  "read" has      *)
(* every kind of data frame around the size limit, control frames between  *)
(* and inside messages and the frames readFrame refuses, and nothing       *)
(* written but answers.  "write" has few frames to read, and the           *)
(* goroutines write and close at any moment.                               *)
EXTENDS WebSocket

VARIABLE scenario

F(op, fin, size) == [op |-> op, fin |-> fin, size |-> size]

MCRead ==
    {F(op, fin, size) : op \in {"text", "continuation"}, fin \in BOOLEAN, size \in {1, 2}}
      \cup {F("text", TRUE, 4), F("ping", TRUE, 1), F("ping", TRUE, 2), F("ping", FALSE, 1),
            F("pong", TRUE, 1), F("close", TRUE, 1), F("other", TRUE, 1)}

MCControl == {F("text", TRUE, 1), F("ping", TRUE, 1), F("close", TRUE, 1)}

MCInit == Init /\ scenario \in {"read", "write"} /\ (tls \/ scenario = "write")

MCNext ==
    /\ Next /\ UNCHANGED scenario
    /\ scenario = "read" => writes' = 0 /\ \A p \in Closers : at'[p] = "idle"
    /\ scenario = "write" =>
          Len(frames') <= 2 /\ \A i \in DOMAIN frames' : frames'[i] \in MCControl

MCSpec == MCInit /\ [][MCNext]_<<vars, scenario>> /\ Fairness
=============================================================================
