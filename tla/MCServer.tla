------------------------------ MODULE MCServer ------------------------------
(* Values for model-checking Server: one run followed through every order  *)
(* of events, posts and failures, and others that compete with it for the  *)
(* slots.                                                                  *)
EXTENDS Server

CONSTANTS r1, r2, r3

MCRun == {r1, r2, r3}

(* Only r1 gets as far as its start message. *)
MCNext == Next /\ \A r \in Run \ {r1} : pc'[r] # "announce"
MCSpec == Init /\ [][MCNext]_vars
=============================================================================
