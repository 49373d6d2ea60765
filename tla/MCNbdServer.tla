---------------------------- MODULE MCNbdServer -----------------------------
(* Values of the constants of NbdServer for the model checker. *)
EXTENDS NbdServerProperties, TLC

CONSTANTS p, q, r, s, c1, c2, c3

ReadOnly == {Reading}
ReadOrDrop == {Reading, Dropped}

\* Handles differ in name only: the listening socket may as well be p.
ServeInit == ServerInit /\ accepted = {p}
ServeSpec == ServeInit /\ [][ServerNext]_serverVars /\ ServerFairness

\* Clients differ in name only, and so do handles.
ServerSymmetry == Permutations(Clients) \cup Permutations(Sockets)
=============================================================================
