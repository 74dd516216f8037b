----------------------------- MODULE MCWebSocket -----------------------------
(* Clients are interchangeable (for runs without liveness).                   *)
EXTENDS WebSocket, TLC

Symmetry == Permutations(Clients)
=============================================================================
