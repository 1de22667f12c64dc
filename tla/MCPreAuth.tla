------------------------------ MODULE MCPreAuth ------------------------------
(* Sockets and addresses for model-checking PreAuth.                       *)
EXTENDS PreAuth

CONSTANTS w1, w2, w3, w4, home, north, south

\* Two sockets of one address, one of each other address.
Crowd ==
  [w \in Ws |-> CASE w \in {w1, w2} -> home [] w = w3 -> north [] OTHER -> south]
==============================================================================
