--------------------------- MODULE MCPeerReputation ---------------------------
(* Stake ages for model-checking PeerReputation: a few seconds, up to a day, *)
(* a week, and three years or more.                                          *)
EXTENDS PeerReputation

Points == {-166, 0, 28, 100}
==============================================================================
