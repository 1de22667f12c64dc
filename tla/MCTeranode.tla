------------------------------ MODULE MCTeranode ------------------------------
(* Outages for model-checking Teranode: the feed comes and goes twice, peers *)
(* are lost for a moment, listeners cannot be built, the bridge shuts down.  *)
EXTENDS Teranode

Troubles == [outages |-> 3, blips |-> 1, fails |-> 1, stops |-> 1]
==============================================================================
