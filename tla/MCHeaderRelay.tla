---------------------------- MODULE MCHeaderRelay ----------------------------
(* Meshes and chains for model-checking HeaderRelay.  A header is written    *)
(* <<fork, height>>.                                                         *)
EXTENDS HeaderRelay, TLC

CONSTANTS b1, b2, b3

Line == {<<b1, b2>>, <<b3, b2>>}

\* Two forks from the checkpoint, one block and three blocks long.
Forks     == {<<"a", 1>>, <<"b", 1>>, <<"b", 2>>, <<"b", 3>>}
ForksPrev == [x \in Forks |-> IF x[2] = 1 THEN Checkpoint ELSE <<"b", x[2] - 1>>]
Heights   == [x \in Forks |-> x[2]]

\* Three bridges in a line; the BSV nodes of the first serve two blocks.
Sync ==
  [bridges |-> Bridge,
   sees |-> [b \in Bridge |-> IF b = b1 THEN {<<"b", 1>>, <<"b", 2>>} ELSE {}],
   bootstraps |-> {}, maxBatch |-> 1, drops |-> 0, restarts |-> 1]

\* Two bridges; the BSV nodes of the second do not serve the whole of a fork.
Forked ==
  [bridges |-> {b1, b2},
   sees |-> (b1 :> Forks @@ b2 :> {<<"a", 1>>, <<"b", 3>>} @@ b3 :> {}),
   bootstraps |-> {b2}, maxBatch |-> 2, drops |-> 0, restarts |-> 0]

\* Two bridges, one chain in full batches, a link that breaks.
Cut ==
  [bridges |-> {b1, b2},
   sees |-> [b \in Bridge |-> IF b = b1 THEN Forks \ {<<"a", 1>>} ELSE {}],
   bootstraps |-> {}, maxBatch |-> 2, drops |-> 1, restarts |-> 0]

AllPlans == [sync |-> Sync, forked |-> Forked, cut |-> Cut]
==============================================================================
