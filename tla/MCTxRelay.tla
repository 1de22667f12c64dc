------------------------------ MODULE MCTxRelay ------------------------------
(* Meshes and inputs for model-checking TxRelay.                  *)
EXTENDS TxRelay

CONSTANTS b1, b2, b3, b4, t1, t2

Links(pairs) == pairs \cup {<<p[2], p[1]>> : p \in pairs}

Triangle == Links({<<b1, b2>>, <<b2, b3>>, <<b1, b3>>})
Row      == Links({<<b1, b2>>, <<b2, b3>>, <<b3, b4>>})

OneWrite   == {<<b1, t1>>}
ThreeWrite == {<<b1, t1>>, <<b2, t2>>, <<b4, t2>>}
MidObserve == {<<b2, t2>>}
TwoObserve == {<<b2, t1>>, <<b2, t2>>}
==============================================================================
