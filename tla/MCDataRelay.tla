----------------------------- MODULE MCDataRelay -----------------------------
(* Meshes, envelopes and plans for model-checking DataRelay.  An envelope   *)
(* is written <<name, soundness>>.                                          *)
EXTENDS DataRelay

CONSTANTS b1, b2, b3, rates

Triangle == {l \in Bridge \X Bridge : l[1] # l[2]}

Envelopes == {<<"x", "sound">>, <<"y", "sound">>, <<"x", "damaged">>}
Sounds    == {e \in Envelopes : e[2] = "sound"}
Topics    == [e \in Envelopes |-> rates]
Hashes    == [e \in Envelopes |-> e[1]]
Stamps    == [e \in Envelopes |-> IF e[1] = "x" THEN 1 ELSE 2]
Ttls      == [e \in Envelopes |-> 1]

Everybody == [l \in Peering |-> {rates}]
Row       == [l \in Peering |-> IF l \in {<<b1, b2>>, <<b2, b3>>} THEN {rates} ELSE {}]
Pair      == [l \in Peering |-> IF l = <<b1, b2>> THEN {rates} ELSE {}]

MkPlan(interest, i, d, c, r, b) ==
  [interests |-> interest, steady |-> TRUE,
   injects |-> i, damaged |-> d, declares |-> c, requests |-> r, drops |-> b]

\* Two envelopes flood a triangle of bridges that remember one.
Flood == MkPlan(Everybody, 2, 0, 0, 0, 0)
\* A damaged copy goes before the sound one, in a row.
Damaged == MkPlan(Row, 1, 1, 0, 0, 0)
\* A bridge asks for what it missed.
CatchUp == MkPlan(Pair, 2, 0, 0, 1, 0)
\* Interests change and a link breaks.
Changes == MkPlan(Pair, 1, 0, 1, 0, 1)

AllPlans == {Flood, Damaged, CatchUp, Changes}
==============================================================================
