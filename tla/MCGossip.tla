------------------------------- MODULE MCGossip -------------------------------
(* Meshes and plans for model-checking Gossip.                              *)
EXTENDS Gossip

CONSTANTS b1, b2, b3, b4

\* A triangle and a bridge that knows one of its corners.
Paw == {l \in Bridge \X Bridge : l[1] # l[2]} \
         {<<b1, b4>>, <<b4, b1>>, <<b2, b4>>, <<b4, b2>>}
Never   == [b \in Bridge |-> None]
Silent  == [b \in Bridge |-> 0]

\* One bridge moves and announces.
Moving == [present |-> Bridge, phase |-> Never, announces |-> [Silent EXCEPT ![b1] = 2],
           movers |-> {b1}, leavers |-> {}]
\* In a triangle, two bridges refresh, a quarter of a period apart; the third leaves.
Leaving == [present |-> {b1, b2, b3}, phase |-> [Never EXCEPT ![b1] = 0, ![b2] = 1],
            announces |-> Silent, movers |-> {}, leavers |-> {b3}]
\* The same, and a bridge that announces may leave too.
Busy == [present |-> {b1, b2, b3}, phase |-> [Never EXCEPT ![b2] = 1, ![b3] = 1],
         announces |-> [Silent EXCEPT ![b2] = 1], movers |-> {}, leavers |-> {b2}]

\* The outer bridge announces.
Flooding == [present |-> Bridge, phase |-> Never, announces |-> [Silent EXCEPT ![b4] = 1],
             movers |-> {}, leavers |-> {}]

AllPlans == {Moving, Flooding, Leaving, Busy}
==============================================================================
