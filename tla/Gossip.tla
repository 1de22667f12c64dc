-------------------------------- MODULE Gossip --------------------------------
(***************************************************************************)
(* The peer directory of the bridges (packages/bridge/lib/gossip.js, wired *)
(* in packages/bridge/cli.js).                                             *)
(*                                                                         *)
(* A bridge floods signed announcements of its endpoint, answers getpeers  *)
(* with the fresh part of its directory, and takes whatever it hears as    *)
(* seen now.  Time passes in ticks that are long against the delivery of a *)
(* message; an entry is as old as the ticks since it was last set.         *)
(***************************************************************************)
EXTENDS Integers, Sequences

CONSTANTS
  Bridge,
  Peering,       \* <<a, b>>: a and b may be connected; symmetric
  MaxAge,        \* ticks after which an entry is no longer given away
  RefreshEvery,  \* ticks between two getpeers of a bridge to all its peers
  None,          \* no entry
  Plans          \* instances to check

\* A plan: the bridges there are; the tick at which each refreshes, or None if it
\* does not; the announcements each may still make; who may still move or leave.
Plan == [present : SUBSET Bridge,
         phase : [Bridge -> (0 .. RefreshEvery - 1) \cup {None}],
         announces : [Bridge -> Nat], movers : SUBSET Bridge, leavers : SUBSET Bridge]

ASSUME PeeringAssumption ==
  /\ Peering \subseteq Bridge \X Bridge
  /\ \A l \in Peering : l[1] # l[2] /\ <<l[2], l[1]>> \in Peering
ASSUME TimeAssumption == MaxAge \in Nat \ {0} /\ RefreshEvery \in Nat \ {0}
ASSUME PlanAssumption ==
  /\ Plans # {}
  /\ \A p \in Plans : p \in Plan
ASSUME NoneAssumption == None \notin [endpoint : Nat, age : 0 .. MaxAge]

VARIABLES
  directory,  \* [Bridge -> [Bridge -> entry or None]]
  seen,       \* [Bridge -> SUBSET announcement ids] announcements processed
  endpoint,   \* [Bridge -> Nat] where a bridge is: it moves from n to n + 1
  alive,      \* bridges that run
  up,         \* SUBSET Peering: connections with a complete handshake
  net,        \* [Peering -> Seq(message)] under way from a to b
  tick,       \* of the refresh period
  due,        \* bridges that refresh in this tick and have not yet
  stamp,      \* [Bridge -> Nat] announcements made: the timestamp of the next
  calm,       \* history: [Bridge -> BOOLEAN] announced since, undisturbed
  left        \* what the plan still allows

vars == <<directory, seen, endpoint, alive, up, net, tick, due, stamp, calm, left>>

Announce == [type : {"announce"}, from : Bridge, endpoint : Nat, stamp : Nat]

Seen(place) == [endpoint |-> place, age |-> 0]
Quiet == \A l \in Peering : net[l] = <<>>

Refreshers(phase, t) == {b \in Bridge : phase[b] = t}

Init ==
  /\ \E p \in Plans :
       /\ left = p /\ alive = p.present /\ due = Refreshers(p.phase, 0) \cap p.present
  /\ endpoint = [b \in Bridge |-> 0]
  /\ up = {l \in Peering : l[1] \in alive /\ l[2] \in alive}
  \* connected bridges have entered each other when they shook hands
  /\ directory = [b \in Bridge |-> [q \in Bridge |->
                    IF <<b, q>> \in up THEN Seen(0) ELSE None]]
  /\ seen = [b \in Bridge |-> {}]
  /\ net = [l \in Peering |-> <<>>]
  /\ tick = 0
  /\ stamp = [b \in Bridge |-> 0]
  /\ calm = [b \in Bridge |-> FALSE]

------------------------------------------------------------------------------
\* PeerManager.broadcast(m, except).
Broadcast(queues, b, m, except) ==
  [l \in Peering |-> IF l[1] = b /\ l \in up /\ l[2] # except
                     THEN Append(queues[l], m) ELSE queues[l]]

\* _broadcastAnnounce, at the start and every announce interval.
BroadcastAnnounce(b) ==
  /\ b \in alive /\ left.announces[b] > 0
  /\ left' = [left EXCEPT !.announces[b] = @ - 1]
  /\ stamp' = [stamp EXCEPT ![b] = @ + 1]
  /\ seen' = [seen EXCEPT ![b] = @ \cup {<<b, stamp[b]>>}]
  /\ net' = Broadcast(net, b, [type |-> "announce", from |-> b,
                               endpoint |-> endpoint[b], stamp |-> stamp[b]], b)
  /\ calm' = [calm EXCEPT ![b] = Quiet]
  /\ UNCHANGED <<directory, endpoint, alive, up, tick, due>>

Arrives(a, b, type) == net[<<a, b>>] # <<>> /\ Head(net[<<a, b>>]).type = type
Consumed(a, b) == [net EXCEPT ![<<a, b>>] = Tail(@)]

\* Mutant: only announcements of unknown bridges are passed on.
PassesOnNew(b, m) == directory[b][m.from] = None

News(b, m)      == <<m.from, m.stamp>> \notin seen[b] /\ m.from # b
Processed(b, m) == {<<m.from, m.stamp>>}
PassesOn(b, m)  == TRUE

OnAnnounce(a, b) ==
  /\ Arrives(a, b, "announce")
  /\ LET m == Head(net[<<a, b>>])
     IN  /\ seen' = [seen EXCEPT ![b] = @ \cup Processed(b, m)]
         /\ directory' = IF News(b, m) THEN [directory EXCEPT ![b][m.from] = Seen(m.endpoint)]
                         ELSE directory
         /\ net' = IF News(b, m) /\ PassesOn(b, m) THEN Broadcast(Consumed(a, b), b, m, a)
                   ELSE Consumed(a, b)
  /\ UNCHANGED <<endpoint, alive, up, tick, due, stamp, calm, left>>

\* Mutant: entries are given away however old they are.
FreshForever(b) == {q \in Bridge : directory[b][q] # None}

\* getDirectory: the entries that are not too old.
Fresh(b) == {q \in Bridge : directory[b][q] # None /\ directory[b][q].age < MaxAge}

OnGetPeers(a, b) ==
  /\ Arrives(a, b, "getpeers")
  /\ LET told == Fresh(b) \ {a}
     IN  net' = [Consumed(a, b) EXCEPT ![<<b, a>>] = Append(@,
                   [type |-> "peers", peers |-> [q \in told |-> directory[b][q].endpoint]])]
  /\ UNCHANGED <<directory, seen, endpoint, alive, up, tick, due, stamp, calm, left>>

\* Every bridge listed but the reader is entered as seen now.
OnPeers(a, b) ==
  /\ Arrives(a, b, "peers")
  /\ LET peers == Head(net[<<a, b>>]).peers
     IN  directory' = [directory EXCEPT ![b] = [q \in Bridge |->
                         IF q \in DOMAIN peers \ {b} THEN Seen(peers[q]) ELSE @[q]]]
  /\ net' = Consumed(a, b)
  /\ UNCHANGED <<seen, endpoint, alive, up, tick, due, stamp, calm, left>>

\* requestPeersFromAll, on the refresh timer.
RequestPeersFromAll(b) ==
  /\ b \in alive \cap due
  /\ due' = due \ {b}
  /\ net' = Broadcast(net, b, [type |-> "getpeers"], b)
  /\ calm' = [q \in Bridge |-> FALSE]
  /\ UNCHANGED <<directory, seen, endpoint, alive, up, tick, stamp, left>>

------------------------------------------------------------------------------
\* All connections of b and what is under way on them are gone.
CutOff(b) ==
  /\ up' = {l \in up : b \notin {l[1], l[2]}}
  /\ net' = [l \in Peering |-> IF b \in {l[1], l[2]} THEN <<>> ELSE net[l]]
  /\ calm' = [q \in Bridge |-> FALSE]

\* A bridge restarts elsewhere, with an empty directory and dedup set.
Move(b) ==
  /\ b \in alive \cap left.movers
  /\ left' = [left EXCEPT !.movers = @ \ {b}]
  /\ CutOff(b)
  /\ endpoint' = [endpoint EXCEPT ![b] = @ + 1]
  /\ directory' = [directory EXCEPT ![b] = [q \in Bridge |-> None]]
  /\ seen' = [seen EXCEPT ![b] = {}]
  /\ UNCHANGED <<alive, tick, due, stamp>>

\* A bridge stops for good.
Leave(b) ==
  /\ b \in alive \cap left.leavers
  /\ left' = [left EXCEPT !.leavers = @ \ {b}]
  /\ CutOff(b)
  /\ alive' = alive \ {b}
  /\ due' = due \ {b}
  /\ UNCHANGED <<directory, seen, endpoint, tick, stamp>>

\* updatePeerEndpoint at b: if the endpoint of q is news, tell all peers but q.
Update(queues, b, q) ==
  IF directory[b][q] = None \/ directory[b][q].endpoint # endpoint[q]
  THEN [l \in Peering |-> IF l[1] = b /\ l[2] # q /\ l \in up
          THEN Append(queues[l], [type |-> "peers", peers |-> [r \in {q} |-> endpoint[q]]])
          ELSE queues[l]]
  ELSE queues

\* The handshake of a and b is complete on both sides: peer:connect.
Handshake(a, b) ==
  /\ <<a, b>> \in Peering \ up /\ a \in alive /\ b \in alive
  /\ up' = up \cup {<<a, b>>, <<b, a>>}
  /\ directory' = [directory EXCEPT ![a][b] = Seen(endpoint[b]), ![b][a] = Seen(endpoint[a])]
  /\ net' = Update(Update(net, a, b), b, a)
  /\ calm' = [q \in Bridge |-> FALSE]
  /\ UNCHANGED <<seen, endpoint, alive, tick, due, stamp, left>>

\* Time passes when what was sent has arrived and every timer that is due has fired.
Tick ==
  /\ Quiet /\ due = {}
  /\ \A l \in Peering : l[1] \in alive /\ l[2] \in alive => l \in up
  /\ tick' = (tick + 1) % RefreshEvery
  /\ due' = Refreshers(left.phase, tick') \cap alive
  /\ directory' = [b \in Bridge |-> [q \in Bridge |->
                     IF directory[b][q] = None THEN None
                     ELSE [directory[b][q] EXCEPT !.age = IF @ < MaxAge THEN @ + 1 ELSE @]]]
  /\ UNCHANGED <<seen, endpoint, alive, up, net, stamp, calm, left>>

Handle(a, b) == OnAnnounce(a, b) \/ OnGetPeers(a, b) \/ OnPeers(a, b)

Next ==
  \/ \E b \in Bridge : BroadcastAnnounce(b)
  \/ \E l \in Peering : OnAnnounce(l[1], l[2])
  \/ \E l \in Peering : OnGetPeers(l[1], l[2])
  \/ \E l \in Peering : OnPeers(l[1], l[2])
  \/ \E b \in Bridge : RequestPeersFromAll(b)
  \/ \E b \in Bridge : Move(b)
  \/ \E b \in Bridge : Leave(b)
  \/ \E l \in Peering : Handshake(l[1], l[2])
  \/ Tick

Spec == Init /\ [][Next]_vars

\* Some bridge handles what arrives, timers fire, connections come back, time passes.
FairSpec ==
  /\ Spec
  /\ WF_vars(\E l \in Peering : Handle(l[1], l[2]))
  /\ WF_vars(\E b \in Bridge : RequestPeersFromAll(b))
  /\ WF_vars(\E l \in Peering : Handshake(l[1], l[2]))
  /\ WF_vars(Tick)
------------------------------------------------------------------------------
(* Properties.                                                             *)

Endpoints == Nat
Entry == [endpoint : Endpoints, age : 0 .. MaxAge]

\* The types; a bridge never enters itself, and what is entered for another is an
\* endpoint that bridge has or had.
TypeOK ==
  /\ \A b, q \in Bridge :
       \/ directory[b][q] = None
       \/ directory[b][q] \in Entry /\ b # q /\ directory[b][q].endpoint <= endpoint[q]
  /\ endpoint \in [Bridge -> Nat] /\ stamp \in [Bridge -> Nat]
  /\ \A b \in Bridge : \A s \in seen[b] : s[1] \in Bridge /\ s[2] < stamp[s[1]]
  /\ alive \subseteq Bridge /\ due \subseteq alive
  /\ up \subseteq {l \in Peering : l[1] \in alive /\ l[2] \in alive}
  /\ \A l \in Peering : \A i \in 1 .. Len(net[l]) :
       net[l][i] \in Announce \/ net[l][i].type \in {"getpeers", "peers"}
  /\ tick \in 0 .. RefreshEvery - 1 /\ calm \in [Bridge -> BOOLEAN] /\ left \in Plan

\* The bridges a chain of connections leads to: the least set that no connection leaves.
Reached(b) ==
  {q \in Bridge : \A S \in SUBSET Bridge :
     b \in S /\ (\A l \in up : l[1] \in S => l[2] \in S) => q \in S}

\* "Self-healing when a peer changes IP" (lib/gossip.js:138): an announcement that
\* meets no other gossip sets every directory it can reach right, whichever old
\* endpoint was entered there.
HealsByAnnouncement ==
  \A b \in Bridge : Quiet /\ calm[b] =>
    \A q \in Reached(b) \ {b} :
      directory[q][b] # None /\ directory[q][b].endpoint = endpoint[b]

\* Directories hold endpoints that bridges have or had, and are healed.
DirectoriesConsistent == TypeOK /\ HealsByAnnouncement

\* Somewhere in the refresh period an entry grows too old between two refreshes.
Lull ==
  \E t \in 0 .. RefreshEvery - 1 :
    \A i \in 1 .. MaxAge - 1 : Refreshers(left.phase, (t + i) % RefreshEvery) = {}

\* A bridge that has left is no longer given away in the end, if the refreshes of
\* the others leave a lull: hearsay counts as seen now and would keep it otherwise.
GoneExpires ==
  \A q \in Bridge :
    (q \notin alive /\ Lull) ~> [](\A b \in alive : q \notin Fresh(b))
==============================================================================
