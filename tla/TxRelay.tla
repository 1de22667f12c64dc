------------------------------- MODULE TxRelay -------------------------------
(***************************************************************************)
(* Transaction relay between bridges (packages/bridge/lib/tx-relay.js).    *)
(*                                                                         *)
(* A bridge that stores a transaction announces its txid to every peer; a  *)
(* peer that has not seen the txid requests the body; the body is stored   *)
(* and announced further.  Every announce carries the origin of the        *)
(* transaction: "broadcast" is a federation write, "p2p-relay" is chatter  *)
(* of the global mempool that a bridge observed on the BSV network.  A     *)
(* bridge in selective-fetch mode downloads only announced writes.         *)
(*                                                                         *)
(* Each handler of the code runs to completion on one event loop, so each  *)
(* is one action.  A WebSocket between two bridges is a pair of FIFO       *)
(* queues that may break at any time and come back empty.                  *)
(***************************************************************************)
EXTENDS Integers, Sequences, Functions

CONSTANTS
  Bridge,        \* bridges of the mesh
  Tx,            \* transactions
  Peering,       \* symmetric set of <<a, b>>: a and b have each other as peers
  Selective,     \* bridges with selectiveFetch on
  MaxMempool,    \* caps of the four insertion-ordered caches
  MaxSeen,
  MaxTxOrigins,
  MaxRequested,
  Clients,       \* <<b, t>>: some client may submit t to bridge b
  Observed,      \* <<b, t>>: t may reach bridge b from the BSV network
  MaxDrops       \* bound: connection breaks considered

ASSUME PeeringAssumption ==
  /\ Peering \subseteq Bridge \X Bridge
  /\ \A l \in Peering : l[1] # l[2] /\ <<l[2], l[1]>> \in Peering
ASSUME SelectiveAssumption == Selective \subseteq Bridge
ASSUME CapAssumption ==
  /\ MaxMempool \in Nat \ {0}
  /\ MaxSeen \in Nat \ {0}
  /\ MaxTxOrigins \in Nat \ {0}
  /\ MaxRequested \in Nat \ {0}
ASSUME InputAssumption ==
  /\ Clients \subseteq Bridge \X Tx
  /\ Observed \subseteq Bridge \X Tx
  /\ MaxDrops \in Nat

Tag == {"broadcast", "p2p-relay", "untagged"}  \* what txOrigins may record
Absent == "absent"                             \* no origin field, no map entry

Message ==
  [type : {"tx_announce", "tx"}, txid : Tx, origin : Tag \cup {Absent}]
    \cup [type : {"tx_request"}, txid : Tx]

VARIABLES
  mempool,       \* [Bridge -> Seq(Tx)] txids whose body is held, oldest first
  seen,          \* [Bridge -> Seq(Tx)] txids already seen, oldest first
  originOrder,   \* [Bridge -> Seq(Tx)] keys of txOrigins, oldest first
  txOrigins,     \* [Bridge -> [Tx -> Tag \cup {Absent}]]
  requested,     \* [Bridge -> Seq(Tx)] txids a tx_request was decided for
  net,           \* [Peering -> Seq(Message)] messages under way
  down,          \* the links of Peering that are broken
  drops,         \* number of breaks so far
  written,       \* <<b, t>> for which broadcastTx was called as a write
  observed       \* <<b, t>> received as chatter from the BSV network

caches == <<mempool, seen, originOrder, txOrigins, requested>>
links  == <<down, drops>>
inputs == <<written, observed>>
vars   == <<caches, net, links, inputs>>

------------------------------------------------------------------------------
(* Insertion-ordered maps and sets, as JavaScript keeps them.              *)

Has(cache, t) == t \in Range(cache)

\* Map.set / Set.add: a key that is present keeps its place.
Insert(cache, t) == IF Has(cache, t) THEN cache ELSE Append(cache, t)

\* "at capacity, delete the oldest entry"
Evict(cache, cap) == IF Len(cache) >= cap THEN Tail(cache) ELSE cache

\* _trackSeen leaves the set alone when the txid is in it.
TrackSeen(cache, t) ==
  IF Has(cache, t) THEN cache ELSE Append(Evict(cache, MaxSeen), t)

\* Mutant: the mempool never evicts.
StoreTxUncapped(cache, t) == Insert(cache, t)

\* _storeTx and _trackRequested evict before they look whether t is in.
StoreTx(cache, t) == Insert(Evict(cache, MaxMempool), t)
TrackRequested(cache, t) == Insert(Evict(cache, MaxRequested), t)

\* _trackOrigin: nothing without an origin; at capacity the oldest entry goes,
\* even when the call only updates an entry; the new origin overwrites.
TrackOrigin(b, t, origin) ==
  IF origin = Absent
  THEN UNCHANGED <<originOrder, txOrigins>>
  ELSE LET order == Insert(Evict(originOrder[b], MaxTxOrigins), t)
       IN  /\ originOrder' = [originOrder EXCEPT ![b] = order]
           /\ txOrigins' = [txOrigins EXCEPT ![b] =
                [u \in Tx |-> IF u = t THEN origin
                              ELSE IF Has(order, u) THEN @[u] ELSE Absent]]

------------------------------------------------------------------------------
(* Sending.  conn.send drops the message unless the socket is open.        *)

Announce(t, origin) == [type |-> "tx_announce", txid |-> t, origin |-> origin]
Request(t)          == [type |-> "tx_request", txid |-> t]
Body(t, origin)     == [type |-> "tx", txid |-> t, origin |-> origin]

\* PeerManager.broadcast to every peer of b but those in except.
Broadcast(queues, b, except, m) ==
  [l \in Peering |-> IF l[1] = b /\ l[2] \notin except /\ l \notin down
                     THEN Append(queues[l], m) ELSE queues[l]]

Send(queues, b, to, m) ==
  IF <<b, to>> \in down THEN queues
  ELSE [queues EXCEPT ![<<b, to>>] = Append(@, m)]

\* The queues after b consumed the first message from a.
Consumed(a, b) == [net EXCEPT ![<<a, b>>] = Tail(@)]

------------------------------------------------------------------------------
Init ==
  /\ mempool = [b \in Bridge |-> <<>>]
  /\ seen = [b \in Bridge |-> <<>>]
  /\ originOrder = [b \in Bridge |-> <<>>]
  /\ txOrigins = [b \in Bridge |-> [t \in Tx |-> Absent]]
  /\ requested = [b \in Bridge |-> <<>>]
  /\ net = [l \in Peering |-> <<>>]
  /\ down = {}
  /\ drops = 0
  /\ written = {}
  /\ observed = {}

\* broadcastTx(txid, rawHex, origin): a txid already seen is left alone.
BroadcastTx(b, t, origin) ==
  IF Has(seen[b], t)
  THEN UNCHANGED <<caches, net>>
  ELSE /\ seen' = [seen EXCEPT ![b] = TrackSeen(@, t)]
       /\ mempool' = [mempool EXCEPT ![b] = StoreTx(@, t)]
       /\ TrackOrigin(b, t, origin)
       /\ net' = Broadcast(net, b, {}, Announce(t, origin))
       /\ UNCHANGED requested

\* A client posts t to bridge b (POST /broadcast): a federation write.
SubmitWrite(b, t) ==
  /\ <<b, t>> \in Clients \ written
  /\ written' = written \cup {<<b, t>>}
  /\ BroadcastTx(b, t, "broadcast")
  /\ UNCHANGED <<links, observed>>

\* A BSV node sends t to bridge b, which relays it unless seen.
ObserveP2P(b, t) ==
  /\ <<b, t>> \in Observed \ observed
  /\ observed' = observed \cup {<<b, t>>}
  /\ BroadcastTx(b, t, "p2p-relay")
  /\ UNCHANGED <<links, written>>

\* Mutant: an invs-only bridge fetches whatever is announced.
WantsAnyTag(b, t, tag) ==
  ~Has(mempool[b], t)
    /\ IF b \in Selective THEN ~Has(requested[b], t) ELSE ~Has(seen[b], t)

\* Mutant: nothing bounds the requests of an invs-only bridge.
WantsAgain(b, t, tag) ==
  ~Has(mempool[b], t)
    /\ IF b \in Selective THEN tag = "broadcast" ELSE ~Has(seen[b], t)

\* Mutant: the txid is tracked as seen before it is tested.
WantsTooLate(b, t, tag) ==
  ~Has(mempool[b], t) /\ b \in Selective /\ tag = "broadcast" /\ ~Has(requested[b], t)

\* Mutant: the seen-dedup also decides for an invs-only bridge.
WantsUnseen(b, t, tag) ==
  ~Has(mempool[b], t) /\ ~Has(seen[b], t) /\ (b \in Selective => tag = "broadcast")

\* _onTxAnnounce: whether b asks for the body of t after an announce with this tag.
Wants(b, t, tag) ==
  /\ ~Has(mempool[b], t)
  /\ IF b \in Selective
     THEN tag = "broadcast" /\ ~Has(requested[b], t)
     ELSE ~Has(seen[b], t)

OnTxAnnounce(a, b) ==
  /\ net[<<a, b>>] # <<>>
  /\ LET m   == Head(net[<<a, b>>])
         tag == IF m.origin = Absent THEN "untagged" ELSE m.origin
     IN  /\ m.type = "tx_announce"
         /\ TrackOrigin(b, m.txid, tag)
         /\ seen' = [seen EXCEPT ![b] = TrackSeen(@, m.txid)]
         /\ IF Wants(b, m.txid, tag)
            THEN /\ requested' = [requested EXCEPT ![b] = TrackRequested(@, m.txid)]
                 /\ net' = Send(Consumed(a, b), b, a, Request(m.txid))
            ELSE /\ net' = Consumed(a, b)
                 /\ UNCHANGED requested
  /\ UNCHANGED <<mempool, links, inputs>>

OnTxRequest(a, b) ==
  /\ net[<<a, b>>] # <<>>
  /\ LET m == Head(net[<<a, b>>])
     IN  /\ m.type = "tx_request"
         /\ net' = IF Has(mempool[b], m.txid)
                   THEN Send(Consumed(a, b), b, a, Body(m.txid, txOrigins[b][m.txid]))
                   ELSE Consumed(a, b)
  /\ UNCHANGED <<caches, links, inputs>>

\* Mutant: an unknown origin is taken for a write.
ReannounceAsWrite(origin) ==
  IF origin \in {"untagged", Absent} THEN "broadcast" ELSE origin

\* The origin field of a re-announce: only a known origin is named.
ReannounceOrigin(origin) == IF origin = "untagged" THEN Absent ELSE origin

OnTx(a, b) ==
  /\ net[<<a, b>>] # <<>>
  /\ LET m      == Head(net[<<a, b>>])
         origin == IF m.origin = Absent THEN txOrigins[b][m.txid] ELSE m.origin
     IN  /\ m.type = "tx"
         /\ IF Has(mempool[b], m.txid)
            THEN /\ net' = Consumed(a, b)
                 /\ UNCHANGED <<mempool, originOrder, txOrigins>>
            ELSE /\ mempool' = [mempool EXCEPT ![b] = StoreTx(@, m.txid)]
                 /\ TrackOrigin(b, m.txid, origin)
                 /\ net' = Broadcast(Consumed(a, b), b, {a},
                                     Announce(m.txid, ReannounceOrigin(origin)))
  /\ UNCHANGED <<seen, requested, links, inputs>>

\* The connection of a and b breaks.  What was already received is still
\* handled; the rest of both queues is lost, and nothing more can be sent.
Drop(a, b) ==
  /\ drops < MaxDrops
  /\ <<a, b>> \notin down
  /\ drops' = drops + 1
  /\ down' = down \cup {<<a, b>>, <<b, a>>}
  /\ \E i \in 0 .. Len(net[<<a, b>>]), j \in 0 .. Len(net[<<b, a>>]) :
       net' = [net EXCEPT ![<<a, b>>] = SubSeq(@, 1, i),
                          ![<<b, a>>] = SubSeq(@, 1, j)]
  /\ UNCHANGED <<caches, inputs>>

\* The link is dialled again and starts with empty queues.
Reconnect(a, b) ==
  /\ <<a, b>> \in down
  /\ net[<<a, b>>] = <<>> /\ net[<<b, a>>] = <<>>
  /\ down' = down \ {<<a, b>>, <<b, a>>}
  /\ UNCHANGED <<caches, net, drops, inputs>>

Receive(a, b) == OnTxAnnounce(a, b) \/ OnTxRequest(a, b) \/ OnTx(a, b)

Next ==
  \/ \E b \in Bridge, t \in Tx : SubmitWrite(b, t)
  \/ \E b \in Bridge, t \in Tx : ObserveP2P(b, t)
  \/ \E l \in Peering : OnTxAnnounce(l[1], l[2])
  \/ \E l \in Peering : OnTxRequest(l[1], l[2])
  \/ \E l \in Peering : OnTx(l[1], l[2])
  \/ \E l \in Peering : Drop(l[1], l[2])
  \/ \E l \in Peering : Reconnect(l[1], l[2])

Spec == Init /\ [][Next]_vars

\* The event loop of a bridge gets to every message that has arrived.
FairSpec == Spec /\ \A l \in Peering : WF_vars(Receive(l[1], l[2]))
------------------------------------------------------------------------------
(* Properties.                                                             *)

\* The types: in particular the four caches keep to their caps, and no message or
\* recorded origin is one the protocol does not have.
TypeOK ==
  /\ mempool \in [Bridge -> Seq(Tx)]
  /\ seen \in [Bridge -> Seq(Tx)]
  /\ originOrder \in [Bridge -> Seq(Tx)]
  /\ requested \in [Bridge -> Seq(Tx)]
  /\ \A b \in Bridge : /\ Len(mempool[b]) <= MaxMempool
                       /\ Len(seen[b]) <= MaxSeen
                       /\ Len(originOrder[b]) <= MaxTxOrigins
                       /\ Len(requested[b]) <= MaxRequested
  /\ txOrigins \in [Bridge -> [Tx -> Tag \cup {Absent}]]
  /\ net \in [Peering -> Seq(Message)]
  /\ down \subseteq Peering
  /\ drops \in Nat
  /\ written \subseteq Bridge \X Tx
  /\ observed \subseteq Bridge \X Tx

IsWrite(t)   == \E b \in Bridge : <<b, t>> \in written
IsChatter(t) == \E b \in Bridge : <<b, t>> \in observed

\* "Never upgrade chatter to 'broadcast'" (tx-relay.js:274): through any number
\* of hops, fallbacks and evictions, no message and no txOrigins entry calls a
\* transaction a federation write unless some bridge was asked to write it.
ChatterNeverUpgraded ==
  /\ \A b \in Bridge, t \in Tx : txOrigins[b][t] = "broadcast" => IsWrite(t)
  /\ \A l \in Peering : \A i \in 1 .. Len(net[l]) :
       net[l][i].type # "tx_request" /\ net[l][i].origin = "broadcast"
         => IsWrite(net[l][i].txid)

\* One self-sufficient member cannot re-import the global mempool into an
\* invs-only bridge (tx-relay.js:48): the bodies such a bridge holds are
\* federation writes or what its own BSV peers sent it.
SelectiveHoldsNoChatter ==
  \A b \in Selective, t \in Tx :
    Has(mempool[b], t) => IsWrite(t) \/ <<b, t>> \in observed

\* Indices of the messages of queue l about t of this type.
About(l, type, t) ==
  {i \in 1 .. Len(net[l]) : net[l][i].type = type /\ net[l][i].txid = t}

\* While no cache overflows, a body is fetched once (tx-relay.js:57): for every
\* bridge and transaction there is at most one request or body under way, and
\* none once the body is held.
OneFetchPerTx ==
  \A b \in Bridge, t \in Tx :
    LET sent     == {l \in Peering : l[1] = b}
        received == {l \in Peering : l[2] = b}
        underWay == (UNION {{l} \X About(l, "tx_request", t) : l \in sent})
                      \cup (UNION {{l} \X About(l, "tx", t) : l \in received})
    IN  /\ \A x, y \in underWay : x = y
        /\ Has(mempool[b], t) => underWay = {}

\* In a mesh that loses nothing, whatever a bridge relays, write or chatter, all
\* self-sufficient bridges come to hold, as long as they are connected among
\* themselves: what passes an invs-only bridge may stop there.
RelayedReachesClassic ==
  \A t \in Tx : (IsWrite(t) \/ IsChatter(t))
                 ~> \A b \in Bridge \ Selective : Has(mempool[b], t)

\* In a mixed mesh that loses nothing, a write that no bridge has also observed
\* as chatter reaches every bridge, the invs-only ones included.
PureWriteReachesAll ==
  \A t \in Tx : IsWrite(t) ~> (IsChatter(t) \/ \A b \in Bridge : Has(mempool[b], t))

\* The rescue (tx-relay.js:228): a 'broadcast' announce that reaches an invs-only
\* bridge leads to the body, also when the txid was first seen as chatter.
AnnouncedWriteIsFetched ==
  \A l \in Peering, t \in Tx :
    l[2] \in Selective /\ (\E i \in 1 .. Len(net[l]) : net[l][i] = Announce(t, "broadcast"))
      ~> Has(mempool[l[2]], t)

\* A write reaches the bridges that fetch nothing else, alone or after chatter.
WritesReachAll == PureWriteReachesAll /\ AnnouncedWriteIsFetched
==============================================================================
