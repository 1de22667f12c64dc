---------------------------- MODULE TxRelayProofs ----------------------------
(***************************************************************************)
(* Proofs about TxRelay: the caches keep to their caps, chatter is never   *)
(* upgraded to a federation write, and an invs-only bridge never holds     *)
(* chatter of other bridges.  The last two follow from one invariant about *)
(* the messages under way, TxInv.  While no cache overflows, a body is     *)
(* fetched once: that follows from FetchInv.                               *)
(***************************************************************************)
EXTENDS TxRelay, SequenceTheorems, FiniteSetTheorems, TLAPS

\* The transactions some bridge was asked to write.
Writes == {t \in Tx : IsWrite(t)}

\* What a message m on link l may be when W are the writes: its origin is not
\* upgraded, an invs-only bridge asks for writes only, and only for what it
\* asked does it receive a body.
Good(l, m, W) ==
  /\ m.type # "tx_request" /\ m.origin = "broadcast" => m.txid \in W
  /\ m.type = "tx_request" /\ l[1] \in Selective => m.txid \in W
  /\ m.type = "tx" /\ l[2] \in Selective => m.txid \in W

GoodQueues(queues, W) ==
  /\ queues \in [Peering -> Seq(Message)]
  /\ \A l \in Peering : \A i \in 1 .. Len(queues[l]) : Good(l, queues[l][i], W)

OriginsNotUpgraded ==
  \A b \in Bridge, t \in Tx : txOrigins[b][t] = "broadcast" => t \in Writes

\* The inductive invariant.
TxInv ==
  /\ TypeOK
  /\ GoodQueues(net, Writes)
  /\ OriginsNotUpgraded
  /\ SelectiveHoldsNoChatter

------------------------------------------------------------------------------
(* Sequences.                                                              *)

\* Removing the oldest entry of a cache at capacity makes room for one.
LEMMA EvictFacts ==
  ASSUME NEW s \in Seq(Tx), NEW cap \in Nat \ {0}, Len(s) <= cap
  PROVE  /\ Evict(s, cap) \in Seq(Tx)
         /\ Len(Evict(s, cap)) < cap
         /\ \A u : Has(Evict(s, cap), u) => Has(s, u)
<1>1. CASE Len(s) >= cap
  <2>1. s # <<>> /\ Evict(s, cap) = Tail(s)
    BY <1>1 DEF Evict
  <2>2. /\ Tail(s) \in Seq(Tx)
        /\ Len(Tail(s)) = Len(s) - 1
        /\ \A i \in 1 .. Len(Tail(s)) : i + 1 \in 1 .. Len(s) /\ Tail(s)[i] = s[i + 1]
    BY <2>1
  <2>3. \A u : Has(Tail(s), u) => Has(s, u)
    BY <2>2 DEF Has, Range
  <2> QED
    BY <2>1, <2>2, <2>3
<1>2. CASE Len(s) < cap
  BY <1>2 DEF Evict
<1> QED
  BY <1>1, <1>2

\* Appending adds the new entry and nothing else.
LEMMA AppendFacts ==
  ASSUME NEW s \in Seq(Tx), NEW t \in Tx
  PROVE  /\ Append(s, t) \in Seq(Tx)
         /\ Len(Append(s, t)) = Len(s) + 1
         /\ \A u : Has(Append(s, t), u) => Has(s, u) \/ u = t
<1>1. /\ Append(s, t) \in Seq(Tx)
      /\ Len(Append(s, t)) = Len(s) + 1
      /\ \A i \in 1 .. Len(s) : Append(s, t)[i] = s[i]
      /\ Append(s, t)[Len(s) + 1] = t
  OBVIOUS
<1>2. \A i \in 1 .. Len(s) + 1 : i \in 1 .. Len(s) \/ i = Len(s) + 1
  OBVIOUS
<1> QED
  BY <1>1, <1>2 DEF Has, Range

\* Setting a key in a cache with room adds at most that key.
LEMMA InsertIntoFacts ==
  ASSUME NEW s \in Seq(Tx), NEW t \in Tx, NEW cap \in Nat, Len(s) < cap
  PROVE  /\ Insert(s, t) \in Seq(Tx)
         /\ Len(Insert(s, t)) <= cap
         /\ \A u : Has(Insert(s, t), u) => Has(s, u) \/ u = t
<1>1. CASE Has(s, t)
  BY <1>1 DEF Insert
<1>2. CASE ~Has(s, t)
  BY <1>2, AppendFacts DEF Insert
<1> QED
  BY <1>1, <1>2

\* A capped insertion stays within the cap and brings in at most the new entry.
LEMMA InsertFacts ==
  ASSUME NEW s \in Seq(Tx), NEW t \in Tx, NEW cap \in Nat \ {0}, Len(s) <= cap
  PROVE  /\ Insert(Evict(s, cap), t) \in Seq(Tx)
         /\ Len(Insert(Evict(s, cap), t)) <= cap
         /\ \A u : Has(Insert(Evict(s, cap), t), u) => Has(s, u) \/ u = t
BY EvictFacts, InsertIntoFacts

\* _storeTx keeps the mempool within its cap and adds at most the stored txid.
LEMMA StoreTxFacts ==
  ASSUME NEW s \in Seq(Tx), NEW t \in Tx, Len(s) <= MaxMempool
  PROVE  /\ StoreTx(s, t) \in Seq(Tx)
         /\ Len(StoreTx(s, t)) <= MaxMempool
         /\ \A u : Has(StoreTx(s, t), u) => Has(s, u) \/ u = t
BY InsertFacts, CapAssumption DEF StoreTx

\* _trackRequested keeps its set within the cap.
LEMMA TrackRequestedFacts ==
  ASSUME NEW s \in Seq(Tx), NEW t \in Tx, Len(s) <= MaxRequested
  PROVE  /\ TrackRequested(s, t) \in Seq(Tx)
         /\ Len(TrackRequested(s, t)) <= MaxRequested
BY InsertFacts, CapAssumption DEF TrackRequested

\* _trackSeen keeps its set within the cap.
LEMMA TrackSeenFacts ==
  ASSUME NEW s \in Seq(Tx), NEW t \in Tx, Len(s) <= MaxSeen
  PROVE  /\ TrackSeen(s, t) \in Seq(Tx)
         /\ Len(TrackSeen(s, t)) <= MaxSeen
<1> DEFINE e == Evict(s, MaxSeen)
<1>1. e \in Seq(Tx) /\ Len(e) < MaxSeen
  BY EvictFacts, CapAssumption
<1>2. Append(e, t) \in Seq(Tx) /\ Len(Append(e, t)) = Len(e) + 1
  BY <1>1, AppendFacts
<1> QED
  BY <1>1, <1>2, CapAssumption DEF TrackSeen

------------------------------------------------------------------------------
(* Messages and queues.                                                    *)

\* The three messages a bridge builds are messages, and a message has its fields.
LEMMA MessageFacts ==
  /\ \A t \in Tx, o \in Tag \cup {Absent} : Announce(t, o) \in Message
  /\ \A t \in Tx, o \in Tag \cup {Absent} : Body(t, o) \in Message
  /\ \A t \in Tx : Request(t) \in Message
  /\ \A m \in Message : m.txid \in Tx
  /\ \A m \in Message : m.type \in {"tx_announce", "tx"} => m.origin \in Tag \cup {Absent}
BY DEF Message, Announce, Body, Request

\* A queue stays good when a good message is appended.
LEMMA AppendGood ==
  ASSUME NEW l, NEW W, NEW s \in Seq(Message), NEW m \in Message, Good(l, m, W),
         \A i \in 1 .. Len(s) : Good(l, s[i], W)
  PROVE  /\ Append(s, m) \in Seq(Message)
         /\ \A i \in 1 .. Len(Append(s, m)) : Good(l, Append(s, m)[i], W)
<1>1. /\ Append(s, m) \in Seq(Message)
      /\ Len(Append(s, m)) = Len(s) + 1
      /\ \A i \in 1 .. Len(s) : Append(s, m)[i] = s[i]
      /\ Append(s, m)[Len(s) + 1] = m
  OBVIOUS
<1>2. \A i \in 1 .. Len(s) + 1 : i \in 1 .. Len(s) \/ i = Len(s) + 1
  OBVIOUS
<1>3. ASSUME NEW i \in 1 .. Len(Append(s, m))
      PROVE  Good(l, Append(s, m)[i], W)
  <2>1. CASE i \in 1 .. Len(s)
    BY <1>1, <2>1
  <2>2. CASE i = Len(s) + 1
    BY <1>1, <2>2
  <2> QED
    BY <1>1, <1>2, <2>1, <2>2
<1> QED
  BY <1>1, <1>3

\* What is sent to one peer or to all keeps the queues good if the message is.
LEMMA SendGood ==
  ASSUME NEW queues, NEW W, GoodQueues(queues, W), NEW b, NEW to,
         <<b, to>> \in Peering, NEW m \in Message, Good(<<b, to>>, m, W)
  PROVE  GoodQueues(Send(queues, b, to, m), W)
<1> DEFINE l == <<b, to>>
           s == Append(queues[l], m)
<1>1. s \in Seq(Message) /\ \A i \in 1 .. Len(s) : Good(l, s[i], W)
  BY AppendGood DEF GoodQueues
<1> HIDE DEF s
<1>2. GoodQueues([queues EXCEPT ![l] = s], W)
  BY <1>1 DEF GoodQueues
<1> QED
  BY <1>2 DEF Send, s

\* A broadcast of a message good for every link of the sender keeps queues good.
LEMMA BroadcastGood ==
  ASSUME NEW queues, NEW W, GoodQueues(queues, W), NEW b, NEW except, NEW m \in Message,
         \A l \in Peering : l[1] = b => Good(l, m, W)
  PROVE  GoodQueues(Broadcast(queues, b, except, m), W)
<1> DEFINE q == Broadcast(queues, b, except, m)
<1>1. ASSUME NEW l \in Peering
      PROVE  q[l] \in Seq(Message) /\ \A i \in 1 .. Len(q[l]) : Good(l, q[l][i], W)
  <2>0. /\ queues[l] \in Seq(Message)
        /\ \A i \in 1 .. Len(queues[l]) : Good(l, queues[l][i], W)
    BY DEF GoodQueues
  <2>1. CASE l[1] = b /\ l[2] \notin except /\ l \notin down
    <3>1. q[l] = Append(queues[l], m)
      BY <2>1 DEF Broadcast
    <3> QED
      BY <2>0, <2>1, <3>1, AppendGood
  <2>2. CASE ~(l[1] = b /\ l[2] \notin except /\ l \notin down)
    BY <2>0, <2>2 DEF Broadcast
  <2> QED
    BY <2>1, <2>2
<1>2. q = [l \in Peering |-> q[l]]
  BY DEF Broadcast
<1> HIDE DEF q
<1>3. q \in [Peering -> Seq(Message)]
  BY <1>1, <1>2
<1>4. GoodQueues(q, W)
  BY <1>1, <1>3 DEF GoodQueues
<1> QED
  BY <1>4 DEF q

\* The message at the head of a queue is good, and so is what is left.
LEMMA ConsumedGood ==
  ASSUME NEW W, GoodQueues(net, W), NEW a, NEW b, <<a, b>> \in Peering,
         net[<<a, b>>] # <<>>
  PROVE  /\ GoodQueues(Consumed(a, b), W)
         /\ Head(net[<<a, b>>]) \in Message
         /\ Good(<<a, b>>, Head(net[<<a, b>>]), W)
<1> DEFINE l == <<a, b>>
           s == net[l]
           r == Tail(s)
<1>1. s \in Seq(Message) /\ \A i \in 1 .. Len(s) : Good(l, s[i], W)
  BY DEF GoodQueues
<1>2. /\ Head(s) \in Message /\ Head(s) = s[1] /\ 1 \in 1 .. Len(s)
      /\ r \in Seq(Message) /\ Len(r) = Len(s) - 1
      /\ \A i \in 1 .. Len(r) : r[i] = s[i + 1] /\ i + 1 \in 1 .. Len(s)
  BY <1>1, HeadTailProperties
<1>3. \A i \in 1 .. Len(r) : Good(l, r[i], W)
  BY <1>1, <1>2
<1> HIDE DEF r
<1>4. GoodQueues([net EXCEPT ![l] = r], W)
  BY <1>2, <1>3 DEF GoodQueues
<1> QED
  BY <1>1, <1>2, <1>4 DEF Consumed, r

\* A break leaves a prefix of a queue.
LEMMA PrefixGood ==
  ASSUME NEW l, NEW W, NEW s \in Seq(Message), NEW n \in 0 .. Len(s),
         \A i \in 1 .. Len(s) : Good(l, s[i], W)
  PROVE  /\ SubSeq(s, 1, n) \in Seq(Message)
         /\ \A i \in 1 .. Len(SubSeq(s, 1, n)) : Good(l, SubSeq(s, 1, n)[i], W)
<1>1. \A i \in 1 .. n : i \in 1 .. Len(s) /\ s[i] \in Message
  OBVIOUS
<1>2. /\ SubSeq(s, 1, n) \in Seq(Message)
      /\ Len(SubSeq(s, 1, n)) = n
      /\ \A i \in 1 .. n : SubSeq(s, 1, n)[i] = s[i]
  OBVIOUS
<1> QED
  BY <1>1, <1>2

\* More federation writes make no message bad.
LEMMA MoreWritesGood ==
  ASSUME NEW queues, NEW W, NEW V, W \subseteq V, GoodQueues(queues, W)
  PROVE  GoodQueues(queues, V)
BY DEF GoodQueues, Good

------------------------------------------------------------------------------
(* The caches of a bridge.                                                 *)

\* Only the call's own transaction can become a write, and only if told so.
LEMMA TrackOriginFacts ==
  ASSUME TypeOK, NEW b \in Bridge, NEW t \in Tx, NEW origin \in Tag \cup {Absent},
         TrackOrigin(b, t, origin)
  PROVE  /\ originOrder' \in [Bridge -> Seq(Tx)]
         /\ \A c \in Bridge : Len(originOrder'[c]) <= MaxTxOrigins
         /\ txOrigins' \in [Bridge -> [Tx -> Tag \cup {Absent}]]
         /\ \A c \in Bridge, u \in Tx :
              txOrigins'[c][u] = "broadcast"
                => txOrigins[c][u] = "broadcast" \/ (u = t /\ origin = "broadcast")
<1>0. /\ originOrder \in [Bridge -> Seq(Tx)]
      /\ \A c \in Bridge : Len(originOrder[c]) <= MaxTxOrigins
      /\ txOrigins \in [Bridge -> [Tx -> Tag \cup {Absent}]]
  BY DEF TypeOK
<1>1. CASE origin = Absent
  BY <1>0, <1>1 DEF TrackOrigin
<1>2. CASE origin # Absent
  <2> DEFINE order == Insert(Evict(originOrder[b], MaxTxOrigins), t)
             entry == [u \in Tx |-> IF u = t THEN origin
                                     ELSE IF Has(order, u) THEN txOrigins[b][u] ELSE Absent]
  <2>1. order \in Seq(Tx) /\ Len(order) <= MaxTxOrigins
    BY <1>0, InsertFacts, CapAssumption
  <2>2. originOrder' = [originOrder EXCEPT ![b] = order]
    BY <1>2 DEF TrackOrigin
  <2>3. txOrigins' = [txOrigins EXCEPT ![b] = entry]
    BY <1>2 DEF TrackOrigin
  <2>4. entry \in [Tx -> Tag \cup {Absent}]
    BY <1>0
  <2>5. \A u \in Tx : entry[u] = "broadcast"
                       => txOrigins[b][u] = "broadcast" \/ (u = t /\ origin = "broadcast")
    BY DEF Absent
  <2> HIDE DEF order, entry
  <2>6. originOrder' \in [Bridge -> Seq(Tx)]
        /\ \A c \in Bridge : Len(originOrder'[c]) <= MaxTxOrigins
    BY <1>0, <2>1, <2>2
  <2>7. txOrigins' \in [Bridge -> [Tx -> Tag \cup {Absent}]]
    BY <1>0, <2>3, <2>4
  <2>8. \A c \in Bridge, u \in Tx :
          txOrigins'[c][u] = "broadcast"
            => txOrigins[c][u] = "broadcast" \/ (u = t /\ origin = "broadcast")
    BY <1>0, <2>3, <2>5
  <2> QED
    BY <2>6, <2>7, <2>8
<1> QED
  BY <1>1, <1>2

\* Storing a body adds that transaction to that mempool and nothing else.
LEMMA StoreStep ==
  ASSUME TypeOK, NEW b \in Bridge, NEW t \in Tx,
         mempool' = [mempool EXCEPT ![b] = StoreTx(@, t)]
  PROVE  /\ mempool' \in [Bridge -> Seq(Tx)]
         /\ \A c \in Bridge : Len(mempool'[c]) <= MaxMempool
         /\ \A c \in Bridge : \A u : Has(mempool'[c], u)
              => Has(mempool[c], u) \/ (c = b /\ u = t)
<1>1. /\ mempool \in [Bridge -> Seq(Tx)]
      /\ \A c \in Bridge : Len(mempool[c]) <= MaxMempool
  BY DEF TypeOK
<1>2. /\ StoreTx(mempool[b], t) \in Seq(Tx)
      /\ Len(StoreTx(mempool[b], t)) <= MaxMempool
      /\ \A u : Has(StoreTx(mempool[b], t), u) => Has(mempool[b], u) \/ u = t
  BY <1>1, StoreTxFacts
<1>3. \A c \in Bridge : mempool'[c] = IF c = b THEN StoreTx(mempool[b], t) ELSE mempool[c]
  BY <1>1
<1>4. mempool' \in [Bridge -> Seq(Tx)]
  BY <1>1, <1>2
<1>5. \A c \in Bridge : Len(mempool'[c]) <= MaxMempool
  BY <1>1, <1>2, <1>3
<1>6. \A c \in Bridge : \A u : Has(mempool'[c], u) => Has(mempool[c], u) \/ (c = b /\ u = t)
  BY <1>2, <1>3
<1> QED
  BY <1>4, <1>5, <1>6

\* Tracking a txid as seen keeps the seen sets typed and capped.
LEMMA SeenStep ==
  ASSUME TypeOK, NEW b \in Bridge, NEW t \in Tx,
         seen' = [seen EXCEPT ![b] = TrackSeen(@, t)]
  PROVE  /\ seen' \in [Bridge -> Seq(Tx)]
         /\ \A c \in Bridge : Len(seen'[c]) <= MaxSeen
<1>1. /\ seen \in [Bridge -> Seq(Tx)]
      /\ \A c \in Bridge : Len(seen[c]) <= MaxSeen
  BY DEF TypeOK
<1>2. TrackSeen(seen[b], t) \in Seq(Tx) /\ Len(TrackSeen(seen[b], t)) <= MaxSeen
  BY <1>1, TrackSeenFacts
<1> QED
  BY <1>1, <1>2

\* Tracking a request keeps the request sets typed and capped.
LEMMA RequestedStep ==
  ASSUME TypeOK, NEW b \in Bridge, NEW t \in Tx,
         requested' = [requested EXCEPT ![b] = TrackRequested(@, t)]
  PROVE  /\ requested' \in [Bridge -> Seq(Tx)]
         /\ \A c \in Bridge : Len(requested'[c]) <= MaxRequested
<1>1. /\ requested \in [Bridge -> Seq(Tx)]
      /\ \A c \in Bridge : Len(requested[c]) <= MaxRequested
  BY DEF TypeOK
<1>2. /\ TrackRequested(requested[b], t) \in Seq(Tx)
      /\ Len(TrackRequested(requested[b], t)) <= MaxRequested
  BY <1>1, TrackRequestedFacts
<1> QED
  BY <1>1, <1>2

------------------------------------------------------------------------------
(* The invariant is inductive.                                             *)

\* The invariant holds when no bridge has seen anything.
THEOREM TxInit ==
  Init => TxInv
<1> SUFFICES ASSUME Init PROVE TxInv
  OBVIOUS
<1>1. \A S : <<>> \in Seq(S) /\ Len(<<>>) = 0
  BY EmptySeq
<1>2. TypeOK
  BY <1>1, CapAssumption, InputAssumption DEF Init, TypeOK
<1>3. GoodQueues(net, Writes)
  <2>1. net \in [Peering -> Seq(Message)] /\ \A l \in Peering : Len(net[l]) = 0
    BY <1>1 DEF Init
  <2> QED
    BY <2>1 DEF GoodQueues
<1>4. OriginsNotUpgraded
  BY DEF Init, OriginsNotUpgraded, Absent
<1>5. SelectiveHoldsNoChatter
  <2>1. \A b \in Bridge : \A t : ~Has(mempool[b], t)
    BY DEF Init, Has, Range
  <2> QED
    BY <2>1, SelectiveAssumption DEF SelectiveHoldsNoChatter
<1> QED
  BY <1>2, <1>3, <1>4, <1>5 DEF TxInv

\* broadcastTx keeps what the invariant says of caches and queues, for a write
\* that is recorded as one and for an observation that is recorded as one.
LEMMA BroadcastTxStep ==
  ASSUME TxInv, NEW b \in Bridge, NEW t \in Tx, NEW origin \in {"broadcast", "p2p-relay"},
         BroadcastTx(b, t, origin),
         links' = links,
         written' \in SUBSET (Bridge \X Tx), observed' \in SUBSET (Bridge \X Tx),
         written \subseteq written', observed \subseteq observed',
         origin = "broadcast" => <<b, t>> \in written',
         origin = "p2p-relay" => <<b, t>> \in observed'
  PROVE  TxInv'
<1>1. Writes \subseteq Writes'
  BY DEF Writes, IsWrite
<1>2. origin = "broadcast" => t \in Writes'
  BY DEF Writes, IsWrite
<1>3. GoodQueues(net, Writes')
  BY <1>1, MoreWritesGood DEF TxInv
<1>4. \A c \in Bridge, u \in Tx : txOrigins[c][u] = "broadcast" => u \in Writes'
  BY <1>1 DEF TxInv, OriginsNotUpgraded
<1>5. \A c \in Selective, u \in Tx :
        Has(mempool[c], u) => u \in Writes' \/ <<c, u>> \in observed'
  BY <1>1 DEF TxInv, SelectiveHoldsNoChatter, Writes
<1>6. TypeOK
  BY DEF TxInv
<1>7. CASE Has(seen[b], t)
  <2>1. UNCHANGED <<caches, net>>
    BY <1>7 DEF BroadcastTx
  <2>2. TypeOK'
    BY <1>6, <2>1 DEF TypeOK, caches, links
  <2>3. GoodQueues(net, Writes)'
    BY <1>3, <2>1
  <2>4. OriginsNotUpgraded'
    BY <1>4, <2>1 DEF OriginsNotUpgraded, caches
  <2>5. SelectiveHoldsNoChatter'
    BY <1>5, <2>1, SelectiveAssumption DEF SelectiveHoldsNoChatter, Writes, caches
  <2> QED
    BY <2>2, <2>3, <2>4, <2>5 DEF TxInv
<1>8. CASE ~Has(seen[b], t)
  <2>1. /\ seen' = [seen EXCEPT ![b] = TrackSeen(@, t)]
        /\ mempool' = [mempool EXCEPT ![b] = StoreTx(@, t)]
        /\ TrackOrigin(b, t, origin)
        /\ net' = Broadcast(net, b, {}, Announce(t, origin))
        /\ requested' = requested
    BY <1>8 DEF BroadcastTx
  <2>2. origin \in Tag \cup {Absent}
    BY DEF Tag
  <2>3. GoodQueues(net', Writes')
    <3>1. \A l \in Peering : Good(l, Announce(t, origin), Writes')
      BY <1>2 DEF Good, Announce
    <3>2. Announce(t, origin) \in Message
      BY <2>2, MessageFacts
    <3> QED
      BY <1>3, <2>1, <3>1, <3>2, BroadcastGood
  <2>4. /\ mempool' \in [Bridge -> Seq(Tx)]
        /\ \A c \in Bridge : Len(mempool'[c]) <= MaxMempool
        /\ \A c \in Bridge : \A u : Has(mempool'[c], u)
             => Has(mempool[c], u) \/ (c = b /\ u = t)
    BY <1>6, <2>1, StoreStep
  <2>5. /\ seen' \in [Bridge -> Seq(Tx)]
        /\ \A c \in Bridge : Len(seen'[c]) <= MaxSeen
    BY <1>6, <2>1, SeenStep
  <2>6. /\ originOrder' \in [Bridge -> Seq(Tx)]
        /\ \A c \in Bridge : Len(originOrder'[c]) <= MaxTxOrigins
        /\ txOrigins' \in [Bridge -> [Tx -> Tag \cup {Absent}]]
        /\ \A c \in Bridge, u \in Tx :
             txOrigins'[c][u] = "broadcast"
               => txOrigins[c][u] = "broadcast" \/ (u = t /\ origin = "broadcast")
    BY <1>6, <2>1, <2>2, TrackOriginFacts
  <2>7. TypeOK'
    BY <1>6, <2>1, <2>3, <2>4, <2>5, <2>6 DEF TypeOK, GoodQueues, links
  <2>8. OriginsNotUpgraded'
    BY <1>2, <1>4, <2>6 DEF OriginsNotUpgraded
  <2>9. SelectiveHoldsNoChatter'
    <3>1. ASSUME NEW c \in Selective, NEW u \in Tx, Has(mempool'[c], u)
          PROVE  u \in Writes' \/ <<c, u>> \in observed'
      <4>1. Has(mempool[c], u) \/ (c = b /\ u = t)
        BY <2>4, <3>1, SelectiveAssumption
      <4> QED
        BY <1>2, <1>5, <4>1
    <3> QED
      BY <3>1 DEF SelectiveHoldsNoChatter, Writes
  <2> QED
    BY <2>3, <2>7, <2>8, <2>9 DEF TxInv
<1> QED
  BY <1>7, <1>8

\* What does not touch the inputs leaves the writes as they are.
LEMMA SameWrites ==
  ASSUME inputs' = inputs
  PROVE  Writes' = Writes
BY DEF inputs, Writes, IsWrite

\* _onTxAnnounce keeps the invariant: an invs-only bridge requests writes only.
LEMMA AnnounceStep ==
  ASSUME TxInv, NEW a, NEW b, <<a, b>> \in Peering, OnTxAnnounce(a, b)
  PROVE  TxInv'
<1> DEFINE m   == Head(net[<<a, b>>])
           tag == IF m.origin = Absent THEN "untagged" ELSE m.origin
<1>1. /\ net[<<a, b>>] # <<>>
      /\ m.type = "tx_announce"
      /\ TrackOrigin(b, m.txid, tag)
      /\ seen' = [seen EXCEPT ![b] = TrackSeen(@, m.txid)]
      /\ UNCHANGED <<mempool, links, inputs>>
  BY DEF OnTxAnnounce
<1>2. IF Wants(b, m.txid, tag)
      THEN /\ requested' = [requested EXCEPT ![b] = TrackRequested(@, m.txid)]
           /\ net' = Send(Consumed(a, b), b, a, Request(m.txid))
      ELSE net' = Consumed(a, b) /\ requested' = requested
  BY DEF OnTxAnnounce
<1>3. /\ GoodQueues(Consumed(a, b), Writes)
      /\ m \in Message
      /\ Good(<<a, b>>, m, Writes)
  BY <1>1, ConsumedGood DEF TxInv
<1>4. a \in Bridge /\ b \in Bridge /\ <<b, a>> \in Peering
  BY PeeringAssumption
<1>5. m.txid \in Tx /\ tag \in Tag /\ (tag = "broadcast" => m.txid \in Writes)
  <2>1. m.txid \in Tx /\ m.origin \in Tag \cup {Absent}
    BY <1>1, <1>3, MessageFacts
  <2>2. m.origin = "broadcast" => m.txid \in Writes
    BY <1>1, <1>3 DEF Good
  <2> QED
    BY <2>1, <2>2 DEF Tag, Absent
<1> HIDE DEF m, tag
<1>6. TypeOK /\ Writes' = Writes
  BY <1>1, SameWrites DEF TxInv
<1>7. GoodQueues(net', Writes')
  <2>1. CASE Wants(b, m.txid, tag)
    <3>1. Request(m.txid) \in Message
      BY <1>5, MessageFacts
    <3>2. Good(<<b, a>>, Request(m.txid), Writes)
      BY <1>5, <2>1 DEF Wants, Good, Request
    <3> QED
      BY <1>2, <1>3, <1>4, <1>6, <2>1, <3>1, <3>2, SendGood
  <2>2. CASE ~Wants(b, m.txid, tag)
    BY <1>2, <1>3, <1>6, <2>2
  <2> QED
    BY <2>1, <2>2
<1>8. /\ requested' \in [Bridge -> Seq(Tx)]
      /\ \A c \in Bridge : Len(requested'[c]) <= MaxRequested
  <2>1. CASE Wants(b, m.txid, tag)
    BY <1>2, <1>4, <1>5, <1>6, <2>1, RequestedStep
  <2>2. CASE ~Wants(b, m.txid, tag)
    BY <1>2, <1>6, <2>2 DEF TypeOK
  <2> QED
    BY <2>1, <2>2
<1>9. /\ seen' \in [Bridge -> Seq(Tx)]
      /\ \A c \in Bridge : Len(seen'[c]) <= MaxSeen
  BY <1>1, <1>4, <1>5, <1>6, SeenStep
<1>10. /\ originOrder' \in [Bridge -> Seq(Tx)]
       /\ \A c \in Bridge : Len(originOrder'[c]) <= MaxTxOrigins
       /\ txOrigins' \in [Bridge -> [Tx -> Tag \cup {Absent}]]
       /\ \A c \in Bridge, u \in Tx :
            txOrigins'[c][u] = "broadcast"
              => txOrigins[c][u] = "broadcast" \/ (u = m.txid /\ tag = "broadcast")
  BY <1>1, <1>4, <1>5, <1>6, TrackOriginFacts
<1>11. TypeOK'
  BY <1>1, <1>6, <1>7, <1>8, <1>9, <1>10 DEF TypeOK, GoodQueues, links, inputs
<1>12. OriginsNotUpgraded'
  BY <1>5, <1>6, <1>10 DEF OriginsNotUpgraded, TxInv
<1>13. SelectiveHoldsNoChatter'
  BY <1>1 DEF SelectiveHoldsNoChatter, TxInv, IsWrite, inputs
<1> QED
  BY <1>7, <1>11, <1>12, <1>13 DEF TxInv

\* _onTxRequest keeps the invariant: the reply carries the recorded origin.
LEMMA RequestStep ==
  ASSUME TxInv, NEW a, NEW b, <<a, b>> \in Peering, OnTxRequest(a, b)
  PROVE  TxInv'
<1> DEFINE m == Head(net[<<a, b>>])
           reply == Body(m.txid, txOrigins[b][m.txid])
<1>1. /\ net[<<a, b>>] # <<>>
      /\ m.type = "tx_request"
      /\ UNCHANGED <<caches, links, inputs>>
      /\ net' \in {Consumed(a, b), Send(Consumed(a, b), b, a, reply)}
  BY DEF OnTxRequest
<1>2. /\ GoodQueues(Consumed(a, b), Writes)
      /\ m \in Message
      /\ Good(<<a, b>>, m, Writes)
  BY <1>1, ConsumedGood DEF TxInv
<1>3. a \in Bridge /\ b \in Bridge /\ <<b, a>> \in Peering
  BY PeeringAssumption
<1>4. m.txid \in Tx /\ (a \in Selective => m.txid \in Writes)
  BY <1>1, <1>2, MessageFacts DEF Good
<1> HIDE DEF m
<1>5. /\ txOrigins[b][m.txid] \in Tag \cup {Absent}
      /\ txOrigins[b][m.txid] = "broadcast" => m.txid \in Writes
  BY <1>3, <1>4 DEF TxInv, TypeOK, OriginsNotUpgraded
<1>6. reply \in Message
  BY <1>4, <1>5, MessageFacts
<1>7. Good(<<b, a>>, reply, Writes)
  BY <1>4, <1>5 DEF Good, Body
<1> HIDE DEF reply
<1>8. GoodQueues(net', Writes')
  BY <1>1, <1>2, <1>3, <1>6, <1>7, SendGood, SameWrites
<1>9. TypeOK'
  BY <1>1, <1>8 DEF TxInv, TypeOK, GoodQueues, caches, links, inputs
<1>10. OriginsNotUpgraded'
  BY <1>1, SameWrites DEF TxInv, OriginsNotUpgraded, caches
<1>11. SelectiveHoldsNoChatter'
  BY <1>1 DEF TxInv, SelectiveHoldsNoChatter, IsWrite, inputs, caches
<1> QED
  BY <1>8, <1>9, <1>10, <1>11 DEF TxInv

\* _onTx keeps the invariant: a stored body was requested, hence wanted.
LEMMA BodyStep ==
  ASSUME TxInv, NEW a, NEW b, <<a, b>> \in Peering, OnTx(a, b)
  PROVE  TxInv'
<1> DEFINE m      == Head(net[<<a, b>>])
           origin == IF m.origin = Absent THEN txOrigins[b][m.txid] ELSE m.origin
<1>1. /\ net[<<a, b>>] # <<>>
      /\ m.type = "tx"
      /\ UNCHANGED <<seen, requested, links, inputs>>
  BY DEF OnTx
<1>2. IF Has(mempool[b], m.txid)
      THEN net' = Consumed(a, b) /\ UNCHANGED <<mempool, originOrder, txOrigins>>
      ELSE /\ mempool' = [mempool EXCEPT ![b] = StoreTx(@, m.txid)]
           /\ TrackOrigin(b, m.txid, origin)
           /\ net' = Broadcast(Consumed(a, b), b, {a},
                               Announce(m.txid, ReannounceOrigin(origin)))
  BY DEF OnTx
<1>3. /\ GoodQueues(Consumed(a, b), Writes)
      /\ m \in Message
      /\ Good(<<a, b>>, m, Writes)
  BY <1>1, ConsumedGood DEF TxInv
<1>4. a \in Bridge /\ b \in Bridge
  BY PeeringAssumption
<1>5. /\ m.txid \in Tx
      /\ m.origin \in Tag \cup {Absent}
      /\ m.origin = "broadcast" => m.txid \in Writes
      /\ b \in Selective => m.txid \in Writes
  BY <1>1, <1>3, MessageFacts DEF Good
<1>6. origin \in Tag \cup {Absent} /\ (origin = "broadcast" => m.txid \in Writes)
  BY <1>4, <1>5 DEF TxInv, TypeOK, OriginsNotUpgraded
<1> HIDE DEF m, origin
<1>7. TypeOK /\ Writes' = Writes
  BY <1>1, SameWrites DEF TxInv
<1>8. CASE Has(mempool[b], m.txid)
  <2>1. GoodQueues(net', Writes')
    BY <1>2, <1>3, <1>7, <1>8
  <2>2. TypeOK'
    BY <1>1, <1>2, <1>7, <1>8, <2>1 DEF TypeOK, GoodQueues, links, inputs
  <2>3. OriginsNotUpgraded'
    BY <1>2, <1>7, <1>8 DEF TxInv, OriginsNotUpgraded
  <2>4. SelectiveHoldsNoChatter'
    BY <1>1, <1>2, <1>8 DEF TxInv, SelectiveHoldsNoChatter, IsWrite, inputs
  <2> QED
    BY <2>1, <2>2, <2>3, <2>4 DEF TxInv
<1>9. CASE ~Has(mempool[b], m.txid)
  <2>1. GoodQueues(net', Writes')
    <3> DEFINE o == ReannounceOrigin(origin)
    <3>1. o \in Tag \cup {Absent} /\ (o = "broadcast" => m.txid \in Writes)
      BY <1>6 DEF ReannounceOrigin, Absent
    <3> HIDE DEF o
    <3>2. Announce(m.txid, o) \in Message
      BY <1>5, <3>1, MessageFacts
    <3>3. \A l \in Peering : Good(l, Announce(m.txid, o), Writes)
      BY <3>1 DEF Good, Announce
    <3>4. net' = Broadcast(Consumed(a, b), b, {a}, Announce(m.txid, o))
      BY <1>2, <1>9 DEF o
    <3> QED
      BY <1>3, <1>7, <3>2, <3>3, <3>4, BroadcastGood
  <2>2. /\ mempool' \in [Bridge -> Seq(Tx)]
        /\ \A c \in Bridge : Len(mempool'[c]) <= MaxMempool
        /\ \A c \in Bridge : \A u : Has(mempool'[c], u)
             => Has(mempool[c], u) \/ (c = b /\ u = m.txid)
    BY <1>2, <1>4, <1>5, <1>7, <1>9, StoreStep
  <2>3. /\ originOrder' \in [Bridge -> Seq(Tx)]
        /\ \A c \in Bridge : Len(originOrder'[c]) <= MaxTxOrigins
        /\ txOrigins' \in [Bridge -> [Tx -> Tag \cup {Absent}]]
        /\ \A c \in Bridge, u \in Tx :
             txOrigins'[c][u] = "broadcast"
               => txOrigins[c][u] = "broadcast" \/ (u = m.txid /\ origin = "broadcast")
    BY <1>2, <1>4, <1>5, <1>6, <1>7, <1>9, TrackOriginFacts
  <2>4. TypeOK'
    BY <1>1, <1>7, <2>1, <2>2, <2>3 DEF TypeOK, GoodQueues, links, inputs
  <2>5. OriginsNotUpgraded'
    BY <1>6, <1>7, <2>3 DEF TxInv, OriginsNotUpgraded
  <2>6. SelectiveHoldsNoChatter'
    <3>1. ASSUME NEW c \in Selective, NEW u \in Tx, Has(mempool'[c], u)
          PROVE  u \in Writes \/ <<c, u>> \in observed
      <4>1. Has(mempool[c], u) \/ (c = b /\ u = m.txid)
        BY <2>2, <3>1, SelectiveAssumption
      <4> QED
        BY <1>5, <4>1 DEF TxInv, SelectiveHoldsNoChatter, Writes
    <3>2. observed' = observed
      BY <1>1 DEF inputs
    <3> QED
      BY <1>7, <3>1, <3>2 DEF SelectiveHoldsNoChatter, Writes
  <2> QED
    BY <2>1, <2>4, <2>5, <2>6 DEF TxInv
<1> QED
  BY <1>8, <1>9

\* A broken connection keeps the invariant: it only shortens queues.
LEMMA DropStep ==
  ASSUME TxInv, NEW a, NEW b, <<a, b>> \in Peering, Drop(a, b)
  PROVE  TxInv'
<1>1. /\ drops' = drops + 1
      /\ down' = down \cup {<<a, b>>, <<b, a>>}
      /\ UNCHANGED <<caches, inputs>>
  BY DEF Drop
<1>2. PICK i \in 0 .. Len(net[<<a, b>>]), j \in 0 .. Len(net[<<b, a>>]) :
        net' = [net EXCEPT ![<<a, b>>] = SubSeq(@, 1, i), ![<<b, a>>] = SubSeq(@, 1, j)]
  BY DEF Drop
<1>3. <<b, a>> \in Peering
  BY PeeringAssumption
<1> DEFINE GoodQueue(l, s) ==
             s \in Seq(Message) /\ \A k \in 1 .. Len(s) : Good(l, s[k], Writes)
<1>4. \A l \in Peering : GoodQueue(l, net[l])
  BY DEF TxInv, GoodQueues
<1>5. /\ GoodQueue(<<a, b>>, SubSeq(net[<<a, b>>], 1, i))
      /\ GoodQueue(<<b, a>>, SubSeq(net[<<b, a>>], 1, j))
  BY <1>3, <1>4, PrefixGood
<1>6. <<a, b>> # <<b, a>>
  BY PeeringAssumption
<1>7. net \in [Peering -> Seq(Message)]
  BY DEF TxInv, TypeOK
<1> HIDE DEF GoodQueue
<1>8. net' = [l \in Peering |-> net'[l]] /\ \A l \in Peering : GoodQueue(l, net'[l])
  BY <1>2, <1>3, <1>4, <1>5, <1>6, <1>7
<1>9. GoodQueues(net, Writes)'
  BY <1>1, <1>8, SameWrites DEF GoodQueues, GoodQueue
<1>10. TypeOK'
  <2>1. net' \in [Peering -> Seq(Message)]
    BY <1>9 DEF GoodQueues
  <2>2. drops' \in Nat /\ down' \subseteq Peering
    <3>1. drops \in Nat /\ down \subseteq Peering
      BY DEF TxInv, TypeOK
    <3>2. drops' \in Nat
      BY <1>1, <3>1
    <3>3. down' \subseteq Peering
      BY <1>1, <1>3, <3>1
    <3> QED
      BY <3>2, <3>3
  <2> QED
    BY <1>1, <2>1, <2>2 DEF TxInv, TypeOK, caches, inputs
<1>11. OriginsNotUpgraded'
  BY <1>1, SameWrites DEF TxInv, OriginsNotUpgraded, caches
<1>12. SelectiveHoldsNoChatter'
  BY <1>1 DEF TxInv, SelectiveHoldsNoChatter, IsWrite, inputs, caches
<1> QED
  BY <1>9, <1>10, <1>11, <1>12 DEF TxInv

\* Every action keeps the invariant.
THEOREM TxStep ==
  TxInv /\ [Next]_vars => TxInv'
<1> SUFFICES ASSUME TxInv, [Next]_vars PROVE TxInv'
  OBVIOUS
<1>1. ASSUME NEW b \in Bridge, NEW t \in Tx, SubmitWrite(b, t)
      PROVE  TxInv'
  <2>1. BroadcastTx(b, t, "broadcast") /\ links' = links
    BY <1>1 DEF SubmitWrite
  <2>2. /\ written' = written \cup {<<b, t>>} /\ observed' = observed
        /\ written' \subseteq Bridge \X Tx /\ observed' \subseteq Bridge \X Tx
    BY <1>1 DEF SubmitWrite, TxInv, TypeOK
  <2> QED
    BY <2>1, <2>2, BroadcastTxStep
<1>2. ASSUME NEW b \in Bridge, NEW t \in Tx, ObserveP2P(b, t)
      PROVE  TxInv'
  <2>1. BroadcastTx(b, t, "p2p-relay") /\ links' = links
    BY <1>2 DEF ObserveP2P
  <2>2. /\ observed' = observed \cup {<<b, t>>} /\ written' = written
        /\ written' \subseteq Bridge \X Tx /\ observed' \subseteq Bridge \X Tx
    BY <1>2 DEF ObserveP2P, TxInv, TypeOK
  <2> QED
    BY <2>1, <2>2, BroadcastTxStep
<1>3. ASSUME NEW l \in Peering
      PROVE  l = <<l[1], l[2]>>
  BY PeeringAssumption
<1>4. ASSUME NEW l \in Peering, OnTxAnnounce(l[1], l[2])
      PROVE  TxInv'
  BY <1>3, <1>4, AnnounceStep
<1>5. ASSUME NEW l \in Peering, OnTxRequest(l[1], l[2])
      PROVE  TxInv'
  BY <1>3, <1>5, RequestStep
<1>6. ASSUME NEW l \in Peering, OnTx(l[1], l[2])
      PROVE  TxInv'
  BY <1>3, <1>6, BodyStep
<1>7. ASSUME NEW l \in Peering, Drop(l[1], l[2])
      PROVE  TxInv'
  BY <1>3, <1>7, DropStep
<1>8. ASSUME NEW l \in Peering, Reconnect(l[1], l[2])
      PROVE  TxInv'
  <2>1. down' \subseteq down /\ UNCHANGED <<caches, net, drops, inputs>>
    BY <1>8 DEF Reconnect
  <2> QED
    BY <2>1, SameWrites
    DEF TxInv, TypeOK, OriginsNotUpgraded, SelectiveHoldsNoChatter, IsWrite, caches, inputs
<1>9. CASE UNCHANGED vars
  BY <1>9, SameWrites
  DEF TxInv, TypeOK, OriginsNotUpgraded, SelectiveHoldsNoChatter, IsWrite, vars, caches,
      links, inputs
<1> QED
  BY <1>1, <1>2, <1>4, <1>5, <1>6, <1>7, <1>8, <1>9 DEF Next

\* The strengthened invariant holds in every reachable state.
THEOREM TxInvariant ==
  Spec => []TxInv
BY TxInit, TxStep, PTL DEF Spec

------------------------------------------------------------------------------
(* Results.                                                                *)

\* The four caches never hold more entries than their caps, and every message
\* and every recorded origin is one the protocol has.
THEOREM TxTypeCorrect ==
  Spec => []TypeOK
<1>1. TxInv => TypeOK
  BY DEF TxInv
<1> QED
  BY <1>1, TxInvariant, PTL

\* On any mesh, with any caps and any loss, what no bridge was asked to write
\* is called a federation write by no message and no cache.
THEOREM TxChatterNeverUpgraded ==
  Spec => []ChatterNeverUpgraded
<1>1. TxInv => ChatterNeverUpgraded
  <2> SUFFICES ASSUME TxInv PROVE ChatterNeverUpgraded
    OBVIOUS
  <2>1. \A b \in Bridge, t \in Tx : txOrigins[b][t] = "broadcast" => IsWrite(t)
    BY DEF TxInv, OriginsNotUpgraded, Writes
  <2>2. ASSUME NEW l \in Peering, NEW i \in 1 .. Len(net[l]),
               net[l][i].type # "tx_request", net[l][i].origin = "broadcast"
        PROVE  IsWrite(net[l][i].txid)
    BY <2>2 DEF TxInv, GoodQueues, Good, Writes
  <2> QED
    BY <2>1, <2>2 DEF ChatterNeverUpgraded
<1> QED
  BY <1>1, TxInvariant, PTL

\* On any mesh, with any caps and any loss, the mempool of an invs-only bridge
\* holds federation writes and its own observations only.
THEOREM TxSelectiveHoldsNoChatter ==
  Spec => []SelectiveHoldsNoChatter
<1>1. TxInv => SelectiveHoldsNoChatter
  BY DEF TxInv
<1> QED
  BY <1>1, TxInvariant, PTL

------------------------------------------------------------------------------
(* One fetch per transaction: the invariant, caches and queues.           *)

\* No cache can overflow: each has room for every transaction.
Roomy ==
  /\ IsFiniteSet(Tx)
  /\ Cardinality(Tx) <= MaxMempool /\ Cardinality(Tx) <= MaxSeen
  /\ Cardinality(Tx) <= MaxRequested

NoRepeats(s) == \A i, j \in 1 .. Len(s) : s[i] = s[j] => i = j

\* The message m on link l is a request of b for t or the body of t for b.
Fetches(m, l, b, t) ==
  /\ m.txid = t
  /\ \/ m.type = "tx_request" /\ l[1] = b
     \/ m.type = "tx" /\ l[2] = b

\* Of b's requests for t and their answers, none is under way; at most one is.
Idle(queues, b, t) ==
  \A l \in Peering : \A i \in 1 .. Len(queues[l]) : ~Fetches(queues[l][i], l, b, t)
Single(queues, b, t) ==
  \A k, l \in Peering : \A i \in 1 .. Len(queues[k]) : \A j \in 1 .. Len(queues[l]) :
    Fetches(queues[k][i], k, b, t) /\ Fetches(queues[l][j], l, b, t) => k = l /\ i = j

\* What a bridge holds or asked for it has seen; what it did not ask for, and what it
\* holds, is not on its way to it.
FetchInv ==
  \A b \in Bridge :
    /\ NoRepeats(mempool[b]) /\ NoRepeats(seen[b]) /\ NoRepeats(requested[b])
    /\ \A t \in Tx : /\ Has(mempool[b], t) \/ Has(requested[b], t) => Has(seen[b], t)
                     /\ Single(net, b, t)
                     /\ Has(mempool[b], t) \/ ~Has(requested[b], t) => Idle(net, b, t)

\* A cache with room for all has room for one that it does not hold.
LEMMA Room ==
  ASSUME IsFiniteSet(Tx), NEW s \in Seq(Tx), NoRepeats(s), NEW t \in Tx, ~Has(s, t)
  PROVE  Len(s) < Cardinality(Tx)
<1> DEFINE n == Len(s)
           others == Tx \ {t}
<1>1. n \in Nat /\ s = [i \in 1 .. n |-> s[i]] /\ \A i \in 1 .. n : s[i] \in others
  BY DEF Has, Range
<1>2. IsFiniteSet(others) /\ Cardinality(others) = Cardinality(Tx) - 1
  BY FS_RemoveElement
<1>3. Cardinality(Tx) \in Nat
  BY FS_CardinalityType
<1> HIDE DEF others
<1>4. s \in Injection(1 .. n, others)
  BY <1>1 DEF Injection, IsInjective, NoRepeats
<1>5. Cardinality(1 .. n) <= Cardinality(others)
  BY <1>2, <1>4, FS_Injection
<1>6. Cardinality(1 .. n) = n
  <2> HIDE DEF n
  <2>1. Cardinality(1 .. n) = IF 1 > n THEN 0 ELSE n - 1 + 1
    BY <1>1, FS_Interval
  <2> QED
    BY <1>1, <2>1
<1> QED
  BY <1>2, <1>3, <1>5, <1>6

\* What is added to a cache with room goes to its end, and nothing leaves it.
LEMMA Adding ==
  ASSUME NEW s \in Seq(Tx), NoRepeats(s), NEW t \in Tx, ~Has(s, t), NEW cap \in Nat,
         Len(s) < cap
  PROVE  /\ Insert(Evict(s, cap), t) = Append(s, t) /\ Append(Evict(s, cap), t) = Append(s, t)
         /\ NoRepeats(Append(s, t))
         /\ \A u : Has(Append(s, t), u) <=> Has(s, u) \/ u = t
<1>1. /\ Append(s, t) \in Seq(Tx) /\ Len(Append(s, t)) = Len(s) + 1
      /\ Append(s, t)[Len(s) + 1] = t
      /\ \A i \in 1 .. Len(s) : Append(s, t)[i] = s[i]
      /\ Len(s) \in Nat
  OBVIOUS
<1>2. Evict(s, cap) = s /\ Insert(s, t) = Append(s, t)
  BY <1>1 DEF Evict, Insert
<1>3. \A i \in 1 .. Len(s) : s[i] # t
  BY DEF Has, Range
<1>4. \A i \in 1 .. Len(s) + 1 : i \in 1 .. Len(s) \/ i = Len(s) + 1
  BY <1>1
<1>5. NoRepeats(Append(s, t))
  <2> SUFFICES ASSUME NEW i \in 1 .. Len(s) + 1, NEW j \in 1 .. Len(s) + 1,
                      Append(s, t)[i] = Append(s, t)[j]
               PROVE  i = j
    BY <1>1 DEF NoRepeats
  <2>1. CASE i \in 1 .. Len(s) /\ j \in 1 .. Len(s)
    BY <1>1, <2>1 DEF NoRepeats
  <2>2. CASE i = Len(s) + 1 /\ j = Len(s) + 1
    BY <2>2
  <2>3. CASE i \in 1 .. Len(s) /\ j = Len(s) + 1
    BY <1>1, <1>3, <2>3
  <2>4. CASE i = Len(s) + 1 /\ j \in 1 .. Len(s)
    BY <1>1, <1>3, <2>4
  <2> QED
    BY <1>4, <2>1, <2>2, <2>3, <2>4
<1>6. ASSUME NEW u PROVE Has(Append(s, t), u) <=> Has(s, u) \/ u = t
  <2>1. DOMAIN Append(s, t) = 1 .. Len(s) + 1 /\ DOMAIN s = 1 .. Len(s)
    BY <1>1
  <2>2. Has(s, u) => Has(Append(s, t), u)
    <3> SUFFICES ASSUME NEW i \in 1 .. Len(s), s[i] = u PROVE Has(Append(s, t), u)
      BY <2>1 DEF Has, Range
    <3>1. i \in 1 .. Len(s) + 1 /\ Append(s, t)[i] = u
      BY <1>1
    <3> QED
      BY <2>1, <3>1 DEF Has, Range
  <2>3. Has(Append(s, t), t)
    <3>1. Len(s) + 1 \in 1 .. Len(s) + 1
      BY <1>1
    <3> QED
      BY <1>1, <2>1, <3>1 DEF Has, Range
  <2>4. Has(Append(s, t), u) => Has(s, u) \/ u = t
    <3> SUFFICES ASSUME NEW i \in 1 .. Len(s) + 1, Append(s, t)[i] = u
                 PROVE  Has(s, u) \/ u = t
      BY <2>1 DEF Has, Range
    <3>1. CASE i \in 1 .. Len(s)
      BY <1>1, <2>1, <3>1 DEF Has, Range
    <3>2. CASE i = Len(s) + 1
      BY <1>1, <3>2
    <3> QED
      BY <1>4, <3>1, <3>2
  <2> QED
    BY <2>2, <2>3, <2>4
<1> QED
  BY <1>2, <1>5, <1>6

\* Each of the three caches that decide about a fetch.
LEMMA AddingEach ==
  ASSUME Roomy, NEW s \in Seq(Tx), NoRepeats(s), NEW t \in Tx
  PROVE  /\ NoRepeats(TrackSeen(s, t)) /\ \A u : Has(TrackSeen(s, t), u) <=> Has(s, u) \/ u = t
         /\ ~Has(s, t) =>
              /\ NoRepeats(StoreTx(s, t)) /\ \A u : Has(StoreTx(s, t), u) <=> Has(s, u) \/ u = t
              /\ NoRepeats(TrackRequested(s, t))
              /\ \A u : Has(TrackRequested(s, t), u) <=> Has(s, u) \/ u = t
<1>1. CASE Has(s, t)
  BY <1>1 DEF TrackSeen
<1>2. CASE ~Has(s, t)
  <2>1. Len(s) < Cardinality(Tx) /\ Cardinality(Tx) \in Nat /\ Len(s) \in Nat
    BY <1>2, Room, FS_CardinalityType DEF Roomy
  <2>2. Len(s) < MaxSeen /\ Len(s) < MaxMempool /\ Len(s) < MaxRequested
    BY <2>1, CapAssumption DEF Roomy
  <2>3. /\ TrackSeen(s, t) = Append(s, t) /\ StoreTx(s, t) = Append(s, t)
        /\ TrackRequested(s, t) = Append(s, t)
    BY <1>2, <2>2, CapAssumption, Adding DEF TrackSeen, StoreTx, TrackRequested
  <2>4. NoRepeats(Append(s, t)) /\ \A u : Has(Append(s, t), u) <=> Has(s, u) \/ u = t
    BY <1>2, <2>2, CapAssumption, Adding
  <2> QED
    BY <2>3, <2>4
<1> QED
  BY <1>1, <1>2

\* A link and its opposite.
LEMMA Opposite ==
  ASSUME NEW l \in Peering
  PROVE  /\ <<l[1], l[2]>> = l /\ <<l[2], l[1]>> \in Peering /\ <<l[2], l[1]>> # l
         /\ l[1] \in Bridge /\ l[2] \in Bridge /\ l[1] # l[2]
BY PeeringAssumption

\* Queues that hold, in order, a stretch of what other queues hold.
Stretch(new, old) ==
  \A l \in Peering : \E d \in Nat : \A i \in 1 .. Len(new[l]) :
    i + d \in 1 .. Len(old[l]) /\ new[l][i] = old[l][i + d]

LEMMA StretchKeeps ==
  ASSUME NEW old, NEW new, Stretch(new, old), NEW b, NEW t,
         \A l \in Peering : Len(new[l]) \in Nat
  PROVE  /\ Idle(old, b, t) => Idle(new, b, t)
         /\ Single(old, b, t) => Single(new, b, t)
<1>1. Idle(old, b, t) => Idle(new, b, t)
  <2> SUFFICES ASSUME Idle(old, b, t), NEW l \in Peering, NEW i \in 1 .. Len(new[l])
               PROVE  ~Fetches(new[l][i], l, b, t)
    BY DEF Idle
  <2>1. PICK d \in Nat : i + d \in 1 .. Len(old[l]) /\ new[l][i] = old[l][i + d]
    BY DEF Stretch
  <2> QED
    BY <2>1 DEF Idle
<1>2. Single(old, b, t) => Single(new, b, t)
  <2> SUFFICES ASSUME Single(old, b, t), NEW k \in Peering, NEW l \in Peering,
                      NEW i \in 1 .. Len(new[k]), NEW j \in 1 .. Len(new[l]),
                      Fetches(new[k][i], k, b, t), Fetches(new[l][j], l, b, t)
               PROVE  k = l /\ i = j
    BY DEF Single
  <2>1. PICK d \in Nat : \A n \in 1 .. Len(new[k]) :
          n + d \in 1 .. Len(old[k]) /\ new[k][n] = old[k][n + d]
    BY DEF Stretch
  <2>2. PICK e \in Nat : \A n \in 1 .. Len(new[l]) :
          n + e \in 1 .. Len(old[l]) /\ new[l][n] = old[l][n + e]
    BY DEF Stretch
  <2>3. k = l /\ i + d = j + e
    BY <2>1, <2>2 DEF Single
  <2>4. j + d \in 1 .. Len(old[l]) /\ new[l][j] = old[l][j + d]
    BY <2>1, <2>3
  <2>5. i + d = j + d
    BY <2>1, <2>3, <2>4 DEF Single
  <2> QED
    BY <2>3, <2>5
<1> QED
  BY <1>1, <1>2

\* The queue of link r gets the message m.
Queued(old, r, m) == [old EXCEPT ![r] = Append(old[r], m)]

\* A message that is appended is the only addition.
LEMMA AppendFetch ==
  ASSUME NEW old \in [Peering -> Seq(Message)], NEW r \in Peering, NEW m \in Message,
         NEW b, NEW t
  PROVE  LET new == Queued(old, r, m) IN
         /\ new \in [Peering -> Seq(Message)]
         /\ Idle(old, b, t) => Single(new, b, t)
         /\ ~Fetches(m, r, b, t) /\ Idle(old, b, t) => Idle(new, b, t)
         /\ ~Fetches(m, r, b, t) /\ Single(old, b, t) => Single(new, b, t)
<1> DEFINE new == Queued(old, r, m)
<1>1. /\ Append(old[r], m) \in Seq(Message) /\ Len(Append(old[r], m)) = Len(old[r]) + 1
      /\ Append(old[r], m)[Len(old[r]) + 1] = m /\ Len(old[r]) \in Nat
      /\ \A i \in 1 .. Len(old[r]) : Append(old[r], m)[i] = old[r][i]
  OBVIOUS
<1>2. /\ new \in [Peering -> Seq(Message)] /\ new[r] = Append(old[r], m)
      /\ \A l \in Peering : l # r => new[l] = old[l]
  BY <1>1 DEF Queued
<1> HIDE DEF new
<1>3. ASSUME NEW l \in Peering, NEW i \in 1 .. Len(new[l])
      PROVE  \/ i \in 1 .. Len(old[l]) /\ new[l][i] = old[l][i]
             \/ l = r /\ i = Len(old[r]) + 1 /\ new[l][i] = m
  <2>1. CASE l = r
    BY <1>1, <1>2, <2>1
  <2>2. CASE l # r
    BY <1>2, <2>2
  <2> QED
    BY <2>1, <2>2
<1>4. Idle(old, b, t) => Single(new, b, t)
  BY <1>3 DEF Idle, Single
<1>5. ~Fetches(m, r, b, t) /\ Idle(old, b, t) => Idle(new, b, t)
  BY <1>3 DEF Idle
<1>6. ASSUME ~Fetches(m, r, b, t), Single(old, b, t) PROVE Single(new, b, t)
  <2>1. ASSUME NEW l \in Peering, NEW i \in 1 .. Len(new[l]), Fetches(new[l][i], l, b, t)
        PROVE  i \in 1 .. Len(old[l]) /\ new[l][i] = old[l][i]
    BY <1>3, <1>6, <2>1
  <2> QED
    BY <1>6, <2>1 DEF Single
<1> QED
  BY <1>2, <1>4, <1>5, <1>6 DEF new

\* Announcements change nothing.
LEMMA BroadcastFetch ==
  ASSUME NEW old \in [Peering -> Seq(Message)], NEW a, NEW except, NEW m \in Message,
         m.type = "tx_announce", NEW b, NEW t
  PROVE  LET new == Broadcast(old, a, except, m) IN
         /\ Idle(old, b, t) => Idle(new, b, t)
         /\ Single(old, b, t) => Single(new, b, t)
<1> DEFINE new == Broadcast(old, a, except, m)
<1>1. ASSUME NEW l \in Peering, NEW i \in 1 .. Len(new[l]), Fetches(new[l][i], l, b, t)
      PROVE  i \in 1 .. Len(old[l]) /\ new[l][i] = old[l][i]
  <2>1. new[l] = old[l] \/ new[l] = Append(old[l], m)
    BY DEF Broadcast
  <2>2. CASE new[l] = old[l]
    BY <2>2
  <2>3. CASE new[l] = Append(old[l], m)
    <3>1. /\ Len(Append(old[l], m)) = Len(old[l]) + 1 /\ Len(old[l]) \in Nat
          /\ Append(old[l], m)[Len(old[l]) + 1] = m
          /\ \A j \in 1 .. Len(old[l]) : Append(old[l], m)[j] = old[l][j]
      OBVIOUS
    <3>2. i # Len(old[l]) + 1
      BY <1>1, <2>3, <3>1 DEF Fetches
    <3> HIDE DEF new
    <3>3. i \in 1 .. Len(old[l])
      BY <2>3, <3>1, <3>2
    <3> QED
      BY <2>3, <3>1, <3>3
  <2> QED
    BY <2>1, <2>2, <2>3
<1> HIDE DEF new
<1>2. Idle(old, b, t) => Idle(new, b, t)
  BY <1>1 DEF Idle
<1>3. Single(old, b, t) => Single(new, b, t)
  BY <1>1 DEF Single
<1> QED
  BY <1>2, <1>3 DEF new

\* Taking the first message off the queue of link l.
LEMMA ConsumeFetch ==
  ASSUME net \in [Peering -> Seq(Message)], NEW l \in Peering, net[l] # <<>>
  PROVE  /\ Consumed(l[1], l[2]) \in [Peering -> Seq(Message)]
         /\ Head(net[l]) \in Message
         /\ \A b, t : /\ Idle(net, b, t) => Idle(Consumed(l[1], l[2]), b, t)
                      /\ Single(net, b, t) => Single(Consumed(l[1], l[2]), b, t)
                      /\ Single(net, b, t) /\ Fetches(Head(net[l]), l, b, t) =>
                           Idle(Consumed(l[1], l[2]), b, t)
                      /\ Fetches(Head(net[l]), l, b, t) => ~Idle(net, b, t)
<1>1. PICK old, new : old = net /\ new = Consumed(l[1], l[2])
  OBVIOUS
<1> DEFINE q == old[l]
<1>2. old \in [Peering -> Seq(Message)] /\ q \in Seq(Message) /\ q # <<>>
      /\ new = [old EXCEPT ![l] = Tail(q)]
  BY <1>1, Opposite DEF Consumed
<1> HIDE DEF q
<1>3. PICK rest : rest = Tail(q)
  OBVIOUS
<1>4. /\ rest \in Seq(Message) /\ Head(q) \in Message /\ Head(q) = q[1]
      /\ Len(q) \in Nat /\ Len(q) > 0 /\ Len(rest) \in Nat /\ Len(rest) = Len(q) - 1
      /\ \A i \in 1 .. Len(rest) : i + 1 \in 1 .. Len(q) /\ rest[i] = q[i + 1]
      /\ new \in [Peering -> Seq(Message)] /\ new[l] = rest
      /\ \A k \in Peering : k # l => new[k] = old[k]
  <2>1. /\ Tail(q) \in Seq(Message) /\ Head(q) \in Message /\ Head(q) = q[1]
        /\ Len(q) \in Nat /\ Len(q) > 0 /\ Len(Tail(q)) = Len(q) - 1
        /\ \A i \in 1 .. Len(q) - 1 : Tail(q)[i] = q[i + 1]
    BY <1>2
  <2>2. \A i \in 1 .. Len(q) - 1 : i + 1 \in 1 .. Len(q)
    BY <2>1
  <2>3. /\ rest \in Seq(Message) /\ Len(rest) = Len(q) - 1
        /\ \A i \in 1 .. Len(q) - 1 : rest[i] = q[i + 1]
    BY <1>3, <2>1
  <2>4. new = [old EXCEPT ![l] = rest]
    BY <1>2, <1>3
  <2> QED
    BY <1>2, <2>1, <2>2, <2>3, <2>4
<1>5. ASSUME NEW k \in Peering
      PROVE  \E d \in Nat : \A i \in 1 .. Len(new[k]) :
               i + d \in 1 .. Len(old[k]) /\ new[k][i] = old[k][i + d]
  <2>1. CASE k = l
    <3>1. \A i \in 1 .. Len(new[k]) : i + 1 \in 1 .. Len(old[k]) /\ new[k][i] = old[k][i + 1]
      BY <1>4, <2>1 DEF q
    <3> QED
      BY <3>1
  <2>2. CASE k # l
    <3>1. Len(old[k]) \in Nat /\ new[k] = old[k]
      BY <1>2, <1>4, <2>2
    <3>2. \A i \in 1 .. Len(new[k]) : i + 0 \in 1 .. Len(old[k]) /\ new[k][i] = old[k][i + 0]
      BY <3>1
    <3> QED
      BY <3>2
  <2> QED
    BY <2>1, <2>2
<1>6. Stretch(new, old) /\ \A k \in Peering : Len(new[k]) \in Nat
  <2>1. Stretch(new, old)
    BY <1>5 DEF Stretch
  <2>2. \A k \in Peering : new[k] \in Seq(Message)
    BY <1>4
  <2> QED
    BY <2>1, <2>2
<1>7. ASSUME NEW b, NEW t
      PROVE  /\ Idle(old, b, t) => Idle(new, b, t)
             /\ Single(old, b, t) => Single(new, b, t)
             /\ Single(old, b, t) /\ Fetches(Head(q), l, b, t) => Idle(new, b, t)
             /\ Fetches(Head(q), l, b, t) => ~Idle(old, b, t)
  <2>1. /\ Idle(old, b, t) => Idle(new, b, t)
        /\ Single(old, b, t) => Single(new, b, t)
    BY <1>6, StretchKeeps
  <2>2. 1 \in 1 .. Len(old[l]) /\ Head(q) = old[l][1]
    BY <1>4 DEF q
  <2>3. Fetches(Head(q), l, b, t) => ~Idle(old, b, t)
    BY <2>2 DEF Idle
  <2>4. ASSUME Single(old, b, t), Fetches(Head(q), l, b, t), NEW k \in Peering,
               NEW i \in 1 .. Len(new[k]), Fetches(new[k][i], k, b, t)
        PROVE  FALSE
    <3>1. CASE k = l
      <4>1. i + 1 \in 1 .. Len(old[l]) /\ new[k][i] = old[l][i + 1]
        BY <1>4, <3>1 DEF q
      <4>2. 1 = i + 1
        BY <2>2, <2>4, <3>1, <4>1 DEF Single
      <4> QED
        BY <4>2
    <3>2. CASE k # l
      <4>1. i \in 1 .. Len(old[k]) /\ new[k][i] = old[k][i]
        BY <1>4, <3>2
      <4> QED
        BY <2>2, <2>4, <3>2, <4>1 DEF Single
    <3> QED
      BY <3>1, <3>2
  <2>5. Single(old, b, t) /\ Fetches(Head(q), l, b, t) => Idle(new, b, t)
    BY <2>4 DEF Idle
  <2> QED
    BY <2>1, <2>3, <2>5
<1> QED
  BY <1>1, <1>4, <1>7 DEF q

\* The parts of the invariant that the steps use, one by one.
LEMMA FetchParts ==
  ASSUME TypeOK, FetchInv
  PROVE  /\ mempool \in [Bridge -> Seq(Tx)] /\ seen \in [Bridge -> Seq(Tx)]
         /\ requested \in [Bridge -> Seq(Tx)] /\ net \in [Peering -> Seq(Message)]
         /\ \A b \in Bridge :
              /\ NoRepeats(mempool[b]) /\ NoRepeats(seen[b]) /\ NoRepeats(requested[b])
              /\ \A t \in Tx :
                   /\ Has(mempool[b], t) \/ Has(requested[b], t) => Has(seen[b], t)
                   /\ Single(net, b, t)
                   /\ Has(mempool[b], t) \/ ~Has(requested[b], t) => Idle(net, b, t)
         /\ \A b \in Bridge : \A t \in Tx : txOrigins[b][t] \in Tag \cup {Absent}
BY DEF TypeOK, FetchInv

\* BroadcastTx takes in only what is not seen, so not held and not on its way.
LEMMA FetchBroadcast ==
  ASSUME Roomy, TypeOK, FetchInv, NEW b \in Bridge, NEW t \in Tx,
         NEW origin \in Tag \cup {Absent}, BroadcastTx(b, t, origin)
  PROVE  FetchInv'
<1>1. CASE Has(seen[b], t)
  BY <1>1 DEF BroadcastTx, FetchInv, caches
<1>2. CASE ~Has(seen[b], t)
  <2>1. /\ seen' = [seen EXCEPT ![b] = TrackSeen(seen[b], t)]
        /\ mempool' = [mempool EXCEPT ![b] = StoreTx(mempool[b], t)]
        /\ requested' = requested
        /\ net' = Broadcast(net, b, {}, Announce(t, origin))
    BY <1>2 DEF BroadcastTx
  <2>2. ~Has(mempool[b], t) /\ ~Has(requested[b], t) /\ Idle(net, b, t)
    BY <1>2, FetchParts
  <2>3. /\ NoRepeats(seen'[b]) /\ \A u : Has(seen'[b], u) <=> Has(seen[b], u) \/ u = t
        /\ NoRepeats(mempool'[b]) /\ \A u : Has(mempool'[b], u) <=> Has(mempool[b], u) \/ u = t
    <3>1. /\ seen'[b] = TrackSeen(seen[b], t) /\ mempool'[b] = StoreTx(mempool[b], t)
          /\ seen[b] \in Seq(Tx) /\ mempool[b] \in Seq(Tx)
          /\ NoRepeats(seen[b]) /\ NoRepeats(mempool[b])
      BY <2>1, FetchParts
    <3>2. PICK s, m : s = seen[b] /\ m = mempool[b]
      OBVIOUS
    <3>3. NoRepeats(TrackSeen(s, t)) /\ \A u : Has(TrackSeen(s, t), u) <=> Has(s, u) \/ u = t
      BY <3>1, <3>2, AddingEach
    <3>4. NoRepeats(StoreTx(m, t)) /\ \A u : Has(StoreTx(m, t), u) <=> Has(m, u) \/ u = t
      BY <2>2, <3>1, <3>2, AddingEach
    <3> QED
      BY <3>1, <3>2, <3>3, <3>4
  <2>4. \A c \in Bridge : c # b => seen'[c] = seen[c] /\ mempool'[c] = mempool[c]
    BY <2>1, FetchParts
  <2>5. \A c \in Bridge : \A u \in Tx : /\ Idle(net, c, u) => Idle(net', c, u)
                                        /\ Single(net, c, u) => Single(net', c, u)
    <3>1. PICK old : old = net
      OBVIOUS
    <3>2. old \in [Peering -> Seq(Message)] /\ net' = Broadcast(old, b, {}, Announce(t, origin))
      BY <2>1, <3>1, FetchParts
    <3>3. Announce(t, origin) \in Message /\ Announce(t, origin).type = "tx_announce"
      BY DEF Announce, Message
    <3> QED
      BY <3>1, <3>2, <3>3, BroadcastFetch
  <2>6. ASSUME NEW c \in Bridge
        PROVE  /\ NoRepeats(mempool'[c]) /\ NoRepeats(seen'[c]) /\ NoRepeats(requested'[c])
               /\ \A u \in Tx :
                    /\ Has(mempool'[c], u) \/ Has(requested'[c], u) => Has(seen'[c], u)
                    /\ Single(net', c, u)
                    /\ Has(mempool'[c], u) \/ ~Has(requested'[c], u) => Idle(net', c, u)
    <3>1. CASE c = b
      BY <2>1, <2>2, <2>3, <2>5, <3>1, FetchParts
    <3>2. CASE c # b
      <4>1. seen'[c] = seen[c] /\ mempool'[c] = mempool[c] /\ requested'[c] = requested[c]
        BY <2>1, <2>4, <3>2
      <4> QED
        BY <2>5, <4>1, FetchParts
    <3> QED
      BY <3>1, <3>2
  <2> QED
    BY <2>6 DEF FetchInv
<1> QED
  BY <1>1, <1>2

\* A step after which every cache that decides about fetches holds what it held, and every
\* queue less than it held.
LEMMA FetchLess ==
  ASSUME FetchInv, UNCHANGED <<mempool, seen, requested>>,
         \A b \in Bridge : \A t \in Tx : /\ Idle(net, b, t) => Idle(net', b, t)
                                         /\ Single(net, b, t) => Single(net', b, t)
  PROVE  FetchInv'
BY DEF FetchInv

\* An announce is tracked, and a body is requested that is not on its way.
LEMMA FetchAnnounced ==
  ASSUME Roomy, TypeOK, FetchInv, NEW l \in Peering, OnTxAnnounce(l[1], l[2])
  PROVE  FetchInv'
<1> DEFINE b == l[2]
           r == <<l[2], l[1]>>
<1>1. <<l[1], l[2]>> = l /\ b \in Bridge /\ r \in Peering /\ r # l
  BY Opposite
<1>2. PICK m, rest : m = Head(net[l]) /\ rest = Consumed(l[1], l[2])
  OBVIOUS
<1>3. PICK t, tag : t = m.txid /\ tag = (IF m.origin = Absent THEN "untagged" ELSE m.origin)
  OBVIOUS
<1>4. /\ net[l] # <<>> /\ m.type = "tx_announce" /\ mempool' = mempool
      /\ seen' = [seen EXCEPT ![b] = TrackSeen(seen[b], t)]
      /\ IF Wants(b, t, tag)
         THEN /\ requested' = [requested EXCEPT ![b] = TrackRequested(requested[b], t)]
              /\ net' = Send(rest, b, l[1], Request(t))
         ELSE net' = rest /\ requested' = requested
  BY <1>1, <1>2, <1>3 DEF OnTxAnnounce, caches
<1>5. /\ rest \in [Peering -> Seq(Message)] /\ m \in Message
      /\ \A c, u : /\ Idle(net, c, u) => Idle(rest, c, u)
                   /\ Single(net, c, u) => Single(rest, c, u)
  BY <1>2, <1>4, ConsumeFetch, FetchParts
<1>6. t \in Tx
  BY <1>3, <1>5 DEF Message
<1> HIDE DEF b
<1>7. PICK s, q : s = seen[b] /\ q = requested[b]
  OBVIOUS
<1>8. s \in Seq(Tx) /\ q \in Seq(Tx) /\ NoRepeats(s) /\ NoRepeats(q)
  BY <1>1, <1>7, FetchParts
<1>9. NoRepeats(TrackSeen(s, t)) /\ \A u : Has(TrackSeen(s, t), u) <=> Has(s, u) \/ u = t
  BY <1>6, <1>8, AddingEach
<1>10. /\ NoRepeats(seen'[b]) /\ \A u : Has(seen'[b], u) <=> Has(seen[b], u) \/ u = t
       /\ \A c \in Bridge : c # b => seen'[c] = seen[c]
  BY <1>1, <1>4, <1>7, <1>9, FetchParts
<1>11. CASE ~Wants(b, t, tag)
  <2>1. net' = rest /\ requested' = requested
    BY <1>4, <1>11
  <2>2. ASSUME NEW c \in Bridge
        PROVE  /\ NoRepeats(mempool'[c]) /\ NoRepeats(seen'[c]) /\ NoRepeats(requested'[c])
               /\ \A u \in Tx :
                    /\ Has(mempool'[c], u) \/ Has(requested'[c], u) => Has(seen'[c], u)
                    /\ Single(net', c, u)
                    /\ Has(mempool'[c], u) \/ ~Has(requested'[c], u) => Idle(net', c, u)
    <3>1. CASE c = b
      BY <1>4, <1>5, <1>10, <2>1, <3>1, FetchParts
    <3>2. CASE c # b
      BY <1>4, <1>5, <1>10, <2>1, <3>2, FetchParts
    <3> QED
      BY <3>1, <3>2
  <2> QED
    BY <2>2 DEF FetchInv
<1>12. CASE Wants(b, t, tag)
  <2>1. ~Has(mempool[b], t) /\ ~Has(requested[b], t) /\ Idle(net, b, t)
    <3>1. ~Has(mempool[b], t) /\ (b \in Selective => ~Has(requested[b], t))
          /\ (b \notin Selective => ~Has(seen[b], t))
      BY <1>12 DEF Wants
    <3> QED
      BY <1>1, <1>6, <3>1, FetchParts
  <2>2. NoRepeats(TrackRequested(q, t)) /\ \A u : Has(TrackRequested(q, t), u) <=> Has(q, u) \/ u = t
    BY <1>6, <1>7, <1>8, <2>1, AddingEach
  <2>3. /\ NoRepeats(requested'[b])
        /\ \A u : Has(requested'[b], u) <=> Has(requested[b], u) \/ u = t
        /\ \A c \in Bridge : c # b => requested'[c] = requested[c]
    BY <1>1, <1>4, <1>7, <1>12, <2>2, FetchParts
  <2>4. ASSUME NEW c \in Bridge, NEW u \in Tx
        PROVE  /\ Idle(net, c, u) /\ (c # b \/ u # t) => Idle(net', c, u)
               /\ Single(net, c, u) /\ (c # b \/ u # t) => Single(net', c, u)
               /\ Idle(net, c, u) => Single(net', c, u)
    <3>1. Request(t) \in Message /\ (c # b \/ u # t => ~Fetches(Request(t), r, c, u))
      BY <1>6 DEF Request, Message, Fetches, b
    <3>2. PICK req : req = Request(t)
      OBVIOUS
    <3>3. net' = rest \/ net' = Queued(rest, r, req)
      BY <1>4, <1>12, <3>2 DEF Send, Queued, b
    <3>4. /\ Idle(rest, c, u) => Single(Queued(rest, r, req), c, u)
          /\ ~Fetches(req, r, c, u) /\ Idle(rest, c, u) => Idle(Queued(rest, r, req), c, u)
          /\ ~Fetches(req, r, c, u) /\ Single(rest, c, u) => Single(Queued(rest, r, req), c, u)
      <4> HIDE DEF r
      <4> QED
        BY <1>1, <1>5, <3>1, <3>2, AppendFetch
    <3>5. Idle(rest, c, u) => Single(rest, c, u)
      BY DEF Idle, Single
    <3> HIDE DEF r
    <3>6. CASE net' = rest
      BY <1>5, <3>5, <3>6
    <3>7. CASE net' = Queued(rest, r, req)
      BY <1>5, <3>1, <3>2, <3>4, <3>7
    <3> QED
      BY <3>3, <3>6, <3>7
  <2>5. ASSUME NEW c \in Bridge
        PROVE  /\ NoRepeats(mempool'[c]) /\ NoRepeats(seen'[c]) /\ NoRepeats(requested'[c])
               /\ \A u \in Tx :
                    /\ Has(mempool'[c], u) \/ Has(requested'[c], u) => Has(seen'[c], u)
                    /\ Single(net', c, u)
                    /\ Has(mempool'[c], u) \/ ~Has(requested'[c], u) => Idle(net', c, u)
    <3>1. CASE c = b
      BY <1>4, <1>10, <2>1, <2>3, <2>4, <3>1, FetchParts
    <3>2. CASE c # b
      BY <1>4, <1>10, <2>3, <2>4, <3>2, FetchParts
    <3> QED
      BY <3>1, <3>2
  <2> QED
    BY <2>5 DEF FetchInv
<1> QED
  BY <1>11, <1>12

\* A request gives way to its answer.
LEMMA FetchRequested ==
  ASSUME TypeOK, FetchInv, NEW l \in Peering, OnTxRequest(l[1], l[2])
  PROVE  FetchInv'
<1> DEFINE r == <<l[2], l[1]>>
<1>1. <<l[1], l[2]>> = l /\ l[1] \in Bridge /\ l[2] \in Bridge /\ r \in Peering
  BY Opposite
<1>2. PICK m, rest : m = Head(net[l]) /\ rest = Consumed(l[1], l[2])
  OBVIOUS
<1>3. PICK t, body : t = m.txid /\ body = Body(t, txOrigins[l[2]][t])
  OBVIOUS
<1>4. /\ net[l] # <<>> /\ m.type = "tx_request"
      /\ net' = rest \/ net' = Queued(rest, r, body)
      /\ UNCHANGED <<mempool, seen, requested>>
  BY <1>1, <1>2, <1>3 DEF OnTxRequest, Send, Queued, caches
<1>5. /\ rest \in [Peering -> Seq(Message)] /\ m \in Message
      /\ \A c, u : /\ Idle(net, c, u) => Idle(rest, c, u)
                   /\ Single(net, c, u) => Single(rest, c, u)
                   /\ Single(net, c, u) /\ Fetches(m, l, c, u) => Idle(rest, c, u)
                   /\ Fetches(m, l, c, u) => ~Idle(net, c, u)
  BY <1>2, <1>4, ConsumeFetch, FetchParts
<1>6. t \in Tx
  BY <1>3, <1>5 DEF Message
<1>7. body \in Message /\ body.type = "tx" /\ body.txid = t
  <2>1. txOrigins[l[2]][t] \in Tag \cup {Absent}
    BY <1>1, <1>6, FetchParts
  <2> QED
    BY <1>3, <1>6, <2>1 DEF Body, Message
<1>8. ASSUME NEW c \in Bridge, NEW u \in Tx
      PROVE  /\ Idle(net, c, u) => Idle(net', c, u)
             /\ Single(net, c, u) => Single(net', c, u)
  <2>1. CASE net' = rest
    BY <1>5, <2>1
  <2>2. CASE net' = Queued(rest, r, body)
    <3>1. m.txid = t /\ m.type = "tx_request"
      BY <1>3, <1>4
    <3>2. Fetches(body, r, c, u) <=> c = l[1] /\ u = t
      BY <1>7 DEF Fetches
    <3>3. Fetches(m, l, l[1], t)
      BY <3>1 DEF Fetches
    <3> HIDE DEF r
    <3>4. /\ Idle(rest, c, u) => Single(Queued(rest, r, body), c, u)
          /\ ~Fetches(body, r, c, u) /\ Idle(rest, c, u) => Idle(Queued(rest, r, body), c, u)
          /\ ~Fetches(body, r, c, u) /\ Single(rest, c, u) => Single(Queued(rest, r, body), c, u)
      BY <1>1, <1>5, <1>7, AppendFetch
    <3>5. CASE c = l[1] /\ u = t
      BY <1>5, <2>2, <3>3, <3>4, <3>5
    <3>6. CASE ~(c = l[1] /\ u = t)
      BY <1>5, <2>2, <3>2, <3>4, <3>6
    <3> QED
      BY <3>5, <3>6
  <2> QED
    BY <1>4, <2>1, <2>2
<1> QED
  BY <1>4, <1>8, FetchLess

\* A body that arrives was the only one under way.
LEMMA FetchArrived ==
  ASSUME Roomy, TypeOK, FetchInv, NEW l \in Peering, OnTx(l[1], l[2])
  PROVE  FetchInv'
<1> DEFINE b == l[2]
<1>1. <<l[1], l[2]>> = l /\ b \in Bridge
  BY Opposite
<1>2. PICK m, rest : m = Head(net[l]) /\ rest = Consumed(l[1], l[2])
  OBVIOUS
<1>3. PICK t, origin : /\ t = m.txid
                       /\ origin = IF m.origin = Absent THEN txOrigins[b][t] ELSE m.origin
  OBVIOUS
<1>4. PICK told : told = Announce(t, ReannounceOrigin(origin))
  OBVIOUS
<1>5. /\ net[l] # <<>> /\ m.type = "tx" /\ UNCHANGED <<seen, requested>>
      /\ IF Has(mempool[b], t) THEN net' = rest /\ mempool' = mempool
         ELSE /\ mempool' = [mempool EXCEPT ![b] = StoreTx(mempool[b], t)]
              /\ net' = Broadcast(rest, b, {l[1]}, told)
  BY <1>1, <1>2, <1>3, <1>4 DEF OnTx
<1>6. /\ rest \in [Peering -> Seq(Message)] /\ m \in Message
      /\ \A c, u : /\ Idle(net, c, u) => Idle(rest, c, u)
                   /\ Single(net, c, u) => Single(rest, c, u)
                   /\ Single(net, c, u) /\ Fetches(m, l, c, u) => Idle(rest, c, u)
                   /\ Fetches(m, l, c, u) => ~Idle(net, c, u)
  BY <1>2, <1>5, ConsumeFetch, FetchParts
<1>7. t \in Tx /\ m.origin \in Tag \cup {Absent}
  BY <1>3, <1>5, <1>6 DEF Message
<1>8. told \in Message /\ told.type = "tx_announce"
  <2>1. origin \in Tag \cup {Absent}
    BY <1>1, <1>3, <1>7, FetchParts
  <2>2. ReannounceOrigin(origin) \in Tag \cup {Absent}
    BY <2>1 DEF ReannounceOrigin
  <2> QED
    BY <1>4, <1>7, <2>2 DEF Announce, Message
<1>9. Fetches(m, l, b, t)
  BY <1>3, <1>5 DEF Fetches
<1>10. Has(requested[b], t) /\ Has(seen[b], t) /\ ~Has(mempool[b], t) /\ Idle(rest, b, t)
  BY <1>1, <1>6, <1>7, <1>9, FetchParts
<1> HIDE DEF b
<1>11. PICK s : s = mempool[b]
  OBVIOUS
<1>12. NoRepeats(StoreTx(s, t)) /\ \A u : Has(StoreTx(s, t), u) <=> Has(s, u) \/ u = t
  BY <1>1, <1>7, <1>10, <1>11, AddingEach, FetchParts
<1>13. /\ NoRepeats(mempool'[b]) /\ \A u : Has(mempool'[b], u) <=> Has(mempool[b], u) \/ u = t
       /\ \A c \in Bridge : c # b => mempool'[c] = mempool[c]
  BY <1>1, <1>5, <1>10, <1>11, <1>12, FetchParts
<1>14. net' = Broadcast(rest, b, {l[1]}, told)
  BY <1>5, <1>10
<1>15. \A c, u : /\ Idle(rest, c, u) => Idle(net', c, u)
                 /\ Single(rest, c, u) => Single(net', c, u)
  BY <1>6, <1>8, <1>14, BroadcastFetch
<1>16. ASSUME NEW c \in Bridge
       PROVE  /\ NoRepeats(mempool'[c]) /\ NoRepeats(seen'[c]) /\ NoRepeats(requested'[c])
              /\ \A u \in Tx :
                   /\ Has(mempool'[c], u) \/ Has(requested'[c], u) => Has(seen'[c], u)
                   /\ Single(net', c, u)
                   /\ Has(mempool'[c], u) \/ ~Has(requested'[c], u) => Idle(net', c, u)
  <2>1. CASE c = b
    BY <1>5, <1>6, <1>10, <1>13, <1>15, <2>1, FetchParts
  <2>2. CASE c # b
    BY <1>5, <1>6, <1>13, <1>15, <2>2, FetchParts
  <2> QED
    BY <2>1, <2>2
<1> QED
  BY <1>16 DEF FetchInv

\* A break only takes messages away.
LEMMA FetchDrop ==
  ASSUME TypeOK, FetchInv, NEW l \in Peering, Drop(l[1], l[2]) PROVE FetchInv'
<1> DEFINE r == <<l[2], l[1]>>
<1>1. <<l[1], l[2]>> = l /\ r \in Peering /\ r # l
  BY Opposite
<1>2. PICK old, new : old = net /\ new = net'
  OBVIOUS
<1>3. UNCHANGED <<mempool, seen, requested>> /\ old \in [Peering -> Seq(Message)]
  BY <1>2, FetchParts DEF Drop, caches
<1>4. PICK i \in 0 .. Len(old[l]), j \in 0 .. Len(old[r]) :
        new = [old EXCEPT ![l] = SubSeq(@, 1, i), ![r] = SubSeq(@, 1, j)]
  BY <1>1, <1>2 DEF Drop
<1> HIDE DEF r
<1>5. new[l] = SubSeq(old[l], 1, i) /\ new[r] = SubSeq(old[r], 1, j)
      /\ \A k \in Peering : k # l /\ k # r => new[k] = old[k]
  BY <1>1, <1>3, <1>4
<1>6. ASSUME NEW s \in Seq(Message), NEW n \in 0 .. Len(s)
      PROVE  /\ Len(SubSeq(s, 1, n)) \in Nat
             /\ \A x \in 1 .. Len(SubSeq(s, 1, n)) :
                  x + 0 \in 1 .. Len(s) /\ SubSeq(s, 1, n)[x] = s[x + 0]
  <2>1. /\ Len(SubSeq(s, 1, n)) = n /\ Len(s) \in Nat
        /\ \A x \in 1 .. n : SubSeq(s, 1, n)[x] = s[x]
    OBVIOUS
  <2>2. \A x \in 1 .. n : x + 0 \in 1 .. Len(s) /\ x + 0 = x
    BY <2>1
  <2> QED
    BY <2>1, <2>2
<1>7. ASSUME NEW k \in Peering
      PROVE  /\ Len(new[k]) \in Nat
             /\ \A x \in 1 .. Len(new[k]) : x + 0 \in 1 .. Len(old[k]) /\ new[k][x] = old[k][x + 0]
  <2>1. old[k] \in Seq(Message) /\ Len(old[k]) \in 0 .. Len(old[k]) /\ Len(old[k]) \in Nat
    BY <1>3
  <2>2. CASE k = l
    BY <1>5, <1>6, <2>1, <2>2
  <2>3. CASE k = r
    BY <1>5, <1>6, <2>1, <2>3
  <2>4. CASE k # l /\ k # r
    <3>1. new[k] = old[k]
      BY <1>5, <2>4
    <3> QED
      BY <2>1, <3>1
  <2> QED
    BY <2>2, <2>3, <2>4
<1>8. Stretch(new, old) /\ \A k \in Peering : Len(new[k]) \in Nat
  BY <1>7 DEF Stretch
<1>9. \A b \in Bridge : \A t \in Tx : /\ Idle(old, b, t) => Idle(new, b, t)
                                      /\ Single(old, b, t) => Single(new, b, t)
  BY <1>8, StretchKeeps
<1> QED
  BY <1>2, <1>3, <1>9, FetchLess

LEMMA FetchInit == Init => FetchInv
<1> SUFFICES ASSUME Init PROVE FetchInv
  OBVIOUS
<1>1. \A t : ~Has(<<>>, t)
  BY DEF Has, Range
<1>2. ASSUME NEW l \in Peering PROVE net[l] = <<>>
  BY DEF Init
<1>3. \A b, t : Idle(net, b, t) /\ Single(net, b, t)
  BY <1>2 DEF Idle, Single
<1>4. NoRepeats(<<>>)
  BY DEF NoRepeats
<1> QED
  BY <1>1, <1>3, <1>4 DEF Init, FetchInv

LEMMA FetchStep == ASSUME Roomy, TypeOK, FetchInv, [Next]_vars PROVE FetchInv'
<1>1. ASSUME NEW b \in Bridge, NEW t \in Tx, SubmitWrite(b, t) \/ ObserveP2P(b, t)
      PROVE  FetchInv'
  <2>1. PICK origin \in Tag \cup {Absent} : BroadcastTx(b, t, origin)
    BY <1>1 DEF SubmitWrite, ObserveP2P, Tag
  <2> QED
    BY <2>1, FetchBroadcast
<1>2. ASSUME NEW l \in Peering, OnTxAnnounce(l[1], l[2]) PROVE FetchInv'
  BY <1>2, FetchAnnounced
<1>3. ASSUME NEW l \in Peering, OnTxRequest(l[1], l[2]) PROVE FetchInv'
  BY <1>3, FetchRequested
<1>4. ASSUME NEW l \in Peering, OnTx(l[1], l[2]) PROVE FetchInv'
  BY <1>4, FetchArrived
<1>5. ASSUME NEW l \in Peering, Drop(l[1], l[2]) PROVE FetchInv'
  BY <1>5, FetchDrop
<1>6. ASSUME UNCHANGED <<mempool, seen, requested, net>> PROVE FetchInv'
  BY <1>6 DEF FetchInv
<1>7. ASSUME NEW l \in Peering, Reconnect(l[1], l[2]) PROVE FetchInv'
  BY <1>6, <1>7 DEF Reconnect, caches
<1>8. CASE UNCHANGED vars
  BY <1>6, <1>8 DEF vars, caches
<1> QED
  BY <1>1, <1>2, <1>3, <1>4, <1>5, <1>7, <1>8 DEF Next

\* What is under way in the terms of the property.
LEMMA FetchedOnce == ASSUME TypeOK, FetchInv PROVE OneFetchPerTx
<1> SUFFICES ASSUME NEW b \in Bridge, NEW t \in Tx
             PROVE  LET sent     == {l \in Peering : l[1] = b}
                        received == {l \in Peering : l[2] = b}
                        underWay == (UNION {{l} \X About(l, "tx_request", t) : l \in sent})
                                      \cup (UNION {{l} \X About(l, "tx", t) : l \in received})
                    IN  /\ \A x, y \in underWay : x = y
                        /\ Has(mempool[b], t) => underWay = {}
  BY DEF OneFetchPerTx
<1> DEFINE sent     == {l \in Peering : l[1] = b}
           received == {l \in Peering : l[2] = b}
           asked    == UNION {{l} \X About(l, "tx_request", t) : l \in sent}
           answers  == UNION {{l} \X About(l, "tx", t) : l \in received}
           underWay == (UNION {{l} \X About(l, "tx_request", t) : l \in sent})
                         \cup (UNION {{l} \X About(l, "tx", t) : l \in received})
<1>0. underWay = asked \cup answers
  OBVIOUS
<1>1. ASSUME NEW x \in underWay
      PROVE  \E l \in Peering : \E i \in 1 .. Len(net[l]) :
               x = <<l, i>> /\ Fetches(net[l][i], l, b, t)
  <2>1. CASE x \in asked
    <3>1. PICK l \in sent : x \in {l} \X About(l, "tx_request", t)
      BY <2>1
    <3>2. PICK i \in About(l, "tx_request", t) : x = <<l, i>>
      BY <3>1
    <3> QED
      BY <3>1, <3>2 DEF About, Fetches
  <2>2. CASE x \in answers
    <3>1. PICK l \in received : x \in {l} \X About(l, "tx", t)
      BY <2>2
    <3>2. PICK i \in About(l, "tx", t) : x = <<l, i>>
      BY <3>1
    <3> QED
      BY <3>1, <3>2 DEF About, Fetches
  <2> HIDE DEF asked, answers, underWay
  <2> QED
    BY <1>0, <1>1, <2>1, <2>2
<1>2. Single(net, b, t) /\ (Has(mempool[b], t) => Idle(net, b, t))
  BY FetchParts
<1> HIDE DEF underWay
<1>3. \A x, y \in underWay : x = y
  BY <1>1, <1>2 DEF Single
<1>4. Has(mempool[b], t) => underWay = {}
  BY <1>1, <1>2 DEF Idle
<1> QED
  BY <1>3, <1>4 DEF underWay

\* On any mesh, with any loss, if no cache can overflow: a bridge asks for a body once, and
\* never for one that it holds (_onTxAnnounce).
THEOREM TxFetchedOnce ==
  ASSUME Roomy PROVE Spec => []OneFetchPerTx
<1>1. Init => TypeOK /\ FetchInv
  BY TxInit, FetchInit DEF TxInv
<1>2. TxInv /\ FetchInv /\ [Next]_vars => FetchInv'
  BY FetchStep DEF TxInv
<1>3. TxInv /\ FetchInv => OneFetchPerTx
  BY FetchedOnce DEF TxInv
<1>4. Spec => []FetchInv
  BY <1>1, <1>2, TxInvariant, PTL DEF Spec
<1> QED
  BY <1>3, <1>4, TxInvariant, PTL
==============================================================================
