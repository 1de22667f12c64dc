----------------------------- MODULE GossipProofs -----------------------------
(***************************************************************************)
(* Proofs about Gossip, whatever bridges, connections, periods and plans:  *)
(* directories hold what was once so, and an announcement that nothing     *)
(* disturbs sets right every directory it can reach.                       *)
(***************************************************************************)
EXTENDS Gossip, Functions, TLAPS

\* What may be under way.
Peers == [type : {"peers"}, peers : UNION {[S -> Nat] : S \in SUBSET Bridge}]
Messages == Announce \cup [type : {"getpeers"}] \cup Peers

\* What a message says of a bridge was so at some time.
Truthful(m) ==
  /\ m.type = "announce" => m.endpoint <= endpoint[m.from] /\ m.stamp < stamp[m.from]
  /\ m.type = "peers" => \A q \in DOMAIN m.peers : m.peers[q] <= endpoint[q]

\* The types, and of directories, dedup sets and messages that they hold what was so.
Shape ==
  /\ directory \in [Bridge -> [Bridge -> Entry \cup {None}]]
  /\ endpoint \in [Bridge -> Nat] /\ stamp \in [Bridge -> Nat]
  /\ seen \in [Bridge -> SUBSET (Bridge \X Nat)]
  /\ alive \subseteq Bridge /\ due \subseteq alive
  /\ up \subseteq {l \in Peering : l[1] \in alive /\ l[2] \in alive}
  /\ net \in [Peering -> Seq(Messages)]
  /\ tick \in 0 .. RefreshEvery - 1 /\ calm \in [Bridge -> BOOLEAN] /\ left \in Plan
Truth ==
  /\ \A b, q \in Bridge : directory[b][q] # None =>
       b # q /\ directory[b][q].endpoint <= endpoint[q]
  /\ \A b \in Bridge : \A s \in seen[b] : s[2] < stamp[s[1]]
  /\ \A l \in Peering : \A m \in Range(net[l]) : Truthful(m)

\* The last announcement of b, and whether q has processed it.
Last(b) == <<b, stamp[b] - 1>>
Knows(q, b) == Last(b) \in seen[q]

\* An undisturbed announcement on its way: nothing but announcements are under way, those
\* of b are the last one with its endpoint; whoever knows it has entered that endpoint,
\* and on each of its connections the other side knows it too or is about to hear it.
OnlyAnnounces(b) ==
  \A l \in Peering : \A m \in Range(net[l]) :
    /\ m.type = "announce"
    /\ m.from = b => m.stamp = stamp[b] - 1 /\ m.endpoint = endpoint[b] /\ Knows(l[1], b)
Spreads(b) ==
  \A l \in up : Knows(l[1], b) =>
    Knows(l[2], b) \/ \E m \in Range(net[l]) : m.from = b
Entered(b) ==
  \A q \in Bridge \ {b} : Knows(q, b) =>
    directory[q][b] # None /\ directory[q][b].endpoint = endpoint[b]
Healing ==
  \A b \in Bridge : calm[b] =>
    stamp[b] > 0 /\ Knows(b, b) /\ OnlyAnnounces(b) /\ Spreads(b) /\ Entered(b)

HealInv == Shape /\ Truth /\ Healing

------------------------------------------------------------------------------
\* A link and its opposite.
LEMMA Links ==
  ASSUME NEW l \in Peering
  PROVE  /\ <<l[1], l[2]>> = l /\ <<l[2], l[1]>> \in Peering /\ l[1] # l[2]
         /\ l[1] \in Bridge /\ l[2] \in Bridge
BY PeeringAssumption

\* The remainder of the next tick.
LEMMA NextTick ==
  ASSUME NEW t \in 0 .. RefreshEvery - 1 PROVE (t + 1) % RefreshEvery \in 0 .. RefreshEvery - 1
BY TimeAssumption

\* The fields of a message.
LEMMA Fields ==
  ASSUME NEW m \in Messages
  PROVE  /\ m.type \in {"announce", "getpeers", "peers"}
         /\ m.type = "announce" =>
              m \in Announce /\ m.from \in Bridge /\ m.endpoint \in Nat /\ m.stamp \in Nat
         /\ m.type = "peers" =>
              m.peers = [q \in DOMAIN m.peers |-> m.peers[q]] /\ DOMAIN m.peers \subseteq Bridge
              /\ \A q \in DOMAIN m.peers : m.peers[q] \in Nat
<1>1. CASE m \in Announce
  BY <1>1 DEF Announce
<1>2. CASE m \in [type : {"getpeers"}]
  BY <1>2
<1>3. CASE m \in Peers
  <2>1. m.type = "peers" /\ m.peers \in UNION {[S -> Nat] : S \in SUBSET Bridge}
    BY <1>3 DEF Peers
  <2>2. PICK S \in SUBSET Bridge : m.peers \in [S -> Nat]
    BY <2>1
  <2> QED
    BY <2>1, <2>2
<1> QED
  BY <1>1, <1>2, <1>3 DEF Messages

\* A list of peers is a message.
LEMMA Listing ==
  ASSUME NEW S \in SUBSET Bridge, NEW f \in [S -> Nat]
  PROVE  [type |-> "peers", peers |-> f] \in Messages
<1>1. f \in UNION {[T -> Nat] : T \in SUBSET Bridge}
  OBVIOUS
<1> QED
  BY <1>1 DEF Messages, Peers

\* Appending adds one element.
LEMMA RangeAppend ==
  ASSUME NEW S, NEW s \in Seq(S), NEW x \in S
  PROVE  Range(Append(s, x)) = Range(s) \cup {x}
<1>1. /\ Append(s, x) \in Seq(S) /\ Len(Append(s, x)) = Len(s) + 1
      /\ Append(s, x)[Len(s) + 1] = x
      /\ \A i \in 1 .. Len(s) : Append(s, x)[i] = s[i]
  OBVIOUS
<1>2. ASSUME NEW y \in Range(Append(s, x)) PROVE y \in Range(s) \cup {x}
  <2>1. PICK i \in 1 .. Len(s) + 1 : y = Append(s, x)[i]
    BY <1>1 DEF Range
  <2>2. CASE i = Len(s) + 1
    BY <1>1, <2>1, <2>2
  <2>3. CASE i \in 1 .. Len(s)
    BY <1>1, <2>1, <2>3 DEF Range
  <2> QED BY <2>2, <2>3
<1>3. ASSUME NEW y \in Range(s) PROVE y \in Range(Append(s, x))
  <2>1. PICK i \in 1 .. Len(s) : y = s[i]
    BY DEF Range
  <2>2. i \in 1 .. Len(s) + 1 /\ y = Append(s, x)[i]
    BY <1>1, <2>1
  <2> QED
    BY <1>1, <2>2 DEF Range
<1>4. x \in Range(Append(s, x))
  <2>1. Len(s) + 1 \in 1 .. Len(s) + 1
    OBVIOUS
  <2> QED
    BY <1>1, <2>1 DEF Range
<1> QED
  BY <1>2, <1>3, <1>4

\* The queues of the links T get the message m.
Sent(queues, T, m) == [l \in Peering |-> IF l \in T THEN Append(queues[l], m) ELSE queues[l]]

LEMMA Sending ==
  ASSUME NEW queues \in [Peering -> Seq(Messages)], NEW T, NEW m \in Messages
  PROVE  LET new == Sent(queues, T, m) IN
         /\ new \in [Peering -> Seq(Messages)]
         /\ \A l \in Peering :
              /\ Range(queues[l]) \subseteq Range(new[l])
              /\ \A x \in Range(new[l]) : x \in Range(queues[l]) \/ (x = m /\ l \in T)
              /\ l \in T => m \in Range(new[l])
<1> DEFINE new == Sent(queues, T, m)
<1>1. ASSUME NEW l \in Peering
      PROVE  /\ Append(queues[l], m) \in Seq(Messages)
             /\ Range(Append(queues[l], m)) = Range(queues[l]) \cup {m}
  BY RangeAppend
<1>2. new = [l \in Peering |-> IF l \in T THEN Append(queues[l], m) ELSE queues[l]]
  BY DEF Sent
<1> HIDE DEF new
<1>3. new \in [Peering -> Seq(Messages)]
  BY <1>1, <1>2
<1>4. ASSUME NEW l \in Peering
      PROVE  /\ Range(queues[l]) \subseteq Range(new[l])
             /\ \A x \in Range(new[l]) : x \in Range(queues[l]) \/ (x = m /\ l \in T)
             /\ l \in T => m \in Range(new[l])
  <2>1. CASE l \in T
    <3>1. Range(new[l]) = Range(queues[l]) \cup {m}
      BY <1>1, <1>2, <2>1
    <3> QED
      BY <2>1, <3>1
  <2>2. CASE l \notin T
    BY <1>2, <2>2
  <2> QED
    BY <2>1, <2>2
<1> QED
  BY <1>3, <1>4 DEF new

\* Taking the first message off a queue leaves the others.
LEMMA Removing ==
  ASSUME Shape, NEW l \in Peering, net[l] # <<>>
  PROVE  /\ Consumed(l[1], l[2]) \in [Peering -> Seq(Messages)]
         /\ Head(net[l]) \in Messages /\ Head(net[l]) \in Range(net[l])
         /\ \A k \in Peering : Range(Consumed(l[1], l[2])[k]) \subseteq Range(net[k])
         /\ \A k \in Peering : k # l => Consumed(l[1], l[2])[k] = net[k]
         /\ \A m \in Range(net[l]) : m = Head(net[l]) \/ m \in Range(Consumed(l[1], l[2])[l])
<1> DEFINE q == net[l]
           rest == Consumed(l[1], l[2])
<1>1. net \in [Peering -> Seq(Messages)] /\ q \in Seq(Messages) /\ q # <<>>
  BY DEF Shape
<1>2. rest = [net EXCEPT ![l] = Tail(q)]
  BY Links DEF Consumed
<1> HIDE DEF q, rest
<1>3. /\ Tail(q) \in Seq(Messages) /\ Head(q) \in Messages /\ Head(q) = q[1]
      /\ Len(q) \in Nat \ {0} /\ Len(Tail(q)) = Len(q) - 1
      /\ \A i \in 1 .. Len(q) - 1 : Tail(q)[i] = q[i + 1]
      /\ DOMAIN q = 1 .. Len(q) /\ DOMAIN Tail(q) = 1 .. Len(q) - 1
  BY <1>1
<1>4. Head(q) \in Range(q)
  BY <1>3 DEF Range
<1>5. Range(Tail(q)) \subseteq Range(q)
  <2> SUFFICES ASSUME NEW m \in Range(Tail(q)) PROVE m \in Range(q)
    OBVIOUS
  <2>1. PICK i \in 1 .. Len(q) - 1 : m = Tail(q)[i]
    BY <1>3 DEF Range
  <2>2. i + 1 \in 1 .. Len(q) /\ m = q[i + 1]
    BY <1>3, <2>1
  <2> QED
    BY <1>3, <2>2 DEF Range
<1>6. ASSUME NEW m \in Range(q) PROVE m = Head(q) \/ m \in Range(Tail(q))
  <2>1. PICK i \in 1 .. Len(q) : m = q[i]
    BY <1>3 DEF Range
  <2>2. CASE i = 1
    BY <1>3, <2>1, <2>2
  <2>3. CASE i # 1
    <3>1. i - 1 \in 1 .. Len(q) - 1 /\ (i - 1) + 1 = i
      BY <1>3, <2>3
    <3>2. m = Tail(q)[i - 1]
      BY <1>3, <2>1, <3>1
    <3> QED
      BY <1>3, <3>1, <3>2 DEF Range
  <2> QED
    BY <2>2, <2>3
<1>7. rest \in [Peering -> Seq(Messages)] /\ rest[l] = Tail(q)
      /\ \A k \in Peering : k # l => rest[k] = net[k]
  BY <1>1, <1>2, <1>3
<1>8. \A k \in Peering : Range(rest[k]) \subseteq Range(net[k])
  BY <1>5, <1>7 DEF q
<1> QED
  BY <1>3, <1>4, <1>6, <1>7, <1>8 DEF q, rest

\* The connections of b but the one with except.
Connected(b, except) == {l \in up : l[1] = b /\ l[2] # except}

------------------------------------------------------------------------------
(* One lemma per action.                                                    *)

\* While an announcement is undisturbed nothing but announcements is under way.
LEMMA Undisturbed ==
  ASSUME HealInv, NEW l \in Peering, NEW m \in Range(net[l]), m.type # "announce",
         NEW b \in Bridge
  PROVE  ~calm[b]
BY DEF HealInv, Healing, OnlyAnnounces

\* If no announcement is undisturbed there is nothing to show of them.
LEMMA Disturbed ==
  ASSUME Shape', Truth', \A b \in Bridge : ~calm'[b] PROVE HealInv'
BY DEF HealInv, Healing

\* An entry that is set.
LEMMA SeenEntry ==
  ASSUME NEW n \in Nat
  PROVE  Seen(n) \in Entry /\ Seen(n) # None /\ Seen(n).endpoint = n
<1>1. Seen(n) \in Entry /\ Seen(n).endpoint = n
  BY TimeAssumption DEF Seen, Entry, Endpoints
<1>2. None \notin Entry
  BY NoneAssumption DEF Entry, Endpoints
<1> QED
  BY <1>1, <1>2

\* The parts of the invariant that the steps use, one by one.
LEMMA Parts ==
  ASSUME HealInv
  PROVE  /\ directory \in [Bridge -> [Bridge -> Entry \cup {None}]]
         /\ endpoint \in [Bridge -> Nat] /\ stamp \in [Bridge -> Nat]
         /\ seen \in [Bridge -> SUBSET (Bridge \X Nat)]
         /\ alive \subseteq Bridge /\ due \subseteq alive
         /\ up \subseteq {l \in Peering : l[1] \in alive /\ l[2] \in alive}
         /\ net \in [Peering -> Seq(Messages)]
         /\ tick \in 0 .. RefreshEvery - 1 /\ calm \in [Bridge -> BOOLEAN] /\ left \in Plan
         /\ \A b, q \in Bridge : directory[b][q] # None =>
              /\ directory[b][q] \in Entry
              /\ b # q /\ directory[b][q].endpoint <= endpoint[q]
         /\ \A b \in Bridge : \A s \in seen[b] : s[2] < stamp[s[1]]
         /\ \A l \in Peering : \A m \in Range(net[l]) : m \in Messages /\ Truthful(m)
         /\ Shape /\ Truth /\ Healing
<1>1. Shape /\ Truth /\ Healing
  BY DEF HealInv
<1>2. \A l \in Peering : \A m \in Range(net[l]) : m \in Messages
  BY <1>1 DEF Shape, Range
<1>3. \A b, q \in Bridge : directory[b][q] # None => directory[b][q] \in Entry
  BY <1>1 DEF Shape
<1> QED
  BY <1>1, <1>2, <1>3 DEF Shape, Truth

\* A bridge announces itself.
LEMMA AnnounceStep ==
  ASSUME HealInv, NEW b \in Bridge, BroadcastAnnounce(b) PROVE HealInv'
<1> DEFINE m == [type |-> "announce", from |-> b, endpoint |-> endpoint[b], stamp |-> stamp[b]]
           id == <<b, stamp[b]>>
<1>1. /\ b \in alive /\ left.announces[b] > 0
      /\ left' = [left EXCEPT !.announces[b] = @ - 1]
      /\ stamp' = [stamp EXCEPT ![b] = stamp[b] + 1]
      /\ seen' = [seen EXCEPT ![b] = seen[b] \cup {id}]
      /\ net' = Broadcast(net, b, m, b)
      /\ calm' = [calm EXCEPT ![b] = Quiet]
      /\ UNCHANGED <<directory, endpoint, alive, up, tick, due>>
  BY DEF BroadcastAnnounce
<1>2. m \in Messages /\ m.type = "announce" /\ m.from = b /\ m.endpoint = endpoint[b]
      /\ m.stamp = stamp[b]
  BY Parts DEF Messages, Announce
<1>3. /\ stamp' \in [Bridge -> Nat] /\ stamp'[b] = stamp[b] + 1
      /\ \A q \in Bridge : q # b => stamp'[q] = stamp[q]
      /\ \A q \in Bridge : stamp[q] <= stamp'[q]
  BY <1>1, Parts
<1>4. /\ seen' \in [Bridge -> SUBSET (Bridge \X Nat)]
      /\ seen'[b] = seen[b] \cup {id}
      /\ \A q \in Bridge : q # b => seen'[q] = seen[q]
  <2>1. id \in Bridge \X Nat
    BY Parts
  <2> HIDE DEF id
  <2> QED
    BY <1>1, <2>1, Parts
<1> HIDE DEF m
<1>5. /\ net' \in [Peering -> Seq(Messages)]
      /\ \A l \in Peering :
           /\ Range(net[l]) \subseteq Range(net'[l])
           /\ \A x \in Range(net'[l]) : x \in Range(net[l]) \/ (x = m /\ l[1] = b)
           /\ l[1] = b /\ l \in up /\ l[2] # b => m \in Range(net'[l])
  <2>1. net' = Sent(net, Connected(b, b), m) /\ net \in [Peering -> Seq(Messages)]
    BY <1>1, Parts DEF Broadcast, Sent, Connected
  <2> DEFINE T == Connected(b, b)
  <2>2. \A l \in Peering : l \in T <=> l[1] = b /\ l \in up /\ l[2] # b
    BY DEF Connected
  <2> HIDE DEF T
  <2>3. /\ net' \in [Peering -> Seq(Messages)]
        /\ \A l \in Peering :
             /\ Range(net[l]) \subseteq Range(net'[l])
             /\ \A x \in Range(net'[l]) : x \in Range(net[l]) \/ (x = m /\ l \in T)
             /\ l \in T => m \in Range(net'[l])
    BY <1>2, <2>1, Sending DEF T
  <2> QED
    BY <2>2, <2>3
<1>6. left' \in Plan
  <2>1. left.announces \in [Bridge -> Nat] /\ left \in Plan
    BY Parts DEF Plan
  <2> DEFINE announces == [left.announces EXCEPT ![b] = left.announces[b] - 1]
  <2>2. announces \in [Bridge -> Nat] /\ left' = [left EXCEPT !.announces = announces]
    BY <1>1, <2>1
  <2> HIDE DEF announces
  <2> QED
    BY <2>1, <2>2 DEF Plan
<1>7. calm' \in [Bridge -> BOOLEAN]
  BY <1>1, Parts DEF Quiet
<1>8. Shape'
  BY <1>1, <1>3, <1>4, <1>5, <1>6, <1>7, Parts DEF Shape
<1>9. Truth'
  <2>1. \A q \in Bridge : \A s \in seen'[q] : s[2] < stamp'[s[1]]
    <3> SUFFICES ASSUME NEW q \in Bridge, NEW s \in seen'[q] PROVE s[2] < stamp'[s[1]]
      OBVIOUS
    <3>1. CASE s \in seen[q]
      <4>1. s[1] \in Bridge /\ s[2] \in Nat /\ s[2] < stamp[s[1]]
        BY <3>1, Parts
      <4> QED
        BY <1>3, <4>1, Parts
    <3>2. CASE s = id
      BY <1>3, <3>2, Parts
    <3> QED
      BY <1>4, <3>1, <3>2
  <2>2. \A l \in Peering : \A x \in Range(net'[l]) : Truthful(x)'
    <3> SUFFICES ASSUME NEW l \in Peering, NEW x \in Range(net'[l]) PROVE Truthful(x)'
      OBVIOUS
    <3>1. CASE x \in Range(net[l])
      <4>1. x \in Messages /\ Truthful(x)
        BY <3>1, Parts
      <4>2. x.type = "announce" => x.from \in Bridge /\ x.stamp \in Nat
        BY <4>1, Fields
      <4>3. x.type = "announce" => x.stamp < stamp'[x.from]
        BY <1>3, <4>1, <4>2, Parts DEF Truthful
      <4> QED
        BY <1>1, <4>1, <4>3 DEF Truthful
    <3>2. CASE x = m
      BY <1>1, <1>2, <1>3, <3>2, Parts DEF Truthful
    <3> QED
      BY <1>5, <3>1, <3>2
  <2> QED
    BY <1>1, <2>1, <2>2, Parts DEF Truth
<1>10. ASSUME NEW c \in Bridge, calm'[c], c # b
       PROVE  stamp'[c] > 0 /\ Knows(c, c)' /\ OnlyAnnounces(c)' /\ Spreads(c)' /\ Entered(c)'
  <2>1. calm[c] /\ stamp'[c] = stamp[c]
    BY <1>1, <1>3, <1>10, Parts
  <2>2. stamp[c] > 0 /\ Knows(c, c) /\ OnlyAnnounces(c) /\ Spreads(c) /\ Entered(c)
    BY <2>1, Parts DEF Healing
  <2>3. \A q \in Bridge : Knows(q, c)' <=> Knows(q, c)
    BY <1>4, <1>10, <2>1 DEF Knows, Last
  <2>4. OnlyAnnounces(c)'
    <3> SUFFICES ASSUME NEW l \in Peering, NEW x \in Range(net'[l])
                 PROVE  /\ x.type = "announce"
                        /\ x.from = c => /\ x.stamp = stamp'[c] - 1
                                         /\ x.endpoint = endpoint'[c] /\ Knows(l[1], c)'
      BY DEF OnlyAnnounces
    <3>1. CASE x \in Range(net[l])
      BY <1>1, <2>1, <2>2, <2>3, <3>1, Links DEF OnlyAnnounces
    <3>2. CASE x = m
      BY <1>2, <1>10, <3>2
    <3> QED
      BY <1>5, <3>1, <3>2
  <2>5. Spreads(c)'
    <3>1. \A l \in up : l \in Peering /\ l[1] \in Bridge /\ l[2] \in Bridge
      BY Parts, Links
    <3> QED
      BY <1>1, <1>5, <2>2, <2>3, <3>1 DEF Spreads
  <2>6. Entered(c)'
    BY <1>1, <2>2, <2>3 DEF Entered
  <2> QED
    BY <2>1, <2>2, <2>3, <2>4, <2>5, <2>6
<1>11. ASSUME calm'[b]
       PROVE  stamp'[b] > 0 /\ Knows(b, b)' /\ OnlyAnnounces(b)' /\ Spreads(b)' /\ Entered(b)'
  <2>1. \A l \in Peering : Range(net[l]) = {}
    <3>1. Quiet
      BY <1>1, <1>11, Parts
    <3>2. Range(<<>>) = {}
      BY DEF Range
    <3> QED
      BY <3>1, <3>2 DEF Quiet
  <2>2. stamp[b] \in Nat /\ stamp'[b] - 1 = stamp[b]
    BY <1>3, Parts
  <2>3. \A q \in Bridge : id \notin seen[q]
    BY <2>2, Parts
  <2>4. \A q \in Bridge : Knows(q, b)' <=> q = b
    BY <1>4, <2>2, <2>3 DEF Knows, Last
  <2>5. OnlyAnnounces(b)'
    BY <1>1, <1>2, <1>5, <2>1, <2>2, <2>4 DEF OnlyAnnounces
  <2>6. Spreads(b)'
    <3> SUFFICES ASSUME NEW l \in up, Knows(l[1], b)'
                 PROVE  \E x \in Range(net'[l]) : x.from = b
      BY <1>1 DEF Spreads
    <3>1. l \in Peering /\ l[1] \in Bridge /\ l[1] # l[2]
      BY Parts, Links
    <3>2. l[1] = b /\ l[2] # b
      BY <2>4, <3>1
    <3> QED
      BY <1>2, <1>5, <3>1, <3>2
  <2>7. Entered(b)'
    BY <2>4 DEF Entered
  <2> QED
    BY <1>3, <2>2, <2>4, <2>5, <2>6, <2>7
<1>12. Healing'
  BY <1>10, <1>11 DEF Healing
<1> QED
  BY <1>8, <1>9, <1>12 DEF HealInv

\* A bridge hears an announcement and passes it on.
LEMMA OnAnnounceStep ==
  ASSUME HealInv, NEW l \in Peering, OnAnnounce(l[1], l[2]) PROVE HealInv'
<1>0. PICK m : m = Head(net[l])
  OBVIOUS
<1> DEFINE a == l[1]
           b == l[2]
           f == m.from
           rest == Consumed(a, b)
           id == <<f, m.stamp>>
<1>1. /\ net[l] # <<>> /\ m.type = "announce"
      /\ seen' = [seen EXCEPT ![b] = seen[b] \cup {id}]
      /\ directory' = IF News(b, m) THEN [directory EXCEPT ![b][f] = Seen(m.endpoint)]
                      ELSE directory
      /\ net' = IF News(b, m) THEN Broadcast(rest, b, m, a) ELSE rest
      /\ UNCHANGED <<endpoint, alive, up, tick, due, stamp, calm, left>>
  BY <1>0, Links DEF OnAnnounce, Arrives, Processed, PassesOn
<1>2. /\ rest \in [Peering -> Seq(Messages)] /\ m \in Messages /\ m \in Range(net[l])
      /\ \A k \in Peering : Range(rest[k]) \subseteq Range(net[k])
      /\ \A k \in Peering : k # l => rest[k] = net[k]
      /\ \A x \in Range(net[l]) : x = m \/ x \in Range(rest[l])
  BY <1>0, <1>1, Parts, Removing
<1>3. a \in Bridge /\ b \in Bridge /\ a # b
  BY Links
<1>4. /\ f \in Bridge /\ m.endpoint \in Nat /\ m.stamp \in Nat
      /\ m.endpoint <= endpoint[f] /\ m.stamp < stamp[f]
  BY <1>1, <1>2, Fields, Parts DEF Truthful
<1>5. News(b, m) <=> id \notin seen[b] /\ f # b
  BY DEF News
<1>6. /\ seen' \in [Bridge -> SUBSET (Bridge \X Nat)]
      /\ seen'[b] = seen[b] \cup {id}
      /\ \A q \in Bridge : q # b => seen'[q] = seen[q]
  <2>1. id \in Bridge \X Nat
    BY <1>4
  <2> HIDE DEF id, b
  <2> QED
    BY <1>1, <1>3, <2>1, Parts
<1> HIDE DEF rest, f, a, b
<1>7. /\ net' \in [Peering -> Seq(Messages)]
      /\ \A k \in Peering :
           /\ Range(rest[k]) \subseteq Range(net'[k])
           /\ \A x \in Range(net'[k]) : x \in Range(rest[k]) \/ (x = m /\ k[1] = b)
           /\ News(b, m) /\ k[1] = b /\ k \in up /\ k[2] # a => m \in Range(net'[k])
  <2>1. CASE ~News(b, m)
    BY <1>1, <1>2, <2>1
  <2>2. CASE News(b, m)
    <3>1. net' = Sent(rest, Connected(b, a), m)
      BY <1>1, <2>2 DEF Broadcast, Sent, Connected
    <3> DEFINE T == Connected(b, a)
    <3>2. \A k \in Peering : k \in T <=> k[1] = b /\ k \in up /\ k[2] # a
      BY DEF Connected
    <3> HIDE DEF T
    <3>3. /\ net' \in [Peering -> Seq(Messages)]
          /\ \A k \in Peering :
               /\ Range(rest[k]) \subseteq Range(net'[k])
               /\ \A x \in Range(net'[k]) : x \in Range(rest[k]) \/ (x = m /\ k \in T)
               /\ k \in T => m \in Range(net'[k])
      BY <1>2, <3>1, Sending DEF T
    <3> QED
      BY <3>2, <3>3
  <2> QED
    BY <2>1, <2>2
<1>8. /\ Seen(m.endpoint) \in Entry /\ Seen(m.endpoint) # None
      /\ Seen(m.endpoint).endpoint = m.endpoint
  BY <1>4, SeenEntry
<1>9. /\ directory' \in [Bridge -> [Bridge -> Entry \cup {None}]]
      /\ News(b, m) => directory'[b][f] = Seen(m.endpoint)
      /\ \A q, c \in Bridge : directory'[q][c] = directory[q][c] \/ (News(b, m) /\ q = b /\ c = f)
  <2>1. CASE ~News(b, m)
    BY <1>1, <2>1, Parts
  <2>2. CASE News(b, m)
    <3> DEFINE row == [directory[b] EXCEPT ![f] = Seen(m.endpoint)]
    <3>1. directory' = [directory EXCEPT ![b] = row]
      BY <1>1, <2>2
    <3>2. row \in [Bridge -> Entry \cup {None}] /\ row[f] = Seen(m.endpoint)
          /\ \A c \in Bridge : c # f => row[c] = directory[b][c]
      BY <1>3, <1>4, <1>8, Parts
    <3> HIDE DEF row
    <3> QED
      BY <1>3, <2>2, <3>1, <3>2, Parts
  <2> QED
    BY <2>1, <2>2
<1>10. Shape'
  BY <1>1, <1>6, <1>7, <1>9, Parts DEF Shape
<1>11. Truth'
  <2>1. \A q, c \in Bridge : directory'[q][c] # None =>
          q # c /\ directory'[q][c].endpoint <= endpoint'[c]
    BY <1>1, <1>4, <1>5, <1>8, <1>9, Parts
  <2>2. \A q \in Bridge : \A s \in seen'[q] : s[2] < stamp'[s[1]]
    <3>1. id[2] < stamp[id[1]]
      BY <1>4
    <3> HIDE DEF id
    <3> QED
      BY <1>1, <1>6, <3>1, Parts
  <2>3. \A k \in Peering : \A x \in Range(net'[k]) : Truthful(x)'
    <3> SUFFICES ASSUME NEW k \in Peering, NEW x \in Range(net'[k]) PROVE Truthful(x)'
      OBVIOUS
    <3>1. Truthful(x)
      BY <1>2, <1>7, Parts
    <3> QED
      BY <1>1, <3>1 DEF Truthful
  <2> QED
    BY <2>1, <2>2, <2>3 DEF Truth
<1>12. ASSUME NEW c \in Bridge, calm'[c], c # f
       PROVE  stamp'[c] > 0 /\ Knows(c, c)' /\ OnlyAnnounces(c)' /\ Spreads(c)' /\ Entered(c)'
  <2>2. stamp[c] > 0 /\ Knows(c, c) /\ OnlyAnnounces(c) /\ Spreads(c) /\ Entered(c)
    BY <1>1, <1>12, Parts DEF Healing
  <2>3. \A q \in Bridge : Knows(q, c)' <=> Knows(q, c)
    BY <1>1, <1>6, <1>12 DEF Knows, Last
  <2>4. OnlyAnnounces(c)'
    <3> SUFFICES ASSUME NEW k \in Peering, NEW x \in Range(net'[k])
                 PROVE  /\ x.type = "announce"
                        /\ x.from = c => /\ x.stamp = stamp'[c] - 1
                                         /\ x.endpoint = endpoint'[c] /\ Knows(k[1], c)'
      BY DEF OnlyAnnounces
    <3>1. CASE x \in Range(net[k])
      BY <1>1, <2>2, <2>3, <3>1, Links DEF OnlyAnnounces
    <3>2. CASE x = m
      BY <1>1, <1>12, <3>2 DEF f
    <3> QED
      BY <1>2, <1>7, <3>1, <3>2
  <2>5. Spreads(c)'
    <3> SUFFICES ASSUME NEW k \in up, Knows(k[1], c)'
                 PROVE  Knows(k[2], c)' \/ \E x \in Range(net'[k]) : x.from = c
      BY <1>1 DEF Spreads
    <3>1. k \in Peering /\ k[1] \in Bridge /\ k[2] \in Bridge
      BY Parts, Links
    <3>2. CASE Knows(k[2], c)
      BY <2>3, <3>1, <3>2
    <3>3. ASSUME NEW x \in Range(net[k]), x.from = c PROVE x \in Range(net'[k])
      <4>1. x # m
        BY <1>12, <3>3 DEF f
      <4> QED
        BY <1>2, <1>7, <3>1, <4>1
    <3> QED
      BY <2>2, <2>3, <3>1, <3>2, <3>3 DEF Spreads
  <2>6. Entered(c)'
    BY <1>1, <1>9, <1>12, <2>2, <2>3 DEF Entered
  <2> QED
    BY <1>1, <2>2, <2>3, <2>4, <2>5, <2>6
<1>13. ASSUME calm'[f]
       PROVE  stamp'[f] > 0 /\ Knows(f, f)' /\ OnlyAnnounces(f)' /\ Spreads(f)' /\ Entered(f)'
  <2>2. stamp[f] > 0 /\ Knows(f, f) /\ OnlyAnnounces(f) /\ Spreads(f) /\ Entered(f)
    BY <1>1, <1>4, <1>13, Parts DEF Healing
  <2>3. m.stamp = stamp[f] - 1 /\ m.endpoint = endpoint[f] /\ Knows(a, f)
    BY <1>2, <2>2 DEF OnlyAnnounces, f, a
  <2>4. id = Last(f)
    BY <2>3 DEF Last
  <2>5. \A q \in Bridge : Knows(q, f)' <=> Knows(q, f) \/ q = b
    <3>1. Last(f)' = Last(f)
      BY <1>1 DEF Last, f
    <3> HIDE DEF id
    <3> QED
      BY <1>1, <1>3, <1>6, <2>4, <3>1 DEF Knows
  <2>6. News(b, m) <=> ~Knows(b, f)
    BY <1>5, <2>2, <2>4 DEF Knows
  <2>7. OnlyAnnounces(f)'
    <3> SUFFICES ASSUME NEW k \in Peering, NEW x \in Range(net'[k])
                 PROVE  /\ x.type = "announce"
                        /\ x.from = f => /\ x.stamp = stamp'[f] - 1
                                         /\ x.endpoint = endpoint'[f] /\ Knows(k[1], f)'
      BY DEF OnlyAnnounces
    <3>1. CASE x \in Range(net[k])
      BY <1>1, <2>2, <2>5, <3>1, Links DEF OnlyAnnounces
    <3>2. CASE x = m /\ k[1] = b
      BY <1>1, <1>3, <2>3, <2>5, <3>2
    <3> QED
      BY <1>2, <1>7, <3>1, <3>2
  <2>8. Spreads(f)'
    <3> SUFFICES ASSUME NEW k \in up, Knows(k[1], f)'
                 PROVE  Knows(k[2], f)' \/ \E x \in Range(net'[k]) : x.from = f
      BY <1>1 DEF Spreads
    <3>1. k \in Peering /\ k[1] \in Bridge /\ k[2] \in Bridge
      BY Parts, Links
    <3>2. CASE Knows(k[1], f)
      <4>1. CASE Knows(k[2], f)
        BY <2>5, <3>1, <4>1
      <4>2. CASE \E x \in Range(net[k]) : x.from = f
        <5>1. PICK x \in Range(net[k]) : x.from = f
          BY <4>2
        <5>2. CASE k = l
          BY <2>5, <3>1, <5>2 DEF b
        <5>3. CASE k # l
          BY <1>2, <1>7, <3>1, <5>1, <5>3
        <5> QED
          BY <5>2, <5>3
      <4> QED
        BY <2>2, <3>2, <4>1, <4>2 DEF Spreads
    <3>3. CASE ~Knows(k[1], f)
      <4>1. k[1] = b /\ News(b, m)
        BY <2>5, <2>6, <3>1, <3>3
      <4>2. CASE k[2] = a
        BY <1>3, <2>3, <2>5, <4>2
      <4>3. CASE k[2] # a
        BY <1>7, <3>1, <4>1, <4>3 DEF f
      <4> QED
        BY <4>2, <4>3
    <3> QED
      BY <3>2, <3>3
  <2>9. Entered(f)'
    <3> SUFFICES ASSUME NEW q \in Bridge \ {f}, Knows(q, f)'
                 PROVE  directory'[q][f] # None /\ directory'[q][f].endpoint = endpoint'[f]
      BY DEF Entered
    <3>1. CASE Knows(q, f)
      <4>1. ~(News(b, m) /\ q = b)
        BY <2>6, <3>1
      <4>2. directory'[q][f] = directory[q][f]
        BY <1>4, <1>9, <4>1
      <4> QED
        BY <1>1, <2>2, <3>1, <4>2 DEF Entered
    <3>2. CASE ~Knows(q, f)
      <4>1. q = b /\ News(b, m)
        BY <2>5, <2>6, <3>2
      <4> QED
        BY <1>1, <1>8, <1>9, <2>3, <4>1
    <3> QED
      BY <3>1, <3>2
  <2> QED
    BY <1>1, <1>4, <2>2, <2>5, <2>7, <2>8, <2>9
<1>14. Healing'
  BY <1>4, <1>12, <1>13 DEF Healing
<1> QED
  BY <1>10, <1>11, <1>14 DEF HealInv

\* Directories stay, and what is under way is truthful.
LEMMA TruthKept ==
  ASSUME HealInv, UNCHANGED <<directory, seen, endpoint, stamp>>,
         \A l \in Peering : \A x \in Range(net'[l]) :
           x \in Range(net[l]) \/ x.type = "getpeers"
           \/ (x.type = "peers" /\ \A q \in DOMAIN x.peers : x.peers[q] <= endpoint[q])
  PROVE  Truth'
<1>1. ASSUME NEW l \in Peering, NEW x \in Range(net'[l]) PROVE Truthful(x)'
  <2>1. Truthful(x)
    BY Parts DEF Truthful
  <2> QED
    BY <2>1 DEF Truthful
<1> QED
  BY <1>1, Parts DEF Truth

\* A bridge answers with the fresh part of its directory.
LEMMA GetPeersStep ==
  ASSUME HealInv, NEW l \in Peering, OnGetPeers(l[1], l[2]) PROVE HealInv'
<1> DEFINE a == l[1]
           b == l[2]
           m == Head(net[l])
           rest == Consumed(a, b)
           told == Fresh(b) \ {a}
           list == [q \in told |-> directory[b][q].endpoint]
           r == [type |-> "peers", peers |-> list]
           back == <<b, a>>
<1>1. /\ net[l] # <<>> /\ m.type = "getpeers"
      /\ net' = [rest EXCEPT ![back] = Append(rest[back], r)]
      /\ UNCHANGED <<directory, seen, endpoint, alive, up, tick, due, stamp, calm, left>>
  BY Links DEF OnGetPeers, Arrives
<1>2. /\ rest \in [Peering -> Seq(Messages)] /\ m \in Range(net[l])
      /\ \A k \in Peering : Range(rest[k]) \subseteq Range(net[k])
  BY <1>1, Parts, Removing
<1>3. back \in Peering /\ b \in Bridge
  BY Links
<1>4. \A c \in Bridge : ~calm[c]
  BY <1>1, <1>2, Undisturbed
<1>5. /\ told \in SUBSET Bridge /\ list \in [told -> Nat] /\ DOMAIN list = told
      /\ \A q \in told : list[q] <= endpoint[q]
  <2>1. told \in SUBSET Bridge /\ \A q \in told : directory[b][q] # None
    BY DEF Fresh
  <2>2. \A q \in told : /\ directory[b][q].endpoint \in Nat
                        /\ directory[b][q].endpoint <= endpoint[q]
    BY <1>3, <2>1, Parts DEF Entry, Endpoints
  <2> HIDE DEF told
  <2> QED
    BY <2>1, <2>2
<1> HIDE DEF list, told
<1>6. r \in Messages
  BY <1>5, Listing
<1>7. r.type = "peers" /\ r.peers = list
  OBVIOUS
<1> HIDE DEF r, rest, back, m
<1>8. /\ net' \in [Peering -> Seq(Messages)]
      /\ \A k \in Peering : \A x \in Range(net'[k]) : x \in Range(rest[k]) \/ x = r
  <2>1. Append(rest[back], r) \in Seq(Messages)
        /\ Range(Append(rest[back], r)) = Range(rest[back]) \cup {r}
    BY <1>2, <1>3, <1>6, RangeAppend
  <2>2. net' \in [Peering -> Seq(Messages)] /\ net'[back] = Append(rest[back], r)
        /\ \A k \in Peering : k # back => net'[k] = rest[k]
    BY <1>1, <1>2, <1>3, <2>1
  <2> QED
    BY <2>1, <2>2
<1>9. Shape'
  BY <1>1, <1>8, Parts DEF Shape
<1>10. Truth'
  <2>1. \A q \in DOMAIN r.peers : r.peers[q] <= endpoint[q]
    BY <1>5, <1>7
  <2> QED
    BY <1>1, <1>2, <1>7, <1>8, <2>1, TruthKept
<1> QED
  BY <1>1, <1>4, <1>9, <1>10, Disturbed

\* A bridge enters what it is told.
LEMMA PeersStep ==
  ASSUME HealInv, NEW l \in Peering, OnPeers(l[1], l[2]) PROVE HealInv'
<1>0. PICK m : m = Head(net[l])
  OBVIOUS
<1> DEFINE b == l[2]
           rest == Consumed(l[1], b)
           row == [q \in Bridge |->
                     IF q \in DOMAIN m.peers \ {b} THEN Seen(m.peers[q]) ELSE directory[b][q]]
<1>1. /\ net[l] # <<>> /\ m.type = "peers"
      /\ directory' = [directory EXCEPT ![b] = row]
      /\ net' = rest
      /\ UNCHANGED <<seen, endpoint, alive, up, tick, due, stamp, calm, left>>
  BY <1>0, Links DEF OnPeers, Arrives
<1>2. /\ rest \in [Peering -> Seq(Messages)] /\ m \in Messages /\ m \in Range(net[l])
      /\ \A k \in Peering : Range(rest[k]) \subseteq Range(net[k])
  BY <1>0, <1>1, Parts, Removing
<1>3. b \in Bridge
  BY Links
<1>4. \A c \in Bridge : ~calm[c]
  BY <1>1, <1>2, Undisturbed
<1>5. \A q \in DOMAIN m.peers : q \in Bridge /\ m.peers[q] \in Nat /\ m.peers[q] <= endpoint[q]
  BY <1>1, <1>2, Fields, Parts DEF Truthful
<1>6. /\ row \in [Bridge -> Entry \cup {None}]
      /\ \A q \in Bridge : row[q] # None => b # q /\ row[q].endpoint <= endpoint[q]
  <2>1. ASSUME NEW q \in Bridge
        PROVE  /\ row[q] \in Entry \cup {None}
               /\ row[q] # None => b # q /\ row[q].endpoint <= endpoint[q]
    <3>1. CASE q \in DOMAIN m.peers \ {b}
      <4>1. row[q] = Seen(m.peers[q])
        BY <3>1
      <4> HIDE DEF row
      <4> QED
        BY <1>5, <3>1, <4>1, SeenEntry
    <3>2. CASE q \notin DOMAIN m.peers \ {b}
      <4>1. row[q] = directory[b][q]
        BY <3>2
      <4> HIDE DEF row
      <4> QED
        BY <1>3, <4>1, Parts
    <3> QED
      BY <3>1, <3>2
  <2> QED
    BY <2>1
<1> HIDE DEF row, rest, b
<1>7. /\ directory' \in [Bridge -> [Bridge -> Entry \cup {None}]]
      /\ \A c, q \in Bridge : directory'[c][q] # None =>
           c # q /\ directory'[c][q].endpoint <= endpoint[q]
  BY <1>1, <1>3, <1>6, Parts
<1>8. Shape'
  BY <1>1, <1>2, <1>7, Parts DEF Shape
<1>9. Truth'
  <2>1. ASSUME NEW k \in Peering, NEW x \in Range(net'[k]) PROVE Truthful(x)'
    <3>1. Truthful(x)
      BY <1>1, <1>2, Parts
    <3> QED
      BY <1>1, <3>1 DEF Truthful
  <2> QED
    BY <1>1, <1>7, <2>1, Parts DEF Truth
<1> QED
  BY <1>1, <1>4, <1>8, <1>9, Disturbed

\* A refresh timer fires.
LEMMA RefreshStep ==
  ASSUME HealInv, NEW b \in Bridge, RequestPeersFromAll(b) PROVE HealInv'
<1>1. PICK m : m = [type |-> "getpeers"]
  OBVIOUS
<1>2. m \in Messages /\ m.type = "getpeers"
  BY <1>1 DEF Messages
<1>3. /\ due' = due \ {b} /\ calm' = [q \in Bridge |-> FALSE]
      /\ UNCHANGED <<directory, seen, endpoint, alive, up, tick, stamp, left>>
  BY DEF RequestPeersFromAll
<1>4. /\ net' \in [Peering -> Seq(Messages)]
      /\ \A l \in Peering : \A x \in Range(net'[l]) : x \in Range(net[l]) \/ x = m
  <2>1. net' = Sent(net, Connected(b, b), m) /\ net \in [Peering -> Seq(Messages)]
    BY <1>1, Parts DEF RequestPeersFromAll, Broadcast, Sent, Connected
  <2> QED
    <3> DEFINE T == Connected(b, b)
    <3> HIDE DEF T
    <3>1. /\ net' \in [Peering -> Seq(Messages)]
          /\ \A l \in Peering :
               /\ Range(net[l]) \subseteq Range(net'[l])
               /\ \A x \in Range(net'[l]) : x \in Range(net[l]) \/ (x = m /\ l \in T)
               /\ l \in T => m \in Range(net'[l])
      BY <1>2, <2>1, Sending DEF T
    <3> QED
      BY <3>1
<1>5. Shape'
  BY <1>3, <1>4, Parts DEF Shape
<1>6. Truth'
  BY <1>2, <1>3, <1>4, TruthKept
<1> QED
  BY <1>3, <1>5, <1>6, Disturbed

\* Cutting off a bridge forgets what is under way to and from it.
LEMMA Cutting ==
  ASSUME HealInv, NEW b \in Bridge, CutOff(b)
  PROVE  /\ net' \in [Peering -> Seq(Messages)]
         /\ \A l \in Peering : Range(net'[l]) \subseteq Range(net[l])
         /\ up' = {l \in up : b \notin {l[1], l[2]}}
         /\ calm' = [q \in Bridge |-> FALSE]
<1>1. net' = [l \in Peering |-> IF b \in {l[1], l[2]} THEN <<>> ELSE net[l]]
  BY DEF CutOff
<1>2. <<>> \in Seq(Messages) /\ Range(<<>>) = {}
  BY DEF Range
<1>3. \A l \in Peering : net'[l] = <<>> \/ net'[l] = net[l]
  BY <1>1
<1>4. net' \in [Peering -> Seq(Messages)]
  BY <1>1, <1>2, Parts
<1> QED
  BY <1>2, <1>3, <1>4 DEF CutOff

\* A bridge moves.
LEMMA MoveStep ==
  ASSUME HealInv, NEW b \in Bridge, Move(b) PROVE HealInv'
<1> DEFINE none == [q \in Bridge |-> None]
<1>1. /\ left' = [left EXCEPT !.movers = left.movers \ {b}] /\ CutOff(b)
      /\ endpoint' = [endpoint EXCEPT ![b] = endpoint[b] + 1]
      /\ directory' = [directory EXCEPT ![b] = none]
      /\ seen' = [seen EXCEPT ![b] = {}]
      /\ UNCHANGED <<alive, tick, due, stamp>>
  BY DEF Move
<1>2. /\ net' \in [Peering -> Seq(Messages)]
      /\ \A l \in Peering : Range(net'[l]) \subseteq Range(net[l])
      /\ up' = {l \in up : b \notin {l[1], l[2]}}
      /\ calm' = [q \in Bridge |-> FALSE]
  BY <1>1, Cutting
<1>3. none \in [Bridge -> Entry \cup {None}] /\ \A q \in Bridge : none[q] = None
  OBVIOUS
<1> HIDE DEF none
<1>4. left' \in Plan
  BY <1>1, Parts DEF Plan
<1>5. /\ endpoint' \in [Bridge -> Nat] /\ \A q \in Bridge : endpoint[q] <= endpoint'[q]
      /\ directory' \in [Bridge -> [Bridge -> Entry \cup {None}]]
      /\ \A c, q \in Bridge : directory'[c][q] # None => directory'[c][q] = directory[c][q]
      /\ seen' \in [Bridge -> SUBSET (Bridge \X Nat)]
      /\ \A c \in Bridge : seen'[c] \subseteq seen[c]
  BY <1>1, <1>3, Parts
<1>6. Shape'
  BY <1>1, <1>2, <1>4, <1>5, Parts DEF Shape
<1>7. \A q \in Bridge : endpoint[q] \in Nat /\ endpoint'[q] \in Nat
  BY <1>5, Parts
<1>8. \A c, q \in Bridge : directory'[c][q] # None =>
        c # q /\ directory'[c][q].endpoint <= endpoint'[q]
  <2> SUFFICES ASSUME NEW c \in Bridge, NEW q \in Bridge, directory'[c][q] # None
               PROVE  c # q /\ directory'[c][q].endpoint <= endpoint'[q]
    OBVIOUS
  <2>1. directory'[c][q] = directory[c][q] /\ directory[c][q] # None
    BY <1>5
  <2>2. c # q /\ directory[c][q].endpoint <= endpoint[q] /\ directory[c][q].endpoint \in Nat
    BY <2>1, Parts DEF Entry, Endpoints
  <2> QED
    BY <1>5, <1>7, <2>1, <2>2
<1>9. ASSUME NEW l \in Peering, NEW x \in Range(net'[l]) PROVE Truthful(x)'
  <2>1. x \in Messages /\ Truthful(x)
    BY <1>2, Parts
  <2>2. /\ x.type = "announce" => x.from \in Bridge /\ x.endpoint \in Nat
        /\ x.type = "peers" => \A q \in DOMAIN x.peers : q \in Bridge /\ x.peers[q] \in Nat
    BY <2>1, Fields
  <2>3. x.type = "announce" => x.endpoint <= endpoint'[x.from]
    BY <1>5, <1>7, <2>1, <2>2 DEF Truthful
  <2>4. x.type = "peers" => \A q \in DOMAIN x.peers : x.peers[q] <= endpoint'[q]
    BY <1>5, <1>7, <2>1, <2>2 DEF Truthful
  <2> QED
    BY <1>1, <2>1, <2>3, <2>4 DEF Truthful
<1>10. Truth'
  BY <1>1, <1>5, <1>8, <1>9, Parts DEF Truth
<1> QED
  BY <1>2, <1>6, <1>10, Disturbed

\* A bridge leaves.
LEMMA LeaveStep ==
  ASSUME HealInv, NEW b \in Bridge, Leave(b) PROVE HealInv'
<1>1. /\ left' = [left EXCEPT !.leavers = left.leavers \ {b}] /\ CutOff(b)
      /\ alive' = alive \ {b} /\ due' = due \ {b}
      /\ UNCHANGED <<directory, seen, endpoint, tick, stamp>>
  BY DEF Leave
<1>2. /\ net' \in [Peering -> Seq(Messages)]
      /\ \A l \in Peering : Range(net'[l]) \subseteq Range(net[l])
      /\ up' = {l \in up : b \notin {l[1], l[2]}}
      /\ calm' = [q \in Bridge |-> FALSE]
  BY <1>1, Cutting
<1>3. left' \in Plan
  BY <1>1, Parts DEF Plan
<1>4. Shape'
  BY <1>1, <1>2, <1>3, Parts DEF Shape
<1>5. Truth'
  BY <1>1, <1>2, TruthKept
<1> QED
  BY <1>2, <1>4, <1>5, Disturbed

\* Peers are told where q is.
LEMMA Updating ==
  ASSUME HealInv, NEW b \in Bridge, NEW q \in Bridge, NEW queues \in [Peering -> Seq(Messages)],
         NEW new, new = Update(queues, b, q)
  PROVE  /\ new \in [Peering -> Seq(Messages)]
         /\ \A l \in Peering : \A x \in Range(new[l]) :
              \/ x \in Range(queues[l])
              \/ x.type = "peers" /\ \A c \in DOMAIN x.peers : x.peers[c] <= endpoint[c]
<1> DEFINE f == [r \in {q} |-> endpoint[q]]
<1>0. PICK m : m = [type |-> "peers", peers |-> f]
  OBVIOUS
<1>1. m \in Messages
  BY <1>0, Parts, Listing
<1>2. m.type = "peers" /\ \A c \in DOMAIN m.peers : m.peers[c] <= endpoint[c]
  BY <1>0, Parts
<1>3. new = queues \/ new = Sent(queues, Connected(b, q), m)
  BY <1>0 DEF Update, Sent, Connected
<1> HIDE DEF f
<1>4. CASE new = queues
  BY <1>4
<1>5. CASE new = Sent(queues, Connected(b, q), m)
  <2>1. /\ new \in [Peering -> Seq(Messages)]
        /\ \A l \in Peering : \A x \in Range(new[l]) : x \in Range(queues[l]) \/ x = m
    <3> DEFINE T == Connected(b, q)
    <3> HIDE DEF T
    <3>1. new = Sent(queues, T, m)
      BY <1>5 DEF T
    <3>2. \A S : /\ Sent(queues, S, m) \in [Peering -> Seq(Messages)]
                 /\ \A l \in Peering : \A x \in Range(Sent(queues, S, m)[l]) :
                      x \in Range(queues[l]) \/ (x = m /\ l \in S)
      BY <1>1, Sending
    <3> QED
      BY <3>1, <3>2
  <2> QED
    BY <1>2, <2>1
<1> QED
  BY <1>3, <1>4, <1>5

\* Two bridges connect and enter each other.
LEMMA HandshakeStep ==
  ASSUME HealInv, NEW l \in Peering, Handshake(l[1], l[2]) PROVE HealInv'
<1> DEFINE a == l[1]
           b == l[2]
<1>1. /\ <<a, b>> = l /\ l \notin up /\ a \in alive /\ b \in alive
      /\ up' = up \cup {<<a, b>>, <<b, a>>}
      /\ directory' = [directory EXCEPT ![a][b] = Seen(endpoint[b]), ![b][a] = Seen(endpoint[a])]
      /\ net' = Update(Update(net, a, b), b, a)
      /\ calm' = [q \in Bridge |-> FALSE]
      /\ UNCHANGED <<seen, endpoint, alive, tick, due, stamp, left>>
  BY Links DEF Handshake
<1>2. a \in Bridge /\ b \in Bridge /\ a # b /\ <<b, a>> \in Peering /\ <<a, b>> \in Peering
  BY Links
<1> HIDE DEF a, b
<1>3. PICK mid : mid = Update(net, a, b)
  OBVIOUS
<1>4. /\ mid \in [Peering -> Seq(Messages)]
      /\ \A k \in Peering : \A x \in Range(mid[k]) :
           \/ x \in Range(net[k])
           \/ x.type = "peers" /\ \A c \in DOMAIN x.peers : x.peers[c] <= endpoint[c]
  <2>1. net \in [Peering -> Seq(Messages)]
    BY Parts
  <2> QED
    BY <1>2, <1>3, <2>1, Updating
<1>5. /\ net' \in [Peering -> Seq(Messages)]
      /\ \A k \in Peering : \A x \in Range(net'[k]) :
           \/ x \in Range(mid[k])
           \/ x.type = "peers" /\ \A c \in DOMAIN x.peers : x.peers[c] <= endpoint[c]
  <2>1. net' = Update(mid, b, a)
    BY <1>1, <1>3
  <2> QED
    BY <1>2, <1>4, <2>1, Updating
<1>6. \A c \in {a, b} : /\ Seen(endpoint[c]) \in Entry
                        /\ Seen(endpoint[c]).endpoint = endpoint[c]
  BY <1>2, Parts, SeenEntry
<1>7. /\ directory' \in [Bridge -> [Bridge -> Entry \cup {None}]]
      /\ \A c, q \in Bridge :
           \/ directory'[c][q] = directory[c][q]
           \/ c # q /\ q \in {a, b} /\ directory'[c][q] = Seen(endpoint[q])
  <2> DEFINE row == [directory[a] EXCEPT ![b] = Seen(endpoint[b])]
             wor == [directory[b] EXCEPT ![a] = Seen(endpoint[a])]
  <2>1. directory' = [[directory EXCEPT ![a] = row] EXCEPT ![b] = wor]
    BY <1>1, <1>2, Parts
  <2>2. /\ row \in [Bridge -> Entry \cup {None}] /\ wor \in [Bridge -> Entry \cup {None}]
        /\ \A q \in Bridge : row[q] = directory[a][q] \/ (q = b /\ row[q] = Seen(endpoint[b]))
        /\ \A q \in Bridge : wor[q] = directory[b][q] \/ (q = a /\ wor[q] = Seen(endpoint[a]))
    BY <1>2, <1>6, Parts
  <2> HIDE DEF row, wor
  <2>3. /\ directory' \in [Bridge -> [Bridge -> Entry \cup {None}]]
        /\ directory'[a] = row /\ directory'[b] = wor
        /\ \A c \in Bridge : c \notin {a, b} => directory'[c] = directory[c]
    BY <1>2, <2>1, <2>2, Parts
  <2> QED
    BY <1>2, <2>2, <2>3
<1>8. Shape'
  <2>1. up' \subseteq {k \in Peering : k[1] \in alive' /\ k[2] \in alive'}
    <3>1. <<a, b>>[1] = a /\ <<a, b>>[2] = b /\ <<b, a>>[1] = b /\ <<b, a>>[2] = a
      OBVIOUS
    <3>2. up \subseteq {k \in Peering : k[1] \in alive /\ k[2] \in alive}
      BY Parts
    <3>3. UNCHANGED alive /\ a \in alive /\ b \in alive /\ up' = up \cup {<<a, b>>, <<b, a>>}
      BY <1>1
    <3> QED
      BY <1>2, <3>1, <3>2, <3>3
  <2> QED
    BY <1>1, <1>5, <1>7, <2>1, Parts DEF Shape
<1>9. \A c, q \in Bridge : directory'[c][q] # None =>
        c # q /\ directory'[c][q].endpoint <= endpoint'[q]
  <2> SUFFICES ASSUME NEW c \in Bridge, NEW q \in Bridge, directory'[c][q] # None
               PROVE  c # q /\ directory'[c][q].endpoint <= endpoint[q]
    BY <1>1
  <2>1. CASE directory'[c][q] = directory[c][q]
    BY <2>1, Parts
  <2>2. CASE c # q /\ q \in {a, b} /\ directory'[c][q] = Seen(endpoint[q])
    BY <1>6, <2>2, Parts
  <2> QED
    BY <1>7, <2>1, <2>2
<1>10. ASSUME NEW k \in Peering, NEW x \in Range(net'[k]) PROVE Truthful(x)'
  <2>1. Truthful(x)
    BY <1>4, <1>5, Parts DEF Truthful
  <2> QED
    BY <1>1, <2>1 DEF Truthful
<1>11. Truth'
  BY <1>1, <1>9, <1>10, Parts DEF Truth
<1> QED
  BY <1>1, <1>8, <1>11, Disturbed

\* Time passes: entries grow older, and say the same.
LEMMA TickStep ==
  ASSUME HealInv, Tick PROVE HealInv'
<1> DEFINE older(e) == [e EXCEPT !.age = IF @ < MaxAge THEN @ + 1 ELSE @]
<1>1. /\ tick' = (tick + 1) % RefreshEvery
      /\ due' = Refreshers(left.phase, tick') \cap alive
      /\ directory' = [b \in Bridge |-> [q \in Bridge |->
                         IF directory[b][q] = None THEN None ELSE older(directory[b][q])]]
      /\ UNCHANGED <<seen, endpoint, alive, up, net, stamp, calm, left>>
  BY DEF Tick
<1>2. \A e \in Entry : older(e) \in Entry /\ older(e).endpoint = e.endpoint
  BY TimeAssumption DEF Entry, Endpoints
<1>3. None \notin Entry
  BY NoneAssumption DEF Entry, Endpoints
<1> HIDE DEF older
<1>4. /\ directory' \in [Bridge -> [Bridge -> Entry \cup {None}]]
      /\ \A b, q \in Bridge :
           /\ directory'[b][q] # None <=> directory[b][q] # None
           /\ directory[b][q] # None => directory'[b][q].endpoint = directory[b][q].endpoint
  <2>1. \A b, q \in Bridge : directory[b][q] = None \/ directory[b][q] \in Entry
    BY Parts
  <2> QED
    BY <1>1, <1>2, <1>3, <2>1
<1>5. Shape'
  <2>1. tick' \in 0 .. RefreshEvery - 1
    BY <1>1, Parts, NextTick
  <2>2. due' \subseteq alive
    BY <1>1
  <2> QED
    BY <1>1, <1>4, <2>1, <2>2, Parts DEF Shape
<1>6. Truth'
  <2>1. ASSUME NEW k \in Peering, NEW x \in Range(net'[k]) PROVE Truthful(x)'
    <3>1. Truthful(x)
      BY <1>1, Parts
    <3> QED
      BY <1>1, <3>1 DEF Truthful
  <2> QED
    BY <1>1, <1>4, <2>1, Parts DEF Truth
<1>7. Healing'
  <2> SUFFICES ASSUME NEW b \in Bridge, calm'[b]
               PROVE  stamp'[b] > 0 /\ Knows(b, b)' /\ OnlyAnnounces(b)' /\ Spreads(b)'
                      /\ Entered(b)'
    BY DEF Healing
  <2>1. stamp[b] > 0 /\ Knows(b, b) /\ OnlyAnnounces(b) /\ Spreads(b) /\ Entered(b)
    BY <1>1, Parts DEF Healing
  <2>2. \A q : Knows(q, b)' <=> Knows(q, b)
    BY <1>1 DEF Knows, Last
  <2>3. OnlyAnnounces(b)' /\ Spreads(b)'
    BY <1>1, <2>1, <2>2 DEF OnlyAnnounces, Spreads
  <2>4. Entered(b)'
    BY <1>1, <1>4, <2>1, <2>2 DEF Entered
  <2> QED
    BY <1>1, <2>1, <2>2, <2>3, <2>4
<1> QED
  BY <1>5, <1>6, <1>7 DEF HealInv

\* The invariant holds at the start.
LEMMA HealInit == Init => HealInv
<1> SUFFICES ASSUME Init PROVE HealInv
  OBVIOUS
<1>1. PICK p \in Plans :
        left = p /\ alive = p.present /\ due = Refreshers(p.phase, 0) \cap p.present
  BY DEF Init
<1>2. left \in Plan /\ alive \subseteq Bridge /\ due \subseteq alive
  BY <1>1, PlanAssumption DEF Plan
<1>3. Seen(0) \in Entry /\ Seen(0).endpoint = 0
  BY SeenEntry
<1>4. /\ directory = [b \in Bridge |-> [q \in Bridge |-> IF <<b, q>> \in up THEN Seen(0) ELSE None]]
      /\ endpoint = [b \in Bridge |-> 0] /\ stamp = [b \in Bridge |-> 0]
      /\ seen = [b \in Bridge |-> {}] /\ net = [l \in Peering |-> <<>>]
      /\ up = {l \in Peering : l[1] \in alive /\ l[2] \in alive}
      /\ tick = 0 /\ calm = [b \in Bridge |-> FALSE]
  BY DEF Init
<1>5. \A b, q \in Bridge : /\ directory[b][q] \in Entry \cup {None}
                           /\ directory[b][q] # None => b # q /\ directory[b][q].endpoint = 0
  BY <1>3, <1>4, PeeringAssumption
<1>6. Shape
  <2>1. directory \in [Bridge -> [Bridge -> Entry \cup {None}]]
    BY <1>3, <1>4
  <2>2. net \in [Peering -> Seq(Messages)]
    BY <1>4
  <2>3. tick \in 0 .. RefreshEvery - 1
    BY <1>4, TimeAssumption
  <2>4. seen \in [Bridge -> SUBSET (Bridge \X Nat)] /\ calm \in [Bridge -> BOOLEAN]
    BY <1>4
  <2> QED
    BY <1>2, <1>4, <2>1, <2>2, <2>3, <2>4 DEF Shape
<1>7. Truth
  <2>1. Range(<<>>) = {}
    BY DEF Range
  <2> QED
    BY <1>4, <1>5, <2>1 DEF Truth
<1>8. Healing
  BY <1>4 DEF Healing
<1> QED
  BY <1>6, <1>7, <1>8 DEF HealInv

\* The invariant is inductive.
LEMMA HealStep == HealInv /\ [Next]_vars => HealInv'
<1> SUFFICES ASSUME HealInv, [Next]_vars PROVE HealInv'
  OBVIOUS
<1>1. CASE UNCHANGED vars
  <2>1. Shape'
    BY <1>1 DEF HealInv, vars, Shape
  <2>2. Truth'
    BY <1>1 DEF HealInv, vars, Truth, Truthful
  <2>3. Healing'
    BY <1>1 DEF HealInv, vars, Healing, Knows, Last, OnlyAnnounces, Spreads, Entered
  <2> QED
    BY <2>1, <2>2, <2>3 DEF HealInv
<1> QED
  BY <1>1, AnnounceStep, OnAnnounceStep, GetPeersStep, PeersStep, RefreshStep, MoveStep,
     LeaveStep, HandshakeStep, TickStep DEF Next

\* When all is quiet, whoever knows the last announcement of b forms a set that no
\* connection leaves, so all that b reaches know it and have entered its endpoint.
LEMMA Healed == HealInv => HealsByAnnouncement
<1> SUFFICES ASSUME HealInv, NEW b \in Bridge, Quiet, calm[b], NEW q \in Reached(b) \ {b}
             PROVE  directory[q][b] # None /\ directory[q][b].endpoint = endpoint[b]
  BY DEF HealsByAnnouncement
<1>1. stamp[b] > 0 /\ Knows(b, b) /\ Spreads(b) /\ Entered(b)
  BY DEF HealInv, Healing
<1> DEFINE S == {c \in Bridge : Knows(c, b)}
<1>2. \A l \in up : l[1] \in S => l[2] \in S
  <2> SUFFICES ASSUME NEW l \in up, Knows(l[1], b) PROVE l[2] \in S
    OBVIOUS
  <2>1. l \in Peering /\ l[2] \in Bridge
    BY Parts, Links
  <2>2. Range(net[l]) = {}
    BY <2>1 DEF Quiet, Range
  <2> QED
    BY <1>1, <2>1, <2>2 DEF Spreads
<1>3. S \in SUBSET Bridge /\ b \in S
  BY <1>1
<1> HIDE DEF S
<1>4. q \in Bridge /\ q \in S
  BY <1>2, <1>3 DEF Reached
<1> QED
  BY <1>1, <1>4 DEF S, Entered

\* The type invariant is part of it.
LEMMA HealTypes == HealInv => TypeOK
<1> SUFFICES ASSUME HealInv PROVE TypeOK
  OBVIOUS
<1>1. \A b \in Bridge : \A s \in seen[b] : s[1] \in Bridge /\ s[2] < stamp[s[1]]
  BY Parts
<1>2. ASSUME NEW l \in Peering, NEW i \in 1 .. Len(net[l])
      PROVE  net[l][i] \in Announce \/ net[l][i].type \in {"getpeers", "peers"}
  <2>1. net[l][i] \in Messages
    BY Parts
  <2> QED
    BY <2>1, Fields
<1>3. \A b, q \in Bridge :
        \/ directory[b][q] = None
        \/ directory[b][q] \in Entry /\ b # q /\ directory[b][q].endpoint <= endpoint[q]
  BY Parts
<1> QED
  BY <1>1, <1>2, <1>3, Parts DEF TypeOK

\* Directories hold endpoints that bridges have or had, never the reader itself, and an
\* announcement that nothing disturbs sets every directory it can reach right
\* (gossip.js:138-167, 196-277).
THEOREM GossipHeals == Spec => []DirectoriesConsistent
<1>1. HealInv => DirectoriesConsistent
  BY Healed, HealTypes DEF DirectoriesConsistent
<1> QED
  BY HealInit, HealStep, <1>1, PTL DEF Spec
==============================================================================
