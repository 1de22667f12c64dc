------------------------------ MODULE DataRelay ------------------------------
(***************************************************************************)
(* Signed data envelopes between bridges                                   *)
(* (packages/bridge/lib/data-relay.js, POST and GET /data of               *)
(* lib/data-endpoints.js).                                                 *)
(*                                                                         *)
(* A bridge accepts an envelope that is well formed, signed, live and not  *)
(* remembered; it remembers it in a bounded set, keeps it in a bounded     *)
(* ring per topic, and forwards it to the peers that declared an interest  *)
(* in its topic.  A peer may also ask for what a ring holds; an envelope   *)
(* taken over in that way is not forwarded.                                *)
(***************************************************************************)
EXTENDS Integers, Sequences, SequencesExt, FiniteSets

CONSTANTS
  Bridge,
  Peering,      \* <<a, b>>: a and b are peers; symmetric
  Envelope,
  Topic,
  TopicOf,      \* [Envelope -> Topic]
  HashOf,       \* [Envelope -> hash]: what is hashed leaves out ttl and signature
  Stamp, Ttl,   \* [Envelope -> Nat]: timestamp and time to live
  Sound,        \* envelopes with all fields, a payload within bounds, a valid signature
  MaxPerTopic,  \* ring size of a topic
  MaxSeen,      \* hashes remembered
  MaxTtl, MaxFuture,
  Limit,        \* envelopes per data_response
  MaxClock,     \* bound on the clock
  Plans         \* instances to check: interests at the start and what may happen

\* A plan bounds injections, damaged copies, declarations, requests and broken links.
\* It is steady until a link breaks or a bridge declares anew.
Plan == [interests : [Peering -> SUBSET Topic], steady : BOOLEAN,
         injects : Nat, damaged : Nat, declares : Nat, requests : Nat, drops : Nat]

ASSUME PeeringAssumption ==
  /\ Peering \subseteq Bridge \X Bridge
  /\ \A l \in Peering : l[1] # l[2] /\ <<l[2], l[1]>> \in Peering
ASSUME EnvelopeAssumption ==
  /\ TopicOf \in [Envelope -> Topic] /\ DOMAIN HashOf = Envelope
  /\ Stamp \in [Envelope -> Nat] /\ Ttl \in [Envelope -> Nat] /\ Sound \subseteq Envelope
ASSUME BoundAssumption ==
  /\ MaxPerTopic \in Nat \ {0} /\ MaxSeen \in Nat \ {0} /\ Limit \in Nat \ {0}
  /\ MaxTtl \in Nat /\ MaxFuture \in Nat /\ MaxClock \in Nat \ {0}
ASSUME PlanAssumption ==
  /\ Plans # {}
  /\ \A p \in Plans : p \in Plan

VARIABLES
  clock,
  cache,      \* [Bridge -> dedup set, oldest hash first, and the ring of each topic]
  interests,  \* [Peering -> SUBSET Topic] what a knows b to be interested in
  net,        \* [Peering -> Seq(message)] under way from a to b
  declared,   \* history: [Peering -> SUBSET Topic] whatever b declared to a
  how,        \* history: [Bridge -> [Envelope -> how b came to accept it first]]
  left        \* what the plan still allows

vars == <<clock, cache, interests, net, declared, how, left>>

Message ==
  [type : {"data"}, env : Envelope]
    \cup [type : {"topics"}, interests : SUBSET Topic]
    \cup [type : {"data_request"}, topic : Topic, since : Nat]
    \cup [type : {"data_response"}, envelopes : Seq(Envelope)]

Data(e) == [type |-> "data", env |-> e]

Init ==
  /\ clock = 1  \* a timestamp of 0 is refused
  /\ cache = [b \in Bridge |-> [seen |-> <<>>, rings |-> [t \in Topic |-> <<>>]]]
  /\ \E p \in Plans : left = p /\ interests = p.interests /\ declared = p.interests
  /\ net = [l \in Peering |-> <<>>]
  /\ how = [b \in Bridge |-> [e \in Envelope |-> "no"]]

Spend(what) ==
  /\ left[what] > 0
  /\ left' = [left EXCEPT ![what] = @ - 1, !.steady = @ /\ what \notin {"declares", "drops"}]

------------------------------------------------------------------------------
(* Accepting an envelope.                                                  *)

\* Mutant: the ttl of an envelope is bounded but never compared with the clock.
TimelyForever(e) == Ttl[e] <= MaxTtl /\ Stamp[e] <= clock + MaxFuture

\* The checks of ttl, a timestamp in the future, and expiry.
Timely(e) ==
  /\ Ttl[e] <= MaxTtl
  /\ Stamp[e] <= clock + MaxFuture
  /\ Stamp[e] + Ttl[e] >= clock

Accepts(c, e) == Timely(e) /\ HashOf[e] \notin Range(c.seen) /\ e \in Sound

\* Mutant: a hash is remembered before the signature is verified.
RemembersUnverified(c, e) == Timely(e) /\ HashOf[e] \notin Range(c.seen)

\* Which envelopes leave their hash in the dedup set.
Remembers(c, e) == Accepts(c, e)

\* The newest n elements.
Newest(s, n) == IF Len(s) <= n THEN s ELSE SubSeq(s, Len(s) - n + 1, Len(s))

\* _validateAndStore, _addSeen and _store on the cache c of a bridge.
Stored(c, e) ==
  [seen  |-> IF Remembers(c, e) THEN Newest(Append(c.seen, HashOf[e]), MaxSeen) ELSE c.seen,
   rings |-> IF Accepts(c, e)
             THEN [c.rings EXCEPT ![TopicOf[e]] = Newest(Append(@, e), MaxPerTopic)]
             ELSE c.rings]

First(b, E, way) ==
  how' = [how EXCEPT ![b] = [e \in Envelope |->
            IF e \in E /\ @[e] = "no" THEN way ELSE @[e]]]

\* Mutant: a peer that declared nothing is taken for interested in everything.
MatchesUndeclared(a, b, t) == interests[<<a, b>>] = {} \/ t \in interests[<<a, b>>]

\* _peerMatchesTopic: a prefix of t is among the interests of b.
Matches(a, b, t) == t \in interests[<<a, b>>]

\* _forward: to all interested peers but the source.
Forward(queues, b, source, e) ==
  [l \in Peering |-> IF l[1] = b /\ l[2] # source /\ Matches(b, l[2], TopicOf[e])
                     THEN Append(queues[l], Data(e)) ELSE queues[l]]

Receive(b, source, e, queues) ==
  /\ cache' = [cache EXCEPT ![b] = Stored(@, e)]
  /\ First(b, IF Accepts(cache[b], e) THEN {e} ELSE {}, "pushed")
  /\ net' = IF Accepts(cache[b], e) THEN Forward(queues, b, source, e) ELSE queues
  /\ UNCHANGED <<clock, interests, declared>>

\* POST /data: injectEnvelope.
InjectEnvelope(b, e) ==
  /\ Spend("injects")
  /\ Receive(b, b, e, net)

------------------------------------------------------------------------------
(* Messages.                                                               *)

Arrives(a, b, type) == net[<<a, b>>] # <<>> /\ Head(net[<<a, b>>]).type = type
Consumed(a, b) == [net EXCEPT ![<<a, b>>] = Tail(@)]

OnData(a, b) ==
  /\ Arrives(a, b, "data")
  /\ Receive(b, a, Head(net[<<a, b>>]).env, Consumed(a, b))
  /\ UNCHANGED left

\* A damaged copy of an envelope that a holds reaches b from a.
OnDamagedData(a, b, e) ==
  /\ e \notin Sound
  /\ \E s \in Sound : HashOf[s] = HashOf[e] /\ how[a][s] # "no"
  /\ Spend("damaged")
  /\ Receive(b, a, e, net)

\* A later declaration replaces the earlier one.
OnTopics(a, b) ==
  /\ Arrives(a, b, "topics")
  /\ interests' = [interests EXCEPT ![<<b, a>>] = Head(net[<<a, b>>]).interests]
  /\ net' = Consumed(a, b)
  /\ UNCHANGED <<clock, cache, declared, how, left>>

\* The elements of s that are in S.
Among(s, S) ==
  LET kept[i \in 0 .. Len(s)] ==
        IF i = 0 THEN <<>>
        ELSE IF s[i] \in S THEN Append(kept[i - 1], s[i]) ELSE kept[i - 1]
  IN  kept[Len(s)]

Live(s) == Among(s, {e \in Envelope : Stamp[e] + Ttl[e] >= clock})

\* queryEnvelopes and _onDataRequest: of those newer than since, the first Limit.
Page(s, since) ==
  LET newer == Among(s, {e \in Envelope : Stamp[e] > since})
  IN  SubSeq(newer, 1, IF Len(newer) < Limit THEN Len(newer) ELSE Limit)

\* Expired envelopes are pruned before a ring is read.
OnDataRequest(a, b) ==
  /\ Arrives(a, b, "data_request")
  /\ LET m    == Head(net[<<a, b>>])
         live == Live(cache[b].rings[m.topic])
     IN  /\ cache' = [cache EXCEPT ![b].rings[m.topic] = live]
         /\ net' = [Consumed(a, b) EXCEPT ![<<b, a>>] =
                      Append(@, [type |-> "data_response", envelopes |-> Page(live, m.since)])]
  /\ UNCHANGED <<clock, interests, declared, how, left>>

\* The cache c after envelopes, one after the other.
Taken(c, envelopes) ==
  LET after[i \in 0 .. Len(envelopes)] ==
        IF i = 0 THEN c ELSE Stored(after[i - 1], envelopes[i])
  IN  after[Len(envelopes)]

\* The envelopes of a response are taken over without forwarding.
OnDataResponse(a, b) ==
  /\ Arrives(a, b, "data_response")
  /\ LET envelopes == Head(net[<<a, b>>]).envelopes
     IN  /\ cache' = [cache EXCEPT ![b] = Taken(@, envelopes)]
         /\ First(b, {e \in Range(envelopes) : Accepts(cache[b], e)}, "caught")
  /\ net' = Consumed(a, b)
  /\ UNCHANGED <<clock, interests, declared, left>>

------------------------------------------------------------------------------
(* Clients, peers, time and links.                                         *)

\* b declares its interests to a.
DeclareTopics(b, a) ==
  /\ Spend("declares")
  /\ \E S \in SUBSET Topic :
       /\ net' = [net EXCEPT ![<<b, a>>] = Append(@, [type |-> "topics", interests |-> S])]
       /\ declared' = [declared EXCEPT ![<<a, b>>] = @ \cup S]
  /\ UNCHANGED <<clock, cache, interests, how>>

\* requestData: everything, or what is newer than something b has.
RequestData(b, a) ==
  /\ Spend("requests")
  /\ \E t \in Topic : \E since \in {0} \cup {Stamp[e] : e \in Range(cache[b].rings[t])} :
       net' = [net EXCEPT ![<<b, a>>] =
                 Append(@, [type |-> "data_request", topic |-> t, since |-> since])]
  /\ UNCHANGED <<clock, cache, interests, declared, how>>

\* GET /data/:topic prunes the ring it reads.
GetEnvelopes(b, t) ==
  /\ Live(cache[b].rings[t]) # cache[b].rings[t]
  /\ cache' = [cache EXCEPT ![b].rings[t] = Live(@)]
  /\ UNCHANGED <<clock, interests, net, declared, how, left>>

Tick ==
  /\ clock < MaxClock
  /\ clock' = clock + 1
  /\ UNCHANGED <<cache, interests, net, declared, how, left>>

\* A link breaks and comes back: what was under way is lost, interests stay.
Drop(a, b) ==
  /\ net[<<a, b>>] # <<>>
  /\ Spend("drops")
  /\ net' = [net EXCEPT ![<<a, b>>] = <<>>, ![<<b, a>>] = <<>>]
  /\ UNCHANGED <<clock, cache, interests, declared, how>>

Handle(a, b) ==
  OnData(a, b) \/ OnTopics(a, b) \/ OnDataRequest(a, b) \/ OnDataResponse(a, b)

Next ==
  \/ \E b \in Bridge, e \in Sound : InjectEnvelope(b, e)
  \/ \E l \in Peering : OnData(l[1], l[2])
  \/ \E l \in Peering, e \in Envelope : OnDamagedData(l[1], l[2], e)
  \/ \E l \in Peering : OnTopics(l[1], l[2])
  \/ \E l \in Peering : OnDataRequest(l[1], l[2])
  \/ \E l \in Peering : OnDataResponse(l[1], l[2])
  \/ \E l \in Peering : DeclareTopics(l[1], l[2])
  \/ \E l \in Peering : RequestData(l[1], l[2])
  \/ \E b \in Bridge, t \in Topic : GetEnvelopes(b, t)
  \/ Tick
  \/ \E l \in Peering : Drop(l[1], l[2])

Spec == Init /\ [][Next]_vars

\* Some bridge handles what arrives, and time passes.
FairSpec ==
  /\ Spec
  /\ WF_vars(\E l \in Peering : Handle(l[1], l[2]))
  /\ WF_vars(Tick)
------------------------------------------------------------------------------
(* Properties.                                                             *)

\* The types and the caps: the dedup set and every ring keep to their sizes, and
\* nothing but sound envelopes of its topic is in a ring.
TypeOK ==
  /\ clock \in 1 .. MaxClock
  /\ \A b \in Bridge :
       /\ cache[b].seen \in Seq({HashOf[e] : e \in Envelope}) /\ Len(cache[b].seen) <= MaxSeen
       /\ \A t \in Topic :
            /\ cache[b].rings[t] \in Seq({e \in Sound : TopicOf[e] = t})
            /\ Len(cache[b].rings[t]) <= MaxPerTopic
  /\ interests \in [Peering -> SUBSET Topic]
  /\ net \in [Peering -> Seq(Message)]
  /\ declared \in [Peering -> SUBSET Topic]
  /\ how \in [Bridge -> [Envelope -> {"no", "pushed", "caught"}]]
  /\ left \in Plan

\* "Peers with no declared interests receive no data envelopes"
\* (docs/protocol.md:584), nor envelopes of a topic they never named.
OnlyToInterested ==
  \A l \in Peering : \A i \in 1 .. Len(net[l]) :
    net[l][i].type = "data" => TopicOf[net[l][i].env] \in declared[l]

\* b has accepted e, or an envelope that differs from it in ttl or signature alone.
Has(b, e) == \E s \in Sound : HashOf[s] = HashOf[e] /\ how[b][s] # "no"

\* An envelope that was pushed to a bridge is on its way to the interested peers of
\* this bridge, or they have it, or it has expired, whatever damaged copies came first;
\* if no link breaks and interests stay.
ReachesInterested ==
  \A l \in Peering, e \in Sound :
    /\ how[l[1]][e] = "pushed" /\ TopicOf[e] \in interests[l]
    /\ left.steady /\ Stamp[e] + Ttl[e] >= clock
    => Has(l[2], e) \/ Data(e) \in Range(net[l])

\* The caps hold, and they do not keep an envelope from those it interests.
CachesServeInterest == TypeOK /\ ReachesInterested

\* Also in a ring of bridges that forget sooner than envelopes circulate, the
\* flood ends: when they have expired, no envelope is under way.
FloodEnds ==
  <>[](\A l \in Peering : \A i \in 1 .. Len(net[l]) : net[l][i].type # "data")
==============================================================================
