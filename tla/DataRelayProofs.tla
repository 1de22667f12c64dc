----------------------------- MODULE DataRelayProofs -----------------------------
(***************************************************************************)
(* Proofs about DataRelay, whatever bridges, topics, caps and plans: no    *)
(* envelope is under way to a peer that never named its topic, and the     *)
(* caps of the caches hold and keep no envelope from those it interests.   *)
(***************************************************************************)
EXTENDS DataRelay, WellFoundedInduction, TLAPS

\* What may be under way on link l if d was declared: an envelope of a topic that the
\* receiver named to the sender, or a declaration that d records.
Allowed(m, l, d) ==
  /\ m.type = "data" => TopicOf[m.env] \in d[l]
  /\ m.type = "topics" => m.interests \subseteq d[<<l[2], l[1]>>]

\* The queue of link l holds nothing else.
Carries(queue, l, d) == \E S : queue \in Seq(S) /\ \A m \in S : Allowed(m, l, d)

\* The inductive invariant: a peer is taken for interested in nothing but what it once
\* declared, and neither an envelope nor a declaration under way says otherwise.
InterestInv ==
  /\ net = [l \in Peering |-> net[l]]
  /\ interests \in [Peering -> SUBSET Topic] /\ declared \in [Peering -> SUBSET Topic]
  /\ \A l \in Peering : interests[l] \subseteq declared[l]
  /\ \A l \in Peering : Carries(net[l], l, declared)

\* A link and its opposite.
LEMMA Links ==
  ASSUME NEW l \in Peering
  PROVE  <<l[1], l[2]>> = l /\ <<l[2], l[1]>> \in Peering /\ l[1] # l[2]
BY PeeringAssumption

\* The first message of a queue is allowed, and so is the rest.
LEMMA CarriesTail ==
  ASSUME NEW q, NEW l, NEW d, Carries(q, l, d), q # <<>>
  PROVE  Carries(Tail(q), l, d) /\ Allowed(Head(q), l, d)
<1>1. PICK S : q \in Seq(S) /\ \A m \in S : Allowed(m, l, d)
  BY DEF Carries
<1>2. Tail(q) \in Seq(S) /\ Head(q) \in S
  BY <1>1
<1> QED
  BY <1>1, <1>2 DEF Carries

\* A message that is allowed may be appended.
LEMMA CarriesAppend ==
  ASSUME NEW q, NEW l, NEW d, NEW m, Carries(q, l, d), Allowed(m, l, d)
  PROVE  Carries(Append(q, m), l, d)
<1>1. PICK S : q \in Seq(S) /\ \A x \in S : Allowed(x, l, d)
  BY DEF Carries
<1> DEFINE T == S \cup {m}
<1>2. q \in Seq(T)
  BY <1>1
<1>3. Append(q, m) \in Seq(T)
  BY <1>2
<1>4. \A x \in T : Allowed(x, l, d)
  BY <1>1
<1> HIDE DEF T
<1> QED
  BY <1>3, <1>4 DEF Carries

\* An empty queue carries nothing.
LEMMA CarriesNothing == ASSUME NEW l, NEW d PROVE Carries(<<>>, l, d)
<1>1. PICK S : S = {}
  OBVIOUS
<1>2. <<>> \in Seq(S) /\ \A m \in S : Allowed(m, l, d)
  BY <1>1
<1> QED
  BY <1>2, Zenon DEF Carries

\* To declare more forbids nothing.
LEMMA CarriesMore ==
  ASSUME NEW q, NEW l \in Peering, NEW d, NEW e, Carries(q, l, d),
         \A k \in Peering : d[k] \subseteq e[k]
  PROVE  Carries(q, l, e)
<1>1. PICK S : q \in Seq(S) /\ \A m \in S : Allowed(m, l, d)
  BY DEF Carries
<1>2. \A m \in S : Allowed(m, l, e)
  BY <1>1, Links DEF Allowed
<1> QED
  BY <1>1, <1>2 DEF Carries

\* What a queue holds is allowed.
LEMMA CarriesEach ==
  ASSUME NEW q, NEW l, NEW d, Carries(q, l, d), NEW i \in 1 .. Len(q)
  PROVE  Allowed(q[i], l, d)
<1>1. PICK S : q \in Seq(S) /\ \A m \in S : Allowed(m, l, d)
  BY DEF Carries
<1>2. q[i] \in S
  BY <1>1
<1> QED
  BY <1>1, <1>2

\* Consuming a message leaves what the other queues hold.
LEMMA Consuming ==
  ASSUME InterestInv, NEW l \in Peering, net[l] # <<>>
  PROVE  LET rest == Consumed(l[1], l[2]) IN
         /\ rest = [k \in Peering |-> rest[k]]
         /\ \A k \in Peering : Carries(rest[k], k, declared)
         /\ Allowed(Head(net[l]), l, declared)
<1> DEFINE rest == Consumed(l[1], l[2])
<1>1. <<l[1], l[2]>> = l
  BY Links
<1>2. rest = [net EXCEPT ![l] = Tail(net[l])]
  BY <1>1 DEF Consumed
<1>3. Carries(Tail(net[l]), l, declared) /\ Allowed(Head(net[l]), l, declared)
  BY CarriesTail DEF InterestInv
<1>4. rest = [k \in Peering |-> IF k = l THEN Tail(net[l]) ELSE net[k]]
  BY <1>2 DEF InterestInv
<1> HIDE DEF rest
<1>5. \A k \in Peering : Carries(rest[k], k, declared)
  BY <1>3, <1>4 DEF InterestInv
<1> QED
  BY <1>3, <1>4, <1>5 DEF rest

\* An envelope is accepted and forwarded to those alone that named its topic.
LEMMA Receiving ==
  ASSUME InterestInv, NEW b, NEW source, NEW e, NEW queues,
         queues = [k \in Peering |-> queues[k]],
         \A k \in Peering : Carries(queues[k], k, declared),
         Receive(b, source, e, queues)
  PROVE  InterestInv'
<1>1. UNCHANGED <<interests, declared>>
  BY DEF Receive
<1>2. CASE net' = queues
  BY <1>1, <1>2 DEF InterestInv
<1>3. CASE net' = Forward(queues, b, source, e)
  <2>1. \A k \in Peering : Carries(net'[k], k, declared)
    <3> SUFFICES ASSUME NEW k \in Peering PROVE Carries(net'[k], k, declared)
      OBVIOUS
    <3>1. CASE k[1] = b /\ k[2] # source /\ Matches(b, k[2], TopicOf[e])
      <4>1. net'[k] = Append(queues[k], Data(e))
        BY <1>3, <3>1 DEF Forward
      <4>2. <<b, k[2]>> = k
        BY <3>1, Links
      <4>3. TopicOf[e] \in declared[k]
        BY <3>1, <4>2 DEF Matches, InterestInv
      <4>4. Allowed(Data(e), k, declared)
        BY <4>3 DEF Allowed, Data
      <4> QED
        BY <4>1, <4>4, CarriesAppend
    <3>2. CASE ~(k[1] = b /\ k[2] # source /\ Matches(b, k[2], TopicOf[e]))
      BY <1>3, <3>2 DEF Forward
    <3> QED
      BY <3>1, <3>2
  <2>2. net' = [k \in Peering |-> net'[k]]
    BY <1>3 DEF Forward
  <2> QED
    BY <1>1, <2>1, <2>2 DEF InterestInv
<1> QED
  BY <1>2, <1>3 DEF Receive

\* The invariant holds at the start, when nothing is under way.
LEMMA InterestInit == Init => InterestInv
<1> SUFFICES ASSUME Init PROVE InterestInv
  OBVIOUS
<1>1. PICK p \in Plans : interests = p.interests /\ declared = p.interests
  BY DEF Init
<1>2. p.interests \in [Peering -> SUBSET Topic]
  BY PlanAssumption DEF Plan
<1>3. net = [l \in Peering |-> <<>>]
  BY DEF Init
<1> QED
  BY <1>1, <1>2, <1>3, CarriesNothing DEF InterestInv

\* A message that says nothing of interests and brings no envelope may be sent.
LEMMA Sending ==
  ASSUME InterestInv, NEW k \in Peering, NEW m, Allowed(m, k, declared), NEW queues,
         queues = [j \in Peering |-> queues[j]],
         \A j \in Peering : Carries(queues[j], j, declared),
         net' = [queues EXCEPT ![k] = Append(queues[k], m)], UNCHANGED <<interests, declared>>
  PROVE  InterestInv'
<1>1. net' = [j \in Peering |-> IF j = k THEN Append(queues[k], m) ELSE queues[j]]
  OBVIOUS
<1>2. Carries(Append(queues[k], m), k, declared)
  BY CarriesAppend
<1>3. \A j \in Peering : Carries(net'[j], j, declared)
  BY <1>1, <1>2
<1> QED
  BY <1>1, <1>3 DEF InterestInv

\* A message is handled.
LEMMA HandleStep ==
  ASSUME InterestInv, NEW l \in Peering,
         OnData(l[1], l[2]) \/ OnTopics(l[1], l[2]) \/ OnDataRequest(l[1], l[2])
         \/ OnDataResponse(l[1], l[2])
  PROVE  InterestInv'
<1> DEFINE m == Head(net[l])
           rest == Consumed(l[1], l[2])
<1>1. <<l[1], l[2]>> = l /\ <<l[2], l[1]>> \in Peering
  BY Links
<1>2. net[l] # <<>>
  BY <1>1 DEF OnData, OnTopics, OnDataRequest, OnDataResponse, Arrives
<1>3. /\ rest = [k \in Peering |-> rest[k]]
      /\ \A k \in Peering : Carries(rest[k], k, declared)
      /\ Allowed(m, l, declared)
  BY <1>2, Consuming
<1> HIDE DEF rest
<1>4. CASE OnData(l[1], l[2])
  <2>1. Receive(l[2], l[1], m.env, rest)
    BY <1>1, <1>4 DEF OnData, rest
  <2> QED
    BY <1>3, <2>1, Receiving
<1>5. CASE OnTopics(l[1], l[2])
  <2>1. /\ m.type = "topics"
        /\ interests' = [interests EXCEPT ![<<l[2], l[1]>>] = m.interests]
        /\ net' = rest /\ UNCHANGED declared
    BY <1>1, <1>5 DEF OnTopics, Arrives, rest
  <2>2. m.interests \subseteq declared[<<l[2], l[1]>>]
    BY <1>3, <2>1 DEF Allowed
  <2> HIDE DEF m
  <2>3. /\ interests' \in [Peering -> SUBSET Topic]
        /\ \A k \in Peering : interests'[k] \subseteq declared'[k]
    BY <1>1, <2>1, <2>2 DEF InterestInv
  <2> QED
    BY <1>3, <2>1, <2>3 DEF InterestInv
<1>6. CASE OnDataRequest(l[1], l[2])
  <2> DEFINE r == [type |-> "data_response",
                   envelopes |-> Page(Live(cache[l[2]].rings[m.topic]), m.since)]
  <2>1. /\ net' = [rest EXCEPT ![<<l[2], l[1]>>] = Append(rest[<<l[2], l[1]>>], r)]
        /\ UNCHANGED <<interests, declared>>
    BY <1>1, <1>6 DEF OnDataRequest, rest
  <2>2. Allowed(r, <<l[2], l[1]>>, declared)
    BY DEF Allowed
  <2> HIDE DEF r
  <2> QED
    BY <1>1, <1>3, <2>1, <2>2, Sending
<1>7. CASE OnDataResponse(l[1], l[2])
  BY <1>3, <1>7 DEF OnDataResponse, InterestInv, rest
<1> QED
  BY <1>4, <1>5, <1>6, <1>7

\* Clients, declarations, requests and broken links.
LEMMA LocalStep ==
  ASSUME InterestInv,
         \/ \E b \in Bridge, e \in Sound : InjectEnvelope(b, e)
         \/ \E l \in Peering, e \in Envelope : OnDamagedData(l[1], l[2], e)
         \/ \E l \in Peering : DeclareTopics(l[1], l[2])
         \/ \E l \in Peering : RequestData(l[1], l[2])
         \/ \E l \in Peering : Drop(l[1], l[2])
  PROVE  InterestInv'
<1>1. /\ net = [k \in Peering |-> net[k]]
      /\ \A k \in Peering : Carries(net[k], k, declared)
  BY DEF InterestInv
<1>2. CASE \E b \in Bridge, e \in Sound : InjectEnvelope(b, e)
  <2>1. PICK b \in Bridge, e \in Sound : Receive(b, b, e, net)
    BY <1>2 DEF InjectEnvelope
  <2> QED
    BY <1>1, <2>1, Receiving
<1>3. CASE \E l \in Peering, e \in Envelope : OnDamagedData(l[1], l[2], e)
  <2>1. PICK l \in Peering, e \in Envelope : Receive(l[2], l[1], e, net)
    BY <1>3 DEF OnDamagedData
  <2> QED
    BY <1>1, <2>1, Receiving
<1>4. CASE \E l \in Peering : DeclareTopics(l[1], l[2])
  <2>1. PICK l \in Peering : DeclareTopics(l[1], l[2])
    BY <1>4
  <2> DEFINE back == <<l[2], l[1]>>
  <2>2. <<l[1], l[2]>> = l /\ back \in Peering /\ <<back[2], back[1]>> = l
    BY Links
  <2>3. PICK S \in SUBSET Topic :
          /\ net' = [net EXCEPT ![l] = Append(net[l], [type |-> "topics", interests |-> S])]
          /\ declared' = [declared EXCEPT ![back] = declared[back] \cup S]
          /\ UNCHANGED interests
    BY <2>1, <2>2 DEF DeclareTopics
  <2> DEFINE m == [type |-> "topics", interests |-> S]
  <2> HIDE DEF back
  <2>4. /\ declared' \in [Peering -> SUBSET Topic] /\ S \subseteq declared'[back]
        /\ \A k \in Peering : declared[k] \subseteq declared'[k]
    BY <2>2, <2>3 DEF InterestInv
  <2>5. \A k \in Peering : Carries(net[k], k, declared')
    BY <1>1, <2>4, CarriesMore
  <2>6. Allowed(m, l, declared')
    BY <2>4 DEF Allowed, back
  <2>7. net' = [k \in Peering |-> IF k = l THEN Append(net[l], m) ELSE net[k]]
    BY <1>1, <2>3
  <2>8. Carries(Append(net[l], m), l, declared')
    BY <2>5, <2>6, CarriesAppend
  <2> HIDE DEF m
  <2>9. \A k \in Peering : Carries(net'[k], k, declared')
    BY <2>5, <2>7, <2>8
  <2>10. \A k \in Peering : interests'[k] \subseteq declared'[k]
    BY <2>3, <2>4 DEF InterestInv
  <2> QED
    BY <2>3, <2>4, <2>7, <2>9, <2>10 DEF InterestInv
<1>5. CASE \E l \in Peering : RequestData(l[1], l[2])
  <2>1. PICK l \in Peering : RequestData(l[1], l[2])
    BY <1>5
  <2>2. <<l[1], l[2]>> = l
    BY Links
  <2>3. PICK t, since :
          net' = [net EXCEPT ![l] =
                    Append(net[l], [type |-> "data_request", topic |-> t, since |-> since])]
    BY <2>1, <2>2 DEF RequestData
  <2> DEFINE r == [type |-> "data_request", topic |-> t, since |-> since]
  <2>4. /\ Allowed(r, l, declared) /\ UNCHANGED <<interests, declared>>
        /\ net' = [net EXCEPT ![l] = Append(net[l], r)]
    BY <2>1, <2>3 DEF Allowed, RequestData
  <2> HIDE DEF r
  <2> QED
    BY <1>1, <2>4, Sending
<1>6. CASE \E l \in Peering : Drop(l[1], l[2])
  <2>1. PICK l \in Peering : Drop(l[1], l[2])
    BY <1>6
  <2>2. <<l[1], l[2]>> = l /\ <<l[2], l[1]>> \in Peering
    BY Links
  <2>3. /\ net' = [net EXCEPT ![l] = <<>>, ![<<l[2], l[1]>>] = <<>>]
        /\ UNCHANGED <<interests, declared>>
    BY <2>1, <2>2 DEF Drop
  <2>4. net' = [k \in Peering |-> IF k \in {l, <<l[2], l[1]>>} THEN <<>> ELSE net[k]]
    BY <1>1, <2>2, <2>3
  <2>5. \A k \in Peering : Carries(net'[k], k, declared)
    BY <1>1, <2>4, CarriesNothing
  <2> QED
    BY <2>3, <2>4, <2>5 DEF InterestInv
<1> QED
  BY <1>2, <1>3, <1>4, <1>5, <1>6

\* The invariant is inductive.
LEMMA InterestStep == InterestInv /\ [Next]_vars => InterestInv'
<1> SUFFICES ASSUME InterestInv, [Next]_vars PROVE InterestInv'
  OBVIOUS
<1>1. CASE UNCHANGED <<net, interests, declared>>
  BY <1>1 DEF InterestInv
<1>2. CASE (\E b \in Bridge, t \in Topic : GetEnvelopes(b, t)) \/ Tick \/ UNCHANGED vars
  BY <1>1, <1>2 DEF GetEnvelopes, Tick, vars
<1> QED
  BY <1>2, HandleStep, LocalStep DEF Next

\* No envelope is under way to a peer that never named its topic to the sender, although
\* declarations overtake and replace each other and forwarding reads what was known
\* before (data-relay.js).
THEOREM DataOnlyToInterested == Spec => []OnlyToInterested
<1>1. InterestInv => OnlyToInterested
  BY CarriesEach DEF InterestInv, OnlyToInterested, Allowed
<1> QED
  BY InterestInit, InterestStep, <1>1, PTL DEF Spec

------------------------------------------------------------------------------
(* What the recursive functions Among and Taken compute.                   *)

\* A set of naturals that is not empty has a least element.
LEMMA Least ==
  ASSUME NEW T \in SUBSET Nat, T # {}
  PROVE  \E n \in T : \A m \in T : n <= m
<1> DEFINE R == OpToRel(<,Nat)
<1>1. IsWellFoundedOn(R, Nat)
  BY NatLessThanWellFounded
<1>2. \A m, n \in Nat : m < n => <<m, n>> \in R
  BY DEF OpToRel
<1> HIDE DEF R
<1>3. PICK n \in T : \A m \in T : ~(<<m, n>> \in R)
  BY <1>1, WFMin
<1>4. ASSUME NEW m \in T PROVE n <= m
  <2>1. ~(m < n)
    BY <1>2, <1>3, <1>4
  <2> QED
    BY <2>1
<1> QED
  BY <1>4

\* A set of naturals that holds 0 and with each number the next holds all.
LEMMA Induction ==
  ASSUME NEW T \in SUBSET Nat, 0 \in T, \A n \in T : n + 1 \in T
  PROVE  T = Nat
<1> DEFINE N == Nat \ T
<1> SUFFICES ASSUME N # {} PROVE FALSE
  OBVIOUS
<1>1. PICK n \in N : \A m \in N : n <= m
  BY Least
<1>2. n \in Nat /\ n # 0 /\ n - 1 \in Nat /\ n - 1 \notin N
  BY <1>1
<1>3. (n - 1) + 1 \in T
  BY <1>2
<1> QED
  BY <1>2, <1>3

\* g goes through s step by step, from c.
Runs(g, S, c, step, s) ==
  /\ g \in [0 .. Len(s) -> S] /\ g[0] = c
  /\ \A i \in 1 .. Len(s) : g[i] = step[<<g[i - 1], s[i]>>]

\* There is a function that goes through s step by step.
LEMMA Steps ==
  ASSUME NEW S, NEW I, NEW step \in [S \X I -> S], NEW c \in S, NEW s \in Seq(I)
  PROVE  \E g : Runs(g, S, c, step, s)
<1> DEFINE P(g, n) == /\ g \in [0 .. n -> S] /\ g[0] = c
                      /\ \A i \in 1 .. n : g[i] = step[<<g[i - 1], s[i]>>]
           T == {n \in Nat : n <= Len(s) => \E g : P(g, n)}
<1>1. 0 \in T
  <2>1. P([i \in 0 .. 0 |-> c], 0)
    OBVIOUS
  <2> QED
    BY <2>1
<1>2. ASSUME NEW n \in T PROVE n + 1 \in T
  <2> SUFFICES ASSUME n + 1 <= Len(s) PROVE \E g : P(g, n + 1)
    OBVIOUS
  <2>1. PICK g : P(g, n)
    BY <1>2
  <2> DEFINE x == step[<<g[n], s[n + 1]>>]
             h == [i \in 0 .. n + 1 |-> IF i = n + 1 THEN x ELSE g[i]]
  <2>2. n \in Nat /\ g[n] \in S /\ s[n + 1] \in I
    BY <2>1
  <2>3. x \in S
    BY <2>2
  <2>4. h \in [0 .. n + 1 -> S] /\ h[0] = c
    BY <2>1, <2>2, <2>3
  <2>5. ASSUME NEW i \in 1 .. n + 1 PROVE h[i] = step[<<h[i - 1], s[i]>>]
    <3>1. CASE i = n + 1
      <4>1. n \in 0 .. n + 1 /\ n # n + 1 /\ n + 1 \in 0 .. n + 1 /\ i - 1 = n
        BY <2>2, <3>1
      <4>2. h[i] = x /\ h[i - 1] = g[n]
        BY <3>1, <4>1
      <4> QED
        BY <3>1, <4>2
    <3>2. CASE i # n + 1
      <4>1. i \in 1 .. n /\ i - 1 \in 0 .. n + 1 /\ i - 1 # n + 1 /\ i \in 0 .. n + 1
        BY <2>2, <3>2
      <4>2. h[i] = g[i] /\ h[i - 1] = g[i - 1]
        BY <3>2, <4>1
      <4> QED
        BY <2>1, <4>1, <4>2
    <3> QED BY <3>1, <3>2
  <2> QED
    BY <2>4, <2>5
<1> HIDE DEF T
<1>3. T = Nat
  BY <1>1, <1>2, Induction DEF T
<1>4. PICK g : P(g, Len(s))
  BY <1>3 DEF T
<1> QED
  BY <1>4 DEF Runs

\* What one step preserves of what is reached, all steps preserve.
LEMMA AllSteps ==
  ASSUME NEW n \in Nat, NEW Good, NEW g, g[0] \in Good,
         \A i \in 1 .. n : g[i - 1] \in Good => g[i] \in Good
  PROVE  g[n] \in Good
<1> DEFINE T == {i \in Nat : i <= n => g[i] \in Good}
<1>1. 0 \in T
  OBVIOUS
<1>2. ASSUME NEW i \in T PROVE i + 1 \in T
  BY <1>2
<1> HIDE DEF T
<1>3. n \in T
  BY <1>1, <1>2, Induction DEF T
<1> QED
  BY <1>3 DEF T

\* g keeps, element by element, those of s that are in S.
Sifts(g, I, s, S) ==
  /\ g \in [0 .. Len(s) -> Seq(I)] /\ g[0] = <<>>
  /\ \A i \in 1 .. Len(s) :
       g[i] = IF s[i] \in S THEN Append(g[i - 1], s[i]) ELSE g[i - 1]

\* What Among computes.
LEMMA AmongRuns ==
  ASSUME NEW I, NEW s \in Seq(I), NEW S
  PROVE  \E g : Sifts(g, I, s, S) /\ g[Len(s)] = Among(s, S)
<1> DEFINE Q == Seq(I)
           nil == <<>>
           step == [x \in Q \X I |-> IF x[2] \in S THEN Append(x[1], x[2]) ELSE x[1]]
           Def(g) == [i \in 0 .. Len(s) |->
                        IF i = 0 THEN <<>>
                        ELSE IF s[i] \in S THEN Append(g[i - 1], s[i]) ELSE g[i - 1]]
           kept == CHOOSE g : g = Def(g)
<1>1. step \in [Q \X I -> Q] /\ nil \in Q
  OBVIOUS
<1>2. ASSUME NEW q \in Q, NEW e \in I
      PROVE  step[<<q, e>>] = IF e \in S THEN Append(q, e) ELSE q
  OBVIOUS
<1> HIDE DEF step, Q, nil
<1>3. PICK g : Runs(g, Q, nil, step, s)
  BY <1>1, Steps
<1>4. ASSUME NEW i \in 1 .. Len(s)
      PROVE  g[i] = IF s[i] \in S THEN Append(g[i - 1], s[i]) ELSE g[i - 1]
  <2>1. i - 1 \in 0 .. Len(s) /\ s[i] \in I
    OBVIOUS
  <2>2. g[i - 1] \in Q
    BY <1>3, <2>1 DEF Runs
  <2>3. g[i] = step[<<g[i - 1], s[i]>>]
    BY <1>3 DEF Runs
  <2> QED
    BY <1>2, <2>1, <2>2, <2>3
<1>5. g = Def(g)
  <2>1. g = [i \in 0 .. Len(s) |-> g[i]] /\ g[0] = <<>>
    BY <1>3 DEF Runs, nil
  <2>2. ASSUME NEW i \in 0 .. Len(s)
        PROVE  g[i] = IF i = 0 THEN <<>>
                      ELSE IF s[i] \in S THEN Append(g[i - 1], s[i]) ELSE g[i - 1]
    BY <1>4, <2>1
  <2> QED
    BY <2>1, <2>2
<1>6. kept = Def(kept)
  BY <1>5
<1>7. Among(s, S) = kept[Len(s)]
  BY DEF Among
<1> HIDE DEF kept
<1>8. kept[0] = <<>>
  BY <1>6
<1>9. ASSUME NEW i \in 1 .. Len(s)
      PROVE  kept[i] = IF s[i] \in S THEN Append(kept[i - 1], s[i]) ELSE kept[i - 1]
  <2>1. i \in 0 .. Len(s) /\ i # 0
    OBVIOUS
  <2> QED
    BY <1>6, <2>1
<1> DEFINE T == {n \in Nat : n <= Len(s) => kept[n] = g[n]}
<1>10. 0 \in T
  BY <1>3, <1>8 DEF Runs, nil
<1>11. ASSUME NEW n \in T PROVE n + 1 \in T
  <2> SUFFICES ASSUME n + 1 <= Len(s) PROVE kept[n + 1] = g[n + 1]
    OBVIOUS
  <2> DEFINE i == n + 1
  <2>1. i \in 1 .. Len(s) /\ i - 1 = n /\ kept[n] = g[n]
    BY <1>11
  <2> HIDE DEF i
  <2>2. kept[i] = g[i]
    BY <1>4, <1>9, <2>1
  <2> QED
    BY <2>2 DEF i
<1>13. T \in SUBSET Nat /\ Len(s) \in Nat
  OBVIOUS
<1> HIDE DEF T
<1>14. T = Nat
  BY <1>10, <1>11, <1>13, Induction
<1>12. g[Len(s)] = Among(s, S)
  BY <1>7, <1>13, <1>14 DEF T
<1> QED
  BY <1>3, <1>4, <1>12 DEF Runs, Sifts, Q, nil

\* The elements of a sequence that are in a set are a sequence, and no longer.
LEMMA AmongKeeps ==
  ASSUME NEW I, NEW s \in Seq(I), NEW S
  PROVE  Among(s, S) \in Seq(I) /\ Len(Among(s, S)) <= Len(s)
<1>1. PICK g : Sifts(g, I, s, S) /\ g[Len(s)] = Among(s, S)
  BY AmongRuns
<1> USE DEF Sifts
<1> DEFINE T == {n \in Nat : n <= Len(s) => Len(g[n]) <= n}
<1>2. 0 \in T
  BY <1>1
<1>3. ASSUME NEW n \in T PROVE n + 1 \in T
  <2> SUFFICES ASSUME n + 1 <= Len(s) PROVE Len(g[n + 1]) <= n + 1
    OBVIOUS
  <2> DEFINE i == n + 1
  <2>1. i \in 1 .. Len(s) /\ i - 1 = n /\ n \in 0 .. Len(s) /\ Len(g[n]) <= n
    BY <1>3
  <2> HIDE DEF i
  <2>2. g[i] = IF s[i] \in S THEN Append(g[n], s[i]) ELSE g[n]
    BY <1>1, <2>1
  <2>3. g[n] \in Seq(I) /\ s[i] \in I
    BY <1>1, <2>1
  <2>4. Len(g[i]) <= n + 1
    BY <2>1, <2>2, <2>3
  <2> QED
    BY <2>4 DEF i
<1>4. T \in SUBSET Nat /\ Len(s) \in Nat
  OBVIOUS
<1> HIDE DEF T
<1>5. T = Nat
  BY <1>2, <1>3, <1>4, Induction
<1>6. Len(g[Len(s)]) <= Len(s)
  BY <1>4, <1>5 DEF T
<1> QED
  BY <1>1, <1>4, <1>6

\* What Taken computes, envelope by envelope, if Stored keeps to the set C.
LEMMA TakenRuns ==
  ASSUME NEW C, NEW c \in C, NEW s \in Seq(Envelope),
         \A x \in C, e \in Envelope : Stored(x, e) \in C
  PROVE  \E g \in [0 .. Len(s) -> C] :
           /\ g[0] = c /\ g[Len(s)] = Taken(c, s)
           /\ \A i \in 1 .. Len(s) : g[i] = Stored(g[i - 1], s[i])
<1> DEFINE step == [x \in C \X Envelope |-> Stored(x[1], x[2])]
           Def(g) == [i \in 0 .. Len(s) |->
                        IF i = 0 THEN c ELSE Stored(g[i - 1], s[i])]
           after == CHOOSE g : g = Def(g)
<1>1. step \in [C \X Envelope -> C]
  OBVIOUS
<1>2. ASSUME NEW q \in C, NEW e \in Envelope PROVE step[<<q, e>>] = Stored(q, e)
  OBVIOUS
<1> HIDE DEF step
<1>3. PICK g : Runs(g, C, c, step, s)
  BY <1>1, Steps
<1>4. ASSUME NEW i \in 1 .. Len(s) PROVE g[i] = Stored(g[i - 1], s[i])
  <2>1. i - 1 \in 0 .. Len(s) /\ s[i] \in Envelope
    OBVIOUS
  <2>2. g[i - 1] \in C
    BY <1>3, <2>1 DEF Runs
  <2>3. g[i] = step[<<g[i - 1], s[i]>>]
    BY <1>3 DEF Runs
  <2> QED
    BY <1>2, <2>1, <2>2, <2>3
<1>5. g = Def(g)
  <2>1. g = [i \in 0 .. Len(s) |-> g[i]] /\ g[0] = c
    BY <1>3 DEF Runs
  <2>2. ASSUME NEW i \in 0 .. Len(s)
        PROVE  g[i] = IF i = 0 THEN c ELSE Stored(g[i - 1], s[i])
    <3>1. CASE i = 0
      BY <2>1, <3>1
    <3>2. CASE i # 0
      <4>1. i \in 1 .. Len(s)
        BY <3>2
      <4> QED
        BY <1>4, <3>2, <4>1
    <3> QED
      BY <3>1, <3>2
  <2> QED
    BY <2>1, <2>2
<1>6. after = Def(after)
  BY <1>5
<1>7. Taken(c, s) = after[Len(s)]
  BY DEF Taken
<1> HIDE DEF after
<1>8. after[0] = c
  BY <1>6
<1>9. ASSUME NEW i \in 1 .. Len(s) PROVE after[i] = Stored(after[i - 1], s[i])
  <2>1. i \in 0 .. Len(s) /\ i # 0
    OBVIOUS
  <2> QED
    BY <1>6, <2>1
<1> DEFINE T == {n \in Nat : n <= Len(s) => after[n] = g[n]}
<1>10. 0 \in T
  BY <1>3, <1>8 DEF Runs
<1>11. ASSUME NEW n \in T PROVE n + 1 \in T
  <2> SUFFICES ASSUME n + 1 <= Len(s) PROVE after[n + 1] = g[n + 1]
    OBVIOUS
  <2> DEFINE i == n + 1
  <2>1. i \in 1 .. Len(s) /\ i - 1 = n /\ after[n] = g[n]
    BY <1>11
  <2> HIDE DEF i
  <2>2. after[i] = g[i]
    BY <1>4, <1>9, <2>1
  <2> QED
    BY <2>2 DEF i
<1>12. T \in SUBSET Nat /\ Len(s) \in Nat
  OBVIOUS
<1> HIDE DEF T
<1>13. T = Nat
  BY <1>10, <1>11, <1>12, Induction
<1>14. g[Len(s)] = Taken(c, s)
  BY <1>7, <1>12, <1>13 DEF T
<1> QED
  BY <1>3, <1>4, <1>14 DEF Runs

\* The newest elements of a sequence are a sequence no longer than asked for.
LEMMA NewestOnes ==
  ASSUME NEW S, NEW s \in Seq(S), NEW n \in Nat \ {0}
  PROVE  /\ Newest(s, n) \in Seq(S) /\ Len(Newest(s, n)) <= n
         /\ Range(Newest(s, n)) \subseteq Range(s)
<1>1. CASE Len(s) <= n
  BY <1>1 DEF Newest
<1>2. CASE ~(Len(s) <= n)
  <2>1. Newest(s, n) = SubSeq(s, Len(s) - n + 1, Len(s))
    BY <1>2 DEF Newest
  <2>2. Len(s) - n + 1 \in 1 .. Len(s) /\ Len(s) \in Nat
    BY <1>2
  <2>3. /\ SubSeq(s, Len(s) - n + 1, Len(s)) \in Seq(S)
        /\ Len(SubSeq(s, Len(s) - n + 1, Len(s))) = n
    BY <2>2
  <2>4. ASSUME NEW i \in 1 .. n
        PROVE  SubSeq(s, Len(s) - n + 1, Len(s))[i] \in Range(s)
    <3> DEFINE j == Len(s) - n + i
    <3>1. SubSeq(s, Len(s) - n + 1, Len(s))[i] = s[j] /\ j \in 1 .. Len(s)
      BY <2>2
    <3> QED
      BY <3>1 DEF Range
  <2> DEFINE r == SubSeq(s, Len(s) - n + 1, Len(s))
  <2>5. r \in Seq(S) /\ Len(r) = n /\ \A i \in 1 .. n : r[i] \in Range(s)
    BY <2>3, <2>4
  <2> HIDE DEF r
  <2>6. Range(r) \subseteq Range(s)
    <3>1. DOMAIN r = 1 .. n
      BY <2>5
    <3> QED
      BY <2>5, <3>1 DEF Range
  <2> QED
    BY <2>1, <2>5, <2>6 DEF r
<1> QED
  BY <1>1, <1>2

------------------------------------------------------------------------------
(* The caches serve the declared interests.                                *)

\* The hashes, and the sound envelopes of a topic.
Hashes == {HashOf[e] : e \in Envelope}
OfTopic(t) == {e \in Sound : TopicOf[e] = t}

\* The caches: a bounded dedup set, and a bounded ring of sound envelopes per topic.
Cache ==
  {c \in [seen : Seq(Hashes), rings : [Topic -> Seq(Sound)]] :
     /\ Len(c.seen) <= MaxSeen
     /\ \A t \in Topic : c.rings[t] \in Seq(OfTopic(t)) /\ Len(c.rings[t]) <= MaxPerTopic}

\* Appending adds one element.
LEMMA RangeAppend ==
  ASSUME NEW S, NEW s \in Seq(S), NEW x \in S
  PROVE  Range(Append(s, x)) = Range(s) \cup {x}
<1>1. /\ Append(s, x) \in Seq(S) /\ Len(Append(s, x)) = Len(s) + 1
      /\ Append(s, x)[Len(s) + 1] = x
      /\ \A i \in 1 .. Len(s) : Append(s, x)[i] = s[i]
  OBVIOUS
<1>2. ASSUME NEW y \in Range(Append(s, x)) PROVE y \in Range(s) \cup {x}
  <2>1. PICK i \in 1 .. Len(s) + 1 : y = Append(s, x)[i]
    BY <1>1 DEF Range
  <2>2. CASE i = Len(s) + 1
    BY <1>1, <2>1, <2>2
  <2>3. CASE i \in 1 .. Len(s)
    BY <1>1, <2>1, <2>3 DEF Range
  <2> QED BY <2>2, <2>3
<1>3. ASSUME NEW y \in Range(s) PROVE y \in Range(Append(s, x))
  <2>1. PICK i \in 1 .. Len(s) : y = s[i]
    BY DEF Range
  <2>2. i \in 1 .. Len(s) + 1 /\ y = Append(s, x)[i]
    BY <1>1, <2>1
  <2> QED
    BY <1>1, <2>2 DEF Range
<1>4. x \in Range(Append(s, x))
  <2>1. Len(s) + 1 \in 1 .. Len(s) + 1
    OBVIOUS
  <2> QED
    BY <1>1, <2>1 DEF Range
<1> QED
  BY <1>2, <1>3, <1>4

\* Storing an envelope keeps the cache within its bounds, and adds no hash but that of an
\* envelope that is accepted.
LEMMA StoredKeeps ==
  ASSUME NEW c \in Cache, NEW e \in Envelope
  PROVE  /\ Stored(c, e) \in Cache
         /\ Range(Stored(c, e).seen) \subseteq Range(c.seen) \cup {HashOf[e]}
         /\ ~Accepts(c, e) => Stored(c, e) = c
<1> DEFINE seen == IF Remembers(c, e) THEN Newest(Append(c.seen, HashOf[e]), MaxSeen)
                   ELSE c.seen
           t == TopicOf[e]
           ring == Newest(Append(c.rings[t], e), MaxPerTopic)
           rings == IF Accepts(c, e) THEN [c.rings EXCEPT ![t] = ring] ELSE c.rings
<1>1. Stored(c, e) = [seen |-> seen, rings |-> rings]
  BY DEF Stored
<1>2. /\ c \in [seen : Seq(Hashes), rings : [Topic -> Seq(Sound)]]
      /\ c.seen \in Seq(Hashes) /\ Len(c.seen) <= MaxSeen
      /\ c.rings \in [Topic -> Seq(Sound)]
      /\ \A u \in Topic : c.rings[u] \in Seq(OfTopic(u)) /\ Len(c.rings[u]) <= MaxPerTopic
  BY DEF Cache
<1>3. /\ t \in Topic /\ HashOf[e] \in Hashes /\ MaxSeen \in Nat \ {0}
      /\ MaxPerTopic \in Nat \ {0} /\ Sound \subseteq Envelope
  BY EnvelopeAssumption, BoundAssumption DEF Hashes
<1>4. /\ seen \in Seq(Hashes) /\ Len(seen) <= MaxSeen
      /\ Range(seen) \subseteq Range(c.seen) \cup {HashOf[e]}
  <2> DEFINE more == Append(c.seen, HashOf[e])
  <2>1. more \in Seq(Hashes) /\ Range(more) = Range(c.seen) \cup {HashOf[e]}
    BY <1>2, <1>3, RangeAppend
  <2> HIDE DEF more
  <2>2. /\ Newest(more, MaxSeen) \in Seq(Hashes) /\ Len(Newest(more, MaxSeen)) <= MaxSeen
        /\ Range(Newest(more, MaxSeen)) \subseteq Range(more)
    BY <1>3, <2>1, NewestOnes
  <2> QED
    BY <1>2, <2>1, <2>2 DEF more
<1>5. /\ rings \in [Topic -> Seq(Sound)]
      /\ \A u \in Topic : rings[u] \in Seq(OfTopic(u)) /\ Len(rings[u]) <= MaxPerTopic
  <2>1. CASE Accepts(c, e)
    <3>1. e \in OfTopic(t) /\ OfTopic(t) \subseteq Sound
      BY <2>1 DEF Accepts, OfTopic
    <3>2. Append(c.rings[t], e) \in Seq(OfTopic(t))
      BY <1>2, <1>3, <3>1
    <3>3. ring \in Seq(OfTopic(t)) /\ Len(ring) <= MaxPerTopic
      BY <1>3, <3>2, NewestOnes
    <3> HIDE DEF ring, t
    <3>4. ring \in Seq(Sound)
      BY <3>1, <3>3
    <3>5. rings = [u \in Topic |-> IF u = t THEN ring ELSE c.rings[u]]
      BY <1>2, <2>1
    <3> QED
      BY <1>2, <3>3, <3>4, <3>5
  <2>2. CASE ~Accepts(c, e)
    BY <1>2, <2>2
  <2> QED
    BY <2>1, <2>2
<1>6. ~Accepts(c, e) => seen = c.seen /\ rings = c.rings
  BY DEF Remembers
<1> HIDE DEF seen, rings
<1>7. ~Accepts(c, e) => Stored(c, e) = c
  BY <1>1, <1>2, <1>6
<1> QED
  BY <1>1, <1>4, <1>5, <1>7 DEF Cache

\* A response leaves the hashes the cache had and those of envelopes it accepts.
LEMMA TakenKeeps ==
  ASSUME NEW c \in Cache, NEW s \in Seq(Envelope)
  PROVE  /\ Taken(c, s) \in Cache
         /\ \A h \in Range(Taken(c, s).seen) :
              h \in Range(c.seen) \/ \E e \in Range(s) : Accepts(c, e) /\ HashOf[e] = h
<1> DEFINE known(h) == h \in Range(c.seen) \/ \E e \in Range(s) : Accepts(c, e) /\ HashOf[e] = h
           Good == {x \in Cache : \A h \in Range(x.seen) : known(h)}
<1>1. \A x \in Cache, e \in Envelope : Stored(x, e) \in Cache
  BY StoredKeeps
<1>2. PICK g \in [0 .. Len(s) -> Cache] :
        /\ g[0] = c /\ g[Len(s)] = Taken(c, s)
        /\ \A i \in 1 .. Len(s) : g[i] = Stored(g[i - 1], s[i])
  BY <1>1, TakenRuns
<1>3. g[0] \in Good
  BY <1>2
<1>4. ASSUME NEW i \in 1 .. Len(s), g[i - 1] \in Good PROVE g[i] \in Good
  <2> DEFINE x == g[i - 1]
             e == s[i]
  <2>1. x \in Cache /\ e \in Envelope /\ e \in Range(s) /\ g[i] = Stored(x, e)
    BY <1>2, <1>4 DEF Range
  <2>2. \A h \in Range(x.seen) : known(h)
    BY <1>4
  <2> HIDE DEF x, e
  <2>3. /\ Stored(x, e) \in Cache
        /\ Range(Stored(x, e).seen) \subseteq Range(x.seen) \cup {HashOf[e]}
        /\ ~Accepts(x, e) => Stored(x, e) = x
    BY <2>1, StoredKeeps
  <2>4. Accepts(x, e) => known(HashOf[e])
    BY <2>1 DEF Accepts
  <2> HIDE DEF known
  <2>5. \A h \in Range(Stored(x, e).seen) : known(h)
    BY <2>2, <2>3, <2>4
  <2> QED
    BY <2>1, <2>3, <2>5
<1>5. Len(s) \in Nat
  OBVIOUS
<1> HIDE DEF Good
<1>6. g[Len(s)] \in Good
  BY <1>3, <1>4, <1>5, AllSteps
<1> QED
  BY <1>2, <1>6 DEF Good

\* The fields of a message.
LEMMA Fields ==
  ASSUME NEW m \in Message
  PROVE  /\ m.type = "data" => m.env \in Envelope /\ m = Data(m.env)
         /\ m.type = "topics" => m.interests \in SUBSET Topic
         /\ m.type = "data_request" => m.topic \in Topic /\ m.since \in Nat
         /\ m.type = "data_response" => m.envelopes \in Seq(Envelope)
BY DEF Message, Data

Ways == {"no", "pushed", "caught"}

Typed ==
  /\ clock \in 1 .. MaxClock
  /\ cache \in [Bridge -> Cache]
  /\ interests \in [Peering -> SUBSET Topic]
  /\ net \in [Peering -> Seq(Message)]
  /\ declared \in [Peering -> SUBSET Topic]
  /\ how \in [Bridge -> [Envelope -> Ways]]
  /\ left \in Plan

\* A hash is remembered for a sound envelope that was accepted, and an envelope that was
\* accepted was sound, and early enough for everybody from then on.
RememberedHad ==
  \A b \in Bridge : \A h \in Range(cache[b].seen) :
    \E s \in Sound : HashOf[s] = h /\ how[b][s] # "no"
AcceptedTimely ==
  \A b \in Bridge, e \in Envelope : how[b][e] # "no" =>
    e \in Sound /\ Ttl[e] <= MaxTtl /\ Stamp[e] <= clock + MaxFuture

\* An envelope under way was accepted by its sender; a steady mesh declares nothing.
Honest(m, l) ==
  /\ m.type = "data" => m.env \in Sound /\ how[l[1]][m.env] # "no"
  /\ left.steady => m.type # "topics"
HonestNet == \A l \in Peering : \A m \in Range(net[l]) : Honest(m, l)

ServeInv == Typed /\ RememberedHad /\ AcceptedTimely /\ HonestNet /\ ReachesInterested

\* A bridge is noted to have accepted certain envelopes; what was noted stays.
LEMMA FirstNotes ==
  ASSUME Typed, NEW b \in Bridge, NEW E, NEW way \in Ways \ {"no"}, First(b, E, way)
  PROVE  /\ how' \in [Bridge -> [Envelope -> Ways]]
         /\ \A q \in Bridge, x \in Envelope :
              /\ how[q][x] # "no" => how'[q][x] = how[q][x]
              /\ how'[q][x] # how[q][x] => q = b /\ x \in E /\ how'[q][x] = way
         /\ \A x \in Envelope : x \in E => how'[b][x] # "no"
<1> DEFINE row == [e \in Envelope |->
                    IF e \in E /\ how[b][e] = "no" THEN way ELSE how[b][e]]
<1>1. how \in [Bridge -> [Envelope -> Ways]]
  BY DEF Typed
<1>2. how' = [how EXCEPT ![b] = row]
  BY DEF First
<1>3. row \in [Envelope -> Ways]
  BY <1>1
<1>4. \A x \in Envelope :
        /\ row[x] = IF x \in E /\ how[b][x] = "no" THEN way ELSE how[b][x]
  OBVIOUS
<1> HIDE DEF row
<1>5. /\ how' \in [Bridge -> [Envelope -> Ways]] /\ how'[b] = row
      /\ \A q \in Bridge : q # b => how'[q] = how[q]
  BY <1>1, <1>2, <1>3
<1>6. way # "no"
  OBVIOUS
<1> QED
  BY <1>4, <1>5, <1>6

\* What a bridge has it keeps.
LEMMA HasStays ==
  ASSUME NEW b, \A x \in Envelope : how[b][x] # "no" => how'[b][x] = how[b][x],
         NEW e, Has(b, e)
  PROVE  Has(b, e)'
BY EnvelopeAssumption DEF Has

\* Handling an envelope that b receives from source, or that a client gives it.
LEMMA ReceiveServes ==
  ASSUME ServeInv, NEW b \in Bridge, NEW source \in Bridge, NEW e \in Envelope, NEW queues,
         queues \in [Peering -> Seq(Message)],
         \A l \in Peering : Range(queues[l]) \subseteq Range(net[l]),
         \A l \in Peering, x \in Envelope : Data(x) \in Range(net[l]) =>
           Data(x) \in Range(queues[l]) \/ (l = <<source, b>> /\ x = e),
         e \in Sound /\ source # b => how[source][e] # "no",
         left' \in Plan, left'.steady => left.steady,
         Receive(b, source, e, queues)
  PROVE  ServeInv'
<1> DEFINE taken == Accepts(cache[b], e)
<1>1. /\ cache' = [cache EXCEPT ![b] = Stored(cache[b], e)]
      /\ First(b, IF taken THEN {e} ELSE {}, "pushed")
      /\ net' = IF taken THEN Forward(queues, b, source, e) ELSE queues
      /\ UNCHANGED <<clock, interests, declared>>
  BY DEF Receive
<1>2. /\ Typed /\ cache \in [Bridge -> Cache] /\ cache[b] \in Cache
  BY DEF ServeInv, Typed
<1>3. /\ Stored(cache[b], e) \in Cache
      /\ Range(Stored(cache[b], e).seen) \subseteq Range(cache[b].seen) \cup {HashOf[e]}
      /\ ~taken => Stored(cache[b], e) = cache[b]
  BY <1>2, StoredKeeps
<1>4. /\ how' \in [Bridge -> [Envelope -> Ways]]
      /\ \A q \in Bridge, x \in Envelope :
           /\ how[q][x] # "no" => how'[q][x] = how[q][x]
           /\ how'[q][x] # how[q][x] => q = b /\ x = e /\ taken /\ how'[q][x] = "pushed"
      /\ taken => how'[b][e] # "no"
  <2>1. "pushed" \in Ways \ {"no"}
    BY DEF Ways
  <2> DEFINE E == IF taken THEN {e} ELSE {}
  <2>2. \A x : x \in E <=> taken /\ x = e
    OBVIOUS
  <2> HIDE DEF E, taken
  <2>3. First(b, E, "pushed")
    BY <1>1 DEF E
  <2> QED
    BY <1>2, <2>1, <2>2, <2>3, FirstNotes
<1>5. taken => /\ e \in Sound /\ Ttl[e] <= MaxTtl /\ Stamp[e] <= clock + MaxFuture
               /\ HashOf[e] \notin Range(cache[b].seen)
  BY DEF Accepts, Timely
<1>6. /\ net' \in [Peering -> Seq(Message)]
      /\ \A l \in Peering :
           /\ Range(queues[l]) \subseteq Range(net'[l])
           /\ \A m \in Range(net'[l]) :
                m \in Range(queues[l]) \/ (taken /\ m = Data(e) /\ l[1] = b)
           /\ taken /\ l[1] = b /\ l[2] # source /\ TopicOf[e] \in interests[l]
                => Data(e) \in Range(net'[l])
  <2>1. Data(e) \in Message
    BY DEF Data, Message
  <2>2. CASE ~taken
    BY <1>1, <2>2
  <2>3. CASE taken
    <3>1. net' = [l \in Peering |->
                    IF l[1] = b /\ l[2] # source /\ Matches(b, l[2], TopicOf[e])
                    THEN Append(queues[l], Data(e)) ELSE queues[l]]
      BY <1>1, <2>3 DEF Forward
    <3>2. ASSUME NEW l \in Peering
          PROVE  /\ Append(queues[l], Data(e)) \in Seq(Message)
                 /\ Range(Append(queues[l], Data(e))) = Range(queues[l]) \cup {Data(e)}
      BY <2>1, RangeAppend
    <3>3. \A l \in Peering : l[1] = b => <<b, l[2]>> = l
      BY Links
    <3>4. \A l \in Peering : l[1] = b /\ TopicOf[e] \in interests[l] => Matches(b, l[2], TopicOf[e])
      BY <3>3 DEF Matches
    <3> DEFINE sent(l) == l[1] = b /\ l[2] # source /\ Matches(b, l[2], TopicOf[e])
               queue(l) == IF sent(l) THEN Append(queues[l], Data(e)) ELSE queues[l]
    <3>5. \A l \in Peering : net'[l] = queue(l) /\ queue(l) \in Seq(Message)
      BY <3>1, <3>2
    <3>6. net' \in [Peering -> Seq(Message)]
      BY <3>1, <3>2
    <3>7. ASSUME NEW l \in Peering
          PROVE  /\ Range(queues[l]) \subseteq Range(net'[l])
                 /\ \A m \in Range(net'[l]) :
                      m \in Range(queues[l]) \/ (taken /\ m = Data(e) /\ l[1] = b)
                 /\ taken /\ l[1] = b /\ l[2] # source /\ TopicOf[e] \in interests[l]
                      => Data(e) \in Range(net'[l])
      <4>1. CASE sent(l)
        <5>1. Range(net'[l]) = Range(queues[l]) \cup {Data(e)} /\ l[1] = b
          BY <3>2, <3>5, <4>1
        <5> QED
          BY <2>3, <5>1
      <4>2. CASE ~sent(l)
        <5>1. net'[l] = queues[l]
          BY <3>5, <4>2
        <5> QED
          BY <3>4, <4>2, <5>1
      <4> QED
        BY <4>1, <4>2
    <3> QED
      BY <3>6, <3>7
  <2> QED
    BY <2>2, <2>3
<1> HIDE DEF taken
<1>7. Typed'
  <2>1. cache' \in [Bridge -> Cache]
    BY <1>1, <1>2, <1>3
  <2> QED
    BY <1>1, <1>2, <1>4, <1>6, <2>1 DEF Typed
<1>8. RememberedHad'
  <2> SUFFICES ASSUME NEW q \in Bridge, NEW h \in Range(cache'[q].seen)
               PROVE  \E s \in Sound : HashOf[s] = h /\ how'[q][s] # "no"
    BY DEF RememberedHad
  <2>1. CASE h \in Range(cache[q].seen)
    <3>1. PICK s \in Sound : HashOf[s] = h /\ how[q][s] # "no"
      BY <2>1 DEF ServeInv, RememberedHad
    <3> QED
      BY <1>4, <3>1, EnvelopeAssumption
  <2>2. CASE h \notin Range(cache[q].seen)
    <3>1. q = b /\ taken /\ h = HashOf[e]
      BY <1>1, <1>2, <1>3, <2>2
    <3> QED
      BY <1>4, <1>5, <3>1
  <2> QED
    BY <2>1, <2>2
<1>9. AcceptedTimely'
  BY <1>1, <1>4, <1>5 DEF ServeInv, AcceptedTimely
<1>10. HonestNet'
  <2> SUFFICES ASSUME NEW l \in Peering, NEW m \in Range(net'[l]) PROVE Honest(m, l)'
    BY DEF HonestNet
  <2>0. l[1] \in Bridge
    BY PeeringAssumption
  <2>1. CASE m \in Range(queues[l])
    <3>1. Honest(m, l)
      BY <2>1 DEF ServeInv, HonestNet
    <3> QED
      BY <1>4, <2>0, <3>1, EnvelopeAssumption DEF Honest
  <2>2. CASE taken /\ m = Data(e) /\ l[1] = b
    BY <1>4, <1>5, <2>2 DEF Honest, Data
  <2> QED
    BY <1>6, <2>1, <2>2
<1>11. ReachesInterested'
  <2> SUFFICES ASSUME NEW l \in Peering, NEW x \in Sound,
                      how'[l[1]][x] = "pushed", TopicOf[x] \in interests'[l],
                      left'.steady, Stamp[x] + Ttl[x] >= clock'
               PROVE  Has(l[2], x)' \/ Data(x) \in Range(net'[l])
    BY DEF ReachesInterested
  <2>1. l[1] \in Bridge /\ l[2] \in Bridge /\ x \in Envelope /\ l[1] # l[2]
    BY PeeringAssumption, EnvelopeAssumption
  <2>2. CASE how[l[1]][x] = "pushed"
    <3>1. Has(l[2], x) \/ Data(x) \in Range(net[l])
      BY <1>1, <2>2 DEF ServeInv, ReachesInterested
    <3>2. CASE Has(l[2], x)
      BY <1>4, <2>1, <3>2, HasStays
    <3>3. CASE Data(x) \in Range(queues[l])
      BY <1>6, <3>3
    <3>4. CASE l = <<source, b>> /\ x = e
      <4>1. CASE taken
        BY <1>4, <1>5, <3>4, <4>1 DEF Has
      <4>2. CASE ~taken
        <5>1. Ttl[e] <= MaxTtl /\ Stamp[e] <= clock + MaxFuture
          BY <2>1, <2>2, <3>4 DEF ServeInv, AcceptedTimely
        <5>2. Timely(e)
          BY <1>1, <3>4, <5>1 DEF Timely
        <5>3. HashOf[e] \in Range(cache[b].seen)
          BY <3>4, <4>2, <5>2 DEF taken, Accepts
        <5>4. Has(b, e)
          BY <5>3 DEF ServeInv, RememberedHad, Has
        <5> QED
          BY <1>4, <3>4, <5>4, HasStays
      <4> QED
        BY <4>1, <4>2
    <3> QED
      BY <2>1, <3>1, <3>2, <3>3, <3>4
  <2>3. CASE how[l[1]][x] # "pushed"
    <3>1. l[1] = b /\ x = e /\ taken
      BY <1>4, <2>1, <2>3
    <3>2. CASE l[2] = source
      <4>1. how[source][e] # "no"
        BY <1>5, <2>1, <3>1, <3>2
      <4> QED
        BY <1>4, <2>1, <3>1, <3>2, <4>1 DEF Has
    <3>3. CASE l[2] # source
      BY <1>1, <1>6, <3>1, <3>3
    <3> QED
      BY <3>2, <3>3
  <2> QED
    BY <2>2, <2>3
<1> QED
  BY <1>7, <1>8, <1>9, <1>10, <1>11 DEF ServeInv

\* Taking the first message off a queue leaves the others.
LEMMA Removing ==
  ASSUME Typed, NEW l \in Peering, net[l] # <<>>
  PROVE  /\ Consumed(l[1], l[2]) \in [Peering -> Seq(Message)]
         /\ Head(net[l]) \in Message /\ Head(net[l]) \in Range(net[l])
         /\ \A k \in Peering : Range(Consumed(l[1], l[2])[k]) \subseteq Range(net[k])
         /\ \A k \in Peering : k # l => Consumed(l[1], l[2])[k] = net[k]
         /\ \A m \in Range(net[l]) : m = Head(net[l]) \/ m \in Range(Consumed(l[1], l[2])[l])
<1> DEFINE q == net[l]
           rest == Consumed(l[1], l[2])
<1>1. net \in [Peering -> Seq(Message)] /\ q \in Seq(Message) /\ q # <<>>
  BY DEF Typed
<1>2. rest = [net EXCEPT ![l] = Tail(q)]
  BY Links DEF Consumed
<1> HIDE DEF q, rest
<1>3. /\ Tail(q) \in Seq(Message) /\ Head(q) \in Message /\ Head(q) = q[1] /\ Len(q) \in Nat \ {0}
      /\ Len(Tail(q)) = Len(q) - 1 /\ \A i \in 1 .. Len(q) - 1 : Tail(q)[i] = q[i + 1]
      /\ DOMAIN q = 1 .. Len(q) /\ DOMAIN Tail(q) = 1 .. Len(q) - 1
  BY <1>1
<1>4. Head(q) \in Range(q)
  BY <1>3 DEF Range
<1>5. Range(Tail(q)) \subseteq Range(q)
  <2> SUFFICES ASSUME NEW m \in Range(Tail(q)) PROVE m \in Range(q)
    OBVIOUS
  <2>1. PICK i \in 1 .. Len(q) - 1 : m = Tail(q)[i]
    BY <1>3 DEF Range
  <2>2. i + 1 \in 1 .. Len(q) /\ m = q[i + 1]
    BY <1>3, <2>1
  <2> QED
    BY <1>3, <2>2 DEF Range
<1>6. ASSUME NEW m \in Range(q) PROVE m = Head(q) \/ m \in Range(Tail(q))
  <2>1. PICK i \in 1 .. Len(q) : m = q[i]
    BY <1>3 DEF Range
  <2>2. CASE i = 1
    BY <1>3, <2>1, <2>2
  <2>3. CASE i # 1
    <3>1. i - 1 \in 1 .. Len(q) - 1 /\ (i - 1) + 1 = i
      BY <1>3, <2>3
    <3>2. m = Tail(q)[i - 1]
      BY <1>3, <2>1, <3>1
    <3> QED
      BY <1>3, <3>1, <3>2 DEF Range
  <2> QED
    BY <2>2, <2>3
<1>7. rest \in [Peering -> Seq(Message)] /\ rest[l] = Tail(q)
      /\ \A k \in Peering : k # l => rest[k] = net[k]
  BY <1>1, <1>2, <1>3
<1>8. \A k \in Peering : Range(rest[k]) \subseteq Range(net[k])
  BY <1>5, <1>7 DEF q
<1> QED
  BY <1>3, <1>4, <1>6, <1>7, <1>8 DEF q, rest

\* A step that accepts nothing new, forgets hashes at most, loses no envelope under way
\* unless the mesh is not steady, and puts no envelope under way.
LEMMA QuietServes ==
  ASSUME ServeInv, Typed', UNCHANGED how, clock' >= clock,
         \A b \in Bridge : Range(cache'[b].seen) \subseteq Range(cache[b].seen),
         left'.steady => left.steady /\ UNCHANGED interests,
         \A l \in Peering : \A m \in Range(net'[l]) :
           m \in Range(net[l]) \/ (m.type # "data" /\ (left'.steady => m.type # "topics")),
         left'.steady => \A l \in Peering : \A m \in Range(net[l]) :
           m.type = "data" => m \in Range(net'[l])
  PROVE  ServeInv'
<1>1. Typed /\ RememberedHad /\ AcceptedTimely /\ HonestNet /\ ReachesInterested
  BY DEF ServeInv
<1>2. clock \in Int /\ clock' \in Int /\ MaxFuture \in Int
      /\ \A e \in Envelope : Stamp[e] \in Int /\ Ttl[e] \in Int
  BY <1>1, EnvelopeAssumption, BoundAssumption DEF Typed
<1>3. RememberedHad'
  BY <1>1 DEF RememberedHad
<1>4. AcceptedTimely'
  BY <1>1, <1>2 DEF AcceptedTimely
<1>5. HonestNet'
  BY <1>1 DEF HonestNet, Honest
<1>6. ReachesInterested'
  <2> SUFFICES ASSUME NEW l \in Peering, NEW x \in Sound,
                      how'[l[1]][x] = "pushed", TopicOf[x] \in interests'[l],
                      left'.steady, Stamp[x] + Ttl[x] >= clock'
               PROVE  Has(l[2], x)' \/ Data(x) \in Range(net'[l])
    BY DEF ReachesInterested
  <2>1. x \in Envelope
    BY EnvelopeAssumption
  <2>2. Stamp[x] + Ttl[x] >= clock
    BY <1>2, <2>1
  <2>3. Has(l[2], x) \/ Data(x) \in Range(net[l])
    BY <1>1, <2>2 DEF ReachesInterested
  <2>4. Data(x).type = "data"
    BY DEF Data
  <2> QED
    BY <2>3, <2>4 DEF Has
<1> QED
  BY <1>3, <1>4, <1>5, <1>6 DEF ServeInv

\* A message is appended to a queue.
LEMMA Queueing ==
  ASSUME NEW queues \in [Peering -> Seq(Message)], NEW k \in Peering, NEW m \in Message,
         net' = [queues EXCEPT ![k] = Append(queues[k], m)]
  PROVE  /\ net' \in [Peering -> Seq(Message)]
         /\ \A l \in Peering : Range(queues[l]) \subseteq Range(net'[l])
         /\ \A l \in Peering : \A x \in Range(net'[l]) : x \in Range(queues[l]) \/ x = m
<1>1. Append(queues[k], m) \in Seq(Message)
      /\ Range(Append(queues[k], m)) = Range(queues[k]) \cup {m}
  BY RangeAppend
<1>2. net' \in [Peering -> Seq(Message)] /\ net'[k] = Append(queues[k], m)
      /\ \A l \in Peering : l # k => net'[l] = queues[l]
  BY <1>1
<1> QED
  BY <1>1, <1>2

\* Reading a ring drops what has expired from it.
LEMMA PrunedKeeps ==
  ASSUME NEW c \in Cache, NEW t \in Topic
  PROVE  /\ [c EXCEPT !.rings[t] = Live(c.rings[t])] \in Cache
         /\ [c EXCEPT !.rings[t] = Live(c.rings[t])].seen = c.seen
         /\ Live(c.rings[t]) \in Seq(Envelope)
<1> DEFINE ring == Live(c.rings[t])
           rings == [c.rings EXCEPT ![t] = ring]
<1>1. /\ c \in [seen : Seq(Hashes), rings : [Topic -> Seq(Sound)]]
      /\ c.seen \in Seq(Hashes) /\ Len(c.seen) <= MaxSeen
      /\ c.rings \in [Topic -> Seq(Sound)]
      /\ \A u \in Topic : c.rings[u] \in Seq(OfTopic(u)) /\ Len(c.rings[u]) <= MaxPerTopic
  BY DEF Cache
<1>2. ring \in Seq(OfTopic(t)) /\ Len(ring) <= Len(c.rings[t])
  BY <1>1, AmongKeeps DEF Live
<1>3. OfTopic(t) \subseteq Sound /\ Sound \subseteq Envelope /\ MaxPerTopic \in Nat
  BY EnvelopeAssumption, BoundAssumption DEF OfTopic
<1> HIDE DEF ring
<1>4. ring \in Seq(Sound) /\ ring \in Seq(Envelope) /\ Len(ring) <= MaxPerTopic
  <2>1. Len(ring) \in Nat /\ Len(c.rings[t]) \in Nat
    BY <1>1, <1>2
  <2> QED
    BY <1>1, <1>2, <1>3, <2>1
<1>5. /\ rings \in [Topic -> Seq(Sound)]
      /\ \A u \in Topic : rings[u] \in Seq(OfTopic(u)) /\ Len(rings[u]) <= MaxPerTopic
  BY <1>1, <1>2, <1>4
<1>6. [c EXCEPT !.rings[t] = ring] = [seen |-> c.seen, rings |-> rings]
  <2>1. c \in [seen : Seq(Hashes), rings : [Topic -> Seq(Sound)]]
    BY <1>1
  <2>2. [c EXCEPT !.rings[t] = ring] = [c EXCEPT !.rings = rings]
    BY Zenon DEF rings
  <2> HIDE DEF rings
  <2> QED
    BY <2>1, <2>2
<1> HIDE DEF rings
<1>7. [seen |-> c.seen, rings |-> rings] \in Cache
  BY <1>1, <1>5 DEF Cache
<1> QED
  BY <1>4, <1>6, <1>7 DEF ring

\* A page holds envelopes.
LEMMA PageKeeps ==
  ASSUME NEW s \in Seq(Envelope), NEW since PROVE Page(s, since) \in Seq(Envelope)
<1> DEFINE newer == Among(s, {e \in Envelope : Stamp[e] > since})
<1>1. newer \in Seq(Envelope)
  BY AmongKeeps
<1> HIDE DEF newer
<1>2. (IF Len(newer) < Limit THEN Len(newer) ELSE Limit) \in 0 .. Len(newer)
  BY <1>1, BoundAssumption
<1>3. \A n \in 0 .. Len(newer) : SubSeq(newer, 1, n) \in Seq(Envelope)
  BY <1>1
<1> QED
  BY <1>2, <1>3 DEF Page, newer

\* What the plan allows is spent, and the mesh is not steady if interests or links change.
LEMMA Spending ==
  ASSUME Typed
  PROVE  /\ Spend("injects") \/ Spend("damaged") \/ Spend("requests")
              => left' \in Plan /\ (left'.steady => left.steady)
         /\ Spend("declares") \/ Spend("drops") => left' \in Plan /\ ~left'.steady
<1>1. left \in Plan
  BY DEF Typed
<1>2. ASSUME NEW what \in {"injects", "damaged", "declares", "requests", "drops"}, Spend(what)
      PROVE  left' \in Plan /\ left'.steady = (left.steady /\ what \notin {"declares", "drops"})
  <2> DEFINE n == left[what]
             steady == left.steady /\ what \notin {"declares", "drops"}
  <2>1. n \in Nat /\ n > 0
    BY <1>1, <1>2 DEF Plan, Spend
  <2>2. left' = [[left EXCEPT ![what] = n - 1] EXCEPT !.steady = steady]
    <3>1. [left EXCEPT ![what] = n - 1].steady = left.steady
      BY <1>1 DEF Plan
    <3> QED
      BY <1>2, <3>1 DEF Spend
  <2>3. [left EXCEPT ![what] = n - 1] \in Plan
    BY <1>1, <2>1 DEF Plan
  <2> HIDE DEF n
  <2> DEFINE p == [left EXCEPT ![what] = n - 1]
  <2>4. p \in Plan /\ left' = [p EXCEPT !.steady = steady] /\ steady \in BOOLEAN
    BY <2>2, <2>3
  <2> HIDE DEF p, steady
  <2>5. left' \in Plan /\ left'.steady = steady
    BY <2>4 DEF Plan
  <2> QED
    BY <2>5 DEF steady
<1> QED
  BY <1>2

\* A message is handled.
LEMMA ServeHandle ==
  ASSUME ServeInv, NEW l \in Peering,
         OnData(l[1], l[2]) \/ OnTopics(l[1], l[2]) \/ OnDataRequest(l[1], l[2])
         \/ OnDataResponse(l[1], l[2])
  PROVE  ServeInv'
<1> DEFINE a == l[1]
           b == l[2]
           m == Head(net[l])
           rest == Consumed(a, b)
<1>1. <<a, b>> = l /\ <<b, a>> \in Peering /\ a \in Bridge /\ b \in Bridge /\ a # b
  BY Links, PeeringAssumption
<1>2. Typed
  BY DEF ServeInv
<1>3. net[l] # <<>>
  BY <1>1 DEF OnData, OnTopics, OnDataRequest, OnDataResponse, Arrives
<1>4. /\ rest \in [Peering -> Seq(Message)] /\ m \in Message /\ m \in Range(net[l])
      /\ \A k \in Peering : Range(rest[k]) \subseteq Range(net[k])
      /\ \A k \in Peering : k # l => rest[k] = net[k]
      /\ \A x \in Range(net[l]) : x = m \/ x \in Range(rest[l])
  BY <1>2, <1>3, Removing
<1>5. Honest(m, l)
  BY <1>4 DEF ServeInv, HonestNet
<1>6. /\ clock \in 1 .. MaxClock /\ cache \in [Bridge -> Cache] /\ cache[b] \in Cache
      /\ interests \in [Peering -> SUBSET Topic] /\ left \in Plan
  BY <1>1, <1>2 DEF Typed
<1>7. clock <= clock
  BY <1>6
<1> HIDE DEF a, b, rest, m
<1>8. CASE OnData(a, b)
  <2> DEFINE e == m.env
  <2>1. Receive(b, a, e, rest) /\ UNCHANGED left /\ m.type = "data"
    BY <1>1, <1>8 DEF OnData, Arrives, m, rest
  <2>2. e \in Envelope /\ m = Data(e)
    BY <1>4, <2>1, Fields
  <2>3. how[a][e] # "no"
    BY <1>5, <2>1 DEF Honest, a
  <2> HIDE DEF e
  <2>4. \A x \in Envelope : Data(x) = m => x = e
    BY <2>2 DEF Data
  <2>5. \A k \in Peering, x \in Envelope : Data(x) \in Range(net[k]) =>
          Data(x) \in Range(rest[k]) \/ (k = <<a, b>> /\ x = e)
    <3> SUFFICES ASSUME NEW k \in Peering, NEW x \in Envelope, Data(x) \in Range(net[k])
                 PROVE  Data(x) \in Range(rest[k]) \/ (k = <<a, b>> /\ x = e)
      OBVIOUS
    <3>1. CASE k # l
      BY <1>4, <3>1
    <3>2. CASE k = l
      BY <1>1, <1>4, <2>4, <3>2
    <3> QED
      BY <3>1, <3>2
  <2>6. left' \in Plan /\ (left'.steady => left.steady)
    BY <1>6, <2>1
  <2> QED
    BY <1>1, <1>4, <2>1, <2>2, <2>3, <2>5, <2>6, ReceiveServes
<1>9. CASE OnTopics(a, b)
  <2>1. /\ m.type = "topics" /\ interests' = [interests EXCEPT ![<<b, a>>] = m.interests]
        /\ net' = rest /\ UNCHANGED <<clock, cache, declared, how, left>>
    BY <1>1, <1>9 DEF OnTopics, Arrives, m, rest
  <2>2. m.interests \in SUBSET Topic
    BY <1>4, <2>1, Fields
  <2>3. ~left.steady
    BY <1>5, <2>1 DEF Honest
  <2>4. interests' \in [Peering -> SUBSET Topic]
    BY <1>6, <2>1, <2>2
  <2>5. Typed'
    BY <1>2, <1>4, <2>1, <2>4 DEF Typed
  <2> QED
    BY <1>4, <1>7, <2>1, <2>3, <2>5, QuietServes
<1>10. CASE OnDataRequest(a, b)
  <2> DEFINE live == Live(cache[b].rings[m.topic])
             r == [type |-> "data_response", envelopes |-> Page(live, m.since)]
             c == [cache[b] EXCEPT !.rings[m.topic] = live]
  <2>1. /\ m.type = "data_request"
        /\ cache' = [cache EXCEPT ![b] = c]
        /\ net' = [rest EXCEPT ![<<b, a>>] = Append(rest[<<b, a>>], r)]
        /\ UNCHANGED <<clock, interests, declared, how, left>>
    BY <1>1, <1>10 DEF OnDataRequest, Arrives, m, rest
  <2>2. m.topic \in Topic
    BY <1>4, <2>1, Fields
  <2>3. c \in Cache /\ c.seen = cache[b].seen /\ live \in Seq(Envelope)
    BY <1>6, <2>2, PrunedKeeps
  <2>4. Page(live, m.since) \in Seq(Envelope)
    BY <2>3, PageKeeps
  <2>5. r \in Message /\ r.type # "data" /\ r.type # "topics"
    BY <2>4 DEF Message
  <2> HIDE DEF r, c, live
  <2>6. /\ net' \in [Peering -> Seq(Message)]
        /\ \A k \in Peering : Range(rest[k]) \subseteq Range(net'[k])
        /\ \A k \in Peering : \A x \in Range(net'[k]) : x \in Range(rest[k]) \/ x = r
    BY <1>1, <1>4, <2>1, <2>5, Queueing
  <2>7. /\ cache' \in [Bridge -> Cache]
        /\ \A q \in Bridge : Range(cache'[q].seen) \subseteq Range(cache[q].seen)
    BY <1>6, <2>1, <2>3
  <2>8. Typed'
    BY <1>2, <2>1, <2>6, <2>7 DEF Typed
  <2>9. \A k \in Peering : \A x \in Range(net[k]) : x.type = "data" => x \in Range(net'[k])
    BY <1>4, <2>1, <2>6
  <2>10. \A k \in Peering : \A x \in Range(net'[k]) :
           x \in Range(net[k]) \/ (x.type # "data" /\ x.type # "topics")
    BY <1>4, <2>5, <2>6
  <2> QED
    BY <1>7, <2>1, <2>7, <2>8, <2>9, <2>10, QuietServes
<1>11. CASE OnDataResponse(a, b)
  <2> DEFINE s == m.envelopes
             E == {e \in Range(s) : Accepts(cache[b], e)}
  <2>1. /\ m.type = "data_response"
        /\ cache' = [cache EXCEPT ![b] = Taken(cache[b], s)]
        /\ First(b, E, "caught")
        /\ net' = rest /\ UNCHANGED <<clock, interests, declared, left>>
    BY <1>1, <1>11 DEF OnDataResponse, Arrives, m, rest
  <2>2. s \in Seq(Envelope) /\ \A e \in Range(s) : e \in Envelope
    <3>1. s \in Seq(Envelope)
      BY <1>4, <2>1, Fields
    <3> QED
      BY <3>1 DEF Range
  <2>3. /\ Taken(cache[b], s) \in Cache
        /\ \A h \in Range(Taken(cache[b], s).seen) :
             h \in Range(cache[b].seen) \/ \E e \in E : HashOf[e] = h
    <3> HIDE DEF s, E
    <3>1. /\ Taken(cache[b], s) \in Cache
          /\ \A h \in Range(Taken(cache[b], s).seen) :
               \/ h \in Range(cache[b].seen)
               \/ \E e \in Range(s) : Accepts(cache[b], e) /\ HashOf[e] = h
      BY <1>6, <2>2, TakenKeeps
    <3>2. \A e \in Range(s) : Accepts(cache[b], e) => e \in E
      BY DEF E
    <3> QED
      BY <3>1, <3>2
  <2>4. \A e \in E : /\ e \in Envelope /\ e \in Sound /\ Ttl[e] <= MaxTtl
                     /\ Stamp[e] <= clock + MaxFuture
    BY <2>2 DEF Accepts, Timely
  <2> HIDE DEF E, s
  <2>5. /\ how' \in [Bridge -> [Envelope -> Ways]]
        /\ \A q \in Bridge, x \in Envelope :
             /\ how[q][x] # "no" => how'[q][x] = how[q][x]
             /\ how'[q][x] # how[q][x] => q = b /\ x \in E /\ how'[q][x] = "caught"
        /\ \A x \in Envelope : x \in E => how'[b][x] # "no"
    <3>1. "caught" \in Ways \ {"no"}
      BY DEF Ways
    <3> QED
      BY <1>1, <1>2, <2>1, <3>1, FirstNotes
  <2>6. cache' \in [Bridge -> Cache]
    BY <1>1, <1>6, <2>1, <2>3
  <2>7. Typed'
    BY <1>2, <1>4, <2>1, <2>5, <2>6 DEF Typed
  <2>8. RememberedHad'
    <3> SUFFICES ASSUME NEW q \in Bridge, NEW h \in Range(cache'[q].seen)
                 PROVE  \E x \in Sound : HashOf[x] = h /\ how'[q][x] # "no"
      BY DEF RememberedHad
    <3>1. CASE h \in Range(cache[q].seen)
      <4>1. PICK x \in Sound : HashOf[x] = h /\ how[q][x] # "no"
        BY <3>1 DEF ServeInv, RememberedHad
      <4> QED
        BY <2>5, <4>1, EnvelopeAssumption
    <3>2. CASE h \notin Range(cache[q].seen)
      <4>1. q = b /\ \E e \in E : HashOf[e] = h
        BY <1>6, <2>1, <2>3, <3>2
      <4> QED
        BY <2>4, <2>5, <4>1
    <3> QED
      BY <3>1, <3>2
  <2>9. AcceptedTimely'
    BY <2>1, <2>4, <2>5 DEF ServeInv, AcceptedTimely
  <2>10. HonestNet'
    <3> SUFFICES ASSUME NEW k \in Peering, NEW x \in Range(net'[k]) PROVE Honest(x, k)'
      BY DEF HonestNet
    <3>1. Honest(x, k) /\ k[1] \in Bridge
      BY <1>4, <2>1, PeeringAssumption DEF ServeInv, HonestNet
    <3> QED
      BY <2>1, <2>5, <3>1, EnvelopeAssumption DEF Honest
  <2>11. ReachesInterested'
    <3> SUFFICES ASSUME NEW k \in Peering, NEW x \in Sound,
                        how'[k[1]][x] = "pushed", TopicOf[x] \in interests'[k],
                        left'.steady, Stamp[x] + Ttl[x] >= clock'
                 PROVE  Has(k[2], x)' \/ Data(x) \in Range(net'[k])
      BY DEF ReachesInterested
    <3>1. k[1] \in Bridge /\ k[2] \in Bridge /\ x \in Envelope
      BY PeeringAssumption, EnvelopeAssumption
    <3>2. how[k[1]][x] = "pushed"
      BY <2>5, <3>1
    <3>3. Has(k[2], x) \/ Data(x) \in Range(net[k])
      BY <2>1, <3>2 DEF ServeInv, ReachesInterested
    <3>4. Data(x) # m
      BY <2>1 DEF Data
    <3>5. Data(x) \in Range(net[k]) => Data(x) \in Range(net'[k])
      BY <1>4, <2>1, <3>4
    <3>6. Has(k[2], x) => Has(k[2], x)'
      BY <2>5, <3>1, HasStays
    <3> QED
      BY <3>3, <3>5, <3>6
  <2> QED
    BY <2>7, <2>8, <2>9, <2>10, <2>11 DEF ServeInv
<1> QED
  BY <1>8, <1>9, <1>10, <1>11 DEF a, b

\* What clients, peers, time and links do.
LEMMA ServeLocal ==
  ASSUME ServeInv,
         \/ \E b \in Bridge, e \in Sound : InjectEnvelope(b, e)
         \/ \E l \in Peering, e \in Envelope : OnDamagedData(l[1], l[2], e)
         \/ \E l \in Peering : DeclareTopics(l[1], l[2])
         \/ \E l \in Peering : RequestData(l[1], l[2])
         \/ \E b \in Bridge, t \in Topic : GetEnvelopes(b, t)
         \/ Tick
         \/ \E l \in Peering : Drop(l[1], l[2])
  PROVE  ServeInv'
<1>1. Typed
  BY DEF ServeInv
<1>2. /\ clock \in 1 .. MaxClock /\ MaxClock \in Nat /\ cache \in [Bridge -> Cache]
      /\ net \in [Peering -> Seq(Message)] /\ left \in Plan
      /\ interests \in [Peering -> SUBSET Topic] /\ declared \in [Peering -> SUBSET Topic]
  BY <1>1, BoundAssumption DEF Typed
<1>3. clock <= clock /\ clock <= clock + 1
  BY <1>2
<1>4. CASE \E b \in Bridge, e \in Sound : InjectEnvelope(b, e)
  <2>1. PICK b \in Bridge, e \in Sound : InjectEnvelope(b, e)
    BY <1>4
  <2>2. Spend("injects") /\ Receive(b, b, e, net) /\ e \in Envelope
    BY <2>1, EnvelopeAssumption DEF InjectEnvelope
  <2>3. left' \in Plan /\ (left'.steady => left.steady)
    BY <1>1, <2>2, Spending
  <2> QED
    BY <1>2, <2>2, <2>3, ReceiveServes
<1>5. CASE \E l \in Peering, e \in Envelope : OnDamagedData(l[1], l[2], e)
  <2>1. PICK l \in Peering, e \in Envelope : OnDamagedData(l[1], l[2], e)
    BY <1>5
  <2>2. Spend("damaged") /\ Receive(l[2], l[1], e, net) /\ e \notin Sound
        /\ l[1] \in Bridge /\ l[2] \in Bridge
    BY <2>1, PeeringAssumption DEF OnDamagedData
  <2>3. left' \in Plan /\ (left'.steady => left.steady)
    BY <1>1, <2>2, Spending
  <2> QED
    BY <1>2, <2>2, <2>3, ReceiveServes
<1>6. CASE \E l \in Peering : DeclareTopics(l[1], l[2])
  <2>1. PICK l \in Peering : DeclareTopics(l[1], l[2])
    BY <1>6
  <2> DEFINE back == <<l[2], l[1]>>
  <2>2. <<l[1], l[2]>> = l /\ back \in Peering
    BY Links
  <2>3. PICK S \in SUBSET Topic :
          /\ net' = [net EXCEPT ![l] = Append(net[l], [type |-> "topics", interests |-> S])]
          /\ declared' = [declared EXCEPT ![back] = declared[back] \cup S]
          /\ UNCHANGED <<clock, cache, interests, how>>
          /\ Spend("declares")
    BY <2>1, <2>2 DEF DeclareTopics
  <2> DEFINE m == [type |-> "topics", interests |-> S]
  <2>4. m \in Message /\ m.type # "data"
    BY DEF Message
  <2>5. left' \in Plan /\ ~left'.steady
    BY <1>1, <2>3, Spending
  <2> HIDE DEF m, back
  <2>6. declared' \in [Peering -> SUBSET Topic]
    BY <1>2, <2>2, <2>3
  <2>7. net' = [net EXCEPT ![l] = Append(net[l], m)]
    BY <2>3 DEF m
  <2>8. /\ net' \in [Peering -> Seq(Message)]
        /\ \A k \in Peering : \A x \in Range(net'[k]) : x \in Range(net[k]) \/ x = m
    BY <1>2, <2>4, <2>7, Queueing
  <2>9. Typed'
    BY <1>1, <2>3, <2>5, <2>6, <2>8 DEF Typed
  <2> QED
    BY <1>3, <2>3, <2>4, <2>5, <2>8, <2>9, QuietServes
<1>7. CASE \E l \in Peering : RequestData(l[1], l[2])
  <2>1. PICK l \in Peering : RequestData(l[1], l[2])
    BY <1>7
  <2>2. <<l[1], l[2]>> = l /\ l[1] \in Bridge
    BY Links, PeeringAssumption
  <2>3. PICK t \in Topic : \E since \in {0} \cup {Stamp[e] : e \in Range(cache[l[1]].rings[t])} :
          /\ net' = [net EXCEPT ![l] =
                       Append(net[l], [type |-> "data_request", topic |-> t, since |-> since])]
          /\ UNCHANGED <<clock, cache, interests, declared, how>>
          /\ Spend("requests")
    BY <2>1, <2>2 DEF RequestData
  <2>4. PICK since \in {0} \cup {Stamp[e] : e \in Range(cache[l[1]].rings[t])} :
          /\ net' = [net EXCEPT ![l] =
                       Append(net[l], [type |-> "data_request", topic |-> t, since |-> since])]
          /\ UNCHANGED <<clock, cache, interests, declared, how>>
          /\ Spend("requests")
    BY <2>3
  <2>5. since \in Nat
    <3>1. cache[l[1]].rings[t] \in Seq(Sound)
      BY <1>2, <2>2 DEF Cache
    <3>2. \A e \in Range(cache[l[1]].rings[t]) : e \in Envelope
      BY <3>1, EnvelopeAssumption DEF Range
    <3> QED
      BY <2>4, <3>2, EnvelopeAssumption
  <2> DEFINE m == [type |-> "data_request", topic |-> t, since |-> since]
  <2>6. m \in Message /\ m.type # "data" /\ m.type # "topics"
    BY <2>5 DEF Message
  <2>7. left' \in Plan /\ (left'.steady => left.steady)
    BY <1>1, <2>4, Spending
  <2> HIDE DEF m
  <2>8. net' = [net EXCEPT ![l] = Append(net[l], m)]
    BY <2>4 DEF m
  <2>9. /\ net' \in [Peering -> Seq(Message)]
        /\ \A k \in Peering : Range(net[k]) \subseteq Range(net'[k])
        /\ \A k \in Peering : \A x \in Range(net'[k]) : x \in Range(net[k]) \/ x = m
    BY <1>2, <2>6, <2>8, Queueing
  <2>10. Typed'
    BY <1>1, <2>4, <2>7, <2>9 DEF Typed
  <2>11. \A k \in Peering : \A x \in Range(net[k]) : x.type = "data" => x \in Range(net'[k])
    BY <2>9
  <2>12. \A k \in Peering : \A x \in Range(net'[k]) :
           x \in Range(net[k]) \/ (x.type # "data" /\ x.type # "topics")
    BY <2>6, <2>9
  <2> QED
    BY <1>3, <2>4, <2>7, <2>10, <2>11, <2>12, QuietServes
<1>8. CASE \E b \in Bridge, t \in Topic : GetEnvelopes(b, t)
  <2>1. PICK b \in Bridge, t \in Topic : GetEnvelopes(b, t)
    BY <1>8
  <2> DEFINE c == [cache[b] EXCEPT !.rings[t] = Live(cache[b].rings[t])]
  <2>2. cache' = [cache EXCEPT ![b] = c] /\ UNCHANGED <<clock, interests, net, declared, how, left>>
    BY <2>1 DEF GetEnvelopes
  <2>3. c \in Cache /\ c.seen = cache[b].seen
    BY <1>2, PrunedKeeps
  <2> HIDE DEF c
  <2>4. /\ cache' \in [Bridge -> Cache]
        /\ \A q \in Bridge : Range(cache'[q].seen) \subseteq Range(cache[q].seen)
    BY <1>2, <2>2, <2>3
  <2>5. Typed'
    BY <1>1, <2>2, <2>4 DEF Typed
  <2> QED
    BY <1>3, <2>2, <2>4, <2>5, QuietServes
<1>9. CASE Tick
  <2>1. clock' = clock + 1 /\ clock < MaxClock
        /\ UNCHANGED <<cache, interests, net, declared, how, left>>
    BY <1>9 DEF Tick
  <2>2. clock' \in 1 .. MaxClock
    BY <1>2, <2>1
  <2>3. Typed'
    BY <1>1, <2>1, <2>2 DEF Typed
  <2> QED
    BY <1>3, <2>1, <2>3, QuietServes
<1>10. CASE \E l \in Peering : Drop(l[1], l[2])
  <2>1. PICK l \in Peering : Drop(l[1], l[2])
    BY <1>10
  <2>2. <<l[1], l[2]>> = l /\ <<l[2], l[1]>> \in Peering
    BY Links
  <2>3. /\ net' = [net EXCEPT ![l] = <<>>, ![<<l[2], l[1]>>] = <<>>]
        /\ UNCHANGED <<clock, cache, interests, declared, how>> /\ Spend("drops")
    BY <2>1, <2>2 DEF Drop
  <2>4. left' \in Plan /\ ~left'.steady
    BY <1>1, <2>3, Spending
  <2>5. /\ net' \in [Peering -> Seq(Message)]
        /\ \A k \in Peering : net'[k] = net[k] \/ net'[k] = <<>>
    <3>1. <<>> \in Seq(Message)
      OBVIOUS
    <3> QED
      BY <1>2, <2>2, <2>3, <3>1
  <2>6. Range(<<>>) = {}
    BY DEF Range
  <2>7. \A k \in Peering : Range(net'[k]) \subseteq Range(net[k])
    BY <2>5, <2>6
  <2>8. Typed'
    BY <1>1, <2>3, <2>4, <2>5 DEF Typed
  <2> QED
    BY <1>3, <2>3, <2>4, <2>7, <2>8, QuietServes
<1> QED
  BY <1>4, <1>5, <1>6, <1>7, <1>8, <1>9, <1>10

LEMMA ServeInit == Init => ServeInv
<1> SUFFICES ASSUME Init PROVE ServeInv
  OBVIOUS
<1>1. PICK p \in Plans : left = p /\ interests = p.interests /\ declared = p.interests
  BY DEF Init
<1>2. left \in Plan /\ p.interests \in [Peering -> SUBSET Topic]
  BY <1>1, PlanAssumption DEF Plan
<1> DEFINE none == [seen |-> <<>>, rings |-> [t \in Topic |-> <<>>]]
<1>3. /\ clock = 1 /\ cache = [b \in Bridge |-> none]
      /\ net = [l \in Peering |-> <<>>]
      /\ how = [b \in Bridge |-> [e \in Envelope |-> "no"]]
  BY DEF Init
<1>4. none \in Cache /\ none.seen = <<>>
  <2>1. none \in [seen : Seq(Hashes), rings : [Topic -> Seq(Sound)]]
    OBVIOUS
  <2>2. Len(<<>>) <= MaxSeen /\ Len(<<>>) <= MaxPerTopic
    BY BoundAssumption
  <2>3. \A t \in Topic : <<>> \in Seq(OfTopic(t)) /\ none.rings[t] = <<>>
    OBVIOUS
  <2> HIDE DEF none
  <2>4. none.seen = <<>>
    BY DEF none
  <2> QED
    BY <2>1, <2>2, <2>3, <2>4 DEF Cache
<1> HIDE DEF none
<1>5. Typed
  <2>1. clock \in 1 .. MaxClock
    BY <1>3, BoundAssumption
  <2>2. how \in [Bridge -> [Envelope -> Ways]]
    BY <1>3 DEF Ways
  <2>3. net \in [Peering -> Seq(Message)]
    BY <1>3
  <2> QED
    BY <1>1, <1>2, <1>3, <1>4, <2>1, <2>2, <2>3 DEF Typed
<1>6. Range(<<>>) = {}
  BY DEF Range
<1>7. RememberedHad
  BY <1>3, <1>4, <1>6 DEF RememberedHad
<1>8. AcceptedTimely
  BY <1>3 DEF AcceptedTimely
<1>9. HonestNet
  BY <1>3, <1>6 DEF HonestNet
<1>10. ReachesInterested
  BY <1>3, PeeringAssumption, EnvelopeAssumption DEF ReachesInterested
<1> QED
  BY <1>5, <1>7, <1>8, <1>9, <1>10 DEF ServeInv

\* The invariant is inductive.
LEMMA ServeStep == ServeInv /\ [Next]_vars => ServeInv'
<1> SUFFICES ASSUME ServeInv, [Next]_vars PROVE ServeInv'
  OBVIOUS
<1>1. CASE UNCHANGED vars
  BY <1>1 DEF vars, ServeInv, Typed, RememberedHad, AcceptedTimely, HonestNet, Honest,
              ReachesInterested, Has, Data
<1> QED
  BY <1>1, ServeHandle, ServeLocal DEF Next

\* The type invariant is part of it.
LEMMA ServeTypes == ServeInv => TypeOK
<1> SUFFICES ASSUME ServeInv PROVE TypeOK
  OBVIOUS
<1>1. Typed
  BY DEF ServeInv
<1>2. ASSUME NEW b \in Bridge
      PROVE  /\ cache[b].seen \in Seq(Hashes) /\ Len(cache[b].seen) <= MaxSeen
             /\ \A t \in Topic : /\ cache[b].rings[t] \in Seq(OfTopic(t))
                                 /\ Len(cache[b].rings[t]) <= MaxPerTopic
  <2>1. cache[b] \in Cache
    BY <1>1 DEF Typed
  <2> QED
    BY <2>1 DEF Cache
<1> QED
  BY <1>1, <1>2 DEF Typed, TypeOK, Hashes, OfTopic, Ways

\* The caps of the dedup set and of the rings hold, and they never keep an envelope from
\* a peer that declared its topic (data-relay.js:102-131, 228-294).
THEOREM DataServesInterest == Spec => []CachesServeInterest
<1>1. ServeInv => CachesServeInterest
  BY ServeTypes DEF ServeInv, CachesServeInterest
<1> QED
  BY ServeInit, ServeStep, <1>1, PTL DEF Spec
==============================================================================
