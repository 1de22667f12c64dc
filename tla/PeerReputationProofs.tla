-------------------------- MODULE PeerReputationProofs --------------------------
(***************************************************************************)
(* Proofs about PeerReputation: for every window, stake and order of       *)
(* events no connection survives the update that takes its score below     *)
(* the threshold, and nobody is cut or blacklisted for nothing.            *)
(***************************************************************************)
EXTENDS PeerReputation, FiniteSetTheorems, TLAPS

\* The inductive invariant: the score that counts is the one of the metrics as they are.
ScoreInv ==
  /\ metrics = [p \in Peer |-> metrics[p]]
  /\ connected \subseteq Peer
  /\ NoLowScoreConnected

\* A change to the metrics of one peer in one or more steps: the last of them decides who
\* remains, whether p was connected, is connected by this event, or is gone already.
LEMMA ScoredKeeps ==
  ASSUME ScoreInv, NEW p \in Peer, NEW n \in Nat \ {0}, NEW steps,
         steps = [i \in 1 .. n |-> steps[i]],
         NEW conns, conns \subseteq connected \cup {p}, Scored(p, steps, conns)
  PROVE  ScoreInv'
<1>1. /\ metrics' = [metrics EXCEPT ![p] = Last(steps)]
      /\ connected' = IF Acts(p, steps) THEN conns \ {p} ELSE conns
  BY DEF Scored
<1>2. Last(steps) = steps[n] /\ steps[n] \in Range(steps)
  <2>1. Len(steps) = n /\ DOMAIN steps = 1 .. n /\ n \in 1 .. n
    OBVIOUS
  <2> QED
    BY <2>1 DEF Last, Range
<1>3. metrics' = [q \in Peer |-> IF q = p THEN steps[n] ELSE metrics[q]]
  BY <1>1, <1>2 DEF ScoreInv
<1>4. p \in connected' => ~(Score(steps[n]) < DisconnectThreshold)
  BY <1>1, <1>2 DEF Acts
<1>5. connected' \subseteq Peer /\ \A q \in connected' : q = p \/ q \in connected
  BY <1>1 DEF ScoreInv
<1>6. \A q \in connected' : ~(Score(metrics'[q]) < DisconnectThreshold)
  BY <1>3, <1>4, <1>5 DEF ScoreInv, NoLowScoreConnected
<1>7. NoLowScoreConnected'
  BY <1>6 DEF NoLowScoreConnected
<1> QED
  BY <1>3, <1>5, <1>7 DEF ScoreInv

\* A change in one step.
LEMMA ScoredOnce ==
  ASSUME ScoreInv, NEW p \in Peer, NEW m, NEW conns, conns \subseteq connected \cup {p},
         Scored(p, <<m>>, conns)
  PROVE  ScoreInv'
<1> DEFINE steps == <<m>>
<1>1. 1 \in Nat \ {0} /\ steps = [i \in 1 .. 1 |-> steps[i]] /\ Scored(p, steps, conns)
  OBVIOUS
<1> HIDE DEF steps
<1> QED
  BY <1>1, ScoredKeeps

\* Who loses a connection, and nothing else, changes no score.
LEMMA OthersKeep ==
  ASSUME ScoreInv, UNCHANGED metrics, connected' \subseteq connected
  PROVE  ScoreInv'
BY DEF ScoreInv, NoLowScoreConnected

\* A batch has a header.
LEMMA BatchSize ==
  ASSUME NEW good \in BOOLEAN, NEW n \in IF good THEN {1, HeadersBatch} ELSE {1}
  PROVE  n \in Nat \ {0}
<1>1. HeadersBatch \in {UptimeWindow, LatencyWindow, AccuracyWindow, HeadersBatch}
  OBVIOUS
<1>2. HeadersBatch \in Nat \ {0}
  BY <1>1, WindowAssumption
<1>3. n = 1 \/ n = HeadersBatch
  OBVIOUS
<1>4. 1 \in Nat \ {0}
  OBVIOUS
<1> QED
  BY <1>2, <1>3, <1>4

\* A batch of n judgements is n steps.
LEMMA DataStep ==
  ASSUME ScoreInv, NEW p \in Peer, NEW good \in BOOLEAN, OnData(p, good)
  PROVE  ScoreInv'
<1>1. PICK n \in IF good THEN {1, HeadersBatch} ELSE {1} :
        Scored(p, [i \in 1 .. n |-> Judged(metrics[p], good, i)], connected)
  BY DEF OnData
<1>2. n \in Nat \ {0}
  BY BatchSize
<1> DEFINE steps == [i \in 1 .. n |-> Judged(metrics[p], good, i)]
<1>3. steps = [i \in 1 .. n |-> steps[i]] /\ Scored(p, steps, connected)
  BY <1>1
<1> HIDE DEF steps
<1> QED
  BY <1>2, <1>3, ScoredKeeps

\* The invariant is inductive.
LEMMA ScoreStep == ScoreInv /\ [Next]_vars => ScoreInv'
<1> SUFFICES ASSUME ScoreInv, [Next]_vars PROVE ScoreInv'
  OBVIOUS
<1>1. ASSUME NEW p \in Peer, Connect(p) PROVE ScoreInv'
  BY <1>1, ScoredOnce DEF Connect
<1>2. ASSUME NEW p \in Peer, Disconnect(p) \/ Duplicate(p) \/ OnClose(p) PROVE ScoreInv'
  BY <1>2, OthersKeep DEF Disconnect, Duplicate, OnClose
<1>3. ASSUME NEW p \in Peer, OnPong(p) PROVE ScoreInv'
  BY <1>3, ScoredOnce, OthersKeep DEF OnPong
<1>4. ASSUME NEW p \in Peer, PingTimer(p) PROVE ScoreInv'
  BY <1>4, ScoredOnce, OthersKeep DEF PingTimer
<1>5. ASSUME NEW p \in Peer, Registered(p) PROVE ScoreInv'
  BY <1>5, ScoredOnce DEF Registered
<1>6. CASE HealthCheck \/ Tick \/ UNCHANGED vars
  BY <1>6, OthersKeep DEF HealthCheck, Tick, vars
<1> QED
  BY <1>1, <1>2, <1>3, <1>4, <1>5, <1>6, DataStep DEF Next

\* No connected peer has a score below the threshold: not one that was cut and connects
\* again, nor one whose close event, late pong or stake comes in any order
\* (score-actions.js, cli.js).
THEOREM ReputationNoLowScore == Spec => []NoLowScoreConnected
<1>1. Init => ScoreInv
  BY DEF Init, ScoreInv, NoLowScoreConnected
<1>2. ScoreInv => NoLowScoreConnected
  BY DEF ScoreInv
<1> QED
  BY <1>1, <1>2, ScoreStep, PTL DEF Spec
------------------------------------------------------------------------------
(* What is cut has earned it.  Arithmetic first.                           *)

\* The sizes of the windows.
LEMMA Windows ==
  /\ UptimeWindow \in Nat \ {0} /\ LatencyWindow \in Nat \ {0}
  /\ AccuracyWindow \in Nat \ {0} /\ Unit \in Nat \ {0} /\ 2 * (Unit \div 2) = Unit
<1> DEFINE W == {UptimeWindow, LatencyWindow, AccuracyWindow, HeadersBatch}
<1>1. \A w \in W : w \in Nat \ {0}
  BY WindowAssumption
<1>2. UptimeWindow \in W /\ LatencyWindow \in W /\ AccuracyWindow \in W
  OBVIOUS
<1> HIDE DEF W
<1>3. Unit \in Nat \ {0} /\ Unit % 2 = 0
  BY WindowAssumption
<1>4. 2 * (Unit \div 2) = Unit
  BY <1>3
<1> QED
  BY <1>1, <1>2, <1>3, <1>4

\* The products of naturals are natural.
LEMMA Product == ASSUME NEW a \in Nat, NEW b \in Nat PROVE a * b \in Nat
OBVIOUS

\* Quotients, their bounds, and the quotient of a multiple.
LEMMA Quotient ==
  ASSUME NEW a \in Nat, NEW n \in Nat \ {0}
  PROVE  /\ a \div n \in Nat
         /\ (n * a) \div n = a
         /\ \A k \in Nat : a < n * k + n => a \div n <= k
         /\ \A k \in Nat : n * k <= a /\ a < n * k + n => a \div n = k
<1>1. a \div n \in Nat /\ n * (a \div n) <= a /\ a < n * (a \div n) + n
  OBVIOUS
<1>2. ASSUME NEW k \in Nat, a < n * k + n PROVE a \div n <= k
  BY <1>2
<1>3. ASSUME NEW k \in Nat, n * k <= a, a < n * k + n PROVE a \div n = k
  BY <1>3
<1>4. (n * a) \div n = a
  OBVIOUS
<1> QED
  BY <1>1, <1>2, <1>3, <1>4

\* A share is natural, half a unit of nothing, and all of a unit if all is good.
LEMMA Shares ==
  ASSUME NEW good \in Nat, NEW all \in Nat
  PROVE  /\ Share(good, all) \in Nat
         /\ good = all => Share(good, all) >= Unit \div 2
<1>1. Unit \in Nat \ {0} /\ 2 * (Unit \div 2) = Unit /\ Unit \div 2 \in Nat
  BY Windows, Quotient
<1>2. CASE all = 0
  BY <1>1, <1>2 DEF Share
<1>3. CASE all # 0
  <2>1. good * Unit \in Nat
    BY <1>1, Product
  <2>2. Share(good, all) = (good * Unit) \div all
    BY <1>3 DEF Share
  <2>3. (good * Unit) \div all \in Nat
    BY <1>3, <2>1, Quotient
  <2>4. ASSUME good = all PROVE Share(good, all) = Unit
    BY <1>1, <1>3, <2>2, <2>4, Quotient
  <2> QED
    BY <1>1, <2>2, <2>3, <2>4
<1> QED
  BY <1>2, <1>3

\* How often something is in a sequence; in a sequence of it, each time.
LEMMA Counts ==
  ASSUME NEW S, NEW s \in Seq(S), NEW x
  PROVE  /\ Count(s, x) \in Nat /\ Len(s) \in Nat
         /\ s \in Seq({x}) => Count(s, x) = Len(s)
<1> DEFINE I == {i \in 1 .. Len(s) : s[i] = x}
<1>1. Len(s) \in Nat
  OBVIOUS
<1>2. IsFiniteSet(1 .. Len(s)) /\ Cardinality(1 .. Len(s)) = Len(s)
  <2>1. Cardinality(1 .. Len(s)) = IF 1 > Len(s) THEN 0 ELSE Len(s) - 1 + 1
    BY <1>1, FS_Interval
  <2> QED
    BY <1>1, <2>1, FS_Interval
<1>3. IsFiniteSet(I)
  BY <1>2, FS_Subset
<1>4. Cardinality(I) \in Nat
  BY <1>3, FS_CardinalityType
<1>5. ASSUME s \in Seq({x}) PROVE I = 1 .. Len(s)
  BY <1>5
<1> QED
  BY <1>1, <1>2, <1>4, <1>5 DEF Count

\* The newest n of a sequence are of its kind and at most n.
LEMMA NewestOnes ==
  ASSUME NEW S, NEW s \in Seq(S), NEW n \in Nat \ {0}
  PROVE  Newest(s, n) \in Seq(S) /\ Len(Newest(s, n)) <= n
<1>1. CASE Len(s) <= n
  BY <1>1 DEF Newest
<1>2. CASE ~(Len(s) <= n)
  <2>1. Newest(s, n) = SubSeq(s, Len(s) - n + 1, Len(s))
    BY <1>2 DEF Newest
  <2>2. Len(s) - n + 1 \in 1 .. Len(s) /\ Len(s) \in Nat
    BY <1>2
  <2>3. /\ SubSeq(s, Len(s) - n + 1, Len(s)) \in Seq(S)
        /\ Len(SubSeq(s, Len(s) - n + 1, Len(s))) = n
    BY <2>2
  <2> QED
    BY <2>1, <2>3
<1> QED
  BY <1>1, <1>2

\* What the argument knows of the metrics of a peer.
Metrics ==
  [pings : Nat, pongs : Nat, latencies : Seq({0, 1}), accuracyLog : Seq(BOOLEAN),
   stake : StakePoints \cup {0}]
Windowed(m) ==
  /\ m \in Metrics
  /\ m.pings <= UptimeWindow /\ m.pongs <= m.pings
  /\ Len(m.latencies) <= LatencyWindow /\ Len(m.accuracyLog) <= AccuracyWindow

\* What is not held against a peer does not show in its metrics.
Clean(m, held) ==
  /\ "invalid" \notin held => m.accuracyLog \in Seq({TRUE})
  /\ "timeout" \notin held => m.pongs = m.pings
  /\ "fresh" \notin held => m.stake >= 0

Good(m, held) == Windowed(m) /\ Clean(m, held)

\* A sub-score of one half.
LEMMA Half == \E half \in Nat : Unit = 2 * half /\ Unit \div 2 = half
<1>1. Unit \in Nat /\ Unit \div 2 \in Nat /\ Unit = 2 * (Unit \div 2)
  <2>1. Unit \in Nat /\ 2 \in Nat \ {0}
    BY Windows
  <2>2. Unit \div 2 \in Nat
    BY <2>1, Quotient
  <2> QED
    BY <2>1, <2>2, Windows
<1> DEFINE half == Unit \div 2
<1>2. half \in Nat /\ Unit = 2 * half /\ Unit \div 2 = half
  BY <1>1
<1> HIDE DEF half
<1> QED
  BY <1>2

\* Contributions are integers.
LEMMA PointTypes ==
  /\ \A points \in StakePoints \cup {0} : points \in Int /\ (points >= 0 => points \in Nat)
  /\ SevenDays \in StakePoints /\ SevenDays >= 0
BY StakeAssumption

\* What the weights make of four shares.
LEMMA Weighted ==
  ASSUME NEW half \in Nat, NEW u \in Nat, NEW r \in Nat, NEW d \in Nat, NEW a \in Nat,
         d >= half
  PROVE  /\ 300 * u + 200 * r + 400 * d + a \in Nat
         /\ 300 * u + 200 * r + 400 * d + a >= 400 * half
         /\ u >= half => 300 * u + 200 * r + 400 * d + a >= 700 * half
OBVIOUS

\* Without bad data and a fresh stake no peer is blacklisted, and if it missed no ping
\* either it is not cut.
LEMMA GoodScores ==
  ASSUME NEW m, NEW held, Good(m, held), "invalid" \notin held, "fresh" \notin held
  PROVE  /\ ~(Score(m) < BlacklistThreshold)
         /\ "timeout" \notin held => ~(Score(m) < DisconnectThreshold)
<1>1. /\ m.pings \in Nat /\ m.pongs \in Nat /\ m.latencies \in Seq({0, 1})
      /\ m.accuracyLog \in Seq(BOOLEAN) /\ m.stake \in StakePoints \cup {0}
  BY DEF Good, Windowed, Metrics
<1>2. /\ m.accuracyLog \in Seq({TRUE}) /\ m.stake >= 0
      /\ "timeout" \notin held => m.pongs = m.pings
  BY DEF Good, Clean
<1>3. PICK half \in Nat : Unit = 2 * half /\ Unit \div 2 = half
  BY Half
<1>4. Uptime(m) \in Nat /\ ("timeout" \notin held => Uptime(m) >= half)
  <2>1. Uptime(m) = Share(m.pongs, m.pings)
    BY DEF Uptime
  <2>2. /\ Share(m.pongs, m.pings) \in Nat
        /\ m.pongs = m.pings => Share(m.pongs, m.pings) >= half
    BY <1>1, <1>3, Shares
  <2> QED
    BY <1>2, <2>1, <2>2
<1>5. ResponseTime(m) \in Nat
  <2>1. Count(m.latencies, 0) \in Nat /\ Len(m.latencies) \in Nat
    BY <1>1, Counts
  <2> QED
    BY <2>1, Shares DEF ResponseTime
<1>6. DataAccuracy(m) \in Nat /\ DataAccuracy(m) >= half
  <2> DEFINE count == Count(m.accuracyLog, TRUE)
             all   == Len(m.accuracyLog)
  <2>1. count \in Nat /\ all \in Nat /\ count = all
    BY <1>1, <1>2, Counts
  <2>2. DataAccuracy(m) = Share(count, all)
    BY DEF DataAccuracy
  <2> HIDE DEF count, all
  <2>3. Share(count, all) \in Nat /\ Share(count, all) >= half
    BY <1>3, <2>1, Shares
  <2> QED
    BY <2>2, <2>3
<1>7. m.stake * Unit \in Nat
  <2>1. m.stake \in StakePoints \cup {0} /\ m.stake >= 0
    BY <1>1, <1>2
  <2>2. m.stake \in Nat
    BY <2>1, PointTypes
  <2>3. Unit \in Nat
    BY <1>3
  <2> QED
    BY <2>2, <2>3, Product
<1>8. DisconnectThreshold = 600 * half /\ BlacklistThreshold = 200 * half
  <2>1. 10 \in Nat \ {0} /\ 200 * half \in Nat /\ Full = 10 * (200 * half)
    BY <1>3 DEF Full
  <2>2. Full \div 10 = 200 * half
    BY <2>1, Quotient
  <2> QED
    BY <1>3, <2>2 DEF DisconnectThreshold, BlacklistThreshold
<1>9. Score(m) = 300 * Uptime(m) + 200 * ResponseTime(m) + 400 * DataAccuracy(m) + m.stake * Unit
  BY DEF Score
<1>10. /\ Score(m) \in Nat /\ Score(m) >= 400 * half
       /\ "timeout" \notin held => Score(m) >= 700 * half
  BY <1>3, <1>4, <1>5, <1>6, <1>7, <1>9, Weighted
<1> QED
  BY <1>3, <1>8, <1>10

\* Beyond the window a peer keeps its share of pongs, rounded: all, if it answered all.
LEMMA TrimmedGood ==
  ASSUME NEW m \in Metrics, m.pongs <= m.pings
  PROVE  /\ Trimmed(m) = [m EXCEPT !.pings = Trimmed(m).pings, !.pongs = Trimmed(m).pongs]
         /\ Trimmed(m).pings \in Nat /\ Trimmed(m).pongs \in Nat
         /\ Trimmed(m).pings <= UptimeWindow /\ Trimmed(m).pongs <= Trimmed(m).pings
         /\ m.pongs = m.pings => Trimmed(m).pongs = Trimmed(m).pings
<1>1. UptimeWindow \in Nat \ {0} /\ m.pings \in Nat /\ m.pongs \in Nat
  BY Windows DEF Metrics
<1>2. CASE m.pings <= UptimeWindow
  <2>1. Trimmed(m) = m
    BY <1>2 DEF Trimmed
  <2> QED
    BY <1>1, <1>2, <2>1 DEF Metrics
<1>3. CASE ~(m.pings <= UptimeWindow)
  <2> DEFINE k == (2 * m.pongs * UptimeWindow + m.pings) \div (2 * m.pings)
  <2>1. Trimmed(m) = [m EXCEPT !.pings = UptimeWindow, !.pongs = k]
    BY <1>3 DEF Trimmed
  <2>2. Trimmed(m).pings = UptimeWindow /\ Trimmed(m).pongs = k
    BY <2>1 DEF Metrics
  <2> DEFINE a == m.pongs * UptimeWindow
             c == m.pings * UptimeWindow
             n == 2 * m.pings
  <2>3. a \in Nat /\ c \in Nat /\ a <= c /\ n \in Nat \ {0} /\ n * UptimeWindow = 2 * c
    BY <1>1, <1>3
  <2>4. k = (2 * a + m.pings) \div n
    BY <1>1
  <2>5. 2 * a + m.pings \in Nat /\ 2 * a + m.pings < n * UptimeWindow + n
    <3> HIDE DEF a, c
    <3> QED
      BY <1>1, <1>3, <2>3
  <2>6. m.pongs = m.pings => n * UptimeWindow <= 2 * a + m.pings
    BY <1>1, <2>3
  <2> HIDE DEF k, a, n
  <2>7. k \in Nat /\ k <= UptimeWindow /\ (m.pongs = m.pings => k = UptimeWindow)
    BY <1>1, <2>3, <2>4, <2>5, <2>6, Quotient
  <2> QED
    BY <1>1, <2>1, <2>2, <2>7
<1> QED
  BY <1>2, <1>3

\* An answer, late or not, is held against nobody.
LEMMA PongedGood ==
  ASSUME NEW m, NEW held, Good(m, held), NEW latency \in {0, 1}
  PROVE  Good(Ponged(m, latency), held)
<1> DEFINE r == [m EXCEPT !.pings = @ + 1, !.pongs = @ + 1]
           t == Trimmed(r)
<1>1. r \in Metrics /\ r.pongs <= r.pings
  <2>1. m \in Metrics /\ m.pongs <= m.pings
    BY DEF Good, Windowed
  <2> DEFINE i == m.pings + 1
             o == m.pongs + 1
  <2>2. i \in Nat /\ o \in Nat /\ o <= i
    BY <2>1 DEF Metrics
  <2>3. r = [m EXCEPT !.pings = i, !.pongs = o]
    BY <2>1 DEF Metrics
  <2> HIDE DEF i, o, r
  <2> QED
    BY <2>1, <2>2, <2>3 DEF Metrics
<1>2. /\ r.latencies = m.latencies /\ r.accuracyLog = m.accuracyLog /\ r.stake = m.stake
      /\ (m.pongs = m.pings => r.pongs = r.pings)
  BY DEF Good, Windowed, Metrics
<1> HIDE DEF r
<1>3. /\ t = [r EXCEPT !.pings = t.pings, !.pongs = t.pongs]
      /\ t.pings \in Nat /\ t.pongs \in Nat /\ t.pings <= UptimeWindow /\ t.pongs <= t.pings
      /\ r.pongs = r.pings => t.pongs = t.pings
  BY <1>1, TrimmedGood
<1> HIDE DEF t
<1>4. t \in Metrics /\ t.latencies = m.latencies /\ t.accuracyLog = m.accuracyLog
      /\ t.stake = m.stake
  BY <1>1, <1>2, <1>3 DEF Metrics
<1> DEFINE l == Newest(Append(m.latencies, latency), LatencyWindow)
<1>5. l \in Seq({0, 1}) /\ Len(l) <= LatencyWindow
  <2>1. Append(m.latencies, latency) \in Seq({0, 1})
    BY <1>4 DEF Metrics
  <2> QED
    BY <2>1, Windows, NewestOnes
<1>6. Ponged(m, latency) = [t EXCEPT !.latencies = l]
  BY <1>4 DEF Ponged, t, r
<1> HIDE DEF l
<1> DEFINE e == [t EXCEPT !.latencies = l]
<1>7. /\ e \in Metrics /\ e.latencies = l /\ e.pings = t.pings /\ e.pongs = t.pongs
      /\ e.accuracyLog = m.accuracyLog /\ e.stake = m.stake
  BY <1>4, <1>5 DEF Metrics
<1> HIDE DEF e
<1>8. Windowed(e)
  BY <1>3, <1>5, <1>7 DEF Good, Windowed
<1>9. Clean(e, held)
  BY <1>2, <1>3, <1>7 DEF Good, Clean
<1> QED
  BY <1>6, <1>8, <1>9 DEF Good, e

\* A timeout is held against a peer.
LEMMA MissedGood ==
  ASSUME NEW m, NEW held, Good(m, held)
  PROVE  Good(Missed(m), held \cup {"timeout"})
<1> DEFINE r == [m EXCEPT !.pings = @ + 1]
           t == Trimmed(r)
<1>1. r \in Metrics /\ r.pongs <= r.pings
  BY DEF Good, Windowed, Metrics
<1>2. r.latencies = m.latencies /\ r.accuracyLog = m.accuracyLog /\ r.stake = m.stake
  BY DEF Good, Windowed, Metrics
<1>3. Missed(m) = t
  BY DEF Missed
<1> HIDE DEF r
<1>4. /\ t = [r EXCEPT !.pings = t.pings, !.pongs = t.pongs]
      /\ t.pings \in Nat /\ t.pongs \in Nat /\ t.pings <= UptimeWindow /\ t.pongs <= t.pings
  BY <1>1, TrimmedGood
<1> HIDE DEF t
<1>5. t \in Metrics /\ t.latencies = m.latencies /\ t.accuracyLog = m.accuracyLog
      /\ t.stake = m.stake
  BY <1>1, <1>2, <1>4 DEF Metrics
<1> QED
  BY <1>3, <1>4, <1>5 DEF Good, Windowed, Clean

\* Judgements are held against a peer if they are bad.
LEMMA JudgedGood ==
  ASSUME NEW m, NEW held, Good(m, held), NEW good \in BOOLEAN, NEW n \in Nat
  PROVE  Good(Judged(m, good, n), IF good THEN held ELSE held \cup {"invalid"})
<1> DEFINE added == [i \in 1 .. n |-> good]
           log   == Newest(m.accuracyLog \o added, AccuracyWindow)
<1>1. m \in Metrics /\ m.accuracyLog \in Seq(BOOLEAN)
  BY DEF Good, Windowed, Metrics
<1>2. AccuracyWindow \in Nat \ {0}
  BY Windows
<1>3. log \in Seq(BOOLEAN) /\ Len(log) <= AccuracyWindow
  <2>1. added \in Seq(BOOLEAN)
    OBVIOUS
  <2>2. m.accuracyLog \o added \in Seq(BOOLEAN)
    BY <1>1, <2>1
  <2> QED
    BY <1>2, <2>2, NewestOnes
<1>4. good /\ m.accuracyLog \in Seq({TRUE}) => log \in Seq({TRUE})
  <2> SUFFICES ASSUME good, m.accuracyLog \in Seq({TRUE}) PROVE log \in Seq({TRUE})
    OBVIOUS
  <2>1. added \in Seq({TRUE})
    OBVIOUS
  <2>2. m.accuracyLog \o added \in Seq({TRUE})
    BY <2>1
  <2> QED
    BY <1>2, <2>2, NewestOnes
<1>5. Judged(m, good, n) = [m EXCEPT !.accuracyLog = log]
  BY <1>1 DEF Judged
<1> HIDE DEF log
<1> DEFINE e == [m EXCEPT !.accuracyLog = log]
<1>6. /\ e \in Metrics /\ e.accuracyLog = log /\ e.pings = m.pings /\ e.pongs = m.pongs
      /\ e.latencies = m.latencies /\ e.stake = m.stake
  BY <1>1, <1>3 DEF Metrics
<1> HIDE DEF e
<1>7. Windowed(e)
  BY <1>3, <1>6 DEF Good, Windowed
<1>8. Clean(e, IF good THEN held ELSE held \cup {"invalid"})
  BY <1>4, <1>6 DEF Good, Clean
<1> QED
  BY <1>5, <1>7, <1>8 DEF Good, e

\* A stake is held against a peer if it is fresh.
LEMMA StakedGood ==
  ASSUME NEW m, NEW held, Good(m, held), NEW points \in StakePoints
  PROVE  Good(Staked(m, points), IF points < 0 THEN held \cup {"fresh"} ELSE held)
<1>1. points \in Int /\ m \in Metrics
  BY StakeAssumption DEF Good, Windowed
<1> DEFINE e == [m EXCEPT !.stake = points]
<1>2. /\ e \in Metrics /\ e.accuracyLog = m.accuracyLog /\ e.pings = m.pings
      /\ e.pongs = m.pongs /\ e.latencies = m.latencies /\ e.stake = points
  BY <1>1 DEF Metrics
<1>3. Staked(m, points) = e
  BY DEF Staked
<1> HIDE DEF e
<1>4. Windowed(e)
  BY <1>2 DEF Good, Windowed
<1>5. Clean(e, IF points < 0 THEN held \cup {"fresh"} ELSE held)
  <2> DEFINE now == IF points < 0 THEN held \cup {"fresh"} ELSE held
  <2>1. Clean(m, held)
    BY DEF Good
  <2>2. held \subseteq now
    OBVIOUS
  <2>3. "fresh" \notin now => points >= 0
    <3>1. CASE points < 0
      BY <3>1
    <3>2. CASE ~(points < 0)
      BY <1>1, <3>2
    <3> QED
      BY <3>1, <3>2
  <2> HIDE DEF now
  <2>4. Clean(e, now)
    BY <1>2, <2>1, <2>2, <2>3 DEF Clean
  <2> QED
    BY <2>4 DEF now
<1> QED
  BY <1>3, <1>4, <1>5 DEF Good
------------------------------------------------------------------------------
(* What is held against a peer explains what is done to it.                *)

Reasons == {"invalid", "timeout", "fresh"}
Earned ==
  /\ metrics = [p \in Peer |-> metrics[p]]
  /\ blame \in [Peer -> SUBSET Reasons]
  /\ \A p \in Peer : Good(metrics[p], blame[p])
  /\ connected \subseteq Peer /\ cut \subseteq Peer /\ blacklist \subseteq Peer
  /\ CutsAreEarned

\* A peer is cut, or blacklisted, on the way to good metrics only for what is held
\* against it.
LEMMA Verdicts ==
  ASSUME NEW p, NEW n \in Nat \ {0}, NEW steps, steps = [i \in 1 .. n |-> steps[i]],
         NEW held, \A i \in 1 .. n : Good(steps[i], held)
  PROVE  /\ Acts(p, steps) => held # {}
         /\ Blacklists(steps) => held \cap {"invalid", "fresh"} # {}
<1>1. \A s \in Range(steps) : Good(s, held)
  <2>1. DOMAIN steps = 1 .. n
    OBVIOUS
  <2> QED
    BY <2>1 DEF Range
<1>2. ASSUME NEW s \in Range(steps), held = {} PROVE ~(Score(s) < DisconnectThreshold)
  BY <1>1, <1>2, GoodScores
<1>3. ASSUME NEW s \in Range(steps), held \cap {"invalid", "fresh"} = {}
      PROVE  ~(Score(s) < BlacklistThreshold)
  <2>1. "invalid" \notin held /\ "fresh" \notin held
    BY <1>3
  <2> QED
    BY <1>1, <2>1, GoodScores
<1> QED
  BY <1>2, <1>3 DEF Acts, Blacklists

\* So it is with a change of the metrics of one peer in one or more steps.
LEMMA ScoredEarned ==
  ASSUME Earned, NEW p \in Peer, NEW n \in Nat \ {0}, NEW steps,
         steps = [i \in 1 .. n |-> steps[i]],
         NEW conns, conns \subseteq connected \cup {p}, Scored(p, steps, conns),
         NEW held \in SUBSET Reasons, blame[p] \subseteq held,
         blame' = [blame EXCEPT ![p] = held],
         \A i \in 1 .. n : Good(steps[i], held)
  PROVE  Earned'
<1>1. /\ metrics' = [metrics EXCEPT ![p] = Last(steps)]
      /\ connected' = IF Acts(p, steps) THEN conns \ {p} ELSE conns
      /\ blacklist' = IF Blacklists(steps) THEN blacklist \cup {p} ELSE blacklist
      /\ cut' = IF p \in conns \ connected' THEN cut \cup {p} ELSE cut
  BY DEF Scored
<1>2. Last(steps) = steps[n] /\ n \in 1 .. n
  <2>1. Len(steps) = n /\ n \in 1 .. n
    OBVIOUS
  <2> QED
    BY <2>1 DEF Last
<1>3. metrics' = [q \in Peer |-> IF q = p THEN steps[n] ELSE metrics[q]]
  BY <1>1, <1>2 DEF Earned
<1>4. /\ blame' = [q \in Peer |-> IF q = p THEN held ELSE blame[q]]
      /\ blame' \in [Peer -> SUBSET Reasons]
  BY DEF Earned
<1>5. \A q \in Peer : Good(metrics'[q], blame'[q])
  BY <1>2, <1>3, <1>4 DEF Earned
<1>6. connected' \subseteq Peer /\ cut' \subseteq Peer /\ blacklist' \subseteq Peer
  BY <1>1 DEF Earned
<1>7. /\ Acts(p, steps) => held # {}
      /\ Blacklists(steps) => held \cap {"invalid", "fresh"} # {}
  BY Verdicts
<1>8. \A q \in cut' : blame'[q] # {}
  <2> SUFFICES ASSUME NEW q \in cut' PROVE blame'[q] # {}
    OBVIOUS
  <2>1. CASE q \in cut
    BY <1>4, <2>1 DEF Earned, CutsAreEarned
  <2>2. CASE q \notin cut
    <3>1. q = p /\ Acts(p, steps)
      BY <1>1, <2>2
    <3> QED
      BY <1>4, <1>7, <3>1
  <2> QED
    BY <2>1, <2>2
<1>9. \A q \in blacklist' : blame'[q] \cap {"invalid", "fresh"} # {}
  <2> SUFFICES ASSUME NEW q \in blacklist' PROVE blame'[q] \cap {"invalid", "fresh"} # {}
    OBVIOUS
  <2>1. CASE q \in blacklist
    BY <1>4, <2>1 DEF Earned, CutsAreEarned
  <2>2. CASE q \notin blacklist
    <3>1. q = p /\ Blacklists(steps)
      BY <1>1, <2>2
    <3> QED
      BY <1>4, <1>7, <3>1
  <2> QED
    BY <2>1, <2>2
<1>10. metrics' = [q \in Peer |-> metrics'[q]]
  BY <1>3
<1> QED
  BY <1>4, <1>5, <1>6, <1>8, <1>9, <1>10 DEF Earned, CutsAreEarned

\* A change in one step.
LEMMA ScoredOnceEarned ==
  ASSUME Earned, NEW p \in Peer, NEW m, NEW conns, conns \subseteq connected \cup {p},
         Scored(p, <<m>>, conns),
         NEW held \in SUBSET Reasons, blame[p] \subseteq held,
         blame' = [blame EXCEPT ![p] = held], Good(m, held)
  PROVE  Earned'
<1> DEFINE steps == <<m>>
<1>1. /\ 1 \in Nat \ {0} /\ steps = [i \in 1 .. 1 |-> steps[i]]
      /\ Scored(p, steps, conns) /\ \A i \in 1 .. 1 : Good(steps[i], held)
  OBVIOUS
<1> HIDE DEF steps
<1> QED
  BY <1>1, ScoredEarned

\* Nothing is held against anybody, nobody is cut.
LEMMA OthersEarned ==
  ASSUME Earned, UNCHANGED <<metrics, blame, cut, blacklist>>, connected' \subseteq connected
  PROVE  Earned'
BY DEF Earned, CutsAreEarned

LEMMA Unblamed ==
  ASSUME Earned, NEW p \in Peer, UNCHANGED blame
  PROVE  blame[p] \in SUBSET Reasons /\ blame' = [blame EXCEPT ![p] = blame[p]]
BY DEF Earned

LEMMA Blamed ==
  ASSUME Earned, NEW p \in Peer, NEW what \in Reasons, Blame(p, what)
  PROVE  /\ blame[p] \cup {what} \in SUBSET Reasons
         /\ blame' = [blame EXCEPT ![p] = blame[p] \cup {what}]
BY DEF Earned, Blame

LEMMA EarnedInit == Init => Earned
<1> SUFFICES ASSUME Init PROVE Earned
  OBVIOUS
<1>1. Good(Fresh, {})
  <2>1. /\ <<>> \in Seq({0, 1}) /\ <<>> \in Seq(BOOLEAN) /\ <<>> \in Seq({TRUE})
        /\ Len(<<>>) = 0
    OBVIOUS
  <2>2. /\ Fresh \in Metrics /\ Fresh.pings = 0 /\ Fresh.pongs = 0 /\ Fresh.latencies = <<>>
        /\ Fresh.accuracyLog = <<>> /\ Fresh.stake = 0
    BY <2>1 DEF Fresh, Metrics
  <2> QED
    BY <2>1, <2>2, Windows DEF Good, Windowed, Clean
<1> QED
  BY <1>1 DEF Init, Earned, CutsAreEarned

LEMMA EarnedOnData ==
  ASSUME Earned, NEW p \in Peer, NEW good \in BOOLEAN, OnData(p, good)
  PROVE  Earned'
<1>1. PICK n \in IF good THEN {1, HeadersBatch} ELSE {1} :
        Scored(p, [i \in 1 .. n |-> Judged(metrics[p], good, i)], connected)
  BY DEF OnData
<1>2. n \in Nat \ {0}
  BY BatchSize
<1> DEFINE held == IF good THEN blame[p] ELSE blame[p] \cup {"invalid"}
           steps == [i \in 1 .. n |-> Judged(metrics[p], good, i)]
<1>3. steps = [i \in 1 .. n |-> steps[i]] /\ Scored(p, steps, connected)
  BY <1>1
<1>4. ASSUME NEW i \in 1 .. n PROVE Good(steps[i], held)
  <2>1. i \in Nat /\ Good(metrics[p], blame[p])
    BY <1>2, <1>4 DEF Earned
  <2>2. Good(Judged(metrics[p], good, i), held)
    BY <2>1, JudgedGood
  <2> QED
    BY <2>2
<1> HIDE DEF steps
<1>5. held \in SUBSET Reasons /\ blame[p] \subseteq held /\ blame' = [blame EXCEPT ![p] = held]
  <2>1. CASE good
    BY <2>1, Unblamed DEF OnData
  <2>2. CASE ~good
    <3>1. Blame(p, "invalid") /\ "invalid" \in Reasons
      BY <2>2 DEF OnData, Reasons
    <3> QED
      BY <2>2, <3>1, Blamed
  <2> QED
    BY <2>1, <2>2
<1> HIDE DEF held
<1> QED
  BY <1>2, <1>3, <1>4, <1>5, ScoredEarned

LEMMA EarnedConnect ==
  ASSUME Earned, NEW p \in Peer, Connect(p)
  PROVE  Earned'
<1>1. Scored(p, <<Staked(metrics[p], SevenDays)>>, connected \cup {p}) /\ UNCHANGED blame
  BY DEF Connect
<1>2. Good(metrics[p], blame[p])
  BY DEF Earned
<1>3. Good(Staked(metrics[p], SevenDays), blame[p])
  <2>1. SevenDays \in StakePoints /\ ~(SevenDays < 0)
    BY StakeAssumption
  <2> QED
    BY <1>2, <2>1, StakedGood
<1> QED
  BY <1>1, <1>3, Unblamed, ScoredOnceEarned

LEMMA EarnedOnPong ==
  ASSUME Earned, NEW p \in Peer, OnPong(p)
  PROVE  Earned'
<1>1. CASE p \notin pending
  BY <1>1, OthersEarned DEF OnPong
<1>2. CASE p \in pending
  <2>1. PICK latency \in {0, 1} : Scored(p, <<Ponged(metrics[p], latency)>>, connected)
    BY <1>2 DEF OnPong
  <2>2. Good(Ponged(metrics[p], latency), blame[p])
    BY PongedGood DEF Earned
  <2> QED
    BY <2>1, <2>2, Unblamed, ScoredOnceEarned DEF OnPong
<1> QED
  BY <1>1, <1>2

LEMMA EarnedPingTimer ==
  ASSUME Earned, NEW p \in Peer, PingTimer(p)
  PROVE  Earned'
<1>1. CASE p \in pending /\ ~InGracePeriod(p)
  <2>1. /\ Scored(p, <<Missed(metrics[p])>>, connected)
        /\ Blame(p, "timeout") /\ "timeout" \in Reasons
    BY <1>1 DEF PingTimer, Reasons
  <2>2. Good(Missed(metrics[p]), blame[p] \cup {"timeout"})
    BY MissedGood DEF Earned
  <2> QED
    BY <2>1, <2>2, Blamed, ScoredOnceEarned
<1>2. CASE ~(p \in pending /\ ~InGracePeriod(p))
  BY <1>2, OthersEarned DEF PingTimer
<1> QED
  BY <1>1, <1>2

LEMMA EarnedRegistered ==
  ASSUME Earned, NEW p \in Peer, Registered(p)
  PROVE  Earned'
<1>1. PICK points \in StakePoints :
        /\ Scored(p, <<Staked(metrics[p], points)>>, connected)
        /\ IF points < 0 THEN Blame(p, "fresh") ELSE UNCHANGED blame
  BY DEF Registered
<1>2. Good(metrics[p], blame[p])
  BY DEF Earned
<1>3. CASE points < 0
  <2>1. Blame(p, "fresh") /\ "fresh" \in Reasons
    BY <1>1, <1>3 DEF Reasons
  <2>2. Good(Staked(metrics[p], points), blame[p] \cup {"fresh"})
    BY <1>2, <1>3, StakedGood
  <2> QED
    BY <1>1, <2>1, <2>2, Blamed, ScoredOnceEarned
<1>4. CASE ~(points < 0)
  <2>1. Good(Staked(metrics[p], points), blame[p])
    BY <1>2, <1>4, StakedGood
  <2> QED
    BY <1>1, <1>4, <2>1, Unblamed, ScoredOnceEarned
<1> QED
  BY <1>3, <1>4

LEMMA EarnedStep == Earned /\ [Next]_vars => Earned'
<1> SUFFICES ASSUME Earned, [Next]_vars PROVE Earned'
  OBVIOUS
<1>1. ASSUME NEW p \in Peer, Disconnect(p) \/ Duplicate(p) \/ OnClose(p) PROVE Earned'
  BY <1>1, OthersEarned DEF Disconnect, Duplicate, OnClose
<1>2. CASE HealthCheck \/ Tick \/ UNCHANGED vars
  BY <1>2, OthersEarned DEF HealthCheck, Tick, vars
<1> QED
  BY <1>1, <1>2, EarnedConnect, EarnedOnData, EarnedOnPong, EarnedPingTimer,
     EarnedRegistered DEF Next
------------------------------------------------------------------------------
(* The rest of the types.  A closed connection is awaited by one that can   *)
(* be cut: whoever has a connection leaves room for its close event.        *)

Closings ==
  /\ spent = [stakes |-> spent.stakes, duplicates |-> spent.duplicates]
  /\ spent.stakes \in 0 .. MaxStakes /\ spent.duplicates \in 0 .. MaxDuplicates
  /\ closing \in [Peer -> Nat]
  /\ \A p \in Peer : /\ closing[p] <= MaxClosing + spent.duplicates
                     /\ p \in connected => closing[p] < MaxClosing + spent.duplicates

Healthy ==
  /\ offline \in [Peer -> {Online} \cup 0 .. Inactive]
  /\ status \in [Peer -> {"online", "offline", "grace", "inactive"}]
  /\ pending \subseteq Peer /\ unanswered \in [Peer -> 0 .. 2]

\* A connection that is cut turns into a close event to come.
LEMMA ScoredClosings ==
  ASSUME Closings, NEW p \in Peer, NEW steps, NEW conns,
         conns \subseteq connected \cup {p}, Scored(p, steps, conns),
         spent' = [spent EXCEPT !.stakes = spent'.stakes], spent'.stakes \in 0 .. MaxStakes,
         p \in conns => closing[p] < MaxClosing + spent.duplicates
  PROVE  Closings'
<1>1. /\ connected' = IF Acts(p, steps) THEN conns \ {p} ELSE conns
      /\ closing' = [closing EXCEPT ![p] = IF p \in conns \ connected' THEN @ + 1 ELSE @]
  BY DEF Scored
<1>2. MaxClosing \in Nat \ {0} /\ MaxDuplicates \in Nat /\ MaxStakes \in Nat
  BY BoundAssumption
<1>3. /\ spent' = [stakes |-> spent'.stakes, duplicates |-> spent'.duplicates]
      /\ spent'.duplicates = spent.duplicates /\ spent.duplicates \in 0 .. MaxDuplicates
  BY DEF Closings
<1>4. closing' = [q \in Peer |-> IF q = p /\ p \in conns \ connected'
                                 THEN closing[q] + 1 ELSE closing[q]]
  BY <1>1 DEF Closings
<1>5. closing' \in [Peer -> Nat]
  BY <1>4 DEF Closings
<1>6. ASSUME NEW q \in Peer
      PROVE  /\ closing'[q] <= MaxClosing + spent'.duplicates
             /\ q \in connected' => closing'[q] < MaxClosing + spent'.duplicates
  <2>1. /\ closing[q] \in Nat /\ closing[q] <= MaxClosing + spent.duplicates
        /\ q \in connected => closing[q] < MaxClosing + spent.duplicates
    BY DEF Closings
  <2>2. CASE q # p
    <3>1. closing'[q] = closing[q] /\ (q \in connected' => q \in connected)
      BY <1>1, <1>4, <2>2
    <3> QED
      BY <1>3, <2>1, <3>1
  <2>3. CASE q = p /\ p \in conns \ connected'
    <3>1. closing'[q] = closing[q] + 1 /\ q \notin connected'
          /\ closing[q] < MaxClosing + spent.duplicates
      BY <1>4, <2>3
    <3> QED
      BY <1>2, <1>3, <2>1, <3>1
  <2>4. CASE q = p /\ p \notin conns \ connected'
    <3>1. closing'[q] = closing[q] /\ (q \in connected' => q \in conns)
      BY <1>1, <1>4, <2>4
    <3> QED
      BY <1>3, <2>1, <2>4, <3>1
  <2> QED
    BY <2>2, <2>3, <2>4
<1> QED
  BY <1>3, <1>5, <1>6 DEF Closings

\* Nothing closes.
LEMMA OthersClosings ==
  ASSUME Closings, UNCHANGED <<closing, spent>>, connected' \subseteq connected
  PROVE  Closings'
BY DEF Closings

LEMMA ClosingsInit == Init => Closings
BY BoundAssumption DEF Init, Closings

LEMMA ClosingsStep == Closings /\ [Next]_vars => Closings'
<1> SUFFICES ASSUME Closings, [Next]_vars PROVE Closings'
  OBVIOUS
<1>1. ASSUME NEW p \in Peer, Connect(p) PROVE Closings'
  <2>1. /\ Scored(p, <<Staked(metrics[p], SevenDays)>>, connected \cup {p})
        /\ closing[p] < MaxClosing /\ UNCHANGED spent
    BY <1>1 DEF Connect
  <2>2. closing[p] < MaxClosing + spent.duplicates
    BY <2>1, BoundAssumption DEF Closings
  <2>3. spent' = [spent EXCEPT !.stakes = spent'.stakes] /\ spent'.stakes \in 0 .. MaxStakes
    BY <2>1 DEF Closings
  <2> QED
    BY <2>1, <2>2, <2>3, ScoredClosings
<1>2. ASSUME UNCHANGED spent
      PROVE  spent' = [spent EXCEPT !.stakes = spent'.stakes] /\ spent'.stakes \in 0 .. MaxStakes
  BY <1>2 DEF Closings
<1>3. \A p \in connected : p \in Peer => closing[p] < MaxClosing + spent.duplicates
  BY DEF Closings
<1>4. ASSUME NEW p \in Peer, NEW good \in BOOLEAN, OnData(p, good) PROVE Closings'
  BY <1>2, <1>3, <1>4, ScoredClosings DEF OnData
<1>5. ASSUME NEW p \in Peer, OnPong(p) PROVE Closings'
  BY <1>2, <1>3, <1>5, ScoredClosings, OthersClosings DEF OnPong
<1>6. ASSUME NEW p \in Peer, PingTimer(p) PROVE Closings'
  BY <1>2, <1>3, <1>6, ScoredClosings, OthersClosings DEF PingTimer
<1>7. ASSUME NEW p \in Peer, Registered(p) PROVE Closings'
  <2>1. /\ spent' = [spent EXCEPT !.stakes = @ + 1] /\ spent.stakes < MaxStakes
        /\ \E points \in StakePoints :
             Scored(p, <<Staked(metrics[p], points)>>, connected)
    BY <1>7 DEF Registered
  <2>2. spent' = [spent EXCEPT !.stakes = spent'.stakes] /\ spent'.stakes \in 0 .. MaxStakes
    BY <2>1, BoundAssumption DEF Closings
  <2> QED
    BY <1>3, <2>1, <2>2, ScoredClosings
<1>8. ASSUME NEW p \in Peer, Disconnect(p) PROVE Closings'
  BY <1>8, OthersClosings DEF Disconnect
<1>9. ASSUME NEW p \in Peer, Duplicate(p) PROVE Closings'
  <2>1. /\ spent.duplicates < MaxDuplicates /\ UNCHANGED connected
        /\ spent' = [spent EXCEPT !.duplicates = @ + 1]
        /\ closing' = [closing EXCEPT ![p] = @ + 1]
    BY <1>9 DEF Duplicate
  <2>2. /\ spent' = [stakes |-> spent'.stakes, duplicates |-> spent'.duplicates]
        /\ spent'.stakes = spent.stakes /\ spent'.duplicates = spent.duplicates + 1
        /\ spent'.stakes \in 0 .. MaxStakes /\ spent'.duplicates \in 0 .. MaxDuplicates
    BY <2>1, BoundAssumption DEF Closings
  <2>3. /\ closing' \in [Peer -> Nat]
        /\ \A q \in Peer : closing'[q] <= closing[q] + 1
    BY <2>1 DEF Closings
  <2>4. \A q \in Peer : /\ closing'[q] <= MaxClosing + spent'.duplicates
                        /\ q \in connected' => closing'[q] < MaxClosing + spent'.duplicates
    BY <2>1, <2>2, <2>3, BoundAssumption DEF Closings
  <2> QED
    BY <2>2, <2>3, <2>4 DEF Closings
<1>10. ASSUME NEW p \in Peer, OnClose(p) PROVE Closings'
  <2>1. /\ UNCHANGED <<connected, spent>> /\ closing[p] > 0
        /\ closing' = [closing EXCEPT ![p] = @ - 1]
    BY <1>10 DEF OnClose
  <2>2. /\ closing' \in [Peer -> Nat]
        /\ \A q \in Peer : closing'[q] <= closing[q]
    BY <2>1 DEF Closings
  <2> QED
    BY <2>1, <2>2, BoundAssumption DEF Closings
<1>11. CASE HealthCheck \/ Tick \/ UNCHANGED vars
  BY <1>11, OthersClosings DEF HealthCheck, Tick, vars
<1> QED
  BY <1>1, <1>4, <1>5, <1>6, <1>7, <1>8, <1>9, <1>10, <1>11 DEF Next

\* Who is seen, and who is not, keeps a status and a timer.
LEMMA HealthTypes ==
  ASSUME Healthy, NEW p \in Peer, RecordSeen(p) \/ RecordOffline(p) \/ UNCHANGED health
  PROVE  /\ offline' \in [Peer -> {Online} \cup 0 .. Inactive]
         /\ status' \in [Peer -> {"online", "offline", "grace", "inactive"}]
<1>1. 0 \in 0 .. Inactive
  BY WindowAssumption
<1> QED
  BY <1>1 DEF Healthy, RecordSeen, RecordOffline, health

LEMMA HealthyInit == Init => Healthy
BY DEF Init, Healthy

LEMMA HealthyStep == Healthy /\ [Next]_vars => Healthy'
<1> SUFFICES ASSUME Healthy, [Next]_vars PROVE Healthy'
  OBVIOUS
<1>1. ASSUME NEW p \in Peer, Connect(p) \/ Disconnect(p) PROVE Healthy'
  BY <1>1, HealthTypes DEF Healthy, Connect, Disconnect
<1>2. ASSUME NEW p \in Peer, Duplicate(p) \/ OnClose(p) PROVE Healthy'
  BY <1>2, HealthTypes DEF Healthy, Duplicate, OnClose
<1>3. ASSUME NEW p \in Peer, NEW good \in BOOLEAN, OnData(p, good) PROVE Healthy'
  BY <1>3, HealthTypes DEF Healthy, OnData
<1>4. ASSUME NEW p \in Peer, OnPong(p) PROVE Healthy'
  <2>1. unanswered' \in [Peer -> 0 .. 2] /\ pending' \subseteq Peer
    BY <1>4 DEF Healthy, OnPong
  <2>2. RecordSeen(p)
    BY <1>4 DEF OnPong
  <2> QED
    BY <2>1, <2>2, HealthTypes DEF Healthy
<1>5. ASSUME NEW p \in Peer, PingTimer(p) PROVE Healthy'
  <2>1. unanswered' \in [Peer -> 0 .. 2] /\ pending' \subseteq Peer
    BY <1>5 DEF Healthy, PingTimer
  <2>2. UNCHANGED health
    BY <1>5 DEF PingTimer, health
  <2> QED
    BY <1>5, <2>1, <2>2, HealthTypes DEF Healthy
<1>6. ASSUME NEW p \in Peer, Registered(p) PROVE Healthy'
  BY <1>6 DEF Healthy, Registered
<1>7. CASE HealthCheck
  BY <1>7 DEF Healthy, HealthCheck, GetStatus
<1>8. CASE Tick
  <2>1. Inactive \in Nat
    BY WindowAssumption
  <2>2. \A p \in Peer : offline'[p] \in {Online} \cup 0 .. Inactive
    BY <1>8, <2>1 DEF Healthy, Tick, Online
  <2> QED
    BY <1>8, <2>2 DEF Healthy, Tick
<1>9. CASE UNCHANGED vars
  BY <1>9 DEF Healthy, vars
<1> QED
  BY <1>1, <1>2, <1>3, <1>4, <1>5, <1>6, <1>7, <1>8, <1>9 DEF Next

\* The three together are what the model promises.
LEMMA Consistent == Earned /\ Closings /\ Healthy => ReputationConsistent
<1> SUFFICES ASSUME Earned, Closings, Healthy PROVE ReputationConsistent
  OBVIOUS
<1>1. ASSUME NEW p \in Peer
      PROVE  /\ metrics[p].pings \in 0 .. UptimeWindow
             /\ metrics[p].pongs \in 0 .. metrics[p].pings
             /\ metrics[p].latencies \in Seq({0, 1})
             /\ Len(metrics[p].latencies) <= LatencyWindow
             /\ metrics[p].accuracyLog \in Seq(BOOLEAN)
             /\ Len(metrics[p].accuracyLog) <= AccuracyWindow
             /\ metrics[p].stake \in StakePoints \cup {0}
  <2>1. Windowed(metrics[p])
    BY DEF Earned, Good
  <2> QED
    BY <2>1, Windows DEF Windowed, Metrics
<1>2. \A S \in {connected, pending, blacklist, cut} : S \subseteq Peer
  BY DEF Earned, Healthy
<1>3. closing \in [Peer -> 0 .. MaxClosing + MaxDuplicates]
  BY BoundAssumption DEF Closings
<1>4. spent.stakes <= MaxStakes /\ spent.duplicates <= MaxDuplicates
  BY BoundAssumption DEF Closings
<1>5. TypeOK
  BY <1>1, <1>2, <1>3, <1>4 DEF TypeOK, Healthy, Earned, Reasons
<1> QED
  BY <1>5 DEF ReputationConsistent, Earned

\* A peer that did nothing wrong is never cut, and timeouts alone never put one on the
\* blacklist, whatever the windows, the stake ages and the order of events, rounded
\* pongs, late answers and cut batches included (peer-scorer.js, score-actions.js).
THEOREM ReputationEarned == Spec => []ReputationConsistent
BY EarnedInit, EarnedStep, ClosingsInit, ClosingsStep, HealthyInit, HealthyStep,
   Consistent, PTL DEF Spec
===============================================================================
