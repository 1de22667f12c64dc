---------------------------- MODULE PeerReputation ----------------------------
(***************************************************************************)
(* How a bridge scores its peers and what it does about a low score:       *)
(* packages/bridge/lib/peer-scorer.js, peer-health.js, score-actions.js,   *)
(* data-validator.js, and the listeners and timers of packages/bridge/     *)
(* cli.js that drive them.                                                 *)
(*                                                                         *)
(* Scores are integers in units of 1 / Full.  A connection is one whose    *)
(* handshake is complete; a closed one still delivers what was under way   *)
(* and then its close event.                                               *)
(***************************************************************************)
EXTENDS Integers, Sequences, SequencesExt, FiniteSets

CONSTANTS
  Peer,
  UptimeWindow, LatencyWindow, AccuracyWindow,
  Unit,           \* what a sub-score of 1 is; every window divides it
  StakePoints,    \* contributions of a stake age, in thousandths: log2(days) * 10
  SevenDays,      \* the one of seven days, given to every peer that connects
  HeadersBatch,   \* headers in a batch
  Grace, Inactive,\* ticks offline until the grace ends, until a peer is inactive
  MaxStakes, MaxDuplicates, MaxClosing  \* bounds: registrations, second connections,
                  \* closed connections whose close event is to come

ASSUME WindowAssumption ==
  /\ \A w \in {UptimeWindow, LatencyWindow, AccuracyWindow, HeadersBatch} : w \in Nat \ {0}
  /\ Unit \in Nat \ {0} /\ Unit % 2 = 0 /\ Grace \in Nat /\ Inactive \in Nat /\ Grace <= Inactive
ASSUME StakeAssumption == StakePoints \subseteq Int /\ SevenDays \in StakePoints \cap Nat
ASSUME BoundAssumption ==
  MaxStakes \in Nat /\ MaxDuplicates \in Nat /\ MaxClosing \in Nat \ {0}

Online == -1  \* offlineSince = null

VARIABLES
  metrics,    \* [Peer -> pings, pongs, latencies (1 slow, 0 fast), accuracyLog, stake]
  connected,  \* peers with a connection
  closing,    \* [Peer -> Nat] closed connections whose close event is to come
  offline,    \* [Peer -> ticks since offlineSince, or Online]
  status,     \* [Peer -> the status last reported by the health check]
  pending,    \* peers in pendingPings
  unanswered, \* [Peer -> Nat] pings of this connection a peer has not answered
  blacklist,
  blame,      \* history: [Peer -> what was held against it]
  cut,        \* history: peers disconnected for their score
  spent       \* registrations and second connections so far

vars == <<metrics, connected, closing, offline, status, pending, unanswered,
          blacklist, blame, cut, spent>>

health == <<offline, status>>

------------------------------------------------------------------------------
(* Scores.                                                                 *)

Share(good, all) == IF all = 0 THEN Unit \div 2 ELSE (good * Unit) \div all
Count(s, x) == Cardinality({i \in 1 .. Len(s) : s[i] = x})

Uptime(m)       == Share(m.pongs, m.pings)
ResponseTime(m) == Share(Count(m.latencies, 0), Len(m.latencies))
DataAccuracy(m) == Share(Count(m.accuracyLog, TRUE), Len(m.accuracyLog))

\* The weights are 0.3, 0.2, 0.4 and 0.1; Full is a score of 1.
Full == 1000 * Unit
Score(m) == 300 * Uptime(m) + 200 * ResponseTime(m) + 400 * DataAccuracy(m) + m.stake * Unit

DisconnectThreshold == 3 * (Full \div 10)
BlacklistThreshold  == Full \div 10

Newest(s, n) == IF Len(s) <= n THEN s ELSE SubSeq(s, Len(s) - n + 1, Len(s))

\* Beyond the window pings and pongs are scaled down; the pongs are rounded.
Trimmed(m) ==
  IF m.pings <= UptimeWindow THEN m
  ELSE [m EXCEPT !.pings = UptimeWindow,
                 !.pongs = (2 * @ * UptimeWindow + m.pings) \div (2 * m.pings)]

Ponged(m, latency) ==
  [Trimmed([m EXCEPT !.pings = @ + 1, !.pongs = @ + 1])
     EXCEPT !.latencies = Newest(Append(@, latency), LatencyWindow)]
Missed(m) == Trimmed([m EXCEPT !.pings = @ + 1])
\* n judgements, one after the other.
Judged(m, good, n) ==
  [m EXCEPT !.accuracyLog = Newest(@ \o [i \in 1 .. n |-> good], AccuracyWindow)]
Staked(m, points) == [m EXCEPT !.stake = points]

\* Mutant: a low score is acted upon only when data turns out bad.
ActsOnData(p, steps) == \E s \in Range(steps) :
  Score(s) < DisconnectThreshold /\ s.accuracyLog # metrics[p].accuracyLog

\* _evaluate on each of the updates steps: is p disconnected?
Acts(p, steps) == \E s \in Range(steps) : Score(s) < DisconnectThreshold

\* Mutant: the two thresholds are swapped.
BlacklistsSwapped(steps) == \E s \in Range(steps) : Score(s) < DisconnectThreshold

Blacklists(steps) == \E s \in Range(steps) : Score(s) < BlacklistThreshold

\* The metrics of p go through steps, p being connected iff p \in conns: score:update.
Scored(p, steps, conns) ==
  /\ metrics' = [metrics EXCEPT ![p] = Last(steps)]
  /\ connected' = IF Acts(p, steps) THEN conns \ {p} ELSE conns
  /\ closing' = [closing EXCEPT ![p] = IF p \in conns \ connected' THEN @ + 1 ELSE @]
  /\ blacklist' = IF Blacklists(steps) THEN blacklist \cup {p} ELSE blacklist
  /\ cut' = IF p \in conns \ connected' THEN cut \cup {p} ELSE cut

Blame(p, what) == blame' = [blame EXCEPT ![p] = @ \cup {what}]

------------------------------------------------------------------------------
(* Health.                                                                 *)

\* Mutant: a peer that is heard of again stays offline.
SeenStaysOffline(p) == UNCHANGED health

RecordSeen(p) ==
  /\ offline' = [offline EXCEPT ![p] = Online]
  /\ status' = [status EXCEPT ![p] = "online"]

\* The timer of a peer that is offline already is not reset.
RecordOffline(p) ==
  IF offline[p] # Online THEN UNCHANGED health
  ELSE /\ offline' = [offline EXCEPT ![p] = 0]
       /\ status' = [status EXCEPT ![p] = "offline"]

GetStatus(p) ==
  IF offline[p] = Online THEN "online"
  ELSE IF offline[p] >= Inactive THEN "inactive"
  ELSE IF offline[p] >= Grace THEN "offline" ELSE "grace"

InGracePeriod(p) == GetStatus(p) = "grace"

------------------------------------------------------------------------------
Fresh == [pings |-> 0, pongs |-> 0, latencies |-> <<>>, accuracyLog |-> <<>>, stake |-> 0]

Init ==
  /\ metrics = [p \in Peer |-> Fresh]
  /\ connected = {} /\ pending = {} /\ blacklist = {} /\ cut = {}
  /\ closing = [p \in Peer |-> 0] /\ unanswered = [p \in Peer |-> 0]
  /\ offline = [p \in Peer |-> Online] /\ status = [p \in Peer |-> "online"]
  /\ blame = [p \in Peer |-> {}]
  /\ spent = [stakes |-> 0, duplicates |-> 0]

\* peer:connect: seen, and given a stake age of seven days.
Connect(p) ==
  /\ p \notin connected /\ closing[p] < MaxClosing
  /\ Scored(p, <<Staked(metrics[p], SevenDays)>>, connected \cup {p})
  /\ RecordSeen(p)
  /\ unanswered' = [unanswered EXCEPT ![p] = 0]
  /\ UNCHANGED <<pending, blame, spent>>

\* The connection breaks: peer:disconnect.
Disconnect(p) ==
  /\ p \in connected
  /\ connected' = connected \ {p}
  /\ unanswered' = [unanswered EXCEPT ![p] = 0]
  /\ RecordOffline(p)
  /\ UNCHANGED <<metrics, closing, pending, blacklist, blame, cut, spent>>

\* A second connection of p loses the tie-break and is destroyed.
Duplicate(p) ==
  /\ p \in connected /\ spent.duplicates < MaxDuplicates
  /\ spent' = [spent EXCEPT !.duplicates = @ + 1]
  /\ closing' = [closing EXCEPT ![p] = @ + 1]
  /\ UNCHANGED <<metrics, connected, offline, status, pending, unanswered, blacklist,
                 blame, cut>>

\* The close event of a destroyed connection: peer:disconnect, even if p has another.
OnClose(p) ==
  /\ closing[p] > 0
  /\ closing' = [closing EXCEPT ![p] = @ - 1]
  /\ RecordOffline(p)
  /\ UNCHANGED <<metrics, connected, pending, unanswered, blacklist, blame, cut, spent>>

Talks(p) == p \in connected \/ closing[p] > 0

\* A transaction or an announcement is judged, or an invalid batch of headers; a valid
\* batch counts once per header.  The validator hears of it before the health record.
OnData(p, good) ==
  /\ Talks(p)
  /\ \E n \in IF good THEN {1, HeadersBatch} ELSE {1} :
       Scored(p, [i \in 1 .. n |-> Judged(metrics[p], good, i)], connected)
  /\ RecordSeen(p)
  /\ IF good THEN UNCHANGED blame ELSE Blame(p, "invalid")
  /\ UNCHANGED <<pending, unanswered, spent>>

\* A pong answers the ping that is pending, whichever ping it was sent for.
OnPong(p) ==
  /\ Talks(p) /\ unanswered[p] > 0
  /\ unanswered' = [unanswered EXCEPT ![p] = @ - 1]
  /\ RecordSeen(p)
  /\ IF p \notin pending
     THEN UNCHANGED <<metrics, connected, closing, blacklist, cut, pending>>
     ELSE /\ pending' = pending \ {p}
          /\ \E latency \in {0, 1} : Scored(p, <<Ponged(metrics[p], latency)>>, connected)
  /\ UNCHANGED <<blame, spent>>

\* The ping timer, for each peer: a ping still pending has timed out; ping again.
PingTimer(p) ==
  /\ p \in connected
  /\ pending' = pending \cup {p}
  /\ IF p \in pending /\ ~InGracePeriod(p)
     THEN /\ Scored(p, <<Missed(metrics[p])>>, connected)
          /\ Blame(p, "timeout")
     ELSE UNCHANGED <<metrics, connected, closing, blacklist, cut, blame>>
  \* at most two are kept under way
  /\ unanswered' = [unanswered EXCEPT ![p] = IF @ < 2 THEN @ + 1 ELSE @]
  /\ UNCHANGED <<offline, status, spent>>

\* A registration of p is seen on chain: the stake age may be less than a day.
Registered(p) ==
  /\ spent.stakes < MaxStakes
  /\ spent' = [spent EXCEPT !.stakes = @ + 1]
  /\ \E points \in StakePoints :
       /\ Scored(p, <<Staked(metrics[p], points)>>, connected)
       /\ IF points < 0 THEN Blame(p, "fresh") ELSE UNCHANGED blame
  /\ UNCHANGED <<offline, status, pending, unanswered>>

\* checkAll reports a change to grace or to inactive.
HealthCheck ==
  /\ status' = [p \in Peer |-> IF GetStatus(p) \in {"grace", "inactive"}
                               THEN GetStatus(p) ELSE status[p]]
  /\ UNCHANGED <<metrics, connected, closing, offline, pending, unanswered, blacklist,
                 blame, cut, spent>>

Tick ==
  /\ offline' = [p \in Peer |-> IF offline[p] \in 0 .. Inactive - 1
                                THEN offline[p] + 1 ELSE offline[p]]
  /\ UNCHANGED <<metrics, connected, closing, status, pending, unanswered, blacklist,
                 blame, cut, spent>>

Next ==
  \/ \E p \in Peer : Connect(p)
  \/ \E p \in Peer : Disconnect(p)
  \/ \E p \in Peer : Duplicate(p)
  \/ \E p \in Peer : OnClose(p)
  \/ \E p \in Peer, good \in BOOLEAN : OnData(p, good)
  \/ \E p \in Peer : OnPong(p)
  \/ \E p \in Peer : PingTimer(p)
  \/ \E p \in Peer : Registered(p)
  \/ HealthCheck
  \/ Tick

Spec == Init /\ [][Next]_vars

\* The ping timer fires, and a peer answers.
FairSpec ==
  /\ Spec
  /\ \A p \in Peer : WF_vars(PingTimer(p)) /\ WF_vars(OnPong(p))
------------------------------------------------------------------------------
(* Properties.                                                             *)

\* The types; the windows hold, and no more pings are answered than sent.
TypeOK ==
  /\ \A p \in Peer :
       /\ metrics[p].pings \in 0 .. UptimeWindow /\ metrics[p].pongs \in 0 .. metrics[p].pings
       /\ metrics[p].latencies \in Seq({0, 1}) /\ Len(metrics[p].latencies) <= LatencyWindow
       /\ metrics[p].accuracyLog \in Seq(BOOLEAN)
       /\ Len(metrics[p].accuracyLog) <= AccuracyWindow
       /\ metrics[p].stake \in StakePoints \cup {0}
  /\ \A S \in {connected, pending, blacklist, cut} : S \subseteq Peer
  /\ closing \in [Peer -> 0 .. MaxClosing + MaxDuplicates] /\ unanswered \in [Peer -> 0 .. 2]
  /\ offline \in [Peer -> {Online} \cup 0 .. Inactive]
  /\ status \in [Peer -> {"online", "offline", "grace", "inactive"}]
  /\ blame \in [Peer -> SUBSET {"invalid", "timeout", "fresh"}]
  /\ spent.stakes <= MaxStakes /\ spent.duplicates <= MaxDuplicates

\* "Peers below a threshold score are auto-disconnected" (docs/whitepaper.md:15), and
\* stay away: one that connects again is cut by the update that greets it, though
\* nobody reads the blacklist.
NoLowScoreConnected == \A p \in connected : ~(Score(metrics[p]) < DisconnectThreshold)

\* A peer that sent no bad data, missed no ping and has no stake younger than a day
\* is never cut; timeouts alone never put one on the blacklist.
CutsAreEarned ==
  /\ \A p \in cut : blame[p] # {}
  /\ \A p \in blacklist : blame[p] \cap {"invalid", "fresh"} # {}

\* The windows hold, and what they make of a peer is earned.
ReputationConsistent == TypeOK /\ CutsAreEarned

\* A connected peer that was recorded offline, because another connection of it was
\* closed, is online again as soon as it answers a ping.
OnlineAgain ==
  \A p \in Peer : (p \in connected /\ offline[p] # Online)
                    ~> (p \notin connected \/ offline[p] = Online)
==============================================================================
